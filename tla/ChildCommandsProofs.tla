-------------------------- MODULE ChildCommandsProofs --------------------------
(***************************************************************************)
(* Proofs about ChildCommands, for pipes, chunks and payloads of any size  *)
(* and output of any length: what a call leaves running it could not hear  *)
(* of any more, the outcome it reports is what happened, and the output it *)
(* returns is what the command wrote.                                      *)
(***************************************************************************)
EXTENDS ChildCommands, TLAPS, SequenceTheorems

(* Where a caller of some kind can be, and what it knows there.             *)
Phases ==
  /\ at = "start" => \A p \in Processes : ~Alive(p)
  /\ at = "start" => process["child"].is = "none"
  /\ at \in {"select", "drain stdout", "drain stderr"} => kind = "bash"
  /\ at \in {"poll", "clock"} => kind = "pwshTimed"
  /\ at = "feed" => kind = "hook"
  /\ at = "collect" => kind \in {"pwshTimed", "pwsh", "repl", "hook"}
  /\ at = "collect" /\ kind = "hook" => sent = Payload
  /\ Running => process["child"].is # "none"
  /\ at # "returned" =>
       \/ outcome.how = "none"
       \/ outcome.how = "timeout" /\ expired /\ at = "collect" /\ kind = "pwshTimed"

(* Who writes holds the pipe; nobody comes back to one that is at its end.  *)
Held ==
  /\ \A p \in Processes : process[p].is = "writing" => process[p].stream \in ends[p]
  /\ at \in {"drain stdout", "drain stderr"} => ~Alive("child")
  /\ at = "drain stderr" => \A p \in Processes : "stdout" \notin ends[p]

IInv == Inv /\ Phases /\ Held

--------------------------------------------------------------------------------
(* Decoding yields as many characters as there are bytes. *)
LEMMA DecodeTyped ==
  ASSUME NEW b \in Seq(Bytes)
  PROVE  Decode(b) \in Seq(Bytes \union {"?"})
<1>1. /\ Len(b) \in Nat /\ DOMAIN b = 1 .. Len(b)
      /\ \A i \in 1 .. Len(b) : b[i] \in Bytes
  OBVIOUS
<1>2. Decode(b) \in [1 .. Len(b) -> Bytes \union {"?"}]
  BY <1>1 DEF Decode
<1> QED
  BY <1>1, <1>2, IsASeq

(* The states a process moves to are states. *)
LEMMA StatesTyped ==
  /\ Doing("free") \in States /\ Doing("reading") \in States /\ Doing("dead") \in States
  /\ \A s \in Streams, c \in Characters : Writing(s, c) \in States
  BY DEF States

(* What a process can be doing. *)
LEMMA StateIs ==
  ASSUME NEW w \in States
  PROVE  w.is \in {"none", "free", "reading", "writing", "dead"}
<1>1. CASE w \in {Doing(what) : what \in {"none", "free", "reading", "dead"}}
  <2>1. PICK what \in {"none", "free", "reading", "dead"} : w = Doing(what)
    BY <1>1, Zenon
  <2>2. w.is = what
    BY <2>1 DEF Doing
  <2> QED
    BY <2>2
<1>2. CASE w \in {Writing(s, c) : s \in Streams, c \in Characters}
  <2>1. PICK s \in Streams, c \in Characters : w = Writing(s, c)
    BY <1>2
  <2> QED
    BY <2>1 DEF Writing
<1> QED
  BY <1>1, <1>2 DEF States

(* A writer has a stream and a character of bytes. *)
LEMMA WriterTyped ==
  ASSUME NEW w \in States, w.is = "writing"
  PROVE  w.stream \in Streams /\ w.char \in Seq(Bytes)
<1>1. PICK s \in Streams, c \in Characters : w = Writing(s, c)
  <2>1. CASE w \in {Doing(what) : what \in {"none", "free", "reading", "dead"}}
    <3>1. PICK what \in {"none", "free", "reading", "dead"} : w = Doing(what)
      BY <2>1, Zenon
    <3>2. w.is = what
      BY <3>1 DEF Doing
    <3> QED
      BY <3>2
  <2>2. CASE w \in {Writing(s, c) : s \in Streams, c \in Characters}
    BY <2>2
  <2> QED
    BY <2>1, <2>2 DEF States
<1>2. c \in Seq(Bytes)
  <2>1. c = <<"a">> \/ c = <<"w1", "w2">>
    BY DEF Characters
  <2>2. <<"a">> \in Seq(Bytes)
    BY DEF Bytes
  <2>3. <<"w1", "w2">> \in Seq(Bytes)
    BY DEF Bytes
  <2> QED
    BY <2>1, <2>2, <2>3
<1> QED
  BY <1>1, <1>2 DEF Writing

--------------------------------------------------------------------------------
(* The types, one action at a time. *)
LEMMA KillTyped ==
  ASSUME TypeOK, Kill
  PROVE  /\ process' \in [Processes -> States] /\ code' \in Codes
         /\ ends' \in [Processes -> SUBSET Ends]
<1>1. CASE Alive("child")
  <2>1. process' \in [Processes -> States]
    BY <1>1, StatesTyped DEF TypeOK, Kill, Processes
  <2>2. ends' \in [Processes -> SUBSET Ends]
    BY <1>1 DEF TypeOK, Kill, Processes
  <2> QED BY <1>1, <2>1, <2>2 DEF Kill, Codes
<1>2. CASE ~Alive("child")
  BY <1>2 DEF TypeOK, Kill
<1> QED BY <1>1, <1>2

LEMMA InterpretationTyped ==
  ASSUME TypeOK
  PROVE  Interpretation \in [how : {"exit", "unsaid", "allow", "deny", "warn"}, code : Codes]
  BY ZenonT(40) DEF TypeOK, Interpretation, Verdict, Outcome, Codes, Killed, Kinds

LEMMA CallerTyped ==
  ASSUME TypeOK, Blocked \/ CannotStart \/ Start \/ SeeExit \/ TimesOut \/ Poll \/ LookAtClock
                 \/ Feed \/ FeedFails \/ Fed \/ NextStream
  PROVE  TypeOK'
<1> USE SizesAssumption
<1>1. 0 \in Codes
  BY DEF Codes
<1>2. CASE Blocked
  BY <1>1, <1>2 DEF TypeOK, Blocked, Return, Outcome, pipes, stdin
<1>3. CASE CannotStart
  BY <1>1, <1>3 DEF TypeOK, CannotStart, Return, Outcome, Failure, pipes, stdin
<1>4. CASE Start
  <2>1. process' \in [Processes -> States]
    BY <1>4, StatesTyped DEF TypeOK, Start
  <2>3. ends' \in [Processes -> SUBSET Ends]
    BY <1>4 DEF TypeOK, Start, Ends, Processes
  <2>2. /\ at' \in {"select", "poll", "feed", "collect", "returned"}
        /\ outcome' \in [how : {"background"}, code : Codes] \/ outcome' = outcome
    BY <1>1, <1>4 DEF TypeOK, Start, Return, Outcome, Kinds
  <2> QED
    BY <1>4, <2>1, <2>2, <2>3 DEF TypeOK, Start, pipes, stdin
<1>5. CASE SeeExit
  BY <1>5 DEF TypeOK, SeeExit, pipes, stdin
<1>6. CASE TimesOut
  BY <1>1, <1>6, KillTyped DEF TypeOK, TimesOut, Return, Outcome, pipes, stdin
<1>7. CASE Poll
  BY <1>7 DEF TypeOK, Poll, pipes, stdin
<1>8. CASE LookAtClock
  <2>1. CASE expired
    <3>1. Kill /\ at' = "collect" /\ outcome' = Outcome("timeout", 0)
      BY <1>8, <2>1 DEF LookAtClock
    <3>2. outcome' \in [how : {"timeout"}, code : Codes]
      BY <1>1, <3>1 DEF Outcome
    <3>3. process' \in [Processes -> States] /\ code' \in Codes
          /\ ends' \in [Processes -> SUBSET Ends]
      BY <3>1, KillTyped
    <3> QED
      BY <1>8, <3>1, <3>2, <3>3 DEF TypeOK, LookAtClock, pipes, stdin
  <2>2. CASE ~expired
    BY <1>8, <2>2 DEF TypeOK, LookAtClock, pipes, stdin
  <2> QED
    BY <2>1, <2>2
<1>9. CASE Feed
  BY <1>9 DEF TypeOK, Feed, pipes
<1>10. CASE FeedFails
  BY <1>1, <1>10 DEF TypeOK, FeedFails, Return, Outcome, Failure, pipes, stdin
<1>11. CASE Fed
  BY <1>11 DEF TypeOK, Fed, pipes, stdin
<1>12. CASE NextStream
  BY <1>12 DEF TypeOK, NextStream, pipes, stdin
<1> QED
  BY <1>2, <1>3, <1>4, <1>5, <1>6, <1>7, <1>8, <1>9, <1>10, <1>11, <1>12

(* What is read leaves a shorter pipe. *)
LEMMA ReadChunkTyped ==
  ASSUME TypeOK, NEW s \in Streams, ReadChunk(s)
  PROVE  TypeOK'
<1> DEFINE n == Least(Len(pipe[s]), BufferSize)
<1>1. /\ pipe[s] \in Seq(Bytes) /\ Len(pipe[s]) \in Nat /\ PipeSize \in Nat
      /\ n \in 0 .. Len(pipe[s])
  <2>1. pipe[s] \in Seq(Bytes)
    BY DEF TypeOK
  <2>2. Len(pipe[s]) \in Nat
    BY <2>1
  <2> QED
    BY <2>1, <2>2, SizesAssumption DEF Least
<1>2. /\ SubSeq(pipe[s], 1, n) \in Seq(Bytes)
      /\ SubSeq(pipe[s], n + 1, Len(pipe[s])) \in Seq(Bytes)
      /\ Len(SubSeq(pipe[s], n + 1, Len(pipe[s]))) <= Len(pipe[s])
  <2>1. /\ \A i \in 1 .. n : pipe[s][i] \in Bytes
        /\ \A i \in n + 1 .. Len(pipe[s]) : pipe[s][i] \in Bytes
    BY <1>1
  <2> HIDE DEF n
  <2> QED
    BY <1>1, <2>1, SubSeqProperties
<1>3. Decode(SubSeq(pipe[s], 1, n)) \in Seq(Bytes \union {"?"})
  BY <1>2, DecodeTyped
<1>4. /\ text' = [text EXCEPT ![s] = @ \o Decode(SubSeq(pipe[s], 1, n))]
      /\ pipe' = [pipe EXCEPT ![s] = SubSeq(@, n + 1, Len(@))]
  BY DEF ReadChunk
<1> HIDE DEF n
<1>5. /\ text' \in [Streams -> Seq(Bytes \union {"?"})]
      /\ pipe' \in [Streams -> Seq(Bytes)]
      /\ \A t \in Streams : Len(pipe'[t]) <= PipeSize
  <2>1. /\ text \in [Streams -> Seq(Bytes \union {"?"})]
        /\ pipe \in [Streams -> Seq(Bytes)]
        /\ \A t \in Streams : Len(pipe[t]) <= PipeSize
    BY DEF TypeOK
  <2>2. text[s] \o Decode(SubSeq(pipe[s], 1, n)) \in Seq(Bytes \union {"?"})
    BY <1>3, <2>1
  <2>3. text' \in [Streams -> Seq(Bytes \union {"?"})]
    BY <1>4, <2>1, <2>2
  <2>4. pipe' \in [Streams -> Seq(Bytes)]
    BY <1>2, <1>4, <2>1
  <2>5. \A t \in Streams :
          pipe'[t] = IF t = s THEN SubSeq(pipe[s], n + 1, Len(pipe[s])) ELSE pipe[t]
    BY <1>4, <2>1
  <2>6. Len(SubSeq(pipe[s], n + 1, Len(pipe[s]))) <= PipeSize
    <3> DEFINE rest == SubSeq(pipe[s], n + 1, Len(pipe[s]))
    <3>1. Len(rest) \in Nat
      BY <1>2
    <3>2. Len(rest) <= Len(pipe[s]) /\ Len(pipe[s]) <= PipeSize
      BY <1>2, <2>1
    <3> HIDE DEF rest
    <3>3. Len(rest) <= PipeSize
      BY <1>1, <3>1, <3>2
    <3> QED
      BY <3>3 DEF rest
  <2> QED
    BY <2>1, <2>3, <2>4, <2>5, <2>6
<1> QED
  BY <1>5 DEF TypeOK, ReadChunk, stdin

LEMMA CollectSomeTyped ==
  ASSUME TypeOK, NEW s \in Streams, CollectSome(s)
  PROVE  TypeOK'
<1>1. /\ read' \in [Streams -> Seq(Bytes)] /\ pipe' \in [Streams -> Seq(Bytes)]
      /\ \A t \in Streams : Len(pipe'[t]) <= PipeSize
  <2>1. /\ pipe \in [Streams -> Seq(Bytes)] /\ read \in [Streams -> Seq(Bytes)]
        /\ \A t \in Streams : Len(pipe[t]) <= PipeSize
    BY DEF TypeOK
  <2>2. read' = [read EXCEPT ![s] = @ \o pipe[s]] /\ pipe' = [pipe EXCEPT ![s] = <<>>]
    BY DEF CollectSome
  <2>3. read[s] \o pipe[s] \in Seq(Bytes) /\ <<>> \in Seq(Bytes) /\ Len(<<>>) = 0
    BY <2>1, EmptySeq
  <2>4. \A t \in Streams : pipe'[t] = IF t = s THEN <<>> ELSE pipe[t]
    BY <2>1, <2>2
  <2>5. 0 <= PipeSize
    BY SizesAssumption
  <2>6. \A t \in Streams : Len(pipe'[t]) <= PipeSize
    BY <2>1, <2>3, <2>4, <2>5
  <2> QED
    BY <2>1, <2>2, <2>3, <2>6
<1> QED
  BY <1>1 DEF TypeOK, CollectSome, stdin

LEMMA CollectedTyped ==
  ASSUME TypeOK, Collected
  PROVE  TypeOK'
<1>1. \A s \in Streams : text[s] \o Decode(read[s]) \in Seq(Bytes \union {"?"})
  <2>1. /\ text \in [Streams -> Seq(Bytes \union {"?"})]
        /\ read \in [Streams -> Seq(Bytes)]
    BY DEF TypeOK
  <2>2. \A s \in Streams : Decode(read[s]) \in Seq(Bytes \union {"?"})
    BY <2>1, DecodeTyped
  <2> QED
    BY <2>1, <2>2, ConcatProperties
<1>2. /\ text' \in [Streams -> Seq(Bytes \union {"?"})]
      /\ read' \in [Streams -> Seq(Bytes)]
  <2>1. /\ text' = [s \in Streams |-> text[s] \o Decode(read[s])]
        /\ read' = [s \in Streams |-> <<>>]
    BY DEF Collected
  <2> QED
    BY <1>1, <2>1, EmptySeq
<1>3. outcome' = outcome \/ outcome' = Interpretation
  BY DEF Collected, Return
<1> QED
  BY <1>2, <1>3, InterpretationTyped DEF TypeOK, Collected, Return, stdin

(* The processes, the clock. *)
LEMMA WorldTyped ==
  ASSUME TypeOK, Fork \/ Expire \/ \E p \in Processes : Moves(p)
  PROVE  TypeOK'
<1> USE SizesAssumption
<1>1. CASE Fork
  <2>1. process' \in [Processes -> States]
    BY <1>1, StatesTyped DEF TypeOK, Fork, Becomes
  <2>2. ends' \in [Processes -> SUBSET Ends]
    BY <1>1 DEF TypeOK, Fork, Processes
  <2> QED
    BY <1>1, <2>1, <2>2 DEF TypeOK, Fork, pipes, stdin
<1>2. CASE Expire
  BY <1>2 DEF TypeOK, Expire, pipes, stdin
<1>3. ASSUME NEW p \in Processes, Put(p) PROVE TypeOK'
  <2> DEFINE s == process[p].stream
             c == process[p].char
  <2>1. s \in Streams /\ c \in Seq(Bytes)
    <3>1. process[p] \in States /\ process[p].is = "writing"
      BY <1>3 DEF TypeOK, Put
    <3> QED
      BY <3>1, WriterTyped
  <2>2. /\ Len(pipe[s]) + Len(c) <= PipeSize
        /\ pipe' = [pipe EXCEPT ![s] = @ \o c]
        /\ written' = [written EXCEPT ![s] = @ \o c]
    BY <1>3 DEF Put
  <2> HIDE DEF s, c
  <2>3. /\ pipe' \in [Streams -> Seq(Bytes)] /\ written' \in [Streams -> Seq(Bytes)]
        /\ \A t \in Streams : Len(pipe'[t]) <= PipeSize
    <3>1. /\ pipe \in [Streams -> Seq(Bytes)] /\ written \in [Streams -> Seq(Bytes)]
          /\ \A t \in Streams : Len(pipe[t]) <= PipeSize
      BY DEF TypeOK
    <3>2. /\ pipe[s] \o c \in Seq(Bytes) /\ written[s] \o c \in Seq(Bytes)
          /\ Len(pipe[s] \o c) <= PipeSize
      BY <2>1, <2>2, <3>1, ConcatProperties
    <3>3. \A t \in Streams : pipe'[t] = IF t = s THEN pipe[s] \o c ELSE pipe[t]
      BY <2>2, <3>1
    <3>4. \A t \in Streams : Len(pipe'[t]) <= PipeSize
      BY <3>1, <3>2, <3>3
    <3> QED
      BY <2>1, <2>2, <3>1, <3>2, <3>4
  <2>4. process' \in [Processes -> States]
    BY <1>3, StatesTyped DEF TypeOK, Put, Becomes
  <2> QED
    BY <1>3, <2>3, <2>4 DEF TypeOK, Put, stdin
<1>4. ASSUME NEW p \in Processes, WantToRead(p) PROVE TypeOK'
  <2>1. process' \in [Processes -> States]
    BY <1>4, StatesTyped DEF TypeOK, WantToRead, Becomes
  <2> QED
    BY <1>4, <2>1 DEF TypeOK, WantToRead, pipes, stdin
<1>5. ASSUME NEW p \in Processes, Take(p) PROVE TypeOK'
  <2>1. process' \in [Processes -> States]
    BY <1>5, StatesTyped DEF TypeOK, Take, Becomes
  <2> QED
    <3>1. sent \in 0 .. Payload
      BY DEF TypeOK
    <3>2. sent - sent <= PipeSize /\ sent \in 0 .. sent
      BY <3>1
    <3> QED
      BY <1>5, <2>1, <3>1, <3>2 DEF TypeOK, Take, pipes
<1>6. ASSUME NEW p \in Processes, NEW s \in Streams, NEW c \in Characters, WantToWrite(p, s, c)
      PROVE  TypeOK'
  <2>1. process' \in [Processes -> States]
    BY <1>6, StatesTyped DEF TypeOK, WantToWrite, Becomes
  <2> QED
    BY <1>6, <2>1 DEF TypeOK, WantToWrite, pipes, stdin
<1>7. ASSUME NEW p \in Processes, NEW c \in Codes, Exit(p, c) PROVE TypeOK'
  <2>1. process' \in [Processes -> States]
    BY <1>7, StatesTyped DEF TypeOK, Exit, Becomes
  <2>2. ends' \in [Processes -> SUBSET Ends]
    BY <1>7 DEF TypeOK, Exit
  <2> QED
    BY <1>7, <2>1, <2>2 DEF TypeOK, Exit, pipes, stdin
<1>8. ASSUME NEW p \in Processes, NEW e \in Ends, CloseEnd(p, e) PROVE TypeOK'
  <2>1. ends' \in [Processes -> SUBSET Ends]
    BY <1>8 DEF TypeOK, CloseEnd
  <2> QED
    BY <1>8, <2>1 DEF TypeOK, CloseEnd, pipes, stdin
<1> QED
  BY <1>1, <1>2, <1>3, <1>4, <1>5, <1>6, <1>7, <1>8 DEF Moves

--------------------------------------------------------------------------------
(* Every action keeps the types.                                            *)
LEMMA TypesKept ==
  ASSUME TypeOK, Next
  PROVE  TypeOK'
<1>1. CASE \E s \in Streams : ReadChunk(s) \/ CollectSome(s)
  BY <1>1, ReadChunkTyped, CollectSomeTyped
<1>2. CASE Collected
  BY <1>2, CollectedTyped
<1>3. CASE \/ Blocked \/ CannotStart \/ Start \/ SeeExit \/ TimesOut \/ Poll \/ LookAtClock
           \/ Feed \/ FeedFails \/ Fed \/ NextStream
  BY <1>3, CallerTyped
<1>4. CASE Fork \/ Expire \/ \E p \in Processes : Moves(p)
  BY <1>4, WorldTyped
<1> QED
  BY <1>1, <1>2, <1>3, <1>4 DEF Next, Caller

(* The first state. *)
LEMMA InitHolds == Init => IInv
<1> SUFFICES ASSUME Init PROVE IInv
  OBVIOUS
<1> USE SizesAssumption DEF Init
<1>1. /\ pipe \in [Streams -> Seq(Bytes)] /\ \A s \in Streams : pipe[s] = <<>>
      /\ text \in [Streams -> Seq(Bytes \union {"?"})]
  <2>1. <<>> \in Seq(Bytes) /\ <<>> \in Seq(Bytes \union {"?"})
    BY EmptySeq
  <2> QED
    BY <2>1
<1>2. \A s \in Streams : Len(pipe[s]) <= PipeSize
  <2>1. Len(<<>>) = 0
    BY EmptySeq
  <2> QED
    BY <1>1, <2>1
<1>3. process \in [Processes -> States]
  BY DEF States
<1>4. TypeOK
  <2>1. outcome \in [how : {"none"}, code : Codes] /\ code \in Codes
    BY DEF Outcome, Codes
  <2>2. sent \in 0 .. Payload /\ taken \in 0 .. sent /\ sent - taken <= PipeSize
    OBVIOUS
  <2>4. ends \in [Processes -> SUBSET Ends]
    OBVIOUS
  <2>3. kind \in Kinds /\ at = "start" /\ expired \in BOOLEAN /\ read = pipe /\ written = pipe
    OBVIOUS
  <2> HIDE DEF Init
  <2> QED
    BY <1>1, <1>2, <1>3, <2>1, <2>2, <2>3, <2>4 DEF TypeOK
<1>5. \A p \in Processes : process[p].is = "none" /\ ~Alive(p)
  BY DEF Doing, Alive
<1>6. OnlyDetachedSurvive /\ OutcomeIsTrue
  BY DEF OnlyDetachedSurvive, OutcomeIsTrue
<1>7. Phases
  BY <1>5 DEF Phases, Outcome, Running, Processes
<1>8. Held
  BY <1>5 DEF Held
<1> QED
  BY <1>4, <1>6, <1>7, <1>8 DEF IInv, Inv

(* As long as the call runs, a step of the processes or of the clock leaves *)
(* the caller where it is.                                                  *)
LEMMA WorldKeepsPhases ==
  ASSUME TypeOK, Phases, Running, at' = at, outcome' = outcome, kind' = kind, sent' = sent,
         expired => expired', process'["child"].is # "none"
  PROVE  Phases' /\ OnlyDetachedSurvive' /\ OutcomeIsTrue'
  BY DEF Phases, Running, OnlyDetachedSurvive, OutcomeIsTrue

LEMMA WorldHolds ==
  ASSUME TypeOK, Phases, Fork \/ Expire \/ \E p \in Processes : Moves(p)
  PROVE  Phases' /\ OnlyDetachedSurvive' /\ OutcomeIsTrue'
<1>1. CASE Expire
  BY <1>1, WorldKeepsPhases DEF Expire, Phases, pipes, stdin
<1>2. \A p \in Processes, w \in States :
        Becomes(p, w) /\ process["child"].is # "none" /\ w.is # "none"
          => process'["child"].is # "none"
  BY DEF TypeOK, Becomes, Processes
<1>3. /\ Doing("free").is = "free" /\ Doing("reading").is = "reading" /\ Doing("dead").is = "dead"
      /\ \A s, c : Writing(s, c).is = "writing"
  BY DEF Doing, Writing
<1>4. CASE Fork
  <2>1. process'["child"].is # "none"
    BY <1>2, <1>3, <1>4, StatesTyped DEF Fork, Phases, Processes
  <2> QED
    BY <1>4, <2>1, WorldKeepsPhases DEF Fork, stdin
<1>5. ASSUME NEW p \in Processes, Moves(p)
      PROVE  Phases' /\ OnlyDetachedSurvive' /\ OutcomeIsTrue'
  <2>1. /\ Running /\ at' = at /\ outcome' = outcome /\ kind' = kind /\ sent' = sent
        /\ expired' = expired
    BY <1>5 DEF Moves, Put, WantToRead, Take, WantToWrite, Exit, CloseEnd, stdin
  <2>2. process' = process \/ \E w \in States : Becomes(p, w) /\ w.is # "none"
    BY <1>3, <1>5, StatesTyped DEF Moves, Put, WantToRead, Take, WantToWrite, Exit, CloseEnd
  <2>3. process'["child"].is # "none"
    BY <1>2, <2>1, <2>2 DEF Phases
  <2> QED
    BY <2>1, <2>3, WorldKeepsPhases
<1> QED
  BY <1>1, <1>4, <1>5

--------------------------------------------------------------------------------
(* The caller.  A child that was killed or has ended is not alive.          *)
LEMMA KillEnds ==
  ASSUME TypeOK, Kill, process["child"].is # "none"
  PROVE  /\ process'["child"].is = "dead"
         /\ \A p \in Processes : p # "child" => process'[p] = process[p]
<1>1. process["child"] \in States
  BY DEF TypeOK, Processes
<1>2. process["child"].is \in {"none", "free", "reading", "writing", "dead"}
  BY <1>1, StateIs
<1>3. process \in [Processes -> States] /\ "child" \in Processes
  BY DEF TypeOK, Processes
<1>4. Doing("dead").is = "dead"
  BY DEF Doing
<1>5. CASE Alive("child")
  <2>1. process' = [process EXCEPT !["child"] = Doing("dead")]
    BY <1>5 DEF Kill
  <2> QED
    BY <1>3, <1>4, <2>1
<1>6. CASE ~Alive("child")
  <2>1. process' = process
    BY <1>6 DEF Kill
  <2> QED
    BY <1>2, <1>6, <2>1 DEF Alive
<1> QED
  BY <1>5, <1>6

(* Steps that leave the call running.                                       *)
LEMMA CallerGoesOn ==
  ASSUME TypeOK, Phases,
         SeeExit \/ Poll \/ LookAtClock \/ Feed \/ Fed \/ NextStream
           \/ \E s \in Streams : ReadChunk(s) \/ CollectSome(s)
  PROVE  Phases' /\ OnlyDetachedSurvive' /\ OutcomeIsTrue'
<1>1. Running /\ at # "start" /\ process["child"].is # "none"
  BY DEF Phases, Running, SeeExit, Poll, LookAtClock, Feed, Fed, NextStream, ReadChunk,
         CollectSome, Collects
<1>2. SUFFICES Phases' /\ at' # "returned"
  BY DEF OnlyDetachedSurvive, OutcomeIsTrue
<1>3. CASE SeeExit
  BY <1>1, <1>3 DEF SeeExit, Phases, Running
<1>4. CASE Poll
  BY <1>1, <1>4 DEF Poll, Phases, Running
<1>5. CASE LookAtClock
  <2>1. CASE expired
    <3>1. Kill /\ at' = "collect" /\ outcome' = Outcome("timeout", 0) /\ at = "clock"
      BY <1>5, <2>1 DEF LookAtClock
    <3>2. process'["child"].is # "none"
      BY <1>1, <3>1, KillEnds
    <3> QED
      BY <1>5, <2>1, <3>1, <3>2 DEF LookAtClock, Phases, Outcome, Running
  <2>2. CASE ~expired
    BY <1>1, <1>5, <2>2 DEF LookAtClock, Phases, Running
  <2> QED
    BY <2>1, <2>2
<1>6. CASE Feed
  BY <1>1, <1>6 DEF Feed, Phases, Running
<1>7. CASE Fed
  BY <1>1, <1>7 DEF Fed, Phases, Running, stdin
<1>8. CASE NextStream
  BY <1>1, <1>8 DEF NextStream, Phases, Running
<1>9. ASSUME NEW s \in Streams, ReadChunk(s) \/ CollectSome(s)
      PROVE  Phases' /\ at' # "returned"
  <2>1. UNCHANGED <<kind, at, process, sent, expired, outcome>>
    BY <1>9 DEF ReadChunk, CollectSome, stdin
  <2> QED
    BY <1>1, <2>1 DEF Phases, Running, Alive
<1> QED
  BY <1>3, <1>4, <1>5, <1>6, <1>7, <1>8, <1>9

(* Steps that end it before a process ran.                                  *)
LEMMA NotStarted ==
  ASSUME TypeOK, Phases, Blocked \/ CannotStart
  PROVE  Phases' /\ OnlyDetachedSurvive' /\ OutcomeIsTrue'
<1>1. /\ \A p \in Processes : ~Alive(p)
      /\ process["child"].is = "none"
      /\ process' = process /\ at' = "returned" /\ kind' = kind
  BY DEF Phases, Blocked, CannotStart, Return
<1>2. outcome'.how \in {"blocked", "warn", "failed"}
  BY DEF Blocked, CannotStart, Return, Outcome, Failure
<1>3. \A p \in Processes : ~Alive(p)'
  BY <1>1 DEF Alive
<1>4. Phases'
  BY <1>1 DEF Phases, Running
<1>5. OnlyDetachedSurvive'
  BY <1>3 DEF OnlyDetachedSurvive, Processes
<1>6. OutcomeIsTrue'
  BY <1>1, <1>2 DEF OutcomeIsTrue, Outcome
<1> QED
  BY <1>4, <1>5, <1>6

LEMMA StartHolds ==
  ASSUME TypeOK, Phases, Start
  PROVE  Phases' /\ OnlyDetachedSurvive' /\ OutcomeIsTrue'
<1>1. process'["child"].is = "free"
  BY DEF TypeOK, Start, Doing, Processes
<1>2. outcome.how = "none" /\ kind' = kind /\ kind \in Kinds
  BY DEF TypeOK, Start, Phases
<1>3. CASE kind = "background"
  <2>1. at' = "returned" /\ outcome'.how = "background"
    BY <1>3 DEF Start, Return, Outcome
  <2> QED
    <3>1. Phases' /\ OnlyDetachedSurvive'
      BY <1>2, <1>3, <2>1 DEF Phases, OnlyDetachedSurvive, Running
    <3>2. outcome' # Outcome("exit", 0)
      BY <2>1 DEF Outcome
    <3>3. OutcomeIsTrue'
      BY <1>2, <1>3, <2>1, <3>2 DEF OutcomeIsTrue
    <3> QED
      BY <3>1, <3>3
<1>4. CASE kind # "background"
  <2>1. /\ at' = CASE kind = "bash" -> "select" [] kind = "pwshTimed" -> "poll"
                     [] kind = "hook" -> "feed"   [] OTHER -> "collect"
        /\ outcome' = outcome
    BY <1>4 DEF Start
  <2>2. at' \in {"select", "poll", "feed", "collect"}
    BY <2>1
  <2>3. /\ at' = "select" => kind = "bash"
        /\ at' = "poll" => kind = "pwshTimed"
        /\ at' = "feed" => kind = "hook"
        /\ at' = "collect" => kind \in {"pwsh", "repl"}
    BY <1>2, <1>4, <2>1 DEF Kinds
  <2> QED
    BY <1>1, <1>2, <2>1, <2>2, <2>3 DEF Phases, OnlyDetachedSurvive, OutcomeIsTrue, Running
<1> QED
  BY <1>3, <1>4

(* Steps that end it afterwards.                                            *)
LEMMA TimesOutHolds ==
  ASSUME TypeOK, Phases, TimesOut
  PROVE  Phases' /\ OnlyDetachedSurvive' /\ OutcomeIsTrue'
<1>1. process'["child"].is = "dead"
  BY KillEnds DEF TimesOut, Phases, Running
<1>2. /\ at' = "returned" /\ outcome'.how = "timeout" /\ expired'
      /\ kind = "bash" /\ kind' = kind
  BY DEF TimesOut, Return, Outcome, Phases
<1>3. OnlyDetachedSurvive'
  BY <1>1, <1>2 DEF OnlyDetachedSurvive, Alive, Processes
<1> QED
  BY <1>1, <1>2, <1>3 DEF Phases, OutcomeIsTrue, Running, Alive, Outcome

LEMMA FeedFailsHolds ==
  ASSUME TypeOK, Phases, FeedFails
  PROVE  Phases' /\ OnlyDetachedSurvive' /\ OutcomeIsTrue'
<1>1. /\ \A p \in Processes : "stdin" \notin ends'[p]
      /\ at' = "returned" /\ outcome'.how = "warn" /\ kind' = "hook"
      /\ sent' < Payload /\ sent' \in Nat
  BY DEF TypeOK, FeedFails, Return, Failure, Outcome, Phases, stdin
<1>2. Phases'
  BY <1>1 DEF Phases, Running
<1>3. OnlyDetachedSurvive'
  BY <1>1 DEF OnlyDetachedSurvive
<1>4. outcome' # Outcome("exit", 0) /\ sent' # Payload
  BY <1>1, SizesAssumption DEF Outcome
<1>5. OutcomeIsTrue'
  BY <1>1, <1>4 DEF OutcomeIsTrue
<1> QED
  BY <1>2, <1>3, <1>5

LEMMA CollectedHolds ==
  ASSUME TypeOK, Phases, Held, Collected
  PROVE  Phases' /\ OnlyDetachedSurvive' /\ OutcomeIsTrue'
<1>1. /\ at \in {"collect", "drain stderr"} /\ at' = "returned"
      /\ UNCHANGED <<kind, process, ends, sent, expired, code>>
      /\ outcome' = IF outcome.how = "timeout" THEN outcome ELSE Interpretation
  BY DEF Collected, Return, stdin
<1>2. ~Alive("child") /\ \A p \in Processes : ends[p] \intersect Streams = {}
  BY DEF Collected, EndOfFile, Streams, Held
<1>3. process'["child"].is = "dead"
  <2>1. process["child"].is \in {"none", "free", "reading", "writing", "dead"}
    BY StateIs DEF TypeOK, Processes
  <2> QED
    BY <1>1, <1>2, <2>1 DEF Phases, Running, Alive, Processes
<1>4. OnlyDetachedSurvive'
  <2> SUFFICES ASSUME NEW p \in Processes, Alive(p)'
               PROVE  p = "descendant" /\ ends'[p] \intersect Streams = {}
    BY DEF OnlyDetachedSurvive
  <2> QED BY <1>1, <1>2 DEF Alive, Processes
<1>5. Phases'
  BY <1>1 DEF Phases, Running
<1>6. OutcomeIsTrue'
  <2>1. CASE outcome.how = "timeout"
    <3>1. expired' /\ kind' = "pwshTimed" /\ outcome'.how = "timeout"
      BY <1>1, <2>1 DEF Phases
    <3> QED
      BY <3>1 DEF OutcomeIsTrue, Outcome
  <2>2. CASE outcome.how # "timeout"
    <3>1. outcome' = Interpretation
      BY <1>1, <2>2
    <3>2. CASE kind = "hook"
      <4>1. sent' = Payload /\ kind' = "hook" /\ code' = code
        BY <1>1, <3>2 DEF Phases
      <4>2. outcome'.how = Verdict(code)
        BY <3>1, <3>2 DEF Interpretation, Outcome
      <4>3. Verdict(code) \in {"allow", "deny", "warn"}
        BY DEF Verdict
      <4>4. (Verdict(code) = "allow") = (code = 0) /\ (Verdict(code) = "deny") = (code = 2)
        BY DEF Verdict
      <4> QED
        BY <1>3, <4>1, <4>2, <4>3, <4>4 DEF OutcomeIsTrue, Outcome
    <3>3. CASE kind # "hook"
      <4>1. outcome'.how \in {"exit", "unsaid"}
        BY <3>1, <3>3 DEF Interpretation, Outcome
      <4>2. outcome' = Outcome("exit", 0) => code = 0
        BY <3>1, <3>3 DEF Interpretation, Outcome, Killed
      <4> QED
        BY <1>1, <1>3, <3>3, <4>1, <4>2 DEF OutcomeIsTrue
    <3> QED
      BY <3>2, <3>3
  <2> QED
    BY <2>1, <2>2
<1> QED
  BY <1>4, <1>5, <1>6

(* A pipe without a holder stays without one.                               *)
LEMMA HeldKept ==
  ASSUME TypeOK, Phases, Held, Next
  PROVE  Held'
<1>0. /\ process \in [Processes -> States] /\ ends \in [Processes -> SUBSET Ends]
      /\ "child" \in Processes /\ "descendant" \in Processes /\ "child" # "descendant"
  BY DEF TypeOK, Processes
<1>1. /\ Doing("free").is = "free" /\ Doing("reading").is = "reading" /\ Doing("dead").is = "dead"
      /\ \A s, c : Writing(s, c).is = "writing" /\ Writing(s, c).stream = s
  BY DEF Doing, Writing
<1>2. CASE Blocked \/ CannotStart \/ Poll \/ Feed \/ FeedFails \/ Fed \/ Collected
  BY <1>2 DEF Held, Blocked, CannotStart, Poll, Feed, FeedFails, Fed, Collected, Return
<1>3. CASE Expire \/ \E s \in Streams : ReadChunk(s) \/ CollectSome(s)
  BY <1>3 DEF Held, Expire, ReadChunk, CollectSome, Alive
<1>4. CASE Start
  BY <1>0, <1>1, <1>4 DEF Held, Start, Return
<1>5. CASE SeeExit \/ NextStream
  BY <1>5 DEF Held, SeeExit, NextStream, EndOfFile, Alive
<1>6. CASE TimesOut \/ LookAtClock
  <2>1. at' \notin {"drain stdout", "drain stderr"}
    BY <1>6 DEF TimesOut, LookAtClock, Return
  <2>2. Kill \/ UNCHANGED <<process, ends>>
    BY <1>6 DEF TimesOut, LookAtClock
  <2>3. \A p \in Processes :
          process'[p].is = "writing" => process'[p].stream \in ends'[p]
    BY <1>0, <1>1, <2>2 DEF Held, Kill
  <2> QED BY <2>1, <2>3 DEF Held
<1>7. CASE Fork
  <2>1. at' = at /\ at \notin {"drain stdout", "drain stderr"}
    BY <1>7 DEF Fork, Held, Alive
  <2> QED BY <1>0, <1>1, <1>7, <2>1 DEF Held, Fork, Becomes
<1>8. ASSUME NEW p \in Processes, Moves(p) PROVE Held'
  <2>1. /\ at' = at /\ Alive(p)
        /\ \A q \in Processes \ {p} : process'[q] = process[q] /\ ends'[q] = ends[q]
        /\ ends'[p] \subseteq ends[p]
        /\ process'[p].is = "writing" => process'[p].stream \in ends'[p]
    <3>1. CASE Put(p) \/ WantToRead(p) \/ Take(p)
      BY <1>0, <1>1, <3>1 DEF Put, WantToRead, Take, Becomes, Alive
    <3>2. CASE \E s \in Streams, c \in Characters : WantToWrite(p, s, c)
      BY <1>0, <1>1, <3>2 DEF WantToWrite, Becomes, Alive
    <3>3. CASE \E e \in Ends : CloseEnd(p, e)
      BY <1>0, <3>3 DEF CloseEnd, Alive
    <3>4. CASE \E c \in Codes : Exit(p, c)
      BY <1>0, <1>1, <3>4 DEF Exit, Becomes, Alive
    <3> QED BY <1>8, <3>1, <3>2, <3>3, <3>4 DEF Moves
  <2>2. at \in {"drain stdout", "drain stderr"} => p # "child"
    BY <2>1 DEF Held
  <2> QED BY <1>0, <2>1, <2>2 DEF Held, Alive
<1> QED
  BY <1>2, <1>3, <1>4, <1>5, <1>6, <1>7, <1>8 DEF Next, Caller

--------------------------------------------------------------------------------
LEMMA NextKeeps ==
  ASSUME IInv, [Next]_vars
  PROVE  IInv'
<1>1. TypeOK /\ OnlyDetachedSurvive /\ OutcomeIsTrue /\ Phases /\ Held
  BY DEF IInv, Inv
<1>2. CASE Next
  <2>1. TypeOK'
    BY <1>1, <1>2, TypesKept
  <2>2. Phases' /\ OnlyDetachedSurvive' /\ OutcomeIsTrue'
    BY <1>1, <1>2, WorldHolds, CallerGoesOn, NotStarted, StartHolds, TimesOutHolds,
       FeedFailsHolds, CollectedHolds
    DEF Next, Caller
  <2>3. Held'
    BY <1>1, <1>2, HeldKept
  <2> QED
    BY <2>1, <2>2, <2>3 DEF IInv, Inv
<1>3. CASE UNCHANGED vars
  <2> USE <1>1, <1>3 DEF vars, pipes, stdin
  <2>1. TypeOK'
    BY DEF TypeOK
  <2>2. Phases'
    BY DEF Phases, Alive, Running
  <2>3. OnlyDetachedSurvive' /\ OutcomeIsTrue'
    BY DEF OnlyDetachedSurvive, OutcomeIsTrue, Alive
  <2>4. Held'
    BY DEF Held, Alive
  <2> QED
    BY <2>1, <2>2, <2>3, <2>4 DEF IInv, Inv
<1> QED
  BY <1>2, <1>3

(* For every size of pipes, chunks and payloads: what is left running has   *)
(* given up the pipes the call waits on, or is the descendant of a bash     *)
(* command whose deadline passed; and what a call reports is what happened, *)
(* denials by hooks included (bash.rs:248, hooks.rs:174 and 286,            *)
(* tools/src/lib.rs:2994).                                                  *)
THEOREM CommandsTellTheTruth == Spec => []Inv
<1>1. Init => IInv
  BY InitHolds
<1>2. IInv /\ [Next]_vars => IInv'
  BY NextKeeps
<1>3. IInv => Inv
  BY DEF IInv
<1> QED
  BY <1>1, <1>2, <1>3, PTL DEF Spec

--------------------------------------------------------------------------------
(* What is shown of what was written: lemmas about one stream.             *)
(* What the user can be shown: bytes and the replacement mark. *)
Marked == Bytes \union {"?"}

(* Neither half of a character is missing at the ends. *)
Complete(b) ==
  \A i \in 1 .. Len(b) : (i = 1 => b[i] # "w2") /\ (i = Len(b) => b[i] # "w1")

(* A sequence of bytes is one of bytes and marks. *)
LEMMA BytesAreMarked ==
  ASSUME NEW b \in Seq(Bytes)
  PROVE  b \in Seq(Marked)
BY SeqMonotonic DEF Marked

(* Shows, by position. *)
ShownAt(a, w) ==
  /\ Len(a) = Len(w)
  /\ \A i \in 1 .. Len(w) : a[i] = w[i] \/ (kind = "bash" /\ a[i] = "?" /\ w[i] # "a")

LEMMA ShowsAt ==
  ASSUME NEW a \in Seq(Marked), NEW w \in Seq(Bytes)
  PROVE  Shows(a, w) <=> ShownAt(a, w)
<1>1. DOMAIN w = 1 .. Len(w)
  BY LenProperties
<1> QED BY <1>1 DEF Shows, ShownAt

(* The positions of a concatenation. *)
LEMMA ConcatAt ==
  ASSUME NEW S, NEW x \in Seq(S), NEW y \in Seq(S), NEW m, NEW n, m = Len(x), n = Len(y)
  PROVE  /\ m \in Nat /\ n \in Nat /\ x \o y \in Seq(S) /\ Len(x \o y) = m + n
         /\ \A i \in 1 .. m + n : (x \o y)[i] = IF i <= m THEN x[i] ELSE y[i - m]
<1>1. m \in Nat /\ n \in Nat
  BY LenProperties
<1> QED BY <1>1, ConcatProperties

(* What is written and what is to be read grow by the same bytes. *)
LEMMA ShowsMore ==
  ASSUME NEW a \in Seq(Marked), NEW w \in Seq(Bytes), NEW c \in Seq(Bytes), Shows(a, w)
  PROVE  Shows(a \o c, w \o c)
<1> HIDE DEF Shows
<1>1. c \in Seq(Marked) /\ Len(a) = Len(w) /\ ShownAt(a, w)
  BY BytesAreMarked, ShowsAt DEF ShownAt
<1>2. /\ Len(a) \in Nat /\ Len(c) \in Nat /\ a \o c \in Seq(Marked)
      /\ Len(a \o c) = Len(a) + Len(c)
      /\ \A i \in 1 .. Len(a) + Len(c) :
           (a \o c)[i] = IF i <= Len(a) THEN a[i] ELSE c[i - Len(a)]
  BY <1>1, ConcatAt
<1>3. /\ w \o c \in Seq(Bytes) /\ Len(w \o c) = Len(a) + Len(c)
      /\ \A i \in 1 .. Len(a) + Len(c) :
           (w \o c)[i] = IF i <= Len(a) THEN w[i] ELSE c[i - Len(a)]
  BY <1>1, ConcatAt
<1>4. ASSUME NEW i \in 1 .. Len(a) + Len(c)
      PROVE  \/ (a \o c)[i] = (w \o c)[i]
             \/ kind = "bash" /\ (a \o c)[i] = "?" /\ (w \o c)[i] # "a"
  <2>1. CASE i <= Len(a)
    <3>1. i \in 1 .. Len(w)
      BY <1>1, <1>2, <2>1
    <3>2. a[i] = w[i] \/ (kind = "bash" /\ a[i] = "?" /\ w[i] # "a")
      BY <1>1, <3>1 DEF ShownAt
    <3> QED BY <1>2, <1>3, <2>1, <3>2
  <2>2. CASE ~(i <= Len(a))
    BY <1>2, <1>3, <2>2
  <2> QED BY <2>1, <2>2
<1>5. ShownAt(a \o c, w \o c)
  BY <1>2, <1>3, <1>4 DEF ShownAt
<1> QED BY <1>2, <1>3, <1>5, ShowsAt

(* Decoding a chunk keeps its length; it marks halves of characters only. *)
LEMMA DecodeMarks ==
  ASSUME NEW b \in Seq(Bytes)
  PROVE  /\ Decode(b) \in Seq(Marked) /\ Len(Decode(b)) = Len(b)
         /\ \A i \in 1 .. Len(b) :
              Decode(b)[i] = b[i] \/ (Decode(b)[i] = "?" /\ b[i] \in {"w1", "w2"})
         /\ Complete(b) => Decode(b) = b
<1>1. Len(b) \in Nat /\ DOMAIN b = 1 .. Len(b)
  OBVIOUS
<1>2. Decode(b) \in Seq(Marked)
  BY DecodeTyped DEF Marked
<1>3. DOMAIN Decode(b) = 1 .. Len(b)
  BY <1>1 DEF Decode
<1>4. Len(Decode(b)) = Len(b)
  BY <1>1, <1>2, <1>3, LenProperties
<1>5. \A i \in 1 .. Len(b) :
        Decode(b)[i] = IF (b[i] = "w1" /\ i = Len(b)) \/ (b[i] = "w2" /\ i = 1)
                       THEN "?" ELSE b[i]
  BY <1>1 DEF Decode
<1>6. ASSUME Complete(b) PROVE Decode(b) = b
  <2>1. \A i \in 1 .. Len(b) : Decode(b)[i] = b[i]
    BY <1>5, <1>6 DEF Complete
  <2>2. b \in Seq(Marked)
    BY BytesAreMarked
  <2> QED BY <1>2, <1>4, <2>1, <2>2, SeqEqual
<1> QED BY <1>2, <1>4, <1>5, <1>6

(* A chunk from the middle may be shown decoded, if the caller is bash. *)
LEMMA ShowsDecoded ==
  ASSUME NEW a \in Seq(Marked), NEW b \in Seq(Bytes), NEW c \in Seq(Bytes), NEW w \in Seq(Bytes),
         kind = "bash", Shows((a \o b) \o c, w)
  PROVE  Shows((a \o Decode(b)) \o c, w)
<1> DEFINE d == Decode(b)
           s == (a \o b) \o c
           r == (a \o d) \o c
<1>1. /\ d \in Seq(Marked) /\ Len(d) = Len(b)
      /\ \A i \in 1 .. Len(b) : d[i] = b[i] \/ (d[i] = "?" /\ b[i] \in {"w1", "w2"})
  BY DecodeMarks
<1> HIDE DEF d
<1>2. /\ Len(a) \in Nat /\ Len(b) \in Nat /\ Len(c) \in Nat
      /\ b \in Seq(Marked) /\ c \in Seq(Marked)
  BY BytesAreMarked
<1>3. /\ a \o b \in Seq(Marked) /\ Len(a \o b) = Len(a) + Len(b)
      /\ \A i \in 1 .. Len(a) + Len(b) :
           (a \o b)[i] = IF i <= Len(a) THEN a[i] ELSE b[i - Len(a)]
  BY <1>2, ConcatAt
<1>4. /\ a \o d \in Seq(Marked) /\ Len(a \o d) = Len(a) + Len(b)
      /\ \A i \in 1 .. Len(a) + Len(b) :
           (a \o d)[i] = IF i <= Len(a) THEN a[i] ELSE d[i - Len(a)]
  BY <1>1, ConcatAt
<1>5. /\ s \in Seq(Marked) /\ Len(s) = Len(a) + Len(b) + Len(c)
      /\ \A i \in 1 .. Len(a) + Len(b) + Len(c) :
           s[i] = IF i <= Len(a) + Len(b) THEN (a \o b)[i] ELSE c[i - (Len(a) + Len(b))]
  <2>1. PICK m \in Nat : m = Len(a) + Len(b)
    BY <1>2
  <2>2. a \o b \in Seq(Marked) /\ Len(a \o b) = m
    BY <1>3, <2>1
  <2>3. /\ (a \o b) \o c \in Seq(Marked) /\ Len((a \o b) \o c) = m + Len(c)
        /\ \A i \in 1 .. m + Len(c) :
             ((a \o b) \o c)[i] = IF i <= m THEN (a \o b)[i] ELSE c[i - m]
    <3>1. \A x \in Seq(Marked) : Len(x) = m =>
            /\ x \o c \in Seq(Marked) /\ Len(x \o c) = m + Len(c)
            /\ \A i \in 1 .. m + Len(c) : (x \o c)[i] = IF i <= m THEN x[i] ELSE c[i - m]
      <4> TAKE x \in Seq(Marked)
      <4>1. /\ x \o c \in Seq(Marked) /\ Len(x \o c) = Len(x) + Len(c)
            /\ \A i \in 1 .. Len(x) + Len(c) :
                 (x \o c)[i] = IF i <= Len(x) THEN x[i] ELSE c[i - Len(x)]
        BY <1>2, ConcatAt
      <4> QED BY <4>1
    <3> QED BY <2>2, <3>1
  <2> QED BY <2>1, <2>3
<1>6. /\ r \in Seq(Marked) /\ Len(r) = Len(a) + Len(b) + Len(c)
      /\ \A i \in 1 .. Len(a) + Len(b) + Len(c) :
           r[i] = IF i <= Len(a) + Len(b) THEN (a \o d)[i] ELSE c[i - (Len(a) + Len(b))]
  <2>1. PICK m \in Nat : m = Len(a) + Len(b)
    BY <1>2
  <2>2. a \o d \in Seq(Marked) /\ Len(a \o d) = m
    BY <1>4, <2>1
  <2>3. /\ (a \o d) \o c \in Seq(Marked) /\ Len((a \o d) \o c) = m + Len(c)
        /\ \A i \in 1 .. m + Len(c) :
             ((a \o d) \o c)[i] = IF i <= m THEN (a \o d)[i] ELSE c[i - m]
    <3>1. \A x \in Seq(Marked) : Len(x) = m =>
            /\ x \o c \in Seq(Marked) /\ Len(x \o c) = m + Len(c)
            /\ \A i \in 1 .. m + Len(c) : (x \o c)[i] = IF i <= m THEN x[i] ELSE c[i - m]
      <4> TAKE x \in Seq(Marked)
      <4>1. /\ x \o c \in Seq(Marked) /\ Len(x \o c) = Len(x) + Len(c)
            /\ \A i \in 1 .. Len(x) + Len(c) :
                 (x \o c)[i] = IF i <= Len(x) THEN x[i] ELSE c[i - Len(x)]
        BY <1>2, ConcatAt
      <4> QED BY <4>1
    <3> QED BY <2>2, <3>1
  <2> QED BY <2>1, <2>3
<1>7. Len(w) = Len(s) /\ \A i \in 1 .. Len(w) : s[i] = w[i] \/ (s[i] = "?" /\ w[i] # "a")
  <2>1. ShownAt(s, w)
    BY <1>5, ShowsAt
  <2> QED BY <2>1 DEF ShownAt
<1> HIDE DEF r, s
<1>8. ASSUME NEW i \in 1 .. Len(w)
      PROVE  r[i] = s[i] \/ (r[i] = "?" /\ s[i] \in {"w1", "w2"})
  <2>1. i \in 1 .. Len(a) + Len(b) + Len(c)
    BY <1>5, <1>7
  <2>2. CASE i <= Len(a)
    <3>1. i \in 1 .. Len(a) + Len(b) /\ i <= Len(a) + Len(b)
      BY <1>2, <2>1, <2>2
    <3>2. s[i] = a[i] /\ r[i] = a[i]
      BY <1>3, <1>4, <1>5, <1>6, <2>1, <2>2, <3>1
    <3> QED BY <3>2
  <2>3. CASE Len(a) < i /\ i <= Len(a) + Len(b)
    <3>1. i - Len(a) \in 1 .. Len(b) /\ i \in 1 .. Len(a) + Len(b) /\ ~(i <= Len(a))
      BY <1>2, <2>1, <2>3
    <3>2. s[i] = b[i - Len(a)] /\ r[i] = d[i - Len(a)]
      BY <1>3, <1>4, <1>5, <1>6, <2>1, <2>3, <3>1
    <3> QED BY <1>1, <3>1, <3>2
  <2>4. CASE Len(a) + Len(b) < i
    <3>1. ~(i <= Len(a) + Len(b))
      BY <1>2, <2>1, <2>4
    <3> QED BY <1>5, <1>6, <2>1, <3>1
  <2> QED BY <1>2, <2>1, <2>2, <2>3, <2>4
<1>9. Len(r) = Len(w) /\ \A i \in 1 .. Len(w) : r[i] = w[i] \/ (r[i] = "?" /\ w[i] # "a")
  BY <1>5, <1>6, <1>7, <1>8
<1>10. Shows(r, w)
  <2>1. ShownAt(r, w)
    BY <1>9 DEF ShownAt
  <2> QED BY <1>6, <2>1, ShowsAt
<1> QED BY <1>10 DEF r, d

(* Nobody but bash shows anything else than what was written. *)
LEMMA ShowsExactly ==
  ASSUME NEW a \in Seq(Marked), NEW w \in Seq(Bytes), kind # "bash", Shows(a, w)
  PROVE  a = w
<1>1. w \in Seq(Marked) /\ Len(a) = Len(w) /\ \A i \in 1 .. Len(a) : a[i] = w[i]
  BY BytesAreMarked DEF Shows
<1> QED BY <1>1, SeqEqual

(* A character completes what is complete. *)
LEMMA CompleteMore ==
  ASSUME NEW w \in Seq(Bytes), NEW c \in Characters, Complete(w)
  PROVE  Complete(w \o c) /\ c \in Seq(Bytes)
<1>1. c \in Seq(Bytes) /\ Len(c) \in 1 .. 2 /\ c[1] # "w2" /\ c[Len(c)] # "w1"
  <2>1. CASE c = <<"a">>
    BY <2>1 DEF Bytes
  <2>2. CASE c = <<"w1", "w2">>
    BY <2>2 DEF Bytes
  <2> QED BY <2>1, <2>2 DEF Characters
<1>2. /\ Len(w) \in Nat /\ Len(w \o c) = Len(w) + Len(c)
      /\ \A i \in 1 .. Len(w) + Len(c) : (w \o c)[i] = IF i <= Len(w) THEN w[i] ELSE c[i - Len(w)]
  BY <1>1, ConcatProperties
<1>3. ASSUME NEW i \in 1 .. Len(w) + Len(c)
      PROVE  /\ i = 1 => (w \o c)[i] # "w2"
             /\ i = Len(w) + Len(c) => (w \o c)[i] # "w1"
  <2>1. i = 1 => (w \o c)[i] # "w2"
    <3>1. CASE Len(w) = 0
      BY <1>1, <1>2, <3>1
    <3>2. CASE Len(w) > 0
      BY <1>2, <3>2 DEF Complete
    <3> QED BY <1>2, <3>1, <3>2
  <2>2. i = Len(w) + Len(c) => (w \o c)[i] # "w1"
    <3> SUFFICES ASSUME i = Len(w) + Len(c) PROVE (w \o c)[i] # "w1"
      OBVIOUS
    <3>1. (w \o c)[i] = c[i - Len(w)] /\ i - Len(w) = Len(c)
      BY <1>1, <1>2
    <3> QED BY <1>1, <3>1
  <2> QED BY <2>1, <2>2
<1> QED BY <1>1, <1>2, <1>3 DEF Complete

--------------------------------------------------------------------------------
(* Nothing is lost between the pipe, what was read of it and the text; and *)
(* where there is nothing left to be read or decoded. *)
Flow(s) == Shows((text[s] \o read[s]) \o pipe[s], written[s])

Collecting == {"collect", "drain stdout", "drain stderr"}

AllCollected ==
  \/ outcome.how \in {"exit", "unsaid", "allow", "deny"}
  \/ kind = "pwshTimed" /\ outcome.how = "timeout"

Empty ==
  /\ at \notin Collecting => \A s \in Streams : read[s] = <<>>
  /\ at # "returned" /\ kind # "bash" => \A s \in Streams : text[s] = <<>>
  /\ at = "drain stderr" => pipe["stdout"] = <<>>
  /\ at = "returned" /\ AllCollected => \A s \in Streams : read[s] = <<>> /\ pipe[s] = <<>>

WholeInv == (\A s \in Streams : Flow(s) /\ Complete(written[s])) /\ Empty

(* What a stream holds at each stage. *)
LEMMA PipesTyped ==
  ASSUME TypeOK, NEW s \in Streams
  PROVE  /\ pipe[s] \in Seq(Bytes) /\ read[s] \in Seq(Bytes) /\ written[s] \in Seq(Bytes)
         /\ text[s] \in Seq(Marked)
BY DEF TypeOK, Marked

(* It is enough: where nothing is left, the text is all that was written. *)
LEMMA WholeIsShown ==
  ASSUME TypeOK, WholeInv
  PROVE  OutputIsWhole
<1> SUFFICES ASSUME NEW s \in Streams
             PROVE  /\ Shows((text[s] \o read[s]) \o pipe[s], written[s])
                    /\ at = "returned" /\ outcome.how \in {"exit", "unsaid", "allow", "deny"}
                         => Shows(text[s], written[s])
                    /\ at = "returned" /\ kind = "pwshTimed" /\ outcome.how = "timeout"
                         => text[s] = written[s]
  BY DEF OutputIsWhole
<1>1. /\ pipe[s] \in Seq(Bytes) /\ read[s] \in Seq(Bytes) /\ written[s] \in Seq(Bytes)
      /\ text[s] \in Seq(Marked)
  BY PipesTyped
<1>2. Flow(s)
  BY DEF WholeInv
<1>3. ASSUME at = "returned", AllCollected
      PROVE  Shows(text[s], written[s])
  <2>1. read[s] = <<>> /\ pipe[s] = <<>>
    BY <1>3 DEF WholeInv, Empty
  <2>2. (text[s] \o read[s]) \o pipe[s] = text[s]
    BY <1>1, <2>1, ConcatEmptySeq
  <2> QED BY <1>2, <2>2 DEF Flow
<1>4. kind = "pwshTimed" /\ Shows(text[s], written[s]) => text[s] = written[s]
  BY <1>1, ShowsExactly
<1> QED BY <1>2, <1>3, <1>4 DEF Flow, AllCollected

(* A step that moves no byte. *)
LEMMA BytesStay ==
  ASSUME WholeInv, UNCHANGED <<pipe, read, text, written, kind>>
  PROVE  \A s \in Streams : Flow(s)' /\ Complete(written[s])'
BY DEF WholeInv, Flow, Shows, Complete

(* The steps of the caller that move no byte. *)
LEMMA CallerWhole ==
  ASSUME TypeOK, Phases, WholeInv,
         Blocked \/ CannotStart \/ Start \/ SeeExit \/ TimesOut \/ Poll \/ LookAtClock
           \/ Feed \/ FeedFails \/ Fed \/ NextStream
  PROVE  WholeInv'
<1>1. UNCHANGED <<pipe, read, text, written, kind>>
  BY DEF Blocked, CannotStart, Start, SeeExit, TimesOut, Poll, LookAtClock, Feed, FeedFails,
         Fed, NextStream, pipes
<1>2. \A s \in Streams : Flow(s)' /\ Complete(written[s])'
  BY <1>1, BytesStay
<1>3. /\ at \notin Collecting \/ NextStream
      /\ at' = "drain stderr" => NextStream
      /\ NextStream => at' = "drain stderr"
      /\ at # "returned"
  BY DEF Blocked, CannotStart, Start, SeeExit, TimesOut, Poll, LookAtClock, Feed, FeedFails,
         Fed, NextStream, Return, Collecting
<1>4. NextStream => pipe'["stdout"] = <<>>
  BY <1>1 DEF NextStream, EndOfFile
<1>5. at' = "returned" => ~AllCollected'
  <2>1. at' = "returned" => \/ outcome'.how \in {"blocked", "failed", "warn", "background"}
                            \/ outcome'.how = "timeout" /\ kind = "bash"
    <3>1. CASE Start
      BY <3>1 DEF Start, Return, Outcome
    <3>2. CASE LookAtClock
      <4>1. CASE expired
        BY <3>2, <4>1 DEF LookAtClock
      <4>2. CASE ~expired
        BY <3>2, <4>2 DEF LookAtClock
      <4> QED BY <4>1, <4>2
    <3>3. CASE SeeExit \/ Poll \/ Feed \/ Fed \/ NextStream
      BY <3>3 DEF SeeExit, Poll, Feed, Fed, NextStream
    <3>4. CASE Blocked \/ CannotStart \/ FeedFails
      BY <3>4 DEF Blocked, CannotStart, FeedFails, Return, Outcome, Failure
    <3>5. CASE TimesOut
      BY <3>5 DEF TimesOut, Return, Outcome, Phases
    <3> QED BY <3>1, <3>2, <3>3, <3>4, <3>5
  <2> QED BY <1>1, <2>1 DEF AllCollected
<1>6. Empty'
  BY <1>1, <1>3, <1>4, <1>5 DEF WholeInv, Empty, Collecting
<1> QED BY <1>2, <1>6 DEF WholeInv

(* Nor do these steps of the processes. *)
LEMMA WorldWhole ==
  ASSUME TypeOK, WholeInv, NEW p \in Processes,
         \/ Fork \/ Expire \/ WantToRead(p) \/ Take(p)
         \/ \E s \in Streams, c \in Characters : WantToWrite(p, s, c)
         \/ \E c \in Codes : Exit(p, c)
         \/ \E e \in Ends : CloseEnd(p, e)
  PROVE  WholeInv'
<1>1. /\ UNCHANGED <<pipe, read, text, written, kind, at>>
      /\ at # "returned"
  BY DEF Fork, Expire, WantToRead, Take, WantToWrite, Exit, CloseEnd, pipes, Running
<1>2. \A s \in Streams : Flow(s)' /\ Complete(written[s])'
  BY <1>1, BytesStay
<1>3. Empty'
  BY <1>1 DEF WholeInv, Empty
<1> QED BY <1>2, <1>3 DEF WholeInv

(* A writer has a whole character to write. *)
LEMMA WriterHas ==
  ASSUME NEW w \in States, w.is = "writing"
  PROVE  \E s \in Streams, c \in Characters : w.stream = s /\ w.char = c
<1>1. CASE w \in {Doing(what) : what \in {"none", "free", "reading", "dead"}}
  <2>1. PICK what \in {"none", "free", "reading", "dead"} : w = Doing(what)
    BY <1>1, Zenon
  <2>2. w.is = what
    BY <2>1 DEF Doing
  <2> QED BY <2>2
<1>2. CASE w \in {Writing(s, c) : s \in Streams, c \in Characters}
  <2>1. PICK s \in Streams, c \in Characters : w = Writing(s, c)
    BY <1>2
  <2> QED BY <2>1 DEF Writing
<1> QED BY <1>1, <1>2 DEF States

(* A write is to the end of the pipe, of a whole character. *)
LEMMA PutWhole ==
  ASSUME TypeOK, Held, WholeInv, NEW p \in Processes, Put(p)
  PROVE  WholeInv'
<1>1. PICK s \in Streams, c \in Characters : process[p].stream = s /\ process[p].char = c
  BY WriterHas DEF TypeOK, Put
<1>0. /\ Alive(p) /\ at # "returned" /\ at' = at
      /\ pipe' = [pipe EXCEPT ![s] = @ \o c] /\ written' = [written EXCEPT ![s] = @ \o c]
      /\ UNCHANGED <<read, text, kind>>
  BY <1>1 DEF Put, Running, Alive
<1>2. /\ pipe[s] \in Seq(Bytes) /\ read[s] \in Seq(Bytes) /\ written[s] \in Seq(Bytes)
      /\ text[s] \in Seq(Marked) /\ pipe[s] \in Seq(Marked) /\ read[s] \in Seq(Marked)
  BY PipesTyped, BytesAreMarked
<1>3. c \in Seq(Bytes) /\ c \in Seq(Marked) /\ Complete(written[s] \o c)
  BY <1>2, CompleteMore, BytesAreMarked DEF WholeInv
<1>4. /\ text'[s] = text[s] /\ read'[s] = read[s] /\ pipe'[s] = pipe[s] \o c
      /\ written'[s] = written[s] \o c
      /\ \A t \in Streams : t # s => /\ text'[t] = text[t] /\ read'[t] = read[t]
                                     /\ pipe'[t] = pipe[t] /\ written'[t] = written[t]
  BY <1>0 DEF TypeOK
<1>5. Shows((text[s] \o read[s]) \o (pipe[s] \o c), written[s] \o c)
  <2>1. text[s] \o read[s] \in Seq(Marked)
    BY <1>2, ConcatProperties
  <2>2. (text[s] \o read[s]) \o pipe[s] \in Seq(Marked)
    BY <1>2, <2>1, ConcatProperties
  <2>3. Shows(((text[s] \o read[s]) \o pipe[s]) \o c, written[s] \o c)
    BY <1>2, <1>3, <2>2, ShowsMore DEF WholeInv, Flow
  <2>4. ((text[s] \o read[s]) \o pipe[s]) \o c = (text[s] \o read[s]) \o (pipe[s] \o c)
    <3>1. \A x, y, z \in Seq(Marked) : (x \o y) \o z = x \o (y \o z)
      BY ConcatAssociative
    <3> QED BY <1>2, <1>3, <2>1, <3>1
  <2> QED BY <2>3, <2>4
<1>6. Flow(s)' /\ Complete(written[s])'
  <2>1. Flow(s)'
    BY <1>0, <1>4, <1>5, ZenonT(40) DEF Flow, Shows
  <2>2. Complete(written[s])'
    BY <1>3, <1>4 DEF Complete
  <2> QED BY <2>1, <2>2
<1>7. \A t \in Streams : Flow(t)' /\ Complete(written[t])'
  <2> SUFFICES ASSUME NEW t \in Streams PROVE Flow(t)' /\ Complete(written[t])'
    OBVIOUS
  <2>1. CASE t # s
    <3>1. Flow(t) /\ Complete(written[t])
      BY DEF WholeInv
    <3> QED BY <1>0, <1>4, <2>1, <3>1, ZenonT(40) DEF Flow, Shows, Complete
  <2> QED BY <1>6, <2>1
<1>8. Empty'
  <2>1. at = "drain stderr" => s # "stdout"
    BY <1>1 DEF Held, Put
  <2>2. at = "drain stderr" => pipe'["stdout"] = <<>>
    BY <1>4, <2>1 DEF WholeInv, Empty, Streams
  <2> QED BY <1>0, <2>2 DEF WholeInv, Empty
<1> QED BY <1>7, <1>8 DEF WholeInv

(* A chunk and the rest of the pipe are the pipe. *)
LEMMA CutInTwo ==
  ASSUME NEW q \in Seq(Bytes), NEW n \in 0 .. Len(q)
  PROVE  SubSeq(q, 1, n) \o SubSeq(q, n + 1, Len(q)) = q
<1>1. Len(q) \in Nat
  BY LenProperties
<1>2. 1 \in 1 .. Len(q) + 1 /\ n \in (1 - 1) .. Len(q) /\ Len(q) \in n .. Len(q)
  BY <1>1
<1>3. SubSeq(q, 1, n) \o SubSeq(q, n + 1, Len(q)) = SubSeq(q, 1, Len(q))
  BY <1>1, <1>2, ConcatAdjacentSubSeq
<1> QED BY <1>3, SubSeqFull

(* A chunk that select! hands to bash is decoded by itself. *)
LEMMA ChunkWhole ==
  ASSUME TypeOK, Phases, WholeInv, NEW s \in Streams, ReadChunk(s)
  PROVE  WholeInv'
<1>1. PICK n : n = Least(Len(pipe[s]), BufferSize)
  OBVIOUS
<1>2. /\ at = "select" /\ kind = "bash" /\ UNCHANGED <<kind, at, read, written>>
      /\ text' = [text EXCEPT ![s] = @ \o Decode(SubSeq(pipe[s], 1, n))]
      /\ pipe' = [pipe EXCEPT ![s] = SubSeq(@, n + 1, Len(@))]
  BY <1>1 DEF ReadChunk, Phases
<1>3. /\ pipe[s] \in Seq(Bytes) /\ read[s] \in Seq(Bytes) /\ written[s] \in Seq(Bytes)
      /\ text[s] \in Seq(Marked) /\ Len(pipe[s]) \in Nat /\ read[s] = <<>>
  BY <1>2, PipesTyped, LenProperties DEF WholeInv, Empty, Collecting
<1>4. n \in 0 .. Len(pipe[s])
  BY <1>1, <1>3, SizesAssumption DEF Least
<1>5. PICK x \in Seq(Bytes), y \in Seq(Bytes) :
        /\ x = SubSeq(pipe[s], 1, n) /\ y = SubSeq(pipe[s], n + 1, Len(pipe[s]))
        /\ x \o y = pipe[s]
  <2>1. /\ \A i \in 1 .. n : pipe[s][i] \in Bytes
        /\ \A i \in n + 1 .. Len(pipe[s]) : pipe[s][i] \in Bytes
    BY <1>3, <1>4
  <2>2. /\ SubSeq(pipe[s], 1, n) \in Seq(Bytes)
        /\ SubSeq(pipe[s], n + 1, Len(pipe[s])) \in Seq(Bytes)
    BY <1>3, <1>4, <2>1, SubSeqProperties
  <2>3. SubSeq(pipe[s], 1, n) \o SubSeq(pipe[s], n + 1, Len(pipe[s])) = pipe[s]
    BY <1>3, <1>4, CutInTwo
  <2> QED BY <2>2, <2>3
<1>6. Shows((text[s] \o x) \o y, written[s])
  <2>1. Shows((text[s] \o read[s]) \o pipe[s], written[s])
    BY DEF WholeInv, Flow
  <2>2. x \in Seq(Marked) /\ y \in Seq(Marked)
    BY BytesAreMarked
  <2>3. text[s] \o read[s] = text[s]
    BY <1>3, ConcatEmptySeq
  <2>4. (text[s] \o x) \o y = text[s] \o (x \o y)
    <3>1. \A a, b, c \in Seq(Marked) : (a \o b) \o c = a \o (b \o c)
      BY ConcatAssociative
    <3> QED BY <1>3, <2>2, <3>1
  <2> QED BY <1>5, <2>1, <2>3, <2>4
<1>7. Shows((text[s] \o Decode(x)) \o y, written[s])
  BY <1>2, <1>3, <1>6, ShowsDecoded
<1>8. Decode(x) \in Seq(Marked)
  BY DecodeMarks
<1>9. ((text[s] \o Decode(x)) \o read[s]) \o y = (text[s] \o Decode(x)) \o y
  <2>1. text[s] \o Decode(x) \in Seq(Marked)
    BY <1>3, <1>8, ConcatProperties
  <2>2. (text[s] \o Decode(x)) \o <<>> = text[s] \o Decode(x)
    BY <2>1, ConcatEmptySeq
  <2> QED BY <1>3, <2>2
<1>10. /\ text'[s] = text[s] \o Decode(x) /\ pipe'[s] = y
       /\ \A t \in Streams : t # s => text'[t] = text[t] /\ pipe'[t] = pipe[t]
  BY <1>2, <1>5 DEF TypeOK
<1>11. \A t \in Streams : Flow(t)' /\ Complete(written[t])'
  <2> SUFFICES ASSUME NEW t \in Streams PROVE Flow(t)' /\ Complete(written[t])'
    OBVIOUS
  <2>1. Flow(t) /\ Complete(written[t])
    BY DEF WholeInv
  <2>2. Complete(written[t])'
    BY <1>2, <2>1 DEF Complete
  <2>3. CASE t # s
    BY <1>2, <1>10, <2>1, <2>2, <2>3 DEF Flow, Shows
  <2>4. CASE t = s
    <3>1. Shows(((text[s] \o Decode(x)) \o read[s]) \o y, written[s])
      BY <1>7, <1>9
    <3>2. /\ ((text'[t] \o read'[t]) \o pipe'[t]) = ((text[s] \o Decode(x)) \o read[s]) \o y
          /\ written'[t] = written[s] /\ kind' = kind
      BY <1>2, <1>10, <2>4
    <3>3. Flow(t)'
      BY <3>1, <3>2 DEF Flow, Shows
    <3> QED BY <2>2, <3>3
  <2> QED BY <2>3, <2>4
<1>12. Empty'
  BY <1>2 DEF WholeInv, Empty
<1> QED BY <1>11, <1>12 DEF WholeInv

(* read_to_end takes what is in the pipe. *)
LEMMA SomeWhole ==
  ASSUME TypeOK, WholeInv, NEW s \in Streams, CollectSome(s)
  PROVE  WholeInv'
<1>1. /\ at \in Collecting /\ pipe[s] # <<>> /\ UNCHANGED <<kind, at, process, text, written>>
      /\ read' = [read EXCEPT ![s] = @ \o pipe[s]] /\ pipe' = [pipe EXCEPT ![s] = <<>>]
  BY DEF CollectSome, Collects, Collecting
<1>2. /\ pipe[s] \in Seq(Marked) /\ read[s] \in Seq(Marked) /\ text[s] \in Seq(Marked)
  BY PipesTyped, BytesAreMarked
<1>3. /\ read'[s] = read[s] \o pipe[s] /\ pipe'[s] = <<>>
      /\ \A t \in Streams : t # s => read'[t] = read[t] /\ pipe'[t] = pipe[t]
  BY <1>1 DEF TypeOK
<1>4. (text[s] \o (read[s] \o pipe[s])) \o <<>> = (text[s] \o read[s]) \o pipe[s]
  <2>1. \A a, b, c \in Seq(Marked) : (a \o b) \o c = a \o (b \o c)
    BY ConcatAssociative
  <2>2. text[s] \o (read[s] \o pipe[s]) \in Seq(Marked)
    BY <1>2, ConcatProperties
  <2>3. (text[s] \o (read[s] \o pipe[s])) \o <<>> = text[s] \o (read[s] \o pipe[s])
    BY <2>2, ConcatEmptySeq
  <2> QED BY <1>2, <2>1, <2>3
<1>5. \A t \in Streams : Flow(t)' /\ Complete(written[t])'
  <2> SUFFICES ASSUME NEW t \in Streams PROVE Flow(t)' /\ Complete(written[t])'
    OBVIOUS
  <2>1. Flow(t) /\ Complete(written[t])
    BY DEF WholeInv
  <2>2. Complete(written[t])'
    BY <1>1, <2>1 DEF Complete
  <2>3. (text'[t] \o read'[t]) \o pipe'[t] = (text[t] \o read[t]) \o pipe[t]
    BY <1>1, <1>3, <1>4
  <2>4. Flow(t)'
    BY <1>1, <2>1, <2>3 DEF Flow, Shows
  <2> QED BY <2>2, <2>4
<1>6. Empty'
  <2>1. at = "drain stderr" => pipe["stdout"] = <<>>
    BY DEF WholeInv, Empty
  <2>2. at = "drain stderr" => pipe'["stdout"] = <<>>
    BY <1>1, <1>3, <2>1 DEF Streams
  <2>3. at # "returned"
    BY <1>1 DEF Collecting
  <2> QED BY <1>1, <2>2, <2>3 DEF WholeInv, Empty
<1> QED BY <1>5, <1>6 DEF WholeInv

(* At the end of both streams what was read is decoded as one. *)
LEMMA CollectedWhole ==
  ASSUME TypeOK, Phases, WholeInv, Collected
  PROVE  WholeInv'
<1>1. /\ at \in Collecting /\ at # "returned" /\ at' = "returned"
      /\ UNCHANGED <<kind, pipe, written>>
      /\ text' = [s \in Streams |-> text[s] \o Decode(read[s])]
      /\ read' = [s \in Streams |-> <<>>]
  BY DEF Collected, Return, Collecting
<1>2. \A s \in Streams : pipe[s] = <<>>
  <2>1. CASE at = "collect"
    BY <2>1 DEF Collected, EndOfFile
  <2>2. CASE at = "drain stderr"
    BY <2>2 DEF Collected, EndOfFile, WholeInv, Empty, Streams
  <2> QED BY <2>1, <2>2 DEF Collected
<1>3. \A s \in Streams : Flow(s)' /\ Complete(written[s])'
  <2> SUFFICES ASSUME NEW s \in Streams PROVE Flow(s)' /\ Complete(written[s])'
    OBVIOUS
  <2>1. Flow(s) /\ Complete(written[s])
    BY DEF WholeInv
  <2>2. Complete(written[s])'
    BY <1>1, <2>1 DEF Complete
  <2>3. /\ read[s] \in Seq(Bytes) /\ written[s] \in Seq(Bytes) /\ text[s] \in Seq(Marked)
        /\ read[s] \in Seq(Marked) /\ Decode(read[s]) \in Seq(Marked)
        /\ <<>> \in Seq(Bytes) /\ <<>> \in Seq(Marked)
    BY PipesTyped, BytesAreMarked, DecodeMarks, EmptySeq
  <2>4. /\ text[s] \o read[s] \in Seq(Marked) /\ text[s] \o Decode(read[s]) \in Seq(Marked)
    BY <2>3, ConcatProperties
  <2>5. /\ (text[s] \o read[s]) \o pipe[s] = (text[s] \o read[s]) \o <<>>
        /\ (text[s] \o read[s]) \o <<>> = text[s] \o read[s]
        /\ (text[s] \o Decode(read[s])) \o <<>> = text[s] \o Decode(read[s])
    BY <1>2, <2>4, ConcatEmptySeq
  <2>6. Shows((text[s] \o Decode(read[s])) \o <<>>, written[s])
    <3>1. CASE kind = "bash"
      <4>1. Shows((text[s] \o read[s]) \o <<>>, written[s])
        BY <2>1, <2>5 DEF Flow
      <4> QED BY <2>3, <3>1, <4>1, ShowsDecoded
    <3>2. CASE kind # "bash"
      <4>1. text[s] = <<>>
        BY <1>1, <3>2 DEF WholeInv, Empty
      <4>2. text[s] \o read[s] = read[s] /\ text[s] \o Decode(read[s]) = Decode(read[s])
        BY <2>3, <4>1, ConcatEmptySeq
      <4>3. Shows(read[s], written[s])
        BY <2>1, <2>5, <4>2 DEF Flow
      <4>4. read[s] = written[s]
        BY <2>3, <3>2, <4>3, ShowsExactly
      <4>5. Decode(read[s]) = read[s]
        BY <2>1, <2>3, <4>4, DecodeMarks
      <4> QED BY <2>5, <4>2, <4>3, <4>5
    <3> QED BY <3>1, <3>2
  <2>7. /\ (text'[s] \o read'[s]) \o pipe'[s] =
             ((text[s] \o Decode(read[s])) \o <<>>) \o <<>>
        /\ written'[s] = written[s] /\ kind' = kind
    BY <1>1, <1>2
  <2>8. Flow(s)'
    BY <2>5, <2>6, <2>7 DEF Flow, Shows
  <2> QED BY <2>2, <2>8
<1>4. Empty'
  BY <1>1, <1>2 DEF Empty, Collecting
<1> QED BY <1>3, <1>4 DEF WholeInv

(* For pipes, chunks and output of any size: the text a tool returns is    *)
(* what the command wrote, in order and without a gap, and all of it if    *)
(* the command ended; only bash may show a mark for half a character.      *)
THEOREM NothingIsLost == Spec => []OutputIsWhole
<1>1. Init => WholeInv
  <2> SUFFICES ASSUME Init PROVE WholeInv
    OBVIOUS
  <2>1. \A s \in Streams : pipe[s] = <<>> /\ read[s] = <<>> /\ text[s] = <<>> /\ written[s] = <<>>
    BY DEF Init
  <2>2. <<>> \in Seq(Marked) /\ <<>> \in Seq(Bytes) /\ Len(<<>>) = 0 /\ <<>> \o <<>> = <<>>
    <3>1. <<>> \in Seq(Marked) /\ <<>> \in Seq(Bytes) /\ Len(<<>>) = 0
      BY EmptySeq
    <3> QED BY <3>1, ConcatEmptySeq
  <2>3. Shows(<<>>, <<>>)
    <3>1. ShownAt(<<>>, <<>>)
      BY <2>2 DEF ShownAt
    <3> QED BY <2>2, <3>1, ShowsAt
  <2>4. \A s \in Streams : Flow(s) /\ Complete(written[s])
    <3> SUFFICES ASSUME NEW s \in Streams PROVE Flow(s) /\ Complete(written[s])
      OBVIOUS
    <3>1. (text[s] \o read[s]) \o pipe[s] = (<<>> \o <<>>) \o <<>>
      BY <2>1
    <3>2. (<<>> \o <<>>) \o <<>> = <<>>
      BY <2>2
    <3>3. Flow(s)
      BY <2>1, <2>3, <3>1, <3>2 DEF Flow
    <3>4. Complete(<<>>)
      BY <2>2 DEF Complete
    <3> QED BY <2>1, <3>3, <3>4
  <2>5. Empty
    BY <2>1 DEF Init, Empty
  <2> QED BY <2>4, <2>5 DEF WholeInv
<1>2. IInv /\ WholeInv /\ [Next]_vars => WholeInv'
  <2> SUFFICES ASSUME IInv, WholeInv, [Next]_vars PROVE WholeInv'
    OBVIOUS
  <2>1. TypeOK /\ Phases /\ Held
    BY DEF IInv, Inv
  <2>2. CASE Blocked \/ CannotStart \/ Caller
    BY <2>1, <2>2, CallerWhole, ChunkWhole, SomeWhole, CollectedWhole DEF Caller
  <2>3. CASE Fork \/ Expire
    BY <2>1, <2>3, WorldWhole DEF Processes
  <2>4. ASSUME NEW p \in Processes, Moves(p) PROVE WholeInv'
    BY <2>1, <2>4, WorldWhole, PutWhole DEF Moves
  <2>5. CASE UNCHANGED vars
    <3>1. UNCHANGED <<pipe, read, text, written, kind, at, process, outcome>>
      BY <2>5 DEF vars, pipes
    <3>2. \A s \in Streams : Flow(s)' /\ Complete(written[s])'
      BY <3>1, BytesStay
    <3>3. Empty'
      BY <3>1 DEF WholeInv, Empty, AllCollected
    <3> QED BY <3>2, <3>3 DEF WholeInv
  <2> QED BY <2>2, <2>3, <2>4, <2>5 DEF Next
<1>3. IInv /\ WholeInv => OutputIsWhole
  BY WholeIsShown DEF IInv, Inv
<1>4. (Init => IInv) /\ (IInv /\ [Next]_vars => IInv')
  BY InitHolds, NextKeeps
<1> QED BY <1>1, <1>2, <1>3, <1>4, PTL DEF Spec
================================================================================
