------------------------------ MODULE ApiStream ------------------------------
(***************************************************************************)
(* One call of the model: the request and its repetitions, the stream of   *)
(* bytes and the frames cut out of it, and what each of the two clients,   *)
(* the CLI's and the sub-agents', makes of the events.                     *)
(*                                                                         *)
(* A message is a sequence of blocks; the input of a tool use comes whole  *)
(* or in fragments, and may be "garbled", empty or no JSON; a call may     *)
(* come without a name.  A frame is one token of the byte stream and its   *)
(* blank line is two or four; chunks end anywhere between tokens.  The     *)
(* server may be unreachable, refuse, stop in the middle or go silent,     *)
(* which the timeout of the HTTP client turns into an error.               *)
(***************************************************************************)
EXTENDS Naturals, Sequences, SequencesExt

CONSTANTS
  Clients,      \* which client, and how its provider answers
  Messages,     \* the replies of the model
  Fragments,    \* pieces a streamed tool input comes in
  MaxRetries    \* max_retries

ASSUME ApiAssumption ==
  /\ Clients \subseteq {"cli"} \X {"native", "openai", "buffered"} \cup {<<"agent", "native">>}
  /\ Messages \subseteq Seq({"text", "tool", "streamed", "garbled", "nameless"})
  /\ Fragments \in Nat \ {0} /\ MaxRetries \in Nat

VARIABLES
  client,    \* <<who calls, how the provider answers>>
  call,      \* send_with_retry, and what came of the call
  message,   \* the message the server is sending
  wire,      \* bytes on their way
  buffer,    \* SseParser::buffer
  reply,     \* what the client holds of the stream
  history    \* requests sent, and how the stream came about

vars == <<client, call, message, wire, buffer, reply, history>>

--------------------------------------------------------------------------------
Event(kind, block) == [kind |-> kind, block |-> block]
EventKinds == {"start", "ping", "open", "text", "json", "close", "usage", "stop", "part", "done"}
Token == [kind : EventKinds \cup {"lf", "cr"}, block : Nat]
LF == Event("lf", 0)
CR == Event("cr", 0)

NativeBlock(m, i) ==
  CASE m[i] = "text"     -> <<Event("open", i), Event("text", i), Event("close", i)>>
    [] m[i] = "tool"     -> <<Event("open", i), Event("close", i)>>
    [] m[i] = "streamed" -> <<Event("open", i)>>
                              \o [n \in 1 .. Fragments |-> Event("json", i)]
                              \o <<Event("close", i)>>
    [] OTHER             -> <<>>

Native(m) ==
  <<Event("start", 0), Event("ping", 0)>>
    \o FlattenSeq([i \in DOMAIN m |-> NativeBlock(m, i)])
    \o <<Event("usage", 0), Event("stop", 0)>>

(* OpenAI-compatible chunks: parts of a call have no events of their own.  *)
OpenAi(m) ==
  FlattenSeq([i \in DOMAIN m |->
                IF m[i] = "text" THEN <<Event("text", i)>>
                ELSE [n \in 1 .. Fragments |-> Event("part", i)]])
    \o <<Event("done", 0)>>

(* translate_from_openai and its like: every input is whole; a call whose  *)
(* arguments do not parse or that has no name, or no id, is lost.          *)
Translated(m) ==
  [i \in DOMAIN m |-> CASE m[i] = "text" -> "text"
                       [] m[i] \in {"tool", "streamed"} -> "tool"
                       [] OTHER -> "lost"]

BlankLines == {<<LF, LF>>, <<CR, LF, CR, LF>>}

BlockKinds == {"text", "tool", "streamed", "garbled", "nameless", "lost"}

Streamed(c, m) == IF c[2] = "openai" THEN OpenAi(m) ELSE Native(m)

(* A frame and its blank line, one after the other.  A server may leave    *)
(* out the last blank line.                                                *)
Bytes(c, m, line, bare) ==
  LET width == 1 + Len(line)
      all   == Len(Streamed(c, m)) * width
  IN  [i \in 1 .. (IF bare THEN all - Len(line) ELSE all) |->
         IF (i - 1) % width = 0 THEN Streamed(c, m)[1 + (i - 1) \div width]
         ELSE line[(i - 1) % width]]

--------------------------------------------------------------------------------
(* SseParser::next_frame: where the first frame ends, and the rest begins. *)
Ending(bytes, line) ==
  {p \in Len(line) .. Len(bytes) : SubSeq(bytes, p - Len(line) + 1, p) = line}

(* Mutant: only blank lines without carriage returns. *)
CutLineFeeds(bytes) == [end |-> Ending(bytes, <<LF, LF>>), width |-> 2]

Cut(bytes) ==
  LET lf == Ending(bytes, <<LF, LF>>) IN
  IF lf # {} THEN [end |-> lf, width |-> 2]
  ELSE [end |-> Ending(bytes, <<CR, LF, CR, LF>>), width |-> 4]

(* SseParser::push: frames are cut off as long as one is complete, and     *)
(* each takes the two bytes of a blank line with it, or more.              *)
NextFrame(parsed) ==
  LET cut == Cut(parsed.rest)
      end == CHOOSE p \in cut.end : \A q \in cut.end : p <= q
  IN  IF cut.end = {} THEN parsed
      ELSE [frames |-> parsed.frames \o SubSeq(parsed.rest, 1, end - cut.width),
            rest   |-> SubSeq(parsed.rest, end + 1, Len(parsed.rest))]

Parse(bytes) ==
  LET pushed[n \in 0 .. Len(bytes) \div 2] ==
        IF n = 0 THEN [frames |-> <<>>, rest |-> bytes] ELSE NextFrame(pushed[n - 1])
  IN  pushed[Len(bytes) \div 2]

(* What a client holds: the events it collected; the tool use of the       *)
(* sub-agents' client, or the calls of the parser, under construction.     *)
Piece(kind, block, got) == [kind |-> kind, block |-> block, got |-> got]
NoTool == Piece("tool", 0, 0)
Lost == Piece("lost", 0, 0)
Reply == [out : Seq([kind : {"text", "tool", "usage", "stop"}, block : Nat, got : Nat]),
          tool : [kind : {"tool"}, block : Nat, got : Nat],
          calls : Seq([kind : {"tool"}, block : Nat, got : Nat])]
NoReply == [out |-> <<>>, tool |-> NoTool, calls |-> <<>>]

Collect(r, piece) == [r EXCEPT !.out = Append(@, piece)]

(* The input a tool use starts with: {} when it will be streamed.          *)
Given(m, i) == IF m[i] = "streamed" THEN 0 ELSE Fragments

(* SseParser::accumulate_tool_calls and flush_tool_calls.                  *)
Accumulate(r, i) ==
  IF r.calls # <<>> /\ Last(r.calls).block = i
  THEN [r EXCEPT !.calls[Len(r.calls)].got = @ + 1]
  ELSE [r EXCEPT !.calls = Append(@, Piece("tool", i, 1))]

(* What there is to read and to do among pieces. *)
Content(pieces) ==
  LET kept[n \in 0 .. Len(pieces)] ==
        IF n = 0 THEN <<>>
        ELSE IF pieces[n].kind \in {"text", "tool"} THEN Append(kept[n - 1], pieces[n])
        ELSE kept[n - 1]
  IN  kept[Len(pieces)]

(* Mutant: calls that do not parse are left out, as in a whole answer. *)
HandedOnParsed(m, c) == IF m[c.block] \in {"nameless", "garbled"} THEN Lost ELSE c

(* A gathered call without a name is left out, and one whose arguments do  *)
(* not parse has {} for its input.                                         *)
HandedOn(m, c) ==
  CASE m[c.block] = "nameless" -> Lost
    [] m[c.block] = "garbled"  -> Piece("tool", c.block, 0)
    [] OTHER                   -> c

Handed(m, calls) == [k \in DOMAIN calls |-> HandedOn(m, calls[k])]

(* Mutant: the stop is not sent. *)
FlushCallsOnly(m, r) == [r EXCEPT !.out = @ \o Content(Handed(m, r.calls)), !.calls = <<>>]

FlushCalls(m, r) ==
  [r EXCEPT !.out = @ \o Content(Handed(m, r.calls)) \o <<Piece("stop", 0, 0)>>, !.calls = <<>>]

(* The CLI: a tool use is taken as it starts, fragments have no meaning.   *)
CliTakes(m, r, e) ==
  CASE e.kind \in {"start", "usage"} -> Collect(r, Piece("usage", 0, 0))
    [] e.kind = "text"               -> Collect(r, Piece("text", e.block, 0))
    [] e.kind = "open" /\ m[e.block] # "text"
                                     -> Collect(r, Piece("tool", e.block, Given(m, e.block)))
    [] e.kind = "stop"               -> Collect(r, Piece("stop", 0, 0))
    [] e.kind = "part"               -> Accumulate(r, e.block)
    [] e.kind = "done"               -> FlushCalls(m, r)
    [] OTHER                         -> r

(* Mutant: a fragment replaces what was there. *)
ReplaceInput(tool) == [tool EXCEPT !.got = 1]

AppendInput(tool) == [tool EXCEPT !.got = @ + 1]

(* A sub-agent: a tool use is complete when its block is closed.           *)
AgentTakes(m, r, e) ==
  CASE e.kind = "text"  -> Collect(r, Piece("text", e.block, 0))
    [] e.kind = "open" /\ m[e.block] # "text"
                        -> [r EXCEPT !.tool = Piece("tool", e.block, Given(m, e.block))]
    [] e.kind = "json" /\ r.tool # NoTool -> [r EXCEPT !.tool = AppendInput(@)]
    [] e.kind = "close" /\ r.tool # NoTool -> [Collect(r, r.tool) EXCEPT !.tool = NoTool]
    [] e.kind = "usage" -> Collect(r, Piece("usage", 0, 0))
    [] e.kind = "stop"  -> Collect(r, Piece("stop", 0, 0))
    [] OTHER            -> r

Takes(c, m, r, e) == IF c[1] = "cli" THEN CliTakes(m, r, e) ELSE AgentTakes(m, r, e)

TakeAll(c, m, start, events) ==
  LET taken[n \in 0 .. Len(events)] ==
        IF n = 0 THEN start ELSE Takes(c, m, taken[n - 1], events[n])
  IN  taken[Len(events)]

Holds(kinds) == \E i \in DOMAIN reply.out : reply.out[i].kind \in kinds

--------------------------------------------------------------------------------
TypeOK ==
  /\ client \in Clients
  /\ call \in [pc : {"send", "await", "backoff", "stream", "ok", "err"},
               attempts : 0 .. MaxRetries + 1, again : BOOLEAN]
  /\ message \in Seq(BlockKinds)
  /\ wire \in Seq(Token) /\ buffer \in Seq(Token)
  /\ reply \in Reply
  /\ history \in [sent : Nat, line : BlankLines, bare : BOOLEAN, cut : BOOLEAN, fault : BOOLEAN]

Init ==
  /\ client \in Clients
  /\ call = [pc |-> "send", attempts |-> 0, again |-> FALSE]
  /\ message = <<>> /\ wire = <<>> /\ buffer = <<>>
  /\ reply = NoReply
  /\ history \in [sent : {0}, line : BlankLines, bare : BOOLEAN, cut : {FALSE}, fault : {FALSE}]

(* send_with_retry *)
Send ==
  /\ call.pc = "send"
  /\ call' = [call EXCEPT !.pc = "await", !.attempts = @ + 1]
  /\ history' = [history EXCEPT !.sent = @ + 1]
  /\ UNCHANGED <<client, message, wire, buffer, reply>>

(* Mutant: one too many. *)
MayRetryOnceMore == call.attempts <= MaxRetries + 1

MayRetry == call.attempts <= MaxRetries

(* No connection, or no answer within the timeout: the errors that are     *)
(* tried again.                                                            *)
Unreachable ==
  /\ call.pc = "await"
  /\ call' = [call EXCEPT !.pc = IF MayRetry THEN "backoff" ELSE "err"]
  /\ history' = [history EXCEPT !.fault = TRUE]
  /\ UNCHANGED <<client, message, wire, buffer, reply>>

Backoff ==
  /\ call.pc = "backoff"
  /\ call' = [call EXCEPT !.pc = "send"]
  /\ UNCHANGED <<client, message, wire, buffer, reply, history>>

(* expect_success: whatever the status is, the error it makes is final.    *)
Refused ==
  /\ call.pc = "await"
  /\ call' = [call EXCEPT !.pc = "err"]
  /\ history' = [history EXCEPT !.fault = TRUE]
  /\ UNCHANGED <<client, message, wire, buffer, reply>>

(* The second request of a sub-agent does not stream, nor do those to most *)
(* providers: the answer comes in one piece.  A body without a message is  *)
(* one of no blocks; native inputs are JSON, whatever they say.            *)
RespondsWhole ==
  /\ call.pc = "await"
  /\ call.again \/ client[2] = "buffered"
  /\ \E m \in Messages \cup {<<>>} :
       /\ client[2] = "native" => \A i \in DOMAIN m : m[i] # "garbled"
       /\ message' = m
       /\ reply' = TakeAll(client, Translated(m), NoReply, Native(Translated(m)))
  /\ call' = [call EXCEPT !.pc = "ok"]
  /\ UNCHANGED <<client, wire, buffer, history>>

(* An OpenAI message has its text before its calls.  A native stream with  *)
(* a nameless call does not parse (StreamFails).                           *)
Responds ==
  /\ call.pc = "await"
  /\ ~call.again /\ client[2] # "buffered"
  /\ \E m \in Messages :
       /\ client[2] = "openai" =>
            \A i, j \in DOMAIN m : i < j /\ m[j] = "text" => m[i] = "text"
       /\ client[2] = "native" => \A i \in DOMAIN m : m[i] \notin {"garbled", "nameless"}
       /\ message' = m
       /\ wire' = Bytes(client, m, history.line, history.bare)
  /\ call' = [call EXCEPT !.pc = "stream"]
  /\ UNCHANGED <<client, buffer, reply, history>>

(* next_event, until the chunk is used up. *)
Chunk ==
  /\ call.pc = "stream"
  /\ \E n \in DOMAIN wire :
       LET parsed == Parse(buffer \o SubSeq(wire, 1, n)) IN
       /\ wire' = SubSeq(wire, n + 1, Len(wire))
       /\ buffer' = parsed.rest
       /\ reply' = TakeAll(client, message, reply, parsed.frames)
  /\ UNCHANGED <<client, call, message, history>>

(* The connection breaks, goes silent, or sends what is not JSON.          *)
StreamFails ==
  /\ call.pc = "stream"
  /\ call' = [call EXCEPT !.pc = "err"]
  /\ history' = [history EXCEPT !.fault = TRUE]
  /\ UNCHANGED <<client, message, wire, buffer, reply>>

AskAgain == [pc |-> "send", attempts |-> 0, again |-> TRUE]

(* The stream ends, early or not, and what is in the buffer is dropped.    *)
(* Without a stop build_assistant_message refuses the reply; a sub-agent   *)
(* supplies one when there is anything to keep, or else asks again.        *)
EndOfStream ==
  /\ call.pc = "stream"
  /\ history' = [history EXCEPT !.cut = wire \o buffer # <<>>]
  /\ wire' = <<>> /\ buffer' = <<>>
  /\ \/ /\ Holds({"stop"})
        /\ call' = [call EXCEPT !.pc = "ok"] /\ UNCHANGED reply
     \/ /\ client[1] = "cli" /\ ~Holds({"stop"})
        /\ call' = [call EXCEPT !.pc = "err"] /\ UNCHANGED reply
     \/ /\ client[1] = "agent" /\ ~Holds({"stop"}) /\ Holds({"text", "tool"})
        /\ call' = [call EXCEPT !.pc = "ok"]
        /\ reply' = Collect(reply, Piece("stop", 0, 0))
     \/ /\ client[1] = "agent" /\ ~Holds({"stop", "text", "tool"})
        /\ call' = AskAgain
        /\ reply' = NoReply
  /\ UNCHANGED <<client, message>>

Next ==
  \/ Send \/ Unreachable \/ Backoff \/ Refused \/ RespondsWhole \/ Responds
  \/ Chunk \/ StreamFails \/ EndOfStream

Spec == Init /\ [][Next]_vars

--------------------------------------------------------------------------------
(* However the stream is cut into chunks, each frame is handed on exactly  *)
(* once and in order, as soon as its blank line is complete                *)
(* (SseParser::push and next_frame).                                       *)
FramesAreExact ==
  call.pc = "stream" =>
    LET line     == history.line
        received == Len(Bytes(client, message, line, history.bare)) - Len(wire)
        frames   == received \div (1 + Len(line))
    IN  reply = TakeAll(client, message, NoReply, SubSeq(Streamed(client, message), 1, frames))

(* What is to become of a block.  A nameless call is lost, and one whose   *)
(* arguments do not parse is lost in a whole answer, but has an empty      *)
(* input in a streamed one.                                                *)
Due(c, m, i) ==
  CASE m[i] = "text"                         -> Piece("text", i, 0)
    [] m[i] \in {"tool", "streamed"}         -> Piece("tool", i, Fragments)
    [] m[i] = "garbled" /\ c[2] = "openai"   -> Piece("tool", i, 0)
    [] OTHER                                 -> Lost

Dues(c, m) == [i \in DOMAIN m |-> Due(c, m, i)]

(* A reply that is taken for an answer has every text of the message and   *)
(* every call with a name and arguments that parse, in order and with      *)
(* their inputs complete, and of the other calls what Due says; except     *)
(* that sub-agents keep what a cut stream left them, and that the CLI has  *)
(* no use for the fragments of an input (map_stream_event drops them).     *)
AnswerIsWhole ==
  call.pc = "ok" =>
    \/ Content(reply.out) = Content(Dues(client, message))
    \/ client[1] = "agent" /\ history.cut
    \/ client = <<"cli", "native">> /\ \E i \in DOMAIN message : message[i] = "streamed"

(* A call fails only when the network or the server did: a stream that     *)
(* came through to its end is an answer.                                   *)
ErrorHasCause == call.pc = "err" => history.fault \/ history.cut

(* A truncated reply does not pass for an answer, nor a whole one for an    *)
(* error.                                                                   *)
OutcomeIsJust == AnswerIsWhole /\ ErrorHasCause

(* However often it fails, a call sends a request at most max_retries more *)
(* times, and a sub-agent's as often again for its second try.             *)
RequestsBounded ==
  history.sent <= (MaxRetries + 1) * (IF call.again THEN 2 ELSE 1)

(* The bound holds whatever the state of the stream. *)
Inv == TypeOK /\ RequestsBounded
================================================================================
