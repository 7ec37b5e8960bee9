------------------------------ MODULE McpManager ------------------------------
(***************************************************************************)
(* McpServerManager: the client of the MCP tool servers.  A server is a    *)
(* child process, started by the first operation that needs it and greeted *)
(* with one initialize request; a table of routes, filled by discovery,    *)
(* leads from a qualified tool name to a server.  The manager is behind a  *)
(* lock: there is one operation at a time, and it has at most one request  *)
(* under way.                                                              *)
(*                                                                         *)
(* A server is a program of somebody else: it answers, refuses, answers    *)
(* with neither result nor error, speaks out of turn, or dies.  Framing    *)
(* and JSON are reduced to what the client tells apart in a message.       *)
(***************************************************************************)
EXTENDS Naturals, Sequences

CONSTANTS
  Servers,         \* the names a configuration may hold
  Order,           \* the names of a configuration in the order of the BTreeMap
  Tools,           \* the raw tool names
  Names,           \* the qualified names
  Qualify,         \* mcp_tool_name: two tools may get one name
  NoName,          \* no tool to call
  Operations,      \* the operations in use: "execute" is what the CLI does
  SpawnFails,      \* may a server fail to start?
  Refusals,        \* the failing answers a server may give
  OutOfTurn,       \* the messages a server may send unasked
  MaxId,           \* bound: no operation starts after this many request ids
  MaxFaults,       \* bound: how often a server fails to start, refuses, speaks up or dies
  MaxPages         \* bound: pages of a tool list

ASSUME McpAssumption ==
  /\ Order \in [SUBSET Servers -> Seq(Servers)]
  /\ \A names \in SUBSET Servers :
       /\ {Order[names][i] : i \in DOMAIN Order[names]} = names
       /\ \A i, j \in DOMAIN Order[names] : Order[names][i] = Order[names][j] => i = j
  /\ Qualify \in [Servers \X Tools -> Names]
  /\ NoName \notin Names
  /\ Operations \subseteq {"discover", "call", "execute"}
  /\ SpawnFails \in BOOLEAN
  /\ Refusals \subseteq {"error", "empty"}
  /\ OutOfTurn \subseteq {"notification", "request"}
  /\ MaxId \in Nat /\ MaxFaults \in Nat /\ MaxPages \in Nat \ {0}

VARIABLES
  configured,  \* the servers of the manager
  client,      \* what the manager holds of each server
  server,      \* the processes themselves
  index,       \* tool_index
  nextId,      \* next_request_id
  op,          \* the operation under way, or the outcome of the last one
  faults       \* how much went wrong so far

vars == <<configured, client, server, index, nextId, op, faults>>

--------------------------------------------------------------------------------
Methods == {"initialize", "tools/list", "tools/call"}
Answers == {"none", "ok", "error", "empty"}
Outcomes == {"none", "ok", "unknownTool", "io", "jsonRpc", "invalid"}

(* What the client reads: an answer, or a message nobody asked for. *)
Message == [kind : Answers \cup {"notification", "request"}, id : Nat,
            method : Methods, tools : SUBSET Tools, more : BOOLEAN]

(* ManagedMcpServer.  The pipes of a process work only while the executor  *)
(* they were registered with lives: the caller's own, or the one the CLI   *)
(* builds for a call and drops with it.                                    *)
Managed == [process : BOOLEAN, initialized : BOOLEAN, executor : {"kept", "call", "dropped"}]
Unmanaged == [process |-> FALSE, initialized |-> FALSE, executor |-> "kept"]

Process ==
  [alive : BOOLEAN,
   log   : Seq([id : Nat, method : Methods, answer : Answers]),  \* requests received
   pipe  : Seq(Message),                                         \* its stdout
   spoke : BOOLEAN]                                              \* history: out of turn?
NoProcess == [alive |-> FALSE, log |-> <<>>, pipe |-> <<>>, spoke |-> FALSE]

(* discover_tools, call_tool, or both in a row, as the CLI does.  The      *)
(* operation is at the first server of todo, and after those at the server *)
(* its tool is routed to.                                                  *)
Operation ==
  [kind    : {"none", "discover", "call", "execute"},
   pc      : {"idle", "ready", "send", "await"},
   todo    : Seq(Servers),
   name    : Names \cup {NoName},
   method  : Methods,
   asked   : Nat,                         \* id of the request under way
   pages   : Nat,
   found   : SUBSET (Servers \X Tools),   \* discovered_tools
   outcome : Outcomes,
   got     : Nat]                         \* id of the answer a call returned

TypeOK ==
  /\ configured \subseteq Servers
  /\ client \in [Servers -> Managed]
  /\ server \in [Servers -> Process]
  /\ DOMAIN index \subseteq Names
  /\ \A n \in DOMAIN index : index[n] \in Servers \X Tools
  /\ nextId \in Nat \ {0}
  /\ op \in Operation
  /\ faults \in 0 .. MaxFaults

Start(kind, todo, name) ==
  [kind |-> kind, pc |-> "ready", todo |-> todo, name |-> name, method |-> "initialize",
   asked |-> 0, pages |-> 0, found |-> {}, outcome |-> "none", got |-> 0]

(* from_servers *)
NewManager(names) ==
  /\ configured' = names
  /\ client' = [s \in Servers |-> Unmanaged]
  /\ index' = <<>>
  /\ nextId' = 1

Init ==
  /\ configured \in SUBSET Servers
  /\ client = [s \in Servers |-> Unmanaged]
  /\ server = [s \in Servers |-> NoProcess]
  /\ index = <<>>
  /\ nextId = 1
  /\ op = [Start("none", <<>>, NoName) EXCEPT !.pc = "idle"]
  /\ faults = 0

(* Something goes wrong, as often as the bound allows. *)
Fault == faults < MaxFaults /\ faults' = faults + 1

--------------------------------------------------------------------------------
Idle == op.pc = "idle"

Listing(o) == o.todo # <<>>

Finish(o, outcome) == [o EXCEPT !.pc = "idle", !.outcome = outcome]

(* To the next server to list; after the last one to the lookup of the     *)
(* tool, if there is one to call.                                          *)
Proceed(o, routes) ==
  CASE Listing(o)                                       -> [o EXCEPT !.pc = "ready"]
    [] ~Listing(o) /\ o.kind = "discover"               -> Finish(o, "ok")
    [] ~Listing(o) /\ o.kind # "discover"
                   /\ o.name \notin DOMAIN routes       -> Finish(o, "unknownTool")
    [] OTHER                                            -> [o EXCEPT !.pc = "ready"]

(* The server the operation is at. *)
Here == IF Listing(op) THEN Head(op.todo) ELSE index[op.name][1]

Fail(outcome) == op' = Finish(op, outcome)

(* The executor of an earlier call is gone by now. *)
Begin(o) ==
  /\ Idle /\ nextId <= MaxId /\ o.kind \in Operations
  /\ op' = Proceed(o, index)
  /\ client' = [s \in Servers |->
       [client[s] EXCEPT !.executor = IF @ = "call" THEN "dropped" ELSE @]]
  /\ UNCHANGED <<configured, server, index, nextId, faults>>

DiscoverTools ==
  Begin(Start("discover", Order[configured], NoName))

CallTool(n) == Begin(Start("call", <<>>, n))

(* execute_mcp_tool *)
ExecuteTool(n) == Begin(Start("execute", Order[configured], n))

(* ensure_server_ready, first half: only a server without a process is started. *)
Spawn ==
  /\ op.pc = "ready" /\ ~client[Here].process
  /\ \/ /\ client' = [client EXCEPT ![Here] = [process |-> TRUE, initialized |-> FALSE,
                     executor |-> IF op.kind = "execute" THEN "call" ELSE "kept"]]
        /\ server' = [server EXCEPT ![Here] = [NoProcess EXCEPT !.alive = TRUE]]
        /\ UNCHANGED <<op, faults>>
     \/ /\ SpawnFails /\ Fault
        /\ Fail("io")
        /\ UNCHANGED <<client, server>>
  /\ UNCHANGED <<configured, index, nextId>>

(* Mutant: discovery keeps the routes a server had. *)
ReadyKeepingRoutes ==
  /\ op.pc = "ready" /\ client[Here].process
  /\ op' = [op EXCEPT !.pc = "send", !.pages = 0,
                      !.method = IF ~client[Here].initialized THEN "initialize"
                                 ELSE IF Listing(op) THEN "tools/list" ELSE "tools/call"]
  /\ UNCHANGED <<configured, client, server, index, nextId, faults>>

(* ensure_server_ready, second half: greet it, or it is ready and          *)
(* discovery clears the routes it had.                                     *)
Ready ==
  /\ op.pc = "ready" /\ client[Here].process
  /\ IF ~client[Here].initialized
       THEN /\ op' = [op EXCEPT !.pc = "send", !.method = "initialize"]
            /\ UNCHANGED index
       ELSE IF Listing(op)
         THEN /\ op' = [op EXCEPT !.pc = "send", !.method = "tools/list", !.pages = 0]
              /\ index' = [n \in {m \in DOMAIN index : index[m][1] # Here} |-> index[n]]
         ELSE /\ op' = [op EXCEPT !.pc = "send", !.method = "tools/call"]
              /\ UNCHANGED index
  /\ UNCHANGED <<configured, client, server, nextId, faults>>

(* Mutant: the request is written twice. *)
SendTwice ==
  /\ op.pc = "send"
  /\ nextId' = nextId + 1
  /\ IF client[Here].executor # "dropped" /\ server[Here].alive
       THEN /\ LET q == [id |-> nextId, method |-> op.method, answer |-> "none"]
               IN  server' = [server EXCEPT ![Here].log = @ \o <<q, q>>]
            /\ op' = [op EXCEPT !.pc = "await", !.asked = nextId]
       ELSE /\ Fail("io")
            /\ UNCHANGED server
  /\ UNCHANGED <<configured, client, index, faults>>

(* take_request_id and the write of the request. *)
Send ==
  /\ op.pc = "send"
  /\ nextId' = nextId + 1
  /\ IF client[Here].executor # "dropped" /\ server[Here].alive
       THEN /\ server' = [server EXCEPT ![Here].log =
                            Append(@, [id |-> nextId, method |-> op.method, answer |-> "none"])]
            /\ op' = [op EXCEPT !.pc = "await", !.asked = nextId]
       ELSE /\ Fail("io")
            /\ UNCHANGED server
  /\ UNCHANGED <<configured, client, index, faults>>

--------------------------------------------------------------------------------
(* Mutant: an answer that reports an error does not decode. *)
DecodesResultsOnly(msg) == msg.kind = "ok" /\ op.method \in {msg.method, "tools/call"}

(* Does the message decode as a response to the method awaited?  Every     *)
(* field of the result of tools/call has a default, a response needs an    *)
(* id, and nothing compares that id with the request's.                    *)
Decodes(msg) ==
  CASE msg.kind = "notification" -> FALSE
    [] msg.kind = "ok"           -> op.method \in {msg.method, "tools/call"}
    [] OTHER                     -> TRUE

Received == Head(server[Here].pipe)

Take == server' = [server EXCEPT ![Here].pipe = Tail(@)]

(* Mutant: the end of the stream is read over and over. *)
ReceiveEofAgain ==
  /\ op.pc = "await"
  /\ server[Here].pipe = <<>> /\ ~server[Here].alive
  /\ UNCHANGED vars

(* read_frame meets the end of the stream. *)
ReceiveEof ==
  /\ op.pc = "await"
  /\ server[Here].pipe = <<>> /\ ~server[Here].alive
  /\ Fail("io")
  /\ UNCHANGED <<configured, client, server, index, nextId, faults>>

(* Not a response, or not one of this kind: the message is used up. *)
ReceiveGarbage ==
  /\ op.pc = "await"
  /\ server[Here].pipe # <<>> /\ ~Decodes(Received)
  /\ Take
  /\ Fail("io")
  /\ UNCHANGED <<configured, client, index, nextId, faults>>

(* Mutant: a server that refused initialize counts as greeted. *)
ReceiveRefusalAsGreeting ==
  /\ op.pc = "await" /\ op.method # "tools/call"
  /\ server[Here].pipe # <<>> /\ Decodes(Received) /\ Received.kind # "ok"
  /\ Take
  /\ client' = [client EXCEPT ![Here].initialized = TRUE]
  /\ Fail(IF Received.kind = "error" THEN "jsonRpc" ELSE "invalid")
  /\ UNCHANGED <<configured, index, nextId, faults>>

(* An error, or a response with neither result nor error, ends everything  *)
(* but a tool call, which returns it as it is.                             *)
ReceiveRefusal ==
  /\ op.pc = "await" /\ op.method # "tools/call"
  /\ server[Here].pipe # <<>> /\ Decodes(Received) /\ Received.kind # "ok"
  /\ Take
  /\ Fail(IF Received.kind = "error" THEN "jsonRpc" ELSE "invalid")
  /\ UNCHANGED <<configured, client, index, nextId, faults>>

ReceiveGreeting ==
  /\ op.pc = "await" /\ op.method = "initialize"
  /\ server[Here].pipe # <<>> /\ Decodes(Received) /\ Received.kind = "ok"
  /\ Take
  /\ client' = [client EXCEPT ![Here].initialized = TRUE]
  /\ op' = [op EXCEPT !.pc = "ready"]
  /\ UNCHANGED <<configured, index, nextId, faults>>

(* The qualified names of a page of tools. *)
Listed(tools) == {Qualify[Here, t] : t \in tools}

(* A later tool of the same qualified name takes the route over. *)
ReceivePage ==
  /\ op.pc = "await" /\ op.method = "tools/list"
  /\ server[Here].pipe # <<>> /\ Decodes(Received) /\ Received.kind = "ok"
  /\ Take
  /\ \E routes \in [Listed(Received.tools) -> {Here} \X Received.tools] :
       /\ \A n \in DOMAIN routes : Qualify[routes[n]] = n
       /\ index' = [n \in DOMAIN routes \cup DOMAIN index |->
                      IF n \in DOMAIN routes THEN routes[n] ELSE index[n]]
       /\ LET listed == [op EXCEPT !.found = @ \cup ({Here} \X Received.tools), !.pages = @ + 1]
          IN  op' = IF Received.more
                      THEN [listed EXCEPT !.pc = "send"]
                      ELSE Proceed([listed EXCEPT !.todo = Tail(@)], index')
  /\ UNCHANGED <<configured, client, nextId, faults>>

ReceiveResult ==
  /\ op.pc = "await" /\ op.method = "tools/call"
  /\ server[Here].pipe # <<>> /\ Decodes(Received)
  /\ Take
  /\ op' = [Finish(op, "ok") EXCEPT !.got = Received.id]
  /\ UNCHANGED <<configured, client, index, nextId, faults>>

Receive == \/ ReceiveEof \/ ReceiveGarbage \/ ReceiveRefusal
           \/ ReceiveGreeting \/ ReceivePage \/ ReceiveResult

(* shutdown: kill and forget the processes; the routes stay. *)
Shutdown ==
  /\ Idle
  /\ client' = [s \in Servers |-> Unmanaged]
  /\ server' = [s \in Servers |-> NoProcess]
  /\ op' = [Start("none", <<>>, NoName) EXCEPT !.pc = "idle"]
  /\ UNCHANGED <<configured, index, nextId, faults>>

(* Or it stops at the first server that cannot be killed or waited for:    *)
(* those before it in the map are gone, that one may be dead by now, and   *)
(* those after it run on.                                                  *)
ShutdownStops(s, before) ==
  /\ Idle /\ Fault
  /\ client[s].process /\ s \notin before
  /\ client' = [u \in Servers |-> IF u \in before THEN Unmanaged ELSE client[u]]
  /\ \E alive \in {FALSE, server[s].alive} :
       server' = [u \in Servers |->
                    CASE u \in before -> NoProcess
                      [] u = s       -> [server[s] EXCEPT !.alive = alive]
                      [] OTHER       -> server[u]]
  /\ op' = [Start("none", <<>>, NoName) EXCEPT !.pc = "idle"]
  /\ UNCHANGED <<configured, index, nextId>>

(* /mcp add and /mcp remove: a new manager in place of the old one.        *)
Reconfigure(names) ==
  /\ Idle
  /\ NewManager(names)
  /\ server' = [s \in Servers |-> NoProcess]
  /\ op' = [Start("none", <<>>, NoName) EXCEPT !.pc = "idle"]
  /\ UNCHANGED faults

--------------------------------------------------------------------------------
(* The servers. *)
Unanswered(s) == {i \in DOMAIN server[s].log : server[s].log[i].answer = "none"}

Say(s, msg) == server[s].pipe \o <<msg>>

Answer(s) ==
  /\ server[s].alive
  /\ \E i \in Unanswered(s), kind \in {"ok"} \cup Refusals, tools \in SUBSET Tools, more \in BOOLEAN :
       LET q == server[s].log[i]
       IN  /\ IF kind = "ok" THEN UNCHANGED faults ELSE Fault
           /\ q.method # "tools/list" \/ kind # "ok" => tools = {} /\ ~more
           /\ more => op.pages + 1 < MaxPages
           /\ server' = [server EXCEPT
                ![s].pipe = Say(s, [kind |-> kind, id |-> q.id, method |-> q.method,
                                    tools |-> tools, more |-> more]),
                ![s].log = [@ EXCEPT ![i].answer = kind]]
  /\ UNCHANGED <<configured, client, index, nextId, op>>

(* A notification, or a request of its own: once in the life of a process. *)
SpeakUp(s) ==
  /\ server[s].alive /\ ~server[s].spoke /\ Fault
  /\ \E kind \in OutOfTurn :
       server' = [server EXCEPT
         ![s].pipe = Say(s, [kind |-> kind, id |-> 0, method |-> "initialize",
                             tools |-> {}, more |-> FALSE]),
         ![s].spoke = TRUE]
  /\ UNCHANGED <<configured, client, index, nextId, op>>

Die(s) ==
  /\ server[s].alive /\ Fault
  /\ server' = [server EXCEPT ![s].alive = FALSE]
  /\ UNCHANGED <<configured, client, index, nextId, op>>

Next ==
  \/ DiscoverTools
  \/ \E n \in Names : CallTool(n) \/ ExecuteTool(n)
  \/ Spawn \/ Ready \/ Send \/ Receive
  \/ Shutdown
  \/ \E s \in configured, before \in SUBSET configured : ShutdownStops(s, before)
  \/ \E s \in Servers : Reconfigure(configured \cup {s})
  \/ \E s \in configured : Reconfigure(configured \ {s})
  \/ \E s \in Servers : Answer(s) \/ SpeakUp(s) \/ Die(s)

(* The operation runs on, and a server that owes an answer gives it or     *)
(* dies: the client has no timeout.                                        *)
Fairness ==
  /\ WF_vars(Spawn) /\ WF_vars(Ready) /\ WF_vars(Send) /\ WF_vars(Receive)
  /\ \A s \in Servers : WF_vars(Answer(s) \/ Die(s))

Spec == Init /\ [][Next]_vars

FairSpec == Spec /\ Fairness

--------------------------------------------------------------------------------
(* A process sees initialize before anything else, nothing but initialize  *)
(* until it has accepted one, and, as long as it answers only what it is   *)
(* asked, no second initialize after that.                                 *)
HandshakeInOrder ==
  \A s \in Servers : LET log == server[s].log IN
    \A i \in DOMAIN log :
      LET accepted == \E j \in 1 .. i - 1 : log[j].method = "initialize" /\ log[j].answer = "ok"
      IN  /\ log[i].method # "initialize" => accepted
          /\ log[i].method = "initialize" => ~accepted \/ server[s].spoke

(* The client and the servers agree on where their conversation is. *)
Inv == TypeOK /\ HandshakeInOrder

(* What a call returns is the server's answer to that very request: one    *)
(* request at a time and one answer read for each make up for ids nobody   *)
(* compares, through failed operations, restarts and changes of the        *)
(* configuration, unless the server spoke out of turn.                     *)
AnswerBelongsToCall ==
  Idle /\ op.kind \in {"call", "execute"} /\ op.outcome = "ok" =>
    \/ op.got = op.asked
    \/ server[index[op.name][1]].spoke

(* After a discovery that got through, every tool it listed has a route    *)
(* under its name, and no route is left over from an earlier one.          *)
DiscoveryIsExact ==
  Idle /\ op.todo = <<>> /\ op.kind \in {"discover", "execute"} =>
    /\ \A n \in DOMAIN index : index[n] \in op.found /\ Qualify[index[n]] = n
    /\ \A p \in op.found : Qualify[p] \in DOMAIN index

ServerAtFault == ~client[Here].process \/ ~server[Here].alive \/ server[Here].spoke

(* An operation fails on input or output only when a server could not be   *)
(* started, died, or said something it was not asked for, or when its      *)
(* pipes went with the executor of an earlier call: what one operation     *)
(* leaves behind is fit for the next.                                      *)
IoErrorHasCause ==
  Idle /\ op.outcome = "io" => ServerAtFault \/ client[Here].executor = "dropped"

(* An operation's outcome is the doing of the server it asked.              *)
OutcomeIsTrue == AnswerBelongsToCall /\ IoErrorHasCause

(* The same without the exception.  A tool call of the CLI after the first *)
(* meets a server that is up, and reuses the process started before, as    *)
(* manager_reuses_spawned_server_between_discovery_and_call expects.       *)
ServersAreReused ==
  Idle /\ op.outcome = "io" => ServerAtFault

(* Every operation returns. *)
EveryOperationReturns == ~Idle ~> Idle
================================================================================
