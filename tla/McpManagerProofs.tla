--------------------------- MODULE McpManagerProofs ---------------------------
(***************************************************************************)
(* Theorems about McpManager, for any number of servers, tools and names   *)
(* and any number of faults: manager and servers stay in step, and what an *)
(* operation returns is the doing of the server it asked.                  *)
(***************************************************************************)
EXTENDS McpManager, SequenceTheorems, TLAPS

--------------------------------------------------------------------------------
(* Where an operation is.  While it runs, and after it failed on input or  *)
(* output or a call returned, the server it is at is one of the servers.   *)

AtServer ==
  \/ Listing(op) /\ op.kind \in {"discover", "execute"}
  \/ ~Listing(op) /\ op.kind \in {"call", "execute"} /\ op.name \in DOMAIN index

Placed ==
  \/ ~Idle \/ op.outcome = "io"
  \/ op.outcome = "ok" /\ op.kind \in {"call", "execute"}

OpInv ==
  /\ Placed => AtServer
  /\ op.pc \in {"send", "await"} =>
       /\ client[Here].process
       /\ op.method = "initialize" <=> ~client[Here].initialized
       /\ Listing(op) => op.method # "tools/call"
       /\ ~Listing(op) => op.method # "tools/list"

(* What is in place is in place at one of the servers. *)
LEMMA HereIsServer ==
  ASSUME TypeOK, AtServer
  PROVE  Here \in Servers
<1>1. CASE Listing(op)
  <2>1. op.todo \in Seq(Servers) /\ op.todo # <<>>
    BY <1>1 DEF TypeOK, Operation, Listing
  <2> QED BY <1>1, <2>1, HeadTailProperties DEF Here
<1>2. CASE ~Listing(op)
  BY <1>2 DEF TypeOK, AtServer, Here
<1> QED BY <1>1, <1>2

--------------------------------------------------------------------------------
(* The conversation with one server.  As long as it never spoke out of     *)
(* turn it has one request to answer, or one answer to be read, exactly    *)
(* while the operation waits for it; otherwise nothing is under way.  It   *)
(* has accepted a greeting before the client counts it as greeted, and     *)
(* only the answer still to be read is between the two.                    *)

Waiting(s) == op.pc = "await" /\ Here = s

Accepts(entry) == entry.method = "initialize" /\ entry.answer = "ok"

Accepted(s) == \E j \in DOMAIN server[s].log : Accepts(server[s].log[j])

Owed(s) ==
  LET log == server[s].log IN
  /\ server[s].pipe = <<>>
  /\ Unanswered(s) = {Len(log)}
  /\ log[Len(log)].id = op.asked /\ log[Len(log)].method = op.method

Delivered(s) ==
  LET pipe == server[s].pipe IN
  /\ Unanswered(s) = {}
  /\ Len(pipe) = 1
  /\ pipe[1].kind \in {"ok", "error", "empty"}
  /\ pipe[1].id = op.asked /\ pipe[1].method = op.method

Quiet(s) ==
  /\ server[s].pipe = <<>>
  /\ server[s].alive => Unanswered(s) = {}

InStep(s) == IF Waiting(s) THEN Owed(s) \/ Delivered(s) ELSE Quiet(s)

Greeting(s) ==
  /\ client[s].initialized => Accepted(s)
  /\ \A k \in DOMAIN server[s].pipe :
       server[s].pipe[k].kind = "ok" /\ server[s].pipe[k].method = "initialize"
         => Accepted(s)
  /\ Accepted(s) /\ ~client[s].initialized /\ ~server[s].spoke =>
       Waiting(s) /\ Delivered(s) /\ server[s].pipe[1].kind = "ok"

LogInOrder(s) ==
  \A i \in DOMAIN server[s].log :
    LET before == \E j \in 1 .. i - 1 : Accepts(server[s].log[j])
    IN  /\ server[s].log[i].method # "initialize" => before
        /\ server[s].log[i].method = "initialize" => ~before \/ server[s].spoke

Absent(s) ==
  ~client[s].process => server[s] = NoProcess /\ ~client[s].initialized

ServerInv(s) ==
  /\ Absent(s)
  /\ ~server[s].spoke => InStep(s)
  /\ Greeting(s)
  /\ LogInOrder(s)

(* A step that neither touches a server nor the wait for it. *)
LEMMA ServerKept ==
  ASSUME NEW s \in Servers, ServerInv(s), server'[s] = server[s],
         client'[s].process = client[s].process,
         client'[s].initialized = client[s].initialized,
         Waiting(s)' <=> Waiting(s),
         Waiting(s) => op'.asked = op.asked /\ op'.method = op.method
  PROVE  ServerInv(s)'
<1>1. Accepted(s)' <=> Accepted(s)
  BY DEF Accepted
<1>2. Absent(s)' /\ LogInOrder(s)'
  BY DEF ServerInv, Absent, LogInOrder
<1>3. Unanswered(s)' = Unanswered(s)
  BY DEF Unanswered
<1>4. Quiet(s)' <=> Quiet(s)
  BY <1>3 DEF Quiet
<1>5. Waiting(s) => (Owed(s)' <=> Owed(s)) /\ (Delivered(s)' <=> Delivered(s))
  BY <1>3 DEF Owed, Delivered
<1>6. ~server'[s].spoke => InStep(s)'
  BY <1>4, <1>5 DEF ServerInv, InStep
<1>7. Greeting(s)'
  BY <1>1, <1>5 DEF ServerInv, Greeting
<1> QED BY <1>2, <1>6, <1>7 DEF ServerInv

--------------------------------------------------------------------------------
(* Types. *)

(* The four ways an operation goes on. *)
LEMMA ProceedIs ==
  ASSUME NEW o, NEW routes
  PROVE  /\ Listing(o) => Proceed(o, routes) = [o EXCEPT !.pc = "ready"]
         /\ ~Listing(o) /\ o.kind = "discover" => Proceed(o, routes) = Finish(o, "ok")
         /\ ~Listing(o) /\ o.kind # "discover" /\ o.name \notin DOMAIN routes
              => Proceed(o, routes) = Finish(o, "unknownTool")
         /\ ~Listing(o) /\ o.kind # "discover" /\ o.name \in DOMAIN routes
              => Proceed(o, routes) = [o EXCEPT !.pc = "ready"]
BY DEF Proceed

(* An operation that ends is an operation. *)
LEMMA FinishType ==
  ASSUME NEW o \in Operation, NEW outcome \in Outcomes
  PROVE  Finish(o, outcome) \in Operation
BY DEF Finish, Operation

(* So is one that goes on. *)
LEMMA ProceedType ==
  ASSUME NEW o \in Operation, NEW routes
  PROVE  Proceed(o, routes) \in Operation
<1>1. [o EXCEPT !.pc = "ready"] \in Operation
  BY DEF Operation
<1>2. Finish(o, "ok") \in Operation /\ Finish(o, "unknownTool") \in Operation
  BY FinishType DEF Outcomes
<1> QED BY <1>1, <1>2, ProceedIs

(* An operation starts with its fields in place. *)
LEMMA StartType ==
  ASSUME NEW kind \in {"none", "discover", "call", "execute"}, NEW todo \in Seq(Servers),
         NEW name \in Names \cup {NoName}
  PROVE  Start(kind, todo, name) \in Operation
BY DEF Start, Operation, Methods, Outcomes

(* The servers of a configuration, in order. *)
LEMMA OrderType ==
  ASSUME TypeOK
  PROVE  Order[configured] \in Seq(Servers)
BY McpAssumption DEF TypeOK

(* An operation starts only when none is under way, and with the fields of *)
(* Start.                                                                  *)
LEMMA BeginType ==
  ASSUME TypeOK, NEW o \in Operation, Begin(o)
  PROVE  TypeOK'
<1>1. op' \in Operation
  BY ProceedType DEF Begin
<1>2. client' \in [Servers -> Managed]
  BY DEF Begin, TypeOK, Managed
<1> QED BY <1>1, <1>2 DEF Begin, TypeOK

(* Nothing is set up before a server is needed. *)
LEMMA FreshType ==
  /\ [s \in Servers |-> Unmanaged] \in [Servers -> Managed]
  /\ [s \in Servers |-> NoProcess] \in [Servers -> Process]
  /\ [Start("none", <<>>, NoName) EXCEPT !.pc = "idle"] \in Operation
<1>1. Unmanaged \in Managed
  BY DEF Unmanaged, Managed
<1>2. NoProcess \in Process
  BY DEF NoProcess, Process
<1>3. Start("none", <<>>, NoName) \in Operation
  <2>1. <<>> \in Seq(Servers)
    OBVIOUS
  <2> QED BY <2>1, StartType
<1> QED BY <1>1, <1>2, <1>3 DEF Operation

(* One message less in the pipe. *)
LEMMA TakeType ==
  ASSUME TypeOK, AtServer, server[Here].pipe # <<>>, Take
  PROVE  server' \in [Servers -> Process] /\ Received \in Message
<1>1. Here \in Servers /\ server \in [Servers -> Process]
  BY HereIsServer DEF TypeOK
<1>2. server[Here].pipe \in Seq(Message)
  BY <1>1 DEF Process
<1>3. Tail(server[Here].pipe) \in Seq(Message) /\ Received \in Message
  BY <1>2, HeadTailProperties DEF Received
<1> QED BY <1>1, <1>3 DEF Take, Process

(* A process that is killed, or not. *)
LEMMA StoppedType ==
  ASSUME NEW p \in Process, NEW alive \in {FALSE, p.alive}
  PROVE  [p EXCEPT !.alive = alive] \in Process
<1>1. [p EXCEPT !.alive = alive] =
        [alive |-> alive, log |-> p.log, pipe |-> p.pipe, spoke |-> p.spoke]
  BY DEF Process
<1>2. /\ alive \in BOOLEAN
      /\ p.log \in Seq([id : Nat, method : Methods, answer : Answers])
      /\ p.pipe \in Seq(Message)
      /\ p.spoke \in BOOLEAN
  BY DEF Process
<1> QED BY <1>1, <1>2, Zenon DEF Process

(* The names of a page are names. *)
LEMMA ListedType ==
  ASSUME Here \in Servers, NEW tools \in SUBSET Tools
  PROVE  Listed(tools) \in SUBSET Names
<1>1. ASSUME NEW t \in tools PROVE Qualify[Here, t] \in Names
  <2>1. <<Here, t>> \in Servers \X Tools
    OBVIOUS
  <2> QED BY <2>1, McpAssumption
<1> QED BY <1>1 DEF Listed

(* Every step keeps the types. *)
LEMMA TypeNext == TypeOK /\ OpInv /\ [Next]_vars => TypeOK'
<1> SUFFICES ASSUME TypeOK, OpInv, [Next]_vars PROVE TypeOK'
  OBVIOUS
<1>1. CASE DiscoverTools
  BY <1>1, OrderType, StartType, BeginType DEF DiscoverTools
<1>2. ASSUME NEW n \in Names, CallTool(n) \/ ExecuteTool(n) PROVE TypeOK'
  <2>1. <<>> \in Seq(Servers)
    OBVIOUS
  <2> QED BY <1>2, <2>1, OrderType, StartType, BeginType DEF CallTool, ExecuteTool
<1>3. CASE Spawn
  <2>1. Here \in Servers
    BY <1>3, HereIsServer DEF Spawn, OpInv, Placed, Idle
  <2>2. CASE Fault /\ Fail("io") /\ UNCHANGED <<client, server>>
    <3>1. op' \in Operation
      BY <2>2, FinishType DEF Fail, TypeOK, Outcomes
    <3>2. faults' \in 0 .. MaxFaults
      BY <2>2, McpAssumption DEF Fault, TypeOK
    <3> QED BY <1>3, <2>2, <3>1, <3>2 DEF Spawn, TypeOK
  <2>3. CASE /\ client' = [client EXCEPT ![Here] = [process |-> TRUE, initialized |-> FALSE,
                     executor |-> IF op.kind = "execute" THEN "call" ELSE "kept"]]
             /\ server' = [server EXCEPT ![Here] = [NoProcess EXCEPT !.alive = TRUE]]
             /\ UNCHANGED <<op, faults>>
    <3>1. client' \in [Servers -> Managed]
      BY <2>1, <2>3 DEF TypeOK, Managed
    <3>2. [NoProcess EXCEPT !.alive = TRUE] \in Process
      <4>1. NoProcess \in Process
        BY DEF NoProcess, Process
      <4> QED BY <4>1 DEF Process
    <3>3. server' \in [Servers -> Process]
      BY <2>1, <2>3, <3>2 DEF TypeOK
    <3> QED BY <1>3, <2>3, <3>1, <3>3 DEF Spawn, TypeOK
  <2> QED BY <1>3, <2>2, <2>3 DEF Spawn
<1>4. CASE Ready
  <2>1. op' \in Operation
    <3>1. PICK m \in Methods, p \in Nat :
            op' = [op EXCEPT !.pc = "send", !.method = m, !.pages = p]
      <4>1. op.pages \in Nat /\ op = [op EXCEPT !.pages = op.pages]
        BY DEF TypeOK, Operation
      <4>2. op' = [op EXCEPT !.pc = "send", !.method = "tools/list", !.pages = 0]
              \/ \E m \in Methods : op' = [op EXCEPT !.pc = "send", !.method = m]
        BY <1>4 DEF Ready, Methods
      <4>3. ASSUME NEW m \in Methods, op' = [op EXCEPT !.pc = "send", !.method = m]
            PROVE  op' = [op EXCEPT !.pc = "send", !.method = m, !.pages = op.pages]
        BY <4>1, <4>3 DEF TypeOK, Operation
      <4> QED BY <4>1, <4>2, <4>3 DEF Methods
    <3> QED BY <3>1 DEF TypeOK, Operation
  <2>2. DOMAIN index' \subseteq DOMAIN index /\ \A n \in DOMAIN index' : index'[n] = index[n]
    BY <1>4 DEF Ready
  <2> QED BY <1>4, <2>1, <2>2 DEF Ready, TypeOK
<1>5. CASE Send
  <2>1. Here \in Servers /\ nextId \in Nat /\ nextId' \in Nat \ {0}
    BY <1>5, HereIsServer DEF Send, OpInv, Placed, Idle, TypeOK
  <2>2. CASE Fail("io") /\ UNCHANGED server
    <3>1. op' \in Operation
      BY <2>2, FinishType DEF Fail, TypeOK, Outcomes
    <3> QED BY <1>5, <2>1, <2>2, <3>1 DEF Send, TypeOK
  <2>3. CASE ~(Fail("io") /\ UNCHANGED server)
    <3> DEFINE q == [id |-> nextId, method |-> op.method, answer |-> "none"]
               Entry == [id : Nat, method : Methods, answer : Answers]
    <3>1. /\ op' = [op EXCEPT !.pc = "await", !.asked = nextId]
          /\ server' = [server EXCEPT ![Here].log = Append(@, q)]
      BY <1>5, <2>3 DEF Send
    <3>2. op' \in Operation
      BY <2>1, <3>1 DEF TypeOK, Operation
    <3>3. q \in Entry
      BY <2>1 DEF TypeOK, Operation, Answers
    <3>4. server[Here] \in Process /\ server[Here].log \in Seq(Entry)
      BY <2>1 DEF TypeOK, Process
    <3> HIDE DEF q
    <3>5. Append(server[Here].log, q) \in Seq(Entry)
      BY <3>3, <3>4, AppendProperties
    <3> HIDE DEF Entry
    <3>6. server' \in [Servers -> Process]
      BY <2>1, <3>1, <3>5 DEF TypeOK, Process, Entry
    <3> QED BY <1>5, <2>1, <3>2, <3>6 DEF Send, TypeOK
  <2> QED BY <2>2, <2>3
<1>6. CASE ReceiveEof
  BY <1>6, FinishType DEF ReceiveEof, Fail, TypeOK, Outcomes
<1>7. CASE ReceiveGarbage \/ ReceiveRefusal
  <2>1. server' \in [Servers -> Process]
    BY <1>7, TakeType DEF ReceiveGarbage, ReceiveRefusal, OpInv, Placed, Idle
  <2>2. op' \in Operation
    BY <1>7, FinishType DEF ReceiveGarbage, ReceiveRefusal, Fail, TypeOK, Outcomes
  <2> QED BY <1>7, <2>1, <2>2 DEF ReceiveGarbage, ReceiveRefusal, TypeOK
<1>8. CASE ReceiveGreeting
  <2>1. Here \in Servers /\ server' \in [Servers -> Process]
    BY <1>8, TakeType, HereIsServer DEF ReceiveGreeting, OpInv, Placed, Idle
  <2>2. op' \in Operation
    BY <1>8 DEF ReceiveGreeting, TypeOK, Operation
  <2>3. client' \in [Servers -> Managed]
    BY <1>8, <2>1 DEF ReceiveGreeting, TypeOK, Managed
  <2> QED BY <1>8, <2>1, <2>2, <2>3 DEF ReceiveGreeting, TypeOK
<1>9. CASE ReceivePage
  <2>1. /\ Here \in Servers /\ server' \in [Servers -> Process] /\ Received \in Message
    BY <1>9, TakeType, HereIsServer DEF ReceivePage, OpInv, Placed, Idle
  <2>2. Received.tools \subseteq Tools
    BY <2>1 DEF Message
  <2>3. PICK routes \in [Listed(Received.tools) -> {Here} \X Received.tools] :
          /\ index' = [n \in DOMAIN routes \cup DOMAIN index |->
                         IF n \in DOMAIN routes THEN routes[n] ELSE index[n]]
          /\ LET listed == [op EXCEPT !.found = @ \cup ({Here} \X Received.tools), !.pages = @ + 1]
             IN  op' = IF Received.more
                         THEN [listed EXCEPT !.pc = "send"]
                         ELSE Proceed([listed EXCEPT !.todo = Tail(@)], index')
    BY <1>9 DEF ReceivePage
  <2>4. /\ DOMAIN routes \subseteq Names
        /\ \A n \in DOMAIN routes : routes[n] \in Servers \X Tools
    BY <2>1, <2>2, ListedType
  <2>5. /\ DOMAIN index' \subseteq Names
        /\ \A n \in DOMAIN index' : index'[n] \in Servers \X Tools
    BY <2>3, <2>4 DEF TypeOK
  <2> DEFINE listed == [op EXCEPT !.found = @ \cup ({Here} \X Received.tools), !.pages = @ + 1]
  <2>6. listed \in Operation /\ listed.todo = op.todo
    <3> DEFINE found == op.found \cup ({Here} \X Received.tools)
               pages == op.pages + 1
    <3>1. found \in SUBSET (Servers \X Tools)
      BY <2>1, <2>2 DEF TypeOK, Operation
    <3>2. pages \in Nat
      BY DEF TypeOK, Operation
    <3>3. listed = [op EXCEPT !.found = found, !.pages = pages]
      OBVIOUS
    <3> HIDE DEF found, pages, listed
    <3> QED BY <3>1, <3>2, <3>3 DEF TypeOK, Operation
  <2> HIDE DEF listed
  <2>8. [listed EXCEPT !.pc = "send"] \in Operation
    BY <2>6 DEF Operation
  <2>9. CASE Received.more
    BY <1>9, <2>1, <2>3, <2>5, <2>8, <2>9 DEF ReceivePage, TypeOK, listed
  <2>10. CASE ~Received.more
    <3>1. Listing(op)
      BY <1>9 DEF ReceivePage, OpInv
    <3>2. Tail(op.todo) \in Seq(Servers)
      BY <3>1, HeadTailProperties DEF Listing, TypeOK, Operation
    <3>3. [listed EXCEPT !.todo = Tail(@)] \in Operation
      BY <2>6, <3>2 DEF Operation
    <3>4. op' \in Operation
      BY <2>3, <2>10, <3>3, ProceedType DEF listed
    <3> QED BY <1>9, <2>1, <2>5, <3>4 DEF ReceivePage, TypeOK
  <2> QED BY <2>9, <2>10
<1>10. CASE ReceiveResult
  <2>1. server' \in [Servers -> Process] /\ Received \in Message
    BY <1>10, TakeType DEF ReceiveResult, OpInv, Placed, Idle
  <2>2. Received.id \in Nat /\ Finish(op, "ok") \in Operation
    BY <2>1, FinishType DEF Message, TypeOK, Outcomes
  <2>3. op' \in Operation
    BY <1>10, <2>2 DEF ReceiveResult, Operation
  <2> QED BY <1>10, <2>1, <2>3 DEF ReceiveResult, TypeOK
<1>11. CASE Shutdown
  BY <1>11, FreshType DEF Shutdown, TypeOK
<1>17. ASSUME NEW s \in Servers, NEW before, ShutdownStops(s, before) PROVE TypeOK'
  <2>1. Unmanaged \in Managed /\ NoProcess \in Process
    BY DEF Unmanaged, Managed, NoProcess, Process
  <2>2. client' \in [Servers -> Managed]
    BY <1>17, <2>1 DEF ShutdownStops, TypeOK
  <2>3. PICK alive \in {FALSE, server[s].alive} :
          server' = [u \in Servers |->
                       CASE u \in before -> NoProcess
                         [] u = s       -> [server[s] EXCEPT !.alive = alive]
                         [] OTHER       -> server[u]]
    BY <1>17 DEF ShutdownStops
  <2>4. [server[s] EXCEPT !.alive = alive] \in Process
    <3>1. server[s] \in Process
      BY DEF TypeOK
    <3> QED BY <3>1, StoppedType
  <2>5. server' \in [Servers -> Process]
    BY <2>1, <2>3, <2>4 DEF TypeOK
  <2> QED BY <1>17, <2>2, <2>5, FreshType, McpAssumption DEF ShutdownStops, Fault, TypeOK
<1>12. ASSUME NEW names \in SUBSET Servers, Reconfigure(names) PROVE TypeOK'
  BY <1>12, FreshType DEF Reconfigure, NewManager, TypeOK
<1>13. ASSUME NEW s \in Servers, Die(s) PROVE TypeOK'
  <2>1. server' \in [Servers -> Process]
    BY <1>13 DEF Die, TypeOK, Process
  <2> QED BY <1>13, <2>1, McpAssumption DEF Die, Fault, TypeOK
<1>14. ASSUME NEW s \in Servers, SpeakUp(s) PROVE TypeOK'
  <2>1. PICK kind \in OutOfTurn :
          server' = [server EXCEPT
            ![s].pipe = Say(s, [kind |-> kind, id |-> 0, method |-> "initialize",
                                tools |-> {}, more |-> FALSE]),
            ![s].spoke = TRUE]
    BY <1>14 DEF SpeakUp
  <2> DEFINE msg == [kind |-> kind, id |-> 0, method |-> "initialize",
                     tools |-> {}, more |-> FALSE]
  <2>2. msg \in Message
    BY McpAssumption DEF Message, Methods, Answers
  <2>3. server[s] \in Process /\ server[s].pipe \in Seq(Message)
    BY DEF TypeOK, Process
  <2> HIDE DEF msg
  <2>4. Say(s, msg) \in Seq(Message)
    <3>1. <<msg>> \in Seq(Message)
      BY <2>2
    <3> QED BY <2>3, <3>1, ConcatProperties DEF Say
  <2> DEFINE pipe == Say(s, msg)
  <2>5. server' = [server EXCEPT ![s].pipe = pipe, ![s].spoke = TRUE] /\ pipe \in Seq(Message)
    BY <2>1, <2>4 DEF msg
  <2> HIDE DEF pipe
  <2>6. server' \in [Servers -> Process]
    BY <2>3, <2>5 DEF TypeOK, Process
  <2> QED BY <1>14, <2>6, McpAssumption DEF SpeakUp, Fault, TypeOK
<1>15. ASSUME NEW s \in Servers, Answer(s) PROVE TypeOK'
  <2>1. PICK i \in Unanswered(s), kind \in {"ok"} \cup Refusals, tools \in SUBSET Tools,
             more \in BOOLEAN :
          LET q == server[s].log[i]
          IN  /\ IF kind = "ok" THEN UNCHANGED faults ELSE Fault
              /\ q.method # "tools/list" \/ kind # "ok" => tools = {} /\ ~more
              /\ more => op.pages + 1 < MaxPages
              /\ server' = [server EXCEPT
                   ![s].pipe = Say(s, [kind |-> kind, id |-> q.id, method |-> q.method,
                                       tools |-> tools, more |-> more]),
                   ![s].log = [@ EXCEPT ![i].answer = kind]]
    BY <1>15, Zenon DEF Answer
  <2> DEFINE log == server[s].log
             Entry == [id : Nat, method : Methods, answer : Answers]
             msg == [kind |-> kind, id |-> log[i].id, method |-> log[i].method,
                     tools |-> tools, more |-> more]
  <2>2. server[s] \in Process /\ server[s].pipe \in Seq(Message) /\ log \in Seq(Entry)
    BY DEF TypeOK, Process
  <2>3. i \in 1 .. Len(log) /\ log[i] \in Entry /\ kind \in Answers
    <3>1. i \in 1 .. Len(log)
      BY <2>2, LenProperties DEF Unanswered
    <3>2. kind \in Answers
      BY McpAssumption DEF Answers
    <3> QED BY <2>2, <3>1, <3>2, ElementOfSeq
  <2>4. msg \in Message
    BY <2>3 DEF Message
  <2>5. Say(s, msg) \in Seq(Message)
    <3> HIDE DEF msg
    <3>1. <<msg>> \in Seq(Message)
      BY <2>4
    <3> QED BY <2>2, <3>1, ConcatProperties DEF Say
  <2> DEFINE pipe == Say(s, msg)
             newLog == [log EXCEPT ![i].answer = kind]
  <2>6. newLog \in Seq(Entry)
    <3> DEFINE e == [log[i] EXCEPT !.answer = kind]
    <3>1. e \in Entry
      BY <2>3
    <3>2. newLog = [log EXCEPT ![i] = e]
      OBVIOUS
    <3> HIDE DEF e, Entry, newLog, log
    <3> QED BY <2>2, <2>3, <3>1, <3>2, ExceptSeq
  <2>7. server' = [server EXCEPT ![s] = [server[s] EXCEPT !.pipe = pipe, !.log = newLog]]
    BY <2>1, <2>2 DEF TypeOK, Process
  <2> HIDE DEF pipe, newLog
  <2>8. server' \in [Servers -> Process]
    BY <2>2, <2>5, <2>6, <2>7 DEF pipe, TypeOK, Process
  <2> QED BY <1>15, <2>1, <2>8, McpAssumption DEF Answer, Fault, TypeOK
<1>16. CASE UNCHANGED vars
  BY <1>16 DEF vars, TypeOK
<1> QED
  <2>1. \A s \in Servers : configured \cup {s} \in SUBSET Servers
                         /\ configured \ {s} \in SUBSET Servers
    BY DEF TypeOK
  <2>2. configured \subseteq Servers
    BY DEF TypeOK
  <2> QED
    BY <2>1, <2>2, <1>1, <1>2, <1>3, <1>4, <1>5, <1>6, <1>7, <1>8, <1>9, <1>10, <1>11,
       <1>12, <1>13, <1>14, <1>15, <1>16, <1>17 DEF Next, Receive

--------------------------------------------------------------------------------
(* The operation under way. *)

(* A step that leaves the operation where it is. *)
LEMMA PlaceKept ==
  ASSUME op'.todo = op.todo, op'.kind = op.kind, op'.name = op.name, index' = index
  PROVE  (AtServer' <=> AtServer) /\ Here' = Here
BY DEF AtServer, Here, Listing

(* An operation that has just begun has sent nothing, and has a server to  *)
(* turn to unless it is over.                                              *)
LEMMA BeginOp ==
  ASSUME NEW kind \in {"discover", "call", "execute"}, NEW todo, NEW name,
         kind = "call" => todo = <<>>, Begin(Start(kind, todo, name))
  PROVE  OpInv' /\ op'.pc \in {"idle", "ready"}
         /\ (op'.pc = "idle" =>
               op'.outcome = "unknownTool" \/ (op'.outcome = "ok" /\ kind = "discover"))
         /\ op'.kind = kind
<1> DEFINE o == Start(kind, todo, name)
<1>1. o.kind = kind /\ o.todo = todo /\ o.name = name
  BY DEF Start
<1>2. op' = Proceed(o, index) /\ index' = index
  BY DEF Begin
<1>3. \/ /\ op' = [o EXCEPT !.pc = "ready"]
         /\ Listing(o) \/ (kind # "discover" /\ name \in DOMAIN index)
      \/ op' = Finish(o, "ok") /\ kind = "discover"
      \/ op' = Finish(o, "unknownTool")
  BY <1>1, <1>2, ProceedIs
<1>4. CASE /\ op' = [o EXCEPT !.pc = "ready"]
           /\ Listing(o) \/ (kind # "discover" /\ name \in DOMAIN index)
  <2>1. op'.kind = kind /\ op'.todo = todo /\ op'.name = name /\ op'.pc = "ready"
    BY <1>4 DEF Start
  <2>2. AtServer'
    BY <1>1, <1>2, <1>4, <2>1 DEF AtServer, Listing
  <2> QED BY <2>1, <2>2 DEF OpInv
<1>5. ASSUME NEW outcome, op' = Finish(o, outcome),
             outcome = "unknownTool" \/ (outcome = "ok" /\ kind = "discover")
      PROVE  /\ OpInv' /\ op'.pc = "idle" /\ op'.outcome = outcome /\ op'.kind = kind
  <2>1. op'.pc = "idle" /\ op'.outcome = outcome /\ op'.kind = kind
    BY <1>5 DEF Finish, Start
  <2> QED BY <1>5, <2>1 DEF OpInv, Placed, Idle
<1> HIDE DEF o
<1>6. CASE op' = Finish(o, "ok") /\ kind = "discover"
  BY <1>5, <1>6
<1>7. CASE op' = Finish(o, "unknownTool")
  BY <1>5, <1>7
<1>8. op' = [o EXCEPT !.pc = "ready"] => op'.pc = "ready" /\ op'.kind = kind
  BY <1>1 DEF o, Start
<1> QED BY <1>3, <1>4, <1>6, <1>7, <1>5, <1>8

(* An operation that fails stays where it was. *)
LEMMA FailOp ==
  ASSUME TypeOK, OpInv, ~Idle, NEW outcome \in Outcomes, Fail(outcome), index' = index
  PROVE  /\ OpInv' /\ AtServer /\ AtServer' /\ Here' = Here
         /\ op'.pc = "idle" /\ op'.outcome = outcome
<1>1. /\ op'.todo = op.todo /\ op'.kind = op.kind /\ op'.name = op.name
      /\ op'.pc = "idle" /\ op'.outcome = outcome
  BY DEF Fail, Finish, TypeOK, Operation
<1> QED BY <1>1, PlaceKept DEF OpInv, Placed

(* A step of a server does not move the operation. *)
LEMMA OtherOp ==
  ASSUME OpInv, UNCHANGED <<op, client, index>>
  PROVE  OpInv'
BY PlaceKept DEF OpInv, Placed, Idle, Listing

(* While a page is read the operation lists the tools of a greeted server. *)
LEMMA PageOp ==
  ASSUME TypeOK, OpInv, ReceivePage
  PROVE  /\ OpInv' /\ Listing(op)
         /\ op'.pc # "await" /\ (op'.pc = "idle" => op'.outcome # "io")
         /\ (op'.outcome = "ok" /\ op'.pc = "idle" => op'.kind = "discover")
         /\ (op'.pc = "send" => Here' = Here /\ op'.method = "tools/list")
<1>1. /\ ~Idle /\ op.method = "tools/list" /\ op.pc = "await" /\ UNCHANGED client
      /\ Listing(op) /\ op.kind \in {"discover", "execute"}
      /\ client[Here].process /\ client[Here].initialized
  <2>1. /\ op.pc = "await" /\ op.method = "tools/list" /\ UNCHANGED client
    BY DEF ReceivePage
  <2> QED BY <2>1 DEF OpInv, Placed, Idle, AtServer
<1>2. PICK routes \in [Listed(Received.tools) -> {Here} \X Received.tools] :
        /\ index' = [n \in DOMAIN routes \cup DOMAIN index |->
                       IF n \in DOMAIN routes THEN routes[n] ELSE index[n]]
        /\ LET listed == [op EXCEPT !.found = @ \cup ({Here} \X Received.tools), !.pages = @ + 1]
           IN  op' = IF Received.more
                       THEN [listed EXCEPT !.pc = "send"]
                       ELSE Proceed([listed EXCEPT !.todo = Tail(@)], index')
  BY DEF ReceivePage
<1> DEFINE found == op.found \cup ({Here} \X Received.tools)
           pages == op.pages + 1
           listed == [op EXCEPT !.found = found, !.pages = pages]
<1>3. op' = IF Received.more THEN [listed EXCEPT !.pc = "send"]
            ELSE Proceed([listed EXCEPT !.todo = Tail(@)], index')
  BY <1>2
<1> HIDE DEF found, pages
<1>4. CASE Received.more
  <2>1. /\ op'.pc = "send" /\ op'.kind = op.kind /\ op'.todo = op.todo
        /\ op'.name = op.name /\ op'.method = "tools/list"
    BY <1>1, <1>3, <1>4 DEF TypeOK, Operation
  <2>2. Here' = Here /\ Listing(op)' /\ Listing(op')
    BY <1>1, <2>1 DEF Here, Listing
  <2>3. AtServer'
    BY <1>1, <2>1, <2>2 DEF AtServer
  <2> QED BY <1>1, <2>1, <2>2, <2>3 DEF OpInv
<1>5. CASE ~Received.more
  <2> DEFINE o == [listed EXCEPT !.todo = Tail(@)]
  <2>1. op' = Proceed(o, index')
    BY <1>3, <1>5
  <2>2. o.kind = op.kind /\ o.name = op.name
    BY DEF TypeOK, Operation
  <2>3. \A outcome : \A pc \in {"idle", "ready"} :
          /\ [o EXCEPT !.pc = pc].pc = pc /\ [o EXCEPT !.pc = pc].kind = op.kind
          /\ [o EXCEPT !.pc = pc].todo = o.todo /\ [o EXCEPT !.pc = pc].name = op.name
          /\ Finish(o, outcome).pc = "idle" /\ Finish(o, outcome).kind = op.kind
          /\ Finish(o, outcome).outcome = outcome
    BY DEF TypeOK, Operation, Finish
  <2> HIDE DEF o
  <2>4. \/ /\ op' = [o EXCEPT !.pc = "ready"]
           /\ Listing(o) \/ (op.kind # "discover" /\ op.name \in DOMAIN index')
        \/ op' = Finish(o, "ok") /\ op.kind = "discover"
        \/ op' = Finish(o, "unknownTool")
    BY <2>1, <2>2, ProceedIs
  <2>5. CASE /\ op' = [o EXCEPT !.pc = "ready"]
             /\ Listing(o) \/ (op.kind # "discover" /\ op.name \in DOMAIN index')
    <3>1. op'.pc = "ready" /\ op'.kind = op.kind /\ op'.todo = o.todo /\ op'.name = op.name
      BY <2>3, <2>5
    <3>2. AtServer'
      BY <1>1, <2>5, <3>1 DEF AtServer, Listing
    <3> QED BY <1>1, <3>1, <3>2 DEF OpInv
  <2>6. ASSUME NEW outcome, op' = Finish(o, outcome),
               outcome = "unknownTool" \/ (outcome = "ok" /\ op.kind = "discover")
        PROVE  OpInv' /\ op'.pc = "idle" /\ op'.outcome = outcome /\ op'.kind = op.kind
    <3>1. op'.pc = "idle" /\ op'.outcome = outcome /\ op'.kind = op.kind
      BY <2>3, <2>6
    <3> QED BY <2>6, <3>1 DEF OpInv, Placed, Idle
  <2>7. CASE op' = Finish(o, "ok") /\ op.kind = "discover"
    BY <1>1, <2>6, <2>7
  <2>8. CASE op' = Finish(o, "unknownTool")
    BY <1>1, <2>6, <2>8
  <2> QED BY <2>4, <2>5, <2>7, <2>8
<1> QED BY <1>4, <1>5

(* The other steps of an operation. *)
LEMMA ReadyOp ==
  ASSUME TypeOK, OpInv, Ready
  PROVE  /\ OpInv' /\ op'.pc = "send" /\ Here' = Here
<1>1. /\ op.pc = "ready" /\ AtServer /\ client' = client /\ client[Here].process
  BY DEF Ready, OpInv, Placed, Idle
<1>2. /\ op'.pc = "send" /\ op'.todo = op.todo /\ op'.kind = op.kind /\ op'.name = op.name
      /\ op'.method = IF ~client[Here].initialized THEN "initialize"
                      ELSE IF Listing(op) THEN "tools/list" ELSE "tools/call"
      /\ ~Listing(op) => index' = index
  BY DEF Ready, TypeOK, Operation
<1>3. (Listing(op)' <=> Listing(op)) /\ Here' = Here /\ AtServer'
  BY <1>1, <1>2 DEF Here, Listing, AtServer
<1> QED BY <1>1, <1>2, <1>3 DEF OpInv

LEMMA SendOp ==
  ASSUME TypeOK, OpInv, Send
  PROVE  /\ OpInv' /\ Here' = Here
         /\ \/ op'.pc = "await" /\ op'.asked = nextId /\ op'.method = op.method
            \/ op'.pc = "idle" /\ op'.outcome = "io"
<1>1. /\ ~Idle /\ op.pc = "send" /\ AtServer /\ UNCHANGED <<client, index>>
  BY DEF Send, OpInv, Placed, Idle
<1>2. CASE Fail("io")
  BY <1>1, <1>2, FailOp DEF Outcomes
<1>3. CASE ~Fail("io")
  <2>1. op' = [op EXCEPT !.pc = "await", !.asked = nextId]
    BY <1>3 DEF Send
  <2>2. /\ op'.pc = "await" /\ op'.todo = op.todo /\ op'.kind = op.kind
        /\ op'.name = op.name /\ op'.method = op.method /\ op'.asked = nextId
    BY <2>1 DEF TypeOK, Operation
  <2>3. (Listing(op)' <=> Listing(op)) /\ Here' = Here /\ AtServer'
    BY <1>1, <2>2, PlaceKept DEF Listing
  <2> QED BY <1>1, <2>2, <2>3 DEF OpInv
<1> QED BY <1>2, <1>3

LEMMA GreetingOp ==
  ASSUME TypeOK, OpInv, ReceiveGreeting
  PROVE  OpInv' /\ Here' = Here /\ op'.pc = "ready"
<1>1. op.pc = "await" /\ AtServer /\ index' = index
  BY DEF ReceiveGreeting, OpInv, Placed, Idle
<1>2. /\ op'.pc = "ready" /\ op'.todo = op.todo /\ op'.kind = op.kind /\ op'.name = op.name
  BY DEF ReceiveGreeting, TypeOK, Operation
<1> QED BY <1>1, <1>2, PlaceKept DEF OpInv

LEMMA ResultOp ==
  ASSUME TypeOK, OpInv, ReceiveResult
  PROVE  /\ OpInv' /\ Here' = Here /\ AtServer /\ ~Listing(op)
         /\ op'.pc = "idle" /\ op'.outcome = "ok"
         /\ op'.got = Received.id /\ op'.asked = op.asked
         /\ op'.name = op.name /\ index' = index
<1>1. op.pc = "await" /\ AtServer /\ index' = index /\ op.method = "tools/call"
      /\ ~Listing(op)
  BY DEF ReceiveResult, OpInv, Placed, Idle
<1>2. /\ op'.pc = "idle" /\ op'.todo = op.todo /\ op'.kind = op.kind /\ op'.name = op.name
      /\ op'.outcome = "ok" /\ op'.got = Received.id /\ op'.asked = op.asked
  BY DEF ReceiveResult, Finish, TypeOK, Operation
<1> QED BY <1>1, <1>2, PlaceKept DEF OpInv

(* A fresh manager has nothing under way. *)
LEMMA FreshOp ==
  ASSUME op' = [Start("none", <<>>, NoName) EXCEPT !.pc = "idle"]
  PROVE  OpInv' /\ op'.pc = "idle" /\ op'.outcome = "none"
<1>1. op'.pc = "idle" /\ op'.outcome = "none"
  BY DEF Start
<1> QED BY <1>1 DEF OpInv, Placed, Idle

(* Every step leaves the operation somewhere it can go on from. *)
LEMMA OpNext == TypeOK /\ OpInv /\ [Next]_vars => OpInv'
<1> SUFFICES ASSUME TypeOK, OpInv, [Next]_vars PROVE OpInv'
  OBVIOUS
<1>1. CASE DiscoverTools
  BY <1>1, BeginOp DEF DiscoverTools
<1>2. ASSUME NEW n \in Names, CallTool(n) \/ ExecuteTool(n) PROVE OpInv'
  BY <1>2, BeginOp DEF CallTool, ExecuteTool
<1>3. CASE Spawn
  <2>1. op.pc = "ready" /\ index' = index /\ (op' = op \/ Fail("io"))
    BY <1>3 DEF Spawn
  <2>2. CASE op' = op
    BY <2>1, <2>2, PlaceKept DEF OpInv, Placed, Idle
  <2>3. CASE Fail("io")
    BY <2>1, <2>3, FailOp DEF Idle, Outcomes
  <2> QED BY <2>1, <2>2, <2>3
<1>4. CASE ReceiveEof \/ ReceiveGarbage \/ ReceiveRefusal
  <2>1. PICK outcome \in Outcomes : Fail(outcome) /\ ~Idle /\ index' = index
    BY <1>4 DEF ReceiveEof, ReceiveGarbage, ReceiveRefusal, Idle, Outcomes
  <2> QED BY <2>1, FailOp
<1>5. CASE Shutdown \/ (\E s, before : ShutdownStops(s, before)) \/ \E names : Reconfigure(names)
  BY <1>5, FreshOp DEF Shutdown, ShutdownStops, Reconfigure
<1>6. CASE (\E s \in Servers : Answer(s) \/ SpeakUp(s) \/ Die(s)) \/ UNCHANGED vars
  BY <1>6, OtherOp DEF Answer, SpeakUp, Die, vars
<1> QED
  BY <1>1, <1>2, <1>3, <1>4, <1>5, <1>6, ReadyOp, SendOp, GreetingOp, PageOp, ResultOp
     DEF Next, Receive

--------------------------------------------------------------------------------
(* The conversations, step by step. *)

AllServers == \A s \in Servers : ServerInv(s)

(* The log and the pipe of a server, with the indices written out. *)
LEMMA ServerFacts ==
  ASSUME TypeOK, NEW s \in Servers
  PROVE  /\ server[s] \in Process
         /\ Len(server[s].log) \in Nat /\ DOMAIN server[s].log = 1 .. Len(server[s].log)
         /\ Len(server[s].pipe) \in Nat /\ DOMAIN server[s].pipe = 1 .. Len(server[s].pipe)
         /\ server[s].pipe \in Seq(Message)
         /\ server[s].log \in Seq([id : Nat, method : Methods, answer : Answers])
<1>1. server[s] \in Process
  BY DEF TypeOK
<1> QED BY <1>1, LenProperties DEF Process

(* No conversation changes when servers and waiting stay as they are. *)
LEMMA AllKept ==
  ASSUME AllServers, server' = server, op.pc # "await", op'.pc # "await",
         \A s \in Servers : /\ client'[s].process = client[s].process
                            /\ client'[s].initialized = client[s].initialized
  PROVE  AllServers'
<1>1. \A s \in Servers : ~Waiting(s) /\ ~Waiting(s)'
  BY DEF Waiting
<1>2. ASSUME NEW s \in Servers PROVE ServerInv(s)'
  BY <1>1, ServerKept DEF AllServers
<1> QED BY <1>2 DEF AllServers

(* The servers the operation is not at are left alone by what it does. *)
LEMMA OthersKept ==
  ASSUME AllServers, NEW s \in Servers, s # Here,
         server'[s] = server[s], client'[s] = client[s],
         op'.pc = "await" => Here' = Here
  PROVE  ServerInv(s)'
<1>1. ~Waiting(s) /\ ~Waiting(s)'
  BY DEF Waiting
<1> QED BY <1>1, ServerKept DEF AllServers

(* A manager without processes. *)
LEMMA AllFresh ==
  ASSUME client' = [s \in Servers |-> Unmanaged], server' = [s \in Servers |-> NoProcess],
         op'.pc = "idle"
  PROVE  AllServers'
<1> SUFFICES ASSUME NEW s \in Servers PROVE ServerInv(s)'
  BY DEF AllServers
<1>1. /\ client'[s] = Unmanaged /\ server'[s] = NoProcess
  OBVIOUS
<1>2. /\ ~client'[s].initialized /\ server'[s].log = <<>> /\ server'[s].pipe = <<>>
      /\ ~Waiting(s)'
  BY <1>1 DEF Unmanaged, NoProcess, Waiting
<1>3. ~Accepted(s)' /\ Unanswered(s)' = {}
  BY <1>2 DEF Accepted, Unanswered
<1> QED
  BY <1>1, <1>2, <1>3 DEF ServerInv, Absent, InStep, Quiet, Greeting, LogInOrder

(* A server that has just been started. *)
LEMMA SpawnServers ==
  ASSUME TypeOK, OpInv, AllServers, Spawn
  PROVE  AllServers'
<1>1. op.pc = "ready" /\ Here \in Servers
  BY HereIsServer DEF Spawn, OpInv, Placed, Idle
<1>2. CASE Fail("io") /\ UNCHANGED <<client, server>>
  <2>1. op'.pc = "idle"
    BY <1>1, <1>2, FailOp DEF Spawn, Idle, Outcomes
  <2> QED BY <1>1, <1>2, <2>1, AllKept
<1>3. CASE ~(Fail("io") /\ UNCHANGED <<client, server>>)
  <2>1. /\ client' = [client EXCEPT ![Here] = [process |-> TRUE, initialized |-> FALSE,
                     executor |-> IF op.kind = "execute" THEN "call" ELSE "kept"]]
        /\ server' = [server EXCEPT ![Here] = [NoProcess EXCEPT !.alive = TRUE]]
        /\ op' = op
    BY <1>3 DEF Spawn
  <2>2. /\ client'[Here].process /\ ~client'[Here].initialized
        /\ server'[Here].log = <<>> /\ server'[Here].pipe = <<>>
    BY <1>1, <2>1 DEF TypeOK, NoProcess
  <2>3. ASSUME NEW s \in Servers PROVE ServerInv(s)'
    <3>1. CASE s # Here
      BY <1>1, <2>1, <3>1, OthersKept DEF TypeOK
    <3>2. CASE s = Here
      <4>1. ~Accepted(s)' /\ Unanswered(s)' = {} /\ ~Waiting(s)'
        BY <1>1, <2>1, <2>2, <3>2 DEF Accepted, Unanswered, Waiting
      <4> QED
        BY <2>2, <3>2, <4>1 DEF ServerInv, Absent, InStep, Quiet, Greeting, LogInOrder
    <3> QED BY <3>1, <3>2
  <2> QED BY <2>3 DEF AllServers
<1> QED BY <1>2, <1>3

(* A request is sent: the server owes one answer. *)
LEMMA SendServers ==
  ASSUME TypeOK, OpInv, AllServers, Send
  PROVE  AllServers'
<1>1. /\ op.pc = "send" /\ Here \in Servers /\ client' = client
      /\ client[Here].process /\ nextId \in Nat
      /\ op.method = "initialize" <=> ~client[Here].initialized
  BY HereIsServer DEF Send, OpInv, Placed, Idle, TypeOK
<1>2. CASE server' = server /\ op'.pc = "idle"
  BY <1>1, <1>2, AllKept
<1>3. CASE ~(server' = server /\ op'.pc = "idle")
  <2> DEFINE q == [id |-> nextId, method |-> op.method, answer |-> "none"]
             log == server[Here].log
             n == Len(log)
  <2>1. /\ server' = [server EXCEPT ![Here].log = Append(@, q)]
        /\ server[Here].alive
        /\ op' = [op EXCEPT !.pc = "await", !.asked = nextId]
    <3>1. ~(Fail("io") /\ UNCHANGED server)
      BY <1>3 DEF Fail, Finish, TypeOK, Operation
    <3> QED BY <3>1 DEF Send
  <2>2. op'.pc = "await" /\ op'.asked = nextId /\ op'.method = op.method /\ Here' = Here
    BY <2>1, SendOp DEF TypeOK, Operation
  <2>3. /\ server'[Here].pipe = server[Here].pipe
        /\ server'[Here].alive = server[Here].alive
        /\ server'[Here].spoke = server[Here].spoke
        /\ server'[Here].log = Append(log, q)
        /\ \A s \in Servers : s # Here => server'[s] = server[s]
    <3>1. server[Here] \in Process
      BY <1>1, ServerFacts
    <3> HIDE DEF q
    <3> QED BY <1>1, <2>1, <3>1 DEF TypeOK, Process
  <2>4. /\ log \in Seq([id : Nat, method : Methods, answer : Answers])
        /\ n \in Nat /\ DOMAIN log = 1 .. n
    BY <1>1, ServerFacts
  <2>5. q \in [id : Nat, method : Methods, answer : Answers]
    BY <1>1 DEF TypeOK, Operation, Answers
  <2>6. q.id = nextId /\ q.method = op.method /\ q.answer = "none"
    OBVIOUS
  <2> HIDE DEF q, log, n
  <2>7. /\ Len(Append(log, q)) = n + 1 /\ DOMAIN Append(log, q) = 1 .. n + 1
        /\ Append(log, q)[n + 1] = q
        /\ \A j \in 1 .. n : Append(log, q)[j] = log[j]
    BY <2>4, <2>5, AppendProperties, LenProperties DEF n
  <2>8. ServerInv(Here)'
    <3>1. ServerInv(Here) /\ ~Waiting(Here) /\ Waiting(Here)'
      BY <1>1, <2>2 DEF AllServers, Waiting
    <3>2. Unanswered(Here)' = Unanswered(Here) \cup {n + 1}
      BY <2>2, <2>3, <2>4, <2>6, <2>7 DEF Unanswered, log
    <3>3. Accepted(Here)' <=> Accepted(Here)
      BY <2>2, <2>3, <2>4, <2>6, <2>7 DEF Accepted, Accepts, log
    <3>4. Absent(Here)'
      BY <1>1, <2>2 DEF Absent
    <3>5. ~server'[Here].spoke => Owed(Here)'
      BY <2>1, <2>2, <2>3, <2>6, <2>7, <3>1, <3>2 DEF ServerInv, InStep, Quiet, Owed
    <3>6. Greeting(Here)'
      BY <1>1, <2>2, <2>3, <3>1, <3>3 DEF ServerInv, Greeting
    <3>7. LogInOrder(Here)'
      <4> DEFINE new == Append(log, q)
                 Before(i) == \E j \in 1 .. i - 1 : Accepts(new[j])
      <4>1. ASSUME NEW i \in 1 .. n
            PROVE  /\ new[i].method # "initialize" => Before(i)
                   /\ new[i].method = "initialize" => ~Before(i) \/ server[Here].spoke
        <5>1. \A j \in 1 .. i : new[j] = log[j]
          BY <2>4, <2>7, <4>1
        <5>2. \A j \in 1 .. i - 1 : j \in 1 .. i
          BY <2>4
        <5>3. /\ log[i].method # "initialize" => \E j \in 1 .. i - 1 : Accepts(log[j])
              /\ log[i].method = "initialize" =>
                   ~(\E j \in 1 .. i - 1 : Accepts(log[j])) \/ server[Here].spoke
          BY <2>4, <3>1, <4>1 DEF ServerInv, LogInOrder, log
        <5>4. new[i] = log[i]
          BY <2>4, <5>1
        <5> QED BY <5>1, <5>2, <5>3, <5>4
      <4>2. Before(n + 1) <=> Accepted(Here)
        <5>1. (n + 1) - 1 = n
          BY <2>4
        <5> QED BY <2>4, <2>7, <5>1 DEF Accepted, log
      <4>3. /\ new[n + 1].method # "initialize" => Before(n + 1)
            /\ new[n + 1].method = "initialize" => ~Before(n + 1) \/ server[Here].spoke
        <5>1. op.method # "initialize" => Accepted(Here)
          BY <1>1, <3>1 DEF ServerInv, Greeting, TypeOK, Managed
        <5>2. op.method = "initialize" => ~Accepted(Here) \/ server[Here].spoke
          BY <1>1, <3>1 DEF ServerInv, Greeting
        <5> QED BY <2>6, <2>7, <4>2, <5>1, <5>2
      <4>4. \A i \in 1 .. n + 1 : i \in 1 .. n \/ i = n + 1
        BY <2>4
      <4>5. server'[Here'].log = new /\ server'[Here'].spoke = server[Here].spoke
            /\ DOMAIN new = 1 .. n + 1
        BY <2>2, <2>3, <2>7
      <4>6. \A i \in DOMAIN new :
              /\ new[i].method # "initialize" => Before(i)
              /\ new[i].method = "initialize" => ~Before(i) \/ server[Here].spoke
        BY <4>1, <4>3, <4>4, <4>5
      <4> HIDE DEF new
      <4> QED BY <4>5, <4>6 DEF LogInOrder
    <3> QED BY <2>2, <3>1, <3>4, <3>5, <3>6, <3>7 DEF ServerInv, InStep
  <2>9. ASSUME NEW s \in Servers PROVE ServerInv(s)'
    <3>1. CASE s # Here
      BY <1>1, <2>2, <2>3, <3>1, OthersKept
    <3>2. CASE s = Here
      <4>1. s = Here'
        BY <2>2, <3>2
      <4> QED BY <2>8, <4>1
    <3> QED BY <3>1, <3>2
  <2> QED BY <2>9 DEF AllServers
<1> QED BY <1>2, <1>3

(* What is read from a server that never spoke out of turn is the answer   *)
(* to the request under way, and decodes as such.                          *)
LEMMA ReceivedIsAnswer ==
  ASSUME TypeOK, OpInv, AllServers, op.pc = "await", server[Here].pipe # <<>>
  PROVE  /\ Here \in Servers /\ Received = server[Here].pipe[1]
         /\ ~server[Here].spoke =>
              /\ Delivered(Here) /\ Decodes(Received)
              /\ Received.id = op.asked /\ Received.method = op.method
              /\ Received.kind \in {"ok", "error", "empty"}
         /\ Received.kind = "ok" /\ Received.method = "initialize" => Accepted(Here)
<1>1. Here \in Servers /\ Received = server[Here].pipe[1]
  BY HereIsServer DEF OpInv, Placed, Idle, Received
<1>2. ASSUME ~server[Here].spoke PROVE Delivered(Here)
  BY <1>1, <1>2 DEF AllServers, ServerInv, InStep, Waiting, Owed
<1>3. ASSUME ~server[Here].spoke
      PROVE  /\ Received.id = op.asked /\ Received.method = op.method
             /\ Received.kind \in {"ok", "error", "empty"}
  BY <1>1, <1>2, <1>3 DEF Delivered
<1>4. ASSUME ~server[Here].spoke PROVE Decodes(Received)
  <2>1. Received.kind # "notification" /\ op.method \in {Received.method, "tools/call"}
    BY <1>3, <1>4
  <2> QED BY <2>1, Zenon DEF Decodes
<1>5. 1 \in DOMAIN server[Here].pipe
  BY <1>1, ServerFacts, EmptySeq
<1>6. Received.kind = "ok" /\ Received.method = "initialize" => Accepted(Here)
  BY <1>1, <1>5 DEF AllServers, ServerInv, Greeting
<1> QED BY <1>1, <1>2, <1>3, <1>4, <1>6

(* A message is read and the wait is over. *)
LEMMA TakeServers ==
  ASSUME TypeOK, OpInv, AllServers, op.pc = "await", server[Here].pipe # <<>>, Take,
         op'.pc # "await", NEW h \in Servers, h = Here,
         client'[h].process = client[h].process,
         client'[h].initialized => Accepted(h),
         ~server[h].spoke /\ Accepted(h) => client'[h].initialized,
         \A s \in Servers : s # h => client'[s] = client[s]
  PROVE  AllServers'
<1>1. /\ server'[h].pipe = Tail(server[h].pipe) /\ server'[h].log = server[h].log
      /\ server'[h].alive = server[h].alive /\ server'[h].spoke = server[h].spoke
      /\ \A s \in Servers : s # h => server'[s] = server[s]
  <2>1. server[h] \in Process
    BY ServerFacts
  <2> QED BY <2>1 DEF Take, TypeOK, Process
<1>2. client[h].process /\ ~Waiting(h)' /\ ServerInv(h)
  BY DEF OpInv, Waiting, AllServers
<1>3. (Accepted(h)' <=> Accepted(h)) /\ Unanswered(h)' = Unanswered(h)
  BY <1>1 DEF Accepted, Unanswered
<1>4. /\ server[h].pipe \in Seq(Message) /\ Len(server[h].pipe) \in Nat \ {0}
      /\ DOMAIN server[h].pipe = 1 .. Len(server[h].pipe)
  BY ServerFacts, EmptySeq
<1>5. /\ Len(server'[h].pipe) = Len(server[h].pipe) - 1
      /\ DOMAIN server'[h].pipe = 1 .. Len(server[h].pipe) - 1
      /\ \A k \in 1 .. Len(server[h].pipe) - 1 : server'[h].pipe[k] = server[h].pipe[k + 1]
      /\ server'[h].pipe \in Seq(Message)
  BY <1>1, <1>4, HeadTailProperties, LenProperties
<1>6. ASSUME NEW k \in DOMAIN server'[h].pipe
      PROVE  k + 1 \in DOMAIN server[h].pipe /\ server'[h].pipe[k] = server[h].pipe[k + 1]
  BY <1>4, <1>5
<1>7. ~server'[h].spoke => Quiet(h)'
  <2> SUFFICES ASSUME ~server[h].spoke PROVE Quiet(h)'
    BY <1>1
  <2>1. Delivered(h)
    BY ReceivedIsAnswer
  <2>2. Unanswered(h)' = {} /\ Len(server'[h].pipe) = 0
    BY <1>3, <1>5, <2>1 DEF Delivered
  <2> QED BY <1>5, <2>2, EmptySeq DEF Quiet
<1>8. Greeting(h)'
  <2>1. ASSUME NEW k \in DOMAIN server'[h].pipe, server'[h].pipe[k].kind = "ok",
               server'[h].pipe[k].method = "initialize"
        PROVE  Accepted(h)'
    BY <1>2, <1>3, <1>6, <2>1 DEF ServerInv, Greeting
  <2> QED BY <1>1, <1>3, <2>1 DEF Greeting
<1>9. ServerInv(h)'
  BY <1>1, <1>2, <1>7, <1>8 DEF ServerInv, Absent, InStep, LogInOrder
<1>10. ASSUME NEW s \in Servers, s # h PROVE ServerInv(s)'
  BY <1>1, <1>10, OthersKept
<1> QED BY <1>9, <1>10 DEF AllServers

(* Reading from a server, whatever comes of it. *)
LEMMA ReceiveServers ==
  ASSUME TypeOK, OpInv, AllServers, Receive
  PROVE  AllServers'
<1>1. /\ op.pc = "await" /\ ~Idle /\ Here \in Servers /\ client[Here].process
      /\ op.method = "initialize" <=> ~client[Here].initialized
      /\ ServerInv(Here)
  <2>1. op.pc = "await"
    BY DEF Receive, ReceiveEof, ReceiveGarbage, ReceiveRefusal, ReceiveGreeting,
           ReceivePage, ReceiveResult
  <2> QED BY <2>1, HereIsServer DEF OpInv, Placed, Idle, AllServers
<1> DEFINE h == Here
<1>2. client[h].initialized => Accepted(h)
  BY <1>1 DEF ServerInv, Greeting
<1>3. CASE ReceiveEof
  <2>1. /\ server[h].pipe = <<>> /\ ~server[h].alive
        /\ server' = server /\ client' = client
    BY <1>3 DEF ReceiveEof
  <2>2. op'.pc = "idle"
    BY <1>1, <1>3, FailOp DEF ReceiveEof, Outcomes
  <2> SUFFICES ASSUME NEW s \in Servers PROVE ServerInv(s)'
    BY DEF AllServers
  <2>3. CASE s # Here
    BY <2>1, <2>2, <2>3, OthersKept
  <2>4. CASE s = Here
    <3>1. /\ ~Waiting(s)' /\ server[s].pipe = <<>> /\ ~server[s].alive /\ ServerInv(s)
          /\ server'[s] = server[s] /\ client'[s] = client[s]
      BY <1>1, <2>1, <2>2, <2>4 DEF Waiting
    <3>2. Accepted(s)' <=> Accepted(s)
      BY <3>1 DEF Accepted
    <3>3. Quiet(s)' /\ Absent(s)' /\ LogInOrder(s)'
      BY <3>1 DEF Quiet, ServerInv, Absent, LogInOrder
    <3>4. Greeting(s)'
      <4>1. ~Delivered(s)
        <5>1. Len(server[s].pipe) = 0
          BY <3>1, EmptySeq
        <5> QED BY <5>1 DEF Delivered
      <4> QED BY <3>1, <3>2, <4>1 DEF ServerInv, Greeting
    <3> QED BY <3>1, <3>3, <3>4 DEF ServerInv, InStep
  <2> QED BY <2>3, <2>4
<1>4. CASE ReceiveGarbage
  <2>1. /\ server[h].pipe # <<>> /\ ~Decodes(Received) /\ Take /\ client' = client
    BY <1>4 DEF ReceiveGarbage
  <2>2. op'.pc = "idle"
    BY <1>1, <1>4, FailOp DEF ReceiveGarbage, Outcomes
  <2>3. server[h].spoke
    BY <1>1, <2>1, ReceivedIsAnswer
  <2> HIDE DEF h
  <2>4. h \in Servers /\ h = Here /\ op'.pc # "await"
    BY <1>1, <2>2 DEF h
  <2> QED BY <1>1, <1>2, <2>1, <2>3, <2>4, TakeServers
<1>5. CASE ReceiveRefusal
  <2>1. /\ server[h].pipe # <<>> /\ Received.kind # "ok" /\ Take /\ client' = client
    BY <1>5 DEF ReceiveRefusal
  <2>2. op'.pc = "idle"
    <3>1. PICK outcome \in Outcomes : Fail(outcome) /\ index' = index
      BY <1>5 DEF ReceiveRefusal, Outcomes
    <3> QED BY <1>1, <3>1, FailOp
  <2>3. ~server[h].spoke /\ Accepted(h) => client[h].initialized
    BY <1>1, <2>1, ReceivedIsAnswer DEF ServerInv, Greeting
  <2> HIDE DEF h
  <2>4. h \in Servers /\ h = Here /\ op'.pc # "await"
    BY <1>1, <2>2 DEF h
  <2> QED BY <1>1, <1>2, <2>1, <2>3, <2>4, TakeServers
<1>6. CASE ReceiveGreeting
  <2>1. /\ server[h].pipe # <<>> /\ Decodes(Received) /\ Received.kind = "ok" /\ Take
        /\ client' = [client EXCEPT ![h].initialized = TRUE] /\ op.method = "initialize"
    BY <1>6 DEF ReceiveGreeting
  <2>2. op'.pc = "ready"
    BY <1>6, GreetingOp
  <2>3. Accepted(h)
    <3>1. op.method \in {Received.method, "tools/call"}
      BY <2>1, Zenon DEF Decodes
    <3>2. Received.method = "initialize"
      BY <2>1, <3>1
    <3> QED BY <1>1, <2>1, <3>2, ReceivedIsAnswer
  <2>4. /\ client'[h].process = client[h].process /\ client'[h].initialized
        /\ \A s \in Servers : s # h => client'[s] = client[s]
    BY <1>1, <2>1 DEF TypeOK, Managed
  <2> HIDE DEF h
  <2>5. h \in Servers /\ h = Here /\ op'.pc # "await"
    BY <1>1, <2>2 DEF h
  <2> QED BY <1>1, <2>1, <2>3, <2>4, <2>5, TakeServers
<1>7. CASE ReceivePage \/ ReceiveResult
  <2>1. /\ server[h].pipe # <<>> /\ Take /\ client' = client /\ op.method # "initialize"
    BY <1>7 DEF ReceivePage, ReceiveResult
  <2>2. op'.pc # "await"
    BY <1>7, PageOp, ResultOp
  <2>3. client[h].initialized
    BY <1>1, <2>1 DEF TypeOK, Managed
  <2> HIDE DEF h
  <2>4. h \in Servers /\ h = Here
    BY <1>1 DEF h
  <2> QED BY <1>1, <1>2, <2>1, <2>2, <2>3, <2>4, TakeServers
<1> QED BY <1>3, <1>4, <1>5, <1>6, <1>7 DEF Receive

(* What a server does: an answer to what it owes, ... *)
LEMMA AnswerServers ==
  ASSUME TypeOK, OpInv, AllServers, NEW s \in Servers, Answer(s)
  PROVE  AllServers'
<1>1. PICK i \in Unanswered(s), kind \in {"ok"} \cup Refusals, tools \in SUBSET Tools,
           more \in BOOLEAN :
        LET q == server[s].log[i]
        IN  /\ IF kind = "ok" THEN UNCHANGED faults ELSE Fault
            /\ q.method # "tools/list" \/ kind # "ok" => tools = {} /\ ~more
            /\ more => op.pages + 1 < MaxPages
            /\ server' = [server EXCEPT
                 ![s].pipe = Say(s, [kind |-> kind, id |-> q.id, method |-> q.method,
                                     tools |-> tools, more |-> more]),
                 ![s].log = [@ EXCEPT ![i].answer = kind]]
  BY Zenon DEF Answer
<1>2. server[s].alive /\ UNCHANGED <<client, index, op>>
  BY DEF Answer
<1> DEFINE Entry == [id : Nat, method : Methods, answer : Answers]
           log == server[s].log
           n == Len(log)
           msg == [kind |-> kind, id |-> log[i].id, method |-> log[i].method,
                   tools |-> tools, more |-> more]
           newLog == [log EXCEPT ![i].answer = kind]
<1>3. /\ server[s] \in Process /\ log \in Seq(Entry) /\ n \in Nat /\ DOMAIN log = 1 .. n
      /\ server[s].pipe \in Seq(Message) /\ Len(server[s].pipe) \in Nat
      /\ DOMAIN server[s].pipe = 1 .. Len(server[s].pipe)
  BY ServerFacts
<1>4. i \in 1 .. n /\ log[i].answer = "none" /\ kind \in {"ok", "error", "empty"}
  BY <1>3, McpAssumption DEF Unanswered
<1>5. /\ server'[s].pipe = server[s].pipe \o <<msg>> /\ server'[s].log = newLog
      /\ server'[s].alive = server[s].alive /\ server'[s].spoke = server[s].spoke
      /\ \A r \in Servers : r # s => server'[r] = server[r]
  <2>1. server' = [server EXCEPT ![s] = [server[s] EXCEPT !.pipe = Say(s, msg), !.log = newLog]]
    BY <1>1, <1>3 DEF TypeOK, Process
  <2> HIDE DEF newLog, msg
  <2> QED BY <1>3, <2>1 DEF TypeOK, Process, Say
<1>6. /\ DOMAIN newLog = 1 .. n /\ Len(newLog) = n
      /\ \A j \in 1 .. n : newLog[j].id = log[j].id /\ newLog[j].method = log[j].method
      /\ newLog[i].answer = kind
      /\ \A j \in 1 .. n : j # i => newLog[j] = log[j]
  <2>1. \A j \in 1 .. n : log[j] \in Entry
    BY <1>3, ElementOfSeq
  <2>2. DOMAIN newLog = 1 .. n /\ n \in Nat
    BY <1>3
  <2>3. Len(newLog) = n
    <3> DEFINE e == [log[i] EXCEPT !.answer = kind]
    <3>1. e \in Entry
      BY <1>4, <2>1 DEF Answers
    <3>2. newLog = [log EXCEPT ![i] = e]
      OBVIOUS
    <3> HIDE DEF e, Entry, log, newLog
    <3> QED BY <1>3, <1>4, <3>1, <3>2, ExceptSeq DEF n
  <2> QED BY <1>3, <1>4, <2>1, <2>2, <2>3
<1> DEFINE pipe == server[s].pipe
           p == Len(pipe)
<1>7. /\ msg.kind = kind /\ msg.id = log[i].id /\ msg.method = log[i].method
      /\ Len(server'[s].pipe) = p + 1 /\ DOMAIN server'[s].pipe = 1 .. p + 1
      /\ server'[s].pipe[p + 1] = msg
      /\ \A k \in 1 .. p : server'[s].pipe[k] = pipe[k]
  <2>1. log[i] \in Entry
    BY <1>3, <1>4, ElementOfSeq
  <2>2. msg \in Message
    BY <1>4, <2>1 DEF Message, Answers
  <2>3. msg.kind = kind /\ msg.id = log[i].id /\ msg.method = log[i].method
    OBVIOUS
  <2> HIDE DEF msg
  <2>4. <<msg>> \in Seq(Message) /\ Len(<<msg>>) = 1 /\ <<msg>>[1] = msg
    BY <2>2
  <2>5. /\ pipe \o <<msg>> \in Seq(Message) /\ Len(pipe \o <<msg>>) = p + 1
        /\ \A k \in 1 .. p + 1 : (pipe \o <<msg>>)[k] = IF k <= p THEN pipe[k]
                                                        ELSE <<msg>>[k - p]
    BY <1>3, <2>4, ConcatProperties
  <2> HIDE DEF pipe
  <2>6. (p + 1) - p = 1 /\ ~(p + 1 <= p) /\ p + 1 \in 1 .. p + 1
        /\ \A k \in 1 .. p : k <= p /\ k \in 1 .. p + 1
    BY <1>3 DEF pipe
  <2>7. server'[s].pipe = pipe \o <<msg>>
    BY <1>5 DEF pipe
  <2> QED BY <2>3, <2>4, <2>5, <2>6, <2>7, LenProperties
<1> HIDE DEF msg, newLog, log, n, pipe, p, Entry
<1>8. ServerInv(s) /\ (Waiting(s)' <=> Waiting(s)) /\ Here' = Here
  BY <1>2 DEF AllServers, Waiting, Here, Listing
<1>9. i \in Unanswered(s) /\ Unanswered(s)' = Unanswered(s) \ {i}
  BY <1>3, <1>4, <1>5, <1>6 DEF Unanswered, log
<1>10. /\ Accepted(s) => Accepted(s)'
       /\ Accepts(newLog[i]) => Accepted(s)'
       /\ Accepted(s)' => Accepted(s) \/ Accepts(newLog[i])
  <2>1. \A j \in 1 .. n : Accepts(log[j]) => j # i /\ Accepts(newLog[j])
    BY <1>4, <1>6 DEF Accepts
  <2>2. \A j \in 1 .. n : j # i /\ Accepts(newLog[j]) => Accepts(log[j])
    BY <1>6
  <2>3. Accepted(s) <=> \E j \in 1 .. n : Accepts(log[j])
    BY <1>3 DEF Accepted, log
  <2>4. Accepted(s)' <=> \E j \in 1 .. n : Accepts(newLog[j])
    BY <1>5, <1>6 DEF Accepted
  <2> QED BY <1>4, <2>1, <2>2, <2>3, <2>4
<1>11. ASSUME ~server[s].spoke
       PROVE  /\ Waiting(s) /\ pipe = <<>> /\ p = 0 /\ i = n
              /\ log[n].id = op.asked /\ log[n].method = op.method
              /\ Unanswered(s)' = {}
  <2>1. Waiting(s) /\ Owed(s)
    BY <1>2, <1>8, <1>9, <1>11 DEF ServerInv, InStep, Quiet, Delivered
  <2> QED BY <1>9, <2>1 DEF Owed, pipe, p, log, n
<1>12. ~server[s].spoke => Delivered(s)'
  BY <1>2, <1>4, <1>7, <1>11 DEF Delivered
<1>13. Greeting(s)'
  <2>1. client'[s].initialized => Accepted(s)'
    BY <1>2, <1>8, <1>10 DEF ServerInv, Greeting
  <2>2. ASSUME NEW k \in DOMAIN server'[s].pipe, server'[s].pipe[k].kind = "ok",
               server'[s].pipe[k].method = "initialize"
        PROVE  Accepted(s)'
    <3>1. CASE k = p + 1
      <4>1. Accepts(newLog[i])
        BY <1>4, <1>6, <1>7, <2>2, <3>1 DEF Accepts
      <4> QED BY <1>10, <4>1
    <3>2. CASE k # p + 1
      <4>1. k \in 1 .. p /\ server'[s].pipe[k] = pipe[k] /\ k \in DOMAIN pipe
        BY <1>3, <1>7, <3>2 DEF pipe, p
      <4> QED BY <1>8, <1>10, <2>2, <4>1 DEF ServerInv, Greeting, pipe
    <3> QED BY <3>1, <3>2
  <2>3. ASSUME Accepted(s)', ~client'[s].initialized, ~server'[s].spoke
        PROVE  Waiting(s)' /\ Delivered(s)' /\ server'[s].pipe[1].kind = "ok"
    <3>1. ~server[s].spoke /\ ~client[s].initialized /\ Waiting(s)' /\ Delivered(s)'
      BY <1>2, <1>5, <1>8, <1>11, <1>12, <2>3
    <3>2. ~Accepted(s)
      <4>1. ~Delivered(s)
        BY <1>9 DEF Delivered
      <4> QED BY <1>8, <3>1, <4>1 DEF ServerInv, Greeting
    <3>3. kind = "ok"
      BY <1>6, <1>10, <2>3, <3>2 DEF Accepts
    <3> QED BY <1>7, <1>11, <3>1, <3>3
  <2> QED BY <2>1, <2>2, <2>3 DEF Greeting
<1>14. LogInOrder(s)'
  <2> SUFFICES ASSUME NEW m \in 1 .. n
      PROVE  /\ newLog[m].method # "initialize" => \E j \in 1 .. m - 1 : Accepts(newLog[j])
             /\ newLog[m].method = "initialize" =>
                  ~(\E j \in 1 .. m - 1 : Accepts(newLog[j])) \/ server[s].spoke
    BY <1>5, <1>6 DEF LogInOrder
  <2>1. /\ log[m].method # "initialize" => \E j \in 1 .. m - 1 : Accepts(log[j])
        /\ log[m].method = "initialize" =>
             ~(\E j \in 1 .. m - 1 : Accepts(log[j])) \/ server[s].spoke
    BY <1>3, <1>8 DEF ServerInv, LogInOrder, log
  <2>2. \A j \in 1 .. m - 1 : j \in 1 .. n /\ j < m /\ m <= n
    BY <1>3
  <2>3. \A j \in 1 .. n : Accepts(log[j]) => Accepts(newLog[j])
    BY <1>4, <1>6 DEF Accepts
  <2>4. ASSUME NEW j \in 1 .. m - 1, Accepts(newLog[j]), ~server[s].spoke
        PROVE  Accepts(log[j])
    <3>1. j # i
      BY <1>3, <1>11, <2>2, <2>4
    <3> QED BY <1>6, <2>2, <2>4, <3>1
  <2>5. newLog[m].method = log[m].method
    BY <1>6
  <2> QED BY <2>1, <2>2, <2>3, <2>4, <2>5
<1>15. Absent(s)'
  <2>1. client[s].process
    BY <1>2, <1>8 DEF ServerInv, Absent, NoProcess
  <2> QED BY <1>2, <2>1 DEF Absent
<1>16. ServerInv(s)'
  BY <1>2, <1>5, <1>8, <1>11, <1>12, <1>13, <1>14, <1>15 DEF ServerInv, InStep
<1>17. ASSUME NEW r \in Servers, r # s PROVE ServerInv(r)'
  <2>1. (Waiting(r)' <=> Waiting(r)) /\ server'[r] = server[r]
    BY <1>2, <1>5, <1>8, <1>17 DEF Waiting
  <2> QED BY <1>2, <2>1, ServerKept DEF AllServers
<1> QED BY <1>16, <1>17 DEF AllServers

(* ... a message nobody asked for, ... *)
LEMMA SpeakServers ==
  ASSUME TypeOK, OpInv, AllServers, NEW s \in Servers, SpeakUp(s)
  PROVE  AllServers'
<1>1. PICK kind \in OutOfTurn :
        server' = [server EXCEPT
          ![s].pipe = Say(s, [kind |-> kind, id |-> 0, method |-> "initialize",
                              tools |-> {}, more |-> FALSE]),
          ![s].spoke = TRUE]
  BY DEF SpeakUp
<1> DEFINE msg == [kind |-> kind, id |-> 0, method |-> "initialize",
                   tools |-> {}, more |-> FALSE]
           pipe == server[s].pipe
           p == Len(pipe)
<1>2. server[s].alive /\ UNCHANGED <<client, index, op>>
  BY DEF SpeakUp
<1>3. /\ server[s] \in Process /\ pipe \in Seq(Message) /\ p \in Nat /\ DOMAIN pipe = 1 .. p
  BY ServerFacts
<1>4. msg \in Message /\ msg.kind # "ok"
  BY McpAssumption DEF Message, Methods, Answers
<1> HIDE DEF msg
<1>5. /\ server'[s].pipe = pipe \o <<msg>> /\ server'[s].log = server[s].log
      /\ server'[s].alive = server[s].alive /\ server'[s].spoke
      /\ \A r \in Servers : r # s => server'[r] = server[r]
  BY <1>1, <1>3 DEF TypeOK, Process, Say, msg
<1>6. \A k \in DOMAIN server'[s].pipe :
        server'[s].pipe[k] = msg \/ (k \in DOMAIN pipe /\ server'[s].pipe[k] = pipe[k])
  <2>1. <<msg>> \in Seq(Message) /\ Len(<<msg>>) = 1 /\ <<msg>>[1] = msg
    BY <1>4
  <2>2. /\ pipe \o <<msg>> \in Seq(Message) /\ Len(pipe \o <<msg>>) = p + 1
        /\ \A k \in 1 .. p + 1 : (pipe \o <<msg>>)[k] = IF k <= p THEN pipe[k]
                                                        ELSE <<msg>>[k - p]
    BY <1>3, <2>1, ConcatProperties
  <2>3. DOMAIN server'[s].pipe = 1 .. p + 1
    BY <1>5, <2>2, LenProperties
  <2> HIDE DEF pipe, p
  <2>4. \A k \in 1 .. p + 1 : k \in 1 .. p \/ (k - p = 1 /\ ~(k <= p))
    BY <1>3
  <2>5. \A k \in 1 .. p : k <= p /\ k \in 1 .. p + 1
    BY <1>3
  <2> QED BY <1>3, <1>5, <2>1, <2>2, <2>3, <2>4, <2>5
<1>7. ServerInv(s) /\ (Waiting(s)' <=> Waiting(s)) /\ (Accepted(s)' <=> Accepted(s))
      /\ Here' = Here
  BY <1>2, <1>5 DEF AllServers, Waiting, Accepted, Here, Listing
<1>8. Greeting(s)'
  <2>1. ASSUME NEW k \in DOMAIN server'[s].pipe, server'[s].pipe[k].kind = "ok",
               server'[s].pipe[k].method = "initialize"
        PROVE  Accepted(s)'
    BY <1>4, <1>6, <1>7, <2>1 DEF ServerInv, Greeting
  <2> QED BY <1>2, <1>5, <1>7, <2>1 DEF ServerInv, Greeting
<1>9. Absent(s)' /\ LogInOrder(s)'
  <2>1. client[s].process
    BY <1>2, <1>7 DEF ServerInv, Absent, NoProcess
  <2> QED BY <1>2, <1>5, <1>7, <2>1 DEF ServerInv, Absent, LogInOrder
<1>10. ServerInv(s)'
  BY <1>5, <1>8, <1>9 DEF ServerInv
<1>11. ASSUME NEW r \in Servers, r # s PROVE ServerInv(r)'
  <2>1. (Waiting(r)' <=> Waiting(r)) /\ server'[r] = server[r]
    BY <1>2, <1>5, <1>7, <1>11 DEF Waiting
  <2> QED BY <1>2, <2>1, ServerKept DEF AllServers
<1> QED BY <1>10, <1>11 DEF AllServers

(* ... or its end. *)
LEMMA DieServers ==
  ASSUME TypeOK, OpInv, AllServers, NEW s \in Servers, Die(s)
  PROVE  AllServers'
<1>1. /\ server'[s].pipe = server[s].pipe /\ server'[s].log = server[s].log
      /\ ~server'[s].alive /\ server'[s].spoke = server[s].spoke
      /\ \A r \in Servers : r # s => server'[r] = server[r]
      /\ server[s].alive /\ UNCHANGED <<client, index, op>>
  BY DEF Die, TypeOK, Process
<1>2. /\ ServerInv(s) /\ (Waiting(s)' <=> Waiting(s)) /\ (Accepted(s)' <=> Accepted(s))
      /\ Here' = Here /\ Unanswered(s)' = Unanswered(s)
  BY <1>1 DEF AllServers, Waiting, Accepted, Here, Listing, Unanswered
<1>3. /\ Owed(s)' <=> Owed(s)
      /\ Delivered(s)' <=> Delivered(s)
      /\ Quiet(s) => Quiet(s)'
  BY <1>1, <1>2 DEF Owed, Delivered, Quiet
<1>4. Greeting(s)' /\ LogInOrder(s)'
  BY <1>1, <1>2, <1>3 DEF ServerInv, Greeting, LogInOrder
<1>5. Absent(s)'
  BY <1>1, <1>2 DEF ServerInv, Absent, NoProcess
<1>6. ServerInv(s)'
  BY <1>1, <1>2, <1>3, <1>4, <1>5 DEF ServerInv, InStep
<1>7. ASSUME NEW r \in Servers, r # s PROVE ServerInv(r)'
  <2>1. (Waiting(r)' <=> Waiting(r)) /\ server'[r] = server[r]
    BY <1>1, <1>2, <1>7 DEF Waiting
  <2> QED BY <1>1, <2>1, ServerKept DEF AllServers
<1> QED BY <1>6, <1>7 DEF AllServers

(* A shutdown that stops leaves the servers it did not come to as they     *)
(* are, and the one it stopped at with the greeting it had.                *)
LEMMA StopServers ==
  ASSUME TypeOK, OpInv, AllServers, NEW s \in Servers, NEW before, ShutdownStops(s, before)
  PROVE  AllServers'
<1>1. op.pc = "idle" /\ op'.pc = "idle" /\ s \notin before
  BY FreshOp DEF ShutdownStops, Idle
<1>2. \A u \in Servers : ~Waiting(u) /\ ~Waiting(u)'
  BY <1>1 DEF Waiting
<1>3. ASSUME NEW u \in Servers, u \in before PROVE ServerInv(u)'
  <2>1. client'[u] = Unmanaged /\ server'[u] = NoProcess
    BY <1>3 DEF ShutdownStops
  <2>2. /\ ~client'[u].initialized /\ server'[u].log = <<>> /\ server'[u].pipe = <<>>
    BY <2>1 DEF Unmanaged, NoProcess
  <2>3. ~Accepted(u)' /\ Unanswered(u)' = {}
    BY <2>2 DEF Accepted, Unanswered
  <2> QED
    BY <1>2, <2>1, <2>2, <2>3 DEF ServerInv, Absent, InStep, Quiet, Greeting, LogInOrder
<1>4. ASSUME NEW u \in Servers, u \notin before, u # s PROVE ServerInv(u)'
  <2>1. client'[u] = client[u] /\ server'[u] = server[u]
    BY <1>4 DEF ShutdownStops
  <2> QED BY <1>2, <2>1, ServerKept DEF AllServers
<1>5. ServerInv(s)'
  <2>1. /\ client'[s] = client[s] /\ client[s].process
        /\ server'[s].pipe = server[s].pipe /\ server'[s].log = server[s].log
        /\ server'[s].spoke = server[s].spoke
        /\ server'[s].alive => server[s].alive
    <3>1. PICK alive \in {FALSE, server[s].alive} :
            server' = [u \in Servers |->
                         CASE u \in before -> NoProcess
                           [] u = s       -> [server[s] EXCEPT !.alive = alive]
                           [] OTHER       -> server[u]]
      BY DEF ShutdownStops
    <3>2. server'[s] = [server[s] EXCEPT !.alive = alive]
      BY <1>1, <3>1
    <3>3. server[s] \in Process
      BY DEF TypeOK
    <3>4. /\ server'[s].pipe = server[s].pipe /\ server'[s].log = server[s].log
          /\ server'[s].spoke = server[s].spoke /\ server'[s].alive = alive
      BY <3>2, <3>3 DEF Process
    <3>5. client'[s] = client[s] /\ client[s].process
      BY <1>1 DEF ShutdownStops
    <3> QED BY <3>1, <3>4, <3>5, Zenon
  <2>2. ServerInv(s) /\ (Accepted(s)' <=> Accepted(s)) /\ Unanswered(s)' = Unanswered(s)
    BY <2>1 DEF AllServers, Accepted, Unanswered
  <2>3. Quiet(s) => Quiet(s)'
    BY <2>1, <2>2 DEF Quiet
  <2>4. Greeting(s)' /\ LogInOrder(s)'
    BY <1>2, <2>1, <2>2 DEF ServerInv, Greeting, LogInOrder
  <2> QED BY <1>2, <2>1, <2>2, <2>3, <2>4 DEF ServerInv, Absent, InStep
<1> QED BY <1>3, <1>4, <1>5 DEF AllServers

(* Starting an operation or asking for nothing changes no conversation. *)
LEMMA StillServers ==
  ASSUME TypeOK, OpInv, AllServers,
         DiscoverTools \/ (\E n \in Names : CallTool(n) \/ ExecuteTool(n)) \/ Ready
  PROVE  AllServers'
<1>1. CASE Ready
  <2>1. op.pc = "ready" /\ UNCHANGED <<client, server>> /\ op'.pc = "send"
    BY <1>1, ReadyOp DEF Ready
  <2> QED BY <2>1, AllKept
<1>2. ASSUME NEW kind \in {"discover", "call", "execute"}, NEW todo, NEW name,
             kind = "call" => todo = <<>>, Begin(Start(kind, todo, name))
      PROVE  AllServers'
  <2>1. op.pc = "idle" /\ op'.pc # "await"
    BY <1>2, BeginOp DEF Begin, Idle
  <2>2. server' = server /\ \A s \in Servers :
          /\ client'[s].process = client[s].process
          /\ client'[s].initialized = client[s].initialized
    BY <1>2 DEF Begin, TypeOK, Managed
  <2> QED BY <2>1, <2>2, AllKept
<1> QED BY <1>1, <1>2 DEF DiscoverTools, CallTool, ExecuteTool

(* Every step keeps the manager in step with every server. *)
LEMMA ServersNext == TypeOK /\ OpInv /\ AllServers /\ [Next]_vars => AllServers'
<1> SUFFICES ASSUME TypeOK, OpInv, AllServers, [Next]_vars PROVE AllServers'
  OBVIOUS
<1>1. CASE Shutdown \/ \E names : Reconfigure(names)
  <2>1. /\ client' = [s \in Servers |-> Unmanaged]
        /\ server' = [s \in Servers |-> NoProcess] /\ op'.pc = "idle"
    BY <1>1, FreshOp DEF Shutdown, Reconfigure, NewManager
  <2> QED BY <2>1, AllFresh
<1>2. CASE UNCHANGED vars
  BY <1>2, ServerKept DEF vars, AllServers, Waiting, Here, Listing
<1> QED
  BY <1>1, <1>2, StillServers, SpawnServers, SendServers, ReceiveServers, AnswerServers,
     SpeakServers, DieServers, StopServers, McpAssumption DEF Next, TypeOK

--------------------------------------------------------------------------------
(* Outcomes. *)

OutInv ==
  /\ OutcomeIsTrue
  /\ Idle /\ op.outcome = "ok" /\ op.kind \in {"call", "execute"} => ~Listing(op)

(* An operation still at work has no outcome yet. *)
LEMMA WorkingOut ==
  ASSUME op'.pc # "idle"
  PROVE  OutInv'
BY DEF OutInv, OutcomeIsTrue, AnswerBelongsToCall, IoErrorHasCause, Idle

(* Neither are some outcomes about a server. *)
LEMMA OtherOut ==
  ASSUME op'.outcome # "io", op'.outcome = "ok" => op'.kind \notin {"call", "execute"}
  PROVE  OutInv'
BY DEF OutInv, OutcomeIsTrue, AnswerBelongsToCall, IoErrorHasCause

(* A failure on input or output needs one of its causes. *)
LEMMA FailOut ==
  ASSUME TypeOK, OpInv, ~Idle, NEW outcome \in Outcomes \ {"ok"}, Fail(outcome),
         index' = index, client' = client,
         outcome = "io" =>
           \/ ~client[Here].process
           \/ ~server'[Here].alive \/ server'[Here].spoke
           \/ client[Here].executor = "dropped"
  PROVE  OutInv'
<1>1. op'.pc = "idle" /\ op'.outcome = outcome /\ Here' = Here
  BY FailOp
<1> QED
  BY <1>1 DEF OutInv, OutcomeIsTrue, AnswerBelongsToCall, IoErrorHasCause, ServerAtFault

(* An outcome stays true whatever the servers do later. *)
LEMMA LaterOut ==
  ASSUME TypeOK, OpInv, OutInv, UNCHANGED <<op, client, index>>,
         \A s \in Servers : /\ ~server[s].alive => ~server'[s].alive
                            /\ server[s].spoke => server'[s].spoke
  PROVE  OutInv'
<1>1. Here' = Here /\ (Idle' <=> Idle) /\ (Listing(op)' <=> Listing(op))
  BY DEF Here, Listing, Idle
<1>2. IoErrorHasCause'
  <2> SUFFICES ASSUME Idle, op.outcome = "io" PROVE IoErrorHasCause'
    BY <1>1 DEF IoErrorHasCause
  <2>1. Here \in Servers
    BY HereIsServer DEF OpInv, Placed
  <2> QED BY <1>1, <2>1 DEF OutInv, OutcomeIsTrue, IoErrorHasCause, ServerAtFault
<1>3. AnswerBelongsToCall'
  <2> SUFFICES ASSUME Idle, op.outcome = "ok", op.kind \in {"call", "execute"}
               PROVE  AnswerBelongsToCall'
    BY <1>1 DEF AnswerBelongsToCall
  <2>1. Here \in Servers /\ Here = index[op.name][1]
    BY HereIsServer DEF OpInv, Placed, OutInv, Here
  <2> QED BY <1>1, <2>1 DEF OutInv, OutcomeIsTrue, AnswerBelongsToCall
<1> QED BY <1>1, <1>2, <1>3 DEF OutInv, OutcomeIsTrue

(* Every step keeps the outcome true. *)
LEMMA OutNext == TypeOK /\ OpInv /\ AllServers /\ OutInv /\ [Next]_vars => OutInv'
<1> SUFFICES ASSUME TypeOK, OpInv, AllServers, OutInv, [Next]_vars PROVE OutInv'
  OBVIOUS
<1>1. ASSUME NEW kind \in {"discover", "call", "execute"}, NEW todo, NEW name,
             kind = "call" => todo = <<>>, Begin(Start(kind, todo, name))
      PROVE  OutInv'
  <2>1. /\ op'.pc \in {"idle", "ready"} /\ op'.kind = kind
        /\ op'.pc = "idle" =>
             op'.outcome = "unknownTool" \/ (op'.outcome = "ok" /\ kind = "discover")
    BY <1>1, BeginOp
  <2> QED BY <2>1, WorkingOut, OtherOut
<1>2. CASE DiscoverTools \/ \E n \in Names : CallTool(n) \/ ExecuteTool(n)
  BY <1>1, <1>2 DEF DiscoverTools, CallTool, ExecuteTool
<1>3. CASE Spawn
  <2>1. op.pc = "ready" /\ ~Idle /\ ~client[Here].process /\ index' = index
        /\ (op' = op \/ (Fail("io") /\ UNCHANGED <<client, server>>))
    BY <1>3 DEF Spawn, Idle
  <2> QED BY <2>1, WorkingOut, FailOut DEF Outcomes
<1>4. CASE Ready \/ ReceiveGreeting
  BY <1>4, ReadyOp, GreetingOp, WorkingOut
<1>5. CASE Send
  <2>1. ~Idle /\ UNCHANGED <<client, index>>
    BY <1>5 DEF Send, Idle
  <2>2. CASE Fail("io")
    <3>1. op'.pc = "idle"
      BY <2>1, <2>2, FailOp DEF Outcomes
    <3>2. ~server'[Here].alive \/ client[Here].executor = "dropped"
      <4>1. ~(op' = [op EXCEPT !.pc = "await", !.asked = nextId])
        BY <3>1 DEF TypeOK, Operation
      <4> QED BY <1>5, <4>1 DEF Send
    <3> QED BY <2>1, <2>2, <3>2, FailOut DEF Outcomes
  <2>3. CASE ~Fail("io")
    <3>1. op'.pc = "await"
      BY <1>5, <2>3 DEF Send, TypeOK, Operation
    <3> QED BY <3>1, WorkingOut
  <2> QED BY <2>2, <2>3
<1>6. CASE ReceiveEof
  BY <1>6, FailOut DEF ReceiveEof, Idle, Outcomes
<1>7. CASE ReceiveGarbage
  <2>1. /\ op.pc = "await" /\ ~Idle /\ server[Here].pipe # <<>> /\ ~Decodes(Received)
        /\ Take /\ Fail("io") /\ UNCHANGED <<client, index>>
    BY <1>7 DEF ReceiveGarbage, Idle
  <2>2. Here \in Servers /\ server[Here].spoke
    BY <2>1, ReceivedIsAnswer
  <2>3. server'[Here].spoke
    BY <2>1, <2>2 DEF Take, TypeOK, Process
  <2> QED BY <2>1, <2>3, FailOut DEF Outcomes
<1>8. CASE ReceiveRefusal
  <2>1. PICK outcome \in {"jsonRpc", "invalid"} : Fail(outcome)
    BY <1>8 DEF ReceiveRefusal
  <2> QED BY <1>8, <2>1, FailOut DEF ReceiveRefusal, Idle, Outcomes
<1>9. CASE ReceivePage
  <2>1. CASE op'.pc = "idle"
    BY <1>9, <2>1, PageOp, OtherOut
  <2> QED BY <2>1, WorkingOut
<1>10. CASE ReceiveResult
  <2>1. /\ op.pc = "await" /\ server[Here].pipe # <<>> /\ Take
    BY <1>10 DEF ReceiveResult
  <2>2. /\ op'.pc = "idle" /\ op'.outcome = "ok" /\ Here' = Here /\ ~Listing(op)
        /\ op'.got = Received.id /\ op'.asked = op.asked
        /\ op'.name = op.name /\ index' = index
    BY <1>10, ResultOp
  <2>3. Here \in Servers /\ (~server[Here].spoke => Received.id = op.asked)
    BY <2>1, ReceivedIsAnswer
  <2>4. server'[Here].spoke = server[Here].spoke
    BY <2>1, <2>3 DEF Take, TypeOK, Process
  <2>5. Here = index[op.name][1]
    BY <2>2 DEF Here
  <2>6. AnswerBelongsToCall' /\ IoErrorHasCause'
    BY <2>2, <2>3, <2>4, <2>5 DEF AnswerBelongsToCall, IoErrorHasCause
  <2>7. ~Listing(op)'
    BY <1>10, <2>2 DEF ReceiveResult, Finish, Listing, TypeOK, Operation
  <2> QED BY <2>6, <2>7 DEF OutInv, OutcomeIsTrue
<1>11. CASE Shutdown \/ (\E s, before : ShutdownStops(s, before)) \/ \E names : Reconfigure(names)
  BY <1>11, FreshOp, OtherOut DEF Shutdown, ShutdownStops, Reconfigure
<1>12. CASE UNCHANGED vars
  BY <1>12, LaterOut DEF vars
<1>13. ASSUME NEW s \in Servers, Answer(s) PROVE OutInv'
  <2>1. PICK pipe, log :
          server' = [server EXCEPT ![s].pipe = pipe, ![s].log = log]
    BY <1>13, Zenon DEF Answer
  <2>2. server \in [Servers -> Process]
    BY DEF TypeOK
  <2>3. ASSUME NEW u \in Servers
        PROVE  server'[u].alive = server[u].alive /\ server'[u].spoke = server[u].spoke
    <3>1. server[u] \in Process
      BY <2>2
    <3> QED BY <2>1, <2>2, <3>1, SMTT(30) DEF Process
  <2>4. UNCHANGED <<op, client, index>>
    BY <1>13 DEF Answer
  <2> QED BY <2>3, <2>4, LaterOut
<1>14. ASSUME NEW s \in Servers, SpeakUp(s) PROVE OutInv'
  <2>1. PICK pipe : server' = [server EXCEPT ![s].pipe = pipe, ![s].spoke = TRUE]
    BY <1>14, Zenon DEF SpeakUp
  <2> QED BY <1>14, <2>1, LaterOut DEF SpeakUp, TypeOK, Process
<1>15. ASSUME NEW s \in Servers, Die(s) PROVE OutInv'
  BY <1>15, LaterOut DEF Die, TypeOK, Process
<1> QED
  BY <1>2, <1>3, <1>4, <1>5, <1>6, <1>7, <1>8, <1>9, <1>10, <1>11, <1>12, <1>13, <1>14,
     <1>15 DEF Next, Receive

--------------------------------------------------------------------------------
MInv == TypeOK /\ OpInv /\ AllServers /\ OutInv

(* Nothing is under way at first. *)
LEMMA InitInv == Init => MInv
<1> SUFFICES ASSUME Init PROVE MInv
  OBVIOUS
<1>1. op.pc = "idle" /\ op.outcome = "none"
  BY DEF Init, Start
<1>2. TypeOK
  BY FreshType, McpAssumption DEF Init, TypeOK
<1>3. OpInv /\ OutInv
  BY <1>1 DEF OpInv, Placed, Idle, OutInv, OutcomeIsTrue, AnswerBelongsToCall,
              IoErrorHasCause
<1>4. ASSUME NEW s \in Servers PROVE ServerInv(s)
  <2>1. /\ ~client[s].initialized /\ server[s] = NoProcess
        /\ server[s].log = <<>> /\ server[s].pipe = <<>> /\ ~Waiting(s)
    BY <1>1 DEF Init, Unmanaged, NoProcess, Waiting
  <2>2. ~Accepted(s) /\ Unanswered(s) = {}
    BY <2>1 DEF Accepted, Unanswered
  <2> QED BY <2>1, <2>2 DEF ServerInv, Absent, InStep, Quiet, Greeting, LogInOrder
<1> QED BY <1>2, <1>3, <1>4 DEF MInv, AllServers

(* The manager, its operation and its servers agree in every reachable     *)
(* state.                                                                  *)
LEMMA MInvHolds == Spec => []MInv
<1>1. MInv /\ [Next]_vars => MInv'
  BY TypeNext, OpNext, ServersNext, OutNext DEF MInv
<1> QED BY <1>1, InitInv, PTL DEF Spec

(* A process sees initialize first, nothing else until it accepted one and *)
(* no second one after it, for any number of servers and restarts.         *)
THEOREM HandshakesInOrder == Spec => []Inv
<1>1. MInv => Inv
  <2> SUFFICES ASSUME MInv PROVE HandshakeInOrder
    BY DEF MInv, Inv
  <2> QED BY DEF MInv, AllServers, ServerInv, LogInOrder, HandshakeInOrder, Accepts
<1> QED BY <1>1, MInvHolds, PTL

(* What a call returns answers that very call although nobody compares     *)
(* ids, and an operation fails on input or output only for a reason.       *)
THEOREM OutcomesAreTrue == Spec => []OutcomeIsTrue
<1>1. MInv => OutcomeIsTrue
  BY DEF MInv, OutInv
<1> QED BY <1>1, MInvHolds, PTL

--------------------------------------------------------------------------------
(* Routes.  While a discovery is under way a route leads to a tool found   *)
(* by it or to a server still to be listed; the server it is at has lost   *)
(* its old routes once its pages are asked for, and no server is listed    *)
(* twice, so that what one page brought no later clearing takes away.      *)

Paging == op.pc \in {"send", "await"} /\ op.method = "tools/list"

Discovers == op.kind \in {"discover", "execute"}

Due(server_) == \E i \in DOMAIN op.todo : op.todo[i] = server_

RoutesValid ==
  \A n \in DOMAIN index : index[n][1] \in configured /\ Qualify[index[n]] = n

TodoValid ==
  /\ \A i \in DOMAIN op.todo : op.todo[i] \in configured
  /\ \A i, j \in DOMAIN op.todo : op.todo[i] = op.todo[j] => i = j

RoutesCovered == \A n \in DOMAIN index : index[n] \in op.found \/ Due(index[n][1])

FoundRouted ==
  \A p \in op.found : Qualify[p] \in DOMAIN index /\ index[Qualify[p]] \in op.found

Cleared == Paging => \A n \in DOMAIN index : index[n][1] = Here => index[n] \in op.found

ListedOnce ==
  ~Idle => \A p \in op.found, i \in DOMAIN op.todo : p[1] = op.todo[i] => i = 1 /\ Paging

RouteInv ==
  /\ RoutesValid /\ TodoValid
  /\ Discovers => RoutesCovered /\ FoundRouted /\ Cleared /\ ListedOnce

(* A step that touches neither routes nor the list of servers. *)
LEMMA RoutesKept ==
  ASSUME RouteInv, UNCHANGED <<configured, index>>,
         op'.todo = op.todo, op'.found = op.found, op'.kind = op.kind, op'.name = op.name,
         op'.pc # "idle" => ~Idle /\ (Paging' <=> Paging)
  PROVE  RouteInv'
<1>1. Here' = Here /\ (Discovers' <=> Discovers) /\ \A s : Due(s)' <=> Due(s)
  BY DEF Here, Listing, Discovers, Due
<1>2. (RoutesValid /\ TodoValid)'
  BY DEF RouteInv, RoutesValid, TodoValid
<1>3. Discovers => RoutesCovered' /\ FoundRouted'
  BY <1>1 DEF RouteInv, RoutesCovered, FoundRouted
<1>4. Discovers => Cleared'
  <2>1. Paging' => Paging
    BY DEF Paging
  <2> QED BY <1>1, <2>1 DEF RouteInv, Cleared
<1>5. Discovers => ListedOnce'
  BY <1>1 DEF RouteInv, ListedOnce, Idle
<1> QED BY <1>1, <1>2, <1>3, <1>4, <1>5 DEF RouteInv

(* A step that leaves everything about the operation alone. *)
LEMMA RoutesSame ==
  ASSUME RouteInv, UNCHANGED <<configured, index, op>>
  PROVE  RouteInv'
<1>1. op'.pc # "idle" => ~Idle /\ (Paging' <=> Paging)
  BY DEF Idle, Paging
<1> QED BY <1>1, RoutesKept

(* What a discovery starts from. *)
LEMMA BeginRoutes ==
  ASSUME TypeOK, RouteInv, NEW kind \in {"discover", "call", "execute"}, NEW todo, NEW name,
         todo = IF kind = "call" THEN <<>> ELSE Order[configured],
         Begin(Start(kind, todo, name))
  PROVE  RouteInv'
<1>1. /\ op'.kind = kind /\ op'.todo = todo /\ op'.found = {}
      /\ op'.pc \in {"idle", "ready"}
      /\ UNCHANGED <<configured, index>>
  <2> SUFFICES ASSUME NEW o, o = Start(kind, todo, name)
               PROVE  /\ op'.kind = kind /\ op'.todo = todo /\ op'.found = {}
                      /\ op'.pc \in {"idle", "ready"}
                      /\ UNCHANGED <<configured, index>>
    OBVIOUS
  <2>1. \/ Proceed(o, index) = [o EXCEPT !.pc = "ready"]
        \/ Proceed(o, index) = Finish(o, "ok")
        \/ Proceed(o, index) = Finish(o, "unknownTool")
    BY ProceedIs
  <2>2. op' = Proceed(o, index) /\ UNCHANGED <<configured, index>>
    BY DEF Begin
  <2>3. CASE op' = [o EXCEPT !.pc = "ready"]
    BY <2>2, <2>3 DEF Start
  <2>4. CASE op' = Finish(o, "ok")
    BY <2>2, <2>4 DEF Start, Finish
  <2>5. CASE op' = Finish(o, "unknownTool")
    BY <2>2, <2>5 DEF Start, Finish
  <2> QED BY <2>1, <2>2, <2>3, <2>4, <2>5
<1>2. /\ configured \in SUBSET Servers
      /\ {Order[configured][i] : i \in DOMAIN Order[configured]} = configured
      /\ \A i, j \in DOMAIN Order[configured] :
           Order[configured][i] = Order[configured][j] => i = j
  BY McpAssumption DEF TypeOK
<1>3. RoutesValid'
  BY <1>1 DEF RouteInv, RoutesValid
<1>4. TodoValid'
  <2>1. CASE kind = "call"
    BY <1>1, <2>1 DEF TodoValid
  <2>2. CASE kind # "call"
    BY <1>1, <1>2, <2>2 DEF TodoValid
  <2> QED BY <2>1, <2>2
<1>5. ASSUME kind # "call" PROVE RoutesCovered'
  <2>1. \A s \in configured : \E i \in DOMAIN todo : todo[i] = s
    BY <1>2, <1>5
  <2> QED BY <1>1, <2>1 DEF RouteInv, RoutesValid, RoutesCovered, Due
<1>6. FoundRouted' /\ ListedOnce' /\ Cleared'
  BY <1>1 DEF FoundRouted, ListedOnce, Cleared, Paging
<1> QED BY <1>1, <1>3, <1>4, <1>5, <1>6 DEF RouteInv, Discovers

(* The routes of a server go before its tools are listed. *)
LEMMA ReadyRoutes ==
  ASSUME TypeOK, OpInv, RouteInv, Ready
  PROVE  RouteInv'
<1>1. op.pc = "ready" /\ ~Idle /\ AtServer /\ configured' = configured /\ ~Paging
  BY DEF Ready, OpInv, Placed, Idle, Paging
<1>2. /\ op'.pc = "send" /\ op'.todo = op.todo /\ op'.kind = op.kind /\ op'.name = op.name
      /\ op'.found = op.found
      /\ op'.method = IF ~client[Here].initialized THEN "initialize"
                      ELSE IF Listing(op) THEN "tools/list" ELSE "tools/call"
  BY DEF Ready, TypeOK, Operation
<1>3. CASE ~(client[Here].initialized /\ Listing(op))
  <2>1. index' = index /\ op'.method # "tools/list"
    BY <1>2, <1>3 DEF Ready
  <2>2. ~Paging'
    BY <2>1 DEF Paging
  <2> QED BY <1>1, <1>2, <2>1, <2>2, RoutesKept
<1>4. CASE client[Here].initialized /\ Listing(op)
  <2>1. /\ DOMAIN index' = {m \in DOMAIN index : index[m][1] # Here}
        /\ \A n \in DOMAIN index' : index'[n] = index[n]
    BY <1>4 DEF Ready
  <2>2. /\ Here' = Here /\ Discovers /\ Discovers' /\ Paging' /\ \A s : Due(s)' <=> Due(s)
        /\ Here = op.todo[1] /\ 1 \in DOMAIN op.todo
    <3>1. op.todo \in Seq(Servers) /\ op.todo # <<>>
      BY <1>4 DEF Listing, TypeOK, Operation
    <3>2. Here = op.todo[1] /\ 1 \in DOMAIN op.todo
      BY <1>4, <3>1, EmptySeq, LenProperties DEF Here
    <3> QED
      BY <1>1, <1>2, <1>4, <3>2 DEF Here, Listing, AtServer, Discovers, Paging, Due
  <2>3. (RoutesValid /\ TodoValid)'
    BY <1>1, <1>2, <2>1 DEF RouteInv, RoutesValid, TodoValid
  <2>4. RoutesCovered'
    BY <1>2, <2>1, <2>2 DEF RouteInv, RoutesCovered
  <2>5. \A p \in op.found : p[1] # Here
    BY <1>1, <2>2 DEF RouteInv, ListedOnce
  <2>6. FoundRouted'
    BY <1>2, <2>1, <2>2, <2>5 DEF RouteInv, FoundRouted
  <2>7. Cleared'
    BY <2>1, <2>2 DEF Cleared
  <2>8. ListedOnce'
    BY <1>1, <1>2, <2>2 DEF RouteInv, ListedOnce
  <2> QED BY <2>3, <2>4, <2>6, <2>7, <2>8 DEF RouteInv
<1> QED BY <1>3, <1>4

(* A page of tools. *)
LEMMA PageRoutes ==
  ASSUME TypeOK, OpInv, RouteInv, ReceivePage
  PROVE  RouteInv'
<1>1. /\ ~Idle /\ op.method = "tools/list" /\ op.pc = "await" /\ configured' = configured
      /\ Listing(op) /\ op.kind \in {"discover", "execute"}
      /\ Paging /\ Discovers
  <2>1. /\ op.pc = "await" /\ op.method = "tools/list" /\ configured' = configured
    BY DEF ReceivePage
  <2> QED BY <2>1 DEF OpInv, Placed, Idle, AtServer, Paging, Discovers
<1>2. PICK routes \in [Listed(Received.tools) -> {Here} \X Received.tools] :
        /\ \A n \in DOMAIN routes : Qualify[routes[n]] = n
        /\ index' = [n \in DOMAIN routes \cup DOMAIN index |->
                       IF n \in DOMAIN routes THEN routes[n] ELSE index[n]]
        /\ LET listed == [op EXCEPT !.found = @ \cup ({Here} \X Received.tools), !.pages = @ + 1]
           IN  op' = IF Received.more
                       THEN [listed EXCEPT !.pc = "send"]
                       ELSE Proceed([listed EXCEPT !.todo = Tail(@)], index')
  BY DEF ReceivePage
<1> DEFINE new == {Here} \X Received.tools
           found == op.found \cup new
           pages == op.pages + 1
           listed == [op EXCEPT !.found = found, !.pages = pages]
<1>3. op' = IF Received.more THEN [listed EXCEPT !.pc = "send"]
            ELSE Proceed([listed EXCEPT !.todo = Tail(@)], index')
  BY <1>2
<1>4. /\ \A n \in DOMAIN routes : routes[n] \in new /\ routes[n][1] = Here
      /\ \A p \in new : p[1] = Here /\ Qualify[p] \in DOMAIN routes
  <2>1. ASSUME NEW p \in new PROVE p[1] = Here /\ Qualify[p] \in Listed(Received.tools)
    <3>1. PICK t \in Received.tools : p = <<Here, t>>
      OBVIOUS
    <3> QED BY <3>1 DEF Listed
  <2> HIDE DEF new
  <2>2. routes \in [Listed(Received.tools) -> new]
    BY DEF new
  <2> QED BY <2>1, <2>2
<1>5. /\ op.todo \in Seq(Servers) /\ op.todo # <<>> /\ Here = op.todo[1]
      /\ Len(op.todo) \in Nat \ {0} /\ DOMAIN op.todo = 1 .. Len(op.todo)
      /\ Here \in configured
  <2>1. op.todo \in Seq(Servers) /\ op.todo # <<>>
    BY <1>1 DEF Listing, TypeOK, Operation
  <2>2. Len(op.todo) \in Nat \ {0} /\ DOMAIN op.todo = 1 .. Len(op.todo)
    BY <2>1, EmptySeq, LenProperties
  <2>3. Here = op.todo[1]
    BY <1>1, <2>1 DEF Here
  <2> QED BY <2>1, <2>2, <2>3 DEF RouteInv, TodoValid
<1>6. /\ DOMAIN index' = DOMAIN routes \cup DOMAIN index
      /\ \A n \in DOMAIN routes : index'[n] = routes[n]
      /\ \A n \in DOMAIN index' : n \notin DOMAIN routes =>
           n \in DOMAIN index /\ index'[n] = index[n]
  BY <1>2
<1> HIDE DEF new, pages
<1>7. RoutesValid'
  BY <1>1, <1>2, <1>4, <1>5, <1>6 DEF RouteInv, RoutesValid
<1>8. ASSUME op'.found = found PROVE FoundRouted'
  BY <1>1, <1>4, <1>6, <1>8 DEF RouteInv, FoundRouted
<1>9. \A p \in found, i \in DOMAIN op.todo : p[1] = op.todo[i] => i = 1
  BY <1>1, <1>4, <1>5 DEF RouteInv, ListedOnce, TodoValid
<1>10. \A n \in DOMAIN index' : index'[n][1] = Here => index'[n] \in found
  BY <1>1, <1>4, <1>6 DEF RouteInv, Cleared
<1>11. \A n \in DOMAIN index' : index'[n] \in found \/ Due(index'[n][1])
  BY <1>1, <1>4, <1>6 DEF RouteInv, RoutesCovered
<1> HIDE DEF found
<1>12. CASE Received.more
  <2>1. /\ op'.pc = "send" /\ op'.todo = op.todo /\ op'.method = "tools/list"
        /\ op'.found = found
    BY <1>1, <1>3, <1>12 DEF TypeOK, Operation
  <2>2. Here' = Here /\ Paging' /\ \A s : Due(s)' <=> Due(s)
    BY <1>1, <2>1 DEF Here, Listing, Paging, Due
  <2>3. TodoValid'
    BY <1>1, <2>1 DEF RouteInv, TodoValid
  <2>4. RoutesCovered' /\ Cleared'
    BY <1>10, <1>11, <2>1, <2>2 DEF RoutesCovered, Cleared
  <2>5. ListedOnce'
    BY <1>9, <2>1, <2>2 DEF ListedOnce
  <2> QED BY <1>7, <1>8, <2>1, <2>3, <2>4, <2>5 DEF RouteInv
<1>13. CASE ~Received.more
  <2> DEFINE o == [listed EXCEPT !.todo = Tail(@)]
  <2>1. op' = Proceed(o, index')
    BY <1>3, <1>13
  <2>2. o.found = found /\ o.todo = Tail(op.todo)
    BY DEF TypeOK, Operation
  <2>3. \A pc, outcome :
          /\ [o EXCEPT !.pc = pc].found = found /\ [o EXCEPT !.pc = pc].todo = o.todo
          /\ [o EXCEPT !.pc = pc].pc = pc
          /\ Finish(o, outcome).found = found /\ Finish(o, outcome).todo = o.todo
          /\ Finish(o, outcome).pc = "idle"
    BY DEF TypeOK, Operation, Finish
  <2> HIDE DEF o
  <2>4. \/ op' = [o EXCEPT !.pc = "ready"]
        \/ op' = Finish(o, "ok")
        \/ op' = Finish(o, "unknownTool")
    BY <2>1, ProceedIs
  <2>5. op'.found = found /\ op'.todo = Tail(op.todo) /\ op'.pc \in {"ready", "idle"}
    BY <2>2, <2>3, <2>4
  <2>6. /\ DOMAIN op'.todo = 1 .. Len(op.todo) - 1
        /\ \A i \in 1 .. Len(op.todo) - 1 : op'.todo[i] = op.todo[i + 1]
    BY <1>5, <2>5, HeadTailProperties, LenProperties
  <2>7. \A i \in DOMAIN op'.todo :
          i \in Nat /\ i + 1 \in DOMAIN op.todo /\ i + 1 # 1 /\ op'.todo[i] = op.todo[i + 1]
    BY <1>5, <2>6
  <2>8. TodoValid'
    <3>1. \A i, j \in DOMAIN op'.todo : op'.todo[i] = op'.todo[j] => i + 1 = j + 1
      BY <2>7 DEF RouteInv, TodoValid
    <3> QED BY <1>1, <2>7, <3>1 DEF RouteInv, TodoValid
  <2>9. RoutesCovered'
    <3>1. ASSUME NEW s, Due(s), s # Here PROVE Due(s)'
      <4>1. PICK i \in DOMAIN op.todo : op.todo[i] = s
        BY <3>1 DEF Due
      <4>2. i - 1 \in 1 .. Len(op.todo) - 1 /\ (i - 1) + 1 = i
        BY <1>5, <3>1, <4>1
      <4> QED BY <2>6, <4>1, <4>2 DEF Due
    <3> QED BY <1>10, <1>11, <2>5, <3>1 DEF RoutesCovered
  <2>10. Cleared' /\ ListedOnce'
    <3>1. ~Paging'
      BY <2>5 DEF Paging
    <3> QED BY <1>9, <2>5, <2>7, <3>1 DEF Cleared, ListedOnce
  <2> QED BY <1>7, <1>8, <2>5, <2>8, <2>9, <2>10 DEF RouteInv
<1> QED BY <1>12, <1>13

(* A manager with nothing under way. *)
LEMMA FreshRoutes ==
  ASSUME op' = [Start("none", <<>>, NoName) EXCEPT !.pc = "idle"],
         RoutesValid'
  PROVE  RouteInv'
<1>1. op'.kind = "none" /\ op'.todo = <<>>
  BY DEF Start
<1> QED BY <1>1 DEF RouteInv, TodoValid, Discovers

(* Every step keeps routes and discovery in agreement. *)
LEMMA RouteNext == TypeOK /\ OpInv /\ RouteInv /\ [Next]_vars => RouteInv'
<1> SUFFICES ASSUME TypeOK, OpInv, RouteInv, [Next]_vars PROVE RouteInv'
  OBVIOUS
<1>1. ASSUME NEW outcome, Fail(outcome), UNCHANGED <<configured, index>> PROVE RouteInv'
  <2>1. /\ op'.todo = op.todo /\ op'.found = op.found /\ op'.kind = op.kind
        /\ op'.name = op.name /\ op'.pc = "idle"
    BY <1>1 DEF Fail, Finish, TypeOK, Operation
  <2> QED BY <1>1, <2>1, RoutesKept
<1>2. CASE DiscoverTools \/ \E n \in Names : CallTool(n) \/ ExecuteTool(n)
  BY <1>2, BeginRoutes DEF DiscoverTools, CallTool, ExecuteTool
<1>3. CASE Spawn
  <2>1. UNCHANGED <<configured, index>> /\ (op' = op \/ Fail("io"))
    BY <1>3 DEF Spawn
  <2> QED BY <1>1, <2>1, RoutesSame
<1>4. CASE Send
  <2>1. UNCHANGED <<configured, index>> /\ op.pc = "send"
    BY <1>4 DEF Send
  <2>2. CASE ~Fail("io")
    <3>1. op' = [op EXCEPT !.pc = "await", !.asked = nextId]
      BY <1>4, <2>2 DEF Send
    <3>2. /\ op'.todo = op.todo /\ op'.found = op.found /\ op'.kind = op.kind
          /\ op'.name = op.name /\ op'.pc = "await" /\ op'.method = op.method
      BY <3>1 DEF TypeOK, Operation
    <3>3. ~Idle /\ (Paging' <=> Paging)
      BY <2>1, <3>2 DEF Idle, Paging
    <3> QED BY <2>1, <3>2, <3>3, RoutesKept
  <2> QED BY <1>1, <2>1, <2>2
<1>5. CASE ReceiveEof \/ ReceiveGarbage
  BY <1>1, <1>5 DEF ReceiveEof, ReceiveGarbage
<1>6. CASE ReceiveRefusal
  BY <1>1, <1>6 DEF ReceiveRefusal
<1>7. CASE ReceiveGreeting
  <2>1. /\ op.pc = "await" /\ op.method = "initialize" /\ UNCHANGED <<configured, index>>
        /\ op'.todo = op.todo /\ op'.found = op.found /\ op'.kind = op.kind
        /\ op'.name = op.name /\ op'.pc = "ready"
    BY <1>7 DEF ReceiveGreeting, TypeOK, Operation
  <2>2. ~Idle /\ ~Paging /\ ~Paging'
    BY <2>1 DEF Idle, Paging
  <2> QED BY <2>1, <2>2, RoutesKept
<1>8. CASE ReceiveResult
  <2>1. /\ UNCHANGED <<configured, index>>
        /\ op'.todo = op.todo /\ op'.found = op.found /\ op'.kind = op.kind
        /\ op'.name = op.name /\ op'.pc = "idle"
    BY <1>8 DEF ReceiveResult, Finish, TypeOK, Operation
  <2> QED BY <2>1, RoutesKept
<1>9. CASE Shutdown \/ \E s, before : ShutdownStops(s, before)
  BY <1>9, FreshRoutes DEF Shutdown, ShutdownStops, RouteInv, RoutesValid
<1>10. ASSUME NEW names, Reconfigure(names) PROVE RouteInv'
  <2>1. RoutesValid'
    BY <1>10 DEF Reconfigure, NewManager, RoutesValid
  <2> QED BY <1>10, <2>1, FreshRoutes DEF Reconfigure
<1>11. CASE (\E s \in Servers : Answer(s) \/ SpeakUp(s) \/ Die(s)) \/ UNCHANGED vars
  BY <1>11, RoutesSame DEF Answer, SpeakUp, Die, vars
<1> QED
  BY <1>2, <1>3, <1>4, <1>5, <1>6, <1>7, <1>8, <1>9, <1>10, <1>11, ReadyRoutes, PageRoutes
     DEF Next, Receive

(* After a discovery that got through the routes are those of the tools it *)
(* found, however many servers share a name and whatever failed before.    *)
THEOREM DiscoveriesAreExact == Spec => []DiscoveryIsExact
<1>1. Init => RouteInv
  BY DEF Init, Start, RouteInv, RoutesValid, TodoValid, Discovers
<1>2. RouteInv => DiscoveryIsExact
  <2> SUFFICES ASSUME RouteInv, op.todo = <<>>, op.kind \in {"discover", "execute"}
               PROVE  /\ \A n \in DOMAIN index : index[n] \in op.found /\ Qualify[index[n]] = n
                      /\ \A p \in op.found : Qualify[p] \in DOMAIN index
    BY DEF DiscoveryIsExact
  <2>1. \A s : ~Due(s)
    BY DEF Due
  <2> QED BY <2>1 DEF RouteInv, Discovers, RoutesValid, RoutesCovered, FoundRouted
<1>3. MInv => TypeOK /\ OpInv
  BY DEF MInv
<1> QED BY <1>1, <1>2, <1>3, RouteNext, MInvHolds, PTL DEF Spec
================================================================================
