---------------------------- MODULE SubAgentsProofs ----------------------------
(***************************************************************************)
(* Proofs about SubAgents, for any number of agents, threads, todo lists   *)
(* and faults: the files of an agent tell what happened to it, and only    *)
(* overlapping calls, failed writes and exits spoil the todo file.         *)
(***************************************************************************)
EXTENDS SubAgents, TLAPS, SequenceTheorems

USE DEF Absent, Torn, NoTodos

--------------------------------------------------------------------------------
(* Helpers keep their types. *)
LEMMA NoCallTyped ==
  ASSUME TypeOK, NEW t \in Threads
  PROVE  NoCall(t) \in Call /\ NoCall(t).pc = "idle" /\ ~NoCall(t).stale
  BY AgentsAssumption DEF TypeOK, NoCall, Call, Stored

(* A fault is within the bound. *)
LEMMA FaultTyped ==
  ASSUME faults \in 0 .. MaxFaults, Fine \/ Fault
  PROVE  faults' \in 0 .. MaxFaults
  BY AgentsAssumption DEF Fine, Fault

(* Moving on keeps the record of an agent in its type. *)
LEMMA AgentTyped ==
  ASSUME agent \in [Agents -> Agent], NEW a \in Agents
  PROVE  /\ \A pc \in PCs : Go(a, pc) => agent' \in [Agents -> Agent]
         /\ \A v \in Terminal : GoReport(a, v) => agent' \in [Agents -> Agent]
         /\ GiveUp(a) => agent' \in [Agents -> Agent]
  BY DEF Go, GoReport, GiveUp, Agent, PCs, Terminal

(* Every step of an agent keeps the types. *)
LEMMA AgentStepTyped ==
  ASSUME TypeOK, NEW a \in Agents, AgentStep(a)
  PROVE  TypeOK'
<1>1. /\ agent \in [Agents -> Agent]
      /\ output \in [Agents -> Seq({"task"} \cup Terminal)]
      /\ manifest \in [Agents -> {"none", "running", Torn} \cup Terminal]
      /\ faults \in 0 .. MaxFaults
  BY DEF TypeOK
<1>2. agent' \in [Agents -> Agent]
  <2>1. WriteOutput(a) => \E pc \in PCs : Go(a, pc)
    BY DEF WriteOutput, PCs
  <2>2. WriteManifest(a) => \E pc \in PCs : Go(a, pc)
    BY DEF WriteManifest, PCs
  <2>3. StartThread(a) => \/ agent' = [agent EXCEPT ![a].pc = "building", ![a].thread = TRUE]
                          \/ GoReport(a, "failed")
    BY DEF StartThread
  <2>4. Build(a) => Go(a, "working") \/ GoReport(a, "failed")
    BY DEF Build
  <2>5. EndTurn(a) => GoReport(a, "completed") \/ GoReport(a, "failed")
    BY DEF EndTurn
  <2>6. AppendOutput(a) => Go(a, "status") \/ GiveUp(a)
    BY DEF AppendOutput
  <2>7. WriteStatus(a) => Go(a, "done") \/ GiveUp(a)
    BY DEF WriteStatus
  <2>8. {"working", "status", "done"} \subseteq PCs /\ {"completed", "failed"} = Terminal
    BY DEF PCs, Terminal
  <2>9. CASE agent' = [agent EXCEPT ![a].pc = "building", ![a].thread = TRUE]
    BY <1>1, <2>9 DEF Agent, PCs
  <2> QED
    BY <1>1, <2>1, <2>2, <2>3, <2>4, <2>5, <2>6, <2>7, <2>8, <2>9, AgentTyped DEF AgentStep
<1>3. output' \in [Agents -> Seq({"task"} \cup Terminal)]
  <2>1. agent[a].verdict \in Terminal
    BY <1>1 DEF Agent
  <2>2. /\ Append(output[a], agent[a].verdict) \in Seq({"task"} \cup Terminal)
        /\ <<"task">> \in Seq({"task"} \cup Terminal)
    BY <1>1, <2>1
  <2>3. \/ UNCHANGED output
        \/ output' = [output EXCEPT ![a] = Append(@, agent[a].verdict)]
        \/ output' = [output EXCEPT ![a] = <<"task">>]
    BY DEF AgentStep, WriteOutput, WriteManifest, StartThread, Build, EndTurn,
           AppendOutput, WriteStatus
  <2> QED BY <1>1, <2>2, <2>3
<1>4. manifest' \in [Agents -> {"none", "running", Torn} \cup Terminal]
  <2>1. agent[a].verdict \in Terminal
    BY <1>1 DEF Agent
  <2>2. \/ UNCHANGED manifest
        \/ \E v \in {"running", Torn, agent[a].verdict} : manifest' = [manifest EXCEPT ![a] = v]
    BY DEF AgentStep, WriteOutput, WriteManifest, StartThread, Build, EndTurn,
           AppendOutput, WriteStatus
  <2> QED BY <1>1, <2>1, <2>2
<1>5. UNCHANGED <<store, todo, accidents>> /\ (Fine \/ Fault)
  BY DEF AgentStep, WriteOutput, WriteManifest, StartThread, Build, EndTurn,
         AppendOutput, WriteStatus
<1>6. faults' \in 0 .. MaxFaults
  BY <1>1, <1>5, FaultTyped
<1> QED
  BY <1>2, <1>3, <1>4, <1>5, <1>6 DEF TypeOK

(* Every step of a TodoWrite call keeps the types. *)
LEMMA TodoStepTyped ==
  ASSUME TypeOK, NEW t \in Threads, TodoStep(t)
  PROVE  TypeOK'
<1>1. /\ store \in Stored \cup {Absent, Torn}
      /\ todo \in [Threads -> Call]
      /\ faults \in 0 .. MaxFaults
      /\ accidents \subseteq {"overlap", "ioError", "exit"}
  BY DEF TypeOK
<1>2. NoCall(t) \in Call
  BY NoCallTyped
<1>3. CASE ReadStore(t)
  <2> DEFINE old == IF store = Absent THEN NoTodos ELSE store
             read == [todo[t] EXCEPT !.pc = "truncate", !.old = old]
  <2>1. CASE store = Torn
    BY <1>1, <1>2, <1>3, <2>1 DEF ReadStore, TypeOK
  <2>2. CASE store # Torn
    <3>1. old \in Stored
      BY <1>1, <2>2 DEF Stored
    <3>2. read \in Call
      BY <1>1, <3>1 DEF Call
    <3>3. todo' = [todo EXCEPT ![t] = read]
      BY <1>3, <2>2 DEF ReadStore
    <3> QED BY <1>1, <1>3, <3>2, <3>3 DEF ReadStore, TypeOK
  <2> QED BY <2>1, <2>2
<1>4. CASE TruncateStore(t)
  <2>1. todo' \in [Threads -> Call]
    BY <1>1, <1>2, <1>4 DEF TruncateStore, Call
  <2>2. faults' \in 0 .. MaxFaults
    BY <1>1, <1>4, FaultTyped DEF TruncateStore
  <2> QED BY <1>4, <2>1, <2>2 DEF TypeOK, TruncateStore
<1>5. CASE FillStore(t)
  <2>1. Persisted(todo[t].list) \in Stored
    BY <1>1 DEF Persisted, Stored, Call
  <2>2. todo' \in [Threads -> Call]
    BY <1>1, <1>2, <1>5 DEF FillStore
  <2>3. faults' \in 0 .. MaxFaults
    BY <1>1, <1>5, FaultTyped DEF FillStore
  <2>4. store' \in Stored \cup {Absent, Torn}
    BY <1>5, <2>1 DEF FillStore
  <2>5. accidents' \subseteq {"overlap", "ioError", "exit"}
    BY <1>1, <1>5 DEF FillStore
  <2> QED BY <1>5, <2>2, <2>3, <2>4, <2>5 DEF TypeOK, FillStore
<1> QED
  BY <1>3, <1>4, <1>5 DEF TodoStep

LEMMA TypeInvariant == Spec => []TypeOK
<1>1. Init => TypeOK
  <2> SUFFICES ASSUME Init PROVE TypeOK
    OBVIOUS
  <2>1. agent \in [Agents -> Agent]
    BY DEF Init, Agent, PCs, Terminal
  <2>2. /\ output \in [Agents -> Seq({"task"} \cup Terminal)]
        /\ manifest \in [Agents -> {"none", "running", Torn} \cup Terminal]
        /\ store \in Stored \cup {Absent, Torn}
        /\ faults \in 0 .. MaxFaults
        /\ accidents \subseteq {"overlap", "ioError", "exit"}
    BY AgentsAssumption DEF Init, Stored
  <2>3. todo \in [Threads -> Call]
    <3> DEFINE Idle == [pc : {"idle"}, list : {CHOOSE l \in Lists : TRUE}, old : {NoTodos},
                        writes : {0}, stale : {FALSE}]
    <3>1. /\ (CHOOSE l \in Lists : TRUE) \in Lists
          /\ 0 \in 0 .. MaxWrites
      BY AgentsAssumption
    <3>2. Idle \subseteq Call
      BY <3>1 DEF Call, Stored
    <3>3. todo \in [Threads -> Idle]
      BY DEF Init
    <3> HIDE DEF Idle
    <3> QED BY <3>2, <3>3
  <2> QED BY <2>1, <2>2, <2>3 DEF TypeOK
<1>2. TypeOK /\ [Next]_vars => TypeOK'
  <2> SUFFICES ASSUME TypeOK, [Next]_vars PROVE TypeOK'
    OBVIOUS
  <2>1. ASSUME NEW a \in Agents, Launch(a) PROVE TypeOK'
    BY <2>1 DEF TypeOK, Launch, Go, Agent, PCs
  <2>2. ASSUME NEW a \in Agents, AgentStep(a) PROVE TypeOK'
    BY <2>2, AgentStepTyped
  <2>3. ASSUME NEW t \in Threads, TodoStep(t) PROVE TypeOK'
    BY <2>3, TodoStepTyped
  <2>4. ASSUME NEW t \in Threads, NEW l \in Lists, TodoWrite(t, l) PROVE TypeOK'
    <3>1. todo \in [Threads -> Call]
      BY DEF TypeOK
    <3>2. todo[t].writes + 1 \in 0 .. MaxWrites
      BY <2>4, <3>1, AgentsAssumption DEF TodoWrite, Call
    <3>3. todo' \in [Threads -> Call]
      BY <2>4, <3>1, <3>2 DEF TodoWrite, Call
    <3> QED BY <2>4, <3>3 DEF TypeOK, TodoWrite
  <2>5. CASE Exit
    BY <2>5, AgentsAssumption, FaultTyped, NoCallTyped DEF TypeOK, Exit, Agent, PCs
  <2>6. CASE UNCHANGED vars
    BY <2>6 DEF TypeOK, vars
  <2> QED
    BY <2>1, <2>2, <2>3, <2>4, <2>5, <2>6 DEF Next
<1> QED
  BY <1>1, <1>2, PTL DEF Spec

--------------------------------------------------------------------------------
(* What the files hold at each step of an agent. *)
Documented(a) ==
  Len(output[a]) > 1 /\ output[a][Len(output[a])] = agent[a].verdict

FilesMatch(a) ==
  /\ agent[a].pc \in {"unborn", "output", "manifest"} => manifest[a] = "none"
  /\ agent[a].pc \in {"manifest", "starting", "building", "working", "report", "status"}
       => output[a] # <<>>
  /\ agent[a].pc = "status" => Documented(a)
  /\ manifest[a] \in Terminal =>
       agent[a].pc = "done" /\ Documented(a) /\ manifest[a] = agent[a].verdict
  /\ manifest[a] = "running" /\ agent[a].pc = "done" => agent[a].lost

FilesInv == \A a \in Agents : FilesMatch(a)

(* The induction step for the files of the agent that takes it. *)
LEMMA AgentFiles ==
  ASSUME TypeOK, FilesInv, NEW a \in Agents, AgentStep(a) \/ Launch(a)
  PROVE  FilesMatch(a)'
<1>1. /\ agent \in [Agents -> Agent] /\ agent[a].verdict \in Terminal
      /\ output \in [Agents -> Seq({"task"} \cup Terminal)]
      /\ manifest \in [Agents -> {"none", "running", Torn} \cup Terminal]
  BY DEF TypeOK, Agent
<1>2. CASE Launch(a)
  BY <1>1, <1>2 DEF Launch, Go, FilesInv, FilesMatch, Terminal, Agent
<1>3. CASE WriteOutput(a)
  <2>1. <<"task">> # <<>>
    OBVIOUS
  <2>2. output' = [output EXCEPT ![a] = <<"task">>] => output'[a] # <<>>
    BY <1>1, <2>1
  <2>3. /\ agent'[a].pc \in {"manifest", "done"}
        /\ agent'[a].pc = "manifest" => output'[a] # <<>>
        /\ manifest'[a] = "none"
    BY <1>1, <1>3, <2>2 DEF WriteOutput, Go, FilesInv, FilesMatch, Agent
  <2> QED BY <2>3 DEF FilesMatch, Terminal
<1>4. CASE WriteManifest(a)
  BY <1>1, <1>4 DEF WriteManifest, Go, FilesInv, FilesMatch, Terminal, Agent
<1>5. CASE StartThread(a)
  BY <1>1, <1>5 DEF StartThread, GoReport, FilesInv, FilesMatch, Terminal, Agent
<1>6. CASE Build(a)
  BY <1>1, <1>6 DEF Build, Go, GoReport, FilesInv, FilesMatch, Terminal, Agent
<1>7. CASE EndTurn(a)
  BY <1>1, <1>7 DEF EndTurn, GoReport, FilesInv, FilesMatch, Terminal, Agent
<1>8. CASE AppendOutput(a)
  BY <1>1, <1>8 DEF AppendOutput, Go, GoReport, GiveUp, FilesInv, FilesMatch, Documented,
                    Terminal, Agent
<1>9. CASE WriteStatus(a)
  BY <1>1, <1>9 DEF WriteStatus, Go, GoReport, GiveUp, FilesInv, FilesMatch, Documented,
                    Terminal, Agent
<1> QED
  BY <1>2, <1>3, <1>4, <1>5, <1>6, <1>7, <1>8, <1>9 DEF AgentStep

(* An agent's step leaves the files of the others alone. *)
LEMMA OthersAlone ==
  ASSUME TypeOK, NEW a \in Agents, AgentStep(a) \/ Launch(a), NEW b \in Agents, b # a
  PROVE  agent'[b] = agent[b] /\ output'[b] = output[b] /\ manifest'[b] = manifest[b]
  BY DEF TypeOK, AgentStep, Launch, WriteOutput, WriteManifest, StartThread, Build, EndTurn,
         AppendOutput, WriteStatus, Go, GoReport, GiveUp

(* The files of every agent tell what happened to it. *)
THEOREM FilesTellTheTruth == Spec => []Inv
<1>1. Init => FilesInv
  BY DEF Init, FilesInv, FilesMatch, Terminal
<1>2. TypeOK /\ TypeOK' /\ FilesInv /\ [Next]_vars => FilesInv'
  <2> SUFFICES ASSUME TypeOK, TypeOK', FilesInv, [Next]_vars PROVE FilesInv'
    OBVIOUS
  <2>1. ASSUME NEW a \in Agents, AgentStep(a) \/ Launch(a) PROVE FilesInv'
    <3> SUFFICES ASSUME NEW b \in Agents PROVE FilesMatch(b)'
      BY DEF FilesInv
    <3>1. CASE b = a
      BY <2>1, <3>1, AgentFiles
    <3>2. CASE b # a
      BY <2>1, <3>2, OthersAlone DEF FilesInv, FilesMatch, Documented
    <3> QED BY <3>1, <3>2
  <2>2. CASE Exit
    <3> SUFFICES ASSUME NEW b \in Agents PROVE FilesMatch(b)'
      BY DEF FilesInv
    <3>1. \/ agent'[b] = agent[b] /\ agent[b].pc \in {"unborn", "done"} /\ manifest'[b] = manifest[b]
          \/ /\ agent'[b].pc = "killed" /\ agent[b].pc \notin {"unborn", "done"}
             /\ manifest'[b] \in {manifest[b], Torn}
      <4>1. agent \in [Agents -> Agent]
        BY DEF TypeOK
      <4>2. agent'[b] = IF agent[b].pc \in {"unborn", "done"} THEN agent[b]
                        ELSE [agent[b] EXCEPT !.pc = "killed"]
        BY <2>2 DEF Exit
      <4>3. PICK torn \in SUBSET {x \in Agents : agent[x].pc \in {"manifest", "status"}} :
              manifest' = [x \in Agents |-> IF x \in torn THEN Torn ELSE manifest[x]]
        BY <2>2 DEF Exit
      <4>4. /\ manifest'[b] \in {manifest[b], Torn}
            /\ agent[b].pc \in {"unborn", "done"} => manifest'[b] = manifest[b]
        BY <4>3
      <4> QED BY <4>1, <4>2, <4>4 DEF Agent
    <3>2. output'[b] = output[b]
      BY <2>2 DEF Exit
    <3> QED BY <3>1, <3>2 DEF FilesInv, FilesMatch, Documented, Terminal
  <2>3. ASSUME UNCHANGED <<agent, output, manifest>> PROVE FilesInv'
    BY <2>3 DEF FilesInv, FilesMatch, Documented
  <2>4. ASSUME NEW t \in Threads, TodoStep(t) \/ \E l \in Lists : TodoWrite(t, l) PROVE FilesInv'
    BY <2>3, <2>4 DEF TodoStep, ReadStore, TruncateStore, FillStore, TodoWrite
  <2>5. CASE UNCHANGED vars
    BY <2>3, <2>5 DEF vars
  <2> QED
    BY <2>1, <2>2, <2>4, <2>5 DEF Next
<1>3. TypeOK /\ FilesInv => Inv
  BY DEF FilesInv, FilesMatch, Documented, Inv, StatusIsDocumented,
         RunningHasCause
<1> QED
  BY <1>1, <1>2, <1>3, TypeInvariant, PTL DEF Spec

--------------------------------------------------------------------------------
(* As long as no calls overlapped there is one at a time; what it read is  *)
(* what it replaces, and the file is torn while it fills it.               *)
CallInv ==
  "overlap" \notin accidents =>
    /\ \A t, u \in Threads : InCall(t) /\ InCall(u) => t = u
    /\ \A t \in Threads : todo[t].pc = "truncate" => store \in {todo[t].old, Absent}
    /\ \A t \in Threads : todo[t].pc = "fill" => store = Torn
    /\ \A t \in Threads : ~todo[t].stale

TodosInv == CallInv /\ StoreReadable

(* A step of one call leaves the others alone. *)
LEMMA OtherCalls ==
  ASSUME TypeOK, NEW t \in Threads, TodoStep(t), NEW u \in Threads, u # t
  PROVE  todo'[u] = todo[u]
  BY DEF TypeOK, TodoStep, ReadStore, TruncateStore, FillStore

(* The induction step for the call that takes it. *)
LEMMA TodoStepTrue ==
  ASSUME TypeOK, TodosInv, NEW t \in Threads, TodoStep(t)
  PROVE  TodosInv'
<1>1. /\ todo \in [Threads -> Call] /\ todo[t] \in Call
      /\ NoCall(t).pc = "idle" /\ ~NoCall(t).stale
      /\ \A u \in Threads : u # t => todo'[u] = todo[u]
  BY NoCallTyped, OtherCalls DEF TypeOK
<1>2. CASE ReadStore(t)
  <2>1. /\ todo'[t].pc \in {"idle", "truncate"} /\ todo[t].pc = "read"
        /\ todo'[t].pc = "truncate" => store \in {todo'[t].old, Absent}
        /\ todo[t].stale = FALSE => todo'[t].stale = FALSE
        /\ UNCHANGED <<store, accidents>>
    BY <1>1, <1>2 DEF ReadStore, Call
  <2> QED BY <1>1, <2>1 DEF TodosInv, CallInv, StoreReadable, InCall, Call
<1>3. CASE TruncateStore(t)
  <2>1. \/ /\ todo'[t].pc = "fill" /\ store' = Torn
           /\ todo'[t].stale = (store \notin {todo[t].old, Absent})
        \/ todo'[t].pc = "idle" /\ ~todo'[t].stale /\ UNCHANGED store
    BY <1>1, <1>3 DEF TruncateStore, Call
  <2>2. todo[t].pc = "truncate" /\ UNCHANGED accidents
    BY <1>3 DEF TruncateStore
  <2> QED BY <1>1, <2>1, <2>2 DEF TodosInv, CallInv, StoreReadable, InCall, Call
<1>4. CASE FillStore(t)
  <2>1. Persisted(todo[t].list) # Torn
    BY <1>1, AgentsAssumption DEF Persisted, Call
  <2>2. /\ todo[t].pc = "fill" /\ todo'[t].pc = "idle" /\ ~todo'[t].stale
        /\ \/ /\ UNCHANGED accidents
              /\ store' = Persisted(todo[t].list) \/ (store # Torn /\ store' = Torn)
           \/ accidents' = accidents \cup {"ioError"}
    BY <1>1, <1>4 DEF FillStore
  <2> QED BY <1>1, <2>1, <2>2 DEF TodosInv, CallInv, StoreReadable, InCall, Call
<1> QED
  BY <1>2, <1>3, <1>4 DEF TodoStep

(* Only overlapping calls, failed writes and exits spoil the todo file, or *)
(* what a call says of it.                                                 *)
THEOREM TodosStayTrue == Spec => []TodosAreTrue
<1>1. Init => TodosInv
  BY AgentsAssumption DEF Init, TodosInv, CallInv, StoreReadable, InCall
<1>2. TypeOK /\ TodosInv /\ [Next]_vars => TodosInv'
  <2> SUFFICES ASSUME TypeOK, TodosInv, [Next]_vars PROVE TodosInv'
    OBVIOUS
  <2>1. ASSUME UNCHANGED <<store, todo, accidents>> PROVE TodosInv'
    BY <2>1 DEF TodosInv, CallInv, StoreReadable, InCall
  <2>2. ASSUME NEW a \in Agents, AgentStep(a) \/ Launch(a) PROVE TodosInv'
    BY <2>1, <2>2 DEF Launch, AgentStep, WriteOutput, WriteManifest, StartThread, Build,
                      EndTurn, AppendOutput, WriteStatus
  <2>3. ASSUME NEW t \in Threads, TodoStep(t) PROVE TodosInv'
    BY <2>3, TodoStepTrue
  <2>4. ASSUME NEW t \in Threads, NEW l \in Lists, TodoWrite(t, l) PROVE TodosInv'
    <3>1. /\ todo \in [Threads -> Call] /\ todo[t].pc = "idle" /\ UNCHANGED store
          /\ accidents' = IF \E u \in Threads : InCall(u) THEN accidents \cup {"overlap"}
                                                         ELSE accidents
      BY <2>4 DEF TypeOK, TodoWrite, InCall
    <3>2. /\ todo'[t].pc = "read" /\ todo'[t].stale = todo[t].stale
          /\ \A u \in Threads : u # t => todo'[u] = todo[u]
      BY <2>4, <3>1 DEF TodoWrite, Call
    <3> QED BY <3>1, <3>2 DEF TodosInv, CallInv, StoreReadable, InCall
  <2>5. CASE Exit
    <3>1. \A t \in Threads : todo'[t].pc = "idle" /\ ~todo'[t].stale
      BY <2>5, NoCallTyped DEF Exit
    <3>2. /\ UNCHANGED store
          /\ accidents' = IF \E t \in Threads : InCall(t) THEN accidents \cup {"exit"} ELSE accidents
      BY <2>5 DEF Exit
    <3> QED BY <3>1, <3>2 DEF TodosInv, CallInv, StoreReadable, InCall
  <2>6. CASE UNCHANGED vars
    BY <2>1, <2>6 DEF vars
  <2> QED
    BY <2>2, <2>3, <2>4, <2>5, <2>6 DEF Next
<1>3. TodosInv => TodosAreTrue
  BY DEF TodosInv, CallInv, TodosAreTrue, OldTodosAreCurrent
<1> QED
  BY <1>1, <1>2, <1>3, TypeInvariant, PTL DEF Spec
================================================================================
