------------------------------- MODULE SubAgents -------------------------------
(***************************************************************************)
(* Sub-agents and the todo store.  The Agent tool writes an output file    *)
(* and a manifest, starts a detached thread with a conversation of its own *)
(* and returns at once.  The thread reports by appending to the output     *)
(* file and rewriting the manifest.  It shares the todo file with the main *)
(* thread and with the other agents, without a lock.                       *)
(*                                                                         *)
(* A write of a whole file (fs::write) truncates it and then fills it.     *)
(* The process may exit at any moment and be started again.                *)
(***************************************************************************)
EXTENDS Naturals, Sequences, FiniteSets

CONSTANTS
  Agents,      \* the agents launched, by id
  TypeOf,      \* their normalised sub-agent types
  Main,        \* the thread of the main conversation
  Lists,       \* todo lists
  Finished,    \* those whose items are all completed
  MaxWrites,   \* bound: TodoWrite calls of one thread
  MaxFaults    \* bound: failed writes, failed threads and exits

Types == {"Explore", "Plan", "Verification", "claw-code-guide", "statusline-setup",
          "general-purpose"}   \* the last stands for any other name, too

Absent == "absent"         \* no todo file
Torn == "torn"             \* empty or garbled: it does not parse
NoTodos == "empty"         \* the list []

ASSUME AgentsAssumption ==
  /\ TypeOf \in [Agents -> Types]
  /\ Main \notin Agents
  /\ Finished \subseteq Lists /\ Lists # {}
  /\ {Absent, Torn, NoTodos} \cap Lists = {}
  /\ MaxWrites \in Nat /\ MaxFaults \in Nat

VARIABLES
  agent,      \* what each agent is at
  output,     \* its output file: the sections written
  manifest,   \* the status in its manifest
  store,      \* the todo file
  todo,       \* the TodoWrite call of each thread
  faults,     \* how much went wrong so far
  accidents   \* history: what may have damaged the todo file

vars == <<agent, output, manifest, store, todo, faults, accidents>>

--------------------------------------------------------------------------------
Threads == Agents \cup {Main}

Terminal == {"completed", "failed"}

(* The launching thread does the steps up to starting; the agent's thread  *)
(* those from building on, and a failed start is reported by the former.   *)
PCs == {"unborn", "output", "manifest", "starting", "building", "working",
        "report", "status", "done", "killed"}

Agent == [pc : PCs, thread : BOOLEAN, verdict : Terminal,
          lost : BOOLEAN]    \* history: its report could not be written

Stored == Lists \cup {NoTodos}
Call == [pc : {"idle", "read", "truncate", "fill"}, list : Lists,
         old : Stored, writes : 0 .. MaxWrites, stale : BOOLEAN]

TypeOK ==
  /\ agent \in [Agents -> Agent]
  /\ output \in [Agents -> Seq({"task"} \cup Terminal)]
  /\ manifest \in [Agents -> {"none", "running", Torn} \cup Terminal]
  /\ store \in Stored \cup {Absent, Torn}
  /\ todo \in [Threads -> Call]
  /\ faults \in 0 .. MaxFaults
  /\ accidents \subseteq {"overlap", "ioError", "exit"}

Init ==
  /\ agent = [a \in Agents |-> [pc |-> "unborn", thread |-> FALSE, verdict |-> "failed",
                              lost |-> FALSE]]
  /\ output = [a \in Agents |-> <<>>]
  /\ manifest = [a \in Agents |-> "none"]
  /\ store \in Lists \cup {Absent}
  /\ todo \in [Threads -> [pc : {"idle"}, list : {CHOOSE l \in Lists : TRUE}, old : {NoTodos},
                           writes : {0}, stale : {FALSE}]]
  /\ faults = 0
  /\ accidents = {}

Fault == faults < MaxFaults /\ faults' = faults + 1

Fine == UNCHANGED faults

--------------------------------------------------------------------------------
(* allowed_tools_for_subagent, as far as the tools modelled here go. *)
AllowedTools(type) ==
  IF type \in {"Explore", "claw-code-guide", "statusline-setup"} THEN {} ELSE {"TodoWrite"}

NoCall(t) == [todo[t] EXCEPT !.pc = "idle", !.list = CHOOSE l \in Lists : TRUE,
                             !.old = NoTodos, !.stale = FALSE]

Go(a, pc) == agent' = [agent EXCEPT ![a].pc = pc]

GoReport(a, verdict) == agent' = [agent EXCEPT ![a].pc = "report", ![a].verdict = verdict]

(* The main thread runs one tool at a time. *)
MainIsFree ==
  /\ todo[Main].pc = "idle"
  /\ \A a \in Agents : agent[a].pc \in {"unborn", "done", "killed"} \/ agent[a].thread

(* execute_agent *)
Launch(a) ==
  /\ MainIsFree /\ agent[a].pc = "unborn"
  /\ Go(a, "output")
  /\ UNCHANGED <<output, manifest, store, todo, faults, accidents>>

WriteOutput(a) ==
  /\ agent[a].pc = "output"
  /\ \/ Fine /\ output' = [output EXCEPT ![a] = <<"task">>] /\ Go(a, "manifest")
     \/ Fault /\ Go(a, "done") /\ UNCHANGED output
  /\ UNCHANGED <<manifest, store, todo, accidents>>

WriteManifest(a) ==
  /\ agent[a].pc = "manifest"
  /\ \/ Fine /\ manifest' = [manifest EXCEPT ![a] = "running"] /\ Go(a, "starting")
     \/ Fault /\ Go(a, "done") /\ manifest' \in {manifest, [manifest EXCEPT ![a] = Torn]}
  /\ UNCHANGED <<output, store, todo, accidents>>

(* Mutant: a start that fails is not reported. *)
StartThreadSilently(a) ==
  /\ agent[a].pc = "starting"
  /\ \/ Fine /\ agent' = [agent EXCEPT ![a].pc = "building", ![a].thread = TRUE]
     \/ Fault /\ Go(a, "done")
  /\ UNCHANGED <<output, manifest, store, todo, accidents>>

(* spawn_agent_job *)
StartThread(a) ==
  /\ agent[a].pc = "starting"
  /\ \/ Fine /\ agent' = [agent EXCEPT ![a].pc = "building", ![a].thread = TRUE]
     \/ Fault /\ GoReport(a, "failed")
  /\ UNCHANGED <<output, manifest, store, todo, accidents>>

(* build_agent_runtime: no key, no runtime. *)
Build(a) ==
  /\ agent[a].pc = "building"
  /\ \/ Fine /\ Go(a, "working")
     \/ Fault /\ GoReport(a, "failed")
  /\ UNCHANGED <<output, manifest, store, todo, accidents>>

(* run_turn returns, with an error perhaps, or panics. *)
EndTurn(a) ==
  /\ agent[a].pc = "working" /\ todo[a].pc = "idle"
  /\ \/ Fine /\ GoReport(a, "completed")
     \/ Fault /\ GoReport(a, "failed")
  /\ UNCHANGED <<output, manifest, store, todo, accidents>>

(* persist_agent_terminal_state.  An error on the way to "completed" is an *)
(* error of the job, which is then reported as failed; an error on the way *)
(* to "failed" is dropped.                                                 *)
GiveUp(a) ==
  IF agent[a].verdict = "completed"
    THEN GoReport(a, "failed")
    ELSE agent' = [agent EXCEPT ![a].pc = "done", ![a].lost = TRUE]

(* Mutant: the manifest is written although the report could not be. *)
AppendOutputOrNot(a) ==
  /\ agent[a].pc = "report"
  /\ \/ Fine /\ output' = [output EXCEPT ![a] = Append(@, agent[a].verdict)]
     \/ Fault /\ UNCHANGED output
  /\ Go(a, "status")
  /\ UNCHANGED <<manifest, store, todo, accidents>>

AppendOutput(a) ==
  /\ agent[a].pc = "report"
  /\ \/ /\ Fine
        /\ output' = [output EXCEPT ![a] = Append(@, agent[a].verdict)]
        /\ Go(a, "status")
     \/ Fault /\ GiveUp(a) /\ UNCHANGED output
  /\ UNCHANGED <<manifest, store, todo, accidents>>

WriteStatus(a) ==
  /\ agent[a].pc = "status"
  /\ \/ Fine /\ manifest' = [manifest EXCEPT ![a] = agent[a].verdict] /\ Go(a, "done")
     \/ Fault /\ GiveUp(a) /\ manifest' \in {manifest, [manifest EXCEPT ![a] = Torn]}
  /\ UNCHANGED <<output, store, todo, accidents>>

AgentStep(a) == \/ WriteOutput(a) \/ WriteManifest(a) \/ StartThread(a) \/ Build(a)
                \/ EndTurn(a) \/ AppendOutput(a) \/ WriteStatus(a)

--------------------------------------------------------------------------------
(* execute_todo_write.  A finished list is stored as the empty one. *)
Persisted(list) == IF list \in Finished THEN NoTodos ELSE list

InCall(t) == todo[t].pc # "idle"

MayWriteTodos(t) ==
  IF t = Main THEN MainIsFree
              ELSE agent[t].pc = "working" /\ "TodoWrite" \in AllowedTools(TypeOf[t])

TodoWrite(t, l) ==
  /\ MayWriteTodos(t) /\ ~InCall(t)
  /\ todo[t].writes < MaxWrites
  /\ todo' = [todo EXCEPT ![t].pc = "read", ![t].list = l, ![t].writes = @ + 1]
  /\ accidents' = IF \E u \in Threads : InCall(u) THEN accidents \cup {"overlap"} ELSE accidents
  /\ UNCHANGED <<agent, output, manifest, store, faults>>

ReadStore(t) ==
  /\ todo[t].pc = "read"
  /\ todo' = [todo EXCEPT ![t] =
       IF store = Torn THEN NoCall(t)
                       ELSE [@ EXCEPT !.pc = "truncate",
                                      !.old = IF store = Absent THEN NoTodos ELSE store]]
  /\ UNCHANGED <<agent, output, manifest, store, faults, accidents>>

(* Mutant: the file is opened, and emptied, before the check that fails. *)
TruncateAnyway(t) ==
  /\ todo[t].pc = "truncate"
  /\ store' = Torn
  /\ \/ /\ Fine
        /\ todo' = [todo EXCEPT ![t].pc = "fill",
                                ![t].stale = store \notin {todo[t].old, Absent}]
     \/ Fault /\ todo' = [todo EXCEPT ![t] = NoCall(t)]
  /\ UNCHANGED <<agent, output, manifest, accidents>>

TruncateStore(t) ==
  /\ todo[t].pc = "truncate"
  /\ \/ /\ Fine
        /\ store' = Torn
        /\ todo' = [todo EXCEPT ![t].pc = "fill",
                                ![t].stale = store \notin {todo[t].old, Absent}]
     \/ /\ Fault
        /\ todo' = [todo EXCEPT ![t] = NoCall(t)]
        /\ UNCHANGED store
  /\ UNCHANGED <<agent, output, manifest, accidents>>

(* What another thread wrote since the truncation is overwritten from the  *)
(* start; if it was longer its end stays behind.                           *)
FillStore(t) ==
  /\ todo[t].pc = "fill"
  /\ \/ /\ Fine
        /\ store' \in {Persisted(todo[t].list)} \cup (IF store # Torn THEN {Torn} ELSE {})
        /\ todo' = [todo EXCEPT ![t] = NoCall(t)]
        /\ UNCHANGED accidents
     \/ /\ Fault
        /\ store' = Torn
        /\ todo' = [todo EXCEPT ![t] = NoCall(t)]
        /\ accidents' = accidents \cup {"ioError"}
  /\ UNCHANGED <<agent, output, manifest>>

TodoStep(t) == ReadStore(t) \/ TruncateStore(t) \/ FillStore(t)

(* The process ends, and its threads with it; what it was writing is torn, *)
(* and the next process finds the files as they are.                       *)
Exit ==
  /\ Fault
  /\ \E torn \in SUBSET {a \in Agents : agent[a].pc \in {"manifest", "status"}} :
       manifest' = [a \in Agents |-> IF a \in torn THEN Torn ELSE manifest[a]]
  /\ agent' = [a \in Agents |->
       IF agent[a].pc \in {"unborn", "done"} THEN agent[a] ELSE [agent[a] EXCEPT !.pc = "killed"]]
  /\ todo' = [t \in Threads |-> NoCall(t)]
  /\ accidents' = IF \E t \in Threads : InCall(t) THEN accidents \cup {"exit"} ELSE accidents
  /\ UNCHANGED <<output, store>>

Next ==
  \/ \E a \in Agents : Launch(a) \/ AgentStep(a)
  \/ \E t \in Threads : TodoStep(t) \/ \E l \in Lists : TodoWrite(t, l)
  \/ Exit

(* Threads are scheduled, and a conversation of at most 32 iterations ends. *)
Fairness ==
  /\ \A a \in Agents : WF_vars(AgentStep(a))
  /\ \A t \in Threads : WF_vars(TodoStep(t))

Spec == Init /\ [][Next]_vars

FairSpec == Spec /\ Fairness

--------------------------------------------------------------------------------
(* A reader who finds a final status in the manifest finds what it is      *)
(* about in the output file: the report of the same verdict is its last    *)
(* section, whatever failed or died on the way.                            *)
StatusIsDocumented ==
  \A a \in Agents : manifest[a] \in Terminal =>
    Len(output[a]) > 1 /\ output[a][Len(output[a])] = manifest[a]

(* A manifest that says running is about an agent at work, or one that was *)
(* killed, or the last word of one whose failure could not be reported:    *)
(* no error, panic or failed write before that leaves it so.               *)
RunningHasCause ==
  \A a \in Agents : manifest[a] = "running" /\ agent[a].pc = "done" => agent[a].lost

(* The files of an agent tell what happened to it.                         *)
Inv == TypeOK /\ StatusIsDocumented /\ RunningHasCause

(* The todo file stays readable as long as calls do not overlap, no write  *)
(* fails halfway and the process does not end in the middle of a call: an  *)
(* unreadable one fails every later TodoWrite.                             *)
StoreReadable ==
  store = Torn /\ accidents = {} => \E t \in Threads : todo[t].pc = "fill"

(* The old list a call returns is the one its write replaces, unless calls *)
(* overlapped: the events the CLI derives from the difference are about    *)
(* tasks that did start or end.                                            *)
OldTodosAreCurrent ==
  \A t \in Threads : todo[t].stale => "overlap" \in accidents

(* Only overlapping calls, failed writes and exits spoil the todo file or  *)
(* what is said of it (execute_todo_write).                                *)
TodosAreTrue == StoreReadable /\ OldTodosAreCurrent

(* Every agent started is reported on in the end, by its own thread or by  *)
(* the one that could not start it, unless the process ends first.         *)
EveryAgentReports ==
  \A a \in Agents :
    agent[a].pc = "starting" ~> \/ agent[a].pc = "killed"
                                \/ manifest[a] \in Terminal
                                \/ agent[a].lost
================================================================================
