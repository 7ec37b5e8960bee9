--------------------------- MODULE ConversationLoop ---------------------------
(***************************************************************************)
(* runtime/src/conversation.rs: ConversationRuntime::run_turn and the loop *)
(* it drives.  One user prompt starts a turn; the turn alternates requests *)
(* to the model API with the execution of the tools the reply asks for,    *)
(* and ends when a reply asks for none, when a tool errs, when the request *)
(* fails, when the iteration limit is exceeded or when the operator        *)
(* cancels.                                                                *)
(*                                                                         *)
(* The turn runs on a thread of its own.  The actions cut it where the     *)
(* operator's ESC can be observed or where it blocks: the checkpoint at    *)
(* the top of the loop, the API call, the permission prompt, the hooks and *)
(* the tool.                                                               *)
(***************************************************************************)
EXTENDS Naturals, Sequences, FiniteSets, Permissions, Session

CONSTANTS
  ActiveModes,     \* the permission modes the runtime may be built with
  Prompters,       \* whether run_turn gets a prompter: subset of BOOLEAN
  HookDenials,     \* verdicts the hooks may give: {FALSE} without hooks
  MaxIterations,   \* with_max_iterations
  Threshold,       \* auto_compaction_input_tokens_threshold
  MaxUses,         \* bound: tool calls in one reply
  MaxTurns,        \* bound: turns in a behaviour
  MaxRequests      \* bound: API requests in a behaviour

ASSUME LoopAssumption ==
  /\ ActiveModes \subseteq Modes
  /\ Prompters \subseteq BOOLEAN
  /\ HookDenials \subseteq BOOLEAN
  /\ MaxIterations \in Nat
  /\ Threshold \in Nat \ {0}
  /\ MaxUses \in Nat
  /\ MaxTurns \in Nat
  /\ MaxRequests \in Nat

VARIABLES
  mode,        \* permission_policy.active_mode
  prompter,    \* the prompter argument of run_turn: is there one?
  session,     \* session.messages
  usage,       \* usage_tracker
  cancelled,   \* the cancel token
  pc,          \* where the turn's thread is; "idle" between turns
  iterations,  \* of the current turn
  pending,     \* the tool uses of the last reply not dealt with yet
  toolFailed,  \* is_error of the tool just run
  outcome,     \* how the last turn ended
  turns,       \* turns started
  nextId,      \* the API's supply of tool_use ids
  requests,    \* history: the API requests issued so far
  executed,    \* history: the tool uses executed, in order
  approved     \* history: the tool uses the operator said yes to

vars == <<mode, prompter, session, usage, cancelled, pc, iterations, pending,
          toolFailed, outcome, turns, nextId, requests, executed, approved>>

config == <<mode, prompter>>
history == <<requests, executed, approved>>

PCs == {"idle", "top", "request", "waiting", "tool", "prompt", "preHook",
        "execute", "gap", "postHook", "finish"}

Outcomes == {"none", "running", "done", "toolError", "streamError",
             "cancelled", "exhausted"}

TypeOK ==
  /\ mode \in ActiveModes
  /\ prompter \in Prompters
  /\ session \in Seq(Message)
  /\ usage \in Tracker
  /\ cancelled \in BOOLEAN
  /\ pc \in PCs
  /\ iterations \in Nat
  /\ pending \in Seq(ToolUse)
  /\ toolFailed \in BOOLEAN
  /\ outcome \in Outcomes
  /\ turns \in Nat
  /\ nextId \in Nat \ {0}
  /\ requests \in Nat
  /\ executed \in Seq(Nat \ {0})
  /\ approved \subseteq Nat \ {0}

(* ConversationRuntime::new on a fresh session. *)
Init ==
  /\ mode \in ActiveModes
  /\ prompter \in Prompters
  /\ session = <<>>
  /\ usage = NewTracker
  /\ cancelled = FALSE
  /\ pc = "idle"
  /\ iterations = 0
  /\ pending = <<>>
  /\ toolFailed = FALSE
  /\ outcome = "none"
  /\ turns = 0
  /\ nextId = 1
  /\ requests = 0
  /\ executed = <<>>
  /\ approved = {}

--------------------------------------------------------------------------------
(* Shared pieces. *)

Push(message) == session' = Append(session, message)

(* Return from run_turn; the thread's locals die with it. *)
EndTurn(how) ==
  /\ pc' = "idle"
  /\ outcome' = how
  /\ pending' = <<>>
  /\ toolFailed' = FALSE

(* Mutant: the turn ends once the tools have run. *)
ContinueToFinish(rest) ==
  /\ pending' = rest
  /\ pc' = IF rest = <<>> THEN "finish" ELSE "tool"
  /\ toolFailed' = FALSE

(* The next tool of the for loop, or back to the top of the outer loop. *)
Continue(rest) ==
  /\ pending' = rest
  /\ pc' = IF rest = <<>> THEN "top" ELSE "tool"
  /\ toolFailed' = FALSE

Current == Head(pending)

(* The last statements of the for body: push the result, take the next. *)
Answer(why, error) ==
  /\ Push(ToolResult(Current.id, why, error))
  /\ Continue(Tail(pending))

Advance(to) ==
  /\ pc' = to
  /\ UNCHANGED <<pending, toolFailed>>

--------------------------------------------------------------------------------
(* The operator. *)

(* run_turn: push the prompt, enter the loop.  The caller has just lowered *)
(* the cancel flag.                                                        *)
StartTurn ==
  /\ pc = "idle"
  /\ turns < MaxTurns
  /\ Push(Plain("user"))
  /\ cancelled' = FALSE
  /\ iterations' = 0
  /\ outcome' = "running"
  /\ turns' = turns + 1
  /\ Advance("top")
  /\ UNCHANGED <<config, usage, nextId, history>>

(* ESC raises the flag at any moment of the turn. *)
Cancel ==
  /\ pc # "idle"
  /\ ~cancelled
  /\ cancelled' = TRUE
  /\ UNCHANGED <<config, session, usage, pc, iterations, pending, toolFailed,
                 outcome, turns, nextId, history>>

--------------------------------------------------------------------------------
(* The API call. *)

(* Mutant: one iteration too many. *)
LoopTopOneMore ==
  /\ pc = "top"
  /\ \/ /\ cancelled
        /\ EndTurn("cancelled")
        /\ UNCHANGED iterations
     \/ /\ ~cancelled
        /\ iterations' = iterations + 1
        /\ IF iterations > MaxIterations
           THEN EndTurn("exhausted")
           ELSE Advance("request") /\ UNCHANGED outcome
  /\ UNCHANGED <<config, session, usage, cancelled, turns, nextId, history>>

(* The top of the loop: the checkpoint, then the iteration limit. *)
LoopTop ==
  /\ pc = "top"
  /\ \/ /\ cancelled
        /\ EndTurn("cancelled")
        /\ UNCHANGED iterations
     \/ /\ ~cancelled
        /\ iterations' = iterations + 1
        /\ IF iterations + 1 > MaxIterations
           THEN EndTurn("exhausted")
           ELSE Advance("request") /\ UNCHANGED outcome
  /\ UNCHANGED <<config, session, usage, cancelled, turns, nextId, history>>

(* api_client.stream clones the session into the request and blocks. *)
SendRequest ==
  /\ pc = "request"
  /\ requests < MaxRequests
  /\ requests' = requests + 1
  /\ Advance("waiting")
  /\ UNCHANGED <<config, session, usage, cancelled, iterations, outcome, turns,
                 nextId, executed, approved>>

(* Mutant: a failed request is sent again, without an iteration. *)
StreamFailsRetried ==
  /\ pc = "waiting"
  /\ Advance("request")
  /\ UNCHANGED <<config, session, usage, cancelled, iterations, outcome, turns,
                 nextId, history>>

(* stream returned an error: it propagates, the prompt stays in place. *)
StreamFails ==
  /\ pc = "waiting"
  /\ EndTurn("streamError")
  /\ UNCHANGED <<config, session, usage, cancelled, iterations, turns, nextId,
                 history>>

(* The uses of a reply that names the tools of the sequence ts. *)
UsesOf(ts) == [i \in 1 .. Len(ts) |-> [id |-> nextId + i - 1, tool |-> ts[i]]]

(* Mutant: no checkpoint after the call. *)
ReceiveReplyUnchecked(ts, reported, stopped) ==
  /\ pc = "waiting"
  /\ stopped
  /\ usage' = Record(usage, reported)
  /\ Push(AssistantMessage(UsesOf(ts), reported))
  /\ nextId' = nextId + Len(ts)
  /\ pending' = UsesOf(ts)
  /\ pc' = IF ts = <<>> THEN "finish" ELSE "tool"
  /\ UNCHANGED <<config, toolFailed, outcome, cancelled, iterations, turns,
                 history>>

(* The checkpoint after the call, build_assistant_message, the tracker and *)
(* the arm of the consensus evaluation, which is always +1.  A reply that  *)
(* arrives after ESC is dropped whole; one without a stop event is an      *)
(* error.                                                                  *)
ReceiveReply(ts, reported, stopped) ==
  /\ pc = "waiting"
  /\ \/ /\ cancelled
        /\ EndTurn("cancelled")
        /\ UNCHANGED <<session, usage, nextId>>
     \/ /\ ~cancelled /\ ~stopped
        /\ EndTurn("streamError")
        /\ UNCHANGED <<session, usage, nextId>>
     \/ /\ ~cancelled /\ stopped
        /\ usage' = Record(usage, reported)
        /\ Push(AssistantMessage(UsesOf(ts), reported))
        /\ nextId' = nextId + Len(ts)
        /\ pending' = UsesOf(ts)
        /\ pc' = IF ts = <<>> THEN "finish" ELSE "tool"
        /\ UNCHANGED <<toolFailed, outcome>>
  /\ UNCHANGED <<config, cancelled, iterations, turns, history>>

(* The loop broke out on a reply without tools: maybe_auto_compact. *)
Finish ==
  /\ pc = "finish"
  /\ session' = IF usage.latest < Threshold THEN session ELSE Compact(session)
  /\ EndTurn("done")
  /\ UNCHANGED <<config, usage, cancelled, iterations, turns, nextId, history>>

--------------------------------------------------------------------------------
(* One tool use: authorize, hook, execute, hook, answer. *)

AuthorizeTool ==
  /\ pc = "tool"
  /\ LET verdict == Authorize(mode, Current.tool, prompter) IN
     \/ verdict = "allow" /\ Advance("preHook") /\ UNCHANGED session
     \/ verdict = "ask"   /\ Advance("prompt")  /\ UNCHANGED session
     \/ verdict = "deny"  /\ Answer("denied", TRUE)
  /\ UNCHANGED <<config, usage, cancelled, iterations, outcome, turns, nextId,
                 history>>

(* prompter.decide returned Allow or AllowWithEdits: the tool goes ahead,  *)
(* with the operator's input in the second case.                           *)
OperatorAllows ==
  /\ pc = "prompt"
  /\ approved' = approved \cup {Current.id}
  /\ Advance("preHook")
  /\ UNCHANGED <<config, session, usage, cancelled, iterations, outcome, turns,
                 nextId, requests, executed>>

OperatorDenies ==
  /\ pc = "prompt"
  /\ Answer("denied", TRUE)
  /\ UNCHANGED <<config, usage, cancelled, iterations, outcome, turns, nextId,
                 history>>

(* Mutant: the hook's refusal is recorded and the tool runs. *)
PreHookIgnored(denied) ==
  /\ pc = "preHook"
  /\ IF denied THEN Push(ToolResult(Current.id, "hook", TRUE))
               ELSE UNCHANGED session
  /\ Advance("execute")
  /\ UNCHANGED <<config, usage, cancelled, iterations, outcome, turns, nextId,
                 history>>

(* run_pre_tool_use: a hook that exits with 2 denies; any other exit, a    *)
(* signal or a hook that does not start lets the tool run.                 *)
PreHook(denied) ==
  /\ pc = "preHook"
  /\ \/ denied  /\ Answer("hook", TRUE)
     \/ ~denied /\ Advance("execute") /\ UNCHANGED session
  /\ UNCHANGED <<config, usage, cancelled, iterations, outcome, turns, nextId,
                 history>>

(* tool_executor.execute returned a ToolResult: state +1, 0 or -1. *)
ExecuteTool(state) ==
  /\ pc = "execute"
  /\ executed' = Append(executed, Current.id)
  /\ pc' = IF state = "zero" THEN "gap" ELSE "postHook"
  /\ toolFailed' = (state = "minus")
  /\ UNCHANGED <<config, session, usage, cancelled, iterations, pending, outcome,
                 turns, nextId, requests, approved>>

(* execute returned Err: the loop writes a reflection prompt in the user's *)
(* name and returns Ok at once, the remaining tools and compaction left    *)
(* out.                                                                    *)
ExecuteErrs ==
  /\ pc = "execute"
  /\ executed' = Append(executed, Current.id)
  /\ Push(Plain("reflection"))
  /\ EndTurn("toolError")
  /\ UNCHANGED <<config, usage, cancelled, iterations, turns, nextId, requests,
                 approved>>

(* Mutant: the tool is tried again after the recovery prompt. *)
GapRetried ==
  /\ pc = "gap"
  /\ Push(Plain("recovery"))
  /\ Continue(pending)
  /\ UNCHANGED <<config, usage, cancelled, iterations, outcome, turns, nextId,
                 history>>

(* State 0, and query_memory found context for some term of the input: a   *)
(* recovery prompt in the user's name, no result, on to the next tool.     *)
GapRecovered ==
  /\ pc = "gap"
  /\ Push(Plain("recovery"))
  /\ Continue(Tail(pending))
  /\ UNCHANGED <<config, usage, cancelled, iterations, outcome, turns, nextId,
                 history>>

(* Mutant: the for loop goes on behind a halt. *)
GapHaltsGoesOn ==
  /\ pc = "gap"
  /\ Answer("halt", TRUE)
  /\ UNCHANGED <<config, usage, cancelled, iterations, outcome, turns, nextId,
                 history>>

(* State 0 and no context: answer this tool with an error and leave the    *)
(* for loop; the outer loop goes round again.                              *)
GapHalts ==
  /\ pc = "gap"
  /\ Push(ToolResult(Current.id, "halt", TRUE))
  /\ Continue(<<>>)
  /\ UNCHANGED <<config, usage, cancelled, iterations, outcome, turns, nextId,
                 history>>

(* run_post_tool_use may turn a success into an error. *)
PostHook(denied) ==
  /\ pc = "postHook"
  /\ Answer("output", toolFailed \/ denied)
  /\ UNCHANGED <<config, usage, cancelled, iterations, outcome, turns, nextId,
                 history>>

--------------------------------------------------------------------------------
ToolNames == UNION {[1 .. n -> Tools] : n \in 0 .. MaxUses}

Operator == StartTurn \/ Cancel

ApiStep ==
  \/ LoopTop \/ SendRequest \/ StreamFails \/ Finish
  \/ \E ts \in ToolNames, u \in Tokens \cup {NoUsage}, stopped \in BOOLEAN :
       ReceiveReply(ts, u, stopped)

ToolStep ==
  \/ AuthorizeTool \/ OperatorAllows \/ OperatorDenies
  \/ \E denied \in HookDenials : PreHook(denied) \/ PostHook(denied)
  \/ \E state \in {"plus", "zero", "minus"} : ExecuteTool(state)
  \/ ExecuteErrs \/ GapRecovered \/ GapHalts

TurnThread == ApiStep \/ ToolStep

(* The bounds on turns and requests stop the model, not the program. *)
Exhausted ==
  /\ \/ pc = "idle" /\ turns = MaxTurns
     \/ pc = "request" /\ requests = MaxRequests
  /\ UNCHANGED vars

Next == Operator \/ TurnThread \/ Exhausted

Spec == Init /\ [][Next]_vars

(* The turn's thread is scheduled, the API call returns or fails, the tool *)
(* and the hooks end and the operator answers a prompt.                    *)
FairSpec == Spec /\ WF_vars(TurnThread)

--------------------------------------------------------------------------------
(* Reading a session. *)

IsAssistant(i) == session[i].kind = "assistant"

Increasing(ids) == \A i, j \in DOMAIN ids : i < j => ids[i] < ids[j]

(* A message the for loop wrote about a tool use. *)
AboutTool(message) == message.kind \in {"result", "recovery", "reflection"}

(* The loop is through with the use: it is answered, or the model is told  *)
(* to ask again and the use stays without a result.                        *)
DealsWith(message, use) ==
  AboutTool(message) /\ (message.kind = "result" => message.answers = use.id)

(* A halt, or a tool that failed to run: the rest of the reply is dropped. *)
DropsRest(message) == message.kind = "reflection" \/ message.why = "halt"

(* What the loop still owes after the d messages that follow the reply at i. *)
Owed(messages, i, d) ==
  IF d > 0 /\ DropsRest(messages[i + d])
  THEN <<>>
  ELSE SubSeq(messages[i].uses, d + 1, Len(messages[i].uses))

(* The loop wrote exactly d messages about the reply at i, directly behind *)
(* it, the k-th about its k-th use; what it still owes is held, and is     *)
(* nothing once another message follows.                                   *)
FollowedUp(messages, i, d, held) ==
  /\ i + d <= Len(messages)
  /\ \A k \in 1 .. d : DealsWith(messages[i + k], messages[i].uses[k])
  /\ \A k \in 1 .. d - 1 : ~DropsRest(messages[i + k])
  /\ i + d < Len(messages) => ~AboutTool(messages[i + d + 1])
  /\ Owed(messages, i, d) = IF i + d = Len(messages) THEN held ELSE <<>>

(* The message at j belongs to the reply at i. *)
Behind(messages, i, j) ==
  messages[i].kind = "assistant" /\ \A k \in i + 1 .. j : AboutTool(messages[k])

(* The message at j is what a compaction left of the reply it cut through. *)
CutOff(messages, j) ==
  messages[1].kind = "summary" /\ \A k \in 2 .. j : AboutTool(messages[k])

--------------------------------------------------------------------------------
(* Safety. *)

(* No tool use of any reply still in the conversation is forgotten, dealt  *)
(* with twice or mistaken for another, whatever mix of refusals, hooks,    *)
(* outcomes, recoveries and halts its tools meet.                          *)
EveryUseDealtWith ==
  \A i \in DOMAIN session :
    IsAssistant(i) =>
      \E d \in 0 .. Len(session[i].uses) : FollowedUp(session, i, d, pending)

(* A result stands behind the reply that asked for it; only directly       *)
(* behind the summary of a compaction may that reply be missing.           *)
ResultsHaveTheirReply ==
  \A j \in DOMAIN session :
    session[j].kind = "result" =>
      CutOff(session, j) \/ \E i \in 1 .. j - 1 : Behind(session, i, j)

(* A request never ends with the model's own words: the loop goes round    *)
(* only after writing something for the model to react to.                 *)
RequestEndsWithInput ==
  pc \in {"request", "waiting"} =>
    /\ session # <<>>
    /\ session[Len(session)].kind \in {"user", "result", "recovery"}

(* What the loop makes of the tool uses of a reply, with nothing exempt.   *)
(* It is less than an API asks that wants a result for every use and a use *)
(* for every result: a use that was recovered, that failed to run or that  *)
(* was dropped has no result, and neither has a cut off result its use.    *)
EveryUseIsFollowedUp ==
  EveryUseDealtWith /\ ResultsHaveTheirReply /\ RequestEndsWithInput

(* A tool use the conversation reports as refused by the policy, by the    *)
(* operator or by a pre-tool hook has not run and will not run.            *)
RefusedNeverRuns ==
  \A i \in DOMAIN session, k \in DOMAIN executed :
    session[i].why \in {"denied", "hook"} => session[i].answers # executed[k]

(* No tool use runs twice, and tools run in the order they were asked for: *)
(* a recovery from state 0 does not run the tool again by itself.          *)
ToolsRunOnceInOrder == Increasing(executed)

(* Whatever ran was within the mode, or the operator said yes to it.       *)
OnlyPermittedRuns ==
  \A i \in DOMAIN session : \A u \in DOMAIN session[i].uses :
    LET use == session[i].uses[u] IN
    (\E k \in DOMAIN executed : executed[k] = use.id) =>
      \/ mode = "Allow"
      \/ Rank(RequiredMode(use.tool)) <= Rank(mode)
      \/ use.id \in approved

(* After a turn that ran to its end the last message is the model's answer,*)
(* compaction or not: run_loop and the one-shot printers read it there.    *)
LastWordSurvives ==
  pc = "idle" /\ outcome = "done" =>
    /\ IsAssistant(Len(session))
    /\ session[Len(session)].uses = <<>>

(* Until a compaction, the tracker of the running program is the one that  *)
(* from_session rebuilds when the saved session is resumed, wrap-around of *)
(* the counters included: a dropped reply leaves no usage behind.          *)
UsageSurvivesResume ==
  (\A i \in DOMAIN session : session[i].kind # "summary")
    => usage = TrackerOf(session)

(* The API is never asked more than max_iterations times for each prompt   *)
(* typed, over any sequence of turns that end, fail or are cancelled.      *)
RequestBudget == requests <= turns * MaxIterations

(* History is append-only; the one exception is the end of a turn whose    *)
(* latest usage reached the threshold, which leaves a summary followed by  *)
(* the recent messages, unchanged and in order.                            *)
HistoryGrowsOrCompacts ==
  [][ \/ session' = Append(session, session'[Len(session')])
      \/ /\ pc = "finish" /\ outcome' = "done"
         /\ usage.latest >= Threshold
         /\ Len(session') <= Len(session)
         /\ session'[1] = Plain("summary")
         /\ \A k \in 0 .. PreserveRecent - 1 :
              session'[Len(session') - k] = session[Len(session) - k]
    ]_session

(* While the cancel flag stays up the conversation learns nothing from the *)
(* model: a reply in flight when ESC was pressed is dropped with its usage *)
(* and its tool uses.                                                      *)
CancelledLearnsNothing ==
  [][cancelled /\ cancelled' => nextId' = nextId /\ usage' = usage]_vars

--------------------------------------------------------------------------------
(* Liveness. *)

(* Every turn ends: no path through authorisation, hooks, state 0 or       *)
(* cancellation leaves run_turn without a next step.                       *)
TurnEnds == pc # "idle" ~> pc = "idle"
================================================================================
