------------------------------- MODULE TuiTurn -------------------------------
(***************************************************************************)
(* The full-screen client.  Three threads share a screen state, a cancel   *)
(* flag and two channels: the TUI thread takes its events one at a time,   *)
(* whoever sent them; the main thread takes what was typed, runs commands  *)
(* and turns; and each turn has a thread of its own, which may ask the     *)
(* operator about a tool.  The operator presses keys when he likes.        *)
(*                                                                         *)
(* A reply channel is closed when its sender is dropped: a question is     *)
(* open as long as it is in the queue or in the popup, and a handover of   *)
(* the terminal as long as it is in the queue.                             *)
(***************************************************************************)
EXTENDS Naturals, Sequences

CONSTANTS
  Inputs,       \* the kinds of lines the operator types
  Tools,        \* the tools a model may ask for
  Shells,       \* the shells among them
  Talk,         \* those that only tell the operator something: SendUserMessage, Brief
  StartModes,   \* the permission modes the client may be started in
  Choices,      \* the answers he gives
  NoQuestion,   \* no popup on the screen
  MaxKeys,      \* bound: keys pressed and lines typed, answers not counted
  MaxAhead,     \* bound: events the operator may be ahead of the client
  MaxCalls,     \* bound: tool calls, over all turns
  MaxFaults     \* bound: saves, rebuilds and drawings that fail, turns that panic

Slash == {"permissions", "model", "plan", "command", "exit"}

ASSUME TuiAssumption ==
  /\ Inputs \subseteq Slash \cup {"chat", "at"}
  /\ Shells \subseteq Tools /\ Talk \subseteq Tools
  /\ StartModes \subseteq {"read-only", "workspace-write", "danger-full-access"}
  /\ Choices \subseteq {"yes", "session", "no"}
  /\ NoQuestion \notin [id : Nat, tool : Tools]
  /\ MaxKeys \in Nat /\ MaxAhead \in Nat \ {0} /\ MaxCalls \in Nat /\ MaxFaults \in Nat

VARIABLES
  events,    \* the channel of the TUI thread
  submits,   \* the channel of the main thread
  ui,        \* TuiState, and who has the terminal
  flag,      \* cancel_flag
  main,      \* the main thread
  turn,      \* the thread of the turn
  settings,  \* the permission mode, what the screen says, what the runtime uses
  consents,  \* history: the answers given to the popup on the screen
  granted,   \* history: the questions answered with Allow
  spent      \* how much of the bounds is used

vars == <<events, submits, ui, flag, main, turn, settings, consents, granted, spent>>

--------------------------------------------------------------------------------
Question == [id : 1 .. MaxCalls, tool : Tools]
Keys == [kind : {"Esc", "CtrlC"}] \cup [kind : {"Choose"}, choice : Choices]
          \cup [kind : {"Submit"}, input : Inputs]
Events == Keys \cup [kind : {"Request"}, about : Question]
            \cup [kind : {"Response"}, choice : Choices \cup {"no"}, about : Question]
            \cup [kind : {"Suspend", "Resume", "Quit", "QuitWithReport"}]
Modes == {"read-only", "workspace-write", "danger-full-access"}

Screen ==
  [now      : {"up", "suspended", "report", "gone"},
   working  : BOOLEAN,
   popup    : Question \cup {NoQuestion},   \* awaiting_tool_approval
   confirm  : BOOLEAN,                      \* quit_confirm
   approved : SUBSET Tools,                 \* session_approved_tools
   raw      : BOOLEAN,                      \* the terminal is in raw mode, on the other screen
   broken   : BOOLEAN]                      \* history: left because of the terminal

Main ==
  [pc       : {"recv", "lower", "forward", "join", "save", "ack", "command", "quit", "ended"}
                \cup Inputs,
   stranded : BOOLEAN,    \* history: an @ line since the last turn
   failed   : BOOLEAN]    \* history: left because a save failed

Turn ==
  [pc        : {"none", "top", "calling", "asking", "terminal", "granted", "over", "panicked"},
   question  : Question \cup {NoQuestion},
   cancelled : BOOLEAN,
   escaped   : BOOLEAN]   \* history: ESC raised the flag in this turn
NoTurn == [pc |-> "none", question |-> NoQuestion, cancelled |-> FALSE, escaped |-> FALSE]

TypeOK ==
  /\ events \in Seq(Events)
  /\ submits \in Seq(Inputs)
  /\ ui \in Screen
  /\ flag \in BOOLEAN
  /\ main \in Main
  /\ turn \in Turn
  /\ settings \in [mode : Modes, shown : Modes, policy : Modes, rebuilt : BOOLEAN]
  /\ consents \subseteq Question \X (Choices \cup {"no"})
  /\ granted \subseteq Question
  /\ spent \in [keys : 0 .. MaxKeys, calls : 0 .. MaxCalls, faults : 0 .. MaxFaults]

Init ==
  /\ events = <<>> /\ submits = <<>>
  /\ ui = [now |-> "up", working |-> FALSE, popup |-> NoQuestion, confirm |-> FALSE,
           approved |-> {}, raw |-> TRUE, broken |-> FALSE]
  /\ flag = FALSE
  /\ main = [pc |-> "recv", stranded |-> FALSE, failed |-> FALSE]
  /\ turn = NoTurn
  /\ settings \in {[mode |-> m, shown |-> m, policy |-> m, rebuilt |-> TRUE] : m \in StartModes}
  /\ consents = {} /\ granted = {}
  /\ spent = [keys |-> 0, calls |-> 0, faults |-> 0]

(* What a thread sends to a TUI that is gone is dropped on the spot. *)
Sent(e) == IF ui.now = "gone" THEN events ELSE Append(events, e)
Pending(kind) == \E i \in DOMAIN events : events[i].kind = kind

Fault ==
  /\ spent.faults < MaxFaults
  /\ spent' = [spent EXCEPT !.faults = @ + 1]

--------------------------------------------------------------------------------
(* The key thread, which is paused while a command has the terminal. *)
Press ==
  /\ ui.now \in {"up", "report"}
  /\ spent.keys < MaxKeys /\ Len(events) < MaxAhead
  /\ \E k \in [kind : {"Esc", "CtrlC"}] \cup [kind : {"Submit"}, input : Inputs] :
       events' = Append(events, k)
  /\ spent' = [spent EXCEPT !.keys = @ + 1]
  /\ UNCHANGED <<submits, ui, flag, main, turn, settings, consents, granted>>

AnswerPopup ==
  /\ ui.now = "up" /\ ui.popup # NoQuestion
  /\ Len(events) < MaxAhead
  /\ \E c \in Choices : events' = Append(events, [kind |-> "Choose", choice |-> c])
  /\ UNCHANGED <<submits, ui, flag, main, turn, settings, consents, granted, spent>>

--------------------------------------------------------------------------------
(* The TUI thread. *)
Taken == Head(events)

Respond(choice) ==
  /\ ui.popup # NoQuestion
  /\ events' = Append(Tail(events), [kind |-> "Response", choice |-> choice, about |-> ui.popup])
  /\ consents' = consents \cup {<<ui.popup, choice>>}
  /\ UNCHANGED <<submits, flag, turn, granted>>

KeyEsc ==
  /\ Taken.kind = "Esc"
  /\ UNCHANGED ui
  /\ \/ Respond("no")
     \/ /\ ui.popup = NoQuestion
        /\ flag' = (flag \/ ui.working)
        /\ turn' = [turn EXCEPT !.escaped = @ \/ (ui.working /\ turn.pc # "none")]
        /\ events' = Tail(events)
        /\ UNCHANGED <<submits, consents, granted>>

(* Arrows and Enter in the popup; without one there is no text to send.    *)
KeyChoose ==
  /\ Taken.kind = "Choose"
  /\ UNCHANGED ui
  /\ \/ Respond(Taken.choice)
     \/ /\ ui.popup = NoQuestion
        /\ events' = Tail(events)
        /\ UNCHANGED <<submits, flag, turn, consents, granted>>

(* Text and Enter.  A popup takes the Enter for its preselected answer,    *)
(* which is Deny in the modes that show one, and leaves the text alone.    *)
KeySubmit ==
  /\ Taken.kind = "Submit"
  /\ \/ /\ Respond("no")
        /\ ui' = [ui EXCEPT !.confirm = FALSE]
     \/ /\ ui.popup = NoQuestion
        /\ ui' = [ui EXCEPT !.confirm = FALSE, !.working = @ \/ Taken.input \notin Slash]
        /\ submits' = Append(submits, Taken.input)
        /\ events' = Tail(events)
        /\ UNCHANGED <<flag, turn, consents, granted>>

KeyCtrlC ==
  /\ Taken.kind = "CtrlC"
  /\ ui' = [ui EXCEPT !.confirm = TRUE]
  /\ events' = Tail(events) \o (IF ui.confirm THEN <<[kind |-> "QuitWithReport"]>> ELSE <<>>)
  /\ UNCHANGED <<submits, flag, turn, consents, granted>>

(* Mutant: one tool allowed for the session allows them all. *)
ShowRequestUnless ==
  /\ Taken.kind = "Request"
  /\ events' = Tail(events)
  /\ IF ui.approved # {} \/ Taken.about.tool \in Talk
     THEN /\ turn' = [turn EXCEPT !.pc = "granted"]
          /\ granted' = granted \cup {Taken.about}
          /\ UNCHANGED ui
     ELSE /\ ui' = [ui EXCEPT !.popup = Taken.about]
          /\ UNCHANGED <<turn, granted>>
  /\ UNCHANGED <<submits, flag, consents>>

(* ToolApprovalRequestSync: talking to the operator is allowed unasked.    *)
ShowRequest ==
  /\ Taken.kind = "Request"
  /\ events' = Tail(events)
  /\ IF Taken.about.tool \in ui.approved \cup Talk
     THEN /\ turn' = [turn EXCEPT !.pc = "granted"]
          /\ granted' = granted \cup {Taken.about}
          /\ UNCHANGED ui
     ELSE /\ ui' = [ui EXCEPT !.popup = Taken.about]
          /\ UNCHANGED <<turn, granted>>
  /\ UNCHANGED <<submits, flag, consents>>

(* Mutant: the popup stays on the screen. *)
TakeResponseOnly ==
  /\ Taken.kind = "Response"
  /\ events' = Tail(events)
  /\ IF ui.popup = NoQuestion THEN UNCHANGED <<turn, granted>>
     ELSE /\ turn' = [turn EXCEPT !.pc = IF Taken.choice = "no" THEN "top" ELSE "granted"]
          /\ granted' = IF Taken.choice = "no" THEN granted ELSE granted \cup {ui.popup}
  /\ UNCHANGED <<submits, ui, flag, consents>>

(* ToolApprovalResponse, which is dropped when there is no popup.          *)
TakeResponse ==
  /\ Taken.kind = "Response"
  /\ events' = Tail(events)
  /\ IF ui.popup = NoQuestion THEN UNCHANGED <<ui, turn, granted>>
     ELSE /\ ui' = [ui EXCEPT !.popup = NoQuestion,
                              !.approved = IF Taken.choice = "session"
                                           THEN @ \cup {ui.popup.tool} ELSE @]
          /\ IF Taken.choice = "no"
             THEN turn' = [turn EXCEPT !.pc = "top"] /\ UNCHANGED granted
             ELSE /\ turn' = [turn EXCEPT !.pc = "granted"]
                  /\ granted' = granted \cup {ui.popup}
  /\ UNCHANGED <<submits, flag, consents>>

(* The way out of run_inner, and the way past it: drawing the screen or    *)
(* the report fails, or, before the first event, setting the terminal up.  *)
Leave == ui' = [ui EXCEPT !.now = "gone", !.raw = FALSE] /\ events' = <<>>

DrawFails ==
  /\ ui.now = "up"
  /\ Fault
  /\ ui' = [ui EXCEPT !.now = "gone", !.broken = TRUE]
  /\ events' = <<>>
  /\ UNCHANGED <<submits, flag, main, turn, settings, consents, granted>>

Handover ==
  /\ \/ /\ Taken.kind = "Suspend"
        /\ ui' = [ui EXCEPT !.now = "suspended", !.raw = FALSE] /\ events' = Tail(events)
     \/ Taken.kind = "Resume" /\ UNCHANGED ui /\ events' = Tail(events)
     \/ Taken.kind = "Quit" /\ Leave
     \/ /\ Taken.kind = "QuitWithReport"
        /\ ui' = [ui EXCEPT !.now = "report"] /\ events' = <<>>
  /\ UNCHANGED <<submits, flag, turn, consents, granted>>

Up ==
  /\ ui.now = "up"
  /\ \/ KeyEsc \/ KeyChoose \/ KeySubmit \/ KeyCtrlC
     \/ ShowRequest \/ TakeResponse \/ Handover

Suspended ==
  /\ ui.now = "suspended"
  /\ \/ /\ Taken.kind = "Resume"
        /\ ui' = [ui EXCEPT !.now = "up", !.raw = TRUE] /\ events' = Tail(events)
     \/ Taken.kind \in {"Quit", "QuitWithReport"} /\ Leave
     \/ /\ Taken.kind \notin {"Resume", "Quit", "QuitWithReport"}
        /\ events' = Tail(events) /\ UNCHANGED ui
  /\ UNCHANGED <<submits, flag, turn, consents, granted>>

(* The report card waits for a key. *)
Report ==
  /\ ui.now = "report"
  /\ \/ (Taken \in Keys \/ Taken.kind = "Quit") /\ Leave
     \/ Taken \notin Keys /\ Taken.kind # "Quit" /\ events' = Tail(events) /\ UNCHANGED ui
  /\ UNCHANGED <<submits, flag, turn, consents, granted>>

TuiStep ==
  /\ events # <<>>
  /\ Up \/ Suspended \/ Report
  /\ UNCHANGED <<main, settings, spent>>

--------------------------------------------------------------------------------
(* The main thread: every line raises the flag, and only a turn lowers it. *)
Goto(pc) == main' = [main EXCEPT !.pc = pc]

Receive ==
  /\ main.pc = "recv"
  /\ \/ /\ submits # <<>>
        /\ Goto(Head(submits)) /\ submits' = Tail(submits)
        /\ flag' = TRUE
     \/ /\ submits = <<>> /\ ui.now = "gone"
        /\ Goto("quit")
        /\ UNCHANGED <<submits, flag>>
  /\ UNCHANGED <<events, ui, turn, settings, consents, granted, spent>>

Exit ==
  /\ main.pc = "exit"
  /\ \/ Goto("quit") /\ events' = Sent([kind |-> "Quit"]) /\ UNCHANGED spent
     \/ Fault /\ main' = [main EXCEPT !.pc = "ended", !.failed = TRUE] /\ UNCHANGED events
  /\ UNCHANGED <<submits, ui, flag, turn, settings, consents, granted>>

(* Mutant: the program does not wait for the TUI. *)
LeaveTui ==
  /\ main.pc = "quit"
  /\ Goto("ended")
  /\ UNCHANGED <<events, submits, ui, flag, turn, settings, consents, granted, spent>>

JoinTui ==
  /\ main.pc = "quit" /\ ui.now = "gone"
  /\ Goto("ended")
  /\ UNCHANGED <<events, submits, ui, flag, turn, settings, consents, granted, spent>>

(* build_runtime_with_mcp: a failure leaves the old runtime in place.      *)
Rebuild(mode) ==
  \/ settings' = [settings EXCEPT !.policy = mode, !.rebuilt = TRUE] /\ UNCHANGED spent
  \/ Fault /\ UNCHANGED settings

(* Mutant: only the screen changes. *)
PermissionsShown ==
  /\ main.pc = "permissions"
  /\ \E mode \in Modes \ {settings.mode} :
       settings' = [settings EXCEPT !.mode = mode, !.shown = mode]
  /\ Goto("recv")
  /\ UNCHANGED <<events, submits, ui, flag, turn, consents, granted, spent>>

(* The mode and what the screen shows change before the runtime does.      *)
Permissions ==
  /\ main.pc = "permissions"
  /\ \E mode \in Modes \ {settings.mode} :
       \/ /\ settings' = [mode |-> mode, shown |-> mode, policy |-> mode, rebuilt |-> TRUE]
          /\ UNCHANGED spent
       \/ /\ Fault
          /\ settings' = [settings EXCEPT !.mode = mode, !.shown = mode, !.rebuilt = FALSE]
  /\ Goto("recv")
  /\ UNCHANGED <<events, submits, ui, flag, turn, consents, granted>>

Model ==
  /\ main.pc = "model"
  /\ Rebuild(settings.mode)
  /\ Goto("recv")
  /\ UNCHANGED <<events, submits, ui, flag, turn, consents, granted>>

(* @cd and @trust: the TUI has taken the line for the start of a turn.     *)
At ==
  /\ main.pc = "at"
  /\ main' = [main EXCEPT !.pc = "recv", !.stranded = TRUE]
  /\ UNCHANGED <<events, submits, ui, flag, turn, settings, consents, granted, spent>>

(* Any other command has the terminal to itself. *)
Suspend ==
  /\ main.pc = "command"
  /\ events' = Sent([kind |-> "Suspend"])
  /\ Goto("ack")
  /\ UNCHANGED <<submits, ui, flag, turn, settings, consents, granted, spent>>

RunCommand ==
  /\ main.pc = "ack" /\ ~Pending("Suspend")
  /\ events' = Sent([kind |-> "Resume"])
  /\ \/ Goto("recv") /\ UNCHANGED spent
     \/ Fault /\ main' = [main EXCEPT !.pc = "ended", !.failed = TRUE]
  /\ UNCHANGED <<submits, ui, flag, turn, settings, consents, granted>>

Show ==
  /\ main.pc \in {"chat", "plan"}
  /\ ui' = [ui EXCEPT !.working = TRUE]
  /\ Goto("lower")
  /\ UNCHANGED <<events, submits, flag, turn, settings, consents, granted, spent>>

(* Mutant: the flag stays as the line raised it. *)
LowerNot ==
  /\ main.pc = "lower"
  /\ turn' = [NoTurn EXCEPT !.pc = "top"]
  /\ Goto("forward")
  /\ UNCHANGED <<events, submits, ui, flag, settings, consents, granted, spent>>

Lower ==
  /\ main.pc = "lower"
  /\ flag' = FALSE
  /\ turn' = [NoTurn EXCEPT !.pc = "top"]
  /\ Goto("forward")
  /\ UNCHANGED <<events, submits, ui, settings, consents, granted, spent>>

(* Mutant: ESC does not end the wait. *)
ForwardToTheEnd ==
  /\ main.pc = "forward"
  /\ turn.pc = "over"
  /\ ui' = [ui EXCEPT !.working = FALSE]
  /\ Goto("join")
  /\ UNCHANGED <<events, submits, flag, turn, settings, consents, granted, spent>>

(* A turn that panics never sets done_flag. *)
Forward ==
  /\ main.pc = "forward"
  /\ turn.pc = "over" \/ flag
  /\ ui' = [ui EXCEPT !.working = @ /\ ~flag]
  /\ Goto("join")
  /\ UNCHANGED <<events, submits, flag, turn, settings, consents, granted, spent>>

Join ==
  /\ main.pc = "join" /\ turn.pc \in {"over", "panicked"}
  /\ ui' = [ui EXCEPT !.working = FALSE]
  /\ flag' = FALSE
  /\ turn' = NoTurn
  /\ main' = [main EXCEPT !.pc = "save", !.stranded = FALSE]
  /\ UNCHANGED <<events, submits, settings, consents, granted, spent>>

(* Compaction rebuilds the runtime; whether the save worked is ignored.    *)
Save ==
  /\ main.pc = "save"
  /\ Rebuild(settings.mode) \/ UNCHANGED <<settings, spent>>
  /\ Goto("recv")
  /\ UNCHANGED <<events, submits, ui, flag, turn, consents, granted>>

MainStep ==
  \/ Receive \/ Exit \/ JoinTui \/ Permissions \/ Model \/ At
  \/ Suspend \/ RunCommand \/ Show \/ Lower \/ Forward \/ Join \/ Save

--------------------------------------------------------------------------------
(* The turn: the flag is looked at before each request and after it.       *)
TurnTop ==
  /\ turn.pc = "top"
  /\ turn' = IF flag THEN [turn EXCEPT !.pc = "over", !.cancelled = TRUE]
             ELSE [turn EXCEPT !.pc = "calling"]
  /\ UNCHANGED <<events, granted, spent>>

TurnCancelled ==
  /\ turn.pc = "calling" /\ flag
  /\ turn' = [turn EXCEPT !.pc = "over", !.cancelled = TRUE]
  /\ UNCHANGED <<events, granted, spent>>

TurnOver ==
  /\ turn.pc = "calling" /\ ~flag
  /\ turn' = [turn EXCEPT !.pc = "over"]
  /\ UNCHANGED <<events, granted, spent>>

(* The policy registers no requirements, so every tool needs full access:  *)
(* workspace-write escalates to the prompter, which asks about shells, and *)
(* about everything when its own mode is read-only.                        *)
Asks(tool) ==
  /\ settings.policy = "workspace-write"
  /\ \/ settings.mode = "read-only"
     \/ settings.mode = "workspace-write" /\ tool \in Shells

Runs(tool) ==
  \/ settings.policy = "danger-full-access"
  \/ settings.policy = "workspace-write" /\ settings.mode # "read-only" /\ ~Asks(tool)

ToolCall ==
  /\ turn.pc = "calling" /\ ~flag
  /\ spent.calls < MaxCalls
  /\ spent' = [spent EXCEPT !.calls = @ + 1]
  /\ \E tool \in Tools :
       LET question == [id |-> spent.calls + 1, tool |-> tool] IN
       IF Asks(tool)
       THEN /\ turn' = [turn EXCEPT !.pc = IF ui.now = "gone" THEN "terminal" ELSE "asking",
                                    !.question = question]
            /\ events' = Sent([kind |-> "Request", about |-> question])
       ELSE /\ turn' = [turn EXCEPT !.pc = IF Runs(tool) THEN "granted" ELSE "top"]
            /\ UNCHANGED events
  /\ UNCHANGED granted

(* The question was dropped: neither on its way nor on the screen.         *)
QuestionLost ==
  /\ turn.pc = "asking"
  /\ ~Pending("Request") /\ ui.popup # turn.question
  /\ turn' = [turn EXCEPT !.pc = "top"]
  /\ UNCHANGED <<events, granted, spent>>

(* Without a TUI the question is put on the plain terminal.                *)
TerminalAnswers ==
  /\ turn.pc = "terminal"
  /\ \E pc \in {"granted", "top"} : turn' = [turn EXCEPT !.pc = pc]
  /\ UNCHANGED <<events, granted, spent>>

RunTool ==
  /\ turn.pc = "granted"
  /\ turn' = [turn EXCEPT !.pc = "top"]
  /\ UNCHANGED <<events, granted, spent>>

Panic ==
  /\ turn.pc \in {"calling", "granted"}
  /\ Fault
  /\ turn' = [turn EXCEPT !.pc = "panicked"]
  /\ UNCHANGED <<events, granted>>

TurnStep ==
  /\ \/ TurnTop \/ TurnCancelled \/ TurnOver \/ ToolCall
     \/ QuestionLost \/ TerminalAnswers \/ RunTool
  /\ UNCHANGED <<submits, ui, flag, main, settings, consents>>

TurnPanics == Panic /\ UNCHANGED <<submits, ui, flag, main, settings, consents>>

Next == Press \/ AnswerPopup \/ TuiStep \/ DrawFails \/ MainStep \/ TurnStep \/ TurnPanics

(* Threads that can go on do, calls to the model return, and the operator  *)
(* answers a popup sooner or later; no other key need ever be pressed.     *)
Fairness == WF_vars(TuiStep) /\ WF_vars(MainStep) /\ WF_vars(TurnStep) /\ WF_vars(AnswerPopup)

Spec == Init /\ [][Next]_vars
FairSpec == Spec /\ Fairness

--------------------------------------------------------------------------------
(* What the TUI lets run it lets run because the operator allowed that     *)
(* very call, or the tool for the session before: an answer that waits in  *)
(* the queue does not count for the next question (tui.rs:3352 takes it    *)
(* without comparing ids).  The tools that only talk to him are the        *)
(* exception, and he is never asked about one of those.                    *)
ConsentBeforeRun ==
  /\ \A c \in consents : c[1].tool \notin Talk
  /\ \A q \in granted :
    \/ q.tool \in Talk
    \/ <<q, "yes">> \in consents
    \/ \E p \in Question : p.tool = q.tool /\ p.id <= q.id /\ <<p, "session">> \in consents

(* The popup on the screen is the question the turn waits for, so that its *)
(* answer reaches somebody (awaiting_tool_approval holds the sender).      *)
PopupMeansAsking ==
  ui.popup # NoQuestion => turn.pc = "asking" /\ turn.question = ui.popup

(* The screen and the turn agree on what the operator is asked. *)
Inv == TypeOK /\ PopupMeansAsking

(* Every line raises the cancel flag before anything else (main.rs:1145);  *)
(* still no turn ends as cancelled unless ESC was pressed during it.       *)
NoStaleCancel == turn.cancelled => turn.escaped

(* With nothing to do the client says so: the spinner outlives a turn or a *)
(* command only after an @ line, which the TUI takes for a prompt.         *)
IdleShowsIdle ==
  main.pc = "recv" /\ submits = <<>> /\ ui.working => main.stranded

(* A command finds the terminal in ordinary mode, handed over by the TUI   *)
(* or left by it, except under the report card, which waits for a key; and *)
(* the program leaves it in ordinary mode unless saving the session        *)
(* failed.  Both presume that the terminal itself never failed: after a    *)
(* drawing that does, nobody resets it (tui.rs:2808, 3531).                *)
TerminalHandedOver ==
  ~ui.broken =>
    /\ main.pc = "ack" /\ ~Pending("Suspend") => ~ui.raw \/ ui.now = "report"
    /\ main.pc = "ended" => ~ui.raw \/ main.failed

(* The mode on the screen is the one tools are judged by, unless the       *)
(* operator was told that the runtime could not be rebuilt.                *)
PolicyIsShown ==
  main.pc = "forward" /\ settings.rebuilt => settings.policy = settings.shown

(* The spinner and the mode on the screen are those of the client behind.  *)
ScreenIsTrue == IdleShowsIdle /\ PolicyIsShown

(* A turn comes to an end and the client takes the next line, unless the   *)
(* TUI was left while its popup was open or the turn's thread panicked;    *)
(* ESC releases even that one.                                             *)
EveryTurnReturns ==
  /\ turn.pc # "none" ~> \/ turn.pc \in {"none", "panicked"}
                         \/ ui.popup # NoQuestion /\ ui.now # "up"
  /\ turn.pc = "panicked" /\ flag ~> turn.pc = "none"
================================================================================
