----------------------------- MODULE TuiTurnProofs -----------------------------
(***************************************************************************)
(* The safety of the full-screen client, for any tools, any number of      *)
(* keys, calls and faults, and a queue of any length.  What the two        *)
(* channels may hold carries most of the argument.                         *)
(***************************************************************************)
EXTENDS TuiTurn, TLAPS

(* What an event carries. *)
LEMMA EventParts ==
  ASSUME NEW e \in Events
  PROVE  /\ e.kind = "Choose" => e.choice \in Choices
         /\ e.kind = "Submit" => e.input \in Inputs
         /\ e.kind = "Request" => e.about \in Question
         /\ e.kind = "Response" => e.choice \in Choices \cup {"no"} /\ e.about \in Question
<1>1. CASE e \in [kind : {"Esc", "CtrlC"}]
  BY <1>1
<1>2. CASE e \in [kind : {"Choose"}, choice : Choices]
  BY <1>2
<1>3. CASE e \in [kind : {"Submit"}, input : Inputs]
  BY <1>3
<1>4. CASE e \in [kind : {"Request"}, about : Question]
  BY <1>4
<1>5. CASE e \in [kind : {"Response"}, choice : Choices \cup {"no"}, about : Question]
  BY <1>5
<1>6. CASE e \in [kind : {"Suspend", "Resume", "Quit", "QuitWithReport"}]
  BY <1>6
<1> QED
  BY <1>1, <1>2, <1>3, <1>4, <1>5, <1>6 DEF Events, Keys

(* No popup is not a question. *)
LEMMA NoQuestionIsNone == NoQuestion \notin Question
  BY TuiAssumption DEF Question

(* The events each thread may add to the channel of the TUI. *)
LEMMA EventsMade ==
  /\ \A k \in {"Suspend", "Resume", "Quit", "QuitWithReport"} : [kind |-> k] \in Events
  /\ \A q \in Question : [kind |-> "Request", about |-> q] \in Events
  /\ \A q \in Question, c \in Choices \cup {"no"} :
       [kind |-> "Response", choice |-> c, about |-> q] \in Events
  /\ Keys \subseteq Events
  BY DEF Events

(* What is sent is in the channel, or dropped. *)
LEMMA SentTyped ==
  ASSUME TypeOK, NEW e \in Events
  PROVE  Sent(e) \in Seq(Events)
  BY DEF TypeOK, Sent

(* A fault keeps to its bound. *)
LEMMA FaultTyped ==
  ASSUME TypeOK, Fault
  PROVE  spent' \in [keys : 0 .. MaxKeys, calls : 0 .. MaxCalls, faults : 0 .. MaxFaults]
<1> DEFINE S == [keys : 0 .. MaxKeys, calls : 0 .. MaxCalls, faults : 0 .. MaxFaults]
<1>1. spent \in S /\ MaxFaults \in Nat
  BY TuiAssumption DEF TypeOK
<1>2. spent.faults + 1 \in 0 .. MaxFaults
  BY <1>1 DEF Fault
<1> QED BY <1>1, <1>2 DEF Fault

(* The induction step of the type invariant, for the TUI thread. *)
LEMMA TuiStepTyped ==
  ASSUME TypeOK, TuiStep
  PROVE  TypeOK'
<1>1. /\ events \in Seq(Events) /\ events # <<>> /\ Taken \in Events
      /\ Tail(events) \in Seq(Events)
      /\ ui \in Screen /\ turn \in Turn /\ ui.popup \in Question \cup {NoQuestion}
      /\ UNCHANGED <<main, settings, spent>>
  BY DEF TypeOK, TuiStep, Taken, Screen
<1>2. ASSUME NEW c \in Choices \cup {"no"}, Respond(c)
      PROVE  /\ events' \in Seq(Events)
             /\ consents' \subseteq Question \X (Choices \cup {"no"})
             /\ UNCHANGED <<submits, flag, turn, granted>>
  <2>1. ui.popup \in Question
    BY <1>1, <1>2 DEF Respond
  <2>2. [kind |-> "Response", choice |-> c, about |-> ui.popup] \in Events
    BY <2>1, EventsMade
  <2> QED BY <1>1, <1>2, <2>1, <2>2 DEF Respond, TypeOK
<1>3. CASE KeyEsc
  <2>1. CASE Respond("no")
    BY <1>2, <1>3, <2>1, <1>1 DEF KeyEsc, TypeOK
  <2>2. CASE ~Respond("no")
    BY <1>1, <1>3, <2>2 DEF KeyEsc, TypeOK, Turn, Screen
  <2> QED BY <2>1, <2>2
<1>4. CASE KeyChoose
  <2>1. Taken.choice \in Choices
    BY <1>1, <1>4, EventParts DEF KeyChoose
  <2> QED BY <1>1, <1>2, <1>4, <2>1 DEF KeyChoose, TypeOK
<1>5. CASE KeySubmit
  <2>1. Taken.input \in Inputs
    BY <1>1, <1>5, EventParts DEF KeySubmit
  <2>2. ui' \in Screen
    BY <1>1, <1>5 DEF KeySubmit, Screen
  <2>3. CASE Respond("no")
    BY <1>1, <1>2, <2>2, <2>3 DEF TypeOK
  <2>4. CASE ~Respond("no")
    <3>1. /\ submits' = Append(submits, Taken.input) /\ events' = Tail(events)
          /\ UNCHANGED <<flag, turn, consents, granted>>
      BY <1>5, <2>4 DEF KeySubmit
    <3>2. submits' \in Seq(Inputs)
      BY <2>1, <3>1 DEF TypeOK
    <3> QED BY <1>1, <2>2, <3>1, <3>2 DEF TypeOK
  <2> QED BY <2>3, <2>4
<1>6. CASE KeyCtrlC
  <2>1. ui' \in Screen
    BY <1>1, <1>6 DEF KeyCtrlC, Screen
  <2>2. events' \in Seq(Events)
    <3>1. <<[kind |-> "QuitWithReport"]>> \in Seq(Events) /\ <<>> \in Seq(Events)
      BY EventsMade
    <3> QED BY <1>1, <1>6, <3>1 DEF KeyCtrlC
  <2> QED BY <1>1, <1>6, <2>1, <2>2 DEF KeyCtrlC, TypeOK
<1>7. CASE ShowRequest
  <2>1. Taken.about \in Question
    BY <1>1, <1>7, EventParts DEF ShowRequest
  <2>2. ui' \in Screen
    BY <1>1, <1>7, <2>1 DEF ShowRequest, Screen
  <2>3. turn' \in Turn
    BY <1>1, <1>7 DEF ShowRequest, Turn
  <2> QED BY <1>1, <1>7, <2>1, <2>2, <2>3 DEF ShowRequest, TypeOK
<1>8. CASE TakeResponse
  <2>1. CASE ui.popup = NoQuestion
    BY <1>1, <1>8, <2>1 DEF TakeResponse, TypeOK
  <2>2. CASE ui.popup # NoQuestion
    <3>1. ui.popup \in Question /\ ui.popup.tool \in Tools
      BY <1>1, <2>2 DEF Question
    <3>2. ui' \in Screen
      <4> DEFINE approved == IF Taken.choice = "session" THEN ui.approved \cup {ui.popup.tool}
                             ELSE ui.approved
      <4>1. approved \in SUBSET Tools
        BY <1>1, <3>1 DEF Screen
      <4>2. ui' = [ui EXCEPT !.popup = NoQuestion, !.approved = approved]
        BY <1>8, <2>2 DEF TakeResponse
      <4> HIDE DEF approved
      <4> QED BY <1>1, <4>1, <4>2 DEF Screen
    <3>3. turn' \in Turn
      BY <1>1, <1>8, <2>2 DEF TakeResponse, Turn
    <3> QED BY <1>1, <1>8, <2>2, <3>1, <3>2, <3>3 DEF TakeResponse, TypeOK
  <2> QED BY <2>1, <2>2
<1>9. CASE Handover \/ Suspended \/ Report
  <2>1. ui' \in Screen /\ events' \in Seq(Events)
    <3>1. \/ events' = Tail(events)
          \/ events' = <<>>
      BY <1>9 DEF Handover, Suspended, Report, Leave
    <3>2. \/ ui' = ui
          \/ \E now \in {"up", "suspended", "report", "gone"} : ui' = [ui EXCEPT !.now = now]
          \/ \E now \in {"up", "suspended", "report", "gone"}, raw \in BOOLEAN :
               ui' = [ui EXCEPT !.now = now, !.raw = raw]
      BY <1>9 DEF Handover, Suspended, Report, Leave
    <3>3. events' \in Seq(Events)
      <4>1. <<>> \in Seq(Events)
        OBVIOUS
      <4> QED BY <1>1, <3>1, <4>1
    <3>4. ui' \in Screen
      BY <1>1, <3>2 DEF Screen
    <3> QED BY <3>3, <3>4
  <2>2. UNCHANGED <<submits, flag, turn, consents, granted>>
    BY <1>9 DEF Handover, Suspended, Report
  <2> QED BY <1>1, <2>1, <2>2 DEF TypeOK
<1> QED
  BY <1>3, <1>4, <1>5, <1>6, <1>7, <1>8, <1>9 DEF TuiStep, Up

(* A turn that is none, or has just begun. *)
LEMMA NoTurnTyped == NoTurn \in Turn /\ [NoTurn EXCEPT !.pc = "top"] \in Turn
  BY DEF NoTurn, Turn

(* The same for the main thread. *)
LEMMA MainStepTyped ==
  ASSUME TypeOK, MainStep
  PROVE  TypeOK'
<1>1. /\ events \in Seq(Events) /\ submits \in Seq(Inputs) /\ ui \in Screen /\ flag \in BOOLEAN
      /\ main \in Main /\ turn \in Turn
      /\ settings \in [mode : Modes, shown : Modes, policy : Modes, rebuilt : BOOLEAN]
      /\ UNCHANGED <<consents, granted>>
  BY DEF TypeOK, MainStep, Receive, Exit, JoinTui, Permissions, Model, At, Suspend, RunCommand,
         Show, Lower, Forward, Join, Save
<1>2. events' \in Seq(Events)
  <2>1. \/ events' = events
        \/ \E k \in {"Suspend", "Resume", "Quit"} : events' = Sent([kind |-> k])
    BY DEF MainStep, Receive, Exit, JoinTui, Permissions, Model, At, Suspend, RunCommand,
           Show, Lower, Forward, Join, Save
  <2> QED BY <1>1, <2>1, EventsMade, SentTyped
<1>3. submits' \in Seq(Inputs) /\ main' \in Main
  <2>1. CASE Receive
    <3>1. CASE submits # <<>> /\ Goto(Head(submits)) /\ submits' = Tail(submits)
      <4>1. Head(submits) \in Inputs /\ Tail(submits) \in Seq(Inputs)
        BY <1>1, <3>1
      <4> QED BY <1>1, <3>1, <4>1 DEF Goto, Main
    <3>2. CASE Goto("quit") /\ UNCHANGED submits
      BY <1>1, <3>2 DEF Goto, Main
    <3> QED BY <2>1, <3>1, <3>2 DEF Receive
  <2>2. CASE ~Receive
    BY <1>1, <2>2 DEF MainStep, Goto, Main, Exit, JoinTui, Permissions, Model, At, Suspend,
                      RunCommand, Show, Lower, Forward, Join, Save
  <2> QED BY <2>1, <2>2
<1>4. ui' \in Screen
  <2>1. \/ ui' = ui
        \/ \E working \in BOOLEAN : ui' = [ui EXCEPT !.working = working]
    BY <1>1 DEF Screen, MainStep, Receive, Exit, JoinTui, Permissions, Model, At, Suspend,
                RunCommand, Show, Lower, Forward, Join, Save
  <2> QED BY <1>1, <2>1 DEF Screen
<1>5. flag' \in BOOLEAN /\ turn' \in Turn
  <2>1. flag' \in {flag, TRUE, FALSE} /\ turn' \in {turn, NoTurn, [NoTurn EXCEPT !.pc = "top"]}
    BY DEF MainStep, Receive, Exit, JoinTui, Permissions, Model, At, Suspend, RunCommand,
           Show, Lower, Forward, Join, Save
  <2>2. NoTurn \in Turn /\ [NoTurn EXCEPT !.pc = "top"] \in Turn
    BY NoTurnTyped
  <2> QED BY <1>1, <2>1, <2>2
<1>6. settings' \in [mode : Modes, shown : Modes, policy : Modes, rebuilt : BOOLEAN]
  <2>1. CASE Permissions
    <3>1. PICK mode \in Modes :
            \/ settings' = [mode |-> mode, shown |-> mode, policy |-> mode, rebuilt |-> TRUE]
            \/ settings' = [settings EXCEPT !.mode = mode, !.shown = mode, !.rebuilt = FALSE]
      BY <2>1 DEF Permissions
    <3>2. CASE settings' = [mode |-> mode, shown |-> mode, policy |-> mode, rebuilt |-> TRUE]
      BY <3>2
    <3>3. CASE settings' = [settings EXCEPT !.mode = mode, !.shown = mode, !.rebuilt = FALSE]
      BY <1>1, <3>3
    <3> QED BY <3>1, <3>2, <3>3
  <2>2. CASE ~Permissions
    <3>1. settings' = settings \/ settings' = [settings EXCEPT !.policy = settings.mode, !.rebuilt = TRUE]
      BY <2>2 DEF Rebuild, MainStep, Receive, Exit, JoinTui, Model, At, Suspend, RunCommand,
                  Show, Lower, Forward, Join, Save
    <3> QED BY <1>1, <3>1
  <2> QED BY <2>1, <2>2
<1>7. spent' \in [keys : 0 .. MaxKeys, calls : 0 .. MaxCalls, faults : 0 .. MaxFaults]
  <2>1. UNCHANGED spent \/ Fault
    BY DEF Rebuild, MainStep, Receive, Exit, JoinTui, Permissions, Model, At, Suspend, RunCommand,
           Show, Lower, Forward, Join, Save
  <2> QED BY <2>1, FaultTyped DEF TypeOK
<1> QED
  BY <1>1, <1>2, <1>3, <1>4, <1>5, <1>6, <1>7 DEF TypeOK

(* The same for the thread of the turn. *)
LEMMA TurnStepTyped ==
  ASSUME TypeOK, TurnStep \/ TurnPanics
  PROVE  TypeOK'
<1>1. /\ events \in Seq(Events) /\ turn \in Turn
      /\ UNCHANGED <<submits, ui, flag, main, settings, consents, granted>>
  BY DEF TypeOK, TurnStep, TurnPanics, TurnTop, TurnCancelled, TurnOver, ToolCall, QuestionLost,
         TerminalAnswers, RunTool, Panic
<1>2. CASE ToolCall
  <2>1. /\ spent \in [keys : 0 .. MaxKeys, calls : 0 .. MaxCalls, faults : 0 .. MaxFaults]
        /\ MaxCalls \in Nat
    BY TuiAssumption DEF TypeOK
  <2>2. spent.calls + 1 \in 1 .. MaxCalls /\ spent.calls + 1 \in 0 .. MaxCalls
    BY <1>2, <2>1 DEF ToolCall
  <2>3. spent' \in [keys : 0 .. MaxKeys, calls : 0 .. MaxCalls, faults : 0 .. MaxFaults]
    BY <1>2, <2>1, <2>2 DEF ToolCall
  <2>4. PICK tool \in Tools :
          LET question == [id |-> spent.calls + 1, tool |-> tool] IN
          IF Asks(tool)
          THEN /\ turn' = [turn EXCEPT !.pc = IF ui.now = "gone" THEN "terminal" ELSE "asking",
                                       !.question = question]
               /\ events' = Sent([kind |-> "Request", about |-> question])
          ELSE /\ turn' = [turn EXCEPT !.pc = IF Runs(tool) THEN "granted" ELSE "top"]
               /\ UNCHANGED events
    BY <1>2 DEF ToolCall
  <2> DEFINE question == [id |-> spent.calls + 1, tool |-> tool]
  <2>5. question \in Question
    BY <2>2 DEF Question
  <2>6. Sent([kind |-> "Request", about |-> question]) \in Seq(Events)
    BY <2>5, EventsMade, SentTyped
  <2>7. turn' \in Turn /\ events' \in Seq(Events)
    <3> HIDE DEF question
    <3>1. CASE Asks(tool)
      BY <1>1, <2>4, <2>5, <2>6, <3>1 DEF Turn, question
    <3>2. CASE ~Asks(tool)
      BY <1>1, <2>4, <3>2 DEF Turn
    <3> QED BY <3>1, <3>2
  <2> QED BY <1>1, <2>3, <2>7 DEF TypeOK
<1>3. CASE ~ToolCall
  <2>1. turn' \in Turn /\ UNCHANGED events
    BY <1>1, <1>3 DEF Turn, TurnStep, TurnPanics, TurnTop, TurnCancelled, TurnOver, QuestionLost,
                      TerminalAnswers, RunTool, Panic
  <2>2. UNCHANGED spent \/ Fault
    BY <1>3 DEF TurnStep, TurnPanics, TurnTop, TurnCancelled, TurnOver, QuestionLost,
                TerminalAnswers, RunTool, Panic
  <2> QED BY <1>1, <2>1, <2>2, FaultTyped DEF TypeOK
<1> QED
  BY <1>2, <1>3

(* The channels, the screen and the threads keep their types. *)
LEMMA TypeInvariant == Spec => []TypeOK
<1>1. Init => TypeOK
  <2> SUFFICES ASSUME Init PROVE TypeOK
    OBVIOUS
  <2>1. events \in Seq(Events) /\ submits \in Seq(Inputs)
    BY DEF Init
  <2>2. ui \in Screen /\ flag \in BOOLEAN /\ main \in Main
    BY DEF Init, Screen, Main
  <2>3. settings \in [mode : Modes, shown : Modes, policy : Modes, rebuilt : BOOLEAN]
    <3>1. PICK m \in StartModes :
            settings = [mode |-> m, shown |-> m, policy |-> m, rebuilt |-> TRUE]
      BY DEF Init
    <3>2. m \in Modes
      BY TuiAssumption DEF Modes
    <3> QED BY <3>1, <3>2
  <2>4. spent \in [keys : 0 .. MaxKeys, calls : 0 .. MaxCalls, faults : 0 .. MaxFaults]
    BY TuiAssumption DEF Init
  <2>5. turn \in Turn /\ consents = {} /\ granted = {}
    BY NoTurnTyped DEF Init
  <2> QED BY <2>1, <2>2, <2>3, <2>4, <2>5 DEF TypeOK
<1>2. TypeOK /\ [Next]_vars => TypeOK'
  <2> SUFFICES ASSUME TypeOK, [Next]_vars PROVE TypeOK'
    OBVIOUS
  <2>1. CASE Press
    <3>1. PICK k \in [kind : {"Esc", "CtrlC"}] \cup [kind : {"Submit"}, input : Inputs] :
            events' = Append(events, k)
      BY <2>1 DEF Press
    <3>2. k \in Events
      BY EventsMade DEF Keys
    <3>3. events' \in Seq(Events)
      BY <3>1, <3>2 DEF TypeOK
    <3>4. /\ spent \in [keys : 0 .. MaxKeys, calls : 0 .. MaxCalls, faults : 0 .. MaxFaults]
          /\ MaxKeys \in Nat /\ spent.keys < MaxKeys
      BY <2>1, TuiAssumption DEF TypeOK, Press
    <3>5. spent' \in [keys : 0 .. MaxKeys, calls : 0 .. MaxCalls, faults : 0 .. MaxFaults]
      BY <2>1, <3>4 DEF Press
    <3> QED BY <2>1, <3>3, <3>5 DEF TypeOK, Press
  <2>2. CASE AnswerPopup
    <3>1. \A c \in Choices : [kind |-> "Choose", choice |-> c] \in Events
      BY EventsMade DEF Keys
    <3> QED BY <2>2, <3>1 DEF TypeOK, AnswerPopup
  <2>3. CASE TuiStep
    BY <2>3, TuiStepTyped
  <2>4. CASE MainStep
    BY <2>4, MainStepTyped
  <2>5. CASE TurnStep \/ TurnPanics
    BY <2>5, TurnStepTyped
  <2>6. CASE UNCHANGED vars
    BY <2>6 DEF TypeOK, vars
  <2>7. CASE DrawFails
    <3>1. ui' \in Screen
      BY <2>7 DEF DrawFails, TypeOK, Screen
    <3>2. events' \in Seq(Events)
      BY <2>7 DEF DrawFails
    <3>3. spent' \in [keys : 0 .. MaxKeys, calls : 0 .. MaxCalls, faults : 0 .. MaxFaults]
      BY <2>7, FaultTyped DEF DrawFails
    <3> QED BY <2>7, <3>1, <3>2, <3>3 DEF DrawFails, TypeOK
  <2> QED
    BY <2>1, <2>2, <2>3, <2>4, <2>5, <2>6, <2>7 DEF Next
<1> QED
  BY <1>1, <1>2, PTL DEF Spec

--------------------------------------------------------------------------------
(* What the channel may hold.  A question on its way is the one the turn   *)
(* waits for, and there is no popup yet; so the answers before it in the   *)
(* queue find none, and are dropped, before it is shown.                   *)
Is(i, kind) == events[i].kind = kind

RequestIsCurrent ==
  \A i \in DOMAIN events : Is(i, "Request") =>
    turn.pc = "asking" /\ events[i].about = turn.question /\ ui.popup = NoQuestion

OneRequest ==
  \A i, j \in DOMAIN events : Is(i, "Request") /\ Is(j, "Request") => i = j

AnswersAreOlder ==
  \A i, j \in DOMAIN events : Is(i, "Request") /\ Is(j, "Response") => j < i

AnswersWereGiven ==
  \A i \in DOMAIN events : Is(i, "Response") =>
    /\ <<events[i].about, events[i].choice>> \in consents
    /\ ui.popup # NoQuestion => events[i].about = ui.popup

QueueInv == RequestIsCurrent /\ OneRequest /\ AnswersAreOlder /\ AnswersWereGiven

(* Questions are numbered in the order they are asked. *)
IdsGrow ==
  /\ turn.pc = "asking" => turn.question \in Question /\ turn.question.id = spent.calls
  /\ \A x \in consents : x[1].id <= spent.calls

SessionsWereGiven ==
  \A tool \in ui.approved : \E p \in Question : p.tool = tool /\ <<p, "session">> \in consents

(* The main thread waits while there is a turn, and only ESC raises the    *)
(* flag during it.                                                         *)
MainWaits ==
  turn.pc # "none" => main.pc \in {"forward", "join"} /\ (flag => turn.escaped)

(* Nobody is asked whether he may be told something. *)
NoTalkAsked == ui.popup # NoQuestion => ui.popup.tool \notin Talk

AskInv ==
  /\ NoTalkAsked
  /\ QueueInv /\ IdsGrow /\ SessionsWereGiven /\ MainWaits
  /\ PopupMeansAsking /\ ConsentBeforeRun /\ NoStaleCancel

(* Taking the first of a sequence, and adding a last one. *)
LEMMA TailOf ==
  ASSUME NEW S, NEW s \in Seq(S), s # <<>>
  PROVE  /\ DOMAIN Tail(s) \subseteq Nat
         /\ \A i \in DOMAIN Tail(s) : i + 1 \in DOMAIN s /\ Tail(s)[i] = s[i + 1]
         /\ 1 \in DOMAIN s /\ s[1] = Head(s)
  OBVIOUS

LEMMA AppendOf ==
  ASSUME NEW S, NEW s \in Seq(S), NEW e \in S, NEW i \in DOMAIN Append(s, e)
  PROVE  \/ i \in DOMAIN s /\ Append(s, e)[i] = s[i]
         \/ i = Len(s) + 1 /\ Append(s, e)[i] = e
  OBVIOUS

(* The queue stays right when its first event is taken, or all are dropped. *)
LEMMA TakeKeepsQueue ==
  ASSUME TypeOK, QueueInv, events # <<>>, events' = Tail(events) \/ events' = <<>>,
         consents \subseteq consents',
         ui'.popup = ui.popup \/ ui'.popup = NoQuestion,
         UNCHANGED <<turn.pc, turn.question>>
  PROVE  QueueInv'
<1>1. CASE events' = <<>>
  BY <1>1 DEF QueueInv, RequestIsCurrent, OneRequest, AnswersAreOlder, AnswersWereGiven
<1>2. CASE events' = Tail(events)
  <2>1. /\ DOMAIN events' \subseteq Nat
        /\ \A i \in DOMAIN events' : i + 1 \in DOMAIN events /\ events'[i] = events[i + 1]
    BY <1>2, TailOf DEF TypeOK
  <2>2. RequestIsCurrent' /\ AnswersWereGiven'
    BY <2>1 DEF QueueInv, RequestIsCurrent, AnswersWereGiven, Is
  <2>3. OneRequest' /\ AnswersAreOlder'
    BY <2>1 DEF QueueInv, OneRequest, AnswersAreOlder, Is
  <2> QED BY <2>2, <2>3 DEF QueueInv
<1> QED BY <1>1, <1>2

(* Nor does an event that is no question and no answer disturb it. *)
LEMMA AppendKeepsQueue ==
  ASSUME TypeOK, QueueInv, NEW e \in Events, e.kind \notin {"Request", "Response"},
         events' = Append(events, e), consents \subseteq consents',
         UNCHANGED <<ui.popup, turn.pc, turn.question>>
  PROVE  QueueInv'
<1>1. \A i \in DOMAIN events' : events'[i].kind \in {"Request", "Response"} =>
        i \in DOMAIN events /\ events'[i] = events[i]
  BY AppendOf DEF TypeOK
<1>2. RequestIsCurrent' /\ AnswersWereGiven'
  BY <1>1 DEF QueueInv, RequestIsCurrent, AnswersWereGiven, Is
<1>3. OneRequest' /\ AnswersAreOlder'
  BY <1>1 DEF QueueInv, OneRequest, AnswersAreOlder, Is
<1> QED BY <1>2, <1>3 DEF QueueInv

(* What a step that neither asks, answers nor ends a turn keeps. *)
LEMMA NoAnswerKeepsAsking ==
  ASSUME TypeOK, AskInv, QueueInv', ui'.popup = ui.popup, ui'.approved = ui.approved,
         UNCHANGED <<main, turn.pc, turn.question, turn.cancelled, consents, granted, spent>>,
         turn'.escaped = turn.escaped \/ turn'.escaped = TRUE,
         flag' => flag \/ turn'.escaped \/ turn.pc = "none"
  PROVE  AskInv'
<1>1. IdsGrow' /\ SessionsWereGiven'
  BY DEF AskInv, IdsGrow, SessionsWereGiven
<1>2. MainWaits' /\ NoStaleCancel'
  BY DEF AskInv, MainWaits, NoStaleCancel
<1>3. PopupMeansAsking' /\ ConsentBeforeRun' /\ NoTalkAsked'
  BY DEF AskInv, PopupMeansAsking, ConsentBeforeRun, NoTalkAsked
<1> QED BY <1>1, <1>2, <1>3 DEF AskInv

(* A key that answers the popup adds its answer to the queue, where there  *)
(* is no question.                                                         *)
LEMMA RespondKeepsAsking ==
  ASSUME TypeOK, AskInv, events # <<>>, NEW c \in Choices \cup {"no"}, Respond(c),
         ui'.popup = ui.popup, ui'.approved = ui.approved, UNCHANGED <<main, spent>>
  PROVE  AskInv'
<1> DEFINE answer == [kind |-> "Response", choice |-> c, about |-> ui.popup]
<1>1. /\ events \in Seq(Events) /\ Tail(events) \in Seq(Events)
      /\ ui.popup # NoQuestion /\ ui.popup \in Question
      /\ events' = Append(Tail(events), answer)
      /\ consents' = consents \cup {<<ui.popup, c>>}
      /\ UNCHANGED <<flag, turn, granted>>
  BY DEF TypeOK, Screen, Respond
<1>2. answer \in Events
  BY <1>1, EventsMade
<1>3. \A i \in DOMAIN events : ~Is(i, "Request")
  BY <1>1 DEF AskInv, QueueInv, RequestIsCurrent
<1>4. \A i \in DOMAIN events' :
        \/ i + 1 \in DOMAIN events /\ events'[i] = events[i + 1]
        \/ events'[i] = answer
  <2> HIDE DEF answer
  <2> QED BY <1>1, <1>2, TailOf, AppendOf
<1>5. \A i \in DOMAIN events' : events'[i].kind # "Request"
  BY <1>3, <1>4 DEF Is
<1>6. AnswersWereGiven'
  <2> SUFFICES ASSUME NEW i \in DOMAIN events', events'[i].kind = "Response"
               PROVE  /\ <<events'[i].about, events'[i].choice>> \in consents'
                      /\ ui'.popup # NoQuestion => events'[i].about = ui'.popup
    BY DEF AnswersWereGiven, Is
  <2>1. CASE events'[i] = answer
    BY <1>1, <2>1
  <2>2. CASE i + 1 \in DOMAIN events /\ events'[i] = events[i + 1]
    BY <1>1, <2>2 DEF AskInv, QueueInv, AnswersWereGiven, Is
  <2> QED BY <1>4, <2>1, <2>2
<1>7. QueueInv'
  BY <1>5, <1>6 DEF QueueInv, RequestIsCurrent, OneRequest, AnswersAreOlder, Is
<1>8. IdsGrow' /\ SessionsWereGiven'
  <2>1. ui.popup.id = spent.calls
    BY <1>1 DEF AskInv, IdsGrow, PopupMeansAsking
  <2>2. spent.calls \in Nat
    BY DEF TypeOK
  <2>3. IdsGrow'
    BY <1>1, <2>1, <2>2 DEF AskInv, IdsGrow
  <2>4. SessionsWereGiven'
    BY <1>1 DEF AskInv, SessionsWereGiven
  <2> QED BY <2>3, <2>4
<1>9. ConsentBeforeRun'
  <2>1. ui.popup.tool \notin Talk
    BY <1>1 DEF AskInv, NoTalkAsked
  <2>2. \A x \in consents' : x[1].tool \notin Talk
    BY <1>1, <2>1 DEF AskInv, ConsentBeforeRun
  <2> QED BY <1>1, <2>2 DEF AskInv, ConsentBeforeRun
<1>10. MainWaits' /\ PopupMeansAsking' /\ NoStaleCancel' /\ NoTalkAsked'
  BY <1>1 DEF AskInv, MainWaits, PopupMeansAsking, NoStaleCancel, NoTalkAsked
<1> QED BY <1>7, <1>8, <1>9, <1>10 DEF AskInv

(* The question at the head of the queue is answered from the tools        *)
(* approved for the session, or becomes the popup.                         *)
LEMMA ShowKeepsAsking ==
  ASSUME TypeOK, AskInv, events # <<>>, ShowRequest, UNCHANGED <<main, spent>>
  PROVE  AskInv'
<1>1. /\ events \in Seq(Events) /\ events' = Tail(events)
      /\ ui \in Screen /\ turn \in Turn
      /\ Is(1, "Request") /\ 1 \in DOMAIN events /\ Taken = events[1]
      /\ UNCHANGED <<flag, consents>>
  BY TailOf DEF TypeOK, ShowRequest, Taken, Is
<1>2. turn.pc = "asking" /\ Taken.about = turn.question /\ ui.popup = NoQuestion
  BY <1>1 DEF AskInv, QueueInv, RequestIsCurrent
<1>3. turn.question \in Question /\ turn.question.id = spent.calls /\ spent.calls \in Nat
  BY <1>2 DEF AskInv, IdsGrow, TypeOK
<1>4. /\ DOMAIN events' \subseteq Nat
      /\ \A i \in DOMAIN events' : i + 1 \in DOMAIN events /\ events'[i] = events[i + 1]
  BY <1>1, TailOf
<1>5. \A i \in DOMAIN events' : events'[i].kind \notin {"Request", "Response"}
  <2> SUFFICES ASSUME NEW i \in DOMAIN events', events'[i].kind \in {"Request", "Response"}
               PROVE  FALSE
    OBVIOUS
  <2>1. i + 1 \in DOMAIN events /\ events'[i] = events[i + 1] /\ i \in Nat /\ i # 0
    BY <1>1, <1>4
  <2>2. CASE events'[i].kind = "Request"
    BY <1>1, <2>1, <2>2 DEF AskInv, QueueInv, OneRequest, Is
  <2>3. CASE events'[i].kind = "Response"
    BY <1>1, <2>1, <2>3 DEF AskInv, QueueInv, AnswersAreOlder, Is
  <2> QED BY <2>2, <2>3
<1>6. QueueInv'
  BY <1>5 DEF QueueInv, RequestIsCurrent, OneRequest, AnswersAreOlder, AnswersWereGiven, Is
<1>7. CASE Taken.about.tool \in ui.approved \cup Talk
  <2>1. turn' = [turn EXCEPT !.pc = "granted"] /\ granted' = granted \cup {turn.question} /\ UNCHANGED ui
    BY <1>2, <1>7 DEF ShowRequest
  <2>2. /\ IdsGrow' /\ SessionsWereGiven' /\ MainWaits' /\ NoStaleCancel' /\ PopupMeansAsking'
        /\ NoTalkAsked'
    BY <1>1, <1>2, <2>1 DEF AskInv, IdsGrow, SessionsWereGiven, MainWaits, NoStaleCancel,
                            PopupMeansAsking, Turn, NoTalkAsked
  <2>3. turn.question.tool \notin Talk =>
          \E p \in Question : /\ p.tool = turn.question.tool /\ p.id <= turn.question.id
                             /\ <<p, "session">> \in consents
    <3> SUFFICES ASSUME turn.question.tool \notin Talk
                 PROVE  \E p \in Question :
                          /\ p.tool = turn.question.tool /\ p.id <= turn.question.id
                          /\ <<p, "session">> \in consents
      OBVIOUS
    <3>1. PICK p \in Question : p.tool = turn.question.tool /\ <<p, "session">> \in consents
      BY <1>2, <1>7 DEF AskInv, SessionsWereGiven
    <3>2. <<p, "session">>[1].id <= spent.calls
      BY <3>1 DEF AskInv, IdsGrow
    <3> QED BY <1>3, <3>1, <3>2
  <2>4. ConsentBeforeRun'
    BY <1>1, <2>1, <2>3 DEF AskInv, ConsentBeforeRun
  <2> QED BY <1>6, <2>2, <2>4 DEF AskInv
<1>8. CASE Taken.about.tool \notin ui.approved \cup Talk
  <2>1. ui' = [ui EXCEPT !.popup = turn.question] /\ UNCHANGED <<turn, granted>>
    BY <1>2, <1>8 DEF ShowRequest
  <2>2. ui'.popup = turn.question /\ ui'.approved = ui.approved
    BY <1>1, <2>1 DEF Screen
  <2>3. /\ IdsGrow' /\ SessionsWereGiven' /\ MainWaits' /\ NoStaleCancel' /\ PopupMeansAsking'
        /\ NoTalkAsked'
    BY <1>1, <1>2, <1>8, <2>1, <2>2 DEF AskInv, IdsGrow, SessionsWereGiven, MainWaits,
                                        NoStaleCancel, PopupMeansAsking, NoTalkAsked
  <2>4. ConsentBeforeRun'
    BY <1>1, <2>1 DEF AskInv, ConsentBeforeRun
  <2> QED BY <1>6, <2>3, <2>4 DEF AskInv
<1> QED BY <1>7, <1>8

(* The answer to the popup reaches the turn; without a popup it is dropped. *)
LEMMA TakeResponseKeepsAsking ==
  ASSUME TypeOK, AskInv, events # <<>>, TakeResponse, UNCHANGED <<main, spent>>
  PROVE  AskInv'
<1>1. /\ events \in Seq(Events) /\ events' = Tail(events)
      /\ ui \in Screen /\ turn \in Turn
      /\ Is(1, "Response") /\ 1 \in DOMAIN events /\ Taken = events[1]
      /\ Taken \in Events /\ Taken.choice \in Choices \cup {"no"}
      /\ UNCHANGED <<flag, consents>>
  <2>1. Taken \in Events
    BY DEF TypeOK, Taken
  <2> QED BY <2>1, TailOf, EventParts DEF TypeOK, TakeResponse, Taken, Is
<1>2. CASE ui.popup = NoQuestion
  <2>1. UNCHANGED <<ui, turn, granted>>
    BY <1>2 DEF TakeResponse
  <2>2. QueueInv'
    BY <1>1, <2>1, TakeKeepsQueue DEF AskInv
  <2> QED BY <1>1, <2>1, <2>2, NoAnswerKeepsAsking
<1>3. CASE ui.popup # NoQuestion
  <2>1. /\ turn.pc = "asking" /\ turn.question = ui.popup /\ ui.popup \in Question
        /\ <<ui.popup, Taken.choice>> \in consents
    BY <1>1, <1>3 DEF AskInv, PopupMeansAsking, QueueInv, AnswersWereGiven, Screen
  <2>2. /\ DOMAIN events' \subseteq Nat
        /\ \A i \in DOMAIN events' : i + 1 \in DOMAIN events /\ events'[i] = events[i + 1]
    BY <1>1, TailOf
  <2>3. /\ ui'.popup = NoQuestion
        /\ ui'.approved = IF Taken.choice = "session" THEN ui.approved \cup {ui.popup.tool}
                          ELSE ui.approved
        /\ turn' = [turn EXCEPT !.pc = IF Taken.choice = "no" THEN "top" ELSE "granted"]
        /\ granted' = IF Taken.choice = "no" THEN granted ELSE granted \cup {ui.popup}
    BY <1>1, <1>3 DEF TakeResponse, Screen
  <2>4. QueueInv'
    <3>1. \A i \in DOMAIN events' : events'[i].kind # "Request"
      BY <1>3, <2>2 DEF AskInv, QueueInv, RequestIsCurrent, Is
    <3>2. AnswersWereGiven'
      BY <1>1, <2>2, <2>3 DEF AskInv, QueueInv, AnswersWereGiven, Is
    <3> QED BY <3>1, <3>2 DEF QueueInv, RequestIsCurrent, OneRequest, AnswersAreOlder, Is
  <2>5. IdsGrow' /\ MainWaits' /\ NoStaleCancel' /\ PopupMeansAsking' /\ NoTalkAsked'
    BY <1>1, <2>1, <2>3 DEF AskInv, IdsGrow, MainWaits, NoStaleCancel, PopupMeansAsking, Turn,
                            NoTalkAsked
  <2>6. SessionsWereGiven'
    <3> SUFFICES ASSUME NEW tool \in ui'.approved
                 PROVE  \E p \in Question : p.tool = tool /\ <<p, "session">> \in consents
      BY <1>1 DEF SessionsWereGiven
    <3>1. CASE tool \in ui.approved
      BY <3>1 DEF AskInv, SessionsWereGiven
    <3>2. CASE tool = ui.popup.tool /\ Taken.choice = "session"
      BY <2>1, <3>2
    <3> QED BY <2>3, <3>1, <3>2
  <2>7. ConsentBeforeRun'
    <3> SUFFICES ASSUME NEW q \in granted'
                 PROVE  \/ q.tool \in Talk
                        \/ <<q, "yes">> \in consents
                        \/ \E p \in Question : /\ p.tool = q.tool /\ p.id <= q.id
                                               /\ <<p, "session">> \in consents
      BY <1>1 DEF AskInv, ConsentBeforeRun
    <3>1. CASE q \in granted
      BY <3>1 DEF AskInv, ConsentBeforeRun
    <3>2. CASE q = ui.popup /\ Taken.choice # "no"
      <4>1. ui.popup.id <= ui.popup.id
        BY <2>1 DEF Question
      <4>2. Taken.choice \in {"yes", "session"}
        BY <1>1, <3>2, TuiAssumption
      <4> QED BY <2>1, <3>2, <4>1, <4>2
    <3> QED BY <2>3, <3>1, <3>2
  <2> QED BY <2>4, <2>5, <2>6, <2>7 DEF AskInv
<1> QED BY <1>2, <1>3

LEMMA TuiKeepsAsking ==
  ASSUME TypeOK, AskInv, TuiStep
  PROVE  AskInv'
<1>1. /\ events \in Seq(Events) /\ events # <<>> /\ Taken \in Events
      /\ Tail(events) \in Seq(Events)
      /\ ui \in Screen /\ turn \in Turn
      /\ UNCHANGED <<main, settings, spent>>
  BY DEF TypeOK, TuiStep, Taken
<1>2. ASSUME ui'.popup = ui.popup, ui'.approved = ui.approved,
             events' = Tail(events) \/ events' = <<>>,
             UNCHANGED <<turn.pc, turn.question, turn.cancelled, consents, granted>>,
             turn'.escaped = turn.escaped \/ turn'.escaped = TRUE,
             flag' => flag \/ turn'.escaped \/ turn.pc = "none"
      PROVE  AskInv'
  <2>1. QueueInv'
    BY <1>1, <1>2, TakeKeepsQueue DEF AskInv
  <2> QED BY <1>1, <1>2, <2>1, NoAnswerKeepsAsking
<1>3. CASE KeyEsc
  <2>1. CASE Respond("no")
    BY <1>1, <1>3, <2>1, RespondKeepsAsking DEF KeyEsc
  <2>2. CASE ~Respond("no")
    <3>1. /\ UNCHANGED <<ui, consents, granted>> /\ events' = Tail(events)
          /\ flag' = (flag \/ ui.working)
          /\ turn' = [turn EXCEPT !.escaped = @ \/ (ui.working /\ turn.pc # "none")]
      BY <1>3, <2>2 DEF KeyEsc
    <3>2. /\ UNCHANGED <<turn.pc, turn.question, turn.cancelled>>
          /\ turn'.escaped = (turn.escaped \/ (ui.working /\ turn.pc # "none"))
      BY <1>1, <3>1 DEF Turn
    <3>3. turn.escaped \in BOOLEAN /\ ui.working \in BOOLEAN /\ flag \in BOOLEAN
      BY <1>1 DEF TypeOK, Turn, Screen
    <3> QED BY <1>2, <3>1, <3>2, <3>3
  <2> QED BY <2>1, <2>2
<1>4. CASE KeyChoose
  <2>1. Taken.choice \in Choices
    BY <1>1, <1>4, EventParts DEF KeyChoose
  <2> QED BY <1>1, <1>2, <1>4, <2>1, RespondKeepsAsking DEF KeyChoose
<1>5. CASE KeySubmit
  <2>1. ui'.popup = ui.popup /\ ui'.approved = ui.approved
    BY <1>1, <1>5 DEF KeySubmit, Screen
  <2> QED BY <1>1, <1>2, <1>5, <2>1, RespondKeepsAsking DEF KeySubmit
<1>6. CASE KeyCtrlC
  <2>1. /\ ui'.popup = ui.popup /\ ui'.approved = ui.approved
        /\ UNCHANGED <<flag, turn, consents, granted>>
    BY <1>1, <1>6 DEF KeyCtrlC, Screen
  <2>2. CASE ~ui.confirm
    BY <1>1, <1>2, <1>6, <2>1, <2>2 DEF KeyCtrlC
  <2>3. CASE ui.confirm
    <3> DEFINE quit == [kind |-> "QuitWithReport"]
    <3>1. events' = Append(Tail(events), quit) /\ quit \in Events
      BY <1>1, <1>6, <2>3, EventsMade DEF KeyCtrlC
    <3>2. \A i \in DOMAIN events' :
            \/ i + 1 \in DOMAIN events /\ events'[i] = events[i + 1] /\ i \in Nat
            \/ events'[i].kind = "QuitWithReport"
      <4>1. ASSUME NEW q, q = quit PROVE q.kind = "QuitWithReport"
        BY <4>1
      <4> HIDE DEF quit
      <4> QED BY <1>1, <3>1, <4>1, TailOf, AppendOf
    <3>3. RequestIsCurrent' /\ AnswersWereGiven'
      BY <2>1, <3>2 DEF AskInv, QueueInv, RequestIsCurrent, AnswersWereGiven, Is
    <3>4. OneRequest' /\ AnswersAreOlder'
      BY <3>2 DEF AskInv, QueueInv, OneRequest, AnswersAreOlder, Is
    <3>5. QueueInv'
      BY <3>3, <3>4 DEF QueueInv
    <3> QED BY <1>1, <2>1, <3>5, NoAnswerKeepsAsking
  <2> QED BY <2>2, <2>3
<1>7. CASE ShowRequest
  BY <1>1, <1>7, ShowKeepsAsking
<1>8. CASE TakeResponse
  BY <1>1, <1>8, TakeResponseKeepsAsking
<1>9. CASE Handover \/ Suspended \/ Report
  <2>1. \/ events' = Tail(events)
        \/ events' = <<>>
    BY <1>9 DEF Handover, Suspended, Report, Leave
  <2>2. ui'.popup = ui.popup /\ ui'.approved = ui.approved
    BY <1>1, <1>9 DEF Handover, Suspended, Report, Leave, Screen
  <2>3. UNCHANGED <<submits, flag, turn, consents, granted>>
    BY <1>9 DEF Handover, Suspended, Report
  <2> QED BY <1>2, <2>1, <2>2, <2>3
<1> QED
  BY <1>3, <1>4, <1>5, <1>6, <1>7, <1>8, <1>9 DEF TuiStep, Up

(* The main thread begins a turn when there is none, and ends it when it   *)
(* is over: never one that asks.                                           *)
LEMMA MainKeepsAsking ==
  ASSUME TypeOK, AskInv, MainStep
  PROVE  AskInv'
<1>1. /\ events \in Seq(Events) /\ ui \in Screen /\ turn \in Turn /\ main \in Main
      /\ UNCHANGED <<consents, granted>>
      /\ ui'.popup = ui.popup /\ ui'.approved = ui.approved
      /\ spent'.calls = spent.calls
  BY DEF TypeOK, Screen, Rebuild, Fault, MainStep, Receive, Exit, JoinTui, Permissions, Model, At, Suspend,
         RunCommand, Show, Lower, Forward, Join, Save
<1>2. turn.pc = "none" \/ main.pc \in {"forward", "join"}
  BY DEF AskInv, MainWaits
<1>3. /\ turn.pc = "asking" => UNCHANGED turn
      /\ turn'.pc = "asking" => turn.pc = "asking"
      /\ turn'.cancelled => turn.cancelled /\ UNCHANGED turn
      /\ turn'.pc # "none" => main'.pc \in {"forward", "join"} /\ (flag' => turn'.escaped)
  <2>1. CASE Lower
    BY <1>1, <1>2, <2>1 DEF Lower, Goto, Main, NoTurn
  <2>2. CASE Join
    BY <1>1, <2>2 DEF Join, NoTurn
  <2>3. CASE Forward
    BY <1>1, <2>3 DEF Forward, Goto, Main, AskInv, MainWaits
  <2>4. CASE ~(Lower \/ Join \/ Forward)
    <3>1. UNCHANGED turn /\ main.pc \notin {"forward", "join"}
      BY <2>4, TuiAssumption DEF MainStep, Receive, Exit, JoinTui, Permissions, Model, At, Suspend, RunCommand,
                  Show, Save, Slash
    <3> QED BY <1>2, <3>1
  <2> QED BY <2>1, <2>2, <2>3, <2>4
<1>4. QueueInv'
  <2>1. \/ events' = events
        \/ \E k \in {"Suspend", "Resume", "Quit"} : events' = Append(events, [kind |-> k])
    BY DEF Sent, MainStep, Receive, Exit, JoinTui, Permissions, Model, At, Suspend, RunCommand,
           Show, Lower, Forward, Join, Save
  <2>2. \A i \in DOMAIN events' : events'[i].kind \in {"Request", "Response"} =>
          i \in DOMAIN events /\ events'[i] = events[i]
    BY <1>1, <2>1, EventsMade, AppendOf
  <2>3. RequestIsCurrent' /\ AnswersWereGiven'
    BY <1>1, <1>3, <2>2 DEF AskInv, QueueInv, RequestIsCurrent, AnswersWereGiven, Is
  <2>4. OneRequest' /\ AnswersAreOlder'
    BY <2>2 DEF AskInv, QueueInv, OneRequest, AnswersAreOlder, Is
  <2> QED BY <2>3, <2>4 DEF QueueInv
<1>5. IdsGrow' /\ SessionsWereGiven' /\ MainWaits' /\ NoStaleCancel'
  BY <1>1, <1>3 DEF AskInv, IdsGrow, SessionsWereGiven, MainWaits, NoStaleCancel
<1>6. PopupMeansAsking' /\ ConsentBeforeRun' /\ NoTalkAsked'
  BY <1>1, <1>3 DEF AskInv, PopupMeansAsking, ConsentBeforeRun, NoTalkAsked
<1> QED BY <1>4, <1>5, <1>6 DEF AskInv

(* A turn asks one question at a time, with a new number. *)
LEMMA ToolCallKeepsAsking ==
  ASSUME TypeOK, AskInv, ToolCall, UNCHANGED <<submits, ui, flag, main, settings, consents>>
  PROVE  AskInv'
<1>1. /\ events \in Seq(Events) /\ turn \in Turn /\ turn.pc = "calling" /\ UNCHANGED granted
      /\ spent.calls \in Nat /\ spent'.calls = spent.calls + 1
      /\ spent.calls + 1 \in 1 .. MaxCalls
  <2>1. /\ spent \in [keys : 0 .. MaxKeys, calls : 0 .. MaxCalls, faults : 0 .. MaxFaults]
        /\ MaxCalls \in Nat
    BY TuiAssumption DEF TypeOK
  <2>2. spent.calls < MaxCalls /\ spent' = [spent EXCEPT !.calls = @ + 1]
    BY DEF ToolCall
  <2> QED BY <2>1, <2>2 DEF TypeOK, ToolCall
<1>2. ui.popup = NoQuestion /\ \A i \in DOMAIN events : ~Is(i, "Request")
  BY <1>1 DEF AskInv, PopupMeansAsking, QueueInv, RequestIsCurrent
<1>3. PICK tool \in Tools :
        LET question == [id |-> spent.calls + 1, tool |-> tool] IN
        IF Asks(tool)
        THEN /\ turn' = [turn EXCEPT !.pc = IF ui.now = "gone" THEN "terminal" ELSE "asking",
                                     !.question = question]
             /\ events' = Sent([kind |-> "Request", about |-> question])
        ELSE /\ turn' = [turn EXCEPT !.pc = IF Runs(tool) THEN "granted" ELSE "top"]
             /\ UNCHANGED events
  BY DEF ToolCall
<1> DEFINE question == [id |-> spent.calls + 1, tool |-> tool]
           request  == [kind |-> "Request", about |-> question]
<1>4. question \in Question /\ question.id = spent'.calls
  BY <1>1 DEF Question
<1>5. request \in Events /\ request.kind = "Request" /\ request.about = question
  BY <1>4, EventsMade
<1> HIDE DEF question
<1>6. \/ /\ turn' = [turn EXCEPT !.pc = "asking", !.question = question]
         /\ events' = Append(events, request)
      \/ /\ turn'.pc \in {"terminal", "granted", "top"} /\ UNCHANGED events
         /\ turn'.escaped = turn.escaped /\ turn'.cancelled = turn.cancelled
  <2>1. CASE Asks(tool) /\ ui.now # "gone"
    BY <1>3, <2>1 DEF Sent, question
  <2>2. CASE ~(Asks(tool) /\ ui.now # "gone")
    BY <1>1, <1>3, <2>2 DEF Sent, Turn, question
  <2> QED BY <2>1, <2>2
<1>7. QueueInv'
  <2>1. CASE UNCHANGED events
    BY <1>2, <2>1 DEF AskInv, QueueInv, RequestIsCurrent, OneRequest, AnswersAreOlder,
                      AnswersWereGiven, Is
  <2>2. CASE /\ turn' = [turn EXCEPT !.pc = "asking", !.question = question]
             /\ events' = Append(events, request)
    <3> HIDE DEF request
    <3>1. turn'.pc = "asking" /\ turn'.question = question
      BY <1>1, <2>2 DEF Turn
    <3>2. \A i \in DOMAIN events' :
            \/ i \in DOMAIN events /\ events'[i] = events[i]
            \/ i = Len(events) + 1 /\ events'[i] = request
      BY <1>1, <1>5, <2>2, AppendOf
    <3>3. \A i \in DOMAIN events' : events'[i].kind = "Request" =>
            i = Len(events) + 1 /\ events'[i] = request
      BY <1>2, <3>2 DEF Is
    <3>4. \A i \in DOMAIN events' : events'[i].kind = "Response" =>
            i \in DOMAIN events /\ events'[i] = events[i] /\ i < Len(events) + 1
      <4>1. \A i \in DOMAIN events : i < Len(events) + 1
        BY <1>1
      <4> QED BY <1>5, <3>2, <4>1
    <3>5. RequestIsCurrent' /\ OneRequest'
      BY <1>2, <1>5, <3>1, <3>3 DEF RequestIsCurrent, OneRequest, Is
    <3>6. AnswersAreOlder' /\ AnswersWereGiven'
      BY <3>3, <3>4 DEF AskInv, QueueInv, AnswersAreOlder, AnswersWereGiven, Is
    <3> QED BY <3>5, <3>6 DEF QueueInv
  <2> QED BY <1>6, <2>1, <2>2
<1>8. IdsGrow'
  <2>1. turn'.pc = "asking" => turn'.question \in Question /\ turn'.question.id = spent'.calls
    BY <1>1, <1>4, <1>6 DEF Turn
  <2>2. \A x \in consents : x[1].id <= spent.calls + 1
    <3> SUFFICES ASSUME NEW x \in consents PROVE x[1].id <= spent.calls + 1
      OBVIOUS
    <3>1. x[1].id \in Nat /\ x[1].id <= spent.calls
      BY DEF TypeOK, Question, AskInv, IdsGrow
    <3> QED BY <1>1, <3>1
  <2> QED BY <1>1, <2>1, <2>2 DEF IdsGrow
<1>9. MainWaits' /\ NoStaleCancel'
  BY <1>1, <1>6 DEF AskInv, MainWaits, NoStaleCancel, Turn
<1>10. SessionsWereGiven' /\ PopupMeansAsking' /\ ConsentBeforeRun' /\ NoTalkAsked'
  BY <1>1, <1>2 DEF AskInv, SessionsWereGiven, PopupMeansAsking, ConsentBeforeRun, NoTalkAsked
<1> QED BY <1>7, <1>8, <1>9, <1>10 DEF AskInv

(* What else a turn does leaves no question behind. *)
LEMMA TurnKeepsAsking ==
  ASSUME TypeOK, AskInv, TurnStep \/ TurnPanics
  PROVE  AskInv'
<1>1. CASE ToolCall
  BY <1>1, ToolCallKeepsAsking DEF TurnStep, TurnPanics, Panic, ToolCall
<1>2. CASE ~ToolCall
  <2>1. /\ turn \in Turn /\ turn.pc # "none" /\ turn'.pc \notin {"none", "asking"}
        /\ turn'.escaped = turn.escaped
        /\ turn'.cancelled => turn.cancelled \/ flag
        /\ turn.pc = "asking" => ~Pending("Request") /\ ui.popup # turn.question
        /\ UNCHANGED <<events, submits, ui, flag, main, settings, consents, granted>>
        /\ spent'.calls = spent.calls
    BY <1>2 DEF TypeOK, Turn, TurnStep, TurnPanics, TurnTop, TurnCancelled, TurnOver, QuestionLost,
                TerminalAnswers, RunTool, Panic, Fault
  <2>2. ui.popup = NoQuestion /\ \A i \in DOMAIN events : ~Is(i, "Request")
    BY <2>1 DEF AskInv, PopupMeansAsking, QueueInv, RequestIsCurrent, Pending, Is
  <2>3. QueueInv'
    BY <2>1, <2>2 DEF AskInv, QueueInv, RequestIsCurrent, OneRequest, AnswersAreOlder,
                      AnswersWereGiven, Is
  <2>4. IdsGrow' /\ SessionsWereGiven' /\ MainWaits' /\ NoStaleCancel'
    BY <2>1 DEF AskInv, IdsGrow, SessionsWereGiven, MainWaits, NoStaleCancel
  <2>5. PopupMeansAsking' /\ ConsentBeforeRun' /\ NoTalkAsked'
    BY <2>1, <2>2 DEF AskInv, PopupMeansAsking, ConsentBeforeRun, NoTalkAsked
  <2> QED BY <2>3, <2>4, <2>5 DEF AskInv
<1> QED BY <1>1, <1>2

LEMMA AskInvariant == Spec => []AskInv
<1>1. Init => AskInv
  BY DEF Init, NoTurn, AskInv, QueueInv, RequestIsCurrent, OneRequest, AnswersAreOlder,
         AnswersWereGiven, IdsGrow, SessionsWereGiven, MainWaits, PopupMeansAsking,
         ConsentBeforeRun, NoStaleCancel, NoTalkAsked
<1>2. TypeOK /\ AskInv /\ [Next]_vars => AskInv'
  <2> SUFFICES ASSUME TypeOK, AskInv, [Next]_vars PROVE AskInv'
    OBVIOUS
  <2>1. ASSUME NEW k \in Events, k.kind \notin {"Request", "Response"}, events' = Append(events, k),
               spent'.calls = spent.calls,
               UNCHANGED <<submits, ui, flag, main, turn, settings, consents, granted>>
        PROVE  AskInv'
    <3>1. QueueInv'
      BY <2>1, AppendKeepsQueue DEF AskInv
    <3>2. IdsGrow' /\ SessionsWereGiven' /\ MainWaits' /\ NoStaleCancel'
      BY <2>1 DEF AskInv, IdsGrow, SessionsWereGiven, MainWaits, NoStaleCancel
    <3>3. PopupMeansAsking' /\ ConsentBeforeRun' /\ NoTalkAsked'
      BY <2>1 DEF AskInv, PopupMeansAsking, ConsentBeforeRun, NoTalkAsked
    <3> QED BY <3>1, <3>2, <3>3 DEF AskInv
  <2>2. CASE Press
    <3>1. PICK k \in [kind : {"Esc", "CtrlC"}] \cup [kind : {"Submit"}, input : Inputs] :
            events' = Append(events, k)
      BY <2>2 DEF Press
    <3>2. k \in Events /\ k.kind \notin {"Request", "Response"}
      BY EventsMade DEF Keys
    <3>3. spent'.calls = spent.calls
      BY <2>2 DEF Press, TypeOK
    <3> QED BY <2>1, <2>2, <3>1, <3>2, <3>3 DEF Press
  <2>3. CASE AnswerPopup
    <3>1. PICK c \in Choices : events' = Append(events, [kind |-> "Choose", choice |-> c])
      BY <2>3 DEF AnswerPopup
    <3>2. [kind |-> "Choose", choice |-> c] \in Events
      BY EventsMade DEF Keys
    <3> QED BY <2>1, <2>3, <3>1, <3>2 DEF AnswerPopup
  <2>4. CASE TuiStep
    BY <2>4, TuiKeepsAsking
  <2>5. CASE MainStep
    BY <2>5, MainKeepsAsking
  <2>6. CASE TurnStep \/ TurnPanics
    BY <2>6, TurnKeepsAsking
  <2>7. CASE UNCHANGED vars
    BY <2>7 DEF vars, AskInv, QueueInv, RequestIsCurrent, OneRequest, AnswersAreOlder,
                AnswersWereGiven, IdsGrow, SessionsWereGiven, MainWaits, PopupMeansAsking,
                ConsentBeforeRun, NoStaleCancel, NoTalkAsked, Is
  <2>8. CASE DrawFails
    <3>1. /\ ui'.popup = ui.popup /\ ui'.approved = ui.approved /\ events' = <<>>
          /\ spent'.calls = spent.calls
          /\ UNCHANGED <<flag, main, turn, consents, granted>>
      BY <2>8 DEF DrawFails, Fault, TypeOK, Screen
    <3>2. QueueInv'
      BY <3>1 DEF QueueInv, RequestIsCurrent, OneRequest, AnswersAreOlder, AnswersWereGiven
    <3>3. IdsGrow' /\ SessionsWereGiven' /\ MainWaits' /\ NoStaleCancel'
      BY <3>1 DEF AskInv, IdsGrow, SessionsWereGiven, MainWaits, NoStaleCancel
    <3>4. PopupMeansAsking' /\ ConsentBeforeRun' /\ NoTalkAsked'
      BY <3>1 DEF AskInv, PopupMeansAsking, ConsentBeforeRun, NoTalkAsked
    <3> QED BY <3>2, <3>3, <3>4 DEF AskInv
  <2> QED
    BY <2>2, <2>3, <2>4, <2>5, <2>6, <2>7, <2>8 DEF Next
<1> QED
  BY <1>1, <1>2, TypeInvariant, PTL DEF Spec

(* What the popup shows is what the turn waits for. *)
THEOREM PopupIsTheTurns == Spec => []Inv
<1>1. AskInv /\ TypeOK => Inv
  BY DEF AskInv, Inv
<1> QED BY <1>1, AskInvariant, TypeInvariant, PTL

(* No answer is used for a question it was not given to: a tool that was   *)
(* asked about runs on the operator's word, however the keys, the queue    *)
(* and the turns interleave.                                               *)
THEOREM AnswersAreNotReused == Spec => []ConsentBeforeRun
<1>1. AskInv => ConsentBeforeRun
  BY DEF AskInv
<1> QED BY <1>1, AskInvariant, PTL

(* A turn that ends as cancelled was cancelled by the operator. *)
THEOREM OnlyEscCancels == Spec => []NoStaleCancel
<1>1. AskInv => NoStaleCancel
  BY DEF AskInv
<1> QED BY <1>1, AskInvariant, PTL

--------------------------------------------------------------------------------
(* The spinner turns for a turn, for an @ line, or for a line that waits.  *)
Waiting == \E i \in DOMAIN submits : submits[i] \notin Slash

SpinnerHasCause ==
  ui.working => \/ main.pc \in {"chat", "at", "lower", "forward", "join"}
                \/ main.stranded
                \/ Waiting

ModesAgree == settings.shown = settings.mode /\ (settings.rebuilt => settings.policy = settings.mode)

ScreenInv == SpinnerHasCause /\ ModesAgree

LEMMA ScreenStep ==
  ASSUME TypeOK, ScreenInv, [Next]_vars
  PROVE  ScreenInv'
<1>1. /\ submits \in Seq(Inputs) /\ ui \in Screen /\ main \in Main
      /\ settings \in [mode : Modes, shown : Modes, policy : Modes, rebuilt : BOOLEAN]
  BY DEF TypeOK
<1>2. ModesAgree'
  <2>1. CASE Permissions
    <3>1. PICK mode \in Modes :
            \/ settings' = [mode |-> mode, shown |-> mode, policy |-> mode, rebuilt |-> TRUE]
            \/ settings' = [settings EXCEPT !.mode = mode, !.shown = mode, !.rebuilt = FALSE]
      BY <2>1 DEF Permissions
    <3>2. CASE settings' = [mode |-> mode, shown |-> mode, policy |-> mode, rebuilt |-> TRUE]
      BY <3>2 DEF ModesAgree
    <3>3. CASE settings' = [settings EXCEPT !.mode = mode, !.shown = mode, !.rebuilt = FALSE]
      BY <1>1, <3>3 DEF ModesAgree
    <3> QED BY <3>1, <3>2, <3>3
  <2>2. CASE ~Permissions
    <3>1. settings' = settings \/ settings' = [settings EXCEPT !.policy = settings.mode, !.rebuilt = TRUE]
      BY <2>2 DEF vars, Next, Press, AnswerPopup, TuiStep, DrawFails, TurnStep, TurnPanics, MainStep, Rebuild,
                  Receive, Exit, JoinTui, Model, At, Suspend, RunCommand, Show, Lower, Forward,
                  Join, Save
    <3> QED BY <1>1, <3>1 DEF ScreenInv, ModesAgree
  <2> QED BY <2>1, <2>2
<1>3. SpinnerHasCause'
  <2>1. CASE KeySubmit /\ UNCHANGED <<main, settings, spent>>
    <3>1. Head(events).kind = "Submit" /\ ui'.working \in {ui.working, TRUE}
      BY <1>1, <2>1 DEF KeySubmit, Taken, Screen
    <3>2. CASE UNCHANGED submits
      <4>1. ui'.working = ui.working
        BY <1>1, <2>1, <3>2 DEF KeySubmit, Respond, Screen
      <4> QED BY <2>1, <3>2, <4>1 DEF ScreenInv, SpinnerHasCause, Waiting
    <3>3. CASE ~UNCHANGED submits
      <4>1. /\ submits' = Append(submits, Taken.input)
            /\ ui'.working => ui.working \/ Taken.input \notin Slash
        BY <1>1, <2>1, <3>3 DEF KeySubmit, Respond, Screen
      <4>2. /\ \A i \in DOMAIN submits : i \in DOMAIN submits' /\ submits'[i] = submits[i]
            /\ Len(submits) + 1 \in DOMAIN submits' /\ submits'[Len(submits) + 1] = Taken.input
        BY <1>1, <4>1
      <4>3. Waiting => Waiting'
        BY <4>2 DEF Waiting
      <4>4. Taken.input \notin Slash => Waiting'
        BY <4>2 DEF Waiting
      <4> QED BY <2>1, <4>1, <4>3, <4>4 DEF ScreenInv, SpinnerHasCause
    <3> QED BY <3>2, <3>3
  <2>2. CASE TuiStep /\ ~KeySubmit
    <3>1. ui'.working = ui.working /\ UNCHANGED <<submits, main>>
      BY <1>1, <2>2 DEF TuiStep, Up, KeyEsc, KeyChoose, KeyCtrlC, ShowRequest, TakeResponse, Handover,
                        Suspended, Report, Respond, Leave, Screen
    <3> QED BY <3>1 DEF ScreenInv, SpinnerHasCause, Waiting
  <2>3. CASE MainStep
    <3>1. CASE Receive
      <4>1. CASE submits # <<>>
        <5>1. /\ main'.pc = Head(submits) /\ main'.stranded = main.stranded
              /\ submits' = Tail(submits) /\ UNCHANGED ui /\ main.pc = "recv"
          BY <1>1, <3>1, <4>1 DEF Receive, Goto, Main
        <5>2. Head(submits) \in Inputs
          BY <1>1, <4>1
        <5>3. \A i \in DOMAIN submits :
                \/ i = 1 /\ submits[i] = Head(submits)
                \/ i - 1 \in DOMAIN submits' /\ submits'[i - 1] = submits[i]
          BY <1>1, <4>1, <5>1
        <5>4. Waiting => Waiting' \/ Head(submits) \in {"chat", "at"}
          BY <5>2, <5>3, TuiAssumption DEF Waiting
        <5> QED BY <5>1, <5>4 DEF ScreenInv, SpinnerHasCause
      <4>2. CASE submits = <<>>
        BY <1>1, <3>1, <4>2 DEF Receive, Goto, Main, ScreenInv, SpinnerHasCause, Waiting
      <4> QED BY <4>1, <4>2
    <3>2. CASE At \/ Show \/ Lower \/ Forward \/ Join
      BY <1>1, <3>2 DEF At, Show, Lower, Forward, Join, Goto, Main, Screen, ScreenInv, SpinnerHasCause,
                        Waiting
    <3>3. CASE Exit \/ JoinTui \/ Permissions \/ Model \/ Suspend \/ RunCommand \/ Save
      <4>1. /\ main.pc \in {"exit", "quit", "permissions", "model", "command", "ack", "save"}
            /\ main'.stranded = main.stranded
            /\ UNCHANGED <<ui, submits>>
        BY <1>1, <3>3 DEF Exit, JoinTui, Permissions, Model, Suspend, RunCommand, Save, Goto, Main
      <4> QED BY <4>1 DEF ScreenInv, SpinnerHasCause, Waiting
    <3> QED BY <2>3, <3>1, <3>2, <3>3 DEF MainStep
  <2>4. CASE UNCHANGED <<ui, main, submits>>
    BY <2>4 DEF ScreenInv, SpinnerHasCause, Waiting
  <2>5. CASE DrawFails
    <3>1. ui'.working = ui.working /\ UNCHANGED <<submits, main>>
      BY <1>1, <2>5 DEF DrawFails, Screen
    <3> QED BY <3>1 DEF ScreenInv, SpinnerHasCause, Waiting
  <2> QED
    BY <2>1, <2>2, <2>3, <2>4, <2>5
    DEF Next, vars, Press, AnswerPopup, TurnStep, TurnPanics, TuiStep
<1> QED BY <1>2, <1>3 DEF ScreenInv

(* The spinner and the mode on the screen are those of the client behind,  *)
(* whatever was typed ahead and whichever rebuilds failed.                 *)
THEOREM TheScreenIsTrue == Spec => []ScreenIsTrue
<1>1. Init => ScreenInv
  BY DEF Init, ScreenInv, SpinnerHasCause, ModesAgree
<1>2. TypeOK /\ ScreenInv => ScreenIsTrue
  BY DEF TypeOK, ScreenInv, SpinnerHasCause, Waiting, ModesAgree, ScreenIsTrue, IdleShowsIdle,
         PolicyIsShown
<1> QED
  BY <1>1, <1>2, ScreenStep, TypeInvariant, PTL DEF Spec

--------------------------------------------------------------------------------
(* Whoever waits for the terminal has asked for it after the last time it  *)
(* was given back, and the TUI has not taken it back since.                *)
AskedLast ==
  \A i \in DOMAIN events : Is(i, "Resume") =>
    \E j \in DOMAIN events : i < j /\ Is(j, "Suspend")

HandoverInv ==
  /\ main.pc = "ack" => AskedLast /\ (ui.now = "up" => Pending("Suspend"))
  /\ ui.now = "gone" => events = <<>>
  /\ main.pc = "ended" => ui.now = "gone" \/ main.failed

LEMMA HandoverStep ==
  ASSUME TypeOK, HandoverInv, [Next]_vars
  PROVE  HandoverInv'
<1>1. events \in Seq(Events) /\ ui \in Screen /\ main \in Main /\ submits \in Seq(Inputs)
  BY DEF TypeOK
<1>2. ASSUME NEW e, events' = Append(events, e), e \in Events, e.kind # "Resume",
             AskedLast
      PROVE  AskedLast' /\ (Pending("Suspend") => Pending("Suspend")')
  <2>1. /\ \A i \in DOMAIN events : i \in DOMAIN events' /\ events'[i] = events[i]
        /\ \A i \in DOMAIN events' :
             \/ i \in DOMAIN events /\ events'[i] = events[i]
             \/ events'[i] = e
    BY <1>1, <1>2
  <2> QED BY <1>2, <2>1 DEF AskedLast, Pending, Is
<1>3. ASSUME events # <<>>, AskedLast,
             \/ events' = Tail(events)
             \/ \E e \in Events : e.kind # "Resume" /\ events' = Append(Tail(events), e)
      PROVE  /\ AskedLast'
             /\ Taken.kind # "Suspend" /\ Pending("Suspend") => Pending("Suspend")'
             /\ Taken.kind = "Resume" => Pending("Suspend")'
  <2>1. /\ \A i \in DOMAIN events' :
             \/ i + 1 \in DOMAIN events /\ events'[i] = events[i + 1] /\ i \in Nat
             \/ events'[i].kind # "Resume"
        /\ \A j \in DOMAIN events :
             \/ j = 1
             \/ j \in Nat /\ j - 1 \in DOMAIN events' /\ events'[j - 1] = events[j]
        /\ events[1] = Taken /\ 1 \in DOMAIN events
    <3>1. CASE events' = Tail(events)
      BY <1>1, <1>3, <3>1 DEF Taken
    <3>2. ASSUME NEW e \in Events, e.kind # "Resume", events' = Append(Tail(events), e)
          PROVE  /\ \A i \in DOMAIN events' :
                      \/ i + 1 \in DOMAIN events /\ events'[i] = events[i + 1] /\ i \in Nat
                      \/ events'[i] = e
                 /\ \A j \in DOMAIN events :
                      \/ j = 1
                      \/ j \in Nat /\ j - 1 \in DOMAIN events' /\ events'[j - 1] = events[j]
      BY <1>1, <1>3, <3>2
    <3>3. events[1] = Taken /\ 1 \in DOMAIN events
      BY <1>1, <1>3 DEF Taken
    <3> QED BY <1>3, <3>1, <3>2, <3>3
  <2>2. AskedLast'
    <3> SUFFICES ASSUME NEW i \in DOMAIN events', events'[i].kind = "Resume"
                 PROVE  \E j \in DOMAIN events' : i < j /\ events'[j].kind = "Suspend"
      BY DEF AskedLast, Is
    <3>1. PICK j \in DOMAIN events : i + 1 < j /\ events[j].kind = "Suspend"
      BY <1>3, <2>1 DEF AskedLast, Is
    <3>2. j - 1 \in DOMAIN events' /\ events'[j - 1] = events[j] /\ i < j - 1
      BY <2>1, <3>1
    <3> QED BY <3>1, <3>2
  <2>3. Taken.kind # "Suspend" /\ Pending("Suspend") => Pending("Suspend")'
    BY <2>1 DEF Pending
  <2>4. Taken.kind = "Resume" => Pending("Suspend")'
    <3> SUFFICES ASSUME Taken.kind = "Resume" PROVE Pending("Suspend")'
      OBVIOUS
    <3>1. PICK j \in DOMAIN events : 1 < j /\ events[j].kind = "Suspend"
      BY <1>3, <2>1 DEF AskedLast, Is
    <3> QED BY <2>1, <3>1 DEF Pending
  <2> QED BY <2>2, <2>3, <2>4
<1>4. CASE Press \/ AnswerPopup
  <2>1. PICK k \in Keys : events' = Append(events, k)
    BY <1>4 DEF Press, AnswerPopup, Keys
  <2>2. k \in Events /\ k.kind # "Resume"
    BY EventsMade DEF Keys
  <2>3. UNCHANGED <<ui, main>> /\ ui.now # "gone"
    BY <1>4 DEF Press, AnswerPopup
  <2> QED BY <1>2, <2>1, <2>2, <2>3 DEF HandoverInv
<1>5. CASE TuiStep
  <2>1. UNCHANGED main /\ events # <<>>
    BY <1>5 DEF TuiStep
  <2>2. CASE events' = <<>> /\ ui'.now \in {"gone", "report"}
    BY <2>1, <2>2 DEF HandoverInv, AskedLast, Pending
  <2>3. CASE /\ \/ events' = Tail(events)
                \/ \E e \in Events : e.kind # "Resume" /\ events' = Append(Tail(events), e)
             /\ ui'.now # "gone"
             /\ ui'.now = "up" => /\ ui.now = "up" \/ Taken.kind = "Resume"
                                  /\ Taken.kind # "Suspend"
    <3>1. ui.now # "gone"
      BY <2>1 DEF HandoverInv
    <3> QED BY <1>3, <2>1, <2>3, <3>1 DEF HandoverInv
  <2>4. CASE ui.now = "up" /\ ui'.now = "up"
    <3>1. \/ events' = Tail(events)
          \/ \E e \in Events : e.kind # "Resume" /\ events' = Append(Tail(events), e)
      <4>1. ASSUME NEW c \in Choices \cup {"no"}, Respond(c)
            PROVE  \E e \in Events : e.kind # "Resume" /\ events' = Append(Tail(events), e)
        <5>1. ui.popup \in Question
          BY <1>1, <4>1 DEF Respond, Screen
        <5> QED BY <4>1, <5>1, EventsMade DEF Respond
      <4>2. CASE KeyEsc \/ KeySubmit
        BY <4>1, <4>2 DEF KeyEsc, KeySubmit
      <4>3. CASE KeyChoose
        <5>1. Taken.choice \in Choices
          BY <1>1, <2>1, <4>3, EventParts DEF KeyChoose, Taken
        <5> QED BY <4>1, <4>3, <5>1 DEF KeyChoose
      <4>4. CASE KeyCtrlC
        <5>1. Tail(events) \in Seq(Events)
          BY <1>1, <2>1
        <5>2. CASE ui.confirm
          <6>1. [kind |-> "QuitWithReport"] \in Events
            BY EventsMade
          <6>2. events' = Tail(events) \o <<[kind |-> "QuitWithReport"]>>
            BY <4>4, <5>2 DEF KeyCtrlC
          <6>3. events' = Append(Tail(events), [kind |-> "QuitWithReport"])
            BY <5>1, <6>1, <6>2
          <6> QED BY <6>1, <6>3
        <5>3. CASE ~ui.confirm
          BY <4>4, <5>1, <5>3 DEF KeyCtrlC
        <5> QED BY <5>2, <5>3
      <4>5. CASE ShowRequest \/ TakeResponse
        BY <4>5 DEF ShowRequest, TakeResponse
      <4>6. CASE Handover
        BY <1>1, <2>4, <4>6 DEF Handover, Leave, Screen
      <4> QED BY <1>5, <2>4, <4>2, <4>3, <4>4, <4>5, <4>6 DEF TuiStep, Up, Suspended, Report
    <3>2. Taken.kind # "Suspend"
      BY <1>1, <1>5, <2>4 DEF TuiStep, Up, KeyEsc, KeyChoose, KeySubmit, KeyCtrlC, ShowRequest,
         TakeResponse, Handover, Suspended, Report, Leave, Screen
    <3> QED BY <2>3, <2>4, <3>1, <3>2
  <2>5. CASE ui.now = "up" /\ ui'.now # "up"
    <3>1. Handover
      BY <1>1, <1>5, <2>5 DEF TuiStep, Up, KeyEsc, KeyChoose, KeySubmit, KeyCtrlC, ShowRequest,
         TakeResponse, Suspended, Report, Leave, Screen, Respond
    <3> QED BY <1>1, <2>2, <2>3, <2>5, <3>1 DEF Handover, Leave, Screen
  <2>6. CASE ui.now # "up"
    <3>1. Suspended \/ Report
      BY <1>5, <2>6 DEF TuiStep, Up
    <3> QED BY <1>1, <2>2, <2>3, <2>6, <3>1 DEF Suspended, Report, Leave, Screen
  <2> QED BY <2>4, <2>5, <2>6
<1>6. CASE MainStep
  <2>1. ui'.now = ui.now
    BY <1>1, <1>6 DEF Screen, MainStep, Receive, Exit, JoinTui, Permissions, Model, At, Suspend,
                      RunCommand, Show, Lower, Forward, Join, Save
  <2>2. ui.now = "gone" => events' = events
    BY <1>6 DEF Sent, MainStep, Receive, Exit, JoinTui, Permissions, Model, At, Suspend,
                RunCommand, Show, Lower, Forward, Join, Save
  <2>3. CASE Suspend
    <3> DEFINE suspend == [kind |-> "Suspend"]
    <3>1. main'.pc = "ack" /\ suspend \in Events
      BY <1>1, <2>3, EventsMade DEF Suspend, Goto, Main
    <3>2. CASE ui.now = "gone"
      BY <2>1, <2>2, <3>1, <3>2 DEF HandoverInv, AskedLast
    <3>3. CASE ui.now # "gone"
      <4>1. events' = Append(events, suspend)
        BY <2>3, <3>3 DEF Suspend, Sent
      <4>2. /\ \A i \in DOMAIN events' :
                 \/ i < Len(events) + 1
                 \/ events'[i] = suspend
            /\ Len(events) + 1 \in DOMAIN events' /\ events'[Len(events) + 1] = suspend
        BY <1>1, <3>1, <4>1
      <4>3. AskedLast' /\ Pending("Suspend")'
        BY <4>2 DEF AskedLast, Pending, Is
      <4> QED BY <2>1, <3>1, <3>3, <4>3 DEF HandoverInv
    <3> QED BY <3>2, <3>3
  <2>4. CASE Receive
    <3>1. main'.pc \in Inputs \cup {"quit"}
      BY <1>1, <2>4 DEF Receive, Goto, Main
    <3>2. Inputs \subseteq {"permissions", "model", "plan", "command", "exit", "chat", "at"}
      BY TuiAssumption DEF Slash
    <3>3. main'.pc # "ack" /\ main'.pc # "ended"
      BY <3>1, <3>2
    <3> QED BY <2>1, <2>2, <3>3 DEF HandoverInv
  <2>5. CASE ~Suspend /\ ~Receive
    <3>1. main'.pc # "ack" /\ (main'.pc = "ended" => ui.now = "gone" \/ main'.failed)
      BY <1>1, <1>6, <2>5 DEF Goto, Main, MainStep, Exit, JoinTui, Permissions, Model, At,
                              RunCommand, Show, Lower, Forward, Join, Save
    <3> QED BY <2>1, <2>2, <3>1 DEF HandoverInv
  <2> QED BY <2>3, <2>4, <2>5
<1>7. CASE TurnStep \/ TurnPanics
  <2>1. UNCHANGED <<ui, main>>
    BY <1>7 DEF TurnStep, TurnPanics
  <2>2. CASE UNCHANGED events
    BY <2>1, <2>2 DEF HandoverInv, AskedLast, Pending, Is
  <2>3. CASE ~UNCHANGED events
    <3>1. ToolCall
      BY <1>7, <2>3 DEF TurnStep, TurnPanics, TurnTop, TurnCancelled, TurnOver, QuestionLost,
                        TerminalAnswers, RunTool, Panic
    <3>2. PICK tool \in Tools :
            events' = Append(events, [kind |-> "Request",
                                      about |-> [id |-> spent.calls + 1, tool |-> tool]])
          /\ ui.now # "gone"
      BY <2>3, <3>1 DEF ToolCall, Sent
    <3>3. [id |-> spent.calls + 1, tool |-> tool] \in Question
      BY <3>1, TuiAssumption DEF ToolCall, Question, TypeOK
    <3>4. [kind |-> "Request", about |-> [id |-> spent.calls + 1, tool |-> tool]] \in Events
      BY <3>3, EventsMade
    <3> QED BY <1>2, <2>1, <3>2, <3>4 DEF HandoverInv
  <2> QED BY <2>2, <2>3
<1>8. CASE UNCHANGED vars
  BY <1>8 DEF vars, HandoverInv, AskedLast, Pending, Is
<1>9. CASE DrawFails
  <2>1. ui'.now = "gone" /\ events' = <<>> /\ UNCHANGED main
    BY <1>1, <1>9 DEF DrawFails, Screen
  <2> QED BY <2>1 DEF HandoverInv, AskedLast, Pending
<1> QED
  BY <1>4, <1>5, <1>6, <1>7, <1>8, <1>9 DEF Next

(* The terminal is in raw mode only while the TUI shows something, or for  *)
(* good after it failed.                                                   *)
RawInv == ui.raw => ui.now \in {"up", "report"} \/ ui.broken

LEMMA RawStep ==
  ASSUME TypeOK, RawInv, [Next]_vars
  PROVE  RawInv'
<1>1. ui \in Screen
  BY DEF TypeOK
<1>2. CASE Handover \/ Suspended \/ Report \/ DrawFails
  BY <1>1, <1>2 DEF RawInv, Handover, Suspended, Report, DrawFails, Leave, Screen
<1>3. CASE KeyEsc \/ KeyChoose \/ KeySubmit \/ KeyCtrlC \/ ShowRequest \/ TakeResponse
  <2>1. ui'.raw = ui.raw /\ ui'.now = ui.now /\ ui'.broken = ui.broken
    BY <1>1, <1>3 DEF KeyEsc, KeyChoose, KeySubmit, KeyCtrlC, ShowRequest, TakeResponse, Screen
  <2> QED BY <2>1 DEF RawInv
<1>4. CASE MainStep
  <2>1. ui'.raw = ui.raw /\ ui'.now = ui.now /\ ui'.broken = ui.broken
    BY <1>1, <1>4 DEF Screen, MainStep, Receive, Exit, JoinTui, Permissions, Model, At, Suspend,
                      RunCommand, Show, Lower, Forward, Join, Save
  <2> QED BY <2>1 DEF RawInv
<1>5. CASE UNCHANGED ui
  BY <1>5 DEF RawInv
<1> QED
  BY <1>2, <1>3, <1>4, <1>5
  DEF Next, Press, AnswerPopup, TuiStep, Up, TurnStep, TurnPanics, vars

(* No command finds the terminal raw but under the report card, and the    *)
(* program leaves it in ordinary mode unless saving the session failed, as *)
(* long as the terminal itself never fails.                                *)
THEOREM OneOwnerOfTheTerminal == Spec => []TerminalHandedOver
<1>1. Init => HandoverInv /\ RawInv
  BY DEF Init, HandoverInv, RawInv
<1>2. TypeOK /\ HandoverInv /\ RawInv => TerminalHandedOver
  BY DEF HandoverInv, RawInv, TerminalHandedOver, TypeOK, Screen
<1> QED
  BY <1>1, <1>2, HandoverStep, RawStep, TypeInvariant, PTL DEF Spec
================================================================================
