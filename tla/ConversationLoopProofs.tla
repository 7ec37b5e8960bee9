------------------------ MODULE ConversationLoopProofs ------------------------
(***************************************************************************)
(* Theorems about ConversationLoop, for all values of its constants.       *)
(***************************************************************************)
EXTENDS ConversationLoop, SequenceTheorems, WellFoundedInduction, TLAPS

--------------------------------------------------------------------------------
(* Recursive functions.  A definition by recursion over 0 .. N is a CHOOSE; *)
(* that such a function exists, that it is unique, and the induction both   *)
(* rest on, follow from the well-foundedness of < on the natural numbers.   *)

Smaller == {ss \in Nat \X Nat : ss[1] < ss[2]}

(* A set of numbers that is not empty has a least one. *)
LEMMA LeastNumber ==
  ASSUME NEW A \in SUBSET Nat, A # {}
  PROVE  \E m \in A : \A k \in A : m <= k
<1>1. IsWellFoundedOn(Smaller, Nat)
  BY NatLessThanWellFounded, Zenon DEF OpToRel, Smaller
<1>2. PICK m \in A : \A k \in A : <<k, m>> \notin Smaller
  BY <1>1, WFMin
<1>3. ASSUME NEW k \in A, k < m PROVE FALSE
  <2>1. <<k, m>> \in Nat \X Nat /\ <<k, m>>[1] < <<k, m>>[2]
    BY <1>3
  <2>2. <<k, m>> \in Smaller
    BY <2>1, Zenon DEF Smaller
  <2> QED BY <1>2, <2>2
<1> QED BY <1>3

(* Induction over the natural numbers, for a set. *)
LEMMA SetInduction ==
  ASSUME NEW A \in SUBSET Nat, 0 \in A, \A n \in A : n + 1 \in A
  PROVE  A = Nat
<1> DEFINE B == Nat \ A
<1> SUFFICES ASSUME B # {} PROVE FALSE
  OBVIOUS
<1>1. B \in SUBSET Nat
  OBVIOUS
<1>2. PICK m \in B : \A k \in B : m <= k
  <2> HIDE DEF B
  <2> QED BY <1>1, LeastNumber
<1>3. m # 0 /\ m - 1 \in Nat /\ m - 1 \notin B
  BY <1>2
<1> QED BY <1>2, <1>3

(* A function defined by recursion exists: base and step are what it is    *)
(* made of, T is where its values are.                                     *)
Recursion(T, base, N, step) ==
  N \in Nat /\ base \in T /\ step \in [1 .. N -> [T -> T]]

Recurses(f, base, N, step) == f[0] = base /\ \A i \in 1 .. N : f[i] = step[i][f[i - 1]]

(* Recursion over 0 .. N has a solution. *)
LEMMA PrimitiveRecursion ==
  ASSUME NEW T, NEW base, NEW N, NEW step, Recursion(T, base, N, step)
  PROVE  \E f \in [0 .. N -> T] : Recurses(f, base, N, step)
<1> DEFINE A == {n \in Nat : n <= N => \E f \in [0 .. n -> T] : Recurses(f, base, n, step)}
<1> USE DEF Recursion, Recurses
<1>1. 0 \in A
  <2>1. /\ [k \in 0 .. 0 |-> base] \in [0 .. 0 -> T]
        /\ Recurses([k \in 0 .. 0 |-> base], base, 0, step)
    OBVIOUS
  <2> QED BY <2>1
<1>2. ASSUME NEW n \in A PROVE n + 1 \in A
  <2> SUFFICES ASSUME n + 1 <= N
               PROVE \E g \in [0 .. n + 1 -> T] : Recurses(g, base, n + 1, step)
    OBVIOUS
  <2>1. PICK f \in [0 .. n -> T] : Recurses(f, base, n, step)
    OBVIOUS
  <2> DEFINE g == [k \in 0 .. n + 1 |-> IF k = n + 1 THEN step[n + 1][f[n]] ELSE f[k]]
  <2>2. n \in 0 .. n /\ f[n] \in T /\ step[n + 1] \in [T -> T]
    OBVIOUS
  <2>3. g \in [0 .. n + 1 -> T]
    BY <2>2
  <2>4. ASSUME NEW i \in 1 .. n + 1 PROVE g[i] = step[i][g[i - 1]]
    <3>1. CASE i = n + 1
      BY <3>1, <2>2
    <3>2. CASE i # n + 1
      <4>1. i \in 1 .. n /\ i - 1 \in 0 .. n /\ i \in 0 .. n + 1
        BY <3>2
      <4> QED BY <2>1, <4>1
    <3> QED BY <3>1, <3>2
  <2>5. g[0] = base
    BY <2>1
  <2> QED BY <2>3, <2>4, <2>5
<1>3. A \in SUBSET Nat
  OBVIOUS
<1>4. A = Nat
  <2> HIDE DEF A
  <2> QED BY <1>1, <1>2, <1>3, SetInduction
<1> QED BY <1>4

(* Two functions that take the same steps are the same. *)
SameSteps(f, g, N) ==
  /\ N \in Nat /\ f[0] = g[0]
  /\ \A i \in 1 .. N : f[i - 1] = g[i - 1] => f[i] = g[i]

(* By induction: two solutions of a recursion agree. *)
LEMMA RecursionIsUnique ==
  ASSUME NEW N, NEW f, NEW g, SameSteps(f, g, N)
  PROVE  \A i \in 0 .. N : f[i] = g[i]
<1> USE DEF SameSteps
<1> DEFINE A == {n \in Nat : n <= N => f[n] = g[n]}
<1>1. 0 \in A
  OBVIOUS
<1>2. ASSUME NEW n \in A PROVE n + 1 \in A
  <2> SUFFICES ASSUME n + 1 <= N PROVE f[n + 1] = g[n + 1]
    OBVIOUS
  <2>1. n + 1 \in 1 .. N /\ (n + 1) - 1 = n /\ f[n] = g[n]
    OBVIOUS
  <2> QED BY <2>1
<1>3. A = Nat
  <2>1. A \in SUBSET Nat
    OBVIOUS
  <2> HIDE DEF A
  <2> QED BY <1>1, <1>2, <2>1, SetInduction
<1> QED BY <1>3

--------------------------------------------------------------------------------
(* Lemmas about Session. *)

(* A message the loop writes itself is a message. *)
LEMMA PlainIsMessage ==
  ASSUME NEW kind \in Kinds
  PROVE  Plain(kind) \in Message
BY DEF Plain, Message, Whys

(* A reply becomes a message that holds its uses and its usage. *)
LEMMA AssistantIsMessage ==
  ASSUME NEW uses \in Seq(ToolUse), NEW u \in Tokens \cup {NoUsage}
  PROVE  AssistantMessage(uses, u) \in Message
BY DEF AssistantMessage, Plain, Message, Kinds, Whys

(* An answer to a tool use is a message. *)
LEMMA ResultIsMessage ==
  ASSUME NEW id \in Nat, NEW why \in Whys, NEW error \in BOOLEAN
  PROVE  ToolResult(id, why, error) \in Message
<1>1. "result" \in Kinds /\ <<>> \in Seq(ToolUse)
  BY DEF Kinds
<1> QED BY <1>1, Zenon DEF ToolResult, Message

(* The counters stay within their width, wrap-around included. *)
LEMMA RecordIsTracker ==
  ASSUME NEW t \in Tracker, NEW u \in Tokens \cup {NoUsage}
  PROVE  Record(t, u) \in Tracker
<1>1. CASE u = NoUsage
  BY <1>1 DEF Record
<1>2. CASE u # NoUsage
  <2>1. u \in 0 .. CounterModulus - 1 /\ CounterModulus \in Nat \ {0}
    BY <1>2, SessionAssumption
  <2>2. t.cumulative + u \in Nat
    BY <2>1 DEF Tracker
  <2>3. (t.cumulative + u) % CounterModulus \in 0 .. CounterModulus - 1
    BY <2>1, <2>2
  <2> QED
    BY <1>2, <2>1, <2>3 DEF Record, Tracker
<1> QED BY <1>1, <1>2

(* A compacted session keeps only a summary and messages it had. *)
LEMMA CompactIsSession ==
  ASSUME NEW s \in Seq(Message)
  PROVE  Compact(s) \in Seq(Message)
<1>1. CASE ShouldCompact(s)
  <2> DEFINE recent == SubSeq(s, Len(s) - PreserveRecent + 1, Len(s))
  <2>1. /\ Len(s) \in Nat /\ PreserveRecent \in Nat \ {0}
        /\ Len(s) > PreserveRecent
    BY <1>1, SessionAssumption DEF ShouldCompact
  <2>2. \A i \in Len(s) - PreserveRecent + 1 .. Len(s) : s[i] \in Message
    BY <2>1, ElementOfSeq
  <2>3. recent \in Seq(Message)
    BY <2>1, <2>2, SubSeqProperties
  <2>4. <<Plain("summary")>> \in Seq(Message)
    BY PlainIsMessage DEF Kinds
  <2> HIDE DEF recent
  <2>5. <<Plain("summary")>> \o recent \in Seq(Message)
    BY <2>3, <2>4, ConcatProperties
  <2> QED BY <1>1, <2>5 DEF Compact, recent
<1>2. CASE ~ShouldCompact(s)
  BY <1>2 DEF Compact
<1> QED BY <1>1, <1>2

(* The uses of a reply carry consecutive new ids. *)
LEMMA UsesOfType ==
  ASSUME NEW ts \in ToolNames, nextId \in Nat \ {0}
  PROVE  /\ UsesOf(ts) \in Seq(ToolUse)
         /\ Len(UsesOf(ts)) = Len(ts)
         /\ Len(ts) \in Nat
         /\ \A i \in 1 .. Len(ts) : UsesOf(ts)[i].id = nextId + i - 1
<1>1. PICK n \in 0 .. MaxUses : ts \in [1 .. n -> Tools]
  BY DEF ToolNames
<1>2. n \in Nat /\ ts \in Seq(Tools) /\ Len(ts) = n
  BY <1>1, LoopAssumption
<1>3. \A i \in 1 .. Len(ts) : [id |-> nextId + i - 1, tool |-> ts[i]] \in ToolUse
  BY <1>1, <1>2 DEF ToolUse
<1> QED BY <1>2, <1>3 DEF UsesOf

--------------------------------------------------------------------------------
(* Type correctness.  The program counters of the for loop come with a     *)
(* tool use at hand: that is what makes Current well defined.              *)

ToolPCs == {"tool", "prompt", "preHook", "execute", "gap", "postHook"}

TypeInv ==
  /\ TypeOK
  /\ pc \in ToolPCs => pending # <<>>

(* The current use of a tool step is a tool use; so is every later one. *)
LEMMA CurrentType ==
  ASSUME TypeInv, pc \in ToolPCs
  PROVE  /\ Current \in ToolUse /\ Current.id \in Nat \ {0}
         /\ Tail(pending) \in Seq(ToolUse)
<1>1. pending \in Seq(ToolUse) /\ pending # <<>>
  BY DEF TypeInv, TypeOK
<1>2. Head(pending) \in ToolUse /\ Tail(pending) \in Seq(ToolUse)
  BY <1>1, HeadTailProperties
<1> QED BY <1>2 DEF Current, ToolUse

(* Pushing a message keeps the session a session. *)
LEMMA PushType ==
  ASSUME TypeInv, NEW m \in Message, Push(m)
  PROVE  session' \in Seq(Message)
BY AppendProperties DEF Push, TypeInv, TypeOK

(* Continue leaves a program counter that agrees with what is pending. *)
LEMMA ContinueType ==
  ASSUME NEW rest \in Seq(ToolUse), Continue(rest)
  PROVE  /\ pending' \in Seq(ToolUse) /\ pc' \in PCs /\ toolFailed' \in BOOLEAN
         /\ pc' \in ToolPCs => pending' # <<>>
BY DEF Continue, PCs, ToolPCs

(* The same for the end of an iteration of the for loop. *)
LEMMA AnswerType ==
  ASSUME TypeInv, pc \in ToolPCs, NEW why \in Whys, NEW error \in BOOLEAN,
         Answer(why, error)
  PROVE  /\ session' \in Seq(Message)
         /\ pending' \in Seq(ToolUse) /\ pc' \in PCs /\ toolFailed' \in BOOLEAN
         /\ pc' \in ToolPCs => pending' # <<>>
<1>1. ToolResult(Current.id, why, error) \in Message
  BY CurrentType, ResultIsMessage
<1>2. session' \in Seq(Message)
  BY <1>1, PushType DEF Answer
<1>3. Continue(Tail(pending)) /\ Tail(pending) \in Seq(ToolUse)
  BY CurrentType DEF Answer
<1> QED BY <1>2, <1>3, ContinueType

(* The three ways out of the program counter's line: return, next, stay. *)
LEMMA EndTurnType ==
  ASSUME NEW how \in Outcomes, EndTurn(how)
  PROVE  /\ pending' \in Seq(ToolUse) /\ pc' \in PCs /\ toolFailed' \in BOOLEAN
         /\ outcome' \in Outcomes
         /\ pc' \notin ToolPCs
<1>1. pc' = "idle" /\ outcome' = how /\ pending' = <<>> /\ toolFailed' = FALSE
  BY DEF EndTurn
<1>2. pc' \in PCs /\ pc' \notin ToolPCs
  BY <1>1 DEF PCs, ToolPCs
<1>3. pending' \in Seq(ToolUse)
  BY <1>1, EmptySeq
<1>4. toolFailed' \in BOOLEAN
  BY <1>1
<1> QED BY <1>1, <1>2, <1>3, <1>4, Zenon

(* A fresh runtime satisfies the strengthened typing. *)
LEMMA TypeInvInit == Init => TypeInv
<1> SUFFICES ASSUME Init PROVE TypeInv
  OBVIOUS
<1> USE DEF Init
<1>1. mode \in ActiveModes /\ prompter \in Prompters
  OBVIOUS
<1>2. session \in Seq(Message) /\ pending \in Seq(ToolUse) /\ executed \in Seq(Nat \ {0})
  BY EmptySeq
<1>3. usage \in Tracker
  BY SessionAssumption DEF Tracker, NewTracker
<1>4. cancelled \in BOOLEAN /\ toolFailed \in BOOLEAN
  OBVIOUS
<1>5. pc \in PCs /\ pc \notin ToolPCs /\ outcome \in Outcomes
  BY DEF PCs, ToolPCs, Outcomes
<1>6. /\ iterations \in Nat /\ turns \in Nat /\ nextId \in Nat \ {0}
      /\ requests \in Nat /\ approved \subseteq Nat \ {0}
  OBVIOUS
<1> QED BY <1>1, <1>2, <1>3, <1>4, <1>5, <1>6, Zenon DEF TypeInv, TypeOK

(* A step of the program keeps the types and the tool use at hand. *)
LEMMA TypeInvNext == TypeInv /\ [Next]_vars => TypeInv'
<1> SUFFICES ASSUME TypeInv, [Next]_vars PROVE TypeInv'
  OBVIOUS
<1>1. CASE StartTurn
  <2>1. session' \in Seq(Message)
    BY <1>1, PushType, PlainIsMessage DEF StartTurn, Kinds
  <2>2. pc' \in PCs /\ pc' \notin ToolPCs /\ outcome' \in Outcomes
    BY <1>1 DEF StartTurn, Advance, PCs, ToolPCs, Outcomes
  <2>3. cancelled' \in BOOLEAN
    BY <1>1 DEF StartTurn
  <2>4. iterations' \in Nat /\ turns' \in Nat
    BY <1>1 DEF StartTurn, TypeInv, TypeOK
  <2> QED
    BY <1>1, <2>1, <2>2, <2>3, <2>4
       DEF StartTurn, Advance, TypeInv, TypeOK, config, history
<1>2. CASE Cancel
  BY <1>2 DEF Cancel, TypeInv, TypeOK, config, history
<1>3. CASE LoopTop
  <2>1. CASE cancelled
    BY <1>3, <2>1, EndTurnType DEF LoopTop, Outcomes, TypeInv, TypeOK, config, history
  <2>2. CASE ~cancelled /\ iterations + 1 > MaxIterations
    BY <1>3, <2>2, EndTurnType DEF LoopTop, Outcomes, TypeInv, TypeOK, config, history
  <2>3. CASE ~cancelled /\ ~(iterations + 1 > MaxIterations)
    BY <1>3, <2>3
       DEF LoopTop, Advance, PCs, ToolPCs, TypeInv, TypeOK, config, history
  <2> QED BY <2>1, <2>2, <2>3
<1>4. CASE SendRequest
  BY <1>4 DEF SendRequest, Advance, PCs, ToolPCs, TypeInv, TypeOK, config, history
<1>5. CASE StreamFails
  BY <1>5, EndTurnType DEF StreamFails, Outcomes, TypeInv, TypeOK, config, history
<1>6. ASSUME NEW ts \in ToolNames, NEW u \in Tokens \cup {NoUsage},
             NEW stopped \in BOOLEAN, ReceiveReply(ts, u, stopped)
      PROVE  TypeInv'
  <2>1. CASE cancelled \/ ~stopped
    BY <1>6, <2>1, EndTurnType
       DEF ReceiveReply, Outcomes, TypeInv, TypeOK, config, history
  <2>2. CASE ~cancelled /\ stopped
    <3>1. /\ UsesOf(ts) \in Seq(ToolUse) /\ Len(ts) \in Nat
          /\ Len(UsesOf(ts)) = Len(ts)
      BY UsesOfType DEF TypeInv, TypeOK
    <3>2. session' \in Seq(Message)
      BY <1>6, <2>2, <3>1, PushType, AssistantIsMessage DEF ReceiveReply
    <3>3. usage' \in Tracker
      BY <1>6, <2>2, RecordIsTracker DEF ReceiveReply, TypeInv, TypeOK
    <3>4. nextId' \in Nat \ {0}
      BY <1>6, <2>2, <3>1 DEF ReceiveReply, TypeInv, TypeOK
    <3>5. pending' \in Seq(ToolUse) /\ pc' \in PCs
      BY <1>6, <2>2, <3>1 DEF ReceiveReply, PCs
    <3>6. pc' \in ToolPCs => pending' # <<>>
      <4>1. ts \in Seq(Tools)
        BY LoopAssumption DEF ToolNames
      <4>2. CASE ts = <<>>
        BY <1>6, <2>2, <4>2 DEF ReceiveReply, ToolPCs
      <4>3. CASE ts # <<>>
        BY <1>6, <2>2, <3>1, <4>1, <4>3, EmptySeq DEF ReceiveReply
      <4> QED BY <4>2, <4>3
    <3>7. UNCHANGED <<config, cancelled, iterations, turns, history, toolFailed, outcome>>
      BY <1>6, <2>2 DEF ReceiveReply
    <3> QED
      BY <3>2, <3>3, <3>4, <3>5, <3>6, <3>7 DEF TypeInv, TypeOK, config, history
  <2> QED BY <2>1, <2>2
<1>7. CASE Finish
  <2>1. session' \in Seq(Message)
    BY <1>7, CompactIsSession DEF Finish, TypeInv, TypeOK
  <2> QED
    BY <1>7, <2>1, EndTurnType DEF Finish, Outcomes, TypeInv, TypeOK, config, history
<1>8. CASE AuthorizeTool
  <2>1. pc \in ToolPCs
    BY <1>8 DEF AuthorizeTool, ToolPCs
  <2>2. CASE Answer("denied", TRUE)
    <3>1. "denied" \in Whys /\ TRUE \in BOOLEAN
      BY DEF Whys
    <3> QED
      BY <1>8, <2>1, <2>2, <3>1, AnswerType
         DEF AuthorizeTool, TypeInv, TypeOK, config, history
  <2>3. CASE ~Answer("denied", TRUE)
    BY <1>8, <2>1, <2>3
       DEF AuthorizeTool, Advance, PCs, ToolPCs, TypeInv, TypeOK, config, history
  <2> QED BY <2>2, <2>3
<1>9. CASE OperatorAllows
  <2>1. Current.id \in Nat \ {0} /\ pending # <<>>
    BY <1>9, CurrentType DEF OperatorAllows, ToolPCs, TypeInv
  <2> QED
    BY <1>9, <2>1
       DEF OperatorAllows, Advance, PCs, ToolPCs, TypeInv, TypeOK, config
<1>10. CASE OperatorDenies
  <2>1. "denied" \in Whys /\ TRUE \in BOOLEAN /\ pc \in ToolPCs
    BY <1>10 DEF OperatorDenies, Whys, ToolPCs
  <2> QED
    BY <1>10, <2>1, AnswerType DEF OperatorDenies, TypeInv, TypeOK, config, history
<1>11. ASSUME NEW denied \in HookDenials, PreHook(denied)
       PROVE  TypeInv'
  <2>1. pc \in ToolPCs /\ "hook" \in Whys /\ TRUE \in BOOLEAN
    BY <1>11 DEF PreHook, ToolPCs, Whys
  <2>2. CASE denied
    BY <1>11, <2>1, <2>2, AnswerType DEF PreHook, TypeInv, TypeOK, config, history
  <2>3. CASE ~denied
    BY <1>11, <2>1, <2>3
       DEF PreHook, Advance, PCs, ToolPCs, TypeInv, TypeOK, config, history
  <2> QED BY <2>2, <2>3
<1>12. ASSUME NEW state \in {"plus", "zero", "minus"}, ExecuteTool(state)
       PROVE  TypeInv'
  <2>1. pc \in ToolPCs
    BY <1>12 DEF ExecuteTool, ToolPCs
  <2>2. executed' \in Seq(Nat \ {0})
    BY <1>12, <2>1, CurrentType, AppendProperties DEF ExecuteTool, TypeInv, TypeOK
  <2>3. toolFailed' \in BOOLEAN
    BY <1>12 DEF ExecuteTool
  <2>4. pc' \in PCs /\ pending # <<>>
    BY <1>12, <2>1 DEF ExecuteTool, PCs, TypeInv
  <2> QED
    BY <1>12, <2>2, <2>3, <2>4 DEF ExecuteTool, TypeInv, TypeOK, config
<1>13. CASE ExecuteErrs
  <2>1. pc \in ToolPCs
    BY <1>13 DEF ExecuteErrs, ToolPCs
  <2>2. executed' \in Seq(Nat \ {0})
    BY <1>13, <2>1, CurrentType, AppendProperties DEF ExecuteErrs, TypeInv, TypeOK
  <2>3. session' \in Seq(Message)
    BY <1>13, PushType, PlainIsMessage DEF ExecuteErrs, Kinds
  <2> QED
    BY <1>13, <2>2, <2>3, EndTurnType
       DEF ExecuteErrs, Outcomes, TypeInv, TypeOK, config
<1>14. CASE GapRecovered
  <2>1. Tail(pending) \in Seq(ToolUse)
    BY <1>14, CurrentType DEF GapRecovered, ToolPCs
  <2>2. session' \in Seq(Message)
    BY <1>14, PushType, PlainIsMessage DEF GapRecovered, Kinds
  <2> QED
    BY <1>14, <2>1, <2>2, ContinueType
       DEF GapRecovered, TypeInv, TypeOK, config, history
<1>15. CASE GapHalts
  <2>1. Current.id \in Nat
    BY <1>15, CurrentType DEF GapHalts, ToolPCs
  <2>2. session' \in Seq(Message)
    BY <1>15, <2>1, PushType, ResultIsMessage DEF GapHalts, Whys
  <2>3. <<>> \in Seq(ToolUse)
    BY EmptySeq
  <2> QED
    BY <1>15, <2>2, <2>3, ContinueType
       DEF GapHalts, TypeInv, TypeOK, config, history
<1>16. ASSUME NEW denied \in HookDenials, PostHook(denied)
       PROVE  TypeInv'
  <2>1. pc \in ToolPCs /\ "output" \in Whys
    BY <1>16 DEF PostHook, ToolPCs, Whys
  <2>2. (toolFailed \/ denied) \in BOOLEAN
    OBVIOUS
  <2> QED
    BY <1>16, <2>1, <2>2, AnswerType DEF PostHook, TypeInv, TypeOK, config, history
<1>17. CASE Exhausted \/ UNCHANGED vars
  BY <1>17 DEF Exhausted, vars, TypeInv, TypeOK
<1> QED
  BY <1>1, <1>2, <1>3, <1>4, <1>5, <1>6, <1>7, <1>8, <1>9, <1>10, <1>11, <1>12,
     <1>13, <1>14, <1>15, <1>16, <1>17
     DEF Next, Operator, TurnThread, ApiStep, ToolStep

(* The strengthened typing is invariant; later proofs start from it. *)
LEMMA TypeInvHolds == Spec => []TypeInv
BY TypeInvInit, TypeInvNext, PTL DEF Spec

(* The conversation, the usage counters and the loop's locals keep their   *)
(* types in every reachable state.                                         *)
THEOREM TypeCorrect == Spec => []TypeOK
<1>1. TypeInv => TypeOK
  BY DEF TypeInv
<1> QED BY <1>1, TypeInvHolds, PTL

--------------------------------------------------------------------------------
(* The request budget.  Within a turn every request is paid for by an      *)
(* iteration; between turns whatever was not spent is gone.                *)

BudgetInv ==
  /\ pc = "idle" => requests <= turns * MaxIterations
  /\ pc # "idle" =>
       /\ turns > 0
       /\ iterations <= MaxIterations
       /\ requests + (IF pc = "request" THEN 1 ELSE 0)
            <= (turns - 1) * MaxIterations + iterations

(* A turn started grants MaxIterations requests more. *)
LEMMA BudgetArithmetic ==
  ASSUME NEW n \in Nat
  PROVE  /\ n * MaxIterations \in Nat
         /\ ((n + 1) - 1) * MaxIterations = n * MaxIterations
         /\ n > 0 => n * MaxIterations = (n - 1) * MaxIterations + MaxIterations
         /\ n > 0 => (n - 1) * MaxIterations \in Nat
BY LoopAssumption

(* The steps that neither send a request nor start, end or count anything. *)
LEMMA BudgetKept ==
  ASSUME TypeInv, BudgetInv, pc \notin {"idle", "request"}, pc' # "request",
         UNCHANGED <<requests, turns, iterations>>
  PROVE  BudgetInv'
<1>1. /\ turns \in Nat /\ turns > 0
      /\ requests \in Nat /\ iterations \in Nat /\ MaxIterations \in Nat
  BY LoopAssumption DEF TypeInv, TypeOK, BudgetInv
<1>2. /\ turns * MaxIterations = (turns - 1) * MaxIterations + MaxIterations
      /\ (turns - 1) * MaxIterations \in Nat
  BY <1>1, BudgetArithmetic
<1> DEFINE spent == (turns - 1) * MaxIterations
<1>3. requests <= spent + iterations /\ iterations <= MaxIterations
  BY <1>1 DEF BudgetInv
<1>4. /\ requests' <= turns' * MaxIterations
      /\ requests' + 0 <= (turns' - 1) * MaxIterations + iterations'
      /\ iterations' <= MaxIterations /\ turns' > 0
  <2> HIDE DEF spent
  <2>1. requests <= spent + MaxIterations
    BY <1>1, <1>2, <1>3 DEF spent
  <2> QED BY <1>1, <1>2, <1>3, <2>1 DEF spent
<1> QED BY <1>4 DEF BudgetInv

(* A step keeps the requests within what the turns so far allow. *)
LEMMA BudgetNext == TypeInv /\ BudgetInv /\ [Next]_vars => BudgetInv'
<1> SUFFICES ASSUME TypeInv, BudgetInv, [Next]_vars PROVE BudgetInv'
  OBVIOUS
<1> USE DEF Advance, Continue, Answer, EndTurn
<1>0. /\ turns \in Nat /\ requests \in Nat /\ iterations \in Nat
      /\ MaxIterations \in Nat
  BY LoopAssumption DEF TypeInv, TypeOK
<1>1. CASE StartTurn
  <2>1. /\ pc = "idle" /\ pc' = "top" /\ turns' = turns + 1 /\ iterations' = 0
        /\ requests' = requests
    BY <1>1 DEF StartTurn, history
  <2>2. (turns' - 1) * MaxIterations = turns * MaxIterations
    BY <1>0, <2>1, BudgetArithmetic
  <2>3. requests <= turns * MaxIterations
    BY <2>1 DEF BudgetInv
  <2>4. turns * MaxIterations \in Nat
    BY <1>0, BudgetArithmetic
  <2> QED BY <1>0, <2>1, <2>2, <2>3, <2>4 DEF BudgetInv
<1>2. CASE Cancel
  BY <1>2 DEF Cancel, BudgetInv, history
<1>3. CASE LoopTop
  <2>1. CASE cancelled
    BY <1>3, <2>1, BudgetKept DEF LoopTop, history
  <2>2. CASE ~cancelled
    <3> DEFINE spent == (turns - 1) * MaxIterations
    <3>1. /\ pc = "top" /\ iterations' = iterations + 1
          /\ turns' = turns /\ requests' = requests
      BY <1>3, <2>2 DEF LoopTop, history
    <3>2. requests <= spent + iterations /\ iterations <= MaxIterations /\ turns > 0
      BY <1>0, <3>1 DEF BudgetInv
    <3>3. spent \in Nat /\ turns * MaxIterations = spent + MaxIterations
      BY <1>0, <3>2, BudgetArithmetic
    <3> HIDE DEF spent
    <3>4. CASE iterations + 1 > MaxIterations
      <4>1. pc' = "idle"
        BY <1>3, <2>2, <3>4 DEF LoopTop
      <4>2. requests <= turns * MaxIterations
        BY <1>0, <3>2, <3>3
      <4> QED BY <3>1, <4>1, <4>2 DEF BudgetInv
    <3>5. CASE ~(iterations + 1 > MaxIterations)
      <4>1. pc' = "request"
        BY <1>3, <2>2, <3>5 DEF LoopTop
      <4>2. requests + 1 <= spent + (iterations + 1) /\ iterations + 1 <= MaxIterations
        BY <1>0, <3>2, <3>3, <3>5
      <4>3. (turns' - 1) * MaxIterations = spent
        BY <3>1 DEF spent
      <4> QED BY <3>1, <3>2, <4>1, <4>2, <4>3 DEF BudgetInv
    <3> QED BY <3>4, <3>5
  <2> QED BY <2>1, <2>2
<1>4. CASE SendRequest
  <2>1. /\ pc = "request" /\ pc' = "waiting" /\ requests' = requests + 1
        /\ turns' = turns /\ iterations' = iterations
    BY <1>4 DEF SendRequest
  <2> QED BY <1>0, <2>1 DEF BudgetInv
<1>5. CASE StreamFails \/ Finish
  BY <1>5, BudgetKept DEF StreamFails, Finish, history
<1>6. ASSUME NEW ts \in ToolNames, NEW u \in Tokens \cup {NoUsage},
             NEW stopped \in BOOLEAN, ReceiveReply(ts, u, stopped)
      PROVE  BudgetInv'
  BY <1>6, BudgetKept DEF ReceiveReply, history
<1>7. CASE AuthorizeTool \/ OperatorAllows \/ OperatorDenies
  BY <1>7, BudgetKept DEF AuthorizeTool, OperatorAllows, OperatorDenies, history
<1>8. ASSUME NEW denied \in HookDenials, PreHook(denied) \/ PostHook(denied)
      PROVE  BudgetInv'
  BY <1>8, BudgetKept DEF PreHook, PostHook, history
<1>9. ASSUME NEW state \in {"plus", "zero", "minus"}, ExecuteTool(state)
      PROVE  BudgetInv'
  BY <1>9, BudgetKept DEF ExecuteTool
<1>10. CASE ExecuteErrs \/ GapRecovered \/ GapHalts
  BY <1>10, BudgetKept DEF ExecuteErrs, GapRecovered, GapHalts, history
<1>11. CASE Exhausted \/ UNCHANGED vars
  BY <1>11 DEF Exhausted, vars, BudgetInv
<1> QED
  BY <1>1, <1>2, <1>3, <1>4, <1>5, <1>6, <1>7, <1>8, <1>9, <1>10, <1>11
     DEF Next, Operator, TurnThread, ApiStep, ToolStep

(* However the turns go - tools refused, recovered, halted or failing,     *)
(* requests lost, turns cancelled and started again - there are never more *)
(* than max_iterations requests for each prompt.                           *)
THEOREM BudgetHolds == Spec => []RequestBudget
<1>1. Init => BudgetInv
  BY LoopAssumption DEF Init, BudgetInv
<1>2. TypeInv /\ BudgetInv => RequestBudget
  <2> SUFFICES ASSUME TypeInv, BudgetInv PROVE RequestBudget
    OBVIOUS
  <2>1. /\ turns \in Nat /\ requests \in Nat /\ iterations \in Nat
        /\ MaxIterations \in Nat
    BY LoopAssumption DEF TypeInv, TypeOK
  <2>2. CASE pc = "idle"
    BY <2>2 DEF BudgetInv, RequestBudget
  <2>3. CASE pc # "idle"
    <3> DEFINE spent == (turns - 1) * MaxIterations
    <3>1. /\ turns > 0 /\ iterations <= MaxIterations
          /\ requests <= spent + iterations
      BY <2>1, <2>3, BudgetArithmetic DEF BudgetInv
    <3>2. spent \in Nat /\ turns * MaxIterations = spent + MaxIterations
      BY <2>1, <3>1, BudgetArithmetic
    <3> HIDE DEF spent
    <3> QED BY <2>1, <3>1, <3>2 DEF RequestBudget
  <2> QED BY <2>2, <2>3
<1> QED BY <1>1, <1>2, BudgetNext, TypeInvHolds, PTL DEF Spec

--------------------------------------------------------------------------------
(* The order of tool uses.  The API hands out ids in order and the for     *)
(* loop takes them in order, so every use that has run comes before every  *)
(* use that waits; only the use between its execution and its answer is    *)
(* on both sides.                                                          *)

AnswerPCs == {"gap", "postHook"}

IdsInv ==
  /\ Increasing(executed)
  /\ \A i, j \in DOMAIN pending : i < j => pending[i].id < pending[j].id
  /\ \A j \in DOMAIN pending : pending[j].id < nextId
  /\ \A k \in DOMAIN executed : executed[k] < nextId
  /\ \A k \in DOMAIN executed, j \in DOMAIN pending :
       \/ executed[k] < pending[j].id
       \/ j = 1 /\ pc \in AnswerPCs /\ executed[k] <= pending[j].id

(* What head and tail are, with the indices written out. *)
LEMMA PendingFacts ==
  ASSUME TypeInv, pc \in ToolPCs
  PROVE  /\ Len(pending) \in Nat \ {0} /\ DOMAIN pending = 1 .. Len(pending)
         /\ Current = pending[1]
         /\ \A j \in 1 .. Len(pending) : pending[j].id \in Nat \ {0}
         /\ DOMAIN Tail(pending) = 1 .. Len(pending) - 1
         /\ \A j \in 1 .. Len(pending) - 1 : Tail(pending)[j] = pending[j + 1]
<1>1. pending \in Seq(ToolUse) /\ pending # <<>>
  BY DEF TypeInv, TypeOK
<1>2. Len(pending) \in Nat \ {0} /\ DOMAIN pending = 1 .. Len(pending)
  BY <1>1, EmptySeq, LenProperties
<1>3. ASSUME NEW j \in 1 .. Len(pending) PROVE pending[j].id \in Nat \ {0}
  <2>1. pending[j] \in ToolUse
    BY <1>1, ElementOfSeq
  <2> QED BY <2>1 DEF ToolUse
<1>4. /\ Tail(pending) \in Seq(ToolUse) /\ Len(Tail(pending)) = Len(pending) - 1
      /\ \A j \in 1 .. Len(pending) - 1 : Tail(pending)[j] = pending[j + 1]
  BY <1>1, HeadTailProperties
<1>5. DOMAIN Tail(pending) = 1 .. Len(pending) - 1
  BY <1>4, LenProperties
<1> QED BY <1>1, <1>2, <1>3, <1>4, <1>5 DEF Current

(* What has run is a sequence of ids, with the indices written out. *)
LEMMA ExecutedFacts ==
  ASSUME TypeInv
  PROVE  /\ Len(executed) \in Nat /\ DOMAIN executed = 1 .. Len(executed)
         /\ \A k \in 1 .. Len(executed) : executed[k] \in Nat \ {0}
BY LenProperties, ElementOfSeq DEF TypeInv, TypeOK

(* Appending an id above all others keeps a sequence increasing. *)
LEMMA AppendIncreasing ==
  ASSUME NEW s \in Seq(Nat \ {0}), Increasing(s), NEW x \in Nat \ {0},
         \A k \in DOMAIN s : s[k] < x
  PROVE  /\ Increasing(Append(s, x))
         /\ DOMAIN Append(s, x) = 1 .. Len(s) + 1
         /\ \A k \in DOMAIN Append(s, x) : Append(s, x)[k] <= x
         /\ \A k \in DOMAIN Append(s, x) :
              \/ Append(s, x)[k] = x
              \/ (k \in DOMAIN s /\ Append(s, x)[k] = s[k])
<1> DEFINE t == Append(s, x)
<1>1. Len(s) \in Nat /\ DOMAIN s = 1 .. Len(s)
  BY LenProperties
<1>2. /\ t \in Seq(Nat \ {0}) /\ Len(t) = Len(s) + 1 /\ t[Len(s) + 1] = x
      /\ \A k \in 1 .. Len(s) : t[k] = s[k]
  BY AppendProperties
<1>3. DOMAIN t = 1 .. Len(s) + 1
  BY <1>2, LenProperties
<1>4. \A k \in 1 .. Len(s) : s[k] \in Nat
  BY ElementOfSeq
<1> HIDE DEF t
<1>5. ASSUME NEW k \in DOMAIN t PROVE t[k] = x \/ (k \in DOMAIN s /\ t[k] = s[k])
  <2>1. CASE k = Len(s) + 1
    BY <1>2, <2>1
  <2>2. CASE k # Len(s) + 1
    <3>1. k \in 1 .. Len(s)
      BY <1>1, <1>3, <2>2
    <3> QED BY <1>1, <1>2, <3>1
  <2> QED BY <2>1, <2>2
<1>6. ASSUME NEW k \in DOMAIN t PROVE t[k] <= x
  <2>1. CASE t[k] = x
    BY <2>1
  <2>2. CASE k \in DOMAIN s /\ t[k] = s[k]
    BY <1>1, <1>4, <2>2
  <2> QED BY <1>5, <2>1, <2>2
<1>7. \A i, j \in DOMAIN t : i < j => t[i] < t[j]
  <2> SUFFICES ASSUME NEW i \in DOMAIN t, NEW j \in DOMAIN t, i < j
               PROVE  t[i] < t[j]
    OBVIOUS
  <2>1. i \in 1 .. Len(s) /\ t[i] = s[i]
    BY <1>1, <1>2, <1>3
  <2>2. CASE j \in 1 .. Len(s)
    BY <1>1, <1>2, <2>1, <2>2 DEF Increasing
  <2>3. CASE j = Len(s) + 1
    BY <1>1, <1>2, <2>1, <2>3
  <2> QED BY <1>1, <1>3, <2>2, <2>3
<1> QED BY <1>3, <1>5, <1>6, <1>7 DEF t, Increasing

(* A step that leaves nothing pending. *)
LEMMA IdsDropped ==
  ASSUME TypeInv, IdsInv, pending' = <<>>, UNCHANGED <<executed, nextId>>
  PROVE  IdsInv'
BY DEF IdsInv, Increasing

(* A step that only moves the program counter, away from an answer never. *)
LEMMA IdsKept ==
  ASSUME IdsInv, UNCHANGED <<executed, nextId, pending>>,
         pc \in AnswerPCs => pc' \in AnswerPCs
  PROVE  IdsInv'
BY DEF IdsInv, Increasing

(* A step that is done with the current use. *)
LEMMA IdsAdvanced ==
  ASSUME TypeInv, IdsInv, pc \in ToolPCs, Continue(Tail(pending)),
         UNCHANGED <<executed, nextId>>
  PROVE  IdsInv'
<1> DEFINE n == Len(pending)
<1>1. /\ n \in Nat \ {0} /\ DOMAIN pending = 1 .. n
      /\ pending' = Tail(pending) /\ DOMAIN pending' = 1 .. n - 1
      /\ \A j \in 1 .. n - 1 : pending'[j] = pending[j + 1]
  BY PendingFacts DEF Continue
<1> HIDE DEF n
<1>2. \A j \in DOMAIN pending' : j + 1 \in DOMAIN pending /\ j + 1 # 1 /\ j \in Nat
                                /\ pending'[j] = pending[j + 1]
  BY <1>1
<1>3. \A i, j \in DOMAIN pending' : i < j => pending'[i].id < pending'[j].id
  <2> SUFFICES ASSUME NEW i \in DOMAIN pending', NEW j \in DOMAIN pending', i < j
               PROVE  pending'[i].id < pending'[j].id
    OBVIOUS
  <2>1. i + 1 < j + 1 /\ i + 1 \in DOMAIN pending /\ j + 1 \in DOMAIN pending
    BY <1>2
  <2> QED BY <1>2, <2>1 DEF IdsInv
<1>4. \A j \in DOMAIN pending' : pending'[j].id < nextId
  BY <1>2 DEF IdsInv
<1>5. \A k \in DOMAIN executed, j \in DOMAIN pending' : executed[k] < pending'[j].id
  BY <1>2 DEF IdsInv
<1> QED BY <1>3, <1>4, <1>5 DEF IdsInv, Increasing

(* Before its execution the current use is above all that ran. *)
LEMMA CurrentAbove ==
  ASSUME TypeInv, IdsInv, pc \in ToolPCs \ AnswerPCs
  PROVE  /\ Current.id \in Nat \ {0} /\ Current.id < nextId
         /\ \A k \in DOMAIN executed : executed[k] < Current.id
         /\ \A j \in DOMAIN pending : j # 1 => Current.id < pending[j].id
<1>1. pc \in ToolPCs /\ pc \notin AnswerPCs
  OBVIOUS
<1>2. /\ Len(pending) \in Nat \ {0} /\ DOMAIN pending = 1 .. Len(pending)
      /\ Current = pending[1] /\ pending[1].id \in Nat \ {0}
  BY <1>1, PendingFacts
<1>3. 1 \in DOMAIN pending /\ \A j \in DOMAIN pending : j # 1 => 1 < j
  BY <1>2
<1> QED BY <1>1, <1>2, <1>3 DEF IdsInv

(* A step keeps the ids in order: executed, then pending, then to come. *)
LEMMA IdsNext == TypeInv /\ IdsInv /\ [Next]_vars => IdsInv'
<1> SUFFICES ASSUME TypeInv, IdsInv, [Next]_vars PROVE IdsInv'
  OBVIOUS
<1> USE DEF ToolPCs, AnswerPCs
<1>1. CASE StartTurn
  BY <1>1, IdsKept DEF StartTurn, Advance, history
<1>2. CASE Cancel
  BY <1>2, IdsKept DEF Cancel, history
<1>3. CASE LoopTop
  BY <1>3, IdsKept, IdsDropped DEF LoopTop, EndTurn, Advance, history
<1>4. CASE SendRequest
  BY <1>4, IdsKept DEF SendRequest, Advance
<1>5. CASE StreamFails \/ Finish
  BY <1>5, IdsDropped DEF StreamFails, Finish, EndTurn, history
<1>6. ASSUME NEW ts \in ToolNames, NEW u \in Tokens \cup {NoUsage},
             NEW stopped \in BOOLEAN, ReceiveReply(ts, u, stopped)
      PROVE  IdsInv'
  <2>1. CASE cancelled \/ ~stopped
    BY <1>6, <2>1, IdsDropped DEF ReceiveReply, EndTurn, history
  <2>2. CASE ~cancelled /\ stopped
    <3> DEFINE n == Len(ts)
    <3>1. /\ pending' = UsesOf(ts) /\ nextId' = nextId + n /\ executed' = executed
      BY <1>6, <2>2 DEF ReceiveReply, history
    <3>2. /\ n \in Nat /\ nextId \in Nat
          /\ DOMAIN pending' = 1 .. n
          /\ \A j \in 1 .. n : pending'[j].id = nextId + j - 1
      BY <3>1, UsesOfType, LenProperties DEF TypeInv, TypeOK
    <3>3. \A k \in DOMAIN executed : executed[k] \in Nat /\ executed[k] < nextId
      BY ExecutedFacts DEF IdsInv
    <3> HIDE DEF n
    <3>4. \A i, j \in DOMAIN pending' : i < j => pending'[i].id < pending'[j].id
      BY <3>2
    <3>5. \A j \in DOMAIN pending' : pending'[j].id < nextId'
      BY <3>1, <3>2
    <3>6. ASSUME NEW k \in DOMAIN executed PROVE executed[k] < nextId'
      BY <3>1, <3>2, <3>3
    <3>7. ASSUME NEW k \in DOMAIN executed, NEW j \in DOMAIN pending'
          PROVE  executed[k] < pending'[j].id
      BY <3>2, <3>3
    <3> QED BY <3>1, <3>4, <3>5, <3>6, <3>7 DEF IdsInv, Increasing
  <2> QED BY <2>1, <2>2
<1>7. CASE AuthorizeTool
  <2>1. CASE Answer("denied", TRUE)
    BY <1>7, <2>1, IdsAdvanced DEF AuthorizeTool, Answer, history
  <2>2. CASE ~Answer("denied", TRUE)
    BY <1>7, <2>2, IdsKept DEF AuthorizeTool, Advance, history
  <2> QED BY <2>1, <2>2
<1>8. CASE OperatorAllows
  BY <1>8, IdsKept DEF OperatorAllows, Advance
<1>9. CASE OperatorDenies \/ GapRecovered
  BY <1>9, IdsAdvanced DEF OperatorDenies, GapRecovered, Answer, history
<1>10. ASSUME NEW denied \in HookDenials, PreHook(denied)
       PROVE  IdsInv'
  BY <1>10, IdsAdvanced, IdsKept DEF PreHook, Answer, Advance, history
<1>11. ASSUME NEW denied \in HookDenials, PostHook(denied)
       PROVE  IdsInv'
  BY <1>11, IdsAdvanced DEF PostHook, Answer, history
<1>12. CASE GapHalts
  BY <1>12, IdsDropped DEF GapHalts, Continue, history
<1>13. CASE ExecuteErrs \/ \E state \in {"plus", "zero", "minus"} : ExecuteTool(state)
  <2>1. /\ pc = "execute" /\ executed' = Append(executed, Current.id)
        /\ nextId' = nextId
        /\ pending' = <<>> \/ (pending' = pending /\ pc' \in AnswerPCs)
    BY <1>13 DEF ExecuteErrs, ExecuteTool, EndTurn
  <2>2. /\ Current.id \in Nat \ {0} /\ Current.id < nextId
        /\ \A k \in DOMAIN executed : executed[k] < Current.id
        /\ \A j \in DOMAIN pending : j # 1 => Current.id < pending[j].id
    BY <2>1, CurrentAbove
  <2>3. /\ executed \in Seq(Nat \ {0}) /\ Increasing(executed) /\ nextId \in Nat
    BY DEF TypeInv, TypeOK, IdsInv
  <2>4. /\ Increasing(executed')
        /\ \A k \in DOMAIN executed' :
             \/ executed'[k] = Current.id
             \/ (k \in DOMAIN executed /\ executed'[k] = executed[k])
    BY <2>1, <2>2, <2>3, AppendIncreasing
  <2>5. \A k \in DOMAIN executed' : executed'[k] < nextId'
    BY <2>1, <2>2, <2>4 DEF IdsInv
  <2>6. CASE pending' = <<>>
    BY <2>4, <2>5, <2>6 DEF IdsInv
  <2>7. CASE pending' = pending /\ pc' \in AnswerPCs
    <3>1. /\ Current = pending[1] /\ \A j \in DOMAIN pending : pending[j].id \in Nat
          /\ pc \notin AnswerPCs
      BY <2>1, PendingFacts
    <3>2. ASSUME NEW k \in DOMAIN executed', NEW j \in DOMAIN pending'
          PROVE  \/ executed'[k] < pending'[j].id
                 \/ j = 1 /\ pc' \in AnswerPCs /\ executed'[k] <= pending'[j].id
      <4>1. CASE executed'[k] = Current.id
        BY <2>2, <2>7, <3>1, <4>1
      <4>2. CASE k \in DOMAIN executed /\ executed'[k] = executed[k]
        BY <2>7, <3>1, <4>2 DEF IdsInv
      <4> QED BY <2>4, <4>1, <4>2
    <3>3. \A i, j \in DOMAIN pending' : i < j => pending'[i].id < pending'[j].id
      BY <2>7 DEF IdsInv
    <3>4. \A j \in DOMAIN pending' : pending'[j].id < nextId'
      BY <2>1, <2>7 DEF IdsInv
    <3> QED BY <2>4, <2>5, <3>2, <3>3, <3>4 DEF IdsInv
  <2> QED BY <2>1, <2>6, <2>7
<1>14. CASE Exhausted \/ UNCHANGED vars
  BY <1>14, IdsKept DEF Exhausted, vars
<1> QED
  BY <1>1, <1>2, <1>3, <1>4, <1>5, <1>6, <1>7, <1>8, <1>9, <1>10, <1>11, <1>12,
     <1>13, <1>14
     DEF Next, Operator, TurnThread, ApiStep, ToolStep

(* The typing and the order of the ids hold in every reachable state. *)
LEMMA IdsInvHolds == Spec => [](TypeInv /\ IdsInv)
<1>1. Init => IdsInv
  BY DEF Init, IdsInv, Increasing
<1> QED BY <1>1, IdsNext, TypeInvHolds, PTL DEF Spec

(* No tool use ever runs twice or out of order, with any mix of refusals,  *)
(* halts, recoveries, failures and cancelled turns.                        *)
THEOREM ToolsInOrder == Spec => []ToolsRunOnceInOrder
<1>1. IdsInv => ToolsRunOnceInOrder
  BY DEF IdsInv, ToolsRunOnceInOrder
<1> QED BY <1>1, IdsInvHolds, PTL

--------------------------------------------------------------------------------
(* Refused tool uses.  The id of a refused use is settled: it is neither   *)
(* among those that ran nor among those still to come, and no later reply  *)
(* can bring it back.                                                      *)

Refused(m) == m.why \in {"denied", "hook"}

Settled(id) ==
  /\ id < nextId
  /\ \A j \in DOMAIN pending : id < pending[j].id
  /\ \A k \in DOMAIN executed : id # executed[k]

SettledNext(id) ==
  /\ id < nextId'
  /\ \A j \in DOMAIN pending' : id < pending'[j].id
  /\ \A k \in DOMAIN executed' : id # executed'[k]

RefusedInv ==
  \A i \in DOMAIN session : Refused(session[i]) => Settled(session[i].answers)

(* Every element of the conversation is a well-typed message. *)
LEMMA MessageFacts ==
  ASSUME TypeInv, NEW i \in DOMAIN session
  PROVE  session[i] \in Message /\ session[i].answers \in Nat
<1>1. session \in Seq(Message) /\ i \in 1 .. Len(session)
  BY LenProperties DEF TypeInv, TypeOK
<1>2. session[i] \in Message
  BY <1>1, ElementOfSeq
<1> QED BY <1>2 DEF Message

(* The invariant survives when settled ids stay settled and every message  *)
(* of the new session is an old one, no refusal, or settled anew.          *)
LEMMA RefusedStep ==
  ASSUME TypeInv, RefusedInv,
         \A id \in Nat : Settled(id) => SettledNext(id),
         \A i \in DOMAIN session' :
           \/ \E j \in DOMAIN session : session'[i] = session[j]
           \/ ~Refused(session'[i])
           \/ SettledNext(session'[i].answers)
  PROVE  RefusedInv'
<1> SUFFICES ASSUME NEW i \in DOMAIN session', Refused(session'[i])
             PROVE  SettledNext(session'[i].answers)
  BY DEF RefusedInv, Refused, Settled, SettledNext
<1>1. ASSUME NEW j \in DOMAIN session, session'[i] = session[j]
      PROVE  SettledNext(session'[i].answers)
  BY <1>1, MessageFacts DEF RefusedInv
<1> QED BY <1>1

(* The messages after a push are the old ones and the new one. *)
LEMMA PushElements ==
  ASSUME TypeInv, NEW m \in Message, Push(m), NEW i \in DOMAIN session'
  PROVE  \/ \E j \in DOMAIN session : session'[i] = session[j]
         \/ session'[i] = m
<1>1. session \in Seq(Message) /\ session' = Append(session, m)
  BY DEF Push, TypeInv, TypeOK
<1>2. /\ session' \in Seq(Message) /\ Len(session') = Len(session) + 1
      /\ \A j \in 1 .. Len(session) : session'[j] = session[j]
      /\ session'[Len(session) + 1] = m
  BY <1>1, AppendProperties
<1>3. /\ Len(session) \in Nat /\ DOMAIN session = 1 .. Len(session)
      /\ DOMAIN session' = 1 .. Len(session) + 1
  BY <1>1, <1>2, LenProperties
<1> QED BY <1>2, <1>3

(* The messages after a compaction are old ones or the summary. *)
LEMMA CompactElements ==
  ASSUME NEW s \in Seq(Message), NEW i \in DOMAIN Compact(s)
  PROVE  \/ \E j \in DOMAIN s : Compact(s)[i] = s[j]
         \/ Compact(s)[i] = Plain("summary")
<1>1. CASE ~ShouldCompact(s)
  BY <1>1 DEF Compact
<1>2. CASE ShouldCompact(s)
  <2> DEFINE first == Len(s) - PreserveRecent + 1
             recent == SubSeq(s, first, Len(s))
             head == <<Plain("summary")>>
  <2>1. /\ Len(s) \in Nat /\ PreserveRecent \in Nat \ {0}
        /\ Len(s) > PreserveRecent /\ DOMAIN s = 1 .. Len(s)
    BY <1>2, SessionAssumption, LenProperties DEF ShouldCompact
  <2>2. \A j \in first .. Len(s) : s[j] \in Message
    BY <2>1, ElementOfSeq
  <2>3. /\ recent \in Seq(Message) /\ Len(recent) = PreserveRecent
        /\ \A j \in 1 .. PreserveRecent : recent[j] = s[first + j - 1]
    BY <2>1, <2>2, SubSeqProperties
  <2>4. head \in Seq(Message) /\ Len(head) = 1 /\ head[1] = Plain("summary")
    BY PlainIsMessage DEF Kinds
  <2> HIDE DEF recent, head
  <2>5. /\ head \o recent \in Seq(Message) /\ Len(head \o recent) = 1 + PreserveRecent
        /\ \A j \in 1 .. 1 + PreserveRecent :
             (head \o recent)[j] = IF j <= 1 THEN head[j] ELSE recent[j - 1]
    <3>1. /\ head \o recent \in Seq(Message)
          /\ Len(head \o recent) = Len(head) + Len(recent)
          /\ \A j \in 1 .. Len(head) + Len(recent) :
               (head \o recent)[j] = IF j <= Len(head) THEN head[j]
                                     ELSE recent[j - Len(head)]
      BY <2>3, <2>4, ConcatProperties
    <3> QED BY <2>3, <2>4, <3>1
  <2>6. Compact(s) = head \o recent /\ i \in 1 .. 1 + PreserveRecent
    BY <1>2, <2>5, LenProperties DEF Compact, head, recent
  <2>7. CASE i = 1
    BY <2>1, <2>4, <2>5, <2>6, <2>7
  <2>8. CASE i # 1
    <3>1. i - 1 \in 1 .. PreserveRecent /\ first + (i - 1) - 1 \in 1 .. Len(s)
      BY <2>1, <2>6, <2>8
    <3>2. (head \o recent)[i] = recent[i - 1]
      BY <2>1, <2>5, <2>6, <2>8
    <3>3. recent[i - 1] = s[first + (i - 1) - 1]
      BY <2>3, <3>1
    <3> QED BY <2>1, <2>6, <3>1, <3>2, <3>3
  <2> QED BY <2>7, <2>8
<1> QED BY <1>1, <1>2

(* What leaves settled ids settled: losing pending uses, ... *)
LEMMA SettledDropped ==
  ASSUME pending' = <<>> \/ pending' = pending, UNCHANGED <<executed, nextId>>
  PROVE  \A id \in Nat : Settled(id) => SettledNext(id)
BY DEF Settled, SettledNext

(* ... being done with the current one, ... *)
LEMMA SettledAdvanced ==
  ASSUME TypeInv, pc \in ToolPCs, Continue(Tail(pending)), UNCHANGED <<executed, nextId>>
  PROVE  \A id \in Nat : Settled(id) => SettledNext(id)
<1>1. /\ Len(pending) \in Nat \ {0} /\ DOMAIN pending = 1 .. Len(pending)
      /\ pending' = Tail(pending) /\ DOMAIN pending' = 1 .. Len(pending) - 1
      /\ \A j \in 1 .. Len(pending) - 1 : pending'[j] = pending[j + 1]
  BY PendingFacts DEF Continue
<1>2. \A j \in DOMAIN pending' : j + 1 \in DOMAIN pending /\ pending'[j] = pending[j + 1]
  BY <1>1
<1> QED BY <1>2 DEF Settled, SettledNext

(* ... and running it. *)
LEMMA SettledExecuted ==
  ASSUME TypeInv, IdsInv, pc \in ToolPCs \ AnswerPCs,
         executed' = Append(executed, Current.id), nextId' = nextId,
         pending' = <<>> \/ pending' = pending
  PROVE  \A id \in Nat : Settled(id) => SettledNext(id)
<1>1. /\ Current.id \in Nat \ {0}
      /\ \A k \in DOMAIN executed : executed[k] < Current.id
  BY CurrentAbove
<1>2. executed \in Seq(Nat \ {0}) /\ Increasing(executed)
  BY DEF TypeInv, TypeOK, IdsInv
<1>3. \A k \in DOMAIN executed' :
        \/ executed'[k] = Current.id
        \/ (k \in DOMAIN executed /\ executed'[k] = executed[k])
  BY <1>1, <1>2, AppendIncreasing
<1>4. 1 \in DOMAIN pending /\ Current = pending[1]
  BY PendingFacts
<1> SUFFICES ASSUME NEW id \in Nat, Settled(id) PROVE SettledNext(id)
  OBVIOUS
<1>5. id < Current.id
  BY <1>4 DEF Settled
<1>6. \A k \in DOMAIN executed' : id # executed'[k]
  BY <1>1, <1>3, <1>5 DEF Settled
<1> QED BY <1>6 DEF Settled, SettledNext

(* A refusal settles the id it answers. *)
LEMMA RefusalSettles ==
  ASSUME TypeInv, IdsInv, pc \in ToolPCs \ AnswerPCs,
         Continue(Tail(pending)), UNCHANGED <<executed, nextId>>
  PROVE  SettledNext(Current.id)
<1>1. /\ Current.id \in Nat /\ Current.id < nextId
      /\ \A k \in DOMAIN executed : executed[k] < Current.id
      /\ \A j \in DOMAIN pending : j # 1 => Current.id < pending[j].id
  BY CurrentAbove
<1>2. /\ Len(pending) \in Nat \ {0} /\ DOMAIN pending = 1 .. Len(pending)
      /\ pending' = Tail(pending) /\ DOMAIN pending' = 1 .. Len(pending) - 1
      /\ \A j \in 1 .. Len(pending) - 1 : pending'[j] = pending[j + 1]
  BY PendingFacts DEF Continue
<1>3. \A j \in DOMAIN pending' : /\ j + 1 \in DOMAIN pending /\ j + 1 # 1
                                 /\ pending'[j] = pending[j + 1]
  BY <1>2
<1>4. \A k \in DOMAIN executed : executed[k] \in Nat
  BY ExecutedFacts
<1> QED BY <1>1, <1>3, <1>4 DEF SettledNext

(* A step that adds at most one message, no refusal. *)
LEMMA RefusedPush ==
  ASSUME TypeInv, RefusedInv, NEW m \in Message, ~Refused(m),
         Push(m) \/ session' = session,
         \A id \in Nat : Settled(id) => SettledNext(id)
  PROVE  RefusedInv'
<1>1. \A i \in DOMAIN session' : \/ \E j \in DOMAIN session : session'[i] = session[j]
                               \/ ~Refused(session'[i])
  <2>1. CASE Push(m)
    BY <2>1, PushElements
  <2>2. CASE session' = session
    BY <2>2
  <2> QED BY <2>1, <2>2
<1> QED BY <1>1, RefusedStep

(* A step that leaves the messages alone. *)
LEMMA RefusedSame ==
  ASSUME TypeInv, RefusedInv, session' = session,
         \A id \in Nat : Settled(id) => SettledNext(id)
  PROVE  RefusedInv'
BY RefusedStep

(* The end of an iteration: a refusal before the tool ran, ... *)
LEMMA RefusedAnswer ==
  ASSUME TypeInv, IdsInv, RefusedInv, pc \in ToolPCs \ AnswerPCs,
         NEW why \in Whys, Answer(why, TRUE), UNCHANGED <<executed, nextId>>
  PROVE  RefusedInv'
<1> DEFINE m == ToolResult(Current.id, why, TRUE)
<1>1. m \in Message /\ Push(m) /\ m.answers = Current.id
  BY CurrentType, ResultIsMessage DEF Answer, ToolResult
<1>2. SettledNext(Current.id)
  BY RefusalSettles DEF Answer
<1>3. \A id \in Nat : Settled(id) => SettledNext(id)
  BY SettledAdvanced DEF Answer
<1> HIDE DEF m
<1>4. \A i \in DOMAIN session' : \/ \E j \in DOMAIN session : session'[i] = session[j]
                               \/ SettledNext(session'[i].answers)
  BY <1>1, <1>2, PushElements
<1> QED BY <1>3, <1>4, RefusedStep

(* ... or the output of one that did. *)
LEMMA OutputAnswer ==
  ASSUME TypeInv, RefusedInv, pc \in ToolPCs, NEW error \in BOOLEAN,
         Answer("output", error), UNCHANGED <<executed, nextId>>
  PROVE  RefusedInv'
<1> DEFINE m == ToolResult(Current.id, "output", error)
<1>1. "output" \in Whys
  BY DEF Whys
<1>2. m \in Message /\ Push(m)
  BY <1>1, CurrentType, ResultIsMessage DEF Answer
<1>3. ~Refused(m)
  BY DEF Refused, ToolResult
<1>4. \A id \in Nat : Settled(id) => SettledNext(id)
  BY SettledAdvanced DEF Answer
<1> HIDE DEF m
<1> QED BY <1>2, <1>3, <1>4, RefusedPush

(* A step keeps every refused id out of what ran and what may run. *)
LEMMA RefusedNext == TypeInv /\ IdsInv /\ RefusedInv /\ [Next]_vars => RefusedInv'
<1> SUFFICES ASSUME TypeInv, IdsInv, RefusedInv, [Next]_vars PROVE RefusedInv'
  OBVIOUS
<1> USE DEF ToolPCs, AnswerPCs
<1>1. \A kind \in Kinds : Plain(kind) \in Message /\ ~Refused(Plain(kind))
  BY PlainIsMessage DEF Plain, Refused
<1>2. CASE StartTurn
  BY <1>1, <1>2, RefusedPush, SettledDropped DEF StartTurn, Advance, Kinds, history
<1>3. CASE Cancel \/ LoopTop \/ SendRequest \/ StreamFails \/ Exhausted \/ UNCHANGED vars
  BY <1>3, RefusedSame, SettledDropped
     DEF Cancel, LoopTop, SendRequest, StreamFails, Exhausted, vars, EndTurn,
         Advance, history
<1>4. ASSUME NEW ts \in ToolNames, NEW u \in Tokens \cup {NoUsage},
             NEW stopped \in BOOLEAN, ReceiveReply(ts, u, stopped)
      PROVE  RefusedInv'
  <2>1. CASE cancelled \/ ~stopped
    BY <1>4, <2>1, RefusedSame, SettledDropped DEF ReceiveReply, EndTurn, history
  <2>2. CASE ~cancelled /\ stopped
    <3> DEFINE m == AssistantMessage(UsesOf(ts), u)
               n == Len(ts)
    <3>1. /\ pending' = UsesOf(ts) /\ nextId' = nextId + n /\ executed' = executed
          /\ Push(m)
      BY <1>4, <2>2 DEF ReceiveReply, history
    <3>2. /\ n \in Nat /\ nextId \in Nat
          /\ UsesOf(ts) \in Seq(ToolUse) /\ DOMAIN pending' = 1 .. n
          /\ \A j \in 1 .. n : pending'[j].id = nextId + j - 1
      BY <3>1, UsesOfType, LenProperties DEF TypeInv, TypeOK
    <3>3. m \in Message /\ ~Refused(m)
      BY <3>2, AssistantIsMessage DEF AssistantMessage, Plain, Refused
    <3> HIDE DEF n, m
    <3>4. \A id \in Nat : Settled(id) => SettledNext(id)
      BY <3>1, <3>2 DEF Settled, SettledNext
    <3> QED BY <3>1, <3>3, <3>4, RefusedPush
  <2> QED BY <2>1, <2>2
<1>5. CASE Finish
  <2>1. \A id \in Nat : Settled(id) => SettledNext(id)
    BY <1>5, SettledDropped DEF Finish, EndTurn, history
  <2>2. session \in Seq(Message) /\ (session' = session \/ session' = Compact(session))
    BY <1>5 DEF Finish, TypeInv, TypeOK
  <2>3. ~Refused(Plain("summary"))
    BY DEF Refused, Plain
  <2>4. \A i \in DOMAIN session' : \/ \E j \in DOMAIN session : session'[i] = session[j]
                                 \/ ~Refused(session'[i])
    BY <2>2, <2>3, CompactElements
  <2> QED BY <2>1, <2>4, RefusedStep
<1>6. CASE AuthorizeTool
  <2>1. CASE Answer("denied", TRUE)
    BY <1>6, <2>1, RefusedAnswer DEF AuthorizeTool, Whys, history
  <2>2. CASE ~Answer("denied", TRUE)
    BY <1>6, <2>2, RefusedSame, SettledDropped DEF AuthorizeTool, Advance, history
  <2> QED BY <2>1, <2>2
<1>7. CASE OperatorAllows
  BY <1>7, RefusedSame, SettledDropped DEF OperatorAllows, Advance
<1>8. CASE OperatorDenies
  BY <1>8, RefusedAnswer DEF OperatorDenies, Whys, history
<1>9. ASSUME NEW denied \in HookDenials, PreHook(denied)
      PROVE  RefusedInv'
  BY <1>9, RefusedAnswer, RefusedSame, SettledDropped DEF PreHook, Advance, Whys, history
<1>10. ASSUME NEW denied \in HookDenials, PostHook(denied)
       PROVE  RefusedInv'
  <2>1. (toolFailed \/ denied) \in BOOLEAN
    OBVIOUS
  <2> QED BY <1>10, <2>1, OutputAnswer DEF PostHook, history
<1>11. CASE \E state \in {"plus", "zero", "minus"} : ExecuteTool(state)
  BY <1>11, RefusedSame, SettledExecuted DEF ExecuteTool
<1>12. CASE ExecuteErrs
  BY <1>1, <1>12, RefusedPush, SettledExecuted DEF ExecuteErrs, EndTurn, Kinds
<1>13. CASE GapRecovered
  BY <1>1, <1>13, RefusedPush, SettledAdvanced DEF GapRecovered, Kinds, history
<1>14. CASE GapHalts
  <2> DEFINE m == ToolResult(Current.id, "halt", TRUE)
  <2>1. "halt" \in Whys /\ Current.id \in Nat
    BY <1>14, CurrentType DEF GapHalts, Whys
  <2>2. m \in Message /\ Push(m)
    BY <1>14, <2>1, ResultIsMessage DEF GapHalts
  <2>3. ~Refused(m)
    BY DEF Refused, ToolResult
  <2>4. \A id \in Nat : Settled(id) => SettledNext(id)
    BY <1>14, SettledDropped DEF GapHalts, Continue, history
  <2> HIDE DEF m
  <2> QED BY <2>2, <2>3, <2>4, RefusedPush
<1> QED
  BY <1>2, <1>3, <1>4, <1>5, <1>6, <1>7, <1>8, <1>9, <1>10, <1>11, <1>12, <1>13,
     <1>14
     DEF Next, Operator, TurnThread, ApiStep, ToolStep

(* What the policy, the operator or a hook refused never runs: not before  *)
(* the refusal, not later in the turn and not in any later turn.           *)
THEOREM RefusedStaysRefused == Spec => []RefusedNeverRuns
<1>1. Init => RefusedInv
  BY DEF Init, RefusedInv
<1>2. RefusedInv => RefusedNeverRuns
  BY DEF RefusedInv, Refused, Settled, RefusedNeverRuns
<1> QED BY <1>1, <1>2, RefusedNext, IdsInvHolds, PTL DEF Spec

--------------------------------------------------------------------------------
(* Permitted tool uses.  Permission is decided once, when a use is the     *)
(* current one, and the conversation is read long after: the link between  *)
(* the two is that a use waiting in the for loop is the very use the       *)
(* assistant message shows under that id.                                  *)

GrantedPCs == {"preHook", "execute", "gap", "postHook"}

Permitted(use) ==
  \/ mode = "Allow"
  \/ Rank(RequiredMode(use.tool)) <= Rank(mode)
  \/ use.id \in approved

Ran(id) == \E k \in DOMAIN executed : executed[k] = id

Shown(use) ==
  /\ use.id < nextId
  /\ Ran(use.id) => Permitted(use)
  /\ \A j \in DOMAIN pending : pending[j].id = use.id => pending[j] = use

ShownNext(use) ==
  /\ use.id < nextId'
  /\ (\E k \in DOMAIN executed' : executed'[k] = use.id) =>
       \/ mode' = "Allow"
       \/ Rank(RequiredMode(use.tool)) <= Rank(mode')
       \/ use.id \in approved'
  /\ \A j \in DOMAIN pending' : pending'[j].id = use.id => pending'[j] = use

PermInv ==
  /\ \A i \in DOMAIN session : \A u \in DOMAIN session[i].uses :
       Shown(session[i].uses[u])
  /\ pc \in GrantedPCs => Permitted(Current)

(* The tool uses of a message of the conversation are tool uses. *)
LEMMA UseFacts ==
  ASSUME TypeInv, NEW i \in DOMAIN session, NEW u \in DOMAIN session[i].uses
  PROVE  session[i].uses[u] \in ToolUse
<1>1. session[i].uses \in Seq(ToolUse)
  BY MessageFacts DEF Message
<1>2. u \in 1 .. Len(session[i].uses)
  BY <1>1, LenProperties
<1> QED BY <1>1, <1>2, ElementOfSeq

(* The invariant survives when shown uses stay so and every message of the *)
(* new session is an old one or shows only uses that are so anew.          *)
LEMMA PermStep ==
  ASSUME TypeInv, PermInv,
         \A use \in ToolUse : Shown(use) => ShownNext(use),
         \A i \in DOMAIN session' :
           \/ \E j \in DOMAIN session : session'[i] = session[j]
           \/ \A u \in DOMAIN session'[i].uses : ShownNext(session'[i].uses[u]),
         pc' \in GrantedPCs => Permitted(Current)'
  PROVE  PermInv'
<1>1. ASSUME NEW i \in DOMAIN session', NEW u \in DOMAIN session'[i].uses
      PROVE  ShownNext(session'[i].uses[u])
  <2>1. ASSUME NEW j \in DOMAIN session, session'[i] = session[j]
        PROVE  ShownNext(session'[i].uses[u])
    <3>1. u \in DOMAIN session[j].uses /\ session'[i].uses[u] = session[j].uses[u]
      BY <2>1
    <3>2. session[j].uses[u] \in ToolUse /\ Shown(session[j].uses[u])
      BY <3>1, UseFacts DEF PermInv
    <3> QED BY <3>1, <3>2
  <2> QED BY <1>1, <2>1
<1>2. \A i \in DOMAIN session' : \A u \in DOMAIN session'[i].uses :
        ShownNext(session'[i].uses[u])
  BY <1>1
<1> QED BY <1>2 DEF PermInv, Shown, ShownNext, Ran, Permitted

(* A step that adds at most one message without tool uses. *)
LEMMA PermPush ==
  ASSUME TypeInv, PermInv, NEW m \in Message, m.uses = <<>>,
         Push(m) \/ session' = session,
         \A use \in ToolUse : Shown(use) => ShownNext(use),
         pc' \in GrantedPCs => Permitted(Current)'
  PROVE  PermInv'
<1>1. \A i \in DOMAIN session' : \/ \E j \in DOMAIN session : session'[i] = session[j]
                               \/ session'[i] = m
  <2>1. CASE Push(m)
    BY <2>1, PushElements
  <2>2. CASE session' = session
    BY <2>2
  <2> QED BY <2>1, <2>2
<1>2. DOMAIN m.uses = {}
  OBVIOUS
<1>3. \A i \in DOMAIN session' :
        \/ \E j \in DOMAIN session : session'[i] = session[j]
        \/ \A u \in DOMAIN session'[i].uses : ShownNext(session'[i].uses[u])
  BY <1>1, <1>2
<1> QED BY <1>3, PermStep

(* A step that leaves the messages alone. *)
LEMMA PermSame ==
  ASSUME TypeInv, PermInv, session' = session,
         \A use \in ToolUse : Shown(use) => ShownNext(use),
         pc' \in GrantedPCs => Permitted(Current)'
  PROVE  PermInv'
BY PermStep

(* What leaves shown uses so: losing or keeping what is pending, ... *)
LEMMA ShownKept ==
  ASSUME pending' = <<>> \/ pending' = pending,
         UNCHANGED <<executed, nextId, mode>>, approved \subseteq approved'
  PROVE  \A use \in ToolUse : Shown(use) => ShownNext(use)
BY DEF Shown, ShownNext, Ran, Permitted

(* ... being done with the current use, ... *)
LEMMA ShownAdvanced ==
  ASSUME TypeInv, pc \in ToolPCs, Continue(Tail(pending)),
         UNCHANGED <<executed, nextId, mode, approved>>
  PROVE  \A use \in ToolUse : Shown(use) => ShownNext(use)
<1>1. /\ Len(pending) \in Nat \ {0} /\ DOMAIN pending = 1 .. Len(pending)
      /\ pending' = Tail(pending) /\ DOMAIN pending' = 1 .. Len(pending) - 1
      /\ \A j \in 1 .. Len(pending) - 1 : pending'[j] = pending[j + 1]
  BY PendingFacts DEF Continue
<1>2. \A j \in DOMAIN pending' : j + 1 \in DOMAIN pending /\ pending'[j] = pending[j + 1]
  BY <1>1
<1> QED BY <1>2 DEF Shown, ShownNext, Ran, Permitted

(* ... and running it: the use shown under its id is the current one,      *)
(* which is permitted.                                                     *)
LEMMA ShownExecuted ==
  ASSUME TypeInv, IdsInv, PermInv, pc = "execute",
         executed' = Append(executed, Current.id),
         UNCHANGED <<nextId, mode, approved>>,
         pending' = <<>> \/ pending' = pending
  PROVE  \A use \in ToolUse : Shown(use) => ShownNext(use)
<1>1. /\ Current.id \in Nat \ {0}
      /\ \A k \in DOMAIN executed : executed[k] < Current.id
  BY CurrentAbove DEF ToolPCs, AnswerPCs
<1>2. executed \in Seq(Nat \ {0}) /\ Increasing(executed)
  BY DEF TypeInv, TypeOK, IdsInv
<1>3. \A k \in DOMAIN executed' :
        \/ executed'[k] = Current.id
        \/ (k \in DOMAIN executed /\ executed'[k] = executed[k])
  BY <1>1, <1>2, AppendIncreasing
<1>4. 1 \in DOMAIN pending /\ Current = pending[1]
  BY PendingFacts DEF ToolPCs
<1>5. Permitted(Current)
  BY DEF PermInv, GrantedPCs
<1> SUFFICES ASSUME NEW use \in ToolUse, Shown(use) PROVE ShownNext(use)
  OBVIOUS
<1>6. ASSUME NEW k \in DOMAIN executed', executed'[k] = use.id
      PROVE  Permitted(use)
  <2>1. CASE executed'[k] = Current.id
    BY <1>4, <1>5, <1>6, <2>1 DEF Shown
  <2>2. CASE k \in DOMAIN executed /\ executed'[k] = executed[k]
    BY <1>6, <2>2 DEF Shown, Ran
  <2> QED BY <1>3, <2>1, <2>2
<1> QED BY <1>6 DEF Shown, ShownNext, Permitted

(* The verdict "allow" of the policy is a permission. *)
LEMMA AllowIsPermission ==
  ASSUME mode \in Modes, NEW use, RequiredMode(use.tool) \in Modes,
         Authorize(mode, use.tool, prompter) = "allow"
  PROVE  Permitted(use)
<1>1. ModeSuffices(mode, use.tool)
  BY DEF Authorize
<1>2. \A m \in Modes : Rank(m) \in Nat
  BY DEF Modes, Rank
<1> QED BY <1>1, <1>2 DEF ModeSuffices, Permitted

(* Every tool has a required mode, registered or not. *)
LEMMA RequiredIsMode ==
  ASSUME NEW tool \in Tools
  PROVE  RequiredMode(tool) \in Modes
BY RequirementsAssumption DEF RequiredMode, Modes

(* A step keeps what ran permitted and what may run about to be decided. *)
LEMMA PermNext == TypeInv /\ IdsInv /\ PermInv /\ [Next]_vars => PermInv'
<1> SUFFICES ASSUME TypeInv, IdsInv, PermInv, [Next]_vars PROVE PermInv'
  OBVIOUS
<1> USE DEF GrantedPCs
<1>1. \A kind \in Kinds : Plain(kind) \in Message /\ Plain(kind).uses = <<>>
  BY PlainIsMessage DEF Plain
<1>2. ASSUME pc \in ToolPCs, NEW why \in Whys, NEW error \in BOOLEAN
      PROVE  /\ ToolResult(Current.id, why, error) \in Message
             /\ ToolResult(Current.id, why, error).uses = <<>>
  <2>1. Current.id \in Nat
    BY <1>2, CurrentType
  <2> QED BY <2>1, ResultIsMessage DEF ToolResult
<1>3. ASSUME pc \in ToolPCs, NEW why \in Whys, NEW error \in BOOLEAN,
             Answer(why, error), UNCHANGED <<executed, nextId, mode, approved>>
      PROVE  PermInv'
  <2>1. \A use \in ToolUse : Shown(use) => ShownNext(use)
    BY <1>3, ShownAdvanced DEF Answer
  <2>2. pc' \notin GrantedPCs /\ Push(ToolResult(Current.id, why, error))
    BY <1>3 DEF Answer, Continue
  <2> QED BY <1>2, <1>3, <2>1, <2>2, PermPush
<1>4. CASE StartTurn
  BY <1>1, <1>4, PermPush, ShownKept DEF StartTurn, Advance, Kinds, history, config
<1>5. CASE LoopTop \/ SendRequest \/ StreamFails
  BY <1>5, PermSame, ShownKept
     DEF LoopTop, SendRequest, StreamFails, EndTurn, Advance, history, config
<1>6. CASE Cancel \/ Exhausted \/ UNCHANGED vars
  <2>1. /\ UNCHANGED <<session, pending, pc, executed, nextId, mode, approved>>
    BY <1>6 DEF Cancel, Exhausted, vars, history, config
  <2>2. pc' \in GrantedPCs => Permitted(Current)'
    BY <2>1 DEF PermInv, Permitted, Current
  <2> QED BY <2>1, <2>2, PermSame, ShownKept
<1>7. ASSUME NEW ts \in ToolNames, NEW u \in Tokens \cup {NoUsage},
             NEW stopped \in BOOLEAN, ReceiveReply(ts, u, stopped)
      PROVE  PermInv'
  <2>1. CASE cancelled \/ ~stopped
    BY <1>7, <2>1, PermSame, ShownKept DEF ReceiveReply, EndTurn, history, config
  <2>2. CASE ~cancelled /\ stopped
    <3> DEFINE m == AssistantMessage(UsesOf(ts), u)
               n == Len(ts)
    <3>1. /\ pending' = UsesOf(ts) /\ nextId' = nextId + n /\ Push(m)
          /\ UNCHANGED <<executed, mode, approved>>
          /\ pc' \notin GrantedPCs
      BY <1>7, <2>2 DEF ReceiveReply, history, config
    <3>2. /\ n \in Nat /\ nextId \in Nat
          /\ UsesOf(ts) \in Seq(ToolUse) /\ DOMAIN UsesOf(ts) = 1 .. n
          /\ \A j \in 1 .. n : UsesOf(ts)[j].id = nextId + j - 1
      BY UsesOfType, LenProperties DEF TypeInv, TypeOK
    <3>3. m \in Message /\ m.uses = UsesOf(ts)
      BY <3>2, AssistantIsMessage DEF AssistantMessage, Plain
    <3>4. \A k \in DOMAIN executed : executed[k] \in Nat /\ executed[k] < nextId
      BY ExecutedFacts DEF IdsInv
    <3> HIDE DEF n, m
    <3>5. ASSUME NEW use \in ToolUse, Shown(use) PROVE ShownNext(use)
      <4>1. use.id \in Nat /\ use.id < nextId
        BY <3>5 DEF Shown, ToolUse
      <4>2. \A j \in DOMAIN pending' : pending'[j].id # use.id
        BY <3>1, <3>2, <4>1
      <4> QED BY <3>1, <3>2, <3>5, <4>1, <4>2 DEF Shown, ShownNext, Ran, Permitted
    <3>6. ASSUME NEW v \in DOMAIN m.uses PROVE ShownNext(m.uses[v])
      <4>1. v \in 1 .. n /\ m.uses[v] = pending'[v] /\ m.uses[v].id = nextId + v - 1
        BY <3>1, <3>2, <3>3
      <4>2. \A j \in DOMAIN pending' : pending'[j].id = m.uses[v].id => j = v
        BY <3>1, <3>2, <4>1
      <4>3. \A k \in DOMAIN executed' : executed'[k] # m.uses[v].id
        BY <3>1, <3>2, <3>4, <4>1
      <4>4. m.uses[v].id < nextId'
        BY <3>1, <3>2, <4>1
      <4> QED BY <4>1, <4>2, <4>3, <4>4 DEF ShownNext
    <3>7. \A i \in DOMAIN session' :
            \/ \E j \in DOMAIN session : session'[i] = session[j]
            \/ \A v \in DOMAIN session'[i].uses : ShownNext(session'[i].uses[v])
      BY <3>1, <3>3, <3>6, PushElements
    <3> QED BY <3>1, <3>5, <3>7, PermStep
  <2> QED BY <2>1, <2>2
<1>8. CASE Finish
  <2>1. \A use \in ToolUse : Shown(use) => ShownNext(use)
    BY <1>8, ShownKept DEF Finish, EndTurn, history, config
  <2>2. session \in Seq(Message) /\ (session' = session \/ session' = Compact(session))
    BY <1>8 DEF Finish, TypeInv, TypeOK
  <2>3. DOMAIN Plain("summary").uses = {} /\ pc' \notin GrantedPCs
    BY <1>8 DEF Plain, Finish, EndTurn
  <2>4. \A i \in DOMAIN session' :
          \/ \E j \in DOMAIN session : session'[i] = session[j]
          \/ \A v \in DOMAIN session'[i].uses : ShownNext(session'[i].uses[v])
    BY <2>2, <2>3, CompactElements
  <2> QED BY <2>1, <2>3, <2>4, PermStep
<1>9. CASE AuthorizeTool
  <2>1. pc \in ToolPCs /\ UNCHANGED <<executed, nextId, mode, approved>>
    BY <1>9 DEF AuthorizeTool, ToolPCs, history, config
  <2>2. CASE Answer("denied", TRUE)
    BY <1>3, <2>1, <2>2 DEF Whys
  <2>3. CASE ~Answer("denied", TRUE)
    <3>1. /\ session' = session /\ pending' = pending
          /\ \/ pc' = "prompt"
             \/ pc' = "preHook" /\ Authorize(mode, Current.tool, prompter) = "allow"
      BY <1>9, <2>3 DEF AuthorizeTool, Advance
    <3>2. mode \in Modes /\ RequiredMode(Current.tool) \in Modes
      BY <2>1, CurrentType, RequiredIsMode, LoopAssumption DEF TypeInv, TypeOK, ToolUse
    <3>3. pc' = "preHook" => Permitted(Current)
      BY <3>1, <3>2, AllowIsPermission
    <3>4. pc' \in GrantedPCs => Permitted(Current)'
      BY <2>1, <3>1, <3>3 DEF Permitted, Current
    <3> QED BY <2>1, <3>1, <3>4, PermSame, ShownKept
  <2> QED BY <2>2, <2>3
<1>10. CASE OperatorAllows
  <2>1. /\ session' = session /\ pending' = pending
        /\ approved' = approved \cup {Current.id}
        /\ UNCHANGED <<executed, nextId, mode>>
    BY <1>10 DEF OperatorAllows, Advance, config
  <2>2. Permitted(Current)'
    BY <2>1 DEF Permitted, Current
  <2> QED BY <2>1, <2>2, PermSame, ShownKept
<1>11. CASE OperatorDenies
  BY <1>3, <1>11 DEF OperatorDenies, ToolPCs, Whys, history, config
<1>12. ASSUME NEW denied \in HookDenials, PreHook(denied)
       PROVE  PermInv'
  <2>1. /\ pc = "preHook" /\ UNCHANGED <<executed, nextId, mode, approved>>
    BY <1>12 DEF PreHook, history, config
  <2>2. CASE Answer("hook", TRUE)
    BY <1>3, <2>1, <2>2 DEF ToolPCs, Whys
  <2>3. CASE ~Answer("hook", TRUE)
    <3>1. UNCHANGED <<session, pending>>
      BY <1>12, <2>3 DEF PreHook, Advance
    <3>2. Permitted(Current)'
      BY <2>1, <3>1 DEF PermInv, Permitted, Current
    <3> QED BY <2>1, <3>1, <3>2, PermSame, ShownKept
  <2> QED BY <2>2, <2>3
<1>13. ASSUME NEW denied \in HookDenials, PostHook(denied)
       PROVE  PermInv'
  <2>1. (toolFailed \/ denied) \in BOOLEAN
    OBVIOUS
  <2> QED BY <1>3, <1>13, <2>1 DEF PostHook, ToolPCs, Whys, history, config
<1>14. ASSUME NEW state \in {"plus", "zero", "minus"}, ExecuteTool(state)
       PROVE  PermInv'
  <2>1. /\ pc = "execute" /\ executed' = Append(executed, Current.id)
        /\ UNCHANGED <<session, pending, nextId, mode, approved>>
    BY <1>14 DEF ExecuteTool, config
  <2>2. Permitted(Current)'
    BY <2>1 DEF PermInv, Permitted, Current
  <2> QED BY <2>1, <2>2, PermSame, ShownExecuted
<1>15. CASE ExecuteErrs
  <2>1. /\ pc = "execute" /\ executed' = Append(executed, Current.id)
        /\ pending' = <<>> /\ UNCHANGED <<nextId, mode, approved>>
        /\ Push(Plain("reflection")) /\ pc' \notin GrantedPCs
    BY <1>15 DEF ExecuteErrs, EndTurn, config
  <2> QED BY <1>1, <2>1, PermPush, ShownExecuted DEF Kinds
<1>16. CASE GapRecovered
  <2>1. /\ pc \in ToolPCs /\ Continue(Tail(pending)) /\ Push(Plain("recovery"))
        /\ UNCHANGED <<executed, nextId, mode, approved>> /\ pc' \notin GrantedPCs
    BY <1>16 DEF GapRecovered, Continue, ToolPCs, history, config
  <2> QED BY <1>1, <2>1, PermPush, ShownAdvanced DEF Kinds
<1>17. CASE GapHalts
  <2>1. /\ pc \in ToolPCs /\ pending' = <<>> /\ pc' \notin GrantedPCs
        /\ Push(ToolResult(Current.id, "halt", TRUE))
        /\ UNCHANGED <<executed, nextId, mode, approved>>
    BY <1>17 DEF GapHalts, Continue, ToolPCs, history, config
  <2>2. "halt" \in Whys
    BY DEF Whys
  <2> QED BY <1>2, <2>1, <2>2, PermPush, ShownKept
<1> QED
  BY <1>4, <1>5, <1>6, <1>7, <1>8, <1>9, <1>10, <1>11, <1>12, <1>13, <1>14, <1>15,
     <1>16, <1>17
     DEF Next, Operator, TurnThread, ApiStep, ToolStep

(* Whatever ran and is still in the conversation was within the mode, or   *)
(* the operator said yes to that very use, for every policy and mode.      *)
THEOREM PermittedRuns == Spec => []OnlyPermittedRuns
<1>1. Init => PermInv
  BY DEF Init, PermInv, GrantedPCs
<1>2. PermInv => OnlyPermittedRuns
  BY DEF PermInv, Shown, Ran, Permitted, OnlyPermittedRuns
<1> QED BY <1>1, <1>2, PermNext, IdsInvHolds, PTL DEF Spec

--------------------------------------------------------------------------------
(* The end of the conversation.  The loop breaks out only behind a reply   *)
(* without tools, and compaction keeps at least the last message.          *)

LastWord == IsAssistant(Len(session)) /\ session[Len(session)].uses = <<>>

LastWordInv ==
  pc = "finish" \/ (pc = "idle" /\ outcome = "done") => session # <<>> /\ LastWord

(* Compaction that does happen leaves the summary and the recent messages. *)
LEMMA CompactRecent ==
  ASSUME NEW s \in Seq(Message), ShouldCompact(s)
  PROVE  /\ Compact(s) \in Seq(Message)
         /\ Len(Compact(s)) = PreserveRecent + 1
         /\ Len(Compact(s)) <= Len(s)
         /\ Compact(s)[1] = Plain("summary")
         /\ \A k \in 0 .. PreserveRecent - 1 :
              Compact(s)[Len(Compact(s)) - k] = s[Len(s) - k]
<1> DEFINE first == Len(s) - PreserveRecent + 1
           recent == SubSeq(s, first, Len(s))
           head == <<Plain("summary")>>
<1>1. /\ Len(s) \in Nat /\ PreserveRecent \in Nat \ {0} /\ Len(s) > PreserveRecent
  BY SessionAssumption, LenProperties DEF ShouldCompact
<1>2. \A j \in first .. Len(s) : s[j] \in Message
  BY <1>1, ElementOfSeq
<1>3. /\ recent \in Seq(Message) /\ Len(recent) = PreserveRecent
      /\ \A j \in 1 .. PreserveRecent : recent[j] = s[first + j - 1]
  BY <1>1, <1>2, SubSeqProperties
<1>4. head \in Seq(Message) /\ Len(head) = 1 /\ head[1] = Plain("summary")
  BY PlainIsMessage DEF Kinds
<1>5. Compact(s) = head \o recent
  BY DEF Compact
<1> HIDE DEF recent, head
<1>6. /\ head \o recent \in Seq(Message)
      /\ Len(head \o recent) = Len(head) + Len(recent)
      /\ \A j \in 1 .. Len(head) + Len(recent) :
           (head \o recent)[j] = IF j <= Len(head) THEN head[j]
                                 ELSE recent[j - Len(head)]
  BY <1>3, <1>4, ConcatProperties
<1>7. /\ Len(Compact(s)) = PreserveRecent + 1
      /\ \A j \in 1 .. PreserveRecent + 1 :
           Compact(s)[j] = IF j <= 1 THEN head[j] ELSE recent[j - 1]
  BY <1>1, <1>3, <1>4, <1>5, <1>6
<1>8. Compact(s)[1] = Plain("summary")
  BY <1>1, <1>4, <1>7
<1>9. ASSUME NEW k \in 0 .. PreserveRecent - 1
      PROVE  Compact(s)[Len(Compact(s)) - k] = s[Len(s) - k]
  <2>1. /\ PreserveRecent - k \in 1 .. PreserveRecent
        /\ PreserveRecent + 1 - k \in 1 .. PreserveRecent + 1
        /\ ~(PreserveRecent + 1 - k <= 1)
        /\ (PreserveRecent + 1 - k) - 1 = PreserveRecent - k
        /\ first + (PreserveRecent - k) - 1 = Len(s) - k
    BY <1>1
  <2>2. Compact(s)[PreserveRecent + 1 - k] = recent[PreserveRecent - k]
    BY <1>7, <2>1
  <2>3. recent[PreserveRecent - k] = s[Len(s) - k]
    BY <1>3, <2>1
  <2> QED BY <1>1, <1>7, <2>2, <2>3
<1> QED BY <1>1, <1>5, <1>6, <1>7, <1>8, <1>9

(* Compacted or not, the conversation ends as it did. *)
LEMMA CompactLast ==
  ASSUME NEW s \in Seq(Message), s # <<>>
  PROVE  Compact(s) # <<>> /\ Compact(s)[Len(Compact(s))] = s[Len(s)]
<1>1. CASE ~ShouldCompact(s)
  BY <1>1 DEF Compact
<1>2. CASE ShouldCompact(s)
  <2>1. /\ PreserveRecent \in Nat \ {0} /\ 0 \in 0 .. PreserveRecent - 1
        /\ Len(s) \in Nat
    BY SessionAssumption, LenProperties
  <2>2. /\ Compact(s) \in Seq(Message) /\ Len(Compact(s)) = PreserveRecent + 1
        /\ Compact(s)[Len(Compact(s)) - 0] = s[Len(s) - 0]
    BY <1>2, <2>1, CompactRecent
  <2> QED BY <2>1, <2>2, EmptySeq
<1> QED BY <1>1, <1>2

(* The last message after a push is the one pushed. *)
LEMMA PushLast ==
  ASSUME TypeInv, NEW m, Push(m)
  PROVE  session' # <<>> /\ session'[Len(session')] = m
BY AppendProperties DEF Push, TypeInv, TypeOK

(* Only a reply without tools leads to the end of the loop, and only the   *)
(* end of the loop to the outcome "done".                                  *)
LEMMA LastWordNext == TypeInv /\ LastWordInv /\ [Next]_vars => LastWordInv'
<1> SUFFICES ASSUME TypeInv, LastWordInv, [Next]_vars PROVE LastWordInv'
  OBVIOUS
<1>1. ASSUME UNCHANGED <<session, pc, outcome>> PROVE LastWordInv'
  BY <1>1 DEF LastWordInv, LastWord, IsAssistant
<1>2. ASSUME pc' \notin {"finish", "idle"} PROVE LastWordInv'
  BY <1>2 DEF LastWordInv
<1>3. ASSUME pc' = "idle", outcome' # "done" PROVE LastWordInv'
  BY <1>3 DEF LastWordInv
<1>4. CASE StartTurn \/ SendRequest
  BY <1>2, <1>4 DEF StartTurn, SendRequest, Advance
<1>5. CASE Cancel \/ Exhausted \/ UNCHANGED vars
  BY <1>1, <1>5 DEF Cancel, Exhausted, vars
<1>6. CASE LoopTop
  BY <1>2, <1>3, <1>6 DEF LoopTop, EndTurn, Advance
<1>7. CASE StreamFails
  BY <1>3, <1>7 DEF StreamFails, EndTurn
<1>8. ASSUME NEW ts \in ToolNames, NEW u \in Tokens \cup {NoUsage},
             NEW stopped \in BOOLEAN, ReceiveReply(ts, u, stopped)
      PROVE  LastWordInv'
  <2>1. CASE cancelled \/ ~stopped
    BY <1>3, <1>8, <2>1 DEF ReceiveReply, EndTurn
  <2>2. CASE ~cancelled /\ stopped
    <3> DEFINE m == AssistantMessage(UsesOf(ts), u)
    <3>1. Push(m) /\ pc' = IF ts = <<>> THEN "finish" ELSE "tool"
      BY <1>8, <2>2 DEF ReceiveReply
    <3>2. CASE ts # <<>>
      BY <1>2, <3>1, <3>2
    <3>3. CASE ts = <<>>
      <4>1. UsesOf(ts) \in Seq(ToolUse) /\ Len(UsesOf(ts)) = 0
        BY <3>3, UsesOfType DEF TypeInv, TypeOK
      <4>2. UsesOf(ts) = <<>>
        BY <4>1, EmptySeq
      <4>3. m.kind = "assistant" /\ m.uses = <<>>
        BY <4>2 DEF AssistantMessage, Plain
      <4> HIDE DEF m
      <4>4. session' # <<>> /\ session'[Len(session')] = m
        BY <3>1, PushLast
      <4> QED BY <4>3, <4>4 DEF LastWordInv, LastWord, IsAssistant
    <3> QED BY <3>2, <3>3
  <2> QED BY <2>1, <2>2
<1>9. CASE Finish
  <2>1. session \in Seq(Message) /\ session # <<>> /\ LastWord
    BY <1>9 DEF Finish, LastWordInv, TypeInv, TypeOK
  <2>2. session' = session \/ session' = Compact(session)
    BY <1>9 DEF Finish
  <2>3. session' # <<>> /\ session'[Len(session')] = session[Len(session)]
    BY <2>1, <2>2, CompactLast
  <2> QED BY <2>1, <2>3 DEF LastWordInv, LastWord, IsAssistant
<1>10. CASE AuthorizeTool \/ OperatorAllows \/ OperatorDenies
  BY <1>2, <1>10 DEF AuthorizeTool, OperatorAllows, OperatorDenies, Answer, Continue,
                     Advance
<1>11. CASE \E denied \in HookDenials : PreHook(denied) \/ PostHook(denied)
  BY <1>2, <1>11 DEF PreHook, PostHook, Answer, Continue, Advance
<1>12. CASE \E state \in {"plus", "zero", "minus"} : ExecuteTool(state)
  BY <1>2, <1>12 DEF ExecuteTool
<1>13. CASE ExecuteErrs
  BY <1>3, <1>13 DEF ExecuteErrs, EndTurn
<1>14. CASE GapRecovered \/ GapHalts
  BY <1>2, <1>14 DEF GapRecovered, GapHalts, Continue
<1> QED
  BY <1>4, <1>5, <1>6, <1>7, <1>8, <1>9, <1>10, <1>11, <1>12, <1>13, <1>14
     DEF Next, Operator, TurnThread, ApiStep, ToolStep

(* A turn that ran to its end leaves the model's answer as the last        *)
(* message, where run_loop and the printers look for it.                   *)
THEOREM AnswerIsLast == Spec => []LastWordSurvives
<1>1. Init => LastWordInv
  BY DEF Init, LastWordInv
<1>2. LastWordInv => LastWordSurvives
  BY DEF LastWordInv, LastWord, LastWordSurvives
<1> QED BY <1>1, <1>2, LastWordNext, TypeInvHolds, PTL DEF Spec

(* The steps of a turn append one message at most; the end of one whose    *)
(* usage reached the threshold compacts.                                   *)
THEOREM HistoryIsKept == Spec => HistoryGrowsOrCompacts
<1> DEFINE Kept ==
             \/ session' = Append(session, session'[Len(session')])
             \/ /\ pc = "finish" /\ outcome' = "done"
                /\ usage.latest >= Threshold
                /\ Len(session') <= Len(session)
                /\ session'[1] = Plain("summary")
                /\ \A k \in 0 .. PreserveRecent - 1 :
                     session'[Len(session') - k] = session[Len(session) - k]
<1>1. ASSUME TypeInv, [Next]_vars PROVE Kept \/ session' = session
  <2>1. ASSUME NEW m, Push(m) PROVE Kept
    BY <1>1, <2>1, PushLast DEF Push
  <2>2. CASE StartTurn
    BY <2>1, <2>2 DEF StartTurn
  <2>3. CASE \/ Cancel \/ LoopTop \/ SendRequest \/ StreamFails \/ OperatorAllows
             \/ Exhausted \/ UNCHANGED vars
             \/ \E state \in {"plus", "zero", "minus"} : ExecuteTool(state)
    BY <2>3 DEF Cancel, LoopTop, SendRequest, StreamFails, OperatorAllows, Exhausted,
                vars, ExecuteTool
  <2>4. ASSUME NEW ts \in ToolNames, NEW u \in Tokens \cup {NoUsage},
               NEW stopped \in BOOLEAN, ReceiveReply(ts, u, stopped)
        PROVE  Kept \/ session' = session
    BY <2>1, <2>4 DEF ReceiveReply
  <2>5. CASE Finish
    <3>1. /\ session \in Seq(Message) /\ pc = "finish" /\ outcome' = "done"
          /\ usage.latest \in Nat /\ Threshold \in Nat /\ CounterModulus \in Nat \ {0}
          /\ session' = IF usage.latest < Threshold THEN session ELSE Compact(session)
      BY <1>1, <2>5, LoopAssumption, SessionAssumption
         DEF Finish, EndTurn, TypeInv, TypeOK, Tracker
    <3>2. CASE usage.latest < Threshold \/ ~ShouldCompact(session)
      BY <3>1, <3>2 DEF Compact
    <3>3. CASE ~(usage.latest < Threshold) /\ ShouldCompact(session)
      BY <3>1, <3>3, CompactRecent, SMTT(30)
    <3> QED BY <3>2, <3>3
  <2>6. CASE AuthorizeTool \/ OperatorDenies
    BY <2>1, <2>6 DEF AuthorizeTool, OperatorDenies, Answer
  <2>7. CASE \E denied \in HookDenials : PreHook(denied) \/ PostHook(denied)
    BY <2>1, <2>7 DEF PreHook, PostHook, Answer
  <2>8. CASE ExecuteErrs \/ GapRecovered \/ GapHalts
    BY <2>1, <2>8 DEF ExecuteErrs, GapRecovered, GapHalts
  <2> HIDE DEF Kept
  <2> QED
    BY <1>1, <2>2, <2>3, <2>4, <2>5, <2>6, <2>7, <2>8
       DEF Next, Operator, TurnThread, ApiStep, ToolStep
<1> HIDE DEF Kept
<1>2. TypeInv /\ [Next]_vars => [Kept]_session
  BY <1>1
<1>3. Spec => [][Kept]_session
  BY <1>2, TypeInvHolds, PTL DEF Spec
<1> QED BY <1>3 DEF HistoryGrowsOrCompacts, Kept

(* Only an accepted reply moves the ids and the usage, and no reply is     *)
(* accepted while the flag is up.                                          *)
THEOREM NothingLearntAfterCancel == Spec => CancelledLearnsNothing
<1> DEFINE Learns == cancelled /\ cancelled' => nextId' = nextId /\ usage' = usage
<1>1. ASSUME [Next]_vars PROVE Learns \/ UNCHANGED vars
  <2>1. ASSUME NEW ts \in ToolNames, NEW u \in Tokens \cup {NoUsage},
               NEW stopped \in BOOLEAN, ReceiveReply(ts, u, stopped)
        PROVE  Learns
    BY <2>1 DEF ReceiveReply
  <2>2. CASE Operator \/ LoopTop \/ SendRequest \/ StreamFails \/ Finish
    BY <2>2 DEF Operator, StartTurn, Cancel, LoopTop, SendRequest, StreamFails, Finish
  <2>3. CASE ToolStep
    BY <2>3 DEF ToolStep, AuthorizeTool, OperatorAllows, OperatorDenies, PreHook,
                PostHook, ExecuteTool, ExecuteErrs, GapRecovered, GapHalts
  <2>4. CASE Exhausted \/ UNCHANGED vars
    BY <2>4 DEF Exhausted
  <2> QED BY <1>1, <2>1, <2>2, <2>3, <2>4 DEF Next, TurnThread, ApiStep
<1> HIDE DEF Learns
<1>2. [Next]_vars => [Learns]_vars
  BY <1>1
<1>3. Spec => [][Learns]_vars
  BY <1>2, PTL DEF Spec
<1> QED BY <1>3 DEF CancelledLearnsNothing, Learns

--------------------------------------------------------------------------------
(* Resuming a session.  The tracker of the running program and the one that *)
(* is rebuilt from the messages add the same figures in the same order.     *)

(* from_session as a recursion: what TrackerOf computes, message by message. *)
LEMMA TrackerIs ==
  ASSUME NEW s \in Seq(Message)
  PROVE  \E f \in [0 .. Len(s) -> Tracker] :
           /\ TrackerOf(s) = f[Len(s)]
           /\ f[0] = NewTracker
           /\ \A i \in 1 .. Len(s) : f[i] = Record(f[i - 1], s[i].usage)
<1> DEFINE Is(f) == f = [i \in 0 .. Len(s) |->
                          IF i = 0 THEN NewTracker ELSE Record(f[i - 1], s[i].usage)]
           F == CHOOSE f : Is(f)
           step == [i \in 1 .. Len(s) |-> [t \in Tracker |-> Record(t, s[i].usage)]]
<1>1. TrackerOf(s) = F[Len(s)]
  BY Zenon DEF TrackerOf
<1>2. /\ NewTracker \in Tracker /\ Len(s) \in Nat
      /\ step \in [1 .. Len(s) -> [Tracker -> Tracker]]
  <2>1. ASSUME NEW i \in 1 .. Len(s), NEW t \in Tracker
        PROVE  Record(t, s[i].usage) \in Tracker
    <3>1. s[i] \in Message
      BY ElementOfSeq
    <3>2. s[i].usage \in Tokens \cup {NoUsage}
      BY <3>1 DEF Message
    <3> QED BY <3>2, RecordIsTracker
  <2>2. NewTracker \in Tracker
    BY SessionAssumption DEF NewTracker, Tracker
  <2>3. Len(s) \in Nat
    OBVIOUS
  <2> QED BY <2>1, <2>2, <2>3
<1>3. PICK f \in [0 .. Len(s) -> Tracker] : Recurses(f, NewTracker, Len(s), step)
  <2> HIDE DEF step
  <2>1. Recursion(Tracker, NewTracker, Len(s), step)
    BY <1>2 DEF Recursion
  <2> QED BY <2>1, PrimitiveRecursion
<1>4. \A i \in 1 .. Len(s) : f[i] = Record(f[i - 1], s[i].usage)
  <2> TAKE i \in 1 .. Len(s)
  <2>1. f[i - 1] \in Tracker
    BY <1>2
  <2> QED BY <1>3, <2>1 DEF Recurses
<1>5. Is(f)
  BY <1>2, <1>3, <1>4 DEF Recurses
<1>6. Is(F)
  <2> HIDE DEF Is
  <2> QED BY <1>5
<1>7. F = f
  <2> HIDE DEF F
  <2>1. F[0] = NewTracker /\ \A i \in 1 .. Len(s) : F[i] = Record(F[i - 1], s[i].usage)
    BY <1>2, <1>6
  <2>2. SameSteps(F, f, Len(s))
    BY <1>2, <1>3, <1>4, <2>1 DEF SameSteps, Recurses
  <2>3. \A i \in 0 .. Len(s) : F[i] = f[i]
    BY <2>2, RecursionIsUnique
  <2> QED BY <1>6, <2>3
<1> QED BY <1>1, <1>3, <1>4, <1>7 DEF Recurses

(* A session without messages rebuilds a new tracker. *)
LEMMA TrackerOfEmpty == TrackerOf(<<>>) = NewTracker
<1>1. <<>> \in Seq(Message) /\ Len(<<>>) = 0
  BY EmptySeq
<1> QED BY <1>1, TrackerIs

(* One message more is one record more. *)
LEMMA TrackerOfAppend ==
  ASSUME NEW s \in Seq(Message), NEW m \in Message
  PROVE  TrackerOf(Append(s, m)) = Record(TrackerOf(s), m.usage)
<1> DEFINE t == Append(s, m)
<1>1. /\ t \in Seq(Message) /\ Len(t) = Len(s) + 1 /\ t[Len(s) + 1] = m
      /\ \A i \in 1 .. Len(s) : t[i] = s[i]
      /\ Len(s) \in Nat
  BY AppendProperties, LenProperties
<1> HIDE DEF t
<1>2. PICK f : /\ TrackerOf(s) = f[Len(s)] /\ f[0] = NewTracker
               /\ \A i \in 1 .. Len(s) : f[i] = Record(f[i - 1], s[i].usage)
  BY TrackerIs
<1>3. PICK g : /\ TrackerOf(t) = g[Len(t)] /\ g[0] = NewTracker
               /\ \A i \in 1 .. Len(t) : g[i] = Record(g[i - 1], t[i].usage)
  BY <1>1, TrackerIs
<1>4. \A i \in 0 .. Len(s) : f[i] = g[i]
  <2>1. SameSteps(f, g, Len(s))
    BY <1>1, <1>2, <1>3 DEF SameSteps
  <2> QED BY <2>1, RecursionIsUnique
<1>5. g[Len(t)] = Record(g[Len(s)], m.usage)
  BY <1>1, <1>3
<1> QED BY <1>1, <1>2, <1>3, <1>4, <1>5 DEF t

(* A message without usage leaves the tracker as it is. *)
LEMMA ResumePush ==
  ASSUME TypeInv, UsageSurvivesResume, NEW m \in Message, Push(m),
         usage' = Record(usage, m.usage)
  PROVE  UsageSurvivesResume'
<1> SUFFICES ASSUME \A i \in DOMAIN session' : session'[i].kind # "summary"
             PROVE  usage' = TrackerOf(session')
  BY DEF UsageSurvivesResume
<1>1. session \in Seq(Message) /\ session' = Append(session, m)
  BY DEF TypeInv, TypeOK, Push
<1>2. /\ DOMAIN session = 1 .. Len(session) /\ DOMAIN session' = 1 .. Len(session) + 1
      /\ Len(session) \in Nat
      /\ \A i \in 1 .. Len(session) : session'[i] = session[i]
  <2>1. /\ session' \in Seq(Message) /\ Len(session') = Len(session) + 1
        /\ \A i \in 1 .. Len(session) : session'[i] = session[i]
    BY <1>1, AppendProperties
  <2> QED BY <1>1, <2>1, LenProperties
<1>3. \A i \in DOMAIN session : session[i].kind # "summary"
  <2> TAKE i \in DOMAIN session
  <2>1. i \in DOMAIN session' /\ session'[i] = session[i]
    BY <1>2
  <2> QED BY <2>1
<1> QED BY <1>1, <1>3, TrackerOfAppend DEF UsageSurvivesResume

(* Neither do the messages the loop writes itself. *)
LEMMA ResumeSilentPush ==
  ASSUME TypeInv, UsageSurvivesResume, NEW m \in Message, m.usage = NoUsage, Push(m),
         usage' = usage
  PROVE  UsageSurvivesResume'
BY ResumePush DEF Record

(* No step makes the tracker and its reconstruction differ. *)
LEMMA ResumeNext == TypeInv /\ UsageSurvivesResume /\ [Next]_vars => UsageSurvivesResume'
<1> SUFFICES ASSUME TypeInv, UsageSurvivesResume, [Next]_vars PROVE UsageSurvivesResume'
  OBVIOUS
<1>1. ASSUME UNCHANGED <<session, usage>> PROVE UsageSurvivesResume'
  BY <1>1 DEF UsageSurvivesResume
<1>2. ASSUME NEW kind \in Kinds, Push(Plain(kind)), usage' = usage
      PROVE  UsageSurvivesResume'
  <2>1. Plain(kind) \in Message /\ Plain(kind).usage = NoUsage
    BY PlainIsMessage DEF Plain
  <2> QED BY <1>2, <2>1, ResumeSilentPush
<1>3. ASSUME NEW why \in Whys, NEW error \in BOOLEAN, pc \in ToolPCs,
             Push(ToolResult(Current.id, why, error)), usage' = usage
      PROVE  UsageSurvivesResume'
  <2>1. /\ ToolResult(Current.id, why, error) \in Message
        /\ ToolResult(Current.id, why, error).usage = NoUsage
    BY <1>3, CurrentType, ResultIsMessage DEF ToolResult
  <2> QED BY <1>3, <2>1, ResumeSilentPush
<1>4. CASE \/ Cancel \/ LoopTop \/ SendRequest \/ StreamFails \/ OperatorAllows
           \/ Exhausted \/ UNCHANGED vars
           \/ \E state \in {"plus", "zero", "minus"} : ExecuteTool(state)
  BY <1>1, <1>4 DEF Cancel, LoopTop, SendRequest, StreamFails, OperatorAllows, Exhausted,
                    vars, ExecuteTool
<1>5. CASE StartTurn
  BY <1>2, <1>5 DEF StartTurn, Kinds
<1>6. ASSUME NEW ts \in ToolNames, NEW u \in Tokens \cup {NoUsage},
             NEW stopped \in BOOLEAN, ReceiveReply(ts, u, stopped)
      PROVE  UsageSurvivesResume'
  <2>1. CASE cancelled \/ ~stopped
    BY <1>1, <1>6, <2>1 DEF ReceiveReply
  <2>2. CASE ~cancelled /\ stopped
    <3> DEFINE m == AssistantMessage(UsesOf(ts), u)
    <3>1. Push(m) /\ usage' = Record(usage, u)
      BY <1>6, <2>2 DEF ReceiveReply
    <3>2. m \in Message /\ m.usage = u
      <4>1. m \in Message
        BY UsesOfType, AssistantIsMessage DEF TypeInv, TypeOK
      <4>2. m.usage = u
        BY DEF AssistantMessage, Plain
      <4> QED BY <4>1, <4>2
    <3> HIDE DEF m
    <3> QED BY <3>1, <3>2, ResumePush
  <2> QED BY <2>1, <2>2
<1>7. CASE Finish
  <2>1. /\ usage' = usage /\ session \in Seq(Message)
        /\ session' = session \/ session' = Compact(session)
    BY <1>7 DEF Finish, TypeInv, TypeOK
  <2>2. CASE session' = session
    BY <1>1, <2>1, <2>2
  <2>3. CASE session' = Compact(session) /\ ~ShouldCompact(session)
    BY <1>1, <2>1, <2>3 DEF Compact
  <2>4. CASE session' = Compact(session) /\ ShouldCompact(session)
    <3>1. /\ session' \in Seq(Message) /\ Len(session') = PreserveRecent + 1
          /\ session'[1] = Plain("summary") /\ PreserveRecent \in Nat
      BY <2>1, <2>4, CompactRecent, SessionAssumption
    <3>2. 1 \in DOMAIN session' /\ session'[1].kind = "summary"
      BY <3>1, LenProperties DEF Plain
    <3> QED BY <3>2 DEF UsageSurvivesResume
  <2> QED BY <2>1, <2>2, <2>3, <2>4
<1>8. CASE AuthorizeTool \/ OperatorDenies
  BY <1>1, <1>3, <1>8 DEF AuthorizeTool, OperatorDenies, Answer, ToolPCs, Whys
<1>9. CASE \E denied \in HookDenials : PreHook(denied) \/ PostHook(denied)
  <2>1. PICK denied \in HookDenials : PreHook(denied) \/ PostHook(denied)
    BY <1>9
  <2>2. toolFailed \/ denied \in BOOLEAN
    BY LoopAssumption DEF TypeInv, TypeOK
  <2>3. CASE PreHook(denied)
    BY <1>1, <1>3, <2>3 DEF PreHook, Answer, ToolPCs, Whys
  <2>4. CASE PostHook(denied)
    BY <1>3, <2>2, <2>4 DEF PostHook, Answer, ToolPCs, Whys
  <2> QED BY <2>1, <2>3, <2>4
<1>10. CASE ExecuteErrs \/ GapRecovered
  BY <1>2, <1>10 DEF ExecuteErrs, GapRecovered, Kinds
<1>11. CASE GapHalts
  BY <1>3, <1>11 DEF GapHalts, ToolPCs, Whys
<1> QED
  BY <1>4, <1>5, <1>6, <1>7, <1>8, <1>9, <1>10, <1>11
     DEF Next, Operator, TurnThread, ApiStep, ToolStep

(* Until a compaction resuming the saved session rebuilds the tracker, for *)
(* counters of any width and any figures the API reports.                  *)
THEOREM ResumeRebuildsUsage == Spec => []UsageSurvivesResume
<1>1. Init => UsageSurvivesResume
  BY TrackerOfEmpty DEF Init, UsageSurvivesResume
<1> QED BY <1>1, ResumeNext, TypeInvHolds, PTL DEF Spec

--------------------------------------------------------------------------------
(* What the loop makes of the uses of a reply.  The invariant says it of   *)
(* every reply still in the conversation; that what the for loop holds is  *)
(* of the reply all messages at the end are about; that outside the tool   *)
(* steps nothing is held; and that on the way to a request the             *)
(* conversation ends in something to react to.                             *)

AllDealtWith(s, held) ==
  \A i \in 1 .. Len(s) :
    s[i].kind = "assistant" => \E d \in 0 .. Len(s[i].uses) : FollowedUp(s, i, d, held)

AllBehind(s) ==
  \A j \in 1 .. Len(s) :
    s[j].kind = "result" => CutOff(s, j) \/ \E i \in 1 .. j - 1 : Behind(s, i, j)

Holder(s, held) == held # <<>> => \E i \in 1 .. Len(s) : Behind(s, i, Len(s))

HasInput(s) == s # <<>> /\ s[Len(s)].kind \in {"user", "result", "recovery"}

FollowInv ==
  /\ pc \notin ToolPCs => pending = <<>>
  /\ pc \in {"top", "request", "waiting"} => HasInput(session)
  /\ AllDealtWith(session, pending)
  /\ AllBehind(session)
  /\ Holder(session, pending)

(* What the loop pushes while it holds some uses, and what it holds then. *)
Follows(m, held, more) ==
  \/ /\ AboutTool(m) /\ held # <<>> /\ DealsWith(m, held[1])
     /\ more = IF DropsRest(m) THEN <<>> ELSE Tail(held)
  \/ m.kind = "user" /\ held = <<>> /\ more = <<>>
  \/ m.kind = "assistant" /\ held = <<>> /\ more = m.uses

(* All of a sequence. *)
LEMMA SubSeqAll ==
  ASSUME NEW u \in Seq(ToolUse)
  PROVE  SubSeq(u, 1, Len(u)) = u
<1> DEFINE all == SubSeq(u, 1, Len(u))
<1>1. Len(u) \in Nat /\ \A k \in 1 .. Len(u) : u[k] \in ToolUse
  BY LenProperties, ElementOfSeq
<1>2. /\ all \in Seq(ToolUse) /\ Len(all) = Len(u)
      /\ \A k \in 1 .. Len(u) : all[k] = u[k]
  <2>1. /\ all \in Seq(ToolUse) /\ Len(all) = IF 1 <= Len(u) THEN Len(u) - 1 + 1 ELSE 0
        /\ \A k \in 1 .. Len(u) - 1 + 1 : all[k] = u[1 + k - 1]
    BY <1>1, SubSeqProperties
  <2> QED BY <1>1, <2>1
<1> HIDE DEF all
<1>3. all = u
  BY <1>2, SeqEqual
<1> QED BY <1>3 DEF all

(* The first of the uses left, and the others. *)
LEMMA SubSeqRest ==
  ASSUME NEW u \in Seq(ToolUse), NEW d \in 0 .. Len(u),
         NEW rest, rest = SubSeq(u, d + 1, Len(u)), rest # <<>>
  PROVE  /\ d + 1 \in 0 .. Len(u) /\ rest[1] = u[d + 1]
         /\ Tail(rest) = SubSeq(u, (d + 1) + 1, Len(u))
<1> DEFINE more == SubSeq(u, (d + 1) + 1, Len(u))
           tail == Tail(rest)
<1>1. Len(u) \in Nat /\ \A k \in 1 .. Len(u) : u[k] \in ToolUse
  BY LenProperties, ElementOfSeq
<1>2. /\ rest \in Seq(ToolUse) /\ Len(rest) = Len(u) - d
      /\ \A k \in 1 .. Len(u) - d : rest[k] = u[d + k]
  <2>1. \A k \in d + 1 .. Len(u) : u[k] \in ToolUse
    BY <1>1
  <2>2. /\ rest \in Seq(ToolUse)
        /\ Len(rest) = IF d + 1 <= Len(u) THEN Len(u) - (d + 1) + 1 ELSE 0
        /\ \A k \in 1 .. Len(u) - (d + 1) + 1 : rest[k] = u[(d + 1) + k - 1]
    BY <1>1, <2>1, SubSeqProperties
  <2> QED BY <1>1, <2>2
<1>3. d < Len(u) /\ Len(rest) \in Nat \ {0}
  BY <1>1, <1>2, EmptySeq
<1>4. /\ more \in Seq(ToolUse) /\ Len(more) = Len(u) - d - 1
      /\ \A k \in 1 .. Len(u) - d - 1 : more[k] = u[d + 1 + k]
  <2>1. \A k \in (d + 1) + 1 .. Len(u) : u[k] \in ToolUse
    BY <1>1
  <2>2. /\ more \in Seq(ToolUse)
        /\ Len(more) = IF (d + 1) + 1 <= Len(u) THEN Len(u) - ((d + 1) + 1) + 1 ELSE 0
        /\ \A k \in 1 .. Len(u) - ((d + 1) + 1) + 1 : more[k] = u[((d + 1) + 1) + k - 1]
    BY <1>1, <2>1, SubSeqProperties
  <2> QED BY <1>1, <1>3, <2>2
<1>5. /\ tail \in Seq(ToolUse) /\ Len(tail) = Len(u) - d - 1
      /\ \A k \in 1 .. Len(u) - d - 1 : tail[k] = u[d + 1 + k]
  <2>1. /\ tail \in Seq(ToolUse) /\ Len(tail) = Len(rest) - 1
        /\ \A k \in 1 .. Len(rest) - 1 : tail[k] = rest[k + 1]
    BY <1>2, HeadTailProperties
  <2>2. ASSUME NEW k \in 1 .. Len(u) - d - 1 PROVE tail[k] = u[d + 1 + k]
    <3>1. k \in 1 .. Len(rest) - 1 /\ k + 1 \in 1 .. Len(u) - d /\ d + (k + 1) = d + 1 + k
      BY <1>1, <1>2
    <3> QED BY <1>2, <2>1, <3>1
  <2> QED BY <1>2, <2>1, <2>2
<1> HIDE DEF more, tail
<1>6. tail = more
  BY <1>4, <1>5, SeqEqual
<1>7. d + 1 \in 0 .. Len(u) /\ rest[1] = u[d + 1]
  BY <1>1, <1>2, <1>3
<1> QED BY <1>6, <1>7 DEF more, tail

(* What a message more leaves as it was. *)
LEMMA PushFacts ==
  ASSUME NEW s \in Seq(Message), NEW m \in Message, NEW t, t = Append(s, m)
  PROVE  /\ t \in Seq(Message) /\ Len(t) = Len(s) + 1 /\ t[Len(s) + 1] = m
         /\ \A k \in 1 .. Len(s) : t[k] = s[k]
         /\ Len(s) \in Nat
BY AppendProperties, LenProperties

(* A reply and what the loop is through with, and the step it takes. *)
Reply(s, m, i, d, held, more) ==
  /\ s \in Seq(Message) /\ m \in Message /\ i \in 1 .. Len(s)
  /\ d \in 0 .. Len(s[i].uses)
  /\ FollowedUp(s, i, d, held) /\ Follows(m, held, more)

(* A step of the loop leaves a reply as well followed up as it was. *)
LEMMA FollowedPush ==
  ASSUME NEW s, NEW m, NEW i, NEW d, NEW held, NEW more, Reply(s, m, i, d, held, more)
  PROVE  \E e \in 0 .. Len(Append(s, m)[i].uses) : FollowedUp(Append(s, m), i, e, more)
<1> SUFFICES ASSUME NEW t, t = Append(s, m)
             PROVE  \E e \in 0 .. Len(t[i].uses) : FollowedUp(t, i, e, more)
  BY Zenon
<1>0. /\ s \in Seq(Message) /\ m \in Message /\ i \in 1 .. Len(s)
      /\ d \in 0 .. Len(s[i].uses) /\ FollowedUp(s, i, d, held) /\ Follows(m, held, more)
  BY DEF Reply
<1>1. /\ t \in Seq(Message) /\ Len(t) = Len(s) + 1 /\ t[Len(s) + 1] = m
      /\ \A k \in 1 .. Len(s) : t[k] = s[k]
      /\ Len(s) \in Nat
  BY <1>0, PushFacts
<1>2. t[i] = s[i] /\ s[i].uses \in Seq(ToolUse) /\ Len(s[i].uses) \in Nat /\ d \in Nat
  <2>1. s[i] \in Message
    BY <1>0, ElementOfSeq
  <2>2. s[i].uses \in Seq(ToolUse)
    BY <2>1 DEF Message
  <2>3. Len(s[i].uses) \in Nat
    BY <2>2, LenProperties
  <2> QED BY <1>0, <1>1, <2>2, <2>3
<1>3. /\ i + d <= Len(s)
      /\ \A k \in 1 .. d : DealsWith(s[i + k], s[i].uses[k])
      /\ \A k \in 1 .. d - 1 : ~DropsRest(s[i + k])
      /\ i + d < Len(s) => ~AboutTool(s[i + d + 1])
      /\ Owed(s, i, d) = IF i + d = Len(s) THEN held ELSE <<>>
  BY <1>0 DEF FollowedUp
<1>4. \A k \in 1 .. d : t[i + k] = s[i + k]
  <2> TAKE k \in 1 .. d
  <2>1. d \in Nat /\ Len(s) \in Nat /\ i + d <= Len(s)
    BY <1>1, <1>2, <1>3, Zenon
  <2>2. i \in 1 .. Len(s)
    BY <1>0
  <2>3. i + k \in 1 .. Len(s)
    BY <2>1, <2>2, SMTT(30)
  <2> QED BY <1>1, <2>3
<1>5. /\ \A k \in 1 .. d : DealsWith(t[i + k], t[i].uses[k])
      /\ \A k \in 1 .. d - 1 : ~DropsRest(t[i + k])
  <2>1. \A k \in 1 .. d - 1 : k \in 1 .. d
    BY <1>2
  <2> QED BY <1>2, <1>3, <1>4, <2>1
<1>6. Owed(t, i, d) = Owed(s, i, d)
  <2>1. d > 0 => d \in 1 .. d
    BY <1>2
  <2> QED BY <1>2, <1>4, <2>1 DEF Owed
<1>7. CASE i + d < Len(s)
  <2>1. i + d + 1 \in 1 .. Len(s)
    BY <1>0, <1>1, <1>2, <1>7
  <2>2. i + d <= Len(t) /\ i + d # Len(t) /\ ~AboutTool(t[i + d + 1])
    <3>1. t[i + d + 1] = s[i + d + 1]
      BY <1>1, <2>1
    <3>2. i + d <= Len(t) /\ i + d # Len(t)
      BY <1>0, <1>1, <1>2, <1>7
    <3> QED BY <1>3, <1>7, <3>1, <3>2
  <2>3. Owed(t, i, d) = <<>>
    BY <1>3, <1>6, <1>7
  <2>4. FollowedUp(t, i, d, more)
    BY <1>5, <2>2, <2>3 DEF FollowedUp
  <2> QED BY <1>0, <1>2, <2>4
<1>8. CASE i + d = Len(s) /\ ~AboutTool(m)
  <2>1. held = <<>>
    BY <1>0, <1>8 DEF Follows
  <2>2. i + d <= Len(t) /\ i + d # Len(t) /\ ~AboutTool(t[i + d + 1])
    BY <1>1, <1>8
  <2>3. Owed(t, i, d) = <<>>
    BY <1>3, <1>6, <1>8, <2>1
  <2>4. FollowedUp(t, i, d, more)
    BY <1>5, <2>2, <2>3 DEF FollowedUp
  <2> QED BY <1>0, <1>2, <2>4
<1>9. CASE i + d = Len(s) /\ AboutTool(m)
  <2>1. /\ held # <<>> /\ DealsWith(m, held[1])
        /\ more = IF DropsRest(m) THEN <<>> ELSE Tail(held)
    BY <1>0, <1>9 DEF Follows, AboutTool
  <2>2. /\ held = SubSeq(s[i].uses, d + 1, Len(s[i].uses))
        /\ d > 0 => ~DropsRest(s[i + d])
    BY <1>3, <1>9, <2>1 DEF Owed
  <2>3. /\ d + 1 \in 0 .. Len(s[i].uses) /\ held[1] = s[i].uses[d + 1]
        /\ Tail(held) = SubSeq(s[i].uses, (d + 1) + 1, Len(s[i].uses))
    BY <1>0, <1>2, <2>1, <2>2, SubSeqRest
  <2>4. t[i + (d + 1)] = m /\ i + (d + 1) = Len(t)
    BY <1>0, <1>1, <1>2, <1>9
  <2>5. \A k \in 1 .. d + 1 : DealsWith(t[i + k], t[i].uses[k])
    <3>1. \A k \in 1 .. d + 1 : k \in 1 .. d \/ k = d + 1
      BY <1>2
    <3>2. DealsWith(t[i + (d + 1)], t[i].uses[d + 1])
      BY <1>2, <2>1, <2>3, <2>4
    <3> QED BY <1>5, <3>1, <3>2
  <2>6. \A k \in 1 .. (d + 1) - 1 : ~DropsRest(t[i + k])
    <3>1. \A k \in 1 .. (d + 1) - 1 : k \in 1 .. d - 1 \/ (k = d /\ d > 0 /\ d \in 1 .. d)
      BY <1>2
    <3> QED BY <1>4, <1>5, <2>2, <3>1
  <2>7. Owed(t, i, d + 1) = more
    <3>1. d + 1 > 0
      BY <1>2
    <3> QED BY <1>2, <2>1, <2>3, <2>4, <3>1 DEF Owed
  <2>8. FollowedUp(t, i, d + 1, more)
    <3>1. i + (d + 1) <= Len(t) /\ ~(i + (d + 1) < Len(t))
      BY <1>1, <2>4
    <3> QED BY <2>4, <2>5, <2>6, <2>7, <3>1 DEF FollowedUp
  <2> QED BY <1>2, <2>3, <2>8
<1> QED
  <2>1. i + d < Len(s) \/ i + d = Len(s)
    BY <1>0, <1>1, <1>2, <1>3
  <2> QED BY <1>7, <1>8, <1>9, <2>1

(* A reply that just arrived: nothing is written about it, all is owed. *)
LEMMA FollowedNew ==
  ASSUME NEW s \in Seq(Message), NEW m \in Message, m.kind = "assistant"
  PROVE  FollowedUp(Append(s, m), Len(s) + 1, 0, m.uses)
<1> SUFFICES ASSUME NEW t, t = Append(s, m) PROVE FollowedUp(t, Len(s) + 1, 0, m.uses)
  BY Zenon
<1>1. Len(t) = Len(s) + 1 /\ t[Len(s) + 1] = m /\ Len(s) \in Nat
  BY PushFacts
<1>2. m.uses \in Seq(ToolUse)
  BY DEF Message
<1>3. Owed(t, Len(s) + 1, 0) = m.uses
  <2>1. SubSeq(m.uses, 0 + 1, Len(m.uses)) = m.uses /\ ~(0 > 0)
    BY <1>2, SubSeqAll
  <2> QED BY <1>1, <2>1 DEF Owed
<1> QED BY <1>1, <1>3 DEF FollowedUp

(* What the loop pushes follows what it holds. *)
LEMMA DealtWithPush ==
  ASSUME NEW s \in Seq(Message), NEW m \in Message, NEW held, NEW more,
         Follows(m, held, more), AllDealtWith(s, held)
  PROVE  AllDealtWith(Append(s, m), more)
<1> SUFFICES ASSUME NEW t, t = Append(s, m),
                    NEW i \in 1 .. Len(t), t[i].kind = "assistant"
             PROVE  \E e \in 0 .. Len(t[i].uses) : FollowedUp(t, i, e, more)
  BY DEF AllDealtWith
<1>1. /\ Len(t) = Len(s) + 1 /\ t[Len(s) + 1] = m /\ Len(s) \in Nat
      /\ \A k \in 1 .. Len(s) : t[k] = s[k]
  BY PushFacts
<1>2. CASE i \in 1 .. Len(s)
  <2>1. PICK d \in 0 .. Len(s[i].uses) : FollowedUp(s, i, d, held)
    BY <1>1, <1>2 DEF AllDealtWith
  <2>2. Reply(s, m, i, d, held, more)
    BY <1>2, <2>1 DEF Reply
  <2> QED BY <2>2, FollowedPush
<1>3. CASE i = Len(s) + 1
  <2>1. m.kind = "assistant" /\ more = m.uses
    BY <1>1, <1>3 DEF Follows, AboutTool
  <2>2. FollowedUp(t, i, 0, more)
    BY <1>3, <2>1, FollowedNew
  <2>3. 0 \in 0 .. Len(t[i].uses)
    <3>1. m.uses \in Seq(ToolUse)
      BY DEF Message
    <3> QED BY <1>1, <1>3, <3>1, LenProperties
  <2> QED BY <2>2, <2>3
<1> QED BY <1>1, <1>2, <1>3

(* A result is pushed behind the reply whose uses are held, and every      *)
(* other message keeps its place.                                          *)
LEMMA BehindPush ==
  ASSUME NEW s \in Seq(Message), NEW m \in Message, NEW held, NEW more,
         Follows(m, held, more), AllBehind(s), Holder(s, held)
  PROVE  AllBehind(Append(s, m)) /\ Holder(Append(s, m), more)
<1> SUFFICES ASSUME NEW t, t = Append(s, m) PROVE AllBehind(t) /\ Holder(t, more)
  BY Zenon
<1>1. /\ Len(t) = Len(s) + 1 /\ t[Len(s) + 1] = m /\ Len(s) \in Nat
      /\ \A k \in 1 .. Len(s) : t[k] = s[k]
  BY PushFacts
<1>2. ASSUME NEW i \in 1 .. Len(s), Behind(s, i, Len(s)), AboutTool(m)
      PROVE  Behind(t, i, Len(t))
  <2>1. \A k \in i + 1 .. Len(t) : k = Len(s) + 1 \/ (k \in i + 1 .. Len(s) /\ k \in 1 .. Len(s))
    BY <1>1
  <2>2. t[i].kind = "assistant"
    BY <1>1, <1>2 DEF Behind
  <2>3. \A k \in i + 1 .. Len(t) : AboutTool(t[k])
    BY <1>1, <1>2, <2>1 DEF Behind
  <2> QED BY <2>2, <2>3 DEF Behind
<1>3. Holder(t, more)
  <2>1. CASE AboutTool(m)
    <3>1. PICK i \in 1 .. Len(s) : Behind(s, i, Len(s))
      BY <2>1 DEF Follows, Holder, AboutTool
    <3>2. Behind(t, i, Len(t)) /\ i \in 1 .. Len(t)
      BY <1>1, <1>2, <2>1, <3>1
    <3> QED BY <3>2 DEF Holder
  <2>2. CASE m.kind = "assistant"
    <3>1. Behind(t, Len(t), Len(t)) /\ Len(t) \in 1 .. Len(t)
      BY <1>1, <2>2 DEF Behind
    <3> QED BY <3>1 DEF Holder
  <2>3. CASE m.kind = "user"
    BY <2>3 DEF Follows, Holder, AboutTool
  <2> QED BY <2>1, <2>2, <2>3 DEF Follows
<1>4. ASSUME NEW j \in 1 .. Len(t), t[j].kind = "result"
      PROVE  CutOff(t, j) \/ \E i \in 1 .. j - 1 : Behind(t, i, j)
  <2>1. CASE j = Len(s) + 1
    <3>1. AboutTool(m) /\ held # <<>>
      BY <1>1, <1>4, <2>1 DEF Follows, AboutTool
    <3>2. PICK i \in 1 .. Len(s) : Behind(s, i, Len(s))
      BY <3>1 DEF Holder
    <3>3. Behind(t, i, j) /\ i \in 1 .. j - 1
      BY <1>1, <1>2, <2>1, <3>1, <3>2
    <3> QED BY <3>3
  <2>2. CASE j \in 1 .. Len(s)
    <3>1. s[j].kind = "result" /\ \A k \in 1 .. j : t[k] = s[k]
      BY <1>1, <1>4, <2>2
    <3>2. CASE CutOff(s, j)
      <4>1. \A k \in 2 .. j : k \in 1 .. j
        OBVIOUS
      <4>2. CutOff(t, j)
        BY <2>2, <3>1, <3>2, <4>1 DEF CutOff
      <4> QED BY <4>2
    <3>3. CASE \E i \in 1 .. j - 1 : Behind(s, i, j)
      <4>1. PICK i \in 1 .. j - 1 : Behind(s, i, j)
        BY <3>3
      <4>2. i \in 1 .. j /\ \A k \in i + 1 .. j : k \in 1 .. j
        BY <2>2
      <4>3. Behind(t, i, j)
        BY <3>1, <4>1, <4>2 DEF Behind
      <4> QED BY <4>3
    <3> QED BY <2>2, <3>1, <3>2, <3>3 DEF AllBehind
  <2> QED BY <1>1, <2>1, <2>2
<1> QED BY <1>3, <1>4 DEF AllBehind

(* t is what a compaction leaves of s: a summary and the last messages of  *)
(* s, each moved down by d.                                                *)
Moved(s, t, d) ==
  /\ s \in Seq(Message) /\ t \in Seq(Message) /\ Len(t) > 0
  /\ d = Len(s) - Len(t) /\ d \in Nat
  /\ t[1] = Plain("summary")
  /\ \A k \in 2 .. Len(t) : t[k] = s[k + d]

(* A compaction is such a move. *)
LEMMA CompactMoves ==
  ASSUME NEW s \in Seq(Message), ShouldCompact(s)
  PROVE  Moved(s, Compact(s), Len(s) - Len(Compact(s)))
<1> SUFFICES ASSUME NEW t, t = Compact(s), NEW d, d = Len(s) - Len(t) PROVE Moved(s, t, d)
  OBVIOUS
<1>1. /\ t \in Seq(Message) /\ Len(t) = PreserveRecent + 1 /\ Len(t) <= Len(s)
      /\ t[1] = Plain("summary")
      /\ \A k \in 0 .. PreserveRecent - 1 : t[Len(t) - k] = s[Len(s) - k]
      /\ Len(s) \in Nat /\ PreserveRecent \in Nat
  BY CompactRecent, SessionAssumption, LenProperties
<1>2. \A k \in 2 .. Len(t) : t[k] = s[k + d]
  <2> TAKE k \in 2 .. Len(t)
  <2>1. /\ Len(t) = PreserveRecent + 1 /\ PreserveRecent \in Nat /\ Len(s) \in Nat
        /\ d = Len(s) - Len(t)
    BY <1>1
  <2>2. Len(t) - k \in 0 .. PreserveRecent - 1 /\ Len(t) - (Len(t) - k) = k
        /\ Len(s) - (Len(t) - k) = k + d
    BY <2>1, SMTT(30)
  <2> QED BY <1>1, <2>2
<1>3. d \in Nat /\ Len(t) > 0
  BY <1>1
<1> QED BY <1>1, <1>2, <1>3 DEF Moved

(* Compaction forgets the oldest messages and nothing of the later ones. *)
LEMMA DealtWithMoved ==
  ASSUME NEW s, NEW t, NEW d, Moved(s, t, d), AllDealtWith(s, <<>>)
  PROVE  AllDealtWith(t, <<>>)
<1> SUFFICES ASSUME NEW i \in 1 .. Len(t), t[i].kind = "assistant"
             PROVE  \E e \in 0 .. Len(t[i].uses) : FollowedUp(t, i, e, <<>>)
  BY DEF AllDealtWith
<1>1. /\ Len(s) \in Nat /\ Len(t) \in Nat /\ d \in Nat /\ Len(s) = Len(t) + d
      /\ t[1] = Plain("summary") /\ s \in Seq(Message)
      /\ \A k \in 2 .. Len(t) : t[k] = s[k + d]
  BY LenProperties DEF Moved
<1>2. i \in 2 .. Len(t)
  BY <1>1 DEF Plain
<1>3. i + d \in 1 .. Len(s) /\ t[i] = s[i + d]
  BY <1>1, <1>2
<1>4. PICK e \in 0 .. Len(s[i + d].uses) : FollowedUp(s, i + d, e, <<>>)
  BY <1>3 DEF AllDealtWith
<1>5. e \in Nat /\ (i + d) + e <= Len(s)
  <2>1. s[i + d] \in Message
    BY <1>1, <1>3, ElementOfSeq
  <2>2. Len(s[i + d].uses) \in Nat
    BY <2>1, LenProperties DEF Message
  <2> QED BY <1>4, <2>2 DEF FollowedUp
<1>6. \A k \in 1 .. e : t[i + k] = s[(i + d) + k]
  <2> TAKE k \in 1 .. e
  <2>1. i + k \in 2 .. Len(t) /\ (i + k) + d = (i + d) + k
    BY <1>1, <1>2, <1>5, SMTT(30)
  <2> QED BY <1>1, <2>1
<1>7. /\ \A k \in 1 .. e : DealsWith(t[i + k], t[i].uses[k])
      /\ \A k \in 1 .. e - 1 : ~DropsRest(t[i + k])
  <2>1. \A k \in 1 .. e - 1 : k \in 1 .. e
    BY <1>5
  <2> QED BY <1>3, <1>4, <1>6, <2>1 DEF FollowedUp
<1>8. i + e < Len(t) => ~AboutTool(t[i + e + 1])
  <2> SUFFICES ASSUME i + e < Len(t) PROVE ~AboutTool(t[i + e + 1])
    OBVIOUS
  <2>1. /\ i + e + 1 \in 2 .. Len(t) /\ (i + e + 1) + d = (i + d) + e + 1
        /\ (i + d) + e < Len(s)
    BY <1>1, <1>2, <1>5
  <2>2. ~AboutTool(s[(i + d) + e + 1])
    BY <1>4, <2>1 DEF FollowedUp
  <2> QED BY <1>1, <2>1, <2>2
<1>9. Owed(t, i, e) = <<>>
  <2>1. Owed(s, i + d, e) = <<>>
    BY <1>4 DEF FollowedUp
  <2>2. e > 0 => e \in 1 .. e
    BY <1>5
  <2> QED BY <1>3, <1>6, <2>1, <2>2 DEF Owed
<1>10. i + e <= Len(t)
  BY <1>1, <1>2, <1>5
<1>11. FollowedUp(t, i, e, <<>>)
  BY <1>7, <1>8, <1>9, <1>10 DEF FollowedUp
<1> QED BY <1>3, <1>4, <1>11

(* A result that loses its reply stands directly behind the summary. *)
LEMMA BehindMoved ==
  ASSUME NEW s, NEW t, NEW d, Moved(s, t, d), AllBehind(s)
  PROVE  AllBehind(t)
<1> SUFFICES ASSUME NEW j \in 1 .. Len(t), t[j].kind = "result"
             PROVE  CutOff(t, j) \/ \E i \in 1 .. j - 1 : Behind(t, i, j)
  BY DEF AllBehind
<1>1. /\ Len(s) \in Nat /\ Len(t) \in Nat /\ d \in Nat /\ Len(s) = Len(t) + d
      /\ t[1] = Plain("summary")
      /\ \A k \in 2 .. Len(t) : t[k] = s[k + d]
  BY LenProperties DEF Moved
<1>2. j \in 2 .. Len(t)
  BY <1>1 DEF Plain
<1>3. j + d \in 1 .. Len(s) /\ s[j + d].kind = "result"
  BY <1>1, <1>2
<1>4. ASSUME NEW first \in Nat, first <= d + 2,
             \A k \in first .. j + d : AboutTool(s[k])
      PROVE  CutOff(t, j)
  <2>1. ASSUME NEW k \in 2 .. j PROVE AboutTool(t[k])
    <3>1. k \in 2 .. Len(t) /\ k + d \in first .. j + d
      BY <1>1, <1>2, <1>4
    <3> QED BY <1>1, <1>4, <3>1
  <2> QED BY <1>1, <2>1 DEF CutOff, Plain
<1>5. CASE CutOff(s, j + d)
  <2>1. \A k \in 2 .. j + d : AboutTool(s[k])
    BY <1>5 DEF CutOff
  <2>2. 2 \in Nat /\ 2 <= d + 2
    BY <1>1
  <2> QED BY <1>4, <2>1, <2>2
<1>6. CASE \E i \in 1 .. (j + d) - 1 : Behind(s, i, j + d)
  <2>1. PICK i \in 1 .. (j + d) - 1 : Behind(s, i, j + d)
    BY <1>6
  <2>2. i \in Nat /\ \A k \in i + 1 .. j + d : AboutTool(s[k])
    BY <1>1, <2>1 DEF Behind
  <2>3. CASE i <= d + 1
    <3>1. i + 1 \in Nat /\ i + 1 <= d + 2
      BY <1>1, <2>2, <2>3
    <3> QED BY <1>4, <2>2, <3>1
  <2>4. CASE i > d + 1
    <3>1. i - d \in 2 .. Len(t) /\ i - d \in 1 .. j - 1 /\ (i - d) + d = i
      BY <1>1, <1>2, <2>4
    <3>2. t[i - d].kind = "assistant"
      BY <1>1, <2>1, <3>1 DEF Behind
    <3>3. ASSUME NEW k \in (i - d) + 1 .. j PROVE AboutTool(t[k])
      <4>1. k \in 2 .. Len(t) /\ k + d \in i + 1 .. j + d
        BY <1>1, <1>2, <3>1
      <4> QED BY <1>1, <2>2, <4>1
    <3>4. Behind(t, i - d, j)
      BY <3>2, <3>3 DEF Behind
    <3> QED BY <3>1, <3>4
  <2> QED BY <1>1, <2>2, <2>3, <2>4
<1> QED BY <1>3, <1>5, <1>6 DEF AllBehind

(* A step that pushes one message. *)
LEMMA FollowPush ==
  ASSUME TypeInv, FollowInv,
         NEW m \in Message, Push(m), Follows(m, pending, pending'),
         pc' \notin ToolPCs => pending' = <<>>,
         pc' \in {"top", "request", "waiting"} => m.kind \in {"user", "result", "recovery"}
  PROVE  FollowInv'
<1>1. session \in Seq(Message) /\ session' = Append(session, m)
  BY DEF TypeInv, TypeOK, Push
<1>2. AllDealtWith(session', pending')
  BY <1>1, DealtWithPush DEF FollowInv
<1>3. AllBehind(session') /\ Holder(session', pending')
  BY <1>1, BehindPush DEF FollowInv
<1>4. session' # <<>> /\ session'[Len(session')] = m
  BY PushLast
<1> QED BY <1>2, <1>3, <1>4 DEF FollowInv, HasInput

(* Every step keeps replies followed up. *)
LEMMA FollowNext == TypeInv /\ FollowInv /\ [Next]_vars => FollowInv'
<1> SUFFICES ASSUME TypeInv, FollowInv, [Next]_vars PROVE FollowInv'
  OBVIOUS
<1>0. pc \in ToolPCs => pending # <<>> /\ Current = pending[1]
  BY PendingFacts DEF TypeInv
<1>1. ASSUME UNCHANGED <<session, pending>>, pc' \notin ToolPCs => pc \notin ToolPCs,
             pc' \in {"top", "request", "waiting"} => pc \in {"top", "request", "waiting"}
      PROVE  FollowInv'
  BY <1>1 DEF FollowInv
<1>2. ASSUME UNCHANGED session, pending = <<>>, pending' = <<>>,
             pc' \in {"top", "request", "waiting"} => pc \in {"top", "request", "waiting"}
      PROVE  FollowInv'
  BY <1>2 DEF FollowInv
<1>3. ASSUME NEW why \in Whys, NEW error \in BOOLEAN, pc \in ToolPCs, why # "halt",
             Answer(why, error)
      PROVE  FollowInv'
  <2> DEFINE m == ToolResult(Current.id, why, error)
  <2>1. m \in Message
    BY <1>3, CurrentType, ResultIsMessage
  <2>2. /\ Push(m) /\ pending' = Tail(pending)
        /\ pc' = IF pending' = <<>> THEN "top" ELSE "tool"
    BY <1>3 DEF Answer, Continue
  <2>3. m.kind = "result" /\ m.answers = pending[1].id /\ m.why # "halt"
    BY <1>0, <1>3 DEF ToolResult
  <2> HIDE DEF m
  <2>4. Follows(m, pending, pending')
    BY <1>0, <1>3, <2>2, <2>3 DEF Follows, AboutTool, DealsWith, DropsRest
  <2> QED BY <2>1, <2>2, <2>3, <2>4, FollowPush DEF ToolPCs
<1>4. CASE StartTurn
  <2> DEFINE m == Plain("user")
  <2>1. m \in Message /\ m.kind = "user"
    BY PlainIsMessage DEF Kinds, Plain
  <2>2. Push(m) /\ pending' = pending /\ pc' = "top" /\ pc = "idle"
    BY <1>4 DEF StartTurn, Advance
  <2> HIDE DEF m
  <2>3. pending = <<>>
    BY <2>2 DEF FollowInv, ToolPCs
  <2>4. Follows(m, pending, pending')
    BY <2>1, <2>2, <2>3 DEF Follows
  <2> QED BY <2>1, <2>2, <2>3, <2>4, FollowPush
<1>5. CASE Cancel \/ Exhausted \/ UNCHANGED vars \/ OperatorAllows
           \/ \E state \in {"plus", "zero", "minus"} : ExecuteTool(state)
  BY <1>1, <1>5 DEF Cancel, Exhausted, vars, OperatorAllows, Advance, ExecuteTool, ToolPCs
<1>6. CASE LoopTop \/ SendRequest \/ StreamFails
  <2>1. pending = <<>>
    BY <1>6 DEF LoopTop, SendRequest, StreamFails, FollowInv, ToolPCs
  <2> QED BY <1>2, <1>6, <2>1 DEF LoopTop, SendRequest, StreamFails, EndTurn, Advance
<1>7. ASSUME NEW ts \in ToolNames, NEW u \in Tokens \cup {NoUsage},
             NEW stopped \in BOOLEAN, ReceiveReply(ts, u, stopped)
      PROVE  FollowInv'
  <2>1. pending = <<>>
    BY <1>7 DEF ReceiveReply, FollowInv, ToolPCs
  <2>2. CASE cancelled \/ ~stopped
    BY <1>2, <1>7, <2>1, <2>2 DEF ReceiveReply, EndTurn
  <2>3. CASE ~cancelled /\ stopped
    <3> DEFINE m == AssistantMessage(UsesOf(ts), u)
    <3>1. /\ Push(m) /\ pending' = UsesOf(ts)
          /\ pc' = IF ts = <<>> THEN "finish" ELSE "tool"
      BY <1>7, <2>3 DEF ReceiveReply
    <3>2. m \in Message /\ m.kind = "assistant" /\ m.uses = UsesOf(ts)
      <4>1. m \in Message
        BY UsesOfType, AssistantIsMessage DEF TypeInv, TypeOK
      <4>2. m.kind = "assistant" /\ m.uses = UsesOf(ts)
        BY DEF AssistantMessage, Plain
      <4> QED BY <4>1, <4>2
    <3> HIDE DEF m
    <3>3. Follows(m, pending, pending')
      BY <2>1, <3>1, <3>2 DEF Follows
    <3>4. ts = <<>> => pending' = <<>>
      BY <3>1, UsesOfType, EmptySeq DEF TypeInv, TypeOK
    <3> QED BY <3>1, <3>2, <3>3, <3>4, FollowPush DEF ToolPCs
  <2> QED BY <2>2, <2>3
<1>8. CASE Finish
  <2>1. /\ pending = <<>> /\ pending' = <<>> /\ pc' = "idle" /\ session \in Seq(Message)
        /\ session' = session \/ session' = Compact(session)
    BY <1>8 DEF Finish, EndTurn, FollowInv, ToolPCs, TypeInv, TypeOK
  <2>2. CASE session' = session
    BY <1>2, <2>1, <2>2
  <2>3. CASE session' = Compact(session) /\ ~ShouldCompact(session)
    BY <1>2, <2>1, <2>3 DEF Compact
  <2>4. CASE session' = Compact(session) /\ ShouldCompact(session)
    <3>1. Moved(session, session', Len(session) - Len(session'))
      BY <2>1, <2>4, CompactMoves
    <3>2. AllDealtWith(session', <<>>) /\ AllBehind(session')
      BY <2>1, <3>1, DealtWithMoved, BehindMoved DEF FollowInv
    <3> QED BY <2>1, <3>2 DEF FollowInv, Holder
  <2> QED BY <2>1, <2>2, <2>3, <2>4
<1>9. CASE AuthorizeTool
  <2>1. pc \in ToolPCs /\ "denied" \in Whys
    BY <1>9 DEF AuthorizeTool, ToolPCs, Whys
  <2>2. CASE Answer("denied", TRUE)
    BY <1>3, <2>1, <2>2
  <2>3. CASE ~Answer("denied", TRUE)
    BY <1>1, <1>9, <2>3 DEF AuthorizeTool, Advance, ToolPCs
  <2> QED BY <2>2, <2>3
<1>10. CASE OperatorDenies
  BY <1>3, <1>10 DEF OperatorDenies, ToolPCs, Whys
<1>11. CASE \E denied \in HookDenials : PreHook(denied) \/ PostHook(denied)
  <2>1. PICK denied \in HookDenials : PreHook(denied) \/ PostHook(denied)
    BY <1>11
  <2>2. (toolFailed \/ denied) \in BOOLEAN
    OBVIOUS
  <2>3. CASE PreHook(denied)
    <3>1. pc \in ToolPCs /\ "hook" \in Whys
      BY <2>3 DEF PreHook, ToolPCs, Whys
    <3>2. CASE Answer("hook", TRUE)
      BY <1>3, <3>1, <3>2
    <3>3. CASE ~Answer("hook", TRUE)
      BY <1>1, <2>3, <3>3 DEF PreHook, Advance, ToolPCs
    <3> QED BY <3>2, <3>3
  <2>4. CASE PostHook(denied)
    BY <1>3, <2>2, <2>4 DEF PostHook, ToolPCs, Whys
  <2> QED BY <2>1, <2>3, <2>4
<1>12. CASE ExecuteErrs
  <2> DEFINE m == Plain("reflection")
  <2>1. pending # <<>>
    BY <1>0, <1>12 DEF ExecuteErrs, ToolPCs
  <2>2. m \in Message /\ m.kind = "reflection"
    BY PlainIsMessage DEF Kinds, Plain
  <2>3. Push(m) /\ pending' = <<>> /\ pc' = "idle"
    BY <1>12 DEF ExecuteErrs, EndTurn
  <2> HIDE DEF m
  <2>4. Follows(m, pending, pending')
    BY <2>1, <2>2, <2>3 DEF Follows, AboutTool, DealsWith, DropsRest
  <2> QED BY <2>2, <2>3, <2>4, FollowPush
<1>13. CASE GapRecovered
  <2> DEFINE m == Plain("recovery")
  <2>1. pending # <<>>
    BY <1>0, <1>13 DEF GapRecovered, ToolPCs
  <2>2. m \in Message /\ m.kind = "recovery" /\ m.why = "none"
    BY PlainIsMessage DEF Kinds, Plain
  <2>3. /\ Push(m) /\ pending' = Tail(pending)
        /\ pc' = IF pending' = <<>> THEN "top" ELSE "tool"
    BY <1>13 DEF GapRecovered, Continue
  <2> HIDE DEF m
  <2>4. Follows(m, pending, pending')
    BY <2>1, <2>2, <2>3 DEF Follows, AboutTool, DealsWith, DropsRest
  <2> QED BY <2>2, <2>3, <2>4, FollowPush DEF ToolPCs
<1>14. CASE GapHalts
  <2> DEFINE m == ToolResult(Current.id, "halt", TRUE)
  <2>1. pc \in ToolPCs /\ "halt" \in Whys
    BY <1>14 DEF GapHalts, ToolPCs, Whys
  <2>2. m \in Message
    BY <2>1, CurrentType, ResultIsMessage
  <2>3. Push(m) /\ pending' = <<>> /\ pc' = "top"
    BY <1>14 DEF GapHalts, Continue
  <2>4. m.kind = "result" /\ m.answers = pending[1].id /\ m.why = "halt"
    BY <1>0, <2>1 DEF ToolResult
  <2> HIDE DEF m
  <2>5. Follows(m, pending, pending')
    BY <1>0, <2>1, <2>3, <2>4 DEF Follows, AboutTool, DealsWith, DropsRest
  <2> QED BY <2>2, <2>3, <2>4, <2>5, FollowPush DEF ToolPCs
<1> QED
  BY <1>4, <1>5, <1>6, <1>7, <1>8, <1>9, <1>10, <1>11, <1>12, <1>13, <1>14
     DEF Next, Operator, TurnThread, ApiStep, ToolStep

(* The three parts of what the loop makes of the uses. *)
LEMMA FollowedUpWhenInv ==
  ASSUME TypeInv, FollowInv
  PROVE  EveryUseIsFollowedUp
<1>1. DOMAIN session = 1 .. Len(session)
  BY LenProperties DEF TypeInv, TypeOK
<1>2. RequestEndsWithInput
  BY DEF FollowInv, HasInput, RequestEndsWithInput
<1>3. EveryUseDealtWith
  BY <1>1 DEF FollowInv, AllDealtWith, EveryUseDealtWith, IsAssistant
<1>4. ResultsHaveTheirReply
  BY <1>1 DEF FollowInv, AllBehind, ResultsHaveTheirReply
<1> QED BY <1>2, <1>3, <1>4 DEF EveryUseIsFollowedUp

(* For every policy, hook, number of tools and length of the conversation, *)
(* and for every reply still in it: the messages directly behind it deal   *)
(* with its uses one by one and in order, up to a halt or a tool that      *)
(* failed to run; no other result exists but those a compaction cut off.   *)
THEOREM UsesFollowedUp == Spec => []EveryUseIsFollowedUp
<1>1. Init => FollowInv
  <2> SUFFICES ASSUME Init PROVE FollowInv
    OBVIOUS
  <2>1. session = <<>> /\ pending = <<>> /\ pc = "idle" /\ Len(<<>>) = 0
    BY EmptySeq DEF Init
  <2> QED BY <2>1 DEF FollowInv, AllDealtWith, AllBehind, Holder
<1>2. TypeInv /\ FollowInv => EveryUseIsFollowedUp
  BY FollowedUpWhenInv
<1> QED BY <1>1, <1>2, FollowNext, TypeInvHolds, PTL DEF Spec
================================================================================
