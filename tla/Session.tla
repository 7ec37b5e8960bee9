-------------------------------- MODULE Session --------------------------------
(***************************************************************************)
(* The conversation a turn works on: the messages of runtime/src/session.rs*)
(* the usage derived from them (usage.rs) and compaction (compact.rs).     *)
(*                                                                         *)
(* A message keeps what the loop and the properties tell apart: who wrote  *)
(* it and why, the tool calls it makes or answers, whether the answer is   *)
(* an error, and the input tokens the API reported with it.  Text, images, *)
(* thinking blocks and the wording of summaries are left out.              *)
(***************************************************************************)
EXTENDS Naturals, Sequences, Permissions   \* Permissions for Tools

CONSTANTS
  Tokens,           \* the input_tokens figures a reply may report
  NoUsage,          \* `usage: None`
  CounterModulus,   \* the u32 counters of UsageTracker wrap here
  PreserveRecent    \* CompactionConfig::preserve_recent_messages

ASSUME SessionAssumption ==
  /\ CounterModulus \in Nat \ {0}
  /\ Tokens \subseteq 0 .. CounterModulus - 1
  /\ NoUsage \notin Nat
  /\ PreserveRecent \in Nat \ {0}

--------------------------------------------------------------------------------
(* ContentBlock::ToolUse; ids are unique, as the API hands them out. *)
ToolUse == [id : Nat \ {0}, tool : Tools]

(* Role User is "user" for a prompt, "reflection" and "recovery" for the   *)
(* two user messages the loop writes itself; Tool is "result"; System is   *)
(* "summary".                                                              *)
Kinds == {"user", "reflection", "recovery", "assistant", "result", "summary"}

(* What a tool result reports: the policy's reason, the hook's message, the *)
(* tool's output, or the state-0 notice.                                    *)
Whys == {"none", "denied", "hook", "output", "halt"}

Message == [kind    : Kinds,
            uses    : Seq(ToolUse),
            answers : Nat,
            why     : Whys,
            error   : BOOLEAN,
            usage   : Tokens \cup {NoUsage}]

Plain(kind) ==
  [kind |-> kind, uses |-> <<>>, answers |-> 0, why |-> "none",
   error |-> FALSE, usage |-> NoUsage]

(* Mutant: the usage is tracked and not kept with the message. *)
AssistantMessageWithoutUsage(uses, usage) ==
  [Plain("assistant") EXCEPT !.uses = uses]

AssistantMessage(uses, usage) ==
  [Plain("assistant") EXCEPT !.uses = uses, !.usage = usage]

ToolResult(id, why, error) ==
  [kind |-> "result", uses |-> <<>>, answers |-> id, why |-> why,
   error |-> error, usage |-> NoUsage]

--------------------------------------------------------------------------------
(* UsageTracker { latest_turn, cumulative }, input tokens only. *)
Tracker == [latest : 0 .. CounterModulus - 1, cumulative : 0 .. CounterModulus - 1]

NewTracker == [latest |-> 0, cumulative |-> 0]

(* Mutant: the sum of the u32 counters does not wrap. *)
RecordUnbounded(tracker, usage) ==
  IF usage = NoUsage
  THEN tracker
  ELSE [latest |-> usage, cumulative |-> tracker.cumulative + usage]

(* UsageTracker::record, called when the reply carried a Usage event. *)
Record(tracker, usage) ==
  IF usage = NoUsage
  THEN tracker
  ELSE [latest     |-> usage,
        cumulative |-> (tracker.cumulative + usage) % CounterModulus]

(* UsageTracker::from_session: replay the usage of every message. *)
TrackerOf(session) ==
  LET replay[i \in 0 .. Len(session)] ==
        IF i = 0 THEN NewTracker ELSE Record(replay[i - 1], session[i].usage)
  IN  replay[Len(session)]

--------------------------------------------------------------------------------
(* should_compact with max_estimated_tokens = 0: only the length counts. *)
ShouldCompact(session) == Len(session) > PreserveRecent

(* Mutant: one recent message too few is kept. *)
CompactTooMuch(session) ==
  IF ShouldCompact(session)
  THEN <<Plain("summary")>>
         \o SubSeq(session, Len(session) - PreserveRecent + 2, Len(session))
  ELSE session

(* compact_session: one System summary, then the recent messages verbatim. *)
Compact(session) ==
  IF ShouldCompact(session)
  THEN <<Plain("summary")>>
         \o SubSeq(session, Len(session) - PreserveRecent + 1, Len(session))
  ELSE session

(* CompactionResult::removed_message_count *)
RemovedCount(session) ==
  IF ShouldCompact(session) THEN Len(session) - PreserveRecent ELSE 0
================================================================================
