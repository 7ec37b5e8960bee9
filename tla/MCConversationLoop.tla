-------------------------- MODULE MCConversationLoop --------------------------
(* Constants of the small instances of ConversationLoop that TLC checks. *)
EXTENDS ConversationLoop

(* A registered writer and a tool nobody registered: the read-only mode    *)
(* refuses both, workspace-write allows one and asks about the other.      *)
TwoTools == {"write", "shell"}
WriterOnly == [t \in {"write"} |-> "WorkspaceWrite"]

(* One tool, as the CLI registers none: it needs full access. *)
OneTool == {"shell"}
NoRequirements == <<>>
================================================================================
