------------------------------ MODULE Permissions ------------------------------
(***************************************************************************)
(* runtime/src/permissions.rs: the permission modes, their order and the   *)
(* decision PermissionPolicy::authorize takes about one tool call.         *)
(*                                                                         *)
(* Tool inputs are data the decision does not look at, and are left out.   *)
(* The operator's answer belongs to the caller: Authorize only says when   *)
(* the operator is asked.                                                  *)
(***************************************************************************)
EXTENDS Naturals

CONSTANTS
  Tools,         \* the tool names a model may call
  Requirements   \* tool_requirements: a partial function from tools to modes

(* enum PermissionMode, which derives Ord from the order of declaration. *)
Modes == {"ReadOnly", "WorkspaceWrite", "DangerFullAccess", "Prompt", "Allow"}

Rank(mode) ==
  CASE mode = "ReadOnly"         -> 0
    [] mode = "WorkspaceWrite"   -> 1
    [] mode = "DangerFullAccess" -> 2
    [] mode = "Prompt"           -> 3
    [] mode = "Allow"            -> 4

ASSUME RequirementsAssumption ==
  /\ DOMAIN Requirements \subseteq Tools
  /\ \A t \in DOMAIN Requirements : Requirements[t] \in Modes

(* required_mode_for: a tool nobody registered needs full access. *)
RequiredMode(tool) ==
  IF tool \in DOMAIN Requirements THEN Requirements[tool] ELSE "DangerFullAccess"

(* Mutant: the mode's rank may fall one short. *)
ModeAlmostSuffices(mode, tool) ==
  \/ mode = "Allow"
  \/ Rank(mode) + 1 >= Rank(RequiredMode(tool))

(* The first return of authorize: the mode alone settles the call. *)
ModeSuffices(mode, tool) ==
  \/ mode = "Allow"
  \/ Rank(mode) >= Rank(RequiredMode(tool))

(* The escalations authorize hands to the operator. *)
MayEscalate(mode, tool) ==
  \/ mode = "Prompt"
  \/ mode = "WorkspaceWrite" /\ RequiredMode(tool) = "DangerFullAccess"

(* authorize: "ask" stands for the call of prompter.decide. *)
Authorize(mode, tool, hasPrompter) ==
  CASE ModeSuffices(mode, tool)                                      -> "allow"
    [] ~ModeSuffices(mode, tool) /\ MayEscalate(mode, tool)
                                 /\ hasPrompter                      -> "ask"
    [] OTHER                                                         -> "deny"
================================================================================
