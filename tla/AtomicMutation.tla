---------------------------- MODULE AtomicMutation ----------------------------
(***************************************************************************)
(* What "every mutation is an atomic transaction" promises the caller of   *)
(* moe-llb (README.md:26): a request names a file and what should become   *)
(* of it; later it is granted, and the file becomes that in one step, or   *)
(* refused, and nothing changes.  LastLookBack implements this.            *)
(***************************************************************************)
CONSTANTS
  Files, Contents,   \* the files, and what a file may hold (or be absent)
  Txs,               \* requests
  Wanted(_, _, _)    \* Wanted(op, content, data): the declared outcome

CONSTANTS Operations, Data

VARIABLES
  files,      \* what the directory holds, half-done work not counted
  request     \* each request: not made yet, under way or over

vars == <<files, request>>

Open   == [state : {"open"}]
Asked  == [state : {"asked"}, file : Files, op : Operations, data : Data]
Over   == [state : {"granted", "refused"}]

TypeOK ==
  /\ files \in [Files -> Contents]
  /\ request \in [Txs -> Open \cup Asked \cup Over]

Init ==
  /\ files \in [Files -> Contents]
  /\ request \in [Txs -> Open]

Ask(t) ==
  /\ request[t] \in Open
  /\ request' \in {[request EXCEPT ![t] = r] : r \in Asked}
  /\ UNCHANGED files

Grant(t) ==
  /\ request[t] \in Asked
  /\ LET f == request[t].file IN
     files' = [files EXCEPT
                 ![f] = Wanted(request[t].op, files[f], request[t].data)]
  /\ request' = [request EXCEPT ![t] = [state |-> "granted"]]

Refuse(t) ==
  /\ request[t].state \in {"open", "asked"}
  /\ request' = [request EXCEPT ![t] = [state |-> "refused"]]
  /\ UNCHANGED files

Next == \E t \in Txs : Ask(t) \/ Grant(t) \/ Refuse(t)

Spec == Init /\ [][Next]_vars
================================================================================
