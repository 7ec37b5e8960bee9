----------------------------- MODULE LastLookBack -----------------------------
(***************************************************************************)
(* moe-llb: the Last Look Back protocol.  albert_llb::execute carries one  *)
(* file mutation through Gate 1, a snapshot of the target, the caller's    *)
(* action and Gate 2, and then commits it or restores the snapshot.        *)
(*                                                                         *)
(* All targets live in one directory, the one Gate 2 counts the entries    *)
(* of.  Each transaction is one call of execute; with Concurrent they      *)
(* belong to several processes, without it to one llb_write_safe server,   *)
(* which serves one call at a time.  Paths are names: canonicalisation and *)
(* the prefix test of the blacklist are reduced to membership in Protected.*)
(***************************************************************************)
EXTENDS Integers, FiniteSets

CONSTANTS
  Files,        \* the names of the directory a mutation may target
  ExecNames,    \* those with an executable-like extension
  Protected,    \* those on the blacklist
  Values,       \* file contents
  Big,          \* the contents above SNAPSHOT_SIZE_LIMIT_MB
  Garbage,      \* what an action that fails halfway leaves in the file
  Absent,       \* no such file
  Stamps,       \* the millisecond time stamps of snapshot names
  Txs,          \* calls of execute
  Ops,          \* the operations submitted
  Behaviours,   \* how the caller's action may behave
  Expiries,     \* may the ticket be older than its 30 s at Gate 2?
  RestoreErrs,  \* may copying the snapshot back fail?
  Concurrent,   \* do transactions overlap?
  Crashes,      \* may a process die in the middle?
  MaxStrays     \* bound: entries other than targets and snapshots

Operations == {"CREATE", "OVERWRITE", "DELETE", "CHMOD"}

(* The caller's closure: it does what was declared; it returns an error    *)
(* before or after damaging the target; it panics; it reports success and  *)
(* did nothing, left another file behind, made the target executable, or   *)
(* wrote to a neighbour as well.                                           *)
AllBehaviours == {"honest", "fails", "failsMidway", "panics",
                  "skips", "spills", "setsExec", "tampers"}

ASSUME LlbAssumption ==
  /\ ExecNames \subseteq Files
  /\ Protected \subseteq Files
  /\ Big \subseteq Values
  /\ Garbage \in Values \ Big
  /\ Ops \subseteq Operations
  /\ Behaviours \subseteq AllBehaviours
  /\ Expiries \subseteq BOOLEAN
  /\ RestoreErrs \subseteq BOOLEAN
  /\ Absent \notin [data : Values, exec : BOOLEAN]
  /\ Stamps \cap {"none", "unbacked"} = {}
  /\ Concurrent \in BOOLEAN
  /\ Crashes \in BOOLEAN
  /\ MaxStrays \in Nat
  /\ IsFiniteSet(Files) /\ Files # {} /\ IsFiniteSet(Stamps)

VARIABLES
  disk,     \* the targets: content and execute bit, or Absent
  snaps,    \* the snapshot files, by target and time stamp
  strays,   \* how many other entries the directory has
  tx        \* the transactions

vars == <<disk, snaps, strays, tx>>

--------------------------------------------------------------------------------
Content == [data : Values, exec : BOOLEAN]

NoSnap == "none"            \* no SnapshotHandle
Unbacked == "unbacked"      \* a handle with is_content_backed = false

PCs == {"idle", "human", "capture", "snapshot", "act", "gate2", "undo",
        "close", "done", "crashed"}

Verdicts == {"none", "rejected", "humanVeto", "snapshotFailed", "allow",
             "execError", "expired", "violation", "rollbackFailed", "panicked"}

Transaction ==
  [pc        : PCs,
   file      : Files,
   op        : Operations,
   data      : Values,                     \* what the action writes
   tier      : 0 .. 3,
   before    : Nat,                        \* DirState.entry_count
   snap      : Stamps \cup {NoSnap, Unbacked},  \* afterwards: the file left behind
   behaviour : AllBehaviours,              \* history: what the action did
   pre       : Content \cup {Absent},      \* history: the target at Gate 1
   verdict   : Verdicts]

TypeOK ==
  /\ disk \in [Files -> Content \cup {Absent}]
  /\ snaps \in [Files \X Stamps -> Content \cup {Absent}]
  /\ strays \in 0 .. MaxStrays
  /\ tx \in [Txs -> Transaction]

(* Any small or big files may be there; none is executable to begin with   *)
(* unless its name says so.                                                *)
Init ==
  /\ disk \in [Files -> [data : Values \ {Garbage}, exec : {FALSE}] \cup {Absent}]
  /\ snaps = [s \in Files \X Stamps |-> Absent]
  /\ strays = 0
  /\ tx \in [Txs -> [pc : {"idle"}, file : {CHOOSE f \in Files : TRUE},
                     op : {"CREATE"}, data : {Garbage}, tier : {0}, before : {0},
                     snap : {NoSnap}, behaviour : {"honest"}, pre : {Absent},
                     verdict : {"none"}]]

--------------------------------------------------------------------------------
Exists(f) == disk[f] # Absent

(* SafetyTier::classify *)
Tier(f, op) ==
  CASE op = "DELETE"                             -> 3
    [] op \in {"OVERWRITE", "CHMOD"}             -> 2
    [] op = "CREATE" /\ f \in ExecNames          -> 2
    [] OTHER                                     -> 1

RequiresSnapshot(tier) == tier >= 2
RequiresHitl(tier)     == tier >= 3
RequiresGate2(tier)    == tier >= 2

(* capture_dir_state: snapshots are entries of the directory too. *)
EntryCount ==
  Cardinality({f \in Files : disk[f] # Absent})
    + Cardinality({s \in Files \X Stamps : snaps[s] # Absent})
    + strays

InFlight(t) == tx[t].pc \notin {"idle", "done", "crashed"}

Set(t, r) == tx' = [tx EXCEPT ![t] = r]

Move(t, to) == Set(t, [tx[t] EXCEPT !.pc = to])

(* Leave execute with a verdict: the handle is dropped on the way out. *)
Leave(t, verdict) == Set(t, [tx[t] EXCEPT !.pc = "close", !.verdict = verdict])

--------------------------------------------------------------------------------
(* Gate 1: resolve the path, check the blacklist, classify, ask the human. *)
Submit(t, f, op, v) ==
  /\ tx[t].pc = "idle"
  /\ Concurrent \/ \A u \in Txs : ~InFlight(u)
  /\ LET request == [tx[t] EXCEPT !.file = f, !.op = op, !.data = v,
                                  !.tier = Tier(f, op), !.pre = disk[f]]
         resolved == (Exists(f) \/ op = "CREATE") /\ f \notin Protected
     IN  \/ ~resolved /\ Set(t, [request EXCEPT !.pc = "done",
                                                !.verdict = "rejected"])
         \/ resolved /\ Set(t, [request EXCEPT !.pc =
              IF RequiresHitl(Tier(f, op)) THEN "human" ELSE "capture"])
  /\ UNCHANGED <<disk, snaps, strays>>

(* hitl::confirm *)
HumanAnswers(t, confirmed) ==
  /\ tx[t].pc = "human"
  /\ \/ confirmed /\ Move(t, "capture")
     \/ ~confirmed /\ Set(t, [tx[t] EXCEPT !.pc = "done", !.verdict = "humanVeto"])
  /\ UNCHANGED <<disk, snaps, strays>>

(* capture_dir_state before the snapshot; the directory may be unreadable. *)
Capture(t) ==
  /\ tx[t].pc = "capture"
  /\ \/ Set(t, [tx[t] EXCEPT !.pc = "snapshot", !.before = EntryCount])
     \/ Set(t, [tx[t] EXCEPT !.pc = "done", !.verdict = "rejected"])
  /\ UNCHANGED <<disk, snaps, strays>>

(* Mutant: the permission bits are not backed up. *)
SnapshotOfData(t, stamp) ==
  /\ tx[t].pc = "snapshot"
  /\ snaps' = IF Exists(tx[t].file)
              THEN [snaps EXCEPT ![<<tx[t].file, stamp>>] = disk[tx[t].file].data]
              ELSE snaps
  /\ Set(t, [tx[t] EXCEPT !.pc = "act", !.snap = stamp])
  /\ UNCHANGED <<disk, strays>>

(* snapshot::create, for tier 2 and up when the target exists.  Two        *)
(* snapshots of a file share their name when two processes take them in    *)
(* the same millisecond.                                                   *)
Snapshot(t, stamp) ==
  /\ tx[t].pc = "snapshot"
  /\ LET f == tx[t].file
         wanted == RequiresSnapshot(tx[t].tier) /\ Exists(f)
     IN  \/ /\ ~wanted
            /\ Move(t, "act")
            /\ UNCHANGED snaps
         \/ /\ wanted /\ disk[f].data \in Big
            /\ Set(t, [tx[t] EXCEPT !.pc = "act", !.snap = Unbacked])
            /\ UNCHANGED snaps
         \/ /\ wanted /\ disk[f].data \notin Big
            /\ Concurrent \/ snaps[<<f, stamp>>] = Absent
            /\ snaps' = [snaps EXCEPT ![<<f, stamp>>] = disk[f]]
            /\ Set(t, [tx[t] EXCEPT !.pc = "act", !.snap = stamp])
  /\ UNCHANGED <<disk, strays>>

(* fs::copy may fail, and execute returns before the action.  Either the   *)
(* snapshot could not be created,                                          *)
SnapshotFails(t) ==
  /\ tx[t].pc = "snapshot"
  /\ RequiresSnapshot(tx[t].tier) /\ Exists(tx[t].file)
  /\ disk[tx[t].file].data \notin Big
  /\ Set(t, [tx[t] EXCEPT !.pc = "done", !.verdict = "snapshotFailed"])
  /\ UNCHANGED <<disk, snaps, strays>>

(* or it was not written to its end: there is no handle that would remove  *)
(* what was written, and snap keeps its name.                              *)
SnapshotTears(t, stamp) ==
  /\ tx[t].pc = "snapshot"
  /\ RequiresSnapshot(tx[t].tier) /\ Exists(tx[t].file)
  /\ disk[tx[t].file].data \notin Big
  /\ Concurrent \/ snaps[<<tx[t].file, stamp>>] = Absent
  /\ snaps' = [snaps EXCEPT ![<<tx[t].file, stamp>>] =
                 [data |-> Garbage, exec |-> disk[tx[t].file].exec]]
  /\ Set(t, [tx[t] EXCEPT !.pc = "done", !.snap = stamp,
                          !.verdict = "snapshotFailed"])
  /\ UNCHANGED <<disk, strays>>

--------------------------------------------------------------------------------
(* The caller's action. *)

(* What the declared operation makes of a target that holds c. *)
Effect(op, c, v) ==
  CASE op = "DELETE" -> Absent
    [] op = "CHMOD"  -> [c EXCEPT !.exec = TRUE]
    [] OTHER         -> [data |-> v, exec |-> c # Absent /\ c.exec]

(* Deleting or chmod-ing a file that has gone is an error. *)
Possible(t) == tx[t].op \in {"DELETE", "CHMOD"} => Exists(tx[t].file)

(* An action that returns Ok, true to the declaration or not. *)
ActionReturns(t, how) ==
  /\ tx[t].pc = "act"
  /\ how \in {"honest", "skips", "spills", "setsExec", "tampers"}
  /\ LET f == tx[t].file
         done == Effect(tx[t].op, disk[f], tx[t].data)
     IN  \/ /\ how \in {"honest", "spills"}
            /\ Possible(t)
            /\ disk' = [disk EXCEPT ![f] = done]
         \/ /\ how = "skips"
            /\ UNCHANGED disk
         \/ /\ how = "setsExec"
            /\ Possible(t) /\ done # Absent
            /\ disk' = [disk EXCEPT ![f] = [done EXCEPT !.exec = TRUE]]
         \/ /\ how = "tampers"
            /\ Possible(t)
            /\ \E g \in Files \ {f} :
                 /\ Exists(g)
                 /\ disk' = [disk EXCEPT ![f] = done, ![g].data = Garbage]
  /\ strays' = IF how = "spills" THEN strays + 1 ELSE strays
  /\ strays' <= MaxStrays
  /\ IF RequiresGate2(tx[t].tier)
     THEN Set(t, [tx[t] EXCEPT !.behaviour = how, !.pc = "gate2"])
     ELSE Set(t, [tx[t] EXCEPT !.behaviour = how, !.pc = "close",
                               !.verdict = "allow"])
  /\ UNCHANGED snaps

(* Mutant: an error returns without a rollback. *)
ActionErrsForGood(t, how) ==
  /\ tx[t].pc = "act"
  /\ how \in {"fails", "failsMidway"}
  /\ how = "failsMidway" => Possible(t)
  /\ disk' = IF how = "failsMidway"
             THEN [disk EXCEPT ![tx[t].file] = Effect(tx[t].op, @, Garbage)]
             ELSE disk
  /\ Set(t, [tx[t] EXCEPT !.pc = "close", !.behaviour = how,
                          !.verdict = "execError"])
  /\ UNCHANGED <<snaps, strays>>

(* An action that returns Err, before or after it damaged the target. *)
ActionErrs(t, how) ==
  /\ tx[t].pc = "act"
  /\ how \in {"fails", "failsMidway"}
  /\ how = "failsMidway" => Possible(t)
  /\ disk' = IF how = "failsMidway"
             THEN [disk EXCEPT ![tx[t].file] = Effect(tx[t].op, @, Garbage)]
             ELSE disk
  /\ Set(t, [tx[t] EXCEPT !.pc = "undo", !.behaviour = how,
                          !.verdict = "execError"])
  /\ UNCHANGED <<snaps, strays>>

(* An action that panics unwinds through execute, which does not catch it: *)
(* the handle is dropped and nothing is restored.                          *)
ActionPanics(t) ==
  /\ tx[t].pc = "act"
  /\ Possible(t)
  /\ disk' = [disk EXCEPT ![tx[t].file] = Effect(tx[t].op, @, Garbage)]
  /\ Set(t, [tx[t] EXCEPT !.pc = "close", !.behaviour = "panics",
                          !.verdict = "panicked"])
  /\ UNCHANGED <<snaps, strays>>

--------------------------------------------------------------------------------
(* Gate 2. *)

(* check_target_integrity *)
TargetIntact(t) ==
  IF tx[t].op = "DELETE" THEN ~Exists(tx[t].file) ELSE Exists(tx[t].file)

ExpectedDelta(op) ==
  CASE op = "CREATE" -> 1
    [] op = "DELETE" -> -1
    [] OTHER         -> 0

(* Mutant: only entries that disappeared count. *)
NoSpilloverBelow(t) ==
  EntryCount - tx[t].before - (IF RequiresSnapshot(tx[t].tier) THEN 1 ELSE 0)
    >= ExpectedDelta(tx[t].op)

(* check_spillover: one entry is allowed for the snapshot the tier asks    *)
(* for, whether one was taken or not.                                      *)
NoSpillover(t) ==
  EntryCount - tx[t].before - (IF RequiresSnapshot(tx[t].tier) THEN 1 ELSE 0)
    = ExpectedDelta(tx[t].op)

(* check_executable_audit *)
NotExecutable(t) ==
  tx[t].op \in {"CREATE", "OVERWRITE"} /\ Exists(tx[t].file)
    => ~disk[tx[t].file].exec

Consistent(t) == TargetIntact(t) /\ NoSpillover(t) /\ NotExecutable(t)

(* Mutant: an inconsistent outcome is reported and not rolled back. *)
Gate2ReportsOnly(t, expired) ==
  /\ tx[t].pc = "gate2"
  /\ Leave(t, CASE expired                      -> "expired"
               [] ~expired /\ Consistent(t)    -> "allow"
               [] OTHER                        -> "violation")
  /\ UNCHANGED <<disk, snaps, strays>>

(* gate2::run: an expired ticket goes the way of an inconsistent outcome. *)
Gate2(t, expired) ==
  /\ tx[t].pc = "gate2"
  /\ \/ /\ ~expired /\ Consistent(t)
        /\ Leave(t, "allow")
     \/ /\ expired
        /\ Set(t, [tx[t] EXCEPT !.pc = "undo", !.verdict = "expired"])
     \/ /\ ~expired /\ ~Consistent(t)
        /\ Set(t, [tx[t] EXCEPT !.pc = "undo", !.verdict = "violation"])
  /\ UNCHANGED <<disk, snaps, strays>>

(* Mutant: restore waits for a snapshot that has vanished. *)
UndoWaiting(t, err) ==
  /\ tx[t].pc = "undo"
  /\ LET f == tx[t].file
         s == tx[t].snap
     IN  \/ s \notin Stamps /\ UNCHANGED disk
         \/ /\ s \in Stamps /\ snaps[<<f, s>>] # Absent
            /\ disk' = [disk EXCEPT ![f] = snaps[<<f, s>>]]
  /\ Leave(t, tx[t].verdict)
  /\ UNCHANGED <<snaps, strays>>

(* snapshot::restore, when there is a handle; the copy back may fail. *)
Undo(t, err) ==
  /\ tx[t].pc = "undo"
  /\ LET f == tx[t].file
         s == tx[t].snap
         gone == s = Unbacked \/ (s \in Stamps /\ snaps[<<f, s>>] = Absent)
     IN  \/ /\ s = NoSnap
            /\ Leave(t, tx[t].verdict)
            /\ UNCHANGED disk
         \/ /\ gone
            /\ Leave(t, "rollbackFailed")
            /\ UNCHANGED disk
         \/ /\ s \in Stamps /\ ~gone /\ err
            /\ Leave(t, "rollbackFailed")
            /\ disk' \in {disk, [disk EXCEPT ![f] = [data |-> Garbage,
                                                     exec |-> FALSE]]}
         \/ /\ s \in Stamps /\ ~gone /\ ~err
            /\ disk' = [disk EXCEPT ![f] = snaps[<<f, s>>]]
            /\ Leave(t, tx[t].verdict)
  /\ UNCHANGED <<snaps, strays>>

(* Mutant: every snapshot of the target is removed. *)
CloseAll(t) ==
  /\ tx[t].pc = "close"
  /\ snaps' = [s \in Files \X Stamps |->
                 IF s[1] = tx[t].file THEN Absent ELSE snaps[s]]
  /\ Set(t, [tx[t] EXCEPT !.pc = "done", !.snap = NoSnap])
  /\ UNCHANGED <<disk, strays>>

(* Mutant: a snapshot that was used is kept. *)
CloseOnCommit(t) ==
  /\ tx[t].pc = "close"
  /\ snaps' = IF tx[t].snap \in Stamps /\ tx[t].verdict = "allow"
              THEN [snaps EXCEPT ![<<tx[t].file, tx[t].snap>>] = Absent]
              ELSE snaps
  /\ Set(t, [tx[t] EXCEPT !.pc = "done", !.snap = NoSnap])
  /\ UNCHANGED <<disk, strays>>

(* Drop for SnapshotHandle removes the snapshot file if it is there, and   *)
(* ignores that it could not: the file stays, and snap keeps its name.     *)
Close(t) ==
  /\ tx[t].pc = "close"
  /\ LET name == <<tx[t].file, tx[t].snap>>
     IN  \/ /\ snaps' = IF tx[t].snap \in Stamps
                        THEN [snaps EXCEPT ![name] = Absent]
                        ELSE snaps
            /\ Set(t, [tx[t] EXCEPT !.pc = "done", !.snap = NoSnap])
         \/ /\ tx[t].snap \in Stamps /\ snaps[name] # Absent
            /\ Move(t, "done")
            /\ UNCHANGED snaps
  /\ UNCHANGED <<disk, strays>>

--------------------------------------------------------------------------------
(* The process dies: no destructor runs. *)
Crash(t) ==
  /\ Crashes
  /\ InFlight(t)
  /\ Move(t, "crashed")
  /\ UNCHANGED <<disk, snaps, strays>>

(* Someone else works in the directory. *)
Outsider ==
  /\ Concurrent
  /\ strays' \in {strays - 1, strays + 1} \cap (0 .. MaxStrays)
  /\ UNCHANGED <<disk, snaps, tx>>

Settle(t) ==
  \/ Capture(t) \/ SnapshotFails(t) \/ Close(t)
  \/ \E stamp \in Stamps : Snapshot(t, stamp) \/ SnapshotTears(t, stamp)
  \/ \E how \in Behaviours : ActionReturns(t, how) \/ ActionErrs(t, how)
  \/ ~Possible(t) /\ ActionErrs(t, "fails")
  \/ "panics" \in Behaviours /\ ActionPanics(t)
  \/ \E expired \in Expiries : Gate2(t, expired)
  \/ \E err \in RestoreErrs : Undo(t, err)

Next ==
  \/ \E t \in Txs :
       \/ \E f \in Files, op \in Ops, v \in Values \ {Garbage} : Submit(t, f, op, v)
       \/ \E confirmed \in BOOLEAN : HumanAnswers(t, confirmed)
       \/ Settle(t)
       \/ Crash(t)
  \/ Outsider
  \/ (\A t \in Txs : ~InFlight(t) /\ tx[t].pc # "idle") /\ UNCHANGED vars

Spec == Init /\ [][Next]_vars

(* A process that does not crash runs execute to its end. *)
FairSpec == Spec /\ \A t \in Txs : WF_vars(Settle(t))

--------------------------------------------------------------------------------
(* Safety. *)

Guarded(t) == RequiresGate2(tx[t].tier)

(* A guarded mutation that ended in an error or an IOCC violation left its *)
(* target as Gate 1 found it, however far the action got.                  *)
RolledBackMeansRestored ==
  \A t \in Txs :
    /\ tx[t].pc = "close" /\ Guarded(t)
    /\ tx[t].verdict \in {"execError", "expired", "violation"}
    => disk[tx[t].file] = tx[t].pre

(* From the moment the action may touch a small file until the transaction *)
(* settles, and for ever if the process dies, a snapshot holds the target  *)
(* as Gate 1 found it.  Later transactions and their snapshots do not      *)
(* disturb it.                                                             *)
UndoPointHeld ==
  \A t \in Txs :
    /\ tx[t].pc \in {"act", "gate2", "undo", "close", "crashed"}
    /\ tx[t].snap \in Stamps
    => snaps[<<tx[t].file, tx[t].snap>>] = tx[t].pre

(* An action that reports success but left a file behind, made its target  *)
(* executable or did not delete what it declared to delete is not          *)
(* committed.                                                              *)
DeceitIsCaught ==
  \A t \in Txs :
    tx[t].verdict = "allow" /\ Guarded(t) =>
      /\ tx[t].behaviour # "spills"
      /\ tx[t].behaviour = "setsExec" => tx[t].op = "CHMOD"
      /\ tx[t].behaviour = "skips" => tx[t].op # "DELETE"

(* Gate 2 accuses nobody wrongly: a violation comes from an action that    *)
(* strayed from its declaration, or from overwriting a file that was       *)
(* executable already.                                                     *)
ViolationHasCause ==
  \A t \in Txs :
    tx[t].verdict = "violation" =>
      \/ tx[t].behaviour # "honest"
      \/ tx[t].op = "OVERWRITE" /\ tx[t].pre # Absent /\ tx[t].pre.exec

(* Both ways round, with the leftovers of crashed processes in the same    *)
(* directory (gate2.rs:66 counts its entries).                             *)
Gate2IsRight == DeceitIsCaught /\ ViolationHasCause

(* A snapshot file in the directory is the undo point of a transaction     *)
(* under way, or it was left behind, and then for one of three reasons:    *)
(* its process died, copying it failed on the way, or removing it failed.  *)
(* A call that ends in any other way, a panic of its action included,      *)
(* leaves none.  The code reports the second as a failed snapshot; nobody  *)
(* learns of the third.                                                    *)
CopyFailed(t)    == tx[t].pc = "done" /\ tx[t].verdict = "snapshotFailed"
RemovalFailed(t) == /\ tx[t].pc = "done" /\ tx[t].snap \in Stamps
                    /\ ~CopyFailed(t)

EverySnapshotIsOwned ==
  \A f \in Files, s \in Stamps :
    snaps[<<f, s>>] # Absent =>
      \E t \in Txs : /\ tx[t].file = f /\ tx[t].snap = s
                     /\ \/ InFlight(t) \/ tx[t].pc = "crashed"
                        \/ CopyFailed(t) \/ RemovalFailed(t)

(* LastLookBack implements AtomicMutation: seen from outside, a target     *)
(* changes only when the verdict is allow, in one step, to what the        *)
(* request declared; until then it counts as holding what Gate 1 found.    *)
Unsettled(t) == InFlight(t) /\ tx[t].verdict # "allow"

CommittedFile(f) ==
  IF \E t \in Txs : Unsettled(t) /\ tx[t].file = f
  THEN LET t == CHOOSE t \in Txs : Unsettled(t) /\ tx[t].file = f IN tx[t].pre
  ELSE disk[f]

RequestOf(r) ==
  CASE r.pc = "idle"                           -> [state |-> "open"]
    [] r.verdict = "allow"                     -> [state |-> "granted"]
    [] r.pc = "done" /\ r.verdict # "allow"    -> [state |-> "refused"]
    [] OTHER -> [state |-> "asked", file |-> r.file, op |-> r.op, data |-> r.data]

Atomic ==
  INSTANCE AtomicMutation WITH
    Contents <- Content \cup {Absent}, Wanted <- Effect, Data <- Values,
    files    <- [f \in Files |-> CommittedFile(f)],
    request  <- [t \in Txs |-> RequestOf(tx[t])]

ImplementsAtomic == Atomic!Spec

--------------------------------------------------------------------------------
(* Liveness. *)

(* A mutation Gate 1 let through reaches its end, whatever happens to its  *)
(* target and to its snapshot meanwhile.                                   *)
EveryMutationSettles ==
  \A t \in Txs : tx[t].pc = "capture" ~> tx[t].pc \in {"done", "crashed"}
================================================================================
