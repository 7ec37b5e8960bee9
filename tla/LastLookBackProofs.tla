-------------------------- MODULE LastLookBackProofs --------------------------
(***************************************************************************)
(* What the Last Look Back protocol promises, for any directory, any       *)
(* number of transactions, actions and crashes: its types and the owners   *)
(* of its snapshot files, always; as long as one llb_write_safe server     *)
(* works in the directory, one call at a time, that undo points last, that *)
(* a rollback restores and that Gate 2 judges rightly; and where nothing   *)
(* but a verdict can end a call, that the server is an atomic store.       *)
(***************************************************************************)
EXTENDS LastLookBack, FiniteSetTheorems, TLAPS

(* The entries of the directory can be counted. *)
LEMMA EntriesCounted ==
  ASSUME TypeOK
  PROVE  EntryCount \in Nat
<1>1. IsFiniteSet(Files \X Stamps)
  BY FS_Product, LlbAssumption
<1>2. Cardinality({f \in Files : disk[f] # Absent}) \in Nat
  <2>1. {f \in Files : disk[f] # Absent} \in SUBSET Files
    OBVIOUS
  <2> QED BY <2>1, FS_Subset, FS_CardinalityType, LlbAssumption
<1>3. Cardinality({s \in Files \X Stamps : snaps[s] # Absent}) \in Nat
  <2>1. {s \in Files \X Stamps : snaps[s] # Absent} \in SUBSET (Files \X Stamps)
    OBVIOUS
  <2> QED BY <1>1, <2>1, FS_Subset, FS_CardinalityType
<1>4. strays \in Nat
  BY LlbAssumption DEF TypeOK
<1> QED BY <1>2, <1>3, <1>4 DEF EntryCount

(* What an operation declares is a content the target may have. *)
LEMMA EffectTyped ==
  ASSUME NEW op \in Operations, NEW c \in Content \cup {Absent}, NEW v \in Values,
         op = "CHMOD" => c # Absent
  PROVE  Effect(op, c, v) \in Content \cup {Absent}
<1>1. CASE op = "DELETE"
  BY <1>1 DEF Effect
<1>2. CASE op = "CHMOD"
  BY <1>2 DEF Effect, Content
<1>3. CASE op \in {"CREATE", "OVERWRITE"}
  <2>1. Effect(op, c, v) = [data |-> v, exec |-> c # Absent /\ c.exec]
    BY <1>3 DEF Effect
  <2>2. (c # Absent /\ c.exec) \in BOOLEAN
    OBVIOUS
  <2> QED BY <2>1, <2>2 DEF Content
<1> QED BY <1>1, <1>2, <1>3 DEF Operations

(* The steps that change fields of a transaction keep its type. *)
LEMMA TierTyped ==
  ASSUME NEW f, NEW op \in Operations
  PROVE  Tier(f, op) \in 1 .. 3
  BY DEF Tier, Operations

LEMMA MoveTyped ==
  ASSUME tx \in [Txs -> Transaction], NEW t \in Txs, NEW r \in Transaction, Set(t, r)
  PROVE  tx' \in [Txs -> Transaction]
  BY DEF Set

(* The induction step of the type invariant, for the caller's action. *)
LEMMA ActionTyped ==
  ASSUME TypeOK, NEW t \in Txs, NEW how \in AllBehaviours,
         ActionReturns(t, how) \/ ActionErrs(t, how) \/ ActionPanics(t)
  PROVE  TypeOK'
<1>1. /\ disk \in [Files -> Content \cup {Absent}] /\ strays \in 0 .. MaxStrays
      /\ tx \in [Txs -> Transaction] /\ tx[t] \in Transaction
      /\ tx[t].file \in Files /\ tx[t].op \in Operations /\ tx[t].data \in Values
      /\ Garbage \in Values /\ MaxStrays \in Nat
  BY LlbAssumption DEF TypeOK, Transaction
<1>2. Possible(t) => \A v \in Values :
        Effect(tx[t].op, disk[tx[t].file], v) \in Content \cup {Absent}
  BY <1>1, EffectTyped DEF Possible, Exists
<1>3. CASE ActionErrs(t, how)
  <2>1. disk' \in [Files -> Content \cup {Absent}]
    BY <1>1, <1>2, <1>3 DEF ActionErrs
  <2>2. [tx[t] EXCEPT !.pc = "undo", !.behaviour = how, !.verdict = "execError"] \in Transaction
    BY <1>1 DEF Transaction, PCs, Verdicts
  <2>3. tx' \in [Txs -> Transaction]
    BY <1>1, <1>3, <2>2, MoveTyped DEF ActionErrs
  <2> QED BY <1>3, <2>1, <2>3 DEF TypeOK, ActionErrs
<1>4. CASE ActionPanics(t)
  <2>1. disk' \in [Files -> Content \cup {Absent}]
    BY <1>1, <1>2, <1>4 DEF ActionPanics
  <2>2. [tx[t] EXCEPT !.pc = "close", !.behaviour = "panics", !.verdict = "panicked"] \in Transaction
    BY <1>1, ZenonT(40) DEF Transaction, PCs, Verdicts, AllBehaviours
  <2>3. tx' \in [Txs -> Transaction]
    BY <1>1, <1>4, <2>2, MoveTyped DEF ActionPanics
  <2> QED BY <1>4, <2>1, <2>3 DEF TypeOK, ActionPanics
<1>5. CASE ActionReturns(t, how)
  <2> DEFINE f == tx[t].file
             done == Effect(tx[t].op, disk[f], tx[t].data)
  <2>1. disk' \in [Files -> Content \cup {Absent}]
    <3>1. CASE disk' = disk
      BY <1>1, <3>1
    <3>2. CASE Possible(t) /\ disk' = [disk EXCEPT ![f] = done]
      BY <1>1, <1>2, <3>2
    <3>3. CASE Possible(t) /\ done # Absent /\ disk' = [disk EXCEPT ![f] = [done EXCEPT !.exec = TRUE]]
      <4>1. done \in Content
        BY <1>1, <1>2, <3>3
      <4>2. [done EXCEPT !.exec = TRUE] \in Content
        BY <4>1 DEF Content
      <4> QED BY <1>1, <3>3, <4>2
    <3>4. ASSUME Possible(t), NEW g \in Files \ {f}, Exists(g),
                 disk' = [disk EXCEPT ![f] = done, ![g].data = Garbage]
          PROVE  disk' \in [Files -> Content \cup {Absent}]
      <4>1. disk[g] \in Content /\ done \in Content \cup {Absent}
        BY <1>1, <1>2, <3>4 DEF Exists
      <4>2. [disk[g] EXCEPT !.data = Garbage] \in Content
        BY <1>1, <4>1 DEF Content
      <4>3. disk' = [x \in Files |-> IF x = g THEN [disk[g] EXCEPT !.data = Garbage]
                                     ELSE IF x = f THEN done ELSE disk[x]]
        BY <1>1, <3>4
      <4> HIDE DEF done, f
      <4> QED BY <1>1, <4>1, <4>2, <4>3
    <3> QED BY <1>5, <3>1, <3>2, <3>3, <3>4 DEF ActionReturns
  <2>2. strays' \in 0 .. MaxStrays
    BY <1>1, <1>5 DEF ActionReturns
  <2>3. /\ [tx[t] EXCEPT !.behaviour = how, !.pc = "gate2"] \in Transaction
        /\ [tx[t] EXCEPT !.behaviour = how, !.pc = "close", !.verdict = "allow"] \in Transaction
    BY <1>1 DEF Transaction, PCs, Verdicts
  <2>4. tx' \in [Txs -> Transaction]
    BY <1>1, <1>5, <2>3, MoveTyped DEF ActionReturns
  <2> QED BY <1>5, <2>1, <2>2, <2>4 DEF TypeOK, ActionReturns
<1> QED BY <1>3, <1>4, <1>5

(* Contents, snapshots and transactions keep their types. *)
LEMMA TypeInvariant == Spec => []TypeOK
<1>1. Init => TypeOK
  <2> SUFFICES ASSUME Init PROVE TypeOK
    OBVIOUS
  <2> DEFINE Idle == [pc : {"idle"}, file : {CHOOSE f \in Files : TRUE},
                      op : {"CREATE"}, data : {Garbage}, tier : {0}, before : {0},
                      snap : {NoSnap}, behaviour : {"honest"}, pre : {Absent},
                      verdict : {"none"}]
  <2>1. disk \in [Files -> Content \cup {Absent}] /\ snaps \in [Files \X Stamps -> Content \cup {Absent}]
    BY DEF Init, Content
  <2>2. strays \in 0 .. MaxStrays
    BY LlbAssumption DEF Init
  <2>3. tx \in [Txs -> Transaction]
    <3>1. (CHOOSE f \in Files : TRUE) \in Files
      BY LlbAssumption
    <3>2. Idle \subseteq Transaction
      BY <3>1, LlbAssumption DEF Transaction, PCs, Operations, AllBehaviours, Verdicts
    <3>3. tx \in [Txs -> Idle]
      BY DEF Init
    <3> HIDE DEF Idle
    <3> QED BY <3>2, <3>3
  <2> QED BY <2>1, <2>2, <2>3 DEF TypeOK
<1>2. TypeOK /\ [Next]_vars => TypeOK'
  <2> SUFFICES ASSUME TypeOK, [Next]_vars PROVE TypeOK'
    OBVIOUS
  <2>1. /\ disk \in [Files -> Content \cup {Absent}] /\ strays \in 0 .. MaxStrays
        /\ snaps \in [Files \X Stamps -> Content \cup {Absent}]
        /\ tx \in [Txs -> Transaction] /\ Garbage \in Values /\ MaxStrays \in Nat
    BY LlbAssumption DEF TypeOK
  <2>2. ASSUME NEW t \in Txs, NEW f \in Files, NEW op \in Ops, NEW v \in Values, Submit(t, f, op, v)
        PROVE  TypeOK'
    <3> DEFINE request == [tx[t] EXCEPT !.file = f, !.op = op, !.data = v,
                                        !.tier = Tier(f, op), !.pre = disk[f]]
    <3>1. op \in Operations /\ Tier(f, op) \in 0 .. 3 /\ disk[f] \in Content \cup {Absent}
      BY <2>1, LlbAssumption, TierTyped
    <3>2. request \in Transaction
      BY <2>1, <3>1 DEF Transaction
    <3>3. \E pc \in PCs, verdict \in Verdicts :
            Set(t, [request EXCEPT !.pc = pc, !.verdict = verdict])
      <4>1. PICK pc \in {"human", "capture"} :
              \/ Set(t, [request EXCEPT !.pc = "done", !.verdict = "rejected"])
              \/ Set(t, [request EXCEPT !.pc = pc])
        BY <2>2 DEF Submit
      <4>2. [request EXCEPT !.pc = pc] = [request EXCEPT !.pc = pc, !.verdict = request.verdict]
            /\ request.verdict \in Verdicts
        BY <3>2 DEF Transaction
      <4> HIDE DEF request
      <4> QED BY <4>1, <4>2 DEF PCs, Verdicts
    <3>4. tx' \in [Txs -> Transaction]
      <4>1. PICK pc \in PCs, verdict \in Verdicts :
              Set(t, [request EXCEPT !.pc = pc, !.verdict = verdict])
        BY <3>3
      <4>2. [request EXCEPT !.pc = pc, !.verdict = verdict] \in Transaction
        BY <3>2 DEF Transaction
      <4> HIDE DEF request
      <4> QED BY <2>1, <4>1, <4>2, MoveTyped
    <3> QED BY <2>1, <2>2, <3>4 DEF TypeOK, Submit
  <2>3. ASSUME NEW t \in Txs, NEW confirmed \in BOOLEAN,
               \/ HumanAnswers(t, confirmed) \/ SnapshotFails(t) \/ Crash(t)
               \/ \E expired \in BOOLEAN : Gate2(t, expired)
        PROVE  TypeOK'
    <3>1. tx[t] \in Transaction
      BY <2>1
    <3>2. \E pc \in PCs, verdict \in Verdicts : Set(t, [tx[t] EXCEPT !.pc = pc, !.verdict = verdict])
      <4>1. tx[t].verdict \in Verdicts
        BY <3>1 DEF Transaction
      <4>2. ASSUME NEW pc \in {"capture", "crashed"}, Set(t, [tx[t] EXCEPT !.pc = pc])
            PROVE  Set(t, [tx[t] EXCEPT !.pc = pc, !.verdict = tx[t].verdict])
        BY <3>1, <4>2 DEF Set, Transaction
      <4>3. {"capture", "crashed", "done", "close", "undo"} \subseteq PCs
        BY DEF PCs
      <4>4. {"humanVeto", "snapshotFailed", "allow", "expired", "violation"} \subseteq Verdicts
        BY DEF Verdicts
      <4>5. CASE \E pc \in {"capture", "crashed"} : Set(t, [tx[t] EXCEPT !.pc = pc])
        BY <4>1, <4>2, <4>3, <4>5
      <4>6. CASE \E pc \in {"done", "close", "undo"},
                    verdict \in {"humanVeto", "snapshotFailed", "allow", "expired", "violation"} :
                   Set(t, [tx[t] EXCEPT !.pc = pc, !.verdict = verdict])
        BY <4>3, <4>4, <4>6
      <4>7. \/ \E pc \in {"capture", "crashed"} : Set(t, [tx[t] EXCEPT !.pc = pc])
            \/ \E pc \in {"done", "close", "undo"},
                  verdict \in {"humanVeto", "snapshotFailed", "allow", "expired", "violation"} :
                 Set(t, [tx[t] EXCEPT !.pc = pc, !.verdict = verdict])
        BY <2>3 DEF HumanAnswers, SnapshotFails, Crash, Gate2, Move, Leave
      <4> QED BY <4>5, <4>6, <4>7
    <3>3. PICK pc \in PCs, verdict \in Verdicts : Set(t, [tx[t] EXCEPT !.pc = pc, !.verdict = verdict])
      BY <3>2
    <3>4. [tx[t] EXCEPT !.pc = pc, !.verdict = verdict] \in Transaction
      BY <3>1 DEF Transaction
    <3>5. tx' \in [Txs -> Transaction]
      BY <2>1, <3>3, <3>4, MoveTyped
    <3>6. UNCHANGED <<disk, snaps, strays>>
      BY <2>3 DEF HumanAnswers, SnapshotFails, Crash, Gate2
    <3> QED BY <2>1, <3>5, <3>6 DEF TypeOK
  <2>4. ASSUME NEW t \in Txs, Capture(t) PROVE TypeOK'
    <3>1. [tx[t] EXCEPT !.pc = "snapshot", !.before = EntryCount] \in Transaction
      BY <2>1, EntriesCounted, ZenonT(40) DEF Transaction, PCs
    <3>2. [tx[t] EXCEPT !.pc = "done", !.verdict = "rejected"] \in Transaction
      BY <2>1, ZenonT(40) DEF Transaction, PCs, Verdicts
    <3>3. tx' \in [Txs -> Transaction]
      BY <2>1, <2>4, <3>1, <3>2, MoveTyped DEF Capture
    <3> QED BY <2>1, <2>4, <3>3 DEF TypeOK, Capture
  <2>5. ASSUME NEW t \in Txs, NEW stamp \in Stamps, Snapshot(t, stamp) PROVE TypeOK'
    <3>1. /\ [tx[t] EXCEPT !.pc = "act"] \in Transaction
          /\ [tx[t] EXCEPT !.pc = "act", !.snap = Unbacked] \in Transaction
          /\ [tx[t] EXCEPT !.pc = "act", !.snap = stamp] \in Transaction
      BY <2>1, ZenonT(40) DEF Transaction, PCs
    <3>2. tx' \in [Txs -> Transaction]
      BY <2>1, <2>5, <3>1, MoveTyped DEF Snapshot, Move
    <3>3. tx[t].file \in Files /\ disk[tx[t].file] \in Content \cup {Absent}
      BY <2>1 DEF Transaction
    <3>4. snaps' \in [Files \X Stamps -> Content \cup {Absent}]
      BY <2>1, <2>5, <3>3 DEF Snapshot
    <3> QED BY <2>1, <2>5, <3>2, <3>4 DEF TypeOK, Snapshot
  <2>6. ASSUME NEW t \in Txs, NEW err \in BOOLEAN, Undo(t, err) PROVE TypeOK'
    <3>1. /\ tx[t].file \in Files /\ tx[t].verdict \in Verdicts
          /\ [data |-> Garbage, exec |-> FALSE] \in Content
      BY <2>1 DEF Transaction, Content
    <3>2. disk' \in [Files -> Content \cup {Absent}]
      BY <2>1, <2>6, <3>1 DEF Undo
    <3>3. \A verdict \in Verdicts : [tx[t] EXCEPT !.pc = "close", !.verdict = verdict] \in Transaction
      BY <2>1, ZenonT(40) DEF Transaction, PCs
    <3>4. Set(t, [tx[t] EXCEPT !.pc = "close", !.verdict = tx[t].verdict])
          \/ Set(t, [tx[t] EXCEPT !.pc = "close", !.verdict = "rollbackFailed"])
      BY <2>6 DEF Undo, Leave
    <3>5. "rollbackFailed" \in Verdicts
      BY DEF Verdicts
    <3>6. tx' \in [Txs -> Transaction]
      BY <2>1, <3>1, <3>3, <3>4, <3>5, MoveTyped
    <3> QED BY <2>1, <2>6, <3>2, <3>6 DEF TypeOK, Undo
  <2>7. ASSUME NEW t \in Txs, Close(t) PROVE TypeOK'
    <3>1. /\ [tx[t] EXCEPT !.pc = "done"] \in Transaction /\ tx[t].file \in Files
          /\ [tx[t] EXCEPT !.pc = "done", !.snap = NoSnap] \in Transaction
      BY <2>1, ZenonT(40) DEF Transaction, PCs
    <3>2. tx' \in [Txs -> Transaction]
      BY <2>1, <2>7, <3>1, MoveTyped DEF Close, Move
    <3>3. snaps' \in [Files \X Stamps -> Content \cup {Absent}]
      BY <2>1, <2>7, <3>1 DEF Close
    <3> QED BY <2>1, <2>7, <3>2, <3>3 DEF TypeOK, Close
  <2>11. ASSUME NEW t \in Txs, NEW stamp \in Stamps, SnapshotTears(t, stamp) PROVE TypeOK'
    <3>1. [tx[t] EXCEPT !.pc = "done", !.snap = stamp, !.verdict = "snapshotFailed"]
            \in Transaction
      BY <2>1, ZenonT(40) DEF Transaction, PCs, Verdicts
    <3>2. tx' \in [Txs -> Transaction]
      BY <2>1, <2>11, <3>1, MoveTyped DEF SnapshotTears
    <3>3. tx[t].file \in Files /\ disk[tx[t].file] \in Content
      BY <2>1, <2>11 DEF Transaction, SnapshotTears, Exists
    <3>4. [data |-> Garbage, exec |-> disk[tx[t].file].exec] \in Content
      BY <3>3, LlbAssumption DEF Content
    <3>5. snaps' \in [Files \X Stamps -> Content \cup {Absent}]
      BY <2>1, <2>11, <3>3, <3>4 DEF SnapshotTears
    <3> QED BY <2>1, <2>11, <3>2, <3>5 DEF TypeOK, SnapshotTears
  <2>8. CASE Outsider
    BY <2>1, <2>8 DEF TypeOK, Outsider
  <2>9. CASE UNCHANGED vars
    BY <2>9 DEF TypeOK, vars
  <2>10. ASSUME NEW t \in Txs, Settle(t) PROVE TypeOK'
    <3>1. "fails" \in AllBehaviours /\ Behaviours \subseteq AllBehaviours
          /\ Expiries \subseteq BOOLEAN /\ RestoreErrs \subseteq BOOLEAN
      BY LlbAssumption DEF AllBehaviours
    <3>2. ASSUME NEW how \in AllBehaviours,
                 ActionReturns(t, how) \/ ActionErrs(t, how) \/ ActionPanics(t)
          PROVE  TypeOK'
      BY <3>2, ActionTyped
    <3> QED BY <2>3, <2>4, <2>5, <2>6, <2>7, <2>10, <2>11, <3>1, <3>2 DEF Settle
  <2> QED
    BY <2>2, <2>3, <2>8, <2>9, <2>10 DEF Next
<1> QED
  BY <1>1, <1>2, PTL DEF Spec

--------------------------------------------------------------------------------
(* One server works in the directory: one call at a time is under way, the *)
(* target is as Gate 1 found it until the action runs, and no two calls    *)
(* hold the same snapshot file, crashed ones included.                     *)
Held(t) ==
  tx[t].pc \in {"act", "gate2", "undo", "close", "crashed"} /\ tx[t].snap \in Stamps

OneAtATime == \A t, u \in Txs : InFlight(t) /\ InFlight(u) => t = u

Untouched == \A t \in Txs :
  /\ tx[t].pc \in {"human", "capture", "snapshot"} => disk[tx[t].file] = tx[t].pre
  /\ tx[t].pc \in {"idle", "human", "capture", "snapshot"} => tx[t].snap = NoSnap

SnapshotsHold == \A t \in Txs :
  Held(t) => snaps[<<tx[t].file, tx[t].snap>>] = tx[t].pre /\ tx[t].pre # Absent

SnapshotsDiffer == \A t, u \in Txs :
  Held(t) /\ Held(u) /\ tx[t].file = tx[u].file /\ tx[t].snap = tx[u].snap => t = u

UndoInv == OneAtATime /\ Untouched /\ SnapshotsHold /\ SnapshotsDiffer

(* The transaction that acts is the only one it changes.  Every step but   *)
(* the start of a call is taken in flight.                                 *)
Acts(t) ==
  \/ \E f \in Files, op \in Ops, v \in Values : Submit(t, f, op, v)
  \/ \E confirmed \in BOOLEAN : HumanAnswers(t, confirmed)
  \/ Settle(t)
  \/ Crash(t)

LEMMA ActsAlone ==
  ASSUME TypeOK, NEW t \in Txs, Acts(t)
  PROVE  /\ \A u \in Txs : u # t => tx'[u] = tx[u]
         /\ InFlight(t) \/ \E f \in Files, op \in Ops, v \in Values : Submit(t, f, op, v)
<1>1. PICK r : Set(t, r)
  BY DEF Acts, Settle, Submit, HumanAnswers, Crash, Capture, SnapshotFails, Close, Snapshot,
         SnapshotTears, ActionReturns, ActionErrs, ActionPanics, Gate2, Undo, Move, Leave
<1>2. \A u \in Txs : u # t => tx'[u] = tx[u]
  BY <1>1 DEF Set, TypeOK
<1>3. InFlight(t) \/ \E f \in Files, op \in Ops, v \in Values : Submit(t, f, op, v)
  BY DEF InFlight, Acts, Settle, HumanAnswers, Crash, Capture, SnapshotFails, Close, Snapshot,
         SnapshotTears, ActionReturns, ActionErrs, ActionPanics, Gate2, Undo
<1> QED BY <1>2, <1>3

(* A call under way stays alone. *)
LEMMA StaysAlone ==
  ASSUME ~Concurrent, TypeOK, OneAtATime, NEW t \in Txs, Acts(t)
  PROVE  OneAtATime' /\ \A u \in Txs : u # t => ~InFlight(u)
<1>1. \A u \in Txs : u # t => ~InFlight(u)
  <2>1. CASE InFlight(t)
    BY <2>1 DEF OneAtATime
  <2>2. CASE \E f \in Files, op \in Ops, v \in Values : Submit(t, f, op, v)
    BY <2>2 DEF Submit
  <2> QED BY <2>1, <2>2, ActsAlone
<1>2. \A u \in Txs : u # t => ~InFlight(u)'
  BY <1>1, ActsAlone DEF InFlight
<1> QED BY <1>1, <1>2 DEF OneAtATime

(* The start of a call finds its target as it is, and holds nothing yet. *)
LEMMA SubmitKeepsUndo ==
  ASSUME ~Concurrent, TypeOK, UndoInv, NEW t \in Txs,
         NEW f \in Files, NEW op \in Ops, NEW v \in Values, Submit(t, f, op, v)
  PROVE  UndoInv'
<1>1. /\ tx \in [Txs -> Transaction] /\ tx[t].pc = "idle" /\ tx[t].snap = NoSnap
      /\ UNCHANGED <<disk, snaps>> /\ NoSnap \notin Stamps
  BY LlbAssumption DEF TypeOK, Submit, UndoInv, Untouched, NoSnap
<1>2. /\ OneAtATime' /\ \A u \in Txs : u # t => ~InFlight(u) /\ tx'[u] = tx[u]
  BY StaysAlone, ActsAlone DEF Acts, UndoInv
<1>3. /\ tx'[t].pc \in {"done", "human", "capture"} /\ tx'[t].snap = NoSnap
      /\ tx'[t].file = f /\ tx'[t].pre = disk[f]
  <2>1. tx[t] \in Transaction
    BY <1>1
  <2> DEFINE request == [tx[t] EXCEPT !.file = f, !.op = op, !.data = v,
                                      !.tier = Tier(f, op), !.pre = disk[f]]
  <2>2. CASE tx'[t] = [request EXCEPT !.pc = "done", !.verdict = "rejected"]
    BY <1>1, <2>1, <2>2 DEF Transaction
  <2>3. ASSUME NEW pc \in {"human", "capture"}, tx'[t] = [request EXCEPT !.pc = pc]
        PROVE  /\ tx'[t].pc = pc /\ tx'[t].snap = NoSnap /\ tx'[t].file = f /\ tx'[t].pre = disk[f]
    BY <1>1, <2>1, <2>3 DEF Transaction
  <2>4. \E pc \in {"human", "capture"} :
          \/ tx'[t] = [request EXCEPT !.pc = "done", !.verdict = "rejected"]
          \/ tx'[t] = [request EXCEPT !.pc = pc]
    BY <1>1 DEF Submit, Set
  <2> HIDE DEF request
  <2> QED BY <2>2, <2>3, <2>4
<1>4. Untouched'
  BY <1>1, <1>2, <1>3 DEF UndoInv, Untouched
<1>5. \A u \in Txs : Held(u)' => u # t /\ Held(u)
  BY <1>1, <1>2, <1>3 DEF Held
<1>6. SnapshotsHold' /\ SnapshotsDiffer'
  BY <1>1, <1>2, <1>5 DEF UndoInv, SnapshotsHold, SnapshotsDiffer
<1> QED BY <1>2, <1>4, <1>6 DEF UndoInv

(* A step that takes and gives up no snapshot keeps those there are. *)
LEMMA WorkKeepsUndo ==
  ASSUME ~Concurrent, TypeOK, UndoInv, NEW t \in Txs, Acts(t), InFlight(t),
         UNCHANGED snaps,
         tx'[t].file = tx[t].file, tx'[t].snap = tx[t].snap, tx'[t].pre = tx[t].pre,
         tx'[t].pc # "idle",
         tx'[t].pc \in {"human", "capture", "snapshot"} =>
           UNCHANGED disk /\ tx[t].pc \in {"human", "capture", "snapshot"},
         tx'[t].pc \in {"act", "gate2", "undo", "close", "crashed"} =>
           \/ tx[t].pc \in {"act", "gate2", "undo", "close"}
           \/ tx[t].snap = NoSnap
  PROVE  UndoInv'
<1>1. /\ OneAtATime' /\ \A u \in Txs : u # t => ~InFlight(u) /\ tx'[u] = tx[u]
  BY StaysAlone, ActsAlone DEF UndoInv
<1>2. Untouched'
  <2>1. \A u \in Txs : u # t => tx[u].pc \notin {"human", "capture", "snapshot"}
    BY <1>1 DEF InFlight
  <2> QED BY <1>1, <2>1 DEF UndoInv, Untouched
<1>3. NoSnap \notin Stamps
  BY LlbAssumption DEF NoSnap
<1>4. \A u \in Txs : Held(u)' => Held(u) /\ tx'[u].file = tx[u].file /\ tx'[u].snap = tx[u].snap
                                 /\ tx'[u].pre = tx[u].pre
  BY <1>1, <1>3 DEF Held
<1>5. SnapshotsHold' /\ SnapshotsDiffer'
  BY <1>4 DEF UndoInv, SnapshotsHold, SnapshotsDiffer
<1> QED BY <1>1, <1>2, <1>5 DEF UndoInv

(* A snapshot is written to a name nobody holds. *)
LEMMA SnapshotKeepsUndo ==
  ASSUME ~Concurrent, TypeOK, UndoInv, NEW t \in Txs, NEW stamp \in Stamps, Snapshot(t, stamp)
  PROVE  UndoInv'
<1>1. /\ tx \in [Txs -> Transaction] /\ tx[t] \in Transaction
      /\ tx[t].pc = "snapshot" /\ tx[t].snap = NoSnap /\ disk[tx[t].file] = tx[t].pre
      /\ UNCHANGED disk /\ tx[t].file \in Files
      /\ snaps \in [Files \X Stamps -> Content \cup {Absent}]
      /\ NoSnap \notin Stamps /\ Unbacked \notin Stamps
  BY LlbAssumption DEF TypeOK, Snapshot, UndoInv, Untouched, NoSnap, Unbacked, Transaction
<1>2. Acts(t) /\ InFlight(t)
  BY <1>1 DEF Acts, Settle, InFlight
<1>3. /\ OneAtATime' /\ \A u \in Txs : u # t => ~InFlight(u) /\ tx'[u] = tx[u]
  BY <1>2, StaysAlone, ActsAlone DEF UndoInv
<1>4. CASE UNCHANGED snaps /\ tx'[t].pc = "act" /\ tx'[t].snap \notin Stamps
  <2>1. Untouched'
    BY <1>1, <1>3, <1>4 DEF UndoInv, Untouched, InFlight
  <2>2. \A u \in Txs : Held(u)' => u # t /\ Held(u) /\ tx'[u] = tx[u]
    BY <1>3, <1>4 DEF Held
  <2>3. SnapshotsHold' /\ SnapshotsDiffer'
    BY <1>4, <2>2 DEF UndoInv, SnapshotsHold, SnapshotsDiffer
  <2> QED BY <1>3, <2>1, <2>3 DEF UndoInv
<1>5. CASE /\ disk[tx[t].file] # Absent /\ snaps[<<tx[t].file, stamp>>] = Absent
           /\ snaps' = [snaps EXCEPT ![<<tx[t].file, stamp>>] = disk[tx[t].file]]
           /\ tx'[t] = [tx[t] EXCEPT !.pc = "act", !.snap = stamp]
  <2>1. tx'[t].pc = "act" /\ tx'[t].snap = stamp /\ tx'[t].file = tx[t].file /\ tx'[t].pre = tx[t].pre
    BY <1>1, <1>5 DEF Transaction
  <2>2. Untouched'
    BY <1>1, <1>3, <2>1 DEF UndoInv, Untouched, InFlight
  <2>3. /\ \A u \in Txs : Held(u)' /\ u # t => Held(u) /\ tx'[u] = tx[u]
        /\ \A u \in Txs : Held(u)' /\ u # t => tx[u].file # tx[t].file \/ tx[u].snap # stamp
    BY <1>3, <1>5 DEF Held, UndoInv, SnapshotsHold
  <2>4. snaps'[<<tx[t].file, stamp>>] = tx[t].pre /\ tx[t].pre # Absent
    BY <1>1, <1>5
  <2>5. \A u \in Txs : Held(u)' /\ u # t =>
          snaps'[<<tx[u].file, tx[u].snap>>] = snaps[<<tx[u].file, tx[u].snap>>]
    <3> SUFFICES ASSUME NEW u \in Txs, Held(u)', u # t
                 PROVE  snaps'[<<tx[u].file, tx[u].snap>>] = snaps[<<tx[u].file, tx[u].snap>>]
      OBVIOUS
    <3>1. <<tx[u].file, tx[u].snap>> \in Files \X Stamps
      BY <1>1, <2>3 DEF Held, Transaction
    <3>2. <<tx[u].file, tx[u].snap>> # <<tx[t].file, stamp>>
      BY <2>3
    <3> QED BY <1>1, <1>5, <3>1, <3>2
  <2>6. SnapshotsHold'
    BY <2>1, <2>3, <2>4, <2>5 DEF UndoInv, SnapshotsHold
  <2>7. SnapshotsDiffer'
    BY <2>1, <2>3 DEF UndoInv, SnapshotsDiffer
  <2> QED BY <1>3, <2>2, <2>6, <2>7 DEF UndoInv
<1> QED
  <2>1. \/ UNCHANGED snaps /\ tx'[t] = [tx[t] EXCEPT !.pc = "act"]
        \/ UNCHANGED snaps /\ tx'[t] = [tx[t] EXCEPT !.pc = "act", !.snap = Unbacked]
        \/ /\ disk[tx[t].file] # Absent /\ snaps[<<tx[t].file, stamp>>] = Absent
           /\ snaps' = [snaps EXCEPT ![<<tx[t].file, stamp>>] = disk[tx[t].file]]
           /\ tx'[t] = [tx[t] EXCEPT !.pc = "act", !.snap = stamp]
    BY <1>1 DEF Snapshot, Move, Set, Exists
  <2>2. /\ [tx[t] EXCEPT !.pc = "act"].pc = "act" /\ [tx[t] EXCEPT !.pc = "act"].snap = NoSnap
        /\ [tx[t] EXCEPT !.pc = "act", !.snap = Unbacked].pc = "act"
        /\ [tx[t] EXCEPT !.pc = "act", !.snap = Unbacked].snap = Unbacked
    BY <1>1 DEF Transaction
  <2> QED BY <1>1, <1>4, <1>5, <2>1, <2>2

(* What a step between them writes is not the record of what to undo. *)
Kept(t) ==
  /\ tx'[t].file = tx[t].file /\ tx'[t].snap = tx[t].snap /\ tx'[t].pre = tx[t].pre
  /\ tx'[t].op = tx[t].op /\ tx'[t].tier = tx[t].tier

LEMMA MoveKeeps ==
  ASSUME TypeOK, NEW t \in Txs, NEW pc, Move(t, pc)
  PROVE  Kept(t) /\ tx'[t].pc = pc /\ tx'[t].verdict = tx[t].verdict
  BY DEF TypeOK, Move, Set, Kept, Transaction

LEMMA LeaveKeeps ==
  ASSUME TypeOK, NEW t \in Txs, NEW pc, NEW verdict,
         Set(t, [tx[t] EXCEPT !.pc = pc, !.verdict = verdict])
  PROVE  Kept(t) /\ tx'[t].pc = pc /\ tx'[t].verdict = verdict
  BY DEF TypeOK, Set, Kept, Transaction

LEMMA ActionKeeps ==
  ASSUME TypeOK, NEW t \in Txs, NEW pc, NEW verdict, NEW how,
         \/ Set(t, [tx[t] EXCEPT !.pc = pc, !.behaviour = how, !.verdict = verdict])
         \/ Set(t, [tx[t] EXCEPT !.behaviour = how, !.pc = pc, !.verdict = verdict])
         \/ Set(t, [tx[t] EXCEPT !.behaviour = how, !.pc = pc]) /\ verdict = tx[t].verdict
  PROVE  Kept(t) /\ tx'[t].pc = pc /\ tx'[t].verdict = verdict
<1>1. CASE Set(t, [tx[t] EXCEPT !.pc = pc, !.behaviour = how, !.verdict = verdict])
  BY <1>1 DEF TypeOK, Set, Kept, Transaction
<1>2. CASE Set(t, [tx[t] EXCEPT !.behaviour = how, !.pc = pc, !.verdict = verdict])
  BY <1>2 DEF TypeOK, Set, Kept, Transaction
<1>3. CASE Set(t, [tx[t] EXCEPT !.behaviour = how, !.pc = pc]) /\ verdict = tx[t].verdict
  BY <1>3 DEF TypeOK, Set, Kept, Transaction
<1> QED BY <1>1, <1>2, <1>3

(* Where such a step goes. *)
LEMMA WorkSteps ==
  ASSUME TypeOK, NEW t \in Txs,
         \/ \E confirmed \in BOOLEAN : HumanAnswers(t, confirmed)
         \/ Capture(t) \/ SnapshotFails(t) \/ Crash(t)
         \/ \E how \in AllBehaviours : ActionReturns(t, how) \/ ActionErrs(t, how)
         \/ ActionPanics(t)
         \/ \E expired \in BOOLEAN : Gate2(t, expired)
         \/ \E err \in BOOLEAN : Undo(t, err)
  PROVE  /\ Kept(t) /\ UNCHANGED snaps /\ InFlight(t)
         /\ \/ /\ tx[t].pc \in {"human", "capture"} /\ UNCHANGED disk
               /\ tx'[t].pc \in {"capture", "snapshot", "done", "crashed"}
            \/ tx[t].pc = "snapshot" /\ tx'[t].pc \in {"done", "crashed"}
            \/ /\ tx[t].pc \in {"act", "gate2", "undo", "close"}
               /\ tx'[t].pc \in {"gate2", "undo", "close", "crashed"}
<1>1. CASE \E confirmed \in BOOLEAN : HumanAnswers(t, confirmed)
  BY <1>1, MoveKeeps, LeaveKeeps DEF HumanAnswers, InFlight
<1>2. CASE Capture(t)
  <2>1. CASE Set(t, [tx[t] EXCEPT !.pc = "snapshot", !.before = EntryCount])
    <3> DEFINE n == EntryCount
    <3>1. tx' = [tx EXCEPT ![t] = [tx[t] EXCEPT !.pc = "snapshot", !.before = n]]
      BY <2>1 DEF Set
    <3> HIDE DEF n
    <3>2. Kept(t) /\ tx'[t].pc = "snapshot"
      BY <3>1 DEF TypeOK, Kept, Transaction
    <3> QED BY <1>2, <3>2 DEF Capture, InFlight
  <2>2. CASE Set(t, [tx[t] EXCEPT !.pc = "done", !.verdict = "rejected"])
    BY <1>2, <2>2, LeaveKeeps DEF Capture, InFlight
  <2> QED BY <1>2, <2>1, <2>2 DEF Capture
<1>3. CASE SnapshotFails(t)
  BY <1>3, LeaveKeeps DEF SnapshotFails, InFlight
<1>4. CASE Crash(t)
  <2>1. tx[t].pc \in {"human", "capture", "snapshot", "act", "gate2", "undo", "close"}
    BY <1>4 DEF Crash, InFlight, TypeOK, Transaction, PCs
  <2>2. Kept(t) /\ tx'[t].pc = "crashed"
    BY <1>4, MoveKeeps DEF Crash
  <2> QED BY <1>4, <2>1, <2>2 DEF Crash
<1>5. ASSUME NEW how \in AllBehaviours, ActionReturns(t, how)
      PROVE  /\ Kept(t) /\ UNCHANGED snaps /\ InFlight(t) /\ tx[t].pc = "act"
             /\ tx'[t].pc \in {"gate2", "close"}
  <2>1. /\ tx[t].pc = "act" /\ UNCHANGED snaps
        /\ \/ Set(t, [tx[t] EXCEPT !.behaviour = how, !.pc = "gate2"])
           \/ Set(t, [tx[t] EXCEPT !.behaviour = how, !.pc = "close", !.verdict = "allow"])
    BY <1>5 DEF ActionReturns
  <2> QED BY <2>1, ActionKeeps DEF InFlight
<1>6. CASE \E how \in AllBehaviours : ActionErrs(t, how)
  BY <1>6, ActionKeeps DEF ActionErrs, InFlight
<1>7. CASE ActionPanics(t)
  BY <1>7, ActionKeeps DEF ActionPanics, InFlight
<1>8. CASE \E expired \in BOOLEAN : Gate2(t, expired)
  BY <1>8, LeaveKeeps DEF Gate2, Leave, InFlight
<1>9. CASE \E err \in BOOLEAN : Undo(t, err)
  <2>1. /\ tx[t].pc = "undo" /\ UNCHANGED snaps
        /\ \E verdict \in {tx[t].verdict, "rollbackFailed"} :
             Set(t, [tx[t] EXCEPT !.pc = "close", !.verdict = verdict])
    BY <1>9 DEF Undo, Leave
  <2> QED BY <2>1, LeaveKeeps DEF InFlight
<1> QED
  BY <1>1, <1>2, <1>3, <1>4, <1>5, <1>6, <1>7, <1>8, <1>9

(* What a closing call does to its own record, whether or not its snapshot  *)
(* could be removed.                                                        *)
LEMMA ClosedStep ==
  ASSUME tx \in [Txs -> Transaction], NEW t \in Txs, Close(t)
  PROVE  /\ tx[t].pc = "close" /\ UNCHANGED disk
         /\ tx'[t].pc = "done" /\ tx'[t].file = tx[t].file
<1>1. /\ tx[t].pc = "close" /\ UNCHANGED disk
      /\ \/ tx' = [tx EXCEPT ![t] = [tx[t] EXCEPT !.pc = "done", !.snap = NoSnap]]
         \/ tx' = [tx EXCEPT ![t] = [tx[t] EXCEPT !.pc = "done"]]
  BY DEF Close, Move, Set
<1>2. \/ tx'[t] = [tx[t] EXCEPT !.pc = "done", !.snap = NoSnap]
      \/ tx'[t] = [tx[t] EXCEPT !.pc = "done"]
  BY <1>1
<1>3. tx[t] \in Transaction
  OBVIOUS
<1> QED BY <1>1, <1>2, <1>3 DEF Transaction

(* A call that ends gives up its own snapshot and nobody else's. *)
LEMMA CloseKeepsUndo ==
  ASSUME ~Concurrent, TypeOK, UndoInv, NEW t \in Txs, Close(t)
  PROVE  UndoInv'
<1>1. /\ tx \in [Txs -> Transaction] /\ tx[t] \in Transaction /\ tx[t].pc = "close"
      /\ UNCHANGED disk /\ snaps \in [Files \X Stamps -> Content \cup {Absent}]
      /\ tx'[t].pc = "done"
  BY ClosedStep DEF TypeOK
<1>2. Acts(t) /\ InFlight(t)
  BY <1>1 DEF Acts, Settle, InFlight
<1>3. /\ OneAtATime' /\ \A u \in Txs : u # t => ~InFlight(u) /\ tx'[u] = tx[u]
  BY <1>2, StaysAlone, ActsAlone DEF UndoInv
<1>4. Untouched'
  BY <1>1, <1>3 DEF UndoInv, Untouched, InFlight
<1>5. \A u \in Txs : Held(u)' => /\ u # t /\ Held(u) /\ tx'[u] = tx[u]
                                 /\ snaps'[<<tx[u].file, tx[u].snap>>] = snaps[<<tx[u].file, tx[u].snap>>]
  <2> SUFFICES ASSUME NEW u \in Txs, Held(u)'
               PROVE  /\ u # t /\ Held(u) /\ tx'[u] = tx[u]
                      /\ snaps'[<<tx[u].file, tx[u].snap>>] = snaps[<<tx[u].file, tx[u].snap>>]
    OBVIOUS
  <2>1. u # t /\ Held(u) /\ tx'[u] = tx[u]
    BY <1>1, <1>3 DEF Held
  <2>2. <<tx[u].file, tx[u].snap>> \in Files \X Stamps
    BY <1>1, <2>1 DEF Held, Transaction
  <2>3. CASE tx[t].snap \in Stamps
    <3>1. Held(t)
      BY <1>1, <2>3 DEF Held
    <3>2. <<tx[u].file, tx[u].snap>> # <<tx[t].file, tx[t].snap>>
      BY <2>1, <3>1 DEF UndoInv, SnapshotsDiffer
    <3>3. UNCHANGED snaps \/ snaps' = [snaps EXCEPT ![<<tx[t].file, tx[t].snap>>] = Absent]
      BY <2>3 DEF Close
    <3> QED BY <1>1, <2>1, <2>2, <3>2, <3>3
  <2>4. CASE tx[t].snap \notin Stamps
    BY <2>1, <2>4 DEF Close
  <2> QED BY <2>3, <2>4
<1>6. SnapshotsHold' /\ SnapshotsDiffer'
  <2>1. SnapshotsHold'
    BY <1>5 DEF UndoInv, SnapshotsHold
  <2>2. SnapshotsDiffer'
    BY <1>5 DEF UndoInv, SnapshotsDiffer
  <2> QED BY <2>1, <2>2
<1> QED BY <1>3, <1>4, <1>6 DEF UndoInv

(* Nor does a copy that tears: it is nobody's undo point. *)
LEMMA TearKeepsUndo ==
  ASSUME ~Concurrent, TypeOK, UndoInv, NEW t \in Txs, NEW stamp \in Stamps,
         SnapshotTears(t, stamp)
  PROVE  UndoInv'
<1> DEFINE torn == [data |-> Garbage, exec |-> disk[tx[t].file].exec]
<1>1. /\ tx \in [Txs -> Transaction] /\ tx[t] \in Transaction /\ tx[t].pc = "snapshot"
      /\ UNCHANGED disk /\ snaps \in [Files \X Stamps -> Content \cup {Absent}]
      /\ tx'[t].pc = "done" /\ snaps[<<tx[t].file, stamp>>] = Absent
      /\ snaps' = [snaps EXCEPT ![<<tx[t].file, stamp>>] = torn]
  BY DEF TypeOK, SnapshotTears, Set, Transaction
<1> HIDE DEF torn
<1>2. Acts(t) /\ InFlight(t)
  BY <1>1 DEF Acts, Settle, InFlight
<1>3. /\ OneAtATime' /\ \A u \in Txs : u # t => ~InFlight(u) /\ tx'[u] = tx[u]
  BY <1>2, StaysAlone, ActsAlone DEF UndoInv
<1>4. Untouched'
  BY <1>1, <1>3 DEF UndoInv, Untouched, InFlight
<1>5. \A u \in Txs : Held(u)' => /\ u # t /\ Held(u) /\ tx'[u] = tx[u]
                                 /\ snaps'[<<tx[u].file, tx[u].snap>>] = snaps[<<tx[u].file, tx[u].snap>>]
  <2> SUFFICES ASSUME NEW u \in Txs, Held(u)'
               PROVE  /\ u # t /\ Held(u) /\ tx'[u] = tx[u]
                      /\ snaps'[<<tx[u].file, tx[u].snap>>] = snaps[<<tx[u].file, tx[u].snap>>]
    OBVIOUS
  <2>1. u # t /\ Held(u) /\ tx'[u] = tx[u]
    BY <1>1, <1>3 DEF Held
  <2>2. <<tx[u].file, tx[u].snap>> \in Files \X Stamps
    BY <1>1, <2>1 DEF Held, Transaction
  <2>3. snaps[<<tx[u].file, tx[u].snap>>] # Absent
    BY <2>1 DEF UndoInv, SnapshotsHold
  <2> QED BY <1>1, <2>1, <2>2, <2>3
<1>6. SnapshotsHold' /\ SnapshotsDiffer'
  <2>1. SnapshotsHold'
    BY <1>5 DEF UndoInv, SnapshotsHold
  <2>2. SnapshotsDiffer'
    BY <1>5 DEF UndoInv, SnapshotsDiffer
  <2> QED BY <2>1, <2>2
<1> QED BY <1>3, <1>4, <1>6 DEF UndoInv

(* What a transaction may do, one step after another. *)
LEMMA StepKinds ==
  ASSUME NEW t \in Txs, Acts(t)
  PROVE  \/ \E f \in Files, op \in Ops, v \in Values : Submit(t, f, op, v)
         \/ \E stamp \in Stamps : Snapshot(t, stamp) \/ SnapshotTears(t, stamp)
         \/ Close(t)
         \/ \E confirmed \in BOOLEAN : HumanAnswers(t, confirmed)
         \/ Capture(t) \/ SnapshotFails(t) \/ Crash(t)
         \/ \E how \in AllBehaviours : ActionReturns(t, how) \/ ActionErrs(t, how)
         \/ ActionPanics(t)
         \/ \E expired \in BOOLEAN : Gate2(t, expired)
         \/ \E err \in BOOLEAN : Undo(t, err)
<1>1. /\ "fails" \in AllBehaviours /\ Behaviours \subseteq AllBehaviours
      /\ Expiries \subseteq BOOLEAN /\ RestoreErrs \subseteq BOOLEAN
  BY LlbAssumption DEF AllBehaviours
<1> QED BY <1>1 DEF Acts, Settle

LEMMA UndoInvariant == ~Concurrent => (Spec => []UndoInv)
<1> SUFFICES ASSUME ~Concurrent PROVE Spec => []UndoInv
  OBVIOUS
<1>1. Init => UndoInv
  BY DEF Init, UndoInv, OneAtATime, Untouched, SnapshotsHold, SnapshotsDiffer, InFlight, Held
<1>2. TypeOK /\ UndoInv /\ [Next]_vars => UndoInv'
  <2> SUFFICES ASSUME TypeOK, UndoInv, [Next]_vars PROVE UndoInv'
    OBVIOUS
  <2>1. ASSUME NEW t \in Txs, Acts(t) PROVE UndoInv'
    <3>1. ASSUME \/ \E confirmed \in BOOLEAN : HumanAnswers(t, confirmed)
                 \/ Capture(t) \/ SnapshotFails(t) \/ Crash(t)
                 \/ \E how \in AllBehaviours : ActionReturns(t, how) \/ ActionErrs(t, how)
                 \/ ActionPanics(t)
                 \/ \E expired \in BOOLEAN : Gate2(t, expired)
                 \/ \E err \in BOOLEAN : Undo(t, err)
          PROVE  UndoInv'
      <4>1. tx[t].pc \in {"human", "capture", "snapshot"} => tx[t].snap = NoSnap
        BY DEF UndoInv, Untouched
      <4> QED BY <2>1, <3>1, <4>1, WorkSteps, WorkKeepsUndo DEF Kept
    <3>2. CASE \E f \in Files, op \in Ops, v \in Values : Submit(t, f, op, v)
      BY <3>2, SubmitKeepsUndo
    <3>3. CASE \E stamp \in Stamps : Snapshot(t, stamp)
      BY <3>3, SnapshotKeepsUndo
    <3>4. CASE Close(t)
      BY <3>4, CloseKeepsUndo
    <3>5. CASE \E stamp \in Stamps : SnapshotTears(t, stamp)
      BY <3>5, TearKeepsUndo
    <3> QED BY <2>1, <3>1, <3>2, <3>3, <3>4, <3>5, StepKinds
  <2>2. CASE UNCHANGED vars
    BY <2>2 DEF vars, UndoInv, OneAtATime, Untouched, SnapshotsHold, SnapshotsDiffer, InFlight, Held
  <2>3. ~Outsider
    BY DEF Outsider
  <2> QED BY <2>1, <2>2, <2>3 DEF Next, Acts
<1> QED
  BY <1>1, <1>2, TypeInvariant, PTL DEF Spec

(* One call at a time: whatever actions do, however often the server dies, *)
(* and whatever later calls do to the same file, the snapshot of a call    *)
(* under way, or of one that crashed, is the target as Gate 1 found it.    *)
THEOREM UndoPointsLast == ~Concurrent => (Spec => []UndoPointHeld)
<1>1. UndoInv => UndoPointHeld
  BY DEF UndoInv, SnapshotsHold, Held, UndoPointHeld
<1> QED BY <1>1, UndoInvariant, PTL

--------------------------------------------------------------------------------
(* Without executable-like names every guarded call has a target to begin  *)
(* with, and so a handle to restore it from.                               *)
HandleInv == \A t \in Txs : Guarded(t) =>
  /\ tx[t].pc \in {"human", "capture", "snapshot", "act", "gate2", "undo"} => tx[t].pre # Absent
  /\ tx[t].pc \in {"act", "gate2", "undo"} => tx[t].snap \in Stamps \cup {Unbacked}

RollInv == HandleInv /\ RolledBackMeansRestored

Failures == {"execError", "expired", "violation"}

(* It is enough to look at the transaction that acts. *)
LEMMA RollOfOne ==
  ASSUME ~Concurrent, TypeOK, UndoInv, NEW t \in Txs, Acts(t),
         Guarded(t)' =>
           /\ tx'[t].pc \in {"human", "capture", "snapshot", "act", "gate2", "undo"}
                => tx'[t].pre # Absent
           /\ tx'[t].pc \in {"act", "gate2", "undo"} => tx'[t].snap \in Stamps \cup {Unbacked}
           /\ tx'[t].pc = "close" /\ tx'[t].verdict \in Failures
                => disk'[tx'[t].file] = tx'[t].pre
  PROVE  RollInv'
<1>1. \A u \in Txs : u # t =>
        tx'[u].pc \notin {"human", "capture", "snapshot", "act", "gate2", "undo", "close"}
  <2>1. \A u \in Txs : u # t => ~InFlight(u) /\ tx'[u] = tx[u]
    BY StaysAlone, ActsAlone DEF UndoInv
  <2> QED BY <2>1 DEF InFlight
<1>2. HandleInv'
  BY <1>1 DEF HandleInv
<1>3. RolledBackMeansRestored'
  BY <1>1 DEF RolledBackMeansRestored, Failures
<1> QED BY <1>2, <1>3 DEF RollInv

LEMMA RollStep ==
  ASSUME ~Concurrent, ExecNames = {}, TypeOK, UndoInv, RollInv, NEW t \in Txs, Acts(t)
  PROVE  RollInv'
<1> DEFINE Goal ==
      Guarded(t)' =>
        /\ tx'[t].pc \in {"human", "capture", "snapshot", "act", "gate2", "undo"}
             => tx'[t].pre # Absent
        /\ tx'[t].pc \in {"act", "gate2", "undo"} => tx'[t].snap \in Stamps \cup {Unbacked}
        /\ tx'[t].pc = "close" /\ tx'[t].verdict \in Failures
             => disk'[tx'[t].file] = tx'[t].pre
<1>1. /\ tx \in [Txs -> Transaction] /\ tx[t] \in Transaction
      /\ NoSnap \notin Stamps \cup {Unbacked} /\ Unbacked \notin Stamps
  BY LlbAssumption DEF TypeOK, NoSnap, Unbacked
<1>2. ASSUME NEW f \in Files, NEW op \in Ops, NEW v \in Values, Submit(t, f, op, v)
      PROVE  Goal
  <2> DEFINE request == [tx[t] EXCEPT !.file = f, !.op = op, !.data = v,
                                      !.tier = Tier(f, op), !.pre = disk[f]]
             resolved == (Exists(f) \/ op = "CREATE") /\ f \notin Protected
  <2>1. CASE tx'[t] = [request EXCEPT !.pc = "done", !.verdict = "rejected"]
    <3>1. tx'[t].pc = "done"
      BY <1>1, <2>1 DEF Transaction
    <3> QED BY <3>1
  <2>2. ASSUME NEW pc \in {"human", "capture"}, resolved, tx'[t] = [request EXCEPT !.pc = pc]
        PROVE  Goal
    <3>1. tx'[t].pc = pc /\ tx'[t].tier = Tier(f, op) /\ tx'[t].pre = disk[f]
      BY <1>1, <2>2 DEF Transaction
    <3>2. Guarded(t)' => op # "CREATE"
      BY <3>1, LlbAssumption DEF Guarded, RequiresGate2, Tier
    <3>3. Guarded(t)' => disk[f] # Absent
      BY <2>2, <3>2 DEF Exists
    <3> QED BY <3>1, <3>3
  <2>3. \/ tx'[t] = [request EXCEPT !.pc = "done", !.verdict = "rejected"]
        \/ resolved /\ \E pc \in {"human", "capture"} : tx'[t] = [request EXCEPT !.pc = pc]
    BY <1>1, <1>2 DEF Submit, Set
  <2> QED BY <2>1, <2>2, <2>3
<1>3. ASSUME NEW stamp \in Stamps, Snapshot(t, stamp)
      PROVE  Goal
  <2>1. disk[tx[t].file] = tx[t].pre /\ tx[t].pc = "snapshot"
    BY <1>3 DEF Snapshot, UndoInv, Untouched
  <2>2. Guarded(t) => Exists(tx[t].file) /\ RequiresSnapshot(tx[t].tier)
    BY <2>1 DEF RollInv, HandleInv, Exists, Guarded, RequiresGate2, RequiresSnapshot
  <2>3. /\ \/ tx'[t] = [tx[t] EXCEPT !.pc = "act"] /\ ~Guarded(t)
           \/ tx'[t] = [tx[t] EXCEPT !.pc = "act", !.snap = Unbacked]
           \/ tx'[t] = [tx[t] EXCEPT !.pc = "act", !.snap = stamp]
    BY <1>1, <1>3, <2>2 DEF Snapshot, Move, Set
  <2>4. /\ tx'[t].pc = "act" /\ tx'[t].tier = tx[t].tier /\ tx'[t].pre = tx[t].pre
        /\ Guarded(t) => tx'[t].snap \in {Unbacked, stamp}
    BY <1>1, <2>3 DEF Transaction
  <2>5. Guarded(t)' <=> Guarded(t)
    BY <2>4 DEF Guarded, RequiresGate2
  <2> QED BY <2>1, <2>4, <2>5 DEF RollInv, HandleInv
<1>4. ASSUME Close(t) PROVE Goal
  <2>1. tx'[t].pc = "done"
    BY <1>1, <1>4 DEF Close, Move, Set, Transaction
  <2> QED BY <2>1
<1>7. ASSUME NEW stamp \in Stamps, SnapshotTears(t, stamp) PROVE Goal
  <2>1. tx'[t].pc = "done"
    BY <1>1, <1>7 DEF SnapshotTears, Set, Transaction
  <2> QED BY <2>1
<1>5. ASSUME \/ \E confirmed \in BOOLEAN : HumanAnswers(t, confirmed)
             \/ Capture(t) \/ SnapshotFails(t) \/ Crash(t)
             \/ \E how \in AllBehaviours : ActionReturns(t, how) \/ ActionErrs(t, how)
             \/ ActionPanics(t)
             \/ \E expired \in BOOLEAN : Gate2(t, expired)
             \/ \E err \in BOOLEAN : Undo(t, err)
      PROVE  Goal
  <2>1. Kept(t) /\ (Guarded(t)' <=> Guarded(t))
    BY <1>5, WorkSteps DEF Kept, Guarded, RequiresGate2
  <2>2. tx'[t].pc \in {"human", "capture", "snapshot", "act", "gate2", "undo"} =>
          tx[t].pc \in {"human", "capture", "snapshot", "act", "gate2", "undo"}
    <3>1. /\ tx[t].pc = "close" => Crash(t)
          /\ Crash(t) => tx'[t].pc = "crashed"
      BY <1>5, MoveKeeps DEF HumanAnswers, Capture, SnapshotFails, Crash, ActionReturns, ActionErrs,
                             ActionPanics, Gate2, Undo
    <3> QED BY <1>5, <3>1, WorkSteps
  <2>3. tx'[t].pc \in {"act", "gate2", "undo"} => tx[t].pc \in {"act", "gate2", "undo"}
    <3>1. /\ tx[t].pc = "close" => Crash(t)
          /\ Crash(t) => tx'[t].pc = "crashed"
      BY <1>5, MoveKeeps DEF HumanAnswers, Capture, SnapshotFails, Crash, ActionReturns, ActionErrs,
                             ActionPanics, Gate2, Undo
    <3> QED BY <1>5, <3>1, WorkSteps
  <2>4. Guarded(t) /\ tx'[t].pc = "close" /\ tx'[t].verdict \in Failures
          => disk'[tx[t].file] = tx[t].pre
    <3> SUFFICES ASSUME Guarded(t), tx'[t].pc = "close", tx'[t].verdict \in Failures
                 PROVE  disk'[tx[t].file] = tx[t].pre
      OBVIOUS
    <3>1. tx[t].pc \notin {"human", "capture", "snapshot"}
      BY <1>5, WorkSteps
    <3>2. ~\E confirmed \in BOOLEAN : HumanAnswers(t, confirmed)
      BY <3>1 DEF HumanAnswers
    <3>3. ~(Capture(t) \/ SnapshotFails(t))
      BY <3>1 DEF Capture, SnapshotFails
    <3>4. ~Crash(t)
      BY MoveKeeps DEF Crash
    <3>5. ASSUME NEW how \in AllBehaviours PROVE ~ActionReturns(t, how)
      <4>1. SUFFICES ASSUME ActionReturns(t, how) PROVE FALSE
        OBVIOUS
      <4>2. \/ Set(t, [tx[t] EXCEPT !.behaviour = how, !.pc = "gate2"])
            \/ Set(t, [tx[t] EXCEPT !.behaviour = how, !.pc = "close", !.verdict = "allow"])
        BY <4>1 DEF ActionReturns
      <4>3. tx'[t].pc = "gate2" \/ tx'[t].verdict = "allow"
        BY <4>2, ActionKeeps
      <4> QED BY <4>3 DEF Failures
    <3>6. ASSUME NEW how \in AllBehaviours PROVE ~ActionErrs(t, how)
      <4>1. ActionErrs(t, how) => tx'[t].pc = "undo"
        BY ActionKeeps DEF ActionErrs
      <4> QED BY <4>1
    <3>7. ~ActionPanics(t)
      <4>1. ActionPanics(t) => tx'[t].verdict = "panicked"
        BY ActionKeeps DEF ActionPanics
      <4> QED BY <4>1 DEF Failures
    <3>8. ASSUME NEW expired \in BOOLEAN PROVE ~Gate2(t, expired)
      <4>1. Gate2(t, expired) => tx'[t].verdict = "allow" \/ tx'[t].pc = "undo"
        BY LeaveKeeps DEF Gate2, Leave
      <4> QED BY <4>1 DEF Failures
    <3>9. PICK err \in BOOLEAN : Undo(t, err)
      BY <1>5, <3>2, <3>3, <3>4, <3>5, <3>6, <3>7, <3>8
    <3>10. tx[t].pc = "undo" /\ tx[t].snap \in Stamps \cup {Unbacked}
      BY <3>9 DEF Undo, RollInv, HandleInv
    <3>11. ~Leave(t, "rollbackFailed")
      <4>1. Leave(t, "rollbackFailed") => tx'[t].verdict = "rollbackFailed"
        BY LeaveKeeps DEF Leave
      <4> QED BY <4>1 DEF Failures
    <3>12. /\ tx[t].snap \in Stamps
           /\ disk' = [disk EXCEPT ![tx[t].file] = snaps[<<tx[t].file, tx[t].snap>>]]
      BY <1>1, <3>9, <3>10, <3>11 DEF Undo
    <3>13. snaps[<<tx[t].file, tx[t].snap>>] = tx[t].pre
      BY <3>10, <3>12 DEF UndoInv, SnapshotsHold, Held
    <3>14. tx[t].file \in Files /\ disk \in [Files -> Content \cup {Absent}]
      BY <1>1 DEF TypeOK, Transaction
    <3> QED BY <3>12, <3>13, <3>14
  <2>5. Guarded(t) => /\ tx[t].pc \in {"human", "capture", "snapshot", "act", "gate2", "undo"}
                           => tx[t].pre # Absent
                      /\ tx[t].pc \in {"act", "gate2", "undo"} => tx[t].snap \in Stamps \cup {Unbacked}
    BY DEF RollInv, HandleInv
  <2> QED BY <2>1, <2>2, <2>3, <2>4, <2>5 DEF Kept
<1>6. Goal
  <2> HIDE DEF Goal
  <2> QED BY <1>2, <1>3, <1>4, <1>5, <1>7, StepKinds
<1> QED BY <1>6, RollOfOne

(* A target to restore and a rollback that restores, at every state. *)
LEMMA RollInvariant == ~Concurrent /\ ExecNames = {} => (Spec => []RollInv)
<1> SUFFICES ASSUME ~Concurrent, ExecNames = {} PROVE Spec => []RollInv
  OBVIOUS
<1>1. Init => RollInv
  BY DEF Init, RollInv, HandleInv, RolledBackMeansRestored
<1>2. TypeOK /\ UndoInv /\ RollInv /\ [Next]_vars => RollInv'
  <2> SUFFICES ASSUME TypeOK, UndoInv, RollInv, [Next]_vars PROVE RollInv'
    OBVIOUS
  <2>1. CASE UNCHANGED vars
    BY <2>1 DEF vars, RollInv, HandleInv, RolledBackMeansRestored, Guarded, RequiresGate2
  <2>2. ~Outsider
    BY DEF Outsider
  <2> QED BY <2>1, <2>2, RollStep DEF Next, Acts
<1> QED
  BY <1>1, <1>2, TypeInvariant, UndoInvariant, PTL DEF Spec

(* One call at a time, on names without an executable-like extension: a    *)
(* guarded mutation that ended in an error or an IOCC violation left its   *)
(* target as Gate 1 found it, for every action and whatever came before.   *)
THEOREM RollbacksRestore ==
  ~Concurrent /\ ExecNames = {} => (Spec => []RolledBackMeansRestored)
<1>1. RollInv => RolledBackMeansRestored
  BY DEF RollInv
<1> QED BY <1>1, RollInvariant, PTL

--------------------------------------------------------------------------------
(* Snapshot files: any number of processes, and no assumption on the       *)
(* constants.                                                              *)
(* A call holds no snapshot before it takes one. *)
EmptyHanded == \A t \in Txs :
  tx[t].pc \in {"idle", "human", "capture", "snapshot"} => tx[t].snap = NoSnap

(* The record of a call names the snapshot file it has not removed. *)
OwnedBy(t, f, s) == tx[t].file = f /\ tx[t].snap = s

Named == \A f \in Files, s \in Stamps :
  snaps[<<f, s>>] # Absent => \E t \in Txs : OwnedBy(t, f, s)

OwnInv == EmptyHanded /\ Named

(* A step of t that takes no snapshot: its handle stays, or was none. *)
LEMMA OwnedStays ==
  ASSUME TypeOK, OwnInv, NEW t \in Txs, Acts(t), UNCHANGED snaps,
         tx'[t].pc \in {"idle", "human", "capture", "snapshot"} => tx'[t].snap = NoSnap,
         tx[t].snap # NoSnap => tx'[t].file = tx[t].file /\ tx'[t].snap = tx[t].snap
  PROVE  OwnInv'
<1>1. \A u \in Txs : u # t => tx'[u] = tx[u]
  BY ActsAlone
<1>2. EmptyHanded'
  BY <1>1 DEF OwnInv, EmptyHanded
<1>3. NoSnap \notin Stamps
  BY LlbAssumption DEF NoSnap
<1>4. ASSUME NEW u \in Txs, NEW f, NEW s \in Stamps, OwnedBy(u, f, s) PROVE OwnedBy(u, f, s)'
  BY <1>1, <1>3, <1>4 DEF OwnedBy
<1>5. Named'
  BY <1>4 DEF OwnInv, Named
<1> QED BY <1>2, <1>5 DEF OwnInv

(* A step of t that writes a snapshot and keeps its name. *)
LEMMA OwnedTakes ==
  ASSUME TypeOK, OwnInv, NEW t \in Txs, Acts(t), NEW stamp \in Stamps,
         tx[t].snap = NoSnap, tx'[t].file = tx[t].file, tx'[t].snap = stamp,
         tx'[t].pc \in {"act", "done"},
         \E c : snaps' = [snaps EXCEPT ![<<tx[t].file, stamp>>] = c]
  PROVE  OwnInv'
<1>1. \A u \in Txs : u # t => tx'[u] = tx[u]
  BY ActsAlone
<1>2. EmptyHanded'
  BY <1>1 DEF OwnInv, EmptyHanded
<1>3. ASSUME NEW f \in Files, NEW s \in Stamps, snaps'[<<f, s>>] # Absent
      PROVE  \E u \in Txs : OwnedBy(u, f, s)'
  <2>1. CASE f = tx[t].file /\ s = stamp
    BY <2>1 DEF OwnedBy
  <2>2. CASE ~(f = tx[t].file /\ s = stamp)
    <3>1. snaps[<<f, s>>] # Absent
      BY <1>3, <2>2 DEF TypeOK
    <3>2. PICK u \in Txs : OwnedBy(u, f, s)
      BY <3>1 DEF OwnInv, Named
    <3>3. u # t
      BY <3>2, LlbAssumption DEF OwnedBy, NoSnap
    <3> QED BY <1>1, <3>2, <3>3 DEF OwnedBy
  <2> QED BY <2>1, <2>2
<1> QED BY <1>2, <1>3 DEF OwnInv, Named

(* Every step leaves each snapshot file with its owner. *)
LEMMA OwnStep ==
  ASSUME TypeOK, OwnInv, NEW t \in Txs, Acts(t)
  PROVE  OwnInv'
<1>1. /\ tx \in [Txs -> Transaction] /\ tx[t] \in Transaction
      /\ snaps \in [Files \X Stamps -> Content \cup {Absent}] /\ tx[t].file \in Files
      /\ NoSnap \notin Stamps
  BY LlbAssumption DEF TypeOK, Transaction, NoSnap
<1>2. \A u \in Txs : u # t => tx'[u] = tx[u]
  BY ActsAlone
<1>3. tx[t].pc \in {"idle", "human", "capture", "snapshot"} => tx[t].snap = NoSnap
  BY DEF OwnInv, EmptyHanded
<1>4. ASSUME NEW f \in Files, NEW op \in Ops, NEW v \in Values, Submit(t, f, op, v)
      PROVE  OwnInv'
  <2> DEFINE request == [tx[t] EXCEPT !.file = f, !.op = op, !.data = v,
                                      !.tier = Tier(f, op), !.pre = disk[f]]
  <2>1. tx[t].snap = NoSnap
    BY <1>3, <1>4 DEF Submit
  <2>2. tx'[t].snap = NoSnap
    <3>1. PICK pc \in {"human", "capture"} :
            \/ tx'[t] = [request EXCEPT !.pc = "done", !.verdict = "rejected"]
            \/ tx'[t] = [request EXCEPT !.pc = pc]
      BY <1>1, <1>4 DEF Submit, Set
    <3> QED BY <1>1, <2>1, <3>1 DEF Transaction
  <2>3. UNCHANGED snaps
    BY <1>4 DEF Submit
  <2> QED BY <2>1, <2>2, <2>3, OwnedStays
<1>5. ASSUME \/ \E confirmed \in BOOLEAN : HumanAnswers(t, confirmed)
             \/ Capture(t) \/ SnapshotFails(t) \/ Crash(t)
             \/ \E how \in AllBehaviours : ActionReturns(t, how) \/ ActionErrs(t, how)
             \/ ActionPanics(t)
             \/ \E expired \in BOOLEAN : Gate2(t, expired)
             \/ \E err \in BOOLEAN : Undo(t, err)
      PROVE  OwnInv'
  <2>1. /\ Kept(t) /\ UNCHANGED snaps
        /\ \/ /\ tx[t].pc \in {"human", "capture"} /\ UNCHANGED disk
              /\ tx'[t].pc \in {"capture", "snapshot", "done", "crashed"}
           \/ tx[t].pc = "snapshot" /\ tx'[t].pc \in {"done", "crashed"}
           \/ /\ tx[t].pc \in {"act", "gate2", "undo", "close"}
              /\ tx'[t].pc \in {"gate2", "undo", "close", "crashed"}
    BY <1>5, WorkSteps
  <2> QED BY <1>3, <2>1, OwnedStays DEF Kept
<1>6. ASSUME NEW stamp \in Stamps, Snapshot(t, stamp)
      PROVE  OwnInv'
  <2>1. tx[t].pc = "snapshot" /\ tx[t].snap = NoSnap
    BY <1>3, <1>6 DEF Snapshot
  <2>2. CASE UNCHANGED snaps
    <3>1. \/ tx'[t] = [tx[t] EXCEPT !.pc = "act"]
          \/ tx'[t] = [tx[t] EXCEPT !.pc = "act", !.snap = Unbacked]
          \/ tx'[t] = [tx[t] EXCEPT !.pc = "act", !.snap = stamp]
      BY <1>1, <1>6 DEF Snapshot, Move, Set
    <3>2. tx'[t].pc = "act"
      BY <1>1, <3>1 DEF Transaction
    <3> QED BY <2>1, <2>2, <3>2, OwnedStays
  <2>3. CASE /\ snaps' = [snaps EXCEPT ![<<tx[t].file, stamp>>] = disk[tx[t].file]]
             /\ Set(t, [tx[t] EXCEPT !.pc = "act", !.snap = stamp])
    <3>1. tx'[t].pc = "act" /\ tx'[t].snap = stamp /\ tx'[t].file = tx[t].file
      BY <1>1, <2>3 DEF Set, Transaction
    <3> QED BY <2>1, <2>3, <3>1, OwnedTakes
  <2> QED BY <1>6, <2>2, <2>3 DEF Snapshot
<1>7. CASE Close(t)
  <2>1. tx[t].pc = "close" /\ tx'[t].pc = "done" /\ tx'[t].file = tx[t].file
    BY <1>1, <1>7, ClosedStep
  <2>2. CASE UNCHANGED snaps /\ tx'[t].snap = tx[t].snap
    BY <2>1, <2>2, OwnedStays
  <2>3. CASE tx[t].snap \notin Stamps
    <3>1. UNCHANGED snaps /\ EmptyHanded'
      BY <1>2, <1>7, <2>1, <2>3 DEF Close, OwnInv, EmptyHanded
    <3>2. ASSUME NEW u \in Txs, NEW f, NEW s \in Stamps, OwnedBy(u, f, s)
          PROVE  OwnedBy(u, f, s)'
      BY <1>2, <2>3, <3>2 DEF OwnedBy
    <3> QED BY <3>1, <3>2 DEF OwnInv, Named
  <2>4. CASE snaps' = [snaps EXCEPT ![<<tx[t].file, tx[t].snap>>] = Absent]
    <3>1. EmptyHanded'
      BY <1>2, <2>1 DEF OwnInv, EmptyHanded
    <3>2. ASSUME NEW f \in Files, NEW s \in Stamps, snaps'[<<f, s>>] # Absent
          PROVE  \E u \in Txs : OwnedBy(u, f, s)'
      <4>1. snaps[<<f, s>>] # Absent /\ ~(f = tx[t].file /\ s = tx[t].snap)
        BY <1>1, <2>4, <3>2
      <4>2. PICK u \in Txs : OwnedBy(u, f, s)
        BY <4>1 DEF OwnInv, Named
      <4>3. u # t
        BY <4>1, <4>2 DEF OwnedBy
      <4> QED BY <1>2, <4>2, <4>3 DEF OwnedBy
    <3> QED BY <3>1, <3>2 DEF OwnInv, Named
  <2>5. \/ UNCHANGED snaps /\ tx'[t].snap = tx[t].snap
        \/ tx[t].snap \notin Stamps
        \/ snaps' = [snaps EXCEPT ![<<tx[t].file, tx[t].snap>>] = Absent]
    BY <1>1, <1>7 DEF Close, Move, Set, Transaction
  <2> QED BY <2>2, <2>3, <2>4, <2>5
<1>8. ASSUME NEW stamp \in Stamps, SnapshotTears(t, stamp)
      PROVE  OwnInv'
  <2>1. /\ tx[t].pc = "snapshot" /\ tx[t].snap = NoSnap
        /\ tx'[t].pc = "done" /\ tx'[t].snap = stamp /\ tx'[t].file = tx[t].file
    BY <1>1, <1>3, <1>8 DEF SnapshotTears, Set, Transaction
  <2>2. \E c : snaps' = [snaps EXCEPT ![<<tx[t].file, stamp>>] = c]
    BY <1>8 DEF SnapshotTears
  <2> QED BY <2>1, <2>2, OwnedTakes
<1> QED BY <1>4, <1>5, <1>6, <1>7, <1>8, StepKinds

(* Any number of processes, time stamps that collide, panics, crashes at   *)
(* any step, copies and removals that fail: a snapshot file belongs to a   *)
(* call under way, to one that died, or to one that could not finish the   *)
(* copy or the removal.                                                    *)
THEOREM SnapshotsAreOwned == Spec => []EverySnapshotIsOwned
<1>1. Init => OwnInv
  BY DEF Init, OwnInv, EmptyHanded, Named
<1>2. TypeOK /\ OwnInv /\ [Next]_vars => OwnInv'
  <2> SUFFICES ASSUME TypeOK, OwnInv, [Next]_vars PROVE OwnInv'
    OBVIOUS
  <2>1. CASE UNCHANGED <<snaps, tx>>
    BY <2>1 DEF OwnInv, EmptyHanded, Named, OwnedBy
  <2> QED BY <2>1, OwnStep DEF Next, Acts, Outsider, vars
<1>3. TypeOK /\ OwnInv => EverySnapshotIsOwned
  <2> SUFFICES ASSUME TypeOK, OwnInv, NEW f \in Files, NEW s \in Stamps, snaps[<<f, s>>] # Absent
               PROVE  \E t \in Txs : /\ tx[t].file = f /\ tx[t].snap = s
                                     /\ \/ InFlight(t) \/ tx[t].pc = "crashed"
                                        \/ CopyFailed(t) \/ RemovalFailed(t)
    BY DEF EverySnapshotIsOwned
  <2>1. PICK t \in Txs : tx[t].file = f /\ tx[t].snap = s
    BY DEF OwnInv, Named, OwnedBy
  <2>2. tx[t].pc # "idle"
    BY <2>1, LlbAssumption DEF OwnInv, EmptyHanded, NoSnap
  <2> QED BY <2>1, <2>2 DEF InFlight, CopyFailed, RemovalFailed
<1> QED BY <1>1, <1>2, <1>3, TypeInvariant, PTL DEF Spec

--------------------------------------------------------------------------------
(* Gate 2 compares the number of entries before the snapshot with the      *)
(* number after the action: how far each of the two moves it.              *)
(* The entries of the directory, as sets. *)
There(d) == {f \in Files : d[f] # Absent}

Saved(sn) == {s \in Files \X Stamps : sn[s] # Absent}

(* EntryCount counts them, the stray entries included. *)
LEMMA EntriesAreSets ==
  ASSUME TypeOK
  PROVE  /\ EntryCount = Cardinality(There(disk)) + Cardinality(Saved(snaps)) + strays
         /\ IsFiniteSet(There(disk)) /\ Cardinality(There(disk)) \in Nat
         /\ IsFiniteSet(Saved(snaps)) /\ Cardinality(Saved(snaps)) \in Nat
         /\ strays \in Nat
<1>1. IsFiniteSet(Files \X Stamps) /\ IsFiniteSet(Files)
  BY FS_Product, LlbAssumption
<1>2. There(disk) \in SUBSET Files /\ Saved(snaps) \in SUBSET (Files \X Stamps)
  BY DEF There, Saved
<1>3. /\ IsFiniteSet(There(disk)) /\ Cardinality(There(disk)) \in Nat
      /\ IsFiniteSet(Saved(snaps)) /\ Cardinality(Saved(snaps)) \in Nat
  BY <1>1, <1>2, FS_Subset, FS_CardinalityType
<1>4. strays \in Nat
  BY LlbAssumption DEF TypeOK
<1>5. EntryCount = Cardinality(There(disk)) + Cardinality(Saved(snaps)) + strays
  BY DEF EntryCount, There, Saved
<1> QED BY <1>3, <1>4, <1>5

(* A snapshot under a new name is one entry more. *)
LEMMA SnapshotCounts ==
  ASSUME TypeOK, NEW f \in Files, NEW s \in Stamps, snaps[<<f, s>>] = Absent,
         NEW c, c # Absent, snaps' = [snaps EXCEPT ![<<f, s>>] = c],
         UNCHANGED <<disk, strays>>
  PROVE  EntryCount' = EntryCount + 1
<1> DEFINE x == <<f, s>>
<1>1. /\ snaps \in [Files \X Stamps -> Content \cup {Absent}] /\ x \in Files \X Stamps
  BY DEF TypeOK
<1>2. x \notin Saved(snaps)
  BY DEF Saved
<1>3. Saved(snaps') = Saved(snaps) \cup {x}
  <2>1. \A y \in Files \X Stamps : snaps'[y] = IF y = x THEN c ELSE snaps[y]
    BY <1>1
  <2> HIDE DEF x
  <2> QED BY <1>1, <2>1 DEF Saved
<1> HIDE DEF x
<1>4. Cardinality(Saved(snaps')) = Cardinality(Saved(snaps)) + 1
  BY <1>2, <1>3, EntriesAreSets, FS_AddElement
<1>5. EntryCount' = Cardinality(There(disk)) + Cardinality(Saved(snaps')) + strays
  BY DEF EntryCount, There, Saved
<1> QED BY <1>4, <1>5, EntriesAreSets

(* What the declared operation does to the number of entries, strays apart. *)
LEMMA DeclaredCounts ==
  ASSUME TypeOK, NEW f \in Files, Exists(f),
         NEW op \in {"OVERWRITE", "CHMOD", "DELETE"}, NEW v \in Values,
         disk' = [disk EXCEPT ![f] = Effect(op, disk[f], v)], UNCHANGED snaps,
         strays' \in Nat
  PROVE  EntryCount' = EntryCount + ExpectedDelta(op) + (strays' - strays)
<1>1. /\ disk \in [Files -> Content \cup {Absent}] /\ disk[f] # Absent
      /\ Absent \notin Content /\ f \in There(disk)
  BY LlbAssumption DEF TypeOK, Exists, Content, There
<1>2. Effect(op, disk[f], v) \in Content \cup {Absent}
  BY <1>1, EffectTyped DEF Operations
<1>3. EntryCount' = Cardinality(There(disk')) + Cardinality(Saved(snaps)) + strays'
  BY DEF EntryCount, There, Saved
<1>4. CASE op = "DELETE"
  <2>1. Effect(op, disk[f], v) = Absent /\ ExpectedDelta(op) = -1
    BY <1>4 DEF Effect, ExpectedDelta
  <2>2. There(disk') = There(disk) \ {f}
    BY <1>1, <2>1 DEF There
  <2>3. Cardinality(There(disk')) = Cardinality(There(disk)) - 1
    BY <1>1, <2>2, EntriesAreSets, FS_RemoveElement
  <2> QED BY <1>3, <2>1, <2>3, EntriesAreSets
<1>5. CASE op \in {"OVERWRITE", "CHMOD"}
  <2>1. Effect(op, disk[f], v) # Absent /\ ExpectedDelta(op) = 0
    <3>1. Effect(op, disk[f], v) \in Content
      BY <1>1, <1>2, <1>5 DEF Effect, Content
    <3> QED BY <1>1, <1>5, <3>1 DEF ExpectedDelta
  <2>2. There(disk') = There(disk)
    BY <1>1, <2>1 DEF There
  <2> QED BY <1>3, <2>1, <2>2, EntriesAreSets
<1> QED BY <1>4, <1>5

(* What Gate 2 counts and sees, step by step up to its verdict. *)
GateOf(t) ==
  /\ tx[t].pc \in {"idle", "human", "capture", "snapshot", "act", "gate2"}
       => tx[t].verdict = "none"
  /\ tx[t].pc # "idle" => (Guarded(t) <=> tx[t].op # "CREATE")
  /\ tx[t].pc = "snapshot" => tx[t].before = EntryCount
  /\ tx[t].pc = "act" /\ Guarded(t) =>
       EntryCount = tx[t].before + 1 /\ disk[tx[t].file] = tx[t].pre
  /\ tx[t].pc = "gate2" =>
       /\ Guarded(t)
       /\ tx[t].behaviour = "spills" => ~NoSpillover(t)
       /\ tx[t].behaviour = "setsExec" => tx[t].op = "CHMOD" \/ ~NotExecutable(t)
       /\ tx[t].behaviour = "skips" /\ tx[t].op = "DELETE" => ~TargetIntact(t)
       /\ tx[t].behaviour = "honest" =>
            \/ Consistent(t)
            \/ tx[t].op = "OVERWRITE" /\ tx[t].pre # Absent /\ tx[t].pre.exec

(* Gate2IsRight for one transaction. *)
RightOf(t) ==
  /\ tx[t].verdict = "allow" /\ Guarded(t) =>
       /\ tx[t].behaviour # "spills"
       /\ tx[t].behaviour = "setsExec" => tx[t].op = "CHMOD"
       /\ tx[t].behaviour = "skips" => tx[t].op # "DELETE"
  /\ tx[t].verdict = "violation" =>
       \/ tx[t].behaviour # "honest"
       \/ tx[t].op = "OVERWRITE" /\ tx[t].pre # Absent /\ tx[t].pre.exec

GateInv == \A t \in Txs : GateOf(t) /\ RightOf(t)

(* One server, no executable-like names, nothing too big for a snapshot. *)
Serial == ~Concurrent /\ ExecNames = {} /\ Big = {}

Before == TypeOK /\ UndoInv /\ RollInv /\ GateInv

(* What a step that only moves on, or only judges, keeps of the record. *)
LEMMA JudgeKeeps ==
  ASSUME TypeOK, NEW t \in Txs, NEW pc, NEW verdict,
         \/ Set(t, [tx[t] EXCEPT !.pc = pc, !.verdict = verdict])
         \/ Move(t, pc) /\ verdict = tx[t].verdict
  PROVE  /\ Kept(t) /\ tx'[t].pc = pc /\ tx'[t].verdict = verdict
         /\ tx'[t].behaviour = tx[t].behaviour /\ tx'[t].data = tx[t].data
         /\ tx'[t].before = tx[t].before
<1>1. CASE Set(t, [tx[t] EXCEPT !.pc = pc, !.verdict = verdict])
  BY <1>1 DEF TypeOK, Set, Kept, Transaction
<1>2. CASE Move(t, pc) /\ verdict = tx[t].verdict
  BY <1>2 DEF TypeOK, Move, Set, Kept, Transaction
<1> QED BY <1>1, <1>2

(* A step past the gates that keeps the verdict, or gives up the rollback. *)
LEMMA RightKept ==
  ASSUME NEW t \in Txs, Before, Kept(t), tx'[t].behaviour = tx[t].behaviour,
         tx'[t].verdict \in {tx[t].verdict, "rejected", "humanVeto", "snapshotFailed",
                             "expired", "rollbackFailed"}
  PROVE  RightOf(t)'
<1>1. RightOf(t)
  BY DEF Before, GateInv
<1>2. Guarded(t)' <=> Guarded(t)
  BY DEF Kept, Guarded, RequiresGate2
<1> QED BY <1>1, <1>2 DEF RightOf, Kept

(* The call starts: nothing is judged yet, and the tier says what it is. *)
LEMMA GateSubmit ==
  ASSUME Serial, Before, NEW t \in Txs, NEW f \in Files, NEW op \in Ops, NEW v \in Values,
         Submit(t, f, op, v)
  PROVE  GateOf(t)' /\ RightOf(t)'
<1>1. /\ tx \in [Txs -> Transaction] /\ tx[t] \in Transaction /\ tx[t].pc = "idle"
      /\ tx[t].verdict = "none"
  BY DEF Before, TypeOK, Submit, GateInv, GateOf
<1> DEFINE request == [tx[t] EXCEPT !.file = f, !.op = op, !.data = v,
                                    !.tier = Tier(f, op), !.pre = disk[f]]
<1>2. PICK pc \in {"human", "capture"} :
        \/ tx'[t] = [request EXCEPT !.pc = "done", !.verdict = "rejected"]
        \/ tx'[t] = [request EXCEPT !.pc = pc]
  BY <1>1 DEF Submit, Set
<1>3. /\ tx'[t].op = op /\ tx'[t].tier = Tier(f, op)
      /\ \/ tx'[t].pc = "done" /\ tx'[t].verdict = "rejected"
         \/ tx'[t].pc \in {"human", "capture"} /\ tx'[t].verdict = "none"
  BY <1>1, <1>2 DEF Transaction
<1>4. Guarded(t)' <=> op # "CREATE"
  BY <1>3, LlbAssumption DEF Guarded, RequiresGate2, Tier, Serial, Operations
<1> QED BY <1>3, <1>4 DEF GateOf, RightOf

(* A call that ends with the verdict it had, or without a snapshot. *)
LEMMA GateEnds ==
  ASSUME Before, NEW t \in Txs, tx[t].pc # "idle", tx'[t].pc = "done",
         tx'[t].op = tx[t].op, tx'[t].tier = tx[t].tier, tx'[t].pre = tx[t].pre,
         tx'[t].behaviour = tx[t].behaviour,
         tx'[t].verdict \in {tx[t].verdict, "snapshotFailed"}
  PROVE  GateOf(t)' /\ RightOf(t)'
<1>1. GateOf(t) /\ RightOf(t)
  BY DEF Before, GateInv
<1>2. Guarded(t)' <=> Guarded(t)
  BY DEF Guarded, RequiresGate2
<1> QED BY <1>1, <1>2 DEF GateOf, RightOf

(* From Gate 1 to the snapshot and out of the protocol. *)
LEMMA GateWaits ==
  ASSUME Serial, Before, NEW t \in Txs,
         \/ \E confirmed \in BOOLEAN : HumanAnswers(t, confirmed)
         \/ Capture(t) \/ SnapshotFails(t) \/ Crash(t) \/ Close(t)
         \/ \E stamp \in Stamps : SnapshotTears(t, stamp)
         \/ \E err \in BOOLEAN : Undo(t, err)
  PROVE  GateOf(t)' /\ RightOf(t)'
<1>1. TypeOK /\ GateOf(t)
  BY DEF Before, GateInv
<1>2. ASSUME NEW pc \in {"capture", "done", "close", "crashed"},
             NEW verdict \in {tx[t].verdict, "rejected", "humanVeto", "snapshotFailed",
                              "rollbackFailed"},
             \/ Set(t, [tx[t] EXCEPT !.pc = pc, !.verdict = verdict])
             \/ Move(t, pc) /\ verdict = tx[t].verdict,
             tx[t].pc # "idle", pc = "capture" => verdict = "none"
      PROVE  GateOf(t)' /\ RightOf(t)'
  <2>1. /\ Kept(t) /\ tx'[t].pc = pc /\ tx'[t].verdict = verdict
        /\ tx'[t].behaviour = tx[t].behaviour
    BY <1>1, <1>2, JudgeKeeps, ZenonT(40)
  <2>2. RightOf(t)'
    BY <1>2, <2>1, RightKept
  <2>3. Guarded(t)' <=> Guarded(t)
    BY <2>1 DEF Kept, Guarded, RequiresGate2
  <2> QED BY <1>1, <1>2, <2>1, <2>2, <2>3 DEF GateOf, Kept
<1>3. CASE \E confirmed \in BOOLEAN : HumanAnswers(t, confirmed)
  <2>1. tx[t].pc = "human" /\ tx[t].verdict = "none"
    BY <1>1, <1>3 DEF HumanAnswers, GateOf
  <2> QED BY <1>2, <1>3, <2>1 DEF HumanAnswers
<1>4. CASE Capture(t)
  <2>1. tx[t].pc = "capture" /\ tx[t].verdict = "none"
    BY <1>1, <1>4 DEF Capture, GateOf
  <2>2. CASE Set(t, [tx[t] EXCEPT !.pc = "snapshot", !.before = EntryCount])
    <3>1. PICK n : n = EntryCount
      OBVIOUS
    <3>2. /\ tx'[t].pc = "snapshot" /\ tx'[t].before = n /\ Kept(t)
          /\ tx'[t].verdict = tx[t].verdict /\ tx'[t].behaviour = tx[t].behaviour
      BY <1>1, <2>2, <3>1 DEF Set, Kept, TypeOK, Transaction
    <3>3. EntryCount' = EntryCount
      BY <1>4 DEF Capture, EntryCount
    <3>4. Guarded(t)' <=> Guarded(t)
      BY <3>2 DEF Kept, Guarded, RequiresGate2
    <3>5. RightOf(t)'
      BY <3>2, RightKept
    <3> QED BY <1>1, <2>1, <3>1, <3>2, <3>3, <3>4, <3>5 DEF GateOf, Kept
  <2>3. CASE Set(t, [tx[t] EXCEPT !.pc = "done", !.verdict = "rejected"])
    BY <1>2, <2>1, <2>3
  <2> QED BY <1>4, <2>2, <2>3 DEF Capture
<1>5. CASE SnapshotFails(t)
  BY <1>2, <1>5 DEF SnapshotFails
<1>6. CASE Crash(t)
  BY <1>2, <1>6 DEF Crash, InFlight
<1>7. CASE Close(t)
  <2>1. /\ tx[t].pc = "close"
        /\ \/ tx'[t] = [tx[t] EXCEPT !.pc = "done"]
           \/ tx'[t] = [tx[t] EXCEPT !.pc = "done", !.snap = NoSnap]
    BY <1>1, <1>7 DEF Close, Move, Set, TypeOK
  <2>2. /\ tx'[t].pc = "done" /\ tx'[t].op = tx[t].op /\ tx'[t].tier = tx[t].tier
        /\ tx'[t].pre = tx[t].pre /\ tx'[t].behaviour = tx[t].behaviour
        /\ tx'[t].verdict = tx[t].verdict
    <3>1. tx[t] \in Transaction
      BY <1>1 DEF TypeOK
    <3> QED BY <2>1, <3>1 DEF Transaction
  <2> QED BY <2>1, <2>2, GateEnds
<1>8. CASE \E err \in BOOLEAN : Undo(t, err)
  BY <1>2, <1>8 DEF Undo, Leave
<1>9. CASE \E stamp \in Stamps : SnapshotTears(t, stamp)
  <2>1. PICK stamp \in Stamps :
          /\ tx[t].pc = "snapshot"
          /\ tx'[t] = [tx[t] EXCEPT !.pc = "done", !.snap = stamp, !.verdict = "snapshotFailed"]
    BY <1>1, <1>9 DEF SnapshotTears, Set, TypeOK
  <2>2. /\ tx'[t].pc = "done" /\ tx'[t].op = tx[t].op /\ tx'[t].tier = tx[t].tier
        /\ tx'[t].pre = tx[t].pre /\ tx'[t].behaviour = tx[t].behaviour
        /\ tx'[t].verdict = "snapshotFailed"
    <3>1. tx[t] \in Transaction
      BY <1>1 DEF TypeOK
    <3> QED BY <2>1, <3>1 DEF Transaction
  <2> QED BY <2>1, <2>2, GateEnds
<1> QED BY <1>3, <1>4, <1>5, <1>6, <1>7, <1>8, <1>9

(* Exactly one entry is added between the count and the action. *)
LEMMA GateSnapshot ==
  ASSUME Serial, Before, NEW t \in Txs, NEW stamp \in Stamps, Snapshot(t, stamp)
  PROVE  GateOf(t)' /\ RightOf(t)'
<1>1. /\ TypeOK /\ tx \in [Txs -> Transaction] /\ tx[t] \in Transaction /\ tx[t].file \in Files
      /\ tx[t].pc = "snapshot" /\ UNCHANGED <<disk, strays>> /\ Big = {} /\ ~Concurrent
  BY DEF Before, TypeOK, Snapshot, Transaction, Serial
<1>2. GateOf(t) /\ disk[tx[t].file] = tx[t].pre
  BY <1>1 DEF Before, GateInv, UndoInv, Untouched
<1>3. Guarded(t) => Exists(tx[t].file) /\ RequiresSnapshot(tx[t].tier)
  BY <1>1, <1>2 DEF Before, RollInv, HandleInv, Exists, Guarded, RequiresGate2, RequiresSnapshot
<1>4. \/ tx'[t] = [tx[t] EXCEPT !.pc = "act"] /\ ~Guarded(t)
      \/ /\ tx'[t] = [tx[t] EXCEPT !.pc = "act", !.snap = stamp]
         /\ snaps[<<tx[t].file, stamp>>] = Absent /\ Exists(tx[t].file)
         /\ snaps' = [snaps EXCEPT ![<<tx[t].file, stamp>>] = disk[tx[t].file]]
  BY <1>1, <1>3 DEF Snapshot, Move, Set
<1>5. /\ tx'[t].pc = "act" /\ tx'[t].verdict = tx[t].verdict /\ tx'[t].op = tx[t].op
      /\ tx'[t].tier = tx[t].tier /\ tx'[t].before = tx[t].before
      /\ tx'[t].file = tx[t].file /\ tx'[t].pre = tx[t].pre
  BY <1>1, <1>4 DEF Transaction
<1>6. Guarded(t)' <=> Guarded(t)
  BY <1>5 DEF Guarded, RequiresGate2
<1>7. Guarded(t) => EntryCount' = EntryCount + 1
  BY <1>1, <1>4, SnapshotCounts DEF Exists
<1>8. tx[t].verdict = "none"
  BY <1>1, <1>2 DEF GateOf
<1> QED BY <1>1, <1>2, <1>5, <1>6, <1>7, <1>8 DEF GateOf, RightOf

(* The action has returned: what Gate 2 will find tells how it behaved. *)
LEMMA GateReturns ==
  ASSUME Serial, Before, NEW t \in Txs, NEW how \in AllBehaviours, ActionReturns(t, how)
  PROVE  GateOf(t)' /\ RightOf(t)'
<1> DEFINE f == tx[t].file
           done == Effect(tx[t].op, disk[f], tx[t].data)
<1>1. /\ TypeOK /\ tx \in [Txs -> Transaction] /\ tx[t] \in Transaction /\ f \in Files
      /\ tx[t].op \in Operations /\ tx[t].data \in Values /\ tx[t].before \in Nat
      /\ tx[t].pc = "act" /\ tx[t].verdict = "none" /\ UNCHANGED snaps
      /\ disk \in [Files -> Content \cup {Absent}] /\ EntryCount \in Nat /\ strays \in Nat
      /\ Absent \notin Content
  BY EntriesCounted, LlbAssumption
     DEF Before, TypeOK, ActionReturns, Transaction, GateInv, GateOf, Content
<1>2. /\ Guarded(t) => /\ EntryCount = tx[t].before + 1 /\ disk[f] = tx[t].pre
                       /\ tx[t].pre # Absent
                       /\ tx[t].op \in {"OVERWRITE", "CHMOD", "DELETE"}
      /\ ~Guarded(t) => tx[t].op = "CREATE"
  BY <1>1 DEF Before, GateInv, GateOf, RollInv, HandleInv, Operations
<1>3. CASE ~Guarded(t)
  <2>1. tx'[t] = [tx[t] EXCEPT !.behaviour = how, !.pc = "close", !.verdict = "allow"]
    BY <1>1, <1>3 DEF ActionReturns, Guarded, Set
  <2>2. /\ tx'[t].pc = "close" /\ tx'[t].verdict = "allow" /\ tx'[t].tier = tx[t].tier
        /\ tx'[t].op = tx[t].op
    BY <1>1, <2>1 DEF Transaction
  <2> QED BY <1>2, <1>3, <2>2 DEF GateOf, RightOf, Guarded, RequiresGate2
<1>4. CASE Guarded(t)
  <2>1. tx'[t] = [tx[t] EXCEPT !.behaviour = how, !.pc = "gate2"]
    BY <1>1, <1>4 DEF ActionReturns, Guarded, Set
  <2>2. /\ tx'[t].pc = "gate2" /\ tx'[t].behaviour = how /\ tx'[t].verdict = "none"
        /\ tx'[t].tier = tx[t].tier /\ tx'[t].op = tx[t].op /\ tx'[t].file = f
        /\ tx'[t].before = tx[t].before /\ tx'[t].pre = tx[t].pre
    BY <1>1, <2>1 DEF Transaction
  <2>3. Guarded(t)' /\ (tx'[t].op # "CREATE") /\ RequiresSnapshot(tx[t].tier)
    BY <1>2, <1>4, <2>2 DEF Guarded, RequiresGate2, RequiresSnapshot
  <2>4. disk'[f] = done \/ how \notin {"honest", "spills"}
    BY <1>1 DEF ActionReturns
  <2>5. how \in {"honest", "spills"} =>
          EntryCount' = tx[t].before + 1 + ExpectedDelta(tx[t].op) + (strays' - strays)
    <3> SUFFICES ASSUME how \in {"honest", "spills"}
                 PROVE  EntryCount' = tx[t].before + 1 + ExpectedDelta(tx[t].op)
                                        + (strays' - strays)
      OBVIOUS
    <3>1. disk' = [disk EXCEPT ![f] = done] /\ strays' \in {strays, strays + 1}
      BY DEF ActionReturns
    <3>2. Exists(f) /\ strays' \in Nat
      BY <1>1, <1>2, <1>4, <3>1 DEF Exists
    <3>3. EntryCount' = EntryCount + ExpectedDelta(tx[t].op) + (strays' - strays)
      BY <1>1, <1>2, <1>4, <3>1, <3>2, DeclaredCounts
    <3> QED BY <1>1, <1>2, <1>4, <3>1, <3>3 DEF ExpectedDelta
  <2>6. NoSpillover(t)' <=> EntryCount' - tx[t].before - 1 = ExpectedDelta(tx[t].op)
    BY <2>2, <2>3 DEF NoSpillover
  <2>7. how = "spills" => ~NoSpillover(t)'
    <3> SUFFICES ASSUME how = "spills" PROVE ~NoSpillover(t)'
      OBVIOUS
    <3>1. strays' = strays + 1
      BY DEF ActionReturns
    <3>2. ExpectedDelta(tx[t].op) \in Int
      BY DEF ExpectedDelta
    <3>3. EntryCount' = tx[t].before + 1 + ExpectedDelta(tx[t].op) + 1
      BY <1>1, <2>5, <3>1, <3>2
    <3> QED BY <1>1, <2>6, <3>2, <3>3
  <2>8. how = "setsExec" => tx[t].op = "CHMOD" \/ ~NotExecutable(t)'
    <3> SUFFICES ASSUME how = "setsExec", tx[t].op # "CHMOD" PROVE ~NotExecutable(t)'
      OBVIOUS
    <3>1. done # Absent /\ disk' = [disk EXCEPT ![f] = [done EXCEPT !.exec = TRUE]]
      BY DEF ActionReturns
    <3>2. tx[t].op = "OVERWRITE"
      BY <1>2, <1>4, <3>1 DEF Effect
    <3>3. done \in Content
      BY <1>1, <3>1, <3>2, EffectTyped
    <3>4. disk'[f] \in Content /\ disk'[f].exec = TRUE
      BY <1>1, <3>1, <3>3 DEF Content
    <3> QED BY <1>1, <2>2, <3>2, <3>4 DEF NotExecutable, Exists
  <2>9. how = "skips" /\ tx[t].op = "DELETE" => ~TargetIntact(t)'
    <3> SUFFICES ASSUME how = "skips", tx[t].op = "DELETE" PROVE ~TargetIntact(t)'
      OBVIOUS
    <3>1. disk' = disk
      BY DEF ActionReturns
    <3> QED BY <1>2, <1>4, <2>2, <3>1 DEF TargetIntact, Exists
  <2>10. how = "honest" => \/ Consistent(t)'
                           \/ tx[t].op = "OVERWRITE" /\ tx[t].pre # Absent /\ tx[t].pre.exec
    <3> SUFFICES ASSUME how = "honest",
                        ~(tx[t].op = "OVERWRITE" /\ tx[t].pre # Absent /\ tx[t].pre.exec)
                 PROVE  Consistent(t)'
      OBVIOUS
    <3>1. strays' = strays /\ disk'[f] = done
      BY <2>4 DEF ActionReturns
    <3>2. ExpectedDelta(tx[t].op) \in Int
      BY DEF ExpectedDelta
    <3>3. NoSpillover(t)'
      BY <1>1, <2>5, <2>6, <3>1, <3>2
    <3>4. done \in Content \cup {Absent}
      BY <1>1, <1>2, <1>4, EffectTyped
    <3>5. TargetIntact(t)'
      <4>1. CASE tx[t].op = "DELETE"
        BY <2>2, <3>1, <4>1 DEF TargetIntact, Exists, Effect
      <4>2. CASE tx[t].op = "OVERWRITE"
        <5>1. done \in Content
          BY <1>1, <3>4, <4>2 DEF Effect, Content
        <5> QED BY <1>1, <2>2, <3>1, <4>2, <5>1 DEF TargetIntact, Exists
      <4>3. CASE tx[t].op = "CHMOD"
        <5>1. done \in Content
          BY <1>1, <1>2, <1>4, <4>3 DEF Effect, Content
        <5> QED BY <1>1, <2>2, <3>1, <4>3, <5>1 DEF TargetIntact, Exists
      <4> QED BY <1>2, <1>4, <4>1, <4>2, <4>3
    <3>6. NotExecutable(t)'
      <4> SUFFICES ASSUME tx[t].op = "OVERWRITE" PROVE ~disk'[f].exec
        BY <1>2, <1>4, <2>2 DEF NotExecutable
      <4>1. done = [data |-> tx[t].data, exec |-> tx[t].pre # Absent /\ tx[t].pre.exec]
        BY <1>2, <1>4 DEF Effect
      <4>2. (tx[t].pre # Absent /\ tx[t].pre.exec) = FALSE
        OBVIOUS
      <4>3. done = [data |-> tx[t].data, exec |-> FALSE]
        BY <4>1, <4>2, Zenon
      <4> HIDE DEF done
      <4> QED BY <3>1, <4>3
    <3> QED BY <3>3, <3>5, <3>6 DEF Consistent
  <2> HIDE DEF f, done
  <2> QED BY <2>2, <2>3, <2>7, <2>8, <2>9, <2>10 DEF GateOf, RightOf
<1> QED BY <1>3, <1>4

(* The verdict: an allowed action passed every check, an accused one failed *)
(* one of them. *)
LEMMA GateJudges ==
  ASSUME Serial, Before, NEW t \in Txs,
         \/ \E expired \in BOOLEAN : Gate2(t, expired)
         \/ \E how \in AllBehaviours : ActionErrs(t, how)
         \/ ActionPanics(t)
  PROVE  GateOf(t)' /\ RightOf(t)'
<1>1. TypeOK /\ GateOf(t) /\ RightOf(t)
  BY DEF Before, GateInv
<1>2. ASSUME NEW pc \in {"undo", "close"}, NEW verdict \in {"allow", "violation", "expired"},
             Gate2(t, TRUE) \/ Gate2(t, FALSE),
             Set(t, [tx[t] EXCEPT !.pc = pc, !.verdict = verdict]),
             \/ verdict = "allow" /\ Consistent(t)
             \/ verdict = "violation" /\ ~Consistent(t)
             \/ verdict = "expired"
      PROVE  GateOf(t)' /\ RightOf(t)'
  <2>1. /\ Kept(t) /\ tx'[t].pc = pc /\ tx'[t].verdict = verdict
        /\ tx'[t].behaviour = tx[t].behaviour
    <3>1. \/ Set(t, [tx[t] EXCEPT !.pc = pc, !.verdict = verdict])
          \/ Move(t, pc) /\ verdict = tx[t].verdict
      BY <1>2
    <3> QED BY <1>1, <3>1, JudgeKeeps, ZenonT(40)
  <2>2. Guarded(t)' <=> Guarded(t)
    BY <2>1 DEF Kept, Guarded, RequiresGate2
  <2>3. tx[t].pc = "gate2"
    BY <1>2 DEF Gate2
  <2>4. GateOf(t)'
    BY <1>1, <1>2, <2>1, <2>2, <2>3 DEF GateOf, Kept
  <2>5. RightOf(t)'
    BY <1>1, <1>2, <2>1, <2>2, <2>3 DEF GateOf, RightOf, Kept, Consistent
  <2> QED BY <2>4, <2>5
<1>3. CASE \E expired \in BOOLEAN : Gate2(t, expired)
  <2>1. PICK expired \in BOOLEAN : Gate2(t, expired)
    BY <1>3
  <2>2. Gate2(t, TRUE) \/ Gate2(t, FALSE)
    BY <2>1
  <2>3. \/ Consistent(t) /\ Set(t, [tx[t] EXCEPT !.pc = "close", !.verdict = "allow"])
        \/ Set(t, [tx[t] EXCEPT !.pc = "undo", !.verdict = "expired"])
        \/ ~Consistent(t) /\ Set(t, [tx[t] EXCEPT !.pc = "undo", !.verdict = "violation"])
    BY <2>1 DEF Gate2, Leave
  <2> QED BY <1>2, <2>2, <2>3
<1>4. CASE \/ \E how \in AllBehaviours : ActionErrs(t, how)
           \/ ActionPanics(t)
  <2>1. \E pc \in {"undo", "close"}, how \in AllBehaviours, verdict \in {"execError", "panicked"} :
          tx'[t] = [tx[t] EXCEPT !.pc = pc, !.behaviour = how, !.verdict = verdict]
    <3>1. "panics" \in AllBehaviours
      BY DEF AllBehaviours
    <3>2. CASE \E how \in AllBehaviours : ActionErrs(t, how)
      BY <1>1, <3>2 DEF ActionErrs, Set, TypeOK
    <3>3. CASE ActionPanics(t)
      BY <1>1, <3>1, <3>3 DEF ActionPanics, Set, TypeOK
    <3> QED BY <1>4, <3>2, <3>3
  <2>2. /\ tx'[t].pc \in {"undo", "close"} /\ tx'[t].verdict \in {"execError", "panicked"}
        /\ tx'[t].op = tx[t].op /\ tx'[t].tier = tx[t].tier
    BY <1>1, <2>1 DEF TypeOK, Transaction
  <2>3. tx[t].pc = "act"
    BY <1>4 DEF ActionErrs, ActionPanics
  <2>4. Guarded(t)' <=> Guarded(t)
    BY <2>2 DEF Guarded, RequiresGate2
  <2> QED BY <1>1, <2>2, <2>3, <2>4 DEF GateOf, RightOf
<1> QED BY <1>3, <1>4

(* A call that is over is judged by its record alone, which stays. *)
LEMMA GateOfOthers ==
  ASSUME Before, NEW u \in Txs, ~InFlight(u), tx'[u] = tx[u]
  PROVE  GateOf(u)' /\ RightOf(u)'
<1>1. GateOf(u) /\ RightOf(u)
  BY DEF Before, GateInv
<1>2. Guarded(u)' <=> Guarded(u)
  BY DEF Guarded
<1>3. tx[u].pc \notin {"snapshot", "act", "gate2"}
  BY DEF InFlight
<1>4. GateOf(u)'
  BY <1>1, <1>2, <1>3 DEF GateOf
<1>5. RightOf(u)'
  BY <1>1, <1>2 DEF RightOf
<1> QED BY <1>4, <1>5

(* The step of one call: the others are over. *)
LEMMA GateStep ==
  ASSUME Serial, Before, NEW t \in Txs, Acts(t)
  PROVE  GateInv'
<1>1. GateOf(t)' /\ RightOf(t)'
  BY StepKinds, GateSubmit, GateWaits, GateSnapshot, GateReturns, GateJudges
<1>2. \A u \in Txs : u # t => ~InFlight(u) /\ tx'[u] = tx[u]
  BY StaysAlone, ActsAlone DEF Before, UndoInv, Serial
<1>3. \A u \in Txs : u # t => GateOf(u)' /\ RightOf(u)'
  BY <1>2, GateOfOthers
<1> QED BY <1>1, <1>3 DEF GateInv

(* Gate 2 at every state. *)
LEMMA GateInvariant == Serial => (Spec => []GateInv)
<1> SUFFICES ASSUME Serial PROVE Spec => []GateInv
  OBVIOUS
<1>1. Init => GateInv
  BY DEF Init, GateInv, GateOf, RightOf
<1>2. TypeOK /\ UndoInv /\ RollInv /\ GateInv /\ [Next]_vars => GateInv'
  <2> SUFFICES ASSUME Before, [Next]_vars PROVE GateInv'
    BY DEF Before
  <2>1. CASE UNCHANGED vars
    <3>1. /\ UNCHANGED <<disk, tx>> /\ EntryCount' = EntryCount
          /\ \A t \in Txs : /\ Guarded(t)' <=> Guarded(t)
                            /\ NoSpillover(t)' <=> NoSpillover(t)
                            /\ NotExecutable(t)' <=> NotExecutable(t)
                            /\ TargetIntact(t)' <=> TargetIntact(t)
                            /\ Consistent(t)' <=> Consistent(t)
      BY <2>1 DEF vars, EntryCount, Guarded, NoSpillover, NotExecutable, TargetIntact,
                  Consistent, Exists
    <3> QED BY <3>1 DEF Before, GateInv, GateOf, RightOf
  <2>2. ~Outsider
    BY DEF Outsider, Serial
  <2> QED BY <2>1, <2>2, GateStep DEF Next, Acts
<1>3. (Spec => []UndoInv) /\ (Spec => []RollInv)
  BY UndoInvariant, RollInvariant DEF Serial
<1> QED
  BY <1>1, <1>2, <1>3, TypeInvariant, PTL DEF Spec

(* One call at a time, no target too big for a snapshot, no name executable *)
(* by its extension: Gate 2 commits no deceit and accuses nobody wrongly,  *)
(* whatever the directory holds and however often the server dies.         *)
THEOREM Gate2Judges == Serial => (Spec => []Gate2IsRight)
<1>1. GateInv => Gate2IsRight
  BY DEF GateInv, RightOf, Gate2IsRight, DeceitIsCaught, ViolationHasCause
<1> QED BY <1>1, GateInvariant, PTL

--------------------------------------------------------------------------------
(* The refinement: LastLookBack implements AtomicMutation.                 *)
(* When the server is atomic: guarded operations on small files, actions   *)
(* that Gate 2 can judge, no panic, no crash, and rollbacks that work.      *)
AtomicServer ==
  /\ Serial /\ ~Crashes /\ RestoreErrs \subseteq {FALSE}
  /\ Ops \subseteq {"OVERWRITE", "CHMOD", "DELETE"}
  /\ Behaviours \subseteq {"honest", "fails", "failsMidway", "spills", "setsExec"}

(* Every call is guarded and holds what it may have to restore; what Gate 2 *)
(* is going to accept is what was declared. *)
AtomOf(t) ==
  /\ tx[t].pc # "idle" => Guarded(t)
  /\ tx[t].pc = "gate2" /\ Consistent(t) =>
       disk[tx[t].file] = Effect(tx[t].op, tx[t].pre, tx[t].data)
  /\ tx[t].pc = "undo" => tx[t].verdict \in Failures
  /\ tx[t].pc = "close" => tx[t].verdict \in Failures \cup {"allow"}
  /\ tx[t].pc # "crashed"
  /\ tx[t].snap # Unbacked

AtomInv == \A t \in Txs : AtomOf(t)

(* The request stays the same. *)
SameRequest(t) ==
  /\ tx'[t].file = tx[t].file /\ tx'[t].op = tx[t].op /\ tx'[t].data = tx[t].data
  /\ tx'[t].pre = tx[t].pre /\ tx'[t].tier = tx[t].tier

(* The steps of an atomic server after the start of a call. *)
Waits(t) ==
  /\ tx[t].pc \in {"human", "capture", "snapshot"} /\ disk' = disk
  /\ tx'[t].pc \in {"capture", "snapshot", "act"} /\ tx'[t].verdict = tx[t].verdict

TurnsAway(t) ==
  /\ tx[t].pc \in {"human", "capture", "snapshot"} /\ disk' = disk
  /\ tx'[t].pc = "done" /\ tx'[t].verdict \in {"humanVeto", "rejected", "snapshotFailed"}

Acted(t) ==
  /\ tx[t].pc = "act"
  /\ \/ /\ tx'[t].pc = "gate2" /\ tx'[t].verdict = tx[t].verdict
        /\ Consistent(t)' =>
             disk'[tx[t].file] = Effect(tx[t].op, disk[tx[t].file], tx[t].data)
     \/ tx'[t].pc = "undo" /\ tx'[t].verdict = "execError"

Judged(t) ==
  /\ tx[t].pc = "gate2" /\ disk' = disk
  /\ \/ tx'[t].pc = "close" /\ tx'[t].verdict = "allow" /\ Consistent(t)
     \/ tx'[t].pc = "undo" /\ tx'[t].verdict \in {"expired", "violation"}

Restored(t) ==
  /\ tx[t].pc = "undo" /\ tx'[t].pc = "close" /\ tx'[t].verdict = tx[t].verdict

Closed(t) ==
  /\ tx[t].pc = "close" /\ disk' = disk
  /\ tx'[t].pc = "done" /\ tx'[t].verdict = tx[t].verdict

Works(t) ==
  /\ SameRequest(t) /\ tx'[t].snap # Unbacked
  /\ \A g \in Files : g # tx[t].file => disk'[g] = disk[g]
  /\ Waits(t) \/ TurnsAway(t) \/ Acted(t) \/ Judged(t) \/ Restored(t) \/ Closed(t)

(* Which actions an atomic server takes. *)
LEMMA AtomicSteps ==
  ASSUME AtomicServer, NEW t \in Txs, Acts(t)
  PROVE  \/ \E f \in Files, op \in Ops, v \in Values : Submit(t, f, op, v)
         \/ \E stamp \in Stamps : Snapshot(t, stamp)
         \/ \E confirmed \in BOOLEAN : HumanAnswers(t, confirmed)
         \/ Capture(t) \/ SnapshotFails(t) \/ Close(t)
         \/ \E stamp \in Stamps : SnapshotTears(t, stamp)
         \/ \E how \in {"honest", "spills", "setsExec"} : ActionReturns(t, how)
         \/ \E how \in AllBehaviours : ActionErrs(t, how)
         \/ \E expired \in BOOLEAN : Gate2(t, expired)
         \/ Undo(t, FALSE)
<1>1. /\ "fails" \in AllBehaviours /\ Behaviours \subseteq AllBehaviours
      /\ Expiries \subseteq BOOLEAN
  BY LlbAssumption DEF AllBehaviours
<1>2. ~Crash(t) /\ "panics" \notin Behaviours
  BY DEF AtomicServer, Crash
<1>3. ASSUME NEW how \in Behaviours, ActionReturns(t, how)
      PROVE  how \in {"honest", "spills", "setsExec"}
  BY <1>3 DEF AtomicServer, ActionReturns
<1>4. \A err \in RestoreErrs : err = FALSE
  BY DEF AtomicServer
<1>5. \/ \E f \in Files, op \in Ops, v \in Values : Submit(t, f, op, v)
      \/ \E confirmed \in BOOLEAN : HumanAnswers(t, confirmed)
      \/ Settle(t)
  BY <1>2 DEF Acts
<1>6. CASE Settle(t)
  <2>1. \/ Capture(t) \/ SnapshotFails(t) \/ Close(t)
        \/ \E stamp \in Stamps : Snapshot(t, stamp) \/ SnapshotTears(t, stamp)
        \/ \E how \in Behaviours : ActionReturns(t, how)
        \/ \E how \in AllBehaviours : ActionErrs(t, how)
        \/ \E expired \in BOOLEAN : Gate2(t, expired)
        \/ Undo(t, FALSE)
    BY <1>1, <1>2, <1>4, <1>6 DEF Settle
  <2> QED BY <1>3, <2>1
<1> QED BY <1>5, <1>6

(* What the caller's action does to an atomic server. *)
LEMMA AtomActs ==
  ASSUME AtomicServer, Before, AtomInv, NEW t \in Txs,
         \/ \E how \in {"honest", "spills", "setsExec"} : ActionReturns(t, how)
         \/ \E how \in AllBehaviours : ActionErrs(t, how)
  PROVE  Works(t)
<1> DEFINE f == tx[t].file
           done == Effect(tx[t].op, disk[f], tx[t].data)
<1>1. /\ TypeOK /\ tx \in [Txs -> Transaction] /\ tx[t] \in Transaction /\ f \in Files
      /\ disk \in [Files -> Content \cup {Absent}] /\ Absent \notin Content
      /\ tx[t].pc = "act" /\ Guarded(t) /\ tx[t].snap # Unbacked
      /\ tx[t].verdict = "none" /\ tx[t].op # "CREATE" /\ disk[f] = tx[t].pre
      /\ tx[t].data \in Values /\ tx[t].op \in Operations
      /\ "honest" \in AllBehaviours /\ "spills" \in AllBehaviours /\ "setsExec" \in AllBehaviours
  BY LlbAssumption DEF Before, TypeOK, Transaction, AtomInv, AtomOf, GateInv, GateOf, Content,
                       ActionReturns, ActionErrs, AllBehaviours
<1>2. ASSUME NEW how \in {"honest", "spills", "setsExec"}, ActionReturns(t, how)
      PROVE  Works(t)
  <2>1. tx'[t] = [tx[t] EXCEPT !.behaviour = how, !.pc = "gate2"]
    BY <1>1, <1>2 DEF ActionReturns, Guarded, Set
  <2>2. /\ SameRequest(t) /\ tx'[t].snap # Unbacked /\ tx'[t].pc = "gate2"
        /\ tx'[t].verdict = tx[t].verdict /\ tx'[t].behaviour = how
    BY <1>1, <2>1 DEF Transaction, SameRequest
  <2>3. \/ how \in {"honest", "spills"} /\ disk' = [disk EXCEPT ![f] = done]
        \/ /\ how = "setsExec" /\ done # Absent /\ Possible(t)
           /\ disk' = [disk EXCEPT ![f] = [done EXCEPT !.exec = TRUE]]
    BY <1>2 DEF ActionReturns
  <2>4. \A g \in Files : g # f => disk'[g] = disk[g]
    BY <1>1, <2>3
  <2>5. ASSUME Consistent(t)' PROVE disk'[f] = done
    <3>1. CASE how \in {"honest", "spills"}
      BY <1>1, <2>3, <3>1
    <3>2. CASE how = "setsExec"
      <4>1. how \in AllBehaviours
        BY <1>1
      <4>2. GateOf(t)'
        BY <1>2, <4>1, GateReturns DEF AtomicServer
      <4>3. tx[t].op = "CHMOD"
        BY <2>2, <2>5, <3>2, <4>2 DEF GateOf, Consistent, SameRequest
      <4>4. disk[f] \in Content /\ done = [disk[f] EXCEPT !.exec = TRUE]
        BY <1>1, <2>3, <3>2, <4>3 DEF Possible, Exists, Effect
      <4>5. disk'[f] = [done EXCEPT !.exec = TRUE]
        BY <1>1, <2>3, <3>2
      <4> HIDE DEF done
      <4> QED BY <4>4, <4>5 DEF Content
    <3> QED BY <3>1, <3>2
  <2>6. Acted(t)
    BY <1>1, <2>2, <2>5 DEF Acted
  <2> QED BY <2>2, <2>4, <2>6 DEF Works
<1>3. ASSUME NEW how \in AllBehaviours, ActionErrs(t, how)
      PROVE  Works(t)
  <2>1. tx'[t] = [tx[t] EXCEPT !.pc = "undo", !.behaviour = how, !.verdict = "execError"]
    BY <1>1, <1>3 DEF ActionErrs, Set
  <2>2. /\ SameRequest(t) /\ tx'[t].snap # Unbacked /\ tx'[t].pc = "undo"
        /\ tx'[t].verdict = "execError"
    BY <1>1, <2>1 DEF Transaction, SameRequest
  <2>3. \A g \in Files : g # f => disk'[g] = disk[g]
    BY <1>1, <1>3 DEF ActionErrs
  <2> QED BY <1>1, <2>2, <2>3 DEF Works, Acted
<1> QED BY <1>2, <1>3

(* The rollback of an atomic server has a snapshot to copy back. *)
LEMMA AtomUndoes ==
  ASSUME AtomicServer, Before, AtomInv, NEW t \in Txs, Undo(t, FALSE)
  PROVE  Works(t)
<1>1. /\ TypeOK /\ tx[t] \in Transaction /\ tx[t].file \in Files
      /\ disk \in [Files -> Content \cup {Absent}] /\ tx[t].pc = "undo"
      /\ tx[t].snap \in Stamps /\ NoSnap \notin Stamps
      /\ snaps[<<tx[t].file, tx[t].snap>>] # Absent
  <2>1. /\ TypeOK /\ tx[t] \in Transaction /\ tx[t].pc = "undo" /\ NoSnap \notin Stamps
        /\ tx[t].snap # Unbacked /\ Guarded(t)
    BY LlbAssumption DEF Before, TypeOK, Undo, AtomInv, AtomOf, NoSnap
  <2>2. tx[t].snap \in Stamps
    BY <2>1 DEF Before, RollInv, HandleInv
  <2>3. snaps[<<tx[t].file, tx[t].snap>>] # Absent
    BY <2>1, <2>2 DEF Before, UndoInv, SnapshotsHold, Held
  <2> QED BY <2>1, <2>2, <2>3 DEF TypeOK, Transaction
<1>2. /\ disk' = [disk EXCEPT ![tx[t].file] = snaps[<<tx[t].file, tx[t].snap>>]]
      /\ Leave(t, tx[t].verdict)
  BY <1>1, LlbAssumption DEF Undo, Unbacked
<1>3. /\ Kept(t) /\ tx'[t].pc = "close" /\ tx'[t].verdict = tx[t].verdict
      /\ tx'[t].data = tx[t].data
  BY <1>1, <1>2 DEF Leave, Set, Kept, TypeOK, Transaction
<1>4. tx'[t].snap # Unbacked
  BY <1>1, <1>3, LlbAssumption DEF Kept, Unbacked
<1>5. \A g \in Files : g # tx[t].file => disk'[g] = disk[g]
  BY <1>1, <1>2
<1> QED BY <1>1, <1>3, <1>4, <1>5 DEF Works, Restored, SameRequest, Kept

(* The other steps change the record and leave the targets alone. *)
LEMMA AtomMoves ==
  ASSUME AtomicServer, Before, AtomInv, NEW t \in Txs,
         \/ \E stamp \in Stamps : Snapshot(t, stamp)
         \/ \E confirmed \in BOOLEAN : HumanAnswers(t, confirmed)
         \/ Capture(t) \/ SnapshotFails(t) \/ Close(t)
         \/ \E stamp \in Stamps : SnapshotTears(t, stamp)
         \/ \E expired \in BOOLEAN : Gate2(t, expired)
  PROVE  Works(t)
<1>1. /\ TypeOK /\ tx \in [Txs -> Transaction] /\ tx[t] \in Transaction /\ disk' = disk
      /\ tx[t].snap # Unbacked
  BY DEF Before, TypeOK, AtomInv, AtomOf, Snapshot, HumanAnswers, Capture, SnapshotFails,
         SnapshotTears, Close, Gate2
<1>2. ASSUME NEW pc \in PCs, NEW verdict \in Verdicts,
             \/ tx'[t] = [tx[t] EXCEPT !.pc = pc, !.verdict = verdict]
             \/ verdict = tx[t].verdict /\ tx'[t] = [tx[t] EXCEPT !.pc = pc],
             \/ /\ tx[t].pc \in {"human", "capture", "snapshot"}
                /\ \/ pc = "capture" /\ verdict = tx[t].verdict
                   \/ pc = "done" /\ verdict \in {"humanVeto", "rejected", "snapshotFailed"}
             \/ /\ tx[t].pc = "gate2"
                /\ \/ pc = "close" /\ verdict = "allow" /\ Consistent(t)
                   \/ pc = "undo" /\ verdict \in {"expired", "violation"}
             \/ tx[t].pc = "close" /\ pc = "done" /\ verdict = tx[t].verdict
      PROVE  Works(t)
  <2>1. /\ SameRequest(t) /\ tx'[t].snap = tx[t].snap /\ tx'[t].pc = pc
        /\ tx'[t].verdict = verdict
    BY <1>1, <1>2 DEF Transaction, SameRequest
  <2> QED BY <1>1, <1>2, <2>1 DEF Works, Waits, TurnsAway, Judged, Closed
<1>3. CASE \E stamp \in Stamps : Snapshot(t, stamp)
  <2>1. PICK stamp \in Stamps : Snapshot(t, stamp)
    BY <1>3
  <2>2. /\ tx[t].pc = "snapshot"
        /\ \/ tx'[t] = [tx[t] EXCEPT !.pc = "act"]
           \/ tx'[t] = [tx[t] EXCEPT !.pc = "act", !.snap = stamp]
    BY <1>1, <2>1 DEF Snapshot, Move, Set, AtomicServer, Serial
  <2>3. stamp # Unbacked
    BY LlbAssumption DEF Unbacked
  <2>4. /\ SameRequest(t) /\ tx'[t].snap # Unbacked /\ tx'[t].pc = "act"
        /\ tx'[t].verdict = tx[t].verdict
    BY <1>1, <2>2, <2>3 DEF Transaction, SameRequest
  <2> QED BY <1>1, <2>2, <2>4 DEF Works, Waits
<1>4. CASE Capture(t)
  <2>1. CASE Set(t, [tx[t] EXCEPT !.pc = "snapshot", !.before = EntryCount])
    <3>1. PICK n : tx'[t] = [tx[t] EXCEPT !.pc = "snapshot", !.before = n]
      BY <1>1, <2>1 DEF Set
    <3>2. /\ SameRequest(t) /\ tx'[t].snap = tx[t].snap /\ tx'[t].pc = "snapshot"
          /\ tx'[t].verdict = tx[t].verdict
      BY <1>1, <3>1 DEF Transaction, SameRequest
    <3> QED BY <1>1, <1>4, <3>2 DEF Works, Waits, Capture
  <2>2. CASE Set(t, [tx[t] EXCEPT !.pc = "done", !.verdict = "rejected"])
    <3>1. "done" \in PCs /\ "rejected" \in Verdicts /\ tx[t].pc = "capture"
      BY <1>4 DEF PCs, Verdicts, Capture
    <3> QED BY <1>1, <1>2, <2>2, <3>1 DEF Set
  <2> QED BY <1>4, <2>1, <2>2 DEF Capture
<1>5. tx[t].verdict \in Verdicts
  BY <1>1 DEF Transaction
<1>6. CASE (\E confirmed \in BOOLEAN : HumanAnswers(t, confirmed)) \/ SnapshotFails(t)
  <2>1. /\ "capture" \in PCs /\ "done" \in PCs
        /\ "humanVeto" \in Verdicts /\ "snapshotFailed" \in Verdicts
    BY DEF PCs, Verdicts
  <2>2. /\ tx[t].pc \in {"human", "snapshot"}
        /\ \/ tx'[t] = [tx[t] EXCEPT !.pc = "capture"]
           \/ \E verdict \in {"humanVeto", "snapshotFailed"} :
                tx'[t] = [tx[t] EXCEPT !.pc = "done", !.verdict = verdict]
    BY <1>1, <1>6 DEF HumanAnswers, SnapshotFails, Move, Set
  <2> QED BY <1>2, <1>5, <2>1, <2>2
<1>7. CASE \E expired \in BOOLEAN : Gate2(t, expired)
  <2>1. /\ "close" \in PCs /\ "undo" \in PCs
        /\ "allow" \in Verdicts /\ "expired" \in Verdicts /\ "violation" \in Verdicts
    BY DEF PCs, Verdicts
  <2>2. /\ tx[t].pc = "gate2"
        /\ \/ tx'[t] = [tx[t] EXCEPT !.pc = "close", !.verdict = "allow"] /\ Consistent(t)
           \/ \E verdict \in {"expired", "violation"} :
                tx'[t] = [tx[t] EXCEPT !.pc = "undo", !.verdict = verdict]
    BY <1>1, <1>7 DEF Gate2, Leave, Set
  <2> QED BY <1>2, <2>1, <2>2
<1>8. CASE Close(t)
  <2>1. "done" \in PCs /\ tx[t].pc = "close"
    BY <1>8 DEF PCs, Close
  <2>2. CASE tx'[t] = [tx[t] EXCEPT !.pc = "done"]
    BY <1>2, <1>5, <2>1, <2>2
  <2>3. CASE tx'[t] = [tx[t] EXCEPT !.pc = "done", !.snap = NoSnap]
    <3>1. /\ SameRequest(t) /\ tx'[t].snap = NoSnap /\ tx'[t].pc = "done"
          /\ tx'[t].verdict = tx[t].verdict
      BY <1>1, <2>3 DEF Transaction, SameRequest
    <3> QED BY <1>1, <2>1, <3>1 DEF Works, Closed, NoSnap, Unbacked
  <2> QED BY <1>1, <1>8, <2>2, <2>3 DEF Close, Move, Set
<1>9. CASE \E stamp \in Stamps : SnapshotTears(t, stamp)
  <2>1. PICK stamp \in Stamps :
          /\ tx[t].pc = "snapshot"
          /\ tx'[t] = [tx[t] EXCEPT !.pc = "done", !.snap = stamp, !.verdict = "snapshotFailed"]
    BY <1>1, <1>9 DEF SnapshotTears, Set
  <2>2. /\ SameRequest(t) /\ tx'[t].snap = stamp /\ tx'[t].pc = "done"
        /\ tx'[t].verdict = "snapshotFailed"
    BY <1>1, <2>1 DEF Transaction, SameRequest
  <2>3. stamp # Unbacked
    BY LlbAssumption DEF Unbacked
  <2> QED BY <1>1, <2>1, <2>2, <2>3 DEF Works, TurnsAway
<1> QED BY <1>3, <1>4, <1>6, <1>7, <1>8, <1>9

(* Every step an atomic server takes is one of these, or starts a call. *)
LEMMA AtomWorks ==
  ASSUME AtomicServer, Before, AtomInv, NEW t \in Txs, Acts(t)
  PROVE  Works(t) \/ \E f \in Files, op \in Ops, v \in Values : Submit(t, f, op, v)
BY AtomicSteps, AtomActs, AtomUndoes, AtomMoves

(* What the start of a call records. *)
Asks(t) ==
  /\ tx[t].pc = "idle" /\ disk' = disk
  /\ tx'[t].file \in Files /\ tx'[t].op \in Operations /\ tx'[t].data \in Values
  /\ tx'[t].op # "CREATE" /\ tx'[t].tier = Tier(tx'[t].file, tx'[t].op)
  /\ tx'[t].pre = disk[tx'[t].file] /\ tx'[t].snap # Unbacked
  /\ \/ tx'[t].pc = "done" /\ tx'[t].verdict = "rejected"
     \/ tx'[t].pc \in {"human", "capture"} /\ tx'[t].verdict = "none"

(* The start of a call, on the declared operations. *)
LEMMA AtomAsks ==
  ASSUME AtomicServer, Before, AtomInv, NEW t \in Txs,
         NEW f \in Files, NEW op \in Ops, NEW v \in Values, Submit(t, f, op, v)
  PROVE  Asks(t)
<1>1. /\ tx \in [Txs -> Transaction] /\ tx[t] \in Transaction /\ tx[t].pc = "idle"
      /\ tx[t].verdict = "none" /\ tx[t].snap # Unbacked /\ disk' = disk
      /\ op \in Operations /\ op # "CREATE"
  BY LlbAssumption DEF Before, TypeOK, Submit, GateInv, GateOf, AtomInv, AtomOf, AtomicServer
<1> DEFINE request == [tx[t] EXCEPT !.file = f, !.op = op, !.data = v,
                                    !.tier = Tier(f, op), !.pre = disk[f]]
<1>2. PICK pc \in {"human", "capture"} :
        \/ tx'[t] = [request EXCEPT !.pc = "done", !.verdict = "rejected"]
        \/ tx'[t] = [request EXCEPT !.pc = pc]
  BY <1>1 DEF Submit, Set
<1>3. /\ tx'[t].op = op /\ tx'[t].tier = Tier(f, op) /\ tx'[t].file = f /\ tx'[t].data = v
      /\ tx'[t].pre = disk[f] /\ tx'[t].snap = tx[t].snap
      /\ \/ tx'[t].pc = "done" /\ tx'[t].verdict = "rejected"
         \/ tx'[t].pc \in {"human", "capture"} /\ tx'[t].verdict = "none"
  BY <1>1, <1>2 DEF Transaction
<1> QED BY <1>1, <1>3 DEF Asks

(* One step: the invariant stays, and the other calls are over. *)
LEMMA AtomStep ==
  ASSUME AtomicServer, Before, AtomInv, NEW t \in Txs, Acts(t)
  PROVE  AtomInv' /\ (Works(t) \/ Asks(t)) /\ \A u \in Txs : u # t => ~InFlight(u) /\ tx'[u] = tx[u]
<1>1. \A u \in Txs : u # t => ~InFlight(u) /\ tx'[u] = tx[u]
  BY StaysAlone, ActsAlone DEF Before, UndoInv, AtomicServer, Serial
<1>2. Works(t) \/ Asks(t)
  BY AtomWorks, AtomAsks
<1>3. ASSUME NEW u \in Txs, u # t PROVE AtomOf(u)'
  <2>1. tx'[u] = tx[u] /\ tx[u].pc # "gate2" /\ (Guarded(u)' <=> Guarded(u))
    BY <1>1, <1>3 DEF InFlight, Guarded
  <2> QED BY <2>1 DEF AtomInv, AtomOf
<1>4. CASE Asks(t)
  <2>1. Guarded(t)'
    BY <1>4 DEF Asks, Guarded, RequiresGate2, Tier, Operations
  <2> QED BY <1>1, <1>2, <1>3, <1>4, <2>1 DEF Asks, AtomInv, AtomOf
<1>5. CASE Works(t)
  <2>1. AtomOf(t)
    BY DEF AtomInv
  <2>2. Guarded(t)' <=> Guarded(t)
    BY <1>5 DEF Works, SameRequest, Guarded
  <2>3. tx[t].pc = "act" => disk[tx[t].file] = tx[t].pre
    BY <2>1 DEF Before, GateInv, GateOf, AtomOf
  <2>4. AtomOf(t)'
    <3>1. CASE Acted(t)
      BY <1>5, <2>1, <2>2, <2>3, <3>1 DEF Works, SameRequest, Acted, AtomOf, Failures
    <3>2. CASE Waits(t) \/ TurnsAway(t) \/ Judged(t) \/ Restored(t) \/ Closed(t)
      BY <1>5, <2>1, <2>2, <3>2
         DEF Works, Waits, TurnsAway, Judged, Restored, Closed, AtomOf, Failures
    <3> QED BY <1>5, <3>1, <3>2 DEF Works
  <2> QED BY <1>1, <1>2, <1>3, <2>4 DEF AtomInv
<1> QED BY <1>2, <1>4, <1>5

(* With one call under way at most, the committed view of the directory is *)
(* the directory, but for the target of that call. *)
LEMMA CommittedNow ==
  ASSUME OneAtATime, NEW t \in Txs, \A u \in Txs : u # t => ~InFlight(u), NEW f \in Files
  PROVE  CommittedFile(f) = IF Unsettled(t) /\ tx[t].file = f THEN tx[t].pre ELSE disk[f]
<1>1. \A u \in Txs : Unsettled(u) /\ tx[u].file = f => u = t
  BY DEF Unsettled
<1>2. CASE Unsettled(t) /\ tx[t].file = f
  <2>1. (CHOOSE u \in Txs : Unsettled(u) /\ tx[u].file = f) = t
    BY <1>1, <1>2
  <2> QED BY <1>2, <2>1 DEF CommittedFile
<1>3. CASE ~(Unsettled(t) /\ tx[t].file = f)
  BY <1>1, <1>3 DEF CommittedFile
<1> QED BY <1>2, <1>3

(* The same of the next state. *)
LEMMA CommittedNext ==
  ASSUME OneAtATime', NEW t \in Txs, \A u \in Txs : u # t => ~InFlight(u)', NEW f \in Files
  PROVE  CommittedFile(f)' =
           IF Unsettled(t)' /\ tx'[t].file = f THEN tx'[t].pre ELSE disk'[f]
<1>1. \A u \in Txs : Unsettled(u)' /\ tx'[u].file = f => u = t
  BY DEF Unsettled
<1>2. CASE Unsettled(t)' /\ tx'[t].file = f
  <2>1. (CHOOSE u \in Txs : Unsettled(u)' /\ tx'[u].file = f) = t
    BY <1>1, <1>2
  <2> QED BY <1>2, <2>1 DEF CommittedFile
<1>3. CASE ~(Unsettled(t)' /\ tx'[t].file = f)
  BY <1>1, <1>3 DEF CommittedFile
<1> QED BY <1>2, <1>3

(* The step of one request, as the caller sees it. *)
LEMMA ViewOfStep ==
  ASSUME AtomicServer, Before, AtomInv, NEW t \in Txs, Acts(t)
  PROVE  \/ /\ tx[t].pc = "idle"                                  \* asked or refused
            /\ \A f \in Files : CommittedFile(f)' = CommittedFile(f)
            /\ RequestOf(tx'[t]) \in Atomic!Asked \cup {[state |-> "refused"]}
         \/ /\ \A f \in Files : CommittedFile(f)' = CommittedFile(f)
            /\ RequestOf(tx'[t]) = RequestOf(tx[t])               \* nothing to be seen
         \/ /\ RequestOf(tx[t]).state = "asked"                   \* refused
            /\ \A f \in Files : CommittedFile(f)' = CommittedFile(f)
            /\ RequestOf(tx'[t]) = [state |-> "refused"]
         \/ /\ RequestOf(tx[t]) \in Atomic!Asked                  \* granted
            /\ RequestOf(tx[t]).file = tx[t].file
            /\ RequestOf(tx[t]).op = tx[t].op /\ RequestOf(tx[t]).data = tx[t].data
            /\ \A f \in Files : CommittedFile(f)' =
                 IF f = tx[t].file THEN Effect(tx[t].op, CommittedFile(f), tx[t].data)
                                   ELSE CommittedFile(f)
            /\ RequestOf(tx'[t]) = [state |-> "granted"]
<1>1. /\ tx \in [Txs -> Transaction] /\ tx[t] \in Transaction
      /\ tx[t].file \in Files /\ tx[t].op \in Operations /\ tx[t].data \in Values
      /\ disk \in [Files -> Content \cup {Absent}]
      /\ OneAtATime /\ AtomOf(t) /\ GateOf(t)
  BY DEF Before, TypeOK, Transaction, UndoInv, AtomInv, GateInv
<1>2. /\ OneAtATime' /\ \A u \in Txs : u # t => ~InFlight(u) /\ ~InFlight(u)'
  <2>1. OneAtATime'
    BY <1>1, StaysAlone DEF AtomicServer, Serial, Before
  <2>2. \A u \in Txs : u # t => ~InFlight(u) /\ tx'[u] = tx[u]
    BY AtomStep
  <2> QED BY <2>1, <2>2 DEF InFlight
<1>3. \A f \in Files :
        /\ CommittedFile(f) = IF Unsettled(t) /\ tx[t].file = f THEN tx[t].pre ELSE disk[f]
        /\ CommittedFile(f)' =
             IF Unsettled(t)' /\ tx'[t].file = f THEN tx'[t].pre ELSE disk'[f]
  BY <1>1, <1>2, CommittedNow, CommittedNext
<1>4. /\ Unsettled(t) <=> tx[t].pc \notin {"idle", "done", "crashed"} /\ tx[t].verdict # "allow"
      /\ Unsettled(t)' <=>
           tx'[t].pc \notin {"idle", "done", "crashed"} /\ tx'[t].verdict # "allow"
  BY DEF Unsettled, InFlight
<1>5. CASE Asks(t)
  <2>1. /\ tx[t].pc = "idle"
        /\ \A f \in Files : CommittedFile(f)' = CommittedFile(f)
    BY <1>3, <1>4, <1>5 DEF Asks
  <2>2. RequestOf(tx'[t]) \in Atomic!Asked \cup {[state |-> "refused"]}
    BY <1>5 DEF Asks, RequestOf, Atomic!Asked
  <2> QED BY <2>1, <2>2
<1>6. CASE Works(t)
  <2> DEFINE asked == [state |-> "asked", file |-> tx[t].file, op |-> tx[t].op,
                       data |-> tx[t].data]
  <2>1. SameRequest(t) /\ \A g \in Files : g # tx[t].file => disk'[g] = disk[g]
    BY <1>6 DEF Works
  <2>2. CASE Waits(t) \/ Acted(t) \/ Restored(t) \/ (Judged(t) /\ tx'[t].pc = "undo")
    <3>1. Unsettled(t) /\ Unsettled(t)' /\ tx'[t].pc \notin {"idle", "done"}
      BY <1>1, <1>4, <2>2
         DEF Waits, Acted, Restored, Judged, GateOf, AtomOf, Failures
    <3>2. \A f \in Files : CommittedFile(f)' = CommittedFile(f)
      BY <1>3, <2>1, <3>1 DEF SameRequest
    <3>3. RequestOf(tx'[t]) = RequestOf(tx[t])
      BY <1>4, <2>1, <3>1 DEF RequestOf, SameRequest
    <3> QED BY <3>2, <3>3
  <2>3. CASE TurnsAway(t) \/ (Closed(t) /\ tx[t].verdict # "allow")
    <3>1. /\ Unsettled(t) /\ ~Unsettled(t)' /\ tx'[t].pc = "done" /\ tx'[t].verdict # "allow"
          /\ tx[t].pc # "idle" /\ disk' = disk
      BY <1>1, <1>4, <2>3 DEF TurnsAway, Closed, GateOf
    <3>2. disk[tx[t].file] = tx[t].pre
      <4>1. CASE TurnsAway(t)
        BY <4>1 DEF TurnsAway, Before, UndoInv, Untouched
      <4>2. CASE Closed(t) /\ tx[t].verdict # "allow"
        BY <1>1, <4>2
           DEF Closed, Before, RollInv, RolledBackMeansRestored, AtomOf, Failures
      <4> QED BY <2>3, <4>1, <4>2
    <3>3. \A f \in Files : CommittedFile(f)' = CommittedFile(f)
      BY <1>3, <2>1, <3>1, <3>2
    <3>4. RequestOf(tx[t]) = asked /\ RequestOf(tx'[t]) = [state |-> "refused"]
      BY <1>4, <3>1 DEF RequestOf
    <3>5. RequestOf(tx[t]).state = "asked"
      BY <3>4
    <3> QED BY <3>3, <3>4, <3>5
  <2>4. CASE Judged(t) /\ tx'[t].pc # "undo"
    <3>1. /\ Unsettled(t) /\ ~Unsettled(t)' /\ tx'[t].verdict = "allow" /\ disk' = disk
          /\ tx'[t].pc = "close" /\ tx[t].pc = "gate2" /\ Consistent(t)
      BY <1>1, <1>4, <2>4 DEF Judged, GateOf
    <3>2. disk[tx[t].file] = Effect(tx[t].op, tx[t].pre, tx[t].data)
      BY <1>1, <3>1 DEF AtomOf
    <3>3. \A f \in Files : CommittedFile(f)' =
            IF f = tx[t].file THEN Effect(tx[t].op, CommittedFile(f), tx[t].data)
                              ELSE CommittedFile(f)
      BY <1>3, <3>1, <3>2
    <3>4. RequestOf(tx[t]) = asked /\ RequestOf(tx'[t]) = [state |-> "granted"]
      BY <1>4, <3>1 DEF RequestOf
    <3>5. asked \in Atomic!Asked
      BY <1>1 DEF Atomic!Asked
    <3> QED BY <3>3, <3>4, <3>5
  <2>5. CASE Closed(t) /\ tx[t].verdict = "allow"
    <3>1. /\ ~Unsettled(t) /\ ~Unsettled(t)' /\ disk' = disk
          /\ RequestOf(tx'[t]) = RequestOf(tx[t])
      BY <1>4, <2>5 DEF Closed, RequestOf
    <3>2. \A f \in Files : CommittedFile(f)' = CommittedFile(f)
      BY <1>3, <3>1
    <3> QED BY <3>1, <3>2
  <2> QED BY <1>6, <2>2, <2>3, <2>4, <2>5 DEF Works
<1> QED BY <1>5, <1>6, AtomStep

(* Nothing in flight is ever past its record. *)
LEMMA AtomInvariant == AtomicServer => (Spec => []AtomInv)
<1> SUFFICES ASSUME AtomicServer PROVE Spec => []AtomInv
  OBVIOUS
<1>1. Init => AtomInv
  BY LlbAssumption DEF Init, AtomInv, AtomOf, NoSnap, Unbacked
<1>2. TypeOK /\ UndoInv /\ RollInv /\ GateInv /\ AtomInv /\ [Next]_vars => AtomInv'
  <2> SUFFICES ASSUME Before, AtomInv, [Next]_vars PROVE AtomInv'
    BY DEF Before
  <2>1. CASE UNCHANGED vars
    <3>1. /\ UNCHANGED <<disk, tx>>
          /\ \A t \in Txs : /\ Guarded(t)' <=> Guarded(t)
                            /\ Consistent(t)' <=> Consistent(t)
      BY <2>1 DEF vars, EntryCount, Guarded, NoSpillover, NotExecutable, TargetIntact,
                  Consistent, Exists
    <3> QED BY <3>1 DEF AtomInv, AtomOf
  <2>2. ~Outsider
    BY DEF Outsider, AtomicServer, Serial
  <2> QED BY <2>1, <2>2, AtomStep DEF Next, Acts
<1>3. (Spec => []UndoInv) /\ (Spec => []RollInv) /\ (Spec => []GateInv)
  BY UndoInvariant, RollInvariant, GateInvariant DEF AtomicServer, Serial
<1> QED BY <1>1, <1>2, <1>3, TypeInvariant, PTL DEF Spec

(* Each step of the server is a step of the atomic store, or none. *)
LEMMA AtomicStep ==
  ASSUME AtomicServer, Before, AtomInv, NEW t \in Txs, Acts(t)
  PROVE  [Atomic!Next]_(Atomic!vars)
<1> DEFINE F == [f \in Files |-> CommittedFile(f)]
           R == [u \in Txs |-> RequestOf(tx[u])]
<1>1. R' = [R EXCEPT ![t] = RequestOf(tx'[t])] /\ R[t] = RequestOf(tx[t])
  BY AtomStep
<1>2. ASSUME \A f \in Files : CommittedFile(f)' = CommittedFile(f)
      PROVE  F' = F
  BY <1>2
<1>3. ASSUME \A f \in Files : CommittedFile(f)' = CommittedFile(f),
             R[t].state \in {"open", "asked"}, RequestOf(tx'[t]) = [state |-> "refused"]
      PROVE  Atomic!Next
  BY <1>1, <1>2, <1>3 DEF Atomic!Next, Atomic!Refuse
<1>4. CASE /\ tx[t].pc = "idle"
           /\ \A f \in Files : CommittedFile(f)' = CommittedFile(f)
           /\ RequestOf(tx'[t]) \in Atomic!Asked \cup {[state |-> "refused"]}
  <2>1. R[t] = [state |-> "open"]
    <3>1. tx[t].verdict = "none"
      BY <1>4 DEF Before, GateInv, GateOf
    <3> QED BY <1>1, <1>4, <3>1 DEF RequestOf
  <2>2. CASE RequestOf(tx'[t]) \in Atomic!Asked
    <3>1. Atomic!Ask(t)
      <4>1. R[t] \in Atomic!Open
        BY <2>1 DEF Atomic!Open
      <4>2. R' \in {[R EXCEPT ![t] = r] : r \in Atomic!Asked}
        BY <1>1, <2>2
      <4> QED BY <1>2, <1>4, <4>1, <4>2 DEF Atomic!Ask
    <3> QED BY <3>1 DEF Atomic!Next
  <2>3. CASE RequestOf(tx'[t]) = [state |-> "refused"]
    BY <1>3, <1>4, <2>1, <2>3
  <2> QED BY <1>4, <2>2, <2>3
<1>5. CASE /\ \A f \in Files : CommittedFile(f)' = CommittedFile(f)
           /\ RequestOf(tx'[t]) = RequestOf(tx[t])
  <2>1. R' = R
    BY <1>1, <1>5
  <2> QED BY <1>2, <1>5, <2>1 DEF Atomic!vars
<1>6. CASE /\ RequestOf(tx[t]).state = "asked"
           /\ \A f \in Files : CommittedFile(f)' = CommittedFile(f)
           /\ RequestOf(tx'[t]) = [state |-> "refused"]
  BY <1>1, <1>3, <1>6
<1>7. CASE /\ RequestOf(tx[t]) \in Atomic!Asked
           /\ RequestOf(tx[t]).file = tx[t].file
           /\ RequestOf(tx[t]).op = tx[t].op /\ RequestOf(tx[t]).data = tx[t].data
           /\ \A f \in Files : CommittedFile(f)' =
                IF f = tx[t].file THEN Effect(tx[t].op, CommittedFile(f), tx[t].data)
                                  ELSE CommittedFile(f)
           /\ RequestOf(tx'[t]) = [state |-> "granted"]
  <2>1. F' = [F EXCEPT ![tx[t].file] = Effect(tx[t].op, F[tx[t].file], tx[t].data)]
    <3>1. tx[t].file \in Files
      BY DEF Before, TypeOK, Transaction
    <3> QED BY <1>7, <3>1
  <2>2. Atomic!Grant(t)
    BY <1>1, <1>7, <2>1 DEF Atomic!Grant
  <2> QED BY <2>2 DEF Atomic!Next
<1> QED BY <1>4, <1>5, <1>6, <1>7, ViewOfStep

(* An atomic server seen from outside: a target changes only when the      *)
(* verdict is allow, in one step, to what was declared, and a call that is *)
(* refused changes nothing, for any directory and any number of calls.     *)
THEOREM MutationsAreAtomic == AtomicServer => (Spec => ImplementsAtomic)
<1> SUFFICES ASSUME AtomicServer PROVE Spec => ImplementsAtomic
  OBVIOUS
<1>1. Init => Atomic!Init
  <2> SUFFICES ASSUME Init PROVE Atomic!Init
    OBVIOUS
  <2>1. \A t \in Txs : tx[t].pc = "idle" /\ tx[t].verdict = "none"
    BY DEF Init
  <2>2. \A f \in Files : CommittedFile(f) = disk[f] /\ disk[f] \in Content \cup {Absent}
    BY <2>1 DEF CommittedFile, Unsettled, InFlight, Init, Content
  <2>3. \A t \in Txs : RequestOf(tx[t]) = [state |-> "open"]
    BY <2>1 DEF RequestOf
  <2> QED BY <2>2, <2>3 DEF Atomic!Init, Atomic!Open
<1>2. TypeOK /\ UndoInv /\ RollInv /\ GateInv /\ AtomInv /\ [Next]_vars
        => [Atomic!Next]_(Atomic!vars)
  <2> SUFFICES ASSUME Before, AtomInv, [Next]_vars PROVE [Atomic!Next]_(Atomic!vars)
    BY DEF Before
  <2>1. CASE UNCHANGED vars
    BY <2>1 DEF vars, Atomic!vars, CommittedFile, Unsettled, InFlight
  <2>2. ~Outsider
    BY DEF Outsider, AtomicServer, Serial
  <2> QED BY <2>1, <2>2, AtomicStep DEF Next, Acts
<1>3. /\ (Spec => []UndoInv) /\ (Spec => []RollInv) /\ (Spec => []GateInv)
      /\ (Spec => []AtomInv)
  BY UndoInvariant, RollInvariant, GateInvariant, AtomInvariant DEF AtomicServer, Serial
<1> QED BY <1>1, <1>2, <1>3, TypeInvariant, PTL DEF Spec, ImplementsAtomic, Atomic!Spec
================================================================================
