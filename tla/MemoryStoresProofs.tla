------------------------- MODULE MemoryStoresProofs -------------------------
(***************************************************************************)
(* What the stores of the tools keep, for any number of processes,         *)
(* memories and entities and any number of accidents: the index finds what *)
(* was written, a memory is embedded once, quiet stores keep all, and a    *)
(* call that nothing overlapped brings the index up to date.               *)
(***************************************************************************)
EXTENDS MemoryStores, WellFoundedInduction, TLAPS

--------------------------------------------------------------------------------
(* A memory is on its way to the index. *)
Syncing(p) == proc[p].pc \in {"embed", "embedLf", "rebuild", "fillIndex"}

Contents(file) == {file[i] : i \in DOMAIN file}

Written == Contents(vault)

(* A memory is written once: who is about to write it is the only one.     *)
Unique ==
  /\ \A i, j \in DOMAIN vault : vault[i] \in Memories /\ vault[i] = vault[j] => i = j
  /\ \A p \in Procs : At(p, "record") => proc[p].memory \notin Written
  /\ \A p, q \in Procs :
       At(p, "record") /\ At(q, "record") /\ proc[p].memory = proc[q].memory => p = q

(* Every embedding, in the file or in hand, is of what the vault holds.    *)
Sourced ==
  /\ \A i \in DOMAIN embeddings : embeddings[i] \in Memories => embeddings[i] \in Written
  /\ \A p \in Procs : proc[p].records \subseteq Written
  /\ \A p \in Procs : \A i \in proc[p].missing : i \in DOMAIN vault /\ vault[i] \in Memories
  /\ \A p \in Procs : At(p, "embed") => proc[p].missing # {}
  /\ \A p \in Procs : At(p, "rebuild") \/ At(p, "fillIndex") => proc[p].missing = {}

(* A call that nothing overlapped is the only one under way.               *)
Alone ==
  /\ \A p, q \in Procs : Busy(p) /\ proc[p].alone /\ Busy(q) => p = q
  /\ "overlap" \notin accidents => \A p \in Procs : proc[p].alone

(* What such a call will embed has no embedding yet, unless they could not *)
(* be read, and with it the embeddings are complete.                       *)
Ahead ==
  \A p \in Procs : proc[p].alone /\ Syncing(p) =>
    /\ "unread" \notin accidents =>
         \A i \in proc[p].missing : vault[i] \notin Readable(embeddings)
    /\ Readable(vault) \subseteq proc[p].records \cup {vault[i] : i \in proc[p].missing}

SyncInv ==
  TypeOK /\ Unique /\ Sourced /\ Alone /\ Ahead /\ IndexFindsMemories /\ EmbeddedOnce

(* Without an accident a record stands after a line feed, and a line feed  *)
(* after a record; only who is to end a line sees it open.                 *)
Regular ==
  \A i \in DOMAIN vault :
    \/ vault[i] \in Memories /\ (i > 1 => vault[i - 1] = LineFeed)
    \/ vault[i] = LineFeed /\ i > 1 /\ vault[i - 1] \in Memories

Open == vault # <<>> /\ vault[Len(vault)] # LineFeed

Reporting(p) == At(p, "lineFeed") \/ At(p, "sync") \/ Syncing(p)

QuietInv ==
  accidents = {} =>
    /\ Regular
    /\ Open => \E p \in Procs : At(p, "lineFeed")
    /\ \A p \in Procs : At(p, "lineFeed") => Open
    /\ \A p \in Procs : Reporting(p) => proc[p].memory \in Written
    /\ reported \cap Memories \subseteq Written
    /\ graph = Torn => \E p \in Procs : At(p, "fillGraph")
    /\ \A p \in Procs : At(p, "rewrite") => proc[p].known = graph
    /\ \A p \in Procs : At(p, "fillGraph") =>
         graph = Torn /\ reported \cap Entities \subseteq proc[p].known
    /\ graph # Torn => reported \cap Entities \subseteq graph

--------------------------------------------------------------------------------
(* What an append adds to a file.                                          *)
LEMMA Appended ==
  ASSUME NEW file \in Seq(Pieces), NEW x \in Pieces
  PROVE  /\ Append(file, x) \in Seq(Pieces)
         /\ Len(Append(file, x)) = Len(file) + 1
         /\ DOMAIN Append(file, x) = 1 .. Len(file) + 1
         /\ DOMAIN file = 1 .. Len(file) /\ Len(file) \in Nat
         /\ \A i \in 1 .. Len(file) : Append(file, x)[i] = file[i]
         /\ Append(file, x)[Len(file) + 1] = x
OBVIOUS

(* A file after an append holds one piece more. *)
LEMMA ContentsAppended ==
  ASSUME NEW file \in Seq(Pieces), NEW x \in Pieces
  PROVE  Contents(Append(file, x)) = Contents(file) \cup {x}
<1>1. \A y : y \in Contents(Append(file, x)) => y \in Contents(file) \cup {x}
  BY Appended DEF Contents
<1>2. \A y : y \in Contents(file) \cup {x} => y \in Contents(Append(file, x))
  <2>1. ASSUME NEW i \in DOMAIN file PROVE file[i] \in Contents(Append(file, x))
    <3>1. i \in DOMAIN Append(file, x) /\ Append(file, x)[i] = file[i]
      BY Appended
    <3> QED BY <3>1 DEF Contents
  <2>2. x \in Contents(Append(file, x))
    <3>1. Len(file) + 1 \in DOMAIN Append(file, x)
      BY Appended
    <3> QED BY <3>1, Appended DEF Contents
  <2> QED BY <2>1, <2>2 DEF Contents
<1> QED BY <1>1, <1>2

(* An append adds no line but its own, which is there only after a line    *)
(* feed.                                                                   *)
LEMMA LinesAppended ==
  ASSUME NEW file \in Seq(Pieces), NEW x \in Pieces
  PROVE  /\ \A i \in Lines(Append(file, x)) :
              \/ i \in Lines(file) /\ Append(file, x)[i] = file[i]
              \/ i = Len(file) + 1 /\ x \in Memories
         /\ x = LineFeed => Lines(Append(file, x)) = Lines(file)
<1>0. /\ Decodes(Append(file, x)) => Decodes(file)
      /\ x = LineFeed /\ Decodes(file) => Decodes(Append(file, x))
  BY Appended, StoresAssumption DEF Decodes
<1>1. ASSUME NEW i \in Lines(Append(file, x)), i \in 1 .. Len(file)
      PROVE  i \in Lines(file) /\ Append(file, x)[i] = file[i]
  <2>1. Append(file, x)[i] = file[i] /\ (i > 1 => Append(file, x)[i - 1] = file[i - 1])
    BY <1>1, Appended
  <2>2. i < Len(file) => Append(file, x)[i + 1] = file[i + 1]
    BY <1>1, Appended
  <2>3. Decodes(file)
    BY <1>0, <1>1 DEF Lines
  <2> QED BY <1>1, <2>1, <2>2, <2>3, Appended DEF Lines
<1>2. ASSUME NEW i \in Lines(Append(file, x)), i \notin 1 .. Len(file)
      PROVE  i = Len(file) + 1 /\ x \in Memories
  BY <1>2, Appended DEF Lines
<1>3. ASSUME x = LineFeed, NEW i \in Lines(file)
      PROVE  i \in Lines(Append(file, x))
  <2>1. i \in 1 .. Len(file)
    BY Appended DEF Lines
  <2>2. Append(file, x)[i] = file[i] /\ (i > 1 => Append(file, x)[i - 1] = file[i - 1])
    BY <2>1, Appended
  <2>3. Append(file, x)[i + 1] = LineFeed
    <3>1. CASE i = Len(file)
      BY <3>1, <1>3, Appended
    <3>2. CASE i < Len(file)
      <4>1. file[i + 1] = LineFeed
        BY <3>2 DEF Lines
      <4> QED BY <4>1, <3>2, <2>1, Appended
    <3> QED BY <3>1, <3>2, <2>1, Appended
  <2>4. Decodes(Append(file, x))
    BY <1>0, <1>3 DEF Lines
  <2> QED BY <1>3, <2>1, <2>2, <2>3, <2>4, Appended DEF Lines
<1>4. x = LineFeed => x \notin Memories
  BY StoresAssumption
<1>5. x = LineFeed => \A i : i \in Lines(Append(file, x)) <=> i \in Lines(file)
  BY <1>1, <1>2, <1>3, <1>4
<1> QED BY <1>1, <1>2, <1>5

(* What can be read after an append.                                       *)
LEMMA ReadableAppended ==
  ASSUME NEW file \in Seq(Pieces), NEW x \in Pieces
  PROVE  /\ Readable(Append(file, x)) \subseteq Readable(file) \cup ({x} \cap Memories)
         /\ x = LineFeed => Readable(Append(file, x)) = Readable(file)
         /\ Readable(file) \subseteq Contents(file) \cap Memories
<1>1. Readable(Append(file, x)) \subseteq Readable(file) \cup ({x} \cap Memories)
  <2>1. ASSUME NEW i \in Lines(Append(file, x))
        PROVE  Append(file, x)[i] \in Readable(file) \cup ({x} \cap Memories)
    <3>1. CASE i \in Lines(file) /\ Append(file, x)[i] = file[i]
      BY <3>1 DEF Readable
    <3>2. CASE i = Len(file) + 1 /\ x \in Memories
      BY <3>2, Appended
    <3> QED BY <2>1, <3>1, <3>2, LinesAppended
  <2> QED BY <2>1 DEF Readable
<1>2. ASSUME x = LineFeed PROVE Readable(Append(file, x)) = Readable(file)
  <2>1. Lines(Append(file, x)) = Lines(file)
    BY <1>2, LinesAppended
  <2>2. \A i \in Lines(file) : Append(file, x)[i] = file[i]
    BY Appended DEF Lines
  <2> QED BY <2>1, <2>2 DEF Readable
<1>3. Readable(file) \subseteq Contents(file) \cap Memories
  BY DEF Readable, Contents, Lines
<1> QED BY <1>1, <1>2, <1>3

(* What the first of the places left to embed rests on. *)
Smaller == {ss \in Nat \X Nat : ss[1] < ss[2]}

(* A set of numbers that is not empty has a least one. *)
LEMMA LeastNumber ==
  ASSUME NEW A \in SUBSET Nat, A # {}
  PROVE  \E m \in A : \A k \in A : m <= k
<1>1. IsWellFoundedOn(Smaller, Nat)
  BY NatLessThanWellFounded, Zenon DEF OpToRel, Smaller
<1>2. PICK m \in A : \A k \in A : <<k, m>> \notin Smaller
  BY <1>1, WFMin
<1>3. ASSUME NEW k \in A, k < m PROVE FALSE
  <2>1. <<k, m>> \in Nat \X Nat /\ <<k, m>>[1] < <<k, m>>[2]
    BY <1>3
  <2>2. <<k, m>> \in Smaller
    BY <2>1, Zenon DEF Smaller
  <2> QED BY <1>2, <2>2
<1> QED BY <1>3

(* What a process is between two calls is a call of the right type. *)
LEMMA SomeNoCall == NoCall \in Call
<1>1. (CHOOSE m \in Memories : TRUE) \in Memories /\ (CHOOSE e \in Entities : TRUE) \in Entities
  BY StoresAssumption
<1> QED BY <1>1 DEF NoCall, Call, PCs

(* Everything is of its type in the beginning. *)
LEMMA InitTypes == Init => TypeOK
BY SomeNoCall, StoresAssumption DEF Init, TypeOK, Pieces

(* A step of a call under way changes that call, or ends it.               *)
Moves(p) ==
  /\ Busy(p)
  /\ proc'[p] \in Call
  /\ proc' = [proc EXCEPT ![p] = proc'[p]]
  /\ \/ proc'[p] = NoCall
     \/ /\ Busy(p)' /\ proc'[p].alone = proc[p].alone
        /\ proc'[p].memory = proc[p].memory /\ proc'[p].entity = proc[p].entity

(* An append that is interrupted leaves a file of pieces. *)
LEMMA Interrupts ==
  ASSUME NEW file \in Seq(Pieces), NEW after \in Interrupted(file)
  PROVE  after \in Seq(Pieces)
BY DEF Interrupted, Pieces

(* How each kind of step changes the call.                                 *)
LEMMA GoMoves ==
  ASSUME TypeOK, NEW p \in Procs, Busy(p), NEW pc \in PCs \ {"idle"}, Go(p, pc)
  PROVE  /\ Moves(p) /\ proc' \in [Procs -> Call]
         /\ proc'[p] = [proc[p] EXCEPT !.pc = pc]
<1>1. proc \in [Procs -> Call] /\ proc[p] \in Call
  BY DEF TypeOK
<1>2. proc' = [proc EXCEPT ![p] = [proc[p] EXCEPT !.pc = pc]]
  BY <1>1 DEF Go
<1>3. [proc[p] EXCEPT !.pc = pc] \in Call
  BY <1>1 DEF Call
<1> HIDE DEF Call
<1>4. proc'[p] = [proc[p] EXCEPT !.pc = pc] /\ proc' = [proc EXCEPT ![p] = proc'[p]]
  BY <1>1, <1>2
<1>5. proc' \in [Procs -> Call]
  BY <1>1, <1>2, <1>3
<1>6. Busy(p)' /\ proc'[p].alone = proc[p].alone /\ proc'[p].memory = proc[p].memory
      /\ proc'[p].entity = proc[p].entity
  BY <1>1, <1>4 DEF Busy, Call
<1> QED BY <1>3, <1>4, <1>5, <1>6 DEF Moves

(* A call that returns moves to no call. *)
LEMMA ReturnMoves ==
  ASSUME TypeOK, NEW p \in Procs, Busy(p), Return(p)
  PROVE  Moves(p) /\ proc' \in [Procs -> Call] /\ proc'[p] = NoCall
<1>1. proc \in [Procs -> Call]
  BY DEF TypeOK
<1>2. proc' = [proc EXCEPT ![p] = NoCall]
  BY DEF Return
<1> QED BY <1>1, <1>2, SomeNoCall DEF Moves

(* A step that goes on with the call, with other data in hand.             *)
Changes(p, pc, missing, records, known) ==
  proc' = [proc EXCEPT ![p] = [proc[p] EXCEPT !.pc = pc, !.missing = missing,
                                              !.records = records, !.known = known]]

(* A step that goes on keeps what it does not change. *)
LEMMA ChangeMoves ==
  ASSUME TypeOK, NEW p \in Procs, Busy(p), NEW pc \in PCs \ {"idle"},
         NEW missing \in SUBSET Nat, NEW records \in SUBSET Memories, NEW known \in SUBSET Entities,
         Changes(p, pc, missing, records, known)
  PROVE  /\ Moves(p) /\ proc' \in [Procs -> Call]
         /\ proc'[p].pc = pc /\ proc'[p].missing = missing /\ proc'[p].records = records
         /\ proc'[p].known = known
         /\ proc'[p].alone = proc[p].alone /\ proc'[p].memory = proc[p].memory
         /\ proc'[p].entity = proc[p].entity
<1>1. proc \in [Procs -> Call] /\ proc[p] \in Call
  BY DEF TypeOK
<1> DEFINE c == [proc[p] EXCEPT !.pc = pc, !.missing = missing, !.records = records,
                             !.known = known]
<1>2. c \in Call /\ c.pc = pc /\ c.missing = missing /\ c.records = records /\ c.known = known
      /\ c.alone = proc[p].alone /\ c.memory = proc[p].memory /\ c.entity = proc[p].entity
  BY <1>1 DEF Call
<1>3. proc' = [proc EXCEPT ![p] = c]
  BY DEF Changes
<1> HIDE DEF c, Call
<1>4. proc'[p] = c /\ proc' \in [Procs -> Call]
  BY <1>1, <1>2, <1>3
<1> QED BY <1>2, <1>3, <1>4 DEF Moves, Busy

(* What vault_sync_index finds, or that there is nothing to find. *)
LEMMA CompareMoves ==
  ASSUME TypeOK, NEW p \in Procs, At(p, "sync"), NEW have \in SUBSET Memories, Compare(p, have)
  PROVE  /\ Moves(p) /\ proc' \in [Procs -> Call]
         /\ \/ proc'[p] = NoCall /\ Secured(p)
            \/ /\ proc'[p].missing = {i \in Lines(vault) : vault[i] \notin have}
               /\ proc'[p].records = have
               /\ proc'[p].pc = IF proc'[p].missing = {} THEN "rebuild" ELSE "embed"
               /\ UNCHANGED reported
<1>1. proc \in [Procs -> Call] /\ proc[p] \in Call /\ Busy(p)
  BY DEF TypeOK, At, Busy
<1>2. CASE Lines(vault) = {}
  <2>1. Secured(p) /\ Return(p)
    BY <1>2 DEF Compare, GoOn
  <2> QED BY <1>1, <2>1, ReturnMoves
<1>3. CASE Lines(vault) # {}
  <2> DEFINE missing == {i \in Lines(vault) : vault[i] \notin have}
             pc      == IF missing = {} THEN "rebuild" ELSE "embed"
  <2>1. proc' = [proc EXCEPT ![p].pc = pc, ![p].missing = missing, ![p].records = have]
        /\ UNCHANGED reported
    BY <1>3 DEF Compare, GoOn
  <2>2. missing \in SUBSET Nat
    BY DEF Lines, TypeOK
  <2>3. pc \in PCs \ {"idle"}
    BY DEF PCs
  <2> HIDE DEF missing
  <2> DEFINE known == proc[p].known
  <2>4. known \in SUBSET Entities
    BY <1>1 DEF Call
  <2>5. Changes(p, pc, missing, have, known)
    BY <1>1, <2>1 DEF Call, Changes
  <2> HIDE DEF pc, known
  <2>6. /\ Moves(p) /\ proc' \in [Procs -> Call]
        /\ proc'[p].pc = pc /\ proc'[p].missing = missing /\ proc'[p].records = have
    BY <1>1, <2>2, <2>3, <2>4, <2>5, ChangeMoves
  <2> QED BY <2>1, <2>6 DEF pc, missing
<1> QED BY <1>2, <1>3

(* The least of the places that are left to embed.                         *)
LEMMA FirstIsOne ==
  ASSUME NEW places \in SUBSET Nat, places # {}
  PROVE  First(places) \in places
BY LeastNumber DEF First

(* What a process that embeds appends, and what it has left.               *)
Embeds(p, i) ==
  /\ i \in proc[p].missing
  /\ embeddings' = Append(embeddings, vault[i])
  /\ proc'[p].pc = "embedLf" /\ proc'[p].missing = proc[p].missing \ {i}
  /\ proc'[p].records = proc[p].records \cup {vault[i]}
  /\ proc'[p].alone = proc[p].alone /\ proc'[p].memory = proc[p].memory
  /\ UNCHANGED <<reported, accidents, faults>>

(* A request for an embedding succeeds, is refused, or its record is not written. *)
LEMMA EmbedMoves ==
  ASSUME TypeOK, Sourced, NEW p \in Procs, Embed(p)
  PROVE  /\ Moves(p) /\ proc' \in [Procs -> Call]
         /\ \/ \E i \in proc[p].missing : Embeds(p, i)
            \/ /\ proc'[p] = NoCall /\ Secured(p) /\ faults' \in 0 .. MaxFaults
               /\ \/ UNCHANGED <<embeddings, accidents>>
                  \/ WriteFails /\ embeddings' \in Interrupted(embeddings)
<1>1. proc \in [Procs -> Call] /\ proc[p] \in Call /\ Busy(p) /\ proc[p].missing \in SUBSET Nat
  BY DEF TypeOK, Embed, At, Busy, Call
<1> DEFINE i == First(proc[p].missing)
           m == vault[i]
<1>2. i \in proc[p].missing /\ m \in Memories
  <2>1. proc[p].missing # {}
    BY DEF Embed, Sourced
  <2>2. i \in proc[p].missing
    BY <1>1, <2>1, FirstIsOne
  <2> QED BY <2>2 DEF Sourced
<1>3. CASE /\ Fine /\ embeddings' = Append(embeddings, m)
           /\ proc' = [proc EXCEPT ![p].pc = "embedLf", ![p].missing = @ \ {i},
                                   ![p].records = @ \cup {m}]
           /\ UNCHANGED reported
  <2> DEFINE missing == proc[p].missing \ {i}
             records == proc[p].records \cup {m}
             known == proc[p].known
  <2>1. missing \in SUBSET Nat /\ records \in SUBSET Memories /\ known \in SUBSET Entities
    BY <1>1, <1>2 DEF Call
  <2>2. proc' = [proc EXCEPT ![p].pc = "embedLf", ![p].missing = missing, ![p].records = records]
    BY <1>1, <1>3 DEF Call
  <2> HIDE DEF missing, records, m, i
  <2>3. Changes(p, "embedLf", missing, records, known)
    BY <1>1, <2>2 DEF Call, Changes
  <2> HIDE DEF known
  <2>4. "embedLf" \in PCs \ {"idle"}
    BY DEF PCs
  <2>5. /\ Moves(p) /\ proc' \in [Procs -> Call]
        /\ proc'[p].pc = "embedLf" /\ proc'[p].missing = missing /\ proc'[p].records = records
        /\ proc'[p].alone = proc[p].alone /\ proc'[p].memory = proc[p].memory
    BY <1>1, <2>1, <2>3, <2>4, ChangeMoves
  <2>6. Embeds(p, i)
    BY <1>2, <1>3, <2>5 DEF Embeds, missing, records, m, Fine
  <2> QED BY <1>2, <2>5, <2>6
<1>4. CASE Refused /\ Secured(p) /\ Return(p) /\ UNCHANGED embeddings
  BY <1>1, <1>4, ReturnMoves, StoresAssumption DEF Refused, TypeOK
<1>5. CASE WriteFails /\ Secured(p) /\ Return(p) /\ embeddings' \in Interrupted(embeddings)
  BY <1>1, <1>5, ReturnMoves, StoresAssumption DEF WriteFails, TypeOK
<1> QED BY <1>3, <1>4, <1>5 DEF Embed

(* A call that begins overlaps those under way, and they know it.          *)
Begun(p, c) ==
  /\ ~Busy(p)
  /\ proc' \in [Procs -> Call]
  /\ proc'[p].pc = c.pc /\ proc'[p].memory = c.memory /\ proc'[p].entity = c.entity
  /\ proc'[p].missing = c.missing /\ proc'[p].records = c.records /\ proc'[p].known = c.known
  /\ proc'[p].alone => \A q \in Procs : ~Busy(q)
  /\ \A q \in Procs \ {p} :
       /\ proc'[q].pc = proc[q].pc /\ proc'[q].memory = proc[q].memory
       /\ proc'[q].entity = proc[q].entity /\ proc'[q].missing = proc[q].missing
       /\ proc'[q].records = proc[q].records /\ proc'[q].known = proc[q].known
       /\ IF Busy(q) THEN ~proc'[q].alone ELSE proc'[q] = proc[q]
  /\ \/ (\A q \in Procs : ~Busy(q)) /\ accidents' = accidents /\ proc'[p].alone
     \/ (\E q \in Procs : Busy(q)) /\ accidents' = accidents \cup {"overlap"}

(* What Begin says, field by field. *)
LEMMA BeginMoves ==
  ASSUME TypeOK, NEW p \in Procs, NEW c \in Call, c.pc # "idle", Begin(p, c)
  PROVE  Begun(p, c)
<1>1. proc \in [Procs -> Call]
  BY DEF TypeOK
<1> DEFINE others == {q \in Procs : Busy(q)}
<1>2. ~Busy(p) /\ p \notin others
  BY DEF Begin
<1>3. PICK b \in BOOLEAN : b = (others = {})
  OBVIOUS
<1>4. /\ proc' = [q \in Procs |->
           IF q = p THEN [c EXCEPT !.alone = b]
           ELSE IF q \in others THEN [proc[q] EXCEPT !.alone = FALSE]
           ELSE proc[q]]
      /\ accidents' = IF others = {} THEN accidents ELSE accidents \cup {"overlap"}
  BY <1>3, Zenon DEF Begin
<1>5. [c EXCEPT !.alone = b] \in Call
  BY DEF Call
<1>6. \A q \in Procs : [proc[q] EXCEPT !.alone = FALSE] \in Call
  BY <1>1 DEF Call
<1>7. others = {} <=> \A q \in Procs : ~Busy(q)
  OBVIOUS
<1>8. \A q \in Procs : q \in others <=> Busy(q)
  OBVIOUS
<1> HIDE DEF others
<1>9. proc' \in [Procs -> Call]
  <2> HIDE DEF Call
  <2> QED BY <1>1, <1>4, <1>5, <1>6
<1>10. proc'[p] = [c EXCEPT !.alone = b]
  BY <1>4
<1>11. /\ proc'[p].pc = c.pc /\ proc'[p].memory = c.memory /\ proc'[p].entity = c.entity
       /\ proc'[p].missing = c.missing /\ proc'[p].records = c.records /\ proc'[p].known = c.known
  BY <1>10 DEF Call
<1>12. proc'[p].alone = b
  BY <1>10 DEF Call
<1>13. proc'[p].alone <=> others = {}
  BY <1>12, <1>3, Zenon
<1>14. ASSUME NEW q \in Procs \ {p}
       PROVE  /\ proc'[q].pc = proc[q].pc /\ proc'[q].memory = proc[q].memory
              /\ proc'[q].entity = proc[q].entity /\ proc'[q].missing = proc[q].missing
              /\ proc'[q].records = proc[q].records /\ proc'[q].known = proc[q].known
              /\ IF Busy(q) THEN ~proc'[q].alone ELSE proc'[q] = proc[q]
  <2>1. CASE Busy(q)
    <3>1. proc'[q] = [proc[q] EXCEPT !.alone = FALSE]
      BY <1>4, <1>8, <2>1
    <3>2. proc[q] \in Call
      BY <1>1
    <3>3. proc'[q].alone = FALSE
      BY <3>1, <3>2 DEF Call
    <3> QED BY <2>1, <3>1, <3>2, <3>3 DEF Call
  <2>2. CASE ~Busy(q)
    BY <1>4, <1>8, <2>2
  <2> QED BY <2>1, <2>2
<1> QED BY <1>2, <1>4, <1>7, <1>9, <1>11, <1>13, <1>14 DEF Begun

(* A call of vault_write starts with nothing in hand. *)
LEMMA NewVaultCall ==
  ASSUME NEW pc \in PCs, NEW m \in Memories
  PROVE  /\ [NoCall EXCEPT !.pc = pc, !.memory = m] \in Call
         /\ [NoCall EXCEPT !.pc = pc, !.memory = m].pc = pc
         /\ [NoCall EXCEPT !.pc = pc, !.memory = m].memory = m
         /\ [NoCall EXCEPT !.pc = pc, !.memory = m].missing = {}
         /\ [NoCall EXCEPT !.pc = pc, !.memory = m].records = {}
<1>1. NoCall \in Call /\ NoCall.missing = {} /\ NoCall.records = {}
  BY SomeNoCall DEF NoCall
<1> QED BY <1>1 DEF Call

(* And so does a call of Memory. *)
LEMMA NewGraphCall ==
  ASSUME NEW pc \in PCs, NEW e \in Entities
  PROVE  /\ [NoCall EXCEPT !.pc = pc, !.entity = e] \in Call
         /\ [NoCall EXCEPT !.pc = pc, !.entity = e].pc = pc
         /\ [NoCall EXCEPT !.pc = pc, !.entity = e].missing = {}
         /\ [NoCall EXCEPT !.pc = pc, !.entity = e].records = {}
<1>1. NoCall \in Call /\ NoCall.missing = {} /\ NoCall.records = {}
  BY SomeNoCall DEF NoCall
<1> QED BY <1>1 DEF Call

(* run_vault_write begins a call. *)
LEMMA VaultWriteBegins ==
  ASSUME TypeOK, NEW p \in Procs, NEW m \in Memories, VaultWrite(p, m)
  PROVE  \E c \in Call : /\ c.pc = "record" /\ c.memory = m /\ c.missing = {} /\ c.records = {}
                         /\ Begun(p, c)
<1>1. "record" \in PCs
  BY DEF PCs
<1> DEFINE c == [NoCall EXCEPT !.pc = "record", !.memory = m]
<1>2. c \in Call /\ c.pc = "record" /\ c.memory = m /\ c.missing = {} /\ c.records = {}
  BY <1>1, NewVaultCall
<1>3. Begin(p, c)
  BY DEF VaultWrite
<1> HIDE DEF c
<1>4. Begun(p, c)
  BY <1>2, <1>3, BeginMoves
<1> QED BY <1>2, <1>4

(* run_memory begins a call. *)
LEMMA MemoryCreateBegins ==
  ASSUME TypeOK, NEW p \in Procs, NEW e \in Entities, MemoryCreate(p, e)
  PROVE  \E c \in Call : /\ c.pc = "readGraph" /\ c.missing = {} /\ c.records = {}
                         /\ Begun(p, c)
<1>1. "readGraph" \in PCs
  BY DEF PCs
<1> DEFINE c == [NoCall EXCEPT !.pc = "readGraph", !.entity = e]
<1>2. c \in Call /\ c.pc = "readGraph" /\ c.missing = {} /\ c.records = {}
  BY <1>1, NewGraphCall
<1>3. Begin(p, c)
  BY DEF MemoryCreate
<1> HIDE DEF c
<1>4. Begun(p, c)
  BY <1>2, <1>3, BeginMoves
<1> QED BY <1>2, <1>4

(* What run_memory has read. *)
LEMMA ReadGraphMoves ==
  ASSUME TypeOK, NEW p \in Procs, ReadGraph(p)
  PROVE  /\ Moves(p) /\ proc' \in [Procs -> Call]
         /\ proc'[p].pc = "rewrite" /\ proc'[p].known = IF graph = Torn THEN {} ELSE graph
         /\ proc'[p].missing = proc[p].missing /\ proc'[p].records = proc[p].records
<1>1. proc \in [Procs -> Call] /\ proc[p] \in Call /\ Busy(p) /\ "rewrite" \in PCs \ {"idle"}
  BY DEF TypeOK, ReadGraph, At, Busy, PCs
<1> DEFINE known == IF graph = Torn THEN {} ELSE graph
           missing == proc[p].missing
           records == proc[p].records
<1>2. known \in SUBSET Entities
  BY DEF TypeOK
<1>3. missing \in SUBSET Nat /\ records \in SUBSET Memories
  BY <1>1 DEF Call
<1>4. proc' = [proc EXCEPT ![p].pc = "rewrite", ![p].known = known]
  BY DEF ReadGraph
<1> HIDE DEF known
<1>5. Changes(p, "rewrite", missing, records, known)
  BY <1>1, <1>4 DEF Call, Changes
<1> DEFINE pc == "rewrite"
<1>6. Changes(p, pc, missing, records, known) /\ pc \in PCs \ {"idle"} /\ Busy(p)
  BY <1>1, <1>5
<1> HIDE DEF missing, records, pc
<1>7. /\ Moves(p) /\ proc' \in [Procs -> Call]
      /\ proc'[p].pc = pc /\ proc'[p].missing = missing /\ proc'[p].records = records
      /\ proc'[p].known = known
  BY <1>2, <1>3, <1>6, ChangeMoves
<1> QED BY <1>7 DEF known, missing, records, pc

--------------------------------------------------------------------------------
(* The steps, by what they leave behind.                                   *)
Same(p) ==
  /\ proc'[p].missing = proc[p].missing /\ proc'[p].records = proc[p].records
  /\ proc'[p].known = proc[p].known

Recorded(p) ==
  /\ At(p, "record") /\ proc'[p].pc = "lineFeed" /\ Same(p)
  /\ vault' = Append(vault, proc[p].memory)
  /\ UNCHANGED <<embeddings, index, graph, reported, accidents>>

Ended(p) ==
  /\ At(p, "lineFeed") /\ proc'[p].pc = "sync" /\ Same(p)
  /\ vault' = Append(vault, LineFeed)
  /\ UNCHANGED <<embeddings, index, graph, reported, accidents>>

(* A write fails, or the process dies. *)
Stopped(p) ==
  /\ proc'[p] = NoCall
  /\ accidents \subseteq accidents' /\ accidents' \subseteq accidents \cup {"ioError", "death"}
  /\ accidents' # {}
  /\ vault' \in Interrupted(vault) /\ embeddings' \in Interrupted(embeddings)
  /\ index' \in {index, Torn} /\ graph' \in {graph, Torn}
  /\ reported \subseteq reported' /\ reported' \subseteq reported \cup {proc[p].memory}

(* Secured without an embedding of its own, or with. *)
Left(p) ==
  /\ At(p, "sync") \/ At(p, "embed") \/ At(p, "fillIndex")
  /\ proc'[p] = NoCall /\ Secured(p)
  /\ UNCHANGED <<vault, embeddings, graph>>
  /\ accidents' \in {accidents, accidents \cup {"unread"}}
  /\ index' = index \/ (At(p, "fillIndex") /\ index' \in {Torn, proc[p].records})

Compared(p) ==
  /\ At(p, "sync")
  /\ \/ proc'[p].records = Readable(embeddings) /\ accidents' = accidents
     \/ proc'[p].records = {} /\ accidents' = accidents \cup {"unread"}
  /\ proc'[p].missing = {i \in Lines(vault) : vault[i] \notin proc'[p].records}
  /\ proc'[p].pc = IF proc'[p].missing = {} THEN "rebuild" ELSE "embed"
  /\ UNCHANGED <<vault, embeddings, index, graph, reported>>

Embedded(p) ==
  /\ At(p, "embed") /\ \E i \in proc[p].missing : Embeds(p, i)
  /\ UNCHANGED <<vault, index, graph>>

EmbedEnded(p) ==
  /\ At(p, "embedLf") /\ Same(p)
  /\ proc'[p].pc = IF proc[p].missing = {} THEN "rebuild" ELSE "embed"
  /\ embeddings' = Append(embeddings, LineFeed)
  /\ UNCHANGED <<vault, index, graph, reported, accidents>>

Emptied(p) ==
  /\ At(p, "rebuild") /\ proc'[p].pc = "fillIndex" /\ Same(p) /\ index' = Torn
  /\ UNCHANGED <<vault, embeddings, graph, reported, accidents>>

GraphRead(p) ==
  /\ At(p, "readGraph") /\ proc'[p].pc = "rewrite"
  /\ proc'[p].known = IF graph = Torn THEN {} ELSE graph
  /\ proc'[p].missing = proc[p].missing /\ proc'[p].records = proc[p].records
  /\ UNCHANGED <<vault, embeddings, index, graph, reported, accidents>>

GraphEmptied(p) ==
  /\ At(p, "rewrite") /\ proc'[p].pc = "fillGraph" /\ Same(p) /\ graph' = Torn
  /\ UNCHANGED <<vault, embeddings, index, reported, accidents>>

GraphFilled(p) ==
  /\ At(p, "fillGraph") /\ proc'[p] = NoCall
  /\ graph' \in Filled(graph, proc[p].known \cup {proc[p].entity})
  /\ reported' = reported \cup {proc[p].entity}
  /\ UNCHANGED <<vault, embeddings, index, accidents>>

Proceeds(p) ==
  \/ Recorded(p) \/ Ended(p) \/ Stopped(p) \/ Left(p) \/ Compared(p) \/ Embedded(p)
  \/ EmbedEnded(p) \/ Emptied(p) \/ GraphRead(p) \/ GraphEmptied(p) \/ GraphFilled(p)

Begins(p) ==
  \E c \in Call :
    /\ Begun(p, c) /\ c.missing = {} /\ c.records = {}
    /\ UNCHANGED <<vault, embeddings, index, graph, reported>>
    /\ \/ c.pc = "record" /\ c.memory \notin Written
          /\ \A q \in Procs : At(q, "record") => proc[q].memory # c.memory
       \/ c.pc = "readGraph"

Goes == proc' \in [Procs -> Call] /\ faults' \in 0 .. MaxFaults

(* The count of faults keeps its bound. *)
LEMMA FaultsBounded ==
  ASSUME TypeOK
  PROVE  /\ Refused => faults' \in 0 .. MaxFaults
         /\ WriteFails \/ ReadFails => faults' \in 0 .. MaxFaults
         /\ UNCHANGED faults => faults' \in 0 .. MaxFaults
BY StoresAssumption DEF TypeOK, Refused, WriteFails, ReadFails

(* A step that goes on, by what it keeps. *)
LEMMA GoSteps ==
  ASSUME TypeOK, NEW p \in Procs, Busy(p), NEW pc \in PCs \ {"idle"}, Go(p, pc)
  PROVE  /\ Moves(p) /\ proc' \in [Procs -> Call] /\ proc'[p].pc = pc /\ Same(p)
<1>1. Moves(p) /\ proc' \in [Procs -> Call] /\ proc'[p] = [proc[p] EXCEPT !.pc = pc]
  BY GoMoves
<1>2. proc[p] \in Call
  BY DEF TypeOK
<1> QED BY <1>1, <1>2 DEF Same, Call

(* A failed write ends the call. *)
LEMMA FailureStops ==
  ASSUME TypeOK, NEW p \in Procs, Busy(p), Return(p), WriteFails,
         vault' \in Interrupted(vault), embeddings' \in Interrupted(embeddings),
         index' \in {index, Torn}, graph' \in {graph, Torn},
         reported \subseteq reported', reported' \subseteq reported \cup {proc[p].memory}
  PROVE  Moves(p) /\ Goes /\ Stopped(p)
<1>1. Moves(p) /\ proc' \in [Procs -> Call] /\ proc'[p] = NoCall
  BY ReturnMoves
<1>2. accidents' = accidents \cup {"ioError"}
  BY DEF WriteFails
<1> QED BY <1>1, <1>2, FaultsBounded DEF Goes, Stopped

(* A file that is left alone. *)
LEMMA Uninterrupted ==
  ASSUME NEW file
  PROVE  file \in Interrupted(file)
BY DEF Interrupted

(* WriteRecord is one of these steps: the record. *)
LEMMA WriteRecordProceeds ==
  ASSUME TypeOK, NEW p \in Procs, WriteRecord(p)
  PROVE  Moves(p) /\ Goes /\ Proceeds(p)
<1>1. At(p, "record") /\ Busy(p) /\ UNCHANGED <<embeddings, index, graph, reported>>
  BY DEF WriteRecord, At, Busy
<1>2. CASE Fine /\ vault' = Append(vault, proc[p].memory) /\ Go(p, "lineFeed")
  <2>1. "lineFeed" \in PCs \ {"idle"}
    BY DEF PCs
  <2>2. /\ Moves(p) /\ proc' \in [Procs -> Call] /\ proc'[p].pc = "lineFeed" /\ Same(p)
    BY <1>1, <1>2, <2>1, GoSteps
  <2> QED BY <1>1, <1>2, <2>2, FaultsBounded DEF Goes, Proceeds, Recorded, Fine
<1>3. CASE WriteFails /\ vault' \in Interrupted(vault) /\ Return(p)
  BY <1>1, <1>3, FailureStops, Uninterrupted DEF Proceeds
<1> QED BY <1>2, <1>3 DEF WriteRecord

(* WriteLineFeed is one of these steps: the line feed. *)
LEMMA WriteLineFeedProceeds ==
  ASSUME TypeOK, NEW p \in Procs, WriteLineFeed(p)
  PROVE  Moves(p) /\ Goes /\ Proceeds(p)
<1>1. At(p, "lineFeed") /\ Busy(p) /\ UNCHANGED <<embeddings, index, graph, reported>>
  BY DEF WriteLineFeed, At, Busy
<1>2. CASE Fine /\ vault' = Append(vault, LineFeed) /\ Go(p, "sync")
  <2>1. "sync" \in PCs \ {"idle"}
    BY DEF PCs
  <2>2. /\ Moves(p) /\ proc' \in [Procs -> Call] /\ proc'[p].pc = "sync" /\ Same(p)
    BY <1>1, <1>2, <2>1, GoSteps
  <2> QED BY <1>1, <1>2, <2>2, FaultsBounded DEF Goes, Proceeds, Ended, Fine
<1>3. CASE WriteFails /\ UNCHANGED vault /\ Return(p)
  BY <1>1, <1>3, FailureStops, Uninterrupted DEF Proceeds
<1> QED BY <1>2, <1>3 DEF WriteLineFeed

(* ReadVault is one of these steps: both files are read, or one of them is not. *)
LEMMA ReadVaultProceeds ==
  ASSUME TypeOK, NEW p \in Procs, ReadVault(p)
  PROVE  Moves(p) /\ Goes /\ Proceeds(p)
<1>1. At(p, "sync") /\ Busy(p) /\ UNCHANGED <<vault, embeddings, index, graph>>
  BY DEF ReadVault, At, Busy
<1>2. Readable(embeddings) \in SUBSET Memories
  BY DEF Readable, Lines
<1>3. ASSUME NEW have \in SUBSET Memories, Compare(p, have), faults' \in 0 .. MaxFaults,
             \/ have = Readable(embeddings) /\ accidents' = accidents
             \/ have = {} /\ accidents' = accidents \cup {"unread"}
      PROVE  Moves(p) /\ Goes /\ Proceeds(p)
  <2>1. Moves(p) /\ Goes
    BY <1>1, <1>3, CompareMoves DEF Goes
  <2>2. CASE proc'[p] = NoCall /\ Secured(p)
    <3>1. Left(p)
      BY <1>1, <1>3, <2>2 DEF Left
    <3> QED BY <2>1, <3>1 DEF Proceeds
  <2>3. CASE /\ proc'[p].missing = {i \in Lines(vault) : vault[i] \notin have}
             /\ proc'[p].records = have
             /\ proc'[p].pc = IF proc'[p].missing = {} THEN "rebuild" ELSE "embed"
             /\ UNCHANGED reported
    <3>1. Compared(p)
      BY <1>1, <1>3, <2>3 DEF Compared
    <3> QED BY <2>1, <3>1 DEF Proceeds
  <2> QED BY <1>1, <1>3, <2>2, <2>3, CompareMoves
<1>4. CASE Fine /\ Compare(p, Readable(embeddings))
  BY <1>2, <1>3, <1>4, FaultsBounded DEF Fine
<1>5. CASE Refused /\ Secured(p) /\ Return(p)
  <2>1. Moves(p) /\ Goes /\ proc'[p] = NoCall
    BY <1>1, <1>5, ReturnMoves, FaultsBounded DEF Goes
  <2>2. Left(p)
    BY <1>1, <1>5, <2>1 DEF Left, Refused
  <2> QED BY <2>1, <2>2 DEF Proceeds
<1>6. CASE ReadFails /\ Compare(p, {})
  BY <1>3, <1>6, FaultsBounded DEF ReadFails
<1> QED BY <1>4, <1>5, <1>6 DEF ReadVault

(* Embed is one of these steps: one embedding. *)
LEMMA EmbedProceeds ==
  ASSUME TypeOK, Sourced, NEW p \in Procs, Embed(p)
  PROVE  Moves(p) /\ Goes /\ Proceeds(p)
<1>1. At(p, "embed") /\ UNCHANGED <<vault, index, graph>>
  BY DEF Embed
<1>2. Moves(p) /\ proc' \in [Procs -> Call]
  BY EmbedMoves
<1>3. CASE \E i \in proc[p].missing : Embeds(p, i)
  <2>1. faults' = faults
    BY <1>3 DEF Embeds
  <2> QED BY <1>1, <1>2, <1>3, <2>1, FaultsBounded DEF Proceeds, Embedded, Goes
<1>4. CASE /\ proc'[p] = NoCall /\ Secured(p) /\ faults' \in 0 .. MaxFaults
           /\ \/ UNCHANGED <<embeddings, accidents>>
              \/ WriteFails /\ embeddings' \in Interrupted(embeddings)
  <2>1. CASE UNCHANGED <<embeddings, accidents>>
    <3>1. Left(p)
      BY <1>1, <1>4, <2>1 DEF Left
    <3> QED BY <1>2, <1>4, <3>1 DEF Proceeds, Goes
  <2>2. CASE WriteFails /\ embeddings' \in Interrupted(embeddings)
    <3>1. Stopped(p)
      BY <1>1, <1>4, <2>2, Uninterrupted DEF Stopped, WriteFails, Secured
    <3> QED BY <1>2, <1>4, <3>1 DEF Proceeds, Goes
  <2> QED BY <1>4, <2>1, <2>2
<1> QED BY <1>3, <1>4, EmbedMoves

(* EmbedLineFeed is one of these steps: the end of its line. *)
LEMMA EmbedLineFeedProceeds ==
  ASSUME TypeOK, NEW p \in Procs, EmbedLineFeed(p)
  PROVE  Moves(p) /\ Goes /\ Proceeds(p)
<1>1. At(p, "embedLf") /\ Busy(p) /\ UNCHANGED <<vault, index, graph>>
  BY DEF EmbedLineFeed, At, Busy
<1>2. CASE /\ Fine
           /\ embeddings' = Append(embeddings, LineFeed)
           /\ Go(p, IF proc[p].missing = {} THEN "rebuild" ELSE "embed")
           /\ UNCHANGED reported
  <2> DEFINE pc == IF proc[p].missing = {} THEN "rebuild" ELSE "embed"
  <2>1. pc \in PCs \ {"idle"} /\ Go(p, pc)
    BY <1>2 DEF PCs
  <2> HIDE DEF pc
  <2>2. /\ Moves(p) /\ proc' \in [Procs -> Call] /\ proc'[p].pc = pc /\ Same(p)
    BY <1>1, <2>1, GoSteps
  <2> QED BY <1>1, <1>2, <2>2, FaultsBounded DEF Goes, Proceeds, EmbedEnded, Fine, pc
<1>3. CASE WriteFails /\ Secured(p) /\ Return(p) /\ UNCHANGED embeddings
  BY <1>1, <1>3, FailureStops, Uninterrupted DEF Proceeds, Secured
<1> QED BY <1>2, <1>3 DEF EmbedLineFeed

(* Rebuild is one of these steps: the index is truncated. *)
LEMMA RebuildProceeds ==
  ASSUME TypeOK, NEW p \in Procs, Rebuild(p)
  PROVE  Moves(p) /\ Goes /\ Proceeds(p)
<1>1. At(p, "rebuild") /\ Busy(p) /\ UNCHANGED <<vault, embeddings, graph>>
  BY DEF Rebuild, At, Busy
<1>2. CASE Fine /\ index' = Torn /\ Go(p, "fillIndex") /\ UNCHANGED reported
  <2>1. "fillIndex" \in PCs \ {"idle"}
    BY DEF PCs
  <2>2. /\ Moves(p) /\ proc' \in [Procs -> Call] /\ proc'[p].pc = "fillIndex" /\ Same(p)
    BY <1>1, <1>2, <2>1, GoSteps
  <2> QED BY <1>1, <1>2, <2>2, FaultsBounded DEF Goes, Proceeds, Emptied, Fine
<1>3. CASE WriteFails /\ Secured(p) /\ Return(p) /\ UNCHANGED index
  BY <1>1, <1>3, FailureStops, Uninterrupted DEF Proceeds, Secured
<1> QED BY <1>2, <1>3 DEF Rebuild

(* FillIndex is one of these steps: the index is written. *)
LEMMA FillIndexProceeds ==
  ASSUME TypeOK, NEW p \in Procs, FillIndex(p)
  PROVE  Moves(p) /\ Goes /\ Proceeds(p)
<1>1. /\ At(p, "fillIndex") /\ Busy(p) /\ UNCHANGED <<vault, embeddings, graph>>
      /\ Secured(p) /\ Return(p)
  BY DEF FillIndex, At, Busy
<1>2. CASE Fine /\ index' \in Filled(index, proc[p].records)
  <2>1. Moves(p) /\ proc' \in [Procs -> Call] /\ proc'[p] = NoCall
    BY <1>1, ReturnMoves
  <2> QED BY <1>1, <1>2, <2>1, FaultsBounded DEF Goes, Proceeds, Left, Fine, Filled
<1>3. CASE WriteFails /\ index' = Torn
  BY <1>1, <1>3, FailureStops, Uninterrupted DEF Proceeds, Secured
<1> QED BY <1>2, <1>3 DEF FillIndex

(* ReadGraph is one of these steps: the graph is read. *)
LEMMA ReadGraphProceeds ==
  ASSUME TypeOK, NEW p \in Procs, ReadGraph(p)
  PROVE  Moves(p) /\ Goes /\ Proceeds(p)
BY ReadGraphMoves, FaultsBounded DEF ReadGraph, Goes, Proceeds, GraphRead

(* RewriteGraph is one of these steps: the graph is truncated. *)
LEMMA RewriteGraphProceeds ==
  ASSUME TypeOK, NEW p \in Procs, RewriteGraph(p)
  PROVE  Moves(p) /\ Goes /\ Proceeds(p)
<1>1. At(p, "rewrite") /\ Busy(p) /\ UNCHANGED <<vault, embeddings, index, reported>>
  BY DEF RewriteGraph, At, Busy
<1>2. CASE Fine /\ graph' = Torn /\ Go(p, "fillGraph")
  <2>1. "fillGraph" \in PCs \ {"idle"}
    BY DEF PCs
  <2>2. /\ Moves(p) /\ proc' \in [Procs -> Call] /\ proc'[p].pc = "fillGraph" /\ Same(p)
    BY <1>1, <1>2, <2>1, GoSteps
  <2> QED BY <1>1, <1>2, <2>2, FaultsBounded DEF Goes, Proceeds, GraphEmptied, Fine
<1>3. CASE WriteFails /\ Return(p) /\ UNCHANGED graph
  BY <1>1, <1>3, FailureStops, Uninterrupted DEF Proceeds
<1> QED BY <1>2, <1>3 DEF RewriteGraph

(* FillGraph is one of these steps: the graph is written. *)
LEMMA FillGraphProceeds ==
  ASSUME TypeOK, NEW p \in Procs, FillGraph(p)
  PROVE  Moves(p) /\ Goes /\ Proceeds(p)
<1>1. At(p, "fillGraph") /\ Busy(p) /\ Return(p) /\ UNCHANGED <<vault, embeddings, index>>
  BY DEF FillGraph, At, Busy
<1>2. CASE /\ Fine
           /\ graph' \in Filled(graph, proc[p].known \cup {proc[p].entity})
           /\ reported' = reported \cup {proc[p].entity}
  <2>1. Moves(p) /\ proc' \in [Procs -> Call] /\ proc'[p] = NoCall
    BY <1>1, ReturnMoves
  <2> QED BY <1>1, <1>2, <2>1, FaultsBounded DEF Goes, Proceeds, GraphFilled, Fine
<1>3. CASE WriteFails /\ graph' = Torn /\ UNCHANGED reported
  BY <1>1, <1>3, FailureStops, Uninterrupted DEF Proceeds
<1> QED BY <1>2, <1>3 DEF FillGraph

(* Die is one of these steps: the process dies. *)
LEMMA DieProceeds ==
  ASSUME TypeOK, NEW p \in Procs, Die(p)
  PROVE  Moves(p) /\ Goes /\ Proceeds(p)
<1>1. Moves(p) /\ proc' \in [Procs -> Call] /\ proc'[p] = NoCall
  BY ReturnMoves DEF Die
<1>2. vault' \in Interrupted(vault) /\ embeddings' \in Interrupted(embeddings)
  BY Uninterrupted DEF Die
<1>3. accidents' = accidents \cup {"death"} /\ UNCHANGED <<index, graph, reported>>
  BY DEF Die
<1>4. faults' \in 0 .. MaxFaults
  BY StoresAssumption DEF Die, TypeOK
<1>5. Stopped(p)
  BY <1>1, <1>2, <1>3 DEF Stopped
<1> QED BY <1>1, <1>4, <1>5 DEF Goes, Proceeds

(* Every step begins a call, goes on with one, or changes nothing.         *)
LEMMA StepsProceed ==
  ASSUME TypeOK, Sourced, Next
  PROVE  \E p \in Procs : Goes /\ (Begins(p) \/ (Moves(p) /\ Proceeds(p)))
<1>1. PICK p \in Procs :
        \/ \E m \in Memories : VaultWrite(p, m)
        \/ \E e \in Entities : MemoryCreate(p, e)
        \/ VaultStep(p) \/ GraphStep(p) \/ Die(p)
  BY DEF Next
<1>2. ASSUME NEW m \in Memories, VaultWrite(p, m) PROVE Goes /\ Begins(p)
  <2>1. PICK c \in Call : /\ c.pc = "record" /\ c.memory = m /\ c.missing = {} /\ c.records = {}
                          /\ Begun(p, c)
    BY <1>2, VaultWriteBegins
  <2>2. m \notin Written /\ \A q \in Procs : At(q, "record") => proc[q].memory # m
    BY <1>2 DEF VaultWrite, Written, Contents
  <2>3. UNCHANGED <<vault, embeddings, index, graph, reported, faults>>
    BY <1>2 DEF VaultWrite
  <2>4. Goes
    BY <2>1, <2>3, FaultsBounded DEF Goes, Begun
  <2>5. Begins(p)
    BY <2>1, <2>2, <2>3 DEF Begins
  <2> QED BY <2>4, <2>5
<1>3. ASSUME NEW e \in Entities, MemoryCreate(p, e) PROVE Goes /\ Begins(p)
  <2>1. PICK c \in Call : /\ c.pc = "readGraph" /\ c.missing = {} /\ c.records = {}
                          /\ Begun(p, c)
    BY <1>3, MemoryCreateBegins
  <2>2. UNCHANGED <<vault, embeddings, index, graph, reported, faults>>
    BY <1>3 DEF MemoryCreate
  <2>3. Goes
    BY <2>1, <2>2, FaultsBounded DEF Goes, Begun
  <2>4. Begins(p)
    BY <2>1, <2>2 DEF Begins
  <2> QED BY <2>3, <2>4
<1>4. CASE VaultStep(p)
  BY <1>4, WriteRecordProceeds, WriteLineFeedProceeds, ReadVaultProceeds, EmbedProceeds,
     EmbedLineFeedProceeds, RebuildProceeds, FillIndexProceeds DEF VaultStep
<1>5. CASE GraphStep(p)
  BY <1>5, ReadGraphProceeds, RewriteGraphProceeds, FillGraphProceeds DEF GraphStep
<1>6. CASE Die(p)
  BY <1>6, DieProceeds
<1> QED BY <1>1, <1>2, <1>3, <1>4, <1>5, <1>6

(* The calls of the others stay as they are. *)
LEMMA OthersStay ==
  ASSUME TypeOK, NEW p \in Procs, Moves(p)
  PROVE  \A q \in Procs \ {p} : proc'[q] = proc[q]
<1>1. proc \in [Procs -> Call] /\ proc' = [proc EXCEPT ![p] = proc'[p]]
  BY DEF TypeOK, Moves
<1> QED BY <1>1

(* Between two calls nothing is in hand. *)
LEMMA IdleNoCall == NoCall.pc = "idle" /\ NoCall.alone /\ NoCall.missing = {} /\ NoCall.records = {}
BY DEF NoCall

(* What the steps append, seen from the files.                             *)
LEMMA FilesGrow ==
  ASSUME TypeOK, Sourced, NEW p \in Procs, Proceeds(p)
  PROVE  /\ \/ vault' = vault
            \/ Stopped(p) /\ \E x \in {Torn, Split} : vault' = Append(vault, x)
            \/ vault' = Append(vault, LineFeed) /\ Ended(p)
            \/ vault' = Append(vault, proc[p].memory) /\ Recorded(p)
         /\ \/ embeddings' = embeddings
            \/ Stopped(p) /\ \E x \in {Torn, Split} : embeddings' = Append(embeddings, x)
            \/ embeddings' = Append(embeddings, LineFeed) /\ EmbedEnded(p)
            \/ \E i \in proc[p].missing : embeddings' = Append(embeddings, vault[i]) /\ Embedded(p)
<1>1. CASE Stopped(p)
  BY <1>1 DEF Stopped, Interrupted
<1>2. CASE Embedded(p)
  BY <1>2 DEF Embedded, Embeds
<1>3. CASE Recorded(p) \/ Ended(p) \/ Left(p) \/ Compared(p) \/ EmbedEnded(p)
  BY <1>3 DEF Recorded, Ended, Left, Compared, EmbedEnded
<1>4. CASE Emptied(p) \/ GraphRead(p) \/ GraphEmptied(p) \/ GraphFilled(p)
  BY <1>4 DEF Emptied, GraphRead, GraphEmptied, GraphFilled
<1> QED BY <1>1, <1>2, <1>3, <1>4 DEF Proceeds

(* The files hold pieces. *)
LEMMA FilesTyped ==
  ASSUME TypeOK, Sourced, NEW p \in Procs, Proceeds(p)
  PROVE  vault' \in Seq(Pieces) /\ embeddings' \in Seq(Pieces)
<1>1. /\ vault \in Seq(Pieces) /\ embeddings \in Seq(Pieces)
      /\ Torn \in Pieces /\ Split \in Pieces /\ LineFeed \in Pieces
  BY DEF TypeOK, Pieces
<1>2. proc[p].memory \in Pieces
  BY DEF TypeOK, Call, Pieces
<1>3. \A i \in proc[p].missing : vault[i] \in Pieces
  BY DEF Sourced, Pieces
<1>4. \A x \in Pieces : /\ Append(vault, x) \in Seq(Pieces)
                       /\ Append(embeddings, x) \in Seq(Pieces)
  BY <1>1, Appended
<1>5. vault' \in Seq(Pieces)
  <2>1. vault' \in {vault} \cup {Append(vault, x) : x \in {Torn, Split, LineFeed, proc[p].memory}}
    BY FilesGrow
  <2>2. {Torn, Split, LineFeed, proc[p].memory} \subseteq Pieces
    BY <1>1, <1>2
  <2> QED BY <1>1, <1>4, <2>1, <2>2
<1>6. embeddings' \in Seq(Pieces)
  <2>1. CASE \E i \in proc[p].missing : embeddings' = Append(embeddings, vault[i])
    BY <1>3, <1>4, <2>1
  <2>2. CASE embeddings' \in {embeddings, Append(embeddings, Torn), Append(embeddings, Split),
                              Append(embeddings, LineFeed)}
    BY <1>1, <1>4, <2>2
  <2> QED BY <2>1, <2>2, FilesGrow
<1> QED BY <1>5, <1>6

(* The index, the graph and the histories keep their types. *)
LEMMA RestTyped ==
  ASSUME TypeOK, NEW p \in Procs, Proceeds(p)
  PROVE  /\ index' = Torn \/ index' \subseteq Memories
         /\ graph' = Torn \/ graph' \subseteq Entities
         /\ reported' \subseteq Memories \cup Entities
         /\ accidents' \subseteq {"overlap", "ioError", "unread", "death"}
<1>1. /\ proc[p].records \subseteq Memories /\ proc[p].known \subseteq Entities
      /\ proc[p].memory \in Memories /\ proc[p].entity \in Entities
  BY DEF TypeOK, Call
<1>2. /\ index = Torn \/ index \subseteq Memories
      /\ graph = Torn \/ graph \subseteq Entities
      /\ reported \subseteq Memories \cup Entities
      /\ accidents \subseteq {"overlap", "ioError", "unread", "death"}
  BY DEF TypeOK
<1>3. CASE Stopped(p)
  BY <1>1, <1>2, <1>3 DEF Stopped
<1>4. CASE Left(p)
  BY <1>1, <1>2, <1>4 DEF Left, Secured
<1>5. CASE Recorded(p) \/ Ended(p) \/ Compared(p) \/ EmbedEnded(p)
  BY <1>2, <1>5 DEF Recorded, Ended, Compared, EmbedEnded
<1>6. CASE Embedded(p)
  BY <1>2, <1>6 DEF Embedded, Embeds
<1>7. CASE Emptied(p) \/ GraphRead(p) \/ GraphEmptied(p)
  BY <1>2, <1>7 DEF Emptied, GraphRead, GraphEmptied
<1>8. CASE GraphFilled(p)
  BY <1>1, <1>2, <1>8 DEF GraphFilled, Filled
<1> QED BY <1>3, <1>4, <1>5, <1>6, <1>7, <1>8 DEF Proceeds

(* Every step keeps the types. *)
LEMMA TypesStep ==
  ASSUME TypeOK, Sourced, NEW p \in Procs, Goes, Begins(p) \/ (Moves(p) /\ Proceeds(p))
  PROVE  TypeOK'
<1>1. CASE Begins(p)
  <2>1. /\ UNCHANGED <<vault, embeddings, index, graph, reported>>
        /\ accidents' = accidents \/ accidents' = accidents \cup {"overlap"}
    BY <1>1 DEF Begins, Begun
  <2> QED BY <2>1 DEF TypeOK, Goes
<1>2. CASE Proceeds(p)
  BY <1>2, FilesTyped, RestTyped DEF TypeOK, Goes
<1> QED BY <1>1, <1>2

(* No accident is forgotten, and only a call that begins overlaps. *)
LEMMA AccidentsStay ==
  ASSUME NEW p \in Procs, Proceeds(p)
  PROVE  accidents \subseteq accidents' /\ ("overlap" \in accidents' => "overlap" \in accidents)
<1>1. CASE Stopped(p)
  BY <1>1 DEF Stopped
<1>2. CASE Embedded(p)
  BY <1>2 DEF Embedded, Embeds
<1> QED
  BY <1>1, <1>2 DEF Proceeds, Recorded, Ended, Left, Compared, EmbedEnded,
     Emptied, GraphRead, GraphEmptied, GraphFilled

(* Every step keeps Alone. *)
LEMMA AloneStep ==
  ASSUME TypeOK, Alone, NEW p \in Procs, Begins(p) \/ (Moves(p) /\ Proceeds(p))
  PROVE  Alone'
<1>1. CASE Begins(p)
  <2>1. PICK c \in Call : Begun(p, c)
    BY <1>1 DEF Begins
  <2>2. ASSUME NEW q \in Procs, NEW r \in Procs, proc'[q].pc # "idle", proc'[q].alone,
               proc'[r].pc # "idle"
        PROVE  q = r
    <3>1. CASE q = p
      BY <2>1, <2>2, <3>1 DEF Begun, Busy
    <3>2. CASE q # p
      BY <2>1, <2>2, <3>2 DEF Begun, Busy
    <3> QED BY <3>1, <3>2
  <2>3. ASSUME "overlap" \notin accidents', NEW q \in Procs PROVE proc'[q].alone
    <3>1. (\A r \in Procs : ~Busy(r)) /\ accidents' = accidents /\ proc'[p].alone
      BY <2>1, <2>3 DEF Begun
    <3>2. CASE q # p
      BY <2>1, <2>3, <3>1, <3>2 DEF Begun, Alone
    <3> QED BY <3>1, <3>2
  <2> QED BY <2>2, <2>3 DEF Alone, Busy
<1>2. CASE Moves(p) /\ Proceeds(p)
  <2>1. \A q \in Procs \ {p} : proc'[q] = proc[q]
    BY <1>2, OthersStay
  <2>2. proc'[p].pc # "idle" => proc'[p].alone = proc[p].alone
    BY <1>2, IdleNoCall DEF Moves
  <2>3. proc[p].alone => proc'[p].alone
    BY <1>2, IdleNoCall DEF Moves
  <2>4. proc[p].pc # "idle"
    BY <1>2 DEF Moves, Busy
  <2>5. accidents \subseteq accidents'
    BY <1>2, AccidentsStay
  <2>6. ASSUME NEW q \in Procs, NEW r \in Procs, proc'[q].pc # "idle", proc'[q].alone,
               proc'[r].pc # "idle"
        PROVE  q = r
    <3>1. proc[q].pc # "idle" /\ proc[q].alone /\ proc[r].pc # "idle"
      BY <2>1, <2>2, <2>4, <2>6
    <3> QED BY <3>1 DEF Alone, Busy
  <2>7. ASSUME "overlap" \notin accidents', NEW q \in Procs PROVE proc'[q].alone
    <3>1. proc[q].alone
      BY <2>5, <2>7 DEF Alone
    <3> QED BY <2>1, <2>3, <3>1
  <2> QED BY <2>6, <2>7 DEF Alone, Busy
<1> QED BY <1>1, <1>2

(* Who is about to write a record. *)
LEMMA RecordersStay ==
  ASSUME TypeOK, NEW p \in Procs, Moves(p), Proceeds(p)
  PROVE  \A q \in Procs : At(q, "record")' =>
           q # p /\ At(q, "record") /\ proc'[q].memory = proc[q].memory
<1>1. \A q \in Procs \ {p} : proc'[q] = proc[q]
  BY OthersStay
<1>2. proc'[p].pc # "record"
  <2>1. CASE proc'[p] = NoCall
    BY <2>1, IdleNoCall
  <2>2. CASE proc'[p] # NoCall
    BY <2>2 DEF Proceeds, Recorded, Ended, Stopped, Left, Compared, Embedded, Embeds, EmbedEnded,
       Emptied, GraphRead, GraphEmptied, GraphFilled
  <2> QED BY <2>1, <2>2
<1> QED BY <1>1, <1>2 DEF At

(* The vault as it was and a piece more. *)
LEMMA VaultGrows ==
  ASSUME TypeOK, Sourced, NEW p \in Procs, Proceeds(p)
  PROVE  \E x \in Pieces :
           /\ vault' = vault \/ vault' = Append(vault, x)
           /\ Written \subseteq Written' /\ Written' \subseteq Written \cup {x}
           /\ x \in Memories => Recorded(p) /\ x = proc[p].memory
<1>1. /\ vault \in Seq(Pieces) /\ proc[p].memory \in Pieces
      /\ Torn \in Pieces /\ Split \in Pieces /\ LineFeed \in Pieces
  BY DEF TypeOK, Pieces, Call
<1>2. Torn \notin Memories /\ Split \notin Memories /\ LineFeed \notin Memories
  BY StoresAssumption
<1>3. CASE vault' = vault
  BY <1>1, <1>2, <1>3 DEF Written
<1>4. ASSUME NEW x \in Pieces, vault' = Append(vault, x)
      PROVE  Written \subseteq Written' /\ Written' \subseteq Written \cup {x}
  BY <1>1, <1>4, ContentsAppended DEF Written
<1>5. CASE \E x \in {Torn, Split} : vault' = Append(vault, x)
  BY <1>1, <1>2, <1>4, <1>5
<1>6. CASE vault' = Append(vault, LineFeed)
  BY <1>1, <1>2, <1>4, <1>6
<1>7. CASE vault' = Append(vault, proc[p].memory) /\ Recorded(p)
  BY <1>1, <1>4, <1>7
<1> QED BY <1>3, <1>5, <1>6, <1>7, FilesGrow

(* The places of a file keep what they hold. *)
LEMMA PlacesStay ==
  ASSUME TypeOK, Sourced, NEW p \in Procs, Proceeds(p)
  PROVE  \A i \in DOMAIN vault : i \in DOMAIN vault' /\ vault'[i] = vault[i]
<1>1. PICK x \in Pieces : vault' = vault \/ vault' = Append(vault, x)
  BY VaultGrows
<1>2. vault \in Seq(Pieces)
  BY DEF TypeOK
<1> QED BY <1>1, <1>2, Appended

(* Every step keeps Unique: only Recorded writes a memory, which was new. *)
LEMMA UniqueStep ==
  ASSUME TypeOK, Sourced, Unique, NEW p \in Procs, Begins(p) \/ (Moves(p) /\ Proceeds(p))
  PROVE  Unique'
<1>1. CASE Begins(p)
  <2>1. PICK c \in Call :
          /\ Begun(p, c) /\ vault' = vault
          /\ \/ c.pc = "record" /\ c.memory \notin Written
                /\ \A q \in Procs : At(q, "record") => proc[q].memory # c.memory
             \/ c.pc = "readGraph"
    BY <1>1 DEF Begins
  <2>2. Written' = Written
    BY <2>1 DEF Written
  <2>3. ASSUME NEW q \in Procs, proc'[q].pc = "record"
        PROVE  proc'[q].memory \notin Written
    BY <2>1, <2>3 DEF Begun, Unique, At
  <2>4. ASSUME NEW q \in Procs, NEW r \in Procs, proc'[q].pc = "record", proc'[r].pc = "record",
               proc'[q].memory = proc'[r].memory
        PROVE  q = r
    BY <2>1, <2>4 DEF Begun, Unique, At
  <2> QED BY <2>1, <2>2, <2>3, <2>4 DEF Unique, At
<1>2. CASE Moves(p) /\ Proceeds(p)
  <2>1. PICK x \in Pieces :
          /\ vault' = vault \/ vault' = Append(vault, x)
          /\ Written \subseteq Written' /\ Written' \subseteq Written \cup {x}
          /\ x \in Memories => Recorded(p) /\ x = proc[p].memory
    BY <1>2, VaultGrows
  <2>2. \A q \in Procs : At(q, "record")' =>
          q # p /\ At(q, "record") /\ proc'[q].memory = proc[q].memory
    BY <1>2, RecordersStay
  <2>3. ASSUME NEW q \in Procs, At(q, "record")' PROVE proc'[q].memory \notin Written'
    <3>1. q # p /\ At(q, "record") /\ proc'[q].memory = proc[q].memory
      BY <2>2, <2>3
    <3>2. proc[q].memory \notin Written /\ proc[q].memory \in Memories
      BY <3>1 DEF Unique, TypeOK, Call
    <3>3. proc[q].memory # x
      <4>1. ASSUME x \in Memories, proc[q].memory = x PROVE FALSE
        <5>1. At(p, "record") /\ x = proc[p].memory
          BY <2>1, <4>1 DEF Recorded
        <5> QED BY <3>1, <4>1, <5>1 DEF Unique
      <4> QED BY <3>2, <4>1
    <3> QED BY <2>1, <3>1, <3>2, <3>3
  <2>4. ASSUME NEW q \in Procs, NEW r \in Procs, At(q, "record")', At(r, "record")',
               proc'[q].memory = proc'[r].memory
        PROVE  q = r
    BY <2>2, <2>4 DEF Unique
  <2>5. ASSUME NEW i \in DOMAIN vault', NEW j \in DOMAIN vault', vault'[i] \in Memories,
               vault'[i] = vault'[j]
        PROVE  i = j
    <3>1. CASE vault' = vault
      BY <2>5, <3>1 DEF Unique
    <3>2. CASE vault' = Append(vault, x)
      <4> DEFINE n == Len(vault)
      <4>1. /\ DOMAIN vault = 1 .. n /\ n \in Nat /\ DOMAIN vault' = 1 .. n + 1
            /\ \A k \in 1 .. n : vault'[k] = vault[k]
            /\ vault'[n + 1] = x
        BY <3>2, Appended DEF TypeOK
      <4>2. x \in Memories => \A k \in 1 .. n : vault[k] # x
        <5>1. x \in Memories => At(p, "record") /\ x = proc[p].memory
          BY <2>1 DEF Recorded
        <5>2. x \in Memories => x \notin Written
          BY <5>1 DEF Unique
        <5> QED BY <4>1, <5>2 DEF Written, Contents
      <4> HIDE DEF n
      <4>3. CASE i \in 1 .. n /\ j \in 1 .. n
        BY <2>5, <4>1, <4>3 DEF Unique
      <4>4. CASE i = n + 1 \/ j = n + 1
        BY <2>5, <4>1, <4>2, <4>4
      <4> QED BY <2>5, <4>1, <4>3, <4>4
    <3> QED BY <2>1, <3>1, <3>2
  <2> QED BY <2>3, <2>4, <2>5 DEF Unique
<1> QED BY <1>1, <1>2

(* An embedding that is appended is of what the vault holds. *)
LEMMA EmbeddingsSourced ==
  ASSUME TypeOK, Sourced, NEW p \in Procs, Proceeds(p)
  PROVE  \A i \in DOMAIN embeddings' : embeddings'[i] \in Memories => embeddings'[i] \in Written
<1>1. embeddings \in Seq(Pieces) /\ {Torn, Split, LineFeed} \subseteq Pieces
  BY DEF TypeOK, Pieces
<1>2. {Torn, Split, LineFeed} \cap Memories = {}
  BY StoresAssumption
<1>3. ASSUME NEW x \in Pieces, embeddings' = Append(embeddings, x), x \in Memories => x \in Written
      PROVE  \A i \in DOMAIN embeddings' : embeddings'[i] \in Memories => embeddings'[i] \in Written
  BY <1>1, <1>3, Appended DEF Sourced
<1>4. ASSUME NEW i \in proc[p].missing PROVE vault[i] \in Pieces /\ vault[i] \in Written
  BY DEF Sourced, Pieces, Written, Contents
<1>5. CASE embeddings' = embeddings
  BY <1>5 DEF Sourced
<1>6. CASE \E x \in {Torn, Split} : embeddings' = Append(embeddings, x)
  BY <1>1, <1>2, <1>3, <1>6
<1>7. CASE embeddings' = Append(embeddings, LineFeed)
  BY <1>1, <1>2, <1>3, <1>7
<1>8. CASE \E i \in proc[p].missing : embeddings' = Append(embeddings, vault[i])
  BY <1>3, <1>4, <1>8
<1> QED BY <1>5, <1>6, <1>7, <1>8, FilesGrow

(* What the call that a step changes has in hand. *)
LEMMA InHandSourced ==
  ASSUME TypeOK, Sourced, NEW p \in Procs, Proceeds(p)
  PROVE  /\ proc'[p].records \subseteq Written
         /\ \A i \in proc'[p].missing : i \in DOMAIN vault /\ vault[i] \in Memories
         /\ proc'[p].pc = "embed" => proc'[p].missing # {}
         /\ proc'[p].pc \in {"rebuild", "fillIndex"} => proc'[p].missing = {}
<1>1. CASE proc'[p] = NoCall
  BY <1>1, IdleNoCall
<1>2. CASE Compared(p)
  <2>1. embeddings \in Seq(Pieces) /\ Torn \in Pieces
    BY DEF TypeOK, Pieces
  <2>2. Readable(embeddings) \subseteq Contents(embeddings) \cap Memories
    BY <2>1, ReadableAppended
  <2>3. Readable(embeddings) \subseteq Written
    BY <2>2 DEF Sourced, Contents
  <2>4. \A i \in Lines(vault) : i \in DOMAIN vault /\ vault[i] \in Memories
    BY DEF Lines
  <2> QED BY <1>2, <2>3, <2>4 DEF Compared
<1>3. CASE Embedded(p)
  BY <1>3 DEF Embedded, Embeds, Sourced, Written, Contents
<1>4. CASE EmbedEnded(p)
  BY <1>4 DEF EmbedEnded, Same, Sourced, At
<1>5. CASE Emptied(p)
  BY <1>5 DEF Emptied, Same, Sourced, At
<1>6. CASE Recorded(p) \/ Ended(p) \/ GraphRead(p) \/ GraphEmptied(p)
  BY <1>6 DEF Recorded, Ended, GraphRead, GraphEmptied, Same, Sourced, At
<1> QED BY <1>1, <1>2, <1>3, <1>4, <1>5, <1>6 DEF Proceeds, Stopped, Left, GraphFilled

(* Every step keeps Sourced. *)
LEMMA SourcedStep ==
  ASSUME TypeOK, Sourced, NEW p \in Procs, Begins(p) \/ (Moves(p) /\ Proceeds(p))
  PROVE  Sourced'
<1>1. CASE Begins(p)
  <2>1. PICK c \in Call :
          /\ Begun(p, c) /\ c.missing = {} /\ c.records = {}
          /\ vault' = vault /\ embeddings' = embeddings
          /\ c.pc \in {"record", "readGraph"}
    BY <1>1 DEF Begins
  <2>2. Written' = Written
    BY <2>1 DEF Written
  <2>3. \A i \in DOMAIN embeddings' : embeddings'[i] \in Memories => embeddings'[i] \in Written'
    BY <2>1, <2>2 DEF Sourced
  <2>4. ASSUME NEW q \in Procs
        PROVE  /\ proc'[q].records \subseteq Written'
               /\ \A i \in proc'[q].missing : i \in DOMAIN vault' /\ vault'[i] \in Memories
               /\ proc'[q].pc = "embed" => proc'[q].missing # {}
               /\ proc'[q].pc \in {"rebuild", "fillIndex"} => proc'[q].missing = {}
    <3>1. CASE q = p
      BY <2>1, <3>1 DEF Begun
    <3>2. CASE q # p
      <4>1. /\ proc'[q].pc = proc[q].pc /\ proc'[q].missing = proc[q].missing
            /\ proc'[q].records = proc[q].records
        BY <2>1, <3>2 DEF Begun
      <4> QED BY <2>1, <2>2, <4>1 DEF Sourced, At
    <3> QED BY <3>1, <3>2
  <2> QED BY <2>3, <2>4 DEF Sourced, At
<1>2. CASE Moves(p) /\ Proceeds(p)
  <2>1. Written \subseteq Written'
    BY <1>2, VaultGrows
  <2>2. \A i \in DOMAIN vault : i \in DOMAIN vault' /\ vault'[i] = vault[i]
    BY <1>2, PlacesStay
  <2>3. \A i \in DOMAIN embeddings' : embeddings'[i] \in Memories => embeddings'[i] \in Written'
    BY <1>2, <2>1, EmbeddingsSourced
  <2>4. ASSUME NEW q \in Procs
        PROVE  /\ proc'[q].records \subseteq Written
               /\ \A i \in proc'[q].missing : i \in DOMAIN vault /\ vault[i] \in Memories
               /\ proc'[q].pc = "embed" => proc'[q].missing # {}
               /\ proc'[q].pc \in {"rebuild", "fillIndex"} => proc'[q].missing = {}
    <3>1. CASE q = p
      BY <1>2, <3>1, InHandSourced
    <3>2. CASE q # p
      <4>1. proc'[q] = proc[q]
        BY <1>2, <3>2, OthersStay
      <4> QED BY <4>1 DEF Sourced, At
    <3> QED BY <3>1, <3>2
  <2> QED BY <2>1, <2>2, <2>3, <2>4 DEF Sourced, At
<1> QED BY <1>1, <1>2

(* Nobody else is under way. *)
LEMMA OnlyOne ==
  ASSUME TypeOK, Alone, NEW p \in Procs, Moves(p), NEW q \in Procs, proc'[q].alone, Syncing(q)'
  PROVE  q = p /\ proc[p].alone
<1>1. q # p => proc'[q] = proc[q]
  BY OthersStay
<1>2. Busy(p) /\ (q # p => Busy(q) /\ proc[q].alone)
  BY <1>1 DEF Moves, Syncing, Busy
<1>3. q = p
  BY <1>2 DEF Alone
<1>4. proc'[p] # NoCall
  BY <1>3, IdleNoCall DEF Syncing
<1> QED BY <1>3, <1>4 DEF Moves

(* Every step keeps Ahead: what the call that is alone embeds leaves its   *)
(* list and enters its records, and nobody else writes.                    *)
LEMMA AheadStep ==
  ASSUME TypeOK, Sourced, Unique, Alone, Ahead, NEW p \in Procs,
         Begins(p) \/ (Moves(p) /\ Proceeds(p))
  PROVE  Ahead'
<1> SUFFICES ASSUME NEW q \in Procs, proc'[q].alone, Syncing(q)'
             PROVE  /\ "unread" \notin accidents' =>
                         \A i \in proc'[q].missing : vault'[i] \notin Readable(embeddings')
                    /\ Readable(vault') \subseteq
                         proc'[q].records \cup {vault'[i] : i \in proc'[q].missing}
  BY DEF Ahead, Readable, Lines, Decodes
<1>0. "unread" \notin accidents' => "unread" \notin accidents
  <2>1. CASE Begins(p)
    BY <2>1 DEF Begins, Begun
  <2>2. CASE Proceeds(p)
    BY <2>2, AccidentsStay
  <2> QED BY <2>1, <2>2
<1>1. CASE Begins(p)
  <2>1. PICK c \in Call : Begun(p, c) /\ c.pc \in {"record", "readGraph"}
    BY <1>1 DEF Begins
  <2>2. q # p /\ Busy(q)
    BY <2>1 DEF Begun, Syncing, Busy
  <2> QED BY <2>1, <2>2 DEF Begun
<1>2. CASE Moves(p) /\ Proceeds(p)
  <2>0. accidents' = accidents \cup {"unread"} => "unread" \in accidents'
    OBVIOUS
  <2>1. q = p /\ proc[p].alone
    BY <1>2, OnlyOne
  <2>2. proc'[p] # NoCall
    BY <2>1, IdleNoCall DEF Syncing
  <2>3. embeddings \in Seq(Pieces) /\ LineFeed \in Pieces
    BY DEF TypeOK, Pieces
  <2>4. CASE Compared(p)
    BY <2>0, <2>1, <2>4 DEF Compared, Readable
  <2>5. CASE Embedded(p)
    <3>1. PICK i \in proc[p].missing : Embeds(p, i)
      BY <2>5 DEF Embedded
    <3>2. vault[i] \in Memories /\ vault[i] \in Pieces /\ i \in DOMAIN vault
      BY DEF Sourced, Pieces
    <3>3. Readable(embeddings') \subseteq Readable(embeddings) \cup {vault[i]}
      BY <2>3, <3>1, <3>2, ReadableAppended DEF Embeds
    <3>4. \A j \in proc[p].missing : vault[j] = vault[i] => j = i
      BY <3>2 DEF Unique, Sourced
    <3>5. Syncing(p) /\ vault' = vault
      BY <2>5 DEF Embedded, At, Syncing
    <3>6. /\ "unread" \notin accidents' =>
               \A j \in proc[p].missing : vault[j] \notin Readable(embeddings)
          /\ Readable(vault) \subseteq proc[p].records \cup {vault[j] : j \in proc[p].missing}
      BY <1>0, <2>1, <3>5 DEF Ahead
    <3>7. /\ proc'[p].missing = proc[p].missing \ {i}
          /\ proc'[p].records = proc[p].records \cup {vault[i]}
      BY <3>1 DEF Embeds
    <3>8. "unread" \notin accidents' =>
            \A j \in proc'[p].missing : vault[j] \notin Readable(embeddings')
      BY <3>3, <3>4, <3>6, <3>7
    <3>9. \A m \in Readable(vault) :
            m \in proc'[p].records \cup {vault[j] : j \in proc'[p].missing}
      BY <3>6, <3>7
    <3> QED BY <2>1, <3>5, <3>8, <3>9
  <2>6. CASE EmbedEnded(p)
    <3>1. Readable(embeddings') = Readable(embeddings)
      BY <2>3, <2>6, ReadableAppended DEF EmbedEnded
    <3>2. Syncing(p) /\ vault' = vault
      BY <2>6 DEF EmbedEnded, At, Syncing
    <3> QED BY <1>0, <2>1, <2>6, <3>1, <3>2 DEF EmbedEnded, Same, Ahead
  <2>7. CASE Emptied(p)
    <3>1. Syncing(p)
      BY <2>7 DEF Emptied, At, Syncing
    <3> QED BY <1>0, <2>1, <2>7, <3>1 DEF Emptied, Same, Ahead
  <2>8. CASE Recorded(p) \/ Ended(p) \/ GraphRead(p) \/ GraphEmptied(p)
    <3>1. ~Syncing(p)'
      BY <2>8 DEF Recorded, Ended, GraphRead, GraphEmptied, Syncing
    <3> QED BY <2>1, <3>1
  <2> QED BY <1>2, <2>2, <2>4, <2>5, <2>6, <2>7, <2>8 DEF Proceeds, Stopped, Left, GraphFilled
<1> QED BY <1>1, <1>2

(* Every step keeps IndexFindsMemories. *)
LEMMA IndexStep ==
  ASSUME TypeOK, Sourced, IndexFindsMemories, NEW p \in Procs,
         Begins(p) \/ (Moves(p) /\ Proceeds(p))
  PROVE  IndexFindsMemories'
<1>1. CASE Begins(p)
  BY <1>1 DEF Begins, IndexFindsMemories
<1>2. CASE Proceeds(p)
  <2>1. index' = index \/ index' = Torn \/ index' = proc[p].records
    <3>1. CASE Stopped(p) \/ Left(p) \/ Embedded(p)
      BY <3>1 DEF Stopped, Left, Embedded
    <3>2. CASE ~(Stopped(p) \/ Left(p) \/ Embedded(p))
      BY <1>2, <3>2 DEF Proceeds, Recorded, Ended, Compared, EmbedEnded, Emptied, GraphRead,
         GraphEmptied, GraphFilled
    <3> QED BY <3>1, <3>2
  <2>2. index' # Torn => \A m \in index' : \E i \in DOMAIN vault : vault[i] = m
    BY <2>1 DEF IndexFindsMemories, Sourced, Written, Contents
  <2>3. \A i \in DOMAIN vault : i \in DOMAIN vault' /\ vault'[i] = vault[i]
    BY <1>2, PlacesStay
  <2> QED BY <2>2, <2>3 DEF IndexFindsMemories
<1> QED BY <1>1, <1>2

(* Every step keeps EmbeddedOnce: what is appended is not readable yet,    *)
(* and a line that two records share is none.                              *)
LEMMA OnceStep ==
  ASSUME TypeOK, Sourced, Alone, Ahead, EmbeddedOnce, NEW p \in Procs,
         Begins(p) \/ (Moves(p) /\ Proceeds(p))
  PROVE  EmbeddedOnce'
<1> SUFFICES ASSUME "overlap" \notin accidents', "unread" \notin accidents',
                    NEW i \in Lines(embeddings'), NEW j \in Lines(embeddings'),
                    embeddings'[i] = embeddings'[j]
             PROVE  i = j
  BY DEF EmbeddedOnce, Lines, Decodes
<1>1. CASE Begins(p)
  <2>1. embeddings' = embeddings /\ "overlap" \notin accidents /\ "unread" \notin accidents
    BY <1>1 DEF Begins, Begun
  <2> QED BY <2>1 DEF EmbeddedOnce
<1>2. CASE Moves(p) /\ Proceeds(p)
  <2>1. "overlap" \notin accidents /\ "unread" \notin accidents
    BY <1>2, AccidentsStay
  <2>2. \A k, l \in Lines(embeddings) : embeddings[k] = embeddings[l] => k = l
    BY <2>1 DEF EmbeddedOnce
  <2>3. embeddings \in Seq(Pieces) /\ {Torn, Split, LineFeed} \subseteq Pieces
    BY DEF TypeOK, Pieces
  <2>4. {Torn, Split, LineFeed} \cap Memories = {}
    BY StoresAssumption
  <2>5. ASSUME NEW x \in Pieces, embeddings' = Append(embeddings, x),
               x \in Memories => x \notin Readable(embeddings)
        PROVE  i = j
    <3>1. \A k \in Lines(embeddings') :
            \/ k \in Lines(embeddings) /\ embeddings'[k] = embeddings[k]
            \/ k = Len(embeddings) + 1 /\ x \in Memories /\ embeddings'[k] = x
      <4>1. \A k \in Lines(Append(embeddings, x)) :
              \/ k \in Lines(embeddings) /\ Append(embeddings, x)[k] = embeddings[k]
              \/ k = Len(embeddings) + 1 /\ x \in Memories
        BY <2>3, LinesAppended
      <4>2. Append(embeddings, x)[Len(embeddings) + 1] = x
        BY <2>3, Appended
      <4> QED BY <2>5, <4>1, <4>2
    <3>2. \A k \in Lines(embeddings) : embeddings[k] \in Readable(embeddings)
      BY DEF Readable
    <3>3. i \in Lines(embeddings') /\ j \in Lines(embeddings') /\ embeddings'[i] = embeddings'[j]
      OBVIOUS
    <3>4. CASE i \in Lines(embeddings) /\ embeddings'[i] = embeddings[i]
      BY <2>2, <2>5, <3>1, <3>2, <3>3, <3>4
    <3>5. CASE i = Len(embeddings) + 1 /\ x \in Memories /\ embeddings'[i] = x
      BY <2>5, <3>1, <3>2, <3>3, <3>5
    <3> QED BY <3>1, <3>3, <3>4, <3>5
  <2>6. CASE embeddings' = embeddings
    BY <2>2, <2>6
  <2>7. CASE \E x \in {Torn, Split} : embeddings' = Append(embeddings, x)
    BY <2>3, <2>4, <2>5, <2>7
  <2>8. CASE embeddings' = Append(embeddings, LineFeed)
    BY <2>3, <2>4, <2>5, <2>8
  <2>9. CASE \E k \in proc[p].missing : embeddings' = Append(embeddings, vault[k]) /\ Embedded(p)
    <3>1. PICK k \in proc[p].missing : embeddings' = Append(embeddings, vault[k]) /\ Embedded(p)
      BY <2>9
    <3>2. vault[k] \in Pieces
      BY DEF Sourced, Pieces
    <3>3. proc[p].alone /\ Syncing(p)
      BY <2>1, <3>1 DEF Alone, Embedded, At, Syncing
    <3>4. vault[k] \notin Readable(embeddings)
      BY <2>1, <3>3 DEF Ahead
    <3> QED BY <2>5, <3>1, <3>2, <3>4
  <2> QED BY <1>2, <2>6, <2>7, <2>8, <2>9, FilesGrow
<1> QED BY <1>1, <1>2

(* The invariant is kept by every step of the specification. *)
LEMMA StepInvariant ==
  ASSUME SyncInv, [Next]_vars
  PROVE  SyncInv'
<1>1. CASE UNCHANGED vars
  <2>1. Lines(vault)' = Lines(vault) /\ Lines(embeddings)' = Lines(embeddings)
    BY <1>1, Zenon DEF vars, Lines, Decodes
  <2>2. Readable(vault)' = Readable(vault) /\ Readable(embeddings)' = Readable(embeddings)
    BY <1>1, <2>1, Zenon DEF vars, Readable
  <2>3. TypeOK' /\ Unique' /\ Sourced' /\ Alone'
    BY <1>1 DEF vars, SyncInv, TypeOK, Unique, Sourced, Alone, Written, Contents, At, Busy
  <2>4. Ahead'
    BY <1>1, <2>2 DEF vars, SyncInv, Ahead, Syncing
  <2>5. IndexFindsMemories' /\ EmbeddedOnce'
    BY <1>1, <2>1 DEF vars, SyncInv, IndexFindsMemories, EmbeddedOnce
  <2> QED BY <2>3, <2>4, <2>5 DEF SyncInv
<1>2. CASE Next
  <2>1. PICK p \in Procs : Goes /\ (Begins(p) \/ (Moves(p) /\ Proceeds(p)))
    BY <1>2, StepsProceed DEF SyncInv
  <2> QED
    BY <2>1, TypesStep, UniqueStep, SourcedStep, AloneStep, AheadStep, IndexStep, OnceStep
    DEF SyncInv
<1> QED BY <1>1, <1>2

(* And holds in the beginning. *)
LEMMA InitInvariant == Init => SyncInv
<1> SUFFICES ASSUME Init PROVE SyncInv
  OBVIOUS
<1>1. TypeOK
  BY InitTypes
<1>2. \A p \in Procs : proc[p] = NoCall
  BY DEF Init
<1>3. DOMAIN vault = {} /\ DOMAIN embeddings = {} /\ index = {}
  BY DEF Init
<1>4. \A p \in Procs : ~Busy(p) /\ ~Syncing(p)
  BY <1>2, IdleNoCall DEF Busy, Syncing
<1>5. Unique /\ Sourced /\ Alone /\ Ahead
  BY <1>2, <1>3, <1>4, IdleNoCall DEF Unique, Sourced, Alone, Ahead, At, Busy
<1>6. IndexFindsMemories /\ EmbeddedOnce
  BY <1>3 DEF IndexFindsMemories, EmbeddedOnce, Lines
<1> QED BY <1>1, <1>5, <1>6 DEF SyncInv

(* Meaning finds nothing that was never written, and, unless calls         *)
(* overlapped or the embeddings could not be read, no memory has two       *)
(* embeddings that count (vault_sync_index, run_vault_write), for any      *)
(* number of processes and accidents.                                      *)
THEOREM IndexIsSound == Spec => []Inv
<1>1. Init => SyncInv
  BY InitInvariant
<1>2. SyncInv /\ [Next]_vars => SyncInv'
  BY StepInvariant
<1>3. SyncInv => Inv
  BY DEF SyncInv, Inv
<1> QED BY <1>1, <1>2, <1>3, PTL DEF Spec

(* A call that nothing overlapped fills the index with all that is readable. *)
LEMMA AloneCatchesUp ==
  ASSUME SyncInv, NEW p \in Procs, FillIndex(p), proc[p].alone, index' # Torn
  PROVE  Readable(vault) \subseteq index'
<1>1. index' = proc[p].records
  BY DEF FillIndex, Filled
<1>2. At(p, "fillIndex") /\ Syncing(p) /\ proc[p].missing = {}
  BY DEF FillIndex, At, Syncing, SyncInv, Sourced
<1>3. Readable(vault) \subseteq proc[p].records \cup {vault[i] : i \in proc[p].missing}
  BY <1>2 DEF SyncInv, Ahead
<1> QED BY <1>1, <1>2, <1>3

(* vault_sync_index brings the index up to date: a call that gets to the   *)
(* end of it, alone and whole, leaves every readable memory to be found.   *)
THEOREM CatchesUp == Spec => IndexCatchesUp
<1> DEFINE A == \A p \in Procs :
       FillIndex(p) /\ proc[p].alone /\ index' # Torn => Readable(vault) \subseteq index'
<1>1. Init => SyncInv
  BY InitInvariant
<1>2. SyncInv /\ [Next]_vars => SyncInv'
  BY StepInvariant
<1>3. SyncInv /\ [Next]_vars => [A]_vars
  BY AloneCatchesUp
<1>4. Spec => [][A]_vars
  BY <1>1, <1>2, <1>3, PTL DEF Spec
<1> QED BY <1>4 DEF IndexCatchesUp

--------------------------------------------------------------------------------
(* The two halves of QuietInv. *)
VaultQuiet ==
  /\ Regular
  /\ Open => \E p \in Procs : At(p, "lineFeed")
  /\ \A p \in Procs : At(p, "lineFeed") => Open
  /\ \A p \in Procs : Reporting(p) => proc[p].memory \in Written
  /\ reported \cap Memories \subseteq Written

GraphQuiet ==
  /\ graph = Torn => \E p \in Procs : At(p, "fillGraph")
  /\ \A p \in Procs : At(p, "rewrite") => proc[p].known = graph
  /\ \A p \in Procs : At(p, "fillGraph") =>
       graph = Torn /\ reported \cap Entities \subseteq proc[p].known
  /\ graph # Torn => reported \cap Entities \subseteq graph

(* Without an accident only the one that moves is under way.               *)
LEMMA Quietly ==
  ASSUME TypeOK, Alone, NEW p \in Procs, Moves(p), Proceeds(p), accidents' = {}
  PROVE  /\ accidents = {} /\ ~Stopped(p) /\ Busy(p)
         /\ \A q \in Procs : q # p => ~Busy(q) /\ ~Busy(q)'
<1>1. accidents = {} /\ ~Stopped(p)
  BY AccidentsStay DEF Stopped
<1>2. Busy(p) /\ proc[p].alone
  BY <1>1 DEF Moves, Alone
<1>3. \A q \in Procs : q # p => ~Busy(q)
  BY <1>2 DEF Alone
<1>4. \A q \in Procs : q # p => proc'[q] = proc[q]
  BY OthersStay
<1> QED BY <1>1, <1>2, <1>3, <1>4 DEF Busy

(* A record after whole lines leaves the line open. *)
LEMMA RegularRecord ==
  ASSUME vault \in Seq(Pieces), Regular, ~Open, NEW m \in Memories, vault' = Append(vault, m)
  PROVE  Regular' /\ Open'
<1> DEFINE n == Len(vault)
<1>1. m \in Pieces /\ m # LineFeed
  BY StoresAssumption DEF Pieces
<1>2. /\ DOMAIN vault = 1 .. n /\ n \in Nat /\ DOMAIN vault' = 1 .. n + 1
      /\ \A k \in 1 .. n : vault'[k] = vault[k]
      /\ vault'[n + 1] = m /\ Len(vault') = n + 1
  BY <1>1, Appended
<1>3. n > 0 => vault[n] = LineFeed
  BY <1>2 DEF Open
<1>4. Open'
  BY <1>1, <1>2 DEF Open
<1>5. ASSUME NEW i \in DOMAIN vault'
      PROVE  \/ vault'[i] \in Memories /\ (i > 1 => vault'[i - 1] = LineFeed)
             \/ vault'[i] = LineFeed /\ i > 1 /\ vault'[i - 1] \in Memories
  <2> HIDE DEF n
  <2>1. CASE i = n + 1
    BY <1>2, <1>3, <2>1
  <2>2. CASE i \in 1 .. n
    <3>1. vault'[i] = vault[i] /\ (i > 1 => vault'[i - 1] = vault[i - 1])
      BY <1>2, <2>2
    <3> QED BY <1>2, <2>2, <3>1 DEF Regular
  <2> QED BY <1>2, <2>1, <2>2
<1> QED BY <1>4, <1>5 DEF Regular

(* A line feed after a record makes the lines whole. *)
LEMMA RegularLineFeed ==
  ASSUME vault \in Seq(Pieces), Regular, Open, vault' = Append(vault, LineFeed)
  PROVE  Regular' /\ ~Open'
<1> DEFINE n == Len(vault)
<1>1. LineFeed \in Pieces
  BY DEF Pieces
<1>2. /\ DOMAIN vault = 1 .. n /\ n \in Nat /\ DOMAIN vault' = 1 .. n + 1
      /\ \A k \in 1 .. n : vault'[k] = vault[k]
      /\ vault'[n + 1] = LineFeed /\ Len(vault') = n + 1
  BY <1>1, Appended
<1>3. n > 0 /\ vault[n] \in Memories
  <2>1. n # 0
    BY DEF Open
  <2>2. n \in DOMAIN vault /\ vault[n] # LineFeed
    BY <1>2, <2>1 DEF Open
  <2> HIDE DEF n
  <2> QED BY <1>2, <2>1, <2>2 DEF Regular
<1>4. ~Open'
  BY <1>2 DEF Open
<1>5. ASSUME NEW i \in DOMAIN vault'
      PROVE  \/ vault'[i] \in Memories /\ (i > 1 => vault'[i - 1] = LineFeed)
             \/ vault'[i] = LineFeed /\ i > 1 /\ vault'[i - 1] \in Memories
  <2> HIDE DEF n
  <2>1. CASE i = n + 1
    BY <1>2, <1>3, <2>1
  <2>2. CASE i \in 1 .. n
    <3>1. vault'[i] = vault[i] /\ (i > 1 => vault'[i - 1] = vault[i - 1])
      BY <1>2, <2>2
    <3> QED BY <1>2, <2>2, <3>1 DEF Regular
  <2> QED BY <1>2, <2>1, <2>2
<1> QED BY <1>4, <1>5 DEF Regular

(* Every step without an accident keeps the vault regular. *)
LEMMA VaultQuietStep ==
  ASSUME TypeOK, Sourced, Alone, VaultQuiet, accidents' = {}, NEW p \in Procs,
         Begins(p) \/ (Moves(p) /\ Proceeds(p))
  PROVE  VaultQuiet'
<1>1. CASE Begins(p)
  <2>1. PICK c \in Call : Begun(p, c) /\ c.pc \in {"record", "readGraph"}
    BY <1>1 DEF Begins
  <2>2. \A q \in Procs : ~Busy(q)
    BY <2>1 DEF Begun
  <2>3. ~Open /\ Regular /\ reported \cap Memories \subseteq Written
    BY <2>2 DEF VaultQuiet, Busy, At
  <2>4. \A q \in Procs : proc'[q].pc \in {"record", "readGraph", "idle"}
    <3>1. \A q \in Procs : q # p => proc'[q] = proc[q]
      BY <2>1, <2>2 DEF Begun
    <3> QED BY <2>1, <2>2, <3>1 DEF Begun, Busy
  <2>5. vault' = vault /\ reported' = reported
    BY <1>1 DEF Begins
  <2>6. ~Open' /\ Regular' /\ (reported \cap Memories \subseteq Written)'
    BY <2>3, <2>5 DEF Open, Regular, Written
  <2>7. \A q \in Procs : ~At(q, "lineFeed")' /\ ~Reporting(q)'
    BY <2>4 DEF At, Reporting, Syncing
  <2> QED BY <2>6, <2>7 DEF VaultQuiet
<1>2. CASE Moves(p) /\ Proceeds(p)
  <2>1. /\ ~Stopped(p) /\ Busy(p)
        /\ \A q \in Procs : q # p => ~Busy(q) /\ ~Busy(q)'
    BY <1>2, Quietly
  <2>2. \A q \in Procs : q # p => proc[q].pc = "idle" /\ proc'[q].pc = "idle"
    BY <2>1 DEF Busy
  <2>3. \A q \in Procs : q # p => ~At(q, "lineFeed")' /\ ~Reporting(q)'
    BY <2>2 DEF At, Reporting, Syncing
  <2>4. Open <=> At(p, "lineFeed")
    BY <2>2 DEF VaultQuiet, At
  <2>5. Written \subseteq Written'
    BY <1>2, VaultGrows
  <2>6. vault \in Seq(Pieces) /\ proc[p].memory \in Memories /\ proc[p].entity \in Entities
    BY DEF TypeOK, Call
  <2>7. Regular /\ reported \cap Memories \subseteq Written
        /\ (Reporting(p) => proc[p].memory \in Written)
    BY DEF VaultQuiet
  <2>8. CASE Recorded(p)
    <3>1. ~Open /\ vault' = Append(vault, proc[p].memory) /\ reported' = reported
      BY <2>4, <2>8 DEF Recorded, At
    <3>2. Regular' /\ Open'
      BY <2>6, <2>7, <3>1, RegularRecord
    <3>3. proc'[p].pc = "lineFeed" /\ proc'[p].memory = proc[p].memory
      BY <1>2, <2>8, IdleNoCall DEF Recorded, Moves
    <3>4. proc[p].memory \in Written'
      <4>1. proc[p].memory \in Pieces
        BY <2>6 DEF Pieces
      <4> QED BY <2>6, <3>1, <4>1, ContentsAppended DEF Written
    <3> QED BY <2>3, <2>5, <2>7, <3>1, <3>2, <3>3, <3>4 DEF VaultQuiet, At
  <2>9. CASE Ended(p)
    <3>1. Open /\ Reporting(p) /\ vault' = Append(vault, LineFeed) /\ reported' = reported
      BY <2>4, <2>9 DEF Ended, Reporting
    <3>2. Regular' /\ ~Open'
      BY <2>6, <2>7, <3>1, RegularLineFeed
    <3>3. proc'[p].pc = "sync" /\ proc'[p].memory = proc[p].memory
      BY <1>2, <2>9, IdleNoCall DEF Ended, Moves
    <3> QED BY <2>3, <2>5, <2>7, <3>1, <3>2, <3>3 DEF VaultQuiet, At
  <2>10. CASE ~Recorded(p) /\ ~Ended(p)
    <3>1. vault' = vault
      BY <1>2, <2>1, <2>10, FilesGrow
    <3>2. ~At(p, "lineFeed") /\ ~At(p, "lineFeed")'
      <4>1. CASE proc'[p] = NoCall
        BY <1>2, <2>1, <2>10, <4>1, IdleNoCall DEF Proceeds, Left, Compared, Embedded, EmbedEnded,
           Emptied, GraphRead, GraphEmptied, GraphFilled, At
      <4>2. CASE proc'[p] # NoCall
        BY <1>2, <2>1, <2>10, <4>2 DEF Proceeds, Left, Compared, Embedded, Embeds, EmbedEnded,
           Emptied, GraphRead, GraphEmptied, GraphFilled, At
      <4> QED BY <4>1, <4>2
    <3>3. ~Open' /\ Regular' /\ Written' = Written
      BY <2>4, <2>7, <3>1, <3>2 DEF Open, Regular, Written
    <3>4. CASE Left(p)
      <4>1. Reporting(p) /\ reported' = reported \cup {proc[p].memory} /\ proc'[p] = NoCall
        BY <3>4 DEF Left, Secured, Reporting, Syncing, At
      <4>2. ~Reporting(p)'
        BY <4>1, IdleNoCall DEF Reporting, Syncing, At
      <4> QED BY <2>3, <2>7, <3>2, <3>3, <4>1, <4>2 DEF VaultQuiet
    <3>5. CASE Compared(p) \/ Embedded(p) \/ EmbedEnded(p) \/ Emptied(p)
      <4>1. Reporting(p) /\ reported' = reported
        BY <3>5 DEF Compared, Embedded, Embeds, EmbedEnded, Emptied, Reporting, Syncing, At
      <4>2. proc'[p].pc # "idle"
        BY <3>5 DEF Compared, Embedded, Embeds, EmbedEnded, Emptied
      <4>3. proc'[p].memory = proc[p].memory
        BY <1>2, <4>2, IdleNoCall DEF Moves
      <4> QED BY <2>3, <2>7, <3>2, <3>3, <4>1, <4>3 DEF VaultQuiet
    <3>6. CASE GraphRead(p) \/ GraphEmptied(p)
      <4>1. reported' = reported /\ ~Reporting(p)'
        BY <3>6 DEF GraphRead, GraphEmptied, Reporting, Syncing, At
      <4> QED BY <2>3, <2>7, <3>2, <3>3, <4>1 DEF VaultQuiet
    <3>7. CASE GraphFilled(p)
      <4>1. reported' = reported \cup {proc[p].entity} /\ ~Reporting(p)'
        BY <3>7, IdleNoCall DEF GraphFilled, Reporting, Syncing, At
      <4>2. proc[p].entity \notin Memories
        BY <2>6, StoresAssumption
      <4> QED BY <2>3, <2>7, <3>2, <3>3, <4>1, <4>2 DEF VaultQuiet
    <3> QED BY <1>2, <2>1, <2>10, <3>4, <3>5, <3>6, <3>7 DEF Proceeds
  <2> QED BY <2>8, <2>9, <2>10
<1> QED BY <1>1, <1>2

(* And the graph whole, but for the call that is about to fill it. *)
LEMMA GraphQuietStep ==
  ASSUME TypeOK, Alone, GraphQuiet, accidents' = {}, NEW p \in Procs,
         Begins(p) \/ (Moves(p) /\ Proceeds(p))
  PROVE  GraphQuiet'
<1>1. CASE Begins(p)
  <2>1. PICK c \in Call : Begun(p, c) /\ c.pc \in {"record", "readGraph"}
    BY <1>1 DEF Begins
  <2>2. \A q \in Procs : ~Busy(q)
    BY <2>1 DEF Begun
  <2>3. \A q \in Procs : proc'[q].pc \in {"record", "readGraph", "idle"}
    <3>1. \A q \in Procs : q # p => proc'[q] = proc[q]
      BY <2>1, <2>2 DEF Begun
    <3> QED BY <2>1, <2>2, <3>1 DEF Begun, Busy
  <2>4. graph # Torn /\ graph' = graph /\ reported' = reported
    BY <1>1, <2>2 DEF Begins, GraphQuiet, Busy, At
  <2>5. \A q \in Procs : ~At(q, "rewrite")' /\ ~At(q, "fillGraph")'
    BY <2>3 DEF At
  <2> QED BY <2>4, <2>5 DEF GraphQuiet
<1>2. CASE Moves(p) /\ Proceeds(p)
  <2>1. /\ ~Stopped(p) /\ Busy(p)
        /\ \A q \in Procs : q # p => ~Busy(q) /\ ~Busy(q)'
    BY <1>2, Quietly
  <2>2. \A q \in Procs : q # p => /\ ~At(q, "fillGraph") /\ ~At(q, "rewrite")
                                  /\ ~At(q, "fillGraph")' /\ ~At(q, "rewrite")'
    BY <2>1 DEF Busy, At
  <2>3. graph = Torn <=> At(p, "fillGraph")
    BY <2>2 DEF GraphQuiet
  <2>4. proc[p].memory \notin Entities /\ proc[p].known \cup {proc[p].entity} \subseteq Entities
    BY StoresAssumption DEF TypeOK, Call
  <2>5. CASE \/ Recorded(p) \/ Ended(p) \/ Left(p) \/ Compared(p) \/ Embedded(p)
             \/ EmbedEnded(p) \/ Emptied(p)
    <3>1. graph' = graph /\ ~At(p, "fillGraph")
      BY <2>5 DEF Recorded, Ended, Left, Compared, Embedded, EmbedEnded, Emptied, At
    <3>2. reported' \cap Entities = reported \cap Entities
      BY <2>4, <2>5
      DEF Recorded, Ended, Left, Secured, Compared, Embedded, Embeds, EmbedEnded, Emptied
    <3>3. ~At(p, "rewrite")' /\ ~At(p, "fillGraph")'
      BY <2>5, IdleNoCall
      DEF Recorded, Ended, Left, Compared, Embedded, Embeds, EmbedEnded, Emptied, At
    <3> QED BY <2>2, <2>3, <3>1, <3>2, <3>3 DEF GraphQuiet
  <2>6. CASE GraphRead(p)
    BY <2>2, <2>3, <2>6 DEF GraphRead, GraphQuiet, At
  <2>7. CASE GraphEmptied(p)
    <3>1. graph # Torn /\ proc[p].known = graph /\ reported \cap Entities \subseteq graph
      BY <2>3, <2>7 DEF GraphEmptied, GraphQuiet, At
    <3> QED BY <2>2, <2>7, <3>1 DEF GraphEmptied, Same, GraphQuiet, At
  <2>8. CASE GraphFilled(p)
    <3>1. graph = Torn /\ reported \cap Entities \subseteq proc[p].known
      BY <2>8 DEF GraphFilled, GraphQuiet
    <3>2. graph' = proc[p].known \cup {proc[p].entity} /\ graph' # Torn
      <4> DEFINE content == proc[p].known \cup {proc[p].entity}
      <4>1. content \in SUBSET Entities
        BY <2>4
      <4>2. graph' \in Filled(graph, content)
        BY <2>8 DEF GraphFilled
      <4> HIDE DEF content
      <4>3. content # Torn
        BY <4>1, StoresAssumption
      <4>4. graph' = content
        BY <3>1, <4>2 DEF Filled
      <4> QED BY <4>3, <4>4 DEF content
    <3>3. ~At(p, "rewrite")' /\ ~At(p, "fillGraph")'
      BY <2>8, IdleNoCall DEF GraphFilled, At
    <3>4. reported' = reported \cup {proc[p].entity}
      BY <2>8 DEF GraphFilled
    <3> QED BY <2>2, <3>1, <3>2, <3>3, <3>4 DEF GraphQuiet
  <2> QED BY <1>2, <2>1, <2>5, <2>6, <2>7, <2>8 DEF Proceeds
<1> QED BY <1>1, <1>2

(* Every step keeps QuietInv. *)
LEMMA QuietStep ==
  ASSUME SyncInv, QuietInv, [Next]_vars
  PROVE  QuietInv'
<1>0. QuietInv <=> (accidents = {} => VaultQuiet /\ GraphQuiet)
  BY DEF QuietInv, VaultQuiet, GraphQuiet
<1>1. CASE UNCHANGED vars
  BY <1>1 DEF vars, QuietInv, Regular, Open, Written, Contents, At, Reporting, Syncing
<1>2. CASE Next
  <2> SUFFICES ASSUME accidents' = {} PROVE VaultQuiet' /\ GraphQuiet'
    BY DEF QuietInv, VaultQuiet, GraphQuiet
  <2>1. PICK p \in Procs : Goes /\ (Begins(p) \/ (Moves(p) /\ Proceeds(p)))
    BY <1>2, StepsProceed DEF SyncInv
  <2>2. accidents = {}
    BY <2>1, AccidentsStay DEF Begins, Begun
  <2>3. VaultQuiet /\ GraphQuiet
    BY <1>0, <2>2
  <2> QED BY <2>1, <2>3, VaultQuietStep, GraphQuietStep DEF SyncInv
<1> QED BY <1>1, <1>2

(* Nothing is written in the beginning. *)
LEMMA InitQuiet == Init => QuietInv
<1> SUFFICES ASSUME Init PROVE QuietInv
  OBVIOUS
<1>1. vault = <<>> /\ DOMAIN vault = {} /\ reported = {} /\ graph = {}
  BY DEF Init
<1>2. graph # Torn
  BY <1>1, StoresAssumption
<1>3. \A p \in Procs : proc[p].pc = "idle"
  BY IdleNoCall DEF Init
<1>4. \A p \in Procs : /\ ~Reporting(p) /\ ~At(p, "rewrite")
                        /\ ~At(p, "fillGraph") /\ ~At(p, "lineFeed")
  BY <1>3 DEF Reporting, Syncing, At
<1> QED BY <1>1, <1>2, <1>4 DEF QuietInv, Regular, Open

(* In a regular vault every record stands on a line of its own. *)
LEMMA QuietKeeps ==
  ASSUME SyncInv, QuietInv
  PROVE  QuietStoresKeepAll
<1> SUFFICES ASSUME accidents = {}
             PROVE  /\ reported \cap Memories \subseteq Readable(vault)
                    /\ graph # Torn => reported \cap Entities \subseteq graph
  BY DEF QuietStoresKeepAll
<1>1. Regular /\ reported \cap Memories \subseteq Written
  BY DEF QuietInv
<1>2. DOMAIN vault = 1 .. Len(vault) /\ Len(vault) \in Nat
  BY DEF SyncInv, TypeOK
<1>3. LineFeed \notin Memories
  BY StoresAssumption
<1>4. ASSUME NEW i \in DOMAIN vault, vault[i] \in Memories PROVE i \in Lines(vault)
  <2>1. i > 1 => vault[i - 1] = LineFeed
    BY <1>1, <1>3, <1>4 DEF Regular
  <2>2. i < Len(vault) => vault[i + 1] = LineFeed
    <3>1. i < Len(vault) => i + 1 \in DOMAIN vault /\ i + 1 > 1 /\ vault[(i + 1) - 1] = vault[i]
      BY <1>2
    <3> QED BY <1>1, <1>3, <1>4, <3>1 DEF Regular
  <2>3. Decodes(vault)
    BY <1>1, StoresAssumption DEF Regular, Decodes
  <2> QED BY <1>4, <2>1, <2>2, <2>3 DEF Lines
<1>5. Written \cap Memories \subseteq Readable(vault)
  BY <1>4 DEF Written, Contents, Readable
<1>6. graph # Torn => reported \cap Entities \subseteq graph
  BY DEF QuietInv
<1> QED BY <1>1, <1>5, <1>6

(* Without an accident nothing is lost that was reported as stored: every  *)
(* memory can be read and the graph holds every entity (run_vault_write,   *)
(* run_memory).                                                            *)
THEOREM QuietKeepsAll == Spec => []QuietStoresKeepAll
<1>1. Init => SyncInv /\ QuietInv
  BY InitInvariant, InitQuiet
<1>2. SyncInv /\ QuietInv /\ [Next]_vars => SyncInv' /\ QuietInv'
  BY StepInvariant, QuietStep
<1>3. SyncInv /\ QuietInv => QuietStoresKeepAll
  BY QuietKeeps
<1> QED BY <1>1, <1>2, <1>3, PTL DEF Spec

================================================================================
