----------------------------- MODULE MemoryStores -----------------------------
(***************************************************************************)
(* The persistent memory of the tools: the vault, a file of one line per   *)
(* memory with an embedding file and a semantic index derived from it, and *)
(* the knowledge graph, one file rewritten as a whole.  They are in the    *)
(* home directory: every albert process of the user works on the same      *)
(* files, and nothing locks them.                                          *)
(*                                                                         *)
(* A line is written in two steps, the record and the line feed (writeln   *)
(* on an unbuffered file); a whole file is truncated and then filled.      *)
(***************************************************************************)
EXTENDS Naturals, Sequences, FiniteSets

CONSTANTS
  Procs,       \* albert processes
  Memories,    \* what may be written to the vault, each under an id of its own
  Entities,    \* what may be written to the graph
  Torn,        \* part of a record; a file that does not parse
  Split,       \* part of a record, cut inside a character
  LineFeed,    \* the end of a line
  MaxFaults    \* bound: failed reads, writes and requests, processes that die

ASSUME StoresAssumption ==
  /\ Memories # {} /\ Entities # {} /\ Memories \cap Entities = {}
  /\ Torn # LineFeed /\ Split \notin {Torn, LineFeed}
  /\ {Torn, Split, LineFeed} \cap Memories = {}
  /\ \A s \in (SUBSET Memories) \cup (SUBSET Entities) : s # Torn
  /\ MaxFaults \in Nat

VARIABLES
  vault,       \* vault.jsonl, as the pieces written to it
  embeddings,  \* vault.embeddings.jsonl, likewise; a record is its memory
  index,       \* vault.ruvector: the memories found by meaning
  graph,       \* knowledge_graph.json
  proc,        \* the tool call of each process
  reported,    \* history: what vault_write and Memory said they stored
  accidents,   \* history: calls overlapped, a write or a read failed, a process died
  faults       \* how much went wrong so far

vars == <<vault, embeddings, index, graph, proc, reported, accidents, faults>>

--------------------------------------------------------------------------------
Pieces == Memories \cup {Torn, Split, LineFeed}

PCs == {"idle", "record", "lineFeed", "sync", "embed", "embedLf", "rebuild", "fillIndex",
        "readGraph", "rewrite", "fillGraph"}

Call ==
  [pc      : PCs,
   memory  : Memories,
   missing : SUBSET Nat,         \* entries without an embedding, their places in the vault
   records : SUBSET Memories,    \* the embeddings in hand
   entity  : Entities,
   known   : SUBSET Entities,    \* the graph as read
   alone   : BOOLEAN]            \* history: no other call overlapped this one

TypeOK ==
  /\ vault \in Seq(Pieces) /\ embeddings \in Seq(Pieces)
  /\ index = Torn \/ index \subseteq Memories
  /\ graph = Torn \/ graph \subseteq Entities
  /\ proc \in [Procs -> Call]
  /\ reported \subseteq Memories \cup Entities
  /\ accidents \subseteq {"overlap", "ioError", "unread", "death"}
  /\ faults \in 0 .. MaxFaults

NoCall == [pc |-> "idle", memory |-> CHOOSE m \in Memories : TRUE, missing |-> {},
           records |-> {}, entity |-> CHOOSE e \in Entities : TRUE, known |-> {}, alone |-> TRUE]

(* No file yet: an index that is not there finds nothing, and the graph    *)
(* begins empty.                                                           *)
Init ==
  /\ vault = <<>> /\ embeddings = <<>>
  /\ index = {} /\ graph = {}
  /\ proc = [p \in Procs |-> NoCall]
  /\ reported = {}
  /\ accidents = {}
  /\ faults = 0

--------------------------------------------------------------------------------
(* A file is read as a whole, and not at all with half a character in it.  *)
Decodes(file) == \A i \in DOMAIN file : file[i] # Split

(* The places of the records that stand alone on their line, and parse. *)
Lines(file) ==
  {i \in DOMAIN file :
     /\ Decodes(file)
     /\ file[i] \in Memories
     /\ i > 1 => file[i - 1] = LineFeed
     /\ i < Len(file) => file[i + 1] = LineFeed}

Readable(file) == {file[i] : i \in Lines(file)}

Busy(p) == proc[p].pc # "idle"

(* A call overlaps those under way. *)
Begin(p, call) ==
  LET others == {q \in Procs : Busy(q)} IN
  /\ ~Busy(p)
  /\ proc' = [q \in Procs |->
       IF q = p THEN [call EXCEPT !.alone = others = {}]
       ELSE IF q \in others THEN [proc[q] EXCEPT !.alone = FALSE]
       ELSE proc[q]]
  /\ accidents' = IF others = {} THEN accidents ELSE accidents \cup {"overlap"}

At(p, pc) == proc[p].pc = pc

Go(p, pc) == proc' = [proc EXCEPT ![p].pc = pc]

Return(p) == proc' = [proc EXCEPT ![p] = NoCall]

Fine == UNCHANGED <<accidents, faults>>

(* A request that fails leaves no trace. *)
Refused == faults < MaxFaults /\ faults' = faults + 1 /\ UNCHANGED accidents

WriteFails ==
  /\ faults < MaxFaults /\ faults' = faults + 1
  /\ accidents' = accidents \cup {"ioError"}

(* The embeddings cannot be read. *)
ReadFails ==
  /\ faults < MaxFaults /\ faults' = faults + 1
  /\ accidents' = accidents \cup {"unread"}

(* What an append that does not come to its end leaves. *)
Interrupted(file) == {file, Append(file, Torn), Append(file, Split)}

--------------------------------------------------------------------------------
(* run_vault_write *)
VaultWrite(p, m) ==
  /\ \A i \in DOMAIN vault : vault[i] # m
  /\ \A q \in Procs : At(q, "record") => proc[q].memory # m
  /\ Begin(p, [NoCall EXCEPT !.pc = "record", !.memory = m])
  /\ UNCHANGED <<vault, embeddings, index, graph, reported, faults>>

WriteRecord(p) ==
  /\ At(p, "record")
  /\ \/ Fine /\ vault' = Append(vault, proc[p].memory) /\ Go(p, "lineFeed")
     \/ WriteFails /\ vault' \in Interrupted(vault) /\ Return(p)
  /\ UNCHANGED <<embeddings, index, graph, reported>>

(* Mutant: the line is left open. *)
LeaveLineOpen(p) ==
  /\ At(p, "lineFeed")
  /\ Fine /\ Go(p, "sync")
  /\ UNCHANGED <<vault, embeddings, index, graph, reported>>

WriteLineFeed(p) ==
  /\ At(p, "lineFeed")
  /\ \/ Fine /\ vault' = Append(vault, LineFeed) /\ Go(p, "sync")
     \/ WriteFails /\ UNCHANGED vault /\ Return(p)
  /\ UNCHANGED <<embeddings, index, graph, reported>>

(* The memory is reported as secured whether indexing succeeds or not. *)
Secured(p) == reported' = reported \cup {proc[p].memory}

(* With entries to look at, go on with those that are to be embedded. *)
GoOn(p, missing, known) ==
  IF Lines(vault) = {}
    THEN Secured(p) /\ Return(p)
    ELSE /\ proc' = [proc EXCEPT ![p].pc = IF missing = {} THEN "rebuild" ELSE "embed",
                                 ![p].missing = missing, ![p].records = known]
         /\ UNCHANGED reported

(* Mutant: only the memory just written is embedded. *)
ReadVaultForOwn(p) ==
  /\ At(p, "sync")
  /\ Fine
  /\ LET known == Readable(embeddings)
     IN  GoOn(p, {i \in Lines(vault) : vault[i] \notin known /\ vault[i] = proc[p].memory}, known)
  /\ UNCHANGED <<vault, embeddings, index, graph>>

(* Mutant: what has an embedding is embedded again. *)
ReadVaultAfresh(p) ==
  /\ At(p, "sync")
  /\ Fine
  /\ GoOn(p, Lines(vault), Readable(embeddings))
  /\ UNCHANGED <<vault, embeddings, index, graph>>

Compare(p, known) == GoOn(p, {i \in Lines(vault) : vault[i] \notin known}, known)

(* vault_sync_index: read both files and find what has no embedding.  A    *)
(* vault that cannot be read ends it; embeddings that cannot are none.     *)
ReadVault(p) ==
  /\ At(p, "sync")
  /\ \/ Fine /\ Compare(p, Readable(embeddings))
     \/ Refused /\ Secured(p) /\ Return(p)
     \/ ReadFails /\ Compare(p, {})
  /\ UNCHANGED <<vault, embeddings, index, graph>>

First(places) == CHOOSE i \in places : \A j \in places : i <= j

(* One request to the network and one record; a failure ends the           *)
(* synchronisation with the index as it was.                               *)
Embed(p) ==
  /\ At(p, "embed")
  /\ LET i == First(proc[p].missing)
         m == vault[i]
     IN
     \/ /\ Fine
        /\ embeddings' = Append(embeddings, m)
        /\ proc' = [proc EXCEPT ![p].pc = "embedLf", ![p].missing = @ \ {i},
                                ![p].records = @ \cup {m}]
        /\ UNCHANGED reported
     \/ Refused /\ Secured(p) /\ Return(p) /\ UNCHANGED embeddings
     \/ WriteFails /\ Secured(p) /\ Return(p) /\ embeddings' \in Interrupted(embeddings)
  /\ UNCHANGED <<vault, index, graph>>

EmbedLineFeed(p) ==
  /\ At(p, "embedLf")
  /\ \/ /\ Fine
        /\ embeddings' = Append(embeddings, LineFeed)
        /\ Go(p, IF proc[p].missing = {} THEN "rebuild" ELSE "embed")
        /\ UNCHANGED reported
     \/ WriteFails /\ Secured(p) /\ Return(p) /\ UNCHANGED embeddings
  /\ UNCHANGED <<vault, index, graph>>

Rebuild(p) ==
  /\ At(p, "rebuild")
  /\ \/ Fine /\ index' = Torn /\ Go(p, "fillIndex") /\ UNCHANGED reported
     \/ WriteFails /\ Secured(p) /\ Return(p) /\ UNCHANGED index
  /\ UNCHANGED <<vault, embeddings, graph>>

(* Over what another process wrote since, the end of it may stay behind. *)
Filled(file, content) == {content} \cup (IF file # Torn THEN {Torn} ELSE {})

FillIndex(p) ==
  /\ At(p, "fillIndex")
  /\ \/ Fine /\ index' \in Filled(index, proc[p].records)
     \/ WriteFails /\ index' = Torn
  /\ Secured(p) /\ Return(p)
  /\ UNCHANGED <<vault, embeddings, graph>>

VaultStep(p) == \/ WriteRecord(p) \/ WriteLineFeed(p) \/ ReadVault(p)
                \/ Embed(p) \/ EmbedLineFeed(p) \/ Rebuild(p) \/ FillIndex(p)

--------------------------------------------------------------------------------
(* run_memory, the actions that add: a graph that does not parse is taken  *)
(* for an empty one.                                                       *)
MemoryCreate(p, e) ==
  /\ Begin(p, [NoCall EXCEPT !.pc = "readGraph", !.entity = e])
  /\ UNCHANGED <<vault, embeddings, index, graph, reported, faults>>

ReadGraph(p) ==
  /\ At(p, "readGraph")
  /\ proc' = [proc EXCEPT ![p].pc = "rewrite", ![p].known = IF graph = Torn THEN {} ELSE graph]
  /\ UNCHANGED <<vault, embeddings, index, graph, reported, accidents, faults>>

RewriteGraph(p) ==
  /\ At(p, "rewrite")
  /\ \/ Fine /\ graph' = Torn /\ Go(p, "fillGraph")
     \/ WriteFails /\ Return(p) /\ UNCHANGED graph
  /\ UNCHANGED <<vault, embeddings, index, reported>>

FillGraph(p) ==
  /\ At(p, "fillGraph")
  /\ \/ /\ Fine
        /\ graph' \in Filled(graph, proc[p].known \cup {proc[p].entity})
        /\ reported' = reported \cup {proc[p].entity}
     \/ WriteFails /\ graph' = Torn /\ UNCHANGED reported
  /\ Return(p)
  /\ UNCHANGED <<vault, embeddings, index>>

GraphStep(p) == ReadGraph(p) \/ RewriteGraph(p) \/ FillGraph(p)

(* The process dies in a call; the user starts it again. *)
Die(p) ==
  /\ Busy(p)
  /\ faults < MaxFaults /\ faults' = faults + 1
  /\ accidents' = accidents \cup {"death"}
  /\ IF At(p, "record") THEN vault' \in Interrupted(vault) ELSE UNCHANGED vault
  /\ IF At(p, "embed") THEN embeddings' \in Interrupted(embeddings) ELSE UNCHANGED embeddings
  /\ Return(p)
  /\ UNCHANGED <<index, graph, reported>>

Next ==
  \E p \in Procs :
    \/ \E m \in Memories : VaultWrite(p, m)
    \/ \E e \in Entities : MemoryCreate(p, e)
    \/ VaultStep(p) \/ GraphStep(p)
    \/ Die(p)

Spec == Init /\ [][Next]_vars

--------------------------------------------------------------------------------
(* One call at a time and no accident: whatever was reported as secured    *)
(* can be read, whether its embedding failed or not, and the graph holds   *)
(* every entity reported.  Calls that overlap, or a record cut short, may  *)
(* make lines that do not parse, and a torn graph begins anew.             *)
QuietStoresKeepAll ==
  accidents = {} =>
    /\ reported \cap Memories \subseteq Readable(vault)
    /\ graph # Torn => reported \cap Entities \subseteq graph

(* A call that gets to the end of the index, with no other call meanwhile, *)
(* leaves every readable memory to be found by meaning: those that were    *)
(* written without the network, or whose embedding was cut short or merged *)
(* with another, are picked up.                                            *)
IndexCatchesUp ==
  [][\A p \in Procs :
       FillIndex(p) /\ proc[p].alone /\ index' # Torn => Readable(vault) \subseteq index']_vars

(* Meaning finds nothing that was never written to the vault. *)
IndexFindsMemories ==
  index # Torn => \A m \in index : \E i \in DOMAIN vault : vault[i] = m

(* A memory has one embedding that can be read, so that a search returns   *)
(* it once, whatever was cut short and repeated: only calls that overlap   *)
(* may embed it twice, or one that could not read the embeddings, which it *)
(* takes for an empty file (lib.rs:4941).                                  *)
EmbeddedOnce ==
  accidents \cap {"overlap", "unread"} = {} =>
    \A i, j \in Lines(embeddings) : embeddings[i] = embeddings[j] => i = j

(* What is found by meaning is a memory, and is found once. *)
Inv == TypeOK /\ IndexFindsMemories /\ EmbeddedOnce
================================================================================
