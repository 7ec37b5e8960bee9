--------------------------- MODULE ApiStreamProofs ---------------------------
(***************************************************************************)
(* One call of the model for replies of any length, any number of          *)
(* fragments and of retries, and chunks that end anywhere: requests are    *)
(* bounded, each frame is handed on once, in order, as soon as it is       *)
(* complete, and what passes for an answer is the whole message.           *)
(*                                                                         *)
(* The stream is joined from blocks (FlattenIs), laid out as bytes         *)
(* (Framed), cut again (Cuts, ParseIs) and taken event by event (Taking);  *)
(* what the client then holds says what is due (NativeSays, OpenAiSays).   *)
(***************************************************************************)
EXTENDS ApiStream, SequenceTheorems, WellFoundedInduction, TLAPS

--------------------------------------------------------------------------------
(* Recursive functions.  A definition by recursion over 0 .. N is a CHOOSE; *)
(* that such a function exists, that it is unique, and the induction both   *)
(* rest on, follow from the well-foundedness of < on the natural numbers.   *)

Smaller == {ss \in Nat \X Nat : ss[1] < ss[2]}

(* A set of numbers that is not empty has a least one. *)
LEMMA LeastNumber ==
  ASSUME NEW A \in SUBSET Nat, A # {}
  PROVE  \E m \in A : \A k \in A : m <= k
<1>1. IsWellFoundedOn(Smaller, Nat)
  BY NatLessThanWellFounded, Zenon DEF OpToRel, Smaller
<1>2. PICK m \in A : \A k \in A : <<k, m>> \notin Smaller
  BY <1>1, WFMin
<1>3. ASSUME NEW k \in A, k < m PROVE FALSE
  <2>1. <<k, m>> \in Nat \X Nat /\ <<k, m>>[1] < <<k, m>>[2]
    BY <1>3
  <2>2. <<k, m>> \in Smaller
    BY <2>1, Zenon DEF Smaller
  <2> QED BY <1>2, <2>2
<1> QED BY <1>3

(* Induction over the natural numbers, for a set. *)
LEMMA SetInduction ==
  ASSUME NEW A \in SUBSET Nat, 0 \in A, \A n \in A : n + 1 \in A
  PROVE  A = Nat
<1> DEFINE B == Nat \ A
<1> SUFFICES ASSUME B # {} PROVE FALSE
  OBVIOUS
<1>1. B \in SUBSET Nat
  OBVIOUS
<1>2. PICK m \in B : \A k \in B : m <= k
  <2> HIDE DEF B
  <2> QED BY <1>1, LeastNumber
<1>3. m # 0 /\ m - 1 \in Nat /\ m - 1 \notin B
  BY <1>2
<1> QED BY <1>2, <1>3

(* A function defined by recursion exists: base and step are what it is    *)
(* made of, T is where its values are.                                     *)
Recursion(T, base, N, step) ==
  N \in Nat /\ base \in T /\ step \in [1 .. N -> [T -> T]]

Recurses(f, base, N, step) == f[0] = base /\ \A i \in 1 .. N : f[i] = step[i][f[i - 1]]

(* Recursion over 0 .. N has a solution. *)
LEMMA PrimitiveRecursion ==
  ASSUME NEW T, NEW base, NEW N, NEW step, Recursion(T, base, N, step)
  PROVE  \E f \in [0 .. N -> T] : Recurses(f, base, N, step)
<1> DEFINE A == {n \in Nat : n <= N => \E f \in [0 .. n -> T] : Recurses(f, base, n, step)}
<1> USE DEF Recursion, Recurses
<1>1. 0 \in A
  <2>1. /\ [k \in 0 .. 0 |-> base] \in [0 .. 0 -> T]
        /\ Recurses([k \in 0 .. 0 |-> base], base, 0, step)
    OBVIOUS
  <2> QED BY <2>1
<1>2. ASSUME NEW n \in A PROVE n + 1 \in A
  <2> SUFFICES ASSUME n + 1 <= N
               PROVE \E g \in [0 .. n + 1 -> T] : Recurses(g, base, n + 1, step)
    OBVIOUS
  <2>1. PICK f \in [0 .. n -> T] : Recurses(f, base, n, step)
    OBVIOUS
  <2> DEFINE g == [k \in 0 .. n + 1 |-> IF k = n + 1 THEN step[n + 1][f[n]] ELSE f[k]]
  <2>2. n \in 0 .. n /\ f[n] \in T /\ step[n + 1] \in [T -> T]
    OBVIOUS
  <2>3. g \in [0 .. n + 1 -> T]
    BY <2>2
  <2>4. ASSUME NEW i \in 1 .. n + 1 PROVE g[i] = step[i][g[i - 1]]
    <3>1. CASE i = n + 1
      BY <3>1, <2>2
    <3>2. CASE i # n + 1
      <4>1. i \in 1 .. n /\ i - 1 \in 0 .. n /\ i \in 0 .. n + 1
        BY <3>2
      <4> QED BY <2>1, <4>1
    <3> QED BY <3>1, <3>2
  <2>5. g[0] = base
    BY <2>1
  <2> QED BY <2>3, <2>4, <2>5
<1>3. A \in SUBSET Nat
  OBVIOUS
<1>4. A = Nat
  <2> HIDE DEF A
  <2> QED BY <1>1, <1>2, <1>3, SetInduction
<1> QED BY <1>4

(* Two functions that take the same steps are the same. *)
SameSteps(f, g, N) ==
  /\ N \in Nat /\ f[0] = g[0]
  /\ \A i \in 1 .. N : f[i - 1] = g[i - 1] => f[i] = g[i]

(* By induction: two solutions of a recursion agree. *)
LEMMA RecursionIsUnique ==
  ASSUME NEW N, NEW f, NEW g, SameSteps(f, g, N)
  PROVE  \A i \in 0 .. N : f[i] = g[i]
<1> USE DEF SameSteps
<1> DEFINE A == {n \in Nat : n <= N => f[n] = g[n]}
<1>1. 0 \in A
  OBVIOUS
<1>2. ASSUME NEW n \in A PROVE n + 1 \in A
  <2> SUFFICES ASSUME n + 1 <= N PROVE f[n + 1] = g[n + 1]
    OBVIOUS
  <2>1. n + 1 \in 1 .. N /\ (n + 1) - 1 = n /\ f[n] = g[n]
    OBVIOUS
  <2> QED BY <2>1
<1>3. A = Nat
  <2>1. A \in SUBSET Nat
    OBVIOUS
  <2> HIDE DEF A
  <2> QED BY <1>1, <1>2, <2>1, SetInduction
<1> QED BY <1>3

(* Joining sequences of sequences: what each adds comes after the others.  *)
LEMMA FlattenIs ==
  ASSUME NEW S, NEW seqs \in Seq(Seq(S))
  PROVE  \E f \in [0 .. Len(seqs) -> Seq(S)] :
           /\ FlattenSeq(seqs) = f[Len(seqs)] /\ f[0] = <<>>
           /\ \A i \in 1 .. Len(seqs) : f[i] = f[i - 1] \o seqs[i]
<1> DEFINE N == Len(seqs)
           step == [i \in 1 .. N |-> [s \in Seq(S) |-> s \o seqs[i]]]
           Is(g) == g = [i \in 1 .. N |-> IF i = 1 THEN seqs[i] ELSE g[i - 1] \o seqs[i]]
           G == CHOOSE g : Is(g)
<1>1. N \in Nat /\ (\A i \in 1 .. N : seqs[i] \in Seq(S)) /\ <<>> \in Seq(S)
  OBVIOUS
<1>2. PICK f \in [0 .. N -> Seq(S)] : Recurses(f, <<>>, N, step)
  <2>1. step \in [1 .. N -> [Seq(S) -> Seq(S)]]
    BY <1>1
  <2> HIDE DEF step, N
  <2>2. Recursion(Seq(S), <<>>, N, step)
    BY <1>1, <2>1 DEF Recursion
  <2> QED BY <2>2, PrimitiveRecursion
<1>3. ASSUME NEW i \in 1 .. N
      PROVE  f[i - 1] \in Seq(S) /\ f[i] = f[i - 1] \o seqs[i]
  <2>1. i - 1 \in 0 .. N
    BY <1>1
  <2>2. f[i] = step[i][f[i - 1]]
    BY <1>2 DEF Recurses
  <2> QED BY <2>1, <2>2
<1>4. f[0] = <<>>
  BY <1>2 DEF Recurses
<1>5. CASE N = 0
  BY <1>1, <1>3, <1>4, <1>5, EmptySeq DEF FlattenSeq
<1>6. CASE N # 0
  <2> DEFINE h == [i \in 1 .. N |-> f[i]]
  <2>1. f[1] = seqs[1]
    <3>1. 1 \in 1 .. N /\ 1 - 1 = 0 /\ seqs[1] \in Seq(S)
      BY <1>1, <1>6
    <3>2. f[1] = f[1 - 1] \o seqs[1]
      BY <3>1, <1>3
    <3> HIDE DEF N
    <3> QED BY <3>1, <3>2, <1>4, ConcatEmptySeq
  <2>2. \A i \in 1 .. N : h[i] = IF i = 1 THEN seqs[i] ELSE h[i - 1] \o seqs[i]
    <3> TAKE i \in 1 .. N
    <3>1. CASE i = 1
      BY <3>1, <2>1
    <3>2. CASE i # 1
      <4>1. i - 1 \in 1 .. N
        BY <3>2, <1>1
      <4>2. h[i] = f[i] /\ h[i - 1] = f[i - 1]
        BY <4>1
      <4> QED BY <3>2, <4>2, <1>3
    <3> QED BY <3>1, <3>2
  <2>3. Is(h)
    <3> HIDE DEF h, N
    <3>1. h = [i \in 1 .. N |-> h[i]]
      BY DEF h
    <3> QED BY <2>2, <3>1
  <2>4. Is(G)
    <3> HIDE DEF Is
    <3> QED BY <2>3
  <2> DEFINE g == [i \in 0 .. N |-> IF i = 0 THEN <<>> ELSE G[i]]
  <2>5. \A i \in 1 .. N : G[i] = IF i = 1 THEN seqs[i] ELSE G[i - 1] \o seqs[i]
    <3> HIDE DEF G
    <3> QED BY <2>4
  <2>6. SameSteps(g, f, N)
    <3> HIDE DEF G
    <3>1. g[0] = f[0]
      BY <1>1, <1>4
    <3>2. ASSUME NEW i \in 1 .. N, g[i - 1] = f[i - 1] PROVE g[i] = f[i]
      <4>1. CASE i = 1
        BY <4>1, <1>1, <2>1, <2>5
      <4>2. CASE i # 1
        <5>1. i \in 0 .. N /\ i - 1 \in 0 .. N /\ i - 1 # 0 /\ i # 0
          BY <4>2, <1>1
        <5>2. g[i] = G[i] /\ g[i - 1] = G[i - 1]
          BY <5>1
        <5> QED BY <5>2, <3>2, <4>2, <2>5, <1>3
      <4> QED BY <4>1, <4>2
    <3> QED BY <1>1, <3>1, <3>2 DEF SameSteps
  <2>7. G[N] = f[N]
    <3> HIDE DEF G
    <3>1. g[N] = f[N] /\ N \in 0 .. N
      <4> HIDE DEF g
      <4> QED BY <1>1, <2>6, RecursionIsUnique
    <3> QED BY <3>1, <1>6
  <2>8. FlattenSeq(seqs) = G[N]
    BY <1>6, Zenon DEF FlattenSeq
  <2> QED BY <1>3, <1>4, <2>7, <2>8
<1> QED BY <1>5, <1>6

--------------------------------------------------------------------------------
(* What a server sends. *)
Events == [kind : EventKinds, block : Nat]

(* Events that do not end a stream. *)
Inner == [kind : EventKinds \ {"stop", "done"}, block : Nat]

(* An event is a token of the stream, and no part of a blank line. *)
LEMMA EventIsToken ==
  ASSUME NEW e \in Events
  PROVE  e \in Token /\ e # LF /\ e # CR
<1>1. e.kind \in EventKinds /\ e = [kind |-> e.kind, block |-> e.block] /\ e.block \in Nat
  BY DEF Events
<1>2. "lf" \notin EventKinds /\ "cr" \notin EventKinds
  BY DEF EventKinds
<1>3. LF.kind = "lf" /\ CR.kind = "cr"
  BY DEF LF, CR, Event
<1>4. e \in Token
  BY <1>1 DEF Token
<1> QED BY <1>1, <1>2, <1>3, <1>4

(* An event by its parts. *)
LEMMA EventIs ==
  ASSUME NEW kind \in EventKinds, NEW block \in Nat
  PROVE  /\ Event(kind, block) \in Events
         /\ kind \notin {"stop", "done"} => Event(kind, block) \in Inner
BY DEF Event, Events, Inner

(* Sequences of them are sequences of events. *)
LEMMA InnerEvents ==
  ASSUME NEW es \in Seq(Inner)
  PROVE  es \in Seq(Events)
<1>1. Inner \subseteq Events
  BY DEF Inner, Events
<1> QED BY <1>1, SeqMonotonic

(* A line feed and a carriage return are tokens too. *)
LEMMA LinesAreTokens == LF \in Token /\ CR \in Token /\ LF # CR
BY DEF LF, CR, Event, Token

(* The frames of a block. *)
LEMMA NativeBlockType ==
  ASSUME NEW m \in Seq(BlockKinds), NEW i \in 1 .. Len(m)
  PROVE  NativeBlock(m, i) \in Seq(Inner)
<1>1. m[i] \in BlockKinds /\ i \in Nat
  BY ElementOfSeq
<1>2. \A kind \in {"open", "text", "close", "json"} : Event(kind, i) \in Inner
  BY <1>1, EventIs DEF EventKinds
<1>3. Fragments \in Nat
  BY ApiAssumption
<1>4. [n \in 1 .. Fragments |-> Event("json", i)] \in Seq(Inner)
  BY <1>2, <1>3, IsASeq
<1>5. <<Event("open", i)>> \in Seq(Inner) /\ <<Event("close", i)>> \in Seq(Inner)
  BY <1>2
<1>6. CASE m[i] = "text"
  BY <1>2, <1>6 DEF NativeBlock
<1>7. CASE m[i] = "tool"
  BY <1>2, <1>7 DEF NativeBlock
<1>8. CASE m[i] = "streamed"
  <2>1. NativeBlock(m, i) = <<Event("open", i)>> \o [n \in 1 .. Fragments |-> Event("json", i)]
                              \o <<Event("close", i)>>
    BY <1>8 DEF NativeBlock
  <2> QED BY <2>1, <1>4, <1>5, ConcatProperties
<1>9. CASE m[i] \notin {"text", "tool", "streamed"}
  <2>1. NativeBlock(m, i) = <<>>
    BY <1>9 DEF NativeBlock
  <2> QED BY <2>1, EmptySeq
<1> QED BY <1>6, <1>7, <1>8, <1>9

NativeBlocks(m) == [i \in DOMAIN m |-> NativeBlock(m, i)]

(* The middle of a native stream. *)
LEMMA NativeBlocksType ==
  ASSUME NEW m \in Seq(BlockKinds)
  PROVE  /\ NativeBlocks(m) \in Seq(Seq(Inner)) /\ Len(NativeBlocks(m)) = Len(m)
         /\ \A i \in 1 .. Len(m) : NativeBlocks(m)[i] = NativeBlock(m, i)
<1>1. DOMAIN m = 1 .. Len(m) /\ Len(m) \in Nat
  BY LenProperties
<1>2. \A i \in 1 .. Len(m) : NativeBlock(m, i) \in Seq(Inner)
  BY NativeBlockType
<1> QED BY <1>1, <1>2, IsASeq DEF NativeBlocks

OpenBlock(m, i) ==
  IF m[i] = "text" THEN <<Event("text", i)>> ELSE [n \in 1 .. Fragments |-> Event("part", i)]

OpenBlocks(m) ==
  [i \in DOMAIN m |->
     IF m[i] = "text" THEN <<Event("text", i)>> ELSE [n \in 1 .. Fragments |-> Event("part", i)]]

(* The chunks but the last of an OpenAI-compatible provider. *)
LEMMA OpenBlocksType ==
  ASSUME NEW m \in Seq(BlockKinds)
  PROVE  /\ OpenBlocks(m) \in Seq(Seq(Inner)) /\ Len(OpenBlocks(m)) = Len(m)
         /\ \A i \in 1 .. Len(m) : OpenBlocks(m)[i] = OpenBlock(m, i)
<1>1. DOMAIN m = 1 .. Len(m) /\ Len(m) \in Nat
  BY LenProperties
<1>2. ASSUME NEW i \in 1 .. Len(m) PROVE OpenBlock(m, i) \in Seq(Inner)
  <2>1. Event("text", i) \in Inner /\ Event("part", i) \in Inner
    BY EventIs, <1>1 DEF EventKinds
  <2>2. Fragments \in Nat
    BY ApiAssumption
  <2>3. [n \in 1 .. Fragments |-> Event("part", i)] \in Seq(Inner)
    BY <2>1, <2>2, IsASeq
  <2>4. <<Event("text", i)>> \in Seq(Inner)
    BY <2>1
  <2> QED BY <2>3, <2>4 DEF OpenBlock
<1>3. OpenBlocks(m) = [i \in 1 .. Len(m) |-> OpenBlock(m, i)]
  BY <1>1 DEF OpenBlocks, OpenBlock
<1> QED BY <1>1, <1>2, <1>3, IsASeq

(* Joined sequences are a sequence. *)
LEMMA FlattenType ==
  ASSUME NEW S, NEW seqs \in Seq(Seq(S))
  PROVE  FlattenSeq(seqs) \in Seq(S)
<1>1. Len(seqs) \in 0 .. Len(seqs)
  OBVIOUS
<1>2. PICK f \in [0 .. Len(seqs) -> Seq(S)] : FlattenSeq(seqs) = f[Len(seqs)]
  BY FlattenIs
<1> QED BY <1>1, <1>2

NativeStart == <<Event("start", 0), Event("ping", 0)>>
NativeEnd == <<Event("usage", 0), Event("stop", 0)>>

(* A native stream. *)
LEMMA NativeType ==
  ASSUME NEW m \in Seq(BlockKinds)
  PROVE  /\ Native(m) = (NativeStart \o FlattenSeq(NativeBlocks(m))) \o NativeEnd
         /\ FlattenSeq(NativeBlocks(m)) \in Seq(Inner)
         /\ NativeStart \in Seq(Inner) /\ NativeEnd \in Seq(Events)
         /\ Native(m) \in Seq(Events)
<1>1. /\ \A kind \in {"start", "ping"} : Event(kind, 0) \in Inner
      /\ \A kind \in {"usage", "stop"} : Event(kind, 0) \in Events
  BY EventIs DEF EventKinds
<1>2. NativeStart \in Seq(Inner) /\ NativeEnd \in Seq(Events)
  BY <1>1 DEF NativeStart, NativeEnd
<1>3. FlattenSeq(NativeBlocks(m)) \in Seq(Inner)
  BY NativeBlocksType, FlattenType
<1>4. Native(m) = (NativeStart \o FlattenSeq(NativeBlocks(m))) \o NativeEnd
  BY Zenon DEF Native, NativeStart, NativeEnd, NativeBlocks
<1>5. Native(m) \in Seq(Events)
  BY <1>2, <1>3, <1>4, InnerEvents, ConcatProperties
<1> QED BY <1>2, <1>3, <1>4, <1>5

(* The stream of an OpenAI-compatible provider. *)
LEMMA OpenAiType ==
  ASSUME NEW m \in Seq(BlockKinds)
  PROVE  /\ OpenAi(m) = FlattenSeq(OpenBlocks(m)) \o <<Event("done", 0)>>
         /\ FlattenSeq(OpenBlocks(m)) \in Seq(Inner) /\ Event("done", 0) \in Events
         /\ OpenAi(m) \in Seq(Events)
<1>1. Event("done", 0) \in Events
  BY EventIs DEF EventKinds
<1>2. FlattenSeq(OpenBlocks(m)) \in Seq(Inner)
  BY OpenBlocksType, FlattenType
<1>3. OpenAi(m) = FlattenSeq(OpenBlocks(m)) \o <<Event("done", 0)>>
  BY Zenon DEF OpenAi, OpenBlocks
<1>4. OpenAi(m) \in Seq(Events)
  BY <1>1, <1>2, <1>3, InnerEvents, ConcatProperties
<1> QED BY <1>1, <1>2, <1>3, <1>4

(* The stream of either. *)
LEMMA StreamedType ==
  ASSUME NEW c, NEW m \in Seq(BlockKinds)
  PROVE  Streamed(c, m) \in Seq(Events)
BY NativeType, OpenAiType DEF Streamed

--------------------------------------------------------------------------------
(* What the clients make of it. *)
Pieces == [kind : {"text", "tool", "usage", "stop"}, block : Nat, got : Nat]
Tools == [kind : {"tool"}, block : Nat, got : Nat]

(* The parts of a reply. *)
LEMMA ReplyParts ==
  ASSUME NEW r \in Reply
  PROVE  /\ r = [out |-> r.out, tool |-> r.tool, calls |-> r.calls]
         /\ r.out \in Seq(Pieces) /\ r.tool \in Tools /\ r.calls \in Seq(Tools)
BY DEF Reply, Pieces, Tools

(* A reply from its parts. *)
LEMMA ReplyFrom ==
  ASSUME NEW out \in Seq(Pieces), NEW tool \in Tools, NEW calls \in Seq(Tools)
  PROVE  [out |-> out, tool |-> tool, calls |-> calls] \in Reply
BY DEF Reply, Pieces, Tools

(* Pieces of every kind. *)
LEMMA PieceType ==
  ASSUME NEW kind \in {"text", "tool", "usage", "stop"}, NEW block \in Nat, NEW got \in Nat
  PROVE  /\ Piece(kind, block, got) \in Pieces
         /\ kind = "tool" => Piece(kind, block, got) \in Tools
BY DEF Piece, Pieces, Tools

(* What a client can hold: the parts of a reply, and a reply again.        *)
LEMMA CollectType ==
  ASSUME NEW r \in Reply, NEW piece \in Pieces
  PROVE  /\ Collect(r, piece) = [out |-> Append(r.out, piece), tool |-> r.tool, calls |-> r.calls]
         /\ Collect(r, piece) \in Reply
<1>1. Collect(r, piece) = [out |-> Append(r.out, piece), tool |-> r.tool, calls |-> r.calls]
  BY ReplyParts DEF Collect
<1>2. Append(r.out, piece) \in Seq(Pieces)
  BY ReplyParts, AppendProperties
<1> QED BY <1>1, <1>2, ReplyParts, ReplyFrom

(* The input a tool use starts with. *)
LEMMA GivenType == \A m, i : Given(m, i) \in Nat
BY ApiAssumption DEF Given

(* Parts of calls are counted. *)
LEMMA AccumulateType ==
  ASSUME NEW r \in Reply, NEW i \in Nat
  PROVE  Accumulate(r, i) \in Reply
<1>1. CASE r.calls # <<>> /\ Last(r.calls).block = i
  <2> DEFINE n == Len(r.calls)
             call1 == [r.calls[n] EXCEPT !.got = @ + 1]
  <2>1. r.calls \in Seq(Tools) /\ n \in 1 .. n /\ r.calls[n] \in Tools
    <3>1. r.calls \in Seq(Tools)
      BY ReplyParts
    <3>2. n \in 1 .. n
      BY <3>1, <1>1, EmptySeq
    <3> QED BY <3>1, <3>2, ElementOfSeq
  <2>2. call1 \in Tools
    BY <2>1 DEF Tools
  <2>3. [r.calls EXCEPT ![n] = call1] \in Seq(Tools)
    <3> HIDE DEF call1
    <3> QED BY <2>1, <2>2, ExceptSeq
  <2>4. Accumulate(r, i) = [out |-> r.out, tool |-> r.tool, calls |-> [r.calls EXCEPT ![n] = call1]]
    BY <1>1, ReplyParts, SMTT(30) DEF Accumulate
  <2> QED BY <2>3, <2>4, ReplyParts, ReplyFrom
<1>2. CASE ~(r.calls # <<>> /\ Last(r.calls).block = i)
  <2> DEFINE calls == Append(r.calls, Piece("tool", i, 1))
  <2>1. Accumulate(r, i) = [out |-> r.out, tool |-> r.tool, calls |-> calls]
    <3>1. Accumulate(r, i) = [r EXCEPT !.calls = calls]
      BY <1>2, Zenon DEF Accumulate
    <3> HIDE DEF calls
    <3> QED BY <3>1, ReplyParts
  <2>2. calls \in Seq(Tools)
    BY ReplyParts, PieceType, AppendProperties
  <2> HIDE DEF calls
  <2> QED BY <2>1, <2>2, ReplyParts, ReplyFrom
<1> QED BY <1>1, <1>2

(* Content, piece by piece: f is what there is after each.                 *)
Keeping(f, out) ==
  /\ Content(out) = f[Len(out)] /\ f[0] = <<>>
  /\ \A i \in 1 .. Len(out) :
       f[i] = IF out[i].kind \in {"text", "tool"} THEN Append(f[i - 1], out[i]) ELSE f[i - 1]

(* There is such an f, of the type of what is kept. *)
LEMMA ContentIs ==
  ASSUME NEW S, NEW T, \A p \in S : p.kind \in {"text", "tool"} => p \in T,
         NEW out \in Seq(S)
  PROVE  \E f \in [0 .. Len(out) -> Seq(T)] : Keeping(f, out)
<1> DEFINE N == Len(out)
           Keep(s, i) == IF out[i].kind \in {"text", "tool"} THEN Append(s, out[i]) ELSE s
           Is(g) == g = [n \in 0 .. N |-> IF n = 0 THEN <<>>
                                          ELSE IF out[n].kind \in {"text", "tool"}
                                          THEN Append(g[n - 1], out[n])
                                          ELSE g[n - 1]]
           F == CHOOSE g : Is(g)
           step == [i \in 1 .. N |-> [s \in Seq(T) |-> Keep(s, i)]]
<1>1. Content(out) = F[N]
  BY Zenon DEF Content
<1>2. step \in [1 .. N -> [Seq(T) -> Seq(T)]] /\ N \in Nat
  <2>1. ASSUME NEW i \in 1 .. N, NEW s \in Seq(T) PROVE Keep(s, i) \in Seq(T)
    <3>1. out[i] \in S
      BY ElementOfSeq
    <3> QED BY <3>1, AppendProperties
  <2> QED BY <2>1, LenProperties
<1>3. PICK f \in [0 .. N -> Seq(T)] : Recurses(f, <<>>, N, step)
  <2> HIDE DEF step, N
  <2>1. Recursion(Seq(T), <<>>, N, step)
    BY <1>2, EmptySeq DEF Recursion
  <2> QED BY <2>1, PrimitiveRecursion
<1> HIDE DEF N
<1>4. \A i \in 1 .. N : f[i] = Keep(f[i - 1], i)
  <2> TAKE i \in 1 .. N
  <2>1. f[i - 1] \in Seq(T)
    BY <1>2
  <2> HIDE DEF Keep
  <2> QED BY <1>3, <2>1 DEF Recurses
<1>5. Is(f)
  <2>1. \A n \in 0 .. N : f[n] = IF n = 0 THEN <<>> ELSE Keep(f[n - 1], n)
    <3> HIDE DEF Keep
    <3> QED BY <1>2, <1>3, <1>4 DEF Recurses
  <2>2. f = [n \in 0 .. N |-> f[n]]
    BY <1>3
  <2> QED BY <2>1, <2>2, Zenon
<1>6. Is(F)
  <2> HIDE DEF Is
  <2> QED BY <1>5
<1>7. F = f
  <2> HIDE DEF F
  <2>1. F[0] = <<>> /\ \A i \in 1 .. N : F[i] = Keep(F[i - 1], i)
    <3>1. 0 \in 0 .. N /\ \A i \in 1 .. N : i \in 0 .. N /\ i # 0
      BY <1>2
    <3>2. \A n \in 0 .. N : F[n] = IF n = 0 THEN <<>> ELSE Keep(F[n - 1], n)
      BY <1>6, Zenon
    <3> QED BY <3>1, <3>2
  <2>2. SameSteps(F, f, N)
    <3>1. f[0] = <<>>
      BY <1>3 DEF Recurses
    <3> HIDE DEF Keep
    <3> QED BY <1>2, <1>4, <2>1, <3>1 DEF SameSteps
  <2>3. \A i \in 0 .. N : F[i] = f[i]
    BY <2>2, RecursionIsUnique, ZenonT(30)
  <2> QED BY <1>6, <2>3
<1>8. Keeping(f, out)
  BY <1>1, <1>3, <1>4, <1>7 DEF Recurses, N, Keeping
<1> QED BY <1>3, <1>8 DEF N

(* Nothing says nothing. *)
LEMMA ContentEmpty == Content(<<>>) = <<>>
<1> DEFINE none == <<>>
<1>1. none \in Seq(Pieces) /\ Len(none) = 0 /\ Content(none) = Content(<<>>)
  BY EmptySeq
<1> HIDE DEF none
<1>2. PICK f \in [0 .. Len(none) -> Seq(Pieces)] : Keeping(f, none)
  BY <1>1, ContentIs
<1> QED BY <1>1, <1>2 DEF Keeping

(* One piece more. *)
LEMMA ContentGrows ==
  ASSUME NEW S, NEW T, \A p \in S : p.kind \in {"text", "tool"} => p \in T,
         NEW out \in Seq(S), NEW p \in S
  PROVE  /\ Content(out) \in Seq(T)
         /\ Content(Append(out, p))
              = IF p.kind \in {"text", "tool"} THEN Append(Content(out), p) ELSE Content(out)
<1> DEFINE t == Append(out, p)
<1>1. /\ t \in Seq(S) /\ Len(t) = Len(out) + 1 /\ t[Len(out) + 1] = p
      /\ \A i \in 1 .. Len(out) : t[i] = out[i]
      /\ Len(out) \in Nat
  BY AppendProperties, LenProperties
<1> HIDE DEF t
<1>2. PICK f \in [0 .. Len(out) -> Seq(T)] : Keeping(f, out)
  BY ContentIs
<1>3. PICK g \in [0 .. Len(t) -> Seq(T)] : Keeping(g, t)
  BY <1>1, ContentIs
<1>4. \A i \in 0 .. Len(out) : f[i] = g[i]
  <2>1. \A i \in 1 .. Len(out) :
          g[i] = IF out[i].kind \in {"text", "tool"} THEN Append(g[i - 1], out[i]) ELSE g[i - 1]
    BY <1>1, <1>3 DEF Keeping
  <2>2. \A i \in 1 .. Len(out) :
          f[i] = IF out[i].kind \in {"text", "tool"} THEN Append(f[i - 1], out[i]) ELSE f[i - 1]
    BY <1>2 DEF Keeping
  <2>3. SameSteps(f, g, Len(out))
    <3>1. f[0] = g[0]
      BY <1>2, <1>3 DEF Keeping
    <3>2. ASSUME NEW i \in 1 .. Len(out), f[i - 1] = g[i - 1] PROVE f[i] = g[i]
      BY <2>1, <2>2, <3>2
    <3> QED BY <1>1, <3>1, <3>2 DEF SameSteps
  <2> QED BY <2>3, RecursionIsUnique
<1>5. g[Len(out) + 1] = IF p.kind \in {"text", "tool"} THEN Append(g[Len(out)], p)
                        ELSE g[Len(out)]
  <2>1. Len(out) + 1 \in 1 .. Len(t) /\ (Len(out) + 1) - 1 = Len(out)
    BY <1>1
  <2> DEFINE n == Len(out) + 1
  <2>2. n \in 1 .. Len(t) /\ n - 1 = Len(out) /\ t[n] = p
    BY <1>1, <2>1
  <2> HIDE DEF n
  <2>3. g[n] = IF t[n].kind \in {"text", "tool"} THEN Append(g[n - 1], t[n]) ELSE g[n - 1]
    BY <1>3, <2>2 DEF Keeping
  <2> QED BY <2>2, <2>3 DEF n
<1>6. Len(out) \in 0 .. Len(out) /\ f[Len(out)] = g[Len(out)]
  BY <1>1, <1>4
<1>7. Content(out) = f[Len(out)] /\ Content(t) = g[Len(out) + 1] /\ f[Len(out)] \in Seq(T)
  BY <1>1, <1>2, <1>3, <1>6 DEF Keeping
<1> QED BY <1>5, <1>6, <1>7 DEF t

(* Of what a client holds. *)
LEMMA ContentAppend ==
  ASSUME NEW out \in Seq(Pieces), NEW p \in Pieces
  PROVE  /\ Content(out) \in Seq(Pieces)
         /\ Content(Append(out, p))
              = IF p.kind \in {"text", "tool"} THEN Append(Content(out), p) ELSE Content(out)
BY ContentGrows

(* Of what may be lost. *)
LEMMA LostIs ==
  /\ Lost.kind = "lost"
  /\ \A p \in Pieces \cup {Lost} : p.kind \in {"text", "tool"} => p \in Pieces
  /\ \A p \in Tools \cup {Lost} : p.kind \in {"text", "tool"} => p \in Tools
BY DEF Lost, Piece

(* Of the calls that are handed on. *)
LEMMA HandedType ==
  ASSUME NEW m, NEW calls \in Seq(Tools)
  PROVE  /\ Handed(m, calls) \in Seq(Tools \cup {Lost}) /\ Len(Handed(m, calls)) = Len(calls)
         /\ \A k \in 1 .. Len(calls) : Handed(m, calls)[k] = HandedOn(m, calls[k])
<1>1. DOMAIN calls = 1 .. Len(calls) /\ Len(calls) \in Nat
  BY LenProperties
<1>2. ASSUME NEW c \in Tools PROVE HandedOn(m, c) \in Tools \cup {Lost}
  <2>1. c.block \in Nat
    BY DEF Tools
  <2>2. Piece("tool", c.block, 0) \in Tools
    BY <2>1, PieceType
  <2> QED BY <2>2 DEF HandedOn
<1>3. \A k \in 1 .. Len(calls) : HandedOn(m, calls[k]) \in Tools \cup {Lost}
  BY <1>2, ElementOfSeq
<1> QED BY <1>1, <1>3, IsASeq DEF Handed

(* They are calls. *)
LEMMA HandedContent ==
  ASSUME NEW m, NEW calls \in Seq(Tools)
  PROVE  Content(Handed(m, calls)) \in Seq(Tools)
<1> DEFINE handed == Handed(m, calls)
           S == Tools \cup {Lost}
<1>1. handed \in Seq(S)
  BY HandedType
<1>2. Lost \in S /\ \A p \in S : p.kind \in {"text", "tool"} => p \in Tools
  BY LostIs
<1> HIDE DEF handed, S
<1>3. Content(handed) \in Seq(Tools)
  BY <1>1, <1>2, ContentGrows
<1> QED BY <1>3 DEF handed

(* One call more. *)
LEMMA HandedGrows ==
  ASSUME NEW m, NEW calls \in Seq(Tools), NEW p \in Tools
  PROVE  Content(Handed(m, Append(calls, p)))
           = IF HandedOn(m, p).kind \in {"text", "tool"}
             THEN Append(Content(Handed(m, calls)), HandedOn(m, p))
             ELSE Content(Handed(m, calls))
<1> DEFINE more   == Append(calls, p)
           handed == Handed(m, calls)
           S      == Tools \cup {Lost}
           q      == HandedOn(m, p)
           other  == Append(handed, q)
           this   == Handed(m, more)
<1>1. /\ more \in Seq(Tools) /\ Len(more) = Len(calls) + 1 /\ more[Len(calls) + 1] = p
      /\ \A k \in 1 .. Len(calls) : more[k] = calls[k]
      /\ Len(calls) \in Nat
  BY AppendProperties, LenProperties
<1>2. /\ handed \in Seq(S) /\ Len(handed) = Len(calls)
      /\ \A k \in 1 .. Len(calls) : handed[k] = HandedOn(m, calls[k])
  BY HandedType
<1> HIDE DEF more
<1>3. /\ this \in Seq(S) /\ Len(this) = Len(more)
      /\ \A k \in 1 .. Len(more) : this[k] = HandedOn(m, more[k])
  BY <1>1, HandedType
<1>4. Len(calls) + 1 \in 1 .. Len(more)
  BY <1>1
<1>5. q \in S /\ this[Len(calls) + 1] = q
  <2>1. this[Len(calls) + 1] = q
    <3> HIDE DEF this
    <3> QED BY <1>1, <1>3, <1>4
  <2>2. this[Len(calls) + 1] \in S
    <3> HIDE DEF this, S
    <3> QED BY <1>3, <1>4, ElementOfSeq
  <2> QED BY <2>1, <2>2
<1>6. Lost \in S /\ \A x \in S : x.kind \in {"text", "tool"} => x \in Tools
  BY LostIs
<1> HIDE DEF handed, S, q, this
<1>7. /\ other \in Seq(S) /\ Len(other) = Len(calls) + 1 /\ other[Len(calls) + 1] = q
      /\ \A k \in 1 .. Len(calls) : other[k] = handed[k]
  BY <1>2, <1>5, AppendProperties
<1>8. \A k \in 1 .. Len(this) : this[k] = other[k]
  <2> TAKE k \in 1 .. Len(this)
  <2>1. CASE k = Len(calls) + 1
    BY <1>5, <1>7, <2>1
  <2>2. CASE k # Len(calls) + 1
    <3>1. k \in 1 .. Len(calls) /\ k \in 1 .. Len(more)
      BY <1>1, <1>3, <2>2
    <3> QED BY <1>1, <1>2, <1>3, <1>7, <3>1
  <2> QED BY <2>1, <2>2
<1> HIDE DEF other
<1>9. this = other
  BY <1>1, <1>3, <1>7, <1>8, SeqEqual
<1>10. Content(Append(handed, q)) = IF q.kind \in {"text", "tool"}
                                   THEN Append(Content(handed), q) ELSE Content(handed)
  BY <1>2, <1>5, <1>6, ContentGrows
<1> QED BY <1>9, <1>10 DEF this, other, more, handed, q

(* No calls are none. *)
LEMMA HandedNone == \A m : Content(Handed(m, <<>>)) = <<>>
<1> TAKE m
<1> DEFINE none == <<>>
           this == Handed(m, none)
<1>1. none \in Seq(Tools) /\ Len(none) = 0
  BY EmptySeq
<1> HIDE DEF none
<1>2. this \in Seq(Tools \cup {Lost}) /\ Len(this) = 0
  BY <1>1, HandedType
<1> HIDE DEF this
<1>3. this = <<>>
  BY <1>2, EmptySeq
<1> QED BY <1>3, ContentEmpty DEF this, none

(* Flushed calls become part of the output. *)
LEMMA FlushCallsType ==
  ASSUME NEW m, NEW r \in Reply
  PROVE  /\ FlushCalls(m, r)
              = [out |-> Append(r.out \o Content(Handed(m, r.calls)), Piece("stop", 0, 0)),
                 tool |-> r.tool, calls |-> <<>>]
         /\ FlushCalls(m, r) \in Reply
<1> DEFINE stop == Piece("stop", 0, 0)
           said == Content(Handed(m, r.calls))
           out  == Append(r.out \o said, stop)
<1>1. /\ r.out \in Seq(Pieces) /\ said \in Seq(Pieces) /\ r.tool \in Tools
      /\ stop \in Pieces
  <2>1. Tools \subseteq Pieces
    BY DEF Pieces, Tools
  <2>2. said \in Seq(Tools)
    BY ReplyParts, HandedContent
  <2>3. said \in Seq(Pieces)
    BY <2>1, <2>2, SeqMonotonic
  <2> QED BY <2>3, ReplyParts, PieceType
<1>3. FlushCalls(m, r) = [r EXCEPT !.out = r.out \o said \o <<stop>>, !.calls = <<>>]
  BY Zenon DEF FlushCalls
<1> HIDE DEF said
<1>2. out = r.out \o said \o <<stop>> /\ out \in Seq(Pieces)
  <2> HIDE DEF stop
  <2>1. r.out \o said \in Seq(Pieces)
    BY <1>1, ConcatProperties
  <2> QED BY <1>1, <2>1, AppendIsConcat, AppendProperties
<1> HIDE DEF out, stop
<1>4. FlushCalls(m, r) = [out |-> out, tool |-> r.tool, calls |-> <<>>]
  BY <1>2, <1>3, ReplyParts, ZenonT(30)
<1>5. <<>> \in Seq(Tools)
  BY EmptySeq
<1> QED BY <1>1, <1>2, <1>4, <1>5, ReplyFrom DEF out, stop, said

(* The CLI takes an event. *)
LEMMA CliTakesType ==
  ASSUME NEW m, NEW r \in Reply, NEW e \in Events
  PROVE  CliTakes(m, r, e) \in Reply
<1>1. e.block \in Nat /\ Given(m, e.block) \in Nat
  BY GivenType DEF Events
<1>2. /\ Collect(r, Piece("usage", 0, 0)) \in Reply
      /\ Collect(r, Piece("text", e.block, 0)) \in Reply
      /\ Collect(r, Piece("tool", e.block, Given(m, e.block))) \in Reply
      /\ Collect(r, Piece("stop", 0, 0)) \in Reply
  BY <1>1, PieceType, CollectType
<1>3. Accumulate(r, e.block) \in Reply /\ FlushCalls(m, r) \in Reply
  BY <1>1, AccumulateType, FlushCallsType
<1> QED BY <1>2, <1>3 DEF CliTakes

(* A sub-agent takes an event. *)
LEMMA AgentTakesType ==
  ASSUME NEW m, NEW r \in Reply, NEW e \in Events
  PROVE  AgentTakes(m, r, e) \in Reply
<1>1. e.block \in Nat /\ Given(m, e.block) \in Nat
  BY GivenType DEF Events
<1>2. /\ Collect(r, Piece("usage", 0, 0)) \in Reply
      /\ Collect(r, Piece("text", e.block, 0)) \in Reply
      /\ Collect(r, Piece("stop", 0, 0)) \in Reply
  BY <1>1, PieceType, CollectType
<1>3. [r EXCEPT !.tool = Piece("tool", e.block, Given(m, e.block))] \in Reply
  BY <1>1, PieceType, ReplyParts, ReplyFrom
<1>4. [r EXCEPT !.tool = AppendInput(@)] \in Reply
  <2>1. AppendInput(r.tool) \in Tools
    BY ReplyParts, SMTT(30) DEF AppendInput, Tools
  <2> QED BY <2>1, ReplyParts, ReplyFrom
<1>5. [Collect(r, r.tool) EXCEPT !.tool = NoTool] \in Reply
  <2>1. r.tool \in Pieces /\ NoTool \in Tools
    BY ReplyParts DEF Pieces, Tools, NoTool, Piece
  <2>2. Collect(r, r.tool) \in Reply
    BY <2>1, CollectType
  <2> DEFINE c == Collect(r, r.tool)
  <2> HIDE DEF c
  <2>3. ASSUME c \in Reply PROVE [c EXCEPT !.tool = NoTool] \in Reply
    BY <2>1, <2>3, ReplyParts, ReplyFrom
  <2> QED BY <2>2, <2>3 DEF c
<1> QED BY <1>2, <1>3, <1>4, <1>5 DEF AgentTakes

(* Whoever it is takes an event. *)
LEMMA TakesType ==
  ASSUME NEW c, NEW m, NEW r \in Reply, NEW e \in Events
  PROVE  Takes(c, m, r, e) \in Reply
BY CliTakesType, AgentTakesType DEF Takes

(* Who starts to read holds nothing. *)
LEMMA NoReplyType == NoReply \in Reply
<1>1. NoTool \in Tools /\ <<>> \in Seq(Pieces) /\ <<>> \in Seq(Tools)
  BY PieceType DEF NoTool
<1> QED BY <1>1, ReplyFrom DEF NoReply

--------------------------------------------------------------------------------
(* Taking events one after the other: f is what is held after each.        *)
Taking(f, c, m, r, es) ==
  /\ f \in [0 .. Len(es) -> Reply]
  /\ TakeAll(c, m, r, es) = f[Len(es)] /\ f[0] = r
  /\ \A i \in 1 .. Len(es) : f[i] = Takes(c, m, f[i - 1], es[i])

(* There is such an f. *)
LEMMA TakeAllIs ==
  ASSUME NEW c, NEW m, NEW r \in Reply, NEW es \in Seq(Events)
  PROVE  \E f : Taking(f, c, m, r, es)
<1> DEFINE N == Len(es)
           Is(g) == g = [n \in 0 .. N |-> IF n = 0 THEN r ELSE Takes(c, m, g[n - 1], es[n])]
           F == CHOOSE g : Is(g)
           step == [i \in 1 .. N |-> [s \in Reply |-> Takes(c, m, s, es[i])]]
<1>1. TakeAll(c, m, r, es) = F[N]
  BY Zenon DEF TakeAll
<1>2. step \in [1 .. N -> [Reply -> Reply]] /\ N \in Nat
  <2>1. ASSUME NEW i \in 1 .. N, NEW s \in Reply PROVE Takes(c, m, s, es[i]) \in Reply
    BY ElementOfSeq, TakesType
  <2> QED BY <2>1, LenProperties
<1>3. PICK f \in [0 .. N -> Reply] : Recurses(f, r, N, step)
  <2> HIDE DEF step, N
  <2>1. Recursion(Reply, r, N, step)
    BY <1>2 DEF Recursion
  <2> QED BY <2>1, PrimitiveRecursion
<1> HIDE DEF N
<1>4. \A i \in 1 .. N : f[i] = Takes(c, m, f[i - 1], es[i])
  <2> TAKE i \in 1 .. N
  <2>1. f[i - 1] \in Reply
    BY <1>2
  <2> QED BY <1>3, <2>1 DEF Recurses
<1>5. Is(f)
  BY <1>2, <1>3, <1>4 DEF Recurses
<1>6. Is(F)
  <2> HIDE DEF Is
  <2> QED BY <1>5
<1>7. F = f
  <2> HIDE DEF F
  <2>1. F[0] = r /\ \A i \in 1 .. N : F[i] = Takes(c, m, F[i - 1], es[i])
    <3>1. 0 \in 0 .. N /\ \A i \in 1 .. N : i \in 0 .. N /\ i # 0
      BY <1>2
    <3>2. \A n \in 0 .. N : F[n] = IF n = 0 THEN r ELSE Takes(c, m, F[n - 1], es[n])
      BY <1>6, Zenon
    <3> QED BY <3>1, <3>2
  <2>2. SameSteps(F, f, N)
    BY <1>2, <1>3, <1>4, <2>1 DEF SameSteps, Recurses
  <2>3. \A i \in 0 .. N : F[i] = f[i]
    BY <2>2, RecursionIsUnique, ZenonT(30)
  <2> QED BY <1>6, <2>3
<1>8. Taking(f, c, m, r, es)
  BY <1>1, <1>3, <1>4, <1>7 DEF Recurses, N, Taking
<1> QED BY <1>8

(* No event changes nothing. *)
LEMMA TakeAllNone ==
  ASSUME NEW c, NEW m, NEW r \in Reply
  PROVE  TakeAll(c, m, r, <<>>) = r
<1> DEFINE none == <<>>
<1>1. none \in Seq(Events) /\ Len(none) = 0
  BY EmptySeq
<1> HIDE DEF none
<1>2. PICK f : Taking(f, c, m, r, none)
  BY <1>1, TakeAllIs
<1> QED BY <1>1, <1>2 DEF Taking, none

(* What is held is a reply. *)
LEMMA TakeAllType ==
  ASSUME NEW c, NEW m, NEW r \in Reply, NEW es \in Seq(Events)
  PROVE  TakeAll(c, m, r, es) \in Reply
<1>1. PICK f : Taking(f, c, m, r, es)
  BY TakeAllIs
<1>2. Len(es) \in 0 .. Len(es)
  BY LenProperties
<1> QED BY <1>1, <1>2 DEF Taking

(* Events may be taken in two parts. *)
LEMMA TakeAllTwice ==
  ASSUME NEW c, NEW m, NEW r \in Reply, NEW es1 \in Seq(Events), NEW es2 \in Seq(Events)
  PROVE  TakeAll(c, m, r, es1 \o es2) = TakeAll(c, m, TakeAll(c, m, r, es1), es2)
<1> DEFINE es == es1 \o es2
           mid == TakeAll(c, m, r, es1)
<1>1. /\ es \in Seq(Events) /\ Len(es) = Len(es1) + Len(es2)
      /\ Len(es1) \in Nat /\ Len(es2) \in Nat
      /\ \A i \in 1 .. Len(es1) : es[i] = es1[i]
      /\ \A i \in 1 .. Len(es2) : es[Len(es1) + i] = es2[i]
  <2> HIDE DEF mid
  <2>1. Len(es1) \in Nat /\ Len(es2) \in Nat
    BY LenProperties
  <2>2. /\ es \in Seq(Events) /\ Len(es) = Len(es1) + Len(es2)
        /\ \A i \in 1 .. Len(es1) + Len(es2) :
             es[i] = IF i <= Len(es1) THEN es1[i] ELSE es2[i - Len(es1)]
    BY ConcatProperties
  <2> HIDE DEF es
  <2>3. \A i \in 1 .. Len(es1) : es[i] = es1[i]
    BY <2>1, <2>2
  <2>4. ASSUME NEW i \in 1 .. Len(es2) PROVE es[Len(es1) + i] = es2[i]
    <3>1. /\ Len(es1) + i \in 1 .. Len(es1) + Len(es2) /\ ~(Len(es1) + i <= Len(es1))
          /\ (Len(es1) + i) - Len(es1) = i
      BY <2>1
    <3> QED BY <2>2, <3>1
  <2> QED BY <2>1, <2>2, <2>3, <2>4
<1>2. mid \in Reply
  BY TakeAllType
<1> HIDE DEF es, mid
<1>3. PICK f : Taking(f, c, m, r, es)
  BY <1>1, TakeAllIs
<1>4. PICK g : Taking(g, c, m, r, es1)
  BY TakeAllIs
<1>5. PICK h : Taking(h, c, m, mid, es2)
  BY <1>2, TakeAllIs
<1>6. \A i \in 0 .. Len(es1) : f[i] = g[i]
  <2>1. \A i \in 1 .. Len(es1) : f[i] = Takes(c, m, f[i - 1], es1[i])
    BY <1>1, <1>3 DEF Taking
  <2>2. SameSteps(f, g, Len(es1))
    BY <1>1, <1>3, <1>4, <2>1 DEF SameSteps, Taking
  <2> QED BY <2>2, RecursionIsUnique
<1>7. f[Len(es1)] = mid
  BY <1>1, <1>4, <1>6 DEF mid, Taking
<1>8. f[Len(es1) + Len(es2)] = h[Len(es2)]
  <2> DEFINE f2 == [i \in 0 .. Len(es2) |-> f[Len(es1) + i]]
  <2>1. f2[0] = mid
    BY <1>1, <1>7
  <2>2. ASSUME NEW i \in 1 .. Len(es2) PROVE f2[i] = Takes(c, m, f2[i - 1], es2[i])
    <3>1. Len(es1) + i \in 1 .. Len(es) /\ (Len(es1) + i) - 1 = Len(es1) + (i - 1)
      BY <1>1
    <3>2. f[Len(es1) + i] = Takes(c, m, f[Len(es1) + (i - 1)], es2[i])
      BY <1>1, <1>3, <3>1 DEF Taking
    <3>3. f2[i] = f[Len(es1) + i] /\ f2[i - 1] = f[Len(es1) + (i - 1)]
      BY <1>1
    <3> QED BY <3>2, <3>3
  <2> HIDE DEF f2
  <2>3. SameSteps(f2, h, Len(es2))
    BY <1>1, <1>5, <2>1, <2>2 DEF SameSteps, Taking
  <2>4. f2[Len(es2)] = h[Len(es2)]
    BY <1>1, <2>3, RecursionIsUnique
  <2> QED BY <1>1, <2>4 DEF f2
<1> QED BY <1>1, <1>3, <1>5, <1>8 DEF es, mid, Taking

(* One event. *)
LEMMA TakeAllOne ==
  ASSUME NEW c, NEW m, NEW r \in Reply, NEW e \in Events
  PROVE  TakeAll(c, m, r, <<e>>) = Takes(c, m, r, e)
<1> DEFINE es == <<e>>
<1>1. es \in Seq(Events) /\ Len(es) = 1
  OBVIOUS
<1> HIDE DEF es
<1>2. PICK f : Taking(f, c, m, r, es)
  BY <1>1, TakeAllIs
<1>3. es[1] = e /\ 1 - 1 = 0 /\ 1 \in 1 .. Len(es)
  BY <1>1 DEF es
<1> QED BY <1>1, <1>2, <1>3 DEF Taking, es

(* One event more. *)
LEMMA TakeAllAppend ==
  ASSUME NEW c, NEW m, NEW r \in Reply, NEW es \in Seq(Events), NEW e \in Events
  PROVE  TakeAll(c, m, r, es \o <<e>>) = Takes(c, m, TakeAll(c, m, r, es), e)
<1>1. <<e>> \in Seq(Events)
  OBVIOUS
<1> DEFINE one == <<e>>
<1>2. TakeAll(c, m, r, es \o one) = TakeAll(c, m, TakeAll(c, m, r, es), one)
  <2> HIDE DEF one
  <2>1. one \in Seq(Events)
    BY <1>1 DEF one
  <2> QED BY <2>1, TakeAllTwice
<1>3. TakeAll(c, m, r, es) \in Reply
  BY TakeAllType
<1> QED BY <1>2, <1>3, TakeAllOne

--------------------------------------------------------------------------------
(* The frames in the bytes. *)

(* The least of a set of numbers is the one TLC and the prover choose.     *)
LEMMA LeastIs ==
  ASSUME NEW A \in SUBSET Nat, NEW p \in A, \A q \in A : p <= q
  PROVE  (CHOOSE x \in A : \A q \in A : x <= q) = p
<1> DEFINE c == CHOOSE x \in A : \A q \in A : x <= q
<1>1. c \in A /\ \A q \in A : c <= q
  OBVIOUS
<1> HIDE DEF c
<1>2. c = p
  BY <1>1
<1> QED BY <1>2 DEF c

(* The two blank lines. *)
LfLf == <<LF, LF>>
CrLfCrLf == <<CR, LF, CR, LF>>

(* Their lengths and what they are made of. *)
LEMMA LinesAre ==
  /\ Len(LfLf) = 2 /\ LfLf[1] = LF /\ LfLf[2] = LF
  /\ Len(CrLfCrLf) = 4 /\ CrLfCrLf[1] = CR /\ CrLfCrLf[2] = LF
  /\ CrLfCrLf[3] = CR /\ CrLfCrLf[4] = LF
  /\ BlankLines = {LfLf, CrLfCrLf}
BY DEF LfLf, CrLfCrLf, BlankLines

(* Where two line feeds end. *)
LEMMA PairEnds ==
  ASSUME NEW X \in Seq(Token), NEW p \in 2 .. Len(X)
  PROVE  p \in Ending(X, LfLf) <=> (X[p - 1] = LF /\ X[p] = LF)
<1>0. p \in Ending(X, LfLf) <=> SubSeq(X, p - 2 + 1, p) = LfLf
  BY LinesAre DEF Ending
<1> DEFINE s == SubSeq(X, p - 2 + 1, p)
<1>1. p \in Nat /\ Len(X) \in Nat
  BY LenProperties
<1>2. \A i \in p - 1 .. p : X[i] \in Token
  BY <1>1
<1>3. p - 2 + 1 = p - 1
  BY <1>1
<1>4. /\ s \in Seq(Token) /\ Len(s) = 2
      /\ \A i \in 1 .. 2 : s[i] = X[(p - 1) + i - 1]
  BY <1>1, <1>2, <1>3, SubSeqProperties
<1> HIDE DEF s
<1>5. s[1] = X[p - 1] /\ s[2] = X[p]
  <2>1. (p - 1) + 1 - 1 = p - 1 /\ (p - 1) + 2 - 1 = p /\ 1 \in 1 .. 2 /\ 2 \in 1 .. 2
    BY <1>1
  <2> QED BY <1>4, <2>1
<1>6. s = <<s[1], s[2]>>
  BY <1>4
<1>7. s = LfLf <=> (s[1] = LF /\ s[2] = LF)
  BY <1>6 DEF LfLf
<1> QED BY <1>0, <1>5, <1>7 DEF s

(* Where two line feeds with carriage returns end. *)
LEMMA FourEnd ==
  ASSUME NEW X \in Seq(Token), NEW p \in 4 .. Len(X)
  PROVE  p \in Ending(X, CrLfCrLf)
           <=> (X[p - 3] = CR /\ X[p - 2] = LF /\ X[p - 1] = CR /\ X[p] = LF)
<1>0. p \in Ending(X, CrLfCrLf) <=> SubSeq(X, p - 4 + 1, p) = CrLfCrLf
  BY LinesAre DEF Ending
<1> DEFINE s == SubSeq(X, p - 4 + 1, p)
<1>1. p \in Nat /\ Len(X) \in Nat
  BY LenProperties
<1>2. \A i \in p - 3 .. p : X[i] \in Token
  BY <1>1
<1>3. p - 4 + 1 = p - 3
  BY <1>1
<1>4. /\ s \in Seq(Token) /\ Len(s) = 4
      /\ \A i \in 1 .. 4 : s[i] = X[(p - 3) + i - 1]
  BY <1>1, <1>2, <1>3, SubSeqProperties
<1> HIDE DEF s
<1>5. s[1] = X[p - 3] /\ s[2] = X[p - 2] /\ s[3] = X[p - 1] /\ s[4] = X[p]
  <2>1. /\ (p - 3) + 1 - 1 = p - 3 /\ (p - 3) + 2 - 1 = p - 2
        /\ (p - 3) + 3 - 1 = p - 1 /\ (p - 3) + 4 - 1 = p
    BY <1>1
  <2>2. 1 \in 1 .. 4 /\ 2 \in 1 .. 4 /\ 3 \in 1 .. 4 /\ 4 \in 1 .. 4
    OBVIOUS
  <2> QED BY <1>4, <2>1, <2>2
<1>6. s = <<s[1], s[2], s[3], s[4]>>
  BY <1>4
<1>7. s = CrLfCrLf <=> (s[1] = CR /\ s[2] = LF /\ s[3] = CR /\ s[4] = LF)
  BY <1>6 DEF CrLfCrLf
<1> QED BY <1>0, <1>5, <1>7 DEF s

(* Where a blank line can end. *)
LEMMA EndingType ==
  ASSUME NEW X \in Seq(Token), NEW line \in BlankLines, NEW p \in Ending(X, line)
  PROVE  p \in Len(line) .. Len(X) /\ p \in Nat
<1>1. Len(line) \in Nat
  BY LinesAre
<1>2. p \in Len(line) .. Len(X)
  BY DEF Ending
<1> QED BY <1>1, <1>2, LenProperties

Width(line) == 1 + Len(line)

(* bytes are events, each with a blank line after it. *)
Framed(bytes, es, line) ==
  /\ es \in Seq(Events) /\ line \in BlankLines /\ bytes \in Seq(Token)
  /\ Len(bytes) <= Len(es) * Width(line)
  /\ \A i \in 1 .. Len(bytes) :
       bytes[i] = IF (i - 1) % Width(line) = 0 THEN es[1 + (i - 1) \div Width(line)]
                  ELSE line[(i - 1) % Width(line)]

(* Where events and line feeds are. *)
LEMMA PlacesLF ==
  ASSUME NEW bytes, NEW es, Framed(bytes, es, LfLf), NEW q \in Nat
  PROVE  /\ 3 * q + 1 <= Len(bytes) =>
              q + 1 \in 1 .. Len(es) /\ bytes[3 * q + 1] = es[q + 1] /\ es[q + 1] \in Events
         /\ 3 * q + 2 <= Len(bytes) => bytes[3 * q + 2] = LF
         /\ 3 * q + 3 <= Len(bytes) => bytes[3 * q + 3] = LF
<1> DEFINE line == LfLf
<1>1. Width(line) = 3 /\ line[1] = LF /\ line[2] = LF
  BY LinesAre DEF Width
<1> HIDE DEF line
<1>2. Len(es) \in Nat /\ Len(bytes) \in Nat /\ es \in Seq(Events)
  BY LenProperties DEF Framed
<1>3. /\ Len(bytes) <= Len(es) * 3
      /\ \A i \in 1 .. Len(bytes) :
           bytes[i] = IF (i - 1) % 3 = 0 THEN es[1 + (i - 1) \div 3] ELSE line[(i - 1) % 3]
  BY <1>1 DEF Framed, line
<1>4. ASSUME 3 * q + 1 <= Len(bytes)
      PROVE  q + 1 \in 1 .. Len(es) /\ bytes[3 * q + 1] = es[q + 1] /\ es[q + 1] \in Events
  <2>1. q + 1 \in 1 .. Len(es) /\ 3 * q + 1 \in 1 .. Len(bytes)
    BY <1>2, <1>3, <1>4
  <2>2. (3 * q + 1 - 1) % 3 = 0 /\ 1 + (3 * q + 1 - 1) \div 3 = q + 1
    OBVIOUS
  <2>3. bytes[3 * q + 1] = es[q + 1]
    BY <1>3, <2>1, <2>2
  <2> QED BY <1>2, <2>1, <2>3, ElementOfSeq
<1>5. ASSUME 3 * q + 2 <= Len(bytes) PROVE bytes[3 * q + 2] = LF
  <2>1. 3 * q + 2 \in 1 .. Len(bytes) /\ (3 * q + 2 - 1) % 3 = 1
    BY <1>2, <1>5
  <2> QED BY <1>1, <1>3, <2>1
<1>6. ASSUME 3 * q + 3 <= Len(bytes) PROVE bytes[3 * q + 3] = LF
  <2>1. 3 * q + 3 \in 1 .. Len(bytes) /\ (3 * q + 3 - 1) % 3 = 2
    BY <1>2, <1>6
  <2> QED BY <1>1, <1>3, <2>1
<1> QED BY <1>4, <1>5, <1>6

(* Where events, carriage returns and line feeds are. *)
LEMMA PlacesCRLF ==
  ASSUME NEW bytes, NEW es, Framed(bytes, es, CrLfCrLf), NEW q \in Nat
  PROVE  /\ 5 * q + 1 <= Len(bytes) =>
              q + 1 \in 1 .. Len(es) /\ bytes[5 * q + 1] = es[q + 1] /\ es[q + 1] \in Events
         /\ 5 * q + 2 <= Len(bytes) => bytes[5 * q + 2] = CR
         /\ 5 * q + 3 <= Len(bytes) => bytes[5 * q + 3] = LF
         /\ 5 * q + 4 <= Len(bytes) => bytes[5 * q + 4] = CR
         /\ 5 * q + 5 <= Len(bytes) => bytes[5 * q + 5] = LF
<1> DEFINE line == CrLfCrLf
<1>1. Width(line) = 5 /\ line[1] = CR /\ line[2] = LF /\ line[3] = CR /\ line[4] = LF
  BY LinesAre DEF Width
<1> HIDE DEF line
<1>2. Len(es) \in Nat /\ Len(bytes) \in Nat /\ es \in Seq(Events)
  BY LenProperties DEF Framed
<1>3. /\ Len(bytes) <= Len(es) * 5
      /\ \A i \in 1 .. Len(bytes) :
           bytes[i] = IF (i - 1) % 5 = 0 THEN es[1 + (i - 1) \div 5] ELSE line[(i - 1) % 5]
  BY <1>1 DEF Framed, line
<1>4. ASSUME 5 * q + 1 <= Len(bytes)
      PROVE  q + 1 \in 1 .. Len(es) /\ bytes[5 * q + 1] = es[q + 1] /\ es[q + 1] \in Events
  <2>1. q + 1 \in 1 .. Len(es) /\ 5 * q + 1 \in 1 .. Len(bytes)
    BY <1>2, <1>3, <1>4
  <2>2. (5 * q + 1 - 1) % 5 = 0 /\ 1 + (5 * q + 1 - 1) \div 5 = q + 1
    OBVIOUS
  <2>3. bytes[5 * q + 1] = es[q + 1]
    BY <1>3, <2>1, <2>2
  <2> QED BY <1>2, <2>1, <2>3, ElementOfSeq
<1>5. ASSUME NEW n \in 1 .. 4, 5 * q + 1 + n <= Len(bytes)
      PROVE  bytes[5 * q + 1 + n] = line[n]
  <2>1. 5 * q + 1 + n \in 1 .. Len(bytes) /\ (5 * q + 1 + n - 1) % 5 = n /\ n # 0
    BY <1>2, <1>5
  <2> QED BY <1>3, <2>1
<1>6. 5 * q + 2 = 5 * q + 1 + 1 /\ 5 * q + 3 = 5 * q + 1 + 2 /\ 5 * q + 4 = 5 * q + 1 + 3
      /\ 5 * q + 5 = 5 * q + 1 + 4
  OBVIOUS
<1>7. 1 \in 1 .. 4 /\ 2 \in 1 .. 4 /\ 3 \in 1 .. 4 /\ 4 \in 1 .. 4
  OBVIOUS
<1> QED BY <1>1, <1>4, <1>5, <1>6, <1>7

(* Part of a sequence of tokens. *)
LEMMA PartOf ==
  ASSUME NEW S, NEW s \in Seq(S), NEW a \in Nat, NEW b \in Nat, a <= b, b <= Len(s)
  PROVE  /\ SubSeq(s, a + 1, b) \in Seq(S) /\ Len(SubSeq(s, a + 1, b)) = b - a
         /\ \A i \in 1 .. b - a : SubSeq(s, a + 1, b)[i] = s[a + i]
<1>1. Len(s) \in Nat /\ a + 1 \in Int /\ b \in Int
  BY LenProperties
<1>2. \A i \in a + 1 .. b : s[i] \in S
  BY <1>1, ElementOfSeq
<1>3. /\ SubSeq(s, a + 1, b) \in Seq(S)
      /\ Len(SubSeq(s, a + 1, b)) = IF a + 1 <= b THEN b - (a + 1) + 1 ELSE 0
      /\ \A i \in 1 .. b - (a + 1) + 1 : SubSeq(s, a + 1, b)[i] = s[a + 1 + i - 1]
  BY <1>1, <1>2, SubSeqProperties
<1>4. ASSUME NEW i \in 1 .. b - a PROVE SubSeq(s, a + 1, b)[i] = s[a + i]
  <2>1. i \in 1 .. b - (a + 1) + 1 /\ a + 1 + i - 1 = a + i
    BY <1>4
  <2> QED BY <1>3, <2>1
<1>5. Len(SubSeq(s, a + 1, b)) = b - a
  BY <1>3
<1> QED BY <1>3, <1>4, <1>5

(* A part of a part. *)
LEMMA PartOfPart ==
  ASSUME NEW S, NEW s \in Seq(S), NEW a \in Nat, NEW b \in Nat, a <= b, b <= Len(s),
         NEW c \in 0 .. b - a
  PROVE  SubSeq(SubSeq(s, a + 1, b), c + 1, b - a) = SubSeq(s, a + c + 1, b)
<1> DEFINE t == SubSeq(s, a + 1, b)
           u == SubSeq(t, c + 1, b - a)
           v == SubSeq(s, a + c + 1, b)
<1>1. Len(s) \in Nat /\ c \in Nat /\ b - a \in Nat /\ c <= b - a /\ a + c \in Nat /\ a + c <= b
  BY LenProperties
<1>2. /\ t \in Seq(S) /\ Len(t) = b - a
      /\ \A i \in 1 .. b - a : t[i] = s[a + i]
  BY PartOf
<1> HIDE DEF t
<1>3. /\ u \in Seq(S) /\ Len(u) = (b - a) - c
      /\ \A i \in 1 .. (b - a) - c : u[i] = t[c + i]
  BY <1>1, <1>2, PartOf
<1>4. /\ v \in Seq(S) /\ Len(v) = b - (a + c)
      /\ \A i \in 1 .. b - (a + c) : v[i] = s[(a + c) + i]
  BY <1>1, PartOf
<1> HIDE DEF u, v
<1>5. (b - a) - c = b - (a + c)
  BY <1>1
<1>6. ASSUME NEW i \in 1 .. Len(u) PROVE u[i] = v[i]
  <2>1. i \in 1 .. (b - a) - c /\ c + i \in 1 .. b - a /\ a + (c + i) = (a + c) + i
    BY <1>1, <1>3
  <2> QED BY <1>2, <1>3, <1>4, <1>5, <2>1
<1>7. u = v
  BY <1>3, <1>4, <1>5, <1>6, SeqEqual
<1> QED BY <1>7 DEF t, u, v

(* The bytes that came after the first a of them. *)
From(bytes, a, r) == SubSeq(bytes, a + 1, r)

(* One frame is cut off when it is there with its blank line.              *)
Cuts(bytes, es, W) ==
  \A q \in Nat, r \in Nat, frames \in Seq(Events) :
    W * q <= r /\ r <= Len(bytes) =>
      NextFrame([frames |-> frames, rest |-> From(bytes, W * q, r)])
        = IF W * q + W <= r
          THEN [frames |-> frames \o <<es[q + 1]>>, rest |-> From(bytes, W * q + W, r)]
          ELSE [frames |-> frames, rest |-> From(bytes, W * q, r)]

(* The rest of the bytes from a on begins with an event and its blank line. *)
Complete(bytes, a, r, width) ==
  LET rest == From(bytes, a, r) IN
  /\ bytes \in Seq(Token) /\ a \in Nat /\ r \in Nat /\ r <= Len(bytes)
  /\ width \in {2, 4} /\ a + 1 + width <= r
  /\ Cut(rest).width = width /\ Cut(rest).end \in SUBSET Nat
  /\ 1 + width \in Cut(rest).end /\ \A p \in Cut(rest).end : 1 + width <= p

CutsOff(bytes, a, r, width) ==
  \A frames \in Seq(Events) :
    NextFrame([frames |-> frames, rest |-> From(bytes, a, r)])
      = [frames |-> frames \o <<bytes[a + 1]>>, rest |-> From(bytes, a + 1 + width, r)]

(* Then this event is cut off. *)
LEMMA CutOff ==
  ASSUME NEW bytes, NEW a, NEW r, NEW width, Complete(bytes, a, r, width)
  PROVE  CutsOff(bytes, a, r, width)
<1> SUFFICES ASSUME NEW frames \in Seq(Events)
             PROVE  NextFrame([frames |-> frames, rest |-> From(bytes, a, r)])
                      = [frames |-> frames \o <<bytes[a + 1]>>,
                         rest   |-> From(bytes, a + 1 + width, r)]
  BY DEF CutsOff
<1> USE DEF From
<1> DEFINE X == SubSeq(bytes, a + 1, r)
           E == Cut(X).end
<1>0. /\ bytes \in Seq(Token) /\ a \in Nat /\ r \in Nat /\ r <= Len(bytes)
      /\ width \in {2, 4} /\ a + 1 + width <= r
      /\ Cut(X).width = width /\ E \in SUBSET Nat
      /\ 1 + width \in E /\ \A p \in E : 1 + width <= p
  BY Zenon DEF Complete, From
<1> DEFINE parsed == [frames |-> frames, rest |-> X]
           end == CHOOSE p \in E : \A q \in E : p <= q
<1>1. end = 1 + width
  <2> HIDE DEF E
  <2> QED BY <1>0, LeastIs
<1> HIDE DEF end
<1>2. NextFrame(parsed) = [frames |-> frames \o SubSeq(X, 1, end - width),
                           rest   |-> SubSeq(X, end + 1, Len(X))]
  <2>1. E # {}
    BY <1>0
  <2>2. parsed.rest = X /\ parsed.frames = frames
    OBVIOUS
  <2>3. Cut(parsed.rest).end = E /\ Cut(parsed.rest).width = width
    BY <1>0, <2>2
  <2> HIDE DEF parsed
  <2> QED BY <2>1, <2>2, <2>3, Zenon DEF NextFrame, end
<1>3. /\ X \in Seq(Token) /\ Len(X) = r - a
      /\ \A i \in 1 .. r - a : X[i] = bytes[a + i]
  <2>1. a <= r /\ bytes \in Seq(Token) /\ a \in Nat /\ r \in Nat /\ r <= Len(bytes)
    BY <1>0
  <2> QED BY <2>1, PartOf
<1>4. SubSeq(X, end + 1, Len(X)) = SubSeq(bytes, a + 1 + width + 1, r)
  <2>1. 1 + width \in 0 .. r - a /\ a <= r
    BY <1>0
  <2>2. SubSeq(X, (1 + width) + 1, r - a) = SubSeq(bytes, a + (1 + width) + 1, r)
    <3>1. bytes \in Seq(Token) /\ a \in Nat /\ r \in Nat /\ r <= Len(bytes)
      BY <1>0
    <3> QED BY <2>1, <3>1, PartOfPart
  <2>3. a + (1 + width) + 1 = a + 1 + width + 1
    BY <1>0
  <2> HIDE DEF X
  <2> QED BY <1>1, <1>3, <2>2, <2>3
<1>5. SubSeq(X, 1, end - width) = <<bytes[a + 1]>>
  <2>1. end - width = 1 /\ 1 \in 1 .. r - a
    BY <1>0, <1>1
  <2> HIDE DEF X
  <2>2. X[1] = bytes[a + 1]
    BY <1>3, <2>1
  <2> DEFINE u == SubSeq(X, 0 + 1, 1)
  <2>3. 0 <= 1 /\ 1 <= Len(X) /\ 0 \in Nat /\ 1 \in Nat
    BY <1>3, <2>1
  <2>4. u \in Seq(Token) /\ Len(u) = 1 - 0 /\ \A i \in 1 .. 1 - 0 : u[i] = X[0 + i]
    BY <1>3, <2>3, PartOf
  <2>5. SubSeq(X, 1, 1) = u
    OBVIOUS
  <2> HIDE DEF u
  <2>6. u = <<X[1]>>
    BY <2>4
  <2> QED BY <2>1, <2>2, <2>5, <2>6
<1> QED BY <1>2, <1>4, <1>5 DEF X

(* Without a blank line nothing is cut. *)
LEMMA NoCut ==
  ASSUME NEW frames, NEW X, Cut(X).end = {}
  PROVE  NextFrame([frames |-> frames, rest |-> X]) = [frames |-> frames, rest |-> X]
<1> DEFINE parsed == [frames |-> frames, rest |-> X]
<1>1. Cut(parsed.rest).end = {}
  OBVIOUS
<1> HIDE DEF parsed
<1>2. NextFrame(parsed) = parsed
  BY <1>1, Zenon DEF NextFrame
<1> QED BY <1>2 DEF parsed

(* Frames that end in line feeds. *)
LEMMA CutsLF ==
  ASSUME NEW bytes, NEW es, Framed(bytes, es, LfLf)
  PROVE  Cuts(bytes, es, 3)
<1> SUFFICES ASSUME NEW q \in Nat, NEW r \in Nat, NEW frames \in Seq(Events),
                    3 * q <= r, r <= Len(bytes)
             PROVE  NextFrame([frames |-> frames, rest |-> From(bytes, 3 * q, r)])
                      = IF 3 * q + 3 <= r
                        THEN [frames |-> frames \o <<es[q + 1]>>,
                              rest   |-> From(bytes, 3 * q + 3, r)]
                        ELSE [frames |-> frames, rest |-> From(bytes, 3 * q, r)]
  BY DEF Cuts
<1> DEFINE X == From(bytes, 3 * q, r)
           E == Ending(X, LfLf)
<1>1. bytes \in Seq(Token) /\ 3 * q \in Nat /\ Len(bytes) \in Nat
  BY LenProperties DEF Framed
<1>2. /\ X \in Seq(Token) /\ Len(X) = r - 3 * q
      /\ \A i \in 1 .. r - 3 * q : X[i] = bytes[3 * q + i]
  BY <1>1, PartOf DEF From
<1>3. /\ 3 * q + 1 <= Len(bytes) => bytes[3 * q + 1] # LF /\ bytes[3 * q + 1] = es[q + 1]
      /\ 3 * q + 2 <= Len(bytes) => bytes[3 * q + 2] = LF
      /\ 3 * q + 3 <= Len(bytes) => bytes[3 * q + 3] = LF
  BY PlacesLF, EventIsToken
<1> HIDE DEF X
<1>4. /\ E \in SUBSET Nat
      /\ \A p \in 2 .. Len(X) : p \in E <=> (X[p - 1] = LF /\ X[p] = LF)
      /\ \A p \in E : p \in 2 .. Len(X)
  <2>1. LfLf \in BlankLines /\ Len(LfLf) = 2
    BY LinesAre
  <2>2. \A p \in E : p \in 2 .. Len(X) /\ p \in Nat
    BY <1>2, <2>1, EndingType
  <2>3. \A p \in 2 .. Len(X) : p \in E <=> (X[p - 1] = LF /\ X[p] = LF)
    BY <1>2, PairEnds
  <2> HIDE DEF E
  <2> QED BY <2>2, <2>3
<1> HIDE DEF E
<1>5. \A p \in E : 3 <= p
  <2> SUFFICES ASSUME NEW p \in E, p = 2 PROVE FALSE
    BY <1>4
  <2>1. X[1] = LF /\ 1 \in 1 .. r - 3 * q
    BY <1>1, <1>2, <1>4
  <2> QED BY <1>1, <1>2, <1>3, <2>1
<1>6. CASE 3 * q + 3 <= r
  <2>1. 3 \in 2 .. Len(X) /\ X[3 - 1] = LF /\ X[3] = LF
    <3>1. 3 - 1 \in 1 .. r - 3 * q /\ 3 \in 1 .. r - 3 * q /\ 3 * q + (3 - 1) = 3 * q + 2
      BY <1>1, <1>6
    <3> QED BY <1>1, <1>2, <1>3, <1>6, <3>1
  <2>2. 1 + 2 \in E /\ \A p \in E : 1 + 2 <= p
    BY <1>4, <1>5, <2>1
  <2>3. Cut(X).end = E /\ Cut(X).width = 2
    BY <2>2 DEF Cut, E, LfLf
  <2>4. Complete(bytes, 3 * q, r, 2)
    <3>1. 3 * q + 1 + 2 <= r
      BY <1>6, <1>1
    <3> QED BY <1>1, <1>4, <2>2, <2>3, <3>1 DEF X, Complete
  <2>5. NextFrame([frames |-> frames, rest |-> From(bytes, 3 * q, r)])
          = [frames |-> frames \o <<bytes[3 * q + 1]>>, rest |-> From(bytes, 3 * q + 1 + 2, r)]
    <3>1. CutsOff(bytes, 3 * q, r, 2)
      BY <2>4, CutOff
    <3> QED BY <3>1 DEF CutsOff
  <2>6. bytes[3 * q + 1] = es[q + 1] /\ 3 * q + 1 + 2 = 3 * q + 3
    BY <1>1, <1>3, <1>6
  <2> QED BY <1>6, <2>5, <2>6
<1>7. CASE ~(3 * q + 3 <= r)
  <2>1. E = {}
    BY <1>1, <1>2, <1>4, <1>5, <1>7
  <2>2. Ending(X, CrLfCrLf) = {}
    <3>1. Len(CrLfCrLf) = 4
      BY LinesAre
    <3>2. 4 .. Len(X) = {}
      BY <1>1, <1>2, <1>7
    <3> QED BY <3>1, <3>2 DEF Ending
  <2>3. Cut(X).end = {}
    BY <2>1, <2>2 DEF Cut, E, LfLf, CrLfCrLf
  <2> QED BY <1>7, <2>3, NoCut DEF X
<1> QED BY <1>6, <1>7

(* Where lines end in carriage returns, no line feed follows another.      *)
LEMMA NoLfLf ==
  ASSUME NEW bytes, NEW es, Framed(bytes, es, CrLfCrLf), NEW i \in 1 .. Len(bytes),
         i + 1 <= Len(bytes)
  PROVE  ~(bytes[i] = LF /\ bytes[i + 1] = LF)
<1>1. Len(bytes) \in Nat /\ es \in Seq(Events)
  BY LenProperties DEF Framed
<1> DEFINE q == (i - 1) \div 5
           j == (i - 1) % 5
<1>2. q \in Nat /\ j \in 0 .. 4 /\ i = 5 * q + 1 + j
  OBVIOUS
<1> HIDE DEF q, j
<1>3. CR # LF /\ \A e \in Events : e # LF
  BY LinesAreTokens, EventIsToken
<1>4. /\ 5 * q + 1 <= Len(bytes) => bytes[5 * q + 1] \in Events
      /\ 5 * q + 2 <= Len(bytes) => bytes[5 * q + 2] = CR
      /\ 5 * q + 4 <= Len(bytes) => bytes[5 * q + 4] = CR
  BY <1>2, PlacesCRLF
<1>5. 5 * (q + 1) + 1 <= Len(bytes) => bytes[5 * (q + 1) + 1] \in Events
  <2>1. q + 1 \in Nat
    BY <1>2
  <2> QED BY <2>1, PlacesCRLF
<1>6. CASE j = 0
  <2>1. i = 5 * q + 1
    BY <1>2, <1>6
  <2> QED BY <1>1, <1>2, <1>3, <1>4, <2>1
<1>7. CASE j = 1
  <2>1. i = 5 * q + 2
    BY <1>2, <1>7
  <2> QED BY <1>1, <1>2, <1>3, <1>4, <2>1
<1>8. CASE j = 2
  <2>1. i + 1 = 5 * q + 4
    BY <1>2, <1>8
  <2> QED BY <1>1, <1>2, <1>3, <1>4, <2>1
<1>9. CASE j = 3
  <2>1. i = 5 * q + 4
    BY <1>2, <1>9
  <2> QED BY <1>1, <1>2, <1>3, <1>4, <2>1
<1>10. CASE j = 4
  <2>1. i + 1 = 5 * (q + 1) + 1
    BY <1>2, <1>10
  <2> QED BY <1>1, <1>2, <1>3, <1>5, <2>1
<1> QED BY <1>2, <1>6, <1>7, <1>8, <1>9, <1>10

(* Frames that end in line feeds with carriage returns. *)
LEMMA CutsCRLF ==
  ASSUME NEW bytes, NEW es, Framed(bytes, es, CrLfCrLf)
  PROVE  Cuts(bytes, es, 5)
<1> SUFFICES ASSUME NEW q \in Nat, NEW r \in Nat, NEW frames \in Seq(Events),
                    5 * q <= r, r <= Len(bytes)
             PROVE  NextFrame([frames |-> frames, rest |-> From(bytes, 5 * q, r)])
                      = IF 5 * q + 5 <= r
                        THEN [frames |-> frames \o <<es[q + 1]>>,
                              rest   |-> From(bytes, 5 * q + 5, r)]
                        ELSE [frames |-> frames, rest |-> From(bytes, 5 * q, r)]
  BY DEF Cuts
<1> DEFINE X == From(bytes, 5 * q, r)
           E == Ending(X, CrLfCrLf)
<1>1. bytes \in Seq(Token) /\ 5 * q \in Nat /\ Len(bytes) \in Nat
  BY LenProperties DEF Framed
<1>2. /\ X \in Seq(Token) /\ Len(X) = r - 5 * q
      /\ \A i \in 1 .. r - 5 * q : X[i] = bytes[5 * q + i]
  BY <1>1, PartOf DEF From
<1>3. /\ 5 * q + 1 <= Len(bytes) => bytes[5 * q + 1] # CR /\ bytes[5 * q + 1] = es[q + 1]
      /\ 5 * q + 2 <= Len(bytes) => bytes[5 * q + 2] = CR
      /\ 5 * q + 3 <= Len(bytes) => bytes[5 * q + 3] = LF
      /\ 5 * q + 4 <= Len(bytes) => bytes[5 * q + 4] = CR
      /\ 5 * q + 5 <= Len(bytes) => bytes[5 * q + 5] = LF
  BY PlacesCRLF, EventIsToken
<1> HIDE DEF X
<1>4. /\ E \in SUBSET Nat
      /\ \A p \in 4 .. Len(X) :
           p \in E <=> (X[p - 3] = CR /\ X[p - 2] = LF /\ X[p - 1] = CR /\ X[p] = LF)
      /\ \A p \in E : p \in 4 .. Len(X)
  <2>1. CrLfCrLf \in BlankLines /\ Len(CrLfCrLf) = 4
    BY LinesAre
  <2>2. \A p \in E : p \in 4 .. Len(X) /\ p \in Nat
    BY <1>2, <2>1, EndingType
  <2>3. \A p \in 4 .. Len(X) :
          p \in E <=> (X[p - 3] = CR /\ X[p - 2] = LF /\ X[p - 1] = CR /\ X[p] = LF)
    BY <1>2, FourEnd
  <2> HIDE DEF E
  <2> QED BY <2>2, <2>3
<1>5. Ending(X, LfLf) = {}
  <2> SUFFICES ASSUME NEW p \in Ending(X, LfLf) PROVE FALSE
    OBVIOUS
  <2>1. p \in 2 .. Len(X)
    BY <1>2, LinesAre, EndingType
  <2>2. X[p - 1] = LF /\ X[p] = LF
    BY <1>2, <2>1, PairEnds
  <2>3. /\ p - 1 \in 1 .. r - 5 * q /\ p \in 1 .. r - 5 * q
        /\ 5 * q + (p - 1) \in 1 .. Len(bytes) /\ 5 * q + (p - 1) + 1 = 5 * q + p
        /\ 5 * q + (p - 1) + 1 <= Len(bytes)
    BY <1>1, <1>2, <2>1
  <2>4. bytes[5 * q + (p - 1)] = LF /\ bytes[5 * q + (p - 1) + 1] = LF
    BY <1>2, <2>2, <2>3
  <2> DEFINE i == 5 * q + (p - 1)
  <2>5. i \in 1 .. Len(bytes) /\ i + 1 <= Len(bytes) /\ bytes[i] = LF /\ bytes[i + 1] = LF
    BY <2>3, <2>4
  <2> HIDE DEF i
  <2> QED BY <2>5, NoLfLf
<1> HIDE DEF E
<1>6. \A p \in E : 5 <= p
  <2> SUFFICES ASSUME NEW p \in E, p = 4 PROVE FALSE
    BY <1>4
  <2>1. X[1] = CR /\ 1 \in 1 .. r - 5 * q
    <3>1. 4 \in 4 .. Len(X) /\ 4 - 3 = 1 /\ 1 \in 1 .. r - 5 * q
      BY <1>1, <1>2, <1>4
    <3> QED BY <1>4, <3>1
  <2> QED BY <1>1, <1>2, <1>3, <2>1
<1>7. CASE 5 * q + 5 <= r
  <2>1. 5 \in 4 .. Len(X) /\ X[5 - 3] = CR /\ X[5 - 2] = LF /\ X[5 - 1] = CR /\ X[5] = LF
    <3>1. /\ \A i \in 1 .. 5 : i \in 1 .. r - 5 * q
          /\ 5 - 3 = 2 /\ 5 - 2 = 3 /\ 5 - 1 = 4 /\ 5 \in 4 .. Len(X)
      BY <1>1, <1>2, <1>7
    <3>2. X[2] = CR /\ X[3] = LF /\ X[4] = CR /\ X[5] = LF
      <4>1. /\ X[2] = bytes[5 * q + 2] /\ X[3] = bytes[5 * q + 3]
            /\ X[4] = bytes[5 * q + 4] /\ X[5] = bytes[5 * q + 5]
        BY <1>2, <3>1
      <4>2. /\ bytes[5 * q + 2] = CR /\ bytes[5 * q + 3] = LF
            /\ bytes[5 * q + 4] = CR /\ bytes[5 * q + 5] = LF
        BY <1>1, <1>3, <1>7
      <4> QED BY <4>1, <4>2
    <3> QED BY <3>1, <3>2
  <2>2. 1 + 4 \in E /\ \A p \in E : 1 + 4 <= p
    BY <1>4, <1>6, <2>1
  <2>3. Cut(X).end = E /\ Cut(X).width = 4
    BY <1>5 DEF Cut, E, LfLf, CrLfCrLf
  <2>4. Complete(bytes, 5 * q, r, 4)
    <3>1. 5 * q + 1 + 4 <= r
      BY <1>7, <1>1
    <3> QED BY <1>1, <1>4, <2>2, <2>3, <3>1 DEF X, Complete
  <2>5. NextFrame([frames |-> frames, rest |-> From(bytes, 5 * q, r)])
          = [frames |-> frames \o <<bytes[5 * q + 1]>>, rest |-> From(bytes, 5 * q + 1 + 4, r)]
    <3>1. CutsOff(bytes, 5 * q, r, 4)
      BY <2>4, CutOff
    <3> QED BY <3>1 DEF CutsOff
  <2>6. bytes[5 * q + 1] = es[q + 1] /\ 5 * q + 1 + 4 = 5 * q + 5
    BY <1>1, <1>3, <1>7
  <2> QED BY <1>7, <2>5, <2>6
<1>8. CASE ~(5 * q + 5 <= r)
  <2>1. E = {}
    BY <1>1, <1>2, <1>4, <1>6, <1>8
  <2>2. Cut(X).end = {}
    BY <1>5, <2>1 DEF Cut, E, LfLf, CrLfCrLf
  <2> QED BY <1>8, <2>2, NoCut DEF X
<1> QED BY <1>7, <1>8

(* Both kinds of blank lines. *)
LEMMA FramesAreCut ==
  ASSUME NEW bytes, NEW es, NEW line, Framed(bytes, es, line)
  PROVE  Width(line) \in {3, 5} /\ Cuts(bytes, es, Width(line))
<1>1. CASE line = LfLf
  <2>1. Width(line) = 3
    BY <1>1, LinesAre DEF Width
  <2> QED BY <1>1, <2>1, CutsLF
<1>2. CASE line = CrLfCrLf
  <2>1. Width(line) = 5
    BY <1>2, LinesAre DEF Width
  <2> QED BY <1>2, <2>1, CutsCRLF
<1> QED BY <1>1, <1>2, LinesAre DEF Framed

(* A part of a sequence and the element after it. *)
LEMMA PartGrows ==
  ASSUME NEW S, NEW s \in Seq(S), NEW a \in Nat, NEW b \in Nat, a <= b, b + 1 <= Len(s)
  PROVE  SubSeq(s, a + 1, b) \o <<s[b + 1]>> = SubSeq(s, a + 1, b + 1)
<1>1. Len(s) \in Nat /\ a + 1 \in 1 .. Len(s) /\ b + 1 \in a + 1 .. Len(s)
  BY LenProperties
<1>2. (b + 1) - 1 = b
  OBVIOUS
<1> DEFINE m == a + 1
           n == b + 1
<1>3. m \in 1 .. Len(s) /\ n \in m .. Len(s) /\ n - 1 = b
  BY <1>1, <1>2
<1> HIDE DEF m, n
<1>4. SubSeq(s, m, n) = SubSeq(s, m, n - 1) \o <<s[n]>>
  BY <1>3, SubSeqRecursiveSecond
<1> QED BY <1>3, <1>4 DEF m, n

(* r bytes came, of which k frames were handed on before; K are complete.  *)
Coming(bytes, es, line, k, K, r) ==
  /\ Framed(bytes, es, line)
  /\ k \in Nat /\ K \in Nat /\ r \in Nat /\ r <= Len(bytes) /\ k <= K
  /\ Width(line) * K <= r /\ r < Width(line) * K + Width(line)

(* What is complete has bytes. *)
LEMMA ComingIs ==
  ASSUME NEW bytes, NEW es, NEW line, NEW k, NEW K, NEW r, Coming(bytes, es, line, k, K, r)
  PROVE  /\ bytes \in Seq(Token) /\ es \in Seq(Events) /\ Len(bytes) \in Nat /\ Len(es) \in Nat
         /\ K <= Len(es) /\ Width(line) * k <= r /\ 2 * (K - k) <= r - Width(line) * k
         /\ Width(line) \in {3, 5} /\ Cuts(bytes, es, Width(line))
         /\ k \in Nat /\ K \in Nat /\ r \in Nat /\ r <= Len(bytes) /\ k <= K
<1>1. /\ bytes \in Seq(Token) /\ es \in Seq(Events) /\ Len(bytes) \in Nat /\ Len(es) \in Nat
      /\ Width(line) \in {3, 5} /\ Cuts(bytes, es, Width(line))
  BY FramesAreCut, LenProperties DEF Coming, Framed
<1>2. /\ k \in Nat /\ K \in Nat /\ r \in Nat /\ r <= Len(bytes) /\ k <= K
      /\ Width(line) * K <= r /\ r < Width(line) * K + Width(line)
      /\ Len(bytes) <= Len(es) * Width(line)
  BY DEF Coming, Framed
<1>3. CASE Width(line) = 3
  BY <1>1, <1>2, <1>3
<1>4. CASE Width(line) = 5
  BY <1>1, <1>2, <1>4
<1> QED BY <1>1, <1>3, <1>4

(* The parser hands on what is complete and keeps the rest. *)
LEMMA ParseIs ==
  ASSUME NEW bytes, NEW es, NEW line, NEW k, NEW K, NEW r, Coming(bytes, es, line, k, K, r)
  PROVE  Parse(From(bytes, Width(line) * k, r))
           = [frames |-> SubSeq(es, k + 1, K), rest |-> From(bytes, Width(line) * K, r)]
<1> DEFINE W == Width(line)
           start == From(bytes, W * k, r)
           N == Len(start) \div 2
           Is(g) == g = [n \in 0 .. N |-> IF n = 0 THEN [frames |-> <<>>, rest |-> start]
                                          ELSE NextFrame(g[n - 1])]
           F == CHOOSE g : Is(g)
           Q(n) == IF k + n <= K THEN k + n ELSE K
           State(q) == [frames |-> SubSeq(es, k + 1, q), rest |-> From(bytes, W * q, r)]
           f == [n \in 0 .. N |-> State(Q(n))]
<1>1. /\ bytes \in Seq(Token) /\ es \in Seq(Events) /\ Len(bytes) \in Nat /\ Len(es) \in Nat
      /\ K <= Len(es) /\ W * k <= r /\ 2 * (K - k) <= r - W * k
      /\ W \in {3, 5} /\ Cuts(bytes, es, W)
      /\ k \in Nat /\ K \in Nat /\ r \in Nat /\ r <= Len(bytes) /\ k <= K
      /\ W * K <= r /\ r < W * K + W
  <2> HIDE DEF W
  <2> QED BY ComingIs DEF W, Coming
<1> HIDE DEF W
<1>2. K - k <= N /\ N \in Nat
  <2>1. W * k \in Nat /\ r - W * k \in Nat
    BY <1>1
  <2>2. Len(start) = r - W * k
    BY <1>1, <2>1, PartOf DEF From
  <2> HIDE DEF start
  <2> DEFINE len == Len(start)
  <2>3. len \in Nat /\ 2 * (K - k) <= len /\ N = len \div 2
    BY <1>1, <2>1, <2>2
  <2> HIDE DEF len, N
  <2> QED BY <1>1, <2>3
<1> HIDE DEF N, start
<1>3. State(k) = [frames |-> <<>>, rest |-> start]
  <2>1. SubSeq(es, k + 1, k) = <<>>
    BY <1>1, SubSeqEmpty
  <2> QED BY <2>1 DEF start
<1>4. ASSUME NEW q \in Nat, k <= q, q < K PROVE NextFrame(State(q)) = State(q + 1)
  <2>1. W * q <= r /\ W * q + W <= r /\ W * (q + 1) = W * q + W
    BY <1>1, <1>4
  <2>2. SubSeq(es, k + 1, q) \in Seq(Events)
    BY <1>1, <1>4, PartOf
  <2>3. NextFrame([frames |-> SubSeq(es, k + 1, q), rest |-> From(bytes, W * q, r)])
          = [frames |-> SubSeq(es, k + 1, q) \o <<es[q + 1]>>, rest |-> From(bytes, W * q + W, r)]
    BY <1>1, <2>1, <2>2 DEF Cuts
  <2>4. SubSeq(es, k + 1, q) \o <<es[q + 1]>> = SubSeq(es, k + 1, q + 1)
    BY <1>1, <1>4, PartGrows
  <2> QED BY <2>1, <2>3, <2>4
<1>5. NextFrame(State(K)) = State(K)
  <2>1. SubSeq(es, k + 1, K) \in Seq(Events)
    BY <1>1, PartOf
  <2>2. ~(W * K + W <= r) /\ W * K <= r
    BY <1>1
  <2> QED BY <1>1, <2>1, <2>2 DEF Cuts
<1> HIDE DEF State
<1>6. f[0] = [frames |-> <<>>, rest |-> start] /\ f[N] = State(K)
  BY <1>1, <1>2, <1>3
<1>7. \A n \in 1 .. N : f[n] = NextFrame(f[n - 1])
  <2> TAKE n \in 1 .. N
  <2>1. n - 1 \in 0 .. N /\ n \in 0 .. N
    BY <1>2
  <2>2. f[n] = State(Q(n)) /\ f[n - 1] = State(Q(n - 1))
    BY <2>1
  <2>3. CASE k + n <= K
    <3>1. Q(n) = Q(n - 1) + 1 /\ Q(n - 1) \in Nat /\ k <= Q(n - 1) /\ Q(n - 1) < K
      BY <1>1, <1>2, <2>3
    <3> HIDE DEF Q
    <3> QED BY <1>4, <2>2, <3>1
  <2>4. CASE ~(k + n <= K)
    <3>1. Q(n) = K /\ Q(n - 1) = K
      BY <1>1, <1>2, <2>4
    <3> QED BY <1>5, <2>2, <3>1
  <2> QED BY <2>3, <2>4
<1>8. f = [n \in 0 .. N |-> f[n]]
  OBVIOUS
<1> HIDE DEF f, Q
<1>9. Is(f)
  BY <1>2, <1>6, <1>7, <1>8
<1>10. Is(F)
  <2> HIDE DEF Is
  <2> QED BY <1>9
<1>11. F[N] = f[N]
  <2> HIDE DEF F
  <2>1. F[0] = f[0] /\ \A n \in 1 .. N : F[n] = NextFrame(F[n - 1])
    <3>1. 0 \in 0 .. N /\ \A n \in 1 .. N : n \in 0 .. N /\ n # 0
      BY <1>2
    <3>2. \A n \in 0 .. N : F[n] = IF n = 0 THEN [frames |-> <<>>, rest |-> start]
                                   ELSE NextFrame(F[n - 1])
      BY <1>10, Zenon
    <3> QED BY <1>6, <3>1, <3>2
  <2>2. SameSteps(F, f, N)
    BY <1>2, <1>7, <2>1 DEF SameSteps
  <2> QED BY <1>2, <2>2, RecursionIsUnique
<1>12. Parse(start) = F[N]
  BY Zenon DEF Parse, N
<1> QED BY <1>6, <1>11, <1>12 DEF State, start, W

(* The last event of a stream tells its end. *)
LEMMA StreamEnds ==
  ASSUME NEW c, NEW m \in Seq(BlockKinds)
  PROVE  \E es \in Seq(Inner), e \in Events :
           /\ Streamed(c, m) = es \o <<e>>
           /\ e = IF c[2] = "openai" THEN Event("done", 0) ELSE Event("stop", 0)
           /\ es = IF c[2] = "openai" THEN FlattenSeq(OpenBlocks(m))
                   ELSE (NativeStart \o FlattenSeq(NativeBlocks(m))) \o <<Event("usage", 0)>>
<1>1. CASE c[2] = "openai"
  BY <1>1, OpenAiType DEF Streamed
<1>2. CASE c[2] # "openai"
  <2> DEFINE start == NativeStart \o FlattenSeq(NativeBlocks(m))
             usage == Event("usage", 0)
             stop  == Event("stop", 0)
  <2>1. start \in Seq(Inner) /\ Native(m) = start \o NativeEnd
    BY NativeType, ConcatProperties
  <2>2. usage \in Inner /\ usage \in Events /\ stop \in Events
    BY EventIs DEF EventKinds
  <2>3. NativeEnd = <<usage>> \o <<stop>>
    BY DEF NativeEnd
  <2> HIDE DEF start, usage, stop
  <2>4. <<usage>> \in Seq(Inner) /\ <<usage>> \in Seq(Events) /\ <<stop>> \in Seq(Events)
    BY <2>2
  <2>5. Native(m) = (start \o <<usage>>) \o <<stop>>
    BY <2>1, <2>3, <2>4, InnerEvents, ConcatAssociative
  <2>6. start \o <<usage>> \in Seq(Inner)
    BY <2>1, <2>4, ConcatProperties
  <2>7. Streamed(c, m) = (start \o <<usage>>) \o <<stop>>
    BY <1>2, <2>5 DEF Streamed
  <2> QED BY <1>2, <2>2, <2>6, <2>7 DEF start, usage, stop
<1> QED BY <1>1, <1>2

(* So it is never empty. *)
LEMMA StreamNotEmpty ==
  ASSUME NEW c, NEW m \in Seq(BlockKinds)
  PROVE  Len(Streamed(c, m)) \in Nat /\ 1 <= Len(Streamed(c, m))
<1>1. PICK es \in Seq(Events), e \in Events : Streamed(c, m) = es \o <<e>>
  BY StreamEnds, InnerEvents, Zenon
<1>2. <<e>> \in Seq(Events) /\ Len(<<e>>) = 1 /\ Len(es) \in Nat
  BY LenProperties
<1>3. Len(es \o <<e>>) = Len(es) + Len(<<e>>)
  BY <1>2, ConcatProperties
<1> QED BY <1>1, <1>2, <1>3

(* What the server sends are frames. *)
LEMMA BytesAreFramed ==
  ASSUME NEW c, NEW m \in Seq(BlockKinds), NEW line \in BlankLines, NEW bare \in BOOLEAN
  PROVE  /\ Framed(Bytes(c, m, line, bare), Streamed(c, m), line)
         /\ Len(Bytes(c, m, line, bare))
              = Len(Streamed(c, m)) * Width(line) - (IF bare THEN Len(line) ELSE 0)
<1> DEFINE es == Streamed(c, m)
           W == Width(line)
           size == Len(es) * W - (IF bare THEN Len(line) ELSE 0)
           At(i) == IF (i - 1) % W = 0 THEN es[1 + (i - 1) \div W] ELSE line[(i - 1) % W]
           bytes == [i \in 1 .. size |-> At(i)]
<1>1. Bytes(c, m, line, bare) = bytes
  <2>1. size = IF bare THEN Len(es) * W - Len(line) ELSE Len(es) * W
    BY LinesAre, StreamNotEmpty DEF Width
  <2>2. Bytes(c, m, line, bare)
          = [i \in 1 .. (IF bare THEN Len(es) * W - Len(line) ELSE Len(es) * W) |-> At(i)]
    BY DEF Bytes, Width
  <2> HIDE DEF size, At
  <2> QED BY <2>1, <2>2
<1>2. /\ es \in Seq(Events) /\ Len(es) \in Nat /\ 1 <= Len(es)
      /\ Len(line) = W - 1 /\ W \in {3, 5}
      /\ \A j \in 1 .. W - 1 : line[j] \in Token
  <2>1. /\ \A j \in 1 .. 2 : LfLf[j] \in Token
        /\ \A j \in 1 .. 4 : CrLfCrLf[j] \in Token
    <3>1. LF \in Token /\ CR \in Token
      BY LinesAreTokens
    <3> QED BY <3>1 DEF LfLf, CrLfCrLf
  <2>2. CASE line = LfLf
    BY <2>1, <2>2, StreamedType, StreamNotEmpty, LinesAre DEF Width
  <2>3. CASE line = CrLfCrLf
    BY <2>1, <2>3, StreamedType, StreamNotEmpty, LinesAre DEF Width
  <2> QED BY <2>2, <2>3, LinesAre
<1> HIDE DEF es, W
<1>3. size \in Nat /\ size <= Len(es) * W
  <2>1. CASE W = 3
    BY <1>2, <2>1
  <2>2. CASE W = 5
    BY <1>2, <2>2
  <2> QED BY <1>2, <2>1, <2>2
<1>4. ASSUME NEW i \in 1 .. size PROVE At(i) \in Token
  <2>1. /\ i - 1 \in Nat /\ (i - 1) % W \in 0 .. W - 1
        /\ 1 + (i - 1) \div W \in 1 .. Len(es)
    <3>1. CASE W = 3
      BY <1>2, <1>3, <3>1
    <3>2. CASE W = 5
      BY <1>2, <1>3, <3>2
    <3> QED BY <1>2, <3>1, <3>2
  <2>2. es[1 + (i - 1) \div W] \in Token
    BY <1>2, <2>1, ElementOfSeq, EventIsToken
  <2>3. (i - 1) % W # 0 => line[(i - 1) % W] \in Token
    BY <1>2, <2>1
  <2> QED BY <2>2, <2>3
<1> HIDE DEF size, At
<1>5. bytes \in Seq(Token) /\ Len(bytes) = size
  BY <1>3, <1>4, IsASeq
<1>6. \A i \in 1 .. Len(bytes) : bytes[i] = At(i)
  BY <1>5
<1>7. Framed(bytes, es, line)
  BY <1>2, <1>3, <1>5, <1>6 DEF Framed, At, W
<1> QED BY <1>1, <1>5, <1>7 DEF es, size, W

--------------------------------------------------------------------------------
(* The invariant. *)

All == Bytes(client, message, history.line, history.bare)

Received == Len(All) - Len(wire)

(* Frames that are there with their blank lines. *)
Whole == Received \div Width(history.line)

(* The first k frames, and what the client makes of them. *)
Held(c, m, k) == TakeAll(c, m, NoReply, SubSeq(Streamed(c, m), 1, k))

(* Of the bytes that came, those of whole frames were handed on and the    *)
(* others are in the buffer.                                               *)
Flows ==
  call.pc = "stream" =>
    /\ ~call.again /\ client[2] # "buffered"
    /\ Received \in Nat
    /\ wire = From(All, Received, Len(All))
    /\ buffer = From(All, Width(history.line) * Whole, Received)
    /\ reply = Held(client, message, Whole)

(* Before an answer there is nothing. *)
Idle ==
  call.pc \in {"send", "await", "backoff"} => wire = <<>> /\ buffer = <<>> /\ reply = NoReply

(* Requests are counted, and the budget is not used up before another.     *)
Counts ==
  /\ call.pc \in {"send", "backoff"} => call.attempts <= MaxRetries
  /\ history.sent <= call.attempts + (IF call.again THEN MaxRetries + 1 ELSE 0)

StreamInv == TypeOK /\ Flows /\ Idle /\ Counts

(* The parts of the state. *)
LEMMA TypesAre ==
  ASSUME TypeOK
  PROVE  /\ call = [pc |-> call.pc, attempts |-> call.attempts, again |-> call.again]
         /\ call.attempts \in 0 .. MaxRetries + 1 /\ call.again \in BOOLEAN
         /\ message \in Seq(BlockKinds)
         /\ wire \in Seq(Token) /\ buffer \in Seq(Token) /\ reply \in Reply
         /\ history = [sent |-> history.sent, line |-> history.line, bare |-> history.bare,
                       cut |-> history.cut, fault |-> history.fault]
         /\ history.sent \in Nat /\ history.line \in BlankLines /\ history.bare \in BOOLEAN
         /\ history.cut \in BOOLEAN /\ history.fault \in BOOLEAN
         /\ MaxRetries \in Nat
BY ApiAssumption DEF TypeOK

(* What is sent to the client. *)
LEMMA AllIsFramed ==
  ASSUME TypeOK
  PROVE  /\ Framed(All, Streamed(client, message), history.line)
         /\ All \in Seq(Token) /\ Len(All) \in Nat
         /\ Len(All) = Len(Streamed(client, message)) * Width(history.line)
                        - (IF history.bare THEN Len(history.line) ELSE 0)
         /\ Streamed(client, message) \in Seq(Events) /\ Len(Streamed(client, message)) \in Nat
<1>1. message \in Seq(BlockKinds) /\ history.line \in BlankLines /\ history.bare \in BOOLEAN
  BY DEF TypeOK
<1>2. /\ Framed(All, Streamed(client, message), history.line)
      /\ Len(All) = Len(Streamed(client, message)) * Width(history.line)
                        - (IF history.bare THEN Len(history.line) ELSE 0)
  BY <1>1, BytesAreFramed DEF All
<1>3. Streamed(client, message) \in Seq(Events)
  BY <1>1, StreamedType
<1> QED BY <1>2, <1>3, LenProperties DEF Framed

(* The number of whole frames. *)
LEMMA WholeIs ==
  ASSUME NEW r \in Nat, NEW W \in {3, 5}
  PROVE  r \div W \in Nat /\ W * (r \div W) <= r /\ r < W * (r \div W) + W
<1>1. CASE W = 3
  BY <1>1
<1>2. CASE W = 5
  BY <1>2
<1> QED BY <1>1, <1>2

(* The clients hold replies. *)
LEMMA HeldType ==
  ASSUME NEW c, NEW m \in Seq(BlockKinds), NEW k \in Nat, k <= Len(Streamed(c, m))
  PROVE  SubSeq(Streamed(c, m), 1, k) \in Seq(Events) /\ Held(c, m, k) \in Reply
<1>1. Streamed(c, m) \in Seq(Events)
  BY StreamedType
<1>2. SubSeq(Streamed(c, m), 0 + 1, k) \in Seq(Events)
  BY <1>1, PartOf
<1>3. SubSeq(Streamed(c, m), 1, k) \in Seq(Events)
  BY <1>2
<1> QED BY <1>3, TakeAllType, NoReplyType DEF Held

(* What is held after k frames, and K - k more. *)
LEMMA HeldMore ==
  ASSUME NEW c, NEW m \in Seq(BlockKinds), NEW k \in Nat, NEW K \in Nat,
         k <= K, K <= Len(Streamed(c, m))
  PROVE  TakeAll(c, m, Held(c, m, k), SubSeq(Streamed(c, m), k + 1, K)) = Held(c, m, K)
<1> DEFINE es == Streamed(c, m)
<1>1. es \in Seq(Events) /\ Len(es) \in Nat /\ K <= Len(es)
  BY StreamedType, LenProperties
<1>2. SubSeq(es, 1, k) \in Seq(Events) /\ SubSeq(es, 1, K) \in Seq(Events)
  BY <1>1, HeldType
<1>3. SubSeq(es, k + 1, K) \in Seq(Events)
  BY <1>1, PartOf
<1>4. SubSeq(es, 1, k) \o SubSeq(es, k + 1, K) = SubSeq(es, 1, K)
  <2> HIDE DEF es
  <2>1. 1 \in 1 .. Len(es) + 1 /\ k \in 1 - 1 .. Len(es) /\ K \in k .. Len(es)
    BY <1>1
  <2> QED BY <1>1, <2>1, ConcatAdjacentSubSeq
<1> HIDE DEF es
<1>5. TakeAll(c, m, NoReply, SubSeq(es, 1, k) \o SubSeq(es, k + 1, K))
        = TakeAll(c, m, TakeAll(c, m, NoReply, SubSeq(es, 1, k)), SubSeq(es, k + 1, K))
  <2> DEFINE es1 == SubSeq(es, 1, k)
             es2 == SubSeq(es, k + 1, K)
  <2> HIDE DEF es1, es2
  <2>1. es1 \in Seq(Events) /\ es2 \in Seq(Events)
    BY <1>2, <1>3 DEF es1, es2
  <2>2. TakeAll(c, m, NoReply, es1 \o es2) = TakeAll(c, m, TakeAll(c, m, NoReply, es1), es2)
    BY <2>1, NoReplyType, TakeAllTwice
  <2> QED BY <2>2 DEF es1, es2
<1> QED BY <1>4, <1>5 DEF Held, es

(* At first nothing was sent. *)
LEMMA StreamInit == Init => StreamInv
<1> SUFFICES ASSUME Init PROVE StreamInv
  OBVIOUS
<1>1. call.pc = "send" /\ call.attempts = 0 /\ call.again = FALSE /\ history.sent = 0
  BY DEF Init
<1>2. TypeOK
  <2>1. call \in [pc : {"send", "await", "backoff", "stream", "ok", "err"},
                   attempts : 0 .. MaxRetries + 1, again : BOOLEAN]
    <3>1. 0 \in 0 .. MaxRetries + 1
      BY ApiAssumption
    <3> QED BY <3>1 DEF Init
  <2>3. history \in [sent : Nat, line : BlankLines, bare : BOOLEAN, cut : BOOLEAN, fault : BOOLEAN]
    <3>1. PICK line \in BlankLines, bare \in BOOLEAN :
             history = [sent |-> 0, line |-> line, bare |-> bare, cut |-> FALSE, fault |-> FALSE]
      BY DEF Init
    <3> QED BY <3>1
  <2>2. message \in Seq(BlockKinds) /\ wire \in Seq(Token) /\ buffer \in Seq(Token)
    BY EmptySeq DEF Init
  <2> QED BY <2>1, <2>2, <2>3, NoReplyType DEF Init, TypeOK
<1>3. Idle
  BY DEF Init, Idle
<1>4. Counts
  BY <1>1, ApiAssumption DEF Counts
<1> QED BY <1>1, <1>2, <1>3, <1>4 DEF StreamInv, Flows

(* A translation has the blocks of its message, and none of them streams.  *)
LEMMA TranslatedType ==
  ASSUME NEW m, DOMAIN m = 1 .. Len(m), Len(m) \in Nat
  PROVE  /\ Translated(m) \in Seq(BlockKinds) /\ Len(Translated(m)) = Len(m)
         /\ DOMAIN Translated(m) = 1 .. Len(m)
         /\ \A i \in 1 .. Len(m) :
              Translated(m)[i] = IF m[i] = "text" THEN "text"
                                 ELSE IF m[i] \in {"tool", "streamed"} THEN "tool" ELSE "lost"
<1> DEFINE to(i) == IF m[i] = "text" THEN "text"
                    ELSE IF m[i] \in {"tool", "streamed"} THEN "tool" ELSE "lost"
<1>1. \A i \in 1 .. Len(m) : to(i) \in BlockKinds
  BY DEF BlockKinds
<1>2. Translated(m) = [i \in 1 .. Len(m) |-> to(i)]
  <2>1. \A i \in 1 .. Len(m) :
          (CASE m[i] = "text" -> "text" [] m[i] \in {"tool", "streamed"} -> "tool"
             [] OTHER -> "lost") = to(i)
    <3> TAKE i \in 1 .. Len(m)
    <3>1. CASE m[i] = "text"
      BY <3>1
    <3>2. CASE m[i] \in {"tool", "streamed"}
      BY <3>2
    <3>3. CASE m[i] \notin {"text", "tool", "streamed"}
      BY <3>3
    <3> QED BY <3>1, <3>2, <3>3
  <2> HIDE DEF to
  <2> QED BY <2>1 DEF Translated
<1> HIDE DEF to
<1>3. Translated(m) \in Seq(BlockKinds) /\ Len(Translated(m)) = Len(m)
  BY <1>1, <1>2, IsASeq
<1>4. \A i \in 1 .. Len(m) : Translated(m)[i] = to(i)
  BY <1>2
<1> QED BY <1>2, <1>3, <1>4 DEF to

(* The replies of the model are messages. *)
LEMMA MessagesAre ==
  ASSUME NEW m \in Messages \cup {<<>>}
  PROVE  /\ m \in Seq(BlockKinds) /\ Translated(m) \in Seq(BlockKinds)
         /\ \A i \in DOMAIN m : m[i] # "lost"
<1> DEFINE sent == {"text", "tool", "streamed", "garbled", "nameless"}
<1>1. m \in Seq(sent)
  BY ApiAssumption, EmptySeq
<1>2. DOMAIN m = 1 .. Len(m) /\ Len(m) \in Nat /\ \A i \in 1 .. Len(m) : m[i] \in sent
  BY <1>1, LenProperties, ElementOfSeq
<1>3. m \in Seq(BlockKinds)
  <2>1. sent \subseteq BlockKinds
    BY DEF BlockKinds
  <2> QED BY <1>1, <2>1, SeqMonotonic
<1>4. Translated(m) \in Seq(BlockKinds)
  BY <1>2, TranslatedType
<1> QED BY <1>2, <1>3, <1>4

(* A record of the call with another place. *)
LEMMA CallType ==
  ASSUME TypeOK, NEW pc \in {"send", "await", "backoff", "stream", "ok", "err"}
  PROVE  /\ [call EXCEPT !.pc = pc]
              = [pc |-> pc, attempts |-> call.attempts, again |-> call.again]
         /\ [call EXCEPT !.pc = pc]
              \in [pc : {"send", "await", "backoff", "stream", "ok", "err"},
                   attempts : 0 .. MaxRetries + 1, again : BOOLEAN]
BY TypesAre

Histories == [sent : Nat, line : BlankLines, bare : BOOLEAN, cut : BOOLEAN, fault : BOOLEAN]

(* A fault is noted. *)
LEMMA FaultType ==
  ASSUME TypeOK
  PROVE  /\ [history EXCEPT !.fault = TRUE] \in Histories
         /\ [history EXCEPT !.fault = TRUE].sent = history.sent
BY DEF TypeOK, Histories

(* A place outside of the stream: what has to hold there. *)
LEMMA Outside ==
  ASSUME TypeOK', call'.pc # "stream", Idle', Counts'
  PROVE  StreamInv'
BY DEF StreamInv, Flows

(* A request is sent. *)
LEMMA SendKeeps == StreamInv /\ Send => StreamInv'
<1> SUFFICES ASSUME StreamInv, Send PROVE StreamInv'
  OBVIOUS
<1>1. TypeOK /\ Counts /\ Idle
  BY DEF StreamInv
<1>2. /\ call.pc = "send" /\ call' = [call EXCEPT !.pc = "await", !.attempts = @ + 1]
      /\ history' = [history EXCEPT !.sent = @ + 1]
      /\ UNCHANGED <<client, message, wire, buffer, reply>>
  BY DEF Send
<1>3. /\ call' = [pc |-> "await", attempts |-> call.attempts + 1, again |-> call.again]
      /\ call.attempts + 1 \in 0 .. MaxRetries + 1 /\ call.again \in BOOLEAN
      /\ history.sent <= call.attempts + (IF call.again THEN MaxRetries + 1 ELSE 0)
      /\ call.attempts \in Nat /\ history.sent \in Nat /\ MaxRetries \in Nat
  <2>1. /\ call = [pc |-> call.pc, attempts |-> call.attempts, again |-> call.again]
        /\ call.attempts \in 0 .. MaxRetries + 1 /\ call.again \in BOOLEAN
        /\ history.sent \in Nat /\ MaxRetries \in Nat
    BY <1>1, TypesAre
  <2>2. call' = [pc |-> "await", attempts |-> call.attempts + 1, again |-> call.again]
    BY <1>2, <2>1
  <2>3. /\ call.attempts <= MaxRetries
        /\ history.sent <= call.attempts + (IF call.again THEN MaxRetries + 1 ELSE 0)
    BY <1>1, <1>2 DEF Counts
  <2>4. call.attempts \in Nat /\ call.attempts + 1 \in 0 .. MaxRetries + 1
    BY <2>1, <2>3
  <2> QED BY <2>1, <2>2, <2>3, <2>4
<1>4. history' \in Histories /\ history'.sent = history.sent + 1
  <2>1. history \in Histories
    BY <1>1 DEF TypeOK, Histories
  <2>2. history' = [history EXCEPT !.sent = @ + 1]
    BY <1>2
  <2> QED BY <2>1, <2>2 DEF Histories
<1>5. TypeOK'
  BY <1>1, <1>2, <1>3, <1>4 DEF TypeOK, Histories
<1>6. Idle'
  BY <1>1, <1>2 DEF Idle
<1>7. Counts'
  BY <1>3, <1>4 DEF Counts
<1> QED BY <1>3, <1>5, <1>6, <1>7, Outside

(* The server is not there. *)
LEMMA UnreachableKeeps == StreamInv /\ Unreachable => StreamInv'
<1> SUFFICES ASSUME StreamInv, Unreachable PROVE StreamInv'
  OBVIOUS
<1>1. TypeOK /\ Counts /\ Idle
  BY DEF StreamInv
<1> DEFINE pc == IF MayRetry THEN "backoff" ELSE "err"
<1>2. /\ call.pc = "await" /\ call' = [call EXCEPT !.pc = pc]
      /\ history' = [history EXCEPT !.fault = TRUE]
      /\ UNCHANGED <<client, message, wire, buffer, reply>>
  BY DEF Unreachable
<1>3. pc \in {"backoff", "err"} /\ (pc = "backoff" => call.attempts <= MaxRetries)
  BY DEF MayRetry
<1> HIDE DEF pc
<1>4. /\ call' = [pc |-> pc, attempts |-> call.attempts, again |-> call.again]
      /\ call' \in [pc : {"send", "await", "backoff", "stream", "ok", "err"},
                   attempts : 0 .. MaxRetries + 1, again : BOOLEAN]
  BY <1>1, <1>2, <1>3, CallType
<1>5. history' \in Histories /\ history'.sent = history.sent
  BY <1>1, <1>2, FaultType
<1>6. TypeOK'
  BY <1>1, <1>2, <1>4, <1>5 DEF TypeOK, Histories
<1>7. Idle'
  BY <1>1, <1>2 DEF Idle
<1>8. Counts'
  BY <1>1, <1>3, <1>4, <1>5 DEF Counts
<1> QED BY <1>3, <1>4, <1>6, <1>7, <1>8, Outside

(* The next attempt. *)
LEMMA BackoffKeeps == StreamInv /\ Backoff => StreamInv'
<1> SUFFICES ASSUME StreamInv, Backoff PROVE StreamInv'
  OBVIOUS
<1>1. TypeOK /\ Counts /\ Idle
  BY DEF StreamInv
<1>2. /\ call.pc = "backoff" /\ call' = [call EXCEPT !.pc = "send"]
      /\ UNCHANGED <<client, message, wire, buffer, reply, history>>
  BY DEF Backoff
<1>3. /\ call' = [pc |-> "send", attempts |-> call.attempts, again |-> call.again]
      /\ call' \in [pc : {"send", "await", "backoff", "stream", "ok", "err"},
                   attempts : 0 .. MaxRetries + 1, again : BOOLEAN]
  BY <1>1, <1>2, CallType
<1>4. TypeOK'
  BY <1>1, <1>2, <1>3 DEF TypeOK
<1>5. Idle'
  BY <1>1, <1>2 DEF Idle
<1>6. Counts'
  BY <1>1, <1>2, <1>3 DEF Counts
<1> QED BY <1>3, <1>4, <1>5, <1>6, Outside

(* The call fails. *)
LEMMA RefusedKeeps == StreamInv /\ (Refused \/ StreamFails) => StreamInv'
<1> SUFFICES ASSUME StreamInv, Refused \/ StreamFails PROVE StreamInv'
  OBVIOUS
<1>1. TypeOK /\ Counts
  BY DEF StreamInv
<1>2. /\ call.pc \in {"await", "stream"} /\ call' = [call EXCEPT !.pc = "err"]
      /\ history' = [history EXCEPT !.fault = TRUE]
      /\ UNCHANGED <<client, message, wire, buffer, reply>>
  BY DEF Refused, StreamFails
<1>3. /\ call' = [pc |-> "err", attempts |-> call.attempts, again |-> call.again]
      /\ call' \in [pc : {"send", "await", "backoff", "stream", "ok", "err"},
                   attempts : 0 .. MaxRetries + 1, again : BOOLEAN]
  BY <1>1, <1>2, CallType
<1>4. history' \in Histories /\ history'.sent = history.sent
  BY <1>1, <1>2, FaultType
<1>5. TypeOK'
  BY <1>1, <1>2, <1>3, <1>4 DEF TypeOK, Histories
<1>6. Idle'
  BY <1>3 DEF Idle
<1>7. Counts'
  BY <1>1, <1>3, <1>4 DEF Counts
<1> QED BY <1>3, <1>5, <1>6, <1>7, Outside

(* The answer comes in one piece. *)
LEMMA RespondsWholeKeeps == StreamInv /\ RespondsWhole => StreamInv'
<1> SUFFICES ASSUME StreamInv, RespondsWhole PROVE StreamInv'
  OBVIOUS
<1>1. TypeOK /\ Counts
  BY DEF StreamInv
<1>2. /\ call' = [call EXCEPT !.pc = "ok"]
      /\ UNCHANGED <<client, wire, buffer, history>>
  BY DEF RespondsWhole
<1>3. PICK m \in Messages \cup {<<>>} :
         /\ message' = m
         /\ reply' = TakeAll(client, Translated(m), NoReply, Native(Translated(m)))
  BY DEF RespondsWhole
<1>4. message' \in Seq(BlockKinds) /\ reply' \in Reply
  <2>1. m \in Seq(BlockKinds) /\ Translated(m) \in Seq(BlockKinds)
    BY MessagesAre
  <2>2. Native(Translated(m)) \in Seq(Events)
    BY <2>1, NativeType
  <2>3. TakeAll(client, Translated(m), NoReply, Native(Translated(m))) \in Reply
    BY <2>2, NoReplyType, TakeAllType
  <2> QED BY <1>3, <2>1, <2>3
<1>5. /\ call' = [pc |-> "ok", attempts |-> call.attempts, again |-> call.again]
      /\ call' \in [pc : {"send", "await", "backoff", "stream", "ok", "err"},
                   attempts : 0 .. MaxRetries + 1, again : BOOLEAN]
  BY <1>1, <1>2, CallType
<1>6. TypeOK'
  BY <1>1, <1>2, <1>4, <1>5 DEF TypeOK
<1>7. Idle'
  BY <1>5 DEF Idle
<1>8. Counts'
  BY <1>1, <1>2, <1>5 DEF Counts
<1> QED BY <1>5, <1>6, <1>7, <1>8, Outside

(* The stream begins: everything is on its way. *)
LEMMA RespondsKeeps == StreamInv /\ Responds => StreamInv'
<1> SUFFICES ASSUME StreamInv, Responds PROVE StreamInv'
  OBVIOUS
<1>1. TypeOK /\ Counts /\ Idle
  BY DEF StreamInv
<1>2. /\ call.pc = "await" /\ ~call.again /\ client[2] # "buffered"
      /\ call' = [call EXCEPT !.pc = "stream"]
      /\ UNCHANGED <<client, buffer, reply, history>>
  BY DEF Responds
<1>3. PICK m \in Messages :
         message' = m /\ wire' = Bytes(client, m, history.line, history.bare)
  BY DEF Responds
<1>4. /\ call' = [pc |-> "stream", attempts |-> call.attempts, again |-> call.again]
      /\ call' \in [pc : {"send", "await", "backoff", "stream", "ok", "err"},
                   attempts : 0 .. MaxRetries + 1, again : BOOLEAN]
  BY <1>1, <1>2, CallType
<1>5. message' \in Seq(BlockKinds)
  BY <1>3, MessagesAre
<1>6. wire' = All'
  BY <1>2, <1>3 DEF All
<1>7. TypeOK'
  <2>1. history.line \in BlankLines /\ history.bare \in BOOLEAN /\ m \in Seq(BlockKinds)
    BY <1>1, <1>3, <1>5, TypesAre
  <2>2. wire' \in Seq(Token)
    BY <1>3, <2>1, BytesAreFramed DEF Framed
  <2> QED BY <1>1, <1>2, <1>4, <1>5, <2>2 DEF TypeOK
<1>8. /\ Framed(All, Streamed(client, message), history.line)' /\ (All \in Seq(Token))'
      /\ (Len(All) \in Nat)' /\ (Len(Streamed(client, message)) \in Nat)'
  BY <1>7, AllIsFramed, PTL
<1>9. Received' = 0
  BY <1>6, <1>8 DEF Received
<1>10. Width(history'.line) \in {3, 5}
  BY <1>8, FramesAreCut
<1>11. Whole' = 0 /\ Width(history'.line) * Whole' = 0
  BY <1>9, <1>10 DEF Whole
<1>12. wire' = From(All', 0, Len(All'))
  BY <1>6, <1>8, SubSeqFull DEF From
<1>13. buffer' = From(All', 0, 0)
  <2>1. SubSeq(All', 0 + 1, 0) = <<>>
    BY SubSeqEmpty
  <2>2. buffer' = <<>>
    BY <1>1, <1>2 DEF Idle
  <2> QED BY <2>1, <2>2 DEF From
<1>14. reply' = Held(client', message', 0)
  <2>1. SubSeq(Streamed(client', message'), 1, 0) = <<>>
    BY SubSeqEmpty
  <2>2. TakeAll(client', message', NoReply, <<>>) = NoReply
    BY NoReplyType, TakeAllNone
  <2>3. reply' = NoReply
    BY <1>1, <1>2 DEF Idle
  <2> QED BY <2>1, <2>2, <2>3 DEF Held
<1>15. Flows'
  BY <1>2, <1>4, <1>9, <1>11, <1>12, <1>13, <1>14 DEF Flows
<1>16. Idle' /\ Counts'
  BY <1>1, <1>2, <1>4 DEF Idle, Counts
<1> QED BY <1>7, <1>15, <1>16 DEF StreamInv

(* Parts of a sequence that follow each other. *)
LEMMA PartsJoin ==
  ASSUME NEW S, NEW s \in Seq(S), NEW a \in Nat, NEW b \in Nat, NEW n \in Nat,
         a <= b, b + n <= Len(s)
  PROVE  From(s, a, b) \o SubSeq(From(s, b, Len(s)), 1, n) = From(s, a, b + n)
<1>1. Len(s) \in Nat /\ b <= Len(s)
  BY LenProperties
<1> DEFINE t == From(s, b, Len(s))
           u == SubSeq(t, 1, n)
           v == From(s, b, b + n)
<1>2. t \in Seq(S) /\ Len(t) = Len(s) - b /\ \A i \in 1 .. Len(s) - b : t[i] = s[b + i]
  BY <1>1, PartOf DEF From
<1>3. v \in Seq(S) /\ Len(v) = n /\ \A i \in 1 .. n : v[i] = s[b + i]
  <2>1. (b + n) - b = n /\ b <= b + n
    BY <1>1
  <2>2. /\ SubSeq(s, b + 1, b + n) \in Seq(S) /\ Len(SubSeq(s, b + 1, b + n)) = (b + n) - b
        /\ \A i \in 1 .. (b + n) - b : SubSeq(s, b + 1, b + n)[i] = s[b + i]
    BY <1>1, <2>1, PartOf
  <2> QED BY <2>1, <2>2 DEF From
<1> HIDE DEF t
<1>4. u \in Seq(S) /\ Len(u) = n /\ \A i \in 1 .. n : u[i] = t[i]
  <2>1. n <= Len(t) /\ 0 \in Nat /\ 0 <= n /\ n - 0 = n
    BY <1>1, <1>2
  <2>2. /\ SubSeq(t, 0 + 1, n) \in Seq(S) /\ Len(SubSeq(t, 0 + 1, n)) = n - 0
        /\ \A i \in 1 .. n - 0 : SubSeq(t, 0 + 1, n)[i] = t[0 + i]
    BY <1>2, <2>1, PartOf
  <2> QED BY <2>1, <2>2
<1> HIDE DEF u, v
<1>5. u = v
  <2>1. \A i \in 1 .. n : i \in 1 .. Len(s) - b
    BY <1>1
  <2>2. \A i \in 1 .. Len(u) : u[i] = v[i]
    BY <1>2, <1>3, <1>4, <2>1
  <2> QED BY <1>3, <1>4, <2>2, SeqEqual
<1>6. SubSeq(s, a + 1, b) \o SubSeq(s, b + 1, b + n) = SubSeq(s, a + 1, b + n)
  <2> DEFINE m == a + 1
             k == b
             l == b + n
  <2>1. m \in 1 .. Len(s) + 1 /\ k \in m - 1 .. Len(s) /\ l \in k .. Len(s)
    BY <1>1
  <2> HIDE DEF m, l
  <2>2. SubSeq(s, m, k) \o SubSeq(s, k + 1, l) = SubSeq(s, m, l)
    BY <2>1, ConcatAdjacentSubSeq
  <2> QED BY <2>2 DEF m, l
<1> QED BY <1>5, <1>6 DEF From, t, u, v

(* A chunk arrives: the frames it completes are taken. *)
LEMMA ChunkKeeps == StreamInv /\ Chunk => StreamInv'
<1> SUFFICES ASSUME StreamInv, Chunk PROVE StreamInv'
  OBVIOUS
<1>1. TypeOK /\ Counts /\ Flows
  BY DEF StreamInv
<1>2. call.pc = "stream" /\ UNCHANGED <<client, call, message, history>>
  BY DEF Chunk
<1>3. PICK n \in DOMAIN wire :
         /\ wire' = SubSeq(wire, n + 1, Len(wire))
         /\ buffer' = Parse(buffer \o SubSeq(wire, 1, n)).rest
         /\ reply' = TakeAll(client, message, reply, Parse(buffer \o SubSeq(wire, 1, n)).frames)
  BY DEF Chunk
<1> DEFINE es == Streamed(client, message)
           W == Width(history.line)
           L == Len(All)
           r == Received
           k == Whole
           s == r + n
           K == s \div W
<1>4. /\ Framed(All, es, history.line) /\ All \in Seq(Token) /\ L \in Nat
      /\ es \in Seq(Events) /\ Len(es) \in Nat /\ W \in {3, 5}
  BY <1>1, AllIsFramed, FramesAreCut
<1>5. /\ r \in Nat /\ wire = From(All, r, L) /\ buffer = From(All, W * k, r)
      /\ reply = Held(client, message, k)
  BY <1>1, <1>2 DEF Flows
<1>6. wire \in Seq(Token) /\ Len(wire) \in Nat /\ n \in 1 .. Len(wire) /\ r = L - Len(wire)
      /\ message \in Seq(BlockKinds)
  BY <1>1, <1>3, TypesAre, LenProperties DEF Received
<1>7. k = r \div W
  BY DEF Whole
<1> HIDE DEF es, W, L, r, k
<1>8. s \in Nat /\ s <= L /\ r <= s /\ r <= L /\ n \in Nat /\ Len(wire) = L - r /\ r \in Nat
  BY <1>4, <1>5, <1>6
<1>9. k \in Nat /\ W * k <= r /\ r < W * k + W
  BY <1>4, <1>5, <1>7, WholeIs
<1> HIDE DEF s
<1>10. K \in Nat /\ W * K <= s /\ s < W * K + W
  BY <1>4, <1>8, WholeIs
<1> HIDE DEF K
<1>11. k <= K
  <2>1. CASE W = 3
    BY <1>8, <1>9, <1>10, <2>1
  <2>2. CASE W = 5
    BY <1>8, <1>9, <1>10, <2>2
  <2> QED BY <1>4, <2>1, <2>2
<1>12. buffer \o SubSeq(wire, 1, n) = From(All, W * k, s)
  <2>1. W * k \in Nat /\ r + n <= Len(All)
    BY <1>4, <1>8, <1>9 DEF L, s
  <2>2. From(All, W * k, r) \o SubSeq(From(All, r, Len(All)), 1, n) = From(All, W * k, r + n)
    <3>1. W * k <= r /\ r \in Nat /\ n \in Nat /\ All \in Seq(Token)
      BY <1>4, <1>8, <1>9
    <3> DEFINE a == W * k
    <3> HIDE DEF a
    <3> QED BY <2>1, <3>1, PartsJoin DEF a
  <2>3. wire = From(All, r, Len(All)) /\ buffer = From(All, W * k, r)
    BY <1>5 DEF L
  <2> QED BY <2>2, <2>3 DEF s
<1>13. Coming(All, es, history.line, k, K, s)
  BY <1>4, <1>8, <1>9, <1>10, <1>11 DEF Coming, W, L
<1>14. Parse(buffer \o SubSeq(wire, 1, n))
         = [frames |-> SubSeq(es, k + 1, K), rest |-> From(All, W * K, s)]
  <2>1. Parse(From(All, W * k, s))
          = [frames |-> SubSeq(es, k + 1, K), rest |-> From(All, W * K, s)]
    BY <1>13, ParseIs DEF W
  <2> QED BY <1>12, <2>1
<1>15. K <= Len(es)
  BY <1>13, ComingIs
<1>16. wire' = From(All, s, L)
  <2>1. n \in 0 .. L - r
    BY <1>6, <1>8
  <2>2. SubSeq(SubSeq(All, r + 1, L), n + 1, L - r) = SubSeq(All, r + n + 1, L)
    <3>1. All \in Seq(Token) /\ r \in Nat /\ L \in Nat /\ r <= L /\ L <= Len(All)
      BY <1>4, <1>8 DEF L
    <3> QED BY <2>1, <3>1, PartOfPart
  <2>3. wire' = SubSeq(wire, n + 1, L - r)
    BY <1>3, <1>8
  <2> QED BY <1>5, <2>2, <2>3 DEF From, s
<1>17. wire' \in Seq(Token) /\ Len(wire') = L - s
  <2>1. s \in Nat /\ L \in Nat /\ s <= L /\ L <= Len(All)
    BY <1>4, <1>8 DEF L
  <2> QED BY <1>4, <1>16, <2>1, PartOf DEF From
<1>18. All' = All
  BY <1>2 DEF All
<1>19. Received' = s
  BY <1>4, <1>8, <1>17, <1>18 DEF Received, L
<1>20. W = Width(history'.line) /\ Whole' = K
  BY <1>2, <1>19 DEF Whole, W, K
<1>21. buffer' = From(All, W * K, s)
  BY <1>3, <1>14
<1>22. reply' = Held(client, message, K)
  <2>1. reply' = TakeAll(client, message, Held(client, message, k), SubSeq(es, k + 1, K))
    <3> DEFINE parsed == Parse(buffer \o SubSeq(wire, 1, n))
    <3>1. reply' = TakeAll(client, message, reply, parsed.frames)
      BY <1>3
    <3>2. parsed.frames = SubSeq(es, k + 1, K)
      BY <1>14
    <3> HIDE DEF parsed
    <3> QED BY <1>5, <3>1, <3>2
  <2> QED BY <1>6, <1>9, <1>10, <1>11, <1>15, <2>1, HeldMore DEF es
<1>23. buffer' \in Seq(Token) /\ reply' \in Reply
  <2>1. reply' \in Reply
    BY <1>6, <1>10, <1>15, <1>22, HeldType DEF es
  <2>2. W * K \in Nat /\ W * K <= s /\ s <= Len(All)
    BY <1>4, <1>8, <1>10 DEF L
  <2>3. buffer' \in Seq(Token)
    BY <1>4, <1>8, <1>21, <2>2, PartOf DEF From
  <2> QED BY <2>1, <2>3
<1>24. TypeOK'
  BY <1>1, <1>2, <1>17, <1>23 DEF TypeOK
<1>25. Flows'
  <2>1. /\ ~call'.again /\ client'[2] # "buffered" /\ Received' \in Nat
    BY <1>1, <1>2, <1>8, <1>19 DEF Flows
  <2>2. wire' = From(All', Received', Len(All'))
    BY <1>16, <1>18, <1>19 DEF L
  <2>3. buffer' = From(All', Width(history'.line) * Whole', Received')
    BY <1>18, <1>19, <1>20, <1>21
  <2>4. reply' = Held(client', message', Whole')
    BY <1>2, <1>20, <1>22
  <2> QED BY <2>1, <2>2, <2>3, <2>4 DEF Flows
<1>26. Idle' /\ Counts'
  BY <1>1, <1>2 DEF Idle, Counts
<1> QED BY <1>24, <1>25, <1>26 DEF StreamInv

(* The stream ends, or a sub-agent asks again. *)
LEMMA EndOfStreamKeeps == StreamInv /\ EndOfStream => StreamInv'
<1> SUFFICES ASSUME StreamInv, EndOfStream PROVE StreamInv'
  OBVIOUS
<1>1. TypeOK /\ Counts /\ Flows
  BY DEF StreamInv
<1>2. /\ call.pc = "stream" /\ wire' = <<>> /\ buffer' = <<>>
      /\ history' = [history EXCEPT !.cut = wire \o buffer # <<>>]
      /\ UNCHANGED <<client, message>>
  BY DEF EndOfStream
<1>3. history' \in Histories /\ history'.sent = history.sent
  <2> DEFINE cut == wire \o buffer # <<>>
  <2>1. cut \in BOOLEAN
    OBVIOUS
  <2>2. history' = [history EXCEPT !.cut = cut]
    BY <1>2
  <2> HIDE DEF cut
  <2> QED BY <1>1, <2>1, <2>2 DEF TypeOK, Histories
<1>4. wire' \in Seq(Token) /\ buffer' \in Seq(Token)
  BY <1>2, EmptySeq
<1>5. CASE /\ \/ call' = [call EXCEPT !.pc = "ok"]
              \/ call' = [call EXCEPT !.pc = "err"]
           /\ \/ UNCHANGED reply
              \/ reply' = Collect(reply, Piece("stop", 0, 0))
  <2>1. PICK pc \in {"ok", "err"} : call' = [call EXCEPT !.pc = pc]
    BY <1>5
  <2>2. /\ call' = [pc |-> pc, attempts |-> call.attempts, again |-> call.again]
        /\ call' \in [pc : {"send", "await", "backoff", "stream", "ok", "err"},
                     attempts : 0 .. MaxRetries + 1, again : BOOLEAN]
    BY <1>1, <2>1, CallType
  <2>3. reply' \in Reply
    <3>1. reply \in Reply /\ Piece("stop", 0, 0) \in Pieces
      BY <1>1, PieceType DEF TypeOK
    <3> QED BY <1>5, <3>1, CollectType
  <2>4. TypeOK'
    BY <1>1, <1>2, <1>3, <1>4, <2>2, <2>3 DEF TypeOK, Histories
  <2>5. Idle' /\ Counts'
    BY <1>1, <1>3, <2>2 DEF Idle, Counts
  <2> QED BY <2>2, <2>4, <2>5, Outside
<1>6. CASE call' = AskAgain /\ reply' = NoReply
  <2>1. call' = [pc |-> "send", attempts |-> 0, again |-> TRUE]
    BY <1>6 DEF AskAgain
  <2>2. call' \in [pc : {"send", "await", "backoff", "stream", "ok", "err"},
                   attempts : 0 .. MaxRetries + 1, again : BOOLEAN]
    <3>1. 0 \in 0 .. MaxRetries + 1
      BY ApiAssumption
    <3> QED BY <2>1, <3>1
  <2>3. TypeOK'
    BY <1>1, <1>2, <1>3, <1>4, <1>6, <2>2, NoReplyType DEF TypeOK, Histories
  <2>4. history.sent <= MaxRetries + 1 /\ MaxRetries \in Nat
    <3>1. /\ call.attempts \in 0 .. MaxRetries + 1 /\ ~call.again /\ history.sent \in Nat
          /\ history.sent <= call.attempts + (IF call.again THEN MaxRetries + 1 ELSE 0)
          /\ MaxRetries \in Nat
      BY <1>1, <1>2, TypesAre DEF Flows, Counts
    <3> QED BY <3>1
  <2>5. Idle' /\ Counts'
    BY <1>2, <1>3, <1>6, <2>1, <2>4 DEF Idle, Counts
  <2> QED BY <2>1, <2>3, <2>5, Outside
<1> QED BY <1>5, <1>6 DEF EndOfStream

(* Every step keeps the invariant. *)
LEMMA StreamNext == StreamInv /\ [Next]_vars => StreamInv'
<1> SUFFICES ASSUME StreamInv, [Next]_vars PROVE StreamInv'
  OBVIOUS
<1>1. CASE UNCHANGED vars
  <2>1. /\ UNCHANGED <<client, call, message, wire, buffer, reply, history>>
    BY <1>1 DEF vars
  <2>2. TypeOK' /\ Idle' /\ Counts'
    BY <2>1 DEF StreamInv, TypeOK, Idle, Counts
  <2>3. All' = All
    BY <2>1 DEF All
  <2>4. Received' = Received /\ Whole' = Whole
    BY <2>1, <2>3 DEF Received, Whole
  <2>5. Flows'
    BY <2>1, <2>3, <2>4 DEF StreamInv, Flows
  <2> QED BY <2>2, <2>5 DEF StreamInv
<1>2. CASE Next
  BY <1>2, SendKeeps, UnreachableKeeps, BackoffKeeps, RefusedKeeps, RespondsWholeKeeps,
     RespondsKeeps, ChunkKeeps, EndOfStreamKeeps DEF Next
<1> QED BY <1>1, <1>2

(* Every reachable state has the invariant. *)
LEMMA StreamSafety == Spec => []StreamInv
BY StreamInit, StreamNext, PTL DEF Spec

(* In every reachable state the types are right, and a call has sent no    *)
(* more requests than max_retries allows, twice for a sub-agent that asks  *)
(* again (send_with_retry).                                                *)
THEOREM RetriesAreBounded == Spec => []Inv
<1>1. StreamInv => Inv
  <2> SUFFICES ASSUME StreamInv PROVE Inv
    OBVIOUS
  <2>1. /\ call.attempts \in 0 .. MaxRetries + 1 /\ history.sent \in Nat /\ MaxRetries \in Nat
        /\ call.again \in BOOLEAN
        /\ history.sent <= call.attempts + (IF call.again THEN MaxRetries + 1 ELSE 0)
    BY TypesAre DEF StreamInv, Counts
  <2>2. RequestsBounded
    BY <2>1 DEF RequestsBounded
  <2> QED BY <2>2 DEF StreamInv, Inv
<1> QED BY <1>1, StreamSafety, PTL

(* Wherever the chunks of a stream end, the client has taken exactly the   *)
(* frames that came with their blank lines, in order                       *)
(* (SseParser::push and next_frame).                                       *)
THEOREM EveryFrameOnce == Spec => []FramesAreExact
<1>1. StreamInv => FramesAreExact
  <2> SUFFICES ASSUME StreamInv, call.pc = "stream"
               PROVE  reply = TakeAll(client, message, NoReply,
                                      SubSeq(Streamed(client, message), 1, Whole))
    BY DEF FramesAreExact, Whole, Received, All, Width
  <2> QED BY DEF StreamInv, Flows, Held
<1> QED BY <1>1, StreamSafety, PTL

--------------------------------------------------------------------------------
(* What a reply says. *)

(* The pieces of tool uses are all content. *)
LEMMA ContentTools ==
  ASSUME NEW out \in Seq(Pieces), NEW calls \in Seq(Tools)
  PROVE  Content(out \o calls) = Content(out) \o calls
<1> DEFINE Has(n) == Content(out \o SubSeq(calls, 1, n)) = Content(out) \o SubSeq(calls, 1, n)
           A == {n \in Nat : n <= Len(calls) => Has(n)}
<1>1. /\ Content(out) \in Seq(Pieces) /\ calls \in Seq(Pieces) /\ Len(calls) \in Nat
      /\ \A i \in 1 .. Len(calls) : calls[i] \in Pieces /\ calls[i].kind = "tool"
  <2>1. Tools \subseteq Pieces
    BY DEF Pieces, Tools
  <2>2. Content(out) \in Seq(Pieces)
    <3>1. Piece("stop", 0, 0) \in Pieces
      BY PieceType
    <3> QED BY <3>1, ContentAppend
  <2>3. \A i \in 1 .. Len(calls) : calls[i] \in Tools
    BY ElementOfSeq
  <2> QED BY <2>1, <2>2, <2>3, SeqMonotonic, LenProperties DEF Tools
<1>2. 0 \in A
  <2>1. SubSeq(calls, 1, 0) = <<>>
    BY SubSeqEmpty
  <2>2. out \o <<>> = out /\ Content(out) \o <<>> = Content(out)
    BY <1>1, ConcatEmptySeq
  <2> QED BY <2>1, <2>2
<1>3. ASSUME NEW n \in A PROVE n + 1 \in A
  <2> SUFFICES ASSUME n + 1 <= Len(calls) PROVE Has(n + 1)
    OBVIOUS
  <2>1. n \in Nat /\ Has(n) /\ n + 1 \in 1 .. Len(calls)
    BY <1>1
  <2> DEFINE some == SubSeq(calls, 1, n)
             p == calls[n + 1]
  <2>2. p \in Pieces /\ p.kind = "tool"
    BY <1>1, <2>1
  <2>3. some \in Seq(Pieces) /\ SubSeq(calls, 1, n + 1) = some \o <<p>>
    <3>1. 0 \in Nat /\ 0 <= n /\ n + 1 <= Len(calls) /\ n <= Len(calls)
      BY <1>1, <2>1
    <3>2. SubSeq(calls, 0 + 1, n) \in Seq(Pieces)
      BY <1>1, <2>1, <3>1, PartOf
    <3>3. SubSeq(calls, 0 + 1, n) \o <<calls[n + 1]>> = SubSeq(calls, 0 + 1, n + 1)
      BY <1>1, <2>1, <3>1, PartGrows
    <3> QED BY <3>2, <3>3
  <2>4. Content(out \o some) = Content(out) \o some
    BY <2>1
  <2> HIDE DEF some, p
  <2>5. out \o some \in Seq(Pieces) /\ Content(out) \o some \in Seq(Pieces) /\ <<p>> \in Seq(Pieces)
    BY <1>1, <2>2, <2>3, ConcatProperties
  <2>6. /\ Append(out \o some, p) = (out \o some) \o <<p>>
        /\ Append(Content(out) \o some, p) = (Content(out) \o some) \o <<p>>
    BY <2>2, <2>5, AppendIsConcat
  <2> DEFINE one == <<p>>
  <2>7. /\ (out \o some) \o one = out \o (some \o one)
        /\ (Content(out) \o some) \o one = Content(out) \o (some \o one)
    <3>1. one \in Seq(Pieces) /\ some \in Seq(Pieces) /\ Content(out) \in Seq(Pieces)
      BY <1>1, <2>3, <2>5
    <3> HIDE DEF one
    <3>2. (out \o some) \o one = out \o (some \o one)
      BY <3>1, ConcatAssociative, SMTT(30)
    <3>3. (Content(out) \o some) \o one = Content(out) \o (some \o one)
      BY <3>1, ConcatAssociative, SMTT(30)
    <3> QED BY <3>2, <3>3
  <2>8. Content(Append(out \o some, p)) = Append(Content(out \o some), p)
    BY <2>2, <2>5, ContentAppend
  <2> QED BY <2>3, <2>4, <2>6, <2>7, <2>8
<1>4. A = Nat
  <2>1. A \in SUBSET Nat
    OBVIOUS
  <2> HIDE DEF A
  <2> QED BY <1>2, <1>3, <2>1, SetInduction
<1>5. Has(Len(calls))
  BY <1>1, <1>4
<1>6. SubSeq(calls, 1, Len(calls)) = calls
  BY SubSeqFull
<1> QED BY <1>5, <1>6

--------------------------------------------------------------------------------
(* When a reply has its stop. *)
NoStop(r) == \A i \in 1 .. Len(r.out) : r.out[i].kind # "stop"

(* Another piece is no stop. *)
LEMMA CollectNoStop ==
  ASSUME NEW r \in Reply, NEW p \in Pieces, NoStop(r), p.kind # "stop"
  PROVE  NoStop(Collect(r, p))
<1> DEFINE out == Append(r.out, p)
<1>1. Collect(r, p).out = out
  BY CollectType
<1>2. /\ Len(out) = Len(r.out) + 1 /\ out[Len(r.out) + 1] = p
      /\ \A i \in 1 .. Len(r.out) : out[i] = r.out[i]
      /\ Len(r.out) \in Nat
  BY ReplyParts, AppendProperties, LenProperties
<1> HIDE DEF out
<1>3. ASSUME NEW i \in 1 .. Len(out) PROVE out[i].kind # "stop"
  <2>1. CASE i = Len(r.out) + 1
    BY <1>2, <2>1
  <2>2. CASE i # Len(r.out) + 1
    <3>1. i \in 1 .. Len(r.out)
      BY <1>2, <2>2
    <3> QED BY <1>2, <3>1 DEF NoStop
  <2> QED BY <2>1, <2>2
<1> QED BY <1>1, <1>3 DEF NoStop

(* Only what a client puts into its output counts. *)
LEMMA SameOutNoStop ==
  ASSUME NEW r, NEW s, NoStop(r), s.out = r.out
  PROVE  NoStop(s)
BY DEF NoStop

(* No event before the last makes a stop. *)
LEMMA TakesNoStop ==
  ASSUME NEW c, NEW m, NEW r \in Reply, NEW e \in Inner, NoStop(r)
  PROVE  NoStop(Takes(c, m, r, e))
<1>1. /\ e.block \in Nat /\ e.kind \notin {"stop", "done"} /\ Given(m, e.block) \in Nat
      /\ NoTool \in Pieces /\ r.tool \in Pieces /\ r.tool.kind = "tool"
  BY GivenType, ReplyParts, PieceType DEF Inner, NoTool, Tools, Pieces
<1>2. /\ NoStop(Collect(r, Piece("usage", 0, 0)))
      /\ NoStop(Collect(r, Piece("text", e.block, 0)))
      /\ NoStop(Collect(r, Piece("tool", e.block, Given(m, e.block))))
  <2>1. /\ Piece("usage", 0, 0).kind = "usage" /\ Piece("text", e.block, 0).kind = "text"
        /\ Piece("tool", e.block, Given(m, e.block)).kind = "tool"
    BY DEF Piece
  <2>2. /\ Piece("usage", 0, 0) \in Pieces /\ Piece("text", e.block, 0) \in Pieces
        /\ Piece("tool", e.block, Given(m, e.block)) \in Pieces
    BY <1>1, PieceType
  <2> QED BY <2>1, <2>2, CollectNoStop
<1>3. NoStop(Accumulate(r, e.block))
  <2>1. Accumulate(r, e.block).out = r.out
    BY ReplyParts DEF Accumulate
  <2> QED BY <2>1, SameOutNoStop
<1>4. /\ NoStop([r EXCEPT !.tool = Piece("tool", e.block, Given(m, e.block))])
      /\ NoStop([r EXCEPT !.tool = AppendInput(@)])
  <2>1. /\ [r EXCEPT !.tool = Piece("tool", e.block, Given(m, e.block))].out = r.out
        /\ [r EXCEPT !.tool = AppendInput(@)].out = r.out
    BY ReplyParts
  <2> QED BY <2>1, SameOutNoStop
<1>5. NoStop([Collect(r, r.tool) EXCEPT !.tool = NoTool])
  <2> DEFINE s == Collect(r, r.tool)
  <2>1. s \in Reply /\ NoStop(s)
    BY <1>1, CollectType, CollectNoStop
  <2> HIDE DEF s
  <2>2. [s EXCEPT !.tool = NoTool].out = s.out
    BY <2>1, ReplyParts
  <2> QED BY <2>1, <2>2, SameOutNoStop DEF s
<1>6. NoStop(CliTakes(m, r, e))
  BY <1>1, <1>2, <1>3 DEF CliTakes
<1>7. NoStop(AgentTakes(m, r, e))
  BY <1>1, <1>2, <1>4, <1>5 DEF AgentTakes
<1> QED BY <1>6, <1>7 DEF Takes

(* Nor do many. *)
LEMMA TakeAllNoStop ==
  ASSUME NEW c, NEW m, NEW r \in Reply, NEW es \in Seq(Inner), NoStop(r)
  PROVE  NoStop(TakeAll(c, m, r, es))
<1>1. es \in Seq(Events) /\ Len(es) \in Nat /\ \A i \in 1 .. Len(es) : es[i] \in Inner
  BY InnerEvents, LenProperties, ElementOfSeq
<1>2. PICK f : Taking(f, c, m, r, es)
  BY <1>1, TakeAllIs
<1> DEFINE A == {n \in Nat : n <= Len(es) => NoStop(f[n])}
<1>3. 0 \in A
  BY <1>2 DEF Taking
<1>4. ASSUME NEW n \in A PROVE n + 1 \in A
  <2> SUFFICES ASSUME n + 1 <= Len(es) PROVE NoStop(f[n + 1])
    OBVIOUS
  <2>1. n + 1 \in 1 .. Len(es) /\ (n + 1) - 1 = n /\ n \in 0 .. Len(es) /\ NoStop(f[n])
    BY <1>1
  <2>2. f[n] \in Reply /\ f[n + 1] = Takes(c, m, f[n], es[n + 1]) /\ es[n + 1] \in Inner
    BY <1>1, <1>2, <2>1 DEF Taking
  <2> QED BY <2>1, <2>2, TakesNoStop
<1>5. A = Nat
  <2>1. A \in SUBSET Nat
    OBVIOUS
  <2> HIDE DEF A
  <2> QED BY <1>3, <1>4, <2>1, SetInduction
<1>6. NoStop(f[Len(es)])
  BY <1>1, <1>5
<1> QED BY <1>2, <1>6 DEF Taking

(* The clients, and whom they call. *)
LEMMA ClientsAre ==
  ASSUME NEW c \in Clients
  PROVE  /\ c[1] \in {"cli", "agent"} /\ c[2] \in {"native", "openai", "buffered"}
         /\ c[1] = "agent" => c[2] = "native"
         /\ c[1] = "cli" /\ c[2] = "native" => c = <<"cli", "native">>
<1>1. c \in {"cli"} \X {"native", "openai", "buffered"} \cup {<<"agent", "native">>}
  BY ApiAssumption
<1> QED BY <1>1

(* The stop of a reply comes with the last frame, and not before. *)
LEMMA StopComesLast ==
  ASSUME NEW c \in Clients, NEW m \in Seq(BlockKinds), NEW k \in Nat, k <= Len(Streamed(c, m))
  PROVE  /\ k = Len(Streamed(c, m)) => ~NoStop(Held(c, m, k))
         /\ k < Len(Streamed(c, m)) => NoStop(Held(c, m, k))
<1>1. PICK es \in Seq(Inner), e \in Events :
         /\ Streamed(c, m) = es \o <<e>>
         /\ e = IF c[2] = "openai" THEN Event("done", 0) ELSE Event("stop", 0)
  BY StreamEnds, Zenon
<1>2. es \in Seq(Events) /\ Len(es) \in Nat /\ Len(es \o <<e>>) = Len(es) + 1
  BY InnerEvents, LenProperties, ConcatProperties
<1>3. NoStop(NoReply)
  BY DEF NoStop, NoReply
<1>4. CASE k = Len(Streamed(c, m))
  <2> DEFINE r == TakeAll(c, m, NoReply, es)
  <2>1. r \in Reply
    BY <1>2, NoReplyType, TakeAllType
  <2>2. SubSeq(es \o <<e>>, 1, k) = es \o <<e>>
    <3> DEFINE all == es \o <<e>>
    <3>1. all \in Seq(Events) /\ k = Len(all)
      BY <1>1, <1>2, <1>4, ConcatProperties
    <3> HIDE DEF all
    <3> QED BY <3>1, SubSeqFull DEF all
  <2>3. Held(c, m, k) = Takes(c, m, r, e)
    <3>1. TakeAll(c, m, NoReply, es \o <<e>>) = Takes(c, m, TakeAll(c, m, NoReply, es), e)
      BY <1>2, NoReplyType, TakeAllAppend
    <3> QED BY <1>1, <2>2, <3>1 DEF Held
  <2> HIDE DEF r
  <2> DEFINE stop == Piece("stop", 0, 0)
  <2>4. Takes(c, m, r, e) = FlushCalls(m, r) \/ Takes(c, m, r, e) = Collect(r, stop)
    <3>1. CASE c[2] = "openai"
      <4>1. c[1] = "cli" /\ e.kind = "done"
        BY <1>1, <3>1, ClientsAre DEF Event
      <4> QED BY <4>1 DEF Takes, CliTakes
    <3>2. CASE c[2] # "openai"
      <4>1. e.kind = "stop"
        BY <1>1, <3>2 DEF Event
      <4> QED BY <4>1 DEF Takes, CliTakes, AgentTakes
    <3> QED BY <3>1, <3>2
  <2>5. stop \in Pieces /\ stop.kind = "stop"
    BY PieceType DEF Piece
  <2> HIDE DEF stop
  <2>6. \E out \in Seq(Pieces) : Held(c, m, k).out = Append(out, stop)
    <3> DEFINE said == Content(Handed(m, r.calls))
    <3>1. r.out \in Seq(Pieces) /\ r.out \o said \in Seq(Pieces)
      <4>1. Tools \subseteq Pieces
        BY DEF Tools, Pieces
      <4>2. r.out \in Seq(Pieces) /\ said \in Seq(Tools)
        BY <2>1, ReplyParts, HandedContent
      <4>3. said \in Seq(Pieces)
        BY <4>1, <4>2, SeqMonotonic
      <4> QED BY <4>2, <4>3, ConcatProperties
    <3>2. CASE Takes(c, m, r, e) = FlushCalls(m, r)
      <4> DEFINE out == Append(r.out \o said, stop)
      <4>0. FlushCalls(m, r) = [out |-> out, tool |-> r.tool, calls |-> <<>>]
        BY <2>1, FlushCallsType DEF stop
      <4> HIDE DEF out
      <4>2. FlushCalls(m, r).out = out
        BY <4>0
      <4>1. FlushCalls(m, r).out = Append(r.out \o said, stop)
        BY <4>2 DEF out
      <4> QED BY <2>3, <3>1, <3>2, <4>1
    <3>3. CASE Takes(c, m, r, e) = Collect(r, stop)
      <4>1. Collect(r, stop).out = Append(r.out, stop)
        BY <2>1, <2>5, CollectType
      <4> QED BY <2>3, <3>1, <3>3, <4>1
    <3> QED BY <2>4, <3>2, <3>3
  <2>7. PICK out \in Seq(Pieces) : Held(c, m, k).out = Append(out, stop)
    BY <2>6
  <2>8. /\ Len(Append(out, stop)) = Len(out) + 1 /\ Append(out, stop)[Len(out) + 1] = stop
        /\ Len(out) \in Nat
    BY <2>5, AppendProperties, LenProperties
  <2>9. Len(out) + 1 \in 1 .. Len(Append(out, stop))
    BY <2>8
  <2> QED BY <1>4, <2>5, <2>7, <2>8, <2>9 DEF NoStop
<1>5. CASE k < Len(Streamed(c, m))
  <2>1. k <= Len(es)
    BY <1>1, <1>2, <1>5
  <2>2. SubSeq(es, 1, k) \in Seq(Inner)
    <3>1. SubSeq(es, 0 + 1, k) \in Seq(Inner)
      BY <2>1, PartOf
    <3> QED BY <3>1
  <2>3. SubSeq(es \o <<e>>, 1, k) = SubSeq(es, 1, k)
    <3>1. CASE k = 0
      BY <3>1, SubSeqEmpty
    <3>2. CASE k # 0
      <4>1. 1 \in 1 .. Len(es) /\ k \in 1 .. Len(es)
        BY <1>2, <2>1, <3>2
      <4> DEFINE one == <<e>>
      <4>2. one \in Seq(Events)
        OBVIOUS
      <4> HIDE DEF one
      <4>3. SubSeq(es \o one, 1, k) = SubSeq(es, 1, k)
        BY <1>2, <4>1, <4>2, SubSeqOfConcat1
      <4> QED BY <4>3 DEF one
    <3> QED BY <3>1, <3>2
  <2>4. NoStop(TakeAll(c, m, NoReply, SubSeq(es, 1, k)))
    BY <1>3, <2>2, NoReplyType, TakeAllNoStop
  <2>5. Held(c, m, k) = TakeAll(c, m, NoReply, SubSeq(es, 1, k))
    BY <1>1, <2>3, Zenon DEF Held
  <2>6. NoStop(Held(c, m, k)) /\ k # Len(Streamed(c, m))
    BY <1>5, <2>4, <2>5
  <2> QED BY <2>6
<1> QED BY <1>4, <1>5

--------------------------------------------------------------------------------
(* What a native stream says. *)

(* The piece a block is to become, by the kind of the block. *)
LEMMA DueIs ==
  ASSUME NEW c, NEW m, NEW i
  PROVE  /\ m[i] = "text" => Due(c, m, i) = Piece("text", i, 0)
         /\ m[i] \in {"tool", "streamed"} => Due(c, m, i) = Piece("tool", i, Fragments)
         /\ m[i] = "garbled" /\ c[2] = "openai" => Due(c, m, i) = Piece("tool", i, 0)
         /\ m[i] \notin {"text", "tool", "streamed", "garbled"} => Due(c, m, i) = Lost
         /\ m[i] = "garbled" /\ c[2] # "openai" => Due(c, m, i) = Lost
<1>1. ASSUME m[i] = "text" PROVE Due(c, m, i) = Piece("text", i, 0)
  BY <1>1 DEF Due
<1>2. ASSUME m[i] \in {"tool", "streamed"} PROVE Due(c, m, i) = Piece("tool", i, Fragments)
  BY <1>2 DEF Due
<1>3. ASSUME m[i] = "garbled", c[2] = "openai" PROVE Due(c, m, i) = Piece("tool", i, 0)
  BY <1>3 DEF Due
<1>4. ASSUME m[i] \notin {"text", "tool", "streamed", "garbled"} PROVE Due(c, m, i) = Lost
  BY <1>4 DEF Due
<1>5. ASSUME m[i] = "garbled", c[2] # "openai" PROVE Due(c, m, i) = Lost
  BY <1>5 DEF Due
<1> QED BY <1>1, <1>2, <1>3, <1>4, <1>5

(* It is content, or lost. *)
LEMMA DueType ==
  ASSUME NEW c, NEW m, NEW i \in Nat
  PROVE  \/ Due(c, m, i) \in Pieces /\ Due(c, m, i).kind \in {"text", "tool"}
         \/ Due(c, m, i) = Lost
<1>1. Fragments \in Nat /\ 0 \in Nat
  BY ApiAssumption
<1>2. /\ Piece("text", i, 0) \in Pieces /\ Piece("tool", i, Fragments) \in Pieces
      /\ Piece("tool", i, 0) \in Pieces /\ Piece("tool", i, 0).kind = "tool"
      /\ Piece("text", i, 0).kind = "text" /\ Piece("tool", i, Fragments).kind = "tool"
  BY <1>1, PieceType DEF Piece
<1>3. Due(c, m, i) \in {Piece("text", i, 0), Piece("tool", i, Fragments), Piece("tool", i, 0), Lost}
  <2>1. CASE m[i] \in {"text", "tool", "streamed"}
    BY <2>1, DueIs
  <2>2. CASE m[i] = "garbled"
    BY <2>2, DueIs
  <2>3. CASE m[i] \notin {"text", "tool", "streamed", "garbled"}
    BY <2>3, DueIs
  <2> QED BY <2>1, <2>2, <2>3
<1> QED BY <1>2, <1>3

(* All of them. *)
LEMMA DuesType ==
  ASSUME NEW c, NEW m \in Seq(BlockKinds)
  PROVE  /\ Dues(c, m) \in Seq(Pieces \cup {Lost})
         /\ Len(Dues(c, m)) = Len(m) /\ Len(m) \in Nat
         /\ \A i \in 1 .. Len(m) : Dues(c, m)[i] = Due(c, m, i)
<1>1. DOMAIN m = 1 .. Len(m) /\ Len(m) \in Nat
  BY LenProperties
<1>2. \A i \in 1 .. Len(m) : Due(c, m, i) \in Pieces \cup {Lost}
  BY DueType
<1>3. Dues(c, m) = [i \in 1 .. Len(m) |-> Due(c, m, i)]
  BY <1>1 DEF Dues
<1> QED BY <1>1, <1>2, <1>3, IsASeq

(* What is due of the first n blocks. *)
Owing(c, m, n) == Content(SubSeq(Dues(c, m), 1, n))

(* A sequence of two. *)
LEMMA PairIs ==
  ASSUME NEW S, NEW a \in S, NEW b \in S
  PROVE  <<a, b>> = <<a>> \o <<b>>
<1> DEFINE one == <<a>>
<1>1. one \in Seq(S) /\ Len(one) = 1 /\ one[1] = a
  OBVIOUS
<1>2. <<a, b>> = Append(one, b)
  OBVIOUS
<1> HIDE DEF one
<1>3. Append(one, b) = one \o <<b>>
  BY <1>1, AppendIsConcat
<1> QED BY <1>2, <1>3 DEF one

(* Two events. *)
LEMMA TakeAllPair ==
  ASSUME NEW c, NEW m, NEW r \in Reply, NEW a \in Events, NEW b \in Events
  PROVE  TakeAll(c, m, r, <<a, b>>) = Takes(c, m, Takes(c, m, r, a), b)
<1> DEFINE one == <<a>>
<1>1. one \in Seq(Events) /\ TakeAll(c, m, r, one) = Takes(c, m, r, a)
  BY TakeAllOne
<1>2. <<a, b>> = one \o <<b>>
  BY PairIs
<1> HIDE DEF one
<1>3. TakeAll(c, m, r, one \o <<b>>) = Takes(c, m, TakeAll(c, m, r, one), b)
  BY <1>1, TakeAllAppend
<1> QED BY <1>1, <1>2, <1>3

(* Three events. *)
LEMMA TakeAllTriple ==
  ASSUME NEW c, NEW m, NEW r \in Reply, NEW a \in Events, NEW b \in Events, NEW d \in Events
  PROVE  TakeAll(c, m, r, <<a, b, d>>) = Takes(c, m, Takes(c, m, Takes(c, m, r, a), b), d)
<1> DEFINE two == <<a, b>>
<1>1. two \in Seq(Events) /\ TakeAll(c, m, r, two) = Takes(c, m, Takes(c, m, r, a), b)
  BY TakeAllPair
<1>2. <<a, b, d>> = two \o <<d>>
  OBVIOUS
<1> HIDE DEF two
<1>3. TakeAll(c, m, r, two \o <<d>>) = Takes(c, m, TakeAll(c, m, r, two), d)
  BY <1>1, TakeAllAppend
<1> QED BY <1>1, <1>2, <1>3

(* The events of a block by their names. *)
LEMMA BlockEvents ==
  ASSUME NEW i \in Nat
  PROVE  /\ Event("open", i) \in Events /\ Event("open", i).kind = "open"
         /\ Event("open", i).block = i
         /\ Event("text", i) \in Events /\ Event("text", i).kind = "text"
         /\ Event("text", i).block = i
         /\ Event("json", i) \in Events /\ Event("json", i).kind = "json"
         /\ Event("close", i) \in Events /\ Event("close", i).kind = "close"
         /\ Event("part", i) \in Events /\ Event("part", i).kind = "part"
         /\ Event("part", i).block = i
<1>1. \A kind \in {"open", "text", "json", "close", "part"} : Event(kind, i) \in Events
  BY EventIs DEF EventKinds
<1> QED BY <1>1 DEF Event

(* A tool under construction. *)
Building(r, i, n) == [out |-> r.out, tool |-> Piece("tool", i, n), calls |-> r.calls]

(* It is a tool use, and its reply a reply. *)
LEMMA BuildingType ==
  ASSUME NEW r \in Reply, NEW i \in Nat \ {0}, NEW n \in Nat
  PROVE  /\ Piece("tool", i, n) \in Tools /\ Piece("tool", i, n) \in Pieces
         /\ Piece("tool", i, n) # NoTool /\ NoTool \in Tools
         /\ Building(r, i, n) \in Reply /\ Building(r, i, n).tool = Piece("tool", i, n)
         /\ Building(r, i, n).out = r.out /\ Building(r, i, n).calls = r.calls
<1> DEFINE piece == Piece("tool", i, n)
           b == Building(r, i, n)
<1>1. piece \in Tools /\ piece \in Pieces /\ piece # NoTool /\ NoTool \in Tools
  <2>1. NoTool \in Tools
    BY PieceType DEF NoTool
  <2>2. piece \in Tools /\ piece \in Pieces
    BY PieceType
  <2>3. piece # NoTool
    BY DEF Piece, NoTool
  <2> QED BY <2>1, <2>2, <2>3
<1>2. b = [out |-> r.out, tool |-> piece, calls |-> r.calls]
  BY DEF Building
<1> HIDE DEF b, piece
<1>3. b \in Reply /\ b.tool = piece /\ b.out = r.out /\ b.calls = r.calls
  BY <1>1, <1>2, ReplyParts, ReplyFrom
<1> QED BY <1>1, <1>3 DEF b, piece

(* A sub-agent opens a tool use. *)
LEMMA AgentOpens ==
  ASSUME NEW m, NEW r \in Reply, NEW i \in Nat \ {0}, m[i] # "text"
  PROVE  AgentTakes(m, r, Event("open", i)) = Building(r, i, Given(m, i))
<1>1. r = [out |-> r.out, tool |-> r.tool, calls |-> r.calls]
  BY ReplyParts
<1>2. AgentTakes(m, r, Event("open", i)) = [r EXCEPT !.tool = Piece("tool", i, Given(m, i))]
  BY BlockEvents DEF AgentTakes
<1> QED BY <1>1, <1>2 DEF Building

(* It adds a fragment. *)
LEMMA AgentAdds ==
  ASSUME NEW m, NEW r \in Reply, NEW i \in Nat \ {0}, NEW n \in Nat
  PROVE  AgentTakes(m, Building(r, i, n), Event("json", i)) = Building(r, i, n + 1)
<1> DEFINE piece == Piece("tool", i, n)
           b == Building(r, i, n)
<1>1. AppendInput(piece) = Piece("tool", i, n + 1)
  BY DEF AppendInput, Piece
<1>2. piece # NoTool /\ b \in Reply /\ b.tool = piece /\ b.out = r.out /\ b.calls = r.calls
  BY BuildingType
<1> HIDE DEF b, piece
<1>3. AgentTakes(m, b, Event("json", i)) = [b EXCEPT !.tool = AppendInput(@)]
  BY <1>2, BlockEvents DEF AgentTakes
<1>4. [b EXCEPT !.tool = AppendInput(@)]
        = [out |-> b.out, tool |-> AppendInput(b.tool), calls |-> b.calls]
  BY <1>2, ReplyParts
<1> QED BY <1>1, <1>2, <1>3, <1>4 DEF Building, b

(* It closes it. *)
LEMMA AgentCloses ==
  ASSUME NEW m, NEW r \in Reply, r.tool = NoTool, NEW i \in Nat \ {0}, NEW n \in Nat
  PROVE  AgentTakes(m, Building(r, i, n), Event("close", i)) = Collect(r, Piece("tool", i, n))
<1> DEFINE piece == Piece("tool", i, n)
           b == Building(r, i, n)
<1>1. /\ piece \in Pieces /\ piece # NoTool
      /\ b \in Reply /\ b.tool = piece /\ b.out = r.out /\ b.calls = r.calls
  BY BuildingType
<1> HIDE DEF b, piece
<1>2. AgentTakes(m, b, Event("close", i)) = [Collect(b, b.tool) EXCEPT !.tool = NoTool]
  BY <1>1, BlockEvents DEF AgentTakes
<1>3. Collect(b, piece) = [out |-> Append(b.out, piece), tool |-> b.tool, calls |-> b.calls]
  BY <1>1, CollectType
<1>4. Collect(r, piece) = [out |-> Append(r.out, piece), tool |-> r.tool, calls |-> r.calls]
  BY <1>1, CollectType
<1>5. [Collect(b, piece) EXCEPT !.tool = NoTool]
        = [out |-> Append(b.out, piece), tool |-> NoTool, calls |-> b.calls]
  <2> DEFINE out   == Append(b.out, piece)
             after == Collect(b, piece)
  <2>1. after = [out |-> out, tool |-> b.tool, calls |-> b.calls]
    BY <1>3
  <2> HIDE DEF out, after
  <2>2. [after EXCEPT !.tool = NoTool] = [out |-> out, tool |-> NoTool, calls |-> b.calls]
    BY <2>1
  <2> QED BY <2>2 DEF out, after
<1>6. Collect(r, piece) = [out |-> Append(b.out, piece), tool |-> NoTool, calls |-> b.calls]
  BY <1>1, <1>4
<1>7. AgentTakes(m, b, Event("close", i)) = Collect(r, piece)
  BY <1>1, <1>2, <1>5, <1>6
<1> QED BY <1>7 DEF b, piece

(* Fragments are counted. *)
LEMMA AgentGathers ==
  ASSUME NEW c, c[1] = "agent", NEW m, NEW r \in Reply, r.tool = NoTool, NEW i \in Nat \ {0}
  PROVE  TakeAll(c, m, Building(r, i, 0), [n \in 1 .. Fragments |-> Event("json", i)])
           = Building(r, i, Fragments)
<1> DEFINE es == [n \in 1 .. Fragments |-> Event("json", i)]
           b  == Building(r, i, 0)
<1>1. Fragments \in Nat
  BY ApiAssumption
<1>2. /\ es \in Seq(Events) /\ Len(es) = Fragments
      /\ \A n \in 1 .. Fragments : es[n] = Event("json", i)
  BY <1>1, BlockEvents, IsASeq
<1>3. b \in Reply
  BY BuildingType
<1>9. ASSUME NEW n \in Nat
      PROVE  AgentTakes(m, Building(r, i, n), Event("json", i)) = Building(r, i, n + 1)
  BY AgentAdds
<1> HIDE DEF es, b
<1>4. PICK f : Taking(f, c, m, b, es)
  BY <1>2, <1>3, TakeAllIs
<1> DEFINE A == {n \in Nat : n <= Fragments => f[n] = Building(r, i, n)}
<1>5. 0 \in A
  BY <1>4 DEF Taking, b
<1>6. ASSUME NEW n \in A PROVE n + 1 \in A
  <2> SUFFICES ASSUME n + 1 <= Fragments PROVE f[n + 1] = Building(r, i, n + 1)
    OBVIOUS
  <2>1. n + 1 \in 1 .. Fragments /\ (n + 1) - 1 = n /\ f[n] = Building(r, i, n) /\ n \in Nat
    BY <1>1
  <2>2. f[n + 1] = Takes(c, m, f[n], Event("json", i))
    BY <1>2, <1>4, <2>1 DEF Taking
  <2>3. AgentTakes(m, Building(r, i, n), Event("json", i)) = Building(r, i, n + 1)
    BY <1>9, <2>1
  <2> QED BY <2>1, <2>2, <2>3 DEF Takes
<1>7. A = Nat
  <2>1. A \in SUBSET Nat
    OBVIOUS
  <2> HIDE DEF A
  <2> QED BY <1>5, <1>6, <2>1, SetInduction
<1>8. f[Fragments] = Building(r, i, Fragments)
  BY <1>1, <1>7
<1> QED BY <1>2, <1>4, <1>8 DEF Taking, es, b


(* Each block of a native stream becomes the piece it is to become.  The   *)
(* CLI has no use for fragments.                                           *)
LEMMA NativeBlockSays ==
  ASSUME NEW c \in Clients, NEW m \in Seq(BlockKinds), NEW i \in 1 .. Len(m),
         c[2] # "openai", c[1] = "cli" => m[i] # "streamed", NEW r \in Reply, r.tool = NoTool
  PROVE  TakeAll(c, m, r, NativeBlock(m, i))
           = IF Due(c, m, i).kind \in {"text", "tool"} THEN Collect(r, Due(c, m, i)) ELSE r
<1> DEFINE open  == Event("open", i)
           text  == Event("text", i)
           close == Event("close", i)
<1>1. i \in Nat \ {0} /\ i \in Nat /\ Fragments \in Nat
  BY LenProperties, ApiAssumption
<1>2. /\ open \in Events /\ open.kind = "open" /\ open.block = i
      /\ text \in Events /\ text.kind = "text" /\ text.block = i
      /\ close \in Events /\ close.kind = "close"
  BY <1>1, BlockEvents
<1>3. c[1] \in {"cli", "agent"}
  BY ClientsAre
<1>4. CASE m[i] = "text"
  <2> DEFINE piece == Piece("text", i, 0)
             after == Collect(r, piece)
  <2>1. after \in Reply /\ after.tool = NoTool
    <3>1. piece \in Pieces
      BY <1>1, PieceType
    <3> HIDE DEF piece
    <3>2. after = [out |-> Append(r.out, piece), tool |-> r.tool, calls |-> r.calls]
      BY <3>1, CollectType
    <3>3. after.tool = r.tool
      <4> HIDE DEF after
      <4> QED BY <3>2
    <3>4. after \in Reply
      BY <3>1, CollectType
    <3> HIDE DEF after
    <3> QED BY <3>3, <3>4
  <2>2. NativeBlock(m, i) = <<open, text, close>>
    BY <1>4 DEF NativeBlock
  <2> HIDE DEF open, text, close
  <2>3. Takes(c, m, r, open) = r
    BY <1>2, <1>4 DEF Takes, CliTakes, AgentTakes
  <2>4. Takes(c, m, r, text) = after
    BY <1>2 DEF Takes, CliTakes, AgentTakes
  <2> HIDE DEF after
  <2>5. Takes(c, m, after, close) = after
    BY <1>2, <2>1 DEF Takes, CliTakes, AgentTakes
  <2>6. TakeAll(c, m, r, <<open, text, close>>)
          = Takes(c, m, Takes(c, m, Takes(c, m, r, open), text), close)
    BY <1>2, TakeAllTriple
  <2>7. Due(c, m, i) = piece /\ piece.kind = "text"
    BY <1>4, DueIs DEF Piece
  <2> HIDE DEF piece
  <2> QED BY <2>2, <2>3, <2>4, <2>5, <2>6, <2>7 DEF after
<1>5. CASE m[i] = "tool"
  <2> DEFINE piece == Piece("tool", i, Fragments)
  <2>1. /\ NativeBlock(m, i) = <<open, close>> /\ Given(m, i) = Fragments
        /\ Due(c, m, i) = piece /\ piece.kind = "tool"
    BY <1>5, DueIs DEF NativeBlock, Given, Piece
  <2>2. TakeAll(c, m, r, <<open, close>>) = Takes(c, m, Takes(c, m, r, open), close)
    BY <1>2, TakeAllPair
  <2>3. CASE c[1] = "cli"
    <3>1. Takes(c, m, r, open) = Collect(r, piece)
      <4> HIDE DEF open, piece
      <4> QED BY <1>2, <1>5, <2>1, <2>3 DEF Takes, CliTakes, piece
    <3> DEFINE after == Collect(r, piece)
    <3> HIDE DEF after, close
    <3>2. Takes(c, m, after, close) = after
      BY <1>2, <2>3 DEF Takes, CliTakes
    <3> QED BY <2>1, <2>2, <3>1, <3>2 DEF after, close
  <2>4. CASE c[1] = "agent"
    <3>1. AgentTakes(m, r, open) = Building(r, i, Fragments)
      BY <1>1, <1>5, <2>1, AgentOpens
    <3>2. AgentTakes(m, Building(r, i, Fragments), close) = Collect(r, piece)
      BY <1>1, AgentCloses
    <3>3. \A s, e : Takes(c, m, s, e) = AgentTakes(m, s, e)
      BY <2>4 DEF Takes
    <3> HIDE DEF open, close, piece
    <3> QED BY <2>1, <2>2, <3>1, <3>2, <3>3
  <2> QED BY <1>3, <2>3, <2>4
<1>6. CASE m[i] = "streamed"
  <2> DEFINE es == [n \in 1 .. Fragments |-> Event("json", i)]
             one == <<open>>
  <2>1. /\ NativeBlock(m, i) = (one \o es) \o <<close>>
        /\ Given(m, i) = 0 /\ Due(c, m, i) = Piece("tool", i, Fragments)
        /\ Due(c, m, i).kind = "tool"
    <3>1. /\ Given(m, i) = 0 /\ Due(c, m, i) = Piece("tool", i, Fragments)
          /\ Due(c, m, i).kind = "tool"
      BY <1>6, DueIs DEF Given, Piece
    <3>2. NativeBlock(m, i) = (one \o es) \o <<close>>
      BY <1>6, Zenon DEF NativeBlock
    <3> QED BY <3>1, <3>2
  <2>2. c[1] = "agent"
    BY <1>3, <1>6
  <2>3. es \in Seq(Events)
    BY <1>1, BlockEvents, IsASeq
  <2>4. one \in Seq(Events) /\ TakeAll(c, m, r, one) = Takes(c, m, r, open)
    BY <1>2, TakeAllOne
  <2>5. AgentTakes(m, r, open) = Building(r, i, 0) /\ Building(r, i, 0) \in Reply
    <3>1. AgentTakes(m, r, open) = Building(r, i, Given(m, i))
      BY <1>1, <1>6, AgentOpens
    <3>2. Building(r, i, 0) \in Reply
      BY <1>1, BuildingType
    <3> HIDE DEF open
    <3> QED BY <2>1, <3>1, <3>2
  <2>6. TakeAll(c, m, Building(r, i, 0), es) = Building(r, i, Fragments)
    BY <1>1, <2>2, AgentGathers
  <2>7. AgentTakes(m, Building(r, i, Fragments), close) = Collect(r, Piece("tool", i, Fragments))
    BY <1>1, AgentCloses
  <2>8. \A s, e : Takes(c, m, s, e) = AgentTakes(m, s, e)
    BY <2>2 DEF Takes
  <2> HIDE DEF es, one, open, close
  <2>9. one \o es \in Seq(Events)
    BY <2>3, <2>4, ConcatProperties
  <2>10. TakeAll(c, m, r, (one \o es) \o <<close>>)
           = Takes(c, m, TakeAll(c, m, r, one \o es), close)
    BY <1>2, <2>9, TakeAllAppend
  <2>11. TakeAll(c, m, r, one \o es) = TakeAll(c, m, TakeAll(c, m, r, one), es)
    BY <2>3, <2>4, TakeAllTwice
  <2> QED BY <2>1, <2>4, <2>5, <2>6, <2>7, <2>8, <2>10, <2>11
<1>7. CASE m[i] \notin {"text", "tool", "streamed"}
  <2>1. NativeBlock(m, i) = <<>>
    BY <1>7 DEF NativeBlock
  <2>2. TakeAll(c, m, r, <<>>) = r
    BY TakeAllNone
  <2>3. Due(c, m, i) = Lost
    BY <1>7, DueIs
  <2> QED BY <2>1, <2>2, <2>3, LostIs
<1> QED BY <1>4, <1>5, <1>6, <1>7

(* What a reply says when no tool use is under construction. *)
Says(r, s) == r \in Reply /\ r.tool = NoTool /\ Content(r.out) = s

(* A piece more, if it is content. *)
LEMMA SaysMore ==
  ASSUME NEW r, NEW s, Says(r, s), NEW p \in Pieces
  PROVE  /\ p.kind \in {"text", "tool"} => Says(Collect(r, p), Append(s, p))
         /\ p.kind \notin {"text", "tool"} => Says(Collect(r, p), s)
<1>1. r \in Reply /\ r.tool = NoTool /\ Content(r.out) = s
  BY DEF Says
<1>2. /\ Collect(r, p) = [out |-> Append(r.out, p), tool |-> r.tool, calls |-> r.calls]
      /\ Collect(r, p) \in Reply
  BY <1>1, CollectType
<1>3. r.out \in Seq(Pieces)
  BY <1>1, ReplyParts
<1>4. Content(Append(r.out, p)) = IF p.kind \in {"text", "tool"} THEN Append(s, p) ELSE s
  BY <1>1, <1>3, ContentAppend
<1> DEFINE after == Collect(r, p)
           out   == Append(r.out, p)
<1> HIDE DEF after, out
<1>5. after.tool = NoTool /\ after.out = out
  BY <1>1, <1>2 DEF after, out
<1>6. after \in Reply /\ after.tool = NoTool
      /\ Content(after.out) = IF p.kind \in {"text", "tool"} THEN Append(s, p) ELSE s
  BY <1>2, <1>4, <1>5 DEF after, out
<1> QED BY <1>6 DEF Says, after

(* What comes before and after the blocks says nothing. *)
LEMMA EdgesSayNothing ==
  ASSUME NEW c \in Clients, NEW m, NEW r, NEW s, Says(r, s),
         NEW kind \in {"start", "ping", "usage", "stop"}
  PROVE  Event(kind, 0) \in Events /\ Says(Takes(c, m, r, Event(kind, 0)), s)
<1>1. Event(kind, 0) \in Events /\ Event(kind, 0).kind = kind
  BY EventIs DEF EventKinds, Event
<1>2. /\ Piece("usage", 0, 0) \in Pieces /\ Piece("usage", 0, 0).kind = "usage"
      /\ Piece("stop", 0, 0) \in Pieces /\ Piece("stop", 0, 0).kind = "stop"
  BY PieceType DEF Piece
<1>3. Says(Collect(r, Piece("usage", 0, 0)), s) /\ Says(Collect(r, Piece("stop", 0, 0)), s)
  BY <1>2, SaysMore
<1>4. Takes(c, m, r, Event(kind, 0))
        \in {r, Collect(r, Piece("usage", 0, 0)), Collect(r, Piece("stop", 0, 0))}
  <2> DEFINE e == Event(kind, 0)
  <2>1. e.kind = kind
    BY <1>1
  <2> HIDE DEF e
  <2>2. CASE kind = "start"
    BY <2>1, <2>2 DEF Takes, CliTakes, AgentTakes, e
  <2>3. CASE kind = "ping"
    BY <2>1, <2>3 DEF Takes, CliTakes, AgentTakes, e
  <2>4. CASE kind = "usage"
    BY <2>1, <2>4 DEF Takes, CliTakes, AgentTakes, e
  <2>5. CASE kind = "stop"
    BY <2>1, <2>5 DEF Takes, CliTakes, AgentTakes, e
  <2> QED BY <2>2, <2>3, <2>4, <2>5
<1> QED BY <1>1, <1>3, <1>4

(* What is due of one block more. *)
LEMMA OwingGrows ==
  ASSUME NEW c, NEW m \in Seq(BlockKinds), NEW n \in Nat, n + 1 \in 1 .. Len(m)
  PROVE  /\ Owing(c, m, n) \in Seq(Pieces)
         /\ Owing(c, m, n + 1)
              = IF Due(c, m, n + 1).kind \in {"text", "tool"}
                THEN Append(Owing(c, m, n), Due(c, m, n + 1)) ELSE Owing(c, m, n)
<1> DEFINE dues == Dues(c, m)
           S    == Pieces \cup {Lost}
           some == SubSeq(dues, 1, n)
           due  == Due(c, m, n + 1)
<1>1. /\ dues \in Seq(S) /\ n + 1 <= Len(dues) /\ n <= Len(dues)
      /\ dues[n + 1] = due /\ 0 \in Nat /\ 0 <= n /\ n + 1 \in Nat
  BY DuesType
<1>2. due \in S
  BY <1>1, DueType
<1>3. Lost \in S /\ \A x \in S : x.kind \in {"text", "tool"} => x \in Pieces
  BY LostIs
<1>4. Owing(c, m, n) = Content(some) /\ Owing(c, m, n + 1) = Content(SubSeq(dues, 1, n + 1))
  BY DEF Owing
<1> HIDE DEF dues, S, due
<1>5. SubSeq(dues, 0 + 1, n) \o <<dues[n + 1]>> = SubSeq(dues, 0 + 1, n + 1)
  BY <1>1, PartGrows
<1>6. SubSeq(dues, 0 + 1, n) \in Seq(S) /\ 0 + 1 = 1
  BY <1>1, PartOf
<1>7. some \in Seq(S) /\ some \o <<due>> = SubSeq(dues, 1, n + 1)
  BY <1>1, <1>5, <1>6
<1> HIDE DEF some
<1>8. SubSeq(dues, 1, n + 1) = Append(some, due)
  BY <1>2, <1>7, AppendIsConcat
<1>9. /\ Content(some) \in Seq(Pieces)
      /\ Content(Append(some, due))
           = IF due.kind \in {"text", "tool"} THEN Append(Content(some), due) ELSE Content(some)
  BY <1>2, <1>3, <1>7, ContentGrows
<1> QED BY <1>4, <1>8, <1>9 DEF due

(* Nothing is due of none, and everything of all. *)
LEMMA OwingEnds ==
  ASSUME NEW c, NEW m \in Seq(BlockKinds)
  PROVE  Owing(c, m, 0) = <<>> /\ Owing(c, m, Len(m)) = Content(Dues(c, m))
<1>1. SubSeq(Dues(c, m), 1, 0) = <<>>
  BY SubSeqEmpty
<1>2. SubSeq(Dues(c, m), 1, Len(m)) = Dues(c, m)
  BY DuesType, SubSeqFull
<1> QED BY <1>1, <1>2, ContentEmpty DEF Owing

(* The blocks add their pieces, one after the other. *)
LEMMA BlocksSay ==
  ASSUME NEW c \in Clients, NEW m \in Seq(BlockKinds), c[2] # "openai",
         c[1] = "cli" => \A i \in 1 .. Len(m) : m[i] # "streamed",
         NEW r, Says(r, <<>>)
  PROVE  Says(TakeAll(c, m, r, FlattenSeq(NativeBlocks(m))), Content(Dues(c, m)))
<1>1. /\ NativeBlocks(m) \in Seq(Seq(Events)) /\ Len(NativeBlocks(m)) = Len(m)
      /\ \A i \in 1 .. Len(m) : NativeBlocks(m)[i] = NativeBlock(m, i)
  <2>1. Seq(Inner) \subseteq Seq(Events)
    BY InnerEvents
  <2> QED BY <2>1, NativeBlocksType, SeqMonotonic
<1>2. PICK f \in [0 .. Len(m) -> Seq(Events)] :
         /\ FlattenSeq(NativeBlocks(m)) = f[Len(m)] /\ f[0] = <<>>
         /\ \A i \in 1 .. Len(m) : f[i] = f[i - 1] \o NativeBlock(m, i)
  <2> DEFINE seqs == NativeBlocks(m)
  <2>1. seqs \in Seq(Seq(Events)) /\ Len(seqs) = Len(m)
    BY <1>1
  <2>2. \A i \in 1 .. Len(m) : seqs[i] = NativeBlock(m, i)
    BY <1>1
  <2> HIDE DEF seqs
  <2>3. PICK g \in [0 .. Len(seqs) -> Seq(Events)] :
           /\ FlattenSeq(seqs) = g[Len(seqs)] /\ g[0] = <<>>
           /\ \A i \in 1 .. Len(seqs) : g[i] = g[i - 1] \o seqs[i]
    BY <2>1, FlattenIs
  <2>4. g \in [0 .. Len(m) -> Seq(Events)] /\ FlattenSeq(seqs) = g[Len(m)] /\ g[0] = <<>>
    BY <2>1, <2>3
  <2>5. \A i \in 1 .. Len(m) : g[i] = g[i - 1] \o NativeBlock(m, i)
    BY <2>1, <2>2, <2>3
  <2>6. FlattenSeq(NativeBlocks(m)) = g[Len(m)]
    BY <2>4 DEF seqs
  <2> QED BY <2>4, <2>5, <2>6, Zenon
<1>3. Len(m) \in Nat
  BY LenProperties
<1> DEFINE said(n) == Owing(c, m, n)
           A == {n \in Nat : n <= Len(m) => Says(TakeAll(c, m, r, f[n]), said(n))}
<1>4. 0 \in A
  <2>1. r \in Reply
    BY DEF Says
  <2>2. TakeAll(c, m, r, f[0]) = r
    BY <1>2, <2>1, TakeAllNone
  <2>3. said(0) = <<>>
    BY OwingEnds
  <2> QED BY <2>2, <2>3
<1>5. ASSUME NEW n \in A PROVE n + 1 \in A
  <2> SUFFICES ASSUME n + 1 <= Len(m) PROVE Says(TakeAll(c, m, r, f[n + 1]), said(n + 1))
    OBVIOUS
  <2> DEFINE i == n + 1
             before == TakeAll(c, m, r, f[n])
  <2>1. n \in Nat /\ Says(before, said(n)) /\ i \in 1 .. Len(m) /\ i - 1 = n /\ n \in 0 .. Len(m)
    BY <1>3
  <2>2. f[i] = f[n] \o NativeBlock(m, i)
    <3> HIDE DEF i
    <3> QED BY <1>2, <2>1
  <2>3. f[n] \in Seq(Events) /\ NativeBlock(m, i) \in Seq(Events) /\ r \in Reply
    <3>1. NativeBlock(m, i) \in Seq(Inner)
      BY <2>1, NativeBlockType
    <3> QED BY <1>2, <2>1, <3>1, InnerEvents DEF Says
  <2>4. TakeAll(c, m, r, f[n] \o NativeBlock(m, i)) = TakeAll(c, m, before, NativeBlock(m, i))
    BY <2>3, TakeAllTwice
  <2> HIDE DEF i, before
  <2>5. before \in Reply /\ before.tool = NoTool
    BY <2>1 DEF Says
  <2> DEFINE due == Due(c, m, i)
  <2>6. TakeAll(c, m, before, NativeBlock(m, i))
          = IF due.kind \in {"text", "tool"} THEN Collect(before, due) ELSE before
    BY <2>1, <2>5, NativeBlockSays
  <2>7. due.kind \in {"text", "tool"} => due \in Pieces
    <3>1. i \in Nat
      BY <2>1
    <3> QED BY <3>1, DueType, LostIs
  <2>8. said(i) = IF due.kind \in {"text", "tool"} THEN Append(said(n), due) ELSE said(n)
    BY <2>1, OwingGrows DEF i
  <2> HIDE DEF due, said
  <2>9. Says(TakeAll(c, m, r, f[i]), said(i))
    <3>1. CASE due.kind \in {"text", "tool"}
      BY <2>1, <2>2, <2>4, <2>6, <2>7, <2>8, <3>1, SaysMore
    <3>2. CASE due.kind \notin {"text", "tool"}
      BY <2>1, <2>2, <2>4, <2>6, <2>8, <3>2
    <3> QED BY <3>1, <3>2
  <2> QED BY <2>9 DEF i
<1>6. A = Nat
  <2>1. A \in SUBSET Nat
    OBVIOUS
  <2> HIDE DEF A
  <2> QED BY <1>4, <1>5, <2>1, SetInduction
<1>7. Says(TakeAll(c, m, r, f[Len(m)]), said(Len(m)))
  BY <1>3, <1>6
<1>8. said(Len(m)) = Content(Dues(c, m))
  BY OwingEnds
<1> QED BY <1>2, <1>7, <1>8

(* A native stream that ran to its end says what is due. *)
LEMMA NativeSays ==
  ASSUME NEW c \in Clients, NEW m \in Seq(BlockKinds), c[2] # "openai",
         c[1] = "cli" => \A i \in 1 .. Len(m) : m[i] # "streamed"
  PROVE  Content(TakeAll(c, m, NoReply, Native(m)).out) = Content(Dues(c, m))
<1> DEFINE blocks == FlattenSeq(NativeBlocks(m))
           r1 == TakeAll(c, m, NoReply, NativeStart)
           r2 == TakeAll(c, m, r1, blocks)
           r3 == TakeAll(c, m, r2, NativeEnd)
<1>1. /\ Native(m) = (NativeStart \o blocks) \o NativeEnd
      /\ NativeStart \in Seq(Events) /\ NativeEnd \in Seq(Events) /\ blocks \in Seq(Events)
  BY NativeType, InnerEvents
<1>2. Says(NoReply, <<>>)
  BY NoReplyType, ContentEmpty DEF Says, NoReply
<1>3. Says(r1, <<>>)
  <2> DEFINE start == Event("start", 0)
             ping  == Event("ping", 0)
  <2>1. start \in Events /\ Says(Takes(c, m, NoReply, start), <<>>)
    BY <1>2, EdgesSayNothing
  <2>2. ping \in Events /\ Says(Takes(c, m, Takes(c, m, NoReply, start), ping), <<>>)
    BY <2>1, EdgesSayNothing
  <2>3. NativeStart = <<start, ping>>
    BY DEF NativeStart
  <2> HIDE DEF start, ping
  <2>4. TakeAll(c, m, NoReply, <<start, ping>>) = Takes(c, m, Takes(c, m, NoReply, start), ping)
    BY <2>1, <2>2, NoReplyType, TakeAllPair
  <2> QED BY <2>2, <2>3, <2>4
<1>4. r1 \in Reply
  BY <1>3 DEF Says
<1> HIDE DEF r1
<1>5. Says(r2, Content(Dues(c, m)))
  BY <1>3, BlocksSay
<1>6. r2 \in Reply
  BY <1>5 DEF Says
<1> HIDE DEF r2
<1>7. Says(r3, Content(Dues(c, m)))
  <2> DEFINE usage == Event("usage", 0)
             stop  == Event("stop", 0)
  <2>1. usage \in Events /\ Says(Takes(c, m, r2, usage), Content(Dues(c, m)))
    BY <1>5, EdgesSayNothing
  <2>2. stop \in Events /\ Says(Takes(c, m, Takes(c, m, r2, usage), stop), Content(Dues(c, m)))
    BY <2>1, EdgesSayNothing
  <2>3. NativeEnd = <<usage, stop>>
    BY DEF NativeEnd
  <2> HIDE DEF usage, stop
  <2>4. TakeAll(c, m, r2, <<usage, stop>>) = Takes(c, m, Takes(c, m, r2, usage), stop)
    BY <1>6, <2>1, <2>2, TakeAllPair
  <2> QED BY <2>2, <2>3, <2>4
<1> HIDE DEF blocks, r3
<1>8. TakeAll(c, m, NoReply, (NativeStart \o blocks) \o NativeEnd) = r3
  <2>1. NativeStart \o blocks \in Seq(Events)
    BY <1>1, ConcatProperties
  <2>2. TakeAll(c, m, NoReply, (NativeStart \o blocks) \o NativeEnd)
          = TakeAll(c, m, TakeAll(c, m, NoReply, NativeStart \o blocks), NativeEnd)
    <3> DEFINE es == NativeStart \o blocks
    <3>1. es \in Seq(Events)
      BY <2>1
    <3> HIDE DEF es
    <3>2. TakeAll(c, m, NoReply, es \o NativeEnd)
            = TakeAll(c, m, TakeAll(c, m, NoReply, es), NativeEnd)
      BY <1>1, <3>1, NoReplyType, TakeAllTwice
    <3> QED BY <3>2 DEF es
  <2>3. TakeAll(c, m, NoReply, NativeStart \o blocks) = r2
    BY <1>1, NoReplyType, TakeAllTwice DEF r1, r2
  <2> QED BY <2>2, <2>3 DEF r3
<1> QED BY <1>1, <1>7, <1>8 DEF Says

--------------------------------------------------------------------------------
(* What an OpenAI-compatible stream says. *)

(* A call under construction, after n of its parts. *)
Called(r, i, n) ==
  [out |-> r.out, tool |-> r.tool, calls |-> Append(r.calls, Piece("tool", i, n))]

(* It is a reply. *)
LEMMA CalledType ==
  ASSUME NEW r \in Reply, NEW i \in Nat, NEW n \in Nat
  PROVE  /\ Called(r, i, n) \in Reply /\ Called(r, i, n).out = r.out
         /\ Called(r, i, n).tool = r.tool
         /\ Called(r, i, n).calls = Append(r.calls, Piece("tool", i, n))
         /\ r.calls \in Seq(Tools) /\ Piece("tool", i, n) \in Tools
<1> DEFINE p     == Piece("tool", i, n)
           calls == Append(r.calls, p)
           s     == Called(r, i, n)
<1>1. p \in Tools /\ r.calls \in Seq(Tools) /\ r.out \in Seq(Pieces) /\ r.tool \in Tools
  BY PieceType, ReplyParts
<1> HIDE DEF p
<1>2. calls \in Seq(Tools)
  BY <1>1, AppendProperties
<1>3. s = [out |-> r.out, tool |-> r.tool, calls |-> calls]
  BY DEF Called, p
<1> HIDE DEF calls, s
<1>4. s \in Reply /\ s.out = r.out /\ s.tool = r.tool /\ s.calls = calls
  BY <1>1, <1>2, <1>3, ReplyFrom
<1> QED BY <1>1, <1>4 DEF s, calls, p

(* The first part of a call starts it. *)
LEMMA FirstPart ==
  ASSUME NEW r \in Reply, NEW i \in Nat, r.calls # <<>> => Last(r.calls).block # i
  PROVE  Accumulate(r, i) = Called(r, i, 1)
<1>1. Accumulate(r, i) = [r EXCEPT !.calls = Append(@, Piece("tool", i, 1))]
  BY DEF Accumulate
<1>2. r = [out |-> r.out, tool |-> r.tool, calls |-> r.calls]
  BY ReplyParts
<1> DEFINE p == Piece("tool", i, 1)
<1> HIDE DEF p
<1>3. [r EXCEPT !.calls = Append(@, p)]
        = [out |-> r.out, tool |-> r.tool, calls |-> Append(r.calls, p)]
  BY <1>2, SMTT(30)
<1> QED BY <1>1, <1>3 DEF Called, p

(* Another part is counted. *)
LEMMA NextPart ==
  ASSUME NEW r \in Reply, NEW i \in Nat, NEW n \in Nat
  PROVE  Accumulate(Called(r, i, n), i) = Called(r, i, n + 1)
<1> DEFINE p     == Piece("tool", i, n)
           q     == Piece("tool", i, n + 1)
           calls == Append(r.calls, p)
           k     == Len(r.calls) + 1
           s     == Called(r, i, n)
<1>1. /\ p.block = i /\ p \in Tools /\ q \in Tools /\ [p EXCEPT !.got = @ + 1] = q
      /\ r.calls \in Seq(Tools)
  BY CalledType, PieceType DEF Piece
<1>2. s \in Reply /\ s = [out |-> r.out, tool |-> r.tool, calls |-> calls] /\ s.calls = calls
  BY CalledType DEF Called
<1> HIDE DEF p, q, s
<1>3. /\ calls \in Seq(Tools) /\ Len(calls) = k /\ k \in Nat /\ calls[k] = p /\ calls # <<>>
      /\ \A x \in 1 .. Len(r.calls) : calls[x] = r.calls[x]
      /\ DOMAIN calls = 1 .. k
  BY <1>1, AppendProperties, LenProperties
<1>4. [calls EXCEPT ![k] = q] = Append(r.calls, q)
  <2> DEFINE other == Append(r.calls, q)
             this  == [calls EXCEPT ![k] = q]
  <2>1. /\ other \in Seq(Tools) /\ Len(other) = k /\ other[k] = q
        /\ \A x \in 1 .. Len(r.calls) : other[x] = r.calls[x]
    BY <1>1, AppendProperties, LenProperties
  <2>2. this \in Seq(Tools) /\ Len(this) = k
    <3>1. k \in 1 .. Len(calls)
      BY <1>3
    <3> HIDE DEF k, calls
    <3> QED BY <1>1, <1>3, <3>1, ExceptSeq
  <2>3. this[k] = q /\ \A x \in 1 .. k : x # k => this[x] = calls[x]
    <3> HIDE DEF k, calls
    <3> QED BY <1>3
  <2>4. \A x \in 1 .. k : x # k => x \in 1 .. Len(r.calls)
    BY <1>1, LenProperties
  <2>5. \A x \in 1 .. k : this[x] = other[x]
    <3> HIDE DEF k, calls, this, other
    <3> QED BY <1>3, <2>1, <2>3, <2>4
  <2> HIDE DEF k, calls, this, other
  <2>6. this = other
    BY <2>1, <2>2, <2>5, SeqEqual
  <2> QED BY <2>6 DEF this, other
<1>5. Last(calls) = p
  BY <1>3 DEF Last
<1> HIDE DEF calls, k
<1>6. Accumulate(s, i) = [s EXCEPT !.calls[k].got = @ + 1]
  BY <1>1, <1>2, <1>3, <1>5 DEF Accumulate
<1>7. [s EXCEPT !.calls[k].got = @ + 1] = [s EXCEPT !.calls = [calls EXCEPT ![k] = q]]
  BY <1>1, <1>2, <1>3
<1>8. [s EXCEPT !.calls = [calls EXCEPT ![k] = q]]
        = [out |-> r.out, tool |-> r.tool, calls |-> Append(r.calls, q)]
  <2> DEFINE new == [calls EXCEPT ![k] = q]
  <2> HIDE DEF new
  <2>1. [s EXCEPT !.calls = new] = [out |-> r.out, tool |-> r.tool, calls |-> new]
    BY <1>2
  <2> QED BY <1>4, <2>1 DEF new
<1> QED BY <1>6, <1>7, <1>8 DEF Called, s, q

(* The parts of a call make one call of them. *)
LEMMA PartsGather ==
  ASSUME NEW c, c[1] = "cli", NEW m, NEW r \in Reply, NEW i \in Nat,
         r.calls # <<>> => Last(r.calls).block # i
  PROVE  TakeAll(c, m, r, [n \in 1 .. Fragments |-> Event("part", i)]) = Called(r, i, Fragments)
<1> DEFINE es == [n \in 1 .. Fragments |-> Event("part", i)]
<1>1. Fragments \in Nat /\ 1 <= Fragments
  BY ApiAssumption
<1>2. /\ es \in Seq(Events) /\ Len(es) = Fragments
      /\ \A n \in 1 .. Fragments : es[n] = Event("part", i)
  BY <1>1, BlockEvents, IsASeq
<1>3. \A s : Takes(c, m, s, Event("part", i)) = Accumulate(s, i)
  BY BlockEvents DEF Takes, CliTakes
<1> HIDE DEF es
<1>4. PICK f : Taking(f, c, m, r, es)
  BY <1>2, TakeAllIs
<1>5. f[0] = r /\ \A n \in 1 .. Fragments : f[n] = Accumulate(f[n - 1], i)
  BY <1>2, <1>3, <1>4 DEF Taking
<1> DEFINE A == {n \in Nat : n + 1 <= Fragments => f[n + 1] = Called(r, i, n + 1)}
<1>6. 0 \in A
  <2>1. 1 \in 1 .. Fragments /\ 1 - 1 = 0 /\ 0 + 1 = 1
    BY <1>1
  <2>2. f[1] = Accumulate(r, i)
    BY <1>5, <2>1
  <2>3. Accumulate(r, i) = Called(r, i, 1)
    BY FirstPart
  <2> QED BY <2>1, <2>2, <2>3
<1>7. ASSUME NEW n \in A PROVE n + 1 \in A
  <2> DEFINE k == n + 1
  <2> SUFFICES ASSUME k + 1 <= Fragments PROVE f[k + 1] = Called(r, i, k + 1)
    OBVIOUS
  <2>1. k \in Nat /\ k + 1 \in 1 .. Fragments /\ (k + 1) - 1 = k /\ f[k] = Called(r, i, k)
    BY <1>1
  <2> HIDE DEF k
  <2>2. f[k + 1] = Accumulate(f[k], i)
    BY <1>5, <2>1
  <2>3. Accumulate(Called(r, i, k), i) = Called(r, i, k + 1)
    BY <2>1, NextPart
  <2> QED BY <2>1, <2>2, <2>3
<1>8. A = Nat
  <2>1. A \in SUBSET Nat
    OBVIOUS
  <2> HIDE DEF A
  <2> QED BY <1>6, <1>7, <2>1, SetInduction
<1>9. f[Fragments] = Called(r, i, Fragments)
  <2> DEFINE n == Fragments - 1
  <2>1. n \in Nat /\ n + 1 = Fragments
    BY <1>1
  <2>2. n \in A
    BY <1>8, <2>1
  <2> HIDE DEF n
  <2> QED BY <2>1, <2>2
<1> QED BY <1>2, <1>4, <1>9 DEF Taking, es

TextsFirst(m) ==
  \A i, j \in DOMAIN m : m[j] # "lost" /\ (i < j /\ m[j] = "text" => m[i] = "text")

(* Up to block i: texts are in the output, calls under construction.       *)
Gathering(c, r, m, i) ==
  /\ r \in Reply
  /\ Content(r.out) \o Content(Handed(m, r.calls)) = Owing(c, m, i)
  /\ i = 0 \/ m[i] = "text" => r.calls = <<>>
  /\ r.calls # <<>> => Last(r.calls).block <= i

(* Appending to the end. *)
LEMMA ConcatAppend ==
  ASSUME NEW S, NEW a \in Seq(S), NEW b \in Seq(S), NEW e \in S
  PROVE  a \o Append(b, e) = Append(a \o b, e)
<1> DEFINE one == <<e>>
<1>1. one \in Seq(S) /\ a \o b \in Seq(S)
  BY ConcatProperties
<1>2. Append(b, e) = b \o one /\ Append(a \o b, e) = (a \o b) \o one
  BY <1>1, AppendIsConcat
<1> HIDE DEF one
<1>3. (a \o b) \o one = a \o (b \o one)
  BY <1>1, ConcatAssociative
<1> QED BY <1>2, <1>3

(* The parts of what is gathered. *)
LEMMA GatheringParts ==
  ASSUME NEW m, NEW r \in Reply
  PROVE  /\ r.out \in Seq(Pieces) /\ Content(r.out) \in Seq(Pieces)
         /\ Content(Handed(m, r.calls)) \in Seq(Pieces)
<1>1. r.out \in Seq(Pieces) /\ r.calls \in Seq(Tools)
  BY ReplyParts
<1>2. Tools \subseteq Pieces
  BY DEF Tools, Pieces
<1>3. Content(r.out) \in Seq(Pieces)
  BY <1>1, PieceType, ContentAppend
<1>4. Content(Handed(m, r.calls)) \in Seq(Tools)
  BY <1>1, HandedContent
<1> QED BY <1>1, <1>2, <1>3, <1>4, SeqMonotonic

(* A call of an OpenAI-compatible stream is handed on as it is due.        *)
LEMMA HandedIsDue ==
  ASSUME NEW c, c[2] = "openai", NEW m \in Seq(BlockKinds), NEW i \in 1 .. Len(m),
         m[i] \notin {"text", "lost"}
  PROVE  HandedOn(m, Piece("tool", i, Fragments)) = Due(c, m, i)
<1> DEFINE call1 == Piece("tool", i, Fragments)
<1>1. call1.block = i /\ m[i] \in BlockKinds
  BY ElementOfSeq DEF Piece
<1> HIDE DEF call1
<1>2. ASSUME m[i] = "nameless" PROVE HandedOn(m, call1) = Due(c, m, i)
  <2>1. Due(c, m, i) = Lost
    BY <1>2, DueIs
  <2> QED BY <1>1, <1>2, <2>1 DEF HandedOn
<1>3. ASSUME m[i] = "garbled" PROVE HandedOn(m, call1) = Due(c, m, i)
  <2>1. Due(c, m, i) = Piece("tool", i, 0)
    BY <1>3, DueIs
  <2> QED BY <1>1, <1>3, <2>1 DEF HandedOn
<1>4. ASSUME m[i] \in {"tool", "streamed"} PROVE HandedOn(m, call1) = Due(c, m, i)
  <2>1. Due(c, m, i) = call1
    BY <1>4, DueIs DEF call1
  <2>2. HandedOn(m, call1) = call1
    BY <1>1, <1>4 DEF HandedOn
  <2> QED BY <2>1, <2>2 DEF call1
<1>5. m[i] \in {"nameless", "garbled", "tool", "streamed"}
  BY <1>1 DEF BlockKinds
<1> QED BY <1>2, <1>3, <1>4, <1>5 DEF call1

(* A text goes to the output: no call comes before it. *)
LEMMA TextGathers ==
  ASSUME NEW c, c[1] = "cli", NEW m \in Seq(BlockKinds), TextsFirst(m), NEW r,
         NEW i \in Nat, i + 1 \in 1 .. Len(m), m[i + 1] = "text", Gathering(c, r, m, i)
  PROVE  Gathering(c, TakeAll(c, m, r, OpenBlock(m, i + 1)), m, i + 1)
<1> DEFINE j     == i + 1
           e     == Event("text", j)
           due   == Due(c, m, j)
           after == Collect(r, due)
<1>1. r \in Reply /\ j \in Nat /\ j \in 1 .. Len(m) /\ i < j /\ m[j] = "text"
  BY DEF Gathering
<1>2. r.calls = <<>>
  <2>1. i = 0 \/ m[i] = "text"
    <3>1. DOMAIN m = 1 .. Len(m) /\ Len(m) \in Nat
      BY LenProperties
    <3> HIDE DEF j
    <3> QED BY <1>1, <3>1 DEF TextsFirst
  <2> QED BY <2>1 DEF Gathering
<1>3. OpenBlock(m, j) = <<e>>
  BY DEF OpenBlock
<1>4. due = Piece("text", j, 0) /\ due \in Pieces /\ due.kind = "text"
  BY <1>1, PieceType, DueIs DEF Piece
<1>5. e \in Events /\ e.kind = "text" /\ e.block = j
  BY <1>1, BlockEvents
<1>11. Owing(c, m, j) = Append(Owing(c, m, i), due)
  BY <1>1, <1>4, OwingGrows
<1> HIDE DEF j, e, due
<1>6. TakeAll(c, m, r, <<e>>) = after
  <2>1. TakeAll(c, m, r, <<e>>) = Takes(c, m, r, e)
    BY <1>1, <1>5, TakeAllOne
  <2>2. Takes(c, m, r, e) = Collect(r, Piece("text", j, 0))
    BY <1>5 DEF Takes, CliTakes
  <2> QED BY <1>4, <2>1, <2>2
<1>7. after = [out |-> Append(r.out, due), tool |-> r.tool, calls |-> r.calls] /\ after \in Reply
  BY <1>1, <1>4, CollectType
<1>8. /\ r.out \in Seq(Pieces) /\ Content(r.out) \in Seq(Pieces)
      /\ Append(Content(r.out), due) \in Seq(Pieces)
  <2>1. r.out \in Seq(Pieces) /\ Content(r.out) \in Seq(Pieces)
    BY <1>1, GatheringParts
  <2> QED BY <1>4, <2>1, AppendProperties
<1>9. Content(Append(r.out, due)) = Append(Content(r.out), due)
  BY <1>4, <1>8, ContentAppend
<1>10. Content(r.out) = Owing(c, m, i)
  <2>1. Content(r.out) \o Content(Handed(m, r.calls)) = Owing(c, m, i)
    BY DEF Gathering
  <2>2. Content(r.out) \o <<>> = Content(r.out)
    BY <1>8, ConcatEmptySeq
  <2> QED BY <1>2, <2>1, <2>2, HandedNone
<1> DEFINE out == Append(r.out, due)
<1> HIDE DEF after, out
<1>12. after.out = out /\ after.calls = <<>>
  BY <1>2, <1>7 DEF out
<1>13. Content(after.out) \o Content(Handed(m, after.calls)) = Owing(c, m, j)
  <2>1. Content(out) = Owing(c, m, j) /\ Content(out) \in Seq(Pieces)
    BY <1>8, <1>9, <1>10, <1>11 DEF out
  <2>2. Content(out) \o <<>> = Content(out)
    BY <2>1, ConcatEmptySeq
  <2> QED BY <1>12, <2>1, <2>2, HandedNone
<1>14. Gathering(c, after, m, j)
  BY <1>7, <1>12, <1>13 DEF Gathering
<1> QED BY <1>3, <1>6, <1>14 DEF j

(* A tool use becomes one more call. *)
LEMMA ToolGathers ==
  ASSUME NEW c, c[1] = "cli", c[2] = "openai", NEW m \in Seq(BlockKinds), TextsFirst(m), NEW r,
         NEW i \in Nat, i + 1 \in 1 .. Len(m), m[i + 1] # "text", Gathering(c, r, m, i)
  PROVE  Gathering(c, TakeAll(c, m, r, OpenBlock(m, i + 1)), m, i + 1)
<1> DEFINE j     == i + 1
           piece == Piece("tool", j, Fragments)
           due   == HandedOn(m, piece)
           after == Called(r, j, Fragments)
           said  == Content(r.out)
           gives == Content(Handed(m, r.calls))
<1>1. r \in Reply /\ j \in Nat /\ j \in 1 .. Len(m) /\ i < j /\ m[j] # "text" /\ Fragments \in Nat
  BY ApiAssumption DEF Gathering
<1>2. piece \in Tools /\ piece \in Pieces /\ piece.block = j
  BY <1>1, PieceType DEF Piece
<1>3. OpenBlock(m, j) = [n \in 1 .. Fragments |-> Event("part", j)]
  BY DEF OpenBlock
<1>4. r.calls # <<>> => Last(r.calls).block # j
  <2> SUFFICES ASSUME r.calls # <<>> PROVE Last(r.calls).block # j
    OBVIOUS
  <2>1. Last(r.calls).block <= i
    BY DEF Gathering
  <2>2. Last(r.calls).block \in Nat
    <3>1. r.calls \in Seq(Tools) /\ Len(r.calls) \in 1 .. Len(r.calls)
      BY <1>1, ReplyParts, EmptySeq
    <3>2. r.calls[Len(r.calls)] \in Tools
      BY <3>1, ElementOfSeq
    <3> QED BY <3>2 DEF Last, Tools
  <2> QED BY <2>1, <2>2
<1>5. due = Due(c, m, j)
  <2>1. m[j] \notin {"text", "lost"}
    <3>1. DOMAIN m = 1 .. Len(m)
      BY LenProperties
    <3> QED BY <1>1, <3>1 DEF TextsFirst
  <2> QED BY <1>1, <2>1, HandedIsDue
<1>6. Owing(c, m, j) = IF due.kind \in {"text", "tool"} THEN Append(Owing(c, m, i), due)
                       ELSE Owing(c, m, i)
  BY <1>1, <1>5, OwingGrows
<1>7. due.kind \in {"text", "tool"} => due \in Pieces
  BY <1>1, <1>5, DueType, LostIs
<1> HIDE DEF j, piece, due
<1>8. TakeAll(c, m, r, OpenBlock(m, j)) = after
  <2>1. TakeAll(c, m, r, [n \in 1 .. Fragments |-> Event("part", j)]) = after
    BY <1>1, <1>4, PartsGather
  <2> QED BY <1>3, <2>1
<1>9. after \in Reply /\ after.out = r.out /\ after.calls = Append(r.calls, piece)
  BY <1>1, CalledType DEF piece
<1>10. said \in Seq(Pieces) /\ gives \in Seq(Pieces) /\ said \o gives = Owing(c, m, i)
  BY <1>1, GatheringParts DEF Gathering
<1>11. Content(Handed(m, Append(r.calls, piece)))
         = IF due.kind \in {"text", "tool"} THEN Append(gives, due) ELSE gives
  <2>1. r.calls \in Seq(Tools)
    BY <1>1, ReplyParts
  <2> QED BY <1>2, <2>1, HandedGrows DEF due
<1> HIDE DEF said, gives
<1>12. said \o Content(Handed(m, Append(r.calls, piece))) = Owing(c, m, j)
  <2>1. CASE due.kind \in {"text", "tool"}
    <3>1. said \o Append(gives, due) = Append(said \o gives, due)
      BY <1>7, <1>10, <2>1, ConcatAppend
    <3> QED BY <1>6, <1>10, <1>11, <2>1, <3>1
  <2>2. CASE due.kind \notin {"text", "tool"}
    BY <1>6, <1>10, <1>11, <2>2
  <2> QED BY <2>1, <2>2
<1>13. Last(Append(r.calls, piece)).block <= j
  <2> DEFINE calls == Append(r.calls, piece)
  <2>1. calls[Len(calls)] = piece
    BY <1>1, <1>2, ReplyParts, AppendProperties
  <2> HIDE DEF calls
  <2>2. Last(calls) = piece
    BY <2>1 DEF Last
  <2> QED BY <1>1, <1>2, <2>2 DEF calls
<1> HIDE DEF after
<1>14. Content(after.out) \o Content(Handed(m, after.calls)) = Owing(c, m, j)
  BY <1>9, <1>12 DEF said
<1>15. Gathering(c, after, m, j)
  BY <1>1, <1>9, <1>13, <1>14 DEF Gathering
<1> QED BY <1>8, <1>15 DEF j

(* A stream of an OpenAI-compatible provider that ran to its end says what *)
(* is due: a call has its input whole, however it was cut up.              *)
LEMMA OpenAiSays ==
  ASSUME NEW c, c[1] = "cli", c[2] = "openai", NEW m \in Seq(BlockKinds), TextsFirst(m)
  PROVE  Content(TakeAll(c, m, NoReply, OpenAi(m)).out) = Content(Dues(c, m))
<1> DEFINE blocks == FlattenSeq(OpenBlocks(m))
           seqs   == OpenBlocks(m)
           done   == Event("done", 0)
<1>1. /\ OpenAi(m) = blocks \o <<done>> /\ blocks \in Seq(Events) /\ done \in Events
      /\ done.kind = "done"
  BY OpenAiType, InnerEvents DEF Event
<1>2. /\ seqs \in Seq(Seq(Events)) /\ Len(seqs) = Len(m) /\ Len(m) \in Nat
      /\ \A i \in 1 .. Len(m) : seqs[i] = OpenBlock(m, i) /\ OpenBlock(m, i) \in Seq(Events)
  <2>1. Seq(Inner) \subseteq Seq(Events)
    BY InnerEvents
  <2>2. seqs \in Seq(Seq(Events))
    BY <2>1, OpenBlocksType, SeqMonotonic
  <2>3. \A i \in 1 .. Len(m) : seqs[i] = OpenBlock(m, i) /\ seqs[i] \in Seq(Inner)
    BY OpenBlocksType, ElementOfSeq
  <2> QED BY <2>1, <2>2, <2>3, OpenBlocksType, LenProperties
<1> HIDE DEF seqs, done
<1>3. PICK f \in [0 .. Len(m) -> Seq(Events)] :
         /\ blocks = f[Len(m)] /\ f[0] = <<>>
         /\ \A i \in 1 .. Len(m) : f[i] = f[i - 1] \o OpenBlock(m, i)
  <2>1. PICK g \in [0 .. Len(seqs) -> Seq(Events)] :
           /\ FlattenSeq(seqs) = g[Len(seqs)] /\ g[0] = <<>>
           /\ \A i \in 1 .. Len(seqs) : g[i] = g[i - 1] \o seqs[i]
    BY <1>2, FlattenIs
  <2>2. blocks = FlattenSeq(seqs)
    BY DEF seqs
  <2>3. g \in [0 .. Len(m) -> Seq(Events)] /\ blocks = g[Len(m)] /\ g[0] = <<>>
    BY <1>2, <2>1, <2>2
  <2>4. \A i \in 1 .. Len(m) : g[i] = g[i - 1] \o OpenBlock(m, i)
    BY <1>2, <2>1
  <2> HIDE DEF blocks
  <2> QED BY <2>3, <2>4, Zenon
<1> HIDE DEF blocks
<1> DEFINE A == {n \in Nat : n <= Len(m) => Gathering(c, TakeAll(c, m, NoReply, f[n]), m, n)}
<1>4. 0 \in A
  <2>1. TakeAll(c, m, NoReply, f[0]) = NoReply
    BY <1>3, NoReplyType, TakeAllNone
  <2>2. Content(NoReply.out) \o Content(Handed(m, NoReply.calls)) = Owing(c, m, 0)
    <3>1. Owing(c, m, 0) = <<>>
      BY OwingEnds
    <3>2. NoReply.out = <<>> /\ NoReply.calls = <<>>
      BY DEF NoReply
    <3>3. Content(<<>>) = <<>>
      BY ContentEmpty
    <3>4. <<>> \o <<>> = <<>>
      OBVIOUS
    <3>5. Content(Handed(m, <<>>)) = <<>>
      BY HandedNone
    <3> QED BY <3>1, <3>2, <3>3, <3>4, <3>5
  <2>3. NoReply.calls = <<>>
    BY DEF NoReply
  <2> QED BY <2>1, <2>2, <2>3, NoReplyType DEF Gathering
<1>5. ASSUME NEW n \in A PROVE n + 1 \in A
  <2> SUFFICES ASSUME n + 1 <= Len(m)
               PROVE  Gathering(c, TakeAll(c, m, NoReply, f[n + 1]), m, n + 1)
    OBVIOUS
  <2> DEFINE i == n + 1
             before == TakeAll(c, m, NoReply, f[n])
  <2>1. n \in Nat /\ Gathering(c, before, m, n) /\ i \in 1 .. Len(m) /\ i - 1 = n /\ n \in 0 .. Len(m)
    BY <1>2
  <2>2. f[i] = f[n] \o OpenBlock(m, i) /\ f[n] \in Seq(Events) /\ OpenBlock(m, i) \in Seq(Events)
    <3> HIDE DEF i
    <3> QED BY <1>2, <1>3, <2>1
  <2>3. TakeAll(c, m, NoReply, f[n] \o OpenBlock(m, i)) = TakeAll(c, m, before, OpenBlock(m, i))
    BY <2>2, NoReplyType, TakeAllTwice
  <2> HIDE DEF before
  <2>4. Gathering(c, TakeAll(c, m, before, OpenBlock(m, n + 1)), m, n + 1)
    <3>1. n \in Nat /\ n + 1 \in 1 .. Len(m)
      BY <2>1
    <3>2. CASE m[n + 1] = "text"
      BY <2>1, <3>1, <3>2, TextGathers
    <3>3. CASE m[n + 1] # "text"
      BY <2>1, <3>1, <3>3, ToolGathers
    <3> QED BY <3>2, <3>3
  <2> QED BY <2>2, <2>3, <2>4
<1>6. A = Nat
  <2>1. A \in SUBSET Nat
    OBVIOUS
  <2> HIDE DEF A
  <2> QED BY <1>4, <1>5, <2>1, SetInduction
<1> DEFINE r == TakeAll(c, m, NoReply, blocks)
<1>7. Gathering(c, r, m, Len(m))
  BY <1>2, <1>3, <1>6
<1>8. TakeAll(c, m, NoReply, OpenAi(m)) = FlushCalls(m, r)
  <2>1. TakeAll(c, m, NoReply, blocks \o <<done>>) = Takes(c, m, r, done)
    BY <1>1, NoReplyType, TakeAllAppend
  <2> HIDE DEF r
  <2>2. Takes(c, m, r, done) = FlushCalls(m, r)
    BY <1>1 DEF Takes, CliTakes
  <2> QED BY <1>1, <2>1, <2>2
<1> HIDE DEF r
<1> DEFINE stop == Piece("stop", 0, 0)
           said == Content(Handed(m, r.calls))
           out  == r.out \o said
<1>9. r \in Reply /\ Content(r.out) \o said = Content(Dues(c, m))
  BY <1>7, OwingEnds DEF Gathering
<1>10. stop \in Pieces /\ stop.kind = "stop"
  BY PieceType DEF Piece
<1>11. /\ r.out \in Seq(Pieces) /\ said \in Seq(Tools) /\ out \in Seq(Pieces)
       /\ Content(out) = Content(r.out) \o said
  <2>1. r.out \in Seq(Pieces) /\ said \in Seq(Tools) /\ said \in Seq(Pieces)
    BY <1>9, ReplyParts, HandedContent, GatheringParts
  <2> HIDE DEF said
  <2> QED BY <2>1, ConcatProperties, ContentTools
<1>12. FlushCalls(m, r) = [out |-> Append(out, stop), tool |-> r.tool, calls |-> <<>>]
  BY <1>9, FlushCallsType
<1> HIDE DEF out, stop, said
<1>13. FlushCalls(m, r).out = Append(out, stop)
  <2> DEFINE more == Append(out, stop)
  <2> HIDE DEF more
  <2>1. FlushCalls(m, r) = [out |-> more, tool |-> r.tool, calls |-> <<>>]
    BY <1>12 DEF more
  <2>2. FlushCalls(m, r).out = more
    BY <2>1
  <2> QED BY <2>2 DEF more
<1>14. Content(Append(out, stop)) = Content(out)
  BY <1>10, <1>11, ContentAppend
<1> QED BY <1>8, <1>9, <1>11, <1>13, <1>14

--------------------------------------------------------------------------------
(* The outcome of a call. *)

TextsCome == call.pc = "stream" /\ client[2] = "openai" => TextsFirst(message)

Agents == call.again => client[1] = "agent"

OutcomeInv == StreamInv /\ Agents /\ TextsCome /\ OutcomeIsJust

(* Only sub-agents ask again. *)
LEMMA AgentsAsk == StreamInv /\ Agents /\ [Next]_vars => Agents'
<1> SUFFICES ASSUME StreamInv, Agents, [Next]_vars PROVE Agents'
  OBVIOUS
<1>1. TypeOK
  BY DEF StreamInv
<1>2. ASSUME NEW pc, call' = [call EXCEPT !.pc = pc], client' = client PROVE Agents'
  <2>1. call'.again = call.again
    BY <1>1, <1>2, TypesAre
  <2> QED BY <1>2, <2>1 DEF Agents
<1>3. CASE Send
  <2>1. call'.again = call.again /\ client' = client
    BY <1>1, <1>3, TypesAre DEF Send
  <2> QED BY <2>1 DEF Agents
<1>4. CASE Unreachable
  <2>1. PICK pc : call' = [call EXCEPT !.pc = pc]
    BY <1>4 DEF Unreachable
  <2> QED BY <1>2, <1>4, <2>1 DEF Unreachable
<1>5. CASE Backoff
  BY <1>2, <1>5 DEF Backoff
<1>6. CASE Refused \/ StreamFails
  BY <1>2, <1>6 DEF Refused, StreamFails
<1>7. CASE RespondsWhole
  BY <1>2, <1>7 DEF RespondsWhole
<1>8. CASE Responds
  BY <1>2, <1>8 DEF Responds
<1>9. CASE Chunk \/ UNCHANGED vars
  <2>1. call' = call /\ client' = client
    BY <1>9 DEF Chunk, vars
  <2> QED BY <2>1 DEF Agents
<1>10. CASE EndOfStream
  <2>1. client' = client
    BY <1>10 DEF EndOfStream
  <2>2. CASE call' = [call EXCEPT !.pc = "ok"] \/ call' = [call EXCEPT !.pc = "err"]
    BY <1>2, <2>1, <2>2
  <2>3. CASE client[1] = "agent"
    BY <2>1, <2>3 DEF Agents
  <2> QED BY <1>10, <2>2, <2>3 DEF EndOfStream
<1> QED BY <1>3, <1>4, <1>5, <1>6, <1>7, <1>8, <1>9, <1>10 DEF Next

(* No more frames come than there are; when nothing is left of the stream, *)
(* all of them came.                                                       *)
LEMMA WholeAtEnd ==
  ASSUME StreamInv, call.pc = "stream"
  PROVE  /\ Whole \in Nat /\ Whole <= Len(Streamed(client, message))
         /\ wire = <<>> /\ buffer = <<>> => Whole = Len(Streamed(client, message))
<1> DEFINE W == Width(history.line)
           L == Len(All)
           F == Len(Streamed(client, message))
           k == Whole
           r == Received
<1>1. TypeOK /\ Flows
  BY DEF StreamInv
<1>2. /\ Framed(All, Streamed(client, message), history.line) /\ All \in Seq(Token) /\ L \in Nat
      /\ L = F * W - (IF history.bare THEN Len(history.line) ELSE 0) /\ F \in Nat
  BY <1>1, AllIsFramed
<1>3. W \in {3, 5} /\ Len(history.line) = W - 1
  <2>1. history.line \in BlankLines
    BY <1>1, TypesAre
  <2>2. CASE history.line = LfLf
    BY <2>2, LinesAre DEF Width
  <2>3. CASE history.line = CrLfCrLf
    BY <2>3, LinesAre DEF Width
  <2> QED BY <2>1, <2>2, <2>3, LinesAre
<1>4. r \in Nat /\ r <= L /\ (wire = <<>> => r = L)
  <2>1. r \in Nat /\ Len(wire) \in Nat /\ r = L - Len(wire)
    BY <1>1, TypesAre, LenProperties DEF Flows, Received
  <2>2. wire = <<>> => Len(wire) = 0
    BY EmptySeq
  <2> HIDE DEF r, L
  <2> QED BY <1>2, <2>1, <2>2
<1>5. k \in Nat /\ W * k <= r /\ r < W * k + W
  <2>1. k = r \div W
    BY DEF Whole
  <2> HIDE DEF k, r, W
  <2> QED BY <1>3, <1>4, <2>1, WholeIs
<1>6. buffer = <<>> => W * k = r
  <2>1. buffer = SubSeq(All, W * k + 1, r)
    BY <1>1 DEF Flows, From
  <2> HIDE DEF k, r, W, L
  <2>2. W * k \in Nat /\ r <= Len(All)
    BY <1>3, <1>4, <1>5 DEF L
  <2> DEFINE a == W * k
  <2> HIDE DEF a
  <2>3. Len(SubSeq(All, a + 1, r)) = r - a
    <3>1. a \in Nat /\ a <= r /\ r <= Len(All)
      BY <1>5, <2>2 DEF a
    <3> QED BY <1>2, <1>4, <3>1, PartOf
  <2>4. buffer = <<>> => r - a = 0
    BY <2>1, <2>3, EmptySeq DEF a
  <2>5. a \in Nat
    BY <2>2 DEF a
  <2> QED BY <1>4, <2>4, <2>5 DEF a
<1> HIDE DEF W, L, F, k, r
<1>7. k <= F /\ (wire = <<>> /\ buffer = <<>> => k = F)
  <2>1. CASE W = 3
    BY <1>2, <1>3, <1>4, <1>5, <1>6, <2>1
  <2>2. CASE W = 5
    BY <1>2, <1>3, <1>4, <1>5, <1>6, <2>2
  <2> QED BY <1>3, <2>1, <2>2
<1> QED BY <1>5, <1>7 DEF k, F

(* A stop is held when one came. *)
LEMMA HoldsStop ==
  ASSUME reply \in Reply
  PROVE  Holds({"stop"}) <=> ~NoStop(reply)
<1>1. DOMAIN reply.out = 1 .. Len(reply.out)
  BY ReplyParts, LenProperties
<1> QED BY <1>1 DEF Holds, NoStop

(* What the client holds of a stream that ran to its end. *)
LEMMA HeldSays ==
  ASSUME NEW c \in Clients, c[2] # "buffered", NEW m \in Seq(BlockKinds),
         c[2] = "openai" => TextsFirst(m)
  PROVE  \/ Content(Held(c, m, Len(Streamed(c, m))).out) = Content(Dues(c, m))
         \/ c = <<"cli", "native">> /\ \E i \in DOMAIN m : m[i] = "streamed"
<1>1. Held(c, m, Len(Streamed(c, m))) = TakeAll(c, m, NoReply, Streamed(c, m))
  <2>1. Streamed(c, m) \in Seq(Events)
    BY StreamedType
  <2>2. SubSeq(Streamed(c, m), 1, Len(Streamed(c, m))) = Streamed(c, m)
    BY <2>1, SubSeqFull
  <2> QED BY <2>2 DEF Held
<1>2. CASE c[2] = "openai"
  <2>1. Streamed(c, m) = OpenAi(m) /\ c[1] = "cli"
    BY <1>2, ClientsAre DEF Streamed
  <2> QED BY <1>1, <1>2, <2>1, OpenAiSays
<1>3. CASE c[2] # "openai" /\ (c[1] = "cli" => \A i \in 1 .. Len(m) : m[i] # "streamed")
  <2>1. Streamed(c, m) = Native(m)
    BY <1>3 DEF Streamed
  <2> QED BY <1>1, <1>3, <2>1, NativeSays
<1>4. CASE c[2] # "openai" /\ c[1] = "cli" /\ \E i \in 1 .. Len(m) : m[i] = "streamed"
  <2>1. DOMAIN m = 1 .. Len(m)
    BY LenProperties
  <2>2. c = <<"cli", "native">>
    BY <1>4, ClientsAre
  <2> QED BY <1>4, <2>1, <2>2
<1> QED BY <1>2, <1>3, <1>4

(* An answer that comes in one piece is whole. *)
LEMMA WholeAnswer == OutcomeInv /\ RespondsWhole => TextsCome' /\ OutcomeIsJust'
<1> SUFFICES ASSUME OutcomeInv, RespondsWhole PROVE TextsCome' /\ OutcomeIsJust'
  OBVIOUS
<1>1. PICK m \in Messages \cup {<<>>} :
         /\ message' = m
         /\ reply' = TakeAll(client, Translated(m), NoReply, Native(Translated(m)))
  BY DEF RespondsWhole
<1>2. /\ call' = [call EXCEPT !.pc = "ok"] /\ client \in Clients /\ TypeOK /\ client' = client
  BY DEF RespondsWhole, OutcomeInv, StreamInv, TypeOK
<1>3. call'.pc = "ok"
  BY <1>2, CallType
<1>4. client[2] # "openai"
  BY <1>2, ClientsAre DEF RespondsWhole, OutcomeInv, Agents
<1> DEFINE whole == Translated(m)
<1>5. m \in Seq(BlockKinds) /\ whole \in Seq(BlockKinds)
  BY MessagesAre
<1>6. /\ DOMAIN m = 1 .. Len(m) /\ Len(m) \in Nat /\ Len(whole) = Len(m)
      /\ DOMAIN whole = 1 .. Len(m)
      /\ \A i \in 1 .. Len(m) :
           whole[i] = IF m[i] = "text" THEN "text"
                      ELSE IF m[i] \in {"tool", "streamed"} THEN "tool" ELSE "lost"
  BY <1>5, LenProperties, TranslatedType
<1> HIDE DEF whole
<1>7. Dues(client, whole) = Dues(client, m)
  <2>1. ASSUME NEW i \in 1 .. Len(m) PROVE Due(client, whole, i) = Due(client, m, i)
    <3>1. CASE m[i] = "text"
      BY <1>6, <3>1, DueIs
    <3>2. CASE m[i] \in {"tool", "streamed"}
      <4>1. whole[i] = "tool"
        BY <1>6, <3>2
      <4>2. Due(client, whole, i) = Piece("tool", i, Fragments)
        BY <4>1, DueIs
      <4>3. Due(client, m, i) = Piece("tool", i, Fragments)
        BY <3>2, DueIs
      <4> QED BY <4>2, <4>3
    <3>3. CASE m[i] \notin {"text", "tool", "streamed"}
      <4>1. whole[i] = "lost"
        BY <1>6, <3>3
      <4>2. Due(client, whole, i) = Lost
        BY <4>1, DueIs
      <4>3. Due(client, m, i) = Lost
        BY <1>4, <3>3, DueIs
      <4> QED BY <4>2, <4>3
    <3> QED BY <3>1, <3>2, <3>3
  <2> QED BY <1>6, <2>1 DEF Dues
<1>8. \A i \in 1 .. Len(whole) : whole[i] # "streamed"
  BY <1>6
<1>9. Content(TakeAll(client, whole, NoReply, Native(whole)).out) = Content(Dues(client, whole))
  BY <1>2, <1>4, <1>5, <1>8, NativeSays
<1>10. Content(reply'.out) = Content(Dues(client', message'))
  BY <1>1, <1>2, <1>7, <1>9 DEF whole
<1>11. AnswerIsWhole'
  BY <1>10 DEF AnswerIsWhole
<1> QED BY <1>3, <1>11 DEF TextsCome, OutcomeIsJust, ErrorHasCause

(* A stream that ends is an answer, or was cut. *)
LEMMA StreamIsJudged == OutcomeInv /\ EndOfStream => TextsCome' /\ OutcomeIsJust'
<1> SUFFICES ASSUME OutcomeInv, EndOfStream PROVE TextsCome' /\ OutcomeIsJust'
  OBVIOUS
<1>1. /\ StreamInv /\ TypeOK /\ call.pc = "stream" /\ TextsCome
      /\ history' = [history EXCEPT !.cut = wire \o buffer # <<>>]
      /\ client' = client /\ message' = message
  BY DEF EndOfStream, OutcomeInv, StreamInv
<1>2. /\ client \in Clients /\ client[1] \in {"cli", "agent"} /\ client[2] # "buffered"
      /\ message \in Seq(BlockKinds) /\ reply \in Reply
      /\ reply = Held(client, message, Whole)
  BY <1>1, ClientsAre DEF TypeOK, StreamInv, Flows
<1> DEFINE F == Len(Streamed(client, message))
<1>3. Whole \in Nat /\ Whole <= F /\ (wire = <<>> /\ buffer = <<>> => Whole = F) /\ F \in Nat
  BY <1>1, <1>2, WholeAtEnd, StreamNotEmpty
<1>4. Holds({"stop"}) <=> Whole = F
  <2>1. Whole = F => ~NoStop(Held(client, message, Whole))
    BY <1>2, <1>3, StopComesLast
  <2>2. Whole < F => NoStop(Held(client, message, Whole))
    BY <1>2, <1>3, StopComesLast
  <2>3. Whole = F \/ Whole < F
    BY <1>3
  <2> QED BY <1>2, <2>1, <2>2, <2>3, HoldsStop
<1>5. ~Holds({"stop"}) => history'.cut
  <2>1. wire \o buffer = <<>> => wire = <<>> /\ buffer = <<>>
    <3>1. wire \in Seq(Token) /\ buffer \in Seq(Token)
      BY <1>1 DEF TypeOK
    <3> QED BY <3>1, ConcatProperties, EmptySeq
  <2>2. history'.cut <=> wire \o buffer # <<>>
    <3> DEFINE cut == wire \o buffer # <<>>
    <3>1. cut \in BOOLEAN
      OBVIOUS
    <3>2. history' = [history EXCEPT !.cut = cut]
      BY <1>1
    <3> HIDE DEF cut
    <3>3. history'.cut = cut
      BY <1>1, <3>2, TypesAre
    <3> QED BY <3>3 DEF cut
  <2> QED BY <1>3, <1>4, <2>1, <2>2
<1>6. CASE Holds({"stop"}) /\ call' = [call EXCEPT !.pc = "ok"] /\ UNCHANGED reply
  <2>1. call'.pc = "ok"
    BY <1>1, <1>6, CallType
  <2>2. \/ Content(Held(client, message, F).out) = Content(Dues(client, message))
        \/ client = <<"cli", "native">> /\ \E i \in DOMAIN message : message[i] = "streamed"
    BY <1>1, <1>2, HeldSays DEF TextsCome
  <2>3. reply' = Held(client, message, F)
    BY <1>2, <1>4, <1>6
  <2>4. AnswerIsWhole'
    BY <1>1, <2>2, <2>3 DEF AnswerIsWhole
  <2> QED BY <2>1, <2>4 DEF TextsCome, OutcomeIsJust, ErrorHasCause
<1>7. CASE ~Holds({"stop"}) /\ call' = [call EXCEPT !.pc = "err"]
  <2>1. call'.pc = "err"
    BY <1>1, <1>7, CallType
  <2> QED BY <1>5, <1>7, <2>1 DEF TextsCome, OutcomeIsJust, AnswerIsWhole, ErrorHasCause
<1>8. CASE client[1] = "agent" /\ ~Holds({"stop"}) /\ call' = [call EXCEPT !.pc = "ok"]
  <2>1. call'.pc = "ok"
    BY <1>1, <1>8, CallType
  <2> QED BY <1>1, <1>5, <1>8, <2>1 DEF TextsCome, OutcomeIsJust, AnswerIsWhole, ErrorHasCause
<1>9. CASE call' = AskAgain
  <2>1. call'.pc = "send"
    BY <1>9 DEF AskAgain
  <2> QED BY <2>1 DEF TextsCome, OutcomeIsJust, AnswerIsWhole, ErrorHasCause
<1> QED BY <1>6, <1>7, <1>8, <1>9 DEF EndOfStream

(* The other steps make no answer, and an error only of a fault. *)
LEMMA OthersAreJust ==
  OutcomeInv /\ (Send \/ Unreachable \/ Backoff \/ Refused \/ Responds \/ Chunk \/ StreamFails)
    => TextsCome' /\ OutcomeIsJust'
<1> SUFFICES ASSUME OutcomeInv,
                    Send \/ Unreachable \/ Backoff \/ Refused \/ Responds \/ Chunk \/ StreamFails
             PROVE  TextsCome' /\ OutcomeIsJust'
  OBVIOUS
<1>1. TypeOK /\ TextsCome
  BY DEF OutcomeInv, StreamInv
<1>2. ASSUME call'.pc \in {"send", "await", "backoff"} PROVE TextsCome' /\ OutcomeIsJust'
  BY <1>2 DEF TextsCome, OutcomeIsJust, AnswerIsWhole, ErrorHasCause
<1>3. ASSUME history' = [history EXCEPT !.fault = TRUE],
             NEW pc \in {"backoff", "err"}, call' = [call EXCEPT !.pc = pc]
      PROVE  TextsCome' /\ OutcomeIsJust'
  <2>1. call'.pc = pc
    BY <1>1, <1>3, CallType
  <2>2. history'.fault
    BY <1>1, <1>3, TypesAre
  <2> QED BY <2>1, <2>2 DEF TextsCome, OutcomeIsJust, AnswerIsWhole, ErrorHasCause
<1>4. CASE Send
  <2>1. call'.pc = "await"
    BY <1>1, <1>4, TypesAre DEF Send
  <2> QED BY <1>2, <2>1
<1>5. CASE Unreachable
  <2>1. PICK pc \in {"backoff", "err"} : call' = [call EXCEPT !.pc = pc]
    BY <1>5 DEF Unreachable
  <2> QED BY <1>3, <1>5, <2>1 DEF Unreachable
<1>6. CASE Backoff
  <2>1. call'.pc = "send"
    BY <1>1, <1>6, CallType DEF Backoff
  <2> QED BY <1>2, <2>1
<1>7. CASE Refused \/ StreamFails
  <2>1. call' = [call EXCEPT !.pc = "err"] /\ history' = [history EXCEPT !.fault = TRUE]
    BY <1>7 DEF Refused, StreamFails
  <2> QED BY <1>3, <2>1
<1>8. CASE Responds
  <2>1. call'.pc = "stream"
    BY <1>1, <1>8, CallType DEF Responds
  <2>2. TextsCome'
    <3>1. \A m \in Messages : \A i \in DOMAIN m : m[i] # "lost"
      BY MessagesAre
    <3> QED BY <1>8, <3>1 DEF Responds, TextsCome, TextsFirst
  <2> QED BY <2>1, <2>2 DEF OutcomeIsJust, AnswerIsWhole, ErrorHasCause
<1>9. CASE Chunk
  <2>1. call.pc = "stream" /\ call' = call /\ client' = client /\ message' = message
    BY <1>9 DEF Chunk
  <2>2. TextsCome'
    BY <1>1, <2>1 DEF TextsCome
  <2> QED BY <2>1, <2>2 DEF OutcomeIsJust, AnswerIsWhole, ErrorHasCause
<1> QED BY <1>4, <1>5, <1>6, <1>7, <1>8, <1>9

(* What passes for an answer has every text of the message and every call  *)
(* with a name and arguments that parse, in order and with their inputs    *)
(* complete; of other calls what Due says is left.  A call fails only when *)
(* network or server did.  A sub-agent keeps what a cut stream left it,    *)
(* and the CLI drops the fragments of an input (translate_from_openai,     *)
(* flush_tool_calls, build_assistant_message, map_stream_event,            *)
(* TernlangRuntimeClient::stream).                                         *)
THEOREM AnswersAreWhole == Spec => []OutcomeIsJust
<1>1. Init => OutcomeInv
  <2> SUFFICES ASSUME Init PROVE OutcomeInv
    OBVIOUS
  <2>1. call.pc = "send"
    BY DEF Init
  <2>2. Agents
    BY DEF Init, Agents
  <2> QED BY <2>1, <2>2, StreamInit
      DEF OutcomeInv, TextsCome, OutcomeIsJust, AnswerIsWhole, ErrorHasCause
<1>2. OutcomeInv /\ [Next]_vars => OutcomeInv'
  <2> SUFFICES ASSUME OutcomeInv, [Next]_vars PROVE OutcomeInv'
    OBVIOUS
  <2>1. StreamInv' /\ Agents'
    BY StreamNext, AgentsAsk DEF OutcomeInv
  <2>2. CASE UNCHANGED vars
    <3>1. UNCHANGED <<client, call, message, wire, buffer, reply, history>>
      BY <2>2 DEF vars
    <3>2. TextsCome' /\ OutcomeIsJust'
      BY <3>1 DEF OutcomeInv, TextsCome, OutcomeIsJust, AnswerIsWhole, ErrorHasCause
    <3> QED BY <2>1, <3>2 DEF OutcomeInv
  <2>3. CASE Next
    <3>1. TextsCome' /\ OutcomeIsJust'
      BY <2>3, WholeAnswer, StreamIsJudged, OthersAreJust DEF Next
    <3> QED BY <2>1, <3>1 DEF OutcomeInv
  <2> QED BY <2>2, <2>3
<1>3. OutcomeInv => OutcomeIsJust
  BY DEF OutcomeInv
<1> QED BY <1>1, <1>2, <1>3, PTL DEF Spec
================================================================================
