---------------------------- MODULE MCMcpManager ----------------------------
(* Constants of the small instances of McpManager that TLC checks. *)
EXTENDS McpManager

CONSTANTS alpha, beta             \* servers
CONSTANTS read, write             \* raw tool names
CONSTANTS alphaRead, either       \* qualified names

BothInOrder ==
  [names \in SUBSET {alpha, beta} |->
     SelectSeq(<<alpha, beta>>, LAMBDA s : s \in names)]
JustAlpha ==
  [names \in SUBSET {alpha} |-> IF names = {} THEN <<>> ELSE <<alpha>>]

(* The names of alpha's write and of beta's tools collide. *)
Colliding == [p \in {alpha, beta} \X {read, write} |->
                IF p = <<alpha, read>> THEN alphaRead ELSE either]
AlphaNames == [p \in {alpha} \X {read, write} |-> IF p[2] = read THEN alphaRead ELSE either]
================================================================================
