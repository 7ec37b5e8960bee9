----------------------------- MODULE MCApiStream -----------------------------
(* Constants of the small instance of ApiStream that TLC checks. *)
EXTENDS ApiStream

EveryClient == {"cli"} \X {"native", "openai", "buffered"} \cup {<<"agent", "native">>}
Kinds == {"text", "tool", "streamed", "garbled", "nameless"}
UpToTwoBlocks == UNION {[1 .. n -> Kinds] : n \in 1 .. 2}
================================================================================
