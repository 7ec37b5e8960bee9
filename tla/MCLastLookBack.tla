---------------------------- MODULE MCLastLookBack ----------------------------
(* Constants of the small instances of LastLookBack that TLC checks. *)
EXTENDS LastLookBack

CONSTANTS doc, script, hosts      \* names: plain, executable-like, blacklisted
CONSTANTS old, new, huge, torn    \* contents

Small == {old, new, torn}
OldOrHuge == {old, huge, torn}
================================================================================
