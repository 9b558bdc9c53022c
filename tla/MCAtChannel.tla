----------------------------- MODULE MCAtChannel -----------------------------
(* AtChannel with one command of each type that takes intermediate lines.   *)
EXTENDS AtChannel

CONSTANTS single, multi

MCCommand == {single, multi}
MCInfo == [c \in MCCommand |-> IF c = single THEN "SINGLELINE" ELSE "MULTILINE"]
=============================================================================
