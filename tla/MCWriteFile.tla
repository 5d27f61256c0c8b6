---------------------------- MODULE MCWriteFile ----------------------------
(* Small instances of WriteFile for TLC: two files in two directories, and *)
(* a link beside the first that may point to either.                       *)
EXTENDS WriteFile

MCFolder == [n \in Names |-> IF n \in {"b", "u1"} THEN "D2" ELSE "D1"]

(* One call through the link, the others on the first file.                *)
MCPath == [c \in Calls |-> IF c = "c1" THEN "l" ELSE "a"]

MCThroughLink == [c \in Calls |-> "l"]

MCAnyTarget == Files \union {Dangling}
=============================================================================
