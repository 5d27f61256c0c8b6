--------------------------- MODULE AtomicReplace ---------------------------
(***************************************************************************)
(* What WriteFile promises about the files it rewrites, without saying how *)
(* ("the destination is either the complete, correct result or is left     *)
(* untouched", write.go).                                                  *)
(*                                                                         *)
(* An image is the set of the calls whose edit it contains.  A call reads  *)
(* the image of one file and replaces that file, in one step, by the image *)
(* it read plus its own edit; or it leaves every file alone.  A crash may  *)
(* take a file back to an image it held since its directory last reached   *)
(* the disk, never to anything else.                                       *)
(***************************************************************************)
CONSTANTS Files,   \* the image files
          Calls,   \* the calls of WriteFile, each made at most once
          Folder   \* Folder[f]: the directory of file f

VARIABLES image,   \* image[f]: the edits in the image that file f holds
          safe,    \* safe[f]: the images a crash may leave in f
          source,  \* source[c]: the file that call c rewrites, or NoFile
          base,    \* base[c]: the image call c read
          phase    \* phase[c]: "none", "replaced", "ok", "error", "crashed" or "aside"

vars == <<image, safe, source, base, phase>>

NoFile == "no file"

Init == /\ image = [f \in Files |-> {}]
        /\ safe = [f \in Files |-> {{}}]
        /\ source = [c \in Calls |-> NoFile]
        /\ base = [c \in Calls |-> {}]
        /\ phase = [c \in Calls |-> "none"]

(* The call opens file f: the image it will edit is now fixed.             *)
Begin(c, f) == /\ phase[c] = "none" /\ source[c] = NoFile
               /\ source' = [source EXCEPT ![c] = f]
               /\ base' = [base EXCEPT ![c] = image[f]]
               /\ UNCHANGED <<image, safe, phase>>

(* The call has no file to rewrite: its path did not lead to one.          *)
StepAside(c) == /\ phase[c] = "none" /\ source[c] = NoFile
                /\ phase' = [phase EXCEPT ![c] = "aside"]
                /\ UNCHANGED <<image, safe, source, base>>

(* The only step of a call that changes what a file holds.                 *)
Replace(c) == LET f == source[c]
                  new == base[c] \union {c}
              IN  /\ phase[c] = "none" /\ f # NoFile
                  /\ image' = [image EXCEPT ![f] = new]
                  /\ safe' = [safe EXCEPT ![f] = @ \union {new}]
                  /\ phase' = [phase EXCEPT ![c] = "replaced"]
                  /\ UNCHANGED <<source, base>>

(* A call succeeds only after its one replacement.  Its directory reaches  *)
(* the disk first, or (the file system does not support it) it does not.   *)
Succeed(c) == /\ phase[c] = "replaced"
              /\ phase' = [phase EXCEPT ![c] = "ok"]
              /\ \/ safe' = safe
                 \/ safe' = [f \in Files |-> IF Folder[f] = Folder[source[c]]
                                             THEN {image[f]} ELSE safe[f]]
              /\ UNCHANGED <<image, source, base>>

(* A call fails only when it has replaced nothing.                         *)
Fail(c) == /\ phase[c] = "none"
           /\ phase' = [phase EXCEPT ![c] = "error"]
           /\ UNCHANGED <<image, safe, source, base>>

(* A directory reaches the disk.                                           *)
Settle(d) == /\ safe' = [f \in Files |-> IF Folder[f] = d THEN {image[f]} ELSE safe[f]]
             /\ UNCHANGED <<image, source, base, phase>>

(* Some running calls die; each file is left with one of its safe images.  *)
Crash == /\ image' \in [Files -> UNION {safe[f] : f \in Files}]
         /\ \A f \in Files : image'[f] \in safe[f]
         /\ safe' = [f \in Files |-> {image'[f]}]
         /\ \E dead \in SUBSET {c \in Calls : phase[c] \in {"none", "replaced"}} :
                phase' = [c \in Calls |-> IF c \in dead THEN "crashed" ELSE phase[c]]
         /\ UNCHANGED <<source, base>>

Next == \/ \E c \in Calls : \/ \E f \in Files : Begin(c, f)
                            \/ StepAside(c) \/ Replace(c) \/ Succeed(c) \/ Fail(c)
        \/ \E f \in Files : Settle(Folder[f])
        \/ Crash

Spec == Init /\ [][Next]_vars
=============================================================================
