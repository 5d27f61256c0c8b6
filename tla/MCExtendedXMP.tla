--------------------------- MODULE MCExtendedXMP ---------------------------
(***************************************************************************)
(* Instances of ExtendedXMP for TLC.                                       *)
(***************************************************************************)
EXTENDS ExtendedXMP

Piece(g, full, off, len) == [guid |-> g, full |-> full, off |-> off, len |-> len]

(* Three GUIDs for two places; the linked document has three chunks, the   *)
(* last a short one, and one document is larger than the limit.            *)
ManyGuids == {"g", "h", "i"}
ManyLength == [g |-> 5, h |-> 2, i |-> 6]

(* Two chunks that overlap the linked document, the second under a size of *)
(* its own, one that follows a whole document, and empty ones: in the linked *)
(* document, and alone under a size of nothing.                            *)
Overlapping == {Piece("g", 5, 1, 2), Piece("g", 2, 0, 1), Piece("h", 2, 1, 1),
                Piece("g", 5, 2, 0), Piece("g", 0, 0, 0)}
=============================================================================
