---------------------------- MODULE ExtendedXMP ----------------------------
(***************************************************************************)
(* Reading the extended XMP of a JPEG (format/jpeg/extacc.go, jpeg.go      *)
(* buildXMPResult).  The document is cut into chunks, one APP1 segment     *)
(* each; other software may have reordered, lost, repeated or relabelled   *)
(* them.  The reader stores the chunks of each GUID in blocks that it      *)
(* sizes from what the first chunk declares, and puts the document         *)
(* together once all segments are read.                                    *)
(*                                                                         *)
(* Byte i of every document is the number i.                               *)
(***************************************************************************)
EXTENDS Integers, Sequences, SequencesExt, FiniteSets, FiniteSetsExt

CONSTANTS Guids,      \* the GUIDs of the extended XMP in the file
          Linked,     \* the GUID the standard packet links to
          Length,     \* Length[g]: the size of the document written under g
          ChunkSize,  \* maxExtChunkSize, all that an APP1 segment has room for
          Strays,     \* chunks that other software wrote
          FileSizes,  \* bytes of the file, from the first chunk on
          Overhead,   \* bytes of a segment besides those of the document
          MaxTotal,   \* maxExtendedXMPTotal
          MaxGuids,   \* maxExtendedXMPGUIDs
          Headroom,   \* wireHeadroom
          LargeBlock, \* wireHeadroomMin
          None

ChunkType == [guid : Guids, full : Nat, off : Nat, len : Nat]

(* extGUID: what is stored under a GUID.                                   *)
StoredType == [full : Nat, size : Nat, chunks : Seq(ChunkType), block : Seq(Nat),
               room : Nat, blocks : Nat, taken : Nat]

ASSUME ConstantAssumption ==
    /\ Linked \in Guids /\ IsFiniteSet(Guids)
    /\ Length \in [Guids -> Nat \ {0}] /\ ChunkSize \in Nat \ {0}
    /\ \A c \in Strays : c \in ChunkType /\ c.len <= ChunkSize
    /\ FileSizes \subseteq Nat /\ MaxTotal \in Nat /\ MaxGuids \in Nat
    /\ Overhead \in Nat \ {0} /\ Headroom \in Nat /\ LargeBlock \in Nat
    /\ None \notin StoredType

(* writeExtendedChunks: the segments a document is written in.             *)
Chunks(g) ==
    {[guid |-> g, full |-> Length[g], off |-> o, len |-> Min({ChunkSize, Length[g] - o})] :
        o \in {n \in 0..Length[g] - 1 : n % ChunkSize = 0}}
Segments == (UNION {Chunks(g) : g \in Guids}) \union Strays
BytesOf(c) == [i \in 1..c.len |-> c.off + i]
TotalOf(chunks) == FoldSeq(LAMBDA c, n : c.len + n, 0, chunks)

VARIABLES acc,       \* acc[g]: what is stored under g, or None
          truncated, \* something was dropped
          total,     \* bytes of the file
          left,      \* those not read yet
          avail,     \* the bytes left after the first chunk, or None
          arrived,   \* the chunks in the order of the file
          result     \* the XMP result, or None while reading

vars == <<acc, truncated, total, left, avail, arrived, result>>

Init == /\ acc = [g \in Guids |-> None] /\ truncated = FALSE
        /\ total \in FileSizes /\ left = total /\ avail = None /\ arrived = <<>> /\ result = None

-----------------------------------------------------------------------------
(* extAcc.add.                                                             *)

Seen == {g \in Guids : acc[g] # None}
Fresh(full) == [full |-> full, size |-> 0, chunks |-> <<>>, block |-> <<>>,
                room |-> 0, blocks |-> 0, taken |-> 0]

(* Faulty: the declared size is believed.                                  *)
RoomDeclared(g, n, more) == Max({n, g.full - g.size})

(* blockCap: what is still to come, as far as the file can hold it.        *)
Room(g, n, more) == Min({Max({n, g.full - g.size}), more + n})

(* A large first block keeps room for the frame in front of the document.  *)
FrameRoom(g, room) == IF g.blocks = 0 /\ room >= LargeBlock THEN Headroom ELSE 0

(* The chunk goes into the current block, or into a new one when that is   *)
(* full, which an empty chunk never finds; taken is the memory taken for   *)
(* the blocks of the GUID.                                                 *)
Stored(g, c, more) ==
    LET grows == g.room - Len(g.block) < c.len
        room == Room(g, c.len, more)
    IN [full |-> g.full, size |-> g.size + c.len, chunks |-> Append(g.chunks, c),
        block |-> (IF grows THEN <<>> ELSE g.block) \o BytesOf(c),
        room |-> IF grows THEN room ELSE g.room,
        blocks |-> IF grows THEN g.blocks + 1 ELSE g.blocks,
        taken |-> IF grows THEN g.taken + FrameRoom(g, room) + room ELSE g.taken]

Refused(c) == acc[c.guid] = None /\ (Cardinality(Seen) >= MaxGuids \/ c.full > MaxTotal)

(* Faulty: a chunk may end past the limit, the next one not.               *)
TooMuchAlready(c) == acc[c.guid] # None /\ acc[c.guid].size > MaxTotal

TooMuch(c) == (IF acc[c.guid] = None THEN 0 ELSE acc[c.guid].size) + c.len > MaxTotal

Add(c) ==
    LET g == IF acc[c.guid] = None THEN Fresh(c.full) ELSE acc[c.guid]
        more == IF avail = None THEN left - Overhead - c.len ELSE avail
    IN /\ result = None /\ Overhead + c.len <= left
       /\ left' = left - Overhead - c.len
       /\ arrived' = Append(arrived, c)
       /\ \/ /\ Refused(c)
             /\ truncated' = TRUE
             /\ UNCHANGED <<acc, avail>>
          \/ /\ ~Refused(c) /\ TooMuch(c)
             /\ truncated' = TRUE
             /\ acc' = [acc EXCEPT ![c.guid] = g]
             /\ UNCHANGED avail
          \/ /\ ~Refused(c) /\ ~TooMuch(c)
             /\ acc' = [acc EXCEPT ![c.guid] = Stored(g, c, more)]
             /\ avail' = IF g.room - Len(g.block) < c.len THEN more ELSE avail
             /\ UNCHANGED truncated
       /\ UNCHANGED result

-----------------------------------------------------------------------------
(* extGUID.assemble and buildXMPResult.                                    *)

InOrder(chunks) == IsSorted(chunks, LAMBDA a, b : a.off <= b.off)

(* The chunks by their offsets.  Of two at the same offset, of which only  *)
(* an empty one can be part of a document, either may come first:          *)
(* slices.SortFunc is not stable.                                          *)
Ascending(s) == \A i, j \in DOMAIN s : i < j => s[i].off <= s[j].off
Sorted(chunks) ==
    IF InOrder(chunks) THEN {chunks}
    ELSE {s \in {[i \in DOMAIN chunks |-> chunks[p[i]]] :
                    p \in Surjection(DOMAIN chunks, DOMAIN chunks)} : Ascending(s)}

(* Faulty: holes and overlaps are only found by the total.                 *)
ContiguousByTotal(s, full) == TotalOf(s) = full

Contiguous(s, full) ==
    /\ s # <<>> /\ s[1].off = 0
    /\ \A i \in 2..Len(s) : s[i].off = s[i - 1].off + s[i - 1].len
    /\ Last(s).off + Last(s).len = full

(* The document is the block itself when one block holds it in order.      *)
Document(g, s) ==
    IF InOrder(g.chunks) /\ g.blocks = 1 THEN g.block
    ELSE FlattenSeq([i \in DOMAIN s |-> BytesOf(s[i])])

(* Faulty: what cannot be put together is left out without a word.         *)
BuildQuiet(g, s) ==
    LET whole == g # None /\ s # <<>> /\ Contiguous(s, g.full) /\ g.full # 0
    IN [ext |-> IF whole THEN Document(g, s) ELSE <<>>, kept |-> FALSE, truncated |-> truncated]

(* What the chunks s of the linked document make.  An empty document holds *)
(* no property to merge; kept: its segments are carried over by a write.   *)
Build(g, s) ==
    CASE g = None \/ s = <<>> -> [ext |-> <<>>, kept |-> FALSE, truncated |-> truncated]
      [] g # None /\ s # <<>> /\ Contiguous(s, g.full) /\ g.full # 0 ->
           [ext |-> Document(g, s), kept |-> FALSE, truncated |-> truncated]
      [] OTHER -> [ext |-> <<>>, kept |-> TRUE, truncated |-> TRUE]

Orders(g) == IF g = None THEN {<<>>} ELSE Sorted(g.chunks)

Finish == /\ result = None
          /\ \E s \in Orders(acc[Linked]) : result' = Build(acc[Linked], s)
          /\ UNCHANGED <<acc, truncated, left, avail, arrived>>

Next == ((\E c \in Segments : Add(c)) \/ Finish) /\ UNCHANGED total
Spec == Init /\ [][Next]_vars

-----------------------------------------------------------------------------
(* Properties.                                                             *)

Mine == {i \in DOMAIN arrived : arrived[i].guid = Linked}

(* The limits hold whatever the chunks declare: no more GUIDs than         *)
(* MaxGuids are stored, and no more than MaxTotal bytes of each.           *)
WithinLimits ==
    /\ Cardinality(Seen) <= MaxGuids
    /\ \A g \in Guids : acc[g] # None => acc[g].size <= MaxTotal /\ acc[g].full <= MaxTotal

(* What is put together is the document from its first byte on, as long as *)
(* the first chunk says, whatever order the chunks came in: never one with *)
(* a hole, a part twice, or two parts changed round.                       *)
NeverCorrupt ==
    result # None /\ result.ext # <<>>
        => result.ext = [i \in 1..acc[Linked].full |-> i]

(* A document of which every chunk arrived once, and no other of its GUID, *)
(* is put together, in whatever order, unless a limit cut something off.   *)
WholeIsMerged ==
    result # None /\ ~truncated
    /\ {arrived[i] : i \in Mine} = Chunks(Linked)
    /\ (\A i, j \in Mine : arrived[i] = arrived[j] => i = j)
        => Len(result.ext) = Length[Linked]

(* The linked document is merged when it is there, and only as it was.     *)
Merged == NeverCorrupt /\ WholeIsMerged

(* What the file has of the linked document is merged, or its loss is      *)
(* reported (buildXMPResult, extTruncated).                                *)
NothingLostSilently ==
    result # None /\ Mine # {} /\ result.ext = <<>> => result.truncated

(* The blocks of a document take no more memory than the file has bytes of *)
(* it, one chunk and the room for the frame, whatever the chunks declare.  *)
NotMoreThanFile ==
    \A g \in Guids : acc[g] # None =>
        acc[g].taken <= (total - Overhead) + ChunkSize + Headroom
=============================================================================
