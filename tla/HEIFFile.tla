------------------------------ MODULE HEIFFile ------------------------------
(***************************************************************************)
(* The metadata of a HEIF or AVIF (heif/heif.go, iloc.go, inject.go,       *)
(* stream.go).  A file is its top-level boxes and the bytes after them     *)
(* that are not a box.  A meta box, at the top or in a moov, lists items   *)
(* and where their data is; a moov also holds chunk offsets.               *)
(***************************************************************************)
EXTENDS Integers, Sequences, FiniteSets, SequencesExt

CONSTANTS NONE,     \* no payload
          MaxFour,  \* the largest value of a field of four bytes
          MaxID     \* the largest item ID

-----------------------------------------------------------------------------
(* A file as runs of bytes, each with its identity, so that two files can  *)
(* be compared through the offsets that lead into them.                    *)

Run(is, len) == [is |-> is, len |-> len]
LenOf(runs) == FoldLeft(LAMBDA sum, r : sum + r.len, 0, runs)

(* The identity of the byte at an offset, and its place in its run.        *)
At(runs, off) ==
    LET start(n) == LenOf(SubSeq(runs, 1, n - 1))
        of == {n \in DOMAIN runs : start(n) <= off /\ off < start(n) + runs[n].len}
    IN IF of = {} THEN <<"end", 0>>
       ELSE LET n == CHOOSE k \in of : TRUE IN <<runs[n].is, off - start(n)>>

(* What extents [off, len] lead to, and the one value they spell or none.  *)
LeadsTo(runs, base, extents) ==
    [k \in DOMAIN extents |-> <<At(runs, base + extents[k].off), extents[k].len>>]
Spells(runs, base, extents, none) ==
    LET led == LeadsTo(runs, base, extents)
        before(k) == LenOf(SubSeq(extents, 1, k - 1))
    IN IF extents # <<>> /\ \A k \in DOMAIN led : led[k][1] = <<led[1][1][1], before(k)>>
       THEN led[1][1][1] ELSE none

-----------------------------------------------------------------------------
(* The boxes.                                                              *)

NoMeta == [has |-> FALSE, items |-> <<>>, idat |-> <<>>, refs |-> {}, primary |-> 0,
           offw |-> 4, lenw |-> 4, basew |-> 0]
(* placed: the item has an entry in the iloc box; here: it is in this file.*)
Item(id, t, extents) == [id |-> id, t |-> t, placed |-> TRUE, here |-> TRUE, method |-> "file",
                         base |-> 0, extents |-> extents]
Box(t, data) == [t |-> t, open |-> FALSE, size |-> 8 + LenOf(data), data |-> data, meta |-> NoMeta,
                 chunks |-> <<>>]

-----------------------------------------------------------------------------
(* Lengths: each field of the iloc box has the width the box states.       *)

InfeLen == 2
RefLen == 1
EntryLen(m, it) == IF it.placed THEN 2 + m.basew + Len(it.extents) * (m.offw + m.lenw) ELSE 0
MetaLen(m) ==
    IF ~m.has THEN 0
    ELSE 12 + FoldLeft(LAMBDA sum, it : sum + InfeLen + EntryLen(m, it), 0, m.items)
            + RefLen * Cardinality(m.refs) + LenOf(m.idat)
ChunkBytes(chunks) == FoldLeft(LAMBDA sum, c : sum + (IF c.wide THEN 8 ELSE 4), 0, chunks)
BoxLen(b) == 8 + MetaLen(b.meta) + ChunkBytes(b.chunks) + LenOf(b.data)
StartOf(boxes, n) == FoldLeft(LAMBDA sum, b : sum + BoxLen(b), 0, SubSeq(boxes, 1, n - 1))
Runs(file) ==
    FlattenSeq([n \in DOMAIN file.boxes |->
        <<Run("box", BoxLen(file.boxes[n]) - LenOf(file.boxes[n].data))>> \o file.boxes[n].data])
    \o file.rest

(* findMetaBoxAbs: the first at the top, or the one in the first moov.     *)
Of(boxes, t) == {n \in DOMAIN boxes : boxes[n].t = t}
MinOf(S) == CHOOSE n \in S : \A k \in S : n <= k
MetaIn(boxes) ==
    IF Of(boxes, "meta") # {} THEN MinOf(Of(boxes, "meta"))
    ELSE IF Of(boxes, "moov") # {} /\ boxes[MinOf(Of(boxes, "moov"))].meta.has
         THEN MinOf(Of(boxes, "moov")) ELSE 0
MetaOf(boxes, n) == IF n = 0 THEN NoMeta ELSE boxes[n].meta
MetaEnd(boxes, n) == StartOf(boxes, n) + (IF boxes[n].t = "meta" THEN BoxLen(boxes[n])
                                          ELSE 8 + MetaLen(boxes[n].meta))

-----------------------------------------------------------------------------
(* Extract.                                                                *)

(* selectBestItem: the primary item, else the lowest.                      *)
Best(m, t) ==
    LET ids == {m.items[k].id : k \in {j \in DOMAIN m.items : m.items[j].t = t}}
    IN IF ids = {} THEN 0 ELSE IF m.primary \in ids THEN m.primary ELSE MinOf(ids)
ItemOf(m, id) == m.items[CHOOSE k \in DOMAIN m.items : m.items[k].id = id]

(* readIlocItem: from the idat of the meta box, or this file.              *)
ItemValue(file, m, id) ==
    LET it == ItemOf(m, id)
    IN IF id = 0 THEN NONE
       ELSE IF ~it.placed \/ (it.method = "file" /\ ~it.here) THEN NONE
       ELSE Spells(IF it.method = "idat" THEN m.idat ELSE Runs(file), it.base, it.extents, NONE)

Extract(file) ==
    LET n == MetaIn(file.boxes)
        m == MetaOf(file.boxes, n)
    IN IF n = 0 THEN [err |-> FALSE, exif |-> NONE, iptc |-> NONE, xmp |-> NONE]
       ELSE [err |-> FALSE, exif |-> ItemValue(file, m, Best(m, "Exif")), iptc |-> NONE,
             xmp |-> ItemValue(file, m, Best(m, "mime"))]

-----------------------------------------------------------------------------
(* Inject.                                                                 *)

(* widenIlocFields: a field that is absent gets four bytes.                *)
Widened(m) == [m EXCEPT !.offw = IF @ = 0 THEN 4 ELSE @, !.lenw = IF @ = 0 THEN 4 ELSE @]

(* planNewItems, buildItemBoxes: an item of a kind the file lacks, after   *)
(* the largest ID, described as one of the primary item.                   *)
HasItem(m, t) == \E k \in DOMAIN m.items : m.items[k].t = t
MaxItemID(m) == FoldLeft(LAMBDA most, it : IF it.id > most THEN it.id ELSE most, 0, m.items)
WithItem(m, t) ==
    LET id == MaxItemID(m) + 1
    IN [m EXCEPT !.items = Append(@, [Item(id, t, <<>>) EXCEPT !.placed = FALSE]),
                 !.refs = IF m.primary = 0 THEN @ ELSE @ \cup {<<id, m.primary>>}]
WithItems(m, e, x) ==
    LET m1 == IF e # NONE /\ ~HasItem(m, "Exif") THEN WithItem(m, "Exif") ELSE m
    IN IF x # NONE /\ ~HasItem(m, "mime") THEN WithItem(m1, "mime") ELSE m1

(* mapPendingItems: the items that get a payload.                          *)
PayloadOf(it, e, x) == CASE it.t = "Exif" -> e [] it.t = "mime" -> x [] OTHER -> NONE
Pending(it, e, x) == PayloadOf(it, e, x) # NONE

(* preparePendingIlocItems: one extent of this file.                       *)
Prepared(it) == [it EXCEPT !.placed = TRUE, !.here = TRUE, !.method = "file", !.base = 0,
                           !.extents = <<[off |-> 0, len |-> 0]>>]
Planned(m, e, x) ==
    LET new == WithItems(Widened(m), e, x)
    IN [new EXCEPT !.items = [k \in DOMAIN @ |-> IF Pending(@[k], e, x) THEN Prepared(@[k]) ELSE @[k]]]

(* shiftIlocItem: the base when it is beyond, else the extents that are.   *)
Shifted(it, m, threshold, delta) ==
    IF m.basew > 0 /\ it.base >= threshold THEN [it EXCEPT !.base = @ + delta]
    ELSE [it EXCEPT !.extents = [k \in DOMAIN @ |->
            [@[k] EXCEPT !.off = IF it.base + @ >= threshold THEN @ + delta ELSE @]]]
ShiftedItems(m, e, x, threshold, delta) ==
    [m EXCEPT !.items = [k \in DOMAIN @ |->
        IF delta # 0 /\ ~Pending(@[k], e, x) /\ @[k].method = "file" /\ @[k].here
        THEN Shifted(@[k], m, threshold, delta) ELSE @[k]]]
ShiftedChunks(chunks, threshold, delta) ==
    [k \in DOMAIN chunks |-> [chunks[k] EXCEPT !.off = IF @ >= threshold THEN @ + delta ELSE @]]

(* assignItemOffsets, placePayloads: in the new mdat, in the order of iloc.*)
PayloadLen(it, e, x, len) == len[PayloadOf(it, e, x)] + (IF it.t = "Exif" THEN 4 ELSE 0)
PendingIn(m, e, x) == SelectSeq(m.items, LAMBDA it : Pending(it, e, x))
Payloads(m, e, x, len) ==
    LET pend == PendingIn(m, e, x)
    IN [k \in DOMAIN pend |-> Run(PayloadOf(pend[k], e, x), PayloadLen(pend[k], e, x, len))]
PlacedAt(m, k, e, x, base, len) ==
    base + LenOf(Payloads([m EXCEPT !.items = SubSeq(@, 1, k - 1)], e, x, len))
Assigned(m, e, x, base, len) ==
    [m EXCEPT !.items = [k \in DOMAIN @ |->
        IF ~Pending(@[k], e, x) THEN @[k]
        ELSE LET off == PlacedAt(m, k, e, x, base, len)
                 n == PayloadLen(@[k], e, x, len)
             IN IF m.basew > 0 THEN [@[k] EXCEPT !.base = off, !.extents = <<[off |-> 0, len |-> n]>>]
                ELSE [@[k] EXCEPT !.extents = <<[off |-> off, len |-> n]>>]]]

(* appendUintN, PutUint32: what a field of that width holds of a value.     *)
Field(v, w) == CASE w = 8 -> v [] w = 4 -> v % (MaxFour + 1) [] OTHER -> 0
Stored(b) ==
    [b EXCEPT
        !.meta.items = [k \in DOMAIN @ |-> [@[k] EXCEPT
            !.base = Field(@, b.meta.basew),
            !.extents = [j \in DOMAIN @ |-> [@[j] EXCEPT !.off = Field(@, b.meta.offw)]]]],
        !.chunks = [k \in DOMAIN @ |-> [@[k] EXCEPT !.off = Field(@, IF b.chunks[k].wide THEN 8 ELSE 4)]]]

(* fitsIlocField, shiftValue, shiftChunkOffset: what a field cannot hold   *)
(* is refused.                                                             *)
FieldsFitNever(m) == TRUE \* Faulty: it is stored as far as it fits.
Fits(v, w) == w = 8 \/ (w = 4 /\ v <= MaxFour)
FieldsFit(m) ==
    \A k \in DOMAIN m.items :
        /\ m.basew > 0 => Fits(m.items[k].base, m.basew)
        /\ \A j \in DOMAIN m.items[k].extents :
              m.offw > 0 => Fits(m.items[k].extents[j].off, m.offw)
ChunksFit(boxes) ==
    \A n \in DOMAIN boxes : \A k \in DOMAIN boxes[n].chunks :
        boxes[n].chunks[k].wide \/ boxes[n].chunks[k].off <= MaxFour

(* checkClosable: an open box gets a size of four bytes.                   *)
Closable(boxes) == \A n \in DOMAIN boxes : boxes[n].open => BoxLen(boxes[n]) <= MaxFour

(* header, patchBoxSize: the sizes of what changed, and of an open box.    *)
Sized(b) == [b EXCEPT !.size = BoxLen(b), !.open = FALSE]
(* emit: the boxes, the new mdat, then what is not a box.                  *)
Inject(file, e, x, len) ==
    LET n == MetaIn(file.boxes)
        m == MetaOf(file.boxes, n)
        threshold == MetaEnd(file.boxes, n)
        plan == Planned(m, e, x)
        delta == MetaLen(plan) - MetaLen(m)
        at == StartOf(file.boxes, Len(file.boxes) + 1) + delta + 8
        meta == Assigned(ShiftedItems(plan, e, x, threshold, delta), e, x, at, len)
        edited(k) ==
            LET b == IF k = n THEN [file.boxes[k] EXCEPT !.meta = meta] ELSE file.boxes[k]
            IN Sized([b EXCEPT !.chunks = ShiftedChunks(@, threshold, delta)])
        boxes == [k \in DOMAIN file.boxes |-> edited(k)]
    IN IF e = NONE /\ x = NONE THEN [err |-> FALSE, file |-> file]
       ELSE IF \/ n = 0 \/ MaxItemID(plan) > MaxID \/ ~FieldsFit(meta) \/ ~ChunksFit(boxes)
               \/ 8 + LenOf(Payloads(plan, e, x, len)) > MaxFour \/ ~Closable(file.boxes)
       THEN [err |-> TRUE, file |-> file]
       ELSE [err |-> FALSE,
             file |-> [file EXCEPT !.boxes = Append([k \in DOMAIN boxes |-> Stored(boxes[k])], Box("mdat", Payloads(plan, e, x, len)))]]

-----------------------------------------------------------------------------
(* What is not metadata: where each other item and each chunk leads to;    *)
(* and what a HEIF may hold.                                               *)

Others(file) ==
    LET m == MetaOf(file.boxes, MetaIn(file.boxes))
        led(it) == IF it.method = "idat" THEN LeadsTo(m.idat, it.base, it.extents)
                   ELSE IF it.here THEN LeadsTo(Runs(file), it.base, it.extents) ELSE <<it.base, it.extents>>
    IN {<<m.items[k].id, led(m.items[k])>> : k \in {j \in DOMAIN m.items : m.items[j].t = "other"}}
Chunks(file) ==
    UNION {{<<n, k, At(Runs(file), file.boxes[n].chunks[k].off)>> : k \in DOMAIN file.boxes[n].chunks} :
             n \in DOMAIN file.boxes}
Rest(file) == <<Others(file), Chunks(file)>>

Valid(file) ==
    LET m == MetaOf(file.boxes, MetaIn(file.boxes))
        ids == {m.items[k].id : k \in DOMAIN m.items}
    IN /\ \A n \in DOMAIN file.boxes :
            IF file.boxes[n].open THEN n = Len(file.boxes) /\ file.rest = <<>>
            ELSE file.boxes[n].size = BoxLen(file.boxes[n])
       /\ Cardinality(ids) = Len(m.items) /\ \A r \in m.refs : r[1] \in ids /\ r[2] = m.primary
       /\ \A k \in DOMAIN m.items : \A j \in DOMAIN m.items[k].extents :
            (m.items[k].method = "file" /\ m.items[k].here)
              => m.items[k].base + m.items[k].extents[j].off + m.items[k].extents[j].len <= LenOf(Runs(file))
=============================================================================
