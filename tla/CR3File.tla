------------------------------ MODULE CR3File ------------------------------
(***************************************************************************)
(* The metadata of a CR3 (raw/cr3/cr3.go).  A file is its top-level boxes. *)
(* The moov box holds chunk offsets and, in the Canon box, the streams     *)
(* CMT1 (IFD0), CMT2 (Exif), CMT3 (MakerNote), CMT4 (GPS) and an old place *)
(* of the XMP; the new one is a top-level box.  An EXIF is the record of   *)
(* its IFDs and byte order.                                                *)
(***************************************************************************)
EXTENDS Integers, Sequences, FiniteSets, SequencesExt

CONSTANTS NONE,    \* no payload
          MaxFour  \* the largest value of a field of four bytes

(* The bytes of a file and what leads to them, as in a HEIF.               *)
Bytes == INSTANCE HEIFFile WITH MaxID <- 0

Sub(t, ifd, order, n) == [t |-> t, ifd |-> ifd, order |-> order, len |-> n]
Box(t, data) == [t |-> t, data |-> data, val |-> NONE, hasCanon |-> FALSE, canon |-> <<>>,
                 chunks |-> <<>>]

CanonLen(b) == IF b.hasCanon THEN 24 + FoldLeft(LAMBDA sum, s : sum + 8 + s.len, 0, b.canon) ELSE 0
ChunkBytes(chunks) == FoldLeft(LAMBDA sum, c : sum + (IF c.wide THEN 8 ELSE 4), 0, chunks)
BoxLen(b) == 8 + CanonLen(b) + ChunkBytes(b.chunks) + Bytes!LenOf(b.data)
StartOf(boxes, n) == FoldLeft(LAMBDA sum, b : sum + BoxLen(b), 0, SubSeq(boxes, 1, n - 1))
EndOf(boxes, n) == StartOf(boxes, n) + BoxLen(boxes[n])
Runs(file) ==
    FlattenSeq([n \in DOMAIN file.boxes |->
        <<Bytes!Run("box", BoxLen(file.boxes[n]) - Bytes!LenOf(file.boxes[n].data))>> \o file.boxes[n].data])

(* scanTopLevel: the first of each.                                        *)
FirstBox(boxes, t) ==
    LET of == {n \in DOMAIN boxes : boxes[n].t = t}
    IN IF of = {} THEN 0 ELSE CHOOSE n \in of : \A k \in of : n <= k

-----------------------------------------------------------------------------
(* ExtractSegments, and the reader, which takes the streams in the byte    *)
(* order of CMT1 for IFDs of its own.                                      *)

FirstSub(subs, t) == SelectSeq(subs, LAMBDA s : s.t = t)
HasSub(subs, t) == \E n \in DOMAIN subs : subs[n].t = t
Attached(subs, t, order) ==
    IF HasSub(subs, t) /\ Head(FirstSub(subs, t)).order = order THEN Head(FirstSub(subs, t)).ifd ELSE NONE
EXIFOf(subs) ==
    IF ~HasSub(subs, "CMT1") THEN NONE
    ELSE LET order == Head(FirstSub(subs, "CMT1")).order
         IN [ifd0 |-> Head(FirstSub(subs, "CMT1")).ifd, order |-> order,
             exif |-> Attached(subs, "CMT2", order), gps |-> Attached(subs, "CMT4", order)]

Extract(file) ==
    LET moov == FirstBox(file.boxes, "moov")
        top == FirstBox(file.boxes, "xmp")
        subs == file.boxes[moov].canon
    IN IF moov = 0 THEN [err |-> TRUE, exif |-> NONE, iptc |-> NONE, xmp |-> NONE]
       ELSE [err |-> FALSE, exif |-> EXIFOf(subs), iptc |-> NONE,
             xmp |-> IF top # 0 THEN file.boxes[top].val
                     ELSE IF HasSub(subs, "XMP") THEN Head(FirstSub(subs, "XMP")).ifd ELSE NONE]

-----------------------------------------------------------------------------
(* What the reader keeps of the EXIF as it is: the stream of CMT1.         *)
RawEXIF(file) ==
    LET e == Extract(file).exif
    IN IF e = NONE THEN NONE ELSE [e EXCEPT !.exif = NONE, !.gps = NONE]

-----------------------------------------------------------------------------
(* Inject: the Canon box.                                                  *)

(* addIFDBox, removes, sameStream: own is the IFD to write in order.       *)
RemovesNever(subs, s, own, order) == FALSE \* Faulty: what is no longer in the EXIF stays.
Removes(subs, s, own, order) == own = NONE /\ s.order = order /\ HasSub(subs, "CMT1")
WithIFD(subs, s, own, order, len) ==
    IF Removes(subs, s, own, order) THEN <<>>
    ELSE IF own # NONE /\ ~(s.ifd = own /\ s.order = order) THEN <<Sub(s.t, own, order, len[own])>>
    ELSE <<s>>

(* rebuildUUIDContent.                                                     *)
Rebuilt(subs, s, e, x, len) ==
    CASE s.t = "CMT1" /\ e # NONE -> <<Sub("CMT1", e.ifd0, e.order, len[e.ifd0])>>
      [] s.t = "CMT2" /\ e # NONE -> WithIFD(subs, s, e.exif, e.order, len)
      [] s.t = "CMT4" /\ e # NONE -> WithIFD(subs, s, e.gps, e.order, len)
      [] s.t = "XMP" /\ x # NONE -> <<Sub("XMP", x, s.order, len[x])>>
      [] OTHER -> <<s>>

(* insertMissingCMT2, finish: CMT2 after CMT1, CMT4 after the last, CMT1.  *)
LastOf(subs, types) ==
    LET of == {n \in DOMAIN subs : subs[n].t \in types}
    IN IF of = {} THEN Len(subs) ELSE CHOOSE n \in of : \A k \in of : k <= n
Inserted(subs, at, s) == SubSeq(subs, 1, at) \o <<s>> \o SubSeq(subs, at + 1, Len(subs))
CMTTypes == {"CMT1", "CMT2", "CMT3", "CMT4"}
WithMissing(subs, old, e, len) ==
    LET cmt1 == Sub("CMT1", e.ifd0, e.order, len[e.ifd0])
        cmt2 == Sub("CMT2", e.exif, e.order, len[e.exif])
        cmt4 == Sub("CMT4", e.gps, e.order, len[e.gps])
        lacks2 == e.exif # NONE /\ ~HasSub(old, "CMT2")
        s1 == IF lacks2 /\ HasSub(old, "CMT1") THEN Inserted(subs, LastOf(subs, {"CMT1"}), cmt2) ELSE subs
        s2 == IF e.gps # NONE /\ ~HasSub(old, "CMT4") THEN Inserted(s1, LastOf(s1, CMTTypes), cmt4) ELSE s1
        s3 == IF HasSub(old, "CMT1") THEN s2 ELSE Append(s2, cmt1)
    IN IF lacks2 /\ ~HasSub(old, "CMT1") THEN Append(s3, cmt2) ELSE s3
NewCanon(subs, e, x, len) ==
    LET kept == FlattenSeq([n \in DOMAIN subs |-> Rebuilt(subs, subs[n], e, x, len)])
    IN IF e = NONE THEN kept ELSE WithMissing(kept, subs, e, len)

-----------------------------------------------------------------------------
(* Inject: the boxes, and the chunk offsets.                               *)

(* planEdits: the moov, and the XMP box replaced or put after the moov, in *)
(* the order of the file.                                                  *)
XMPBox(x, len) == [Box("xmp", <<Bytes!Run(x, 16 + len[x])>>) EXCEPT !.val = x]
NewMoov(b, e, x, len) == [b EXCEPT !.canon = IF b.hasCanon THEN NewCanon(@, e, x, len) ELSE @]
Edits(boxes, e, x, len) ==
    LET moov == FirstBox(boxes, "moov")
        top == FirstBox(boxes, "xmp")
        grown == [end |-> EndOf(boxes, moov),
                  delta |-> BoxLen(NewMoov(boxes[moov], e, x, len)) - BoxLen(boxes[moov])]
        xmp == IF top = 0 THEN [end |-> EndOf(boxes, moov), delta |-> BoxLen(XMPBox(x, len))]
               ELSE [end |-> EndOf(boxes, top), delta |-> BoxLen(XMPBox(x, len)) - BoxLen(boxes[top])]
    IN IF x = NONE THEN <<grown>>
       ELSE IF top # 0 /\ top < moov THEN <<xmp, grown>> ELSE <<grown, xmp>>

(* chunkShift.apply: by the edits that end at or before it in the source.  *)
ByStep(off, edits) == \* Faulty: each edit is compared with the offset moved so far.
    FoldLeft(LAMBDA o, r : IF o >= r.end THEN o + r.delta ELSE o, off, edits)
Moved(off, edits) == FoldLeft(LAMBDA o, r : IF off >= r.end THEN o + r.delta ELSE o, off, edits)

(* relocateStco, relocateCo64.                                             *)
Relocated(b, edits) == [b EXCEPT !.chunks = [k \in DOMAIN @ |-> [@[k] EXCEPT !.off = Moved(@, edits)]]]
Overflows(b) == \E k \in DOMAIN b.chunks : ~b.chunks[k].wide /\ b.chunks[k].off > MaxFour
Stored(b) == [b EXCEPT !.chunks = [k \in DOMAIN @ |->
                [@[k] EXCEPT !.off = IF b.chunks[k].wide THEN @ ELSE @ % (MaxFour + 1)]]]

(* streamEdits.                                                            *)
Edited(boxes, e, x, len) ==
    LET moov == FirstBox(boxes, "moov")
        top == FirstBox(boxes, "xmp")
    IN FlattenSeq([n \in DOMAIN boxes |->
          IF n = moov
          THEN <<Relocated(NewMoov(boxes[n], e, x, len), Edits(boxes, e, x, len))>>
               \o (IF x # NONE /\ top = 0 THEN <<XMPBox(x, len)>> ELSE <<>>)
          ELSE IF n = top /\ x # NONE THEN <<XMPBox(x, len)>>
          ELSE <<boxes[n]>>])

Inject(file, e, x, len) ==
    LET moov == FirstBox(file.boxes, "moov")
        boxes == Edited(file.boxes, e, x, len)
    IN IF e = NONE /\ x = NONE THEN [err |-> FALSE, file |-> file]
       ELSE IF \/ moov = 0 \/ (e # NONE /\ ~file.boxes[moov].hasCanon)
               \/ Overflows(boxes[FirstBox(boxes, "moov")])
       THEN [err |-> TRUE, file |-> file]
       ELSE [err |-> FALSE, file |-> [file EXCEPT !.boxes = [k \in DOMAIN boxes |-> Stored(boxes[k])]]]

-----------------------------------------------------------------------------
(* What is not metadata: the boxes, the sub-boxes and what the chunks lead *)
(* to; and what a CR3 may hold.                                            *)

Rest(file) ==
    LET moov == file.boxes[FirstBox(file.boxes, "moov")]
    IN [boxes |-> SelectSeq(file.boxes, LAMBDA b : b.t \notin {"moov", "xmp"}),
        subs |-> SelectSeq(moov.canon, LAMBDA s : s.t \notin {"CMT1", "CMT2", "CMT4", "XMP"}),
        chunks |-> {<<k, Bytes!At(Runs(file), moov.chunks[k].off)>> : k \in DOMAIN moov.chunks}]

Once(subs, t) == Len(FirstSub(subs, t)) <= 1
Valid(file) ==
    LET subs == file.boxes[FirstBox(file.boxes, "moov")].canon
    IN /\ \A t \in CMTTypes \cup {"XMP"} : Once(subs, t)
       /\ Len(SelectSeq(file.boxes, LAMBDA b : b.t = "xmp")) <= 1
       /\ \A n \in DOMAIN subs : subs[n].t \in {"CMT2", "CMT4"} => \E k \in 1..n : subs[k].t = "CMT1"
=============================================================================
