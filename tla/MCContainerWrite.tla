-------------------------- MODULE MCContainerWrite --------------------------
(* Instances of ContainerWrite for TLC.                                    *)
EXTENDS ContainerWrite, TLC

MCLen == "E0" :> 3 @@ "E1" :> 6 @@ "X0" :> 4 @@ "X1" :> 5 @@ "a0" :> 4 @@ "a1" :> 3 @@ "b0" :> 5
         @@ "b1" :> 9 @@ "g0" :> 2 @@ "m0" :> 3

Both == [exif |-> "E1", xmp |-> "X1"]
AllSets == {Both, [exif |-> "E1"], [xmp |-> "X1"], [xmp |-> "X0"], [exif |-> NONE], [iptc |-> "I1", xmp |-> "X1"]}

-----------------------------------------------------------------------------
Text(t, key, is, v) == [PNG!Chunk(t) EXCEPT !.key = key, !.is = is, !.val = v]
IHDR == PNG!Chunk("IHDR")
IDAT == PNG!Chunk("IDAT")
IEND == PNG!Chunk("IEND")
Profiled(key, is, v) == Text("zTXt", key, is, v)
PNGs == {[chunks |-> c] : c \in {
    <<IHDR, IDAT, IEND>>,
    <<IHDR, PNG!EXIfChunk("E0"), PNG!XMPChunk("X0"), IDAT, IEND, PNG!Chunk("tail")>>,
    <<IHDR, Profiled("exif", "tiff", "E0"), Profiled("iptc", "iim", "I0"), IDAT, Text("tEXt", "other", "none", NONE), IEND>>,
    <<IHDR, Profiled("app1", "xmp", "X0"), IDAT, PNG!EXIfChunk("E0"), Profiled("app1", "tiff", "E1"), IEND>>,
    <<IHDR, PNG!EXIfChunk("E0"), PNG!EXIfChunk("E1"), PNG!XMPChunk("X0"), IDAT, PNG!XMPChunk("X1"), IEND>>,
    <<IHDR, PNG!XMPChunk("X0"), Text("tEXt", "xmp", "none", "X1"), IDAT, PNG!Chunk("rest")>>,
    <<IHDR, Profiled("exif", "none", NONE), PNG!EXIfChunk("E0"), IDAT>>,
    <<IHDR, [PNG!XMPChunk("X0") EXCEPT !.bad = TRUE], IDAT, IEND>>,
    <<IHDR, PNG!Chunk("huge")>>,
    <<IDAT, PNG!EXIfChunk("E0"), IEND>>}}

-----------------------------------------------------------------------------
Image(t, n, canvas, alpha) ==
    [WebP!Chunk(t, n) EXCEPT !.head = [ok |-> TRUE, canvas |-> canvas, alpha |-> alpha]]
VP8X(f) == [WebP!Chunk("VP8X", 10) EXCEPT !.vp8x = f]
Features(e, x, i, a, c) ==
    [exif |-> e, xmp |-> x, iccp |-> i, alpha |-> FALSE, anim |-> a, canvas |-> c]
With(t, v) == [WebP!Chunk(t, MCLen[v]) EXCEPT !.val = v]
RIFF(chunks) == [riff |-> WebP!BodyLen(chunks), chunks |-> chunks]
WebPs == {RIFF(c) : c \in {
    <<Image("VP8L", 7, 5, TRUE)>>,
    <<WebP!Chunk("ALPH", 3), Image("VP8 ", 8, 4, FALSE), WebP!Chunk("other", 1)>>,
    <<VP8X(Features(TRUE, TRUE, TRUE, FALSE, 5)), WebP!Chunk("ICCP", 3), Image("VP8 ", 7, 5, FALSE),
      With("EXIF", "E0"), With("XMP ", "X0")>>,
    <<VP8X(Features(FALSE, FALSE, FALSE, TRUE, 9)), WebP!Chunk("ANIM", 6), WebP!Chunk("ANMF", 9), With("XMP0", "X0")>>,
    <<VP8X(Features(TRUE, FALSE, FALSE, FALSE, 5)), WebP!Chunk("other", 2), Image("VP8L", 7, 5, TRUE),
      With("XMP0", "X1"), With("EXIF", "E0"), With("XMP ", "X0"), With("EXIF", "E1")>>,
    <<Image("VP8 ", 8, 4, FALSE), With("XMP0", "X0"), With("XMP0", "X1"), WebP!Chunk("huge", 2), With("EXIF", "E0")>>,
    <<WebP!Chunk("VP8 ", 4), [WebP!Chunk("other", 3) EXCEPT !.cut = TRUE]>>,
    <<Image("VP8 ", 8, 4, FALSE), WebP!Chunk("stray", 3)>>,
    <<Image("VP8L", 60, 5, TRUE)>>}}

-----------------------------------------------------------------------------
(* Extents and chunks are first numbers of runs of the first mdat, then    *)
(* offsets; with a base the offsets count from the first run.              *)
Runs(is, len) == HEIF!Run(is, len)
Data == <<Runs("p1", 6), Runs("E0", 7), Runs("X0", 4), Runs("p2", 3)>>
Ext(runs) == [k \in DOMAIN runs |-> [off |-> runs[k], len |-> Data[runs[k]].len]]
Meta(items, offw, lenw, basew) ==
    [HEIF!NoMeta EXCEPT !.has = TRUE, !.items = items, !.primary = 1, !.offw = offw, !.lenw = lenw, !.basew = basew]
MetaBox(m) == [HEIF!Box("meta", <<>>) EXCEPT !.meta = m]
Moov(m, chunks) == [HEIF!Box("moov", <<>>) EXCEPT !.meta = m, !.chunks = chunks]
Chunk(run, wide) == [off |-> run, wide |-> wide]
Ftyp == HEIF!Box("ftyp", <<Runs("brand", 4)>>)
Mdat == HEIF!Box("mdat", Data)

HEIFOf(boxes, rest) ==
    LET n == CHOOSE k \in DOMAIN boxes : boxes[k].t = "mdat" /\ \A j \in 1..k - 1 : boxes[j].t # "mdat"
        start == HEIF!StartOf(boxes, n) + 8
        place(run) == start + HEIF!LenOf(SubSeq(boxes[n].data, 1, run - 1))
        located(it, basew) ==
            IF it.method = "idat" THEN it
            ELSE IF basew > 0 THEN [it EXCEPT !.base = start,
                        !.extents = [k \in DOMAIN @ |-> [@[k] EXCEPT !.off = place(@) - start]]]
            ELSE [it EXCEPT !.extents = [k \in DOMAIN @ |-> [@[k] EXCEPT !.off = place(@)]]]
        filled(b) == [b EXCEPT !.meta.items = [k \in DOMAIN @ |-> located(@[k], b.meta.basew)],
                               !.chunks = [k \in DOMAIN @ |-> [@[k] EXCEPT !.off = place(@)]]]
        all == [k \in DOMAIN boxes |-> filled(boxes[k])]
    IN [boxes |-> [k \in DOMAIN all |-> [all[k] EXCEPT !.size = IF all[k].open THEN 0 ELSE HEIF!BoxLen(all[k])]],
        rest |-> rest]

Image1 == HEIF!Item(1, "other", Ext(<<1, 4>>))
Exif2 == HEIF!Item(2, "Exif", Ext(<<2>>))
XMP3 == HEIF!Item(3, "mime", Ext(<<3>>))
InIdat(it, n) == [it EXCEPT !.method = "idat", !.extents = <<[off |-> 0, len |-> n]>>]
Split(it) == [it EXCEPT !.extents = <<[off |-> 2, len |-> 7], [off |-> 3, len |-> 4]>>]
HEIFs == {HEIFOf(f[1], f[2]) : f \in {
    <<<<Ftyp, MetaBox(Meta(<<Image1>>, 4, 4, 0)), Mdat>>, <<>>>>,
    <<<<Ftyp, MetaBox(Meta(<<Image1, Exif2, XMP3>>, 4, 4, 0)), Mdat>>, <<Runs("junk", 5)>>>>,
    <<<<Ftyp, Mdat, MetaBox(Meta(<<Image1, Exif2>>, 8, 4, 0)), HEIF!Box("free", <<Runs("f", 3)>>)>>, <<>>>>,
    <<<<Ftyp, MetaBox(Meta(<<HEIF!Item(1, "other", Ext(<<1>>)), XMP3>>, 4, 4, 4)), [Mdat EXCEPT !.open = TRUE]>>, <<>>>>,
    <<<<Ftyp, Moov(Meta(<<Image1, XMP3>>, 4, 4, 0), <<Chunk(1, FALSE), Chunk(4, TRUE)>>), Mdat>>, <<>>>>,
    <<<<Moov(HEIF!NoMeta, <<Chunk(4, FALSE)>>), MetaBox([Meta(<<Image1, InIdat(HEIF!Item(4, "Exif", <<>>), 7)>>, 4, 4, 0)
              EXCEPT !.idat = <<Runs("E0", 7)>>]), Moov(HEIF!NoMeta, <<Chunk(1, TRUE)>>), Mdat>>, <<>>>>,
    <<<<MetaBox(Meta(<<Image1, Split(Exif2)>>, 4, 4, 0)),
              HEIF!Box("mdat", <<Runs("p1", 6), Runs("E0", 7), Runs("E0", 4), Runs("p2", 3)>>)>>, <<>>>>,
    <<<<MetaBox([Meta(<<Image1, Exif2, [Exif2 EXCEPT !.id = 5, !.extents = Ext(<<3>>)],
              [XMP3 EXCEPT !.id = 6, !.placed = FALSE, !.extents = <<>>]>>, 4, 4, 0) EXCEPT !.primary = 5]), Mdat>>, <<>>>>,
    <<<<MetaBox(Meta(<<[Image1 EXCEPT !.here = FALSE], HEIF!Item(9, "other", Ext(<<4>>))>>, 4, 4, 0)), Mdat>>, <<>>>>,
    <<<<Ftyp, HEIF!Box("free", <<Runs("f", 70)>>), MetaBox(Meta(<<Image1>>, 4, 4, 0)), Mdat>>, <<>>>>,
    <<<<Ftyp, MetaBox(Meta(<<HEIF!Item(1, "other", <<[off |-> 1, len |-> 6]>>)>>, 0, 4, 8)), Mdat>>, <<>>>>,
    <<<<Ftyp, Mdat>>, <<>>>>}}

-----------------------------------------------------------------------------
CBox(t, data) == CR3!Box(t, data)
EXIF(ifd0, exif, gps) == [ifd0 |-> ifd0, order |-> "le", exif |-> exif, gps |-> gps]
CMT(t, ifd, order) == CR3!Sub(t, ifd, order, MCLen[ifd])
CMoov(subs, chunks) == [CBox("moov", <<>>) EXCEPT !.hasCanon = TRUE, !.canon = subs, !.chunks = chunks]
CXMP(x) == CR3!XMPBox(x, MCLen)
CMdat == CBox("mdat", <<Runs("p1", 6), Runs("p2", 3)>>)
CR3Of(boxes) ==
    LET n == CHOOSE k \in DOMAIN boxes : boxes[k].t = "mdat"
        place(run) == CR3!StartOf(boxes, n) + 8 + (run - 1) * 6
    IN [boxes |-> [k \in DOMAIN boxes |->
            [boxes[k] EXCEPT !.chunks = [j \in DOMAIN @ |-> [@[j] EXCEPT !.off = place(@)]]]]]
AllCMT == <<CMT("CMT1", "a0", "le"), CMT("CMT2", "b0", "le"), CMT("CMT3", "m0", "le"), CMT("CMT4", "g0", "le")>>
OneCMT == <<CMT("CMT1", "a0", "le"), CMT("CTBO", "m0", "le")>>
Stco == <<Chunk(1, FALSE), Chunk(2, TRUE)>>
FtypC == CBox("ftyp", <<Runs("brand", 4)>>)
CR3s == {CR3Of(b) : b \in {
    <<FtypC, CMoov(AllCMT, Stco), CXMP("X0"), CMdat>>,
    <<FtypC, CXMP("X0"), CMoov(AllCMT, Stco), CMdat>>,
    <<CMoov(AllCMT \o <<CMT("XMP", "X0", "le")>>, Stco), CBox("uuid", <<Runs("preview", 5)>>), CMdat>>,
    <<CMdat, CMoov(<<CMT("CMT1", "a0", "le"), CMT("CMT2", "b0", "be"), CMT("CMT4", "g0", "be")>>, Stco), CXMP("X1")>>,
    <<FtypC, CMoov(<<CMT("CMT2", "b0", "be"), CMT("CMT3", "m0", "le")>>, Stco), CMdat, CXMP("X0")>>,
    <<CBox("free", <<Runs("f", 130)>>), CMoov(AllCMT, Stco), CMdat>>,
    <<FtypC, CMoov(OneCMT, Stco), CMdat>>,
    <<FtypC, [CBox("moov", <<>>) EXCEPT !.chunks = Stco], CMdat, CXMP("X0")>>}}
EXIFSets == {[exif |-> e] : e \in {EXIF("a1", "b1", "g0"), EXIF("a0", "b0", NONE), EXIF("a1", NONE, "g0")}}
            \cup {[xmp |-> "X1"], [exif |-> EXIF("a1", "b1", "g0"), xmp |-> "X1"], [exif |-> EXIF("a0", "b0", NONE), xmp |-> "X1"]}

-----------------------------------------------------------------------------
MCFiles == [png |-> PNGs, webp |-> WebPs, heif |-> HEIFs, cr3 |-> CR3s]
MCSets == [png |-> AllSets, webp |-> AllSets, heif |-> AllSets, cr3 |-> EXIFSets]
(* A setter of the XMP alone, on a CR3 with an Exif and a GPS IFD.         *)
CarryFiles == [cr3 |-> CR3s]
CarrySets == [cr3 |-> {[xmp |-> "X1"]}]
=============================================================================
