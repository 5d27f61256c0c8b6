------------------------------ MODULE WebPFile ------------------------------
(***************************************************************************)
(* The metadata of a WebP (webp/webp.go, webp/vp8x.go).  A file is the     *)
(* size its RIFF header states and its chunks.  A chunk is cut when the    *)
(* file ends before the bytes it declares; "huge" stands for a chunk that  *)
(* declares 2 GiB and "stray" for fewer than 8 bytes at the end.           *)
(***************************************************************************)
EXTENDS Integers, Sequences, FiniteSets, SequencesExt

CONSTANTS NONE,    \* no payload
          MaxRIFF  \* the largest size the RIFF header can state

NoFeature == [exif |-> FALSE, xmp |-> FALSE, iccp |-> FALSE, alpha |-> FALSE, anim |-> FALSE,
              canvas |-> 0]
NoImage == [ok |-> FALSE, canvas |-> 0, alpha |-> FALSE]
(* val: a payload; vp8x: what a VP8X chunk says; head: a decoded frame.    *)
Chunk(t, n) == [t |-> t, len |-> n, cut |-> FALSE, val |-> NONE, vp8x |-> NoFeature, head |-> NoImage]

VP8XSize == 10
ChunkLen(n) == 8 + n + (n % 2)
MetadataTypes == {"VP8X", "EXIF", "XMP ", "XMP0"}
KnownTypes == {"VP8 ", "VP8L", "VP8X", "ANIM", "ANMF", "ALPH", "ICCP", "EXIF", "XMP "}

-----------------------------------------------------------------------------
(* Extract: the last of each kind; "XMP\0" only where there is none yet.   *)

WithChunk(st, c) ==
    CASE c.t \in {"EXIF", "XMP ", "XMP0"} /\ c.cut -> [st EXCEPT !.err = TRUE]
      [] c.t = "EXIF" -> [st EXCEPT !.exif = c.val]
      [] c.t = "XMP " -> [st EXCEPT !.xmp = c.val]
      [] c.t = "XMP0" -> [st EXCEPT !.xmp = IF @ = NONE THEN c.val ELSE @]
      [] c.t = "stray" -> [st EXCEPT !.err = TRUE]
      [] OTHER -> st

Extract(file) ==
    LET st == FoldLeft(LAMBDA s, c : IF s.err THEN s ELSE WithChunk(s, c),
                       [exif |-> NONE, xmp |-> NONE, err |-> FALSE], file.chunks)
    IN [err |-> st.err, exif |-> st.exif, iptc |-> NONE, xmp |-> st.xmp]

-----------------------------------------------------------------------------
(* Inject.                                                                 *)

(* chunkWalker: ends at what cannot be followed.                           *)
Walked(chunks) ==
    LET stops == {n \in DOMAIN chunks : chunks[n].t \in {"huge", "stray"}}
    IN IF stops = {} THEN chunks
       ELSE SubSeq(chunks, 1, (CHOOSE n \in stops : \A k \in stops : n <= k) - 1)

(* copyOriginalChunks: with the size they have.                            *)
Originals(chunks) ==
    LET kept == SelectSeq(Walked(chunks), LAMBDA c : c.t \notin MetadataTypes)
    IN [n \in DOMAIN kept |-> [kept[n] EXCEPT !.cut = FALSE]]

(* captureVP8X: the last one that a known chunk or the end follows.        *)
Trusted(chunks, n) ==
    /\ chunks[n].t = "VP8X" /\ chunks[n].len >= VP8XSize /\ ~chunks[n].cut
    /\ (n = Len(chunks) \/ chunks[n + 1].t \in KnownTypes)
TrustedVP8X(chunks) == {n \in DOMAIN Walked(chunks) : Trusted(chunks, n)}
Captured(chunks) == chunks[CHOOSE n \in TrustedVP8X(chunks) : \A k \in TrustedVP8X(chunks) : k <= n].vp8x

(* stillImage: the first frame that decodes.                               *)
Images(chunks) == SelectSeq(chunks, LAMBDA c : c.t \in {"VP8 ", "VP8L"} /\ c.head.ok)
Holds(chunks, t) == \E n \in DOMAIN chunks : chunks[n].t = t
Still(chunks) ==
    [NoFeature EXCEPT !.canvas = Head(Images(chunks)).head.canvas,
                      !.alpha = Holds(chunks, "ALPH") \/ Head(Images(chunks)).head.alpha,
                      !.iccp = Holds(chunks, "ICCP")]

(* vp8xPayload, buildVP8XFlags: canvas and features of the source.         *)
Flagged(features, e, x) == [features EXCEPT !.exif = e # NONE, !.xmp = x # NONE]
FeaturesOld(chunks, e, x) == \* Faulty: the flags of the source are kept.
    IF TrustedVP8X(chunks) # {} THEN Captured(chunks) ELSE Flagged(NoFeature, e, x)
Features(chunks, e, x) ==
    LET kept == Originals(chunks)
    IN Flagged(IF TrustedVP8X(chunks) # {} THEN Captured(chunks)
               ELSE IF Images(kept) # <<>> THEN Still(kept)
               ELSE NoFeature, e, x)

(* sameAsXMPNul: the XMP to write is that of the first "XMP\0" chunk.      *)
NulXMP(chunks) == SelectSeq(Walked(chunks), LAMBDA c : c.t = "XMP0")
SameAsXMPNul(chunks, x) == /\ x # NONE /\ ~Holds(Walked(chunks), "XMP ")
                           /\ NulXMP(chunks) # <<>> /\ Head(NulXMP(chunks)).val = x
XMPFlag(chunks, x) == IF SameAsXMPNul(chunks, x) /\ TrustedVP8X(chunks) # {}
                      THEN Captured(chunks).xmp ELSE x # NONE

VP8XChunk(chunks, e, x) ==
    IF e = NONE /\ x = NONE /\ TrustedVP8X(chunks) = {} THEN <<>>
    ELSE <<[Chunk("VP8X", VP8XSize) EXCEPT !.vp8x = [Features(chunks, e, x) EXCEPT !.xmp = XMPFlag(chunks, x)]]>>
Payload(t, v, len) == IF v = NONE THEN <<>> ELSE <<[Chunk(t, len[v]) EXCEPT !.val = v]>>

(* planOutput: the chunks in the order write gives them.                   *)
Output(chunks, e, x, len) ==
    VP8XChunk(chunks, e, x) \o Originals(chunks) \o Payload("EXIF", e, len)
        \o Payload(IF SameAsXMPNul(chunks, x) THEN "XMP0" ELSE "XMP ", x, len)
BodyLen(chunks) == 4 + FoldLeft(LAMBDA sum, c : sum + ChunkLen(c.len), 0, chunks)

Inject(file, e, x, len) ==
    LET out == Output(file.chunks, e, x, len)
    IN IF BodyLen(out) > MaxRIFF THEN [err |-> TRUE, file |-> file]
       ELSE [err |-> FALSE, file |-> [file EXCEPT !.chunks = out, !.riff = BodyLen(out)]]

-----------------------------------------------------------------------------
(* What is not metadata, and what a WebP may hold.                         *)

Rest(file) == LET kept == Originals(file.chunks) IN [n \in DOMAIN kept |-> <<kept[n].t, kept[n].len>>]

(* The features of the extended header are those of the chunks.            *)
Tells(chunks, f) ==
    /\ f.exif = Holds(chunks, "EXIF")
    /\ Holds(chunks, "XMP0") \/ f.xmp = Holds(chunks, "XMP ")
    /\ f.iccp = Holds(chunks, "ICCP") /\ f.anim = Holds(chunks, "ANIM")
    /\ Images(chunks) # <<>> => f.canvas = Head(Images(chunks)).head.canvas
Valid(file) ==
    LET chunks == file.chunks
        Count(t) == Cardinality({n \in DOMAIN chunks : chunks[n].t = t})
    IN /\ file.riff = BodyLen(chunks)
       /\ \A n \in DOMAIN chunks : ~chunks[n].cut
       /\ Count("VP8X") <= 1 /\ Count("EXIF") <= 1 /\ Count("XMP ") + Count("XMP0") <= 1
       /\ Holds(chunks, "VP8X") => chunks[1].t = "VP8X" /\ Tells(chunks, chunks[1].vp8x)
       /\ ~Holds(chunks, "VP8X") => \A t \in {"EXIF", "XMP ", "XMP0"} : ~Holds(chunks, t)
=============================================================================
