------------------------------ MODULE PNGFile ------------------------------
(***************************************************************************)
(* The metadata of a PNG (png/png.go, png/rawprofile.go).  A file is the   *)
(* sequence of its chunks.  A chunk of text has a keyword: the one of XMP, *)
(* the one of a raw profile, or another.  A raw profile holds a TIFF, XMP, *)
(* IPTC or nothing that decodes.  What ends a file that is not whole is a  *)
(* chunk of its own: "rest" stands for bytes that cannot be followed,      *)
(* "huge" for a chunk over the limit, "tail" for what follows IEND.        *)
(***************************************************************************)
EXTENDS Integers, Sequences, FiniteSets, SequencesExt

CONSTANT NONE \* no payload

Chunk(t) == [t |-> t, key |-> "none", is |-> "none", val |-> NONE, bad |-> FALSE]
EXIfChunk(e) == [Chunk("eXIf") EXCEPT !.val = e]
XMPChunk(x) == [Chunk("iTXt") EXCEPT !.key = "xmp", !.val = x]

TextTypes == {"iTXt", "tEXt", "zTXt"}
Followed(c) == c.t \notin {"rest", "huge"}

(* profileIPTC, profileEXIF: what the payload of a raw profile is.         *)
ProfileIPTC(c) == IF c.key = "iptc" /\ c.is = "iim" THEN c.val ELSE NONE
ProfileEXIF(c) == IF c.key \in {"exif", "app1"} /\ c.is = "tiff" THEN c.val ELSE NONE
ProfileXMP(c) == IF c.key \in {"rawxmp", "app1"} /\ c.is = "xmp" THEN c.val ELSE NONE

-----------------------------------------------------------------------------
(* Extract.                                                                *)

FirstOf(old, new) == IF old # NONE THEN old ELSE new

(* addRawProfile, record: the first of each kind.                          *)
WithProfile(st, c) ==
    [st EXCEPT !.iptc = FirstOf(@, ProfileIPTC(c)),
               !.profEXIF = FirstOf(@, ProfileEXIF(c)),
               !.profXMP = FirstOf(@, ProfileXMP(c))]

(* processExtractChunk: the last eXIf, the first XMP of any kind of text.  *)
(* A chunk with a bad CRC, or XMP that cannot be inflated, is an error.    *)
WithChunk(st, c) ==
    CASE c.t = "eXIf" -> IF c.bad THEN [st EXCEPT !.err = TRUE] ELSE [st EXCEPT !.exif = c.val]
      [] c.t \in TextTypes ->
            IF c.bad THEN [st EXCEPT !.err = TRUE]
            ELSE WithProfile(IF c.key = "xmp" THEN [st EXCEPT !.xmp = FirstOf(@, c.val)] ELSE st, c)
      [] c.t = "IHDR" /\ c.bad -> [st EXCEPT !.err = TRUE]
      [] c.t = "huge" -> [st EXCEPT !.err = TRUE]
      [] c.t \in {"IEND", "rest"} -> [st EXCEPT !.done = TRUE]
      [] OTHER -> st

Extracted(chunks) ==
    FoldLeft(LAMBDA st, c : IF st.done \/ st.err THEN st ELSE WithChunk(st, c),
             [exif |-> NONE, xmp |-> NONE, iptc |-> NONE, profEXIF |-> NONE, profXMP |-> NONE,
              done |-> FALSE, err |-> FALSE], chunks)

Extract(file) ==
    LET st == Extracted(file.chunks)
    IN [err |-> st.err, exif |-> FirstOf(st.exif, st.profEXIF), iptc |-> st.iptc,
        xmp |-> FirstOf(st.xmp, st.profXMP)]

-----------------------------------------------------------------------------
(* Inject: e, i and x are the payloads, keep the segments left alone.      *)

(* scanOldMetadata: chunks of a kind up to IEND or what cannot be followed.*)
Walked(chunks) ==
    LET stops == {n \in DOMAIN chunks : chunks[n].t = "IEND" \/ ~Followed(chunks[n])}
    IN {n \in DOMAIN chunks : \A s \in stops : n < s}
IsXMPChunk(c) == c.t = "iTXt" /\ c.key = "xmp"
EXIFOld(chunks) == \E n \in Walked(chunks) : chunks[n].t = "eXIf"
XMPOld(chunks) == \E n \in Walked(chunks) : IsXMPChunk(chunks[n])

Emit(st, cs) == [st EXCEPT !.out = @ \o cs]
PutEXIF(st, e) == IF e = NONE \/ st.exifDone THEN st
                  ELSE Emit([st EXCEPT !.exifDone = TRUE], <<EXIfChunk(e)>>)
PutXMP(st, x) == IF x = NONE \/ st.xmpDone THEN st
                 ELSE Emit([st EXCEPT !.xmpDone = TRUE], <<XMPChunk(x)>>)

(* rawProfileSuperseded: a chunk of a kind is written in its place.        *)
Superseded(c, e, x) == \/ e # NONE /\ ProfileEXIF(c) # NONE
                       \/ x # NONE /\ ProfileXMP(c) # NONE

(* writeTextChunk.                                                         *)
PutText(st, c, e, i, x, keep) ==
    IF IsXMPChunk(c) /\ "xmp" \notin keep THEN PutXMP(st, x)
    ELSE IF Superseded(c, e, x) THEN st
    ELSE IF i # NONE /\ ProfileIPTC(c) # NONE
         THEN Emit(st, <<[c EXCEPT !.val = i, !.bad = @ /\ c.val = i]>>)
    ELSE Emit(st, <<c>>)

(* writeNewAfterIHDR: the kinds the source has no chunk for.               *)
AfterIHDR(st, e, x, old) ==
    LET st2 == IF old.exif THEN st ELSE PutEXIF(st, e)
    IN IF old.xmp THEN st2 ELSE PutXMP(st2, x)

(* injectOneChunk.                                                         *)
PutChunk(st, c, e, i, x, keep, old) ==
    CASE c.t = "rest" /\ st.ihdr -> [Emit(st, <<c>>) EXCEPT !.done = TRUE]
      [] c.t = "huge" \/ (c.t = "rest" /\ ~st.ihdr) -> [st EXCEPT !.err = TRUE]
      [] c.t = "eXIf" /\ "exif" \notin keep -> PutEXIF(st, e)
      [] c.t = "iTXt" \/ (c.t \in {"tEXt", "zTXt"} /\ \E p \in {e, i, x} : p # NONE) ->
            PutText(st, c, e, i, x, keep)
      [] c.t = "IEND" -> IF ~st.ihdr /\ (e # NONE \/ x # NONE) THEN [st EXCEPT !.err = TRUE]
                         ELSE [Emit(st, <<c>>) EXCEPT !.ended = TRUE]
      [] c.t = "IHDR" -> AfterIHDR([Emit(st, <<c>>) EXCEPT !.ihdr = TRUE], e, x, old)
      [] OTHER -> Emit(st, <<c>>)

(* What follows IEND is copied with it.                                    *)
PutNext(st, c, e, i, x, keep, old) ==
    IF st.done \/ st.err THEN st
    ELSE IF st.ended THEN Emit(st, <<c>>)
    ELSE PutChunk(st, c, e, i, x, keep, old)

InjectKeeping(file, e0, i0, x0, keep) ==
    LET e == IF "exif" \in keep THEN NONE ELSE e0
        i == IF "iptc" \in keep THEN NONE ELSE i0
        x == IF "xmp" \in keep THEN NONE ELSE x0
        old == [exif |-> EXIFOld(file.chunks), xmp |-> XMPOld(file.chunks)]
        st == FoldLeft(LAMBDA s, c : PutNext(s, c, e, i, x, keep, old),
                       [out |-> <<>>, exifDone |-> FALSE, xmpDone |-> FALSE, ihdr |-> FALSE,
                        ended |-> FALSE, done |-> FALSE, err |-> FALSE], file.chunks)
        whole == st.done \/ st.ended
    IN IF st.err \/ (~whole /\ ~st.ihdr /\ (e # NONE \/ x # NONE))
       THEN [err |-> TRUE, file |-> file]
       ELSE [err |-> FALSE,
             file |-> [file EXCEPT !.chunks = IF whole THEN st.out ELSE Append(st.out, Chunk("IEND"))]]

-----------------------------------------------------------------------------
(* What is not the metadata of this package, and what a PNG may hold.      *)

IsMetadata(c) == \/ c.t = "eXIf" \/ IsXMPChunk(c)
                 \/ c.t \in TextTypes /\ c.key \in {"exif", "app1", "rawxmp", "iptc"}
(* An IEND that the source lacked is added.                                *)
Rest(file) == SelectSeq(file.chunks, LAMBDA c : ~IsMetadata(c) /\ c.t # "IEND")

Valid(file) ==
    LET body == Walked(file.chunks)
        Of(P(_)) == {n \in body : P(file.chunks[n])}
    IN /\ file.chunks[1].t = "IHDR"
       /\ Cardinality(Of(LAMBDA c : c.t = "eXIf")) <= 1
       /\ Cardinality(Of(IsXMPChunk)) <= 1
       /\ \E n \in DOMAIN file.chunks : file.chunks[n].t = "IEND" \/ ~Followed(file.chunks[n])
=============================================================================
