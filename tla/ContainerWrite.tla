--------------------------- MODULE ContainerWrite ---------------------------
(***************************************************************************)
(* The writing of metadata into a PNG, a WebP, a HEIF or a CR3 (write.go,  *)
(* write_plan.go and the Inject of each format): read a file, set some of  *)
(* its segments, write it in place or into another file of its kind, and   *)
(* again.  What a segment holds is one value; an EXIF in a CR3 is the      *)
(* record of its IFDs.                                                     *)
(***************************************************************************)
EXTENDS Integers, Sequences, FiniteSets

CONSTANTS NONE,       \* no segment
          Files,      \* the files of each kind, "png", "webp", "heif" or "cr3"
          Sets,       \* for each kind, what one call may set
          Len_,       \* the length of each value
          MaxWrites,  \* bound: the number of writes
          MaxRIFF, MaxFour, MaxID

PNG == INSTANCE PNGFile
WebP == INSTANCE WebPFile
HEIF == INSTANCE HEIFFile
CR3 == INSTANCE CR3File

VARIABLES kind,     \* the kind of the file
          file,     \* the file
          pc,       \* "closed", "open": read into a Metadata, "stopped"
          raw,      \* the segments as they were read
          held,     \* the segments of the Metadata
          modified, \* the segments that were set
          asked,    \* what the last write was to store, NONE where it was nothing
          carried,  \* the segments the last write gave as they were read
          before,   \* the file the last write started from
          refused,  \* the last write returned an error
          writes    \* the writes so far

vars == <<kind, file, pc, raw, held, modified, asked, carried, before, refused, writes>>

Segments == {"exif", "iptc", "xmp"}
Nothing == [s \in Segments |-> NONE]

Extract(f) ==
    CASE kind = "png" -> PNG!Extract(f)
      [] kind = "webp" -> WebP!Extract(f)
      [] kind = "heif" -> HEIF!Extract(f)
      [] kind = "cr3" -> CR3!Extract(f)

Init ==
    /\ kind \in DOMAIN Files /\ file \in Files[kind] /\ before = file
    /\ pc = "closed" /\ raw = Nothing /\ held = Nothing /\ modified = {} /\ asked = Nothing
    /\ carried = {} /\ refused = FALSE /\ writes = 0

(* Read.                                                                   *)
Read ==
    /\ pc = "closed" /\ writes < MaxWrites
    /\ \E got \in {Extract(file)} :
          IF got.err THEN pc' = "stopped" /\ UNCHANGED <<raw, held>>
          ELSE pc' = "open" /\ raw' = [s \in Segments |-> got[s]] /\ held' = raw'
    /\ modified' = {}
    /\ UNCHANGED <<kind, file, asked, carried, before, refused, writes>>

(* A setter changes every form of its field that the format can carry, and *)
(* no IPTC where there is none; a caller may also clear a segment.         *)
Set ==
    /\ pc = "open" /\ modified = {}
    /\ \E values \in Sets[kind] :
          LET set == {s \in DOMAIN values : s = "iptc" => raw.iptc # NONE}
          IN /\ held' = [s \in Segments |-> IF s \in set THEN values[s] ELSE held[s]]
             /\ modified' = set
    /\ UNCHANGED <<kind, file, pc, raw, asked, carried, before, refused, writes>>

-----------------------------------------------------------------------------
(* planWrite, encodeMetadata.                                              *)

Held == {s \in Segments : raw[s] # NONE}
Encoded(all) == {s \in Segments : held[s] # NONE /\ (all \/ s \in modified \/ raw[s] = NONE)}
Carried(all) == IF all THEN {} ELSE Held \ Encoded(all)
(* A segment that is not encoded is given as the bytes that were read.     *)
RawOf(f, s) == IF kind = "cr3" /\ s = "exif" THEN CR3!RawEXIF(f) ELSE raw[s]
Payloads(f, all) == [s \in Segments |-> IF s \in Encoded(all) THEN held[s] ELSE RawOf(f, s)]

Injected(dest, p, keep) ==
    CASE kind = "png" -> PNG!InjectKeeping(dest, p.exif, p.iptc, p.xmp, keep)
      [] kind = "webp" -> WebP!Inject(dest, p.exif, p.xmp, Len_)
      [] kind = "heif" -> HEIF!Inject(dest, p.exif, p.xmp, Len_)
      [] kind = "cr3" -> CR3!Inject(dest, p.exif, p.xmp, Len_)

Wrote(dest, kept, result) ==
    /\ before' = dest /\ carried' = kept
    /\ file' = result.file /\ refused' = result.err
    /\ asked' = [s \in Segments |-> IF held[s] # NONE THEN held[s] ELSE raw[s]]
    /\ pc' = "closed" /\ writes' = writes + 1
    /\ UNCHANGED <<kind, raw, held, modified>>

(* Write to the image that was read; nothing set copies it as it is.       *)
Write ==
    /\ pc = "open"
    /\ IF Encoded(FALSE) = {} THEN Wrote(file, {}, [err |-> FALSE, file |-> file])
       ELSE Wrote(file, Carried(FALSE), Injected(file, Payloads(file, FALSE), Carried(FALSE)))

(* Write to another image: every segment of the Metadata.                  *)
WriteInto ==
    /\ pc = "open"
    /\ \E dest \in Files[kind] : Wrote(dest, {}, Injected(dest, Payloads(file, TRUE), {}))

Next == Read \/ Set \/ Write \/ WriteInto
Spec == Init /\ [][Next]_vars

-----------------------------------------------------------------------------
(* Properties.                                                             *)

Done == pc = "closed" /\ writes > 0 /\ ~refused

(* What was set, and what was left alone, is what the next read of the     *)
(* file gives, whatever was in the file before and however many times it   *)
(* was written: the injector and the extractor of a format agree on which  *)
(* chunk, item or box speaks for a segment.  An IPTC is stored only where  *)
(* there is one.  Of the EXIF of a CR3 that is not set, while the XMP is,  *)
(* only the IFD0 is sure to be there again.                                *)
CarriedInParts == kind = "cr3" /\ "exif" \in carried
ReadsBack ==
    Done => \A got \in {Extract(file)} :
               /\ ~got.err
               /\ asked.xmp # NONE => got.xmp = asked.xmp
               /\ asked.exif # NONE =>
                    IF CarriedInParts THEN got.exif.ifd0 = asked.exif.ifd0 ELSE got.exif = asked.exif
               /\ asked.iptc # NONE /\ Extract(before).iptc # NONE => got.iptc = asked.iptc

(* What a write does not encode it writes from the raw bytes that Read     *)
(* kept, which equal the source's (write_plan.go): it is read as before.   *)
CarriedKept ==
    Done => \A s \in carried \ {"iptc"} : asked[s] # NONE => Extract(file)[s] = asked[s]

(* Every chunk, box and item that is not metadata keeps its place, and     *)
(* every offset into the file, of an item or of a chunk of a track, leads  *)
(* to the bytes it led to before the write moved them.                     *)
RestOf(f) ==
    CASE kind = "png" -> PNG!Rest(f)
      [] kind = "webp" -> WebP!Rest(f)
      [] kind = "heif" -> HEIF!Rest(f)
      [] kind = "cr3" -> CR3!Rest(f)
RestKept == Done => RestOf(file) = RestOf(before)

(* A well-formed file stays one: one chunk of a kind, headers that state   *)
(* what follows them, sizes that add up and offsets inside the file.       *)
ValidOf(f) ==
    CASE kind = "png" -> PNG!Valid(f)
      [] kind = "webp" -> WebP!Valid(f)
      [] kind = "heif" -> HEIF!Valid(f)
      [] kind = "cr3" -> CR3!Valid(f)
WellFormed == Done /\ ValidOf(before) => ValidOf(file)
=============================================================================
