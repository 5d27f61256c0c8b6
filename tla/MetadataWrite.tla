--------------------------- MODULE MetadataWrite ---------------------------
(***************************************************************************)
(* The life of a Metadata (metadata.go, read.go, write.go, write_plan.go): *)
(* Read fills it from an image, the setters and direct edits change it,    *)
(* and Write decides which segments it encodes from the parsed values and  *)
(* which it carries from the image it writes to.                           *)
(*                                                                         *)
(* Several Metadata and several goroutines that write share the image      *)
(* files.  A write is two steps, planWrite and the encoding and injection, *)
(* because m.mu is free in between; the image it reads is the one that was *)
(* open at the first step, and its output replaces the file as WriteFile   *)
(* does.  Pixels stand for everything of an image that is not metadata.    *)
(***************************************************************************)
EXTENDS Naturals, FiniteSets

CONSTANTS Scenes,      \* the worlds looked at, one record for each
          Class,       \* Class[f]: the container of f, the same for its whole life
          Original,    \* Original[f][s]: the form of segment s in f at the start, or None
          MaxCalls,    \* bound on API calls
          None         \* no segment, no value: nil

VARIABLES scene,  \* which of the worlds this is
          file,   \* file[f]: the image in f
          md,     \* md[m]: the Metadata m, or None
          job,    \* job[w]: the write goroutine w runs, or None
          calls,  \* API calls so far
          settled, \* <<m, f>>: m was written to f and neither changed since
          size    \* size[m]: whose pixel size the EXIF a setter made for m records, or None

vars == <<scene, file, md, job, calls, settled, size>>

Files == scene.files       \* the image files
Streamed == scene.streamed \* TIFF files whose metadata prefix is not the whole file
Mirrored == scene.mirrored \* files whose XMP copies the camera settings of the EXIF
Metas == scene.metas       \* the *Metadata values
Writers == scene.writers   \* goroutines that call Write
Fields == scene.fields     \* the fields the setters set
LazySets == scene.lazy     \* what Read is told to skip: WithoutEXIF, WithoutIPTC, WithoutXMP
DirectSegs == scene.direct \* segments callers edit through m.EXIF, m.IPTC and m.XMP
AssignSegs == scene.assign \* segments callers assign a new value to
Blank == scene.blank       \* containers NewMetadata is called for
Strip == scene.strip       \* the values of !PreserveUnknownSegments

Segs == {"EXIF", "IPTC", "XMP"}
Classes == {"JPEG", "PNG", "WEBP", "BMFF", "TIFF"}
New == "new"       \* the origin of a value no image held
Lost == "lost"     \* pixels that are not those of any image
Pending == "pending" \* the pixel size is left to the first write to a JPEG
Direct == "direct" \* an edit made through m.EXIF, m.IPTC or m.XMP

(* The segments each setter writes; "make" is one of the camera settings   *)
(* that are mirrored into the XMP.                                         *)
Reach == [caption |-> Segs, camera |-> {"EXIF", "XMP"},
          keywords |-> {"IPTC", "XMP"}, make |-> {"EXIF"}]

(* The forms of a segment: whole, malformed ("bad"); for an XMP, split in  *)
(* a standard packet and extended XMP, the same where the two cannot be    *)
(* merged ("loose"), or a standard packet alone, which may still link to   *)
(* the extended XMP ("linked") or not ("main").                            *)
Forms == {"whole", "bad", "split", "loose", "linked", "main"}
Edits == Fields \union {Direct}
BytesOf(c) == [of : c.files \union {New}, edits : SUBSET (c.fields \union {Direct}),
               encoded : BOOLEAN, form : Forms]
ValuesOf(c) == [of : c.files \union {New}, edits : SUBSET (c.fields \union {Direct}),
                form : {"whole", "linked", "main"}]
PlacesOf(c) == [file : c.files, write : 0..MaxCalls] \* a layout of the IFDs and image data of a TIFF
ImagesOf(c) == [seg : [Segs -> BytesOf(c) \union {None}], pixels : c.files \union {Lost},
                laid : PlacesOf(c)]
Bytes == BytesOf(scene)
Values == ValuesOf(scene)
Images == ImagesOf(scene)

ASSUME ClassAssumption == Class \in [DOMAIN Class -> Classes] /\ MaxCalls \in Nat
ASSUME OriginalAssumption ==
    None \notin Forms /\ \A f \in DOMAIN Class : \A s \in Segs :
        /\ Original[f][s] \in {None, "whole", "bad", "split", "loose"}
        /\ Original[f][s] \in {"split", "loose"} => s = "XMP" /\ Class[f] = "JPEG"
        /\ s = "IPTC" /\ Class[f] \in {"WEBP", "BMFF"} => Original[f][s] = None
        /\ s = "EXIF" /\ Class[f] = "TIFF" => Original[f][s] = "whole"
ASSUME SceneAssumption ==
    \A c \in Scenes :
        /\ c.files \subseteq DOMAIN Class /\ c.files \intersect {New, Lost, Pending, None} = {}
        /\ Cardinality({f \in c.files : Original[f]["XMP"] = "loose"}) <= 1
        /\ c.fields \subseteq DOMAIN Reach /\ None \notin c.metas
        /\ None \notin BytesOf(c) /\ None \notin ValuesOf(c) /\ None \notin ImagesOf(c)
        /\ c.blank \subseteq Classes /\ c.strip \subseteq BOOLEAN
        /\ c.direct \union c.assign \subseteq Segs /\ c.lazy \subseteq SUBSET Segs

Metadata == [fmt : Classes, raw : [Segs -> Bytes \union {None}], wire : Bytes \union {None},
             kept : BOOLEAN, parsed : [Segs -> Values \union {None}], opaque : SUBSET Segs,
             modified : SUBSET Segs, whole : BOOLEAN,
             seen : Images \union {None},  \* the image as Read found it
             due : [Segs -> SUBSET Edits], \* what the documentation promises Write to write
             assigned : SUBSET Segs]       \* segments the caller gave a new value
Jobs == [m : Metas, f : Files, r : Images, enc : SUBSET Segs, carry : SUBSET Segs,
         bypass : BOOLEAN, strip : BOOLEAN, id : 1..MaxCalls,
         at : Metadata, again : BOOLEAN]

NoSegs == [s \in Segs |-> None]

Init == /\ scene \in Scenes
        /\ file = [f \in Files |->
                     [seg |-> [s \in Segs |-> IF Original[f][s] = None THEN None
                                ELSE [of |-> f, edits |-> {}, encoded |-> FALSE,
                                      form |-> Original[f][s]]],
                      pixels |-> f, laid |-> [file |-> f, write |-> 0]]]
        /\ md = [m \in Metas |-> None]
        /\ job = [w \in Writers |-> None]
        /\ calls = 0
        /\ settled = {}
        /\ size = [m \in Metas |-> None]

-----------------------------------------------------------------------------
(* Read.                                                                   *)

(* What the extractor returns of the XMP of an image: extended XMP is      *)
(* merged only when the caller wants the XMP; what cannot be merged leaves *)
(* the standard packet without its link.                                   *)
RawXMP(b, wantXMP) ==
    CASE b = None -> None
      [] b # None /\ b.form = "split" ->
            [b EXCEPT !.form = IF wantXMP THEN "whole" ELSE "linked"]
      [] b # None /\ b.form = "loose" ->
            [b EXCEPT !.form = IF wantXMP THEN "main" ELSE "linked"]
      [] OTHER -> b

Wire(b) == IF b # None /\ b.form \in {"split", "loose"} THEN b ELSE None

Extract(i, wantXMP) == [i.seg EXCEPT !["XMP"] = RawXMP(@, wantXMP)]

Parse(b) == [of |-> b.of, edits |-> b.edits, form |-> b.form]
Encode(v) == [of |-> v.of, edits |-> v.edits, encoded |-> TRUE, form |-> v.form]

MetadataOf(f, lazy) ==
    LET raw == Extract(file[f], "XMP" \notin lazy)
        fails == {s \in Segs : raw[s] # None /\ raw[s].form = "bad"}
        skips == {s \in lazy : raw[s] # None}
    IN [fmt |-> Class[f], raw |-> raw, wire |-> Wire(file[f].seg["XMP"]),
        kept |-> /\ "XMP" \notin lazy
                 /\ raw["XMP"] # None /\ file[f].seg["XMP"].form = "loose",
        parsed |-> [s \in Segs |-> IF raw[s] = None \/ s \in skips \union fails
                                   THEN None ELSE Parse(raw[s])],
        opaque |-> skips \union (fails \intersect {"XMP"}),
        modified |-> {}, whole |-> f \notin Streamed, seen |-> file[f],
        due |-> [s \in Segs |-> {}], assigned |-> {}]

Call == calls < MaxCalls /\ calls' = calls + 1
Idle(m) == \A w \in Writers : job[w] # None => job[w].m # m
Unsettle(m) == settled' = {p \in settled : p[1] # m}

Read(m, f, lazy) ==
    /\ Call /\ Idle(m)
    /\ md' = [md EXCEPT ![m] = MetadataOf(f, lazy)]
    /\ size' = [size EXCEPT ![m] = None]
    /\ Unsettle(m)
    /\ UNCHANGED <<file, job>>

NewMetadata(m, c) ==
    /\ Call /\ Idle(m)
    /\ md' = [md EXCEPT ![m] =
                [fmt |-> c, raw |-> NoSegs, wire |-> None, kept |-> FALSE, parsed |-> NoSegs,
                 opaque |-> {}, modified |-> {}, whole |-> FALSE, seen |-> None,
                 due |-> [s \in Segs |-> {}], assigned |-> {}]]
    /\ size' = [size EXCEPT ![m] = None]
    /\ Unsettle(m)
    /\ UNCHANGED <<file, job>>

-----------------------------------------------------------------------------
(* The setters and direct edits, each under m.mu.                          *)

CanCarry(c, s) == s = "IPTC" => c \in {"JPEG", "TIFF"}

(* Faulty: a segment that was not loaded is created like one that is       *)
(* absent.                                                                 *)
EnsureOverOpaque(d, ss) ==
    [s \in Segs |-> IF s \in ss /\ d.parsed[s] = None /\ CanCarry(d.fmt, s)
                    THEN [of |-> New, edits |-> {}, form |-> "whole"] ELSE d.parsed[s]]

(* ensureEXIF, ensureIPTC, ensureXMP for the segments of ss.               *)
Ensure(d, ss) ==
    [s \in Segs |->
        IF s \in ss /\ d.parsed[s] = None /\ s \notin d.opaque /\ CanCarry(d.fmt, s)
        THEN [of |-> New, edits |-> {}, form |-> "whole"] ELSE d.parsed[s]]

(* exif.New: an EXIF made for a JPEG waits for the pixel size.  Every EXIF  *)
(* that was read is taken to have an Exif IFD, with the sizes it has.      *)
Sized(m, parsed) ==
    IF md[m].parsed["EXIF"] = None /\ parsed["EXIF"] # None
    THEN IF md[m].fmt = "JPEG" THEN Pending ELSE None ELSE size[m]

(* touch: only the segments that exist are marked.                         *)
Touched(parsed, ss) == {s \in ss : parsed[s] # None}

(* mirrorAndTouch: the XMP copy of a camera setting is updated when there  *)
(* is one, and never created.                                              *)
Mirror(d, fld, parsed) ==
    {s \in {"XMP"} : /\ fld = "make" /\ parsed["EXIF"] # None
                     /\ d.parsed[s] # None /\ d.parsed[s].of \in Mirrored}

Promised(d, fld) ==
    {s \in Reach[fld] : d.parsed[s] # None \/ (s \notin d.opaque /\ CanCarry(d.fmt, s))}

Set(m, fld) ==
    /\ Call /\ md[m] # None
    /\ LET d == md[m]
           parsed == Ensure(d, Reach[fld])
           ss == Touched(parsed, Reach[fld]) \union Mirror(d, fld, parsed)
       IN /\ md' = [md EXCEPT
            ![m].parsed = [s \in Segs |-> IF s \in ss
                             THEN [parsed[s] EXCEPT !.edits = @ \union {fld}] ELSE parsed[s]],
            ![m].modified = @ \union ss,
            ![m].due = [s \in Segs |-> IF s \in Promised(d, fld)
                                       THEN @[s] \union {fld} ELSE @[s]]]
          /\ size' = [size EXCEPT ![m] = Sized(m, parsed)]
    /\ Unsettle(m)
    /\ UNCHANGED <<file, job>>

MarkModified(m, ss) ==
    /\ Call /\ md[m] # None
    /\ md' = [md EXCEPT
            ![m].modified = @ \union ss,
            ![m].due = [s \in Segs |-> IF s \in ss /\ md[m].parsed[s] # None
                                       THEN @[s] \union (md[m].parsed[s].edits \intersect {Direct})
                                       ELSE @[s]]]
    /\ Unsettle(m)
    /\ UNCHANGED <<file, job, size>>

(* The caller edits m.EXIF, m.IPTC or m.XMP, or assigns a new, empty one;  *)
(* no lock is taken, so it keeps its own Writes out.                       *)
EditDirectly(m, s) ==
    /\ Call /\ md[m] # None /\ Idle(m)
    /\ md[m].parsed[s] # None
    /\ md' = [md EXCEPT ![m].parsed[s].edits = @ \union {Direct}]
    /\ Unsettle(m)
    /\ UNCHANGED <<file, job, size>>

Assign(m, s) ==
    /\ Call /\ md[m] # None /\ Idle(m)
    /\ md' = [md EXCEPT ![m].parsed[s] = [of |-> New, edits |-> {}, form |-> "whole"],
                        ![m].assigned = @ \union {s},
                        ![m].due[s] = {}]
    /\ size' = [size EXCEPT ![m] = IF s = "EXIF" THEN None ELSE @]
    /\ Unsettle(m)
    /\ UNCHANGED <<file, job>>

-----------------------------------------------------------------------------
(* planWrite.                                                              *)

Held(d) == {s \in Segs : d.raw[s] # None \/ (s = "XMP" /\ d.wire # None)}
Parsed(d) == {s \in Segs : d.parsed[s] # None}
(* Faulty: a created segment has to be held.                               *)
EncodeHeld(d) == d.modified \intersect Held(d) \intersect Parsed(d)

EncodeSet(d) == (d.modified \union (Segs \ Held(d))) \intersect Parsed(d)

(* The raw EXIF of a TIFF holds its layout.                                *)
SourceMatches(r, d, check, wantXMP) ==
    /\ \A s \in check : Extract(r, wantXMP)[s] = d.raw[s]
    /\ "XMP" \in check => Wire(r.seg["XMP"]) = d.wire
    /\ "EXIF" \in check /\ d.fmt = "TIFF" => d.seen # None /\ r.laid = d.seen.laid

(* Faulty: the image is not looked at.                                     *)
TrustSource(r, d, check) == TRUE

SourceHolds(r, d, check) ==
    \/ SourceMatches(r, d, check, TRUE)
    \/ /\ {"IPTC", "XMP"} \intersect d.opaque # {}
       /\ SourceMatches(r, d, check, "XMP" \notin d.opaque)

PlanWrite(c, r, d) ==
    LET enc == EncodeSet(d)
        carry == (IF c = "JPEG" THEN Segs ELSE Held(d)) \ enc
    IN IF carry = {} /\ enc # {}
       THEN [enc |-> enc, carry |-> {}, bypass |-> FALSE]
       ELSE IF ~SourceHolds(r, d, IF enc = {} THEN Segs ELSE carry)
       THEN [enc |-> Segs, carry |-> {}, bypass |-> FALSE]
       ELSE [enc |-> enc, carry |-> carry, bypass |-> enc = {}]

(* Faulty: no cross-format guard.                                          *)
BeginAnyFormat(w, m, f, strip) ==
    /\ Call /\ md[m] # None /\ job[w] = None
    /\ LET plan == PlanWrite(Class[f], file[f], md[m])
       IN job' = [job EXCEPT ![w] =
                    [m |-> m, f |-> f, r |-> file[f], enc |-> plan.enc, carry |-> plan.carry,
                     bypass |-> plan.bypass, strip |-> strip, id |-> calls + 1,
                     at |-> md[m], again |-> FALSE]]
    /\ UNCHANGED <<file, md, settled, size>>

(* Write up to planWrite, with its cross-format guard.                     *)
Begin(w, m, f, strip) ==
    /\ Call /\ md[m] # None /\ job[w] = None
    /\ Class[f] = "TIFF" => md[m].fmt = "TIFF"
    /\ LET plan == PlanWrite(Class[f], file[f], md[m])
       IN job' = [job EXCEPT ![w] =
                    [m |-> m, f |-> f, r |-> file[f], enc |-> plan.enc, carry |-> plan.carry,
                     bypass |-> plan.bypass, strip |-> strip, id |-> calls + 1,
                     at |-> md[m], again |-> <<m, f>> \in settled]]
    /\ UNCHANGED <<file, md, settled, size>>

-----------------------------------------------------------------------------
(* The encoders: the bytes handed to the container for each segment.       *)

EncodeEXIF(d, enc) ==
    IF "EXIF" \in enc /\ d.parsed["EXIF"] # None THEN Encode(d.parsed["EXIF"]) ELSE d.raw["EXIF"]

(* An IPTC without datasets encodes to nothing.                            *)
EncodeIPTC(d, enc) ==
    LET v == d.parsed["IPTC"]
    IN CASE "IPTC" \notin enc \/ v = None -> d.raw["IPTC"]
         [] "IPTC" \in enc /\ v # None /\ v.of = New /\ v.edits = {} -> None
         [] OTHER -> Encode(v)

(* Faulty: the wire frame goes to no container.                            *)
NoWire(d, c, enc) ==
    IF "XMP" \in enc /\ d.parsed["XMP"] # None THEN Encode(d.parsed["XMP"]) ELSE d.raw["XMP"]

(* The frame of extended XMP that was kept apart, and the wire frame, are  *)
(* only for a JPEG.                                                        *)
EncodeXMP(d, c, enc) ==
    LET v == d.parsed["XMP"]
    IN CASE "XMP" \in enc /\ v # None ->
                 IF d.kept /\ c = "JPEG" THEN [Encode(v) EXCEPT !.form = "loose"] ELSE Encode(v)
         [] ("XMP" \notin enc \/ v = None) /\ d.wire # None /\ c = "JPEG" -> d.wire
         [] OTHER -> d.raw["XMP"]

Payload(d, c, enc) ==
    [s \in Segs |-> CASE s = "EXIF" -> EncodeEXIF(d, enc)
                      [] s = "IPTC" -> EncodeIPTC(d, enc)
                      [] s = "XMP"  -> EncodeXMP(d, c, enc)]

(* resolveKeptExtended: the extended XMP that was kept apart is only in    *)
(* the file it came from.                                                  *)
Resolve(b, r) ==
    IF /\ b # None /\ b.form = "loose" /\ b.encoded
       /\ r.seg["XMP"] = None \/ r.seg["XMP"].form # "loose"
    THEN [b EXCEPT !.form = "main"] ELSE b

(* What the injector of each container makes of the segments of r: p is    *)
(* the payload, None to remove; keep are the segments left in place.       *)
InjectJPEG(r, p, keep) ==
    [s \in Segs |-> CASE s \in keep -> r.seg[s]
                      [] s \notin keep /\ s = "XMP" -> Resolve(p[s], r)
                      [] OTHER -> p[s]]

(* A PNG has no IPTC of its own: only an existing profile is rewritten.    *)
InjectPNG(r, p, keep) ==
    [s \in Segs |-> IF s \in keep \/ (s = "IPTC" /\ (p[s] = None \/ r.seg[s] = None))
                    THEN r.seg[s] ELSE p[s]]

InjectWebP(p) == [p EXCEPT !["IPTC"] = None]

(* HEIF, AVIF and CR3: a payload of None leaves what is there.             *)
InjectBMFF(r, p) ==
    [s \in Segs |-> IF s = "IPTC" THEN None ELSE IF p[s] = None THEN r.seg[s] ELSE p[s]]

Inject(c, r, p, keep) ==
    [r EXCEPT !.seg = CASE c = "JPEG" -> InjectJPEG(r, p, keep)
                        [] c = "PNG"  -> InjectPNG(r, p, keep)
                        [] c = "WEBP" -> InjectWebP(p)
                        [] c = "BMFF" -> InjectBMFF(r, p)]

(* tiffPrefixBytes: the layout and, when it is the whole file, the image   *)
(* data come from m.rawEXIF, and from r only when m holds none.            *)
Base(r, d) == IF d.raw["EXIF"] # None THEN d.seen ELSE r
Whole(d) == d.raw["EXIF"] # None => d.whole
LaidOut(r, d) == IF d.parsed["EXIF"] # None THEN d.parsed["EXIF"] ELSE Parse(Base(r, d).seg["EXIF"])

(* writeTIFF: the IFDs are laid out again from m.EXIF, whatever is in enc, *)
(* and the image data is copied from the prefix or from r at the offsets   *)
(* of the image m was read from; where r is too short for them the write   *)
(* is refused, which leaves the file alone.                                *)
WriteTIFF(r, d, enc, place) ==
    LET base == Base(r, d)
        whole == Whole(d)
        e == LaidOut(r, d)
        p == Payload(d, "TIFF", enc)
        Tag(s) == IF p[s] # None THEN p[s] ELSE IF e.of = New THEN None ELSE base.seg[s]
    IN IF d.parsed["EXIF"] = None /\ p["IPTC"] = None /\ p["XMP"] = None
       THEN IF whole THEN base ELSE r
       ELSE [seg |-> [s \in Segs |-> IF s = "EXIF" THEN Encode(e) ELSE Tag(s)],
             pixels |-> CASE e.of = New -> Lost
                          [] e.of # New /\ whole -> base.pixels
                          [] e.of # New /\ ~whole -> IF r.laid = base.laid THEN r.pixels ELSE Lost,
             laid |-> place]

Output(j, d) ==
    CASE j.bypass /\ ~j.strip -> j.r
      [] ~(j.bypass /\ ~j.strip) /\ Class[j.f] = "TIFF" ->
            WriteTIFF(j.r, d, j.enc, [file |-> j.f, write |-> j.id])
      [] OTHER -> Inject(Class[j.f], j.r, Payload(d, Class[j.f], j.enc), j.carry)

(* Faulty: a write that succeeds clears the marks.                         *)
FinishAndUnmark(w) ==
    /\ job[w] # None
    /\ LET j == job[w]
       IN /\ file' = [file EXCEPT ![j.f] = Output(j, md[j.m])]
          /\ settled' = settled \union {<<j.m, j.f>>}
          /\ md' = [md EXCEPT ![j.m].modified = {}]
    /\ job' = [job EXCEPT ![w] = None]
    /\ UNCHANGED <<calls, size>>

(* fillPixelSize: the size of the image the EXIF is first written to stays *)
(* in m.EXIF.  Every JPEG is taken to have a frame header.                 *)
Filled(j) == IF /\ Class[j.f] = "JPEG" /\ "EXIF" \in j.enc
                /\ md[j.m].parsed["EXIF"] # None /\ size[j.m] = Pending
             THEN j.f ELSE size[j.m]

(* encodeLocked and the injector, and the rename of WriteFile.  Stripping  *)
(* is refused where every chunk or box is needed.                          *)
Finish(w) ==
    /\ job[w] # None
    /\ LET j == job[w]
           refused == j.strip /\ Class[j.f] \notin {"JPEG", "TIFF"}
           others == {p \in settled : p[2] # j.f}
       IN /\ IF refused THEN UNCHANGED <<file, settled>>
             ELSE /\ file' = [file EXCEPT ![j.f] = Output(j, md[j.m])]
                  /\ settled' = IF md[j.m] = j.at THEN others \union {<<j.m, j.f>>} ELSE others
          /\ size' = [size EXCEPT ![j.m] = Filled(j)]
    /\ job' = [job EXCEPT ![w] = None]
    /\ UNCHANGED <<md, calls>>

Step == \/ \E m \in Metas, f \in Files, lazy \in LazySets : Read(m, f, lazy)
        \/ \E m \in Metas, c \in Blank : NewMetadata(m, c)
        \/ \E m \in Metas, fld \in Fields : Set(m, fld)
        \/ \E m \in Metas, s \in DirectSegs : MarkModified(m, {s}) \/ EditDirectly(m, s)
        \/ \E m \in Metas, s \in AssignSegs : Assign(m, s)
        \/ \E w \in Writers, m \in Metas, f \in Files, strip \in Strip : Begin(w, m, f, strip)
        \/ \E w \in Writers : Finish(w)

Next == Step /\ UNCHANGED scene
Spec == Init /\ [][Next]_vars

-----------------------------------------------------------------------------
(* Type invariant.  Only a JPEG splits its XMP (write.go, the wire frame); *)
(* WebP, HEIF and CR3 have no place for IPTC.                              *)
TypeOK ==
    /\ file \in [Files -> Images]
    /\ \A f \in Files : \A s \in Segs :
         /\ Class[f] # "JPEG" /\ file[f].seg[s] # None
                => file[f].seg[s].form \notin {"split", "loose"}
         /\ Class[f] \in {"WEBP", "BMFF"} => file[f].seg["IPTC"] = None
    /\ md \in [Metas -> Metadata \union {None}]
    /\ job \in [Writers -> Jobs \union {None}]
    /\ calls \in 0..MaxCalls
    /\ settled \subseteq Metas \X Files
    /\ size \in [Metas -> Files \union {Pending, None}]

(* A packet never links to extended XMP that is not in the file            *)
(* (resolveKeptExtended, encodeXMP with the wire frame).                   *)
LinkHolds == TypeOK /\ \A f \in Files : file[f].seg["XMP"] # None => file[f].seg["XMP"].form # "linked"

Refused(j) == j.strip /\ Class[j.f] \notin {"JPEG", "TIFF"}
Finished(w) == job[w] # None /\ job'[w] = None /\ ~Refused(job[w])
Takes(j, s) == CASE Class[j.f] \in {"JPEG", "TIFF"} -> TRUE
                 [] Class[j.f] = "PNG" -> s = "IPTC" => j.r.seg[s] # None
                 [] OTHER -> s # "IPTC"
OwnImage(j) == j.r = j.at.seen
Encoded(j) == "EXIF" \in j.enc /\ md[j.m].parsed["EXIF"] # None
Same(a, b) == a # None /\ b # None /\ a.of = b.of /\ a.edits = b.edits

(* The EXIF a TIFF is laid out from names no image data of the file, or    *)
(* names that of another picture, or of a layout that an earlier write     *)
(* replaced, when only the metadata of the TIFF was read.                  *)
NoImageData(r, d) == LaidOut(r, d).of = New
OtherPicture(r, d) ==
    d.raw["EXIF"] # None /\ (d.seen.pixels # r.pixels \/ (~d.whole /\ d.seen.laid # r.laid))
Misplaced(j, d) ==
    Class[j.f] = "TIFF" /\ d.fmt = "TIFF" /\ (NoImageData(j.r, d) \/ OtherPicture(j.r, d))

(* A write keeps the picture of the image it is given (doc.go: "The        *)
(* metadata and the image data are preserved"), unless a TIFF is laid out  *)
(* from an EXIF that does not describe that image: the Metadata of another *)
(* TIFF, the Metadata of a large TIFF that was written over since, or an   *)
(* EXIF that holds no image at all.  PictureOwn says it of all writes.     *)
PixelsKept == [][\A w \in Writers :
    LET j == job[w] IN
    Finished(w) /\ ~Misplaced(j, md[j.m]) => file'[j.f].pixels = j.r.pixels]_vars

(* Every file keeps its own picture, whatever is written to it (doc.go:    *)
(* "The metadata and the image data are preserved").  The code does not    *)
(* keep it: writeTIFF takes the offsets of the image data from m.rawEXIF.  *)
PictureOwn == \A f \in Files : file[f].pixels = f

(* The pixel size in an EXIF that a setter made is that of the image the   *)
(* EXIF is written to (fillPixelSize: "records the pixel dimensions of the *)
(* JPEG r").  The code records it once, for the first image.               *)
SizeOwn == [][\A w \in Writers :
    LET j == job[w] IN
    Finished(w) /\ Class[j.f] = "JPEG" /\ Encoded(j) /\ size[j.m] # None
        => size'[j.m] = j.f]_vars

(* Written to the image it was read from, a Metadata leaves every segment  *)
(* that was not modified as it is, byte for byte, malformed and unloaded   *)
(* ones and direct edits that were not marked included; a marked segment   *)
(* without a value stays too.  A TIFF keeps the content of its EXIF, when  *)
(* no setter runs during the write (doc.go, "Writing"; MarkModified).      *)
Unchanged(j) == {s \in Segs : \/ j.at.parsed[s] = None
                              \/ j.r.seg[s] # None /\ s \notin j.at.modified}
Carried == [][\A w \in Writers :
    LET j == job[w] IN
    Finished(w) /\ OwnImage(j) =>
        \A s \in Unchanged(j) : LET b == file'[j.f].seg[s] IN
            IF Class[j.f] = "TIFF" /\ s = "EXIF"
            THEN md[j.m] = j.at => Same(b, j.r.seg[s])
            ELSE b = j.r.seg[s]]_vars

(* Every value a setter was given, and every direct edit that was marked,  *)
(* before a write began is in its output, in every segment that holds it   *)
(* or was created for it and that the container has a place for, whatever  *)
(* image is written (metadata.go, "Each setter writes every form of its    *)
(* field").                                                                *)
Delivered == [][\A w \in Writers :
    LET j == job[w] IN
    Finished(w) => \A s \in Segs :
        Takes(j, s) /\ j.at.due[s] # {} =>
            /\ file'[j.f].seg[s] # None
            /\ j.at.due[s] \subseteq file'[j.f].seg[s].edits]_vars

(* A write changes what was edited, all of it, and nothing else.           *)
OnlyEdits == Carried /\ Delivered

(* A Metadata to which nothing was done gives back the image it was read   *)
(* from (doc.go, "gives back the image unchanged").                        *)
GivesBack == [][\A w \in Writers :
    LET j == job[w] IN
    /\ Finished(w) /\ OwnImage(j) /\ ~j.strip
    /\ j.at.modified = {} /\ Parsed(j.at) \subseteq Held(j.at)
    => file'[j.f] = j.r]_vars

(* A segment that was not loaded is never replaced by one made of the      *)
(* setters' values, unless the caller assigned one (options.go,            *)
(* WithoutXMP; ensureXMP).                                                 *)
OpaqueKept == [][\A w \in Writers :
    LET j == job[w] IN
    Finished(w) => \A s \in j.at.opaque \ j.at.assigned :
        Takes(j, s) => Same(file'[j.f].seg[s], j.at.raw[s])]_vars

(* Written to another image than the one it was read from, a Metadata      *)
(* writes every segment it holds (doc.go, "it writes every segment").      *)
CopiesAll == [][\A w \in Writers :
    LET j == job[w] IN
    Finished(w) /\ ~OwnImage(j) => \A s \in Segs :
        LET versions == {j.at.raw[s], j.at.parsed[s], md[j.m].parsed[s]} \ {None}
            v == j.at.parsed[s]
            empty == s = "IPTC" /\ v # None /\ v.of = New /\ v.edits = {}
        IN Takes(j, s) /\ (j.at.raw[s] # None \/ v # None) /\ ~empty =>
                \E b \in versions : Same(file'[j.f].seg[s], b)]_vars

(* The image a Metadata is written to is its own or another one, and it is *)
(* told apart by what it holds (sourceHolds).                              *)
Copies == GivesBack /\ CopiesAll

(* Writing the same Metadata to the same file again changes nothing, when  *)
(* neither changed in between, whichever image it was read from.           *)
Idempotent == [][\A w \in Writers :
    LET j == job[w] IN
    Finished(w) /\ j.again /\ md[j.m] = j.at /\ Class[j.f] # "TIFF" =>
        file'[j.f] = j.r]_vars

-----------------------------------------------------------------------------
(* The worlds in which a property holds, where it does not in all of them. *)

(* A TIFF that is larger than its metadata is written on from the image it *)
(* is written to when its EXIF was skipped and nothing else is there to    *)
(* write (writeTIFF streams it through), so that its own EXIF is not       *)
(* copied: the worlds looked at do not skip the EXIF of such a file.       *)
WholeReads == \A c \in Scenes : c.streamed = {} \/ \A lazy \in c.lazy : "EXIF" \notin lazy

(* A direct edit of the EXIF that was not marked reaches a TIFF all the    *)
(* same (writeTIFF lays the IFDs out from m.EXIF): where there is a TIFF,  *)
(* the worlds looked at change the EXIF with setters only.                 *)
SettersOnly ==
    \A c \in Scenes : (\E f \in c.files : Class[f] = "TIFF") => "EXIF" \notin c.direct \union c.assign

(* Where every file is a JPEG, or Read never skips the XMP.  The raw XMP   *)
(* of a JPEG that was read WithoutXMP keeps its link, and goes with it to  *)
(* a container that has no place for the extended XMP (write.go, encodeXMP *)
(* without the wire frame).                                                *)
LinkScenes ==
    \A c \in Scenes : \/ \A f \in c.files : Class[f] = "JPEG"
                      \/ \A lazy \in c.lazy : "XMP" \notin lazy
=============================================================================
