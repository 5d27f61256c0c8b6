------------------------ MODULE MetadataWriteProofs ------------------------
(***************************************************************************)
(* What MetadataWrite promises, for every set of worlds that satisfies its *)
(* assumptions.                                                            *)
(***************************************************************************)
EXTENDS MetadataWrite, TLAPS

-----------------------------------------------------------------------------
(* The inductive invariant.                                                *)

(* What holds of every image in a file of container c.                     *)
ImageOK(i, c) ==
    /\ i \in Images
    /\ \A s \in {"EXIF", "IPTC"} : i.seg[s] # None => i.seg[s].form \in {"whole", "bad"}
    /\ c # "JPEG" /\ i.seg["XMP"] # None => i.seg["XMP"].form \notin {"split", "loose"}
    /\ c \in {"WEBP", "BMFF"} => i.seg["IPTC"] = None
    /\ c = "TIFF" => i.seg["EXIF"] # None /\ i.seg["EXIF"].form = "whole"

(* d holds what Read extracted of i; an XMP whose extended part was left   *)
(* out is not loaded.                                                      *)
ReadFrom(d, i) ==
    /\ ImageOK(i, d.fmt)
    /\ d.wire = Wire(i.seg["XMP"])
    /\ \/ d.raw = Extract(i, TRUE)
       \/ d.raw = Extract(i, FALSE) /\ (d.raw["XMP"] # None => "XMP" \in d.opaque)

(* A promise is an edit the value holds and the mark covers, and a segment *)
(* that was not loaded has no value unless the caller assigned one.        *)
MetaOK(d) ==
    /\ d \in Metadata
    /\ IF d.seen = None THEN d.raw = NoSegs /\ d.wire = None ELSE ReadFrom(d, d.seen)
    /\ \A s \in {"EXIF", "IPTC"} : d.parsed[s] # None => d.parsed[s].form = "whole"
    /\ \A s \in d.opaque : d.raw[s] # None /\ (s \notin d.assigned => d.parsed[s] = None)
    /\ \A s \in Segs : d.due[s] # {} =>
          s \in d.modified /\ d.parsed[s] # None /\ d.due[s] \subseteq d.parsed[s].edits

(* What setters and MarkModified of other goroutines make of a Metadata    *)
(* during a write: values only gain edits, a new value has one, and what   *)
(* Read found stays.                                                       *)
Later(a, d) ==
    /\ d.fmt = a.fmt /\ d.raw = a.raw /\ d.wire = a.wire /\ d.kept = a.kept
    /\ d.opaque = a.opaque /\ d.whole = a.whole /\ d.seen = a.seen /\ d.assigned = a.assigned
    /\ \A s \in Segs :
         IF a.parsed[s] # None
         THEN /\ d.parsed[s] # None
              /\ d.parsed[s].of = a.parsed[s].of /\ d.parsed[s].form = a.parsed[s].form
              /\ a.parsed[s].edits \subseteq d.parsed[s].edits
         ELSE d.parsed[s] # None => d.parsed[s].edits # {} /\ d.parsed[s].form = "whole"

Planned(j) ==
    LET plan == PlanWrite(Class[j.f], j.r, j.at)
    IN j.enc = plan.enc /\ j.carry = plan.carry /\ j.bypass = plan.bypass

(* The write j was planned for what it is given, and d is what its         *)
(* Metadata has become since.                                              *)
JobFits(j, d) ==
    /\ j \in Jobs
    /\ ImageOK(j.r, Class[j.f]) /\ MetaOK(j.at)
    /\ Class[j.f] = "TIFF" => j.at.fmt = "TIFF"
    /\ Planned(j)
    /\ MetaOK(d) /\ Later(j.at, d)

JobOK(j) == JobFits(j, md[j.m])

Inv ==
    /\ TypeOK
    /\ scene \in Scenes
    /\ \A f \in Files : ImageOK(file[f], Class[f])
    /\ \A m \in Metas : md[m] # None => MetaOK(md[m])
    /\ \A w \in Writers : job[w] # None => JobOK(job[w])

-----------------------------------------------------------------------------
(* Worlds, and what is extracted of an image.                              *)

LEMMA SceneFacts ==
    ASSUME scene \in Scenes
    PROVE  /\ Files \subseteq DOMAIN Class
           /\ New \notin Files /\ Lost \notin Files /\ None \notin Files
           /\ Fields \subseteq {"caption", "camera", "keywords", "make"}
           /\ LazySets \subseteq SUBSET Segs /\ Blank \subseteq Classes /\ Strip \subseteq BOOLEAN
           /\ DirectSegs \subseteq Segs /\ AssignSegs \subseteq Segs
           /\ None \notin Metas /\ None \notin Bytes /\ None \notin Values /\ None \notin Images
  BY SceneAssumption DEF Files, Fields, LazySets, Blank, Strip, DirectSegs, AssignSegs, Metas,
     Bytes, Values, Images, Reach

LEMMA FileClass == ASSUME scene \in Scenes, NEW f \in Files PROVE Class[f] \in Classes
  BY SceneFacts, ClassAssumption

LEMMA RawXMPFacts ==
    ASSUME scene \in Scenes, NEW b \in Bytes \union {None}, NEW want \in BOOLEAN
    PROVE  /\ RawXMP(b, want) \in Bytes \union {None}
           /\ b = None => RawXMP(b, want) = None
           /\ b # None => /\ Same(RawXMP(b, want), b)
                          /\ RawXMP(b, want).encoded = b.encoded
                          /\ RawXMP(b, want).form \notin {"split", "loose"}
           /\ b # None /\ b.form \notin {"split", "loose"} => RawXMP(b, want) = b
  BY SceneFacts DEF RawXMP, Same, Bytes, BytesOf, Forms

LEMMA ExtractFacts ==
    ASSUME scene \in Scenes, NEW i \in Images, NEW want \in BOOLEAN
    PROVE  /\ Extract(i, want) \in [Segs -> Bytes \union {None}]
           /\ \A s \in {"EXIF", "IPTC"} : Extract(i, want)[s] = i.seg[s]
           /\ Extract(i, want)["XMP"] = RawXMP(i.seg["XMP"], want)
           /\ \A s \in Segs : i.seg[s] = None <=> Extract(i, want)[s] = None
           /\ \A s \in Segs : i.seg[s] # None => Same(Extract(i, want)[s], i.seg[s])
<1>1. i.seg \in [Segs -> Bytes \union {None}]
  BY DEF Images, ImagesOf, Bytes
<1>2. /\ RawXMP(i.seg["XMP"], want) \in Bytes \union {None}
      /\ i.seg["XMP"] = None => RawXMP(i.seg["XMP"], want) = None
      /\ i.seg["XMP"] # None => Same(RawXMP(i.seg["XMP"], want), i.seg["XMP"])
  BY <1>1, RawXMPFacts DEF Segs
<1>3. Extract(i, want) = [i.seg EXCEPT !["XMP"] = RawXMP(i.seg["XMP"], want)]
  BY DEF Extract
<1> QED
  BY <1>1, <1>2, <1>3 DEF Segs, Same

LEMMA ParseFacts ==
    ASSUME scene \in Scenes, NEW b \in Bytes, b.form \in {"whole", "linked", "main"}
    PROVE  Parse(b) \in Values /\ Parse(b) # None /\ Parse(b).form = b.form /\ Same(Parse(b), b)
<1>1. Parse(b) \in Values
  BY DEF Parse, Values, ValuesOf, Bytes, BytesOf
<1>2. b # None /\ Parse(b) # None
  BY <1>1, SceneFacts
<1> QED
  BY <1>1, <1>2 DEF Parse, Same

LEMMA EncodeFacts ==
    ASSUME scene \in Scenes, NEW v \in Values
    PROVE  /\ Encode(v) \in Bytes /\ Encode(v) # None /\ v # None /\ Same(Encode(v), v)
           /\ Encode(v).form = v.form /\ Encode(v).encoded
<1>1. Encode(v) \in Bytes
  BY DEF Encode, Values, ValuesOf, Bytes, BytesOf, Forms
<1>2. v # None /\ Encode(v) # None
  BY <1>1, SceneFacts
<1> QED
  BY <1>1, <1>2 DEF Encode, Same

(* What Read makes of an image.                                            *)
LEMMA MetadataOfOK ==
    ASSUME scene \in Scenes, NEW f \in Files, NEW lazy \in SUBSET Segs,
           ImageOK(file[f], Class[f])
    PROVE  MetaOK(MetadataOf(f, lazy))
<1> DEFINE i == file[f]
           want == "XMP" \notin lazy
           raw == Extract(i, want)
           fails == {s \in Segs : raw[s] # None /\ raw[s].form = "bad"}
           skips == {s \in lazy : raw[s] # None}
           opaque == skips \union (fails \intersect {"XMP"})
           parsed == [s \in Segs |-> IF raw[s] = None \/ s \in skips \union fails
                                      THEN None ELSE Parse(raw[s])]
           d == MetadataOf(f, lazy)
<1>1. i \in Images /\ i.seg \in [Segs -> Bytes \union {None}]
  BY DEF ImageOK, Images, ImagesOf, Bytes
<1>2. /\ raw \in [Segs -> Bytes \union {None}]
      /\ \A s \in {"EXIF", "IPTC"} : raw[s] = i.seg[s]
      /\ raw["XMP"] = RawXMP(i.seg["XMP"], want)
  BY <1>1, ExtractFacts
<1>3. \A s \in Segs : raw[s] # None => raw[s].form \notin {"split", "loose"}
  <2>1. raw["XMP"] # None => raw["XMP"].form \notin {"split", "loose"}
    BY <1>1, <1>2, RawXMPFacts DEF Segs
  <2>2. \A s \in {"EXIF", "IPTC"} : raw[s] # None => raw[s].form \in {"whole", "bad"}
    BY <1>2 DEF ImageOK
  <2> QED
    BY <2>1, <2>2 DEF Segs
<1>4. \A s \in Segs : raw[s] # None /\ s \notin fails => raw[s].form \in {"whole", "linked", "main"}
  BY <1>2, <1>3 DEF Bytes, BytesOf, Forms
<1>5. parsed \in [Segs -> Values \union {None}]
  <2> SUFFICES ASSUME NEW s \in Segs
               PROVE  parsed[s] \in Values \union {None}
    OBVIOUS
  <2>1. CASE raw[s] = None \/ s \in skips \union fails
    BY <2>1
  <2>2. CASE ~(raw[s] = None \/ s \in skips \union fails)
    <3>1. raw[s] \in Bytes /\ raw[s].form \in {"whole", "linked", "main"}
      BY <2>2, <1>2, <1>4
    <3>2. parsed[s] = Parse(raw[s])
      BY <2>2
    <3> HIDE DEF raw, parsed, skips, fails
    <3> QED
      BY <3>1, <3>2, ParseFacts
  <2> QED
    BY <2>1, <2>2
<1>6. \A s \in {"EXIF", "IPTC"} : parsed[s] # None => parsed[s].form = "whole"
  <2> SUFFICES ASSUME NEW s \in {"EXIF", "IPTC"}, parsed[s] # None
               PROVE  parsed[s].form = "whole"
    OBVIOUS
  <2>1. s \in Segs /\ raw[s] # None /\ s \notin fails /\ parsed[s] = Parse(raw[s])
    BY DEF Segs
  <2>2. raw[s].form = "whole"
    BY <2>1, <1>2 DEF ImageOK
  <2> QED
    BY <2>1, <2>2 DEF Parse
<1>7. \A s \in opaque : s \in Segs /\ raw[s] # None /\ parsed[s] = None
  OBVIOUS
<1>8. /\ d.fmt = Class[f] /\ d.raw = raw /\ d.wire = Wire(i.seg["XMP"]) /\ d.parsed = parsed
      /\ d.opaque = opaque /\ d.modified = {} /\ d.seen = i /\ d.assigned = {}
      /\ d.due = [s \in Segs |-> {}]
  BY DEF MetadataOf
<1>9. Wire(i.seg["XMP"]) \in Bytes \union {None}
  BY <1>1 DEF Wire, Segs
<1>10. d \in Metadata
  <2>1. Class[f] \in Classes
    BY FileClass
  <2>2. opaque \in SUBSET Segs
    BY <1>7
  <2>3. [s \in Segs |-> {}] \in [Segs -> SUBSET Edits]
    OBVIOUS
  <2> HIDE DEF raw, opaque, parsed
  <2>4. raw \in [Segs -> Bytes \union {None}] /\ parsed \in [Segs -> Values \union {None}]
    BY <1>2, <1>5
  <2> QED
    BY <1>1, <1>9, <2>1, <2>2, <2>3, <2>4 DEF MetadataOf, Metadata, raw, parsed, opaque
<1>11. ReadFrom(d, i)
  <2>1. "XMP" \in lazy /\ raw["XMP"] # None => "XMP" \in opaque
    BY DEF Segs
  <2>2. want \in BOOLEAN /\ (want <=> "XMP" \notin lazy)
    OBVIOUS
  <2> HIDE DEF opaque
  <2>3. d.raw = Extract(i, TRUE) \/ (d.raw = Extract(i, FALSE) /\ "XMP" \in lazy)
    BY <1>8, <2>2
  <2> QED
    BY <1>8, <2>1, <2>3 DEF ReadFrom
<1>12. i # None
  BY <1>1, SceneFacts
<1> HIDE DEF i, raw, fails, skips, opaque, parsed, d
<1>13. \A s \in Segs : d.due[s] = {}
  BY <1>8
<1>14. MetaOK(d)
  BY <1>6, <1>7, <1>8, <1>10, <1>11, <1>12, <1>13 DEF MetaOK
<1> QED
  BY <1>14 DEF d

-----------------------------------------------------------------------------
(* The setters and the caller's own edits.                                 *)

Fresh == [of |-> New, edits |-> {}, form |-> "whole"]

WithField(d, fld) ==
    LET parsed == Ensure(d, Reach[fld])
        ss == Touched(parsed, Reach[fld]) \union Mirror(d, fld, parsed)
    IN [d EXCEPT !.parsed = [s \in Segs |-> IF s \in ss
                               THEN [parsed[s] EXCEPT !.edits = @ \union {fld}] ELSE parsed[s]],
                 !.modified = @ \union ss,
                 !.due = [s \in Segs |-> IF s \in Promised(d, fld) THEN @[s] \union {fld} ELSE @[s]]]

WithMark(d, ss) ==
    [d EXCEPT !.modified = @ \union ss,
              !.due = [s \in Segs |-> IF s \in ss /\ d.parsed[s] # None
                                      THEN @[s] \union (d.parsed[s].edits \intersect {Direct})
                                      ELSE @[s]]]

WithEdit(d, s) == [d EXCEPT !.parsed = [d.parsed EXCEPT ![s].edits = @ \union {Direct}]]
WithValue(d, s) == [d EXCEPT !.parsed = [@ EXCEPT ![s] = Fresh], !.assigned = @ \union {s},
                             !.due = [@ EXCEPT ![s] = {}]]

LEMMA Typed ==
    ASSUME NEW d \in Metadata
    PROVE  /\ d.fmt \in Classes /\ d.raw \in [Segs -> Bytes \union {None}]
           /\ d.wire \in Bytes \union {None} /\ d.kept \in BOOLEAN
           /\ d.parsed \in [Segs -> Values \union {None}] /\ d.opaque \in SUBSET Segs
           /\ d.modified \in SUBSET Segs /\ d.whole \in BOOLEAN /\ d.seen \in Images \union {None}
           /\ d.due \in [Segs -> SUBSET Edits] /\ d.assigned \in SUBSET Segs
  BY DEF Metadata

LEMMA FreshFacts ==
    ASSUME scene \in Scenes PROVE Fresh \in Values /\ Fresh # None
<1>1. Fresh \in Values
  BY DEF Fresh, Values, ValuesOf
<1> QED
  BY <1>1, SceneFacts

LEMMA WithFieldOK ==
    ASSUME scene \in Scenes, NEW d, MetaOK(d), NEW fld \in Fields
    PROVE  LET e == WithField(d, fld) IN
           /\ MetaOK(e) /\ Later(d, e) /\ d.modified \subseteq e.modified
           /\ \A s \in Segs : e.parsed[s] = d.parsed[s] \/ s \in e.modified
<1> DEFINE rs == Reach[fld]
           parsed == Ensure(d, rs)
           ss == Touched(parsed, rs) \union Mirror(d, fld, parsed)
           edited == [s \in Segs |-> IF s \in ss
                        THEN [parsed[s] EXCEPT !.edits = @ \union {fld}] ELSE parsed[s]]
           due == [s \in Segs |-> IF s \in Promised(d, fld) THEN d.due[s] \union {fld} ELSE d.due[s]]
           e == WithField(d, fld)
<1>1. d \in Metadata /\ fld \in Edits
  BY DEF MetaOK, Edits
<1>2. /\ d.parsed \in [Segs -> Values \union {None}] /\ d.due \in [Segs -> SUBSET Edits]
      /\ d.modified \in SUBSET Segs
  BY <1>1, Typed
<1>3. rs \in SUBSET Segs
  BY SceneFacts DEF Reach, Segs
<1>4. \A s \in Segs :
        /\ parsed[s] \in Values \union {None}
        /\ d.parsed[s] # None => parsed[s] = d.parsed[s]
        /\ d.parsed[s] = None /\ parsed[s] # None => parsed[s] = Fresh /\ s \in rs /\ s \notin d.opaque
  BY <1>2, FreshFacts DEF Ensure, Fresh
<1>5. ss \in SUBSET Segs /\ \A s \in ss : parsed[s] # None
  BY <1>2, <1>3, <1>4 DEF Touched, Mirror, Segs
<1>6. \A s \in rs : parsed[s] # None => s \in ss
  BY DEF Touched
<1>7. \A s \in Promised(d, fld) : s \in Segs /\ s \in ss
  BY <1>2, <1>3, <1>6, FreshFacts DEF Promised, Ensure, Fresh
<1>8. \A s \in Segs :
        /\ edited[s] \in Values \union {None}
        /\ edited[s] = None <=> parsed[s] = None
        /\ parsed[s] # None => /\ edited[s].of = parsed[s].of /\ edited[s].form = parsed[s].form
                               /\ parsed[s].edits \subseteq edited[s].edits
        /\ s \in ss => fld \in edited[s].edits
  <2> SUFFICES ASSUME NEW s \in Segs
               PROVE  /\ edited[s] \in Values \union {None}
                      /\ edited[s] = None <=> parsed[s] = None
                      /\ parsed[s] # None => /\ edited[s].of = parsed[s].of
                                             /\ edited[s].form = parsed[s].form
                                             /\ parsed[s].edits \subseteq edited[s].edits
                      /\ s \in ss => fld \in edited[s].edits
    OBVIOUS
  <2> HIDE DEF parsed, ss, rs
  <2>1. CASE s \in ss
    <3>1. parsed[s] \in Values
      BY <2>1, <1>4, <1>5
    <3>2. edited[s] = [parsed[s] EXCEPT !.edits = parsed[s].edits \union {fld}]
      BY <2>1
    <3>3. edited[s] \in Values
      BY <3>1, <3>2, <1>1 DEF Values, ValuesOf, Edits, Fields
    <3> QED
      BY <2>1, <3>1, <3>2, <3>3, <1>5, SceneFacts DEF Values, ValuesOf
  <2>2. CASE s \notin ss
    BY <2>2, <1>4
  <2> QED
    BY <2>1, <2>2
<1>9. e = [d EXCEPT !.parsed = edited, !.modified = d.modified \union ss, !.due = due]
  BY DEF WithField
<1> HIDE DEF parsed, ss, rs
<1>10. edited \in [Segs -> Values \union {None}] /\ due \in [Segs -> SUBSET Edits]
  BY <1>1, <1>2, <1>8
<1>11. /\ e.parsed = edited /\ e.modified = d.modified \union ss /\ e.due = due
       /\ e.fmt = d.fmt /\ e.raw = d.raw /\ e.wire = d.wire /\ e.kept = d.kept
       /\ e.opaque = d.opaque /\ e.whole = d.whole /\ e.seen = d.seen /\ e.assigned = d.assigned
  BY <1>1, <1>9 DEF Metadata
<1>12. e \in Metadata
  <2> HIDE DEF edited, due
  <2>1. d.modified \union ss \in SUBSET Segs
    BY <1>2, <1>5
  <2> QED
    BY <1>1, <1>9, <1>10, <2>1 DEF Metadata
<1>13. \A s \in Segs : due[s] # {} =>
         /\ s \in d.modified \union ss /\ edited[s] # None /\ due[s] \subseteq edited[s].edits
  <2> SUFFICES ASSUME NEW s \in Segs, due[s] # {}
               PROVE  /\ s \in d.modified \union ss /\ edited[s] # None
                      /\ due[s] \subseteq edited[s].edits
    OBVIOUS
  <2>1. d.due[s] # {} => /\ s \in d.modified /\ d.parsed[s] # None
                         /\ d.due[s] \subseteq d.parsed[s].edits
    BY DEF MetaOK
  <2>2. d.due[s] # {} => parsed[s] = d.parsed[s]
    BY <2>1, <1>4
  <2>3. CASE s \in Promised(d, fld)
    BY <2>1, <2>2, <2>3, <1>5, <1>7, <1>8
  <2>4. CASE s \notin Promised(d, fld)
    BY <2>1, <2>2, <2>4, <1>8
  <2> QED
    BY <2>3, <2>4
<1>14. \A s \in {"EXIF", "IPTC"} : edited[s] # None => edited[s].form = "whole"
  BY <1>4, <1>8 DEF MetaOK, Segs, Fresh
<1>15. \A s \in d.opaque : d.raw[s] # None /\ (s \notin d.assigned => edited[s] = None)
  BY <1>1, <1>4, <1>8, Typed DEF MetaOK
<1> HIDE DEF edited, due, e
<1>16. ReadFrom(d, d.seen) => ReadFrom(e, e.seen)
  BY <1>11 DEF ReadFrom
<1>17. MetaOK(e)
  BY <1>11, <1>12, <1>13, <1>14, <1>15, <1>16 DEF MetaOK
<1>18. Later(d, e)
  <2>1. \A s \in Segs : d.parsed[s] = None /\ edited[s] # None =>
                            edited[s].edits # {} /\ edited[s].form = "whole"
    BY <1>4, <1>6, <1>8 DEF Fresh
  <2> QED
    BY <2>1, <1>4, <1>8, <1>11 DEF Later
<1>19. \A s \in Segs : edited[s] = d.parsed[s] \/ s \in d.modified \union ss
  <2> SUFFICES ASSUME NEW s \in Segs, s \notin ss PROVE edited[s] = d.parsed[s]
    OBVIOUS
  <2>1. edited[s] = parsed[s]
    BY DEF edited
  <2>2. parsed[s] = None \/ parsed[s] = d.parsed[s]
    BY <1>4, <1>6
  <2> QED
    BY <1>4, <2>1, <2>2
<1> QED
  BY <1>11, <1>17, <1>18, <1>19 DEF e

LEMMA WithMarkOK ==
    ASSUME scene \in Scenes, NEW d, MetaOK(d), NEW ss \in SUBSET Segs
    PROVE  LET e == WithMark(d, ss) IN
           /\ MetaOK(e) /\ Later(d, e) /\ d.modified \subseteq e.modified /\ e.parsed = d.parsed
<1> DEFINE due == [s \in Segs |-> IF s \in ss /\ d.parsed[s] # None
                                  THEN d.due[s] \union (d.parsed[s].edits \intersect {Direct})
                                  ELSE d.due[s]]
           e == WithMark(d, ss)
<1>1. d \in Metadata
  BY DEF MetaOK
<1>2. /\ d.parsed \in [Segs -> Values \union {None}] /\ d.due \in [Segs -> SUBSET Edits]
      /\ d.modified \in SUBSET Segs
  BY <1>1, Typed
<1>3. e = [d EXCEPT !.modified = d.modified \union ss, !.due = due]
  BY DEF WithMark
<1>4. due \in [Segs -> SUBSET Edits]
  BY <1>2 DEF Edits
<1>5. /\ e.parsed = d.parsed /\ e.modified = d.modified \union ss /\ e.due = due
      /\ e.fmt = d.fmt /\ e.raw = d.raw /\ e.wire = d.wire /\ e.kept = d.kept
      /\ e.opaque = d.opaque /\ e.whole = d.whole /\ e.seen = d.seen /\ e.assigned = d.assigned
  BY <1>1, <1>3 DEF Metadata
<1>6. e \in Metadata
  <2> HIDE DEF due
  <2>1. d.modified \union ss \in SUBSET Segs
    BY <1>2
  <2> QED
    BY <1>1, <1>3, <1>4, <2>1 DEF Metadata
<1>7. \A s \in Segs : due[s] # {} =>
         /\ s \in d.modified \union ss /\ d.parsed[s] # None /\ due[s] \subseteq d.parsed[s].edits
  BY DEF MetaOK
<1> HIDE DEF due, e
<1>8. ReadFrom(d, d.seen) => ReadFrom(e, e.seen)
  BY <1>5 DEF ReadFrom
<1>9. MetaOK(e)
  BY <1>5, <1>6, <1>7, <1>8 DEF MetaOK
<1>10. Later(d, e)
  BY <1>5 DEF Later
<1> QED
  BY <1>5, <1>9, <1>10 DEF e

LEMMA WithEditOK ==
    ASSUME scene \in Scenes, NEW d, MetaOK(d), NEW t \in Segs, d.parsed[t] # None
    PROVE  /\ MetaOK(WithEdit(d, t)) /\ Later(d, WithEdit(d, t))
           /\ WithEdit(d, t).modified = d.modified
           /\ \A s \in Segs \ {t} : WithEdit(d, t).parsed[s] = d.parsed[s]
<1> DEFINE parsed == [d.parsed EXCEPT ![t].edits = @ \union {Direct}]
           e == WithEdit(d, t)
<1>1. d \in Metadata
  BY DEF MetaOK
<1>2. d.parsed \in [Segs -> Values \union {None}] /\ d.parsed[t] \in Values
  BY <1>1, Typed
<1>3. parsed = [d.parsed EXCEPT ![t] = [d.parsed[t] EXCEPT !.edits = d.parsed[t].edits \union {Direct}]]
  OBVIOUS
<1>4. [d.parsed[t] EXCEPT !.edits = d.parsed[t].edits \union {Direct}] \in Values
  BY <1>2 DEF Values, ValuesOf
<1>5. /\ parsed \in [Segs -> Values \union {None}] /\ parsed[t] # None
      /\ parsed[t].of = d.parsed[t].of /\ parsed[t].form = d.parsed[t].form
      /\ d.parsed[t].edits \subseteq parsed[t].edits
      /\ \A s \in Segs \ {t} : parsed[s] = d.parsed[s]
  BY <1>2, <1>3, <1>4, SceneFacts DEF Values, ValuesOf
<1>6. e = [d EXCEPT !.parsed = parsed]
  BY DEF WithEdit
<1> HIDE DEF parsed
<1>7. /\ e.parsed = parsed /\ e.modified = d.modified /\ e.due = d.due
      /\ e.fmt = d.fmt /\ e.raw = d.raw /\ e.wire = d.wire /\ e.kept = d.kept
      /\ e.opaque = d.opaque /\ e.whole = d.whole /\ e.seen = d.seen /\ e.assigned = d.assigned
  BY <1>1, <1>6 DEF Metadata
<1>8. e \in Metadata
  BY <1>1, <1>5, <1>6 DEF Metadata
<1> HIDE DEF e
<1>9. ReadFrom(d, d.seen) => ReadFrom(e, e.seen)
  BY <1>7 DEF ReadFrom
<1>10. \A s \in Segs : d.due[s] # {} => d.due[s] \subseteq parsed[s].edits /\ parsed[s] # None
  BY <1>5 DEF MetaOK
<1>11. \A s \in d.opaque : s \in Segs /\ (s \notin d.assigned => parsed[s] = None)
  BY <1>1, <1>5, Typed DEF MetaOK
<1>12. \A s \in {"EXIF", "IPTC"} : parsed[s] # None => parsed[s].form = "whole"
  BY <1>5 DEF MetaOK, Segs
<1>13. MetaOK(e)
  BY <1>7, <1>8, <1>9, <1>10, <1>11, <1>12 DEF MetaOK
<1>14. Later(d, e)
  BY <1>5, <1>7 DEF Later
<1> QED
  BY <1>5, <1>7, <1>13, <1>14 DEF e

LEMMA WithValueOK ==
    ASSUME scene \in Scenes, NEW d, MetaOK(d), NEW t \in Segs
    PROVE  LET e == WithValue(d, t) IN
           /\ MetaOK(e) /\ e.modified = d.modified
           /\ e.parsed[t] = Fresh /\ \A s \in Segs \ {t} : e.parsed[s] = d.parsed[s]
           /\ e.fmt = d.fmt /\ e.raw = d.raw /\ e.wire = d.wire /\ e.opaque = d.opaque
           /\ e.whole = d.whole /\ e.seen = d.seen /\ e.assigned = d.assigned \union {t}
<1> DEFINE e == WithValue(d, t)
           parsed == [d.parsed EXCEPT ![t] = Fresh]
           due == [d.due EXCEPT ![t] = {}]
<1>1. d \in Metadata
  BY DEF MetaOK
<1>2. /\ d.parsed \in [Segs -> Values \union {None}] /\ d.due \in [Segs -> SUBSET Edits]
      /\ d.opaque \in SUBSET Segs /\ d.assigned \in SUBSET Segs
  BY <1>1, Typed
<1>3. /\ parsed \in [Segs -> Values \union {None}] /\ parsed[t] = Fresh
      /\ due \in [Segs -> SUBSET Edits] /\ due[t] = {}
      /\ \A s \in Segs \ {t} : parsed[s] = d.parsed[s] /\ due[s] = d.due[s]
  BY <1>2, FreshFacts
<1>4. e = [d EXCEPT !.parsed = parsed, !.assigned = d.assigned \union {t}, !.due = due]
  BY DEF WithValue
<1> HIDE DEF parsed, due
<1>5. /\ e.parsed = parsed /\ e.modified = d.modified /\ e.due = due
      /\ e.fmt = d.fmt /\ e.raw = d.raw /\ e.wire = d.wire /\ e.kept = d.kept
      /\ e.opaque = d.opaque /\ e.whole = d.whole /\ e.seen = d.seen
      /\ e.assigned = d.assigned \union {t}
  BY <1>1, <1>4 DEF Metadata
<1>6. e \in Metadata
  <2>1. d.assigned \union {t} \in SUBSET Segs
    BY <1>2
  <2> QED
    BY <1>1, <1>3, <1>4, <2>1 DEF Metadata
<1> HIDE DEF e
<1>7. ReadFrom(d, d.seen) => ReadFrom(e, e.seen)
  BY <1>5 DEF ReadFrom
<1>8. \A s \in Segs : due[s] # {} =>
        s \in d.modified /\ parsed[s] # None /\ due[s] \subseteq parsed[s].edits
  BY <1>3 DEF MetaOK
<1>9. \A s \in d.opaque : d.raw[s] # None /\ (s \notin d.assigned \union {t} => parsed[s] = None)
  BY <1>2, <1>3 DEF MetaOK
<1>10. \A s \in {"EXIF", "IPTC"} : parsed[s] # None => parsed[s].form = "whole"
  BY <1>3 DEF MetaOK, Segs, Fresh
<1>11. MetaOK(e)
  BY <1>5, <1>6, <1>7, <1>8, <1>9, <1>10 DEF MetaOK
<1> QED
  BY <1>3, <1>5, <1>11 DEF e

Empty(c) == [fmt |-> c, raw |-> NoSegs, wire |-> None, kept |-> FALSE, parsed |-> NoSegs,
             opaque |-> {}, modified |-> {}, whole |-> FALSE, seen |-> None,
             due |-> [s \in Segs |-> {}], assigned |-> {}]

LEMMA EmptyOK == ASSUME scene \in Scenes, NEW c \in Classes PROVE MetaOK(Empty(c))
<1>1. /\ NoSegs \in [Segs -> Bytes \union {None}] /\ NoSegs \in [Segs -> Values \union {None}]
      /\ [s \in Segs |-> {}] \in [Segs -> SUBSET Edits]
      /\ \A s \in Segs : NoSegs[s] = None
  BY DEF NoSegs
<1>2. Empty(c) \in Metadata
  BY <1>1 DEF Empty, Metadata
<1> QED
  BY <1>1, <1>2 DEF Empty, MetaOK, Segs

LEMMA LaterSame == ASSUME scene \in Scenes, NEW d PROVE Later(d, d)
  BY DEF Later

LEMMA LaterAgain ==
    ASSUME scene \in Scenes, NEW a, NEW d, NEW e, Later(a, d), Later(d, e) PROVE Later(a, e)
<1>1. ASSUME NEW s \in Segs, a.parsed[s] # None
      PROVE  /\ e.parsed[s] # None
             /\ e.parsed[s].of = a.parsed[s].of /\ e.parsed[s].form = a.parsed[s].form
             /\ a.parsed[s].edits \subseteq e.parsed[s].edits
  BY <1>1 DEF Later
<1>2. ASSUME NEW s \in Segs, a.parsed[s] = None, e.parsed[s] # None
      PROVE  e.parsed[s].edits # {}
  BY <1>2 DEF Later
<1> QED
  BY <1>1, <1>2 DEF Later

-----------------------------------------------------------------------------
(* What a Metadata and an image hold, and what is made of them.            *)

LEMMA ImageSegs ==
    ASSUME scene \in Scenes, NEW i, NEW c, ImageOK(i, c)
    PROVE  /\ i \in Images /\ i # None /\ i.seg \in [Segs -> Bytes \union {None}]
           /\ i.pixels \in Files \union {Lost}
  BY SceneFacts DEF ImageOK, Images, ImagesOf, Bytes, Files

LEMMA RawOK ==
    ASSUME scene \in Scenes, NEW d, MetaOK(d)
    PROVE  /\ \A s \in {"EXIF", "IPTC"} : d.raw[s] # None =>
                 d.raw[s].form \in {"whole", "bad"} /\ d.raw[s] = d.seen.seg[s]
           /\ d.raw["XMP"] # None => d.raw["XMP"].form \notin {"split", "loose"}
           /\ d.wire # None => Same(d.wire, d.raw["XMP"])
           /\ \A s \in Segs : d.raw[s] # None =>
                 d.seen # None /\ ImageOK(d.seen, d.fmt) /\ Same(d.seen.seg[s], d.raw[s])
<1>1. CASE d.seen = None
  BY <1>1 DEF MetaOK, NoSegs, Segs
<1>2. CASE d.seen # None
  <2> DEFINE i == d.seen
  <2>1. ReadFrom(d, i) /\ ImageOK(i, d.fmt)
    BY <1>2 DEF MetaOK, ReadFrom
  <2>2. i \in Images /\ i.seg \in [Segs -> Bytes \union {None}]
    BY <2>1, ImageSegs
  <2>3. PICK want \in BOOLEAN : d.raw = Extract(i, want)
    BY <2>1 DEF ReadFrom
  <2> DEFINE b == i.seg["XMP"]
  <2>4. /\ \A s \in {"EXIF", "IPTC"} : d.raw[s] = i.seg[s]
        /\ d.raw["XMP"] = RawXMP(b, want)
        /\ \A s \in Segs : i.seg[s] = None <=> d.raw[s] = None
        /\ \A s \in Segs : i.seg[s] # None => Same(d.raw[s], i.seg[s])
    BY <2>2, <2>3, ExtractFacts
  <2>5. b \in Bytes \union {None}
    BY <2>2 DEF Segs
  <2>6. d.raw["XMP"] # None => d.raw["XMP"].form \notin {"split", "loose"}
    BY <2>4, <2>5, RawXMPFacts
  <2>7. d.wire = Wire(b)
    BY <2>1 DEF ReadFrom
  <2>8. d.wire # None => Same(d.wire, d.raw["XMP"])
    BY <2>4, <2>7 DEF Wire, Same, Segs
  <2>9. \A s \in {"EXIF", "IPTC"} : d.raw[s] # None => d.raw[s].form \in {"whole", "bad"}
    BY <2>1, <2>4 DEF ImageOK
  <2> QED
    BY <1>2, <2>1, <2>4, <2>6, <2>8, <2>9 DEF Same
<1> QED
  BY <1>1, <1>2

LEMMA PayloadOK ==
    ASSUME scene \in Scenes, NEW d, MetaOK(d), NEW c \in Classes, NEW enc \in SUBSET Segs
    PROVE  LET p == Payload(d, c, enc) IN
           /\ p \in [Segs -> Bytes \union {None}]
           /\ \A s \in {"EXIF", "IPTC"} : p[s] # None => p[s].form \in {"whole", "bad"}
           /\ c # "JPEG" /\ p["XMP"] # None => p["XMP"].form \notin {"split", "loose"}
<1> DEFINE p == Payload(d, c, enc)
<1>1. d \in Metadata
  BY DEF MetaOK
<1>2. /\ d.raw \in [Segs -> Bytes \union {None}] /\ d.wire \in Bytes \union {None}
      /\ d.parsed \in [Segs -> Values \union {None}]
  BY <1>1, Typed
<1>3. \A s \in Segs : d.parsed[s] # None => d.parsed[s] \in Values
  BY <1>2
<1>4. \A s \in Segs : d.parsed[s] # None =>
        /\ Encode(d.parsed[s]) \in Bytes /\ Encode(d.parsed[s]) # None
        /\ Encode(d.parsed[s]).form = d.parsed[s].form
  BY <1>3, EncodeFacts
<1>5. /\ EncodeEXIF(d, enc) \in Bytes \union {None}
      /\ EncodeEXIF(d, enc) # None => EncodeEXIF(d, enc).form \in {"whole", "bad"}
  BY <1>2, <1>4, RawOK DEF EncodeEXIF, MetaOK, Segs
<1>6. /\ EncodeIPTC(d, enc) \in Bytes \union {None}
      /\ EncodeIPTC(d, enc) # None => EncodeIPTC(d, enc).form \in {"whole", "bad"}
  <2>1. EncodeIPTC(d, enc) \in {d.raw["IPTC"], None}
        \/ (d.parsed["IPTC"] # None /\ EncodeIPTC(d, enc) = Encode(d.parsed["IPTC"]))
    BY DEF EncodeIPTC
  <2> QED
    BY <2>1, <1>2, <1>4, RawOK DEF MetaOK, Segs
<1>7. /\ EncodeXMP(d, c, enc) \in Bytes \union {None}
      /\ c # "JPEG" /\ EncodeXMP(d, c, enc) # None
             => EncodeXMP(d, c, enc).form \notin {"split", "loose"}
  <2> DEFINE v == d.parsed["XMP"]
  <2>1. \/ EncodeXMP(d, c, enc) = d.raw["XMP"]
        \/ c = "JPEG" /\ EncodeXMP(d, c, enc) = d.wire
        \/ v # None /\ EncodeXMP(d, c, enc) = Encode(v)
        \/ c = "JPEG" /\ v # None /\ EncodeXMP(d, c, enc) = [Encode(v) EXCEPT !.form = "loose"]
    BY DEF EncodeXMP
  <2>2. v # None => [Encode(v) EXCEPT !.form = "loose"] \in Bytes
    BY <1>4 DEF Bytes, BytesOf, Forms, Segs
  <2>3. v # None => v.form \in {"whole", "linked", "main"}
    BY <1>3 DEF Values, ValuesOf, Segs
  <2> QED
    BY <2>1, <2>2, <2>3, <1>2, <1>4, RawOK DEF Segs
<1>8. /\ p["EXIF"] = EncodeEXIF(d, enc) /\ p["IPTC"] = EncodeIPTC(d, enc)
      /\ p["XMP"] = EncodeXMP(d, c, enc) /\ DOMAIN p = Segs
      /\ p = [s \in Segs |-> p[s]]
  BY DEF Payload, Segs
<1> HIDE DEF p
<1>9. p \in [Segs -> Bytes \union {None}]
  <2>1. \A s \in Segs : p[s] \in Bytes \union {None}
    BY <1>5, <1>6, <1>7, <1>8 DEF Segs
  <2> QED
    BY <2>1, <1>8
<1>10. \A s \in {"EXIF", "IPTC"} : p[s] # None => p[s].form \in {"whole", "bad"}
  BY <1>5, <1>6, <1>8
<1>11. c # "JPEG" /\ p["XMP"] # None => p["XMP"].form \notin {"split", "loose"}
  BY <1>7, <1>8
<1> QED
  BY <1>9, <1>10, <1>11 DEF p

LEMMA ResolveFacts ==
    ASSUME scene \in Scenes, NEW b \in Bytes \union {None}, NEW r
    PROVE  /\ Resolve(b, r) \in Bytes \union {None}
           /\ Resolve(b, r) = None <=> b = None
           /\ b # None => Same(Resolve(b, r), b)
           /\ Resolve(b, r) = b \/ (b # None /\ Resolve(b, r).form = "main")
<1>1. CASE Resolve(b, r) = b
  BY <1>1 DEF Same
<1>2. CASE b # None /\ Resolve(b, r) = [b EXCEPT !.form = "main"]
  <2>1. Resolve(b, r) \in Bytes
    BY <1>2 DEF Bytes, BytesOf, Forms
  <2> QED
    BY <1>2, <2>1, SceneFacts DEF Same, Bytes, BytesOf
<1> QED
  BY <1>1, <1>2 DEF Resolve

(* The segments of an image that was injected, whatever the container.     *)
LEMMA InjectOK ==
    ASSUME scene \in Scenes, NEW c \in {"JPEG", "PNG", "WEBP", "BMFF"}, NEW r, ImageOK(r, c),
           NEW d, MetaOK(d), NEW enc \in SUBSET Segs, NEW keep \in SUBSET Segs
    PROVE  LET p == Payload(d, c, enc)
               out == Inject(c, r, p, keep)
           IN /\ ImageOK(out, c)
              /\ out.pixels = r.pixels
              /\ c = "JPEG" => out.seg = InjectJPEG(r, p, keep)
              /\ c = "PNG"  => out.seg = InjectPNG(r, p, keep)
              /\ c = "WEBP" => out.seg = InjectWebP(p)
              /\ c = "BMFF" => out.seg = InjectBMFF(r, p)
<1> DEFINE p == Payload(d, c, enc)
           out == Inject(c, r, p, keep)
<1>1. /\ r \in Images /\ r.seg \in [Segs -> Bytes \union {None}]
  BY ImageSegs
<1>2. /\ p \in [Segs -> Bytes \union {None}]
      /\ \A s \in {"EXIF", "IPTC"} : p[s] # None => p[s].form \in {"whole", "bad"}
      /\ c # "JPEG" /\ p["XMP"] # None => p["XMP"].form \notin {"split", "loose"}
  BY PayloadOK DEF Classes
<1> HIDE DEF p
<1> DEFINE seg == CASE c = "JPEG" -> InjectJPEG(r, p, keep)
                    [] c = "PNG"  -> InjectPNG(r, p, keep)
                    [] c = "WEBP" -> InjectWebP(p)
                    [] c = "BMFF" -> InjectBMFF(r, p)
<1>3. /\ seg \in [Segs -> Bytes \union {None}]
      /\ \A s \in {"EXIF", "IPTC"} : seg[s] \in {r.seg[s], p[s], None}
      /\ c # "JPEG" => seg["XMP"] \in {r.seg["XMP"], p["XMP"]}
      /\ c \in {"WEBP", "BMFF"} => seg["IPTC"] = None
  <2>1. CASE c = "JPEG"
    <3>1. seg = InjectJPEG(r, p, keep)
      BY <2>1
    <3>2. \A s \in Segs : seg[s] = IF s \in keep THEN r.seg[s]
                                   ELSE IF s = "XMP" THEN Resolve(p[s], r) ELSE p[s]
      BY <3>1 DEF InjectJPEG
    <3>3. Resolve(p["XMP"], r) \in Bytes \union {None}
      BY <1>2, ResolveFacts DEF Segs
    <3>4. \A s \in Segs : seg[s] \in Bytes \union {None}
      BY <1>1, <1>2, <3>2, <3>3
    <3>5. seg = [s \in Segs |-> seg[s]]
      BY <3>1 DEF InjectJPEG
    <3> HIDE DEF seg
    <3>6. seg \in [Segs -> Bytes \union {None}]
      BY <3>4, <3>5
    <3> QED
      BY <2>1, <3>2, <3>6 DEF Segs
  <2>2. CASE c = "PNG"
    BY <2>2, <1>1, <1>2 DEF InjectPNG, Segs
  <2>3. CASE c = "WEBP"
    BY <2>3, <1>1, <1>2 DEF InjectWebP, Segs
  <2>4. CASE c = "BMFF"
    BY <2>4, <1>1, <1>2 DEF InjectBMFF, Segs
  <2> QED
    BY <2>1, <2>2, <2>3, <2>4
<1>4. out = [r EXCEPT !.seg = seg]
  BY DEF Inject
<1>5. /\ c = "JPEG" => seg = InjectJPEG(r, p, keep)
      /\ c = "PNG"  => seg = InjectPNG(r, p, keep)
      /\ c = "WEBP" => seg = InjectWebP(p)
      /\ c = "BMFF" => seg = InjectBMFF(r, p)
  OBVIOUS
<1> HIDE DEF seg, out
<1>6. out \in Images /\ out.seg = seg /\ out.pixels = r.pixels
  BY <1>1, <1>3, <1>4 DEF Images, ImagesOf, Bytes
<1>7. ImageOK(out, c)
  BY <1>1, <1>2, <1>3, <1>6 DEF ImageOK
<1> QED
  BY <1>5, <1>6, <1>7 DEF out, p

LEMMA WriteTIFFOK ==
    ASSUME scene \in Scenes, NEW r, ImageOK(r, "TIFF"), NEW d, MetaOK(d), d.fmt = "TIFF",
           NEW enc \in SUBSET Segs, NEW place \in PlacesOf(scene)
    PROVE  ImageOK(WriteTIFF(r, d, enc, place), "TIFF")
<1> DEFINE own == d.raw["EXIF"] # None
           base == IF own THEN d.seen ELSE r
           whole == own => d.whole
           e == IF d.parsed["EXIF"] # None THEN d.parsed["EXIF"] ELSE Parse(base.seg["EXIF"])
           p == Payload(d, "TIFF", enc)
           Tag(s) == IF p[s] # None THEN p[s] ELSE IF e.of = New THEN None ELSE base.seg[s]
           pixels == CASE e.of = New -> Lost
                       [] e.of # New /\ whole -> base.pixels
                       [] e.of # New /\ ~whole -> IF r.laid = base.laid THEN r.pixels ELSE Lost
           seg == [s \in Segs |-> IF s = "EXIF" THEN Encode(e) ELSE Tag(s)]
<1>1. ImageOK(base, "TIFF")
  BY RawOK DEF Segs
<1>2. /\ base \in Images /\ base.seg \in [Segs -> Bytes \union {None}]
      /\ base.pixels \in Files \union {Lost} /\ r.pixels \in Files \union {Lost}
  BY <1>1, ImageSegs
<1>3. base.seg["EXIF"] \in Bytes /\ base.seg["EXIF"].form = "whole"
  BY <1>1, <1>2 DEF ImageOK, Segs
<1>4. d.parsed \in [Segs -> Values \union {None}]
  BY Typed DEF MetaOK
<1> HIDE DEF base
<1>5. e \in Values /\ e.form = "whole"
  BY <1>3, <1>4, ParseFacts DEF MetaOK, Segs
<1> HIDE DEF e
<1>6. Encode(e) \in Bytes /\ Encode(e).form = "whole" /\ Encode(e) # None
  BY <1>5, EncodeFacts
<1>7. /\ p \in [Segs -> Bytes \union {None}]
      /\ \A s \in {"EXIF", "IPTC"} : p[s] # None => p[s].form \in {"whole", "bad"}
      /\ p["XMP"] # None => p["XMP"].form \notin {"split", "loose"}
  BY PayloadOK DEF Classes
<1> HIDE DEF p
<1>8. \A s \in Segs : Tag(s) \in Bytes \union {None} /\ Tag(s) \in {p[s], None, base.seg[s]}
  BY <1>2, <1>7
<1>9. pixels \in Files \union {Lost}
  BY <1>2
<1>10. /\ seg \in [Segs -> Bytes \union {None}] /\ seg["EXIF"] = Encode(e)
       /\ seg["IPTC"] \in {p["IPTC"], None, base.seg["IPTC"]}
       /\ seg["XMP"] \in {p["XMP"], None, base.seg["XMP"]}
  BY <1>6, <1>8 DEF Segs
<1> DEFINE out == [seg |-> seg, pixels |-> pixels, laid |-> place]
<1>11. out \in Images
  <2> HIDE DEF seg, pixels
  <2> QED
    BY <1>9, <1>10 DEF Images, ImagesOf, Bytes, Files
<1>12. ImageOK(out, "TIFF")
  <2>1. out.seg = seg
    OBVIOUS
  <2> HIDE DEF out, seg
  <2> QED
    BY <1>1, <1>6, <1>7, <1>10, <1>11, <2>1 DEF ImageOK
<1>13. WriteTIFF(r, d, enc, place) \in {out, base, r}
  BY DEF WriteTIFF, LaidOut, Base, Whole, base, e, p
<1> HIDE DEF out
<1> QED
  BY <1>1, <1>12, <1>13

-----------------------------------------------------------------------------
(* The plan, and the output.                                               *)

LEMMA SourceSame ==
    ASSUME scene \in Scenes, NEW r \in Images, NEW d, MetaOK(d), NEW check \in SUBSET Segs,
           SourceHolds(r, d, check), NEW s \in check
    PROVE  /\ d.raw[s] = None <=> r.seg[s] = None
           /\ d.raw[s] # None => Same(r.seg[s], d.raw[s])
           /\ s # "XMP" => r.seg[s] = d.raw[s]
<1>1. PICK want \in BOOLEAN : SourceMatches(r, d, check, want)
  BY DEF SourceHolds
<1>2. Extract(r, want)[s] = d.raw[s] /\ s \in Segs
  BY <1>1 DEF SourceMatches
<1> QED
  BY <1>2, ExtractFacts DEF Same, Segs

(* What is carried is not encoded and is what the image holds; what is not *)
(* loaded, and everything that is modified and has a value, is encoded.    *)
PlanFits(c, r, d, plan) ==
    /\ plan.enc \in SUBSET Segs /\ plan.carry \in SUBSET Segs /\ plan.bypass \in BOOLEAN
    /\ plan.bypass => plan.enc = {} /\ SourceHolds(r, d, Segs)
    /\ \A s \in plan.carry : /\ s \notin plan.enc
                             /\ d.raw[s] = None <=> r.seg[s] = None
                             /\ d.raw[s] # None => Same(r.seg[s], d.raw[s])
                             /\ s # "XMP" => r.seg[s] = d.raw[s]
    /\ \/ plan.enc = EncodeSet(d)
          /\ plan.carry = (IF c = "JPEG" THEN Segs ELSE Held(d)) \ EncodeSet(d)
       \/ plan.enc = Segs /\ plan.carry = {}
    /\ (\A check \in SUBSET Segs : SourceHolds(r, d, check)) =>
          /\ plan.enc = EncodeSet(d)
          /\ plan.bypass <=> EncodeSet(d) = {}

LEMMA PlanOK ==
    ASSUME scene \in Scenes, NEW c, NEW r \in Images, NEW d, MetaOK(d)
    PROVE  PlanFits(c, r, d, PlanWrite(c, r, d))
<1> DEFINE enc == EncodeSet(d)
           carry == (IF c = "JPEG" THEN Segs ELSE Held(d)) \ enc
           plan == PlanWrite(c, r, d)
<1>1. enc \in SUBSET Segs /\ carry \in SUBSET Segs /\ enc \intersect carry = {}
  BY DEF EncodeSet, Parsed, Held
<1>2. plan = IF carry = {} /\ enc # {}
             THEN [enc |-> enc, carry |-> {}, bypass |-> FALSE]
             ELSE IF ~SourceHolds(r, d, IF enc = {} THEN Segs ELSE carry)
             THEN [enc |-> Segs, carry |-> {}, bypass |-> FALSE]
             ELSE [enc |-> enc, carry |-> carry, bypass |-> enc = {}]
  BY DEF PlanWrite
<1> HIDE DEF enc, carry, plan
<1>3. CASE carry = {} /\ enc # {}
  <2>1. plan = [enc |-> enc, carry |-> {}, bypass |-> FALSE]
    BY <1>2, <1>3
  <2>2. plan.enc = enc /\ plan.carry = {} /\ plan.bypass = FALSE
    BY <2>1
  <2> QED
    BY <1>1, <1>3, <2>2 DEF PlanFits, plan, enc, carry
<1>4. CASE ~(carry = {} /\ enc # {}) /\ ~SourceHolds(r, d, IF enc = {} THEN Segs ELSE carry)
  <2>1. plan = [enc |-> Segs, carry |-> {}, bypass |-> FALSE]
    BY <1>2, <1>4
  <2>2. plan.enc = Segs /\ plan.carry = {} /\ plan.bypass = FALSE
    BY <2>1
  <2>3. (IF enc = {} THEN Segs ELSE carry) \in SUBSET Segs
    BY <1>1
  <2> QED
    BY <1>4, <2>2, <2>3 DEF PlanFits, plan, enc
<1>5. CASE ~(carry = {} /\ enc # {}) /\ SourceHolds(r, d, IF enc = {} THEN Segs ELSE carry)
  <2>1. plan = [enc |-> enc, carry |-> carry, bypass |-> enc = {}]
    BY <1>2, <1>5
  <2>2. plan.enc = enc /\ plan.carry = carry /\ plan.bypass = (enc = {})
    BY <2>1
  <2> DEFINE check == IF enc = {} THEN Segs ELSE carry
  <2>3. check \in SUBSET Segs /\ carry \subseteq check
    BY <1>1
  <2> HIDE DEF check
  <2>4. SourceHolds(r, d, check)
    BY <1>5 DEF check
  <2>5. \A s \in carry : /\ d.raw[s] = None <=> r.seg[s] = None
                         /\ d.raw[s] # None => Same(r.seg[s], d.raw[s])
                         /\ s # "XMP" => r.seg[s] = d.raw[s]
    BY <2>3, <2>4, SourceSame
  <2>6. enc = {} => SourceHolds(r, d, Segs)
    BY <1>5
  <2>7. /\ plan.enc \in SUBSET Segs /\ plan.carry \in SUBSET Segs /\ plan.bypass \in BOOLEAN
        /\ plan.bypass => plan.enc = {} /\ SourceHolds(r, d, Segs)
        /\ \A s \in plan.carry : /\ s \notin plan.enc
                                 /\ d.raw[s] = None <=> r.seg[s] = None
                                 /\ d.raw[s] # None => Same(r.seg[s], d.raw[s])
                                 /\ s # "XMP" => r.seg[s] = d.raw[s]
    BY <1>1, <2>2, <2>5, <2>6
  <2> QED
    BY <2>2, <2>7 DEF PlanFits, plan, enc, carry
<1> QED
  BY <1>3, <1>4, <1>5

LEMMA PlanTyped ==
    ASSUME scene \in Scenes, NEW c, NEW r \in Images, NEW d, MetaOK(d)
    PROVE  /\ PlanWrite(c, r, d).enc \in SUBSET Segs
           /\ PlanWrite(c, r, d).carry \in SUBSET Segs
           /\ PlanWrite(c, r, d).bypass \in BOOLEAN
  BY PlanOK DEF PlanFits

LEMMA OutputOK ==
    ASSUME scene \in Scenes, NEW j, JobOK(j)
    PROVE  ImageOK(Output(j, md[j.m]), Class[j.f])
<1> DEFINE d == md[j.m]
           c == Class[j.f]
<1>1. /\ j \in Jobs /\ ImageOK(j.r, c) /\ MetaOK(d) /\ Later(j.at, d)
      /\ c = "TIFF" => d.fmt = "TIFF"
  BY DEF JobOK, JobFits, Later
<1>2. /\ j.f \in Files /\ j.enc \in SUBSET Segs /\ j.carry \in SUBSET Segs /\ j.id \in 1..MaxCalls
  BY <1>1 DEF Jobs
<1>3. c \in Classes
  BY <1>2, FileClass
<1>4. CASE j.bypass /\ ~j.strip
  BY <1>1, <1>4 DEF Output
<1>5. CASE ~(j.bypass /\ ~j.strip) /\ c = "TIFF"
  <2>1. [file |-> j.f, write |-> j.id] \in PlacesOf(scene)
    BY <1>2, ClassAssumption DEF PlacesOf, Files
  <2>2. Output(j, d) = WriteTIFF(j.r, d, j.enc, [file |-> j.f, write |-> j.id])
    BY <1>5 DEF Output
  <2> QED
    BY <1>1, <1>2, <1>5, <2>1, <2>2, WriteTIFFOK
<1>6. CASE ~(j.bypass /\ ~j.strip) /\ c # "TIFF"
  <2>1. Output(j, d) = Inject(c, j.r, Payload(d, c, j.enc), j.carry)
    BY <1>6 DEF Output
  <2>2. c \in {"JPEG", "PNG", "WEBP", "BMFF"}
    BY <1>3, <1>6 DEF Classes
  <2> QED
    BY <1>1, <1>2, <2>1, <2>2, InjectOK
<1> QED
  BY <1>4, <1>5, <1>6

-----------------------------------------------------------------------------
(* The invariant holds at the start and is kept by every step.             *)

LEMMA SameScene ==
    ASSUME scene' = scene
    PROVE  /\ Files' = Files /\ Metas' = Metas /\ Writers' = Writers
           /\ Images' = Images /\ Metadata' = Metadata /\ Jobs' = Jobs
<1>1. /\ Files' = Files /\ Metas' = Metas /\ Writers' = Writers /\ Images' = Images
      /\ Bytes' = Bytes /\ Values' = Values /\ Edits' = Edits
  BY DEF Files, Metas, Writers, Images, Bytes, Values, Edits, Fields
<1>2. Metadata' = Metadata
  BY <1>1 DEF Metadata
<1> QED
  BY <1>1, <1>2 DEF Jobs

LEMMA ImageNext ==
    ASSUME scene' = scene, NEW f, ImageOK(file'[f], Class[f]) PROVE ImageOK(file[f], Class[f])'
  BY SameScene DEF ImageOK

LEMMA MetaNext == ASSUME scene' = scene, NEW m, MetaOK(md'[m]) PROVE MetaOK(md[m])'
  BY SameScene DEF MetaOK, ReadFrom, ImageOK

LEMMA JobNext ==
    ASSUME scene' = scene, NEW w, JobFits(job'[w], md'[job'[w].m]) PROVE JobOK(job[w])'
<1>1. MetaOK(job[w].at)'
  BY SameScene DEF JobFits, MetaOK, ReadFrom, ImageOK
<1>2. MetaOK(md[job[w].m])'
  BY SameScene DEF JobFits, MetaOK, ReadFrom, ImageOK
<1>3. ImageOK(job[w].r, Class[job[w].f])'
  BY SameScene DEF JobFits, ImageOK
<1>4. (job[w] \in Jobs)' /\ Planned(job[w])' /\ Later(job[w].at, md[job[w].m])'
  BY SameScene DEF JobFits, Planned, Later
<1> QED
  BY <1>1, <1>2, <1>3, <1>4 DEF JobOK, JobFits

LEMMA InitInv == Init => Inv
<1> SUFFICES ASSUME Init PROVE Inv
  OBVIOUS
<1>1. scene \in Scenes
  BY DEF Init
<1>2. \A f \in Files : Class[f] \in Classes /\ f \in DOMAIN Class
  BY <1>1, FileClass, SceneFacts
<1> DEFINE seg(f) == [s \in Segs |-> IF Original[f][s] = None THEN None
                        ELSE [of |-> f, edits |-> {}, encoded |-> FALSE, form |-> Original[f][s]]]
           image(f) == [seg |-> seg(f), pixels |-> f, laid |-> [file |-> f, write |-> 0]]
<1>3. file = [f \in Files |-> image(f)]
  BY DEF Init
<1>4. ASSUME NEW f \in Files PROVE ImageOK(image(f), Class[f])
  <2>1. \A s \in Segs :
          /\ Original[f][s] \in {None, "whole", "bad", "split", "loose"}
          /\ Original[f][s] \in {"split", "loose"} => s = "XMP" /\ Class[f] = "JPEG"
          /\ s = "IPTC" /\ Class[f] \in {"WEBP", "BMFF"} => Original[f][s] = None
          /\ s = "EXIF" /\ Class[f] = "TIFF" => Original[f][s] = "whole"
    BY <1>2, OriginalAssumption
  <2>2. \A s \in Segs : seg(f)[s] \in Bytes \union {None}
    BY <2>1 DEF Bytes, BytesOf, Files, Forms
  <2>3. \A s \in Segs : seg(f)[s] # None => seg(f)[s].form = Original[f][s] /\ Original[f][s] # None
    OBVIOUS
  <2>4. Class[f] = "TIFF" => seg(f)["EXIF"] # None
    <3> SUFFICES ASSUME Class[f] = "TIFF" PROVE seg(f)["EXIF"] # None
      OBVIOUS
    <3>1. Original[f]["EXIF"] = "whole"
      BY <2>1 DEF Segs
    <3>2. Original[f]["EXIF"] # None
      BY <3>1, OriginalAssumption DEF Forms
    <3>3. [of |-> f, edits |-> {}, encoded |-> FALSE, form |-> "whole"] \in Bytes
      BY DEF Bytes, BytesOf, Files, Forms
    <3> QED
      BY <1>1, <3>1, <3>2, <3>3, SceneFacts DEF Segs
  <2>5. Class[f] \in {"WEBP", "BMFF"} => seg(f)["IPTC"] = None
    BY <2>1 DEF Segs
  <2>6. image(f) \in Images
    <3>1. seg(f) \in [Segs -> BytesOf(scene) \union {None}]
      BY <2>2 DEF Bytes
    <3>2. [file |-> f, write |-> 0] \in PlacesOf(scene)
      BY ClassAssumption DEF PlacesOf, Files
    <3> HIDE DEF seg
    <3> QED
      BY <3>1, <3>2 DEF Images, ImagesOf, Files
  <2>7. image(f).seg = seg(f)
    OBVIOUS
  <2> HIDE DEF image
  <2>8. /\ \A s \in {"EXIF", "IPTC"} : seg(f)[s] # None => seg(f)[s].form \in {"whole", "bad"}
        /\ Class[f] # "JPEG" /\ seg(f)["XMP"] # None => seg(f)["XMP"].form \notin {"split", "loose"}
        /\ Class[f] = "TIFF" /\ seg(f)["EXIF"] # None => seg(f)["EXIF"].form = "whole"
    BY <2>1, <2>3 DEF Segs
  <2> HIDE DEF seg
  <2> QED
    BY <2>4, <2>5, <2>6, <2>7, <2>8 DEF ImageOK
<1>5. \A f \in Files : ImageOK(file[f], Class[f])
  BY <1>3, <1>4
<1>6. file \in [Files -> Images]
  <2>1. \A f \in Files : image(f) \in Images
    BY <1>4 DEF ImageOK
  <2> HIDE DEF image
  <2> QED
    BY <1>3, <2>1
<1>7. TypeOK
  <2>1. \A f \in Files : \A s \in Segs :
          /\ Class[f] # "JPEG" /\ file[f].seg[s] # None
                 => file[f].seg[s].form \notin {"split", "loose"}
          /\ Class[f] \in {"WEBP", "BMFF"} => file[f].seg["IPTC"] = None
    BY <1>5 DEF ImageOK, Segs
  <2> QED
    BY <1>6, <2>1, ClassAssumption DEF Init, TypeOK
<1>8. /\ \A m \in Metas : md[m] = None
      /\ \A w \in Writers : job[w] = None
  BY DEF Init
<1> QED
  BY <1>1, <1>5, <1>7, <1>8 DEF Inv

LEMMA SizeStep == ASSUME Inv, [Next]_vars PROVE size' \in [Metas -> Files \union {Pending, None}]
<1>1. size \in [Metas -> Files \union {Pending, None}]
  BY DEF Inv, TypeOK
<1>2. CASE UNCHANGED size
  BY <1>1, <1>2
<1>3. ASSUME NEW m \in Metas, NEW x, size' = [size EXCEPT ![m] = x],
             x \in Files \union {Pending, None}
      PROVE  size' \in [Metas -> Files \union {Pending, None}]
  BY <1>1, <1>3
<1>4. ASSUME NEW m \in Metas, NEW fld \in Fields, Set(m, fld)
      PROVE  size' \in [Metas -> Files \union {Pending, None}]
  <2>1. PICK x : size' = [size EXCEPT ![m] = x] /\ x \in {Pending, None, size[m]}
    BY <1>4 DEF Set, Sized
  <2> QED
    BY <1>1, <1>3, <2>1
<1>5. ASSUME NEW w \in Writers, Finish(w)
      PROVE  size' \in [Metas -> Files \union {Pending, None}]
  <2>1. job[w].m \in Metas /\ job[w].f \in Files
    BY <1>5 DEF Finish, Inv, JobOK, JobFits, Jobs
  <2>2. Filled(job[w]) \in {job[w].f, size[job[w].m]}
    BY DEF Filled
  <2>3. size' = [size EXCEPT ![job[w].m] = Filled(job[w])]
    BY <1>5 DEF Finish
  <2> QED
    BY <1>1, <1>3, <2>1, <2>2, <2>3
<1>6. ASSUME NEW m \in Metas, NEW s \in AssignSegs, Assign(m, s)
      PROVE  size' \in [Metas -> Files \union {Pending, None}]
  BY <1>1, <1>6 DEF Assign
<1> QED
  BY <1>1, <1>2, <1>4, <1>5, <1>6
     DEF Next, Step, vars, Read, NewMetadata, MarkModified, EditDirectly, Begin

(* A call that changes one Metadata, between its writes or by adding to it. *)
LEMMA MetaStep ==
    ASSUME Inv, scene' = scene, NEW m \in Metas, NEW e, MetaOK(e), md' = [md EXCEPT ![m] = e],
           Idle(m) \/ (md[m] # None /\ Later(md[m], e)),
           UNCHANGED <<file, job>>, calls' \in 0..MaxCalls, settled' \subseteq settled,
           size' \in [Metas -> Files \union {Pending, None}]
    PROVE  Inv'
<1>1. scene \in Scenes
  BY DEF Inv
<1>2. /\ md \in [Metas -> Metadata \union {None}] /\ job \in [Writers -> Jobs \union {None}]
      /\ file \in [Files -> Images]
  BY DEF Inv, TypeOK
<1>3. md' \in [Metas -> Metadata \union {None}] /\ md'[m] = e
      /\ \A k \in Metas \ {m} : md'[k] = md[k]
  BY <1>2 DEF MetaOK
<1>4. \A f \in Files' : ImageOK(file[f], Class[f])'
  BY SameScene, ImageNext DEF Inv
<1>5. \A k \in Metas' : md'[k] # None => MetaOK(md[k])'
  BY <1>3, SameScene, MetaNext DEF Inv
<1>6. \A w \in Writers' : job'[w] # None => JobOK(job[w])'
  <2> SUFFICES ASSUME NEW w \in Writers, job[w] # None
               PROVE  JobFits(job'[w], md'[job'[w].m])
    BY SameScene, JobNext
  <2> DEFINE j == job[w]
  <2>1. JobFits(j, md[j.m]) /\ j.m \in Metas
    BY DEF Inv, JobOK, JobFits, Jobs
  <2>2. CASE j.m # m
    BY <1>3, <2>1, <2>2
  <2>3. CASE j.m = m
    <3>1. Later(md[m], e)
      BY <2>3 DEF Idle
    <3>2. Later(j.at, md[m]) /\ MetaOK(j.at)
      BY <2>1, <2>3 DEF JobFits
    <3>3. Later(j.at, e)
      BY <1>1, <3>1, <3>2, LaterAgain
    <3> QED
      BY <1>3, <2>1, <2>3, <3>3 DEF JobFits
  <2> QED
    BY <2>2, <2>3
<1>7. TypeOK'
  BY <1>2, <1>3, SameScene DEF Inv, TypeOK
<1> QED
  BY <1>1, <1>4, <1>5, <1>6, <1>7 DEF Inv

LEMMA BeginStep ==
    ASSUME Inv, scene' = scene, NEW w \in Writers, NEW m \in Metas, NEW f \in Files,
           NEW strip \in Strip, Begin(w, m, f, strip),
           size' \in [Metas -> Files \union {Pending, None}]
    PROVE  Inv'
<1>1. scene \in Scenes
  BY DEF Inv
<1>2. /\ md \in [Metas -> Metadata \union {None}] /\ job \in [Writers -> Jobs \union {None}]
      /\ file \in [Files -> Images] /\ calls \in 0..MaxCalls
  BY DEF Inv, TypeOK
<1>3. /\ md[m] # None /\ MetaOK(md[m]) /\ ImageOK(file[f], Class[f]) /\ file[f] \in Images
      /\ calls < MaxCalls /\ calls' = calls + 1 /\ UNCHANGED <<file, md, settled>>
      /\ Class[f] = "TIFF" => md[m].fmt = "TIFF"
  BY <1>2 DEF Inv, Begin, Call
<1> DEFINE plan == PlanWrite(Class[f], file[f], md[m])
           j == [m |-> m, f |-> f, r |-> file[f], enc |-> plan.enc, carry |-> plan.carry,
                 bypass |-> plan.bypass, strip |-> strip, id |-> calls + 1,
                 at |-> md[m], again |-> <<m, f>> \in settled]
<1>4. job' = [job EXCEPT ![w] = j]
  BY DEF Begin
<1>5. plan.enc \in SUBSET Segs /\ plan.carry \in SUBSET Segs /\ plan.bypass \in BOOLEAN
  BY <1>1, <1>3, PlanTyped
<1>6. calls + 1 \in 1..MaxCalls /\ calls + 1 \in 0..MaxCalls
  BY <1>2, <1>3, ClassAssumption
<1>7. strip \in BOOLEAN /\ md[m] \in Metadata
  BY <1>1, <1>3, SceneFacts DEF MetaOK
<1> HIDE DEF plan
<1>8. j \in Jobs
  BY <1>3, <1>5, <1>6, <1>7 DEF Jobs
<1>9. /\ j.m = m /\ j.f = f /\ j.r = file[f] /\ j.at = md[m]
      /\ j.enc = plan.enc /\ j.carry = plan.carry /\ j.bypass = plan.bypass
  OBVIOUS
<1> HIDE DEF j
<1>10. JobFits(j, md[m])
  <2>1. Planned(j)
    BY <1>9 DEF Planned, plan
  <2> QED
    BY <1>1, <1>3, <1>8, <1>9, <2>1, LaterSame DEF JobFits
<1>11. \A v \in Writers' : job'[v] # None => JobOK(job[v])'
  <2> SUFFICES ASSUME NEW v \in Writers, job'[v] # None
               PROVE  JobFits(job'[v], md'[job'[v].m])
    BY SameScene, JobNext
  <2>1. CASE v = w
    BY <1>2, <1>3, <1>4, <1>9, <1>10, <2>1
  <2>2. CASE v # w
    BY <1>2, <1>3, <1>4, <2>2 DEF Inv, JobOK
  <2> QED
    BY <2>1, <2>2
<1>12. \A g \in Files' : ImageOK(file[g], Class[g])'
  BY <1>3, SameScene, ImageNext DEF Inv
<1>13. \A k \in Metas' : md'[k] # None => MetaOK(md[k])'
  BY <1>3, SameScene, MetaNext DEF Inv
<1>14. TypeOK'
  <2>1. job' \in [Writers -> Jobs \union {None}]
    BY <1>2, <1>4, <1>8
  <2> QED
    BY <1>3, <1>6, <2>1, SameScene DEF Inv, TypeOK
<1> QED
  BY <1>1, <1>11, <1>12, <1>13, <1>14 DEF Inv

LEMMA FinishStep ==
    ASSUME Inv, scene' = scene, NEW w \in Writers, Finish(w),
           size' \in [Metas -> Files \union {Pending, None}]
    PROVE  Inv'
<1>1. scene \in Scenes
  BY DEF Inv
<1>2. /\ md \in [Metas -> Metadata \union {None}] /\ job \in [Writers -> Jobs \union {None}]
      /\ file \in [Files -> Images] /\ settled \subseteq Metas \X Files
  BY DEF Inv, TypeOK
<1> DEFINE j == job[w]
           out == Output(j, md[j.m])
<1>3. JobOK(j) /\ j.f \in Files /\ j.m \in Metas
  BY DEF Finish, Inv, JobOK, JobFits, Jobs
<1>4. ImageOK(out, Class[j.f]) /\ out \in Images
  BY <1>1, <1>3, OutputOK, ImageSegs
<1>5. /\ file' = file \/ file' = [file EXCEPT ![j.f] = out]
      /\ settled' \subseteq settled \union {<<j.m, j.f>>}
      /\ job' = [job EXCEPT ![w] = None] /\ UNCHANGED <<md, calls>>
  BY DEF Finish
<1> HIDE DEF out, j
<1>6. file' \in [Files -> Images] /\ \A g \in Files : ImageOK(file'[g], Class[g])
  BY <1>2, <1>3, <1>4, <1>5 DEF Inv
<1>7. \A g \in Files' : ImageOK(file[g], Class[g])'
  BY <1>6, SameScene, ImageNext
<1>8. \A k \in Metas' : md'[k] # None => MetaOK(md[k])'
  BY <1>5, SameScene, MetaNext DEF Inv
<1>9. \A v \in Writers' : job'[v] # None => JobOK(job[v])'
  <2> SUFFICES ASSUME NEW v \in Writers, job'[v] # None
               PROVE  JobFits(job'[v], md'[job'[v].m])
    BY SameScene, JobNext
  <2>1. job'[v] = job[v]
    BY <1>2, <1>5
  <2> QED
    BY <1>5, <2>1 DEF Inv, JobOK
<1>10. TypeOK'
  <2>1. \A g \in Files : \A s \in Segs :
          /\ Class[g] # "JPEG" /\ file'[g].seg[s] # None
                 => file'[g].seg[s].form \notin {"split", "loose"}
          /\ Class[g] \in {"WEBP", "BMFF"} => file'[g].seg["IPTC"] = None
    BY <1>6 DEF ImageOK, Segs
  <2>2. settled' \subseteq Metas \X Files /\ job' \in [Writers -> Jobs \union {None}]
    BY <1>2, <1>3, <1>5
  <2> QED
    BY <1>5, <1>6, <2>1, <2>2, SameScene DEF Inv, TypeOK
<1> QED
  BY <1>1, <1>7, <1>8, <1>9, <1>10 DEF Inv

LEMMA CallTyped == ASSUME Inv, Call PROVE calls' \in 0..MaxCalls
<1>1. calls \in 0..MaxCalls /\ calls < MaxCalls /\ calls' = calls + 1
  BY DEF Inv, TypeOK, Call
<1> QED
  BY <1>1, ClassAssumption

LEMMA SetIs ==
    ASSUME Inv, NEW m \in Metas, NEW fld \in Fields, Set(m, fld)
    PROVE  md' = [md EXCEPT ![m] = WithField(md[m], fld)]
<1>1. md \in [Metas -> Metadata \union {None}] /\ md[m] # None
  BY DEF Inv, TypeOK, Set
<1>2. md[m] \in Metadata
  BY <1>1
<1> QED
  BY <1>1, <1>2 DEF Set, WithField, Metadata

LEMMA MarkIs ==
    ASSUME Inv, NEW m \in Metas, NEW ss, MarkModified(m, ss)
    PROVE  md' = [md EXCEPT ![m] = WithMark(md[m], ss)]
<1>1. md \in [Metas -> Metadata \union {None}] /\ md[m] # None
  BY DEF Inv, TypeOK, MarkModified
<1>2. md[m] \in Metadata
  BY <1>1
<1> QED
  BY <1>1, <1>2 DEF MarkModified, WithMark, Metadata

LEMMA EditIs ==
    ASSUME Inv, NEW m \in Metas, NEW s \in Segs, EditDirectly(m, s)
    PROVE  md' = [md EXCEPT ![m] = WithEdit(md[m], s)]
<1>1. md \in [Metas -> Metadata \union {None}] /\ md[m] # None
  BY DEF Inv, TypeOK, EditDirectly
<1>2. md[m] \in Metadata
  BY <1>1
<1> QED
  BY <1>1, <1>2 DEF EditDirectly, WithEdit, Metadata

LEMMA AssignIs ==
    ASSUME Inv, NEW m \in Metas, NEW s \in Segs, Assign(m, s)
    PROVE  md' = [md EXCEPT ![m] = WithValue(md[m], s)]
<1>1. md \in [Metas -> Metadata \union {None}] /\ md[m] # None
  BY DEF Inv, TypeOK, Assign
<1>2. md[m] \in Metadata
  BY <1>1
<1> QED
  BY <1>1, <1>2 DEF Assign, WithValue, Fresh, Metadata

LEMMA StepInv == Inv /\ [Next]_vars => Inv'
<1> SUFFICES ASSUME Inv, [Next]_vars PROVE Inv'
  OBVIOUS
<1>1. scene' = scene /\ scene \in Scenes
  BY DEF Inv, Next, vars
<1>0. size' \in [Metas -> Files \union {Pending, None}]
  BY SizeStep
<1>2. \A m \in Metas : md[m] # None => MetaOK(md[m])
  BY DEF Inv
<1>3. ASSUME NEW m \in Metas, NEW f \in Files, NEW lazy \in LazySets, Read(m, f, lazy)
      PROVE  Inv'
  <2>1. MetaOK(MetadataOf(f, lazy))
    BY <1>1, <1>3, SceneFacts, MetadataOfOK DEF Inv
  <2>2. settled' \subseteq settled /\ UNCHANGED <<file, job>> /\ calls' \in 0..MaxCalls
        /\ Idle(m) /\ md' = [md EXCEPT ![m] = MetadataOf(f, lazy)]
    BY <1>3, CallTyped DEF Read, Unsettle
  <2> QED
    BY <1>1, <1>0, <2>1, <2>2, MetaStep
<1>4. ASSUME NEW m \in Metas, NEW c \in Blank, NewMetadata(m, c)
      PROVE  Inv'
  <2>1. MetaOK(Empty(c))
    BY <1>1, SceneFacts, EmptyOK
  <2>2. settled' \subseteq settled /\ UNCHANGED <<file, job>> /\ calls' \in 0..MaxCalls
        /\ Idle(m) /\ md' = [md EXCEPT ![m] = Empty(c)]
    BY <1>4, CallTyped DEF NewMetadata, Unsettle, Empty
  <2> QED
    BY <1>1, <1>0, <2>1, <2>2, MetaStep
<1>5. ASSUME NEW m \in Metas, NEW fld \in Fields, Set(m, fld)
      PROVE  Inv'
  <2>1. settled' \subseteq settled /\ UNCHANGED <<file, job>> /\ calls' \in 0..MaxCalls
        /\ md[m] # None
    BY <1>5, CallTyped DEF Set, Unsettle
  <2>2. MetaOK(WithField(md[m], fld)) /\ Later(md[m], WithField(md[m], fld))
    BY <1>1, <1>2, <2>1, WithFieldOK
  <2>3. md' = [md EXCEPT ![m] = WithField(md[m], fld)]
    BY <1>5, SetIs
  <2> QED
    BY <1>1, <1>0, <2>1, <2>2, <2>3, MetaStep
<1>6. ASSUME NEW m \in Metas, NEW s \in DirectSegs, MarkModified(m, {s})
      PROVE  Inv'
  <2>1. settled' \subseteq settled /\ UNCHANGED <<file, job>> /\ calls' \in 0..MaxCalls
        /\ md[m] # None
    BY <1>6, CallTyped DEF MarkModified, Unsettle
  <2>2. {s} \in SUBSET Segs
    BY <1>1, SceneFacts
  <2>3. MetaOK(WithMark(md[m], {s})) /\ Later(md[m], WithMark(md[m], {s}))
    BY <1>1, <1>2, <2>1, <2>2, WithMarkOK
  <2>4. md' = [md EXCEPT ![m] = WithMark(md[m], {s})]
    BY <1>6, MarkIs
  <2> QED
    BY <1>1, <1>0, <2>1, <2>3, <2>4, MetaStep
<1>7. ASSUME NEW m \in Metas, NEW s \in DirectSegs, EditDirectly(m, s)
      PROVE  Inv'
  <2>1. settled' \subseteq settled /\ UNCHANGED <<file, job>> /\ calls' \in 0..MaxCalls
        /\ md[m] # None /\ md[m].parsed[s] # None /\ Idle(m)
    BY <1>7, CallTyped DEF EditDirectly, Unsettle
  <2>2. s \in Segs
    BY <1>1, SceneFacts
  <2>3. MetaOK(WithEdit(md[m], s)) /\ md' = [md EXCEPT ![m] = WithEdit(md[m], s)]
    BY <1>1, <1>2, <1>7, <2>1, <2>2, WithEditOK, EditIs
  <2> QED
    BY <1>1, <1>0, <2>1, <2>3, MetaStep
<1>8. ASSUME NEW m \in Metas, NEW s \in AssignSegs, Assign(m, s)
      PROVE  Inv'
  <2>1. settled' \subseteq settled /\ UNCHANGED <<file, job>> /\ calls' \in 0..MaxCalls
        /\ md[m] # None /\ Idle(m)
    BY <1>8, CallTyped DEF Assign, Unsettle
  <2>2. s \in Segs
    BY <1>1, SceneFacts
  <2>3. MetaOK(WithValue(md[m], s)) /\ md' = [md EXCEPT ![m] = WithValue(md[m], s)]
    BY <1>1, <1>2, <1>8, <2>1, <2>2, WithValueOK, AssignIs
  <2> QED
    BY <1>1, <1>0, <2>1, <2>3, MetaStep
<1>9. CASE UNCHANGED vars
  <2>1. \A w \in Writers' : job'[w] # None => JobOK(job[w])'
    BY <1>1, <1>9, SameScene, JobNext DEF vars, Inv, JobOK
  <2>2. \A g \in Files' : ImageOK(file[g], Class[g])'
    BY <1>1, <1>9, SameScene, ImageNext DEF vars, Inv
  <2>3. \A k \in Metas' : md'[k] # None => MetaOK(md[k])'
    BY <1>1, <1>9, SameScene, MetaNext DEF vars, Inv
  <2>4. TypeOK'
    BY <1>1, <1>9, SameScene DEF vars, Inv, TypeOK
  <2> QED
    BY <1>1, <2>1, <2>2, <2>3, <2>4 DEF Inv
<1> QED
  BY <1>1, <1>0, <1>3, <1>4, <1>5, <1>6, <1>7, <1>8, <1>9, BeginStep, FinishStep DEF Next, Step

(* Every state the calls can reach is typed and consistent: what a         *)
(* Metadata holds is what Read extracted and what was done to it since,    *)
(* and what a write in progress planned still fits its Metadata.           *)
THEOREM Consistent == Spec => []Inv
  BY InitInv, StepInv, PTL DEF Spec

-----------------------------------------------------------------------------
(* What a write that finishes puts into each segment.                      *)

NoDatasets(v) == v.of = New /\ v.edits = {}

LEMMA PayloadSeg ==
    ASSUME scene \in Scenes, NEW d, MetaOK(d), NEW c \in Classes, NEW enc \in SUBSET Segs,
           NEW s \in Segs
    PROVE  LET p == Payload(d, c, enc) IN
           /\ s \in enc /\ d.parsed[s] # None /\ ~(s = "IPTC" /\ NoDatasets(d.parsed[s]))
                 => Same(p[s], d.parsed[s])
           /\ s \notin enc \/ d.parsed[s] = None =>
                 /\ d.raw[s] # None => Same(p[s], d.raw[s])
                 /\ d.raw[s] = None => p[s] = None
                 /\ c # "JPEG" \/ s # "XMP" => p[s] = d.raw[s]
<1> DEFINE p == Payload(d, c, enc)
           v == d.parsed[s]
<1>1. d.parsed \in [Segs -> Values \union {None}]
  BY Typed DEF MetaOK
<1>2. v # None => /\ Encode(v) \in Bytes /\ Encode(v) # None /\ Same(Encode(v), v)
  BY <1>1, EncodeFacts
<1>3. d.wire # None => Same(d.wire, d.raw["XMP"])
  BY RawOK
<1>4. CASE s = "EXIF"
  <2>1. p[s] = EncodeEXIF(d, enc)
    BY <1>4 DEF Payload
  <2> QED
    BY <1>2, <1>4, <2>1 DEF EncodeEXIF, Same
<1>5. CASE s = "IPTC"
  <2>1. p[s] = EncodeIPTC(d, enc)
    BY <1>5 DEF Payload
  <2>2. s \in enc /\ v # None /\ ~NoDatasets(v) => EncodeIPTC(d, enc) = Encode(v)
    BY <1>5 DEF EncodeIPTC, NoDatasets
  <2>3. s \notin enc \/ v = None => EncodeIPTC(d, enc) = d.raw[s]
    BY <1>5 DEF EncodeIPTC
  <2> QED
    BY <1>2, <1>5, <2>1, <2>2, <2>3 DEF Same
<1>6. CASE s = "XMP"
  <2>1. p[s] = EncodeXMP(d, c, enc)
    BY <1>6 DEF Payload
  <2>2. s \in enc /\ v # None =>
          p[s] = Encode(v) \/ p[s] = [Encode(v) EXCEPT !.form = "loose"]
    BY <1>6, <2>1 DEF EncodeXMP
  <2>3. v # None => /\ [Encode(v) EXCEPT !.form = "loose"] \in Bytes
                    /\ Same([Encode(v) EXCEPT !.form = "loose"], v)
    <3> SUFFICES ASSUME v # None
                 PROVE  /\ [Encode(v) EXCEPT !.form = "loose"] \in Bytes
                        /\ Same([Encode(v) EXCEPT !.form = "loose"], v)
      OBVIOUS
    <3>1. [Encode(v) EXCEPT !.form = "loose"] \in Bytes
      BY <1>2 DEF Bytes, BytesOf, Forms
    <3> QED
      BY <1>2, <3>1, SceneFacts DEF Same, Bytes, BytesOf
  <2>4. s \notin enc \/ v = None =>
          (d.wire # None /\ c = "JPEG" /\ p[s] = d.wire) \/ (~(d.wire # None /\ c = "JPEG") /\ p[s] = d.raw[s])
    BY <1>6, <2>1 DEF EncodeXMP
  <2> QED
    BY <1>2, <1>3, <1>6, <2>2, <2>3, <2>4 DEF Same
<1> QED
  BY <1>4, <1>5, <1>6 DEF Segs

LEMMA InjectedSeg ==
    ASSUME scene \in Scenes, NEW j, JobOK(j), ~(j.bypass /\ ~j.strip), Class[j.f] # "TIFF",
           NEW s \in Segs, Takes(j, s)
    PROVE  LET p == Payload(md[j.m], Class[j.f], j.enc)
               out == Output(j, md[j.m])
           IN \/ Class[j.f] \in {"JPEG", "PNG"} /\ s \in j.carry /\ out.seg[s] = j.r.seg[s]
              \/ /\ Class[j.f] \in {"JPEG", "PNG"} => s \notin j.carry
                 /\ p[s] # None => Same(out.seg[s], p[s])
<1> DEFINE c == Class[j.f]
           d == md[j.m]
           p == Payload(d, c, j.enc)
           out == Output(j, d)
<1>1. /\ ImageOK(j.r, c) /\ MetaOK(d) /\ j.f \in Files
      /\ j.enc \in SUBSET Segs /\ j.carry \in SUBSET Segs
  BY DEF JobOK, JobFits, Jobs
<1>2. c \in {"JPEG", "PNG", "WEBP", "BMFF"}
  BY <1>1, FileClass DEF Classes
<1>3. out = Inject(c, j.r, p, j.carry)
  BY DEF Output
<1>4. /\ c = "JPEG" => out.seg = InjectJPEG(j.r, p, j.carry)
      /\ c = "PNG"  => out.seg = InjectPNG(j.r, p, j.carry)
      /\ c = "WEBP" => out.seg = InjectWebP(p)
      /\ c = "BMFF" => out.seg = InjectBMFF(j.r, p)
  BY <1>1, <1>2, <1>3, InjectOK
<1> DEFINE Goal == \/ c \in {"JPEG", "PNG"} /\ s \in j.carry /\ out.seg[s] = j.r.seg[s]
                   \/ /\ c \in {"JPEG", "PNG"} => s \notin j.carry
                      /\ p[s] # None => Same(out.seg[s], p[s])
<1>5. p \in [Segs -> Bytes \union {None}]
  BY <1>1, <1>2, PayloadOK DEF Classes
<1> HIDE DEF p, out
<1>6. ASSUME c = "JPEG" PROVE Goal
  BY <1>4, <1>5, <1>6, ResolveFacts DEF InjectJPEG, Same
<1>7. ASSUME c = "PNG" PROVE Goal
  BY <1>4, <1>7 DEF InjectPNG, Takes, Same
<1>8. ASSUME c = "WEBP" PROVE Goal
  BY <1>4, <1>5, <1>8 DEF InjectWebP, Takes, Same
<1>9. ASSUME c = "BMFF" PROVE Goal
  BY <1>4, <1>9 DEF InjectBMFF, Takes, Same
<1> QED
  <2>1. Goal
    BY <1>2, <1>6, <1>7, <1>8, <1>9
  <2> QED
    BY <2>1 DEF p, out

LEMMA TIFFSeg ==
    ASSUME scene \in Scenes, NEW j, JobOK(j), ~(j.bypass /\ ~j.strip), Class[j.f] = "TIFF"
    PROVE  LET d == md[j.m]
               p == Payload(d, "TIFF", j.enc)
               out == Output(j, d)
           IN /\ \A s \in {"IPTC", "XMP"} : p[s] # None => out.seg[s] = p[s]
              /\ d.parsed["EXIF"] # None => Same(out.seg["EXIF"], d.parsed["EXIF"])
              /\ d.parsed["EXIF"] = None /\ d.raw["EXIF"] # None =>
                    \/ Same(out.seg["EXIF"], d.raw["EXIF"])
                    \/ ~d.whole /\ p["IPTC"] = None /\ p["XMP"] = None /\ out = j.r
              /\ \A s \in {"IPTC", "XMP"} : p[s] = None =>
                    \E i \in {j.r, d.seen} \ {None} : out.seg[s] \in {None, i.seg[s]}
<1> DEFINE d == md[j.m]
           r == j.r
           place == [file |-> j.f, write |-> j.id]
           out == Output(j, d)
           own == d.raw["EXIF"] # None
           base == IF own THEN d.seen ELSE r
           whole == own => d.whole
           e == IF d.parsed["EXIF"] # None THEN d.parsed["EXIF"] ELSE Parse(base.seg["EXIF"])
           p == Payload(d, "TIFF", j.enc)
           Tag(s) == IF p[s] # None THEN p[s] ELSE IF e.of = New THEN None ELSE base.seg[s]
           seg == [s \in Segs |-> IF s = "EXIF" THEN Encode(e) ELSE Tag(s)]
<1>1. /\ ImageOK(r, "TIFF") /\ MetaOK(d) /\ d.fmt = "TIFF" /\ j.enc \in SUBSET Segs
  BY DEF JobOK, JobFits, Jobs, Later
<1>2. out = WriteTIFF(r, d, j.enc, place)
  BY DEF Output
<1>3. \/ /\ d.parsed["EXIF"] = None /\ p["IPTC"] = None /\ p["XMP"] = None
         /\ out = IF whole THEN base ELSE r
      \/ /\ ~(d.parsed["EXIF"] = None /\ p["IPTC"] = None /\ p["XMP"] = None)
         /\ out.seg = seg
  <2> DEFINE pixels == CASE e.of = New -> Lost
                         [] e.of # New /\ whole -> base.pixels
                         [] e.of # New /\ ~whole -> IF r.laid = base.laid THEN r.pixels ELSE Lost
  <2>1. out = IF d.parsed["EXIF"] = None /\ p["IPTC"] = None /\ p["XMP"] = None
              THEN IF whole THEN base ELSE r
              ELSE [seg |-> seg, pixels |-> pixels, laid |-> place]
    BY <1>2 DEF WriteTIFF, LaidOut, Base, Whole
  <2> HIDE DEF out, seg, pixels, base, p, whole
  <2> QED
    BY <2>1
<1>4. own => /\ ImageOK(d.seen, "TIFF") /\ d.raw["EXIF"] = d.seen.seg["EXIF"]
  BY <1>1, RawOK DEF Segs
<1>5. /\ ImageOK(base, "TIFF") /\ base.seg["EXIF"] \in Bytes /\ base.seg["EXIF"].form = "whole"
  <2>1. ImageOK(base, "TIFF")
    BY <1>1, <1>4
  <2> HIDE DEF base
  <2> QED
    BY <2>1, ImageSegs DEF ImageOK, Segs
<1>6. d.parsed["EXIF"] \in Values \union {None}
  BY <1>1, Typed DEF MetaOK, Segs
<1>7. /\ d.parsed["EXIF"] # None => Same(Encode(e), d.parsed["EXIF"])
      /\ d.parsed["EXIF"] = None => Same(Encode(e), base.seg["EXIF"])
  <2> DEFINE b == base.seg["EXIF"]
  <2>1. Parse(b) \in Values /\ Same(Parse(b), b)
    BY <1>5, ParseFacts
  <2>2. e \in Values
    BY <1>6, <2>1
  <2>3. Same(Encode(e), e)
    BY <2>2, EncodeFacts
  <2> HIDE DEF base
  <2> QED
    BY <2>1, <2>3 DEF Same
<1>8. out.seg = seg => out.seg["EXIF"] = Encode(e) /\ out.seg["IPTC"] = Tag("IPTC") /\ out.seg["XMP"] = Tag("XMP")
  BY ZenonT(60) DEF Segs
<1>9. \A s \in {"IPTC", "XMP"} : p[s] # None => out.seg[s] = p[s]
  <2> HIDE DEF p, e, base, out, seg
  <2> QED
    BY <1>3, <1>8
<1>10. d.parsed["EXIF"] # None => Same(out.seg["EXIF"], d.parsed["EXIF"])
  <2> HIDE DEF p, e, base, out, seg
  <2> QED
    BY <1>3, <1>7, <1>8
<1>11. d.parsed["EXIF"] = None /\ own =>
          \/ Same(out.seg["EXIF"], d.raw["EXIF"])
          \/ ~d.whole /\ p["IPTC"] = None /\ p["XMP"] = None /\ out = r
  <2> SUFFICES ASSUME d.parsed["EXIF"] = None, own
               PROVE  \/ Same(out.seg["EXIF"], d.raw["EXIF"])
                      \/ ~d.whole /\ p["IPTC"] = None /\ p["XMP"] = None /\ out = r
    OBVIOUS
  <2>1. base = d.seen
    OBVIOUS
  <2>2. Same(d.seen.seg["EXIF"], d.raw["EXIF"])
    BY <1>4 DEF Same
  <2> HIDE DEF p, e, base, out, seg
  <2> QED
    BY <1>3, <1>4, <1>7, <1>8, <2>1, <2>2 DEF Same
<1>12. \A s \in {"IPTC", "XMP"} : p[s] = None =>
          \E i \in {r, d.seen} \ {None} : out.seg[s] \in {None, i.seg[s]}
  <2> SUFFICES ASSUME NEW s \in {"IPTC", "XMP"}, p[s] = None
               PROVE  \E i \in {r, d.seen} \ {None} : out.seg[s] \in {None, i.seg[s]}
    OBVIOUS
  <2>1. base \in {r, d.seen} \ {None} /\ r # None /\ Tag(s) \in {None, base.seg[s]}
    BY <1>1, <1>5, ImageSegs
  <2> HIDE DEF p, e, base, out, seg
  <2> QED
    BY <1>3, <1>8, <2>1
<1> QED
  BY <1>9, <1>10, <1>11, <1>12 DEF p, out

-----------------------------------------------------------------------------
(* The promises about a write that finishes.                               *)

LEMMA FinishedIs ==
    ASSUME Inv, Next, NEW w \in Writers, Finished(w)
    PROVE  /\ scene \in Scenes /\ JobOK(job[w])
           /\ file' = [file EXCEPT ![job[w].f] = Output(job[w], md[job[w].m])]
           /\ file'[job[w].f] = Output(job[w], md[job[w].m])
<1>1. /\ file \in [Files -> Images] /\ job \in [Writers -> Jobs \union {None}]
      /\ job[w] # None /\ job'[w] = None
  BY DEF Inv, TypeOK, Finished
<1>2. JobOK(job[w]) /\ job[w].f \in Files /\ scene \in Scenes
  BY <1>1 DEF Inv, JobOK, JobFits, Jobs
<1>3. job' # job
  BY <1>1
<1>4. CASE \E v \in Writers, m \in Metas, f \in Files, strip \in Strip : Begin(v, m, f, strip)
  <2>1. PICK v \in Writers, m \in Metas, f \in Files, strip \in Strip : Begin(v, m, f, strip)
    BY <1>4
  <2>2. job'[w] = job[w]
    BY <1>1, <2>1 DEF Begin
  <2> QED
    BY <1>1, <2>2
<1>5. CASE \E v \in Writers : Finish(v)
  <2>1. PICK v \in Writers : Finish(v)
    BY <1>5
  <2>2. v = w
    BY <1>1, <2>1 DEF Finish
  <2>3. file' = [file EXCEPT ![job[w].f] = Output(job[w], md[job[w].m])]
    BY <2>1, <2>2 DEF Finish, Finished, Refused
  <2> QED
    BY <1>1, <1>2, <2>3
<1>6. CASE \/ \E m \in Metas, f \in Files, lazy \in LazySets : Read(m, f, lazy)
           \/ \E m \in Metas, c \in Blank : NewMetadata(m, c)
           \/ \E m \in Metas, fld \in Fields : Set(m, fld)
           \/ \E m \in Metas, s \in DirectSegs : MarkModified(m, {s}) \/ EditDirectly(m, s)
           \/ \E m \in Metas, s \in AssignSegs : Assign(m, s)
  BY <1>3, <1>6 DEF Read, NewMetadata, Set, MarkModified, EditDirectly, Assign
<1> QED
  BY <1>4, <1>5, <1>6 DEF Next, Step

LEMMA JobFacts ==
    ASSUME scene \in Scenes, NEW j, JobOK(j)
    PROVE  LET d == md[j.m] IN
           /\ j.f \in Files /\ Class[j.f] \in Classes
           /\ j.r \in Images /\ ImageOK(j.r, Class[j.f])
           /\ MetaOK(j.at) /\ MetaOK(d) /\ Later(j.at, d)
           /\ PlanFits(Class[j.f], j.r, j.at, j)
<1>1. /\ j \in Jobs /\ ImageOK(j.r, Class[j.f]) /\ MetaOK(j.at) /\ Planned(j)
      /\ MetaOK(md[j.m]) /\ Later(j.at, md[j.m])
  BY DEF JobOK, JobFits
<1>2. j.r \in Images /\ j.f \in Files /\ j.bypass \in BOOLEAN
  BY <1>1 DEF Jobs
<1>3. Class[j.f] \in Classes
  BY <1>2, FileClass
<1> DEFINE plan == PlanWrite(Class[j.f], j.r, j.at)
<1>4. j.enc = plan.enc /\ j.carry = plan.carry /\ j.bypass = plan.bypass
  BY <1>1 DEF Planned
<1>5. PlanFits(Class[j.f], j.r, j.at, plan)
  BY <1>1, <1>2, PlanOK
<1> HIDE DEF plan
<1>6. PlanFits(Class[j.f], j.r, j.at, j)
  BY <1>4, <1>5 DEF PlanFits
<1> QED
  BY <1>1, <1>2, <1>3, <1>6

LEMMA DeliveredStep ==
    ASSUME scene \in Scenes, NEW j, JobOK(j), NEW s \in Segs, Takes(j, s), j.at.due[s] # {}
    PROVE  LET out == Output(j, md[j.m]) IN
           out.seg[s] # None /\ j.at.due[s] \subseteq out.seg[s].edits
<1> DEFINE d == md[j.m]
           c == Class[j.f]
           out == Output(j, d)
           p == Payload(d, c, j.enc)
<1>1. /\ MetaOK(j.at) /\ MetaOK(d) /\ Later(j.at, d) /\ c \in Classes
      /\ j.enc \in SUBSET Segs
      /\ \A t \in j.carry : t \notin j.enc
      /\ j.enc = EncodeSet(j.at) \/ j.enc = Segs
      /\ j.bypass => j.enc = {}
  BY JobFacts DEF PlanFits
<1>2. s \in j.at.modified /\ j.at.parsed[s] # None /\ j.at.due[s] \subseteq j.at.parsed[s].edits
  BY <1>1 DEF MetaOK
<1>3. s \in j.enc /\ s \notin j.carry /\ ~j.bypass
  BY <1>1, <1>2 DEF EncodeSet, Parsed
<1>4. d.parsed[s] # None /\ j.at.due[s] \subseteq d.parsed[s].edits
  BY <1>1, <1>2 DEF Later
<1>5. ~NoDatasets(d.parsed[s])
  BY <1>4 DEF NoDatasets
<1>6. Same(p[s], d.parsed[s])
  BY <1>1, <1>3, <1>4, <1>5, PayloadSeg
<1>7. CASE c # "TIFF"
  <2>1. p[s] # None => Same(out.seg[s], p[s])
    BY <1>3, <1>7, InjectedSeg
  <2> HIDE DEF p, out
  <2>2. out.seg[s] # None /\ j.at.due[s] \subseteq out.seg[s].edits
    BY <1>4, <1>6, <2>1 DEF Same
  <2> QED
    BY <2>2 DEF out
<1>8. CASE c = "TIFF"
  <2>1. /\ s \in {"IPTC", "XMP"} /\ p[s] # None => out.seg[s] = p[s]
        /\ d.parsed["EXIF"] # None => Same(out.seg["EXIF"], d.parsed["EXIF"])
    BY <1>3, <1>8, TIFFSeg
  <2> HIDE DEF p, out
  <2>2. out.seg[s] # None /\ j.at.due[s] \subseteq out.seg[s].edits
    BY <1>4, <1>6, <2>1 DEF Same, Segs
  <2> QED
    BY <2>2 DEF out
<1> QED
  BY <1>7, <1>8

(* Whatever image is written, and whatever other goroutines do to the      *)
(* Metadata during the write, every value a setter was given and every     *)
(* direct edit that was marked is in the output.                           *)
THEOREM EditsDelivered == Spec => Delivered
<1>1. Inv /\ [Next]_vars => [\A w \in Writers : LET j == job[w] IN
        Finished(w) => \A s \in Segs :
            Takes(j, s) /\ j.at.due[s] # {} =>
                /\ file'[j.f].seg[s] # None
                /\ j.at.due[s] \subseteq file'[j.f].seg[s].edits]_vars
  <2> SUFFICES ASSUME Inv, Next, NEW w \in Writers, Finished(w), NEW s \in Segs,
                      Takes(job[w], s), job[w].at.due[s] # {}
               PROVE  /\ file'[job[w].f].seg[s] # None
                      /\ job[w].at.due[s] \subseteq file'[job[w].f].seg[s].edits
    OBVIOUS
  <2>1. /\ scene \in Scenes /\ JobOK(job[w])
        /\ file'[job[w].f] = Output(job[w], md[job[w].m])
    BY FinishedIs
  <2> QED
    BY <2>1, DeliveredStep
<1> QED
  BY <1>1, Consistent, PTL DEF Spec, Delivered

-----------------------------------------------------------------------------
(* What holds of every Metadata: a set that Read and NewMetadata enter and *)
(* no setter, edit or assignment leaves.                                   *)

HeldIn(S) ==
    /\ \A m \in Metas : md[m] # None => md[m] \in S
    /\ \A w \in Writers : job[w] # None => md[job[w].m] \in S

LEMMA Closed ==
    ASSUME Inv, [Next]_vars, NEW S, HeldIn(S),
           \A f \in Files, lazy \in LazySets : MetadataOf(f, lazy) \in S,
           \A c \in Blank : Empty(c) \in S,
           \A d \in S, fld \in Fields : MetaOK(d) => WithField(d, fld) \in S,
           \A d \in S, s \in DirectSegs : MetaOK(d) => WithMark(d, {s}) \in S,
           \A d \in S, s \in DirectSegs : MetaOK(d) /\ d.parsed[s] # None => WithEdit(d, s) \in S,
           \A d \in S, s \in AssignSegs : MetaOK(d) => WithValue(d, s) \in S
    PROVE  /\ \A m \in Metas : md'[m] # None => md'[m] \in S
           /\ \A w \in Writers : job'[w] # None => md'[job'[w].m] \in S
<1> DEFINE Goal == /\ \A m \in Metas : md'[m] # None => md'[m] \in S
                   /\ \A w \in Writers : job'[w] # None => md'[job'[w].m] \in S
<1>1. /\ md \in [Metas -> Metadata \union {None}] /\ job \in [Writers -> Jobs \union {None}]
      /\ scene \in Scenes
      /\ \A m \in Metas : md[m] # None => MetaOK(md[m])
      /\ \A w \in Writers : job[w] # None => job[w].m \in Metas
  BY DEF Inv, TypeOK, JobOK, JobFits, Jobs
<1>2. ASSUME NEW m \in Metas, NEW e \in S, md' = [md EXCEPT ![m] = e], UNCHANGED job
      PROVE  Goal
  BY <1>1, <1>2 DEF HeldIn
<1>3. ASSUME NEW m \in Metas, NEW f \in Files, NEW lazy \in LazySets, Read(m, f, lazy)
      PROVE  Goal
  <2> DEFINE e == MetadataOf(f, lazy)
  <2>1. e \in S /\ md' = [md EXCEPT ![m] = e] /\ UNCHANGED job
    BY <1>3 DEF Read
  <2> HIDE DEF e, Goal
  <2> QED
    BY <2>1, <1>2
<1>4. ASSUME NEW m \in Metas, NEW c \in Blank, NewMetadata(m, c)
      PROVE  Goal
  <2> DEFINE e == Empty(c)
  <2>1. e \in S /\ md' = [md EXCEPT ![m] = e] /\ UNCHANGED job
    BY <1>4 DEF NewMetadata, Empty
  <2> HIDE DEF e, Goal
  <2> QED
    BY <2>1, <1>2
<1>5. ASSUME NEW m \in Metas, NEW fld \in Fields, Set(m, fld)
      PROVE  Goal
  <2> DEFINE e == WithField(md[m], fld)
  <2>1. md[m] # None /\ UNCHANGED job
    BY <1>5 DEF Set
  <2>2. e \in S
    BY <1>1, <2>1 DEF HeldIn
  <2>3. md' = [md EXCEPT ![m] = e]
    BY <1>5, SetIs
  <2> HIDE DEF e, Goal
  <2> QED
    BY <2>1, <2>2, <2>3, <1>2
<1>6. ASSUME NEW m \in Metas, NEW s \in DirectSegs, MarkModified(m, {s})
      PROVE  Goal
  <2> DEFINE e == WithMark(md[m], {s})
  <2>1. md[m] # None /\ UNCHANGED job
    BY <1>6 DEF MarkModified
  <2>2. e \in S
    BY <1>1, <2>1 DEF HeldIn
  <2>3. md' = [md EXCEPT ![m] = e]
    BY <1>6, MarkIs
  <2> HIDE DEF e, Goal
  <2> QED
    BY <2>1, <2>2, <2>3, <1>2
<1>7. ASSUME NEW m \in Metas, NEW s \in DirectSegs, EditDirectly(m, s)
      PROVE  Goal
  <2> DEFINE e == WithEdit(md[m], s)
  <2>1. md[m] # None /\ md[m].parsed[s] # None /\ UNCHANGED job /\ s \in Segs
    BY <1>1, <1>7, SceneFacts DEF EditDirectly
  <2>2. e \in S
    BY <1>1, <2>1 DEF HeldIn
  <2>3. md' = [md EXCEPT ![m] = e]
    BY <1>7, <2>1, EditIs
  <2> HIDE DEF e, Goal
  <2> QED
    BY <2>1, <2>2, <2>3, <1>2
<1>8. ASSUME NEW m \in Metas, NEW s \in AssignSegs, Assign(m, s)
      PROVE  Goal
  <2> DEFINE e == WithValue(md[m], s)
  <2>1. md[m] # None /\ UNCHANGED job /\ s \in Segs
    BY <1>1, <1>8, SceneFacts DEF Assign
  <2>2. e \in S
    BY <1>1, <2>1 DEF HeldIn
  <2>3. md' = [md EXCEPT ![m] = e]
    BY <1>8, <2>1, AssignIs
  <2> HIDE DEF e, Goal
  <2> QED
    BY <2>1, <2>2, <2>3, <1>2
<1>9. ASSUME NEW w \in Writers, NEW m \in Metas, NEW f \in Files, NEW strip \in Strip,
             Begin(w, m, f, strip)
      PROVE  Goal
  <2>1. /\ UNCHANGED md /\ md[m] # None /\ job'[w].m = m
        /\ \A v \in Writers \ {w} : job'[v] = job[v]
    BY <1>1, <1>9 DEF Begin
  <2> QED
    BY <2>1 DEF HeldIn
<1>10. ASSUME NEW w \in Writers, Finish(w)
       PROVE  Goal
  <2>1. UNCHANGED md /\ \A v \in Writers : job'[v] # None => job'[v] = job[v]
    BY <1>1, <1>10 DEF Finish
  <2> QED
    BY <2>1 DEF HeldIn
<1>11. CASE UNCHANGED vars
  BY <1>11 DEF vars, HeldIn
<1> QED
  BY <1>3, <1>4, <1>5, <1>6, <1>7, <1>8, <1>9, <1>10, <1>11 DEF Next, Step

-----------------------------------------------------------------------------
Loaded == {d \in Metadata : d.fmt = "TIFF" /\ d.raw["EXIF"] # None /\ d.parsed["EXIF"] = None
                              => "EXIF" \in d.opaque /\ d.whole}

(* Reading loads the EXIF of a TIFF, or leaves it out of a whole file.     *)
LEMMA LoadedStep ==
    ASSUME WholeReads, Inv, [Next]_vars, HeldIn(Loaded) PROVE HeldIn(Loaded)'
<1>1. scene' = scene /\ scene \in Scenes
  BY DEF Inv, Next, vars
<1>2. \A f \in Files : ImageOK(file[f], Class[f])
  BY DEF Inv
<1>3. ASSUME NEW f \in Files, NEW lazy \in LazySets PROVE MetadataOf(f, lazy) \in Loaded
  <2> DEFINE d == MetadataOf(f, lazy)
             raw == Extract(file[f], "XMP" \notin lazy)
  <2>1. MetaOK(d) /\ lazy \in SUBSET Segs
    BY <1>1, <1>2, SceneFacts, MetadataOfOK
  <2>2. /\ d.fmt = Class[f] /\ d.raw = raw /\ d.whole = (f \notin Streamed)
        /\ d.parsed["EXIF"] = None =>
             \/ raw["EXIF"] = None
             \/ "EXIF" \in lazy
             \/ raw["EXIF"].form = "bad"
             \/ Parse(raw["EXIF"]) = None
        /\ "EXIF" \in lazy /\ raw["EXIF"] # None => "EXIF" \in d.opaque
    BY DEF MetadataOf, Segs
  <2>3. ASSUME d.fmt = "TIFF", d.raw["EXIF"] # None, d.parsed["EXIF"] = None
        PROVE  "EXIF" \in d.opaque /\ d.whole
    <3>1. raw["EXIF"] = file[f].seg["EXIF"] /\ raw["EXIF"] \in Bytes
      <4>1. file[f] \in Images
        BY <1>1, <1>2, ImageSegs
      <4>2. raw["EXIF"] = file[f].seg["EXIF"] /\ raw["EXIF"] \in Bytes \union {None}
        BY <1>1, <4>1, ExtractFacts DEF Segs
      <4> QED
        BY <2>2, <2>3, <4>2
    <3>2. raw["EXIF"].form = "whole"
      BY <1>2, <2>2, <2>3, <3>1 DEF ImageOK
    <3>3. Parse(raw["EXIF"]) # None
      BY <1>1, <3>1, <3>2, ParseFacts
    <3>4. "EXIF" \in lazy
      BY <2>2, <2>3, <3>2, <3>3
    <3>5. Streamed = {}
      BY <1>1, <3>4 DEF WholeReads, Streamed, LazySets
    <3> QED
      BY <2>2, <2>3, <3>4, <3>5
  <2> QED
    BY <2>1, <2>3 DEF Loaded, MetaOK
<1>4. ASSUME NEW c \in Blank PROVE Empty(c) \in Loaded
  <2>1. MetaOK(Empty(c)) /\ Empty(c).raw["EXIF"] = None
    BY <1>1, SceneFacts, EmptyOK DEF Empty, NoSegs, Segs
  <2> QED
    BY <2>1 DEF Loaded, MetaOK
<1>5. ASSUME NEW d \in Loaded, NEW e, MetaOK(e), Later(d, e) PROVE e \in Loaded
  BY <1>5 DEF Loaded, MetaOK, Later, Segs
<1>6. ASSUME NEW d \in Loaded, NEW fld \in Fields, MetaOK(d) PROVE WithField(d, fld) \in Loaded
  BY <1>1, <1>5, <1>6, WithFieldOK
<1>7. ASSUME NEW d \in Loaded, NEW s \in DirectSegs, MetaOK(d) PROVE WithMark(d, {s}) \in Loaded
  <2>1. {s} \in SUBSET Segs
    BY <1>1, SceneFacts
  <2> QED
    BY <1>1, <1>5, <1>7, <2>1, WithMarkOK
<1>8. ASSUME NEW d \in Loaded, NEW s \in Segs, MetaOK(d), d.parsed[s] # None
      PROVE  WithEdit(d, s) \in Loaded
  BY <1>1, <1>5, <1>8, WithEditOK
<1>9. ASSUME NEW d \in Loaded, NEW s \in Segs, MetaOK(d) PROVE WithValue(d, s) \in Loaded
  <2> DEFINE e == WithValue(d, s)
  <2>1. /\ MetaOK(e) /\ e.fmt = d.fmt /\ e.raw = d.raw /\ e.opaque = d.opaque /\ e.whole = d.whole
        /\ e.parsed[s] = Fresh /\ \A t \in Segs \ {s} : e.parsed[t] = d.parsed[t]
    BY <1>1, <1>9, WithValueOK
  <2>2. Fresh # None
    BY <1>1, FreshFacts
  <2> HIDE DEF e
  <2>3. e \in Loaded
    BY <2>1, <2>2 DEF Loaded, MetaOK, Segs
  <2> QED
    BY <2>3 DEF e
<1>10. DirectSegs \subseteq Segs /\ AssignSegs \subseteq Segs
  BY <1>1, SceneFacts
<1> DEFINE S == Loaded
<1>11. S' = S
  BY <1>1, SameScene DEF Loaded
<1> HIDE DEF S
<1>12. /\ \A m \in Metas : md'[m] # None => md'[m] \in S
       /\ \A w \in Writers : job'[w] # None => md'[job'[w].m] \in S
  BY <1>3, <1>4, <1>6, <1>7, <1>8, <1>9, <1>10, Closed DEF S
<1> QED
  BY <1>1, <1>11, <1>12, SameScene DEF HeldIn, S

LEMMA LoadedInit == Init => HeldIn(Loaded)
  BY DEF Init, HeldIn

LEMMA LoadedInv == ASSUME WholeReads PROVE Spec => []HeldIn(Loaded)
  BY LoadedInit, LoadedStep, Consistent, PTL DEF Spec

LEMMA OpaqueStep ==
    ASSUME scene \in Scenes, NEW j, JobOK(j), md[j.m] \in Loaded,
           NEW s \in j.at.opaque \ j.at.assigned, Takes(j, s)
    PROVE  Same(Output(j, md[j.m]).seg[s], j.at.raw[s])
<1> DEFINE d == md[j.m]
           c == Class[j.f]
           out == Output(j, d)
           p == Payload(d, c, j.enc)
<1>1. /\ MetaOK(j.at) /\ MetaOK(d) /\ Later(j.at, d) /\ c \in Classes /\ j.r \in Images
      /\ j.enc \in SUBSET Segs
      /\ j.bypass => SourceHolds(j.r, j.at, Segs)
      /\ \A t \in j.carry : j.at.raw[t] # None => Same(j.r.seg[t], j.at.raw[t])
  BY JobFacts DEF PlanFits
<1>2. s \in Segs /\ j.at.raw[s] # None /\ d.raw = j.at.raw /\ d.parsed[s] = None
  BY <1>1, Typed DEF MetaOK, Later
<1>3. Same(p[s], d.raw[s])
  BY <1>1, <1>2, PayloadSeg
<1>4. CASE j.bypass /\ ~j.strip
  <2>1. out = j.r
    BY <1>4 DEF Output
  <2> QED
    BY <1>1, <1>2, <1>4, <2>1, SourceSame
<1>5. CASE ~(j.bypass /\ ~j.strip) /\ c # "TIFF"
  <2>1. \/ s \in j.carry /\ out.seg[s] = j.r.seg[s]
        \/ p[s] # None => Same(out.seg[s], p[s])
    BY <1>2, <1>5, InjectedSeg
  <2> HIDE DEF p, out
  <2>2. Same(out.seg[s], j.at.raw[s])
    BY <1>1, <1>2, <1>3, <2>1 DEF Same
  <2> QED
    BY <2>2 DEF out
<1>6. CASE ~(j.bypass /\ ~j.strip) /\ c = "TIFF"
  <2>1. /\ s \in {"IPTC", "XMP"} /\ p[s] # None => out.seg[s] = p[s]
        /\ d.parsed["EXIF"] = None /\ d.raw["EXIF"] # None =>
                    Same(out.seg["EXIF"], d.raw["EXIF"]) \/ ~d.whole
    BY <1>6, TIFFSeg
  <2>2. d.fmt = "TIFF"
    BY <1>1, <1>6 DEF JobOK, JobFits, Later
  <2>3. s = "EXIF" => d.whole
    BY <1>2, <2>2 DEF Loaded
  <2> HIDE DEF p, out
  <2>4. Same(out.seg[s], j.at.raw[s])
    BY <1>2, <1>3, <2>1, <2>3 DEF Same, Segs
  <2> QED
    BY <2>4 DEF out
<1> QED
  BY <1>4, <1>5, <1>6

(* A segment that was not loaded, and that the caller assigned no value,   *)
(* reaches the output as Read found it, whatever the setters were given.   *)
THEOREM OpaqueStays == ASSUME WholeReads PROVE Spec => OpaqueKept
<1>1. Inv /\ HeldIn(Loaded) /\ [Next]_vars => [\A w \in Writers : LET j == job[w] IN
        Finished(w) => \A s \in j.at.opaque \ j.at.assigned :
            Takes(j, s) => Same(file'[j.f].seg[s], j.at.raw[s])]_vars
  <2> SUFFICES ASSUME Inv, HeldIn(Loaded), Next, NEW w \in Writers, Finished(w),
                      NEW s \in job[w].at.opaque \ job[w].at.assigned, Takes(job[w], s)
               PROVE  Same(file'[job[w].f].seg[s], job[w].at.raw[s])
    OBVIOUS
  <2>1. /\ scene \in Scenes /\ JobOK(job[w]) /\ md[job[w].m] \in Loaded
        /\ file'[job[w].f] = Output(job[w], md[job[w].m])
    BY FinishedIs DEF HeldIn, Finished
  <2> QED
    BY <2>1, OpaqueStep
<1> QED
  BY <1>1, Consistent, LoadedInv, PTL DEF Spec, OpaqueKept

-----------------------------------------------------------------------------
(* Copies: the image a Metadata is written to is its own, or another one.  *)

(* A Metadata finds what it holds in the image it was read from.           *)
LEMMA OwnHolds ==
    ASSUME scene \in Scenes, NEW d, MetaOK(d), d.seen # None
    PROVE  \A check \in SUBSET Segs : SourceHolds(d.seen, d, check)
<1> DEFINE i == d.seen
<1>1. ReadFrom(d, i) /\ i \in Images
  BY ImageSegs DEF MetaOK, ReadFrom
<1>2. ASSUME NEW check \in SUBSET Segs, NEW want \in BOOLEAN, d.raw = Extract(i, want)
      PROVE  SourceMatches(i, d, check, want)
  BY <1>1, <1>2 DEF SourceMatches, ReadFrom
<1>3. CASE d.raw = Extract(i, TRUE)
  BY <1>2, <1>3 DEF SourceHolds
<1>4. CASE d.raw # Extract(i, TRUE) /\ d.raw = Extract(i, FALSE) /\ d.raw["XMP"] # None
  <2>1. "XMP" \in d.opaque
    BY <1>1, <1>4 DEF ReadFrom
  <2> QED
    BY <1>2, <1>4, <2>1 DEF SourceHolds
<1>5. CASE d.raw = Extract(i, FALSE) /\ d.raw["XMP"] = None
  <2>1. i.seg["XMP"] = None
    BY <1>1, <1>5, ExtractFacts DEF Segs
  <2>2. Extract(i, TRUE) = Extract(i, FALSE)
    BY <2>1 DEF Extract, RawXMP
  <2> QED
    BY <1>3, <1>5, <2>2
<1> QED
  BY <1>1, <1>3, <1>4, <1>5 DEF ReadFrom

LEMMA GivesBackStep ==
    ASSUME scene \in Scenes, NEW j, JobOK(j), OwnImage(j), ~j.strip,
           j.at.modified = {}, Parsed(j.at) \subseteq Held(j.at)
    PROVE  Output(j, md[j.m]) = j.r
<1>1. MetaOK(j.at) /\ j.r \in Images /\ j.r # None /\ PlanFits(Class[j.f], j.r, j.at, j)
  BY JobFacts, SceneFacts
<1>2. \A check \in SUBSET Segs : SourceHolds(j.r, j.at, check)
  BY <1>1, OwnHolds DEF OwnImage
<1>3. EncodeSet(j.at) = {}
  BY DEF EncodeSet, Parsed, Held
<1>4. j.bypass
  BY <1>1, <1>2, <1>3 DEF PlanFits
<1> QED
  BY <1>4 DEF Output

LEMMA CopiesStep ==
    ASSUME scene \in Scenes, NEW j, JobOK(j), md[j.m] \in Loaded, NEW s \in Segs, Takes(j, s),
           j.at.raw[s] # None \/ j.at.parsed[s] # None,
           ~(s = "IPTC" /\ j.at.parsed[s] # None /\ NoDatasets(j.at.parsed[s]))
    PROVE  \E b \in {j.at.raw[s], j.at.parsed[s], md[j.m].parsed[s]} \ {None} :
             Same(Output(j, md[j.m]).seg[s], b)
<1> DEFINE d == md[j.m]
           c == Class[j.f]
           out == Output(j, d)
           p == Payload(d, c, j.enc)
           v == d.parsed[s]
           raw == d.raw[s]
           Goal == \/ raw # None /\ Same(out.seg[s], raw)
                   \/ v # None /\ Same(out.seg[s], v)
<1>1. /\ MetaOK(j.at) /\ MetaOK(d) /\ Later(j.at, d) /\ c \in Classes /\ j.r \in Images
      /\ j.enc \in SUBSET Segs
      /\ PlanFits(c, j.r, j.at, j)
  BY JobFacts DEF PlanFits
<1>2. raw = j.at.raw[s] /\ d.wire = j.at.wire /\ (j.at.parsed[s] # None => v # None)
      /\ (s = "IPTC" /\ v # None => ~NoDatasets(v))
  BY <1>1 DEF Later, NoDatasets
<1>3. s \notin j.enc => raw # None
  <2> SUFFICES ASSUME s \notin j.enc, raw = None PROVE FALSE
    OBVIOUS
  <2>1. j.at.parsed[s] # None /\ j.enc = EncodeSet(j.at)
    BY <1>1, <1>2 DEF PlanFits
  <2>2. s \in Held(j.at)
    BY <2>1 DEF EncodeSet, Parsed
  <2>3. s = "XMP" /\ j.at.wire # None
    BY <1>2, <2>2 DEF Held
  <2>4. j.at.raw["XMP"] # None
    BY <1>1, <2>3, RawOK DEF Same
  <2> QED
    BY <1>2, <2>3, <2>4
<1>4. \/ raw # None /\ Same(p[s], raw)
      \/ v # None /\ Same(p[s], v)
  <2>1. CASE s \in j.enc /\ v # None
    BY <1>1, <1>2, <2>1, PayloadSeg
  <2>2. CASE s \notin j.enc \/ v = None
    <3>1. raw # None
      BY <1>2, <1>3, <2>2
    <3> QED
      BY <1>1, <2>2, <3>1, PayloadSeg
  <2> QED
    BY <2>1, <2>2
<1>5. ASSUME j.bypass /\ ~j.strip PROVE Goal
  <2>1. out = j.r /\ SourceHolds(j.r, j.at, Segs) /\ s \notin j.enc
    BY <1>1, <1>5 DEF Output, PlanFits
  <2>2. Same(j.r.seg[s], j.at.raw[s])
    BY <1>1, <1>2, <1>3, <2>1, SourceSame
  <2> QED
    BY <1>2, <1>3, <2>1, <2>2
<1>6. ASSUME ~(j.bypass /\ ~j.strip), c # "TIFF" PROVE Goal
  <2>1. \/ s \in j.carry /\ out.seg[s] = j.r.seg[s]
        \/ p[s] # None => Same(out.seg[s], p[s])
    BY <1>6, InjectedSeg
  <2>2. s \in j.carry => s \notin j.enc /\ (j.at.raw[s] # None => Same(j.r.seg[s], j.at.raw[s]))
    BY <1>1 DEF PlanFits
  <2> HIDE DEF p, out
  <2>3. CASE s \in j.carry /\ out.seg[s] = j.r.seg[s]
    BY <1>2, <1>3, <2>2, <2>3
  <2>4. CASE p[s] # None => Same(out.seg[s], p[s])
    BY <1>4, <2>4 DEF Same
  <2> QED
    BY <2>1, <2>3, <2>4
<1>7. ASSUME ~(j.bypass /\ ~j.strip), c = "TIFF" PROVE Goal
  <2>1. /\ s \in {"IPTC", "XMP"} /\ p[s] # None => out.seg[s] = p[s]
        /\ d.parsed["EXIF"] # None => Same(out.seg["EXIF"], d.parsed["EXIF"])
        /\ d.parsed["EXIF"] = None /\ d.raw["EXIF"] # None =>
                    Same(out.seg["EXIF"], d.raw["EXIF"]) \/ ~d.whole
    BY <1>7, TIFFSeg
  <2>2. d.fmt = "TIFF"
    BY <1>1, <1>7 DEF JobOK, JobFits, Later
  <2>3. d.parsed["EXIF"] = None /\ d.raw["EXIF"] # None => d.whole
    BY <2>2 DEF Loaded
  <2>4. raw # None \/ v # None
    BY <1>2
  <2> HIDE DEF p, out
  <2>5. CASE s = "EXIF"
    BY <2>1, <2>3, <2>4, <2>5
  <2>6. CASE s # "EXIF"
    BY <1>4, <2>1, <2>6 DEF Same, Segs
  <2> QED
    BY <2>5, <2>6
<1>8. Goal
  <2> HIDE DEF Goal
  <2> QED
    BY <1>5, <1>6, <1>7
<1> QED
  BY <1>2, <1>8

(* Written to the image it was read from, an unchanged Metadata gives the  *)
(* image back; written to another one, it writes every segment it holds    *)
(* that the container has a place for.                                     *)
THEOREM CopiesHold == ASSUME WholeReads PROVE Spec => Copies
<1>1. Inv /\ [Next]_vars => [\A w \in Writers : LET j == job[w] IN
        /\ Finished(w) /\ OwnImage(j) /\ ~j.strip
        /\ j.at.modified = {} /\ Parsed(j.at) \subseteq Held(j.at)
        => file'[j.f] = j.r]_vars
  <2> SUFFICES ASSUME Inv, Next, NEW w \in Writers, Finished(w), OwnImage(job[w]), ~job[w].strip,
                      job[w].at.modified = {}, Parsed(job[w].at) \subseteq Held(job[w].at)
               PROVE  file'[job[w].f] = job[w].r
    OBVIOUS
  <2>1. /\ scene \in Scenes /\ JobOK(job[w])
        /\ file'[job[w].f] = Output(job[w], md[job[w].m])
    BY FinishedIs
  <2> QED
    BY <2>1, GivesBackStep
<1>2. Inv /\ HeldIn(Loaded) /\ [Next]_vars => [\A w \in Writers : LET j == job[w] IN
        Finished(w) /\ ~OwnImage(j) => \A s \in Segs :
          LET versions == {j.at.raw[s], j.at.parsed[s], md[j.m].parsed[s]} \ {None}
              v == j.at.parsed[s]
              empty == s = "IPTC" /\ v # None /\ v.of = New /\ v.edits = {}
          IN Takes(j, s) /\ (j.at.raw[s] # None \/ v # None) /\ ~empty =>
                \E b \in versions : Same(file'[j.f].seg[s], b)]_vars
  <2> SUFFICES ASSUME Inv, HeldIn(Loaded), Next, NEW w \in Writers, Finished(w), NEW s \in Segs,
                      Takes(job[w], s), job[w].at.raw[s] # None \/ job[w].at.parsed[s] # None,
                      ~(s = "IPTC" /\ job[w].at.parsed[s] # None /\ NoDatasets(job[w].at.parsed[s]))
               PROVE  \E b \in {job[w].at.raw[s], job[w].at.parsed[s], md[job[w].m].parsed[s]} \ {None} :
                        Same(file'[job[w].f].seg[s], b)
    BY DEF NoDatasets
  <2>1. /\ scene \in Scenes /\ JobOK(job[w]) /\ md[job[w].m] \in Loaded
        /\ file'[job[w].f] = Output(job[w], md[job[w].m])
    BY FinishedIs DEF HeldIn, Finished
  <2> QED
    BY <2>1, CopiesStep
<1> QED
  BY <1>1, <1>2, Consistent, LoadedInv, PTL DEF Spec, Copies, GivesBack, CopiesAll

-----------------------------------------------------------------------------
(* What a write leaves alone.                                              *)

HasTIFF == \E f \in Files : Class[f] = "TIFF"

Marked == {d \in Metadata :
             HasTIFF /\ d.parsed["EXIF"] # None /\ d.raw["EXIF"] # None /\ "EXIF" \notin d.modified
                => Same(d.parsed["EXIF"], d.raw["EXIF"])}

LEMMA MarkedStep ==
    ASSUME SettersOnly, Inv, [Next]_vars, HeldIn(Marked) PROVE HeldIn(Marked)'
<1>1. scene' = scene /\ scene \in Scenes
  BY DEF Inv, Next, vars
<1>2. \A f \in Files : ImageOK(file[f], Class[f])
  BY DEF Inv
<1>3. ASSUME NEW f \in Files, NEW lazy \in LazySets PROVE MetadataOf(f, lazy) \in Marked
  <2> DEFINE d == MetadataOf(f, lazy)
             raw == Extract(file[f], "XMP" \notin lazy)
  <2>1. MetaOK(d) /\ lazy \in SUBSET Segs
    BY <1>1, <1>2, SceneFacts, MetadataOfOK
  <2>2. d.raw = raw /\ (d.parsed["EXIF"] # None => d.parsed["EXIF"] = Parse(raw["EXIF"]))
    BY DEF MetadataOf, Segs
  <2> HIDE DEF d
  <2>3. d.parsed["EXIF"] # None /\ d.raw["EXIF"] # None => Same(d.parsed["EXIF"], d.raw["EXIF"])
    BY <2>2 DEF Same, Parse
  <2>4. d \in Marked
    BY <2>1, <2>3 DEF Marked, MetaOK
  <2> QED
    BY <2>4 DEF d
<1>4. ASSUME NEW c \in Blank PROVE Empty(c) \in Marked
  <2>1. MetaOK(Empty(c)) /\ Empty(c).raw["EXIF"] = None
    BY <1>1, SceneFacts, EmptyOK DEF Empty, NoSegs, Segs
  <2> QED
    BY <2>1 DEF Marked, MetaOK
<1>5. ASSUME NEW d \in Marked, NEW e, MetaOK(e), e.raw["EXIF"] = d.raw["EXIF"],
             e.parsed["EXIF"] = d.parsed["EXIF"] \/ "EXIF" \in e.modified,
             d.modified \subseteq e.modified
      PROVE  e \in Marked
  BY <1>5 DEF Marked, MetaOK
<1>6. ASSUME NEW d \in Marked, NEW fld \in Fields, MetaOK(d) PROVE WithField(d, fld) \in Marked
  <2> DEFINE e == WithField(d, fld)
  <2>1. /\ MetaOK(e) /\ e.raw["EXIF"] = d.raw["EXIF"] /\ d.modified \subseteq e.modified
        /\ e.parsed["EXIF"] = d.parsed["EXIF"] \/ "EXIF" \in e.modified
    BY <1>1, <1>6, WithFieldOK DEF Later, Segs
  <2> HIDE DEF e
  <2>2. e \in Marked
    BY <1>5, <2>1
  <2> QED
    BY <2>2 DEF e
<1>7. ASSUME NEW d \in Marked, NEW s \in DirectSegs, MetaOK(d) PROVE WithMark(d, {s}) \in Marked
  <2> DEFINE e == WithMark(d, {s})
  <2>1. {s} \in SUBSET Segs
    BY <1>1, SceneFacts
  <2>2. /\ MetaOK(e) /\ e.raw["EXIF"] = d.raw["EXIF"] /\ d.modified \subseteq e.modified
        /\ e.parsed["EXIF"] = d.parsed["EXIF"]
    BY <1>1, <1>7, <2>1, WithMarkOK DEF Later
  <2> HIDE DEF e
  <2>3. e \in Marked
    BY <1>5, <2>2
  <2> QED
    BY <2>3 DEF e
<1>8. ASSUME NEW d \in Marked, NEW s \in Segs, s \in DirectSegs \union AssignSegs, MetaOK(d),
             NEW e, MetaOK(e), e.raw = d.raw, e.modified = d.modified,
             \A t \in Segs \ {s} : e.parsed[t] = d.parsed[t]
      PROVE  e \in Marked
  <2>1. HasTIFF => s # "EXIF"
    BY <1>1, <1>8 DEF SettersOnly, HasTIFF, Files, DirectSegs, AssignSegs
  <2> QED
    BY <1>8, <2>1 DEF Marked, MetaOK, Segs
<1>9. ASSUME NEW d \in Marked, NEW s \in Segs, s \in DirectSegs, MetaOK(d), d.parsed[s] # None
      PROVE  WithEdit(d, s) \in Marked
  BY <1>1, <1>8, <1>9, WithEditOK DEF Later
<1>10. ASSUME NEW d \in Marked, NEW s \in Segs, s \in AssignSegs, MetaOK(d) PROVE WithValue(d, s) \in Marked
  BY <1>1, <1>8, <1>10, WithValueOK
<1>11. DirectSegs \subseteq Segs /\ AssignSegs \subseteq Segs
  BY <1>1, SceneFacts
<1> DEFINE S == Marked
<1>12. S' = S
  BY <1>1, SameScene DEF Marked, HasTIFF
<1> HIDE DEF S
<1>13. /\ \A m \in Metas : md'[m] # None => md'[m] \in S
       /\ \A w \in Writers : job'[w] # None => md'[job'[w].m] \in S
  BY <1>3, <1>4, <1>6, <1>7, <1>9, <1>10, <1>11, Closed DEF S
<1> QED
  BY <1>1, <1>12, <1>13, SameScene DEF HeldIn, S

LEMMA MarkedInv == ASSUME SettersOnly PROVE Spec => []HeldIn(Marked)
<1>1. Init => HeldIn(Marked)
  BY DEF Init, HeldIn
<1> QED
  BY <1>1, MarkedStep, Consistent, PTL DEF Spec

(* In its own image, what a Metadata holds is what the image holds.        *)
LEMMA OwnRaw ==
    ASSUME scene \in Scenes, NEW d, MetaOK(d), NEW c, ImageOK(d.seen, c), d.seen # None
    PROVE  /\ \A s \in Segs : d.raw[s] = None <=> d.seen.seg[s] = None
           /\ c # "JPEG" => \A s \in Segs : d.raw[s] = d.seen.seg[s]
<1> DEFINE i == d.seen
           b == i.seg["XMP"]
<1>1. ReadFrom(d, i) /\ i \in Images /\ i.seg \in [Segs -> Bytes \union {None}]
  BY ImageSegs DEF MetaOK, ReadFrom
<1>2. PICK want \in BOOLEAN : d.raw = Extract(i, want)
  BY <1>1 DEF ReadFrom
<1>3. /\ \A s \in {"EXIF", "IPTC"} : d.raw[s] = i.seg[s]
      /\ d.raw["XMP"] = RawXMP(b, want)
      /\ \A s \in Segs : i.seg[s] = None <=> d.raw[s] = None
  BY <1>1, <1>2, ExtractFacts
<1>4. b \in Bytes \union {None}
  BY <1>1 DEF Segs
<1>5. c # "JPEG" /\ b # None => b.form \notin {"split", "loose"}
  BY DEF ImageOK
<1>6. c # "JPEG" => d.raw["XMP"] = b
  BY <1>3, <1>4, <1>5, RawXMPFacts
<1> QED
  BY <1>3, <1>6 DEF Segs

LEMMA CarriedStep ==
    ASSUME scene \in Scenes, NEW j, JobOK(j), md[j.m] \in Marked, OwnImage(j),
           NEW s \in Unchanged(j)
    PROVE  LET out == Output(j, md[j.m]) IN
           IF Class[j.f] = "TIFF" /\ s = "EXIF"
           THEN md[j.m] = j.at => Same(out.seg[s], j.r.seg[s])
           ELSE out.seg[s] = j.r.seg[s]
<1> DEFINE d == md[j.m]
           c == Class[j.f]
           r == j.r
           out == Output(j, d)
           p == Payload(d, c, j.enc)
<1>1. /\ MetaOK(j.at) /\ MetaOK(d) /\ Later(j.at, d) /\ c \in Classes /\ j.f \in Files
      /\ r \in Images /\ ImageOK(r, c)
      /\ PlanFits(c, r, j.at, j)
  BY JobFacts
<1>2. s \in Segs /\ r # None /\ r = j.at.seen /\ r = d.seen
  BY <1>1, SceneFacts DEF Unchanged, OwnImage, Later
<1>3. \A t \in Segs : d.raw[t] = None <=> r.seg[t] = None
  BY <1>1, <1>2, OwnRaw
<1>4. c # "JPEG" => \A t \in Segs : d.raw[t] = r.seg[t]
  BY <1>1, <1>2, OwnRaw
<1>5. s \notin EncodeSet(j.at)
  BY <1>1, <1>2, <1>3 DEF Unchanged, EncodeSet, Parsed, Held, Later
<1>6. j.enc = EncodeSet(j.at) /\ (c = "JPEG" => s \in j.carry)
  <2>1. \A check \in SUBSET Segs : SourceHolds(r, j.at, check)
    BY <1>1, <1>2, OwnHolds
  <2>2. j.enc = EncodeSet(j.at)
    BY <1>1, <2>1 DEF PlanFits
  <2> QED
    BY <1>1, <1>2, <1>5, <2>2 DEF PlanFits
<1>7. j.enc \in SUBSET Segs /\ s \notin j.enc
  BY <1>1, <1>5, <1>6 DEF PlanFits
<1>8. c # "JPEG" => p[s] = r.seg[s]
  <2> HIDE DEF p
  <2>1. c # "JPEG" => p[s] = d.raw[s]
    BY <1>1, <1>2, <1>7, PayloadSeg DEF p
  <2> QED
    BY <1>2, <1>4, <2>1
<1> DEFINE Goal == IF c = "TIFF" /\ s = "EXIF"
                   THEN d = j.at => Same(out.seg[s], r.seg[s])
                   ELSE out.seg[s] = r.seg[s]
<1>9. ASSUME j.bypass, ~j.strip PROVE Goal
  <2>1. out = r
    BY <1>9 DEF Output
  <2>2. c = "TIFF" => r.seg["EXIF"] # None
    BY <1>1 DEF ImageOK
  <2> QED
    BY <2>1, <2>2 DEF Same
<1>10. ASSUME ~(j.bypass /\ ~j.strip), c # "TIFF" PROVE Goal
  <2>1. out = Inject(c, r, p, j.carry)
    BY <1>10 DEF Output
  <2>2. c \in {"JPEG", "PNG", "WEBP", "BMFF"} /\ j.carry \in SUBSET Segs
    BY <1>1, <1>10 DEF Classes, PlanFits
  <2>3. /\ c = "JPEG" => out.seg = InjectJPEG(r, p, j.carry)
        /\ c = "PNG"  => out.seg = InjectPNG(r, p, j.carry)
        /\ c = "WEBP" => out.seg = InjectWebP(p)
        /\ c = "BMFF" => out.seg = InjectBMFF(r, p)
    BY <1>1, <1>7, <2>1, <2>2, InjectOK
  <2>4. p \in [Segs -> Bytes \union {None}]
    BY <1>1, <1>7, PayloadOK
  <2>5. c \in {"WEBP", "BMFF"} => r.seg["IPTC"] = None
    BY <1>1 DEF ImageOK
  <2> HIDE DEF p, out
  <2>6. out.seg[s] = r.seg[s]
    <3>1. CASE c = "JPEG"
      BY <1>2, <1>6, <2>3, <3>1 DEF InjectJPEG
    <3>2. CASE c = "PNG"
      BY <1>2, <1>8, <2>3, <3>2 DEF InjectPNG
    <3>3. CASE c = "WEBP"
      BY <1>2, <1>8, <2>3, <2>4, <2>5, <3>3 DEF InjectWebP
    <3>4. CASE c = "BMFF"
      BY <1>2, <1>8, <2>3, <2>5, <3>4 DEF InjectBMFF
    <3> QED
      BY <2>2, <3>1, <3>2, <3>3, <3>4
  <2> QED
    BY <1>10, <2>6
<1>11. ASSUME ~(j.bypass /\ ~j.strip), c = "TIFF" PROVE Goal
  <2>1. r.seg["EXIF"] # None /\ d.raw["EXIF"] = r.seg["EXIF"]
    BY <1>1, <1>4, <1>11 DEF ImageOK, Segs
  <2>2. /\ s \in {"IPTC", "XMP"} /\ p[s] # None => out.seg[s] = p[s]
        /\ d.parsed["EXIF"] # None => Same(out.seg["EXIF"], d.parsed["EXIF"])
        /\ d.parsed["EXIF"] = None => Same(out.seg["EXIF"], d.raw["EXIF"]) \/ out = r
        /\ s \in {"IPTC", "XMP"} /\ p[s] = None =>
              \E i \in {r, d.seen} : out.seg[s] \in {None, i.seg[s]}
    BY <1>11, <2>1, TIFFSeg
  <2> HIDE DEF p, out
  <2>3. ASSUME s \in {"IPTC", "XMP"} PROVE Goal
    BY <1>2, <1>8, <1>11, <2>2, <2>3
  <2>4. ASSUME s = "EXIF" PROVE Goal
    <3>1. ASSUME d = j.at PROVE Same(out.seg["EXIF"], r.seg["EXIF"])
      <4>1. CASE d.parsed["EXIF"] = None
        BY <2>1, <2>2, <4>1 DEF Same
      <4>2. CASE d.parsed["EXIF"] # None
        <5>1. "EXIF" \notin d.modified
          BY <2>4, <3>1, <4>2 DEF Unchanged
        <5>2. HasTIFF
          BY <1>1, <1>11 DEF HasTIFF
        <5>3. Same(d.parsed["EXIF"], d.raw["EXIF"])
          BY <2>1, <4>2, <5>1, <5>2 DEF Marked
        <5> QED
          BY <2>1, <2>2, <4>2, <5>3 DEF Same
      <4> QED
        BY <4>1, <4>2
    <3> QED
      BY <1>11, <2>4, <3>1
  <2> QED
    BY <1>2, <2>3, <2>4 DEF Segs
<1>12. Goal
  <2> HIDE DEF Goal
  <2> QED
    BY <1>9, <1>10, <1>11
<1> QED
  BY <1>12

(* A write to the image a Metadata was read from changes what was edited   *)
(* and nothing else, and a write to any image delivers every edit.         *)
THEOREM OnlyEditsWritten == ASSUME SettersOnly PROVE Spec => OnlyEdits
<1>1. Inv /\ HeldIn(Marked) /\ [Next]_vars => [\A w \in Writers : LET j == job[w] IN
        Finished(w) /\ OwnImage(j) =>
          \A s \in Unchanged(j) : LET b == file'[j.f].seg[s] IN
            IF Class[j.f] = "TIFF" /\ s = "EXIF"
            THEN md[j.m] = j.at => Same(b, j.r.seg[s])
            ELSE b = j.r.seg[s]]_vars
  <2> SUFFICES ASSUME Inv, HeldIn(Marked), Next, NEW w \in Writers, Finished(w), OwnImage(job[w]),
                      NEW s \in Unchanged(job[w])
               PROVE  LET b == file'[job[w].f].seg[s] IN
                      IF Class[job[w].f] = "TIFF" /\ s = "EXIF"
                      THEN md[job[w].m] = job[w].at => Same(b, job[w].r.seg[s])
                      ELSE b = job[w].r.seg[s]
    OBVIOUS
  <2>1. /\ scene \in Scenes /\ JobOK(job[w]) /\ md[job[w].m] \in Marked
        /\ file'[job[w].f] = Output(job[w], md[job[w].m])
    BY FinishedIs DEF HeldIn, Finished
  <2> QED
    BY <2>1, CarriedStep
<1>2. SettersOnly => (Spec => Carried)
  BY <1>1, Consistent, MarkedInv, PTL DEF Spec, Carried
<1> QED
  BY <1>2, EditsDelivered DEF OnlyEdits

-----------------------------------------------------------------------------
(* What holds of every image: a set of images for each file that no write  *)
(* leaves.                                                                 *)

ImagesIn(S) ==
    /\ \A f \in Files : file[f] \in S[f]
    /\ \A w \in Writers : job[w] # None => job[w].r \in S[job[w].f]

LEMMA ImagesStay ==
    ASSUME Inv, [Next]_vars, NEW S, ImagesIn(S),
           \A w \in Writers : job[w] # None => Output(job[w], md[job[w].m]) \in S[job[w].f]
    PROVE  /\ \A f \in Files : file'[f] \in S[f]
           /\ \A w \in Writers : job'[w] # None => job'[w].r \in S[job'[w].f]
<1> DEFINE Goal == /\ \A f \in Files : file'[f] \in S[f]
                   /\ \A w \in Writers : job'[w] # None => job'[w].r \in S[job'[w].f]
<1>1. /\ file \in [Files -> Images] /\ job \in [Writers -> Jobs \union {None}]
      /\ \A w \in Writers : job[w] # None => job[w].f \in Files
  BY DEF Inv, TypeOK, Jobs
<1>2. ASSUME UNCHANGED <<file, job>> PROVE Goal
  BY <1>2 DEF ImagesIn
<1>3. ASSUME NEW w \in Writers, NEW m \in Metas, NEW f \in Files, NEW strip \in Strip,
             Begin(w, m, f, strip)
      PROVE  Goal
  <2>1. /\ UNCHANGED file /\ job'[w].r = file[f] /\ job'[w].f = f
        /\ \A v \in Writers \ {w} : job'[v] = job[v]
    BY <1>1, <1>3 DEF Begin
  <2> QED
    BY <2>1 DEF ImagesIn
<1>4. ASSUME NEW w \in Writers, Finish(w) PROVE Goal
  <2>1. /\ job[w] # None /\ job' = [job EXCEPT ![w] = None]
        /\ \/ UNCHANGED file
           \/ file' = [file EXCEPT ![job[w].f] = Output(job[w], md[job[w].m])]
    BY <1>4 DEF Finish
  <2>2. \A v \in Writers : job'[v] # None => job'[v] = job[v]
    BY <1>1, <2>1
  <2>3. \A f \in Files : file'[f] \in S[f]
    BY <1>1, <2>1 DEF ImagesIn
  <2> QED
    BY <2>2, <2>3 DEF ImagesIn
<1> HIDE DEF Goal
<1>5. ASSUME UNCHANGED vars PROVE Goal
  BY <1>2, <1>5 DEF vars
<1>6. ASSUME \/ \E m \in Metas, f \in Files, lazy \in LazySets : Read(m, f, lazy)
             \/ \E m \in Metas, c \in Blank : NewMetadata(m, c)
             \/ \E m \in Metas, fld \in Fields : Set(m, fld)
             \/ \E m \in Metas, s \in DirectSegs : MarkModified(m, {s}) \/ EditDirectly(m, s)
             \/ \E m \in Metas, s \in AssignSegs : Assign(m, s)
      PROVE  Goal
  BY ZenonT(60), <1>2, <1>6 DEF Read, NewMetadata, Set, MarkModified, EditDirectly, Assign
<1> QED
  <2>1. Goal
    BY <1>3, <1>4, <1>5, <1>6 DEF Next, Step
  <2> QED
    BY <2>1 DEF Goal

-----------------------------------------------------------------------------
(* No packet links to extended XMP that the file does not hold.            *)

NoLink(b) == b # None => b.form # "linked"
AllJPEG == \A f \in Files : Class[f] = "JPEG"

Linkless == {i \in Images : NoLink(i.seg["XMP"])}

(* A raw XMP with a link was not loaded, and its wire frame was kept.      *)
Unlinked == {d \in Metadata :
    /\ d.seen # None => d.seen \in Linkless
    /\ NoLink(d.parsed["XMP"])
    /\ ~NoLink(d.raw["XMP"]) => AllJPEG /\ d.wire # None /\ "XMP" \in d.opaque}

LinkInv == HeldIn(Unlinked) /\ ImagesIn([f \in Files |-> Linkless])

LEMMA UnlinkedRead ==
    ASSUME LinkScenes, scene \in Scenes, NEW f \in Files, NEW lazy \in LazySets,
           ImageOK(file[f], Class[f]), file[f] \in Linkless
    PROVE  MetadataOf(f, lazy) \in Unlinked
<1> DEFINE d == MetadataOf(f, lazy)
           want == "XMP" \notin lazy
           i == file[f]
           b == i.seg["XMP"]
           raw == Extract(i, want)
<1>1. MetaOK(d) /\ lazy \in SUBSET Segs
  BY SceneFacts, MetadataOfOK
<1>2. i \in Images /\ b \in Bytes \union {None} /\ NoLink(b) /\ want \in BOOLEAN
  BY ImageSegs DEF Linkless, Segs
<1>3. raw["XMP"] = RawXMP(b, want)
  BY <1>2, ExtractFacts
<1>4. /\ d.raw = raw /\ d.wire = Wire(b) /\ d.seen = i
      /\ d.parsed["XMP"] # None => d.parsed["XMP"].form = raw["XMP"].form /\ raw["XMP"] # None
      /\ ~want /\ raw["XMP"] # None => d.parsed["XMP"] = None /\ "XMP" \in d.opaque
  BY DEF MetadataOf, Segs, Parse
<1>5. want => NoLink(RawXMP(b, want))
  BY <1>2 DEF RawXMP, NoLink, Bytes, BytesOf
<1>6. ~NoLink(RawXMP(b, want)) => Wire(b) # None
  BY <1>2, SceneFacts DEF RawXMP, NoLink, Wire
<1>7. want \/ AllJPEG
  BY DEF LinkScenes, AllJPEG, Files, LazySets
<1> HIDE DEF d, raw, want, b
<1>8. d \in Unlinked
  BY <1>1, <1>2, <1>3, <1>4, <1>5, <1>6, <1>7 DEF Unlinked, MetaOK, NoLink
<1> QED
  BY <1>8 DEF d

LEMMA UnlinkedEdits ==
    ASSUME scene \in Scenes, NEW d \in Unlinked, NEW e, MetaOK(e), Later(d, e) PROVE e \in Unlinked
  BY DEF Unlinked, Later, NoLink, MetaOK, Segs

LEMMA UnlinkedStep ==
    ASSUME LinkScenes, Inv, [Next]_vars, LinkInv PROVE HeldIn(Unlinked)'
<1>1. scene' = scene /\ scene \in Scenes /\ HeldIn(Unlinked)
  BY DEF Inv, Next, vars, LinkInv
<1>2. \A f \in Files : ImageOK(file[f], Class[f]) /\ file[f] \in Linkless
  BY DEF Inv, LinkInv, ImagesIn
<1>3. \A f \in Files, lazy \in LazySets : MetadataOf(f, lazy) \in Unlinked
  BY <1>1, <1>2, UnlinkedRead
<1>4. ASSUME NEW c \in Blank PROVE Empty(c) \in Unlinked
  <2>1. MetaOK(Empty(c)) /\ c \in Classes
    BY <1>1, SceneFacts, EmptyOK
  <2>2. Empty(c).seen = None /\ Empty(c).parsed["XMP"] = None /\ Empty(c).raw["XMP"] = None
    BY DEF Empty, NoSegs, Segs
  <2> QED
    BY <2>1, <2>2 DEF Unlinked, MetaOK, NoLink
<1>5. ASSUME NEW d \in Unlinked, NEW fld \in Fields, MetaOK(d) PROVE WithField(d, fld) \in Unlinked
  BY <1>1, <1>5, WithFieldOK, UnlinkedEdits
<1>6. ASSUME NEW d \in Unlinked, NEW s \in Segs, MetaOK(d) PROVE WithMark(d, {s}) \in Unlinked
  BY <1>1, <1>6, WithMarkOK, UnlinkedEdits
<1>7. ASSUME NEW d \in Unlinked, NEW s \in Segs, MetaOK(d), d.parsed[s] # None
      PROVE  WithEdit(d, s) \in Unlinked
  BY <1>1, <1>7, WithEditOK, UnlinkedEdits
<1>8. ASSUME NEW d \in Unlinked, NEW s \in Segs, MetaOK(d) PROVE WithValue(d, s) \in Unlinked
  <2> DEFINE e == WithValue(d, s)
  <2>1. /\ MetaOK(e) /\ e.parsed["XMP"] \in {Fresh, d.parsed["XMP"]}
        /\ e.raw = d.raw /\ e.wire = d.wire /\ e.opaque = d.opaque /\ e.seen = d.seen
    BY <1>1, <1>8, WithValueOK DEF Segs
  <2> HIDE DEF e
  <2>2. e \in Unlinked
    BY <2>1 DEF Unlinked, MetaOK, NoLink, Fresh
  <2> QED
    BY <2>2 DEF e
<1>9. DirectSegs \subseteq Segs /\ AssignSegs \subseteq Segs
  BY <1>1, SceneFacts
<1> DEFINE S == Unlinked
<1>10. S' = S
  BY <1>1, SameScene DEF Unlinked, Linkless, AllJPEG
<1> HIDE DEF S
<1>11. /\ \A m \in Metas : md'[m] # None => md'[m] \in S
       /\ \A w \in Writers : job'[w] # None => md'[job'[w].m] \in S
  BY <1>1, <1>3, <1>4, <1>5, <1>6, <1>7, <1>8, <1>9, Closed DEF S
<1> QED
  BY <1>1, <1>10, <1>11, SameScene DEF HeldIn, S

LEMMA PayloadLinkless ==
    ASSUME scene \in Scenes, NEW d \in Unlinked, MetaOK(d), NEW f \in Files,
           NEW enc \in SUBSET Segs
    PROVE  NoLink(Payload(d, Class[f], enc)["XMP"])
<1> DEFINE c == Class[f]
           v == d.parsed["XMP"]
<1>1. v \in Values \union {None} /\ d.raw["XMP"] \in Bytes \union {None}
  BY Typed DEF MetaOK, Segs
<1>2. v # None => NoLink(Encode(v)) /\ NoLink([Encode(v) EXCEPT !.form = "loose"])
  BY <1>1, EncodeFacts DEF Unlinked, NoLink, Bytes, BytesOf
<1>3. NoLink(d.wire)
  <2>1. d.seen = None => d.wire = None
    BY DEF MetaOK
  <2>2. d.seen # None => d.wire = Wire(d.seen.seg["XMP"])
    BY DEF MetaOK, ReadFrom
  <2> QED
    BY <2>1, <2>2 DEF Wire, NoLink
<1>4. ~NoLink(d.raw["XMP"]) => d.wire # None /\ c = "JPEG"
  BY DEF Unlinked, AllJPEG
<1>5. NoLink(EncodeXMP(d, c, enc))
  BY <1>2, <1>3, <1>4 DEF EncodeXMP
<1> QED
  BY <1>5 DEF Payload, Segs

LEMMA OutputLinkless ==
    ASSUME scene \in Scenes, NEW j, JobOK(j), md[j.m] \in Unlinked, j.r \in Linkless
    PROVE  Output(j, md[j.m]) \in Linkless
<1> DEFINE d == md[j.m]
           c == Class[j.f]
           r == j.r
           out == Output(j, d)
           p == Payload(d, c, j.enc)
<1>1. /\ MetaOK(d) /\ c \in Classes /\ j.f \in Files /\ r \in Images /\ ImageOK(r, c)
      /\ j.enc \in SUBSET Segs /\ j.carry \in SUBSET Segs
  BY JobFacts DEF PlanFits
<1>2. out \in Images
  BY OutputOK DEF ImageOK
<1>3. NoLink(p["XMP"]) /\ p \in [Segs -> Bytes \union {None}]
  BY <1>1, PayloadLinkless, PayloadOK
<1>4. NoLink(r.seg["XMP"]) /\ (d.seen # None => NoLink(d.seen.seg["XMP"]))
  BY DEF Linkless, Unlinked
<1> DEFINE Goal == NoLink(out.seg["XMP"])
<1>5. ASSUME j.bypass, ~j.strip PROVE Goal
  BY <1>4, <1>5 DEF Output
<1>6. ASSUME ~(j.bypass /\ ~j.strip), c # "TIFF" PROVE Goal
  <2>1. out = Inject(c, r, p, j.carry)
    BY <1>6 DEF Output
  <2>2. c \in {"JPEG", "PNG", "WEBP", "BMFF"}
    BY <1>1, <1>6 DEF Classes
  <2>3. /\ c = "JPEG" => out.seg = InjectJPEG(r, p, j.carry)
        /\ c = "PNG"  => out.seg = InjectPNG(r, p, j.carry)
        /\ c = "WEBP" => out.seg = InjectWebP(p)
        /\ c = "BMFF" => out.seg = InjectBMFF(r, p)
    BY <1>1, <2>1, <2>2, InjectOK
  <2>4. NoLink(Resolve(p["XMP"], r))
    <3>1. p["XMP"] \in Bytes \union {None}
      BY <1>3 DEF Segs
    <3> HIDE DEF p
    <3> QED
      BY <1>3, <3>1, ResolveFacts DEF NoLink
  <2> HIDE DEF p, out
  <2>5. out.seg["XMP"] \in {r.seg["XMP"], p["XMP"], Resolve(p["XMP"], r)}
    <3>1. CASE c = "JPEG"
      BY <2>3, <3>1 DEF InjectJPEG, Segs
    <3>2. CASE c = "PNG"
      BY <2>3, <3>2 DEF InjectPNG, Segs
    <3>3. CASE c = "WEBP"
      BY <1>3, <2>3, <3>3 DEF InjectWebP, Segs
    <3>4. CASE c = "BMFF"
      BY <2>3, <3>4 DEF InjectBMFF, Segs
    <3> QED
      BY <2>2, <3>1, <3>2, <3>3, <3>4
  <2> QED
    BY <1>3, <1>4, <2>4, <2>5
<1>7. ASSUME ~(j.bypass /\ ~j.strip), c = "TIFF" PROVE Goal
  <2>1. /\ p["XMP"] # None => out.seg["XMP"] = p["XMP"]
        /\ p["XMP"] = None =>
              \E i \in {r, d.seen} \ {None} : out.seg["XMP"] \in {None, i.seg["XMP"]}
    BY <1>7, TIFFSeg
  <2> HIDE DEF p, out
  <2> QED
    BY <1>3, <1>4, <2>1 DEF NoLink
<1>8. NoLink(out.seg["XMP"])
  BY <1>5, <1>6, <1>7
<1> QED
  BY <1>2, <1>8 DEF Linkless

(* Every packet that links to extended XMP has it in its file, through     *)
(* setters, skipped segments, repeated writes and copies to other files.   *)
THEOREM LinksHold == ASSUME LinkScenes PROVE Spec => []LinkHolds
<1>1. Init => LinkInv
  <2> SUFFICES ASSUME Init, NEW f \in Files PROVE file[f] \in Linkless
    BY DEF LinkInv, HeldIn, ImagesIn, Init
  <2>1. scene \in Scenes /\ f \in DOMAIN Class /\ file[f] \in Images
    BY InitInv, SceneFacts DEF Inv, TypeOK, Init
  <2>2. Original[f]["XMP"] \in {None, "whole", "bad", "split", "loose"}
    BY <2>1, OriginalAssumption DEF Segs
  <2>3. NoLink(file[f].seg["XMP"])
    BY <2>1, <2>2, OriginalAssumption DEF Init, NoLink, Segs, Forms
  <2> QED
    BY <2>1, <2>3 DEF Linkless
<1>2. Inv /\ [Next]_vars /\ LinkInv => LinkInv'
  <2> SUFFICES ASSUME Inv, [Next]_vars, LinkInv PROVE LinkInv'
    OBVIOUS
  <2>1. scene' = scene /\ scene \in Scenes
    BY DEF Inv, Next, vars
  <2>2. HeldIn(Unlinked)'
    BY UnlinkedStep
  <2> DEFINE S == [f \in Files |-> Linkless]
  <2>3. ASSUME NEW w \in Writers, job[w] # None PROVE Output(job[w], md[job[w].m]) \in S[job[w].f]
    <3>1. JobOK(job[w]) /\ job[w].f \in Files
      BY <2>3 DEF Inv, JobOK, JobFits, Jobs
    <3>2. md[job[w].m] \in Unlinked /\ job[w].r \in Linkless
      BY <2>3, <3>1 DEF LinkInv, HeldIn, ImagesIn
    <3> QED
      BY <2>1, <3>1, <3>2, OutputLinkless
  <2>4. S' = S /\ ImagesIn(S)
    BY <2>1, SameScene DEF Linkless, LinkInv
  <2> HIDE DEF S
  <2>5. /\ \A f \in Files : file'[f] \in S[f]
        /\ \A w \in Writers : job'[w] # None => job'[w].r \in S[job'[w].f]
    BY <2>3, <2>4, ImagesStay
  <2>6. ImagesIn(S)'
    BY <2>1, <2>4, <2>5, SameScene DEF ImagesIn
  <2> QED
    BY <2>2, <2>6 DEF LinkInv, S
<1>3. Inv /\ LinkInv => LinkHolds
  BY DEF Inv, LinkInv, LinkHolds, ImagesIn, Linkless, NoLink
<1> QED
  BY <1>1, <1>2, <1>3, Consistent, PTL DEF Spec

-----------------------------------------------------------------------------
(* No write changes the picture.                                           *)

LEMMA PixelsStep ==
    ASSUME scene \in Scenes, NEW j, JobOK(j), ~Misplaced(j, md[j.m])
    PROVE  Output(j, md[j.m]).pixels = j.r.pixels
<1> DEFINE d == md[j.m]
           c == Class[j.f]
           out == Output(j, d)
<1>1. /\ MetaOK(d) /\ c \in Classes /\ j.f \in Files /\ ImageOK(j.r, c)
      /\ j.enc \in SUBSET Segs /\ j.carry \in SUBSET Segs
      /\ c = "TIFF" => d.fmt = "TIFF"
  BY JobFacts DEF PlanFits, JobOK, JobFits, Later
<1>2. CASE j.bypass /\ ~j.strip
  BY <1>2 DEF Output
<1>3. CASE ~(j.bypass /\ ~j.strip) /\ c # "TIFF"
  <2>1. out = Inject(c, j.r, Payload(d, c, j.enc), j.carry)
    BY <1>3 DEF Output
  <2>2. c \in {"JPEG", "PNG", "WEBP", "BMFF"}
    BY <1>1, <1>3 DEF Classes
  <2> QED
    BY <1>1, <2>1, <2>2, InjectOK
<1>4. CASE ~(j.bypass /\ ~j.strip) /\ c = "TIFF"
  <2> DEFINE base == Base(j.r, d)
             e == LaidOut(j.r, d)
             p == Payload(d, "TIFF", j.enc)
             place == [file |-> j.f, write |-> j.id]
             Tag(s) == IF p[s] # None THEN p[s] ELSE IF e.of = New THEN None ELSE base.seg[s]
             seg == [s \in Segs |-> IF s = "EXIF" THEN Encode(e) ELSE Tag(s)]
             pixels == CASE e.of = New -> Lost
                         [] e.of # New /\ Whole(d) -> base.pixels
                         [] e.of # New /\ ~Whole(d) ->
                               IF j.r.laid = base.laid THEN j.r.pixels ELSE Lost
  <2>1. out = WriteTIFF(j.r, d, j.enc, place)
    BY <1>4 DEF Output
  <2>2. out = IF d.parsed["EXIF"] = None /\ p["IPTC"] = None /\ p["XMP"] = None
              THEN IF Whole(d) THEN base ELSE j.r
              ELSE [seg |-> seg, pixels |-> pixels, laid |-> place]
    BY <2>1 DEF WriteTIFF
  <2>3. e.of # New /\ ~OtherPicture(j.r, d)
    BY <1>1, <1>4 DEF Misplaced, NoImageData
  <2>4. base.pixels = j.r.pixels /\ (Whole(d) \/ base.laid = j.r.laid)
    BY <2>3 DEF OtherPicture, Base, Whole
  <2> HIDE DEF out, base, e, p, place, seg
  <2>5. pixels = j.r.pixels
    BY <2>3, <2>4
  <2> HIDE DEF pixels
  <2> QED
    BY <2>2, <2>4, <2>5 DEF out
<1> QED
  BY <1>2, <1>3, <1>4

(* A write that finishes leaves the picture of the image it was given,     *)
(* whatever the setters and the other goroutines did since it began, if a  *)
(* TIFF is laid out from an EXIF that describes that image.                *)
THEOREM PixelsStay == Spec => PixelsKept
<1>1. ASSUME Inv, [Next]_vars
      PROVE  [\A w \in Writers :
                LET j == job[w] IN
                Finished(w) /\ ~Misplaced(j, md[j.m]) => file'[j.f].pixels = j.r.pixels]_vars
  <2> SUFFICES ASSUME Next, NEW w \in Writers, Finished(w), ~Misplaced(job[w], md[job[w].m])
               PROVE  file'[job[w].f].pixels = job[w].r.pixels
    BY <1>1
  <2>1. /\ scene \in Scenes /\ JobOK(job[w])
        /\ file'[job[w].f] = Output(job[w], md[job[w].m])
    BY <1>1, FinishedIs
  <2> QED
    BY <2>1, PixelsStep
<1> QED
  BY <1>1, Consistent, PTL DEF Spec, PixelsKept

-----------------------------------------------------------------------------
(* A repeated write.                                                       *)

(* Writing d to r gives back r.                                            *)
Fixed(c, r, d) ==
    LET plan == PlanWrite(c, r, d)
    IN plan.bypass \/ Inject(c, r, Payload(d, c, plan.enc), plan.carry) = r

Injected == {"JPEG", "PNG", "WEBP", "BMFF"}

LEMMA SourceMoves ==
    ASSUME scene \in Scenes, NEW r \in Images, NEW i \in Images, NEW d, NEW check \in SUBSET Segs,
           \A s \in check : i.seg[s] = r.seg[s], i.laid = r.laid, SourceHolds(r, d, check)
    PROVE  SourceHolds(i, d, check)
<1>1. ASSUME NEW want \in BOOLEAN, SourceMatches(r, d, check, want)
      PROVE  SourceMatches(i, d, check, want)
  <2>1. ASSUME NEW s \in check PROVE Extract(i, want)[s] = Extract(r, want)[s]
    BY ZenonT(60), <2>1, ExtractFacts DEF Segs
  <2> QED
    BY <1>1, <2>1 DEF SourceMatches
<1>2. ("XMP" \notin d.opaque) \in BOOLEAN
  OBVIOUS
<1> QED
  BY <1>1, <1>2 DEF SourceHolds

(* Where nothing splits the XMP, what is checked is equal.                 *)
LEMMA SourceEqual ==
    ASSUME scene \in Scenes, NEW c \in Injected \ {"JPEG"}, NEW r, ImageOK(r, c), NEW d, MetaOK(d),
           NEW check \in SUBSET Segs, SourceHolds(r, d, check), NEW s \in check
    PROVE  r.seg[s] = d.raw[s]
<1>1. r \in Images /\ r.seg \in [Segs -> Bytes \union {None}]
  BY ImageSegs
<1>2. s # "XMP" => r.seg[s] = d.raw[s]
  BY <1>1, SourceSame
<1>3. PICK want \in BOOLEAN : SourceMatches(r, d, check, want)
  BY DEF SourceHolds
<1>4. s = "XMP" => RawXMP(r.seg["XMP"], want) = d.raw["XMP"]
  BY <1>1, <1>3, ExtractFacts DEF SourceMatches
<1>5. RawXMP(r.seg["XMP"], want) = r.seg["XMP"]
  <2>1. r.seg["XMP"] # None => r.seg["XMP"].form \notin {"split", "loose"}
    BY DEF ImageOK
  <2> QED
    BY <1>1, <2>1 DEF RawXMP, Segs
<1> QED
  BY <1>2, <1>4, <1>5 DEF Segs

LEMMA ResolveTwice ==
    ASSUME scene \in Scenes, NEW b \in Bytes \union {None}, NEW r, NEW i,
           i.seg["XMP"] = Resolve(b, r)
    PROVE  Resolve(b, i) = Resolve(b, r)
<1>1. b # None => [b EXCEPT !.form = "main"].form = "main" /\ [b EXCEPT !.form = "main"] # None
  BY SceneFacts DEF Bytes, BytesOf, Forms
<1> QED
  BY <1>1 DEF Resolve

(* A second injection of what was injected, or of what is there, changes   *)
(* nothing.                                                                *)
LEMMA InjectAgain ==
    ASSUME scene \in Scenes, NEW c \in Injected, NEW r \in Images,
           NEW p \in [Segs -> Bytes \union {None}], NEW keep,
           NEW q \in [Segs -> Bytes \union {None}], NEW again, NEW out, out \in Images,
           out = Inject(c, r, p, keep),
           \A s \in Segs :
             IF c \in {"JPEG", "PNG"} THEN s \in again \/ (s \notin keep /\ q[s] = p[s])
             ELSE q[s] \in {p[s], out.seg[s]}
    PROVE  Inject(c, out, q, again) = out
<1>1. r.seg \in [Segs -> Bytes \union {None}] /\ out.seg \in [Segs -> Bytes \union {None}]
  BY DEF Images, ImagesOf, Bytes
<1>2. ASSUME NEW i \in Images, NEW X PROVE [i EXCEPT !.seg = X].seg = X
  BY DEF Images, ImagesOf
<1>3. [out EXCEPT !.seg = out.seg] = out
  BY DEF Images, ImagesOf
<1>4. CASE c = "JPEG"
  <2>1. out.seg = InjectJPEG(r, p, keep)
    BY <1>2, <1>4 DEF Inject
  <2>2. Inject(c, out, q, again) = [out EXCEPT !.seg = InjectJPEG(out, q, again)]
    BY <1>4 DEF Inject
  <2>3. ASSUME NEW s \in Segs PROVE InjectJPEG(out, q, again)[s] = out.seg[s]
    <3>1. CASE s \in again
      BY <3>1 DEF InjectJPEG
    <3>2. CASE s \notin again /\ s # "XMP"
      BY <1>4, <2>1, <3>2 DEF InjectJPEG
    <3>3. CASE s \notin again /\ s = "XMP"
      <4>1. q[s] = p[s] /\ p[s] \in Bytes \union {None} /\ out.seg[s] = Resolve(p[s], r)
        BY <1>4, <2>1, <3>3 DEF InjectJPEG
      <4>2. Resolve(p[s], out) = Resolve(p[s], r)
        BY <3>3, <4>1, ResolveTwice
      <4> QED
        BY <3>3, <4>1, <4>2 DEF InjectJPEG
    <3> QED
      BY <3>1, <3>2, <3>3
  <2>4. InjectJPEG(out, q, again) = out.seg
    BY <1>1, <2>3 DEF InjectJPEG
  <2> QED
    BY <1>3, <2>2, <2>4
<1>5. CASE c = "PNG"
  <2>1. out.seg = InjectPNG(r, p, keep)
    BY <1>2, <1>5 DEF Inject
  <2>2. Inject(c, out, q, again) = [out EXCEPT !.seg = InjectPNG(out, q, again)]
    BY <1>5 DEF Inject
  <2>3. ASSUME NEW s \in Segs PROVE InjectPNG(out, q, again)[s] = out.seg[s]
    BY <1>5, <2>1, <2>3 DEF InjectPNG
  <2>4. InjectPNG(out, q, again) = out.seg
    BY <1>1, <2>3 DEF InjectPNG
  <2> QED
    BY <1>3, <2>2, <2>4
<1>6. CASE c = "WEBP"
  <2>1. out.seg = InjectWebP(p)
    BY <1>2, <1>6 DEF Inject
  <2>2. Inject(c, out, q, again) = [out EXCEPT !.seg = InjectWebP(q)]
    BY <1>6 DEF Inject
  <2>3. ASSUME NEW s \in Segs PROVE InjectWebP(q)[s] = out.seg[s]
    BY <1>6, <2>1, <2>3 DEF InjectWebP
  <2>4. InjectWebP(q) \in [Segs -> Bytes \union {None}]
    BY DEF InjectWebP
  <2>5. InjectWebP(q) = out.seg
    BY <1>1, <2>3, <2>4
  <2> QED
    BY <1>3, <2>2, <2>5
<1>7. CASE c = "BMFF"
  <2>1. out.seg = InjectBMFF(r, p)
    BY <1>2, <1>7 DEF Inject
  <2>2. Inject(c, out, q, again) = [out EXCEPT !.seg = InjectBMFF(out, q)]
    BY <1>7 DEF Inject
  <2>3. ASSUME NEW s \in Segs PROVE InjectBMFF(out, q)[s] = out.seg[s]
    BY <1>7, <2>1, <2>3 DEF InjectBMFF
  <2>4. InjectBMFF(out, q) = out.seg
    BY <1>1, <2>3 DEF InjectBMFF
  <2> QED
    BY <1>3, <2>2, <2>4
<1> QED
  BY <1>4, <1>5, <1>6, <1>7 DEF Injected

LEMMA PlanIs ==
    ASSUME NEW c, NEW r, NEW d
    PROVE  LET enc == EncodeSet(d)
               carry == (IF c = "JPEG" THEN Segs ELSE Held(d)) \ enc
               check == IF enc = {} THEN Segs ELSE carry
               plan == PlanWrite(c, r, d)
           IN /\ carry = {} /\ enc # {} => plan.enc = enc /\ plan.carry = {} /\ ~plan.bypass
              /\ ~(carry = {} /\ enc # {}) /\ ~SourceHolds(r, d, check) =>
                    plan.enc = Segs /\ plan.carry = {} /\ ~plan.bypass
              /\ ~(carry = {} /\ enc # {}) /\ SourceHolds(r, d, check) =>
                    plan.enc = enc /\ plan.carry = carry /\ (plan.bypass <=> enc = {})
<1> DEFINE enc == EncodeSet(d)
           carry == (IF c = "JPEG" THEN Segs ELSE Held(d)) \ enc
           check == IF enc = {} THEN Segs ELSE carry
           plan == PlanWrite(c, r, d)
<1>1. plan = IF carry = {} /\ enc # {}
             THEN [enc |-> enc, carry |-> {}, bypass |-> FALSE]
             ELSE IF ~SourceHolds(r, d, check)
             THEN [enc |-> Segs, carry |-> {}, bypass |-> FALSE]
             ELSE [enc |-> enc, carry |-> carry, bypass |-> enc = {}]
  BY DEF PlanWrite
<1> HIDE DEF enc, carry, check, plan
<1>2. /\ carry = {} /\ enc # {} => plan.enc = enc /\ plan.carry = {} /\ ~plan.bypass
      /\ ~(carry = {} /\ enc # {}) /\ ~SourceHolds(r, d, check) =>
            plan.enc = Segs /\ plan.carry = {} /\ ~plan.bypass
      /\ ~(carry = {} /\ enc # {}) /\ SourceHolds(r, d, check) =>
            plan.enc = enc /\ plan.carry = carry /\ (plan.bypass <=> enc = {})
  BY <1>1
<1> QED
  BY <1>2 DEF enc, carry, check, plan

(* The segments that are carried, and the layout, are those of r.          *)
LEMMA InjectCarries ==
    ASSUME scene \in Scenes, NEW c \in Injected, NEW r, ImageOK(r, c), NEW d, MetaOK(d),
           NEW enc \in SUBSET Segs, NEW carry \in SUBSET Segs, enc \intersect carry = {},
           SourceHolds(r, d, carry)
    PROVE  LET out == Inject(c, r, Payload(d, c, enc), carry) IN
           out.laid = r.laid /\ \A s \in carry : out.seg[s] = r.seg[s]
<1> DEFINE p == Payload(d, c, enc)
           out == Inject(c, r, p, carry)
<1>1. r \in Images /\ p \in [Segs -> Bytes \union {None}]
  BY ImageSegs, PayloadOK DEF Injected, Classes
<1>2. /\ c = "JPEG" => out.seg = InjectJPEG(r, p, carry)
      /\ c = "PNG"  => out.seg = InjectPNG(r, p, carry)
      /\ c = "WEBP" => out.seg = InjectWebP(p)
      /\ c = "BMFF" => out.seg = InjectBMFF(r, p)
  BY InjectOK DEF Injected
<1>3. out.laid = r.laid
  <2>1. PICK X : out = [r EXCEPT !.seg = X]
    BY DEF Inject
  <2> QED
    BY <1>1, <2>1 DEF Images, ImagesOf
<1>4. ASSUME NEW s \in carry PROVE out.seg[s] = r.seg[s]
  <2>1. s \in Segs /\ s \notin enc
    BY <1>4
  <2>2. c # "JPEG" => p[s] = r.seg[s]
    BY <1>4, <2>1, PayloadSeg, SourceEqual DEF Injected, Classes
  <2>3. c \in {"WEBP", "BMFF"} => r.seg["IPTC"] = None
    BY DEF ImageOK
  <2> HIDE DEF p, out
  <2>4. CASE c \in {"JPEG", "PNG"}
    BY <1>2, <2>1, <2>4 DEF InjectJPEG, InjectPNG
  <2>5. CASE c = "WEBP"
    BY <1>1, <1>2, <2>1, <2>2, <2>3, <2>5 DEF InjectWebP
  <2>6. CASE c = "BMFF"
    BY <1>2, <2>1, <2>2, <2>3, <2>6 DEF InjectBMFF
  <2> QED
    BY <2>4, <2>5, <2>6 DEF Injected
<1> QED
  BY <1>3, <1>4

LEMMA PayloadAt ==
    ASSUME NEW d, NEW c, NEW a, NEW b, NEW s \in Segs, s \in a, s \in b
    PROVE  Payload(d, c, a)[s] = Payload(d, c, b)[s]
<1>1. /\ s = "EXIF" => EncodeEXIF(d, a) = EncodeEXIF(d, b)
      /\ s = "IPTC" => EncodeIPTC(d, a) = EncodeIPTC(d, b)
      /\ s = "XMP"  => EncodeXMP(d, c, a) = EncodeXMP(d, c, b)
  BY DEF EncodeEXIF, EncodeIPTC, EncodeXMP
<1> QED
  BY <1>1 DEF Payload, Segs

LEMMA OutputFixed ==
    ASSUME scene \in Scenes, NEW c \in Injected, NEW r, ImageOK(r, c), NEW d, MetaOK(d),
           NEW out, ~PlanWrite(c, r, d).bypass,
           out = Inject(c, r, Payload(d, c, PlanWrite(c, r, d).enc), PlanWrite(c, r, d).carry)
    PROVE  Fixed(c, out, d)
<1> DEFINE enc == EncodeSet(d)
           carry == (IF c = "JPEG" THEN Segs ELSE Held(d)) \ enc
           check == IF enc = {} THEN Segs ELSE carry
           plan == PlanWrite(c, r, d)
           then == PlanWrite(c, out, d)
           p == Payload(d, c, plan.enc)
           q == Payload(d, c, then.enc)
<1>1. r \in Images /\ plan.enc \in SUBSET Segs /\ plan.carry \in SUBSET Segs
  BY ImageSegs, PlanTyped
<1>2. out \in Images /\ ImageOK(out, c)
  BY <1>1, InjectOK DEF Injected, ImageOK
<1>3. then.enc \in SUBSET Segs /\ then.carry \in SUBSET Segs
  BY <1>2, PlanTyped
<1>4. p \in [Segs -> Bytes \union {None}] /\ q \in [Segs -> Bytes \union {None}]
  BY <1>1, <1>3, PayloadOK DEF Injected, Classes
<1>5. enc \in SUBSET Segs /\ carry \in SUBSET Segs /\ enc \intersect carry = {}
  BY DEF EncodeSet, Parsed, Held
<1>6. /\ carry = {} /\ enc # {} => plan.enc = enc /\ plan.carry = {}
      /\ ~(carry = {} /\ enc # {}) /\ ~SourceHolds(r, d, check) => plan.enc = Segs /\ plan.carry = {}
      /\ ~(carry = {} /\ enc # {}) /\ SourceHolds(r, d, check) =>
            plan.enc = enc /\ plan.carry = carry /\ enc # {}
  BY PlanIs
<1>7. /\ carry = {} /\ enc # {} => then.enc = enc /\ then.carry = {}
      /\ ~(carry = {} /\ enc # {}) /\ ~SourceHolds(out, d, check) => then.enc = Segs /\ then.carry = {}
      /\ ~(carry = {} /\ enc # {}) /\ SourceHolds(out, d, check) =>
            then.enc = enc /\ then.carry = carry /\ (then.bypass <=> enc = {})
  BY PlanIs
<1>8. CASE then.bypass
  BY <1>8 DEF Fixed
<1>9. ASSUME \A s \in Segs :
               IF c \in {"JPEG", "PNG"} THEN s \in then.carry \/ (s \notin plan.carry /\ q[s] = p[s])
               ELSE q[s] \in {p[s], out.seg[s]}
      PROVE  Fixed(c, out, d)
  <2>1. Inject(c, out, q, then.carry) = out
    <3> HIDE DEF p, q, then, plan
    <3> QED
      BY <1>1, <1>2, <1>4, <1>9, InjectAgain DEF p, plan
  <2> QED
    BY <2>1 DEF Fixed
<1>10. CASE then.enc = plan.enc /\ then.carry = plan.carry
  BY <1>9, <1>10
<1>11. CASE ~(carry = {} /\ enc # {}) /\ SourceHolds(r, d, check)
  <2>1. plan.enc = enc /\ plan.carry = carry /\ check = carry
    BY <1>6, <1>11
  <2>2. out.laid = r.laid /\ \A s \in carry : out.seg[s] = r.seg[s]
    <3>1. out = Inject(c, r, Payload(d, c, enc), carry)
      BY <2>1
    <3> HIDE DEF enc, carry, check
    <3> QED
      BY <1>5, <1>11, <2>1, <3>1, InjectCarries
  <2>3. SourceHolds(out, d, carry)
    BY ZenonT(60), <1>1, <1>2, <1>5, <1>11, <2>1, <2>2, SourceMoves
  <2> QED
    BY <1>7, <1>10, <1>11, <2>1, <2>3
<1>12. CASE /\ ~(carry = {} /\ enc # {}) /\ ~SourceHolds(r, d, check)
            /\ SourceHolds(out, d, check) /\ ~then.bypass
  <2>1. plan.enc = Segs /\ plan.carry = {} /\ then.enc = enc /\ then.carry = carry /\ check = carry
    BY <1>6, <1>7, <1>12
  <2>2. ASSUME NEW s \in Segs, s \notin carry PROVE q[s] = p[s]
    <3>1. CASE s \in enc
      BY <2>1, <2>2, <3>1, PayloadAt
    <3>2. CASE s \notin enc
      <4>1. s \notin Held(d) /\ d.parsed[s] = None
        BY <2>2, <3>2 DEF EncodeSet, Parsed
      <4>2. d.raw[s] = None
        BY <4>1 DEF Held
      <4> QED
        BY <1>1, <1>3, <4>1, <4>2, PayloadSeg DEF Injected, Classes
    <3> QED
      BY <3>1, <3>2
  <2>3. ASSUME NEW s \in carry, c # "JPEG" PROVE q[s] = out.seg[s]
    <3>1. s \in Segs /\ s \notin enc
      BY <1>5, <2>3
    <3>2. q[s] = d.raw[s]
      BY <1>3, <2>1, <2>3, <3>1, PayloadSeg DEF Injected, Classes
    <3>3. out.seg[s] = d.raw[s]
      BY <1>2, <1>5, <1>12, <2>1, <2>3, SourceEqual
    <3> QED
      BY <3>2, <3>3
  <2> QED
    BY <1>9, <2>1, <2>2, <2>3
<1> QED
  BY <1>6, <1>7, <1>8, <1>10, <1>11, <1>12

(* A write that was done, or repeats one, gives back what it reads.        *)
SettledInv ==
    /\ \A p \in settled : Class[p[2]] # "TIFF" => Fixed(Class[p[2]], file[p[2]], md[p[1]])
    /\ \A w \in Writers : job[w] # None /\ job[w].again /\ Class[job[w].f] # "TIFF" =>
          Fixed(Class[job[w].f], job[w].r, job[w].at)

LEMMA StripSame ==
    ASSUME scene \in Scenes, NEW j, JobOK(j), j.bypass, Class[j.f] = "JPEG", NEW p
    PROVE  Inject("JPEG", j.r, p, j.carry) = j.r
<1>1. j.enc = {} /\ j.r \in Images /\ PlanFits("JPEG", j.r, j.at, j)
  BY JobFacts DEF PlanFits
<1>2. j.carry = Segs
  BY <1>1 DEF PlanFits, Segs
<1>3. j.r.seg \in [Segs -> Bytes \union {None}]
  BY <1>1 DEF Images, ImagesOf, Bytes
<1>4. InjectJPEG(j.r, p, j.carry) = j.r.seg
  <2>1. \A s \in Segs : InjectJPEG(j.r, p, j.carry)[s] = j.r.seg[s]
    BY <1>2 DEF InjectJPEG
  <2>2. InjectJPEG(j.r, p, j.carry) = [s \in Segs |-> InjectJPEG(j.r, p, j.carry)[s]]
    BY DEF InjectJPEG
  <2> QED
    BY <1>3, <2>1, <2>2
<1>5. Inject("JPEG", j.r, p, j.carry) = [j.r EXCEPT !.seg = j.r.seg]
  BY <1>4 DEF Inject
<1> QED
  BY <1>1, <1>5 DEF Images, ImagesOf

LEMMA FinishFixed ==
    ASSUME scene \in Scenes, NEW j, JobOK(j), md[j.m] = j.at, Class[j.f] # "TIFF", ~Refused(j)
    PROVE  /\ Fixed(Class[j.f], Output(j, md[j.m]), md[j.m])
           /\ Fixed(Class[j.f], j.r, j.at) => Output(j, md[j.m]) = j.r
<1> DEFINE c == Class[j.f]
           d == md[j.m]
           out == Output(j, d)
           plan == PlanWrite(c, j.r, d)
           written == Inject(c, j.r, Payload(d, c, j.enc), j.carry)
<1>1. /\ c \in Injected /\ ImageOK(j.r, c) /\ MetaOK(d)
      /\ j.enc = plan.enc /\ j.carry = plan.carry /\ j.bypass = plan.bypass
  BY JobFacts DEF Injected, Classes, JobOK, JobFits, Planned
<1>2. CASE j.bypass
  <2>1. j.strip => c = "JPEG"
    BY <1>1, <1>2 DEF Refused, Injected
  <2>2. out = j.r
    BY <1>1, <1>2, <2>1, StripSame DEF Output
  <2>3. Fixed(c, j.r, d)
    BY <1>1, <1>2 DEF Fixed
  <2> QED
    BY <2>2, <2>3
<1>3. CASE ~j.bypass
  <2>1. out = written
    BY <1>3 DEF Output
  <2>2. written = Inject(c, j.r, Payload(d, c, plan.enc), plan.carry) /\ ~plan.bypass
    BY <1>1, <1>3
  <2>3. Fixed(c, written, d)
    BY <1>1, <2>2, OutputFixed
  <2>4. Fixed(c, j.r, d) => written = j.r
    BY <2>2 DEF Fixed
  <2> QED
    BY <2>1, <2>3, <2>4
<1> QED
  BY <1>2, <1>3

LEMMA SettledStep == ASSUME Inv, [Next]_vars, SettledInv PROVE SettledInv'
<1>1. /\ md \in [Metas -> Metadata \union {None}] /\ job \in [Writers -> Jobs \union {None}]
      /\ file \in [Files -> Images] /\ settled \subseteq Metas \X Files
      /\ scene' = scene /\ scene \in Scenes /\ Writers' = Writers
      /\ \A w \in Writers : job[w] # None => JobOK(job[w]) /\ job[w].f \in Files /\ job[w].m \in Metas
  BY SameScene DEF Inv, TypeOK, Next, vars, Jobs
<1>2. ASSUME NEW m \in Metas, NEW e, md' = [md EXCEPT ![m] = e], UNCHANGED <<file, job>>, Unsettle(m)
      PROVE  SettledInv'
  <2>1. \A p \in settled' : p \in settled /\ p[1] \in Metas /\ md'[p[1]] = md[p[1]]
    BY <1>1, <1>2 DEF Unsettle
  <2> QED
    BY <1>1, <1>2, <2>1 DEF SettledInv
<1>3. CASE UNCHANGED vars
  BY <1>1, <1>3 DEF SettledInv, vars
<1>4. CASE \/ \E m \in Metas, f \in Files, lazy \in LazySets : Read(m, f, lazy)
           \/ \E m \in Metas, c \in Blank : NewMetadata(m, c)
  BY <1>2, <1>4 DEF Read, NewMetadata
<1>5. CASE \E m \in Metas, fld \in Fields : Set(m, fld)
  <2>1. PICK m \in Metas, fld \in Fields : Set(m, fld)
    BY <1>5
  <2>2. md' = [md EXCEPT ![m] = WithField(md[m], fld)]
    BY <2>1, SetIs
  <2>3. UNCHANGED <<file, job>> /\ Unsettle(m)
    BY <2>1 DEF Set
  <2> QED
    BY <1>2, <2>2, <2>3
<1>6. CASE \E m \in Metas, s \in DirectSegs : MarkModified(m, {s}) \/ EditDirectly(m, s)
  BY <1>1, <1>2, <1>6, MarkIs, EditIs, SceneFacts DEF MarkModified, EditDirectly
<1>7. CASE \E m \in Metas, s \in AssignSegs : Assign(m, s)
  <2>1. PICK m \in Metas, s \in AssignSegs : Assign(m, s)
    BY <1>7
  <2>2. md' = [md EXCEPT ![m] = WithValue(md[m], s)]
    BY <1>1, <2>1, AssignIs, SceneFacts
  <2>3. UNCHANGED <<file, job>> /\ Unsettle(m)
    BY <2>1 DEF Assign
  <2> QED
    BY <1>2, <2>2, <2>3
<1>8. ASSUME NEW w \in Writers, NEW m \in Metas, NEW f \in Files, NEW strip \in Strip,
             Begin(w, m, f, strip)
      PROVE  SettledInv'
  <2>1. /\ UNCHANGED <<file, md, settled>>
        /\ job'[w].f = f /\ job'[w].r = file[f] /\ job'[w].at = md[m]
        /\ job'[w].again <=> <<m, f>> \in settled
        /\ \A v \in Writers \ {w} : job'[v] = job[v]
    BY <1>1, <1>8 DEF Begin
  <2>2. job'[w].again /\ Class[f] # "TIFF" => Fixed(Class[f], job'[w].r, job'[w].at)
    BY <2>1 DEF SettledInv
  <2> QED
    BY <1>1, <2>1, <2>2 DEF SettledInv
<1>9. ASSUME NEW w \in Writers, Finish(w) PROVE SettledInv'
  <2> DEFINE j == job[w]
             others == {p \in settled : p[2] # j.f}
  <2>1. /\ j # None /\ JobOK(j) /\ j.f \in Files /\ j.m \in Metas
        /\ job' = [job EXCEPT ![w] = None] /\ UNCHANGED md
        /\ IF Refused(j) THEN UNCHANGED <<file, settled>>
           ELSE /\ file' = [file EXCEPT ![j.f] = Output(j, md[j.m])]
                /\ settled' = IF md[j.m] = j.at THEN others \union {<<j.m, j.f>>} ELSE others
    BY <1>1, <1>9 DEF Finish, Refused
  <2>2. \A v \in Writers : job'[v] # None => job'[v] = job[v]
    BY <1>1, <2>1
  <2>3. CASE Refused(j)
    BY <1>1, <2>1, <2>2, <2>3 DEF SettledInv
  <2>4. CASE ~Refused(j)
    <3>1. \A p \in others : p \in settled /\ p[2] \in Files /\ file'[p[2]] = file[p[2]]
      BY <1>1, <2>1, <2>4
    <3>2. file'[j.f] = Output(j, md[j.m])
      BY <1>1, <2>1, <2>4
    <3>3. md[j.m] = j.at /\ Class[j.f] # "TIFF" => Fixed(Class[j.f], file'[j.f], md[j.m])
      BY <1>1, <2>1, <2>4, <3>2, FinishFixed
    <3>4. \A p \in settled' : p \in others \/ (md[j.m] = j.at /\ p = <<j.m, j.f>>)
      BY <2>1, <2>4
    <3>5. \A p \in settled' : Class[p[2]] # "TIFF" => Fixed(Class[p[2]], file'[p[2]], md[p[1]])
      BY <3>1, <3>3, <3>4 DEF SettledInv
    <3> QED
      BY <1>1, <2>1, <2>2, <3>5 DEF SettledInv
  <2> QED
    BY <2>3, <2>4
<1> QED
  BY <1>3, <1>4, <1>5, <1>6, <1>7, <1>8, <1>9 DEF Next, Step

(* The second of two writes of a Metadata to a file, with no change to     *)
(* either in between, gives back the file, whatever image the Metadata was *)
(* read from and whatever the first write had to leave out.                *)
THEOREM RepeatsChangeNothing == Spec => Idempotent
<1>1. Init => SettledInv
  BY DEF Init, SettledInv
<1>2. Inv /\ SettledInv /\ [Next]_vars => [\A w \in Writers : LET j == job[w] IN
        Finished(w) /\ j.again /\ md[j.m] = j.at /\ Class[j.f] # "TIFF" => file'[j.f] = j.r]_vars
  <2> SUFFICES ASSUME Inv, SettledInv, Next, NEW w \in Writers, Finished(w), job[w].again,
                      md[job[w].m] = job[w].at, Class[job[w].f] # "TIFF"
               PROVE  file'[job[w].f] = job[w].r
    OBVIOUS
  <2>1. /\ scene \in Scenes /\ JobOK(job[w]) /\ ~Refused(job[w]) /\ job[w] # None
        /\ file'[job[w].f] = Output(job[w], md[job[w].m])
    BY FinishedIs DEF Finished
  <2>2. Fixed(Class[job[w].f], job[w].r, job[w].at)
    BY <2>1 DEF SettledInv
  <2> QED
    BY <2>1, <2>2, FinishFixed
<1>3. Inv /\ SettledInv /\ [Next]_vars => SettledInv'
  BY SettledStep
<1> QED
  BY <1>1, <1>2, <1>3, Consistent, PTL DEF Spec, Idempotent
=============================================================================
