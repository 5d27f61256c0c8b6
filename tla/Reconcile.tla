----------------------------- MODULE Reconcile -----------------------------
(***************************************************************************)
(* The three forms of a field - EXIF tag, IPTC dataset, XMP property - and *)
(* what the getters and setters of Metadata do with them (metadata.go,     *)
(* reconcile.go, internal/reconcile).                                      *)
(*                                                                         *)
(* A file holds an EXIF, an IPTC, an XMP and a digest of the IPTC, each    *)
(* maybe NONE; other programs may have written any of them, so the forms   *)
(* may disagree.  A program reads the file, perhaps without some of its    *)
(* segments, sets fields, and writes.                                      *)
(*                                                                         *)
(* A text is a sequence of bytes, 59 is the separator of the Artist list   *)
(* ("; "), 34 a quote, 32 a space.  A date is <<day>>, <<day, time>> or    *)
(* <<day, time, zone>>; UTC is the zone 48.  The XMP description is the    *)
(* sequence of its items, bare or <<language, 124, ...>>.                  *)
(***************************************************************************)
EXTENDS Integers, Sequences, SequencesExt, FiniteSetsExt

CONSTANTS
    NONE,
    MaxDatasets,    \* datasets that Parse of an IPTC stores at most
    MaxTotal,       \* bytes of the values that it reads at most
    Files,          \* the files that the program may be given
    Captions, CreatorLists, KeywordLists, Dates, Names,    \* what it may set
    Skips,          \* the sets of segments that it may read without
    Limit,          \* bytes of the value of a dataset
    MaxSets,        \* settings of a behaviour
    MaxWrites       \* writes of a behaviour, those of other programs too

ASSUME IIMAssumption == MaxDatasets \in Nat /\ MaxTotal \in Nat

VARIABLES
    file,       \* what is on disk
    m,          \* the Metadata, or NONE
    src,        \* the file that m was read from
    left,       \* the segments of src that m does not have
    asked,      \* for each field the value set since the read, or NONE
    sets,       \* settings done
    writes      \* writes done

vars == <<file, m, src, left, asked, sets, writes>>

Segments == {"EXIF", "IPTC", "XMP"}
TextFields == {"Caption", "Creator"}
Fields == TextFields \cup {"Keywords", "Date", "Make", "ISO"}
DataSet == [Keywords |-> 25, Date |-> 55, Time |-> 60, Creator |-> 80, Caption |-> 120]
CarriesIPTC(f) == f \in {"JPEG", "TIFF"}
UTC == 48

-----------------------------------------------------------------------------
(* The IPTC IIM codec (iptc/iptc.go, iptc/encoding.go): a stream of        *)
(* datasets, its parse into decoded values, the setters, and the stream    *)
(* that Encode writes.                                                     *)
(*                                                                         *)
(* A value is a sequence of bytes.  A mark of a stream is a tag marker     *)
(* with its record, its dataset, its value, and what its length field is:  *)
(* "ok", "bad" (an extended length that cannot be decoded), or "past" (a   *)
(* length over the limit of a value or past the end of the stream).        *)

ESCPercentG == <<27, 37, 71>>
CharacterSet == 90

Mark(r, d, v) == [rec |-> r, ds |-> d, val |-> v, len |-> "ok"]
Version(r) == Mark(r, 0, <<0, 4>>)

-----------------------------------------------------------------------------
(* Text.                                                                   *)

HasHighBytes(v) == \E i \in DOMAIN v : v[i] > 127

(* The sequences of one and two bytes of UTF-8.                            *)
ValidUTF8(v) ==
    \A i \in DOMAIN v :
        /\ v[i] \in 192..255 => i < Len(v) /\ v[i + 1] \in 128..191
        /\ v[i] \in 128..191 => i > 1 /\ v[i - 1] \in 192..255

TruncateToLimit(v, max) ==
    IF max = 0 \/ Len(v) <= max THEN v
    ELSE SubSeq(v, 1, Max({n \in 0..max : ValidUTF8(SubSeq(v, 1, n))}))

CutAtNUL(v) ==
    LET n == SelectInSeq(v, LAMBDA b : b = 0)
    IN IF n = 0 THEN v ELSE SubSeq(v, 1, n - 1)

DecodeISO88591(v) ==
    FlattenSeq([i \in DOMAIN v |->
        CASE v[i] < 128 -> <<v[i]>>
          [] v[i] \in 128..191 -> <<194, v[i]>>
          [] OTHER -> <<195, v[i] - 64>>])

DecodeString(v, utf8) ==
    IF utf8 THEN CutAtNUL(v) ELSE DecodeISO88591(CutAtNUL(v))

IsUTF8Declaration(v) ==
    v = <<85, 84, 70, 56>> \/ \E i \in DOMAIN v : SubSeq(v, i, i + 2) = ESCPercentG

-----------------------------------------------------------------------------
(* Parse.                                                                  *)

Dataset(r, d, v, utf8) == [rec |-> r, ds |-> d, val |-> v, text |-> DecodeString(v, utf8)]

(* The marks that are no dataset of the caller: a record that does not     *)
(* exist, the character set, and the version of records 1 and 2.           *)
NotStored(k) ==
    \/ k.rec \notin 1..9
    \/ k.rec = 1 /\ k.ds = CharacterSet
    \/ k.rec \in {1, 2} /\ k.ds = 0

(* One round of the scan of Parse.                                         *)
Scanned(p, k) ==
    IF p.stopped THEN p
    ELSE IF k.len # "ok" THEN [p EXCEPT !.truncated = TRUE]
    ELSE IF p.total + Len(k.val) > MaxTotal
         THEN [p EXCEPT !.truncated = TRUE, !.stopped = TRUE]
    ELSE LET q == [p EXCEPT !.total = @ + Len(k.val)]
         IN IF k.rec = 1 /\ k.ds = CharacterSet
            THEN [q EXCEPT !.utf8 = IsUTF8Declaration(k.val)]
            ELSE IF NotStored(k) THEN q
            ELSE IF Len(p.sets) = MaxDatasets
                 THEN [q EXCEPT !.truncated = TRUE, !.stopped = TRUE]
                 ELSE [q EXCEPT !.sets = Append(@, k)]

(* The values are decoded when the whole stream is read: the character set *)
(* may be declared after them.                                             *)
Parse(s) ==
    LET p == FoldLeft(Scanned, [sets |-> <<>>, utf8 |-> FALSE, truncated |-> FALSE,
                                stopped |-> FALSE, total |-> 0], s)
    IN [utf8 |-> p.utf8, truncated |-> p.truncated,
        sets |-> [i \in DOMAIN p.sets |->
                     Dataset(p.sets[i].rec, p.sets[i].ds, p.sets[i].val, p.utf8)]]

NewIPTC == [utf8 |-> FALSE, truncated |-> FALSE, sets |-> <<>>]

-----------------------------------------------------------------------------
(* Accessors and setters of record 2.                                      *)

Occurrences(p, d) == SelectSeq(p.sets, LAMBDA s : s.rec = 2 /\ s.ds = d)
Texts(p, d) == LET o == Occurrences(p, d) IN [i \in DOMAIN o |-> o[i].text]
FirstText(p, d) == LET t == Texts(p, d) IN IF t = <<>> THEN <<>> ELSE t[1]

SetUTF8IfNeeded(p, v) == [p EXCEPT !.utf8 = @ \/ HasHighBytes(v)]

SetRecord2(p, d, v) ==
    LET i == SelectInSeq(p.sets, LAMBDA s : s.rec = 2 /\ s.ds = d)
        q == SetUTF8IfNeeded(p, v)
    IN IF i = 0 THEN [q EXCEPT !.sets = Append(@, Dataset(2, d, v, TRUE))]
       ELSE [q EXCEPT !.sets[i] = Dataset(2, d, v, TRUE)]

(* SetKeywords and SetCreators: the list replaces every occurrence.        *)
SetList(p, d, vs) ==
    FoldLeft(LAMBDA q, v : [SetUTF8IfNeeded(q, v) EXCEPT !.sets = Append(@, Dataset(2, d, v, TRUE))],
             [p EXCEPT !.sets = SelectSeq(@, LAMBDA s : ~(s.rec = 2 /\ s.ds = d))], vs)

KeepFirst(p, d) ==
    LET first == SelectInSeq(p.sets, LAMBDA s : s.rec = 2 /\ s.ds = d)
        keep == {i \in DOMAIN p.sets : i = first \/ ~(p.sets[i].rec = 2 /\ p.sets[i].ds = d)}
    IN [p EXCEPT !.sets = [n \in 1..Cardinality(keep) |->
                              @[CHOOSE i \in keep : Cardinality({j \in keep : j <= i}) = n]]]

-----------------------------------------------------------------------------
(* Encode.  The values are written as they are: those of a stream that     *)
(* declared no character set keep their bytes and are declared UTF-8.      *)

NeedsUTF8Declaration(p) == \E i \in DOMAIN p.sets : HasHighBytes(p.sets[i].val)

RecordMarks(p, r) ==
    LET mine == SelectSeq(p.sets, LAMBDA s : s.rec = r)
        at(n) == CHOOSE i \in DOMAIN mine :
                    Cardinality({j \in DOMAIN mine :
                        mine[j].ds < mine[i].ds \/ (mine[j].ds = mine[i].ds /\ j <= i)}) = n
    IN [n \in DOMAIN mine |-> Mark(r, mine[at(n)].ds, mine[at(n)].val)]

(* Faulty: only a stream that declared UTF-8 is declared UTF-8 again.      *)
EncodeUndeclared(p) ==
    FlattenSeq([r \in 1..9 |->
        IF RecordMarks(p, r) = <<>> THEN <<>> ELSE <<Version(r)>> \o RecordMarks(p, r)])

Encode(p) ==
    LET declare == p.utf8 \/ NeedsUTF8Declaration(p)
        marks == [r \in 1..9 |-> RecordMarks(p, r)]
    IN (IF declare THEN <<Version(1), Mark(1, CharacterSet, ESCPercentG)>> ELSE <<>>)
       \o FlattenSeq([r \in 1..9 |->
             IF marks[r] = <<>> THEN <<>>
             ELSE (IF r = 2 \/ (r = 1 /\ ~declare) THEN <<Version(r)>> ELSE <<>>) \o marks[r]])

-----------------------------------------------------------------------------
(* internal/reconcile/policy.go                                            *)

IsBlank(v) == \A i \in DOMAIN v : v[i] \in {0, 32}
PredictIIM(v) == TruncateToLimit(v, Limit)
IIMChanged(iim, xmp) == iim # PredictIIM(xmp)

NonEmpty(items) == SelectSeq(items, LAMBDA v : v # <<>>)
IIMListChanged(iim, items) ==
    LET x == NonEmpty(items) IN iim # [i \in DOMAIN x |-> PredictIIM(x[i])]

(* The Artist list of EXIF: an item is quoted when it holds a separator or *)
(* begins with a quote.                                                    *)
Separator == 59
Quote == 34
NeedsQuotes(v) == v # <<>> /\ (v[1] = Quote \/ \E i \in DOMAIN v : v[i] = Separator)
Doubled(v) == FlattenSeq([i \in DOMAIN v |-> IF v[i] = Quote THEN <<Quote, Quote>> ELSE <<v[i]>>])
Quoted(v) == IF NeedsQuotes(v) THEN <<Quote>> \o Doubled(v) \o <<Quote>> ELSE v
JoinArtist(items) ==
    FlattenSeq([i \in DOMAIN items |-> (IF i > 1 THEN <<Separator>> ELSE <<>>) \o Quoted(items[i])])

UpTo(v, c) == LET i == SelectInSeq(v, LAMBDA b : b = c) IN IF i = 0 THEN v ELSE SubSeq(v, 1, i - 1)

(* The quote that closes v, which begins after one: no quote follows it    *)
(* and an even number of quotes precedes it.                               *)
Closing(v) ==
    LET run[i \in 0..Len(v)] == IF i = 0 \/ v[i] # Quote THEN 0 ELSE 1 + run[i - 1]
        ends == {i \in DOMAIN v : /\ run[i] % 2 = 1
                                  /\ i = Len(v) \/ v[i + 1] # Quote}
    IN IF ends = {} THEN 0 ELSE Min(ends)
Undoubled(v) ==
    LET run[i \in 0..Len(v)] == IF i = 0 \/ v[i] # Quote THEN 0 ELSE 1 + run[i - 1]
    IN FlattenSeq([i \in DOMAIN v |-> IF run[i] > 0 /\ run[i] % 2 = 0 THEN <<>> ELSE <<v[i]>>])
FirstArtist(s) ==
    IF s = <<>> \/ s[1] # Quote THEN UpTo(s, Separator)
    ELSE LET body == Tail(s)
             end == Closing(body)
         IN IF end = 0 THEN Undoubled(body)
            ELSE Undoubled(SubSeq(body, 1, end - 1))
                 \o UpTo(SubSeq(body, end + 1, Len(body)), Separator)

(* Dates.  The day 63 is a value that no parser accepts.                   *)
WithZone(d) == CASE Len(d) = 1 -> d \o <<UTC, UTC>>
                 [] Len(d) = 2 -> d \o <<UTC>>
                 [] OTHER -> d
ParseDate(d) == IF d \in {NONE, <<>>} \/ d[1] = 63 THEN NONE ELSE Append(WithZone(d), 0)
ParseIIMDate(date, tm) == ParseDate(date \o tm)
IIMDateMatches(date, tm, x) == x # NONE /\ x[1] # 63 /\ x = date \o tm

-----------------------------------------------------------------------------
(* The XMP forms (xmp/xmp.go).                                             *)

Bar == 124
IsBare(item) == \A i \in DOMAIN item : item[i] # Bar
XDefaultValue(items) ==
    LET i == SelectInSeq(items, IsBare)
    IN IF items = <<>> THEN <<>> ELSE items[IF i = 0 THEN 1 ELSE i]

Lang(item) == UpTo(item, Bar)
IsTagged(item) == ~IsBare(item) /\ Lang(item) # <<>> /\ \A i \in DOMAIN Lang(item) : Lang(item)[i] \in 97..122
TextOf(item) == IF IsTagged(item) THEN SubSeq(item, Len(Lang(item)) + 2, Len(item)) ELSE item

SetDefaultText(items, v) ==
    LET xd == SelectInSeq(items, LAMBDA it : ~IsTagged(it))
        old == items[xd]
        swapped == [items EXCEPT ![1] = items[xd], ![xd] = items[1]]
    IN CASE items \in {<<>>, << <<>> >>} -> <<v>>
         [] xd = 0 -> <<v>> \o items
         [] OTHER -> [i \in DOMAIN items |->
                         IF i = 1 \/ swapped[i] = old THEN v
                         ELSE IF TextOf(swapped[i]) = old
                              THEN Append(Lang(swapped[i]), Bar) \o v
                              ELSE swapped[i]]

-----------------------------------------------------------------------------
(* Read.                                                                   *)

(* A digest is that of a stream, or all zero.                              *)
DigestOf(s) == [zero |-> FALSE, of |-> s]
ZeroDigest == [zero |-> TRUE, of |-> <<>>]

IPTCTrustElevated(f, skip) ==
    /\ f.digest # NONE
    /\ "IPTC" \notin skip
    /\ f.digest = ZeroDigest \/ f.digest # DigestOf(IF f.iptc = NONE THEN <<>> ELSE f.iptc)

Loaded(f, skip) ==
    [fmt |-> f.fmt,
     exif |-> IF "EXIF" \in skip THEN NONE ELSE f.exif,
     iptc |-> IF "IPTC" \in skip \/ f.iptc = NONE THEN NONE ELSE Parse(f.iptc),
     xmp |-> IF "XMP" \in skip THEN NONE ELSE f.xmp,
     opaque |-> {s \in skip : CASE s = "EXIF" -> f.exif # NONE
                                [] s = "IPTC" -> f.iptc # NONE
                                [] s = "XMP" -> f.xmp # NONE},
     elevated |-> IPTCTrustElevated(f, skip),
     modified |-> {}]

-----------------------------------------------------------------------------
(* The getters.                                                            *)

(* The value without its trailing blanks.                                  *)
Trimmed(v) == SubSeq(v, 1, Max({0} \cup {i \in DOMAIN v : v[i] # 32}))
Tag(d, tag) == IF d.exif = NONE \/ d.exif[tag] = NONE THEN <<>> ELSE CutAtNUL(d.exif[tag])

EXIFText(d, f) ==
    IF f = "Creator" THEN FirstArtist(Trimmed(Tag(d, f))) ELSE Tag(d, f)
BlankIsAbsent(v) == IF IsBlank(v) THEN <<>> ELSE v
XMPText(d, f) == IF d.xmp = NONE THEN <<>> ELSE BlankIsAbsent(XDefaultValue(d.xmp[f]))
IIMText(d, f) == IF d.iptc = NONE THEN <<>> ELSE BlankIsAbsent(FirstText(d.iptc, DataSet[f]))

ResolveText(d, f) ==
    LET iim == IIMText(d, f)
        exif == EXIFText(d, f)
        xmp == XMPText(d, f)
    IN CASE d.elevated /\ iim # <<>> /\ IIMChanged(iim, xmp) -> iim
         [] ~IsBlank(exif) -> exif
         [] xmp # <<>> -> xmp
         [] OTHER -> iim

XMPKeywords(d) == IF d.xmp = NONE THEN <<>> ELSE NonEmpty(d.xmp.Keywords)
ResolveKeywords(d) ==
    LET iim == IF d.iptc = NONE THEN <<>> ELSE Texts(d.iptc, DataSet["Keywords"])
        xmp == XMPKeywords(d)
    IN CASE d.elevated /\ iim # <<>> /\ IIMListChanged(iim, xmp) -> iim
         [] xmp # <<>> -> xmp
         [] OTHER -> iim

IIMDate(d) == IF d.iptc = NONE THEN <<>> ELSE FirstText(d.iptc, DataSet["Date"])
IIMTime(d) == IF d.iptc = NONE THEN <<>> ELSE FirstText(d.iptc, DataSet["Time"])
XMPDate(d, p) == IF d.xmp = NONE THEN NONE ELSE d.xmp[p]

EditedIIMDate(d) ==
    IF ~d.elevated \/ IIMDate(d) = <<>> \/ IIMDateMatches(IIMDate(d), IIMTime(d), XMPDate(d, "Created"))
    THEN NONE ELSE ParseIIMDate(IIMDate(d), IIMTime(d))

(* The date and time of EXIF with its offset, or with the zone of the XMP  *)
(* copy, and with its fraction of a second.                                *)
EXIFDate(d) ==
    IF d.exif = NONE \/ ParseDate(d.exif.Date) = NONE THEN NONE
    ELSE LET x == XMPDate(d, "Date")
             zone == CASE d.exif.Offset # NONE -> d.exif.Offset
                       [] x # NONE /\ Len(x) = 3 -> x[3]
                       [] OTHER -> UTC
         IN d.exif.Date \o <<zone, d.exif.SubSec>>

ResolveDateCreated(d) ==
    LET x == XMPDate(d, "Created")
        iim == ParseIIMDate(IIMDate(d), IIMTime(d))
        iimFirst == x = NONE \/ (d.elevated /\ ~IIMDateMatches(IIMDate(d), IIMTime(d), x))
        order == IF IIMDate(d) = <<>> THEN <<ParseDate(x)>>
                 ELSE IF iimFirst THEN <<iim, ParseDate(x)>> ELSE <<ParseDate(x), iim>>
        i == SelectInSeq(order, LAMBDA t : t # NONE)
    IN IF i = 0 THEN NONE ELSE order[i]

DateTimeOriginal(d) ==
    LET order == <<EditedIIMDate(d), EXIFDate(d), ParseDate(XMPDate(d, "Date")), ResolveDateCreated(d)>>
        i == SelectInSeq(order, LAMBDA t : t # NONE)
    IN IF i = 0 THEN NONE ELSE order[i]

Make(d) ==
    LET v == Trimmed(Tag(d, "Make"))
    IN CASE v # <<>> -> v
         [] d.xmp = NONE \/ d.xmp.Make = NONE -> <<>>
         [] OTHER -> d.xmp.Make
ISO(d) == Tag(d, "ISO")

Get(d, f) == CASE f \in TextFields -> ResolveText(d, f)
               [] f = "Keywords" -> ResolveKeywords(d)
               [] f = "Date" -> DateTimeOriginal(d)
               [] f = "Make" -> Make(d)
               [] f = "ISO" -> ISO(d)

-----------------------------------------------------------------------------
(* The setters.                                                            *)

NewEXIF == [Caption |-> NONE, Creator |-> NONE, Make |-> NONE, ISO |-> NONE,
            Date |-> NONE, Offset |-> NONE, SubSec |-> 0]
NewXMP == [Caption |-> <<>>, Creator |-> <<>>, Keywords |-> <<>>,
           Make |-> NONE, ISO |-> NONE, Date |-> NONE, Created |-> NONE]

(* The segments that a setter asks for and that are not there are created, *)
(* unless the image has one that was not read or cannot carry it.          *)
Ensure(d, S) ==
    [d EXCEPT
      !.exif = IF @ = NONE /\ "EXIF" \in S \ d.opaque THEN NewEXIF ELSE @,
      !.iptc = IF @ = NONE /\ "IPTC" \in S \ d.opaque /\ CarriesIPTC(d.fmt) THEN NewIPTC ELSE @,
      !.xmp = IF @ = NONE /\ "XMP" \in S \ d.opaque THEN NewXMP ELSE @]

Touch(d, S) ==
    [d EXCEPT !.modified = @ \cup {s \in S : CASE s = "EXIF" -> d.exif # NONE
                                              [] s = "IPTC" -> d.iptc # NONE
                                              [] s = "XMP" -> d.xmp # NONE}]

WithEXIF(d, Edit(_)) == IF d.exif = NONE THEN d ELSE [d EXCEPT !.exif = Edit(@)]
WithIPTC(d, Edit(_)) == IF d.iptc = NONE THEN d ELSE [d EXCEPT !.iptc = Edit(@)]
WithXMP(d, Edit(_)) == IF d.xmp = NONE THEN d ELSE [d EXCEPT !.xmp = Edit(@)]
Touched(d, S) == Touch(Ensure(d, S), S)

SetCaption(d, v) ==
    LET t == Touched(d, Segments)
        e == WithEXIF(t, LAMBDA x : [x EXCEPT !.Caption = v])
        i == WithIPTC(e, LAMBDA x : SetRecord2(x, DataSet["Caption"], TruncateToLimit(v, Limit)))
    IN WithXMP(i, LAMBDA x : [x EXCEPT !.Caption = SetDefaultText(@, v)])

Cut(vs) == [i \in DOMAIN vs |-> TruncateToLimit(vs[i], Limit)]

(* SetCreators, and SetCreator for the list of one.                        *)
SetCreators(d, vs) ==
    LET t == Touched(d, Segments)
        e == WithEXIF(t, LAMBDA x : [x EXCEPT !.Creator = IF vs = <<>> THEN NONE ELSE JoinArtist(vs)])
        i == WithIPTC(e, LAMBDA x : SetList(x, DataSet["Creator"], Cut(vs)))
    IN WithXMP(i, LAMBDA x : [x EXCEPT !.Creator = vs])

SetCreator(d, v) ==
    LET t == Touched(d, Segments)
        e == WithEXIF(t, LAMBDA x : [x EXCEPT !.Creator = JoinArtist(<<v>>)])
        i == WithIPTC(e, LAMBDA x : KeepFirst(SetRecord2(x, DataSet["Creator"], TruncateToLimit(v, Limit)),
                                              DataSet["Creator"]))
    IN WithXMP(i, LAMBDA x : [x EXCEPT !.Creator = <<v>>])

SetKeywords(d, vs) ==
    LET i == WithIPTC(Touched(d, {"IPTC", "XMP"}), LAMBDA x : SetList(x, DataSet["Keywords"], Cut(vs)))
    IN WithXMP(i, LAMBDA x : [x EXCEPT !.Keywords = vs])

(* Faulty: the fraction of the second of the old date stays.               *)
SetDateKeepsSubSec(d, t) ==
    LET e == WithEXIF(Touched(d, Segments), LAMBDA x : [x EXCEPT !.Date = <<t[1], t[2]>>, !.Offset = t[3]])
        i == WithIPTC(e, LAMBDA x : SetRecord2(SetRecord2(x, DataSet["Date"], <<t[1]>>),
                                               DataSet["Time"], <<t[2], t[3]>>))
    IN WithXMP(i, LAMBDA x : [x EXCEPT !.Date = SubSeq(t, 1, 3), !.Created = SubSeq(t, 1, 3)])

SetDateTimeOriginal(d, t) ==
    LET e == WithEXIF(Touched(d, Segments),
                      LAMBDA x : [x EXCEPT !.Date = <<t[1], t[2]>>, !.Offset = t[3], !.SubSec = 0])
        i == WithIPTC(e, LAMBDA x : SetRecord2(SetRecord2(x, DataSet["Date"], <<t[1]>>),
                                               DataSet["Time"], <<t[2], t[3]>>))
    IN WithXMP(i, LAMBDA x : [x EXCEPT !.Date = SubSeq(t, 1, 3), !.Created = SubSeq(t, 1, 3)])

(* Faulty: the XMP that follows is not marked.                             *)
MirrorUnmarked(d, f) ==
    IF d.xmp = NONE \/ d.exif = NONE \/ d.xmp[f] = NONE THEN d
    ELSE [d EXCEPT !.xmp[f] = Tag(d, f)]

(* The XMP copy of an EXIF tag follows it when there is one.               *)
MirrorAndTouch(d, f) ==
    IF d.xmp = NONE \/ d.exif = NONE \/ d.xmp[f] = NONE THEN d
    ELSE [d EXCEPT !.xmp[f] = Tag(d, f), !.modified = @ \cup {"XMP"}]

SetMirrored(d, f, v) ==
    LET e == Ensure(d, {"EXIF"})
    IN IF e.exif = NONE THEN e
       ELSE MirrorAndTouch([Touch(e, {"EXIF"}) EXCEPT !.exif[f] = v], f)

Set(d, f, v) == CASE f = "Caption" -> SetCaption(d, v)
                  [] f = "Creator" -> IF Len(v) = 1 THEN SetCreator(d, v[1]) ELSE SetCreators(d, v)
                  [] f = "Keywords" -> SetKeywords(d, v)
                  [] f = "Date" -> SetDateTimeOriginal(d, v)
                  [] f \in {"Make", "ISO"} -> SetMirrored(d, f, v)

Settable(f) == CASE f = "Caption" -> Captions
                 [] f = "Creator" -> CreatorLists
                 [] f = "Keywords" -> KeywordLists
                 [] f = "Date" -> Dates
                 [] f \in {"Make", "ISO"} -> Names

-----------------------------------------------------------------------------
(* Write: the segments that were modified are encoded, and those of the    *)
(* file stay.  An IPTC written together with an XMP gets its digest.       *)

Written(f, d) ==
    LET iptc == IF "IPTC" \in d.modified THEN Encode(d.iptc) ELSE f.iptc
    IN [f EXCEPT
         !.exif = IF "EXIF" \in d.modified THEN d.exif ELSE @,
         !.iptc = iptc,
         !.xmp = IF "XMP" \in d.modified THEN d.xmp ELSE @,
         !.digest = IF {"IPTC", "XMP"} \subseteq d.modified /\ iptc # <<>> THEN DigestOf(iptc) ELSE @]

-----------------------------------------------------------------------------
Nothing == [f \in Fields |-> NONE]

Init == /\ file \in Files
        /\ m = NONE
        /\ src = file
        /\ left = {}
        /\ asked = Nothing
        /\ sets = 0
        /\ writes = 0

(* Read, with the options that leave the segments of skip alone.           *)
Read(skip) ==
    /\ m = NONE
    /\ m' = Loaded(file, skip)
    /\ src' = file
    /\ left' = m'.opaque
    /\ asked' = Nothing
    /\ UNCHANGED <<file, sets, writes>>

SetField(f, v) ==
    /\ m # NONE
    /\ sets < MaxSets
    /\ m' = Set(m, f, v)
    /\ asked' = [asked EXCEPT ![f] = v]
    /\ sets' = sets + 1
    /\ UNCHANGED <<file, src, left, writes>>

(* A write puts the Metadata into the file it was read from; the program   *)
(* then reads the file again.                                              *)
Write ==
    /\ m # NONE
    /\ writes < MaxWrites
    /\ file' = Written(file, m)
    /\ m' = NONE
    /\ writes' = writes + 1
    /\ UNCHANGED <<src, left, asked, sets>>

(* Another program gives the IPTC of the file a caption of its own and     *)
(* leaves the other forms and the digest as they are.                      *)
OtherCaption(v) ==
    /\ m = NONE
    /\ writes \in 1..(MaxWrites - 1)
    /\ file.iptc # NONE
    /\ file' = [file EXCEPT !.iptc = Encode(SetRecord2(Parse(@), DataSet["Caption"], v))]
    /\ src' = file'
    /\ left' = {}
    /\ asked' = Nothing
    /\ writes' = writes + 1
    /\ UNCHANGED <<m, sets>>

Next ==
    \/ \E skip \in Skips : Read(skip)
    \/ \E f \in Fields : \E v \in Settable(f) : SetField(f, v)
    \/ Write
    \/ \E v \in Captions : OtherCaption(v)

Spec == Init /\ [][Next]_vars

-----------------------------------------------------------------------------
(* Properties.                                                             *)

(* What the getter gives for a value: a blank is no value, an empty list   *)
(* is no creator, and EXIF keeps the date to the second.                   *)
Given(f, v) == CASE f = "Caption" -> BlankIsAbsent(v)
                 [] f = "Creator" -> IF v = <<>> THEN <<>> ELSE BlankIsAbsent(v[1])
                 [] f = "Keywords" -> v
                 [] f = "Date" -> SubSeq(v, 1, 3) \o <<0>>
                 [] OTHER -> v

(* The file as it was last read or written, with all its segments.         *)
Now == IF m = NONE THEN Loaded(file, {}) ELSE m
Complete == left = {}

(* The value that was set is the value of the getter, at once and when     *)
(* the file is written and read again: whatever the other forms held, with *)
(* a stale digest too, and when the dataset cannot hold all of it          *)
(* (reconcile.go, resolveText, resolveKeywords and editedIIMDate).         *)
SetIsRead ==
    Complete => \A f \in Fields : asked[f] # NONE => Get(Now, f) = Given(f, asked[f])

(* The forms of a field that was set agree, so that a reader that prefers  *)
(* another of them gets the same value: the dataset has what it can hold   *)
(* of it, and the XMP copy of a tag is not older than the tag              *)
(* (internal/reconcile/fields.go, WriteAlways and WriteIfPresent).         *)
FormsAgree ==
    \A f \in {g \in Fields : asked[g] # NONE} :
        \E d \in {Now}, v \in {Given(f, asked[f])} :
            Complete =>
              CASE f \in TextFields ->
                     /\ d.exif # NONE => BlankIsAbsent(EXIFText(d, f)) = v
                     /\ d.xmp # NONE => XMPText(d, f) = v
                     /\ d.iptc # NONE => IIMText(d, f) = BlankIsAbsent(PredictIIM(v))
                [] f = "Keywords" ->
                     /\ d.xmp # NONE => XMPKeywords(d) = v
                     /\ d.iptc # NONE => ~IIMListChanged(Texts(d.iptc, DataSet[f]), v)
                [] f = "Date" ->
                     /\ d.exif # NONE => EXIFDate(d) = v
                     /\ d.xmp # NONE => ParseDate(d.xmp.Date) = v /\ ParseDate(d.xmp.Created) = v
                     /\ d.iptc # NONE => ParseIIMDate(IIMDate(d), IIMTime(d)) = v
                [] OTHER -> d.exif # NONE /\ d.xmp # NONE /\ d.xmp[f] # NONE => d.xmp[f] = Tag(d, f)

(* The IPTC of f has text that it does not declare to be UTF-8.            *)
Undeclared(f) ==
    f.iptc # NONE /\ \E p \in {Parse(f.iptc)} : ~p.utf8 /\ NeedsUTF8Declaration(p)

SameOthers(d) ==
    \A f \in Fields : asked[f] = NONE => Get(Now, f) = Get(d, f)

(* A field that is not set has the value it had, at once and when the file *)
(* is written and read again (README.md, "all metadata not explicitly      *)
(* changed"), when the program read all of the file, and its text is       *)
(* declared and its IPTC not known to be newer than the rest of it.        *)
OthersKept ==
    \E d \in {Loaded(src, {})} :
        Complete /\ ~d.elevated /\ ~Undeclared(src) => SameOthers(d)

(* The same for an IPTC without a declaration: what Encode writes is read  *)
(* back as it was ("so that a reader will interpret the bytes correctly as *)
(* UTF-8", iptc.go).                                                       *)
TextKept ==
    \E d \in {Loaded(src, {})} : Complete /\ ~d.elevated => SameOthers(d)

(* The same where the digest says that the IPTC was edited after the XMP,  *)
(* so that "an IPTC value wins over EXIF and XMP" (metadata.go): a setter  *)
(* of one field must not make the values of the others be read from the    *)
(* older forms again (reconcile.go, computeIPTCTrustElevated).             *)
ElevatedKept ==
    \E d \in {Loaded(src, {})} :
        Complete /\ d.elevated /\ ~Undeclared(src) => SameOthers(d)
=============================================================================
