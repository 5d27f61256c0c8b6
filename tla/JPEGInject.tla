----------------------------- MODULE JPEGInject -----------------------------
(***************************************************************************)
(* The JPEG writer (format/jpeg/jpeg.go InjectKeeping, splice.go): a scan  *)
(* of the marker segments before the image data plans which segments are   *)
(* left out and where the new ones go; the write then copies the source    *)
(* and applies the plan.                                                   *)
(*                                                                         *)
(* Offsets are segment boundaries: i is the start of segment i and the end *)
(* of segment i - 1.  The plan is recycled from call to call, as the pool  *)
(* of the code does, and the output of a call is the source of the next.   *)
(***************************************************************************)
EXTENDS Integers, Sequences, SequencesExt, FiniteSets, FiniteSetsExt

CONSTANTS None,
          Sources,   \* the files the first call may find, each with a bound on calls
          Calls,     \* the payloads, the segments kept and the option of a call
          MaxDrops,  \* runs of dropped segments a plan holds (maxSpliceDrops)
          MaxRoom    \* what an APP13 segment holds

-----------------------------------------------------------------------------
(* Photoshop image resources (internal/irb/irb.go): the stream of the      *)
(* APP13 segments, which carries the IPTC (resource 0x0404) and its digest *)
(* (0x0425) among the resources of other programs.  A JPEG may cut the     *)
(* stream into several segments at any byte, so a segment can end in the   *)
(* "head" of a resource whose "rest" starts the next one; a resource put   *)
(* together from the two is "joined".                                      *)

(* The elements of s that are in S, in their order: SelectSeq for a set.    *)
Chosen(s, S) ==
    LET upTo[i \in 0..Len(s)] ==
            IF i = 0 THEN <<>>
            ELSE IF s[i] \in S THEN Append(upTo[i - 1], s[i]) ELSE upTo[i - 1]
    IN upTo[Len(s)]

Resource(res, id) == [res |-> res, id |-> id, part |-> "whole"]
IsStream(s) == /\ s \in Seq(Range(s))
               /\ \A i \in DOMAIN s : s[i] = [res |-> s[i].res, id |-> s[i].id, part |-> s[i].part]

IsIPTC(r) == r.res = "iptc"
IsDigest(r) == r.res = "digest"
IsSibling(r) == r.res # "iptc"
IsOther(r) == r.res = "other"
Starts(s) == Chosen(s, {r \in Range(s) : r.part # "rest"})

(* The resources a walk over one stream finds: what starts no resource is  *)
(* skipped, and a resource that overruns the stream ends the walk.         *)
Walk(s) ==
    LET cut == SelectInSeq(s, LAMBDA r : r.part = "head")
    IN Starts(IF cut = 0 THEN s ELSE SubSeq(s, 1, cut - 1))

(* The stream that consecutive segments hold together.                     *)
Join(streams) ==
    LET all == FlattenSeq(streams)
        joins(i) == /\ all[i].part = "head"
                    /\ i < Len(all) /\ all[i + 1] = [all[i] EXCEPT !.part = "rest"]
    IN Starts([i \in DOMAIN all |-> IF joins(i) THEN [all[i] EXCEPT !.part = "joined"]
                                               ELSE all[i]])

FirstId(s, Is(_)) == LET i == SelectInSeq(s, Is) IN IF i = 0 THEN None ELSE s[i].id

IPTCOf(s) == FirstId(Walk(s), IsIPTC)
DigestOf(s) == FirstId(Walk(s), IsDigest)
HasSibling(s) == SelectInSeq(Walk(s), IsSibling) # 0

(* orig with its IPTC replaced by new, or removed when new is None.  Where *)
(* the write puts in XMP too, the digest is brought up to date or created. *)
Splice(orig, new, withXMP) ==
    LET s == Walk(orig)
        place == SelectInSeq(s, IsIPTC)
        update == withXMP /\ new # None
        fresh == IF new = None THEN <<>> ELSE <<Resource("iptc", new)>>
        now(i) == CASE IsIPTC(s[i]) -> IF i = place THEN fresh ELSE <<>>
                    [] IsDigest(s[i]) /\ update -> <<[s[i] EXCEPT !.id = new]>>
                    [] OTHER -> <<s[i]>>
    IN FlattenSeq([i \in DOMAIN s |-> now(i)])
       \o (IF place = 0 THEN fresh ELSE <<>>)
       \o (IF update /\ SelectInSeq(s, IsDigest) = 0 THEN <<Resource("digest", new)>>
                                                     ELSE <<>>)

(* The room a stream takes in a segment: what was cut took up two.         *)
Room(s) == Len(s) + Len(Chosen(s, {r \in Range(s) : r.part = "joined"}))

-----------------------------------------------------------------------------
(* The segments.                                                           *)

Meta == {"EXIF", "XMP", "PS"}
Rank == [EXIF |-> 1, XMP |-> 2, PS |-> 3]

(* A segment: "Lead" is JFIF, JFXX or Adobe, "App" any other APPn, "Table" *)
(* a segment that is no APPn, "Alone" a marker without length, "Odd" a     *)
(* segment with marker byte 0.  "SOS", "EOI" and "Damaged" stand for all   *)
(* the bytes from there on.                                                *)
Kinds == {"Lead", "App", "Table", "Alone", "Odd", "EXIF", "XMP", "Ext", "PS",
          "SOS", "EOI", "Damaged"}
Segment(k, id) == [kind |-> k, id |-> id, guid |-> None, part |-> 0, irb |-> <<>>]
Packet(id, guid) == [Segment("XMP", id) EXCEPT !.guid = guid]
Chunk(guid, part) == [Segment("Ext", None) EXCEPT !.guid = guid, !.part = part]
Photoshop(irb) == [Segment("PS", None) EXCEPT !.irb = irb]

MetaKind(s) == CASE s.kind \in {"XMP", "Ext"} -> "XMP"
                 [] s.kind \in {"EXIF", "PS"} -> s.kind
                 [] OTHER -> None
IsApp(s) == s.kind \in {"Lead", "App", "EXIF", "XMP", "Ext", "PS"}
IsLeading(s) == s.kind = "Lead"
IsChunkOf(s, guid) == s.kind = "Ext" /\ s.guid = guid

(* The XMP of a call.  It may ask to keep the extended XMP of the source    *)
(* with the GUID it names, which is not that of its own contents.          *)
AsksToKeep(x) == x # None /\ x.form \in {"kept", "keptLarge"}
IsXMP(x) == /\ x = [id |-> x.id, form |-> x.form, guid |-> x.guid] /\ x.id # None
            /\ x.form \in {"packet", "large", "wire", "kept", "keptLarge"}
            /\ x.form \notin {"packet", "large"} => x.guid # None
            /\ AsksToKeep(x) => x.guid # x.id
            /\ \A f \in {"linked", "packet", "large"} : [x EXCEPT !.form = f] # None

VARIABLES file,   \* the JPEG
          call,   \* the call in progress, or None
          pl,     \* payloads: what the write puts in
          plan,   \* splicePlan
          scan,   \* scanSplice: [pos, inRun], or None
          put,    \* the kinds of segments still to put in; None before the write
          cursor, \* writeSplice: the source up to here is dealt with
          out,    \* the output so far
          calls,  \* calls that are left
          last    \* the last call that succeeded: [src, call, out], or None

vars == <<file, call, pl, plan, scan, put, cursor, out, calls, last>>

NoPayload == [EXIF |-> None, XMP |-> None, IPTC |-> None, irb |-> <<>>, guid |-> None]
EmptyPlan == [tail |-> 0, insertAt |-> 1, first |-> [k \in Meta |-> 0],
              dropAt |-> [k \in Meta |-> 0], drops |-> <<>>]

Init == /\ \E s \in Sources : file = s.file /\ calls = s.calls
        /\ call = None /\ pl = NoPayload /\ plan = EmptyPlan /\ scan = None /\ put = None
        /\ cursor = 1 /\ out = <<>> /\ last = None

-----------------------------------------------------------------------------
(* The passes before the scan.                                             *)

(* What a walk by readSegment sees: unlike the scan, it takes a segment    *)
(* with marker byte 0 for one that it can pass.                            *)
Readable(f) ==
    LET end == SelectInSeq(f, LAMBDA s : s.kind \in {"SOS", "EOI", "Damaged"})
    IN IF end = 0 THEN f ELSE SubSeq(f, 1, end - 1)

Resources(f) == LET ps == Chosen(Readable(f), {s \in Range(Readable(f)) : s.kind = "PS"})
                IN [i \in DOMAIN ps |-> ps[i].irb]

(* Faulty: the other resources are fetched only to remove the IPTC.        *)
OrigIRBToRemove(f, c) == IF "PS" \in c.keep \/ c.IPTC # None THEN <<>> ELSE Join(Resources(f))

(* resolveOrigIRB: the old resources are fetched only when they are        *)
(* needed, which a probe of each segment finds out.                        *)
OrigIRB(f, c) ==
    IF \/ "PS" \in c.keep
       \/ /\ c.IPTC # None
          /\ \A i \in DOMAIN Resources(f) : ~HasSibling(Resources(f)[i])
    THEN <<>> ELSE Join(Resources(f))

(* resolveKeptExtended: the packet is linked to the extended XMP of the    *)
(* source that it asks to keep, when the source has it.                    *)
KeepsGUID(f, xmp) ==
    /\ AsksToKeep(xmp)
    /\ \E i \in DOMAIN Readable(f) : IsChunkOf(f[i], xmp.guid)
Linked(f, xmp) ==
    IF AsksToKeep(xmp)
    THEN [xmp EXCEPT !.form = IF KeepsGUID(f, xmp) THEN "linked"
                              ELSE IF xmp.form = "kept" THEN "packet" ELSE "large"]
    ELSE xmp

(* The segments kept: a kept EXIF that points outside itself is written    *)
(* again, and the payload of what is kept is not written.                  *)
Keeping(c) == IF c.EXIF = "outward" THEN c.keep \ {"EXIF"} ELSE c.keep
Effective(c) ==
    LET keep == Keeping(c)
        given(k, v) == IF k \in keep THEN None ELSE v
    IN [keep |-> keep, preserve |-> c.preserve, EXIF |-> given("EXIF", c.EXIF),
        XMP |-> given("XMP", c.XMP), IPTC |-> given("PS", c.IPTC)]

(* The files are sequences, of which the Photoshop segments hold resources,*)
(* and None stands for what is not there.                                  *)
ASSUME CallAssumption ==
    /\ None \notin Meta
    /\ \A s \in Sources : /\ s.file \in Seq(Range(s.file))
                          /\ \A i \in DOMAIN s.file : IsStream(s.file[i].irb)
    /\ \A c \in Calls : /\ c.keep \subseteq Meta /\ Effective(c) # None
                        /\ c.XMP # None => IsXMP(c.XMP)

(* Faulty: the runs that a call which failed has left in the plan stay.    *)
BeginRecycled(asked) ==
    /\ call = None /\ calls > 0
    /\ calls' = calls - 1
    /\ LET c == Effective(asked)
       IN /\ call' = c
          /\ pl' = [EXIF |-> c.EXIF, XMP |-> Linked(file, c.XMP), IPTC |-> c.IPTC,
                    irb |-> OrigIRB(file, c),
                    guid |-> IF KeepsGUID(file, c.XMP) THEN c.XMP.guid ELSE None]
          /\ plan' = [EmptyPlan EXCEPT !.drops = plan.drops]
          /\ scan' = [pos |-> 1, inRun |-> TRUE]
    /\ UNCHANGED <<file, put, cursor, out, last>>

Begin(asked) ==
    /\ call = None /\ calls > 0
    /\ calls' = calls - 1
    /\ LET c == Effective(asked)
           kept == KeepsGUID(file, c.XMP)
       IN IF kept /\ c.XMP.form = "keptLarge"
          THEN UNCHANGED <<call, pl, plan, scan>>  \* ErrExtendedXMPConflict
          ELSE /\ call' = c
               /\ pl' = [EXIF |-> c.EXIF, XMP |-> Linked(file, c.XMP), IPTC |-> c.IPTC,
                         irb |-> OrigIRB(file, c),
                         guid |-> IF kept THEN c.XMP.guid ELSE None]
               /\ plan' = EmptyPlan
               /\ scan' = [pos |-> 1, inRun |-> TRUE]
    /\ UNCHANGED <<file, put, cursor, out, last>>

-----------------------------------------------------------------------------
(* scanSplice, one segment at a time.                                      *)

Keeps(s) == MetaKind(s) \in call.keep
(* Faulty: extended XMP is not told from the segments of other programs.   *)
DropsNoChunk(s) ==
    ~Keeps(s) /\ (s.kind \in Meta \/ (~call.preserve /\ IsApp(s)))

Drops(s) ==
    /\ ~Keeps(s)
    /\ ~(pl.guid # None /\ IsChunkOf(s, pl.guid))
    /\ MetaKind(s) # None \/ (~call.preserve /\ IsApp(s))

(* addDrop: runs that touch are one.                                       *)
AddDrop(drops, pos) ==
    IF drops # <<>> /\ Last(drops).to = pos
    THEN [drops EXCEPT ![Len(drops)].to = pos + 1]
    ELSE Append(drops, [from |-> pos, to |-> pos + 1])

Note(places, k, pos) == IF k # None /\ places[k] = 0 THEN [places EXCEPT ![k] = pos] ELSE places

Scanned(s) ==
    [plan EXCEPT !.first = Note(@, MetaKind(s), scan.pos),
                 !.dropAt = IF Drops(s) THEN Note(@, MetaKind(s), scan.pos) ELSE @,
                 !.drops = IF Drops(s) THEN AddDrop(@, scan.pos) ELSE @,
                 !.insertAt = IF scan.inRun /\ IsLeading(s) THEN scan.pos + 1 ELSE @]

EndKinds == {"SOS", "EOI", "Damaged"}
StopKinds == {"SOS", "EOI", "Damaged", "Odd"}
AtStop == scan.pos <= Len(file) => file[scan.pos].kind \in StopKinds

GiveUp == /\ call' = None /\ scan' = None /\ put' = None /\ out' = <<>>
          /\ UNCHANGED <<file, pl, plan, cursor, calls, last>>

ScanAlone ==
    /\ scan # None /\ ~AtStop /\ file[scan.pos].kind = "Alone"
    /\ scan' = [pos |-> scan.pos + 1, inRun |-> FALSE]
    /\ UNCHANGED <<file, call, pl, plan, put, cursor, out, calls, last>>

ScanSegment ==
    /\ scan # None /\ ~AtStop /\ file[scan.pos].kind # "Alone"
    /\ Len(Scanned(file[scan.pos]).drops) <= MaxDrops
    /\ plan' = Scanned(file[scan.pos])
    /\ scan' = [pos |-> scan.pos + 1,
                inRun |-> scan.inRun /\ IsLeading(file[scan.pos])]
    /\ UNCHANGED <<file, call, pl, put, cursor, out, calls, last>>

ScanTooMany ==
    /\ scan # None /\ ~AtStop /\ file[scan.pos].kind # "Alone"
    /\ Len(Scanned(file[scan.pos]).drops) > MaxDrops
    /\ GiveUp

-----------------------------------------------------------------------------
(* The write.                                                              *)

Has(k) == CASE k = "EXIF" -> pl.EXIF # None
            [] k = "XMP" -> pl.XMP # None
            [] k = "PS" -> pl.IPTC # None \/ pl.irb # <<>>

(* Where a new segment goes that replaces no old one: after the segment it *)
(* follows, the last there is of EXIF and XMP, else after the leading ones.*)
After(k) == IF k = "PS" /\ plan.first["XMP"] # 0 THEN plan.first["XMP"] + 1
            ELSE IF k # "EXIF" /\ plan.first["EXIF"] # 0 THEN plan.first["EXIF"] + 1
            ELSE plan.insertAt

(* Faulty: what is replaced is put where a new segment would go.           *)
EmitNotInPlace(k) == After(k)

(* The place of a new segment is that of the first old one it replaces.    *)
EmitOffset(k) == IF plan.dropAt[k] # 0 THEN plan.dropAt[k] ELSE After(k)

(* The scan ends: the plan becomes the steps of the write.                 *)
ScanStop ==
    /\ scan # None /\ AtStop
    /\ plan' = [plan EXCEPT !.tail = scan.pos]
    /\ scan' = None
    /\ put' = {k \in Meta : Has(k)}
    /\ cursor' = 1 /\ out' = <<>>
    /\ UNCHANGED <<file, call, pl, calls, last>>

(* What emit writes.  An XMP that does not fit one segment is a standard   *)
(* packet linked to extended XMP, named by what it holds; a wire frame     *)
(* brings its own.                                                         *)
IRBOut == Splice(pl.irb, pl.IPTC, pl.XMP # None)
Block(k) ==
    CASE k = "EXIF" -> <<Segment("EXIF", pl.EXIF)>>
      [] k = "XMP" ->
            (CASE pl.XMP.form = "packet" -> <<Packet(pl.XMP.id, None)>>
               [] pl.XMP.form = "linked" -> <<Packet(pl.XMP.id, pl.XMP.guid)>>
               [] pl.XMP.form \in {"large", "wire"} ->
                    LET guid == IF pl.XMP.form = "large" THEN pl.XMP.id ELSE pl.XMP.guid
                    IN <<Packet(pl.XMP.id, guid), Chunk(guid, 1), Chunk(guid, 2)>>)
      [] k = "PS" -> IF IRBOut = <<>> THEN <<>> ELSE <<Photoshop(IRBOut)>>

Copied(to) == out \o SubSeq(file, cursor, to - 1)

Writing == put # None

(* emitOps: new segments go in by offset and, at one offset, by kind.      *)
Sooner(a, b) == \/ EmitOffset(a) < EmitOffset(b)
                \/ EmitOffset(a) = EmitOffset(b) /\ Rank[a] < Rank[b]
Soonest == CHOOSE k \in put : \A j \in put \ {k} : Sooner(k, j)

PutIsNext == /\ put # {}
             /\ plan.drops # <<>> => EmitOffset(Soonest) <= Head(plan.drops).from
DropIsNext == plan.drops # <<>> /\ ~PutIsNext

PutIn ==
    /\ Writing /\ PutIsNext
    /\ Soonest = "PS" => Room(IRBOut) <= MaxRoom
    /\ out' = Copied(EmitOffset(Soonest)) \o Block(Soonest)
    /\ cursor' = Max({cursor, EmitOffset(Soonest)})
    /\ put' = put \ {Soonest}
    /\ UNCHANGED <<file, call, pl, plan, scan, calls, last>>

PutTooLarge ==
    /\ Writing /\ PutIsNext
    /\ Soonest = "PS" /\ Room(IRBOut) > MaxRoom
    /\ GiveUp

LeaveOut ==
    /\ Writing /\ DropIsNext
    /\ out' = Copied(Head(plan.drops).from)
    /\ cursor' = Max({cursor, Head(plan.drops).to})
    /\ plan' = [plan EXCEPT !.drops = Tail(@)]
    /\ UNCHANGED <<file, call, pl, scan, put, calls, last>>

(* writeTail: the rest, image data and all; the output replaces the file.  *)
Finish ==
    /\ Writing /\ ~PutIsNext /\ ~DropIsNext
    /\ file' = Copied(Len(file) + 1)
    /\ last' = [src |-> file, call |-> call, out |-> file']
    /\ call' = None /\ put' = None /\ out' = <<>> /\ cursor' = 1
    /\ UNCHANGED <<pl, plan, scan, calls>>

Next == \/ \E c \in Calls : Begin(c)
        \/ ScanAlone \/ ScanSegment \/ ScanTooMany \/ ScanStop
        \/ PutIn \/ PutTooLarge \/ LeaveOut \/ Finish

Spec == Init /\ [][Next]_vars
-----------------------------------------------------------------------------
(* What a reader finds (ExtractFull).                                      *)

ReadEXIF(f) == FirstId(Readable(f), LAMBDA s : s.kind = "EXIF")
ReadIPTC(f) == IPTCOf(Join(Resources(f)))
ReadDigest(f) == DigestOf(Join(Resources(f)))
Others(f) == LET all == Walk(Join(Resources(f)))
                 o == Chosen(all, {r \in Range(all) : IsOther(r)})
             IN [i \in DOMAIN o |-> o[i].id]

(* Extended XMP is merged when each of its two parts is there once.        *)
Extension(f, guid) ==
    LET parts == Chosen(Readable(f), {s \in Range(Readable(f)) : IsChunkOf(s, guid)})
    IN CASE guid = None \/ parts = <<>> -> "none"
         [] guid # None /\ Len(parts) = 2 /\ {parts[1].part, parts[2].part} = {1, 2} -> "whole"
         [] OTHER -> "broken"
ReadXMP(f) ==
    LET i == SelectInSeq(Readable(f), LAMBDA s : s.kind = "XMP")
    IN IF i = 0 THEN None ELSE [id |-> f[i].id, extension |-> Extension(f, f[i].guid)]

-----------------------------------------------------------------------------
(* Properties.                                                             *)

(* Every variable holds a value of its type.                               *)
TypeOK ==
    /\ call # None => /\ call.keep \subseteq Meta
                      /\ "EXIF" \in call.keep => pl.EXIF = None
    /\ scan # None => call # None /\ scan.pos \in 1..Len(file) + 1
    /\ put # None => call # None /\ scan = None /\ plan.tail \in 1..Len(file) + 1
    /\ \A k \in Meta : plan.dropAt[k] # 0 => plan.first[k] \in 1..plan.dropAt[k]
    /\ \A i \in DOMAIN plan.drops : plan.drops[i].from < plan.drops[i].to
    /\ \A i \in 1..Len(plan.drops) - 1 : plan.drops[i].to < plan.drops[i + 1].from

TailFrom(f) == LET i == SelectInSeq(f, LAMBDA s : s.kind \in StopKinds)
               IN IF i = 0 THEN Len(f) + 1 ELSE i
Before(f, n) == SubSeq(f, 1, n - 1)
From(f, n) == SubSeq(f, n, Len(f))

Stays(c, s) ==
    \/ MetaKind(s) \in c.keep
    \/ MetaKind(s) = None /\ (c.preserve \/ ~IsApp(s))
    \/ AsksToKeep(c.XMP) /\ IsChunkOf(s, c.XMP.guid)

Staying(c, f) == Chosen(f, {s \in Range(f) : Stays(c, s)})

(* The output is the source with only metadata changed: every other        *)
(* segment, and every one the call keeps, is there once and in order, and  *)
(* all that the scan did not read follows unchanged.                       *)
RestCopied ==
    /\ TypeOK
    /\ last # None =>
        LET n == TailFrom(last.src)
            m == Len(last.out) - Len(last.src) + n
        IN /\ From(last.out, m) = From(last.src, n)
           /\ Staying(last.call, Before(last.out, m)) = Staying(last.call, Before(last.src, n))

(* The XMP a reader finds in what the call c makes of src.                 *)
XMPAfter(src, c) ==
    IF c.XMP = None THEN None
    ELSE [id |-> c.XMP.id,
          extension |->
            CASE c.XMP.form = "packet" -> "none"
              [] c.XMP.form \in {"large", "wire"} -> "whole"
              [] OTHER -> IF KeepsGUID(src, c.XMP) \/ c.XMP.form = "kept"
                          THEN Extension(src, c.XMP.guid) ELSE "whole"]
ReadsIn(src, c, new) ==
    /\ ReadEXIF(new) = IF "EXIF" \in c.keep THEN ReadEXIF(src) ELSE c.EXIF
    /\ ReadIPTC(new) = IF "PS" \in c.keep THEN ReadIPTC(src) ELSE c.IPTC
    /\ ReadXMP(new) = IF "XMP" \in c.keep THEN ReadXMP(src) ELSE XMPAfter(src, c)

(* The scan stops at a segment with marker byte 0, which a reader passes:  *)
(* the two agree on a file in which no metadata follow such a segment.     *)
Plain(f) == \A i \in TailFrom(f)..Len(f) :
                (\A j \in 1..i : f[j].kind \notin EndKinds) => MetaKind(f[i]) = None

(* Where the scan and the reader agree on the source, what the reader      *)
(* finds in the output is what the call was given, or what it found before *)
(* where the call keeps a segment: no old segment hides the new one, and   *)
(* no link of the XMP leads to extended XMP that is not there whole,       *)
(* unless it was not whole before.                                         *)
ReadsBack ==
    last # None /\ Plain(last.src) => ReadsIn(last.src, last.call, last.out)

(* The same of every source: the segments that are not kept are replaced   *)
(* by the payload given, or removed when it is nil (InjectKeeping).        *)
Replaced == last # None => ReadsIn(last.src, last.call, last.out)

(* The resources of other programs are fetched when the Photoshop segments *)
(* are rewritten, unless an IPTC is written and the probe, which looks at  *)
(* one segment at a time, sees none (resolveOrigIRB): it misses the ones   *)
(* that are cut in two between segments.                                   *)
ProbeSees(f, c) == \/ "PS" \in c.keep \/ c.IPTC = None
                   \/ \E i \in DOMAIN Resources(f) : HasSibling(Resources(f)[i])

(* Of the Photoshop resources, those of other programs survive what is     *)
(* done to the IPTC where the probe sees one in any segment - the ones     *)
(* that are cut between segments then too -, and an IPTC that is written   *)
(* in one call with an XMP has a digest of its own (AppendSplicedDigest).  *)
ResourcesKept ==
    last # None /\ Plain(last.src) =>
        /\ Others(last.src) = <<>> \/ ProbeSees(last.src, last.call)
             => Others(last.out) = Others(last.src)
        /\ last.call.IPTC # None /\ last.call.XMP # None
             => ReadDigest(last.out) = last.call.IPTC

(* All sibling resources are preserved whenever the IPTC is replaced       *)
(* (Inject), the ones the probe misses too.                                *)
SiblingsKept == last # None => Others(last.out) = Others(last.src)

(* An IPTC that is written has its digest when the output carries XMP,     *)
(* written now or present already (AppendSpliced).                         *)
DigestFollows ==
    last # None /\ last.call.IPTC # None /\ ReadXMP(last.out) # None
        => ReadDigest(last.out) = last.call.IPTC

IsAPP1(s) == s.kind \in {"EXIF", "XMP", "Ext"}
FirstOf(f, Is(_)) == SelectInSeq(Before(f, TailFrom(f)), Is)

(* The JFIF and Adobe segments that follow SOI stay where they are, and    *)
(* the EXIF is the first APP1 unless an XMP preceded it in the source.     *)
FirstInOrder ==
    last # None =>
        LET lead == SelectInSeq(last.src, LAMBDA s : ~IsLeading(s))
            n == IF lead = 0 THEN Len(last.src) ELSE lead - 1
            exif(f) == FirstOf(f, LAMBDA s : s.kind = "EXIF")
            app1(f) == FirstOf(f, IsAPP1)
        IN /\ last.call.preserve => SubSeq(last.out, 1, n) = SubSeq(last.src, 1, n)
           /\ exif(last.out) # 0 /\ (exif(last.src) = 0 \/ exif(last.src) = app1(last.src))
                => exif(last.out) = app1(last.out)

(* A new segment stands where the first old one that it replaces stood     *)
(* among the segments that stay.                                           *)
InPlace ==
    last # None =>
        LET first(f, k) == FirstOf(f, LAMBDA s : MetaKind(s) = k /\ ~Stays(last.call, s))
            above(f, k) == Len(Staying(last.call, Before(f, first(f, k))))
        IN \A k \in Meta : first(last.src, k) # 0 /\ first(last.out, k) # 0
                             => above(last.out, k) = above(last.src, k)

(* The order of the segments is that of the source (splice.go, emitOffset).*)
OrderKept == FirstInOrder /\ InPlace

(* The same call again changes nothing, where the scan and the reader      *)
(* agree: a write does not grow the file or move what the one before it    *)
(* put in.                                                                 *)
SameAgain == /\ last # None /\ Plain(last.src)
             /\ last'.src = last.out /\ last'.call = last.call
             => last'.out = last.out
Idempotent == [][last' # last => SameAgain]_vars
=============================================================================
