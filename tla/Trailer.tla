------------------------------ MODULE Trailer ------------------------------
(***************************************************************************)
(* The trailers after the image data (internal/trailer): a write finds the *)
(* AFCP, FotoStation and Samsung trailers, rewrites their copies of the    *)
(* IPTC and their absolute offsets for the place they get in the output,   *)
(* and copies the rest.                                                    *)
(*                                                                         *)
(* A region is a sequence of cells, one for each field or byte that the    *)
(* trailers tell apart:                                                    *)
(*   "AXS"   a signature with the word after it: of a header the number of *)
(*           directory entries, of an EOF record the offset of the header; *)
(*   "dir"   an entry of a directory: identifier, size and offset;         *)
(*   "foto"  the footer of a FotoStation record: tag and size;             *)
(*   "SEFH", "SEFT"  the first and last cell of a Samsung directory block, *)
(*           the latter with the length of what is before it;              *)
(*   "QDIO"  the block with the offsets of the audio file;                 *)
(*   "x"     any other byte.                                               *)
(* Offsets are absolute, and the region starts at base.                    *)
(***************************************************************************)
EXTENDS Integers, Sequences, SequencesExt, FiniteSetsExt

CONSTANTS
    NONE,
    Files,          \* the regions that may be read, with their base
    IPTCs,          \* the IPTC that a write may bring, NONE to keep the copies
    Growths,        \* by how much the data before the region may grow
    MaxSignatures,  \* maxAFCPSignatures
    MaxCandidates,  \* maxSamsungCandidates
    MaxOffset,      \* the largest offset of a trailer
    MaxWrites       \* writes of a behaviour

ASSUME TrailerAssumption == {MaxSignatures, MaxCandidates, MaxOffset, MaxWrites} \subseteq Nat

VARIABLES
    file,           \* [base, cells]
    before,         \* the file before the last write, or NONE
    iptc,           \* the IPTC of the last write
    writes

vars == <<file, before, iptc, writes>>

Cell(k, tag, n, off) == [k |-> k, tag |-> tag, n |-> n, off |-> off]

End(f) == f.base + Len(f.cells)
Places(f) == f.base..End(f) - 1
CellAt(f, at) == f.cells[at - f.base + 1]
Cells(f, from, to) == SubSeq(f.cells, from - f.base + 1, to - f.base)
Ascending(S) == SetToSortSeq(S, <)
Found(f, kind) == {at \in Places(f) : CellAt(f, at).k = kind}

-----------------------------------------------------------------------------
(* The finders.                                                            *)

(* The entries of the candidate lie after its directory, in the region.    *)
DirectoryEnd(f, at) == at + 1 + CellAt(f, at).n
DirectoryOK(f, at) ==
    /\ DirectoryEnd(f, at) + 1 <= End(f)
    /\ \A i \in at + 1..DirectoryEnd(f, at) - 1 :
          LET d == CellAt(f, i) IN d.off >= DirectoryEnd(f, at) /\ d.off + d.n <= End(f)
DataEnd(f, at) ==
    Max({DirectoryEnd(f, at)} \cup {CellAt(f, i).off + CellAt(f, i).n : i \in at + 1..DirectoryEnd(f, at) - 1})

(* The record that closes the candidate: the first one after its data with *)
(* its signature that points back at it.                                   *)
EOFRecords(f, at) ==
    {rec \in Found(f, "AXS") : /\ rec > at /\ rec >= DataEnd(f, at)
                               /\ CellAt(f, rec).tag = CellAt(f, at).tag
                               /\ CellAt(f, rec).n = at}

(* scanAFCP, as a set of at most one trailer.                              *)
AFCP(f) ==
    LET sigs == Found(f, "AXS")
        good == {at \in sigs : DirectoryOK(f, at) /\ EOFRecords(f, at) # {}}
        at == Min(good)
        Entry(d) == [tag |-> d.tag, data |-> Cells(f, d.off, d.off + d.n)]
    IN IF Cardinality(sigs) > MaxSignatures \/ good = {} THEN {}
       ELSE {[start |-> at, end |-> Min(EOFRecords(f, at)) + 1, sig |-> CellAt(f, at).tag,
              entries |-> [i \in 1..CellAt(f, at).n |-> Entry(CellAt(f, at + i))]]}

(* scanFotoStation: the records that follow each other from there.         *)
Foto(f, from) ==
    LET footers == Ascending({at \in Found(f, "foto") : at >= from})
        walk == FoldLeft(LAMBDA w, at :
                    IF w.stop \/ at + 1 - CellAt(f, at).n # w.end THEN [w EXCEPT !.stop = TRUE]
                    ELSE [w EXCEPT !.end = at + 1,
                                   !.recs = Append(@, [tag |-> CellAt(f, at).tag, data |-> Cells(f, w.end, at)])],
                    [start |-> from, end |-> from, recs |-> <<>>, stop |-> FALSE], footers)
    IN IF walk.recs = <<>> THEN {} ELSE {[start |-> from, end |-> walk.end, recs |-> walk.recs]}

(* scanSamsungQDIO: the last block that follows a directory and whose      *)
(* audio file is in the region, before it.                                 *)
Samsung(f) ==
    LET Candidate(q) ==
            /\ q - 1 \in Places(f)
            /\ CellAt(f, q - 1).k = "SEFT"
            /\ CellAt(f, q - 1).n \in 1..q - 1 - f.base
            /\ f.base <= CellAt(f, q).n /\ CellAt(f, q).n <= CellAt(f, q).off /\ CellAt(f, q).off <= q
        all == Ascending({q \in Found(f, "QDIO") : Candidate(q)})
        newest == Range(SubSeq(all, Max({1, Len(all) - MaxCandidates + 1}), Len(all)))
        blocks == {q \in newest : CellAt(f, q - 1 - CellAt(f, q - 1).n).k = "SEFH"}
    IN {[start |-> q, end |-> q + 1, from |-> CellAt(f, q).n, to |-> CellAt(f, q).off] :
            q \in {q \in blocks : \A r \in blocks : r <= q}}

-----------------------------------------------------------------------------
(* The plan: the spans to rewrite, in order and disjoint.                  *)

Span(kind, t) == [kind |-> kind, start |-> t.start, end |-> t.end, t |-> t]

AFCPAndFoto(f) ==
    LET afcp == AFCP(f)
        after == IF afcp = {} THEN Foto(f, f.base) ELSE UNION {Foto(f, t.end) : t \in afcp}
        ahead == {r \in Foto(f, f.base) : \E t \in afcp : r.end <= t.start}
    IN {Span("afcp", t) : t \in afcp} \cup {Span("foto", r) : r \in after \cup ahead}

(* Faulty: every trailer that is found is rewritten.                       *)
AllSpans(f) == AFCPAndFoto(f) \cup {Span("qdio", s) : s \in Samsung(f)}

(* What intersects the audio file and the blocks up to the QDIO block is   *)
(* part of that piece, which moves as a whole.                             *)
Spans(f) ==
    {sp \in AFCPAndFoto(f) : \A s \in Samsung(f) : sp.end <= s.from \/ sp.start >= s.end}
    \cup {Span("qdio", s) : s \in Samsung(f)}

Plan(f) ==
    FoldLeft(LAMBDA plan, sp : IF plan # <<>> /\ sp.start < Last(plan).end THEN plan ELSE Append(plan, sp),
             <<>>, SetToSortSeq(Spans(f), LAMBDA a, b : a.start < b.start))

-----------------------------------------------------------------------------
(* A span in the output.                                                   *)

NewData(tag, data, new) == IF tag = "iptc" /\ new # NONE THEN new ELSE data
Changes(parts, new) == \E i \in DOMAIN parts : NewData(parts[i].tag, parts[i].data, new) # parts[i].data

(* Faulty: the new data has the place of the old.                          *)
BuildInPlace(t, outPos, new) ==
    LET datas == [i \in DOMAIN t.entries |-> NewData(t.entries[i].tag, t.entries[i].data, new)]
        n == Len(datas)
        old(i) == FoldLeft(LAMBDA a, e : a + Len(e.data), 0, SubSeq(t.entries, 1, i - 1))
    IN <<Cell("AXS", t.sig, n, 0)>>
       \o [i \in 1..n |-> Cell("dir", t.entries[i].tag, Len(datas[i]), outPos + 1 + n + old(i))]
       \o FlattenSeq(datas) \o <<Cell("AXS", t.sig, outPos, 0)>>

(* A trailer whose offsets are laid out for outPos.                        *)
BuildAFCP(t, outPos, new) ==
    LET datas == [i \in DOMAIN t.entries |-> NewData(t.entries[i].tag, t.entries[i].data, new)]
        n == Len(datas)
        offset(i) == outPos + 1 + n + Len(FlattenSeq(SubSeq(datas, 1, i - 1)))
    IN <<Cell("AXS", t.sig, n, 0)>>
       \o [i \in 1..n |-> Cell("dir", t.entries[i].tag, Len(datas[i]), offset(i))]
       \o FlattenSeq(datas) \o <<Cell("AXS", t.sig, outPos, 0)>>

BuildFoto(recs, new) ==
    FlattenSeq([i \in DOMAIN recs |->
        LET data == NewData(recs[i].tag, recs[i].data, new)
        IN Append(data, Cell("foto", recs[i].tag, Len(data) + 1, 0))])

Built(f, sp, outPos, new) ==
    LET t == sp.t
        asIs == Cells(f, sp.start, sp.end)
        delta == outPos - sp.start
    IN CASE sp.kind = "afcp" -> IF delta = 0 /\ ~Changes(t.entries, new) THEN asIs ELSE BuildAFCP(t, outPos, new)
         [] sp.kind = "foto" -> IF Changes(t.recs, new) THEN BuildFoto(t.recs, new) ELSE asIs
         [] OTHER -> <<[asIs[1] EXCEPT !.n = @ + delta, !.off = @ + delta]>>

(* An offset that does not fit its field fails the write.                  *)
Overflows(sp, outPos, built) ==
    CASE sp.kind = "afcp" -> outPos + Len(built) > MaxOffset
      [] sp.kind = "foto" -> FALSE
      [] OTHER -> built[1].n < 0 \/ built[1].off > MaxOffset

(* WriteRegion to an output whose region starts at base.                   *)
WriteRegion(f, base, new) ==
    LET done == FoldLeft(LAMBDA w, sp :
            LET copied == w.out \o Cells(f, w.cur, sp.start)
                built == Built(f, sp, base + Len(copied), new)
            IN [out |-> copied \o built, cur |-> sp.end,
                ok |-> w.ok /\ ~Overflows(sp, base + Len(copied), built)],
            [out |-> <<>>, cur |-> f.base, ok |-> TRUE], Plan(f))
    IN [ok |-> done.ok, cells |-> done.out \o Cells(f, done.cur, End(f))]

-----------------------------------------------------------------------------
Init == /\ file \in Files
        /\ before = NONE
        /\ iptc = NONE
        /\ writes = 0

(* A write of the image whose metadata grows by that much.                 *)
Write(new, growth) ==
    /\ writes < MaxWrites
    /\ file.base + growth >= 0
    /\ \E w \in {WriteRegion(file, file.base + growth, new)} :
          /\ w.ok
          /\ file' = [base |-> file.base + growth, cells |-> w.cells]
    /\ before' = file
    /\ iptc' = new
    /\ writes' = writes + 1

Next == \E new \in IPTCs, growth \in Growths : Write(new, growth)

Spec == Init /\ [][Next]_vars

-----------------------------------------------------------------------------
(* Properties.                                                             *)

Wrote == before # NONE

(* The audio file that the offsets of a Samsung trailer name is the same   *)
(* after a write, whatever changes size before it or among its bytes       *)
(* (PlanFromSource, WriteRegion).                                          *)
Audio(f) == {Cells(f, s.from, s.to) : s \in Samsung(f)}
AudioKept == Wrote => Audio(before) \subseteq Audio(file)

(* A trailer that is not part of that audio file is found again after a    *)
(* write, in its order, with the new IPTC in each of its copies and the    *)
(* other data as it was, and every byte outside the trailers stays, in its *)
(* order; only what an AFCP trailer has between its data and its end may   *)
(* go (AFCP.build, fotoSpan, WriteRegion).                                 *)
Updated(parts) == [i \in DOMAIN parts |-> [tag |-> parts[i].tag, data |-> NewData(parts[i].tag, parts[i].data, iptc)]]
Apart(f) == {sp \in AFCPAndFoto(f) : \A s \in Samsung(f) : sp.end <= s.from \/ sp.start >= s.end}
Others(cells) == SelectSeq(cells, LAMBDA c : c.k = "x" /\ c.tag \notin {"i", "gap"})
CopiesUpdated ==
    Wrote =>
        /\ {Updated(sp.t.entries) : sp \in {sp \in Apart(before) : sp.kind = "afcp"}}
              \subseteq {t.entries : t \in AFCP(file)}
        /\ {Updated(sp.t.recs) : sp \in {sp \in Apart(before) : sp.kind = "foto"}}
              \subseteq {sp.t.recs : sp \in {sp \in AFCPAndFoto(file) : sp.kind = "foto"}}
        /\ Others(file.cells) = Others(before.cells)
=============================================================================
