----------------------------- MODULE TIFFExtent -----------------------------
(***************************************************************************)
(* What Read takes from a large TIFF (tiff/extent.go, tiff/sparse.go): the *)
(* first bytes, grown by rounds until every IFD, every value out of line   *)
(* and every thumbnail lies in them, or, when a structure is far away, a   *)
(* compacted stream of the structures alone with the offsets rewritten.    *)
(* exif.Parse reads either without knowing which.                          *)
(*                                                                         *)
(* A file is the directories at their places; a directory takes one cell   *)
(* for its count, one for each entry and one for the next pointer, and an  *)
(* entry says which cells its value takes.  Everything else is image data. *)
(***************************************************************************)
EXTENDS Integers, Sequences, FiniteSets, SequencesExt

CONSTANTS Files,     \* the files that may be read
          Initial,   \* extentInitialPrefixSize, also the margin of a round
          MaxPasses, \* maxExtentGrowthPasses
          MaxDepth,  \* maxSubIFDDepth
          Trigger,   \* sparseTriggerGap
          MinSaving, \* sparseMinSaving
          MergeGap   \* sparseMergeGap

ASSUME ExtentAssumption ==
    /\ Initial \in Nat \ {0} /\ MaxPasses \in Nat \ {0}
    /\ MaxDepth \in Nat /\ Trigger \in Nat /\ MinSaving \in Nat /\ MergeGap \in Nat

VARIABLES f,      \* the file
          mode,   \* "scan", "compact", "rescan"; at the end "prefix" or "sparse"
          todo,   \* the IFDs still to be walked, innermost first
          seen,   \* the IFDs this walk has met
          need,   \* the end of what the round has met
          buf,    \* how many bytes were read
          pass,   \* rounds left
          walked, \* the walk of the compaction: directories, data, fields
          stream  \* the compacted stream, or what it does not replace

vars == <<f, mode, todo, seen, need, buf, pass, walked, stream>>

Header == 0..1       \* the magic and the offset of IFD0
IFD0Field == 1
DirLen(d) == 2 + Len(d.es)
NextField(at, d) == at + 1 + Len(d.es)
Field(at, i) == at + i
Cells(at, n) == at .. at + n - 1
Biggest(S) == CHOOSE x \in S : \A y \in S : y <= x
Capped(a, c) == IF a > c THEN c ELSE a

(* An entry: a value out of line, the MakerNote, a thumbnail (at, len), a  *)
(* pointer to an IFD, or an array of SubIFDs (tos), inline when it is one. *)
Entry(k, at, len, tos) == [k |-> k, at |-> at, len |-> len, tos |-> tos]

Walk(off, depth, thumbs) == [off |-> off, depth |-> depth, thumbs |-> thumbs]
NothingWalked == [dirs |-> {}, data |-> {}, maker |-> {}, fields |-> {}, bytes |-> 0]
NoStream == [kept |-> {}, to |-> <<>>]

Start(x) ==
    /\ f = x
    /\ mode = "scan"
    /\ todo = <<Walk(x.ifd0, 0, TRUE)>>
    /\ seen = {}
    /\ need = 0
    /\ buf = Capped(Initial, x.size)
    /\ pass = MaxPasses
    /\ walked = NothingWalked
    /\ stream = NoStream

Init == \E x \in Files : Start(x)

-----------------------------------------------------------------------------
(* One round: the IFDs that can be reached in the bytes read so far.       *)

(* What an entry asks for, and the IFDs it leads to.  A thumbnail is asked *)
(* for only where the parse will keep it, and an array of SubIFDs is       *)
(* followed as far as it was read.                                         *)
AsksValues(e, thumbs) == IF e.k \in {"value", "maker"} THEN e.at + e.len ELSE 0 \* Faulty.
Asks(e, thumbs) ==
    CASE e.k \in {"value", "maker"} -> e.at + e.len
      [] e.k = "jif" -> IF thumbs THEN e.at + e.len ELSE 0
      [] e.k = "sub" -> IF Len(e.tos) > 1 THEN e.at + e.len ELSE 0
      [] OTHER -> 0

LeadsTo(e, depth) ==
    IF depth >= MaxDepth \/ e.k \notin {"ptr", "sub"} THEN <<>>
    ELSE LET known == IF e.k = "sub" /\ Len(e.tos) > 1
                      THEN SelectSeq([i \in DOMAIN e.tos |-> <<i, e.tos[i]>>],
                                     LAMBDA p : e.at + p[1] <= buf)
                      ELSE [i \in DOMAIN e.tos |-> <<i, e.tos[i]>>]
         IN [i \in DOMAIN known |-> Walk(known[i][2], depth + 1, e.k = "ptr")]

UnseenAny(w) == w.off # 0 \* Faulty: a cycle is followed for ever.
Unseen(w) == w.off # 0 /\ w.off \notin seen

IsDir(p) == p \in DOMAIN f.dirs

(* walkIFD: it cannot be read yet, or not at all.                          *)
Short(w) ==
    \E wanted \in {IF w.off + 1 > buf \/ ~IsDir(w.off) THEN w.off + 1
                   ELSE w.off + DirLen(f.dirs[w.off])} :
        /\ wanted > buf
        /\ need' = Biggest({need, wanted})

Known(w) ==
    \E d \in {f.dirs[w.off]} :
        /\ w.off + DirLen(d) <= buf
        /\ need' = Biggest({need, w.off + DirLen(d)}
                           \union {Asks(d.es[i], w.thumbs) : i \in DOMAIN d.es})
        /\ todo' = FlattenSeq([i \in DOMAIN d.es |-> LeadsTo(d.es[i], w.depth)])
                   \o <<[w EXCEPT !.off = d.next]>> \o Tail(todo)

(* Image data taken for a directory ends the chain: nothing follows.       *)
Visit ==
    /\ mode \in {"scan", "rescan"} /\ todo # <<>>
    /\ \E w \in {Head(todo)} :
         IF ~Unseen(w) THEN todo' = Tail(todo) /\ UNCHANGED <<seen, need>>
         ELSE /\ seen' = seen \union {w.off}
              /\ \/ Short(w) /\ todo' = Tail(todo)
                 \/ IsDir(w.off) /\ Known(w)
                 \/ /\ ~IsDir(w.off) /\ w.off + 1 <= buf
                    /\ todo' = Tail(todo) /\ UNCHANGED need
    /\ UNCHANGED <<f, mode, buf, pass, walked, stream>>

(* nextGrowthTarget, clampNeed: the need, or the whole file when less than *)
(* the margin would be left, and the margin.                               *)
Target(n) ==
    LET wanted == Capped(n, f.size)
    IN IF f.size - wanted <= Initial THEN f.size ELSE wanted + Initial

Again ==
    /\ todo' = <<Walk(f.ifd0, 0, TRUE)>>
    /\ seen' = {}
    /\ need' = 0

(* A round is over: everything is there, there is nothing more to read or  *)
(* the rounds are used up; else the bytes up to the target are read.       *)
Found == need <= buf
Jumps == mode = "scan" /\ Target(need) - buf > Trigger

EndRound ==
    /\ mode \in {"scan", "rescan"} /\ todo = <<>>
    /\ \/ /\ Found \/ Target(need) <= buf
          /\ mode' = "prefix"
          /\ UNCHANGED <<todo, seen, need, buf, pass, walked>>
       \/ /\ ~Found /\ Jumps
          /\ mode' = "compact"
          /\ todo' = <<Walk(f.ifd0, 0, TRUE)>> /\ seen' = {}
          /\ UNCHANGED <<need, buf, pass, walked>>
       \/ /\ ~Found /\ ~Jumps /\ Target(need) > buf
          /\ buf' = Target(need)
          /\ pass' = pass - 1
          /\ IF pass = 1 THEN mode' = "prefix" /\ UNCHANGED <<todo, seen, need>>
             ELSE mode' = mode /\ Again
          /\ UNCHANGED walked
    /\ UNCHANGED <<f, stream>>

-----------------------------------------------------------------------------
(* The compaction: walk the directories by seeking to each of them.        *)

Limit == Capped(need, f.size) - MinSaving

InFile(e) == e.at + e.len <= f.size
Ranged(e) == e.k \in {"value", "maker", "jif"} \/ (e.k = "sub" /\ Len(e.tos) > 1)

(* What an entry adds: its bytes, and the field that must be rewritten.    *)
WalkedWith(w, d) ==
    LET taken == {i \in DOMAIN d.es : Ranged(d.es[i]) /\ InFile(d.es[i])}
        ptrs == {i \in DOMAIN d.es : d.es[i].k = "ptr"}
        at == w.off
        Size(S) == MapThenSumSet(LAMBDA i : d.es[i].len, S)
        Span(i) == <<d.es[i].at, d.es[i].at + d.es[i].len>>
    IN [dirs |-> walked.dirs \union {<<at, at + DirLen(d)>>},
        data |-> walked.data \union {Span(i) : i \in taken},
        maker |-> walked.maker \union {Span(i) : i \in {j \in taken : d.es[j].k = "maker"}},
        fields |-> walked.fields
                   \union {<<Field(at, i), d.es[i].at>> : i \in taken}
                   \union {<<Field(at, i), d.es[i].tos[1]>> : i \in ptrs}
                   \union (IF d.next = 0 THEN {} ELSE {<<NextField(at, d), d.next>>}),
        bytes |-> walked.bytes + DirLen(d) + Size(taken)]

(* walkPointer refuses a pointer to nothing and one too deep.              *)
Refused(w, d) == \E i \in DOMAIN d.es :
                    d.es[i].k = "ptr" /\ (d.es[i].tos[1] = 0 \/ w.depth >= MaxDepth)

Inner(w, d) ==
    LET ptrs == SelectSeq(d.es, LAMBDA e : e.k = "ptr")
    IN [i \in DOMAIN ptrs |-> Walk(ptrs[i].tos[1], w.depth + 1, TRUE)]

Resume ==  \* ExtractCompact goes on with the prefix.
    /\ mode' = "rescan"
    /\ Again
    /\ pass' = MaxPasses
    /\ UNCHANGED stream
    /\ walked' = NothingWalked

Collect ==
    /\ mode = "compact" /\ todo # <<>>
    /\ \E w \in {Head(todo)} :
         \/ /\ ~Unseen(w)
            /\ todo' = Tail(todo)
            /\ UNCHANGED <<mode, seen, need, pass, walked, stream>>
         \/ /\ Unseen(w) /\ IsDir(w.off)
            /\ \E d \in {f.dirs[w.off]} : \E ws \in {WalkedWith(w, d)} :
                 /\ w.off + DirLen(d) <= f.size
                 /\ ~Refused(w, d) /\ ws.bytes <= Limit
                 /\ walked' = ws
                 /\ todo' = Inner(w, d) \o <<[w EXCEPT !.off = d.next]>> \o Tail(todo)
            /\ seen' = seen \union {w.off}
            /\ UNCHANGED <<mode, need, pass, stream>>
         \/ /\ Unseen(w)
            /\ IsDir(w.off) => \E d \in {f.dirs[w.off]} :
                                 \/ w.off + DirLen(d) > f.size \/ Refused(w, d)
                                 \/ WalkedWith(w, d).bytes > Limit
            /\ Resume
    /\ UNCHANGED <<f, buf>>

(* regions: what is copied, small gaps included; a position of the file is *)
(* at a position of the stream.                                            *)
Within(ranges) == UNION {Cells(r[1], r[2] - r[1]) : r \in ranges}
KeptOf(ranges) ==
    LET core == Within(ranges) \union Header
        InGap(x) == \E lo \in core \intersect (x - MergeGap .. x - 1) :
                       core \intersect (x + 1 .. lo + MergeGap + 1) # {}
    IN core \union {x \in 0 .. Biggest(core) : InGap(x)}
MapOffset(kept, off) == Cardinality({x \in kept : x < off})

Overlap(r, s) == r # s /\ r[1] < s[2] /\ s[1] < r[2]
Disjoint ==
    /\ \A r \in walked.dirs, s \in walked.dirs : ~Overlap(r, s)
    /\ (Within(walked.dirs) \union Header) \intersect Within(walked.data) = {}

(* The offsets inside the MakerNote keep their meaning in the first region.*)
MakerStays(kept) == \A m \in walked.maker : 0 .. m[2] - 1 \subseteq kept

Worth(kept) == Cardinality(kept) + MinSaving <= Capped(need, f.size)

Build ==
    /\ mode = "compact" /\ todo = <<>>
    /\ \E kept \in {KeptOf(walked.dirs \union walked.data)} :
         IF Disjoint /\ MakerStays(kept) /\ Worth(kept)
         THEN /\ mode' = "sparse"
              /\ stream' = [kept |-> kept,
                            to |-> [x \in {p[1] : p \in walked.fields} \union {IFD0Field} |->
                                      MapOffset(kept, IF x = IFD0Field THEN f.ifd0
                                                      ELSE (CHOOSE p \in walked.fields : p[1] = x)[2])]]
              /\ UNCHANGED <<todo, seen, need, pass, walked>>
         ELSE Resume
    /\ UNCHANGED <<f, buf>>

Next == Visit \/ EndRound \/ Collect \/ Build

(* One goroutine runs Extract to its end.                                  *)
Spec == Init /\ [][Next]_vars /\ WF_vars(Next)

-----------------------------------------------------------------------------
(* What exif.Parse makes of a memory: which cell of the file is at each of *)
(* its positions, and where the fields point that were rewritten.          *)

Prefix(n) == [at |-> [x \in 1..n |-> x - 1], to |-> <<>>]
Whole == Prefix(f.size)
Compacted ==
    LET upTo[k \in 0 .. f.size] ==
            IF k = 0 THEN <<>>
            ELSE IF k - 1 \in stream.kept THEN Append(upTo[k - 1], k - 1) ELSE upTo[k - 1]
    IN [at |-> upTo[f.size], to |-> stream.to]

(* The cells [p, p+n) of a memory as cells of the file, or {} beyond it.   *)
Bytes(m, p, n) ==
    IF p + n <= Len(m.at) THEN SubSeq(m.at, p + 1, p + n) ELSE <<>>

PointsTo(m, field, target) == IF field \in DOMAIN m.to THEN m.to[field] ELSE target

(* The directory that stands at a position of the memory.                  *)
DirAt(m, p) ==
    IF p < Len(m.at) /\ IsDir(m.at[p + 1]) /\ p + DirLen(f.dirs[m.at[p + 1]]) <= Len(m.at)
    THEN m.at[p + 1] ELSE -1

(* A thumbnail of a directory that is a SubIFD as well as a page may not   *)
(* be read: the writer then takes it for an image block.                   *)
AlsoSubIFD(at) ==
    LET subs == {t \in DOMAIN f.dirs : \E a \in DOMAIN f.dirs : \E e \in Range(f.dirs[a].es) :
                                          e.k = "sub" /\ t \in Range(e.tos)}
    IN at \in subs \/ \E t \in subs : f.dirs[t].next = at

Content(m, at, i) ==
    LET e == f.dirs[at].es[i]
        p == PointsTo(m, Field(at, i), e.at)
    IN CASE e.k = "value" \/ (e.k = "jif" /\ ~AlsoSubIFD(at)) -> Bytes(m, p, e.len)
         [] e.k = "maker" -> <<Bytes(m, p, e.len), IF Bytes(m, p, e.len) = <<>> THEN 0 ELSE p>>
         [] OTHER -> <<>>

(* The directories in the order they are parsed, with what their entries   *)
(* hold.  The arrays of SubIFDs are not parsed.                            *)
Parse(m) ==
    LET Step(s) ==
            LET at == DirAt(m, Head(s.todo)[1])
                d == Head(s.todo)[2]
                es == f.dirs[at].es
                ptrs == SelectSeq([i \in DOMAIN es |-> i], LAMBDA i : es[i].k = "ptr")
            IN IF Head(s.todo)[1] = 0 \/ at = -1 \/ at \in s.seen
               THEN [s EXCEPT !.todo = Tail(@)]
               ELSE [todo |-> (IF d >= MaxDepth THEN <<>>
                               ELSE [j \in DOMAIN ptrs |->
                                       <<PointsTo(m, Field(at, ptrs[j]), es[ptrs[j]].tos[1]), d + 1>>])
                              \o <<<<PointsTo(m, NextField(at, f.dirs[at]), f.dirs[at].next), d>>>>
                              \o Tail(s.todo),
                     seen |-> s.seen \union {at},
                     read |-> Append(s.read, <<at, [i \in DOMAIN es |-> Content(m, at, i)]>>)]
        last == 3 * Cardinality(DOMAIN f.dirs) + 1
        upTo[k \in 0..last] ==
            IF k = 0 THEN [todo |-> <<<<PointsTo(m, IFD0Field, f.ifd0), 0>>>>, seen |-> {}, read |-> <<>>]
            ELSE CHOOSE r \in {IF s.todo = <<>> THEN s ELSE Step(s) : s \in {upTo[k - 1]}} : TRUE
    IN upTo[last].read

(* The directories in the same order with the same values, and a MakerNote *)
(* where its own offsets expect it.                                        *)
SameParse ==
    mode \in {"prefix", "sparse"} =>
        \E m \in {IF mode = "sparse" THEN Compacted ELSE Prefix(buf)}, w \in {Whole} :
            Parse(m) = Parse(w)

(* The directories that the writer walks to (enumerateSubIFDs reads them   *)
(* from the prefix) and the arrays and values in them are in the prefix.   *)
Reached ==
    LET Step(S) == S \union UNION {{t \in DOMAIN f.dirs : \E e \in Range(f.dirs[a].es) :
                                                            e.k \in {"ptr", "sub"} /\ t \in Range(e.tos)}
                                   \union ({f.dirs[a].next} \intersect DOMAIN f.dirs) : a \in S}
        upTo[k \in 0..Cardinality(DOMAIN f.dirs)] ==
            IF k = 0 THEN {f.ifd0} \intersect DOMAIN f.dirs ELSE Step(upTo[k - 1])
    IN upTo[Cardinality(DOMAIN f.dirs)]

SubIFDsRead ==
    mode = "prefix" =>
        \A a \in Reached : \A i \in DOMAIN f.dirs[a].es :
            LET e == f.dirs[a].es[i]
            IN /\ a + DirLen(f.dirs[a]) <= buf
               /\ Ranged(e) /\ e.k # "jif" /\ InFile(e) => e.at + e.len <= buf

(* However the structures lie, what was read is parsed as the whole file   *)
(* would be, from the prefix and from the compacted stream, and the writer *)
(* finds all that it walks to in the prefix.                               *)
AsWholeFile == SameParse /\ SubIFDsRead

(* Read comes to an end, for a cycle of pointers too.                      *)
Ends == <>(mode \in {"prefix", "sparse"})
=============================================================================
