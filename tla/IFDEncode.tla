----------------------------- MODULE IFDEncode -----------------------------
(***************************************************************************)
(* The life of an EXIF value (exif.go, write.go, chain.go): Parse reads a  *)
(* stream, a caller edits the value, Encode lays its IFDs out again with   *)
(* pointers computed before anything is written, and Parse reads what was  *)
(* written.                                                                *)
(*                                                                         *)
(* The output is the directories and the thumbnail data at the offsets     *)
(* where the bytes that came before them end.                              *)
(***************************************************************************)
EXTENDS IFDWalk

CONSTANTS Edits,      \* what callers may do: "none", "caption", "nogps", "exif"
          PointerMax  \* the largest value of the 4-byte pointer fields

ASSUME EditsAssumption == Edits \subseteq {"none", "caption", "nogps", "exif"}

VARIABLES phase,  \* "parse", "encode", "reparse", "done" or "failed"
          value,  \* the EXIF value to be encoded, or NoTree
          plan,   \* the offsets computed before writing, and EncodedSize
          out     \* the output so far

vars == <<b, todo, walk, bud, arena, tree, spent, warned, phase, value, plan, out>>

NoPlan == [exif |-> 0, gps |-> 0, interop |-> 0, chain |-> 0, size |-> 0]
NoOut == [len |-> 0, ifds |-> <<>>, data |-> {}, todo |-> <<>>]

Init == /\ \E f \in Sources : Start(f)
        /\ phase = "parse" /\ value = NoTree /\ plan = NoPlan /\ out = NoOut

-----------------------------------------------------------------------------
(* Sizes.                                                                  *)

Even(n) == 2 * ((n + 1) \div 2)
Threshold == IF b.big THEN 8 ELSE 4
Fixed(n) == IF b.big THEN 16 + 20 * n ELSE 6 + 12 * n
Header == IF b.big THEN 16 ELSE 8

(* Where the values that do not fit their entry end, each on a word.       *)
ValuesEnd(start, vals) ==
    LET end[k \in 0..Len(vals)] ==
          IF k = 0 THEN start
          ELSE IF vals[k] > Threshold THEN Even(end[k - 1]) + vals[k] ELSE end[k - 1]
    IN end[Len(vals)]

(* ifdTotalSize counts from an offset it does not know.                    *)
TotalSize(x) == Even(ValuesEnd(Fixed(x.n), x.vals))
(* ifdWrittenLen, and what writeIFD appends at start.                      *)
WrittenLen(x, start) == Even(ValuesEnd(start + Fixed(x.n), x.vals)) - start

(* The entries of an IFD as they are written: how many, the sizes of their *)
(* values, and the pointers among them.                                    *)
StripEntries(x) == IF x.strips = None THEN 0 ELSE 2
StripVals(x) == IF x.strips = None THEN <<>> ELSE <<4 * Len(x.strips)>>
Block(x, ptr) ==
    [n |-> x.inline + Len(x.vals) + StripEntries(x) + (IF x.jif = None THEN 0 ELSE 2)
             + Cardinality({t \in Pointers : ptr[t] # None}),
     vals |-> StripVals(x) \o x.vals, ptr |-> ptr, of |-> x.of, jif |-> x.jif,
     inline |-> x.inline, plain |-> x.vals, strips |-> x.strips]

(* Pointers that have no value yet.                                        *)
Own == -1
Shared == -2
OwnOf(v, t) == IF v[t] = None THEN None ELSE Own
IFD0Block(v) == Block(v.chain[1], [exif |-> OwnOf(v, "exif"), gps |-> OwnOf(v, "gps"), interop |-> None])
ExifBlock(v) == Block(v.exif, [v.exif.ptr EXCEPT !["interop"] = OwnOf(v, "interop")])
VerbatimBlock(x) == Block(x, x.ptr)

-----------------------------------------------------------------------------
(* The IFDs after IFD0.                                                    *)

(* A pointer leads to an IFD of its own, to that of IFD0 when it led to    *)
(* the same place, or is dropped.                                          *)
Target(v, i, t) ==
    LET p == v.chain[i].ptr[t]
    IN CASE v.sub[i][t] # None -> Own
         [] v.sub[i][t] = None /\ v[t] # None /\ p \notin {None, 0} /\ p = v.chain[1].ptr[t] -> Shared
         [] OTHER -> None

ChainBlock(v, i) ==
    Block(v.chain[i], [exif |-> Target(v, i, "exif"), gps |-> Target(v, i, "gps"), interop |-> None])
SubExifBlock(v, i) ==
    LET x == v.sub[i].exif
    IN Block(x, [x.ptr EXCEPT !["interop"] = IF v.sub[i].interop = None THEN None ELSE Own])

(* The thumbnail data and the strips that follow an IFD, strips on words.  *)
ThumbLen(x) == IF x.thumb = None THEN 0 ELSE x.thumb.len
ThumbEnd(x, start) ==
    LET end[k \in 0..Len(x.carried)] ==
          IF k = 0 THEN start + ThumbLen(x) ELSE Even(end[k - 1]) + x.carried[k].len
    IN IF x.carried = None THEN start + ThumbLen(x) ELSE end[Len(x.carried)]

PlanChain(v, i, pos) ==
    LET x == v.chain[i]
        thumb == pos + WrittenLen(ChainBlock(v, i), pos)
        end == ThumbEnd(x, thumb)
        more == i < Len(v.chain) \/ v.sub[i].exif # None \/ v.sub[i].gps # None
        exif == IF more THEN Even(end) ELSE end
        gps == exif + (IF v.sub[i].exif = None THEN 0 ELSE WrittenLen(SubExifBlock(v, i), exif))
        interop == gps + (IF v.sub[i].gps = None THEN 0 ELSE WrittenLen(VerbatimBlock(v.sub[i].gps), gps))
    IN [thumb |-> thumb, exif |-> exif, gps |-> gps, interop |-> interop,
        end |-> interop + (IF v.sub[i].interop = None THEN 0
                           ELSE WrittenLen(VerbatimBlock(v.sub[i].interop), interop))]

HasPointers(v, i) ==
    \/ v.sub[i] # NoSub \/ v.chain[i].carried # None
    \/ \E t \in Pointers : v.chain[i].ptr[t] # None
ThumbSpan(v, i) ==
    IF i < Len(v.chain) THEN Even(ThumbLen(v.chain[i])) ELSE ThumbLen(v.chain[i])
ChainLen(v, i, pos) ==
    IF HasPointers(v, i) THEN PlanChain(v, i, pos)
    ELSE LET end == pos + WrittenLen(VerbatimBlock(v.chain[i]), pos)
         IN [thumb |-> end, exif |-> end, gps |-> end, interop |-> end, end |-> end + ThumbSpan(v, i)]

-----------------------------------------------------------------------------
(* computeIFDOffsets and EncodedSize.                                      *)

After(x, start) == IF x = None THEN start ELSE start + TotalSize(x)
ComputeOffsets(v) ==
    LET exif == Header + TotalSize(IFD0Block(v))
        gps == IF v.exif = None THEN exif ELSE exif + TotalSize(ExifBlock(v))
        interop == IF v.gps = None THEN gps ELSE gps + TotalSize(VerbatimBlock(v.gps))
        chain == IF v.interop = None THEN interop ELSE interop + TotalSize(VerbatimBlock(v.interop))
    IN [exif |-> exif, gps |-> gps, interop |-> interop, chain |-> chain]

(* The pointers of a BigTIFF that Encode writes are 4 bytes wide.          *)
TooFar(v, o) == b.big /\ \/ v.exif # None /\ o.exif > PointerMax
                         \/ v.gps # None /\ o.gps > PointerMax
                         \/ v.interop # None /\ o.interop > PointerMax
(* encodedLen and checkBigTIFFThumbnails advance with the writing: size is *)
(* the length announced up to here, or None once it is refused.            *)
SizeSub(x) == IF plan.size = None THEN None ELSE plan.size + WrittenLen(x, plan.size)
SizeChain(v, i) ==
    IF plan.size = None THEN None
    ELSE LET l == ChainLen(v, i, plan.size)
             far == \/ v.chain[i].thumb # None /\ l.thumb > PointerMax
                    \/ l.end > PointerMax /\ (v.sub[i] # NoSub \/ v.chain[i].carried # None)
         IN IF b.big /\ far THEN None ELSE l.end

-----------------------------------------------------------------------------
(* A block in the output: a directory whose pointers are the offsets that  *)
(* were planned.                                                           *)
At(x, ptr, next, jif, strips) ==
    [of |-> x.of, count |-> x.n, fits |-> TRUE, inline |-> x.inline, vals |-> x.plain,
     next |-> next, ptr |-> ptr, jif |-> jif, strips |-> strips]
Put(o, x, dir) == [o EXCEPT !.ifds = @ \o <<<<o.len, dir>>>>, !.len = @ + WrittenLen(x, o.len)]

PadNever(o, from) == o \* Faulty: the IFD that follows starts where the thumbnail ends.
Pad(o, from) == IF o.len % 2 = 1 /\ from > o.len THEN [o EXCEPT !.len = @ + 1] ELSE o

PatchTo(ptr, own, shared) ==
    [t \in Pointers |-> CASE ptr[t] = Own -> own[t] [] ptr[t] = Shared -> shared[t] [] OTHER -> ptr[t]]

Edited(e) ==
    CASE e = "none" -> tree
      [] e = "caption" -> [tree EXCEPT !.chain[1].vals = Append(@, 11)]
      [] e = "nogps" -> [tree EXCEPT !.gps = None]
      [] e = "exif" -> IF tree.exif # None THEN tree
                       ELSE [tree EXCEPT !.exif = [Parsed(Junk, FALSE, [slot |-> None, room |-> {}])
                                                     EXCEPT !.of = "new", !.inline = 0]]

Task(v, t) == IF v[t] = None THEN <<>> ELSE <<<<t>>>>

(* serialise up to the header and IFD0.                                    *)
Encode(e) ==
    /\ phase = "parse" /\ Done /\ tree.chain # <<>>
    /\ \E v \in {Edited(e)} : \E o \in {ComputeOffsets(v)}, x \in {IFD0Block(v)} :
       LET ptr == PatchTo(x.ptr, o, o)
           next == IF Len(v.chain) > 1 THEN o.chain ELSE 0
       IN /\ value' = v
          /\ plan' = [exif |-> o.exif, gps |-> o.gps, interop |-> o.interop, chain |-> o.chain,
                      size |-> IF TooFar(v, o) THEN None ELSE Header + WrittenLen(x, Header)]
          /\ IF TooFar(v, o) THEN phase' = "failed" /\ out' = NoOut
             ELSE /\ phase' = "encode"
                  /\ out' = [Put([NoOut EXCEPT !.len = Header], x, At(x, ptr, next, x.jif, x.strips))
                               EXCEPT !.todo = Task(v, "exif") \o Task(v, "gps") \o Task(v, "interop")
                                               \o [i \in 1..Len(v.chain) - 1 |-> <<"chain", i + 1>>]]
    /\ UNCHANGED walkVars

(* writeSubIFDs for the IFDs of IFD0.                                      *)
EncodeSub ==
    /\ phase = "encode" /\ out.todo # <<>> /\ Head(out.todo)[1] # "chain"
    /\ \E t \in {Head(out.todo)[1]} :
       \E x \in {IF t = "exif" THEN ExifBlock(value) ELSE VerbatimBlock(value[t])} :
          /\ out' = [Put(out, x, At(x, PatchTo(x.ptr, plan, plan), 0, x.jif, x.strips))
                    EXCEPT !.todo = Tail(@)]
          /\ plan' = [plan EXCEPT !.size = SizeSub(x)]
    /\ UNCHANGED <<walkVars, phase, value>>

(* writeChainIFD.                                                          *)
ChainDir(v, i, x, l) ==
    LET ifd == v.chain[i]
        at[k \in DOMAIN ifd.carried] ==
          Even(IF k = 1 THEN l.thumb + ThumbLen(ifd) ELSE at[k - 1] + ifd.carried[k - 1].len)
        strip == [k \in DOMAIN ifd.carried |-> [ifd.carried[k] EXCEPT !.at = at[k]]]
    IN At(x, PatchTo(x.ptr, l, plan), IF i < Len(v.chain) THEN l.end ELSE 0,
          IF ifd.thumb = None THEN ifd.jif ELSE [at |-> l.thumb, len |-> ifd.thumb.len, of |-> ifd.thumb.of],
          IF ifd.carried = None THEN ifd.strips ELSE strip)

AppendThumb(o, x, l) ==
    IF x.thumb = None /\ x.carried = None THEN o
    ELSE LET jpeg == IF x.thumb = None THEN o
                     ELSE [o EXCEPT !.data = @ \union {[at |-> o.len, len |-> x.thumb.len, of |-> x.thumb.of]},
                                    !.len = @ + x.thumb.len]
             strip(q, s) == [q EXCEPT !.data = @ \union {[s EXCEPT !.at = Even(q.len)]},
                                      !.len = Even(@) + s.len]
             with[k \in 0..Len(x.carried)] ==
               IF k = 0 THEN jpeg ELSE strip(with[k - 1], x.carried[k])
         IN Pad(IF x.carried = None THEN jpeg ELSE with[Len(x.carried)], l.exif)

PutSub(o, x, own) == Put(o, x, At(x, PatchTo(x.ptr, own, own), 0, x.jif, x.strips))

PatchTooFar(v, i, l) ==
    /\ b.big
    /\ \/ v.chain[i].thumb # None /\ (l.thumb > PointerMax \/ v.chain[i].thumb.len > PointerMax)
       \/ v.chain[i].carried # None /\ ThumbEnd(v.chain[i], l.thumb) > PointerMax
       \/ Target(v, i, "exif") = Own /\ l.exif > PointerMax
       \/ Target(v, i, "gps") = Own /\ l.gps > PointerMax
       \/ v.sub[i].interop # None /\ l.interop > PointerMax

PutIf(o, x, block, own) == IF x = None THEN o ELSE PutSub(o, block, own)

EncodeChain ==
    /\ phase = "encode" /\ out.todo # <<>> /\ Head(out.todo)[1] = "chain"
    /\ \E i \in {Head(out.todo)[2]} : \E x \in {ChainBlock(value, i)},
         l \in {PlanChain(value, i, out.len)}, sub \in {value.sub[i]} :
       /\ IF PatchTooFar(value, i, l) THEN phase' = "failed" /\ UNCHANGED out
          ELSE /\ \E o1 \in {AppendThumb(Put(out, x, ChainDir(value, i, x, l)), value.chain[i], l)} :
                  \E o2 \in {PutIf(o1, sub.exif, SubExifBlock(value, i), l)} :
                  \E o3 \in {PutIf(o2, sub.gps, VerbatimBlock(sub.gps), l)} :
                     out' = [PutIf(o3, sub.interop, VerbatimBlock(sub.interop), l) EXCEPT !.todo = Tail(@)]
               /\ UNCHANGED phase
       /\ plan' = [plan EXCEPT !.size = SizeChain(value, i)]
    /\ UNCHANGED <<walkVars, value>>

(* The reader of the output finds a directory where one was written; what  *)
(* its thumbnail entries address is a thumbnail only if one is there.      *)
Seen(r) == IF r = None \/ r \in out.data THEN r ELSE [r EXCEPT !.of = "junk"]
Written(f) ==
    [big |-> f.big, first |-> Header, len |-> out.len,
     dir |-> [p \in {out.ifds[i][1] : i \in DOMAIN out.ifds} |->
                LET d == out.ifds[CHOOSE i \in DOMAIN out.ifds : out.ifds[i][1] = p][2]
                IN [d EXCEPT !.jif = Seen(@),
                             !.strips = IF @ = None THEN None ELSE [k \in DOMAIN @ |-> Seen(@[k])]]]]

Reparse == /\ phase = "encode" /\ out.todo = <<>>
           /\ phase' = "reparse"
           /\ LET f == Written(b)
              IN /\ b' = f /\ todo' = <<<<"ifd0">>>> /\ walk' = None /\ bud' = NewBudget(f.len)
                 /\ arena' = NoArena /\ tree' = NoTree /\ spent' = [entries |-> 0, ifds |-> 0]
                 /\ warned' = {}
           /\ UNCHANGED <<value, plan, out>>

Stop == phase = "reparse" /\ Done /\ phase' = "done" /\ UNCHANGED <<walkVars, value, plan, out>>

Read == phase \in {"parse", "reparse"} /\ Parse /\ UNCHANGED <<phase, value, plan, out>>

Next == Read \/ (\E e \in Edits : Encode(e)) \/ EncodeSub \/ EncodeChain \/ Reparse \/ Stop

(* Parse and Encode run to their end once they are called.                 *)
Spec == Init /\ [][Next]_vars /\ WF_vars(Read) /\ WF_vars(EncodeSub \/ EncodeChain \/ Reparse \/ Stop)

-----------------------------------------------------------------------------
(* What an EXIF value says: its IFDs, the thumbnails it carries, and which *)
(* pointers of later IFDs lead to IFDs of their own or to those of IFD0.   *)
Of(x) == IF x = None THEN None ELSE x.of
Held(v, i, t) == CASE Target(v, i, t) = Own -> v.sub[i][t].of
                   [] Target(v, i, t) = Shared -> "shared"
                   [] OTHER -> None
Content(v) ==
    [ifds |-> [i \in DOMAIN v.chain |-> v.chain[i].of],
     thumbs |-> [i \in 2..Len(v.chain) |->
                   <<Of(v.chain[i].thumb),
                     IF v.chain[i].carried = None THEN None
                     ELSE [k \in DOMAIN v.chain[i].carried |-> v.chain[i].carried[k].of]>>],
     subs |-> [i \in 2..Len(v.chain) |-> [t \in Pointers |->
                 IF t = "interop" THEN Of(v.sub[i].interop) ELSE Held(v, i, t)]],
     exif |-> Of(v.exif), gps |-> Of(v.gps), interop |-> Of(v.interop)]

(* Type invariant.                                                         *)
TypeOK == /\ phase \in {"parse", "encode", "reparse", "done", "failed"}
          /\ bud.thumb \in Nat /\ bud.ifds \in 0..MaxIFDs
          /\ out.len \in Nat /\ warned \subseteq {"budget", "unreadable", "outside", "thumbnail", "strips"}

(* Parse always comes to an end, whatever cycles the pointers form, and so *)
(* does the encoding of what it read with the parse of that (exif.Parse,   *)
(* traverse, Encode).                                                      *)
Terminates == /\ phase = "parse" ~> Done
              /\ phase = "encode" ~> phase \in {"done", "failed"}

(* However the IFDs of a stream overlap and share, the work of all the     *)
(* traversals of one Parse is bounded: the budget, and one IFD beyond it.  *)
(* What is carried of thumbnails is no more than the stream (ifd.go,       *)
(* "IFD chain traversal budget").                                          *)
CarriedThumbs(chain) ==
    LET upTo[i \in 0..Len(chain)] == IF i <= 1 THEN 0 ELSE upTo[i - 1] + ThumbLen(chain[i])
    IN upTo[Len(chain)]
WorkBounded ==
    /\ TypeOK
    /\ spent.ifds <= MaxIFDs
    /\ \E d \in {b.dir[p] : p \in DOMAIN b.dir} \union {Junk} :
         spent.entries < NewBudget(b.len).entries + d.count
    /\ CarriedThumbs(tree.chain) <= b.len

(* The IFD structs and entries of a Parse share two arrays: no two IFDs    *)
(* that are in the result, or still in the traversal, share a slot or an   *)
(* entry (ifd.go, parseArena).                                             *)
Apart(x, y) == x.slots \intersect y.slots = {} /\ x.room \intersect y.room = {}
ArenaShared ==
    LET now == IF walk = None THEN <<>> ELSE walk.chain
        kept == {t \in Pointers : tree[t] # None}
    IN /\ \A i, j \in DOMAIN now : i < j => Apart(now[i], now[j])
       /\ \A t, u \in kept : t # u => Apart(tree[t], tree[u])
       /\ \A t \in kept, i \in DOMAIN now : Apart(tree[t], now[i])

(* Every byte lands where the pointers computed before it say: Encode      *)
(* writes as much as EncodedSize announced, and what is read from the      *)
(* output is what was encoded - every IFD, whether it is shared, every     *)
(* thumbnail -, with no pointer left that leads elsewhere, unless the      *)
(* budget of the parse is used up (write.go, chain.go, planChain).         *)
SizeTold == phase \in {"reparse", "done"} => plan.size \in {out.len} \union (IF b.big THEN {None} ELSE {})
ReadBack == phase = "done" /\ ~Exhausted(bud) => Content(tree) = Content(value)
RoundTrip == SizeTold /\ ReadBack
=============================================================================
