---------------------------- MODULE TIFFRelocate ----------------------------
(***************************************************************************)
(* How a TIFF is written (tiff/relocate.go, relocate_stream.go,            *)
(* relocate_blocks.go): the image blocks of the IFDs and SubIFDs are       *)
(* enumerated, a place in the output is planned for each before a byte is  *)
(* written, the offsets are set, and then the IFDs, the SubIFDs, the       *)
(* blocks and the tail of the source are written one after the other.      *)
(*                                                                         *)
(* A source is its IFDs and the SubIFDs at their places: each has groups   *)
(* of blocks (strips, tiles, a JPEG), a list of SubIFDs and a next SubIFD. *)
(* The output is a sequence of cells: a cell of the source is its offset,  *)
(* and what the write makes anew is a number below zero: an IFD, a pad, or *)
(* the copy of a SubIFD.                                                   *)
(***************************************************************************)
EXTENDS Integers, Sequences, FiniteSets, SequencesExt

CONSTANTS Sources,   \* the files that may be written
          Budget,    \* maxAggregateImageBlocks
          BlocksMax, \* maxImageBlocksPerOffsetEntry
          ArrayMax,  \* maxSubIFDsPerEntry
          ChainMax,  \* maxSubIFDChain
          Cost,      \* subIFDBudgetCost
          MaxDepth,  \* maxSubIFDDepth
          MaxOffset, \* what an offset of a classic TIFF can say
          ShortMax   \* what an element of type SHORT can say

(* A source: the groups of a directory are pairs of an offset and a length, *)
(* which need not be in the file, and a SubIFD has a list and a next one    *)
(* wherever these lead.  exif.Parse follows the first ChainMax IFDs.        *)
IsDir(d) == /\ d.kids \in Seq(Nat) /\ d.groups \in Seq(Range(d.groups))
            /\ \A j \in DOMAIN d.groups : d.groups[j].at \in Seq(Nat \X Nat)
IsSource(f) ==
    /\ f.size \in Nat /\ f.head \in Nat \ {0} /\ f.meta \in Nat /\ f.trailer \in Nat
    /\ f.main \in Seq(Range(f.main)) /\ Len(f.main) <= ChainMax /\ \A i \in DOMAIN f.main : IsDir(f.main[i])
    /\ DOMAIN f.subs \subseteq Nat
    /\ \A p \in DOMAIN f.subs : IsDir(f.subs[p]) /\ f.subs[p].next \in Nat /\ f.subs[p].len \in Nat

ASSUME RelocateAssumption ==
    /\ Budget \in Nat /\ BlocksMax \in Nat /\ ArrayMax \in Nat /\ ChainMax \in Nat
    /\ Cost \in Nat \ {0} /\ MaxDepth \in Nat
    /\ MaxOffset \in Nat /\ ShortMax \in Nat
    /\ \A f \in Sources : IsSource(f)

VARIABLES src,    \* the file
          phase,  \* "main", "subs", "layout", "write", "tail", "done", "failed"
          k,      \* IFDs of the chain done in this phase
          stack,  \* the SubIFD arrays and chains being walked, innermost last
          left,   \* imageBlockBudget
          all,    \* the SubIFDs carried, in the order they were met
          kids,   \* SubIFDs of each IFD of the chain: places in all, 0 for none
          blocks, \* the image blocks, in the order they were enumerated
          to,     \* the offset planned for each block
          subTo,  \* the offset planned for each SubIFD
          out     \* what was written

vars == <<src, phase, k, stack, left, all, kids, blocks, to, subTo, out>>
walkVars == <<stack, left, all, kids, blocks>>
planVars == <<to, subTo, out>>

Readable(p) == p \in DOMAIN src.subs
InFile(b) == b[1] + b[2] <= src.size
Ends(S) == CHOOSE x \in S : \A y \in S : y <= x
Total(s) ==
    LET upTo[i \in 0..Len(s)] == IF i = 0 THEN 0 ELSE upTo[i - 1] + s[i]
    IN upTo[Len(s)]

Start(f) ==
    /\ src = f
    /\ phase = "main"
    /\ k = 0
    /\ stack = <<>>
    /\ left = Budget
    /\ all = <<>>
    /\ kids = [i \in DOMAIN f.main |-> <<>>]
    /\ blocks = <<>>
    /\ to = <<>>
    /\ subTo = <<>>
    /\ out = <<>>

Init == \E f \in Sources : Start(f)

-----------------------------------------------------------------------------
(* Enumeration.                                                            *)

(* enumerateIFDBlocks: strips and tiles whose two arrays differ in length  *)
(* are left alone, and so is a JPEG that is empty or not in the file.      *)
TakenJPEG(g) == InFile(g.at[1]) /\ g.at[1][2] > 0
TakenArrays(g) == g.paired
Taken(g) == IF g.tag = "jpeg" THEN TakenJPEG(g) ELSE TakenArrays(g)
BlocksOf(dir, owner) ==
    FlattenSeq([j \in DOMAIN dir.groups |->
        IF ~Taken(dir.groups[j]) THEN <<>>
        ELSE [i \in DOMAIN dir.groups[j].at |->
                [owner |-> owner, tag |-> dir.groups[j].tag, i |-> i, wide |-> dir.groups[j].wide,
                 off |-> dir.groups[j].at[i][1], len |-> dir.groups[j].at[i][2]]]])
Charged(dir) == Total([j \in DOMAIN dir.groups |->
                         IF dir.groups[j].tag # "jpeg" /\ dir.groups[j].paired
                         THEN Len(dir.groups[j].at) ELSE 0])
(* An entry names so many blocks at most, and those with bytes are in the  *)
(* file: where an empty one is to be is not looked at here.                *)
Capped(dir) == \A j \in DOMAIN dir.groups :
                   dir.groups[j].tag # "jpeg" /\ dir.groups[j].paired => Len(dir.groups[j].at) <= BlocksMax
InBounds(bs) == \A i \in DOMAIN bs : bs[i].len > 0 => InFile(<<bs[i].off, bs[i].len>>)

Fail ==
    /\ phase' = "failed"
    /\ UNCHANGED <<src, k, walkVars, planVars>>

(* enumerateImageBlocks: the next IFD of the chain.                        *)
EnumerateMain ==
    /\ phase = "main" /\ k < Len(src.main)
    /\ \E d \in {src.main[k + 1]} : \E bs \in {BlocksOf(d, <<"main", k + 1>>)} :
         \/ /\ ~Capped(d) \/ Charged(d) > left \/ ~InBounds(bs)
            /\ Fail
         \/ /\ Capped(d) /\ Charged(d) <= left /\ InBounds(bs)
            /\ left' = left - Charged(d)
            /\ blocks' = blocks \o bs
            /\ k' = k + 1
            /\ UNCHANGED <<src, phase, stack, all, kids, planVars>>

MainDone ==
    /\ phase = "main" /\ k = Len(src.main)
    /\ phase' = "subs"
    /\ k' = 0
    /\ UNCHANGED <<src, walkVars, planVars>>

(* subIFDWalker: what is on the stack is an array whose elements are still *)
(* to be walked, or a chain that is followed from its last SubIFD.         *)
Array(owner, offs, depth) == [is |-> "array", of |-> owner, rest |-> offs, kids |-> <<>>, depth |-> depth]
Follow(i, depth) == [is |-> "chain", head |-> i, prev |-> i, depth |-> depth]
Top == stack[Len(stack)]
Below == SubSeq(stack, 1, Len(stack) - 1)

LookupNone(p) == 0 \* Faulty: a SubIFD that two pointers lead to is carried twice.
Lookup(p) == IF \E i \in DOMAIN all : all[i].at = p
             THEN CHOOSE i \in DOMAIN all : all[i].at = p ELSE 0

(* array: an empty one is not walked, one of more than ArrayMax elements   *)
(* is refused, and each element is charged.                                *)
ArrayTaken(offs, budget) == Len(offs) <= ArrayMax /\ Len(offs) <= budget
PushArray(below, owner, offs, depth, budget) ==
    IF offs = <<>> THEN stack' = below /\ left' = budget
    ELSE /\ ArrayTaken(offs, budget)
         /\ left' = budget - Len(offs)
         /\ stack' = Append(below, Array(owner, offs, depth))

(* visit: recorded before its children, which may lead back to it.         *)
CanVisit(p, depth) == p # 0 /\ depth <= MaxDepth
VisitCost(d) == Cost + Charged(d) + Len(d.kids)
Visitable(p) == LET d == src.subs[p]
                IN /\ Capped(d) /\ InBounds(BlocksOf(d, <<"sub", 0>>))
                   /\ Len(d.kids) <= ArrayMax /\ VisitCost(d) <= left
Visit(p, depth, below) ==
    \E d \in {src.subs[p]} : \E i \in {Len(all) + 1} :
        /\ all' = Append(all, [at |-> p, kids |-> <<>>, next |-> 0, depth |-> depth, links |-> 0])
        /\ blocks' = blocks \o BlocksOf(d, <<"sub", i>>)
        /\ PushArray(Append(below, Follow(i, depth)), <<"sub", i>>, d.kids, depth + 1,
                     left - Cost - Charged(d))

WithKid(frame, i) == [frame EXCEPT !.rest = Tail(@), !.kids = Append(@, i)]

Root ==
    /\ phase = "subs" /\ stack = <<>> /\ k < Len(src.main)
    /\ \/ /\ ArrayTaken(src.main[k + 1].kids, left)
          /\ PushArray(<<>>, <<"main", k + 1>>, src.main[k + 1].kids, 0, left)
          /\ k' = k + 1
          /\ UNCHANGED <<src, phase, all, kids, blocks, planVars>>
       \/ ~ArrayTaken(src.main[k + 1].kids, left) /\ Fail

(* chain: one element of an array, whatever it leads to.                   *)
Element ==
    /\ phase = "subs" /\ stack # <<>> /\ Top.is = "array" /\ Top.rest # <<>>
    /\ \E p \in {Head(Top.rest)} :
         \/ /\ Lookup(p) # 0
            /\ stack' = Append(Below, WithKid(Top, Lookup(p)))
            /\ UNCHANGED <<phase, left, all, blocks>>
         \/ /\ Lookup(p) = 0
            /\ ~CanVisit(p, Top.depth) \/ (~Readable(p) /\ left >= Cost)
            /\ stack' = Append(Below, WithKid(Top, 0))
            /\ left' = IF CanVisit(p, Top.depth) THEN left - Cost ELSE left
            /\ UNCHANGED <<phase, all, blocks>>
         \/ /\ Lookup(p) = 0 /\ CanVisit(p, Top.depth) /\ Readable(p) /\ Visitable(p)
            /\ Visit(p, Top.depth, Append(Below, WithKid(Top, Len(all) + 1)))
            /\ UNCHANGED phase
         \/ /\ Lookup(p) = 0 /\ CanVisit(p, Top.depth)
            /\ IF Readable(p) THEN ~Visitable(p) ELSE left < Cost
            /\ phase' = "failed" /\ UNCHANGED <<stack, left, all, blocks>>
    /\ UNCHANGED <<src, k, kids, planVars>>

ArrayDone ==
    /\ phase = "subs" /\ stack # <<>> /\ Top.is = "array" /\ Top.rest = <<>>
    /\ IF Top.of[1] = "main"
       THEN kids' = [kids EXCEPT ![Top.of[2]] = Top.kids] /\ UNCHANGED all
       ELSE all' = [all EXCEPT ![Top.of[2]].kids = Top.kids] /\ UNCHANGED kids
    /\ stack' = Below
    /\ UNCHANGED <<src, phase, k, left, blocks, planVars>>

(* A chain ends, without an error, after ChainMax links.                   *)
ChainCut ==
    /\ phase = "subs" /\ stack # <<>> /\ Top.is = "chain" /\ all[Top.prev].links = ChainMax
    /\ stack' = Below
    /\ UNCHANGED <<src, phase, k, left, all, kids, blocks, planVars>>

(* The next SubIFD of a chain: linked when it is already carried.          *)
FollowNext ==
    /\ phase = "subs" /\ stack # <<>> /\ Top.is = "chain" /\ all[Top.prev].links # ChainMax
    /\ \E n \in {src.subs[all[Top.prev].at].next} :
         \/ /\ n = 0
            /\ stack' = Below
            /\ UNCHANGED <<phase, left, all, blocks>>
         \/ /\ n # 0 /\ Lookup(n) # 0
            /\ all' = [all EXCEPT ![Top.prev].next = Lookup(n)]
            /\ stack' = Below
            /\ UNCHANGED <<phase, left, blocks>>
         \/ /\ n # 0 /\ Lookup(n) = 0 /\ ~Readable(n) /\ left >= Cost
            /\ stack' = Below
            /\ left' = left - Cost
            /\ UNCHANGED <<phase, all, blocks>>
         \/ /\ n # 0 /\ Lookup(n) = 0 /\ Readable(n) /\ Visitable(n)
            /\ \E d \in {src.subs[n]} : \E i \in {Len(all) + 1} :
                 /\ all' = Append([all EXCEPT ![Top.prev].next = i],
                                  [at |-> n, kids |-> <<>>, next |-> 0, depth |-> Top.depth,
                                   links |-> all[Top.prev].links + 1])
                 /\ blocks' = blocks \o BlocksOf(d, <<"sub", i>>)
                 /\ PushArray(Append(Below, [Top EXCEPT !.prev = i]), <<"sub", i>>, d.kids,
                              Top.depth + 1, left - Cost - Charged(d))
            /\ UNCHANGED phase
         \/ /\ n # 0 /\ Lookup(n) = 0
            /\ IF Readable(n) THEN ~Visitable(n) ELSE left < Cost
            /\ phase' = "failed" /\ UNCHANGED <<stack, left, all, blocks>>
    /\ UNCHANGED <<src, k, kids, planVars>>

WalkDone ==
    /\ phase = "subs" /\ stack = <<>> /\ k = Len(src.main)
    /\ phase' = "layout"
    /\ UNCHANGED <<src, k, walkVars, planVars>>

-----------------------------------------------------------------------------
(* Layout.                                                                 *)

EvenNever(n) == n \* Faulty: the pad before a SubIFD is not counted.
Even(n) == n + (n % 2)

(* assignSubIFDOffsets: where each SubIFD starts, after the IFDs.  Its own *)
(* ceiling is not met: Plan has refused what is larger by then.            *)
SubLen(i) == src.subs[all[i].at].len
SubPlaces ==
    LET place[i \in 0..Len(all)] ==
            IF i = 0 THEN 0
            ELSE Even(IF i = 1 THEN src.head ELSE place[i - 1] + SubLen(i - 1))
    IN [i \in 1..Len(all) |-> place[i]]
HeaderLen(places) ==
    IF all = <<>> THEN src.head ELSE places[Len(all)] + SubLen(Len(all))

Filled == {i \in DOMAIN blocks : blocks[i].len > 0}
EndOf(b) == b.off + b.len

(* disjointAscending: each block starts after the one before it.           *)
Disjoint == \A i \in Filled, j \in Filled : i < j => EndOf(blocks[i]) <= blocks[j].off

(* planBlocks: two cells belong together when one block holds both.        *)
Joined(x) == \E i \in Filled : blocks[i].off < x /\ x < EndOf(blocks[i])
RangeOf(b) ==
    LET cells == 0 .. src.size
        lo == CHOOSE x \in cells : /\ x <= b.off /\ (\A y \in x + 1 .. b.off : Joined(y))
                                   /\ ~Joined(x)
        hi == CHOOSE x \in cells : /\ x >= EndOf(b) /\ (\A y \in b.off + 1 .. x - 1 : Joined(y))
                                   /\ ~Joined(x)
    IN <<lo, hi>>

(* What is copied: the blocks, or the ranges that they form, each once and *)
(* in the order of its first block.                                        *)
PieceOf(b) == IF Disjoint THEN <<b.off, EndOf(b)>> ELSE RangeOf(b)
Pieces ==
    LET With(ps, r) == IF \E i \in DOMAIN ps : ps[i] = r THEN ps ELSE Append(ps, r)
        upTo[i \in 0..Len(blocks)] ==
            IF i = 0 THEN <<>>
            ELSE IF blocks[i].len = 0 THEN upTo[i - 1]
            ELSE With(upTo[i - 1], PieceOf(blocks[i]))
    IN upTo[Len(blocks)]

(* assignNewOffsets: a block without bytes stands at the place it has in   *)
(* the order.  What would end beyond MaxOffset is placed at MaxOffset, and *)
(* what follows as if it were not there.                                   *)
Over(at, piece) == at + piece[2] - piece[1] > MaxOffset
PieceEnds(start, pieces) ==
    LET end[i \in 0..Len(pieces)] ==
            IF i = 0 THEN start
            ELSE IF Over(end[i - 1], pieces[i]) THEN end[i - 1]
            ELSE end[i - 1] + pieces[i][2] - pieces[i][1]
    IN end
BlockPlaces(start, pieces) ==
    LET end == PieceEnds(start, pieces)
        Holding(b) == CHOOSE i \in DOMAIN pieces : pieces[i][1] <= b.off /\ EndOf(b) <= pieces[i][2]
        placed(n) == {Holding(blocks[j]) : j \in {x \in Filled : x < n}}
    IN [n \in DOMAIN blocks |->
          IF n \notin Filled THEN end[Ends(placed(n) \union {0})]
          ELSE IF Over(end[Holding(blocks[n]) - 1], pieces[Holding(blocks[n])]) THEN MaxOffset
          ELSE end[Holding(blocks[n]) - 1] + blocks[n].off - pieces[Holding(blocks[n])][1]]

Plan ==
    /\ phase = "layout"
    /\ \E places \in {SubPlaces}, pieces \in {Pieces} : \E start \in {HeaderLen(places)} :
         IF start > MaxOffset THEN Fail
         ELSE /\ subTo' = places
              /\ to' = BlockPlaces(start, pieces)
              /\ phase' = "write"
              /\ UNCHANGED <<src, k, walkVars, out>>

-----------------------------------------------------------------------------
(* Writing: the IFDs, each SubIFD at an even place, then the pieces.       *)

Made(what, n) == [i \in 1..n |-> what]
Cells(r) == [i \in 1 .. r[2] - r[1] |-> r[1] + i - 1]

Header ==
    LET With(o, i) == o \o Made(-2, Len(o) % 2) \o Made(-3 - all[i].at, SubLen(i))
        upTo[i \in 0..Len(all)] == IF i = 0 THEN Made(-1, src.head) ELSE With(upTo[i - 1], i)
    IN upTo[Len(all)]

(* checkBlocks looks at every block again, those without bytes too, before *)
(* the first byte is written.                                              *)
Contained == \A i \in DOMAIN blocks : InFile(<<blocks[i].off, blocks[i].len>>)

WriteHeader ==
    /\ phase = "write" /\ out = <<>>
    /\ IF \/ Len(Header) # HeaderLen(subTo)  \* errRelocateLayout
          \/ ~Contained                       \* ErrBlockOutOfBounds
       THEN Fail
       ELSE /\ out' = Header
              /\ k' = 0
              /\ UNCHANGED <<src, phase, walkVars, to, subTo>>

(* writeBlocks works the pieces out again, from the blocks.                *)
WritePiece ==
    /\ phase = "write" /\ out # <<>>
    /\ \E pieces \in {Pieces} :
         IF k < Len(pieces)
         THEN /\ out' = out \o Cells(pieces[k + 1])
              /\ k' = k + 1
              /\ UNCHANGED phase
         ELSE phase' = "tail" /\ UNCHANGED <<k, out>>
    /\ UNCHANGED <<src, walkVars, to, subTo>>

(* planTail: what follows the blocks and the metadata, from the trailer on *)
(* when one was found before it and no block reaches into it.              *)
BlocksEnd == Ends({EndOf(blocks[i]) : i \in DOMAIN blocks} \union {0})
TailStart ==
    LET s == Ends({BlocksEnd, src.meta})
    IN IF src.trailer # 0 /\ src.trailer >= BlocksEnd /\ src.trailer < s THEN src.trailer ELSE s

WriteTail ==
    /\ phase = "tail"
    /\ out' = IF TailStart >= src.size THEN out ELSE out \o Cells(<<TailStart, src.size>>)
    /\ phase' = "done"
    /\ UNCHANGED <<src, k, walkVars, to, subTo>>

Next == EnumerateMain \/ MainDone \/ Root \/ Element \/ ArrayDone \/ ChainCut \/ FollowNext \/ WalkDone
        \/ Plan \/ WriteHeader \/ WritePiece \/ WriteTail

(* One goroutine runs the write to its end.                                *)
Spec == Init /\ [][Next]_vars /\ WF_vars(Next)

-----------------------------------------------------------------------------
(* What the elements of the output say.  An element of type SHORT keeps    *)
(* its width: putWidth cuts the offset, putElem leaves what it cannot say. *)
SaysMain(n) == IF blocks[n].wide THEN to[n] ELSE to[n] % (ShortMax + 1)
SaysSub(n) == IF blocks[n].wide \/ to[n] <= ShortMax THEN to[n] ELSE blocks[n].off
Says(n) == IF blocks[n].owner[1] = "main" THEN SaysMain(n) ELSE SaysSub(n)
Pointer(i) == subTo[i]

CellsAt(p, n) == IF p + n <= Len(out) THEN SubSeq(out, p + 1, p + n) ELSE <<-99>>

(* The strip, tile or JPEG that an element stands for is where it says.    *)
BlockLeads(n) == CellsAt(Says(n), blocks[n].len) = Cells(<<blocks[n].off, EndOf(blocks[n])>>)

(* No block has the offset that says that there is none for it, and no     *)
(* element of type SHORT is to say more than it can.                       *)
Placed == \A n \in DOMAIN blocks : to[n] # MaxOffset
Sayable(n) == blocks[n].wide \/ to[n] <= ShortMax

BlocksLead == Placed => \A n \in DOMAIN blocks : Sayable(n) => BlockLeads(n)

(* A pointer to a SubIFD leads to its only copy, and is nothing only when  *)
(* there was none to read, it was too deep, or its chain too long.         *)
LeadsTo(i, p) == /\ all[i].at = p
                 /\ Pointer(i) % 2 = 0
                 /\ CellsAt(Pointer(i), src.subs[p].len) = Made(-3 - p, src.subs[p].len)
KidLeads(i, p, depth) == IF i = 0 THEN ~CanVisit(p, depth) \/ ~Readable(p) ELSE LeadsTo(i, p)

SubIFDsLead ==
    /\ \A m \in DOMAIN src.main :
         /\ Len(kids[m]) = Len(src.main[m].kids)
         /\ \A j \in DOMAIN kids[m] : KidLeads(kids[m][j], src.main[m].kids[j], 0)
    /\ \A i \in DOMAIN all :
         /\ Len(all[i].kids) = Len(src.subs[all[i].at].kids)
         /\ \A j \in DOMAIN all[i].kids :
              KidLeads(all[i].kids[j], src.subs[all[i].at].kids[j], all[i].depth + 1)
         /\ \/ KidLeads(all[i].next, src.subs[all[i].at].next, all[i].depth)
            \/ all[i].next = 0 /\ all[i].links = ChainMax

(* The offsets planned before writing are those of what was written: every *)
(* element of the output leads to the bytes of the source it stood for.    *)
(* A write that is refused has written nothing, and once it was planned it *)
(* is refused only for a block that is not in the file.                    *)
Leads == /\ phase = "done" => BlocksLead /\ SubIFDsLead
         /\ phase = "failed" => out = <<>> /\ (to # <<>> \/ subTo # <<>> => ~Contained)

(* What relocate.go:1221 takes for granted ("caller guarantees v fits      *)
(* SHORT"): every element of a finished write leads to its block, one of   *)
(* type SHORT too.                                                         *)
AllLead == phase = "done" => \A n \in DOMAIN blocks : BlockLeads(n)

(* However blocks, metadata and trailers overlap, no byte of the source is *)
(* copied twice, no block is left out, and all that follows the blocks and *)
(* the metadata is at the end of the output.                               *)
CopiedOnce ==
    phase = "done" =>
        /\ \A x \in 0 .. src.size - 1 : Cardinality({i \in DOMAIN out : out[i] = x}) <= 1
        /\ \E rest \in {Cells(<<Ends({BlocksEnd, src.meta}), src.size>>)} :
             Ends({BlocksEnd, src.meta}) < src.size =>
                 SubSeq(out, Len(out) - Len(rest) + 1, Len(out)) = rest

(* The output is the image of the source: all of it once, and each pointer *)
(* to its part (relocate.go, relocate_stream.go).                          *)
Relocated == Leads /\ CopiedOnce

(* What a file costs when each SubIFD is charged once, and each pointer to *)
(* nothing once.                                                           *)
Nothing(offs) == Cost * Len(SelectSeq(offs, LAMBDA p : p # 0 /\ ~Readable(p)))
SumOver(S, F(_)) == FoldSet(LAMBDA x, a : a + F(x), 0, S)
Affordable ==
    LET MainCost(i) == Charged(src.main[i]) + Len(src.main[i].kids) + Nothing(src.main[i].kids)
        SubCost(p) == VisitCost(src.subs[p]) + Nothing(src.subs[p].kids) + Nothing(<<src.subs[p].next>>)
        Room(p) == src.subs[p].len + 1
        Ordinary(d) == /\ Capped(d) /\ Len(d.kids) <= ArrayMax
                       /\ \A i \in DOMAIN BlocksOf(d, <<>>) :
                            InFile(<<BlocksOf(d, <<>>)[i].off, BlocksOf(d, <<>>)[i].len>>)
    IN /\ SumOver(DOMAIN src.main, MainCost) + SumOver(DOMAIN src.subs, SubCost) <= Budget
       /\ \A i \in DOMAIN src.main : Ordinary(src.main[i])
       /\ \A p \in DOMAIN src.subs : Ordinary(src.subs[p])
       /\ src.head + SumOver(DOMAIN src.subs, Room) <= MaxOffset

(* A write ends, for SubIFDs that lead to each other too, and a file is    *)
(* refused only for what it holds, not for the ways that lead to it.       *)
Written == /\ <>(phase \in {"done", "failed"})
           /\ Affordable => <>(phase = "done")
=============================================================================
