-------------------------- MODULE TIFFRelocateProofs --------------------------
(***************************************************************************)
(* The write of a TIFF for every source: any IFDs and SubIFDs leading to   *)
(* each other in any way, and any blocks, which may overlap or hold one    *)
(* another.  What was planned is where it was said to be.                  *)
(***************************************************************************)
EXTENDS TIFFRelocate, Lists

(* The image blocks, of which those with bytes lie in the file.            *)
IsBlock(b) == b.off \in Nat /\ b.len \in Nat /\ (b.len > 0 => b.off + b.len <= src.size)
BlocksOK == IsList(blocks) /\ \A n \in 1..Len(blocks) : IsBlock(blocks[n])

-----------------------------------------------------------------------------
(* The walk of the SubIFDs of f: carried are those in al.                  *)

IsCarried(f, x) == /\ x = [at |-> x.at, kids |-> x.kids, next |-> x.next, depth |-> x.depth, links |-> x.links]
                   /\ x.at \in DOMAIN f.subs
AllOK(f, al) == IsList(al) /\ \A i \in 1..Len(al) : IsCarried(f, al[i])

(* i is what is to become of an offset p: the place in al of what it leads *)
(* to, or 0 when there is nothing to carry.                                *)
KidOK(f, al, i, p, depth) ==
    IF i = 0 THEN ~CanVisit(p, depth) \/ p \notin DOMAIN f.subs
    ELSE i \in 1..Len(al) /\ al[i].at = p
KidsOK(f, al, ks, offs, depth) ==
    /\ IsList(ks) /\ Len(ks) = Len(offs)
    /\ \A j \in 1..Len(ks) : KidOK(f, al, ks[j], offs[j], depth)

(* The arrays of SubIFDs: those of the first n IFDs of the chain, and of   *)
(* what is carried.                                                        *)
IsOwner(al, n, o) == \/ \E m \in 1..n : o = <<"main", m>>
                     \/ \E i \in 1..Len(al) : o = <<"sub", i>>
Offs(f, al, o) == IF o[1] = "main" THEN f.main[o[2]].kids ELSE f.subs[al[o[2]].at].kids
DepthOf(al, o) == IF o[1] = "main" THEN 0 ELSE al[o[2]].depth + 1

(* A frame of the stack: an array of which the first elements are done, or *)
(* a chain.                                                                *)
ArrayOK(f, al, n, s) ==
    /\ s.is = "array"
    /\ s = [is |-> "array", of |-> s.of, rest |-> s.rest, kids |-> s.kids, depth |-> s.depth]
    /\ IsOwner(al, n, s.of) /\ s.depth = DepthOf(al, s.of)
    /\ IsList(s.rest) /\ IsList(s.kids)
    /\ Len(s.kids) + Len(s.rest) = Len(Offs(f, al, s.of))
    /\ \A j \in 1..Len(s.kids) : KidOK(f, al, s.kids[j], Offs(f, al, s.of)[j], s.depth)
    /\ \A j \in 1..Len(s.rest) : s.rest[j] = Offs(f, al, s.of)[Len(s.kids) + j]
ChainOK(al, s) ==
    /\ s.is = "chain"
    /\ s = [is |-> "chain", head |-> s.head, prev |-> s.prev, depth |-> s.depth]
    /\ s.prev \in 1..Len(al) /\ s.depth = al[s.prev].depth
FrameOK(f, al, n, s) == ArrayOK(f, al, n, s) \/ ChainOK(al, s)
FramesOK(f, al, n, st) == IsList(st) /\ \A s \in 1..Len(st) : FrameOK(f, al, n, st[s])

(* Whose arrays, and the ends of which chains, are on the stack.           *)
ArrayOf(s) == IF s.is = "array" THEN {s.of} ELSE {}
ChainOf(s) == IF s.is = "chain" THEN {s.prev} ELSE {}
Arrays(st) == UNION {ArrayOf(st[s]) : s \in 1..Len(st)}
Chains(st) == UNION {ChainOf(st[s]) : s \in 1..Len(st)}

(* What is not on the stack is done.                                       *)
NextIs(f, al, i) ==
    al[i].next # 0 => al[i].next \in 1..Len(al) /\ al[al[i].next].at = f.subs[al[i].at].next
NextOK(f, al, i) == \/ KidOK(f, al, al[i].next, f.subs[al[i].at].next, al[i].depth)
                    \/ al[i].next = 0 /\ al[i].links = ChainMax
DoneOK(f, al, ks, n, arrays, chains) ==
    /\ \A m \in 1..n : <<"main", m>> \in arrays \/ KidsOK(f, al, ks[m], f.main[m].kids, 0)
    /\ \A m \in n + 1..Len(f.main) : ks[m] = <<>>
    /\ \A i \in 1..Len(al) :
         /\ <<"sub", i>> \in arrays \/ KidsOK(f, al, al[i].kids, f.subs[al[i].at].kids, al[i].depth + 1)
         /\ NextIs(f, al, i)
         /\ i \in chains \/ NextOK(f, al, i)

WalkOK == /\ k \in 0..Len(src.main)
          /\ kids = [m \in 1..Len(src.main) |-> kids[m]]
          /\ FramesOK(src, all, k, stack)
          /\ DoneOK(src, all, kids, k, Arrays(stack), Chains(stack))
CarriedOK == /\ kids = [m \in 1..Len(src.main) |-> kids[m]]
             /\ DoneOK(src, all, kids, Len(src.main), {}, {})

-----------------------------------------------------------------------------
(* The layout and the output.                                              *)

(* The pieces are apart, are in the file, and hold each block.             *)
Lo(j) == Pieces[j][1]
Hi(j) == Pieces[j][2]
Lengths(start, pieces) ==
    LET end[i \in 0..Len(pieces)] ==
            IF i = 0 THEN start ELSE end[i - 1] + pieces[i][2] - pieces[i][1]
    IN end
Place(j) == Lengths(HeaderLen(SubPlaces), Pieces)[j - 1]
OutLen(n) == Lengths(HeaderLen(SubPlaces), Pieces)[n]

(* The IFDs and SubIFDs are what was made anew.                            *)
HeadOK(o) ==
    /\ \A y \in 1..OutLen(0) : o[y] < 0
    /\ \A i \in 1..Len(all) :
         /\ SubPlaces[i] % 2 = 0 /\ SubPlaces[i] \in Nat /\ SubPlaces[i] + SubLen(i) <= OutLen(0)
         /\ \A y \in 1..SubLen(i) : o[SubPlaces[i] + y] = -3 - all[i].at

(* n pieces are written: each cell where it was planned, and nothing else. *)
OutOK(o, n) ==
    /\ IsList(o) /\ Len(o) = OutLen(n) /\ HeadOK(o)
    /\ \A j \in 1..n : \A x \in Lo(j)..Hi(j) - 1 : /\ Place(j) + x - Lo(j) + 1 \in 1..Len(o)
                                                   /\ o[Place(j) + x - Lo(j) + 1] = x
    /\ \A y \in OutLen(0) + 1..Len(o) :
         \E j \in 1..n : o[y] \in Lo(j)..Hi(j) - 1 /\ y = Place(j) + o[y] - Lo(j) + 1

PlanOK == subTo = SubPlaces /\ to = BlockPlaces(HeaderLen(SubPlaces), Pieces)

-----------------------------------------------------------------------------
(* The stack.                                                              *)

LEMMA ArraysAppend ==
    ASSUME NEW st, IsList(st), NEW x
    PROVE  /\ Arrays(Append(st, x)) = Arrays(st) \union ArrayOf(x)
           /\ Chains(Append(st, x)) = Chains(st) \union ChainOf(x)
<1>t. PICK t, n : t = Append(st, x) /\ n = Len(st)
  OBVIOUS
<1>1. /\ n \in Nat /\ Len(t) = n + 1 /\ t[n + 1] = x /\ \A i \in 1..n : t[i] = st[i]
  BY <1>t, AppendList, ListDomain
<1>2. 1..n + 1 = (1..n) \union {n + 1}
  BY <1>1
<1>3. (UNION {ArrayOf(t[s]) : s \in 1..n + 1}) = (UNION {ArrayOf(st[s]) : s \in 1..n}) \union ArrayOf(x)
  <2>1. \A s \in 1..n : ArrayOf(t[s]) = ArrayOf(st[s])
    BY <1>1
  <2>2. ArrayOf(t[n + 1]) = ArrayOf(x)
    BY <1>1
  <2> QED
    BY <2>1, <2>2, <1>2
<1>4. (UNION {ChainOf(t[s]) : s \in 1..n + 1}) = (UNION {ChainOf(st[s]) : s \in 1..n}) \union ChainOf(x)
  <2>1. \A s \in 1..n : ChainOf(t[s]) = ChainOf(st[s])
    BY <1>1
  <2>2. ChainOf(t[n + 1]) = ChainOf(x)
    BY <1>1
  <2> QED
    BY <2>1, <2>2, <1>2
<1> QED
  BY <1>1, <1>3, <1>4, <1>t DEF Arrays, Chains

LEMMA FramesAppend ==
    ASSUME NEW f, NEW al, NEW n, NEW st, FramesOK(f, al, n, st), NEW x, FrameOK(f, al, n, x)
    PROVE  FramesOK(f, al, n, Append(st, x))
<1>1. /\ IsList(st) /\ Len(st) \in Nat /\ IsList(Append(st, x)) /\ Len(Append(st, x)) = Len(st) + 1
      /\ \A i \in 1..Len(st) : Append(st, x)[i] = st[i]
      /\ Append(st, x)[Len(st) + 1] = x
  BY AppendList, ListDomain DEF FramesOK
<1>2. \A s \in 1..Len(st) + 1 : s \in 1..Len(st) \/ s = Len(st) + 1
  BY <1>1
<1>3. \A s \in 1..Len(st) : FrameOK(f, al, n, st[s])
  BY DEF FramesOK
<1>4. ASSUME NEW s \in 1..Len(Append(st, x)) PROVE FrameOK(f, al, n, Append(st, x)[s])
  <2>1. CASE s \in 1..Len(st)
    BY <2>1, <1>1, <1>3
  <2>2. CASE s = Len(st) + 1
    BY <2>2, <1>1
  <2> QED
    BY <1>1, <1>2, <2>1, <2>2
<1> QED
  BY <1>1, <1>4 DEF FramesOK

LEMMA StackIs ==
    ASSUME NEW f, NEW al, NEW n, FramesOK(f, al, n, stack), stack # <<>>
    PROVE  /\ FramesOK(f, al, n, Below) /\ FrameOK(f, al, n, Top)
           /\ Arrays(stack) = Arrays(Below) \union ArrayOf(Top)
           /\ Chains(stack) = Chains(Below) \union ChainOf(Top)
<1>n. PICK m : m = Len(stack)
  OBVIOUS
<1>1. IsList(stack) /\ m \in Nat /\ m # 0
  BY <1>n, EmptyList, ListDomain DEF FramesOK
<1>b. PICK b : b = Below
  OBVIOUS
<1>2. IsList(b) /\ Len(b) = m - 1 /\ \A i \in 1..m - 1 : b[i] = stack[i]
  <2>1. /\ IsList(SubSeq(stack, 1, m - 1)) /\ Len(SubSeq(stack, 1, m - 1)) = IF 1 <= m - 1 THEN (m - 1) - 1 + 1 ELSE 0
        /\ \A i \in 1..(m - 1) - 1 + 1 : SubSeq(stack, 1, m - 1)[i] = stack[1 + i - 1]
    BY <1>1, <1>n, SubList
  <2> QED
    BY <1>1, <1>b, <1>n, <2>1 DEF Below
<1>3. FramesOK(f, al, n, b) /\ FrameOK(f, al, n, Top)
  <2>1. \A s \in 1..m : FrameOK(f, al, n, stack[s])
    BY <1>n DEF FramesOK
  <2>2. \A s \in 1..m - 1 : s \in 1..m
    BY <1>1
  <2>3. Top = stack[m] /\ m \in 1..m
    BY <1>1, <1>n DEF Top
  <2>4. \A s \in 1..m - 1 : FrameOK(f, al, n, b[s])
    BY <1>2, <2>1, <2>2
  <2> QED
    BY <1>2, <2>1, <2>3, <2>4 DEF FramesOK
<1>4. stack = Append(b, Top)
  <2>1. /\ IsList(Append(b, Top)) /\ Len(Append(b, Top)) = m
        /\ \A i \in 1..m - 1 : Append(b, Top)[i] = b[i]
        /\ Append(b, Top)[m] = stack[m]
    BY <1>1, <1>2, <1>n, AppendList DEF Top
  <2>2. \A i \in 1..m : Append(b, Top)[i] = stack[i]
    BY <1>1, <1>2, <2>1
  <2> QED
    BY <1>1, <1>n, <2>1, <2>2, ListEqual
<1> QED
  BY <1>2, <1>3, <1>4, <1>b, ArraysAppend

LEMMA NoFrames == ASSUME NEW f, NEW al, NEW n
                  PROVE FramesOK(f, al, n, <<>>) /\ Arrays(<<>>) = {} /\ Chains(<<>>) = {}
<1>1. IsList(<<>>) /\ Len(<<>>) = 0 /\ 1..0 = {}
  BY EmptyList
<1> QED
  BY <1>1 DEF FramesOK, Arrays, Chains

(* More is carried, and nothing else changes of what was.                  *)
Grows(f, al, n, al2, n2) ==
    /\ AllOK(f, al) /\ AllOK(f, al2) /\ Len(al) <= Len(al2) /\ n \in Nat /\ n2 \in Nat /\ n <= n2
    /\ \A i \in 1..Len(al) : al2[i].at = al[i].at /\ al2[i].depth = al[i].depth /\ al2[i].links = al[i].links

LEMMA GrowIndex ==
    ASSUME NEW f, NEW al, NEW n, NEW al2, NEW n2, Grows(f, al, n, al2, n2)
    PROVE  Len(al) \in Nat /\ Len(al2) \in Nat /\ \A i \in 1..Len(al) : i \in 1..Len(al2)
BY ListDomain DEF Grows, AllOK

LEMMA GrowKid ==
    ASSUME NEW f, NEW al, NEW n, NEW al2, NEW n2, Grows(f, al, n, al2, n2),
           NEW i, NEW p, NEW depth, KidOK(f, al, i, p, depth)
    PROVE  KidOK(f, al2, i, p, depth)
BY GrowIndex DEF Grows, KidOK

LEMMA GrowKids ==
    ASSUME NEW f, NEW al, NEW n, NEW al2, NEW n2, Grows(f, al, n, al2, n2),
           NEW ks, NEW offs, NEW depth, KidsOK(f, al, ks, offs, depth)
    PROVE  KidsOK(f, al2, ks, offs, depth)
BY GrowKid DEF KidsOK

LEMMA GrowFrame ==
    ASSUME NEW f, NEW al, NEW n, NEW al2, NEW n2, Grows(f, al, n, al2, n2),
           NEW x, FrameOK(f, al, n, x)
    PROVE  FrameOK(f, al2, n2, x)
<1>1. CASE ArrayOK(f, al, n, x)
  <2>1. IsOwner(al2, n2, x.of) /\ Offs(f, al2, x.of) = Offs(f, al, x.of) /\ DepthOf(al2, x.of) = DepthOf(al, x.of)
    <3>1. CASE \E m \in 1..n : x.of = <<"main", m>>
      <4>1. \A m \in 1..n : m \in 1..n2
        BY DEF Grows
      <4> QED
        BY <3>1, <4>1 DEF IsOwner, Offs, DepthOf
    <3>2. CASE \E i \in 1..Len(al) : x.of = <<"sub", i>>
      BY <3>2, GrowIndex DEF IsOwner, Offs, DepthOf, Grows
    <3> QED
      BY <1>1, <3>1, <3>2 DEF ArrayOK, IsOwner
  <2>2. \A j \in 1..Len(x.kids) : KidOK(f, al2, x.kids[j], Offs(f, al2, x.of)[j], x.depth)
    BY <1>1, <2>1, GrowKid DEF ArrayOK
  <2> QED
    BY <1>1, <2>1, <2>2 DEF ArrayOK, FrameOK
<1>2. CASE ChainOK(al, x)
  BY <1>2, GrowIndex DEF ChainOK, FrameOK, Grows
<1> QED
  BY <1>1, <1>2 DEF FrameOK

LEMMA GrowFrames ==
    ASSUME NEW f, NEW al, NEW n, NEW al2, NEW n2, Grows(f, al, n, al2, n2),
           NEW st, FramesOK(f, al, n, st)
    PROVE  FramesOK(f, al2, n2, st)
BY GrowFrame DEF FramesOK

(* A carried SubIFD is found.                                              *)
LEMMA LookupIs ==
    ASSUME AllOK(src, all), NEW p
    PROVE  Lookup(p) # 0 => Lookup(p) \in 1..Len(all) /\ all[Lookup(p)].at = p
<1>1. DOMAIN all = 1..Len(all) /\ Len(all) \in Nat
  BY ListDomain DEF AllOK
<1> QED
  BY <1>1 DEF Lookup

-----------------------------------------------------------------------------
(* The walk.                                                               *)

(* What is done stays done, and what leaves the stack is done.             *)
LEMMA DoneOn ==
    ASSUME NEW f, NEW al, NEW ks, NEW n, NEW al2, NEW ks2, NEW ar, NEW ch, NEW ar2, NEW ch2,
           Grows(f, al, n, al2, n), DoneOK(f, al, ks, n, ar, ch),
           \A m \in 1..n : \/ ks2[m] = ks[m] /\ (<<"main", m>> \in ar => <<"main", m>> \in ar2)
                           \/ KidsOK(f, al2, ks2[m], f.main[m].kids, 0),
           \A m \in n + 1..Len(f.main) : ks2[m] = ks[m],
           \A i \in 1..Len(al2) :
             \/ i \in 1..Len(al) /\ al2[i].kids = al[i].kids /\ (<<"sub", i>> \in ar => <<"sub", i>> \in ar2)
             \/ <<"sub", i>> \in ar2
             \/ KidsOK(f, al2, al2[i].kids, f.subs[al2[i].at].kids, al2[i].depth + 1),
           \A i \in 1..Len(al2) :
             \/ i \in 1..Len(al) /\ al2[i].next = al[i].next /\ (i \in ch => i \in ch2)
             \/ /\ NextIs(f, al2, i)
                /\ i \in ch2 \/ NextOK(f, al2, i)
    PROVE  DoneOK(f, al2, ks2, n, ar2, ch2)
<1>1. ASSUME NEW m \in 1..n PROVE <<"main", m>> \in ar2 \/ KidsOK(f, al2, ks2[m], f.main[m].kids, 0)
  <2>1. <<"main", m>> \in ar \/ KidsOK(f, al, ks[m], f.main[m].kids, 0)
    BY DEF DoneOK
  <2> QED
    BY <2>1, GrowKids
<1>2. \A m \in n + 1..Len(f.main) : ks2[m] = <<>>
  BY DEF DoneOK
<1>3. ASSUME NEW i \in 1..Len(al2)
      PROVE  \/ <<"sub", i>> \in ar2
             \/ KidsOK(f, al2, al2[i].kids, f.subs[al2[i].at].kids, al2[i].depth + 1)
  <2>1. CASE i \in 1..Len(al) /\ al2[i].kids = al[i].kids /\ (<<"sub", i>> \in ar => <<"sub", i>> \in ar2)
    <3>1. <<"sub", i>> \in ar \/ KidsOK(f, al, al[i].kids, f.subs[al[i].at].kids, al[i].depth + 1)
      BY <2>1 DEF DoneOK
    <3>2. al2[i].at = al[i].at /\ al2[i].depth = al[i].depth
      BY <2>1 DEF Grows
    <3> QED
      BY <2>1, <3>1, <3>2, GrowKids
  <2> QED
    BY <2>1
<1>4. ASSUME NEW i \in 1..Len(al2)
      PROVE  /\ NextIs(f, al2, i)
             /\ i \in ch2 \/ NextOK(f, al2, i)
  <2>1. CASE i \in 1..Len(al) /\ al2[i].next = al[i].next /\ (i \in ch => i \in ch2)
    <3>1. /\ NextIs(f, al, i)
          /\ i \in ch \/ NextOK(f, al, i)
      BY <2>1 DEF DoneOK
    <3>2. al2[i].at = al[i].at /\ al2[i].depth = al[i].depth
      BY <2>1 DEF Grows
    <3>3. NextIs(f, al2, i)
      <4>1. \A j \in 1..Len(al) : j \in 1..Len(al2) /\ al2[j].at = al[j].at
        BY GrowIndex DEF Grows
      <4> QED
        BY <2>1, <3>1, <3>2, <4>1 DEF NextIs
    <3>4. NextOK(f, al, i) => NextOK(f, al2, i)
      <4>1. al2[i].links = al[i].links
        BY <2>1 DEF Grows
      <4> QED
        BY <2>1, <3>2, <4>1, GrowKid DEF NextOK
    <3> QED
      BY <2>1, <3>1, <3>3, <3>4
  <2> QED
    BY <2>1
<1> QED
  BY <1>1, <1>2, <1>3, <1>4 DEF DoneOK

LEMMA NoKids ==
    ASSUME NEW f, NEW al, NEW depth PROVE KidsOK(f, al, <<>>, <<>>, depth)
BY EmptyList DEF KidsOK

(* An array is pushed, unless it is empty.                                 *)
LEMMA Pushed ==
    ASSUME NEW f, NEW al, NEW n, NEW below, FramesOK(f, al, n, below), NEW owner, NEW offs, NEW depth, NEW budget,
           IsOwner(al, n, owner), IsList(offs), Offs(f, al, owner) = offs, DepthOf(al, owner) = depth,
           PushArray(below, owner, offs, depth, budget)
    PROVE  /\ FramesOK(f, al, n, stack') /\ Chains(stack') = Chains(below)
           /\ Arrays(stack') = Arrays(below) \union (IF offs = <<>> THEN {} ELSE {owner})
<1>1. CASE offs = <<>>
  BY <1>1 DEF PushArray
<1>2. CASE offs # <<>>
  <2>x. PICK x : x = Array(owner, offs, depth)
    OBVIOUS
  <2>1. /\ x.is = "array" /\ x.of = owner /\ x.rest = offs /\ x.kids = <<>> /\ x.depth = depth
        /\ x = [is |-> "array", of |-> x.of, rest |-> x.rest, kids |-> x.kids, depth |-> x.depth]
    BY <2>x DEF Array
  <2>2. IsList(<<>>) /\ Len(<<>>) = 0 /\ Len(offs) \in Nat
    BY EmptyList, ListDomain
  <2>3. FrameOK(f, al, n, x)
    <3>1. \A j \in 1..Len(x.rest) : x.rest[j] = Offs(f, al, x.of)[Len(x.kids) + j]
      BY <2>1, <2>2
    <3>2. Len(x.kids) + Len(x.rest) = Len(Offs(f, al, x.of)) /\ \A j \in 1..Len(x.kids) : FALSE
      BY <2>1, <2>2
    <3>3. IsOwner(al, n, x.of) /\ x.depth = DepthOf(al, x.of) /\ IsList(x.rest) /\ IsList(x.kids)
      BY <2>1, <2>2
    <3> QED
      BY <2>1, <3>1, <3>2, <3>3 DEF ArrayOK, FrameOK
  <2>4. stack' = Append(below, x)
    BY <1>2, <2>x DEF PushArray
  <2>5. ArrayOf(x) = {owner} /\ ChainOf(x) = {}
    BY <2>1 DEF ArrayOf, ChainOf
  <2>6. IsList(below)
    BY DEF FramesOK
  <2>7. FramesOK(f, al, n, Append(below, x))
    BY <2>3, FramesAppend
  <2>8. Arrays(Append(below, x)) = Arrays(below) \union {owner} /\ Chains(Append(below, x)) = Chains(below)
    BY <2>5, <2>6, ArraysAppend
  <2> QED
    BY <1>2, <2>4, <2>7, <2>8
<1> QED
  BY <1>1, <1>2

(* An array of which one more element is done.                             *)
LEMMA KidDone ==
    ASSUME NEW f, NEW al, NEW n, NEW s, ArrayOK(f, al, n, s), s.rest # <<>>,
           NEW i, KidOK(f, al, i, Head(s.rest), s.depth)
    PROVE  /\ FrameOK(f, al, n, WithKid(s, i))
           /\ ArrayOf(WithKid(s, i)) = ArrayOf(s) /\ ChainOf(WithKid(s, i)) = ChainOf(s)
<1>t. PICK t : t = WithKid(s, i)
  OBVIOUS
<1> DEFINE offs == Offs(f, al, s.of)
<1>1. /\ s.is = "array"
      /\ s = [is |-> "array", of |-> s.of, rest |-> s.rest, kids |-> s.kids, depth |-> s.depth]
      /\ IsOwner(al, n, s.of) /\ s.depth = DepthOf(al, s.of)
      /\ IsList(s.rest) /\ IsList(s.kids)
      /\ Len(s.kids) + Len(s.rest) = Len(offs)
      /\ \A j \in 1..Len(s.kids) : KidOK(f, al, s.kids[j], offs[j], s.depth)
      /\ \A j \in 1..Len(s.rest) : s.rest[j] = offs[Len(s.kids) + j]
  BY DEF ArrayOK
<1>2. /\ t.is = "array" /\ t.of = s.of /\ t.rest = Tail(s.rest) /\ t.kids = Append(s.kids, i) /\ t.depth = s.depth
      /\ t = [is |-> "array", of |-> t.of, rest |-> t.rest, kids |-> t.kids, depth |-> t.depth]
  BY <1>1, <1>t DEF WithKid
<1>3. /\ IsList(t.rest) /\ Len(t.rest) = Len(s.rest) - 1 /\ Len(s.rest) >= 1 /\ Head(s.rest) = s.rest[1]
      /\ \A j \in 1..Len(s.rest) - 1 : t.rest[j] = s.rest[j + 1]
  BY <1>1, <1>2, TailList
<1>4. /\ IsList(t.kids) /\ Len(t.kids) = Len(s.kids) + 1
      /\ \A j \in 1..Len(s.kids) : t.kids[j] = s.kids[j]
      /\ t.kids[Len(s.kids) + 1] = i
  BY <1>1, <1>2, AppendList
<1>5. Len(s.kids) \in Nat /\ Len(s.rest) \in Nat
  BY <1>1, ListDomain
<1> HIDE DEF offs
<1>6. ASSUME NEW j \in 1..Len(t.kids) PROVE KidOK(f, al, t.kids[j], offs[j], t.depth)
  <2>1. CASE j \in 1..Len(s.kids)
    BY <2>1, <1>1, <1>2, <1>4
  <2>2. CASE j = Len(s.kids) + 1
    <3>1. 1 \in 1..Len(s.rest)
      BY <1>3, <1>5
    <3>2. Head(s.rest) = offs[j]
      BY <1>1, <1>3, <2>2, <3>1
    <3> QED
      BY <2>2, <3>2, <1>2, <1>4
  <2> QED
    BY <1>4, <1>5, <2>1, <2>2
<1>7. ASSUME NEW j \in 1..Len(t.rest) PROVE t.rest[j] = offs[Len(t.kids) + j]
  <2>p. PICK a, b, c, d : a = Len(s.kids) /\ b = Len(s.rest) /\ c = Len(t.kids) /\ d = Len(t.rest)
    OBVIOUS
  <2>n. a \in Nat /\ b \in Nat /\ c = a + 1 /\ d = b - 1 /\ j \in 1..d
    BY <2>p, <1>3, <1>4, <1>5
  <2>m. j \in 1..b - 1 /\ j + 1 \in 1..b /\ a + (j + 1) = c + j
    BY <2>n
  <2>1. j + 1 \in 1..Len(s.rest) /\ t.rest[j] = s.rest[j + 1] /\ Len(s.kids) + (j + 1) = Len(t.kids) + j
    BY <1>3, <2>m, <2>p
  <2> QED
    BY <1>1, <2>1
<1>8. Len(t.kids) + Len(t.rest) = Len(offs)
  <2>p. PICK a, b, c, d : a = Len(s.kids) /\ b = Len(s.rest) /\ c = Len(t.kids) /\ d = Len(t.rest)
    OBVIOUS
  <2>1. a \in Nat /\ b \in Nat /\ c = a + 1 /\ d = b - 1 /\ a + b = Len(offs)
    BY <1>1, <2>p, <1>3, <1>4, <1>5
  <2>2. c + d = a + b
    BY <2>1
  <2> QED
    BY <2>1, <2>2, <2>p
<1>9. FrameOK(f, al, n, t)
  BY <1>1, <1>2, <1>3, <1>4, <1>6, <1>7, <1>8 DEF ArrayOK, FrameOK, offs
<1> QED
  BY <1>1, <1>2, <1>9, <1>t DEF ArrayOf, ChainOf

LEMMA GrowSame == ASSUME NEW f, NEW al, AllOK(f, al), NEW n \in Nat, NEW n2 \in Nat, n <= n2
                  PROVE Grows(f, al, n, al, n2)
BY ListDomain DEF Grows, AllOK

-----------------------------------------------------------------------------
(* The blocks of a directory are those of its groups.                      *)

BlockOf(o, g, i) == [owner |-> o, tag |-> g.tag, i |-> i, wide |-> g.wide, off |-> g.at[i][1], len |-> g.at[i][2]]
GroupBlocks(dir, o) == [j \in DOMAIN dir.groups |->
                          IF ~Taken(dir.groups[j]) THEN <<>>
                          ELSE [i \in DOMAIN dir.groups[j].at |-> BlockOf(o, dir.groups[j], i)]]

LEMMA GroupLists ==
    ASSUME NEW d, IsDir(d), NEW o
    PROVE  /\ AreLists(GroupBlocks(d, o)) /\ Len(GroupBlocks(d, o)) = Len(d.groups) /\ Len(d.groups) \in Nat
           /\ BlocksOf(d, o) = FlattenSeq(GroupBlocks(d, o))
           /\ \A j \in 1..Len(d.groups) :
                /\ ~Taken(d.groups[j]) => GroupBlocks(d, o)[j] = <<>>
                /\ Taken(d.groups[j]) =>
                     /\ Len(GroupBlocks(d, o)[j]) = Len(d.groups[j].at)
                     /\ \A i \in 1..Len(d.groups[j].at) :
                          GroupBlocks(d, o)[j][i] = BlockOf(o, d.groups[j], i)
           /\ \A j \in 1..Len(d.groups) : \A i \in 1..Len(d.groups[j].at) :
                d.groups[j].at[i][1] \in Nat /\ d.groups[j].at[i][2] \in Nat
<1>1. IsList(d.groups) /\ \A j \in DOMAIN d.groups : d.groups[j].at \in Seq(Nat \X Nat)
  BY SeqIsList DEF IsDir
<1>2. DOMAIN d.groups = 1..Len(d.groups) /\ Len(d.groups) \in Nat
  BY <1>1, ListDomain
<1>g. PICK g : g = GroupBlocks(d, o)
  OBVIOUS
<1>3. g = [j \in 1..Len(d.groups) |-> IF ~Taken(d.groups[j]) THEN <<>>
                                      ELSE [i \in DOMAIN d.groups[j].at |-> BlockOf(o, d.groups[j], i)]]
  BY <1>2, <1>g DEF GroupBlocks
<1>4. IsList(g) /\ Len(g) = Len(d.groups)
  <2>1. g = [j \in 1..Len(d.groups) |-> g[j]]
    BY <1>3
  <2> QED
    BY <1>2, <2>1, MadeList
<1>5. ASSUME NEW j \in 1..Len(d.groups)
      PROVE  /\ IsList(g[j])
             /\ ~Taken(d.groups[j]) => g[j] = <<>>
             /\ Taken(d.groups[j]) =>
                  /\ Len(g[j]) = Len(d.groups[j].at)
                  /\ \A i \in 1..Len(d.groups[j].at) : g[j][i] = BlockOf(o, d.groups[j], i)
  <2>a. PICK a : a = d.groups[j].at
    OBVIOUS
  <2>1. IsList(a) /\ DOMAIN a = 1..Len(a) /\ Len(a) \in Nat
    <3>1. a \in Seq(Nat \X Nat)
      BY <1>1, <1>2, <2>a
    <3>2. IsList(a)
      BY <3>1, SeqIsList
    <3> QED
      BY <3>2, ListDomain
  <2>2. CASE ~Taken(d.groups[j])
    BY <1>3, <2>2, EmptyList
  <2>3. CASE Taken(d.groups[j])
    <3>1. g[j] = [i \in 1..Len(a) |-> BlockOf(o, d.groups[j], i)]
      BY <1>3, <2>1, <2>3, <2>a
    <3>2. g[j] = [i \in 1..Len(a) |-> g[j][i]] /\ \A i \in 1..Len(a) : g[j][i] = BlockOf(o, d.groups[j], i)
      BY <3>1
    <3>3. IsList(g[j]) /\ Len(g[j]) = Len(a)
      BY <2>1, <3>2, MadeList
    <3> QED
      BY <2>3, <2>a, <3>2, <3>3
  <2> QED
    BY <2>2, <2>3
<1>6. BlocksOf(d, o) = FlattenSeq(g)
  BY <1>g DEF BlocksOf, GroupBlocks, BlockOf
<1>7. AreLists(g)
  BY <1>4, <1>5 DEF AreLists
<1>8. ASSUME NEW j \in 1..Len(d.groups), NEW i \in 1..Len(d.groups[j].at)
      PROVE  d.groups[j].at[i][1] \in Nat /\ d.groups[j].at[i][2] \in Nat
  <2>1. d.groups[j].at \in Seq(Nat \X Nat)
    BY <1>1, <1>2
  <2>2. d.groups[j].at[i] \in Nat \X Nat
    BY <2>1
  <2> QED
    BY <2>2
<1> QED
  BY <1>2, <1>4, <1>5, <1>6, <1>7, <1>8, <1>g

(* Whether they are in the file does not depend on whose they are.         *)
LEMMA BlocksGood ==
    ASSUME NEW d, IsDir(d), NEW o, NEW o2, InBounds(BlocksOf(d, o2))
    PROVE  IsList(BlocksOf(d, o)) /\ \A n \in 1..Len(BlocksOf(d, o)) : IsBlock(BlocksOf(d, o)[n])
<1>g. PICK g, b : g = GroupBlocks(d, o) /\ b = BlocksOf(d, o)
  OBVIOUS
<1>h. PICK h, c : h = GroupBlocks(d, o2) /\ c = BlocksOf(d, o2)
  OBVIOUS
<1>1. AreLists(g) /\ Len(g) = Len(d.groups) /\ b = FlattenSeq(g)
  BY <1>g, GroupLists
<1>2. AreLists(h) /\ Len(h) = Len(d.groups) /\ c = FlattenSeq(h)
  BY <1>h, GroupLists
<1>3. IsList(c) /\ DOMAIN c = 1..Len(c) /\ \A n \in 1..Len(c) : c[n].len > 0 => InFile(<<c[n].off, c[n].len>>)
  <2>1. IsList(c)
    BY <1>2, FlattenFrom
  <2>2. DOMAIN c = 1..Len(c)
    BY <2>1, ListDomain
  <2> QED
    BY <1>h, <2>1, <2>2 DEF InBounds
<1>4. IsList(b)
  BY <1>1, FlattenFrom
<1>5. ASSUME NEW n \in 1..Len(b) PROVE IsBlock(b[n])
  <2>1. PICK j \in 1..Len(d.groups) : \E i \in 1..Len(g[j]) : b[n] = g[j][i]
    <3>1. \A m \in 1..Len(FlattenSeq(g)) :
            \E j \in 1..Len(g) : \E i \in 1..Len(g[j]) : FlattenSeq(g)[m] = g[j][i]
      <4>1. AreLists(g)
        BY <1>1
      <4> QED
        BY <4>1, FlattenFrom
    <3> QED
      BY <1>1, <3>1
  <2>2. PICK i \in 1..Len(g[j]) : b[n] = g[j][i]
    BY <2>1
  <2>3. Taken(d.groups[j])
    <3>1. SUFFICES ASSUME ~Taken(d.groups[j]) PROVE FALSE
      OBVIOUS
    <3>2. g[j] = <<>>
      BY <1>g, <3>1, GroupLists
    <3>3. 1..0 = {} /\ Len(g[j]) = 0
      BY <3>2, EmptyList
    <3> QED
      BY <3>3
  <2>4. i \in 1..Len(d.groups[j].at) /\ b[n] = BlockOf(o, d.groups[j], i)
    BY <1>g, <2>2, <2>3, GroupLists
  <2>5. i \in 1..Len(h[j]) /\ h[j][i] = BlockOf(o2, d.groups[j], i)
    BY <1>h, <2>3, <2>4, GroupLists
  <2>6. PICK m \in 1..Len(c) : c[m] = BlockOf(o2, d.groups[j], i)
    <3>1. j \in 1..Len(h)
      BY <1>2
    <3>2. \E m \in 1..Len(FlattenSeq(h)) : FlattenSeq(h)[m] = h[j][i]
      BY <1>2, <2>5, <3>1, FlattenHas
    <3> QED
      BY <1>2, <2>5, <3>2
  <2>x. PICK x : x = d.groups[j].at[i]
    OBVIOUS
  <2>7. x[1] \in Nat /\ x[2] \in Nat
    BY <2>4, <2>x, GroupLists
  <2>8. c[m].off = x[1] /\ c[m].len = x[2] /\ b[n].off = x[1] /\ b[n].len = x[2]
    BY <2>4, <2>6, <2>x DEF BlockOf
  <2>9. x[2] > 0 => x[1] + x[2] <= src.size
    <3>1. x[2] > 0 => InFile(<<x[1], x[2]>>)
      BY <1>3, <2>8
    <3> QED
      BY <3>1 DEF InFile
  <2> QED
    BY <2>7, <2>8, <2>9 DEF IsBlock
<1> QED
  BY <1>4, <1>5, <1>g

LEMMA BlocksGrow ==
    ASSUME BlocksOK, NEW d, IsDir(d), NEW o, NEW o2, InBounds(BlocksOf(d, o2)),
           blocks' = blocks \o BlocksOf(d, o), src' = src
    PROVE  BlocksOK'
<1>b. PICK b : b = BlocksOf(d, o)
  OBVIOUS
<1>1. IsList(b) /\ \A n \in 1..Len(b) : IsBlock(b[n])
  BY <1>b, BlocksGood
<1>2. /\ IsList(blocks') /\ Len(blocks') = Len(blocks) + Len(b) /\ Len(blocks) \in Nat /\ Len(b) \in Nat
      /\ \A i \in 1..Len(blocks) : blocks'[i] = blocks[i]
      /\ \A i \in 1..Len(b) : blocks'[Len(blocks) + i] = b[i]
  <2>1. IsList(blocks)
    BY DEF BlocksOK
  <2>2. Len(blocks) \in Nat /\ Len(b) \in Nat
    BY <1>1, <2>1, ListDomain
  <2> QED
    BY <1>1, <1>b, <2>1, <2>2, ConcatList
<1>3. ASSUME NEW n \in 1..Len(blocks') PROVE IsBlock(blocks'[n])
  <2>1. CASE n <= Len(blocks)
    <3>1. n \in 1..Len(blocks)
      BY <1>2, <2>1
    <3> QED
      BY <1>2, <3>1 DEF BlocksOK
  <2>2. CASE ~(n <= Len(blocks))
    <3>h. PICK h : h = n - Len(blocks)
      OBVIOUS
    <3>1. h \in 1..Len(b) /\ Len(blocks) + h = n
      BY <1>2, <2>2, <3>h
    <3> QED
      BY <1>1, <1>2, <3>1
  <2> QED
    BY <2>1, <2>2
<1>4. \A b2 : IsBlock(b2) => IsBlock(b2)'
  BY DEF IsBlock
<1>5. \A n \in 1..Len(blocks') : IsBlock(blocks[n])'
  BY <1>3 DEF IsBlock
<1> QED
  BY <1>2, <1>5 DEF BlocksOK

-----------------------------------------------------------------------------
(* What is carried: one more, or one of which more is known.               *)

LEMMA Carries ==
    ASSUME NEW f, NEW al, AllOK(f, al), NEW n \in Nat, NEW x, IsCarried(f, x), NEW al2,
           al2 = Append(al, x), NEW m, m = Len(al) + 1
    PROVE  /\ AllOK(f, al2) /\ Grows(f, al, n, al2, n)
           /\ Len(al) \in Nat /\ Len(al2) = m /\ \A i \in 1..Len(al) : al2[i] = al[i]
           /\ al2[m] = x
<1>1. /\ IsList(al2) /\ Len(al) \in Nat /\ Len(al2) = m /\ \A i \in 1..Len(al) : al2[i] = al[i]
      /\ al2[m] = x
  BY AppendList, ListDomain DEF AllOK
<1>2. ASSUME NEW i \in 1..Len(al2) PROVE IsCarried(f, al2[i])
  <2>1. i \in 1..Len(al) \/ i = m
    BY <1>1
  <2>2. CASE i \in 1..Len(al)
    BY <1>1, <2>2 DEF AllOK
  <2>3. CASE i = m
    BY <1>1, <2>3
  <2> QED
    BY <2>1, <2>2, <2>3
<1>3. AllOK(f, al2)
  BY <1>1, <1>2 DEF AllOK
<1> QED
  BY <1>1, <1>3 DEF Grows

LEMMA Links ==
    ASSUME NEW f, NEW al, AllOK(f, al), NEW n \in Nat, NEW i \in 1..Len(al), NEW v, NEW al2,
           al2 = [al EXCEPT ![i].next = v]
    PROVE  /\ AllOK(f, al2) /\ Grows(f, al, n, al2, n) /\ Len(al2) = Len(al)
           /\ \A j \in 1..Len(al) : al2[j].kids = al[j].kids /\ (j # i => al2[j].next = al[j].next)
           /\ al2[i].next = v
<1>1. IsList(al) /\ Len(al) \in Nat /\ DOMAIN al = 1..Len(al) /\ \A j \in 1..Len(al) : IsCarried(f, al[j])
  BY ListDomain DEF AllOK
<1>2. al2 = [j \in 1..Len(al) |-> IF j = i THEN [al[i] EXCEPT !.next = v] ELSE al[j]]
  BY <1>1
<1>3. IsList(al2) /\ Len(al2) = Len(al)
  <2>1. al2 = [j \in 1..Len(al) |-> al2[j]]
    BY <1>2
  <2>2. Len(al) \in Nat
    BY <1>1
  <2> QED
    BY <2>1, <2>2, MadeList
<1>4. \A j \in 1..Len(al) : j # i => al2[j] = al[j]
  BY <1>2
<1>5. al2[i] = [al[i] EXCEPT !.next = v]
  BY <1>2
<1>6. /\ al2[i].at = al[i].at /\ al2[i].kids = al[i].kids /\ al2[i].next = v /\ al2[i].depth = al[i].depth
      /\ IsCarried(f, al2[i])
  BY <1>1, <1>5 DEF IsCarried
<1>7. \A j \in 1..Len(al2) : IsCarried(f, al2[j])
  BY <1>1, <1>3, <1>4, <1>6
<1> QED
  BY <1>1, <1>3, <1>4, <1>6, <1>7 DEF AllOK, Grows

LEMMA Kidded ==
    ASSUME NEW f, NEW al, AllOK(f, al), NEW n \in Nat, NEW i \in 1..Len(al), NEW v, NEW al2,
           al2 = [al EXCEPT ![i].kids = v]
    PROVE  /\ AllOK(f, al2) /\ Grows(f, al, n, al2, n) /\ Len(al2) = Len(al)
           /\ \A j \in 1..Len(al) : al2[j].next = al[j].next /\ (j # i => al2[j].kids = al[j].kids)
           /\ al2[i].kids = v
<1>1. IsList(al) /\ Len(al) \in Nat /\ DOMAIN al = 1..Len(al) /\ \A j \in 1..Len(al) : IsCarried(f, al[j])
  BY ListDomain DEF AllOK
<1>2. al2 = [j \in 1..Len(al) |-> IF j = i THEN [al[i] EXCEPT !.kids = v] ELSE al[j]]
  BY <1>1
<1>3. IsList(al2) /\ Len(al2) = Len(al)
  <2>1. al2 = [j \in 1..Len(al) |-> al2[j]]
    BY <1>2
  <2>2. Len(al) \in Nat
    BY <1>1
  <2> QED
    BY <2>1, <2>2, MadeList
<1>4. \A j \in 1..Len(al) : j # i => al2[j] = al[j]
  BY <1>2
<1>5. al2[i] = [al[i] EXCEPT !.kids = v]
  BY <1>2
<1>6. /\ al2[i].at = al[i].at /\ al2[i].next = al[i].next /\ al2[i].kids = v /\ al2[i].depth = al[i].depth
      /\ IsCarried(f, al2[i])
  BY <1>1, <1>5 DEF IsCarried
<1>7. \A j \in 1..Len(al2) : IsCarried(f, al2[j])
  BY <1>1, <1>3, <1>4, <1>6
<1> QED
  BY <1>1, <1>3, <1>4, <1>6, <1>7 DEF AllOK, Grows

LEMMA SubDir ==
    ASSUME IsSource(src), NEW p \in DOMAIN src.subs
    PROVE  IsDir(src.subs[p]) /\ IsList(src.subs[p].kids) /\ p \in Nat
BY SeqIsList DEF IsSource, IsDir

LEMMA MainDir ==
    ASSUME IsSource(src)
    PROVE  /\ Len(src.main) \in Nat /\ IsList(src.main)
           /\ \A m \in 1..Len(src.main) : /\ IsDir(src.main[m]) /\ IsList(src.main[m].kids)
BY SeqIsList, ListDomain DEF IsSource, IsDir

(* The i-th of what is carried is at p: its blocks are noted and its array *)
(* is pushed.                                                              *)
LEMMA Visited ==
    ASSUME IsSource(src), BlocksOK, src' = src, NEW n, NEW al2, NEW below, FramesOK(src, al2, n, below),
           NEW p \in DOMAIN src.subs, NEW i \in 1..Len(al2), NEW depth, NEW budget,
           al2[i].at = p, al2[i].depth = depth, al2[i].kids = <<>>, Visitable(p),
           blocks' = blocks \o BlocksOf(src.subs[p], <<"sub", i>>),
           PushArray(below, <<"sub", i>>, src.subs[p].kids, depth + 1, budget)
    PROVE  /\ BlocksOK' /\ FramesOK(src, al2, n, stack')
           /\ Chains(stack') = Chains(below) /\ Arrays(below) \subseteq Arrays(stack')
           /\ \/ <<"sub", i>> \in Arrays(stack')
              \/ KidsOK(src, al2, al2[i].kids, src.subs[al2[i].at].kids, al2[i].depth + 1)
<1>1. BlocksOK'
  <2>1. InBounds(BlocksOf(src.subs[p], <<"sub", 0>>))
    BY DEF Visitable
  <2> QED
    BY <2>1, SubDir, BlocksGrow
<1>2. /\ FramesOK(src, al2, n, stack') /\ Chains(stack') = Chains(below)
      /\ Arrays(stack') = Arrays(below) \union (IF src.subs[p].kids = <<>> THEN {} ELSE {<<"sub", i>>})
  <2>o. PICK o : o = <<"sub", i>>
    OBVIOUS
  <2>1. o[1] # "main" /\ o[2] = i
    BY <2>o
  <2>2. IsOwner(al2, n, o)
    BY <2>o DEF IsOwner
  <2>3. Offs(src, al2, o) = src.subs[p].kids /\ DepthOf(al2, o) = depth + 1
    BY <2>1 DEF Offs, DepthOf
  <2>4. IsList(src.subs[p].kids) /\ PushArray(below, o, src.subs[p].kids, depth + 1, budget)
    BY <2>o, SubDir
  <2> QED
    BY <2>2, <2>3, <2>4, <2>o, Pushed
<1>3. CASE src.subs[p].kids = <<>>
  BY <1>1, <1>2, <1>3, NoKids
<1>4. CASE src.subs[p].kids # <<>>
  BY <1>1, <1>2, <1>4
<1> QED
  BY <1>3, <1>4

-----------------------------------------------------------------------------
(* The steps of the walk.                                                  *)

LEMMA ElementLooked ==
    ASSUME IsSource(src), AllOK(src, all), WalkOK, stack # <<>>, Top.is = "array", Top.rest # <<>>,
           NEW i, KidOK(src, all, i, Head(Top.rest), Top.depth),
           stack' = Append(Below, WithKid(Top, i)), UNCHANGED <<src, k, kids, all>>
    PROVE  WalkOK'
<1>1. /\ k \in 0..Len(src.main) /\ FramesOK(src, all, k, stack) /\ k \in Nat
      /\ DoneOK(src, all, kids, k, Arrays(stack), Chains(stack))
  BY MainDir DEF WalkOK
<1>2. /\ FramesOK(src, all, k, Below) /\ FrameOK(src, all, k, Top) /\ IsList(Below)
      /\ Arrays(stack) = Arrays(Below) \union ArrayOf(Top)
      /\ Chains(stack) = Chains(Below) \union ChainOf(Top)
  BY <1>1, StackIs DEF FramesOK
<1>3. ArrayOK(src, all, k, Top)
  BY <1>2 DEF FrameOK, ChainOK
<1>4. /\ FrameOK(src, all, k, WithKid(Top, i))
      /\ ArrayOf(WithKid(Top, i)) = ArrayOf(Top) /\ ChainOf(WithKid(Top, i)) = ChainOf(Top)
  BY <1>3, KidDone
<1>5. FramesOK(src, all, k, stack')
  BY <1>2, <1>4, FramesAppend
<1>6. Arrays(stack') = Arrays(stack) /\ Chains(stack') = Chains(stack)
  BY <1>2, <1>4, ArraysAppend
<1>7. DoneOK(src, all, kids, k, Arrays(stack'), Chains(stack'))
  BY <1>1, <1>6
<1> QED
  BY <1>1, <1>5, <1>7 DEF WalkOK

LEMMA ElementVisited ==
    ASSUME IsSource(src), BlocksOK, AllOK(src, all), WalkOK, stack # <<>>, Top.is = "array", Top.rest # <<>>,
           NEW p, p = Head(Top.rest), Readable(p), Visitable(p),
           Visit(p, Top.depth, Append(Below, WithKid(Top, Len(all) + 1))), UNCHANGED <<src, k, kids>>
    PROVE  BlocksOK' /\ AllOK(src, all') /\ WalkOK'
<1>1. /\ k \in 0..Len(src.main) /\ FramesOK(src, all, k, stack) /\ k \in Nat
      /\ DoneOK(src, all, kids, k, Arrays(stack), Chains(stack))
      /\ kids = [m \in 1..Len(src.main) |-> kids[m]]
  BY MainDir DEF WalkOK
<1>i. PICK i, al, d : i = Len(all) + 1 /\ al = all' /\ d = Top.depth
  OBVIOUS
<1>2. /\ al = Append(all, [at |-> p, kids |-> <<>>, next |-> 0, depth |-> d, links |-> 0])
      /\ blocks' = blocks \o BlocksOf(src.subs[p], <<"sub", i>>)
      /\ PushArray(Append(Append(Below, WithKid(Top, i)), Follow(i, d)), <<"sub", i>>,
                   src.subs[p].kids, d + 1, left - Cost - Charged(src.subs[p]))
  BY <1>i DEF Visit
<1>x. PICK x : x = [at |-> p, kids |-> <<>>, next |-> 0, depth |-> d, links |-> 0]
  OBVIOUS
<1>3. /\ AllOK(src, al) /\ Grows(src, all, k, al, k) /\ p \in DOMAIN src.subs
      /\ Len(all) \in Nat /\ Len(al) = Len(all) + 1 /\ \A j \in 1..Len(all) : al[j] = all[j]
      /\ al[i] = x
  <2>1. p \in DOMAIN src.subs
    BY DEF Readable
  <2>2. k \in Nat /\ al = Append(all, x) /\ IsCarried(src, x)
    BY <1>1, <1>2, <1>x, <2>1 DEF IsCarried
  <2>m. i = Len(all) + 1
    BY <1>i
  <2>3. AllOK(src, al)
    BY <2>m, <2>2, Carries
  <2>6. Grows(src, all, k, al, k)
    BY <2>m, <2>2, Carries
  <2>7. Len(all) \in Nat
    BY <2>m, <2>2, Carries
  <2>4. Len(al) = i /\ al[i] = x
    BY <2>m, <2>2, Carries
  <2>5. \A j \in 1..Len(all) : al[j] = all[j]
    BY <2>m, <2>2, Carries
  <2> QED
    BY <2>m, <2>1, <2>3, <2>4, <2>5, <2>6, <2>7
<1>4. /\ i \in 1..Len(al) /\ i # 0 /\ al[i].at = p /\ al[i].kids = <<>> /\ al[i].next = 0 /\ al[i].depth = d
      /\ \A j \in 1..Len(al) : j # i => j \in 1..Len(all)
  BY <1>3, <1>i, <1>x
<1>5. /\ FramesOK(src, all, k, Below) /\ FrameOK(src, all, k, Top) /\ IsList(Below)
      /\ Arrays(stack) = Arrays(Below) \union ArrayOf(Top)
      /\ Chains(stack) = Chains(Below) \union ChainOf(Top)
  BY <1>1, StackIs DEF FramesOK
<1>6. FramesOK(src, al, k, Below) /\ ArrayOK(src, al, k, Top)
  <2>1. FrameOK(src, al, k, Top)
    BY <1>3, <1>5, GrowFrame
  <2> QED
    BY <1>3, <1>5, <2>1, GrowFrames DEF FrameOK, ChainOK
<1>s. PICK s, c : s = WithKid(Top, i) /\ c = Follow(i, d)
  OBVIOUS
<1>7. /\ FrameOK(src, al, k, s) /\ ArrayOf(s) = ArrayOf(Top) /\ ChainOf(s) = ChainOf(Top)
  <2>1. KidOK(src, al, i, p, d)
    BY <1>4 DEF KidOK
  <2> QED
    BY <1>6, <1>i, <1>s, <2>1, KidDone
<1>8. /\ FrameOK(src, al, k, c) /\ ArrayOf(c) = {} /\ ChainOf(c) = {i}
  <2>1. /\ c.is = "chain" /\ c.prev = i /\ c.depth = d
        /\ c = [is |-> "chain", head |-> c.head, prev |-> c.prev, depth |-> c.depth]
    BY <1>s DEF Follow
  <2> QED
    BY <1>4, <2>1 DEF FrameOK, ChainOK, ArrayOf, ChainOf
<1>b. PICK a, b : a = Append(Below, s) /\ b = Append(a, c)
  OBVIOUS
<1>9. /\ FramesOK(src, al, k, b) /\ Arrays(stack) \subseteq Arrays(b)
      /\ Chains(stack) \subseteq Chains(b) /\ i \in Chains(b)
  <2>1. /\ FramesOK(src, al, k, a) /\ Arrays(a) = Arrays(Below) \union ArrayOf(s)
        /\ Chains(a) = Chains(Below) \union ChainOf(s)
    BY <1>5, <1>6, <1>7, <1>b, FramesAppend, ArraysAppend
  <2>2. IsList(a)
    BY <2>1 DEF FramesOK
  <2>3. /\ FramesOK(src, al, k, b) /\ Arrays(b) = Arrays(a) \union ArrayOf(c)
        /\ Chains(b) = Chains(a) \union ChainOf(c)
    BY <1>8, <1>b, <2>1, <2>2, FramesAppend, ArraysAppend
  <2> QED
    BY <1>5, <1>7, <1>8, <2>1, <2>3
<1>10. /\ BlocksOK' /\ FramesOK(src, al, k, stack')
       /\ Chains(stack') = Chains(b) /\ Arrays(b) \subseteq Arrays(stack')
       /\ \/ <<"sub", i>> \in Arrays(stack')
          \/ KidsOK(src, al, al[i].kids, src.subs[al[i].at].kids, al[i].depth + 1)
  <2>1. PushArray(b, <<"sub", i>>, src.subs[p].kids, d + 1, left - Cost - Charged(src.subs[p]))
    BY <1>2, <1>b, <1>s
  <2>2. blocks' = blocks \o BlocksOf(src.subs[p], <<"sub", i>>) /\ src' = src
    BY <1>2
  <2>3. p \in DOMAIN src.subs /\ i \in 1..Len(al) /\ al[i].at = p /\ al[i].depth = d /\ al[i].kids = <<>>
    BY <1>3, <1>4
  <2> QED
    BY <1>9, <2>1, <2>2, <2>3, Visited
<1>11. DoneOK(src, al, kids, k, Arrays(stack'), Chains(stack'))
  <2>1. ASSUME NEW j \in 1..Len(al)
        PROVE  \/ /\ j \in 1..Len(all) /\ al[j].kids = all[j].kids
                  /\ <<"sub", j>> \in Arrays(stack) => <<"sub", j>> \in Arrays(stack')
               \/ <<"sub", j>> \in Arrays(stack')
               \/ KidsOK(src, al, al[j].kids, src.subs[al[j].at].kids, al[j].depth + 1)
    <3>1. CASE j = i
      BY <1>10, <3>1
    <3>2. CASE j # i
      BY <1>3, <1>4, <1>9, <1>10, <3>2
    <3> QED
      BY <3>1, <3>2
  <2>2. ASSUME NEW j \in 1..Len(al)
        PROVE  \/ /\ j \in 1..Len(all) /\ al[j].next = all[j].next
                  /\ j \in Chains(stack) => j \in Chains(stack')
               \/ /\ NextIs(src, al, j)
                  /\ \/ j \in Chains(stack')
                     \/ NextOK(src, al, j)
    <3>1. CASE j = i
      BY <1>4, <1>9, <1>10, <3>1 DEF NextIs
    <3>2. CASE j # i
      BY <1>3, <1>4, <1>9, <1>10, <3>2
    <3> QED
      BY <3>1, <3>2
  <2>3. \A o : o \in Arrays(stack) => o \in Arrays(stack')
    BY <1>9, <1>10
  <2> QED
    BY <1>1, <1>3, <2>1, <2>2, <2>3, DoneOn
<1> QED
  BY <1>1, <1>3, <1>10, <1>11, <1>i DEF WalkOK

(* What is known of the chain on the top of the stack.                     *)
LEMMA ChainTop ==
    ASSUME IsSource(src), AllOK(src, all), WalkOK, stack # <<>>, Top.is = "chain"
    PROVE  /\ k \in 0..Len(src.main) /\ k \in Nat /\ kids = [m \in 1..Len(src.main) |-> kids[m]]
           /\ DoneOK(src, all, kids, k, Arrays(stack), Chains(stack))
           /\ FramesOK(src, all, k, Below) /\ IsList(Below) /\ ChainOK(all, Top)
           /\ Arrays(stack) = Arrays(Below) /\ Chains(stack) = Chains(Below) \union {Top.prev}
           /\ Top.prev \in 1..Len(all)
<1>1. /\ k \in 0..Len(src.main) /\ FramesOK(src, all, k, stack) /\ k \in Nat
      /\ DoneOK(src, all, kids, k, Arrays(stack), Chains(stack))
      /\ kids = [m \in 1..Len(src.main) |-> kids[m]]
  BY MainDir DEF WalkOK
<1>2. /\ FramesOK(src, all, k, Below) /\ FrameOK(src, all, k, Top) /\ IsList(Below)
      /\ Arrays(stack) = Arrays(Below) \union ArrayOf(Top)
      /\ Chains(stack) = Chains(Below) \union ChainOf(Top)
  BY <1>1, StackIs DEF FramesOK
<1>3. ChainOK(all, Top)
  BY <1>2 DEF FrameOK, ArrayOK
<1>4. ArrayOf(Top) = {} /\ ChainOf(Top) = {Top.prev}
  BY DEF ArrayOf, ChainOf
<1> QED
  BY <1>1, <1>2, <1>3, <1>4 DEF ChainOK

LEMMA ChainEnd ==
    ASSUME IsSource(src), AllOK(src, all), WalkOK, stack # <<>>, Top.is = "chain",
           NEW p, p = src.subs[all[Top.prev].at].next, p = 0 \/ ~Readable(p),
           stack' = Below, UNCHANGED <<src, k, kids, all>>
    PROVE  WalkOK'
<1>i. PICK i : i = Top.prev
  OBVIOUS
<1>1. /\ k \in 0..Len(src.main) /\ k \in Nat /\ kids = [m \in 1..Len(src.main) |-> kids[m]]
      /\ DoneOK(src, all, kids, k, Arrays(stack), Chains(stack))
      /\ FramesOK(src, all, k, Below)
      /\ Arrays(stack) = Arrays(Below) /\ Chains(stack) = Chains(Below) \union {i}
      /\ i \in 1..Len(all)
  BY <1>i, ChainTop
<1>2. Grows(src, all, k, all, k)
  BY <1>1, GrowSame
<1>3. NextIs(src, all, i) /\ KidOK(src, all, all[i].next, p, all[i].depth)
  <2>1. NextIs(src, all, i)
    BY <1>1 DEF DoneOK
  <2>2. CASE all[i].next = 0
    BY <2>1, <2>2 DEF KidOK, CanVisit, Readable
  <2>3. CASE all[i].next # 0
    BY <2>1, <2>3, <1>i DEF KidOK, NextIs
  <2> QED
    BY <2>1, <2>2, <2>3
<1>4. DoneOK(src, all, kids, k, Arrays(Below), Chains(Below))
  <2>1. \A j \in 1..Len(all) :
          \/ j \in 1..Len(all) /\ all[j].next = all[j].next /\ (j \in Chains(stack) => j \in Chains(Below))
          \/ /\ NextIs(src, all, j)
             /\ \/ j \in Chains(Below)
                \/ NextOK(src, all, j)
    BY <1>1, <1>3, <1>i DEF NextOK
  <2> QED
    BY <1>1, <1>2, <2>1, DoneOn
<1> QED
  BY <1>1, <1>4 DEF WalkOK

LEMMA ChainCutOff ==
    ASSUME IsSource(src), AllOK(src, all), WalkOK, stack # <<>>, Top.is = "chain",
           all[Top.prev].links = ChainMax, stack' = Below, UNCHANGED <<src, k, kids, all>>
    PROVE  WalkOK'
<1>i. PICK i : i = Top.prev
  OBVIOUS
<1>1. /\ k \in 0..Len(src.main) /\ k \in Nat /\ kids = [m \in 1..Len(src.main) |-> kids[m]]
      /\ DoneOK(src, all, kids, k, Arrays(stack), Chains(stack))
      /\ FramesOK(src, all, k, Below)
      /\ Arrays(stack) = Arrays(Below) /\ Chains(stack) = Chains(Below) \union {i}
      /\ i \in 1..Len(all)
  BY <1>i, ChainTop
<1>2. Grows(src, all, k, all, k)
  BY <1>1, GrowSame
<1>3. NextIs(src, all, i) /\ NextOK(src, all, i)
  <2>1. NextIs(src, all, i)
    BY <1>1 DEF DoneOK
  <2>2. CASE all[i].next = 0
    BY <2>1, <2>2, <1>i DEF NextOK
  <2>3. CASE all[i].next # 0
    BY <2>1, <2>3 DEF NextOK, KidOK, NextIs
  <2> QED
    BY <2>1, <2>2, <2>3
<1>4. DoneOK(src, all, kids, k, Arrays(Below), Chains(Below))
  <2>1. \A j \in 1..Len(all) :
          \/ j \in 1..Len(all) /\ all[j].next = all[j].next /\ (j \in Chains(stack) => j \in Chains(Below))
          \/ NextIs(src, all, j) /\ (j \in Chains(Below) \/ NextOK(src, all, j))
    BY <1>1, <1>3
  <2> QED
    BY <1>1, <1>2, <2>1, DoneOn
<1> QED
  BY <1>1, <1>4 DEF WalkOK

LEMMA ChainLinked ==
    ASSUME IsSource(src), AllOK(src, all), WalkOK, stack # <<>>, Top.is = "chain",
           NEW p, p = src.subs[all[Top.prev].at].next, p # 0, NEW h \in 1..Len(all), all[h].at = p,
           all' = [all EXCEPT ![Top.prev].next = h],
           stack' = Below, UNCHANGED <<src, k, kids>>
    PROVE  AllOK(src, all') /\ WalkOK'
<1>i. PICK i, al : i = Top.prev /\ al = all'
  OBVIOUS
<1>1. /\ k \in 0..Len(src.main) /\ k \in Nat /\ kids = [m \in 1..Len(src.main) |-> kids[m]]
      /\ DoneOK(src, all, kids, k, Arrays(stack), Chains(stack))
      /\ FramesOK(src, all, k, Below)
      /\ Arrays(stack) = Arrays(Below) /\ Chains(stack) = Chains(Below) \union {i}
      /\ i \in 1..Len(all)
  BY <1>i, ChainTop
<1>2. /\ AllOK(src, al) /\ Grows(src, all, k, al, k) /\ Len(al) = Len(all)
      /\ \A j \in 1..Len(all) : al[j].kids = all[j].kids /\ (j # i => al[j].next = all[j].next)
      /\ al[i].next = h
  <2>1. al = [all EXCEPT ![i].next = h]
    BY <1>i
  <2>2. k \in Nat /\ i \in 1..Len(all)
    BY <1>1
  <2>3. AllOK(src, al) /\ Grows(src, all, k, al, k)
    BY <2>1, <2>2, Links
  <2>4. Len(al) = Len(all) /\ al[i].next = h
    BY <2>1, <2>2, Links
  <2>5. \A j \in 1..Len(all) : al[j].kids = all[j].kids /\ (j # i => al[j].next = all[j].next)
    BY <2>1, <2>2, Links
  <2> QED
    BY <2>3, <2>4, <2>5
<1>3. al[i].at = all[i].at /\ al[h].at = p /\ h # 0
  BY <1>1, <1>2 DEF Grows
<1>4. NextIs(src, al, i) /\ NextOK(src, al, i)
  BY <1>2, <1>3, <1>i DEF NextIs, NextOK, KidOK
<1>5. DoneOK(src, al, kids, k, Arrays(Below), Chains(Below))
  <2>1. \A j \in 1..Len(al) :
          \/ j \in 1..Len(all) /\ al[j].next = all[j].next /\ (j \in Chains(stack) => j \in Chains(Below))
          \/ /\ NextIs(src, al, j)
             /\ \/ j \in Chains(Below)
                \/ NextOK(src, al, j)
    BY <1>1, <1>2, <1>4
  <2>2. \A j \in 1..Len(al) :
          j \in 1..Len(all) /\ al[j].kids = all[j].kids /\ (<<"sub", j>> \in Arrays(stack) => <<"sub", j>> \in Arrays(Below))
    BY <1>1, <1>2
  <2> QED
    BY <1>1, <1>2, <2>1, <2>2, DoneOn
<1>6. FramesOK(src, al, k, Below)
  BY <1>1, <1>2, GrowFrames
<1> QED
  BY <1>1, <1>2, <1>5, <1>6, <1>i DEF WalkOK

ChainVisit(p, i) ==
    /\ p = src.subs[all[Top.prev].at].next /\ p # 0 /\ Readable(p) /\ i = Len(all) + 1
    /\ all' = Append([all EXCEPT ![Top.prev].next = i],
                     [at |-> p, kids |-> <<>>, next |-> 0, depth |-> Top.depth,
                      links |-> all[Top.prev].links + 1])
    /\ blocks' = blocks \o BlocksOf(src.subs[p], <<"sub", i>>)
    /\ PushArray(Append(Below, [Top EXCEPT !.prev = i]), <<"sub", i>>, src.subs[p].kids,
                 Top.depth + 1, left - Cost - Charged(src.subs[p]))
    /\ UNCHANGED <<src, k, kids>>

LEMMA ChainVisited ==
    ASSUME IsSource(src), BlocksOK, AllOK(src, all), WalkOK, stack # <<>>, Top.is = "chain",
           NEW p, Visitable(p), NEW i, ChainVisit(p, i)
    PROVE  BlocksOK' /\ AllOK(src, all') /\ WalkOK'
<1>i. PICK h, al, a, d, x, c, b, budget :
        /\ h = Top.prev /\ al = all' /\ d = Top.depth
        /\ a = [all EXCEPT ![h].next = i]
        /\ x = [at |-> p, kids |-> <<>>, next |-> 0, depth |-> d, links |-> all[h].links + 1]
        /\ c = [Top EXCEPT !.prev = i] /\ b = Append(Below, c)
        /\ budget = left - Cost - Charged(src.subs[p])
  OBVIOUS
<1>v. /\ p = src.subs[all[h].at].next /\ p # 0 /\ p \in DOMAIN src.subs /\ i = Len(all) + 1
      /\ al = Append(a, x)
  BY <1>i DEF ChainVisit, Readable
<1>w. blocks' = blocks \o BlocksOf(src.subs[p], <<"sub", i>>) /\ src' = src /\ k' = k /\ kids' = kids
  BY DEF ChainVisit
<1>u. PushArray(b, <<"sub", i>>, src.subs[p].kids, d + 1, budget)
  BY <1>i DEF ChainVisit
<1>1. /\ k \in 0..Len(src.main) /\ k \in Nat /\ kids = [m \in 1..Len(src.main) |-> kids[m]]
      /\ DoneOK(src, all, kids, k, Arrays(stack), Chains(stack))
      /\ FramesOK(src, all, k, Below) /\ IsList(Below)
      /\ Arrays(stack) = Arrays(Below) /\ Chains(stack) = Chains(Below) \union {h}
      /\ h \in 1..Len(all)
      /\ Top = [is |-> "chain", head |-> Top.head, prev |-> Top.prev, depth |-> Top.depth]
  BY <1>i, ChainTop DEF ChainOK
<1>2. /\ AllOK(src, a) /\ Grows(src, all, k, a, k) /\ Len(a) = Len(all)
      /\ \A j \in 1..Len(all) : a[j].kids = all[j].kids /\ (j # h => a[j].next = all[j].next)
      /\ a[h].next = i
  <2>1. a = [all EXCEPT ![h].next = i]
    BY <1>i
  <2>2. k \in Nat /\ h \in 1..Len(all)
    BY <1>1
  <2>3. AllOK(src, a) /\ Grows(src, all, k, a, k)
    BY <2>1, <2>2, Links
  <2>4. Len(a) = Len(all) /\ a[h].next = i
    BY <2>1, <2>2, Links
  <2>5. \A j \in 1..Len(all) : a[j].kids = all[j].kids /\ (j # h => a[j].next = all[j].next)
    BY <2>1, <2>2, Links
  <2> QED
    BY <2>3, <2>4, <2>5
<1>3. AllOK(src, al) /\ Len(al) = i /\ Len(a) \in Nat /\ al[i] = x /\ \A j \in 1..Len(a) : al[j] = a[j]
  <2>2. al = Append(a, x) /\ IsCarried(src, x) /\ i = Len(a) + 1
    BY <1>2, <1>i, <1>v DEF IsCarried
  <2>a. AllOK(src, a) /\ k \in Nat
    BY <1>1, <1>2
  <2>3. AllOK(src, al)
    BY <2>2, <2>a, Carries
  <2>4. Len(al) = i /\ al[i] = x
    BY <2>2, <2>a, Carries
  <2>5. \A j \in 1..Len(a) : al[j] = a[j]
    BY <2>2, <2>a, Carries
  <2>6. Len(a) \in Nat
    BY <2>a, ListDomain DEF AllOK
  <2> QED
    BY <2>3, <2>4, <2>5, <2>6
<1>n. PICK n : n = Len(all)
  OBVIOUS
<1>m. n \in Nat /\ i = n + 1 /\ Len(al) = n + 1 /\ h \in 1..n /\ \A j \in 1..n : al[j] = a[j]
  <2>1. Len(a) = n /\ h \in 1..n
    BY <1>1, <1>2, <1>n
  <2> QED
    BY <1>3, <1>n, <1>v, <2>1
<1>4. /\ i \in 1..Len(al) /\ i # 0 /\ al[i].at = p /\ al[i].kids = <<>> /\ al[i].next = 0 /\ al[i].depth = d
      /\ \A j \in 1..Len(al) : j # i => j \in 1..Len(all)
      /\ p \in DOMAIN src.subs /\ h # i
  <2>1. i \in 1..n + 1 /\ i # 0 /\ h # i /\ \A j \in 1..n + 1 : j # i => j \in 1..n
    BY <1>m
  <2>2. al[i].at = p /\ al[i].kids = <<>> /\ al[i].next = 0 /\ al[i].depth = d
    BY <1>3, <1>i
  <2> QED
    BY <1>m, <1>n, <1>v, <2>1, <2>2
<1>5. /\ Grows(src, all, k, al, k)
      /\ \A j \in 1..Len(all) : al[j].kids = all[j].kids /\ (j # h => al[j].next = all[j].next)
      /\ al[h].next = i /\ al[h].at = all[h].at
  <2>1. \A j \in 1..Len(all) : al[j] = a[j]
    BY <1>m, <1>n
  <2>2. Len(all) <= Len(al)
    BY <1>m, <1>n
  <2>3. k <= k
    BY <1>1
  <2>4. \A j \in 1..Len(all) : /\ al[j].at = all[j].at /\ al[j].depth = all[j].depth
                                  /\ al[j].links = all[j].links
    BY <1>2, <2>1 DEF Grows
  <2>5. Grows(src, all, k, al, k)
    BY <1>1, <1>3, <2>2, <2>3, <2>4 DEF Grows
  <2> QED
    BY <1>1, <1>2, <2>1, <2>4, <2>5
<1>6. NextIs(src, al, h) /\ NextOK(src, al, h)
  BY <1>4, <1>5, <1>v DEF NextIs, NextOK, KidOK
<1>8. /\ FrameOK(src, al, k, c) /\ ArrayOf(c) = {} /\ ChainOf(c) = {i}
  <2>1. /\ c.is = "chain" /\ c.prev = i /\ c.depth = d
        /\ c = [is |-> "chain", head |-> c.head, prev |-> c.prev, depth |-> c.depth]
    BY <1>1, <1>i
  <2> QED
    BY <1>4, <2>1 DEF FrameOK, ChainOK, ArrayOf, ChainOf
<1>9. /\ FramesOK(src, al, k, b) /\ Arrays(b) = Arrays(stack) /\ Chains(b) = Chains(Below) \union {i}
  <2>1. FramesOK(src, al, k, Below)
    BY <1>1, <1>5, GrowFrames
  <2>2. FramesOK(src, al, k, b)
    BY <1>8, <1>i, <2>1, FramesAppend
  <2>3. Arrays(b) = Arrays(Below) \union ArrayOf(c) /\ Chains(b) = Chains(Below) \union ChainOf(c)
    BY <1>1, <1>i, ArraysAppend
  <2> QED
    BY <1>1, <1>8, <2>2, <2>3
<1>10. /\ BlocksOK' /\ FramesOK(src, al, k, stack')
       /\ Chains(stack') = Chains(b) /\ Arrays(b) \subseteq Arrays(stack')
       /\ \/ <<"sub", i>> \in Arrays(stack')
          \/ KidsOK(src, al, al[i].kids, src.subs[al[i].at].kids, al[i].depth + 1)
  BY <1>4, <1>9, <1>u, <1>v, <1>w, Visited
<1>11. DoneOK(src, al, kids, k, Arrays(stack'), Chains(stack'))
  <2>1. ASSUME NEW j \in 1..Len(al)
        PROVE  \/ /\ j \in 1..Len(all) /\ al[j].kids = all[j].kids
                  /\ <<"sub", j>> \in Arrays(stack) => <<"sub", j>> \in Arrays(stack')
               \/ <<"sub", j>> \in Arrays(stack')
               \/ KidsOK(src, al, al[j].kids, src.subs[al[j].at].kids, al[j].depth + 1)
    <3>1. CASE j = i
      BY <1>10, <3>1
    <3>2. CASE j # i
      BY <1>4, <1>5, <1>9, <1>10, <3>2
    <3> QED
      BY <3>1, <3>2
  <2>2. ASSUME NEW j \in 1..Len(al)
        PROVE  \/ /\ j \in 1..Len(all) /\ al[j].next = all[j].next
                  /\ j \in Chains(stack) => j \in Chains(stack')
               \/ /\ NextIs(src, al, j)
                  /\ \/ j \in Chains(stack')
                     \/ NextOK(src, al, j)
    <3>1. CASE j = i
      BY <1>4, <1>9, <1>10, <3>1 DEF NextIs
    <3>2. CASE j = h
      BY <1>6, <3>2
    <3>3. CASE j # i /\ j # h
      BY <1>1, <1>4, <1>5, <1>9, <1>10, <3>3
    <3> QED
      BY <3>1, <3>2, <3>3
  <2>3. \A o : o \in Arrays(stack) => o \in Arrays(stack')
    BY <1>9, <1>10
  <2> QED
    BY <1>1, <1>5, <2>1, <2>2, <2>3, DoneOn
<1> QED
  BY <1>1, <1>3, <1>10, <1>11, <1>i, <1>w DEF WalkOK

Known == IsSource(src) /\ BlocksOK /\ AllOK(src, all)

LEMMA KnownSame == ASSUME Known, UNCHANGED <<src, blocks, all>> PROVE Known'
BY DEF Known, BlocksOK, IsBlock

LEMMA ElementStep ==
    ASSUME Known, WalkOK, Element
    PROVE  Known' /\ (phase' = "failed" \/ (phase' = "subs" /\ WalkOK'))
<1>p. PICK p : p = Head(Top.rest)
  OBVIOUS
<1>1. /\ stack # <<>> /\ Top.is = "array" /\ Top.rest # <<>> /\ UNCHANGED <<src, k, kids, planVars>>
      /\ phase = "subs"
  BY DEF Element
<1>2. IsSource(src) /\ BlocksOK /\ AllOK(src, all)
  BY DEF Known
<1>3. CASE Lookup(p) # 0 /\ stack' = Append(Below, WithKid(Top, Lookup(p))) /\ UNCHANGED <<phase, left, all, blocks>>
  <2>1. KidOK(src, all, Lookup(p), p, Top.depth)
    BY <1>2, <1>3, LookupIs DEF KidOK
  <2>2. WalkOK'
    <3>1. stack' = Append(Below, WithKid(Top, Lookup(p))) /\ UNCHANGED <<src, k, kids, all>>
      BY <1>1, <1>3
    <3> QED
      BY <1>1, <1>2, <1>p, <2>1, <3>1, ElementLooked
  <2>3. Known'
    BY <1>1, <1>3, KnownSame
  <2> QED
    BY <1>1, <1>3, <2>2, <2>3
<1>4. CASE /\ ~CanVisit(p, Top.depth) \/ (~Readable(p) /\ left >= Cost)
           /\ stack' = Append(Below, WithKid(Top, 0)) /\ UNCHANGED <<phase, all, blocks>>
  <2>1. KidOK(src, all, 0, p, Top.depth)
    BY <1>4 DEF KidOK, Readable
  <2>2. WalkOK'
    <3>1. stack' = Append(Below, WithKid(Top, 0)) /\ UNCHANGED <<src, k, kids, all>>
      BY <1>1, <1>4
    <3> QED
      BY <1>1, <1>2, <1>p, <2>1, <3>1, ElementLooked
  <2>3. Known'
    BY <1>1, <1>4, KnownSame
  <2> QED
    BY <1>1, <1>4, <2>2, <2>3
<1>5. CASE /\ Readable(p) /\ Visitable(p) /\ UNCHANGED phase
           /\ Visit(p, Top.depth, Append(Below, WithKid(Top, Len(all) + 1)))
  <2>1. BlocksOK' /\ AllOK(src, all') /\ WalkOK'
    <3>1. UNCHANGED <<src, k, kids>>
      BY <1>1
    <3> QED
      BY <1>1, <1>2, <1>5, <1>p, <3>1, ElementVisited
  <2> QED
    BY <1>1, <1>2, <1>5, <2>1 DEF Known
<1>6. CASE phase' = "failed" /\ UNCHANGED <<stack, left, all, blocks>>
  <2>1. UNCHANGED <<src, blocks, all>>
    BY <1>1, <1>6
  <2> QED
    BY <1>6, <2>1, KnownSame
<1> QED
  <2>1. \/ Lookup(p) # 0 /\ stack' = Append(Below, WithKid(Top, Lookup(p))) /\ UNCHANGED <<phase, left, all, blocks>>
        \/ /\ ~CanVisit(p, Top.depth) \/ (~Readable(p) /\ left >= Cost)
           /\ stack' = Append(Below, WithKid(Top, 0)) /\ UNCHANGED <<phase, all, blocks>>
        \/ /\ Readable(p) /\ Visitable(p) /\ UNCHANGED phase
           /\ Visit(p, Top.depth, Append(Below, WithKid(Top, Len(all) + 1)))
        \/ phase' = "failed" /\ UNCHANGED <<stack, left, all, blocks>>
    BY <1>p DEF Element
  <2> QED
    BY <2>1, <1>3, <1>4, <1>5, <1>6

LEMMA FollowStep ==
    ASSUME Known, WalkOK, FollowNext
    PROVE  Known' /\ (phase' = "failed" \/ (phase' = "subs" /\ WalkOK'))
<1>p. PICK p, i : p = src.subs[all[Top.prev].at].next /\ i = Len(all) + 1
  OBVIOUS
<1>1. stack # <<>> /\ Top.is = "chain" /\ UNCHANGED <<src, k, kids, planVars>> /\ phase = "subs"
  BY DEF FollowNext
<1>2. IsSource(src) /\ BlocksOK /\ AllOK(src, all)
  BY DEF Known
<1>3. CASE (p = 0 \/ ~Readable(p)) /\ stack' = Below /\ UNCHANGED <<phase, all, blocks>>
  <2>1. WalkOK'
    <3>1. UNCHANGED <<src, k, kids, all>>
      BY <1>1, <1>3
    <3> QED
      BY <1>1, <1>2, <1>3, <1>p, <3>1, ChainEnd
  <2> QED
    BY <1>1, <1>3, <2>1, KnownSame
<1>4. CASE /\ p # 0 /\ Lookup(p) # 0 /\ all' = [all EXCEPT ![Top.prev].next = Lookup(p)]
           /\ stack' = Below /\ UNCHANGED <<phase, left, blocks>>
  <2>1. AllOK(src, all') /\ WalkOK'
    <3>1. UNCHANGED <<src, k, kids>>
      BY <1>1
    <3>2. Lookup(p) \in 1..Len(all) /\ all[Lookup(p)].at = p
      BY <1>2, <1>4, LookupIs
    <3> QED
      BY <1>1, <1>2, <1>4, <1>p, <3>1, <3>2, ChainLinked
  <2> QED
    BY <1>1, <1>2, <1>4, <2>1 DEF Known, BlocksOK, IsBlock
<1>5. CASE Visitable(p) /\ ChainVisit(p, i) /\ UNCHANGED phase
  <2>1. BlocksOK' /\ AllOK(src, all') /\ WalkOK'
    BY <1>1, <1>2, <1>5, ChainVisited
  <2> QED
    BY <1>1, <1>2, <1>5, <2>1 DEF Known
<1>6. CASE phase' = "failed" /\ UNCHANGED <<stack, left, all, blocks>>
  <2>1. UNCHANGED <<src, blocks, all>>
    BY <1>1, <1>6
  <2> QED
    BY <1>6, <2>1, KnownSame
<1> QED
  <2>1. \/ p = 0 /\ stack' = Below /\ UNCHANGED <<phase, left, all, blocks>>
        \/ p # 0 /\ Lookup(p) # 0 /\ all' = [all EXCEPT ![Top.prev].next = Lookup(p)]
           /\ stack' = Below /\ UNCHANGED <<phase, left, blocks>>
        \/ ~Readable(p) /\ stack' = Below /\ UNCHANGED <<phase, all, blocks>>
        \/ /\ p # 0 /\ Readable(p) /\ Visitable(p) /\ UNCHANGED phase
           /\ all' = Append([all EXCEPT ![Top.prev].next = i],
                            [at |-> p, kids |-> <<>>, next |-> 0, depth |-> Top.depth,
                             links |-> all[Top.prev].links + 1])
           /\ blocks' = blocks \o BlocksOf(src.subs[p], <<"sub", i>>)
           /\ PushArray(Append(Below, [Top EXCEPT !.prev = i]), <<"sub", i>>, src.subs[p].kids,
                        Top.depth + 1, left - Cost - Charged(src.subs[p]))
        \/ phase' = "failed" /\ UNCHANGED <<stack, left, all, blocks>>
    BY <1>p DEF FollowNext
  <2> QED
    BY <2>1, <1>1, <1>3, <1>4, <1>5, <1>6, <1>p DEF ChainVisit

LEMMA CutStep ==
    ASSUME Known, WalkOK, ChainCut
    PROVE  Known' /\ phase' = "subs" /\ WalkOK'
<1>1. /\ stack # <<>> /\ Top.is = "chain" /\ all[Top.prev].links = ChainMax /\ stack' = Below
      /\ UNCHANGED <<src, phase, k, all, kids, blocks>> /\ phase = "subs"
  BY DEF ChainCut
<1>2. WalkOK'
  <2>1. IsSource(src) /\ AllOK(src, all) /\ UNCHANGED <<src, k, kids, all>>
    BY <1>1 DEF Known
  <2> QED
    BY <1>1, <2>1, ChainCutOff
<1> QED
  BY <1>1, <1>2, KnownSame

LEMMA ArrayStep ==
    ASSUME Known, WalkOK, ArrayDone
    PROVE  Known' /\ phase' = "subs" /\ WalkOK'
<1>o. PICK o, al, ks, s : o = Top.of /\ al = all' /\ ks = kids' /\ s = Top
  OBVIOUS
<1>1. /\ stack # <<>> /\ s.is = "array" /\ s.rest = <<>> /\ stack' = Below
      /\ phase = "subs" /\ UNCHANGED <<src, phase, k, blocks>>
  BY <1>o DEF ArrayDone
<1>k. /\ o[1] = "main" => ks = [kids EXCEPT ![o[2]] = s.kids] /\ al = all
      /\ o[1] # "main" => al = [all EXCEPT ![o[2]].kids = s.kids] /\ ks = kids
  BY <1>o DEF ArrayDone
<1>2. IsSource(src) /\ BlocksOK /\ AllOK(src, all)
  BY DEF Known
<1>3. /\ k \in 0..Len(src.main) /\ FramesOK(src, all, k, stack) /\ k \in Nat
      /\ DoneOK(src, all, kids, k, Arrays(stack), Chains(stack))
      /\ kids = [m \in 1..Len(src.main) |-> kids[m]]
  BY <1>2, MainDir DEF WalkOK
<1>4. /\ FramesOK(src, all, k, Below) /\ ArrayOK(src, all, k, s)
      /\ Arrays(stack) = Arrays(Below) \union {o} /\ Chains(stack) = Chains(Below)
  <2>1. /\ FramesOK(src, all, k, Below) /\ FrameOK(src, all, k, Top)
        /\ Arrays(stack) = Arrays(Below) \union ArrayOf(Top)
        /\ Chains(stack) = Chains(Below) \union ChainOf(Top)
    BY <1>1, <1>3, StackIs
  <2>2. ArrayOf(s) = {o} /\ ChainOf(s) = {}
    BY <1>1, <1>o DEF ArrayOf, ChainOf
  <2> QED
    BY <1>1, <1>o, <2>1, <2>2 DEF FrameOK, ChainOK
<1>5. IsOwner(all, k, o) /\ KidsOK(src, all, s.kids, Offs(src, all, o), DepthOf(all, o))
  <2>1. /\ IsOwner(all, k, s.of) /\ s.depth = DepthOf(all, s.of) /\ IsList(s.kids)
        /\ Len(s.kids) + Len(s.rest) = Len(Offs(src, all, s.of))
        /\ \A j \in 1..Len(s.kids) : KidOK(src, all, s.kids[j], Offs(src, all, s.of)[j], s.depth)
    BY <1>4 DEF ArrayOK
  <2>2. Len(s.rest) = 0 /\ Len(s.kids) \in Nat
    BY <1>1, <2>1, EmptyList, ListDomain
  <2>3. Len(s.kids) = Len(Offs(src, all, s.of))
    <3>n. PICK a, b, c : a = Len(s.kids) /\ b = Len(s.rest) /\ c = Len(Offs(src, all, s.of))
      OBVIOUS
    <3>1. a \in Nat /\ b = 0 /\ a + b = c
      BY <2>1, <2>2, <3>n
    <3>2. a = c
      BY <3>1
    <3> QED
      BY <3>2, <3>n
  <2> QED
    BY <1>o, <2>1, <2>3 DEF KidsOK
<1>6. CASE o[1] = "main"
  <2>1. PICK m \in 1..k : o = <<"main", m>>
    BY <1>5, <1>6 DEF IsOwner
  <2>2. m \in 1..Len(src.main) /\ o[2] = m /\ al = all
    BY <1>2, <1>3, <1>6, <1>k, <2>1, MainDir
  <2>3. ks = [h \in 1..Len(src.main) |-> IF h = m THEN s.kids ELSE kids[h]]
    BY <1>3, <1>6, <1>k, <2>2
  <2>4. KidsOK(src, all, ks[m], src.main[m].kids, 0)
    BY <1>5, <1>6, <2>1, <2>2, <2>3 DEF Offs, DepthOf
  <2>5. DoneOK(src, all, ks, k, Arrays(Below), Chains(Below))
    <3>1. Grows(src, all, k, all, k)
      BY <1>2, <1>3, GrowSame
    <3>2. ASSUME NEW h \in 1..k
          PROVE  \/ ks[h] = kids[h] /\ (<<"main", h>> \in Arrays(stack) => <<"main", h>> \in Arrays(Below))
                 \/ KidsOK(src, all, ks[h], src.main[h].kids, 0)
      <4>1. CASE h = m
        BY <2>4, <4>1
      <4>2. CASE h # m
        <5>1. h \in 1..Len(src.main)
          BY <1>2, <1>3, MainDir
        <5>2. <<"main", h>> # o
          BY <2>1, <4>2
        <5> QED
          BY <1>4, <2>3, <4>2, <5>1, <5>2
      <4> QED
        BY <4>1, <4>2
    <3>3. ASSUME NEW h \in k + 1..Len(src.main) PROVE ks[h] = kids[h]
      <4>1. h \in 1..Len(src.main) /\ h # m
        BY <1>2, <1>3, MainDir
      <4> QED
        BY <2>3, <4>1
    <3>4. ASSUME NEW i \in 1..Len(all) PROVE <<"sub", i>> \in Arrays(stack) => <<"sub", i>> \in Arrays(Below)
      <4>1. <<"sub", i>> # o
        BY <2>1
      <4> QED
        BY <1>4, <4>1
    <3> QED
      BY <1>3, <1>4, <3>1, <3>2, <3>3, <3>4, DoneOn
  <2>6. ks = [h \in 1..Len(src.main) |-> ks[h]]
    BY <2>3
  <2>7. WalkOK'
    BY <1>1, <1>3, <1>4, <1>o, <2>2, <2>5, <2>6 DEF WalkOK
  <2> QED
    BY <1>1, <1>o, <2>2, <2>7, KnownSame
<1>7. CASE o[1] # "main"
  <2>1. PICK i \in 1..Len(all) : o = <<"sub", i>>
    BY <1>5, <1>7 DEF IsOwner
  <2>2. o[2] = i /\ ks = kids /\ al = [all EXCEPT ![i].kids = s.kids]
    BY <1>7, <1>k, <2>1
  <2>3. AllOK(src, al) /\ Grows(src, all, k, al, k)
    BY <1>2, <1>3, <2>2, Kidded
  <2>4. Len(al) = Len(all) /\ al[i].kids = s.kids
    BY <1>2, <1>3, <2>2, Kidded
  <2>5. \A j \in 1..Len(all) : al[j].next = all[j].next /\ (j # i => al[j].kids = all[j].kids)
    BY <1>2, <1>3, <2>2, Kidded
  <2>6. KidsOK(src, al, al[i].kids, src.subs[al[i].at].kids, al[i].depth + 1)
    <3>1. al[i].at = all[i].at /\ al[i].depth = all[i].depth
      BY <2>3 DEF Grows
    <3>2. KidsOK(src, all, s.kids, src.subs[all[i].at].kids, all[i].depth + 1)
      BY <1>5, <1>7, <2>2 DEF Offs, DepthOf
    <3> QED
      BY <2>3, <2>4, <3>1, <3>2, GrowKids
  <2>7. DoneOK(src, al, ks, k, Arrays(Below), Chains(Below))
    <3>1. ASSUME NEW h \in 1..k
          PROVE  ks[h] = kids[h] /\ (<<"main", h>> \in Arrays(stack) => <<"main", h>> \in Arrays(Below))
      <4>1. <<"main", h>> # o
        BY <2>1
      <4> QED
        BY <1>4, <2>2, <4>1
    <3>2. ASSUME NEW j \in 1..Len(al)
          PROVE  \/ /\ j \in 1..Len(all) /\ al[j].kids = all[j].kids
                    /\ <<"sub", j>> \in Arrays(stack) => <<"sub", j>> \in Arrays(Below)
                 \/ KidsOK(src, al, al[j].kids, src.subs[al[j].at].kids, al[j].depth + 1)
      <4>1. CASE j = i
        BY <2>6, <4>1
      <4>2. CASE j # i
        <5>1. <<"sub", j>> # o
          BY <2>1, <4>2
        <5> QED
          BY <1>4, <2>4, <2>5, <4>2, <5>1
      <4> QED
        BY <4>1, <4>2
    <3>3. \A j \in 1..Len(al) :
            j \in 1..Len(all) /\ al[j].next = all[j].next /\ (j \in Chains(stack) => j \in Chains(Below))
      BY <1>4, <2>4, <2>5
    <3>4. \A h \in k + 1..Len(src.main) : ks[h] = kids[h]
      BY <2>2
    <3> QED
      BY <1>3, <2>3, <3>1, <3>2, <3>3, <3>4, DoneOn
  <2>8. FramesOK(src, al, k, Below)
    BY <1>4, <2>3, GrowFrames
  <2>9. WalkOK'
    BY <1>1, <1>3, <1>o, <2>2, <2>7, <2>8 DEF WalkOK
  <2>10. BlocksOK'
    BY <1>1, <1>2 DEF BlocksOK, IsBlock
  <2> QED
    BY <1>1, <1>2, <1>o, <2>3, <2>9, <2>10 DEF Known
<1> QED
  BY <1>6, <1>7

LEMMA RootStep ==
    ASSUME Known, WalkOK, Root
    PROVE  Known' /\ (phase' = "failed" \/ (phase' = "subs" /\ WalkOK'))
<1>1. stack = <<>> /\ k < Len(src.main) /\ phase = "subs"
  BY DEF Root
<1>2. IsSource(src) /\ BlocksOK /\ AllOK(src, all)
  BY DEF Known
<1>3. CASE Fail
  <2>1. UNCHANGED <<src, blocks, all>> /\ phase' = "failed"
    BY <1>3 DEF Fail, walkVars
  <2> QED
    BY <2>1, KnownSame
<1>n. PICK n, o, offs : n = k + 1 /\ o = <<"main", n>> /\ offs = src.main[n].kids
  OBVIOUS
<1>4. CASE PushArray(<<>>, o, offs, 0, left) /\ k' = n /\ UNCHANGED <<src, phase, all, kids, blocks, planVars>>
  <2>1. /\ k \in Nat /\ k \in 0..Len(src.main) /\ DoneOK(src, all, kids, k, {}, {})
        /\ kids = [m \in 1..Len(src.main) |-> kids[m]] /\ Len(src.main) \in Nat
    <3>1. Arrays(stack) = {} /\ Chains(stack) = {}
      BY <1>1, NoFrames
    <3>2. /\ k \in 0..Len(src.main) /\ DoneOK(src, all, kids, k, Arrays(stack), Chains(stack))
          /\ kids = [m \in 1..Len(src.main) |-> kids[m]]
      BY DEF WalkOK
    <3>3. Len(src.main) \in Nat
      BY <1>2, MainDir
    <3> QED
      BY <3>1, <3>2, <3>3
  <2>2. n \in Nat /\ n \in 1..Len(src.main) /\ k <= n /\ n \in 0..Len(src.main) /\ n \in 1..n
    BY <1>1, <1>n, <2>1
  <2>3. IsList(offs) /\ IsOwner(all, n, o) /\ Offs(src, all, o) = offs /\ DepthOf(all, o) = 0
    BY <1>2, <1>n, <2>2, MainDir DEF IsOwner, Offs, DepthOf
  <2>4. /\ FramesOK(src, all, n, stack') /\ Chains(stack') = {}
        /\ Arrays(stack') = {} \union (IF offs = <<>> THEN {} ELSE {o})
    <3>e. PICK e : e = <<>>
      OBVIOUS
    <3>1. FramesOK(src, all, n, e) /\ Arrays(e) = {} /\ Chains(e) = {}
      BY <3>e, NoFrames
    <3>2. PushArray(e, o, offs, 0, left)
      BY <1>4, <3>e
    <3>3. /\ FramesOK(src, all, n, stack') /\ Chains(stack') = Chains(e)
          /\ Arrays(stack') = Arrays(e) \union (IF offs = <<>> THEN {} ELSE {o})
      BY <2>3, <3>1, <3>2, Pushed
    <3> QED
      BY <3>1, <3>3
  <2>5. ASSUME NEW m \in 1..n
        PROVE  <<"main", m>> \in Arrays(stack') \/ KidsOK(src, all, kids[m], src.main[m].kids, 0)
    <3>1. CASE m \in 1..k
      BY <2>1, <3>1 DEF DoneOK
    <3>2. CASE m = n /\ offs = <<>>
      <4>1. kids[m] = <<>>
        <5>1. m \in k + 1..Len(src.main)
          BY <1>1, <1>n, <2>1, <3>2
        <5> QED
          BY <2>1, <5>1 DEF DoneOK
      <4> QED
        BY <1>n, <3>2, <4>1, NoKids
    <3>3. CASE m = n /\ offs # <<>>
      BY <1>n, <2>4, <3>3
    <3> QED
      BY <1>n, <2>1, <3>1, <3>2, <3>3
  <2>6. ASSUME NEW m \in n + 1..Len(src.main) PROVE kids[m] = <<>>
    <3>1. m \in k + 1..Len(src.main)
      BY <1>n, <2>1
    <3> QED
      BY <2>1, <3>1 DEF DoneOK
  <2>7. DoneOK(src, all, kids, n, Arrays(stack'), Chains(stack'))
    BY <2>1, <2>5, <2>6 DEF DoneOK
  <2>8. WalkOK'
    BY <1>4, <2>1, <2>2, <2>4, <2>7 DEF WalkOK
  <2>9. Known' /\ phase' = "subs"
    BY <1>1, <1>4, KnownSame
  <2> QED
    BY <2>8, <2>9
<1> QED
  BY <1>3, <1>4, <1>n DEF Root

LEMMA EnumerateStep ==
    ASSUME Known, EnumerateMain, k \in 0..Len(src.main), all = <<>>
    PROVE  Known' /\ (phase' = "failed" \/ (phase' = "main" /\ k' \in 0..Len(src.main)))
<1>1. IsSource(src) /\ BlocksOK /\ AllOK(src, all) /\ Len(src.main) \in Nat
  BY MainDir DEF Known
<1>2. CASE Fail
  <2>1. UNCHANGED <<src, blocks, all>> /\ phase' = "failed"
    BY <1>2 DEF Fail, walkVars
  <2> QED
    BY <2>1, KnownSame
<1>3. CASE /\ InBounds(BlocksOf(src.main[k + 1], <<"main", k + 1>>)) /\ k < Len(src.main) /\ phase = "main"
           /\ blocks' = blocks \o BlocksOf(src.main[k + 1], <<"main", k + 1>>)
           /\ k' = k + 1 /\ UNCHANGED <<src, phase, stack, all, kids, planVars>>
  <2>1. k + 1 \in 1..Len(src.main) /\ k + 1 \in 0..Len(src.main)
    BY <1>1, <1>3
  <2>2. BlocksOK'
    BY <1>1, <1>3, <2>1, MainDir, BlocksGrow
  <2> QED
    BY <1>1, <1>3, <2>1, <2>2 DEF Known
<1> QED
  BY <1>2, <1>3 DEF EnumerateMain

LEMMA WalkStarts ==
    ASSUME Known, MainDone, all = <<>>, stack = <<>>, kids = [m \in 1..Len(src.main) |-> <<>>]
    PROVE  Known' /\ phase' = "subs" /\ WalkOK'
<1>1. /\ UNCHANGED <<src, blocks, all, stack, kids>> /\ phase' = "subs" /\ k' = 0
      /\ Len(src.main) \in Nat
  BY MainDir DEF MainDone, walkVars, Known
<1>2. FramesOK(src, all, 0, stack) /\ Arrays(stack) = {} /\ Chains(stack) = {}
  BY NoFrames
<1>3. DoneOK(src, all, kids, 0, {}, {})
  <2>1. 1..0 = {} /\ Len(all) = 0 /\ \A m \in 0 + 1..Len(src.main) : m \in 1..Len(src.main)
    BY <1>1, EmptyList
  <2> QED
    BY <2>1 DEF DoneOK
<1>4. kids = [m \in 1..Len(src.main) |-> kids[m]] /\ 0 \in 0..Len(src.main)
  BY <1>1
<1>5. WalkOK'
  BY <1>1, <1>2, <1>3, <1>4 DEF WalkOK
<1> QED
  BY <1>1, <1>5, KnownSame

LEMMA WalkEnds ==
    ASSUME Known, WalkOK, WalkDone
    PROVE  Known' /\ phase' = "layout" /\ CarriedOK'
<1>1. /\ UNCHANGED <<src, blocks, all, stack, kids, k>> /\ phase' = "layout" /\ stack = <<>> /\ k = Len(src.main)
  BY DEF WalkDone, walkVars
<1>2. CarriedOK
  BY <1>1, NoFrames DEF WalkOK, CarriedOK
<1>3. CarriedOK'
  BY <1>1, <1>2 DEF CarriedOK
<1> QED
  BY <1>1, <1>3, KnownSame

-----------------------------------------------------------------------------
(* The places of the SubIFDs, and what is written before the blocks.       *)

HeadEnd(i) == IF i = 0 THEN src.head ELSE SubPlaces[i] + SubLen(i)

LEMMA EvenIs == ASSUME NEW n \in Nat PROVE Even(n) \in Nat /\ Even(n) % 2 = 0 /\ Even(n) = n + (n % 2) /\ n % 2 \in Nat
<1>1. n % 2 \in 0..1
  OBVIOUS
<1>2. (n + (n % 2)) % 2 = 0
  BY MadeEven
<1> QED
  BY <1>1, <1>2 DEF Even

LEMMA SubLens ==
    ASSUME Known
    PROVE  /\ Len(all) \in Nat /\ src.head \in Nat /\ src.head > 0
           /\ \A i \in 1..Len(all) : SubLen(i) \in Nat /\ all[i].at \in Nat /\ all[i].at \in DOMAIN src.subs
<1>1. Len(all) \in Nat /\ src.head \in Nat /\ src.head > 0
  BY ListDomain DEF Known, AllOK, IsSource
<1>2. ASSUME NEW i \in 1..Len(all) PROVE SubLen(i) \in Nat /\ all[i].at \in Nat /\ all[i].at \in DOMAIN src.subs
  <2>1. all[i].at \in DOMAIN src.subs
    BY DEF Known, AllOK, IsCarried
  <2>2. DOMAIN src.subs \subseteq Nat /\ \A p \in DOMAIN src.subs : src.subs[p].len \in Nat
    BY DEF Known, IsSource
  <2> QED
    BY <2>1, <2>2 DEF SubLen
<1> QED
  BY <1>1, <1>2

LEMMA PlacesAre ==
    ASSUME Known
    PROVE  /\ SubPlaces = [i \in 1..Len(all) |-> SubPlaces[i]]
           /\ \A i \in 1..Len(all) : SubPlaces[i] = Even(HeadEnd(i - 1)) /\ SubPlaces[i] \in Nat /\ SubPlaces[i] % 2 = 0
           /\ \A i \in 0..Len(all) : HeadEnd(i) \in Nat
           /\ HeaderLen(SubPlaces) = HeadEnd(Len(all))
<1>N. PICK n : n = Len(all)
  OBVIOUS
<1>1. n \in Nat /\ src.head \in Nat /\ \A i \in 1..n : SubLen(i) \in Nat
  BY <1>N, SubLens
<1> DEFINE Rule(f) == f = [i \in 0..n |-> IF i = 0 THEN 0 ELSE Even(IF i = 1 THEN src.head ELSE f[i - 1] + SubLen(i - 1))]
           h == [i \in 1..n |-> [v \in Nat |-> Even(IF i = 1 THEN src.head ELSE v + SubLen(i - 1))]]
           place == CHOOSE f : Rule(f)
<1>2. ASSUME NEW i \in 1..n, NEW v \in Nat
      PROVE  (IF i = 1 THEN src.head ELSE v + SubLen(i - 1)) \in Nat
  <2>1. i # 1 => i - 1 \in 1..n
    BY <1>1
  <2> QED
    BY <1>1, <2>1
<1>3. ASSUME NEW i \in 1..n, NEW v \in Nat PROVE Even(IF i = 1 THEN src.head ELSE v + SubLen(i - 1)) \in Nat
  BY <1>2, EvenIs
<1>4. h \in [1..n -> [Nat -> Nat]] /\ \A i \in 1..n, v \in Nat : h[i][v] = Even(IF i = 1 THEN src.head ELSE v + SubLen(i - 1))
  BY <1>3
<1> HIDE DEF h
<1>5. PICK g : Steps(g, n, Nat, 0, h)
  BY <1>1, <1>4, Recursion
<1>6. g \in [0..n -> Nat] /\ g[0] = 0 /\ \A i \in 1..n : g[i] = h[i][g[i - 1]]
  BY <1>5 DEF Steps
<1>7. Rule(g)
  <2>1. \A i \in 1..n : i - 1 \in 0..n /\ g[i - 1] \in Nat
    BY <1>1, <1>6
  <2>2. \A i \in 0..n : i # 0 => i \in 1..n
    BY <1>1
  <2>3. \A i \in 0..n : g[i] = IF i = 0 THEN 0 ELSE Even(IF i = 1 THEN src.head ELSE g[i - 1] + SubLen(i - 1))
    BY <1>4, <1>6, <2>1, <2>2
  <2>4. g = [i \in 0..n |-> g[i]]
    BY <1>6
  <2> QED
    BY <2>3, <2>4
<1>8. Rule(place)
  BY <1>7
<1>9. SubPlaces = [i \in 1..n |-> place[i]]
  BY <1>N DEF SubPlaces
<1> HIDE DEF place
<1>10. \A i \in 0..n : place[i] = IF i = 0 THEN 0 ELSE Even(IF i = 1 THEN src.head ELSE place[i - 1] + SubLen(i - 1))
  BY <1>8
<1> HIDE DEF Rule
<1>11. \A i \in 0..n : place[i] \in Nat
  <2> DEFINE T == {i \in 0..n : place[i] \in Nat}
  <2>1. 0 \in T
    BY <1>1, <1>10
  <2>2. ASSUME NEW i \in 1..n, i - 1 \in T PROVE i \in T
    <3>1. i \in 0..n /\ i # 0 /\ place[i - 1] \in Nat
      BY <1>1, <2>2
    <3>2. place[i] = Even(IF i = 1 THEN src.head ELSE place[i - 1] + SubLen(i - 1))
      BY <1>10, <3>1
    <3>3. place[i] \in Nat
      BY <1>3, <3>1, <3>2
    <3> QED
      BY <3>1, <3>3
  <2> HIDE DEF T
  <2>3. \A i \in 0..n : i \in T
    BY <1>1, <2>1, <2>2, UpTo
  <2> QED
    BY <2>3 DEF T
<1>12. \A i \in 1..n : SubPlaces[i] = place[i] /\ SubPlaces[i] \in Nat /\ i \in 0..n
  BY <1>1, <1>9, <1>11
<1>13. \A i \in 0..n : HeadEnd(i) \in Nat
  <2>1. \A i \in 0..n : i # 0 => i \in 1..n
    BY <1>1
  <2> QED
    BY <1>1, <1>12, <2>1 DEF HeadEnd
<1>14. ASSUME NEW i \in 1..n PROVE SubPlaces[i] = Even(HeadEnd(i - 1)) /\ SubPlaces[i] % 2 = 0
  <2>1. i \in 0..n /\ i # 0 /\ i - 1 \in 0..n /\ (i # 1 => i - 1 \in 1..n) /\ (i - 1 = 0 <=> i = 1)
    BY <1>1
  <2>2. HeadEnd(i - 1) = IF i = 1 THEN src.head ELSE place[i - 1] + SubLen(i - 1)
    BY <1>12, <2>1 DEF HeadEnd
  <2>3. SubPlaces[i] = Even(HeadEnd(i - 1))
    BY <1>10, <1>12, <2>1, <2>2
  <2> QED
    BY <1>13, <2>1, <2>3, EvenIs
<1>15. HeaderLen(SubPlaces) = HeadEnd(n)
  <2>1. all = <<>> <=> n = 0
    BY <1>N, EmptyList DEF Known, AllOK
  <2> QED
    BY <2>1, <1>N DEF HeaderLen, HeadEnd
<1>16. SubPlaces = [i \in 1..n |-> SubPlaces[i]]
  BY <1>9
<1> QED
  BY <1>N, <1>12, <1>13, <1>14, <1>15, <1>16

LEMMA MadeIs == ASSUME NEW what \in Int, NEW n \in Nat
                PROVE  /\ IsList(Made(what, n)) /\ Len(Made(what, n)) = n /\ Made(what, n) \in Seq(Int)
                       /\ \A i \in 1..n : Made(what, n)[i] = what
<1>m. PICK m : m = Made(what, n)
  OBVIOUS
<1>1. m = [i \in 1..n |-> what]
  BY <1>m DEF Made
<1>2. \A i \in 1..n : m[i] = what
  BY <1>1
<1>3. IsList(m) /\ Len(m) = n
  <2>1. m = [i \in 1..n |-> m[i]]
    BY <1>1
  <2> QED
    BY <2>1, MadeList
<1>4. m \in Seq(Int)
  BY <1>1
<1> QED
  BY <1>2, <1>3, <1>4, <1>m

(* One more SubIFD is written, at an even place.                           *)
SubWritten(o, i) == o \o Made(-2, Len(o) % 2) \o Made(-3 - all[i].at, SubLen(i))

LEMMA SubWrittenIs ==
    ASSUME Known, NEW i \in 1..Len(all), NEW o \in Seq(Int)
    PROVE  /\ SubWritten(o, i) \in Seq(Int) /\ IsList(SubWritten(o, i))
           /\ Len(SubWritten(o, i)) = Even(Len(o)) + SubLen(i)
           /\ \A y \in 1..Len(o) : SubWritten(o, i)[y] = o[y]
           /\ (\A y \in 1..Len(o) : o[y] < 0) => \A y \in 1..Len(SubWritten(o, i)) : SubWritten(o, i)[y] < 0
           /\ \A y \in 1..SubLen(i) : SubWritten(o, i)[Even(Len(o)) + y] = -3 - all[i].at
<1>p. PICK a, b, c, m, n, w, s : /\ a = Made(-2, n) /\ n = Len(o) % 2 /\ b = Made(w, s) /\ w = -3 - all[i].at /\ s = SubLen(i)
                                 /\ c = SubWritten(o, i) /\ m = o \o a
  <2>1. \E n, w, s : n = Len(o) % 2 /\ w = -3 - all[i].at /\ s = SubLen(i)
    OBVIOUS
  <2> QED
    BY <2>1
<1>1. c = m \o b
  BY <1>p DEF SubWritten
<1>2. IsList(o) /\ Len(o) \in Nat /\ n \in Nat /\ n \in 0..1 /\ s \in Nat /\ w \in Int /\ w < 0 /\ Even(Len(o)) = Len(o) + n
  <2>1. Len(o) \in Nat
    OBVIOUS
  <2>2. SubLen(i) \in Nat /\ all[i].at \in Nat
    BY SubLens
  <2>3. n \in 0..1
    BY <1>p, <2>1
  <2>4. IsList(o)
    BY SeqIsList
  <2>5. Even(Len(o)) = Len(o) + n
    BY <1>p DEF Even
  <2> QED
    BY <1>p, <2>1, <2>2, <2>3, <2>4, <2>5
<1>3. IsList(a) /\ Len(a) = n /\ a \in Seq(Int) /\ \A y \in 1..n : a[y] = -2
  BY <1>2, <1>p, MadeIs
<1>4. IsList(b) /\ Len(b) = s /\ b \in Seq(Int) /\ \A y \in 1..s : b[y] = w
  BY <1>2, <1>p, MadeIs
<1>l. PICK l : l = Len(o)
  OBVIOUS
<1>5. /\ IsList(m) /\ Len(m) = l + n /\ m \in Seq(Int)
      /\ (\A y \in 1..l : m[y] = o[y]) /\ \A y \in 1..n : m[l + y] = -2
  <2>1. /\ IsList(m) /\ Len(m) = Len(o) + Len(a)
        /\ (\A y \in 1..Len(o) : m[y] = o[y]) /\ \A y \in 1..Len(a) : m[Len(o) + y] = a[y]
    BY <1>2, <1>3, <1>p, ConcatList
  <2>2. m \in Seq(Int)
    BY <1>3, <1>p, ConcatProperties
  <2> QED
    BY <1>3, <1>l, <2>1, <2>2
<1>6. /\ IsList(c) /\ Len(c) = (l + n) + s /\ c \in Seq(Int)
      /\ (\A y \in 1..l + n : c[y] = m[y]) /\ \A y \in 1..s : c[(l + n) + y] = w
  <2>1. /\ IsList(c) /\ Len(c) = Len(m) + Len(b)
        /\ (\A y \in 1..Len(m) : c[y] = m[y]) /\ \A y \in 1..Len(b) : c[Len(m) + y] = b[y]
    <3>1. IsList(m) /\ IsList(b)
      BY <1>4, <1>5
    <3> QED
      BY <1>1, <3>1, ConcatList
  <2>2. c \in Seq(Int)
    BY <1>1, <1>4, <1>5, ConcatProperties
  <2> QED
    BY <1>4, <1>5, <2>1, <2>2
<1>7. l \in Nat /\ n \in Nat /\ s \in Nat /\ Even(Len(o)) = l + n
  BY <1>2, <1>l
<1>8. \A y \in 1..l : c[y] = o[y]
  <2>1. \A y \in 1..l : y \in 1..l + n
    BY <1>7
  <2> QED
    BY <1>5, <1>6, <2>1
<1>9. ASSUME \A y \in 1..l : o[y] < 0, NEW y \in 1..(l + n) + s PROVE c[y] < 0
  <2>1. CASE y \in 1..l
    BY <1>8, <1>9, <2>1
  <2>2. CASE y > l /\ y <= l + n
    <3>h. PICK h : h = y - l
      OBVIOUS
    <3>1. h \in 1..n /\ l + h = y /\ y \in 1..l + n
      BY <1>7, <2>2, <3>h
    <3>2. c[y] = -2
      BY <1>5, <1>6, <3>1
    <3> QED
      BY <3>2
  <2>3. CASE y > l + n
    <3>h. PICK h : h = y - (l + n)
      OBVIOUS
    <3>1. h \in 1..s /\ (l + n) + h = y
      BY <1>7, <2>3, <3>h
    <3> QED
      BY <1>2, <1>6, <3>1
  <2> QED
    BY <1>7, <2>1, <2>2, <2>3
<1> QED
  BY <1>6, <1>7, <1>8, <1>9, <1>l, <1>p

(* What is known of the header when n SubIFDs are written.                 *)
HeaderOK(o, n) ==
    /\ o \in Seq(Int) /\ Len(o) = HeadEnd(n) /\ \A y \in 1..Len(o) : o[y] < 0
    /\ \A i \in 1..n : /\ SubPlaces[i] + SubLen(i) <= HeadEnd(n)
                       /\ \A y \in 1..SubLen(i) : o[SubPlaces[i] + y] = -3 - all[i].at

LEMMA HeaderGrows ==
    ASSUME Known, NEW n \in 1..Len(all), NEW o, HeaderOK(o, n - 1)
    PROVE  HeaderOK(SubWritten(o, n), n)
<1>w. PICK w, l, s : w = SubWritten(o, n) /\ l = Len(o) /\ s = SubLen(n)
  OBVIOUS
<1>1. /\ o \in Seq(Int) /\ l = HeadEnd(n - 1) /\ \A y \in 1..l : o[y] < 0
      /\ \A i \in 1..n - 1 : /\ SubPlaces[i] + SubLen(i) <= l
                             /\ \A y \in 1..SubLen(i) : o[SubPlaces[i] + y] = -3 - all[i].at
  BY <1>w DEF HeaderOK
<1>2. /\ w \in Seq(Int) /\ Len(w) = Even(l) + s
      /\ \A y \in 1..l : w[y] = o[y]
      /\ \A y \in 1..Len(w) : w[y] < 0
      /\ \A y \in 1..s : w[Even(l) + y] = -3 - all[n].at
  <2>o. o \in Seq(Int)
    BY <1>1
  <2>1. w \in Seq(Int) /\ Len(w) = Even(l) + s
    BY <1>w, <2>o, SubWrittenIs
  <2>2. \A y \in 1..l : w[y] = o[y]
    BY <1>w, <2>o, SubWrittenIs
  <2>3. (\A y \in 1..l : o[y] < 0) => \A y \in 1..Len(w) : w[y] < 0
    BY <1>w, <2>o, SubWrittenIs
  <2>4. \A y \in 1..s : w[Even(l) + y] = -3 - all[n].at
    BY <1>w, <2>o, SubWrittenIs
  <2> QED
    BY <1>1, <2>1, <2>2, <2>3, <2>4
<1>3. Len(all) \in Nat /\ n \in Nat /\ n # 0 /\ s \in Nat /\ \A i \in 1..Len(all) : SubPlaces[i] \in Nat /\ SubLen(i) \in Nat
  BY <1>w, SubLens, PlacesAre
<1>4. SubPlaces[n] = Even(l) /\ HeadEnd(n) = Even(l) + s /\ l \in Nat /\ Even(l) \in Nat /\ Even(l) >= l
  <2>1. SubPlaces[n] = Even(HeadEnd(n - 1)) /\ n - 1 \in 0..Len(all) /\ HeadEnd(n - 1) \in Nat
    BY <1>3, PlacesAre
  <2>2. l \in Nat /\ SubPlaces[n] = Even(l)
    BY <1>1, <2>1
  <2>3. Even(l) \in Nat /\ Even(l) = l + (l % 2) /\ l % 2 \in Nat
    BY <2>2, EvenIs
  <2> QED
    BY <1>3, <1>w, <2>2, <2>3 DEF HeadEnd
<1>5. ASSUME NEW i \in 1..n
      PROVE  /\ SubPlaces[i] + SubLen(i) <= HeadEnd(n)
             /\ \A y \in 1..SubLen(i) : w[SubPlaces[i] + y] = -3 - all[i].at
  <2>1. CASE i = n
    BY <1>2, <1>3, <1>4, <1>w, <2>1
  <2>2. CASE i # n
    <3>p. PICK a, b : a = SubPlaces[i] /\ b = SubLen(i)
      OBVIOUS
    <3>1. i \in 1..n - 1 /\ i \in 1..Len(all)
      BY <1>3, <2>2
    <3>2. a \in Nat /\ b \in Nat /\ a + b <= l /\ \A y \in 1..b : o[a + y] = -3 - all[i].at
      BY <1>1, <1>3, <3>1, <3>p
    <3>3. a + b <= HeadEnd(n) /\ \A y \in 1..b : a + y \in 1..l
      BY <1>3, <1>4, <3>2
    <3> QED
      BY <1>2, <3>2, <3>3, <3>p
  <2> QED
    BY <2>1, <2>2
<1>6. Len(w) = HeadEnd(n)
  BY <1>2, <1>4
<1> QED
  BY <1>2, <1>5, <1>6, <1>w DEF HeaderOK

LEMMA HeaderIs == ASSUME Known PROVE HeaderOK(Header, Len(all))
<1>N. PICK n, a : n = Len(all) /\ a = Made(-1, src.head)
  OBVIOUS
<1>1. n \in Nat /\ src.head \in Nat
  BY <1>N, SubLens
<1>2. /\ a \in Seq(Int) /\ Len(a) = src.head /\ \A y \in 1..Len(a) : a[y] < 0
  <2>1. IsList(a) /\ Len(a) = src.head /\ a \in Seq(Int) /\ \A y \in 1..src.head : a[y] = -1
    <3>m. PICK m : m = -1
      OBVIOUS
    <3>1. m \in Int /\ a = Made(m, src.head)
      BY <1>N, <3>m
    <3> QED
      BY <1>1, <3>1, <3>m, MadeIs
  <2>2. \A y \in 1..Len(a) : a[y] < 0
    <3>1. ASSUME NEW y \in 1..Len(a) PROVE a[y] < 0
      <4>1. a[y] = -1
        BY <2>1
      <4> QED
        BY <4>1
    <3> QED
      BY <3>1
  <2> QED
    BY <2>1, <2>2
<1> DEFINE S == Seq(Int)
           Rule(f) == f = [i \in 0..n |-> IF i = 0 THEN a ELSE SubWritten(f[i - 1], i)]
           h == [i \in 1..n |-> [v \in S |-> SubWritten(v, i)]]
           up == CHOOSE f : Rule(f)
<1>3. ASSUME NEW i \in 1..n, NEW v \in S PROVE SubWritten(v, i) \in S
  BY <1>N, SubWrittenIs
<1> HIDE DEF S
<1>4. h \in [1..n -> [S -> S]] /\ \A i \in 1..n, v \in S : h[i][v] = SubWritten(v, i)
  BY <1>3
<1> HIDE DEF h
<1>5. PICK g : Steps(g, n, S, a, h)
  <2>1. a \in S
    BY <1>2 DEF S
  <2> QED
    BY <1>1, <1>4, <2>1, Recursion
<1>6. g \in [0..n -> S] /\ g[0] = a /\ \A i \in 1..n : g[i] = h[i][g[i - 1]]
  BY <1>5 DEF Steps
<1>7. Rule(g)
  <2>1. \A i \in 1..n : i - 1 \in 0..n /\ g[i - 1] \in S
    BY <1>1, <1>6
  <2>2. \A i \in 0..n : i # 0 => i \in 1..n
    BY <1>1
  <2>3. \A i \in 0..n : g[i] = IF i = 0 THEN a ELSE SubWritten(g[i - 1], i)
    BY <1>4, <1>6, <2>1, <2>2
  <2>4. g = [i \in 0..n |-> g[i]]
    BY <1>6
  <2> QED
    BY <2>3, <2>4
<1>8. Rule(up)
  BY <1>7
<1>9. Header = up[n]
  BY <1>N DEF Header, SubWritten
<1> HIDE DEF up
<1>10. \A i \in 0..n : up[i] = IF i = 0 THEN a ELSE SubWritten(up[i - 1], i)
  BY <1>8
<1> HIDE DEF Rule
<1> DEFINE T == {i \in 0..n : HeaderOK(up[i], i)}
<1>11. 0 \in T
  <2>1. up[0] = a /\ 0 \in 0..n /\ HeadEnd(0) = src.head /\ \A i \in 1..0 : FALSE
    BY <1>1, <1>10 DEF HeadEnd
  <2>2. HeaderOK(up[0], 0)
    BY <1>2, <2>1 DEF HeaderOK
  <2> QED
    BY <2>1, <2>2
<1>12. ASSUME NEW i \in 1..n, i - 1 \in T PROVE i \in T
  <2>1. HeaderOK(up[i - 1], i - 1) /\ i \in 0..n /\ i # 0
    BY <1>1, <1>12
  <2>2. up[i] = SubWritten(up[i - 1], i)
    BY <1>10, <2>1
  <2>3. HeaderOK(up[i], i)
    BY <1>N, <2>1, <2>2, HeaderGrows
  <2> QED
    BY <2>1, <2>3
<1> HIDE DEF T
<1>13. \A i \in 0..n : i \in T
  BY <1>1, <1>11, <1>12, UpTo
<1>14. n \in T
  BY <1>1, <1>13
<1> QED
  BY <1>9, <1>14, <1>N DEF T

-----------------------------------------------------------------------------
(* The pieces that are copied.                                             *)

FilledOK(i) == i \in 1..Len(blocks) /\ blocks[i].len > 0

LEMMA FilledIs ==
    ASSUME Known
    PROVE  /\ IsList(blocks) /\ Len(blocks) \in Nat /\ DOMAIN blocks = 1..Len(blocks)
           /\ src.size \in Nat
           /\ \A i : i \in Filled <=> FilledOK(i)
           /\ \A i \in 1..Len(blocks) : blocks[i].off \in Nat /\ blocks[i].len \in Nat
           /\ \A i \in Filled : /\ i \in 1..Len(blocks) /\ i \in Nat
                                /\ blocks[i].off \in Nat /\ EndOf(blocks[i]) \in Nat
                                /\ blocks[i].off < EndOf(blocks[i]) /\ EndOf(blocks[i]) <= src.size
<1>1. IsList(blocks) /\ Len(blocks) \in Nat /\ DOMAIN blocks = 1..Len(blocks) /\ src.size \in Nat
  BY ListDomain DEF Known, BlocksOK, IsSource
<1>2. \A i : i \in Filled <=> FilledOK(i)
  BY <1>1 DEF Filled, FilledOK
<1>3. \A i \in 1..Len(blocks) : /\ blocks[i].off \in Nat /\ blocks[i].len \in Nat
                                /\ blocks[i].len > 0 => blocks[i].off + blocks[i].len <= src.size
  BY DEF Known, BlocksOK, IsBlock
<1>4. ASSUME NEW i \in Filled
      PROVE  /\ i \in 1..Len(blocks) /\ i \in Nat
             /\ blocks[i].off \in Nat /\ EndOf(blocks[i]) \in Nat
             /\ blocks[i].off < EndOf(blocks[i]) /\ EndOf(blocks[i]) <= src.size
  <2>p. PICK a, b : a = blocks[i].off /\ b = blocks[i].len
    OBVIOUS
  <2>1. i \in 1..Len(blocks) /\ b > 0
    BY <1>2, <2>p DEF FilledOK
  <2>2. a \in Nat /\ b \in Nat /\ a + b <= src.size
    BY <1>3, <2>1, <2>p
  <2>3. a < a + b /\ a + b \in Nat
    BY <2>1, <2>2
  <2> QED
    BY <1>1, <2>1, <2>2, <2>3, <2>p DEF EndOf
<1> QED
  BY <1>1, <1>2, <1>3, <1>4

LEMMA JoinedIs ==
    ASSUME Known, NEW x, Joined(x), x \in Nat
    PROVE  /\ x >= 1 /\ x + 1 <= src.size /\ \E i \in Filled : x < EndOf(blocks[i])
<1>1. PICK i \in Filled : blocks[i].off < x /\ x < EndOf(blocks[i])
  BY DEF Joined
<1>2. blocks[i].off \in Nat /\ EndOf(blocks[i]) \in Nat /\ EndOf(blocks[i]) <= src.size /\ src.size \in Nat
  BY FilledIs
<1> QED
  BY <1>1, <1>2

(* The first and the last boundary of a range.                             *)
IsLow(b, x) == x \in 0..src.size /\ x <= b.off /\ (\A y \in x + 1..b.off : Joined(y)) /\ ~Joined(x)
IsHigh(b, x) == x \in 0..src.size /\ x >= EndOf(b) /\ (\A y \in b.off + 1..x - 1 : Joined(y)) /\ ~Joined(x)

LEMMA LowExists == ASSUME Known, NEW i \in Filled PROVE \E x : IsLow(blocks[i], x)
<1>b. PICK b, o : b = blocks[i] /\ o = b.off
  OBVIOUS
<1>1. o \in Nat /\ o <= src.size /\ src.size \in Nat
  <2>1. EndOf(b) \in Nat /\ o < EndOf(b) /\ EndOf(b) <= src.size /\ o \in Nat /\ src.size \in Nat
    BY <1>b, FilledIs
  <2> QED
    BY <2>1
<1> DEFINE T == {x \in 0..o : \A y \in x + 1..o : Joined(y)}
<1>2. o \in T /\ T \subseteq Nat
  BY <1>1
<1> HIDE DEF T
<1>3. PICK x \in T : \A y \in T : ~(y < x)
  <2>1. T # {}
    BY <1>2
  <2> QED
    BY <1>2, <2>1, NatLeast
<1>4. x \in Nat /\ x <= o /\ \A y \in x + 1..o : Joined(y)
  BY <1>3, <1>1 DEF T
<1>5. ~Joined(x)
  <2>1. SUFFICES ASSUME Joined(x) PROVE FALSE
    OBVIOUS
  <2>2. x >= 1
    BY <1>4, <2>1, JoinedIs
  <2>3. x - 1 \in 0..o /\ x - 1 < x
    BY <1>1, <1>4, <2>2
  <2>4. ASSUME NEW y \in (x - 1) + 1..o PROVE Joined(y)
    <3>1. y = x \/ y \in x + 1..o
      BY <1>1, <1>4
    <3> QED
      BY <1>4, <2>1, <3>1
  <2>5. x - 1 \in T
    BY <2>3, <2>4 DEF T
  <2> QED
    BY <1>3, <2>3, <2>5
<1>6. x \in 0..src.size
  BY <1>1, <1>4
<1> QED
  BY <1>4, <1>5, <1>6, <1>b DEF IsLow

LEMMA HighExists == ASSUME Known, NEW i \in Filled PROVE \E x : IsHigh(blocks[i], x)
<1>b. PICK b, o, e, z : b = blocks[i] /\ o = b.off /\ e = EndOf(b) /\ z = src.size
  OBVIOUS
<1>1. o \in Nat /\ e \in Nat /\ z \in Nat /\ o < e /\ e <= z
  BY <1>b, FilledIs
<1> DEFINE T == {t \in 0..z - e : \A y \in o + 1..(z - t) - 1 : Joined(y)}
<1>2. z - e \in T /\ T \subseteq Nat
  <2>1. ASSUME NEW y \in o + 1..(z - (z - e)) - 1 PROVE Joined(y)
    <3>1. o < y /\ y < e
      BY <1>1
    <3> QED
      BY <1>b, <3>1 DEF Joined
  <2>2. z - e \in 0..z - e
    BY <1>1
  <2>3. z - e \in T
    BY <2>1, <2>2
  <2>4. T \subseteq Nat
    BY <1>1
  <2> HIDE DEF T
  <2> QED
    BY <2>3, <2>4
<1> HIDE DEF T
<1>3. PICK t \in T : \A y \in T : ~(y < t)
  <2>1. T # {}
    BY <1>2
  <2> QED
    BY <1>2, <2>1, NatLeast
<1>x. PICK x : x = z - t
  OBVIOUS
<1>4. t \in 0..z - e /\ \A y \in o + 1..x - 1 : Joined(y)
  BY <1>3, <1>x DEF T
<1>5. x \in 0..z /\ x >= e /\ x \in Nat /\ t = z - x
  BY <1>1, <1>4, <1>x
<1>6. ~Joined(x)
  <2>1. SUFFICES ASSUME Joined(x) PROVE FALSE
    OBVIOUS
  <2>2. x + 1 <= z
    BY <1>5, <1>b, <2>1, JoinedIs
  <2>3. t - 1 \in 0..z - e /\ t - 1 < t /\ (z - (t - 1)) - 1 = x
    BY <1>1, <1>4, <1>5, <2>2
  <2>4. ASSUME NEW y \in o + 1..x PROVE Joined(y)
    <3>1. y = x \/ y \in o + 1..x - 1
      BY <1>1, <1>5
    <3> QED
      BY <1>4, <2>1, <3>1
  <2>5. t - 1 \in T
    BY <2>3, <2>4 DEF T
  <2> QED
    BY <1>3, <2>3, <2>5
<1> QED
  BY <1>4, <1>5, <1>6, <1>b DEF IsHigh

LEMMA RangeIs ==
    ASSUME Known, NEW i \in Filled, NEW r, r = RangeOf(blocks[i])
    PROVE  r = <<r[1], r[2]>> /\ IsLow(blocks[i], r[1]) /\ IsHigh(blocks[i], r[2])
<1>b. PICK b : b = blocks[i]
  OBVIOUS
<1> DEFINE lo == CHOOSE x \in 0..src.size : /\ x <= b.off /\ (\A y \in x + 1..b.off : Joined(y)) /\ ~Joined(x)
           hi == CHOOSE x \in 0..src.size : /\ x >= EndOf(b) /\ (\A y \in b.off + 1..x - 1 : Joined(y)) /\ ~Joined(x)
<1>1. IsLow(b, lo)
  <2>1. \E x : IsLow(b, x)
    BY <1>b, LowExists
  <2> QED
    BY <2>1 DEF IsLow
<1>2. IsHigh(b, hi)
  <2>1. \E x : IsHigh(b, x)
    BY <1>b, HighExists
  <2> QED
    BY <2>1 DEF IsHigh
<1>3. r = <<lo, hi>>
  BY <1>b DEF RangeOf
<1> HIDE DEF lo, hi
<1> QED
  BY <1>1, <1>2, <1>3, <1>b

LEMMA PieceIs ==
    ASSUME Known, NEW i \in Filled, NEW r, r = PieceOf(blocks[i])
    PROVE  /\ r = <<r[1], r[2]>> /\ r[1] \in Nat /\ r[2] \in Nat /\ r[2] <= src.size
           /\ r[1] <= blocks[i].off /\ EndOf(blocks[i]) <= r[2] /\ r[1] < r[2]
           /\ \E j \in Filled : r[2] <= EndOf(blocks[j])
<1>b. PICK b, o, e : b = blocks[i] /\ o = b.off /\ e = EndOf(b)
  OBVIOUS
<1>1. o \in Nat /\ e \in Nat /\ o < e /\ e <= src.size /\ src.size \in Nat
  BY <1>b, FilledIs
<1>2. CASE Disjoint
  <2>1. r = <<o, e>>
    BY <1>2, <1>b DEF PieceOf
  <2>2. r[1] = o /\ r[2] = e
    BY <2>1
  <2>3. e <= e
    BY <1>1
  <2> QED
    BY <1>1, <1>b, <2>1, <2>2, <2>3
<1>3. CASE ~Disjoint
  <2>1. r = RangeOf(b)
    BY <1>3, <1>b DEF PieceOf
  <2>2. r = <<r[1], r[2]>> /\ IsLow(b, r[1]) /\ IsHigh(b, r[2])
    BY <1>b, <2>1, RangeIs
  <2>p. PICK lo, hi : lo = r[1] /\ hi = r[2]
    OBVIOUS
  <2>3. lo \in 0..src.size /\ lo <= o
    BY <1>b, <2>2, <2>p DEF IsLow
  <2>4. hi \in 0..src.size /\ hi >= e /\ \A y \in o + 1..hi - 1 : Joined(y)
    BY <1>b, <2>2, <2>p DEF IsHigh
  <2>5. lo \in Nat /\ hi \in Nat /\ lo < hi /\ hi <= src.size /\ e <= hi
    BY <1>1, <2>3, <2>4
  <2>6. \E j \in Filled : hi <= EndOf(blocks[j])
    <3>1. CASE hi = e
      <4>1. hi <= EndOf(blocks[i])
        BY <1>1, <1>b, <3>1
      <4> QED
        BY <4>1
    <3>2. CASE hi # e
      <4>1. hi - 1 \in o + 1..hi - 1 /\ hi - 1 \in Nat
        BY <1>1, <2>5, <3>2
      <4>2. Joined(hi - 1)
        BY <2>4, <4>1
      <4>3. PICK j \in Filled : hi - 1 < EndOf(blocks[j])
        BY <4>1, <4>2, JoinedIs
      <4>4. EndOf(blocks[j]) \in Nat
        BY FilledIs
      <4>5. hi <= EndOf(blocks[j])
        BY <2>5, <4>3, <4>4
      <4> QED
        BY <4>5
    <3> QED
      BY <3>1, <3>2
  <2> QED
    BY <1>b, <2>2, <2>3, <2>5, <2>6, <2>p
<1> QED
  BY <1>2, <1>3

(* Two pieces that share a byte are one.                                   *)
LEMMA PiecesApart ==
    ASSUME Known, NEW i \in Filled, NEW j \in Filled, NEW r, r = PieceOf(blocks[i]), NEW s, s = PieceOf(blocks[j]),
           NEW x \in Int, r[1] <= x, x < r[2], s[1] <= x, x < s[2]
    PROVE  r = s
<1>b. PICK lo, hi, l2, h2 : lo = r[1] /\ hi = r[2] /\ l2 = s[1] /\ h2 = s[2]
  OBVIOUS
<1>1. r = <<lo, hi>> /\ lo \in Nat /\ hi \in Nat
  BY <1>b, PieceIs
<1>2. s = <<l2, h2>> /\ l2 \in Nat /\ h2 \in Nat
  BY <1>b, PieceIs
<1>3. lo <= x /\ x < hi /\ l2 <= x /\ x < h2
  BY <1>b
<1>4. CASE Disjoint
  <2>1. lo = blocks[i].off /\ hi = EndOf(blocks[i]) /\ l2 = blocks[j].off /\ h2 = EndOf(blocks[j])
    BY <1>4, <1>b DEF PieceOf
  <2>2. i \in Nat /\ j \in Nat
    BY FilledIs
  <2>3. ~(i < j)
    <3>1. i < j => hi <= l2
      BY <1>4, <2>1 DEF Disjoint
    <3> QED
      BY <1>1, <1>2, <1>3, <3>1
  <2>4. ~(j < i)
    <3>1. j < i => h2 <= lo
      BY <1>4, <2>1 DEF Disjoint
    <3> QED
      BY <1>1, <1>2, <1>3, <3>1
  <2>5. i = j
    BY <2>2, <2>3, <2>4
  <2> QED
    BY <2>5
<1>5. CASE ~Disjoint
  <2>o. PICK o, e, p, f : o = blocks[i].off /\ e = EndOf(blocks[i]) /\ p = blocks[j].off /\ f = EndOf(blocks[j])
    OBVIOUS
  <2>1. r = RangeOf(blocks[i]) /\ s = RangeOf(blocks[j])
    BY <1>5 DEF PieceOf
  <2>2. IsLow(blocks[i], lo) /\ IsHigh(blocks[i], hi)
    BY <1>b, <2>1, RangeIs
  <2>3. IsLow(blocks[j], l2) /\ IsHigh(blocks[j], h2)
    BY <1>b, <2>1, RangeIs
  <2>4. /\ ~Joined(lo) /\ ~Joined(hi) /\ (\A y \in lo + 1..o : Joined(y)) /\ (\A y \in o + 1..hi - 1 : Joined(y))
        /\ lo <= o /\ hi >= e
    BY <2>2, <2>o DEF IsLow, IsHigh
  <2>5. /\ ~Joined(l2) /\ ~Joined(h2) /\ (\A y \in l2 + 1..p : Joined(y)) /\ (\A y \in p + 1..h2 - 1 : Joined(y))
        /\ l2 <= p /\ h2 >= f
    BY <2>3, <2>o DEF IsLow, IsHigh
  <2>6. o \in Nat /\ p \in Nat
    BY <2>o, FilledIs
  <2>7. \A y \in lo + 1..hi - 1 : Joined(y)
    BY <1>1, <2>4, <2>6
  <2>8. \A y \in l2 + 1..h2 - 1 : Joined(y)
    BY <1>2, <2>5, <2>6
  <2>9. lo = l2
    <3>1. ~(lo < l2)
      <4>1. lo < l2 => l2 \in lo + 1..hi - 1
        BY <1>1, <1>2, <1>3
      <4> QED
        BY <2>5, <2>7, <4>1
    <3>2. ~(l2 < lo)
      <4>1. l2 < lo => lo \in l2 + 1..h2 - 1
        BY <1>1, <1>2, <1>3
      <4> QED
        BY <2>4, <2>8, <4>1
    <3> QED
      BY <1>1, <1>2, <3>1, <3>2
  <2>10. hi = h2
    <3>1. ~(hi < h2)
      <4>1. hi < h2 => hi \in l2 + 1..h2 - 1
        BY <1>1, <1>2, <1>3
      <4> QED
        BY <2>4, <2>8, <4>1
    <3>2. ~(h2 < hi)
      <4>1. h2 < hi => h2 \in lo + 1..hi - 1
        BY <1>1, <1>2, <1>3
      <4> QED
        BY <2>5, <2>7, <4>1
    <3> QED
      BY <1>1, <1>2, <3>1, <3>2
  <2> QED
    BY <1>1, <1>2, <2>9, <2>10
<1> QED
  BY <1>4, <1>5

(* The pieces of the first n blocks: each once, and one for each block.    *)
PiecesOK(ps, n) ==
    /\ IsList(ps) /\ \A a \in 1..Len(ps) : \A b \in 1..Len(ps) : ps[a] = ps[b] => a = b
    /\ \A a \in 1..Len(ps) : \E i \in Filled : ps[a] = PieceOf(blocks[i])
    /\ \A i \in Filled : i <= n => \E a \in 1..Len(ps) : ps[a] = PieceOf(blocks[i])
PieceTaken(ps, i) ==
    IF blocks[i].len = 0 THEN ps
    ELSE IF \E a \in DOMAIN ps : ps[a] = PieceOf(blocks[i]) THEN ps
    ELSE Append(ps, PieceOf(blocks[i]))

LEMMA PieceTakenIs ==
    ASSUME Known, NEW n \in 1..Len(blocks), NEW ps, PiecesOK(ps, n - 1)
    PROVE  PiecesOK(PieceTaken(ps, n), n)
<1>p. PICK r, l : r = PieceOf(blocks[n]) /\ l = Len(ps)
  OBVIOUS
<1>1. /\ IsList(ps) /\ DOMAIN ps = 1..l /\ l \in Nat /\ n \in Nat
      /\ \A a \in 1..l : \A b \in 1..l : ps[a] = ps[b] => a = b
      /\ \A a \in 1..l : \E i \in Filled : ps[a] = PieceOf(blocks[i])
      /\ \A i \in Filled : i <= n - 1 => \E a \in 1..l : ps[a] = PieceOf(blocks[i])
  BY <1>p, FilledIs, ListDomain DEF PiecesOK
<1>2. ASSUME NEW i \in Filled, i <= n PROVE i <= n - 1 \/ i = n
  <2>1. i \in Nat
    BY FilledIs
  <2> QED
    BY <1>1, <1>2, <2>1
<1>3. CASE n \notin Filled
  <2>1. blocks[n].len = 0
    <3>1. blocks[n].len \in Nat /\ ~(blocks[n].len > 0)
      BY <1>3, FilledIs DEF FilledOK
    <3> QED
      BY <3>1
  <2>2. PieceTaken(ps, n) = ps
    BY <2>1 DEF PieceTaken
  <2>3. \A i \in Filled : i <= n => \E a \in 1..l : ps[a] = PieceOf(blocks[i])
    BY <1>1, <1>2, <1>3
  <2> QED
    BY <1>1, <1>p, <2>2, <2>3 DEF PiecesOK
<1>4. CASE n \in Filled /\ \E a \in 1..l : ps[a] = r
  <2>1. blocks[n].len # 0
    <3>1. blocks[n].len \in Nat /\ blocks[n].len > 0
      BY <1>4, FilledIs DEF FilledOK
    <3> QED
      BY <3>1
  <2>2. PieceTaken(ps, n) = ps
    BY <1>1, <1>4, <1>p, <2>1 DEF PieceTaken
  <2>3. \A i \in Filled : i <= n => \E a \in 1..l : ps[a] = PieceOf(blocks[i])
    BY <1>1, <1>2, <1>4, <1>p
  <2> QED
    BY <1>1, <1>p, <2>2, <2>3 DEF PiecesOK
<1>5. CASE n \in Filled /\ ~\E a \in 1..l : ps[a] = r
  <2>1. blocks[n].len # 0
    <3>1. blocks[n].len \in Nat /\ blocks[n].len > 0
      BY <1>5, FilledIs DEF FilledOK
    <3> QED
      BY <3>1
  <2>t. PICK t : t = Append(ps, r)
    OBVIOUS
  <2>2. PieceTaken(ps, n) = t
    BY <1>1, <1>5, <1>p, <2>1, <2>t DEF PieceTaken
  <2>3. IsList(t) /\ Len(t) = l + 1 /\ (\A a \in 1..l : t[a] = ps[a]) /\ t[l + 1] = r
    BY <1>1, <1>p, <2>t, AppendList
  <2>4. \A a \in 1..l + 1 : a \in 1..l \/ a = l + 1
    BY <1>1
  <2>5. \A a \in 1..l : a \in 1..l + 1
    BY <1>1
  <2>6. l + 1 \in 1..l + 1
    BY <1>1
  <2>7. ASSUME NEW a \in 1..l + 1, NEW b \in 1..l + 1, t[a] = t[b] PROVE a = b
    <3>1. CASE a \in 1..l /\ b \in 1..l
      BY <1>1, <2>3, <2>7, <3>1
    <3>2. CASE a \in 1..l /\ b = l + 1
      BY <1>5, <2>3, <2>7, <3>2
    <3>3. CASE a = l + 1 /\ b \in 1..l
      BY <1>5, <2>3, <2>7, <3>3
    <3> QED
      BY <2>4, <3>1, <3>2, <3>3
  <2>8. ASSUME NEW a \in 1..l + 1 PROVE \E i \in Filled : t[a] = PieceOf(blocks[i])
    BY <1>1, <1>5, <1>p, <2>3, <2>4
  <2>9. ASSUME NEW i \in Filled, i <= n PROVE \E a \in 1..l + 1 : t[a] = PieceOf(blocks[i])
    <3>1. CASE i <= n - 1
      <4>1. PICK a \in 1..l : ps[a] = PieceOf(blocks[i])
        BY <1>1, <3>1
      <4> QED
        BY <2>3, <2>5, <4>1
    <3>2. CASE i = n
      BY <1>p, <2>3, <2>6, <3>2
    <3> QED
      BY <1>2, <2>9, <3>1, <3>2
  <2> QED
    BY <2>2, <2>3, <2>7, <2>8, <2>9 DEF PiecesOK
<1> QED
  BY <1>3, <1>4, <1>5

LEMMA PiecesAre == ASSUME Known PROVE PiecesOK(Pieces, Len(blocks))
<1>N. PICK n : n = Len(blocks)
  OBVIOUS
<1>1. n \in Nat
  BY <1>N, FilledIs
<1> DEFINE P == {PieceOf(blocks[j]) : j \in 1..n}
           S == Seq(P)
           Rule(f) == f = [i \in 0..n |-> IF i = 0 THEN <<>> ELSE PieceTaken(f[i - 1], i)]
           h == [i \in 1..n |-> [v \in S |-> PieceTaken(v, i)]]
           up == CHOOSE f : Rule(f)
<1>3. ASSUME NEW i \in 1..n, NEW v \in S PROVE PieceTaken(v, i) \in S
  <2>1. PieceOf(blocks[i]) \in P
    OBVIOUS
  <2> HIDE DEF P
  <2>2. Append(v, PieceOf(blocks[i])) \in S
    BY <2>1, AppendProperties
  <2> QED
    BY <2>2 DEF PieceTaken
<1>e. <<>> \in S
  OBVIOUS
<1> HIDE DEF S
<1>4. h \in [1..n -> [S -> S]] /\ \A i \in 1..n, v \in S : h[i][v] = PieceTaken(v, i)
  BY <1>3
<1> HIDE DEF h
<1>5. PICK g : Steps(g, n, S, <<>>, h)
  BY <1>1, <1>4, <1>e, Recursion
<1>6. g \in [0..n -> S] /\ g[0] = <<>> /\ \A i \in 1..n : g[i] = h[i][g[i - 1]]
  BY <1>5 DEF Steps
<1>7. Rule(g)
  <2>1. \A i \in 1..n : i - 1 \in 0..n /\ g[i - 1] \in S
    BY <1>1, <1>6
  <2>2. \A i \in 0..n : i # 0 => i \in 1..n
    BY <1>1
  <2>3. \A i \in 0..n : g[i] = IF i = 0 THEN <<>> ELSE PieceTaken(g[i - 1], i)
    BY <1>4, <1>6, <2>1, <2>2
  <2>4. g = [i \in 0..n |-> g[i]]
    BY <1>6
  <2> QED
    BY <2>3, <2>4
<1>8. Rule(up)
  BY <1>7
<1>9. Pieces = up[n]
  BY <1>N DEF Pieces, PieceTaken
<1> HIDE DEF up
<1>10. \A i \in 0..n : up[i] = IF i = 0 THEN <<>> ELSE PieceTaken(up[i - 1], i)
  BY <1>8
<1> HIDE DEF Rule
<1> DEFINE T == {i \in 0..n : PiecesOK(up[i], i)}
<1>11. 0 \in T
  <2>1. up[0] = <<>> /\ 0 \in 0..n /\ IsList(<<>>) /\ Len(<<>>) = 0 /\ 1..0 = {}
    BY <1>1, <1>10, EmptyList
  <2>2. \A i \in Filled : ~(i <= 0)
    <3>1. \A i \in Filled : i \in 1..Len(blocks)
      BY FilledIs
    <3> QED
      BY <3>1
  <2>3. PiecesOK(up[0], 0)
    BY <2>1, <2>2 DEF PiecesOK
  <2> QED
    BY <2>1, <2>3
<1>12. ASSUME NEW i \in 1..n, i - 1 \in T PROVE i \in T
  <2>1. PiecesOK(up[i - 1], i - 1) /\ i \in 0..n /\ i # 0
    BY <1>1, <1>12
  <2>2. up[i] = PieceTaken(up[i - 1], i)
    BY <1>10, <2>1
  <2>3. PiecesOK(up[i], i)
    BY <1>N, <2>1, <2>2, PieceTakenIs
  <2> QED
    BY <2>1, <2>3
<1> HIDE DEF T
<1>13. \A i \in 0..n : i \in T
  BY <1>1, <1>11, <1>12, UpTo
<1>14. n \in T
  BY <1>1, <1>13
<1> QED
  BY <1>9, <1>14, <1>N DEF T

LEMMA EndsAre ==
    ASSUME NEW start \in Nat, NEW ps, Len(ps) \in Nat,
           \A j \in 1..Len(ps) : ps[j][1] \in Nat /\ ps[j][2] \in Nat /\ ps[j][1] < ps[j][2],
           NEW end, end = Lengths(start, ps)
    PROVE  /\ end[0] = start /\ \A j \in 0..Len(ps) : end[j] \in Nat
           /\ \A j \in 1..Len(ps) : end[j] = end[j - 1] + ps[j][2] - ps[j][1]
           /\ \A j \in 0..Len(ps) : \A i \in 0..j : end[i] <= end[j]
<1>N. PICK n, d : n = Len(ps) /\ d = [j \in 1..n |-> ps[j][2] - ps[j][1]]
  OBVIOUS
<1>1. n \in Nat /\ \A j \in 1..n : ps[j][1] \in Nat /\ ps[j][2] \in Nat /\ ps[j][1] < ps[j][2]
  BY <1>N
<1>2. \A j \in 1..n : d[j] = ps[j][2] - ps[j][1] /\ d[j] \in Nat
  <2>1. ASSUME NEW j \in 1..n PROVE d[j] = ps[j][2] - ps[j][1] /\ d[j] \in Nat
    <3>p. PICK x, y : x = ps[j][1] /\ y = ps[j][2]
      OBVIOUS
    <3>1. x \in Nat /\ y \in Nat /\ x < y
      BY <1>1, <3>p
    <3>2. y - x \in Nat
      BY <3>1
    <3>3. d[j] = y - x
      BY <1>N, <3>p
    <3> QED
      BY <3>2, <3>3, <3>p
  <2> QED
    BY <2>1
<1> DEFINE Rule(f) == f = [i \in 0..n |-> IF i = 0 THEN start ELSE f[i - 1] + ps[i][2] - ps[i][1]]
           h == [i \in 1..n |-> [v \in Nat |-> v + ps[i][2] - ps[i][1]]]
           up == CHOOSE f : Rule(f)
<1>3. ASSUME NEW i \in 1..n, NEW v \in Nat PROVE v + ps[i][2] - ps[i][1] \in Nat /\ v + ps[i][2] - ps[i][1] = v + d[i]
  <2>p. PICK x, y : x = ps[i][1] /\ y = ps[i][2]
    OBVIOUS
  <2>1. x \in Nat /\ y \in Nat /\ x < y /\ d[i] = y - x
    BY <1>1, <1>2, <2>p
  <2>2. v + y - x \in Nat /\ v + y - x = v + d[i]
    BY <2>1
  <2> QED
    BY <2>2, <2>p
<1>4. h \in [1..n -> [Nat -> Nat]] /\ \A i \in 1..n, v \in Nat : h[i][v] = v + ps[i][2] - ps[i][1]
  BY <1>3
<1> HIDE DEF h
<1>5. PICK g : Steps(g, n, Nat, start, h)
  BY <1>1, <1>4, Recursion
<1>6. g \in [0..n -> Nat] /\ g[0] = start /\ \A i \in 1..n : g[i] = h[i][g[i - 1]]
  BY <1>5 DEF Steps
<1>7. Rule(g)
  <2>1. \A i \in 1..n : i - 1 \in 0..n /\ g[i - 1] \in Nat
    BY <1>1, <1>6
  <2>2. \A i \in 0..n : i # 0 => i \in 1..n
    BY <1>1
  <2>3. \A i \in 0..n : g[i] = IF i = 0 THEN start ELSE g[i - 1] + ps[i][2] - ps[i][1]
    BY <1>4, <1>6, <2>1, <2>2
  <2>4. g = [i \in 0..n |-> g[i]]
    BY <1>6
  <2> QED
    BY <2>3, <2>4
<1>8. Rule(up)
  BY <1>7
<1>9. end = up
  BY <1>N DEF Lengths
<1> HIDE DEF up
<1>10. \A i \in 0..n : end[i] = IF i = 0 THEN start ELSE end[i - 1] + ps[i][2] - ps[i][1]
  BY <1>8, <1>9
<1> HIDE DEF Rule
<1>11. end[0] = start
  BY <1>1, <1>10
<1>12. \A i \in 1..n : end[i] = end[i - 1] + ps[i][2] - ps[i][1]
  <2>1. \A i \in 1..n : i \in 0..n /\ i # 0
    BY <1>1
  <2> QED
    BY <1>10, <2>1
<1> DEFINE T == {i \in 0..n : end[i] \in Nat /\ \A j \in 0..i : end[j] \in Nat /\ end[j] <= end[i]}
<1>13. 0 \in T
  BY <1>1, <1>11
<1>14. ASSUME NEW i \in 1..n, i - 1 \in T PROVE i \in T
  <2>e. PICK a, b : a = end[i - 1] /\ b = end[i]
    OBVIOUS
  <2>1. i \in 0..n /\ a \in Nat /\ \A j \in 0..i - 1 : end[j] \in Nat /\ end[j] <= a
    BY <1>1, <1>14, <2>e
  <2>2. b = a + d[i] /\ b \in Nat /\ a <= b
    <3>1. b = a + d[i]
      BY <1>3, <1>12, <2>1, <2>e
    <3>2. d[i] \in Nat
      BY <1>2
    <3> QED
      BY <2>1, <3>1, <3>2
  <2>3. ASSUME NEW j \in 0..i PROVE end[j] \in Nat /\ end[j] <= b
    <3>1. j \in 0..i - 1 \/ j = i
      BY <1>1
    <3>2. CASE j = i
      BY <2>2, <2>e, <3>2
    <3>3. CASE j \in 0..i - 1
      <4>1. end[j] \in Nat /\ end[j] <= a
        BY <2>1, <3>3
      <4> QED
        BY <2>1, <2>2, <4>1
    <3> QED
      BY <3>1, <3>2, <3>3
  <2> QED
    BY <2>1, <2>2, <2>3, <2>e
<1> HIDE DEF T
<1>15. \A i \in 0..n : i \in T
  BY <1>1, <1>13, <1>14, UpTo
<1>16. \A i \in 0..n : end[i] \in Nat /\ \A j \in 0..i : end[j] <= end[i]
  BY <1>15 DEF T
<1> QED
  BY <1>11, <1>12, <1>16, <1>N

LEMMA PiecesFit ==
    ASSUME Known
    PROVE  /\ IsList(Pieces) /\ Len(Pieces) \in Nat
           /\ \A j \in 1..Len(Pieces) :
                /\ Pieces[j] = <<Lo(j), Hi(j)>> /\ Lo(j) \in Nat /\ Hi(j) \in Nat /\ Lo(j) < Hi(j) /\ Hi(j) <= src.size
                /\ \E i \in Filled : Hi(j) <= EndOf(blocks[i])
           /\ \A j \in 1..Len(Pieces) : \A h \in 1..Len(Pieces) : \A x \in Int :
                Lo(j) <= x /\ x < Hi(j) /\ Lo(h) <= x /\ x < Hi(h) => j = h
           /\ \A i \in Filled : \E j \in 1..Len(Pieces) : Lo(j) <= blocks[i].off /\ EndOf(blocks[i]) <= Hi(j)
<1>p. PICK ps, n : ps = Pieces /\ n = Len(ps)
  OBVIOUS
<1>1. /\ IsList(ps) /\ \A a \in 1..n : \A b \in 1..n : ps[a] = ps[b] => a = b
      /\ \A a \in 1..n : \E i \in Filled : ps[a] = PieceOf(blocks[i])
      /\ \A i \in Filled : \E a \in 1..n : ps[a] = PieceOf(blocks[i])
  <2>1. PiecesOK(ps, Len(blocks))
    BY <1>p, PiecesAre
  <2>2. \A i \in Filled : i <= Len(blocks)
    <3>1. \A i \in Filled : i \in 1..Len(blocks)
      BY FilledIs
    <3>2. Len(blocks) \in Nat
      BY FilledIs
    <3> QED
      BY <3>1, <3>2
  <2> QED
    BY <1>p, <2>1, <2>2 DEF PiecesOK
<1>2. n \in Nat
  BY <1>1, <1>p, ListDomain
<1>3. ASSUME NEW j \in 1..n
      PROVE  /\ ps[j] = <<ps[j][1], ps[j][2]>> /\ ps[j][1] \in Nat /\ ps[j][2] \in Nat
             /\ ps[j][1] < ps[j][2] /\ ps[j][2] <= src.size
             /\ \E i \in Filled : ps[j][2] <= EndOf(blocks[i])
  <2>1. PICK i \in Filled : ps[j] = PieceOf(blocks[i])
    BY <1>1
  <2> QED
    BY <2>1, PieceIs
<1>4. ASSUME NEW j \in 1..n, NEW h \in 1..n, NEW x \in Int,
             ps[j][1] <= x, x < ps[j][2], ps[h][1] <= x, x < ps[h][2]
      PROVE  j = h
  <2>1. PICK a \in Filled : ps[j] = PieceOf(blocks[a])
    BY <1>1
  <2>2. PICK b \in Filled : ps[h] = PieceOf(blocks[b])
    BY <1>1
  <2>3. ps[j] = ps[h]
    BY <1>4, <2>1, <2>2, PiecesApart
  <2> QED
    BY <1>1, <2>3
<1>5. ASSUME NEW i \in Filled PROVE \E j \in 1..n : ps[j][1] <= blocks[i].off /\ EndOf(blocks[i]) <= ps[j][2]
  <2>1. PICK j \in 1..n : ps[j] = PieceOf(blocks[i])
    BY <1>1
  <2>2. ps[j][1] <= blocks[i].off /\ EndOf(blocks[i]) <= ps[j][2]
    BY <2>1, PieceIs
  <2> QED
    BY <2>2
<1> QED
  BY <1>1, <1>2, <1>3, <1>4, <1>5, <1>p DEF Lo, Hi

LEMMA PlacesFit ==
    ASSUME Known
    PROVE  /\ OutLen(0) = HeadEnd(Len(all)) /\ OutLen(0) = HeaderLen(SubPlaces)
           /\ \A j \in 0..Len(Pieces) : OutLen(j) \in Nat
           /\ \A j \in 1..Len(Pieces) : Place(j) = OutLen(j - 1) /\ OutLen(j) = OutLen(j - 1) + Hi(j) - Lo(j)
           /\ \A j \in 0..Len(Pieces) : \A i \in 0..j : OutLen(i) <= OutLen(j)
<1>p. PICK ps, start, end : ps = Pieces /\ start = HeaderLen(SubPlaces) /\ end = Lengths(start, ps)
  OBVIOUS
<1>1. start = HeadEnd(Len(all)) /\ start \in Nat
  <2>1. Len(all) \in 0..Len(all)
    <3>1. Len(all) \in Nat
      BY SubLens
    <3> QED
      BY <3>1
  <2> QED
    BY <1>p, <2>1, PlacesAre
<1>2. Len(ps) \in Nat /\ \A j \in 1..Len(ps) : ps[j][1] \in Nat /\ ps[j][2] \in Nat /\ ps[j][1] < ps[j][2]
  BY <1>p, PiecesFit DEF Lo, Hi
<1>3. /\ end[0] = start /\ \A j \in 0..Len(ps) : end[j] \in Nat
      /\ \A j \in 1..Len(ps) : end[j] = end[j - 1] + ps[j][2] - ps[j][1]
      /\ \A j \in 0..Len(ps) : \A i \in 0..j : end[i] <= end[j]
  BY <1>1, <1>2, <1>p, EndsAre
<1> QED
  BY <1>1, <1>3, <1>p DEF OutLen, Place, Hi, Lo

LEMMA CellsIs ==
    ASSUME NEW lo \in Int, NEW hi \in Int, lo <= hi, NEW r, r[1] = lo, r[2] = hi
    PROVE  IsList(Cells(r)) /\ Len(Cells(r)) = hi - lo /\ \A i \in 1..hi - lo : Cells(r)[i] = lo + i - 1
<1>c. PICK c, n : c = Cells(r) /\ n = hi - lo
  OBVIOUS
<1>1. n \in Nat
  BY <1>c
<1>2. c = [i \in 1..n |-> lo + i - 1]
  BY <1>c DEF Cells
<1>3. \A i \in 1..n : c[i] = lo + i - 1
  BY <1>2
<1>4. IsList(c) /\ Len(c) = n
  <2>1. c = [i \in 1..n |-> c[i]]
    BY <1>2
  <2> QED
    BY <1>1, <2>1, MadeList
<1> QED
  BY <1>3, <1>4, <1>c

LEMMA HeaderWritten == ASSUME Known PROVE OutOK(Header, 0) /\ Len(Header) = HeaderLen(SubPlaces)
<1>p. PICK o, n : o = Header /\ n = Len(all)
  OBVIOUS
<1>1. /\ o \in Seq(Int) /\ Len(o) = HeadEnd(n) /\ \A y \in 1..Len(o) : o[y] < 0
      /\ \A i \in 1..n : /\ SubPlaces[i] + SubLen(i) <= HeadEnd(n)
                         /\ \A y \in 1..SubLen(i) : o[SubPlaces[i] + y] = -3 - all[i].at
  BY <1>p, HeaderIs DEF HeaderOK
<1>2. OutLen(0) = HeadEnd(n) /\ OutLen(0) = HeaderLen(SubPlaces)
  BY <1>p, PlacesFit
<1>3. \A i \in 1..n : SubPlaces[i] % 2 = 0 /\ SubPlaces[i] \in Nat
  BY <1>p, PlacesAre
<1>4. HeadOK(o)
  BY <1>1, <1>2, <1>3, <1>p DEF HeadOK
<1>5. IsList(o)
  BY <1>1, SeqIsList
<1>6. \A y \in OutLen(0) + 1..Len(o) : FALSE
  <2>1. OutLen(0) \in Nat
    BY <1>1, <1>2
  <2> QED
    BY <1>1, <1>2, <2>1
<1>7. \A j \in 1..0 : FALSE
  OBVIOUS
<1> QED
  BY <1>1, <1>2, <1>4, <1>5, <1>6, <1>7, <1>p DEF OutOK

LEMMA PieceWritten ==
    ASSUME Known, NEW n \in 1..Len(Pieces), NEW o, OutOK(o, n - 1)
    PROVE  OutOK(o \o Cells(Pieces[n]), n)
<1>p. PICK c, w, lo, hi, l, z : /\ c = Cells(Pieces[n]) /\ w = o \o c /\ lo = Lo(n) /\ hi = Hi(n)
                                /\ l = Len(o) /\ z = OutLen(0)
  <2>1. \E c, lo, hi, l, z : c = Cells(Pieces[n]) /\ lo = Lo(n) /\ hi = Hi(n) /\ l = Len(o) /\ z = OutLen(0)
    OBVIOUS
  <2> QED
    BY <2>1
<1>1. /\ IsList(o) /\ l = OutLen(n - 1) /\ HeadOK(o)
      /\ \A j \in 1..n - 1 : \A x \in Lo(j)..Hi(j) - 1 : /\ Place(j) + x - Lo(j) + 1 \in 1..l
                                                         /\ o[Place(j) + x - Lo(j) + 1] = x
      /\ \A y \in z + 1..l : \E j \in 1..n - 1 : o[y] \in Lo(j)..Hi(j) - 1 /\ y = Place(j) + o[y] - Lo(j) + 1
  BY <1>p DEF OutOK
<1>2. lo \in Nat /\ hi \in Nat /\ lo < hi /\ n \in Nat /\ n # 0 /\ n - 1 \in 0..Len(Pieces) /\ n \in 0..Len(Pieces)
  <2>1. lo \in Nat /\ hi \in Nat /\ lo < hi
    BY <1>p, PiecesFit
  <2>2. Len(Pieces) \in Nat
    BY PiecesFit
  <2> QED
    BY <2>1, <2>2
<1>3. Place(n) = l /\ l \in Nat /\ OutLen(n) = l + hi - lo /\ z \in Nat /\ z <= l
  <2>1. Place(n) = OutLen(n - 1) /\ OutLen(n) = OutLen(n - 1) + Hi(n) - Lo(n)
    BY PlacesFit
  <2>2. 0 \in 0..n - 1 /\ 0 \in 0..Len(Pieces)
    BY <1>2
  <2>3. OutLen(n - 1) \in Nat /\ OutLen(0) \in Nat /\ OutLen(0) <= OutLen(n - 1)
    BY <1>2, <2>2, PlacesFit
  <2> QED
    BY <1>1, <1>p, <2>1, <2>3
<1>4. IsList(c) /\ Len(c) = hi - lo /\ \A i \in 1..hi - lo : c[i] = lo + i - 1
  <2>1. Pieces[n][1] = lo /\ Pieces[n][2] = hi /\ lo <= hi
    BY <1>2, <1>p DEF Lo, Hi
  <2>2. lo \in Int /\ hi \in Int
    BY <1>2
  <2>r. PICK r : r = Pieces[n]
    OBVIOUS
  <2>3. r[1] = lo /\ r[2] = hi /\ c = Cells(r)
    BY <1>p, <2>1, <2>r
  <2> QED
    BY <2>1, <2>2, <2>3, CellsIs
<1>d. PICK d : d = hi - lo
  OBVIOUS
<1>5. /\ IsList(w) /\ Len(w) = l + d /\ d \in Nat
      /\ \A i \in 1..l : w[i] = o[i]
      /\ \A i \in 1..d : w[l + i] = lo + i - 1
  <2>1. /\ IsList(w) /\ Len(w) = Len(o) + Len(c)
        /\ \A i \in 1..Len(o) : w[i] = o[i]
        /\ \A i \in 1..Len(c) : w[Len(o) + i] = c[i]
    <3>1. IsList(o) /\ IsList(c) /\ w = o \o c
      BY <1>1, <1>4, <1>p
    <3> QED
      BY <3>1, ConcatList
  <2>2. Len(c) = d /\ Len(o) = l /\ \A i \in 1..d : c[i] = lo + i - 1
    BY <1>4, <1>d, <1>p
  <2>3. d \in Nat
    BY <1>2, <1>d
  <2> QED
    BY <2>1, <2>2, <2>3
<1>6. Len(w) = OutLen(n)
  BY <1>2, <1>3, <1>5, <1>d
<1>7. HeadOK(w)
  <2>1. \A y \in 1..z : y \in 1..l
    BY <1>3
  <2>2. \A y \in 1..z : w[y] = o[y]
    BY <1>5, <2>1
  <2>3. ASSUME NEW i \in 1..Len(all), NEW y \in 1..SubLen(i) PROVE SubPlaces[i] + y \in 1..z
    <3>1. SubPlaces[i] \in Nat /\ SubPlaces[i] + SubLen(i) <= z
      BY <1>1, <1>p DEF HeadOK
    <3>2. SubLen(i) \in Nat
      BY SubLens
    <3> QED
      BY <1>3, <3>1, <3>2
  <2> QED
    BY <1>1, <1>p, <2>2, <2>3 DEF HeadOK
<1>8. ASSUME NEW j \in 1..n, NEW x \in Lo(j)..Hi(j) - 1
      PROVE  Place(j) + x - Lo(j) + 1 \in 1..Len(w) /\ w[Place(j) + x - Lo(j) + 1] = x
  <2>1. CASE j = n
    <3>i. PICK i : i = x - lo + 1
      OBVIOUS
    <3>1. i \in 1..d /\ Place(j) + x - Lo(j) + 1 = l + i /\ lo + i - 1 = x
      <4>1. Place(j) = l /\ Lo(j) = lo /\ x \in lo..hi - 1
        BY <1>3, <1>p, <2>1
      <4>2. i \in 1..d /\ l + x - lo + 1 = l + i /\ lo + i - 1 = x
        BY <1>2, <1>3, <1>d, <3>i, <4>1
      <4> QED
        BY <4>1, <4>2
    <3>2. l + i \in 1..l + d
      BY <1>3, <1>5, <3>1
    <3> QED
      BY <1>5, <3>1, <3>2
  <2>2. CASE j # n
    <3>i. PICK i : i = Place(j) + x - Lo(j) + 1
      OBVIOUS
    <3>1. j \in 1..n - 1
      BY <1>2, <2>2
    <3>2. i \in 1..l /\ o[i] = x
      BY <1>1, <3>1, <3>i
    <3>3. i \in 1..l + d
      BY <1>3, <1>5, <3>2
    <3> QED
      BY <1>5, <3>2, <3>3, <3>i
  <2> QED
    BY <2>1, <2>2
<1>9. ASSUME NEW y \in z + 1..Len(w)
      PROVE  \E j \in 1..n : w[y] \in Lo(j)..Hi(j) - 1 /\ y = Place(j) + w[y] - Lo(j) + 1
  <2>1. CASE y <= l
    <3>1. y \in z + 1..l /\ y \in 1..l
      BY <1>3, <1>5, <2>1
    <3>2. PICK j \in 1..n - 1 : o[y] \in Lo(j)..Hi(j) - 1 /\ y = Place(j) + o[y] - Lo(j) + 1
      BY <1>1, <3>1
    <3>3. j \in 1..n /\ w[y] = o[y]
      BY <1>2, <1>5, <3>1
    <3> QED
      BY <3>2, <3>3
  <2>2. CASE ~(y <= l)
    <3>i. PICK i : i = y - l
      OBVIOUS
    <3>1. i \in 1..d /\ y = l + i
      BY <1>3, <1>5, <2>2, <3>i
    <3>2. w[y] = lo + i - 1
      BY <1>5, <3>1
    <3>3. w[y] \in lo..hi - 1 /\ y = l + w[y] - lo + 1
      BY <1>2, <1>3, <1>d, <3>1, <3>2
    <3>4. n \in 1..n
      BY <1>2
    <3> QED
      BY <1>3, <1>p, <3>3, <3>4
  <2> QED
    BY <2>1, <2>2
<1> QED
  BY <1>5, <1>6, <1>7, <1>8, <1>9, <1>p DEF OutOK

-----------------------------------------------------------------------------
(* What is planned and written rests on the file, the blocks and what is   *)
(* carried.                                                                *)
Same == UNCHANGED <<src, blocks, all>>

LEMMA LayoutSame ==
    ASSUME Same
    PROVE  /\ Pieces' = Pieces /\ HeaderLen(SubPlaces)' = HeaderLen(SubPlaces) /\ SubPlaces' = SubPlaces
           /\ BlockPlaces(HeaderLen(SubPlaces), Pieces)' = BlockPlaces(HeaderLen(SubPlaces), Pieces)
           /\ TailStart' = TailStart
<1>0. UNCHANGED <<src, blocks, all>>
  BY DEF Same
<1>1. Pieces' = Pieces
  BY <1>0 DEF Pieces, PieceOf, RangeOf, Filled, Disjoint, EndOf, Joined
<1>2. SubPlaces' = SubPlaces
  BY <1>0 DEF SubPlaces, SubLen, Even
<1>3. HeaderLen(SubPlaces)' = HeaderLen(SubPlaces)
  BY <1>0 DEF SubPlaces, SubLen, Even, HeaderLen
<1>4. Filled' = Filled
  BY <1>0 DEF Filled
<1>5. ASSUME NEW s, NEW p PROVE BlockPlaces(s, p)' = BlockPlaces(s, p)
  BY <1>0, <1>4 DEF BlockPlaces, EndOf, PieceEnds, Over, Ends
<1>6. BlockPlaces(HeaderLen(SubPlaces), Pieces)' = BlockPlaces(HeaderLen(SubPlaces), Pieces)
  BY <1>1, <1>3, <1>5
<1>7. TailStart' = TailStart
  BY <1>0 DEF TailStart, BlocksEnd, EndOf, Ends
<1> QED
  BY <1>1, <1>2, <1>3, <1>6, <1>7

LEMMA OutSame == ASSUME Same, NEW o, NEW n, OutOK(o, n) PROVE OutOK(o, n)'
<1>1. Pieces' = Pieces /\ HeaderLen(SubPlaces)' = HeaderLen(SubPlaces) /\ SubPlaces' = SubPlaces
  BY LayoutSame
<1>2. \A i : SubLen(i)' = SubLen(i)
  BY DEF SubLen, Same
<1>3. \A i : OutLen(i)' = OutLen(i)
  BY <1>1 DEF OutLen, Lengths
<1>4. \A i : Lo(i)' = Lo(i) /\ Hi(i)' = Hi(i)
  BY <1>1 DEF Lo, Hi
<1>5. \A i : Place(i)' = Place(i)
  BY <1>1 DEF Place, Lengths
<1>6. HeadOK(o)'
  BY <1>1, <1>2, <1>3 DEF HeadOK, OutOK, Same
<1> QED
  BY <1>3, <1>4, <1>5, <1>6 DEF OutOK

LEMMA PlanSame == ASSUME Same, UNCHANGED <<to, subTo>>, PlanOK PROVE PlanOK'
BY LayoutSame DEF PlanOK

LEMMA CarriedSame == ASSUME Same, UNCHANGED kids, CarriedOK PROVE CarriedOK'
BY DEF CarriedOK, Same

-----------------------------------------------------------------------------
(* The invariant, phase by phase.                                          *)

IsWritten == \E o \in {SubSeq(out, 1, OutLen(Len(Pieces)))} :
                /\ OutOK(o, Len(Pieces))
                /\ out = IF TailStart >= src.size THEN o ELSE o \o Cells(<<TailStart, src.size>>)
Before == phase \in {"main", "subs", "layout"} /\ out = <<>> /\ to = <<>> /\ subTo = <<>>
OnMain == /\ Before /\ phase = "main" /\ k \in 0..Len(src.main) /\ all = <<>> /\ stack = <<>>
          /\ kids = [m \in 1..Len(src.main) |-> <<>>]
OnSubs == Before /\ phase = "subs" /\ WalkOK
OnLayout == Before /\ phase = "layout" /\ CarriedOK
OnWrite == phase = "write" /\ CarriedOK /\ PlanOK /\ (out # <<>> => k \in 0..Len(Pieces) /\ OutOK(out, k))
OnTail == phase = "tail" /\ CarriedOK /\ PlanOK /\ OutOK(out, Len(Pieces))
OnDone == phase = "done" /\ CarriedOK /\ PlanOK /\ IsWritten
OnFailed == phase = "failed" /\ out = <<>> /\ (to # <<>> \/ subTo # <<>> => ~Contained)
Inv == Known /\ (OnMain \/ OnSubs \/ OnLayout \/ OnWrite \/ OnTail \/ OnDone \/ OnFailed)

LEMMA PlanStep == ASSUME Known, OnLayout, Plan PROVE Inv'
<1>1. phase = "layout" /\ out = <<>> /\ to = <<>> /\ subTo = <<>> /\ CarriedOK
  BY DEF OnLayout, Before
<1>2. CASE Fail
  <2>1. UNCHANGED <<src, blocks, all, to, subTo, out>> /\ phase' = "failed"
    BY <1>2 DEF Fail, walkVars, planVars
  <2> QED
    BY <2>1, <1>1, KnownSame DEF Inv, OnFailed
<1>3. CASE /\ subTo' = SubPlaces /\ to' = BlockPlaces(HeaderLen(SubPlaces), Pieces)
           /\ phase' = "write" /\ UNCHANGED <<src, k, walkVars, out>>
  <2>1. Same /\ UNCHANGED <<src, blocks, all, kids, out>>
    BY <1>3 DEF walkVars, Same
  <2>2. PlanOK'
    BY <1>3, <2>1, LayoutSame DEF PlanOK
  <2>3. CarriedOK' /\ Known'
    BY <1>1, <2>1, CarriedSame, KnownSame
  <2> QED
    BY <1>1, <1>3, <2>1, <2>2, <2>3 DEF Inv, OnWrite
<1> QED
  BY <1>2, <1>3 DEF Plan

LEMMA HeaderStep == ASSUME Known, OnWrite, WriteHeader PROVE Inv'
<1>1. CarriedOK /\ PlanOK /\ Len(Header) = HeaderLen(subTo)
  BY HeaderWritten DEF OnWrite, PlanOK
<1>f. CASE ~Contained
  <2>1. UNCHANGED <<src, blocks, all, to, subTo, out>> /\ phase' = "failed" /\ out = <<>>
    BY <1>f DEF WriteHeader, Fail, walkVars, planVars
  <2>2. Known' /\ ~Contained'
    BY <1>f, <2>1, KnownSame DEF Contained, InFile
  <2> QED
    BY <2>1, <2>2 DEF Inv, OnFailed
<1>g. SUFFICES ASSUME Contained PROVE Inv'
  BY <1>f
<1>2. out' = Header /\ k' = 0 /\ UNCHANGED <<src, phase, walkVars, to, subTo>> /\ phase = "write"
  BY <1>1, <1>g DEF WriteHeader
<1>3. Same /\ UNCHANGED <<src, blocks, all, kids, to, subTo, phase>>
  BY <1>2 DEF walkVars, Same
<1>4. PlanOK' /\ CarriedOK' /\ Known'
  BY <1>1, <1>3, PlanSame, CarriedSame, KnownSame
<1>5. OutOK(out, k)'
  <2>p. PICK o, n : o = out' /\ n = k'
    OBVIOUS
  <2>1. OutOK(o, n)
    BY <2>p, <1>2, HeaderWritten
  <2>2. OutOK(o, n)'
    BY <2>1, <1>3, OutSame
  <2> QED
    BY <2>2, <2>p
<1>6. k' \in 0..Len(Pieces')
  <2>1. Len(Pieces) \in Nat /\ Pieces' = Pieces
    BY <1>3, PiecesFit, LayoutSame
  <2> QED
    BY <2>1, <1>2
<1>7. OnWrite'
  BY <1>2, <1>4, <1>5, <1>6 DEF OnWrite
<1> QED
  BY <1>4, <1>7 DEF Inv

LEMMA PieceStep == ASSUME Known, OnWrite, WritePiece PROVE Inv'
<1>1. CarriedOK /\ PlanOK /\ k \in 0..Len(Pieces) /\ OutOK(out, k) /\ phase = "write"
  BY DEF OnWrite, WritePiece
<1>2. Same /\ UNCHANGED <<src, blocks, all, kids, to, subTo>>
  BY DEF walkVars, Same, WritePiece
<1>3. PlanOK' /\ CarriedOK' /\ Known' /\ Pieces' = Pieces /\ Len(Pieces) \in Nat
  <2>1. PlanOK' /\ CarriedOK' /\ Known'
    BY <1>1, <1>2, PlanSame, CarriedSame, KnownSame
  <2> QED
    BY <1>2, <2>1, LayoutSame, PiecesFit
<1>4. CASE k < Len(Pieces)
  <2>1. out' = out \o Cells(Pieces[k + 1]) /\ k' = k + 1 /\ phase' = phase
    BY <1>4 DEF WritePiece
  <2>p. PICK o, n : o = out' /\ n = k'
    OBVIOUS
  <2>2. n \in 1..Len(Pieces) /\ n - 1 = k /\ n \in 0..Len(Pieces)
    BY <1>1, <1>3, <1>4, <2>1, <2>p
  <2>3. OutOK(out \o Cells(Pieces[n]), n)
    BY <1>1, <2>2, PieceWritten
  <2>4. OutOK(o, n)
    BY <2>1, <2>3, <2>p
  <2>5. OutOK(o, n)'
    BY <1>2, <2>4, OutSame
  <2>6. OnWrite'
    BY <1>1, <1>3, <2>1, <2>2, <2>5, <2>p DEF OnWrite
  <2> QED
    BY <1>3, <2>6 DEF Inv
<1>5. CASE ~(k < Len(Pieces))
  <2>1. out' = out /\ phase' = "tail" /\ k = Len(Pieces)
    BY <1>1, <1>3, <1>5 DEF WritePiece
  <2>p. PICK o, n : o = out' /\ n = Len(Pieces)
    OBVIOUS
  <2>2. OutOK(o, n)
    BY <1>1, <2>1, <2>p
  <2>3. OutOK(o, n)'
    BY <1>2, <2>2, OutSame
  <2>4. OnTail'
    BY <1>3, <2>1, <2>3, <2>p DEF OnTail
  <2> QED
    BY <1>3, <2>4 DEF Inv
<1> QED
  BY <1>4, <1>5

-----------------------------------------------------------------------------
(* Where the tail of the source starts.                                    *)

LEMMA Highest ==
    ASSUME NEW b \in Nat, NEW S \in SUBSET (0..b), S # {}
    PROVE  Ends(S) \in S /\ \A y \in S : y <= Ends(S)
<1> DEFINE T == {b - x : x \in S}
<1>1. T \subseteq Nat /\ T # {}
  <2>1. \A x \in S : x \in 0..b /\ b - x \in Nat
    OBVIOUS
  <2>2. PICK x : x \in S
    OBVIOUS
  <2>3. b - x \in T
    BY <2>2
  <2>4. T \subseteq Nat
    BY <2>1
  <2> QED
    BY <2>3, <2>4
<1> HIDE DEF T
<1>2. PICK t \in T : \A y \in T : ~(y < t)
  BY <1>1, NatLeast
<1>3. PICK x \in S : t = b - x
  BY DEF T
<1>4. ASSUME NEW y \in S PROVE y <= x
  <2>1. b - y \in T
    BY DEF T
  <2>2. ~(b - y < b - x) /\ x \in 0..b /\ y \in 0..b
    BY <1>2, <1>3, <2>1
  <2> QED
    BY <2>2
<1> QED
  BY <1>4 DEF Ends

LEMMA HighestOf ==
    ASSUME NEW n \in Nat, NEW f, \A i \in 1..n : f[i] \in Nat
    PROVE  \E b \in Nat : \A i \in 1..n : f[i] <= b
<1> DEFINE T == {m \in 0..n : \E b \in Nat : \A i \in 1..m : f[i] <= b}
<1>1. 0 \in T
  OBVIOUS
<1>2. ASSUME NEW m \in 1..n, m - 1 \in T PROVE m \in T
  <2>1. PICK b \in Nat : \A i \in 1..m - 1 : f[i] <= b
    BY <1>2
  <2>2. f[m] \in Nat /\ \A i \in 1..m : i \in 1..m - 1 \/ i = m
    OBVIOUS
  <2>3. PICK c \in Nat : b <= c /\ f[m] <= c
    <3>1. b <= b + f[m] /\ f[m] <= b + f[m] /\ b + f[m] \in Nat
      BY <2>2
    <3> QED
      BY <3>1
  <2>4. \A i \in 1..m : f[i] <= c
    BY <2>1, <2>2, <2>3
  <2> QED
    BY <2>4
<1> HIDE DEF T
<1>3. \A m \in 0..n : m \in T
  BY <1>1, <1>2, UpTo
<1>4. n \in T
  BY <1>3
<1> QED
  BY <1>4 DEF T

LEMMA BlocksEndIs ==
    ASSUME Known
    PROVE  BlocksEnd \in Nat /\ \A i \in 1..Len(blocks) : EndOf(blocks[i]) <= BlocksEnd
<1>p. PICK f, n : f = [i \in DOMAIN blocks |-> EndOf(blocks[i])] /\ n = Len(blocks)
  OBVIOUS
<1>1. n \in Nat /\ DOMAIN blocks = 1..n /\ \A i \in 1..n : EndOf(blocks[i]) \in Nat
  <2>1. n \in Nat /\ DOMAIN blocks = 1..n
    BY <1>p, FilledIs
  <2>2. \A i \in 1..n : blocks[i].off \in Nat /\ blocks[i].len \in Nat
    BY <1>p, FilledIs
  <2> QED
    BY <2>1, <2>2 DEF EndOf
<1>2. \A i \in 1..n : f[i] = EndOf(blocks[i]) /\ f[i] \in Nat
  BY <1>1, <1>p
<1>3. PICK b \in Nat : \A i \in 1..n : f[i] <= b
  BY <1>1, <1>2, HighestOf
<1> DEFINE S == {EndOf(blocks[i]) : i \in DOMAIN blocks} \union {0}
<1>4. S \in SUBSET (0..b) /\ S # {}
  BY <1>1, <1>2, <1>3
<1>5. BlocksEnd = Ends(S) /\ \A i \in 1..n : EndOf(blocks[i]) \in S
  BY <1>1 DEF BlocksEnd
<1> HIDE DEF S
<1>6. Ends(S) \in S /\ \A y \in S : y <= Ends(S)
  BY <1>4, Highest
<1>7. Ends(S) \in Nat
  <2>1. \A x \in S : x \in 0..b
    BY <1>4
  <2>2. \A x \in S : x \in Nat
    BY <2>1
  <2> QED
    BY <1>6, <2>2
<1>8. \A i \in 1..n : EndOf(blocks[i]) <= Ends(S)
  BY <1>5, <1>6
<1> QED
  BY <1>5, <1>7, <1>8, <1>p

LEMMA TailStartIs ==
    ASSUME Known, NEW s, s = Ends({BlocksEnd, src.meta})
    PROVE  /\ s \in Nat /\ BlocksEnd <= s /\ src.meta <= s
           /\ TailStart \in Nat /\ BlocksEnd <= TailStart /\ TailStart <= s
<1>1. BlocksEnd \in Nat /\ src.meta \in Nat /\ src.trailer \in Nat
  BY BlocksEndIs DEF Known, IsSource
<1>b. PICK b : b = BlocksEnd + src.meta
  OBVIOUS
<1>2. {BlocksEnd, src.meta} \in SUBSET (0..b) /\ b \in Nat
  BY <1>1, <1>b
<1>3. Ends({BlocksEnd, src.meta}) \in {BlocksEnd, src.meta} /\ \A y \in {BlocksEnd, src.meta} : y <= Ends({BlocksEnd, src.meta})
  BY <1>2, Highest
<1>4. s \in Nat /\ BlocksEnd <= s /\ src.meta <= s
  BY <1>1, <1>3
<1>5. TailStart = IF src.trailer # 0 /\ src.trailer >= BlocksEnd /\ src.trailer < s THEN src.trailer ELSE s
  BY DEF TailStart
<1> QED
  BY <1>1, <1>4, <1>5

(* What was written stays at the front of what is added to.                *)
LEMMA FrontIs ==
    ASSUME NEW o, IsList(o), NEW c, IsList(c)
    PROVE  SubSeq(o \o c, 1, Len(o)) = o
<1>p. PICK w, n, s : w = o \o c /\ n = Len(o) /\ s = SubSeq(w, 1, n)
  <2>1. \E w, n : w = o \o c /\ n = Len(o)
    OBVIOUS
  <2> QED
    BY <2>1
<1>1. /\ IsList(w) /\ Len(w) = n + Len(c) /\ n \in Nat /\ Len(c) \in Nat
      /\ \A i \in 1..n : w[i] = o[i]
  BY <1>p, ConcatList, ListDomain
<1>2. n <= Len(w) /\ n \in Int /\ 1 \in Int /\ 1 >= 1
  BY <1>1
<1>3. /\ IsList(s) /\ Len(s) = IF 1 <= n THEN n - 1 + 1 ELSE 0
      /\ \A i \in 1..n - 1 + 1 : s[i] = w[1 + i - 1]
  <2>1. IsList(w)
    BY <1>1
  <2>2. /\ IsList(SubSeq(w, 1, n)) /\ Len(SubSeq(w, 1, n)) = IF 1 <= n THEN n - 1 + 1 ELSE 0
        /\ \A i \in 1..n - 1 + 1 : SubSeq(w, 1, n)[i] = w[1 + i - 1]
    BY <1>2, <2>1, SubList
  <2> QED
    BY <1>p, <2>2
<1>4. Len(s) = n
  BY <1>1, <1>3
<1>5. ASSUME NEW i \in 1..n PROVE s[i] = o[i]
  <2>1. i \in 1..n - 1 + 1 /\ 1 + i - 1 = i
    BY <1>1
  <2> QED
    BY <1>1, <1>3, <2>1
<1>6. s = o
  BY <1>3, <1>4, <1>5, <1>p, ListEqual
<1> QED
  BY <1>6, <1>p

LEMMA WholeFront == ASSUME NEW o, IsList(o) PROVE SubSeq(o, 1, Len(o)) = o
<1>1. SubSeq(o \o <<>>, 1, Len(o)) = o
  BY FrontIs, EmptyList
<1> QED
  BY <1>1, ConcatEmpty

LEMMA TailIsList ==
    ASSUME Known, ~(TailStart >= src.size), NEW c, c = Cells(<<TailStart, src.size>>)
    PROVE  /\ IsList(c) /\ Len(c) = src.size - TailStart
           /\ \A i \in 1..src.size - TailStart : c[i] = TailStart + i - 1
<1>1. TailStart \in Int /\ src.size \in Int /\ TailStart <= src.size
  <2>1. TailStart \in Nat
    BY TailStartIs
  <2>2. src.size \in Nat
    BY DEF Known, IsSource
  <2> QED
    BY <2>1, <2>2
<1>r. PICK r, lo, hi : r = <<TailStart, src.size>> /\ lo = TailStart /\ hi = src.size
  OBVIOUS
<1>2. r[1] = lo /\ r[2] = hi /\ c = Cells(r) /\ lo \in Int /\ hi \in Int /\ lo <= hi
  BY <1>1, <1>r
<1> QED
  BY <1>2, <1>r, CellsIs

LEMMA TailStep == ASSUME Known, OnTail, WriteTail PROVE Inv'
<1>1. CarriedOK /\ PlanOK /\ OutOK(out, Len(Pieces)) /\ Len(out) = OutLen(Len(Pieces)) /\ IsList(out)
  BY DEF OnTail, OutOK
<1>2. Same /\ UNCHANGED <<src, blocks, all, kids, to, subTo>> /\ phase' = "done"
  BY DEF walkVars, Same, WriteTail
<1>3. PlanOK' /\ CarriedOK' /\ Known' /\ Pieces' = Pieces /\ TailStart' = TailStart /\ src' = src
  BY <1>1, <1>2, PlanSame, CarriedSame, KnownSame, LayoutSame
<1>p. PICK o, n, t : o = out /\ n = Len(Pieces) /\ t = IF TailStart >= src.size THEN o ELSE o \o Cells(<<TailStart, src.size>>)
  <2>1. \E o, n : o = out /\ n = Len(Pieces)
    OBVIOUS
  <2> QED
    BY <2>1
<1>4. out' = t
  BY <1>p DEF WriteTail
<1>5. SubSeq(t, 1, Len(o)) = o
  <2>1. CASE TailStart >= src.size
    BY <1>1, <1>p, <2>1, WholeFront
  <2>2. CASE ~(TailStart >= src.size)
    <3>c. PICK c : c = Cells(<<TailStart, src.size>>)
      OBVIOUS
    <3>1. IsList(c)
      BY <2>2, <3>c, TailIsList
    <3>2. t = o \o c /\ IsList(o)
      BY <1>1, <1>p, <2>2, <3>c
    <3> QED
      BY <3>1, <3>2, FrontIs
  <2> QED
    BY <2>1, <2>2
<1>6. OutOK(o, n)'
  BY <1>1, <1>2, <1>p, OutSame
<1>7. OutLen(n)' = Len(o)
  <2>1. Len(o) = OutLen(n)'
    BY <1>6 DEF OutOK
  <2> QED
    BY <2>1
<1>8. IsWritten'
  <2>1. SubSeq(out', 1, OutLen(Len(Pieces))') = o
    BY <1>3, <1>4, <1>5, <1>7, <1>p
  <2>2. OutOK(o, Len(Pieces))'
    BY <1>3, <1>6, <1>p
  <2>3. out' = IF TailStart' >= src'.size THEN o ELSE o \o Cells(<<TailStart', src'.size>>)
    BY <1>3, <1>4, <1>p
  <2> QED
    BY <2>1, <2>2, <2>3 DEF IsWritten, Cells
<1> QED
  BY <1>2, <1>3, <1>8 DEF Inv, OnDone

LEMMA WalkStutter == ASSUME Known, UNCHANGED vars, OnMain \/ OnSubs \/ OnLayout \/ OnFailed PROVE Inv'
<1>1. UNCHANGED <<src, phase, k, stack, left, all, kids, blocks, to, subTo, out>>
  BY DEF vars
<1>2. Known'
  BY <1>1, KnownSame
<1>3. CASE OnMain
  <2>1. OnMain'
    BY <1>1, <1>3 DEF OnMain, Before
  <2> QED
    BY <1>2, <2>1 DEF Inv
<1>4. CASE OnSubs
  <2>1. OnSubs'
    BY <1>1, <1>4 DEF OnSubs, Before, WalkOK
  <2> QED
    BY <1>2, <2>1 DEF Inv
<1>5. CASE OnLayout
  <2>1. OnLayout'
    BY <1>1, <1>5 DEF OnLayout, Before, CarriedOK
  <2> QED
    BY <1>2, <2>1 DEF Inv
<1>6. CASE OnFailed
  <2>1. OnFailed'
    BY <1>1, <1>6 DEF OnFailed, Contained, InFile
  <2> QED
    BY <1>2, <2>1 DEF Inv
<1> QED
  BY <1>3, <1>4, <1>5, <1>6

LEMMA WriteStutter == ASSUME Known, UNCHANGED vars, OnWrite \/ OnTail \/ OnDone PROVE Inv'
<1>1. UNCHANGED <<src, phase, k, stack, left, all, kids, blocks, to, subTo, out>>
  BY DEF vars
<1>2. Known' /\ Same
  BY <1>1, KnownSame DEF Same
<1>3. CarriedOK' /\ PlanOK' /\ Pieces' = Pieces /\ TailStart' = TailStart
  <2>1. CarriedOK' /\ PlanOK'
    BY <1>1, <1>2, CarriedSame, PlanSame DEF OnWrite, OnTail, OnDone
  <2> QED
    BY <1>2, <2>1, LayoutSame
<1>4. CASE OnWrite
  <2>p. PICK o, n : o = out' /\ n = k'
    OBVIOUS
  <2>1. out # <<>> => OutOK(o, n)'
    BY <1>1, <1>2, <1>4, <2>p, OutSame DEF OnWrite
  <2>2. OnWrite'
    BY <1>1, <1>3, <1>4, <2>1, <2>p DEF OnWrite
  <2> QED
    BY <1>2, <2>2 DEF Inv
<1>5. CASE OnTail
  <2>p. PICK o, n : o = out' /\ n = Len(Pieces)
    OBVIOUS
  <2>1. OutOK(o, n)'
    BY <1>1, <1>2, <1>5, <2>p, OutSame DEF OnTail
  <2>2. OnTail'
    BY <1>1, <1>3, <1>5, <2>1, <2>p DEF OnTail
  <2> QED
    BY <1>2, <2>2 DEF Inv
<1>6. CASE OnDone
  <2>p. PICK o, n : o = SubSeq(out, 1, OutLen(Len(Pieces))) /\ n = Len(Pieces)
    OBVIOUS
  <2>1. OutOK(o, n) /\ out = IF TailStart >= src.size THEN o ELSE o \o Cells(<<TailStart, src.size>>)
    BY <1>6, <2>p DEF OnDone, IsWritten
  <2>2. OutOK(o, n)'
    BY <1>2, <2>1, OutSame
  <2>3. OutLen(n) = Len(o) /\ OutLen(n)' = Len(o)
    <3>1. Len(o) = OutLen(n) /\ Len(o) = OutLen(n)'
      BY <2>1, <2>2 DEF OutOK
    <3> QED
      BY <3>1
  <2>4. SubSeq(out', 1, OutLen(Len(Pieces))') = o
    BY <1>1, <1>3, <2>3, <2>p
  <2>5. OutOK(o, Len(Pieces))'
    BY <1>3, <2>2, <2>p
  <2>6. out' = IF TailStart' >= src'.size THEN o ELSE o \o Cells(<<TailStart', src'.size>>)
    BY <1>1, <1>3, <2>1
  <2>7. IsWritten'
    BY <2>4, <2>5, <2>6 DEF IsWritten, Cells
  <2>8. OnDone'
    BY <1>1, <1>3, <1>6, <2>7 DEF OnDone
  <2> QED
    BY <1>2, <2>8 DEF Inv
<1> QED
  BY <1>4, <1>5, <1>6

LEMMA WalkKept ==
    ASSUME Inv, EnumerateMain \/ MainDone \/ Root \/ Element \/ ArrayDone \/ ChainCut \/ FollowNext \/ WalkDone
    PROVE  Inv'
<1>1. Known
  BY DEF Inv
<1>2. CASE EnumerateMain
  <2>1. OnMain
    BY <1>2 DEF Inv, EnumerateMain, OnSubs, OnLayout, OnWrite, OnTail, OnDone, OnFailed
  <2>2. Known' /\ (phase' = "failed" \/ (phase' = "main" /\ k' \in 0..Len(src.main)))
    BY <1>1, <1>2, <2>1, EnumerateStep DEF OnMain
  <2>3. UNCHANGED <<src, all, stack, kids, out, to, subTo>>
    BY <1>2 DEF EnumerateMain, Fail, walkVars, planVars
  <2>4. CASE phase' = "failed"
    BY <2>1, <2>2, <2>3, <2>4 DEF Inv, OnFailed, OnMain, Before
  <2>5. CASE phase' = "main"
    <3>1. k' \in 0..Len(src'.main)
      BY <2>2, <2>3, <2>5
    <3>2. OnMain'
      BY <2>1, <2>3, <2>5, <3>1 DEF OnMain, Before
    <3> QED
      BY <2>2, <3>2 DEF Inv
  <2> QED
    BY <2>2, <2>4, <2>5
<1>3. CASE MainDone
  <2>1. OnMain
    BY <1>3 DEF Inv, MainDone, OnSubs, OnLayout, OnWrite, OnTail, OnDone, OnFailed
  <2>2. Known' /\ phase' = "subs" /\ WalkOK'
    BY <1>1, <1>3, <2>1, WalkStarts DEF OnMain
  <2>3. UNCHANGED <<out, to, subTo>>
    BY <1>3 DEF MainDone, planVars
  <2>4. OnSubs'
    BY <2>1, <2>2, <2>3 DEF OnMain, OnSubs, Before
  <2> QED
    BY <2>2, <2>4 DEF Inv
<1>4. CASE Root \/ Element \/ ArrayDone \/ ChainCut \/ FollowNext
  <2>1. OnSubs
    BY <1>4 DEF Inv, Root, Element, ArrayDone, ChainCut, FollowNext, OnMain, OnLayout, OnWrite, OnTail, OnDone, OnFailed
  <2>2. Known' /\ (phase' = "failed" \/ (phase' = "subs" /\ WalkOK'))
    BY <1>1, <1>4, <2>1, RootStep, ElementStep, ArrayStep, CutStep, FollowStep DEF OnSubs
  <2>3. UNCHANGED <<out, to, subTo>>
    BY <1>4 DEF Root, Element, ArrayDone, ChainCut, FollowNext, Fail, planVars
  <2>4. CASE phase' = "failed"
    BY <2>1, <2>2, <2>3, <2>4 DEF Inv, OnFailed, OnSubs, Before
  <2>5. CASE phase' = "subs" /\ WalkOK'
    <3>1. OnSubs'
      BY <2>1, <2>3, <2>5 DEF OnSubs, Before
    <3> QED
      BY <2>2, <3>1 DEF Inv
  <2> QED
    BY <2>2, <2>4, <2>5
<1>5. CASE WalkDone
  <2>1. OnSubs
    BY <1>5 DEF Inv, WalkDone, OnMain, OnLayout, OnWrite, OnTail, OnDone, OnFailed
  <2>2. Known' /\ phase' = "layout" /\ CarriedOK'
    BY <1>1, <1>5, <2>1, WalkEnds DEF OnSubs
  <2>3. UNCHANGED <<out, to, subTo>>
    BY <1>5 DEF WalkDone, planVars
  <2>4. OnLayout'
    BY <2>1, <2>2, <2>3 DEF OnLayout, OnSubs, Before
  <2> QED
    BY <2>2, <2>4 DEF Inv
<1> QED
  BY <1>2, <1>3, <1>4, <1>5

LEMMA InvStep == ASSUME Inv, [Next]_vars PROVE Inv'
<1>1. Known
  BY DEF Inv
<1>2. CASE EnumerateMain \/ MainDone \/ Root \/ Element \/ ArrayDone \/ ChainCut \/ FollowNext \/ WalkDone
  BY <1>2, WalkKept
<1>3. CASE Plan
  <2>1. OnLayout
    BY <1>3 DEF Inv, Plan, OnMain, OnSubs, OnWrite, OnTail, OnDone, OnFailed
  <2> QED
    BY <1>1, <1>3, <2>1, PlanStep
<1>4. CASE WriteHeader \/ WritePiece
  <2>1. OnWrite
    BY <1>4 DEF Inv, WriteHeader, WritePiece, OnMain, OnSubs, OnLayout, OnTail, OnDone, OnFailed, Before
  <2> QED
    BY <1>1, <1>4, <2>1, HeaderStep, PieceStep
<1>5. CASE WriteTail
  <2>1. OnTail
    BY <1>5 DEF Inv, WriteTail, OnMain, OnSubs, OnLayout, OnWrite, OnDone, OnFailed, Before
  <2> QED
    BY <1>1, <1>5, <2>1, TailStep
<1>6. CASE UNCHANGED vars
  BY <1>1, <1>6, WalkStutter, WriteStutter DEF Inv
<1> QED
  BY <1>2, <1>3, <1>4, <1>5, <1>6 DEF Next

LEMMA InvInit == ASSUME Init PROVE Inv
<1>1. PICK f \in Sources : Start(f)
  BY DEF Init
<1>2. IsSource(f)
  BY RelocateAssumption
<1>3. Len(f.main) \in Nat /\ DOMAIN f.main = 1..Len(f.main)
  <2>1. f.main \in Seq(Range(f.main))
    BY <1>2 DEF IsSource
  <2> QED
    BY <2>1
<1>4. /\ src = f /\ phase = "main" /\ k = 0 /\ stack = <<>> /\ all = <<>> /\ blocks = <<>>
      /\ kids = [m \in 1..Len(f.main) |-> <<>>] /\ to = <<>> /\ subTo = <<>> /\ out = <<>>
  BY <1>1, <1>3 DEF Start
<1>5. BlocksOK /\ AllOK(src, all)
  <2>1. IsList(<<>>) /\ 1..Len(<<>>) = {}
    BY EmptyList
  <2> QED
    BY <1>4, <2>1 DEF BlocksOK, AllOK
<1>6. OnMain
  BY <1>3, <1>4 DEF OnMain, Before
<1> QED
  BY <1>2, <1>4, <1>5, <1>6 DEF Inv, Known

(* The files, the walk, the plan and the output are as described above in  *)
(* every state, whatever the file is.                                      *)
THEOREM InvHolds == Spec => []Inv
<1>1. Init => Inv
  BY InvInit
<1>2. Inv /\ [Next]_vars => Inv'
  BY InvStep
<1> QED
  BY <1>1, <1>2, PTL DEF Spec

-----------------------------------------------------------------------------
(* What a finished write has put where.                                    *)

OutIs ==
    \E L \in Nat, N \in Nat :
      /\ N = Len(Pieces) /\ L = OutLen(N) /\ IsList(out) /\ HeadOK(out)
      /\ Len(out) = IF TailStart >= src.size THEN L ELSE L + (src.size - TailStart)
      /\ \A j \in 1..N : \A x \in Lo(j)..Hi(j) - 1 : /\ Place(j) + x - Lo(j) + 1 \in 1..L
                                                     /\ out[Place(j) + x - Lo(j) + 1] = x
      /\ \A y \in OutLen(0) + 1..L :
           \E j \in 1..N : out[y] \in Lo(j)..Hi(j) - 1 /\ y = Place(j) + out[y] - Lo(j) + 1
      /\ \A y \in L + 1..Len(out) : out[y] = TailStart + (y - L) - 1

LEMMA HeadGrows ==
    ASSUME Known, NEW o, HeadOK(o), NEW w, \A y \in 1..OutLen(0) : w[y] = o[y]
    PROVE  HeadOK(w)
<1>1. OutLen(0) \in Nat
  <2>1. 0 \in 0..Len(Pieces)
    BY PiecesFit
  <2> QED
    BY <2>1, PlacesFit
<1>2. ASSUME NEW i \in 1..Len(all), NEW y \in 1..SubLen(i) PROVE w[SubPlaces[i] + y] = o[SubPlaces[i] + y]
  <2>1. SubPlaces[i] \in Nat /\ SubPlaces[i] + SubLen(i) <= OutLen(0)
    BY DEF HeadOK
  <2>2. SubLen(i) \in Nat
    BY SubLens
  <2>3. SubPlaces[i] + y \in 1..OutLen(0)
    BY <1>1, <2>1, <2>2
  <2> QED
    BY <2>3
<1> QED
  BY <1>2 DEF HeadOK

LEMMA DoneIs == ASSUME Known, IsWritten PROVE OutIs
<1>p. PICK o, L, N : o = SubSeq(out, 1, OutLen(Len(Pieces))) /\ L = Len(o) /\ N = Len(Pieces)
  <2>1. \E o, N : o = SubSeq(out, 1, OutLen(Len(Pieces))) /\ N = Len(Pieces)
    OBVIOUS
  <2> QED
    BY <2>1
<1>1. OutOK(o, N) /\ out = IF TailStart >= src.size THEN o ELSE o \o Cells(<<TailStart, src.size>>)
  BY <1>p DEF IsWritten
<1>2. /\ IsList(o) /\ L = OutLen(N) /\ HeadOK(o)
      /\ \A j \in 1..N : \A x \in Lo(j)..Hi(j) - 1 : /\ Place(j) + x - Lo(j) + 1 \in 1..L
                                                     /\ o[Place(j) + x - Lo(j) + 1] = x
      /\ \A y \in OutLen(0) + 1..L :
           \E j \in 1..N : o[y] \in Lo(j)..Hi(j) - 1 /\ y = Place(j) + o[y] - Lo(j) + 1
  BY <1>1, <1>p DEF OutOK
<1>3. L \in Nat /\ N \in Nat /\ OutLen(0) \in Nat /\ OutLen(0) <= L
  <2>1. N \in Nat
    BY <1>p, PiecesFit
  <2>2. 0 \in 0..N /\ N \in 0..N
    BY <2>1
  <2> QED
    BY <1>2, <1>p, <2>1, <2>2, PlacesFit
<1>4. TailStart \in Nat /\ src.size \in Nat
  <2>1. TailStart \in Nat
    BY TailStartIs
  <2> QED
    BY <2>1 DEF Known, IsSource
<1>5. /\ IsList(out) /\ Len(out) = IF TailStart >= src.size THEN L ELSE L + (src.size - TailStart)
      /\ \A y \in 1..L : out[y] = o[y]
      /\ \A y \in L + 1..Len(out) : out[y] = TailStart + (y - L) - 1
  <2>1. CASE TailStart >= src.size
    <3>1. out = o /\ IsList(out) /\ Len(out) = L
      BY <1>1, <1>2, <1>p, <2>1
    <3>2. \A y \in L + 1..Len(out) : FALSE
      BY <1>3, <3>1
    <3> QED
      BY <2>1, <3>1, <3>2
  <2>2. CASE ~(TailStart >= src.size)
    <3>p. PICK c, w, d : c = Cells(<<TailStart, src.size>>) /\ w = o \o c /\ d = src.size - TailStart
      <4>1. \E c, d : c = Cells(<<TailStart, src.size>>) /\ d = src.size - TailStart
        OBVIOUS
      <4> QED
        BY <4>1
    <3>1. IsList(c) /\ Len(c) = d /\ \A i \in 1..d : c[i] = TailStart + i - 1
      BY <2>2, <3>p, TailIsList
    <3>2. /\ IsList(w) /\ Len(w) = Len(o) + Len(c)
          /\ \A i \in 1..Len(o) : w[i] = o[i]
          /\ \A i \in 1..Len(c) : w[Len(o) + i] = c[i]
      <4>1. IsList(o) /\ IsList(c) /\ w = o \o c
        BY <1>2, <3>1, <3>p
      <4> QED
        BY <4>1, ConcatList
    <3>3. out = w /\ Len(w) = L + d
      BY <1>1, <1>p, <2>2, <3>1, <3>2, <3>p
    <3>4. \A i \in 1..L : w[i] = o[i]
      BY <1>p, <3>2
    <3>5. \A i \in 1..d : w[L + i] = TailStart + i - 1
      BY <1>p, <3>1, <3>2
    <3>6. ASSUME NEW y \in L + 1..L + d PROVE w[y] = TailStart + (y - L) - 1
      <4>i. PICK i : i = y - L
        OBVIOUS
      <4>1. d \in Nat
        BY <1>4, <2>2, <3>p
      <4>2. i \in 1..d /\ L + i = y
        BY <1>3, <4>1, <4>i
      <4>3. w[L + i] = TailStart + i - 1
        BY <3>5, <4>2
      <4> QED
        BY <4>2, <4>3, <4>i
    <3> QED
      BY <2>2, <3>2, <3>3, <3>4, <3>6, <3>p
  <2> QED
    BY <2>1, <2>2
<1>6. HeadOK(out)
  <2>1. \A y \in 1..OutLen(0) : y \in 1..L
    BY <1>3
  <2>2. \A y \in 1..OutLen(0) : out[y] = o[y]
    BY <1>5, <2>1
  <2> QED
    BY <1>2, <2>2, HeadGrows
<1>7. \A j \in 1..N : \A x \in Lo(j)..Hi(j) - 1 : /\ Place(j) + x - Lo(j) + 1 \in 1..L
                                                  /\ out[Place(j) + x - Lo(j) + 1] = x
  BY <1>2, <1>5
<1>8. ASSUME NEW y \in OutLen(0) + 1..L
      PROVE  \E j \in 1..N : out[y] \in Lo(j)..Hi(j) - 1 /\ y = Place(j) + out[y] - Lo(j) + 1
  <2>1. y \in 1..L
    BY <1>3
  <2>2. out[y] = o[y]
    BY <1>5, <2>1
  <2> QED
    BY <1>2, <2>2
<1> QED
  BY <1>2, <1>3, <1>5, <1>6, <1>7, <1>8, <1>p DEF OutIs

LEMMA CellsAtIs ==
    ASSUME IsList(out), NEW p \in Nat, NEW n \in Nat, p + n <= Len(out),
           NEW c, IsList(c), Len(c) = n, \A i \in 1..n : out[p + i] = c[i]
    PROVE  CellsAt(p, n) = c
<1>s. PICK s, lo, hi : s = SubSeq(out, lo, hi) /\ lo = p + 1 /\ hi = p + n
  <2>1. \E lo, hi : lo = p + 1 /\ hi = p + n
    OBVIOUS
  <2> QED
    BY <2>1
<1>1. lo \in Int /\ hi \in Int /\ lo >= 1 /\ hi <= Len(out)
  BY <1>s
<1>2. /\ IsList(SubSeq(out, lo, hi)) /\ Len(SubSeq(out, lo, hi)) = IF lo <= hi THEN hi - lo + 1 ELSE 0
      /\ \A i \in 1..hi - lo + 1 : SubSeq(out, lo, hi)[i] = out[lo + i - 1]
  BY <1>1, SubList
<1>3. IsList(s) /\ Len(s) = n
  <2>1. Len(s) = IF lo <= hi THEN hi - lo + 1 ELSE 0
    BY <1>2, <1>s
  <2>2. (IF lo <= hi THEN hi - lo + 1 ELSE 0) = n
    BY <1>s
  <2> QED
    BY <1>2, <1>s, <2>1, <2>2
<1>4. ASSUME NEW i \in 1..n PROVE s[i] = c[i]
  <2>1. i \in 1..hi - lo + 1 /\ lo + i - 1 = p + i
    BY <1>s
  <2>2. s[i] = out[p + i]
    BY <1>2, <1>s, <2>1
  <2> QED
    BY <2>2
<1>5. s = c
  BY <1>3, <1>4, ListEqual
<1> QED
  BY <1>5, <1>s DEF CellsAt

-----------------------------------------------------------------------------
(* Every block is where its element says.                                  *)

(* The planned ends, whatever is over.                                     *)
LEMMA PlannedEnds ==
    ASSUME NEW start \in Nat, NEW ps, Len(ps) \in Nat,
           \A j \in 1..Len(ps) : ps[j][1] \in Nat /\ ps[j][2] \in Nat /\ ps[j][1] < ps[j][2],
           NEW end, end = PieceEnds(start, ps)
    PROVE  /\ end[0] = start
           /\ \A j \in 1..Len(ps) : end[j] = IF Over(end[j - 1], ps[j]) THEN end[j - 1]
                                           ELSE end[j - 1] + ps[j][2] - ps[j][1]
<1>N. PICK n : n = Len(ps)
  OBVIOUS
<1>1. n \in Nat /\ \A j \in 1..n : ps[j][1] \in Nat /\ ps[j][2] \in Nat /\ ps[j][1] < ps[j][2]
  BY <1>N
<1> DEFINE After(v, i) == IF Over(v, ps[i]) THEN v ELSE v + ps[i][2] - ps[i][1]
<1>3. ASSUME NEW i \in 1..n, NEW v \in Nat PROVE After(v, i) \in Nat
  <2>p. PICK x, y : x = ps[i][1] /\ y = ps[i][2]
    OBVIOUS
  <2>1. x \in Nat /\ y \in Nat /\ x < y
    BY <1>1, <2>p
  <2>2. v + y - x \in Nat
    BY <2>1
  <2>3. After(v, i) = v \/ After(v, i) = v + y - x
    BY <2>p
  <2> QED
    BY <2>2, <2>3
<1>o. \A v, i : After(v, i) = IF Over(v, ps[i]) THEN v ELSE v + ps[i][2] - ps[i][1]
  OBVIOUS
<1> HIDE DEF After
<1> DEFINE Rule(f) == f = [i \in 0..n |-> IF i = 0 THEN start ELSE After(f[i - 1], i)]
           h == [i \in 1..n |-> [v \in Nat |-> After(v, i)]]
           up == CHOOSE f : Rule(f)
<1>4. h \in [1..n -> [Nat -> Nat]] /\ \A i \in 1..n, v \in Nat : h[i][v] = After(v, i)
  BY <1>3
<1> HIDE DEF h
<1>5. PICK g : Steps(g, n, Nat, start, h)
  BY <1>1, <1>4, Recursion
<1>6. g \in [0..n -> Nat] /\ g[0] = start /\ \A i \in 1..n : g[i] = h[i][g[i - 1]]
  BY <1>5 DEF Steps
<1>7. Rule(g)
  <2>1. \A i \in 1..n : i - 1 \in 0..n /\ g[i - 1] \in Nat
    BY <1>1, <1>6
  <2>2. \A i \in 0..n : i # 0 => i \in 1..n
    BY <1>1
  <2>3. \A i \in 0..n : g[i] = IF i = 0 THEN start ELSE After(g[i - 1], i)
    BY <1>4, <1>6, <2>1, <2>2
  <2>4. g = [i \in 0..n |-> g[i]]
    BY <1>6
  <2> QED
    BY <2>3, <2>4
<1>8. Rule(up)
  BY <1>7
<1>9. end = up
  BY <1>N DEF PieceEnds, After
<1> HIDE DEF up
<1>10. \A i \in 0..n : end[i] = IF i = 0 THEN start ELSE After(end[i - 1], i)
  BY <1>8, <1>9
<1> HIDE DEF Rule
<1>11. end[0] = start
  BY <1>1, <1>10
<1>12. ASSUME NEW i \in 1..n PROVE end[i] = After(end[i - 1], i)
  <2>1. i \in 0..n /\ i # 0
    BY <1>1
  <2> QED
    BY <1>10, <2>1
<1> QED
  BY <1>11, <1>12, <1>o, <1>N

(* A piece holds the blocks that it was made for, and no other does.       *)
HolderOf(b) == CHOOSE i \in DOMAIN Pieces : Lo(i) <= b.off /\ EndOf(b) <= Hi(i)

LEMMA HolderIs ==
    ASSUME Known, NEW n \in Filled
    PROVE  /\ HolderOf(blocks[n]) \in 1..Len(Pieces)
           /\ Lo(HolderOf(blocks[n])) <= blocks[n].off /\ EndOf(blocks[n]) <= Hi(HolderOf(blocks[n]))
           /\ \A j \in 1..Len(Pieces) : Pieces[j] = PieceOf(blocks[n]) => j = HolderOf(blocks[n])
<1>1. DOMAIN Pieces = 1..Len(Pieces)
  <2>1. IsList(Pieces)
    BY PiecesFit
  <2> QED
    BY <2>1, ListDomain
<1>h. PICK h : h = HolderOf(blocks[n])
  OBVIOUS
<1>2. h \in 1..Len(Pieces) /\ Lo(h) <= blocks[n].off /\ EndOf(blocks[n]) <= Hi(h)
  <2>1. \E j \in 1..Len(Pieces) : Lo(j) <= blocks[n].off /\ EndOf(blocks[n]) <= Hi(j)
    BY PiecesFit
  <2> QED
    BY <1>1, <1>h, <2>1 DEF HolderOf
<1>3. ASSUME NEW j \in 1..Len(Pieces), Pieces[j] = PieceOf(blocks[n]) PROVE j = h
  <2>x. PICK x, e : x = blocks[n].off /\ e = EndOf(blocks[n])
    OBVIOUS
  <2>1. x \in Nat /\ e \in Nat /\ x < e
    <3>1. blocks[n].off \in Nat /\ blocks[n].len \in Nat /\ blocks[n].len > 0
      BY FilledIs DEF FilledOK
    <3> QED
      BY <2>x, <3>1 DEF EndOf
  <2>2. Lo(j) <= x /\ e <= Hi(j)
    BY <1>3, <2>x, PieceIs DEF Lo, Hi
  <2>3. Lo(h) <= x /\ e <= Hi(h)
    BY <1>2, <2>x
  <2>4. Hi(j) \in Nat /\ Hi(h) \in Nat
    BY <1>2, PiecesFit
  <2>5. x < Hi(j) /\ x < Hi(h) /\ x \in Int
    BY <2>1, <2>2, <2>3, <2>4
  <2> QED
    BY <1>2, <2>2, <2>3, <2>5, PiecesFit
<1> QED
  BY <1>2, <1>3, <1>h

(* When each block has an offset, no piece was over, and the planned ends  *)
(* are those of what is written.                                           *)
LEMMA EndsMet ==
    ASSUME Known, PlanOK, Placed, NEW end, end = PieceEnds(HeaderLen(SubPlaces), Pieces)
    PROVE  \A j \in 0..Len(Pieces) : end[j] = OutLen(j)
<1>N. PICK N, start : N = Len(Pieces) /\ start = HeaderLen(SubPlaces)
  OBVIOUS
<1>1. N \in Nat /\ start \in Nat /\ OutLen(0) = start
  <2>1. Len(Pieces) \in Nat /\ 0 \in 0..Len(Pieces)
    BY PiecesFit
  <2> QED
    BY <1>N, <2>1, PlacesFit
<1>2. /\ end[0] = start
      /\ \A j \in 1..N : end[j] = IF Over(end[j - 1], Pieces[j]) THEN end[j - 1] ELSE end[j - 1] + Hi(j) - Lo(j)
  <2>1. \A j \in 1..N : Pieces[j][1] \in Nat /\ Pieces[j][2] \in Nat /\ Pieces[j][1] < Pieces[j][2]
    BY <1>N, PiecesFit DEF Lo, Hi
  <2>2. /\ end[0] = start
        /\ \A j \in 1..N : end[j] = IF Over(end[j - 1], Pieces[j]) THEN end[j - 1]
                                     ELSE end[j - 1] + Pieces[j][2] - Pieces[j][1]
    BY <1>1, <1>N, <2>1, PlannedEnds
  <2> QED
    BY <2>2 DEF Lo, Hi
<1>3. ASSUME NEW j \in 1..N PROVE ~Over(end[j - 1], Pieces[j])
  <2>1. PICK i \in Filled : Pieces[j] = PieceOf(blocks[i])
    BY <1>N, PiecesAre DEF PiecesOK
  <2>2. i \in DOMAIN blocks
    BY FilledIs
  <2>3. HolderOf(blocks[i]) = j
    BY <1>N, <2>1, HolderIs
  <2>4. to[i] = IF Over(end[HolderOf(blocks[i]) - 1], Pieces[HolderOf(blocks[i])]) THEN MaxOffset
                ELSE end[HolderOf(blocks[i]) - 1] + blocks[i].off - Pieces[HolderOf(blocks[i])][1]
    BY <2>1, <2>2 DEF PlanOK, BlockPlaces, HolderOf, Lo, Hi
  <2>5. to[i] # MaxOffset
    BY <2>2 DEF Placed
  <2> QED
    BY <2>3, <2>4, <2>5
<1> DEFINE T == {j \in 0..N : end[j] = OutLen(j)}
<1>4. 0 \in T
  BY <1>1, <1>2
<1>5. ASSUME NEW j \in 1..N, j - 1 \in T PROVE j \in T
  <2>1. end[j - 1] = OutLen(j - 1) /\ j \in 0..N
    BY <1>1, <1>5
  <2>2. end[j] = end[j - 1] + Hi(j) - Lo(j)
    BY <1>2, <1>3
  <2>3. OutLen(j) = OutLen(j - 1) + Hi(j) - Lo(j)
    BY <1>N, PlacesFit
  <2> QED
    BY <2>1, <2>2, <2>3
<1> HIDE DEF T
<1>6. \A j \in 0..N : j \in T
  BY <1>1, <1>4, <1>5, UpTo
<1> QED
  BY <1>6, <1>N DEF T

LEMMA ToIs ==
    ASSUME Known, PlanOK, Placed, NEW n \in 1..Len(blocks), NEW t, t = to[n]
    PROVE  /\ n \in Filled => \E j \in 1..Len(Pieces) :
                                 /\ Lo(j) <= blocks[n].off /\ EndOf(blocks[n]) <= Hi(j)
                                 /\ t = Place(j) + blocks[n].off - Lo(j)
           /\ n \notin Filled => t \in Nat /\ t <= OutLen(Len(Pieces))
<1>p. PICK N, end : N = Len(Pieces) /\ end = PieceEnds(HeaderLen(SubPlaces), Pieces)
  OBVIOUS
<1>1. N \in Nat /\ n \in DOMAIN blocks /\ \A j \in 0..N : end[j] = OutLen(j)
  BY <1>p, PiecesFit, FilledIs, EndsMet
<1> DEFINE placed == {HolderOf(blocks[j]) : j \in {x \in Filled : x < n}}
<1>2. t = IF n \notin Filled THEN end[Ends(placed \union {0})]
          ELSE IF Over(end[HolderOf(blocks[n]) - 1], Pieces[HolderOf(blocks[n])]) THEN MaxOffset
          ELSE end[HolderOf(blocks[n]) - 1] + blocks[n].off - Pieces[HolderOf(blocks[n])][1]
  BY <1>1, <1>p DEF PlanOK, BlockPlaces, HolderOf, Lo, Hi
<1>3. t # MaxOffset
  BY <1>1 DEF Placed
<1>4. ASSUME n \in Filled
      PROVE  \E j \in 1..N : /\ Lo(j) <= blocks[n].off /\ EndOf(blocks[n]) <= Hi(j)
                             /\ t = Place(j) + blocks[n].off - Lo(j)
  <2>j. PICK j : j = HolderOf(blocks[n])
    OBVIOUS
  <2>1. j \in 1..N /\ Lo(j) <= blocks[n].off /\ EndOf(blocks[n]) <= Hi(j)
    BY <1>4, <1>p, <2>j, HolderIs
  <2>2. t = end[j - 1] + blocks[n].off - Pieces[j][1]
    BY <1>2, <1>3, <1>4, <2>j
  <2>3. j - 1 \in 0..N
    BY <1>1, <2>1
  <2>4. end[j - 1] = Place(j) /\ Pieces[j][1] = Lo(j)
    BY <1>1, <1>p, <2>1, <2>3, PlacesFit DEF Lo
  <2> QED
    BY <2>1, <2>2, <2>4
<1>5. ASSUME n \notin Filled PROVE t \in Nat /\ t <= OutLen(N)
  <2>1. placed \union {0} \in SUBSET (0..N) /\ placed \union {0} # {}
    <3>1. \A i \in Filled : HolderOf(blocks[i]) \in 1..N
      BY <1>p, HolderIs
    <3>2. \A i \in Filled : HolderOf(blocks[i]) \in 0..N
      BY <1>1, <3>1
    <3> QED
      BY <1>1, <3>2
  <2> HIDE DEF placed
  <2>2. Ends(placed \union {0}) \in placed \union {0}
    BY <1>1, <2>1, Highest
  <2>m. PICK m : m = Ends(placed \union {0})
    OBVIOUS
  <2>3. m \in 0..N /\ N \in 0..N
    BY <1>1, <2>1, <2>2, <2>m
  <2>4. t = OutLen(m)
    BY <1>1, <1>2, <1>5, <2>3, <2>m
  <2>5. OutLen(m) \in Nat /\ OutLen(m) <= OutLen(N)
    BY <1>p, <2>3, PlacesFit
  <2> QED
    BY <2>4, <2>5
<1> QED
  BY <1>4, <1>5, <1>p

LEMMA ShortIs == ASSUME NEW t \in Nat, NEW m \in Nat, t <= m PROVE t % (m + 1) = t
OBVIOUS

LEMMA BlockIsLed ==
    ASSUME Known, OutIs, PlanOK, Placed, NEW n \in 1..Len(blocks), Sayable(n)
    PROVE  BlockLeads(n)
<1>1. PICK L \in Nat, N \in Nat :
      /\ N = Len(Pieces) /\ L = OutLen(N) /\ IsList(out)
      /\ Len(out) = IF TailStart >= src.size THEN L ELSE L + (src.size - TailStart)
      /\ \A j \in 1..N : \A x \in Lo(j)..Hi(j) - 1 : /\ Place(j) + x - Lo(j) + 1 \in 1..L
                                                     /\ out[Place(j) + x - Lo(j) + 1] = x
  BY DEF OutIs
<1>p. PICK t, o, l, c : /\ t = to[n] /\ o = blocks[n].off /\ l = blocks[n].len
                        /\ c = Cells(<<blocks[n].off, EndOf(blocks[n])>>)
  OBVIOUS
<1>2. o \in Nat /\ l \in Nat /\ n \in DOMAIN blocks /\ EndOf(blocks[n]) = o + l /\ (n \in Filled <=> l > 0)
  <2>1. o \in Nat /\ l \in Nat /\ n \in DOMAIN blocks
    BY <1>p, FilledIs
  <2> QED
    BY <2>1, <1>p DEF EndOf, Filled
<1>3. IsList(c) /\ Len(c) = l /\ \A i \in 1..l : c[i] = o + i - 1
  <2>r. PICK r, e : r = <<blocks[n].off, EndOf(blocks[n])>> /\ e = o + l
    OBVIOUS
  <2>4. r[1] = o /\ r[2] = e
    BY <1>2, <1>p, <2>r
  <2>5. o \in Int /\ e \in Int /\ o <= e
    BY <1>2, <2>r
  <2>1. r[1] = o /\ r[2] = e /\ o \in Int /\ e \in Int /\ o <= e
    BY <2>4, <2>5
  <2>3. c = Cells(r) /\ e - o = l
    BY <1>2, <1>p, <2>r
  <2>2. IsList(Cells(r)) /\ Len(Cells(r)) = e - o /\ \A i \in 1..e - o : Cells(r)[i] = o + i - 1
    BY <2>1, CellsIs
  <2> QED
    BY <2>2, <2>3
<1>4. L <= Len(out)
  <2>1. TailStart \in Nat /\ src.size \in Nat
    BY TailStartIs DEF Known, IsSource
  <2> QED
    BY <1>1, <2>1
<1>5. /\ l > 0 => \E j \in 1..N : /\ Lo(j) <= o /\ o + l <= Hi(j) /\ t = Place(j) + o - Lo(j)
      /\ ~(l > 0) => t \in Nat /\ t <= L
  <2>1. /\ n \in Filled => \E j \in 1..Len(Pieces) :
                             /\ Lo(j) <= blocks[n].off /\ EndOf(blocks[n]) <= Hi(j)
                             /\ t = Place(j) + blocks[n].off - Lo(j)
        /\ n \notin Filled => t \in Nat /\ t <= OutLen(Len(Pieces))
    BY <1>p, ToIs
  <2> QED
    BY <1>1, <1>2, <1>p, <2>1
<1>6. t \in Nat /\ t + l <= Len(out) /\ \A i \in 1..l : out[t + i] = c[i]
  <2>1. CASE l > 0
    <3>1. PICK j \in 1..N : Lo(j) <= o /\ o + l <= Hi(j) /\ t = Place(j) + o - Lo(j)
      BY <1>5, <2>1
    <3>p. PICK lo, hi, q : lo = Lo(j) /\ hi = Hi(j) /\ q = Place(j)
      OBVIOUS
    <3>2. lo \in Nat /\ hi \in Nat
      BY <1>1, <3>p, PiecesFit
    <3>3. q \in Nat
      <4>1. j - 1 \in 0..N
        BY <1>1
      <4>2. OutLen(j - 1) \in Nat
        BY <1>1, <4>1, PlacesFit
      <4>3. Place(j) = OutLen(j - 1)
        BY <1>1, PlacesFit
      <4> QED
        BY <3>p, <4>2, <4>3
    <3>4. \A x \in lo..hi - 1 : q + x - lo + 1 \in 1..L /\ out[q + x - lo + 1] = x
      BY <1>1, <3>p
    <3>5. lo <= o /\ o + l <= hi /\ t = q + o - lo
      BY <3>1, <3>p
    <3>6. ASSUME NEW i \in 1..l PROVE t + i \in 1..L /\ out[t + i] = c[i]
      <4>x. PICK x : x = o + i - 1
        OBVIOUS
      <4>1. x \in lo..hi - 1 /\ q + x - lo + 1 = t + i
        BY <1>2, <3>2, <3>3, <3>5, <4>x
      <4> QED
        BY <1>3, <3>4, <4>1, <4>x
    <3>7. t \in Nat
      BY <1>2, <3>2, <3>3, <3>5
    <3>8. t + l <= L
      <4>1. l \in 1..l
        BY <1>2, <2>1
      <4>2. t + l \in 1..L
        BY <3>6, <4>1
      <4> QED
        BY <4>2
    <3>9. Len(out) \in Nat
      BY <1>1, ListDomain
    <3> QED
      BY <1>1, <1>2, <1>4, <3>6, <3>7, <3>8, <3>9
  <2>2. CASE ~(l > 0)
    <3>1. l = 0 /\ t \in Nat /\ t <= L /\ Len(out) \in Nat
      BY <1>1, <1>2, <1>5, <2>2, ListDomain
    <3> QED
      BY <1>4, <3>1
  <2> QED
    BY <2>1, <2>2
<1>7. Says(n) = t
  <2>1. blocks[n].wide \/ t <= ShortMax
    BY <1>2, <1>p DEF Sayable
  <2>2. ShortMax \in Nat
    BY RelocateAssumption
  <2>3. ~blocks[n].wide => t % (ShortMax + 1) = t
    BY <1>6, <2>1, <2>2, ShortIs
  <2> QED
    BY <1>p, <2>1, <2>3 DEF Says, SaysMain, SaysSub
<1>8. CellsAt(t, l) = c
  BY <1>1, <1>2, <1>3, <1>6, CellsAtIs
<1> QED
  BY <1>7, <1>8, <1>p DEF BlockLeads

-----------------------------------------------------------------------------
(* Every pointer leads to its SubIFD.                                      *)

LEMMA KidIsLed ==
    ASSUME Known, OutIs, PlanOK, NEW i, NEW p, NEW depth, KidOK(src, all, i, p, depth)
    PROVE  KidLeads(i, p, depth)
<1>1. CASE i = 0
  BY <1>1 DEF KidOK, KidLeads, Readable
<1>2. CASE i # 0
  <2>1. i \in 1..Len(all) /\ all[i].at = p
    BY <1>2 DEF KidOK
  <2>2. IsList(out) /\ HeadOK(out)
    BY DEF OutIs
  <2>p. PICK q, n, w, m : q = SubPlaces[i] /\ n = src.subs[p].len /\ w = -3 - p /\ m = Made(w, n)
    <3>1. \E q, n, w : q = SubPlaces[i] /\ n = src.subs[p].len /\ w = -3 - p
      OBVIOUS
    <3> QED
      BY <3>1
  <2>3. SubLen(i) = n /\ n \in Nat /\ p \in Nat
    <3>1. SubLen(i) = n
      BY <2>1, <2>p DEF SubLen
    <3>2. SubLen(i) \in Nat /\ all[i].at \in Nat
      BY <2>1, SubLens
    <3> QED
      BY <2>1, <3>1, <3>2
  <2>4. /\ q % 2 = 0 /\ q \in Nat /\ q + n <= OutLen(0)
        /\ \A y \in 1..n : out[q + y] = w
    BY <2>1, <2>2, <2>3, <2>p DEF HeadOK
  <2>5. OutLen(0) <= Len(out)
    <3>1. PICK L \in Nat, N \in Nat :
            /\ N = Len(Pieces) /\ L = OutLen(N)
            /\ Len(out) = IF TailStart >= src.size THEN L ELSE L + (src.size - TailStart)
      BY DEF OutIs
    <3>2. TailStart \in Nat /\ src.size \in Nat
      BY TailStartIs DEF Known, IsSource
    <3>3. 0 \in 0..N /\ N \in 0..N
      BY <3>1
    <3>4. OutLen(0) <= L /\ OutLen(0) \in Nat
      BY <3>1, <3>3, PlacesFit
    <3> QED
      BY <3>1, <3>2, <3>4
  <2>6. w \in Int /\ IsList(m) /\ Len(m) = n /\ \A y \in 1..n : m[y] = w
    <3>1. w \in Int
      BY <2>3, <2>p
    <3> QED
      BY <2>3, <2>p, <3>1, MadeIs
  <2>7. CellsAt(q, n) = m
    <3>1. q + n <= Len(out)
      <4>1. Len(out) \in Nat /\ OutLen(0) \in Nat
        <5>1. 0 \in 0..Len(Pieces)
          BY PiecesFit
        <5> QED
          BY <2>2, <5>1, PlacesFit, ListDomain
      <4> QED
        BY <2>3, <2>4, <2>5, <4>1
    <3>2. \A y \in 1..n : out[q + y] = m[y]
      BY <2>4, <2>6
    <3>3. q \in Nat /\ n \in Nat /\ IsList(m) /\ Len(m) = n
      BY <2>3, <2>4, <2>6
    <3> QED
      BY <2>2, <3>1, <3>2, <3>3, CellsAtIs
  <2>8. Pointer(i) = q
    BY <2>p DEF Pointer, PlanOK
  <2>9. LeadsTo(i, p)
    BY <2>1, <2>4, <2>7, <2>8, <2>p DEF LeadsTo
  <2> QED
    BY <1>2, <2>9 DEF KidLeads
<1> QED
  BY <1>1, <1>2

LEMMA SubIFDsAreLed == ASSUME Known, OutIs, PlanOK, CarriedOK PROVE SubIFDsLead
<1>1. /\ DOMAIN src.main = 1..Len(src.main) /\ Len(src.main) \in Nat /\ IsList(all) /\ DOMAIN all = 1..Len(all)
  <2>1. DOMAIN src.main = 1..Len(src.main) /\ Len(src.main) \in Nat
    <3>1. src.main \in Seq(Range(src.main))
      BY DEF Known, IsSource
    <3> QED
      BY <3>1
  <2>2. IsList(all)
    BY DEF Known, AllOK
  <2> QED
    BY <2>1, <2>2, ListDomain
<1>2. /\ \A m \in 1..Len(src.main) : KidsOK(src, all, kids[m], src.main[m].kids, 0)
      /\ \A i \in 1..Len(all) :
           /\ KidsOK(src, all, all[i].kids, src.subs[all[i].at].kids, all[i].depth + 1)
           /\ NextOK(src, all, i)
  BY DEF CarriedOK, DoneOK
<1>3. ASSUME NEW ks, NEW offs, NEW depth, KidsOK(src, all, ks, offs, depth)
      PROVE  Len(ks) = Len(offs) /\ \A j \in DOMAIN ks : KidLeads(ks[j], offs[j], depth)
  <2>1. IsList(ks) /\ Len(ks) = Len(offs) /\ \A j \in 1..Len(ks) : KidOK(src, all, ks[j], offs[j], depth)
    BY <1>3 DEF KidsOK
  <2>2. DOMAIN ks = 1..Len(ks)
    BY <2>1, ListDomain
  <2>3. ASSUME NEW j \in 1..Len(ks) PROVE KidLeads(ks[j], offs[j], depth)
    <3>1. KidOK(src, all, ks[j], offs[j], depth)
      BY <2>1
    <3> QED
      BY <3>1, KidIsLed
  <2> QED
    BY <2>1, <2>2, <2>3
<1>4. \A m \in 1..Len(src.main) :
        /\ Len(kids[m]) = Len(src.main[m].kids)
        /\ \A j \in DOMAIN kids[m] : KidLeads(kids[m][j], src.main[m].kids[j], 0)
  BY <1>2, <1>3
<1>5. ASSUME NEW i \in 1..Len(all)
      PROVE  /\ Len(all[i].kids) = Len(src.subs[all[i].at].kids)
             /\ \A j \in DOMAIN all[i].kids :
                  KidLeads(all[i].kids[j], src.subs[all[i].at].kids[j], all[i].depth + 1)
             /\ \/ KidLeads(all[i].next, src.subs[all[i].at].next, all[i].depth)
                \/ all[i].next = 0 /\ all[i].links = ChainMax
  <2>1. KidsOK(src, all, all[i].kids, src.subs[all[i].at].kids, all[i].depth + 1)
    BY <1>2
  <2>2. /\ Len(all[i].kids) = Len(src.subs[all[i].at].kids)
        /\ \A j \in DOMAIN all[i].kids :
             KidLeads(all[i].kids[j], src.subs[all[i].at].kids[j], all[i].depth + 1)
    BY <1>3, <2>1
  <2>3. NextOK(src, all, i)
    BY <1>2
  <2>4. \/ KidLeads(all[i].next, src.subs[all[i].at].next, all[i].depth)
        \/ all[i].next = 0 /\ all[i].links = ChainMax
    BY <2>3, KidIsLed DEF NextOK
  <2> QED
    BY <2>2, <2>4
<1> QED
  BY <1>1, <1>4, <1>5 DEF SubIFDsLead

-----------------------------------------------------------------------------
(* No byte is copied twice, and the tail is last.                          *)

LEMMA OneCell ==
    ASSUME Known, OutIs, NEW x \in 0..src.size - 1, NEW a \in 1..Len(out), out[a] = x,
           NEW b \in 1..Len(out), out[b] = x
    PROVE  a = b
<1>1. PICK L \in Nat, N \in Nat :
      /\ N = Len(Pieces) /\ L = OutLen(N) /\ IsList(out) /\ HeadOK(out)
      /\ \A y \in OutLen(0) + 1..L :
           \E j \in 1..N : out[y] \in Lo(j)..Hi(j) - 1 /\ y = Place(j) + out[y] - Lo(j) + 1
      /\ \A y \in L + 1..Len(out) : out[y] = TailStart + (y - L) - 1
  BY DEF OutIs
<1>2. src.size \in Nat /\ x \in Nat /\ TailStart \in Nat /\ BlocksEnd \in Nat /\ BlocksEnd <= TailStart
  <2>1. TailStart \in Nat /\ BlocksEnd \in Nat /\ BlocksEnd <= TailStart
    BY TailStartIs, BlocksEndIs
  <2>2. src.size \in Nat
    BY DEF Known, IsSource
  <2> QED
    BY <2>1, <2>2
<1>3. OutLen(0) \in Nat
  <2>1. 0 \in 0..Len(Pieces)
    BY PiecesFit
  <2> QED
    BY <2>1, PlacesFit
<1>l. PICK l, h : l = Len(out) /\ h = OutLen(0)
  OBVIOUS
<1>4. l \in Nat /\ h \in Nat /\ a \in 1..l /\ b \in 1..l
  BY <1>1, <1>3, <1>l, ListDomain
<1>5. ASSUME NEW y \in 1..l, out[y] = x
      PROVE  \/ \E j \in 1..N : Lo(j) <= x /\ x < Hi(j) /\ y = Place(j) + x - Lo(j) + 1
             \/ x = TailStart + (y - L) - 1 /\ y > L
  <2>1. ~(y <= h)
    <3>1. ASSUME y <= h PROVE FALSE
      <4>1. y \in 1..OutLen(0)
        BY <1>4, <1>l, <3>1
      <4>2. out[y] < 0
        BY <1>1, <4>1 DEF HeadOK
      <4> QED
        BY <1>2, <1>5, <4>2
    <3> QED
      BY <3>1
  <2>2. CASE y <= L
    <3>1. y \in OutLen(0) + 1..L
      BY <1>4, <1>l, <2>1, <2>2
    <3>2. PICK j \in 1..N : out[y] \in Lo(j)..Hi(j) - 1 /\ y = Place(j) + out[y] - Lo(j) + 1
      BY <1>1, <3>1
    <3>3. Lo(j) \in Nat /\ Hi(j) \in Nat
      BY <1>1, PiecesFit
    <3>4. x \in Lo(j)..Hi(j) - 1 /\ y = Place(j) + x - Lo(j) + 1
      BY <1>5, <3>2
    <3>5. Lo(j) <= x /\ x < Hi(j)
      BY <1>2, <3>3, <3>4
    <3> QED
      BY <3>4, <3>5
  <2>3. CASE ~(y <= L)
    <3>1. y \in L + 1..Len(out) /\ y > L
      BY <1>4, <1>l, <2>3
    <3>2. out[y] = TailStart + (y - L) - 1
      BY <1>1, <3>1
    <3> QED
      BY <1>5, <3>1, <3>2
  <2> QED
    BY <2>2, <2>3
<1>6. ASSUME NEW j \in 1..N, Lo(j) <= x, x < Hi(j), NEW y \in 1..l, x = TailStart + (y - L) - 1, y > L PROVE FALSE
  <2>1. PICK i \in Filled : Hi(j) <= EndOf(blocks[i])
    BY <1>1, PiecesFit
  <2>2. i \in 1..Len(blocks) /\ EndOf(blocks[i]) \in Nat
    BY FilledIs
  <2>3. EndOf(blocks[i]) <= BlocksEnd
    BY <2>2, BlocksEndIs
  <2>4. Hi(j) \in Nat
    BY <1>1, PiecesFit
  <2>5. x < TailStart
    BY <1>2, <1>6, <2>1, <2>2, <2>3, <2>4
  <2> QED
    BY <1>2, <1>4, <1>6, <2>5
<1>7. ASSUME NEW i \in 1..N, Lo(i) <= x, x < Hi(i), NEW j \in 1..N, Lo(j) <= x, x < Hi(j) PROVE i = j
  BY <1>1, <1>2, <1>7, PiecesFit
<1>8. CASE x = TailStart + (a - L) - 1 /\ a > L
  <2>1. x = TailStart + (b - L) - 1 /\ b > L
    BY <1>4, <1>5, <1>6, <1>8
  <2> QED
    BY <1>2, <1>4, <1>8, <2>1
<1>9. CASE \E j \in 1..N : Lo(j) <= x /\ x < Hi(j) /\ a = Place(j) + x - Lo(j) + 1
  <2>1. PICK i \in 1..N : Lo(i) <= x /\ x < Hi(i) /\ a = Place(i) + x - Lo(i) + 1
    BY <1>9
  <2>2. PICK j \in 1..N : Lo(j) <= x /\ x < Hi(j) /\ b = Place(j) + x - Lo(j) + 1
    <3>1. ~(x = TailStart + (b - L) - 1 /\ b > L)
      BY <1>4, <1>6, <2>1
    <3> QED
      BY <1>4, <1>5, <3>1
  <2>3. i = j
    BY <1>7, <2>1, <2>2
  <2> QED
    BY <2>1, <2>2, <2>3
<1> QED
  BY <1>4, <1>5, <1>8, <1>9

LEMMA TailIsLast ==
    ASSUME Known, OutIs, NEW s, s = Ends({BlocksEnd, src.meta}), s < src.size,
           NEW rest, rest = Cells(<<s, src.size>>)
    PROVE  SubSeq(out, Len(out) - Len(rest) + 1, Len(out)) = rest
<1>1. PICK L \in Nat, N \in Nat :
      /\ IsList(out)
      /\ Len(out) = IF TailStart >= src.size THEN L ELSE L + (src.size - TailStart)
      /\ \A y \in L + 1..Len(out) : out[y] = TailStart + (y - L) - 1
  BY DEF OutIs
<1>p. PICK l, z, t, n : l = Len(out) /\ z = src.size /\ t = TailStart /\ n = z - s
  <2>1. \E l, z, t : l = Len(out) /\ z = src.size /\ t = TailStart
    OBVIOUS
  <2> QED
    BY <2>1
<1>2. z \in Nat /\ s \in Nat /\ t \in Nat /\ t <= s /\ s < z
  <2>1. s \in Nat /\ t \in Nat /\ t <= s
    BY <1>p, TailStartIs
  <2>2. z \in Nat
    BY <1>p DEF Known, IsSource
  <2> QED
    BY <1>p, <2>1, <2>2
<1>3. l = L + (z - t) /\ l \in Nat /\ n \in Nat /\ n <= z - t /\ n > 0
  BY <1>1, <1>2, <1>p
<1>4. IsList(rest) /\ Len(rest) = n /\ \A i \in 1..n : rest[i] = s + i - 1
  <2>r. PICK r, a, b, c : r = <<s, src.size>> /\ a = s /\ b = z /\ c = Cells(r)
    <3>1. \E r, a, b : r = <<s, src.size>> /\ a = s /\ b = z
      OBVIOUS
    <3> QED
      BY <3>1
  <2>1. r[1] = a /\ r[2] = b
    BY <1>p, <2>r
  <2>2. a \in Int /\ b \in Int /\ a <= b
    BY <1>2, <2>r
  <2>3. IsList(Cells(r)) /\ Len(Cells(r)) = b - a /\ \A i \in 1..b - a : Cells(r)[i] = a + i - 1
    BY <2>1, <2>2, CellsIs
  <2>4. b - a = n /\ rest = c
    BY <1>p, <2>r
  <2>5. \A i \in 1..n : c[i] = s + i - 1
    BY <2>3, <2>4, <2>r
  <2> QED
    BY <2>3, <2>4, <2>5, <2>r
<1>u. PICK u, lo : u = SubSeq(out, lo, l) /\ lo = l - n + 1
  <2>1. \E lo : lo = l - n + 1
    OBVIOUS
  <2> QED
    BY <2>1
<1>5. lo \in Int /\ l \in Int /\ lo >= 1 /\ l <= Len(out) /\ lo <= l /\ l - lo + 1 = n
  <2>1. lo = l - n + 1 /\ l = L + (z - t) /\ n <= z - t /\ n > 0 /\ l = Len(out)
    BY <1>3, <1>p, <1>u
  <2>2. lo \in Int /\ lo >= 1 /\ lo <= l /\ l - lo + 1 = n
    BY <1>2, <1>3, <2>1
  <2> QED
    BY <1>3, <2>1, <2>2
<1>6. IsList(u) /\ Len(u) = n /\ \A i \in 1..n : u[i] = out[lo + i - 1]
  <2>1. IsList(out)
    BY <1>1
  <2>2. /\ IsList(SubSeq(out, lo, l)) /\ Len(SubSeq(out, lo, l)) = IF lo <= l THEN l - lo + 1 ELSE 0
        /\ \A i \in 1..l - lo + 1 : SubSeq(out, lo, l)[i] = out[lo + i - 1]
    BY <1>5, <2>1, SubList
  <2> QED
    BY <1>5, <1>u, <2>2
<1>7. ASSUME NEW i \in 1..n PROVE u[i] = rest[i]
  <2>y. PICK y : y = lo + i - 1
    OBVIOUS
  <2>1. y \in L + 1..l /\ t + (y - L) - 1 = s + i - 1
    <3>1. lo = l - n + 1 /\ l = L + (z - t) /\ n = z - s
      BY <1>3, <1>p, <1>u
    <3>2. i \in Nat /\ 1 <= i /\ i <= n
      BY <1>3
    <3>3. y = L + s - t + i
      BY <1>2, <1>3, <2>y, <3>1, <3>2
    <3> QED
      BY <1>2, <1>3, <3>1, <3>2, <3>3
  <2>2. out[y] = t + (y - L) - 1
    BY <1>1, <1>p, <2>1
  <2> QED
    BY <1>4, <1>6, <2>1, <2>2, <2>y
<1>8. u = rest
  BY <1>4, <1>6, <1>7, ListEqual
<1> QED
  BY <1>4, <1>8, <1>p, <1>u

LEMMA AtMostOne == ASSUME NEW S, \A a \in S : \A b \in S : a = b PROVE Cardinality(S) <= 1
<1>1. CASE S = {}
  <2>1. Cardinality(S) = 0
    BY <1>1, FS_EmptySet
  <2> QED
    BY <2>1
<1>2. CASE S # {}
  <2>1. PICK a : a \in S
    BY <1>2
  <2>2. S = {a}
    BY <2>1
  <2>3. Cardinality(S) = 1
    BY <2>2, FS_Singleton
  <2> QED
    BY <2>3
<1> QED
  BY <1>1, <1>2

LEMMA InvRelocated == ASSUME Inv PROVE Relocated
<1>1. phase = "failed" => out = <<>> /\ (to # <<>> \/ subTo # <<>> => ~Contained)
  BY DEF Inv, OnMain, OnSubs, OnLayout, OnWrite, OnTail, OnDone, OnFailed, Before
<1>2. ASSUME phase = "done" PROVE Known /\ CarriedOK /\ PlanOK /\ OutIs
  <2>1. Known /\ OnDone
    BY <1>2 DEF Inv, OnMain, OnSubs, OnLayout, OnWrite, OnTail, OnFailed
  <2> QED
    BY <2>1, DoneIs DEF OnDone
<1>3. ASSUME phase = "done" PROVE BlocksLead
  <2>1. Known /\ PlanOK /\ OutIs
    BY <1>2, <1>3
  <2>2. DOMAIN blocks = 1..Len(blocks)
    BY <2>1, FilledIs
  <2>3. Placed => \A n \in 1..Len(blocks) : Sayable(n) => BlockLeads(n)
    BY <2>1, BlockIsLed
  <2> QED
    BY <2>2, <2>3 DEF BlocksLead
<1>4. ASSUME phase = "done" PROVE SubIFDsLead
  BY <1>2, <1>4, SubIFDsAreLed
<1>5. CopiedOnce
  <2>1. ASSUME phase = "done", NEW x \in 0..src.size - 1 PROVE Cardinality({i \in DOMAIN out : out[i] = x}) <= 1
    <3>1. Known /\ OutIs
      BY <1>2, <2>1
    <3>2. DOMAIN out = 1..Len(out)
      <4>1. IsList(out)
        BY <3>1 DEF OutIs
      <4> QED
        BY <4>1, ListDomain
    <3>3. \A a \in 1..Len(out) : \A b \in 1..Len(out) : out[a] = x /\ out[b] = x => a = b
      BY <3>1, OneCell
    <3>s. PICK S : S = {i \in DOMAIN out : out[i] = x}
      OBVIOUS
    <3>4. \A a \in S : \A b \in S : a = b
      BY <3>2, <3>3, <3>s
    <3> QED
      BY <3>4, <3>s, AtMostOne
  <2>2. ASSUME phase = "done", NEW rest, rest = Cells(<<Ends({BlocksEnd, src.meta}), src.size>>),
               Ends({BlocksEnd, src.meta}) < src.size
        PROVE  SubSeq(out, Len(out) - Len(rest) + 1, Len(out)) = rest
    BY <1>2, <2>2, TailIsLast
  <2> QED
    BY <2>1, <2>2 DEF CopiedOnce
<1> QED
  BY <1>1, <1>3, <1>4, <1>5 DEF Relocated, Leads

(* A finished write has copied every byte once, and each element and each  *)
(* pointer of the output leads to the bytes or to the SubIFD it stood for, *)
(* but for what an offset, or an element of type SHORT, cannot say.  A     *)
(* write that is refused has written nothing, and once it was planned it   *)
(* is refused for a block that is not in the file and for nothing else     *)
(* (relocate.go, relocate_stream.go).                                      *)
THEOREM RelocatedHolds == Spec => []Relocated
<1>1. Inv => Relocated
  BY InvRelocated
<1> QED
  BY <1>1, InvHolds, PTL
=============================================================================
