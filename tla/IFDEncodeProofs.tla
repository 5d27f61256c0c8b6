-------------------------- MODULE IFDEncodeProofs --------------------------
(***************************************************************************)
(* exif.Parse for every stream: any pointers, any counts, any budget.      *)
(* What it builds is well formed, the work stays within the budget, and no *)
(* two IFDs share a slot of the arena.  Then the life of an EXIF value:    *)
(* each Parse, and Encode writing as many bytes as EncodedSize announced.  *)
(***************************************************************************)
EXTENDS IFDEncode, Lists

-----------------------------------------------------------------------------
(* What Parse builds.                                                      *)

IsIFD(x) ==
    /\ x = [of |-> x.of, inline |-> x.inline, vals |-> x.vals, ptr |-> [t \in Pointers |-> x.ptr[t]],
            jif |-> x.jif, thumb |-> x.thumb, strips |-> x.strips, carried |-> x.carried,
            slots |-> x.slots, room |-> x.room]
    /\ x.inline \in Nat /\ x.vals \in Seq(Nat)
    /\ x.jif = None \/ IsData(x.jif)
    /\ x.thumb = None \/ IsData(x.thumb)
    /\ x.strips = None \/ IsStrips(x.strips)
    /\ x.carried = None \/ IsStrips(x.carried)

IsChain(c) == IsList(c) /\ \A i \in 1..Len(c) : IsIFD(c[i])

IsSub(s) == /\ s = [exif |-> s.exif, gps |-> s.gps, interop |-> s.interop]
            /\ \A t \in Pointers : s[t] = None \/ IsIFD(s[t])
IsTree(v) ==
    /\ v = [chain |-> v.chain, exif |-> v.exif, gps |-> v.gps, interop |-> v.interop,
            sub |-> [i \in 1..Len(v.chain) |-> v.sub[i]]]
    /\ IsChain(v.chain)
    /\ \A t \in Pointers : v[t] = None \/ IsIFD(v[t])
    /\ \A i \in 1..Len(v.chain) : IsSub(v.sub[i])

TaskSet(n) == {<<"ifd0">>, <<"exif">>, <<"interop">>, <<"gps">>, <<"strips">>}
                \union {<<"sub", i, t>> : i \in 2..n, t \in Pointers}

LEMMA JunkIs == IsDirectory(Junk)
<1>1. /\ Junk = [of |-> Junk.of, count |-> Junk.count, fits |-> Junk.fits, inline |-> Junk.inline,
                 vals |-> Junk.vals, next |-> Junk.next, ptr |-> [t \in Pointers |-> Junk.ptr[t]],
                 jif |-> Junk.jif, strips |-> Junk.strips]
      /\ Junk.count = 1 /\ Junk.inline = 1 /\ Junk.vals = <<>> /\ Junk.jif = None /\ Junk.strips = None
  BY DEF Junk
<1> QED
  BY <1>1 DEF IsDirectory

LEMMA DirIs == ASSUME IsSource(b), NEW p PROVE IsDirectory(Dir(p))
BY JunkIs DEF IsSource, Dir

(* A thumbnail is taken from the entries of the directory, or dropped.     *)
LEMMA ParsedIs ==
    ASSUME NEW d, IsDirectory(d), NEW dropped, NEW mem
    PROVE  LET x == Parsed(d, dropped, mem)
           IN /\ IsIFD(x) /\ x.slots = {mem.slot} \ {None} /\ x.room = mem.room
              /\ x.thumb = IF dropped \/ ~HasThumb(d) THEN None ELSE d.jif
<1> DEFINE x == Parsed(d, dropped, mem)
<1>1. /\ x = [of |-> x.of, inline |-> x.inline, vals |-> x.vals, ptr |-> x.ptr, jif |-> x.jif,
              thumb |-> x.thumb, strips |-> x.strips, carried |-> x.carried,
              slots |-> x.slots, room |-> x.room]
      /\ x.inline = d.inline /\ x.vals = d.vals /\ x.ptr = d.ptr
      /\ x.jif = (IF dropped THEN None ELSE d.jif)
      /\ x.thumb = (IF dropped \/ ~HasThumb(d) THEN None ELSE d.jif)
      /\ x.strips = d.strips /\ x.carried = None
      /\ x.slots = {mem.slot} \ {None} /\ x.room = mem.room
  BY DEF Parsed
<1>2. d.ptr = [t \in Pointers |-> d.ptr[t]]
  BY DEF IsDirectory
<1> HIDE DEF x
<1>3. x.ptr = [t \in Pointers |-> x.ptr[t]]
  BY <1>1, <1>2
<1> QED
  BY <1>1, <1>3 DEF IsDirectory, IsIFD, x

LEMMA EmptyChain == IsChain(<<>>) /\ Len(<<>>) = 0
BY DEF IsChain, IsList

LEMMA NoTreeIs == IsTree(NoTree)
<1>1. NoTree.sub = <<>> /\ NoTree.chain = <<>>
  BY DEF NoTree
<1> QED
  BY EmptyChain, <1>1 DEF IsTree, NoTree, Pointers, IsChain, IsList

LEMMA NoSubIs == IsSub(NoSub)
BY DEF IsSub, NoSub, Pointers

-----------------------------------------------------------------------------
(* The bytes of thumbnails that a chain carries.                           *)

LEMMA ThumbLenNat == ASSUME NEW x, IsIFD(x) PROVE ThumbLen(x) \in Nat
BY DEF ThumbLen, IsIFD, IsData

LEMMA ThumbsAre ==
    ASSUME NEW c, IsChain(c)
    PROVE  \E f \in [0..Len(c) -> Nat] :
             /\ \A i \in 0..Len(c) : f[i] = IF i <= 1 THEN 0 ELSE f[i - 1] + ThumbLen(c[i])
             /\ CarriedThumbs(c) = f[Len(c)]
<1> DEFINE n == Len(c)
           Rule(f) == f = [i \in 0..n |-> IF i <= 1 THEN 0 ELSE f[i - 1] + ThumbLen(c[i])]
           h == [k \in 1..n |-> [v \in Nat |-> IF k <= 1 THEN 0 ELSE v + ThumbLen(c[k])]]
<1>1. n \in Nat /\ \A k \in 1..n : ThumbLen(c[k]) \in Nat
  BY ThumbLenNat DEF IsChain, IsList
<1>2. h \in [1..n -> [Nat -> Nat]]
  BY <1>1
<1>3. \A k \in 1..n, v \in Nat : h[k][v] = IF k <= 1 THEN 0 ELSE v + ThumbLen(c[k])
  OBVIOUS
<1> HIDE DEF h, n
<1>3a. PICK f : Steps(f, n, Nat, 0, h)
  BY <1>1, <1>2, Recursion
<1>4. f \in [0..n -> Nat] /\ f[0] = 0 /\ \A k \in 1..n : f[k] = h[k][f[k - 1]]
  BY <1>3a DEF Steps
<1>5. \A i \in 0..n : f[i] = IF i <= 1 THEN 0 ELSE f[i - 1] + ThumbLen(c[i])
  <2> SUFFICES ASSUME NEW i \in 1..n
               PROVE  f[i] = IF i <= 1 THEN 0 ELSE f[i - 1] + ThumbLen(c[i])
    BY <1>4
  <2>1. f[i - 1] \in Nat
    BY <1>1, <1>4
  <2> QED
    BY <2>1, <1>3, <1>4
<1>6. Rule(f)
  BY <1>4, <1>5
<1> DEFINE g == CHOOSE g : Rule(g)
<1>7. Rule(g) /\ CarriedThumbs(c) = g[n]
  <2>1. CarriedThumbs(c) = g[n]
    BY DEF CarriedThumbs, n
  <2> QED
    BY <2>1, <1>6
<1> HIDE DEF g
<1>8. \A i \in 0..n : g[i] = IF i <= 1 THEN 0 ELSE g[i - 1] + ThumbLen(c[i])
  BY <1>7
<1> DEFINE T == {k \in 0..n : g[k] \in Nat}
<1>9. 0 \in T /\ \A k \in 1..n : k - 1 \in T => k \in T
  <2> SUFFICES ASSUME NEW k \in 1..n, g[k - 1] \in Nat PROVE g[k] \in Nat
    BY <1>1, <1>8
  <2> QED
    BY <1>1, <1>8
<1> HIDE DEF T
<1>10. \A k \in 0..n : k \in T
  BY <1>9, <1>1, UpTo
<1>11. g \in [0..n -> Nat]
  <2>1. g = [i \in 0..n |-> g[i]]
    BY <1>7
  <2>2. \A k \in 0..n : g[k] \in Nat
    BY <1>10 DEF T
  <2> QED
    BY <2>1, <2>2
<1> QED
  BY <1>11, <1>8, <1>7 DEF n

LEMMA ThumbsGrow ==
    ASSUME NEW c, IsChain(c), NEW x, IsIFD(x)
    PROVE  /\ CarriedThumbs(c) \in Nat /\ IsChain(Append(c, x))
           /\ CarriedThumbs(Append(c, x)) =
                IF c = <<>> THEN 0 ELSE CarriedThumbs(c) + ThumbLen(x)
<1> DEFINE d == Append(c, x)
           n == Len(c)
<1>1. /\ IsList(d) /\ Len(d) = n + 1 /\ \A i \in 1..n : d[i] = c[i]
      /\ d[n + 1] = x /\ n \in Nat
  BY AppendList DEF IsChain, IsList
<1> HIDE DEF d, n
<1>2. IsChain(d)
  BY <1>1 DEF IsChain, n
<1>3. PICK f \in [0..n -> Nat] :
        /\ \A i \in 0..n : f[i] = IF i <= 1 THEN 0 ELSE f[i - 1] + ThumbLen(c[i])
        /\ CarriedThumbs(c) = f[n]
  BY ThumbsAre DEF n
<1>4. PICK g \in [0..n + 1 -> Nat] :
        /\ \A i \in 0..n + 1 : g[i] = IF i <= 1 THEN 0 ELSE g[i - 1] + ThumbLen(d[i])
        /\ CarriedThumbs(d) = g[n + 1]
  BY <1>1, <1>2, ThumbsAre
<1> DEFINE T == {k \in 0..n : f[k] = g[k]}
<1>5. 0 \in T /\ \A k \in 1..n : k - 1 \in T => k \in T
  BY <1>1, <1>3, <1>4
<1> HIDE DEF T
<1>6. n \in T
  <2>1. \A k \in 0..n : k \in T
    BY <1>5, <1>1, UpTo
  <2> QED
    BY <2>1, <1>1
<1>7. c = <<>> <=> n = 0
  BY ListIsSeq, EmptySeq DEF IsChain, n
<1>8. g[n + 1] = IF n + 1 <= 1 THEN 0 ELSE g[n] + ThumbLen(x)
  BY <1>1, <1>4
<1> QED
  BY <1>1, <1>2, <1>3, <1>4, <1>6, <1>7, <1>8 DEF d, T

LEMMA NoThumbs == CarriedThumbs(<<>>) = 0
BY EmptyChain, ThumbsAre

(* Two chains with the same thumbnails.                                    *)
LEMMA ThumbsSame ==
    ASSUME NEW c, IsChain(c), NEW d, IsChain(d), Len(d) = Len(c),
           \A i \in 1..Len(c) : d[i].thumb = c[i].thumb
    PROVE  CarriedThumbs(d) = CarriedThumbs(c)
<1> DEFINE n == Len(c)
<1>1. n \in Nat /\ Len(d) = n /\ \A i \in 1..n : ThumbLen(d[i]) = ThumbLen(c[i])
  BY DEF IsChain, IsList, ThumbLen
<1>2. PICK f \in [0..n -> Nat] :
        /\ \A i \in 0..n : f[i] = IF i <= 1 THEN 0 ELSE f[i - 1] + ThumbLen(c[i])
        /\ CarriedThumbs(c) = f[n]
  BY ThumbsAre
<1>3. PICK g \in [0..n -> Nat] :
        /\ \A i \in 0..n : g[i] = IF i <= 1 THEN 0 ELSE g[i - 1] + ThumbLen(d[i])
        /\ CarriedThumbs(d) = g[n]
  BY ThumbsAre
<1> HIDE DEF n
<1> DEFINE T == {k \in 0..n : f[k] = g[k]}
<1>4. 0 \in T /\ \A k \in 1..n : k - 1 \in T => k \in T
  BY <1>1, <1>2, <1>3
<1> HIDE DEF T
<1>5. \A k \in 0..n : k \in T
  BY <1>4, <1>1, UpTo
<1> QED
  BY <1>1, <1>2, <1>3, <1>5 DEF T

-----------------------------------------------------------------------------
(* The inductive invariant of Parse.                                       *)

(* The IFD0 task is the first, and the Exif IFD, where the arena begins,   *)
(* the next.                                                               *)
TodoOK ==
    /\ todo \in Seq(TaskSet(Len(tree.chain)))
    /\ \A k \in 2..Len(todo) : todo[k] \notin {<<"ifd0">>, <<"exif">>}
    /\ todo # <<>> /\ Head(todo) = <<"ifd0">> => Len(todo) = 1 /\ tree = NoTree
    /\ todo # <<>> /\ Head(todo) = <<"exif">> => \A t \in Pointers : tree[t] = None

WalkOK ==
    walk # None => /\ walk = [task |-> walk.task, cur |-> walk.cur, visited |-> walk.visited,
                              chain |-> walk.chain]
                   /\ todo # <<>> /\ walk.task = Head(todo) /\ walk.task # <<"strips">>
                   /\ IsChain(walk.chain)

ArenaOK == /\ arena = [ifds |-> arena.ifds, entries |-> arena.entries, ifdN |-> arena.ifdN,
                       entryN |-> arena.entryN, hints |-> arena.hints]
           /\ arena.ifdN \in Nat /\ arena.entryN \in Nat /\ arena.hints \in Seq(Nat)

(* What was charged is what was parsed.                                    *)
Directories == {b.dir[p] : p \in DOMAIN b.dir} \union {Junk}
Charged ==
    /\ bud = [entries |-> bud.entries, ifds |-> bud.ifds, thumb |-> bud.thumb]
    /\ spent = [entries |-> spent.entries, ifds |-> spent.ifds]
    /\ bud.ifds \in Nat /\ spent.ifds \in Nat /\ spent.ifds + bud.ifds = MaxIFDs
    /\ bud.entries \in Int /\ spent.entries \in Nat
    /\ spent.entries + bud.entries = NewBudget(b.len).entries
    /\ \E d \in Directories : 0 < bud.entries + d.count
    /\ bud.thumb \in Nat /\ bud.thumb <= b.len

(* The thumbnails of the chain that is read, or was.                       *)
Now == IF walk = None THEN <<>> ELSE walk.chain
ThumbsOK ==
    /\ CarriedThumbs(tree.chain) + bud.thumb <= b.len
    /\ todo # <<>> /\ Head(todo) = <<"ifd0">> => CarriedThumbs(Now) + bud.thumb <= b.len

(* Slots that were given out.                                              *)
Below(x, a) == /\ \A s \in x.slots : s \in Nat /\ s < a.ifdN
               /\ \A e \in x.room : e \in Nat /\ e < a.entryN
Given == /\ \A i \in 1..Len(Now) : Below(Now[i], arena)
         /\ \A t \in Pointers : tree[t] # None => Below(tree[t], arena)
Separate ==
    /\ \A i, j \in 1..Len(Now) : i # j => Apart(Now[i], Now[j])
    /\ \A t, u \in Pointers : tree[t] # None /\ tree[u] # None /\ t # u => Apart(tree[t], tree[u])
    /\ \A t \in Pointers, i \in 1..Len(Now) : tree[t] # None => Apart(tree[t], Now[i])

Kinds == {"budget", "unreadable", "outside", "thumbnail", "strips"}

Shaped == IsSource(b) /\ IsTree(tree) /\ TodoOK /\ WalkOK /\ ArenaOK /\ warned \subseteq Kinds
WalkInv == Shaped /\ Charged /\ ThumbsOK /\ Given /\ Separate

LEMMA BudgetIs == ASSUME NEW n \in Nat
                  PROVE  /\ NewBudget(n) = [entries |-> NewBudget(n).entries, ifds |-> MaxIFDs, thumb |-> n]
                         /\ NewBudget(n).entries \in Nat \ {0}
BY BudgetAssumption DEF NewBudget

LEMMA StartInv == \A f : IsSource(f) /\ Start(f) => WalkInv
<1> SUFFICES ASSUME NEW f, IsSource(f), Start(f) PROVE WalkInv
  OBVIOUS
<1>1. b = f /\ b.len \in Nat /\ Now = <<>> /\ walk = None /\ tree = NoTree
  BY DEF Start, IsSource, Now
<1>2. /\ tree.chain = <<>> /\ \A t \in Pointers : tree[t] = None
  BY <1>1 DEF NoTree, Pointers
<1>3. TodoOK
  <2>1. todo = <<<<"ifd0">>>> /\ <<"ifd0">> \in TaskSet(0)
    BY DEF Start, TaskSet
  <2>2. Len(todo) = 1 /\ Head(todo) = <<"ifd0">> /\ todo \in Seq(TaskSet(0)) /\ <<"ifd0">> # <<"exif">>
    BY <2>1
  <2> QED
    BY <2>2, <1>1, <1>2, EmptyChain DEF TodoOK
<1>4. ArenaOK /\ WalkOK /\ warned \subseteq Kinds
  BY <1>1 DEF Start, ArenaOK, NoArena, WalkOK
<1>5. Charged
  <2>1. bud = NewBudget(f.len) /\ spent = [entries |-> 0, ifds |-> 0]
    BY DEF Start
  <2>2. Junk \in Directories /\ Junk.count = 1
    BY DEF Directories, Junk
  <2> QED
    BY <1>1, <2>1, <2>2, BudgetIs, BudgetAssumption DEF Charged
<1>6. ThumbsOK
  <2>1. bud.thumb = f.len
    BY DEF Start, NewBudget
  <2> QED
    BY <2>1, <1>1, <1>2, NoThumbs DEF ThumbsOK
<1>7. Given /\ Separate
  BY <1>1, <1>2, EmptyChain DEF Given, Separate
<1> QED
  BY <1>1, <1>3, <1>4, <1>5, <1>6, <1>7, NoTreeIs DEF WalkInv, Shaped

-----------------------------------------------------------------------------
(* The steps of Parse.                                                     *)

LEMMA TailOK ==
    ASSUME TodoOK, todo # <<>>, todo' = Tail(todo), tree' = tree \/ Len((tree.chain)') = Len(tree.chain)
    PROVE  TodoOK' /\ (todo' # <<>> => Head(todo') # <<"ifd0">>)
<1> DEFINE S == TaskSet(Len(tree.chain))
<1>1. todo \in Seq(S) /\ Len((tree.chain)') = Len(tree.chain)
  BY DEF TodoOK
<1> HIDE DEF S
<1>2. /\ todo' \in Seq(S) /\ Len(todo') = Len(todo) - 1
      /\ \A k \in 1..Len(todo') : todo'[k] = todo[k + 1] /\ k + 1 \in 2..Len(todo)
  BY <1>1
<1>3. \A k \in 1..Len(todo') : todo'[k] \notin {<<"ifd0">>, <<"exif">>}
  BY <1>2 DEF TodoOK
<1>4. todo' # <<>> => Head(todo') = todo'[1] /\ 1 \in 1..Len(todo')
  BY <1>2
<1>5. \A k \in 2..Len(todo') : k \in 1..Len(todo')
  OBVIOUS
<1> QED
  BY <1>1, <1>2, <1>3, <1>4, <1>5 DEF TodoOK, S

LEMMA ScanIs ==
    ASSUME IsSource(b)
    PROVE  LET a == ScanSubIFDs
           IN /\ a = [ifds |-> a.ifds, entries |-> a.entries, ifdN |-> a.ifdN, entryN |-> a.entryN,
                      hints |-> a.hints]
              /\ a.ifdN \in Nat /\ a.entryN \in Nat /\ a.hints \in Seq(Nat)
<1> DEFINE count(p) == IF Counted(p) THEN <<Dir(p).count>> ELSE <<>>
           hints == count(Ptr0("exif")) \o count(InteropSeen) \o count(Ptr0("gps"))
<1>1. ASSUME NEW p PROVE count(p) \in Seq(Nat)
  <2>1. Dir(p).count \in Nat
    BY DirIs DEF IsDirectory
  <2> QED
    BY <2>1
<1> HIDE DEF count
<1>2. hints \in Seq(Nat)
  BY <1>1
<1> HIDE DEF hints
<1>3. ScanSubIFDs = [ifds |-> Len(hints), entries |-> SumOf(hints), ifdN |-> 0, entryN |-> 0,
                     hints |-> hints]
  BY DEF ScanSubIFDs, hints, count
<1> QED
  BY <1>2, <1>3

(* Nothing of what Charged speaks of moves.                                *)
LEMMA ChargedStays ==
    ASSUME Charged, b' = b, bud' = bud, spent' = spent PROVE Charged'
BY DEF Charged, Directories

LEMMA BeginStep == ASSUME WalkInv, Begin PROVE WalkInv'
<1> DEFINE task == Head(todo)
<1>1. /\ todo # <<>> /\ task # <<"strips">> /\ walk = None
      /\ b' = b /\ bud' = bud /\ tree' = tree /\ spent' = spent /\ warned' = warned
  BY DEF Begin
<1>2. arena' = arena \/ (task = <<"exif">> /\ arena' = ScanSubIFDs)
  BY DEF Begin
<1>3. \/ todo' = Tail(todo) /\ walk' = None
      \/ /\ todo' = todo
         /\ \E off : walk' = [task |-> task, cur |-> off, visited |-> {}, chain |-> <<>>]
  BY DEF Begin
<1>4. /\ IsSource(b) /\ IsTree(tree) /\ TodoOK /\ ArenaOK /\ Charged /\ ThumbsOK /\ Given /\ Separate
      /\ warned \subseteq Kinds
  BY DEF WalkInv, Shaped
<1> HIDE DEF task
<1>5. TodoOK'
  <2>1. CASE todo' = todo
    BY <2>1, <1>1, <1>4 DEF TodoOK
  <2>2. CASE todo' = Tail(todo)
    BY <2>2, <1>1, <1>4, TailOK
  <2> QED
    BY <2>1, <2>2, <1>3
<1>6. WalkOK'
  <2> SUFFICES ASSUME walk' # None PROVE WalkOK'
    BY DEF WalkOK
  <2>1. PICK off : walk' = [task |-> task, cur |-> off, visited |-> {}, chain |-> <<>>]
    BY <1>3
  <2>2. todo' = todo
    BY <1>3
  <2> QED
    BY <2>1, <2>2, <1>1, EmptyChain DEF WalkOK, task
<1>7. ArenaOK'
  <2>1. CASE arena' = arena
    BY <2>1, <1>4 DEF ArenaOK
  <2>2. CASE arena' = ScanSubIFDs
    BY <2>2, <1>4, ScanIs DEF ArenaOK
  <2> QED
    BY <2>1, <2>2, <1>2
<1>8. Now = <<>> /\ Now' = <<>>
  BY <1>1, <1>3 DEF Now
<1>9. ThumbsOK'
  <2>1. todo' # <<>> /\ Head(todo') = <<"ifd0">> => todo' = todo
    BY <1>1, <1>3, <1>5, <1>4, TailOK DEF TodoOK
  <2> QED
    BY <2>1, <1>1, <1>4, <1>8 DEF ThumbsOK
<1>10. \A t \in Pointers : tree[t] # None => arena' = arena
  BY <1>1, <1>2, <1>4 DEF TodoOK, task
<1>11. Given'
  <2>1. \A t \in Pointers : tree'[t] # None => Below(tree'[t], arena')
    BY <1>1, <1>4, <1>10 DEF Given
  <2> QED
    BY <2>1, <1>1, <1>8, EmptyChain DEF Given
<1>12. Separate'
  BY <1>1, <1>4, <1>8, EmptyChain DEF Separate
<1>13. Charged'
  BY <1>1, <1>4, ChargedStays
<1> QED
  BY <1>1, <1>4, <1>5, <1>6, <1>7, <1>9, <1>11, <1>12, <1>13 DEF WalkInv, Shaped

Root(c) == [c[1] EXCEPT !.slots = UNION {c[i].slots : i \in DOMAIN c},
                        !.room = UNION {c[i].room : i \in DOMAIN c}]

LEMMA RootIs ==
    ASSUME NEW c, IsChain(c), c # <<>>
    PROVE  /\ IsIFD(Root(c)) /\ Len(c) > 0
           /\ Root(c).slots = UNION {c[i].slots : i \in 1..Len(c)}
           /\ Root(c).room = UNION {c[i].room : i \in 1..Len(c)}
<1>1. Len(c) > 0 /\ DOMAIN c = 1..Len(c) /\ 1 \in 1..Len(c)
  BY ListIsSeq, EmptySeq DEF IsChain, IsList
<1> DEFINE x == c[1]
           r == Root(c)
<1>2. IsIFD(x)
  BY <1>1 DEF IsChain
<1>3. x = [of |-> x.of, inline |-> x.inline, vals |-> x.vals, ptr |-> x.ptr, jif |-> x.jif,
           thumb |-> x.thumb, strips |-> x.strips, carried |-> x.carried,
           slots |-> x.slots, room |-> x.room]
  BY <1>2 DEF IsIFD
<1> DEFINE A == UNION {c[i].slots : i \in 1..Len(c)}
           B == UNION {c[i].room : i \in 1..Len(c)}
<1>4. r = [of |-> x.of, inline |-> x.inline, vals |-> x.vals, ptr |-> x.ptr, jif |-> x.jif,
           thumb |-> x.thumb, strips |-> x.strips, carried |-> x.carried, slots |-> A, room |-> B]
  <2>1. r = [x EXCEPT !.slots = A, !.room = B]
    BY <1>1 DEF Root
  <2> HIDE DEF x, r, A, B
  <2> QED
    BY <1>3, <2>1
<1> HIDE DEF x, r, A, B
<1>5. IsIFD(r)
  <2>1. x.ptr = [t \in Pointers |-> x.ptr[t]]
    BY <1>2 DEF IsIFD
  <2> QED
    BY <1>2, <1>4, <2>1 DEF IsIFD
<1> QED
  BY <1>1, <1>4, <1>5 DEF r, A, B

LEMMA TaskIs ==
    ASSUME NEW n, NEW task \in TaskSet(n), task # <<"strips">>
    PROVE  \/ task = <<"ifd0">>
           \/ \E i \in 2..n, t \in Pointers : task = <<"sub", i, t>>
           \/ \E t \in Pointers : task = <<t>>
BY DEF TaskSet, Pointers

LEMMA StoreIs ==
    ASSUME IsTree(tree), NEW c, IsChain(c),
           NEW task \in TaskSet(Len(tree.chain)), task # <<"strips">>
    PROVE  LET v == Store(task, c)
           IN /\ IsTree(v)
              /\ task = <<"ifd0">> => v.chain = c
              /\ task # <<"ifd0">> => v.chain = tree.chain
              /\ \A t \in Pointers :
                   \/ v[t] = tree[t]
                   \/ task = <<t>> /\ v[t] = IF c = <<>> THEN None ELSE Root(c)
<1> DEFINE root == IF c = <<>> THEN None ELSE Root(c)
           v == Store(task, c)
           n == Len(tree.chain)
<1>1. root = None \/ IsIFD(root)
  BY RootIs
<1>2. v = CASE task = <<"ifd0">> -> [tree EXCEPT !.chain = c, !.sub = Chained(Len(c))]
            [] task[1] = "sub" -> [tree EXCEPT !.sub[task[2]][task[3]] = root]
            [] OTHER -> [tree EXCEPT ![task[1]] = root]
  BY DEF Store, Root
<1>3. /\ tree = [chain |-> tree.chain, exif |-> tree.exif, gps |-> tree.gps,
                 interop |-> tree.interop, sub |-> tree.sub]
      /\ tree.sub = [i \in 1..n |-> tree.sub[i]]
      /\ IsChain(tree.chain) /\ \A t \in Pointers : tree[t] = None \/ IsIFD(tree[t])
      /\ \A i \in 1..n : IsSub(tree.sub[i])
  BY DEF IsTree
<1> HIDE DEF root, v, n
<1>4. CASE task = <<"ifd0">>
  <2>1. v = [tree EXCEPT !.chain = c, !.sub = Chained(Len(c))]
    BY <1>2, <1>4
  <2>2. /\ v = [chain |-> c, exif |-> tree.exif, gps |-> tree.gps, interop |-> tree.interop,
                sub |-> Chained(Len(c))]
    BY <1>3, <2>1
  <2>3. /\ Chained(Len(c)) = [i \in 1..Len(c) |-> Chained(Len(c))[i]]
        /\ \A i \in 1..Len(c) : IsSub(Chained(Len(c))[i])
    BY NoSubIs DEF Chained
  <2>4. v.chain = c /\ v.sub = Chained(Len(c)) /\ \A t \in Pointers : v[t] = tree[t]
    BY <2>2, <1>3 DEF Pointers
  <2>5. IsTree(v)
    BY <2>2, <2>3, <2>4, <1>3 DEF IsTree
  <2> QED
    BY <2>4, <2>5, <1>4 DEF v
<1>5. ASSUME NEW i \in 2..n, NEW t \in Pointers, task = <<"sub", i, t>>
      PROVE  IsTree(v) /\ v.chain = tree.chain /\ \A u \in Pointers : v[u] = tree[u]
  <2>1. v = [tree EXCEPT !.sub[i][t] = root]
    BY <1>2, <1>5
  <2> DEFINE s == [tree.sub EXCEPT ![i][t] = root]
  <2>2. v = [chain |-> tree.chain, exif |-> tree.exif, gps |-> tree.gps, interop |-> tree.interop,
             sub |-> s]
    BY <1>3, <2>1
  <2>3. s = [k \in 1..n |-> IF k = i THEN [tree.sub[i] EXCEPT ![t] = root] ELSE tree.sub[k]]
    BY <1>3
  <2>4. IsSub([tree.sub[i] EXCEPT ![t] = root])
    <3>1. IsSub(tree.sub[i]) /\ i \in 1..n
      BY <1>3
    <3> QED
      BY <3>1, <1>1 DEF IsSub, Pointers
  <2> HIDE DEF s
  <2>5. s = [k \in 1..n |-> s[k]] /\ \A k \in 1..n : IsSub(s[k])
    BY <2>3, <2>4, <1>3
  <2>6. v.chain = tree.chain /\ v.sub = s /\ \A u \in Pointers : v[u] = tree[u]
    BY <2>2, <1>3 DEF Pointers
  <2> QED
    BY <2>2, <2>5, <2>6, <1>3 DEF IsTree, n
<1>6. ASSUME NEW t \in Pointers, task = <<t>>
      PROVE  /\ IsTree(v) /\ v.chain = tree.chain /\ v[t] = root
             /\ \A u \in Pointers \ {t} : v[u] = tree[u]
  <2>1. v = [tree EXCEPT ![t] = root]
    BY <1>2, <1>6 DEF Pointers
  <2>2. /\ v.chain = tree.chain /\ v.sub = tree.sub /\ v[t] = root
        /\ \A u \in Pointers \ {t} : v[u] = tree[u]
    BY <1>3, <2>1 DEF Pointers
  <2>3. v = [chain |-> v.chain, exif |-> v.exif, gps |-> v.gps, interop |-> v.interop, sub |-> v.sub]
    BY <1>3, <2>1 DEF Pointers
  <2>4. \A u \in Pointers : v[u] = None \/ IsIFD(v[u])
    BY <2>2, <1>1, <1>3
  <2> QED
    BY <2>2, <2>3, <2>4, <1>3 DEF IsTree, n
<1>7. \A t \in Pointers : <<t>> # <<"ifd0">> /\ \A i : <<"sub", i, t>> # <<"ifd0">>
  BY DEF Pointers
<1> QED
  BY <1>4, <1>5, <1>6, <1>7, TaskIs DEF v, root, n

(* Once IFD0 is read, the Exif IFD is the next.                            *)
LEMMA TasksIs ==
    ASSUME NEW n \in Nat, n # 0
    PROVE  LET s == Tasks(n)
           IN /\ s \in Seq(TaskSet(n)) /\ s # <<>> /\ Head(s) = <<"exif">>
              /\ \A k \in 2..Len(s) : s[k] \notin {<<"ifd0">>, <<"exif">>}
<1> DEFINE T == TaskSet(n) \ {<<"ifd0">>, <<"exif">>}
           F == [k \in 1..3 * (n - 1) |->
                   <<"sub", (k + 5) \div 3, <<"exif", "gps", "interop">>[((k - 1) % 3) + 1]>>]
           G == IF n > 1 THEN <<<<"strips">>>> ELSE <<>>
           r == (<<<<"interop">>, <<"gps">>>> \o F) \o G
<1>1. ASSUME NEW k \in 1..3 * (n - 1) PROVE F[k] \in T
  <2>1. (k + 5) \div 3 \in 2..n /\ ((k - 1) % 3) + 1 \in 1..3
    OBVIOUS
  <2>2. \A i \in 1..3 : <<"exif", "gps", "interop">>[i] \in Pointers
    BY DEF Pointers
  <2>3. F[k] = <<"sub", (k + 5) \div 3, <<"exif", "gps", "interop">>[((k - 1) % 3) + 1]>>
    OBVIOUS
  <2> HIDE DEF F
  <2>4. PICK i \in 2..n, t \in Pointers : F[k] = <<"sub", i, t>>
    BY <2>1, <2>2, <2>3
  <2>5. <<"sub", i, t>> \in TaskSet(n) /\ <<"sub", i, t>> # <<"ifd0">> /\ <<"sub", i, t>> # <<"exif">>
    BY DEF TaskSet
  <2> QED
    BY <2>4, <2>5
<1>2. F \in Seq(T)
  <2>1. F \in [1..3 * (n - 1) -> T] /\ 3 * (n - 1) \in Nat
    BY <1>1
  <2> HIDE DEF F, T
  <2> QED
    BY <2>1, SeqDef
<1>3. <<"interop">> \in T /\ <<"gps">> \in T /\ <<"strips">> \in T
  BY DEF TaskSet
<1> HIDE DEF F, T
<1>4. G \in Seq(T) /\ <<<<"interop">>, <<"gps">>>> \in Seq(T)
  BY <1>3
<1> HIDE DEF G
<1>5. r \in Seq(T)
  BY <1>2, <1>4
<1>6. T \subseteq TaskSet(n) /\ <<"exif">> \in TaskSet(n)
  BY DEF T, TaskSet
<1>7. Tasks(n) = <<<<"exif">>>> \o r
  <2>1. Tasks(n) = (<<<<"exif">>, <<"interop">>, <<"gps">>>> \o F) \o G
    BY DEF Tasks, F, G
  <2>2. <<<<"exif">>, <<"interop">>, <<"gps">>>> = <<<<"exif">>>> \o <<<<"interop">>, <<"gps">>>>
    OBVIOUS
  <2> DEFINE S == TaskSet(n)
             e == <<<<"exif">>>>
             q == <<<<"interop">>, <<"gps">>>>
  <2>3. e \in Seq(S) /\ q \in Seq(S) /\ F \in Seq(S) /\ G \in Seq(S)
    BY <1>2, <1>3, <1>4, <1>6
  <2> HIDE DEF e, q, S
  <2>4. ((e \o q) \o F) \o G = e \o ((q \o F) \o G)
    BY <2>3, ConcatAssociative, SMTT(60)
  <2> QED
    BY <2>1, <2>2, <2>4 DEF e, q
<1> HIDE DEF r
<1>8. /\ <<<<"exif">>>> \o r \in Seq(TaskSet(n)) /\ Len(<<<<"exif">>>> \o r) = 1 + Len(r)
      /\ (<<<<"exif">>>> \o r)[1] = <<"exif">>
      /\ \A k \in 2..1 + Len(r) : (<<<<"exif">>>> \o r)[k] = r[k - 1] /\ k - 1 \in 1..Len(r)
  BY <1>5, <1>6
<1>9. \A k \in 1..Len(r) : r[k] \in T
  BY <1>5
<1> QED
  BY <1>7, <1>8, <1>9 DEF T

(* The arena may give out more, and takes back what nobody holds.          *)
ArenaGrows == /\ ArenaOK /\ ArenaOK'
              /\ arena.ifdN <= (arena.ifdN)' /\ arena.entryN <= (arena.entryN)'

LEMMA BelowStays == ASSUME ArenaGrows, NEW x, Below(x, arena) PROVE Below(x, arena')
BY DEF ArenaGrows, Below, ArenaOK

LEMMA FinishStep ==
    ASSUME WalkInv, walk # None, NEW w, w \subseteq Kinds, Finish(w), ArenaGrows PROVE WalkInv'
<1> DEFINE task == walk.task
           c == walk.chain
           n == Len(tree.chain)
           root == IF c = <<>> THEN None ELSE Root(c)
<1>1. /\ IsSource(b) /\ IsTree(tree) /\ TodoOK /\ ArenaOK /\ Charged /\ ThumbsOK /\ Given /\ Separate
      /\ warned \subseteq Kinds
      /\ todo # <<>> /\ task = Head(todo) /\ task # <<"strips">> /\ IsChain(c)
  BY DEF WalkInv, Shaped, WalkOK
<1>2. /\ tree' = Store(task, c) /\ walk' = None /\ b' = b /\ bud' = bud /\ spent' = spent
      /\ todo' = (IF task = <<"ifd0">> /\ c # <<>> THEN Tasks(Len(c)) ELSE Tail(todo))
      /\ warned' \subseteq Kinds
  BY <1>1 DEF Finish
<1>3. Now = c /\ Now' = <<>>
  BY <1>2 DEF Now
<1>4. task \in TaskSet(n)
  BY <1>1 DEF TodoOK
<1>5. /\ IsTree(tree')
      /\ task = <<"ifd0">> => (tree.chain)' = c
      /\ task # <<"ifd0">> => (tree.chain)' = tree.chain
      /\ \A t \in Pointers : tree'[t] = tree[t] \/ (task = <<t>> /\ tree'[t] = root)
  BY <1>1, <1>2, <1>4, StoreIs
<1> HIDE DEF task, c
<1>6. task = <<"ifd0">> => tree.chain = <<>> /\ n = 0 /\ \A t \in Pointers : tree[t] = None
  BY <1>1, EmptyChain DEF TodoOK, NoTree, Pointers
<1>7. TodoOK'
  <2>1. CASE task = <<"ifd0">> /\ c # <<>>
    <3>1. Len(c) \in Nat /\ Len(c) # 0
      BY <1>1, <2>1, RootIs DEF IsChain, IsList
    <3>2. /\ todo' \in Seq(TaskSet(Len(c))) /\ todo' # <<>> /\ Head(todo') = <<"exif">>
          /\ \A k \in 2..Len(todo') : todo'[k] \notin {<<"ifd0">>, <<"exif">>}
      BY <1>2, <2>1, <3>1, TasksIs
    <3>3. \A t \in Pointers : <<t>> # <<"ifd0">>
      BY DEF Pointers
    <3>4. \A t \in Pointers : tree'[t] = None
      BY <1>5, <1>6, <2>1, <3>3
    <3> QED
      BY <3>2, <3>4, <1>5, <2>1 DEF TodoOK
  <2>2. CASE ~(task = <<"ifd0">> /\ c # <<>>)
    <3>1. todo' = Tail(todo)
      BY <1>2, <2>2
    <3>2. Len((tree.chain)') = Len(tree.chain)
      BY <1>5, <1>6, <2>2
    <3> QED
      BY <3>1, <3>2, <1>1, TailOK
  <2> QED
    BY <2>1, <2>2
<1>8. todo' # <<>> => Head(todo') # <<"ifd0">>
  <2>1. CASE task = <<"ifd0">> /\ c # <<>>
    <3>1. Len(c) \in Nat /\ Len(c) # 0
      BY <1>1, <2>1, RootIs DEF IsChain, IsList
    <3>2. Head(todo') = <<"exif">>
      BY <1>2, <2>1, <3>1, TasksIs
    <3> QED
      BY <3>2
  <2>2. CASE ~(task = <<"ifd0">> /\ c # <<>>)
    <3>1. todo' = Tail(todo)
      BY <1>2, <2>2
    <3>2. Len((tree.chain)') = Len(tree.chain)
      BY <1>5, <1>6, <2>2
    <3> QED
      BY <3>1, <3>2, <1>1, TailOK
  <2> QED
    BY <2>1, <2>2
<1>9. ThumbsOK'
  <2>1. CarriedThumbs((tree.chain)') + bud.thumb <= b.len
    <3>1. CASE task = <<"ifd0">>
      BY <3>1, <1>1, <1>3, <1>5 DEF ThumbsOK
    <3>2. CASE task # <<"ifd0">>
      BY <3>2, <1>1, <1>5 DEF ThumbsOK
    <3> QED
      BY <3>1, <3>2
  <2> QED
    BY <2>1, <1>2, <1>8 DEF ThumbsOK
<1>10. root # None =>
         /\ root.slots = UNION {c[i].slots : i \in 1..Len(c)}
         /\ root.room = UNION {c[i].room : i \in 1..Len(c)}
  BY <1>1, RootIs
<1> HIDE DEF root
<1>11. root # None => Below(root, arena)
  BY <1>1, <1>3, <1>10 DEF Given, Below
<1>12. Given'
  <2>1. ASSUME NEW t \in Pointers, tree'[t] # None PROVE Below(tree'[t], arena')
    <3>1. Below(tree'[t], arena)
      BY <2>1, <1>1, <1>5, <1>11 DEF Given
    <3> QED
      BY <3>1, BelowStays
  <2> QED
    BY <2>1, <1>3, EmptyChain DEF Given
<1>13. \A t \in Pointers : tree[t] # None /\ root # None => Apart(tree[t], root) /\ Apart(root, tree[t])
  BY <1>1, <1>3, <1>10 DEF Separate, Apart
<1>14. Separate'
  <2> SUFFICES ASSUME NEW t \in Pointers, NEW u \in Pointers, t # u, tree'[t] # None, tree'[u] # None
               PROVE  Apart(tree'[t], tree'[u])
    BY <1>3, EmptyChain DEF Separate, Apart
  <2>1. <<t>> # <<u>>
    OBVIOUS
  <2> QED
    BY <2>1, <1>1, <1>5, <1>13 DEF Separate
<1>15. Charged' /\ WalkOK' /\ ArenaOK' /\ IsSource(b')
  BY <1>1, <1>2, ChargedStays DEF WalkOK, ArenaGrows
<1> QED
  BY <1>2, <1>5, <1>7, <1>9, <1>12, <1>14, <1>15 DEF WalkInv, Shaped

LEMMA ArenaSame == ASSUME ArenaOK, arena' = arena PROVE ArenaGrows
BY DEF ArenaOK, ArenaGrows

LEMMA EndSteps == ASSUME WalkInv, Ends \/ AtBudget \/ InCycle PROVE WalkInv'
<1>1. ArenaOK
  BY DEF WalkInv, Shaped
<1>2. CASE Ends
  BY <1>1, <1>2, ArenaSame, FinishStep DEF Ends, Kinds
<1>3. CASE AtBudget
  BY <1>1, <1>3, ArenaSame, FinishStep DEF AtBudget, Kinds
<1>4. CASE InCycle
  BY <1>1, <1>4, ArenaSame, FinishStep DEF InCycle, Kinds
<1> QED
  BY <1>2, <1>3, <1>4

(* A slot and room that nobody was given yet, or neither.                  *)
LEMMA AllocIs ==
    ASSUME ArenaOK, NEW task, NEW d, IsDirectory(d)
    PROVE  LET mem == Alloc(task, d)
               a == mem.arena
           IN /\ a = [ifds |-> a.ifds, entries |-> a.entries, ifdN |-> a.ifdN,
                      entryN |-> a.entryN, hints |-> a.hints]
              /\ a.ifdN \in Nat /\ a.entryN \in Nat /\ a.hints \in Seq(Nat)
              /\ arena.ifdN <= a.ifdN /\ arena.entryN <= a.entryN
              /\ \A s \in {mem.slot} \ {None} : s = arena.ifdN /\ s < a.ifdN
              /\ \A e \in mem.room : e \in Nat /\ arena.entryN <= e /\ e < a.entryN
<1> DEFINE n == IF arena.hints = <<>> THEN d.count ELSE Head(arena.hints)
           read == [arena EXCEPT !.hints = IF @ = <<>> THEN @ ELSE Tail(@)]
           full == [read EXCEPT !.ifdN = @ + 1, !.entryN = @ + n]
           mem == Alloc(task, d)
<1>1. n \in Nat /\ d.count \in Nat
  <2>1. d.count \in Nat /\ arena.hints \in Seq(Nat)
    BY DEF IsDirectory, ArenaOK
  <2>2. arena.hints # <<>> => Head(arena.hints) \in Nat
    BY <2>1, HeadTailProperties
  <2> QED
    BY <2>1, <2>2
<1>2. /\ read = [ifds |-> arena.ifds, entries |-> arena.entries, ifdN |-> arena.ifdN,
                 entryN |-> arena.entryN, hints |-> read.hints]
      /\ read.hints \in Seq(Nat)
  <2>1. arena.hints \in Seq(Nat) /\ (arena.hints # <<>> => Tail(arena.hints) \in Seq(Nat))
    BY HeadTailProperties DEF ArenaOK
  <2> DEFINE h == IF arena.hints = <<>> THEN arena.hints ELSE Tail(arena.hints)
  <2>2. read = [arena EXCEPT !.hints = h] /\ h \in Seq(Nat)
    BY <2>1
  <2> HIDE DEF read, h
  <2>3. arena = [ifds |-> arena.ifds, entries |-> arena.entries, ifdN |-> arena.ifdN,
                 entryN |-> arena.entryN, hints |-> arena.hints]
    BY DEF ArenaOK
  <2>4. read = [ifds |-> arena.ifds, entries |-> arena.entries, ifdN |-> arena.ifdN,
                entryN |-> arena.entryN, hints |-> h]
    BY <2>2, <2>3
  <2> QED
    BY <2>2, <2>4
<1>3. full = [ifds |-> arena.ifds, entries |-> arena.entries, ifdN |-> arena.ifdN + 1,
              entryN |-> arena.entryN + n, hints |-> read.hints]
  <2>1. read.ifdN = arena.ifdN /\ read.entryN = arena.entryN
    BY <1>2
  <2> HIDE DEF read, n
  <2>2. full = [read EXCEPT !.ifdN = arena.ifdN + 1, !.entryN = arena.entryN + n]
    BY <2>1
  <2> DEFINE p == arena.ifdN + 1
             q == arena.entryN + n
             h == read.hints
  <2>3. full = [read EXCEPT !.ifdN = p, !.entryN = q]
    BY <2>2
  <2>4. read = [ifds |-> arena.ifds, entries |-> arena.entries, ifdN |-> arena.ifdN,
                entryN |-> arena.entryN, hints |-> h]
    BY <1>2
  <2> HIDE DEF p, q, h, full
  <2>5. full = [ifds |-> arena.ifds, entries |-> arena.entries, ifdN |-> p, entryN |-> q,
                hints |-> h]
    BY <2>3, <2>4
  <2> QED
    BY <2>5 DEF p, q, h
<1>4. arena.ifdN \in Nat /\ arena.entryN \in Nat /\ arena.hints \in Seq(Nat)
      /\ arena = [ifds |-> arena.ifds, entries |-> arena.entries, ifdN |-> arena.ifdN,
                  entryN |-> arena.entryN, hints |-> arena.hints]
  BY DEF ArenaOK
<1>5. \/ mem = [arena |-> arena, slot |-> None, room |-> {}]
      \/ mem = [arena |-> read, slot |-> None, room |-> {}]
      \/ mem = [arena |-> full, slot |-> arena.ifdN, room |-> EntryRoom(n, d)]
  BY DEF Alloc
<1>6. \A e \in EntryRoom(n, d) : e \in Nat /\ arena.entryN <= e /\ e < arena.entryN + n
  BY <1>1, <1>4 DEF EntryRoom
<1> HIDE DEF n, read, full, mem
<1>7. CASE mem = [arena |-> arena, slot |-> None, room |-> {}]
  <2>1. mem.arena = arena /\ {mem.slot} \ {None} = {} /\ mem.room = {}
    BY <1>7
  <2> QED
    BY <2>1, <1>4 DEF mem
<1>8. CASE mem = [arena |-> read, slot |-> None, room |-> {}]
  <2>1. mem.arena = read /\ {mem.slot} \ {None} = {} /\ mem.room = {}
    BY <1>8
  <2> QED
    BY <2>1, <1>2, <1>4 DEF mem
<1>9. CASE mem = [arena |-> full, slot |-> arena.ifdN, room |-> EntryRoom(n, d)]
  <2>1. mem.arena = full /\ mem.slot = arena.ifdN /\ mem.room = EntryRoom(n, d)
    BY <1>9
  <2>2. /\ full = [ifds |-> full.ifds, entries |-> full.entries, ifdN |-> full.ifdN,
                   entryN |-> full.entryN, hints |-> full.hints]
        /\ full.ifdN = arena.ifdN + 1 /\ full.entryN = arena.entryN + n /\ full.hints = read.hints
    BY <1>3
  <2> QED
    BY <2>1, <2>2, <1>1, <1>2, <1>4, <1>6 DEF mem
<1> QED
  BY <1>5, <1>7, <1>8, <1>9

LEMMA UnreadableStep == ASSUME WalkInv, Unreadable PROVE WalkInv'
<1> DEFINE d == Dir(walk.cur)
           a == Alloc(walk.task, d).arena
<1>1. ArenaOK /\ IsSource(b) /\ walk # None /\ Finish({"unreadable"})
      /\ arena' = [a EXCEPT !.ifdN = arena.ifdN]
  BY DEF Unreadable, Candidate, WalkInv, Shaped
<1>2. /\ a = [ifds |-> a.ifds, entries |-> a.entries, ifdN |-> a.ifdN, entryN |-> a.entryN,
              hints |-> a.hints]
      /\ a.entryN \in Nat /\ a.hints \in Seq(Nat) /\ arena.entryN <= a.entryN
  BY <1>1, DirIs, AllocIs
<1>3. arena.ifdN \in Nat /\ arena.entryN \in Nat
  BY <1>1 DEF ArenaOK
<1> HIDE DEF a
<1>4. ArenaGrows
  <2>1. arena' = [ifds |-> a.ifds, entries |-> a.entries, ifdN |-> arena.ifdN, entryN |-> a.entryN,
                  hints |-> a.hints]
    BY <1>1, <1>2
  <2> QED
    BY <2>1, <1>1, <1>2, <1>3 DEF ArenaGrows, ArenaOK
<1> QED
  BY <1>1, <1>4, FinishStep DEF Kinds

(* One more IFD is read: what it is charged, and what is given to it.      *)
LEMMA FollowStep == ASSUME WalkInv, Follow PROVE WalkInv'
<1> DEFINE d == Dir(walk.cur)
           carried == walk.chain # <<>>
           dropped == Drops(d, carried)
           mem == Alloc(walk.task, d)
           x == Parsed(d, dropped, mem)
           lost == d.next # 0 /\ Outside(d.next)
           used == carried /\ HasThumb(d) /\ ~dropped
           c == walk.chain
           left == IF used THEN bud.thumb - d.jif.len ELSE bud.thumb
<1>1. /\ walk # None /\ ~Exhausted(bud)
      /\ walk' = [walk EXCEPT !.chain = Append(@, x), !.visited = @ \union {walk.cur},
                              !.cur = IF d.next = 0 \/ lost THEN None ELSE d.next]
      /\ bud' = [entries |-> bud.entries - d.count, ifds |-> bud.ifds - 1, thumb |-> left]
      /\ spent' = [entries |-> spent.entries + d.count, ifds |-> spent.ifds + 1]
      /\ arena' = mem.arena
      /\ warned' = warned \union (IF dropped THEN {"thumbnail"} ELSE {})
                          \union (IF lost THEN {"outside"} ELSE {})
      /\ b' = b /\ todo' = todo /\ tree' = tree
  BY DEF Follow, Candidate
<1>2. /\ IsSource(b) /\ IsTree(tree) /\ TodoOK /\ WalkOK /\ ArenaOK /\ Charged /\ ThumbsOK
      /\ Given /\ Separate /\ warned \subseteq Kinds
  BY DEF WalkInv, Shaped
<1>3. IsDirectory(d) /\ d \in Directories
  BY <1>2, DirIs DEF Directories, Dir
<1>4. IsIFD(x) /\ x.slots = {mem.slot} \ {None} /\ x.room = mem.room
      /\ x.thumb = IF dropped \/ ~HasThumb(d) THEN None ELSE d.jif
  BY <1>3, ParsedIs
<1>5. IsChain(c)
  BY <1>1, <1>2 DEF WalkOK
<1>6. /\ IsChain(Append(c, x)) /\ Len(Append(c, x)) = Len(c) + 1 /\ Len(c) \in Nat
      /\ \A i \in 1..Len(c) : Append(c, x)[i] = c[i]
      /\ Append(c, x)[Len(c) + 1] = x
  BY <1>4, <1>5, AppendList DEF IsChain, IsList
<1>7. used => d.jif # None /\ d.jif.len \in Nat /\ d.jif.len <= bud.thumb
  <2>1. bud.thumb \in Nat
    BY <1>2 DEF Charged
  <2>2. d.jif = None \/ d.jif.len \in Nat
    BY <1>3 DEF IsDirectory, IsData
  <2> QED
    BY <2>1, <2>2 DEF HasThumb, Drops
<1>8. left \in Nat /\ left <= bud.thumb
  <2>1. bud.thumb \in Nat
    BY <1>2 DEF Charged
  <2> QED
    BY <2>1, <1>7
<1>9. carried => ThumbLen(x) + left = bud.thumb
  <2>1. bud.thumb \in Nat
    BY <1>2 DEF Charged
  <2>2. carried => (x.thumb = None <=> ~used) /\ (used => x.thumb = d.jif)
    BY <1>4, <1>7
  <2> QED
    BY <2>1, <2>2, <1>7 DEF ThumbLen
<1>10. /\ arena' = [ifds |-> (arena.ifds)', entries |-> (arena.entries)', ifdN |-> (arena.ifdN)',
                    entryN |-> (arena.entryN)', hints |-> (arena.hints)']
       /\ (arena.ifdN)' \in Nat /\ (arena.entryN)' \in Nat /\ (arena.hints)' \in Seq(Nat)
       /\ arena.ifdN <= (arena.ifdN)' /\ arena.entryN <= (arena.entryN)'
       /\ \A s \in x.slots : s = arena.ifdN /\ s < (arena.ifdN)'
       /\ \A e \in x.room : e \in Nat /\ arena.entryN <= e /\ e < (arena.entryN)'
  <2>1. ArenaOK
    BY <1>2
  <2>2. /\ x.slots = {mem.slot} \ {None} /\ x.room = mem.room /\ arena' = mem.arena
    BY <1>1, <1>4
  <2> HIDE DEF x
  <2> QED
    BY <2>1, <2>2, <1>3, AllocIs
<1> HIDE DEF x, mem, left, lost, used, dropped, d
<1>11. ArenaGrows
  BY <1>2, <1>10 DEF ArenaGrows, ArenaOK
<1>12. Now = c /\ (Now' = <<>> \/ Now' = Append(c, x)) /\ WalkOK'
  <2>1. walk = [task |-> walk.task, cur |-> walk.cur, visited |-> walk.visited, chain |-> c]
        /\ todo # <<>> /\ walk.task = Head(todo) /\ walk.task # <<"strips">>
    BY <1>1, <1>2 DEF WalkOK
  <2> DEFINE y == Append(c, x)
             u == IF d.next = 0 \/ lost THEN None ELSE d.next
             z == walk.visited \union {walk.cur}
  <2>2. walk' = [walk EXCEPT !.chain = y, !.visited = z, !.cur = u]
    BY <1>1
  <2> HIDE DEF c, y, u, z
  <2>3. walk' = [task |-> walk.task, cur |-> u, visited |-> z, chain |-> y]
    BY <2>1, <2>2
  <2> QED
    BY <2>1, <2>3, <1>1, <1>6 DEF Now, WalkOK, c, y
<1>13. Charged'
  <2>1. /\ bud.ifds \in Nat /\ spent.ifds \in Nat /\ spent.ifds + bud.ifds = MaxIFDs
        /\ bud.entries \in Int /\ spent.entries \in Nat
        /\ spent.entries + bud.entries = NewBudget(b.len).entries
        /\ bud.thumb \in Nat /\ bud.thumb <= b.len
    BY <1>2 DEF Charged
  <2>2. bud.ifds > 0 /\ bud.entries > 0 /\ d.count \in Nat /\ b.len \in Nat
    BY <1>1, <1>2, <1>3, <2>1 DEF Exhausted, IsDirectory, IsSource
  <2>3. /\ (bud.ifds)' = bud.ifds - 1 /\ (bud.entries)' = bud.entries - d.count /\ (bud.thumb)' = left
        /\ (spent.ifds)' = spent.ifds + 1 /\ (spent.entries)' = spent.entries + d.count
        /\ bud' = [entries |-> (bud.entries)', ifds |-> (bud.ifds)', thumb |-> (bud.thumb)']
        /\ spent' = [entries |-> (spent.entries)', ifds |-> (spent.ifds)']
    BY <1>1
  <2>4. d \in Directories' /\ 0 < (bud.entries)' + d.count
    BY <1>1, <1>3, <2>1, <2>2, <2>3 DEF Directories
  <2>5. (b.len)' = b.len /\ NewBudget(b.len)' = NewBudget(b.len)
    BY <1>1
  <2>6. /\ (bud.ifds)' \in Nat /\ (spent.ifds)' \in Nat /\ (spent.ifds)' + (bud.ifds)' = MaxIFDs
        /\ (bud.thumb)' \in Nat /\ (bud.thumb)' <= b.len
    BY <2>1, <2>2, <2>3, <1>8, BudgetAssumption
  <2>7. /\ (bud.entries)' \in Int /\ (spent.entries)' \in Nat
        /\ (spent.entries)' + (bud.entries)' = NewBudget(b.len).entries
    BY <2>1, <2>2, <2>3
  <2> QED
    BY <2>3, <2>4, <2>5, <2>6, <2>7 DEF Charged
<1>14. ThumbsOK'
  <2>1. bud.thumb \in Nat /\ (bud.thumb)' = left /\ b.len \in Nat
    BY <1>1, <1>2 DEF Charged, IsSource
  <2>2. /\ CarriedThumbs(tree.chain) \in Nat /\ CarriedThumbs(c) \in Nat /\ ThumbLen(x) \in Nat
        /\ CarriedThumbs(Append(c, x)) = IF c = <<>> THEN 0 ELSE CarriedThumbs(c) + ThumbLen(x)
    BY <1>2, <1>4, <1>5, ThumbsGrow, ThumbLenNat DEF IsTree
  <2>3. CarriedThumbs(tree.chain) + left <= b.len
    BY <1>2, <1>8, <2>1, <2>2 DEF ThumbsOK
  <2>4. ASSUME Head(todo) = <<"ifd0">>, todo # <<>> PROVE CarriedThumbs(Append(c, x)) + left <= b.len
    <3>1. CarriedThumbs(c) + bud.thumb <= b.len
      BY <2>4, <1>2, <1>12 DEF ThumbsOK
    <3>2. CASE c = <<>>
      BY <3>1, <3>2, <2>1, <2>2, <1>8
    <3>3. CASE c # <<>>
      BY <3>1, <3>3, <2>1, <2>2, <1>8, <1>9
    <3> QED
      BY <3>2, <3>3
  <2>5. CarriedThumbs(<<>>) + left <= b.len
    BY <2>1, <1>2, <1>8, NoThumbs DEF Charged
  <2> QED
    BY <2>1, <2>3, <2>4, <2>5, <1>1, <1>12 DEF ThumbsOK
<1>15. Below(x, arena')
  BY <1>2, <1>10 DEF Below, ArenaOK
<1>16. \A i \in 1..Len(c) : Below(c[i], arena) /\ Below(c[i], arena')
  BY <1>2, <1>11, <1>12, BelowStays DEF Given
<1>17. \A t \in Pointers : tree[t] # None => Below(tree[t], arena) /\ Below(tree[t], arena')
  BY <1>2, <1>11, BelowStays DEF Given
<1>18. Given'
  <2>1. \A i \in 1..Len(c) + 1 : Below(Append(c, x)[i], arena')
    BY <1>6, <1>15, <1>16
  <2> QED
    BY <2>1, <1>1, <1>6, <1>12, <1>17, EmptyChain DEF Given
<1>19. ASSUME NEW y, Below(y, arena) PROVE Apart(x, y) /\ Apart(y, x)
  BY <1>19, <1>2, <1>10 DEF Below, Apart, ArenaOK
<1>20. Separate'
  <2>1. ASSUME NEW i \in 1..Len(c) + 1, NEW j \in 1..Len(c) + 1, i # j
        PROVE  Apart(Append(c, x)[i], Append(c, x)[j])
    <3>1. CASE i = Len(c) + 1
      <4>1. j \in 1..Len(c)
        BY <3>1, <2>1, <1>6
      <4> QED
        BY <3>1, <4>1, <1>6, <1>16, <1>19
    <3>2. CASE j = Len(c) + 1
      <4>1. i \in 1..Len(c)
        BY <3>2, <2>1, <1>6
      <4> QED
        BY <3>2, <4>1, <1>6, <1>16, <1>19
    <3>3. CASE i # Len(c) + 1 /\ j # Len(c) + 1
      <4>1. i \in 1..Len(c) /\ j \in 1..Len(c)
        BY <3>3, <1>6
      <4> QED
        BY <4>1, <2>1, <1>2, <1>6, <1>12 DEF Separate
    <3> QED
      BY <3>1, <3>2, <3>3
  <2>2. ASSUME NEW t \in Pointers, NEW i \in 1..Len(c) + 1, tree[t] # None
        PROVE  Apart(tree[t], Append(c, x)[i])
    <3>1. CASE i = Len(c) + 1
      BY <3>1, <2>2, <1>6, <1>17, <1>19
    <3>2. CASE i # Len(c) + 1
      <4>1. i \in 1..Len(c)
        BY <3>2, <1>6
      <4> QED
        BY <4>1, <2>2, <1>2, <1>6, <1>12 DEF Separate
    <3> QED
      BY <3>1, <3>2
  <2>3. \A t, u \in Pointers : tree[t] # None /\ tree[u] # None /\ t # u => Apart(tree[t], tree[u])
    BY <1>2 DEF Separate
  <2> QED
    BY <2>1, <2>2, <2>3, <1>1, <1>6, <1>12, EmptyChain DEF Separate
<1>21. warned' \subseteq Kinds /\ TodoOK'
  <2>1. warned' \subseteq Kinds
    BY <1>1, <1>2 DEF Kinds
  <2> QED
    BY <2>1, <1>1, <1>2 DEF TodoOK
<1>22. ArenaOK'
  BY <1>11 DEF ArenaGrows
<1> QED
  BY <1>1, <1>2, <1>12, <1>13, <1>14, <1>18, <1>20, <1>21, <1>22 DEF WalkInv, Shaped

LEMMA CarryIs ==
    ASSUME NEW x, IsIFD(x)
    PROVE  /\ IsIFD([x EXCEPT !.strips = None]) /\ [x EXCEPT !.strips = None].thumb = x.thumb
           /\ x.strips # None => /\ IsIFD([x EXCEPT !.carried = x.strips])
                                 /\ [x EXCEPT !.carried = x.strips].thumb = x.thumb
<1>1. x = [of |-> x.of, inline |-> x.inline, vals |-> x.vals, ptr |-> x.ptr, jif |-> x.jif,
           thumb |-> x.thumb, strips |-> x.strips, carried |-> x.carried,
           slots |-> x.slots, room |-> x.room]
  BY DEF IsIFD
<1>2. x.ptr = [t \in Pointers |-> x.ptr[t]]
  BY DEF IsIFD
<1> DEFINE y == [x EXCEPT !.strips = None]
           z == [x EXCEPT !.carried = x.strips]
<1>3. y = [of |-> x.of, inline |-> x.inline, vals |-> x.vals, ptr |-> x.ptr, jif |-> x.jif,
           thumb |-> x.thumb, strips |-> None, carried |-> x.carried,
           slots |-> x.slots, room |-> x.room]
  BY <1>1
<1>4. z = [of |-> x.of, inline |-> x.inline, vals |-> x.vals, ptr |-> x.ptr, jif |-> x.jif,
           thumb |-> x.thumb, strips |-> x.strips, carried |-> x.strips,
           slots |-> x.slots, room |-> x.room]
  BY <1>1
<1> HIDE DEF y, z
<1>5. IsIFD(y) /\ y.thumb = x.thumb
  BY <1>2, <1>3 DEF IsIFD
<1>6. x.strips # None => IsIFD(z) /\ z.thumb = x.thumb
  BY <1>2, <1>4 DEF IsIFD
<1> QED
  BY <1>5, <1>6 DEF y, z

LEMMA StripsStep == ASSUME WalkInv, Strips PROVE WalkInv'
<1>1. /\ IsSource(b) /\ IsTree(tree) /\ TodoOK /\ WalkOK /\ ArenaOK /\ Charged /\ ThumbsOK
      /\ Given /\ Separate /\ warned \subseteq Kinds
  BY DEF WalkInv, Shaped
<1> DEFINE c == tree.chain
           n == Len(c)
           d == [i \in DOMAIN c |-> Carry(i)]
<1>2. /\ tree' = [tree EXCEPT !.chain = d] /\ d = [i \in DOMAIN c |-> d[i]]
      /\ \A i \in DOMAIN c : d[i] = Carry(i)
  BY DEF Strips
<1>3. /\ todo = <<<<"strips">>>> /\ todo' = <<>> /\ b' = b /\ walk' = walk /\ bud' = bud
      /\ arena' = arena /\ spent' = spent /\ warned' \subseteq Kinds
  BY <1>1 DEF Strips, Kinds
<1>4. walk = None
  BY <1>1, <1>3 DEF WalkOK
<1>5. IsChain(c) /\ n \in Nat /\ DOMAIN c = 1..n
  BY <1>1 DEF IsTree, IsChain, IsList
<1> HIDE DEF d
<1>6. ASSUME NEW i \in 1..n PROVE IsIFD(d[i]) /\ d[i].thumb = c[i].thumb
  <2>1. IsIFD(c[i]) /\ d[i] = Carry(i)
    BY <1>2, <1>5 DEF IsChain
  <2>2. \/ Carry(i) = c[i]
        \/ c[i].strips # None /\ Carry(i) = [c[i] EXCEPT !.carried = c[i].strips]
        \/ Carry(i) = [c[i] EXCEPT !.strips = None]
    BY DEF Carry, Looks
  <2> QED
    BY <2>1, <2>2, CarryIs, ZenonT(60)
<1>7. d = [i \in 1..n |-> d[i]]
  BY <1>2, <1>5
<1>8. Len(d) = n
  BY <1>5, <1>7, MadeList
<1>9. IsChain(d)
  BY <1>5, <1>6, <1>7, <1>8 DEF IsChain, IsList
<1>10. CarriedThumbs(d) = CarriedThumbs(c)
  BY <1>5, <1>6, <1>8, <1>9, ThumbsSame
<1>11. /\ tree = [chain |-> c, exif |-> tree.exif, gps |-> tree.gps, interop |-> tree.interop,
                  sub |-> tree.sub]
       /\ tree.sub = [i \in 1..n |-> tree.sub[i]]
       /\ (\A t \in Pointers : tree[t] = None \/ IsIFD(tree[t])) /\ \A i \in 1..n : IsSub(tree.sub[i])
  BY <1>1 DEF IsTree
<1> HIDE DEF c, n
<1>12. tree' = [chain |-> d, exif |-> tree.exif, gps |-> tree.gps, interop |-> tree.interop,
                sub |-> tree.sub]
  BY <1>2, <1>11
<1>13. /\ (tree.chain)' = d /\ (tree.sub)' = tree.sub /\ \A t \in Pointers : tree'[t] = tree[t]
  BY <1>11, <1>12 DEF Pointers
<1>14. IsTree(tree')
  BY <1>8, <1>9, <1>11, <1>12, <1>13 DEF IsTree
<1>15. TodoOK' /\ WalkOK' /\ ArenaOK'
  BY <1>1, <1>3, <1>4 DEF TodoOK, WalkOK, ArenaOK
<1>16. Now' = Now /\ ThumbsOK'
  BY <1>1, <1>3, <1>4, <1>10, <1>13 DEF Now, ThumbsOK, c
<1>17. Given' /\ Separate'
  BY <1>1, <1>3, <1>13, <1>16 DEF Given, Separate
<1> QED
  BY <1>1, <1>3, <1>14, <1>15, <1>16, <1>17, ChargedStays DEF WalkInv, Shaped

LEMMA ParseStep == ASSUME WalkInv, Parse PROVE WalkInv'
BY BeginStep, EndSteps, UnreadableStep, FollowStep, StripsStep DEF Parse

LEMMA WalkStays == ASSUME WalkInv, UNCHANGED walkVars PROVE WalkInv'
<1>1. /\ b' = b /\ todo' = todo /\ walk' = walk /\ bud' = bud /\ arena' = arena /\ tree' = tree
      /\ spent' = spent /\ warned' = warned
  BY DEF walkVars
<1> QED
  BY <1>1 DEF WalkInv, Shaped, TodoOK, WalkOK, ArenaOK, Charged, Directories, Now, ThumbsOK, Given, Separate

-----------------------------------------------------------------------------
(* Sizes.                                                                  *)

LEMMA EvenIs == ASSUME NEW n \in Nat
                PROVE  /\ Even(n) \in Nat /\ n <= Even(n) /\ Even(n) <= n + 1 /\ Even(n) % 2 = 0
                       /\ (n % 2 = 0 => Even(n) = n) /\ (n % 2 = 1 => Even(n) = n + 1)
BY DEF Even

LEMMA EvenSum == ASSUME NEW m \in Nat, NEW n \in Nat, m % 2 = 0
                 PROVE  Even(m + n) = m + Even(n)
BY DEF Even

LEMMA ValuesEndIs ==
    ASSUME NEW start \in Nat, NEW vals \in Seq(Nat) PROVE ValuesEnd(start, vals) \in Nat
<1> DEFINE n == Len(vals)
           next(k, v) == IF vals[k] > Threshold THEN Even(v) + vals[k] ELSE v
           Rule(f) == f = [k \in 0..n |-> IF k = 0 THEN start
                                          ELSE IF vals[k] > Threshold THEN Even(f[k - 1]) + vals[k]
                                          ELSE f[k - 1]]
           h == [k \in 1..n |-> [v \in Nat |-> next(k, v)]]
<1>1. n \in Nat /\ \A k \in 1..n : vals[k] \in Nat
  OBVIOUS
<1>2. ASSUME NEW k \in 1..n, NEW v \in Nat PROVE next(k, v) \in Nat
  <2>1. Even(v) \in Nat /\ vals[k] \in Nat
    BY <1>1, EvenIs
  <2> QED
    BY <2>1
<1>3. h \in [1..n -> [Nat -> Nat]] /\ \A k \in 1..n, v \in Nat : h[k][v] = next(k, v)
  <2> HIDE DEF n, next
  <2> QED
    BY <1>2
<1> HIDE DEF h, n
<1>4. PICK f : Steps(f, n, Nat, start, h)
  BY <1>1, <1>3, Recursion
<1>5. f \in [0..n -> Nat] /\ f[0] = start /\ \A k \in 1..n : f[k] = next(k, f[k - 1])
  <2>1. f \in [0..n -> Nat] /\ f[0] = start /\ \A k \in 1..n : f[k] = h[k][f[k - 1]]
    BY <1>4 DEF Steps
  <2>2. \A k \in 1..n : f[k - 1] \in Nat
    BY <2>1, <1>1
  <2> HIDE DEF next
  <2> QED
    BY <2>1, <2>2, <1>3
<1>6. Rule(f)
  BY <1>5
<1> DEFINE g == CHOOSE g : Rule(g)
<1>7. Rule(g) /\ ValuesEnd(start, vals) = g[n]
  <2>1. ValuesEnd(start, vals) = g[n]
    BY DEF ValuesEnd, n
  <2> QED
    BY <2>1, <1>6
<1> HIDE DEF g
<1>8. g[0] = start /\ \A k \in 1..n : g[k] = next(k, g[k - 1])
  BY <1>1, <1>7
<1> DEFINE T == {k \in 0..n : g[k] \in Nat}
<1> HIDE DEF next
<1>9. 0 \in T /\ \A k \in 1..n : k - 1 \in T => k \in T
  <2>1. ASSUME NEW k \in 1..n, g[k - 1] \in Nat PROVE g[k] \in Nat
    <3>1. g[k] = next(k, g[k - 1])
      BY <1>8
    <3>2. next(k, g[k - 1]) \in Nat
      BY <2>1, <1>2
    <3> QED
      BY <3>1, <3>2
  <2>2. g[0] \in Nat /\ 0 \in 0..n
    BY <1>1, <1>8
  <2> QED
    BY <2>1, <2>2
<1> HIDE DEF T
<1>10. \A k \in 0..n : k \in T
  BY <1>9, <1>1, UpTo
<1> QED
  BY <1>1, <1>7, <1>10 DEF T

IsBlock(x) ==
    /\ x = [n |-> x.n, vals |-> x.vals, ptr |-> [t \in Pointers |-> x.ptr[t]], of |-> x.of,
            jif |-> x.jif, inline |-> x.inline, plain |-> x.plain, strips |-> x.strips]
    /\ x.n \in Nat /\ x.vals \in Seq(Nat) /\ x.plain \in Seq(Nat) /\ x.inline \in Nat
    /\ x.jif = None \/ IsData(x.jif)
    /\ x.strips = None \/ IsStrips(x.strips)

LEMMA PointersFinite == ASSUME NEW S, S \subseteq Pointers PROVE Cardinality(S) \in Nat
<1>1. IsFiniteSet({"interop"}) /\ IsFiniteSet({"gps", "interop"}) /\ IsFiniteSet(Pointers)
  <2>1. IsFiniteSet({"interop"})
    BY FS_Singleton
  <2>2. IsFiniteSet({"gps"} \union {"interop"}) /\ {"gps"} \union {"interop"} = {"gps", "interop"}
    BY <2>1, FS_Singleton, FS_Union
  <2>3. IsFiniteSet({"exif"} \union {"gps", "interop"}) /\ {"exif"} \union {"gps", "interop"} = Pointers
    BY <2>2, FS_Singleton, FS_Union DEF Pointers
  <2> QED
    BY <2>1, <2>2, <2>3
<1> QED
  BY <1>1, FS_Subset, FS_CardinalityType

LEMMA BlockIs ==
    ASSUME NEW x, IsIFD(x), NEW ptr, ptr = [t \in Pointers |-> ptr[t]]
    PROVE  IsBlock(Block(x, ptr))
<1> DEFINE B == Block(x, ptr)
           card == Cardinality({t \in Pointers : ptr[t] # None})
<1>1. card \in Nat
  BY PointersFinite
<1>2. x.inline \in Nat /\ x.vals \in Seq(Nat) /\ Len(x.vals) \in Nat
  BY DEF IsIFD
<1>3. x.strips # None => Len(x.strips) \in Nat
  BY DEF IsIFD, IsStrips
<1>4. StripEntries(x) \in Nat /\ StripVals(x) \in Seq(Nat)
  BY <1>3 DEF StripEntries, StripVals
<1> HIDE DEF card
<1>5. B = [n |-> x.inline + Len(x.vals) + StripEntries(x) + (IF x.jif = None THEN 0 ELSE 2) + card,
           vals |-> StripVals(x) \o x.vals, ptr |-> ptr, of |-> x.of, jif |-> x.jif,
           inline |-> x.inline, plain |-> x.vals, strips |-> x.strips]
  BY DEF Block, card
<1> DEFINE m == x.inline + Len(x.vals) + StripEntries(x) + (IF x.jif = None THEN 0 ELSE 2) + card
           w == StripVals(x) \o x.vals
<1>6. m \in Nat /\ w \in Seq(Nat)
  BY <1>1, <1>2, <1>4
<1> HIDE DEF B, m, w
<1>7. B = [n |-> m, vals |-> w, ptr |-> ptr, of |-> x.of, jif |-> x.jif,
           inline |-> x.inline, plain |-> x.vals, strips |-> x.strips]
  BY <1>5 DEF m, w
<1>8. /\ B = [n |-> B.n, vals |-> B.vals, ptr |-> B.ptr, of |-> B.of, jif |-> B.jif,
              inline |-> B.inline, plain |-> B.plain, strips |-> B.strips]
      /\ B.n = m /\ B.vals = w /\ B.ptr = ptr /\ B.jif = x.jif /\ B.inline = x.inline
      /\ B.plain = x.vals /\ B.strips = x.strips
  BY <1>7
<1> QED
  BY <1>2, <1>6, <1>8 DEF IsBlock, IsIFD, B

(* Where a block ends that is written at start.                            *)
EndOf(x, start) == Even(ValuesEnd(start + Fixed(x.n), x.vals))
LEMMA EndIs ==
    ASSUME NEW x, IsBlock(x), NEW start \in Nat
    PROVE  /\ EndOf(x, start) \in Nat /\ EndOf(x, start) % 2 = 0
           /\ WrittenLen(x, start) = EndOf(x, start) - start
           /\ start + WrittenLen(x, start) = EndOf(x, start)
<1>1. x.n \in Nat /\ x.vals \in Seq(Nat)
  BY DEF IsBlock
<1>2. start + Fixed(x.n) \in Nat
  BY <1>1 DEF Fixed
<1>3. ValuesEnd(start + Fixed(x.n), x.vals) \in Nat
  BY <1>1, <1>2, ValuesEndIs
<1>4. EndOf(x, start) \in Nat /\ EndOf(x, start) % 2 = 0
  BY <1>3, EvenIs DEF EndOf
<1>5. WrittenLen(x, start) = EndOf(x, start) - start
  BY DEF WrittenLen, EndOf
<1> QED
  BY <1>4, <1>5

-----------------------------------------------------------------------------
(* The output.                                                             *)

OutOK(o) ==
    /\ o = [len |-> o.len, ifds |-> o.ifds, data |-> o.data, todo |-> o.todo]
    /\ o.len \in Nat
    /\ IsList(o.ifds) /\ \A k \in 1..Len(o.ifds) : IsDirectory(o.ifds[k][2])

LEMMA AtIs ==
    ASSUME NEW x, IsBlock(x), NEW ptr, ptr = [t \in Pointers |-> ptr[t]], NEW next,
           NEW jif, jif = None \/ IsData(jif), NEW strips, strips = None \/ IsStrips(strips)
    PROVE  IsDirectory(At(x, ptr, next, jif, strips))
<1> DEFINE d == At(x, ptr, next, jif, strips)
<1>1. d = [of |-> x.of, count |-> x.n, fits |-> TRUE, inline |-> x.inline, vals |-> x.plain,
           next |-> next, ptr |-> ptr, jif |-> jif, strips |-> strips]
  BY DEF At
<1> HIDE DEF d
<1>2. /\ d = [of |-> d.of, count |-> d.count, fits |-> d.fits, inline |-> d.inline, vals |-> d.vals,
              next |-> d.next, ptr |-> d.ptr, jif |-> d.jif, strips |-> d.strips]
      /\ d.count = x.n /\ d.inline = x.inline /\ d.vals = x.plain /\ d.ptr = ptr /\ d.jif = jif
      /\ d.strips = strips
  BY <1>1
<1> QED
  BY <1>2 DEF IsDirectory, IsBlock, d

LEMMA PutIs ==
    ASSUME NEW o, OutOK(o), NEW x, IsBlock(x), NEW dir, IsDirectory(dir)
    PROVE  /\ OutOK(Put(o, x, dir)) /\ Put(o, x, dir).len = EndOf(x, o.len)
           /\ Put(o, x, dir).todo = o.todo
<1> DEFINE s == o.ifds \o <<<<o.len, dir>>>>
           e == o.len + WrittenLen(x, o.len)
<1>1. o.len \in Nat /\ IsList(o.ifds)
      /\ o = [len |-> o.len, ifds |-> o.ifds, data |-> o.data, todo |-> o.todo]
  BY DEF OutOK
<1>2. s = Append(o.ifds, <<o.len, dir>>)
  BY <1>1, ListIsSeq
<1>3. e = EndOf(x, o.len) /\ e \in Nat
  BY <1>1, EndIs
<1>4. Put(o, x, dir) = [o EXCEPT !.ifds = s, !.len = e]
  BY DEF Put
<1> HIDE DEF s, e
<1>5. Put(o, x, dir) = [len |-> e, ifds |-> s, data |-> o.data, todo |-> o.todo]
  BY <1>1, <1>4
<1>6. IsList(s) /\ \A k \in 1..Len(s) : IsDirectory(s[k][2])
  <2>1. /\ IsList(s) /\ Len(s) = Len(o.ifds) + 1 /\ s[Len(o.ifds) + 1] = <<o.len, dir>>
        /\ \A i \in 1..Len(o.ifds) : s[i] = o.ifds[i]
    BY <1>1, <1>2, AppendList
  <2>2. Len(o.ifds) \in Nat /\ <<o.len, dir>>[2] = dir
    BY <1>1 DEF IsList
  <2>3. ASSUME NEW k \in 1..Len(s) PROVE IsDirectory(s[k][2])
    <3>1. CASE k = Len(o.ifds) + 1
      BY <3>1, <2>1, <2>2
    <3>2. CASE k # Len(o.ifds) + 1
      <4>1. k \in 1..Len(o.ifds)
        BY <3>2, <2>1, <2>2
      <4> QED
        BY <4>1, <2>1 DEF OutOK
    <3> QED
      BY <3>1, <3>2
  <2> QED
    BY <2>1, <2>3
<1> QED
  BY <1>3, <1>5, <1>6 DEF OutOK

(* The thumbnail and the strips end where they were planned to.            *)
LEMMA ThumbEndIs ==
    ASSUME NEW x, IsIFD(x), x.carried # None, NEW start \in Nat
    PROVE  \E f \in [0..Len(x.carried) -> Nat] :
             /\ f[0] = start + ThumbLen(x)
             /\ \A k \in 1..Len(x.carried) : f[k] = Even(f[k - 1]) + x.carried[k].len
             /\ ThumbEnd(x, start) = f[Len(x.carried)]
<1> DEFINE n == Len(x.carried)
           a == start + ThumbLen(x)
           next(k, v) == Even(v) + x.carried[k].len
           Rule(f) == f = [k \in 0..n |-> IF k = 0 THEN a ELSE Even(f[k - 1]) + x.carried[k].len]
           h == [k \in 1..n |-> [v \in Nat |-> next(k, v)]]
<1>1. n \in Nat /\ a \in Nat /\ \A k \in 1..n : x.carried[k].len \in Nat
  <2>1. IsStrips(x.carried) /\ ThumbLen(x) \in Nat
    BY ThumbLenNat DEF IsIFD
  <2>2. n \in Nat /\ \A k \in 1..n : IsData(x.carried[k])
    BY <2>1 DEF IsStrips
  <2>3. \A k \in 1..n : x.carried[k].len \in Nat
    BY <2>2 DEF IsData
  <2> HIDE DEF n
  <2> QED
    BY <2>1, <2>2, <2>3
<1>2. ASSUME NEW k \in 1..n, NEW v \in Nat PROVE next(k, v) \in Nat
  <2>1. Even(v) \in Nat /\ x.carried[k].len \in Nat
    BY <1>1, EvenIs
  <2> QED
    BY <2>1
<1>3. h \in [1..n -> [Nat -> Nat]] /\ \A k \in 1..n, v \in Nat : h[k][v] = next(k, v)
  <2> HIDE DEF n, next
  <2> QED
    BY <1>2
<1> HIDE DEF h, n, a
<1>4. PICK f : Steps(f, n, Nat, a, h)
  BY <1>1, <1>3, Recursion
<1>5. f \in [0..n -> Nat] /\ f[0] = a /\ \A k \in 1..n : f[k] = next(k, f[k - 1])
  <2>1. f \in [0..n -> Nat] /\ f[0] = a /\ \A k \in 1..n : f[k] = h[k][f[k - 1]]
    BY <1>4 DEF Steps
  <2>2. \A k \in 1..n : f[k - 1] \in Nat
    BY <2>1, <1>1
  <2> HIDE DEF next
  <2> QED
    BY <2>1, <2>2, <1>3
<1>6. Rule(f)
  BY <1>5
<1> DEFINE g == CHOOSE g : Rule(g)
<1>7. Rule(g) /\ ThumbEnd(x, start) = g[n]
  <2>1. ThumbEnd(x, start) = g[n]
    BY DEF ThumbEnd, n, a
  <2> QED
    BY <2>1, <1>6
<1> HIDE DEF g
<1>8. g[0] = a /\ \A k \in 1..n : g[k] = next(k, g[k - 1])
  BY <1>1, <1>7
<1> DEFINE T == {k \in 0..n : g[k] \in Nat}
<1>9. 0 \in T /\ \A k \in 1..n : k - 1 \in T => k \in T
  <2>1. ASSUME NEW k \in 1..n, g[k - 1] \in Nat PROVE g[k] \in Nat
    BY <2>1, <1>8, <1>2
  <2>2. g[0] \in Nat /\ 0 \in 0..n
    BY <1>1, <1>8
  <2> QED
    BY <2>1, <2>2
<1> HIDE DEF T
<1>10. \A k \in 0..n : k \in T
  BY <1>9, <1>1, UpTo
<1>11. g \in [0..n -> Nat]
  <2>1. g = [i \in 0..n |-> g[i]]
    BY <1>7
  <2>2. \A k \in 0..n : g[k] \in Nat
    BY <1>10 DEF T
  <2> QED
    BY <2>1, <2>2
<1> QED
  BY <1>7, <1>8, <1>11 DEF n, a

LEMMA ThumbEndNat ==
    ASSUME NEW x, IsIFD(x), NEW start \in Nat
    PROVE  /\ ThumbEnd(x, start) \in Nat
           /\ x.carried = None => ThumbEnd(x, start) = start + ThumbLen(x)
<1>1. CASE x.carried = None
  <2>1. ThumbEnd(x, start) = start + ThumbLen(x)
    BY <1>1 DEF ThumbEnd
  <2> QED
    BY <2>1, ThumbLenNat
<1>2. CASE x.carried # None
  <2>1. Len(x.carried) \in Nat
    BY <1>2 DEF IsIFD, IsStrips
  <2> QED
    BY <2>1, <1>2, ThumbEndIs
<1> QED
  BY <1>1, <1>2

(* AppendThumb ends there, padded when an IFD follows.                     *)
PadTo(e, from) == IF e % 2 = 1 /\ from > e THEN e + 1 ELSE e

Same(o, q) == q.ifds = o.ifds /\ q.todo = o.todo

(* The outputs that differ from o in their thumbnail data and their length. *)
Outs(o, D) == [len : Nat, ifds : {o.ifds}, data : SUBSET D, todo : {o.todo}]

LEMMA OutsOK ==
    ASSUME NEW o, OutOK(o), NEW D, NEW q \in Outs(o, D) PROVE OutOK(q) /\ Same(o, q)
<1>1. /\ q = [len |-> q.len, ifds |-> q.ifds, data |-> q.data, todo |-> q.todo]
      /\ q.len \in Nat /\ q.ifds = o.ifds /\ q.todo = o.todo
  BY DEF Outs
<1> QED
  BY <1>1 DEF OutOK, Same

LEMMA InOuts == ASSUME NEW o, OutOK(o), NEW D, o.data \subseteq D PROVE o \in Outs(o, D)
<1> DEFINE n == o.len
           f == o.ifds
           d == o.data
           t == o.todo
<1>1. o = [len |-> n, ifds |-> f, data |-> d, todo |-> t] /\ n \in Nat /\ d \in SUBSET D
  BY DEF OutOK
<1>2. Outs(o, D) = [len : Nat, ifds : {f}, data : SUBSET D, todo : {t}]
  BY DEF Outs
<1> HIDE DEF n, f, d, t
<1> QED
  BY <1>1, <1>2

LEMMA PadIs ==
    ASSUME NEW o, OutOK(o), NEW D, NEW q \in Outs(o, D), NEW from
    PROVE  Pad(q, from) \in Outs(o, D) /\ Pad(q, from).len = PadTo(q.len, from)
<1> DEFINE m == q.len + 1
           r == [q EXCEPT !.len = m]
<1>1. q.len \in Nat /\ m \in Nat
  BY DEF Outs
<1>2. Pad(q, from) = IF q.len % 2 = 1 /\ from > q.len THEN r ELSE q
  BY DEF Pad
<1> HIDE DEF m
<1>3. r \in Outs(o, D) /\ r.len = m
  BY <1>1 DEF Outs
<1> HIDE DEF r
<1> QED
  BY <1>2, <1>3 DEF PadTo, m

(* A strip is written on the next word.                                    *)
Strip(q, s) == [q EXCEPT !.data = @ \union {[s EXCEPT !.at = Even(q.len)]}, !.len = Even(@) + s.len]
AllStrips(q, s) ==
    LET with[k \in 0..Len(s)] == IF k = 0 THEN q ELSE Strip(with[k - 1], s[k]) IN with[Len(s)]
Moved(s, D) == \A a \in Nat : [s EXCEPT !.at = a] \in D

LEMMA StripIs ==
    ASSUME NEW o, NEW D, NEW q \in Outs(o, D), NEW s, s.len \in Nat, Moved(s, D)
    PROVE  Strip(q, s) \in Outs(o, D) /\ Strip(q, s).len = Even(q.len) + s.len
<1> DEFINE m == Even(q.len) + s.len
           d == q.data \union {[s EXCEPT !.at = Even(q.len)]}
<1>1. q.len \in Nat /\ q.data \subseteq D
  BY DEF Outs
<1>2. Even(q.len) \in Nat
  BY <1>1, EvenIs
<1>3. m \in Nat /\ d \in SUBSET D
  BY <1>1, <1>2 DEF Moved
<1>4. Strip(q, s) = [q EXCEPT !.data = d, !.len = m]
  BY DEF Strip
<1> HIDE DEF m, d
<1>5. [q EXCEPT !.data = d, !.len = m] \in Outs(o, D) /\ [q EXCEPT !.data = d, !.len = m].len = m
  BY <1>3 DEF Outs
<1>6. Strip(q, s) \in Outs(o, D) /\ Strip(q, s).len = m
  BY <1>4, <1>5
<1> QED
  BY <1>6 DEF m

LEMMA StripsWritten ==
    ASSUME NEW o, OutOK(o), NEW D, NEW jpeg \in Outs(o, D), NEW s, IsStrips(s),
           \A k \in 1..Len(s) : Moved(s[k], D),
           NEW f \in [0..Len(s) -> Nat], f[0] = jpeg.len,
           \A k \in 1..Len(s) : f[k] = Even(f[k - 1]) + s[k].len
    PROVE  AllStrips(jpeg, s) \in Outs(o, D) /\ AllStrips(jpeg, s).len = f[Len(s)]
<1> DEFINE n == Len(s)
           S == Outs(o, D)
           Rule(w) == w = [k \in 0..n |-> IF k = 0 THEN jpeg ELSE Strip(w[k - 1], s[k])]
           h == [k \in 1..n |-> [q \in S |-> Strip(q, s[k])]]
<1>1. n \in Nat /\ \A k \in 1..n : s[k].len \in Nat
  <2>1. n \in Nat /\ \A k \in 1..n : IsData(s[k])
    BY DEF IsStrips
  <2>2. \A k \in 1..n : s[k].len \in Nat
    BY <2>1 DEF IsData
  <2> QED
    BY <2>1, <2>2
<1>2. \A k \in 1..n : Moved(s[k], D)
  OBVIOUS
<1>3. ASSUME NEW k \in 1..n, NEW q \in S
      PROVE  Strip(q, s[k]) \in S /\ Strip(q, s[k]).len = Even(q.len) + s[k].len
  <2>1. s[k].len \in Nat /\ Moved(s[k], D)
    BY <1>1, <1>2
  <2> QED
    BY <2>1, StripIs
<1>4. jpeg \in S /\ f[0] = jpeg.len /\ \A k \in 1..n : f[k] = Even(f[k - 1]) + s[k].len
  OBVIOUS
<1> HIDE DEF n, S
<1>5. h \in [1..n -> [S -> S]] /\ \A k \in 1..n, q \in S : h[k][q] = Strip(q, s[k])
  BY <1>3
<1> HIDE DEF h
<1>6. PICK w : Steps(w, n, S, jpeg, h)
  BY <1>1, <1>4, <1>5, Recursion
<1>7. w \in [0..n -> S] /\ w[0] = jpeg /\ \A k \in 1..n : w[k] = Strip(w[k - 1], s[k])
  <2>1. w \in [0..n -> S] /\ w[0] = jpeg /\ \A k \in 1..n : w[k] = h[k][w[k - 1]]
    BY <1>6 DEF Steps
  <2>2. \A k \in 1..n : w[k - 1] \in S
    BY <2>1, <1>1
  <2> QED
    BY <2>1, <2>2, <1>5
<1>8. Rule(w)
  BY <1>7
<1> DEFINE g == CHOOSE g : Rule(g)
<1>9. Rule(g) /\ AllStrips(jpeg, s) = g[n]
  <2>1. AllStrips(jpeg, s) = g[n]
    BY DEF AllStrips, n
  <2> QED
    BY <2>1, <1>8
<1> HIDE DEF g
<1>10. g[0] = jpeg /\ \A k \in 1..n : g[k] = Strip(g[k - 1], s[k])
  BY <1>1, <1>9
<1> DEFINE T == {k \in 0..n : g[k] \in S /\ g[k].len = f[k]}
<1>11. 0 \in T /\ \A k \in 1..n : k - 1 \in T => k \in T
  <2>1. ASSUME NEW k \in 1..n, g[k - 1] \in S, g[k - 1].len = f[k - 1]
        PROVE  g[k] \in S /\ g[k].len = f[k]
    <3>1. g[k] = Strip(g[k - 1], s[k])
      BY <1>10
    <3>2. g[k] \in S /\ g[k].len = Even(g[k - 1].len) + s[k].len
      BY <2>1, <3>1, <1>3
    <3> QED
      BY <2>1, <3>2, <1>4
  <2>2. 0 \in T
    BY <1>1, <1>4, <1>10
  <2> QED
    BY <2>1, <2>2
<1> HIDE DEF T
<1>12. \A k \in 0..n : k \in T
  BY <1>1, <1>11, UpTo
<1>13. g[n] \in S /\ g[n].len = f[n]
  BY <1>1, <1>12 DEF T
<1> QED
  BY <1>9, <1>13 DEF n, S

LEMMA ThumbWritten ==
    ASSUME NEW o, OutOK(o), NEW x, IsIFD(x), NEW l
    PROVE  LET q == AppendThumb(o, x, l)
           IN /\ OutOK(q) /\ Same(o, q)
              /\ q.len = IF x.thumb = None /\ x.carried = None THEN o.len
                         ELSE PadTo(ThumbEnd(x, o.len), l.exif)
<1> DEFINE thumb == [at |-> o.len, len |-> x.thumb.len, of |-> x.thumb.of]
           D == (o.data \union {thumb}) \union {[x.carried[k] EXCEPT !.at = a] : k \in 1..Len(x.carried), a \in Nat}
           jpeg == IF x.thumb = None THEN o
                   ELSE [o EXCEPT !.data = @ \union {thumb}, !.len = @ + x.thumb.len]
           done == IF x.carried = None THEN jpeg ELSE AllStrips(jpeg, x.carried)
<1>1. o.len \in Nat /\ ThumbLen(x) \in Nat
  BY ThumbLenNat DEF OutOK
<1>2. o \in Outs(o, D)
  BY InOuts
<1>3. jpeg \in Outs(o, D) /\ jpeg.len = o.len + ThumbLen(x)
  <2>1. CASE x.thumb = None
    BY <2>1, <1>1, <1>2 DEF ThumbLen
  <2>2. CASE x.thumb # None
    <3> DEFINE m == o.len + ThumbLen(x)
               d == o.data \union {thumb}
    <3>1. jpeg = [o EXCEPT !.data = d, !.len = m] /\ m \in Nat /\ d \in SUBSET D
      BY <2>2, <1>1 DEF ThumbLen
    <3> HIDE DEF m, d, jpeg, D
    <3>2. [o EXCEPT !.data = d, !.len = m] \in Outs(o, D) /\ [o EXCEPT !.data = d, !.len = m].len = m
      BY <3>1, <1>2 DEF Outs
    <3> QED
      BY <3>1, <3>2 DEF m
  <2> QED
    BY <2>1, <2>2
<1>4. CASE x.thumb = None /\ x.carried = None
  BY <1>4 DEF AppendThumb, Same
<1>5. done \in Outs(o, D) /\ done.len = ThumbEnd(x, o.len)
  <2>1. CASE x.carried = None
    <3>1. ThumbEnd(x, o.len) = o.len + ThumbLen(x)
      BY <2>1, <1>1, ThumbEndNat
    <3> HIDE DEF jpeg, D
    <3> QED
      BY <2>1, <3>1, <1>3
  <2>2. CASE x.carried # None
    <3> DEFINE s == x.carried
    <3>1. IsStrips(s)
      BY <2>2 DEF IsIFD
    <3>2. PICK f \in [0..Len(s) -> Nat] :
            /\ f[0] = o.len + ThumbLen(x)
            /\ \A k \in 1..Len(s) : f[k] = Even(f[k - 1]) + s[k].len
            /\ ThumbEnd(x, o.len) = f[Len(s)]
      BY <2>2, <1>1, ThumbEndIs
    <3>3. \A k \in 1..Len(s) : Moved(s[k], D)
      BY DEF Moved
    <3>4. done = AllStrips(jpeg, s)
      BY <2>2
    <3> HIDE DEF jpeg, D, s
    <3>5. AllStrips(jpeg, s) \in Outs(o, D) /\ AllStrips(jpeg, s).len = f[Len(s)]
      BY <3>1, <3>2, <3>3, <1>3, StripsWritten
    <3> QED
      BY <3>2, <3>4, <3>5
  <2> QED
    BY <2>1, <2>2
<1>6. CASE ~(x.thumb = None /\ x.carried = None)
  <2>1. AppendThumb(o, x, l) = Pad(done, l.exif)
    BY <1>6 DEF AppendThumb, Strip, AllStrips
  <2> HIDE DEF done, D
  <2> DEFINE q == AppendThumb(o, x, l)
  <2>2. q \in Outs(o, D) /\ q.len = PadTo(ThumbEnd(x, o.len), l.exif)
    BY <1>5, <2>1, PadIs
  <2> HIDE DEF q
  <2>3. OutOK(q) /\ Same(o, q)
    BY <2>2, OutsOK
  <2> QED
    BY <1>6, <2>2, <2>3 DEF q
<1> QED
  BY <1>4, <1>6

-----------------------------------------------------------------------------
(* A parse that starts in the next state.                                  *)
LEMMA StartNext == (\A f : IsSource(f) /\ Start(f) => WalkInv)'
BY StartInv, PTL

LEMMA StartAgain == ASSUME NEW f, IsSource(f), Start(f)' PROVE WalkInv'
BY StartNext

(* The blocks of a tree.                                                   *)
LEMMA PtrIs ==
    ASSUME NEW a, NEW c, NEW d
    PROVE  LET r == [exif |-> a, gps |-> c, interop |-> d] IN r = [t \in Pointers |-> r[t]]
BY DEF Pointers

LEMMA TreeIs ==
    ASSUME NEW v, IsTree(v)
    PROVE  /\ Len(v.chain) \in Nat /\ (v.chain # <<>> => 1 \in 1..Len(v.chain))
           /\ \A i \in 1..Len(v.chain) : IsIFD(v.chain[i]) /\ IsSub(v.sub[i])
           /\ \A t \in Pointers : v[t] = None \/ IsIFD(v[t])
<1>1. Len(v.chain) \in Nat /\ IsList(v.chain)
  BY DEF IsTree, IsChain, IsList
<1>2. v.chain # <<>> => 1 \in 1..Len(v.chain)
  BY <1>1, ListIsSeq, EmptySeq
<1> QED
  BY <1>1, <1>2 DEF IsTree, IsChain

LEMMA FirstBlock == ASSUME NEW v, IsTree(v), v.chain # <<>> PROVE IsBlock(IFD0Block(v))
BY TreeIs, PtrIs, BlockIs DEF IFD0Block

LEMMA VerbatimIs == ASSUME NEW x, IsIFD(x) PROVE IsBlock(VerbatimBlock(x))
<1>1. x.ptr = [t \in Pointers |-> x.ptr[t]]
  BY DEF IsIFD
<1> QED
  BY <1>1, BlockIs DEF VerbatimBlock

LEMMA InteropSet ==
    ASSUME NEW x, IsIFD(x), NEW p
    PROVE  LET r == [x.ptr EXCEPT !["interop"] = p] IN r = [t \in Pointers |-> r[t]]
BY DEF IsIFD

LEMMA ExifIs == ASSUME NEW v, IsTree(v), v.exif # None PROVE IsBlock(ExifBlock(v))
<1>1. IsIFD(v.exif)
  BY DEF IsTree, Pointers
<1> QED
  BY <1>1, InteropSet, BlockIs DEF ExifBlock

LEMMA ChainBlockIs == ASSUME NEW v, IsTree(v), NEW i \in 1..Len(v.chain) PROVE IsBlock(ChainBlock(v, i))
BY TreeIs, PtrIs, BlockIs DEF ChainBlock

LEMMA SubExifIs ==
    ASSUME NEW v, IsTree(v), NEW i \in 1..Len(v.chain), v.sub[i].exif # None
    PROVE  IsBlock(SubExifBlock(v, i))
<1>1. IsIFD(v.sub[i].exif)
  BY TreeIs DEF IsSub, Pointers
<1> QED
  BY <1>1, InteropSet, BlockIs DEF SubExifBlock

-----------------------------------------------------------------------------
(* The edits keep a value well formed.                                     *)
LEMMA LongerValue ==
    ASSUME NEW x, IsIFD(x) PROVE IsIFD([x EXCEPT !.vals = Append(@, 11)])
<1> DEFINE y == [x EXCEPT !.vals = Append(@, 11)]
           w == Append(x.vals, 11)
<1>1. w \in Seq(Nat)
  BY DEF IsIFD
<1>2. y = [x EXCEPT !.vals = w]
  OBVIOUS
<1> HIDE DEF w
<1>3. x = [of |-> x.of, inline |-> x.inline, vals |-> x.vals, ptr |-> x.ptr, jif |-> x.jif,
           thumb |-> x.thumb, strips |-> x.strips, carried |-> x.carried,
           slots |-> x.slots, room |-> x.room]
      /\ x.ptr = [t \in Pointers |-> x.ptr[t]]
  BY DEF IsIFD
<1>4. y = [of |-> x.of, inline |-> x.inline, vals |-> w, ptr |-> x.ptr, jif |-> x.jif,
           thumb |-> x.thumb, strips |-> x.strips, carried |-> x.carried,
           slots |-> x.slots, room |-> x.room]
  BY <1>2, <1>3
<1> HIDE DEF y
<1>5. /\ y = [of |-> y.of, inline |-> y.inline, vals |-> y.vals, ptr |-> y.ptr, jif |-> y.jif,
              thumb |-> y.thumb, strips |-> y.strips, carried |-> y.carried,
              slots |-> y.slots, room |-> y.room]
      /\ y.inline = x.inline /\ y.vals = w /\ y.ptr = x.ptr /\ y.jif = x.jif /\ y.thumb = x.thumb
      /\ y.strips = x.strips /\ y.carried = x.carried
  BY <1>4
<1>6. y.ptr = [t \in Pointers |-> y.ptr[t]]
  BY <1>3, <1>5
<1> QED
  BY <1>1, <1>5, <1>6 DEF IsIFD, y

LEMMA Renamed == ASSUME NEW x, IsIFD(x) PROVE IsIFD([x EXCEPT !.of = "new", !.inline = 0])
<1> DEFINE o == "new"
           z == 0
           y == [x EXCEPT !.of = o, !.inline = z]
<1>1. x = [of |-> x.of, inline |-> x.inline, vals |-> x.vals, ptr |-> x.ptr, jif |-> x.jif,
           thumb |-> x.thumb, strips |-> x.strips, carried |-> x.carried,
           slots |-> x.slots, room |-> x.room]
  BY DEF IsIFD
<1>2. x.ptr = [t \in Pointers |-> x.ptr[t]]
  BY DEF IsIFD
<1>3. z \in Nat /\ y = [x EXCEPT !.of = o, !.inline = z]
  OBVIOUS
<1> HIDE DEF o, z, y
<1>4. y = [of |-> o, inline |-> z, vals |-> x.vals, ptr |-> x.ptr, jif |-> x.jif,
           thumb |-> x.thumb, strips |-> x.strips, carried |-> x.carried,
           slots |-> x.slots, room |-> x.room]
  BY <1>1, <1>3
<1>5. /\ y = [of |-> y.of, inline |-> y.inline, vals |-> y.vals, ptr |-> y.ptr, jif |-> y.jif,
              thumb |-> y.thumb, strips |-> y.strips, carried |-> y.carried,
              slots |-> y.slots, room |-> y.room]
      /\ y.inline = z /\ y.vals = x.vals /\ y.ptr = x.ptr /\ y.jif = x.jif /\ y.thumb = x.thumb
      /\ y.strips = x.strips /\ y.carried = x.carried
  BY <1>4
<1>6. y.ptr = [t \in Pointers |-> y.ptr[t]]
  BY <1>2, <1>5
<1> QED
  BY <1>3, <1>5, <1>6 DEF IsIFD, y, o, z

LEMMA NewExif ==
    IsIFD([Parsed(Junk, FALSE, [slot |-> None, room |-> {}]) EXCEPT !.of = "new", !.inline = 0])
<1> DEFINE x == Parsed(Junk, FALSE, [slot |-> None, room |-> {}])
<1>1. IsIFD(x)
  BY JunkIs, ParsedIs
<1> HIDE DEF x
<1>2. IsIFD([x EXCEPT !.of = "new", !.inline = 0])
  BY <1>1, Renamed
<1> QED
  BY <1>2 DEF x

LEMMA EditedIs ==
    ASSUME IsTree(tree), tree.chain # <<>>, NEW e \in Edits
    PROVE  IsTree(Edited(e)) /\ Edited(e).chain # <<>>
<1> DEFINE v == Edited(e)
           c == tree.chain
           n == Len(c)
<1>1. /\ tree = [chain |-> tree.chain, exif |-> tree.exif, gps |-> tree.gps,
                 interop |-> tree.interop, sub |-> tree.sub]
      /\ tree.sub = [i \in 1..n |-> tree.sub[i]]
      /\ IsChain(c) /\ \A t \in Pointers : tree[t] = None \/ IsIFD(tree[t])
  BY DEF IsTree
<1>2. n \in Nat /\ 1 \in 1..n
  BY <1>1, TreeIs
<1>3. CASE e = "none"
  BY <1>3 DEF Edited
<1>4. CASE e = "nogps"
  <2>1. v = [chain |-> c, exif |-> tree.exif, gps |-> None, interop |-> tree.interop, sub |-> tree.sub]
    BY <1>1, <1>4 DEF Edited
  <2> HIDE DEF v, c, n
  <2>2. /\ v.chain = c /\ v.sub = tree.sub
        /\ \A t \in Pointers : v[t] = IF t = "gps" THEN None ELSE tree[t]
        /\ v = [chain |-> v.chain, exif |-> v.exif, gps |-> v.gps, interop |-> v.interop, sub |-> v.sub]
    BY <2>1 DEF Pointers
  <2>3. \A t \in Pointers : v[t] = None \/ IsIFD(v[t])
    BY <1>1, <2>2
  <2>4. IsTree(v)
    BY <1>1, <2>2, <2>3 DEF IsTree, c, n
  <2> QED
    BY <2>4, <2>2 DEF c, v
<1>5. CASE e = "exif"
  <2> DEFINE y == [Parsed(Junk, FALSE, [slot |-> None, room |-> {}]) EXCEPT !.of = "new", !.inline = 0]
  <2>1. v = IF tree.exif # None THEN tree ELSE [tree EXCEPT !.exif = y]
    BY <1>5 DEF Edited
  <2>2. IsIFD(y)
    BY NewExif
  <2> HIDE DEF y
  <2>3. CASE tree.exif = None
    <3>1. v = [chain |-> c, exif |-> y, gps |-> tree.gps, interop |-> tree.interop, sub |-> tree.sub]
      BY <1>1, <2>1, <2>3
    <3> HIDE DEF v, c, n
    <3>2. /\ v.chain = c /\ v.sub = tree.sub
          /\ \A t \in Pointers : v[t] = IF t = "exif" THEN y ELSE tree[t]
          /\ v = [chain |-> v.chain, exif |-> v.exif, gps |-> v.gps, interop |-> v.interop, sub |-> v.sub]
      BY <3>1 DEF Pointers
    <3>3. \A t \in Pointers : v[t] = None \/ IsIFD(v[t])
      BY <1>1, <2>2, <3>2
    <3>4. IsTree(v)
      BY <1>1, <3>2, <3>3 DEF IsTree, c, n
    <3> QED
      BY <3>4, <3>2 DEF c, v
  <2> QED
    BY <2>1, <2>3
<1>6. CASE e = "caption"
  <2> DEFINE x == [c[1] EXCEPT !.vals = Append(@, 11)]
             d == [c EXCEPT ![1] = x]
  <2>1. IsIFD(x)
    BY <1>1, <1>2, LongerValue DEF IsChain
  <2>2. v = [tree EXCEPT !.chain = d]
    BY <1>6 DEF Edited
  <2> HIDE DEF x
  <2>3. d = [i \in 1..n |-> d[i]] /\ \A i \in 1..n : d[i] = IF i = 1 THEN x ELSE c[i]
    <3>1. c = [i \in 1..n |-> c[i]]
      BY <1>1 DEF IsChain, IsList
    <3> QED
      BY <3>1
  <2> HIDE DEF d, n
  <2>4. IsList(d) /\ Len(d) = n
    BY <1>2, <2>3, MadeList
  <2>5. IsChain(d)
    <3>1. \A i \in 1..n : IsIFD(c[i])
      BY <1>1 DEF IsChain, n
    <3> QED
      BY <2>1, <2>3, <2>4, <3>1 DEF IsChain
  <2>6. d # <<>>
    BY <1>2, <2>4, EmptyChain
  <2>7. v = [chain |-> d, exif |-> tree.exif, gps |-> tree.gps, interop |-> tree.interop, sub |-> tree.sub]
    BY <1>1, <2>2
  <2> HIDE DEF v
  <2> QED
    <3>1. /\ v.chain = d /\ v.sub = tree.sub /\ \A t \in Pointers : v[t] = tree[t]
          /\ v = [chain |-> v.chain, exif |-> v.exif, gps |-> v.gps, interop |-> v.interop, sub |-> v.sub]
      BY <2>7 DEF Pointers
    <3>2. \A i \in 1..n : IsSub(tree.sub[i])
      BY DEF IsTree, n
    <3>3. v.sub = [i \in 1..Len(v.chain) |-> v.sub[i]]
      BY <3>1, <1>1, <2>4 DEF n
    <3>4. \A t \in Pointers : v[t] = None \/ IsIFD(v[t])
      BY <3>1, <1>1
    <3>5. \A i \in 1..Len(v.chain) : IsSub(v.sub[i])
      BY <3>1, <3>2, <2>4
    <3>6. IsTree(v)
      BY <3>1, <3>3, <3>4, <3>5, <2>5 DEF IsTree
    <3> QED
      BY <3>6, <3>1, <2>6 DEF v
<1> QED
  BY <1>3, <1>4, <1>5, <1>6, EditsAssumption

-----------------------------------------------------------------------------
(* The inductive invariant: while a value is encoded the length announced  *)
(* so far is that of the output, and what is left to write is there.       *)
Phases == {"parse", "encode", "reparse", "done", "failed"}
Writes(v) == {<<t>> : t \in {u \in Pointers : v[u] # None}}
               \union {<<"chain", i>> : i \in 2..Len(v.chain)}
Sized == plan.size = out.len \/ (b.big /\ plan.size = None)
PlanOK == plan = [exif |-> plan.exif, gps |-> plan.gps, interop |-> plan.interop,
                  chain |-> plan.chain, size |-> plan.size]
EncodeInv ==
    /\ WalkInv /\ phase \in Phases /\ OutOK(out) /\ PlanOK
    /\ phase = "encode" => IsTree(value) /\ out.todo \in Seq(Writes(value))
    /\ phase \in {"encode", "reparse", "done"} => Sized

LEMMA TodoChanged ==
    ASSUME NEW o, OutOK(o), NEW s
    PROVE  LET q == [o EXCEPT !.todo = s] IN OutOK(q) /\ q.todo = s /\ q.len = o.len
<1> DEFINE q == [o EXCEPT !.todo = s]
<1>1. o = [len |-> o.len, ifds |-> o.ifds, data |-> o.data, todo |-> o.todo]
  BY DEF OutOK
<1>2. q = [len |-> o.len, ifds |-> o.ifds, data |-> o.data, todo |-> s]
  BY <1>1
<1> HIDE DEF q
<1>3. q = [len |-> q.len, ifds |-> q.ifds, data |-> q.data, todo |-> q.todo] /\ q.len = o.len
      /\ q.ifds = o.ifds /\ q.todo = s
  BY <1>2
<1> QED
  BY <1>3 DEF OutOK, q

LEMMA NoOutIs == OutOK(NoOut)
<1>1. NoOut = [len |-> NoOut.len, ifds |-> NoOut.ifds, data |-> NoOut.data, todo |-> NoOut.todo]
      /\ NoOut.len = 0 /\ NoOut.ifds = <<>>
  BY DEF NoOut
<1> QED
  BY <1>1, EmptyChain DEF OutOK, IsChain

LEMMA HeaderOut ==
    LET q == [NoOut EXCEPT !.len = Header] IN OutOK(q) /\ q.len = Header /\ Header \in Nat
<1> DEFINE h == Header
           q == [NoOut EXCEPT !.len = h]
<1>1. h \in Nat
  BY DEF Header
<1> HIDE DEF h
<1>2. OutOK(NoOut) /\ NoOut.data \subseteq {}
  BY NoOutIs DEF NoOut
<1> DEFINE o == NoOut
<1> HIDE DEF o
<1>3. o \in Outs(o, {}) /\ q = [o EXCEPT !.len = h]
  BY <1>2, InOuts DEF o
<1> HIDE DEF q
<1>4. q \in Outs(o, {}) /\ q.len = h
  BY <1>1, <1>3 DEF Outs
<1>5. OutOK(q)
  BY <1>2, <1>4, OutsOK DEF o
<1> QED
  BY <1>1, <1>4, <1>5 DEF q, h

LEMMA PatchIs ==
    ASSUME NEW ptr, NEW own, NEW shared
    PROVE  LET q == PatchTo(ptr, own, shared) IN q = [t \in Pointers |-> q[t]]
BY DEF PatchTo

LEMMA TasksLeft ==
    ASSUME NEW v, IsTree(v), v.chain # <<>>
    PROVE  Task(v, "exif") \o Task(v, "gps") \o Task(v, "interop")
             \o [i \in 1..Len(v.chain) - 1 |-> <<"chain", i + 1>>] \in Seq(Writes(v))
<1> DEFINE F == [i \in 1..Len(v.chain) - 1 |-> <<"chain", i + 1>>]
           m == Len(v.chain) - 1
<1>1. ASSUME NEW t \in Pointers PROVE Task(v, t) \in Seq(Writes(v))
  <2>1. CASE v[t] = None
    BY <2>1 DEF Task
  <2>2. CASE v[t] # None
    <3>1. <<t>> \in Writes(v)
      BY <2>2 DEF Writes
    <3>2. Task(v, t) = <<<<t>>>>
      BY <2>2 DEF Task
    <3> QED
      BY <3>1, <3>2
  <2> QED
    BY <2>1, <2>2
<1>2. m \in Nat
  BY TreeIs
<1>3. F \in Seq(Writes(v))
  <2>1. \A i \in 1..m : <<"chain", i + 1>> \in Writes(v)
    BY <1>2 DEF Writes
  <2>2. F \in [1..m -> Writes(v)]
    BY <2>1
  <2> HIDE DEF m, F
  <2> QED
    BY <1>2, <2>2, SeqDef
<1> HIDE DEF F
<1>4. "exif" \in Pointers /\ "gps" \in Pointers /\ "interop" \in Pointers
  BY DEF Pointers
<1>5. Task(v, "exif") \o Task(v, "gps") \in Seq(Writes(v))
  BY <1>1, <1>4
<1>6. Task(v, "exif") \o Task(v, "gps") \o Task(v, "interop") \in Seq(Writes(v))
  BY <1>1, <1>4, <1>5
<1>7. Task(v, "exif") \o Task(v, "gps") \o Task(v, "interop") \o F \in Seq(Writes(v))
  BY <1>3, <1>6
<1> QED
  BY <1>7 DEF F

LEMMA EncodeStep == ASSUME EncodeInv, NEW e \in Edits, Encode(e) PROVE EncodeInv'
<1>1. /\ WalkInv /\ IsTree(tree) /\ tree.chain # <<>> /\ UNCHANGED walkVars
      /\ b' = b
  BY DEF Encode, EncodeInv, WalkInv, Shaped, walkVars
<1>2. WalkInv'
  BY <1>1, WalkStays
<1> DEFINE v == Edited(e)
           o == ComputeOffsets(v)
           x == IFD0Block(v)
           ptr == PatchTo(x.ptr, o, o)
           next == IF Len(v.chain) > 1 THEN o.chain ELSE 0
           dir == At(x, ptr, next, x.jif, x.strips)
           q == Put([NoOut EXCEPT !.len = Header], x, dir)
           s == Task(v, "exif") \o Task(v, "gps") \o Task(v, "interop")
                  \o [i \in 1..Len(v.chain) - 1 |-> <<"chain", i + 1>>]
           size == IF TooFar(v, o) THEN None ELSE Header + WrittenLen(x, Header)
<1>3. IsTree(v) /\ v.chain # <<>>
  BY <1>1, EditedIs
<1> DEFINE h == [NoOut EXCEPT !.len = Header]
<1>4. /\ value' = v
      /\ plan' = [exif |-> o.exif, gps |-> o.gps, interop |-> o.interop, chain |-> o.chain, size |-> size]
      /\ IF TooFar(v, o) THEN phase' = "failed" /\ out' = NoOut
         ELSE phase' = "encode" /\ out' = [q EXCEPT !.todo = s]
  BY ZenonT(60) DEF Encode
<1> HIDE DEF v
<1>5. IsBlock(x)
  BY <1>3, FirstBlock
<1>6. ptr = [t \in Pointers |-> ptr[t]]
  BY PatchIs
<1> HIDE DEF x, ptr, o, next
<1>7. IsDirectory(dir)
  BY <1>5, <1>6, AtIs DEF IsBlock
<1>8. OutOK(h) /\ h.len = Header /\ Header \in Nat
  BY HeaderOut
<1> HIDE DEF h, dir
<1>9. OutOK(q) /\ q.len = EndOf(x, Header)
  BY <1>5, <1>7, <1>8, PutIs DEF h
<1>10. Header + WrittenLen(x, Header) = EndOf(x, Header)
  BY <1>5, <1>8, EndIs
<1> HIDE DEF q
<1>11. s \in Seq(Writes(v))
  BY <1>3, TasksLeft
<1> HIDE DEF s, size
<1>12. PlanOK' /\ plan'.size = size
  BY <1>4 DEF PlanOK
<1>13. CASE TooFar(v, o)
  BY <1>2, <1>4, <1>12, <1>13, NoOutIs DEF EncodeInv, Phases
<1>14. CASE ~TooFar(v, o)
  <2>1. phase' = "encode" /\ out' = [q EXCEPT !.todo = s]
    BY <1>4, <1>14
  <2>2. OutOK(out') /\ out'.todo = s /\ out'.len = EndOf(x, Header)
    BY <2>1, <1>9, TodoChanged
  <2>3. size = EndOf(x, Header)
    BY <1>10, <1>14 DEF size
  <2>4. Sized'
    BY <2>2, <2>3, <1>12 DEF Sized
  <2>5. IsTree(value') /\ out'.todo \in Seq(Writes(value'))
    BY <1>3, <1>4, <1>11, <2>2
  <2> QED
    BY <1>2, <1>12, <2>1, <2>2, <2>4, <2>5 DEF EncodeInv, Phases
<1> QED
  BY <1>13, <1>14

LEMMA SubWritten ==
    ASSUME NEW o, OutOK(o), NEW x, IsBlock(x), NEW own, NEW shared
    PROVE  LET q == Put(o, x, At(x, PatchTo(x.ptr, own, shared), 0, x.jif, x.strips))
           IN OutOK(q) /\ q.len = EndOf(x, o.len) /\ q.todo = o.todo
<1> DEFINE ptr == PatchTo(x.ptr, own, shared)
           dir == At(x, ptr, 0, x.jif, x.strips)
<1>1. ptr = [t \in Pointers |-> ptr[t]]
  BY PatchIs
<1> HIDE DEF ptr
<1>2. IsDirectory(dir)
  BY <1>1, AtIs DEF IsBlock
<1> HIDE DEF dir
<1>3. LET q == Put(o, x, dir) IN OutOK(q) /\ q.len = EndOf(x, o.len) /\ q.todo = o.todo
  BY <1>2, PutIs
<1> QED
  BY <1>3 DEF dir, ptr

LEMMA EncodeSubStep == ASSUME EncodeInv, EncodeSub PROVE EncodeInv'
<1>1. /\ phase = "encode" /\ out.todo # <<>> /\ Head(out.todo)[1] # "chain" /\ UNCHANGED walkVars
      /\ phase' = phase /\ value' = value /\ b' = b /\ WalkInv /\ OutOK(out) /\ PlanOK
      /\ IsTree(value) /\ out.todo \in Seq(Writes(value)) /\ Sized
  BY DEF EncodeSub, EncodeInv, walkVars
<1> DEFINE t == Head(out.todo)[1]
           x == IF t = "exif" THEN ExifBlock(value) ELSE VerbatimBlock(value[t])
           q == Put(out, x, At(x, PatchTo(x.ptr, plan, plan), 0, x.jif, x.strips))
<1>2. out' = [q EXCEPT !.todo = Tail(@)] /\ plan' = [plan EXCEPT !.size = SizeSub(x)]
  BY DEF EncodeSub
<1>3. t \in Pointers /\ value[t] # None
  <2>1. Head(out.todo) \in Writes(value)
    BY <1>1
  <2>2. PICK u \in Pointers : value[u] # None /\ Head(out.todo) = <<u>>
    BY <2>1, <1>1 DEF Writes
  <2> QED
    BY <2>2
<1>4. IsBlock(x)
  <2>1. IsIFD(value[t])
    BY <1>1, <1>3, TreeIs
  <2>2. CASE t = "exif"
    BY <1>1, <1>3, <2>2, ExifIs
  <2>3. CASE t # "exif"
    BY <2>1, <2>3, VerbatimIs
  <2> QED
    BY <2>2, <2>3
<1> HIDE DEF x, t
<1>5. OutOK(q) /\ q.len = EndOf(x, out.len) /\ q.todo = out.todo
  BY <1>1, <1>4, SubWritten
<1> HIDE DEF q
<1> DEFINE s == Tail(q.todo)
<1>6. OutOK(out') /\ out'.todo = s /\ out'.len = q.len
  <2>1. out' = [q EXCEPT !.todo = s]
    BY <1>2
  <2> HIDE DEF s
  <2> QED
    BY <2>1, <1>5, TodoChanged
<1>7. s \in Seq(Writes(value))
  BY <1>1, <1>5
<1> HIDE DEF s
<1>8. PlanOK' /\ plan'.size = SizeSub(x)
  <2> DEFINE z == SizeSub(x)
  <2> HIDE DEF z
  <2>1. plan' = [plan EXCEPT !.size = z]
    BY <1>2 DEF z
  <2>2. plan' = [exif |-> plan.exif, gps |-> plan.gps, interop |-> plan.interop,
                 chain |-> plan.chain, size |-> z]
    BY <1>1, <2>1 DEF PlanOK
  <2> QED
    BY <2>2 DEF PlanOK, z
<1>9. Sized'
  <2>1. out.len \in Nat
    BY <1>1 DEF OutOK
  <2>2. CASE plan.size = out.len
    <3>1. SizeSub(x) = out.len + WrittenLen(x, out.len)
      BY <2>1, <2>2, SourceAssumption DEF SizeSub
    <3>2. SizeSub(x) = EndOf(x, out.len)
      BY <2>1, <3>1, <1>4, EndIs
    <3> QED
      BY <3>2, <1>5, <1>6, <1>8 DEF Sized
  <2>3. CASE b.big /\ plan.size = None
    BY <2>3, <1>1, <1>8 DEF Sized, SizeSub
  <2> QED
    BY <2>2, <2>3, <1>1 DEF Sized
<1>10. WalkInv'
  BY <1>1, WalkStays
<1> QED
  BY <1>1, <1>6, <1>7, <1>8, <1>9, <1>10 DEF EncodeInv, Phases

-----------------------------------------------------------------------------
(* An IFD of the chain ends where planChain and encodedLen say.            *)
Grown(x, start) == IF x = None THEN start ELSE EndOf(x, start)

LEMMA DataIs == ASSUME NEW r, IsData(r), NEW a PROVE IsData([r EXCEPT !.at = a])
<1> DEFINE q == [r EXCEPT !.at = a]
<1>1. r = [of |-> r.of, at |-> r.at, len |-> r.len] /\ r.len \in Nat
  BY DEF IsData
<1>2. q = [of |-> r.of, at |-> a, len |-> r.len]
  BY <1>1
<1> HIDE DEF q
<1>3. q = [of |-> q.of, at |-> q.at, len |-> q.len] /\ q.len = r.len
  BY <1>2
<1> QED
  BY <1>1, <1>3 DEF IsData, q

LEMMA ChainDirIs ==
    ASSUME NEW v, IsTree(v), NEW i \in 1..Len(v.chain), NEW l
    PROVE  IsDirectory(ChainDir(v, i, ChainBlock(v, i), l))
<1> DEFINE ifd == v.chain[i]
           x == ChainBlock(v, i)
           at == CHOOSE at : at = [k \in DOMAIN ifd.carried |->
                   Even(IF k = 1 THEN l.thumb + ThumbLen(ifd) ELSE at[k - 1] + ifd.carried[k - 1].len)]
           strip == [k \in DOMAIN ifd.carried |-> [ifd.carried[k] EXCEPT !.at = at[k]]]
           ptr == PatchTo(x.ptr, l, plan)
           next == IF i < Len(v.chain) THEN l.end ELSE 0
           jif == IF ifd.thumb = None THEN ifd.jif
                  ELSE [at |-> l.thumb, len |-> ifd.thumb.len, of |-> ifd.thumb.of]
           strips == IF ifd.carried = None THEN ifd.strips ELSE strip
<1>1. ChainDir(v, i, x, l) = At(x, ptr, next, jif, strips)
  BY DEF ChainDir
<1>2. IsIFD(ifd) /\ IsBlock(x)
  BY TreeIs, ChainBlockIs
<1>3. ptr = [t \in Pointers |-> ptr[t]]
  BY PatchIs
<1> HIDE DEF ptr, next, x, at, ifd
<1>4. jif = None \/ IsData(jif)
  <2>1. CASE ifd.thumb = None
    BY <2>1, <1>2 DEF IsIFD
  <2>2. CASE ifd.thumb # None
    <3>1. IsData(ifd.thumb)
      BY <2>2, <1>2 DEF IsIFD
    <3>2. ifd.thumb.len \in Nat
      BY <3>1 DEF IsData
    <3>3. /\ jif = [of |-> jif.of, at |-> jif.at, len |-> jif.len] /\ jif.len = ifd.thumb.len
      BY <2>2
    <3> HIDE DEF jif
    <3> QED
      BY <3>2, <3>3 DEF IsData
  <2> QED
    BY <2>1, <2>2
<1>5. strips = None \/ IsStrips(strips)
  <2>1. CASE ifd.carried = None
    BY <2>1, <1>2 DEF IsIFD
  <2>2. CASE ifd.carried # None
    <3> DEFINE s == ifd.carried
               n == Len(s)
    <3>1. n \in Nat \ {0} /\ s = [k \in 1..n |-> s[k]] /\ \A k \in 1..n : IsData(s[k])
      BY <2>2, <1>2 DEF IsIFD, IsStrips
    <3>2. DOMAIN s = 1..n
      BY <3>1
    <3>3. strip = [k \in 1..n |-> strip[k]] /\ \A k \in 1..n : strip[k] = [s[k] EXCEPT !.at = at[k]]
      BY <3>2
    <3> HIDE DEF strip, s, n
    <3>4. ASSUME NEW k \in 1..n PROVE IsData(strip[k])
      <4>1. IsData(s[k])
        BY <3>1
      <4>2. IsData([s[k] EXCEPT !.at = at[k]])
        BY <4>1, DataIs
      <4> QED
        BY <4>2, <3>3
    <3>5. Len(strip) = n
      BY <3>1, <3>3, MadeList
    <3>6. IsStrips(strip)
      BY <3>1, <3>3, <3>4, <3>5 DEF IsStrips
    <3> QED
      BY <2>2, <3>6
  <2> QED
    BY <2>1, <2>2
<1> HIDE DEF jif, strips
<1>6. IsDirectory(At(x, ptr, next, jif, strips))
  BY <1>2, <1>3, <1>4, <1>5, AtIs
<1> QED
  BY <1>1, <1>6 DEF x

LEMMA PutIfIs ==
    ASSUME NEW o, OutOK(o), NEW x, NEW block, x # None => IsBlock(block), NEW own
    PROVE  LET q == PutIf(o, x, block, own)
           IN OutOK(q) /\ q.todo = o.todo
              /\ q.len = o.len + (IF x = None THEN 0 ELSE WrittenLen(block, o.len))
<1>1. o.len \in Nat
  BY DEF OutOK
<1>2. CASE x = None
  BY <1>1, <1>2 DEF PutIf
<1>3. CASE x # None
  <2>1. LET q == PutSub(o, block, own) IN OutOK(q) /\ q.len = EndOf(block, o.len) /\ q.todo = o.todo
    BY <1>3, SubWritten DEF PutSub
  <2>2. o.len + WrittenLen(block, o.len) = EndOf(block, o.len)
    BY <1>1, <1>3, EndIs
  <2> QED
    BY <1>3, <2>1, <2>2 DEF PutIf
<1> QED
  BY <1>2, <1>3

(* The plan of an IFD, in numbers.                                         *)
More(v, i) == i < Len(v.chain) \/ v.sub[i].exif # None \/ v.sub[i].gps # None
LEMMA PlanIs ==
    ASSUME NEW v, IsTree(v), NEW i \in 1..Len(v.chain), NEW pos \in Nat
    PROVE  LET l == PlanChain(v, i, pos)
               end == ThumbEnd(v.chain[i], l.thumb)
           IN /\ l.thumb = EndOf(ChainBlock(v, i), pos) /\ l.thumb \in Nat /\ l.thumb % 2 = 0
              /\ end \in Nat /\ l.exif = IF More(v, i) THEN Even(end) ELSE end
              /\ l.gps = l.exif + (IF v.sub[i].exif = None THEN 0 ELSE WrittenLen(SubExifBlock(v, i), l.exif))
              /\ l.interop = l.gps + (IF v.sub[i].gps = None THEN 0
                                      ELSE WrittenLen(VerbatimBlock(v.sub[i].gps), l.gps))
              /\ l.end = l.interop + (IF v.sub[i].interop = None THEN 0
                                      ELSE WrittenLen(VerbatimBlock(v.sub[i].interop), l.interop))
<1> DEFINE x == ChainBlock(v, i)
           l == PlanChain(v, i, pos)
<1>1. IsBlock(x) /\ IsIFD(v.chain[i])
  BY TreeIs, ChainBlockIs
<1>2. l.thumb = pos + WrittenLen(x, pos)
  BY DEF PlanChain
<1>3. l.thumb = EndOf(x, pos) /\ l.thumb \in Nat /\ l.thumb % 2 = 0
  BY <1>1, <1>2, EndIs
<1>4. ThumbEnd(v.chain[i], l.thumb) \in Nat
  BY <1>1, <1>3, ThumbEndNat
<1>5. /\ l.exif = IF More(v, i) THEN Even(ThumbEnd(v.chain[i], l.thumb)) ELSE ThumbEnd(v.chain[i], l.thumb)
      /\ l.gps = l.exif + (IF v.sub[i].exif = None THEN 0 ELSE WrittenLen(SubExifBlock(v, i), l.exif))
      /\ l.interop = l.gps + (IF v.sub[i].gps = None THEN 0
                              ELSE WrittenLen(VerbatimBlock(v.sub[i].gps), l.gps))
      /\ l.end = l.interop + (IF v.sub[i].interop = None THEN 0
                              ELSE WrittenLen(VerbatimBlock(v.sub[i].interop), l.interop))
  BY DEF PlanChain, More
<1> QED
  BY <1>3, <1>4, <1>5

(* The thumbnail ends where the IFDs of this IFD were planned to begin.    *)
LEMMA ThumbPlanned ==
    ASSUME NEW v, IsTree(v), NEW i \in 1..Len(v.chain), NEW pos \in Nat
    PROVE  LET l == PlanChain(v, i, pos)
               x == v.chain[i]
           IN l.exif = IF x.thumb = None /\ x.carried = None THEN l.thumb
                       ELSE PadTo(ThumbEnd(x, l.thumb), l.exif)
<1> DEFINE l == PlanChain(v, i, pos)
           x == v.chain[i]
           end == ThumbEnd(x, l.thumb)
<1>1. /\ l.thumb \in Nat /\ l.thumb % 2 = 0 /\ end \in Nat
      /\ l.exif = IF More(v, i) THEN Even(end) ELSE end
  BY PlanIs
<1>2. IsIFD(x)
  BY TreeIs
<1> HIDE DEF l, x
<1>3. Even(end) \in Nat /\ (end % 2 = 0 => Even(end) = end) /\ (end % 2 = 1 => Even(end) = end + 1)
  BY <1>1, EvenIs
<1>4. CASE x.thumb = None /\ x.carried = None
  <2>1. end = l.thumb
    <3>1. end = l.thumb + ThumbLen(x)
      BY <1>1, <1>2, <1>4, ThumbEndNat
    <3>2. ThumbLen(x) = 0
      BY <1>4 DEF ThumbLen
    <3> QED
      BY <3>1, <3>2, <1>1
  <2> HIDE DEF end
  <2> QED
    BY <2>1, <1>1, <1>3, <1>4 DEF l, x
<1>5. CASE ~(x.thumb = None /\ x.carried = None)
  <2> HIDE DEF end
  <2>1. l.exif = PadTo(end, l.exif)
    BY <1>1, <1>3 DEF PadTo
  <2> QED
    BY <2>1, <1>5 DEF l, x, end
<1> QED
  BY <1>4, <1>5

LEMMA ChainWritten ==
    ASSUME NEW v, IsTree(v), NEW i \in 1..Len(v.chain), NEW o, OutOK(o)
    PROVE  LET x == ChainBlock(v, i)
               l == PlanChain(v, i, o.len)
               sub == v.sub[i]
               o1 == AppendThumb(Put(o, x, ChainDir(v, i, x, l)), v.chain[i], l)
               o2 == PutIf(o1, sub.exif, SubExifBlock(v, i), l)
               o3 == PutIf(o2, sub.gps, VerbatimBlock(sub.gps), l)
               q == PutIf(o3, sub.interop, VerbatimBlock(sub.interop), l)
           IN OutOK(q) /\ q.len = l.end /\ q.todo = o.todo
<1> DEFINE x == ChainBlock(v, i)
           l == PlanChain(v, i, o.len)
           sub == v.sub[i]
           o0 == Put(o, x, ChainDir(v, i, x, l))
           o1 == AppendThumb(o0, v.chain[i], l)
           o2 == PutIf(o1, sub.exif, SubExifBlock(v, i), l)
           o3 == PutIf(o2, sub.gps, VerbatimBlock(sub.gps), l)
           q == PutIf(o3, sub.interop, VerbatimBlock(sub.interop), l)
<1>1. o.len \in Nat
  BY DEF OutOK
<1>2. IsBlock(x) /\ IsIFD(v.chain[i]) /\ IsDirectory(ChainDir(v, i, x, l))
  BY TreeIs, ChainBlockIs, ChainDirIs
<1>3. \A t \in Pointers : sub[t] = None \/ IsIFD(sub[t])
  BY TreeIs DEF IsSub
<1>4. /\ sub.exif # None => IsBlock(SubExifBlock(v, i))
      /\ sub.gps # None => IsBlock(VerbatimBlock(sub.gps))
      /\ sub.interop # None => IsBlock(VerbatimBlock(sub.interop))
  BY <1>3, SubExifIs, VerbatimIs DEF Pointers
<1>5. /\ l.thumb = EndOf(x, o.len)
      /\ l.gps = l.exif + (IF sub.exif = None THEN 0 ELSE WrittenLen(SubExifBlock(v, i), l.exif))
      /\ l.interop = l.gps + (IF sub.gps = None THEN 0 ELSE WrittenLen(VerbatimBlock(sub.gps), l.gps))
      /\ l.end = l.interop + (IF sub.interop = None THEN 0
                              ELSE WrittenLen(VerbatimBlock(sub.interop), l.interop))
  BY <1>1, PlanIs, SMTT(60)
<1>6. l.exif = IF v.chain[i].thumb = None /\ v.chain[i].carried = None THEN l.thumb
               ELSE PadTo(ThumbEnd(v.chain[i], l.thumb), l.exif)
  BY <1>1, ThumbPlanned
<1> HIDE DEF x, l, sub
<1>7. OutOK(o0) /\ o0.len = l.thumb /\ o0.todo = o.todo
  BY <1>2, <1>5, PutIs
<1> HIDE DEF o0
<1>8. OutOK(o1) /\ o1.len = l.exif /\ o1.todo = o.todo
  <2>1. /\ OutOK(o1) /\ Same(o0, o1)
        /\ o1.len = IF v.chain[i].thumb = None /\ v.chain[i].carried = None THEN o0.len
                    ELSE PadTo(ThumbEnd(v.chain[i], o0.len), l.exif)
    BY <1>2, <1>7, ThumbWritten
  <2> QED
    BY <2>1, <1>6, <1>7 DEF Same
<1> HIDE DEF o1
<1>9. OutOK(o2) /\ o2.len = l.gps /\ o2.todo = o.todo
  BY <1>4, <1>5, <1>8, PutIfIs
<1> HIDE DEF o2
<1>10. OutOK(o3) /\ o3.len = l.interop /\ o3.todo = o.todo
  BY <1>4, <1>5, <1>9, PutIfIs
<1> HIDE DEF o3
<1>11. OutOK(q) /\ q.len = l.end /\ q.todo = o.todo
  BY <1>4, <1>5, <1>10, PutIfIs
<1> QED
  BY <1>11 DEF q, o3, o2, o1, o0, x, l, sub

(* Without pointers the length is told without planning.                   *)
LEMMA ChainLenIs ==
    ASSUME NEW v, IsTree(v), NEW i \in 1..Len(v.chain), NEW pos \in Nat
    PROVE  ChainLen(v, i, pos).end = PlanChain(v, i, pos).end
<1> DEFINE x == v.chain[i]
           l == PlanChain(v, i, pos)
           e == pos + WrittenLen(VerbatimBlock(x), pos)
<1>1. CASE HasPointers(v, i)
  BY <1>1 DEF ChainLen
<1>2. CASE ~HasPointers(v, i)
  <2>1. ChainLen(v, i, pos).end = e + ThumbSpan(v, i)
    BY <1>2 DEF ChainLen
  <2>2. v.sub[i] = NoSub /\ x.carried = None /\ \A t \in Pointers : x.ptr[t] = None
    BY <1>2 DEF HasPointers
  <2>3. NoSub.exif = None /\ NoSub.gps = None /\ NoSub.interop = None
    BY DEF NoSub
  <2>4. IsIFD(x)
    BY TreeIs
  <2>5. ChainBlock(v, i) = VerbatimBlock(x)
    <3>1. Target(v, i, "exif") = None /\ Target(v, i, "gps") = None
      BY <2>2, <2>3 DEF Target, Pointers
    <3>2. x.ptr = [t \in Pointers |-> x.ptr[t]]
      BY <2>4 DEF IsIFD
    <3>3. x.ptr = [exif |-> None, gps |-> None, interop |-> None]
      BY <2>2, <3>2 DEF Pointers
    <3> QED
      BY <3>1, <3>3 DEF ChainBlock, VerbatimBlock
  <2>6. l.thumb = e /\ e \in Nat /\ e % 2 = 0
    <3>1. l.thumb = pos + WrittenLen(ChainBlock(v, i), pos)
      BY DEF PlanChain
    <3>2. l.thumb \in Nat /\ l.thumb % 2 = 0
      BY PlanIs
    <3> HIDE DEF l
    <3> QED
      BY <3>1, <3>2, <2>5
  <2>7. ThumbEnd(x, e) = e + ThumbLen(x) /\ ThumbLen(x) \in Nat
    BY <2>2, <2>4, <2>6, ThumbEndNat, ThumbLenNat
  <2>8. l.end = IF i < Len(v.chain) THEN Even(ThumbEnd(x, e)) ELSE ThumbEnd(x, e)
    <3>1. More(v, i) <=> i < Len(v.chain)
      BY <2>2, <2>3 DEF More
    <3>2. l.end \in Nat /\ l.end = l.exif /\ l.exif = IF More(v, i) THEN Even(ThumbEnd(x, l.thumb)) ELSE ThumbEnd(x, l.thumb)
      <4>1. /\ ThumbEnd(x, l.thumb) \in Nat
            /\ l.exif = IF More(v, i) THEN Even(ThumbEnd(x, l.thumb)) ELSE ThumbEnd(x, l.thumb)
            /\ l.gps = l.exif + 0 /\ l.interop = l.gps + 0 /\ l.end = l.interop + 0
        BY <2>2, <2>3, PlanIs
      <4>2. Even(ThumbEnd(x, l.thumb)) \in Nat
        BY <4>1, EvenIs
      <4> HIDE DEF l, x
      <4> QED
        BY <4>1, <4>2
    <3> QED
      BY <3>1, <3>2, <2>6
  <2>9. Even(e + ThumbLen(x)) = e + Even(ThumbLen(x))
    BY <2>6, <2>7, EvenSum
  <2> HIDE DEF e, l
  <2>10. l.end = e + ThumbSpan(v, i)
    BY <2>7, <2>8, <2>9 DEF ThumbSpan
  <2> QED
    BY <2>1, <2>10 DEF l
<1> QED
  BY <1>1, <1>2

LEMMA EncodeChainStep == ASSUME EncodeInv, EncodeChain PROVE EncodeInv'
<1>1. /\ phase = "encode" /\ out.todo # <<>> /\ Head(out.todo)[1] = "chain" /\ UNCHANGED walkVars
      /\ value' = value /\ b' = b /\ WalkInv /\ OutOK(out) /\ PlanOK
      /\ IsTree(value) /\ out.todo \in Seq(Writes(value)) /\ Sized
  BY DEF EncodeChain, EncodeInv, walkVars
<1> DEFINE i == Head(out.todo)[2]
           x == ChainBlock(value, i)
           l == PlanChain(value, i, out.len)
           sub == value.sub[i]
           o1 == AppendThumb(Put(out, x, ChainDir(value, i, x, l)), value.chain[i], l)
           o2 == PutIf(o1, sub.exif, SubExifBlock(value, i), l)
           o3 == PutIf(o2, sub.gps, VerbatimBlock(sub.gps), l)
           q == PutIf(o3, sub.interop, VerbatimBlock(sub.interop), l)
<1>2. /\ plan' = [plan EXCEPT !.size = SizeChain(value, i)]
      /\ \/ phase' = "failed" /\ out' = out
         \/ phase' = phase /\ out' = [q EXCEPT !.todo = Tail(@)]
  <2>1. \E j \in {i} : \E y \in {ChainBlock(value, j)}, m \in {PlanChain(value, j, out.len)},
                         u \in {value.sub[j]} :
          /\ IF PatchTooFar(value, j, m) THEN phase' = "failed" /\ UNCHANGED out
             ELSE /\ \E p1 \in {AppendThumb(Put(out, y, ChainDir(value, j, y, m)), value.chain[j], m)} :
                     \E p2 \in {PutIf(p1, u.exif, SubExifBlock(value, j), m)} :
                     \E p3 \in {PutIf(p2, u.gps, VerbatimBlock(u.gps), m)} :
                        out' = [PutIf(p3, u.interop, VerbatimBlock(u.interop), m) EXCEPT !.todo = Tail(@)]
                  /\ UNCHANGED phase
          /\ plan' = [plan EXCEPT !.size = SizeChain(value, j)]
    BY DEF EncodeChain
  <2> HIDE DEF i
  <2>2. \E y \in {x}, m \in {l}, u \in {sub} :
          /\ IF PatchTooFar(value, i, m) THEN phase' = "failed" /\ UNCHANGED out
             ELSE /\ \E p1 \in {AppendThumb(Put(out, y, ChainDir(value, i, y, m)), value.chain[i], m)} :
                     \E p2 \in {PutIf(p1, u.exif, SubExifBlock(value, i), m)} :
                     \E p3 \in {PutIf(p2, u.gps, VerbatimBlock(u.gps), m)} :
                        out' = [PutIf(p3, u.interop, VerbatimBlock(u.interop), m) EXCEPT !.todo = Tail(@)]
                  /\ UNCHANGED phase
          /\ plan' = [plan EXCEPT !.size = SizeChain(value, i)]
    BY <2>1
  <2> HIDE DEF x, l, sub
  <2>3. /\ IF PatchTooFar(value, i, l) THEN phase' = "failed" /\ UNCHANGED out
           ELSE /\ \E p1 \in {o1} : \E p2 \in {PutIf(p1, sub.exif, SubExifBlock(value, i), l)} :
                   \E p3 \in {PutIf(p2, sub.gps, VerbatimBlock(sub.gps), l)} :
                     out' = [PutIf(p3, sub.interop, VerbatimBlock(sub.interop), l) EXCEPT !.todo = Tail(@)]
                /\ UNCHANGED phase
        /\ plan' = [plan EXCEPT !.size = SizeChain(value, i)]
    BY <2>2
  <2> HIDE DEF o1
  <2> QED
    BY <2>3, Zenon
<1>3. i \in 1..Len(value.chain)
  <2>1. Head(out.todo) \in Writes(value)
    BY <1>1
  <2>2. \A t \in Pointers : <<t>>[1] # "chain"
    BY DEF Pointers
  <2>3. PICK k \in 2..Len(value.chain) : Head(out.todo) = <<"chain", k>>
    BY <2>1, <2>2, <1>1 DEF Writes
  <2> QED
    BY <2>3
<1> HIDE DEF i
<1>4. OutOK(q) /\ q.len = l.end /\ q.todo = out.todo
  BY <1>1, <1>3, ChainWritten
<1> DEFINE z == SizeChain(value, i)
<1>5. PlanOK' /\ plan'.size = z
  <2>1. plan' = [plan EXCEPT !.size = z]
    BY <1>2
  <2> HIDE DEF z
  <2>2. plan' = [exif |-> plan.exif, gps |-> plan.gps, interop |-> plan.interop,
                 chain |-> plan.chain, size |-> z]
    BY <1>1, <2>1 DEF PlanOK
  <2> QED
    BY <2>2 DEF PlanOK
<1>6. WalkInv'
  BY <1>1, WalkStays
<1> HIDE DEF q
<1>7. CASE phase' = "failed" /\ out' = out
  BY <1>1, <1>5, <1>6, <1>7 DEF EncodeInv, Phases
<1>8. CASE phase' = phase /\ out' = [q EXCEPT !.todo = Tail(@)]
  <2> DEFINE s == Tail(q.todo)
  <2>1. OutOK(out') /\ out'.todo = s /\ out'.len = q.len
    <3>1. out' = [q EXCEPT !.todo = s]
      BY <1>8
    <3> HIDE DEF s
    <3> QED
      BY <3>1, <1>4, TodoChanged
  <2>2. s \in Seq(Writes(value))
    BY <1>1, <1>4
  <2> HIDE DEF s
  <2>3. Sized'
    <3>1. CASE plan.size = out.len
      <4>1. out.len \in Nat /\ plan.size # None
        BY <3>1, <1>1, SourceAssumption DEF OutOK
      <4>2. z = ChainLen(value, i, out.len).end \/ (b.big /\ z = None)
        BY <3>1, <4>1 DEF SizeChain
      <4>3. ChainLen(value, i, out.len).end = l.end
        BY <4>1, <1>1, <1>3, ChainLenIs
      <4> HIDE DEF z, l
      <4> QED
        BY <4>2, <4>3, <2>1, <1>1, <1>4, <1>5 DEF Sized
    <3>2. CASE b.big /\ plan.size = None
      <4>1. z = None
        BY <3>2 DEF SizeChain
      <4> QED
        BY <3>2, <4>1, <1>1, <1>5 DEF Sized
    <3> QED
      BY <3>1, <3>2, <1>1 DEF Sized
  <2> QED
    BY <1>1, <1>5, <1>6, <1>8, <2>1, <2>2, <2>3 DEF EncodeInv, Phases
<1> QED
  BY <1>2, <1>7, <1>8

-----------------------------------------------------------------------------
(* What is written can be read.                                            *)
LEMMA SeenIs ==
    ASSUME NEW r, r = None \/ IsData(r)
    PROVE  /\ Seen(r) = None \/ IsData(Seen(r))
           /\ IsData(r) => Seen(r) = r \/ IsData(Seen(r))
<1>1. ASSUME IsData(r) PROVE IsData([r EXCEPT !.of = "junk"])
  <2> DEFINE q == [r EXCEPT !.of = "junk"]
  <2>1. r = [of |-> r.of, at |-> r.at, len |-> r.len] /\ r.len \in Nat
    BY <1>1 DEF IsData
  <2>2. q = [of |-> "junk", at |-> r.at, len |-> r.len]
    BY <2>1
  <2> HIDE DEF q
  <2>3. q = [of |-> q.of, at |-> q.at, len |-> q.len] /\ q.len = r.len
    BY <2>2
  <2> QED
    BY <2>1, <2>3 DEF IsData, q
<1> QED
  BY <1>1 DEF Seen

LEMMA ReadDir ==
    ASSUME NEW d, IsDirectory(d)
    PROVE  IsDirectory([d EXCEPT !.jif = Seen(@),
                                 !.strips = IF @ = None THEN None ELSE [k \in DOMAIN @ |-> Seen(@[k])]])
<1> DEFINE j == Seen(d.jif)
           s == d.strips
           w == IF s = None THEN None ELSE [k \in DOMAIN s |-> Seen(s[k])]
           q == [d EXCEPT !.jif = j, !.strips = w]
<1>1. d = [of |-> d.of, count |-> d.count, fits |-> d.fits, inline |-> d.inline, vals |-> d.vals,
           next |-> d.next, ptr |-> d.ptr, jif |-> d.jif, strips |-> d.strips]
      /\ d.ptr = [t \in Pointers |-> d.ptr[t]]
  BY DEF IsDirectory
<1>2. j = None \/ IsData(j)
  BY SeenIs DEF IsDirectory
<1>3. w = None \/ IsStrips(w)
  <2>1. CASE s = None
    BY <2>1
  <2>2. CASE s # None
    <3> DEFINE n == Len(s)
               z == [k \in DOMAIN s |-> Seen(s[k])]
    <3>1. n \in Nat \ {0} /\ s = [k \in 1..n |-> s[k]] /\ \A k \in 1..n : IsData(s[k])
      BY <2>2 DEF IsDirectory, IsStrips
    <3>2. DOMAIN s = 1..n
      BY <3>1
    <3>3. z = [k \in 1..n |-> z[k]] /\ \A k \in 1..n : z[k] = Seen(s[k])
      BY <3>2
    <3>4. w = z
      BY <2>2
    <3> HIDE DEF z, s, n, w
    <3>5. ASSUME NEW k \in 1..n PROVE IsData(z[k])
      <4>1. IsData(s[k])
        BY <3>1
      <4>2. Seen(s[k]) = s[k] \/ IsData(Seen(s[k]))
        BY <4>1, SeenIs
      <4> QED
        BY <4>1, <4>2, <3>3
    <3>6. Len(z) = n
      BY <3>1, <3>3, MadeList
    <3>7. IsStrips(z)
      BY <3>1, <3>3, <3>5, <3>6 DEF IsStrips
    <3> QED
      BY <3>4, <3>7
  <2> QED
    BY <2>1, <2>2
<1> HIDE DEF j, w, s
<1>4. q = [d EXCEPT !.jif = j, !.strips = w]
  OBVIOUS
<1> HIDE DEF q
<1>5. q = [of |-> d.of, count |-> d.count, fits |-> d.fits, inline |-> d.inline, vals |-> d.vals,
           next |-> d.next, ptr |-> d.ptr, jif |-> j, strips |-> w]
  BY <1>1, <1>4
<1>6. /\ q = [of |-> q.of, count |-> q.count, fits |-> q.fits, inline |-> q.inline, vals |-> q.vals,
              next |-> q.next, ptr |-> q.ptr, jif |-> q.jif, strips |-> q.strips]
      /\ q.count = d.count /\ q.inline = d.inline /\ q.vals = d.vals /\ q.ptr = d.ptr
      /\ q.jif = j /\ q.strips = w
  BY <1>5
<1>7. IsDirectory(q)
  <2>1. q.ptr = [t \in Pointers |-> q.ptr[t]]
    BY <1>1, <1>6
  <2>2. q.count \in Nat /\ q.inline \in Nat /\ q.vals \in Seq(Nat)
    BY <1>6 DEF IsDirectory
  <2> QED
    BY <1>2, <1>3, <1>6, <2>1, <2>2 DEF IsDirectory
<1> QED
  BY <1>7 DEF q, j, w, s

LEMMA WrittenIs == ASSUME OutOK(out), NEW f, f = Written(b) PROVE IsSource(f)
<1> DEFINE P == {out.ifds[i][1] : i \in DOMAIN out.ifds}
           at(p) == CHOOSE i \in DOMAIN out.ifds : out.ifds[i][1] = p
           dir(d) == [d EXCEPT !.jif = Seen(@),
                               !.strips = IF @ = None THEN None ELSE [k \in DOMAIN @ |-> Seen(@[k])]]
<1>1. f.len = out.len /\ f.dir = [p \in P |-> dir(out.ifds[at(p)][2])]
  BY DEF Written
<1>2. out.len \in Nat /\ DOMAIN out.ifds = 1..Len(out.ifds)
      /\ \A k \in 1..Len(out.ifds) : IsDirectory(out.ifds[k][2])
  BY DEF OutOK, IsList
<1>3. ASSUME NEW p \in P PROVE IsDirectory(f.dir[p])
  <2>1. at(p) \in 1..Len(out.ifds)
    BY <1>2
  <2> DEFINE d == out.ifds[at(p)][2]
  <2>2. IsDirectory(d)
    BY <2>1, <1>2
  <2>3. f.dir[p] = dir(d)
    BY <1>1
  <2> HIDE DEF d
  <2>4. IsDirectory(dir(d))
    BY <2>2, ReadDir
  <2> QED
    BY <2>3, <2>4
<1>4. DOMAIN f.dir = P
  BY <1>1
<1> QED
  BY <1>1, <1>2, <1>3, <1>4 DEF IsSource

LEMMA ReparseStep == ASSUME EncodeInv, Reparse PROVE EncodeInv'
<1>1. PICK f : f = Written(b)
  OBVIOUS
<1>2. /\ phase = "encode" /\ phase' = "reparse" /\ OutOK(out) /\ PlanOK /\ Sized
      /\ value' = value /\ plan' = plan /\ out' = out
  BY DEF Reparse, EncodeInv
<1>3. b' = f /\ f.big = b.big
  BY <1>1 DEF Reparse, Written
<1>4. Start(f)'
  BY <1>1 DEF Reparse, Start
<1>5. IsSource(f)
  BY <1>1, <1>2, WrittenIs
<1>6. WalkInv'
  BY <1>4, <1>5, StartAgain
<1>7. Sized'
  BY <1>2, <1>3 DEF Sized
<1> QED
  BY <1>2, <1>6, <1>7 DEF EncodeInv, Phases, PlanOK

LEMMA ReadStep == ASSUME EncodeInv, Read PROVE EncodeInv'
<1>1. /\ Parse /\ phase' = phase /\ value' = value /\ plan' = plan /\ out' = out /\ b' = b /\ WalkInv
      /\ phase # "encode"
  BY DEF Read, Parse, Begin, Ends, AtBudget, InCycle, Unreadable, Follow, Strips, Finish, EncodeInv
<1>2. WalkInv'
  BY <1>1, ParseStep
<1> QED
  BY <1>1, <1>2 DEF EncodeInv, Sized, PlanOK

LEMMA EncodeInit == Init => EncodeInv
<1> SUFFICES ASSUME Init PROVE EncodeInv
  OBVIOUS
<1>1. PICK f \in Sources : Start(f)
  BY DEF Init
<1>2. IsSource(f)
  BY SourceAssumption
<1>3. WalkInv
  BY <1>1, <1>2, StartInv
<1>4. phase = "parse" /\ OutOK(out) /\ PlanOK
  <2>1. PlanOK
    BY DEF Init, PlanOK, NoPlan
  <2> QED
    BY <2>1, NoOutIs DEF Init
<1> QED
  BY <1>3, <1>4 DEF EncodeInv, Phases

LEMMA EncodeNext == EncodeInv /\ [Next]_vars => EncodeInv'
<1> SUFFICES ASSUME EncodeInv, [Next]_vars PROVE EncodeInv'
  OBVIOUS
<1>1. CASE Read
  BY <1>1, ReadStep
<1>2. ASSUME NEW e \in Edits, Encode(e) PROVE EncodeInv'
  BY <1>2, EncodeStep
<1>3. CASE EncodeSub
  BY <1>3, EncodeSubStep
<1>4. CASE EncodeChain
  BY <1>4, EncodeChainStep
<1>5. CASE Reparse
  BY <1>5, ReparseStep
<1>6. ASSUME UNCHANGED walkVars, value' = value, plan' = plan, out' = out,
             phase' = phase \/ (phase = "reparse" /\ phase' = "done")
      PROVE  EncodeInv'
  <2>1. WalkInv' /\ b' = b
    BY <1>6, WalkStays DEF EncodeInv, walkVars
  <2> QED
    BY <2>1, <1>6 DEF EncodeInv, Sized, PlanOK, Phases
<1>7. CASE Stop
  BY <1>6, <1>7 DEF Stop
<1>8. CASE UNCHANGED vars
  BY <1>6, <1>8 DEF vars, walkVars
<1> QED
  BY <1>1, <1>2, <1>3, <1>4, <1>5, <1>7, <1>8 DEF Next

LEMMA EncodeStays == Spec => []EncodeInv
BY EncodeInit, EncodeNext, PTL DEF Spec

LEMMA Bounded == EncodeInv => WorkBounded
<1> SUFFICES ASSUME EncodeInv PROVE WorkBounded
  OBVIOUS
<1>1. /\ IsSource(b) /\ IsTree(tree) /\ Charged /\ ThumbsOK /\ warned \subseteq Kinds
      /\ phase \in Phases /\ OutOK(out)
  BY DEF EncodeInv, WalkInv, Shaped
<1>2. b.len \in Nat /\ out.len \in Nat /\ MaxIFDs \in Nat
  BY <1>1, BudgetAssumption DEF IsSource, OutOK
<1>3. TypeOK
  BY <1>1, <1>2 DEF TypeOK, Charged, Kinds, Phases
<1>4. spent.ifds <= MaxIFDs
  BY <1>1, <1>2 DEF Charged
<1>5. PICK d \in Directories : 0 < bud.entries + d.count
  BY <1>1 DEF Charged
<1>6. spent.entries < NewBudget(b.len).entries + d.count
  <2>1. IsDirectory(d)
    BY <1>1, <1>5, JunkIs DEF Directories, IsSource
  <2>2. d.count \in Nat
    BY <2>1 DEF IsDirectory
  <2> QED
    BY <1>1, <1>5, <2>2 DEF Charged
<1>7. CarriedThumbs(tree.chain) <= b.len
  <2>1. CarriedThumbs(tree.chain) \in Nat
    BY <1>1, ThumbsAre DEF IsTree, IsChain, IsList
  <2> QED
    BY <1>1, <1>2, <2>1 DEF ThumbsOK, Charged
<1> QED
  BY <1>3, <1>4, <1>5, <1>6, <1>7 DEF WorkBounded, Directories

LEMMA KeptApart == EncodeInv => ArenaShared
<1> SUFFICES ASSUME EncodeInv PROVE ArenaShared
  OBVIOUS
<1> QED
  BY DEF EncodeInv, WalkInv, Separate, Now, ArenaShared

(* However the directories of a stream overlap, share and form cycles, the *)
(* traversals of exif.Parse parse no more IFDs than the limit, no more     *)
(* entries than the budget and one IFD beyond it, and carry no more bytes  *)
(* of thumbnails than the stream has - the stream of a file, or the one    *)
(* Encode wrote (traverse, chargeThumbnail).                               *)
THEOREM WorkStaysBounded == Spec => []WorkBounded
BY EncodeStays, Bounded, PTL

(* No two IFDs of a Parse share a slot of the arena or room for an entry   *)
(* (allocIFD, allocEntries): adding an entry to one IFD never writes into  *)
(* another.                                                                *)
THEOREM ArenaStaysApart == Spec => []ArenaShared
BY EncodeStays, KeptApart, PTL

(* Encode writes as many bytes as EncodedSize announced: the padding of    *)
(* thumbnails and strips is the one that was planned (planChain,           *)
(* encodedLen, appendThumbnail), unless a BigTIFF is refused.              *)
THEOREM SizeStaysTold == Spec => []SizeTold
<1>1. EncodeInv => SizeTold
  BY DEF EncodeInv, Sized, SizeTold
<1> QED
  BY EncodeStays, <1>1, PTL
=============================================================================
