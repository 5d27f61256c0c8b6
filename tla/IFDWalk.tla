------------------------------ MODULE IFDWalk ------------------------------
(***************************************************************************)
(* How exif.Parse reads the IFDs of a TIFF stream (exif.go, ifd.go,        *)
(* chain.go): the chain of IFD0, the Exif, Interoperability and GPS IFDs,  *)
(* and the IFDs that the later IFDs of the chain address.  Any pointer may *)
(* lead anywhere: back, to a directory another pointer leads to, out of    *)
(* the stream.  One budget is shared by all the traversals.                *)
(*                                                                         *)
(* A stream is the directory at each place where one can be read.  Data    *)
(* that matters to nothing but its size is a number of entries and the     *)
(* sizes of values; "of" tells directories and thumbnails apart.           *)
(***************************************************************************)
EXTENDS Integers, Sequences, FiniteSets, SequencesExt

CONSTANTS Sources,    \* the streams that may be parsed
          MaxIFDs,    \* maxTraverseChainIFDs
          EntryFloor, \* traverseEntryBudgetFloor
          None        \* nil: no pointer, no thumbnail, no IFD

ASSUME BudgetAssumption == MaxIFDs \in Nat \ {0} /\ EntryFloor \in Nat \ {0}

Pointers == {"exif", "gps", "interop"}

(* Thumbnail data, and a directory: the shape of what a stream holds.      *)
IsData(r) == r = [of |-> r.of, at |-> r.at, len |-> r.len] /\ r.len \in Nat
IsStrips(s) == /\ Len(s) \in Nat \ {0} /\ s = [k \in 1..Len(s) |-> s[k]]
               /\ \A k \in 1..Len(s) : IsData(s[k])
IsDirectory(d) ==
    /\ d = [of |-> d.of, count |-> d.count, fits |-> d.fits, inline |-> d.inline, vals |-> d.vals,
            next |-> d.next, ptr |-> [t \in Pointers |-> d.ptr[t]], jif |-> d.jif, strips |-> d.strips]
    /\ d.count \in Nat /\ d.inline \in Nat /\ d.vals \in Seq(Nat)
    /\ d.jif = None \/ IsData(d.jif)
    /\ d.strips = None \/ IsStrips(d.strips)
IsSource(f) == f.len \in Nat /\ \A p \in DOMAIN f.dir : IsDirectory(f.dir[p])
ASSUME SourceAssumption == None \notin Int /\ \A f \in Sources : IsSource(f)

VARIABLES b,     \* the stream being parsed
          todo,  \* the IFDs still to be looked for, in order
          walk,  \* the traversal that runs, or None
          bud,   \* traverseBudget
          arena, \* parseArena
          tree,  \* what was read: the EXIF value
          spent, \* entries and IFDs parsed so far, for all the traversals
          warned \* the losses that were reported

walkVars == <<b, todo, walk, bud, arena, tree, spent, warned>>

(* A directory: how many entries it declares and how many of them fit in   *)
(* the stream, those that remain without duplicates (inline ones, and the  *)
(* sizes of the others), its pointers, and what its thumbnail entries say. *)
(* Junk is what stands between directories, and at offset 0 of a classic   *)
(* stream, whose header may be taken for a directory.                      *)
Junk == [of |-> "junk", count |-> 1, fits |-> TRUE, inline |-> 1, vals |-> <<>>, next |-> 0,
         ptr |-> [t \in Pointers |-> None], jif |-> None, strips |-> None]

Outside(p) == p >= b.len
Dir(p) == IF p \in DOMAIN b.dir THEN b.dir[p] ELSE Junk

NewBudget(n) ==
    [entries |-> IF n \div 6 > EntryFloor THEN n \div 6 ELSE EntryFloor,
     ifds |-> MaxIFDs, thumb |-> n]
ExhaustedIFDs(x) == x.ifds <= 0 \* Faulty: the entries are not budgeted.
Exhausted(x) == x.ifds <= 0 \/ x.entries <= 0

NoSub == [exif |-> None, gps |-> None, interop |-> None]
NoTree == [chain |-> <<>>, exif |-> None, gps |-> None, interop |-> None, sub |-> <<>>]
NoArena == [ifds |-> 0, entries |-> 0, ifdN |-> 0, entryN |-> 0, hints |-> <<>>]

(* Tasks: <<"ifd0">>, <<"exif">>, ... and <<"sub", i, "exif">>, ... for    *)
(* the IFD at position i of the chain.                                     *)
Start(f) == /\ b = f
            /\ todo = <<<<"ifd0">>>>
            /\ walk = None
            /\ bud = NewBudget(f.len)
            /\ arena = NoArena
            /\ tree = NoTree
            /\ spent = [entries |-> 0, ifds |-> 0]
            /\ warned = {}

-----------------------------------------------------------------------------
(* Where a task begins.                                                    *)

Ptr0(t) == tree.chain[1].ptr[t]

(* A classic stream is searched for sub-IFDs when one of the two pointers  *)
(* is not zero, and then offset 0 is followed like any other.              *)
Classic(t) ==
    IF \A u \in {"exif", "gps"} : Ptr0(u) \in {None, 0} THEN None ELSE Ptr0(t)
Big(p) == IF p = 0 THEN None ELSE p

PointsAtEarlierIFD(p) == p = b.first \/ p = Ptr0("exif")
Interop(x) ==
    LET p == x.ptr["interop"]
    IN IF b.big THEN Big(p) ELSE IF p # None /\ PointsAtEarlierIFD(p) THEN None ELSE p

(* A pointer of a later IFD that equals the one of IFD0 is not followed.   *)
Distinct(i, t) ==
    LET p == tree.chain[i].ptr[t]
    IN IF p \in {None, 0, Ptr0(t)} THEN None ELSE p

Offset(task) ==
    CASE task = <<"ifd0">> -> b.first
      [] task \in {<<"exif">>, <<"gps">>} ->
            IF b.big THEN Big(Ptr0(task[1])) ELSE Classic(task[1])
      [] task = <<"interop">> -> IF tree.exif = None THEN None ELSE Interop(tree.exif)
      [] task[1] = "sub" /\ task[3] # "interop" -> Distinct(task[2], task[3])
      [] task[1] = "sub" /\ task[3] = "interop" ->
            LET x == tree.sub[task[2]].exif
            IN IF x = None THEN None ELSE Big(x.ptr["interop"])

(* The sub-IFDs of a classic stream take their memory from an arena, sized *)
(* by a look at the counts of the three IFDs in the order they are read.   *)
SumOf(s) == LET upTo[i \in 0..Len(s)] == IF i = 0 THEN 0 ELSE upTo[i - 1] + s[i] IN upTo[Len(s)]
Counted(p) == p \notin {None, 0} /\ ~Outside(p) /\ Dir(p).fits
InteropSeen == IF Counted(Ptr0("exif")) THEN Dir(Ptr0("exif")).ptr["interop"] ELSE None
ScanSubIFDs ==
    LET count(p) == IF Counted(p) THEN <<Dir(p).count>> ELSE <<>>
        hints == count(Ptr0("exif")) \o count(InteropSeen) \o count(Ptr0("gps"))
    IN [ifds |-> Len(hints), entries |-> SumOf(hints), ifdN |-> 0, entryN |-> 0,
        hints |-> hints]

Chained(n) == [i \in 1..n |-> NoSub]
Tasks(n) ==
    <<<<"exif">>, <<"interop">>, <<"gps">>>> \o
    [k \in 1..3 * (n - 1) |-> <<"sub", (k + 5) \div 3, <<"exif", "gps", "interop">>[((k - 1) % 3) + 1]>>] \o
    (IF n > 1 THEN <<<<"strips">>>> ELSE <<>>)

(* The result of a task: the first IFD of its chain, with the memory of    *)
(* all of them, or the chain of IFD0.                                      *)
Store(task, chain) ==
    LET root == IF chain = <<>> THEN None
                ELSE [chain[1] EXCEPT !.slots = UNION {chain[i].slots : i \in DOMAIN chain},
                                      !.room = UNION {chain[i].room : i \in DOMAIN chain}]
    IN CASE task = <<"ifd0">> -> [tree EXCEPT !.chain = chain, !.sub = Chained(Len(chain))]
         [] task[1] = "sub" -> [tree EXCEPT !.sub[task[2]][task[3]] = root]
         [] OTHER -> [tree EXCEPT ![task[1]] = root]

(* traverse refuses an offset outside the stream; a BigTIFF has no IFD at  *)
(* offset 0.                                                               *)
Begin ==
    /\ todo # <<>> /\ Head(todo) # <<"strips">> /\ walk = None
    /\ LET task == Head(todo)
           off == Offset(task)
           arenaNow == IF task = <<"exif">> /\ ~b.big THEN ScanSubIFDs ELSE arena
       IN /\ arena' = arenaNow
          /\ IF off = None \/ Outside(off) \/ (b.big /\ off = 0)
             THEN todo' = Tail(todo) /\ walk' = None
             ELSE /\ walk' = [task |-> task, cur |-> off, visited |-> {}, chain |-> <<>>]
                  /\ UNCHANGED todo
    /\ UNCHANGED <<b, bud, tree, spent, warned>>

-----------------------------------------------------------------------------
(* One round of the loop that follows the chain.                           *)

(* extractJPEGThumbnail, and chargeThumbnail: from the second IFD of a     *)
(* traversal on a thumbnail is dropped, with its two entries, when the     *)
(* thumbnails are more than the stream has bytes.                          *)
Within(x) == x.at + x.len <= b.len
HasThumb(d) == d.jif # None /\ Within(d.jif)
Drops(d, carried) == carried /\ HasThumb(d) /\ d.jif.len > bud.thumb

UsesArena(task) == ~b.big /\ task \in {<<"exif">>, <<"interop">>, <<"gps">>}

EntryRoomFixed(n, d) == arena.entryN .. arena.entryN + d.count - 1 \* Faulty: written past the room.
EntryRoom(n, d) == IF d.count > n THEN {} ELSE arena.entryN .. arena.entryN + d.count - 1

(* allocIFD and allocEntries: a slot and room for the entries, or neither. *)
(* Entries that exceed the room are moved out of the arena.                *)
Alloc(task, d) ==
    LET n == IF arena.hints = <<>> THEN d.count ELSE Head(arena.hints)
        read == [arena EXCEPT !.hints = IF @ = <<>> THEN @ ELSE Tail(@)]
    IN CASE ~UsesArena(task) \/ arena.ifdN >= arena.ifds ->
              [arena |-> arena, slot |-> None, room |-> {}]
         [] UsesArena(task) /\ arena.ifdN < arena.ifds /\ (n <= 0 \/ arena.entryN + n > arena.entries) ->
              [arena |-> read, slot |-> None, room |-> {}]
         [] OTHER ->
              [arena |-> [read EXCEPT !.ifdN = @ + 1, !.entryN = @ + n], slot |-> arena.ifdN,
               room |-> EntryRoom(n, d)]

Parsed(d, dropped, mem) ==
    [of |-> d.of, inline |-> d.inline, vals |-> d.vals, ptr |-> d.ptr,
     jif |-> IF dropped THEN None ELSE d.jif,
     thumb |-> IF dropped \/ ~HasThumb(d) THEN None ELSE d.jif,
     strips |-> d.strips, carried |-> None, slots |-> {mem.slot} \ {None}, room |-> mem.room]

Finish(warning) ==
    /\ tree' = Store(walk.task, walk.chain)
    /\ todo' = IF walk.task = <<"ifd0">> /\ walk.chain # <<>>
               THEN Tasks(Len(walk.chain)) ELSE Tail(todo)
    /\ walk' = None
    /\ warned' = IF walk.chain = <<>> THEN warned ELSE warned \union warning
    /\ UNCHANGED <<b, bud, spent>>

Ends == walk # None /\ walk.cur = None /\ Finish({}) /\ UNCHANGED arena
AtBudget == /\ walk # None /\ walk.cur # None /\ Exhausted(bud)
            /\ Finish({"budget"}) /\ UNCHANGED arena
InCycleOn == /\ walk # None /\ walk.cur # None /\ walk.cur \in walk.visited \* Faulty: the loop goes on.
             /\ UNCHANGED walkVars
InCycle == /\ walk # None /\ walk.cur # None /\ ~Exhausted(bud) /\ walk.cur \in walk.visited
           /\ Finish({}) /\ UNCHANGED arena

Candidate == walk # None /\ walk.cur # None /\ ~Exhausted(bud) /\ walk.cur \notin walk.visited

(* The slot of the arena is given back, the room for the entries is not.   *)
Unreadable ==
    /\ Candidate /\ ~Dir(walk.cur).fits
    /\ Finish({"unreadable"})
    /\ arena' = [Alloc(walk.task, Dir(walk.cur)).arena EXCEPT !.ifdN = arena.ifdN]

Follow ==
    /\ Candidate /\ Dir(walk.cur).fits
    /\ LET d == Dir(walk.cur)
           carried == walk.chain # <<>>
           dropped == Drops(d, carried)
           mem == Alloc(walk.task, d)
           lost == d.next # 0 /\ Outside(d.next)
       IN /\ walk' = [walk EXCEPT !.chain = Append(@, Parsed(d, dropped, mem)),
                                  !.visited = @ \union {walk.cur},
                                  !.cur = IF d.next = 0 \/ lost THEN None ELSE d.next]
          /\ bud' = [entries |-> bud.entries - d.count, ifds |-> bud.ifds - 1,
                     thumb |-> IF carried /\ HasThumb(d) /\ ~dropped
                               THEN bud.thumb - d.jif.len ELSE bud.thumb]
          /\ spent' = [entries |-> spent.entries + d.count, ifds |-> spent.ifds + 1]
          /\ arena' = mem.arena
          /\ warned' = warned \union (IF dropped THEN {"thumbnail"} ELSE {})
                              \union (IF lost THEN {"outside"} ELSE {})
    /\ UNCHANGED <<b, todo, tree>>

(* attachThumbnailStrips: the strips of uncompressed thumbnails, together  *)
(* no more bytes than the stream has; of others the two tags are omitted.  *)
Bytes(s) == SumOf([i \in DOMAIN s |-> s[i].len])
Whole(s) == \A i \in DOMAIN s : Within(s[i])
Looks(x) == x.strips # None /\ x.thumb = None
Fits(x, n) == Whole(x.strips) /\ Bytes(x.strips) <= n
LeftBytes ==
    LET left[i \in 1..Len(tree.chain)] ==
          IF i = 1 THEN b.len
          ELSE LET x == tree.chain[i]
               IN IF Looks(x) /\ Fits(x, left[i - 1]) THEN left[i - 1] - Bytes(x.strips)
                  ELSE left[i - 1]
    IN left
Carry(i) ==
    LET x == tree.chain[i]
    IN IF i = 1 \/ ~Looks(x) THEN x
       ELSE IF Fits(x, LeftBytes[i - 1]) THEN [x EXCEPT !.carried = x.strips]
       ELSE [x EXCEPT !.strips = None]
Strips ==
    /\ todo = <<<<"strips">>>>
    /\ tree' = [tree EXCEPT !.chain = [i \in DOMAIN tree.chain |-> Carry(i)]]
    /\ warned' = warned \union (IF \E i \in DOMAIN tree.chain : Carry(i).strips # tree.chain[i].strips
                                THEN {"strips"} ELSE {})
    /\ todo' = <<>>
    /\ UNCHANGED <<b, walk, bud, arena, spent>>

Parse == Begin \/ Ends \/ AtBudget \/ InCycle \/ Unreadable \/ Follow \/ Strips
Done == todo = <<>> /\ walk = None
=============================================================================
