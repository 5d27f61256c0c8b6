------------------------- MODULE ExtendedXMPProofs -------------------------
(***************************************************************************)
(* The extended XMP reader for every file: any number of GUIDs, documents  *)
(* of any length, any chunks of other software, any limits.  The limits    *)
(* hold, memory is bounded by the file, only the document itself is put    *)
(* together, and no part of it is lost without a word.                     *)
(***************************************************************************)
EXTENDS ExtendedXMP, Lists

Limited(g) == g.size \in Nat /\ g.size <= MaxTotal /\ g.full \in Nat /\ g.full <= MaxTotal

(* WithinLimits and what its step needs: sizes are numbers.                *)
Inv == /\ acc = [g \in Guids |-> acc[g]]
       /\ \A g \in Guids : acc[g] # None => Limited(acc[g])
       /\ Cardinality(Seen) <= MaxGuids

(* Every segment of the file, written whole or stray, is a chunk.          *)
LEMMA SegmentType == \A c \in Segments : c \in ChunkType
<1> SUFFICES ASSUME NEW c \in Segments PROVE c \in ChunkType
  OBVIOUS
<1> USE ConstantAssumption
<1>1. CASE c \in Strays
  BY <1>1
<1>2. CASE \E g \in Guids : c \in Chunks(g)
  <2>1. PICK g \in Guids : c \in Chunks(g)
    BY <1>2
  <2>2. PICK o \in 0..Length[g] - 1 :
           c = [guid |-> g, full |-> Length[g], off |-> o, len |-> Min({ChunkSize, Length[g] - o})]
    BY <2>1 DEF Chunks
  <2>3. Length[g] \in Nat \ {0} /\ ChunkSize \in Nat \ {0} /\ Length[g] - o \in Nat \ {0}
    OBVIOUS
  <2>4. Min({ChunkSize, Length[g] - o}) \in {ChunkSize, Length[g] - o}
    <3> DEFINE S == {ChunkSize, Length[g] - o}
    <3>1. \E x \in S : \A y \in S : x <= y
      BY <2>3
    <3> QED
      BY <3>1 DEF Min
  <2>5. Min({ChunkSize, Length[g] - o}) \in Nat \ {0}
    BY <2>3, <2>4
  <2> QED
    BY <2>2, <2>3, <2>5 DEF ChunkType
<1>3. c \in Strays \/ \E g \in Guids : c \in Chunks(g)
  BY DEF Segments
<1> QED
  BY <1>1, <1>2, <1>3

(* Storing under one more GUID adds at most that GUID to those seen.       *)
LEMMA SeenGrows ==
  ASSUME NEW S, S \subseteq Guids, NEW T, T \subseteq Guids, NEW g, T \subseteq S \union {g},
         Cardinality(S) <= MaxGuids, g \notin S => Cardinality(S) < MaxGuids
  PROVE  Cardinality(T) <= MaxGuids
<1> USE ConstantAssumption
<1>1. IsFiniteSet(S) /\ Cardinality(S) \in Nat
  BY FS_Subset, FS_CardinalityType
<1>2. IsFiniteSet(S \union {g})
      /\ Cardinality(S \union {g}) = IF g \in S THEN Cardinality(S) ELSE Cardinality(S) + 1
  BY <1>1, FS_AddElement
<1>3. Cardinality(T) <= Cardinality(S \union {g}) /\ Cardinality(T) \in Nat
  BY <1>2, FS_Subset, FS_CardinalityType
<1> QED
  BY <1>1, <1>2, <1>3

LEMMA InitInv == Init => Inv
<1> SUFFICES ASSUME Init PROVE Inv
  OBVIOUS
<1>1. Seen = {} /\ acc = [g \in Guids |-> None]
  BY DEF Init, Seen
<1>2. Cardinality(Seen) <= MaxGuids
  BY <1>1, FS_EmptySet, ConstantAssumption
<1> QED
  BY <1>1, <1>2 DEF Inv

(* A chunk that is stored leaves its GUID within the limits.               *)
LEMMA AddInv == ASSUME Inv, NEW c \in Segments, Add(c) PROVE Inv'
<1> DEFINE g == IF acc[c.guid] = None THEN Fresh(c.full) ELSE acc[c.guid]
           more == IF avail = None THEN left - Overhead - c.len ELSE avail
<1>1. c.guid \in Guids /\ c.full \in Nat /\ c.len \in Nat
  BY SegmentType DEF ChunkType
<1>2. CASE Refused(c)
  BY <1>2 DEF Add, Inv, Seen
<1>3. ASSUME ~Refused(c), NEW r, acc' = [acc EXCEPT ![c.guid] = r], Limited(r)
      PROVE  Inv'
  <2>1. \A h \in Guids : acc'[h] = IF h = c.guid THEN r ELSE acc[h]
    BY <1>3, <1>1 DEF Inv
  <2>2. Seen' \subseteq Seen \union {c.guid} /\ Seen' \subseteq Guids /\ Seen \subseteq Guids
    BY <2>1 DEF Seen
  <2>3. Cardinality(Seen) \in Nat
    BY <2>2, FS_Subset, FS_CardinalityType, ConstantAssumption
  <2>4. c.guid \notin Seen => Cardinality(Seen) < MaxGuids
    BY <1>1, <1>3, <2>3, ConstantAssumption DEF Refused, Seen
  <2>5. Cardinality(Seen') <= MaxGuids
    BY <2>2, <2>4, SeenGrows DEF Inv
  <2>6. acc' = [h \in Guids |-> acc'[h]]
    BY <1>3 DEF Inv
  <2> QED
    BY <1>3, <2>1, <2>5, <2>6 DEF Inv
<1>4. g.full \in Nat /\ g.size \in Nat
  BY <1>1 DEF Inv, Limited, Fresh
<1>5. ~Refused(c) => Limited(g)
  BY <1>1, ConstantAssumption DEF Inv, Limited, Fresh, Refused
<1>6. CASE ~Refused(c) /\ TooMuch(c)
  BY <1>3, <1>5, <1>6 DEF Add
<1>7. CASE ~Refused(c) /\ ~TooMuch(c)
  <2>1. acc' = [acc EXCEPT ![c.guid] = Stored(g, c, more)]
    BY <1>7 DEF Add
  <2>2. g.size + c.len <= MaxTotal
    BY <1>1, <1>4, <1>7, ConstantAssumption DEF TooMuch, Fresh
  <2>3. Stored(g, c, more).size = g.size + c.len /\ Stored(g, c, more).full = g.full
    BY DEF Stored
  <2>4. Limited(Stored(g, c, more))
    BY <1>1, <1>4, <1>5, <1>7, <2>2, <2>3 DEF Limited
  <2> QED
    BY <1>3, <1>7, <2>1, <2>4
<1> QED
  BY <1>2, <1>6, <1>7

LEMMA StepInv == Inv /\ [Next]_vars => Inv'
<1> SUFFICES ASSUME Inv, [Next]_vars PROVE Inv'
  OBVIOUS
<1>1. ASSUME NEW c \in Segments, Add(c) PROVE Inv'
  BY <1>1, AddInv
<1>2. CASE Finish
  BY <1>2 DEF Finish, Inv, Seen, Limited
<1>3. CASE UNCHANGED vars
  BY <1>3 DEF vars, Inv, Seen, Limited
<1> QED
  BY <1>1, <1>2, <1>3 DEF Next

(* No file makes the reader store more GUIDs than MaxGuids or more bytes   *)
(* of one than MaxTotal (extacc.go, add).                                  *)
THEOREM LimitsHold == Spec => []WithinLimits
<1>1. Inv => WithinLimits
  BY DEF Inv, WithinLimits, Limited
<1> QED
  BY InitInv, StepInv, <1>1, PTL DEF Spec

-----------------------------------------------------------------------------
(* Memory.                                                                 *)

(* No segment holds more than ChunkSize bytes of a document.               *)
LEMMA SegmentFits == \A c \in Segments : c.len <= ChunkSize
<1> SUFFICES ASSUME NEW c \in Segments PROVE c.len <= ChunkSize
  OBVIOUS
<1>1. ASSUME NEW g \in Guids, c \in Chunks(g) PROVE c.len <= ChunkSize
  <2>1. PICK o \in 0..Length[g] - 1 :
           c = [guid |-> g, full |-> Length[g], off |-> o, len |-> Min({ChunkSize, Length[g] - o})]
    BY <1>1 DEF Chunks
  <2>2. ChunkSize \in Nat \ {0} /\ Length[g] - o \in Nat
    BY ConstantAssumption
  <2>3. \E x \in {ChunkSize, Length[g] - o} : \A y \in {ChunkSize, Length[g] - o} : x <= y
    BY <2>2
  <2>4. Min({ChunkSize, Length[g] - o}) <= ChunkSize
    BY <2>3 DEF Min
  <2> QED
    BY <2>1, <2>4
<1> QED
  BY <1>1, ConstantAssumption DEF Segments

(* The first block has room for all that the first chunk declares or for   *)
(* all that the file still has, behind the room for a frame when it is     *)
(* large.  When it is too small after all, more                            *)
(* bytes than declared have come, and no later block is larger than its    *)
(* chunk.                                                                  *)
Empty(r) == r.blocks = 0 /\ r.size = 0 /\ r.room = 0 /\ r.taken = 0 /\ r.block = <<>>
OneBlock(r, t, l) == /\ r.blocks = 1 /\ r.taken <= r.room + Headroom /\ Len(r.block) = r.size
                     /\ r.room <= t + ChunkSize /\ r.size <= r.room
                     /\ r.room >= r.size + l \/ r.room >= r.full
Blocks(r) == r.blocks >= 2 /\ r.taken <= r.size + ChunkSize + Headroom /\ r.full <= r.size

(* What is stored under a GUID when l of the t bytes are still to come.    *)
MemoryOf(r, t, l) ==
    /\ r.full \in Nat /\ r.size \in Nat /\ r.room \in Nat /\ r.taken \in Nat /\ r.blocks \in Nat
    /\ r.block \in Seq(Nat) /\ Len(r.block) <= r.room
    /\ r.size + l <= t
    /\ Empty(r) \/ OneBlock(r, t, l) \/ Blocks(r)

MemoryInv ==
    /\ acc = [g \in Guids |-> acc[g]]
    /\ total \in Nat /\ left \in Nat /\ left <= total
    /\ avail = None \/ (avail \in Nat /\ left <= avail /\ avail <= total - Overhead)
    /\ \A g \in Guids : acc[g] # None =>
         total - Overhead \in Nat /\ MemoryOf(acc[g], total - Overhead, left)

LEMMA BytesLength ==
  ASSUME NEW c \in ChunkType
  PROVE  BytesOf(c) \in Seq(Nat) /\ Len(BytesOf(c)) = c.len
  BY DEF BytesOf, ChunkType

(* Room as a comparison.                                                   *)
LEMMA RoomIs ==
  ASSUME NEW g, g.full \in Nat, g.size \in Nat, NEW n \in Nat, NEW more \in Nat
  PROVE  /\ Room(g, n, more) \in Nat /\ Room(g, n, more) <= more + n
         /\ Room(g, n, more) = more + n \/ Room(g, n, more) >= g.full - g.size
         /\ g.full <= g.size + n => Room(g, n, more) = n
<1> DEFINE m == Max({n, g.full - g.size})
<1>1. \E x \in {n, g.full - g.size} : \A y \in {n, g.full - g.size} : x >= y
  OBVIOUS
<1>2. m \in {n, g.full - g.size} /\ m >= n /\ m >= g.full - g.size
  BY <1>1 DEF Max
<1>3. m \in Nat
  BY <1>2
<1> HIDE DEF m
<1>4. \E x \in {m, more + n} : \A y \in {m, more + n} : x <= y
  BY <1>3
<1>5. Room(g, n, more) = Min({m, more + n})
  BY DEF Room, m
<1>6. Room(g, n, more) \in {m, more + n} /\ Room(g, n, more) <= m /\ Room(g, n, more) <= more + n
  BY <1>4, <1>5 DEF Min
<1> QED
  BY <1>2, <1>3, <1>6

(* Chunk c is the next of the l bytes to come, more of them after the      *)
(* first chunk that was stored.                                            *)
Comes(c, t, l, more) ==
    /\ t \in Nat /\ l \in Nat /\ more \in Nat
    /\ c.len <= ChunkSize /\ c.len <= l
    /\ l - c.len <= more /\ more + c.len <= t + ChunkSize

LEMMA JoinLength ==
  ASSUME NEW b \in Seq(Nat), NEW c \in ChunkType
  PROVE  b \o BytesOf(c) \in Seq(Nat) /\ Len(b \o BytesOf(c)) = Len(b) + c.len
<1>1. BytesOf(c) \in Seq(Nat) /\ Len(BytesOf(c)) = c.len
  BY BytesLength
<1>2. b \o BytesOf(c) \in Seq(Nat) /\ Len(b \o BytesOf(c)) = Len(b) + Len(BytesOf(c))
  BY <1>1, ConcatProperties
<1> QED
  BY <1>1, <1>2

LEMMA FrameRoomIs ==
  ASSUME NEW g, NEW room
  PROVE  /\ FrameRoom(g, room) \in Nat /\ FrameRoom(g, room) <= Headroom
         /\ g.blocks # 0 => FrameRoom(g, room) = 0
  BY ConstantAssumption DEF FrameRoom

LEMMA StoredFields ==
  ASSUME NEW g, g.block \in Seq(Nat), NEW c \in ChunkType, NEW more
  PROVE  LET r == Stored(g, c, more)
             grows == g.room - Len(g.block) < c.len
         IN /\ r.full = g.full /\ r.size = g.size + c.len /\ r.block \in Seq(Nat)
            /\ grows => /\ Len(r.block) = c.len /\ r.room = Room(g, c.len, more)
                        /\ r.blocks = g.blocks + 1
                      /\ r.taken = g.taken + FrameRoom(g, Room(g, c.len, more)) + Room(g, c.len, more)
            /\ ~grows => /\ Len(r.block) = Len(g.block) + c.len /\ r.room = g.room
                         /\ r.blocks = g.blocks /\ r.taken = g.taken
<1>1. /\ g.block \o BytesOf(c) \in Seq(Nat) /\ Len(g.block \o BytesOf(c)) = Len(g.block) + c.len
      /\ <<>> \o BytesOf(c) \in Seq(Nat) /\ Len(<<>> \o BytesOf(c)) = Len(<<>>) + c.len
  <2>1. <<>> \in Seq(Nat)
    OBVIOUS
  <2> QED
    BY <2>1, JoinLength
<1>2. Len(<<>>) + c.len = c.len
  BY DEF ChunkType
<1> QED
  BY <1>1, <1>2 DEF Stored

(* A chunk more, and as many bytes less to come.                           *)
LEMMA StoredMemory ==
  ASSUME NEW g, NEW c \in ChunkType, NEW t, NEW l, NEW more, MemoryOf(g, t, l), Comes(c, t, l, more)
  PROVE  MemoryOf(Stored(g, c, more), t, l - c.len)
<1> DEFINE r == Stored(g, c, more)
           room == Room(g, c.len, more)
           frame == FrameRoom(g, room)
           grows == g.room - Len(g.block) < c.len
<1>1. /\ g.full \in Nat /\ g.size \in Nat /\ g.room \in Nat /\ g.taken \in Nat /\ g.blocks \in Nat
      /\ g.block \in Seq(Nat) /\ Len(g.block) \in Nat /\ c.len \in Nat
  BY DEF ChunkType, MemoryOf
<1>2. Len(g.block) <= g.room /\ g.size + l <= t
  BY DEF MemoryOf
<1>3. ChunkSize \in Nat /\ t \in Nat /\ l \in Nat /\ more \in Nat
  BY ConstantAssumption DEF Comes
<1>4. c.len <= ChunkSize /\ c.len <= l /\ l - c.len <= more /\ more + c.len <= t + ChunkSize
  BY DEF Comes
<1>5. /\ room \in Nat /\ room <= more + c.len
      /\ room = more + c.len \/ room >= g.full - g.size
      /\ g.full <= g.size + c.len => room = c.len
  BY <1>1, <1>3, RoomIs
<1>6. /\ r.full = g.full /\ r.size = g.size + c.len /\ r.block \in Seq(Nat)
      /\ grows => /\ Len(r.block) = c.len /\ r.room = room
                  /\ r.blocks = g.blocks + 1 /\ r.taken = g.taken + frame + room
      /\ ~grows => /\ Len(r.block) = Len(g.block) + c.len /\ r.room = g.room
                   /\ r.blocks = g.blocks /\ r.taken = g.taken
  BY <1>1, StoredFields
<1>7. room >= c.len
  BY <1>1, <1>3, <1>4, <1>5
<1>14. frame \in Nat /\ frame <= Headroom /\ Headroom \in Nat /\ (g.blocks # 0 => frame = 0)
  BY FrameRoomIs, ConstantAssumption
<1> HIDE DEF r, room, frame
<1>8. /\ r.full \in Nat /\ r.size \in Nat /\ r.room \in Nat /\ r.taken \in Nat /\ r.blocks \in Nat
      /\ r.block \in Seq(Nat) /\ Len(r.block) <= r.room /\ r.size + (l - c.len) <= t
  <2>1. /\ r.full \in Nat /\ r.size \in Nat /\ r.room \in Nat /\ r.taken \in Nat /\ r.blocks \in Nat
    BY SMTT(60), <1>1, <1>5, <1>6, <1>14
  <2>2. Len(r.block) <= r.room
    BY <1>1, <1>5, <1>6, <1>7
  <2>3. r.size + (l - c.len) <= t
    BY <1>1, <1>2, <1>3, <1>6
  <2> QED
    BY <2>1, <2>2, <2>3, <1>6
<1>9. ASSUME Empty(g), grows PROVE OneBlock(r, t, l - c.len)
  <2>1. g.size = 0 /\ g.room = 0 /\ Len(g.block) = 0 /\ g.blocks = 0 /\ g.taken = 0
    BY <1>9 DEF Empty
  <2>2. r.blocks = 1 /\ r.room = room /\ r.taken <= room + Headroom /\ Len(r.block) = r.size /\ r.size = c.len
    BY <2>1, <1>1, <1>5, <1>6, <1>9, <1>14
  <2>3. room <= t + ChunkSize
    BY <1>1, <1>3, <1>4, <1>5
  <2>4. room >= c.len + (l - c.len) \/ room >= r.full
    BY <2>1, <1>1, <1>3, <1>4, <1>5, <1>6
  <2> QED
    BY <2>2, <2>3, <2>4, <1>7, <1>8 DEF OneBlock
<1>15. ASSUME Empty(g), ~grows PROVE Empty(r)
  <2>1. g.size = 0 /\ g.room = 0 /\ Len(g.block) = 0 /\ g.blocks = 0 /\ g.taken = 0
    BY <1>15 DEF Empty
  <2>2. c.len = 0
    BY <2>1, <1>1, <1>15
  <2>3. r.blocks = 0 /\ r.size = 0 /\ r.room = 0 /\ r.taken = 0 /\ Len(r.block) = 0
    BY <2>1, <2>2, <1>6, <1>15
  <2>4. r.block = <<>>
    BY <2>3, <1>6, EmptySeq
  <2> QED
    BY <2>3, <2>4 DEF Empty
<1>10. ASSUME OneBlock(g, t, l), ~grows PROVE OneBlock(r, t, l - c.len)
  <2>1. /\ g.blocks = 1 /\ g.taken <= g.room + Headroom /\ Len(g.block) = g.size /\ g.room <= t + ChunkSize
        /\ g.room >= g.size + l \/ g.room >= g.full
    BY <1>10 DEF OneBlock
  <2>2. /\ r.blocks = 1 /\ r.taken <= r.room + Headroom /\ Len(r.block) = r.size /\ r.room = g.room
        /\ r.size = g.size + c.len /\ r.full = g.full
    BY <2>1, <1>1, <1>6, <1>10
  <2>3. r.room >= r.size + (l - c.len) \/ r.room >= r.full
    BY <2>1, <2>2, <1>1, <1>3
  <2> QED
    BY <2>1, <2>2, <2>3, <1>8 DEF OneBlock
<1>11. ASSUME OneBlock(g, t, l), grows PROVE Blocks(r)
  <2>1. /\ g.blocks = 1 /\ g.taken <= g.room + Headroom /\ Len(g.block) = g.size
        /\ g.room >= g.size + l \/ g.room >= g.full
    BY <1>11 DEF OneBlock
  <2>2. g.room < g.size + c.len
    BY <2>1, <1>1, <1>11
  <2>3. g.full <= g.size + c.len
    BY SMTT(60), <2>1, <2>2, <1>1, <1>3, <1>4
  <2>4. r.taken <= g.room + Headroom + c.len /\ r.blocks = 2
    BY <2>1, <2>3, <1>1, <1>5, <1>6, <1>11, <1>14
  <2>5. r.taken <= r.size + ChunkSize + Headroom
    BY SMTT(60), <2>2, <2>4, <1>1, <1>3, <1>4, <1>6, <1>8, <1>14
  <2> QED
    BY <2>3, <2>4, <2>5, <1>6 DEF Blocks
<1>12. ASSUME Blocks(g) PROVE Blocks(r)
  <2>1. g.blocks >= 2 /\ g.taken <= g.size + ChunkSize + Headroom /\ g.full <= g.size
    BY <1>12 DEF Blocks
  <2>2. room = c.len
    BY <2>1, <1>1, <1>5
  <2>3. r.taken <= r.size + ChunkSize + Headroom
    BY SMTT(60), <2>1, <2>2, <1>1, <1>3, <1>6, <1>8, <1>14
  <2>4. r.blocks >= 2 /\ r.full <= r.size
    BY <2>1, <1>1, <1>6
  <2> QED
    BY <2>3, <2>4 DEF Blocks
<1>13. Empty(g) \/ OneBlock(g, t, l) \/ Blocks(g)
  BY DEF MemoryOf
<1> QED
  BY <1>8, <1>9, <1>10, <1>11, <1>12, <1>13, <1>15 DEF MemoryOf, r

(* Less to come leaves what another GUID holds as it was.                  *)
LEMMA KeptMemory ==
  ASSUME NEW g, NEW t \in Nat, NEW l \in Nat, NEW m \in Nat, m <= l, MemoryOf(g, t, l)
  PROVE  MemoryOf(g, t, m)
  BY ConstantAssumption DEF MemoryOf, OneBlock

LEMMA InitMemory == Init => MemoryInv
  BY ConstantAssumption DEF Init, MemoryInv

LEMMA AddMemory == ASSUME MemoryInv, NEW c \in Segments, Add(c), UNCHANGED total PROVE MemoryInv'
<1> DEFINE g == IF acc[c.guid] = None THEN Fresh(c.full) ELSE acc[c.guid]
           more == IF avail = None THEN left - Overhead - c.len ELSE avail
           t == total - Overhead
           l == left - Overhead
<1> USE ConstantAssumption
<1>1. /\ c \in ChunkType /\ c.guid \in Guids /\ c.full \in Nat /\ c.len \in Nat
      /\ c.len <= ChunkSize /\ Overhead \in Nat /\ Headroom \in Nat
  BY SegmentType, SegmentFits DEF ChunkType
<1>2. /\ total \in Nat /\ left \in Nat /\ left <= total /\ total' = total
      /\ left' = l - c.len /\ c.len <= l /\ l \in Nat /\ l <= left /\ l <= t /\ t \in Nat
      /\ left' \in Nat /\ left' <= l
  <2>1. total \in Nat /\ left \in Nat /\ left <= total /\ total' = total
    BY DEF MemoryInv
  <2>2. left' = left - Overhead - c.len /\ Overhead + c.len <= left
    BY DEF Add
  <2> QED
    BY <2>1, <2>2, <1>1
<1>3. /\ more \in Nat /\ l - c.len <= more /\ more + c.len <= t + ChunkSize /\ more <= t
  BY <1>1, <1>2 DEF MemoryInv
<1>4. MemoryOf(g, t, l)
  <2>1. CASE acc[c.guid] = None
    BY <2>1, <1>1, <1>2 DEF MemoryOf, Fresh, Empty
  <2>2. CASE acc[c.guid] # None
    <3>1. MemoryOf(acc[c.guid], t, left)
      BY <2>2, <1>1 DEF MemoryInv
    <3> QED
      BY <2>2, <3>1, <1>2, KeptMemory
  <2> QED
    BY <2>1, <2>2
<1> HIDE DEF g, more, t, l
<1>5. MemoryOf(g, t, left') /\ MemoryOf(Stored(g, c, more), t, left')
  <2>1. Comes(c, t, l, more)
    BY <1>1, <1>2, <1>3 DEF Comes
  <2>2. MemoryOf(g, t, left')
    BY <1>2, <1>4, KeptMemory
  <2>3. MemoryOf(Stored(g, c, more), t, l - c.len)
    BY <2>1, <1>1, <1>4, StoredMemory
  <2> QED
    BY <2>2, <2>3, <1>2
<1>6. ASSUME NEW r, acc' = [acc EXCEPT ![c.guid] = r] \/ acc' = acc, MemoryOf(r, t, left')
      PROVE  /\ acc' = [h \in Guids |-> acc'[h]]
             /\ \A h \in Guids : acc'[h] # None => MemoryOf(acc'[h], t, left')
  <2>1. acc' = [h \in Guids |-> acc'[h]]
        /\ \A h \in Guids : acc'[h] = r \/ acc'[h] = acc[h]
    BY <1>6, <1>1 DEF MemoryInv
  <2>2. ASSUME NEW h \in Guids, acc[h] # None PROVE MemoryOf(acc[h], t, left')
    <3>1. MemoryOf(acc[h], t, left) /\ left' <= left
      BY <2>2, <1>2 DEF MemoryInv, t
    <3> QED
      BY <3>1, <1>2, KeptMemory
  <2> QED
    BY <1>6, <2>1, <2>2
<1>7. avail' = avail \/ avail' = more
  BY DEF Add, more
<1>8. avail' = None \/ (avail' \in Nat /\ left' <= avail' /\ avail' <= total' - Overhead)
  BY <1>7, <1>1, <1>2, <1>3 DEF MemoryInv, t
<1>9. \/ acc' = acc \/ acc' = [acc EXCEPT ![c.guid] = g]
      \/ acc' = [acc EXCEPT ![c.guid] = Stored(g, c, more)]
  BY DEF Add, g, more
<1>10. /\ acc' = [h \in Guids |-> acc'[h]]
       /\ \A h \in Guids : acc'[h] # None => MemoryOf(acc'[h], t, left')
  BY <1>5, <1>6, <1>9
<1>11. total' - Overhead = t /\ left' <= total'
  BY <1>1, <1>2 DEF t
<1> QED
  BY <1>1, <1>2, <1>8, <1>10, <1>11 DEF MemoryInv

LEMMA StepMemory == MemoryInv /\ [Next]_vars => MemoryInv'
<1> SUFFICES ASSUME MemoryInv, [Next]_vars PROVE MemoryInv'
  OBVIOUS
<1>1. ASSUME NEW c \in Segments, Add(c), UNCHANGED total PROVE MemoryInv'
  BY <1>1, AddMemory
<1>2. CASE UNCHANGED <<acc, total, left, avail>>
  BY <1>2 DEF MemoryInv
<1> QED
  BY <1>1, <1>2 DEF Next, Finish, vars

(* The blocks of a document take no more memory than the file has bytes of *)
(* it, one chunk and the room for a frame, whatever the chunks declare     *)
(* (extacc.go, blockCap).                                                  *)
THEOREM MemoryBounded == Spec => []NotMoreThanFile
<1>1. MemoryInv => NotMoreThanFile
  <2> SUFFICES ASSUME MemoryInv, NEW g \in Guids, acc[g] # None
               PROVE  acc[g].taken <= (total - Overhead) + ChunkSize + Headroom
    BY DEF NotMoreThanFile
  <2>1. MemoryOf(acc[g], total - Overhead, left) /\ total - Overhead \in Nat /\ left \in Nat
    BY DEF MemoryInv
  <2> QED
    BY SMTT(60), <2>1, ConstantAssumption DEF MemoryOf, Empty, OneBlock, Blocks
<1> QED
  BY InitMemory, StepMemory, <1>1, PTL DEF Spec

-----------------------------------------------------------------------------
(* Putting the document together.                                          *)

LEMMA ChunkSeqType ==
  ASSUME NEW cs \in Seq(ChunkType)
  PROVE  /\ DOMAIN cs = 1..Len(cs) /\ Len(cs) \in Nat
         /\ \A i \in DOMAIN cs : /\ i \in Nat /\ cs[i] \in ChunkType
                                /\ cs[i].off \in Nat /\ cs[i].len \in Nat
<1>1. DOMAIN cs = 1..Len(cs) /\ Len(cs) \in Nat
  OBVIOUS
<1>2. \A i \in DOMAIN cs : i \in Nat /\ cs[i] \in ChunkType
  BY <1>1
<1>3. \A c \in ChunkType : c.off \in Nat /\ c.len \in Nat
  BY DEF ChunkType
<1> QED
  BY <1>1, <1>2, <1>3

(* A sorting moves every chunk to one place, in the order of the offsets.  *)
LEMMA SortedIs ==
  ASSUME NEW cs \in Seq(ChunkType), NEW s \in Sorted(cs)
  PROVE  /\ \E p \in Surjection(1..Len(cs), 1..Len(cs)) : s = [i \in 1..Len(cs) |-> cs[p[i]]]
         /\ \A i, j \in 1..Len(cs) : i < j => s[i].off <= s[j].off
<1> DEFINE D == 1..Len(cs)
<1>1. DOMAIN cs = D /\ Len(cs) \in Nat
  BY ChunkSeqType
<1>2. CASE InOrder(cs)
  <2>1. s = cs /\ \A i, j \in D : i < j => s[i].off <= s[j].off
    BY <1>1, <1>2 DEF Sorted, InOrder, IsSorted
  <2>2. [i \in D |-> i] \in Surjection(D, D)
    BY DEF Surjection
  <2>3. cs = [i \in D |-> cs[[j \in D |-> j][i]]]
    BY <1>1
  <2> QED
    BY <2>1, <2>2, <2>3
<1>3. CASE ~InOrder(cs)
  <2>1. PICK p \in Surjection(D, D) : s = [i \in D |-> cs[p[i]]] /\ Ascending(s)
    BY <1>1, <1>3 DEF Sorted
  <2>2. \A i, j \in D : i < j => s[i].off <= s[j].off
    BY <2>1 DEF Ascending
  <2> QED
    BY <2>1, <2>2
<1> QED
  BY <1>2, <1>3

LEMMA SortedType ==
  ASSUME NEW cs \in Seq(ChunkType), NEW s \in Sorted(cs)
  PROVE  s \in Seq(ChunkType) /\ Len(s) = Len(cs)
<1>1. PICK p \in Surjection(1..Len(cs), 1..Len(cs)) : s = [i \in 1..Len(cs) |-> cs[p[i]]]
  BY SortedIs
<1>2. \A i \in 1..Len(cs) : p[i] \in 1..Len(cs)
  BY DEF Surjection
<1>3. \A i \in 1..Len(cs) : cs[p[i]] \in ChunkType /\ Len(cs) \in Nat
  BY <1>2, ChunkSeqType
<1> QED
  BY <1>1, <1>3

Count(n) == [i \in 1..n |-> i]
End(cs) == Last(cs).off + Last(cs).len
Joined(cs) == /\ cs # <<>> /\ cs[1].off = 0
              /\ \A i \in 2..Len(cs) : cs[i].off = cs[i - 1].off + cs[i - 1].len

LEMMA CountGrows ==
  ASSUME NEW n \in Nat, NEW c \in ChunkType, c.off = n
  PROVE  Count(n) \o BytesOf(c) = Count(n + c.len)
<1>1. Count(n) \in Seq(Nat) /\ Len(Count(n)) = n /\ \A i \in 1..n : Count(n)[i] = i
  BY DEF Count
<1>2. /\ BytesOf(c) \in Seq(Nat) /\ Len(BytesOf(c)) = c.len /\ c.len \in Nat
      /\ \A i \in 1..c.len : BytesOf(c)[i] = n + i
  BY DEF BytesOf, ChunkType
<1>3. Count(n + c.len) \in Seq(Nat) /\ Len(Count(n + c.len)) = n + c.len
      /\ \A i \in 1..(n + c.len) : Count(n + c.len)[i] = i
  BY <1>2 DEF Count
<1> DEFINE s == Count(n) \o BytesOf(c)
<1>4. /\ s \in Seq(Nat) /\ Len(s) = n + c.len
      /\ \A i \in 1..(n + c.len) : s[i] = IF i <= n THEN Count(n)[i] ELSE BytesOf(c)[i - n]
  <2> DEFINE a == Count(n)
             b == BytesOf(c)
  <2>1. a \in Seq(Nat) /\ b \in Seq(Nat) /\ Len(a) = n /\ Len(b) = c.len
    BY <1>1, <1>2
  <2> HIDE DEF a, b
  <2>2. /\ a \o b \in Seq(Nat) /\ Len(a \o b) = Len(a) + Len(b)
        /\ \A i \in 1..(Len(a) + Len(b)) : (a \o b)[i] = IF i <= Len(a) THEN a[i] ELSE b[i - Len(a)]
    BY <2>1, ConcatProperties
  <2> QED
    BY <2>1, <2>2 DEF a, b
<1>5. \A i \in 1..(n + c.len) : s[i] = i
  <2> SUFFICES ASSUME NEW i \in 1..(n + c.len) PROVE s[i] = i
    OBVIOUS
  <2>1. CASE i <= n
    BY <2>1, <1>1, <1>4, <1>2
  <2>2. CASE ~(i <= n)
    <3>1. i - n \in 1..c.len /\ n + (i - n) = i
      BY <2>2, <1>2
    <3> QED
      BY <2>2, <3>1, <1>2, <1>4
  <2> QED
    BY <2>1, <2>2
<1> HIDE DEF s
<1> QED
  BY <1>3, <1>4, <1>5, SeqEqual DEF s

(* Chunks that follow one another make the document up to their end.       *)
LEMMA JoinedFlatten ==
  ASSUME NEW cs \in Seq(ChunkType), Joined(cs)
  PROVE  FlattenSeq([i \in DOMAIN cs |-> BytesOf(cs[i])]) = Count(End(cs))
<1> DEFINE n == Len(cs)
           parts == [i \in DOMAIN cs |-> BytesOf(cs[i])]
           upTo(i) == Count(cs[i].off + cs[i].len)
           Is(f) == f = [i \in 1..n |-> IF i = 1 THEN parts[i] ELSE f[i - 1] \o parts[i]]
           F == CHOOSE f : Is(f)
<1>1. /\ DOMAIN cs = 1..n /\ n \in Nat \ {0}
      /\ \A i \in 1..n : /\ cs[i] \in ChunkType /\ cs[i].off \in Nat /\ cs[i].len \in Nat
  BY ChunkSeqType, EmptySeq DEF Joined
<1>2. /\ cs[1].off = 0
      /\ \A i \in 2..n : cs[i].off = cs[i - 1].off + cs[i - 1].len
  BY DEF Joined
<1>3. /\ Len(parts) = n
      /\ \A i \in 1..n : parts[i] = BytesOf(cs[i])
  BY <1>1
<1>4. FlattenSeq(parts) = F[n]
  BY <1>1, <1>3 DEF FlattenSeq
<1>5. BytesOf(cs[1]) = upTo(1)
  BY <1>1, <1>2 DEF BytesOf, Count
<1>6. ASSUME NEW i \in 2..n PROVE upTo(i - 1) \o BytesOf(cs[i]) = upTo(i)
  <2>1. /\ i \in 1..n /\ i - 1 \in 1..n /\ cs[i] \in ChunkType
        /\ cs[i].off = cs[i - 1].off + cs[i - 1].len /\ cs[i].off \in Nat
    BY <1>1, <1>2
  <2>2. Count(cs[i].off) \o BytesOf(cs[i]) = Count(cs[i].off + cs[i].len)
    BY <2>1, CountGrows
  <2> QED
    BY <2>1, <2>2
<1>7. Is([i \in 1..n |-> upTo(i)])
  <2> DEFINE U == [i \in 1..n |-> upTo(i)]
  <2>1. \A i \in 1..n : U[i] = upTo(i) /\ (i # 1 => i \in 2..n /\ i - 1 \in 1..n)
    BY <1>1
  <2> HIDE DEF U
  <2>2. \A i \in 1..n : U[i] = IF i = 1 THEN parts[i] ELSE U[i - 1] \o parts[i]
    BY <2>1, <1>3, <1>5, <1>6
  <2>3. U = [i \in 1..n |-> U[i]]
    BY DEF U
  <2> QED
    BY <2>2, <2>3 DEF U
<1>8. Is(F)
  BY <1>7
<1> HIDE DEF F
<1>9. \A i \in 1..n : F[i] = IF i = 1 THEN parts[i] ELSE F[i - 1] \o parts[i]
  BY <1>8
<1>10. \A i \in 1..n : F[i] = upTo(i)
  <2> SUFFICES ASSUME \E i \in 1..n : F[i] # upTo(i) PROVE FALSE
    OBVIOUS
  <2> DEFINE T == {i \in 1..n : F[i] # upTo(i)}
  <2>1. T \subseteq Nat /\ T # {}
    BY <1>1
  <2>2. PICK i \in T : \A j \in T : ~(j < i)
    BY <2>1, NatLeast
  <2>3. i \in 1..n /\ F[i] # upTo(i)
    OBVIOUS
  <2>4. i # 1
    BY <2>3, <1>9, <1>3, <1>5
  <2>5. i \in 2..n /\ i - 1 \in 1..n /\ i - 1 < i
    BY <2>3, <2>4, <1>1
  <2>6. F[i - 1] = upTo(i - 1)
    BY <2>2, <2>5
  <2> HIDE DEF T
  <2> QED
    BY <2>3, <2>4, <2>5, <2>6, <1>3, <1>6, <1>9
<1>11. n \in 1..n /\ upTo(n) = Count(End(cs))
  BY <1>1 DEF End, Last
<1> QED
  BY <1>4, <1>10, <1>11

(* The chunks of a GUID and its block, which holds them all as they came   *)
(* as long as it is the only one.                                          *)
Listed(r) ==
    /\ r \in StoredType
    /\ r.chunks = <<>> => r.blocks = 0
    /\ r.blocks = 0 => r.room = 0 /\ r.block = <<>>
    /\ r.blocks <= 1 /\ Joined(r.chunks) => r.block = Count(End(r.chunks))

LEMMA JoinedAppend ==
  ASSUME NEW cs \in Seq(ChunkType), NEW c \in ChunkType, Joined(Append(cs, c))
  PROVE  /\ End(Append(cs, c)) = c.off + c.len
         /\ cs = <<>> => c.off = 0
         /\ cs # <<>> => Joined(cs) /\ c.off = End(cs) /\ End(cs) \in Nat
<1> DEFINE n == Len(cs)
           ds == Append(cs, c)
<1>1. n \in Nat /\ DOMAIN cs = 1..n /\ \A i \in 1..n : cs[i].off \in Nat /\ cs[i].len \in Nat
  BY ChunkSeqType
<1>2. Len(ds) = n + 1 /\ ds[n + 1] = c /\ \A i \in 1..n : ds[i] = cs[i]
  BY AppendProperties
<1> HIDE DEF n, ds
<1>3. End(ds) = c.off + c.len
  BY <1>2 DEF End, Last
<1>4. ds[1].off = 0 /\ \A i \in 2..(n + 1) : ds[i].off = ds[i - 1].off + ds[i - 1].len
  BY <1>2 DEF Joined, ds
<1>5. ASSUME cs = <<>> PROVE c.off = 0
  <2>1. n = 0
    BY <1>5 DEF n
  <2> QED
    BY <2>1, <1>2, <1>4
<1>6. ASSUME cs # <<>> PROVE Joined(cs) /\ c.off = End(cs) /\ End(cs) \in Nat
  <2>1. n >= 1
    BY <1>6, EmptySeq DEF n
  <2>2. cs[1].off = 0
    BY <2>1, <1>1, <1>2, <1>4
  <2>3. ASSUME NEW i \in 2..n PROVE cs[i].off = cs[i - 1].off + cs[i - 1].len
    <3>1. i \in 2..(n + 1) /\ i \in 1..n /\ i - 1 \in 1..n
      BY <1>1
    <3> QED
      BY <3>1, <1>2, <1>4
  <2>4. n + 1 \in 2..(n + 1) /\ n \in 1..n /\ n + 1 - 1 = n
    BY <2>1, <1>1
  <2>5. c.off = cs[n].off + cs[n].len /\ cs[n].off \in Nat /\ cs[n].len \in Nat
    BY <2>4, <1>1, <1>2, <1>4
  <2>6. End(cs) = cs[n].off + cs[n].len
    BY DEF End, Last, n
  <2> QED
    BY <1>6, <2>2, <2>3, <2>5, <2>6 DEF Joined, n
<1> QED
  BY <1>3, <1>5, <1>6 DEF ds

LEMMA StoredListed ==
  ASSUME NEW g, Listed(g), NEW c \in ChunkType, NEW more,
         Room(g, c.len, more) \in Nat
  PROVE  Listed(Stored(g, c, more)) /\ Stored(g, c, more).chunks = Append(g.chunks, c)
<1> DEFINE r == Stored(g, c, more)
           frame == FrameRoom(g, Room(g, c.len, more))
           grows == g.room - Len(g.block) < c.len
<1>1. /\ g.full \in Nat /\ g.size \in Nat /\ g.room \in Nat /\ g.taken \in Nat /\ g.blocks \in Nat
      /\ g.block \in Seq(Nat) /\ g.chunks \in Seq(ChunkType) /\ c.len \in Nat /\ c.off \in Nat
  BY DEF Listed, StoredType, ChunkType
<1>2. /\ r.chunks = Append(g.chunks, c) /\ r.chunks \in Seq(ChunkType) /\ r.chunks # <<>>
  BY SMTT(60), <1>1, AppendProperties DEF Stored
<1>3. /\ g.block \o BytesOf(c) \in Seq(Nat) /\ <<>> \o BytesOf(c) \in Seq(Nat)
      /\ <<>> \o BytesOf(c) = BytesOf(c)
  BY <1>1, BytesLength, JoinLength
<1>4. r \in StoredType
  <2>1. r.block \in Seq(Nat)
    BY <1>3 DEF Stored
  <2>2. /\ g.full \in Nat /\ g.size + c.len \in Nat /\ g.blocks + 1 \in Nat
        /\ g.taken + frame + Room(g, c.len, more) \in Nat
    BY <1>1, FrameRoomIs
  <2>3. /\ (IF grows THEN Room(g, c.len, more) ELSE g.room) \in Nat
        /\ (IF grows THEN g.blocks + 1 ELSE g.blocks) \in Nat
        /\ (IF grows THEN g.taken + frame + Room(g, c.len, more) ELSE g.taken) \in Nat
        /\ (IF grows THEN <<>> ELSE g.block) \o BytesOf(c) \in Seq(Nat)
    BY <2>2, <1>1, <1>3
  <2>4. Append(g.chunks, c) \in Seq(ChunkType)
    BY <1>2
  <2> HIDE DEF grows, frame
  <2> QED
    BY <2>2, <2>3, <2>4 DEF Stored, StoredType, grows, frame
<1>5. r.blocks = (IF grows THEN g.blocks + 1 ELSE g.blocks)
      /\ r.block = (IF grows THEN <<>> ELSE g.block) \o BytesOf(c)
  BY DEF Stored
<1>6. ASSUME r.blocks <= 1 PROVE r.block = g.block \o BytesOf(c) /\ g.blocks <= 1
  <2>1. CASE grows
    <3>1. g.blocks = 0
      BY <2>1, <1>1, <1>5, <1>6
    <3>2. g.block = <<>>
      BY <3>1 DEF Listed
    <3> QED
      BY <2>1, <3>1, <3>2, <1>5
  <2>2. CASE ~grows
    BY <2>2, <1>5, <1>6
  <2> QED
    BY <2>1, <2>2
<1>7. ASSUME r.blocks <= 1, Joined(r.chunks) PROVE r.block = Count(End(r.chunks))
  <2>1. /\ End(r.chunks) = c.off + c.len
        /\ g.chunks = <<>> => c.off = 0
        /\ g.chunks # <<>> => Joined(g.chunks) /\ c.off = End(g.chunks)
    BY <1>1, <1>2, <1>7, JoinedAppend
  <2>2. CASE g.chunks = <<>>
    <3>1. g.block = <<>> /\ Count(0) = <<>>
      BY <2>2 DEF Listed, Count
    <3> QED
      BY <3>1, <2>1, <2>2, <1>1, <1>6, <1>7, CountGrows
  <2>3. CASE g.chunks # <<>>
    <3>1. g.block = Count(c.off)
      BY <2>1, <2>3, <1>6, <1>7 DEF Listed
    <3> QED
      BY <3>1, <2>1, <1>1, <1>6, <1>7, CountGrows
  <2> QED
    BY <2>2, <2>3
<1>8. ASSUME r.blocks = 0 PROVE r.room = 0 /\ r.block = <<>>
  <2>1. ~grows /\ g.blocks = 0
    BY <1>1, <1>5, <1>8
  <2>2. g.block = <<>> /\ g.room = 0 /\ Len(g.block) = 0
    BY <2>1 DEF Listed
  <2>3. c.len = 0
    BY <2>1, <2>2, <1>1
  <2>4. BytesOf(c) = <<>>
    BY <2>3 DEF BytesOf
  <2>5. r.room = g.room /\ r.block = <<>> \o BytesOf(c)
    BY <2>1, <2>2 DEF Stored
  <2> QED
    BY <2>2, <2>4, <2>5, <1>3
<1> HIDE DEF r
<1> QED
  BY <1>2, <1>4, <1>7, <1>8 DEF Listed, r

(* What is put together is the whole document.                             *)
LEMMA DocumentIs ==
  ASSUME NEW g, Listed(g), NEW s \in Sorted(g.chunks), s # <<>>, Contiguous(s, g.full)
  PROVE  Document(g, s) = Count(g.full)
<1>1. g.chunks \in Seq(ChunkType) /\ g.blocks \in Nat
  BY DEF Listed, StoredType
<1>2. s \in Seq(ChunkType)
  BY <1>1, SortedType
<1>3. Joined(s) /\ End(s) = g.full
  BY DEF Contiguous, Joined, End
<1>4. ASSUME InOrder(g.chunks), g.blocks = 1 PROVE Document(g, s) = Count(End(s))
  <2>1. s = g.chunks
    BY <1>4 DEF Sorted
  <2> QED
    BY <2>1, <1>3, <1>4 DEF Listed, Document
<1>5. ASSUME ~(InOrder(g.chunks) /\ g.blocks = 1) PROVE Document(g, s) = Count(End(s))
  BY <1>2, <1>3, <1>5, JoinedFlatten DEF Document
<1> QED
  BY <1>3, <1>4, <1>5

-----------------------------------------------------------------------------
(* What is stored is what has arrived.                                     *)

Once(a, M) == \A i, j \in M : a[i] = a[j] => i = j

(* The chunks cs are those at the places M of the sequence a, each as      *)
(* often as there.                                                         *)
Trace(a, M, cs) ==
    /\ \A i \in M : \E j \in DOMAIN cs : cs[j] = a[i]
    /\ \A j \in DOMAIN cs : \E i \in M : a[i] = cs[j]
    /\ Once(a, M) => Once(cs, DOMAIN cs)

LEMMA TraceKept ==
  ASSUME NEW a \in Seq(ChunkType), NEW M, M \subseteq DOMAIN a, NEW cs, NEW c \in ChunkType,
         Trace(a, M, cs)
  PROVE  Trace(Append(a, c), M, cs)
<1> DEFINE b == Append(a, c)
<1>1. \A i \in M : b[i] = a[i]
  BY AppendProperties
<1> HIDE DEF b
<1>2. Once(b, M) => Once(a, M)
  BY <1>1 DEF Once
<1>3. Trace(b, M, cs)
  BY <1>1, <1>2 DEF Trace
<1> QED
  BY <1>3 DEF b

LEMMA TraceGrows ==
  ASSUME NEW a \in Seq(ChunkType), NEW M, M \subseteq DOMAIN a, NEW cs \in Seq(ChunkType),
         NEW c \in ChunkType, Trace(a, M, cs)
  PROVE  Trace(Append(a, c), M \union {Len(a) + 1}, Append(cs, c))
<1> DEFINE b == Append(a, c)
           k == Len(a) + 1
           N == M \union {k}
           ds == Append(cs, c)
           n == Len(cs) + 1
<1>1. /\ b[k] = c /\ \A i \in M : b[i] = a[i] /\ i # k
      /\ DOMAIN a = 1..Len(a) /\ Len(a) \in Nat
  BY AppendProperties
<1>2. /\ ds[n] = c /\ \A j \in DOMAIN cs : ds[j] = cs[j] /\ j # n
      /\ DOMAIN ds = (DOMAIN cs) \union {n}
  BY AppendProperties
<1> HIDE DEF b, k, ds, n
<1>3. \A i \in N : \E j \in DOMAIN ds : ds[j] = b[i]
  BY <1>1, <1>2 DEF Trace
<1>4. \A j \in DOMAIN ds : \E i \in N : b[i] = ds[j]
  BY <1>1, <1>2 DEF Trace
<1>5. ASSUME Once(b, N) PROVE Once(ds, DOMAIN ds)
  <2>1. Once(a, M)
    BY <1>1, <1>5 DEF Once
  <2>2. Once(cs, DOMAIN cs)
    BY <2>1 DEF Trace
  <2>3. \A j \in DOMAIN cs : ds[j] # c
    <3> SUFFICES ASSUME NEW j \in DOMAIN cs, ds[j] = c PROVE FALSE
      OBVIOUS
    <3>1. PICK i \in M : a[i] = cs[j]
      BY DEF Trace
    <3>2. b[i] = b[k] /\ i \in N /\ k \in N /\ i # k
      BY <3>1, <1>1, <1>2
    <3> QED
      BY <3>2, <1>5 DEF Once
  <2> SUFFICES ASSUME NEW i \in DOMAIN ds, NEW j \in DOMAIN ds, ds[i] = ds[j] PROVE i = j
    BY DEF Once
  <2> QED
    BY <2>2, <2>3, <1>2 DEF Once
<1> QED
  BY <1>3, <1>4, <1>5 DEF Trace, b, k, ds

Traced ==
    /\ Mine # {} => acc[Linked] # None
    /\ acc[Linked] # None =>
         /\ \E i \in Mine : arrived[i].full = acc[Linked].full
         /\ Trace(arrived, Mine, acc[Linked].chunks)

DocumentInv ==
    /\ acc = [g \in Guids |-> acc[g]]
    /\ arrived \in Seq(ChunkType)
    /\ \A g \in Guids : acc[g] # None => Listed(acc[g])
    /\ ~truncated => Traced
    /\ result # None => \E s \in Orders(acc[Linked]) : result = Build(acc[Linked], s)

LEMMA InitDocument == Init => DocumentInv
<1> SUFFICES ASSUME Init PROVE DocumentInv
  OBVIOUS
<1>1. /\ acc = [g \in Guids |-> None] /\ arrived = <<>> /\ result = None
  BY DEF Init
<1>2. Mine = {} /\ arrived \in Seq(ChunkType)
  BY <1>1 DEF Mine
<1>3. acc[Linked] = None
  BY <1>1, ConstantAssumption
<1> QED
  BY <1>1, <1>2, <1>3 DEF DocumentInv, Traced

LEMMA AddDocument ==
  ASSUME MemoryInv, DocumentInv, NEW c \in Segments, Add(c), UNCHANGED total
  PROVE  DocumentInv'
<1> DEFINE g == IF acc[c.guid] = None THEN Fresh(c.full) ELSE acc[c.guid]
           more == IF avail = None THEN left - Overhead - c.len ELSE avail
           r == Stored(g, c, more)
           k == Len(arrived) + 1
<1>1. /\ c \in ChunkType /\ c.guid \in Guids /\ c.full \in Nat /\ c.len \in Nat
      /\ Linked \in Guids /\ None \notin StoredType
  BY SegmentType, ConstantAssumption DEF ChunkType
<1>2. /\ arrived \in Seq(ChunkType) /\ arrived' = Append(arrived, c) /\ arrived' \in Seq(ChunkType)
  BY <1>1, AppendProperties DEF DocumentInv, Add
<1>3. result' = None
  BY DEF Add
<1>4. Listed(g)
  <2>1. CASE acc[c.guid] = None
    <3>1. g = Fresh(c.full) /\ <<>> \in Seq(ChunkType) /\ <<>> \in Seq(Nat)
      BY <2>1
    <3>2. Fresh(c.full) \in StoredType
      BY <1>1, <3>1 DEF Fresh, StoredType
    <3>3. ~Joined(<<>>)
      BY DEF Joined
    <3> QED
      BY <3>1, <3>2, <3>3 DEF Fresh, Listed
  <2>2. CASE acc[c.guid] # None
    BY <2>2, <1>1 DEF DocumentInv
  <2> QED
    BY <2>1, <2>2
<1>5. Listed(r) /\ r.chunks = Append(g.chunks, c) /\ r.full = g.full
  <2>1. more \in Nat
    BY <1>1, ConstantAssumption DEF Add, MemoryInv
  <2>2. g.full \in Nat /\ g.size \in Nat
    BY <1>4 DEF Listed, StoredType
  <2> HIDE DEF g, more
  <2>3. Room(g, c.len, more) \in Nat
    BY <2>1, <2>2, <1>1, RoomIs
  <2> QED
    BY <2>3, <1>1, <1>4, StoredListed DEF Stored
<1>6. /\ acc' = [h \in Guids |-> acc'[h]]
      /\ \A h \in Guids : acc'[h] # None => Listed(acc'[h])
  <2> HIDE DEF g, r
  <2>1. ASSUME NEW x, acc' = [acc EXCEPT ![c.guid] = x] \/ acc' = acc, Listed(x)
        PROVE  /\ acc' = [h \in Guids |-> acc'[h]]
               /\ \A h \in Guids : acc'[h] # None => Listed(acc'[h])
    <3>1. acc' = [h \in Guids |-> acc'[h]]
          /\ \A h \in Guids : acc'[h] = x \/ acc'[h] = acc[h]
      BY <2>1, <1>1 DEF DocumentInv
    <3> QED
      BY <3>1, <2>1 DEF DocumentInv
  <2>2. \/ acc' = acc \/ acc' = [acc EXCEPT ![c.guid] = g] \/ acc' = [acc EXCEPT ![c.guid] = r]
    BY DEF Add, g, r
  <2> QED
    BY <2>1, <2>2, <1>4, <1>5
<1>7. ASSUME ~truncated' PROVE Traced'
  <2>1. ~truncated /\ acc' = [acc EXCEPT ![c.guid] = r]
    BY <1>7 DEF Add
  <2>2. Traced
    BY <2>1 DEF DocumentInv
  <2>3. /\ k \notin Mine /\ Mine \subseteq DOMAIN arrived
        /\ DOMAIN arrived' = (DOMAIN arrived) \union {k}
        /\ arrived'[k] = c /\ \A i \in DOMAIN arrived : arrived'[i] = arrived[i]
    BY <1>1, <1>2, AppendProperties DEF Mine
  <2> HIDE DEF g, r, k
  <2>4. CASE c.guid # Linked
    <3>1. Mine' = Mine /\ acc'[Linked] = acc[Linked]
      BY <2>1, <2>3, <2>4, <1>1 DEF Mine, DocumentInv
    <3>2. acc[Linked] # None => Trace(arrived', Mine, acc[Linked].chunks)
      BY <2>2, <2>3, <1>1, <1>2, TraceKept DEF Traced
    <3> QED
      BY <3>1, <3>2, <2>2, <2>3 DEF Traced
  <2>5. CASE c.guid = Linked
    <3>1. Mine' = Mine \union {k} /\ acc'[Linked] = r
      BY <2>1, <2>3, <2>5, <1>1 DEF Mine, DocumentInv
    <3>2. r # None
      BY <1>1, <1>5 DEF Listed
    <3>3. Trace(arrived, Mine, g.chunks)
      <4>1. CASE acc[Linked] = None
        <5>1. Mine = {} /\ g.chunks = <<>>
          BY <4>1, <2>2, <2>5 DEF Traced, g, Fresh
        <5> QED
          BY <5>1 DEF Trace, Once
      <4>2. CASE acc[Linked] # None
        BY <4>2, <2>2, <2>5 DEF Traced, g
      <4> QED
        BY <4>1, <4>2
    <3>4. Trace(arrived', Mine', r.chunks)
      <4>1. g.chunks \in Seq(ChunkType)
        BY <1>4 DEF Listed, StoredType
      <4> QED
        BY <4>1, <3>1, <3>3, <2>3, <1>1, <1>2, <1>5, TraceGrows DEF k
    <3>5. \E i \in Mine' : arrived'[i].full = r.full
      <4>1. CASE acc[Linked] = None
        <5>1. r.full = c.full
          BY <4>1, <2>5, <1>5 DEF g, Fresh
        <5> QED
          BY <5>1, <3>1, <2>3
      <4>2. CASE acc[Linked] # None
        <5>1. PICK i \in Mine : arrived[i].full = acc[Linked].full
          BY <4>2, <2>2 DEF Traced
        <5>2. r.full = acc[Linked].full
          BY <4>2, <2>5, <1>5 DEF g
        <5> QED
          BY <5>1, <5>2, <3>1, <2>3
      <4> QED
        BY <4>1, <4>2
    <3> QED
      BY <3>1, <3>2, <3>4, <3>5 DEF Traced
  <2> QED
    BY <2>4, <2>5
<1> QED
  BY <1>2, <1>3, <1>6, <1>7 DEF DocumentInv

LEMMA StepDocument == MemoryInv /\ DocumentInv /\ [Next]_vars => DocumentInv'
<1> SUFFICES ASSUME MemoryInv, DocumentInv, [Next]_vars PROVE DocumentInv'
  OBVIOUS
<1>1. ASSUME NEW c \in Segments, Add(c), UNCHANGED total PROVE DocumentInv'
  BY <1>1, AddDocument
<1>2. ASSUME UNCHANGED <<acc, arrived, truncated>>, result' = result \/ \E s \in Orders(acc[Linked]) : result' = Build(acc[Linked], s)
      PROVE  DocumentInv'
  <2>1. Mine' = Mine /\ \A g, s : Build(g, s)' = Build(g, s)
    BY <1>2 DEF Mine, Build
  <2>2. Traced => Traced'
    BY <2>1, <1>2 DEF Traced
  <2>3. /\ acc' = [g \in Guids |-> acc'[g]] /\ arrived' \in Seq(ChunkType)
        /\ \A g \in Guids : acc'[g] # None => Listed(acc'[g])
    BY <1>2 DEF DocumentInv
  <2> QED
    BY <2>1, <2>2, <2>3, <1>2 DEF DocumentInv
<1> QED
  BY <1>1, <1>2 DEF Next, Finish, vars

(* A result with extended XMP is the document put together of what is      *)
(* stored under the linked GUID.                                           *)
LEMMA ResultIs ==
  ASSUME DocumentInv, result # None
  PROVE  \E s \in Orders(acc[Linked]) :
           LET g == acc[Linked]
               is == g # None /\ s # <<>>
               whole == is /\ Contiguous(s, g.full) /\ g.full # 0
           IN /\ whole => result.ext = Count(g.full) /\ result.ext # <<>>
              /\ ~whole => result.ext = <<>>
              /\ is /\ ~whole => result.truncated
              /\ ~is => result.truncated = truncated
<1>1. PICK s \in Orders(acc[Linked]) : result = Build(acc[Linked], s) /\ Linked \in Guids
  BY ConstantAssumption DEF DocumentInv
<1> DEFINE g == acc[Linked]
           is == g # None /\ s # <<>>
           whole == is /\ Contiguous(s, g.full) /\ g.full # 0
<1>2. ASSUME whole PROVE result.ext = Count(g.full) /\ result.ext # <<>>
  <2>1. Build(g, s) = [ext |-> Document(g, s), kept |-> FALSE, truncated |-> truncated]
    BY <1>2 DEF Build
  <2>2. Listed(g) /\ s \in Sorted(g.chunks)
    BY <1>1, <1>2 DEF DocumentInv, Orders
  <2>3. Document(g, s) = Count(g.full) /\ g.full # 0 /\ g.full \in Nat
    BY <1>2, <2>2, DocumentIs DEF Listed, StoredType
  <2>4. Count(g.full) # <<>>
    <3>1. 1 \in DOMAIN Count(g.full)
      BY <2>3 DEF Count
    <3> QED
      BY <3>1
  <2> QED
    BY <2>1, <2>3, <2>4, <1>1
<1>3. ASSUME is, ~whole PROVE result.ext = <<>> /\ result.truncated
  <2>1. Build(g, s) = [ext |-> <<>>, kept |-> TRUE, truncated |-> TRUE]
    BY <1>3 DEF Build
  <2> QED
    BY <2>1, <1>1
<1>4. ASSUME ~is PROVE result.ext = <<>> /\ result.truncated = truncated
  <2>1. Build(g, s) = [ext |-> <<>>, kept |-> FALSE, truncated |-> truncated]
    BY <1>4 DEF Build
  <2> QED
    BY <2>1, <1>1
<1> HIDE DEF is
<1> QED
  BY <1>1, <1>2, <1>3, <1>4 DEF is

LEMMA NoLoss == DocumentInv => NothingLostSilently
<1> SUFFICES ASSUME DocumentInv, result # None, Mine # {}, result.ext = <<>>, ~result.truncated
             PROVE  FALSE
  BY DEF NothingLostSilently
<1>1. PICK s \in Orders(acc[Linked]) : ~(acc[Linked] # None /\ s # <<>>) /\ ~truncated
  BY ResultIs
<1>2. Traced
  BY <1>1 DEF DocumentInv
<1>3. acc[Linked] # None /\ \E j \in DOMAIN acc[Linked].chunks : TRUE
  BY <1>2 DEF Traced, Trace
<1>4. acc[Linked].chunks \in Seq(ChunkType) /\ s \in Sorted(acc[Linked].chunks)
  BY <1>3, ConstantAssumption DEF DocumentInv, Listed, StoredType, Orders
<1>5. Len(s) = Len(acc[Linked].chunks) /\ Len(s) # 0
  BY <1>3, <1>4, SortedType
<1> QED
  BY <1>1, <1>3, <1>5

LEMMA NoCorruption == DocumentInv => NeverCorrupt
  BY ResultIs DEF NeverCorrupt, Count

-----------------------------------------------------------------------------
(* The chunks of a document, each once, are put together.                  *)

LEMMA Multiples ==
  ASSUME NEW n \in Nat \ {0}, NEW a \in Nat, a % n = 0
  PROVE  /\ (a + n) % n = 0
         /\ \A b \in Nat : b % n = 0 /\ a < b => a + n <= b
<1>1. ASSUME NEW x \in Nat PROVE x \div n \in Nat /\ x = n * (x \div n) + (x % n)
  OBVIOUS
<1> DEFINE p == a \div n
<1>2. p \in Nat /\ a = n * p
  BY <1>1
<1> HIDE DEF p
<1>3. a + n = n * (p + 1)
  BY <1>2
<1>4. (n * (p + 1)) % n = 0
  BY <1>2
<1>5. ASSUME NEW b \in Nat, b % n = 0, a < b PROVE a + n <= b
  <2> DEFINE q == b \div n
  <2>1. q \in Nat /\ b = n * q
    BY <1>1, <1>5
  <2> HIDE DEF q
  <2>2. p < q
    <3>1. p >= q => n * p >= n * q
      BY <2>1, <1>2, Z3
    <3> QED
      BY <3>1, <2>1, <1>2, <1>5
  <2>3. n * (q - p) >= n
    BY <2>1, <2>2, <1>2
  <2>4. n * (q - p) = n * q - n * p
    BY <2>1, <1>2
  <2> QED
    BY <2>1, <2>3, <2>4, <1>2
<1> QED
  BY <1>3, <1>4, <1>5

(* The chunks written of a document: one every ChunkSize bytes, as long as *)
(* that unless the document ends.                                          *)
LEMMA ChunksAre ==
  ASSUME NEW g \in Guids
  PROVE  /\ \A c \in Chunks(g) : /\ c \in ChunkType /\ c.full = Length[g]
                                 /\ c.off \in 0..(Length[g] - 1) /\ c.off % ChunkSize = 0
                                 /\ c.off + ChunkSize < Length[g] => c.len = ChunkSize
                                 /\ c.off + ChunkSize >= Length[g] => c.len = Length[g] - c.off
         /\ \A c, d \in Chunks(g) : c.off = d.off => c = d
         /\ \A o \in 0..(Length[g] - 1) : o % ChunkSize = 0 => \E c \in Chunks(g) : c.off = o
<1> DEFINE L == Length[g]
           chunk(o) == [guid |-> g, full |-> L, off |-> o, len |-> Min({ChunkSize, L - o})]
<1>1. L \in Nat \ {0} /\ ChunkSize \in Nat \ {0}
  BY ConstantAssumption
<1>2. Chunks(g) = {chunk(o) : o \in {n \in 0..(L - 1) : n % ChunkSize = 0}}
  BY DEF Chunks
<1>3. ASSUME NEW o \in 0..(L - 1)
      PROVE  /\ o + ChunkSize < L => Min({ChunkSize, L - o}) = ChunkSize
             /\ o + ChunkSize >= L => Min({ChunkSize, L - o}) = L - o
  <2>1. L - o \in Nat
    BY <1>1
  <2>2. \E x \in {ChunkSize, L - o} : \A y \in {ChunkSize, L - o} : x <= y
    BY <2>1, <1>1
  <2>3. /\ Min({ChunkSize, L - o}) \in {ChunkSize, L - o}
        /\ Min({ChunkSize, L - o}) <= ChunkSize /\ Min({ChunkSize, L - o}) <= L - o
    BY <2>2 DEF Min
  <2> QED
    BY <2>1, <2>3, <1>1
<1>4. \A c \in Chunks(g) : c \in ChunkType
  BY SegmentType DEF Segments
<1> HIDE DEF L
<1>5. ASSUME NEW c \in Chunks(g)
      PROVE  /\ c.full = L /\ c.off \in 0..(L - 1) /\ c.off % ChunkSize = 0 /\ c = chunk(c.off)
             /\ c.off + ChunkSize < L => c.len = ChunkSize
             /\ c.off + ChunkSize >= L => c.len = L - c.off
  <2>1. PICK o \in 0..(L - 1) : o % ChunkSize = 0 /\ c = chunk(o)
    BY <1>2
  <2>2. c.full = L /\ c.off = o /\ c.len = Min({ChunkSize, L - o})
    BY <2>1
  <2> QED
    BY <2>1, <2>2, <1>3
<1>6. \A o \in 0..(L - 1) : o % ChunkSize = 0 => chunk(o) \in Chunks(g) /\ chunk(o).off = o
  BY <1>2
<1> HIDE DEF chunk
<1> QED
  BY <1>4, <1>5, <1>6 DEF L

LEMMA ChunksPutTogether ==
  ASSUME NEW cs \in Seq(ChunkType), cs # <<>>, Once(cs, DOMAIN cs), NEW g \in Guids,
         \A c : c \in Chunks(g) <=> \E j \in DOMAIN cs : cs[j] = c, NEW s \in Sorted(cs)
  PROVE  s # <<>> /\ Contiguous(s, Length[g])
<1> DEFINE n == Len(cs)
           L == Length[g]
<1>1. L \in Nat \ {0} /\ ChunkSize \in Nat \ {0} /\ n \in Nat \ {0}
      /\ DOMAIN cs = 1..n /\ DOMAIN s = 1..n /\ Len(s) = n
  BY ConstantAssumption, ChunkSeqType, SortedType, EmptySeq
<1>2. PICK p \in Surjection(1..n, 1..n) : s = [i \in 1..n |-> cs[p[i]]]
  BY SortedIs
<1>13. /\ \A i \in 1..n : p[i] \in 1..n
       /\ \A j \in 1..n : \E i \in 1..n : p[i] = j
       /\ \A i, j \in 1..n : p[i] = p[j] => i = j
       /\ \A i, j \in 1..n : i < j => s[i].off <= s[j].off
  <2>1. IsFiniteSet(1..n)
    BY <1>1, FS_Interval
  <2>2. p \in Injection(1..n, 1..n)
    BY <2>1, FS_SurjSameCardinalityImpliesInj
  <2> QED
    BY <1>2, <2>2, SortedIs DEF Surjection, Injection, IsInjective
<1> HIDE DEF n, L
<1>3. \A i \in 1..n : p[i] \in 1..n /\ s[i] = cs[p[i]] /\ s[i] \in Chunks(g)
  <2> SUFFICES ASSUME NEW i \in 1..n PROVE p[i] \in 1..n /\ s[i] = cs[p[i]] /\ s[i] \in Chunks(g)
    OBVIOUS
  <2>1. p[i] \in 1..n /\ s[i] = cs[p[i]]
    BY <1>2, <1>13
  <2> QED
    BY <2>1, <1>1
<1>4. \A c \in Chunks(g) : \E i \in 1..n : s[i] = c
  <2> SUFFICES ASSUME NEW c \in Chunks(g) PROVE \E i \in 1..n : s[i] = c
    OBVIOUS
  <2>1. PICK j \in 1..n : cs[j] = c
    BY <1>1
  <2>2. PICK i \in 1..n : p[i] = j
    BY <1>13
  <2> QED
    BY <2>1, <2>2, <1>3
<1>5. \A i \in 1..n : /\ s[i].off \in Nat /\ s[i].off < L /\ s[i].off % ChunkSize = 0
                      /\ s[i].off + ChunkSize < L => s[i].len = ChunkSize
                      /\ s[i].off + ChunkSize >= L => s[i].len = L - s[i].off
  <2>1. \A c \in Chunks(g) : /\ c.off \in Nat /\ c.off < L /\ c.off % ChunkSize = 0
                             /\ c.off + ChunkSize < L => c.len = ChunkSize
                             /\ c.off + ChunkSize >= L => c.len = L - c.off
    BY <1>1, ChunksAre DEF L
  <2> QED
    BY <2>1, <1>3
<1>6. ASSUME NEW i \in 1..n, NEW j \in 1..n, i < j PROVE s[i].off < s[j].off
  <2>1. s[i].off <= s[j].off /\ p[i] \in 1..n /\ p[j] \in 1..n
    BY <1>6, <1>13
  <2>2. p[i] # p[j]
    BY <1>1, <1>6, <1>13
  <2>3. s[i] # s[j]
    BY <2>1, <2>2, <1>1, <1>3 DEF Once
  <2>4. s[i].off # s[j].off
    BY <2>3, <1>3, ChunksAre
  <2> QED
    BY <2>1, <2>4, <1>5
<1>7. \A o \in Nat : o < L /\ o % ChunkSize = 0 => \E i \in 1..n : s[i].off = o
  <2>1. \A o \in 0..(L - 1) : o % ChunkSize = 0 => \E c \in Chunks(g) : c.off = o
    BY ChunksAre DEF L
  <2> QED
    BY SMTT(60), <2>1, <1>1, <1>4
<1>8. s[1].off = 0
  <2>1. 0 % ChunkSize = 0 /\ 0 < L /\ 1 \in 1..n
    BY <1>1
  <2>2. PICK i \in 1..n : s[i].off = 0
    BY <2>1, <1>7
  <2>3. CASE i = 1
    BY <2>2, <2>3
  <2>4. CASE 1 < i
    BY <2>1, <2>2, <2>4, <1>5, <1>6
  <2> QED
    BY <2>3, <2>4, <1>1
<1>9. ASSUME NEW i \in 1..n, s[i].off + ChunkSize < L
      PROVE  i + 1 \in 1..n /\ s[i + 1].off = s[i].off + ChunkSize
  <2> DEFINE o == s[i].off
  <2>1. o \in Nat /\ o % ChunkSize = 0 /\ o + ChunkSize < L
    BY <1>5, <1>9
  <2> HIDE DEF o
  <2>2. (o + ChunkSize) % ChunkSize = 0 /\ o + ChunkSize \in Nat
    <3>1. ChunkSize \in Nat \ {0}
      BY <1>1
    <3>2. (o + ChunkSize) % ChunkSize = 0
      BY <3>1, <2>1, Multiples, Zenon
    <3>3. o + ChunkSize \in Nat
      BY <3>1, <2>1
    <3> QED
      BY <3>2, <3>3
  <2>3. PICK k \in 1..n : s[k].off = o + ChunkSize
    BY <2>1, <2>2, <1>7
  <2>4. i < k
    <3>1. s[i].off < s[k].off
      BY <2>1, <2>3, <1>1 DEF o
    <3>2. ~(k < i)
      <4>1. s[i].off \in Nat /\ s[k].off \in Nat
        BY <1>5
      <4>2. k < i => s[k].off < s[i].off
        BY <1>6
      <4> QED
        BY <3>1, <4>1, <4>2
    <3> QED
      BY <3>1, <3>2, <2>1, <1>1, <1>5
  <2>5. i + 1 \in 1..n /\ i < i + 1
    BY <2>4, <1>1
  <2>6. o < s[i + 1].off /\ s[i + 1].off \in Nat /\ s[i + 1].off % ChunkSize = 0
    BY <2>5, <1>5, <1>6 DEF o
  <2>7. o + ChunkSize <= s[i + 1].off
    BY <2>1, <2>6, <1>1, Multiples
  <2>8. ~(i + 1 < k)
    <3>1. i + 1 < k => s[i + 1].off < s[k].off
      BY <2>5, <1>6
    <3> QED
      BY <3>1, <2>3, <2>6, <2>7, <2>2
  <2>9. k = i + 1
    BY <2>4, <2>8, <1>1
  <2> QED
    BY <2>3, <2>5, <2>9 DEF o
<1>10. ASSUME NEW i \in 2..n PROVE s[i].off = s[i - 1].off + s[i - 1].len
  <2>1. i - 1 \in 1..n /\ i \in 1..n /\ i - 1 < i /\ i - 1 + 1 = i
    BY <1>1
  <2>2. s[i - 1].off < s[i].off
    BY <2>1, <1>6
  <2>3. /\ s[i - 1].off \in Nat /\ s[i].off \in Nat /\ s[i].off < L
        /\ s[i - 1].off % ChunkSize = 0 /\ s[i].off % ChunkSize = 0
    BY <2>1, <1>5
  <2>4. s[i - 1].off + ChunkSize < L
    <3>1. s[i - 1].off + ChunkSize <= s[i].off
      BY <2>2, <2>3, <1>1, Multiples
    <3> QED
      BY <3>1, <2>3, <1>1
  <2>5. s[i - 1].len = ChunkSize
    BY <2>1, <2>4, <1>5
  <2> QED
    BY <2>1, <2>4, <2>5, <1>9
<1>11. Last(s).off + Last(s).len = L
  <2>1. n \in 1..n /\ ~(n + 1 \in 1..n) /\ Last(s) = s[n]
    BY <1>1 DEF Last
  <2>2. ~(s[n].off + ChunkSize < L)
    BY <2>1, <1>9
  <2>3. s[n].off \in Nat /\ (s[n].off + ChunkSize >= L => s[n].len = L - s[n].off)
    BY <2>1, <1>5
  <2>4. s[n].len = L - s[n].off
    BY <2>2, <2>3, <1>1
  <2> QED
    BY <2>1, <2>3, <2>4, <1>1
<1>12. s # <<>>
  BY <1>1
<1> QED
  BY <1>1, <1>8, <1>10, <1>11, <1>12 DEF Contiguous, L

LEMMA WholeDocument == DocumentInv => WholeIsMerged
<1> SUFFICES ASSUME DocumentInv, result # None, ~truncated,
                    {arrived[i] : i \in Mine} = Chunks(Linked),
                    \A i, j \in Mine : arrived[i] = arrived[j] => i = j
             PROVE  Len(result.ext) = Length[Linked]
  BY DEF WholeIsMerged
<1> DEFINE cs == acc[Linked].chunks
<1>1. Linked \in Guids /\ Length[Linked] \in Nat \ {0} /\ ChunkSize \in Nat \ {0}
  BY ConstantAssumption
<1>2. Mine # {}
  <2>1. 0 \in 0..(Length[Linked] - 1) /\ 0 % ChunkSize = 0
    BY <1>1
  <2>2. \E c \in Chunks(Linked) : c.off = 0
    BY <2>1, <1>1, ChunksAre
  <2> QED
    BY <2>2
<1>3. /\ acc[Linked] # None /\ Trace(arrived, Mine, cs)
      /\ \E i \in Mine : arrived[i].full = acc[Linked].full
  BY <1>2 DEF DocumentInv, Traced
<1>4. cs \in Seq(ChunkType) /\ cs # <<>>
  <2>1. Listed(acc[Linked])
    BY <1>1, <1>3 DEF DocumentInv
  <2>2. \E j \in DOMAIN cs : TRUE
    BY <1>2, <1>3 DEF Trace
  <2> QED
    BY <2>1, <2>2 DEF Listed, StoredType
<1>5. acc[Linked].full = Length[Linked]
  BY <1>1, <1>3, ChunksAre
<1> HIDE DEF cs
<1>6. Once(cs, DOMAIN cs)
  BY <1>3 DEF Trace, Once
<1>7. \A c : c \in Chunks(Linked) <=> \E j \in DOMAIN cs : cs[j] = c
  BY <1>3 DEF Trace
<1>8. \A s \in Orders(acc[Linked]) : s # <<>> /\ Contiguous(s, Length[Linked])
  BY <1>1, <1>3, <1>4, <1>6, <1>7, ChunksPutTogether DEF Orders, cs
<1>9. result.ext = Count(Length[Linked])
  BY <1>1, <1>3, <1>5, <1>8, ResultIs
<1> QED
  BY <1>1, <1>9 DEF Count

(* What the reader puts together is the linked document, from its first    *)
(* byte to its last, whatever other software did with the chunks; and when *)
(* every chunk came once, it is put together unless a limit cut something  *)
(* off (extacc.go, assemble).                                              *)
THEOREM MergedOnly == Spec => []Merged
<1> DEFINE I == MemoryInv /\ DocumentInv
<1>1. Init => I
  BY InitMemory, InitDocument
<1>2. I /\ [Next]_vars => I'
  BY StepMemory, StepDocument
<1>3. I => Merged
  BY NoCorruption, WholeDocument DEF Merged
<1> QED
  BY <1>1, <1>2, <1>3, PTL DEF Spec

(* No part of the linked document is lost without a word (jpeg.go,         *)
(* buildXMPResult).                                                        *)
THEOREM LossReported == Spec => []NothingLostSilently
<1> DEFINE I == MemoryInv /\ DocumentInv
<1>1. Init => I
  BY InitMemory, InitDocument
<1>2. I /\ [Next]_vars => I'
  BY StepMemory, StepDocument
<1>3. I => NothingLostSilently
  BY NoLoss
<1> QED
  BY <1>1, <1>2, <1>3, PTL DEF Spec
=============================================================================
