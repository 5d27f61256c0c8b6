-------------------------- MODULE JPEGInjectProofs --------------------------
(***************************************************************************)
(* The JPEG writer for every file: any number of segments of any kinds in  *)
(* any order, any payloads and any segments kept, and any number of calls. *)
(***************************************************************************)
EXTENDS JPEGInject, Lists

(* The call in progress and what it puts in.                               *)
CallInv ==
    /\ call = None => scan = None /\ put = None
    /\ scan # None => put = None
    /\ call # None =>
        /\ call.keep \subseteq Meta /\ (call.XMP # None => IsXMP(call.XMP))
        /\ "EXIF" \in call.keep => call.EXIF = None
        /\ "XMP" \in call.keep => call.XMP = None
        /\ "PS" \in call.keep => call.IPTC = None
        /\ KeepsGUID(file, call.XMP) => call.XMP.form # "keptLarge"
        /\ pl = [EXIF |-> call.EXIF, XMP |-> Linked(file, call.XMP), IPTC |-> call.IPTC,
                 irb |-> OrigIRB(file, call),
                 guid |-> IF KeepsGUID(file, call.XMP) THEN call.XMP.guid ELSE None]

(* What plan p says of the segments 1..n of f, of which those at D are     *)
(* dropped: none of them ends the scan, and it has the first of each kind, *)
(* the first of each kind that is dropped, and the end of the leading ones.*)
Dropped == {i \in 1..Len(file) : Drops(file[i])}
Of(f, k, n) == {i \in 1..n : MetaKind(f[i]) = k}
Marks(at, S) == IF S = {} THEN at = 0 ELSE at \in S /\ \A i \in S : at <= i
IsPlan(p) == /\ p = [tail |-> p.tail, insertAt |-> p.insertAt, first |-> p.first,
                     dropAt |-> p.dropAt, drops |-> p.drops]
             /\ p.first = [k \in Meta |-> p.first[k]] /\ p.dropAt = [k \in Meta |-> p.dropAt[k]]
PlanTo(p, f, D, n) ==
    /\ IsPlan(p)
    /\ \A i \in 1..n : f[i].kind \notin StopKinds
    /\ \A k \in Meta : Marks(p.first[k], Of(f, k, n)) /\ Marks(p.dropAt[k], Of(f, k, n) \intersect D)
    /\ p.insertAt \in 1..n + 1
    /\ \A i \in 1..p.insertAt - 1 : IsLeading(f[i])

(* The runs are the segments from lo up to hi that are dropped.            *)
IsRun(d, lo, hi) == d = [from |-> d.from, to |-> d.to] /\ d.from \in lo..hi /\ d.to \in d.from + 1..hi
In(drops, i) == \E d \in 1..Len(drops) : drops[d].from <= i /\ i < drops[d].to
RunsOK(drops, D, lo, hi) ==
    /\ IsList(drops)
    /\ \A d \in 1..Len(drops) : IsRun(drops[d], lo, hi)
    /\ \A d, e \in 1..Len(drops) : d < e => drops[d].to < drops[e].from
    /\ \A i \in lo..hi - 1 : i \in D <=> In(drops, i)

(* A plan is recycled as it is left.                                       *)
Shape(p) ==
    /\ \A k \in Meta : p.dropAt[k] # 0 => p.first[k] \in 1..p.dropAt[k]
    /\ IsList(p.drops)
    /\ \A d \in 1..Len(p.drops) : p.drops[d].from < p.drops[d].to
    /\ \A d \in 1..Len(p.drops) - 1 : p.drops[d].to < p.drops[d + 1].from

ScanInv ==
    scan # None =>
        /\ scan = [pos |-> scan.pos, inRun |-> scan.inRun]
        /\ scan.pos \in 1..Len(file) + 1
        /\ PlanTo(plan, file, Dropped, scan.pos - 1) /\ RunsOK(plan.drops, Dropped, 1, scan.pos)
        /\ IF scan.inRun THEN plan.insertAt = scan.pos
           ELSE plan.insertAt < scan.pos /\ ~IsLeading(file[plan.insertAt])

Ended(f, n) == n <= Len(f) => f[n].kind \in StopKinds
WriteInv ==
    put # None =>
        /\ put \subseteq {k \in Meta : Has(k)}
        /\ plan.tail \in 1..Len(file) + 1 /\ Ended(file, plan.tail)
        /\ PlanTo(plan, file, Dropped, plan.tail - 1)
        /\ plan.insertAt <= Len(file) => ~IsLeading(file[plan.insertAt])
        /\ cursor \in 1..plan.tail
        /\ RunsOK(plan.drops, Dropped, cursor, plan.tail)
        /\ \A k \in put : \A i \in EmitOffset(k)..cursor - 1 : i \in Dropped

(* All that is not metadata, and what is kept, is in the output as far as  *)
(* the source was dealt with.                                              *)
CopyInv ==
    put # None =>
        /\ IsList(out)
        /\ \A i \in 1..Len(out) : out[i].kind \notin StopKinds
        /\ Staying(call, out) = Staying(call, Before(file, cursor))

Inv == IsList(file) /\ CallInv /\ Shape(plan) /\ ScanInv /\ WriteInv /\ CopyInv
-----------------------------------------------------------------------------
(* The beginning of a list, and of a concatenation.                        *)
LEMMA BeforeList ==
    ASSUME NEW s, IsList(s), NEW n \in 1..Len(s) + 1
    PROVE  /\ IsList(Before(s, n)) /\ Len(Before(s, n)) = n - 1
           /\ \A i \in 1..n - 1 : Before(s, n)[i] = s[i]
<1>1. Len(s) \in Nat
  BY DEF IsList
<1>2. /\ IsList(SubSeq(s, 1, n - 1)) /\ Len(SubSeq(s, 1, n - 1)) = IF 1 <= n - 1 THEN n - 1 - 1 + 1 ELSE 0
      /\ \A i \in 1..(n - 1) - 1 + 1 : SubSeq(s, 1, n - 1)[i] = s[1 + i - 1]
  BY <1>1, SubList
<1> QED
  BY <1>1, <1>2 DEF Before

LEMMA BeforeAll == ASSUME NEW s, IsList(s) PROVE Before(s, Len(s) + 1) = s
<1> DEFINE n == Len(s) + 1
<1>1. Len(s) \in Nat /\ n \in 1..Len(s) + 1 /\ n - 1 = Len(s)
  BY DEF IsList
<1> HIDE DEF n
<1>2. IsList(Before(s, n)) /\ Len(Before(s, n)) = Len(s) /\ \A i \in 1..Len(s) : Before(s, n)[i] = s[i]
  BY <1>1, BeforeList
<1> QED
  BY <1>2, ListEqual DEF n

LEMMA BeforeNone == ASSUME NEW s PROVE Before(s, 1) = <<>>
BY SubSeqEmpty DEF Before

LEMMA BeforeMore ==
    ASSUME NEW s, IsList(s), NEW n \in 1..Len(s)
    PROVE  Before(s, n + 1) = Append(Before(s, n), s[n])
<1>1. /\ Len(s) \in Nat /\ n \in 1..Len(s) + 1 /\ n + 1 \in 1..Len(s) + 1 /\ n \in Nat
  BY DEF IsList
<1> DEFINE a == Before(s, n)
           b == Before(s, n + 1)
<1>2. IsList(a) /\ Len(a) = n - 1 /\ \A i \in 1..n - 1 : a[i] = s[i]
  BY <1>1, BeforeList
<1>3. IsList(b) /\ Len(b) = n /\ \A i \in 1..n : b[i] = s[i]
  BY <1>1, BeforeList
<1> HIDE DEF a, b
<1>4. /\ IsList(Append(a, s[n])) /\ Len(Append(a, s[n])) = n
      /\ \A i \in 1..n - 1 : Append(a, s[n])[i] = a[i]
      /\ Append(a, s[n])[n] = s[n]
  BY <1>1, <1>2, AppendList
<1>5. \A i \in 1..n : b[i] = Append(a, s[n])[i]
  BY <1>1, <1>2, <1>3, <1>4
<1> QED
  BY <1>3, <1>4, <1>5, ListEqual DEF a, b

-----------------------------------------------------------------------------
(* Chosen: the elements of a list that are in a set.                       *)

Chooses(f, s, S) ==
    /\ f \in [0..Len(s) -> Seq({s[i] : i \in 1..Len(s)} \intersect S)]
    /\ f[0] = <<>>
    /\ \A i \in 1..Len(s) : f[i] = IF s[i] \in S THEN Append(f[i - 1], s[i]) ELSE f[i - 1]
LEMMA ChosenIs ==
    ASSUME NEW s, IsList(s), NEW S
    PROVE  \E f : Chooses(f, s, S) /\ Chosen(s, S) = f[Len(s)]
<1> DEFINE n == Len(s)
           E == {s[i] : i \in 1..n} \intersect S
           V == Seq(E)
           Rule(f) == f = [i \in 0..n |-> IF i = 0 THEN <<>>
                                          ELSE IF s[i] \in S THEN Append(f[i - 1], s[i]) ELSE f[i - 1]]
           h == [k \in 1..n |-> [v \in V |-> IF s[k] \in S THEN Append(v, s[k]) ELSE v]]
<1>1. n \in Nat
  BY DEF IsList
<1>2. ASSUME NEW k \in 1..n, NEW v \in V
      PROVE  (IF s[k] \in S THEN Append(v, s[k]) ELSE v) \in V
  <2>1. CASE s[k] \in S
    <3>1. s[k] \in E
      BY <2>1
    <3> HIDE DEF E
    <3> QED
      BY <2>1, <3>1, AppendProperties
  <2> QED
    BY <2>1
<1>3. h \in [1..n -> [V -> V]] /\ <<>> \in V
  BY <1>2
<1>4. \A k \in 1..n, v \in V : h[k][v] = IF s[k] \in S THEN Append(v, s[k]) ELSE v
  OBVIOUS
<1> HIDE DEF h, V
<1>5. PICK g : Steps(g, n, V, <<>>, h)
  BY <1>1, <1>3, Recursion
<1>6. g \in [0..n -> V] /\ g[0] = <<>> /\ \A k \in 1..n : g[k] = h[k][g[k - 1]]
  BY <1>5 DEF Steps
<1>7. \A k \in 1..n : k - 1 \in 0..n /\ g[k - 1] \in V /\ k # 0
  BY <1>1, <1>6
<1>8. \A k \in 1..n : g[k] = IF s[k] \in S THEN Append(g[k - 1], s[k]) ELSE g[k - 1]
  BY <1>4, <1>6, <1>7
<1>9. Rule(g)
  <2>1. \A i \in 0..n : i = 0 \/ i \in 1..n
    BY <1>1
  <2>2. \A i \in 0..n : g[i] = IF i = 0 THEN <<>>
                               ELSE IF s[i] \in S THEN Append(g[i - 1], s[i]) ELSE g[i - 1]
    BY <1>6, <1>7, <1>8, <2>1
  <2>3. g = [i \in 0..n |-> g[i]]
    BY <1>6
  <2> QED
    BY <2>2, <2>3
<1> DEFINE f == CHOOSE f : Rule(f)
<1>10. Rule(f) /\ Chosen(s, S) = f[n]
  <2>1. Chosen(s, S) = f[n]
    BY DEF Chosen
  <2> QED
    BY <1>9, <2>1
<1> HIDE DEF f
<1>11. /\ f[0] = <<>>
       /\ \A i \in 1..n : f[i] = IF s[i] \in S THEN Append(f[i - 1], s[i]) ELSE f[i - 1]
  <2>1. 0 \in 0..n /\ \A i \in 1..n : i \in 0..n /\ i # 0
    BY <1>1
  <2> QED
    BY <1>10, <2>1
<1> DEFINE T == {k \in 0..n : f[k] \in V}
<1>12. 0 \in T /\ \A k \in 1..n : k - 1 \in T => k \in T
  <2>1. 0 \in T
    BY <1>1, <1>3, <1>11
  <2>2. ASSUME NEW k \in 1..n, f[k - 1] \in V PROVE f[k] \in V
    BY <2>2, <1>2, <1>11 DEF V
  <2>3. \A k \in 1..n : k \in 0..n
    BY <1>1
  <2> QED
    BY <2>1, <2>2, <2>3
<1> HIDE DEF T
<1>13. \A k \in 0..n : k \in T
  BY <1>1, <1>12, UpTo
<1>14. f \in [0..n -> V]
  <2>1. f = [i \in 0..n |-> f[i]]
    BY <1>10
  <2>2. \A k \in 0..n : f[k] \in V
    BY <1>13 DEF T
  <2> QED
    BY <2>1, <2>2
<1> QED
  BY <1>10, <1>11, <1>14 DEF V, Chooses

(* What is chosen is in the list and in the set.                           *)
LEMMA ChosenType ==
    ASSUME NEW s, IsList(s), NEW S
    PROVE  Chosen(s, S) \in Seq({s[i] : i \in 1..Len(s)} \intersect S) /\ IsList(Chosen(s, S))
<1> DEFINE E == {s[i] : i \in 1..Len(s)} \intersect S
<1>1. Chosen(s, S) \in Seq(E)
  <2>1. Len(s) \in Nat /\ Len(s) \in 0..Len(s)
    BY DEF IsList
  <2>2. PICK f : Chooses(f, s, S) /\ Chosen(s, S) = f[Len(s)]
    BY ChosenIs
  <2> QED
    BY <2>1, <2>2 DEF Chooses
<1> HIDE DEF E
<1>2. IsList(Chosen(s, S))
  BY <1>1, SeqIsList
<1> QED
  BY <1>1, <1>2 DEF E

LEMMA ChosenEmpty == ASSUME NEW S PROVE Chosen(<<>>, S) = <<>>
<1>1. PICK f : Chooses(f, <<>>, S) /\ Chosen(<<>>, S) = f[Len(<<>>)]
  BY EmptyList, ChosenIs
<1> QED
  BY <1>1 DEF Chooses

(* One element more.                                                       *)
LEMMA ChosenStep ==
    ASSUME NEW s, IsList(s), NEW n \in 1..Len(s), NEW S
    PROVE  Chosen(Before(s, n + 1), S) =
             IF s[n] \in S THEN Append(Chosen(Before(s, n), S), s[n]) ELSE Chosen(Before(s, n), S)
<1> DEFINE a == Before(s, n)
           b == Before(s, n + 1)
<1>1. /\ Len(s) \in Nat /\ n \in 1..Len(s) + 1 /\ n + 1 \in 1..Len(s) + 1 /\ n \in Nat /\ n - 1 \in Nat
  BY DEF IsList
<1>2. IsList(a) /\ Len(a) = n - 1 /\ \A i \in 1..n - 1 : a[i] = s[i]
  BY <1>1, BeforeList
<1>3. IsList(b) /\ Len(b) = n /\ \A i \in 1..n : b[i] = s[i]
  BY <1>1, BeforeList
<1> HIDE DEF a, b
<1>4a. PICK f : Chooses(f, a, S) /\ Chosen(a, S) = f[Len(a)]
  BY <1>2, ChosenIs
<1>4. /\ f[0] = <<>>
      /\ \A i \in 1..n - 1 : f[i] = IF a[i] \in S THEN Append(f[i - 1], a[i]) ELSE f[i - 1]
      /\ Chosen(a, S) = f[n - 1]
  BY <1>2, <1>4a DEF Chooses
<1>5a. PICK g : Chooses(g, b, S) /\ Chosen(b, S) = g[Len(b)]
  BY <1>3, ChosenIs
<1>5. /\ g[0] = <<>>
      /\ \A i \in 1..n : g[i] = IF b[i] \in S THEN Append(g[i - 1], b[i]) ELSE g[i - 1]
      /\ Chosen(b, S) = g[n]
  BY <1>3, <1>5a DEF Chooses
<1> DEFINE T == {k \in 0..n - 1 : f[k] = g[k]}
<1>6. 0 \in T /\ \A k \in 1..n - 1 : k - 1 \in T => k \in T
  <2>1. 0 \in T
    BY <1>1, <1>4, <1>5
  <2>2. ASSUME NEW k \in 1..n - 1, f[k - 1] = g[k - 1] PROVE k \in 0..n - 1 /\ f[k] = g[k]
    <3>1. k \in 1..n /\ k \in 0..n - 1 /\ a[k] = b[k]
      BY <1>1, <1>2, <1>3
    <3> QED
      BY <2>2, <3>1, <1>4, <1>5
  <2> QED
    BY <2>1, <2>2
<1> HIDE DEF T
<1>7. \A k \in 0..n - 1 : k \in T
  BY <1>1, <1>6, UpTo
<1>8. f[n - 1] = g[n - 1]
  BY <1>1, <1>7 DEF T
<1>9. g[n] = (IF b[n] \in S THEN Append(g[n - 1], b[n]) ELSE g[n - 1]) /\ b[n] = s[n]
  BY <1>1, <1>3, <1>5
<1> QED
  BY <1>4, <1>5, <1>8, <1>9 DEF a, b

(* What is chosen depends on which of the elements are in the set alone.   *)
LEMMA ChosenSame ==
    ASSUME NEW s, IsList(s), NEW S, NEW T, \A i \in 1..Len(s) : s[i] \in S <=> s[i] \in T
    PROVE  Chosen(s, S) = Chosen(s, T)
<1> DEFINE n == Len(s)
           U == {k \in 0..n : Chosen(Before(s, k + 1), S) = Chosen(Before(s, k + 1), T)}
<1>1. n \in Nat /\ 0 + 1 = 1
  BY DEF IsList
<1>2. 0 \in U
  BY <1>1, BeforeNone, ChosenEmpty
<1>3. ASSUME NEW k \in 1..n, k - 1 \in U PROVE k \in U
  <2>1. k \in 0..n /\ k - 1 + 1 = k
    BY <1>1
  <2>2. Chosen(Before(s, k), S) = Chosen(Before(s, k), T)
    BY <1>3, <2>1
  <2> QED
    BY <2>1, <2>2, ChosenStep
<1> HIDE DEF U
<1>4. \A k \in 0..n : k \in U
  BY <1>1, <1>2, <1>3, UpTo
<1>5. n \in U
  BY <1>1, <1>4
<1> QED
  BY <1>5, BeforeAll DEF U

LEMMA ChosenNone ==
    ASSUME NEW s, IsList(s), NEW S, \A i \in 1..Len(s) : s[i] \notin S
    PROVE  Chosen(s, S) = <<>>
<1> DEFINE n == Len(s)
           U == {k \in 0..n : Chosen(Before(s, k + 1), S) = <<>>}
<1>1. n \in Nat /\ 0 + 1 = 1
  BY DEF IsList
<1>2. 0 \in U
  BY <1>1, BeforeNone, ChosenEmpty
<1>3. ASSUME NEW k \in 1..n, k - 1 \in U PROVE k \in U
  <2>1. k \in 0..n /\ k - 1 + 1 = k
    BY <1>1
  <2>2. Chosen(Before(s, k), S) = <<>>
    BY <1>3, <2>1
  <2> QED
    BY <2>1, <2>2, ChosenStep
<1> HIDE DEF U
<1>4. \A k \in 0..n : k \in U
  BY <1>1, <1>2, <1>3, UpTo
<1>5. n \in U
  BY <1>1, <1>4
<1> QED
  BY <1>5, BeforeAll DEF U

LEMMA ChosenAll ==
    ASSUME NEW s, IsList(s), NEW S, \A i \in 1..Len(s) : s[i] \in S
    PROVE  Chosen(s, S) = s
<1> DEFINE n == Len(s)
           U == {k \in 0..n : Chosen(Before(s, k + 1), S) = Before(s, k + 1)}
<1>1. n \in Nat /\ 0 + 1 = 1
  BY DEF IsList
<1>2. 0 \in U
  BY <1>1, BeforeNone, ChosenEmpty
<1>3. ASSUME NEW k \in 1..n, k - 1 \in U PROVE k \in U
  <2>1. k \in 0..n /\ k - 1 + 1 = k
    BY <1>1
  <2>2. Chosen(Before(s, k), S) = Before(s, k)
    BY <1>3, <2>1
  <2>3. Chosen(Before(s, k + 1), S) = Append(Before(s, k), s[k])
    BY <2>2, ChosenStep
  <2> QED
    BY <2>1, <2>3, BeforeMore
<1> HIDE DEF U
<1>4. \A k \in 0..n : k \in U
  BY <1>1, <1>2, <1>3, UpTo
<1>5. n \in U
  BY <1>1, <1>4
<1> QED
  BY <1>5, BeforeAll DEF U

(* The beginning of a concatenation.                                       *)
LEMMA BeforeConcat ==
    ASSUME NEW s, IsList(s), NEW t, IsList(t), NEW k \in 0..Len(t)
    PROVE  /\ Len(s) + k + 1 \in 1..Len(s \o t) + 1
           /\ Before(s \o t, Len(s) + k + 1) = s \o Before(t, k + 1)
           /\ \A n \in 1..Len(s) + 1 : Before(s \o t, n) = Before(s, n)
<1> DEFINE c == s \o t
           b == Before(t, k + 1)
           m == Len(s) + k + 1
<1>1. /\ Len(s) \in Nat /\ Len(t) \in Nat /\ IsList(c) /\ Len(c) = Len(s) + Len(t)
      /\ \A i \in 1..Len(s) : c[i] = s[i]
      /\ \A i \in 1..Len(t) : c[Len(s) + i] = t[i]
  BY ConcatList DEF IsList
<1>2. IsList(b) /\ Len(b) = k /\ \A i \in 1..k : b[i] = t[i]
  BY <1>1, BeforeList
<1>3. m \in 1..Len(c) + 1 /\ m - 1 = Len(s) + k
  BY <1>1
<1> HIDE DEF c, b, m
<1>4. IsList(Before(c, m)) /\ Len(Before(c, m)) = Len(s) + k /\ \A i \in 1..Len(s) + k : Before(c, m)[i] = c[i]
  BY <1>1, <1>3, BeforeList
<1>5. /\ IsList(s \o b) /\ Len(s \o b) = Len(s) + k
      /\ \A i \in 1..Len(s) : (s \o b)[i] = s[i]
      /\ \A i \in 1..k : (s \o b)[Len(s) + i] = b[i]
  <2>1. /\ IsList(s \o b) /\ Len(s \o b) = Len(s) + Len(b)
        /\ \A i \in 1..Len(s) : (s \o b)[i] = s[i]
        /\ \A i \in 1..Len(b) : (s \o b)[Len(s) + i] = b[i]
    <3>1. IsList(b)
      BY <1>2
    <3> QED
      BY <3>1, ConcatList
  <2> QED
    BY <1>2, <2>1
<1>6. ASSUME NEW i \in 1..Len(s) + k PROVE Before(c, m)[i] = (s \o b)[i]
  <2>1. CASE i <= Len(s)
    BY <2>1, <1>1, <1>4, <1>5
  <2>2. CASE ~(i <= Len(s))
    <3>1. i - Len(s) \in 1..k /\ i - Len(s) \in 1..Len(t) /\ Len(s) + (i - Len(s)) = i
      BY <2>2, <1>1
    <3> QED
      BY <3>1, <1>1, <1>2, <1>4, <1>5
  <2> QED
    BY <2>1, <2>2
<1>7. Before(c, m) = s \o b
  BY <1>4, <1>5, <1>6, ListEqual
<1>8. ASSUME NEW n \in 1..Len(s) + 1 PROVE Before(c, n) = Before(s, n)
  <2>1. n \in 1..Len(c) + 1
    BY <1>1
  <2>2. IsList(Before(c, n)) /\ Len(Before(c, n)) = n - 1 /\ \A i \in 1..n - 1 : Before(c, n)[i] = c[i]
    BY <2>1, <1>1, BeforeList
  <2>3. IsList(Before(s, n)) /\ Len(Before(s, n)) = n - 1 /\ \A i \in 1..n - 1 : Before(s, n)[i] = s[i]
    BY BeforeList
  <2>4. \A i \in 1..n - 1 : i \in 1..Len(s)
    BY <1>1
  <2>5. \A i \in 1..Len(Before(c, n)) : Before(c, n)[i] = Before(s, n)[i]
    BY <2>2, <2>3, <2>4, <1>1
  <2> QED
    BY <2>2, <2>3, <2>5, ListEqual
<1> QED
  BY <1>3, <1>7, <1>8 DEF c, b, m

LEMMA ChosenConcat ==
    ASSUME NEW s, IsList(s), NEW t, IsList(t), NEW S
    PROVE  Chosen(s \o t, S) = Chosen(s, S) \o Chosen(t, S)
<1> DEFINE c == s \o t
           n == Len(t)
           U == {k \in 0..n : Chosen(Before(c, Len(s) + k + 1), S) = Chosen(s, S) \o Chosen(Before(t, k + 1), S)}
<1>1. /\ Len(s) \in Nat /\ n \in Nat /\ 0 + 1 = 1 /\ IsList(c) /\ Len(c) = Len(s) + n
      /\ \A i \in 1..n : c[Len(s) + i] = t[i]
  BY ConcatList DEF IsList
<1>2. 0 \in U
  <2>1. Before(c, Len(s) + 0 + 1) = s \o Before(t, 1)
    BY <1>1, BeforeConcat
  <2>2. Before(t, 1) = <<>> /\ s \o <<>> = s
    BY BeforeNone, ConcatEmpty
  <2>3. Chosen(s, S) \o <<>> = Chosen(s, S)
    BY ChosenType, ConcatEmpty
  <2>4. Chosen(Before(c, Len(s) + 0 + 1), S) = Chosen(s, S) \o Chosen(Before(t, 0 + 1), S)
    BY <1>1, <2>1, <2>2, <2>3, ChosenEmpty
  <2>5. 0 \in 0..n
    BY <1>1
  <2> QED
    BY <2>4, <2>5
<1> HIDE DEF c
<1>3. ASSUME NEW k \in 1..n, k - 1 \in U PROVE k \in U
  <2>1. k \in 0..n /\ k - 1 \in 0..n /\ k - 1 + 1 = k /\ Len(s) + (k - 1) + 1 = Len(s) + k
        /\ Len(s) + k \in 1..Len(c) /\ k \in 1..Len(t) + 1
    BY <1>1
  <2>2. Chosen(Before(c, Len(s) + k), S) = Chosen(s, S) \o Chosen(Before(t, k), S)
    BY <1>3, <2>1
  <2>3. Chosen(Before(c, Len(s) + k + 1), S) =
          IF t[k] \in S THEN Append(Chosen(Before(c, Len(s) + k), S), t[k]) ELSE Chosen(Before(c, Len(s) + k), S)
    <3> DEFINE m == Len(s) + k
    <3>1. m \in 1..Len(c) /\ c[m] = t[k]
      BY <1>1, <2>1
    <3> HIDE DEF m
    <3>2. Chosen(Before(c, m + 1), S) = IF c[m] \in S THEN Append(Chosen(Before(c, m), S), c[m]) ELSE Chosen(Before(c, m), S)
      <4>1. IsList(c) /\ m \in 1..Len(c)
        BY <1>1, <3>1
      <4>2. ASSUME NEW d, IsList(d), NEW j \in 1..Len(d)
            PROVE  Chosen(Before(d, j + 1), S) =
                     IF d[j] \in S THEN Append(Chosen(Before(d, j), S), d[j]) ELSE Chosen(Before(d, j), S)
        BY <4>2, ChosenStep
      <4> QED
        BY <4>1, <4>2
    <3> QED
      BY <3>1, <3>2 DEF m
  <2>4. Chosen(Before(t, k + 1), S) =
          IF t[k] \in S THEN Append(Chosen(Before(t, k), S), t[k]) ELSE Chosen(Before(t, k), S)
    BY ChosenStep
  <2>5. IsList(Chosen(s, S)) /\ IsList(Chosen(Before(t, k), S))
    BY <2>1, BeforeList, ChosenType
  <2>6. Chosen(s, S) \o Append(Chosen(Before(t, k), S), t[k]) = Append(Chosen(s, S) \o Chosen(Before(t, k), S), t[k])
    BY <2>5, ConcatAppend
  <2> QED
    BY <2>1, <2>2, <2>3, <2>4, <2>6
<1> HIDE DEF U
<1>4. \A k \in 0..n : k \in U
  BY <1>1, <1>2, <1>3, UpTo
<1>5. n \in U
  BY <1>1, <1>4
<1>6. Before(c, Len(s) + n + 1) = c /\ Before(t, n + 1) = t
  BY <1>1, BeforeAll
<1> QED
  BY <1>5, <1>6 DEF U, c

-----------------------------------------------------------------------------
(* What stays of a list of segments.                                       *)

LEMMA StayingAs ==
    ASSUME NEW f, IsList(f), NEW c, NEW S, \A i \in 1..Len(f) : f[i] \in S <=> Stays(c, f[i])
    PROVE  Staying(c, f) = Chosen(f, S)
<1> DEFINE R == {s \in Range(f) : Stays(c, s)}
<1>1. DOMAIN f = 1..Len(f)
  BY ListDomain
<1>2. \A i \in 1..Len(f) : f[i] \in Range(f)
  BY <1>1 DEF Range
<1>3. \A i \in 1..Len(f) : f[i] \in R <=> f[i] \in S
  BY <1>2
<1>4. Staying(c, f) = Chosen(f, R)
  BY DEF Staying
<1> HIDE DEF R
<1> QED
  BY <1>3, <1>4, ChosenSame

LEMMA StayingAll ==
    ASSUME NEW f, IsList(f), NEW c, \A i \in 1..Len(f) : Stays(c, f[i])
    PROVE  Staying(c, f) = f
<1> DEFINE S == {f[i] : i \in 1..Len(f)}
<1>1. \A i \in 1..Len(f) : f[i] \in S
  OBVIOUS
<1> HIDE DEF S
<1> QED
  BY <1>1, StayingAs, ChosenAll

LEMMA StayingNone ==
    ASSUME NEW f, IsList(f), NEW c, \A i \in 1..Len(f) : ~Stays(c, f[i])
    PROVE  Staying(c, f) = <<>>
<1>1. \A i \in 1..Len(f) : f[i] \notin {}
  OBVIOUS
<1>2. Staying(c, f) = Chosen(f, {})
  BY <1>1, StayingAs
<1> QED
  BY <1>1, <1>2, ChosenNone

LEMMA StayingList == ASSUME NEW f, IsList(f), NEW c PROVE IsList(Staying(c, f))
BY ChosenType DEF Staying

LEMMA StayingConcat ==
    ASSUME NEW s, IsList(s), NEW t, IsList(t), NEW c
    PROVE  Staying(c, s \o t) = Staying(c, s) \o Staying(c, t)
<1> DEFINE S == {x \in {s[i] : i \in 1..Len(s)} \union {t[i] : i \in 1..Len(t)} : Stays(c, x)}
           u == s \o t
<1>1. \A i \in 1..Len(s) : s[i] \in S <=> Stays(c, s[i])
  OBVIOUS
<1>2. \A i \in 1..Len(t) : t[i] \in S <=> Stays(c, t[i])
  OBVIOUS
<1> HIDE DEF S
<1>3. /\ IsList(u) /\ Len(u) = Len(s) + Len(t) /\ Len(s) \in Nat /\ Len(t) \in Nat
      /\ \A i \in 1..Len(s) : u[i] = s[i]
      /\ \A i \in 1..Len(t) : u[Len(s) + i] = t[i]
  BY ConcatList DEF IsList
<1> HIDE DEF u
<1>4. ASSUME NEW i \in 1..Len(u) PROVE u[i] \in S <=> Stays(c, u[i])
  <2>1. CASE i <= Len(s)
    BY <2>1, <1>1, <1>3
  <2>2. CASE ~(i <= Len(s))
    <3>1. i - Len(s) \in 1..Len(t) /\ Len(s) + (i - Len(s)) = i
      BY <2>2, <1>3
    <3> QED
      BY <3>1, <1>2, <1>3
  <2> QED
    BY <2>1, <2>2
<1>5. Staying(c, u) = Chosen(u, S)
  <2>1. IsList(u)
    BY <1>3
  <2> QED
    BY <2>1, <1>4, StayingAs
<1>6. Staying(c, s) = Chosen(s, S) /\ Staying(c, t) = Chosen(t, S)
  BY <1>1, <1>2, StayingAs
<1> QED
  BY <1>5, <1>6, ChosenConcat DEF u

(* A list is its beginning and the part that follows.                      *)
LEMMA BeforeJoin ==
    ASSUME NEW f, IsList(f), NEW n \in 1..Len(f) + 1, NEW m \in 1..n
    PROVE  /\ IsList(SubSeq(f, m, n - 1)) /\ Len(SubSeq(f, m, n - 1)) = n - m
           /\ \A i \in 1..n - m : SubSeq(f, m, n - 1)[i] = f[m + i - 1]
           /\ Before(f, m) \o SubSeq(f, m, n - 1) = Before(f, n)
<1> DEFINE a == Before(f, m)
           b == SubSeq(f, m, n - 1)
           c == Before(f, n)
<1>1. Len(f) \in Nat /\ n \in Nat /\ m \in Nat /\ m >= 1 /\ n >= m /\ m \in 1..Len(f) + 1
  BY DEF IsList
<1>2. IsList(a) /\ Len(a) = m - 1 /\ \A i \in 1..m - 1 : a[i] = f[i]
  BY <1>1, BeforeList
<1>3. IsList(c) /\ Len(c) = n - 1 /\ \A i \in 1..n - 1 : c[i] = f[i]
  BY <1>1, BeforeList
<1>4. IsList(b) /\ Len(b) = n - m /\ \A i \in 1..n - m : b[i] = f[m + i - 1]
  <2>1. /\ n - 1 \in Int /\ m \in Int /\ n - 1 <= Len(f) /\ (n - 1) - m + 1 = n - m
        /\ (IF m <= n - 1 THEN (n - 1) - m + 1 ELSE 0) = n - m
    BY <1>1
  <2>2. /\ IsList(b) /\ Len(b) = (IF m <= n - 1 THEN (n - 1) - m + 1 ELSE 0)
        /\ \A i \in 1..(n - 1) - m + 1 : b[i] = f[m + i - 1]
    BY <1>1, <2>1, SubList
  <2> QED
    BY <2>1, <2>2
<1> HIDE DEF a, b, c
<1>5. /\ IsList(a \o b) /\ Len(a \o b) = Len(a) + Len(b)
      /\ \A i \in 1..Len(a) : (a \o b)[i] = a[i]
      /\ \A i \in 1..Len(b) : (a \o b)[Len(a) + i] = b[i]
  <2>1. IsList(a) /\ IsList(b)
    BY <1>2, <1>4
  <2> QED
    BY <2>1, ConcatList
<1>6. ASSUME NEW i \in 1..n - 1 PROVE c[i] = (a \o b)[i]
  <2>1. CASE i <= m - 1
    BY <2>1, <1>1, <1>2, <1>3, <1>5
  <2>2. CASE ~(i <= m - 1)
    <3>1. i - (m - 1) \in 1..n - m /\ (m - 1) + (i - (m - 1)) = i /\ m + (i - (m - 1)) - 1 = i
      BY <2>2, <1>1
    <3>2. (a \o b)[(m - 1) + (i - (m - 1))] = b[i - (m - 1)]
      BY <3>1, <1>2, <1>4, <1>5
    <3>3. b[i - (m - 1)] = f[m + (i - (m - 1)) - 1]
      BY <3>1, <1>4
    <3> QED
      BY <3>1, <3>2, <3>3, <1>3
  <2> QED
    BY <2>1, <2>2
<1>7. Len(a \o b) = n - 1
  BY <1>1, <1>2, <1>4, <1>5
<1>8. c = a \o b
  BY <1>3, <1>5, <1>6, <1>7, ListEqual
<1> QED
  BY <1>4, <1>8 DEF a, b, c

-----------------------------------------------------------------------------
(* Where the scan, and a reader, stop.                                     *)

LEMMA MinIs == ASSUME NEW I, I \subseteq Nat, I # {} PROVE Min(I) \in I /\ \A j \in I : Min(I) <= j
<1>1. PICK x \in I : \A y \in I : ~(y < x)
  BY NatLeast
<1>2. \A y \in I : x <= y
  BY <1>1
<1> QED
  BY <1>2 DEF Min

LEMMA TailFromIs ==
    ASSUME NEW f, IsList(f)
    PROVE  /\ TailFrom(f) \in 1..Len(f) + 1
           /\ \A i \in 1..TailFrom(f) - 1 : f[i].kind \notin StopKinds
           /\ TailFrom(f) <= Len(f) => f[TailFrom(f)].kind \in StopKinds
<1> DEFINE I == {i \in 1..Len(f) : f[i].kind \in StopKinds}
           n == TailFrom(f)
<1>1. Len(f) \in Nat /\ I \subseteq Nat
  BY DEF IsList
<1>2. n = IF (IF I # {} THEN Min(I) ELSE 0) = 0 THEN Len(f) + 1 ELSE (IF I # {} THEN Min(I) ELSE 0)
  BY DEF TailFrom, SelectInSeq
<1>3. CASE I = {}
  <2>1. n = Len(f) + 1 /\ \A i \in 1..Len(f) : i \notin I
    BY <1>2, <1>3
  <2> HIDE DEF n
  <2> QED
    BY <2>1, <1>1 DEF n
<1>4. CASE I # {}
  <2>1. Min(I) \in I /\ \A j \in I : Min(I) <= j
    BY <1>1, <1>4, MinIs
  <2>2. n = Min(I)
    BY <1>1, <1>2, <1>4, <2>1
  <2>3. n \in 1..Len(f) /\ f[n].kind \in StopKinds /\ \A j \in I : n <= j
    BY <2>1, <2>2
  <2> HIDE DEF n
  <2>4. \A i \in 1..n - 1 : i \in 1..Len(f) /\ ~(n <= i)
    BY <2>3, <1>1
  <2>5. \A i \in 1..n - 1 : f[i].kind \notin StopKinds
    BY <2>3, <2>4
  <2> QED
    BY <2>3, <2>5, <1>1 DEF n
<1> QED
  BY <1>3, <1>4

(* It is the only such place.                                              *)
LEMMA TailFromUnique ==
    ASSUME NEW f, IsList(f), NEW n \in 1..Len(f) + 1, \A i \in 1..n - 1 : f[i].kind \notin StopKinds,
           n <= Len(f) => f[n].kind \in StopKinds
    PROVE  TailFrom(f) = n
<1> DEFINE m == TailFrom(f)
<1>1. /\ m \in 1..Len(f) + 1 /\ \A i \in 1..m - 1 : f[i].kind \notin StopKinds
      /\ m <= Len(f) => f[m].kind \in StopKinds
  BY TailFromIs
<1> HIDE DEF m
<1>2. Len(f) \in Nat
  BY DEF IsList
<1>3. ASSUME m < n PROVE FALSE
  BY <1>1, <1>2, <1>3
<1>4. ASSUME n < m PROVE FALSE
  BY <1>1, <1>2, <1>4
<1> QED
  BY <1>1, <1>2, <1>3, <1>4 DEF m

LEMMA ReadableIs ==
    ASSUME NEW f, IsList(f)
    PROVE  \E n \in 1..Len(f) + 1 : /\ Readable(f) = Before(f, n)
                                    /\ \A i \in 1..n - 1 : f[i].kind \notin EndKinds
                                    /\ n <= Len(f) => f[n].kind \in EndKinds
<1> DEFINE I == {i \in 1..Len(f) : f[i].kind \in EndKinds}
           m == IF I # {} THEN Min(I) ELSE 0
<1>1. Len(f) \in Nat /\ I \subseteq Nat
  BY DEF IsList
<1>2. Readable(f) = IF m = 0 THEN f ELSE SubSeq(f, 1, m - 1)
  BY DEF Readable, SelectInSeq, EndKinds
<1>3. CASE I = {}
  <2>1. Readable(f) = f /\ \A i \in 1..Len(f) : i \notin I
    BY <1>2, <1>3
  <2>2. Readable(f) = Before(f, Len(f) + 1)
    BY <2>1, BeforeAll
  <2> QED
    BY <2>1, <2>2, <1>1
<1>4. CASE I # {}
  <2>1. Min(I) \in I /\ \A j \in I : Min(I) <= j
    BY <1>1, <1>4, MinIs
  <2>2. m \in 1..Len(f) /\ f[m].kind \in EndKinds /\ \A j \in I : m <= j
    BY <1>1, <1>4, <2>1
  <2> HIDE DEF m
  <2>3. Readable(f) = Before(f, m)
    <3>1. ~(m = 0)
      BY <1>1, <2>2
    <3> QED
      BY <3>1, <1>2 DEF Before
  <2>4. \A i \in 1..m - 1 : i \in 1..Len(f) /\ ~(m <= i)
    BY <2>2, <1>1
  <2>5. \A i \in 1..m - 1 : f[i].kind \notin EndKinds
    BY <2>2, <2>4
  <2> QED
    BY <2>2, <2>3, <2>5, <1>1
<1> QED
  BY <1>3, <1>4

(* A reader sees all that the scan does.                                   *)
LEMMA ReadableAt ==
    ASSUME NEW f, IsList(f), NEW n \in 1..Len(f), \A i \in 1..n : f[i].kind \notin StopKinds
    PROVE  n \in DOMAIN Readable(f)
<1>1. PICK m \in 1..Len(f) + 1 : Readable(f) = Before(f, m) /\ (m <= Len(f) => f[m].kind \in EndKinds)
  BY ReadableIs
<1>2. Len(f) \in Nat
  BY DEF IsList
<1>3. m > n
  BY <1>1, <1>2 DEF StopKinds, EndKinds
<1>4. IsList(Before(f, m)) /\ Len(Before(f, m)) = m - 1
  BY BeforeList
<1> QED
  BY <1>1, <1>2, <1>3, <1>4, ListDomain

-----------------------------------------------------------------------------
(* The plan and the runs, one segment more.                                *)

LEMMA NoteMarks ==
    ASSUME NEW n \in Nat, n # 0, NEW S, S \subseteq 1..n - 1, NEW at, Marks(at, S)
    PROVE  Marks(IF at = 0 THEN n ELSE at, S \union {n})
<1>1. CASE S = {}
  BY <1>1 DEF Marks
<1>2. CASE S # {}
  <2>1. at \in S /\ \A i \in S : at <= i
    BY <1>2 DEF Marks
  <2>2. at \in Nat /\ at # 0 /\ at <= n
    BY <2>1
  <2> QED
    BY <2>1, <2>2 DEF Marks
<1> QED
  BY <1>1, <1>2

LEMMA PlanStep ==
    ASSUME NEW f, IsList(f), NEW D, NEW n \in 1..Len(f), f[n].kind \notin StopKinds,
           NEW p, PlanTo(p, f, D, n - 1), NEW q, IsPlan(q),
           \A k \in Meta : q.first[k] = IF k = MetaKind(f[n]) /\ p.first[k] = 0 THEN n ELSE p.first[k],
           \A k \in Meta : q.dropAt[k] = IF k = MetaKind(f[n]) /\ n \in D /\ p.dropAt[k] = 0
                                         THEN n ELSE p.dropAt[k],
           q.insertAt = p.insertAt \/ (q.insertAt = n + 1 /\ p.insertAt = n /\ IsLeading(f[n]))
    PROVE  PlanTo(q, f, D, n)
<1>1. Len(f) \in Nat /\ n \in Nat /\ n # 0 /\ n - 1 \in Nat
  BY DEF IsList
<1>2. ASSUME NEW k \in Meta PROVE Marks(q.first[k], Of(f, k, n)) /\ Marks(q.dropAt[k], Of(f, k, n) \intersect D)
  <2>1. /\ Marks(p.first[k], Of(f, k, n - 1)) /\ Marks(p.dropAt[k], Of(f, k, n - 1) \intersect D)
        /\ Of(f, k, n - 1) \subseteq 1..n - 1
    BY DEF PlanTo, Of
  <2>2. CASE MetaKind(f[n]) # k
    <3>1. Of(f, k, n) = Of(f, k, n - 1)
      BY <1>1, <2>2 DEF Of
    <3> QED
      BY <2>1, <2>2, <3>1
  <2>3. CASE MetaKind(f[n]) = k
    <3>1. Of(f, k, n) = Of(f, k, n - 1) \union {n}
      BY <1>1, <2>3 DEF Of
    <3>2. Marks(q.first[k], Of(f, k, n))
      <4>1. Marks(IF p.first[k] = 0 THEN n ELSE p.first[k], Of(f, k, n - 1) \union {n})
        BY <1>1, <2>1, NoteMarks
      <4>2. q.first[k] = IF p.first[k] = 0 THEN n ELSE p.first[k]
        BY <2>3
      <4> QED
        BY <3>1, <4>1, <4>2
    <3>3. CASE n \in D
      <4>1. Of(f, k, n) \intersect D = (Of(f, k, n - 1) \intersect D) \union {n}
        BY <3>1, <3>3
      <4>2. Of(f, k, n - 1) \intersect D \subseteq 1..n - 1
        BY <2>1
      <4>3. Marks(IF p.dropAt[k] = 0 THEN n ELSE p.dropAt[k], (Of(f, k, n - 1) \intersect D) \union {n})
        BY <1>1, <2>1, <4>2, NoteMarks
      <4>4. q.dropAt[k] = IF p.dropAt[k] = 0 THEN n ELSE p.dropAt[k]
        BY <2>3, <3>3
      <4> QED
        BY <3>2, <4>1, <4>3, <4>4
    <3>4. CASE n \notin D
      <4>1. Of(f, k, n) \intersect D = Of(f, k, n - 1) \intersect D
        BY <3>1, <3>4
      <4> QED
        BY <2>1, <3>2, <3>4, <4>1
    <3> QED
      BY <3>3, <3>4
  <2> QED
    BY <2>2, <2>3
<1>3. \A i \in 1..n : f[i].kind \notin StopKinds
  <2>1. \A i \in 1..n - 1 : f[i].kind \notin StopKinds
    BY DEF PlanTo
  <2> QED
    BY <1>1, <2>1
<1>4. q.insertAt \in 1..n + 1 /\ \A i \in 1..q.insertAt - 1 : IsLeading(f[i])
  <2>1. p.insertAt \in 1..n /\ \A i \in 1..p.insertAt - 1 : IsLeading(f[i])
    BY <1>1 DEF PlanTo
  <2>2. CASE q.insertAt = p.insertAt
    BY <1>1, <2>1, <2>2
  <2>3. CASE q.insertAt = n + 1 /\ p.insertAt = n /\ IsLeading(f[n])
    <3>1. \A i \in 1..n : i \in 1..n - 1 \/ i = n
      BY <1>1
    <3> QED
      BY <1>1, <2>1, <2>3, <3>1
  <2> QED
    BY <2>2, <2>3
<1> QED
  BY <1>2, <1>3, <1>4 DEF PlanTo

LEMMA RunIs ==
    ASSUME NEW lo \in Int, NEW hi \in Int, NEW d, IsRun(d, lo, hi)
    PROVE  /\ d.from \in Int /\ d.to \in Int /\ lo <= d.from /\ d.from < d.to /\ d.to <= hi
           /\ \A m, n \in Int : m <= d.from /\ d.to <= n => IsRun(d, m, n)
<1> DEFINE a == d.from
           b == d.to
<1>1. d = [from |-> a, to |-> b] /\ a \in lo..hi /\ b \in a + 1..hi
  BY DEF IsRun
<1>2. \A m, n : IsRun(d, m, n) <=> d = [from |-> a, to |-> b] /\ a \in m..n /\ b \in a + 1..n
  BY DEF IsRun
<1> HIDE DEF a, b
<1>3. /\ a \in Int /\ b \in Int /\ lo <= a /\ a < b /\ b <= hi
      /\ \A m, n \in Int : m <= a /\ b <= n => a \in m..n /\ b \in a + 1..n
  BY <1>1
<1> QED
  BY <1>1, <1>2, <1>3 DEF a, b

(* A segment that is kept leaves the runs as they are.                     *)
LEMMA RunsKeep ==
    ASSUME NEW ds, NEW D, NEW n \in Nat, n # 0, RunsOK(ds, D, 1, n), n \notin D
    PROVE  RunsOK(ds, D, 1, n + 1)
<1>1. /\ IsList(ds) /\ \A d \in 1..Len(ds) : IsRun(ds[d], 1, n)
      /\ \A d, e \in 1..Len(ds) : d < e => ds[d].to < ds[e].from
      /\ \A i \in 1..n - 1 : i \in D <=> In(ds, i)
  BY DEF RunsOK
<1>2. \A d \in 1..Len(ds) : IsRun(ds[d], 1, n + 1) /\ ds[d].to <= n /\ ds[d].to \in Int
  <2>1. ASSUME NEW d \in 1..Len(ds) PROVE IsRun(ds[d], 1, n + 1) /\ ds[d].to <= n /\ ds[d].to \in Int
    <3>1. /\ IsRun(ds[d], 1, n) /\ 1 \in Int /\ n \in Int /\ n + 1 \in Int /\ \A t \in Int : t <= n => t <= n + 1
      BY <1>1
    <3>2. /\ ds[d].from \in Int /\ ds[d].to \in Int /\ 1 <= ds[d].from /\ ds[d].to <= n
          /\ \A k, l \in Int : k <= ds[d].from /\ ds[d].to <= l => IsRun(ds[d], k, l)
      BY <3>1, RunIs
    <3> QED
      BY <3>1, <3>2
  <2> QED
    BY <2>1
<1>3. ~In(ds, n)
  BY <1>2 DEF In
<1>4. \A i \in 1..n + 1 - 1 : i \in D <=> In(ds, i)
  <2>1. \A i \in 1..n + 1 - 1 : i \in 1..n - 1 \/ i = n
    OBVIOUS
  <2> QED
    BY <1>1, <1>3, <2>1
<1> QED
  BY <1>1, <1>2, <1>4 DEF RunsOK

(* One that is dropped lengthens the last run or begins a new one.         *)
LEMMA AddDropIs ==
    ASSUME NEW ds, NEW D, NEW n \in Nat, n # 0, RunsOK(ds, D, 1, n), n \in D
    PROVE  RunsOK(AddDrop(ds, n), D, 1, n + 1)
<1> DEFINE m == Len(ds)
           e == AddDrop(ds, n)
<1>1. /\ IsList(ds) /\ \A d \in 1..m : IsRun(ds[d], 1, n)
      /\ \A c, d \in 1..m : c < d => ds[c].to < ds[d].from
      /\ \A i \in 1..n - 1 : i \in D <=> In(ds, i)
  BY DEF RunsOK
<1>2. m \in Nat
  BY <1>1 DEF IsList
<1> HIDE DEF m
<1>3. \A i \in 1..n + 1 - 1 : i \in 1..n - 1 \/ i = n
  OBVIOUS
<1>r. \A d \in 1..m : /\ ds[d].from \in Int /\ ds[d].to \in Int /\ 1 <= ds[d].from /\ ds[d].from < ds[d].to
                       /\ ds[d].to <= n /\ IsRun(ds[d], 1, n + 1)
  BY <1>1, RunIs
<1>4. CASE ds # <<>> /\ Last(ds).to = n
  <2>1. m >= 1 /\ e = [ds EXCEPT ![m].to = n + 1] /\ ds[m].to = n
    <3>1. m # 0
      BY <1>1, <1>2, <1>4, EmptyList DEF m
    <3> QED
      BY <3>1, <1>2, <1>4 DEF AddDrop, Last, m
  <2> HIDE DEF e
  <2>2. DOMAIN ds = 1..m
    BY <1>1, ListDomain DEF m
  <2>3. /\ e[m] = [ds[m] EXCEPT !.to = n + 1] /\ \A d \in 1..m - 1 : e[d] = ds[d]
        /\ e = [d \in 1..m |-> e[d]]
    <3> DEFINE x == [ds[m] EXCEPT !.to = n + 1]
    <3>1. e = [ds EXCEPT ![m] = x]
      BY <2>1
    <3> HIDE DEF x
    <3>2. m \in 1..m /\ \A d \in 1..m - 1 : d \in 1..m /\ d # m
      BY <1>2, <2>1
    <3>3. e[m] = x /\ (\A d \in 1..m : d # m => e[d] = ds[d]) /\ e = [d \in 1..m |-> e[d]]
      BY <2>2, <3>1, <3>2
    <3> QED
      BY <3>2, <3>3 DEF x
  <2>4. e[m].from = ds[m].from /\ e[m].to = n + 1 /\ IsRun(e[m], 1, n + 1)
    <3>1. ds[m] = [from |-> ds[m].from, to |-> ds[m].to] /\ ds[m].from \in 1..n /\ ds[m].to \in ds[m].from + 1..n
      BY <1>1, <1>2, <2>1 DEF IsRun
    <3>2. e[m] = [from |-> ds[m].from, to |-> n + 1]
      BY <2>3, <3>1
    <3> QED
      BY <3>1, <3>2 DEF IsRun
  <2>5. IsList(e) /\ Len(e) = m
    <3>1. Len(e) = m
      BY <1>2, <2>3
    <3> QED
      BY <1>2, <2>3, <3>1 DEF IsList
  <2> HIDE DEF e
  <2>6. \A d \in 1..m : IsRun(e[d], 1, n + 1) /\ e[d].from = ds[d].from /\ ds[d].to <= e[d].to
    <3>1. \A d \in 1..m - 1 : IsRun(e[d], 1, n + 1) /\ e[d].from = ds[d].from /\ ds[d].to <= e[d].to
      <4>1. \A d \in 1..m - 1 : d \in 1..m
        BY <1>2
      <4>2. \A d \in 1..m - 1 : e[d] = ds[d]
        BY <2>3
      <4>3. \A d \in 1..m - 1 : ds[d].to <= ds[d].to
        BY <4>1, <1>r
      <4> QED
        BY <4>1, <4>2, <4>3, <1>r
    <3>2. ds[m].to <= n + 1
      BY <2>1
    <3> QED
      BY <1>2, <2>1, <2>4, <3>1, <3>2
  <2>7. ASSUME NEW c \in 1..m, NEW d \in 1..m, c < d PROVE e[c].to < e[d].from
    <3>1. e[c] = ds[c]
      <4>1. c \in 1..m - 1
        BY <1>2, <2>7
      <4> QED
        BY <4>1, <2>3
    <3> QED
      BY <1>1, <2>6, <2>7, <3>1
  <2>8. ASSUME NEW i \in 1..n - 1 PROVE In(e, i) <=> In(ds, i)
    <3>1. ASSUME NEW d \in 1..m PROVE e[d].from <= i /\ i < e[d].to <=> ds[d].from <= i /\ i < ds[d].to
      <4>1. CASE d = m
        BY <4>1, <2>1, <2>4
      <4>2. CASE d # m
        <5>1. d \in 1..m - 1
          BY <4>2, <1>2
        <5> QED
          BY <5>1, <2>3
      <4> QED
        BY <4>1, <4>2
    <3> QED
      BY <2>5, <3>1 DEF In, m
  <2>9. In(e, n)
    <3>1. e[m].from <= n /\ n < e[m].to
      BY <2>4 DEF IsRun
    <3> QED
      BY <1>2, <2>1, <2>5, <3>1 DEF In
  <2>10. \A i \in 1..n + 1 - 1 : i \in D <=> In(e, i)
    BY <1>1, <1>3, <2>8, <2>9
  <2>11. RunsOK(e, D, 1, n + 1)
    BY <2>5, <2>6, <2>7, <2>10 DEF RunsOK
  <2> QED
    BY <2>11 DEF e
<1>5. CASE ~(ds # <<>> /\ Last(ds).to = n)
  <2> DEFINE x == [from |-> n, to |-> n + 1]
  <2>1. e = Append(ds, x)
    BY <1>5 DEF AddDrop
  <2>2. IsRun(x, 1, n + 1) /\ x.from = n /\ x.to = n + 1
    BY DEF IsRun
  <2> HIDE DEF x
  <2>3. /\ IsList(e) /\ Len(e) = m + 1 /\ e[m + 1] = x /\ \A d \in 1..m : e[d] = ds[d]
    BY <1>1, <2>1, AppendList DEF m
  <2> HIDE DEF e
  <2>4. ASSUME NEW d \in 1..m PROVE ds[d].to < n
    <3>1. m # 0 /\ ds # <<>> /\ m \in 1..m
      BY <1>2, EmptyList DEF m
    <3>2. ds[m].to # n /\ ds[m].to <= n /\ ds[m].to \in Int /\ ds[m].from \in Int /\ ds[m].from < ds[m].to
      BY <1>r, <1>5, <3>1 DEF Last, m
    <3>3. ds[m].to < n
      BY <3>2
    <3>4. CASE d = m
      BY <3>3, <3>4
    <3>5. CASE d # m
      <4>1. ds[d].to < ds[m].from
        BY <1>1, <1>2, <3>1, <3>5
      <4> QED
        BY <1>r, <3>1, <3>2, <4>1
    <3> QED
      BY <3>4, <3>5
  <2>5. \A d \in 1..m + 1 : d \in 1..m \/ d = m + 1
    BY <1>2
  <2>6. \A d \in 1..m + 1 : IsRun(e[d], 1, n + 1)
    <3>1. \A d \in 1..m : IsRun(e[d], 1, n + 1)
      BY <1>r, <2>3
    <3> QED
      BY <2>2, <2>3, <2>5, <3>1
  <2>7. ASSUME NEW c \in 1..m + 1, NEW d \in 1..m + 1, c < d PROVE e[c].to < e[d].from
    <3>1. c \in 1..m
      BY <1>2, <2>7
    <3>2. CASE d = m + 1
      BY <2>2, <2>3, <2>4, <3>1, <3>2
    <3>3. CASE d \in 1..m
      BY <1>1, <2>3, <2>7, <3>1, <3>3
    <3> QED
      BY <2>5, <3>2, <3>3
  <2>8. ASSUME NEW i \in 1..n - 1 PROVE In(e, i) <=> In(ds, i)
    <3>1. ~(e[m + 1].from <= i)
      BY <2>2, <2>3
    <3>2. \A d \in 1..m : d \in 1..m + 1
      BY <1>2
    <3> QED
      BY <2>3, <2>5, <3>1, <3>2 DEF In, m
  <2>9. In(e, n)
    <3>1. e[m + 1].from <= n /\ n < e[m + 1].to /\ m + 1 \in 1..m + 1
      BY <1>2, <2>2, <2>3
    <3> QED
      BY <2>3, <3>1 DEF In
  <2>10. \A i \in 1..n + 1 - 1 : i \in D <=> In(e, i)
    BY <1>1, <1>3, <2>8, <2>9
  <2>11. RunsOK(e, D, 1, n + 1)
    BY <2>3, <2>6, <2>7, <2>10 DEF RunsOK
  <2> QED
    BY <2>11 DEF e
<1> QED
  BY <1>4, <1>5
-----------------------------------------------------------------------------
(* The call.                                                               *)

LEMMA IsNoMeta == None \notin Meta
BY CallAssumption

(* The scan drops what does not stay.                                      *)
LEMMA DropsStays ==
    ASSUME IsList(file), CallInv, call # None, NEW i \in 1..Len(file),
           \A j \in 1..i : file[j].kind \notin StopKinds
    PROVE  i \in Dropped <=> ~Stays(call, file[i])
<1> DEFINE s == file[i]
           x == call.XMP
           old == AsksToKeep(x) /\ IsChunkOf(s, x.guid)
           new == pl.guid # None /\ IsChunkOf(s, pl.guid)
<1>1. new <=> old
  <2>1. i \in DOMAIN Readable(file)
    BY ReadableAt
  <2>2. pl.guid = IF KeepsGUID(file, x) THEN x.guid ELSE None
    BY DEF CallInv
  <2>3. KeepsGUID(file, x) => AsksToKeep(x)
    BY DEF KeepsGUID
  <2>4. old => KeepsGUID(file, x)
    BY <2>1 DEF KeepsGUID
  <2>5. AsksToKeep(x) => x.guid # None
    BY DEF CallInv, IsXMP, AsksToKeep
  <2> QED
    BY <2>2, <2>3, <2>4, <2>5
<1>2. Stays(call, s) <=> MetaKind(s) \in call.keep \/ (MetaKind(s) = None /\ (call.preserve \/ ~IsApp(s))) \/ old
  BY DEF Stays
<1>3. Drops(s) <=> MetaKind(s) \notin call.keep /\ ~new /\ (MetaKind(s) # None \/ (~call.preserve /\ IsApp(s)))
  BY DEF Drops, Keeps
<1>4. i \in Dropped <=> Drops(s)
  BY DEF Dropped
<1> HIDE DEF old, new, s
<1>5. i \in Dropped <=> ~Stays(call, s)
  BY <1>1, <1>2, <1>3, <1>4, Zenon
<1> QED
  BY <1>5 DEF s

LEMMA EffectiveCall ==
    ASSUME NEW asked \in Calls, NEW c, c = Effective(asked)
    PROVE  /\ c.keep \subseteq Meta /\ (c.XMP # None => IsXMP(c.XMP))
           /\ "EXIF" \in c.keep => c.EXIF = None
           /\ "XMP" \in c.keep => c.XMP = None
           /\ "PS" \in c.keep => c.IPTC = None
<1>1. asked.keep \subseteq Meta /\ (asked.XMP # None => IsXMP(asked.XMP))
  BY CallAssumption
<1>2. /\ c.keep = Keeping(asked) /\ c.XMP = (IF "XMP" \in c.keep THEN None ELSE asked.XMP)
      /\ c.EXIF = (IF "EXIF" \in c.keep THEN None ELSE asked.EXIF)
      /\ c.IPTC = (IF "PS" \in c.keep THEN None ELSE asked.IPTC)
  BY DEF Effective
<1>3. Keeping(asked) \subseteq asked.keep
  BY DEF Keeping
<1> QED
  BY <1>1, <1>2, <1>3

-----------------------------------------------------------------------------
(* What no step but the first of a call changes.                           *)

LEMMA SameDropped == ASSUME UNCHANGED <<file, call, pl>> PROVE Dropped' = Dropped
BY DEF Dropped, Drops, Keeps

LEMMA CallStays ==
    ASSUME CallInv, call # None, UNCHANGED <<file, call, pl>>, scan' # None => put' = None
    PROVE  CallInv'
<1>1. KeepsGUID(file, call.XMP)' <=> KeepsGUID(file, call.XMP)
  OBVIOUS
<1>2. Linked(file, call.XMP)' = Linked(file, call.XMP) /\ OrigIRB(file, call)' = OrigIRB(file, call)
  OBVIOUS
<1> QED
  BY <1>1, <1>2 DEF CallInv

LEMMA GivesUp ==
    ASSUME Inv, GiveUp
    PROVE  Inv'
<1>1. Shape(plan)'
  BY DEF Inv, GiveUp
<1> QED
  BY <1>1 DEF Inv, CallInv, ScanInv, WriteInv, CopyInv, GiveUp

LEMMA EmitOffsetIn ==
    ASSUME NEW n \in Nat, PlanTo(plan, file, Dropped, n), NEW k \in Meta
    PROVE  EmitOffset(k) \in 1..n + 1
<1>1. ASSUME NEW j \in Meta PROVE plan.first[j] \in 0..n /\ plan.dropAt[j] \in 0..n
  BY DEF PlanTo, Marks, Of
<1>2. plan.insertAt \in 1..n + 1
  BY DEF PlanTo
<1>3. "XMP" \in Meta /\ "EXIF" \in Meta
  BY DEF Meta
<1>4. After(k) \in 1..n + 1
  BY <1>1, <1>2, <1>3 DEF After
<1> QED
  BY <1>1, <1>4 DEF EmitOffset

(* The plan of a file as far as it was looked through has the shape that a *)
(* call leaves behind.                                                     *)
LEMMA ShapeIs ==
    ASSUME NEW p, NEW f, NEW D, NEW n \in Nat, PlanTo(p, f, D, n), NEW lo \in Int, NEW hi \in Int,
           RunsOK(p.drops, D, lo, hi)
    PROVE  Shape(p)
<1>1. ASSUME NEW k \in Meta, p.dropAt[k] # 0 PROVE p.first[k] \in 1..p.dropAt[k]
  <2>1. Marks(p.first[k], Of(f, k, n)) /\ Marks(p.dropAt[k], Of(f, k, n) \intersect D)
    BY DEF PlanTo
  <2>2. p.dropAt[k] \in Of(f, k, n)
    BY <1>1, <2>1 DEF Marks
  <2>3. p.first[k] \in Of(f, k, n) /\ p.first[k] <= p.dropAt[k]
    BY <2>1, <2>2 DEF Marks
  <2> QED
    BY <2>2, <2>3 DEF Of
<1>2. IsList(p.drops)
  BY DEF RunsOK
<1>3. \A d \in 1..Len(p.drops) : p.drops[d].from < p.drops[d].to
  BY RunIs DEF RunsOK
<1>4. \A d \in 1..Len(p.drops) - 1 : p.drops[d].to < p.drops[d + 1].from
  <2>1. \A d \in 1..Len(p.drops) - 1 : d \in 1..Len(p.drops) /\ d + 1 \in 1..Len(p.drops) /\ d < d + 1
    BY <1>2 DEF IsList
  <2> QED
    BY <2>1 DEF RunsOK
<1> QED
  BY <1>1, <1>2, <1>3, <1>4 DEF Shape
-----------------------------------------------------------------------------
(* The call begins and the scan goes on.                                   *)

LEMMA PlanSame ==
    ASSUME NEW f, NEW D, NEW n, NEW p, PlanTo(p, f, D, n), NEW q, IsPlan(q),
           q.first = p.first, q.dropAt = p.dropAt, q.insertAt = p.insertAt
    PROVE  PlanTo(q, f, D, n)
BY DEF PlanTo

LEMMA SameEmit ==
    ASSUME plan'.first = plan.first, plan'.dropAt = plan.dropAt, plan'.insertAt = plan.insertAt, NEW k
    PROVE  EmitOffset(k)' = EmitOffset(k)
BY DEF EmitOffset, After

LEMMA InvStays ==
    ASSUME Inv, UNCHANGED <<file, call, pl, plan, scan, put, cursor, out>>
    PROVE  Inv'
<1>1. Dropped' = Dropped
  BY SameDropped
<1>2. \A k : EmitOffset(k)' = EmitOffset(k)
  BY SameEmit
<1>3. CallInv'
  BY CallStays DEF Inv, CallInv
<1>4. ScanInv'
  BY <1>1 DEF Inv, ScanInv
<1>5. WriteInv'
  BY <1>1, <1>2 DEF Inv, WriteInv, Has
<1> QED
  BY <1>3, <1>4, <1>5 DEF Inv, CopyInv

LEMMA EmptyPlanIs ==
    ASSUME NEW f, NEW D
    PROVE  PlanTo(EmptyPlan, f, D, 0) /\ RunsOK(EmptyPlan.drops, D, 1, 1) /\ EmptyPlan.insertAt = 1
<1>1. /\ EmptyPlan.drops = <<>> /\ EmptyPlan.insertAt = 1 /\ IsPlan(EmptyPlan)
      /\ \A k \in Meta : EmptyPlan.first[k] = 0 /\ EmptyPlan.dropAt[k] = 0
  BY DEF EmptyPlan, IsPlan
<1>2. \A k : Of(f, k, 0) = {}
  BY DEF Of
<1>3. PlanTo(EmptyPlan, f, D, 0)
  BY <1>1, <1>2 DEF PlanTo, Marks
<1>4. RunsOK(<<>>, D, 1, 1)
  BY EmptyList DEF RunsOK
<1> QED
  BY <1>1, <1>3, <1>4

LEMMA InitInv == Init => Inv
<1> SUFFICES ASSUME Init PROVE Inv
  OBVIOUS
<1>1. IsList(file)
  BY CallAssumption, SeqIsList DEF Init
<1>2. Shape(plan)
  <2>1. plan.drops = <<>> /\ \A k \in Meta : plan.dropAt[k] = 0
    BY DEF Init, EmptyPlan
  <2> QED
    BY <2>1, EmptyList DEF Shape
<1> QED
  BY <1>1, <1>2 DEF Inv, Init, CallInv, ScanInv, WriteInv, CopyInv

LEMMA BeginInv == ASSUME Inv, NEW asked \in Calls, Begin(asked) PROVE Inv'
<1> DEFINE c == Effective(asked)
           kept == KeepsGUID(file, c.XMP)
<1>1. CASE kept /\ c.XMP.form = "keptLarge"
  BY <1>1, InvStays DEF Begin
<1>2. CASE ~(kept /\ c.XMP.form = "keptLarge")
  <2>1. /\ call' = c /\ plan' = EmptyPlan /\ scan' = [pos |-> 1, inRun |-> TRUE]
        /\ pl' = [EXIF |-> c.EXIF, XMP |-> Linked(file, c.XMP), IPTC |-> c.IPTC,
                  irb |-> OrigIRB(file, c),
                  guid |-> IF kept THEN c.XMP.guid ELSE None]
        /\ UNCHANGED <<file, put, cursor, out>>
    BY <1>2 DEF Begin
  <2>2. /\ c.keep \subseteq Meta /\ (c.XMP # None => IsXMP(c.XMP))
        /\ "EXIF" \in c.keep => c.EXIF = None
        /\ "XMP" \in c.keep => c.XMP = None
        /\ "PS" \in c.keep => c.IPTC = None
    BY EffectiveCall
  <2>4. c # None
    BY CallAssumption
  <2> HIDE DEF c
  <2>3. put' = None
    BY <2>1 DEF Inv, CallInv, Begin
  <2>5. CallInv'
    BY <1>2, <2>1, <2>2, <2>3, <2>4 DEF CallInv
  <2>6. PlanTo(plan, file, Dropped, 0)' /\ RunsOK(plan.drops, Dropped, 1, 1)' /\ plan'.insertAt = 1
    BY <2>1, EmptyPlanIs
  <2>7. Shape(plan)'
    <3>1. plan'.drops = <<>> /\ \A k \in Meta : plan'.dropAt[k] = 0
      BY <2>1 DEF EmptyPlan
    <3> QED
      BY <3>1, EmptyList DEF Shape
  <2>8. ScanInv'
    <3>1. Len(file') \in Nat
      BY <2>1 DEF Inv, IsList
    <3>2. scan'.pos = 1 /\ scan'.inRun = TRUE
      BY <2>1
    <3> QED
      BY <2>1, <2>6, <3>1, <3>2 DEF ScanInv
  <2>9. IsList(file)'
    BY <2>1 DEF Inv
  <2> QED
    BY <2>3, <2>5, <2>7, <2>8, <2>9 DEF Inv, WriteInv, CopyInv
<1> QED
  BY <1>1, <1>2
(* The scan is at a segment that it passes.                                *)
LEMMA ScanAt ==
    ASSUME Inv, scan # None, ~AtStop
    PROVE  /\ call # None /\ put = None /\ Len(file) \in Nat
           /\ scan.pos \in 1..Len(file) /\ scan.pos \in Nat
           /\ \A i \in 1..scan.pos : file[i].kind \notin StopKinds
           /\ PlanTo(plan, file, Dropped, scan.pos - 1) /\ RunsOK(plan.drops, Dropped, 1, scan.pos)
           /\ IF scan.inRun THEN plan.insertAt = scan.pos
              ELSE plan.insertAt < scan.pos /\ ~IsLeading(file[plan.insertAt])
<1> DEFINE n == scan.pos
<1>1. call # None /\ put = None /\ Len(file) \in Nat
  BY DEF Inv, CallInv, IsList
<1>2. /\ n \in 1..Len(file) + 1 /\ PlanTo(plan, file, Dropped, n - 1) /\ RunsOK(plan.drops, Dropped, 1, n)
      /\ IF scan.inRun THEN plan.insertAt = n ELSE plan.insertAt < n /\ ~IsLeading(file[plan.insertAt])
  BY DEF Inv, ScanInv
<1>3. n <= Len(file) /\ file[n].kind \notin StopKinds
  BY DEF AtStop
<1> HIDE DEF n
<1>4. \A i \in 1..n - 1 : file[i].kind \notin StopKinds
  BY <1>2 DEF PlanTo
<1>5. \A i \in 1..n : i \in 1..n - 1 \/ i = n
  BY <1>1, <1>2
<1>6. \A i \in 1..n : file[i].kind \notin StopKinds
  BY <1>3, <1>4, <1>5
<1>7. n \in 1..Len(file) /\ n \in Nat
  BY <1>1, <1>2, <1>3
<1> QED
  BY <1>1, <1>2, <1>6, <1>7 DEF n

LEMMA ScanAloneInv == ASSUME Inv, ScanAlone PROVE Inv'
<1>p. PICK n : n = scan.pos
  OBVIOUS
<1> DEFINE s == file[n]
<1>1. scan # None /\ ~AtStop /\ s.kind = "Alone"
  BY <1>p DEF ScanAlone
<1>2. UNCHANGED <<file, call, pl, plan, put, out, cursor>> /\ scan' = [pos |-> n + 1, inRun |-> FALSE]
  BY <1>p DEF ScanAlone
<1>3. /\ call # None /\ put = None /\ Len(file) \in Nat
      /\ n \in 1..Len(file) /\ n \in Nat
      /\ \A i \in 1..n : file[i].kind \notin StopKinds
      /\ PlanTo(plan, file, Dropped, n - 1) /\ RunsOK(plan.drops, Dropped, 1, n)
      /\ IF scan.inRun THEN plan.insertAt = n ELSE plan.insertAt < n /\ ~IsLeading(file[plan.insertAt])
  BY <1>1, <1>p, ScanAt
<1>4. MetaKind(s) = None /\ ~IsLeading(s) /\ ~IsApp(s)
  BY <1>1 DEF MetaKind, IsLeading, IsApp
<1>5. n \notin Dropped
  BY <1>4 DEF Dropped, Drops
<1>6. PlanTo(plan, file, Dropped, n)
  <2>1. IsPlan(plan) /\ s.kind \notin StopKinds
    BY <1>3 DEF PlanTo
  <2> QED
    BY <1>3, <1>4, <2>1, IsNoMeta, PlanStep DEF Inv
<1>7. RunsOK(plan.drops, Dropped, 1, n + 1)
  BY <1>3, <1>5, RunsKeep
<1>8. Dropped' = Dropped
  BY <1>2, SameDropped
<1>9. plan.insertAt < n + 1 /\ ~IsLeading(file[plan.insertAt])
  <2>1. plan.insertAt \in Int
    BY <1>3 DEF PlanTo
  <2> QED
    BY <1>3, <1>4, <2>1
<1>10. ScanInv'
  <2>1. scan'.pos = n + 1 /\ scan'.inRun = FALSE /\ scan'.pos - 1 = n /\ n + 1 \in 1..Len(file) + 1
    BY <1>2, <1>3
  <2>2. PlanTo(plan', file', Dropped', scan'.pos - 1) /\ RunsOK(plan'.drops, Dropped', 1, scan'.pos)
    <3>1. PlanTo(plan', file', Dropped', n) /\ RunsOK(plan'.drops, Dropped', 1, n + 1)
      BY <1>2, <1>6, <1>7, <1>8
    <3> QED
      BY <3>1, <2>1, Zenon
  <2> QED
    BY <1>2, <1>9, <2>1, <2>2 DEF ScanInv
<1>11. CallInv'
  BY <1>2, <1>3, CallStays DEF Inv
<1> QED
  BY <1>2, <1>3, <1>10, <1>11 DEF Inv, WriteInv, CopyInv

LEMMA ScanSegmentInv == ASSUME Inv, ScanSegment PROVE Inv'
<1>p. PICK n : n = scan.pos
  OBVIOUS
<1> DEFINE s == file[n]
<1>q. PICK q : q = Scanned(s)
  OBVIOUS
<1>1. scan # None /\ ~AtStop
  BY DEF ScanSegment
<1>2. /\ UNCHANGED <<file, call, pl, put, out, cursor>> /\ plan' = q
      /\ scan' = [pos |-> n + 1, inRun |-> scan.inRun /\ IsLeading(s)]
  BY <1>p, <1>q DEF ScanSegment
<1>3. /\ call # None /\ put = None /\ Len(file) \in Nat
      /\ n \in 1..Len(file) /\ n \in Nat
      /\ \A i \in 1..n : file[i].kind \notin StopKinds
      /\ PlanTo(plan, file, Dropped, n - 1) /\ RunsOK(plan.drops, Dropped, 1, n)
      /\ IF scan.inRun THEN plan.insertAt = n ELSE plan.insertAt < n /\ ~IsLeading(file[plan.insertAt])
  BY <1>1, <1>p, ScanAt
<1>4. IsPlan(plan)
  BY <1>3 DEF PlanTo
<1>5. Drops(s) <=> n \in Dropped
  BY <1>3 DEF Dropped
<1>6. /\ IsPlan(q)
      /\ q.first = Note(plan.first, MetaKind(s), n)
      /\ q.dropAt = IF n \in Dropped THEN Note(plan.dropAt, MetaKind(s), n) ELSE plan.dropAt
      /\ q.drops = IF n \in Dropped THEN AddDrop(plan.drops, n) ELSE plan.drops
      /\ q.insertAt = IF scan.inRun /\ IsLeading(s) THEN n + 1 ELSE plan.insertAt
  <2>1. q = [tail |-> plan.tail, insertAt |-> IF scan.inRun /\ IsLeading(s) THEN n + 1 ELSE plan.insertAt,
             first |-> Note(plan.first, MetaKind(s), n),
             dropAt |-> IF n \in Dropped THEN Note(plan.dropAt, MetaKind(s), n) ELSE plan.dropAt,
             drops |-> IF n \in Dropped THEN AddDrop(plan.drops, n) ELSE plan.drops]
    <3> DEFINE a == Note(plan.first, MetaKind(s), n)
               b == IF n \in Dropped THEN Note(plan.dropAt, MetaKind(s), n) ELSE plan.dropAt
               c == IF n \in Dropped THEN AddDrop(plan.drops, n) ELSE plan.drops
               d == IF scan.inRun /\ IsLeading(s) THEN n + 1 ELSE plan.insertAt
    <3>1. q = [plan EXCEPT !.first = a, !.dropAt = b, !.drops = c, !.insertAt = d]
      BY <1>p, <1>q, <1>5, Zenon DEF Scanned
    <3>2. plan = [tail |-> plan.tail, insertAt |-> plan.insertAt, first |-> plan.first,
                  dropAt |-> plan.dropAt, drops |-> plan.drops]
      BY <1>4 DEF IsPlan
    <3> HIDE DEF a, b, c, d
    <3>3. q = [tail |-> plan.tail, insertAt |-> d, first |-> a, dropAt |-> b, drops |-> c]
      BY <3>1, <3>2
    <3> QED
      BY <3>3 DEF a, b, c, d
  <2>2. ASSUME NEW g, g = [k \in Meta |-> g[k]]
        PROVE  Note(g, MetaKind(s), n) = [k \in Meta |-> Note(g, MetaKind(s), n)[k]]
    BY <2>2 DEF Note
  <2>3. plan.first = [k \in Meta |-> plan.first[k]] /\ plan.dropAt = [k \in Meta |-> plan.dropAt[k]]
    BY <1>4 DEF IsPlan
  <2>4. /\ Note(plan.first, MetaKind(s), n) = [k \in Meta |-> Note(plan.first, MetaKind(s), n)[k]]
        /\ Note(plan.dropAt, MetaKind(s), n) = [k \in Meta |-> Note(plan.dropAt, MetaKind(s), n)[k]]
    BY <2>2, <2>3
  <2> QED
    BY <2>1, <2>3, <2>4 DEF IsPlan
<1>7. ASSUME NEW g, g = [k \in Meta |-> g[k]], NEW k \in Meta
      PROVE  Note(g, MetaKind(s), n)[k] = IF k = MetaKind(s) /\ g[k] = 0 THEN n ELSE g[k]
  BY <1>7, IsNoMeta DEF Note
<1>8. PlanTo(q, file, Dropped, n)
  <2>1. plan.first = [k \in Meta |-> plan.first[k]] /\ plan.dropAt = [k \in Meta |-> plan.dropAt[k]]
    BY <1>4 DEF IsPlan
  <2>2. \A k \in Meta : q.first[k] = IF k = MetaKind(s) /\ plan.first[k] = 0 THEN n ELSE plan.first[k]
    BY <1>6, <1>7, <2>1
  <2>3. \A k \in Meta : q.dropAt[k] = IF k = MetaKind(s) /\ n \in Dropped /\ plan.dropAt[k] = 0
                                      THEN n ELSE plan.dropAt[k]
    BY <1>6, <1>7, <2>1
  <2>4. q.insertAt = plan.insertAt \/ (q.insertAt = n + 1 /\ plan.insertAt = n /\ IsLeading(s))
    BY <1>3, <1>6
  <2>5. s.kind \notin StopKinds /\ IsList(file)
    BY <1>3 DEF Inv
  <2> QED
    BY <1>3, <1>6, <2>2, <2>3, <2>4, <2>5, PlanStep
<1>9. RunsOK(q.drops, Dropped, 1, n + 1)
  <2>1. n # 0
    BY <1>3
  <2> QED
    BY <1>3, <1>6, <2>1, RunsKeep, AddDropIs
<1>10. Dropped' = Dropped
  BY <1>2, SameDropped
<1>11. IF scan.inRun /\ IsLeading(s) THEN q.insertAt = n + 1 ELSE q.insertAt < n + 1 /\ ~IsLeading(file[q.insertAt])
  <2>1. plan.insertAt \in Int
    BY <1>3 DEF PlanTo
  <2> QED
    BY <1>3, <1>6, <2>1
<1>12. scan'.pos = n + 1 /\ scan'.pos - 1 = n /\ n + 1 \in 1..Len(file) + 1
  BY <1>2, <1>3
<1>13. PlanTo(plan', file', Dropped', scan'.pos - 1) /\ RunsOK(plan'.drops, Dropped', 1, scan'.pos)
  <2>1. PlanTo(plan', file', Dropped', n) /\ RunsOK(plan'.drops, Dropped', 1, n + 1)
    BY <1>2, <1>8, <1>9, <1>10
  <2> QED
    BY <1>12, <2>1, Zenon
<1>14. ScanInv'
  <2>1. scan'.inRun = (scan.inRun /\ IsLeading(s)) /\ scan' = [pos |-> scan'.pos, inRun |-> scan'.inRun]
    BY <1>2
  <2>2. IF scan'.inRun THEN plan'.insertAt = n + 1 ELSE plan'.insertAt < n + 1 /\ ~IsLeading(file'[plan'.insertAt])
    BY <1>2, <1>11, <2>1
  <2> QED
    BY <1>2, <1>12, <1>13, <2>1, <2>2 DEF ScanInv
<1>15. Shape(plan')
  <2>1. PlanTo(plan', file', Dropped', n) /\ RunsOK(plan'.drops, Dropped', 1, n + 1) /\ n + 1 \in Int
    BY <1>2, <1>3, <1>8, <1>9, <1>10
  <2> QED
    BY <1>3, <2>1, ShapeIs
<1>16. CallInv'
  BY <1>2, <1>3, CallStays DEF Inv
<1> QED
  BY <1>2, <1>3, <1>14, <1>15, <1>16 DEF Inv, WriteInv, CopyInv

(* The scan ends and the write begins.                                     *)
LEMMA ScanStopInv == ASSUME Inv, ScanStop PROVE Inv'
<1>p. PICK n : n = scan.pos
  OBVIOUS
<1>1. scan # None /\ AtStop
  BY DEF ScanStop
<1>2. /\ UNCHANGED <<file, call, pl>> /\ plan' = [plan EXCEPT !.tail = n] /\ scan' = None
      /\ put' = {k \in Meta : Has(k)} /\ cursor' = 1 /\ out' = <<>>
  BY <1>p DEF ScanStop
<1>3. /\ call # None /\ put = None /\ Len(file) \in Nat
      /\ n \in 1..Len(file) + 1 /\ n \in Nat /\ n - 1 \in Nat /\ n - 1 + 1 = n
      /\ PlanTo(plan, file, Dropped, n - 1) /\ RunsOK(plan.drops, Dropped, 1, n)
      /\ IF scan.inRun THEN plan.insertAt = n ELSE plan.insertAt < n /\ ~IsLeading(file[plan.insertAt])
      /\ n <= Len(file) => file[n].kind \in StopKinds
  BY <1>1, <1>p DEF Inv, CallInv, IsList, ScanInv, AtStop
<1>4. /\ IsPlan(plan') /\ plan'.tail = n /\ plan'.first = plan.first /\ plan'.dropAt = plan.dropAt
      /\ plan'.drops = plan.drops /\ plan'.insertAt = plan.insertAt
  BY <1>2, <1>3 DEF PlanTo, IsPlan
<1>5. Dropped' = Dropped
  BY <1>2, SameDropped
<1>6. PlanTo(plan', file', Dropped', n - 1) /\ RunsOK(plan'.drops, Dropped', 1, n)
  BY <1>2, <1>3, <1>4, <1>5, PlanSame
<1>7. plan'.insertAt <= Len(file) => ~IsLeading(file[plan'.insertAt])
  <2>1. plan.insertAt \in Int
    BY <1>3 DEF PlanTo
  <2>2. \A s : s.kind \in StopKinds => ~IsLeading(s)
    BY DEF StopKinds, IsLeading
  <2> QED
    BY <1>3, <1>4, <2>1, <2>2
<1>8. ASSUME NEW k \in Meta PROVE EmitOffset(k)' \in 1..n
  <2>1. EmitOffset(k) \in 1..n - 1 + 1
    BY <1>3, EmitOffsetIn
  <2> QED
    BY <1>3, <1>4, <2>1, SameEmit
<1>9. WriteInv'
  <2>1. put' \subseteq {k \in Meta : Has(k)'}
    BY <1>2 DEF Has
  <2>2. \A k \in put' : \A i \in EmitOffset(k)'..cursor' - 1 : i \in Dropped'
    BY <1>2, <1>3, <1>8
  <2>3. /\ plan'.tail \in 1..Len(file') + 1 /\ Ended(file', plan'.tail)
        /\ plan'.insertAt <= Len(file') => ~IsLeading(file'[plan'.insertAt])
        /\ cursor' \in 1..plan'.tail
    BY <1>2, <1>3, <1>4, <1>7 DEF Ended
  <2>4. PlanTo(plan', file', Dropped', plan'.tail - 1) /\ RunsOK(plan'.drops, Dropped', cursor', plan'.tail)
    BY <1>2, <1>4, <1>6
  <2> QED
    BY <2>1, <2>2, <2>3, <2>4 DEF WriteInv
<1>10. CopyInv'
  <2>1. Before(file', 1) = <<>>
    BY BeforeNone
  <2> QED
    BY <1>2, <2>1, EmptyList DEF CopyInv
<1>11. Shape(plan')
  BY <1>3, <1>6, ShapeIs
<1>12. CallInv'
  BY <1>2, <1>3, CallStays DEF Inv
<1> QED
  BY <1>2, <1>9, <1>10, <1>11, <1>12 DEF Inv, ScanInv

-----------------------------------------------------------------------------
(* What the write puts in.                                                 *)

LEMMA ThreeList ==
    ASSUME NEW x, NEW y, NEW z
    PROVE  IsList(<<x, y, z>>) /\ Len(<<x, y, z>>) = 3
           /\ <<x, y, z>>[1] = x /\ <<x, y, z>>[2] = y /\ <<x, y, z>>[3] = z
<1>1. <<x, y, z>> \in Seq({x, y, z})
  OBVIOUS
<1> QED
  BY <1>1, SeqIsList

(* The XMP that goes in, and the chunks beside it.                         *)
LEMMA XMPBlock ==
    ASSUME CallInv, call # None, pl.XMP # None
    PROVE  /\ call.XMP # None /\ pl.XMP.form \in {"packet", "linked", "large", "wire"}
           /\ pl.XMP.id = call.XMP.id /\ pl.XMP.guid = call.XMP.guid
           /\ AsksToKeep(call.XMP) =>
                /\ pl.XMP.form \in {"packet", "linked", "large"}
                /\ call.XMP.guid \notin {None, call.XMP.id}
           /\ ~AsksToKeep(call.XMP) => pl.XMP = call.XMP
<1> DEFINE x == call.XMP
<1>1. pl.XMP = Linked(file, x) /\ (x # None => IsXMP(x))
  BY DEF CallInv
<1>2. x # None
  BY <1>1 DEF Linked, AsksToKeep
<1>3. /\ x = [id |-> x.id, form |-> x.form, guid |-> x.guid]
      /\ x.form \in {"packet", "large", "wire", "kept", "keptLarge"}
      /\ AsksToKeep(x) => x.guid \notin {None, x.id}
  BY <1>1, <1>2 DEF IsXMP, AsksToKeep
<1>4. CASE AsksToKeep(x)
  <2>1. PICK f : /\ pl.XMP = [x EXCEPT !.form = f] /\ f \in {"linked", "packet", "large"}
    BY <1>1, <1>4 DEF Linked
  <2>2. pl.XMP = [id |-> x.id, form |-> f, guid |-> x.guid]
    BY <1>3, <2>1
  <2> QED
    BY <1>2, <1>3, <1>4, <2>1, <2>2
<1>5. CASE ~AsksToKeep(x)
  <2>1. pl.XMP = x /\ x.form \in {"packet", "large", "wire"}
    BY <1>1, <1>2, <1>3, <1>5 DEF Linked, AsksToKeep
  <2> QED
    BY <1>2, <1>5, <2>1
<1> QED
  BY <1>4, <1>5

(* The new segments are of their kind and are not segments that stay.      *)
LEMMA BlockIs ==
    ASSUME CallInv, call # None, NEW k \in Meta, Has(k)
    PROVE  /\ IsList(Block(k)) /\ k \notin call.keep
           /\ \A i \in 1..Len(Block(k)) : /\ MetaKind(Block(k)[i]) = k /\ ~Stays(call, Block(k)[i])
                                          /\ Block(k)[i].kind \notin StopKinds
<1>1. k \notin call.keep
  <2>1. /\ "EXIF" \in call.keep => pl.EXIF = None
        /\ "PS" \in call.keep => pl.IPTC = None /\ pl.irb = <<>>
        /\ "XMP" \in call.keep => call.XMP = None
    BY DEF CallInv, OrigIRB
  <2>2. pl.XMP # None => call.XMP # None
    BY XMPBlock
  <2> QED
    BY <2>1, <2>2 DEF Has, Meta
<1>2. CASE k = "EXIF"
  <2>1. Block(k) = <<Segment("EXIF", pl.EXIF)>>
    BY <1>2 DEF Block
  <2>2. MetaKind(Segment("EXIF", pl.EXIF)) = "EXIF" /\ Segment("EXIF", pl.EXIF).kind = "EXIF"
    BY DEF MetaKind, Segment
  <2>3. ~Stays(call, Segment("EXIF", pl.EXIF))
    BY <1>1, <1>2, <2>2, IsNoMeta DEF Stays, IsChunkOf
  <2> QED
    BY <1>1, <1>2, <2>1, <2>2, <2>3, OneList DEF StopKinds
<1>3. CASE k = "PS"
  <2>1. Block(k) = <<>> \/ Block(k) = <<Photoshop(IRBOut)>>
    BY <1>3 DEF Block
  <2>2. MetaKind(Photoshop(IRBOut)) = "PS" /\ Photoshop(IRBOut).kind = "PS"
    BY DEF MetaKind, Photoshop, Segment
  <2>3. ~Stays(call, Photoshop(IRBOut))
    BY <1>1, <1>3, <2>2, IsNoMeta DEF Stays, IsChunkOf
  <2> QED
    BY <1>1, <1>3, <2>1, <2>2, <2>3, OneList, EmptyList DEF StopKinds
<1>4. CASE k = "XMP"
  <2> DEFINE x == pl.XMP
             Fits(s) == MetaKind(s) = "XMP" /\ ~Stays(call, s) /\ s.kind \notin StopKinds
  <2>1. x # None
    BY <1>4 DEF Has
  <2>2. /\ x.form \in {"packet", "linked", "large", "wire"} /\ x.id = call.XMP.id /\ x.guid = call.XMP.guid
        /\ AsksToKeep(call.XMP) => x.form \in {"packet", "linked", "large"} /\ call.XMP.guid # call.XMP.id
    BY <2>1, XMPBlock
  <2>3. ASSUME NEW id, NEW guid PROVE Fits(Packet(id, guid))
    <3>1. Packet(id, guid).kind = "XMP"
      BY DEF Packet, Segment
    <3>2. MetaKind(Packet(id, guid)) = "XMP"
      BY <3>1 DEF MetaKind
    <3>3. ~Stays(call, Packet(id, guid))
      BY <1>1, <1>4, <3>1, <3>2, IsNoMeta DEF Stays, IsChunkOf, Meta
    <3> QED
      BY <3>1, <3>2, <3>3 DEF StopKinds
  <2>4. ASSUME NEW guid, NEW part, AsksToKeep(call.XMP) => guid # call.XMP.guid PROVE Fits(Chunk(guid, part))
    <3>1. Chunk(guid, part).kind = "Ext" /\ Chunk(guid, part).guid = guid
      BY DEF Chunk, Segment
    <3>2. MetaKind(Chunk(guid, part)) = "XMP"
      BY <3>1 DEF MetaKind
    <3>3. ~Stays(call, Chunk(guid, part))
      BY <1>1, <1>4, <2>4, <3>1, <3>2, IsNoMeta DEF Stays, IsChunkOf, Meta
    <3> QED
      BY <3>1, <3>2, <3>3 DEF StopKinds
  <2> HIDE DEF Fits
  <2>5. PICK guid : /\ AsksToKeep(call.XMP) => guid # call.XMP.guid
                    /\ \/ Block(k) = <<Packet(x.id, None)>>
                       \/ Block(k) = <<Packet(x.id, x.guid)>>
                       \/ Block(k) = <<Packet(x.id, guid), Chunk(guid, 1), Chunk(guid, 2)>>
    <3>1. CASE x.form = "packet"
      BY <1>4, <2>2, <3>1 DEF Block
    <3>2. CASE x.form = "linked"
      BY <1>4, <2>2, <3>2 DEF Block
    <3>3. CASE x.form = "large"
      <4>1. Block(k) = <<Packet(x.id, x.id), Chunk(x.id, 1), Chunk(x.id, 2)>>
        BY <1>4, <3>3 DEF Block
      <4> QED
        BY <2>2, <4>1
    <3>4. CASE x.form = "wire"
      <4>1. Block(k) = <<Packet(x.id, x.guid), Chunk(x.guid, 1), Chunk(x.guid, 2)>>
        BY <1>4, <3>4 DEF Block
      <4>2. ~AsksToKeep(call.XMP)
        BY <2>2, <3>4
      <4> QED
        BY <4>1, <4>2
    <3> QED
      BY <2>2, <3>1, <3>2, <3>3, <3>4
  <2>6. IsList(Block(k)) /\ \A i \in 1..Len(Block(k)) : Fits(Block(k)[i])
    <3>1. CASE Block(k) = <<Packet(x.id, None)>>
      BY <2>3, <3>1, OneList
    <3>2. CASE Block(k) = <<Packet(x.id, x.guid)>>
      BY <2>3, <3>2, OneList
    <3>3. CASE Block(k) = <<Packet(x.id, guid), Chunk(guid, 1), Chunk(guid, 2)>>
      <4>1. Fits(Packet(x.id, guid)) /\ Fits(Chunk(guid, 1)) /\ Fits(Chunk(guid, 2))
        BY <2>3, <2>4, <2>5
      <4>2. \A i \in 1..3 : i = 1 \/ i = 2 \/ i = 3
        OBVIOUS
      <4> QED
        BY <3>3, <4>1, <4>2, ThreeList
    <3> QED
      BY <2>5, <3>1, <3>2, <3>3
  <2> QED
    BY <1>1, <1>4, <2>6 DEF Fits
<1> QED
  BY <1>2, <1>3, <1>4 DEF Meta
-----------------------------------------------------------------------------
(* The steps of the write.                                                 *)

(* Offsets and ranks order the new segments.                               *)
LEMMA SoonestIs ==
    ASSUME put # {}, put \subseteq Meta, \A k \in put : EmitOffset(k) \in Nat
    PROVE  /\ Soonest \in put
           /\ \A k \in put \ {Soonest} : Sooner(Soonest, k) /\ EmitOffset(Soonest) <= EmitOffset(k)
<1> DEFINE Key(k) == 4 * EmitOffset(k) + Rank[k]
           T == {Key(k) : k \in put}
<1>1. \A k \in put : Rank[k] \in 1..3
  BY DEF Rank, Meta
<1>2. \A j, k \in put : j # k => Rank[j] # Rank[k]
  BY DEF Rank, Meta
<1>3. T \subseteq Nat /\ T # {}
  BY <1>1
<1>4. PICK m \in put : \A k \in put : ~(Key(k) < Key(m))
  BY <1>3, NatLeast
<1>5. ASSUME NEW k \in put \ {m} PROVE Sooner(m, k)
  <2>1. /\ EmitOffset(m) \in Nat /\ EmitOffset(k) \in Nat /\ Rank[m] \in 1..3 /\ Rank[k] \in 1..3
        /\ Rank[m] # Rank[k] /\ 4 * EmitOffset(m) + Rank[m] <= 4 * EmitOffset(k) + Rank[k]
    BY <1>1, <1>2, <1>4
  <2>2. EmitOffset(m) <= EmitOffset(k)
    BY <2>1
  <2> QED
    BY <2>1, <2>2 DEF Sooner
<1>6. Soonest \in put /\ \A k \in put \ {Soonest} : Sooner(Soonest, k)
  BY <1>5 DEF Soonest
<1>7. ASSUME NEW k \in put \ {Soonest} PROVE EmitOffset(Soonest) <= EmitOffset(k)
  BY <1>6 DEF Sooner
<1> QED
  BY <1>6, <1>7

LEMMA MaxTwo == ASSUME NEW a \in Int, NEW b \in Int PROVE Max({a, b}) = IF a <= b THEN b ELSE a
<1> DEFINE c == IF a <= b THEN b ELSE a
<1>1. c \in {a, b} /\ \A y \in {a, b} : c >= y
  OBVIOUS
<1>2. \A x \in {a, b} : (\A y \in {a, b} : x >= y) => x = c
  OBVIOUS
<1> QED
  BY <1>1, <1>2 DEF Max

(* The write is in progress.                                               *)
LEMMA WriteAt ==
    ASSUME Inv, put # None
    PROVE  /\ call # None /\ scan = None /\ Len(file) \in Nat /\ IsList(file)
           /\ plan.tail \in Nat /\ plan.tail \in 1..Len(file) + 1
           /\ cursor \in Nat /\ cursor \in 1..plan.tail
           /\ \A k \in put : k \in Meta /\ Has(k) /\ EmitOffset(k) \in Nat /\ EmitOffset(k) \in 1..plan.tail
           /\ \A i \in 1..plan.tail - 1 : file[i].kind \notin StopKinds
           /\ \A i \in 1..plan.tail - 1 : i \in Dropped <=> ~Stays(call, file[i])
<1>1. /\ call # None /\ scan = None /\ Len(file) \in Nat
      /\ plan.tail \in Nat /\ plan.tail \in 1..Len(file) + 1
      /\ cursor \in Nat /\ cursor \in 1..plan.tail /\ plan.tail - 1 \in Nat /\ plan.tail - 1 + 1 = plan.tail
      /\ PlanTo(plan, file, Dropped, plan.tail - 1) /\ put \subseteq {k \in Meta : Has(k)}
  BY DEF Inv, CallInv, WriteInv, IsList
<1>2. \A k \in put : k \in Meta /\ Has(k) /\ EmitOffset(k) \in Nat /\ EmitOffset(k) \in 1..plan.tail
  BY <1>1, EmitOffsetIn
<1>3. \A i \in 1..plan.tail - 1 : file[i].kind \notin StopKinds
  BY <1>1 DEF PlanTo
<1>4. ASSUME NEW i \in 1..plan.tail - 1 PROVE i \in Dropped <=> ~Stays(call, file[i])
  <2>1. i \in 1..Len(file) /\ \A j \in 1..i : j \in 1..plan.tail - 1
    BY <1>1
  <2>2. \A j \in 1..i : file[j].kind \notin StopKinds
    BY <1>3, <2>1
  <2> QED
    BY <1>1, <2>1, <2>2, DropsStays DEF Inv
<1> QED
  BY <1>1, <1>2, <1>3, <1>4 DEF Inv

(* The source is copied up to a place that the write has not passed.       *)
LEMMA CopiedIs ==
    ASSUME Inv, put # None, NEW n \in 1..plan.tail
    PROVE  /\ IsList(Copied(n)) /\ \A i \in 1..Len(Copied(n)) : Copied(n)[i].kind \notin StopKinds
           /\ Staying(call, Copied(n)) = Staying(call, Before(file, IF cursor <= n THEN n ELSE cursor))
<1> DEFINE part == SubSeq(file, cursor, n - 1)
           all == Copied(n)
<1>1. /\ Len(file) \in Nat /\ IsList(file) /\ cursor \in Nat /\ cursor >= 1 /\ n \in Nat
      /\ plan.tail \in Nat /\ cursor \in 1..Len(file) + 1 /\ n \in 1..Len(file) + 1
      /\ \A i \in 1..plan.tail - 1 : file[i].kind \notin StopKinds
  BY WriteAt
<1>2. /\ IsList(out) /\ (\A i \in 1..Len(out) : out[i].kind \notin StopKinds)
      /\ Staying(call, out) = Staying(call, Before(file, cursor)) /\ Len(out) \in Nat
  BY DEF Inv, CopyInv, IsList
<1>3. all = out \o part
  BY DEF Copied
<1>4. CASE cursor <= n
  <2>0. cursor \in 1..n
    BY <1>1, <1>4
  <2>1. /\ IsList(part) /\ Len(part) = n - cursor /\ \A i \in 1..n - cursor : part[i] = file[cursor + i - 1]
        /\ Before(file, cursor) \o part = Before(file, n)
    BY <1>1, <2>0, BeforeJoin
  <2>2. IsList(Before(file, cursor))
    BY <1>1, BeforeList
  <2> HIDE DEF part
  <2>3. Staying(call, all) = Staying(call, out) \o Staying(call, part)
    BY <1>2, <1>3, <2>1, StayingConcat
  <2>4. Staying(call, Before(file, n)) = Staying(call, Before(file, cursor)) \o Staying(call, part)
    <3>1. IsList(part)
      BY <2>1
    <3>2. Staying(call, Before(file, cursor) \o part) = Staying(call, Before(file, cursor)) \o Staying(call, part)
      BY <2>2, <3>1, StayingConcat
    <3> QED
      BY <2>1, <3>2
  <2>5. \A i \in 1..Len(part) : part[i].kind \notin StopKinds
    <3>1. \A i \in 1..n - cursor : cursor + i - 1 \in 1..plan.tail - 1
      BY <1>1, <1>4
    <3> QED
      BY <1>1, <2>1, <3>1
  <2>6. /\ IsList(all) /\ Len(all) = Len(out) + Len(part) /\ Len(part) \in Nat
        /\ \A i \in 1..Len(out) : all[i] = out[i]
        /\ \A i \in 1..Len(part) : all[Len(out) + i] = part[i]
    <3>1. IsList(out) /\ IsList(part)
      BY <1>2, <2>1
    <3>2. /\ IsList(out \o part) /\ Len(out \o part) = Len(out) + Len(part)
          /\ \A i \in 1..Len(out) : (out \o part)[i] = out[i]
          /\ \A i \in 1..Len(part) : (out \o part)[Len(out) + i] = part[i]
      BY <3>1, ConcatList
    <3>3. Len(part) \in Nat
      BY <3>1 DEF IsList
    <3> QED
      BY <1>3, <3>2, <3>3
  <2>7. ASSUME NEW i \in 1..Len(all) PROVE all[i].kind \notin StopKinds
    <3>1. CASE i <= Len(out)
      BY <3>1, <1>2, <2>6
    <3>2. CASE ~(i <= Len(out))
      <4>1. i - Len(out) \in 1..Len(part) /\ Len(out) + (i - Len(out)) = i
        BY <3>2, <1>2, <2>6
      <4> QED
        BY <4>1, <2>5, <2>6
    <3> QED
      BY <3>1, <3>2
  <2> QED
    BY <1>2, <1>4, <2>3, <2>4, <2>6, <2>7
<1>5. CASE ~(cursor <= n)
  <2>1. part = <<>>
    <3>1. cursor > n - 1
      BY <1>1, <1>5
    <3>2. n - 1 \in Int
      BY <1>1
    <3> QED
      BY <1>1, <3>1, <3>2, SubSeqEmpty
  <2>2. all = out
    BY <1>2, <1>3, <2>1, ConcatEmpty
  <2> QED
    BY <1>2, <1>5, <2>2
<1> QED
  BY <1>4, <1>5

(* A list with segments that are not to stay at the end.                   *)
LEMMA StayingMore ==
    ASSUME NEW s, IsList(s), NEW t, IsList(t), NEW c, \A i \in 1..Len(t) : ~Stays(c, t[i])
    PROVE  Staying(c, s \o t) = Staying(c, s)
<1>1. Staying(c, s \o t) = Staying(c, s) \o <<>>
  <2>1. Staying(c, s \o t) = Staying(c, s) \o Staying(c, t)
    BY StayingConcat
  <2>2. Staying(c, t) = <<>>
    BY StayingNone
  <2> QED
    BY <2>1, <2>2
<1> QED
  BY <1>1, StayingList, ConcatEmpty

LEMMA AllConcat ==
    ASSUME NEW s, IsList(s), NEW t, IsList(t), NEW Q,
           \A i \in 1..Len(s) : s[i].kind \notin Q, \A i \in 1..Len(t) : t[i].kind \notin Q
    PROVE  IsList(s \o t) /\ \A i \in 1..Len(s \o t) : (s \o t)[i].kind \notin Q
<1>1. /\ IsList(s \o t) /\ Len(s \o t) = Len(s) + Len(t) /\ Len(s) \in Nat /\ Len(t) \in Nat
      /\ \A i \in 1..Len(s) : (s \o t)[i] = s[i]
      /\ \A i \in 1..Len(t) : (s \o t)[Len(s) + i] = t[i]
  BY ConcatList DEF IsList
<1>2. ASSUME NEW i \in 1..Len(s \o t) PROVE (s \o t)[i].kind \notin Q
  <2>1. CASE i <= Len(s)
    <3>1. i \in 1..Len(s)
      BY <2>1, <1>1
    <3> QED
      BY <3>1, <1>1
  <2>2. CASE ~(i <= Len(s))
    <3>1. i - Len(s) \in 1..Len(t) /\ Len(s) + (i - Len(s)) = i
      BY <2>2, <1>1
    <3> QED
      BY <3>1, <1>1
  <2> QED
    BY <2>1, <2>2
<1> QED
  BY <1>1, <1>2

LEMMA PutInInv == ASSUME Inv, PutIn PROVE Inv'
<1>k. PICK k : k = Soonest
  OBVIOUS
<1>n. PICK n : n = EmitOffset(k)
  OBVIOUS
<1>1. /\ put # None /\ put # {} /\ (plan.drops # <<>> => n <= Head(plan.drops).from)
      /\ UNCHANGED <<file, call, pl, plan, scan>> /\ put' = put \ {k}
      /\ out' = Copied(n) \o Block(k) /\ cursor' = Max({cursor, n})
  BY <1>k, <1>n DEF PutIn, Writing, PutIsNext
<1>2. /\ call # None /\ scan = None /\ Len(file) \in Nat /\ IsList(file)
      /\ plan.tail \in Nat /\ plan.tail \in 1..Len(file) + 1 /\ cursor \in Nat /\ cursor \in 1..plan.tail
      /\ \A j \in put : j \in Meta /\ Has(j) /\ EmitOffset(j) \in Nat /\ EmitOffset(j) \in 1..plan.tail
  BY <1>1, WriteAt
<1>3. k \in put /\ k \in Meta /\ Has(k) /\ n \in 1..plan.tail /\ n \in Nat
      /\ \A j \in put \ {k} : n <= EmitOffset(j)
  <2>1. put \subseteq Meta /\ \A j \in put : EmitOffset(j) \in Nat
    BY <1>2
  <2> QED
    BY <1>1, <1>2, <1>k, <1>n, <2>1, SoonestIs
<1>4. cursor' = IF cursor <= n THEN n ELSE cursor
  BY <1>1, <1>2, <1>3, MaxTwo
<1>5. Dropped' = Dropped /\ \A j : EmitOffset(j)' = EmitOffset(j)
  BY <1>1, SameDropped, SameEmit
<1>6. WriteInv'
  <2>1. /\ put \subseteq {j \in Meta : Has(j)} /\ Ended(file, plan.tail)
        /\ PlanTo(plan, file, Dropped, plan.tail - 1)
        /\ plan.insertAt <= Len(file) => ~IsLeading(file[plan.insertAt])
        /\ RunsOK(plan.drops, Dropped, cursor, plan.tail)
        /\ \A j \in put : \A i \in EmitOffset(j)..cursor - 1 : i \in Dropped
    BY <1>1 DEF Inv, WriteInv
  <2>2. put' \subseteq {j \in Meta : Has(j)'} /\ cursor' \in 1..plan.tail /\ cursor' \in Nat
    BY <1>1, <1>2, <1>3, <1>4, <2>1 DEF Has
  <2>3. ASSUME NEW j \in put', NEW i \in EmitOffset(j)..cursor' - 1 PROVE i \in Dropped
    <3>1. j \in put /\ n <= EmitOffset(j) /\ EmitOffset(j) \in Nat
      BY <1>1, <1>2, <1>3
    <3>2. i <= cursor' - 1 /\ EmitOffset(j) <= i /\ i \in Int
      <4>1. \A a, b \in Int : \A x \in a..b : x <= b /\ a <= x /\ x \in Int
        OBVIOUS
      <4>2. EmitOffset(j) \in Int /\ cursor' - 1 \in Int
        BY <3>1, <2>2
      <4> QED
        BY <4>1, <4>2
    <3>3. cursor' = cursor
      BY <1>2, <1>3, <1>4, <3>1, <3>2
    <3> QED
      BY <2>1, <3>1, <3>3
  <2>4. RunsOK(plan.drops, Dropped, cursor', plan.tail)
    <3>1. /\ IsList(plan.drops) /\ \A d \in 1..Len(plan.drops) : IsRun(plan.drops[d], cursor, plan.tail)
          /\ \A d, e \in 1..Len(plan.drops) : d < e => plan.drops[d].to < plan.drops[e].from
          /\ \A i \in cursor..plan.tail - 1 : i \in Dropped <=> In(plan.drops, i)
      BY <2>1 DEF RunsOK
    <3>2. ASSUME NEW d \in 1..Len(plan.drops) PROVE IsRun(plan.drops[d], cursor', plan.tail)
      <4>1. /\ plan.drops[d].from \in Int /\ plan.drops[d].to \in Int /\ cursor <= plan.drops[d].from
            /\ plan.drops[d].from < plan.drops[d].to /\ plan.drops[d].to <= plan.tail
            /\ \A a, b \in Int : a <= plan.drops[d].from /\ plan.drops[d].to <= b => IsRun(plan.drops[d], a, b)
        BY <1>2, <3>1, RunIs
      <4>2. Len(plan.drops) \in Nat /\ Len(plan.drops) >= 1 /\ plan.drops # <<>> /\ Head(plan.drops) = plan.drops[1]
            /\ 1 \in 1..Len(plan.drops)
        <5>1. Len(plan.drops) \in Nat /\ Len(plan.drops) >= 1
          BY <3>1 DEF IsList
        <5>2. plan.drops # <<>>
          BY <5>1, EmptyList
        <5> QED
          BY <3>1, <5>1, <5>2, TailList
      <4>3. plan.drops[1].from \in Int /\ plan.drops[1].to \in Int /\ plan.drops[1].from < plan.drops[1].to
        BY <1>2, <3>1, <4>2, RunIs
      <4>4. n <= plan.drops[1].from
        BY <1>1, <4>2
      <4>5. n <= plan.drops[d].from
        <5>1. CASE d = 1
          BY <5>1, <4>4
        <5>2. CASE d # 1
          <6>1. plan.drops[1].to < plan.drops[d].from
            BY <3>1, <4>2, <5>2
          <6> QED
            BY <1>3, <4>1, <4>3, <4>4, <6>1
        <5> QED
          BY <5>1, <5>2
      <4> QED
        BY <1>2, <1>3, <1>4, <4>1, <4>5
    <3>3. \A i \in cursor'..plan.tail - 1 : i \in cursor..plan.tail - 1
      BY <1>2, <1>3, <1>4
    <3> QED
      BY <3>1, <3>2, <3>3 DEF RunsOK
  <2> QED
    BY <1>1, <1>2, <1>5, <2>1, <2>2, <2>3, <2>4 DEF WriteInv
<1>7. CopyInv'
  <2>1. /\ IsList(Copied(n)) /\ \A i \in 1..Len(Copied(n)) : Copied(n)[i].kind \notin StopKinds
        /\ Staying(call, Copied(n)) = Staying(call, Before(file, cursor'))
    BY <1>1, <1>3, <1>4, CopiedIs
  <2>2. /\ IsList(Block(k))
        /\ \A i \in 1..Len(Block(k)) : ~Stays(call, Block(k)[i]) /\ Block(k)[i].kind \notin StopKinds
    BY <1>2, <1>3, BlockIs DEF Inv
  <2>3. IsList(out') /\ \A i \in 1..Len(out') : out'[i].kind \notin StopKinds
    BY <1>1, <2>1, <2>2, AllConcat
  <2>4. Staying(call, out') = Staying(call, Before(file, cursor'))
    BY <1>1, <2>1, <2>2, StayingMore
  <2> QED
    BY <1>1, <2>3, <2>4 DEF CopyInv
<1>8. CallInv'
  BY <1>1, <1>2, CallStays DEF Inv
<1> QED
  BY <1>1, <1>2, <1>6, <1>7, <1>8 DEF Inv, ScanInv

LEMMA LeaveOutInv == ASSUME Inv, LeaveOut PROVE Inv'
<1> DEFINE ds == plan.drops
           r == Head(ds)
<1>1. /\ put # None /\ ds # <<>> /\ (put # {} => ~(EmitOffset(Soonest) <= r.from))
      /\ UNCHANGED <<file, call, pl, scan, put>> /\ plan' = [plan EXCEPT !.drops = Tail(ds)]
      /\ out' = Copied(r.from) /\ cursor' = Max({cursor, r.to})
  BY DEF LeaveOut, Writing, DropIsNext, PutIsNext
<1>2. /\ call # None /\ scan = None /\ Len(file) \in Nat /\ IsList(file)
      /\ plan.tail \in Nat /\ plan.tail \in 1..Len(file) + 1 /\ cursor \in Nat /\ cursor \in 1..plan.tail
      /\ \A j \in put : j \in Meta /\ Has(j) /\ EmitOffset(j) \in Nat /\ EmitOffset(j) \in 1..plan.tail
      /\ \A i \in 1..plan.tail - 1 : i \in Dropped <=> ~Stays(call, file[i])
  BY <1>1, WriteAt
<1>3. /\ put \subseteq {j \in Meta : Has(j)} /\ Ended(file, plan.tail)
      /\ PlanTo(plan, file, Dropped, plan.tail - 1)
      /\ plan.insertAt <= Len(file) => ~IsLeading(file[plan.insertAt])
      /\ IsList(ds) /\ \A d \in 1..Len(ds) : IsRun(ds[d], cursor, plan.tail)
      /\ \A d, e \in 1..Len(ds) : d < e => ds[d].to < ds[e].from
      /\ \A i \in cursor..plan.tail - 1 : i \in Dropped <=> In(ds, i)
      /\ \A j \in put : \A i \in EmitOffset(j)..cursor - 1 : i \in Dropped
  BY <1>1 DEF Inv, WriteInv, RunsOK
<1>4. /\ Len(ds) \in Nat /\ Len(ds) >= 1 /\ r = ds[1] /\ 1 \in 1..Len(ds)
      /\ IsList(Tail(ds)) /\ Len(Tail(ds)) = Len(ds) - 1 /\ \A d \in 1..Len(ds) - 1 : Tail(ds)[d] = ds[d + 1]
  <2>1. Len(ds) \in Nat
    BY <1>3 DEF IsList
  <2> QED
    BY <1>1, <1>3, <2>1, TailList
<1>5. /\ IsPlan(plan') /\ plan'.tail = plan.tail /\ plan'.first = plan.first /\ plan'.dropAt = plan.dropAt
      /\ plan'.drops = Tail(ds) /\ plan'.insertAt = plan.insertAt
  <2>1. IsPlan(plan)
    BY <1>3 DEF PlanTo
  <2> QED
    BY <1>1, <2>1 DEF IsPlan
<1> HIDE DEF ds, r
<1>a. PICK a : a = r.from
  OBVIOUS
<1>b. PICK b : b = r.to
  OBVIOUS
<1>6. a \in Int /\ b \in Int /\ cursor <= a /\ a < b /\ b <= plan.tail
  BY <1>a, <1>b, <1>2, <1>3, <1>4, RunIs
<1>7. cursor' = b
  <2>1. cursor' = Max({cursor, b})
    BY <1>1, <1>b
  <2>2. Max({cursor, b}) = IF cursor <= b THEN b ELSE cursor
    BY <1>2, <1>6, MaxTwo
  <2>3. cursor <= b
    BY <1>2, <1>6
  <2> QED
    BY <2>1, <2>2, <2>3
<1>8. Dropped' = Dropped /\ \A j : EmitOffset(j)' = EmitOffset(j)
  BY <1>1, <1>5, SameDropped, SameEmit
<1>9. ASSUME NEW i \in a..b - 1 PROVE i \in Dropped /\ i \in 1..plan.tail - 1
  <2>1. In(ds, i)
    BY <1>4, <1>6, <1>a, <1>b DEF In
  <2>2. i \in cursor..plan.tail - 1
    BY <1>2, <1>6
  <2> QED
    BY <1>2, <1>3, <2>1, <2>2
<1>10. RunsOK(Tail(ds), Dropped, b, plan.tail)
  <2>1. ASSUME NEW d \in 1..Len(Tail(ds)) PROVE d \in 1..Len(ds) - 1 /\ d + 1 \in 1..Len(ds) /\ 1 < d + 1
    BY <1>4
  <2>2. ASSUME NEW d \in 1..Len(Tail(ds)) PROVE IsRun(Tail(ds)[d], b, plan.tail)
    <3>1. /\ ds[d + 1].from \in Int /\ ds[d + 1].to \in Int /\ ds[d + 1].to <= plan.tail
          /\ \A m, n \in Int : m <= ds[d + 1].from /\ ds[d + 1].to <= n => IsRun(ds[d + 1], m, n)
      BY <1>2, <1>3, <2>1, RunIs
    <3>2. b < ds[d + 1].from
      BY <1>3, <1>4, <1>b, <2>1
    <3> QED
      BY <1>2, <1>4, <1>6, <2>1, <3>1, <3>2
  <2>3. ASSUME NEW c \in 1..Len(Tail(ds)), NEW d \in 1..Len(Tail(ds)), c < d
        PROVE  Tail(ds)[c].to < Tail(ds)[d].from
    <3>1. Tail(ds)[c] = ds[c + 1] /\ Tail(ds)[d] = ds[d + 1] /\ c + 1 < d + 1
      BY <1>4, <2>1, <2>3
    <3> QED
      BY <1>3, <2>1, <3>1
  <2>4. ASSUME NEW i \in b..plan.tail - 1 PROVE i \in Dropped <=> In(Tail(ds), i)
    <3>1. i \in cursor..plan.tail - 1 /\ ~(i < b) /\ i \in Int
      BY <1>2, <1>6
    <3>2. i \in Dropped <=> In(ds, i)
      BY <1>3, <3>1
    <3>3. ASSUME In(ds, i) PROVE In(Tail(ds), i)
      <4>1. PICK d \in 1..Len(ds) : ds[d].from <= i /\ i < ds[d].to
        BY <3>3 DEF In
      <4>2. d # 1
        BY <1>4, <1>b, <3>1, <4>1
      <4>3. d - 1 \in 1..Len(ds) - 1 /\ d - 1 + 1 = d /\ d - 1 \in 1..Len(Tail(ds))
        BY <1>4, <4>2
      <4>4. Tail(ds)[d - 1] = ds[d]
        BY <1>4, <4>3
      <4> QED
        BY <4>1, <4>3, <4>4 DEF In
    <3>4. ASSUME In(Tail(ds), i) PROVE In(ds, i)
      <4>1. PICK d \in 1..Len(Tail(ds)) : Tail(ds)[d].from <= i /\ i < Tail(ds)[d].to
        BY <3>4 DEF In
      <4>2. Tail(ds)[d] = ds[d + 1] /\ d + 1 \in 1..Len(ds)
        BY <1>4, <2>1
      <4> QED
        BY <4>1, <4>2 DEF In
    <3> QED
      BY <3>2, <3>3, <3>4
  <2> QED
    BY <1>4, <2>2, <2>3, <2>4 DEF RunsOK
<1>11. WriteInv'
  <2>1. PlanTo(plan', file', Dropped', plan'.tail - 1)
    BY <1>1, <1>3, <1>5, <1>8, PlanSame
  <2>2. ASSUME NEW j \in put, NEW i \in EmitOffset(j)..b - 1 PROVE i \in Dropped
    <3>1. EmitOffset(j) \in Nat /\ put # {} /\ i \in Int /\ EmitOffset(j) <= i /\ i <= b - 1
      BY <1>2, <1>6
    <3>2. a < EmitOffset(j)
      <4>1. put \subseteq Meta /\ \A h \in put : EmitOffset(h) \in Nat
        BY <1>2
      <4>2. Soonest \in put /\ \A h \in put \ {Soonest} : EmitOffset(Soonest) <= EmitOffset(h)
        BY <3>1, <4>1, SoonestIs
      <4>3. EmitOffset(Soonest) \in Nat /\ ~(EmitOffset(Soonest) <= a)
        BY <1>1, <1>a, <3>1, <4>1, <4>2
      <4>4. EmitOffset(Soonest) <= EmitOffset(j)
        BY <4>1, <4>2, <4>3
      <4> QED
        BY <1>6, <3>1, <4>3, <4>4
    <3>3. i \in a..b - 1
      BY <1>6, <3>1, <3>2
    <3> QED
      BY <1>9, <3>3
  <2>3. put' \subseteq {j \in Meta : Has(j)'} /\ cursor' \in 1..plan.tail
    <3>1. \A j : Has(j)' <=> Has(j)
      BY <1>1 DEF Has
    <3>2. b \in 1..plan.tail
      BY <1>2, <1>6
    <3> QED
      BY <1>1, <1>3, <1>7, <3>1, <3>2
  <2>4. RunsOK(plan'.drops, Dropped', cursor', plan'.tail)
    BY <1>5, <1>7, <1>8, <1>10
  <2>5. \A j \in put' : \A i \in EmitOffset(j)'..cursor' - 1 : i \in Dropped'
    BY <1>1, <1>7, <1>8, <2>2
  <2> QED
    BY <1>1, <1>2, <1>3, <1>5, <2>1, <2>3, <2>4, <2>5 DEF WriteInv
<1>12. CopyInv'
  <2>1. a \in 1..plan.tail /\ cursor <= a /\ a \in 1..b /\ b \in 1..Len(file) + 1
    BY <1>2, <1>6
  <2>2. /\ IsList(Copied(a)) /\ \A i \in 1..Len(Copied(a)) : Copied(a)[i].kind \notin StopKinds
        /\ Staying(call, Copied(a)) = Staying(call, Before(file, a))
    BY <1>1, <2>1, CopiedIs
  <2>3. Staying(call, Before(file, b)) = Staying(call, Before(file, a))
    <3> DEFINE part == SubSeq(file, a, b - 1)
    <3>1. /\ IsList(part) /\ Len(part) = b - a /\ \A i \in 1..b - a : part[i] = file[a + i - 1]
          /\ Before(file, a) \o part = Before(file, b)
      BY <1>2, <2>1, BeforeJoin
    <3>2. IsList(Before(file, a))
      BY <1>2, <1>6, <2>1, BeforeList
    <3>3. \A i \in 1..b - a : a + i - 1 \in a..b - 1
      BY <1>6
    <3> HIDE DEF part
    <3>4. \A i \in 1..Len(part) : ~Stays(call, part[i])
      BY <1>2, <1>9, <3>1, <3>3
    <3>5. Staying(call, Before(file, a) \o part) = Staying(call, Before(file, a))
      <4>1. IsList(part)
        BY <3>1
      <4> QED
        BY <3>2, <3>4, <4>1, StayingMore
    <3> QED
      BY <3>1, <3>5
  <2> QED
    BY <1>1, <1>7, <1>a, <2>2, <2>3 DEF CopyInv
<1>13. CallInv'
  BY <1>1, <1>2, CallStays DEF Inv
<1>14. Shape(plan')
  <2>1. plan.tail - 1 \in Nat /\ plan.tail \in Int
    BY <1>2
  <2>2. PlanTo(plan', file, Dropped, plan.tail - 1) /\ RunsOK(plan'.drops, Dropped, b, plan.tail)
    BY <1>3, <1>5, <1>10, PlanSame
  <2> QED
    BY <1>6, <2>1, <2>2, ShapeIs
<1> QED
  BY <1>1, <1>2, <1>11, <1>12, <1>13, <1>14 DEF Inv, ScanInv

LEMMA ConcatLists ==
    ASSUME NEW s, IsList(s), NEW t, IsList(t), NEW u, IsList(u)
    PROVE  s \o (t \o u) = (s \o t) \o u
<1> DEFINE A == {s[i] : i \in 1..Len(s)}
           B == {t[i] : i \in 1..Len(t)}
           C == {u[i] : i \in 1..Len(u)}
           S == A \union B \union C
<1>1. s \in Seq(A) /\ t \in Seq(B) /\ u \in Seq(C)
  BY ListIsSeq
<1> HIDE DEF A, B, C
<1>2. s \in Seq(S) /\ t \in Seq(S) /\ u \in Seq(S)
  BY <1>1
<1> HIDE DEF S
<1> QED
  BY <1>2, ConcatAssociative

(* The output of a call.                                                   *)
LEMMA FinishOut ==
    ASSUME Inv, Finish
    PROVE  /\ Copied(Len(file) + 1) = Copied(plan.tail) \o From(file, plan.tail)
           /\ IsList(Copied(plan.tail)) /\ IsList(From(file, plan.tail))
           /\ Len(From(file, plan.tail)) = Len(file) - plan.tail + 1
           /\ \A i \in 1..Len(file) - plan.tail + 1 : From(file, plan.tail)[i] = file[plan.tail + i - 1]
           /\ \A i \in 1..Len(Copied(plan.tail)) : Copied(plan.tail)[i].kind \notin StopKinds
           /\ Staying(call, Copied(plan.tail)) = Staying(call, Before(file, plan.tail))
<1>m. PICK m : m = plan.tail
  OBVIOUS
<1> DEFINE part == SubSeq(file, cursor, m - 1)
           rest == From(file, m)
           n == Len(file)
<1>1. put # None
  BY DEF Finish, Writing
<1>2. /\ n \in Nat /\ IsList(file) /\ m \in Nat /\ m \in 1..n + 1 /\ cursor \in Nat /\ cursor \in 1..m
  BY <1>1, <1>m, WriteAt
<1>3. IsList(out)
  BY <1>1 DEF Inv, CopyInv
<1>4. IsList(part) /\ Len(part) = m - cursor /\ \A i \in 1..m - cursor : part[i] = file[cursor + i - 1]
  BY <1>2, BeforeJoin
<1>5. IsList(rest) /\ Len(rest) = n - m + 1 /\ \A i \in 1..n - m + 1 : rest[i] = file[m + i - 1]
  <2>1. m \in Int /\ n \in Int /\ m >= 1 /\ n <= Len(file) /\ (IF m <= n THEN n - m + 1 ELSE 0) = n - m + 1
    BY <1>2
  <2>2. /\ IsList(SubSeq(file, m, n)) /\ Len(SubSeq(file, m, n)) = IF m <= n THEN n - m + 1 ELSE 0
        /\ \A i \in 1..n - m + 1 : SubSeq(file, m, n)[i] = file[m + i - 1]
    BY <1>2, <2>1, SubList
  <2> QED
    BY <2>1, <2>2 DEF From
<1>6. SubSeq(file, cursor, n) = part \o rest
  <2> DEFINE all == SubSeq(file, cursor, n)
  <2>1. IsList(all) /\ Len(all) = n + 1 - cursor /\ \A i \in 1..n + 1 - cursor : all[i] = file[cursor + i - 1]
    <3>1. /\ cursor \in Int /\ n \in Int /\ cursor >= 1 /\ n <= Len(file) /\ n - cursor + 1 = n + 1 - cursor
          /\ (IF cursor <= n THEN n - cursor + 1 ELSE 0) = n + 1 - cursor
      BY <1>2
    <3>2. /\ IsList(SubSeq(file, cursor, n)) /\ Len(SubSeq(file, cursor, n)) = IF cursor <= n THEN n - cursor + 1 ELSE 0
          /\ \A i \in 1..n - cursor + 1 : SubSeq(file, cursor, n)[i] = file[cursor + i - 1]
      BY <1>2, <3>1, SubList
    <3> QED
      BY <3>1, <3>2
  <2> HIDE DEF all, part, rest
  <2>2. /\ IsList(part \o rest) /\ Len(part \o rest) = Len(part) + Len(rest)
        /\ \A i \in 1..Len(part) : (part \o rest)[i] = part[i]
        /\ \A i \in 1..Len(rest) : (part \o rest)[Len(part) + i] = rest[i]
    <3>1. IsList(part) /\ IsList(rest)
      BY <1>4, <1>5
    <3> QED
      BY <3>1, ConcatList
  <2>3. Len(part \o rest) = n + 1 - cursor
    BY <1>2, <1>4, <1>5, <2>2
  <2>4. ASSUME NEW i \in 1..n + 1 - cursor PROVE all[i] = (part \o rest)[i]
    <3>1. CASE i <= m - cursor
      BY <3>1, <1>2, <1>4, <2>1, <2>2
    <3>2. CASE ~(i <= m - cursor)
      <4>1. /\ i - (m - cursor) \in 1..n - m + 1 /\ (m - cursor) + (i - (m - cursor)) = i
            /\ m + (i - (m - cursor)) - 1 = cursor + i - 1
        BY <3>2, <1>2
      <4>2. (part \o rest)[(m - cursor) + (i - (m - cursor))] = rest[i - (m - cursor)]
        BY <4>1, <1>4, <1>5, <2>2
      <4>3. rest[i - (m - cursor)] = file[m + (i - (m - cursor)) - 1]
        BY <4>1, <1>5
      <4> QED
        BY <4>1, <4>2, <4>3, <2>1
    <3> QED
      BY <3>1, <3>2
  <2>5. all = part \o rest
    BY <2>1, <2>2, <2>3, <2>4, ListEqual
  <2> QED
    BY <2>5 DEF all
<1>7. Copied(n + 1) = out \o (part \o rest)
  <2>1. PICK k : k = n + 1
    OBVIOUS
  <2>2. k - 1 = n
    BY <1>2, <2>1
  <2>3. Copied(k) = out \o SubSeq(file, cursor, k - 1)
    BY DEF Copied
  <2> QED
    BY <1>6, <2>1, <2>2, <2>3
<1>8. Copied(m) = out \o part
  BY DEF Copied
<1>9. out \o (part \o rest) = (out \o part) \o rest
  <2>1. IsList(part) /\ IsList(rest)
    BY <1>4, <1>5
  <2> HIDE DEF part, rest
  <2> QED
    BY <1>3, <2>1, ConcatLists
<1>10. /\ IsList(Copied(m)) /\ \A i \in 1..Len(Copied(m)) : Copied(m)[i].kind \notin StopKinds
       /\ Staying(call, Copied(m)) = Staying(call, Before(file, m))
  <2>1. m \in 1..plan.tail /\ cursor <= m
    BY <1>2, <1>m
  <2> QED
    BY <1>1, <2>1, CopiedIs
<1> QED
  BY <1>5, <1>7, <1>8, <1>9, <1>10, <1>m

LEMMA FinishInv == ASSUME Inv, Finish PROVE Inv'
<1>1. /\ file' = Copied(Len(file) + 1) /\ call' = None /\ put' = None /\ UNCHANGED <<plan, scan>>
  BY DEF Finish
<1>2. scan = None
  BY WriteAt DEF Finish, Writing
<1>3. IsList(file')
  <2>1. /\ Copied(Len(file) + 1) = Copied(plan.tail) \o From(file, plan.tail)
        /\ IsList(Copied(plan.tail)) /\ IsList(From(file, plan.tail))
    BY FinishOut
  <2>2. IsList(Copied(plan.tail) \o From(file, plan.tail))
    BY <2>1, ConcatList
  <2> QED
    BY <1>1, <2>1, <2>2
<1> QED
  BY <1>1, <1>2, <1>3 DEF Inv, CallInv, ScanInv, WriteInv, CopyInv

LEMMA StepInv == ASSUME Inv, [Next]_vars PROVE Inv'
<1>1. CASE UNCHANGED vars
  BY <1>1, InvStays DEF vars
<1>2. ASSUME NEW c \in Calls, Begin(c) PROVE Inv'
  BY <1>2, BeginInv
<1>3. CASE ScanAlone
  BY <1>3, ScanAloneInv
<1>4. CASE ScanSegment
  BY <1>4, ScanSegmentInv
<1>5. CASE ScanTooMany
  BY <1>5, GivesUp DEF ScanTooMany
<1>6. CASE ScanStop
  BY <1>6, ScanStopInv
<1>7. CASE PutIn
  BY <1>7, PutInInv
<1>8. CASE PutTooLarge
  BY <1>8, GivesUp DEF PutTooLarge
<1>9. CASE LeaveOut
  BY <1>9, LeaveOutInv
<1>10. CASE Finish
  BY <1>10, FinishInv
<1> QED
  BY <1>1, <1>2, <1>3, <1>4, <1>5, <1>6, <1>7, <1>8, <1>9, <1>10 DEF Next

LEMMA InvHolds == Spec => []Inv
<1>1. Inv /\ [Next]_vars => Inv'
  BY StepInv
<1> QED
  BY <1>1, InitInv, PTL DEF Spec

LEMMA TypeIs == ASSUME Inv PROVE TypeOK
<1>1. ASSUME call # None
      PROVE  call.keep \subseteq Meta /\ ("EXIF" \in call.keep => pl.EXIF = None)
  BY <1>1 DEF Inv, CallInv
<1>2. ASSUME scan # None PROVE call # None /\ scan.pos \in 1..Len(file) + 1
  BY <1>2 DEF Inv, CallInv, ScanInv
<1>3. ASSUME put # None PROVE call # None /\ scan = None /\ plan.tail \in 1..Len(file) + 1
  BY <1>3, WriteAt
<1>4. /\ \A k \in Meta : plan.dropAt[k] # 0 => plan.first[k] \in 1..plan.dropAt[k]
      /\ \A d \in 1..Len(plan.drops) : plan.drops[d].from < plan.drops[d].to
      /\ \A d \in 1..Len(plan.drops) - 1 : plan.drops[d].to < plan.drops[d + 1].from
      /\ DOMAIN plan.drops = 1..Len(plan.drops)
  BY ListDomain DEF Inv, Shape
<1> QED
  BY <1>1, <1>2, <1>3, <1>4 DEF TypeOK

(* What RestCopied says of the last call.                                  *)
RestOf(src, c, new) ==
    LET n == TailFrom(src)
        m == Len(new) - Len(src) + n
    IN /\ From(new, m) = From(src, n)
       /\ Staying(c, Before(new, m)) = Staying(c, Before(src, n))
LastRest == last # None => RestOf(last.src, last.call, last.out)

LEMMA TailIs ==
    ASSUME Inv, put # None
    PROVE  TailFrom(file) = plan.tail
<1>1. /\ IsList(file) /\ plan.tail \in 1..Len(file) + 1 /\ Ended(file, plan.tail)
      /\ \A i \in 1..plan.tail - 1 : file[i].kind \notin StopKinds
  BY WriteAt DEF Inv, WriteInv
<1> QED
  BY <1>1, TailFromUnique DEF Ended

LEMMA FinishRest ==
    ASSUME Inv, Finish
    PROVE  RestOf(file, call, file')
<1> DEFINE n == plan.tail
           new == Copied(n)
           rest == From(file, n)
           m == Len(new) + 1
<1>1. /\ file' = new \o rest /\ IsList(new) /\ IsList(rest)
      /\ Len(rest) = Len(file) - n + 1
      /\ \A i \in 1..Len(file) - n + 1 : rest[i] = file[n + i - 1]
      /\ Staying(call, new) = Staying(call, Before(file, n))
  BY FinishOut DEF Finish
<1>2. TailFrom(file) = n /\ Len(file) \in Nat /\ n \in Nat /\ n \in 1..Len(file) + 1
  BY TailIs, WriteAt DEF Finish, Writing
<1> HIDE DEF new, rest
<1>3. /\ Len(file') = Len(new) + Len(rest) /\ Len(new) \in Nat /\ Len(rest) \in Nat
      /\ \A i \in 1..Len(new) : file'[i] = new[i]
      /\ \A i \in 1..Len(rest) : file'[Len(new) + i] = rest[i]
  <2>1. IsList(new) /\ IsList(rest) /\ file' = new \o rest
    BY <1>1
  <2>2. /\ Len(new \o rest) = Len(new) + Len(rest)
        /\ \A i \in 1..Len(new) : (new \o rest)[i] = new[i]
        /\ \A i \in 1..Len(rest) : (new \o rest)[Len(new) + i] = rest[i]
    BY <2>1, ConcatList
  <2>3. Len(new) \in Nat /\ Len(rest) \in Nat
    BY <2>1, ListDomain
  <2> QED
    BY <2>1, <2>2, <2>3
<1>4. Len(file') - Len(file) + n = m
  BY <1>1, <1>2, <1>3
<1>5. IsList(file')
  <2>1. IsList(new) /\ IsList(rest) /\ file' = new \o rest
    BY <1>1
  <2>2. IsList(new \o rest)
    BY <2>1, ConcatList
  <2> QED
    BY <2>1, <2>2
<1>6. From(file', m) = rest
  <2> DEFINE got == SubSeq(file', m, Len(file'))
  <2>1. /\ m \in Int /\ m >= 1 /\ Len(file') \in Int /\ Len(file') - m + 1 = Len(rest)
        /\ (IF m <= Len(file') THEN Len(file') - m + 1 ELSE 0) = Len(rest)
    BY <1>3
  <2>2. /\ IsList(got) /\ Len(got) = IF m <= Len(file') THEN Len(file') - m + 1 ELSE 0
        /\ \A i \in 1..Len(file') - m + 1 : got[i] = file'[m + i - 1]
    BY <1>5, <2>1, SubList
  <2> HIDE DEF got
  <2>3. \A i \in 1..Len(rest) : m + i - 1 = Len(new) + i
    BY <1>3
  <2>4. Len(got) = Len(rest) /\ \A i \in 1..Len(rest) : got[i] = rest[i]
    BY <1>3, <2>1, <2>2, <2>3
  <2>5. got = rest
    BY <1>1, <2>2, <2>4, ListEqual
  <2> QED
    BY <2>5 DEF From, got
<1>7. Before(file', m) = new
  <2>1. m \in 1..Len(file') + 1 /\ m - 1 = Len(new)
    BY <1>3
  <2>2. IsList(Before(file', m)) /\ Len(Before(file', m)) = m - 1 /\ \A i \in 1..m - 1 : Before(file', m)[i] = file'[i]
    BY <1>5, <2>1, BeforeList
  <2> HIDE DEF m
  <2>3. \A i \in 1..Len(new) : Before(file', m)[i] = new[i]
    BY <1>3, <2>1, <2>2
  <2> QED
    BY <1>1, <2>1, <2>2, <2>3, ListEqual
<1> QED
  BY <1>1, <1>2, <1>4, <1>6, <1>7 DEF RestOf, rest

LEMMA RestInit == Init => LastRest
BY DEF Init, LastRest

LEMMA RestStep == ASSUME Inv, LastRest, [Next]_vars PROVE LastRest'
<1>1. CASE Finish
  <2>1. last' = [src |-> file, call |-> call, out |-> file']
    BY <1>1 DEF Finish
  <2>2. last'.src = file /\ last'.call = call /\ last'.out = file'
    BY <2>1
  <2>3. RestOf(file, call, file')
    BY <1>1, FinishRest
  <2> QED
    BY <2>2, <2>3 DEF LastRest
<1>2. CASE ~Finish
  <2>1. last' = last
    BY <1>2 DEF Next, vars, Begin, ScanAlone, ScanSegment, ScanTooMany, GiveUp, ScanStop, PutIn, PutTooLarge, LeaveOut
  <2> QED
    BY <2>1 DEF LastRest
<1> QED
  BY <1>1, <1>2

(* Every variable holds a value of its type.                               *)
THEOREM JPEGTypes == Spec => []TypeOK
<1>1. Inv => TypeOK
  BY TypeIs
<1> QED
  BY <1>1, InvHolds, PTL

(* All that is not metadata, and what the call keeps, is in the output once *)
(* and in the order of the source, and the image data follow unchanged     *)
(* (InjectKeeping, scanSplice, writeSplice).                               *)
THEOREM RestIsCopied == Spec => []RestCopied
<1>1. Inv /\ LastRest /\ [Next]_vars => LastRest'
  BY RestStep
<1>2. Inv /\ LastRest => RestCopied
  BY TypeIs DEF LastRest, RestOf, RestCopied
<1> QED
  BY <1>1, <1>2, InvHolds, RestInit, PTL DEF Spec

-----------------------------------------------------------------------------
(* The order of the output.                                                *)

NoneYet(s) == \A i \in 1..Len(s) : ~IsAPP1(s[i])
Leads(s) == \E q \in 1..Len(s) : s[q].kind = "EXIF" /\ \A i \in 1..q - 1 : ~IsAPP1(s[i])

(* A segment of kind k that is put in.                                     *)
New(s, k) == MetaKind(s) = k /\ ~Stays(call, s)

(* What is put in has before it what stays before its place in the source. *)
PlaceOK(o, left) ==
    \A k \in Meta : \A q \in 1..Len(o) : New(o[q], k) =>
        /\ k \notin left /\ Has(k)
        /\ Staying(call, Before(o, q)) = Staying(call, Before(file, EmitOffset(k)))

(* The leading segments are copied before all else.                        *)
LeadOK(o, at) ==
    call.preserve =>
        IF at < plan.insertAt THEN at = 1 /\ o = <<>>
        ELSE Len(o) >= plan.insertAt - 1 /\ \A i \in 1..plan.insertAt - 1 : o[i] = file[i]

(* No other APP1 goes before the EXIF, new or kept, if none does so in the *)
(* source.                                                                 *)
Ahead == plan.first["EXIF"] # 0 => plan.first["XMP"] = 0 \/ plan.first["EXIF"] < plan.first["XMP"]
EXIFStays == "EXIF" \in call.keep /\ plan.first["EXIF"] # 0
EXIFOK(o, at, left) ==
    Ahead =>
        /\ Has("EXIF") => IF "EXIF" \in left THEN NoneYet(o) ELSE Leads(o)
        /\ EXIFStays => IF at <= plan.first["EXIF"] THEN NoneYet(o) ELSE Leads(o)

OrderOK(o, at, left) == PlaceOK(o, left) /\ LeadOK(o, at) /\ EXIFOK(o, at, left)
OrderInv == put # None => OrderOK(out, cursor, put)

LEMMA IsKinds == ASSUME NEW s PROVE /\ IsAPP1(s) <=> MetaKind(s) \in {"EXIF", "XMP"}
                                    /\ s.kind = "EXIF" <=> MetaKind(s) = "EXIF"
                                    /\ IsLeading(s) => MetaKind(s) = None
<1>1. None \notin {"EXIF", "XMP", "PS"}
  BY IsNoMeta DEF Meta
<1> QED
  BY <1>1 DEF IsAPP1, MetaKind, IsLeading

LEMMA NoneNone ==
    ASSUME NEW s, IsList(s), NEW t, IsList(t), NoneYet(s), NoneYet(t)
    PROVE  NoneYet(s \o t)
<1>1. /\ Len(s \o t) = Len(s) + Len(t) /\ Len(s) \in Nat /\ Len(t) \in Nat
      /\ \A i \in 1..Len(s) : (s \o t)[i] = s[i]
      /\ \A i \in 1..Len(t) : (s \o t)[Len(s) + i] = t[i]
  <2>1. Len(s) \in Nat /\ Len(t) \in Nat
    BY ListDomain
  <2> QED
    BY <2>1, ConcatList
<1>2. ASSUME NEW i \in 1..Len(s \o t) PROVE ~IsAPP1((s \o t)[i])
  <2>1. CASE i <= Len(s)
    BY <2>1, <1>1 DEF NoneYet
  <2>2. CASE ~(i <= Len(s))
    <3>1. i - Len(s) \in 1..Len(t) /\ Len(s) + (i - Len(s)) = i
      BY <2>2, <1>1
    <3> QED
      BY <3>1, <1>1 DEF NoneYet
  <2> QED
    BY <2>1, <2>2
<1> QED
  BY <1>2 DEF NoneYet

LEMMA NoneLeads ==
    ASSUME NEW s, IsList(s), NEW t, IsList(t), NoneYet(s), Leads(t)
    PROVE  Leads(s \o t)
<1>1. /\ Len(s \o t) = Len(s) + Len(t) /\ Len(s) \in Nat /\ Len(t) \in Nat
      /\ \A i \in 1..Len(s) : (s \o t)[i] = s[i]
      /\ \A i \in 1..Len(t) : (s \o t)[Len(s) + i] = t[i]
  <2>1. Len(s) \in Nat /\ Len(t) \in Nat
    BY ListDomain
  <2> QED
    BY <2>1, ConcatList
<1>2. PICK q \in 1..Len(t) : t[q].kind = "EXIF" /\ \A i \in 1..q - 1 : ~IsAPP1(t[i])
  BY DEF Leads
<1>3. Len(s) + q \in 1..Len(s \o t) /\ (s \o t)[Len(s) + q] = t[q]
  BY <1>1
<1>4. ASSUME NEW i \in 1..Len(s) + q - 1 PROVE ~IsAPP1((s \o t)[i])
  <2>1. CASE i <= Len(s)
    BY <2>1, <1>1 DEF NoneYet
  <2>2. CASE ~(i <= Len(s))
    <3>1. i - Len(s) \in 1..q - 1 /\ i - Len(s) \in 1..Len(t) /\ Len(s) + (i - Len(s)) = i
      BY <2>2, <1>1
    <3> QED
      BY <3>1, <1>1, <1>2
  <2> QED
    BY <2>1, <2>2
<1>5. PICK p : p = Len(s) + q
  OBVIOUS
<1>6. p \in 1..Len(s \o t) /\ (s \o t)[p].kind = "EXIF" /\ \A i \in 1..p - 1 : ~IsAPP1((s \o t)[i])
  BY <1>2, <1>3, <1>4, <1>5
<1> QED
  BY <1>6 DEF Leads

LEMMA LeadsMore ==
    ASSUME NEW s, IsList(s), NEW t, IsList(t), Leads(s)
    PROVE  Leads(s \o t)
<1>1. /\ Len(s \o t) = Len(s) + Len(t) /\ Len(s) \in Nat /\ Len(t) \in Nat
      /\ \A i \in 1..Len(s) : (s \o t)[i] = s[i]
  <2>1. Len(s) \in Nat /\ Len(t) \in Nat
    BY ListDomain
  <2> QED
    BY <2>1, ConcatList
<1>2. PICK q \in 1..Len(s) : s[q].kind = "EXIF" /\ \A i \in 1..q - 1 : ~IsAPP1(s[i])
  BY DEF Leads
<1>3. q \in 1..Len(s \o t) /\ \A i \in 1..q - 1 : i \in 1..Len(s)
  BY <1>1
<1> QED
  BY <1>1, <1>2, <1>3 DEF Leads

(* The leading segments come before all metadata, and an EXIF that is ahead *)
(* in the source is ahead of what is put in.                               *)
LEMMA AfterLeading ==
    ASSUME Inv, put # None
    PROVE  /\ plan.insertAt \in Nat /\ plan.insertAt \in 1..plan.tail
           /\ \A k \in Meta : /\ plan.first[k] \in 0..plan.tail - 1 /\ plan.dropAt[k] \in 0..plan.tail - 1
                              /\ plan.first[k] # 0 => plan.insertAt <= plan.first[k] /\ MetaKind(file[plan.first[k]]) = k
                              /\ plan.dropAt[k] # 0 => plan.first[k] # 0 /\ plan.first[k] <= plan.dropAt[k]
                              /\ plan.insertAt <= EmitOffset(k)
           /\ \A i \in 1..plan.insertAt - 1 : IsLeading(file[i])
           /\ \A i \in 1..plan.tail - 1 : \A k \in Meta : MetaKind(file[i]) = k => plan.first[k] # 0 /\ plan.first[k] <= i
<1>1. /\ Len(file) \in Nat /\ plan.tail \in Nat /\ plan.tail \in 1..Len(file) + 1
      /\ plan.tail - 1 \in Nat /\ plan.tail - 1 + 1 = plan.tail
  BY WriteAt
<1>2. PlanTo(plan, file, Dropped, plan.tail - 1)
  BY DEF Inv, WriteInv
<1>3. plan.insertAt \in Nat /\ plan.insertAt \in 1..plan.tail /\ \A i \in 1..plan.insertAt - 1 : IsLeading(file[i])
  BY <1>1, <1>2 DEF PlanTo
<1>4. ASSUME NEW k \in Meta
      PROVE  /\ Marks(plan.first[k], Of(file, k, plan.tail - 1))
             /\ Marks(plan.dropAt[k], Of(file, k, plan.tail - 1) \intersect Dropped)
  BY <1>2 DEF PlanTo
<1>5. ASSUME NEW k \in Meta, NEW i \in 1..plan.tail - 1, MetaKind(file[i]) = k
      PROVE  plan.first[k] # 0 /\ plan.first[k] <= i /\ plan.insertAt <= i
  <2>1. i \in Of(file, k, plan.tail - 1)
    BY <1>5 DEF Of
  <2>2. plan.first[k] \in Of(file, k, plan.tail - 1) /\ plan.first[k] <= i
    BY <1>4, <2>1 DEF Marks
  <2>3. plan.first[k] # 0
    BY <2>2 DEF Of
  <2>4. ~(i < plan.insertAt)
    <3>1. ~IsLeading(file[i])
      BY <1>5, IsKinds, IsNoMeta
    <3> QED
      BY <1>3, <3>1
  <2> QED
    BY <1>1, <1>3, <2>2, <2>3, <2>4
<1>6. ASSUME NEW k \in Meta
      PROVE  /\ plan.first[k] \in 0..plan.tail - 1
             /\ plan.first[k] # 0 => MetaKind(file[plan.first[k]]) = k /\ plan.insertAt <= plan.first[k]
  <2>1. plan.first[k] = 0 \/ plan.first[k] \in Of(file, k, plan.tail - 1)
    BY <1>4 DEF Marks
  <2>2. CASE plan.first[k] = 0
    BY <1>1, <2>2
  <2>3. CASE plan.first[k] \in Of(file, k, plan.tail - 1)
    <3>1. plan.first[k] \in 1..plan.tail - 1 /\ MetaKind(file[plan.first[k]]) = k
      BY <2>3 DEF Of
    <3> QED
      BY <1>1, <1>5, <3>1
  <2> QED
    BY <2>1, <2>2, <2>3
<1>7. ASSUME NEW k \in Meta
      PROVE  /\ plan.dropAt[k] \in 0..plan.tail - 1
             /\ plan.dropAt[k] # 0 => plan.first[k] # 0 /\ plan.first[k] <= plan.dropAt[k] /\ plan.insertAt <= plan.dropAt[k]
  <2>1. plan.dropAt[k] = 0 \/ plan.dropAt[k] \in Of(file, k, plan.tail - 1)
    BY <1>4 DEF Marks
  <2>2. CASE plan.dropAt[k] = 0
    BY <1>1, <2>2
  <2>3. CASE plan.dropAt[k] \in Of(file, k, plan.tail - 1)
    <3>1. plan.dropAt[k] \in 1..plan.tail - 1 /\ MetaKind(file[plan.dropAt[k]]) = k
      BY <2>3 DEF Of
    <3> QED
      BY <1>1, <1>5, <3>1
  <2> QED
    BY <2>1, <2>2, <2>3
<1>8. ASSUME NEW k \in Meta PROVE plan.insertAt <= EmitOffset(k)
  <2>1. "EXIF" \in Meta /\ "XMP" \in Meta
    BY DEF Meta
  <2>2. plan.insertAt <= After(k)
    BY <1>1, <1>3, <1>6, <2>1 DEF After
  <2> QED
    BY <1>7, <2>2 DEF EmitOffset
<1> QED
  BY <1>3, <1>5, <1>6, <1>7, <1>8

LEMMA XMPBehind ==
    ASSUME Inv, put # None, Ahead
    PROVE  /\ Has("EXIF") => /\ EmitOffset("EXIF") <= EmitOffset("XMP")
                             /\ \A i \in 1..EmitOffset("EXIF") - 1 : ~IsAPP1(file[i])
           /\ EXIFStays => /\ plan.first["EXIF"] < EmitOffset("XMP") /\ plan.first["EXIF"] \in 1..plan.tail - 1
                           /\ file[plan.first["EXIF"]].kind = "EXIF" /\ plan.first["EXIF"] \notin Dropped
                           /\ \A i \in 1..plan.first["EXIF"] - 1 : ~IsAPP1(file[i])
<1>m. "EXIF" \in Meta /\ "XMP" \in Meta
  BY DEF Meta
<1> DEFINE e == plan.first["EXIF"]
           x == plan.first["XMP"]
<1>1. /\ call # None /\ plan.tail \in Nat /\ plan.tail - 1 \in Nat /\ plan.tail \in 1..Len(file) + 1 /\ Len(file) \in Nat
      /\ \A i \in 1..plan.tail - 1 : i \in Dropped <=> ~Stays(call, file[i])
  BY WriteAt
<1>2. /\ plan.insertAt \in 1..plan.tail /\ plan.insertAt \in Nat /\ e \in 0..plan.tail - 1 /\ x \in 0..plan.tail - 1
      /\ plan.dropAt["EXIF"] \in 0..plan.tail - 1 /\ plan.dropAt["XMP"] \in 0..plan.tail - 1
      /\ e # 0 => plan.insertAt <= e /\ MetaKind(file[e]) = "EXIF"
      /\ x # 0 => plan.insertAt <= x
      /\ plan.dropAt["EXIF"] # 0 => e # 0 /\ e <= plan.dropAt["EXIF"]
      /\ plan.dropAt["XMP"] # 0 => x # 0 /\ x <= plan.dropAt["XMP"]
      /\ plan.insertAt <= EmitOffset("XMP")
      /\ \A i \in 1..plan.tail - 1 : /\ MetaKind(file[i]) = "EXIF" => e # 0 /\ e <= i
                                     /\ MetaKind(file[i]) = "XMP" => x # 0 /\ x <= i
  BY <1>m, AfterLeading
<1>3. EmitOffset("XMP") = IF plan.dropAt["XMP"] # 0 THEN plan.dropAt["XMP"]
                          ELSE IF e # 0 THEN e + 1 ELSE plan.insertAt
  BY DEF EmitOffset, After
<1>4. EmitOffset("EXIF") = IF plan.dropAt["EXIF"] # 0 THEN plan.dropAt["EXIF"] ELSE plan.insertAt
  BY DEF EmitOffset, After
<1>5. e # 0 => x = 0 \/ e < x
  BY DEF Ahead
<1> HIDE DEF e, x
<1>6. e # 0 => e < EmitOffset("XMP")
  BY <1>2, <1>3, <1>5
<1>7. ASSUME NEW i \in 1..plan.tail - 1, IF e # 0 THEN i < e ELSE i < plan.insertAt PROVE ~IsAPP1(file[i])
  <2>1. CASE e # 0
    <3>1. MetaKind(file[i]) # "EXIF" /\ MetaKind(file[i]) # "XMP"
      BY <1>2, <1>5, <1>7, <2>1
    <3> QED
      BY <3>1, IsKinds
  <2>2. CASE e = 0
    <3>1. IsLeading(file[i])
      <4>1. i \in 1..plan.insertAt - 1
        BY <1>2, <1>7, <2>2
      <4> QED
        BY <4>1, AfterLeading
    <3> QED
      BY <3>1, IsKinds, <1>m, IsNoMeta
  <2> QED
    BY <2>1, <2>2
<1>8. ASSUME Has("EXIF")
      PROVE  /\ EmitOffset("EXIF") <= EmitOffset("XMP")
             /\ \A i \in 1..EmitOffset("EXIF") - 1 : ~IsAPP1(file[i])
  <2>1. "EXIF" \notin call.keep
    BY <1>1, <1>m, <1>8, BlockIs DEF Inv
  <2>2. e # 0 => EmitOffset("EXIF") = e
    <3> SUFFICES ASSUME e # 0 PROVE EmitOffset("EXIF") = e
      OBVIOUS
    <3>1. e \in 1..plan.tail - 1 /\ MetaKind(file[e]) = "EXIF" /\ file[e].kind = "EXIF"
      BY <1>2, IsKinds
    <3>2. ~Stays(call, file[e])
      BY <2>1, <3>1, <1>m, IsNoMeta DEF Stays, IsChunkOf
    <3>3. e \in Of(file, "EXIF", plan.tail - 1) \intersect Dropped
      BY <1>1, <3>1, <3>2 DEF Of
    <3>4. Marks(plan.dropAt["EXIF"], Of(file, "EXIF", plan.tail - 1) \intersect Dropped)
      BY <1>m DEF Inv, WriteInv, PlanTo
    <3>5. plan.dropAt["EXIF"] <= e /\ plan.dropAt["EXIF"] # 0
      <4>1. plan.dropAt["EXIF"] \in Of(file, "EXIF", plan.tail - 1) /\ plan.dropAt["EXIF"] <= e
        BY <3>3, <3>4 DEF Marks
      <4> QED
        BY <4>1 DEF Of
    <3> QED
      BY <1>2, <1>4, <3>5
  <2>3. e = 0 => EmitOffset("EXIF") = plan.insertAt
    BY <1>2, <1>4
  <2>4. EmitOffset("EXIF") <= EmitOffset("XMP")
    BY <1>2, <1>3, <1>6, <2>2, <2>3
  <2>5. ASSUME NEW i \in 1..EmitOffset("EXIF") - 1 PROVE ~IsAPP1(file[i])
    <3>1. i \in 1..plan.tail - 1 /\ IF e # 0 THEN i < e ELSE i < plan.insertAt
      BY <1>1, <1>2, <2>2, <2>3
    <3> QED
      BY <3>1, <1>7
  <2> QED
    BY <2>4, <2>5
<1>9. ASSUME EXIFStays
      PROVE  /\ e < EmitOffset("XMP") /\ e \in 1..plan.tail - 1
             /\ file[e].kind = "EXIF" /\ e \notin Dropped
             /\ \A i \in 1..e - 1 : ~IsAPP1(file[i])
  <2>1. e # 0 /\ "EXIF" \in call.keep
    BY <1>9 DEF EXIFStays, e
  <2>2. e \in 1..plan.tail - 1 /\ MetaKind(file[e]) = "EXIF" /\ file[e].kind = "EXIF"
    BY <1>2, <2>1, IsKinds
  <2>3. e \notin Dropped
    BY <1>1, <2>1, <2>2 DEF Stays
  <2>4. \A i \in 1..e - 1 : i \in 1..plan.tail - 1 /\ i < e
    BY <1>1, <2>2
  <2> QED
    BY <1>6, <1>7, <2>1, <2>2, <2>3, <2>4
<1> QED
  BY <1>8, <1>9 DEF e

(* What is dropped makes no difference to what stays.                      *)
LEMMA SkipSame ==
    ASSUME Inv, put # None, NEW b \in 1..plan.tail, NEW a \in 1..b, \A i \in a..b - 1 : i \in Dropped
    PROVE  Staying(call, Before(file, b)) = Staying(call, Before(file, a))
<1> DEFINE part == SubSeq(file, a, b - 1)
<1>0. /\ IsList(file) /\ Len(file) \in Nat /\ plan.tail \in Nat /\ plan.tail \in 1..Len(file) + 1
      /\ \A i \in 1..plan.tail - 1 : i \in Dropped <=> ~Stays(call, file[i])
  BY WriteAt
<1>1. b \in 1..Len(file) + 1 /\ a \in 1..Len(file) + 1 /\ a \in Nat /\ b \in Nat
  BY <1>0
<1>2. /\ IsList(part) /\ Len(part) = b - a /\ \A i \in 1..b - a : part[i] = file[a + i - 1]
      /\ Before(file, a) \o part = Before(file, b)
  BY <1>0, <1>1, BeforeJoin
<1>3. IsList(Before(file, a))
  BY <1>0, <1>1, BeforeList
<1>4. \A i \in 1..b - a : a + i - 1 \in a..b - 1 /\ a + i - 1 \in 1..plan.tail - 1
  BY <1>0, <1>1
<1> HIDE DEF part
<1>5. \A i \in 1..Len(part) : ~Stays(call, part[i])
  BY <1>0, <1>2, <1>4
<1>6. Staying(call, Before(file, a) \o part) = Staying(call, Before(file, a))
  <2>1. IsList(part)
    BY <1>2
  <2> QED
    BY <1>3, <1>5, <2>1, StayingMore
<1> QED
  BY <1>2, <1>6

LEMMA CopyPart ==
    ASSUME Inv, put # None, NEW n \in 1..plan.tail, \A i \in cursor..n - 1 : i \notin Dropped
    PROVE  \E part : /\ IsList(part) /\ Copied(n) = out \o part
                     /\ Len(part) = IF cursor <= n THEN n - cursor ELSE 0
                     /\ \A i \in 1..Len(part) : /\ part[i] = file[cursor + i - 1] /\ Stays(call, part[i])
                                                /\ cursor + i - 1 \in cursor..n - 1
<1> DEFINE part == SubSeq(file, cursor, n - 1)
<1>1. /\ IsList(file) /\ Len(file) \in Nat /\ plan.tail \in Nat /\ plan.tail \in 1..Len(file) + 1
      /\ \A i \in 1..plan.tail - 1 : i \in Dropped <=> ~Stays(call, file[i])
      /\ cursor \in Nat /\ cursor \in 1..plan.tail
  BY WriteAt
<1>2. n \in Nat /\ n \in 1..Len(file) + 1 /\ cursor \in 1..Len(file) + 1
  BY <1>1
<1>3. Copied(n) = out \o part
  BY DEF Copied
<1>4. CASE cursor <= n
  <2>1. IsList(part) /\ Len(part) = n - cursor /\ \A i \in 1..n - cursor : part[i] = file[cursor + i - 1]
    <3>1. cursor \in 1..n
      BY <1>1, <1>2, <1>4
    <3> QED
      BY <1>1, <1>2, <3>1, BeforeJoin
  <2>2. \A i \in 1..n - cursor : cursor + i - 1 \in cursor..n - 1 /\ cursor + i - 1 \in 1..plan.tail - 1
    BY <1>1, <1>2
  <2> HIDE DEF part
  <2>3. \A i \in 1..Len(part) : Stays(call, part[i])
    BY <1>1, <2>1, <2>2
  <2> QED
    BY <1>3, <1>4, <2>1, <2>2, <2>3
<1>5. CASE ~(cursor <= n)
  <2>1. part = <<>>
    <3>1. cursor > n - 1 /\ n - 1 \in Int
      BY <1>1, <1>2, <1>5
    <3> QED
      BY <1>1, <3>1, SubSeqEmpty
  <2> HIDE DEF part
  <2>2. IsList(part) /\ Len(part) = 0
    BY <2>1, EmptyList
  <2>3. \A i \in 1..Len(part) : FALSE
    BY <2>2
  <2> QED
    BY <1>3, <1>5, <2>2, <2>3
<1> QED
  BY <1>4, <1>5

LEMMA CopyOrder ==
    ASSUME Inv, OrderInv, put # None, NEW n \in 1..plan.tail, \A i \in cursor..n - 1 : i \notin Dropped,
           call.preserve => plan.insertAt <= n, \A k \in put : n <= EmitOffset(k)
    PROVE  OrderOK(Copied(n), IF cursor <= n THEN n ELSE cursor, put)
<1>n. PICK new : new = Copied(n)
  OBVIOUS
<1>m. PICK m : m = IF cursor <= n THEN n ELSE cursor
  OBVIOUS
<1>1. PICK part : /\ IsList(part) /\ new = out \o part
                  /\ Len(part) = IF cursor <= n THEN n - cursor ELSE 0
                  /\ \A i \in 1..Len(part) : /\ part[i] = file[cursor + i - 1] /\ Stays(call, part[i])
                                             /\ cursor + i - 1 \in cursor..n - 1
  BY <1>n, CopyPart
<1>2. /\ plan.tail \in Nat /\ cursor \in Nat /\ cursor \in 1..plan.tail /\ n \in Nat /\ m \in Nat
      /\ IsList(out) /\ Len(out) \in Nat /\ Len(part) \in Nat
  <2>1. IsList(out)
    BY DEF Inv, CopyInv
  <2> QED
    BY <1>1, <1>m, <2>1, WriteAt, ListDomain
<1>3. /\ IsList(new) /\ Len(new) = Len(out) + Len(part)
      /\ \A i \in 1..Len(out) : new[i] = out[i]
      /\ \A i \in 1..Len(part) : new[Len(out) + i] = part[i]
  <2>1. IsList(out) /\ IsList(part)
    BY <1>1, <1>2
  <2>2. /\ IsList(out \o part) /\ Len(out \o part) = Len(out) + Len(part)
        /\ \A i \in 1..Len(out) : (out \o part)[i] = out[i]
        /\ \A i \in 1..Len(part) : (out \o part)[Len(out) + i] = part[i]
    BY <2>1, ConcatList
  <2>3. new = out \o part
    BY <1>1
  <2> QED
    BY <2>2, <2>3
<1>4. PlaceOK(out, put) /\ LeadOK(out, cursor) /\ EXIFOK(out, cursor, put)
  BY DEF OrderInv, OrderOK
<1>5. PlaceOK(new, put)
  <2>1. ASSUME NEW k \in Meta, NEW q \in 1..Len(new), New(new[q], k)
        PROVE  /\ k \notin put /\ Has(k)
               /\ Staying(call, Before(new, q)) = Staying(call, Before(file, EmitOffset(k)))
    <3>1. CASE q <= Len(out)
      <4>1. q \in 1..Len(out) /\ new[q] = out[q] /\ q \in 1..Len(out) + 1
        BY <3>1, <1>2, <1>3
      <4>2. Before(out \o part, q) = Before(out, q)
        <5>1. 0 \in 0..Len(part)
          BY <1>2
        <5>2. IsList(out) /\ IsList(part)
          BY <1>1, <1>2
        <5> QED
          BY <4>1, <5>1, <5>2, BeforeConcat
      <4> QED
        BY <1>1, <1>4, <2>1, <4>1, <4>2 DEF PlaceOK
    <3>2. CASE ~(q <= Len(out))
      <4>1. q - Len(out) \in 1..Len(part) /\ Len(out) + (q - Len(out)) = q
        BY <3>2, <1>2, <1>3
      <4>2. Stays(call, new[q])
        BY <4>1, <1>1, <1>3
      <4> QED
        BY <2>1, <4>2 DEF New
    <3> QED
      BY <3>1, <3>2
  <2> QED
    BY <2>1 DEF PlaceOK
<1>6. LeadOK(new, m)
  <2>1. SUFFICES ASSUME call.preserve
                 PROVE  IF m < plan.insertAt THEN m = 1 /\ new = <<>>
                        ELSE Len(new) >= plan.insertAt - 1 /\ \A i \in 1..plan.insertAt - 1 : new[i] = file[i]
    BY DEF LeadOK
  <2>2. plan.insertAt \in Nat /\ plan.insertAt <= n /\ plan.insertAt \in 1..plan.tail
    BY <2>1, AfterLeading
  <2>3. ~(m < plan.insertAt)
    BY <1>2, <1>m, <2>2
  <2>4. CASE cursor < plan.insertAt
    <3>1. cursor = 1 /\ out = <<>>
      BY <1>4, <2>1, <2>4 DEF LeadOK
    <3>2. new = part /\ Len(part) = n - 1
      BY <1>1, <1>2, <3>1, ConcatEmpty
    <3>3. \A i \in 1..plan.insertAt - 1 : i \in 1..Len(part) /\ cursor + i - 1 = i
      BY <1>2, <2>2, <3>1, <3>2
    <3>4. \A i \in 1..plan.insertAt - 1 : new[i] = file[i]
      BY <1>1, <3>2, <3>3
    <3> QED
      BY <1>2, <2>2, <2>3, <3>2, <3>4
  <2>5. CASE ~(cursor < plan.insertAt)
    <3>1. Len(out) >= plan.insertAt - 1 /\ \A i \in 1..plan.insertAt - 1 : out[i] = file[i]
      BY <1>4, <2>1, <2>5 DEF LeadOK
    <3>2. \A i \in 1..plan.insertAt - 1 : i \in 1..Len(out)
      BY <1>2, <2>2, <3>1
    <3>3. \A i \in 1..plan.insertAt - 1 : new[i] = file[i]
      BY <1>3, <3>1, <3>2
    <3> QED
      BY <1>2, <1>3, <2>2, <2>3, <3>1, <3>3
  <2> QED
    BY <2>4, <2>5
<1>7. EXIFOK(new, m, put)
  <2>1. SUFFICES ASSUME Ahead
                 PROVE  /\ Has("EXIF") => IF "EXIF" \in put THEN NoneYet(new) ELSE Leads(new)
                        /\ EXIFStays => IF m <= plan.first["EXIF"] THEN NoneYet(new) ELSE Leads(new)
    BY DEF EXIFOK
  <2>2. /\ Has("EXIF") => IF "EXIF" \in put THEN NoneYet(out) ELSE Leads(out)
        /\ EXIFStays => IF cursor <= plan.first["EXIF"] THEN NoneYet(out) ELSE Leads(out)
    BY <1>4, <2>1 DEF EXIFOK
  <2>3. ASSUME NEW e \in Nat, n <= e, \A i \in 1..e - 1 : ~IsAPP1(file[i]) PROVE NoneYet(part)
    <3>1. ASSUME NEW i \in 1..Len(part) PROVE ~IsAPP1(part[i])
      <4>1. cursor + i - 1 \in 1..e - 1
        BY <1>1, <1>2, <2>3
      <4> QED
        BY <1>1, <2>3, <4>1
    <3> QED
      BY <3>1 DEF NoneYet
  <2>l. Leads(out) => Leads(new)
    BY <1>1, <1>2, LeadsMore
  <2>n. NoneYet(out) /\ NoneYet(part) => NoneYet(new)
    BY <1>1, <1>2, NoneNone
  <2>4. ASSUME Has("EXIF") PROVE IF "EXIF" \in put THEN NoneYet(new) ELSE Leads(new)
    <3>1. CASE "EXIF" \in put
      <4>1. n <= EmitOffset("EXIF") /\ EmitOffset("EXIF") \in Nat
        BY <3>1, WriteAt
      <4>2. \A i \in 1..EmitOffset("EXIF") - 1 : ~IsAPP1(file[i])
        BY <2>1, <2>4, XMPBehind
      <4>3. NoneYet(part)
        BY <2>3, <4>1, <4>2
      <4> QED
        BY <2>2, <2>4, <2>n, <3>1, <4>3
    <3>2. CASE "EXIF" \notin put
      BY <2>2, <2>4, <2>l, <3>2
    <3> QED
      BY <3>1, <3>2
  <2>5. ASSUME EXIFStays PROVE IF m <= plan.first["EXIF"] THEN NoneYet(new) ELSE Leads(new)
    <3>e. PICK e : e = plan.first["EXIF"]
      OBVIOUS
    <3>1. /\ e \in 1..plan.tail - 1 /\ file[e].kind = "EXIF" /\ e \in Nat
          /\ \A i \in 1..e - 1 : ~IsAPP1(file[i])
      BY <1>2, <2>1, <2>5, <3>e, XMPBehind
    <3>2. CASE m <= e
      <4>1. cursor <= e /\ n <= e
        BY <1>2, <1>m, <3>1, <3>2
      <4>2. NoneYet(part)
        BY <2>3, <3>1, <4>1
      <4> QED
        BY <2>2, <2>5, <2>n, <3>2, <3>e, <4>1, <4>2
    <3>3. CASE ~(m <= e) /\ ~(cursor <= e)
      BY <2>2, <2>5, <2>l, <3>3, <3>e
    <3>4. CASE ~(m <= e) /\ cursor <= e
      <4>1. cursor <= n /\ e < n /\ e - cursor + 1 \in 1..Len(part) /\ cursor + (e - cursor + 1) - 1 = e
        BY <1>1, <1>2, <1>m, <3>1, <3>4
      <4>q. PICK q : q = e - cursor + 1
        OBVIOUS
      <4>2. part[q].kind = "EXIF" /\ q \in 1..Len(part)
        BY <1>1, <3>1, <4>1, <4>q
      <4>3. ASSUME NEW i \in 1..q - 1 PROVE ~IsAPP1(part[i])
        <5>1. i \in 1..Len(part) /\ cursor + i - 1 \in 1..e - 1
          BY <1>2, <3>1, <4>1, <4>q
        <5> QED
          BY <1>1, <3>1, <5>1
      <4>4. Leads(part)
        BY <4>2, <4>3 DEF Leads
      <4>5. NoneYet(out)
        BY <2>2, <2>5, <3>4, <3>e
      <4>6. Leads(new)
        BY <1>1, <1>2, <4>4, <4>5, NoneLeads
      <4> QED
        BY <3>4, <3>e, <4>6
    <3> QED
      BY <3>2, <3>3, <3>4, <3>e
  <2> QED
    BY <2>4, <2>5
<1> QED
  BY <1>5, <1>6, <1>7, <1>m, <1>n DEF OrderOK

(* Before the first run that is left nothing is dropped.                   *)
LEMMA NoDropBefore ==
    ASSUME Inv, put # None, NEW n \in 1..plan.tail, plan.drops # <<>> => n <= Head(plan.drops).from
    PROVE  \A i \in cursor..n - 1 : i \notin Dropped
<1> DEFINE ds == plan.drops
<1>1. /\ plan.tail \in Nat /\ cursor \in Nat /\ cursor \in 1..plan.tail /\ n \in Nat
  BY WriteAt
<1>2. /\ IsList(ds) /\ \A d \in 1..Len(ds) : IsRun(ds[d], cursor, plan.tail)
      /\ \A d, e \in 1..Len(ds) : d < e => ds[d].to < ds[e].from
      /\ \A i \in cursor..plan.tail - 1 : i \in Dropped <=> In(ds, i)
  BY DEF Inv, WriteInv, RunsOK
<1> HIDE DEF ds
<1>3. ASSUME NEW d \in 1..Len(ds) PROVE n <= ds[d].from /\ ds[d].from \in Int
  <2>1. Len(ds) \in Nat /\ Len(ds) >= 1 /\ 1 \in 1..Len(ds)
    BY <1>2, ListDomain
  <2>2. ds # <<>>
    BY <2>1, EmptyList
  <2>3. Head(ds) = ds[1]
    BY <1>2, <2>2, TailList
  <2>4. \A e \in 1..Len(ds) : ds[e].from \in Int /\ ds[e].to \in Int /\ ds[e].from < ds[e].to
    BY <1>1, <1>2, RunIs
  <2>5. n <= ds[1].from
    BY <2>2, <2>3 DEF ds
  <2>6. CASE d = 1
    BY <2>4, <2>5, <2>6
  <2>7. CASE d # 1
    <3>1. 1 < d
      BY <2>1, <2>7
    <3>2. ds[1].to < ds[d].from
      BY <1>2, <2>1, <3>1
    <3> QED
      BY <1>1, <2>1, <2>4, <2>5, <3>2
  <2> QED
    BY <2>6, <2>7
<1>4. ASSUME NEW i \in cursor..n - 1 PROVE i \notin Dropped
  <2>1. i \in cursor..plan.tail - 1 /\ i < n /\ i \in Int
    BY <1>1
  <2>2. ~In(ds, i)
    BY <1>1, <1>3, <2>1 DEF In
  <2> QED
    BY <1>2, <2>1, <2>2
<1> QED
  BY <1>4

LEMMA OrderFrame ==
    ASSUME UNCHANGED <<file, call, pl>>, plan'.first = plan.first, plan'.dropAt = plan.dropAt,
           plan'.insertAt = plan.insertAt
    PROVE  OrderOK(out, cursor, put)' <=> OrderOK(out', cursor', put')
<1>1. \A k : EmitOffset(k)' = EmitOffset(k) /\ (Has(k)' <=> Has(k))
  BY SameEmit DEF Has
<1>2. PlaceOK(out, put)' <=> PlaceOK(out', put')
  BY <1>1 DEF PlaceOK, New
<1>3. LeadOK(out, cursor)' <=> LeadOK(out', cursor')
  BY DEF LeadOK
<1>4. EXIFOK(out, cursor, put)' <=> EXIFOK(out', cursor', put')
  <2>1. (Ahead' <=> Ahead) /\ (EXIFStays' <=> EXIFStays)
    BY DEF Ahead, EXIFStays
  <2> QED
    BY <1>1, <2>1 DEF EXIFOK
<1> QED
  BY <1>2, <1>3, <1>4 DEF OrderOK

LEMMA PutInOrder == ASSUME Inv, OrderInv, PutIn PROVE OrderInv'
<1>k. PICK k : k = Soonest
  OBVIOUS
<1>n. PICK n : n = EmitOffset(k)
  OBVIOUS
<1>m. PICK m : m = IF cursor <= n THEN n ELSE cursor
  OBVIOUS
<1>w. PICK new : new = Copied(n)
  OBVIOUS
<1>1. /\ put # None /\ put # {} /\ (plan.drops # <<>> => n <= Head(plan.drops).from)
      /\ UNCHANGED <<file, call, pl, plan, scan>> /\ put' = put \ {k}
      /\ out' = new \o Block(k) /\ cursor' = Max({cursor, n})
  BY <1>k, <1>n, <1>w DEF PutIn, Writing, PutIsNext
<1>2. /\ call # None /\ plan.tail \in Nat /\ cursor \in Nat /\ cursor \in 1..plan.tail
      /\ Len(file) \in Nat /\ plan.tail \in 1..Len(file) + 1 /\ IsList(file)
      /\ \A j \in put : j \in Meta /\ Has(j) /\ EmitOffset(j) \in Nat /\ EmitOffset(j) \in 1..plan.tail
  BY <1>1, WriteAt
<1>3. /\ k \in put /\ k \in Meta /\ Has(k) /\ n \in 1..plan.tail /\ n \in Nat
      /\ \A j \in put \ {k} : Sooner(k, j) /\ n <= EmitOffset(j)
  <2>1. put \subseteq Meta /\ \A j \in put : EmitOffset(j) \in Nat
    BY <1>2
  <2> QED
    BY <1>1, <1>2, <1>k, <1>n, <2>1, SoonestIs
<1>4. cursor' = m /\ m \in 1..plan.tail /\ m \in Nat /\ n <= m
  <2>1. Max({cursor, n}) = m
    BY <1>2, <1>3, <1>m, MaxTwo
  <2> QED
    BY <1>1, <1>2, <1>3, <1>m, <2>1
<1>5. \A i \in cursor..n - 1 : i \notin Dropped
  BY <1>1, <1>2, <1>3, NoDropBefore
<1>6. plan.insertAt <= n /\ plan.insertAt \in Nat
  BY <1>1, <1>3, <1>n, AfterLeading
<1>7. PlaceOK(new, put) /\ LeadOK(new, m) /\ EXIFOK(new, m, put)
  <2>1. \A j \in put : n <= EmitOffset(j)
    BY <1>3, <1>n
  <2> QED
    BY <1>1, <1>3, <1>5, <1>6, <1>m, <1>w, <2>1, CopyOrder DEF OrderOK
<1>8. IsList(new) /\ Len(new) \in Nat /\ Staying(call, new) = Staying(call, Before(file, m))
  <2>1. IsList(new) /\ Staying(call, new) = Staying(call, Before(file, m))
    BY <1>1, <1>3, <1>m, <1>w, CopiedIs
  <2> QED
    BY <2>1, ListDomain
<1>9. Staying(call, new) = Staying(call, Before(file, n))
  <2>1. ASSUME NEW i \in n..m - 1 PROVE i \in Dropped
    <3>1. \A j \in EmitOffset(k)..cursor - 1 : j \in Dropped
      BY <1>1, <1>3 DEF Inv, WriteInv
    <3>2. i \in n..cursor - 1
      BY <1>2, <1>3, <1>m
    <3> QED
      BY <1>n, <3>1, <3>2
  <2>2. n \in 1..m
    BY <1>3, <1>4
  <2> QED
    BY <1>1, <1>4, <1>8, <2>1, <2>2, SkipSame
<1>b. PICK b : b = Block(k)
  OBVIOUS
<1>10. /\ IsList(b) /\ Len(b) \in Nat /\ k \notin call.keep
       /\ \A i \in 1..Len(b) : MetaKind(b[i]) = k /\ ~Stays(call, b[i])
  <2>1. /\ IsList(b) /\ k \notin call.keep
        /\ \A i \in 1..Len(b) : MetaKind(b[i]) = k /\ ~Stays(call, b[i])
    BY <1>2, <1>3, <1>b, BlockIs DEF Inv
  <2> QED
    BY <2>1, ListDomain
<1>11. /\ Len(new \o b) = Len(new) + Len(b)
       /\ \A i \in 1..Len(new) : (new \o b)[i] = new[i]
       /\ \A i \in 1..Len(b) : (new \o b)[Len(new) + i] = b[i]
  <2>1. IsList(new) /\ IsList(b)
    BY <1>8, <1>10
  <2> QED
    BY <2>1, ConcatList
<1>12. PlaceOK(new \o b, put \ {k})
  <2>1. ASSUME NEW j \in Meta, NEW q \in 1..Len(new \o b), New((new \o b)[q], j)
        PROVE  /\ j \notin put \ {k} /\ Has(j)
               /\ Staying(call, Before(new \o b, q)) = Staying(call, Before(file, EmitOffset(j)))
    <3>1. CASE q <= Len(new)
      <4>1. q \in 1..Len(new) /\ (new \o b)[q] = new[q] /\ q \in 1..Len(new) + 1
        BY <3>1, <1>8, <1>11
      <4>2. Before(new \o b, q) = Before(new, q)
        <5>1. 0 \in 0..Len(b)
          BY <1>10
        <5>2. IsList(new) /\ IsList(b)
          BY <1>8, <1>10
        <5> QED
          BY <4>1, <5>1, <5>2, BeforeConcat
      <4> QED
        BY <1>7, <2>1, <4>1, <4>2 DEF PlaceOK
    <3>2. CASE ~(q <= Len(new))
      <4>r. PICK r : r = q - Len(new) - 1
        OBVIOUS
      <4>1. /\ r + 1 \in 1..Len(b) /\ r \in 0..Len(b) /\ Len(new) + (r + 1) = q /\ Len(new) + r + 1 = q
            /\ r + 1 \in 1..Len(b) + 1 /\ r \in Nat /\ r + 1 - 1 = r
        BY <3>2, <4>r, <1>8, <1>10, <1>11
      <4>2. (new \o b)[q] = b[r + 1]
        BY <1>11, <4>1
      <4>3. j = k
        BY <1>10, <2>1, <4>1, <4>2 DEF New
      <4>4. Before(new \o b, q) = new \o Before(b, r + 1)
        <5>1. IsList(new) /\ IsList(b) /\ r \in 0..Len(b)
          BY <1>8, <1>10, <4>1
        <5>2. Before(new \o b, Len(new) + r + 1) = new \o Before(b, r + 1)
          BY <5>1, BeforeConcat
        <5> QED
          BY <4>1, <5>2
      <4>5. /\ IsList(Before(b, r + 1)) /\ Len(Before(b, r + 1)) = r
            /\ \A i \in 1..r : Before(b, r + 1)[i] = b[i] /\ i \in 1..Len(b)
        <5>1. /\ IsList(Before(b, r + 1)) /\ Len(Before(b, r + 1)) = r + 1 - 1
              /\ \A i \in 1..r + 1 - 1 : Before(b, r + 1)[i] = b[i]
          BY <1>10, <4>1, BeforeList
        <5> QED
          BY <4>1, <5>1
      <4>6. \A i \in 1..Len(Before(b, r + 1)) : ~Stays(call, Before(b, r + 1)[i])
        BY <1>10, <4>5
      <4>7. Staying(call, new \o Before(b, r + 1)) = Staying(call, new)
        <5>1. IsList(Before(b, r + 1)) /\ IsList(new)
          BY <1>8, <4>5
        <5> QED
          BY <4>6, <5>1, StayingMore
      <4> QED
        BY <1>3, <1>9, <1>n, <4>3, <4>4, <4>7
    <3> QED
      BY <3>1, <3>2
  <2> QED
    BY <2>1 DEF PlaceOK
<1>13. LeadOK(new \o b, m)
  <2>1. ~(m < plan.insertAt)
    BY <1>3, <1>4, <1>6
  <2>2. ASSUME call.preserve
        PROVE  Len(new \o b) >= plan.insertAt - 1 /\ \A i \in 1..plan.insertAt - 1 : (new \o b)[i] = file[i]
    <3>1. Len(new) >= plan.insertAt - 1 /\ \A i \in 1..plan.insertAt - 1 : new[i] = file[i]
      BY <1>7, <2>1, <2>2 DEF LeadOK
    <3>2. \A i \in 1..plan.insertAt - 1 : i \in 1..Len(new)
      BY <1>6, <1>8, <3>1
    <3> QED
      BY <1>6, <1>8, <1>10, <1>11, <3>1, <3>2
  <2> QED
    BY <2>1, <2>2 DEF LeadOK
<1>14. EXIFOK(new \o b, m, put \ {k})
  <2>1. SUFFICES ASSUME Ahead
                 PROVE  /\ Has("EXIF") => IF "EXIF" \in put \ {k} THEN NoneYet(new \o b) ELSE Leads(new \o b)
                        /\ EXIFStays => IF m <= plan.first["EXIF"] THEN NoneYet(new \o b) ELSE Leads(new \o b)
    BY DEF EXIFOK
  <2>2. /\ Has("EXIF") => IF "EXIF" \in put THEN NoneYet(new) ELSE Leads(new)
        /\ EXIFStays => IF m <= plan.first["EXIF"] THEN NoneYet(new) ELSE Leads(new)
    BY <1>7, <2>1 DEF EXIFOK
  <2>l. Leads(new) => Leads(new \o b)
    BY <1>8, <1>10, LeadsMore
  <2>n. ASSUME NoneYet(new), k = "PS" PROVE NoneYet(new \o b)
    <3>1. \A i \in 1..Len(b) : ~IsAPP1(b[i])
      BY <1>10, <2>n, IsKinds
    <3>2. NoneYet(b)
      BY <3>1 DEF NoneYet
    <3> QED
      BY <1>8, <1>10, <2>n, <3>2, NoneNone
  <2>3. ASSUME Has("EXIF") PROVE IF "EXIF" \in put \ {k} THEN NoneYet(new \o b) ELSE Leads(new \o b)
    <3>1. CASE k = "EXIF"
      <4>1. b = <<Segment("EXIF", pl.EXIF)>> /\ Segment("EXIF", pl.EXIF).kind = "EXIF"
        BY <1>b, <3>1 DEF Block, Segment
      <4>2. 1 \in 1..Len(b) /\ b[1].kind = "EXIF" /\ \A i \in 1..1 - 1 : ~IsAPP1(b[i])
        BY <4>1, OneList
      <4>3. Leads(b)
        BY <4>2 DEF Leads
      <4>4. NoneYet(new)
        BY <1>3, <2>2, <2>3, <3>1
      <4>5. Leads(new \o b)
        BY <1>8, <1>10, <4>3, <4>4, NoneLeads
      <4> QED
        BY <3>1, <4>5
    <3>2. CASE k # "EXIF" /\ "EXIF" \in put
      <4>1. k # "XMP"
        <5> SUFFICES ASSUME k = "XMP" PROVE FALSE
          OBVIOUS
        <5>1. Sooner("XMP", "EXIF")
          BY <1>3, <3>2
        <5>2. Rank["XMP"] = 2 /\ Rank["EXIF"] = 1
          BY DEF Rank
        <5>3. EmitOffset("EXIF") <= EmitOffset("XMP") /\ EmitOffset("EXIF") \in Nat /\ EmitOffset("XMP") \in Nat
          BY <1>1, <1>2, <1>3, <2>1, <2>3, <3>2, XMPBehind
        <5> QED
          BY <5>1, <5>2, <5>3 DEF Sooner
      <4>2. k = "PS"
        BY <1>3, <3>2, <4>1 DEF Meta
      <4> QED
        BY <2>2, <2>3, <2>n, <3>2, <4>2
    <3>3. CASE "EXIF" \notin put
      BY <2>2, <2>3, <2>l, <3>3
    <3> QED
      BY <3>1, <3>2, <3>3
  <2>4. ASSUME EXIFStays PROVE IF m <= plan.first["EXIF"] THEN NoneYet(new \o b) ELSE Leads(new \o b)
    <3>1. CASE m <= plan.first["EXIF"]
      <4>1. plan.first["EXIF"] < EmitOffset("XMP") /\ plan.first["EXIF"] \in 1..plan.tail - 1
        BY <1>1, <2>1, <2>4, XMPBehind
      <4>2. k # "XMP"
        BY <1>2, <1>3, <1>4, <1>n, <3>1, <4>1
      <4>3. k # "EXIF"
        BY <1>10, <2>4 DEF EXIFStays
      <4>4. k = "PS"
        BY <1>3, <4>2, <4>3 DEF Meta
      <4> QED
        BY <2>2, <2>4, <2>n, <3>1, <4>4
    <3>2. CASE ~(m <= plan.first["EXIF"])
      BY <2>2, <2>4, <2>l, <3>2
    <3> QED
      BY <3>1, <3>2
  <2> QED
    BY <2>3, <2>4
<1>15. OrderOK(new \o b, m, put \ {k})
  BY <1>12, <1>13, <1>14 DEF OrderOK
<1>16. OrderOK(out, cursor, put)' <=> OrderOK(new \o b, m, put \ {k})
  BY <1>1, <1>4, <1>b, OrderFrame
<1> QED
  BY <1>15, <1>16 DEF OrderInv

LEMMA LeaveOutOrder == ASSUME Inv, OrderInv, LeaveOut PROVE OrderInv'
<1>a. PICK a : a = Head(plan.drops).from
  OBVIOUS
<1>b. PICK b : b = Head(plan.drops).to
  OBVIOUS
<1>w. PICK new : new = Copied(a)
  OBVIOUS
<1>1. /\ put # None /\ plan.drops # <<>> /\ (put # {} => ~(EmitOffset(Soonest) <= a))
      /\ UNCHANGED <<file, call, pl, scan, put>> /\ plan' = [plan EXCEPT !.drops = Tail(plan.drops)]
      /\ out' = new /\ cursor' = Max({cursor, b})
  BY <1>a, <1>b, <1>w DEF LeaveOut, Writing, DropIsNext, PutIsNext
<1>2. /\ call # None /\ plan.tail \in Nat /\ cursor \in Nat /\ cursor \in 1..plan.tail
      /\ \A j \in put : j \in Meta /\ EmitOffset(j) \in Nat
      /\ \A i \in 1..plan.tail - 1 : i \in Dropped <=> ~Stays(call, file[i])
  BY <1>1, WriteAt
<1>3. /\ IsList(plan.drops) /\ \A d \in 1..Len(plan.drops) : IsRun(plan.drops[d], cursor, plan.tail)
      /\ \A i \in cursor..plan.tail - 1 : i \in Dropped <=> In(plan.drops, i)
      /\ IsPlan(plan)
  BY <1>1 DEF Inv, WriteInv, RunsOK, PlanTo
<1>4. plan'.first = plan.first /\ plan'.dropAt = plan.dropAt /\ plan'.insertAt = plan.insertAt
  BY <1>1, <1>3 DEF IsPlan
<1>5. Len(plan.drops) \in Nat /\ 1 \in 1..Len(plan.drops) /\ Head(plan.drops) = plan.drops[1]
  <2>1. Len(plan.drops) \in Nat
    BY <1>3, ListDomain
  <2> QED
    BY <1>1, <1>3, <2>1, TailList
<1>6. /\ a \in Int /\ b \in Int /\ cursor <= a /\ a < b /\ b <= plan.tail
      /\ a \in 1..plan.tail /\ a \in Nat
  <2>1. a \in Int /\ b \in Int /\ cursor <= a /\ a < b /\ b <= plan.tail
    BY <1>a, <1>b, <1>2, <1>3, <1>5, RunIs
  <2> QED
    BY <1>2, <2>1
<1>7. cursor' = b
  <2>1. Max({cursor, b}) = IF cursor <= b THEN b ELSE cursor
    BY <1>2, <1>6, MaxTwo
  <2>2. cursor <= b
    BY <1>2, <1>6
  <2> QED
    BY <1>1, <2>1, <2>2
<1>8. ASSUME NEW i \in a..b - 1 PROVE i \in Dropped /\ i \in 1..plan.tail - 1
  <2>1. In(plan.drops, i)
    BY <1>5, <1>6, <1>a, <1>b DEF In
  <2>2. i \in cursor..plan.tail - 1 /\ i \in 1..plan.tail - 1
    BY <1>2, <1>6
  <2> QED
    BY <1>3, <2>1, <2>2
<1>9. ASSUME call.preserve PROVE plan.insertAt <= a
  <2>1. a \in Dropped /\ a \in 1..plan.tail - 1
    BY <1>6, <1>8
  <2>2. MetaKind(file[a]) # None
    BY <1>2, <1>9, <2>1 DEF Stays
  <2>3. ~IsLeading(file[a])
    BY <2>2, IsKinds
  <2>4. plan.insertAt \in Nat /\ \A i \in 1..plan.insertAt - 1 : IsLeading(file[i])
    BY <1>1, AfterLeading
  <2> QED
    BY <1>6, <2>3, <2>4
<1>10. ASSUME NEW j \in put PROVE a <= EmitOffset(j)
  <2>1. put # {} /\ put \subseteq Meta /\ \A h \in put : EmitOffset(h) \in Nat
    BY <1>2
  <2>2. Soonest \in put /\ \A h \in put \ {Soonest} : EmitOffset(Soonest) <= EmitOffset(h)
    BY <2>1, SoonestIs
  <2>3. EmitOffset(Soonest) \in Nat /\ ~(EmitOffset(Soonest) <= a)
    BY <1>1, <2>1, <2>2
  <2>4. EmitOffset(Soonest) <= EmitOffset(j)
    BY <2>1, <2>2, <2>3
  <2> QED
    BY <1>6, <2>1, <2>3, <2>4
<1>11. PlaceOK(new, put) /\ LeadOK(new, a) /\ EXIFOK(new, a, put)
  <2>1. \A i \in cursor..a - 1 : i \notin Dropped
    BY <1>1, <1>6, <1>a, NoDropBefore
  <2>2. OrderOK(new, IF cursor <= a THEN a ELSE cursor, put)
    BY <1>1, <1>6, <1>9, <1>10, <1>w, <2>1, CopyOrder
  <2> QED
    BY <1>6, <2>2 DEF OrderOK
<1>12. LeadOK(new, b)
  <2>1. plan.insertAt \in Nat
    BY <1>1, AfterLeading
  <2> QED
    BY <1>6, <1>9, <1>11, <2>1 DEF LeadOK
<1>13. EXIFOK(new, b, put)
  <2>1. SUFFICES ASSUME Ahead, EXIFStays PROVE a <= plan.first["EXIF"] <=> b <= plan.first["EXIF"]
    BY <1>11 DEF EXIFOK
  <2>2. plan.first["EXIF"] \notin Dropped /\ plan.first["EXIF"] \in 1..plan.tail - 1
    BY <1>1, <2>1, XMPBehind
  <2>3. plan.first["EXIF"] \notin a..b - 1
    BY <1>8, <2>2
  <2> QED
    BY <1>2, <1>6, <2>2, <2>3
<1>14. OrderOK(new, b, put)
  BY <1>11, <1>12, <1>13 DEF OrderOK
<1>15. OrderOK(out, cursor, put)' <=> OrderOK(new, b, put)
  BY <1>1, <1>4, <1>7, OrderFrame
<1> QED
  BY <1>14, <1>15 DEF OrderInv

LEMMA ScanStopOrder == ASSUME Inv, ScanStop PROVE OrderInv'
<1>1. Inv'
  BY ScanStopInv
<1>2. out' = <<>> /\ cursor' = 1 /\ put' = {k \in Meta : Has(k)} /\ UNCHANGED <<file, call, pl>>
  BY DEF ScanStop
<1>3. Len(out') = 0 /\ \A i : i \notin 1..0
  BY <1>2, EmptyList
<1>4. PlaceOK(out, put)'
  BY <1>3 DEF PlaceOK
<1>5. LeadOK(out, cursor)'
  <2>1. plan'.insertAt \in Nat
    BY <1>1, <1>2 DEF Inv, ScanInv, WriteInv, PlanTo, ScanStop
  <2> QED
    BY <1>2, <1>3, <2>1 DEF LeadOK
<1>6. EXIFOK(out, cursor, put)'
  <2>1. NoneYet(out')
    BY <1>3 DEF NoneYet
  <2>2. Has("EXIF")' => "EXIF" \in put'
    <3>1. "EXIF" \in Meta /\ (Has("EXIF")' <=> Has("EXIF"))
      BY <1>2 DEF Has, Meta
    <3> QED
      BY <1>2, <3>1
  <2>3. EXIFStays' => cursor' <= plan'.first["EXIF"]
    <3> SUFFICES ASSUME EXIFStays' PROVE 1 <= plan'.first["EXIF"]
      BY <1>2
    <3>1. plan'.first["EXIF"] # 0
      BY DEF EXIFStays
    <3>2. plan'.first["EXIF"] = plan.first["EXIF"]
      <4>1. IsPlan(plan) /\ plan' = [plan EXCEPT !.tail = scan.pos]
        BY DEF ScanStop, Inv, ScanInv, PlanTo
      <4> QED
        BY <4>1 DEF IsPlan
    <3>3. scan.pos \in Nat /\ Marks(plan.first["EXIF"], Of(file, "EXIF", scan.pos - 1))
      BY DEF ScanStop, Inv, ScanInv, PlanTo, Meta, IsList
    <3> QED
      BY <3>1, <3>2, <3>3 DEF Marks, Of
  <2> QED
    BY <2>1, <2>2, <2>3 DEF EXIFOK
<1> QED
  BY <1>4, <1>5, <1>6 DEF OrderInv, OrderOK

LEMMA OrderStep == ASSUME Inv, OrderInv, [Next]_vars PROVE OrderInv'
<1>1. CASE UNCHANGED vars
  <2>1. UNCHANGED <<file, call, pl, plan, out, cursor, put>>
    BY <1>1 DEF vars
  <2> QED
    BY <2>1, OrderFrame DEF OrderInv
<1>2. CASE Next /\ put' # None /\ put = None
  <2>1. ScanStop
    BY <1>2 DEF Next, Begin, ScanAlone, ScanSegment, ScanTooMany, GiveUp, PutIn, PutTooLarge, LeaveOut, Finish, Writing
  <2> QED
    BY <2>1, ScanStopOrder
<1>3. CASE Next /\ put' # None /\ put # None
  <2>1. scan = None /\ call # None
    BY <1>3, WriteAt
  <2>2. PutIn \/ LeaveOut
    BY <1>3, <2>1 DEF Next, Begin, ScanAlone, ScanSegment, ScanTooMany, GiveUp, ScanStop, PutTooLarge, Finish
  <2> QED
    BY <2>2, PutInOrder, LeaveOutOrder
<1>4. CASE put' = None
  BY <1>4 DEF OrderInv
<1> QED
  BY <1>1, <1>2, <1>3, <1>4

(* What stays of a sequence is of its elements, and every one that stays.  *)
LEMMA StayingHas ==
    ASSUME NEW f, IsList(f), NEW c, NEW i \in 1..Len(f), Stays(c, f[i])
    PROVE  \E j \in 1..Len(Staying(c, f)) : Staying(c, f)[j] = f[i]
<1> DEFINE S == {s \in Range(f) : Stays(c, s)}
           a == Chosen(Before(f, i), S)
           rest == SubSeq(f, i + 1, Len(f))
           z == Chosen(rest, S)
<1>1. Len(f) \in Nat /\ i \in Nat /\ i + 1 \in 1..Len(f) + 1 /\ i \in 1..Len(f) + 1
  BY ListDomain
<1>2. /\ IsList(rest) /\ Before(f, i + 1) \o rest = f
  <2>n. PICK n : n = Len(f) + 1
    OBVIOUS
  <2>1. n \in 1..Len(f) + 1 /\ i + 1 \in 1..n /\ n - 1 = Len(f)
    BY <1>1, <2>n
  <2>2. Before(f, n) = f
    BY <2>n, BeforeAll
  <2>3. /\ IsList(SubSeq(f, i + 1, n - 1))
        /\ Before(f, i + 1) \o SubSeq(f, i + 1, n - 1) = Before(f, n)
    BY <2>1, BeforeJoin
  <2> QED
    BY <2>1, <2>2, <2>3
<1>3. f[i] \in S
  <2>1. f[i] \in Range(f)
    BY ListDomain DEF Range
  <2> QED
    BY <2>1
<1>4. Staying(c, f) = Chosen(f, S)
  BY DEF Staying
<1>5. IsList(Before(f, i)) /\ IsList(Before(f, i + 1))
  BY <1>1, BeforeList
<1> HIDE DEF S, rest
<1>6. Chosen(Before(f, i + 1), S) = Append(a, f[i])
  BY <1>3, ChosenStep
<1>7. Chosen(f, S) = Append(a, f[i]) \o z
  <2>1. Chosen(Before(f, i + 1) \o rest, S) = Chosen(Before(f, i + 1), S) \o z
    BY <1>2, <1>5, ChosenConcat
  <2> QED
    BY <1>2, <1>6, <2>1
<1>8. IsList(a) /\ IsList(z) /\ Len(a) \in Nat /\ Len(z) \in Nat
  BY <1>2, <1>5, ChosenType, ListDomain
<1> HIDE DEF a, z
<1>9. IsList(Append(a, f[i])) /\ Len(Append(a, f[i])) = Len(a) + 1 /\ Append(a, f[i])[Len(a) + 1] = f[i]
  BY <1>8, AppendList
<1>10. PICK b : b = Append(a, f[i])
  OBVIOUS
<1>11. /\ Len(b \o z) = Len(b) + Len(z) /\ \A j \in 1..Len(b) : (b \o z)[j] = b[j]
  BY <1>8, <1>9, <1>10, ConcatList
<1>12. Len(a) + 1 \in 1..Len(b) /\ Len(a) + 1 \in 1..Len(b \o z)
  BY <1>8, <1>9, <1>10, <1>11
<1>13. (b \o z)[Len(a) + 1] = f[i]
  BY <1>9, <1>10, <1>11, <1>12
<1> QED
  BY <1>4, <1>7, <1>10, <1>12, <1>13

LEMMA StayingFrom ==
    ASSUME NEW f, IsList(f), NEW c, NEW j \in 1..Len(Staying(c, f))
    PROVE  \E i \in 1..Len(f) : f[i] = Staying(c, f)[j]
<1> DEFINE S == {s \in Range(f) : Stays(c, s)}
           E == {f[i] : i \in 1..Len(f)}
<1>1. PICK t : t = Staying(c, f)
  OBVIOUS
<1>2. t \in Seq(E \intersect S)
  BY <1>1, ChosenType DEF Staying
<1> HIDE DEF S, E
<1>3. t[j] \in E
  BY <1>1, <1>2
<1> QED
  BY <1>1, <1>3 DEF E

(* The first of the positions in a set.                                    *)
LEMMA MarksUnique ==
    ASSUME NEW S, S \subseteq Nat, NEW a, Marks(a, S), NEW b, Marks(b, S)
    PROVE  a = b
<1>1. CASE S = {}
  BY <1>1 DEF Marks
<1>2. CASE S # {}
  <2>1. a \in Nat /\ b \in Nat /\ a <= b /\ b <= a
    BY <1>2 DEF Marks
  <2> QED
    BY <2>1
<1> QED
  BY <1>1, <1>2

LEMMA LeastMarks ==
    ASSUME NEW I, I \subseteq Nat
    PROVE  Marks(IF I # {} THEN Min(I) ELSE 0, I)
BY MinIs DEF Marks

IsEXIF(s) == s.kind = "EXIF"
IsGone(c, k, s) == MetaKind(s) = k /\ ~Stays(c, s)
LEMMA FirstAre ==
    ASSUME NEW b, IsList(b), NEW c, NEW k
    PROVE  /\ Marks(SelectInSeq(b, IsEXIF), {i \in 1..Len(b) : IsEXIF(b[i])})
           /\ Marks(SelectInSeq(b, IsAPP1), {i \in 1..Len(b) : IsAPP1(b[i])})
           /\ Marks(SelectInSeq(b, LAMBDA s : IsGone(c, k, s)), {i \in 1..Len(b) : IsGone(c, k, b[i])})
           /\ Marks(SelectInSeq(b, LAMBDA s : ~IsLeading(s)), {i \in 1..Len(b) : ~IsLeading(b[i])})
<1> DEFINE E == {i \in 1..Len(b) : IsEXIF(b[i])}
           A == {i \in 1..Len(b) : IsAPP1(b[i])}
           G == {i \in 1..Len(b) : IsGone(c, k, b[i])}
           L == {i \in 1..Len(b) : ~IsLeading(b[i])}
<1>1. E \subseteq Nat /\ A \subseteq Nat /\ G \subseteq Nat /\ L \subseteq Nat
  BY ListDomain
<1>2. SelectInSeq(b, IsEXIF) = IF E # {} THEN Min(E) ELSE 0
  BY DEF SelectInSeq
<1>3. SelectInSeq(b, IsAPP1) = IF A # {} THEN Min(A) ELSE 0
  BY DEF SelectInSeq
<1>4. SelectInSeq(b, LAMBDA s : IsGone(c, k, s)) = IF G # {} THEN Min(G) ELSE 0
  BY DEF SelectInSeq
<1>5. SelectInSeq(b, LAMBDA s : ~IsLeading(s)) = IF L # {} THEN Min(L) ELSE 0
  BY DEF SelectInSeq
<1> HIDE DEF E, A, G, L
<1>6. /\ Marks(SelectInSeq(b, IsEXIF), E) /\ Marks(SelectInSeq(b, IsAPP1), A)
      /\ Marks(SelectInSeq(b, LAMBDA s : IsGone(c, k, s)), G)
      /\ Marks(SelectInSeq(b, LAMBDA s : ~IsLeading(s)), L)
  BY <1>1, <1>2, <1>3, <1>4, <1>5, LeastMarks
<1> QED
  BY <1>6 DEF E, A, G, L

(* What OrderKept says of the last call.                                   *)
FirstIn(src, c, new) ==
    LET lead == SelectInSeq(src, LAMBDA s : ~IsLeading(s))
        n == IF lead = 0 THEN Len(src) ELSE lead - 1
        exif(f) == SelectInSeq(Before(f, TailFrom(f)), IsEXIF)
        app1(f) == SelectInSeq(Before(f, TailFrom(f)), IsAPP1)
    IN /\ c.preserve => SubSeq(new, 1, n) = SubSeq(src, 1, n)
       /\ exif(new) # 0 /\ (exif(src) = 0 \/ exif(src) = app1(src)) => exif(new) = app1(new)
PlaceIn(src, c, new) ==
    LET first(f, k) == SelectInSeq(Before(f, TailFrom(f)), LAMBDA s : IsGone(c, k, s))
    IN \A k \in Meta : first(src, k) # 0 /\ first(new, k) # 0
         => Len(Staying(c, Before(new, first(new, k)))) = Len(Staying(c, Before(src, first(src, k))))
LastOrder == last # None => FirstIn(last.src, last.call, last.out) /\ PlaceIn(last.src, last.call, last.out)

(* The output before its image data.                                       *)
LEMMA FinishTail ==
    ASSUME Inv, Finish
    PROVE  Before(file', TailFrom(file')) = Copied(plan.tail)
<1> DEFINE n == plan.tail
           new == Copied(n)
           rest == From(file, n)
           m == Len(new) + 1
<1>1. /\ file' = new \o rest /\ IsList(new) /\ IsList(rest)
      /\ Len(rest) = Len(file) - n + 1
      /\ \A i \in 1..Len(file) - n + 1 : rest[i] = file[n + i - 1]
      /\ \A i \in 1..Len(new) : new[i].kind \notin StopKinds
  BY FinishOut DEF Finish
<1>2. Len(file) \in Nat /\ n \in Nat /\ n \in 1..Len(file) + 1 /\ Ended(file, n)
  BY WriteAt DEF Finish, Writing, Inv, WriteInv
<1> HIDE DEF new, rest
<1>3. /\ IsList(new \o rest) /\ Len(new \o rest) = Len(new) + Len(rest) /\ Len(new) \in Nat /\ Len(rest) \in Nat
      /\ \A i \in 1..Len(new) : (new \o rest)[i] = new[i]
      /\ \A i \in 1..Len(rest) : (new \o rest)[Len(new) + i] = rest[i]
  <2>1. IsList(new) /\ IsList(rest)
    BY <1>1
  <2>2. Len(new) \in Nat /\ Len(rest) \in Nat
    BY <2>1, ListDomain
  <2>3. /\ IsList(new \o rest) /\ Len(new \o rest) = Len(new) + Len(rest)
        /\ \A i \in 1..Len(new) : (new \o rest)[i] = new[i]
        /\ \A i \in 1..Len(rest) : (new \o rest)[Len(new) + i] = rest[i]
    BY <2>1, ConcatList
  <2> QED
    BY <2>2, <2>3
<1>4. PICK f : f = new \o rest
  OBVIOUS
<1>5. /\ IsList(f) /\ m \in 1..Len(f) + 1 /\ m - 1 = Len(new)
      /\ \A i \in 1..Len(new) : f[i] = new[i]
  BY <1>3, <1>4
<1>6. m <= Len(f) => f[m].kind \in StopKinds
  <2> SUFFICES ASSUME m <= Len(f) PROVE f[m].kind \in StopKinds
    OBVIOUS
  <2>1. 1 \in 1..Len(rest) /\ 1 \in 1..Len(file) - n + 1 /\ n + 1 - 1 = n /\ n <= Len(file)
    BY <1>1, <1>2, <1>3, <1>4
  <2>2. f[m] = rest[1] /\ rest[1] = file[n]
    BY <1>1, <1>3, <1>4, <2>1
  <2> QED
    BY <1>2, <2>1, <2>2 DEF Ended
<1>7. \A i \in 1..m - 1 : f[i].kind \notin StopKinds
  BY <1>1, <1>5
<1>8. TailFrom(f) = m
  <2> HIDE DEF m
  <2> QED
    BY <1>5, <1>6, <1>7, TailFromUnique
<1>9. Before(f, m) = new
  <2>1. IsList(Before(f, m)) /\ Len(Before(f, m)) = m - 1 /\ \A i \in 1..m - 1 : Before(f, m)[i] = f[i]
    BY <1>5, BeforeList
  <2> HIDE DEF m
  <2>2. \A i \in 1..Len(new) : Before(f, m)[i] = new[i]
    BY <1>5, <2>1
  <2> QED
    BY <1>1, <1>5, <2>1, <2>2, ListEqual
<1> QED
  BY <1>1, <1>4, <1>8, <1>9 DEF new

(* At the end the whole of the output is in order.                         *)
LEMMA EndOrder ==
    ASSUME Inv, OrderInv, Finish
    PROVE  OrderOK(Copied(plan.tail), plan.tail, {})
<1>n. PICK n : n = plan.tail
  OBVIOUS
<1>1. put # None /\ put = {} /\ plan.drops = <<>>
  BY DEF Finish, Writing, PutIsNext, DropIsNext
<1>2. n \in Nat /\ n \in 1..plan.tail /\ cursor \in 1..n
  BY <1>1, <1>n, WriteAt
<1>3. plan.insertAt <= n
  BY <1>1, <1>2, <1>n, AfterLeading
<1>4. \A i \in cursor..n - 1 : i \notin Dropped
  BY <1>1, <1>2, NoDropBefore
<1>5. OrderOK(Copied(n), IF cursor <= n THEN n ELSE cursor, put)
  BY <1>1, <1>2, <1>3, <1>4, CopyOrder
<1>6. cursor <= n
  BY <1>2
<1> QED
  BY <1>1, <1>5, <1>6, <1>n

(* The leading segments are those before insertAt.                         *)
LEMMA LeadingAre ==
    ASSUME Inv, put # None
    PROVE  LET lead == SelectInSeq(file, LAMBDA s : ~IsLeading(s))
           IN (IF lead = 0 THEN Len(file) ELSE lead - 1) = plan.insertAt - 1
<1> DEFINE L == {i \in 1..Len(file) : ~IsLeading(file[i])}
<1>l. PICK lead : lead = SelectInSeq(file, LAMBDA s : ~IsLeading(s))
  OBVIOUS
<1>1. IsList(file) /\ Len(file) \in Nat
  BY WriteAt
<1>2. Marks(lead, L)
  BY <1>1, <1>l, FirstAre
<1>3. /\ plan.insertAt \in Nat /\ plan.insertAt \in 1..plan.tail /\ plan.tail \in 1..Len(file) + 1
      /\ \A i \in 1..plan.insertAt - 1 : IsLeading(file[i])
      /\ plan.insertAt <= Len(file) => ~IsLeading(file[plan.insertAt])
  BY AfterLeading, WriteAt DEF Inv, WriteInv
<1>4. (IF lead = 0 THEN Len(file) ELSE lead - 1) = plan.insertAt - 1
  <2>1. CASE plan.insertAt <= Len(file)
    <3>1. plan.insertAt \in L
      BY <1>3, <2>1
    <3>2. lead \in L /\ lead <= plan.insertAt
      BY <1>2, <3>1 DEF Marks
    <3>3. lead \in 1..Len(file) /\ ~IsLeading(file[lead])
      BY <3>2
    <3>4. lead = plan.insertAt
      BY <1>1, <1>3, <3>2, <3>3
    <3> QED
      BY <1>3, <3>4
  <2>2. CASE ~(plan.insertAt <= Len(file))
    <3>1. plan.insertAt = Len(file) + 1
      BY <1>1, <1>3, <2>2
    <3>2. L = {}
      BY <1>1, <1>3, <3>1
    <3> QED
      BY <1>1, <1>2, <3>1, <3>2 DEF Marks
  <2> QED
    BY <2>1, <2>2
<1> QED
  BY <1>4, <1>l

LEMMA FinishAt ==
    ASSUME Inv, OrderInv, Finish
    PROVE  \E p, b : /\ p = Before(file', TailFrom(file')) /\ b = Before(file, TailFrom(file))
                     /\ IsList(p) /\ IsList(b) /\ Staying(call, p) = Staying(call, b)
                     /\ Len(b) = plan.tail - 1 /\ \A i \in 1..plan.tail - 1 : b[i] = file[i]
                     /\ OrderOK(p, plan.tail, {})
                     /\ IsList(file') /\ \A i \in 1..Len(p) + 1 : Before(file', i) = Before(p, i)
<1>n. PICK n : n = plan.tail
  OBVIOUS
<1>p. PICK p : p = Copied(n)
  OBVIOUS
<1>b. PICK b : b = Before(file, n)
  OBVIOUS
<1>r. PICK rest : rest = From(file, n)
  OBVIOUS
<1>1. put # None
  BY DEF Finish, Writing
<1>2. /\ IsList(p) /\ IsList(rest) /\ file' = p \o rest /\ Staying(call, p) = Staying(call, b)
  BY <1>n, <1>p, <1>b, <1>r, FinishOut DEF Finish
<1>3. IsList(file) /\ n \in 1..Len(file) + 1 /\ TailFrom(file) = n
  BY <1>1, <1>n, WriteAt, TailIs
<1>4. IsList(b) /\ Len(b) = n - 1 /\ \A i \in 1..n - 1 : b[i] = file[i]
  BY <1>3, <1>b, BeforeList
<1>5. p = Before(file', TailFrom(file'))
  BY <1>n, <1>p, FinishTail
<1>6. OrderOK(p, n, {})
  BY <1>n, <1>p, EndOrder
<1>7. IsList(p \o rest) /\ \A i \in 1..Len(p) + 1 : Before(p \o rest, i) = Before(p, i)
  <2>1. IsList(p \o rest)
    BY <1>2, ConcatList
  <2>2. 0 \in 0..Len(rest)
    BY <1>2, ListDomain
  <2>3. \A i \in 1..Len(p) + 1 : Before(p \o rest, i) = Before(p, i)
    BY <1>2, <2>2, BeforeConcat
  <2> QED
    BY <2>1, <2>3
<1> QED
  BY <1>2, <1>3, <1>4, <1>5, <1>6, <1>7, <1>b, <1>n

LEMMA FinishFirst ==
    ASSUME Inv, OrderInv, Finish
    PROVE  FirstIn(file, call, file')
<1>1. PICK p, b : /\ p = Before(file', TailFrom(file')) /\ b = Before(file, TailFrom(file))
                  /\ IsList(p) /\ IsList(b) /\ Staying(call, p) = Staying(call, b)
                  /\ Len(b) = plan.tail - 1 /\ \A i \in 1..plan.tail - 1 : b[i] = file[i]
                  /\ OrderOK(p, plan.tail, {})
                  /\ IsList(file') /\ \A i \in 1..Len(p) + 1 : Before(file', i) = Before(p, i)
  BY FinishAt
<1>2. put # None
  BY DEF Finish, Writing
<1>3. /\ IsList(file) /\ plan.tail \in Nat /\ plan.tail \in 1..Len(file) + 1 /\ Len(file) \in Nat
      /\ plan.insertAt \in Nat /\ plan.insertAt \in 1..plan.tail
  BY <1>2, WriteAt, AfterLeading
<1>4. Len(p) \in Nat
  BY <1>1, ListDomain
<1>5. ASSUME call.preserve
      PROVE  SubSeq(file', 1, plan.insertAt - 1) = SubSeq(file, 1, plan.insertAt - 1)
  <2>n. PICK n : n = plan.insertAt
    OBVIOUS
  <2>1. Len(p) >= n - 1 /\ \A i \in 1..n - 1 : p[i] = file[i]
    BY <1>1, <1>3, <1>5, <2>n DEF OrderOK, LeadOK
  <2>2. n \in 1..Len(p) + 1 /\ n \in 1..Len(file) + 1 /\ n - 1 \in Nat
    BY <1>3, <1>4, <2>1, <2>n
  <2>3. IsList(Before(p, n)) /\ Len(Before(p, n)) = n - 1 /\ \A i \in 1..n - 1 : Before(p, n)[i] = p[i]
    BY <1>1, <2>2, BeforeList
  <2>4. IsList(Before(file, n)) /\ Len(Before(file, n)) = n - 1 /\ \A i \in 1..n - 1 : Before(file, n)[i] = file[i]
    BY <1>3, <2>2, BeforeList
  <2>5. Before(p, n) = Before(file, n)
    BY <2>1, <2>3, <2>4, ListEqual
  <2>6. Before(file', n) = Before(file, n)
    BY <1>1, <2>2, <2>5
  <2> QED
    BY <2>6, <2>n DEF Before
<1>x. PICK x : x = SelectInSeq(p, IsEXIF)
  OBVIOUS
<1>y. PICK y : y = SelectInSeq(p, IsAPP1)
  OBVIOUS
<1>v. PICK v : v = SelectInSeq(b, IsEXIF)
  OBVIOUS
<1>w. PICK w : w = SelectInSeq(b, IsAPP1)
  OBVIOUS
<1>6. /\ Marks(x, {i \in 1..Len(p) : IsEXIF(p[i])}) /\ Marks(y, {i \in 1..Len(p) : IsAPP1(p[i])})
      /\ Marks(v, {i \in 1..Len(b) : IsEXIF(b[i])}) /\ Marks(w, {i \in 1..Len(b) : IsAPP1(b[i])})
  BY <1>1, <1>x, <1>y, <1>v, <1>w, FirstAre
<1>7. ASSUME x # 0, v = 0 \/ v = w PROVE x = y
  <2>e. PICK e : e = plan.first["EXIF"]
    OBVIOUS
  <2>m. "EXIF" \in Meta /\ "XMP" \in Meta
    BY DEF Meta
  <2>1. e = v
    <3>1. Marks(e, Of(file, "EXIF", plan.tail - 1))
      BY <1>2, <2>e, <2>m DEF Inv, WriteInv, PlanTo
    <3>2. \A i \in 1..plan.tail - 1 : MetaKind(file[i]) = "EXIF" <=> IsEXIF(b[i])
      BY <1>1, IsKinds DEF IsEXIF
    <3>3. {i \in 1..Len(b) : IsEXIF(b[i])} = Of(file, "EXIF", plan.tail - 1)
      BY <1>1, <3>2 DEF Of
    <3>4. Of(file, "EXIF", plan.tail - 1) \subseteq Nat
      BY <1>3 DEF Of
    <3>5. Marks(v, Of(file, "EXIF", plan.tail - 1))
      BY <1>6, <3>3
    <3> QED
      BY <3>1, <3>4, <3>5, MarksUnique
  <2>2. Ahead
    <3> SUFFICES ASSUME e # 0, plan.first["XMP"] # 0 PROVE e < plan.first["XMP"]
      BY <2>e DEF Ahead
    <3>z. PICK z : z = plan.first["XMP"]
      OBVIOUS
    <3>1. z \in 1..plan.tail - 1 /\ MetaKind(file[z]) = "XMP"
      <4>1. z \in 0..plan.tail - 1 /\ MetaKind(file[z]) = "XMP"
        BY <1>2, <2>m, <3>z, AfterLeading
      <4> QED
        BY <1>3, <3>z, <4>1
    <3>2. IsAPP1(b[z]) /\ z \in 1..Len(b)
      BY <1>1, <3>1, IsKinds
    <3>3. w <= z /\ w \in 1..Len(b)
      BY <1>6, <3>2 DEF Marks
    <3>4. w = e
      BY <1>7, <2>1
    <3>5. e # z
      <4>1. MetaKind(file[e]) = "EXIF"
        BY <1>2, <2>e, <2>m, AfterLeading
      <4> QED
        BY <3>1, <4>1
    <3> QED
      BY <1>1, <1>3, <3>1, <3>3, <3>4, <3>5, <3>z
  <2>3. x \in 1..Len(p) /\ p[x].kind = "EXIF"
    BY <1>6, <1>7 DEF Marks, IsEXIF
  <2>4. EXIFOK(p, plan.tail, {}) /\ PlaceOK(p, {})
    BY <1>1 DEF OrderOK
  <2>5. Leads(p)
    <3>1. CASE Stays(call, p[x])
      <4>1. "EXIF" \in call.keep
        BY <2>3, <3>1, IsKinds, <2>m, IsNoMeta DEF Stays, IsChunkOf
      <4>2. PICK j \in 1..Len(Staying(call, p)) : Staying(call, p)[j] = p[x]
        BY <1>1, <2>3, <3>1, StayingHas
      <4>3. PICK i \in 1..Len(b) : b[i] = p[x]
        BY <1>1, <4>2, StayingFrom
      <4>4. i \in {h \in 1..Len(b) : IsEXIF(b[h])}
        BY <2>3, <4>3 DEF IsEXIF
      <4>5. v \in 1..Len(b)
        BY <1>6, <4>4 DEF Marks
      <4>6. e # 0 /\ ~(plan.tail <= e)
        BY <1>1, <1>3, <2>1, <4>5
      <4>7. EXIFStays
        BY <2>e, <4>1, <4>6 DEF EXIFStays
      <4> QED
        BY <2>2, <2>4, <2>e, <4>6, <4>7 DEF EXIFOK
    <3>2. CASE ~Stays(call, p[x])
      <4>1. New(p[x], "EXIF")
        BY <2>3, <3>2, IsKinds DEF New
      <4>2. Has("EXIF")
        BY <2>3, <2>4, <2>m, <4>1 DEF PlaceOK
      <4> QED
        BY <2>2, <2>4, <4>2 DEF EXIFOK
    <3> QED
      BY <3>1, <3>2
  <2>6. PICK q \in 1..Len(p) : p[q].kind = "EXIF" /\ \A i \in 1..q - 1 : ~IsAPP1(p[i])
    BY <2>5 DEF Leads
  <2>7. ASSUME NEW h \in 1..Len(p), IsAPP1(p[h]), h <= q PROVE h = q
    BY <1>4, <2>6, <2>7
  <2>8. IsAPP1(p[q]) /\ q \in {i \in 1..Len(p) : IsEXIF(p[i])} /\ q \in {i \in 1..Len(p) : IsAPP1(p[i])}
    BY <2>6 DEF IsAPP1, IsEXIF
  <2>9. x = q
    <3>1. x \in {i \in 1..Len(p) : IsEXIF(p[i])} /\ x <= q
      BY <1>6, <2>8 DEF Marks
    <3>2. IsAPP1(p[x])
      BY <3>1 DEF IsAPP1, IsEXIF
    <3> QED
      BY <2>7, <3>1, <3>2
  <2>10. y = q
    <3>1. y \in {i \in 1..Len(p) : IsAPP1(p[i])} /\ y <= q
      BY <1>6, <2>8 DEF Marks
    <3> QED
      BY <2>7, <3>1
  <2> QED
    BY <2>9, <2>10
<1>8. LET lead == SelectInSeq(file, LAMBDA s : ~IsLeading(s))
      IN (IF lead = 0 THEN Len(file) ELSE lead - 1) = plan.insertAt - 1
  BY <1>2, LeadingAre
<1> QED
  BY <1>1, <1>5, <1>7, <1>8, <1>x, <1>y, <1>v, <1>w DEF FirstIn

LEMMA FinishPlace ==
    ASSUME Inv, OrderInv, Finish
    PROVE  PlaceIn(file, call, file')
<1>1. PICK p, b : /\ p = Before(file', TailFrom(file')) /\ b = Before(file, TailFrom(file))
                  /\ IsList(p) /\ IsList(b) /\ Staying(call, p) = Staying(call, b)
                  /\ Len(b) = plan.tail - 1 /\ \A i \in 1..plan.tail - 1 : b[i] = file[i]
                  /\ OrderOK(p, plan.tail, {})
                  /\ IsList(file') /\ \A i \in 1..Len(p) + 1 : Before(file', i) = Before(p, i)
  BY FinishAt
<1>2. put # None
  BY DEF Finish, Writing
<1>3. /\ plan.tail \in Nat /\ \A i \in 1..plan.tail - 1 : i \in Dropped <=> ~Stays(call, file[i])
  BY <1>2, WriteAt
<1>4. Len(p) \in Nat
  BY <1>1, ListDomain
<1>5. ASSUME NEW k \in Meta, NEW a, a = SelectInSeq(b, LAMBDA s : IsGone(call, k, s)), a # 0,
             NEW q, q = SelectInSeq(p, LAMBDA s : IsGone(call, k, s)), q # 0
      PROVE  Len(Staying(call, Before(file', q))) = Len(Staying(call, Before(file, a)))
  <2>1. /\ Marks(a, {i \in 1..Len(b) : IsGone(call, k, b[i])})
        /\ Marks(q, {i \in 1..Len(p) : IsGone(call, k, p[i])})
    <3>1. IsList(b) /\ IsList(p)
      BY <1>1
    <3>2. Marks(SelectInSeq(b, LAMBDA s : IsGone(call, k, s)), {i \in 1..Len(b) : IsGone(call, k, b[i])})
      BY <3>1, FirstAre
    <3>3. Marks(SelectInSeq(p, LAMBDA s : IsGone(call, k, s)), {i \in 1..Len(p) : IsGone(call, k, p[i])})
      BY <3>1, FirstAre
    <3> QED
      BY <1>5, <3>2, <3>3
  <2>2. a = plan.dropAt[k]
    <3> DEFINE S == Of(file, k, plan.tail - 1) \intersect Dropped
    <3>1. Marks(plan.dropAt[k], S)
      BY <1>2 DEF Inv, WriteInv, PlanTo
    <3>2. {i \in 1..Len(b) : IsGone(call, k, b[i])} = S
      BY <1>1, <1>3 DEF Of, IsGone
    <3>3. S \subseteq Nat
      BY <1>3 DEF Of
    <3> HIDE DEF S
    <3> QED
      BY <2>1, <3>1, <3>2, <3>3, MarksUnique
  <2>3. EmitOffset(k) = a
    BY <1>5, <2>2 DEF EmitOffset
  <2>4. q \in 1..Len(p) /\ IsGone(call, k, p[q])
    BY <1>5, <2>1 DEF Marks
  <2>5. New(p[q], k)
    BY <2>4 DEF New, IsGone
  <2>6. Staying(call, Before(p, q)) = Staying(call, Before(file, a))
    BY <1>1, <2>3, <2>4, <2>5 DEF OrderOK, PlaceOK
  <2>7. Before(file', q) = Before(p, q)
    BY <1>1, <1>4, <2>4
  <2> QED
    BY <2>6, <2>7
<1> QED
  BY <1>1, <1>5 DEF PlaceIn

LEMMA OrderInit == Init => OrderInv /\ LastOrder
BY DEF Init, OrderInv, LastOrder

LEMMA LastOrderStep == ASSUME Inv, OrderInv, LastOrder, [Next]_vars PROVE LastOrder'
<1>1. CASE Finish
  <2>1. last' = [src |-> file, call |-> call, out |-> file']
    BY <1>1 DEF Finish
  <2>2. last'.src = file /\ last'.call = call /\ last'.out = file'
    BY <2>1
  <2>3. FirstIn(file, call, file') /\ PlaceIn(file, call, file')
    BY <1>1, FinishFirst, FinishPlace
  <2> QED
    BY <2>2, <2>3 DEF LastOrder
<1>2. CASE ~Finish
  <2>1. last' = last
    BY <1>2 DEF Next, vars, Begin, ScanAlone, ScanSegment, ScanTooMany, GiveUp, ScanStop, PutIn, PutTooLarge, LeaveOut
  <2> QED
    BY <2>1 DEF LastOrder
<1> QED
  BY <1>1, <1>2

(* The JFIF and Adobe segments stay first, an EXIF that no XMP preceded is *)
(* the first APP1 of the output, and a new segment stands where the one    *)
(* that it replaces stood (emitOffset, emitOps, writeSplice).              *)
THEOREM OrderStays == Spec => []OrderKept
<1>1. Inv /\ OrderInv /\ LastOrder /\ [Next]_vars => OrderInv' /\ LastOrder'
  BY OrderStep, LastOrderStep
<1>2. LastOrder => FirstInOrder
  BY DEF LastOrder, FirstIn, FirstInOrder, FirstOf, IsEXIF
<1>3. LastOrder => InPlace
  BY DEF LastOrder, PlaceIn, InPlace, FirstOf, IsGone
<1>4. LastOrder => OrderKept
  BY <1>2, <1>3 DEF OrderKept
<1> QED
  BY <1>1, <1>4, InvHolds, OrderInit, PTL DEF Spec

-----------------------------------------------------------------------------
(* What a reader finds.                                                    *)

(* One element more at the end.                                            *)
LEMMA ChosenAppend ==
    ASSUME NEW s, IsList(s), NEW x, NEW S
    PROVE  Chosen(Append(s, x), S) = IF x \in S THEN Append(Chosen(s, S), x) ELSE Chosen(s, S)
<1>a. PICK a : a = Append(s, x)
  OBVIOUS
<1>n. PICK n : n = Len(s) + 1
  OBVIOUS
<1>1. Len(s) \in Nat /\ IsList(s)
  BY ListDomain
<1>2. IsList(a) /\ Len(a) = n /\ (\A i \in 1..Len(s) : a[i] = s[i]) /\ a[n] = x
  BY <1>1, <1>a, <1>n, AppendList
<1>3. n \in 1..Len(a) /\ n \in Nat /\ n \in 1..Len(a) + 1 /\ n - 1 = Len(s)
  BY <1>1, <1>2, <1>n
<1>4. Before(a, n) = s
  <2>1. IsList(Before(a, n)) /\ Len(Before(a, n)) = n - 1 /\ \A i \in 1..n - 1 : Before(a, n)[i] = a[i]
    BY <1>2, <1>3, BeforeList
  <2>2. \A i \in 1..Len(s) : Before(a, n)[i] = s[i]
    BY <1>2, <1>3, <2>1
  <2> QED
    BY <1>1, <1>3, <2>1, <2>2, ListEqual
<1>5. Before(a, n + 1) = a
  BY <1>2, BeforeAll
<1>6. Chosen(Before(a, n + 1), S) = IF a[n] \in S THEN Append(Chosen(Before(a, n), S), a[n]) ELSE Chosen(Before(a, n), S)
  BY <1>2, <1>3, ChosenStep
<1> QED
  BY <1>2, <1>4, <1>5, <1>6, <1>a

(* Choosing twice.                                                         *)
LEMMA ChosenWithin ==
    ASSUME NEW s, IsList(s), NEW S, NEW T, \A i \in 1..Len(s) : s[i] \in T => s[i] \in S
    PROVE  Chosen(Chosen(s, S), T) = Chosen(s, T)
<1> DEFINE n == Len(s)
           U == {k \in 0..n : Chosen(Chosen(Before(s, k + 1), S), T) = Chosen(Before(s, k + 1), T)}
<1>1. n \in Nat
  BY ListDomain
<1>2. 0 \in U
  <2>1. Before(s, 1) = <<>> /\ Chosen(<<>>, S) = <<>> /\ Chosen(<<>>, T) = <<>> /\ 0 + 1 = 1
    BY BeforeNone, ChosenEmpty
  <2> QED
    BY <1>1, <2>1
<1>3. ASSUME NEW k \in 1..n, k - 1 \in U PROVE k \in U
  <2>1. k \in Nat /\ k - 1 + 1 = k /\ k \in 1..n /\ k \in 0..n
    BY <1>1
  <2> DEFINE a == Chosen(Before(s, k), S)
             b == Chosen(Before(s, k), T)
  <2>2. Chosen(a, T) = b
    BY <1>3, <2>1
  <2>3. /\ Chosen(Before(s, k + 1), S) = IF s[k] \in S THEN Append(a, s[k]) ELSE a
        /\ Chosen(Before(s, k + 1), T) = IF s[k] \in T THEN Append(b, s[k]) ELSE b
    BY <2>1, ChosenStep
  <2>4. IsList(a)
    <3>1. IsList(Before(s, k))
      BY <1>1, <2>1, BeforeList
    <3> QED
      BY <3>1, ChosenType
  <2> HIDE DEF a, b
  <2>5. CASE s[k] \in S
    <3>1. Chosen(Append(a, s[k]), T) = IF s[k] \in T THEN Append(Chosen(a, T), s[k]) ELSE Chosen(a, T)
      <4>1. PICK x : x = s[k]
        OBVIOUS
      <4>2. Chosen(Append(a, x), T) = IF x \in T THEN Append(Chosen(a, T), x) ELSE Chosen(a, T)
        BY <2>4, ChosenAppend
      <4> QED
        BY <4>1, <4>2
    <3> QED
      BY <2>1, <2>2, <2>3, <2>5, <3>1
  <2>6. CASE s[k] \notin S
    <3>1. s[k] \notin T
      BY <2>1, <2>6
    <3> QED
      BY <2>1, <2>2, <2>3, <2>6, <3>1
  <2> QED
    BY <2>5, <2>6
<1>4. n \in U
  <2> HIDE DEF U
  <2>1. \A k \in 0..n : k \in U
    BY <1>1, <1>2, <1>3, UpTo
  <2> QED
    BY <1>1, <2>1
<1>5. Before(s, n + 1) = s
  BY BeforeAll
<1> QED
  BY <1>4, <1>5

(* The first element of a choice is the first one that is in the set.      *)
LEMMA ChosenFirst ==
    ASSUME NEW s, IsList(s), NEW S, NEW j, Marks(j, {i \in 1..Len(s) : s[i] \in S})
    PROVE  /\ j = 0 <=> Chosen(s, S) = <<>>
           /\ j # 0 => j \in 1..Len(s) /\ Chosen(s, S)[1] = s[j]
<1> DEFINE I == {i \in 1..Len(s) : s[i] \in S}
<1>1. Len(s) \in Nat
  BY ListDomain
<1>2. CASE I = {}
  <2>1. j = 0
    BY <1>2 DEF Marks
  <2>2. Chosen(s, S) = <<>>
    BY <1>2, ChosenNone
  <2> QED
    BY <2>1, <2>2
<1>3. CASE I # {}
  <2>1. j \in 1..Len(s) /\ s[j] \in S /\ \A i \in I : j <= i
    BY <1>3 DEF Marks
  <2>n. PICK n : n = Len(s) + 1
    OBVIOUS
  <2>2. j \in Nat /\ j # 0 /\ j \in 1..Len(s) + 1 /\ j + 1 \in 1..n /\ n \in 1..Len(s) + 1 /\ n - 1 = Len(s)
    BY <1>1, <2>1, <2>n
  <2>3. IsList(Before(s, j)) /\ Len(Before(s, j)) = j - 1 /\ \A i \in 1..j - 1 : Before(s, j)[i] = s[i]
    BY <2>2, BeforeList
  <2>4. Chosen(Before(s, j), S) = <<>>
    <3>1. ASSUME NEW i \in 1..Len(Before(s, j)) PROVE Before(s, j)[i] \notin S
      <4>1. i \in 1..Len(s) /\ i < j /\ Before(s, j)[i] = s[i]
        BY <1>1, <2>1, <2>3
      <4> QED
        BY <2>1, <2>2, <4>1
    <3> QED
      BY <2>3, <3>1, ChosenNone
  <2>5. Chosen(Before(s, j + 1), S) = Append(<<>>, s[j])
    BY <2>1, <2>4, ChosenStep
  <2> DEFINE rest == SubSeq(s, j + 1, n - 1)
  <2>6. IsList(rest) /\ Before(s, j + 1) \o rest = s
    <3>1. Before(s, n) = s
      BY <2>n, BeforeAll
    <3> QED
      BY <2>2, <3>1, BeforeJoin
  <2>7. IsList(Before(s, j + 1))
    <3>1. j + 1 \in 1..Len(s) + 1
      BY <1>1, <2>1
    <3> QED
      BY <3>1, BeforeList
  <2> HIDE DEF rest
  <2>8. Chosen(s, S) = Append(<<>>, s[j]) \o Chosen(rest, S)
    <3>1. Chosen(Before(s, j + 1) \o rest, S) = Chosen(Before(s, j + 1), S) \o Chosen(rest, S)
      BY <2>6, <2>7, ChosenConcat
    <3> QED
      BY <2>5, <2>6, <3>1
  <2>9. IsList(Append(<<>>, s[j])) /\ Len(Append(<<>>, s[j])) = 1 /\ Append(<<>>, s[j])[1] = s[j]
    <3>1. PICK x : x = s[j]
      OBVIOUS
    <3>2. PICK e : e = <<>>
      OBVIOUS
    <3>3. IsList(e) /\ Len(e) = 0
      BY <3>2, EmptyList
    <3>4. IsList(Append(e, x)) /\ Len(Append(e, x)) = Len(e) + 1 /\ Append(e, x)[Len(e) + 1] = x
      BY <3>3, AppendList
    <3> QED
      BY <3>1, <3>2, <3>3, <3>4
  <2>a. PICK a : a = Append(<<>>, s[j])
    OBVIOUS
  <2>z. PICK z : z = Chosen(rest, S)
    OBVIOUS
  <2>10. IsList(z) /\ Len(z) \in Nat
    BY <2>6, <2>z, ChosenType, ListDomain
  <2>11. Len(a \o z) = 1 + Len(z) /\ (a \o z)[1] = s[j]
    <3>1. IsList(a) /\ Len(a) = 1
      BY <2>9, <2>a
    <3>2. Len(a \o z) = Len(a) + Len(z) /\ \A i \in 1..Len(a) : (a \o z)[i] = a[i]
      BY <2>10, <3>1, ConcatList
    <3>3. 1 \in 1..Len(a)
      BY <3>1
    <3> QED
      BY <2>9, <2>a, <3>1, <3>2, <3>3
  <2>12. a \o z # <<>>
    BY <2>10, <2>11, EmptyList
  <2> QED
    BY <2>1, <2>2, <2>8, <2>a, <2>z, <2>11, <2>12
<1> QED
  BY <1>2, <1>3

(* What stays is chosen alike where the same stays.                        *)
LEMMA SameStaying ==
    ASSUME NEW p, IsList(p), NEW b, IsList(b), NEW c, Staying(c, p) = Staying(c, b), NEW S,
           \A i \in 1..Len(p) : p[i] \in S => Stays(c, p[i]),
           \A i \in 1..Len(b) : b[i] \in S => Stays(c, b[i])
    PROVE  Chosen(p, S) = Chosen(b, S)
<1>1. ASSUME NEW f, IsList(f), \A i \in 1..Len(f) : f[i] \in S => Stays(c, f[i])
      PROVE  Chosen(Staying(c, f), S) = Chosen(f, S)
  <2> DEFINE T == {s \in Range(f) : Stays(c, s)}
  <2>1. \A i \in 1..Len(f) : f[i] \in S => f[i] \in T
    <3>1. DOMAIN f = 1..Len(f)
      BY <1>1, ListDomain
    <3> QED
      BY <1>1, <3>1 DEF Range
  <2>2. Staying(c, f) = Chosen(f, T)
    BY DEF Staying
  <2> HIDE DEF T
  <2>3. Chosen(Chosen(f, T), S) = Chosen(f, S)
    BY <1>1, <2>1, ChosenWithin
  <2> QED
    BY <2>2, <2>3
<1>2. Chosen(Staying(c, p), S) = Chosen(p, S)
  BY <1>1
<1>3. Chosen(Staying(c, b), S) = Chosen(b, S)
  BY <1>1
<1> QED
  BY <1>2, <1>3

(* The segments of kind k in f that do not stay, which in the output are   *)
(* those that were put in.                                                 *)
NewOf(c, k, f) == Chosen(f, {s \in Range(f) : IsGone(c, k, s)})
PartsOK(o, left) == \A k \in Meta : NewOf(call, k, o) = IF Has(k) /\ k \notin left THEN Block(k) ELSE <<>>
PartsInv == put # None => PartsOK(out, put)

LEMMA NewOfAs ==
    ASSUME NEW f, IsList(f), NEW c, NEW k, NEW S, \A i \in 1..Len(f) : f[i] \in S <=> IsGone(c, k, f[i])
    PROVE  NewOf(c, k, f) = Chosen(f, S)
<1> DEFINE R == {s \in Range(f) : IsGone(c, k, s)}
<1>1. DOMAIN f = 1..Len(f)
  BY ListDomain
<1>2. \A i \in 1..Len(f) : f[i] \in Range(f)
  BY <1>1 DEF Range
<1>3. \A i \in 1..Len(f) : f[i] \in R <=> f[i] \in S
  BY <1>2
<1>4. NewOf(c, k, f) = Chosen(f, R)
  BY DEF NewOf
<1> HIDE DEF R
<1> QED
  BY <1>3, <1>4, ChosenSame

LEMMA NewOfAll ==
    ASSUME NEW f, IsList(f), NEW c, NEW k, \A i \in 1..Len(f) : IsGone(c, k, f[i])
    PROVE  NewOf(c, k, f) = f
<1> DEFINE S == {f[i] : i \in 1..Len(f)}
<1>1. \A i \in 1..Len(f) : f[i] \in S
  OBVIOUS
<1> HIDE DEF S
<1>2. NewOf(c, k, f) = Chosen(f, S)
  BY <1>1, NewOfAs
<1>3. Chosen(f, S) = f
  BY <1>1, ChosenAll
<1> QED
  BY <1>2, <1>3

LEMMA NewOfNone ==
    ASSUME NEW f, IsList(f), NEW c, NEW k, \A i \in 1..Len(f) : ~IsGone(c, k, f[i])
    PROVE  NewOf(c, k, f) = <<>>
<1>1. \A i \in 1..Len(f) : f[i] \notin {}
  OBVIOUS
<1>2. NewOf(c, k, f) = Chosen(f, {})
  BY <1>1, NewOfAs
<1> QED
  BY <1>1, <1>2, ChosenNone

LEMMA NewOfConcat ==
    ASSUME NEW s, IsList(s), NEW t, IsList(t), NEW c, NEW k
    PROVE  NewOf(c, k, s \o t) = NewOf(c, k, s) \o NewOf(c, k, t)
<1> DEFINE S == {x \in {s[i] : i \in 1..Len(s)} \union {t[i] : i \in 1..Len(t)} : IsGone(c, k, x)}
           u == s \o t
<1>1. \A i \in 1..Len(s) : s[i] \in S <=> IsGone(c, k, s[i])
  OBVIOUS
<1>2. \A i \in 1..Len(t) : t[i] \in S <=> IsGone(c, k, t[i])
  OBVIOUS
<1> HIDE DEF S
<1>3. /\ IsList(u) /\ Len(u) = Len(s) + Len(t) /\ Len(s) \in Nat /\ Len(t) \in Nat
      /\ \A i \in 1..Len(s) : u[i] = s[i]
      /\ \A i \in 1..Len(t) : u[Len(s) + i] = t[i]
  BY ConcatList DEF IsList
<1> HIDE DEF u
<1>4. ASSUME NEW i \in 1..Len(u) PROVE u[i] \in S <=> IsGone(c, k, u[i])
  <2>1. CASE i <= Len(s)
    BY <2>1, <1>1, <1>3
  <2>2. CASE ~(i <= Len(s))
    <3>1. i - Len(s) \in 1..Len(t) /\ Len(s) + (i - Len(s)) = i
      BY <2>2, <1>3
    <3> QED
      BY <3>1, <1>2, <1>3
  <2> QED
    BY <2>1, <2>2
<1>5. NewOf(c, k, u) = Chosen(u, S)
  <2>1. IsList(u)
    BY <1>3
  <2> QED
    BY <2>1, <1>4, NewOfAs
<1>6. NewOf(c, k, s) = Chosen(s, S) /\ NewOf(c, k, t) = Chosen(t, S)
  BY <1>1, <1>2, NewOfAs
<1> QED
  BY <1>5, <1>6, ChosenConcat DEF u

(* Copying puts nothing in.                                                *)
LEMMA CopyParts ==
    ASSUME Inv, PartsInv, put # None, NEW n \in 1..plan.tail, \A i \in cursor..n - 1 : i \notin Dropped
    PROVE  PartsOK(Copied(n), put)
<1>1. PICK part : /\ IsList(part) /\ Copied(n) = out \o part
                  /\ \A i \in 1..Len(part) : Stays(call, part[i])
  BY CopyPart
<1>2. IsList(out)
  BY DEF Inv, CopyInv
<1>3. PartsOK(out, put)
  BY DEF PartsInv
<1>4. ASSUME NEW k \in Meta PROVE NewOf(call, k, out \o part) = NewOf(call, k, out)
  <2>1. \A i \in 1..Len(part) : ~IsGone(call, k, part[i])
    BY <1>1 DEF IsGone
  <2>2. IsList(part)
    BY <1>1
  <2>c. PICK c : c = call
    OBVIOUS
  <2>3. NewOf(c, k, part) = <<>>
    BY <2>1, <2>2, <2>c, NewOfNone
  <2>4. NewOf(c, k, out \o part) = NewOf(c, k, out) \o NewOf(c, k, part)
    BY <1>2, <2>2, NewOfConcat
  <2>5. IsList(NewOf(c, k, out))
    BY <1>2, ChosenType DEF NewOf
  <2> QED
    BY <2>3, <2>4, <2>5, <2>c, ConcatEmpty
<1> QED
  BY <1>1, <1>3, <1>4 DEF PartsOK

LEMMA PartsFrame ==
    ASSUME UNCHANGED <<call, pl>>
    PROVE  PartsOK(out, put)' <=> PartsOK(out', put')
BY DEF PartsOK, Has, Block, IRBOut

LEMMA PutInParts == ASSUME Inv, PartsInv, PutIn PROVE PartsInv'
<1>k. PICK k : k = Soonest
  OBVIOUS
<1>n. PICK n : n = EmitOffset(k)
  OBVIOUS
<1>w. PICK new : new = Copied(n)
  OBVIOUS
<1>b. PICK b : b = Block(k)
  OBVIOUS
<1>c. PICK c : c = call
  OBVIOUS
<1>1. /\ put # None /\ put # {} /\ (plan.drops # <<>> => n <= Head(plan.drops).from)
      /\ UNCHANGED <<file, call, pl>> /\ put' = put \ {k} /\ out' = new \o b
  BY <1>k, <1>n, <1>w, <1>b DEF PutIn, Writing, PutIsNext
<1>2. /\ call # None
      /\ \A j \in put : j \in Meta /\ Has(j) /\ EmitOffset(j) \in Nat /\ EmitOffset(j) \in 1..plan.tail
  BY <1>1, WriteAt
<1>3. k \in put /\ k \in Meta /\ Has(k) /\ n \in 1..plan.tail
  <2>1. put \subseteq Meta /\ \A j \in put : EmitOffset(j) \in Nat
    BY <1>2
  <2> QED
    BY <1>1, <1>2, <1>k, <1>n, <2>1, SoonestIs
<1>4. \A i \in cursor..n - 1 : i \notin Dropped
  BY <1>1, <1>3, NoDropBefore
<1>5. PartsOK(new, put)
  BY <1>1, <1>3, <1>4, <1>w, CopyParts
<1>6. IsList(new)
  BY <1>1, <1>3, <1>w, CopiedIs
<1>7. IsList(b) /\ \A i \in 1..Len(b) : MetaKind(b[i]) = k /\ ~Stays(c, b[i])
  BY <1>2, <1>3, <1>b, <1>c, BlockIs DEF Inv
<1>8. ASSUME NEW j \in Meta
      PROVE  NewOf(c, j, new \o b) = IF Has(j) /\ j \notin put \ {k} THEN Block(j) ELSE <<>>
  <2>1. NewOf(c, j, new) = IF Has(j) /\ j \notin put THEN Block(j) ELSE <<>>
    BY <1>5, <1>c DEF PartsOK
  <2>2. NewOf(c, j, new \o b) = NewOf(c, j, new) \o NewOf(c, j, b)
    <3>1. IsList(b)
      BY <1>7
    <3> QED
      BY <1>6, <3>1, NewOfConcat
  <2>3. IsList(NewOf(c, j, new))
    BY <1>6, ChosenType DEF NewOf
  <2>4. CASE j = k
    <3>1. \A i \in 1..Len(b) : IsGone(c, j, b[i])
      BY <1>7, <2>4 DEF IsGone
    <3>2. NewOf(c, j, b) = b
      BY <1>7, <3>1, NewOfAll
    <3>3. NewOf(c, j, new) = <<>>
      BY <1>3, <2>1, <2>4
    <3>4. <<>> \o b = b
      BY <1>7, ConcatEmpty
    <3> QED
      BY <1>3, <1>b, <2>2, <2>4, <3>2, <3>3, <3>4
  <2>5. CASE j # k
    <3>1. \A i \in 1..Len(b) : ~IsGone(c, j, b[i])
      BY <1>7, <2>5 DEF IsGone
    <3>2. NewOf(c, j, b) = <<>>
      BY <1>7, <3>1, NewOfNone
    <3>3. NewOf(c, j, new) \o <<>> = NewOf(c, j, new)
      BY <2>3, ConcatEmpty
    <3> QED
      BY <2>1, <2>2, <2>5, <3>2, <3>3
  <2> QED
    BY <2>4, <2>5
<1>9. PartsOK(out', put')
  BY <1>1, <1>8, <1>c DEF PartsOK
<1> QED
  BY <1>1, <1>9, PartsFrame DEF PartsInv

LEMMA LeaveOutParts == ASSUME Inv, PartsInv, LeaveOut PROVE PartsInv'
<1>n. PICK n : n = Head(plan.drops).from
  OBVIOUS
<1>1. put # None /\ plan.drops # <<>> /\ UNCHANGED <<file, call, pl, put>> /\ out' = Copied(n)
  BY <1>n DEF LeaveOut, Writing, DropIsNext
<1>2. n \in 1..plan.tail
  <2>1. /\ plan.tail \in Nat /\ cursor \in Nat /\ cursor \in 1..plan.tail
        /\ IsList(plan.drops) /\ \A d \in 1..Len(plan.drops) : IsRun(plan.drops[d], cursor, plan.tail)
    BY <1>1, WriteAt DEF Inv, WriteInv, RunsOK
  <2>2. Len(plan.drops) \in Nat /\ Len(plan.drops) >= 1 /\ Head(plan.drops) = plan.drops[1]
    <3>1. Len(plan.drops) \in Nat
      BY <2>1, ListDomain
    <3> QED
      BY <1>1, <2>1, <3>1, TailList
  <2>3. n \in Int /\ cursor <= n /\ n < plan.drops[1].to /\ plan.drops[1].to <= plan.tail /\ plan.drops[1].to \in Int
    BY <1>n, <2>1, <2>2, RunIs
  <2> QED
    BY <2>1, <2>3
<1>3. \A i \in cursor..n - 1 : i \notin Dropped
  <2>1. n <= Head(plan.drops).from
    BY <1>2, <1>n
  <2> QED
    BY <1>1, <1>2, <2>1, NoDropBefore
<1>4. PartsOK(out', put')
  BY <1>1, <1>2, <1>3, CopyParts
<1> QED
  BY <1>1, <1>4, PartsFrame DEF PartsInv

LEMMA PartsStep == ASSUME Inv, PartsInv, [Next]_vars PROVE PartsInv'
<1>1. CASE UNCHANGED vars
  <2>1. UNCHANGED <<call, pl, out, put>>
    BY <1>1 DEF vars
  <2> QED
    BY <2>1, PartsFrame DEF PartsInv
<1>2. CASE Next /\ put' # None /\ put = None
  <2>1. ScanStop
    BY <1>2 DEF Next, Begin, ScanAlone, ScanSegment, ScanTooMany, GiveUp, PutIn, PutTooLarge, LeaveOut, Finish, Writing
  <2>2. out' = <<>> /\ put' = {k \in Meta : Has(k)} /\ UNCHANGED <<call, pl>>
    BY <2>1 DEF ScanStop
  <2>3. ASSUME NEW c, NEW k PROVE NewOf(c, k, <<>>) = <<>>
    BY ChosenEmpty DEF NewOf
  <2>4. PartsOK(out', put')
    BY <2>2, <2>3 DEF PartsOK
  <2> QED
    BY <2>2, <2>4, PartsFrame DEF PartsInv
<1>3. CASE Next /\ put' # None /\ put # None
  <2>1. scan = None /\ call # None
    BY <1>3, WriteAt
  <2>2. PutIn \/ LeaveOut
    BY <1>3, <2>1 DEF Next, Begin, ScanAlone, ScanSegment, ScanTooMany, GiveUp, ScanStop, PutTooLarge, Finish
  <2> QED
    BY <2>2, PutInParts, LeaveOutParts
<1>4. CASE put' = None
  BY <1>4 DEF PartsInv
<1> QED
  BY <1>1, <1>2, <1>3, <1>4

-----------------------------------------------------------------------------
(* Where the scan and the reader agree, both see the same metadata.        *)
LEMMA ReadPlain ==
    ASSUME NEW f, IsList(f), Plain(f), NEW S, \A s \in S : MetaKind(s) # None
    PROVE  Chosen(Readable(f), S) = Chosen(Before(f, TailFrom(f)), S)
<1>1. PICK n \in 1..Len(f) + 1 : /\ Readable(f) = Before(f, n)
                                 /\ \A i \in 1..n - 1 : f[i].kind \notin EndKinds
                                 /\ n <= Len(f) => f[n].kind \in EndKinds
  BY ReadableIs
<1>t. PICK t : t = TailFrom(f)
  OBVIOUS
<1>2. /\ Len(f) \in Nat /\ t \in 1..Len(f) + 1 /\ t \in Nat /\ n \in Nat
      /\ \A i \in 1..t - 1 : f[i].kind \notin StopKinds
  BY <1>t, TailFromIs, ListDomain
<1>3. t \in 1..n
  <2> SUFFICES ASSUME n < t PROVE FALSE
    BY <1>2
  <2>1. n \in 1..t - 1 /\ n <= Len(f)
    BY <1>2
  <2> QED
    BY <1>1, <1>2, <2>1 DEF StopKinds, EndKinds
<1> DEFINE part == SubSeq(f, t, n - 1)
<1>4. /\ IsList(part) /\ Len(part) = n - t /\ \A i \in 1..n - t : part[i] = f[t + i - 1]
      /\ Before(f, t) \o part = Before(f, n)
  BY <1>1, <1>3, BeforeJoin
<1> HIDE DEF part
<1>5. ASSUME NEW i \in 1..Len(part) PROVE part[i] \notin S
  <2>h. PICK h : h = t + i - 1
    OBVIOUS
  <2>1. h \in t..Len(f) /\ h < n /\ h \in Nat /\ part[i] = f[h]
    BY <1>2, <1>3, <1>4, <2>h
  <2>2. \A j \in 1..h : j \in 1..n - 1
    BY <1>2, <2>1
  <2>3. \A j \in 1..h : f[j].kind \notin EndKinds
    BY <1>1, <2>2
  <2>4. MetaKind(f[h]) = None
    BY <1>t, <2>1, <2>3 DEF Plain
  <2> QED
    BY <2>1, <2>4
<1>6. Chosen(part, S) = <<>>
  BY <1>4, <1>5, ChosenNone
<1>7. IsList(Before(f, t))
  BY <1>2, BeforeList
<1>8. Chosen(Before(f, t) \o part, S) = Chosen(Before(f, t), S) \o Chosen(part, S)
  <2>1. IsList(part)
    BY <1>4
  <2> QED
    BY <1>7, <2>1, ChosenConcat
<1>9. IsList(Chosen(Before(f, t), S))
  BY <1>7, ChosenType
<1>10. Chosen(Before(f, t), S) \o <<>> = Chosen(Before(f, t), S)
  BY <1>9, ConcatEmpty
<1> QED
  BY <1>1, <1>4, <1>6, <1>8, <1>10, <1>t

LEMMA ReadableList ==
    ASSUME NEW f, IsList(f)
    PROVE  /\ IsList(Readable(f)) /\ Len(Readable(f)) \in Nat /\ Len(f) \in Nat /\ Len(Readable(f)) <= Len(f)
           /\ \A i \in 1..Len(Readable(f)) : Readable(f)[i] = f[i] /\ i \in 1..Len(f)
<1>1. PICK n \in 1..Len(f) + 1 : Readable(f) = Before(f, n)
  BY ReadableIs
<1>2. IsList(Before(f, n)) /\ Len(Before(f, n)) = n - 1 /\ \A i \in 1..n - 1 : Before(f, n)[i] = f[i]
  BY BeforeList
<1>3. Len(f) \in Nat
  BY ListDomain
<1> QED
  BY <1>1, <1>2, <1>3

(* What a call leaves: p before the image data, where there was b.         *)
IsDone(p, b, rest) ==
    /\ IsList(p) /\ IsList(b) /\ IsList(rest) /\ file' = p \o rest /\ file = b \o rest
    /\ p = Before(file', TailFrom(file')) /\ b = Before(file, TailFrom(file))
    /\ TailFrom(file') = Len(p) + 1 /\ TailFrom(file) = Len(b) + 1
    /\ \A i \in 1..Len(b) : b[i].kind \notin StopKinds
    /\ Staying(call, p) = Staying(call, b)
    /\ \A k \in Meta : NewOf(call, k, p) = IF Has(k) THEN Block(k) ELSE <<>>

LEMMA FinishDone ==
    ASSUME Inv, PartsInv, Finish
    PROVE  \E p, b, rest : IsDone(p, b, rest)
<1>n. PICK n : n = plan.tail
  OBVIOUS
<1>p. PICK p : p = Copied(n)
  OBVIOUS
<1>b. PICK b : b = Before(file, n)
  OBVIOUS
<1>r. PICK rest : rest = From(file, n)
  OBVIOUS
<1>1. put # None /\ put = {} /\ plan.drops = <<>>
  BY DEF Finish, Writing, PutIsNext, DropIsNext
<1>2. /\ IsList(p) /\ IsList(rest) /\ file' = p \o rest /\ Staying(call, p) = Staying(call, b)
      /\ Len(rest) = Len(file) - n + 1 /\ \A i \in 1..Len(file) - n + 1 : rest[i] = file[n + i - 1]
  BY <1>n, <1>p, <1>b, <1>r, FinishOut DEF Finish
<1>3. /\ IsList(file) /\ n \in 1..Len(file) + 1 /\ TailFrom(file) = n /\ n \in Nat /\ Len(file) \in Nat
      /\ \A i \in 1..n - 1 : file[i].kind \notin StopKinds
  BY <1>1, <1>n, WriteAt, TailIs
<1>4. IsList(b) /\ Len(b) = n - 1 /\ \A i \in 1..n - 1 : b[i] = file[i]
  BY <1>3, <1>b, BeforeList
<1>5. p = Before(file', TailFrom(file'))
  BY <1>n, <1>p, FinishTail
<1>6. TailFrom(file') = Len(p) + 1
  <2>1. IsList(file')
    BY FinishInv DEF Inv
  <2>f. PICK f : f = file'
    OBVIOUS
  <2>2. TailFrom(f) \in 1..Len(f) + 1 /\ Len(f) \in Nat
    BY <2>1, <2>f, TailFromIs, ListDomain
  <2>3. Len(Before(f, TailFrom(f))) = TailFrom(f) - 1
    BY <2>1, <2>2, <2>f, BeforeList
  <2> QED
    BY <1>5, <2>2, <2>3, <2>f
<1>7. file = b \o rest
  <2>1. /\ IsList(b \o rest) /\ Len(b \o rest) = Len(b) + Len(rest)
        /\ \A i \in 1..Len(b) : (b \o rest)[i] = b[i]
        /\ \A i \in 1..Len(rest) : (b \o rest)[Len(b) + i] = rest[i]
    <3>1. IsList(b) /\ IsList(rest)
      BY <1>2, <1>4
    <3> QED
      BY <3>1, ConcatList
  <2>2. Len(b \o rest) = Len(file)
    BY <1>2, <1>3, <1>4, <2>1
  <2>3. ASSUME NEW i \in 1..Len(file) PROVE file[i] = (b \o rest)[i]
    <3>1. CASE i < n
      BY <3>1, <1>3, <1>4, <2>1
    <3>2. CASE ~(i < n)
      <4>h. PICK h : h = i - Len(b)
        OBVIOUS
      <4>1. h \in 1..Len(rest) /\ h \in 1..Len(file) - n + 1 /\ Len(b) + h = i /\ n + h - 1 = i
        BY <3>2, <1>2, <1>3, <1>4, <4>h
      <4> QED
        BY <1>2, <2>1, <4>1
    <3> QED
      BY <3>1, <3>2
  <2> QED
    BY <1>3, <2>1, <2>2, <2>3, ListEqual
<1>8. PartsOK(p, {})
  <2>1. n \in 1..plan.tail
    BY <1>3, <1>n
  <2>2. \A i \in cursor..n - 1 : i \notin Dropped
    BY <1>1, <2>1, NoDropBefore
  <2> QED
    BY <1>1, <1>p, <2>1, <2>2, CopyParts
<1>9. TailFrom(file) = Len(b) + 1 /\ b = Before(file, TailFrom(file)) /\ \A i \in 1..Len(b) : b[i].kind \notin StopKinds
  BY <1>3, <1>4, <1>b
<1> QED
  BY <1>2, <1>4, <1>5, <1>6, <1>7, <1>8, <1>9 DEF IsDone, PartsOK

LEMMA PlainMoves ==
    ASSUME NEW p, NEW b, NEW rest, IsList(p), IsList(b), IsList(rest),
           TailFrom(p \o rest) = Len(p) + 1, TailFrom(b \o rest) = Len(b) + 1, Plain(b \o rest)
    PROVE  Plain(p \o rest)
<1>1. Len(p) \in Nat /\ Len(b) \in Nat /\ Len(rest) \in Nat
  BY ListDomain
<1>f. PICK f, g : f = p \o rest /\ g = b \o rest
  OBVIOUS
<1>2. /\ Len(f) = Len(p) + Len(rest) /\ \A i \in 1..Len(rest) : f[Len(p) + i] = rest[i]
      /\ Len(g) = Len(b) + Len(rest) /\ \A i \in 1..Len(rest) : g[Len(b) + i] = rest[i]
      /\ IsList(g)
  BY <1>f, ConcatList
<1>3. TailFrom(f) = Len(p) + 1 /\ TailFrom(g) = Len(b) + 1 /\ Plain(g)
  BY <1>f
<1>4. \A i \in 1..Len(b) : g[i].kind \notin StopKinds
  <2>1. \A i \in 1..TailFrom(g) - 1 : g[i].kind \notin StopKinds
    BY <1>2, TailFromIs
  <2> QED
    BY <1>1, <1>3, <2>1
<1>5. ASSUME NEW i \in TailFrom(f)..Len(f), \A j \in 1..i : f[j].kind \notin EndKinds
      PROVE  MetaKind(f[i]) = None
  <2>h. PICK h : h = i - Len(p)
    OBVIOUS
  <2>k. PICK k : k = Len(b) + h
    OBVIOUS
  <2>1. h \in 1..Len(rest) /\ h \in Nat /\ k \in Nat /\ Len(p) + h = i /\ i \in Nat
    BY <1>1, <1>2, <1>3, <2>h, <2>k
  <2>2. f[i] = g[k]
    BY <1>2, <2>1, <2>k
  <2>3. k \in TailFrom(g)..Len(g)
    BY <1>1, <1>2, <1>3, <2>1, <2>k
  <2>4. ASSUME NEW j \in 1..k PROVE g[j].kind \notin EndKinds
    <3>1. CASE j <= Len(b)
      <4>1. j \in 1..Len(b)
        BY <1>1, <2>1, <3>1
      <4> QED
        BY <1>4, <4>1 DEF StopKinds, EndKinds
    <3>2. CASE ~(j <= Len(b))
      <4>e. PICK e : e = j - Len(b)
        OBVIOUS
      <4>1. e \in 1..Len(rest) /\ Len(b) + e = j /\ Len(p) + e \in 1..i
        BY <1>1, <2>1, <2>k, <3>2, <4>e
      <4>2. g[j] = f[Len(p) + e]
        BY <1>2, <4>1
      <4> QED
        BY <1>5, <4>1, <4>2
    <3> QED
      BY <3>1, <3>2
  <2> QED
    BY <1>3, <2>2, <2>3, <2>4 DEF Plain
<1>6. Plain(f)
  BY <1>5 DEF Plain
<1> QED
  BY <1>6, <1>f

LEMMA FinishPlain ==
    ASSUME Inv, PartsInv, Finish
    PROVE  Plain(file') <=> Plain(file)
<1>1. PICK p, b, rest : IsDone(p, b, rest)
  BY FinishDone
<1>f. PICK f, g : f = file' /\ g = file
  OBVIOUS
<1>2. /\ IsList(p) /\ IsList(b) /\ IsList(rest) /\ f = p \o rest /\ g = b \o rest
      /\ TailFrom(f) = Len(p) + 1 /\ TailFrom(g) = Len(b) + 1
  BY <1>1, <1>f DEF IsDone
<1>3. /\ IsList(p) /\ IsList(b) /\ IsList(rest)
      /\ TailFrom(p \o rest) = Len(p) + 1 /\ TailFrom(b \o rest) = Len(b) + 1
  BY <1>2
<1>4. Plain(p \o rest) <=> Plain(b \o rest)
  BY <1>3, PlainMoves
<1> QED
  BY <1>2, <1>4, <1>f

(* The segments of a kind that a reader finds: all those of the source,    *)
(* where they stay, and none but those put in, where they do not.          *)
LEMMA Reads ==
    ASSUME Inv, PartsInv, Finish, Plain(file), NEW k \in Meta, NEW S, \A s \in S : MetaKind(s) = k
    PROVE  /\ (\A s \in S : Stays(call, s)) => Chosen(Readable(file'), S) = Chosen(Readable(file), S)
           /\ (\A s \in S : ~Stays(call, s)) =>
                Chosen(Readable(file'), S) = Chosen(IF Has(k) THEN Block(k) ELSE <<>>, S)
<1>1. PICK p, b, rest : IsDone(p, b, rest)
  BY FinishDone
<1>2. /\ IsList(p) /\ IsList(b) /\ Staying(call, p) = Staying(call, b)
      /\ p = Before(file', TailFrom(file')) /\ b = Before(file, TailFrom(file))
      /\ NewOf(call, k, p) = IF Has(k) THEN Block(k) ELSE <<>>
  BY <1>1 DEF IsDone
<1>f. PICK f, g, c : f = file' /\ g = file /\ c = call
  OBVIOUS
<1>3. IsList(f) /\ IsList(g) /\ Plain(f) /\ Plain(g)
  BY <1>f, FinishInv, FinishPlain DEF Inv
<1>4. \A s \in S : MetaKind(s) # None
  BY IsNoMeta
<1>5. Chosen(Readable(f), S) = Chosen(p, S) /\ Chosen(Readable(g), S) = Chosen(b, S)
  <2>1. Chosen(Readable(f), S) = Chosen(Before(f, TailFrom(f)), S)
    BY <1>3, <1>4, ReadPlain
  <2>2. Chosen(Readable(g), S) = Chosen(Before(g, TailFrom(g)), S)
    BY <1>3, <1>4, ReadPlain
  <2> QED
    BY <1>2, <1>f, <2>1, <2>2
<1>6. ASSUME \A s \in S : Stays(c, s) PROVE Chosen(p, S) = Chosen(b, S)
  <2>1. IsList(p) /\ IsList(b) /\ Staying(c, p) = Staying(c, b)
    BY <1>2, <1>f
  <2> QED
    BY <1>6, <2>1, SameStaying
<1>7. ASSUME \A s \in S : ~Stays(c, s) PROVE Chosen(p, S) = Chosen(NewOf(c, k, p), S)
  <2> DEFINE T == {s \in Range(p) : IsGone(c, k, s)}
  <2>1. DOMAIN p = 1..Len(p)
    BY <1>2, ListDomain
  <2>2. \A i \in 1..Len(p) : p[i] \in S => p[i] \in T
    BY <1>7, <2>1 DEF Range, IsGone
  <2>3. NewOf(c, k, p) = Chosen(p, T)
    BY DEF NewOf
  <2>4. IsList(p)
    BY <1>2
  <2> HIDE DEF T
  <2>5. Chosen(Chosen(p, T), S) = Chosen(p, S)
    BY <2>2, <2>4, ChosenWithin
  <2> QED
    BY <2>3, <2>5
<1> QED
  BY <1>2, <1>5, <1>6, <1>7, <1>f

(* What the readers make of the segments of a kind.                        *)
IdOf(s) == IF s = <<>> THEN None ELSE s[1].id
EXIFSegments(R) == {s \in R : s.kind = "EXIF"}
PSSegments(R) == {s \in R : s.kind = "PS"}
Packets(R) == {s \in R : s.kind = "XMP"}
ChunksOf(R, guid) == {s \in R : IsChunkOf(s, guid)}
ExtensionOf(parts, guid) ==
    CASE guid = None \/ parts = <<>> -> "none"
      [] guid # None /\ Len(parts) = 2 /\ {parts[1].part, parts[2].part} = {1, 2} -> "whole"
      [] OTHER -> "broken"

LEMMA ElementIn == ASSUME NEW s, IsList(s), NEW i \in 1..Len(s) PROVE s[i] \in Range(s)
BY ListDomain DEF Range

(* Any set that has the elements may be taken to choose from.              *)
LEMMA ReadIs ==
    ASSUME NEW f, IsList(f), NEW R, \A i \in 1..Len(f) : f[i] \in R, NEW guid
    PROVE  /\ ReadEXIF(f) = IdOf(Chosen(Readable(f), EXIFSegments(R)))
           /\ Resources(f) = [i \in DOMAIN Chosen(Readable(f), PSSegments(R)) |->
                                Chosen(Readable(f), PSSegments(R))[i].irb]
           /\ Extension(f, guid) = ExtensionOf(Chosen(Readable(f), ChunksOf(R, guid)), guid)
           /\ (\E i \in DOMAIN Readable(f) : IsChunkOf(f[i], guid)) <=> Chosen(Readable(f), ChunksOf(R, guid)) # <<>>
           /\ ReadXMP(f) = LET c == Chosen(Readable(f), Packets(R))
                           IN IF c = <<>> THEN None ELSE [id |-> c[1].id, extension |-> Extension(f, c[1].guid)]
<1>r. PICK r : r = Readable(f)
  OBVIOUS
<1>1. /\ IsList(r) /\ Len(r) \in Nat /\ DOMAIN r = 1..Len(r)
      /\ \A i \in 1..Len(r) : r[i] = f[i] /\ r[i] \in R /\ r[i] \in Range(r)
  <2>1. IsList(r) /\ Len(r) \in Nat /\ \A i \in 1..Len(r) : r[i] = f[i] /\ i \in 1..Len(f)
    BY <1>r, ReadableList
  <2> QED
    BY <2>1, ElementIn, ListDomain
<1>2. ReadEXIF(f) = IdOf(Chosen(r, EXIFSegments(R)))
  <2> DEFINE S == EXIFSegments(R)
             I == {i \in 1..Len(r) : r[i].kind = "EXIF"}
  <2>j. PICK j : j = IF I # {} THEN Min(I) ELSE 0
    OBVIOUS
  <2>1. ReadEXIF(f) = IF j = 0 THEN None ELSE r[j].id
    BY <1>r, <2>j DEF ReadEXIF, FirstId, SelectInSeq
  <2>2. I = {i \in 1..Len(r) : r[i] \in S} /\ I \subseteq Nat
    BY <1>1 DEF EXIFSegments
  <2>3. Marks(j, {i \in 1..Len(r) : r[i] \in S})
    <3> HIDE DEF I
    <3> QED
      BY <2>2, <2>j, LeastMarks
  <2> HIDE DEF S
  <2>4. (j = 0 <=> Chosen(r, S) = <<>>) /\ (j # 0 => Chosen(r, S)[1] = r[j])
    BY <1>1, <2>3, ChosenFirst
  <2> QED
    BY <2>1, <2>4 DEF IdOf, S
<1>3. ReadXMP(f) = LET c == Chosen(r, Packets(R))
                   IN IF c = <<>> THEN None ELSE [id |-> c[1].id, extension |-> Extension(f, c[1].guid)]
  <2> DEFINE S == Packets(R)
             I == {i \in 1..Len(r) : r[i].kind = "XMP"}
  <2>j. PICK j : j = IF I # {} THEN Min(I) ELSE 0
    OBVIOUS
  <2>1. ReadXMP(f) = IF j = 0 THEN None ELSE [id |-> f[j].id, extension |-> Extension(f, f[j].guid)]
    BY <1>r, <2>j DEF ReadXMP, SelectInSeq
  <2>2. I = {i \in 1..Len(r) : r[i] \in S} /\ I \subseteq Nat
    BY <1>1 DEF Packets
  <2>3. Marks(j, {i \in 1..Len(r) : r[i] \in S})
    <3> HIDE DEF I
    <3> QED
      BY <2>2, <2>j, LeastMarks
  <2> HIDE DEF S
  <2>4. (j = 0 <=> Chosen(r, S) = <<>>) /\ (j # 0 => j \in 1..Len(r) /\ Chosen(r, S)[1] = r[j])
    BY <1>1, <2>3, ChosenFirst
  <2>5. j # 0 => Chosen(r, S)[1] = f[j]
    BY <1>1, <2>4
  <2> QED
    BY <2>1, <2>4, <2>5 DEF S
<1>4. Resources(f) = [i \in DOMAIN Chosen(r, PSSegments(R)) |-> Chosen(r, PSSegments(R))[i].irb]
  <2> DEFINE S == {s \in Range(r) : s.kind = "PS"}
             T == PSSegments(R)
  <2>1. \A i \in 1..Len(r) : r[i] \in S <=> r[i] \in T
    BY <1>1 DEF PSSegments
  <2>2. Resources(f) = [i \in DOMAIN Chosen(r, S) |-> Chosen(r, S)[i].irb]
    BY <1>r DEF Resources
  <2> HIDE DEF S, T
  <2>3. Chosen(r, S) = Chosen(r, T)
    BY <1>1, <2>1, ChosenSame
  <2> QED
    BY <2>2, <2>3 DEF T
<1>5. /\ Extension(f, guid) = ExtensionOf(Chosen(r, ChunksOf(R, guid)), guid)
      /\ (\E i \in DOMAIN r : IsChunkOf(f[i], guid)) <=> Chosen(r, ChunksOf(R, guid)) # <<>>
  <2> DEFINE S == {s \in Range(r) : IsChunkOf(s, guid)}
             T == ChunksOf(R, guid)
             I == {i \in 1..Len(r) : r[i] \in T}
  <2>1. \A i \in 1..Len(r) : r[i] \in S <=> r[i] \in T
    BY <1>1 DEF ChunksOf
  <2>2. Extension(f, guid) = ExtensionOf(Chosen(r, S), guid)
    BY <1>r DEF Extension, ExtensionOf
  <2>3. (\E i \in DOMAIN r : IsChunkOf(f[i], guid)) <=> I # {}
    BY <1>1 DEF ChunksOf
  <2>4. I \subseteq Nat
    BY <1>1
  <2> HIDE DEF S, T
  <2>5. Chosen(r, S) = Chosen(r, T)
    BY <1>1, <2>1, ChosenSame
  <2>j. PICK j : j = IF I # {} THEN Min(I) ELSE 0
    OBVIOUS
  <2>6. Marks(j, I)
    <3> HIDE DEF I
    <3> QED
      BY <2>4, <2>j, LeastMarks
  <2>7. j = 0 <=> I = {}
    BY <2>6 DEF Marks
  <2>8. j = 0 <=> Chosen(r, T) = <<>>
    BY <1>1, <2>6, ChosenFirst
  <2> QED
    BY <2>2, <2>3, <2>5, <2>7, <2>8 DEF T
<1> QED
  BY <1>2, <1>3, <1>4, <1>5, <1>r

LEMMA FinishCall ==
    ASSUME Inv, Finish
    PROVE  /\ CallInv /\ call # None /\ IsList(file) /\ IsList(file')
           /\ \A k \in Meta : Has(k) => IsList(Block(k)) /\ k \notin call.keep
<1>1. put # None
  BY DEF Finish, Writing
<1>2. CallInv /\ call # None /\ IsList(file)
  BY <1>1, WriteAt DEF Inv
<1>3. IsList(file')
  BY FinishInv DEF Inv
<1> QED
  BY <1>2, <1>3, BlockIs

LEMMA FinishEXIF ==
    ASSUME Inv, PartsInv, Finish, Plain(file)
    PROVE  ReadEXIF(file') = IF "EXIF" \in call.keep THEN ReadEXIF(file) ELSE call.EXIF
<1>f. PICK f, g, b : f = file' /\ g = file /\ b = Block("EXIF")
  OBVIOUS
<1>m. "EXIF" \in Meta
  BY DEF Meta
<1> DEFINE R == Range(f) \union Range(g) \union Range(b)
           S == EXIFSegments(R)
<1>1. CallInv /\ call # None /\ IsList(f) /\ IsList(g) /\ (Has("EXIF") => IsList(b))
  BY <1>f, <1>m, FinishCall
<1>2. /\ \A i \in 1..Len(f) : f[i] \in R
      /\ \A i \in 1..Len(g) : g[i] \in R
      /\ Has("EXIF") => \A i \in 1..Len(b) : b[i] \in R
  BY <1>1, ElementIn
<1>3. \A s \in S : s.kind = "EXIF" /\ MetaKind(s) = "EXIF"
  BY IsKinds DEF EXIFSegments
<1>s. \A s \in R : s.kind = "EXIF" => s \in S
  BY DEF EXIFSegments
<1> HIDE DEF R
<1>4. ReadEXIF(f) = IdOf(Chosen(Readable(f), S)) /\ ReadEXIF(g) = IdOf(Chosen(Readable(g), S))
  BY <1>1, <1>2, ReadIs
<1> HIDE DEF S
<1>5. CASE "EXIF" \in call.keep
  <2>1. \A s \in S : Stays(call, s)
    BY <1>3, <1>5 DEF Stays
  <2>2. Chosen(Readable(file'), S) = Chosen(Readable(file), S)
    BY <1>3, <1>m, <2>1, Reads
  <2> QED
    BY <1>4, <1>5, <1>f, <2>2
<1>6. CASE "EXIF" \notin call.keep
  <2>1. \A s \in S : ~Stays(call, s)
    BY <1>3, <1>6, <1>m, IsNoMeta DEF Stays, IsChunkOf
  <2>2. Chosen(Readable(file'), S) = Chosen(IF Has("EXIF") THEN b ELSE <<>>, S)
    BY <1>3, <1>f, <1>m, <2>1, Reads
  <2>3. (Has("EXIF") <=> pl.EXIF # None) /\ pl.EXIF = call.EXIF
    BY <1>1 DEF Has, CallInv
  <2>4. CASE Has("EXIF")
    <3>x. PICK x : x = Segment("EXIF", pl.EXIF)
      OBVIOUS
    <3>1. b = <<x>> /\ x.kind = "EXIF" /\ x.id = pl.EXIF
      BY <1>f, <3>x DEF Block, Segment
    <3>2. IsList(b) /\ Len(b) = 1 /\ b[1] = x
      BY <3>1, OneList
    <3>3. \A i \in 1..Len(b) : b[i] \in S
      BY <1>2, <1>s, <2>4, <3>1, <3>2
    <3>4. Chosen(b, S) = b
      BY <3>2, <3>3, ChosenAll
    <3>5. IdOf(b) = pl.EXIF
      BY <3>1, <3>2, EmptyList DEF IdOf
    <3> QED
      BY <1>4, <1>6, <1>f, <2>2, <2>3, <2>4, <3>4, <3>5
  <2>5. CASE ~Has("EXIF")
    <3>1. Chosen(<<>>, S) = <<>> /\ IdOf(<<>>) = None
      BY ChosenEmpty DEF IdOf
    <3> QED
      BY <1>4, <1>6, <1>f, <2>2, <2>3, <2>5, <3>1
  <2> QED
    BY <2>4, <2>5
<1> QED
  BY <1>5, <1>6

(* The XMP that a call writes: one packet, without or with a link to the   *)
(* extended XMP of the source, or a packet with extended XMP of its own.   *)
LEMMA XMPOut ==
    ASSUME CallInv, call # None, NEW x, x = call.XMP, x # None
    PROVE  /\ IsXMP(x) /\ Has("XMP")
           /\ \/ /\ Block("XMP") = <<Packet(x.id, None)>>
                 /\ x.form = "packet" \/ (x.form = "kept" /\ ~KeepsGUID(file, x))
              \/ Block("XMP") = <<Packet(x.id, x.guid)>> /\ x.form = "kept" /\ KeepsGUID(file, x)
              \/ \E guid : /\ guid # None /\ (AsksToKeep(x) => guid # x.guid)
                           /\ Block("XMP") = <<Packet(x.id, guid), Chunk(guid, 1), Chunk(guid, 2)>>
                           /\ x.form \in {"large", "wire"} \/ (x.form = "keptLarge" /\ ~KeepsGUID(file, x))
<1>1. IsXMP(x) /\ pl.XMP = Linked(file, x) /\ (KeepsGUID(file, x) => x.form # "keptLarge")
  BY DEF CallInv
<1>2. /\ x = [id |-> x.id, form |-> x.form, guid |-> x.guid] /\ x.id # None
      /\ x.form \in {"packet", "large", "wire", "kept", "keptLarge"}
      /\ x.form = "wire" => x.guid # None
      /\ AsksToKeep(x) => x.guid # x.id
      /\ \A f \in {"linked", "packet", "large"} : [x EXCEPT !.form = f] # None
  BY <1>1 DEF IsXMP
<1>3. CASE x.form \in {"packet", "large", "wire"}
  <2>1. ~AsksToKeep(x) /\ ~KeepsGUID(file, x)
    BY <1>3 DEF AsksToKeep, KeepsGUID
  <2>2. pl.XMP = x
    BY <1>1, <2>1 DEF Linked
  <2>3. Has("XMP")
    BY <2>2 DEF Has
  <2>4. CASE x.form = "packet"
    <3>1. Block("XMP") = <<Packet(x.id, None)>>
      BY <2>2, <2>4 DEF Block
    <3> QED
      BY <1>1, <2>3, <2>4, <3>1
  <2>5. CASE x.form = "large"
    <3>1. Block("XMP") = <<Packet(x.id, x.id), Chunk(x.id, 1), Chunk(x.id, 2)>>
      BY <2>2, <2>5 DEF Block
    <3> QED
      BY <1>1, <1>2, <2>1, <2>3, <2>5, <3>1
  <2>6. CASE x.form = "wire"
    <3>1. Block("XMP") = <<Packet(x.id, x.guid), Chunk(x.guid, 1), Chunk(x.guid, 2)>>
      BY <2>2, <2>6 DEF Block
    <3> QED
      BY <1>1, <1>2, <2>1, <2>3, <2>6, <3>1
  <2> QED
    BY <1>3, <2>4, <2>5, <2>6
<1>4. CASE x.form \in {"kept", "keptLarge"}
  <2>1. AsksToKeep(x)
    BY <1>4 DEF AsksToKeep
  <2>f. PICK f : f = IF KeepsGUID(file, x) THEN "linked" ELSE IF x.form = "kept" THEN "packet" ELSE "large"
    OBVIOUS
  <2>2. pl.XMP = [x EXCEPT !.form = f] /\ f \in {"linked", "packet", "large"}
    <3>1. pl.XMP = [x EXCEPT !.form = IF KeepsGUID(file, x) THEN "linked"
                                      ELSE IF x.form = "kept" THEN "packet" ELSE "large"]
      BY <1>1, <2>1 DEF Linked
    <3> QED
      BY <2>f, <3>1
  <2>3. pl.XMP = [id |-> x.id, form |-> f, guid |-> x.guid] /\ pl.XMP # None
    BY <1>2, <2>2
  <2>4. pl.XMP.id = x.id /\ pl.XMP.form = f /\ pl.XMP.guid = x.guid
    BY <2>3
  <2>5. Has("XMP")
    BY <2>3 DEF Has
  <2>6. CASE KeepsGUID(file, x)
    <3>1. Block("XMP") = <<Packet(x.id, x.guid)>>
      BY <2>4, <2>6, <2>f DEF Block
    <3> QED
      BY <1>1, <1>4, <2>5, <2>6, <3>1
  <2>7. CASE ~KeepsGUID(file, x) /\ x.form = "kept"
    <3>1. Block("XMP") = <<Packet(x.id, None)>>
      BY <2>4, <2>7, <2>f DEF Block
    <3> QED
      BY <1>1, <2>5, <2>7, <3>1
  <2>8. CASE ~KeepsGUID(file, x) /\ x.form = "keptLarge"
    <3>1. Block("XMP") = <<Packet(x.id, x.id), Chunk(x.id, 1), Chunk(x.id, 2)>>
      BY <2>4, <2>8, <2>f DEF Block
    <3> QED
      BY <1>1, <1>2, <2>1, <2>5, <2>8, <3>1
  <2> QED
    BY <1>4, <2>6, <2>7, <2>8
<1> QED
  BY <1>2, <1>3, <1>4

(* The two parts of the extended XMP that goes in are found.               *)
LEMMA TwoParts ==
    ASSUME NEW x, NEW guid, guid # None, NEW S,
           \A i \in 1..3 : <<x, Chunk(guid, 1), Chunk(guid, 2)>>[i] \in S <=> i # 1
    PROVE  ExtensionOf(Chosen(<<x, Chunk(guid, 1), Chunk(guid, 2)>>, S), guid) = "whole"
<1>b. PICK b, y, z : b = <<x, y, z>> /\ y = Chunk(guid, 1) /\ z = Chunk(guid, 2)
  OBVIOUS
<1>1. IsList(b) /\ Len(b) = 3 /\ b[1] = x /\ b[2] = y /\ b[3] = z
  BY <1>b, ThreeList
<1>2. b[1] \notin S /\ b[2] \in S /\ b[3] \in S
  BY <1>1, <1>b
<1>e. PICK e : e = <<>>
  OBVIOUS
<1>c. PICK c : c = [n \in 1..4 |-> Chosen(Before(b, n), S)]
  OBVIOUS
<1>3. c[1] = e
  <2>1. Chosen(Before(b, 1), S) = e
    BY <1>e, BeforeNone, ChosenEmpty
  <2> QED
    BY <1>c, <2>1
<1>s. ASSUME NEW n \in 1..3 PROVE c[n + 1] = IF b[n] \in S THEN Append(c[n], b[n]) ELSE c[n]
  <2>1. n \in 1..Len(b) /\ n \in 1..4 /\ n + 1 \in 1..4
    BY <1>1
  <2>2. IsList(b)
    BY <1>1
  <2>3. Chosen(Before(b, n + 1), S) = IF b[n] \in S THEN Append(Chosen(Before(b, n), S), b[n]) ELSE Chosen(Before(b, n), S)
    BY <2>1, <2>2, ChosenStep
  <2>4. c[n + 1] = Chosen(Before(b, n + 1), S) /\ c[n] = Chosen(Before(b, n), S)
    BY <1>c, <2>1
  <2> QED
    BY <2>3, <2>4
<1>4. c[2] = e
  <2>1. 1 \in 1..3 /\ 1 + 1 = 2
    OBVIOUS
  <2> QED
    BY <1>2, <1>3, <1>s, <2>1
<1>5. c[3] = Append(e, y)
  <2>1. 2 \in 1..3 /\ 2 + 1 = 3
    OBVIOUS
  <2> QED
    BY <1>1, <1>2, <1>4, <1>s, <2>1
<1>6. c[4] = Append(Append(e, y), z)
  <2>1. 3 \in 1..3 /\ 3 + 1 = 4
    OBVIOUS
  <2> QED
    BY <1>1, <1>2, <1>5, <1>s, <2>1
<1>7. c[4] = Chosen(b, S)
  <2>n. PICK n : n = 4
    OBVIOUS
  <2>1. Before(b, n) = b
    <3>1. n = Len(b) + 1
      BY <1>1, <2>n
    <3> QED
      BY <1>1, <3>1, BeforeAll
  <2>2. c[n] = Chosen(Before(b, n), S)
    BY <1>c, <2>n
  <2> QED
    BY <2>1, <2>2, <2>n
<1>u. PICK u : u = Append(e, y)
  OBVIOUS
<1>v. PICK v : v = Append(u, z)
  OBVIOUS
<1>8. IsList(u) /\ Len(u) = 1 /\ u[1] = y
  <2>1. IsList(e) /\ Len(e) = 0
    BY <1>e, EmptyList
  <2>2. IsList(Append(e, y)) /\ Len(Append(e, y)) = Len(e) + 1 /\ Append(e, y)[Len(e) + 1] = y
    BY <2>1, AppendList
  <2> QED
    BY <1>u, <2>1, <2>2
<1>9. Len(v) = 2 /\ v[1] = y /\ v[2] = z /\ IsList(v)
  <2>0. IsList(u)
    BY <1>8
  <2>1. /\ Len(Append(u, z)) = Len(u) + 1 /\ Append(u, z)[Len(u) + 1] = z /\ IsList(Append(u, z))
        /\ \A i \in 1..Len(u) : Append(u, z)[i] = u[i]
    BY <2>0, AppendList
  <2>2. 1 \in 1..Len(u)
    BY <1>8
  <2> QED
    BY <1>8, <1>v, <2>1, <2>2
<1>10. y.part = 1 /\ z.part = 2
  BY <1>b DEF Chunk, Segment
<1>11. v # <<>>
  BY <1>9, EmptyList
<1>12. ExtensionOf(v, guid) = "whole"
  BY <1>9, <1>10, <1>11 DEF ExtensionOf
<1>13. Chosen(b, S) = v
  BY <1>6, <1>7, <1>u, <1>v
<1> QED
  BY <1>12, <1>13, <1>b

LEMMA ChosenHead ==
    ASSUME NEW b, IsList(b), NEW S, 1 \in 1..Len(b), b[1] \in S
    PROVE  Chosen(b, S) # <<>> /\ Chosen(b, S)[1] = b[1]
<1>1. PICK j : j = 1
  OBVIOUS
<1>2. Marks(j, {i \in 1..Len(b) : b[i] \in S})
  BY <1>1 DEF Marks
<1>3. (j = 0 <=> Chosen(b, S) = <<>>) /\ (j # 0 => Chosen(b, S)[1] = b[j])
  BY <1>2, ChosenFirst
<1> QED
  BY <1>1, <1>3

LEMMA FinishXMP ==
    ASSUME Inv, PartsInv, Finish, Plain(file)
    PROVE  ReadXMP(file') = IF "XMP" \in call.keep THEN ReadXMP(file) ELSE XMPAfter(file, call)
<1>f. PICK f, g, b : f = file' /\ g = file /\ b = Block("XMP")
  OBVIOUS
<1>m. "XMP" \in Meta
  BY DEF Meta
<1> DEFINE R == Range(f) \union Range(g) \union Range(b)
           P == Packets(R)
           C(guid) == ChunksOf(R, guid)
           read == Chosen(Readable(f), P)
<1>1. CallInv /\ call # None /\ IsList(f) /\ IsList(g) /\ (Has("XMP") => IsList(b))
  BY <1>f, <1>m, FinishCall
<1>2. /\ \A i \in 1..Len(f) : f[i] \in R
      /\ \A i \in 1..Len(g) : g[i] \in R
      /\ Has("XMP") => \A i \in 1..Len(b) : b[i] \in R
  BY <1>1, ElementIn
<1>3. /\ \A s \in P : s.kind = "XMP" /\ MetaKind(s) = "XMP"
      /\ \A guid : \A s \in C(guid) : s.kind = "Ext" /\ s.guid = guid /\ MetaKind(s) = "XMP"
  <2>1. \A s \in P : s.kind = "XMP"
    BY DEF Packets
  <2>2. \A guid : \A s \in C(guid) : s.kind = "Ext" /\ s.guid = guid
    BY DEF ChunksOf, IsChunkOf
  <2>3. \A s : s.kind \in {"XMP", "Ext"} => MetaKind(s) = "XMP"
    BY DEF MetaKind
  <2> QED
    BY <2>1, <2>2, <2>3
<1>s. /\ \A s \in R : s.kind = "XMP" => s \in P
      /\ \A s \in R : \A guid : IsChunkOf(s, guid) <=> s \in C(guid)
  BY DEF Packets, ChunksOf
<1> HIDE DEF R
<1>4. /\ ReadXMP(f) = IF read = <<>> THEN None ELSE [id |-> read[1].id, extension |-> Extension(f, read[1].guid)]
      /\ \A guid : Extension(f, guid) = ExtensionOf(Chosen(Readable(f), C(guid)), guid)
  BY <1>1, <1>2, ReadIs
<1>5. /\ ReadXMP(g) = LET c == Chosen(Readable(g), P)
                      IN IF c = <<>> THEN None ELSE [id |-> c[1].id, extension |-> Extension(g, c[1].guid)]
      /\ \A guid : Extension(g, guid) = ExtensionOf(Chosen(Readable(g), C(guid)), guid)
      /\ \A guid : (\E i \in DOMAIN Readable(g) : IsChunkOf(g[i], guid)) <=> Chosen(Readable(g), C(guid)) # <<>>
  BY <1>1, <1>2, ReadIs
<1> HIDE DEF P, C
<1>6. CASE "XMP" \in call.keep
  <2>1. /\ \A s \in P : Stays(call, s)
        /\ \A guid : \A s \in C(guid) : Stays(call, s)
    BY <1>3, <1>6 DEF Stays
  <2>2. Chosen(Readable(file'), P) = Chosen(Readable(file), P)
    BY <1>3, <1>m, <2>1, Reads
  <2>3. ASSUME NEW guid PROVE Extension(f, guid) = Extension(g, guid)
    <3>1. (\A s \in C(guid) : MetaKind(s) = "XMP") /\ \A s \in C(guid) : Stays(call, s)
      BY <1>3, <2>1
    <3>2. Chosen(Readable(file'), C(guid)) = Chosen(Readable(file), C(guid))
      BY <1>m, <3>1, Reads
    <3> QED
      BY <1>4, <1>5, <1>f, <3>2
  <2> QED
    BY <1>4, <1>5, <1>6, <1>f, <2>2, <2>3
<1>7. CASE "XMP" \notin call.keep
  <2>1. \A s \in P : ~Stays(call, s)
    BY <1>3, <1>7, <1>m, IsNoMeta DEF Stays, IsChunkOf
  <2>2. Chosen(Readable(file'), P) = Chosen(IF Has("XMP") THEN b ELSE <<>>, P)
    BY <1>3, <1>f, <1>m, <2>1, Reads
  <2>3. read = Chosen(IF Has("XMP") THEN b ELSE <<>>, P)
    BY <1>f, <2>2
  <2> HIDE DEF read
  <2>4. CASE call.XMP = None
    <3>1. pl.XMP = None
      BY <1>1, <2>4 DEF CallInv, Linked, AsksToKeep
    <3>2. ~Has("XMP")
      BY <3>1 DEF Has
    <3>3. read = <<>>
      BY <2>3, <3>2, ChosenEmpty
    <3> QED
      BY <1>4, <1>7, <1>f, <2>4, <3>3 DEF XMPAfter
  <2>5. CASE call.XMP # None
    <3>x. PICK x : x = call.XMP
      OBVIOUS
    <3>1. x # None /\ Has("XMP") /\ IsList(b)
      BY <1>1, <2>5, <3>x, XMPOut
    <3>2. ASSUME NEW guid, 1 \in 1..Len(b), b[1] = Packet(x.id, guid)
          PROVE  ReadXMP(f) = [id |-> x.id, extension |-> Extension(f, guid)]
      <4>1. b[1].kind = "XMP" /\ b[1].id = x.id /\ b[1].guid = guid
        BY <3>2 DEF Packet, Segment
      <4>2. b[1] \in P
        BY <1>2, <1>s, <3>1, <3>2, <4>1
      <4>3. Chosen(b, P) # <<>> /\ Chosen(b, P)[1] = b[1]
        BY <3>1, <3>2, <4>2, ChosenHead
      <4> QED
        BY <1>4, <2>3, <3>1, <4>1, <4>3
    <3>3. XMPAfter(file, call) =
            [id |-> x.id,
             extension |-> CASE x.form = "packet" -> "none"
                             [] x.form \in {"large", "wire"} -> "whole"
                             [] OTHER -> IF KeepsGUID(g, x) \/ x.form = "kept"
                                         THEN Extension(g, x.guid) ELSE "whole"]
      BY <1>f, <2>5, <3>x DEF XMPAfter
    <3>4. CASE /\ b = <<Packet(x.id, None)>>
               /\ x.form = "packet" \/ (x.form = "kept" /\ ~KeepsGUID(g, x))
      <4>1. Len(b) = 1 /\ b[1] = Packet(x.id, None)
        BY <3>4, OneList
      <4>2. ReadXMP(f) = [id |-> x.id, extension |-> Extension(f, None)]
        BY <3>2, <4>1
      <4>3. Extension(f, None) = "none"
        BY <1>4 DEF ExtensionOf
      <4>4. CASE x.form = "packet"
        BY <1>7, <1>f, <3>3, <4>2, <4>3, <4>4
      <4>5. CASE x.form = "kept" /\ ~KeepsGUID(g, x)
        <5>1. ~(\E i \in DOMAIN Readable(g) : IsChunkOf(g[i], x.guid))
          BY <3>1, <4>5 DEF KeepsGUID, AsksToKeep
        <5>2. Chosen(Readable(g), C(x.guid)) = <<>>
          BY <1>5, <5>1
        <5>3. Extension(g, x.guid) = "none"
          BY <1>5, <5>2 DEF ExtensionOf
        <5> QED
          BY <1>7, <1>f, <3>3, <4>2, <4>3, <4>5, <5>3
      <4> QED
        BY <3>4, <4>4, <4>5
    <3>5. CASE b = <<Packet(x.id, x.guid)>> /\ x.form = "kept" /\ KeepsGUID(g, x)
      <4>1. Len(b) = 1 /\ b[1] = Packet(x.id, x.guid)
        BY <3>5, OneList
      <4>2. ReadXMP(f) = [id |-> x.id, extension |-> Extension(f, x.guid)]
        BY <3>2, <4>1
      <4>3. (\A s \in C(x.guid) : MetaKind(s) = "XMP") /\ \A s \in C(x.guid) : Stays(call, s)
        BY <1>3, <3>5, <3>x, <2>5 DEF Stays, AsksToKeep, IsChunkOf
      <4>4. Chosen(Readable(file'), C(x.guid)) = Chosen(Readable(file), C(x.guid))
        BY <1>m, <4>3, Reads
      <4>5. Extension(f, x.guid) = Extension(g, x.guid)
        BY <1>4, <1>5, <1>f, <4>4
      <4> QED
        BY <1>7, <1>f, <3>3, <3>5, <4>2, <4>5
    <3>6. ASSUME NEW guid, guid # None, AsksToKeep(x) => guid # x.guid,
                 b = <<Packet(x.id, guid), Chunk(guid, 1), Chunk(guid, 2)>>,
                 x.form \in {"large", "wire"} \/ (x.form = "keptLarge" /\ ~KeepsGUID(g, x))
          PROVE  ReadXMP(file') = XMPAfter(file, call)
      <4>1. /\ Len(b) = 3 /\ b[1] = Packet(x.id, guid) /\ b[2] = Chunk(guid, 1) /\ b[3] = Chunk(guid, 2)
        BY <3>6, ThreeList
      <4>2. ReadXMP(f) = [id |-> x.id, extension |-> Extension(f, guid)]
        BY <3>2, <4>1
      <4>3. (\A s \in C(guid) : MetaKind(s) = "XMP") /\ \A s \in C(guid) : ~Stays(call, s)
        BY <1>3, <1>7, <1>m, <3>6, <3>x, IsNoMeta DEF Stays, IsChunkOf
      <4>4. Chosen(Readable(file'), C(guid)) = Chosen(IF Has("XMP") THEN Block("XMP") ELSE <<>>, C(guid))
        BY <1>m, <4>3, Reads
      <4>5. Chosen(Readable(f), C(guid)) = Chosen(b, C(guid))
        BY <1>f, <3>1, <4>4
      <4>6. /\ ~IsChunkOf(b[1], guid) /\ IsChunkOf(b[2], guid) /\ IsChunkOf(b[3], guid)
        BY <4>1 DEF IsChunkOf, Packet, Chunk, Segment
      <4>7. ASSUME NEW i \in 1..3 PROVE b[i] \in C(guid) <=> i # 1
        <5>1. b[i] \in R
          BY <1>2, <3>1, <4>1
        <5>2. b[i] \in C(guid) <=> IsChunkOf(b[i], guid)
          BY <1>s, <5>1
        <5>3. i = 1 \/ i = 2 \/ i = 3
          OBVIOUS
        <5> QED
          BY <4>6, <5>2, <5>3
      <4>8. ExtensionOf(Chosen(b, C(guid)), guid) = "whole"
        BY <3>6, <4>7, TwoParts
      <4>9. Extension(f, guid) = "whole"
        BY <1>4, <4>5, <4>8
      <4>10. XMPAfter(file, call) = [id |-> x.id, extension |-> "whole"]
        BY <3>3, <3>6
      <4> QED
        BY <1>f, <4>2, <4>9, <4>10
    <3>7. \/ /\ b = <<Packet(x.id, None)>>
             /\ x.form = "packet" \/ (x.form = "kept" /\ ~KeepsGUID(g, x))
          \/ b = <<Packet(x.id, x.guid)>> /\ x.form = "kept" /\ KeepsGUID(g, x)
          \/ \E guid : /\ guid # None /\ (AsksToKeep(x) => guid # x.guid)
                       /\ b = <<Packet(x.id, guid), Chunk(guid, 1), Chunk(guid, 2)>>
                       /\ x.form \in {"large", "wire"} \/ (x.form = "keptLarge" /\ ~KeepsGUID(g, x))
      BY <1>1, <1>f, <2>5, <3>x, XMPOut
    <3> QED
      BY <1>7, <3>4, <3>5, <3>6, <3>7
  <2> QED
    BY <2>4, <2>5
<1> QED
  BY <1>6, <1>7
-----------------------------------------------------------------------------
(* What is chosen of joined lists is what is chosen of each.               *)
LEMMA FlattenChosen ==
    ASSUME NEW ss, AreLists(ss), NEW S
    PROVE  \E f : /\ f[0] = <<>> /\ \A k \in 1..Len(ss) : f[k] = f[k - 1] \o Chosen(ss[k], S)
                  /\ \A k \in 0..Len(ss) : IsList(f[k])
                  /\ Chosen(FlattenSeq(ss), S) = f[Len(ss)]
<1>1. PICK g : Joins(g, ss) /\ FlattenSeq(ss) = g[Len(ss)]
  BY FlattenIs
<1>2. Len(ss) \in Nat /\ \A k \in 1..Len(ss) : IsList(ss[k])
  BY ListDomain DEF AreLists
<1>3. /\ g[0] = <<>> /\ \A k \in 1..Len(ss) : g[k] = g[k - 1] \o ss[k]
      /\ \A k \in 0..Len(ss) : IsList(g[k])
  BY <1>1 DEF Joins
<1>f. PICK f : f = [k \in 0..Len(ss) |-> Chosen(g[k], S)]
  OBVIOUS
<1>4. f[0] = <<>>
  BY <1>2, <1>3, <1>f, ChosenEmpty
<1>5. ASSUME NEW k \in 1..Len(ss) PROVE f[k] = f[k - 1] \o Chosen(ss[k], S)
  <2>1. k \in 0..Len(ss) /\ k - 1 \in 0..Len(ss)
    BY <1>2
  <2>p. PICK p, x : p = g[k - 1] /\ x = ss[k]
    OBVIOUS
  <2>2. IsList(p) /\ IsList(x)
    BY <1>2, <1>3, <2>1, <2>p
  <2>3. Chosen(p \o x, S) = Chosen(p, S) \o Chosen(x, S)
    BY <2>2, ChosenConcat
  <2> QED
    BY <1>3, <1>f, <2>1, <2>3, <2>p
<1>6. ASSUME NEW k \in 0..Len(ss) PROVE IsList(f[k])
  <2>1. IsList(Chosen(g[k], S))
    BY <1>3, ChosenType
  <2> QED
    BY <1>f, <2>1
<1>7. Chosen(FlattenSeq(ss), S) = f[Len(ss)]
  BY <1>1, <1>2, <1>f
<1> QED
  BY <1>4, <1>5, <1>6, <1>7

LEMMA FlattenSame ==
    ASSUME NEW ss, AreLists(ss), NEW s, IsList(s), Len(s) = Len(ss), NEW S, NEW T,
           \A i \in 1..Len(ss) : Chosen(ss[i], S) = IF s[i] \in T THEN <<s[i]>> ELSE <<>>
    PROVE  Chosen(FlattenSeq(ss), S) = Chosen(s, T)
<1>n. PICK n : n = Len(ss)
  OBVIOUS
<1>1. PICK f : /\ f[0] = <<>> /\ \A k \in 1..n : f[k] = f[k - 1] \o Chosen(ss[k], S)
               /\ \A k \in 0..n : IsList(f[k])
               /\ Chosen(FlattenSeq(ss), S) = f[n]
  BY <1>n, FlattenChosen
<1>2. n \in Nat /\ Len(s) = n
  BY <1>n, ListDomain
<1> DEFINE U == {k \in 0..n : f[k] = Chosen(Before(s, k + 1), T)}
<1>3. 0 \in U
  <2>1. Chosen(Before(s, 1), T) = <<>> /\ 0 + 1 = 1
    BY BeforeNone, ChosenEmpty
  <2> QED
    BY <1>1, <1>2, <2>1
<1>4. ASSUME NEW k \in 1..n, k - 1 \in U PROVE k \in U
  <2>1. k - 1 + 1 = k /\ k \in 0..n /\ k - 1 \in 0..n /\ k \in 1..Len(s)
    BY <1>2
  <2>2. f[k - 1] = Chosen(Before(s, k), T)
    BY <1>4, <2>1
  <2>3. Chosen(Before(s, k + 1), T) = IF s[k] \in T THEN Append(Chosen(Before(s, k), T), s[k]) ELSE Chosen(Before(s, k), T)
    BY <2>1, ChosenStep
  <2>p. PICK p, x : p = f[k - 1] /\ x = s[k]
    OBVIOUS
  <2>4. IsList(p) /\ p \o <<x>> = Append(p, x) /\ p \o <<>> = p
    BY <1>1, <2>1, <2>p, AppendIs, ConcatEmpty
  <2>5. f[k] = p \o (IF x \in T THEN <<x>> ELSE <<>>)
    BY <1>1, <1>n, <2>p
  <2> QED
    BY <2>1, <2>2, <2>3, <2>4, <2>5, <2>p
<1> HIDE DEF U
<1>5. n \in U
  <2>1. \A k \in 0..n : k \in U
    BY <1>2, <1>3, <1>4, UpTo
  <2> QED
    BY <1>2, <2>1
<1>6. Before(s, n + 1) = s
  BY <1>2, BeforeAll
<1> QED
  BY <1>1, <1>5, <1>6 DEF U

LEMMA FlattenOne ==
    ASSUME NEW ss, AreLists(ss), NEW S, NEW at \in 0..Len(ss), NEW x, IsList(x),
           \A i \in 1..Len(ss) : Chosen(ss[i], S) = IF i = at THEN x ELSE <<>>
    PROVE  Chosen(FlattenSeq(ss), S) = IF at = 0 THEN <<>> ELSE x
<1>n. PICK n : n = Len(ss)
  OBVIOUS
<1>1. PICK f : /\ f[0] = <<>> /\ \A k \in 1..n : f[k] = f[k - 1] \o Chosen(ss[k], S)
               /\ Chosen(FlattenSeq(ss), S) = f[n]
  BY <1>n, FlattenChosen
<1>2. n \in Nat /\ at \in 0..n
  BY <1>n, ListDomain DEF AreLists
<1> DEFINE U == {k \in 0..n : f[k] = IF at = 0 \/ k < at THEN <<>> ELSE x}
<1>3. 0 \in U
  BY <1>1, <1>2
<1>4. ASSUME NEW k \in 1..n, k - 1 \in U PROVE k \in U
  <2>1. k - 1 + 1 = k /\ k \in 0..n /\ k - 1 \in 0..n
    BY <1>2
  <2>2. f[k] = f[k - 1] \o (IF k = at THEN x ELSE <<>>)
    BY <1>1, <1>n
  <2>3. <<>> \o x = x /\ x \o <<>> = x /\ <<>> \o <<>> = <<>>
    BY ConcatEmpty, EmptyList
  <2>4. f[k - 1] = IF at = 0 \/ k - 1 < at THEN <<>> ELSE x
    BY <1>4
  <2>5. CASE at = 0 \/ k < at
    <3>1. k # at /\ (at = 0 \/ k - 1 < at)
      BY <1>2, <2>5
    <3> QED
      BY <2>1, <2>2, <2>3, <2>4, <2>5, <3>1
  <2>6. CASE k = at
    <3>1. k - 1 < at /\ at # 0 /\ ~(k < at)
      BY <1>2, <2>6
    <3> QED
      BY <2>1, <2>2, <2>3, <2>4, <2>6, <3>1
  <2>7. CASE at # 0 /\ k > at
    <3>1. ~(k - 1 < at) /\ k # at /\ ~(k < at)
      BY <1>2, <2>7
    <3> QED
      BY <2>1, <2>2, <2>3, <2>4, <2>7, <3>1
  <2> QED
    BY <1>2, <2>5, <2>6, <2>7
<1> HIDE DEF U
<1>5. n \in U
  <2>1. \A k \in 0..n : k \in U
    BY <1>2, <1>3, <1>4, UpTo
  <2> QED
    BY <1>2, <2>1
<1> QED
  BY <1>1, <1>2, <1>5 DEF U
-----------------------------------------------------------------------------
(* Streams of Photoshop resources.                                         *)

IsResource(r) == r = [res |-> r.res, id |-> r.id, part |-> r.part]
Resourceful(s) == IsList(s) /\ \A i \in 1..Len(s) : IsResource(s[i])
NotCut(s) == IsList(s) /\ \A i \in 1..Len(s) : s[i].part \notin {"head", "rest"}

LEMMA StreamIs == ASSUME NEW s PROVE IsStream(s) <=> Resourceful(s)
<1>1. ASSUME IsStream(s) PROVE Resourceful(s)
  <2>1. IsList(s)
    BY <1>1, SeqIsList DEF IsStream
  <2> QED
    BY <1>1, <2>1, ListDomain DEF IsStream, Resourceful, IsResource
<1>2. ASSUME Resourceful(s) PROVE IsStream(s)
  <2>1. IsList(s)
    BY <1>2 DEF Resourceful
  <2>2. DOMAIN s = 1..Len(s) /\ s \in Seq({s[i] : i \in 1..Len(s)})
    BY <2>1, ListDomain, ListIsSeq
  <2>3. Range(s) = {s[i] : i \in 1..Len(s)}
    BY <2>2 DEF Range
  <2> QED
    BY <1>2, <2>2, <2>3 DEF IsStream, Resourceful, IsResource
<1> QED
  BY <1>1, <1>2

LEMMA ChosenIn ==
    ASSUME NEW s, IsList(s), NEW S, NEW i \in 1..Len(Chosen(s, S))
    PROVE  Chosen(s, S)[i] \in S /\ \E j \in 1..Len(s) : Chosen(s, S)[i] = s[j]
<1>c. PICK c : c = Chosen(s, S)
  OBVIOUS
<1> DEFINE E == {s[j] : j \in 1..Len(s)} \intersect S
<1>1. c \in Seq(E)
  BY <1>c, ChosenType
<1>2. i \in 1..Len(c)
  BY <1>c
<1>3. c[i] \in E
  <2> HIDE DEF E
  <2> QED
    BY <1>1, <1>2, ElementOfSeq
<1> QED
  BY <1>3, <1>c

LEMMA StartsIs ==
    ASSUME NEW s, IsList(s)
    PROVE  /\ IsList(Starts(s))
           /\ \A i \in 1..Len(Starts(s)) : /\ Starts(s)[i].part # "rest"
                                           /\ \E j \in 1..Len(s) : Starts(s)[i] = s[j]
           /\ (\A i \in 1..Len(s) : s[i].part # "rest") => Starts(s) = s
<1>S. PICK S : S = {r \in Range(s) : r.part # "rest"}
  OBVIOUS
<1>1. Starts(s) = Chosen(s, S)
  BY <1>S DEF Starts
<1>2. IsList(Chosen(s, S))
  BY ChosenType
<1>3. ASSUME NEW i \in 1..Len(Chosen(s, S))
      PROVE  Chosen(s, S)[i].part # "rest" /\ \E j \in 1..Len(s) : Chosen(s, S)[i] = s[j]
  <2>1. Chosen(s, S)[i] \in S /\ \E j \in 1..Len(s) : Chosen(s, S)[i] = s[j]
    BY ChosenIn
  <2> QED
    BY <2>1, <1>S
<1>4. ASSUME \A i \in 1..Len(s) : s[i].part # "rest" PROVE Chosen(s, S) = s
  <2>1. \A i \in 1..Len(s) : s[i] \in S
    BY <1>4, <1>S, ElementIn
  <2> QED
    BY <2>1, ChosenAll
<1> QED
  BY <1>1, <1>2, <1>3, <1>4

LEMMA WalkIs ==
    ASSUME NEW s, IsList(s)
    PROVE  /\ NotCut(Walk(s))
           /\ \A i \in 1..Len(Walk(s)) : \E j \in 1..Len(s) : Walk(s)[i] = s[j]
           /\ NotCut(s) => Walk(s) = s
<1> DEFINE I == {i \in 1..Len(s) : s[i].part = "head"}
<1>c. PICK cut : cut = IF I # {} THEN Min(I) ELSE 0
  OBVIOUS
<1>t. PICK t : t = IF cut = 0 THEN s ELSE SubSeq(s, 1, cut - 1)
  OBVIOUS
<1>1. Walk(s) = Starts(t)
  BY <1>c, <1>t DEF Walk, SelectInSeq
<1>2. Len(s) \in Nat /\ I \subseteq Nat
  BY ListDomain
<1>3. Marks(cut, I)
  <2> HIDE DEF I
  <2> QED
    BY <1>2, <1>c, LeastMarks
<1>4. IsList(t) /\ \A i \in 1..Len(t) : t[i].part # "head" /\ i \in 1..Len(s) /\ t[i] = s[i]
  <2>1. CASE cut = 0
    <3>1. I = {}
      BY <1>2, <1>3, <2>1 DEF Marks
    <3> QED
      BY <1>t, <2>1, <3>1
  <2>2. CASE cut # 0
    <3>1. cut \in 1..Len(s) /\ \A i \in I : cut <= i
      BY <1>3, <2>2 DEF Marks
    <3>2. t = Before(s, cut) /\ cut \in 1..Len(s) + 1 /\ cut \in Nat
      BY <1>2, <1>t, <2>2, <3>1 DEF Before
    <3>3. IsList(t) /\ Len(t) = cut - 1 /\ \A i \in 1..cut - 1 : t[i] = s[i]
      BY <3>2, BeforeList
    <3>4. ASSUME NEW i \in 1..Len(t) PROVE t[i].part # "head" /\ i \in 1..Len(s) /\ t[i] = s[i]
      <4>1. i \in 1..cut - 1 /\ i \in 1..Len(s) /\ ~(cut <= i)
        BY <1>2, <3>1, <3>2, <3>3
      <4> QED
        BY <3>1, <3>3, <4>1
    <3> QED
      BY <3>3, <3>4
  <2> QED
    BY <2>1, <2>2
<1>5. /\ IsList(Starts(t))
      /\ \A i \in 1..Len(Starts(t)) : /\ Starts(t)[i].part # "rest"
                                      /\ \E j \in 1..Len(t) : Starts(t)[i] = t[j]
      /\ (\A i \in 1..Len(t) : t[i].part # "rest") => Starts(t) = t
  <2>1. IsList(t)
    BY <1>4
  <2> QED
    BY <2>1, StartsIs
<1>6. NotCut(Walk(s))
  BY <1>1, <1>4, <1>5 DEF NotCut
<1>7. \A i \in 1..Len(Walk(s)) : \E j \in 1..Len(s) : Walk(s)[i] = s[j]
  <2>1. ASSUME NEW i \in 1..Len(Starts(t)) PROVE \E j \in 1..Len(s) : Starts(t)[i] = s[j]
    <3>1. PICK j \in 1..Len(t) : Starts(t)[i] = t[j]
      BY <1>5
    <3> QED
      BY <1>4, <3>1
  <2> QED
    BY <1>1, <2>1
<1>8. ASSUME NotCut(s) PROVE Walk(s) = s
  <2>1. I = {}
    BY <1>8 DEF NotCut
  <2>2. cut = 0
    BY <1>3, <2>1 DEF Marks
  <2>3. t = s
    BY <1>t, <2>2
  <2> QED
    BY <1>1, <1>5, <1>8, <2>3 DEF NotCut
<1> QED
  BY <1>6, <1>7, <1>8

LEMMA FlattenSingle == ASSUME NEW s, IsList(s) PROVE FlattenSeq(<<s>>) = s
<1>u. PICK u : u = <<s>>
  OBVIOUS
<1>1. IsList(u) /\ Len(u) = 1 /\ u[1] = s
  BY <1>u, OneList
<1>2. AreLists(u)
  BY <1>1 DEF AreLists
<1>3. PICK f : Joins(f, u) /\ FlattenSeq(u) = f[Len(u)]
  BY <1>2, FlattenIs
<1>4. f[0] = <<>> /\ \A k \in 1..1 : f[k] = f[k - 1] \o u[k]
  BY <1>1, <1>3 DEF Joins
<1>5. 1 \in 1..1 /\ 1 - 1 = 0
  OBVIOUS
<1>6. f[1] = <<>> \o s
  BY <1>1, <1>4, <1>5
<1>7. <<>> \o s = s
  BY ConcatEmpty
<1> QED
  BY <1>1, <1>3, <1>6, <1>7, <1>u

(* One stream that is not cut is joined as it is.                          *)
LEMMA JoinOne == ASSUME NEW s, NotCut(s) PROVE Join(<<s>>) = s
<1>J. PICK J : J = {k \in DOMAIN s : /\ s[k].part = "head" /\ k < Len(s)
                                      /\ s[k + 1] = [s[k] EXCEPT !.part = "rest"]}
  OBVIOUS
<1>1. IsList(s) /\ DOMAIN s = 1..Len(s) /\ \A i \in 1..Len(s) : s[i].part # "rest" /\ i \notin J
  BY <1>J, ListDomain DEF NotCut
<1>2. FlattenSeq(<<s>>) = s
  BY <1>1, FlattenSingle
<1>t. PICK t : t = [i \in DOMAIN s |-> IF i \in J THEN [s[i] EXCEPT !.part = "joined"] ELSE s[i]]
  OBVIOUS
<1>3. Join(<<s>>) = Starts(t)
  BY <1>2, <1>J, <1>t DEF Join
<1>4. t = [i \in 1..Len(s) |-> s[i]]
  BY <1>1, <1>t
<1>5. t = s
  BY <1>1, <1>4 DEF IsList
<1> QED
  BY <1>1, <1>3, <1>5, StartsIs

LEMMA JoinIs ==
    ASSUME NEW ss, AreLists(ss)
    PROVE  /\ IsList(Join(ss))
           /\ ss = <<>> => Join(ss) = <<>>
           /\ (\A i \in 1..Len(ss) : Resourceful(ss[i])) =>
                /\ Resourceful(Join(ss))
                /\ \A k \in 1..Len(Join(ss)) : \E i \in 1..Len(ss) : \E h \in 1..Len(ss[i]) :
                     Join(ss)[k].res = ss[i][h].res
<1>a. PICK all : all = FlattenSeq(ss)
  OBVIOUS
<1>J. PICK J : J = {k \in DOMAIN all : /\ all[k].part = "head" /\ k < Len(all)
                                      /\ all[k + 1] = [all[k] EXCEPT !.part = "rest"]}
  OBVIOUS
<1>1. /\ IsList(all) /\ Len(all) \in Nat /\ DOMAIN all = 1..Len(all)
      /\ \A j \in 1..Len(all) : \E i \in 1..Len(ss) : \E h \in 1..Len(ss[i]) : all[j] = ss[i][h]
  BY <1>a, FlattenFrom, ListDomain
<1>t. PICK t : t = [i \in DOMAIN all |-> IF i \in J THEN [all[i] EXCEPT !.part = "joined"] ELSE all[i]]
  OBVIOUS
<1>2. Join(ss) = Starts(t)
  BY <1>J, <1>a, <1>t DEF Join
<1>3. IsList(t) /\ Len(t) = Len(all)
  BY <1>1, <1>t DEF IsList
<1>4. /\ IsList(Starts(t))
      /\ \A i \in 1..Len(Starts(t)) : \E j \in 1..Len(t) : Starts(t)[i] = t[j]
  BY <1>3, StartsIs
<1>5. ASSUME ss = <<>> PROVE Join(ss) = <<>>
  <2>1. Len(ss) = 0
    BY <1>5, EmptyList
  <2>2. all = ss
    BY <1>a, <2>1 DEF FlattenSeq
  <2>3. t = <<>>
    BY <1>3, <2>1, <2>2, EmptyList
  <2>4. IsList(Starts(t)) /\ Len(Starts(t)) \in Nat
    BY <1>4, ListDomain
  <2>5. Len(Starts(t)) = 0
    BY <1>3, <1>4, <2>1, <2>2, <2>4
  <2> QED
    BY <1>2, <2>4, <2>5, EmptyList
<1>6. ASSUME \A i \in 1..Len(ss) : Resourceful(ss[i])
      PROVE  /\ Resourceful(Join(ss))
             /\ \A k \in 1..Len(Join(ss)) : \E i \in 1..Len(ss) : \E h \in 1..Len(ss[i]) :
                  Join(ss)[k].res = ss[i][h].res
  <2>1. ASSUME NEW j \in 1..Len(all) PROVE IsResource(t[j]) /\ t[j].res = all[j].res
    <3>i. PICK i \in 1..Len(ss) : \E h \in 1..Len(ss[i]) : all[j] = ss[i][h]
      BY <1>1, <1>3
    <3>1. PICK h \in 1..Len(ss[i]) : all[j] = ss[i][h]
      BY <3>i
    <3>r. PICK r : r = all[j]
      OBVIOUS
    <3>2. r = [res |-> r.res, id |-> r.id, part |-> r.part]
      BY <1>6, <3>1, <3>r DEF Resourceful, IsResource
    <3>3. t[j] = IF j \in J THEN [r EXCEPT !.part = "joined"] ELSE r
      BY <1>1, <1>t, <3>r
    <3>4. [r EXCEPT !.part = "joined"] = [res |-> r.res, id |-> r.id, part |-> "joined"]
      BY <3>2
    <3>q. PICK q : q = [res |-> r.res, id |-> r.id, part |-> "joined"]
      OBVIOUS
    <3>5. IsResource(q) /\ q.res = r.res /\ IsResource(r)
      BY <3>2, <3>q DEF IsResource
    <3> QED
      BY <3>3, <3>4, <3>5, <3>q, <3>r
  <2>2. ASSUME NEW k \in 1..Len(Starts(t))
        PROVE  /\ IsResource(Starts(t)[k])
               /\ \E i \in 1..Len(ss) : \E h \in 1..Len(ss[i]) : Starts(t)[k].res = ss[i][h].res
    <3>1. PICK j \in 1..Len(all) : Starts(t)[k] = t[j]
      BY <1>3, <1>4
    <3>2. PICK i \in 1..Len(ss) : \E h \in 1..Len(ss[i]) : all[j] = ss[i][h]
      BY <1>1
    <3> QED
      BY <2>1, <3>1, <3>2
  <2>u. PICK u : u = Starts(t)
    OBVIOUS
  <2>3. IsList(u) /\ \A k \in 1..Len(u) : /\ IsResource(u[k])
                                          /\ \E i \in 1..Len(ss) : \E h \in 1..Len(ss[i]) : u[k].res = ss[i][h].res
    BY <1>4, <2>2, <2>u
  <2>4. Resourceful(u)
    BY <2>3 DEF Resourceful
  <2>5. Join(ss) = u
    BY <1>2, <2>u
  <2> QED
    BY <2>3, <2>4, <2>5
<1> QED
  BY <1>2, <1>4, <1>5, <1>6

LEMMA ChosenSingle == ASSUME NEW x, NEW S PROVE Chosen(<<x>>, S) = IF x \in S THEN <<x>> ELSE <<>>
<1>u. PICK u : u = <<x>>
  OBVIOUS
<1>1. IsList(u) /\ Len(u) = 1 /\ u[1] = x
  BY <1>u, OneList
<1>2. ASSUME x \in S PROVE Chosen(u, S) = u
  <2>1. \A i \in 1..Len(u) : u[i] \in S
    BY <1>1, <1>2
  <2> QED
    BY <1>1, <2>1, ChosenAll
<1>3. ASSUME x \notin S PROVE Chosen(u, S) = <<>>
  <2>1. \A i \in 1..Len(u) : u[i] \notin S
    BY <1>1, <1>3
  <2> QED
    BY <1>1, <2>1, ChosenNone
<1> QED
  BY <1>2, <1>3, <1>u

(* What a splice leaves, element by element: ss are the pieces that stand  *)
(* for the resources s, a and b the IPTC and the digest that are new.      *)
Fresh(new) == IF new = None THEN <<>> ELSE <<Resource("iptc", new)>>
IsSpliced(S, s, new, update, ss, place, digest) ==
    /\ S = (FlattenSeq(ss) \o (IF place = 0 THEN Fresh(new) ELSE <<>>))
           \o (IF update /\ digest = 0 THEN <<Resource("digest", new)>> ELSE <<>>)
    /\ IsList(ss) /\ Len(ss) = Len(s)
    /\ Marks(place, {i \in 1..Len(s) : IsIPTC(s[i])})
    /\ Marks(digest, {i \in 1..Len(s) : IsDigest(s[i])})
    /\ \A i \in 1..Len(s) :
        /\ IsIPTC(s[i]) => ss[i] = IF i = place THEN Fresh(new) ELSE <<>>
        /\ IsDigest(s[i]) /\ update => ss[i] = <<[s[i] EXCEPT !.id = new]>>
        /\ ~IsIPTC(s[i]) /\ ~(IsDigest(s[i]) /\ update) => ss[i] = <<s[i]>>

LEMMA SplicedIs ==
    ASSUME NEW orig, IsList(orig), NEW new, NEW w, NEW S, S = Splice(orig, new, w)
    PROVE  \E ss, place, digest : IsSpliced(S, Walk(orig), new, w /\ new # None, ss, place, digest)
<1> DEFINE s == Walk(orig)
           place == SelectInSeq(s, IsIPTC)
           digest == SelectInSeq(s, IsDigest)
           update == w /\ new # None
           fresh == IF new = None THEN <<>> ELSE <<Resource("iptc", new)>>
           now(i) == CASE IsIPTC(s[i]) -> IF i = place THEN fresh ELSE <<>>
                       [] IsDigest(s[i]) /\ update -> <<[s[i] EXCEPT !.id = new]>>
                       [] OTHER -> <<s[i]>>
           ss == [i \in DOMAIN s |-> now(i)]
<1>1. S = (FlattenSeq(ss) \o (IF place = 0 THEN fresh ELSE <<>>))
          \o (IF update /\ digest = 0 THEN <<Resource("digest", new)>> ELSE <<>>)
  BY DEF Splice
<1>2. ASSUME NEW i \in DOMAIN s PROVE ss[i] = now(i)
  BY <1>2
<1>3. fresh = Fresh(new)
  BY DEF Fresh
<1> HIDE DEF ss
<1>4. ASSUME NEW i \in DOMAIN s
      PROVE  /\ IsIPTC(s[i]) => ss[i] = IF i = place THEN fresh ELSE <<>>
             /\ IsDigest(s[i]) /\ update => ss[i] = <<[s[i] EXCEPT !.id = new]>>
             /\ ~IsIPTC(s[i]) /\ ~(IsDigest(s[i]) /\ update) => ss[i] = <<s[i]>>
  <2>x. PICK x, p, u, f : x = s[i] /\ p = place /\ u = update /\ f = fresh
    OBVIOUS
  <2>1. ss[i] = CASE IsIPTC(x) -> IF i = p THEN f ELSE <<>>
                  [] IsDigest(x) /\ u -> <<[x EXCEPT !.id = new]>>
                  [] OTHER -> <<x>>
    <3>1. ss[i] = now(i)
      BY <1>2
    <3> QED
      BY <2>x, <3>1
  <2>2. ~(IsIPTC(x) /\ IsDigest(x))
    BY DEF IsIPTC, IsDigest
  <2>3. /\ IsIPTC(x) => ss[i] = IF i = p THEN f ELSE <<>>
        /\ IsDigest(x) /\ u => ss[i] = <<[x EXCEPT !.id = new]>>
        /\ ~IsIPTC(x) /\ ~(IsDigest(x) /\ u) => ss[i] = <<x>>
    BY <2>1, <2>2
  <2> QED
    BY <2>3, <2>x
<1>5. IsList(s) /\ Len(s) \in Nat /\ DOMAIN s = 1..Len(s)
  <2>1. IsList(s)
    BY WalkIs DEF NotCut
  <2> HIDE DEF s
  <2> QED
    BY <2>1, ListDomain
<1>6. IsList(ss) /\ Len(ss) = Len(s)
  <2>1. ss = [i \in 1..Len(s) |-> now(i)]
    BY <1>5 DEF ss
  <2> HIDE DEF s, now
  <2> QED
    BY <1>5, <2>1 DEF IsList
<1> HIDE DEF s
<1> DEFINE P == {i \in 1..Len(s) : IsIPTC(s[i])}
           D == {i \in 1..Len(s) : IsDigest(s[i])}
<1>7. Marks(place, P) /\ Marks(digest, D)
  <2>1. place = (IF P # {} THEN Min(P) ELSE 0) /\ digest = (IF D # {} THEN Min(D) ELSE 0)
    BY DEF SelectInSeq
  <2>2. P \subseteq Nat /\ D \subseteq Nat
    OBVIOUS
  <2> HIDE DEF P, D, place, digest
  <2> QED
    BY <2>1, <2>2, LeastMarks
<1> HIDE DEF place, digest, update, fresh
<1>8. IsSpliced(S, s, new, update, ss, place, digest)
  BY <1>1, <1>3, <1>4, <1>5, <1>6, <1>7 DEF IsSpliced
<1> QED
  BY <1>8 DEF s, update

LEMMA FreshIs ==
    ASSUME NEW new
    PROVE  /\ IsList(Fresh(new)) /\ (new = None => Fresh(new) = <<>>)
           /\ new # None => Fresh(new) = <<Resource("iptc", new)>>
           /\ \A i \in 1..Len(Fresh(new)) : Fresh(new)[i] = Resource("iptc", new)
BY EmptyList, OneList DEF Fresh

(* All of a list that lists were joined to.                                *)
LEMMA AllOf ==
    ASSUME NEW s, IsList(s), NEW t, IsList(t), NEW G, \A i \in 1..Len(s) : s[i] \in G,
           \A i \in 1..Len(t) : t[i] \in G
    PROVE  \A i \in 1..Len(s \o t) : (s \o t)[i] \in G
<1>1. /\ Len(s \o t) = Len(s) + Len(t) /\ Len(s) \in Nat /\ Len(t) \in Nat
      /\ \A i \in 1..Len(s) : (s \o t)[i] = s[i]
      /\ \A i \in 1..Len(t) : (s \o t)[Len(s) + i] = t[i]
  <2>1. Len(s) \in Nat /\ Len(t) \in Nat
    BY ListDomain
  <2> QED
    BY <2>1, ConcatList
<1>2. ASSUME NEW i \in 1..Len(s \o t) PROVE (s \o t)[i] \in G
  <2>1. CASE i <= Len(s)
    <3>1. i \in 1..Len(s)
      BY <1>1, <2>1
    <3> QED
      BY <1>1, <3>1
  <2>2. CASE ~(i <= Len(s))
    <3>h. PICK h : h = i - Len(s)
      OBVIOUS
    <3>1. h \in 1..Len(t) /\ Len(s) + h = i
      BY <1>1, <2>2, <3>h
    <3> QED
      BY <1>1, <3>1
  <2> QED
    BY <2>1, <2>2
<1> QED
  BY <1>2

(* A splice leaves resources that are not cut; where it updates the digest *)
(* there is one, and every one is that of the new IPTC.                    *)
LEMMA SpliceGood ==
    ASSUME NEW orig, Resourceful(orig), NEW new, NEW w, NEW S, S = Splice(orig, new, w)
    PROVE  /\ NotCut(S) /\ Resourceful(S)
           /\ w /\ new # None => /\ \E i \in 1..Len(S) : IsDigest(S[i])
                                 /\ \A i \in 1..Len(S) : IsDigest(S[i]) => S[i].id = new
<1>u. PICK s, update : s = Walk(orig) /\ update = (w /\ new # None)
  OBVIOUS
<1>1. IsList(orig) /\ \A i \in 1..Len(orig) : IsResource(orig[i])
  BY DEF Resourceful
<1>2. PICK ss, place, digest : IsSpliced(S, s, new, update, ss, place, digest)
  <2>1. \E ss, place, digest : IsSpliced(S, Walk(orig), new, w /\ new # None, ss, place, digest)
    BY <1>1, SplicedIs
  <2> QED
    BY <1>u, <2>1
<1>3. /\ IsList(s) /\ Len(s) \in Nat
      /\ \A i \in 1..Len(s) : IsResource(s[i]) /\ s[i].part \notin {"head", "rest"}
  <2>1. /\ NotCut(s) /\ \A i \in 1..Len(s) : \E j \in 1..Len(orig) : s[i] = orig[j]
    BY <1>1, <1>u, WalkIs
  <2>2. IsList(s) /\ \A i \in 1..Len(s) : s[i].part \notin {"head", "rest"}
    BY <2>1 DEF NotCut
  <2>3. \A i \in 1..Len(s) : IsResource(s[i])
    BY <1>1, <2>1
  <2> QED
    BY <2>2, <2>3, ListDomain
<1>d. PICK x, y, f : x = Resource("iptc", new) /\ y = Resource("digest", new) /\ f = Fresh(new)
  OBVIOUS
<1>4. /\ x = [res |-> "iptc", id |-> new, part |-> "whole"]
      /\ y = [res |-> "digest", id |-> new, part |-> "whole"]
      /\ IsList(f) /\ \A i \in 1..Len(f) : f[i] = x
  BY <1>d, FreshIs DEF Resource
<1>F. PICK F, a, b : /\ F = FlattenSeq(ss) /\ a = (IF place = 0 THEN f ELSE <<>>)
                     /\ b = IF update /\ digest = 0 THEN <<y>> ELSE <<>>
  OBVIOUS
<1>5. /\ S = (F \o a) \o b
      /\ IsList(ss) /\ Len(ss) = Len(s)
      /\ Marks(digest, {i \in 1..Len(s) : IsDigest(s[i])})
      /\ \A i \in 1..Len(s) :
          /\ IsIPTC(s[i]) => ss[i] = IF i = place THEN f ELSE <<>>
          /\ IsDigest(s[i]) /\ update => ss[i] = <<[s[i] EXCEPT !.id = new]>>
          /\ ~IsIPTC(s[i]) /\ ~(IsDigest(s[i]) /\ update) => ss[i] = <<s[i]>>
  BY <1>2, <1>F, <1>d DEF IsSpliced
<1> DEFINE Fine(r) == /\ IsResource(r) /\ r.part \notin {"head", "rest"}
                      /\ update /\ IsDigest(r) => r.id = new
           E == {s[i] : i \in 1..Len(s)} \union {[s[i] EXCEPT !.id = new] : i \in 1..Len(s)} \union {x, y}
           G == {r \in E : Fine(r)}
<1>6. x \in G /\ y \in G
  <2>1. Fine(x) /\ Fine(y)
    BY <1>4 DEF IsResource, IsDigest
  <2> QED
    BY <2>1
<1>7. ASSUME NEW i \in 1..Len(s)
      PROVE  /\ [s[i] EXCEPT !.id = new] \in G
             /\ ~(IsDigest(s[i]) /\ update) => s[i] \in G
             /\ IsDigest(s[i]) => IsDigest([s[i] EXCEPT !.id = new])
  <2>r. PICK r, q : r = s[i] /\ q = [s[i] EXCEPT !.id = new]
    OBVIOUS
  <2>1. r = [res |-> r.res, id |-> r.id, part |-> r.part] /\ r.part \notin {"head", "rest"}
    BY <1>3, <2>r DEF IsResource
  <2>2. q = [res |-> r.res, id |-> new, part |-> r.part]
    BY <2>1, <2>r
  <2>3. Fine(q) /\ (~(IsDigest(r) /\ update) => Fine(r)) /\ (IsDigest(r) => IsDigest(q))
    BY <2>1, <2>2 DEF IsResource, IsDigest
  <2>4. q \in E /\ r \in E
    BY <2>r
  <2> HIDE DEF E
  <2> QED
    BY <2>3, <2>4, <2>r
<1>8. \A r \in G : Fine(r)
  OBVIOUS
<1> HIDE DEF G, E
<1>9. ASSUME NEW i \in 1..Len(s)
      PROVE  IsList(ss[i]) /\ \A h \in 1..Len(ss[i]) : ss[i][h] \in G
  <2>1. CASE IsIPTC(s[i])
    <3>1. ss[i] = f \/ ss[i] = <<>>
      BY <1>5, <2>1
    <3> QED
      BY <1>4, <1>6, <3>1, EmptyList
  <2>2. CASE IsDigest(s[i]) /\ update
    <3>x. PICK z : z = [s[i] EXCEPT !.id = new]
      OBVIOUS
    <3>1. ss[i] = <<z>> /\ z \in G
      BY <1>5, <1>7, <2>2, <3>x
    <3> QED
      BY <3>1, OneList
  <2>3. CASE ~IsIPTC(s[i]) /\ ~(IsDigest(s[i]) /\ update)
    <3>x. PICK z : z = s[i]
      OBVIOUS
    <3>1. ss[i] = <<z>> /\ z \in G
      BY <1>5, <1>7, <2>3, <3>x
    <3> QED
      BY <3>1, OneList
  <2> QED
    BY <2>1, <2>2, <2>3
<1>10. AreLists(ss)
  BY <1>5, <1>9 DEF AreLists
<1>11. IsList(F) /\ \A j \in 1..Len(F) : F[j] \in G
  <2>1. /\ IsList(F)
        /\ \A j \in 1..Len(F) : \E i \in 1..Len(ss) : \E h \in 1..Len(ss[i]) : F[j] = ss[i][h]
    BY <1>10, <1>F, FlattenFrom
  <2>2. ASSUME NEW j \in 1..Len(F) PROVE F[j] \in G
    <3>1. PICK i \in 1..Len(s) : \E h \in 1..Len(ss[i]) : F[j] = ss[i][h]
      BY <1>5, <2>1
    <3>2. PICK h \in 1..Len(ss[i]) : F[j] = ss[i][h]
      BY <3>1
    <3> QED
      BY <1>9, <3>2
  <2> QED
    BY <2>1, <2>2
<1>12. IsList(a) /\ \A j \in 1..Len(a) : a[j] \in G
  BY <1>4, <1>6, <1>F, EmptyList
<1>13. IsList(b) /\ \A j \in 1..Len(b) : b[j] \in G
  BY <1>6, <1>F, EmptyList, OneList
<1>14. IsList(F \o a) /\ \A j \in 1..Len(F \o a) : (F \o a)[j] \in G
  <2>1. IsList(F) /\ IsList(a)
    BY <1>11, <1>12
  <2>2. IsList(F \o a)
    BY <2>1, ConcatList
  <2> QED
    BY <1>11, <1>12, <2>2, AllOf
<1>e. PICK e : e = F \o a
  OBVIOUS
<1>15. IsList(S) /\ \A j \in 1..Len(S) : S[j] \in G
  <2>1. IsList(e) /\ IsList(b)
    BY <1>13, <1>14, <1>e
  <2>2. IsList(e \o b)
    BY <2>1, ConcatList
  <2>3. \A j \in 1..Len(e) : e[j] \in G
    BY <1>14, <1>e
  <2>4. \A j \in 1..Len(e \o b) : (e \o b)[j] \in G
    BY <1>13, <2>1, <2>3, AllOf
  <2> QED
    BY <1>5, <1>e, <2>2, <2>4
<1>16. NotCut(S) /\ Resourceful(S) /\ (update => \A i \in 1..Len(S) : IsDigest(S[i]) => S[i].id = new)
  BY <1>8, <1>15 DEF NotCut, Resourceful
<1>17. ASSUME update PROVE \E i \in 1..Len(S) : IsDigest(S[i])
  <2>0. /\ IsList(e) /\ IsList(b) /\ IsList(F) /\ IsList(a)
        /\ Len(e) \in Nat /\ Len(b) \in Nat /\ Len(F) \in Nat /\ Len(a) \in Nat
    BY <1>11, <1>12, <1>13, <1>14, <1>e, ListDomain
  <2>1. /\ Len(e \o b) = Len(e) + Len(b)
        /\ \A i \in 1..Len(e) : (e \o b)[i] = e[i]
        /\ \A i \in 1..Len(b) : (e \o b)[Len(e) + i] = b[i]
    BY <2>0, ConcatList
  <2>2. Len(F \o a) = Len(F) + Len(a) /\ \A i \in 1..Len(F) : (F \o a)[i] = F[i]
    BY <2>0, ConcatList
  <2>3. CASE digest = 0
    <3>1. b = <<y>>
      BY <1>17, <1>F, <2>3
    <3>2. Len(b) = 1 /\ b[1] = y
      BY <3>1, OneList
    <3>h. PICK h : h = Len(e) + 1
      OBVIOUS
    <3>3. h \in 1..Len(e \o b) /\ (e \o b)[h] = b[1]
      <4>1. 1 \in 1..Len(b)
        BY <3>2
      <4> QED
        BY <2>0, <2>1, <3>2, <3>h, <4>1
    <3>4. IsDigest(y)
      BY <1>4 DEF IsDigest
    <3> QED
      BY <1>5, <1>e, <3>2, <3>3, <3>4
  <2>4. CASE digest # 0
    <3>1. digest \in 1..Len(s) /\ IsDigest(s[digest])
      BY <1>5, <2>4 DEF Marks
    <3>z. PICK z : z = [s[digest] EXCEPT !.id = new]
      OBVIOUS
    <3>2. ss[digest] = <<z>> /\ IsDigest(z)
      BY <1>5, <1>7, <1>17, <3>1, <3>z
    <3>3. Len(ss[digest]) = 1 /\ ss[digest][1] = z
      BY <3>2, OneList
    <3>4. digest \in 1..Len(ss) /\ 1 \in 1..Len(ss[digest])
      BY <1>5, <3>1, <3>3
    <3>5. \E j \in 1..Len(FlattenSeq(ss)) : FlattenSeq(ss)[j] = ss[digest][1]
      BY <1>10, <3>4, FlattenHas
    <3>6. PICK j \in 1..Len(F) : F[j] = z
      BY <1>F, <3>3, <3>5
    <3>7. j \in 1..Len(e) /\ e[j] = z /\ j \in 1..Len(e \o b)
      BY <1>e, <2>0, <2>1, <2>2, <3>6
    <3> QED
      BY <1>5, <1>e, <2>1, <3>2, <3>7
  <2> QED
    BY <2>3, <2>4
<1> QED
  BY <1>16, <1>17, <1>u

(* A splice keeps the resources of other programs, and its IPTC is the new *)
(* one, or none.                                                           *)
IPTCs(R) == {r \in R : IsIPTC(r)}
OthersOf(R) == {r \in R : IsOther(r)}
LEMMA SpliceChosen ==
    ASSUME NEW orig, Resourceful(orig), NEW new, NEW w, NEW S, S = Splice(orig, new, w)
    PROVE  \E R : /\ \A i \in 1..Len(S) : S[i] \in R
                  /\ \A i \in 1..Len(Walk(orig)) : Walk(orig)[i] \in R
                  /\ Chosen(S, OthersOf(R)) = Chosen(Walk(orig), OthersOf(R))
                  /\ Chosen(S, IPTCs(R)) = Fresh(new)
<1>u. PICK s, update : s = Walk(orig) /\ update = (w /\ new # None)
  OBVIOUS
<1>1. IsList(orig) /\ \A i \in 1..Len(orig) : IsResource(orig[i])
  BY DEF Resourceful
<1>2. PICK ss, place, digest : IsSpliced(S, s, new, update, ss, place, digest)
  <2>1. \E ss, place, digest : IsSpliced(S, Walk(orig), new, w /\ new # None, ss, place, digest)
    BY <1>1, SplicedIs
  <2> QED
    BY <1>u, <2>1
<1>3. /\ IsList(s) /\ Len(s) \in Nat
      /\ \A i \in 1..Len(s) : IsResource(s[i])
  <2>1. /\ NotCut(s) /\ \A i \in 1..Len(s) : \E j \in 1..Len(orig) : s[i] = orig[j]
    BY <1>1, <1>u, WalkIs
  <2>2. IsList(s)
    BY <2>1 DEF NotCut
  <2>3. \A i \in 1..Len(s) : IsResource(s[i])
    BY <1>1, <2>1
  <2> QED
    BY <2>2, <2>3, ListDomain
<1>d. PICK x, y, f : x = Resource("iptc", new) /\ y = Resource("digest", new) /\ f = Fresh(new)
  OBVIOUS
<1>4. x.res = "iptc" /\ y.res = "digest" /\ IsList(f) /\ (f = <<>> \/ f = <<x>>)
  BY <1>d, FreshIs DEF Resource
<1>F. PICK F, a, b : /\ F = FlattenSeq(ss) /\ a = (IF place = 0 THEN f ELSE <<>>)
                     /\ b = IF update /\ digest = 0 THEN <<y>> ELSE <<>>
  OBVIOUS
<1>5. /\ S = (F \o a) \o b
      /\ IsList(ss) /\ Len(ss) = Len(s)
      /\ Marks(place, {i \in 1..Len(s) : IsIPTC(s[i])})
      /\ \A i \in 1..Len(s) :
          /\ IsIPTC(s[i]) => ss[i] = IF i = place THEN f ELSE <<>>
          /\ IsDigest(s[i]) /\ update => ss[i] = <<[s[i] EXCEPT !.id = new]>>
          /\ ~IsIPTC(s[i]) /\ ~(IsDigest(s[i]) /\ update) => ss[i] = <<s[i]>>
  BY <1>2, <1>F, <1>d DEF IsSpliced
<1>R. PICK R : R = Range(S) \union Range(s) \union {x, y}
  OBVIOUS
<1>O. PICK O, I : O = OthersOf(R) /\ I = IPTCs(R)
  OBVIOUS
<1>6. /\ \A r \in R : (r \in O <=> r.res = "other") /\ (r \in I <=> r.res = "iptc")
      /\ \A r : r.res = "digest" => r \notin O /\ r \notin I
      /\ x \in R /\ y \in R
      /\ \A i \in 1..Len(s) : s[i] \in R
  <2>1. \A i \in 1..Len(s) : s[i] \in Range(s)
    BY <1>3, ElementIn
  <2> QED
    BY <1>R, <1>O, <2>1 DEF OthersOf, IPTCs, IsOther, IsIPTC
<1>7. /\ Chosen(f, O) = <<>> /\ Chosen(f, I) = f
      /\ Chosen(<<y>>, O) = <<>> /\ Chosen(<<y>>, I) = <<>>
      /\ Chosen(<<>>, O) = <<>> /\ Chosen(<<>>, I) = <<>>
  <2>1. Chosen(<<>>, O) = <<>> /\ Chosen(<<>>, I) = <<>>
    BY ChosenEmpty
  <2>2. x \notin O /\ x \in I /\ y \notin O /\ y \notin I
    BY <1>4, <1>6
  <2> QED
    BY <1>4, <2>1, <2>2, ChosenSingle
<1>8. ASSUME NEW i \in 1..Len(s)
      PROVE  /\ IsList(ss[i])
             /\ Chosen(ss[i], O) = IF s[i] \in O THEN <<s[i]>> ELSE <<>>
             /\ Chosen(ss[i], I) = IF i = place THEN f ELSE <<>>
  <2>r. PICK r, q : r = s[i] /\ q = [s[i] EXCEPT !.id = new]
    OBVIOUS
  <2>1. r = [res |-> r.res, id |-> r.id, part |-> r.part] /\ r \in R
    BY <1>3, <1>6, <2>r DEF IsResource
  <2>p. place = i => IsIPTC(r)
    BY <1>3, <1>5, <2>r DEF Marks
  <2>2. CASE IsIPTC(r)
    <3>1. ss[i] = (IF i = place THEN f ELSE <<>>) /\ r \notin O
      BY <1>5, <1>6, <2>1, <2>2, <2>r DEF IsIPTC
    <3> QED
      BY <1>4, <1>7, <2>r, <3>1, EmptyList
  <2>3. CASE IsDigest(r) /\ update
    <3>1. ss[i] = <<q>> /\ i # place
      BY <1>5, <2>3, <2>p, <2>r DEF IsDigest, IsIPTC
    <3>2. q.res = "digest" /\ r.res = "digest"
      BY <2>1, <2>3, <2>r DEF IsDigest
    <3>3. q \notin O /\ q \notin I /\ r \notin O
      BY <1>6, <3>2
    <3> QED
      BY <2>r, <3>1, <3>3, ChosenSingle, OneList
  <2>4. CASE ~IsIPTC(r) /\ ~(IsDigest(r) /\ update)
    <3>1. ss[i] = <<r>> /\ i # place
      BY <1>5, <2>4, <2>p, <2>r
    <3>2. r \notin I
      BY <1>6, <2>1, <2>4 DEF IsIPTC
    <3> QED
      BY <2>r, <3>1, <3>2, ChosenSingle, OneList
  <2> QED
    BY <2>2, <2>3, <2>4
<1>9. AreLists(ss)
  BY <1>5, <1>8 DEF AreLists
<1>10. Chosen(F, O) = Chosen(s, O)
  BY <1>3, <1>5, <1>8, <1>9, <1>F, FlattenSame
<1>11. Chosen(F, I) = IF place = 0 THEN <<>> ELSE f
  <2>1. place \in 0..Len(ss)
    <3>1. place = 0 \/ place \in 1..Len(s)
      BY <1>5 DEF Marks
    <3> QED
      BY <1>3, <1>5, <3>1
  <2>2. \A i \in 1..Len(ss) : Chosen(ss[i], I) = IF i = place THEN f ELSE <<>>
    BY <1>5, <1>8
  <2>3. IsList(f)
    BY <1>4
  <2> QED
    BY <1>9, <1>F, <2>1, <2>2, <2>3, FlattenOne
<1>12. /\ Chosen(a, O) = <<>> /\ Chosen(a, I) = a
       /\ Chosen(b, O) = <<>> /\ Chosen(b, I) = <<>>
  BY <1>7, <1>F
<1>13. IsList(F) /\ IsList(a) /\ IsList(b)
  <2>1. IsList(F)
    BY <1>9, <1>F, FlattenFrom
  <2>2. IsList(a) /\ IsList(b)
    BY <1>4, <1>F, EmptyList, OneList
  <2> QED
    BY <2>1, <2>2
<1>14. ASSUME NEW X PROVE Chosen(S, X) = (Chosen(F, X) \o Chosen(a, X)) \o Chosen(b, X)
  <2>1. IsList(F \o a)
    BY <1>13, ConcatList
  <2>2. Chosen(F \o a, X) = Chosen(F, X) \o Chosen(a, X)
    BY <1>13, ChosenConcat
  <2>e. PICK e : e = F \o a
    OBVIOUS
  <2>3. Chosen(e \o b, X) = Chosen(e, X) \o Chosen(b, X)
    <3>1. IsList(e) /\ IsList(b)
      BY <1>13, <2>1, <2>e
    <3> QED
      BY <3>1, ChosenConcat
  <2> QED
    BY <1>5, <2>2, <2>3, <2>e
<1>15. Chosen(S, O) = Chosen(s, O)
  <2>c. PICK c : c = Chosen(s, O)
    OBVIOUS
  <2>1. IsList(c)
    BY <1>3, <2>c, ChosenType
  <2>2. Chosen(S, O) = (c \o <<>>) \o <<>>
    BY <1>10, <1>12, <1>14, <2>c
  <2>3. c \o <<>> = c
    BY <2>1, ConcatEmpty
  <2> QED
    BY <2>2, <2>3, <2>c
<1>16. Chosen(S, I) = f
  <2>1. Chosen(S, I) = ((IF place = 0 THEN <<>> ELSE f) \o a) \o <<>>
    BY <1>11, <1>12, <1>14
  <2>2. f \o <<>> = f /\ <<>> \o f = f
    BY <1>4, ConcatEmpty
  <2> QED
    BY <1>F, <2>1, <2>2
<1>17. \A i \in 1..Len(S) : S[i] \in R
  <2>1. IsList(S)
    BY SpliceGood DEF NotCut
  <2>2. \A i \in 1..Len(S) : S[i] \in Range(S)
    BY <2>1, ElementIn
  <2> QED
    BY <1>R, <2>2
<1> QED
  BY <1>6, <1>15, <1>16, <1>17, <1>O, <1>d, <1>u

LEMMA SpliceNothing == ASSUME NEW w PROVE Splice(<<>>, None, w) = <<>>
<1>z. PICK z, S, n : z = <<>> /\ S = Splice(z, n, w) /\ n = None
  OBVIOUS
<1>1. IsList(z) /\ Len(z) = 0 /\ NotCut(z)
  BY <1>z, EmptyList DEF NotCut
<1>2. Walk(z) = z
  BY <1>1, WalkIs
<1>3. PICK ss, place, digest : IsSpliced(S, z, n, w /\ n # None, ss, place, digest)
  <2>1. \E ss, place, digest : IsSpliced(S, Walk(z), n, w /\ n # None, ss, place, digest)
    BY <1>1, <1>z, SplicedIs
  <2> QED
    BY <1>2, <2>1
<1>4. /\ S = (FlattenSeq(ss) \o (IF place = 0 THEN Fresh(n) ELSE <<>>)) \o <<>>
      /\ IsList(ss) /\ Len(ss) = 0
  BY <1>1, <1>3, <1>z DEF IsSpliced
<1>5. ss = <<>> /\ FlattenSeq(ss) = <<>> /\ Fresh(n) = <<>>
  BY <1>4, <1>z, EmptyList DEF FlattenSeq, Fresh
<1>6. <<>> \o <<>> = <<>>
  BY ConcatEmpty, EmptyList
<1> QED
  BY <1>4, <1>5, <1>6, <1>z

(* The resources that a reader finds, and what it makes of them.           *)
Found(f) == Walk(Join(Resources(f)))
Ids(o) == [i \in DOMAIN o |-> o[i].id]
Streams(f) == AreLists(Resources(f)) /\ \A i \in 1..Len(Resources(f)) : Resourceful(Resources(f)[i])

LEMMA FoundIs ==
    ASSUME NEW f, Streams(f)
    PROVE  /\ Resourceful(Join(Resources(f))) /\ NotCut(Found(f))
           /\ \A R : (\A i \in 1..Len(Found(f)) : Found(f)[i] \in R) =>
                /\ ReadIPTC(f) = IdOf(Chosen(Found(f), IPTCs(R)))
                /\ Others(f) = Ids(Chosen(Found(f), OthersOf(R)))
<1>s. PICK s : s = Found(f)
  OBVIOUS
<1>1. Resourceful(Join(Resources(f)))
  BY JoinIs DEF Streams
<1>2. NotCut(s)
  <2>1. IsList(Join(Resources(f)))
    BY <1>1 DEF Resourceful
  <2> QED
    BY <1>s, <2>1, WalkIs DEF Found
<1>3. IsList(s) /\ Len(s) \in Nat /\ DOMAIN s = 1..Len(s)
  BY <1>2, ListDomain DEF NotCut
<1>4. ASSUME NEW R, \A i \in 1..Len(s) : s[i] \in R
      PROVE  ReadIPTC(f) = IdOf(Chosen(s, IPTCs(R))) /\ Others(f) = Ids(Chosen(s, OthersOf(R)))
  <2>S. PICK S, T, U : S = IPTCs(R) /\ T = OthersOf(R) /\ U = {r \in Range(s) : IsOther(r)}
    OBVIOUS
  <2> DEFINE I == {i \in 1..Len(s) : IsIPTC(s[i])}
  <2>j. PICK j : j = IF I # {} THEN Min(I) ELSE 0
    OBVIOUS
  <2>1. ReadIPTC(f) = IF j = 0 THEN None ELSE s[j].id
    BY <1>s, <2>j DEF ReadIPTC, IPTCOf, FirstId, SelectInSeq, Found
  <2>2. I = {i \in 1..Len(s) : s[i] \in S} /\ I \subseteq Nat
    BY <1>3, <1>4, <2>S DEF IPTCs
  <2>3. Marks(j, {i \in 1..Len(s) : s[i] \in S})
    <3> HIDE DEF I
    <3> QED
      BY <2>2, <2>j, LeastMarks
  <2>4. (j = 0 <=> Chosen(s, S) = <<>>) /\ (j # 0 => Chosen(s, S)[1] = s[j])
    BY <1>3, <2>3, ChosenFirst
  <2>5. ReadIPTC(f) = IdOf(Chosen(s, S))
    BY <2>1, <2>4 DEF IdOf
  <2>6. Chosen(s, U) = Chosen(s, T)
    <3>1. \A i \in 1..Len(s) : s[i] \in U <=> s[i] \in T
      BY <1>3, <1>4, <2>S, ElementIn DEF OthersOf
    <3> QED
      BY <1>3, <3>1, ChosenSame
  <2>7. Others(f) = Ids(Chosen(s, U))
    BY <1>s, <2>S DEF Others, Ids, Found
  <2> QED
    BY <2>5, <2>6, <2>7, <2>S
<1> QED
  BY <1>1, <1>2, <1>4, <1>s

(* What the Photoshop segments hold after a call.                          *)
LEMMA FinishResources ==
    ASSUME Inv, PartsInv, Finish, Plain(file), Streams(file)
    PROVE  IF "PS" \in call.keep THEN Resources(file') = Resources(file)
           ELSE /\ NotCut(IRBOut) /\ Resourceful(IRBOut)
                /\ Resources(file') = IF IRBOut = <<>> THEN <<>> ELSE <<IRBOut>>
<1>f. PICK f, g, b, o : f = file' /\ g = file /\ b = Block("PS") /\ o = IRBOut
  OBVIOUS
<1>m. "PS" \in Meta
  BY DEF Meta
<1> DEFINE R == Range(f) \union Range(g) \union Range(b)
           S == PSSegments(R)
<1>1. CallInv /\ call # None /\ IsList(f) /\ IsList(g) /\ (Has("PS") => IsList(b))
  BY <1>f, <1>m, FinishCall
<1>2. /\ \A i \in 1..Len(f) : f[i] \in R
      /\ \A i \in 1..Len(g) : g[i] \in R
      /\ Has("PS") => \A i \in 1..Len(b) : b[i] \in R
  BY <1>1, ElementIn
<1>3. \A s \in S : s.kind = "PS" /\ MetaKind(s) = "PS"
  <2>1. \A s : s.kind = "PS" => MetaKind(s) = "PS"
    BY DEF MetaKind
  <2> QED
    BY <2>1 DEF PSSegments
<1>s. \A s \in R : s.kind = "PS" => s \in S
  BY DEF PSSegments
<1> HIDE DEF R
<1>4. /\ Resources(f) = [i \in DOMAIN Chosen(Readable(f), S) |-> Chosen(Readable(f), S)[i].irb]
      /\ Resources(g) = [i \in DOMAIN Chosen(Readable(g), S) |-> Chosen(Readable(g), S)[i].irb]
  BY <1>1, <1>2, ReadIs
<1> HIDE DEF S
<1>5. CASE "PS" \in call.keep
  <2>1. \A s \in S : Stays(call, s)
    BY <1>3, <1>5 DEF Stays
  <2>2. Chosen(Readable(file'), S) = Chosen(Readable(file), S)
    BY <1>3, <1>m, <2>1, Reads
  <2> QED
    BY <1>4, <1>5, <1>f, <2>2
<1>6. CASE "PS" \notin call.keep
  <2>1. \A s \in S : ~Stays(call, s)
    BY <1>3, <1>6, <1>m, IsNoMeta DEF Stays, IsChunkOf
  <2>2. Chosen(Readable(file'), S) = Chosen(IF Has("PS") THEN b ELSE <<>>, S)
    BY <1>3, <1>f, <1>m, <2>1, Reads
  <2>3. pl.irb = OrigIRB(file, call) /\ pl.IPTC = call.IPTC
    BY <1>1 DEF CallInv
  <2>4. Resourceful(pl.irb)
    <3>1. Resourceful(Join(Resources(file)))
      BY FoundIs
    <3>2. Resourceful(<<>>)
      BY EmptyList DEF Resourceful
    <3> QED
      BY <2>3, <3>1, <3>2 DEF OrigIRB
  <2>5. NotCut(o) /\ Resourceful(o)
    <3>1. PICK orig, new, w : orig = pl.irb /\ new = pl.IPTC /\ w = (pl.XMP # None)
      OBVIOUS
    <3>2. o = Splice(orig, new, w)
      BY <1>f, <3>1 DEF IRBOut
    <3>3. Resourceful(orig)
      BY <2>4, <3>1
    <3> QED
      BY <3>2, <3>3, SpliceGood
  <2>6. Resources(f) = IF o = <<>> THEN <<>> ELSE <<o>>
    <3>1. ASSUME Chosen(Readable(f), S) = <<>> PROVE Resources(f) = <<>>
      BY <1>4, <3>1
    <3>2. CASE ~Has("PS")
      <4>1. pl.IPTC = None /\ pl.irb = <<>>
        BY <3>2 DEF Has
      <4>2. o = <<>>
        BY <1>f, <4>1, SpliceNothing DEF IRBOut
      <4>3. Chosen(<<>>, S) = <<>>
        BY ChosenEmpty
      <4> QED
        BY <1>f, <2>2, <3>1, <3>2, <4>2, <4>3
    <3>3. CASE Has("PS") /\ o = <<>>
      <4>1. b = <<>>
        BY <1>f, <3>3 DEF Block
      <4>3. Chosen(<<>>, S) = <<>>
        BY ChosenEmpty
      <4> QED
        BY <1>f, <2>2, <3>1, <3>3, <4>1, <4>3
    <3>4. CASE Has("PS") /\ o # <<>>
      <4>x. PICK x : x = Photoshop(o)
        OBVIOUS
      <4>1. b = <<x>> /\ x.kind = "PS" /\ x.irb = o
        BY <1>f, <3>4, <4>x DEF Block, Photoshop, Segment
      <4>2. Len(b) = 1 /\ b[1] = x
        BY <4>1, OneList
      <4>3. x \in S
        BY <1>2, <1>s, <3>4, <4>1, <4>2
      <4>4. Chosen(b, S) = <<x>>
        BY <4>1, <4>3, ChosenSingle
      <4>5. Chosen(Readable(f), S) = <<x>>
        BY <1>f, <2>2, <3>4, <4>4
      <4>6. Resources(f) = [i \in 1..1 |-> x.irb]
        BY <1>4, <4>5
      <4>7. [i \in 1..1 |-> x.irb] = <<o>>
        BY <4>1
      <4> QED
        BY <3>4, <4>6, <4>7
    <3> QED
      BY <3>2, <3>3, <3>4
  <2> QED
    BY <1>6, <1>f, <2>5, <2>6
<1> QED
  BY <1>5, <1>6

LEMMA FoundAfter ==
    ASSUME Inv, PartsInv, Finish, Plain(file), Streams(file), "PS" \notin call.keep
    PROVE  Found(file') = IRBOut /\ Streams(file')
<1>f. PICK f, o : f = file' /\ o = IRBOut
  OBVIOUS
<1>1. NotCut(o) /\ Resourceful(o) /\ Resources(f) = IF o = <<>> THEN <<>> ELSE <<o>>
  BY <1>f, FinishResources
<1>2. Join(Resources(f)) = o /\ Streams(f)
  <2>1. CASE o = <<>>
    <3>1. Resources(f) = <<>> /\ AreLists(<<>>) /\ Len(<<>>) = 0
      BY <1>1, <2>1, EmptyList DEF AreLists
    <3>2. Join(<<>>) = <<>>
      BY <3>1, JoinIs
    <3> QED
      BY <2>1, <3>1, <3>2 DEF Streams
  <2>2. CASE o # <<>>
    <3>u. PICK u : u = <<o>>
      OBVIOUS
    <3>1. Resources(f) = u /\ IsList(u) /\ Len(u) = 1 /\ u[1] = o /\ IsList(o)
      BY <1>1, <2>2, <3>u, OneList DEF NotCut
    <3>2. Join(u) = o
      BY <1>1, <3>u, JoinOne
    <3>3. \A i \in 1..Len(u) : u[i] = o
      BY <3>1
    <3> QED
      BY <1>1, <3>1, <3>2, <3>3 DEF Streams, AreLists
  <2> QED
    BY <2>1, <2>2
<1>3. Walk(o) = o
  <2>1. IsList(o)
    BY <1>1 DEF NotCut
  <2> QED
    BY <1>1, <2>1, WalkIs
<1> QED
  BY <1>2, <1>3, <1>f DEF Found

LEMMA FinishStreams ==
    ASSUME Inv, PartsInv, Finish, Plain(file), Streams(file)
    PROVE  Streams(file')
<1>f. PICK f, g : f = file' /\ g = file
  OBVIOUS
<1>1. CASE "PS" \in call.keep
  <2>1. Resources(f) = Resources(g)
    BY <1>1, <1>f, FinishResources
  <2>2. Streams(f)
    BY <1>f, <2>1 DEF Streams
  <2> QED
    BY <1>f, <2>2
<1>2. CASE "PS" \notin call.keep
  BY <1>2, FoundAfter
<1> QED
  BY <1>1, <1>2

(* The splice of a call, in terms of the resources found before it.        *)
LEMMA FinishSplice ==
    ASSUME Inv, PartsInv, Finish, Plain(file), Streams(file), "PS" \notin call.keep
    PROVE  \E S, R : /\ S = Found(file') /\ NotCut(S)
                     /\ \A i \in 1..Len(S) : S[i] \in R
                     /\ Chosen(S, IPTCs(R)) = Fresh(call.IPTC)
                     /\ OrigIRB(file, call) # <<>> => Others(file) = Ids(Chosen(S, OthersOf(R)))
                     /\ OrigIRB(file, call) = <<>> => Chosen(S, OthersOf(R)) = <<>>
                     /\ pl.XMP # None /\ call.IPTC # None =>
                          /\ \E i \in 1..Len(S) : IsDigest(S[i])
                          /\ \A i \in 1..Len(S) : IsDigest(S[i]) => S[i].id = call.IPTC
<1>1. CallInv /\ call # None
  BY FinishCall
<1>o. PICK orig, new, w, S : orig = OrigIRB(file, call) /\ new = call.IPTC /\ w = (pl.XMP # None) /\ S = Found(file')
  OBVIOUS
<1>2. S = Splice(orig, new, w)
  BY <1>1, <1>o, FoundAfter DEF CallInv, IRBOut
<1>3. Resourceful(orig) /\ (orig # <<>> => orig = Join(Resources(file)))
  <2>1. orig = <<>> \/ orig = Join(Resources(file))
    BY <1>o DEF OrigIRB
  <2>2. Resourceful(<<>>)
    BY EmptyList DEF Resourceful
  <2> QED
    BY <2>1, <2>2, FoundIs
<1>4. /\ NotCut(S) /\ Resourceful(S)
      /\ w /\ new # None => /\ \E i \in 1..Len(S) : IsDigest(S[i])
                            /\ \A i \in 1..Len(S) : IsDigest(S[i]) => S[i].id = new
  BY <1>2, <1>3, SpliceGood
<1>5. PICK R : /\ \A i \in 1..Len(S) : S[i] \in R
               /\ \A i \in 1..Len(Walk(orig)) : Walk(orig)[i] \in R
               /\ Chosen(S, OthersOf(R)) = Chosen(Walk(orig), OthersOf(R))
               /\ Chosen(S, IPTCs(R)) = Fresh(new)
  BY <1>2, <1>3, SpliceChosen
<1>6. ASSUME orig # <<>> PROVE Others(file) = Ids(Chosen(S, OthersOf(R)))
  <2>1. Walk(orig) = Found(file)
    BY <1>3, <1>6 DEF Found
  <2>2. Others(file) = Ids(Chosen(Found(file), OthersOf(R)))
    BY <1>5, <2>1, FoundIs
  <2> QED
    BY <1>5, <2>1, <2>2
<1>7. ASSUME orig = <<>> PROVE Chosen(S, OthersOf(R)) = <<>>
  <2>1. IsList(orig) /\ NotCut(orig)
    BY <1>7, EmptyList DEF NotCut
  <2>2. Walk(orig) = orig
    BY <2>1, WalkIs
  <2>3. Chosen(<<>>, OthersOf(R)) = <<>>
    BY ChosenEmpty
  <2> QED
    BY <1>5, <1>7, <2>2, <2>3
<1> QED
  BY <1>4, <1>5, <1>6, <1>7, <1>o

LEMMA FinishIPTC ==
    ASSUME Inv, PartsInv, Finish, Plain(file), Streams(file)
    PROVE  ReadIPTC(file') = IF "PS" \in call.keep THEN ReadIPTC(file) ELSE call.IPTC
<1>f. PICK f, g : f = file' /\ g = file
  OBVIOUS
<1>1. CASE "PS" \in call.keep
  <2>1. Resources(f) = Resources(g)
    BY <1>1, <1>f, FinishResources
  <2>2. ReadIPTC(f) = ReadIPTC(g)
    BY <2>1 DEF ReadIPTC
  <2> QED
    BY <1>1, <1>f, <2>2
<1>2. CASE "PS" \notin call.keep
  <2>1. PICK S, R : S = Found(f) /\ (\A i \in 1..Len(S) : S[i] \in R) /\ Chosen(S, IPTCs(R)) = Fresh(call.IPTC)
    BY <1>2, <1>f, FinishSplice
  <2>2. Streams(f)
    BY <1>f, FinishStreams
  <2>3. ReadIPTC(f) = IdOf(Chosen(S, IPTCs(R)))
    BY <2>1, <2>2, FoundIs
  <2>4. IdOf(Fresh(call.IPTC)) = call.IPTC
    <3>n. PICK n, x : n = call.IPTC /\ x = Resource("iptc", n)
      OBVIOUS
    <3>1. <<x>>[1] = x /\ <<x>> # <<>> /\ x.id = n
      BY <3>n, OneList, EmptyList DEF Resource
    <3>2. n # None => IdOf(Fresh(n)) = n
      BY <3>1, <3>n DEF IdOf, Fresh
    <3>3. n = None => IdOf(Fresh(n)) = n
      BY DEF IdOf, Fresh
    <3> QED
      BY <3>2, <3>3, <3>n
  <2> QED
    BY <1>2, <1>f, <2>1, <2>3, <2>4
<1> QED
  BY <1>1, <1>2

(* The resources of other programs survive where the probe sees one, and   *)
(* where there is none, none is made up.                                   *)
LEMMA FinishOthers ==
    ASSUME Inv, PartsInv, Finish, Plain(file), Streams(file), Others(file) = <<>> \/ ProbeSees(file, call)
    PROVE  Others(file') = Others(file)
<1>f. PICK f, g : f = file' /\ g = file
  OBVIOUS
<1>1. CASE "PS" \in call.keep
  <2>1. Resources(f) = Resources(g)
    BY <1>1, <1>f, FinishResources
  <2>2. Others(f) = Others(g)
    BY <2>1 DEF Others
  <2> QED
    BY <1>f, <2>2
<1>2. CASE "PS" \notin call.keep
  <2>1. PICK S, R : /\ S = Found(f) /\ NotCut(S) /\ \A i \in 1..Len(S) : S[i] \in R
                    /\ OrigIRB(g, call) # <<>> => Others(g) = Ids(Chosen(S, OthersOf(R)))
                    /\ OrigIRB(g, call) = <<>> => Chosen(S, OthersOf(R)) = <<>>
    BY <1>2, <1>f, FinishSplice
  <2>2. Streams(f) /\ Streams(g)
    BY <1>f, FinishStreams
  <2>3. Others(f) = Ids(Chosen(S, OthersOf(R)))
    BY <2>1, <2>2, FoundIs
  <2>e. Ids(<<>>) = <<>>
    BY DEF Ids
  <2>4. CASE OrigIRB(g, call) # <<>>
    BY <1>f, <2>1, <2>3, <2>4
  <2>5. CASE OrigIRB(g, call) = <<>>
    <3>1. Others(f) = <<>>
      BY <2>1, <2>3, <2>e, <2>5
    <3>2. CASE Join(Resources(g)) = <<>>
      <4>1. NotCut(<<>>) /\ IsList(<<>>)
        BY EmptyList DEF NotCut
      <4>2. Found(g) = <<>>
        BY <3>2, <4>1, WalkIs DEF Found
      <4>3. \A i \in 1..Len(Found(g)) : Found(g)[i] \in {}
        BY <4>2, EmptyList
      <4>4. Others(g) = Ids(Chosen(<<>>, OthersOf({})))
        BY <2>2, <4>2, <4>3, FoundIs
      <4>5. Chosen(<<>>, OthersOf({})) = <<>>
        BY ChosenEmpty
      <4> QED
        BY <1>f, <2>e, <3>1, <4>4, <4>5
    <3>3. CASE Join(Resources(g)) # <<>>
      <4>1. ~ProbeSees(g, call)
        BY <1>2, <2>5, <3>3 DEF OrigIRB, ProbeSees
      <4> QED
        BY <1>f, <3>1, <4>1
    <3> QED
      BY <3>2, <3>3
  <2> QED
    BY <2>4, <2>5
<1> QED
  BY <1>1, <1>2

LEMMA FinishDigest ==
    ASSUME Inv, PartsInv, Finish, Plain(file), Streams(file), call.IPTC # None, call.XMP # None
    PROVE  ReadDigest(file') = call.IPTC
<1>f. PICK f, n : f = file' /\ n = call.IPTC
  OBVIOUS
<1>1. CallInv /\ call # None
  BY FinishCall
<1>2. "PS" \notin call.keep
  BY <1>1 DEF CallInv
<1>3. pl.XMP # None
  <2>1. Has("XMP")
    BY <1>1, XMPOut
  <2> QED
    BY <2>1 DEF Has
<1>4. PICK S : /\ S = Found(f) /\ NotCut(S)
               /\ \E i \in 1..Len(S) : IsDigest(S[i])
               /\ \A i \in 1..Len(S) : IsDigest(S[i]) => S[i].id = n
  BY <1>2, <1>3, <1>f, FinishSplice
<1> DEFINE I == {i \in 1..Len(S) : IsDigest(S[i])}
<1>p. PICK p : p = IF I # {} THEN Min(I) ELSE 0
  OBVIOUS
<1>5. ReadDigest(f) = IF p = 0 THEN None ELSE S[p].id
  BY <1>4, <1>p DEF ReadDigest, DigestOf, FirstId, SelectInSeq, Found
<1>6. I # {} /\ I \subseteq Nat /\ 0 \notin I /\ \A i \in I : S[i].id = n
  BY <1>4
<1> HIDE DEF I
<1>7. p \in I
  BY <1>6, <1>p, LeastMarks DEF Marks
<1> QED
  BY <1>5, <1>6, <1>7, <1>f
-----------------------------------------------------------------------------
(* What ReadsBack and ResourcesKept say of the last call.                  *)

KeptIn(src, c, new) ==
    /\ Others(src) = <<>> \/ ProbeSees(src, c) => Others(new) = Others(src)
    /\ c.IPTC # None /\ c.XMP # None => ReadDigest(new) = c.IPTC
LastReads == last # None /\ Plain(last.src) => ReadsIn(last.src, last.call, last.out)
LastKept == last # None /\ Plain(last.src) => KeptIn(last.src, last.call, last.out)

LEMMA OnlyFinish == ASSUME [Next]_vars, ~Finish PROVE UNCHANGED <<file, last>>
BY DEF Next, vars, Begin, ScanAlone, ScanSegment, ScanTooMany, ScanStop, GiveUp, PutIn, PutTooLarge, LeaveOut

LEMMA InitStreams == ASSUME Init PROVE Streams(file)
<1>1. PICK s \in Sources : file = s.file
  BY DEF Init
<1>f. PICK f : f = s.file
  OBVIOUS
<1>2. IsList(f) /\ DOMAIN f = 1..Len(f) /\ \A i \in 1..Len(f) : Resourceful(f[i].irb)
  <2>1. f \in Seq(Range(f)) /\ \A i \in DOMAIN f : IsStream(f[i].irb)
    BY <1>f, CallAssumption
  <2>2. IsList(f)
    BY <2>1, SeqIsList
  <2> QED
    BY <2>1, <2>2, ListDomain, StreamIs
<1> DEFINE R == Range(f)
           c == Chosen(Readable(f), PSSegments(R))
<1>3. Resources(f) = [i \in DOMAIN c |-> c[i].irb]
  <2>1. \A i \in 1..Len(f) : f[i] \in R
    BY <1>2, ElementIn
  <2> HIDE DEF R
  <2> QED
    BY <1>2, <2>1, ReadIs
<1>4. /\ IsList(c) /\ DOMAIN c = 1..Len(c) /\ Len(c) \in Nat
      /\ \A i \in 1..Len(c) : \E j \in 1..Len(f) : c[i] = f[j]
  <2>1. /\ IsList(Readable(f))
        /\ \A i \in 1..Len(Readable(f)) : Readable(f)[i] = f[i] /\ i \in 1..Len(f)
    BY <1>2, ReadableList
  <2>2. IsList(c)
    BY <2>1, ChosenType
  <2>3. \A i \in 1..Len(c) : \E j \in 1..Len(Readable(f)) : c[i] = Readable(f)[j]
    BY <2>1, ChosenIn
  <2> HIDE DEF c
  <2> QED
    BY <2>1, <2>2, <2>3, ListDomain
<1> HIDE DEF c
<1>5. /\ IsList(Resources(f)) /\ Len(Resources(f)) = Len(c)
      /\ \A i \in 1..Len(c) : Resources(f)[i] = c[i].irb
  BY <1>3, <1>4 DEF IsList
<1>6. \A i \in 1..Len(c) : Resourceful(c[i].irb)
  BY <1>2, <1>4
<1>7. Streams(f)
  BY <1>5, <1>6 DEF Streams, AreLists, Resourceful
<1> QED
  BY <1>1, <1>7, <1>f

ReadInv == Plain(file) => Streams(file)
LEMMA ReadStep ==
    ASSUME Inv, PartsInv, ReadInv, [Next]_vars
    PROVE  /\ ReadInv'
           /\ LastReads => LastReads'
           /\ LastKept => LastKept'
<1>1. CASE Finish
  <2>1. last' = [src |-> file, call |-> call, out |-> file']
    BY <1>1 DEF Finish
  <2>2. last'.src = file /\ last'.call = call /\ last'.out = file'
    BY <2>1
  <2>3. Plain(file') <=> Plain(file)
    BY <1>1, FinishPlain
  <2>4. ASSUME Plain(file)
        PROVE  Streams(file') /\ ReadsIn(file, call, file') /\ KeptIn(file, call, file')
    <3>1. Streams(file)
      BY <2>4 DEF ReadInv
    <3>2. Streams(file')
      BY <1>1, <2>4, <3>1, FinishStreams
    <3>3. ReadsIn(file, call, file')
      BY <1>1, <2>4, <3>1, FinishEXIF, FinishIPTC, FinishXMP DEF ReadsIn
    <3>4. Others(file) = <<>> \/ ProbeSees(file, call) => Others(file') = Others(file)
      BY <1>1, <2>4, <3>1, FinishOthers
    <3>5. call.IPTC # None /\ call.XMP # None => ReadDigest(file') = call.IPTC
      BY <1>1, <2>4, <3>1, FinishDigest
    <3> QED
      BY <3>2, <3>3, <3>4, <3>5 DEF KeptIn
  <2> QED
    BY <2>2, <2>3, <2>4 DEF ReadInv, LastReads, LastKept
<1>2. CASE ~Finish
  <2>1. file' = file /\ last' = last
    BY <1>2, OnlyFinish
  <2> QED
    BY <2>1 DEF ReadInv, LastReads, LastKept
<1> QED
  BY <1>1, <1>2

LEMMA ReadInit == Init => PartsInv /\ ReadInv /\ LastReads /\ LastKept
<1>1. Init => PartsInv /\ LastReads /\ LastKept
  BY DEF Init, PartsInv, LastReads, LastKept
<1> QED
  BY <1>1, InitStreams DEF ReadInv

(* Wherever no metadata follow a segment with marker byte 0, what the      *)
(* reader finds in the output is what the call was given, or what was      *)
(* there before where the call keeps it (InjectKeeping).                   *)
THEOREM WritesRead == Spec => []ReadsBack
<1>1. Inv /\ PartsInv /\ ReadInv /\ LastReads /\ [Next]_vars => PartsInv' /\ ReadInv' /\ LastReads'
  BY PartsStep, ReadStep
<1>2. LastReads => ReadsBack
  BY DEF LastReads, ReadsBack
<1> QED
  BY <1>1, <1>2, InvHolds, ReadInit, PTL DEF Spec

(* There, too, no call loses a resource of another program when the probe  *)
(* of the Photoshop segments sees one, or when no IPTC is written, and an  *)
(* IPTC that goes in with an XMP has its digest (resolveOrigIRB).          *)
THEOREM ResourcesStay == Spec => []ResourcesKept
<1>1. Inv /\ PartsInv /\ ReadInv /\ LastKept /\ [Next]_vars => PartsInv' /\ ReadInv' /\ LastKept'
  BY PartsStep, ReadStep
<1>2. LastKept => ResourcesKept
  BY DEF LastKept, KeptIn, ResourcesKept
<1> QED
  BY <1>1, <1>2, InvHolds, ReadInit, PTL DEF Spec
=============================================================================
