------------------------------- MODULE Lists -------------------------------
(***************************************************************************)
(* Facts about sequences whose elements are anything, about functions that *)
(* are defined by recursion on a number, and about FlattenSeq.             *)
(***************************************************************************)
EXTENDS Integers, Sequences, SequencesExt, FiniteSets, SequenceTheorems, FunctionTheorems, FiniteSetTheorems, WellFoundedInduction, TLAPS

-----------------------------------------------------------------------------
(* Lists, whatever their elements are.                                     *)

IsList(s) == Len(s) \in Nat /\ s = [i \in 1..Len(s) |-> s[i]]

LEMMA ListIsSeq == ASSUME NEW s, IsList(s) PROVE s \in Seq({s[i] : i \in 1..Len(s)})
BY DEF IsList

LEMMA SeqIsList == ASSUME NEW S, NEW s \in Seq(S) PROVE IsList(s)
BY DEF IsList

LEMMA ListDomain == ASSUME NEW s, IsList(s) PROVE DOMAIN s = 1..Len(s) /\ Len(s) \in Nat
BY DEF IsList

LEMMA ListEqual ==
    ASSUME NEW s, IsList(s), NEW t, IsList(t), Len(s) = Len(t), \A i \in 1..Len(s) : s[i] = t[i]
    PROVE  s = t
BY DEF IsList

LEMMA EmptyList == IsList(<<>>) /\ Len(<<>>) = 0 /\ \A s : IsList(s) /\ Len(s) = 0 => s = <<>>
<1>1. IsList(<<>>) /\ Len(<<>>) = 0
  BY DEF IsList
<1> QED
  BY <1>1, ListEqual

LEMMA MadeList == ASSUME NEW n \in Nat, NEW d, d = [i \in 1..n |-> d[i]] PROVE IsList(d) /\ Len(d) = n
<1>1. d \in [1..n -> {d[i] : i \in 1..n}]
  OBVIOUS
<1>2. d \in Seq({d[i] : i \in 1..n})
  BY <1>1, SeqDef
<1>3. Len(d) \in Nat /\ 1..n = 1..Len(d)
  BY <1>1, <1>2, LenProperties
<1>4. Len(d) = n
  BY <1>3
<1> QED
  BY <1>4 DEF IsList

LEMMA ConcatList ==
    ASSUME NEW s, IsList(s), NEW t, IsList(t)
    PROVE  /\ IsList(s \o t) /\ Len(s \o t) = Len(s) + Len(t)
           /\ \A i \in 1..Len(s) : (s \o t)[i] = s[i]
           /\ \A i \in 1..Len(t) : (s \o t)[Len(s) + i] = t[i]
<1> DEFINE S == {s[i] : i \in 1..Len(s)} \union {t[i] : i \in 1..Len(t)}
<1>1. s \in Seq(S) /\ t \in Seq(S) /\ Len(s) \in Nat /\ Len(t) \in Nat
  BY ListIsSeq DEF IsList
<1> HIDE DEF S
<1>2. /\ s \o t \in Seq(S) /\ Len(s \o t) = Len(s) + Len(t)
      /\ \A i \in 1..Len(s) + Len(t) : (s \o t)[i] = IF i <= Len(s) THEN s[i] ELSE t[i - Len(s)]
  BY <1>1, ConcatProperties
<1>3. \A i \in 1..Len(t) : Len(s) + i \in 1..Len(s) + Len(t) /\ ~(Len(s) + i <= Len(s)) /\ Len(s) + i - Len(s) = i
  BY <1>1
<1>4. \A i \in 1..Len(s) : i \in 1..Len(s) + Len(t) /\ i <= Len(s)
  BY <1>1
<1>5. IsList(s \o t)
  BY <1>2, SeqIsList
<1> QED
  BY <1>2, <1>3, <1>4, <1>5

LEMMA SubList ==
    ASSUME NEW s, IsList(s), NEW m \in Int, NEW n \in Int, m >= 1, n <= Len(s)
    PROVE  /\ IsList(SubSeq(s, m, n)) /\ Len(SubSeq(s, m, n)) = IF m <= n THEN n - m + 1 ELSE 0
           /\ \A i \in 1..n - m + 1 : SubSeq(s, m, n)[i] = s[m + i - 1]
<1> DEFINE S == {s[i] : i \in 1..Len(s)}
<1>1. Len(s) \in Nat /\ \A i \in m..n : s[i] \in S
  BY DEF IsList
<1> HIDE DEF S
<1>2. /\ SubSeq(s, m, n) \in Seq(S)
      /\ Len(SubSeq(s, m, n)) = IF m <= n THEN n - m + 1 ELSE 0
      /\ \A i \in 1..n - m + 1 : SubSeq(s, m, n)[i] = s[m + i - 1]
  BY <1>1, SubSeqProperties
<1> QED
  BY <1>2, SeqIsList

LEMMA AppendList ==
    ASSUME NEW s, IsList(s), NEW x
    PROVE  /\ IsList(Append(s, x)) /\ Len(Append(s, x)) = Len(s) + 1
           /\ \A i \in 1..Len(s) : Append(s, x)[i] = s[i]
           /\ Append(s, x)[Len(s) + 1] = x
<1> DEFINE S == {s[i] : i \in 1..Len(s)} \union {x}
<1>1. s \in Seq(S) /\ x \in S
  BY ListIsSeq DEF IsList
<1> HIDE DEF S
<1>2. /\ Append(s, x) \in Seq(S) /\ Len(Append(s, x)) = Len(s) + 1
      /\ \A i \in 1..Len(s) : Append(s, x)[i] = s[i]
      /\ Append(s, x)[Len(s) + 1] = x
  BY <1>1, AppendProperties
<1> QED
  BY <1>2, SeqIsList

LEMMA TailList ==
    ASSUME NEW s, IsList(s), s # <<>>
    PROVE  /\ IsList(Tail(s)) /\ Len(Tail(s)) = Len(s) - 1 /\ Len(s) >= 1
           /\ Head(s) = s[1]
           /\ \A i \in 1..Len(s) - 1 : Tail(s)[i] = s[i + 1]
<1> DEFINE S == {s[i] : i \in 1..Len(s)}
<1>1. s \in Seq(S) /\ Len(s) \in Nat
  BY ListIsSeq DEF IsList
<1> HIDE DEF S
<1>2. /\ Tail(s) \in Seq(S) /\ Len(Tail(s)) = Len(s) - 1
      /\ \A i \in 1..Len(Tail(s)) : Tail(s)[i] = s[i + 1]
  BY <1>1, HeadTailProperties
<1>3. Len(s) >= 1
  BY <1>1, EmptyList
<1>4. Head(s) = s[1]
  BY <1>1
<1>5. IsList(Tail(s))
  BY <1>2, SeqIsList
<1> QED
  BY <1>2, <1>3, <1>4, <1>5

LEMMA OneList == ASSUME NEW x PROVE IsList(<<x>>) /\ Len(<<x>>) = 1 /\ <<x>>[1] = x
<1>1. <<x>> \in Seq({x})
  OBVIOUS
<1> QED
  BY <1>1, SeqIsList

-----------------------------------------------------------------------------
(* Functions that are defined by recursion on a number.                    *)

LEMMA NatLeast == ASSUME NEW T, T \subseteq Nat, T # {} PROVE \E x \in T : \A y \in T : ~(y < x)
<1> DEFINE R == OpToRel(<, Nat)
<1>1. R = {ss \in Nat \X Nat : ss[1] < ss[2]}
  BY DEF OpToRel
<1>2. IsWellFoundedOn(R, Nat)
  BY NatLessThanWellFounded
<1> HIDE DEF R
<1>3. PICK x \in T : \A y \in T : ~(<<y, x>> \in R)
  BY <1>2, WFMin
<1>4. ASSUME NEW y \in T, y < x PROVE FALSE
  <2>1. <<y, x>> \in Nat \X Nat /\ <<y, x>>[1] < <<y, x>>[2]
    BY <1>4
  <2> QED
    BY <2>1, <1>1, <1>3
<1> QED
  BY <1>3, <1>4

(* What holds of 0 and passes from each number to the next.                *)
LEMMA UpTo ==
    ASSUME NEW n \in Nat, NEW T, 0 \in T, \A k \in 1..n : k - 1 \in T => k \in T
    PROVE  \A k \in 0..n : k \in T
<1> DEFINE F == {k \in 0..n : k \notin T}
<1> SUFFICES ASSUME F # {} PROVE FALSE
  OBVIOUS
<1>1. PICK x \in F : \A y \in F : ~(y < x)
  <2>1. F \subseteq Nat
    OBVIOUS
  <2> HIDE DEF F
  <2> QED
    BY <2>1, NatLeast
<1>2. x \in 1..n /\ x - 1 \in 0..n /\ x - 1 < x
  BY <1>1
<1> QED
  BY <1>1, <1>2

(* The next value is a function of the number and of the value before.     *)
Steps(f, n, S, a, h) ==
    f \in [0..n -> S] /\ f[0] = a /\ \A k \in 1..n : f[k] = h[k][f[k - 1]]

LEMMA Recursion ==
    ASSUME NEW n \in Nat, NEW S, NEW a \in S, NEW h \in [1..n -> [S -> S]]
    PROVE  \E f : Steps(f, n, S, a, h)
<1> DEFINE Goes(f, m) == f[0] = a /\ \A k \in 1..m : f[k] = h[k][f[k - 1]]
           T == {m \in 0..n : \E f \in [0..m -> S] : Goes(f, m)}
<1>1. 0 \in T
  <2>1. [k \in 0..0 |-> a] \in [0..0 -> S] /\ Goes([k \in 0..0 |-> a], 0)
    OBVIOUS
  <2>2. \E f \in [0..0 -> S] : Goes(f, 0)
    BY <2>1
  <2> QED
    BY <2>2
<1>2. ASSUME NEW m \in 1..n, m - 1 \in T PROVE m \in T
  <2>1. PICK f \in [0..m - 1 -> S] : Goes(f, m - 1)
    BY <1>2
  <2> DEFINE g == [k \in 0..m |-> IF k = m THEN h[m][f[m - 1]] ELSE f[k]]
  <2>2. f[m - 1] \in S /\ h[m][f[m - 1]] \in S
    OBVIOUS
  <2>3. g \in [0..m -> S]
    BY <2>2
  <2>4. \A k \in 0..m - 1 : g[k] = f[k]
    OBVIOUS
  <2>5. g[m] = h[m][g[m - 1]]
    BY <2>4
  <2>6. g[0] = a
    BY <2>1, <2>4
  <2> HIDE DEF g
  <2>7. ASSUME NEW k \in 1..m PROVE g[k] = h[k][g[k - 1]]
    <3>1. CASE k = m
      BY <3>1, <2>5
    <3>2. CASE k # m
      <4>1. k \in 1..m - 1 /\ k \in 0..m - 1 /\ k - 1 \in 0..m - 1
        BY <3>2
      <4> QED
        BY <4>1, <2>1, <2>4
    <3> QED
      BY <3>1, <3>2
  <2>8. Goes(g, m) /\ m \in 0..n
    BY <2>6, <2>7
  <2> QED
    BY <2>3, <2>8
<1> HIDE DEF T
<1>3. \A k \in 1..n : k - 1 \in T => k \in T
  BY <1>2
<1>4. n \in T
  <2>1. \A k \in 0..n : k \in T
    BY <1>1, <1>3, UpTo
  <2> QED
    BY <2>1
<1> QED
  BY <1>4 DEF T, Steps

LEMMA MadeEven == ASSUME NEW n \in Nat PROVE (n + (n % 2)) % 2 = 0
OBVIOUS

-----------------------------------------------------------------------------
(* Lists joined.                                                           *)

LEMMA ConcatAppend ==
    ASSUME NEW s, IsList(s), NEW t, IsList(t), NEW x
    PROVE  s \o Append(t, x) = Append(s \o t, x)
<1> DEFINE S == {s[i] : i \in 1..Len(s)} \union {t[i] : i \in 1..Len(t)} \union {x}
<1>1. s \in Seq(S) /\ t \in Seq(S) /\ x \in S /\ <<x>> \in Seq(S)
  BY ListIsSeq DEF IsList
<1> HIDE DEF S
<1>2. s \o t \in Seq(S) /\ Append(t, x) = t \o <<x>> /\ Append(s \o t, x) = (s \o t) \o <<x>>
  BY <1>1, ConcatProperties, AppendIsConcat
<1> QED
  BY <1>1, <1>2, ConcatAssociative

LEMMA ConcatEmpty == ASSUME NEW s, IsList(s) PROVE s \o <<>> = s /\ <<>> \o s = s
BY ListIsSeq, ConcatEmptySeq

LEMMA AppendIs == ASSUME NEW a, IsList(a), NEW x PROVE a \o <<x>> = Append(a, x)
<1>p. PICK p, q, u : p = a \o <<x>> /\ q = Append(a, x) /\ u = <<x>>
  OBVIOUS
<1>1. IsList(u) /\ Len(u) = 1 /\ u[1] = x /\ Len(a) \in Nat
  BY <1>p, OneList, ListDomain
<1>2. IsList(p) /\ Len(p) = Len(a) + 1 /\ (\A i \in 1..Len(a) : p[i] = a[i]) /\ p[Len(a) + 1] = x
  <2>1. /\ IsList(a \o u) /\ Len(a \o u) = Len(a) + Len(u)
        /\ \A i \in 1..Len(a) : (a \o u)[i] = a[i]
        /\ \A i \in 1..Len(u) : (a \o u)[Len(a) + i] = u[i]
    <3>1. IsList(u)
      BY <1>1
    <3> QED
      BY <3>1, ConcatList
  <2>2. 1 \in 1..Len(u)
    BY <1>1
  <2>3. (a \o u)[Len(a) + 1] = u[1]
    BY <2>1, <2>2
  <2> QED
    BY <1>1, <1>p, <2>1, <2>3
<1>3. IsList(q) /\ Len(q) = Len(a) + 1 /\ (\A i \in 1..Len(a) : q[i] = a[i]) /\ q[Len(a) + 1] = x
  BY <1>p, AppendList
<1>4. ASSUME NEW i \in 1..Len(p) PROVE p[i] = q[i]
  <2>1. i \in 1..Len(a) \/ i = Len(a) + 1
    BY <1>1, <1>2
  <2> QED
    BY <1>2, <1>3, <2>1
<1>5. p = q
  BY <1>2, <1>3, <1>4, ListEqual
<1> QED
  BY <1>5, <1>p

AreLists(ss) == IsList(ss) /\ \A i \in 1..Len(ss) : IsList(ss[i])

Joins(f, ss) ==
    /\ f[0] = <<>> /\ \A k \in 1..Len(ss) : f[k] = f[k - 1] \o ss[k]
    /\ \A k \in 0..Len(ss) : IsList(f[k])

LEMMA FlattenIs ==
    ASSUME NEW ss, AreLists(ss)
    PROVE  \E f : Joins(f, ss) /\ FlattenSeq(ss) = f[Len(ss)]
<1> DEFINE n == Len(ss)
           U == UNION {{ss[i][j] : j \in 1..Len(ss[i])} : i \in 1..n}
           V == Seq(U)
           Rule(f) == f = [i \in 1..n |-> IF i = 1 THEN ss[i] ELSE f[i - 1] \o ss[i]]
           h == [k \in 1..n |-> [v \in V |-> v \o ss[k]]]
<1>1. n \in Nat /\ IsList(ss) /\ \A i \in 1..n : IsList(ss[i])
  BY ListDomain DEF AreLists
<1>2. ASSUME NEW i \in 1..n PROVE ss[i] \in V
  <2>x. PICK x : x = ss[i]
    OBVIOUS
  <2>1. IsList(x) /\ x \in Seq({x[j] : j \in 1..Len(x)})
    BY <1>1, <2>x, ListIsSeq
  <2>2. {x[j] : j \in 1..Len(x)} \subseteq U
    BY <2>x
  <2> HIDE DEF U
  <2> QED
    BY <2>1, <2>2, <2>x
<1>3. ASSUME NEW k \in 1..n, NEW v \in V PROVE v \o ss[k] \in V
  <2>1. ss[k] \in V
    BY <1>2
  <2> HIDE DEF U
  <2> QED
    BY <2>1, ConcatProperties
<1>4. <<>> \in V
  OBVIOUS
<1> HIDE DEF V
<1>5. h \in [1..n -> [V -> V]] /\ \A k \in 1..n, v \in V : h[k][v] = v \o ss[k]
  BY <1>3
<1> HIDE DEF h
<1>6. PICK g : Steps(g, n, V, <<>>, h)
  BY <1>1, <1>4, <1>5, Recursion
<1>7. g \in [0..n -> V] /\ g[0] = <<>> /\ \A k \in 1..n : g[k] = h[k][g[k - 1]]
  BY <1>6 DEF Steps
<1>8. ASSUME NEW k \in 1..n PROVE g[k] = IF k = 1 THEN ss[k] ELSE g[k - 1] \o ss[k]
  <2>1. k - 1 \in 0..n /\ k \in Nat
    BY <1>1
  <2>2. g[k] = g[k - 1] \o ss[k]
    BY <1>5, <1>7, <2>1
  <2>3. k = 1 => g[k - 1] = <<>>
    BY <1>7
  <2>4. <<>> \o ss[k] = ss[k]
    BY <1>1, ConcatEmpty
  <2> QED
    BY <2>2, <2>3, <2>4
<1> DEFINE e == [k \in 1..n |-> g[k]]
<1>9. Rule(e)
  <2>1. \A k \in 1..n : k # 1 => k - 1 \in 1..n /\ e[k - 1] = g[k - 1]
    BY <1>1
  <2>2. \A k \in 1..n : e[k] = IF k = 1 THEN ss[k] ELSE e[k - 1] \o ss[k]
    BY <1>8, <2>1
  <2>3. e = [k \in 1..n |-> e[k]]
    OBVIOUS
  <2> HIDE DEF e
  <2> QED
    BY <2>2, <2>3
<1> DEFINE d == CHOOSE f : Rule(f)
<1>10. Rule(d)
  BY <1>9
<1>11. n # 0 => FlattenSeq(ss) = d[n]
  BY DEF FlattenSeq
<1> HIDE DEF d, e
<1>12. \A k \in 1..n : d[k] = IF k = 1 THEN ss[k] ELSE d[k - 1] \o ss[k]
  BY <1>10
<1> DEFINE f == [k \in 0..n |-> IF k = 0 THEN <<>> ELSE d[k]]
<1>13. f[0] = <<>> /\ \A k \in 1..n : f[k] = d[k]
  BY <1>1
<1> HIDE DEF f
<1>14. \A k \in 1..n : f[k] = f[k - 1] \o ss[k]
  <2>1. ASSUME NEW k \in 1..n PROVE f[k] = f[k - 1] \o ss[k]
    <3>1. CASE k = 1
      <4>1. f[k] = ss[k] /\ f[k - 1] = <<>>
        BY <3>1, <1>12, <1>13
      <4>2. <<>> \o ss[k] = ss[k]
        BY <1>1, ConcatEmpty
      <4> QED
        BY <4>1, <4>2
    <3>2. CASE k # 1
      <4>1. k - 1 \in 1..n
        BY <3>2, <1>1
      <4> QED
        BY <3>2, <4>1, <1>12, <1>13
    <3> QED
      BY <3>1, <3>2
  <2> QED
    BY <2>1
<1>15. \A k \in 0..n : IsList(f[k])
  <2> DEFINE T == {k \in 0..n : IsList(f[k])}
  <2>1. 0 \in T
    BY <1>1, <1>13, EmptyList
  <2>2. ASSUME NEW k \in 1..n, k - 1 \in T PROVE k \in T
    <3>1. IsList(f[k - 1]) /\ IsList(ss[k])
      BY <1>1, <2>2
    <3>2. IsList(f[k - 1] \o ss[k])
      BY <3>1, ConcatList
    <3>3. k \in 0..n
      BY <1>1
    <3> QED
      BY <1>14, <3>2, <3>3
  <2> HIDE DEF T
  <2>3. \A k \in 0..n : k \in T
    BY <1>1, <2>1, <2>2, UpTo
  <2> QED
    BY <2>3 DEF T
<1>16. FlattenSeq(ss) = f[n]
  <2>1. CASE n = 0
    <3>1. FlattenSeq(ss) = ss /\ ss = <<>>
      BY <1>1, <2>1, EmptyList DEF FlattenSeq
    <3> QED
      BY <1>13, <2>1, <3>1
  <2>2. CASE n # 0
    <3>1. n \in 1..n
      BY <1>1, <2>2
    <3> QED
      BY <1>11, <1>13, <2>2, <3>1
  <2> QED
    BY <2>1, <2>2
<1> QED
  BY <1>13, <1>14, <1>15, <1>16 DEF Joins

(* The elements of the lists, no more and no fewer.                        *)
LEMMA FlattenFrom ==
    ASSUME NEW ss, AreLists(ss)
    PROVE  /\ IsList(FlattenSeq(ss))
           /\ \A j \in 1..Len(FlattenSeq(ss)) :
                \E i \in 1..Len(ss) : \E h \in 1..Len(ss[i]) : FlattenSeq(ss)[j] = ss[i][h]
<1> DEFINE n == Len(ss)
           From1(x, k) == \E i \in 1..k : \E h \in 1..Len(ss[i]) : x = ss[i][h]
<1>1. PICK f : Joins(f, ss) /\ FlattenSeq(ss) = f[n]
  BY FlattenIs
<1>2. n \in Nat /\ \A i \in 1..n : IsList(ss[i])
  BY ListDomain DEF AreLists
<1>3. /\ f[0] = <<>> /\ \A k \in 1..n : f[k] = f[k - 1] \o ss[k]
      /\ \A k \in 0..n : IsList(f[k])
  BY <1>1 DEF Joins
<1> DEFINE T == {k \in 0..n : \A j \in 1..Len(f[k]) : From1(f[k][j], k)}
<1>4. 0 \in T
  BY <1>2, <1>3, EmptyList
<1>5. ASSUME NEW k \in 1..n, k - 1 \in T PROVE k \in T
  <2>p. PICK p, x : p = f[k - 1] /\ x = ss[k]
    OBVIOUS
  <2>1. IsList(p) /\ IsList(x) /\ f[k] = p \o x
    BY <1>2, <1>3, <1>5, <2>p
  <2>2. /\ Len(p \o x) = Len(p) + Len(x) /\ Len(p) \in Nat /\ Len(x) \in Nat
        /\ \A i \in 1..Len(p) : (p \o x)[i] = p[i]
        /\ \A i \in 1..Len(x) : (p \o x)[Len(p) + i] = x[i]
    <3>1. IsList(p) /\ IsList(x)
      BY <2>1
    <3>2. Len(p) \in Nat /\ Len(x) \in Nat
      BY <3>1, ListDomain
    <3> QED
      BY <3>1, <3>2, ConcatList
  <2>3. ASSUME NEW j \in 1..Len(f[k]) PROVE From1(f[k][j], k)
    <3>1. CASE j <= Len(p)
      <4>1. j \in 1..Len(p) /\ f[k][j] = p[j]
        BY <2>1, <2>2, <3>1
      <4>2. From1(p[j], k - 1)
        BY <1>5, <2>p, <4>1
      <4>3. PICK i \in 1..k - 1 : \E h \in 1..Len(ss[i]) : p[j] = ss[i][h]
        BY <4>2
      <4>4. i \in 1..k
        BY <1>2
      <4> QED
        BY <4>1, <4>3, <4>4
    <3>2. CASE ~(j <= Len(p))
      <4>h. PICK h : h = j - Len(p)
        OBVIOUS
      <4>1. h \in 1..Len(x) /\ Len(p) + h = j /\ k \in 1..k
        BY <1>2, <2>1, <2>2, <3>2, <4>h
      <4> QED
        BY <2>1, <2>2, <2>p, <4>1
    <3> QED
      BY <3>1, <3>2
  <2>4. k \in 0..n
    BY <1>2
  <2> QED
    BY <2>3, <2>4
<1> HIDE DEF T
<1>6. \A k \in 0..n : k \in T
  BY <1>2, <1>4, <1>5, UpTo
<1>7. n \in T /\ n \in 0..n
  BY <1>2, <1>6
<1> QED
  BY <1>1, <1>3, <1>7 DEF T

LEMMA FlattenHas ==
    ASSUME NEW ss, AreLists(ss), NEW i \in 1..Len(ss), NEW h \in 1..Len(ss[i])
    PROVE  \E j \in 1..Len(FlattenSeq(ss)) : FlattenSeq(ss)[j] = ss[i][h]
<1> DEFINE n == Len(ss)
<1>1. PICK f : Joins(f, ss) /\ FlattenSeq(ss) = f[n]
  BY FlattenIs
<1>2. n \in Nat /\ \A k \in 1..n : IsList(ss[k])
  BY ListDomain DEF AreLists
<1>3. /\ \A k \in 1..n : f[k] = f[k - 1] \o ss[k]
      /\ \A k \in 0..n : IsList(f[k])
  BY <1>1 DEF Joins
<1> DEFINE T == {k \in 0..n : k >= i => \E j \in 1..Len(f[k]) : f[k][j] = ss[i][h]}
<1>4. 0 \in T
  BY <1>2
<1>5. ASSUME NEW k \in 1..n, k - 1 \in T PROVE k \in T
  <2>p. PICK p, x : p = f[k - 1] /\ x = ss[k]
    OBVIOUS
  <2>1. IsList(p) /\ IsList(x) /\ f[k] = p \o x
    BY <1>2, <1>3, <1>5, <2>p
  <2>2. /\ Len(p \o x) = Len(p) + Len(x) /\ Len(p) \in Nat /\ Len(x) \in Nat
        /\ \A j \in 1..Len(p) : (p \o x)[j] = p[j]
        /\ \A j \in 1..Len(x) : (p \o x)[Len(p) + j] = x[j]
    <3>1. IsList(p) /\ IsList(x)
      BY <2>1
    <3>2. Len(p) \in Nat /\ Len(x) \in Nat
      BY <3>1, ListDomain
    <3> QED
      BY <3>1, <3>2, ConcatList
  <2>3. ASSUME k >= i PROVE \E j \in 1..Len(f[k]) : f[k][j] = ss[i][h]
    <3>1. CASE k = i
      <4>1. h \in 1..Len(x) /\ x[h] = ss[i][h]
        BY <2>p, <3>1
      <4>j. PICK j : j = Len(p) + h
        OBVIOUS
      <4>2. j \in 1..Len(p) + Len(x)
        BY <2>2, <4>1, <4>j
      <4> QED
        BY <2>1, <2>2, <4>1, <4>2, <4>j
    <3>2. CASE k # i
      <4>1. k - 1 >= i
        BY <2>3, <3>2
      <4>2. PICK j \in 1..Len(p) : p[j] = ss[i][h]
        BY <1>5, <2>p, <4>1
      <4>3. j \in 1..Len(p) + Len(x)
        BY <2>2
      <4> QED
        BY <2>1, <2>2, <4>2, <4>3
    <3> QED
      BY <3>1, <3>2
  <2>4. k \in 0..n
    BY <1>2
  <2> QED
    BY <2>3, <2>4
<1> HIDE DEF T
<1>6. \A k \in 0..n : k \in T
  BY <1>2, <1>4, <1>5, UpTo
<1>7. n \in T /\ n >= i
  BY <1>2, <1>6
<1> QED
  BY <1>1, <1>7 DEF T
=============================================================================
