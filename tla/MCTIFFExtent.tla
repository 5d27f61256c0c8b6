---------------------------- MODULE MCTIFFExtent ----------------------------
(* Small instances of TIFFExtent for TLC: the files.                       *)
EXTENDS TIFFExtent

(* Slots of four cells, far apart or not, after the header.                *)
Slots == 0..5
At(s) == IF s = 6 THEN 90 ELSE IF s = 7 THEN 0 ELSE 2 + 5 * s  \* outside, nothing
Size == 2 + 5 * 6 + 2

D(es, next) == [es |-> es, next |-> At(next)]

Scattered ==
    {[size |-> Size, ifd0 |-> At(a),
      dirs |-> At(a) :> D(<<Entry("value", At(v), 3, <<>>),
                            Entry(k, At(v) + 1, 2, IF k = "sub" THEN <<At(p), At(q)>> ELSE <<At(p)>>)>>, n)
            @@ At(b) :> D(<<Entry("maker", At(m), 3, <<>>)>>, nb)
            @@ At(c) :> D(<<Entry("jif", At(t), 4, <<>>), Entry("ptr", 0, 0, <<At(q)>>)>>, nc)] :
     a \in {0, 3, 4}, b \in {1, 5}, c \in {2, 5}, v \in {1, 4}, k \in {"ptr", "sub"},
     p \in {1, 5}, q \in {0, 2, 6}, n \in {2, 7}, nb \in {7, 2}, m \in {0, 3, 6}, t \in {3, 5},
     nc \in {3, 7}}

Sound(x) == Cardinality(DOMAIN x.dirs) = 3
AnyShape == {x \in Scattered : Sound(x)}

(* A document of many pages: each directory after the data of its page.    *)
Page(i) == 12 * i - 3
Pages == {[size |-> 12 * n + 20, ifd0 |-> Page(1),
           dirs |-> [x \in {Page(i) : i \in 1..n} |->
                       D(<<Entry("value", x + 4, 2, <<>>)>>, 7)]] : n \in {2, 7}}
Linked == {[x EXCEPT !.dirs = [p \in DOMAIN x.dirs |->
                                 [x.dirs[p] EXCEPT !.next = IF p + 12 \in DOMAIN x.dirs THEN p + 12 ELSE 0]]] :
           x \in Pages}
AnyFile == AnyShape \union Linked
=============================================================================
