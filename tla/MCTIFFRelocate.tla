--------------------------- MODULE MCTIFFRelocate ---------------------------
(* Small instances of TIFFRelocate for TLC: the files.                     *)
EXTENDS TIFFRelocate

Group(tag, paired, wide, at) == [tag |-> tag, paired |-> paired, wide |-> wide, at |-> at]
Ifd(groups, subs) == [groups |-> groups, kids |-> subs]
Sub(groups, subs, next, len) == [groups |-> groups, kids |-> subs, next |-> next, len |-> len]

(* Blocks that follow each other, overlap, hold one another, are equal,    *)
(* out of order, empty, touch or leave the file, in one IFD or several.    *)
Strips == {<<<<8, 2>>, <<10, 3>>>>, <<<<12, 2>>, <<8, 3>>>>, <<<<8, 4>>, <<9, 0>>, <<10, 4>>>>,
           <<<<10, 3>>, <<10, 3>>>>, <<<<15, 2>>>>}
Tiles == {<<>>, <<<<9, 4>>>>, <<<<13, 1>>, <<11, 2>>>>}
Jpegs == {<<8, 0>>, <<9, 2>>, <<13, 2>>, <<15, 9>>}

Blocky ==
    {[size |-> 16, head |-> h, meta |-> m, trailer |-> t, subs |-> 4 :> Sub(g, <<>>, 0, 3),
      main |-> <<Ifd(<<Group("strip", p, TRUE, s), Group("jpeg", TRUE, TRUE, <<j>>)>>, <<4>>),
                 Ifd(IF i = <<>> THEN <<>> ELSE <<Group("tile", TRUE, TRUE, i)>>, <<>>)>>] :
     h \in {3, 4}, m \in {6, 15}, t \in {0, 12, 14}, p \in BOOLEAN, s \in Strips, i \in Tiles, j \in Jpegs,
     g \in {<<>>, <<Group("strip", TRUE, TRUE, <<<<11, 3>>>>)>>, <<Group("tile", TRUE, TRUE, <<<<14, 9>>>>)>>}}

(* SubIFDs that lead to each other in every way, to nothing, or to an IFD. *)
Lists == {<<>>, <<1>>, <<2, 1>>, <<3>>, <<9, 2>>}
Webs ==
    {[size |-> 12, head |-> 3, meta |-> 8, trailer |-> 0,
      main |-> <<Ifd(<<>>, r1), Ifd(<<Group("strip", TRUE, TRUE, <<<<8, 2>>>>)>>, r2)>>,
      subs |-> 1 :> Sub(<<>>, k1, n1, 2) @@ 2 :> Sub(<<Group("strip", TRUE, TRUE, <<<<9, 2>>>>)>>, k2, n2, 3)
               @@ 3 :> Sub(<<>>, k3, n3, 1)] :
     r1 \in Lists \ {<<>>}, r2 \in {<<>>, <<3>>}, k1 \in {<<>>, <<2, 1>>, <<3>>}, k2 \in {<<>>, <<3>>, <<9, 1>>},
     k3 \in {<<>>, <<1>>}, n1 \in {0, 2, 9}, n2 \in {0, 3, 1}, n3 \in {0, 1, 3}}

(* Chains that are cut, and that other pointers lead to behind the cut.    *)
Chained ==
    {[size |-> 12, head |-> 3, meta |-> 8, trailer |-> 0, main |-> <<Ifd(<<>>, r)>>,
      subs |-> 1 :> Sub(<<>>, <<>>, 2, 2) @@ 2 :> Sub(<<>>, k2, 3, 3) @@ 3 :> Sub(<<>>, <<>>, 4, 1)
               @@ 4 :> Sub(<<Group("strip", TRUE, TRUE, <<<<8, 2>>>>)>>, <<>>, n4, 2)] :
     r \in {<<1>>, <<1, 4>>, <<4, 1>>}, k2 \in {<<>>, <<4>>, <<3, 3, 3>>}, n4 \in {0, 1}}

(* Files that run out of the budget, the blocks or the SubIFDs of an entry *)
(* or the offsets of a classic TIFF.                                       *)
Full(n) == [i \in 1..n |-> <<8, 0>>]
Costly ==
    {[size |-> 12, head |-> h, meta |-> 8, trailer |-> 0,
      main |-> <<Ifd(<<Group("strip", TRUE, TRUE, Full(n))>>, [i \in 1..m |-> 1])>>,
      subs |-> 1 :> Sub(<<Group("tile", TRUE, TRUE, Full(2))>>, <<9>>, 2, 2)
               @@ 2 :> Sub(<<>>, <<>>, 0, 3)] :
     h \in {3, 25}, n \in 11..23, m \in 1..3}

(* Blocks that end beyond the offsets of a classic TIFF, an empty one that *)
(* is not in the file, and elements of type SHORT, which may be too small. *)
Edge(h, wide, strips, subs) ==
    [size |-> 16, head |-> h, meta |-> 6, trailer |-> 0, subs |-> 4 :> Sub(<<>>, <<>>, 0, 3),
     main |-> <<Ifd(<<Group("strip", TRUE, wide, strips)>>, subs)>>]
Edges == {Edge(h, w, s, r) : h \in {3, 9, 18}, w \in BOOLEAN, r \in {<<>>, <<4>>},
                             s \in {<<<<8, 2>>, <<10, 3>>>>, <<<<8, 6>>, <<14, 1>>, <<11, 2>>>>, <<<<8, 2>>, <<17, 0>>>>}}

(* Elements of type SHORT, in files that offsets have room for.            *)
Narrow == {Edge(h, FALSE, <<<<8, 2>>, <<10, 3>>>>, r) : h \in {3, 9}, r \in {<<>>, <<4>>}}

AnyFile == Blocky \union Webs \union Chained \union Costly \union Edges
=============================================================================
