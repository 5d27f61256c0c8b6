---------------------------- MODULE MCIFDEncode ----------------------------
(* Small instances of IFDEncode for TLC: the streams of each run.          *)
EXTENDS IFDEncode

Point(exif, gps, interop) == [t \in Pointers |-> CASE t = "exif" -> exif [] t = "gps" -> gps
                                                    [] t = "interop" -> interop]
NoPtr == Point(None, None, None)
Data(of, at, len) == [of |-> of, at |-> at, len |-> len]
Dir0(of, next, ptr) ==
    [of |-> of, count |-> 3, fits |-> TRUE, inline |-> 1, vals |-> <<5, 10>>, next |-> next,
     ptr |-> ptr, jif |-> None, strips |-> None]

(* Any shape of pointers between three directories: chains, cycles, shared *)
(* directories, pointers to nothing and out of the stream.                 *)
Shapes ==
    {[big |-> g, first |-> 1, len |-> 8,
      dir |-> (1 :> [Dir0("d1", n1, Point(x, p, None)) EXCEPT !.count = c])
           @@ (2 :> [Dir0("d2", n2, Point(q, None, None)) EXCEPT !.count = 4])
           @@ (3 :> [Dir0("d3", n3, Point(q3, None, t)) EXCEPT !.count = 2, !.fits = ok])] :
     g \in BOOLEAN, c \in {3, 70}, ok \in BOOLEAN,
     n1 \in {2, 9}, n2 \in {1, 3}, n3 \in {0, 2},
     x \in {0, 3, 9}, p \in {None, 2}, q \in {None, 3}, q3 \in {None, 2}, t \in {None, 1, 2}}

(* A chain of four: thumbnails that fit the stream alone but not together, *)
(* of odd and even length, strips, and IFDs of their own.                  *)
Thumbs == {None, Data("t", 1, 5), Data("u", 2, 4)}
StripSets == {None, <<Data("r", 1, 3), Data("s", 4, 1)>>, <<Data("r", 7, 2)>>}
Chains ==
    {[big |-> g, first |-> 1, len |-> 8,
      dir |-> (1 :> Dir0("d1", 2, Point(4, 5, None)))
           @@ (2 :> [Dir0("d2", 3, Point(e2, None, None)) EXCEPT !.jif = j2, !.strips = s2])
           @@ (3 :> [Dir0("d3", n, Point(None, g3, None)) EXCEPT !.jif = j3, !.strips = s3])
           @@ (4 :> Dir0("d4", 0, Point(None, None, 6)))
           @@ (5 :> Dir0("d5", 6, NoPtr))
           @@ (6 :> Dir0("d6", 0, Point(None, None, 4)))] :
     g \in BOOLEAN, n \in {0, 5}, e2 \in {None, 4, 6}, g3 \in {None, 5, 4},
     j2 \in Thumbs, j3 \in Thumbs \ {Data("t", 1, 5)}, s2 \in StripSets, s3 \in StripSets}

AnyStream == Shapes \union Chains

=============================================================================
