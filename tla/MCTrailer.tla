----------------------------- MODULE MCTrailer -----------------------------
(* Regions with the trailers alone, next to each other in both orders,     *)
(* within each other, and damaged.                                         *)
EXTENDS Trailer

X(v) == Cell("x", v, 0, 0)
I(n) == [i \in 1..n |-> X("i")]

(* An AFCP trailer at that offset with an IPTC of n cells, another entry   *)
(* and cells after its data.                                               *)
AFCPAt(at, n, other, gap) ==
    <<Cell("AXS", "!", 2, 0), Cell("dir", "iptc", n, at + 3), Cell("dir", "text", Len(other), at + 3 + n)>>
    \o I(n) \o other \o gap \o <<Cell("AXS", "!", at, 0)>>
FotoOf(n, other) ==
    I(n) \o <<Cell("foto", "iptc", n + 1, 0)>> \o other \o <<Cell("foto", "log", Len(other) + 1, 0)>>

(* A Samsung trailer: the audio file at that offset, a directory and the   *)
(* offsets.                                                                *)
SamsungAt(at, audio, between) ==
    audio \o between
    \o <<Cell("SEFH", "", 0, 0), X("e"), Cell("SEFT", "", 2, 0), Cell("QDIO", "", at, at + Len(audio)), X("z")>>

Region(base, cells) == [base |-> base, cells |-> cells]

MCFiles == {
    Region(3, AFCPAt(3, 1, <<X("t")>>, <<>>)),
    Region(3, <<X("p")>> \o AFCPAt(4, 2, <<X("t")>>, <<X("gap")>>) \o FotoOf(1, <<X("l")>>) \o <<X("q")>>),
    Region(4, FotoOf(2, <<X("l")>>) \o AFCPAt(9, 1, <<>>, <<>>)),
    Region(3, FotoOf(1, <<X("l")>>) \o <<X("p")>>),
    \* Samsung alone, after and before the others
    Region(3, SamsungAt(3, <<X("a"), X("b")>>, <<X("c")>>)),
    Region(3, AFCPAt(3, 1, <<X("t")>>, <<>>) \o FotoOf(1, <<>>) \o SamsungAt(12, <<X("a"), X("b")>>, <<>>)),
    Region(3, SamsungAt(3, <<X("a")>>, <<>>) \o AFCPAt(9, 2, <<X("t")>>, <<>>) \o FotoOf(1, <<X("l")>>)),
    \* an AFCP among the audio, between the audio and its directory, and around it
    Region(3, SamsungAt(3, <<X("a")>> \o AFCPAt(4, 1, <<X("t")>>, <<>>) \o <<X("b")>>, <<>>)),
    Region(3, SamsungAt(3, <<X("a"), X("b")>>, AFCPAt(5, 2, <<X("t")>>, <<>>))),
    Region(3, AFCPAt(3, 1, SamsungAt(7, <<X("a")>>, <<>>), <<>>)),
    \* a FotoStation record in the data of an AFCP trailer, and two Samsung blocks
    Region(3, AFCPAt(3, 1, FotoOf(1, <<X("l")>>), <<X("gap")>>)),
    Region(3, SamsungAt(3, <<X("a")>>, <<>>) \o SamsungAt(9, <<X("b"), X("c")>>, <<>>)),
    \* an EOF record that points elsewhere, an entry outside, two headers
    Region(3, <<X("p")>> \o AFCPAt(3, 1, <<X("t")>>, <<>>)),
    Region(3, <<Cell("AXS", "!", 1, 0), Cell("dir", "iptc", 9, 4), Cell("AXS", "!", 3, 0)>>),
    Region(0, <<Cell("AXS", "*", 0, 0)>> \o AFCPAt(1, 1, <<X("t")>>, <<>>)),
    \* an audio file before the region, and a directory of another length
    Region(3, <<Cell("SEFH", "", 0, 0), X("e"), Cell("SEFT", "", 2, 0), Cell("QDIO", "", 1, 2)>>),
    Region(3, <<X("a"), Cell("SEFH", "", 0, 0), Cell("SEFT", "", 2, 0), Cell("QDIO", "", 3, 4)>>)
    }
MCIPTCs == {NONE, <<>>, I(1), I(3)}
MCGrowths == {-3, -1, 0, 2}
=============================================================================
