---------------------------- MODULE MCReconcile ----------------------------
(***************************************************************************)
(* Instances of Reconcile: files whose forms agree, disagree, are missing, *)
(* blank, too long for a dataset or in another character set, with a       *)
(* digest that matches, is stale, is zero or is not there.                 *)
(***************************************************************************)
EXTENDS Reconcile

A == <<97>>
B == <<98>>
C == <<99>>
Accent == <<195, 169>>          \* U+00E9 in UTF-8
LatinAccent == <<233>>
Long == <<97, 98>> \o Accent    \* its third byte is the first of a rune

Declared == Mark(1, 90, ESCPercentG)
IIMAll(cap, by, kws, date, time) ==
    <<Version(1), Declared, Version(2)>>
    \o [i \in DOMAIN kws |-> Mark(2, 25, kws[i])]
    \o <<Mark(2, 55, date), Mark(2, 60, time), Mark(2, 80, by), Mark(2, 120, cap)>>

EXIFAll(cap, by) == [Caption |-> cap, Creator |-> by, Make |-> <<97, 32>>, ISO |-> A,
                     Date |-> <<49, 50>>, Offset |-> NONE, SubSec |-> 5]
XMPAll(cap, by, kws) == [Caption |-> cap, Creator |-> by, Keywords |-> kws,
                         Make |-> A, ISO |-> NONE, Date |-> <<49, 50, 49>>, Created |-> <<49, 50, 49>>]

Agreeing == [fmt |-> "JPEG", exif |-> EXIFAll(A, <<97, 59, 98>>), xmp |-> XMPAll(<<A>>, <<A, B>>, <<A, Accent>>),
             iptc |-> IIMAll(A, A, <<A, Accent>>, <<49>>, <<50, 49>>),
             digest |-> DigestOf(IIMAll(A, A, <<A, Accent>>, <<49>>, <<50, 49>>))]

(* Each form has values of its own, and the description is translated.     *)
Odd == IIMAll(C, C, <<C>>, <<51>>, <<>>)
Disagreeing(digest) ==
    [fmt |-> "JPEG", exif |-> EXIFAll(A, A), xmp |-> XMPAll(<<<<102, 124, 98>>, B, <<103, 124, 99>> >>, <<B>>, <<B>>),
     iptc |-> Odd, digest |-> digest]

(* The dataset holds what it can of the XMP text: that is no change.       *)
CutCaption == [fmt |-> "JPEG", exif |-> NONE, xmp |-> XMPAll(<<Long>>, <<A>>, <<Long>>),
               iptc |-> IIMAll(<<97, 98>>, A, <<<<97, 98>>>>, <<49>>, <<50, 49>>), digest |-> ZeroDigest]

Undecl == [fmt |-> "JPEG", exif |-> NONE, xmp |-> NONE, digest |-> NONE,
           iptc |-> <<Version(2), Mark(2, 120, LatinAccent), Mark(2, 80, C)>>]

(* Marks out of order, the character set declared last, lengths that do    *)
(* not decode, a record that does not exist.                               *)
Odder == [fmt |-> "TIFF", exif |-> EXIFAll(<<32, 32>>, NONE), xmp |-> NONE, digest |-> NONE,
          iptc |-> <<[Mark(2, 120, A) EXCEPT !.len = "past"], Mark(2, 120, Accent), Mark(0, 5, A),
                     Mark(2, 25, A), [Mark(2, 25, A) EXCEPT !.len = "bad"], Mark(2, 55, <<63>>),
                     Mark(2, 80, <<97, 0, 98>>), Declared, Mark(3, 5, A), Mark(2, 25, B), Mark(2, 25, C)>>]

(* More than Parse stores, and more than it reads.                         *)
Flood == [fmt |-> "JPEG", exif |-> NONE, xmp |-> NONE, digest |-> NONE,
          iptc |-> [i \in 1..11 |-> Mark(3, 5, A)] \o <<Mark(2, 120, A)>>]
Heavy == [fmt |-> "JPEG", exif |-> NONE, xmp |-> NONE, digest |-> NONE,
          iptc |-> <<Mark(2, 120, B), Mark(3, 5, [i \in 1..61 |-> 97]), Mark(2, 80, C)>>]

Stray == [fmt |-> "PNG", exif |-> NONE, xmp |-> XMPAll(<<>>, <<>>, <<>>), digest |-> NONE,
          iptc |-> <<Version(2), Mark(2, 25, A), Mark(2, 120, B)>>]
Bare(fmt) == [fmt |-> fmt, exif |-> NONE, iptc |-> NONE, xmp |-> NONE, digest |-> NONE]

MCFiles == {Agreeing, CutCaption, Undecl, Odder, Flood, Heavy, Stray, Bare("JPEG"), Bare("PNG"),
            Disagreeing(NONE), Disagreeing(ZeroDigest), Disagreeing(DigestOf(<<>>)), Disagreeing(DigestOf(Odd))}

MCCaptions == {<<32>>, B, Long}
MCCreatorLists == {<<>>, << <<97, 59, 98>> >>, << <<34, 97, 34>>, Accent>>}
MCKeywordLists == {<<>>, <<Long, B>>}
MCDates == {<<52, 53, 48, 7>>}
MCNames == {C}
MCSkips == {{}, {"XMP"}, {"EXIF"}}
=============================================================================
