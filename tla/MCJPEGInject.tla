---------------------------- MODULE MCJPEGInject ----------------------------
(***************************************************************************)
(* Instances of JPEGInject for TLC.                                        *)
(***************************************************************************)
EXTENDS JPEGInject

R(res, id) == <<Resource(res, id)>>
Cut(id, part) == <<[Resource("other", id) EXCEPT !.part = part]>>

(* Segments of the source; their contents differ from what is written.     *)
Lead == Segment("Lead", "jfif")
App == Segment("App", "icc")
Table == Segment("Table", "dqt")
Alone == Segment("Alone", "rst")
Odd == Segment("Odd", "ff00")
End == Segment("SOS", "pixels")
Exif == Segment("EXIF", "exif0")
Xmp == Packet("xmp0", None)
XmpG == Packet("xmpG", "g")
G1 == Chunk("g", 1)
G2 == Chunk("g", 2)
H1 == Chunk("h", 1)
Iptc == Photoshop(R("iptc", "iptc0"))
Mixed == Photoshop(R("other", "path") \o R("iptc", "iptc0") \o R("digest", "iptc0"))
Other == Photoshop(R("other", "thumb") \o R("iptc", "iptc9"))

Closed(body) == Append(body, End)
Alphabet == {Lead, App, Exif, XmpG, G1, G2, Mixed}
ShortFiles == {Closed(b) : b \in SeqOf(Alphabet, 3)}
LongFiles ==
    {Closed(<<Lead, Lead, Exif, XmpG, G1, G2, Mixed, App>>),
     Closed(<<Lead, App, XmpG, G2, Table, G1, Exif, Mixed, Other>>),
     Closed(<<G1, Exif, App, XmpG, G2, Xmp, Exif, Iptc>>),
     Closed(<<App, Iptc, Alone, Xmp, Table, Exif, App, Other>>),
     Closed(<<Exif, App, Xmp, H1, G1, App, G2, Mixed, Table>>),
     Closed(<<Photoshop(R("other", "path") \o R("iptc", "iptc0") \o Cut("thumb", "head")),
              App, Photoshop(Cut("thumb", "rest"))>>),
     <<Lead, XmpG, G1, G1, G2, Segment("Damaged", "cut")>>,
     <<Exif, Xmp>>}
(* A segment with marker byte 0, with metadata before it and behind it.    *)
OddFiles ==
    {Closed(<<Lead, Mixed, Exif, Odd, App, Table>>),
     Closed(<<XmpG, G1, Exif, Odd, G2, Iptc, App>>)}
(* Resources of other programs of which no segment holds one whole.        *)
CutFiles ==
    {Closed(<<Photoshop(R("iptc", "iptc0") \o Cut("thumb", "head")),
              Photoshop(Cut("thumb", "rest"))>>)}

Xmps == {None} \union {[id |-> "xmp1", form |-> f, guid |-> g] :
                          f \in {"packet", "large", "wire", "kept", "keptLarge"}, g \in {"g"}}
CallsWith(exifs, xmps, iptcs, keeps, preserves) ==
    [EXIF : exifs, XMP : xmps, IPTC : iptcs, keep : keeps, preserve : preserves]
KeepCalls == CallsWith({None, "exif1", "outward"}, Xmps, {None, "iptc1"},
                       {{}, {"XMP"}, {"EXIF", "PS"}}, BOOLEAN)
SomeCalls == CallsWith({None, "exif1"}, Xmps, {None, "iptc1"}, {{}}, {TRUE})
KeepXMPCalls == CallsWith({"exif1"}, {None}, {None, "iptc1"}, {{}, {"XMP"}}, {TRUE})

(* Every short file is written once, a long one twice in a row.            *)
With(files, n) == [file : files, calls : {n}]
AllFiles == With(ShortFiles, 1) \union With(LongFiles \union CutFiles \union OddFiles, 2)
CutOnce == With(CutFiles, 1)
OddOnce == With(OddFiles, 1)
MixedOnce == {[file |-> Closed(<<Exif, Xmp, Mixed>>), calls |-> 1]}
=============================================================================
