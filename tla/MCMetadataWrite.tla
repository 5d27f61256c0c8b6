-------------------------- MODULE MCMetadataWrite --------------------------
(* Small instances of MetadataWrite for TLC: the files of each run and     *)
(* what they hold.                                                         *)
EXTENDS MetadataWrite

Holding(exif, iptc, xmp) == [s \in Segs |-> CASE s = "EXIF" -> exif
                                              [] s = "IPTC" -> iptc
                                              [] s = "XMP"  -> xmp]

AllFiles == {"h", "j", "k", "l", "p", "t", "u", "v"}
MCClass == [f \in AllFiles |-> CASE f \in {"j", "k", "l"} -> "JPEG"
                              [] f = "p" -> "PNG"
                              [] f = "v" -> "WEBP"
                              [] f = "h" -> "BMFF"
                              [] f \in {"t", "u"} -> "TIFF"]
MCOriginal == [f \in AllFiles |-> CASE f = "j" -> Holding("whole", "whole", "split")
                                 [] f = "k" -> Holding("whole", None, "bad")
                                 [] f = "l" -> Holding("bad", "whole", "loose")
                                 [] f = "p" -> Holding(None, "whole", "whole")
                                 [] f = "v" -> Holding("bad", None, "whole")
                                 [] f = "h" -> Holding("whole", None, None)
                                 [] f \in {"t", "u"} -> Holding("whole", "whole", None)]

(* The worlds.                                                             *)
Plain == [files |-> {"u"}, metas |-> {"m1"}, writers |-> {"w1"}, fields |-> {"caption"}, lazy |-> {{}},
          direct |-> {}, assign |-> {}, blank |-> {}, strip |-> {FALSE}, streamed |-> {}, mirrored |-> {}]
JpegScene ==
    [Plain EXCEPT !.files = {"j", "k", "l"}, !.metas = {"m1", "m2"},
                  !.fields = {"caption", "make"}, !.lazy = {{}, {"EXIF"}, {"IPTC", "XMP"}},
                  !.direct = {"XMP"}, !.mirrored = {"j"}]
MixedScene ==
    [Plain EXCEPT !.files = {"j", "p", "v", "h"}, !.fields = {"caption", "keywords"},
                  !.lazy = {{}, {"EXIF", "IPTC"}}, !.direct = {"IPTC"},
                  !.assign = {"IPTC", "XMP"}, !.blank = {"JPEG","BMFF"},
                  !.strip = {TRUE, FALSE}]
TiffScene ==
    [Plain EXCEPT !.files = {"t", "k"}, !.metas = {"m1", "m2"}, !.writers = {"w1", "w2"},
                  !.fields = {"caption", "camera"}, !.lazy = {{}, {"EXIF"}}, !.assign = {"XMP"},
                  !.blank = {"JPEG"}]
LargeScene ==
    [Plain EXCEPT !.files = {"t", "u"}, !.metas = {"m1", "m2"}, !.streamed = {"u"},
                  !.blank = {"TIFF"}]
AllScenes == {JpegScene, MixedScene, TiffScene, LargeScene}

(* A large TIFF that is written twice; the Metadata of a large TIFF and    *)
(* another TIFF; a new Metadata and two JPEG files.                        *)
TwiceScenes == {[Plain EXCEPT !.streamed = {"u"}]}
CopyScenes == {[Plain EXCEPT !.files = {"t", "u"}, !.streamed = {"u"}]}
TwoSizesScenes == {[Plain EXCEPT !.files = {"j", "k"}, !.blank = {"JPEG"}]}

(* All of them are among the worlds that the theorems are about.           *)
ASSUME CoveredByTheorems == Scenes = AllScenes => WholeReads /\ SettersOnly /\ LinkScenes
=============================================================================
