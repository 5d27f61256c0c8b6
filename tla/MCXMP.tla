------------------------------- MODULE MCXMP -------------------------------
(* Packets that use each form of RDF/XML and each part of the data model   *)
(* that the flat view cannot carry, and edits of every kind of key.        *)
EXTENDS XMPPacket

Txt(t) == <<t>>
T(n, t) == Element(n, <<>>, <<>>, Txt(t))
E0(n) == Element(n, <<>>, <<>>, <<>>)
Li(t) == T(LI, t)
LangLi(lang, text) == Element(LI, <<Attr(LANG, lang)>>, <<>>, text)
Arr(n, form, items) == Element(n, <<>>, <<Element(RDF(form), <<>>, items, <<>>)>>, <<>>)
Res(n, kids) == Element(n, <<Attr(RDF("parseType"), Txt("Resource"))>>, kids, <<>>)
Nested(n, at, kids) == Element(n, <<>>, <<Element(RDF("Description"), at, kids, <<>>)>>, <<>>)
Desc(at, kids) == Element(RDF("Description"), at, kids, <<>>)

Creator == <<"dc", "creator">>
Subject == <<"dc", "subject">>
Description == <<"dc", "description">>
Format == <<"dc", "format">>
Label == <<"xmp", "Label">>
From == <<"mm", "DerivedFrom">>
History == <<"mm", "History">>
Act == <<"ev", "action">>
When == <<"ev", "when">>
Id == <<"ref", "id">>

(* The name with a dot is that of a field too, in either order.            *)
MCShared == {
    <<Desc(<<>>, <<Res(<<"mm", "Of">>, <<T(<<"mm", "id">>, "i"), T(<<"mm", "part">>, "p")>>), T(<<"mm", "Of.id">>, "j")>>)>>,
    <<Desc(<<>>, <<T(<<"mm", "Of.id">>, "j"), Res(<<"mm", "Of">>, <<T(<<"mm", "id">>, "i"), T(<<"mm", "part">>, "p")>>)>>)>>}

MCDocs == MCShared \cup {
    \* plain properties, as attributes, elements and arrays
    <<Desc(<<Attr(Label, Txt("l")), Attr(RDF("about"), <<>>)>>,
           <<Arr(Creator, "Seq", <<Li("a"), Li("b")>>), Arr(Subject, "Bag", <<Res(LI, <<T(VALUE, "k"), T(Act, "z")>>), E0(LI)>>),
             Arr(Description, "Alt", <<LangLi(XDefault, <<"d", "|", "e">>), LangLi(Txt("fr"), Txt("f"))>>),
             T(Label, "again")>>)>>,
    \* the wrong container, a simple value of an array, numbered items
    <<Desc(<<Attr(Description, Txt("d")), Attr(Creator, <<"a", "|", "b">>)>>,
           <<Arr(Subject, "Seq", <<Element(RDF("_1"), <<>>, <<>>, Txt("k")), T(Label, "no")>>)>>),
      Desc(<<>>, <<Arr(Label, "Bag", <<Li("l"), Li("m")>>)>>)>>,
    \* a struct with fields of two namespaces, a nested one and a qualified one
    <<Desc(<<>>, <<Nested(From, <<Attr(Id, Txt("i")), Attr(<<"mm", "id">>, Txt("j"))>>,
                          <<Res(<<"ref", "part">>, <<T(Id, "n")>>),
                            Nested(<<"ref", "note">>, <<>>, <<T(VALUE, "v"), T(When, "w")>>)>>),
                   Element(Label, <<Attr(LANG, Txt("fr"))>>, <<>>, Txt("l"))>>)>>,
    \* a struct of one namespace, in each of the other forms
    <<Desc(<<>>, <<Res(From, <<T(<<"mm", "id">>, "i"), T(<<"mm", "part">>, "p"), Element(<<"mm", "note">>, <<Attr(LANG, Txt("fr"))>>, <<>>, Txt("n"))>>)>>),
      Desc(<<>>, <<Element(<<"mm", "Of">>, <<Attr(Id, Txt("i")), Attr(LANG, Txt("fr"))>>, <<>>, <<>>),
                   Element(<<"mm", "Uri">>, <<Attr(RDF("resource"), Txt("u")), Attr(When, Txt("w"))>>, <<>>, <<>>),
                   Element(<<"mm", "Typed">>, <<>>, <<Element(<<"ref", "T">>, <<>>, <<T(Id, "i")>>, <<>>)>>, <<>>)>>)>>,
    \* an array of structs with nested and repeated fields
    <<Desc(<<>>, <<Arr(History, "Seq",
                       <<Res(LI, <<T(Act, "a"), T(When, "w"), Arr(<<"ev", "parts">>, "Bag", <<Li("p")>>)>>),
                         Element(LI, <<Attr(Act, Txt("b"))>>, <<>>, <<>>),
                         Res(LI, <<T(Act, "c"), T(<<"mm", "action">>, "d")>>)>>)>>)>>,
    \* structs of the namespace of the array, and items of both kinds
    <<Desc(<<>>, <<Arr(History, "Seq", <<Res(LI, <<T(<<"mm", "action">>, "a")>>), Res(LI, <<T(<<"mm", "action">>, "b")>>)>>),
                   Arr(Subject, "Bag", <<Li("k"), Res(LI, <<T(Act, "a")>>), Res(LI, <<T(VALUE, "q"), T(Act, "z")>>)>>)>>)>>,
    \* aliases whose base is missing, of another value, and a language alternative
    <<Desc(<<Attr(<<"xmp", "Format">>, Txt("g")), Attr(<<"ps", "Author">>, Txt("n"))>>,
           <<Arr(<<"tiff", "ImageDescription">>, "Alt", <<LangLi(XDefault, Txt("t")), LangLi(Txt("fr"), Txt("s"))>>)>>),
      Desc(<<>>, <<Arr(Description, "Alt", <<LangLi(Txt("fr"), Txt("f"))>>), Arr(Creator, "Seq", <<Li("m")>>),
                   T(Format, "h")>>)>>,
    \* two aliases of a base, an alias that cannot be folded, and a base without items
    <<Desc(<<Attr(<<"ps", "Caption">>, Txt("c")), Attr(<<"tiff", "ImageDescription">>, Txt("t"))>>,
           <<Arr(<<"ps", "Author">>, "Seq", <<Li("n")>>)>>),
      Desc(<<>>, <<Arr(Creator, "Seq", <<>>), Element(<<"xmp", "Format">>, <<>>, <<>>, <<"g", "|">>)>>)>>,
    \* more fields than the flat view holds, and elements that are no property
    <<Desc(<<>>, <<Arr(History, "Seq", <<Res(LI, <<T(Act, "a"), T(When, "w"), T(<<"ev", "by">>, "x")>>),
                                         Res(LI, <<T(Act, "b"), T(When, "v"), T(<<"ev", "by">>, "y")>>)>>),
                   E0(RDF("li")), E0(RDF("Description")),
                   Element(Creator, <<>>, <<Desc(<<>>, <<>>)>>, Txt("mixed")),
                   Element(Label, <<Attr(Id, Txt("1")), Attr(When, Txt("2")), Attr(Act, Txt("3")), Attr(LANG, Txt("fr"))>>,
                           <<>>, Txt("l"))>>)>>,
    \* elements that the parser refuses, an XML literal and a typed literal
    <<Desc(<<Attr(RDF("type"), Txt("t"))>>,
           <<Element(Label, <<Attr(RDF("datatype"), Txt("int"))>>, <<>>, Txt("1")),
             Element(Creator, <<Attr(VALUE, Txt("v")), Attr(RDF("resource"), Txt("u"))>>, <<>>, <<>>),
             Element(Subject, <<Attr(RDF("parseType"), Txt("Collection"))>>, <<E0(RDF("Description"))>>, <<>>),
             Element(Format, <<Attr(RDF("parseType"), Txt("Literal"))>>, <<>>, Txt("h")),
             Element(Description, <<>>, <<Element(RDF("Alt"), <<>>, <<>>, <<>>)>>, <<>>)>>),
      Desc(<<>>, <<Element(From, <<Attr(RDF("parseType"), Txt("Resource"))>>, <<>>, <<>>),
                   Element(<<"mm", "Odd">>, <<Attr(VALUE, Txt("v")), Attr(Act, Txt("z"))>>, <<>>, <<>>)>>)>>,
    \* a link, and the properties that leave the standard packet first
    <<Desc(<<Attr(<<"note", "HasExtendedXMP">>, Txt("old")), Attr(Label, Txt("l")), Attr(<<"crs", "Tint">>, Txt("t"))>>,
           <<Arr(<<"xmp", "Thumbnails">>, "Alt", <<Res(LI, <<T(<<"img", "w">>, "8"), T(<<"img", "h">>, "6")>>)>>),
             T(<<"ps", "History">>, "h"), Element(Format, <<Attr(LANG, Txt("fr"))>>, <<>>, Txt("g")),
             Arr(Subject, "Bag", <<Li("k"), Li("m")>>)>>)>>,
    \* a name with a dot, and a language with the mark that ends it
    <<Desc(<<>>, <<T(<<"mm", "Of.id">>, "i"), Arr(Description, "Alt", <<LangLi(<<"fr", "|", "a">>, Txt("f"))>>),
                   Res(From, <<T(<<"mm", "Of.id">>, "n")>>)>>)>>
    }
Top(p) == <<p[1], p[2], -1, "">>
Field(p, f) == <<p[1], p[2], -1, f>>
ItemField(p, i, f) == <<p[1], p[2], i, f>>

MCEdits == {
    <<Top(Label), <<Txt("new")>> >>,
    <<Top(Creator), <<Txt("a"), Txt("new")>> >>,
    <<Top(Subject), <<Txt("k")>> >>,
    <<Top(Description), <<Txt("new"), <<"fr", "|", "f">> >> >>,
    <<Field(From, "id"), <<Txt("new")>> >>,
    <<Field(From, "more"), <<Txt("new")>> >>,
    <<ItemField(History, 0, "action"), <<Txt("new")>> >>,
    <<ItemField(History, 1, "when"), <<Txt("new")>> >>,
    <<ItemField(History, 3, "action"), <<Txt("new")>> >>}
MCRemovals == {Top(Description), Field(From, "id"), ItemField(History, 0, "action"), ItemField(History, 1, "action")}
=============================================================================
