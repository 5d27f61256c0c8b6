----------------------------- MODULE XMPPacket -----------------------------
(***************************************************************************)
(* An XMP value between Parse and Encode: the flat view that the caller    *)
(* edits (XMP.Properties), the part of the tree that the flat view cannot  *)
(* give back and that is retained (xmp/project.go), and the packet that    *)
(* Encode writes from both (xmp/serialize.go, xmp/write.go).               *)
(*                                                                         *)
(* A key is <<namespace, property, item, field>>, where item is -1 and     *)
(* field "" for the key of the property itself: "P", "P.F" or "P[N].F",    *)
(* split at the first dot.  A value is the sequence of the texts that      *)
(* U+001E separates, a character that XML does not allow in a text.        *)
(***************************************************************************)
EXTENDS Integers, Sequences, SequencesExt, FiniteSetsExt

CONSTANTS
    NONE,
    Docs,           \* the packets that may be read
    Edits,          \* the pairs of a key and a value that may be set
    Removals,       \* the keys that may be removed
    KeyBudget,      \* fields that the flat view of a packet holds
    Limits,         \* sizes of the standard packet of a JPEG
    MaxEdits,       \* edits of a behaviour
    MaxWrites       \* writes of a behaviour

ASSUME PacketAssumption == KeyBudget \in Nat /\ MaxEdits \in Nat /\ MaxWrites \in Nat

VARIABLES
    doc,        \* the packet: the top-level node elements of the standard
                \* and of the extended portion, and the limit it was
                \* written for, 0 when it has none
    x,          \* the XMP value, or NONE
    src,        \* the tree of the packet that was read last
    asked,      \* the edits since then: key and value, <<>> when removed
    edits, writes

vars == <<doc, x, src, asked, edits, writes>>

-----------------------------------------------------------------------------
(* The XMP data model of a packet (xmp/tree.go), the RDF forms that        *)
(* xmp/parserdf.go reads it from, and the aliases that xmp/alias.go folds  *)
(* into their base properties.                                             *)
(*                                                                         *)
(* A name is a pair of a namespace and a local name; a text is a sequence  *)
(* of tokens, "|" being one that the flat view gives a meaning.  An XML    *)
(* element has a name, a sequence of attributes, a sequence of elements    *)
(* and a text.  A node of the data model has a form: "simple", "struct",   *)
(* or one of the RDF containers.                                           *)

RDF(local) == <<"rdf", local>>
LI == RDF("li")
VALUE == RDF("value")
LANG == <<"xml", "lang">>
Containers == {"Bag", "Seq", "Alt"}
XDefault == <<"x-default">>

Element(n, at, kids, text) == [n |-> n, at |-> at, kids |-> kids, text |-> text]
Attr(n, v) == [n |-> n, v |-> v]

Node(n, v) == [n |-> n, val |-> v, form |-> "simple", uri |-> FALSE,
               quals |-> <<>>, kids |-> <<>>, owner |-> FALSE]
Root == [Node(<<"", "">>, <<>>) EXCEPT !.form = "schemas"]

IsArray(c) == c.form \in Containers
IsSimple(c) == c.form = "simple"
IsStruct(c) == c.form = "struct"

Named(nodes, n) == \E i \in DOMAIN nodes : nodes[i].n = n
At(nodes, n) == SelectInSeq(nodes, LAMBDA c : c.n = n)
Without(nodes, i) == SubSeq(nodes, 1, i - 1) \o SubSeq(nodes, i + 1, Len(nodes))

-----------------------------------------------------------------------------
(* Nodes and qualifiers that are added while a packet is parsed.           *)

CoreSyntax == {RDF("RDF"), RDF("ID"), RDF("about"), RDF("parseType"),
               RDF("resource"), RDF("nodeID"), RDF("datatype")}
OldTerms == {RDF("aboutEach"), RDF("aboutEachPrefix"), RDF("bagID")}
IsPropertyName(n) == n \notin CoreSyntax \cup OldTerms \cup {RDF("Description")}
NumberedItems == {RDF("_1"), RDF("_2")}

(* What may be a child of p: an item of an array only, and a named child   *)
(* once; rdf:value is a field.                                             *)
Admits(p, n) ==
    /\ n[1] # ""
    /\ IF IsArray(p) THEN n \in NumberedItems \cup {LI}
       ELSE /\ n # LI
            /\ IF n = VALUE THEN IsStruct(p) ELSE ~Named(p.kids, n)

AddChild(p, c) ==
    CASE ~Admits(p, c.n) -> p
      [] IsArray(p) -> [p EXCEPT !.kids = Append(@, [c EXCEPT !.n = LI])]
      [] c.n = VALUE -> [p EXCEPT !.kids = <<c>> \o @]
      [] OTHER -> [p EXCEPT !.kids = Append(@, c)]

(* The language is the first qualifier, and the type comes after it.       *)
AddQual(c, q) ==
    IF q.n[1] = "" \/ Named(c.quals, q.n) THEN c
    ELSE LET first == IF c.quals # <<>> /\ c.quals[1].n = LANG THEN 1 ELSE 0
         IN CASE q.n = LANG -> [c EXCEPT !.quals = <<q>> \o @]
              [] q.n = RDF("type") ->
                    [c EXCEPT !.quals = SubSeq(@, 1, first) \o <<q>> \o SubSeq(@, first + 1, Len(@))]
              [] OTHER -> [c EXCEPT !.quals = Append(@, q)]

AddQuals(c, at) == FoldLeft(LAMBDA k, a : AddQual(k, Node(a.n, a.v)), c, at)

(* A struct with an rdf:value is the value with its other fields as        *)
(* qualifiers; of two qualifiers of a name that of the value stays, and a  *)
(* field gives way to both.                                                *)
FixupQualified(c) ==
    IF ~IsStruct(c) \/ c.kids = <<>> \/ c.kids[1].n # VALUE THEN c
    ELSE LET value == c.kids[1]
             IsLang(q) == q.n = LANG
             Plain(qs) == SelectSeq(qs, LAMBDA q : q.n # LANG)
             langs == SelectSeq(value.quals \o c.quals, IsLang)
             lang == IF langs = <<>> THEN <<>> ELSE <<langs[1]>>
             own == Plain(value.quals)
             outer == SelectSeq(Plain(c.quals), LAMBDA q : ~Named(own, q.n))
             fields == SelectSeq(Tail(c.kids), LAMBDA f : ~Named(lang \o outer \o own, f.n))
         IN [c EXCEPT !.form = value.form, !.uri = value.uri, !.val = value.val, !.kids = value.kids,
                      !.quals = lang \o SelectSeq(fields, IsLang) \o outer \o own \o Plain(fields)]

-----------------------------------------------------------------------------
(* The forms of a property element.  The result is the node it stands for, *)
(* as a sequence of one, or nothing.                                       *)

OfLang(at) == SelectSeq(at, LAMBDA a : a.n = LANG)

Literal(el) ==
    <<AddQuals(Node(el.n, el.text), SelectSeq(el.at, LAMBDA a : a.n[1] \notin {"", "rdf"}))>>

(* An element without content: a value or a URI whose other attributes are *)
(* qualifiers, a struct of its attributes, or an empty text.               *)
Empty(el) ==
    LET at == SelectSeq(el.at, LAMBDA a : a.n[1] # "" /\ a.n # RDF("ID"))
        Has(n) == \E i \in DOMAIN at : at[i].n = n
        hasValue == Has(VALUE)
        uri == Has(RDF("resource"))
        of == SelectLastInSeq(at, LAMBDA a : a.n \in {VALUE, RDF("resource")})
        struct == ~hasValue /\ ~uri /\ \E i \in DOMAIN at : at[i].n # LANG
        node == [Node(el.n, IF of = 0 THEN <<>> ELSE at[of].v) EXCEPT
                    !.uri = uri, !.form = IF struct THEN "struct" ELSE @]
    IN IF \/ el.kids # <<>> \/ el.text # <<>>
          \/ hasValue /\ uri
          \/ \E i \in DOMAIN at : at[i].n \in (CoreSyntax \cup OldTerms \cup {RDF("Description"), LI}) \ {RDF("resource")}
       THEN <<>>
       ELSE <<FoldLeft(LAMBDA c, i :
                  CASE i = of -> c
                    [] struct /\ at[i].n # LANG -> AddChild(c, Node(at[i].n, at[i].v))
                    [] OTHER -> AddQual(c, Node(at[i].n, at[i].v)),
              node, [i \in DOMAIN at |-> i])>>

RECURSIVE PropertyElement(_)

AddElements(p, els) ==
    FoldLeft(LAMBDA q, el : FoldLeft(AddChild, q, PropertyElement(el)), p, els)

(* The attributes and elements of a node element become children of p.     *)
NodeElement(p, el) ==
    LET top == p.form = "schemas"
        at == SelectSeq(el.at, LAMBDA a : /\ IsPropertyName(a.n) /\ a.n # LI
                                          /\ a.n[1] # "x" /\ ~(top /\ a.n[1] = "rdf"))
        isNode == el.n = RDF("Description") \/ (~top /\ IsPropertyName(el.n) /\ el.n # LI)
    IN IF ~isNode THEN p
       ELSE AddElements(FoldLeft(AddChild, p, [i \in DOMAIN at |-> Node(at[i].n, at[i].v)]), el.kids)

(* An element around a node element: a container, a struct or a node with  *)
(* a type.                                                                 *)
Resource(el) ==
    LET child == el.kids[1]
        node == AddQuals(Node(el.n, <<>>), OfLang(el.at))
        type == [Node(RDF("type"), child.n) EXCEPT !.uri = TRUE]
    IN CASE el.text # <<>> -> <<node>>
         [] child.n[1] = "rdf" /\ child.n[2] \in Containers ->
               <<NodeElement([node EXCEPT !.form = child.n[2]], child)>>
         [] child.n = RDF("Description") ->
               <<FixupQualified(NodeElement([node EXCEPT !.form = "struct"], child))>>
         [] child.n[1] = "" -> <<node>>
         [] OTHER -> <<FixupQualified(NodeElement([AddQual(node, type) EXCEPT !.form = "struct"], child))>>

ParseTypeResource(el) ==
    <<FixupQualified(AddElements([AddQuals(Node(el.n, <<>>), OfLang(el.at)) EXCEPT !.form = "struct"],
                                 el.kids))>>

(* The form of an element is told by its first attribute that is not a     *)
(* language or an ID, or by its content.                                   *)
PropertyElement(el) ==
    LET at == SelectSeq(el.at, LAMBDA a : a.n[1] # "")
        telling == SelectSeq(at, LAMBDA a : a.n \notin {LANG, RDF("ID")})
        first == telling[1]
        onlyText == el.kids = <<>> /\ el.text # <<>>
    IN CASE ~IsPropertyName(el.n) -> <<>>
         [] Len(at) > 3 -> IF onlyText /\ \A i \in DOMAIN at : at[i].n[1] # "rdf"
                           THEN Literal(el) ELSE Empty(el)
         [] telling = <<>> -> CASE onlyText -> Literal(el)
                                [] el.kids = <<>> -> Empty(el)
                                [] OTHER -> Resource(el)
         [] first.n = RDF("datatype") -> Literal(el)
         [] first.n[1] # "rdf" /\ onlyText -> Literal(el)
         [] first.n # RDF("parseType") -> Empty(el)
         [] first.v = <<"Resource">> -> ParseTypeResource(el)
         [] first.v = <<"Literal">> /\ el.kids = <<>> -> Literal(el)
         [] OTHER -> <<>>

-----------------------------------------------------------------------------
(* Aliases: [base, form] of the name of an alias.                          *)

Aliases == {<<"xmp", "Format">>, <<"ps", "Author">>, <<"ps", "Caption">>, <<"tiff", "ImageDescription">>}
Base(n) == CASE n = <<"xmp", "Format">> -> <<"dc", "format">>
             [] n = <<"ps", "Author">> -> <<"dc", "creator">>
             [] OTHER -> <<"dc", "description">>
AliasForm(n) == CASE n = <<"xmp", "Format">> -> "simple"
                  [] n = <<"ps", "Author">> -> "Seq"
                  [] OTHER -> "Alt"

ItemLang(c) == IF c.quals # <<>> /\ c.quals[1].n = LANG THEN c.quals[1].val ELSE <<>>
AsDefault(c) == IF ItemLang(c) # <<>> THEN c ELSE AddQual(c, Node(LANG, XDefault))
PlainDefault(c) == ItemLang(c) \in {<<>>, XDefault}
HasLangItem(b, lang) == \E i \in DOMAIN b.kids : ItemLang(b.kids[i]) = lang
HasItemFor(b, form) == IF form = "Alt" THEN HasLangItem(b, XDefault) ELSE b.kids # <<>>

(* The base as a language alternative that takes the items of another: its *)
(* default first when there is none, each other language once.             *)
MergedAlt(b, c) ==
    FoldLeft(LAMBDA acc, it :
        CASE ~IsSimple(it) -> acc
          [] PlainDefault(it) ->
                IF HasItemFor(acc, "Alt") THEN acc ELSE [acc EXCEPT !.kids = <<AsDefault(it)>> \o @]
          [] HasLangItem(acc, ItemLang(it)) -> acc
          [] OTHER -> [acc EXCEPT !.kids = Append(@, it)],
        b, c.kids)

(* A simple value of a language alternative is its default item.           *)
SimpleAsAlt(b) ==
    IF IsSimple(b) /\ b.quals = <<>>
    THEN [b EXCEPT !.form = "Alt", !.val = <<>>,
                   !.kids = IF b.val = <<>> THEN <<>> ELSE <<AsDefault(Node(LI, b.val))>>]
    ELSE b

(* The properties of a namespace are together.                             *)
Grouped(props) ==
    LET first(i) == SelectInSeq(props, LAMBDA c : c.n[1] = props[i].n[1])
        Before(j, i) == first(j) < first(i) \/ (first(j) = first(i) /\ j <= i)
        rank(i) == Cardinality({j \in DOMAIN props : Before(j, i)})
    IN [k \in DOMAIN props |-> props[CHOOSE i \in DOMAIN props : rank(i) = k]]

(* The properties with the alias at i folded into its base: it becomes the *)
(* base when there is none, or its first item when there is no such item.  *)
FoldAlias(props, i) ==
    LET c == props[i]
        form == AliasForm(c.n)
        base == Base(c.n)
        bi == At(props, base)
        b == props[bi]
        rest == Without(props, i)
        With(d) == Without([props EXCEPT ![bi] = d], i)
        item == IF form = "Alt" THEN AsDefault([c EXCEPT !.n = LI]) ELSE [c EXCEPT !.n = LI]
        into == IF IsSimple(b) THEN [b EXCEPT !.form = form] ELSE b
        inside == IF into.form = "Alt" THEN AsDefault([c EXCEPT !.n = LI]) ELSE [c EXCEPT !.n = LI]
    IN CASE form = "Alt" /\ c.form = "Alt" ->
               (CASE bi = 0 -> Grouped(Append(rest, [c EXCEPT !.n = base]))
                  [] SimpleAsAlt(b).form = "Alt" -> With(MergedAlt(SimpleAsAlt(b), c))
                  [] OTHER -> props)
         [] form # "simple" /\ (~IsSimple(c) \/ (form = "Alt" /\ ~PlainDefault(c))) -> props
         [] bi # 0 /\ IsStruct(b) -> props
         [] form = "simple" -> IF bi # 0 THEN rest ELSE Grouped(Append(rest, [c EXCEPT !.n = base]))
         [] bi = 0 -> Grouped(Append(rest, [Node(base, <<>>) EXCEPT !.form = form, !.kids = <<item>>]))
         [] IsSimple(b) /\ b.val # <<>> -> rest
         [] HasItemFor(into, form) -> With(into)
         [] OTHER -> With([into EXCEPT !.kids = <<inside>> \o @])

RECURSIVE FoldFrom(_, _)
FoldFrom(props, names) ==
    IF names = <<>> THEN props
    ELSE FoldFrom(FoldAlias(props, At(props, names[1])), Tail(names))

FoldAliases(props) ==
    LET aliases == SelectSeq(props, LAMBDA c : c.n \in Aliases)
    IN FoldFrom(props, [i \in DOMAIN aliases |-> aliases[i].n])

(* The top-level properties of a packet.                                   *)
Tree(els) == FoldAliases(Grouped(FoldLeft(NodeElement, Root, els).kids))

-----------------------------------------------------------------------------
(* The flat view.                                                          *)

(* The container of a property that its schema defines as an array.        *)
Table(n) == CASE n = <<"dc", "creator">> -> "Seq"
              [] n = <<"dc", "subject">> -> "Bag"
              [] n = <<"dc", "description">> -> "Alt"
              [] n = <<"mm", "History">> -> "Seq"
              [] n = <<"xmp", "Thumbnails">> -> "Alt"
              [] OTHER -> ""
CollectionType(n) == IF Table(n) = "" THEN "Bag" ELSE Table(n)

(* A name with a dot: what is before the first one, and what is after.     *)
Dotted(local) == IF local = "Of.id" THEN <<"Of", "id">> ELSE <<local, "">>
LegacyName(n) == Dotted(n[2])[2] = ""

Key(c, i, f) == <<c.n[1], c.n[2], i, f>>
TopKey(c) == <<c.n[1], Dotted(c.n[2])[1], -1, Dotted(c.n[2])[2]>>
PropOf(k) == <<k[1], k[2]>>
IsTop(k) == k[3] = -1 /\ k[4] = ""

(* bucketOf: the property that a key is of, by its whole name first.       *)
Bucket(nodes, k) ==
    LET i == SelectInSeq(nodes, LAMBDA c : TopKey(c) = k) IN IF i = 0 THEN PropOf(k) ELSE nodes[i].n

ItemText(it) ==
    IF ItemLang(it) \in {<<>>, XDefault} THEN it.val ELSE ItemLang(it) \o <<"|">> \o it.val
HasText(it) == IsSimple(it) /\ it.val # <<>>
TextItems(c) == SelectSeq(c.kids, HasText)
Joined(c) ==
    IF IsSimple(c) THEN <<c.val>>
    ELSE LET items == TextItems(c) IN [i \in DOMAIN items |-> ItemText(items[i])]

(* The simple fields of a struct own the key of their name, the first of a *)
(* name that is not taken, as long as the budget lasts.                    *)
OwnFields(s, budget, taken) ==
    FoldLeft(LAMBDA a, f :
        IF \/ ~IsSimple(f)
           \/ a.budget = 0
           \/ f.n[2] \in taken
           \/ \E i \in DOMAIN a.kids : a.kids[i].owner /\ a.kids[i].n[2] = f.n[2]
        THEN [a EXCEPT !.kids = Append(@, f)]
        ELSE [budget |-> a.budget - 1, kids |-> Append(a.kids, [f EXCEPT !.owner = TRUE])],
        [budget |-> budget, kids |-> <<>>], s.kids)

OwnItems(c, budget) ==
    FoldLeft(LAMBDA a, it :
        IF ~IsStruct(it) THEN [a EXCEPT !.kids = Append(@, it)]
        ELSE CHOOSE r \in {[budget |-> o.budget, kids |-> Append(a.kids, [it EXCEPT !.kids = o.kids])] :
                              o \in {OwnFields(it, a.budget, {})}} : TRUE,
        [budget |-> budget, kids |-> <<>>], c.kids)

(* The fields of c that own a key, with the key.                           *)
OwnedFields(c) ==
    IF IsStruct(c)
    THEN {<<Key(c, -1, c.kids[j].n[2]), c.kids[j].val>> : j \in {j \in DOMAIN c.kids : c.kids[j].owner}}
    ELSE UNION {LET s == c.kids[i]
                IN {<<Key(c, i - 1, s.kids[j].n[2]), s.kids[j].val>> : j \in {j \in DOMAIN s.kids : s.kids[j].owner}} :
                i \in {i \in DOMAIN c.kids : IsArray(c) /\ IsStruct(c.kids[i])}}
Entries(c) ==
    (IF c.owner THEN {<<TopKey(c), Joined(c)>>} ELSE {}) \cup {<<e[1], <<e[2]>> >> : e \in OwnedFields(c)}

(* project: the top-level properties with their owners marked; the first   *)
(* of two that have a key has it.                                          *)
Project(props, limit) ==
    FoldLeft(LAMBDA a, c :
        LET taken == UNION {{e[1] : e \in Entries(a.props[i])} : i \in DOMAIN a.props}
            fields == {k[4] : k \in {k \in taken : PropOf(k) = c.n /\ k[3] = -1}}
        IN CHOOSE r \in {[budget |-> o.budget,
                          props |-> Append(a.props, [c EXCEPT !.kids = o.kids,
                                       !.owner = /\ IsSimple(c) \/ (IsArray(c) /\ TextItems(c) # <<>>)
                                                 /\ LegacyName(c.n) \/ TopKey(c) \notin taken])] :
                            o \in {IF IsStruct(c) THEN OwnFields(c, a.budget, fields) ELSE OwnItems(c, a.budget)}} : TRUE,
        [budget |-> limit, props |-> <<>>], props).props

FlatView(props) ==
    LET all == UNION {Entries(props[i]) : i \in DOMAIN props}
    IN [k \in {e[1] : e \in all} |-> (CHOOSE e \in all : e[1] = k)[2]]

(* The flat view is enough to write the property back.                     *)
HasBar(v) == \E i \in DOMAIN v : v[i] = "|"
FieldsRepresentable(c, s) ==
    \A i \in DOMAIN s.kids :
        LET f == s.kids[i]
        IN IsSimple(f) /\ f.owner /\ ~f.uri /\ f.quals = <<>> /\ f.n[1] = c.n[1] /\ LegacyName(f.n)
(* Faulty: the container of the items is not looked at.                    *)
AnyContainer(c) ==
    /\ c.quals = <<>>
    /\ CASE IsSimple(c) -> c.owner /\ ~c.uri
         [] IsStruct(c) -> c.kids # <<>> /\ FieldsRepresentable(c, c)
         [] OTHER -> c.owner /\ \A i \in DOMAIN c.kids : c.kids[i].quals = <<>> /\ HasText(c.kids[i])
ItemRepresentable(c, it) ==
    /\ IsSimple(it) /\ ~it.uri /\ it.val # <<>>
    /\ \A q \in DOMAIN it.quals : it.quals[q].n = LANG
    /\ IF c.form = "Alt"
       THEN ItemLang(it) # <<>> /\ ~HasBar(ItemLang(it)) /\ ~(ItemLang(it) = XDefault /\ HasBar(it.val))
       ELSE ItemLang(it) = <<>>
Representable(c) ==
    /\ c.quals = <<>> /\ LegacyName(c.n)
    /\ CASE IsSimple(c) -> c.owner /\ ~c.uri /\ (Table(c.n) # "Alt" \/ ~HasBar(c.val))
         [] IsStruct(c) -> c.kids # <<>> /\ FieldsRepresentable(c, c)
         [] c.kids = <<>> -> FALSE
         [] IsStruct(c.kids[1]) ->
               /\ \A i \in DOMAIN c.kids : /\ IsStruct(c.kids[i]) /\ c.kids[i].quals = <<>>
                                           /\ c.kids[i].kids # <<>> /\ FieldsRepresentable(c, c.kids[i])
               /\ c.form = CollectionType(c.n)
         [] OTHER ->
               /\ c.owner
               /\ \A i \in DOMAIN c.kids : ItemRepresentable(c, c.kids[i])
               /\ IF Table(c.n) # "" THEN c.form = Table(c.n) ELSE c.form = "Bag" /\ Len(c.kids) >= 2

(* The property that links the standard portion to the extended one.       *)
Link == <<"note", "HasExtendedXMP">>

(* The properties of both portions: those of the extended one win, and the *)
(* link goes.                                                              *)
TreeOf(d) ==
    IF d.ext = <<>> THEN Tree(d.std) ELSE SelectSeq(Tree(d.ext \o d.std), LAMBDA c : c.n # Link)

(* Parse, and ParseExtended.                                               *)
Parsed(d) ==
    LET props == Project(TreeOf(d), KeyBudget)
    IN [flat |-> FlatView(props), nodes |-> SelectSeq(props, LAMBDA c : ~Representable(c))]

-----------------------------------------------------------------------------
(* The elements of a property that is written from its keys.               *)

Resourced(n, at, kids) == Element(n, Append(at, Attr(RDF("parseType"), <<"Resource">>)), kids, <<>>)
ArrayElement(n, at, form, items) == Element(n, at, <<Element(RDF(form), <<>>, items, <<>>)>>, <<>>)

LangItem(seg) ==
    LET bar == SelectInSeq(seg, LAMBDA t : t = "|")
    IN IF bar = 0 THEN [Node(LI, seg) EXCEPT !.quals = <<Node(LANG, XDefault)>>]
       ELSE [Node(LI, SubSeq(seg, bar + 1, Len(seg))) EXCEPT !.quals = <<Node(LANG, SubSeq(seg, 1, bar - 1))>>]
NewItem(seg, form) == IF form = "Alt" THEN LangItem(seg) ELSE Node(LI, seg)

(* The fields that the keys of an item give a property.                    *)
FieldsOf(p, item, keys, flat) ==
    LET ks == SetToSeq({k \in keys : PropOf(k) = p /\ k[3] = item /\ k[4] # ""})
    IN [i \in DOMAIN ks |-> Node(<<p[1], ks[i][4]>>, flat[ks[i]][1])]

Ascending(S) == SetToSortSeq(S, LAMBDA a, b : a < b)

(* writeKeyedProperties, as nodes: the plain keys, the structs, and the    *)
(* arrays of structs, whose items close up.                                *)
Keyed(keys, flat, ctype) ==
    LET Form(p) == IF ctype # "" THEN ctype ELSE Table(p)
        Plain(p) ==
            LET v == flat[<<p[1], p[2], -1, "">>]
                form == IF Form(p) = "" THEN "Bag" ELSE Form(p)
            IN IF Len(v) = 1 /\ Form(p) = "" THEN Node(p, v[1])
               ELSE [Node(p, <<>>) EXCEPT !.form = form, !.kids = [i \in DOMAIN v |-> NewItem(v[i], form)]]
        Struct(p) == [Node(p, <<>>) EXCEPT !.form = "struct", !.kids = FieldsOf(p, -1, keys, flat)]
        List(p) ==
            LET at == Ascending({k[3] : k \in {k \in keys : PropOf(k) = p /\ k[3] >= 0}})
            IN [Node(p, <<>>) EXCEPT
                  !.form = IF Form(p) = "" THEN CollectionType(p) ELSE Form(p),
                  !.kids = [i \in DOMAIN at |-> [Node(LI, <<>>) EXCEPT !.form = "struct",
                                                    !.kids = FieldsOf(p, at[i], keys, flat)]]]
        tops == SetToSeq({PropOf(k) : k \in {k \in keys : IsTop(k)}})
        structs == SetToSeq({PropOf(k) : k \in {k \in keys : k[3] = -1 /\ k[4] # ""}})
        lists == SetToSeq({PropOf(k) : k \in {k \in keys : k[3] >= 0}})
    IN [i \in DOMAIN tops |-> Plain(tops[i])] \o [i \in DOMAIN structs |-> Struct(structs[i])]
       \o [i \in DOMAIN lists |-> List(lists[i])]

-----------------------------------------------------------------------------
(* A retained property and its keys.                                       *)

(* The namespace of a new field: that of a field of the name in the        *)
(* struct, or in an item, or that of the property.                         *)
FieldNS(c, f) ==
    LET in(s) == LET i == SelectInSeq(s.kids, LAMBDA g : g.n[2] = f) IN IF i = 0 THEN "" ELSE s.kids[i].n[1]
        items == SelectSeq(c.kids, LAMBDA it : IsStruct(it) /\ in(it) # "")
    IN CASE IsStruct(c) /\ in(c) # "" -> in(c)
         [] IsArray(c) /\ items # <<>> -> in(items[1])
         [] OTHER -> c.n[1]

(* Faulty: the fields that own no key are left out.                        *)
MergeOwned(c, s, item, keys, flat) ==
    LET mine == {k \in keys : k[3] = item /\ k[4] # ""}
        names == SetToSeq({k[4] : k \in mine})
    IN [s EXCEPT !.kids = [i \in DOMAIN names |->
            [Node(<<FieldNS(c, names[i]), names[i]>>, flat[Key(c, item, names[i])][1]) EXCEPT !.owner = TRUE]]]

(* mergeFields: a field whose key is gone goes, one whose key is there     *)
(* takes its value, and a key without a field is a new one.                *)
MergeFields(c, s, item, keys, flat) ==
    LET K(f) == Key(c, item, f)
        mine == {k \in keys : k[3] = item /\ k[4] # ""}
        stay == SelectSeq(s.kids, LAMBDA f : f.owner => K(f.n[2]) \in DOMAIN flat)
        kept == [i \in DOMAIN stay |->
                    IF stay[i].owner THEN [stay[i] EXCEPT !.val = flat[K(stay[i].n[2])][1]] ELSE stay[i]]
        new == SetToSeq({k \in mine : ~\E i \in DOMAIN kept : kept[i].owner /\ kept[i].n[2] = k[4]})
        now == IF IsStruct(c) THEN [c EXCEPT !.kids = kept] ELSE [c EXCEPT !.kids[item + 1].kids = kept]
    IN [s EXCEPT !.kids = kept \o [i \in DOMAIN new |->
            [Node(<<FieldNS(now, new[i][4]), new[i][4]>>, flat[new[i]][1]) EXCEPT !.owner = TRUE]]]

(* The simple items of a new value: an item whose text is at its place     *)
(* stays as it is.                                                         *)
Rebuilt(c, v) ==
    LET old == TextItems(c)
    IN [i \in DOMAIN v |-> IF i <= Len(old) /\ ItemText(old[i]) = v[i] THEN old[i] ELSE NewItem(v[i], c.form)]

MergeArray(c, keys, flat) ==
    LET top == TopKey(c)
        n == Len(c.kids)
        merged == FoldLeft(LAMBDA a, i :
                      IF ~IsStruct(c.kids[i]) THEN a
                      ELSE [a EXCEPT !.kids[i] = MergeFields(a, a.kids[i], i - 1, keys, flat)],
                      c, [i \in 1..n |-> i])
        Emptied(i) == /\ merged.kids[i].kids = <<>>
                      /\ \E j \in DOMAIN c.kids[i].kids : c.kids[i].kids[j].owner
        more == Ascending({k[3] : k \in {k \in keys : k[3] >= n}})
        NewFields(i) ==
            LET fs == FieldsOf(c.n, i, keys, flat)
            IN [j \in DOMAIN fs |-> [fs[j] EXCEPT !.n[1] = FieldNS(merged, fs[j].n[2]), !.owner = TRUE]]
        new == [i \in DOMAIN more |-> [Node(LI, <<>>) EXCEPT !.form = "struct", !.kids = NewFields(more[i])]]
        rebuild == IF top \in keys THEN ~c.owner \/ Joined(c) # flat[top] ELSE c.owner
        left == SelectSeq([i \in 1..n |-> i],
                          LAMBDA i : IF IsSimple(c.kids[i]) THEN ~rebuild ELSE ~Emptied(i))
    IN [c EXCEPT !.kids = (IF rebuild /\ top \in keys THEN Rebuilt(c, flat[top]) ELSE <<>>)
                          \o [i \in DOMAIN left |-> merged.kids[left[i]]] \o new]

(* merge: the property with its keys, as a sequence of one, or nothing     *)
(* when the keys are not of its shape.                                     *)
Merge(c, keys, flat) ==
    LET fields == keys \ {TopKey(c)}
    IN CASE IsSimple(c) -> IF fields = {} /\ Len(flat[TopKey(c)]) = 1
                           THEN <<[c EXCEPT !.val = flat[TopKey(c)][1]]>> ELSE <<>>
         [] IsStruct(c) -> IF \A k \in keys : k[3] = -1 /\ k[4] # ""
                           THEN <<MergeFields(c, c, -1, keys, flat)>> ELSE <<>>
         [] OTHER -> IF \A k \in fields : /\ k[3] >= 0
                                          /\ k[3] < Len(c.kids) => IsStruct(c.kids[k[3] + 1])
                     THEN <<MergeArray(c, keys, flat)>> ELSE <<>>

(* What is written for a retained property: the tree as it was, nothing    *)
(* when its keys are gone, or the tree with its keys.                      *)
WrittenProperty(c, v) ==
    LET flat == v.flat
        keys == {k \in DOMAIN flat : Bucket(v.nodes, k) = c.n}
        entries == Entries(c)
    IN CASE /\ Cardinality(keys) = Cardinality(entries)
            /\ \A e \in entries : e[1] \in keys /\ flat[e[1]] = e[2] -> <<c>>
         [] keys = {} -> <<>>
         [] Merge(c, keys, flat) # <<>> -> Merge(c, keys, flat)
         [] OTHER -> Keyed(keys, flat, IF IsArray(c) THEN c.form ELSE "")

-----------------------------------------------------------------------------
(* Encode.                                                                 *)

IsGeneral(q) == q.n \notin {LANG, RDF("resource")}

RECURSIVE Emit(_, _)
Emit(c, asValue) ==
    LET n == IF asValue THEN VALUE ELSE c.n
        langs == SelectSeq(c.quals, LAMBDA q : q.n = LANG)
        at == IF asValue THEN <<>> ELSE [i \in DOMAIN langs |-> Attr(LANG, langs[i].val)]
        general == SelectSeq(c.quals, IsGeneral)
        kids == [i \in DOMAIN c.kids |-> Emit(c.kids[i], FALSE)]
    IN CASE general # <<>> /\ ~asValue ->
               Resourced(n, at, <<Emit(c, TRUE)>> \o [i \in DOMAIN general |-> Emit(general[i], FALSE)])
         [] IsArray(c) -> ArrayElement(n, at, c.form, kids)
         [] IsStruct(c) -> Resourced(n, at, kids)
         [] c.uri -> Element(n, Append(at, Attr(RDF("resource"), c.val)), <<>>, <<>>)
         [] OTHER -> Element(n, at, <<>>, c.val)

(* The properties of a namespace: those retained, then those of the keys   *)
(* that belong to none of them.                                            *)
Schema(ns, v) ==
    LET retained == SelectSeq(v.nodes, LAMBDA c : c.n[1] = ns)
        own == {k \in DOMAIN v.flat : k[1] = ns /\ ~Named(retained, Bucket(retained, k))}
    IN FlattenSeq([i \in DOMAIN retained |-> WrittenProperty(retained[i], v)]) \o Keyed(own, v.flat, "")

Encode(v) ==
    LET spaces == SetToSeq({k[1] : k \in DOMAIN v.flat} \cup {v.nodes[i].n[1] : i \in DOMAIN v.nodes})
        written == SelectSeq([i \in DOMAIN spaces |-> Schema(spaces[i], v)], LAMBDA s : s # <<>>)
    IN [i \in DOMAIN written |->
           Element(RDF("Description"), <<>>, [j \in DOMAIN written[i] |-> Emit(written[i][j], FALSE)], <<>>)]

-----------------------------------------------------------------------------
(* The two portions of a JPEG (PackageForJPEG).  A size is a number of     *)
(* elements, attributes and texts.                                         *)

RECURSIVE Size(_)
Size(els) == FoldLeft(LAMBDA a, el : a + 1 + Len(el.at) + Len(el.text) + Size(el.kids), 0, els)

(* The estimate of a property leaves out its qualifiers.                   *)
RECURSIVE Estimate(_)
Estimate(c) == FoldLeft(LAMBDA a, k : a + Estimate(k), 1 + Len(c.val), c.kids)

Restricted(v, props) ==
    [flat |-> [k \in {k \in DOMAIN v.flat : Bucket(v.nodes, k) \in props} |-> v.flat[k]],
     nodes |-> SelectSeq(v.nodes, LAMBDA c : c.n \in props)]
TopProps(v) == ({Bucket(v.nodes, k) : k \in DOMAIN v.flat} \cup {v.nodes[i].n : i \in DOMAIN v.nodes}) \ {Link}
EstimateOf(v, p) ==
    IF Named(v.nodes, p) THEN Estimate(v.nodes[At(v.nodes, p)])
    ELSE FoldSet(LAMBDA k, a : a + 1 + Len(v.flat[k]), 0, {k \in DOMAIN v.flat : Bucket(v.nodes, k) = p})

Linked(v) == [v EXCEPT !.flat = [k \in DOMAIN @ \cup {<<Link[1], Link[2], -1, "">>} |->
                                    IF k \in DOMAIN @ THEN @[k] ELSE << <<"guid">> >>]]
Standard(v, moved) ==
    LET rest == Restricted(v, TopProps(v) \ moved) IN IF moved = {} THEN rest ELSE Linked(rest)

(* The size of the standard portion, by what has moved.                    *)
(* Faulty: the link is not counted.                                        *)
Unlinked(v) == [moved \in SUBSET TopProps(v) |-> Size(Encode(Restricted(v, TopProps(v) \ moved)))]
Measure(v) == [moved \in SUBSET TopProps(v) |-> Size(Encode(Linked(Restricted(v, TopProps(v) \ moved))))]

(* The properties that go first, in this order: the thumbnails, the camera *)
(* raw settings and the history.                                           *)
First(p, step) ==
    CASE step = 1 -> p = <<"xmp", "Thumbnails">>
      [] step = 2 -> p[1] = "crs"
      [] OTHER -> p = <<"ps", "History">>
MoveFirst(v, size, limit) ==
    FoldLeft(LAMBDA moved, step :
        IF size[moved] <= limit THEN moved
        ELSE moved \cup {p \in TopProps(v) : First(p, step)},
        {}, <<1, 2, 3>>)

(* Then the largest, as many as their estimates say are enough, and again. *)
RECURSIVE MoveLargest(_, _, _, _, _)
MoveLargest(v, size, moved, order, limit) ==
    LET Left(n) == size[moved] - FoldLeft(LAMBDA a, p : a + EstimateOf(v, p), 0, SubSeq(order, 1, n))
    IN IF size[moved] <= limit \/ order = <<>> THEN moved
       ELSE CHOOSE r \in {MoveLargest(v, size, moved \cup Range(SubSeq(order, 1, n)),
                                      SubSeq(order, n + 1, Len(order)), limit) :
                             n \in {Min({n \in 1..Len(order) : Left(n) <= limit} \cup {Len(order)})}} : TRUE

Moved(v, size, limit) ==
    CHOOSE r \in {MoveLargest(v, size, first,
                     SetToSortSeq(TopProps(v) \ first, LAMBDA p, q : EstimateOf(v, p) > EstimateOf(v, q)), limit) :
                   first \in {MoveFirst(v, size, limit)}} : TRUE

PackageForJPEG(v, moved, limit) ==
    [std |-> Encode(Standard(v, moved)), ext |-> Encode(Restricted(v, moved)), limit |-> limit]

-----------------------------------------------------------------------------
Init == /\ doc \in {[std |-> d, ext |-> <<>>, limit |-> 0] : d \in Docs}
        /\ x = NONE
        /\ src = <<>>
        /\ asked = {}
        /\ edits = 0
        /\ writes = 0

Read == /\ x = NONE
        /\ writes < MaxWrites
        /\ x' = Parsed(doc)
        /\ src' = TreeOf(doc)
        /\ asked' = {}
        /\ UNCHANGED <<doc, edits, writes>>

Asking(k, v) == {e \in asked : e[1] # k} \cup {<<k, v>>}
CanEdit == x # NONE /\ edits < MaxEdits

(* Set, and the setters that replace a property.                           *)
Set(k, v) ==
    /\ CanEdit
    /\ x' = [x EXCEPT !.flat = [j \in DOMAIN @ \cup {k} |-> IF j = k THEN v ELSE @[j]]]
    /\ asked' = Asking(k, v)
    /\ edits' = edits + 1
    /\ UNCHANGED <<doc, src, writes>>

(* AddKeyword: one more text.                                              *)
Add(k, v) ==
    /\ CanEdit
    /\ IsTop(k)
    /\ LET old == IF k \in DOMAIN x.flat /\ x.flat[k] # << <<>> >> THEN x.flat[k] ELSE <<>>
       IN /\ x' = [x EXCEPT !.flat = [j \in DOMAIN @ \cup {k} |-> IF j = k THEN old \o v ELSE @[j]]]
          /\ asked' = Asking(k, old \o v)
    /\ edits' = edits + 1
    /\ UNCHANGED <<doc, src, writes>>

(* The caller removes a key.                                               *)
Delete(k) ==
    /\ CanEdit
    /\ k \in DOMAIN x.flat
    /\ x' = [x EXCEPT !.flat = [j \in DOMAIN @ \ {k} |-> @[j]]]
    /\ asked' = Asking(k, <<>>)
    /\ edits' = edits + 1
    /\ UNCHANGED <<doc, src, writes>>

Write == /\ x # NONE
         /\ doc' = [std |-> Encode(x), ext |-> <<>>, limit |-> 0]
         /\ x' = NONE
         /\ writes' = writes + 1
         /\ UNCHANGED <<src, asked, edits>>

(* The write of a JPEG, refused when the link alone is over the limit.     *)
Package(limit) ==
    /\ x # NONE
    /\ \E size \in {Measure(x)} :
       \E moved \in {IF Size(Encode(Standard(x, {}))) <= limit THEN {} ELSE Moved(x, size, limit)} :
          /\ moved # {} => size[moved] <= limit
          /\ doc' = PackageForJPEG(x, moved, limit)
    /\ x' = NONE
    /\ writes' = writes + 1
    /\ UNCHANGED <<src, asked, edits>>

Next ==
    \/ \E limit \in Limits : Package(limit)
    \/ Read
    \/ \E e \in Edits : Set(e[1], e[2])
    \/ \E e \in Edits : Add(e[1], e[2])
    \/ \E k \in Removals : Delete(k)
    \/ Write

Spec == Init /\ [][Next]_vars

-----------------------------------------------------------------------------
(* Properties.                                                             *)

(* A node without what the model of the packet leaves open: the order of   *)
(* fields and of qualifiers.                                               *)
RECURSIVE Model(_)
Model(c) == [n |-> c.n, val |-> c.val, form |-> c.form, uri |-> c.uri,
             quals |-> {Model(c.quals[i]) : i \in DOMAIN c.quals},
             fields |-> IF IsStruct(c) THEN {Model(c.kids[i]) : i \in DOMAIN c.kids} ELSE {},
             items |-> IF IsStruct(c) THEN <<>> ELSE [i \in DOMAIN c.kids |-> Model(c.kids[i])]]

(* A simple value of an array property is the one item of the array.       *)
Schematic(c) ==
    IF IsSimple(c) /\ Table(c.n) # "" /\ Representable([c EXCEPT !.owner = TRUE])
    THEN [Node(c.n, <<>>) EXCEPT !.form = Table(c.n), !.kids = <<NewItem(c.val, Table(c.n))>>]
    ELSE c

AskedKeys == {e[1] : e \in asked}
AskedProps == {PropOf(k) : k \in AskedKeys}
JustWritten == x = NONE /\ writes > 0

Untouched ==
    \E now \in {TreeOf(doc)} :
        /\ \A i \in DOMAIN src : src[i].n \notin AskedProps \cup {Link} =>
              \E j \in DOMAIN now : Model(now[j]) = Model(Schematic(src[i]))
        /\ \A j \in DOMAIN now : Named(src, now[j].n) \/ now[j].n \in AskedProps

(* No property has the name that another one and a field of it spell.      *)
KeysApart(props) ==
    \A i, j \in DOMAIN props : i # j => ~(IsStruct(props[i]) /\ PropOf(TopKey(props[j])) = props[i].n)

(* A property that no edit named is in the packet that was written as it   *)
(* was in the packet that was read, with its form, qualifiers, structure   *)
(* and order, in one portion or the other, and nothing else is in it       *)
(* (XMP.nodes, "an unmodified property is written from the tree").  Only   *)
(* the link of a JPEG is made anew.  This is so as long as each key is of  *)
(* one property.                                                           *)
RestKept == JustWritten /\ KeysApart(src) => Untouched

(* Every property whose entries were not modified is written exactly as    *)
(* parsed (Encode, xmp.go), whatever the names are.                        *)
AllKept == JustWritten => Untouched

(* The keys and texts of a tree, those past the limit included.            *)
Whole(props) == FlatView(Project(props, 100))

(* The keys that are edited are of the shape that the property has, and a  *)
(* field that is there has the key of its name to itself.                  *)
StructOf(c, item) == IF item = -1 THEN c ELSE c.kids[item + 1]
Fits(k) ==
    LET same == {j \in AskedKeys : PropOf(j) = PropOf(k)}
        i == At(src, PropOf(k))
        c == src[i]
        Alone(s) == \A j \in DOMAIN s.kids : s.kids[j].n[2] = k[4] =>
                        /\ k \in DOMAIN FlatView(Project(src, KeyBudget))
                        /\ \A m \in DOMAIN s.kids : s.kids[m].n[2] = k[4] => m = j
    IN /\ \/ same = {k}
          \/ \A j \in same : j[3] = -1 /\ j[4] # ""
          \/ \A j \in same : j[3] >= 0
       /\ i # 0 => CASE IsTop(k) -> ~IsStruct(c) /\ (IsArray(c) => \A j \in DOMAIN c.kids : IsSimple(c.kids[j]))
                     [] k[3] = -1 -> IsStruct(c) /\ Alone(c)
                     [] OTHER -> /\ IsArray(c)
                                 /\ \A j \in DOMAIN c.kids : IsStruct(c.kids[j])
                                 /\ k[3] < Len(c.kids) => Alone(c.kids[k[3] + 1])

(* The fields of a struct of c that no edit named.                         *)
Unasked(c, item) ==
    LET fields == StructOf(c, item).kids
    IN {f \in {Model(fields[j]) : j \in DOMAIN fields} : Key(c, item, f.n[2]) \notin AskedKeys}

(* The items that still have a field, or have one now, close up.           *)
Live(p) ==
    LET i == At(src, p)
        c == src[i]
        old == IF i = 0 THEN {} ELSE {j \in 0..Len(c.kids) - 1 : Unasked(c, j) # {} \/ StructOf(c, j).kids = <<>>}
    IN old \cup {e[1][3] : e \in {e \in asked : PropOf(e[1]) = p /\ e[1][3] >= 0 /\ e[2] # <<>>}}
Place(p, item) == Cardinality({j \in Live(p) : j < item})
Placed(k) == IF k[3] < 0 THEN k ELSE <<k[1], k[2], Place(PropOf(k), k[3]), k[4]>>

(* What was set is in the packet that is written, where a read finds it,   *)
(* and what was removed is not.                                            *)
EditsKept ==
    JustWritten =>
        \E now \in {Whole(TreeOf(doc))} :
            \A e \in asked : Fits(e[1]) =>
                IF e[2] # <<>> THEN Placed(e[1]) \in DOMAIN now /\ now[Placed(e[1])] = e[2]
                ELSE Placed(e[1]) \in DOMAIN now => e[1][3] >= 0 /\ e[1][3] \notin Live(PropOf(e[1]))

(* The items whose text a new value has at the same place are as they were.*)
ItemsKept(c, d, v) ==
    LET old == TextItems(c)
    IN \A j \in DOMAIN v : j \in DOMAIN old /\ ItemText(old[j]) = v[j] /\ c.form = d.form
                             => Model(d.kids[j]) = Model(old[j])

(* An edit of some fields of a struct, or of the structs of an array,      *)
(* leaves the rest of it as it was: the fields without a key, those whose  *)
(* key was not edited, and the qualifiers, each item at its place; a new   *)
(* value of an array leaves the items it does not change ("a modified one  *)
(* is merged").  A property all of whose keys are removed goes with what   *)
(* has no key.                                                             *)
PartsKept ==
    JustWritten =>
        \E now \in {TreeOf(doc)} : \A i \in DOMAIN src :
            LET c == src[i]
                mine == {e \in asked : PropOf(e[1]) = c.n}
                d == now[At(now, c.n)]
                Kept(old, new) ==
                    /\ IsStruct(StructOf(d, new))
                    /\ Model(StructOf(d, new)).quals = Model(StructOf(c, old)).quals
                    /\ Unasked(c, old) \subseteq Model(StructOf(d, new)).fields
            IN (/\ \E e \in mine : e[2] # <<>>
                /\ \A e \in mine : Fits(e[1])) =>
                  /\ Named(now, c.n)
                  /\ CASE IsSimple(c) -> TRUE
                     [] IsStruct(c) -> Kept(-1, -1)
                     [] \E e \in mine : IsTop(e[1]) -> \A e \in mine : ItemsKept(c, d, e[2])
                     [] OTHER -> \A j \in Live(c.n) : j < Len(c.kids) =>
                             Place(c.n, j) < Len(d.kids) /\ Kept(j, Place(c.n, j))

(* A write of an edited packet makes the edits and leaves the parts of the *)
(* edited properties that they do not name.                                *)
OnlyEdits == EditsKept /\ PartsKept

(* The standard portion of a JPEG fits, nothing is in the extended one     *)
(* when the whole fits, each portion has properties that the other has     *)
(* not, and those that go first are gone before any other goes             *)
(* (PackageForJPEG).                                                       *)
Packaged ==
    (JustWritten /\ doc.limit > 0) =>
        \E std \in {Tree(doc.std)}, ext \in {Tree(doc.ext)} :
            LET In(t) == {t[i].n : i \in DOMAIN t}
                CameFirst(p) == \E step \in 1..3 : First(p, step)
            IN /\ Size(doc.std) <= doc.limit
               /\ Link \in In(std) <=> ext # <<>>
               /\ In(std) \cap In(ext) = {}
               /\ ext # <<>> => Size(doc.std) + Size(doc.ext) > doc.limit
               /\ (\E p \in In(ext) : ~CameFirst(p)) => \A p \in In(std) : ~CameFirst(p)
=============================================================================
