-------------------------------- MODULE Nad --------------------------------
(***************************************************************************)
(* The "not a DOM" in which every packet is kept (util/nad): an array of   *)
(* elements in document order, each with its depth and the index of its    *)
(* parent.  A nad is built by appending (by a program or by the parser)    *)
(* and then edited in place; children and siblings are found by depth.     *)
(*                                                                         *)
(* An element is a record; an index is one more than in the code, and 0    *)
(* stands for -1.  Text is counted in pieces.  Attributes are the list of  *)
(* the code, a new one first; an attribute is its name.  Namespaces are    *)
(* left out.                                                               *)
(***************************************************************************)
EXTENDS Integers, Sequences, SequencesExt, FiniteSetsExt

CONSTANTS
    Names,      \* of elements and attributes
    Zapped,     \* the name of an attribute that has been removed
    MaxElems,   \* bounds: elements,
    MaxDepth,   \*         depth,
    MaxExtra    \*         pieces of text and attributes together

ASSUME NadAssumption ==
    /\ Zapped \notin Names
    /\ {MaxElems, MaxDepth, MaxExtra} \subseteq Nat

VARIABLES
    nad,        \* nad_t: the elements and, for each depth, its last element
    phase,      \* "building", "built" (or copied), or "edited" in place
    doc         \* the document the nad stands for (auxiliary)

vars == <<nad, phase, doc>>

Elem(n, d, p) == [name |-> n, depth |-> d, parent |-> p, attrs |-> <<>>, text |-> 0, tail |-> 0]
NadNew == [elems |-> <<>>, depths |-> [d \in 0..MaxDepth |-> 0]]

Depth(es, i) == es[i].depth
Inside(es, e, i) == i > e /\ \A j \in (e + 1)..i : Depth(es, j) > Depth(es, e)
\* the first element that is not below e
After(es, e) == Min({i \in (e + 1)..(Len(es) + 1) : i > Len(es) \/ Depth(es, i) <= Depth(es, e)})

-----------------------------------------------------------------------------
(* Building                                                                *)

\* nad_append_elem: "our parent is the previous guy in the depth array"
AppendElem(m, n, d) ==
    [m EXCEPT !.elems = Append(@, Elem(n, d, IF d = 0 THEN 0 ELSE m.depths[d - 1])),
              !.depths[d] = Len(m.elems) + 1]

\* _nad_attr, nad_append_attr
Attr(m, e, a) == [m EXCEPT !.elems[e].attrs = <<a>> \o @]
AppendAttr(m, a) == Attr(m, Len(m.elems), a)

\* nad_append_cdata: in the last element, or "on the tail of the last element at
\* this depth"
AppendCdata(m, d) ==
    IF Depth(m.elems, Len(m.elems)) = d - 1 THEN [m EXCEPT !.elems[Len(m.elems)].text = @ + 1]
    ELSE [m EXCEPT !.elems[m.depths[d]].tail = @ + 1]

-----------------------------------------------------------------------------
(* Searching                                                               *)

\* nad_find_elem: the next element at the depth of e plus d
\* Mutant: the search does not stop where the parent ends.
FindElem_on(es, e, n, d) ==
    LET hits == {i \in (e + 1)..Len(es) : Depth(es, i) = Depth(es, e) + d /\ es[i].name = n}
    IN  IF hits = {} THEN 0 ELSE Min(hits)
FindElem(es, e, n, d) ==
    LET stop == {i \in (e + 1)..Len(es) : Depth(es, i) < Depth(es, e) + d}
        hits == {i \in (e + 1)..Len(es) : Depth(es, i) = Depth(es, e) + d /\ es[i].name = n /\ \A j \in stop : i < j}
    IN  IF hits = {} THEN 0 ELSE Min(hits)

\* nad_find_attr: the first in the list
FindAttr(es, e, a) ==
    LET hits == {k \in DOMAIN es[e].attrs : es[e].attrs[k] = a} IN  IF hits = {} THEN 0 ELSE Min(hits)

\* nad_find_elem_path, name/name?attr: down the names of the path, each time to the
\* first child of the name and to no other if the rest is not found there, then
\* on from sibling to sibling to one with the attribute (a is Zapped if none is
\* asked for) or, with !attr, without
Siblings(es, e, n) ==
    LET kth[k \in 1..Len(es)] == IF k = 1 THEN FindElem(es, e, n, 1)
                                 ELSE IF kth[k - 1] = 0 THEN 0 ELSE FindElem(es, kth[k - 1], n, 0)
    IN  kth
Match(es, e, n, a, has) ==
    LET kth == Siblings(es, e, n)
        ok(i) == i = 0 \/ a = Zapped \/ has = (FindAttr(es, i, a) # 0)
        k == Min({k \in 1..Len(es) : ok(kth[k])} \cup {Len(es)})
    IN  IF ok(kth[k]) THEN kth[k] ELSE 0
Down(es, e, path) == FoldLeft(LAMBDA i, n : IF i = 0 THEN 0 ELSE FindElem(es, i, n, 1), e, path)
FindElemPath(es, e, path, a, has) ==
    LET at == Down(es, e, Front(path)) IN  IF at = 0 THEN 0 ELSE Match(es, at, Last(path), a, has)

-----------------------------------------------------------------------------
(* Editing                                                                 *)

\* nad_set_attr: with a value, or with none, which only hides the entry
SetAttr(m, e, a) == IF FindAttr(m.elems, e, a) = 0 THEN Attr(m, e, a) ELSE m
ZapAttr(m, e, a) ==
    LET k == FindAttr(m.elems, e, a) IN  IF k = 0 THEN m ELSE [m EXCEPT !.elems[e].attrs[k] = Zapped]

\* nad_insert_elem: the parents of the elements behind are not linked anew
InsertElem(m, p, n) == [m EXCEPT !.elems = InsertAt(@, p + 1, Elem(n, Depth(@, p) + 1, p))]

\* nad_drop_elem.  Mutant: the siblings behind go too.
DropElem_rest(m, e) ==
    LET next == Min({i \in (e + 1)..(Len(m.elems) + 1) : i > Len(m.elems) \/ Depth(m.elems, i) < Depth(m.elems, e)})
    IN  [m EXCEPT !.elems = SubSeq(@, 1, e - 1) \o SubSeq(@, next, Len(@))]
DropElem(m, e) ==
    LET next == After(m.elems, e)
        moved == SubSeq(m.elems, next, Len(m.elems))
        relinked(x) == [x EXCEPT !.parent = IF @ > next THEN @ - (next - e) ELSE @]
    IN  [m EXCEPT !.elems = SubSeq(@, 1, e - 1) \o [i \in DOMAIN moved |-> relinked(moved[i])]]

\* nad_wrap_elem: the index of the parent is compared unsigned, so that -1, no
\* parent, counts as behind
WrapElem(m, e, n) ==
    LET es == m.elems
        deeper(i) == i = e \/ Inside(es, e, i)
        relinked(x) == [x EXCEPT !.parent = IF @ = 0 \/ @ >= e THEN @ + 1 ELSE @]
        moved == [i \in 1..(Len(es) - e + 1) |->
                    LET x == relinked(es[e + i - 1]) IN  IF deeper(e + i - 1) THEN [x EXCEPT !.depth = @ + 1] ELSE x]
    IN  [m EXCEPT !.elems = SubSeq(@, 1, e - 1) \o <<Elem(n, Depth(es, e), es[e].parent)>> \o moved]

\* nad_insert_nad: the element s of src, with everything in it, below p
InsertNad(m, p, src, s) ==
    LET k == After(src, s) - s
        copied == [i \in 1..k |->
                     LET x == src[s + i - 1]
                     IN  [x EXCEPT !.parent = p + (@ - src[s].parent),
                                   !.depth = Depth(m.elems, p) + (@ - Depth(src, s)) + 1,
                                   !.attrs = Reverse(@)]]
        moved == SubSeq(m.elems, p + 1, Len(m.elems))
        relinked(x) == [x EXCEPT !.parent = IF @ > p THEN @ + k ELSE @]
    IN  [m EXCEPT !.elems = SubSeq(@, 1, p) \o copied \o [i \in DOMAIN moved |-> relinked(moved[i])]]

-----------------------------------------------------------------------------
(* Printing and parsing                                                    *)

\* nad_print of the whole, _nad_lp0: an element, its text, and, where nothing
\* follows in it, the ends of all elements that end there, each with its tail
Token(k) == [kind |-> k]
Texts(n) == [t \in 1..n |-> Token("text")]
\* Mutant: the tail of an element that has children is forgotten.
Ends_bare(es, i, k) ==
    LET a == Max({j \in 1..i : Depth(es, j) = k}) IN  <<Token("end")>> \o Texts(IF a = i THEN es[a].tail ELSE 0)
Ends(es, i, k) ==
    LET a == Max({j \in 1..i : Depth(es, j) = k}) IN  <<Token("end")>> \o Texts(es[a].tail)
Printed(es) ==
    LET next(i) == IF i = Len(es) THEN 0 ELSE Depth(es, i + 1)
        start(i) == <<[kind |-> "start", name |-> es[i].name, attrs |-> ToSet(es[i].attrs) \ {Zapped}]>>
        ends(i) == FlattenSeq([j \in 1..(1 + Depth(es, i) - next(i)) |-> Ends(es, i, Depth(es, i) - j + 1)])
    IN  FlattenSeq([i \in DOMAIN es |-> start(i) \o Texts(es[i].text) \o ends(i)])

\* nad_parse: what expat reports, one after the other
Reported(w, tok) ==
    CASE tok.kind = "end" -> [w EXCEPT !.depth = @ - 1]
      [] tok.kind = "text" -> [w EXCEPT !.nad = AppendCdata(@, w.depth)]
      [] tok.kind = "start" ->
            [w EXCEPT !.nad = FoldLeft(AppendAttr, AppendElem(@, tok.name, w.depth), SetToSeq(tok.attrs)),
                      !.depth = @ + 1]
Parse(toks) == FoldLeft(Reported, [nad |-> NadNew, depth |-> 0], toks).nad

-----------------------------------------------------------------------------
(* Behaviours                                                              *)

\* what the elements and their depths mean: the path of each element, from its
\* position among its siblings and that of its ancestors, and what it carries
Ancestor(es, i, k) == Max({j \in 1..i : Depth(es, j) = k})
Position(es, i) ==
    LET d == Depth(es, i)
    IN  Cardinality({j \in 1..i : Depth(es, j) = d /\ (d = 0 \/ j > Ancestor(es, i, d - 1))})
Path(es, i) == [k \in 1..Depth(es, i) |-> Position(es, Ancestor(es, i, k))]
Meaning(es) ==
    LET at(p) == CHOOSE i \in DOMAIN es : Path(es, i) = p
        label(x) == [name |-> x.name, attrs |-> ToSet(x.attrs) \ {Zapped}, text |-> x.text, tail |-> x.tail]
    IN  [p \in {Path(es, i) : i \in DOMAIN es} |-> label(es[at(p)])]

Es == nad.elems
Indices == DOMAIN Es
Fits(m) ==
    /\ Len(m.elems) <= MaxElems
    /\ \A i \in DOMAIN m.elems : m.elems[i].depth <= MaxDepth
    /\ MapThenSumSet(LAMBDA i : m.elems[i].text + m.elems[i].tail + Len(m.elems[i].attrs), DOMAIN m.elems) <= MaxExtra

\* one element below another, or beside it or beside one above it
Build(n, d) ==
    /\ phase = "building"
    /\ IF Es = <<>> THEN d = 0 ELSE d \in 1..(Depth(Es, Len(Es)) + 1)
    /\ nad' = AppendElem(nad, n, d)
    /\ UNCHANGED phase

\* attributes follow their element at once
BuildAttr(a) ==
    /\ phase = "building" /\ Es # <<>>
    /\ Last(Es).text = 0 /\ Last(Es).tail = 0
    /\ FindAttr(Es, Len(Es), a) = 0
    /\ nad' = AppendAttr(nad, a)
    /\ UNCHANGED phase

BuildText(d) ==
    /\ phase = "building" /\ Es # <<>>
    /\ d \in 1..(Depth(Es, Len(Es)) + 1)
    /\ nad' = AppendCdata(nad, d)
    /\ UNCHANGED phase

\* nad_copy, nad_serialize and nad_deserialize: everything but the depths; and
\* whatever else ends the building, for nothing is appended to a nad after that
Copied(m) == [NadNew EXCEPT !.elems = m.elems]
Finish ==
    /\ phase = "building" /\ Es # <<>>
    /\ nad' = Copied(nad) /\ phase' = "built"

\* the attributes of a packet: its addresses, its type, ...
EditAttr(m) ==
    /\ phase # "building"
    /\ nad' = m
    /\ UNCHANGED phase

\* elements put in and taken out, as by stanza_error
Edit(m) ==
    /\ phase # "building"
    /\ nad' = m /\ phase' = "edited"

\* around the whole packet, the only use there is, or deeper down
Wrap(e, n) ==
    /\ phase # "building"
    /\ nad' = WrapElem(nad, e, n)
    /\ phase' = IF e = 1 THEN phase ELSE "edited"

Init == nad = NadNew /\ phase = "building" /\ doc = Meaning(<<>>)

Next ==
    /\ \/ \E n \in Names, d \in 0..MaxDepth : Build(n, d)
       \/ \E a \in Names : BuildAttr(a)
       \/ \E d \in 1..MaxDepth : BuildText(d)
       \/ Finish
       \/ \E e \in Indices, n \in Names : Wrap(e, n)
       \/ \E e \in Indices, a \in Names : EditAttr(SetAttr(nad, e, a)) \/ EditAttr(ZapAttr(nad, e, a))
       \/ \E e \in Indices, n \in Names : Edit(InsertElem(nad, e, n))
       \/ \E e \in Indices : Edit(DropElem(nad, e))
       \/ \E p, s \in Indices : Edit(InsertNad(nad, p, Es, s))
    /\ Fits(nad')
    /\ doc' = Meaning(nad'.elems)

Spec == Init /\ [][Next]_vars

-----------------------------------------------------------------------------
(* Properties                                                              *)

(* The array of elements and depths is an XML document all along, and each *)
(* operation, on arrays with memmove and adjusted depths, is the operation *)
(* on that document its name promises, and changes nothing else of it.     *)
D == INSTANCE Document
IsDocument == D!Spec

(* What nad_print writes is read back by nad_parse as the same packet: the *)
(* same elements at the same depths with the same attributes and text, and *)
(* with the same parents, if it was built, wrapped as a whole and given    *)
(* attributes; other edits leave parents that are not true.                *)
RoundTrip ==
    LET back == Parse(Printed(Es)).elems
        same(x, y) == /\ x.name = y.name /\ x.depth = y.depth /\ x.text = y.text /\ x.tail = y.tail
                      /\ ToSet(x.attrs) \ {Zapped} = ToSet(y.attrs)
                      /\ phase # "edited" => x.parent = y.parent
    IN  Len(back) = Len(Es) /\ \A i \in Indices : same(Es[i], back[i])

(* Searching by depth finds what the document has: nad_find_elem the first *)
(* child or the next sibling of a name, nad_find_elem_path, given a name   *)
(* and an attribute, the first child that has both, or has not the latter, *)
(* and given a longer path one that has it; none only if there is none, or *)
(* none in the first element that the path can begin with.                 *)
FindsFirst ==
    LET up(i) == IF Depth(Es, i) = 0 THEN 0 ELSE Ancestor(Es, i, Depth(Es, i) - 1)
        called(n) == {i \in Indices : Es[i].name = n}
        having(a) == {i \in Indices : a \in ToSet(Es[i].attrs)}
        below(e) == {i \in Indices : up(i) = e}
        first(S) == IF S = {} THEN 0 ELSE Min(S)
    IN  \A e \in Indices, n \in Names :
          LET child == below(e) \cap called(n)
          IN  /\ FindElem(Es, e, n, 1) = first(child)
              /\ FindElem(Es, e, n, 0) = first({i \in below(up(e)) \cap called(n) : i > e})
              /\ \A a \in Names :
                    /\ FindElemPath(Es, e, <<n>>, a, TRUE) = first(child \cap having(a))
                    /\ FindElemPath(Es, e, <<n>>, a, FALSE) = first(child \ having(a))
                    /\ FindElemPath(Es, e, <<n, a>>, Zapped, TRUE) =
                          IF child = {} THEN 0 ELSE first(below(first(child)) \cap called(a))
=============================================================================
