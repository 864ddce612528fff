----------------------------- MODULE Document -----------------------------
(***************************************************************************)
(* What a nad stands for: an XML element with its attributes, its text and *)
(* its child elements in order.  An element is named by its path from the  *)
(* root, the sequence of its own and its ancestors' positions among their  *)
(* siblings; text that follows an element is its tail.                     *)
(***************************************************************************)
EXTENDS Integers, Sequences, SequencesExt, FiniteSets

CONSTANT Names

VARIABLE doc    \* the label [name, attrs, text, tail] of each path

New(n) == [name |-> n, attrs |-> {}, text |-> 0, tail |-> 0]
Under(p, q) == IsPrefix(p, q)
Kids(p) == {q \in DOMAIN doc : Len(q) = Len(p) + 1 /\ Under(p, q)}

\* the k-th position of a path, moved by n
Moved(q, k, n) == [q EXCEPT ![k] = @ + n]

\* on the way to the last element of all
Spine(p) == \A q \in DOMAIN doc, k \in DOMAIN p :
                (Len(q) >= k /\ \A j \in 1..(k - 1) : q[j] = p[j]) => q[k] <= p[k]

\* every path q of the document at to[q], together with the elements of new
Rebuilt(to, new) ==
    LET at == [r \in {to[q] : q \in DOMAIN to} |-> CHOOSE q \in DOMAIN to : to[q] = r]
    IN  [r \in DOMAIN at \cup DOMAIN new |-> IF r \in DOMAIN new THEN new[r] ELSE doc[at[r]]]

\* the places of all elements when n more come before the children of p
Pushed(p) == [q \in DOMAIN doc |-> IF Under(p, q) /\ q # p THEN Moved(q, Len(p) + 1, 1) ELSE q]

Root(n) == doc = <<>> /\ doc' = [r \in {<<>>} |-> New(n)]

AddLast(p, n) ==
    /\ Spine(p)
    /\ LET r == Append(p, Cardinality(Kids(p)) + 1)
       IN  doc' = [q \in DOMAIN doc \cup {r} |-> IF q = r THEN New(n) ELSE doc[q]]

AddFirst(p, n) == doc' = Rebuilt(Pushed(p), [r \in {Append(p, 1)} |-> New(n)])

\* a copy of the element s, with everything in it, as the first child of p
Graft(p, s) ==
    LET place(q) == Append(p, 1) \o SubSeq(q, Len(s) + 1, Len(q))
        sub == {q \in DOMAIN doc : Under(s, q)}
        new == [r \in {place(q) : q \in sub} |-> doc[CHOOSE q \in sub : place(q) = r]]
    IN  doc' = Rebuilt(Pushed(p), new)

Prune(p) ==
    LET stay == {q \in DOMAIN doc : ~Under(p, q)}
        k == Len(p)
    IN  doc' = IF p = <<>> THEN <<>>
               ELSE Rebuilt([q \in stay |-> IF Len(q) >= k /\ SubSeq(q, 1, k - 1) = SubSeq(p, 1, k - 1) /\ q[k] > p[k]
                                            THEN Moved(q, k, -1) ELSE q], <<>>)

Wrap(p, n) ==
    doc' = Rebuilt([q \in DOMAIN doc |-> IF Under(p, q) THEN Append(p, 1) \o SubSeq(q, Len(p) + 1, Len(q)) ELSE q],
                   [r \in {p} |-> New(n)])

\* text at the end of what there is, and attributes anywhere
TextIn(p) == Spine(p) /\ Kids(p) = {} /\ doc' = [doc EXCEPT ![p].text = @ + 1]
TextAfter(p) == Spine(p) /\ p # <<>> /\ doc' = [doc EXCEPT ![p].tail = @ + 1]
SetAttrs(p) == \E as \in {doc[p].attrs \cup {a} : a \in Names} \cup {doc[p].attrs \ {a} : a \in Names} :
                doc' = [doc EXCEPT ![p].attrs = as]

Init == doc = <<>>

Next ==
    \/ \E n \in Names : Root(n)
    \/ \E p \in DOMAIN doc :
          \/ Prune(p) \/ TextIn(p) \/ TextAfter(p) \/ SetAttrs(p)
          \/ \E n \in Names : AddLast(p, n) \/ AddFirst(p, n) \/ Wrap(p, n)
          \/ \E s \in DOMAIN doc : Graft(p, s)

Spec == Init /\ [][Next]_doc
=============================================================================
