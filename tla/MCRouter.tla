------------------------------ MODULE MCRouter ------------------------------
(* Instances of Router for TLC. *)
EXTENDS Router, TLC

AciAll == [t \in AclTypes |-> IF t = "all" THEN {"jabberd"} ELSE {}]
\* "half" may set a default route and bind any name but may not be a log sink
AciPartial == [t \in AclTypes |-> IF t \in {"bind", "default-route"} THEN {"half"} ELSE {}]

\* all names share a bucket
Collide == [n \in Names |-> 1]

NoAliases == {}
OneAlias == {<<"b", "a">>}
NoFilter == {}
SomeFilter == {"a", Deny}

CompSymmetry == Permutations(Comps)
=============================================================================
