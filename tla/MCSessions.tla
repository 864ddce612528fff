---------------------------- MODULE MCSessions ----------------------------
(* Instances of Sessions for TLC. *)
EXTENDS Sessions, TLC

Sasl == {"sasl"}
Both == {"sasl", "trad"}

\* Advert picks a descriptor, so that only users and resources are symmetric.
Symmetry == Permutations(Users) \cup Permutations(Resources)
=============================================================================
