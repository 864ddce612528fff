----------------------------- MODULE MCProxy65 -----------------------------
(* Instances of Proxy65 for TLC. *)
EXTENDS Proxy65, TLC

Scene(conns, data, losses, rude) == [conns |-> conns, data |-> data, losses |-> losses, rude |-> rude]

\* two clients with more data than a socket holds; a third that joins at any
\* point; the link to the router that is lost and not found again
All == [pair |-> Scene(2, 2, 0, TRUE), crowd |-> Scene(3, 0, 0, FALSE), router |-> Scene(2, 0, 2, FALSE)]

\* two clients
Two == [pair |-> Scene(2, 2, 0, FALSE)]
=============================================================================
