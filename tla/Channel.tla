------------------------------ MODULE Channel ------------------------------
(***************************************************************************)
(* What an XML stream promises the two applications at its ends: packets   *)
(* in each direction arrive at most once and in the order they were sent,  *)
(* an end is told once that the stream has closed, and after that neither  *)
(* receives nor sends anything.  Packets that are under way when an end    *)
(* closes may be lost.                                                     *)
(***************************************************************************)
EXTENDS Integers, Sequences

CONSTANT MaxPkt     \* bound: packets each application sends

VARIABLES
    sent,       \* packets each end has sent: numbered 1, 2, ...
    got,        \* the packets each end has received
    closed      \* how often an end has been told that the stream is closed

vars == <<sent, got, closed>>

Ends == {"client", "server"}
Other(e) == IF e = "client" THEN "server" ELSE "client"

Init ==
    /\ sent = [e \in Ends |-> 0]
    /\ got = [e \in Ends |-> <<>>]
    /\ closed = [e \in Ends |-> 0]

(* One turn of an end: it receives the next n packets of the other, sends  *)
(* m of its own, and the stream may close on it.                           *)
Turn(e) ==
    /\ closed[e] = 0
    /\ \E n \in 0..(sent[Other(e)] - Len(got[e])), m \in 0..(MaxPkt - sent[e]), c \in 0..1 :
          /\ got' = [got EXCEPT ![e] = @ \o [i \in 1..n |-> Len(got[e]) + i]]
          /\ sent' = [sent EXCEPT ![e] = @ + m]
          /\ closed' = [closed EXCEPT ![e] = c]

Next == \E e \in Ends : Turn(e)

Spec == Init /\ [][Next]_vars
=============================================================================
