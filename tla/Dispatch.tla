------------------------------ MODULE Dispatch ------------------------------
(***************************************************************************)
(* What the fast path and user space promise together about the requests   *)
(* of one connection: each is taken by the kernel or by the server, by one *)
(* of them only and once, and the server gets its share in order.          *)
(***************************************************************************)
EXTENDS Naturals

CONSTANT MaxReqs

VARIABLE taker      \* who has taken a request, in the order they were sent

Reqs == 1 .. MaxReqs

Init == taker = [r \in Reqs |-> "unsent"]

Send(r) ==
    /\ taker[r] = "unsent"
    /\ \A q \in 1 .. r - 1 : taker[q] # "unsent"
    /\ taker' = [taker EXCEPT ![r] = "nobody"]

\* The kernel may answer a request while earlier ones are on their way.
Kernel(r) ==
    /\ taker[r] = "nobody"
    /\ taker' = [taker EXCEPT ![r] = "kernel"]

Server(r) ==
    /\ taker[r] = "nobody"
    /\ \A q \in 1 .. r - 1 : taker[q] # "nobody"
    /\ taker' = [taker EXCEPT ![r] = "server"]

Next == \E r \in Reqs : Send(r) \/ Kernel(r) \/ Server(r)

Spec == Init /\ [][Next]_taker
=============================================================================
