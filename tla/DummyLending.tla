---------------------------- MODULE DummyLending ----------------------------
(***************************************************************************)
(* What the pool promises, without saying how: a dummy is lent to one      *)
(* connection at a time and, once a connection has used it, is only lent   *)
(* again after it has been cleaned.  A dummy may be lost instead.          *)
(***************************************************************************)
EXTENDS Naturals

CONSTANTS Socks, NumDummies, None

Dummies == 0 .. NumDummies - 1

VARIABLES
    stage,      \* where each dummy is
    holds       \* the dummy a connection holds

lendingVars == <<stage, holds>>

Init ==
    /\ stage = [d \in Dummies |-> "free"]
    /\ holds = [s \in Socks |-> None]

Lend(s, d) ==
    /\ stage[d] = "free" /\ holds[s] = None
    /\ stage' = [stage EXCEPT ![d] = "lent"]
    /\ holds' = [holds EXCEPT ![s] = d]

\* From here on the dummy carries what the connection leaves on it.
Use(s) ==
    /\ holds[s] # None /\ stage[holds[s]] = "lent"
    /\ stage' = [stage EXCEPT ![holds[s]] = "used"]
    /\ UNCHANGED holds

\* A connection gives its dummy back: unused, or to be cleaned, or it is lost.
GiveBack(s, to) ==
    /\ holds[s] # None
    /\ stage[holds[s]] = "used" => to # "free"
    /\ stage' = [stage EXCEPT ![holds[s]] = to]
    /\ holds' = [holds EXCEPT ![s] = None]

\* A dummy that was given back used is cleaned, or cannot be.
Clean(d, to) ==
    /\ stage[d] = "dirty"
    /\ stage' = [stage EXCEPT ![d] = to]
    /\ UNCHANGED holds

Next ==
    \/ \E s \in Socks, d \in Dummies : Lend(s, d)
    \/ \E s \in Socks : Use(s)
    \/ \E s \in Socks, to \in {"free", "dirty", "lost"} : GiveBack(s, to)
    \/ \E d \in Dummies, to \in {"free", "lost"} : Clean(d, to)

Spec == Init /\ [][Next]_lendingVars
=============================================================================
