----------------------------- MODULE MCDummyPool -----------------------------
(* The pool with three sockets, two of which use the same address pair one   *)
(* after the other.                                                          *)
EXTENDS DummyPool, TLC

CONSTANTS s1, s2, s3, k1, k2

MCSocks == {s1, s2, s3}
MCKeys == {k1, k2}
MCKeyOf == (s1 :> k1) @@ (s2 :> k2) @@ (s3 :> k1)

\* Two connections that may be open at the same time.
MCTwoSocks == {s1, s2}
MCTwoKeyOf == (s1 :> k1) @@ (s2 :> k2)
=============================================================================
