----------------------------- MODULE MCHandover -----------------------------
(* One connection with a few requests: the tables and the windows apart.     *)
EXTENDS Handover

NoEntries == {0}
OneEntry == {0, 1}
UpToTwo == {0, 1, 2}
OneWindow == {2}
TwoWindows == {0, 2}
ZeroOrOne == {0, 1}
=============================================================================
