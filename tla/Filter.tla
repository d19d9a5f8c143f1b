------------------------------- MODULE Filter -------------------------------
(***************************************************************************)
(* What a BeeperStream promises about one connection: its reader gets the  *)
(* client's bytes in order, and each update in the gap between the bytes   *)
(* in front of it and the bytes behind it, with everything that was        *)
(* reported in front of it.                                                *)
(***************************************************************************)
EXTENDS Naturals, Sequences

VARIABLES
    source,     \* what the stream carries: bytes, updates and reports in place
    handed,     \* the bytes the reader has
    taken,      \* the updates it has
    reported    \* the bytes reported to it

\* The update to be taken next, if there is one left.
Left == Len(taken) < Len(source.updates)
Upcoming == source.updates[Len(taken) + 1]

\* How far the reader may get in the bytes and in the reports before that.
Barrier == IF Left THEN Upcoming.at ELSE Len(source.bytes)
Told == IF Left THEN Upcoming.sent ELSE source.sent

Init == handed = <<>> /\ taken = <<>> /\ reported = 0

Hand ==
    /\ \E n \in Len(handed) + 1 .. Barrier : handed' = SubSeq(source.bytes, 1, n)
    /\ UNCHANGED <<source, taken, reported>>

Report ==
    /\ reported' \in reported + 1 .. Told
    /\ UNCHANGED <<source, handed, taken>>

Update ==
    /\ Left /\ Len(handed) = Barrier
    /\ taken' = Append(taken, Upcoming.block)
    /\ reported' = Told
    /\ UNCHANGED <<source, handed>>

Spec == Init /\ [][Hand \/ Report \/ Update]_<<source, handed, taken, reported>>
=============================================================================
