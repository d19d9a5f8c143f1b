-------------------------------- MODULE Wire --------------------------------
(***************************************************************************)
(* What msg_verdict and user space share: the receive queue of the         *)
(* client's socket, the frames in it and the HPACK dynamic table that the  *)
(* client, the fast path's parser and the server's codec each keep.        *)
(*                                                                         *)
(* A queue holds whole frames.  A dynamic table is the sequence of its     *)
(* entries, newest first.  A headers frame carries, as ghosts, the table   *)
(* it was encoded with and the window its stream starts with.              *)
(***************************************************************************)
EXTENDS Integers, SequencesExt

CONSTANTS
    TableCap,       \* entries a dynamic table has room for
    InitWindow      \* H2_INITIAL_WINDOW

ASSUME WireAssumption == TableCap \in Nat /\ InitWindow \in Nat

VARIABLE ingress    \* what waits in the receive queue of the client's socket

\* The entries a request adds are named by it and numbered.
Entry == Nat \X Nat

ClientFrame ==
    [type : {"preface"}]
        \cup [type : {"settings"}, win : Nat, ack : BOOLEAN]
        \cup [type : {"window_update"}, inc : Nat]
        \cup [type : {"headers"}, req : Nat, fast : BOOLEAN, adds : Seq(Entry),
              table : Seq(Entry), win : Nat]

\* The frames of type FC_SYNC_FRAME_TYPE and DT_SYNC_FRAME_TYPE.
SyncFrame ==
    [type : {"fc_sync"}, sent : Nat] \cup [type : {"dt_sync"}, table : Seq(Entry)]

Frame == ClientFrame \cup SyncFrame

Carries(fs, t) == \E i \in DOMAIN fs : fs[i].type = t

\* Sums, like what is left out of a sequence below, are recursive functions, which
\* the proofs can unfold.
Total(ns) ==
    LET t[i \in 0 .. Len(ns)] == IF i = 0 THEN 0 ELSE t[i - 1] + ns[i]
    IN  t[Len(ns)]

\* What frames open the client's window by, and how many bytes they report.
Grants(fs) ==
    Total([i \in DOMAIN fs |-> IF fs[i].type = "window_update" THEN fs[i].inc ELSE 0])
Reports(fs) ==
    Total([i \in DOMAIN fs |-> IF fs[i].type = "fc_sync" THEN fs[i].sent ELSE 0])

Shortened(q, n) == SubSeq(q, 1, IF Len(q) < n THEN Len(q) ELSE n)

\* A table after entries were added to it, oldest first: what no longer fits is
\* evicted, in the same order by everyone who keeps one.
Added(table, new) == Shortened(Reverse(new) \o table, TableCap)
=============================================================================
