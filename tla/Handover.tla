------------------------------ MODULE Handover ------------------------------
(***************************************************************************)
(* One HTTP/2 connection that is answered from two places: the client, the *)
(* fast path and user space, and what has to stay in step between them -   *)
(* the HPACK dynamic tables, the connection's flow control window and the  *)
(* handshake.                                                              *)
(***************************************************************************)
EXTENDS FastPath, UserSpace, FiniteSets

CONSTANTS
    MaxReqs,        \* bound: requests
    MaxUpdates,     \* bound: WINDOW_UPDATE frames
    MaxMsg,         \* bound: frames one sk_buff carries
    Entries,        \* how many entries a request may add to the table
    Windows         \* the initial stream windows the client announces

ASSUME BoundAssumption ==
    /\ MaxReqs \in Nat /\ MaxUpdates \in Nat /\ MaxMsg \in Nat \ {0, 1}
    /\ Windows \subseteq Nat /\ Entries \subseteq Nat

VARIABLES
    opened,         \* whether the client has sent the preface
    acked,          \* whether it has acknowledged the server's SETTINGS
    reqs,           \* how many requests it has sent
    updates,        \* how many window updates
    granted,        \* bytes they opened the window by
    client_table,   \* the table its encoder keeps
    stream_win      \* the window it lets streams start with

clientVars == <<opened, acked, reqs, updates, granted, client_table, stream_win>>
vars == <<msgs, ingress, fastVars, userVars, clientVars>>

TypeOK ==
    /\ FastTypeOK
    /\ UserTypeOK
    /\ opened \in BOOLEAN /\ acked \in BOOLEAN
    /\ reqs \in 0 .. MaxReqs /\ updates \in 0 .. MaxUpdates
    /\ granted \in Nat /\ stream_win \in Nat
    /\ client_table \in Seq(Entry) /\ Len(client_table) <= TableCap

Init ==
    /\ msgs = <<>> /\ ingress = <<>>
    /\ FastInit /\ UserInit
    /\ opened = FALSE /\ acked = FALSE
    /\ reqs = 0 /\ updates = 0 /\ granted = 0
    /\ client_table = <<>> /\ stream_win = InitWindow

-----------------------------------------------------------------------------
(* The client *)

\* Frames travel in an sk_buff of their own or behind what is already in one.
Put(fs) ==
    \/ msgs' = Append(msgs, fs)
    \/ /\ msgs # <<>> /\ Len(Last(msgs)) + Len(fs) <= MaxMsg
       /\ msgs' = Append(Front(msgs), Last(msgs) \o fs)

Settings(w, ack) == [type |-> "settings", win |-> w, ack |-> ack]

Open(w) ==
    /\ ~opened
    /\ opened' = TRUE
    /\ stream_win' = w
    /\ Put(<<[type |-> "preface"], Settings(w, FALSE)>>)
    /\ UNCHANGED <<ingress, fastVars, userVars, acked, reqs, updates, granted, client_table>>

\* The server's SETTINGS have arrived and are acknowledged.
Ack ==
    /\ opened /\ ~acked /\ task \notin {"protocol", "handshake"}
    /\ acked' = TRUE
    /\ Put(<<Settings(0, TRUE)>>)
    /\ UNCHANGED <<ingress, fastVars, userVars, opened, reqs, updates, granted,
                   client_table, stream_win>>

\* The initial window of the streams to come is changed.
ChangeWindow(w) ==
    /\ opened /\ updates < MaxUpdates
    /\ w # stream_win
    /\ stream_win' = w
    /\ updates' = updates + 1
    /\ Put(<<Settings(w, FALSE)>>)
    /\ UNCHANGED <<ingress, fastVars, userVars, opened, acked, reqs, granted, client_table>>

\* A request adds entries to the table, may name a route of the fast path, and
\* may be sent before the handshake has completed.
Request(new, fast) ==
    LET entries == [i \in 1 .. new |-> <<reqs + 1, i>>] IN
    /\ opened /\ reqs < MaxReqs
    /\ reqs' = reqs + 1
    /\ client_table' = Added(client_table, entries)
    /\ Put(<<[type |-> "headers", req |-> reqs + 1, fast |-> fast, adds |-> entries,
              table |-> client_table, win |-> stream_win]>>)
    /\ UNCHANGED <<ingress, fastVars, userVars, opened, acked, updates, granted, stream_win>>

FastSent == RouteLen * Cardinality(answered)

\* Bytes that have arrived are given back to the sender's window.
UpdateWindow(n) ==
    /\ opened /\ updates < MaxUpdates
    /\ granted + n <= FastSent + srv_sent
    /\ granted' = granted + n
    /\ updates' = updates + 1
    /\ Put(<<[type |-> "window_update", inc |-> n]>>)
    /\ UNCHANGED <<ingress, fastVars, userVars, opened, acked, reqs, client_table, stream_win>>

Client ==
    \/ \E w \in Windows : Open(w)
    \/ Ack
    \/ \E w \in Windows : ChangeWindow(w)
    \/ \E new \in Entries, fast \in BOOLEAN : Request(new, fast)
    \/ \E n \in 1 .. FastSent + srv_sent : UpdateWindow(n)

-----------------------------------------------------------------------------
Kernel == (Verdict \/ Mishap) /\ UNCHANGED <<userVars, clientVars>>

Server ==
    /\ Poll \/ Decode \/ Stall \/ TakeFails \/ Respond
    /\ UNCHANGED <<msgs, fastVars, clientVars>>

Next == Client \/ Kernel \/ Server

Spec == Init /\ [][Next]_vars

\* The backlog runs the program, the task is polled and responds, and a client
\* that reads lets the codec send, and so decode, again and again.
Fairness ==
    /\ WF_vars(Verdict /\ UNCHANGED <<userVars, clientVars>>)
    /\ WF_vars(Poll /\ UNCHANGED <<msgs, fastVars, clientVars>>)
    /\ SF_vars(Decode /\ UNCHANGED <<msgs, fastVars, clientVars>>)

FairSpec == Spec /\ Fairness

-----------------------------------------------------------------------------
(* Where the frames are *)

Unseen == msg \o FlattenSeq(msgs)
Underway == buf \o out \o hold \o ingress

ClientWindow == InitWindow + granted - FastSent - srv_sent

-----------------------------------------------------------------------------
(* What is known to put the tables out of step: a header block in a message   *)
(* behind another frame or an answered one that could not be marked, a table  *)
(* not handed over when the connection is left to user space, and an update   *)
(* applied ahead of a header block before it.                                 *)

Derailed == missed \/ early \/ (left /\ dt_dirty)

RightTable ==
    task = "polling" /\ buf # <<>> /\ Head(buf).type = "headers"
        => Head(buf).table = table

\* Unless one of these happened, user space decodes every header block with the
\* table it was encoded with, whatever the fast path answered in between.
DecodesRight == ~Derailed => RightTable

\* The fast path answers only after the client has acknowledged the server's
\* SETTINGS, so that no response preempts them.
HandshakeFirst == [][answered' # answered => acked /\ task # "handshake"]_vars

\* A request is eventually answered by the fast path or decoded by the server, or
\* the connection fails: nothing stays held behind an update.
EventuallyTaken ==
    \A r \in 1 .. MaxReqs :
        r <= reqs ~> (r \in answered \cup delivered \/ down \/ task = "ended")

\* The window the codec sends from is the client's, but for the updates and the
\* reports on their way to it: every byte answered with is reported once.
AccountsBalance ==
    ~down =>
        capacity + Grants(Underway \o Unseen)
            - (flow_ctl.unreported + Reports(Underway) + sent) = ClientWindow

\* The fast path never believes the client's window larger than it is by more
\* than the bytes the server has sent, which it does not see.
WindowBounded ==
    ~left /\ ~down /\ h2_state # 0 =>
        flow_ctl.conn_window + Grants(Unseen) <= ClientWindow + srv_sent

\* The fast path never overdraws the connection's window, whatever a client that
\* shrinks its windows does before the next answer.  h2_flow says of conn_window:
\* "it can go negative if the client shrinks a window it had already opened".  It
\* cannot: what a client shrinks is the window of its streams, SETTINGS do not
\* change the connection's (as H2_INITIAL_WINDOW says), and no answer is given that
\* does not fit it.  serve_route's test for a negative window is never true.
NeverOverdrawn == flow_ctl.conn_window >= 0

\* An answer fits the window the client lets the stream of the request start with,
\* provided that no message carries more frames than the program follows.
AnswersFit == [][answered' # answered => RouteLen <= Head(Cur).win]_vars

-----------------------------------------------------------------------------
(* What the sources say and the code does not keep *)

\* msg_verdict: "the next message it does get has to carry the table with it".  A
\* connection that is left to user space is decoded right from there on.
LeftDecodesRight == left /\ ~missed /\ ~early => RightTable

\* msg_verdict: "the table as it stands before this message, which is the state
\* user space has to reach before decoding it".
SyncIsTable ==
    \A i \in 1 .. Len(ingress) - 1 :
        ingress[i].type = "dt_sync" /\ ingress[i + 1].type = "headers"
            => ingress[i].table = ingress[i + 1].table

\* MAX_SYNC_ENTRIES: "The most entries a single sync frame carries."
SyncFits ==
    \A i \in DOMAIN ingress :
        ingress[i].type = "dt_sync" => Len(ingress[i].table) <= MaxSync

\* h2_flow: conn_window runs ahead "by exactly the bytes the server has sent since the last WINDOW_UPDATE": by
\* none when the client has given back all it received.
WindowRestored ==
    Unseen = <<>> /\ h2_state # 0 /\ ~left /\ ~down /\ granted = FastSent + srv_sent
        => flow_ctl.conn_window = ClientWindow

-----------------------------------------------------------------------------
(* The connection implements Dispatch *)

Taking == INSTANCE Dispatch WITH
    taker <- [r \in 1 .. MaxReqs |->
                IF r > reqs THEN "unsent"
                ELSE IF r \in answered \cap delivered THEN "both"
                ELSE IF r \in answered THEN "kernel"
                ELSE IF r \in delivered THEN "server" ELSE "nobody"]

\* Every request goes to the fast path or to the server, never to both, and to
\* the server in the order it was sent.
Dispatches == Taking!Spec
=============================================================================
