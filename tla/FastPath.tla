------------------------------ MODULE FastPath ------------------------------
(***************************************************************************)
(* msg_verdict on one HTTP/2 connection: it parses the frame at the front  *)
(* of a message and either answers the request there or hands the message  *)
(* to user space, with what user space has missed in front of it.          *)
(*                                                                         *)
(* A message is what one sk_buff carried, a sequence of whole frames.      *)
(***************************************************************************)
EXTENDS Wire

CONSTANTS
    MaxSync,        \* MAX_SYNC_ENTRIES
    MaxFlowFrames,  \* MAX_FLOW_FRAMES
    MaxWindow,      \* H2_MAX_WINDOW
    RouteLen        \* h2_data_len of the routes

ASSUME FastPathAssumption ==
    /\ MaxSync \in Nat /\ MaxFlowFrames \in Nat /\ RouteLen \in Nat
    /\ MaxWindow \in Nat /\ InitWindow <= MaxWindow

VARIABLES
    msgs,       \* what the client sent and the program has not run on
    msg,        \* what is left of the message it runs on
    h2_state,   \* upgraded_conns: 0 (no entry), H2_UPGRADED or H2_HANDSHAKED
    dt_dirty,   \* whether requests were answered since the last sync
    flow_ctl,   \* struct h2_flow
    mirror,     \* the parser's dynamic table for the dummy
    answered,   \* the requests the fast path answered
    left,       \* whether the rest of the connection is left to user space
    down,       \* whether a message was dropped, which stops the dummy
    missed      \* history: a header block has gone past the parser, or an
                \* answered one could not be marked in dt_dirty

fastVars == <<msg, h2_state, dt_dirty, flow_ctl, mirror, answered, left, down, missed>>

H2_UPGRADED == 1
H2_HANDSHAKED == 2

\* conn_window is signed and as wide as H2_MAX_WINDOW needs.
s32 == -MaxWindow - 1 .. MaxWindow

FastTypeOK ==
    /\ msgs \in Seq(Seq(ClientFrame)) /\ msg \in Seq(ClientFrame)
    /\ h2_state \in {0, H2_UPGRADED, H2_HANDSHAKED}
    /\ dt_dirty \in BOOLEAN
    /\ flow_ctl \in [conn_window : s32, stream_window : Nat, unreported : Nat]
    /\ mirror \in Seq(Entry) /\ Len(mirror) <= TableCap
    /\ answered \subseteq Nat
    /\ left \in BOOLEAN /\ down \in BOOLEAN /\ missed \in BOOLEAN

FastInit ==
    /\ msg = <<>>
    /\ h2_state = 0
    /\ dt_dirty = FALSE
    /\ flow_ctl = [conn_window |-> 0, stream_window |-> 0, unreported |-> 0]
    /\ mirror = <<>>
    /\ answered = {}
    /\ left = FALSE /\ down = FALSE
    /\ missed = FALSE

-----------------------------------------------------------------------------
(* The message the program runs on: what a served request left of the last   *)
(* one, or the next.                                                         *)

Cur == IF msg # <<>> THEN msg ELSE IF msgs # <<>> THEN Head(msgs) ELSE <<>>

\* The program runs on a message with a frame of type `t` in front.
RunsOn(t) ==
    /\ ~left /\ ~down
    /\ Cur # <<>> /\ Head(Cur).type \in t
    /\ msgs' = IF msg # <<>> THEN msgs ELSE Tail(msgs)

\* What the parser makes of the frame in front.
Parsed == IF Head(Cur).type = "headers" THEN Added(mirror, Head(Cur).adds) ELSE mirror

\* The preface, on a connection not known to speak HTTP/2, is passed on alone.
Upgrade ==
    /\ RunsOn({"preface"}) /\ h2_state = 0
    /\ h2_state' = H2_UPGRADED
    /\ flow_ctl' = [conn_window |-> InitWindow, stream_window |-> InitWindow,
                    unreported |-> 0]
    /\ ingress' = Append(ingress, Head(Cur))
    /\ msg' = Tail(Cur)
    /\ UNCHANGED <<dt_dirty, mirror, answered, left, down, missed>>

\* The frame in front continues in a later sk_buff and cannot be parsed.
LeaveToUserSpace ==
    /\ RunsOn({"preface", "settings", "window_update", "headers"})
    /\ ingress' = ingress \o Cur
    /\ left' = TRUE
    /\ msg' = <<>>
    /\ UNCHANGED <<h2_state, dt_dirty, flow_ctl, mirror, answered, down, missed>>

\* The bytes of an apply_bytes without end follow without the program running.
PassOn ==
    /\ left /\ msgs # <<>>
    /\ ingress' = ingress \o Head(msgs)
    /\ msgs' = Tail(msgs)
    /\ UNCHANGED fastVars

-----------------------------------------------------------------------------
(* Answering *)

\* The path of the request in front is one of the fast path's routes.
HasRoute == Head(Cur).fast

\* The slip of a response that looks at the stream's window alone.
FitsStream == flow_ctl.stream_window >= RouteLen

\* The response fits both of the client's windows: it goes out in one piece.
Fits == flow_ctl.conn_window >= RouteLen /\ flow_ctl.stream_window >= RouteLen

\* The slip of not waiting for the handshake.
CanServeEarly == h2_state >= H2_UPGRADED /\ HasRoute /\ Len(mirror) <= MaxSync /\ Fits

\* The handshake has completed and the table before the request can be replayed.
CanServe == h2_state = H2_HANDSHAKED /\ HasRoute /\ Len(mirror) <= MaxSync /\ Fits

\* The slip of an answer that is reported and not taken out of the window.
SpendReported(fc) == [fc EXCEPT !.unreported = @ + RouteLen]

\* What an answer takes out of the connection's window, and out of the server's.
Spend(fc) == [fc EXCEPT !.conn_window = @ - RouteLen, !.unreported = @ + RouteLen]

\* The slip of an answer the request stays behind.
KeepRequest == msg' = Cur

\* The response takes the place of the request, what follows runs again.
TakeRequest == msg' = Tail(Cur)

\* The answer is marked in dt_dirty, unless that map has no room for its entry,
\* which nothing checks.
Serve ==
    /\ RunsOn({"headers"}) /\ CanServe
    /\ answered' = answered \cup {Head(Cur).req}
    /\ mirror' = Parsed
    /\ flow_ctl' = Spend(flow_ctl)
    /\ \/ dt_dirty' = TRUE /\ UNCHANGED missed
       \/ ~dt_dirty /\ UNCHANGED dt_dirty /\ missed' = TRUE
    /\ TakeRequest
    /\ UNCHANGED <<ingress, h2_state, left, down>>

\* The message was left half rewritten and has to be dropped.
ServeFails ==
    /\ RunsOn({"headers"}) /\ CanServe
    /\ mirror' = Parsed
    /\ down' = TRUE
    /\ msg' = <<>>
    /\ UNCHANGED <<ingress, h2_state, dt_dirty, flow_ctl, answered, left, missed>>

-----------------------------------------------------------------------------
(* Handing over *)

\* The slip of opening the window without regard to its largest size.
TrackUnclamped(f, fc) ==
    CASE f.type = "window_update" -> [fc EXCEPT !.conn_window = @ + f.inc]
      [] f.type = "settings" /\ ~f.ack -> [fc EXCEPT !.stream_window = f.win]
      [] OTHER -> fc

\* track_flow_frame.  Acknowledgements and other frames change nothing.
TrackFrame(f, fc) ==
    CASE f.type = "window_update" ->
            [fc EXCEPT !.conn_window =
                IF @ + f.inc > MaxWindow THEN MaxWindow ELSE @ + f.inc]
      [] f.type = "settings" /\ ~f.ack -> [fc EXCEPT !.stream_window = f.win]
      [] OTHER -> fc

\* The slip of following the frame in front only.
TrackFirst(fs, fc) == TrackFrame(Head(fs), fc)

\* track_flow: the frames a message carries, up to MAX_FLOW_FRAMES of them.
Track(fs, fc) ==
    LET seen == Shortened(fs, MaxFlowFrames)
        t[i \in 0 .. Len(seen)] == IF i = 0 THEN fc ELSE TrackFrame(seen[i], t[i - 1])
    IN  t[Len(seen)]

\* The handshake is complete once the client acknowledges the SETTINGS.
Handshaked ==
    IF Head(Cur).type = "settings" /\ Head(Cur).ack /\ h2_state < H2_HANDSHAKED
    THEN H2_HANDSHAKED ELSE h2_state

\* The slip of replaying the table that includes what the message itself adds.
TableNow == <<[type |-> "dt_sync", table |-> Parsed]>>

\* The table as it stands before the message, if user space may lack it.
TableBefore == <<[type |-> "dt_sync", table |-> mirror]>>
DtSync == IF dt_dirty THEN TableBefore ELSE <<>>

\* What was spent of the window, if anything, unless it cannot be prepended: the
\* message does not grow and is left as it is.  (Once it has grown, the bytes that
\* were pushed are a fragment of their own, and pulling them in does not fail.)
FcSync(n) == IF n > 0 THEN {<<>>, <<[type |-> "fc_sync", sent |-> n]>>} ELSE {<<>>}

\* The slip of a report that is made again with every message.
ReportAgain(fc, report) == fc

\* The bytes reported are no longer outstanding; those that were not stay.
Report(fc, report) ==
    IF report = <<>> THEN fc ELSE [fc EXCEPT !.unreported = 0]

\* The message goes to user space whole: what it says of the flow control is
\* followed, the table is put in front if the two may have drifted apart, and
\* in front of that the bytes answered with.
Forward ==
    /\ RunsOn({"settings", "window_update", "headers"}) /\ h2_state # 0
    /\ h2_state' = Handshaked
    /\ mirror' = Parsed
    /\ \E report \in FcSync(flow_ctl.unreported) :
          /\ flow_ctl' = Report(Track(Cur, flow_ctl), report)
          /\ ingress' = ingress \o report \o DtSync \o Cur
    /\ dt_dirty' = FALSE
    /\ msg' = <<>>
    /\ missed' = (missed \/ Carries(Tail(Cur), "headers"))
    /\ UNCHANGED <<answered, left, down>>

\* An entry of the table is gone or does not fit, or the message cannot grow: it
\* is dropped.
SyncFails ==
    /\ RunsOn({"settings", "window_update", "headers"}) /\ h2_state # 0
    /\ dt_dirty
    /\ h2_state' = Handshaked
    /\ mirror' = Parsed
    /\ flow_ctl' = Track(Cur, flow_ctl)
    /\ down' = TRUE
    /\ msg' = <<>>
    /\ UNCHANGED <<ingress, dt_dirty, answered, left, missed>>

Verdict == Upgrade \/ Serve \/ Forward \/ PassOn

\* What goes wrong in the kernel or the network.
Mishap == LeaveToUserSpace \/ ServeFails \/ SyncFails
=============================================================================
