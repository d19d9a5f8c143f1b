----------------------------- MODULE UserSpace -----------------------------
(***************************************************************************)
(* The user space half of one HTTP/2 connection: BeeperStream's scanner    *)
(* takes the frames the fast path added out of the byte stream, serve_h2's *)
(* loop applies them to the h2 codec before every poll, and the codec      *)
(* decodes what the stream hands out.                                      *)
(*                                                                         *)
(* The codec is h2 with the repository's patch, modelled from how serve_h2 *)
(* uses it.                                                                *)
(***************************************************************************)
EXTENDS Wire

CONSTANT BodyLen    \* bytes of a response of the server

ASSUME BodyAssumption == BodyLen \in Nat

VARIABLES
    task,       \* where the connection's task is
    out,        \* Scanner.out
    hold,       \* Scanner.hold
    blocks,     \* SyncHandle.blocks
    sent,       \* FlowHandle.sent
    buf,        \* what the codec has read and not decoded
    table,      \* the codec's dynamic table
    capacity,   \* the connection's window as the codec has it
    incoming,   \* requests decoded and not yet accepted
    owed,       \* bytes of responses not sent
    srv_sent,   \* history: bytes of responses sent
    delivered,  \* history: the requests decoded
    early       \* history: an update was applied ahead of a header block before it

scanVars == <<out, hold, blocks, sent>>
codecVars == <<buf, table, capacity, incoming, owed, srv_sent, delivered>>
userVars == <<task, scanVars, codecVars, early>>

\* The codec never gets to see a frame of the fast path's own.
UserTypeOK ==
    /\ ingress \in Seq(Frame) /\ hold \in Seq(Frame)
    /\ out \in Seq(ClientFrame) /\ buf \in Seq(ClientFrame)
    /\ task \in {"protocol", "handshake", "woken", "polling", "idle", "ended"}
    /\ blocks \in Seq(Seq(Entry)) /\ Len(blocks) <= 1
    /\ table \in Seq(Entry) /\ Len(table) <= TableCap
    /\ sent \in Nat /\ capacity \in Int
    /\ incoming \in Nat /\ owed \in Nat /\ srv_sent \in Nat
    /\ delivered \subseteq Nat /\ early \in BOOLEAN

UserInit ==
    /\ task = "protocol"
    /\ out = <<>> /\ hold = <<>> /\ blocks = <<>> /\ sent = 0
    /\ buf = <<>> /\ table = <<>> /\ capacity = InitWindow
    /\ incoming = 0 /\ owed = 0 /\ srv_sent = 0
    /\ delivered = {} /\ early = FALSE

-----------------------------------------------------------------------------
(* Scanner::scan *)

\* The codec does not get to see a report, which is only counted.
Passed(fs) ==
    LET p[i \in 0 .. Len(fs)] ==
            IF i = 0 THEN <<>>
            ELSE IF fs[i].type = "fc_sync" THEN p[i - 1] ELSE Append(p[i - 1], fs[i])
    IN  p[Len(fs)]

\* Up to the first update the frames are told apart; what is behind it is held
\* until the update is taken.
Scan(fs) ==
    LET end == SelectInSeq(fs, LAMBDA f : f.type = "dt_sync")
        seen == IF end = 0 THEN fs ELSE SubSeq(fs, 1, end - 1)
        rest == IF end = 0 THEN <<>> ELSE SubSeq(fs, end + 1, Len(fs))
    IN  /\ out' = out \o Passed(seen)
        /\ sent' = sent + Reports(seen)
        /\ blocks' = IF end = 0 THEN blocks ELSE Append(blocks, fs[end].table)
        /\ hold' = rest

\* The socket is read: some of the bytes that wait arrive in one chunk.
Read ==
    /\ ingress # <<>>
    /\ \E n \in 1 .. Len(ingress) :
          /\ ingress' = SubSeq(ingress, n + 1, Len(ingress))
          /\ Scan(SubSeq(ingress, 1, n))

-----------------------------------------------------------------------------
(* serve_connection and serve_h2 *)

\* protocol() reads until the preface has been seen.
ReadProtocol ==
    /\ task = "protocol"
    /\ Read
    /\ task' = "handshake"
    /\ UNCHANGED <<codecVars, early>>

\* The codec sends its SETTINGS and takes the preface.
ServerHandshake ==
    /\ task = "handshake"
    /\ out' = Tail(out)
    /\ task' = "woken"
    /\ UNCHANGED <<ingress, hold, blocks, sent, codecVars, early>>

\* Before every poll the bytes served out of band are taken out of the codec's
\* window, and the updates replace its table.
Take ==
    /\ task = "woken"
    /\ task' = "polling"
    /\ capacity' = capacity - sent
    /\ sent' = 0
    /\ table' = IF blocks = <<>> THEN table ELSE Last(blocks)
    /\ blocks' = <<>>
    /\ early' = (early \/ (blocks # <<>> /\ Carries(buf \o out, "headers")))
    /\ UNCHANGED <<ingress, out, hold, buf, incoming, owed, srv_sent, delivered>>

\* The codec refuses one of them: the connection ends.
TakeFails ==
    /\ task = "woken"
    /\ sent > 0 \/ blocks # <<>>
    /\ task' = "ended"
    /\ UNCHANGED <<ingress, scanVars, codecVars, early>>

-----------------------------------------------------------------------------
(* poll_accept, and poll_read under it *)

\* What has been scanned is handed to the codec.
ReadOut ==
    /\ task = "polling" /\ buf = <<>> /\ out # <<>>
    /\ buf' = out /\ out' = <<>>
    /\ UNCHANGED <<ingress, task, hold, blocks, sent, table, capacity, incoming,
                   owed, srv_sent, delivered, early>>

Dry == task = "polling" /\ buf = <<>> /\ out = <<>>

\* The poll is over: a request it brought is accepted, and the loop polls again.
Accept ==
    /\ incoming > 0
    /\ incoming' = incoming - 1
    /\ owed' = owed + BodyLen
    /\ task' = "woken"

\* The slip of a stream that does not wake its task.
WithholdSleeps ==
    /\ Dry /\ blocks # <<>>
    /\ \/ Accept
       \/ incoming = 0 /\ task' = "idle" /\ UNCHANGED <<incoming, owed>>
    /\ UNCHANGED <<ingress, scanVars, buf, table, capacity, srv_sent, delivered, early>>

\* Nothing may be handed out before the update: the task is woken right away.
Withhold ==
    /\ Dry /\ blocks # <<>>
    /\ \/ Accept
       \/ incoming = 0 /\ task' = "woken" /\ UNCHANGED <<incoming, owed>>
    /\ UNCHANGED <<ingress, scanVars, buf, table, capacity, srv_sent, delivered, early>>

Rescan ==
    /\ Dry /\ blocks = <<>> /\ hold # <<>>
    /\ Scan(hold)
    /\ UNCHANGED <<ingress, task, codecVars, early>>

ReadSocket ==
    /\ Dry /\ blocks = <<>> /\ hold = <<>>
    /\ Read
    /\ UNCHANGED <<task, codecVars, early>>

\* The socket has nothing: the task sleeps until it does.
WaitForSocket ==
    /\ Dry /\ blocks = <<>> /\ hold = <<>> /\ ingress = <<>>
    /\ \/ Accept
       \/ incoming = 0 /\ task' = "idle" /\ UNCHANGED <<incoming, owed>>
    /\ UNCHANGED <<ingress, scanVars, buf, table, capacity, srv_sent, delivered, early>>

SocketWakes ==
    /\ task = "idle" /\ ingress # <<>>
    /\ task' = "woken"
    /\ UNCHANGED <<ingress, scanVars, codecVars, early>>

\* The codec decodes the frame in front of what it has read.
Decode ==
    LET f == Head(buf) IN
    /\ task = "polling" /\ buf # <<>>
    /\ buf' = Tail(buf)
    /\ IF f.type = "headers"
       THEN /\ table' = Added(table, f.adds)
            /\ incoming' = incoming + 1
            /\ delivered' = delivered \cup {f.req}
       ELSE UNCHANGED <<table, incoming, delivered>>
    /\ capacity' = IF f.type = "window_update" THEN capacity + f.inc ELSE capacity
    /\ UNCHANGED <<ingress, task, scanVars, owed, srv_sent, early>>

\* The codec has to send first and cannot: it decodes nothing more in this poll.
Stall ==
    /\ task = "polling" /\ buf # <<>>
    /\ \/ Accept
       \/ incoming = 0 /\ task' = "woken" /\ UNCHANGED <<incoming, owed>>
    /\ UNCHANGED <<ingress, scanVars, buf, table, capacity, srv_sent, delivered, early>>

\* A response goes out as far as the connection's window allows, as the codec has
\* it.  The client is free to open the windows of the streams.
Respond ==
    /\ task # "ended"
    /\ owed > 0 /\ capacity > 0
    /\ owed' = owed - 1
    /\ capacity' = capacity - 1
    /\ srv_sent' = srv_sent + 1
    /\ UNCHANGED <<ingress, task, scanVars, buf, table, incoming, delivered, early>>

Poll ==
    \/ ReadProtocol
    \/ ServerHandshake
    \/ Take
    \/ ReadOut
    \/ Withhold
    \/ Rescan
    \/ ReadSocket
    \/ WaitForSocket
    \/ SocketWakes
=============================================================================
