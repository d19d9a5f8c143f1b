------------------------------- MODULE Serving -------------------------------
(***************************************************************************)
(* One message with requests on a connection, from the moment msg_verdict  *)
(* runs on it: serve_route turns the request in front into the prepared    *)
(* response, a helper call of the kernel at a time, any of which may fail, *)
(* and what follows the request runs again.                                *)
(*                                                                         *)
(* A message is its bytes.  That its windows are pulled in first, which    *)
(* may fail, is part of the step that writes to them.                      *)
(***************************************************************************)
EXTENDS Routes

CONSTANTS
    CopyBlock,      \* COPY_BLOCK
    Messages        \* messages, and the windows of the connection they arrive on

ASSUME ServingAssumption ==
    /\ CopyBlock \in Nat \ {0} /\ Chunk % CopyBlock = 0
    /\ \A m \in Messages :
          /\ m.requests \in Seq([path : Paths, sid : Nat, len : Nat \ {0}, arrived : Nat])
          /\ m.requests # <<>>
          /\ \A k \in 1 .. Len(m.requests) :
                /\ m.requests[k].arrived \in 1 .. m.requests[k].len
                /\ k # Len(m.requests) => m.requests[k].arrived = m.requests[k].len
          /\ m.conn_window \in Nat /\ m.stream_window \in Nat

VARIABLES
    pc,         \* where the program is
    requests,   \* those in the message
    msg,        \* the bytes of the message
    orig_size,  \* its size before it was grown
    route,      \* the index of the route that is served
    turn,       \* turns of the loop the program is in
    flow_ctl,   \* struct h2_flow
    egress,     \* the responses on the egress of the client's socket
    ingress,    \* what was handed to user space
    behind,     \* history: what follows the request that is served
    kernel      \* history: whether a helper has failed

runVars == <<pc, requests, msg, orig_size, route, turn, flow_ctl, egress, ingress,
             behind, kernel>>
vars == <<routeVars, runVars>>

-----------------------------------------------------------------------------
(* Messages *)

\* The bytes of request `n` of a message; the last may not have arrived completely.
RequestBytes(r, n) == [k \in 1 .. r.arrived |-> Byte("request", r.path, n)]

Arrived(rs) == FlattenSeq([n \in DOMAIN rs |-> RequestBytes(rs[n], n)])

\* bpf_msg_push_data: `n` bytes, whatever they are, in front of offset `at`.
Pushed(bytes, at, n) ==
    [k \in 1 .. Len(bytes) + n |->
        IF k <= at THEN bytes[k] ELSE IF k <= at + n THEN Unset ELSE bytes[k - n]]

\* bpf_msg_pop_data.
Popped(bytes, at, n) ==
    [k \in 1 .. Len(bytes) - n |-> IF k <= at THEN bytes[k] ELSE bytes[k + n]]

-----------------------------------------------------------------------------
(* The request in front *)

Request == Head(requests)
Rendering(i, sid) == IF sid = 0 THEN prepared[i].body ELSE prepared[i].h2.body
Response == Rendering(route, Request.sid)

\* A message arrives on a connection the fast path may answer on.
Arrive ==
    /\ stage = "attached" /\ pc = "idle"
    /\ \E m \in Messages :
          /\ requests' = m.requests
          /\ msg' = Arrived(m.requests)
          /\ flow_ctl' = [conn_window |-> m.conn_window,
                          stream_window |-> m.stream_window, unreported |-> 0]
    /\ pc' = "run"
    /\ UNCHANGED <<orig_size, route, turn, egress, ingress, behind, kernel>>

\* The slip of looking at the stream's window alone.
RoomOnStream(i, sid) == sid # 0 => flow_ctl.stream_window >= prepared[i].h2.data_len

\* What data_len takes up has to be open in both windows.
Room(i, sid) ==
    sid # 0 => /\ flow_ctl.conn_window >= prepared[i].h2.data_len
               /\ flow_ctl.stream_window >= prepared[i].h2.data_len

\* serve_route goes on with route `i`: it has a rendering, which fits the windows,
\* and all of the request is there.
Servable(i) ==
    /\ requests # <<>> /\ prepared[i].path = Request.path
    /\ Len(Rendering(i, Request.sid)) \in 1 .. MaxRouteBody
    /\ Room(i, Request.sid)
    /\ Request.len <= Len(msg)

Serve(i) ==
    /\ pc = "run" /\ Servable(i)
    /\ pc' = "resize"
    /\ route' = i
    /\ orig_size' = Len(msg) /\ turn' = 0
    /\ behind' = SubSeq(msg, Request.len + 1, Len(msg))
    /\ UNCHANGED <<requests, msg, flow_ctl, egress, ingress, kernel>>

\* The message goes to user space whole.
HandOver ==
    /\ pc' = "handed"
    /\ ingress' = ingress \o msg
    /\ UNCHANGED <<requests, msg, orig_size, route, turn, flow_ctl, egress, behind>>

NotServed ==
    /\ pc = "run" /\ \A i \in DOMAIN prepared : ~Servable(i)
    /\ HandOver
    /\ UNCHANGED kernel

\* A helper fails with the message half rewritten: it is dropped.
Drop ==
    /\ pc' = "dropped" /\ kernel' = TRUE
    /\ UNCHANGED <<requests, msg, orig_size, route, turn, flow_ctl, egress, ingress,
                   behind>>

-----------------------------------------------------------------------------
(* The request makes room for the response *)

Target == orig_size + Len(Response) - Request.len

Growing == pc = "resize" /\ turn < MaxChunks /\ Len(msg) < Target

\* The slip of growing where the message ends.
GrowthAtEnd == Len(msg)

\* A response grows at its end, which is where the request ended.
GrowthAt == Request.len + Len(msg) - orig_size

Grow ==
    LET grow == Least(Target - Len(msg), Chunk) IN
    /\ Growing
    /\ msg' = Pushed(msg, GrowthAt, grow)
    /\ turn' = turn + 1
    /\ UNCHANGED <<pc, requests, orig_size, route, flow_ctl, egress, ingress, behind, kernel>>

\* Only as long as nothing was added is the message still the request.
GrowFailsFirst == Growing /\ turn = 0 /\ HandOver /\ kernel' = TRUE
GrowFailsLater == Growing /\ turn # 0 /\ Drop

Shrinking == pc = "resize" /\ Len(msg) > Target

Shrink ==
    LET n == Request.len - Len(Response) IN
    /\ Shrinking
    /\ msg' = Popped(msg, Len(Response), n)
    /\ UNCHANGED <<pc, requests, orig_size, route, turn, flow_ctl, egress, ingress, behind,
                   kernel>>

ShrinkFails == Shrinking /\ HandOver /\ kernel' = TRUE

\* The loop is over: it has got to the size of the response or ran out of turns.
Resized ==
    /\ pc = "resize" /\ ~Growing /\ ~Shrinking
    /\ pc' = IF Len(msg) = Target THEN "copy" ELSE "dropped"
    /\ turn' = 0
    /\ UNCHANGED <<requests, msg, orig_size, route, flow_ctl, egress, ingress, behind,
                   kernel>>

-----------------------------------------------------------------------------
(* The response takes the place of the request *)

\* copy_chunk: as many blocks as there are, and what they leave.
CopiedLen(n) ==
    LET done == Least(n \div CopyBlock, Chunk \div CopyBlock) * CopyBlock
    IN  done + Least(CopyBlock, n - done)

BodyOff == IF Request.sid = 0 THEN prepared[route].body_off ELSE prepared[route].h2.off

Offset == turn * Chunk
Copying == pc = "copy" /\ turn < MaxChunks /\ Offset < Len(Response)
WindowLen == Least(Len(Response) - Offset, Chunk)

CopyChunk ==
    /\ Copying
    /\ msg' = [k \in DOMAIN msg |->
                  IF Offset < k /\ k <= Offset + CopiedLen(WindowLen)
                  THEN arena[BodyOff + k - 1] ELSE msg[k]]
    /\ turn' = turn + 1
    /\ UNCHANGED <<pc, requests, orig_size, route, flow_ctl, egress, ingress, behind, kernel>>

CopyFails == Copying /\ Drop

CopyEnds ==
    /\ pc = "copy" /\ ~Copying
    /\ pc' = IF Request.sid = 0 THEN "redirect" ELSE "patch"
    /\ turn' = 0
    /\ UNCHANGED <<requests, msg, orig_size, route, flow_ctl, egress, ingress, behind,
                   kernel>>

SidOffs == prepared[route].h2.sid_offs

\* The bytes with the request's stream id written at `at`.
Patched(bytes, at) ==
    [k \in DOMAIN bytes |->
        IF at < k /\ k <= at + SidLen THEN Byte("sid", "none", Request.sid) ELSE bytes[k]]

Patching == pc = "patch" /\ turn < MaxSidOffs /\ turn < Len(SidOffs)

\* write_sid, which refuses an offset past any response.
WriteSid ==
    LET at == SidOffs[turn + 1] IN
    /\ Patching
    /\ IF at + SidLen > MaxRouteBody
       THEN pc' = "dropped" /\ msg' = msg
       ELSE pc' = pc /\ msg' = Patched(msg, at)
    /\ turn' = turn + 1
    /\ UNCHANGED <<requests, orig_size, route, flow_ctl, egress, ingress, behind, kernel>>

WriteSidFails == Patching /\ Drop

PatchEnds ==
    /\ pc = "patch" /\ ~Patching
    /\ pc' = "redirect"
    /\ UNCHANGED <<requests, msg, orig_size, route, turn, flow_ctl, egress, ingress,
                   behind, kernel>>

\* What an answer takes out of the windows; HTTP/1.1 has none.
Spend(fc) ==
    LET n == IF Request.sid = 0 THEN 0 ELSE prepared[route].h2.data_len IN
    [fc EXCEPT !.conn_window = @ - n, !.unreported = @ + n]

\* The response goes to the client, and what follows the request runs again.
Redirect ==
    LET n == Len(Response) IN
    /\ pc = "redirect"
    /\ egress' = Append(egress, SubSeq(msg, 1, n))
    /\ msg' = SubSeq(msg, n + 1, Len(msg))
    /\ flow_ctl' = Spend(flow_ctl)
    /\ requests' = Tail(requests)
    /\ pc' = IF msg' = <<>> THEN "answered" ELSE "run"
    /\ UNCHANGED <<orig_size, route, turn, ingress, behind, kernel>>

RedirectFails == pc = "redirect" /\ Drop

-----------------------------------------------------------------------------
Init ==
    /\ RoutesInit
    /\ pc = "idle" /\ requests = <<>>
    /\ msg = <<>> /\ orig_size = 0
    /\ route = 0 /\ turn = 0
    /\ flow_ctl = [conn_window |-> 0, stream_window |-> 0, unreported |-> 0]
    /\ egress = <<>> /\ ingress = <<>> /\ behind = <<>>
    /\ kernel = FALSE

Helpers ==
    \/ GrowFailsFirst \/ GrowFailsLater \/ ShrinkFails \/ CopyFails \/ WriteSidFails
    \/ RedirectFails

Run ==
    \/ Arrive \/ NotServed \/ Grow \/ Shrink \/ Resized
    \/ CopyChunk \/ CopyEnds \/ WriteSid \/ PatchEnds \/ Redirect \/ Helpers
    \/ \E i \in DOMAIN prepared : Serve(i)

Next == (RoutesNext /\ UNCHANGED runVars) \/ (Run /\ UNCHANGED routeVars)

Spec == Init /\ [][Next]_vars

-----------------------------------------------------------------------------
(* What a client makes of what it is sent *)

\* The frames from offset `o` on, up to what is none.
Frames(bytes) ==
    LET from[o \in Nat] ==
          IF o = Len(bytes) THEN <<>>
          ELSE LET header == o + SidAt + SidLen
                   size == bytes[o + 1].n
               IN  IF \/ header > Len(bytes) \/ bytes[o + 1].is \notin {"headers", "data"}
                      \/ header + size > Len(bytes)
                      \/ \E k \in o + 2 .. header :
                            bytes[k] # FrameHeader(bytes[o + 1].is, bytes[o + 1].of, size,
                                                   bytes[header].n)[k - o]
                   THEN <<[kind |-> "none"]>>
                   ELSE <<[kind |-> bytes[o + 1].is, flags |-> bytes[o + 1].of,
                           sid |-> bytes[header].n,
                           payload |-> SubSeq(bytes, header + 1, header + size)]>>
                        \o from[header + size]
    IN  from[0]

\* The response in a run of bytes, if it is a whole one and nothing else: either
\* HTTP/1.1 headers and as much body as they say, or HTTP/2 frames of one stream, of
\* which the last ends it.
Understood(bytes) ==
    LET first == bytes[1]
        fs == Frames(bytes)
        last == fs[Len(fs)]
        data == FlattenSeq([k \in 1 .. Len(fs) - 1 |-> fs[k + 1].payload])
        hpack == fs[1].payload[1]
    IN  CASE first.is = "head" /\ bytes = Http1(first.of, first.n) ->
                [path |-> first.of, sid |-> 0, size |-> first.n]
          [] /\ first.is = "headers" /\ Len(fs) > 1 /\ last.kind = "data"
             /\ \A k \in DOMAIN fs :
                   /\ fs[k].kind = (IF k = 1 THEN "headers" ELSE "data")
                   /\ fs[k].sid = last.sid
                   /\ k > 1 => Len(fs[k].payload) <= MaxFrameSize
                   /\ fs[k].flags = CASE k = 1 -> "end_headers"
                                      [] k = Len(fs) -> "end_stream"
                                      [] OTHER -> "none"
             /\ data = Body(hpack.of, 0, hpack.n) ->
                [path |-> hpack.of, sid |-> last.sid, size |-> hpack.n]
          [] OTHER -> [path |-> "none", sid |-> 0, size |-> 0]

\* The bytes of a response on stream `sid`.
Addressed(bytes, sid) ==
    [k \in DOMAIN bytes |->
        IF sid # 0 /\ bytes[k].is = "sid" THEN Byte("sid", "none", sid) ELSE bytes[k]]

Promise == INSTANCE Reply WITH
    versions <- [p \in DOMAIN files |-> ToSet(files[p])],
    asked <- [k \in DOMAIN requests |->
                [path |-> requests[k].path, sid |-> requests[k].sid,
                 bytes |-> RequestBytes(requests[k], Len(egress) + k)]],
    window <- flow_ctl.conn_window,
    stream <- flow_ctl.stream_window,
    answers <- [k \in DOMAIN egress |-> Understood(egress[k])],
    passed <- ingress,
    fate <- CASE pc = "handed" -> "passed" [] pc = "dropped" -> "dropped" [] OTHER -> "open"

-----------------------------------------------------------------------------
\* The lengths, offsets and windows serve_route and attach compute with never become
\* negative, the window an answer is taken out of in particular, and the loops stay
\* within their turns.
TypeOK ==
    /\ stage \in {"next", "http2", "data", "place", "load", "attached", "failed"}
    /\ arena_len \in Nat /\ left \in Nat /\ loaded \in 0 .. Len(prepared)
    /\ pc \in {"idle", "run", "resize", "copy", "patch", "redirect", "answered", "handed",
               "dropped"}
    /\ requests \in Seq([path : Paths, sid : Nat, len : Nat \ {0}, arrived : Nat])
    /\ route \in 0 .. Len(prepared) /\ orig_size \in Nat
    /\ turn \in 0 .. MaxChunks \/ turn \in 0 .. MaxSidOffs
    /\ flow_ctl.conn_window \in Nat /\ flow_ctl.stream_window \in Nat
    /\ flow_ctl.unreported \in Nat
    /\ kernel \in BOOLEAN

\* The renderings are where the program is told they are, apart from each other and
\* within the pages of the arena, once they are all copied.
ArenaHolds ==
    stage = "attached" =>
        \A i \in DOMAIN prepared :
            \A sid \in {0, 1} :
                LET off == IF sid = 0 THEN prepared[i].body_off ELSE prepared[i].h2.off IN
                \A k \in DOMAIN Rendering(i, sid) :
                    /\ off + k - 1 \in DOMAIN arena
                    /\ arena[off + k - 1] = Rendering(i, sid)[k]

\* When the message is redirected it is the route's rendering with the request's
\* stream id in all of its frames, in front of what followed the request.
RewritesWhole ==
    pc = "redirect" =>
        LET n == Len(Response) IN
        /\ Len(msg) = n + Len(behind)
        /\ \A k \in 1 .. n : msg[k] = Addressed(Response, Request.sid)[k]
        /\ \A k \in DOMAIN behind : msg[n + k] = behind[k]

\* Unless a helper of the kernel fails, no message is dropped: the loops that rewrite
\* it have turns enough for every response that was prepared.
DropsNone == pc = "dropped" => kernel

\* And a request only goes to user space if it is not complete, if none of the
\* renderings is of what it asks for, or if the file is larger than what one of the
\* windows has open.
AnswersWhatItCan ==
    /\ DropsNone
    /\ pc = "handed" /\ ~kernel =>
          \A i \in DOMAIN prepared :
              \/ prepared[i].path # Request.path
              \/ Request.arrived < Request.len
              \/ Request.sid # 0 /\
                    \/ prepared[i].h2 = NoHttp2
                    \/ LET size == Last(files[Request.path]) IN
                       size > flow_ctl.conn_window \/ size > flow_ctl.stream_window

\* A client makes of what it is sent the responses to its requests, in their order
\* and on their streams, which fit the windows; the rest goes to user space
\* untouched or the message is dropped.
ImplementsReply == Promise!Spec
=============================================================================
