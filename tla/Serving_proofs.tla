---------------------------- MODULE Serving_proofs ----------------------------
(***************************************************************************)
(* Whatever is prepared and whatever arrives, the request in front of a    *)
(* message is turned into exactly the response, and what follows it stays; *)
(* and a client that reads the bytes it is sent finds in them the response *)
(* to each of its requests, so that Serving implements Reply.              *)
(***************************************************************************)
EXTENDS Serving, Routes_proofs

HttpRequest == [path : Paths, sid : Nat, len : Nat \ {0}, arrived : Nat]

-----------------------------------------------------------------------------
(* What the helpers do to a message *)

\* What is left of a message behind its first `n` bytes.
LEMMA LeftFacts ==
    ASSUME NEW bytes \in Seq(Cell), NEW n \in 0 .. Len(bytes)
    PROVE  /\ SubSeq(bytes, n + 1, Len(bytes)) \in Seq(Cell)
           /\ Len(SubSeq(bytes, n + 1, Len(bytes))) = Len(bytes) - n
  <1>1. PICK l \in Nat : l = Len(bytes)  BY CellFacts
  <1>2. \A k \in n + 1 .. l : bytes[k] \in Cell  BY <1>1, CellFacts
  <1>3. n + 1 \in Int /\ l \in Int  BY <1>1
  <1>4. /\ SubSeq(bytes, n + 1, l) \in Seq(Cell)
        /\ Len(SubSeq(bytes, n + 1, l)) = IF n + 1 <= l THEN l - (n + 1) + 1 ELSE 0
    BY <1>2, <1>3, SubSeqProperties
  <1>5. (IF n + 1 <= l THEN l - (n + 1) + 1 ELSE 0) = l - n  BY <1>1
  <1> QED  BY <1>1, <1>4, <1>5

\* What ends a message.
EndsWith(bytes, end) ==
    /\ Len(end) <= Len(bytes)
    /\ \A k \in 1 .. Len(end) : bytes[Len(bytes) - Len(end) + k] = end[k]

\* Room made in front of the end of a message keeps the end.
LEMMA PushedFacts ==
    ASSUME NEW bytes \in Seq(Cell), NEW end \in Seq(Cell), EndsWith(bytes, end), NEW n \in Nat
    PROVE  LET new == Pushed(bytes, Len(bytes) - Len(end), n) IN
           new \in Seq(Cell) /\ Len(new) = Len(bytes) + n /\ EndsWith(new, end)
  <1> DEFINE L == Len(bytes)
             B == Len(end)
             at == L - B
             new == Pushed(bytes, at, n)
  <1>1. /\ L \in Nat /\ B \in Nat /\ B <= L /\ \A k \in 1 .. L : bytes[k] \in Cell
        /\ \A k \in 1 .. B : bytes[L - B + k] = end[k]
    BY CellFacts DEF EndsWith
  <1>2. Unset \in Cell  BY ByteType DEF Unset, Kinds, Flags
  <1>3. new = [k \in 1 .. L + n |->
                  IF k <= at THEN bytes[k] ELSE IF k <= at + n THEN Unset ELSE bytes[k - n]]
    BY DEF Pushed
  <1>4. at = L - B /\ at \in Nat  BY <1>1
  <1> HIDE DEF L, B, new, at
  <1>5. ASSUME NEW k \in 1 .. L + n  PROVE new[k] \in Cell
    <2>1. CASE k <= at
      <3>1. k \in 1 .. L  BY <2>1, <1>1, <1>4
      <3> QED  BY <3>1, <2>1, <1>1, <1>3
    <2>2. CASE k > at /\ k <= at + n
      <3>1. ~(k <= at)  BY <2>2, <1>4
      <3> QED  BY <3>1, <2>2, <1>2, <1>3
    <2>3. CASE k > at + n
      <3>1. k - n \in 1 .. L /\ ~(k <= at) /\ ~(k <= at + n)  BY <2>3, <1>1, <1>4
      <3> QED  BY <3>1, <2>3, <1>1, <1>3
    <2> QED  BY <2>1, <2>2, <2>3, <1>4
  <1>6. new \in Seq(Cell) /\ Len(new) = L + n  BY <1>1, <1>3, <1>5, CellSeq
  <1>7. ASSUME NEW k \in 1 .. B  PROVE new[(L + n) - B + k] = end[k]
    <2> DEFINE x == (L + n) - B + k
    <2>1. /\ x \in 1 .. L + n /\ ~(x <= at) /\ ~(x <= at + n)
          /\ x - n = L - B + k
      BY <1>1, <1>4
    <2> HIDE DEF x
    <2>2. new[x] = bytes[x - n]  BY <2>1, <1>3
    <2>3. new[x] = end[k]  BY <2>1, <2>2, <1>1
    <2> QED  BY <2>3 DEF x
  <1>8. B <= L + n  BY <1>1
  <1>9. B <= Len(new) /\ \A k \in 1 .. B : new[Len(new) - B + k] = end[k]
    <2>1. Len(new) = L + n  BY <1>6
    <2> HIDE DEF B
    <2> QED  BY <2>1, <1>7, <1>8
  <1>10. EndsWith(new, end)  BY <1>9 DEF EndsWith, B
  <1> QED  BY <1>6, <1>10 DEF L, B, new, at

\* As does what is taken out of the rest.
LEMMA PoppedFacts ==
    ASSUME NEW bytes \in Seq(Cell), NEW end \in Seq(Cell), EndsWith(bytes, end),
           NEW at \in Nat, NEW n \in Nat, at + n = Len(bytes) - Len(end)
    PROVE  LET new == Popped(bytes, at, n) IN
           new \in Seq(Cell) /\ Len(new) = Len(bytes) - n /\ EndsWith(new, end)
  <1> DEFINE L == Len(bytes)
             B == Len(end)
             new == Popped(bytes, at, n)
  <1>1. /\ L \in Nat /\ B \in Nat /\ B <= L /\ \A k \in 1 .. L : bytes[k] \in Cell
        /\ \A k \in 1 .. B : bytes[L - B + k] = end[k]
        /\ at + n = L - B
    BY CellFacts DEF EndsWith
  <1>2. new = [k \in 1 .. L - n |-> IF k <= at THEN bytes[k] ELSE bytes[k + n]]
    BY DEF Popped
  <1> HIDE DEF L, B, new
  <1>3. L - n \in Nat  BY <1>1
  <1>4. ASSUME NEW k \in 1 .. L - n  PROVE new[k] \in Cell
    <2>1. k \in 1 .. L /\ k + n \in 1 .. L  BY <1>1
    <2> QED  BY <2>1, <1>1, <1>2
  <1>5. new \in Seq(Cell) /\ Len(new) = L - n  BY <1>2, <1>3, <1>4, CellSeq
  <1>6. ASSUME NEW k \in 1 .. B  PROVE new[L - n - B + k] = end[k]
    <2>1. /\ L - n - B + k \in 1 .. L - n /\ ~(L - n - B + k <= at)
          /\ L - n - B + k + n = L - B + k
      BY <1>1
    <2>2. new[L - n - B + k] = bytes[L - B + k]  BY <2>1, <1>2
    <2> QED  BY <2>2, <1>1
  <1>7. EndsWith(new, end)  BY <1>1, <1>5, <1>6 DEF EndsWith, B
  <1> QED  BY <1>5, <1>7 DEF L, B, new

\* What is written in front of the end keeps it.
LEMMA WrittenFacts ==
    ASSUME NEW bytes \in Seq(Cell), NEW end \in Seq(Cell), EndsWith(bytes, end),
           NEW new, new \in [1 .. Len(bytes) -> Cell],
           \A k \in 1 .. Len(bytes) : k > Len(bytes) - Len(end) => new[k] = bytes[k]
    PROVE  new \in Seq(Cell) /\ Len(new) = Len(bytes) /\ EndsWith(new, end)
  <1> DEFINE L == Len(bytes)
             B == Len(end)
  <1>1. /\ L \in Nat /\ B \in Nat /\ B <= L
        /\ \A k \in 1 .. B : bytes[L - B + k] = end[k]
    BY CellFacts DEF EndsWith
  <1>2. new \in Seq(Cell) /\ Len(new) = L  BY <1>1, CellSeq
  <1>3. ASSUME NEW k \in 1 .. B  PROVE new[L - B + k] = end[k]
    <2> HIDE DEF L, B
    <2>1. L - B + k \in 1 .. L /\ L - B + k > L - B  BY <1>1
    <2>2. new[L - B + k] = bytes[L - B + k]  BY <2>1 DEF L, B
    <2> QED  BY <2>2, <1>1
  <1> QED  BY <1>1, <1>2, <1>3 DEF EndsWith

\* copy_chunk copies all of a chunk, whatever its length.
LEMMA CopiedLenFacts ==
    ASSUME NEW n \in Nat, n <= Chunk
    PROVE  CopiedLen(n) = n
  <1> DEFINE q == n \div CopyBlock
             w == Chunk \div CopyBlock
  <1>1. CopyBlock \in Nat /\ CopyBlock > 0 /\ Chunk \in Nat
    BY ServingAssumption, RoutesAssumption
  <1>2. q \in Nat /\ w \in Nat /\ q <= w  BY <1>1, Z3
  <1>3. q * CopyBlock <= n /\ n - q * CopyBlock < CopyBlock /\ q * CopyBlock \in Nat
    BY <1>1, Z3
  <1>4. Least(q, w) = q  BY <1>2 DEF Least
  <1> DEFINE d == q * CopyBlock
  <1>5. d \in Nat /\ d <= n /\ n - d < CopyBlock  BY <1>3
  <1>6. CopiedLen(n) = d + Least(CopyBlock, n - d)  BY <1>4 DEF CopiedLen
  <1> HIDE DEF d
  <1>7. Least(CopyBlock, n - d) = n - d  BY <1>1, <1>5 DEF Least
  <1> QED  BY <1>5, <1>6, <1>7

\* One more chunk.
LEMMA NextChunk ==
    ASSUME NEW t \in Nat
    PROVE  t * Chunk \in Nat /\ (t + 1) * Chunk = t * Chunk + Chunk
  <1>1. Chunk \in Nat  BY RoutesAssumption
  <1> QED  BY <1>1, Z3

\* There are turns enough for the largest response.
LEMMA TurnsReach ==
    ASSUME NEW t \in Nat, t >= MaxChunks
    PROVE  t * Chunk >= MaxRouteBody
  <1>1. Chunk \in Nat /\ MaxChunks \in Nat  BY RoutesAssumption
  <1> QED  BY <1>1, Z3 DEF MaxRouteBody

-----------------------------------------------------------------------------
(* The invariant of a message *)

RunType ==
    /\ pc \in {"idle", "run", "resize", "copy", "patch", "redirect", "answered", "handed",
               "dropped"}
    /\ requests \in Seq(HttpRequest)
    /\ msg \in Seq(Cell) /\ behind \in Seq(Cell)
    /\ orig_size \in Nat /\ route \in 0 .. Len(prepared)
    /\ turn \in Nat /\ (turn \in 0 .. MaxChunks \/ turn \in 0 .. MaxSidOffs)
    /\ flow_ctl \in [conn_window : Nat, stream_window : Nat, unreported : Nat]
    /\ kernel \in BOOLEAN

\* Requests come when the routes are there.
Ready ==
    /\ pc # "idle" => stage = "attached"
    /\ pc = "idle" => route = 0

\* While a request is served the message ends with what followed it, and the window
\* has what the answer will take out of it.
InHand ==
    pc \in {"resize", "copy", "patch", "redirect"} =>
        /\ requests # <<>> /\ route \in 1 .. Len(prepared)
        /\ Request.sid # 0 => prepared[route].h2.data_len <= flow_ctl.conn_window
        /\ orig_size = Request.len + Len(behind)
        /\ EndsWith(msg, behind)

\* The message is not resized past the response, and gets a chunk nearer in each turn.
Resizing ==
    pc = "resize" =>
        /\ turn <= MaxChunks
        /\ Len(msg) <= Target \/ Len(msg) = orig_size
        /\ Len(msg) >= Target \/ Len(msg) >= Len(behind) + turn * Chunk

\* There is room for the response exactly.
Sized == Len(msg) = Len(Response) + Len(behind)

\* A chunk of the response is in place for each turn.
CopiedSoFar ==
    pc = "copy" =>
        /\ turn <= MaxChunks /\ Sized
        /\ \A k \in 1 .. Len(Response) : k <= turn * Chunk => msg[k] = Response[k]

\* The response is, with the stream id at as many offsets as there were turns.
PatchedSoFar ==
    pc = "patch" =>
        /\ turn <= Len(SidOffs) /\ Sized /\ Request.sid # 0
        /\ \A k \in 1 .. Len(Response) :
              msg[k] = IF \E j \in 1 .. turn : SidOffs[j] < k /\ k <= SidOffs[j] + SidLen
                       THEN Byte("sid", "none", Request.sid)
                       ELSE Response[k]

\* It is as it is to go out.
Finished ==
    pc = "redirect" =>
        /\ Sized
        /\ \A k \in 1 .. Len(Response) : msg[k] = Addressed(Response, Request.sid)[k]

RunInv ==
    /\ RunType /\ Ready /\ InHand /\ Resizing /\ CopiedSoFar /\ PatchedSoFar /\ Finished
    /\ DropsNone

Inv == RoutesInv /\ RunInv

-----------------------------------------------------------------------------
(* What is known of the request and of its response *)

\* The request in front, as long as there is one.
LEMMA RequestType ==
    ASSUME RunType, requests # <<>>
    PROVE  /\ Request \in HttpRequest /\ Request.sid \in Nat /\ Request.len \in Nat
           /\ Request.len # 0 /\ Tail(requests) \in Seq(HttpRequest)
  <1>1. requests \in Seq(HttpRequest) /\ requests # <<>>  BY DEF RunType
  <1>2. Head(requests) \in HttpRequest /\ Tail(requests) \in Seq(HttpRequest)
    BY <1>1, HeadTailProperties
  <1> QED  BY <1>2 DEF Request, HttpRequest

\* A rendering that is served is no larger than the loops reach, its stream ids are
\* where the offsets say, and it is in the arena.
LEMMA RenderingFacts ==
    ASSUME RoutesInv, NEW i \in 1 .. Len(prepared), NEW sid \in Nat
    PROVE  LET r == Rendering(i, sid)
               off == IF sid = 0 THEN prepared[i].body_off ELSE prepared[i].h2.off
               offs == prepared[i].h2.sid_offs
           IN  /\ prepared[i] \in PreparedRoute /\ r \in Seq(Cell) /\ Len(r) \in Nat
               /\ Len(r) <= MaxRouteBody
               /\ prepared[i].h2.data_len \in Nat
               /\ offs \in Seq(Nat) /\ Len(offs) <= MaxSidOffs
               /\ sid = 0 => Plain(r)
               /\ sid # 0 => SidsAt(r, offs)
               /\ stage = "attached" => Holds(arena, off, r)
  <1>1. prepared \in Seq(PreparedRoute)  BY DEF RoutesInv, RoutesType
  <1>2. prepared[i] \in PreparedRoute  BY <1>1, ElementOfSeq
  <1>3. /\ prepared[i].body \in Seq(Cell) /\ prepared[i].h2.body \in Seq(Cell)
        /\ prepared[i].h2.sid_offs \in Seq(Nat) /\ prepared[i].h2.data_len \in Nat
    BY <1>2 DEF PreparedRoute, Http2Response
  <1>4. Bounded(prepared[i])  BY DEF RoutesInv, Layout
  <1>5. stage = "attached" =>
            /\ Holds(arena, prepared[i].body_off, prepared[i].body)
            /\ Holds(arena, prepared[i].h2.off, prepared[i].h2.body)
    BY DEF RoutesInv, Filled
  <1>6. CASE sid = 0
    <2>1. Len(prepared[i].body) \in Nat  BY <1>3, LenProperties
    <2> QED  BY <2>1, <1>2, <1>3, <1>4, <1>5, <1>6 DEF Rendering, Bounded
  <1>7. CASE sid # 0
    <2>1. Len(prepared[i].h2.body) \in Nat  BY <1>3, LenProperties
    <2> QED  BY <2>1, <1>2, <1>3, <1>4, <1>5, <1>7 DEF Rendering, Bounded
  <1> QED  BY <1>6, <1>7

\* The request at hand and its response.
LEMMA InHandFacts ==
    ASSUME Inv, pc \in {"resize", "copy", "patch", "redirect"}
    PROVE  /\ requests # <<>> /\ Request.sid \in Nat /\ Request.len \in Nat
           /\ route \in 1 .. Len(prepared) /\ stage = "attached"
           /\ Response \in Seq(Cell) /\ Len(Response) \in Nat
           /\ Len(Response) <= MaxRouteBody
           /\ \A k \in 1 .. Len(Response) : Response[k] \in Cell
           /\ Holds(arena, BodyOff, Response)
           /\ SidOffs \in Seq(Nat) /\ Len(SidOffs) <= MaxSidOffs /\ Len(SidOffs) \in Nat
           /\ Request.sid = 0 => Plain(Response)
           /\ Request.sid # 0 => SidsAt(Response, SidOffs)
           /\ Len(msg) \in Nat /\ Len(behind) \in Nat /\ Len(behind) <= Len(msg)
           /\ orig_size = Request.len + Len(behind)
           /\ Target = Len(Response) + Len(behind)
           /\ EndsWith(msg, behind)
  <1>1. /\ RoutesInv /\ RunType /\ stage = "attached"
        /\ requests # <<>> /\ route \in 1 .. Len(prepared)
        /\ orig_size = Request.len + Len(behind) /\ EndsWith(msg, behind)
    BY DEF Inv, RunInv, Ready, InHand
  <1>2. Request.sid \in Nat /\ Request.len \in Nat  BY <1>1, RequestType
  <1>3. /\ Response \in Seq(Cell) /\ Len(Response) \in Nat /\ Len(Response) <= MaxRouteBody
        /\ SidOffs \in Seq(Nat) /\ Len(SidOffs) <= MaxSidOffs
        /\ Request.sid = 0 => Plain(Response)
        /\ Request.sid # 0 => SidsAt(Response, SidOffs)
        /\ Holds(arena, BodyOff, Response)
    BY <1>1, <1>2, RenderingFacts DEF Response, SidOffs, BodyOff
  <1>4. \A k \in 1 .. Len(Response) : Response[k] \in Cell
    BY <1>3, ElementOfSeq
  <1>5. Len(SidOffs) \in Nat  BY <1>3, LenProperties
  <1>6. Len(msg) \in Nat /\ Len(behind) \in Nat  BY <1>1, CellFacts DEF RunType
  <1>7. Len(behind) <= Len(msg)  BY <1>1 DEF EndsWith
  <1>8. Target = Len(Response) + Len(behind)
    BY <1>1, <1>2, <1>3, <1>6 DEF Target
  <1> QED  BY <1>1, <1>2, <1>3, <1>4, <1>5, <1>6, <1>7, <1>8

-----------------------------------------------------------------------------
(* Its steps *)

\* How much of a message is left from each of the requests in it on.
Left(rs, t) ==
    /\ t \in [1 .. Len(rs) + 1 -> Nat] /\ t[Len(rs) + 1] = 0
    /\ \A k \in 1 .. Len(rs) : t[k] = rs[k].arrived + t[k + 1]

\* What has arrived of them is `n` bytes.
Fill(rs, n) == \E t : Left(rs, t) /\ t[1] = n

\* A message is as many bytes as have arrived of its requests.
LEMMA ArrivedFacts ==
    ASSUME NEW m \in Messages
    PROVE  /\ Arrived(m.requests) \in Seq(Cell)
           /\ Fill(m.requests, Len(Arrived(m.requests)))
  <1>1. PICK rs \in Seq(HttpRequest) : rs = m.requests
    BY ServingAssumption DEF HttpRequest
  <1>2. PICK l \in Nat : l = Len(rs)  BY <1>1, LenProperties
  <1>3. PICK fs : fs = [n \in 1 .. l |-> RequestBytes(rs[n], n)]  OBVIOUS
  <1>4. DOMAIN rs = 1 .. l  BY <1>1, <1>2, LenProperties
  <1>5. Arrived(m.requests) = FlattenSeq(fs)  BY <1>1, <1>3, <1>4 DEF Arrived
  <1>6. ASSUME NEW n \in 1 .. l
        PROVE  fs[n] \in Seq(Cell) /\ Len(fs[n]) = rs[n].arrived
    <2>1. rs[n] \in HttpRequest  BY <1>1, <1>2, ElementOfSeq
    <2>2. PICK a \in Nat : a = rs[n].arrived  BY <2>1 DEF HttpRequest
    <2>3. rs[n].path \in Paths /\ n \in Nat  BY <2>1 DEF HttpRequest
    <2>4. Byte("request", rs[n].path, n) \in Cell  BY <2>3, ByteType DEF Kinds
    <2>5. fs[n] = [k \in 1 .. a |-> Byte("request", rs[n].path, n)]
      BY <1>3, <2>2 DEF RequestBytes
    <2>6. fs[n] \in [1 .. a -> Cell]  BY <2>4, <2>5
    <2> QED  BY <2>2, <2>6, CellSeq
  <1>7. fs \in Seq(Seq(Cell)) /\ Len(fs) = l
    <2>1. fs \in [1 .. l -> Seq(Cell)]  BY <1>3, <1>6
    <2> QED  BY <2>1, <1>2, FunSeq
  <1>8. Arrived(m.requests) \in Seq(Cell)  BY <1>5, <1>7, FlattenType
  <1>9. PICK t \in [1 .. l + 1 -> Nat] : Lengths(fs, t) /\ t[1] = Len(FlattenSeq(fs))
    BY <1>7, FlattenLengths
  <1>10. t[l + 1] = 0 /\ \A k \in 1 .. l : t[k] = Len(fs[k]) + t[k + 1]
    BY <1>7, <1>9 DEF Lengths
  <1>11. \A k \in 1 .. l : t[k] = rs[k].arrived + t[k + 1]  BY <1>6, <1>10
  <1>12. Left(rs, t)  BY <1>2, <1>9, <1>10, <1>11 DEF Left
  <1>13. Fill(rs, Len(FlattenSeq(fs)))  BY <1>9, <1>12 DEF Fill
  <1> QED  BY <1>1, <1>5, <1>8, <1>13

\* A message arrives.
LEMMA ArriveInv ==
    ASSUME Inv, Arrive, UNCHANGED routeVars
    PROVE  RunInv'
  <1>1. /\ stage = "attached" /\ pc' = "run" /\ stage' = stage /\ prepared' = prepared
        /\ UNCHANGED <<orig_size, route, turn, egress, ingress, behind, kernel>>
    BY DEF Arrive, routeVars
  <1>2. PICK m \in Messages :
            /\ requests' = m.requests /\ msg' = Arrived(m.requests)
            /\ flow_ctl' = [conn_window |-> m.conn_window,
                            stream_window |-> m.stream_window, unreported |-> 0]
    BY DEF Arrive
  <1>3. /\ m.requests \in Seq(HttpRequest)
        /\ m.conn_window \in Nat /\ m.stream_window \in Nat
    BY ServingAssumption DEF HttpRequest
  <1>4. msg' \in Seq(Cell)  BY <1>2, ArrivedFacts
  <1>5. RunType'  BY <1>1, <1>2, <1>3, <1>4 DEF Inv, RunInv, RunType
  <1>6. Ready' /\ InHand' /\ Resizing' /\ CopiedSoFar' /\ PatchedSoFar' /\ Finished'
    BY <1>1 DEF Ready, InHand, Resizing, CopiedSoFar, PatchedSoFar, Finished
  <1>7. DropsNone'  BY <1>1 DEF DropsNone
  <1> QED  BY <1>5, <1>6, <1>7 DEF RunInv

\* Nothing more happens to a message that is handed over or dropped.
LEMMA EndInv ==
    ASSUME Inv, UNCHANGED routeVars, pc # "idle", pc' \in {"handed", "dropped"},
           UNCHANGED <<requests, msg, orig_size, route, turn, flow_ctl, behind>>,
           kernel' \in BOOLEAN, DropsNone'
    PROVE  RunInv'
  <1>1. stage' = stage /\ prepared' = prepared  BY DEF routeVars
  <1>2. RunType'  BY <1>1 DEF Inv, RunInv, RunType
  <1>3. Ready'  BY <1>1 DEF Inv, RunInv, Ready
  <1>4. InHand' /\ Resizing' /\ CopiedSoFar' /\ PatchedSoFar' /\ Finished'
    BY DEF InHand, Resizing, CopiedSoFar, PatchedSoFar, Finished
  <1> QED  BY <1>2, <1>3, <1>4 DEF RunInv

\* It is passed on or dropped, as a helper's failure has it.
LEMMA HelpersInv ==
    ASSUME Inv, Helpers \/ NotServed, UNCHANGED routeVars
    PROVE  RunInv'
  <1>1. /\ pc # "idle" /\ pc' \in {"handed", "dropped"}
        /\ UNCHANGED <<requests, msg, orig_size, route, turn, flow_ctl, behind>>
    BY DEF Helpers, NotServed, GrowFailsFirst, GrowFailsLater, ShrinkFails, CopyFails,
           WriteSidFails, RedirectFails, HandOver, Drop, Growing, Shrinking, Copying,
           Patching
  <1>2. kernel \in BOOLEAN  BY DEF Inv, RunInv, RunType
  <1>3. kernel' = TRUE \/ (kernel' = kernel /\ pc' = "handed")
    BY DEF Helpers, NotServed, GrowFailsFirst, GrowFailsLater, ShrinkFails, CopyFails,
           WriteSidFails, RedirectFails, HandOver, Drop
  <1>4. kernel' \in BOOLEAN /\ DropsNone'  BY <1>2, <1>3 DEF DropsNone
  <1> QED  BY <1>1, <1>4, EndInv

\* serve_route begins.
LEMMA ServeInv ==
    ASSUME Inv, NEW i \in DOMAIN prepared, Serve(i), UNCHANGED routeVars
    PROVE  RunInv'
  <1> DEFINE q == Request.len
             L == Len(msg)
  <1>1. /\ pc = "run" /\ pc' = "resize" /\ route' = i /\ orig_size' = L /\ turn' = 0
        /\ behind' = SubSeq(msg, q + 1, L)
        /\ UNCHANGED <<requests, msg, flow_ctl, egress, ingress, kernel>>
        /\ requests # <<>> /\ Room(i, Request.sid) /\ q <= L
    BY DEF Serve, Servable
  <1>2. prepared' = prepared /\ stage' = stage  BY DEF routeVars
  <1>3. /\ RunType /\ stage = "attached" /\ RoutesInv /\ msg \in Seq(Cell) /\ L \in Nat
        /\ prepared \in Seq(PreparedRoute)
    BY <1>1, CellFacts DEF Inv, RunInv, RunType, Ready, RoutesInv, RoutesType
  <1>4. q \in Nat /\ Request.sid \in Nat  BY <1>1, <1>3, RequestType
  <1>5. i \in 1 .. Len(prepared) /\ Len(prepared) \in Nat  BY <1>3, LenProperties
  <1> HIDE DEF q, L
  <1>6. /\ behind' \in Seq(Cell) /\ Len(behind') = L - q
        /\ \A k \in 1 .. L - q : behind'[k] = msg[q + k]
    <2> DEFINE e == SubSeq(msg, q + 1, L)
    <2>1. q + 1 \in 1 .. L + 1 /\ L \in q + 1 - 1 .. L  BY <1>1, <1>3, <1>4
    <2>2. e = [k \in 1 .. L - q |-> msg[q + k]]
      <3>1. L - (q + 1) + 1 = L - q /\ \A k \in 1 .. L - q : k + (q + 1) - 1 = q + k
        BY <1>3, <1>4
      <3> QED  BY <3>1, <1>3, <1>4
    <2> HIDE DEF e
    <2>3. L - q \in Nat  BY <1>1, <1>3, <1>4
    <2>4. ASSUME NEW k \in 1 .. L - q  PROVE msg[q + k] \in Cell
      <3>1. q + k \in 1 .. L  BY <1>1, <1>3, <1>4
      <3> QED  BY <3>1, <1>3, CellFacts DEF L
    <2>5. e \in Seq(Cell) /\ Len(e) = L - q  BY <2>2, <2>3, <2>4, CellSeq
    <2> QED  BY <2>2, <2>5, <1>1 DEF e
  <1>7. EndsWith(msg', behind')
    <2>1. L - q <= L  BY <1>1, <1>3, <1>4
    <2>2. L - (L - q) = q  BY <1>3, <1>4
    <2>3. \A k \in 1 .. L - q : msg[L - (L - q) + k] = behind'[k]  BY <2>2, <1>6
    <2>4. msg' = msg /\ Len(msg) = L  BY <1>1 DEF L
    <2> QED  BY <2>1, <2>3, <2>4, <1>6 DEF EndsWith
  <1>8. RunType'
    <2>1. 0 \in 0 .. MaxChunks  BY RoutesAssumption
    <2> QED  BY <2>1, <1>1, <1>2, <1>3, <1>5, <1>6, SMTT(30) DEF RunType
  <1>9. Ready'  BY <1>1, <1>2, <1>3 DEF Ready
  <1>10. Request' = Request  BY <1>1 DEF Request
  <1>11. InHand'
    <2>1. Request.sid # 0 => prepared[i].h2.data_len <= flow_ctl.conn_window
      <3>1. prepared[i].h2.data_len \in Nat  BY <1>3, <1>4, <1>5, RenderingFacts
      <3>2. flow_ctl.conn_window \in Nat  BY <1>3 DEF RunType
      <3> QED  BY <3>1, <3>2, <1>1 DEF Room
    <2>2. orig_size' = q + Len(behind')  BY <1>1, <1>3, <1>4, <1>6
    <2> QED  BY <2>1, <2>2, <1>1, <1>2, <1>5, <1>7, <1>10 DEF InHand, q
  <1>12. Resizing'
    <2>1. Len(msg') = orig_size' /\ turn' <= MaxChunks
      BY <1>1, RoutesAssumption DEF L
    <2>2. Len(msg') >= Len(behind') + turn' * Chunk
      <3>1. turn' * Chunk = 0  BY <1>1, RoutesAssumption
      <3>2. L >= L - q + 0  BY <1>3, <1>4
      <3> QED  BY <3>1, <3>2, <1>1, <1>6 DEF L
    <2> QED  BY <2>1, <2>2 DEF Resizing
  <1>13. CopiedSoFar' /\ PatchedSoFar' /\ Finished' /\ DropsNone'
    BY <1>1 DEF CopiedSoFar, PatchedSoFar, Finished, DropsNone
  <1> QED  BY <1>8, <1>9, <1>11, <1>12, <1>13 DEF RunInv

\* What stays as it is while the request at hand is.
LEMMA InHandKept ==
    ASSUME Inv, UNCHANGED routeVars, pc \in {"resize", "copy", "patch", "redirect"},
           UNCHANGED <<requests, orig_size, route, flow_ctl, behind, kernel>>,
           pc' \in {"resize", "copy", "patch", "redirect"},
           msg' \in Seq(Cell), EndsWith(msg', behind),
           turn' \in Nat, turn' \in 0 .. MaxChunks \/ turn' \in 0 .. MaxSidOffs
    PROVE  /\ RunType' /\ Ready' /\ InHand' /\ DropsNone'
           /\ Response' = Response /\ Request' = Request /\ SidOffs' = SidOffs
           /\ Target' = Target
  <1>1. prepared' = prepared /\ stage' = stage  BY DEF routeVars
  <1>2. Request' = Request  BY DEF Request
  <1>3. Response' = Response /\ SidOffs' = SidOffs
    BY <1>1, <1>2 DEF Response, SidOffs, Rendering
  <1>4. Target' = Target  BY <1>2, <1>3 DEF Target
  <1>5. RunType'  BY <1>1 DEF Inv, RunInv, RunType
  <1>6. Ready'  BY <1>1 DEF Inv, RunInv, Ready
  <1>7. InHand'  BY <1>1, <1>2 DEF Inv, RunInv, InHand
  <1>8. DropsNone'  BY DEF DropsNone
  <1> QED  BY <1>2, <1>3, <1>4, <1>5, <1>6, <1>7, <1>8

\* The message grows by a chunk at most.
LEMMA GrowInv ==
    ASSUME Inv, Grow, UNCHANGED routeVars
    PROVE  RunInv'
  <1> DEFINE L == Len(msg)
             B == Len(behind)
             grow == Least(Target - L, Chunk)
  <1>1. /\ pc = "resize" /\ turn < MaxChunks /\ L < Target
        /\ msg' = Pushed(msg, GrowthAt, grow) /\ turn' = turn + 1
        /\ UNCHANGED <<pc, requests, orig_size, route, flow_ctl, behind, kernel>>
    BY DEF Grow, Growing
  <1>2. /\ L \in Nat /\ B \in Nat /\ Target \in Nat /\ EndsWith(msg, behind)
        /\ orig_size = Request.len + B /\ Request.len \in Nat
    BY <1>1, InHandFacts
  <1>3. msg \in Seq(Cell) /\ behind \in Seq(Cell) /\ turn \in Nat
    BY DEF Inv, RunInv, RunType
  <1>4. Chunk \in Nat /\ MaxChunks \in Nat  BY RoutesAssumption
  <1>5. GrowthAt = L - B  BY <1>2 DEF GrowthAt
  <1>6. grow \in Nat /\ (grow = Target - L \/ grow = Chunk) /\ L + grow <= Target
    BY <1>1, <1>2, <1>4 DEF Least
  <1>7. L >= Target \/ L >= B + turn * Chunk  BY <1>1 DEF Inv, RunInv, Resizing
  <1> HIDE DEF grow
  <1>8. msg' \in Seq(Cell) /\ Len(msg') = L + grow /\ EndsWith(msg', behind)
    BY <1>1, <1>2, <1>3, <1>5, <1>6, PushedFacts
  <1>9. turn' \in 0 .. MaxChunks  BY <1>1, <1>3, <1>4
  <1>10. /\ RunType' /\ Ready' /\ InHand' /\ DropsNone' /\ Target' = Target
    BY <1>1, <1>3, <1>8, <1>9, InHandKept
  <1>11. Resizing'
    <2>1. Len(msg') <= Target'  BY <1>2, <1>6, <1>8, <1>10
    <2>2. Len(msg') >= Target' \/ Len(msg') >= Len(behind') + turn' * Chunk
      <3> DEFINE c == turn * Chunk
      <3>1. c \in Nat /\ turn' * Chunk = c + Chunk  BY <1>1, <1>3, NextChunk
      <3>2. L >= B + c  BY <1>1, <1>2, <1>7
      <3> HIDE DEF c, L, B
      <3>3. L + grow = Target \/ L + grow >= B + (c + Chunk)
        BY <3>1, <3>2, <1>2, <1>4, <1>6
      <3>4. Target' = Target /\ Len(behind') = B  BY <1>1, <1>10 DEF B
      <3> QED  BY <3>1, <3>3, <3>4, <1>2, <1>8
    <2> QED  BY <2>1, <2>2, <1>9 DEF Resizing
  <1>12. CopiedSoFar' /\ PatchedSoFar' /\ Finished'
    BY <1>1 DEF CopiedSoFar, PatchedSoFar, Finished
  <1> QED  BY <1>10, <1>11, <1>12 DEF RunInv

\* It shrinks to the response.
LEMMA ShrinkInv ==
    ASSUME Inv, Shrink, UNCHANGED routeVars
    PROVE  RunInv'
  <1> DEFINE L == Len(msg)
             B == Len(behind)
             n == Len(Response)
             q == Request.len
  <1>1. /\ pc = "resize" /\ L > Target
        /\ msg' = Popped(msg, n, q - n)
        /\ UNCHANGED <<pc, requests, orig_size, route, turn, flow_ctl, behind, kernel>>
    BY DEF Shrink, Shrinking
  <1>2. /\ L \in Nat /\ B \in Nat /\ Target = n + B /\ EndsWith(msg, behind)
        /\ orig_size = q + B /\ q \in Nat /\ n \in Nat
    BY <1>1, InHandFacts
  <1>3. msg \in Seq(Cell) /\ behind \in Seq(Cell)
        /\ turn \in Nat /\ (turn \in 0 .. MaxChunks \/ turn \in 0 .. MaxSidOffs)
    BY DEF Inv, RunInv, RunType
  <1>4. turn <= MaxChunks /\ L = q + B
    BY <1>1, <1>2 DEF Inv, RunInv, Resizing
  <1>5. q - n \in Nat /\ n + (q - n) = L - B  BY <1>1, <1>2, <1>4
  <1>6. msg' \in Seq(Cell) /\ Len(msg') = L - (q - n) /\ EndsWith(msg', behind)
    <2>1. PICK at \in Nat, cut \in Nat : at = n /\ cut = q - n  BY <1>2, <1>5
    <2>2. msg' = Popped(msg, at, cut) /\ at + cut = Len(msg) - Len(behind)
      BY <2>1, <1>1, <1>5
    <2> DEFINE new == Popped(msg, at, cut)
    <2>3. EndsWith(msg, behind)  BY <1>2
    <2> HIDE DEF n, q, L, B
    <2>4. new \in Seq(Cell) /\ Len(new) = Len(msg) - cut /\ EndsWith(new, behind)
      <3> HIDE DEF new
      <3>1. msg \in Seq(Cell) /\ behind \in Seq(Cell)  BY <1>3
      <3>2. at \in Nat /\ cut \in Nat /\ at + cut = Len(msg) - Len(behind)  BY <2>1, <2>2
      <3> QED  BY <3>1, <3>2, <2>3, PoppedFacts DEF new
    <2> QED  BY <2>1, <2>2, <2>4 DEF L
  <1>7. turn' = turn  BY <1>1
  <1>8. /\ RunType' /\ Ready' /\ InHand' /\ DropsNone' /\ Target' = Target
    BY <1>1, <1>3, <1>6, <1>7, InHandKept
  <1>9. Len(msg') = Target  BY <1>2, <1>4, <1>6
  <1>10. Resizing'  BY <1>2, <1>4, <1>7, <1>8, <1>9 DEF Resizing
  <1>11. CopiedSoFar' /\ PatchedSoFar' /\ Finished'
    BY <1>1 DEF CopiedSoFar, PatchedSoFar, Finished
  <1> QED  BY <1>8, <1>10, <1>11 DEF RunInv

\* The loop does not run out of turns.
LEMMA ResizedInv ==
    ASSUME Inv, Resized, UNCHANGED routeVars
    PROVE  RunInv'
  <1> DEFINE L == Len(msg)
             B == Len(behind)
             n == Len(Response)
  <1>1. /\ pc = "resize" /\ (turn >= MaxChunks \/ L >= Target) /\ L <= Target
        /\ pc' = (IF L = Target THEN "copy" ELSE "dropped") /\ turn' = 0
        /\ UNCHANGED <<requests, msg, orig_size, route, flow_ctl, behind, kernel>>
    <2>1. turn \in Nat /\ MaxChunks \in Nat /\ L \in Nat /\ Target \in Nat
      <3>1. pc = "resize"  BY DEF Resized
      <3> QED  BY <3>1, InHandFacts, RoutesAssumption, SMTT(30) DEF Inv, RunInv, RunType
    <2> QED  BY <2>1 DEF Resized, Growing, Shrinking
  <1>2. /\ L \in Nat /\ B \in Nat /\ Target = n + B /\ EndsWith(msg, behind)
        /\ n \in Nat /\ n <= MaxRouteBody
    BY <1>1, InHandFacts
  <1>3. msg \in Seq(Cell) /\ turn \in Nat  BY DEF Inv, RunInv, RunType
  <1>4. L >= Target \/ L >= B + turn * Chunk  BY <1>1 DEF Inv, RunInv, Resizing
  <1>5. L = Target
    <2>1. CASE turn >= MaxChunks
      <3>1. turn * Chunk >= MaxRouteBody /\ turn * Chunk \in Nat
        BY <2>1, <1>3, TurnsReach, NextChunk
      <3> DEFINE c == turn * Chunk
      <3>2. c >= MaxRouteBody /\ c \in Nat /\ (L >= Target \/ L >= B + c)  BY <3>1, <1>4
      <3> HIDE DEF c, L, B, n
      <3> QED  BY <3>2, <1>1, <1>2, MaxRouteBodyType
    <2>2. CASE L >= Target  BY <2>2, <1>1, <1>2
    <2> QED  BY <2>1, <2>2, <1>1
  <1>6. pc' = "copy"  BY <1>1, <1>5
  <1>7. turn' \in 0 .. MaxChunks /\ turn' \in Nat  BY <1>1, RoutesAssumption
  <1>8. /\ RunType' /\ Ready' /\ InHand' /\ DropsNone' /\ Response' = Response
    BY <1>1, <1>2, <1>3, <1>6, <1>7, InHandKept
  <1>9. CopiedSoFar'
    <2>1. Sized'  BY <1>1, <1>2, <1>5, <1>8 DEF Sized
    <2>2. turn' * Chunk = 0 /\ turn' <= MaxChunks  BY <1>1, RoutesAssumption
    <2> QED  BY <2>1, <2>2, <1>2 DEF CopiedSoFar
  <1>10. Resizing' /\ PatchedSoFar' /\ Finished'
    BY <1>6 DEF Resizing, PatchedSoFar, Finished
  <1> QED  BY <1>8, <1>9, <1>10 DEF RunInv

\* A chunk more of the message is the response's.
LEMMA CopyChunkInv ==
    ASSUME Inv, CopyChunk, UNCHANGED routeVars
    PROVE  RunInv'
  <1> DEFINE L == Len(msg)
             B == Len(behind)
             n == Len(Response)
             o == Offset
             w == WindowLen
  <1>1. /\ pc = "copy" /\ turn < MaxChunks /\ o < n /\ turn' = turn + 1
        /\ msg' = [k \in DOMAIN msg |->
                      IF o < k /\ k <= o + CopiedLen(w)
                      THEN arena[BodyOff + k - 1] ELSE msg[k]]
        /\ UNCHANGED <<pc, requests, orig_size, route, flow_ctl, behind, kernel>>
    BY DEF CopyChunk, Copying
  <1>2. /\ L \in Nat /\ B \in Nat /\ n \in Nat /\ EndsWith(msg, behind)
        /\ Holds(arena, BodyOff, Response)
        /\ \A k \in 1 .. n : Response[k] \in Cell
    BY <1>1, InHandFacts
  <1>3. /\ msg \in Seq(Cell) /\ behind \in Seq(Cell) /\ turn \in Nat
        /\ DOMAIN msg = 1 .. L /\ \A k \in 1 .. L : msg[k] \in Cell
    BY CellFacts DEF Inv, RunInv, RunType
  <1>4. Sized /\ \A k \in 1 .. n : k <= o => msg[k] = Response[k]
    BY <1>1 DEF Inv, RunInv, CopiedSoFar, Offset
  <1>5. Chunk \in Nat /\ MaxChunks \in Nat  BY RoutesAssumption
  <1>6. o \in Nat /\ turn' * Chunk = o + Chunk  BY <1>1, <1>3, NextChunk DEF Offset
  <1>7. w \in Nat /\ w <= Chunk /\ o + w <= n /\ (w = Chunk \/ o + w = n)
    BY <1>1, <1>2, <1>5, <1>6 DEF WindowLen, Least
  <1>8. CopiedLen(w) = w  BY <1>7, CopiedLenFacts
  <1> HIDE DEF L, B, n, o, w
  <1>9. L = n + B  BY <1>4 DEF Sized, L, n, B
  <1>10. \A k \in 1 .. n : arena[BodyOff + k - 1] = Response[k]
    BY <1>2 DEF Holds, n
  <1>11. ASSUME NEW k \in 1 .. L
         PROVE  msg'[k] = IF o < k /\ k <= o + w THEN Response[k] ELSE msg[k]
    <2>1. msg'[k] = IF o < k /\ k <= o + w THEN arena[BodyOff + k - 1] ELSE msg[k]
      BY <1>1, <1>3, <1>8
    <2>2. CASE o < k /\ k <= o + w
      <3>1. k \in 1 .. n  BY <2>2, <1>2, <1>6, <1>7
      <3> QED  BY <3>1, <2>1, <2>2, <1>10
    <2> QED  BY <2>1, <2>2
  <1>12. msg' \in [1 .. L -> Cell]
    <2>1. msg' = [k \in 1 .. L |-> msg'[k]]  BY <1>1, <1>3
    <2>2. ASSUME NEW k \in 1 .. L  PROVE msg'[k] \in Cell
      <3>1. CASE o < k /\ k <= o + w
        <4>1. k \in 1 .. n  BY <3>1, <1>2, <1>6, <1>7
        <4> QED  BY <4>1, <3>1, <1>2, <1>11 DEF n
      <3>2. CASE ~(o < k /\ k <= o + w)  BY <3>2, <1>3, <1>11
      <3> QED  BY <3>1, <3>2
    <2> QED  BY <2>1, <2>2
  <1>13. \A k \in 1 .. L : k > L - B => msg'[k] = msg[k]
    BY <1>2, <1>6, <1>7, <1>9, <1>11
  <1>14. msg' \in Seq(Cell) /\ Len(msg') = L /\ EndsWith(msg', behind)
    BY <1>2, <1>3, <1>12, <1>13, WrittenFacts DEF L, B
  <1>15. turn' \in 0 .. MaxChunks /\ turn' \in Nat  BY <1>1, <1>3, <1>5
  <1>16. /\ RunType' /\ Ready' /\ InHand' /\ DropsNone' /\ Response' = Response
    BY <1>1, <1>14, <1>15, InHandKept
  <1>17. CopiedSoFar'
    <2>1. Sized'  BY <1>1, <1>4, <1>14, <1>16 DEF Sized, L
    <2>2. ASSUME NEW k \in 1 .. n, k <= turn' * Chunk  PROVE msg'[k] = Response[k]
      <3>1. k \in 1 .. L  BY <1>2, <1>9
      <3>2. CASE k <= o
        <4>1. ~(o < k)  BY <3>2, <1>6
        <4> QED  BY <4>1, <3>1, <3>2, <1>4, <1>11
      <3>3. CASE o < k
        <4>1. k <= o + w  BY <2>2, <1>2, <1>5, <1>6, <1>7
        <4> QED  BY <4>1, <3>1, <3>3, <1>11
      <3> QED  BY <3>2, <3>3, <1>6
    <2> QED  BY <2>1, <2>2, <1>15, <1>16 DEF CopiedSoFar, n
  <1>18. Resizing' /\ PatchedSoFar' /\ Finished'
    BY <1>1 DEF Resizing, PatchedSoFar, Finished
  <1> QED  BY <1>16, <1>17, <1>18 DEF RunInv

\* All of the response has been copied when the loop ends.
LEMMA CopyEndsInv ==
    ASSUME Inv, CopyEnds, UNCHANGED routeVars
    PROVE  RunInv'
  <1> DEFINE n == Len(Response)
             c == turn * Chunk
  <1>1. /\ pc = "copy" /\ (~(turn < MaxChunks) \/ ~(c < n)) /\ turn' = 0
        /\ pc' = (IF Request.sid = 0 THEN "redirect" ELSE "patch")
        /\ UNCHANGED <<requests, msg, orig_size, route, flow_ctl, behind, kernel>>
    BY DEF CopyEnds, Copying, Offset
  <1>2. /\ n \in Nat /\ n <= MaxRouteBody /\ EndsWith(msg, behind)
        /\ Request.sid = 0 => Plain(Response)
        /\ Response \in Seq(Cell) /\ Len(SidOffs) \in Nat
    BY <1>1, InHandFacts
  <1>3. /\ msg \in Seq(Cell) /\ turn \in Nat  BY DEF Inv, RunInv, RunType
  <1>4. Sized /\ \A k \in 1 .. n : k <= c => msg[k] = Response[k]
    BY <1>1 DEF Inv, RunInv, CopiedSoFar
  <1>5. c \in Nat /\ c >= n
    <2>1. c \in Nat  BY <1>3, NextChunk
    <2>2. CASE turn >= MaxChunks
      <3>1. c >= MaxRouteBody  BY <2>2, <1>3, TurnsReach
      <3> HIDE DEF c, n
      <3> QED  BY <2>1, <3>1, <1>2, MaxRouteBodyType
    <2>3. CASE c >= n  BY <2>1, <2>3
    <2>4. turn >= MaxChunks \/ c >= n
      <3>1. MaxChunks \in Nat  BY RoutesAssumption
      <3> HIDE DEF c, n
      <3> QED  BY <3>1, <2>1, <1>1, <1>2, <1>3
    <2> QED  BY <2>1, <2>2, <2>3, <2>4
  <1>6. \A k \in 1 .. n : msg[k] = Response[k]
    <2> HIDE DEF c, n
    <2> QED  BY <1>2, <1>4, <1>5
  <1>7. turn' \in 0 .. MaxChunks /\ turn' \in Nat  BY <1>1, RoutesAssumption
  <1>8. /\ RunType' /\ Ready' /\ InHand' /\ DropsNone' /\ Response' = Response
        /\ Request' = Request /\ SidOffs' = SidOffs
    BY <1>1, <1>2, <1>3, <1>7, InHandKept
  <1>9. Sized'  BY <1>1, <1>4, <1>8 DEF Sized
  <1>10. PatchedSoFar'
    <2> SUFFICES ASSUME pc' = "patch"
                 PROVE  /\ turn' <= Len(SidOffs') /\ Sized' /\ Request'.sid # 0
                        /\ \A k \in 1 .. n :
                              /\ ~(\E j \in 1 .. turn' : SidOffs'[j] < k /\ k <= SidOffs'[j] + SidLen)
                              /\ msg'[k] = Response'[k]
      BY <1>8 DEF PatchedSoFar
    <2>1. Request.sid # 0  BY <1>1
    <2> QED  BY <2>1, <1>1, <1>2, <1>6, <1>8, <1>9
  <1>11. Finished'
    <2> SUFFICES ASSUME pc' = "redirect", NEW k \in 1 .. n
                 PROVE  msg[k] = Addressed(Response, Request.sid)[k]
      BY <1>1, <1>8, <1>9 DEF Finished
    <2>1. Request.sid = 0  BY <1>1
    <2>2. k \in DOMAIN Response  BY <1>2
    <2>3. Addressed(Response, Request.sid)[k] = Response[k]  BY <2>1, <2>2 DEF Addressed
    <2> QED  BY <2>3, <1>6
  <1>12. Resizing' /\ CopiedSoFar'
    BY <1>1 DEF Resizing, CopiedSoFar
  <1> QED  BY <1>8, <1>10, <1>11, <1>12 DEF RunInv

\* The stream id is written within the response.
LEMMA WriteSidInv ==
    ASSUME Inv, WriteSid, UNCHANGED routeVars
    PROVE  RunInv'
  <1> DEFINE L == Len(msg)
             B == Len(behind)
             n == Len(Response)
             t == turn + 1
             at == SidOffs[t]
             sid == Byte("sid", "none", Request.sid)
  <1>1. /\ pc = "patch" /\ turn < Len(SidOffs) /\ turn < MaxSidOffs /\ turn' = t
        /\ IF at + SidLen > MaxRouteBody
           THEN pc' = "dropped" /\ msg' = msg
           ELSE pc' = pc /\ msg' = Patched(msg, at)
        /\ UNCHANGED <<requests, orig_size, route, flow_ctl, behind, kernel>>
    BY DEF WriteSid, Patching
  <1>2. /\ L \in Nat /\ B \in Nat /\ n \in Nat /\ EndsWith(msg, behind)
        /\ n <= MaxRouteBody /\ Request.sid \in Nat
        /\ \A k \in 1 .. n : Response[k] \in Cell
        /\ SidOffs \in Seq(Nat) /\ Len(SidOffs) \in Nat
        /\ Request.sid # 0 => SidsAt(Response, SidOffs)
    BY <1>1, InHandFacts
  <1>3. /\ msg \in Seq(Cell) /\ behind \in Seq(Cell) /\ turn \in Nat
        /\ DOMAIN msg = 1 .. L /\ \A k \in 1 .. L : msg[k] \in Cell
    BY CellFacts DEF Inv, RunInv, RunType
  <1>4. /\ Sized /\ Request.sid # 0
        /\ \A k \in 1 .. n :
              msg[k] = IF \E j \in 1 .. turn : SidOffs[j] < k /\ k <= SidOffs[j] + SidLen
                       THEN sid ELSE Response[k]
    BY <1>1 DEF Inv, RunInv, PatchedSoFar
  <1>5. t \in 1 .. Len(SidOffs) /\ at \in Nat /\ at + SidLen <= n /\ SidLen \in Nat
    <2>1. t \in 1 .. Len(SidOffs)  BY <1>1, <1>2, <1>3
    <2>2. at \in Nat  BY <2>1, <1>2, ElementOfSeq
    <2>3. at + SidLen <= n  BY <2>1, <1>2, <1>4 DEF SidsAt
    <2> QED  BY <2>1, <2>2, <2>3, RoutesAssumption
  <1>6. L = n + B  BY <1>4 DEF Sized
  <1>7. sid \in Cell  BY <1>2, ByteType DEF Kinds, Flags
  <1> HIDE DEF L, B, n, at, sid
  <1>8. ~(at + SidLen > MaxRouteBody)  BY <1>2, <1>5, MaxRouteBodyType
  <1>9. pc' = "patch" /\ msg' = Patched(msg, at)  BY <1>1, <1>8
  <1>10. msg' = [k \in 1 .. L |-> IF at < k /\ k <= at + SidLen THEN sid ELSE msg[k]]
    BY <1>3, <1>9 DEF Patched, sid
  <1>11. msg' \in [1 .. L -> Cell]  BY <1>3, <1>7, <1>10
  <1>12. ASSUME NEW k \in 1 .. L, k > L - B  PROVE msg'[k] = msg[k]
    <2>1. ~(k <= at + SidLen)  BY <1>2, <1>5, <1>6, <1>12
    <2> QED  BY <2>1, <1>10
  <1>13. msg' \in Seq(Cell) /\ Len(msg') = L /\ EndsWith(msg', behind)
    BY <1>2, <1>3, <1>11, <1>12, WrittenFacts DEF L, B
  <1>14. turn' \in 0 .. MaxSidOffs /\ turn' \in Nat
    BY <1>1, <1>3, RoutesAssumption
  <1>15. /\ RunType' /\ Ready' /\ InHand' /\ DropsNone' /\ Response' = Response
         /\ Request' = Request /\ SidOffs' = SidOffs
    BY <1>1, <1>9, <1>13, <1>14, InHandKept
  <1>16. Sized'  BY <1>1, <1>6, <1>13, <1>15 DEF Sized, n, B
  <1>17. ASSUME NEW k \in 1 .. n
         PROVE  msg'[k] = IF \E j \in 1 .. t : SidOffs[j] < k /\ k <= SidOffs[j] + SidLen
                          THEN sid ELSE Response[k]
    <2>1. k \in 1 .. L  BY <1>2, <1>6
    <2>2. CASE at < k /\ k <= at + SidLen
      <3>1. t \in 1 .. t  BY <1>3
      <3>2. \E j \in 1 .. t : SidOffs[j] < k /\ k <= SidOffs[j] + SidLen
        BY <2>2, <3>1 DEF at
      <3> QED  BY <2>1, <2>2, <3>2, <1>10
    <2>3. CASE ~(at < k /\ k <= at + SidLen)
      <3>1. \A j \in 1 .. t : j \in 1 .. turn \/ j = t  BY <1>3
      <3>2. 1 .. turn \subseteq 1 .. t  BY <1>3
      <3>3. (\E j \in 1 .. t : SidOffs[j] < k /\ k <= SidOffs[j] + SidLen)
                <=> \E j \in 1 .. turn : SidOffs[j] < k /\ k <= SidOffs[j] + SidLen
        BY <2>3, <3>1, <3>2 DEF at
      <3> QED  BY <2>1, <2>3, <3>3, <1>4, <1>10
    <2> QED  BY <2>2, <2>3
  <1>18. PatchedSoFar'
    <2>1. turn' <= Len(SidOffs)  BY <1>1, <1>5
    <2> QED  BY <2>1, <1>1, <1>4, <1>15, <1>16, <1>17 DEF PatchedSoFar, n, sid
  <1>19. Resizing' /\ CopiedSoFar' /\ Finished'
    BY <1>9 DEF Resizing, CopiedSoFar, Finished
  <1> QED  BY <1>15, <1>18, <1>19 DEF RunInv

\* There are turns enough for the offsets, and those are all that have a stream id.
LEMMA PatchEndsInv ==
    ASSUME Inv, PatchEnds, UNCHANGED routeVars
    PROVE  RunInv'
  <1> DEFINE n == Len(Response)
             m == Len(SidOffs)
             sid == Byte("sid", "none", Request.sid)
  <1>1. /\ pc = "patch" /\ pc' = "redirect"
        /\ ~(turn < MaxSidOffs) \/ ~(turn < m)
        /\ UNCHANGED <<requests, msg, orig_size, route, turn, flow_ctl, behind, kernel>>
    BY DEF PatchEnds, Patching
  <1>2. /\ n \in Nat /\ EndsWith(msg, behind)
        /\ m \in Nat /\ m <= MaxSidOffs /\ Response \in Seq(Cell)
        /\ Request.sid # 0 => SidsAt(Response, SidOffs)
    BY <1>1, InHandFacts
  <1>3. /\ msg \in Seq(Cell)
        /\ turn \in Nat /\ (turn \in 0 .. MaxChunks \/ turn \in 0 .. MaxSidOffs)
    BY DEF Inv, RunInv, RunType
  <1>4. /\ turn <= m /\ Sized /\ Request.sid # 0
        /\ \A k \in 1 .. n :
              msg[k] = IF \E j \in 1 .. turn : SidOffs[j] < k /\ k <= SidOffs[j] + SidLen
                       THEN sid ELSE Response[k]
    BY <1>1 DEF Inv, RunInv, PatchedSoFar
  <1>5. turn = m
    <2>1. MaxSidOffs \in Nat  BY RoutesAssumption
    <2> HIDE DEF m
    <2> QED  BY <2>1, <1>1, <1>2, <1>3, <1>4
  <1>6. turn' = turn /\ msg' = msg  BY <1>1
  <1>7. /\ RunType' /\ Ready' /\ InHand' /\ DropsNone' /\ Response' = Response
        /\ Request' = Request
    BY <1>1, <1>2, <1>3, <1>6, InHandKept
  <1>8. Sized'  BY <1>1, <1>4, <1>7 DEF Sized
  <1>9. ASSUME NEW k \in 1 .. n  PROVE msg[k] = Addressed(Response, Request.sid)[k]
    <2>1. Response[k].is = "sid"
              <=> \E j \in 1 .. m : SidOffs[j] < k /\ k <= SidOffs[j] + SidLen
      BY <1>2, <1>4 DEF SidsAt
    <2>2. k \in DOMAIN Response  BY <1>2
    <2>3. Addressed(Response, Request.sid)[k] =
              IF Response[k].is = "sid" THEN sid ELSE Response[k]
      BY <2>2, <1>4 DEF Addressed
    <2> HIDE DEF m, sid
    <2> QED  BY <2>1, <2>3, <1>4, <1>5
  <1>10. Finished'  BY <1>6, <1>7, <1>8, <1>9 DEF Finished
  <1>11. Resizing' /\ CopiedSoFar' /\ PatchedSoFar'
    BY <1>1 DEF Resizing, CopiedSoFar, PatchedSoFar
  <1> QED  BY <1>7, <1>10, <1>11 DEF RunInv

\* The response leaves, and the rest of the message is in front.
LEMMA RedirectInv ==
    ASSUME Inv, Redirect, UNCHANGED routeVars
    PROVE  RunInv'
  <1> DEFINE n == Len(Response)
             L == Len(msg)
             fc == Spend(flow_ctl)
             d == prepared[route].h2.data_len
  <1>1. /\ pc = "redirect" /\ pc' \in {"answered", "run"}
        /\ msg' = SubSeq(msg, n + 1, L)
        /\ flow_ctl' = fc /\ requests' = Tail(requests)
        /\ UNCHANGED <<orig_size, route, turn, behind, kernel>>
    BY DEF Redirect
  <1>2. /\ n \in Nat /\ L \in Nat /\ requests # <<>> /\ Sized
        /\ route \in 1 .. Len(prepared) /\ stage = "attached" /\ Len(behind) \in Nat
        /\ Request.sid \in Nat
    BY <1>1, InHandFacts DEF Inv, RunInv, Finished
  <1>3. RunType /\ RoutesInv  BY DEF Inv, RunInv
  <1>4. Tail(requests) \in Seq(HttpRequest)  BY <1>2, <1>3, RequestType
  <1>5. msg' \in Seq(Cell)
    <2>1. n <= L  BY <1>2 DEF Sized
    <2>2. msg \in Seq(Cell)  BY <1>3 DEF RunType
    <2> HIDE DEF n, L
    <2>3. n + 1 \in 1 .. L + 1 /\ L \in (n + 1) - 1 .. L  BY <2>1, <1>2
    <2>4. SubSeq(msg, n + 1, L) = [k \in 1 .. L - n |-> msg[n + k]]
      <3>1. L - (n + 1) + 1 = L - n /\ \A k \in 1 .. L - n : k + (n + 1) - 1 = n + k
        BY <1>2
      <3> QED  BY <3>1, <1>2
    <2>5. L - n \in Nat  BY <2>1, <1>2
    <2>6. ASSUME NEW k \in 1 .. L - n  PROVE msg[n + k] \in Cell
      <3>1. n + k \in 1 .. L  BY <2>1, <1>2
      <3> QED  BY <3>1, <2>2, CellFacts DEF L
    <2> QED  BY <2>4, <2>5, <2>6, <1>1, CellSeq
  <1>6. fc \in [conn_window : Nat, stream_window : Nat, unreported : Nat]
    <2>1. flow_ctl \in [conn_window : Nat, stream_window : Nat, unreported : Nat]
      BY <1>3 DEF RunType
    <2>2. d \in Nat  BY <1>2, <1>3, RenderingFacts
    <2>3. Request.sid # 0 => d <= flow_ctl.conn_window
      BY <1>1 DEF Inv, RunInv, InHand
    <2> DEFINE x == IF Request.sid = 0 THEN 0 ELSE d
    <2>4. fc = [flow_ctl EXCEPT !.conn_window = @ - x, !.unreported = @ + x]
      BY DEF Spend
    <2>5. x \in Nat /\ x <= flow_ctl.conn_window  BY <2>1, <2>2, <2>3
    <2> HIDE DEF x, fc
    <2>6. flow_ctl.conn_window - x \in Nat /\ flow_ctl.unreported + x \in Nat
      BY <2>1, <2>5
    <2> QED  BY <2>1, <2>4, <2>6
  <1>7. prepared' = prepared /\ stage' = stage  BY DEF routeVars
  <1>8. RunType'  BY <1>1, <1>3, <1>4, <1>5, <1>6, <1>7 DEF RunType
  <1>9. Ready'  BY <1>1, <1>2, <1>7 DEF Ready
  <1>10. InHand' /\ Resizing' /\ CopiedSoFar' /\ PatchedSoFar' /\ Finished' /\ DropsNone'
    BY <1>1 DEF InHand, Resizing, CopiedSoFar, PatchedSoFar, Finished, DropsNone
  <1> QED  BY <1>8, <1>9, <1>10 DEF RunInv

-----------------------------------------------------------------------------
(* What is left of a message *)

\* All requests of a message but the last have arrived completely.
Whole(rs) ==
    \A k \in 1 .. Len(rs) :
        rs[k].arrived <= rs[k].len /\ (k # Len(rs) => rs[k].arrived = rs[k].len)

\* Such requests take up `n` bytes.
Takes(rs, n) == Whole(rs) /\ Fill(rs, n)

\* A message that runs begins with a request; what is behind one in hand is the rest.
Remaining ==
    /\ pc = "run" => requests # <<>> /\ Takes(requests, Len(msg))
    /\ pc \in {"resize", "copy", "patch", "redirect"} => Takes(Tail(requests), Len(behind))

\* If the request in front has not arrived completely, the message is shorter than it.
LEMMA TakesFront ==
    ASSUME NEW rs \in Seq(HttpRequest), rs # <<>>, NEW n \in Nat, Takes(rs, n)
    PROVE  Head(rs).arrived <= n
  <1>1. PICK t : Left(rs, t) /\ t[1] = n  BY DEF Takes, Fill
  <1>2. PICK l \in Nat : l = Len(rs)  BY LenProperties
  <1>3. 1 \in 1 .. l /\ 2 \in 1 .. l + 1  BY <1>2, EmptySeq
  <1>4. rs[1] \in HttpRequest /\ Head(rs) = rs[1]
    BY <1>2, <1>3, ElementOfSeq, HeadTailProperties
  <1>5. t[2] \in Nat /\ t[1] = rs[1].arrived + t[2]
    <2>1. 1 + 1 = 2  OBVIOUS
    <2> QED  BY <2>1, <1>1, <1>2, <1>3 DEF Left
  <1>6. rs[1].arrived \in Nat  BY <1>4 DEF HttpRequest
  <1> QED  BY <1>1, <1>4, <1>5, <1>6

\* And if all of it is there, what is behind it is as long as the other requests.
LEMMA TakesRest ==
    ASSUME NEW rs \in Seq(HttpRequest), rs # <<>>, NEW n \in Nat, Takes(rs, n),
           Head(rs).len <= n
    PROVE  Takes(Tail(rs), n - Head(rs).len)
  <1>1. PICK t : Left(rs, t) /\ t[1] = n  BY DEF Takes, Fill
  <1>2. PICK l \in Nat : l = Len(rs)  BY LenProperties
  <1>3. 1 \in 1 .. l /\ 2 \in 1 .. l + 1  BY <1>2, EmptySeq
  <1>4. PICK q \in Seq(HttpRequest) : q = Tail(rs)  BY HeadTailProperties
  <1>5. PICK m \in Nat : m = Len(q)  BY LenProperties
  <1>6. l = m + 1 /\ Head(rs) = rs[1] /\ \A k \in 1 .. m : q[k] = rs[k + 1]
    BY <1>2, <1>3, <1>4, <1>5, HeadTailProperties
  <1>7. /\ t \in [1 .. l + 1 -> Nat] /\ t[l + 1] = 0
        /\ \A k \in 1 .. l : t[k] = rs[k].arrived + t[k + 1]
    BY <1>1, <1>2 DEF Left
  <1>8. PICK u : u = [k \in 1 .. m + 1 |-> t[k + 1]]  OBVIOUS
  <1>9. \A k \in 1 .. m + 1 : k + 1 \in 1 .. l + 1 /\ u[k] = t[k + 1]  BY <1>6, <1>8
  <1>10. u \in [1 .. m + 1 -> Nat] /\ u[m + 1] = 0  BY <1>6, <1>7, <1>8, <1>9
  <1>11. ASSUME NEW k \in 1 .. m  PROVE u[k] = q[k].arrived + u[k + 1]
    <2>1. k \in 1 .. m + 1 /\ k + 1 \in 1 .. m + 1 /\ k + 1 \in 1 .. l  BY <1>6
    <2>2. t[k + 1] = rs[k + 1].arrived + t[(k + 1) + 1]  BY <2>1, <1>7
    <2> QED  BY <2>1, <2>2, <1>6, <1>9
  <1>12. Left(q, u)  BY <1>5, <1>10, <1>11 DEF Left
  <1>13. Whole(q)
    <2>1. ASSUME NEW k \in 1 .. m
          PROVE  q[k].arrived <= q[k].len /\ (k # m => q[k].arrived = q[k].len)
      <3>1. k + 1 \in 1 .. l /\ (k # m => k + 1 # l)  BY <1>6
      <3>2. /\ rs[k + 1].arrived <= rs[k + 1].len
            /\ k + 1 # l => rs[k + 1].arrived = rs[k + 1].len
        BY <3>1, <1>2 DEF Takes, Whole
      <3> QED  BY <3>1, <3>2, <1>6
    <2> QED  BY <2>1, <1>5 DEF Whole
  <1>14. u[1] = n - rs[1].len
    <2>1. PICK a \in Nat, b \in Nat, c \in Nat :
              a = rs[1].arrived /\ b = rs[1].len /\ c = t[2]
      <3>1. rs[1] \in HttpRequest  BY <1>2, <1>3, ElementOfSeq
      <3> QED  BY <3>1, <1>3, <1>7 DEF HttpRequest
    <2>2. n = a + c
      <3>1. 1 + 1 = 2  OBVIOUS
      <3> QED  BY <3>1, <2>1, <1>1, <1>3, <1>7
    <2>3. a <= b /\ (1 # l => a = b)  BY <2>1, <1>2, <1>3 DEF Takes, Whole
    <2>4. 1 = l => c = 0
      <3>1. 1 = l => l + 1 = 2  OBVIOUS
      <3> QED  BY <3>1, <2>1, <1>7
    <2>5. b <= n  BY <2>1, <1>6
    <2>6. c = n - b  BY <2>2, <2>3, <2>4, <2>5
    <2>7. u[1] = t[2]
      <3>1. 1 \in 1 .. m + 1 /\ 1 + 1 = 2  OBVIOUS
      <3> QED  BY <3>1, <1>9
    <2> QED  BY <2>1, <2>6, <2>7
  <1> QED  BY <1>4, <1>6, <1>12, <1>13, <1>14 DEF Takes, Fill

\* Nothing is left when there are no more requests.
LEMMA TakesNothing ==
    ASSUME NEW rs \in Seq(HttpRequest), NEW n \in Nat, Takes(rs, n), n # 0
    PROVE  rs # <<>>
  <1> SUFFICES ASSUME rs = <<>>  PROVE FALSE
    OBVIOUS
  <1>1. PICK t : Left(rs, t) /\ t[1] = n  BY DEF Takes, Fill
  <1>2. Len(rs) = 0  BY EmptySeq
  <1>3. t[0 + 1] = 0  BY <1>1, <1>2 DEF Left
  <1>4. 0 + 1 = 1  OBVIOUS
  <1> QED  BY <1>1, <1>3, <1>4

\* A route of which the request in front cannot be served has another path, no
\* rendering, or a file that is larger than a window.
LEMMA WhyNot ==
    ASSUME Inv, Current, Remaining, NotServed, NEW i \in DOMAIN prepared
    PROVE  \/ prepared[i].path # Request.path
           \/ Request.arrived < Request.len
           \/ Request.sid # 0 /\
                 \/ prepared[i].h2 = NoHttp2
                 \/ LET size == Last(files[Request.path]) IN
                    size > flow_ctl.conn_window \/ size > flow_ctl.stream_window
  <1> DEFINE sid == Request.sid
             r == Rendering(i, sid)
  <1>1. pc = "run" /\ ~Servable(i)  BY DEF NotServed
  <1>2. RunType /\ RoutesInv /\ prepared \in Seq(PreparedRoute) /\ msg \in Seq(Cell)
    BY DEF Inv, RunInv, RunType, RoutesInv, RoutesType
  <1>3. requests # <<>> /\ Takes(requests, Len(msg))  BY <1>1 DEF Remaining
  <1>4. requests \in Seq(HttpRequest) /\ Len(msg) \in Nat  BY <1>2, CellFacts DEF RunType
  <1>5. sid \in Nat /\ Request.len \in Nat /\ Request \in HttpRequest
    BY <1>2, <1>3, RequestType
  <1>6. Request.arrived \in Nat /\ Request.arrived <= Len(msg)
    BY <1>3, <1>4, <1>5, TakesFront DEF Request, HttpRequest
  <1>7. i \in 1 .. Len(prepared)  BY <1>2, LenProperties
  <1>8. OfFile(prepared[i])  BY <1>7 DEF Current
  <1>9. Len(r) \in Nat /\ Len(r) <= MaxRouteBody /\ prepared[i] \in PreparedRoute
        /\ prepared[i].h2.data_len \in Nat /\ (sid # 0 => SidsAt(r, prepared[i].h2.sid_offs))
        /\ r \in Seq(Cell) /\ prepared[i].h2.sid_offs \in Seq(Nat)
    BY <1>2, <1>5, <1>7, RenderingFacts
  <1> SUFFICES ASSUME prepared[i].path = Request.path, ~(Request.arrived < Request.len),
                      ~(sid # 0 /\ prepared[i].h2 = NoHttp2)
               PROVE  /\ sid # 0
                      /\ LET size == Last(files[Request.path]) IN
                         size > flow_ctl.conn_window \/ size > flow_ctl.stream_window
    OBVIOUS
  <1>10. Request.len <= Len(msg)  BY <1>4, <1>5, <1>6
  <1>11. Len(r) > 0
    <2>1. CASE sid = 0  BY <2>1, <1>8 DEF OfFile, Rendering
    <2>2. CASE sid # 0
      <3>1. prepared[i].h2.sid_offs # <<>>  BY <2>2, <1>8 DEF OfFile
      <3> HIDE DEF r, sid
      <3> QED  BY <3>1, <2>2, <1>9, FramesTakeRoom
    <2> QED  BY <2>1, <2>2
  <1>12. Len(r) \in 1 .. MaxRouteBody
    <2> HIDE DEF r
    <2> QED  BY <1>9, <1>11, MaxRouteBodyType
  <1>13. ~Room(i, sid)  BY <1>1, <1>3, <1>10, <1>12 DEF Servable
  <1>14. sid # 0 /\ prepared[i].h2.data_len = Last(files[Request.path])
    <2>1. sid # 0  BY <1>13 DEF Room
    <2> QED  BY <2>1, <1>8 DEF OfFile, Size
  <1>15. flow_ctl.conn_window \in Nat /\ flow_ctl.stream_window \in Nat
    BY <1>2 DEF RunType
  <1> QED  BY <1>9, <1>13, <1>14, <1>15 DEF Room

-----------------------------------------------------------------------------
(* Its steps *)

\* serve_route begins and takes nothing off the message.
LEMMA ServeRemaining ==
    ASSUME Inv, Remaining, NEW i \in DOMAIN prepared, Serve(i)
    PROVE  Remaining'
  <1>1. /\ pc = "run" /\ pc' = "resize" /\ requests' = requests /\ requests # <<>>
        /\ behind' = SubSeq(msg, Request.len + 1, Len(msg)) /\ Request.len <= Len(msg)
    BY DEF Serve, Servable
  <1>2. RunType  BY DEF Inv, RunInv
  <1>3. requests \in Seq(HttpRequest) /\ msg \in Seq(Cell)  BY <1>2 DEF RunType
  <1>4. PICK n \in Nat, q \in Nat : n = Len(msg) /\ q = Request.len
    BY <1>1, <1>2, <1>3, CellFacts, RequestType
  <1>5. Takes(Tail(requests), n - q)
    BY <1>1, <1>3, <1>4, TakesRest DEF Remaining, Request
  <1>6. Len(behind') = n - q
    <2>1. q \in 0 .. n  BY <1>1, <1>4
    <2>2. Len(SubSeq(msg, q + 1, n)) = n - q  BY <2>1, <1>3, <1>4, LeftFacts
    <2> QED  BY <2>2, <1>1, <1>4
  <1> QED  BY <1>1, <1>5, <1>6 DEF Remaining

\* The response leaves with its request.
LEMMA RedirectRemaining ==
    ASSUME Inv, Remaining, Redirect
    PROVE  Remaining'
  <1>1. /\ pc = "redirect" /\ msg' = SubSeq(msg, Len(Response) + 1, Len(msg))
        /\ requests' = Tail(requests)
        /\ pc' = IF msg' = <<>> THEN "answered" ELSE "run"
    BY DEF Redirect
  <1>2. RunType /\ requests # <<>> /\ Sized
    BY <1>1, InHandFacts DEF Inv, RunInv, Finished
  <1>3. requests' \in Seq(HttpRequest)  BY <1>1, <1>2, RequestType
  <1>4. PICK n \in Nat, l \in Nat, b \in Nat :
            n = Len(Response) /\ l = Len(msg) /\ b = Len(behind)
    BY <1>1, InHandFacts
  <1>5. l = n + b /\ msg \in Seq(Cell)  BY <1>2, <1>4 DEF Sized, RunType
  <1>6. Len(msg') = b /\ msg' \in Seq(Cell)
    <2>1. n \in 0 .. l /\ l - n = b  BY <1>5
    <2>2. SubSeq(msg, n + 1, l) \in Seq(Cell) /\ Len(SubSeq(msg, n + 1, l)) = l - n
      BY <2>1, <1>4, <1>5, LeftFacts
    <2> QED  BY <2>1, <2>2, <1>1, <1>4
  <1>7. Takes(requests', b)  BY <1>1, <1>4 DEF Remaining
  <1>8. pc' = "run" => b # 0  BY <1>1, <1>6, EmptySeq
  <1>9. pc' = "run" => requests' # <<>>  BY <1>3, <1>7, <1>8, TakesNothing
  <1>10. pc' \notin {"resize", "copy", "patch", "redirect"}  BY <1>1
  <1> QED  BY <1>6, <1>7, <1>9, <1>10 DEF Remaining

\* A message that arrives is what its requests take.
LEMMA ArriveRemaining ==
    ASSUME Arrive
    PROVE  Remaining'
  <1>1. PICK m \in Messages : requests' = m.requests /\ msg' = Arrived(m.requests)
    BY DEF Arrive
  <1>2. Fill(requests', Len(msg'))
    <2>1. m \in Messages  BY <1>1
    <2>2. PICK r, k : r = m.requests /\ k = Len(Arrived(m.requests))  OBVIOUS
    <2>3. Fill(m.requests, Len(Arrived(m.requests)))  BY <2>1, ArrivedFacts
    <2>4. Fill(r, k)  BY <2>2, <2>3
    <2>5. r = requests' /\ k = Len(msg')  BY <2>2, <1>1
    <2> QED  BY <2>4, <2>5
  <1>3. Whole(requests') /\ requests' # <<>>
    <2>1. PICK r : r = m.requests  OBVIOUS
    <2>2. /\ r # <<>>
          /\ \A k \in 1 .. Len(r) :
                /\ r[k].arrived \in 1 .. r[k].len
                /\ k # Len(r) => r[k].arrived = r[k].len
          /\ r \in Seq([path : Paths, sid : Nat, len : Nat \ {0}, arrived : Nat])
      BY <1>1, <2>1, ServingAssumption
    <2>3. ASSUME NEW k \in 1 .. Len(r)  PROVE r[k].arrived <= r[k].len
      <3>1. r[k] \in [path : Paths, sid : Nat, len : Nat \ {0}, arrived : Nat]
        BY <2>2, ElementOfSeq
      <3>2. r[k].len \in Nat  BY <3>1
      <3>3. r[k].arrived \in 1 .. r[k].len  BY <2>2
      <3> QED  BY <3>2, <3>3
    <2>4. Whole(r)  BY <2>2, <2>3 DEF Whole
    <2>5. r = requests'  BY <2>1, <1>1
    <2> QED  BY <2>2, <2>4, <2>5
  <1>4. pc' = "run"  BY DEF Arrive
  <1> QED  BY <1>2, <1>3, <1>4 DEF Remaining, Takes

\* Nothing else changes what is left.
LEMMA RestRemaining ==
    ASSUME Remaining,
           \/ Grow \/ Shrink \/ Resized \/ CopyChunk \/ CopyEnds \/ WriteSid \/ PatchEnds
           \/ NotServed \/ Helpers \/ UNCHANGED runVars
    PROVE  Remaining'
  <1> DEFINE hand == {"resize", "copy", "patch", "redirect"}
  <1>1. CASE UNCHANGED runVars  BY <1>1 DEF runVars, Remaining
  <1>2. CASE NotServed \/ Helpers
    <2>1. pc' \in {"handed", "dropped"}
      BY <1>2 DEF Helpers, NotServed, GrowFailsFirst, GrowFailsLater, ShrinkFails,
                  CopyFails, WriteSidFails, RedirectFails, HandOver, Drop
    <2> QED  BY <2>1 DEF Remaining
  <1>3. CASE Grow \/ Shrink \/ Resized \/ CopyChunk \/ CopyEnds \/ WriteSid \/ PatchEnds
    <2>1. /\ pc \in hand /\ pc' \in hand \cup {"dropped"}
          /\ UNCHANGED <<requests, behind>>
      BY <1>3 DEF Grow, Growing, Shrink, Shrinking, Resized, CopyChunk, Copying, CopyEnds,
                  WriteSid, Patching, PatchEnds
    <2> QED  BY <2>1 DEF Remaining
  <1> QED  BY <1>1, <1>2, <1>3

\* Only a request that cannot be answered goes to user space, unless a helper fails.
LEMMA AnswersNext ==
    ASSUME Inv, Current, Remaining, AnswersWhatItCan, Inv', [Next]_vars
    PROVE  AnswersWhatItCan'
  <1>1. DropsNone'  BY DEF Inv, RunInv
  <1>2. CASE NotServed /\ UNCHANGED routeVars
    <2>1. /\ pc' = "handed"
          /\ UNCHANGED <<requests, flow_ctl, prepared, files>>
      BY <1>2 DEF NotServed, HandOver, routeVars
    <2> QED  BY <2>1, <1>1, <1>2, WhyNot DEF AnswersWhatItCan, Request
  <1>3. CASE Helpers /\ UNCHANGED routeVars
    <2>1. kernel' = TRUE
      BY <1>3 DEF Helpers, GrowFailsFirst, GrowFailsLater, ShrinkFails, CopyFails,
                  WriteSidFails, RedirectFails, Drop
    <2> QED  BY <2>1, <1>1 DEF AnswersWhatItCan
  <1>4. CASE pc' # "handed"  BY <1>1, <1>4 DEF AnswersWhatItCan
  <1>5. CASE UNCHANGED vars
    BY <1>1, <1>5 DEF AnswersWhatItCan, vars, runVars, routeVars, Request
  <1>6. CASE RoutesNext /\ UNCHANGED runVars
    <2>1. stage # "attached"
      BY <1>6 DEF RoutesNext, Bail, RenderHttp2, Rewrite, DataFrame, Prepare, Load,
                  CopyRoute, Attach, TooLarge, RenderHttp1, Route
    <2>2. pc' = "idle"  BY <2>1, <1>6 DEF Inv, RunInv, Ready, runVars
    <2> QED  BY <2>2, <1>4
  <1>7. ASSUME Run, UNCHANGED routeVars
        PROVE  NotServed \/ Helpers \/ pc' # "handed"
    BY <1>7 DEF Run, Arrive, Serve, Grow, Growing, Shrink, Shrinking, Resized, CopyChunk,
                Copying, CopyEnds, WriteSid, Patching, PatchEnds, Redirect
  <1> QED  BY <1>2, <1>3, <1>4, <1>5, <1>6, <1>7 DEF Next

\* All three hold before anything is rendered.
LEMMA AnswersInit == Init => Current /\ Remaining /\ AnswersWhatItCan
  <1> SUFFICES ASSUME Init  PROVE Current /\ Remaining /\ AnswersWhatItCan
    OBVIOUS
  <1>1. Len(<<>>) = 0  BY EmptySeq
  <1>2. Current  BY <1>1 DEF Init, RoutesInit, Current
  <1>3. Remaining  BY DEF Init, Remaining
  <1>4. AnswersWhatItCan  BY DEF Init, AnswersWhatItCan, DropsNone
  <1> QED  BY <1>2, <1>3, <1>4

\* Every step keeps what is current and what remains.
LEMMA RemainingNext ==
    ASSUME Inv, Current, Remaining, [Next]_vars
    PROVE  Current' /\ Remaining'
  <1>1. Current'
    <2>1. [RoutesNext]_routeVars  BY DEF Next, vars
    <2> QED  BY <2>1, CurrentNext DEF Inv
  <1>2. Remaining'
    BY ServeRemaining, RedirectRemaining, ArriveRemaining, RestRemaining
       DEF Next, Run, vars
  <1> QED  BY <1>1, <1>2

-----------------------------------------------------------------------------
(* The theorems *)

\* The invariant holds before anything is rendered.
LEMMA InitInv == Init => Inv
  <1> SUFFICES ASSUME Init  PROVE Inv
    OBVIOUS
  <1>1. RoutesInv  BY RoutesInitInv DEF Init
  <1>2. <<>> \in Seq(Cell) /\ <<>> \in Seq(HttpRequest)  BY EmptySeq
  <1>3. 0 \in 0 .. MaxChunks  BY RoutesAssumption
  <1>4. 0 \in 0 .. Len(prepared)
    <2>1. Len(prepared) \in Nat  BY <1>1, LenProperties DEF RoutesInv, RoutesType
    <2> QED  BY <2>1
  <1>5. RunType  BY <1>2, <1>3, <1>4 DEF Init, RunType
  <1>6. Ready /\ InHand /\ Resizing /\ CopiedSoFar /\ PatchedSoFar /\ Finished /\ DropsNone
    BY DEF Init, Ready, InHand, Resizing, CopiedSoFar, PatchedSoFar, Finished, DropsNone
  <1> QED  BY <1>1, <1>5, <1>6 DEF Inv, RunInv

\* While attach is at work no message is there, and it does nothing once it is done.
LEMMA RoutesStepInv ==
    ASSUME Inv, RoutesNext \/ UNCHANGED routeVars, UNCHANGED runVars
    PROVE  RunInv'
  <1>1. UNCHANGED <<pc, requests, msg, orig_size, route, turn, flow_ctl, behind, kernel>>
    BY DEF runVars
  <1>2. CASE RoutesNext
    <2>1. stage # "attached"
      BY <1>2 DEF RoutesNext, Bail, RenderHttp2, Rewrite, DataFrame, Prepare, Load,
                  CopyRoute, Attach, TooLarge, RenderHttp1, Route
    <2>2. pc = "idle"  BY <2>1 DEF Inv, RunInv, Ready
    <2>3. Ready' /\ InHand' /\ Resizing' /\ CopiedSoFar' /\ PatchedSoFar' /\ Finished'
          /\ DropsNone'
      BY <2>2, <1>1
         DEF Inv, RunInv, Ready, InHand, Resizing, CopiedSoFar, PatchedSoFar, Finished,
             DropsNone
    <2>4. RunType'
      <3>1. RoutesInv'  BY <1>2, RoutesNextInv DEF Inv
      <3>2. Len(prepared') \in Nat  BY <3>1, LenProperties DEF RoutesInv, RoutesType
      <3>3. route' \in 0 .. Len(prepared')  BY <2>2, <3>2, <1>1 DEF Inv, RunInv, Ready
      <3> QED  BY <3>3, <1>1 DEF Inv, RunInv, RunType
    <2> QED  BY <2>3, <2>4 DEF RunInv
  <1>3. CASE UNCHANGED routeVars
    <2>1. prepared' = prepared /\ stage' = stage /\ arena' = arena  BY <1>3 DEF routeVars
    <2>2. Request' = Request /\ Response' = Response /\ SidOffs' = SidOffs
          /\ Target' = Target
      BY <1>1, <2>1 DEF Request, Response, SidOffs, Target, Rendering
    <2>3. RunType' /\ Ready' /\ InHand'
      BY <1>1, <2>1, <2>2 DEF Inv, RunInv, RunType, Ready, InHand
    <2>4. Resizing' /\ CopiedSoFar' /\ PatchedSoFar' /\ Finished' /\ DropsNone'
      BY <1>1, <2>1, <2>2 DEF Inv, RunInv, Resizing, CopiedSoFar, PatchedSoFar, Finished,
                              DropsNone, Sized
    <2> QED  BY <2>3, <2>4 DEF RunInv
  <1> QED  BY <1>2, <1>3

\* Every step keeps it.
LEMMA NextInv == Inv /\ [Next]_vars => Inv'
  <1> SUFFICES ASSUME Inv, [Next]_vars  PROVE Inv'
    OBVIOUS
  <1>1. CASE RoutesNext /\ UNCHANGED runVars
    <2>1. RoutesInv'  BY <1>1, RoutesNextInv DEF Inv
    <2>2. RunInv'  BY <1>1, RoutesStepInv
    <2> QED  BY <2>1, <2>2 DEF Inv
  <1>2. CASE Run /\ UNCHANGED routeVars
    <2>1. RoutesInv'  BY <1>2, RoutesNextInv DEF Inv
    <2>2. RunInv'
      BY <1>2, ArriveInv, HelpersInv, ServeInv, GrowInv, ShrinkInv, ResizedInv,
         CopyChunkInv, CopyEndsInv, WriteSidInv, PatchEndsInv, RedirectInv DEF Run
    <2> QED  BY <2>1, <2>2 DEF Inv
  <1>3. CASE UNCHANGED vars
    <2>1. UNCHANGED routeVars /\ UNCHANGED runVars  BY <1>3 DEF vars
    <2>2. RoutesInv'  BY <2>1, RoutesNextInv DEF Inv
    <2>3. RunInv'  BY <2>1, RoutesStepInv
    <2> QED  BY <2>2, <2>3 DEF Inv
  <1> QED  BY <1>1, <1>2, <1>3 DEF Next

\* The invariant the theorems below rest on: what attach has prepared so far, and how
\* far the message in hand has been turned into a response.
THEOREM Invariance == Spec => []Inv
  BY InitInv, NextInv, PTL DEF Spec

\* The renderings are where the program is told they are, apart from each other and
\* within the pages of the arena, for every set of routes and all sizes.
THEOREM ArenaHoldsRoutes == Spec => []ArenaHolds
  <1>1. Inv => ArenaHolds
    <2> SUFFICES ASSUME Inv, stage = "attached", NEW i \in DOMAIN prepared,
                        NEW sid \in {0, 1}
                 PROVE  LET off == IF sid = 0 THEN prepared[i].body_off
                                   ELSE prepared[i].h2.off
                            r == Rendering(i, sid)
                        IN  \A k \in DOMAIN r :
                              off + k - 1 \in DOMAIN arena /\ arena[off + k - 1] = r[k]
      BY DEF ArenaHolds
    <2> DEFINE off == IF sid = 0 THEN prepared[i].body_off ELSE prepared[i].h2.off
               r == Rendering(i, sid)
    <2>1. i \in 1 .. Len(prepared)  BY LenProperties DEF Inv, RoutesInv, RoutesType
    <2>2. Holds(arena, off, r) /\ r \in Seq(Cell)  BY <2>1, RenderingFacts DEF Inv
    <2>3. DOMAIN r = 1 .. Len(r)  BY <2>2
    <2> HIDE DEF off, r
    <2>4. \A k \in DOMAIN r : off + k - 1 \in DOMAIN arena /\ arena[off + k - 1] = r[k]
      BY <2>2, <2>3 DEF Holds
    <2> QED  BY <2>4 DEF off, r
  <1> QED  BY <1>1, Invariance, PTL

\* What is redirected to a client is the rendering with the stream id of the request
\* in all of its frames, in front of what followed the request.
THEOREM RequestsBecomeResponses == Spec => []RewritesWhole
  <1>1. Inv => RewritesWhole
    <2> SUFFICES ASSUME Inv, pc = "redirect"
                 PROVE  LET n == Len(Response) IN
                        /\ Len(msg) = n + Len(behind)
                        /\ \A k \in 1 .. n : msg[k] = Addressed(Response, Request.sid)[k]
                        /\ \A k \in DOMAIN behind : msg[n + k] = behind[k]
      BY DEF RewritesWhole
    <2> DEFINE n == Len(Response)
               B == Len(behind)
    <2>1. /\ Len(msg) = n + B
          /\ \A k \in 1 .. n : msg[k] = Addressed(Response, Request.sid)[k]
      BY DEF Inv, RunInv, Finished, Sized
    <2>2. EndsWith(msg, behind) /\ n \in Nat /\ B \in Nat  BY InHandFacts
    <2>3. DOMAIN behind = 1 .. B  BY CellFacts DEF Inv, RunInv, RunType
    <2>4. \A k \in 1 .. B : msg[n + k] = behind[k]
      <3>1. \A k \in 1 .. B : msg[Len(msg) - B + k] = behind[k]  BY <2>2 DEF EndsWith
      <3> HIDE DEF n, B
      <3>2. Len(msg) - B = n  BY <2>1, <2>2
      <3> QED  BY <3>1, <3>2
    <2> QED  BY <2>1, <2>3, <2>4
  <1> QED  BY <1>1, Invariance, PTL

\* A message is only dropped if a helper of the kernel fails, and a request only goes to
\* user space if one did, if it is not complete, or if there is nothing to answer it
\* with that fits the windows: for all routes, sizes, windows and lengths of requests.
THEOREM AnswersAllItCan == Spec => []AnswersWhatItCan
  <1>1. Init => Inv /\ Current /\ Remaining /\ AnswersWhatItCan
    BY InitInv, AnswersInit
  <1>2. Inv /\ Current /\ Remaining /\ AnswersWhatItCan /\ [Next]_vars
            => Inv' /\ Current' /\ Remaining' /\ AnswersWhatItCan'
    BY NextInv, RemainingNext, AnswersNext
  <1> QED  BY <1>1, <1>2, PTL DEF Spec

\* The windows, lengths and offsets never become negative.
THEOREM TypesHold == Spec => []TypeOK
  <1>1. Inv => TypeOK
    BY DEF Inv, RoutesInv, RoutesType, RunInv, RunType, TypeOK, HttpRequest
  <1> QED  BY <1>1, Invariance, PTL

-----------------------------------------------------------------------------
(* Reading frames *)

\* What a client makes of a frame, and of frames.
Read(f, sid) == [kind |-> f.kind, flags |-> f.flags, sid |-> sid, payload |-> f.payload]
AllRead(fs, sid) == [k \in DOMAIN fs |-> Read(fs[k], sid)]

\* Nothing that starts at offset `o` is a frame.
NoFrame(bytes, o) ==
    LET header == o + SidAt + SidLen
        size == bytes[o + 1].n
    IN  \/ header > Len(bytes) \/ bytes[o + 1].is \notin {"headers", "data"}
        \/ header + size > Len(bytes)
        \/ \E k \in o + 2 .. header :
              bytes[k] # FrameHeader(bytes[o + 1].is, bytes[o + 1].of, size,
                                     bytes[header].n)[k - o]

\* What a client makes of the bytes from `o` on, given what it makes of those behind
\* the frame there.
ReadAt(bytes, from, o) ==
    IF o = Len(bytes) THEN <<>>
    ELSE LET header == o + SidAt + SidLen
             size == bytes[o + 1].n
         IN  IF NoFrame(bytes, o)
             THEN <<[kind |-> "none"]>>
             ELSE <<[kind |-> bytes[o + 1].is, flags |-> bytes[o + 1].of,
                     sid |-> bytes[header].n,
                     payload |-> SubSeq(bytes, header + 1, header + size)]>>
                  \o from[header + size]

Reading(bytes, from) == from = [o \in Nat |-> ReadAt(bytes, from, o)]

\* That is how the frames are defined.
LEMMA FramesAre ==
    ASSUME NEW bytes
    PROVE  Frames(bytes) = (CHOOSE from : Reading(bytes, from))[0]
  BY DEF Frames, Reading, ReadAt, NoFrame

\* It depends on nothing but what comes behind.
LEMMA ReadsOn ==
    ASSUME NEW bytes \in Seq(Cell), NEW o \in Nat, NEW f, NEW g,
           \A j \in Nat : j > o => f[j] = g[j]
    PROVE  ReadAt(bytes, f, o) = ReadAt(bytes, g, o)
  <1>1. CASE o = Len(bytes) \/ NoFrame(bytes, o)  BY <1>1 DEF ReadAt
  <1>2. CASE o # Len(bytes) /\ ~NoFrame(bytes, o)
    <2> DEFINE next == o + SidAt + SidLen + bytes[o + 1].n
    <2>1. SidAt \in Nat /\ SidAt > 0 /\ SidLen \in Nat /\ Len(bytes) \in Nat
      BY RoutesAssumption, CellFacts
    <2>2. o + SidAt + SidLen <= Len(bytes)  BY <1>2, <2>1 DEF NoFrame
    <2>3. o + 1 \in 1 .. Len(bytes)  BY <2>1, <2>2
    <2>4. bytes[o + 1] \in Cell  BY <2>3, CellFacts
    <2>5. bytes[o + 1].n \in Nat  BY <2>4 DEF Cell
    <2>6. next \in Nat /\ next > o  BY <2>1, <2>5
    <2>7. f[next] = g[next]  BY <2>6
    <2> QED  BY <2>7, <1>2 DEF ReadAt
  <1> QED  BY <1>1, <1>2

\* There is something to make of every run of bytes.
LEMMA ReadingExists ==
    ASSUME NEW bytes \in Seq(Cell)
    PROVE  \E f : Reading(bytes, f)
  <1>1. PICK l \in Nat : l = Len(bytes)  BY CellFacts
  <1> DEFINE From(f, n) == /\ f = [o \in Nat |-> f[o]]
                           /\ \A o \in Nat : o + n >= l => f[o] = ReadAt(bytes, f, o)
             S == {n \in Nat : \E f : From(f, n)}
  <1>2. 0 \in S
    <2>1. PICK f : f = [o \in Nat |-> IF o = l THEN <<>> ELSE <<[kind |-> "none"]>>]
      OBVIOUS
    <2>2. ASSUME NEW o \in Nat, o >= l  PROVE f[o] = ReadAt(bytes, f, o)
      <3>1. CASE o = l  BY <3>1, <2>1, <1>1 DEF ReadAt
      <3>2. CASE o # l
        <4>1. o + SidAt + SidLen > Len(bytes)
          BY <1>1, <2>2, <3>2, RoutesAssumption
        <4>2. NoFrame(bytes, o)  BY <4>1 DEF NoFrame
        <4>3. ReadAt(bytes, f, o) = <<[kind |-> "none"]>>  BY <4>2, <3>2, <1>1 DEF ReadAt
        <4> QED  BY <4>3, <3>2, <2>1
      <3> QED  BY <3>1, <3>2
    <2>3. f = [o \in Nat |-> f[o]]  BY <2>1
    <2>4. From(f, 0)  BY <2>2, <2>3
    <2> QED  BY <2>4
  <1>3. ASSUME NEW n \in Nat, n \in S  PROVE n + 1 \in S
    <2>1. PICK f : From(f, n)  BY <1>3
    <2>2. PICK g : g = [o \in Nat |-> IF o + n + 1 = l THEN ReadAt(bytes, f, o) ELSE f[o]]
      OBVIOUS
    <2>3. ASSUME NEW o \in Nat, o + (n + 1) >= l  PROVE g[o] = ReadAt(bytes, g, o)
      <3>1. \A j \in Nat : j > o => g[j] = f[j]
        <4>1. \A j \in Nat : j > o => j + n + 1 # l  BY <2>3
        <4> QED  BY <4>1, <2>2
      <3>2. ReadAt(bytes, g, o) = ReadAt(bytes, f, o)  BY <3>1, ReadsOn
      <3>3. CASE o + n + 1 = l  BY <3>3, <3>2, <2>2
      <3>4. CASE o + n + 1 # l
        <4>1. o + n >= l  BY <3>4, <2>3
        <4>2. f[o] = ReadAt(bytes, f, o)  BY <4>1, <2>1
        <4> QED  BY <4>2, <3>2, <3>4, <2>2
      <3> QED  BY <3>3, <3>4
    <2>4. g = [o \in Nat |-> g[o]]  BY <2>2
    <2>5. From(g, n + 1)  BY <2>3, <2>4
    <2> QED  BY <2>5
  <1> HIDE DEF S
  <1>4. \A n \in Nat : n \in S  BY <1>2, <1>3, NatInd
  <1>5. PICK f : From(f, l)  BY <1>4 DEF S
  <1>6. \A o \in Nat : f[o] = ReadAt(bytes, f, o)
    <2>1. \A o \in Nat : o + l >= l  OBVIOUS
    <2> QED  BY <2>1, <1>5
  <1>7. f = [o \in Nat |-> ReadAt(bytes, f, o)]
    <2>1. f = [o \in Nat |-> f[o]]  BY <1>5
    <2>2. [o \in Nat |-> f[o]] = [o \in Nat |-> ReadAt(bytes, f, o)]  BY <1>6, Zenon
    <2> QED  BY <2>1, <2>2
  <1> QED  BY <1>7 DEF Reading

\* The frame a run of bytes has behind `pre` is read, and then what follows it.
LEMMA ReadFrame ==
    ASSUME NEW f \in ResponseFrame, NEW sid \in Nat, NEW pre \in Seq(Cell),
           NEW post \in Seq(Cell), NEW bytes, bytes = Cat(Cat(pre, Wired(f, sid)), post),
           NEW from, Reading(bytes, from)
    PROVE  from[Len(pre)] = <<Read(f, sid)>> \o from[Len(Cat(pre, Wired(f, sid)))]
  <1>1. PICK N \in Nat, n \in Nat : N = HeaderLen /\ n = Len(f.payload)
    BY WiredFacts
  <1> DEFINE y == FrameHeader(f.kind, f.flags, n, sid)
  <1>2. /\ N > 1 /\ y \in Seq(Cell)
        /\ Wired(f, sid) \in Seq(Cell) /\ Len(Wired(f, sid)) = N + n
        /\ \A k \in 1 .. N : Wired(f, sid)[k] = y[k]
        /\ \A k \in 1 .. n : Wired(f, sid)[N + k] = f.payload[k]
    BY <1>1, WiredFacts
  <1>3. PICK w \in Seq(Cell) : w = Wired(f, sid)  BY <1>2
  <1>4. PICK h \in Seq(Cell) : h = y  BY <1>2
  <1>5. /\ w = Wired(f, sid) /\ N = HeaderLen /\ n = Len(f.payload) /\ N > 1
        /\ h = FrameHeader(f.kind, f.flags, n, sid)
        /\ Len(w) = N + n
        /\ \A k \in 1 .. N : w[k] = h[k]
        /\ \A k \in 1 .. n : w[N + k] = f.payload[k]
    BY <1>1, <1>2, <1>3, <1>4
  <1> HIDE DEF y
  <1>6. PICK o \in Nat, e \in Nat : o = Len(pre) /\ e = Len(post)  BY CellFacts
  <1>7. /\ bytes \in Seq(Cell) /\ Len(bytes) = o + (N + n) + e
        /\ Len(Cat(pre, w)) = o + (N + n)
        /\ \A k \in 1 .. N + n : bytes[o + k] = w[k]
    <2>1. PICK x \in Seq(Cell) : x = Cat(pre, w)  BY CatType
    <2>2. PICK m \in Nat, i \in Nat : m = N + n /\ i = o + m  OBVIOUS
    <2>3. Joined(x, pre, w)  BY <2>1, CatJoins
    <2>4. Len(w) = m /\ Len(pre) = o  BY <2>2, <1>5, <1>6
    <2>5. Len(x) = i /\ \A k \in 1 .. m : x[o + k] = w[k]
      BY <2>2, <2>3, <2>4 DEF Joined
    <2>6. Joined(bytes, x, post)
      <3>1. bytes = Cat(x, post)  BY <1>5, <2>1
      <3> QED  BY <3>1, CatJoins
    <2>7. /\ bytes \in Seq(Cell) /\ Len(bytes) = i + e
          /\ \A k \in 1 .. i : bytes[k] = x[k]
      BY <2>5, <2>6, <1>6 DEF Joined
    <2>8. \A k \in 1 .. m : o + k \in 1 .. i  BY <2>2
    <2> QED  BY <2>1, <2>2, <2>5, <2>7, <2>8
  <1>8. /\ SidAt \in Nat \ {0} /\ SidLen \in Nat \ {0} /\ N = SidAt + SidLen
    BY <1>5, RoutesAssumption DEF HeaderLen
  <1>9. f.kind \in {"headers", "data"} /\ f.payload \in Seq(Cell)  BY DEF ResponseFrame
  <1>10. h[1] = Byte(f.kind, f.flags, n) /\ h[N] = Byte("sid", "none", sid)
    <2>1. 1 \in 1 .. N /\ N \in 1 .. N /\ 1 <= SidAt /\ ~(N <= SidAt)  BY <1>8
    <2> QED  BY <2>1, <1>5, <1>8 DEF FrameHeader
  <1>11. bytes[o + 1] = h[1] /\ bytes[o + N] = h[N]
    <2>1. 1 \in 1 .. N /\ N \in 1 .. N /\ 1 \in 1 .. N + n /\ N \in 1 .. N + n  BY <1>5
    <2> QED  BY <2>1, <1>5, <1>7
  <1>12. /\ bytes[o + 1].is = f.kind /\ bytes[o + 1].of = f.flags /\ bytes[o + 1].n = n
        /\ bytes[o + N].n = sid
    BY <1>10, <1>11 DEF Byte
  <1>13. o + SidAt + SidLen = o + N /\ o # Len(bytes)
    <2>1. PICK a \in Nat, b \in Nat : a = SidAt /\ b = SidLen  BY <1>8
    <2>2. o + a + b = o + N  BY <2>1, <1>8
    <2>3. o # o + (N + n) + e  BY <1>5
    <2> QED  BY <2>1, <2>2, <2>3, <1>7
  <1>14. ~NoFrame(bytes, o)
    <2>1. o + N <= Len(bytes) /\ o + N + n <= Len(bytes)  BY <1>7
    <2>2. ASSUME NEW k \in o + 2 .. o + N
          PROVE  bytes[k] = FrameHeader(f.kind, f.flags, n, sid)[k - o]
      <3>1. PICK j \in 1 .. N : j = k - o
        <4>1. k - o \in 1 .. N  OBVIOUS
        <4> QED  BY <4>1
      <3>2. k = o + j /\ j \in 1 .. N + n  BY <3>1
      <3> QED  BY <3>1, <3>2, <1>5, <1>7
    <2>3. PICK l \in Nat, s \in Nat : l = Len(bytes) /\ s = o + N  BY <1>7
    <2>4. ~(s > l) /\ ~(s + n > l)  BY <2>1, <2>3
    <2>5. o + SidAt + SidLen = s  BY <1>13, <2>3
    <2>6. \A k \in o + 2 .. s :
             ~(bytes[k] # FrameHeader(bytes[o + 1].is, bytes[o + 1].of, bytes[o + 1].n,
                                      bytes[s].n)[k - o])
      BY <2>2, <2>3, <1>12
    <2> QED  BY <2>3, <2>4, <2>5, <2>6, <1>9, <1>12, Zenon DEF NoFrame
  <1>15. SubSeq(bytes, o + N + 1, o + N + n) = f.payload
    <2>1. PICK p \in Seq(Cell) : p = f.payload /\ Len(p) = n  BY <1>5, <1>9
    <2>2. ASSUME NEW k \in 1 .. n  PROVE bytes[o + N + k] = p[k]
      <3>1. N + k \in 1 .. N + n /\ o + (N + k) = o + N + k  OBVIOUS
      <3> QED  BY <3>1, <2>1, <1>5, <1>7
    <2>3. PICK a \in Nat, b \in Nat : a = o + N /\ b = o + N + n  OBVIOUS
    <2>4. a <= b /\ b <= Len(bytes) /\ b - a = n
      <3>1. o + N <= o + N + n /\ o + N + n <= o + (N + n) + e /\ (o + N + n) - (o + N) = n
        OBVIOUS
      <3> QED  BY <3>1, <2>3, <1>7
    <2>5. PICK q : q = SubSeq(bytes, a + 1, b)  OBVIOUS
    <2>6. q \in Seq(Cell) /\ Len(q) = n /\ \A k \in 1 .. n : q[k] = bytes[a + k]
      BY <2>3, <2>4, <2>5, <1>7
    <2>7. \A k \in 1 .. n : q[k] = p[k]  BY <2>2, <2>3, <2>6
    <2>8. q = p  BY <2>1, <2>6, <2>7
    <2> QED  BY <2>1, <2>3, <2>5, <2>8
  <1>16. from[o] = ReadAt(bytes, from, o)
    <2>1. from = [j \in Nat |-> ReadAt(bytes, from, j)]  BY DEF Reading
    <2> QED  BY <2>1, Zenon
  <1>17. ReadAt(bytes, from, o) = <<Read(f, sid)>> \o from[o + N + n]
    BY <1>12, <1>13, <1>14, <1>15 DEF ReadAt, Read
  <1>18. o + N + n = Len(Cat(pre, w))  BY <1>7
  <1> QED  BY <1>5, <1>6, <1>16, <1>17, <1>18

\* What holds of the empty sequence, and of every sequence with one more element in
\* front of one it holds of, holds of all of them.
LEMMA ConsInd ==
    ASSUME NEW T, NEW S, <<>> \in S,
           \A e \in T, q \in Seq(T) : q \in S => <<e>> \o q \in S
    PROVE  \A q \in Seq(T) : q \in S
  <1> DEFINE L == {n \in Nat : \A q \in Seq(T) : Len(q) = n => q \in S}
  <1>1. 0 \in L
    <2>1. \A q \in Seq(T) : Len(q) = 0 => q = <<>>  OBVIOUS
    <2> QED  BY <2>1
  <1>2. ASSUME NEW n \in Nat, n \in L  PROVE n + 1 \in L
    <2> SUFFICES ASSUME NEW q \in Seq(T), Len(q) = n + 1  PROVE q \in S
      OBVIOUS
    <2>1. PICK r : r = Tail(q)  OBVIOUS
    <2>2. r \in Seq(T) /\ Len(r) = n /\ q[1] \in T  BY <2>1
    <2>3. q = <<q[1]>> \o r  BY <2>1, <2>2
    <2>4. r \in S  BY <1>2, <2>2
    <2> QED  BY <2>2, <2>3, <2>4
  <1> HIDE DEF L
  <1>3. \A n \in Nat : n \in L  BY <1>1, <1>2, NatInd
  <1>4. ASSUME NEW q \in Seq(T)  PROVE q \in S
    <2>1. Len(q) \in Nat  OBVIOUS
    <2> QED  BY <2>1, <1>3 DEF L
  <1> QED  BY <1>4

\* Frames behind other bytes are read one by one.
ReadsBehind(q, sid) ==
    \A pre \in Seq(Cell) : \A bytes, from :
        bytes = Cat(pre, Encoded(q, sid)) /\ Reading(bytes, from)
            => from[Len(pre)] = AllRead(q, sid)

\* There is nothing to read at the end.
LEMMA ReadsEnd == ASSUME NEW sid \in Nat  PROVE ReadsBehind(<<>>, sid)
  <1> SUFFICES ASSUME NEW pre \in Seq(Cell), NEW bytes, NEW from,
                      bytes = Cat(pre, Encoded(<<>>, sid)), Reading(bytes, from)
               PROVE  from[Len(pre)] = AllRead(<<>>, sid)
    BY DEF ReadsBehind
  <1>1. bytes = pre
    <2>1. bytes = pre \o <<>>  BY EncodedEmpty DEF Cat
    <2> QED  BY <2>1
  <1>2. PICK o \in Nat : o = Len(pre)  BY CellFacts
  <1>3. from[o] = ReadAt(bytes, from, o)
    <2>1. from = [j \in Nat |-> ReadAt(bytes, from, j)]  BY DEF Reading
    <2> QED  BY <2>1, Zenon
  <1>4. ReadAt(bytes, from, o) = <<>>  BY <1>1, <1>2 DEF ReadAt
  <1>5. AllRead(<<>>, sid) = <<>>
    <2>1. PICK e : e = [k \in 1 .. 0 |-> Read(<<>>[k], sid)]  OBVIOUS
    <2>2. e \in [1 .. 0 -> {}]  BY <2>1
    <2>3. e \in Seq({}) /\ Len(e) = 0  BY <2>2, FunSeq
    <2>4. e = <<>>  BY <2>3, NoElements
    <2>5. DOMAIN <<>> = 1 .. 0  OBVIOUS
    <2> QED  BY <2>1, <2>4, <2>5 DEF AllRead
  <1> QED  BY <1>2, <1>3, <1>4, <1>5

\* A frame is a frame to its reader.
ClientFrame ==
    [kind : {"headers", "data"}, flags : Flags, sid : Nat, payload : Seq(Cell)]

\* Frames are as many to their reader.
LEMMA AllReadFacts ==
    ASSUME NEW fs \in Seq(ResponseFrame), NEW sid \in Nat
    PROVE  /\ AllRead(fs, sid) \in Seq(ClientFrame) /\ Len(AllRead(fs, sid)) = Len(fs)
           /\ \A k \in 1 .. Len(fs) : AllRead(fs, sid)[k] = Read(fs[k], sid)
  <1>1. PICK l \in Nat : l = Len(fs)  BY LenProperties
  <1>2. DOMAIN fs = 1 .. l  BY <1>1, LenProperties
  <1>3. ASSUME NEW k \in 1 .. l  PROVE Read(fs[k], sid) \in ClientFrame
    <2>1. fs[k] \in ResponseFrame  BY <1>1, ElementOfSeq
    <2> QED  BY <2>1 DEF Read, ClientFrame, ResponseFrame
  <1>4. AllRead(fs, sid) = [k \in 1 .. l |-> Read(fs[k], sid)]  BY <1>2 DEF AllRead
  <1>5. AllRead(fs, sid) \in [1 .. l -> ClientFrame]  BY <1>3, <1>4
  <1>6. AllRead(fs, sid) \in Seq(ClientFrame) /\ Len(AllRead(fs, sid)) = l
    BY <1>1, <1>5, FunSeq
  <1> QED  BY <1>1, <1>4, <1>6

\* The first is read before the others.
LEMMA AllReadCons ==
    ASSUME NEW f \in ResponseFrame, NEW fs \in Seq(ResponseFrame), NEW sid \in Nat
    PROVE  AllRead(<<f>> \o fs, sid) = <<Read(f, sid)>> \o AllRead(fs, sid)
  <1>1. PICK g : g = <<f>> \o fs  OBVIOUS
  <1>2. PICK l \in Nat : l = Len(fs)  BY LenProperties
  <1>3. /\ g \in Seq(ResponseFrame) /\ Len(g) = l + 1 /\ g[1] = f
        /\ \A k \in 1 .. l : g[k + 1] = fs[k]
    BY <1>1, <1>2
  <1>4. PICK a \in Seq(ClientFrame) : a = AllRead(fs, sid)  BY AllReadFacts
  <1>5. PICK b \in Seq(ClientFrame) : b = AllRead(g, sid)  BY <1>3, AllReadFacts
  <1>6. PICK r \in ClientFrame : r = Read(f, sid)
    BY DEF Read, ClientFrame, ResponseFrame
  <1>7. Len(a) = l /\ \A k \in 1 .. l : a[k] = Read(fs[k], sid)
    BY <1>2, <1>4, AllReadFacts
  <1>8. Len(b) = l + 1 /\ \A k \in 1 .. l + 1 : b[k] = Read(g[k], sid)
    BY <1>3, <1>5, AllReadFacts
  <1>9. PICK c : c = <<r>> \o a  OBVIOUS
  <1>10. /\ c \in Seq(ClientFrame) /\ Len(c) = l + 1 /\ c[1] = r
         /\ \A k \in 1 .. l : c[k + 1] = a[k]
    BY <1>7, <1>9
  <1>11. b[1] = r  BY <1>3, <1>6, <1>8
  <1>12. ASSUME NEW k \in 1 .. l  PROVE b[k + 1] = c[k + 1]
    <2>1. k + 1 \in 1 .. l + 1  OBVIOUS
    <2> QED  BY <2>1, <1>3, <1>7, <1>8, <1>10
  <1>13. ASSUME NEW k \in 1 .. l + 1  PROVE b[k] = c[k]
    <2>1. CASE k = 1  BY <2>1, <1>10, <1>11
    <2>2. CASE k # 1
      <3>1. k - 1 \in 1 .. l /\ k = (k - 1) + 1  BY <2>2
      <3> QED  BY <3>1, <1>12
    <2> QED  BY <2>1, <2>2
  <1>14. b = c  BY <1>8, <1>10, <1>13
  <1> QED  BY <1>1, <1>4, <1>5, <1>6, <1>9, <1>14

\* The frame in front is read, and then the others are.
LEMMA ReadsFront ==
    ASSUME NEW sid \in Nat, NEW f \in ResponseFrame, NEW q \in Seq(ResponseFrame),
           ReadsBehind(q, sid)
    PROVE  ReadsBehind(<<f>> \o q, sid)
  <1> SUFFICES ASSUME NEW pre \in Seq(Cell), NEW bytes, NEW from,
                      bytes = Cat(pre, Encoded(<<f>> \o q, sid)), Reading(bytes, from)
               PROVE  from[Len(pre)] = AllRead(<<f>> \o q, sid)
    BY DEF ReadsBehind
  <1>1. PICK w \in Seq(Cell) : w = Wired(f, sid)  BY WiredFacts
  <1>2. PICK e \in Seq(Cell) : e = Encoded(q, sid)  BY EncodedType
  <1>3. Encoded(<<f>> \o q, sid) = Cat(w, e)  BY <1>1, <1>2, EncodedCons DEF Cat
  <1>4. bytes = Cat(Cat(pre, w), e)
    <2>1. bytes = Cat(pre, Cat(w, e))  BY <1>3
    <2> QED  BY <2>1, CatAssoc
  <1>5. PICK x \in Seq(Cell) : x = Cat(pre, w)  BY CatType
  <1>6. from[Len(x)] = AllRead(q, sid)
    <2>1. bytes = Cat(x, Encoded(q, sid))  BY <1>2, <1>4, <1>5
    <2> QED  BY <2>1 DEF ReadsBehind
  <1>7. from[Len(pre)] = <<Read(f, sid)>> \o from[Len(x)]
    <2>1. bytes = Cat(Cat(pre, Wired(f, sid)), e)  BY <1>1, <1>4
    <2>2. from[Len(pre)] = <<Read(f, sid)>> \o from[Len(Cat(pre, Wired(f, sid)))]
      BY <2>1, ReadFrame
    <2> QED  BY <2>2, <1>1, <1>5
  <1>8. AllRead(<<f>> \o q, sid) = <<Read(f, sid)>> \o AllRead(q, sid)  BY AllReadCons
  <1> QED  BY <1>6, <1>7, <1>8

\* A client makes of the bytes of frames what they were.
LEMMA FramesRead ==
    ASSUME NEW fs \in Seq(ResponseFrame), NEW sid \in Nat
    PROVE  Frames(Encoded(fs, sid)) = AllRead(fs, sid)
  <1> DEFINE S == {q \in Seq(ResponseFrame) : ReadsBehind(q, sid)}
  <1>1. <<>> \in S
    <2>1. <<>> \in Seq(ResponseFrame)  BY EmptySeq
    <2> QED  BY <2>1, ReadsEnd
  <1>2. ASSUME NEW f \in ResponseFrame, NEW q \in Seq(ResponseFrame), q \in S
        PROVE  <<f>> \o q \in S
    <2>1. <<f>> \o q \in Seq(ResponseFrame)  OBVIOUS
    <2> QED  BY <2>1, <1>2, ReadsFront
  <1> HIDE DEF S
  <1>3. fs \in S  BY <1>1, <1>2, ConsInd
  <1>4. ReadsBehind(fs, sid)  BY <1>3 DEF S
  <1>5. PICK bytes \in Seq(Cell) : bytes = Encoded(fs, sid)  BY EncodedType
  <1>6. PICK from : from = CHOOSE f : Reading(bytes, f)  OBVIOUS
  <1>7. Reading(bytes, from)
    <2>1. \E f : Reading(bytes, f)  BY ReadingExists
    <2> QED  BY <2>1, <1>6
  <1>8. PICK e \in Seq(Cell) : e = <<>>  BY EmptySeq
  <1>9. Len(e) = 0 /\ bytes = Cat(e, bytes)
    <2>1. e \o bytes = bytes  BY <1>8
    <2> QED  BY <2>1, <1>8 DEF Cat
  <1>10. from[0] = AllRead(fs, sid)
    <2>1. from[Len(e)] = AllRead(fs, sid)  BY <1>4, <1>5, <1>7, <1>9 DEF ReadsBehind
    <2> QED  BY <2>1, <1>9
  <1> QED  BY <1>5, <1>6, <1>10, FramesAre

-----------------------------------------------------------------------------
(* Putting the stream id in *)

\* Each byte is addressed on its own.
LEMMA AddressedFacts ==
    ASSUME NEW bytes \in Seq(Cell), NEW sid \in Nat
    PROVE  /\ Addressed(bytes, sid) \in Seq(Cell) /\ Len(Addressed(bytes, sid)) = Len(bytes)
           /\ \A k \in 1 .. Len(bytes) :
                 Addressed(bytes, sid)[k] = IF sid # 0 /\ bytes[k].is = "sid"
                                            THEN Byte("sid", "none", sid) ELSE bytes[k]
  <1>1. PICK l \in Nat : l = Len(bytes)  BY CellFacts
  <1>2. DOMAIN bytes = 1 .. l /\ \A k \in 1 .. l : bytes[k] \in Cell  BY <1>1, CellFacts
  <1>3. Byte("sid", "none", sid) \in Cell  BY ByteType DEF Kinds, Flags
  <1>4. Addressed(bytes, sid) =
            [k \in 1 .. l |-> IF sid # 0 /\ bytes[k].is = "sid"
                              THEN Byte("sid", "none", sid) ELSE bytes[k]]
    BY <1>2 DEF Addressed
  <1>5. Addressed(bytes, sid) \in [1 .. l -> Cell]  BY <1>2, <1>3, <1>4
  <1>6. Addressed(bytes, sid) \in Seq(Cell) /\ Len(Addressed(bytes, sid)) = l
    BY <1>5, CellSeq
  <1> QED  BY <1>1, <1>4, <1>6

\* So it makes no difference whether that is before or after they are put together.
LEMMA AddressedCat ==
    ASSUME NEW x \in Seq(Cell), NEW y \in Seq(Cell), NEW sid \in Nat
    PROVE  Addressed(Cat(x, y), sid) = Cat(Addressed(x, sid), Addressed(y, sid))
  <1>1. PICK m \in Nat, n \in Nat : m = Len(x) /\ n = Len(y)  BY CellFacts
  <1>2. PICK z \in Seq(Cell) : z = Cat(x, y)  BY CatType
  <1>3. PICK a \in Seq(Cell) : a = Addressed(x, sid)  BY AddressedFacts
  <1>4. PICK b \in Seq(Cell) : b = Addressed(y, sid)  BY AddressedFacts
  <1>5. PICK c \in Seq(Cell) : c = Addressed(z, sid)  BY AddressedFacts
  <1>6. PICK d \in Seq(Cell) : d = Cat(a, b)  BY CatType
  <1>7. Joined(z, x, y) /\ Joined(d, a, b)  BY <1>2, <1>6, CatJoins
  <1>8. /\ Len(z) = m + n
        /\ \A k \in 1 .. m : z[k] = x[k]
        /\ \A k \in 1 .. n : z[m + k] = y[k]
    BY <1>1, <1>7 DEF Joined
  <1> DEFINE To(e) == IF sid # 0 /\ e.is = "sid" THEN Byte("sid", "none", sid) ELSE e
  <1>9. Len(a) = m /\ \A k \in 1 .. m : a[k] = To(x[k])
    BY <1>1, <1>3, AddressedFacts
  <1>10. Len(b) = n /\ \A k \in 1 .. n : b[k] = To(y[k])
    BY <1>1, <1>4, AddressedFacts
  <1>11. Len(c) = m + n /\ \A k \in 1 .. m + n : c[k] = To(z[k])
    <2>1. /\ Len(Addressed(z, sid)) = Len(z)
          /\ \A k \in 1 .. Len(z) : Addressed(z, sid)[k] = To(z[k])
      BY AddressedFacts
    <2> HIDE DEF To
    <2> QED  BY <2>1, <1>5, <1>8
  <1>12. /\ Len(d) = m + n
         /\ \A k \in 1 .. m : d[k] = a[k]
         /\ \A k \in 1 .. n : d[m + k] = b[k]
    BY <1>7, <1>9, <1>10 DEF Joined
  <1> HIDE DEF To
  <1>13. ASSUME NEW k \in 1 .. m + n  PROVE c[k] = d[k]
    <2>1. CASE k \in 1 .. m
      <3>1. c[k] = To(z[k]) /\ z[k] = x[k]  BY <2>1, <1>8, <1>11
      <3>2. d[k] = a[k] /\ a[k] = To(x[k])  BY <2>1, <1>9, <1>12
      <3> QED  BY <3>1, <3>2
    <2>2. CASE k \notin 1 .. m
      <3>1. PICK j \in 1 .. n : k = m + j
        <4>1. k - m \in 1 .. n /\ k = m + (k - m)  BY <2>2
        <4> QED  BY <4>1
      <3>2. c[k] = To(z[k]) /\ z[k] = y[j]  BY <3>1, <1>8, <1>11
      <3>3. d[k] = b[j] /\ b[j] = To(y[j])  BY <3>1, <1>10, <1>12
      <3> QED  BY <3>2, <3>3
    <2> QED  BY <2>1, <2>2
  <1>14. c = d  BY <1>11, <1>12, <1>13
  <1> QED  BY <1>2, <1>3, <1>4, <1>5, <1>6, <1>14

\* A frame that is addressed is that frame on the stream.
LEMMA AddressedFrame ==
    ASSUME NEW f \in PlainFrame, NEW sid \in Nat
    PROVE  Addressed(Wired(f, 0), sid) = Wired(f, sid)
  <1>1. f \in ResponseFrame /\ Plain(f.payload)  BY DEF PlainFrame
  <1>2. PICK N \in Nat, n \in Nat : N = HeaderLen /\ n = Len(f.payload)
    BY <1>1, WiredFacts
  <1>3. PICK v \in Seq(Cell) : v = Wired(f, 0)  BY <1>1, WiredFacts
  <1>4. PICK w \in Seq(Cell) : w = Wired(f, sid)  BY <1>1, WiredFacts
  <1>5. PICK a \in Seq(Cell) : a = Addressed(v, sid)  BY AddressedFacts
  <1> DEFINE H(s) == FrameHeader(f.kind, f.flags, n, s)
  <1>6. /\ Len(v) = N + n
        /\ \A k \in 1 .. N : v[k] = H(0)[k]
        /\ \A k \in 1 .. n : v[N + k] = f.payload[k]
    <2>1. 0 \in Nat  OBVIOUS
    <2>2. /\ Len(Wired(f, 0)) = HeaderLen + Len(f.payload)
          /\ \A k \in 1 .. HeaderLen :
                Wired(f, 0)[k] = FrameHeader(f.kind, f.flags, Len(f.payload), 0)[k]
          /\ \A k \in 1 .. Len(f.payload) : Wired(f, 0)[HeaderLen + k] = f.payload[k]
      BY <1>1, <2>1, WiredFacts
    <2> QED  BY <2>2, <1>2, <1>3
  <1>7. /\ Len(w) = N + n
        /\ \A k \in 1 .. N : w[k] = H(sid)[k]
        /\ \A k \in 1 .. n : w[N + k] = f.payload[k]
    BY <1>1, <1>2, <1>4, WiredFacts
  <1> DEFINE To(e) == IF sid # 0 /\ e.is = "sid" THEN Byte("sid", "none", sid) ELSE e
  <1>8. Len(a) = N + n /\ \A k \in 1 .. N + n : a[k] = To(v[k])
    <2>1. /\ Len(Addressed(v, sid)) = Len(v)
          /\ \A k \in 1 .. Len(v) : Addressed(v, sid)[k] = To(v[k])
      BY AddressedFacts
    <2> HIDE DEF To
    <2> QED  BY <2>1, <1>5, <1>6
  <1>9. ASSUME NEW k \in 1 .. N  PROVE To(H(0)[k]) = H(sid)[k]
    <2>1. N = SidAt + SidLen /\ SidAt \in Nat  BY <1>2, RoutesAssumption DEF HeaderLen
    <2>2. CASE k <= SidAt
      <3>1. H(0)[k] = Byte(f.kind, f.flags, n) /\ H(sid)[k] = Byte(f.kind, f.flags, n)
        BY <2>1, <2>2 DEF FrameHeader
      <3>2. f.kind # "sid"  BY <1>1 DEF ResponseFrame
      <3> QED  BY <3>1, <3>2 DEF Byte
    <2>3. CASE ~(k <= SidAt)
      <3>1. H(0)[k] = Byte("sid", "none", 0) /\ H(sid)[k] = Byte("sid", "none", sid)
        BY <2>1, <2>3 DEF FrameHeader
      <3> QED  BY <3>1 DEF Byte
    <2> QED  BY <2>2, <2>3
  <1>10. ASSUME NEW k \in 1 .. n  PROVE To(f.payload[k]) = f.payload[k]
    BY <1>1, <1>2 DEF Plain
  <1> HIDE DEF To, H
  <1>11. ASSUME NEW k \in 1 .. N + n  PROVE a[k] = w[k]
    <2>1. CASE k \in 1 .. N
      <3>1. a[k] = To(v[k]) /\ v[k] = H(0)[k] /\ w[k] = H(sid)[k]
        BY <2>1, <1>6, <1>7, <1>8
      <3> QED  BY <3>1, <2>1, <1>9
    <2>2. CASE k \notin 1 .. N
      <3>1. PICK j \in 1 .. n : k = N + j
        <4>1. k - N \in 1 .. n /\ k = N + (k - N)  BY <2>2
        <4> QED  BY <4>1
      <3>2. a[k] = To(v[k]) /\ v[k] = f.payload[j] /\ w[k] = f.payload[j]
        BY <3>1, <1>6, <1>7, <1>8
      <3> QED  BY <3>2, <1>10
    <2> QED  BY <2>1, <2>2
  <1>12. a = w  BY <1>7, <1>8, <1>11
  <1> QED  BY <1>3, <1>4, <1>5, <1>12

\* So are any number of them.
LEMMA AddressedEncoded ==
    ASSUME NEW fs \in Seq(PlainFrame), NEW sid \in Nat
    PROVE  Addressed(Encoded(fs, 0), sid) = Encoded(fs, sid)
  <1> DEFINE S == {q \in Seq(PlainFrame) : Addressed(Encoded(q, 0), sid) = Encoded(q, sid)}
  <1>1. <<>> \in S
    <2>1. PICK e \in Seq(Cell) : e = <<>>  BY EmptySeq
    <2>2. Encoded(<<>>, 0) = e /\ Encoded(<<>>, sid) = e  BY <2>1, EncodedEmpty
    <2>3. Addressed(e, sid) \in Seq(Cell) /\ Len(Addressed(e, sid)) = 0
      BY <2>1, AddressedFacts
    <2>4. Addressed(e, sid) = e  BY <2>1, <2>3, NoElements
    <2>5. <<>> \in Seq(PlainFrame)  BY EmptySeq
    <2> QED  BY <2>2, <2>4, <2>5
  <1>2. ASSUME NEW q \in Seq(PlainFrame), NEW f \in PlainFrame, q \in S
        PROVE  Append(q, f) \in S
    <2>1. q \in Seq(ResponseFrame) /\ f \in ResponseFrame
      <3>1. PlainFrame \subseteq ResponseFrame  BY DEF PlainFrame
      <3> HIDE DEF S, PlainFrame
      <3>2. q \in Seq(ResponseFrame)  BY <3>1
      <3> QED  BY <3>1, <3>2
    <2>2. PICK x \in Seq(Cell) : x = Encoded(q, 0)  BY <2>1, EncodedType
    <2>3. PICK y \in Seq(Cell) : y = Wired(f, 0)  BY <2>1, WiredFacts
    <2>4. Encoded(Append(q, f), 0) = Cat(x, y)  BY <2>1, <2>2, <2>3, EncodedAppend DEF Cat
    <2>5. Encoded(Append(q, f), sid) = Cat(Encoded(q, sid), Wired(f, sid))
      BY <2>1, EncodedAppend DEF Cat
    <2>6. Addressed(Cat(x, y), sid) = Cat(Addressed(x, sid), Addressed(y, sid))
      BY AddressedCat
    <2>7. Addressed(x, sid) = Encoded(q, sid)  BY <1>2, <2>2
    <2>8. Addressed(y, sid) = Wired(f, sid)  BY <2>3, AddressedFrame
    <2>9. Append(q, f) \in Seq(PlainFrame)  OBVIOUS
    <2> QED  BY <2>4, <2>5, <2>6, <2>7, <2>8, <2>9
  <1> HIDE DEF S
  <1>3. fs \in S  BY <1>1, <1>2, SeqInd
  <1> QED  BY <1>3 DEF S

-----------------------------------------------------------------------------
(* What a client understands *)

\* An HTTP/1.1 response is understood.
LEMMA Http1Understood ==
    ASSUME NEW p \in Paths, NEW n \in Nat
    PROVE  Understood(Http1(p, n)) = [path |-> p, sid |-> 0, size |-> n]
  <1>1. PICK h : h = [k \in 1 .. Http1Head |-> Byte("head", p, n)]  OBVIOUS
  <1>2. Http1Head \in Nat /\ 1 \in 1 .. Http1Head  BY RoutesAssumption
  <1>3. h \in Seq(Cell) /\ Len(h) = Http1Head
    <2>1. Byte("head", p, n) \in Cell  BY ByteType DEF Kinds
    <2>2. h \in [1 .. Http1Head -> Cell]  BY <2>1, <1>1
    <2> QED  BY <2>2, <1>2, CellSeq
  <1>4. PICK b \in Seq(Cell) : b = Body(p, 0, n)  BY BodyFacts
  <1>5. PICK bytes : bytes = Http1(p, n)  OBVIOUS
  <1>6. bytes = Cat(h, b)  BY <1>1, <1>4, <1>5 DEF Http1, Cat
  <1>7. bytes[1] = h[1]
    <2>1. Joined(bytes, h, b)  BY <1>3, <1>6, CatJoins
    <2> QED  BY <2>1, <1>2, <1>3 DEF Joined
  <1>8. h[1] = Byte("head", p, n)  BY <1>1, <1>2
  <1>9. bytes[1].is = "head" /\ bytes[1].of = p /\ bytes[1].n = n
    BY <1>7, <1>8 DEF Byte
  <1>10. Understood(bytes) = [path |-> p, sid |-> 0, size |-> n]
    BY <1>5, <1>9 DEF Understood
  <1> QED  BY <1>5, <1>10

\* So is an HTTP/2 response on a stream.
LEMMA Http2Understood ==
    ASSUME NEW p \in Paths, NEW n \in Nat, NEW sid \in Nat, NEW gs,
           Framed(gs, p, n, n, "end_stream")
    PROVE  Understood(Encoded(gs, sid)) = [path |-> p, sid |-> sid, size |-> n]
  <1>1. PICK l : l = Len(gs)  OBVIOUS
  <1>2. /\ gs \in Seq(PlainFrame) /\ gs # <<>> /\ gs[1] = HeadFrame(p, n)
        /\ \A k \in 2 .. l :
              /\ gs[k].kind = "data" /\ Len(gs[k].payload) <= MaxFrameSize
              /\ gs[k].flags = IF k = l THEN "end_stream" ELSE "none"
        /\ l > 1 /\ DataOf(gs) = Body(p, 0, n)
    BY <1>1 DEF Framed
  <1>3. gs \in Seq(ResponseFrame) /\ l \in Nat
    BY <1>1, <1>2, PlainFrames, LenProperties
  <1>4. PICK bytes \in Seq(Cell) : bytes = Encoded(gs, sid)  BY <1>3, EncodedType
  <1>5. PICK fs : fs = AllRead(gs, sid)  OBVIOUS
  <1>6. Frames(bytes) = fs  BY <1>3, <1>4, <1>5, FramesRead
  <1>7. /\ fs \in Seq(ClientFrame) /\ Len(fs) = l
        /\ \A k \in 1 .. l : fs[k] = Read(gs[k], sid)
    BY <1>1, <1>3, <1>5, AllReadFacts
  <1>8. \A k \in 1 .. l :
           /\ fs[k].kind = gs[k].kind /\ fs[k].flags = gs[k].flags /\ fs[k].sid = sid
           /\ fs[k].payload = gs[k].payload
    BY <1>7 DEF Read
  <1>9. 1 \in 1 .. l /\ l \in 1 .. l /\ l \in 2 .. l /\ DOMAIN fs = 1 .. l
    BY <1>2, <1>3, <1>7, LenProperties
  <1>10. /\ fs[1].kind = "headers" /\ fs[1].flags = "end_headers"
         /\ fs[1].payload[1] = Byte("hpack", p, n)
    BY <1>2, <1>8, <1>9, HeadFrameType DEF HeadFrame
  <1>11. bytes[1].is = "headers"
    <2>1. PICK f \in ResponseFrame : f = gs[1]  BY <1>3, <1>9, <1>1, ElementOfSeq
    <2>2. PICK q \in Seq(ResponseFrame) : gs = <<f>> \o q
      <3>1. PICK q : q = Tail(gs)  OBVIOUS
      <3>2. q \in Seq(ResponseFrame) /\ gs = <<gs[1]>> \o q  BY <3>1, <1>2, <1>3
      <3> QED  BY <3>2, <2>1
    <2>3. PICK w \in Seq(Cell) : w = Wired(f, sid)  BY WiredFacts
    <2>4. PICK e \in Seq(Cell) : e = Encoded(q, sid)  BY EncodedType
    <2>5. bytes = Cat(w, e)  BY <1>4, <2>2, <2>3, <2>4, EncodedCons DEF Cat
    <2>6. Joined(bytes, w, e)  BY <2>5, CatJoins
    <2>7. /\ HeaderLen \in Nat /\ HeaderLen > 1 /\ Len(f.payload) \in Nat
          /\ Len(w) = HeaderLen + Len(f.payload)
          /\ \A k \in 1 .. HeaderLen :
                w[k] = FrameHeader(f.kind, f.flags, Len(f.payload), sid)[k]
      BY <2>3, WiredFacts
    <2>8. 1 \in 1 .. Len(w) /\ 1 \in 1 .. HeaderLen  BY <2>7
    <2>9. bytes[1] = FrameHeader(f.kind, f.flags, Len(f.payload), sid)[1]
      BY <2>6, <2>7, <2>8 DEF Joined
    <2>10. 1 \in 1 .. SidAt + SidLen /\ 1 <= SidAt  BY RoutesAssumption
    <2>11. bytes[1] = Byte(f.kind, f.flags, Len(f.payload))
      BY <2>9, <2>10 DEF FrameHeader
    <2>12. f.kind = "headers"  BY <2>1, <1>2 DEF HeadFrame
    <2> QED  BY <2>11, <2>12 DEF Byte
  <1>12. FlattenSeq([k \in 1 .. Len(fs) - 1 |-> fs[k + 1].payload]) = Body(p, 0, n)
    <2>1. \A k \in 1 .. l - 1 : k + 1 \in 1 .. l  BY <1>3
    <2>2. [k \in 1 .. l - 1 |-> fs[k + 1].payload] = [k \in 1 .. l - 1 |-> gs[k + 1].payload]
      BY <2>1, <1>8
    <2>3. [k \in 1 .. Len(fs) - 1 |-> fs[k + 1].payload]
              = [k \in 1 .. Len(gs) - 1 |-> gs[k + 1].payload]
      BY <2>2, <1>1, <1>7
    <2> QED  BY <2>3, <1>2 DEF DataOf
  <1>13. ASSUME NEW k \in 1 .. l
         PROVE  /\ fs[k].kind = (IF k = 1 THEN "headers" ELSE "data")
                /\ fs[k].sid = fs[l].sid
                /\ k > 1 => Len(fs[k].payload) <= MaxFrameSize
                /\ fs[k].flags = CASE k = 1 -> "end_headers"
                                   [] k = l -> "end_stream"
                                   [] OTHER -> "none"
    <2>1. fs[k].sid = fs[l].sid  BY <1>8, <1>9
    <2>2. CASE k = 1
      <3>1. fs[k].kind = "headers" /\ fs[k].flags = "end_headers" /\ k # l /\ ~(k > 1)
        BY <2>2, <1>2, <1>10
      <3> QED  BY <3>1, <2>1, <2>2
    <2>3. CASE k # 1
      <3>1. k \in 2 .. l /\ k > 1  BY <2>3
      <3>2. /\ fs[k].kind = "data" /\ Len(fs[k].payload) <= MaxFrameSize
            /\ fs[k].flags = IF k = l THEN "end_stream" ELSE "none"
        BY <3>1, <1>2, <1>8
      <3> QED  BY <3>1, <3>2, <2>1, <2>3
    <2> QED  BY <2>2, <2>3
  <1>14. fs[l].kind = "data"  BY <1>2, <1>8, <1>9
  <1>15. Understood(bytes) =
             [path |-> fs[1].payload[1].of, sid |-> fs[l].sid, size |-> fs[1].payload[1].n]
    <2>1. fs[1].payload[1].of = p /\ fs[1].payload[1].n = n  BY <1>10 DEF Byte
    <2>2. ~(bytes[1].is = "head")  BY <1>11
    <2>3. Len(fs) > 1 /\ fs[Len(fs)].kind = "data"  BY <1>2, <1>7, <1>14
    <2>4. \A k \in DOMAIN fs :
             /\ fs[k].kind = (IF k = 1 THEN "headers" ELSE "data")
             /\ fs[k].sid = fs[Len(fs)].sid
             /\ k > 1 => Len(fs[k].payload) <= MaxFrameSize
             /\ fs[k].flags = CASE k = 1 -> "end_headers"
                                [] k = Len(fs) -> "end_stream"
                                [] OTHER -> "none"
      BY <1>7, <1>9, <1>13
    <2>5. FlattenSeq([k \in 1 .. Len(fs) - 1 |-> fs[k + 1].payload])
              = Body(fs[1].payload[1].of, 0, fs[1].payload[1].n)
      BY <2>1, <1>12
    <2> QED  BY <1>6, <1>7, <1>11, <2>2, <2>3, <2>4, <2>5 DEF Understood
  <1>16. fs[1].payload[1].of = p /\ fs[1].payload[1].n = n /\ fs[l].sid = sid
    BY <1>8, <1>9, <1>10 DEF Byte
  <1> QED  BY <1>4, <1>15, <1>16

-----------------------------------------------------------------------------
(* The requests of a message and its bytes *)

\* The bytes of requests behind the first `n`.
Numbered(rs, n) == FlattenSeq([k \in DOMAIN rs |-> RequestBytes(rs[k], n + k)])

\* A request is as many bytes as there are of it.
LEMMA RequestBytesFacts ==
    ASSUME NEW r \in HttpRequest, NEW n \in Nat
    PROVE  RequestBytes(r, n) \in Seq(Cell) /\ Len(RequestBytes(r, n)) = r.arrived
  <1>1. PICK a \in Nat : a = r.arrived  BY DEF HttpRequest
  <1>2. r.path \in Paths  BY DEF HttpRequest
  <1>3. Byte("request", r.path, n) \in Cell  BY <1>2, ByteType DEF Kinds
  <1>4. RequestBytes(r, n) = [k \in 1 .. a |-> Byte("request", r.path, n)]
    BY <1>1 DEF RequestBytes
  <1>5. RequestBytes(r, n) \in [1 .. a -> Cell]  BY <1>3, <1>4
  <1> QED  BY <1>1, <1>5, CellSeq

\* The bytes of requests one by one.
LEMMA NumberedSeq ==
    ASSUME NEW rs \in Seq(HttpRequest), NEW n \in Nat
    PROVE  LET fs == [k \in DOMAIN rs |-> RequestBytes(rs[k], n + k)] IN
           fs \in Seq(Seq(Cell)) /\ Len(fs) = Len(rs)
  <1>1. PICK l \in Nat : l = Len(rs)  BY LenProperties
  <1>2. DOMAIN rs = 1 .. l  BY <1>1, LenProperties
  <1>3. ASSUME NEW k \in 1 .. l  PROVE RequestBytes(rs[k], n + k) \in Seq(Cell)
    <2>1. rs[k] \in HttpRequest  BY <1>1, ElementOfSeq
    <2>2. n + k \in Nat  OBVIOUS
    <2> QED  BY <2>1, <2>2, RequestBytesFacts
  <1>4. [k \in 1 .. l |-> RequestBytes(rs[k], n + k)] \in [1 .. l -> Seq(Cell)]  BY <1>3
  <1> QED  BY <1>1, <1>2, <1>4, FunSeq

\* They are a run of bytes.
LEMMA NumberedType ==
    ASSUME NEW rs \in Seq(HttpRequest), NEW n \in Nat
    PROVE  Numbered(rs, n) \in Seq(Cell)
  BY NumberedSeq, FlattenType DEF Numbered

\* The bytes of the first request are in front of the others.
LEMMA NumberedCons ==
    ASSUME NEW rs \in Seq(HttpRequest), rs # <<>>, NEW n \in Nat
    PROVE  Numbered(rs, n) = Cat(RequestBytes(Head(rs), n + 1), Numbered(Tail(rs), n + 1))
  <1>1. PICK q \in Seq(HttpRequest) : q = Tail(rs)  BY HeadTailProperties
  <1>2. PICK l \in Nat : l = Len(q)  BY LenProperties
  <1>3. /\ Len(rs) = l + 1 /\ rs[1] = Head(rs) /\ Head(rs) \in HttpRequest
        /\ \A k \in 1 .. l : q[k] = rs[k + 1]
    BY <1>1, <1>2, HeadTailProperties
  <1>4. PICK x \in Seq(Cell) : x = RequestBytes(Head(rs), n + 1)
    <2>1. n + 1 \in Nat  OBVIOUS
    <2> QED  BY <2>1, <1>3, RequestBytesFacts
  <1> DEFINE v == [k \in DOMAIN rs |-> RequestBytes(rs[k], n + k)]
             w == [k \in DOMAIN q |-> RequestBytes(q[k], (n + 1) + k)]
  <1>5. v \in Seq(Seq(Cell)) /\ Len(v) = l + 1  BY <1>3, NumberedSeq
  <1>6. w \in Seq(Seq(Cell)) /\ Len(w) = l
    <2>1. n + 1 \in Nat  OBVIOUS
    <2> QED  BY <2>1, <1>2, NumberedSeq
  <1>7. DOMAIN rs = 1 .. l + 1 /\ DOMAIN q = 1 .. l  BY <1>2, <1>3, LenProperties
  <1>8. v[1] = x  BY <1>3, <1>4, <1>7
  <1>9. ASSUME NEW k \in 1 .. l  PROVE v[k + 1] = w[k]
    <2>1. k + 1 \in 1 .. l + 1 /\ n + (k + 1) = (n + 1) + k  OBVIOUS
    <2> QED  BY <2>1, <1>3, <1>7
  <1>10. Numbered(rs, n) = FlattenSeq(v) /\ Numbered(q, n + 1) = FlattenSeq(w)
    BY DEF Numbered
  <1> HIDE DEF v, w
  <1>11. PICK c : c = <<x>> \o w  OBVIOUS
  <1>12. /\ c \in Seq(Seq(Cell)) /\ Len(c) = l + 1 /\ c[1] = x
         /\ \A k \in 1 .. l : c[k + 1] = w[k]
    BY <1>4, <1>6, <1>11
  <1>13. ASSUME NEW k \in 1 .. l + 1  PROVE v[k] = c[k]
    <2>1. CASE k = 1  BY <2>1, <1>8, <1>12
    <2>2. CASE k # 1
      <3>1. k - 1 \in 1 .. l /\ k = (k - 1) + 1  BY <2>2
      <3> QED  BY <3>1, <1>9, <1>12
    <2> QED  BY <2>1, <2>2
  <1>14. v = c  BY <1>5, <1>12, <1>13
  <1>15. FlattenSeq(<<x>> \o w) = x \o FlattenSeq(w)  BY <1>4, <1>6, FlattenCons
  <1> QED  BY <1>1, <1>4, <1>10, <1>11, <1>14, <1>15 DEF Cat

\* A message that arrives is all of its requests.
LEMMA ArrivedNumbered ==
    ASSUME NEW rs \in Seq(HttpRequest)
    PROVE  Arrived(rs) = Numbered(rs, 0)
  <1>1. PICK l \in Nat : l = Len(rs)  BY LenProperties
  <1>2. DOMAIN rs = 1 .. l  BY <1>1, LenProperties
  <1>3. \A k \in 1 .. l : 0 + k = k  OBVIOUS
  <1>4. [k \in 1 .. l |-> RequestBytes(rs[k], k)]
            = [k \in 1 .. l |-> RequestBytes(rs[k], 0 + k)]
    BY <1>3
  <1> QED  BY <1>2, <1>4 DEF Arrived, Numbered

\* Two runs of bytes in a row are taken apart where the first ends.
LEMMA JoinedParts ==
    ASSUME NEW z \in Seq(Cell), NEW x \in Seq(Cell), NEW y \in Seq(Cell), Joined(z, x, y)
    PROVE  SubSeq(z, 1, Len(x)) = x /\ SubSeq(z, Len(x) + 1, Len(z)) = y
  <1>1. PICK n \in Nat, b \in Nat, c \in Nat : n = Len(x) /\ b = Len(y) /\ c = n + b
    <2>1. Len(x) \in Nat /\ Len(y) \in Nat  BY CellFacts
    <2>2. Len(x) + Len(y) \in Nat  BY <2>1
    <2> QED  BY <2>1, <2>2
  <1>2. /\ Len(z) = c /\ \A k \in 1 .. b : z[n + k] = y[k]
        /\ \A k \in 1 .. n : z[k] = x[k]
    BY <1>1 DEF Joined
  <1>3. PICK s : s = SubSeq(z, n + 1, c)  OBVIOUS
  <1>4. s \in Seq(Cell) /\ Len(s) = b /\ \A k \in 1 .. b : s[k] = z[n + k]
    BY <1>1, <1>2, <1>3
  <1>5. s = y  BY <1>1, <1>2, <1>4
  <1>6. PICK t : t = SubSeq(z, 1, n)  OBVIOUS
  <1>7. t \in Seq(Cell) /\ Len(t) = n /\ \A k \in 1 .. n : t[k] = z[k]
    BY <1>1, <1>2, <1>6
  <1>8. t = x  BY <1>1, <1>2, <1>7
  <1> QED  BY <1>1, <1>2, <1>3, <1>5, <1>6, <1>8

\* A request that is no longer than the message has arrived completely.
LEMMA ServedWhole ==
    ASSUME NEW rs \in Seq(HttpRequest), rs # <<>>, NEW n \in Nat, Takes(rs, n),
           Head(rs).len <= n
    PROVE  Head(rs).arrived = Head(rs).len
  <1>1. PICK t : Left(rs, t) /\ t[1] = n  BY DEF Takes, Fill
  <1>2. PICK l \in Nat : l = Len(rs)  BY LenProperties
  <1>3. 1 \in 1 .. l  BY <1>2, EmptySeq
  <1>4. rs[1] \in HttpRequest /\ Head(rs) = rs[1]
    BY <1>2, <1>3, ElementOfSeq, HeadTailProperties
  <1>5. /\ t[l + 1] = 0 /\ t[1] = rs[1].arrived + t[1 + 1]  BY <1>1, <1>2, <1>3 DEF Left
  <1>6. rs[1].arrived <= rs[1].len /\ (1 # l => rs[1].arrived = rs[1].len)
    BY <1>2, <1>3 DEF Takes, Whole
  <1>7. rs[1].arrived \in Nat /\ rs[1].len \in Nat  BY <1>4 DEF HttpRequest
  <1>8. l = 1 => n = rs[1].arrived  BY <1>1, <1>5, <1>7
  <1> QED  BY <1>4, <1>6, <1>7, <1>8

-----------------------------------------------------------------------------
(* The bytes of a message, and those of its requests *)

\* The request in hand is one the route answers, with a response that is not empty and
\* fits the stream, and behind it are the bytes of the other requests.
InTurn ==
    pc \in {"resize", "copy", "patch", "redirect"} =>
        /\ behind = Numbered(Tail(requests), Len(egress) + 1)
        /\ prepared[route].path = Request.path
        /\ Request.sid # 0 => prepared[route].h2.data_len <= flow_ctl.stream_window
        /\ Len(Response) # 0

\* Up to the first helper call that changes it, a message is what its requests are.
Untouched ==
    pc = "run" \/ (pc = "resize" /\ (Len(msg) > Target \/ (turn = 0 /\ Len(msg) < Target)))
        => msg = Numbered(requests, Len(egress))

\* What is sent so far is as many responses as requests were answered, and user space
\* has none of the message before it has all that is left.
Passing ==
    /\ egress \in Seq(Seq(Cell))
    /\ pc = "idle" => requests = <<>> /\ egress = <<>>
    /\ pc # "handed" => ingress = <<>>
    /\ InTurn /\ Untouched

\* No message is there at first.
LEMMA PassingInit == Init => Passing
  <1> SUFFICES ASSUME Init  PROVE Passing
    OBVIOUS
  <1>1. <<>> \in Seq(Seq(Cell))  BY EmptySeq
  <1> QED  BY <1>1 DEF Init, Passing, InTurn, Untouched

\* A message arrives as its requests are.
LEMMA ArrivePassing ==
    ASSUME Inv, Passing, Arrive, UNCHANGED routeVars
    PROVE  Passing'
  <1>1. /\ pc = "idle" /\ pc' = "run" /\ UNCHANGED <<egress, ingress>>
    BY DEF Arrive
  <1>2. PICK m \in Messages : requests' = m.requests /\ msg' = Arrived(m.requests)
    BY DEF Arrive
  <1>3. PICK rs \in Seq(HttpRequest) : rs = m.requests
    BY ServingAssumption DEF HttpRequest
  <1>4. egress = <<>> /\ ingress = <<>>  BY <1>1 DEF Passing
  <1>5. Len(egress') = 0  BY <1>1, <1>4, EmptySeq
  <1>6. msg' = Numbered(rs, 0)  BY <1>2, <1>3, ArrivedNumbered
  <1>7. Untouched'  BY <1>2, <1>3, <1>5, <1>6 DEF Untouched
  <1> QED  BY <1>1, <1>4, <1>7 DEF Passing, InTurn

\* Once it is passed on or dropped nothing is said of it.
LEMMA EndPassing ==
    ASSUME Passing, Helpers \/ NotServed
    PROVE  Passing'
  <1>1. /\ pc' \in {"handed", "dropped"} /\ egress' = egress
        /\ pc' = "dropped" => ingress' = ingress
        /\ pc # "handed"
    BY DEF Helpers, NotServed, GrowFailsFirst, GrowFailsLater, ShrinkFails, CopyFails,
           WriteSidFails, RedirectFails, HandOver, Drop, Growing, Shrinking, Copying,
           Patching
  <1> QED  BY <1>1 DEF Passing, InTurn, Untouched

\* serve_route begins with a request that has arrived completely.
LEMMA ServePassing ==
    ASSUME Inv, Remaining, Passing, NEW i \in DOMAIN prepared, Serve(i), UNCHANGED routeVars
    PROVE  Passing'
  <1>1. /\ pc = "run" /\ pc' = "resize" /\ route' = i
        /\ behind' = SubSeq(msg, Request.len + 1, Len(msg))
        /\ UNCHANGED <<requests, msg, flow_ctl, egress, ingress>>
        /\ requests # <<>> /\ Room(i, Request.sid) /\ Request.len <= Len(msg)
        /\ prepared[i].path = Request.path
        /\ Len(Rendering(i, Request.sid)) \in 1 .. MaxRouteBody
    BY DEF Serve, Servable
  <1>2. prepared' = prepared  BY DEF routeVars
  <1>3. RunType /\ RoutesInv /\ requests \in Seq(HttpRequest)  BY DEF Inv, RunInv, RunType
  <1>4. PICK n \in Nat, l \in Nat, q \in Nat :
            n = Len(egress) /\ l = Len(msg) /\ q = Request.len
    <2>1. Len(egress) \in Nat  BY LenProperties DEF Passing
    <2>2. Len(msg) \in Nat  BY <1>3, CellFacts DEF RunType
    <2>3. Request.len \in Nat  BY <1>1, <1>3, RequestType
    <2> QED  BY <2>1, <2>2, <2>3
  <1>5. msg = Numbered(requests, n)  BY <1>1, <1>4 DEF Passing, Untouched
  <1>6. Request \in HttpRequest /\ Tail(requests) \in Seq(HttpRequest)
        /\ Request.sid \in Nat
    BY <1>1, <1>3, RequestType
  <1>7. n + 1 \in Nat  BY <1>4
  <1>8. PICK x \in Seq(Cell), y \in Seq(Cell) :
            x = RequestBytes(Request, n + 1) /\ y = Numbered(Tail(requests), n + 1)
    BY <1>6, <1>7, RequestBytesFacts, NumberedType
  <1>9. msg = Cat(x, y)  BY <1>1, <1>3, <1>4, <1>5, <1>8, NumberedCons DEF Request
  <1>10. Len(x) = q
    <2>1. Takes(requests, l)  BY <1>1, <1>4 DEF Remaining
    <2>2. Request.arrived = Request.len
      BY <2>1, <1>1, <1>3, <1>4, ServedWhole DEF Request
    <2>3. Len(x) = Request.arrived  BY <1>6, <1>7, <1>8, RequestBytesFacts
    <2> QED  BY <2>2, <2>3, <1>4
  <1>11. behind' = y
    <2>1. Joined(msg, x, y)  BY <1>9, CatJoins
    <2>2. msg \in Seq(Cell)  BY <1>3 DEF RunType
    <2>3. PICK z \in Seq(Cell) : z = msg  BY <2>2
    <2>4. Joined(z, x, y)  BY <2>1, <2>3
    <2>5. SubSeq(z, Len(x) + 1, Len(z)) = y  BY <2>4, JoinedParts
    <2> QED  BY <2>3, <2>5, <1>1, <1>4, <1>10
  <1>12. Request' = Request  BY <1>1 DEF Request
  <1>13. Response' = Rendering(i, Request.sid)
    BY <1>1, <1>2, <1>12 DEF Response, Rendering
  <1>14. Len(Response') # 0
    <2>1. MaxRouteBody \in Nat  BY MaxRouteBodyType
    <2> HIDE DEF MaxRouteBody
    <2> QED  BY <2>1, <1>1, <1>13
  <1>15. Request.sid # 0 => prepared[i].h2.data_len <= flow_ctl.stream_window
    <2>1. i \in 1 .. Len(prepared)
      BY <1>3, LenProperties DEF RoutesInv, RoutesType
    <2>2. prepared[i].h2.data_len \in Nat  BY <2>1, <1>3, <1>6, RenderingFacts
    <2>3. flow_ctl.stream_window \in Nat  BY <1>3 DEF RunType
    <2> QED  BY <2>2, <2>3, <1>1 DEF Room
  <1>16. InTurn'
    <2>1. behind' = Numbered(Tail(requests'), Len(egress') + 1)
      BY <1>1, <1>4, <1>8, <1>11
    <2> QED  BY <2>1, <1>1, <1>2, <1>12, <1>14, <1>15 DEF InTurn
  <1>17. Untouched'  BY <1>1, <1>4, <1>5 DEF Untouched
  <1> QED  BY <1>1, <1>16, <1>17 DEF Passing

\* A message does not grow past the response.
LEMMA GrownNoFurther ==
    ASSUME Inv, Grow
    PROVE  turn' # 0 /\ Len(msg') <= Target
  <1>1. /\ pc = "resize" /\ Len(msg) < Target /\ turn' = turn + 1
        /\ msg' = Pushed(msg, GrowthAt, Least(Target - Len(msg), Chunk))
    BY DEF Grow, Growing
  <1>2. PICK l \in Nat, b \in Nat, t \in Nat, q \in Nat :
            l = Len(msg) /\ b = Len(behind) /\ t = Target /\ q = Request.len
    <2>1. /\ Len(msg) \in Nat /\ Len(behind) \in Nat /\ Request.len \in Nat
          /\ Len(Response) \in Nat /\ Target = Len(Response) + Len(behind)
      BY <1>1, InHandFacts
    <2>2. Target \in Nat  BY <2>1
    <2> QED  BY <2>1, <2>2
  <1>3. /\ EndsWith(msg, behind) /\ GrowthAt = l - b
        /\ msg \in Seq(Cell) /\ behind \in Seq(Cell) /\ turn \in Nat
    <2>1. EndsWith(msg, behind) /\ orig_size = q + b  BY <1>1, <1>2, InHandFacts
    <2>2. GrowthAt = q + l - orig_size  BY <1>2 DEF GrowthAt
    <2>3. GrowthAt = l - b  BY <2>1, <2>2, <1>2
    <2>4. msg \in Seq(Cell) /\ behind \in Seq(Cell) /\ turn \in Nat
      BY DEF Inv, RunInv, RunType
    <2> QED  BY <2>1, <2>3, <2>4
  <1>4. PICK n \in Nat : n = Least(t - l, Chunk) /\ l + n <= t
    <2>1. l < t /\ Chunk \in Nat  BY <1>1, <1>2, RoutesAssumption
    <2>2. Least(t - l, Chunk) \in Nat /\ l + Least(t - l, Chunk) <= t
      BY <2>1 DEF Least
    <2> QED  BY <2>2
  <1>5. Len(Pushed(msg, Len(msg) - Len(behind), n)) = Len(msg) + n
    BY <1>3, PushedFacts
  <1>6. Len(msg') = l + n  BY <1>1, <1>2, <1>3, <1>4, <1>5
  <1>7. turn' # 0  BY <1>1, <1>3
  <1> QED  BY <1>2, <1>4, <1>6, <1>7

\* It shrinks to the response at once.
LEMMA ShrunkToTarget ==
    ASSUME Inv, Shrink
    PROVE  Len(msg') = Target
  <1>1. /\ pc = "resize" /\ Len(msg) > Target
        /\ msg' = Popped(msg, Len(Response), Request.len - Len(Response))
    BY DEF Shrink, Shrinking
  <1>2. PICK l \in Nat, b \in Nat, n \in Nat, q \in Nat :
            l = Len(msg) /\ b = Len(behind) /\ n = Len(Response) /\ q = Request.len
    BY <1>1, InHandFacts
  <1>3. /\ EndsWith(msg, behind) /\ Target = n + b /\ orig_size = q + b
        /\ msg \in Seq(Cell) /\ behind \in Seq(Cell)
    BY <1>1, <1>2, InHandFacts DEF Inv, RunInv, RunType
  <1>4. l = q + b /\ l > n + b
    BY <1>1, <1>2, <1>3 DEF Inv, RunInv, Resizing
  <1>5. PICK cut \in Nat : cut = q - n /\ n + cut = l - b  BY <1>4
  <1>6. n + cut = Len(msg) - Len(behind)  BY <1>2, <1>5
  <1>7. Len(Popped(msg, n, cut)) = Len(msg) - cut  BY <1>3, <1>6, PoppedFacts
  <1>8. Len(msg') = l - cut  BY <1>1, <1>2, <1>5, <1>7
  <1> QED  BY <1>3, <1>4, <1>5, <1>8

\* As long as the request is in hand what is behind it is as well.
LEMMA HandPassing ==
    ASSUME Inv, Passing, UNCHANGED routeVars,
           \/ Grow \/ Shrink \/ Resized \/ CopyChunk \/ CopyEnds \/ WriteSid \/ PatchEnds
    PROVE  Passing'
  <1>1. /\ pc \in {"resize", "copy", "patch", "redirect"}
        /\ pc' \in {"resize", "copy", "patch", "redirect", "dropped"}
        /\ UNCHANGED <<requests, orig_size, route, flow_ctl, egress, ingress, behind>>
    BY DEF Grow, Growing, Shrink, Shrinking, Resized, CopyChunk, Copying, CopyEnds, WriteSid,
           Patching, PatchEnds
  <1>2. prepared' = prepared  BY DEF routeVars
  <1>3. Request' = Request /\ Response' = Response /\ Target' = Target
    BY <1>1, <1>2 DEF Request, Response, Rendering, Target
  <1>4. InTurn'  BY <1>1, <1>2, <1>3 DEF Passing, InTurn
  <1>5. Untouched'
    <2>1. Len(msg') \in Nat /\ Target \in Nat
      <3>1. Inv'
        <4>1. [Next]_vars  BY DEF Next, Run
        <4> QED  BY <4>1, NextInv
      <3>2. msg' \in Seq(Cell)  BY <3>1 DEF Inv, RunInv, RunType
      <3>3. Len(msg') \in Nat  BY <3>2, CellFacts
      <3> QED  BY <3>3, <1>1, InHandFacts
    <2>2. CASE Grow
      <3>1. turn' # 0 /\ Len(msg') <= Target /\ pc' = pc /\ pc = "resize"
        BY <2>2, GrownNoFurther DEF Grow, Growing
      <3> QED  BY <3>1, <2>1, <1>3 DEF Untouched
    <2>3. CASE Shrink
      <3>1. Len(msg') = Target /\ pc' = pc /\ pc = "resize"
        BY <2>3, ShrunkToTarget DEF Shrink, Shrinking
      <3> QED  BY <3>1, <2>1, <1>3 DEF Untouched
    <2>4. CASE ~Grow /\ ~Shrink
      <3>1. pc' # "resize" /\ pc' # "run"
        BY <2>4, <1>1 DEF Resized, CopyChunk, Copying, CopyEnds, WriteSid, Patching,
                          PatchEnds
      <3> QED  BY <3>1 DEF Untouched
    <2> QED  BY <2>2, <2>3, <2>4
  <1> QED  BY <1>1, <1>4, <1>5 DEF Passing

\* What is redirected is the response on its stream, and what followed the request is
\* all that is left.
LEMMA RedirectFacts ==
    ASSUME Inv, Redirect
    PROVE  /\ msg' = behind
           /\ egress' = Append(egress, Addressed(Response, Request.sid))
           /\ Addressed(Response, Request.sid) \in Seq(Cell)
  <1>1. /\ pc = "redirect" /\ msg' = SubSeq(msg, Len(Response) + 1, Len(msg))
        /\ egress' = Append(egress, SubSeq(msg, 1, Len(Response)))
    BY DEF Redirect
  <1>2. PICK n \in Nat, l \in Nat, b \in Nat :
            n = Len(Response) /\ l = Len(msg) /\ b = Len(behind)
    BY <1>1, InHandFacts
  <1>3. /\ Request.sid \in Nat /\ Response \in Seq(Cell) /\ EndsWith(msg, behind)
        /\ msg \in Seq(Cell) /\ behind \in Seq(Cell)
    BY <1>1, InHandFacts DEF Inv, RunInv, RunType
  <1>4. PICK r \in Seq(Cell) : r = Addressed(Response, Request.sid) /\ Len(r) = n
    BY <1>2, <1>3, AddressedFacts
  <1>5. l = n + b /\ \A k \in 1 .. n : msg[k] = r[k]
    BY <1>1, <1>2, <1>4 DEF Inv, RunInv, Finished, Sized
  <1>6. \A k \in 1 .. b : msg[n + k] = behind[k]
    <2>1. \A k \in 1 .. b : msg[l - b + k] = behind[k]  BY <1>2, <1>3 DEF EndsWith
    <2>2. l - b = n  BY <1>5
    <2> QED  BY <2>1, <2>2
  <1>7. Joined(msg, r, behind)  BY <1>2, <1>3, <1>4, <1>5, <1>6 DEF Joined
  <1>8. SubSeq(msg, 1, n) = r /\ SubSeq(msg, n + 1, Len(msg)) = behind
    <2>1. PICK z \in Seq(Cell), e \in Seq(Cell) : z = msg /\ e = behind  BY <1>3
    <2>2. Joined(z, r, e)  BY <2>1, <1>7
    <2>3. SubSeq(z, 1, Len(r)) = r /\ SubSeq(z, Len(r) + 1, Len(z)) = e
      BY <2>2, JoinedParts
    <2> QED  BY <2>1, <2>3, <1>4
  <1> QED  BY <1>1, <1>2, <1>4, <1>8

\* With a response more sent, what is left are the bytes of the other requests.
LEMMA RedirectPassing ==
    ASSUME Inv, Passing, Redirect
    PROVE  Passing'
  <1>1. /\ pc = "redirect" /\ pc' \in {"answered", "run"} /\ requests' = Tail(requests)
        /\ ingress' = ingress
    BY DEF Redirect
  <1>2. PICK r \in Seq(Cell) : r = Addressed(Response, Request.sid)  BY RedirectFacts
  <1>3. msg' = behind /\ egress' = Append(egress, r)  BY <1>2, RedirectFacts
  <1>4. egress \in Seq(Seq(Cell))  BY DEF Passing
  <1>5. egress' \in Seq(Seq(Cell)) /\ Len(egress') = Len(egress) + 1
    BY <1>3, <1>4, AppendProperties
  <1>6. msg' = Numbered(requests', Len(egress'))
    BY <1>1, <1>3, <1>5 DEF Passing, InTurn
  <1>7. Untouched'  BY <1>6 DEF Untouched
  <1> QED  BY <1>1, <1>5, <1>7 DEF Passing, InTurn

\* While attach is at work there are no messages, and no step stutters otherwise.
LEMMA RoutesPassing ==
    ASSUME Inv, Passing, RoutesNext \/ UNCHANGED routeVars, UNCHANGED runVars
    PROVE  Passing'
  <1>1. UNCHANGED <<pc, requests, msg, orig_size, route, turn, flow_ctl, egress, ingress,
                    behind>>
    BY DEF runVars
  <1>2. CASE RoutesNext
    <2>1. stage # "attached"
      BY <1>2 DEF RoutesNext, Bail, RenderHttp2, Rewrite, DataFrame, Prepare, Load,
                  CopyRoute, Attach, TooLarge, RenderHttp1, Route
    <2>2. pc = "idle"  BY <2>1 DEF Inv, RunInv, Ready
    <2> QED  BY <2>2, <1>1 DEF Passing, InTurn, Untouched
  <1>3. CASE UNCHANGED routeVars
    <2>1. prepared' = prepared  BY <1>3 DEF routeVars
    <2>2. Request' = Request /\ Response' = Response /\ Target' = Target
      BY <1>1, <2>1 DEF Request, Response, Target, Rendering
    <2> QED  BY <2>1, <2>2, <1>1 DEF Passing, InTurn, Untouched
  <1> QED  BY <1>2, <1>3

\* Every step keeps it.
LEMMA PassingNext ==
    ASSUME Inv, Remaining, Passing, [Next]_vars
    PROVE  Passing'
  <1>1. CASE RoutesNext /\ UNCHANGED runVars  BY <1>1, RoutesPassing
  <1>2. CASE Run /\ UNCHANGED routeVars
    BY <1>2, ArrivePassing, EndPassing, ServePassing, HandPassing, RedirectPassing DEF Run
  <1>3. CASE UNCHANGED vars  BY <1>3, RoutesPassing DEF vars
  <1> QED  BY <1>1, <1>2, <1>3 DEF Next

-----------------------------------------------------------------------------
(* What is promised *)

\* A request that was not dealt with, and those of a message behind the first `n`.
AskedRequest == [path : Paths, sid : Nat, bytes : Seq(Cell)]
AskedOf(r, n) == [path |-> r.path, sid |-> r.sid, bytes |-> RequestBytes(r, n)]
AllAsked(rs, n) == [k \in DOMAIN rs |-> AskedOf(rs[k], n + k)]

\* They are as many as the requests.
LEMMA AllAskedFacts ==
    ASSUME NEW rs \in Seq(HttpRequest), NEW n \in Nat
    PROVE  /\ AllAsked(rs, n) \in Seq(AskedRequest) /\ Len(AllAsked(rs, n)) = Len(rs)
           /\ \A k \in 1 .. Len(rs) : AllAsked(rs, n)[k] = AskedOf(rs[k], n + k)
           /\ rs # <<>> => AllAsked(rs, n) # <<>>
  <1>1. PICK l \in Nat : l = Len(rs)  BY LenProperties
  <1>2. DOMAIN rs = 1 .. l  BY <1>1, LenProperties
  <1>3. ASSUME NEW k \in 1 .. l  PROVE AskedOf(rs[k], n + k) \in AskedRequest
    <2>1. rs[k] \in HttpRequest  BY <1>1, ElementOfSeq
    <2>2. n + k \in Nat  OBVIOUS
    <2>3. RequestBytes(rs[k], n + k) \in Seq(Cell)  BY <2>1, <2>2, RequestBytesFacts
    <2> QED  BY <2>1, <2>3 DEF AskedOf, AskedRequest, HttpRequest
  <1>4. PICK a : a = [k \in 1 .. l |-> AskedOf(rs[k], n + k)]  OBVIOUS
  <1>5. a \in [1 .. l -> AskedRequest]  BY <1>3, <1>4
  <1>6. a \in Seq(AskedRequest) /\ Len(a) = l  BY <1>1, <1>5, FunSeq
  <1>7. AllAsked(rs, n) = a  BY <1>2, <1>4 DEF AllAsked
  <1>8. rs # <<>> => a # <<>>
    <2>1. rs # <<>> => l # 0  BY <1>1, NoElements
    <2> QED  BY <2>1, <1>6, EmptySeq
  <1> QED  BY <1>1, <1>4, <1>6, <1>7, <1>8

\* With the first request dealt with they are those behind it.
LEMMA AskedTail ==
    ASSUME NEW rs \in Seq(HttpRequest), rs # <<>>, NEW n \in Nat
    PROVE  /\ Head(AllAsked(rs, n)) = AskedOf(Head(rs), n + 1)
           /\ Tail(AllAsked(rs, n)) = AllAsked(Tail(rs), n + 1)
  <1>1. PICK q \in Seq(HttpRequest) : q = Tail(rs)  BY HeadTailProperties
  <1>2. PICK l \in Nat : l = Len(q)  BY LenProperties
  <1>3. Len(rs) = l + 1 /\ rs[1] = Head(rs) /\ \A k \in 1 .. l : q[k] = rs[k + 1]
    BY <1>1, <1>2, HeadTailProperties
  <1>4. PICK a \in Seq(AskedRequest) : a = AllAsked(rs, n)  BY AllAskedFacts
  <1>5. /\ Len(a) = l + 1 /\ \A k \in 1 .. l + 1 : a[k] = AskedOf(rs[k], n + k)
        /\ a # <<>>
    BY <1>3, <1>4, AllAskedFacts
  <1>6. n + 1 \in Nat  OBVIOUS
  <1>7. PICK b \in Seq(AskedRequest) : b = AllAsked(q, n + 1)  BY <1>6, AllAskedFacts
  <1>8. Len(b) = l /\ \A k \in 1 .. l : b[k] = AskedOf(q[k], (n + 1) + k)
    BY <1>2, <1>6, <1>7, AllAskedFacts
  <1>9. PICK c \in Seq(AskedRequest) : c = Tail(a)  BY <1>5, HeadTailProperties
  <1>10. Len(c) = l /\ \A k \in 1 .. l : c[k] = a[k + 1]
    BY <1>5, <1>9, HeadTailProperties
  <1>11. ASSUME NEW k \in 1 .. l  PROVE c[k] = b[k]
    <2>1. k + 1 \in 1 .. l + 1 /\ n + (k + 1) = (n + 1) + k  OBVIOUS
    <2>2. a[k + 1] = AskedOf(rs[k + 1], n + (k + 1))  BY <2>1, <1>5
    <2> QED  BY <2>1, <2>2, <1>3, <1>8, <1>10
  <1>12. c = b
    <2>1. c \in Seq(AskedRequest) /\ b \in Seq(AskedRequest) /\ Len(c) = l /\ Len(b) = l
      BY <1>8, <1>10
    <2> HIDE DEF AskedRequest
    <2> QED  BY <2>1, <1>2, <1>11
  <1>13. Head(a) = AskedOf(Head(rs), n + 1)
    <2>1. 1 \in 1 .. l + 1 /\ Head(a) = a[1]  BY <1>2, <1>5, HeadTailProperties
    <2> QED  BY <2>1, <1>3, <1>5
  <1> QED  BY <1>1, <1>4, <1>7, <1>9, <1>12, <1>13

\* Their bytes are the bytes of the requests.
LEMMA AskedBytes ==
    ASSUME NEW rs \in Seq(HttpRequest), NEW n \in Nat
    PROVE  LET a == AllAsked(rs, n) IN
           FlattenSeq([k \in DOMAIN a |-> a[k].bytes]) = Numbered(rs, n)
  <1>1. PICK l \in Nat : l = Len(rs)  BY LenProperties
  <1>2. DOMAIN rs = 1 .. l  BY <1>1, LenProperties
  <1>3. PICK a \in Seq(AskedRequest) : a = AllAsked(rs, n)  BY AllAskedFacts
  <1>4. Len(a) = l /\ \A k \in 1 .. l : a[k] = AskedOf(rs[k], n + k)
    BY <1>1, <1>3, AllAskedFacts
  <1>5. DOMAIN a = 1 .. l  BY <1>4, LenProperties
  <1>6. \A k \in 1 .. l : a[k].bytes = RequestBytes(rs[k], n + k)  BY <1>4 DEF AskedOf
  <1>7. [k \in 1 .. l |-> a[k].bytes] = [k \in 1 .. l |-> RequestBytes(rs[k], n + k)]
    BY <1>6
  <1> QED  BY <1>2, <1>3, <1>5, <1>7 DEF Numbered

\* What a client understands of what it is sent, with a response more.
AllUnderstood(es) == [k \in DOMAIN es |-> Understood(es[k])]

\* It understands the others as before.
LEMMA UnderstoodAppend ==
    ASSUME NEW es \in Seq(Seq(Cell)), NEW e \in Seq(Cell)
    PROVE  AllUnderstood(Append(es, e)) = Append(AllUnderstood(es), Understood(e))
  <1>1. PICK l \in Nat : l = Len(es)  BY LenProperties
  <1>2. PICK fs : fs = Append(es, e)  OBVIOUS
  <1>3. /\ fs \in Seq(Seq(Cell)) /\ Len(fs) = l + 1 /\ fs[l + 1] = e
        /\ \A k \in 1 .. l : fs[k] = es[k]
    BY <1>1, <1>2, AppendProperties
  <1>4. DOMAIN es = 1 .. l /\ DOMAIN fs = 1 .. l + 1  BY <1>1, <1>3, LenProperties
  <1>5. PICK T : T = {Understood(b) : b \in Seq(Cell)}  OBVIOUS
  <1>6. \A b \in Seq(Cell) : Understood(b) \in T  BY <1>5
  <1>7. PICK u : u = [k \in 1 .. l |-> Understood(es[k])]  OBVIOUS
  <1>8. PICK v : v = [k \in 1 .. l + 1 |-> Understood(fs[k])]  OBVIOUS
  <1>9. \A k \in 1 .. l : es[k] \in Seq(Cell)  BY <1>1, ElementOfSeq
  <1>10. \A k \in 1 .. l + 1 : fs[k] \in Seq(Cell)  BY <1>3, ElementOfSeq
  <1>11. u \in Seq(T) /\ Len(u) = l
    <2>1. u \in [1 .. l -> T]  BY <1>6, <1>7, <1>9
    <2> QED  BY <2>1, <1>1, FunSeq
  <1>12. v \in Seq(T) /\ Len(v) = l + 1
    <2>1. v \in [1 .. l + 1 -> T]  BY <1>6, <1>8, <1>10
    <2>2. l + 1 \in Nat  OBVIOUS
    <2> QED  BY <2>1, <2>2, FunSeq
  <1>13. PICK w \in T : w = Understood(e)  BY <1>6
  <1>14. v[l + 1] = w
    <2>1. l + 1 \in 1 .. l + 1  OBVIOUS
    <2> QED  BY <2>1, <1>3, <1>8, <1>13
  <1>15. \A k \in 1 .. l : v[k] = u[k]
    <2>1. \A k \in 1 .. l : k \in 1 .. l + 1  OBVIOUS
    <2> QED  BY <2>1, <1>3, <1>7, <1>8
  <1>16. v = Append(u, w)  BY <1>11, <1>12, <1>14, <1>15, AppendIs
  <1> QED  BY <1>2, <1>4, <1>7, <1>8, <1>13, <1>16 DEF AllUnderstood

-----------------------------------------------------------------------------
(* Each step is one of those promised *)

Versions == [p \in DOMAIN files |-> ToSet(files[p])]
Fate == CASE pc = "handed" -> "passed" [] pc = "dropped" -> "dropped" [] OTHER -> "open"

\* Requests come when none are there, as do the files they are for.
LEMMA PreparesPromised ==
    ASSUME Inv, Passing, pc = "idle", pc' \in {"idle", "run"}, UNCHANGED <<egress, ingress>>
    PROVE  Promise!Prepare
  <1>1. requests = <<>> /\ egress = <<>>  BY DEF Passing
  <1>2. DOMAIN requests = {} /\ DOMAIN egress = {}
    <2>1. Len(<<>>) = 0 /\ <<>> \in Seq(Cell)  BY EmptySeq
    <2>2. DOMAIN <<>> = 1 .. 0  BY <2>1, LenProperties
    <2> QED  BY <2>2, <1>1
  <1>3. [k \in {} |-> AskedOf(requests[k], Len(egress) + k)] = <<>>
        /\ [k \in {} |-> Understood(egress[k])] = <<>>
    OBVIOUS
  <1>4. AllAsked(requests, Len(egress)) = <<>> /\ AllUnderstood(egress) = <<>>
    BY <1>2, <1>3 DEF AllAsked, AllUnderstood
  <1>5. AllUnderstood(egress)' = AllUnderstood(egress) /\ Fate' = Fate
    BY DEF AllUnderstood, Fate
  <1> QED
    BY <1>4, <1>5 DEF Promise!Prepare, AllAsked, AskedOf, AllUnderstood, Fate

\* While the request in front is turned into a response nothing is seen of it.
LEMMA WorkUnseen ==
    ASSUME pc \notin {"handed", "dropped"}, pc' \notin {"handed", "dropped"},
           UNCHANGED <<files, requests, flow_ctl, egress, ingress>>
    PROVE  UNCHANGED Promise!vars
  <1>1. Fate' = Fate
    <2>1. Fate = "open"  BY DEF Fate
    <2>2. Fate' = "open"  BY DEF Fate
    <2> QED  BY <2>1, <2>2
  <1>2. /\ AllAsked(requests, Len(egress))' = AllAsked(requests, Len(egress))
        /\ AllUnderstood(egress)' = AllUnderstood(egress) /\ Versions' = Versions
    BY DEF AllAsked, AskedOf, AllUnderstood, Versions
  <1> QED
    BY <1>1, <1>2 DEF Promise!vars, AllAsked, AskedOf, AllUnderstood, Versions, Fate

\* As long as requests are left something is asked for.
LEMMA StillAsked ==
    ASSUME Inv, Passing, requests # <<>>
    PROVE  AllAsked(requests, Len(egress)) # <<>>
  <1>1. requests \in Seq(HttpRequest)  BY DEF Inv, RunInv, RunType
  <1>2. PICK rs \in Seq(HttpRequest), n \in Nat : rs = requests /\ n = Len(egress)
    BY <1>1, LenProperties DEF Passing
  <1>3. AllAsked(rs, n) # <<>>  BY <1>2, AllAskedFacts
  <1> QED  BY <1>2, <1>3

\* They are dropped,
LEMMA DropPromised ==
    ASSUME Inv, Passing, pc \notin {"handed", "dropped"}, pc' = "dropped", requests # <<>>,
           UNCHANGED <<files, requests, flow_ctl, egress, ingress>>
    PROVE  Promise!Drop
  <1>1. Fate = "open"  BY DEF Fate
  <1>2. Fate' = "dropped"  BY DEF Fate
  <1>3. /\ AllAsked(requests, Len(egress))' = AllAsked(requests, Len(egress))
        /\ AllUnderstood(egress)' = AllUnderstood(egress) /\ Versions' = Versions
    BY DEF AllAsked, AskedOf, AllUnderstood, Versions
  <1>4. AllAsked(requests, Len(egress)) # <<>>  BY StillAsked
  <1> QED
    BY <1>1, <1>2, <1>3, <1>4
       DEF Promise!Drop, AllAsked, AskedOf, AllUnderstood, Versions, Fate

\* What is promised puts sequences together in the same way.
LEMMA SameFlatten ==
    ASSUME NEW fs
    PROVE  Promise!FlattenSeq(fs) = FlattenSeq(fs)
  BY DEF Promise!FlattenSeq, FlattenSeq

\* or passed on as they arrived,
LEMMA PassPromised ==
    ASSUME Inv, Passing, pc \notin {"handed", "dropped"}, HandOver, requests # <<>>,
           msg = Numbered(requests, Len(egress)), UNCHANGED files
    PROVE  Promise!PassOn
  <1>1. /\ pc' = "handed" /\ ingress' = ingress \o msg
        /\ UNCHANGED <<requests, flow_ctl, egress>>
    BY DEF HandOver
  <1>2. Fate = "open"  BY DEF Fate
  <1>3. Fate' = "passed"  BY <1>1 DEF Fate
  <1>4. /\ AllAsked(requests, Len(egress))' = AllAsked(requests, Len(egress))
        /\ AllUnderstood(egress)' = AllUnderstood(egress) /\ Versions' = Versions
    BY <1>1 DEF AllAsked, AskedOf, AllUnderstood, Versions
  <1>5. AllAsked(requests, Len(egress)) # <<>>  BY StillAsked
  <1>6. PICK rs \in Seq(HttpRequest), n \in Nat : rs = requests /\ n = Len(egress)
    <2>1. requests \in Seq(HttpRequest)  BY DEF Inv, RunInv, RunType
    <2> QED  BY <2>1, LenProperties DEF Passing
  <1>7. PICK as : as = AllAsked(requests, Len(egress))  OBVIOUS
  <1>8. FlattenSeq([k \in DOMAIN as |-> as[k].bytes]) = Numbered(requests, Len(egress))
    <2>1. FlattenSeq([k \in DOMAIN AllAsked(rs, n) |-> AllAsked(rs, n)[k].bytes])
              = Numbered(rs, n)
      BY AskedBytes
    <2> QED  BY <2>1, <1>6, <1>7
  <1>9. ingress' = FlattenSeq([k \in DOMAIN as |-> as[k].bytes])
    <2>1. ingress = <<>> /\ msg \in Seq(Cell)  BY DEF Passing, Inv, RunInv, RunType
    <2>2. ingress \o msg = msg  BY <2>1
    <2> QED  BY <2>2, <1>1, <1>8
  <1>10. ingress' = Promise!FlattenSeq([k \in DOMAIN AllAsked(requests, Len(egress)) |->
                                          AllAsked(requests, Len(egress))[k].bytes])
    BY <1>7, <1>9, SameFlatten
  <1> QED
    BY <1>1, <1>2, <1>3, <1>4, <1>5, <1>10
       DEF Promise!PassOn, AllAsked, AskedOf, AllUnderstood, Versions, Fate

\* A version of the file of the request in front is what a client makes of the
\* response to it, which is as long as the window the response takes up.
Answered(size) ==
    /\ size \in Nat /\ size \in ToSet(files[Request.path])
    /\ Understood(Addressed(Response, Request.sid))
            = [path |-> Request.path, sid |-> Request.sid, size |-> size]
    /\ Request.sid # 0 => size = prepared[route].h2.data_len

\* There is one whatever the request is and however the files were written to.
LEMMA AnswerUnderstood ==
    ASSUME Inv, Current, Written, Passing, pc = "redirect"
    PROVE  /\ Request.path \in DOMAIN files
           /\ \E size : Answered(size)
  <1>1. /\ route \in 1 .. Len(prepared) /\ RoutesInv /\ Request.sid \in Nat
        /\ Response \in Seq(Cell) /\ Len(Response) # 0
        /\ prepared[route].path = Request.path
    BY InHandFacts DEF Inv, Passing, InTurn
  <1>2. PICK r : r = prepared[route]  OBVIOUS
  <1>3. Readable(r) /\ OfFile(r)  BY <1>1, <1>2 DEF Written, Current
  <1>4. PICK p \in DOMAIN files, sid \in Nat : p = Request.path /\ sid = Request.sid
    BY <1>1, <1>2, <1>3 DEF OfFile
  <1>5. r.path = p  BY <1>1, <1>2, <1>4
  <1>6. /\ p \in Paths /\ files[p] \in Seq(Nat) /\ files[p] # <<>>
        /\ DOMAIN files[p] = 1 .. Len(files[p])
    BY <1>1, <1>4, SizeType, LenProperties DEF RoutesInv, RoutesType
  <1>7. Response = IF sid = 0 THEN r.body ELSE r.h2.body
    BY <1>2, <1>4 DEF Response, Rendering
  <1>8. CASE sid = 0
    <2>1. PICK k \in 1 .. Len(files[p]) : r.body = Http1(p, files[p][k])
      BY <1>3, <1>5 DEF Readable, OneVersion
    <2>2. PICK n \in Nat : n = files[p][k]  BY <2>1, <1>6, ElementOfSeq
    <2>3. n \in ToSet(files[p])  BY <2>1, <2>2, <1>6 DEF ToSet
    <2>4. Addressed(Response, 0) = Response
      <3>1. PICK x \in Seq(Cell) : x = Response  BY <1>1
      <3>2. Addressed(x, 0) = [i \in DOMAIN x |-> x[i]]  BY DEF Addressed
      <3> QED  BY <3>1, <3>2
    <2>5. Understood(Http1(p, n)) = [path |-> p, sid |-> 0, size |-> n]
      BY <1>6, Http1Understood
    <2>6. Answered(n)  BY <2>1, <2>2, <2>3, <2>4, <2>5, <1>4, <1>7, <1>8 DEF Answered
    <2> QED  BY <2>6, <1>4
  <1>9. CASE sid # 0
    <2>1. r.h2 # NoHttp2
      <3>1. NoHttp2.body = <<>> /\ Len(<<>>) = 0  BY EmptySeq DEF NoHttp2
      <3> QED  BY <3>1, <1>1, <1>7, <1>9
    <2>2. PICK d : d = r.h2.data_len  OBVIOUS
    <2>3. d \in Nat /\ d = Size(p)
      <3>1. d = Size(p)  BY <2>1, <2>2, <1>3, <1>5 DEF OfFile
      <3>2. Size(p) \in Nat  BY <1>1, <1>4, SizeType DEF RoutesInv
      <3> QED  BY <3>1, <3>2
    <2>4. d \in ToSet(files[p])
      <3>1. Len(files[p]) \in DOMAIN files[p]
        <4>1. Len(files[p]) \in Nat /\ Len(files[p]) # 0  BY <1>6, LenProperties, NoElements
        <4> QED  BY <4>1, <1>6
      <3>2. d = files[p][Len(files[p])]  BY <2>3 DEF Size, Last
      <3> QED  BY <3>1, <3>2 DEF ToSet
    <2>5. PICK fs : Framed(fs, p, d, d, "end_stream") /\ r.h2.body = Encoded(fs, 0)
      BY <2>1, <2>2, <1>3, <1>5 DEF Readable, HasFrames
    <2>6. fs \in Seq(PlainFrame)  BY <2>5 DEF Framed
    <2>7. Addressed(Encoded(fs, 0), sid) = Encoded(fs, sid)  BY <2>6, AddressedEncoded
    <2>8. Understood(Encoded(fs, sid)) = [path |-> p, sid |-> sid, size |-> d]
      BY <2>3, <2>5, <1>6, Http2Understood
    <2>9. Addressed(Response, Request.sid) = Encoded(fs, sid)
      BY <2>5, <2>7, <1>4, <1>7, <1>9
    <2>10. Answered(d)  BY <2>2, <2>3, <2>4, <2>8, <2>9, <1>2, <1>4 DEF Answered
    <2> QED  BY <2>10, <1>4
  <1> QED  BY <1>8, <1>9

\* or the first of them is answered.
LEMMA AnswerPromised ==
    ASSUME Inv, Current, Written, Passing, Redirect, UNCHANGED files
    PROVE  Promise!Answer
  <1>1. /\ pc = "redirect" /\ pc' \in {"answered", "run"} /\ requests' = Tail(requests)
        /\ flow_ctl' = Spend(flow_ctl) /\ ingress' = ingress
    BY DEF Redirect
  <1>2. PICK size : Answered(size)  BY <1>1, AnswerUnderstood
  <1>3. size \in Nat /\ Request.path \in DOMAIN files
    BY <1>1, <1>2, AnswerUnderstood DEF Answered
  <1>4. PICK rs \in Seq(HttpRequest), n \in Nat, es \in Seq(Seq(Cell)) :
            rs = requests /\ n = Len(egress) /\ es = egress
    <2>1. requests \in Seq(HttpRequest)  BY DEF Inv, RunInv, RunType
    <2> QED  BY <2>1, LenProperties DEF Passing
  <1>5. rs # <<>>  BY <1>1, <1>4, InHandFacts
  <1>6. PICK e \in Seq(Cell) : e = Addressed(Response, Request.sid)  BY RedirectFacts
  <1>7. egress' = Append(es, e) /\ Len(egress') = n + 1
    BY <1>4, <1>6, RedirectFacts, AppendProperties
  <1>8. AllUnderstood(egress)' = Append(AllUnderstood(egress),
            [path |-> Request.path, sid |-> Request.sid, size |-> size])
    <2>1. AllUnderstood(Append(es, e)) = Append(AllUnderstood(es), Understood(e))
      BY UnderstoodAppend
    <2>2. AllUnderstood(egress)' = AllUnderstood(Append(es, e))
      BY <1>7 DEF AllUnderstood
    <2> QED  BY <2>1, <2>2, <1>2, <1>4, <1>6 DEF Answered
  <1>9. /\ Head(AllAsked(requests, Len(egress))) = AskedOf(Request, n + 1)
        /\ AllAsked(requests, Len(egress))' = Tail(AllAsked(requests, Len(egress)))
    <2>1. /\ Head(AllAsked(rs, n)) = AskedOf(Head(rs), n + 1)
          /\ Tail(AllAsked(rs, n)) = AllAsked(Tail(rs), n + 1)
      BY <1>5, AskedTail
    <2>2. AllAsked(requests, Len(egress))' = AllAsked(Tail(rs), n + 1)
      BY <1>1, <1>4, <1>7 DEF AllAsked, AskedOf
    <2> QED  BY <2>1, <2>2, <1>4 DEF Request
  <1>10. AllAsked(requests, Len(egress)) # <<>>  BY <1>4, <1>5, StillAsked
  <1>11. PICK data \in Nat : data = IF Request.sid = 0 THEN 0 ELSE size  BY <1>3
  <1>12. data <= flow_ctl.conn_window /\ data <= flow_ctl.stream_window
    <2>1. flow_ctl.conn_window \in Nat /\ flow_ctl.stream_window \in Nat
      BY DEF Inv, RunInv, RunType
    <2>2. Request.sid # 0 => /\ size <= flow_ctl.conn_window
                             /\ size <= flow_ctl.stream_window
      BY <1>1, <1>2 DEF Answered, Inv, RunInv, InHand, Passing, InTurn
    <2> QED  BY <2>1, <2>2, <1>11
  <1>13. /\ flow_ctl'.conn_window = flow_ctl.conn_window - data
         /\ flow_ctl'.stream_window = flow_ctl.stream_window
    <2>1. flow_ctl \in [conn_window : Nat, stream_window : Nat, unreported : Nat]
      BY DEF Inv, RunInv, RunType
    <2>2. data = IF Request.sid = 0 THEN 0 ELSE prepared[route].h2.data_len
      BY <1>2, <1>11 DEF Answered
    <2>3. flow_ctl' = [flow_ctl EXCEPT !.conn_window = @ - data, !.unreported = @ + data]
      BY <2>2, <1>1 DEF Spend
    <2> QED  BY <2>1, <2>3
  <1>14. Fate = "open"  BY <1>1 DEF Fate
  <1>15. Fate' = "open"  BY <1>1 DEF Fate
  <1>16. Head(AllAsked(requests, Len(egress))).path = Request.path
         /\ Head(AllAsked(requests, Len(egress))).sid = Request.sid
    BY <1>9 DEF AskedOf
  <1>17. /\ Request.path \in DOMAIN Versions /\ size \in Versions[Request.path]
         /\ Versions' = Versions
    BY <1>2, <1>3 DEF Versions, Answered
  <1> QED
    BY <1>1, <1>8, <1>9, <1>10, <1>11, <1>12, <1>13, <1>14, <1>15, <1>16, <1>17
       DEF Promise!Answer, AllAsked, AskedOf, AllUnderstood, Versions, Fate

\* Every helper's failure drops the requests that are left, or passes them on as long as
\* they are what arrived.
LEMMA HelpersPromised ==
    ASSUME Inv, Passing, Remaining, Helpers \/ NotServed, UNCHANGED routeVars
    PROVE  Promise!PassOn \/ Promise!Drop
  <1>1. files' = files  BY DEF routeVars
  <1>2. CASE NotServed
    <2>1. /\ HandOver /\ pc = "run" /\ requests # <<>>
          /\ msg = Numbered(requests, Len(egress))
      BY <1>2 DEF NotServed, Remaining, Passing, Untouched
    <2> QED  BY <2>1, <1>1, PassPromised
  <1>3. CASE GrowFailsFirst \/ ShrinkFails
    <2>1. /\ HandOver /\ pc = "resize"
          /\ Len(msg) > Target \/ (turn = 0 /\ Len(msg) < Target)
      BY <1>3 DEF GrowFailsFirst, Growing, ShrinkFails, Shrinking
    <2>2. requests # <<>> /\ msg = Numbered(requests, Len(egress))
      BY <2>1, InHandFacts DEF Passing, Untouched
    <2> QED  BY <2>1, <2>2, <1>1, PassPromised
  <1>4. CASE GrowFailsLater \/ CopyFails \/ WriteSidFails \/ RedirectFails
    <2>1. /\ pc \in {"resize", "copy", "patch", "redirect"} /\ pc' = "dropped"
          /\ UNCHANGED <<requests, flow_ctl, egress, ingress>>
      BY <1>4 DEF GrowFailsLater, CopyFails, WriteSidFails, RedirectFails, Drop, Growing,
                  Copying, Patching
    <2>2. requests # <<>>  BY <2>1, InHandFacts
    <2> QED  BY <2>1, <2>2, <1>1, DropPromised
  <1> QED  BY <1>2, <1>3, <1>4 DEF Helpers

\* A request in hand goes on unseen, unless it is dropped.
LEMMA HandPromised ==
    ASSUME Inv, Passing, UNCHANGED routeVars,
           \/ Grow \/ Shrink \/ Resized \/ CopyChunk \/ CopyEnds \/ WriteSid \/ PatchEnds
    PROVE  Promise!Drop \/ UNCHANGED Promise!vars
  <1>1. files' = files  BY DEF routeVars
  <1>2. /\ pc \in {"resize", "copy", "patch", "redirect"}
        /\ pc' \in {"resize", "copy", "patch", "redirect", "dropped"}
        /\ UNCHANGED <<requests, flow_ctl, egress, ingress>>
    BY DEF Grow, Growing, Shrink, Shrinking, Resized, CopyChunk, Copying, CopyEnds, WriteSid,
           Patching, PatchEnds
  <1>3. requests # <<>>  BY <1>2, InHandFacts
  <1>4. CASE pc' = "dropped"  BY <1>1, <1>2, <1>3, <1>4, DropPromised
  <1>5. CASE pc' # "dropped"  BY <1>1, <1>2, <1>5, WorkUnseen
  <1> QED  BY <1>4, <1>5

\* Every step keeps the promise.
LEMMA NextPromised ==
    ASSUME Inv, Current, Remaining, Written, Passing, [Next]_vars
    PROVE  [Promise!Next]_(Promise!vars)
  <1>1. CASE RoutesNext /\ UNCHANGED runVars
    <2>1. stage # "attached"
      BY <1>1 DEF RoutesNext, Bail, RenderHttp2, Rewrite, DataFrame, Prepare, Load,
                  CopyRoute, Attach, TooLarge, RenderHttp1, Route
    <2>2. pc = "idle"  BY <2>1 DEF Inv, RunInv, Ready
    <2>3. pc' = "idle" /\ UNCHANGED <<egress, ingress>>  BY <2>2, <1>1 DEF runVars
    <2>4. Promise!Prepare  BY <2>2, <2>3, PreparesPromised
    <2> QED  BY <2>4 DEF Promise!Next
  <1>2. CASE UNCHANGED vars
    <2>1. UNCHANGED <<files, pc, requests, flow_ctl, egress, ingress>>
      BY <1>2 DEF vars, routeVars, runVars
    <2>2. Fate' = Fate  BY <2>1 DEF Fate
    <2>3. /\ AllAsked(requests, Len(egress))' = AllAsked(requests, Len(egress))
          /\ AllUnderstood(egress)' = AllUnderstood(egress) /\ Versions' = Versions
      BY <2>1 DEF AllAsked, AskedOf, AllUnderstood, Versions
    <2>4. UNCHANGED Promise!vars
      BY <2>1, <2>2, <2>3
         DEF Promise!vars, AllAsked, AskedOf, AllUnderstood, Versions, Fate
    <2> QED  BY <2>4
  <1>3. CASE Arrive /\ UNCHANGED routeVars
    <2>1. pc = "idle" /\ pc' = "run" /\ UNCHANGED <<egress, ingress>>
      BY <1>3 DEF Arrive
    <2>2. Promise!Prepare  BY <2>1, PreparesPromised
    <2> QED  BY <2>2 DEF Promise!Next
  <1>4. CASE (NotServed \/ Helpers) /\ UNCHANGED routeVars
    <2>1. Promise!PassOn \/ Promise!Drop  BY <1>4, HelpersPromised
    <2> QED  BY <2>1 DEF Promise!Next
  <1>5. ASSUME NEW i \in DOMAIN prepared, Serve(i), UNCHANGED routeVars
        PROVE  UNCHANGED Promise!vars
    <2>1. /\ pc = "run" /\ pc' = "resize"
          /\ UNCHANGED <<files, requests, flow_ctl, egress, ingress>>
      BY <1>5 DEF Serve, routeVars
    <2> QED  BY <2>1, WorkUnseen
  <1>6. CASE /\ Grow \/ Shrink \/ Resized \/ CopyChunk \/ CopyEnds \/ WriteSid \/ PatchEnds
             /\ UNCHANGED routeVars
    <2>1. Promise!Drop \/ UNCHANGED Promise!vars  BY <1>6, HandPromised
    <2> QED  BY <2>1 DEF Promise!Next
  <1>7. CASE Redirect /\ UNCHANGED routeVars
    <2>1. Promise!Answer  BY <1>7, AnswerPromised DEF routeVars
    <2> QED  BY <2>1 DEF Promise!Next
  <1> QED  BY <1>1, <1>2, <1>3, <1>4, <1>5, <1>6, <1>7 DEF Next, Run

\* Nothing is asked for at first.
LEMMA InitPromised == Init => Promise!Init
  <1> SUFFICES ASSUME Init  PROVE Promise!Init
    OBVIOUS
  <1>1. requests = <<>> /\ egress = <<>> /\ ingress = <<>> /\ pc = "idle"  BY DEF Init
  <1>2. DOMAIN requests = {} /\ DOMAIN egress = {}
    <2>1. Len(<<>>) = 0 /\ <<>> \in Seq(Cell)  BY EmptySeq
    <2>2. DOMAIN <<>> = 1 .. 0  BY <2>1, LenProperties
    <2> QED  BY <2>2, <1>1
  <1>3. [k \in {} |-> AskedOf(requests[k], Len(egress) + k)] = <<>>
        /\ [k \in {} |-> Understood(egress[k])] = <<>>
    OBVIOUS
  <1>4. AllAsked(requests, Len(egress)) = <<>> /\ AllUnderstood(egress) = <<>>
    BY <1>2, <1>3 DEF AllAsked, AllUnderstood
  <1>5. Fate = "open"  BY <1>1 DEF Fate
  <1> QED
    BY <1>1, <1>4, <1>5 DEF Promise!Init, AllAsked, AskedOf, AllUnderstood, Fate

\* The steps of attach keep what is prepared readable, and no others touch it.
LEMMA WrittenKept == RoutesInv /\ Current /\ Written /\ [Next]_vars => Written'
  <1> SUFFICES ASSUME RoutesInv, Current, Written, [Next]_vars  PROVE Written'
    OBVIOUS
  <1>1. [RoutesNext]_routeVars  BY DEF Next, vars
  <1> QED  BY <1>1, WrittenNext

\* A client makes of what it is sent the responses to its requests, in their order and
\* on their streams, which fit the windows; the rest goes to user space untouched or the
\* message is dropped: for all routes, sizes, windows and requests.
THEOREM RepliesKeepThePromise == Spec => ImplementsReply
  <1>1. Init => Inv /\ Current /\ Remaining /\ Written /\ Passing
    BY InitInv, AnswersInit, WrittenInit, PassingInit DEF Init
  <1>2. Inv /\ Current /\ Remaining /\ Written /\ Passing /\ [Next]_vars
            => (Inv /\ Current /\ Remaining /\ Written /\ Passing)'
    BY NextInv, RemainingNext, WrittenKept, PassingNext DEF Inv
  <1>3. Inv /\ Current /\ Remaining /\ Written /\ Passing /\ [Next]_vars
            => [Promise!Next]_(Promise!vars)
    BY NextPromised
  <1> QED  BY <1>1, <1>2, <1>3, InitPromised, PTL DEF Spec, ImplementsReply, Promise!Spec
=============================================================================
