----------------------------- MODULE Routes_proofs -----------------------------
(***************************************************************************)
(* The renderings attach prepares: where they are in the arena, where the  *)
(* stream ids in them are, and which frames with which part of the file    *)
(* they consist of, for every set of routes and all sizes.                 *)
(***************************************************************************)
EXTENDS Routes, TLAPS, SequenceTheorems, Folding_proofs

Kinds == {"unset", "head", "body", "sid", "headers", "data", "hpack", "request"}
Flags == {"none", "end_headers", "end_stream"}

Cell == [is : Kinds, of : Paths \cup Flags, n : Nat]

Http2Response == [body : Seq(Cell), off : Nat, sid_offs : Seq(Nat), data_len : Nat]
PreparedRoute ==
    [path : Paths \cup Flags, body : Seq(Cell), body_off : Nat, h2 : Http2Response]

-----------------------------------------------------------------------------
(* Sequences given by their elements *)

\* A function on 1 .. n is a sequence of length n.
LEMMA FunSeq ==
    ASSUME NEW S, NEW n \in Nat, NEW f \in [1 .. n -> S]
    PROVE  f \in Seq(S) /\ Len(f) = n /\ DOMAIN f = 1 .. n
  BY SeqDef

\* Two sequences behind each other, element by element.
LEMMA ConcatFacts ==
    ASSUME NEW S, NEW s \in Seq(S), NEW t \in Seq(S)
    PROVE  /\ s \o t \in Seq(S) /\ Len(s \o t) = Len(s) + Len(t)
           /\ Len(s) \in Nat /\ Len(t) \in Nat
           /\ \A k \in 1 .. Len(s) : (s \o t)[k] = s[k]
           /\ \A k \in Len(s) + 1 .. Len(s) + Len(t) : (s \o t)[k] = t[k - Len(s)]
  <1>1. Len(s) \in Nat /\ Len(t) \in Nat  BY LenProperties
  <1>2. s \o t \in Seq(S) /\ Len(s \o t) = Len(s) + Len(t)  BY ConcatProperties
  <1>3. \A i \in 1 .. Len(s) + Len(t) :
            (s \o t)[i] = IF i <= Len(s) THEN s[i] ELSE t[i - Len(s)]
    BY ConcatProperties
  <1>4. \A k \in 1 .. Len(s) : (s \o t)[k] = s[k]  BY <1>1, <1>3
  <1>5. \A k \in Len(s) + 1 .. Len(s) + Len(t) : (s \o t)[k] = t[k - Len(s)]
    BY <1>1, <1>3
  <1> QED  BY <1>1, <1>2, <1>4, <1>5

\* The sequence an element is appended to, element by element.
LEMMA AppendFacts ==
    ASSUME NEW S, NEW s \in Seq(S), NEW e \in S
    PROVE  /\ Append(s, e) \in Seq(S) /\ Len(Append(s, e)) = Len(s) + 1 /\ Len(s) \in Nat
           /\ \A k \in 1 .. Len(s) : Append(s, e)[k] = s[k]
           /\ Append(s, e)[Len(s) + 1] = e
  BY AppendProperties, LenProperties

-----------------------------------------------------------------------------
(* What is rendered *)

\* A byte of a rendering.
LEMMA ByteType ==
    ASSUME NEW is \in Kinds, NEW of \in Paths \cup Flags, NEW n \in Nat
    PROVE  Byte(is, of, n) \in Cell /\ Byte(is, of, n).is = is
  BY DEF Byte, Cell

Plain(s) == \A k \in 1 .. Len(s) : s[k].is # "sid"

\* The part of a file is as long as it is said to be, and there is no stream id in it.
LEMMA BodyFacts ==
    ASSUME NEW p \in Paths, NEW from \in Nat, NEW n \in Nat
    PROVE  Body(p, from, n) \in Seq(Cell) /\ Len(Body(p, from, n)) = n /\ Plain(Body(p, from, n))
  <1> DEFINE b == Body(p, from, n)
  <1>1. b \in [1 .. n -> Cell]
    <2>1. \A k \in 1 .. n : Byte("body", p, from + k) \in Cell  BY ByteType DEF Kinds
    <2> QED  BY <2>1 DEF Body
  <1>2. b \in Seq(Cell) /\ Len(b) = n  BY <1>1, FunSeq
  <1>3. \A k \in 1 .. n : b[k].is = "body"  BY DEF Body, Byte
  <1> QED  BY <1>2, <1>3 DEF Plain

\* Nor is there one in a response over HTTP/1.1.
LEMMA Http1Facts ==
    ASSUME NEW p \in Paths, NEW n \in Nat
    PROVE  Http1(p, n) \in Seq(Cell) /\ Len(Http1(p, n)) = Http1Head + n /\ Plain(Http1(p, n))
  <1> DEFINE h == [k \in 1 .. Http1Head |-> Byte("head", p, n)]
             b == Body(p, 0, n)
  <1>1. Http1Head \in Nat  BY RoutesAssumption
  <1>2. h \in [1 .. Http1Head -> Cell]
    <2>1. Byte("head", p, n) \in Cell  BY ByteType DEF Kinds
    <2> QED  BY <2>1
  <1>3. h \in Seq(Cell) /\ Len(h) = Http1Head  BY <1>1, <1>2, FunSeq
  <1>4. \A k \in 1 .. Http1Head : h[k].is = "head"  BY DEF Byte
  <1>5. b \in Seq(Cell) /\ Len(b) = n /\ Plain(b)  BY BodyFacts
  <1> HIDE DEF h, b
  <1>6. h \o b \in Seq(Cell) /\ Len(h \o b) = Http1Head + n  BY <1>3, <1>5, ConcatFacts
  <1>7. ASSUME NEW k \in 1 .. Len(h \o b)  PROVE (h \o b)[k].is # "sid"
    <2>1. CASE k <= Http1Head
      <3>1. (h \o b)[k] = h[k]  BY <1>1, <1>3, <1>5, <2>1, ConcatFacts
      <3> QED  BY <3>1, <1>1, <1>4, <2>1
    <2>2. CASE k > Http1Head
      <3>1. (h \o b)[k] = b[k - Http1Head] /\ k - Http1Head \in 1 .. n
        BY <1>1, <1>3, <1>5, <1>6, <2>2, ConcatFacts
      <3> QED  BY <3>1, <1>5 DEF Plain
    <2> QED  BY <2>1, <2>2, <1>1, <1>6
  <1> QED  BY <1>6, <1>7 DEF Http1, h, b, Plain

\* A frame has one stream id, at a place of its own.
OneSid(f) ==
    /\ Len(f) >= SidAt + SidLen
    /\ \A k \in 1 .. Len(f) : f[k].is = "sid" <=> SidAt < k /\ k <= SidAt + SidLen

\* In a frame the stream id is where SidAt says, and nowhere else.
LEMMA FrameFacts ==
    ASSUME NEW kind \in Kinds \ {"sid"}, NEW flags \in Flags,
           NEW payload \in Seq(Cell), Plain(payload)
    PROVE  LET f == Frame(kind, flags, payload) IN
           f \in Seq(Cell) /\ OneSid(f)
  <1> DEFINE h == FrameHeader(kind, flags, Len(payload), 0)
             N == SidAt + SidLen
  <1>1. SidAt \in Nat /\ SidLen \in Nat /\ N \in Nat /\ Len(payload) \in Nat
    BY RoutesAssumption, LenProperties
  <1>2. h \in [1 .. N -> Cell]
    <2>1. Byte(kind, flags, Len(payload)) \in Cell /\ Byte("sid", "none", 0) \in Cell
      BY <1>1, ByteType DEF Kinds, Flags
    <2> QED  BY <2>1 DEF FrameHeader
  <1>3. h \in Seq(Cell) /\ Len(h) = N  BY <1>1, <1>2, FunSeq
  <1>4. \A k \in 1 .. N : h[k].is = "sid" <=> SidAt < k
    BY <1>1 DEF FrameHeader, Byte
  <1> HIDE DEF h
  <1>5. /\ h \o payload \in Seq(Cell) /\ Len(h \o payload) = Len(h) + Len(payload)
        /\ \A k \in 1 .. Len(h) : (h \o payload)[k] = h[k]
        /\ \A k \in Len(h) + 1 .. Len(h) + Len(payload) :
              (h \o payload)[k] = payload[k - Len(h)]
    BY <1>3, ConcatFacts
  <1>6. /\ h \o payload \in Seq(Cell) /\ Len(h \o payload) = N + Len(payload)
        /\ \A k \in 1 .. N : (h \o payload)[k] = h[k]
        /\ \A k \in N + 1 .. N + Len(payload) : (h \o payload)[k] = payload[k - N]
    BY <1>5, <1>3
  <1>7. ASSUME NEW k \in 1 .. Len(h \o payload)
        PROVE  (h \o payload)[k].is = "sid" <=> SidAt < k /\ k <= N
    <2>1. CASE k <= N  BY <1>1, <1>4, <1>6, <2>1
    <2>2. CASE k > N
      <3>1. (h \o payload)[k] = payload[k - N] /\ k - N \in 1 .. Len(payload)
        BY <1>1, <1>6, <2>2
      <3> QED  BY <3>1, <1>1, <2>2 DEF Plain
    <2> QED  BY <2>1, <2>2, <1>1, <1>6
  <1> QED  BY <1>1, <1>6, <1>7 DEF Frame, OneSid, h

\* The offsets say where the stream ids in a rendering are, all of them.
SidsAt(bytes, offs) ==
    /\ \A j \in 1 .. Len(offs) : offs[j] + SidLen <= Len(bytes)
    /\ \A k \in 1 .. Len(bytes) :
          bytes[k].is = "sid" <=> \E j \in 1 .. Len(offs) : offs[j] < k /\ k <= offs[j] + SidLen

\* This holds of the first frame.
LEMMA FirstFrameSids ==
    ASSUME NEW p \in Paths, NEW n \in Nat
    PROVE  HeadersFrame(p, n) \in Seq(Cell) /\ SidsAt(HeadersFrame(p, n), <<SidAt>>)
  <1> DEFINE b == [k \in 1 .. Hpack |-> Byte("hpack", p, n)]
             f == Frame("headers", "end_headers", b)
  <1>1. Hpack \in Nat /\ SidAt \in Nat /\ SidLen \in Nat  BY RoutesAssumption
  <1>2. b \in [1 .. Hpack -> Cell]
    <2>1. Byte("hpack", p, n) \in Cell  BY ByteType DEF Kinds
    <2> QED  BY <2>1
  <1>3. b \in Seq(Cell) /\ Len(b) = Hpack  BY <1>1, <1>2, FunSeq
  <1>4. \A k \in 1 .. Hpack : b[k].is = "hpack"  BY DEF Byte
  <1>5. Plain(b)  BY <1>3, <1>4 DEF Plain
  <1> HIDE DEF b
  <1>6. f \in Seq(Cell) /\ OneSid(f)
    BY <1>3, <1>5, FrameFacts DEF Kinds, Flags
  <1> HIDE DEF f
  <1>7. Len(<<SidAt>>) = 1 /\ <<SidAt>>[1] = SidAt  OBVIOUS
  <1>8. SidsAt(f, <<SidAt>>)  BY <1>1, <1>6, <1>7 DEF SidsAt, OneSid
  <1> QED  BY <1>6, <1>8 DEF HeadersFrame, f, b

\* And of each frame that is appended with the offset of its stream id.
LEMMA NextFrameSids ==
    ASSUME NEW resp \in Seq(Cell), NEW offs \in Seq(Nat), SidsAt(resp, offs),
           NEW f \in Seq(Cell), OneSid(f)
    PROVE  SidsAt(resp \o f, Append(offs, SidOffset(resp)))
  <1> DEFINE r == resp \o f
             L == Len(resp)
             o == Append(offs, SidOffset(resp))
             m == Len(offs)
  <1>1. SidAt \in Nat /\ SidLen \in Nat  BY RoutesAssumption
  <1>2. /\ Len(r) = L + Len(f) /\ L \in Nat /\ Len(f) \in Nat
        /\ \A k \in 1 .. L : r[k] = resp[k]
        /\ \A k \in L + 1 .. L + Len(f) : r[k] = f[k - L]
    BY ConcatFacts
  <1>3. SidOffset(resp) = L + SidAt  BY DEF SidOffset
  <1>4. /\ Len(o) = m + 1 /\ m \in Nat /\ o[m + 1] = L + SidAt
        /\ \A j \in 1 .. m : o[j] = offs[j] /\ offs[j] \in Nat
    BY <1>1, <1>2, <1>3, AppendFacts, ElementOfSeq
  <1> HIDE DEF r, o, L, m
  <1>5. \A j \in 1 .. m : offs[j] + SidLen <= L  BY DEF SidsAt, L, m
  <1>6. PICK a \in Nat, n \in Nat, l \in Nat, e \in Nat, c \in Nat :
            a = SidAt /\ n = SidLen /\ l = L /\ e = Len(f) /\ c = m
    BY <1>1, <1>2, <1>4
  <1>7. e >= a + n  BY <1>6 DEF OneSid
  <1>8. Len(r) = l + e /\ Len(o) = c + 1 /\ o[c + 1] = l + a  BY <1>2, <1>4, <1>6
  <1>9. ASSUME NEW j \in 1 .. c
        PROVE  o[j] = offs[j] /\ offs[j] \in Nat /\ offs[j] + n <= l
    BY <1>4, <1>5, <1>6
  <1>10. ASSUME NEW j \in 1 .. c + 1  PROVE o[j] + n <= l + e
    <2>1. CASE j = c + 1
      <3>1. (l + a) + n <= l + e  BY <1>7
      <3> QED  BY <3>1, <2>1, <1>8
    <2>2. CASE j \in 1 .. c
      <3>1. PICK x \in Nat : x = o[j] /\ x + n <= l  BY <2>2, <1>9
      <3>2. x + n <= l + e  BY <3>1
      <3> QED  BY <3>1, <3>2
    <2> QED  BY <2>1, <2>2
  <1>11. ASSUME NEW k \in 1 .. l
         PROVE  r[k].is = "sid" <=> \E j \in 1 .. c + 1 : o[j] < k /\ k <= o[j] + n
    <2>1. r[k] = resp[k]  BY <1>2, <1>6
    <2>2. resp[k].is = "sid" <=> \E j \in 1 .. c : offs[j] < k /\ k <= offs[j] + n
      BY <1>6 DEF SidsAt, L, m
    <2>3. ~(o[c + 1] < k)
      <3>1. ~(l + a < k)  OBVIOUS
      <3> QED  BY <3>1, <1>8
    <2>4. \A j \in 1 .. c + 1 : j \in 1 .. c \/ j = c + 1  OBVIOUS
    <2>5. \A j \in 1 .. c : j \in 1 .. c + 1 /\ o[j] = offs[j]  BY <1>9
    <2> QED  BY <2>1, <2>2, <2>3, <2>4, <2>5, Zenon
  <1>12. ASSUME NEW i \in 1 .. e
         PROVE  r[l + i].is = "sid" <=> \E j \in 1 .. c + 1 : o[j] < l + i /\ l + i <= o[j] + n
    <2>1. r[l + i] = f[i]
      <3>1. l + i \in l + 1 .. l + e /\ (l + i) - l = i  OBVIOUS
      <3> QED  BY <3>1, <1>2, <1>6
    <2>2. f[i].is = "sid" <=> a < i /\ i <= a + n  BY <1>6 DEF OneSid
    <2>3. (a < i /\ i <= a + n) <=> (l + a < l + i /\ l + i <= (l + a) + n)  OBVIOUS
    <2>4. ASSUME NEW j \in 1 .. c  PROVE ~(l + i <= o[j] + n)
      <3>1. PICK x \in Nat : x = o[j] /\ x + n <= l  BY <1>9
      <3>2. ~(l + i <= x + n)  BY <3>1
      <3> QED  BY <3>1, <3>2
    <2>5. \A j \in 1 .. c + 1 : j \in 1 .. c \/ j = c + 1  OBVIOUS
    <2>6. c + 1 \in 1 .. c + 1  OBVIOUS
    <2> QED  BY <2>1, <2>2, <2>3, <2>4, <2>5, <2>6, <1>8, Zenon
  <1>13. ASSUME NEW k \in 1 .. l + e
         PROVE  r[k].is = "sid" <=> \E j \in 1 .. c + 1 : o[j] < k /\ k <= o[j] + n
    <2>1. CASE k <= l
      <3>1. k \in 1 .. l  BY <2>1
      <3> QED  BY <3>1, <1>11, Zenon
    <2>2. CASE k > l
      <3>1. PICK i \in 1 .. e : k = l + i
        <4>1. k - l \in 1 .. e /\ k = l + (k - l)  BY <2>2
        <4> QED  BY <4>1
      <3> QED  BY <3>1, <1>12, Zenon
    <2> QED  BY <2>1, <2>2
  <1> QED  BY <1>6, <1>8, <1>10, <1>13 DEF SidsAt, r, o

-----------------------------------------------------------------------------
(* The invariant of attach *)

RoutesType ==
    /\ DOMAIN files \subseteq Paths
    /\ \A p \in DOMAIN files : files[p] \in Seq(Nat) /\ files[p] # <<>>
    /\ todo \subseteq DOMAIN files
    /\ stage \in {"next", "http2", "data", "place", "load", "attached", "failed"}
    /\ draft \in PreparedRoute
    /\ left \in Nat /\ arena_len \in Nat
    /\ prepared \in Seq(PreparedRoute)
    /\ loaded \in 0 .. Len(prepared)

\* What is known of the route being rendered: the stream ids of as many frames as
\* there are so far.
Drafted ==
    stage \in {"http2", "data", "place"} =>
        /\ draft.path \in DOMAIN files
        /\ Plain(draft.body) /\ Len(draft.body) <= MaxRouteBody
        /\ draft.body_off + Len(draft.body) = arena_len
        /\ stage = "data" => left <= draft.h2.data_len
        /\ stage # "http2" => SidsAt(draft.h2.body, draft.h2.sid_offs)

\* A route that is prepared fits what the program goes by.
Bounded(r) ==
    /\ Plain(r.body) /\ Len(r.body) <= MaxRouteBody
    /\ SidsAt(r.h2.body, r.h2.sid_offs)
    /\ Len(r.h2.body) <= MaxRouteBody /\ Len(r.h2.sid_offs) <= MaxSidOffs

\* Its renderings are apart, and the first byte behind them.
Apart(r) == r.h2.body = <<>> \/ r.body_off + Len(r.body) <= r.h2.off
End(r) == IF r.h2.body = <<>> THEN r.body_off + Len(r.body) ELSE r.h2.off + Len(r.h2.body)

\* Routes are apart in the order they were prepared in.
Layout ==
    /\ \A i \in 1 .. Len(prepared) :
          /\ Bounded(prepared[i]) /\ Apart(prepared[i])
          /\ End(prepared[i]) <= arena_len
          /\ stage \in {"http2", "data", "place"} => End(prepared[i]) <= draft.body_off
    /\ \A i, j \in 1 .. Len(prepared) : i < j => End(prepared[i]) <= prepared[j].body_off

\* A rendering is in memory.
Holds(mem, off, bytes) ==
    \A k \in 1 .. Len(bytes) : off + k - 1 \in DOMAIN mem /\ mem[off + k - 1] = bytes[k]

\* Nothing is copied before the arena is there.
Unloaded == stage \notin {"load", "attached"} => loaded = 0

\* The arena reaches as far as the renderings do and has those that were copied.
Filled ==
    stage \in {"load", "attached"} =>
        /\ \E n \in Nat : arena_len <= n /\ arena \in [0 .. n - 1 -> Cell]
        /\ \A i \in 1 .. loaded :
              /\ Holds(arena, prepared[i].body_off, prepared[i].body)
              /\ Holds(arena, prepared[i].h2.off, prepared[i].h2.body)
        /\ stage = "attached" => loaded = Len(prepared)

RoutesInv == RoutesType /\ Drafted /\ Layout /\ Unloaded /\ Filled

\* A route that is not rendered for HTTP/2 has nothing to place.
LEMMA NoHttp2Facts ==
    NoHttp2 \in Http2Response /\ SidsAt(NoHttp2.body, NoHttp2.sid_offs)
  <1>1. <<>> \in Seq(Cell) /\ <<>> \in Seq(Nat) /\ Len(<<>>) = 0  BY EmptySeq
  <1>2. NoHttp2.body = <<>> /\ NoHttp2.sid_offs = <<>>  BY DEF NoHttp2
  <1>3. NoHttp2 \in Http2Response  BY <1>1 DEF NoHttp2, Http2Response
  <1>4. SidsAt(<<>>, <<>>)  BY <1>1 DEF SidsAt
  <1> QED  BY <1>2, <1>3, <1>4

\* The pages of the arena reach as far as what is in it.
LEMMA PagesReach ==
    ASSUME arena_len \in Nat
    PROVE  Pages * PageSize \in Nat /\ arena_len <= Pages * PageSize
  <1> DEFINE P == PageSize
             q == (arena_len + P - 1) \div P
  <1>1. P \in Nat /\ P > 0  BY RoutesAssumption
  <1>2. q \in Nat /\ arena_len <= q * P  BY <1>1, Z3
  <1>3. q * P \in Nat /\ 1 * P \in Nat  BY <1>1, <1>2, Z3
  <1> HIDE DEF q
  <1>4. CASE arena_len = 0
    <2>1. Pages = 1  BY <1>4 DEF Pages
    <2> QED  BY <2>1, <1>1, <1>3, <1>4
  <1>5. CASE arena_len # 0
    <2>1. Pages = q  BY <1>5 DEF Pages, q
    <2> QED  BY <2>1, <1>2, <1>3
  <1> QED  BY <1>4, <1>5

\* The largest body is a number.
LEMMA MaxRouteBodyType == MaxRouteBody \in Nat
  <1>1. MaxChunks \in Nat /\ Chunk \in Nat  BY RoutesAssumption
  <1> QED  BY <1>1, Z3 DEF MaxRouteBody

\* RoutesInv holds before anything is rendered.
LEMMA RoutesInitInv == RoutesInit => RoutesInv
  <1> SUFFICES ASSUME RoutesInit  PROVE RoutesInv
    OBVIOUS
  <1>1. PICK c \in Configs : files = [p \in DOMAIN c |-> <<c[p]>>]  BY DEF RoutesInit
  <1>2. DOMAIN c \subseteq Paths /\ \A p \in DOMAIN c : c[p] \in Nat
    BY RoutesAssumption
  <1>3. \A p \in DOMAIN files : files[p] \in Seq(Nat) /\ files[p] # <<>>
    BY <1>1, <1>2
  <1>4. <<>> \in Seq(Cell) /\ <<>> \in Seq(PreparedRoute) /\ Len(<<>>) = 0  BY EmptySeq
  <1>5. draft \in PreparedRoute
    <2>1. "none" \in Paths \cup Flags  BY DEF Flags
    <2> QED  BY <2>1, <1>4, NoHttp2Facts DEF RoutesInit, PreparedRoute
  <1>6. RoutesType  BY <1>1, <1>2, <1>3, <1>4, <1>5 DEF RoutesInit, RoutesType
  <1>7. Drafted /\ Layout /\ Unloaded /\ Filled
    BY <1>4 DEF RoutesInit, Drafted, Layout, Unloaded, Filled
  <1> QED  BY <1>6, <1>7 DEF RoutesInv
-----------------------------------------------------------------------------
(* Its steps *)

\* A route's current size.
LEMMA SizeType ==
    ASSUME RoutesType, NEW p \in DOMAIN files
    PROVE  Size(p) \in Nat /\ p \in Paths
  <1>1. files[p] \in Seq(Nat) /\ files[p] # <<>> /\ p \in Paths  BY DEF RoutesType
  <1>2. Len(files[p]) \in 1 .. Len(files[p])  BY <1>1, EmptySeq, LenProperties
  <1>3. Size(p) = files[p][Len(files[p])]  BY DEF Size, Last
  <1> QED  BY <1>1, <1>2, <1>3, ElementOfSeq

\* The file is read and rendered for HTTP/1.1.
LEMMA RenderHttp1Inv ==
    ASSUME RoutesInv, NEW p \in todo, RenderHttp1(p)
    PROVE  RoutesInv'
  <1> DEFINE body == Http1(p, Size(p))
  <1> USE DEF RoutesInv
  <1>1. p \in DOMAIN files /\ p \in Paths /\ Size(p) \in Nat  BY SizeType DEF RoutesType
  <1>2. body \in Seq(Cell) /\ Len(body) \in Nat /\ Plain(body)
    BY <1>1, Http1Facts, LenProperties
  <1> HIDE DEF body
  <1>3. /\ stage = "next" /\ stage' = "http2" /\ todo' = todo \ {p}
        /\ Len(body) <= MaxRouteBody
        /\ draft' = [path |-> p, body |-> body, body_off |-> arena_len, h2 |-> NoHttp2]
        /\ arena_len' = arena_len + Len(body)
        /\ UNCHANGED <<files, left, prepared, arena, loaded>>
    BY DEF RenderHttp1, Route, body
  <1>4. draft' \in PreparedRoute
    BY <1>1, <1>2, <1>3, NoHttp2Facts DEF PreparedRoute, RoutesType
  <1>5. RoutesType'  BY <1>2, <1>3, <1>4 DEF RoutesType
  <1>6. Drafted'  BY <1>1, <1>2, <1>3 DEF Drafted, RoutesType
  <1>7. Layout'
    <2>1. \A i \in 1 .. Len(prepared) : End(prepared[i]) <= arena_len  BY DEF Layout
    <2>2. \A i \in 1 .. Len(prepared) : End(prepared[i]) \in Nat
      <3> TAKE i \in 1 .. Len(prepared)
      <3>1. prepared[i] \in PreparedRoute  BY ElementOfSeq DEF RoutesType
      <3>2. Len(prepared[i].body) \in Nat /\ Len(prepared[i].h2.body) \in Nat
        BY <3>1, LenProperties DEF PreparedRoute, Http2Response
      <3> QED  BY <3>1, <3>2 DEF End, PreparedRoute, Http2Response
    <2>3. \A i \in 1 .. Len(prepared) : End(prepared[i]) <= arena_len'
      BY <1>2, <1>3, <2>1, <2>2 DEF RoutesType
    <2> QED  BY <1>3, <2>1, <2>3 DEF Layout
  <1>8. Unloaded' /\ Filled'  BY <1>3 DEF Unloaded, Filled
  <1> QED  BY <1>5, <1>6, <1>7, <1>8

\* It is read again, and the HEADERS frame is in front.
LEMMA RenderHttp2Inv ==
    ASSUME RoutesInv, RenderHttp2
    PROVE  RoutesInv'
  <1> DEFINE p == draft.path
             f == HeadersFrame(p, Size(p))
             h == [body |-> f, off |-> 0, sid_offs |-> <<SidAt>>, data_len |-> Size(p)]
  <1> USE DEF RoutesInv
  <1>1. /\ stage = "http2" /\ stage' = "data" /\ left' = Size(p)
        /\ draft' = [draft EXCEPT !.h2 = h]
        /\ UNCHANGED <<files, todo, prepared, arena_len, arena, loaded>>
    BY DEF RenderHttp2
  <1>2. p \in Paths /\ Size(p) \in Nat  BY <1>1, SizeType DEF Drafted
  <1>3. f \in Seq(Cell) /\ SidsAt(f, <<SidAt>>)  BY <1>2, FirstFrameSids
  <1>4. <<SidAt>> \in Seq(Nat)  BY RoutesAssumption
  <1> HIDE DEF f
  <1>5. h \in Http2Response  BY <1>2, <1>3, <1>4 DEF Http2Response
  <1>6. /\ draft' \in PreparedRoute /\ draft'.h2 = h /\ draft'.path = draft.path
        /\ draft'.body = draft.body /\ draft'.body_off = draft.body_off
    BY <1>1, <1>5 DEF PreparedRoute, RoutesType
  <1>7. RoutesType'  BY <1>1, <1>2, <1>6 DEF RoutesType
  <1>8. Drafted'  BY <1>1, <1>2, <1>3, <1>6 DEF Drafted
  <1>9. Layout'  BY <1>1, <1>6 DEF Layout
  <1>10. Unloaded' /\ Filled'  BY <1>1 DEF Unloaded, Filled
  <1> QED  BY <1>7, <1>8, <1>9, <1>10

\* A DATA frame is added, whose stream id is where the next offset says.
LEMMA DataFrameInv ==
    ASSUME RoutesInv, DataFrame
    PROVE  RoutesInv'
  <1> DEFINE p == draft.path
             resp == draft.h2.body
             n == Least(left, MaxFrameSize)
             chunk == Body(p, draft.h2.data_len - left, n)
             flags == IF n = left THEN "end_stream" ELSE "none"
             f == Frame("data", flags, chunk)
             offs == draft.h2.sid_offs
  <1> USE DEF RoutesInv
  <1>1. /\ stage = "data" /\ stage' \in {"place", "data"} /\ left' = left - n
        /\ draft' = [draft EXCEPT !.h2.body = resp \o f,
                                  !.h2.sid_offs = Append(@, SidOffset(resp))]
        /\ UNCHANGED <<files, todo, prepared, arena_len, arena, loaded>>
    BY DEF DataFrame
  <1>2. /\ draft \in PreparedRoute /\ left \in Nat /\ left <= draft.h2.data_len
        /\ p \in Paths /\ SidsAt(resp, offs)
        /\ resp \in Seq(Cell) /\ offs \in Seq(Nat) /\ draft.h2.data_len \in Nat
    BY <1>1, SizeType DEF RoutesType, Drafted, PreparedRoute, Http2Response
  <1>3. n \in Nat /\ n <= left  BY <1>2, RoutesAssumption DEF Least
  <1>4. chunk \in Seq(Cell) /\ Plain(chunk)
    <2>1. draft.h2.data_len - left \in Nat  BY <1>2
    <2> QED  BY <2>1, <1>2, <1>3, BodyFacts
  <1>5. flags \in Flags /\ "data" \in Kinds \ {"sid"}  BY DEF Flags, Kinds
  <1> HIDE DEF chunk, flags, n
  <1>6. f \in Seq(Cell) /\ OneSid(f)
    BY <1>4, <1>5, FrameFacts
  <1> HIDE DEF f
  <1>7. SidsAt(resp \o f, Append(offs, SidOffset(resp)))  BY <1>2, <1>6, NextFrameSids
  <1>8. resp \o f \in Seq(Cell)  BY <1>2, <1>6, ConcatFacts
  <1>9. Append(offs, SidOffset(resp)) \in Seq(Nat)
    <2>1. SidOffset(resp) \in Nat  BY <1>2, RoutesAssumption, LenProperties DEF SidOffset
    <2> QED  BY <2>1, <1>2, AppendFacts
  <1>10. /\ draft' \in PreparedRoute /\ draft'.path = draft.path
         /\ draft'.body = draft.body /\ draft'.body_off = draft.body_off
         /\ draft'.h2.body = resp \o f
         /\ draft'.h2.sid_offs = Append(offs, SidOffset(resp))
         /\ draft'.h2.data_len = draft.h2.data_len
    <2>1. PICK b \in Seq(Cell), o \in Seq(Nat) :
              b = resp \o f /\ o = Append(offs, SidOffset(resp))
      BY <1>8, <1>9
    <2>2. draft' = [draft EXCEPT !.h2.body = b, !.h2.sid_offs = o]  BY <2>1, <1>1
    <2> HIDE DEF p, resp, offs
    <2>3. /\ draft' \in PreparedRoute /\ draft'.path = draft.path
          /\ draft'.body = draft.body /\ draft'.body_off = draft.body_off
          /\ draft'.h2.body = b /\ draft'.h2.sid_offs = o
          /\ draft'.h2.data_len = draft.h2.data_len
      BY <2>2, <1>2 DEF PreparedRoute, Http2Response
    <2> QED  BY <2>1, <2>3
  <1>11. RoutesType'  BY <1>1, <1>2, <1>3, <1>10 DEF RoutesType
  <1>12. Drafted'
    <2>1. left' <= draft'.h2.data_len  BY <1>1, <1>2, <1>3, <1>10
    <2> QED  BY <2>1, <1>1, <1>7, <1>10 DEF Drafted
  <1>13. Layout'  BY <1>1, <1>10 DEF Layout
  <1>14. Unloaded' /\ Filled'  BY <1>1 DEF Unloaded, Filled
  <1> QED  BY <1>11, <1>12, <1>13, <1>14

\* The end of a route is a number, and its renderings are below it.
LEMMA EndType ==
    ASSUME NEW r \in PreparedRoute
    PROVE  /\ End(r) \in Nat /\ Len(r.body) \in Nat /\ Len(r.h2.body) \in Nat
           /\ r.body_off \in Nat /\ r.h2.off \in Nat
           /\ Apart(r) => r.body_off + Len(r.body) <= End(r)
           /\ r.h2.body # <<>> => r.h2.off + Len(r.h2.body) = End(r)
  <1>1. /\ r.body \in Seq(Cell) /\ r.body_off \in Nat
        /\ r.h2.body \in Seq(Cell) /\ r.h2.off \in Nat
    BY DEF PreparedRoute, Http2Response
  <1>2. PICK a \in Nat, b \in Nat, x \in Nat, y \in Nat :
            /\ a = Len(r.body) /\ b = Len(r.h2.body)
            /\ x = r.body_off /\ y = r.h2.off
    BY <1>1, LenProperties
  <1>3. End(r) = IF r.h2.body = <<>> THEN x + a ELSE y + b  BY <1>2 DEF End
  <1>4. PICK u, v : u = r.body_off + Len(r.body) /\ v = End(r)  OBVIOUS
  <1>5. u = x + a  BY <1>2, <1>4
  <1>6. CASE r.h2.body = <<>>
    <2>1. v = x + a  BY <1>3, <1>4, <1>6
    <2>2. v \in Nat /\ u <= v  BY <2>1, <1>2, <1>5
    <2> QED  BY <2>2, <1>2, <1>4, <1>6
  <1>7. CASE r.h2.body # <<>>
    <2>1. v = y + b  BY <1>3, <1>4, <1>7
    <2>2. ASSUME Apart(r)  PROVE u <= v
      <3>1. r.body_off + Len(r.body) <= r.h2.off  BY <2>2, <1>7 DEF Apart
      <3>2. u <= y  BY <3>1, <1>2, <1>4
      <3> QED  BY <3>2, <2>1, <1>2, <1>5
    <2>3. v \in Nat /\ r.h2.off + Len(r.h2.body) = v  BY <2>1, <1>2
    <2> QED  BY <2>2, <2>3, <1>2, <1>4
  <1> QED  BY <1>6, <1>7

\* A route that is prepared behind all others keeps the layout.
LEMMA PreparedLast ==
    ASSUME RoutesInv, NEW r \in PreparedRoute, stage = "place",
           prepared' = Append(prepared, r), stage' = "next",
           Bounded(r), Apart(r), r.body_off = draft.body_off,
           arena_len' \in Nat, arena_len <= arena_len', End(r) <= arena_len'
    PROVE  Layout'
  <1> DEFINE m == Len(prepared)
  <1>1. /\ Len(prepared') = m + 1 /\ m \in Nat /\ prepared'[m + 1] = r
        /\ \A i \in 1 .. m : prepared'[i] = prepared[i]
    BY AppendFacts DEF RoutesInv, RoutesType
  <1>2. \A i \in 1 .. m :
            /\ Bounded(prepared[i]) /\ Apart(prepared[i])
            /\ End(prepared[i]) <= arena_len /\ End(prepared[i]) <= r.body_off
    BY DEF RoutesInv, Layout
  <1>3. \A i \in 1 .. m : End(prepared[i]) \in Nat
    BY EndType, ElementOfSeq DEF RoutesInv, RoutesType
  <1>4. \A i, j \in 1 .. m : i < j => End(prepared[i]) <= prepared[j].body_off
    BY DEF RoutesInv, Layout
  <1>5. arena_len \in Nat  BY DEF RoutesInv, RoutesType
  <1> HIDE DEF m
  <1>6. ASSUME NEW i \in 1 .. m + 1
        PROVE  /\ Bounded(prepared'[i]) /\ Apart(prepared'[i])
               /\ End(prepared'[i]) <= arena_len'
    <2>1. CASE i = m + 1  BY <2>1, <1>1
    <2>2. CASE i \in 1 .. m
      <3>1. prepared'[i] = prepared[i]  BY <2>2, <1>1
      <3>2. End(prepared[i]) <= arena_len'  BY <2>2, <1>2, <1>3, <1>5
      <3> QED  BY <3>1, <3>2, <2>2, <1>2
    <2> QED  BY <2>1, <2>2, <1>1
  <1>7. ASSUME NEW i \in 1 .. m + 1, NEW j \in 1 .. m + 1, i < j
        PROVE  End(prepared'[i]) <= prepared'[j].body_off
    <2>1. i \in 1 .. m /\ prepared'[i] = prepared[i]  BY <1>1, <1>7
    <2>2. CASE j = m + 1  BY <2>1, <2>2, <1>1, <1>2
    <2>3. CASE j \in 1 .. m  BY <2>1, <2>3, <1>1, <1>4, <1>7
    <2> QED  BY <2>2, <2>3, <1>1
  <1> QED  BY <1>1, <1>6, <1>7 DEF Layout, Bounded, Apart, End, m

\* The route is given room behind the ones before it.
LEMMA PrepareInv ==
    ASSUME RoutesInv, Prepare
    PROVE  RoutesInv'
  <1> DEFINE placed == [draft EXCEPT !.h2.off = arena_len]
             plain == [draft EXCEPT !.h2 = NoHttp2]
  <1> USE DEF RoutesInv
  <1>1. /\ stage = "place" /\ stage' = "next"
        /\ UNCHANGED <<files, todo, draft, left, arena, loaded>>
    BY DEF Prepare
  <1>2. /\ draft \in PreparedRoute /\ arena_len \in Nat /\ prepared \in Seq(PreparedRoute)
        /\ Plain(draft.body) /\ Len(draft.body) <= MaxRouteBody
        /\ draft.body_off + Len(draft.body) = arena_len
        /\ SidsAt(draft.h2.body, draft.h2.sid_offs)
    BY <1>1 DEF RoutesType, Drafted
  <1>3. /\ MaxRouteBody \in Nat /\ MaxSidOffs \in Nat
        /\ Len(draft.h2.body) \in Nat /\ Len(draft.body) \in Nat
    BY <1>2, EndType, MaxRouteBodyType, RoutesAssumption
  <1>4. CASE Fits(draft.h2)
    <2>1. prepared' = Append(prepared, placed) /\ arena_len' = arena_len + Len(draft.h2.body)
      BY <1>4 DEF Prepare
    <2>2. /\ placed \in PreparedRoute /\ placed.body = draft.body
          /\ placed.body_off = draft.body_off /\ placed.h2.off = arena_len
          /\ placed.h2.body = draft.h2.body /\ placed.h2.sid_offs = draft.h2.sid_offs
      BY <1>2 DEF PreparedRoute, Http2Response
    <2> HIDE DEF placed
    <2>3. Bounded(placed)  BY <2>2, <1>2, <1>4 DEF Bounded, Fits
    <2>4. Apart(placed)  BY <2>2, <1>2, <1>3 DEF Apart
    <2>5. arena_len' \in Nat /\ arena_len <= arena_len' /\ End(placed) <= arena_len'
      BY <2>1, <2>2, <1>2, <1>3 DEF End
    <2>6. Layout'  BY <2>1, <2>2, <2>3, <2>4, <2>5, <1>1, PreparedLast
    <2>7. Len(prepared') = Len(prepared) + 1 /\ prepared' \in Seq(PreparedRoute)
      BY <2>1, <2>2, <1>2, AppendFacts
    <2>8. RoutesType'  BY <2>5, <2>7, <1>1, <1>2, LenProperties DEF RoutesType
    <2>9. Drafted' /\ Unloaded' /\ Filled'  BY <1>1 DEF Drafted, Unloaded, Filled
    <2> QED  BY <2>6, <2>8, <2>9
  <1>5. CASE ~Fits(draft.h2)
    <2>1. prepared' = Append(prepared, plain) /\ arena_len' = arena_len
      BY <1>5 DEF Prepare
    <2>2. /\ plain \in PreparedRoute /\ plain.body = draft.body
          /\ plain.body_off = draft.body_off /\ plain.h2 = NoHttp2
      BY <1>2, NoHttp2Facts DEF PreparedRoute
    <2> HIDE DEF plain
    <2>3. Len(<<>>) = 0  BY EmptySeq
    <2>4. NoHttp2.body = <<>> /\ NoHttp2.sid_offs = <<>>  BY DEF NoHttp2
    <2>5. Bounded(plain)  BY <2>2, <2>3, <2>4, <1>2, <1>3, NoHttp2Facts DEF Bounded
    <2>6. Apart(plain)  BY <2>2, <2>4 DEF Apart
    <2>7. End(plain) <= arena_len  BY <2>2, <2>4, <1>2, <1>3 DEF End
    <2>8. Layout'  BY <2>1, <2>2, <2>5, <2>6, <2>7, <1>1, <1>2, PreparedLast
    <2>9. Len(prepared') = Len(prepared) + 1 /\ prepared' \in Seq(PreparedRoute)
      BY <2>1, <2>2, <1>2, AppendFacts
    <2>10. RoutesType'  BY <2>1, <2>9, <1>1, <1>2, LenProperties DEF RoutesType
    <2>11. Drafted' /\ Unloaded' /\ Filled'  BY <1>1 DEF Drafted, Unloaded, Filled
    <2> QED  BY <2>8, <2>10, <2>11
  <1> QED  BY <1>4, <1>5

\* The pages that are allocated have room for all routes.
LEMMA LoadInv ==
    ASSUME RoutesInv, Load
    PROVE  RoutesInv'
  <1> USE DEF RoutesInv
  <1>1. /\ stage = "next" /\ stage' = "load"
        /\ arena' = [a \in 0 .. Pages * PageSize - 1 |-> Unset]
        /\ UNCHANGED <<files, todo, draft, left, prepared, arena_len, loaded>>
    BY DEF Load
  <1>2. Pages * PageSize \in Nat /\ arena_len <= Pages * PageSize
    BY PagesReach DEF RoutesType
  <1>3. Unset \in Cell  BY ByteType DEF Unset, Kinds, Flags
  <1>4. arena' \in [0 .. Pages * PageSize - 1 -> Cell]  BY <1>1, <1>3
  <1>5. loaded = 0  BY <1>1 DEF Unloaded
  <1>6. Filled'  BY <1>1, <1>2, <1>4, <1>5 DEF Filled
  <1>7. RoutesType' /\ Drafted' /\ Layout'  BY <1>1 DEF RoutesType, Drafted, Layout
  <1>8. Unloaded'  BY <1>1 DEF Unloaded
  <1> QED  BY <1>6, <1>7, <1>8

\* Copying puts a rendering where it is to be and keeps what is apart from it.
LEMMA CopiedFacts ==
    ASSUME NEW n \in Nat, NEW mem \in [0 .. n - 1 -> Cell], NEW off \in Nat,
           NEW bytes \in Seq(Cell), bytes = <<>> \/ off + Len(bytes) <= n
    PROVE  /\ Copied(mem, off, bytes) \in [0 .. n - 1 -> Cell]
           /\ Holds(Copied(mem, off, bytes), off, bytes)
           /\ \A x \in 0 .. n - 1 :
                 x < off \/ off + Len(bytes) <= x => Copied(mem, off, bytes)[x] = mem[x]
  <1> DEFINE L == Len(bytes)
             c == Copied(mem, off, bytes)
  <1>1. L \in Nat /\ \A k \in 1 .. L : bytes[k] \in Cell  BY LenProperties, ElementOfSeq
  <1>2. bytes = <<>> => L = 0  BY EmptySeq
  <1>3. DOMAIN mem = 0 .. n - 1  OBVIOUS
  <1>4. c = [x \in 0 .. n - 1 |->
                IF off <= x /\ x < off + L THEN bytes[x - off + 1] ELSE mem[x]]
    BY <1>3 DEF Copied
  <1> HIDE DEF L, c
  <1>5. ASSUME NEW x \in 0 .. n - 1  PROVE c[x] \in Cell
    <2>1. CASE off <= x /\ x < off + L
      <3>1. x - off + 1 \in 1 .. L  BY <2>1, <1>1
      <3> QED  BY <3>1, <2>1, <1>1, <1>4
    <2>2. CASE ~(off <= x /\ x < off + L)  BY <2>2, <1>4
    <2> QED  BY <2>1, <2>2
  <1>6. c \in [0 .. n - 1 -> Cell]  BY <1>4, <1>5
  <1>7. ASSUME NEW k \in 1 .. L
        PROVE  off + k - 1 \in DOMAIN c /\ c[off + k - 1] = bytes[k]
    <2>1. off + L <= n  BY <1>1, <1>2 DEF L
    <2>2. off + k - 1 \in 0 .. n - 1  BY <2>1, <1>1
    <2>3. off <= off + k - 1 /\ off + k - 1 < off + L /\ off + k - 1 - off + 1 = k  BY <1>1
    <2> QED  BY <2>2, <2>3, <1>4
  <1>8. \A x \in 0 .. n - 1 : x < off \/ off + L <= x => c[x] = mem[x]  BY <1>1, <1>4
  <1> QED  BY <1>6, <1>7, <1>8 DEF Holds, L, c

\* Two memories are the same in front of a position, so they hold the same there.
Same(mem, new, n, below) == \A x \in 0 .. n - 1 : x < below => new[x] = mem[x]

\* Bytes below what is written stay.
LEMMA HoldsStill ==
    ASSUME NEW n \in Nat, NEW mem \in [0 .. n - 1 -> Cell], NEW new \in [0 .. n - 1 -> Cell],
           NEW below \in Nat, Same(mem, new, n, below),
           NEW off \in Nat, NEW bytes \in Seq(Cell), Holds(mem, off, bytes),
           bytes = <<>> \/ off + Len(bytes) <= below
    PROVE  Holds(new, off, bytes)
  <1>1. Len(bytes) \in Nat /\ (bytes = <<>> => Len(bytes) = 0)  BY LenProperties, EmptySeq
  <1>2. DOMAIN mem = 0 .. n - 1 /\ DOMAIN new = 0 .. n - 1  OBVIOUS
  <1>3. ASSUME NEW k \in 1 .. Len(bytes)
        PROVE  off + k - 1 \in DOMAIN new /\ new[off + k - 1] = bytes[k]
    <2>1. off + k - 1 < below  BY <1>1
    <2>2. off + k - 1 \in 0 .. n - 1 /\ mem[off + k - 1] = bytes[k]  BY <1>2 DEF Holds
    <2> QED  BY <2>1, <2>2, <1>2 DEF Same
  <1> QED  BY <1>3 DEF Holds

\* Two renderings that are apart are both there when they have been copied, and what
\* is in front of them is as before.
LEMMA CopiedTwice ==
    ASSUME NEW n \in Nat, NEW mem \in [0 .. n - 1 -> Cell],
           NEW o1 \in Nat, NEW b1 \in Seq(Cell), o1 + Len(b1) <= n,
           NEW o2 \in Nat, NEW b2 \in Seq(Cell),
           b2 = <<>> \/ (o1 + Len(b1) <= o2 /\ o2 + Len(b2) <= n)
    PROVE  /\ Copied(Copied(mem, o1, b1), o2, b2) \in [0 .. n - 1 -> Cell]
           /\ Holds(Copied(Copied(mem, o1, b1), o2, b2), o1, b1)
           /\ Holds(Copied(Copied(mem, o1, b1), o2, b2), o2, b2)
           /\ Same(mem, Copied(Copied(mem, o1, b1), o2, b2), n, o1)
  <1> DEFINE once == Copied(mem, o1, b1)
             new == Copied(once, o2, b2)
             end == o1 + Len(b1)
  <1>1. Len(b1) \in Nat /\ Len(b2) \in Nat /\ (b2 = <<>> => Len(b2) = 0)
    BY LenProperties, EmptySeq
  <1>2. /\ once \in [0 .. n - 1 -> Cell] /\ Holds(once, o1, b1)
        /\ \A x \in 0 .. n - 1 : x < o1 \/ end <= x => once[x] = mem[x]
    BY CopiedFacts
  <1> HIDE DEF once
  <1>3. b2 = <<>> \/ o2 + Len(b2) <= n  OBVIOUS
  <1>4. /\ new \in [0 .. n - 1 -> Cell] /\ Holds(new, o2, b2)
        /\ \A x \in 0 .. n - 1 : x < o2 \/ o2 + Len(b2) <= x => new[x] = once[x]
    BY <1>2, <1>3, CopiedFacts
  <1> HIDE DEF new
  <1>5. end \in Nat /\ o1 <= end  BY <1>1
  <1>6. ASSUME NEW x \in 0 .. n - 1, x < end  PROVE new[x] = once[x]
    <2>1. CASE b2 = <<>>
      <3>1. x < o2 \/ o2 + Len(b2) <= x  BY <2>1, <1>1
      <3> QED  BY <3>1, <1>4
    <2>2. CASE b2 # <<>>
      <3>1. x < o2  BY <2>2, <1>1, <1>6
      <3> QED  BY <3>1, <1>4
    <2> QED  BY <2>1, <2>2
  <1>7. Same(once, new, n, end)  BY <1>6 DEF Same
  <1>8. Holds(new, o1, b1)
    <2>1. o1 + Len(b1) <= end  BY <1>5
    <2> HIDE DEF end
    <2> QED  BY <2>1, <1>2, <1>4, <1>5, <1>7, HoldsStill
  <1>9. ASSUME NEW x \in 0 .. n - 1, x < o1  PROVE new[x] = mem[x]
    <2>1. x < end  BY <1>5, <1>9
    <2> QED  BY <2>1, <1>2, <1>6, <1>9
  <1>10. Same(mem, new, n, o1)  BY <1>9 DEF Same
  <1> QED  BY <1>4, <1>8, <1>10 DEF new, once

\* A route is copied behind those that were.
LEMMA CopyRouteInv ==
    ASSUME RoutesInv, CopyRoute
    PROVE  RoutesInv'
  <1> DEFINE i == loaded + 1
             r == prepared[i]
  <1> USE DEF RoutesInv
  <1>1. /\ stage = "load" /\ loaded < Len(prepared)
        /\ arena' = Copied(Copied(arena, r.body_off, r.body), r.h2.off, r.h2.body)
        /\ loaded' = i
        /\ UNCHANGED <<files, todo, stage, draft, left, prepared, arena_len>>
    BY DEF CopyRoute
  <1>2. /\ loaded \in Nat /\ Len(prepared) \in Nat /\ arena_len \in Nat
        /\ prepared \in Seq(PreparedRoute)
    BY LenProperties DEF RoutesType
  <1>3. i \in 1 .. Len(prepared) /\ r \in PreparedRoute
    BY <1>1, <1>2, ElementOfSeq
  <1>4. PICK n \in Nat : arena_len <= n /\ arena \in [0 .. n - 1 -> Cell]
    BY <1>1 DEF Filled
  <1>5. Apart(r) /\ End(r) <= arena_len  BY <1>3 DEF Layout
  <1>6. /\ End(r) \in Nat /\ Len(r.body) \in Nat /\ Len(r.h2.body) \in Nat
        /\ r.body_off \in Nat /\ r.h2.off \in Nat
        /\ r.body_off + Len(r.body) <= End(r)
        /\ r.h2.body # <<>> => r.h2.off + Len(r.h2.body) = End(r)
    BY <1>3, <1>5, EndType
  <1>7. r.body \in Seq(Cell) /\ r.h2.body \in Seq(Cell)
    BY <1>3 DEF PreparedRoute, Http2Response
  <1>8. /\ r.body_off + Len(r.body) <= n
        /\ \/ r.h2.body = <<>>
           \/ r.body_off + Len(r.body) <= r.h2.off /\ r.h2.off + Len(r.h2.body) <= n
    <2>1. r.h2.body = <<>> \/ r.body_off + Len(r.body) <= r.h2.off  BY <1>5 DEF Apart
    <2>2. PICK e \in Nat : e = End(r) /\ e <= n  BY <1>2, <1>4, <1>5, <1>6
    <2> HIDE DEF r
    <2>3. r.body_off + Len(r.body) <= n  BY <2>2, <1>6
    <2>4. ASSUME r.h2.body # <<>>  PROVE r.h2.off + Len(r.h2.body) <= n
      BY <2>2, <2>4, <1>6
    <2> QED  BY <2>1, <2>3, <2>4
  <1>9. /\ arena' \in [0 .. n - 1 -> Cell]
        /\ Holds(arena', r.body_off, r.body) /\ Holds(arena', r.h2.off, r.h2.body)
        /\ Same(arena, arena', n, r.body_off)
    <2> HIDE DEF i, r
    <2> QED  BY <1>1, <1>4, <1>6, <1>7, <1>8, CopiedTwice
  <1>10. ASSUME NEW j \in 1 .. i
         PROVE  /\ Holds(arena', prepared[j].body_off, prepared[j].body)
                /\ Holds(arena', prepared[j].h2.off, prepared[j].h2.body)
    <2>1. CASE j = i  BY <2>1, <1>9
    <2>2. CASE j # i
      <3> DEFINE q == prepared[j]
      <3>1. j \in 1 .. loaded /\ j \in 1 .. Len(prepared) /\ j < i  BY <2>2, <1>1, <1>2
      <3>2. Holds(arena, q.body_off, q.body) /\ Holds(arena, q.h2.off, q.h2.body)
        BY <3>1, <1>1 DEF Filled
      <3>3. End(q) <= r.body_off /\ Apart(q)  BY <3>1, <1>3 DEF Layout
      <3>4. q \in PreparedRoute  BY <3>1, <1>2, ElementOfSeq
      <3>5. /\ End(q) \in Nat /\ Len(q.body) \in Nat /\ Len(q.h2.body) \in Nat
            /\ q.body_off \in Nat /\ q.h2.off \in Nat
            /\ q.body_off + Len(q.body) <= End(q)
            /\ q.h2.body # <<>> => q.h2.off + Len(q.h2.body) = End(q)
        BY <3>3, <3>4, EndType
      <3>6. q.body \in Seq(Cell) /\ q.h2.body \in Seq(Cell)
        BY <3>4 DEF PreparedRoute, Http2Response
      <3> HIDE DEF q, r, i
      <3>7. q.body_off + Len(q.body) <= r.body_off  BY <3>3, <3>5, <1>6
      <3>8. q.h2.body = <<>> \/ q.h2.off + Len(q.h2.body) <= r.body_off
        BY <3>3, <3>5, <1>6
      <3>9. Holds(arena', q.body_off, q.body)
        BY <3>2, <3>5, <3>6, <3>7, <1>4, <1>6, <1>9, HoldsStill
      <3>10. Holds(arena', q.h2.off, q.h2.body)
        <4> DEFINE o == q.h2.off  b == q.h2.body  below == r.body_off
        <4>1. /\ o \in Nat /\ b \in Seq(Cell) /\ below \in Nat /\ Holds(arena, o, b)
              /\ Same(arena, arena', n, below)
          BY <3>2, <3>5, <3>6, <1>6, <1>9
        <4>2. b = <<>> \/ o + Len(b) <= below  BY <3>8
        <4> HIDE DEF o, b, below
        <4>3. Holds(arena', o, b)  BY <4>1, <4>2, <1>4, <1>9, HoldsStill
        <4> QED  BY <4>3 DEF o, b
      <3> QED  BY <3>9, <3>10 DEF q
    <2> QED  BY <2>1, <2>2
  <1>11. Filled'  BY <1>1, <1>4, <1>9, <1>10 DEF Filled
  <1>12. RoutesType'  BY <1>1, <1>2, <1>3 DEF RoutesType
  <1>13. Drafted' /\ Layout' /\ Unloaded'  BY <1>1 DEF Drafted, Layout, Unloaded
  <1> QED  BY <1>11, <1>12, <1>13

\* What stops short of rendering, and what changes the files alone.
LEMMA OtherStepInv ==
    ASSUME RoutesInv,
           Bail \/ Rewrite \/ Attach \/ (\E p \in todo : TooLarge(p)) \/ UNCHANGED routeVars
    PROVE  RoutesInv'
  <1> USE DEF RoutesInv
  <1>1. CASE Bail
    <2>1. RoutesType' /\ Drafted' /\ Layout'
      BY <1>1 DEF Bail, RoutesType, Drafted, Layout
    <2>2. Unloaded' /\ Filled'  BY <1>1 DEF Bail, Unloaded, Filled
    <2> QED  BY <2>1, <2>2
  <1>2. CASE Rewrite
    <2>1. PICK n \in Rewrites : files' = [files EXCEPT ![draft.path] = Append(@, n)]
      BY <1>2 DEF Rewrite
    <2>2. UNCHANGED <<todo, stage, draft, left, prepared, arena_len, arena, loaded>>
      BY <1>2 DEF Rewrite
    <2>3. n \in Nat  BY RoutesAssumption
    <2>4. DOMAIN files' = DOMAIN files  BY <2>1
    <2>5. ASSUME NEW p \in DOMAIN files  PROVE files'[p] \in Seq(Nat) /\ files'[p] # <<>>
      <3>1. files[p] \in Seq(Nat) /\ files[p] # <<>>  BY DEF RoutesType
      <3>2. Append(files[p], n) \in Seq(Nat) /\ Append(files[p], n) # <<>>
        BY <3>1, <2>3, AppendProperties
      <3> QED  BY <3>1, <3>2, <2>1
    <2>6. RoutesType'  BY <2>2, <2>4, <2>5 DEF RoutesType
    <2>7. Drafted' /\ Layout' /\ Unloaded' /\ Filled'
      BY <2>2, <2>4 DEF Drafted, Layout, Unloaded, Filled
    <2> QED  BY <2>6, <2>7
  <1>3. CASE Attach
    <2>1. RoutesType' /\ Drafted' /\ Layout'
      BY <1>3 DEF Attach, RoutesType, Drafted, Layout
    <2>2. Unloaded' /\ Filled'  BY <1>3 DEF Attach, Unloaded, Filled
    <2> QED  BY <2>1, <2>2
  <1>4. CASE \E p \in todo : TooLarge(p)
    <2>1. PICK p \in todo : TooLarge(p)  BY <1>4
    <2>2. /\ todo' = todo \ {p}
          /\ UNCHANGED <<files, stage, draft, left, prepared, arena_len, arena, loaded>>
      BY <2>1 DEF TooLarge, Route
    <2>3. RoutesType' /\ Drafted' /\ Layout'  BY <2>2 DEF RoutesType, Drafted, Layout
    <2>4. Unloaded' /\ Filled'  BY <2>2 DEF Unloaded, Filled
    <2> QED  BY <2>3, <2>4
  <1>5. CASE UNCHANGED routeVars
    <2>1. RoutesType' /\ Drafted' /\ Layout'
      BY <1>5 DEF routeVars, RoutesType, Drafted, Layout
    <2>2. Unloaded' /\ Filled'  BY <1>5 DEF routeVars, Unloaded, Filled
    <2> QED  BY <2>1, <2>2
  <1> QED  BY <1>1, <1>2, <1>3, <1>4, <1>5

\* Every step of attach keeps the invariant.
LEMMA RoutesNextInv ==
    ASSUME RoutesInv, [RoutesNext]_routeVars
    PROVE  RoutesInv'
  BY RenderHttp1Inv, RenderHttp2Inv, DataFrameInv, PrepareInv, LoadInv, CopyRouteInv,
     OtherStepInv DEF RoutesNext

-----------------------------------------------------------------------------
(* Whose renderings they are *)

\* A route is prepared once, from its file as it was when it was last read, and an
\* HTTP/2 rendering has frames.
OfFile(r) ==
    /\ r.path \in DOMAIN files /\ r.path \notin todo
    /\ Len(r.body) > 0
    /\ r.h2 = NoHttp2 \/ (r.h2.sid_offs # <<>> /\ r.h2.data_len = Size(r.path))

\* The one being rendered is none of those, so its file may still change.
Current ==
    /\ \A i \in 1 .. Len(prepared) : OfFile(prepared[i])
    /\ stage \in {"http2", "data", "place"} =>
          /\ draft.path \notin todo /\ Len(draft.body) > 0
          /\ \A i \in 1 .. Len(prepared) : prepared[i].path # draft.path
    /\ stage \in {"data", "place"} =>
          draft.h2.sid_offs # <<>> /\ draft.h2.data_len = Size(draft.path)

\* A rendering with frames is not empty.
LEMMA FramesTakeRoom ==
    ASSUME NEW bytes \in Seq(Cell), NEW offs \in Seq(Nat), SidsAt(bytes, offs), offs # <<>>
    PROVE  Len(bytes) > 0
  <1>1. Len(bytes) \in Nat /\ Len(offs) \in Nat  BY LenProperties
  <1>2. 1 \in 1 .. Len(offs)  BY <1>1, EmptySeq
  <1>3. offs[1] \in Nat  BY <1>2, ElementOfSeq
  <1>4. offs[1] + SidLen <= Len(bytes)  BY <1>2 DEF SidsAt
  <1>5. SidLen \in Nat /\ SidLen > 0  BY RoutesAssumption
  <1> QED  BY <1>1, <1>3, <1>4, <1>5

\* A rendering for HTTP/1.1 is of the file as it is,
LEMMA RenderHttp1Current ==
    ASSUME RoutesInv, Current, NEW p \in todo, RenderHttp1(p)
    PROVE  Current'
  <1> DEFINE body == Http1(p, Size(p))
  <1>1. p \in Paths /\ Size(p) \in Nat  BY SizeType DEF RoutesInv, RoutesType
  <1>2. Len(body) > 0  BY <1>1, Http1Facts, RoutesAssumption
  <1> HIDE DEF body
  <1>3. /\ stage' = "http2" /\ todo' = todo \ {p}
        /\ draft' = [path |-> p, body |-> body, body_off |-> arena_len, h2 |-> NoHttp2]
        /\ UNCHANGED <<files, prepared>>
    BY DEF RenderHttp1, Route, body
  <1>4. ASSUME NEW i \in 1 .. Len(prepared)
        PROVE  OfFile(prepared[i])' /\ prepared[i].path # p
    <2>1. OfFile(prepared[i])  BY DEF Current
    <2> QED  BY <2>1, <1>3 DEF OfFile, Size
  <1> QED  BY <1>2, <1>3, <1>4 DEF Current

\* so is the start of one for HTTP/2,
LEMMA RenderHttp2Current ==
    ASSUME RoutesInv, Current, RenderHttp2
    PROVE  Current'
  <1> DEFINE p == draft.path
             h == [body |-> HeadersFrame(p, Size(p)), off |-> 0, sid_offs |-> <<SidAt>>,
                   data_len |-> Size(p)]
  <1>1. /\ stage = "http2" /\ stage' = "data" /\ draft' = [draft EXCEPT !.h2 = h]
        /\ UNCHANGED <<files, todo, prepared>>
    BY DEF RenderHttp2
  <1>2. draft \in PreparedRoute  BY DEF RoutesInv, RoutesType
  <1>3. draft'.path = p /\ draft'.body = draft.body /\ draft'.h2 = h
    BY <1>1, <1>2 DEF PreparedRoute
  <1>4. draft'.h2.sid_offs # <<>> /\ draft'.h2.data_len = Last(files[p])
    BY <1>3 DEF Size
  <1>5. ASSUME NEW i \in 1 .. Len(prepared)  PROVE OfFile(prepared[i])'
    <2>1. OfFile(prepared[i])  BY DEF Current
    <2> QED  BY <2>1, <1>1 DEF OfFile, Size
  <1>6. /\ p \notin todo /\ Len(draft.body) > 0
        /\ \A i \in 1 .. Len(prepared) : prepared[i].path # p
    BY <1>1 DEF Current
  <1> QED  BY <1>1, <1>3, <1>4, <1>5, <1>6 DEF Current, Size

\* with a DATA frame more,
LEMMA DataFrameCurrent ==
    ASSUME RoutesInv, Current, DataFrame
    PROVE  Current'
  <1> DEFINE offs == draft.h2.sid_offs
             o == SidOffset(draft.h2.body)
  <1>1. PICK b : draft' = [draft EXCEPT !.h2.body = b, !.h2.sid_offs = Append(@, o)]
    BY DEF DataFrame
  <1>2. stage = "data" /\ UNCHANGED <<files, todo, prepared>>  BY DEF DataFrame
  <1>3. draft \in PreparedRoute  BY DEF RoutesInv, RoutesType
  <1>4. /\ draft'.path = draft.path /\ draft'.body = draft.body
        /\ draft'.h2.sid_offs = Append(offs, o)
        /\ draft'.h2.data_len = draft.h2.data_len
    BY <1>1, <1>3 DEF PreparedRoute, Http2Response
  <1>5. draft'.h2.sid_offs # <<>>
    <2>1. /\ draft.h2.body \in Seq(Cell) /\ offs \in Seq(Nat)
      BY <1>3 DEF PreparedRoute, Http2Response
    <2>2. o \in Nat  BY <2>1, RoutesAssumption, LenProperties DEF SidOffset
    <2> HIDE DEF offs, o
    <2> QED  BY <2>1, <2>2, <1>4, AppendProperties
  <1>6. ASSUME NEW i \in 1 .. Len(prepared)  PROVE OfFile(prepared[i])'
    <2>1. OfFile(prepared[i])  BY DEF Current
    <2> QED  BY <2>1, <1>2 DEF OfFile, Size
  <1>7. /\ draft.path \notin todo /\ Len(draft.body) > 0
        /\ \A i \in 1 .. Len(prepared) : prepared[i].path # draft.path
        /\ draft.h2.data_len = Last(files[draft.path])
    BY <1>2 DEF Current, Size
  <1> QED  BY <1>2, <1>4, <1>5, <1>6, <1>7 DEF Current, Size

\* and when it is given room.
LEMMA PrepareCurrent ==
    ASSUME RoutesInv, Current, Prepare
    PROVE  Current'
  <1>1. PICK r : /\ prepared' = Append(prepared, r)
                 /\ \/ r = [draft EXCEPT !.h2.off = arena_len]
                    \/ r = [draft EXCEPT !.h2 = NoHttp2]
    BY DEF Prepare
  <1>2. stage = "place" /\ stage' = "next" /\ UNCHANGED <<files, todo, draft>>
    BY DEF Prepare
  <1>3. draft \in PreparedRoute /\ arena_len \in Nat /\ prepared \in Seq(PreparedRoute)
        /\ draft.path \in DOMAIN files
    BY <1>2 DEF RoutesInv, RoutesType, Drafted
  <1>4. /\ r \in PreparedRoute /\ r.path = draft.path /\ r.body = draft.body
        /\ \/ r.h2 = NoHttp2
           \/ r.h2.sid_offs = draft.h2.sid_offs /\ r.h2.data_len = draft.h2.data_len
    <2>1. CASE r = [draft EXCEPT !.h2.off = arena_len]
      BY <2>1, <1>3 DEF PreparedRoute, Http2Response
    <2>2. CASE r = [draft EXCEPT !.h2 = NoHttp2]
      BY <2>2, <1>3, NoHttp2Facts DEF PreparedRoute
    <2> QED  BY <2>1, <2>2, <1>1
  <1>5. OfFile(r)'
    <2>1. /\ draft.path \notin todo /\ Len(draft.body) > 0
          /\ draft.h2.sid_offs # <<>> /\ draft.h2.data_len = Last(files[draft.path])
      BY <1>2 DEF Current, Size
    <2> QED  BY <2>1, <1>2, <1>3, <1>4 DEF OfFile, Size
  <1>6. /\ Len(prepared') = Len(prepared) + 1 /\ prepared'[Len(prepared) + 1] = r
        /\ \A i \in 1 .. Len(prepared) : prepared'[i] = prepared[i]
        /\ Len(prepared) \in Nat
    BY <1>1, <1>3, <1>4, AppendFacts
  <1>7. ASSUME NEW i \in 1 .. Len(prepared')  PROVE OfFile(prepared[i])'
    <2>1. CASE i = Len(prepared) + 1
      <3>1. prepared'[i] = r  BY <2>1, <1>6
      <3> QED  BY <3>1, <1>5 DEF OfFile, Size
    <2>2. CASE i # Len(prepared) + 1
      <3>1. i \in 1 .. Len(prepared) /\ prepared'[i] = prepared[i]  BY <2>2, <1>6
      <3>2. OfFile(prepared[i])  BY <3>1 DEF Current
      <3> QED  BY <3>1, <3>2, <1>2 DEF OfFile, Size
    <2> QED  BY <2>1, <2>2
  <1> QED  BY <1>2, <1>7 DEF Current

\* Once more only the file of the route being rendered changes, until it is read.
LEMMA RewriteCurrent ==
    ASSUME RoutesInv, Current, Rewrite
    PROVE  Current'
  <1>1. PICK n : files' = [files EXCEPT ![draft.path] = Append(@, n)]
    BY DEF Rewrite
  <1>2. stage = "http2" /\ UNCHANGED <<todo, stage, draft, prepared>>  BY DEF Rewrite
  <1>3. /\ draft.path \notin todo /\ Len(draft.body) > 0
        /\ \A i \in 1 .. Len(prepared) : prepared[i].path # draft.path
    BY <1>2 DEF Current
  <1>4. ASSUME NEW i \in 1 .. Len(prepared)  PROVE OfFile(prepared[i])'
    <2>1. OfFile(prepared[i]) /\ prepared[i].path # draft.path  BY <1>3 DEF Current
    <2>2. /\ DOMAIN files' = DOMAIN files
          /\ prepared[i].path \in DOMAIN files
          /\ files'[prepared[i].path] = files[prepared[i].path]
      BY <2>1, <1>1 DEF OfFile
    <2> QED  BY <2>1, <2>2, <1>2 DEF OfFile, Size
  <1> QED  BY <1>2, <1>3, <1>4 DEF Current

\* The rest of attach renders nothing.
LEMMA RestCurrent ==
    ASSUME Current,
           \/ Bail \/ Load \/ CopyRoute \/ Attach \/ UNCHANGED routeVars
           \/ \E p \in todo : TooLarge(p)
    PROVE  Current'
  <1>1. /\ UNCHANGED <<files, draft, prepared>> /\ todo' \subseteq todo
        /\ stage' = stage \/ stage' \notin {"http2", "data", "place"}
    BY DEF Bail, Load, CopyRoute, Attach, TooLarge, Route, routeVars
  <1>2. ASSUME NEW i \in 1 .. Len(prepared)  PROVE OfFile(prepared[i])'
    <2>1. OfFile(prepared[i])  BY DEF Current
    <2> QED  BY <2>1, <1>1 DEF OfFile, Size
  <1> QED  BY <1>1, <1>2 DEF Current, Size

\* Every step keeps the renderings those of the files.
LEMMA CurrentNext ==
    ASSUME RoutesInv, Current, [RoutesNext]_routeVars
    PROVE  Current'
  BY RenderHttp1Current, RenderHttp2Current, DataFrameCurrent, PrepareCurrent,
     RewriteCurrent, RestCurrent DEF RoutesNext

-----------------------------------------------------------------------------
(* Frames and their bytes *)

\* A function on the first numbers is a run of bytes.
LEMMA CellSeq ==
    ASSUME NEW n \in Nat, NEW f \in [1 .. n -> Cell]
    PROVE  f \in Seq(Cell) /\ Len(f) = n
  BY FunSeq

\* What holds of all sequences of bytes.
LEMMA CellFacts ==
    ASSUME NEW bytes \in Seq(Cell)
    PROVE  /\ Len(bytes) \in Nat /\ DOMAIN bytes = 1 .. Len(bytes)
           /\ \A k \in 1 .. Len(bytes) : bytes[k] \in Cell
  BY LenProperties, ElementOfSeq

\* A frame of a response, and how long its header is.
ResponseFrame == [kind : {"headers", "data"}, flags : Flags, payload : Seq(Cell)]
HeaderLen == SidAt + SidLen

\* The bytes of a frame on a stream, and those of frames behind each other.
Wired(f, sid) == FrameHeader(f.kind, f.flags, Len(f.payload), sid) \o f.payload
Encoded(fs, sid) == FlattenSeq([k \in DOMAIN fs |-> Wired(fs[k], sid)])

\* A run of bytes is two behind each other.
Joined(z, x, y) ==
    /\ z \in Seq(Cell) /\ Len(z) = Len(x) + Len(y)
    /\ \A k \in 1 .. Len(x) : z[k] = x[k]
    /\ \A k \in 1 .. Len(y) : z[Len(x) + k] = y[k]

\* So is their concatenation.
LEMMA CatJoins ==
    ASSUME NEW x \in Seq(Cell), NEW y \in Seq(Cell)
    PROVE  Joined(Cat(x, y), x, y)
  <1>1. Cat(x, y) = x \o y  BY DEF Cat
  <1>2. PICK m \in Nat, n \in Nat : m = Len(x) /\ n = Len(y)  BY CellFacts
  <1>3. /\ x \o y \in Seq(Cell) /\ Len(x \o y) = Len(x) + Len(y)
        /\ \A k \in 1 .. Len(x) : (x \o y)[k] = x[k]
        /\ \A k \in Len(x) + 1 .. Len(x) + Len(y) : (x \o y)[k] = y[k - Len(x)]
    BY ConcatFacts
  <1>4. /\ \A k \in 1 .. m : (x \o y)[k] = x[k]
        /\ \A k \in m + 1 .. m + n : (x \o y)[k] = y[k - m]
    BY <1>2, <1>3
  <1>5. \A k \in 1 .. n : m + k \in m + 1 .. m + n /\ (m + k) - m = k
    OBVIOUS
  <1>6. \A k \in 1 .. n : (x \o y)[m + k] = y[k]  BY <1>4, <1>5
  <1> QED  BY <1>1, <1>2, <1>3, <1>6 DEF Joined

\* The bytes of a frame one by one: the header, then the payload.
LEMMA WiredFacts ==
    ASSUME NEW f \in ResponseFrame, NEW sid \in Nat
    PROVE  LET h == FrameHeader(f.kind, f.flags, Len(f.payload), sid)
               w == Wired(f, sid)
           IN  /\ HeaderLen \in Nat /\ HeaderLen > 1 /\ Len(f.payload) \in Nat
               /\ h \in Seq(Cell) /\ Len(h) = HeaderLen
               /\ w \in Seq(Cell) /\ Len(w) = HeaderLen + Len(f.payload)
               /\ \A k \in 1 .. HeaderLen : w[k] = h[k]
               /\ \A k \in 1 .. Len(f.payload) : w[HeaderLen + k] = f.payload[k]
  <1> DEFINE h == FrameHeader(f.kind, f.flags, Len(f.payload), sid)
  <1>1. PICK N \in Nat, n \in Nat : N = HeaderLen /\ n = Len(f.payload) /\ N > 1
    <2>1. SidAt \in Nat \ {0} /\ SidLen \in Nat \ {0}  BY RoutesAssumption
    <2>2. HeaderLen \in Nat /\ HeaderLen > 1  BY <2>1 DEF HeaderLen
    <2>3. Len(f.payload) \in Nat  BY CellFacts DEF ResponseFrame
    <2> QED  BY <2>2, <2>3
  <1>2. /\ f.kind \in Kinds /\ f.flags \in Paths \cup Flags /\ f.payload \in Seq(Cell)
    BY DEF ResponseFrame, Kinds
  <1>3. h \in [1 .. N -> Cell]
    <2>1. Byte(f.kind, f.flags, n) \in Cell  BY <1>1, <1>2, ByteType
    <2>2. Byte("sid", "none", sid) \in Cell  BY ByteType DEF Kinds, Flags
    <2> QED  BY <2>1, <2>2, <1>1 DEF FrameHeader, HeaderLen
  <1>4. h \in Seq(Cell) /\ Len(h) = N  BY <1>1, <1>3, CellSeq
  <1> HIDE DEF h
  <1>5. /\ h \o f.payload \in Seq(Cell) /\ Len(h \o f.payload) = N + n
        /\ \A k \in 1 .. N : (h \o f.payload)[k] = h[k]
        /\ \A k \in N + 1 .. N + n : (h \o f.payload)[k] = f.payload[k - N]
    <2>1. PICK y, z : y = h /\ z = f.payload  OBVIOUS
    <2>2. y \in Seq(Cell) /\ z \in Seq(Cell) /\ Len(y) = N /\ Len(z) = n
      BY <2>1, <1>1, <1>2, <1>4
    <2>3. /\ y \o z \in Seq(Cell) /\ Len(y \o z) = N + n
          /\ \A k \in 1 .. N : (y \o z)[k] = y[k]
          /\ \A k \in N + 1 .. N + n : (y \o z)[k] = z[k - N]
      BY <2>2, ConcatFacts
    <2> QED  BY <2>1, <2>3
  <1>6. ASSUME NEW k \in 1 .. n  PROVE (h \o f.payload)[N + k] = f.payload[k]
    <2>1. N + k \in N + 1 .. N + n /\ (N + k) - N = k  BY <1>1
    <2> QED  BY <2>1, <1>5
  <1>7. Wired(f, sid) = h \o f.payload  BY DEF Wired, h
  <1> QED  BY <1>1, <1>4, <1>5, <1>6, <1>7 DEF h

\* The frames of a sequence as sequences of bytes.
LEMMA WiredSeq ==
    ASSUME NEW fs \in Seq(ResponseFrame), NEW sid \in Nat
    PROVE  /\ [k \in DOMAIN fs |-> Wired(fs[k], sid)] \in Seq(Seq(Cell))
           /\ Len([k \in DOMAIN fs |-> Wired(fs[k], sid)]) = Len(fs)
  <1>1. PICK l \in Nat : l = Len(fs)  BY LenProperties
  <1>2. DOMAIN fs = 1 .. l  BY <1>1, LenProperties
  <1>3. ASSUME NEW k \in 1 .. l  PROVE Wired(fs[k], sid) \in Seq(Cell)
    <2>1. fs[k] \in ResponseFrame  BY <1>1, ElementOfSeq
    <2> QED  BY <2>1, WiredFacts
  <1>4. [k \in 1 .. l |-> Wired(fs[k], sid)] \in [1 .. l -> Seq(Cell)]  BY <1>3
  <1> QED  BY <1>1, <1>2, <1>4, FunSeq

\* Their bytes are a run of bytes.
LEMMA EncodedType ==
    ASSUME NEW fs \in Seq(ResponseFrame), NEW sid \in Nat
    PROVE  Encoded(fs, sid) \in Seq(Cell)
  BY WiredSeq, FlattenType DEF Encoded

\* No frames have none.
LEMMA EncodedEmpty == ASSUME NEW sid  PROVE Encoded(<<>>, sid) = <<>>
  <1>1. PICK e : e = [k \in DOMAIN <<>> |-> Wired(<<>>[k], sid)]  OBVIOUS
  <1>2. e \in Seq({}) /\ Len(e) = 0
    <2>1. DOMAIN <<>> = 1 .. 0  OBVIOUS
    <2>2. e = [k \in 1 .. 0 |-> Wired(<<>>[k], sid)]  BY <1>1, <2>1
    <2>3. e \in [1 .. 0 -> {}]  BY <2>2
    <2> QED  BY <2>3, FunSeq
  <1>3. e = <<>>  BY <1>2, NoElements
  <1> QED  BY <1>1, <1>3, FlattenEmpty DEF Encoded

\* The bytes of the first frame are in front.
LEMMA EncodedCons ==
    ASSUME NEW f \in ResponseFrame, NEW fs \in Seq(ResponseFrame), NEW sid \in Nat
    PROVE  Encoded(<<f>> \o fs, sid) = Wired(f, sid) \o Encoded(fs, sid)
  <1>1. PICK g : g = <<f>> \o fs  OBVIOUS
  <1>2. PICK l \in Nat : l = Len(fs)  BY LenProperties
  <1>3. /\ g \in Seq(ResponseFrame) /\ Len(g) = l + 1 /\ g[1] = f
        /\ \A k \in 1 .. l : g[k + 1] = fs[k]
    BY <1>1, <1>2
  <1> DEFINE w == [k \in DOMAIN fs |-> Wired(fs[k], sid)]
             v == [k \in DOMAIN g |-> Wired(g[k], sid)]
  <1>4. /\ w \in Seq(Seq(Cell)) /\ Len(w) = l /\ v \in Seq(Seq(Cell)) /\ Len(v) = l + 1
    BY <1>2, <1>3, WiredSeq
  <1>5. DOMAIN fs = 1 .. l /\ DOMAIN g = 1 .. l + 1  BY <1>2, <1>3, LenProperties
  <1>6. v[1] = Wired(f, sid) /\ \A k \in 1 .. l : v[k + 1] = w[k]
    BY <1>3, <1>5
  <1>7. Wired(f, sid) \in Seq(Cell)  BY WiredFacts
  <1>8. Encoded(g, sid) = FlattenSeq(v) /\ Encoded(fs, sid) = FlattenSeq(w)
    BY DEF Encoded
  <1>9. PICK x \in Seq(Cell) : x = Wired(f, sid)  BY <1>7
  <1> HIDE DEF w, v
  <1>10. v = <<x>> \o w
    <2>1. <<x>> \o w \in Seq(Seq(Cell)) /\ Len(<<x>> \o w) = l + 1
      BY <1>4, <1>9
    <2>2. \A k \in 1 .. l + 1 : v[k] = (<<x>> \o w)[k]
      <3>1. (<<x>> \o w)[1] = x /\ \A k \in 1 .. l : (<<x>> \o w)[k + 1] = w[k]
        BY <1>4, <1>9
      <3>2. \A k \in 1 .. l + 1 : k = 1 \/ (k - 1 \in 1 .. l /\ k = (k - 1) + 1)
        OBVIOUS
      <3> QED  BY <3>1, <3>2, <1>6, <1>9
    <2> QED  BY <2>1, <2>2, <1>4
  <1>11. FlattenSeq(<<x>> \o w) = x \o FlattenSeq(w)  BY <1>4, <1>9, FlattenCons
  <1> QED  BY <1>1, <1>8, <1>9, <1>10, <1>11

\* Those of the last are at the end.
LEMMA EncodedAppend ==
    ASSUME NEW fs \in Seq(ResponseFrame), NEW f \in ResponseFrame, NEW sid \in Nat
    PROVE  Encoded(Append(fs, f), sid) = Encoded(fs, sid) \o Wired(f, sid)
  <1>1. PICK g : g = Append(fs, f)  OBVIOUS
  <1>2. PICK l \in Nat : l = Len(fs)  BY LenProperties
  <1>3. /\ g \in Seq(ResponseFrame) /\ Len(g) = l + 1 /\ g[l + 1] = f
        /\ \A k \in 1 .. l : g[k] = fs[k]
    BY <1>1, <1>2
  <1> DEFINE w == [k \in DOMAIN fs |-> Wired(fs[k], sid)]
             v == [k \in DOMAIN g |-> Wired(g[k], sid)]
  <1>4. /\ w \in Seq(Seq(Cell)) /\ Len(w) = l /\ v \in Seq(Seq(Cell)) /\ Len(v) = l + 1
    BY <1>2, <1>3, WiredSeq
  <1>5. DOMAIN fs = 1 .. l /\ DOMAIN g = 1 .. l + 1  BY <1>2, <1>3, LenProperties
  <1>6. v[l + 1] = Wired(f, sid) /\ \A k \in 1 .. l : v[k] = w[k]
    BY <1>3, <1>5
  <1>7. PICK x \in Seq(Cell) : x = Wired(f, sid)  BY WiredFacts
  <1>8. Encoded(g, sid) = FlattenSeq(v) /\ Encoded(fs, sid) = FlattenSeq(w)
    BY DEF Encoded
  <1> HIDE DEF w, v
  <1>9. v = Append(w, x)  BY <1>2, <1>4, <1>6, <1>7, AppendIs
  <1>10. FlattenSeq(Append(w, x)) = FlattenSeq(w) \o x  BY <1>4, <1>7, FlattenAppend
  <1> QED  BY <1>1, <1>7, <1>8, <1>9, <1>10

-----------------------------------------------------------------------------
(* The frames of a response *)

\* A frame has no stream id but the one in its header.
PlainFrame == {f \in ResponseFrame : Plain(f.payload)}

\* The frames of a response.
HpackBlock(p, n) == [k \in 1 .. Hpack |-> Byte("hpack", p, n)]
HeadFrame(p, n) ==
    [kind |-> "headers", flags |-> "end_headers", payload |-> HpackBlock(p, n)]
DataFrameOf(flags, payload) == [kind |-> "data", flags |-> flags, payload |-> payload]

\* Whether the stream ends with a frame.
LastFlags == {"none", "end_stream"}

\* What is in the frames behind the first.
DataOf(fs) == FlattenSeq([k \in 1 .. Len(fs) - 1 |-> fs[k + 1].payload])

\* Frames that respond with a file of `n` bytes, the first `m` of them so far.  The
\* flags of the last tell whether it ends the stream.
Framed(fs, p, n, m, last) ==
    /\ fs \in Seq(PlainFrame) /\ fs # <<>> /\ fs[1] = HeadFrame(p, n)
    /\ \A k \in 2 .. Len(fs) :
          /\ fs[k].kind = "data" /\ Len(fs[k].payload) <= MaxFrameSize
          /\ fs[k].flags = IF k = Len(fs) THEN last ELSE "none"
    /\ last = "end_stream" => Len(fs) > 1 /\ m = n
    /\ DataOf(fs) = Body(p, 0, m)

\* A header block has no stream id.
LEMMA HeadFrameType ==
    ASSUME NEW p \in Paths, NEW n \in Nat
    PROVE  /\ HeadFrame(p, n) \in PlainFrame /\ Len(HpackBlock(p, n)) = Hpack
           /\ HpackBlock(p, n)[1] = Byte("hpack", p, n)
  <1>1. Hpack \in Nat /\ 1 \in 1 .. Hpack  BY RoutesAssumption
  <1>2. Byte("hpack", p, n) \in Cell /\ Byte("hpack", p, n).is = "hpack"
    BY ByteType DEF Kinds
  <1> DEFINE b == HpackBlock(p, n)
  <1>3. b \in [1 .. Hpack -> Cell]  BY <1>2 DEF HpackBlock
  <1>4. b \in Seq(Cell) /\ Len(b) = Hpack  BY <1>1, <1>3, CellSeq
  <1>5. \A k \in 1 .. Hpack : b[k] = Byte("hpack", p, n)  BY DEF HpackBlock
  <1>6. Plain(b)  BY <1>2, <1>4, <1>5 DEF Plain
  <1> HIDE DEF b
  <1>7. HeadFrame(p, n) \in PlainFrame
    BY <1>4, <1>6 DEF HeadFrame, PlainFrame, ResponseFrame, Flags, b
  <1> QED  BY <1>1, <1>4, <1>5, <1>7 DEF b

\* Nor does a part of the file.
LEMMA DataFrameType ==
    ASSUME NEW p \in Paths, NEW from \in Nat, NEW n \in Nat, NEW flags \in Flags
    PROVE  DataFrameOf(flags, Body(p, from, n)) \in PlainFrame
  <1>1. PICK b \in Seq(Cell) : b = Body(p, from, n) /\ Plain(b)  BY BodyFacts
  <1> QED  BY <1>1 DEF DataFrameOf, PlainFrame, ResponseFrame

\* Frames without a stream id but in their headers are frames.
LEMMA PlainFrames == \A fs \in Seq(PlainFrame) : fs \in Seq(ResponseFrame)
  <1>1. PlainFrame \subseteq ResponseFrame  BY DEF PlainFrame
  <1> HIDE DEF PlainFrame
  <1> QED  BY <1>1

\* A part of a file and the next part.
LEMMA BodyNext ==
    ASSUME NEW p \in Paths, NEW m \in Nat, NEW n \in Nat
    PROVE  Cat(Body(p, 0, m), Body(p, m, n)) = Body(p, 0, m + n)
  <1>1. PICK x \in Seq(Cell) : x = Body(p, 0, m)  BY BodyFacts
  <1>2. PICK y \in Seq(Cell) : y = Body(p, m, n)  BY BodyFacts
  <1>3. PICK z \in Seq(Cell) : z = Body(p, 0, m + n)  BY BodyFacts
  <1>4. Len(x) = m /\ Len(y) = n /\ Len(z) = m + n  BY <1>1, <1>2, <1>3, BodyFacts
  <1>5. /\ \A k \in 1 .. m : x[k] = Byte("body", p, k)
        /\ \A k \in 1 .. n : y[k] = Byte("body", p, m + k)
        /\ \A k \in 1 .. m + n : z[k] = Byte("body", p, k)
    BY <1>1, <1>2, <1>3 DEF Body
  <1>6. PICK c \in Seq(Cell) : c = Cat(x, y)  BY CatType
  <1>7. Joined(c, x, y)  BY <1>6, CatJoins
  <1>8. /\ Len(c) = m + n
        /\ \A k \in 1 .. m : c[k] = x[k]
        /\ \A k \in 1 .. n : c[m + k] = y[k]
    BY <1>4, <1>7 DEF Joined
  <1>9. ASSUME NEW k \in 1 .. m + n  PROVE c[k] = z[k]
    <2>1. CASE k \in 1 .. m  BY <2>1, <1>5, <1>8
    <2>2. CASE k \notin 1 .. m
      <3>1. PICK j \in 1 .. n : k = m + j
        <4>1. k - m \in 1 .. n /\ k = m + (k - m)  BY <2>2
        <4> QED  BY <4>1
      <3> QED  BY <3>1, <1>5, <1>8
    <2> QED  BY <2>1, <2>2
  <1>10. c = z  BY <1>4, <1>8, <1>9
  <1> QED  BY <1>1, <1>2, <1>3, <1>6, <1>10

\* The payloads behind the first.
Behind(fs) == [k \in 1 .. Len(fs) - 1 |-> fs[k + 1].payload]

\* They are runs of bytes.
LEMMA BehindFacts ==
    ASSUME NEW fs \in Seq(ResponseFrame), fs # <<>>
    PROVE  Behind(fs) \in Seq(Seq(Cell)) /\ Len(Behind(fs)) = Len(fs) - 1
  <1>1. PICK l \in Nat : l = Len(fs) /\ l > 0
    BY LenProperties, EmptySeq
  <1>2. ASSUME NEW k \in 1 .. l - 1  PROVE fs[k + 1].payload \in Seq(Cell)
    <2>1. k + 1 \in 1 .. l  BY <1>1
    <2>2. fs[k + 1] \in ResponseFrame  BY <2>1, <1>1, ElementOfSeq
    <2> QED  BY <2>2 DEF ResponseFrame
  <1>3. l - 1 \in Nat  BY <1>1
  <1>4. [k \in 1 .. l - 1 |-> fs[k + 1].payload] \in [1 .. l - 1 -> Seq(Cell)]  BY <1>2
  <1> QED  BY <1>1, <1>3, <1>4, FunSeq DEF Behind

\* The data of one more frame comes behind that of the others.
LEMMA DataAppend ==
    ASSUME NEW fs \in Seq(ResponseFrame), fs # <<>>, NEW f \in ResponseFrame
    PROVE  DataOf(Append(fs, f)) = Cat(DataOf(fs), f.payload)
  <1>1. PICK g : g = Append(fs, f)  OBVIOUS
  <1>2. PICK l \in Nat : l = Len(fs) /\ l > 0  BY LenProperties, EmptySeq
  <1>3. /\ g \in Seq(ResponseFrame) /\ g # <<>> /\ Len(g) = l + 1 /\ g[l + 1] = f
        /\ \A k \in 1 .. l : g[k] = fs[k]
    BY <1>1, <1>2
  <1>4. PICK v : v = Behind(fs)  OBVIOUS
  <1>5. PICK w : w = Behind(g)  OBVIOUS
  <1>6. PICK d \in Nat : d = l - 1  BY <1>2
  <1>7. /\ v \in Seq(Seq(Cell)) /\ Len(v) = d /\ w \in Seq(Seq(Cell)) /\ Len(w) = d + 1
    <2>1. v \in Seq(Seq(Cell)) /\ Len(v) = Len(fs) - 1  BY <1>4, BehindFacts
    <2>2. w \in Seq(Seq(Cell)) /\ Len(w) = Len(g) - 1  BY <1>3, <1>5, BehindFacts
    <2>3. Len(g) - 1 = d + 1  BY <1>3, <1>6
    <2> QED  BY <2>1, <2>2, <2>3, <1>2, <1>6
  <1>8. \A k \in 1 .. d : v[k] = fs[k + 1].payload  BY <1>2, <1>4, <1>6 DEF Behind
  <1>9. \A k \in 1 .. d + 1 : w[k] = g[k + 1].payload
    <2>1. Len(g) - 1 = d + 1  BY <1>3, <1>6
    <2> QED  BY <2>1, <1>5 DEF Behind
  <1>10. PICK b \in Seq(Cell) : b = f.payload  BY DEF ResponseFrame
  <1>11. w[d + 1] = b
    <2>1. d + 1 \in 1 .. d + 1 /\ (d + 1) + 1 = l + 1  BY <1>6
    <2> QED  BY <2>1, <1>3, <1>9, <1>10
  <1>12. ASSUME NEW k \in 1 .. d  PROVE w[k] = v[k]
    <2>1. k \in 1 .. d + 1 /\ k + 1 \in 1 .. l  BY <1>6
    <2> QED  BY <2>1, <1>3, <1>8, <1>9
  <1>13. w = Append(v, b)  BY <1>7, <1>10, <1>11, <1>12, AppendIs
  <1>14. FlattenSeq(Append(v, b)) = Cat(FlattenSeq(v), b)
    BY <1>7, <1>10, FlattenAppend DEF Cat
  <1>15. DataOf(fs) = FlattenSeq(v) /\ DataOf(g) = FlattenSeq(w)
    BY <1>4, <1>5 DEF DataOf, Behind
  <1> QED  BY <1>1, <1>10, <1>13, <1>14, <1>15

\* The first frame is framed, and has none of the file.
LEMMA FramedStart ==
    ASSUME NEW p \in Paths, NEW n \in Nat
    PROVE  \E fs : Framed(fs, p, n, 0, "none") /\ HeadersFrame(p, n) = Encoded(fs, 0)
  <1>1. PICK f \in PlainFrame : f = HeadFrame(p, n)  BY HeadFrameType
  <1>2. PICK fs \in Seq(PlainFrame) : fs = <<f>>
    <2>1. <<f>> \in Seq(PlainFrame)  OBVIOUS
    <2> QED  BY <2>1
  <1>3. Len(fs) = 1 /\ fs # <<>> /\ fs[1] = f  BY <1>2
  <1>4. DataOf(fs) = Body(p, 0, 0)
    <2>1. PICK v : v = [k \in 1 .. 0 |-> fs[k + 1].payload]  OBVIOUS
    <2>2. v \in [1 .. 0 -> {}]  BY <2>1
    <2>3. v \in Seq({}) /\ Len(v) = 0  BY <2>2, FunSeq
    <2>4. v = <<>>  BY <2>3, NoElements
    <2>5. DataOf(fs) = FlattenSeq(v)
      <3>1. Len(fs) - 1 = 0  BY <1>3
      <3> QED  BY <3>1, <2>1 DEF DataOf
    <2>6. Body(p, 0, 0) \in Seq(Cell) /\ Len(Body(p, 0, 0)) = 0  BY BodyFacts
    <2>7. Body(p, 0, 0) = <<>>  BY <2>6, NoElements
    <2> QED  BY <2>4, <2>5, <2>7, FlattenEmpty
  <1>5. Framed(fs, p, n, 0, "none")
    <2>1. \A k \in 2 .. Len(fs) : FALSE  BY <1>3
    <2> QED  BY <2>1, <1>1, <1>3, <1>4 DEF Framed
  <1>6. Encoded(fs, 0) = Wired(f, 0)
    <2>1. PICK e \in Seq(ResponseFrame) : e = <<>>  BY EmptySeq
    <2>2. f \in ResponseFrame  BY DEF PlainFrame
    <2>3. fs = <<f>> \o e  BY <1>2, <2>1
    <2>4. Encoded(<<f>> \o e, 0) = Wired(f, 0) \o Encoded(e, 0)  BY <2>2, EncodedCons
    <2>5. Encoded(e, 0) = <<>>  BY <2>1, EncodedEmpty
    <2>6. PICK w \in Seq(Cell) : w = Wired(f, 0)  BY <2>2, WiredFacts
    <2>7. w \o <<>> = w  OBVIOUS
    <2> QED  BY <2>3, <2>4, <2>5, <2>6, <2>7
  <1>7. Wired(f, 0) = HeadersFrame(p, n)
    BY <1>1 DEF Wired, HeadFrame, HeadersFrame, Frame, HpackBlock
  <1> QED  BY <1>5, <1>6, <1>7

\* Frames to which one with the next part of the file is added.
Lengthened(fs, p, n, m, c, flags) ==
    \E gs : /\ Framed(gs, p, n, m + c, flags)
            /\ Encoded(gs, 0) = Encoded(fs, 0) \o Frame("data", flags, Body(p, m, c))

\* They have more of it, and the last may end the stream.
LEMMA FramedNext ==
    ASSUME NEW p \in Paths, NEW n \in Nat, NEW m \in Nat, NEW c \in Nat, c <= MaxFrameSize,
           NEW fs, Framed(fs, p, n, m, "none"),
           NEW flags \in LastFlags, flags = "end_stream" => m + c = n
    PROVE  Lengthened(fs, p, n, m, c, flags)
  <1>1. /\ fs \in Seq(PlainFrame) /\ fs # <<>> /\ fs[1] = HeadFrame(p, n)
        /\ \A k \in 2 .. Len(fs) :
              /\ fs[k].kind = "data" /\ Len(fs[k].payload) <= MaxFrameSize
              /\ fs[k].flags = "none"
        /\ DataOf(fs) = Body(p, 0, m)
    BY DEF Framed
  <1>2. flags \in Flags  BY DEF Flags, LastFlags
  <1>3. PICK f \in PlainFrame : f = DataFrameOf(flags, Body(p, m, c))
    BY <1>2, DataFrameType
  <1>4. /\ f.kind = "data" /\ f.flags = flags /\ f.payload = Body(p, m, c)
    BY <1>3 DEF DataFrameOf
  <1>5. Len(f.payload) = c  BY <1>4, BodyFacts
  <1>6. PICK gs \in Seq(PlainFrame) : gs = Append(fs, f)
    <2>1. Append(fs, f) \in Seq(PlainFrame)  BY <1>1, AppendProperties
    <2> QED  BY <2>1
  <1>7. PICK l \in Nat : l = Len(fs) /\ l > 0  BY <1>1, LenProperties, EmptySeq
  <1>8. /\ Len(gs) = l + 1 /\ gs[l + 1] = f /\ gs # <<>>
        /\ \A k \in 1 .. l : gs[k] = fs[k]
    BY <1>1, <1>6, <1>7
  <1>9. fs \in Seq(ResponseFrame) /\ f \in ResponseFrame
    BY <1>1, PlainFrames DEF PlainFrame
  <1>10. DataOf(gs) = Body(p, 0, m + c)
    <2>1. DataOf(gs) = Cat(DataOf(fs), f.payload)  BY <1>1, <1>6, <1>9, DataAppend
    <2>2. DataOf(gs) = Cat(Body(p, 0, m), Body(p, m, c))  BY <2>1, <1>1, <1>4
    <2> QED  BY <2>2, BodyNext
  <1>11. gs[1] = HeadFrame(p, n)
    <2>1. 1 \in 1 .. l  BY <1>7
    <2> QED  BY <2>1, <1>1, <1>8
  <1>12. ASSUME NEW k \in 2 .. l + 1
         PROVE  /\ gs[k].kind = "data" /\ Len(gs[k].payload) <= MaxFrameSize
                /\ gs[k].flags = IF k = l + 1 THEN flags ELSE "none"
    <2>1. CASE k = l + 1  BY <2>1, <1>4, <1>5, <1>8
    <2>2. CASE k # l + 1
      <3>1. k \in 1 .. l /\ k \in 2 .. l  BY <2>2
      <3> QED  BY <3>1, <2>2, <1>1, <1>7, <1>8
    <2> QED  BY <2>1, <2>2
  <1>13. Framed(gs, p, n, m + c, flags)
    <2>1. flags = "end_stream" => Len(gs) > 1 /\ m + c = n  BY <1>7, <1>8
    <2>2. \A k \in 2 .. Len(gs) :
             /\ gs[k].kind = "data" /\ Len(gs[k].payload) <= MaxFrameSize
             /\ gs[k].flags = IF k = Len(gs) THEN flags ELSE "none"
      BY <1>8, <1>12
    <2> QED  BY <2>1, <2>2, <1>8, <1>10, <1>11 DEF Framed
  <1>14. Wired(f, 0) = Frame("data", flags, Body(p, m, c))
    BY <1>4 DEF Wired, Frame
  <1>15. Encoded(gs, 0) = Encoded(fs, 0) \o Wired(f, 0)  BY <1>6, <1>9, EncodedAppend
  <1> QED  BY <1>13, <1>14, <1>15 DEF Lengthened

-----------------------------------------------------------------------------
(* What is prepared can be read *)

\* The HTTP/1.1 response with a version of a file.
OneVersion(p, body) == \E k \in 1 .. Len(files[p]) : body = Http1(p, files[p][k])

\* The HTTP/2 rendering of a route are frames with the first `m` bytes of its file.
HasFrames(r, m, last) ==
    \E fs : Framed(fs, r.path, r.h2.data_len, m, last) /\ r.h2.body = Encoded(fs, 0)

Readable(r) ==
    /\ OneVersion(r.path, r.body)
    /\ r.h2 = NoHttp2 \/ HasFrames(r, r.h2.data_len, "end_stream")

\* What is prepared can be read; so can what has been rendered of the next route.
Written ==
    /\ \A i \in 1 .. Len(prepared) : Readable(prepared[i])
    /\ stage \in {"http2", "data", "place"} => OneVersion(draft.path, draft.body)
    /\ stage = "data" => HasFrames(draft, draft.h2.data_len - left, "none")
    /\ stage = "place" => HasFrames(draft, draft.h2.data_len, "end_stream")

\* Nothing is prepared at first.
LEMMA WrittenInit == RoutesInit => Written
  <1> SUFFICES ASSUME RoutesInit  PROVE Written
    OBVIOUS
  <1>1. prepared = <<>> /\ stage = "next" /\ Len(<<>>) = 0  BY EmptySeq DEF RoutesInit
  <1> QED  BY <1>1 DEF Written

\* A version of a file stays one.
LEMMA VersionKept ==
    ASSUME RoutesInv, [RoutesNext]_routeVars, NEW p \in DOMAIN files, NEW body,
           OneVersion(p, body)
    PROVE  OneVersion(p, body)'
  <1>1. PICK k \in 1 .. Len(files[p]) : body = Http1(p, files[p][k])
    BY DEF OneVersion
  <1>2. CASE files' = files  BY <1>1, <1>2 DEF OneVersion
  <1>3. CASE Rewrite
    <2>1. PICK n \in Rewrites : files' = [files EXCEPT ![draft.path] = Append(@, n)]
      BY <1>3 DEF Rewrite
    <2>2. n \in Nat  BY RoutesAssumption
    <2>3. PICK fs \in Seq(Nat) : fs = files[p]  BY DEF RoutesInv, RoutesType
    <2>4. CASE p = draft.path
      <3>1. files'[p] = Append(fs, n)  BY <2>1, <2>3, <2>4
      <3>2. PICK l \in Nat : l = Len(fs)  BY LenProperties
      <3>3. Len(Append(fs, n)) = l + 1 /\ \A j \in 1 .. l : Append(fs, n)[j] = fs[j]
        BY <2>2, <3>2, AppendFacts
      <3>4. k \in 1 .. l /\ k \in 1 .. l + 1  BY <1>1, <2>3, <3>2
      <3>5. body = Http1(p, files'[p][k]) /\ k \in 1 .. Len(files'[p])
        BY <1>1, <2>3, <3>1, <3>3, <3>4
      <3> QED  BY <3>5 DEF OneVersion
    <2>5. CASE p # draft.path
      <3>1. files'[p] = files[p]  BY <2>1, <2>5
      <3> QED  BY <3>1, <1>1 DEF OneVersion
    <2> QED  BY <2>4, <2>5
  <1>4. files' = files \/ Rewrite
    BY DEF RoutesNext, Bail, RenderHttp2, DataFrame, Prepare, Load, CopyRoute, Attach,
           TooLarge, RenderHttp1, routeVars
  <1> QED  BY <1>2, <1>3, <1>4

\* A route that can be read stays so.
LEMMA ReadableKept ==
    ASSUME RoutesInv, Current, Written, [RoutesNext]_routeVars, NEW i \in 1 .. Len(prepared),
           NEW r, r = prepared[i]
    PROVE  Readable(r)'
  <1>1. Readable(r) /\ OfFile(r)  BY DEF Written, Current
  <1>2. r.path \in DOMAIN files  BY <1>1 DEF OfFile
  <1>3. PICK p, b : p \in DOMAIN files /\ p = r.path /\ b = r.body  BY <1>2
  <1>4. OneVersion(p, b)  BY <1>1, <1>3 DEF Readable
  <1>5. OneVersion(p, b)'  BY <1>3, <1>4, VersionKept
  <1>6. OneVersion(r.path, r.body)'  BY <1>3, <1>5
  <1> QED  BY <1>1, <1>6 DEF Readable, HasFrames

\* The file is rendered for HTTP/1.1 as it is,
LEMMA RenderHttp1Written ==
    ASSUME RoutesInv, Current, Written, NEW p \in todo, RenderHttp1(p)
    PROVE  Written'
  <1> DEFINE b == Http1(p, Size(p))
  <1>1. /\ stage' = "http2" /\ prepared' = prepared /\ files' = files
        /\ draft' = [path |-> p, body |-> b, body_off |-> arena_len, h2 |-> NoHttp2]
    BY DEF RenderHttp1
  <1>2. p \in DOMAIN files  BY DEF RoutesInv, RoutesType
  <1>3. OneVersion(p, b)
    <2>1. files[p] \in Seq(Nat) /\ files[p] # <<>>  BY <1>2 DEF RoutesInv, RoutesType
    <2>2. Len(files[p]) \in 1 .. Len(files[p])  BY <2>1, EmptySeq, LenProperties
    <2> QED  BY <2>2 DEF OneVersion, Size, Last
  <1> HIDE DEF b
  <1>4. draft'.path = p /\ draft'.body = b  BY <1>1
  <1>5. OneVersion(draft.path, draft.body)'  BY <1>1, <1>3, <1>4 DEF OneVersion
  <1>6. \A i \in 1 .. Len(prepared) : Readable(prepared[i])'
    BY <1>1 DEF Written, Readable, OneVersion, HasFrames
  <1> QED  BY <1>1, <1>5, <1>6 DEF Written

\* and read anew for HTTP/2;
LEMMA RenderHttp2Written ==
    ASSUME RoutesInv, Current, Written, RenderHttp2
    PROVE  Written'
  <1> DEFINE p == draft.path
             n == Size(p)
             f == HeadersFrame(p, n)
             h == [body |-> f, off |-> 0, sid_offs |-> <<SidAt>>, data_len |-> n]
  <1>1. /\ stage = "http2" /\ stage' = "data" /\ left' = n
        /\ draft' = [draft EXCEPT !.h2 = h]
        /\ prepared' = prepared /\ files' = files
    BY DEF RenderHttp2
  <1>2. p \in Paths /\ n \in Nat /\ draft \in PreparedRoute
    BY <1>1, SizeType DEF RoutesInv, Drafted, RoutesType
  <1>3. PICK fs : Framed(fs, p, n, 0, "none") /\ f = Encoded(fs, 0)  BY <1>2, FramedStart
  <1> HIDE DEF f
  <1>4. /\ draft'.path = p /\ draft'.body = draft.body
        /\ draft'.h2.body = f /\ draft'.h2.data_len = n
    BY <1>1, <1>2 DEF PreparedRoute
  <1>5. draft'.h2.data_len - left' = 0
    <2> HIDE DEF n
    <2>1. n - n = 0  BY <1>2
    <2> QED  BY <2>1, <1>1, <1>4
  <1>6. HasFrames(draft, draft.h2.data_len - left, "none")'
    <2> HIDE DEF p, n
    <2> QED  BY <1>3, <1>4, <1>5 DEF HasFrames
  <1>7. OneVersion(draft.path, draft.body)'
    BY <1>1, <1>4 DEF Written, OneVersion
  <1>8. \A i \in 1 .. Len(prepared) : Readable(prepared[i])'
    BY <1>1 DEF Written, Readable, OneVersion, HasFrames
  <1> QED  BY <1>1, <1>6, <1>7, <1>8 DEF Written

\* each DATA frame has the next part of it, and the last all that is left,
LEMMA DataFrameWritten ==
    ASSUME RoutesInv, Current, Written, DataFrame
    PROVE  Written'
  <1>1. stage = "data" /\ draft \in PreparedRoute /\ left \in Nat
        /\ left <= draft.h2.data_len /\ draft.path \in DOMAIN files
    BY DEF DataFrame, RoutesInv, RoutesType, Drafted
  <1>2. PICK p \in Paths, d \in Nat, l \in Nat, c \in Nat, resp \in Seq(Cell) :
            /\ p = draft.path /\ d = draft.h2.data_len /\ l = left
            /\ c = Least(left, MaxFrameSize) /\ resp = draft.h2.body
    <2>1. draft.path \in Paths  BY <1>1, SizeType DEF RoutesInv
    <2>2. draft.h2.data_len \in Nat /\ draft.h2.body \in Seq(Cell)
      BY <1>1 DEF PreparedRoute, Http2Response
    <2>3. Least(left, MaxFrameSize) \in Nat  BY <1>1, RoutesAssumption DEF Least
    <2> QED  BY <2>1, <2>2, <2>3, <1>1
  <1>3. l <= d /\ c <= l /\ c <= MaxFrameSize
    BY <1>1, <1>2, RoutesAssumption DEF Least
  <1>4. PICK m \in Nat : m = d - l  BY <1>3
  <1>5. PICK flags \in LastFlags : flags = IF c = l THEN "end_stream" ELSE "none"
    BY DEF LastFlags
  <1>6. /\ draft' = [draft EXCEPT
              !.h2.body = resp \o Frame("data", flags, Body(p, m, c)),
              !.h2.sid_offs = Append(@, SidOffset(resp))]
        /\ left' = l - c /\ stage' = IF c = l THEN "place" ELSE "data"
        /\ prepared' = prepared /\ files' = files
    BY <1>2, <1>4, <1>5 DEF DataFrame
  <1>7. stage' = IF flags = "end_stream" THEN "place" ELSE "data"  BY <1>5, <1>6
  <1>8. PICK fs : Framed(fs, p, d, m, "none") /\ resp = Encoded(fs, 0)
    BY <1>1, <1>2, <1>4 DEF Written, HasFrames
  <1>9. flags = "end_stream" => m + c = d
    <2>1. c = l => m + c = d  BY <1>3, <1>4
    <2> QED  BY <2>1, <1>5
  <1>10. PICK gs : /\ Framed(gs, p, d, m + c, flags)
                   /\ Encoded(gs, 0) = Encoded(fs, 0) \o Frame("data", flags, Body(p, m, c))
    <2>1. c <= MaxFrameSize /\ Framed(fs, p, d, m, "none")  BY <1>3, <1>8
    <2>2. Lengthened(fs, p, d, m, c, flags)  BY <2>1, <1>9, FramedNext
    <2> QED  BY <2>2 DEF Lengthened
  <1>11. /\ draft'.path = p /\ draft'.body = draft.body /\ draft'.h2.data_len = d
         /\ draft'.h2.body = Encoded(gs, 0)
    <2>1. /\ draft'.path = draft.path /\ draft'.body = draft.body
          /\ draft'.h2.data_len = draft.h2.data_len
          /\ draft'.h2.body = resp \o Frame("data", flags, Body(p, m, c))
      BY <1>1, <1>6 DEF PreparedRoute, Http2Response
    <2> QED  BY <2>1, <1>2, <1>8, <1>10
  <1>12. draft'.h2.data_len - left' = m + c
    <2>1. d - (l - c) = m + c  BY <1>3, <1>4
    <2> QED  BY <2>1, <1>6, <1>11
  <1>13. stage' = "data" => HasFrames(draft, draft.h2.data_len - left, "none")'
    <2> SUFFICES ASSUME stage' = "data"
                 PROVE  HasFrames(draft, draft.h2.data_len - left, "none")'
      OBVIOUS
    <2>1. flags = "none"  BY <1>5, <1>7 DEF LastFlags
    <2>2. Framed(gs, p, d, m + c, "none")  BY <2>1, <1>10
    <2> QED  BY <2>2, <1>11, <1>12 DEF HasFrames
  <1>14. stage' = "place" => HasFrames(draft, draft.h2.data_len, "end_stream")'
    <2> SUFFICES ASSUME stage' = "place"
                 PROVE  HasFrames(draft, draft.h2.data_len, "end_stream")'
      OBVIOUS
    <2>1. flags = "end_stream"  BY <1>5, <1>7
    <2>2. Framed(gs, p, d, d, "end_stream")  BY <2>1, <1>9, <1>10
    <2> QED  BY <2>2, <1>11 DEF HasFrames
  <1>15. OneVersion(draft.path, draft.body)'
    BY <1>1, <1>2, <1>6, <1>11 DEF Written, OneVersion
  <1>16. \A i \in 1 .. Len(prepared) : Readable(prepared[i])'
    BY <1>6 DEF Written, Readable, OneVersion, HasFrames
  <1> QED  BY <1>6, <1>7, <1>13, <1>14, <1>15, <1>16 DEF Written

\* and the route is prepared with what it has been rendered to.
LEMMA PrepareWritten ==
    ASSUME RoutesInv, Current, Written, Prepare
    PROVE  Written'
  <1>1. PICK r : /\ prepared' = Append(prepared, r)
                 /\ \/ r = [draft EXCEPT !.h2.off = arena_len]
                    \/ r = [draft EXCEPT !.h2 = NoHttp2]
    BY DEF Prepare
  <1>2. stage = "place" /\ stage' = "next" /\ UNCHANGED <<files, draft>>
    BY DEF Prepare
  <1>3. draft \in PreparedRoute /\ arena_len \in Nat /\ prepared \in Seq(PreparedRoute)
    BY <1>2 DEF RoutesInv, RoutesType
  <1>4. /\ r \in PreparedRoute /\ r.path = draft.path /\ r.body = draft.body
        /\ \/ r.h2 = NoHttp2
           \/ r.h2.body = draft.h2.body /\ r.h2.data_len = draft.h2.data_len
    <2>1. CASE r = [draft EXCEPT !.h2.off = arena_len]
      BY <2>1, <1>3 DEF PreparedRoute, Http2Response
    <2>2. CASE r = [draft EXCEPT !.h2 = NoHttp2]
      BY <2>2, <1>3, NoHttp2Facts DEF PreparedRoute
    <2> QED  BY <2>1, <2>2, <1>1
  <1>5. Readable(r)
    <2>1. OneVersion(draft.path, draft.body) /\ HasFrames(draft, draft.h2.data_len, "end_stream")
      BY <1>2 DEF Written
    <2> QED  BY <2>1, <1>4 DEF Readable, HasFrames
  <1>6. /\ Len(prepared') = Len(prepared) + 1 /\ prepared'[Len(prepared) + 1] = r
        /\ \A i \in 1 .. Len(prepared) : prepared'[i] = prepared[i]
        /\ Len(prepared) \in Nat
    BY <1>1, <1>3, <1>4, AppendFacts
  <1>7. ASSUME NEW i \in 1 .. Len(prepared')  PROVE Readable(prepared[i])'
    <2>1. CASE i = Len(prepared) + 1
      <3>1. prepared'[i] = r  BY <2>1, <1>6
      <3> QED  BY <3>1, <1>2, <1>5 DEF Readable, OneVersion, HasFrames
    <2>2. CASE i # Len(prepared) + 1
      <3>1. i \in 1 .. Len(prepared) /\ prepared'[i] = prepared[i]  BY <2>2, <1>6
      <3>2. Readable(prepared[i])  BY <3>1 DEF Written
      <3> QED  BY <3>1, <3>2, <1>2 DEF Readable, OneVersion, HasFrames
    <2> QED  BY <2>1, <2>2
  <1> QED  BY <1>2, <1>7 DEF Written

\* A file that is written anew has had the version the rendering is of.
LEMMA RewriteWritten ==
    ASSUME RoutesInv, Current, Written, Rewrite
    PROVE  Written'
  <1>1. stage = "http2" /\ UNCHANGED <<stage, draft, prepared>>  BY DEF Rewrite
  <1>2. [RoutesNext]_routeVars  BY DEF RoutesNext
  <1>3. PICK p, b : p \in DOMAIN files /\ p = draft.path /\ b = draft.body
    BY <1>1 DEF RoutesInv, Drafted
  <1>4. OneVersion(p, b)'
    <2>1. OneVersion(p, b)  BY <1>1, <1>3 DEF Written
    <2> QED  BY <2>1, <1>2, <1>3, VersionKept
  <1>5. OneVersion(draft.path, draft.body)'
    <2>1. p = draft'.path /\ b = draft'.body  BY <1>1, <1>3
    <2> QED  BY <2>1, <1>4
  <1>6. ASSUME NEW i \in 1 .. Len(prepared)  PROVE Readable(prepared[i])'
    <2>1. PICK r : r = prepared[i]  OBVIOUS
    <2>2. Readable(r)'  BY <2>1, <1>2, ReadableKept
    <2>3. prepared'[i] = r  BY <2>1, <1>1
    <2> QED  BY <2>2, <2>3
  <1> QED  BY <1>1, <1>5, <1>6 DEF Written

\* The rest of attach renders nothing.
LEMMA RestWritten ==
    ASSUME Written,
           \/ Bail \/ Load \/ CopyRoute \/ Attach \/ UNCHANGED routeVars
           \/ \E p \in todo : TooLarge(p)
    PROVE  Written'
  <1>1. /\ UNCHANGED <<files, draft, left, prepared>>
        /\ stage' = stage \/ stage' \notin {"http2", "data", "place"}
    BY DEF Bail, Load, CopyRoute, Attach, TooLarge, Route, routeVars
  <1>2. ASSUME NEW i \in 1 .. Len(prepared)  PROVE Readable(prepared[i])'
    <2>1. Readable(prepared[i])  BY DEF Written
    <2> QED  BY <2>1, <1>1 DEF Readable, OneVersion, HasFrames
  <1>3. stage' = stage =>
            /\ stage \in {"http2", "data", "place"} => OneVersion(draft.path, draft.body)'
            /\ stage = "data" => HasFrames(draft, draft.h2.data_len - left, "none")'
            /\ stage = "place" => HasFrames(draft, draft.h2.data_len, "end_stream")'
    BY <1>1 DEF Written, OneVersion, HasFrames
  <1> QED  BY <1>1, <1>2, <1>3 DEF Written

\* Every step keeps what is prepared readable.
LEMMA WrittenNext ==
    ASSUME RoutesInv, Current, Written, [RoutesNext]_routeVars
    PROVE  Written'
  BY RenderHttp1Written, RenderHttp2Written, DataFrameWritten, PrepareWritten,
     RewriteWritten, RestWritten DEF RoutesNext
=============================================================================
