-------------------------------- MODULE Routes --------------------------------
(***************************************************************************)
(* What FastPath::attach does before the program runs: the file of every   *)
(* route is rendered for both protocols, the renderings are given room     *)
(* back to back in the arena, and the arena is filled.                     *)
(*                                                                         *)
(* A rendering is the bytes of headers and of a file, which are told apart *)
(* by what they are and where in the file they are.  Files may be written  *)
(* to while they are read.                                                 *)
(***************************************************************************)
EXTENDS Integers, FiniteSets, SequencesExt

CONSTANTS
    Paths,          \* what may be asked for
    Configs,        \* the routes the server may be started with: path to size
    LongPaths,      \* paths with a key longer than MAX_ROUTE_PATH
    MaxRoutes,      \* MAX_ROUTES
    Chunk,          \* CHUNK
    MaxChunks,      \* MAX_CHUNKS
    MaxSidOffs,     \* MAX_SID_OFFS
    MaxFrameSize,   \* MAX_FRAME_SIZE
    PageSize,       \* PAGE_SIZE
    Http1Head,      \* the length of the headers of an HTTP/1.1 response
    Hpack,          \* the length of the header block of an HTTP/2 one
    SidAt,          \* where in a frame header the stream id is
    SidLen,         \* and its length
    Rewrites        \* bound: sizes a file is written anew with, once per route

ASSUME RoutesAssumption ==
    /\ \A c \in Configs : DOMAIN c \subseteq Paths /\ \A p \in DOMAIN c : c[p] \in Nat
    /\ Rewrites \subseteq Nat
    /\ MaxRoutes \in Nat /\ MaxChunks \in Nat /\ MaxSidOffs \in Nat
    /\ Chunk \in Nat \ {0} /\ MaxFrameSize \in Nat \ {0} /\ PageSize \in Nat \ {0}
    /\ Http1Head \in Nat \ {0} /\ Hpack \in Nat \ {0}
    /\ SidAt \in Nat \ {0} /\ SidLen \in Nat \ {0}

VARIABLES
    files,      \* the sizes each route's file has had, the current one last
    todo,       \* the routes that have not been looked at
    stage,      \* where attach is
    draft,      \* the route being rendered
    left,       \* how much of the file is left to put into DATA frames
    prepared,   \* the routes that can be served
    arena_len,  \* how much of the arena they take up
    arena,      \* its bytes
    loaded      \* how many routes have been copied into it

routeVars == <<files, todo, stage, draft, left, prepared, arena_len, arena, loaded>>

MaxRouteBody == MaxChunks * Chunk

Least(m, n) == IF m < n THEN m ELSE n

-----------------------------------------------------------------------------
(* Rendering *)

Byte(is, of, n) == [is |-> is, of |-> of, n |-> n]
Unset == Byte("unset", "none", 0)

\* The bytes of a file from the one behind `from` on.
Body(p, from, n) == [k \in 1 .. n |-> Byte("body", p, from + k)]

\* render_response: the headers say how long the body is.
Http1(p, n) == [k \in 1 .. Http1Head |-> Byte("head", p, n)] \o Body(p, 0, n)

\* The length, kind and flags of a frame, and the stream id.
FrameHeader(kind, flags, n, sid) ==
    [k \in 1 .. SidAt + SidLen |->
        IF k <= SidAt THEN Byte(kind, flags, n) ELSE Byte("sid", "none", sid)]

\* h2_frame: the stream id is not known yet.
Frame(kind, flags, payload) == FrameHeader(kind, flags, Len(payload), 0) \o payload

\* The headers of the response, which name the length of the file.
HeadersFrame(p, n) ==
    Frame("headers", "end_headers", [k \in 1 .. Hpack |-> Byte("hpack", p, n)])

\* What bss has for a route that has no HTTP/2 rendering.
NoHttp2 == [body |-> <<>>, off |-> 0, sid_offs |-> <<>>, data_len |-> 0]

-----------------------------------------------------------------------------
(* attach *)

RoutesInit ==
    /\ \E c \in Configs : files = [p \in DOMAIN c |-> <<c[p]>>]
    /\ todo = DOMAIN files
    /\ stage = "next"
    /\ draft = [path |-> "none", body |-> <<>>, body_off |-> 0, h2 |-> NoHttp2]
    /\ left = 0
    /\ prepared = <<>> /\ arena_len = 0
    /\ arena = <<>> /\ loaded = 0

Size(p) == Last(files[p])

\* Nothing is attached if there are too many routes or one has too long a path.
Bail ==
    /\ stage = "next"
    /\ Cardinality(DOMAIN files) > MaxRoutes \/ todo \cap LongPaths # {}
    /\ stage' = "failed"
    /\ UNCHANGED <<files, todo, draft, left, prepared, arena_len, arena, loaded>>

\* The routes come in any order.
Route(p) ==
    /\ stage = "next" /\ Cardinality(DOMAIN files) <= MaxRoutes
    /\ p \in todo \ LongPaths
    /\ todo' = todo \ {p}

\* A file whose response is too large is left to the server.
TooLarge(p) ==
    /\ Route(p) /\ Len(Http1(p, Size(p))) > MaxRouteBody
    /\ UNCHANGED <<files, stage, draft, left, prepared, arena_len, arena, loaded>>

RenderHttp1(p) ==
    LET body == Http1(p, Size(p)) IN
    /\ Route(p) /\ Len(body) <= MaxRouteBody
    /\ stage' = "http2"
    /\ draft' = [path |-> p, body |-> body, body_off |-> arena_len, h2 |-> NoHttp2]
    /\ arena_len' = arena_len + Len(body)
    /\ UNCHANGED <<files, left, prepared, arena, loaded>>

\* The file is written anew while attach reads it.
Rewrite ==
    /\ stage = "http2" /\ Len(files[draft.path]) = 1
    /\ \E n \in Rewrites : files' = [files EXCEPT ![draft.path] = Append(@, n)]
    /\ UNCHANGED <<todo, stage, draft, left, prepared, arena_len, arena, loaded>>

\* render_h2_response reads the file once more.
RenderHttp2 ==
    LET p == draft.path IN
    /\ stage = "http2"
    /\ stage' = "data"
    /\ left' = Size(p)
    /\ draft' = [draft EXCEPT
          !.h2 = [body |-> HeadersFrame(p, Size(p)), off |-> 0, sid_offs |-> <<SidAt>>,
                  data_len |-> Size(p)]]
    /\ UNCHANGED <<files, todo, prepared, arena_len, arena, loaded>>

\* The slip of naming where the frame starts.
SidOffsetAtFrame(resp) == Len(resp)

\* Where the stream id of the next frame is.
SidOffset(resp) == Len(resp) + SidAt

\* The next DATA frame.  An empty file takes one as well, and the last ends the
\* stream.
DataFrame ==
    LET p == draft.path
        resp == draft.h2.body
        n == Least(left, MaxFrameSize)
        chunk == Body(p, draft.h2.data_len - left, n)
        flags == IF n = left THEN "end_stream" ELSE "none"
    IN  /\ stage = "data"
        /\ draft' = [draft EXCEPT !.h2.body = resp \o Frame("data", flags, chunk),
                                  !.h2.sid_offs = Append(@, SidOffset(resp))]
        /\ left' = left - n
        /\ stage' = IF n = left THEN "place" ELSE "data"
        /\ UNCHANGED <<files, todo, prepared, arena_len, arena, loaded>>

\* The slip of looking at the length of the body without the frames around it.
FitsUnframed(h2) == h2.data_len <= MaxRouteBody /\ Len(h2.sid_offs) <= MaxSidOffs

Fits(h2) == Len(h2.body) <= MaxRouteBody /\ Len(h2.sid_offs) <= MaxSidOffs

\* The HTTP/2 rendering is placed behind the other one, unless it does not fit.
Prepare ==
    /\ stage = "place"
    /\ stage' = "next"
    /\ IF Fits(draft.h2)
       THEN /\ prepared' = Append(prepared, [draft EXCEPT !.h2.off = arena_len])
            /\ arena_len' = arena_len + Len(draft.h2.body)
       ELSE /\ prepared' = Append(prepared, [draft EXCEPT !.h2 = NoHttp2])
            /\ arena_len' = arena_len
    /\ UNCHANGED <<files, todo, draft, left, arena, loaded>>

\* The slip of leaving out a page that is not full.
PagesDown == IF arena_len < PageSize THEN 1 ELSE arena_len \div PageSize

\* The pages the renderings reach, one at least.
Pages ==
    IF arena_len = 0 THEN 1 ELSE (arena_len + PageSize - 1) \div PageSize

\* The arena is created with the program, zeroed.
Load ==
    /\ stage = "next" /\ todo = {}
    /\ stage' = "load"
    /\ arena' = [a \in 0 .. Pages * PageSize - 1 |-> Unset]
    /\ UNCHANGED <<files, todo, draft, left, prepared, arena_len, loaded>>

Copied(mem, off, bytes) ==
    [a \in DOMAIN mem |->
        IF off <= a /\ a < off + Len(bytes) THEN bytes[a - off + 1] ELSE mem[a]]

\* The renderings of a route are copied to where the program will look for them.
CopyRoute ==
    LET r == prepared[loaded + 1] IN
    /\ stage = "load" /\ loaded < Len(prepared)
    /\ arena' = Copied(Copied(arena, r.body_off, r.body), r.h2.off, r.h2.body)
    /\ loaded' = loaded + 1
    /\ UNCHANGED <<files, todo, stage, draft, left, prepared, arena_len>>

\* The routes are indexed and the programs attached: only now requests come in.
Attach ==
    /\ stage = "load" /\ loaded = Len(prepared)
    /\ stage' = "attached"
    /\ UNCHANGED <<files, todo, draft, left, prepared, arena_len, arena, loaded>>

RoutesNext ==
    \/ Bail \/ RenderHttp2 \/ Rewrite \/ DataFrame \/ Prepare
    \/ Load \/ CopyRoute \/ Attach
    \/ \E p \in todo : TooLarge(p) \/ RenderHttp1(p)
=============================================================================
