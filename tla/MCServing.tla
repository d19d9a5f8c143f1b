------------------------------ MODULE MCServing ------------------------------
(* Up to two routes, and messages of up to two requests.                     *)
EXTENDS Serving

CONSTANTS a, b, c, long

MCPaths == {a, b, c, long}
MCLong == {long}

\* Empty files, ones that fill frames, chunks and the largest response, and ones that
\* are too large over HTTP/2 or at all.
MCConfigs ==
    [{a, b} -> {0, 1, 2, 5, 6}] \cup [{a} -> {3, 7, 18, 19}] \cup {a :> 1 @@ b :> 19}
        \cup {a :> 1 @@ b :> 1 @@ c :> 1} \cup {a :> 1 @@ long :> 1}

R(p, sid, len) == [path |-> p, sid |-> sid, len |-> len, arrived |-> len]
Cut(r) == [r EXCEPT !.arrived = 1]

M(rs, w, s) == [requests |-> rs, conn_window |-> w, stream_window |-> s]

MCMessages ==
    {M(rs, 12, 12) : rs \in
        {<<R(a, 0, 1)>>, <<R(a, 0, 5), R(b, 0, 2)>>, <<R(b, 0, 9), Cut(R(a, 0, 2))>>}}
    \cup {M(rs, w, s) : w \in {2, 8}, s \in {1, 8}, rs \in
        {<<R(a, 1, 1)>>, <<R(b, 1, 12), R(a, 3, 2)>>, <<R(a, 1, 6), R(c, 3, 1)>>}}
=============================================================================
