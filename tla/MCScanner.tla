----------------------------- MODULE MCScanner -----------------------------
(* Connections of every few frames, malformed ones and other protocols.      *)
EXTENDS Scanner

MCPreface == <<80, 82>>

F(k, p) == [kind |-> k, payload |-> p]

\* Frames of the client, one of which looks like the header of an update,
\* reports, updates, and ones that cannot be either.
Frames ==
    {F(4, <<>>), F(1, <<0, DtKind, 0>>), F(FcKind, <<1, 3>>), F(DtKind, <<FcKind>>),
     F(DtKind, <<>>), F(FcKind, <<7>>), F(DtKind, <<1, 2, 3>>)}

Http2(fs) == [text |-> MCPreface, frames |-> fs]
Other(text) == [text |-> text, frames |-> <<>>]

\* Behind what the fast path adds there is always a frame of the client.
MCInputs ==
    {Http2(fs \o <<F(1, <<5>>)>>) : fs \in [1 .. 3 -> Frames]}
        \cup {Other(<<80, 71, DtKind, 0>>), Other(<<71>>), Other(<<80>>), Other(<<>>)}
=============================================================================
