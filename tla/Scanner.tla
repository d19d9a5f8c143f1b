------------------------------- MODULE Scanner -------------------------------
(***************************************************************************)
(* BeeperStream over bytes: the state machine of Scanner::scan, fed with   *)
(* whatever chunks the socket is read in, protocol() in front of it and    *)
(* poll_read on top of it, for any room the reader offers.                 *)
(*                                                                         *)
(* Scanning a chunk is scanning its bytes one after the other.  A frame    *)
(* header is reduced to its length, in all bytes but the last, and its     *)
(* kind.                                                                   *)
(***************************************************************************)
EXTENDS Naturals, SequencesExt

CONSTANTS
    Preface,        \* PREFACE
    HeaderLen,      \* FRAME_HEADER_LEN
    FcKind,         \* FC_SYNC_FRAME_TYPE
    DtKind,         \* DT_SYNC_FRAME_TYPE
    FlowLen,        \* FC_SYNC_BODY_LEN
    MaxSyncFrame,   \* MAX_SYNC_FRAME
    ReadChunk,      \* READ_CHUNK
    MaxRoom,        \* bound: how much a reader has room for
    Inputs          \* what arrives: opening bytes and, if they are the preface, frames

ASSUME ScannerAssumption ==
    /\ Preface \in Seq(Nat) /\ Len(Preface) > 0
    /\ HeaderLen \in Nat /\ HeaderLen > 1
    /\ FlowLen \in Nat /\ FlowLen > 0
    /\ FcKind \in Nat /\ DtKind \in Nat /\ FcKind # DtKind
    /\ MaxSyncFrame \in Nat /\ ReadChunk \in Nat /\ MaxRoom \in Nat
    /\ \A in \in Inputs :
          /\ in.text \in Seq(Nat)
          /\ in.frames \in Seq([kind : Nat, payload : Seq(Nat)])
          /\ in.text = Preface \/ (~IsPrefix(Preface, in.text) /\ in.frames = <<>>)

VARIABLES
    source,     \* what a reader is to get out of what arrives
    wire,       \* the bytes that have not been read
    scanner,    \* struct Scanner and the handles it reports through
    phase,      \* where the connection's task is
    protocol,   \* what protocol() returned
    handed,     \* history: the bytes the reader was given
    taken,      \* history: the updates taken off the SyncHandle
    reported    \* history: the bytes taken off the FlowHandle

vars == <<source, wire, scanner, phase, protocol, handed, taken, reported>>

-----------------------------------------------------------------------------
(* Scanner::scan, a byte at a time *)

\* Bytes in network order are a number.
Number(bytes) ==
    LET upto[i \in 0 .. Len(bytes)] == IF i = 0 THEN 0 ELSE 256 * upto[i - 1] + bytes[i]
    IN  upto[Len(bytes)]

\* What was gathered for a state is given up with it.
GoTo(sc, state) == [sc EXCEPT !.state = state, !.part = <<>>]

\* A complete update is handed over.
Push(sc) == GoTo([sc EXCEPT !.blocks = Append(@, sc.part)], "header")

\* The slip of a frame without payload that takes the next byte for its own.
SettleShort(sc) ==
    CASE sc.state = "payload" /\ sc.remaining = 0 -> [sc EXCEPT !.remaining = 1]
      [] sc.state = "sync" /\ sc.remaining = 0 -> Push(sc)
      [] OTHER -> sc

\* A payload none of which remains is over.
Settle(sc) ==
    CASE sc.state = "payload" /\ sc.remaining = 0 -> GoTo(sc, "header")
      [] sc.state = "sync" /\ sc.remaining = 0 -> Push(sc)
      [] OTHER -> sc

MatchPreface(sc, b) ==
    LET matched == Append(sc.part, b)
        passed == [sc EXCEPT !.part = matched, !.out = Append(@, b)]
    IN  CASE ~IsPrefix(matched, Preface) -> GoTo(passed, "blind")
          [] matched = Preface -> GoTo(passed, "header")
          [] OTHER -> passed

\* A header is complete: the fast path's own frames are dropped with it, and the
\* first of them that cannot be one ends all filtering.
ReadHeader(sc, b) ==
    LET buf == Append(sc.part, b)
        len == Number(Front(buf))
    IN  CASE Len(buf) < HeaderLen -> [sc EXCEPT !.part = buf]
          [] Len(buf) = HeaderLen /\ b = FcKind ->
                GoTo(sc, IF len = FlowLen THEN "flow" ELSE "blind")
          [] Len(buf) = HeaderLen /\ b = DtKind /\ len <= MaxSyncFrame ->
                GoTo([sc EXCEPT !.remaining = len], "sync")
          [] Len(buf) = HeaderLen /\ b = DtKind /\ len > MaxSyncFrame -> GoTo(sc, "blind")
          [] OTHER -> GoTo([sc EXCEPT !.remaining = len, !.out = @ \o buf], "payload")

ReadFlow(sc, b) ==
    LET buf == Append(sc.part, b) IN
    IF Len(buf) < FlowLen THEN [sc EXCEPT !.part = buf]
    ELSE GoTo([sc EXCEPT !.sent = @ + Number(buf)], "header")

ScanByte(sc, b) ==
    CASE sc.state = "blind" -> [sc EXCEPT !.out = Append(@, b)]
      [] sc.state = "preface" -> MatchPreface(sc, b)
      [] sc.state = "header" -> ReadHeader(sc, b)
      [] sc.state = "payload" -> Settle([sc EXCEPT !.remaining = @ - 1, !.out = Append(@, b)])
      [] sc.state = "flow" -> ReadFlow(sc, b)
      [] sc.state = "sync" -> Settle([sc EXCEPT !.remaining = @ - 1, !.part = Append(@, b)])

\* The slip of an update that does not stop the scanner.
FeedPast(sc, b) == ScanByte(Settle(sc), b)

\* A byte that an update is pending in front of is held back.
Feed(sc, b) ==
    LET at == Settle(sc) IN
    IF at.blocks # <<>> THEN [at EXCEPT !.hold = Append(@, b)] ELSE ScanByte(at, b)

\* The one state the scanner is in after a chunk, as a set.  One that arrives while an
\* update is pending is held back whole.
Scan(sc, bytes) ==
    IF sc.blocks # <<>> THEN {[sc EXCEPT !.hold = @ \o bytes]}
    ELSE LET after[i \in 0 .. Len(bytes)] ==
                 IF i = 0 THEN {sc} ELSE {Feed(s, bytes[i]) : s \in after[i - 1]}
         IN  after[Len(bytes)]

-----------------------------------------------------------------------------
(* What arrives.  The frames are the client's, and the fast path's in front   *)
(* of what it hands over.                                                      *)

\* A frame on the wire: the length of the payload, which is below 256, the kind, the
\* payload.
Encode(f) ==
    [i \in 1 .. HeaderLen - 1 |-> IF i = HeaderLen - 1 THEN Len(f.payload) ELSE 0]
        \o <<f.kind>> \o f.payload

\* What FcSync and DtSync frames have to look like.
Refused(f) ==
    \/ f.kind = FcKind /\ Len(f.payload) # FlowLen
    \/ f.kind = DtKind /\ Len(f.payload) > MaxSyncFrame

Own(f) == f.kind \in {FcKind, DtKind}

\* What a reader is to get out of one more frame: the client's frames, reports added
\* up, each update with how much of both is in front of it.  Nothing is filtered
\* behind the first frame that is refused, whose header is gone.
Filtered(s, f) ==
    CASE s.blind -> [s EXCEPT !.bytes = @ \o Encode(f)]
      [] ~s.blind /\ Refused(f) -> [s EXCEPT !.blind = TRUE, !.bytes = @ \o f.payload]
      [] ~s.blind /\ ~Refused(f) /\ f.kind = FcKind ->
            [s EXCEPT !.sent = @ + Number(f.payload)]
      [] ~s.blind /\ ~Refused(f) /\ f.kind = DtKind ->
            [s EXCEPT !.updates = Append(@, [at |-> Len(s.bytes), block |-> f.payload,
                                             sent |-> s.sent])]
      [] OTHER -> [s EXCEPT !.bytes = @ \o Encode(f)]

\* The fast path's first frame and what is behind it are late.
Carry(s, f) ==
    [Filtered(s, f) EXCEPT !.late = IF @ > 0 \/ Own(f) THEN @ + Len(Encode(f)) ELSE 0]

\* A connection: what arrives, and what a reader is to get of it.  One that does not
\* open with the preface is not HTTP/2, and none of it is filtered.
Stream(in) ==
    LET upto[i \in 0 .. Len(in.frames)] ==
            IF i = 0
            THEN [wire |-> in.text,
                  source |-> [bytes |-> in.text, updates |-> <<>>, sent |-> 0,
                              late |-> 0, blind |-> in.text # Preface]]
            ELSE [wire |-> upto[i - 1].wire \o Encode(in.frames[i]),
                  source |-> Carry(upto[i - 1].source, in.frames[i])]
    IN  upto[Len(in.frames)]

-----------------------------------------------------------------------------
(* The connection *)

Init ==
    /\ \E in \in Inputs : wire = Stream(in).wire /\ source = Stream(in).source
    /\ scanner = [state |-> "preface", part |-> <<>>, remaining |-> 0, out |-> <<>>,
                  hold |-> <<>>, blocks |-> <<>>, sent |-> 0]
    /\ phase = "protocol" /\ protocol = "unknown"
    /\ handed = <<>> /\ taken = <<>> /\ reported = 0

\* The socket is read: some of what is left has arrived by now.
Read ==
    /\ \E n \in 1 .. Len(wire) :
          /\ n <= ReadChunk
          /\ scanner' \in Scan(scanner, SubSeq(wire, 1, n))
          /\ wire' = SubSeq(wire, n + 1, Len(wire))
    /\ UNCHANGED <<source, phase, protocol, handed, taken, reported>>

\* protocol() reads until the preface is complete or something else.  The fast path
\* adds nothing before the client has acknowledged the SETTINGS that the server
\* sends when it knows the protocol.
ReadProtocol ==
    /\ phase = "protocol" /\ scanner.state = "preface"
    /\ Read
    /\ Len(wire') >= source.late

\* A stream that can no longer be followed counts as HTTP/1.1, as does one that
\* ends before it said anything.
ProtocolHttp1 ==
    /\ phase = "protocol"
    /\ \/ scanner.state = "blind"
       \/ scanner.state = "preface" /\ wire = <<>>
    /\ protocol' = "http1" /\ phase' = "polling"
    /\ UNCHANGED <<source, wire, scanner, handed, taken, reported>>

ProtocolHttp2 ==
    /\ phase = "protocol"
    /\ scanner.state \notin {"blind", "preface"}
    /\ protocol' = "http2" /\ phase' = "handshake"
    /\ UNCHANGED <<source, wire, scanner, handed, taken, reported>>

\* The codec reads the preface, and no further, before the loop starts.
Handshake ==
    /\ phase = "handshake"
    /\ handed' = Preface
    /\ scanner' = [scanner EXCEPT !.out = SubSeq(@, Len(Preface) + 1, Len(@))]
    /\ phase' = "woken"
    /\ UNCHANGED <<source, wire, protocol, taken, reported>>

\* What serve_h2 does before it polls the connection.
Take ==
    /\ phase = "woken"
    /\ phase' = "polling"
    /\ reported' = reported + scanner.sent
    /\ taken' = taken \o scanner.blocks
    /\ scanner' = [scanner EXCEPT !.blocks = <<>>, !.sent = 0]
    /\ UNCHANGED <<source, wire, protocol, handed>>

\* serve_h2 looks at the handles before each poll, serve_h1 never does.
PollAgain == phase' = IF protocol = "http2" THEN "woken" ELSE "polling"

\* drain_into: as much as the reader has room for.
Drain ==
    /\ phase = "polling" /\ scanner.out # <<>>
    /\ \E room \in 1 .. MaxRoom :
          LET n == IF room < Len(scanner.out) THEN room ELSE Len(scanner.out) IN
          /\ handed' = handed \o SubSeq(scanner.out, 1, n)
          /\ scanner' = [scanner EXCEPT !.out = SubSeq(@, n + 1, Len(@))]
    /\ UNCHANGED <<source, wire, phase, protocol, taken, reported>>

Dry == phase = "polling" /\ scanner.out = <<>>

\* The slip of a stream that waits for the socket with an update pending.
WithholdAsleep ==
    /\ Dry /\ scanner.blocks # <<>>
    /\ UNCHANGED vars

\* Nothing may be handed out before the update: the task is woken right away.
Withhold ==
    /\ Dry /\ scanner.blocks # <<>>
    /\ PollAgain
    /\ UNCHANGED <<source, wire, scanner, protocol, handed, taken, reported>>

Rescan ==
    /\ Dry /\ scanner.blocks = <<>> /\ scanner.hold # <<>>
    /\ scanner' \in Scan([scanner EXCEPT !.hold = <<>>], scanner.hold)
    /\ UNCHANGED <<source, wire, phase, protocol, handed, taken, reported>>

AtSocket == Dry /\ scanner.blocks = <<>> /\ scanner.hold = <<>>

ReadSocket == AtSocket /\ Read

\* Nothing has arrived yet: the task is polled again when something has.
WaitForSocket ==
    /\ AtSocket /\ wire # <<>>
    /\ PollAgain
    /\ UNCHANGED <<source, wire, scanner, protocol, handed, taken, reported>>

\* The end of the stream leaves the reader's buffer untouched.
ReadEnd ==
    /\ AtSocket /\ wire = <<>>
    /\ phase' = "ended"
    /\ UNCHANGED <<source, wire, scanner, protocol, handed, taken, reported>>

Progress ==
    \/ ReadProtocol \/ ProtocolHttp1 \/ ProtocolHttp2 \/ Handshake \/ Take \/ Drain
    \/ Withhold \/ Rescan \/ ReadEnd

Next == Progress \/ ReadSocket \/ WaitForSocket

Spec == Init /\ [][Next]_vars

\* The task is polled when it is woken, and what was sent arrives in the end.
Fairness == WF_vars(Progress) /\ SF_vars(ReadSocket)

FairSpec == Spec /\ Fairness

-----------------------------------------------------------------------------
\* The handles hold one update at most, and what remains of a payload never goes
\* below zero: the scanner stops at an update and leaves a payload with its last byte.
TypeOK ==
    /\ wire \in Seq(Nat)
    /\ scanner.state \in {"preface", "header", "payload", "sync", "flow", "blind"}
    /\ scanner.part \in Seq(Nat) /\ scanner.remaining \in Nat
    /\ scanner.out \in Seq(Nat) /\ scanner.hold \in Seq(Nat)
    /\ scanner.blocks \in Seq(Seq(Nat)) /\ Len(scanner.blocks) <= 1
    /\ scanner.sent \in Nat
    /\ phase \in {"protocol", "handshake", "woken", "polling", "ended"}
    /\ protocol \in {"unknown", "http1", "http2"}
    /\ handed \in Seq(Nat) /\ taken \in Seq(Seq(Nat)) /\ reported \in Nat

Promise == INSTANCE Filter

\* However the bytes are cut into reads and into what the reader has room for, it
\* gets the client's bytes and nothing else, each update is taken when it has all
\* that is in front of it and nothing of what is behind, and what was reported in
\* front of an update is taken no later than the update.
ImplementsFilter == Promise!Spec

\* Everything that arrives is handed out in the end, and on a connection served as
\* HTTP/2 every update is taken and every report taken or ready to be: no byte stays
\* behind in a buffer, in a frame that is never completed or behind an update.
AllDelivered ==
    <>[](/\ handed = source.bytes
         /\ protocol = "http2" =>
                /\ Len(taken) = Len(source.updates)
                /\ reported + scanner.sent = source.sent)
=============================================================================
