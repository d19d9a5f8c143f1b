# hyper-fast-path: specifications, model checking and proofs

hyper-fast-path answers requests for registered routes inside the kernel. A
sockmap program takes what a client sends off the accepted socket, a second one
parses it and either writes the response straight to the client or hands the
message to the axum server in user space. This directory holds TLA+ modules of
the parts of it that are hard to get right, the TLC runs that check them on
small instances, and proofs of what matters most for every instance.

All line numbers are those of `src/hyper-fast-path/src/`.

    DummyLending <--implements-- DummyPool <-- DummyPool_proofs
                                     |
                                MCDummyPool

    Dispatch <--implements-- Handover = FastPath + UserSpace (over Wire)
                                 |  ^--- Handover_proofs <-- HandoverSync_proofs <-- HandoverOrder_proofs
                            MCHandover         |
                                         Folding_proofs

    Filter <--implements-- Scanner <-- Scanner_proofs   (Scanner_proofs EXTENDS Folding_proofs)
                              |
                          MCScanner

    Reply <--implements-- Serving <-- Serving_proofs    (Serving EXTENDS Routes,
                             |   Routes_proofs <--'      Serving_proofs Routes_proofs,
                         MCServing                      which EXTENDS Folding_proofs)

## Inventory

| Component | State | Operations | Interacts through | Hard behaviour |
|---|---|---|---|---|
| sockops (`fast_path.bpf.c` 1170-1256) | `sock_map`, `conn_dummy`, `dummy_owners`, `free_dummies`, `released_dummies` | `add_conn`, `remove_conn` | BPF maps; a ring buffer to the recycler | runs concurrently with every other program; one of several map updates fails |
| `skb_verdict` (1135-1158) | none | queue a chunk on the connection's dummy | the psock of the dummy | data queued on a dummy outlives its connection |
| `msg_verdict`, routing (915-957, 1100-1131) | apply_bytes and error state of the dummy's psock | find the owner, redirect, drop | `dummy_owners`, `sock_map` | works in a kernel worker, long after it read the owner |
| `msg_verdict` on HTTP/2 (958-1131) | `upgraded_conns`, `flow_ctl`, `dt_dirty`, the parser's dynamic table | upgrade, serve, track, hand over | frames added in front of forwarded messages | three copies of the HPACK table and two of the flow control window have to agree |
| writing a response (667-879) | the message, the windows | grow or shrink, copy, patch the stream id, redirect | routes and arena; the client's egress | any of up to 60 helper calls fails with the message half rewritten; bounded loops |
| recycler (`dummies.rs`) | quarantine queue, the dummies' sockets | poll, wait, reset, free | ring buffer, maps | reset is five steps, each of which may fail; races with the backlog |
| `BeeperStream` (`listener.rs`) | `Scanner`: `out`, `hold`, partial frame; `SyncHandle`, `FlowHandle` | scan, withhold, rescan | shared blocks and counter with the connection loop | what follows an update has to wait for it without sleeping forever |
| connection loop (`server.rs`) | the patched h2 connection | take updates, poll, accept, respond | handles, codec | an update has to be applied between exactly the right two header blocks |
| route preparation (`fast_path.rs`) | rendered routes, their place in the arena | render for each protocol, place, copy | arena, `routes` | what is placed by one side is found by the other, at every size; files change while they are read |

What makes them correct:

* pool: a dummy is lent to one connection at a time, and nothing of a
  connection - queued data, redirection state, an error, table entries - reaches
  the next one; no dummy vanishes unnoticed; released dummies come back;
* fast path and user space together: each request is answered once, not before
  the handshake, and user space decodes the ones it gets with the right table;
* the filter: however a connection's bytes are cut, the codec sees the client's and no others, and
  each update in its place;
* a response: what the client gets is a whole response to its request, on its stream, or nothing;
* flow control: neither side spends window the other has spent, and a response
  fits the window its stream starts with.

## The modules

**DummyPool** is the pool with all of its actors. Each sockops callback is
two actions, split where the other actors can tell: `AddConnPop` is the pop of
`free_dummies`, `AddConnDone`/`AddConnRelease` are the three updates and the
label `release`; `RemoveConnTake` is `remove_conn` up to the inactive owner and
`RemoveConnRelease` the rest. `skb_verdict` is one action, since it runs under the
lock of the client's socket as the callbacks do. `msg_verdict` runs under no lock the others take: `MsgBegin`
copies the owner (line 930), and what it does afterwards (`MsgRedirect`,
`MsgDrop`) uses the copy. `MsgApplied` is the psock passing on bytes of an unfinished
`bpf_msg_apply_bytes` without running the program and `MsgFails` the backlog
giving up. The recycler is the loop of `recycle` with one action for each
step of `reset` (`ResetDelete`, `ResetTakeError`, `ResetUpdate`, `ResetTable`,
`ResetFree`), `ResetFails` for any of them returning early, and `RecyclerEnds`
for a poll that fails. A message is only whose client sent it; `got` remembers
which clients' bytes reached a socket.

**DummyLending** is what the pool promises: a dummy is lent to one
connection, and lent again after it was cleaned. `DummyPool` implements it:
`StageOf` maps a dummy's place to its stage.

**Wire** has what the kernel and user space share: frames, the client's receive
queue and the dynamic table. A table is a sequence of entries, newest first; an
entry is the request that added it and a number. Everyone who keeps a table adds
and evicts as `Added` does.

**FastPath** is `msg_verdict` for one HTTP/2 connection. Every action is one run
of the program on the message in front (`RunsOn`): `Upgrade` (the preface),
`Serve`/`ServeFails`, `Forward`/`SyncFails` (the message goes up with the
table and flow control frames in front, or is dropped), `LeaveToUserSpace`
(a first frame that cannot be parsed) and `PassOn`. As in the code, the parser only sees the first
frame of a message (`Parsed`), the flow control follows up to
`MAX_FLOW_FRAMES` of them (`Track`), a served request leaves the rest of the
message to another run (`TakeRequest`), and the report is prepended after the table and so comes
first on the wire.

**UserSpace** is the other end: `Scan` is `Scanner::scan`, `ReadOut`,
`Withhold`, `Rescan`, `ReadSocket` and `WaitForSocket` are the branches of
`BeeperStream::poll_read`, `Take` is what `serve_h2` does before it polls,
`Decode` and `Respond` are what it relies on h2 for. `Read` takes any number of
the frames that wait, which stands for the ways the bytes can be cut into
reads. `Stall` is a poll in which the codec cannot write and so stops decoding.

**Handover** composes the two with a client that opens the connection, acknowledges
the SETTINGS, changes its initial window, sends requests (on a route of the
fast path or not, each adding some entries to the table) and gives window back. It
bundles frames into messages as it likes (`Put`). Headers frames carry, as ghosts,
the table and stream window the client had when it sent them.

**Dispatch** is what the composition promises about requests: taken by the kernel
or by the server, by one of them, once, and by the server in order. `Handover`
implements it (`Dispatches`); a request taken by both is mapped to a stage `Dispatch`
does not have.

**Scanner** is `BeeperStream` once more, over bytes. `Feed` is what `Scanner::scan`
does with the next byte and `Scan` a chunk, byte after byte, which is the same as the code's
runs of bytes because each state handles them one by one. Two details of the loop are
visible at this level and kept: a payload none of which remains is only over when the next byte
comes (`Settle`), and a chunk that arrives with an update pending is held back whole. `ReadProtocol` and
`Protocol...` are `protocol()`, `Handshake` and `Take` what `serve_h2` does before and in its loop,
the rest are the branches of `poll_read`, for any room the reader has. `Read` takes any
prefix of what is left to come.

**Filter** is what a `BeeperStream` promises: bytes in order, and each update when all in
front of it has been handed out and nothing behind it. `Stream` says what that is, frame by frame and
without regard to bytes or reads (`Filtered`), and `Scanner` implements it (`ImplementsFilter`).

**Routes** is `attach`: each file is read and rendered for HTTP/1.1 (`RenderHttp1`), read again for
HTTP/2 (`RenderHttp2`, `DataFrame` for every DATA frame), given room (`Prepare`), and copied to the arena
(`Load`, `CopyRoute`). Bytes are records that say what they are and of which file; `Rewrite` writes a
file anew between the two reads.

**Serving** EXTENDS it with the run of `msg_verdict` on one message: `Serve` is `serve_route`
up to the first helper call, `Grow`, `Shrink`, `CopyChunk` and `WriteSid` are a helper call each with what follows
it, `...Fails` the early return behind it: -1 (`HandOver`) as long as the message is untouched,
-2 (`Drop`) afterwards. `Redirect` leaves the rest of the message to another run. It is the inside
of what `FastPath` takes as the one step `Serve` or `ServeFails`.

**Reply** is what the fast path promises about the requests of a message: each is answered in its turn with a
whole response - a version of the file, on the request's stream, within both windows - or the
rest is passed on as it arrived, or dropped. `Serving` implements it: the mapping parses what was sent as a client would
(`Understood`), so that a wrong length, flag or stream id is not an answer.

Definitions marked "the slip of ..." are plausible wrong forms of the definition
below them. They are used by nothing; substituting one for its definition has to break a property.

## The runs

| Run | Instance | Shows |
|---|---|---|
| `dummy_pool` | 3 connections (two under one address pair), 1 dummy, ring of 1, quarantine of 2 ticks, backlog of 2; fair | exclusive lending, no silent loss, free dummies are fresh, isolation, own tables; released dummies come back |
| `dummy_ring` | 2 dummies, ring of 1, 2 connections | types; the pool implements `DummyLending`, including dummies lost to a full ring |
| `handover_tables` | 3 requests adding 0 or 1 entries, tables of 2, messages of up to 3 frames | the server decodes with the right table; handshake first; implements `Dispatch` |
| `handover_live` | 2 requests; fair | every request is eventually answered, decoded or its connection fails |
| `handover_windows` | 2 requests, 2 updates, windows of 1 growing to 2 | types; the two sides' accounts of the window balance; the fast path's window is bounded from above and never negative; answers fit their stream |
| `scanner` | preface of 2 bytes, headers of 3, connections of 4 frames of 7 shapes, and four openings of other protocols; fair | implements `Filter`; everything is delivered |
| `serving` | up to 3 routes of 0 to 19 bytes with two slots, chunks of 4 bytes in 2 blocks, 5 chunks, frames of 2, pages of 8; messages of 2 requests, windows of 1 to 12 | renderings are in place; messages become responses; nothing is dropped without need; implements `Reply` |
| `dummy_state`, `handover_left`, `handover_bundled`, `handover_limit`, `handover_ahead` | smallest that show it | each refutes a statement of the sources, see below |

*Bounds.* With one dummy every connection after the first is lent what
the one before left, which is the case the pool's properties are about; two connections under
one address pair, one after the other, are what makes keys and sockets differ. The ring needs two
dummies to overflow. Tables of two entries with three requests evict, exceed
the sync limit of one, and put the table before and after a request apart. Windows of one
are used up by a single answer, so that both sides contend for them. A larger
instance of the windows (3 requests, 11 million states) was run without an error; it
takes too long to be a regular run. In `scanner` a frame is
cut at every byte and in every combination by reads of 1 to all of the bytes; the shapes are a client's empty frame and one
that looks like an update's header inside, updates with and without payload, reports, and both kinds of
refused frames, in all orders of three. In `serving` the sizes are those around the bounds: an
empty file, one that fills a frame, a chunk (with headers) or the largest response, one that only fits over HTTP/1.1 and one that fits over none;
lengths of requests are below, at and above those of responses. Messages never carry more than
`MAX_FLOW_FRAMES` frames in these runs.

*Deadlock* is not checked: all connections close, all requests get answered,
a connection fails, a stream ends, a message is dealt with - the modelled world is finite and stops there.

*Fairness.* `DummyPool`: callbacks return, a worker that has something to send
is scheduled, the recycler thread runs and time passes. New connections,
closing ones and failures are never forced. `Handover`: weak fairness of the
program runs and of polling the task, which the kernel's work queue and the
executor give; strong fairness of `Decode`, because a poll may stall again and again
on a client that does not read, and a client that does read lets it decode
eventually. Nothing forces the client, a response or a failure. `Scanner`: weak fairness of what
the connection's task does, which tokio polls when it was woken, and strong fairness of `ReadSocket`, because
the socket may be found empty again and again although what was sent arrives in the end.
`Serving` states none: it checks safety only.

## What the code does not keep

Each is a statement of the sources that a run refutes (see `findings` in PROJECT.json for the quotes):

1. `remove_conn` "takes the dummy back ... along with the state the fast path
   kept": a `msg_verdict` already past line 930 writes the entries again after they were deleted
   (1215), and the next connection under the address pair starts with them. Isolation is not affected.
2. A connection left to user space (1108-1111) while `dt_dirty` is set never gets the table, though the
   comments at 1047 and 1074 say it must.
3. A request behind another frame in one message is forwarded without being
   parsed (1117-1131): the mirrored table is from then on not "the table as it stands before this message" (961).
4. `MAX_SYNC_ENTRIES` is checked before the served request's own entries are added (965, 1032), so
   a sync frame can carry more, or fail to.
5. `conn_window` runs ahead by more than "the bytes the server has sent since the last WINDOW_UPDATE" (266): increments that return the
   server's bytes are added (553) and those bytes were never subtracted.

`DecodesRight` holds unless 2, 3 or an update applied ahead of an undecoded header block
(`early`, possible only if the codec returns with complete frames in its buffer) has happened; `Derailed` names exactly these,
and one that no statement is about: the entry that marks an answered request in `dt_dirty` may not fit its map, which
is not checked (1052). The map has 16384 entries, and those of 1 are never deleted.

One statement is not refuted by a violated property, since it says what may happen, but contradicted by one that holds.
`h2_flow` says of `conn_window` (272-273) that "it can go negative if the client shrinks a window it had already opened". It
cannot: SETTINGS change `stream_window` alone (581; 241 says as much), and an answer is only given if it fits `conn_window` (769) and
nothing else is taken out of it (847). `TypeOK` gives the variable all of its 32 bits and `NeverOverdrawn` says that it stays at or above zero, in a run
whose client shrinks its windows between answers and in every instance (`WindowNeverNegative`). The first test of line 769 is never true.

*What some properties leave to others.* `Dispatch` has stages for requests, so that a request taken twice by the same side is no step of it: `AccountsBalance`
finds an answer given twice, because the bytes are spent twice and the request counts once (tried with a `TakeRequest` that keeps the request once), and `OrderInv` of the
proofs excludes both. `AccountsBalance` says nothing once a connection is down, so a response that was written half way is for `ImplementsReply` to find.
`DecodesRight` says nothing after a header block has gone past the parser; that it does is finding 3. `WindowBounded` is about the fast path's own
bookkeeping, as the bytes the server sent are on both sides of it; how far it drifts from the client's window is finding 5.

## The proofs

All theorems (one with a further hypothesis, `AnswersFitTheirStreams`) hold for every value of the constants that the named assumptions
allow: `KeyOf` maps sockets to keys, `None` is none of the values, sizes are
natural numbers (positive where the code divides by them), `COPY_BLOCK` divides `CHUNK`, a message has requests of which the
last one alone may be incomplete (`ServingAssumption`), and `MaxDelay < Quarantine`. The last one is the design
assumption behind `QUARANTINE` (dummies.rs 29-32): a released dummy's backlog comes
to rest sooner than the quarantine ends. It is built into `Tick`.

* `TypeCorrect` - `TypeOK` is not inductive: that `remove_conn` finds a dummy to release, or the recycler one to
  reset, depends on where the actor is. `Control` adds this, and that
  the kernel has one live socket per address pair.
* `LendingIsExclusive` - `TypeInv /\ ExclusiveLending` is inductive. Each step moves one dummy between two places;
  the lemmas on queues (`PopPlace`, `PushPlace`, `CollectPlace`) say what a move does to their contents.
* `NothingVanishes` - each step that takes a dummy from a place puts it in another or adds it to `failed`.
* `PoolImplementsLending` - a dummy's stage in `DummyLending` is told from the places it is in, a connection's
  hold from `local` or `conn_dummy`. `Same` says that a step keeps the places the stages differ by; the lemmas
  `IsLend` to `IsStutter` reduce each abstract step to one dummy and one socket. Exclusive lending, before and
  behind the step, is what keeps every other dummy out of it.
* `PoolIsolates`, `LendableIsFresh`, `TablesAreOwn` - from `PoolInv`, which adds `CustodyInv`: the maps
  agree (`MapsAgree`), all a dummy carries has one key, its owner's while it is active (`OneKey`), the
  quarantine and the steps of the reset achieve what the later ones rely on (`Rested`,
  `Restored`). `OneKey` is why a stale copy of the owner does no harm: whatever a
  `msg_verdict` still does belongs to the key it copied.
* `ArenaHoldsRoutes` - `RoutesInv`: each route's renderings lie behind those of the routes before it and below
  `arena_len` (`Layout`), stream ids are where the offsets say (`SidsAt`), and what was copied stays (`Filled`), since a later
  copy only writes above it. `Pages` reaches `arena_len`, which needs the rounding up.
* `RequestsBecomeResponses` - `RunInv` has an invariant for each loop: while the message grows or shrinks, what
  followed the request stays at its end (`EndsWith`, `Resizing`); while it is copied, it agrees with the
  rendering up to the chunk (`CopiedSoFar`); while it is patched, up to the stream id (`PatchedSoFar`). A block copy covers a
  chunk because `COPY_BLOCK` divides `CHUNK` (`ServingAssumption`).
* `AnswersAllItCan` - in two halves. That a message is only dropped when a helper fails is in `RunInv` (`DropsNone`): the growing loop's
  turns suffice because a rendering is at most `MAX_CHUNKS * CHUNK` long, and no stream id is past it. That a request is passed on only
  when there is a reason (`WhyNot`) needs two invariants more: `Current`, every route is of a file that was not written to since and its
  rendering for HTTP/2 has frames and the size of the file; and `Remaining`, what is left of the message is what the requests still to be handled
  take, so that only the last one can be incomplete. Serving a request takes exactly its own bytes off the front (`TakesFront`, `TakesRest`).
* `RepliesKeepThePromise` - `Serving` implements `Reply`, for all files, requests and windows. The client of `Reply` reads frames out of
  bytes (`Frames`), so the proof goes from what attach writes to what such a reader finds in it. `Written` (Routes_proofs): each rendering for HTTP/1.1 is of a
  version the file has had, and each for HTTP/2 the bytes (`Encoded`) of a headers frame and of DATA frames with consecutive parts of a
  version of the file, of which the last and no other ends the stream (`Framed`); a file that is written to between the two reads adds a version
  and takes none away. Writing the stream id where `sid_offs` says is encoding the same frames on that stream (`AddressedEncoded`). Reading
  what frames were encoded to gives them back (`FramesRead`), by induction over what is behind a frame. So the client understands each answer as the
  version of the file on the request's stream (`AnswerUnderstood`). `Passing` has the bytes: until the first helper call that changes it, and
  again when a response has left, a message is the bytes of the requests still to be handled, and nothing else (`Untouched`); that is why
  the two helpers whose failure hands the message over, rather than dropping it, may do so. Every other step until `Redirect` is a stutter or a drop.
* `TypesHold` - in particular that `Redirect` takes from the window what `Serve` found open.
* `NoAnswerBeforeHandshake` - `HandshakeInv`: an acknowledgement is on its way only if the client sent
  one, and it sends one after the server's handshake; `H2_HANDSHAKED` therefore implies both.
* `ConnectionTypes` - `TypeInv` adds to `TypeOK` that every frame is well formed, wherever it waits, and which frames may wait there:
  those of the program's own never reach the codec, an update that holds others back is in front of them. It also
  keeps `conn_window` at or above zero, which is `WindowNeverNegative`: an answer takes out what it was found to fit.

The other theorems about `Handover` are about sequences of frames in transit. **Folding_proofs** has what they
(and the proofs about bytes, of Serving, Routes and Scanner) need: a state machine fed one frame after another (`Fold`), a sum (`Weight`), messages
flattened, and what appending, taking the front and concatenating do to each. Its lemmas rest on `NatInd` and
`SeqInd`, induction stated for the *set* of values that have a property, since the library's theorems take the property as an operator, which
no installed prover instantiates. `Pipe` is what user space has still to decode, `Unseen` what the program has still to run on.

* `DecodesWithItsTable` - `TablesInv`: a reader that starts with the codec's table, must read each header block with the table
  it was encoded with, and replaces its table at an update, gets through `Pipe` and then has the program's table (`mirror`), unless `dt_dirty` says that
  one is still due. One that starts with the program's gets through `Unseen` and then has the client's. Once a connection is left to
  user space, the first gets through both. Every step moves frames from one sequence to the other, or adds what the reader of the other expects.
* `TakesEachRequestOnce` - `OrderInv`: counting the requests in `Pipe` and then in `Unseen` from those that were taken, each comes when
  all before it were counted and it was not, and in the end all that were sent are. A request in front of either is therefore the first that was
  not taken; that the fast path and the server share none follows.
* `WindowIsBounded` - `WindowInv`: before the preface is seen the window believed in is `InitWindow`, and what the program has
  not seen can only open it. That as many bytes are spent as requests were answered follows from `OrderInv`: none is answered twice.
* `WindowsAgree` - `AccountsInv`: the codec's window and the updates on their way, less what it has yet to be told of (`Due`), is what the client
  granted less what both sides sent. Each step takes from one account what it gives to another; nothing is owed before the preface, which starts the program's count afresh.
* `AnswersFitTheirStreams` - `StreamInv`: a reader that starts with the window the program believes a stream to have, takes on what each SETTINGS
  says and must find each request sent with the window it has, gets through `Unseen` and then has the client's. The program forwards what it does not
  answer, and `track_flow` makes of a message what that reader does (`TrackFollows`) if the message is no longer than it looks at: the theorem assumes
  `MaxMsg <= MaxFlowFrames`. Without it the property is false, as TLC shows in `HandoverWindows.cfg` with `MaxMsg = 3`: SETTINGS behind the frames the
  loop looks at (604) shrink the window of new streams unnoticed, although `track_flow` is said to follow "every SETTINGS" of a message (587). `WindowBounded` needs no such assumption, since what is missed there only opens the window.

* `FilterImplemented`, `TypeCorrect` (Scanner_proofs) - the scanner is compared with a reader that nothing holds back (`Reading`, a byte at a
  time): one that settles and reads as the scanner does, goes on behind an update, and notes for each how many bytes and reports were in
  front. Three arguments meet in the invariant. That reader makes of any frames what `Filtered` says (`FrameAgrees`), by induction over the
  bytes of a frame and the frames of a stream. The scanner is such a reader at all times: with what was given out, reported and taken
  added back (`Ghost`) and the bytes it holds read (`Held`), a chunk moves it as it moves the reader (`ScanHeld`). And a reader only adds to the
  bytes and reports it has, and puts later updates behind them (`Further`). `Faithful`: if the reader goes on with
  the bytes on the wire from where the scanner is, it ends with what the stream carries. Hence what is in `out` and in the handles is the
  next of it, and each action of the connection's task is a step of `Filter` or none. `Early` adds that protocol() reads no update, and
  `Waking` that the loop looks for an update only when `out` is empty, which is what "exactly between" rests on.

Only model-checked: everything temporal (`Recycled`, `EventuallyTaken`, `AllDelivered`) since
liveness is out of the prover's reach.

## Abstractions and what is not modelled

* External, modelled from its use: the kernel's sockmap and psock (backlog, apply_bytes,
  removal from the map, the helpers that push, pop and pull), the beeper parser, the patched h2.
* Map updates whose result the code ignores: that of 1052 may fail (`Serve`). Those of 974 and 1084 overwrite an entry that is there. Without the
  entry of 997 the connection is not known to speak HTTP/2 and its next message is not parsed, which is `LeaveToUserSpace`; without that of 1004 `serve_route`
  answers nothing (766), as if no request named a route.
* A report that cannot be prepended leaves the message as it was (`FcSync`). 633-638 have a third outcome, 13 bytes pushed and then not addressable; but pushed at the
  front they are a fragment of their own, for which the pull has nothing to do.
* Handover works on whole frames without bodies, and an empty update at the end of a chunk counts there as scanned
  along with what follows; `Scanner` has the bytes. Not in it: `Content-Length` reservations (979) and a message
  that ends inside a frame behind the first (1129), since what the parser does with the middle of a frame is not
  in the repository.
* HTTP/1.1 requests are answered in `Serving`; that an answer can overtake the response of the server to
  an earlier pipelined request, or land in the middle of it (840), is not modelled: the order of bytes on
  the client's socket is the kernel's.
* The dynamic table replayed is the one before the message, as lines 408-410 and 961-964 have it. How it is
  encoded (`render_dt_sync`, 408-475) is not modelled: a table that does not fit is one of the failures of `SyncFails`.
* `Respond` looks at the connection's window only: the windows of the streams between server and client are h2's own.
* The pull in front of each copy is part of the step: it either fails or makes the window addressable. Bytes of a
  frame header are told apart only as far as a reader of the response does; the values of headers are left to the
  file they are of.
* `attach` returning early for a file that cannot be read, an address, or a map update leaves nothing attached, as `Bail` does.
  Two routes whose keys coincide (a plain path equal to another's Huffman encoding) are not modelled.
* `raise_fd_limit`, logging, command line handling, scripts.

Met while modelling, and without a run because no statement of the sources is refuted in the model:

* The windows of the copy start at multiples of `CHUNK` (813), but the growing pushes its elements behind
  the request (797), so that a window is not "what the push above made one scatterlist element" (808): every
  pull but the last may have to linearise two. It may fail for want of memory, which `CopyFails` covers.
* "Renders the same response" (`fast_path.rs` 144) holds unless the file is written to between the reads at 107 and 153;
  each rendering is consistent in itself, which is what `Reply` asks for.
* `serve_route` uses `fc` (847) after helper calls; `remove_conn` may have deleted the entry by then.
* A route is answered whatever the method of the request (858).

## Plan

Done in this order: the pool and its promise (the fast path's worst failure is to answer
someone else's client), the handover, the proofs of the pool, the handshake, the filter over
bytes, the routes and the writing of responses with their proofs.

Left, most important first:

1. `Framing`: messages cut anywhere, request bodies and apply_bytes reservations, against "the program always
   runs at the start of a frame".
2. `Pipeline`: HTTP/1.1, where an answer of the fast path can pass a pending one of the server; the order on the client's socket.
3. The encoding of updates: what `MAX_SYNC_BODY` allows against what is written (189).
