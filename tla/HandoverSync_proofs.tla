------------------------ MODULE HandoverSync_proofs ------------------------
(***************************************************************************)
(* That the fast path and user space stay in step: what each of them has   *)
(* of the tables, the window and the requests, together with what is on    *)
(* its way between them, is what the client has.                           *)
(***************************************************************************)
EXTENDS Handover_proofs, FiniteSetTheorems

USE WireAssumption, FastPathAssumption, BoundAssumption

-----------------------------------------------------------------------------
(* Where the frames are *)

\* An update that was scanned counts as a frame until it is taken.
Update(b) == IF b = <<>> THEN <<>> ELSE <<[type |-> "dt_sync", table |-> b[1]]>>

\* What user space has still to decode, in that order.
Pipe == buf \o out \o Update(blocks) \o hold \o ingress

\* All of it are frames.
LEMMA PipeTypes ==
    ASSUME TypeInv
    PROVE  /\ buf \in Seq(Frame) /\ out \in Seq(Frame) /\ Update(blocks) \in Seq(Frame)
           /\ hold \in Seq(Frame) /\ ingress \in Seq(Frame)
           /\ Pipe \in Seq(Frame)
           /\ Unseen \in Seq(ClientFrame) /\ Unseen \in Seq(Frame)
  <1>1. buf \in Seq(Frame) /\ out \in Seq(Frame) /\ hold \in Seq(Frame) /\ ingress \in Seq(Frame)
    BY ClientFramesWait DEF TypeInv, UserInv
  <1>2. Update(blocks) \in Seq(Frame)
    <2>1. CASE blocks = <<>>
      BY <2>1 DEF Update
    <2>2. CASE blocks # <<>>
      <3>1. blocks[1] \in Seq(Entry)
        BY <2>2 DEF TypeInv, UserInv, Tables
      <3>2. [type |-> "dt_sync", table |-> blocks[1]] \in Frame
        BY <3>1 DEF Frame, SyncFrame
      <3> QED
        BY <2>2, <3>2 DEF Update
    <2> QED
      BY <2>1, <2>2
  <1>3. Pipe \in Seq(Frame)
    BY <1>1, <1>2 DEF Pipe
  <1>4. Unseen \in Seq(ClientFrame)
    <2>1. msgs \in Seq(Seq(ClientFrame)) /\ msg \in Seq(ClientFrame)
      BY Sent DEF TypeInv
    <2>2. FlattenSeq(msgs) \in Seq(ClientFrame)
      BY <2>1, FlattenType
    <2> QED
      BY <2>1, <2>2 DEF Unseen
  <1>5. Unseen \in Seq(Frame)
    BY <1>4, ClientFramesWait
  <1> QED
    BY <1>1, <1>2, <1>3, <1>4, <1>5

\* What is passed on comes last.
LEMMA PipeGrows ==
    ASSUME TypeInv, Kernel, NEW q \in Seq(Frame), ingress' = ingress \o q
    PROVE  Pipe' = Pipe \o q
  <1>1. UNCHANGED <<buf, out, blocks, hold>>
    BY DEF Kernel, userVars, scanVars, codecVars
  <1>2. PICK p : p = ((buf \o out) \o Update(blocks)) \o hold
    OBVIOUS
  <1>3. p \in Seq(Frame) /\ ingress \in Seq(Frame)
    BY <1>2, PipeTypes
  <1>4. Pipe = p \o ingress /\ Pipe' = p \o (ingress \o q)
    BY <1>1, <1>2 DEF Pipe, Update
  <1> QED
    BY <1>3, <1>4

\* Nothing in the pipe changes but that reports are counted.
Reread ==
    /\ UNCHANGED <<table, delivered>>
    /\ \E p, seen, r \in Seq(Frame) :
          /\ Pipe = (p \o seen) \o r /\ Pipe' = (p \o Passed(seen)) \o r
          /\ sent' = sent + Weight(Snt, seen)

\* The first frame leaves the pipe.
First(f) == f \in Frame /\ Pipe' \in Seq(Frame) /\ Pipe = <<f>> \o Pipe'

\* If the pipe stays as it is, nothing was read.
LEMMA SameIsReread ==
    ASSUME TypeInv, Pipe' = Pipe, sent' = sent, UNCHANGED <<table, delivered>>
    PROVE  Reread
  <1>1. PICK p : p = <<>>
    OBVIOUS
  <1>2. p \in Seq(Frame) /\ Passed(p) = p /\ Weight(Snt, p) = 0
    BY <1>1, PassedStep, WeightStep, AreWeights
  <1>3. Pipe \in Seq(Frame) /\ sent \in Nat
    BY PipeTypes DEF TypeInv, UserInv
  <1>4. Pipe = (p \o p) \o Pipe
    BY <1>1, <1>3
  <1>5. sent' = sent + Weight(Snt, p)
    BY <1>2, <1>3
  <1> QED
    BY <1>2, <1>3, <1>4, <1>5 DEF Reread

\* What is scanned stays in the pipe, but for the reports.
LEMMA ScanRereads ==
    ASSUME TypeInv, NEW fs \in Seq(Waiting), NEW w \in Seq(Frame), Scan(fs), blocks = <<>>,
           Pipe = (buf \o out) \o (fs \o w), ingress' = w, buf' = buf,
           UNCHANGED <<table, delivered>>
    PROVE  Reread
  <1>1. PICK seen, mid, rest \in Seq(Waiting) :
           Parts(fs, seen, mid, rest) /\ Scanned(seen, mid, rest)
    BY ScanParts
  <1>2. seen \in Seq(Frame) /\ mid \in Seq(Frame) /\ rest \in Seq(Frame)
    BY <1>1, ClientFramesWait
  <1>3. Update(blocks') = mid
    <2>1. CASE mid = <<>>
      BY <1>1, <2>1 DEF Scanned, Update
    <2>2. CASE mid # <<>>
      <3>1. Len(mid) = 1 /\ mid[1].type = "dt_sync"
        BY <1>1, <2>2 DEF Parts
      <3>2. PICK f : f = mid[1]
        OBVIOUS
      <3>3. f \in Frame /\ f.type = "dt_sync" /\ mid = <<f>>
        BY <1>2, <3>1, <3>2, OneElement
      <3>4. f = [type |-> "dt_sync", table |-> f.table]
        BY <3>3 DEF Frame, ClientFrame, SyncFrame
      <3>5. blocks' = <<f.table>>
        BY <1>1, <2>2, <3>2 DEF Scanned
      <3>6. blocks' # <<>> /\ blocks'[1] = f.table
        BY <3>5
      <3>7. Update(blocks') = <<[type |-> "dt_sync", table |-> f.table]>>
        BY <3>6 DEF Update
      <3> QED
        BY <3>3, <3>4, <3>7
    <2> QED
      BY <2>1, <2>2
  <1>4. PICK b : b = Passed(seen)
    OBVIOUS
  <1>5. b \in Seq(Frame)
    BY <1>2, <1>4, PassedStep
  <1>6. buf \in Seq(Frame) /\ out \in Seq(Frame)
    BY PipeTypes
  <1>7. PICK p : p = buf \o out
    OBVIOUS
  <1>8. PICK r : r = (mid \o rest) \o w
    OBVIOUS
  <1>9. p \in Seq(Frame) /\ r \in Seq(Frame)
    BY <1>2, <1>6, <1>7, <1>8
  <1>10. Pipe = (p \o seen) \o r
    <2>1. fs = (seen \o mid) \o rest
      BY <1>1 DEF Parts
    <2>2. ((seen \o mid) \o rest) \o w = seen \o r
      <3>1. Cat(Cat(Cat(seen, mid), rest), w) = Cat(seen, Cat(Cat(mid, rest), w))
        BY <1>2, CatAssoc, CatType
      <3> QED
        BY <1>8, <3>1 DEF Cat
    <2>3. p \o (seen \o r) = (p \o seen) \o r
      <3>1. Cat(Cat(p, seen), r) = Cat(p, Cat(seen, r))
        BY <1>2, <1>9, CatAssoc
      <3> QED
        BY <3>1 DEF Cat
    <2> QED
      BY <1>7, <2>1, <2>2, <2>3
  <1>11. Pipe' = (p \o b) \o r
    <2>1. out' = out \o b /\ hold' = rest
      BY <1>1, <1>4 DEF Scanned
    <2>2. Pipe' = (((buf \o (out \o b)) \o mid) \o rest) \o w
      BY <1>3, <2>1 DEF Pipe
    <2>3. buf \o (out \o b) = p \o b
      <3>1. Cat(Cat(buf, out), b) = Cat(buf, Cat(out, b))
        BY <1>5, <1>6, CatAssoc
      <3> QED
        BY <1>7, <3>1 DEF Cat
    <2>4. PICK a : a = p \o b
      OBVIOUS
    <2>5. a \in Seq(Frame)
      BY <1>5, <1>9, <2>4
    <2>6. ((a \o mid) \o rest) \o w = a \o ((mid \o rest) \o w)
      <3>1. Cat(Cat(Cat(a, mid), rest), w) = Cat(a, Cat(Cat(mid, rest), w))
        BY <1>2, <2>5, CatAssoc, CatType
      <3> QED
        BY <3>1 DEF Cat
    <2> QED
      BY <1>8, <2>2, <2>3, <2>4, <2>6
  <1>12. sent' = sent + Weight(Snt, seen)
    BY <1>1, <1>2, AreWeights DEF Scanned
  <1> QED
    BY <1>2, <1>4, <1>9, <1>10, <1>11, <1>12 DEF Reread

\* The pipe without an update.
LEMMA NoUpdate ==
    ASSUME TypeInv, blocks = <<>>
    PROVE  /\ Pipe = (buf \o out) \o (hold \o ingress)
           /\ hold = <<>> => Pipe = (buf \o out) \o ingress
  <1>1. PICK p : p = buf \o out
    OBVIOUS
  <1>2. p \in Seq(Frame) /\ hold \in Seq(Frame) /\ ingress \in Seq(Frame)
    BY <1>1, PipeTypes
  <1>3. Pipe = ((p \o <<>>) \o hold) \o ingress
    BY <1>1 DEF Pipe, Update
  <1>4. p \o <<>> = p
    BY <1>2
  <1>5. (p \o hold) \o ingress = p \o (hold \o ingress)
    BY <1>2
  <1> QED
    BY <1>1, <1>2, <1>3, <1>4, <1>5

\* A frame in front of what is read or scanned is in front of the pipe.
LEMMA TakenFirst ==
    ASSUME TypeInv, UNCHANGED <<blocks, hold, ingress>>,
           \/ buf # <<>> /\ buf' = Tail(buf) /\ out' = out
           \/ buf = <<>> /\ out # <<>> /\ buf' = buf /\ out' = Tail(out)
    PROVE  First(Head(buf \o out))
  <1>1. PICK b : b = buf \o out
    OBVIOUS
  <1>2. PICK u : u = Update(blocks)
    OBVIOUS
  <1>3. /\ buf \in Seq(Frame) /\ out \in Seq(Frame) /\ u \in Seq(Frame)
        /\ hold \in Seq(Frame) /\ ingress \in Seq(Frame) /\ b \in Seq(Frame) /\ b # <<>>
    BY <1>1, <1>2, PipeTypes
  <1>4. PICK t : t = Tail(b)
    OBVIOUS
  <1>5. PICK f : f = Head(b)
    OBVIOUS
  <1>6. f \in Frame /\ t \in Seq(Frame) /\ b = <<f>> \o t /\ <<f>> \in Seq(Frame)
    BY <1>3, <1>4, <1>5
  <1>7. buf' \o out' = t
    <2>1. CASE buf # <<>> /\ buf' = Tail(buf) /\ out' = out
      BY <1>1, <1>3, <1>4, <2>1
    <2>2. CASE buf = <<>> /\ out # <<>> /\ buf' = buf /\ out' = Tail(out)
      BY <1>1, <1>3, <1>4, <2>2
    <2> QED
      BY <2>1, <2>2
  <1>8. Pipe' = ((t \o u) \o hold) \o ingress
    BY <1>2, <1>7 DEF Pipe, Update
  <1>9. Pipe = (((<<f>> \o t) \o u) \o hold) \o ingress
    BY <1>1, <1>2, <1>6 DEF Pipe
  <1>10. (((<<f>> \o t) \o u) \o hold) \o ingress = <<f>> \o (((t \o u) \o hold) \o ingress)
    <2>1. PICK a : a = <<f>>
      OBVIOUS
    <2>2. a \in Seq(Frame)
      BY <1>6, <2>1
    <2>3. PICK c : c = Cat(Cat(t, u), hold)
      OBVIOUS
    <2>4. c \in Seq(Frame)
      BY <1>3, <1>6, <2>3, CatType
    <2>5. Cat(Cat(Cat(a, t), u), hold) = Cat(a, c)
      BY <1>3, <1>6, <2>2, <2>3, CatAssoc, CatType
    <2>6. Cat(Cat(a, c), ingress) = Cat(a, Cat(c, ingress))
      BY <1>3, <2>2, <2>4, CatAssoc
    <2> QED
      BY <2>1, <2>3, <2>5, <2>6 DEF Cat
  <1>11. ((t \o u) \o hold) \o ingress \in Seq(Frame)
    BY <1>3, <1>6
  <1> QED
    BY <1>1, <1>5, <1>6, <1>8, <1>9, <1>10, <1>11 DEF First

\* What a step of user space does to the pipe: it reads, or takes what is in front,
\* or the update behind what it has not decoded.
LEMMA ServerPipe ==
    ASSUME TypeInv, Server
    PROVE  \/ /\ Reread
              /\ \/ UNCHANGED <<capacity, srv_sent>>
                 \/ capacity' = capacity - 1 /\ srv_sent' = srv_sent + 1
           \/ /\ \E f : First(f) /\ f.type = "preface"
              /\ UNCHANGED <<table, delivered, capacity, srv_sent, sent>>
           \/ Take
           \/ Decode /\ First(Head(buf)) /\ UNCHANGED <<srv_sent, sent>>
  <1>1. CASE ReadProtocol \/ ReadSocket \/ Rescan
    <2>1. /\ UNCHANGED <<buf, table, delivered, capacity, srv_sent>>
          /\ blocks = <<>>
      BY <1>1 DEF ReadProtocol, ReadSocket, Rescan, Dry, codecVars, TypeInv, StartInv
    <2>2. \E fs \in Seq(Waiting), w \in Seq(Frame) :
             Scan(fs) /\ Pipe = (buf \o out) \o (fs \o w) /\ ingress' = w
      <3>1. CASE Rescan
        <4>1. hold \in Seq(Waiting) /\ ingress' = ingress /\ Scan(hold)
          BY <3>1 DEF Rescan, TypeInv, UserInv
        <4>2. Pipe = (buf \o out) \o (hold \o ingress) /\ ingress \in Seq(Frame)
          BY <2>1, NoUpdate, PipeTypes
        <4> QED
          BY <4>1, <4>2
      <3>2. CASE ReadProtocol \/ ReadSocket
        <4>1. hold = <<>> /\ Read
          BY <3>2 DEF ReadProtocol, ReadSocket, TypeInv, StartInv
        <4>2. PICK fs \in Seq(Waiting) : /\ fs # <<>> /\ ingress = fs \o ingress'
                                         /\ ingress' \in Seq(Waiting) /\ Scan(fs)
          BY <4>1, ReadParts DEF TypeInv, UserInv
        <4>3. Pipe = (buf \o out) \o (fs \o ingress') /\ ingress' \in Seq(Frame)
          BY <2>1, <4>1, <4>2, NoUpdate, ClientFramesWait
        <4> QED
          BY <4>2, <4>3
      <3> QED
        BY <1>1, <3>1, <3>2
    <2>3. Reread
      BY <2>1, <2>2, ScanRereads
    <2> QED
      BY <2>1, <2>3
  <1>2. CASE ServerHandshake
    <2>1. /\ buf = <<>> /\ out # <<>> /\ out[1].type = "preface" /\ out' = Tail(out)
          /\ UNCHANGED <<ingress, hold, blocks, sent, buf, table, delivered, capacity, srv_sent>>
      BY <1>2 DEF ServerHandshake, TypeInv, StartInv, codecVars
    <2>2. First(Head(buf \o out))
      BY <2>1, TakenFirst
    <2>3. Head(buf \o out) = out[1]
      BY <2>1, PipeTypes
    <2> QED
      BY <2>1, <2>2, <2>3
  <1>3. CASE ReadOut
    <2>1. /\ buf = <<>> /\ buf' = out /\ out' = <<>>
          /\ UNCHANGED <<ingress, hold, blocks, sent, table, delivered, capacity, srv_sent>>
      BY <1>3 DEF ReadOut
    <2>2. buf' \o out' = buf \o out
      BY <2>1, PipeTypes
    <2>3. Pipe' = Pipe
      BY <2>1, <2>2 DEF Pipe, Update
    <2> QED
      BY <2>1, <2>3, SameIsReread
  <1>4. CASE Withhold \/ WaitForSocket \/ Stall \/ TakeFails \/ SocketWakes \/ Respond
    <2>1. /\ UNCHANGED <<ingress, scanVars, buf, table, delivered>>
          /\ \/ UNCHANGED <<capacity, srv_sent>>
             \/ capacity' = capacity - 1 /\ srv_sent' = srv_sent + 1
      BY <1>4 DEF Withhold, WaitForSocket, Stall, TakeFails, SocketWakes, Respond, codecVars
    <2>2. Pipe' = Pipe /\ sent' = sent
      BY <2>1 DEF Pipe, Update, scanVars
    <2> QED
      BY <2>1, <2>2, SameIsReread
  <1>5. CASE Decode
    <2>1. /\ buf # <<>> /\ buf' = Tail(buf)
          /\ UNCHANGED <<ingress, out, hold, blocks, sent, srv_sent>>
      BY <1>5 DEF Decode, scanVars
    <2>2. First(Head(buf \o out))
      BY <2>1, TakenFirst
    <2>3. Head(buf \o out) = Head(buf)
      BY <2>1, PipeTypes
    <2> QED
      BY <1>5, <2>1, <2>2, <2>3
  <1> QED
    BY <1>1, <1>2, <1>3, <1>4, <1>5 DEF Server, Poll

\* The update taken, the rest of the pipe is as it was.
LEMMA TakePipe ==
    ASSUME TypeInv, Take
    PROVE  \E p, r \in Seq(Frame) :
              /\ p = buf \o out
              /\ Pipe = (p \o Update(blocks)) \o r /\ Pipe' = p \o r
  <1>1. PICK p : p = buf \o out
    OBVIOUS
  <1>2. PICK u : u = Update(blocks)
    OBVIOUS
  <1>3. PICK r : r = hold \o ingress
    OBVIOUS
  <1>4. /\ p \in Seq(Frame) /\ u \in Seq(Frame) /\ r \in Seq(Frame)
        /\ hold \in Seq(Frame) /\ ingress \in Seq(Frame)
    BY <1>1, <1>2, <1>3, PipeTypes
  <1>5. Cat(Cat(Cat(p, u), hold), ingress) = Cat(Cat(p, u), Cat(hold, ingress))
    BY <1>4, CatAssoc, CatType
  <1>6. Pipe = (p \o u) \o r
    BY <1>1, <1>2, <1>3, <1>5 DEF Pipe, Cat
  <1>7. Cat(Cat(p, hold), ingress) = Cat(p, Cat(hold, ingress))
    BY <1>4, CatAssoc
  <1>8. Pipe' = ((p \o <<>>) \o hold) \o ingress
    BY <1>1 DEF Take, Pipe, Update
  <1>9. p \o <<>> = p
    BY <1>4
  <1>10. Pipe' = p \o r
    BY <1>3, <1>7, <1>8, <1>9 DEF Cat
  <1> QED
    BY <1>1, <1>2, <1>4, <1>6, <1>10

-----------------------------------------------------------------------------
(* What the client and the program do to the frames *)

\* What a frame says of the client that has just sent it.
Tells(f) ==
    \/ /\ f.type = "settings"
       /\ stream_win' = IF f.ack THEN stream_win ELSE f.win
       /\ UNCHANGED <<reqs, granted, client_table>>
    \/ /\ f.type = "headers"
       /\ f.req = reqs + 1 /\ reqs' = reqs + 1
       /\ f.table = client_table /\ client_table' = Added(client_table, f.adds)
       /\ f.win = stream_win
       /\ UNCHANGED <<granted, stream_win>>
    \/ /\ f.type = "window_update"
       /\ granted' = granted + f.inc
       /\ UNCHANGED <<reqs, client_table, stream_win>>

\* A message with one frame that tells something.
Message(fs, f) ==
    /\ fs \in Seq(ClientFrame) /\ f \in ClientFrame
    /\ fs = <<f>> \/ \E p \in ClientFrame : p.type = "preface" /\ fs = <<p, f>>

\* A step of the client sends such a message behind all it has sent.
LEMMA ClientSends ==
    ASSUME TypeInv, Client
    PROVE  /\ UNCHANGED <<ingress, fastVars, userVars>> /\ Pipe' = Pipe
           /\ \E fs, f : Message(fs, f) /\ Tells(f) /\ Put(fs) /\ Unseen' = Unseen \o fs
  <1>1. UNCHANGED <<ingress, fastVars, userVars>>
    BY DEF Client, Open, Ack, ChangeWindow, Request, UpdateWindow
  <1>2. Pipe' = Pipe
    BY <1>1 DEF userVars, scanVars, codecVars, Pipe, Update
  <1>3. \E fs, f : Message(fs, f) /\ Tells(f) /\ Put(fs)
    <2>1. ASSUME NEW w \in Windows, Open(w) PROVE \E fs, f : Message(fs, f) /\ Tells(f) /\ Put(fs)
      <3>1. PICK f : f = Settings(w, FALSE)
        OBVIOUS
      <3>2. PICK p : p = [type |-> "preface"]
        OBVIOUS
      <3>3. PICK fs : fs = <<p, f>>
        OBVIOUS
      <3>4. f \in ClientFrame /\ f.type = "settings" /\ f.win = w /\ ~f.ack
        BY <3>1 DEF ClientFrame, Settings
      <3>5. p \in ClientFrame /\ p.type = "preface"
        BY <3>2 DEF ClientFrame
      <3>6. fs \in Seq(ClientFrame)
        BY <3>3, <3>4, <3>5, ShortSeq
      <3>7. Tells(f)
        BY <2>1, <3>4 DEF Open, Tells
      <3> QED
        BY <2>1, <3>1, <3>2, <3>3, <3>4, <3>5, <3>6, <3>7 DEF Open, Message
    <2>2. CASE Ack
      <3>1. PICK f : f = Settings(0, TRUE)
        OBVIOUS
      <3>2. PICK fs : fs = <<f>>
        OBVIOUS
      <3>3. f \in ClientFrame /\ f.type = "settings" /\ f.ack
        BY <3>1 DEF ClientFrame, Settings
      <3>4. fs \in Seq(ClientFrame)
        BY <3>2, <3>3, ShortSeq
      <3>5. Tells(f)
        BY <2>2, <3>3 DEF Ack, Tells
      <3> QED
        BY <2>2, <3>1, <3>2, <3>3, <3>4, <3>5 DEF Ack, Message
    <2>3. ASSUME NEW w \in Windows, ChangeWindow(w)
          PROVE  \E fs, f : Message(fs, f) /\ Tells(f) /\ Put(fs)
      <3>1. PICK f : f = Settings(w, FALSE)
        OBVIOUS
      <3>2. PICK fs : fs = <<f>>
        OBVIOUS
      <3>3. f \in ClientFrame /\ f.type = "settings" /\ f.win = w /\ ~f.ack
        BY <3>1 DEF ClientFrame, Settings
      <3>4. fs \in Seq(ClientFrame)
        BY <3>2, <3>3, ShortSeq
      <3>5. Tells(f)
        BY <2>3, <3>3 DEF ChangeWindow, Tells
      <3> QED
        BY <2>3, <3>1, <3>2, <3>3, <3>4, <3>5 DEF ChangeWindow, Message
    <2>4. ASSUME NEW new \in Entries, NEW fast \in BOOLEAN, Request(new, fast)
          PROVE  \E fs, f : Message(fs, f) /\ Tells(f) /\ Put(fs)
      <3>1. PICK e : e = [i \in 1 .. new |-> <<reqs + 1, i>>]
        OBVIOUS
      <3>2. e \in Seq(Entry)
        BY <3>1 DEF TypeInv, HandshakeInv, Entry
      <3>3. PICK f : f = [type |-> "headers", req |-> reqs + 1, fast |-> fast, adds |-> e,
                          table |-> client_table, win |-> stream_win]
        OBVIOUS
      <3>4. PICK fs : fs = <<f>>
        OBVIOUS
      <3>5. /\ f \in ClientFrame /\ f.type = "headers" /\ f.req = reqs + 1
            /\ f.adds = e /\ f.table = client_table /\ f.win = stream_win
        BY <3>2, <3>3 DEF ClientFrame, TypeInv, HandshakeInv
      <3>6. fs \in Seq(ClientFrame)
        BY <3>4, <3>5, ShortSeq
      <3>7. Tells(f)
        BY <2>4, <3>1, <3>5 DEF Request, Tells
      <3>8. Put(fs)
        BY <2>4, <3>1, <3>3, <3>4 DEF Request
      <3> QED
        BY <3>4, <3>5, <3>6, <3>7, <3>8 DEF Message
    <2>5. ASSUME NEW n \in 1 .. FastSent + srv_sent, UpdateWindow(n)
          PROVE  \E fs, f : Message(fs, f) /\ Tells(f) /\ Put(fs)
      <3>1. PICK f : f = [type |-> "window_update", inc |-> n]
        OBVIOUS
      <3>2. PICK fs : fs = <<f>>
        OBVIOUS
      <3>3. f \in ClientFrame /\ f.type = "window_update" /\ f.inc = n
        BY <3>1 DEF ClientFrame
      <3>4. fs \in Seq(ClientFrame)
        BY <3>2, <3>3, ShortSeq
      <3>5. Tells(f)
        BY <2>5, <3>3 DEF UpdateWindow, Tells
      <3> QED
        BY <2>5, <3>1, <3>2, <3>3, <3>4, <3>5 DEF UpdateWindow, Message
    <2> QED
      BY <2>1, <2>2, <2>3, <2>4, <2>5 DEF Client
  <1>4. PICK fs, f : Message(fs, f) /\ Tells(f) /\ Put(fs)
    BY <1>3
  <1>5. Unseen' = Unseen \o fs
    <2>1. /\ msgs \in Seq(Seq(ClientFrame)) /\ msg \in Seq(ClientFrame) /\ msg' = msg
          /\ fs \in Seq(ClientFrame)
      BY <1>1, <1>4, Sent DEF TypeInv, fastVars, Message
    <2> QED
      BY <1>4, <2>1, PutUnseen
  <1> QED
    BY <1>1, <1>2, <1>4, <1>5

\* A reader that passes over the preface makes of a message what it makes of the
\* frame that tells something.
LEMMA ReadMessage ==
    ASSUME NEW V, NEW g, Reader(g, V, Frame), NEW b \in V,
           \A f \in Frame : f.type = "preface" => g[b][f] = b,
           NEW fs, NEW f, Message(fs, f)
    PROVE  Fold(g, b, fs) = g[b][f]
  <1>1. f \in Frame
    BY DEF Message, Frame
  <1>2. CASE fs = <<f>>
    BY <1>1, <1>2, FoldOne
  <1>3. CASE fs # <<f>>
    <2>1. PICK p \in ClientFrame : p.type = "preface" /\ fs = <<p, f>>
      BY <1>3 DEF Message
    <2>2. p \in Frame
      BY DEF Frame
    <2>3. PICK q : q = <<p>>
      OBVIOUS
    <2>4. q \in Seq(Frame) /\ fs = Append(q, f)
      BY <2>1, <2>2, <2>3
    <2>5. Fold(g, b, q) = g[b][p]
      BY <2>2, <2>3, FoldOne
    <2>6. Fold(g, b, Append(q, f)) = g[Fold(g, b, q)][f]
      BY <1>1, <2>4, FoldAppend
    <2>7. g[b][p] = b
      BY <2>1, <2>2
    <2> QED
      BY <2>4, <2>5, <2>6, <2>7
  <1> QED
    BY <1>2, <1>3

\* These frames leave what the program has not seen.
Leaves(q) == q \in Seq(ClientFrame) /\ Unseen' \in Seq(ClientFrame) /\ Unseen = q \o Unseen'

\* What becomes of the message the program runs on.
LEMMA RunsLeaves ==
    ASSUME TypeInv, NEW t, RunsOn(t)
    PROVE  /\ msg' = Tail(Cur) => Leaves(<<Head(Cur)>>)
           /\ msg' = <<>> => Leaves(Cur)
  <1>1. msgs \in Seq(Seq(ClientFrame)) /\ msg \in Seq(ClientFrame)
    BY Sent DEF TypeInv
  <1>2. PICK r : r = FlattenSeq(msgs')
    OBVIOUS
  <1>3. Unseen = Cur \o r /\ r \in Seq(ClientFrame)
    BY <1>1, <1>2, RunsOnUnseen
  <1>4. PICK h : h = <<Head(Cur)>>
    OBVIOUS
  <1>5. /\ Cur \in Seq(ClientFrame) /\ Cur = h \o Tail(Cur) /\ h \in Seq(ClientFrame)
        /\ Tail(Cur) \in Seq(ClientFrame)
    BY <1>4, InFront
  <1>6. ASSUME msg' = Tail(Cur) PROVE Leaves(h)
    <2>1. Unseen' = Tail(Cur) \o r
      BY <1>2, <1>6 DEF Unseen
    <2>2. PICK c : c = Tail(Cur)
      OBVIOUS
    <2>3. c \in Seq(ClientFrame)
      BY <1>5, <2>2
    <2>4. Cat(Cat(h, c), r) = Cat(h, Cat(c, r)) /\ Cat(c, r) \in Seq(ClientFrame)
      BY <1>3, <1>5, <2>3, CatAssoc, CatType
    <2>5. Unseen = (h \o c) \o r
      BY <1>3, <1>5, <2>2
    <2> QED
      BY <1>5, <2>1, <2>2, <2>4, <2>5 DEF Cat, Leaves
  <1>7. ASSUME msg' = <<>> PROVE Leaves(Cur)
    <2>1. Unseen' = r
      BY <1>2, <1>3, <1>7 DEF Unseen
    <2> QED
      BY <1>3, <1>5, <2>1 DEF Leaves
  <1> QED
    BY <1>4, <1>6, <1>7

\* What is passed on without the program running.
LEMMA PassOnLeaves ==
    ASSUME TypeInv, PassOn
    PROVE  Leaves(Head(msgs))
  <1>1. msgs \in Seq(Seq(ClientFrame)) /\ msgs # <<>> /\ msgs' = Tail(msgs) /\ left
    BY Sent DEF TypeInv, PassOn
  <1>2. msg = <<>> /\ msg' = <<>>
    BY <1>1 DEF TypeInv, StartInv, PassOn, fastVars
  <1>3. PICK r : r = FlattenSeq(msgs')
    OBVIOUS
  <1>4. FlattenSeq(msgs) = Head(msgs) \o r /\ Head(msgs) \in Seq(ClientFrame) /\ r \in Seq(ClientFrame)
    BY <1>1, <1>3, PassOnUnseen
  <1>5. Unseen' = r
    BY <1>2, <1>3, <1>4 DEF Unseen
  <1>6. Unseen = Head(msgs) \o r
    <2>1. PICK x : x = Head(msgs) \o r
      OBVIOUS
    <2>2. x \in Seq(ClientFrame)
      BY <1>4, <2>1
    <2>3. <<>> \o x = x
      BY <2>2
    <2> QED
      BY <1>2, <1>4, <2>1, <2>3 DEF Unseen
  <1> QED
    BY <1>4, <1>5, <1>6 DEF Leaves

\* The program passes frames on as they are,
PassesOn(q) ==
    /\ Upgrade \/ LeaveToUserSpace \/ PassOn
    /\ Leaves(q) /\ Pipe' = Pipe \o q
    /\ Upgrade => q = <<Head(Cur)>> /\ Head(Cur).type = "preface"

\* takes a request,
Answers == Serve /\ Leaves(<<Head(Cur)>>) /\ Pipe' = Pipe

\* gives up,
GivesUp == (ServeFails \/ SyncFails) /\ ~left /\ down' /\ Pipe' = Pipe

\* or puts something in front of what it passes on.
Forwards(report) ==
    /\ Forward /\ Leaves(Cur)
    /\ report \in FcSync(flow_ctl.unreported)
    /\ flow_ctl' = Report(Track(Cur, flow_ctl), report)
    /\ Pipe' = Pipe \o (report \o DtSync \o Cur)
    /\ report \in Seq(Frame) /\ DtSync \in Seq(Frame) /\ Cur \in Seq(ClientFrame)

\* A message that is handed over is put behind what user space has missed.
LEMMA ForwardPipe ==
    ASSUME TypeInv, Kernel, Forward
    PROVE  \E report : Forwards(report)
  <1>1. PICK t : RunsOn(t)
    BY DEF Forward
  <1>2. Leaves(Cur)
    BY <1>1, RunsLeaves DEF Forward
  <1>3. PICK report \in FcSync(flow_ctl.unreported) :
           /\ flow_ctl' = Report(Track(Cur, flow_ctl), report)
           /\ ingress' = ingress \o report \o DtSync \o Cur
    BY DEF Forward
  <1>4. /\ report \in Seq(Frame) /\ DtSync \in Seq(Frame)
        /\ Cur \in Seq(ClientFrame) /\ Cur \in Seq(Frame)
    <2>1. flow_ctl.unreported \in Nat
      BY DEF TypeInv, FastInv, FlowCtl
    <2> QED
      BY <1>1, <1>3, <2>1, SyncsWait, InFront, ClientFramesWait
  <1>5. ingress \in Seq(Frame)
    BY PipeTypes
  <1>6. PICK d : d = DtSync
    OBVIOUS
  <1>7. PICK c : c = Cur
    OBVIOUS
  <1>8. d \in Seq(Frame) /\ c \in Seq(Frame)
    BY <1>4, <1>6, <1>7
  <1>9. Cat(Cat(Cat(ingress, report), d), c) = Cat(ingress, Cat(Cat(report, d), c))
    BY <1>4, <1>5, <1>8, CatAssoc, CatType
  <1>10. PICK q : q = report \o d \o c
    OBVIOUS
  <1>11. q \in Seq(Frame) /\ ingress' = ingress \o q
    <2>1. q \in Seq(Frame)
      BY <1>4, <1>8, <1>10
    <2>2. ingress' = ingress \o q
      BY <1>3, <1>6, <1>7, <1>9, <1>10 DEF Cat
    <2> QED
      BY <2>1, <2>2
  <1>12. Pipe' = Pipe \o q
    BY <1>11, PipeGrows
  <1> QED
    BY <1>2, <1>3, <1>4, <1>6, <1>7, <1>10, <1>12 DEF Forwards

\* A step of the program does one of these to the frames.
LEMMA KernelPipe ==
    ASSUME TypeInv, Kernel
    PROVE  \/ \E q : PassesOn(q)
           \/ Answers
           \/ GivesUp
           \/ \E report : Forwards(report)
  <1>1. ingress' = ingress => Pipe' = Pipe
    BY DEF Kernel, userVars, scanVars, codecVars, Pipe, Update
  <1>2. CASE Upgrade
    <2>1. RunsOn({"preface"}) /\ msg' = Tail(Cur) /\ ingress' = Append(ingress, Head(Cur))
      BY <1>2 DEF Upgrade
    <2>2. PICK q : q = <<Head(Cur)>>
      OBVIOUS
    <2>3. Leaves(q)
      BY <2>1, <2>2, RunsLeaves
    <2>4. Head(Cur) \in ClientFrame /\ Head(Cur).type = "preface"
      BY <2>1, InFront
    <2>5. q \in Seq(Frame) /\ ingress' = ingress \o q
      <3>1. PICK h : h = Head(Cur)
        OBVIOUS
      <3>2. h \in Frame /\ q = <<h>> /\ ingress' = Append(ingress, h) /\ ingress \in Seq(Frame)
        BY <2>1, <2>2, <2>4, <3>1, PipeTypes DEF Frame
      <3> QED
        BY <3>2
    <2>6. Pipe' = Pipe \o q
      BY <2>5, PipeGrows
    <2> QED
      BY <1>2, <2>2, <2>3, <2>4, <2>6 DEF PassesOn
  <1>3. CASE LeaveToUserSpace
    <2>1. PICK t : RunsOn(t)
      BY <1>3 DEF LeaveToUserSpace
    <2>2. msg' = <<>> /\ ingress' = ingress \o Cur
      BY <1>3 DEF LeaveToUserSpace
    <2>3. Leaves(Cur)
      BY <2>1, <2>2, RunsLeaves
    <2>4. Cur \in Seq(Frame)
      BY <2>1, InFront, ClientFramesWait
    <2>5. Pipe' = Pipe \o Cur
      BY <2>2, <2>4, PipeGrows
    <2>6. Upgrade => Cur = <<Head(Cur)>> /\ Head(Cur).type = "preface"
      BY <1>3, <2>1 DEF Upgrade, LeaveToUserSpace, RunsOn
    <2> QED
      BY <1>3, <2>3, <2>5, <2>6 DEF PassesOn
  <1>4. CASE PassOn
    <2>1. Leaves(Head(msgs))
      BY <1>4, PassOnLeaves
    <2>2. Head(msgs) \in Seq(Frame) /\ ingress' = ingress \o Head(msgs)
      BY <1>4, <2>1, ClientFramesWait DEF Leaves, PassOn
    <2>3. Pipe' = Pipe \o Head(msgs)
      BY <2>2, PipeGrows
    <2>4. ~Upgrade
      BY <1>4 DEF Upgrade, PassOn, RunsOn
    <2> QED
      BY <1>4, <2>1, <2>3, <2>4 DEF PassesOn
  <1>5. CASE Serve
    <2>1. RunsOn({"headers"}) /\ msg' = Tail(Cur) /\ ingress' = ingress
      BY <1>5 DEF Serve, TakeRequest
    <2> QED
      BY <1>1, <1>5, <2>1, RunsLeaves DEF Answers
  <1>6. CASE ServeFails \/ SyncFails
    BY <1>1, <1>6 DEF GivesUp, ServeFails, SyncFails, RunsOn
  <1>7. CASE Forward
    BY <1>7, ForwardPipe
  <1> QED
    BY <1>2, <1>3, <1>4, <1>5, <1>6, <1>7 DEF Kernel, Verdict, Mishap

-----------------------------------------------------------------------------
(* What reading the frames makes of these steps *)

\* A reader that passes over reports takes no notice of a read.
LEMMA RereadFold ==
    ASSUME NEW V, NEW g, Reader(g, V, Frame), NEW b \in V, Reread,
           \A v \in V, f \in Frame : f.type = "fc_sync" => g[v][f] = v
    PROVE  Fold(g, b, Pipe') = Fold(g, b, Pipe)
  <1>1. PICK p, seen, r \in Seq(Frame) :
           Pipe = (p \o seen) \o r /\ Pipe' = (p \o Passed(seen)) \o r
    BY DEF Reread
  <1>2. PICK x : x = Passed(seen)
    OBVIOUS
  <1>3. x \in Seq(Frame)
    BY <1>2, PassedStep
  <1>4. \A v \in V : Fold(g, v, x) = Fold(g, v, seen)
    BY <1>2, PassedRead
  <1>5. Fold(g, b, (p \o x) \o r) = Fold(g, b, (p \o seen) \o r)
    BY <1>3, <1>4, FoldSwap
  <1> QED
    BY <1>1, <1>2, <1>5

\* One that passes over updates takes no notice of one that is taken.
LEMMA TakeFold ==
    ASSUME NEW V, NEW g, Reader(g, V, Frame), NEW b \in V, TypeInv, Take,
           \A v \in V, f \in Frame : f.type = "dt_sync" => g[v][f] = v
    PROVE  Fold(g, b, Pipe') = Fold(g, b, Pipe)
  <1>1. PICK p, r \in Seq(Frame) : Pipe = (p \o Update(blocks)) \o r /\ Pipe' = p \o r
    BY TakePipe
  <1>2. PICK u : u = Update(blocks)
    OBVIOUS
  <1>3. u \in Seq(Frame) /\ \A i \in 1 .. Len(u) : u[i].type = "dt_sync" /\ u[i] \in Frame
    <2>1. u \in Seq(Frame)
      BY <1>2, PipeTypes
    <2>2. \A i \in 1 .. Len(u) : u[i].type = "dt_sync"
      BY <1>2 DEF Update
    <2> QED
      BY <2>1, <2>2
  <1>4. PICK none : none = <<>>
    OBVIOUS
  <1>5. p \o none = p
    BY <1>4
  <1>6. ASSUME NEW v \in V PROVE Fold(g, v, none) = Fold(g, v, u)
    <2>1. \A i \in 1 .. Len(u) : g[v][u[i]] = v
      BY <1>3
    <2>2. Fold(g, v, u) = v
      BY <1>3, <2>1, FoldIdle
    <2>3. Fold(g, v, none) = v
      BY <1>4, FoldEmpty
    <2> QED
      BY <2>2, <2>3
  <1>7. Fold(g, b, (p \o none) \o r) = Fold(g, b, (p \o u) \o r)
    <2>1. none \in Seq(Frame) /\ u \in Seq(Frame) /\ p \in Seq(Frame) /\ r \in Seq(Frame)
      BY <1>3, <1>4
    <2> QED
      BY <1>6, <2>1, FoldSwap
  <1> QED
    BY <1>1, <1>2, <1>5, <1>7

\* What leaves the pipe first was read first.
LEMMA FirstFold ==
    ASSUME NEW V, NEW g, Reader(g, V, Frame), NEW b \in V, NEW f, First(f)
    PROVE  f \in Frame /\ Pipe' \in Seq(Frame) /\ Fold(g, b, Pipe) = Fold(g, g[b][f], Pipe')
  <1>1. PICK q : q = Pipe'
    OBVIOUS
  <1>2. f \in Frame /\ q \in Seq(Frame) /\ Pipe = <<f>> \o q
    BY <1>1 DEF First
  <1>3. Fold(g, b, <<f>> \o q) = Fold(g, g[b][f], q)
    BY <1>2, FoldCons
  <1> QED
    BY <1>1, <1>2, <1>3

\* What is passed on is read last.
LEMMA PipeFold ==
    ASSUME NEW V, NEW g, Reader(g, V, Frame), NEW b \in V, TypeInv,
           NEW q \in Seq(Frame), Pipe' = Pipe \o q
    PROVE  Fold(g, b, Pipe') = Fold(g, Fold(g, b, Pipe), q) /\ Fold(g, b, Pipe) \in V
  <1>1. PICK p : p = Pipe
    OBVIOUS
  <1>2. p \in Seq(Frame)
    BY <1>1, PipeTypes
  <1>3. Fold(g, b, p \o q) = Fold(g, Fold(g, b, p), q)
    BY <1>2, FoldConcat
  <1>4. Fold(g, b, p) \in V
    BY <1>2, FoldType
  <1> QED
    BY <1>1, <1>3, <1>4

\* What leaves for the pipe is read before the rest.
LEMMA LeavesFold ==
    ASSUME NEW V, NEW g, Reader(g, V, Frame), NEW b \in V, NEW q, Leaves(q)
    PROVE  /\ Fold(g, b, Unseen) = Fold(g, Fold(g, b, q), Unseen')
           /\ q \in Seq(Frame) /\ Unseen' \in Seq(Frame) /\ Fold(g, b, q) \in V
  <1>1. PICK r : r = Unseen'
    OBVIOUS
  <1>2. q \in Seq(Frame) /\ r \in Seq(Frame)
    BY <1>1, ClientFramesWait DEF Leaves
  <1>3. Fold(g, b, q \o r) = Fold(g, Fold(g, b, q), r)
    BY <1>2, FoldConcat
  <1>4. Fold(g, b, q) \in V
    BY <1>2, FoldType
  <1> QED
    BY <1>1, <1>2, <1>3, <1>4 DEF Leaves

\* What the client sends is read after what it sent before.
LEMMA SentFold ==
    ASSUME NEW V, NEW g, Reader(g, V, Frame), NEW b \in V, TypeInv,
           NEW fs \in Seq(Frame), Unseen' = Unseen \o fs
    PROVE  Fold(g, b, Unseen') = Fold(g, Fold(g, b, Unseen), fs)
  <1>1. PICK u : u = Unseen
    OBVIOUS
  <1>2. u \in Seq(Frame)
    BY <1>1, PipeTypes
  <1>3. Fold(g, b, u \o fs) = Fold(g, Fold(g, b, u), fs)
    BY <1>2, FoldConcat
  <1> QED
    BY <1>1, <1>3

-----------------------------------------------------------------------------
(* The tables *)

Decoders == SUBSET Seq(Entry)

\* A decoder has one table, or none once it has met a header block that was encoded
\* with another.  An update replaces the table.
Decoding ==
    [s \in Decoders |-> [f \in Frame |->
        IF f.type = "headers"
        THEN IF f.table \in s THEN {Added(f.table, f.adds)} ELSE {}
        ELSE IF f.type = "dt_sync" /\ s # {} THEN {f.table} ELSE s]]

Decoded(s, q) == Fold(Decoding, s, q)

\* What a frame does to the table.
LEMMA DecodingIs ==
    /\ Reader(Decoding, Decoders, Frame)
    /\ {} \in Decoders /\ \A t \in Seq(Entry) : {t} \in Decoders
    /\ \A f \in Frame : Decoding[{}][f] = {}
    /\ \A s \in Decoders, f \in Frame :
          f.type \notin {"headers", "dt_sync"} => Decoding[s][f] = s
    /\ \A s \in Decoders, f \in Frame :
          f.type = "dt_sync" /\ s # {} => Decoding[s][f] = {f.table}
    /\ \A t \in Seq(Entry), f \in Frame :
          f.type = "headers" /\ Decoding[{t}][f] # {} => f.table = t
    /\ \A t \in Seq(Entry), f \in Frame :
          f.type = "headers" /\ f.table = t => Decoding[{t}][f] = {Added(t, f.adds)}
  <1>1. Reader(Decoding, Decoders, Frame)
    <2> SUFFICES ASSUME NEW s \in Decoders, NEW f \in Frame
                 PROVE  (IF f.type = "headers"
                         THEN IF f.table \in s THEN {Added(f.table, f.adds)} ELSE {}
                         ELSE IF f.type = "dt_sync" /\ s # {} THEN {f.table} ELSE s) \in Decoders
      BY DEF Decoding, Reader
    <2>1. f.type = "headers" => Added(f.table, f.adds) \in Seq(Entry)
      BY Fields, AddedType
    <2>2. f.type = "dt_sync" => f.table \in Seq(Entry)
      BY Fields
    <2> QED
      BY <2>1, <2>2 DEF Decoders
  <1>2. {} \in Decoders /\ \A t \in Seq(Entry) : {t} \in Decoders
    BY DEF Decoders
  <1> QED
    BY <1>1, <1>2 DEF Decoding

\* A decoder that still has a table had one before.
LEMMA StillDecodes ==
    ASSUME NEW s \in Decoders, NEW q \in Seq(Frame), NEW r \in Seq(Frame),
           Decoded(Decoded(s, q), r) # {}
    PROVE  Decoded(s, q) # {}
  <1>1. /\ Reader(Decoding, Decoders, Frame) /\ {} \in Decoders
        /\ \A f \in Frame : Decoding[{}][f] = {}
    BY DecodingIs
  <1>2. Fold(Decoding, s, q \o r) = Fold(Decoding, Fold(Decoding, s, q), r)
    BY <1>1, FoldConcat
  <1>3. Fold(Decoding, s, q \o r) # {}
    BY <1>2 DEF Decoded
  <1>4. Fold(Decoding, s, q) # {}
    BY <1>1, <1>3, FoldStuck
  <1> QED
    BY <1>4 DEF Decoded

\* The same of one frame.
LEMMA StillDecodesOne ==
    ASSUME NEW s \in Decoders, NEW f \in Frame, NEW r \in Seq(Frame),
           Decoded(Decoding[s][f], r) # {}
    PROVE  Decoding[s][f] # {}
  <1>1. PICK q : q = <<f>>
    OBVIOUS
  <1>2. q \in Seq(Frame)
    BY <1>1
  <1>3. Decoded(s, q) = Decoding[s][f]
    BY <1>1, DecodingIs, FoldOne DEF Decoded
  <1> QED
    BY <1>2, <1>3, StillDecodes

\* If nothing is decoded in between, the table stays.
LEMMA NothingDecoded ==
    ASSUME NEW s \in Decoders, NEW q \in Seq(ClientFrame), ~Carries(q, "headers")
    PROVE  Decoded(s, q) = s
  <1>1. q \in Seq(Frame)
    BY ClientFramesWait
  <1>2. ASSUME NEW i \in 1 .. Len(q) PROVE Decoding[s][q[i]] = s
    <2>1. q[i] \in ClientFrame /\ q[i] \in Frame
      BY DEF Frame
    <2>2. i \in DOMAIN q
      OBVIOUS
    <2>3. q[i].type \notin {"headers", "dt_sync"}
      BY <2>1, <2>2, WhoseFrame DEF Carries
    <2> QED
      BY <2>1, <2>3, DecodingIs
  <1> QED
    BY <1>1, <1>2, DecodingIs, FoldIdle DEF Decoded

\* What user space decodes with, in the end.
PipeTable == Decoded({table}, Pipe)

\* DecodesRight is not inductive: that a header block finds the table it was encoded
\* with is due to what is in front of it.  User space gets through what is in its pipe
\* and then has the fast path's table, unless one is still due; the fast path would
\* get through what the client has sent and then have the client's; once the
\* connection is left to user space, that one gets through to there itself.
TablesInv ==
    ~Derailed =>
        /\ PipeTable # {}
        /\ ~left /\ ~down => /\ ~dt_dirty => PipeTable = {mirror}
                             /\ Decoded({mirror}, Unseen) = {client_table}
        /\ left => Decoded(PipeTable, Unseen) = {client_table}

\* The tables are tables.
LEMMA TableTypes ==
    ASSUME TypeInv
    PROVE  /\ table \in Seq(Entry) /\ mirror \in Seq(Entry) /\ client_table \in Seq(Entry)
           /\ {table} \in Decoders /\ {mirror} \in Decoders /\ {client_table} \in Decoders
           /\ PipeTable \in Decoders
  <1>1. table \in Seq(Entry) /\ mirror \in Seq(Entry) /\ client_table \in Seq(Entry)
    BY DEF TypeInv, UserInv, FastInv, ClientInv, Tables
  <1>2. {table} \in Decoders /\ {mirror} \in Decoders /\ {client_table} \in Decoders
    BY <1>1, DecodingIs
  <1>3. PipeTable \in Decoders
    <2>1. Pipe \in Seq(Frame) /\ Reader(Decoding, Decoders, Frame)
      BY PipeTypes, DecodingIs
    <2>2. Fold(Decoding, {table}, Pipe) \in Decoders
      BY <1>2, <2>1, FoldType
    <2> QED
      BY <2>2 DEF PipeTable, Decoded
  <1> QED
    BY <1>1, <1>2, <1>3

\* What led the tables astray is not undone.
LEMMA StaysDerailed ==
    ASSUME TypeInv, [Next]_vars, Derailed
    PROVE  Derailed'
  <1>1. CASE UNCHANGED vars
    BY <1>1 DEF Derailed, vars, fastVars, userVars
  <1>2. CASE Client
    BY <1>2, ClientSends DEF Derailed, fastVars, userVars
  <1>3. CASE Server
    <2>1. early => early'
      BY <1>3 DEF Server, Poll, ReadProtocol, ServerHandshake, Take, TakeFails, ReadOut, Withhold,
             Rescan, ReadSocket, WaitForSocket, SocketWakes, Decode, Stall, Respond
    <2> QED
      BY <1>3, <2>1 DEF Server, Derailed, fastVars
  <1>4. CASE Kernel
    <2>1. early' = early
      BY <1>4 DEF Kernel, userVars
    <2>2. missed => missed'
      BY <1>4 DEF Kernel, Verdict, Mishap, Upgrade, LeaveToUserSpace, PassOn, Serve, ServeFails,
             Forward, SyncFails, fastVars
    <2>3. left => UNCHANGED fastVars
      BY <1>4 DEF Kernel, Verdict, Mishap, Upgrade, LeaveToUserSpace, PassOn, Serve, ServeFails,
             Forward, SyncFails, RunsOn
    <2>4. left /\ dt_dirty => left' /\ dt_dirty'
      BY <2>3 DEF fastVars
    <2> QED
      BY <2>1, <2>2, <2>4 DEF Derailed
  <1> QED
    BY <1>1, <1>2, <1>3, <1>4 DEF Next

\* What is added to a pipe is decoded after what was in it.
LEMMA PipeTableGrows ==
    ASSUME TypeInv, table' = table, NEW q \in Seq(Frame), Pipe' = Pipe \o q
    PROVE  PipeTable' = Decoded(PipeTable, q)
  <1>1. {table} \in Decoders /\ Reader(Decoding, Decoders, Frame)
    BY TableTypes, DecodingIs
  <1>2. Fold(Decoding, {table}, Pipe') = Fold(Decoding, Fold(Decoding, {table}, Pipe), q)
    <2>1. PICK b : b = {table}
      OBVIOUS
    <2>2. b \in Decoders
      BY <1>1, <2>1
    <2>3. Fold(Decoding, b, Pipe') = Fold(Decoding, Fold(Decoding, b, Pipe), q)
      BY <1>1, <2>2, PipeFold, SMTT(30)
    <2> QED
      BY <2>1, <2>3
  <1> QED
    BY <1>2 DEF PipeTable, Decoded

\* What leaves is decoded before the rest.
LEMMA DecodedLeaves ==
    ASSUME NEW s \in Decoders, NEW q, Leaves(q)
    PROVE  /\ Decoded(s, Unseen) = Decoded(Decoded(s, q), Unseen')
           /\ q \in Seq(Frame) /\ Unseen' \in Seq(Frame) /\ Decoded(s, q) \in Decoders
  BY DecodingIs, LeavesFold DEF Decoded

\* A step of the client keeps the tables in step.
LEMMA ClientTables ==
    ASSUME TypeInv, TablesInv, Client
    PROVE  TablesInv'
  <1>1. UNCHANGED <<ingress, fastVars, userVars>> /\ Pipe' = Pipe
    BY ClientSends
  <1>2. UNCHANGED <<missed, early, left, down, dt_dirty, mirror, table>>
    BY <1>1 DEF fastVars, userVars, codecVars
  <1>3. PICK fs, f : Message(fs, f) /\ Tells(f) /\ Unseen' = Unseen \o fs
    BY ClientSends
  <1>4. f \in Frame /\ fs \in Seq(Frame)
    BY <1>3, ClientFramesWait DEF Message, Frame
  <1>5. Decoded({client_table}, fs) = {client_table'}
    <2>1. Decoded({client_table}, fs) = Decoding[{client_table}][f]
      <3>1. \A p \in Frame : p.type = "preface" => Decoding[{client_table}][p] = {client_table}
        BY TableTypes, DecodingIs
      <3>2. PICK b : b = {client_table}
        OBVIOUS
      <3>3. b \in Decoders /\ Reader(Decoding, Decoders, Frame)
        BY <3>2, TableTypes, DecodingIs
      <3>4. \A p \in Frame : p.type = "preface" => Decoding[b][p] = b
        BY <3>1, <3>2
      <3>5. Fold(Decoding, b, fs) = Decoding[b][f]
        <4>1. Message(fs, f)
          BY <1>3
        <4> QED
          BY <3>3, <3>4, <4>1, ReadMessage
      <3> QED
        BY <3>2, <3>5 DEF Decoded
    <2>2. CASE f.type = "headers"
      <3>1. f.table = client_table /\ client_table' = Added(client_table, f.adds)
        BY <1>3, <2>2 DEF Tells
      <3>2. Decoding[{client_table}][f] = {Added(client_table, f.adds)}
        BY <1>4, <2>2, <3>1, TableTypes, DecodingIs
      <3> QED
        BY <2>1, <3>1, <3>2
    <2>3. CASE f.type # "headers"
      <3>1. f.type \in {"settings", "window_update"} /\ client_table' = client_table
        BY <1>3, <2>3 DEF Tells
      <3>2. Decoding[{client_table}][f] = {client_table}
        BY <1>4, <3>1, TableTypes, DecodingIs
      <3> QED
        BY <2>1, <3>1, <3>2
    <2> QED
      BY <2>2, <2>3
  <1>6. ASSUME NEW s \in Decoders, Decoded(s, Unseen) = {client_table}
        PROVE  Decoded(s, Unseen') = {client_table'}
    <2>1. Fold(Decoding, s, Unseen') = Fold(Decoding, Fold(Decoding, s, Unseen), fs)
      BY <1>3, <1>4, DecodingIs, SentFold
    <2> QED
      BY <1>5, <1>6, <2>1 DEF Decoded
  <1>7. PipeTable' = PipeTable
    BY <1>1, <1>2 DEF PipeTable
  <1> QED
    BY <1>2, <1>6, <1>7, TableTypes DEF TablesInv, Derailed

\* A step of the program keeps the tables in step.
LEMMA KernelTables ==
    ASSUME TypeInv, TablesInv, Kernel, ~Derailed'
    PROVE  TablesInv'
  <1>1. UNCHANGED <<early, table, client_table>>
    BY DEF Kernel, userVars, codecVars, clientVars
  <1>2. ~Derailed
    BY StaysDerailed DEF Next
  <1>3. /\ PipeTable # {}
        /\ ~left /\ ~down => /\ ~dt_dirty => PipeTable = {mirror}
                             /\ Decoded({mirror}, Unseen) = {client_table}
        /\ left => Decoded(PipeTable, Unseen) = {client_table}
    BY <1>2 DEF TablesInv
  <1>4. {mirror} \in Decoders /\ PipeTable \in Decoders
    BY TableTypes
  <1>5. Pipe' = Pipe => PipeTable' = PipeTable
    BY <1>1 DEF PipeTable
  <1>6. ASSUME NEW q, Leaves(q), Pipe' = Pipe \o q, Decoded(PipeTable, Unseen) = {client_table}
        PROVE  /\ PipeTable' = Decoded(PipeTable, q) /\ PipeTable' # {}
               /\ Decoded(PipeTable', Unseen') = {client_table}
    <2>1. /\ Decoded(PipeTable, Unseen) = Decoded(Decoded(PipeTable, q), Unseen')
          /\ q \in Seq(Frame) /\ Unseen' \in Seq(Frame)
      BY <1>4, <1>6, DecodedLeaves
    <2>2. PipeTable' = Decoded(PipeTable, q)
      BY <1>1, <1>6, <2>1, PipeTableGrows
    <2>3. PICK r : r = Unseen'
      OBVIOUS
    <2>4. r \in Seq(Frame) /\ Decoded(Decoded(PipeTable, q), r) = {client_table}
      BY <1>6, <2>1, <2>3
    <2>5. Decoded(PipeTable, q) # {}
      <3>1. Decoded(Decoded(PipeTable, q), r) # {}
        BY <2>4
      <3> QED
        BY <1>4, <2>1, <2>4, <3>1, StillDecodes
    <2> QED
      BY <2>2, <2>3, <2>4, <2>5
  <1>7. ASSUME NEW q, PassesOn(q) PROVE TablesInv'
    <2>1. Leaves(q) /\ Pipe' = Pipe \o q
      BY <1>7 DEF PassesOn
    <2>2. CASE Upgrade
      <3>1. /\ ~left /\ ~down /\ q = <<Head(Cur)>> /\ Head(Cur).type = "preface"
            /\ UNCHANGED <<mirror, dt_dirty, left, down>>
        BY <1>7, <2>2 DEF PassesOn, Upgrade, RunsOn
      <3>2. q \in Seq(ClientFrame) /\ ~Carries(q, "headers")
        BY <2>1, <3>1 DEF Leaves, Carries
      <3>3. Decoded({mirror}, q) = {mirror} /\ Decoded(PipeTable, q) = PipeTable
        BY <1>4, <3>2, NothingDecoded
      <3>4. q \in Seq(Frame) /\ Decoded({mirror}, Unseen') = {client_table}
        <4>1. /\ Decoded({mirror}, Unseen) = Decoded(Decoded({mirror}, q), Unseen')
              /\ q \in Seq(Frame)
          BY <1>4, <2>1, DecodedLeaves
        <4> QED
          BY <1>3, <3>1, <3>3, <4>1
      <3>5. PipeTable' = PipeTable
        BY <1>1, <2>1, <3>3, <3>4, PipeTableGrows
      <3> QED
        BY <1>1, <1>3, <3>1, <3>4, <3>5 DEF TablesInv
    <2>3. CASE LeaveToUserSpace
      <3>1. left' /\ ~left /\ ~down /\ dt_dirty' = dt_dirty
        BY <2>3 DEF LeaveToUserSpace, RunsOn
      <3>2. PipeTable = {mirror}
        BY <1>3, <3>1 DEF Derailed
      <3>3. Decoded(PipeTable, Unseen) = {client_table}
        BY <1>3, <3>1, <3>2
      <3>4. PipeTable' # {} /\ Decoded(PipeTable', Unseen') = {client_table}
        BY <1>6, <2>1, <3>3
      <3> QED
        BY <1>1, <3>1, <3>4 DEF TablesInv
    <2>4. CASE PassOn
      <3>1. left /\ left'
        BY <2>4 DEF PassOn, fastVars
      <3>2. PipeTable' # {} /\ Decoded(PipeTable', Unseen') = {client_table}
        BY <1>3, <1>6, <2>1, <3>1
      <3> QED
        BY <1>1, <3>1, <3>2 DEF TablesInv
    <2> QED
      BY <1>7, <2>2, <2>3, <2>4 DEF PassesOn
  <1>8. CASE Answers
    <2>1. /\ RunsOn({"headers"}) /\ mirror' = Parsed /\ dt_dirty' /\ ~left /\ ~down
          /\ Leaves(<<Head(Cur)>>) /\ Pipe' = Pipe /\ UNCHANGED <<left, down>>
      BY <1>8 DEF Answers, Serve, RunsOn, Derailed
    <2>2. PICK h : h = Head(Cur)
      OBVIOUS
    <2>3. h \in Frame /\ h.type = "headers"
      BY <2>1, <2>2, InFront DEF Frame
    <2>4. PICK q : q = <<h>>
      OBVIOUS
    <2>5. /\ Decoded(Decoded({mirror}, q), Unseen') = {client_table}
          /\ q \in Seq(Frame) /\ Unseen' \in Seq(Frame)
      BY <1>3, <1>4, <2>1, <2>2, <2>4, DecodedLeaves
    <2>6. Decoded({mirror}, q) = Decoding[{mirror}][h]
      BY <1>4, <2>3, <2>4, DecodingIs, FoldOne DEF Decoded
    <2>7. Decoded({mirror}, q) # {}
      <3>1. PICK r : r = Unseen'
        OBVIOUS
      <3>2. r \in Seq(Frame) /\ Decoded(Decoded({mirror}, q), r) # {}
        BY <2>5, <3>1
      <3> QED
        BY <1>4, <2>5, <3>2, StillDecodes
    <2>8. h.table = mirror
      <3>1. Decoding[{mirror}][h] # {} /\ mirror \in Seq(Entry)
        BY <2>6, <2>7, TableTypes
      <3> QED
        BY <2>3, <3>1, DecodingIs
    <2>9. Decoding[{mirror}][h] = {Added(mirror, h.adds)}
      BY <2>3, <2>8, TableTypes, DecodingIs
    <2>10. mirror' = Added(mirror, h.adds)
      BY <2>1, <2>2, <2>3 DEF Parsed
    <2>11. Decoded({mirror'}, Unseen') = {client_table}
      BY <2>5, <2>6, <2>9, <2>10
    <2> QED
      BY <1>1, <1>3, <1>5, <2>1, <2>11 DEF TablesInv
  <1>9. CASE GivesUp
    <2>1. ~left' /\ down' /\ Pipe' = Pipe
      BY <1>9 DEF GivesUp, ServeFails, SyncFails
    <2> QED
      BY <1>3, <1>5, <2>1 DEF TablesInv
  <1>10. ASSUME NEW report, Forwards(report) PROVE TablesInv'
    <2>1. /\ mirror' = Parsed /\ ~dt_dirty' /\ ~left /\ ~down /\ UNCHANGED <<left, down>>
          /\ missed' = (missed \/ Carries(Tail(Cur), "headers"))
          /\ RunsOn({"settings", "window_update", "headers"})
      BY <1>10 DEF Forwards, Forward, RunsOn
    <2>2. /\ Leaves(Cur) /\ report \in FcSync(flow_ctl.unreported)
          /\ Pipe' = Pipe \o (report \o DtSync \o Cur)
          /\ report \in Seq(Frame) /\ DtSync \in Seq(Frame) /\ Cur \in Seq(Frame)
      BY <1>10, ClientFramesWait DEF Forwards
    <2>3. Reader(Decoding, Decoders, Frame)
      BY DecodingIs
    <2>4. Decoded(PipeTable, report) = PipeTable
      <3>1. ASSUME NEW i \in 1 .. Len(report) PROVE report[i].type = "fc_sync" /\ report[i] \in Frame
        BY <2>2 DEF FcSync
      <3>2. \A i \in 1 .. Len(report) : Decoding[PipeTable][report[i]] = PipeTable
        BY <1>4, <3>1, DecodingIs
      <3> QED
        BY <1>4, <2>2, <2>3, <3>2, FoldIdle DEF Decoded
    <2>5. Decoded(PipeTable, DtSync) = {mirror}
      <3>1. CASE dt_dirty
        <4>1. PICK f : f = [type |-> "dt_sync", table |-> mirror]
          OBVIOUS
        <4>2. f \in Frame /\ f.type = "dt_sync" /\ f.table = mirror
          BY <4>1, TableTypes DEF Frame, SyncFrame
        <4>3. DtSync = <<f>>
          BY <3>1, <4>1 DEF DtSync, TableBefore
        <4>4. Fold(Decoding, PipeTable, <<f>>) = Decoding[PipeTable][f]
          BY <1>4, <2>3, <4>2, FoldOne
        <4>5. Decoding[PipeTable][f] = {mirror}
          BY <1>3, <1>4, <4>2, DecodingIs
        <4> QED
          BY <4>3, <4>4, <4>5 DEF Decoded
      <3>2. CASE ~dt_dirty
        <4>1. DtSync = <<>> /\ PipeTable = {mirror}
          BY <1>3, <2>1, <3>2 DEF DtSync
        <4> QED
          BY <1>4, <2>3, <4>1, FoldEmpty DEF Decoded
      <3> QED
        BY <3>1, <3>2
    <2>6. PICK d : d = DtSync
      OBVIOUS
    <2>7. PICK c : c = Cur
      OBVIOUS
    <2>8. PICK rd : rd = report \o d
      OBVIOUS
    <2>9. d \in Seq(Frame) /\ c \in Seq(Frame) /\ rd \in Seq(Frame)
      BY <2>2, <2>6, <2>7, <2>8
    <2>10. Fold(Decoding, PipeTable, rd) = {mirror}
      <3>1. Fold(Decoding, PipeTable, report \o d)
                = Fold(Decoding, Fold(Decoding, PipeTable, report), d)
        BY <1>4, <2>2, <2>3, <2>9, FoldConcat
      <3> QED
        BY <2>4, <2>5, <2>6, <2>8, <3>1 DEF Decoded
    <2>11. Fold(Decoding, PipeTable, rd \o c) = Fold(Decoding, {mirror}, c)
      <3>1. Fold(Decoding, PipeTable, rd \o c)
                = Fold(Decoding, Fold(Decoding, PipeTable, rd), c)
        BY <1>4, <2>3, <2>9, FoldConcat
      <3> QED
        BY <2>10, <3>1
    <2>12. PipeTable' = Decoded({mirror}, c)
      <3>1. PICK q : q = rd \o c
        OBVIOUS
      <3>2. q \in Seq(Frame) /\ Pipe' = Pipe \o q
        BY <2>2, <2>6, <2>7, <2>8, <2>9, <3>1
      <3>3. PipeTable' = Decoded(PipeTable, q)
        BY <1>1, <3>2, PipeTableGrows
      <3> QED
        BY <2>11, <3>1, <3>3 DEF Decoded
    <2>13. Decoded(Decoded({mirror}, c), Unseen') = {client_table} /\ Unseen' \in Seq(Frame)
      BY <1>3, <1>4, <2>1, <2>2, <2>7, DecodedLeaves
    <2>14. Decoded({mirror}, c) = {mirror'}
      <3>1. PICK h : h = Head(Cur)
        OBVIOUS
      <3>2. PICK t : t = Tail(Cur)
        OBVIOUS
      <3>3. /\ h \in Frame /\ t \in Seq(ClientFrame) /\ t \in Seq(Frame) /\ c = <<h>> \o t
            /\ h.type \in {"settings", "window_update", "headers"}
        BY <2>1, <2>7, <3>1, <3>2, InFront, ClientFramesWait DEF Frame
      <3>4. PICK s : s = Decoding[{mirror}][h]
        OBVIOUS
      <3>5. s \in Decoders
        BY <1>4, <2>3, <3>3, <3>4 DEF Reader
      <3>6. Decoded({mirror}, c) = Decoded(s, t)
        <4>1. Fold(Decoding, {mirror}, <<h>> \o t) = Fold(Decoding, Decoding[{mirror}][h], t)
          BY <1>4, <2>3, <3>3, FoldCons
        <4> QED
          BY <3>3, <3>4, <4>1 DEF Decoded
      <3>7. ~Carries(t, "headers")
        BY <2>1, <3>2 DEF Derailed
      <3>8. Decoded(s, t) = s
        BY <3>3, <3>5, <3>7, NothingDecoded
      <3>9. s # {}
        <4>1. PICK r : r = Unseen'
          OBVIOUS
        <4>2. r \in Seq(Frame) /\ Decoded(Decoded({mirror}, c), r) # {}
          BY <2>13, <4>1
        <4>3. Decoded({mirror}, c) # {}
          BY <1>4, <2>9, <4>2, StillDecodes
        <4> QED
          BY <3>6, <3>8, <4>3
      <3>10. s = {mirror'}
        <4>1. CASE h.type = "headers"
          <5>1. h.table = mirror
            BY <3>3, <3>4, <3>9, <4>1, TableTypes, DecodingIs
          <5>2. s = {Added(mirror, h.adds)}
            BY <3>3, <3>4, <4>1, <5>1, TableTypes, DecodingIs
          <5> QED
            BY <2>1, <3>1, <4>1, <5>2 DEF Parsed
        <4>2. CASE h.type # "headers"
          <5>1. h.type \notin {"headers", "dt_sync"}
            BY <3>3, <4>2
          <5>2. s = {mirror}
            BY <1>4, <3>3, <3>4, <5>1, DecodingIs
          <5> QED
            BY <2>1, <3>1, <4>2, <5>2 DEF Parsed
        <4> QED
          BY <4>1, <4>2
      <3> QED
        BY <3>6, <3>8, <3>10
    <2>15. PipeTable' = {mirror'} /\ Decoded({mirror'}, Unseen') = {client_table'}
      BY <1>1, <2>12, <2>13, <2>14
    <2> QED
      BY <2>1, <2>15 DEF TablesInv
  <1> QED
    BY <1>7, <1>8, <1>9, <1>10, KernelPipe

\* A step of user space keeps the tables in step.
LEMMA ServerTables ==
    ASSUME TypeInv, TablesInv, Server, ~Derailed'
    PROVE  TablesInv'
  <1>1. UNCHANGED <<msgs, fastVars, clientVars>>
    BY DEF Server
  <1>2. UNCHANGED <<missed, left, down, dt_dirty, mirror, client_table, Unseen>>
    BY <1>1 DEF fastVars, clientVars, Unseen
  <1>3. ~Derailed
    BY StaysDerailed DEF Next
  <1>4. PipeTable # {}
    BY <1>3 DEF TablesInv
  <1>5. PipeTable' = PipeTable => TablesInv'
    BY <1>2, <1>3 DEF TablesInv
  <1>6. Pipe \in Seq(Frame) /\ {table} \in Decoders /\ Reader(Decoding, Decoders, Frame)
    BY PipeTypes, TableTypes, DecodingIs
  <1>7. CASE Reread
    <2>1. \A v \in Decoders, f \in Frame : f.type = "fc_sync" => Decoding[v][f] = v
      BY DecodingIs
    <2>2. Fold(Decoding, {table}, Pipe') = Fold(Decoding, {table}, Pipe)
      BY <1>6, <1>7, <2>1, RereadFold
    <2>3. table' = table
      BY <1>7 DEF Reread
    <2> QED
      BY <1>5, <2>2, <2>3 DEF PipeTable, Decoded
  <1>8. ASSUME NEW f, First(f) PROVE PipeTable = Decoded(Decoding[{table}][f], Pipe')
    BY <1>6, <1>8, FirstFold DEF PipeTable, Decoded
  <1>9. ASSUME NEW f, First(f), f.type = "preface", table' = table PROVE TablesInv'
    <2>1. Decoding[{table}][f] = {table}
      BY <1>6, <1>9, DecodingIs DEF First
    <2> QED
      BY <1>5, <1>8, <1>9, <2>1 DEF PipeTable
  <1>10. CASE Decode /\ First(Head(buf))
    <2>1. PICK f : f = Head(buf)
      OBVIOUS
    <2>2. f \in Frame /\ PipeTable = Decoded(Decoding[{table}][f], Pipe') /\ Pipe' \in Seq(Frame)
      BY <1>8, <1>10, <2>1 DEF First
    <2>3. Decoding[{table}][f] # {}
      BY <1>4, <1>6, <2>2, StillDecodesOne
    <2>4. Decoding[{table}][f] = {table'}
      <3>1. CASE f.type = "headers"
        <4>1. f.table = table
          BY <2>2, <2>3, <3>1, TableTypes, DecodingIs
        <4>2. Decoding[{table}][f] = {Added(table, f.adds)}
          BY <2>2, <3>1, <4>1, TableTypes, DecodingIs
        <4> QED
          BY <1>10, <2>1, <3>1, <4>2 DEF Decode
      <3>2. CASE f.type # "headers"
        <4>1. f \in ClientFrame
          BY <1>10, <2>1 DEF TypeInv, UserInv, Decode
        <4>2. f.type \notin {"headers", "dt_sync"}
          BY <2>2, <3>2, <4>1, WhoseFrame
        <4>3. Decoding[{table}][f] = {table}
          BY <1>6, <2>2, <4>2, DecodingIs
        <4> QED
          BY <1>10, <2>1, <3>2, <4>3 DEF Decode
      <3> QED
        BY <3>1, <3>2
    <2> QED
      BY <1>5, <2>2, <2>4 DEF PipeTable
  <1>11. CASE Take
    <2>1. PICK p, r \in Seq(Frame) :
             p = buf \o out /\ Pipe = (p \o Update(blocks)) \o r /\ Pipe' = p \o r
      BY <1>11, TakePipe
    <2>2. PICK u : u = Update(blocks)
      OBVIOUS
    <2>3. PICK pu : pu = p \o u
      OBVIOUS
    <2>4. u \in Seq(Frame) /\ pu \in Seq(Frame) /\ p \in Seq(Frame) /\ r \in Seq(Frame)
      BY <2>1, <2>2, <2>3, PipeTypes
    <2>5. Fold(Decoding, {table}, pu \o r) = Fold(Decoding, Fold(Decoding, {table}, pu), r)
      BY <1>6, <2>4, FoldConcat
    <2>6. Fold(Decoding, {table}, p \o u) = Fold(Decoding, Fold(Decoding, {table}, p), u)
      BY <1>6, <2>4, FoldConcat
    <2>7. {table'} \in Decoders
      <3>1. TypeInv'
        BY TypeInvHolds DEF Next
      <3>2. table' \in Seq(Entry)
        BY <3>1 DEF TypeInv, UserInv, Tables
      <3> QED
        BY <3>2, DecodingIs
    <2>8. Fold(Decoding, {table'}, p \o r) = Fold(Decoding, Fold(Decoding, {table'}, p), r)
      BY <1>6, <2>4, <2>7, FoldConcat
    <2>9. CASE blocks = <<>>
      <3>1. u = <<>> /\ table' = table
        BY <1>11, <2>2, <2>9 DEF Take, Update
      <3>2. pu = p
        BY <2>1, <2>3, <3>1
      <3> QED
        BY <1>5, <2>1, <2>2, <2>3, <3>1, <3>2 DEF PipeTable, Decoded
    <2>10. CASE blocks # <<>>
      <3>1. ~Carries(p, "headers")
        BY <1>11, <2>1, <2>10 DEF Take, Derailed
      <3>2. p \in Seq(ClientFrame)
        BY <2>1 DEF TypeInv, UserInv
      <3>3. Decoded({table}, p) = {table} /\ Decoded({table'}, p) = {table'}
        BY <1>6, <2>7, <3>1, <3>2, NothingDecoded
      <3>4. table' = blocks[1] /\ blocks[1] \in Seq(Entry)
        <4>1. blocks \in Seq(Tables) /\ Len(blocks) <= 1
          BY DEF TypeInv, UserInv
        <4>2. Len(blocks) = 1 /\ blocks[1] \in Tables
          <5>1. Len(blocks) \in Nat /\ Len(blocks) # 0
            BY <2>10, <4>1, NoElements
          <5>2. PICK n : n = Len(blocks)
            OBVIOUS
          <5>3. n \in Nat /\ n # 0 /\ n <= 1
            BY <4>1, <5>1, <5>2
          <5>4. n = 1
            BY <5>3
          <5>5. Len(blocks) = 1
            BY <5>2, <5>4
          <5>6. blocks[1] \in Tables
            BY <4>1, <5>5, OneElement
          <5> QED
            BY <5>5, <5>6
        <4> QED
          BY <1>11, <2>10, <4>2 DEF Take, Last, Tables
      <3>5. PICK f : f = [type |-> "dt_sync", table |-> table']
        OBVIOUS
      <3>6. u = <<f>>
        BY <2>2, <2>10, <3>4, <3>5 DEF Update
      <3>7. f \in Frame /\ f.type = "dt_sync" /\ f.table = table'
        BY <3>4, <3>5 DEF Frame, SyncFrame
      <3>8. Fold(Decoding, {table}, <<f>>) = Decoding[{table}][f]
        BY <1>6, <3>7, FoldOne
      <3>9. Decoding[{table}][f] = {table'}
        BY <1>6, <3>7, DecodingIs
      <3>10. Fold(Decoding, {table}, pu) = {table'}
        BY <2>3, <2>6, <3>3, <3>6, <3>8, <3>9 DEF Decoded
      <3>11. PipeTable' = PipeTable
        BY <2>1, <2>2, <2>3, <2>5, <2>8, <3>3, <3>10 DEF PipeTable, Decoded
      <3> QED
        BY <1>5, <3>11
    <2> QED
      BY <2>9, <2>10
  <1> QED
    BY <1>7, <1>9, <1>10, <1>11, ServerPipe

\* The tables are in step at the start and every step keeps them so.
LEMMA TablesInvHolds ==
    /\ Init => TablesInv
    /\ TypeInv /\ TablesInv /\ [Next]_vars => TablesInv'
  <1>1. ASSUME Init PROVE TablesInv
    <2>1. TypeInv
      BY <1>1, TypeInvHolds
    <2>2. /\ table = <<>> /\ mirror = <<>> /\ client_table = <<>> /\ ~left
          /\ msgs = <<>> /\ msg = <<>> /\ buf = <<>> /\ out = <<>> /\ blocks = <<>>
          /\ hold = <<>> /\ ingress = <<>>
      BY <1>1 DEF Init, FastInit, UserInit
    <2>3. Unseen = <<>>
      BY <2>2, FlattenEmpty DEF Unseen
    <2>4. Pipe = <<>>
      BY <2>2 DEF Pipe, Update
    <2>5. Fold(Decoding, {table}, <<>>) = {table}
      BY <2>1, TableTypes, DecodingIs, FoldEmpty
    <2> QED
      BY <2>2, <2>3, <2>4, <2>5 DEF TablesInv, PipeTable, Decoded
  <1>2. ASSUME TypeInv, TablesInv, [Next]_vars PROVE TablesInv'
    <2>1. CASE UNCHANGED vars
      BY <1>2, <2>1
      DEF vars, fastVars, userVars, scanVars, codecVars, clientVars, TablesInv, Derailed,
          PipeTable, Pipe, Update, Unseen
    <2>2. CASE ~Derailed'
      BY <1>2, <2>1, <2>2, ClientTables, KernelTables, ServerTables DEF Next
    <2> QED
      BY <2>2 DEF TablesInv
  <1> QED
    BY <1>1, <1>2

\* Whatever the fast path answered in between, and however the bytes are cut, user
\* space decodes every header block with the table it was encoded with - unless a
\* header block went past the parser, an update was taken ahead of one before it, or
\* the connection was left to user space with the table due.
THEOREM DecodesWithItsTable == Spec => []DecodesRight
  <1>1. TypeInv /\ TablesInv => DecodesRight
    <2> SUFFICES ASSUME TypeInv, TablesInv, ~Derailed, buf # <<>>, Head(buf).type = "headers"
                 PROVE  Head(buf).table = table
      BY DEF DecodesRight, RightTable
    <2>1. PipeTable # {}
      BY DEF TablesInv
    <2>2. PICK f : f = Head(buf)
      OBVIOUS
    <2>3. PICK b : b = buf
      OBVIOUS
    <2>4. PICK t : t = Tail(b)
      OBVIOUS
    <2>5. b \in Seq(Frame) /\ b # <<>>
      BY <2>3, PipeTypes
    <2>6. f \in Frame /\ t \in Seq(Frame) /\ b = <<f>> \o t
      BY <2>2, <2>3, <2>4, <2>5
    <2>7. PICK o : o = out
      OBVIOUS
    <2>8. PICK u : u = Update(blocks)
      OBVIOUS
    <2>9. PICK hd : hd = hold
      OBVIOUS
    <2>10. PICK g : g = ingress
      OBVIOUS
    <2>11. o \in Seq(Frame) /\ u \in Seq(Frame) /\ hd \in Seq(Frame) /\ g \in Seq(Frame)
      BY <2>7, <2>8, <2>9, <2>10, PipeTypes
    <2>12. PICK r : r = Cat(Cat(Cat(o, u), hd), g)
      OBVIOUS
    <2>13. r \in Seq(Frame)
      BY <2>11, <2>12, CatType
    <2>14. PICK w : w = Cat(Cat(b, o), u)
      OBVIOUS
    <2>15. w = Cat(b, Cat(o, u)) /\ w \in Seq(Frame) /\ Cat(o, u) \in Seq(Frame)
      BY <2>5, <2>11, <2>14, CatAssoc, CatType
    <2>16. Cat(Cat(w, hd), g) = Cat(b, r)
      <3>1. PICK k : k = Cat(o, u)
        OBVIOUS
      <3>2. k \in Seq(Frame)
        BY <2>15, <3>1
      <3>3. Cat(Cat(Cat(b, k), hd), g) = Cat(b, Cat(Cat(k, hd), g))
        BY <2>5, <2>11, <3>2, CatAssoc, CatType
      <3> QED
        BY <2>12, <2>15, <3>1, <3>3
    <2>17. Pipe = b \o r
      BY <2>3, <2>7, <2>8, <2>9, <2>10, <2>14, <2>16 DEF Pipe, Cat
    <2>18. PICK one : one = <<f>>
      OBVIOUS
    <2>19. PICK s : s = Cat(t, r)
      OBVIOUS
    <2>20. one \in Seq(Frame) /\ s \in Seq(Frame)
      BY <2>6, <2>13, <2>18, <2>19, CatType
    <2>21. Cat(Cat(one, t), r) = Cat(one, s)
      BY <2>6, <2>13, <2>19, <2>20, CatAssoc
    <2>22. Pipe = <<f>> \o s
      BY <2>6, <2>17, <2>18, <2>21 DEF Cat
    <2>23. {table} \in Decoders /\ Reader(Decoding, Decoders, Frame)
      BY TableTypes, DecodingIs
    <2>24. Fold(Decoding, {table}, <<f>> \o s) = Fold(Decoding, Decoding[{table}][f], s)
      BY <2>6, <2>20, <2>23, FoldCons
    <2>25. Decoding[{table}][f] # {}
      <3>1. Decoded(Decoding[{table}][f], s) # {}
        BY <2>1, <2>22, <2>24 DEF PipeTable, Decoded
      <3> QED
        BY <2>6, <2>20, <2>23, <3>1, StillDecodesOne
    <2>26. f.table = table
      BY <2>2, <2>6, <2>25, TableTypes, DecodingIs
    <2> QED
      BY <2>2, <2>26
  <1> QED
    BY <1>1, TypeInvHolds, TablesInvHolds, PTL DEF Spec

=============================================================================
