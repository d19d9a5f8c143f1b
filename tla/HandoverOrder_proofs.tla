------------------------ MODULE HandoverOrder_proofs ------------------------
(***************************************************************************)
(* That every request is taken once and the server gets its share in the   *)
(* order the client sent it, and what follows for the window: how many     *)
(* bytes were answered with is the number of requests that were.  And that *)
(* what is answered fits the window the client lets streams start with.    *)
(***************************************************************************)
EXTENDS HandoverSync_proofs

USE WireAssumption, FastPathAssumption, BoundAssumption

-----------------------------------------------------------------------------
(* Frames that go on as they are *)

\* The program hands these frames over.
Onward(q) == PassesOn(q) \/ (q = Cur /\ \E report : Forwards(report))

\* To a reader that passes over what the fast path adds, nothing else arrives.
LEMMA OnwardFold ==
    ASSUME NEW V, NEW g, Reader(g, V, Frame), NEW b \in V, TypeInv, NEW q, Onward(q),
           \A v \in V, f \in Frame : f.type \in {"fc_sync", "dt_sync"} => g[v][f] = v
    PROVE  /\ Leaves(q) /\ q \in Seq(Frame)
           /\ Fold(g, b, Pipe') = Fold(g, Fold(g, b, Pipe), q)
  <1>1. CASE PassesOn(q)
    <2>1. Leaves(q) /\ Pipe' = Pipe \o q
      BY <1>1 DEF PassesOn
    <2>2. q \in Seq(Frame)
      BY <2>1, ClientFramesWait DEF Leaves
    <2> QED
      BY <2>1, <2>2, PipeFold
  <1>2. CASE q = Cur /\ \E report : Forwards(report)
    <2>1. PICK report : Forwards(report)
      BY <1>2
    <2>2. PICK d : d = DtSync
      OBVIOUS
    <2>3. PICK c : c = Cur
      OBVIOUS
    <2>4. /\ report \in Seq(Frame) /\ d \in Seq(Frame) /\ c \in Seq(Frame)
          /\ Leaves(c) /\ Pipe' = Pipe \o (report \o d \o c)
      BY <2>1, <2>2, <2>3, ClientFramesWait DEF Forwards
    <2>5. PICK rd : rd = report \o d
      OBVIOUS
    <2>6. PICK all : all = rd \o c
      OBVIOUS
    <2>7. rd \in Seq(Frame) /\ all \in Seq(Frame) /\ Pipe' = Pipe \o all
      BY <2>4, <2>5, <2>6
    <2>8. PICK v : v = Fold(g, b, Pipe)
      OBVIOUS
    <2>9. Fold(g, b, Pipe') = Fold(g, v, all) /\ v \in V
      BY <2>7, <2>8, PipeFold
    <2>10. \A i \in 1 .. Len(rd) : rd[i].type \in {"fc_sync", "dt_sync"}
      <3>1. \A i \in 1 .. Len(report) : report[i].type = "fc_sync"
        BY <2>1 DEF Forwards, FcSync
      <3>2. \A i \in 1 .. Len(d) : d[i].type = "dt_sync"
        BY <2>2 DEF DtSync, TableBefore
      <3>3. Len(rd) = Len(report) + Len(d)
        BY <2>4, <2>5
      <3>4. ASSUME NEW i \in 1 .. Len(rd)
            PROVE  rd[i].type \in {"fc_sync", "dt_sync"}
        <4>1. CASE i <= Len(report)
          <5>1. i \in 1 .. Len(report) /\ rd[i] = report[i]
            BY <2>4, <2>5, <3>3, <4>1
          <5> QED
            BY <3>1, <5>1
        <4>2. CASE ~(i <= Len(report))
          <5>1. i - Len(report) \in 1 .. Len(d) /\ rd[i] = d[i - Len(report)]
            BY <2>4, <2>5, <3>3, <4>2
          <5> QED
            BY <3>2, <5>1
        <4> QED
          BY <4>1, <4>2
      <3> QED
        BY <3>4
    <2>11. Fold(g, v, rd) = v
      <3>1. \A i \in 1 .. Len(rd) : rd[i] \in Frame
        BY <2>7
      <3>2. \A i \in 1 .. Len(rd) : g[v][rd[i]] = v
        BY <2>9, <2>10, <3>1
      <3> QED
        BY <2>7, <2>9, <3>2, FoldIdle
    <2>12. Fold(g, v, rd \o c) = Fold(g, Fold(g, v, rd), c)
      BY <2>4, <2>7, <2>9, FoldConcat
    <2> QED
      BY <1>2, <2>3, <2>4, <2>6, <2>8, <2>9, <2>11, <2>12
  <1> QED
    BY <1>1, <1>2 DEF Onward

-----------------------------------------------------------------------------
(* The order of the requests *)

Orders == SUBSET SUBSET Nat

\* It is this request's turn if it was not counted and all before it were.
InTurn(T, r) == r \notin T /\ 1 .. r - 1 \subseteq T

\* One that counts requests has a set of them, or none once one was out of turn.
Ordering ==
    [s \in Orders |-> [f \in Frame |->
        IF f.type = "headers"
        THEN {T \cup {f.req} : T \in {U \in s : InTurn(U, f.req)}} ELSE s]]

\* What a frame does to the count.
LEMMA OrderingIs ==
    /\ Reader(Ordering, Orders, Frame)
    /\ {} \in Orders /\ \A T \in SUBSET Nat : {T} \in Orders
    /\ \A f \in Frame : Ordering[{}][f] = {}
    /\ \A s \in Orders, f \in Frame : f.type # "headers" => Ordering[s][f] = s
    /\ \A T \in SUBSET Nat, f \in Frame :
          f.type = "headers" /\ Ordering[{T}][f] # {} => InTurn(T, f.req)
    /\ \A T \in SUBSET Nat, f \in Frame :
          f.type = "headers" /\ InTurn(T, f.req) => Ordering[{T}][f] = {T \cup {f.req}}
  <1>1. Reader(Ordering, Orders, Frame)
    <2> SUFFICES ASSUME NEW s \in Orders, NEW f \in Frame
                 PROVE  (IF f.type = "headers"
                         THEN {T \cup {f.req} : T \in {U \in s : InTurn(U, f.req)}} ELSE s)
                        \in Orders
      BY DEF Ordering, Reader
    <2>1. ASSUME f.type = "headers"
          PROVE  {T \cup {f.req} : T \in {U \in s : InTurn(U, f.req)}} \in Orders
      <3>1. f.req \in Nat
        BY <2>1, Fields
      <3>2. ASSUME NEW T \in {U \in s : InTurn(U, f.req)} PROVE T \cup {f.req} \in SUBSET Nat
        BY <3>1 DEF Orders
      <3> QED
        BY <3>2 DEF Orders
    <2> QED
      BY <2>1
  <1>2. {} \in Orders /\ \A T \in SUBSET Nat : {T} \in Orders
    BY DEF Orders
  <1>3. \A f \in Frame : Ordering[{}][f] = {}
    BY <1>2 DEF Ordering
  <1>4. \A s \in Orders, f \in Frame : f.type # "headers" => Ordering[s][f] = s
    BY DEF Ordering
  <1>5. ASSUME NEW T \in SUBSET Nat, NEW f \in Frame, f.type = "headers"
        PROVE  /\ Ordering[{T}][f] # {} => InTurn(T, f.req)
               /\ InTurn(T, f.req) => Ordering[{T}][f] = {T \cup {f.req}}
    <2>1. Ordering[{T}][f] = {X \cup {f.req} : X \in {U \in {T} : InTurn(U, f.req)}}
      BY <1>2, <1>5 DEF Ordering
    <2>2. InTurn(T, f.req) => {U \in {T} : InTurn(U, f.req)} = {T}
      OBVIOUS
    <2>3. ~InTurn(T, f.req) => {U \in {T} : InTurn(U, f.req)} = {}
      OBVIOUS
    <2> QED
      BY <2>1, <2>2, <2>3
  <1> QED
    BY <1>1, <1>2, <1>3, <1>4, <1>5

\* Nothing that was counted is forgotten.
LEMMA OrderEnds ==
    ASSUME NEW T \in SUBSET Nat, NEW q \in Seq(Frame), Fold(Ordering, {T}, q) # {}
    PROVE  \E U \in SUBSET Nat : Fold(Ordering, {T}, q) = {U} /\ T \subseteq U
  <1>1. PICK W : W = {s \in Orders : s = {} \/ \E U \in SUBSET Nat : s = {U} /\ T \subseteq U}
    OBVIOUS
  <1>2. W \subseteq Orders /\ {T} \in W
    BY <1>1, OrderingIs
  <1>3. ASSUME NEW s \in W, NEW f \in Frame PROVE Ordering[s][f] \in W
    <2>1. s \in Orders /\ Ordering[s][f] \in Orders
      BY <1>2, OrderingIs DEF Reader
    <2>2. CASE f.type # "headers" \/ s = {}
      <3>1. Ordering[s][f] = s
        BY <2>1, <2>2, OrderingIs
      <3> QED
        BY <3>1
    <2>3. CASE f.type = "headers" /\ s # {}
      <3>1. PICK U \in SUBSET Nat : s = {U} /\ T \subseteq U
        BY <1>1, <2>3
      <3>2. CASE Ordering[s][f] = {}
        BY <1>1, <2>1, <3>2
      <3>3. CASE Ordering[s][f] # {}
        <4>1. Ordering[s][f] = {U \cup {f.req}}
          BY <2>3, <3>1, <3>3, OrderingIs
        <4>2. U \cup {f.req} \in SUBSET Nat /\ T \subseteq U \cup {f.req}
          BY <2>3, <3>1, Fields
        <4> QED
          BY <1>1, <2>1, <4>1, <4>2
      <3> QED
        BY <3>2, <3>3
    <2> QED
      BY <2>2, <2>3
  <1>4. Fold(Ordering, {T}, q) \in W
    BY <1>2, <1>3, OrderingIs, FoldKeeps
  <1> QED
    BY <1>1, <1>4

\* What was counted before these frames and after them.
Counts(T, q, U) == Fold(Ordering, {T}, q) = {U}

\* A request that is not among those that follow may be counted ahead of them.
LEMMA OrderShift ==
    ASSUME NEW T \in SUBSET Nat, NEW U \in SUBSET Nat, NEW q \in Seq(Frame),
           Counts(T, q, U), NEW r \in Nat, r \notin U
    PROVE  Counts(T \cup {r}, q, U \cup {r})
  <1> DEFINE S == {s \in Seq(Frame) :
                      \A X \in SUBSET Nat :
                          Fold(Ordering, {T}, s) = {X} /\ r \notin X
                              => Fold(Ordering, {T \cup {r}}, s) = {X \cup {r}}}
  <1>1. /\ Reader(Ordering, Orders, Frame)
        /\ {T} \in Orders /\ T \cup {r} \in SUBSET Nat /\ {T \cup {r}} \in Orders
    BY OrderingIs
  <1>2. <<>> \in S
    <2>1. Fold(Ordering, {T}, <<>>) = {T} /\ Fold(Ordering, {T \cup {r}}, <<>>) = {T \cup {r}}
      BY <1>1, FoldEmpty
    <2>2. <<>> \in Seq(Frame)
      OBVIOUS
    <2> QED
      BY <2>1, <2>2
  <1>3. ASSUME NEW s \in Seq(Frame), NEW f \in Frame, s \in S PROVE Append(s, f) \in S
    <2>0. Append(s, f) \in Seq(Frame)
      OBVIOUS
    <2> SUFFICES ASSUME NEW X \in SUBSET Nat, Fold(Ordering, {T}, Append(s, f)) = {X}, r \notin X
                 PROVE  Fold(Ordering, {T \cup {r}}, Append(s, f)) = {X \cup {r}}
      BY <2>0, Zenon
    <2>a. \A Y \in SUBSET Nat : Fold(Ordering, {T}, s) = {Y} /\ r \notin Y
                                   => Fold(Ordering, {T \cup {r}}, s) = {Y \cup {r}}
      BY <1>3
    <2> HIDE DEF S
    <2>1. /\ Fold(Ordering, {T}, Append(s, f)) = Ordering[Fold(Ordering, {T}, s)][f]
          /\ Fold(Ordering, {T \cup {r}}, Append(s, f))
                = Ordering[Fold(Ordering, {T \cup {r}}, s)][f]
      <3>1. \A b \in Orders : Fold(Ordering, b, Append(s, f)) = Ordering[Fold(Ordering, b, s)][f]
        <4> SUFFICES ASSUME NEW b \in Orders
                     PROVE  Fold(Ordering, b, Append(s, f)) = Ordering[Fold(Ordering, b, s)][f]
          OBVIOUS
        <4> QED
          BY <1>1, FoldAppend
      <3> QED
        BY <1>1, <3>1
    <2>2. Fold(Ordering, {T}, s) # {}
      BY <2>1, OrderingIs
    <2>3. PICK Y \in SUBSET Nat : Fold(Ordering, {T}, s) = {Y}
      <3>1. s \in Seq(Frame)
        OBVIOUS
      <3>2. \E Z \in SUBSET Nat : Fold(Ordering, {T}, s) = {Z} /\ T \subseteq Z
        BY <2>2, <3>1, OrderEnds
      <3> QED
        BY <3>2
    <2>4. CASE f.type # "headers"
      <3>1. Ordering[{Y}][f] = {Y}
        BY <2>4, OrderingIs
      <3>2. Y = X
        BY <2>1, <2>3, <3>1
      <3>3. Fold(Ordering, {T \cup {r}}, s) = {X \cup {r}}
        BY <2>3, <2>a, <3>2
      <3>4. {X \cup {r}} \in Orders
        <4>1. X \cup {r} \in SUBSET Nat
          OBVIOUS
        <4> QED
          BY <4>1, OrderingIs
      <3>5. Ordering[{X \cup {r}}][f] = {X \cup {r}}
        BY <2>4, <3>4, OrderingIs
      <3> QED
        BY <2>1, <3>3, <3>5
    <2>5. CASE f.type = "headers"
      <3>0. Ordering[{Y}][f] = {X}
        BY <2>1, <2>3
      <3>1. InTurn(Y, f.req) /\ f.req \in Nat
        <4>1. Ordering[{Y}][f] # {}
          BY <3>0
        <4> QED
          BY <2>5, <4>1, OrderingIs, Fields
      <3>2. X = Y \cup {f.req}
        <4>1. Ordering[{Y}][f] = {Y \cup {f.req}}
          BY <2>5, <3>1, OrderingIs
        <4> QED
          BY <3>0, <4>1
      <3>3. r \notin Y /\ r # f.req
        BY <3>2
      <3>4. Fold(Ordering, {T \cup {r}}, s) = {Y \cup {r}}
        BY <2>3, <2>a, <3>3
      <3>5. InTurn(Y \cup {r}, f.req) /\ Y \cup {r} \in SUBSET Nat
        BY <3>1, <3>3 DEF InTurn
      <3>6. Ordering[{Y \cup {r}}][f] = {(Y \cup {r}) \cup {f.req}}
        BY <2>5, <3>5, OrderingIs
      <3>7. (Y \cup {r}) \cup {f.req} = X \cup {r}
        BY <3>2
      <3> QED
        BY <2>1, <3>4, <3>6, <3>7
    <2> QED
      BY <2>4, <2>5
  <1> HIDE DEF S
  <1>4. q \in S
    BY <1>2, <1>3, SeqInd
  <1> QED
    BY <1>4 DEF S, Counts

\* The requests that were taken, and those with the ones user space will decode.
Taken == answered \cup delivered
Counted == Fold(Ordering, {Taken}, Pipe)

\* That a request is not taken twice is due to where it waits: what user space will
\* decode and what the program has not seen is, in this order, the requests not taken,
\* each in its turn, unless a message was dropped.
OrderInv ==
    /\ answered \cap delivered = {}
    /\ \E T \in SUBSET (1 .. reqs) : Counted = {T}
    /\ ~down => Fold(Ordering, Counted, Unseen) = {1 .. reqs}

\* The counts are counts.
LEMMA OrderTypes ==
    ASSUME TypeInv
    PROVE  /\ Reader(Ordering, Orders, Frame)
           /\ answered \in SUBSET Nat /\ delivered \in SUBSET Nat /\ Taken \in SUBSET Nat
           /\ {Taken} \in Orders /\ Counted \in Orders
           /\ reqs \in Nat /\ 1 .. reqs \in SUBSET Nat
           /\ Pipe \in Seq(Frame) /\ Unseen \in Seq(Frame)
  <1>1. Taken \in SUBSET Nat /\ answered \in SUBSET Nat /\ delivered \in SUBSET Nat
    BY DEF TypeInv, FastInv, UserInv, Taken
  <1>2. Pipe \in Seq(Frame) /\ Unseen \in Seq(Frame)
    BY PipeTypes
  <1>3. reqs \in Nat
    BY DEF TypeInv, HandshakeInv
  <1>4. {Taken} \in Orders
    BY <1>1, OrderingIs
  <1>5. Counted \in Orders
    BY <1>2, <1>4, OrderingIs, FoldType DEF Counted
  <1> QED
    BY <1>1, <1>2, <1>3, <1>4, <1>5, OrderingIs

\* No request is taken that was not sent.
LEMMA TakenWasSent ==
    ASSUME TypeInv, OrderInv
    PROVE  Taken \subseteq 1 .. reqs
  <1>1. PICK T \in SUBSET (1 .. reqs) : Counted = {T}
    BY DEF OrderInv
  <1>2. Fold(Ordering, {Taken}, Pipe) # {}
    BY <1>1 DEF Counted
  <1>3. PICK U \in SUBSET Nat : Fold(Ordering, {Taken}, Pipe) = {U} /\ Taken \subseteq U
    <2>1. PICK q : q = Pipe
      OBVIOUS
    <2>2. q \in Seq(Frame) /\ Taken \in SUBSET Nat
      BY <2>1, OrderTypes
    <2>3. \E U \in SUBSET Nat : Fold(Ordering, {Taken}, q) = {U} /\ Taken \subseteq U
      BY <1>2, <2>1, <2>2, OrderEnds
    <2> QED
      BY <2>1, <2>3
  <1> QED
    BY <1>1, <1>3 DEF Counted

\* What is left then are the requests up to one.
EndsWith(T, q, r, n) == Fold(Ordering, Fold(Ordering, {T}, q), r) = {1 .. n}

\* What is counted stays among the requests if all that follows ends with them.
LEMMA CountedStays ==
    ASSUME NEW n \in Nat, NEW T \in SUBSET Nat, NEW q \in Seq(Frame), NEW r \in Seq(Frame),
           EndsWith(T, q, r, n)
    PROVE  \E U \in SUBSET (1 .. n) : Counts(T, q, U)
  <1>1. Reader(Ordering, Orders, Frame) /\ {T} \in Orders /\ {} \in Orders
    BY OrderingIs
  <1>2. Fold(Ordering, {T}, q \o r) = {1 .. n}
    <2>1. PICK b : b = {T}
      OBVIOUS
    <2>2. b \in Orders
      BY <1>1, <2>1
    <2>3. Fold(Ordering, b, q \o r) = Fold(Ordering, Fold(Ordering, b, q), r)
      BY <1>1, <2>2, FoldConcat
    <2> QED
      BY <2>1, <2>3 DEF EndsWith
  <1>3. Fold(Ordering, {T}, q) # {}
    <2>1. Fold(Ordering, {T}, q \o r) # {}
      BY <1>2
    <2>2. \A f \in Frame : Ordering[{}][f] = {}
      BY OrderingIs
    <2> QED
      BY <1>1, <2>1, <2>2, FoldStuck
  <1>4. PICK U \in SUBSET Nat : Fold(Ordering, {T}, q) = {U}
    <2>1. \E U \in SUBSET Nat : Fold(Ordering, {T}, q) = {U} /\ T \subseteq U
      BY <1>3, OrderEnds
    <2> QED
      BY <2>1
  <1>5. Fold(Ordering, {U}, r) = {1 .. n}
    BY <1>4 DEF EndsWith
  <1>6. U \subseteq 1 .. n
    <2>1. Fold(Ordering, {U}, r) # {}
      BY <1>5
    <2>2. PICK X \in SUBSET Nat : Fold(Ordering, {U}, r) = {X} /\ U \subseteq X
      BY <2>1, OrderEnds
    <2> QED
      BY <1>5, <2>2
  <1> QED
    BY <1>4, <1>6 DEF Counts

\* A step of the client sends the next request, if any.
LEMMA ClientOrder ==
    ASSUME TypeInv, OrderInv, Client
    PROVE  OrderInv' /\ UNCHANGED <<answered, delivered>> /\ reqs' \in {reqs, reqs + 1}
  <1>1. UNCHANGED <<ingress, fastVars, userVars>> /\ Pipe' = Pipe
    BY ClientSends
  <1>2. UNCHANGED <<answered, delivered, down>>
    BY <1>1 DEF fastVars, userVars, codecVars
  <1>3. Counted' = Counted
    BY <1>1, <1>2 DEF Counted, Taken
  <1>4. PICK fs, f : Message(fs, f) /\ Tells(f) /\ Unseen' = Unseen \o fs
    BY ClientSends
  <1>5. f \in Frame /\ fs \in Seq(Frame) /\ f \in ClientFrame
    BY <1>4, ClientFramesWait DEF Message, Frame
  <1>6. {1 .. reqs} \in Orders /\ 1 .. reqs \in SUBSET Nat /\ reqs \in Nat
    BY OrderTypes, OrderingIs
  <1>7. Fold(Ordering, {1 .. reqs}, fs) = Ordering[{1 .. reqs}][f]
    <2>1. \A p \in Frame : p.type = "preface" => Ordering[{1 .. reqs}][p] = {1 .. reqs}
      BY <1>6, OrderingIs
    <2> QED
      BY <1>4, <1>6, <2>1, OrderingIs, ReadMessage
  <1>8. Ordering[{1 .. reqs}][f] = {1 .. reqs'} /\ reqs' \in {reqs, reqs + 1}
    <2>1. CASE f.type = "headers"
      <3>1. f.req = reqs + 1 /\ reqs' = reqs + 1
        BY <1>4, <2>1 DEF Tells
      <3>2. InTurn(1 .. reqs, reqs + 1)
        BY <1>6 DEF InTurn
      <3>3. 1 .. reqs + 1 = (1 .. reqs) \cup {reqs + 1}
        BY <1>6
      <3>4. Ordering[{1 .. reqs}][f] = {(1 .. reqs) \cup {f.req}}
        <4>1. PICK T \in SUBSET Nat : T = 1 .. reqs
          BY <1>6
        <4>2. InTurn(T, f.req)
          BY <3>1, <3>2, <4>1
        <4>3. Ordering[{T}][f] = {T \cup {f.req}}
          BY <1>5, <2>1, <4>2, OrderingIs
        <4> QED
          BY <4>1, <4>3
      <3> QED
        BY <3>1, <3>3, <3>4
    <2>2. CASE f.type # "headers"
      <3>1. reqs' = reqs
        BY <1>4, <2>2 DEF Tells
      <3>2. Ordering[{1 .. reqs}][f] = {1 .. reqs}
        BY <1>5, <1>6, <2>2, OrderingIs
      <3> QED
        BY <3>1, <3>2
    <2> QED
      BY <2>1, <2>2
  <1>9. Fold(Ordering, Counted, Unseen') = Fold(Ordering, Fold(Ordering, Counted, Unseen), fs)
    BY <1>4, <1>5, OrderTypes, SentFold
  <1>10. \E T \in SUBSET (1 .. reqs') : Counted' = {T}
    <2>1. PICK T \in SUBSET (1 .. reqs) : Counted = {T}
      BY DEF OrderInv
    <2>2. 1 .. reqs \subseteq 1 .. reqs'
      BY <1>6, <1>8
    <2> QED
      BY <1>3, <2>1, <2>2
  <1>11. ~down' => Fold(Ordering, Counted', Unseen') = {1 .. reqs'}
    BY <1>2, <1>3, <1>7, <1>8, <1>9 DEF OrderInv
  <1> QED
    BY <1>2, <1>8, <1>10, <1>11 DEF OrderInv

\* What the program hands over was counted behind what user space has.
LEMMA OnwardOrder ==
    ASSUME TypeInv, OrderInv, NEW q, Onward(q), ~down, UNCHANGED <<answered, delivered, down, reqs>>
    PROVE  OrderInv'
  <1>1. /\ Leaves(q) /\ q \in Seq(Frame)
        /\ Fold(Ordering, {Taken}, Pipe') = Fold(Ordering, Counted, q)
    <2>1. \A v \in Orders, f \in Frame : f.type \in {"fc_sync", "dt_sync"} => Ordering[v][f] = v
      BY OrderingIs
    <2> QED
      BY <2>1, OrderTypes, OnwardFold DEF Counted
  <1>2. Counted' = Fold(Ordering, Counted, q)
    BY <1>1 DEF Counted, Taken
  <1>3. /\ Fold(Ordering, Counted, Unseen) = Fold(Ordering, Fold(Ordering, Counted, q), Unseen')
        /\ Unseen' \in Seq(Frame)
    BY <1>1, OrderTypes, LeavesFold
  <1>4. PICK r : r = Unseen'
    OBVIOUS
  <1>5. PICK T \in SUBSET (1 .. reqs) : Counted = {T}
    BY DEF OrderInv
  <1>6. Fold(Ordering, Fold(Ordering, {T}, q), r) = {1 .. reqs} /\ r \in Seq(Frame)
    BY <1>3, <1>4, <1>5 DEF OrderInv
  <1>7. \E U \in SUBSET (1 .. reqs) : Fold(Ordering, {T}, q) = {U}
    <2>1. PICK n : n = reqs
      OBVIOUS
    <2>2. /\ T \in SUBSET Nat /\ n \in Nat /\ q \in Seq(Frame) /\ r \in Seq(Frame)
          /\ EndsWith(T, q, r, n)
      BY <1>1, <1>5, <1>6, <2>1, OrderTypes DEF EndsWith
    <2>3. \E U \in SUBSET (1 .. n) : Counts(T, q, U)
      BY <2>2, CountedStays
    <2> QED
      BY <2>1, <2>3 DEF Counts
  <1> QED
    BY <1>2, <1>4, <1>5, <1>6, <1>7 DEF OrderInv

\* The request that is answered is one of the client's and not taken: it is counted
\* ahead of those user space has still to decode.
LEMMA AnswerOrder ==
    ASSUME TypeInv, OrderInv, Kernel, Answers
    PROVE  \E r \in 1 .. reqs :
              /\ r \notin Taken /\ answered' = answered \cup {r}
              /\ UNCHANGED <<delivered, reqs, down>> /\ OrderInv'
  <1>1. /\ RunsOn({"headers"}) /\ answered' = answered \cup {Head(Cur).req} /\ ~down /\ ~left
        /\ Leaves(<<Head(Cur)>>) /\ Pipe' = Pipe
        /\ UNCHANGED <<delivered, reqs, down, left>>
    BY DEF Answers, Serve, RunsOn, Kernel, userVars, codecVars, clientVars
  <1>2. PICK h : h = Head(Cur)
    OBVIOUS
  <1>3. h \in Frame /\ h.type = "headers" /\ h.req \in Nat
    BY <1>1, <1>2, InFront, Fields DEF Frame
  <1>4. PICK r : r = h.req
    OBVIOUS
  <1>5. PICK q : q = <<h>>
    OBVIOUS
  <1>6. PICK w : w = Unseen'
    OBVIOUS
  <1>7. PICK T \in SUBSET (1 .. reqs) : Counted = {T}
    BY DEF OrderInv
  <1>8. T \in SUBSET Nat /\ {T} \in Orders /\ reqs \in Nat
    BY <1>7, OrderTypes, OrderingIs
  <1>9. Fold(Ordering, Fold(Ordering, {T}, q), w) = {1 .. reqs} /\ q \in Seq(Frame) /\ w \in Seq(Frame)
    <2>1. PICK b : b = {T}
      OBVIOUS
    <2>2. b \in Orders /\ Leaves(q) /\ Reader(Ordering, Orders, Frame)
      BY <1>1, <1>2, <1>5, <1>8, <2>1, OrderTypes
    <2>3. /\ Fold(Ordering, b, Unseen) = Fold(Ordering, Fold(Ordering, b, q), Unseen')
          /\ q \in Seq(Frame) /\ Unseen' \in Seq(Frame)
      BY <2>2, LeavesFold
    <2> QED
      BY <1>1, <1>6, <1>7, <2>1, <2>3 DEF OrderInv
  <1>10. Fold(Ordering, {T}, q) = Ordering[{T}][h]
    BY <1>3, <1>5, <1>8, OrderingIs, FoldOne
  <1>11. PICK U \in SUBSET (1 .. reqs) : Fold(Ordering, {T}, q) = {U}
    <2>1. PICK n : n = reqs
      OBVIOUS
    <2>2. /\ T \in SUBSET Nat /\ n \in Nat /\ q \in Seq(Frame) /\ w \in Seq(Frame)
          /\ EndsWith(T, q, w, n)
      BY <1>8, <1>9, <2>1 DEF EndsWith
    <2>3. \E U \in SUBSET (1 .. n) : Counts(T, q, U)
      BY <2>2, CountedStays
    <2> QED
      BY <2>1, <2>3 DEF Counts
  <1>12. InTurn(T, r)
    <2>1. Ordering[{T}][h] # {}
      BY <1>10, <1>11
    <2> QED
      BY <1>3, <1>4, <1>8, <2>1, OrderingIs
  <1>13. U = T \cup {r}
    <2>1. Ordering[{T}][h] = {T \cup {r}}
      BY <1>3, <1>4, <1>8, <1>12, OrderingIs
    <2> QED
      BY <1>10, <1>11, <2>1
  <1>14. r \notin T /\ r \in 1 .. reqs
    BY <1>12, <1>13 DEF InTurn
  <1>15. r \notin Taken
    <2>1. PICK X \in SUBSET Nat : Counted = {X} /\ Taken \subseteq X
      <3>1. PICK pp : pp = Pipe
        OBVIOUS
      <3>2. pp \in Seq(Frame) /\ Taken \in SUBSET Nat /\ Fold(Ordering, {Taken}, pp) # {}
        BY <1>7, <3>1, OrderTypes DEF Counted
      <3>3. \E X \in SUBSET Nat : Fold(Ordering, {Taken}, pp) = {X} /\ Taken \subseteq X
        BY <3>2, OrderEnds
      <3> QED
        BY <3>1, <3>3 DEF Counted
    <2> QED
      BY <1>7, <1>14, <2>1
  <1>16. Counted' = {U}
    <2>1. PICK pp : pp = Pipe
      OBVIOUS
    <2>2. PICK tk : tk = Taken
      OBVIOUS
    <2>3. pp \in Seq(Frame) /\ tk \in SUBSET Nat /\ Counts(tk, pp, T) /\ r \in Nat
      BY <1>3, <1>4, <1>7, <2>1, <2>2, OrderTypes DEF Counted, Counts
    <2>4. Counts(tk \cup {r}, pp, T \cup {r})
      <3>1. T \in SUBSET Nat /\ r \notin T
        BY <1>8, <1>14
      <3> QED
        BY <2>3, <3>1, OrderShift
    <2>5. Taken' = tk \cup {r} /\ Pipe' = pp
      BY <1>1, <1>2, <1>4, <2>1, <2>2 DEF Taken
    <2> QED
      BY <1>13, <2>4, <2>5 DEF Counted, Counts
  <1>17. Fold(Ordering, Counted', Unseen') = {1 .. reqs}
    BY <1>6, <1>9, <1>11, <1>16
  <1>18. answered' = answered \cup {r} /\ answered' \cap delivered' = {}
    BY <1>1, <1>2, <1>4, <1>15 DEF OrderInv, Taken
  <1>19. OrderInv'
    BY <1>1, <1>16, <1>17, <1>18 DEF OrderInv
  <1> QED
    BY <1>1, <1>14, <1>15, <1>18, <1>19

\* A step of the program takes one request or none.
LEMMA KernelOrder ==
    ASSUME TypeInv, OrderInv, Kernel
    PROVE  /\ OrderInv' /\ UNCHANGED <<delivered, reqs>>
           /\ \/ answered' = answered
              \/ \E r \in 1 .. reqs : r \notin Taken /\ answered' = answered \cup {r}
  <1>1. UNCHANGED <<delivered, reqs>>
    BY DEF Kernel, userVars, codecVars, clientVars
  <1>2. CASE Answers
    BY <1>1, <1>2, AnswerOrder
  <1>3. ASSUME NEW q, Onward(q) PROVE OrderInv' /\ answered' = answered
    <2>1. UNCHANGED <<answered, down>> /\ ~down
      <3>1. CASE Upgrade \/ LeaveToUserSpace \/ Forward
        BY <3>1 DEF Upgrade, LeaveToUserSpace, Forward, RunsOn
      <3>2. CASE PassOn
        BY <3>2 DEF PassOn, fastVars, TypeInv, StartInv
      <3> QED
        BY <1>3, <3>1, <3>2 DEF Onward, PassesOn, Forwards
    <2> QED
      BY <1>1, <1>3, <2>1, OnwardOrder
  <1>4. CASE GivesUp
    <2>1. Pipe' = Pipe /\ down' /\ answered' = answered
      BY <1>4 DEF GivesUp, ServeFails, SyncFails
    <2>2. Counted' = Counted
      BY <1>1, <2>1 DEF Counted, Taken
    <2> QED
      BY <1>1, <2>1, <2>2 DEF OrderInv
  <1> QED
    BY <1>1, <1>2, <1>3, <1>4, KernelPipe DEF Onward

\* A step of user space takes one request, in its turn, or none.
LEMMA ServerOrder ==
    ASSUME TypeInv, OrderInv, Server
    PROVE  /\ OrderInv' /\ UNCHANGED <<answered, reqs>>
           /\ \/ delivered' = delivered
              \/ \E r \in 1 .. reqs : InTurn(Taken, r) /\ delivered' = delivered \cup {r}
  <1>1. UNCHANGED <<answered, down, reqs, Unseen>>
    BY DEF Server, fastVars, clientVars, Unseen
  <1>2. /\ Reader(Ordering, Orders, Frame) /\ {Taken} \in Orders /\ Taken \in SUBSET Nat
        /\ \A v \in Orders, f \in Frame : f.type # "headers" => Ordering[v][f] = v
    BY OrderTypes, OrderingIs
  <1>3. ASSUME delivered' = delivered, Fold(Ordering, {Taken}, Pipe') = Counted
        PROVE  OrderInv'
    <2>1. Counted' = Counted
      BY <1>1, <1>3 DEF Counted, Taken
    <2> QED
      BY <1>1, <1>3, <2>1 DEF OrderInv
  <1>4. CASE Reread
    <2>1. delivered' = delivered
      BY <1>4 DEF Reread
    <2>2. \A v \in Orders, f \in Frame : f.type = "fc_sync" => Ordering[v][f] = v
      BY <1>2
    <2>3. Fold(Ordering, {Taken}, Pipe') = Fold(Ordering, {Taken}, Pipe)
      BY <1>2, <1>4, <2>2, RereadFold
    <2> QED
      BY <1>1, <1>3, <2>1, <2>3 DEF Counted
  <1>5. CASE Take
    <2>1. delivered' = delivered
      BY <1>5 DEF Take
    <2>2. \A v \in Orders, f \in Frame : f.type = "dt_sync" => Ordering[v][f] = v
      BY <1>2
    <2>3. Fold(Ordering, {Taken}, Pipe') = Fold(Ordering, {Taken}, Pipe)
      BY <1>2, <1>5, <2>2, TakeFold
    <2> QED
      BY <1>1, <1>3, <2>1, <2>3 DEF Counted
  <1>6. ASSUME NEW f, First(f)
        PROVE  f \in Frame /\ Pipe' \in Seq(Frame) /\ Counted = Fold(Ordering, Ordering[{Taken}][f], Pipe')
    BY <1>2, <1>6, FirstFold DEF Counted
  <1>7. ASSUME NEW f, First(f), f.type # "headers", delivered' = delivered
        PROVE  OrderInv'
    <2>1. Ordering[{Taken}][f] = {Taken}
      BY <1>2, <1>6, <1>7
    <2> QED
      BY <1>3, <1>6, <1>7, <2>1
  <1>8. CASE Decode /\ First(Head(buf))
    <2>1. PICK f : f = Head(buf)
      OBVIOUS
    <2>2. PICK q : q = Pipe'
      OBVIOUS
    <2>3. f \in Frame /\ q \in Seq(Frame) /\ Counted = Fold(Ordering, Ordering[{Taken}][f], q)
      BY <1>6, <1>8, <2>1, <2>2
    <2>4. CASE f.type # "headers"
      <3>1. delivered' = delivered
        BY <1>8, <2>1, <2>4 DEF Decode
      <3> QED
        BY <1>1, <1>7, <1>8, <2>1, <2>4, <3>1
    <2>5. CASE f.type = "headers"
      <3>1. delivered' = delivered \cup {f.req} /\ f.req \in Nat
        BY <1>8, <2>1, <2>3, <2>5, Fields DEF Decode
      <3>2. PICK T \in SUBSET (1 .. reqs) : Counted = {T}
        BY DEF OrderInv
      <3>3. Ordering[{Taken}][f] # {}
        <4>1. ASSUME Ordering[{Taken}][f] = {} PROVE Counted = {}
          <5>1. \A i \in 1 .. Len(q) : Ordering[{}][q[i]] = {}
            BY <2>3, OrderingIs
          <5>2. PICK z : z = {}
            OBVIOUS
          <5>3. z \in Orders /\ \A i \in 1 .. Len(q) : Ordering[z][q[i]] = z
            BY <5>1, <5>2, OrderingIs
          <5>4. Fold(Ordering, z, q) = z
            BY <1>2, <2>3, <5>3, FoldIdle
          <5> QED
            BY <2>3, <4>1, <5>2, <5>4
        <4> QED
          BY <3>2, <4>1
      <3>4. InTurn(Taken, f.req)
        BY <1>2, <2>3, <2>5, <3>3, OrderingIs
      <3>5. Ordering[{Taken}][f] = {Taken \cup {f.req}}
        BY <1>2, <2>3, <2>5, <3>4, OrderingIs
      <3>6. Taken' = Taken \cup {f.req}
        BY <1>1, <3>1 DEF Taken
      <3>7. Counted' = Counted
        BY <2>2, <2>3, <3>5, <3>6 DEF Counted
      <3>8. f.req \in 1 .. reqs
        <4>1. Fold(Ordering, {Taken \cup {f.req}}, q) # {} /\ Taken \cup {f.req} \in SUBSET Nat
          BY <1>2, <2>3, <3>1, <3>2, <3>5
        <4>2. PICK X \in SUBSET Nat :
                 Fold(Ordering, {Taken \cup {f.req}}, q) = {X} /\ Taken \cup {f.req} \subseteq X
          BY <2>3, <4>1, OrderEnds
        <4>3. {X} = {T}
          BY <2>3, <3>2, <3>5, <4>2
        <4>4. X = T /\ f.req \in X
          BY <4>2, <4>3
        <4> QED
          BY <4>4
      <3>9. answered' \cap delivered' = {}
        BY <1>1, <3>1, <3>4 DEF OrderInv, InTurn, Taken
      <3>10. OrderInv'
        BY <1>1, <3>7, <3>9 DEF OrderInv
      <3> QED
        BY <1>1, <3>1, <3>4, <3>8, <3>10
    <2> QED
      BY <2>4, <2>5
  <1>9. CASE \E f : First(f) /\ f.type = "preface" /\ delivered' = delivered
    BY <1>1, <1>7, <1>9
  <1> QED
    BY <1>1, <1>4, <1>5, <1>8, <1>9, ServerPipe DEF Reread, Take

\* The order holds at the start and every step keeps it.
LEMMA OrderInvHolds ==
    /\ Init => OrderInv
    /\ TypeInv /\ OrderInv /\ [Next]_vars => OrderInv'
  <1>1. ASSUME Init PROVE OrderInv
    <2>1. TypeInv
      BY <1>1, TypeInvHolds
    <2>2. /\ answered = {} /\ delivered = {} /\ reqs = 0
          /\ msgs = <<>> /\ msg = <<>> /\ buf = <<>> /\ out = <<>> /\ blocks = <<>>
          /\ hold = <<>> /\ ingress = <<>>
      BY <1>1 DEF Init, FastInit, UserInit
    <2>3. Unseen = <<>>
      BY <2>2, FlattenEmpty DEF Unseen
    <2>4. Pipe = <<>> /\ Taken = {}
      BY <2>2 DEF Pipe, Update, Taken
    <2>5. Counted = {Taken}
      BY <2>1, <2>4, OrderTypes, FoldEmpty DEF Counted
    <2>6. Fold(Ordering, Counted, Unseen) = Counted
      BY <2>1, <2>3, OrderTypes, FoldEmpty
    <2>7. 1 .. reqs = {}
      BY <2>2
    <2> QED
      BY <2>2, <2>4, <2>5, <2>6, <2>7 DEF OrderInv
  <1>2. ASSUME TypeInv, OrderInv, [Next]_vars PROVE OrderInv'
    <2>1. CASE UNCHANGED vars
      BY <1>2, <2>1
      DEF vars, fastVars, userVars, scanVars, codecVars, clientVars, OrderInv, Taken, Counted,
          Pipe, Update, Unseen
    <2> QED
      BY <1>2, <2>1, ClientOrder, KernelOrder, ServerOrder DEF Next
  <1> QED
    BY <1>1, <1>2

\* Who has taken each request.
Taker ==
    [r \in 1 .. MaxReqs |->
        IF r > reqs THEN "unsent"
        ELSE IF r \in answered \cap delivered THEN "both"
        ELSE IF r \in answered THEN "kernel"
        ELSE IF r \in delivered THEN "server" ELSE "nobody"]

\* What the invariants say of the requests one by one.
LEMMA TakerIs ==
    ASSUME TypeInv, OrderInv
    PROVE  /\ reqs \in 0 .. MaxReqs /\ answered \cap delivered = {}
           /\ \A r \in answered \cup delivered : r \in 1 .. reqs
           /\ \A r \in 1 .. MaxReqs :
                 Taker[r] = IF r > reqs THEN "unsent"
                            ELSE IF r \in answered THEN "kernel"
                            ELSE IF r \in delivered THEN "server" ELSE "nobody"
  <1>1. reqs \in 0 .. MaxReqs
    BY DEF TypeInv, ClientInv
  <1>2. answered \cap delivered = {}
    BY DEF OrderInv
  <1>3. \A r \in answered \cup delivered : r \in 1 .. reqs
    BY TakenWasSent DEF Taken
  <1> QED
    BY <1>1, <1>2, <1>3 DEF Taker

\* One entry changes.
LEMMA TakerStep ==
    ASSUME NEW r \in 1 .. MaxReqs, NEW v, Taker'[r] = v,
           \A q \in 1 .. MaxReqs : q # r => Taker'[q] = Taker[q]
    PROVE  Taker' = [Taker EXCEPT ![r] = v]
  BY DEF Taker

\* Every step of the connection takes a request as Dispatch allows, or none.
LEMMA StepDispatches ==
    ASSUME TypeInv, OrderInv, TypeInv', OrderInv', [Next]_vars
    PROVE  [Taking!Next]_Taker
  <1>a. /\ reqs \in 0 .. MaxReqs /\ reqs' \in 0 .. MaxReqs /\ MaxReqs \in Nat
        /\ \A r \in answered \cup delivered : r \in 1 .. reqs
    BY TakerIs DEF TypeInv, ClientInv
  <1>b. \A r \in 1 .. MaxReqs :
           Taker[r] = IF r > reqs THEN "unsent"
                      ELSE IF r \in answered THEN "kernel"
                      ELSE IF r \in delivered THEN "server" ELSE "nobody"
    BY TakerIs
  <1>c. \A r \in 1 .. MaxReqs :
           Taker'[r] = IF r > reqs' THEN "unsent"
                       ELSE IF r \in answered' THEN "kernel"
                       ELSE IF r \in delivered' THEN "server" ELSE "nobody"
    <2>1. answered' \cap delivered' = {}
      BY DEF OrderInv
    <2> QED
      BY <2>1 DEF Taker
  <1>1. CASE UNCHANGED <<reqs, answered, delivered>>
    <2>1. Taker' = Taker
      BY <1>1 DEF Taker
    <2> QED
      BY <2>1
  <1>2. CASE reqs' = reqs + 1 /\ UNCHANGED <<answered, delivered>>
    <2>1. reqs + 1 \in 1 .. MaxReqs
      BY <1>2, <1>a
    <2>2. PICK r \in 1 .. MaxReqs : r = reqs + 1
      BY <2>1
    <2>3. r \notin answered \cup delivered
      BY <1>a, <2>2
    <2>4. Taker[r] = "unsent" /\ Taker'[r] = "nobody"
      <3>1. r > reqs /\ ~(r > reqs')
        BY <1>2, <1>a, <2>2
      <3> QED
        BY <1>2, <1>b, <1>c, <2>3, <3>1
    <2>5. \A q \in 1 .. MaxReqs : q # r => Taker'[q] = Taker[q]
      <3>1. \A q \in 1 .. MaxReqs : q # r => (q > reqs <=> q > reqs')
        BY <1>2, <1>a, <2>2
      <3> QED
        BY <1>2, <1>b, <1>c, <3>1
    <2>6. \A q \in 1 .. r - 1 : Taker[q] # "unsent"
      <3>1. \A q \in 1 .. r - 1 : q \in 1 .. MaxReqs /\ ~(q > reqs)
        BY <1>a, <2>2
      <3> QED
        BY <1>b, <3>1
    <2>7. Taker' = [Taker EXCEPT ![r] = "nobody"]
      BY <2>4, <2>5, TakerStep
    <2>8. Taking!Send(r)
      BY <2>4, <2>6, <2>7 DEF Taking!Send, Taker
    <2> QED
      BY <2>8 DEF Taking!Next, Taking!Reqs, Taker
  <1>3. ASSUME NEW r \in 1 .. reqs, r \notin Taken, answered' = answered \cup {r},
               UNCHANGED <<delivered, reqs>>
        PROVE  [Taking!Next]_Taker
    <2>1. r \in 1 .. MaxReqs /\ r \notin answered /\ r \notin delivered
      BY <1>3, <1>a DEF Taken
    <2>2. Taker[r] = "nobody" /\ Taker'[r] = "kernel"
      <3>1. ~(r > reqs) /\ ~(r > reqs')
        BY <1>3, <1>a
      <3> QED
        BY <1>3, <1>b, <1>c, <2>1, <3>1
    <2>3. \A q \in 1 .. MaxReqs : q # r => Taker'[q] = Taker[q]
      BY <1>3, <1>b, <1>c
    <2>4. Taker' = [Taker EXCEPT ![r] = "kernel"]
      BY <2>1, <2>2, <2>3, TakerStep
    <2>5. Taking!Kernel(r)
      BY <2>2, <2>4 DEF Taking!Kernel, Taker
    <2> QED
      BY <2>1, <2>5 DEF Taking!Next, Taking!Reqs, Taker
  <1>4. ASSUME NEW r \in 1 .. reqs, InTurn(Taken, r), delivered' = delivered \cup {r},
               UNCHANGED <<answered, reqs>>
        PROVE  [Taking!Next]_Taker
    <2>1. /\ r \in 1 .. MaxReqs /\ r \notin answered /\ r \notin delivered
          /\ \A q \in 1 .. r - 1 : q \in answered \/ q \in delivered
      BY <1>4, <1>a DEF Taken, InTurn
    <2>2. Taker[r] = "nobody" /\ Taker'[r] = "server"
      <3>1. ~(r > reqs) /\ ~(r > reqs')
        BY <1>4, <1>a
      <3> QED
        BY <1>4, <1>b, <1>c, <2>1, <3>1
    <2>3. \A q \in 1 .. MaxReqs : q # r => Taker'[q] = Taker[q]
      BY <1>4, <1>b, <1>c
    <2>4. Taker' = [Taker EXCEPT ![r] = "server"]
      BY <2>1, <2>2, <2>3, TakerStep
    <2>5. \A q \in 1 .. r - 1 : Taker[q] # "nobody"
      <3>1. \A q \in 1 .. r - 1 : q \in 1 .. MaxReqs /\ (q \in answered \/ q \in delivered)
        BY <1>4, <1>a, <2>1
      <3> QED
        BY <1>b, <3>1
    <2>6. Taking!Server(r)
      BY <2>2, <2>4, <2>5 DEF Taking!Server, Taker
    <2> QED
      BY <2>1, <2>6 DEF Taking!Next, Taking!Reqs, Taker
  <1>5. CASE Client
    BY <1>1, <1>2, <1>5, ClientOrder
  <1>6. CASE Kernel
    BY <1>1, <1>3, <1>6, KernelOrder
  <1>7. CASE Server
    BY <1>1, <1>4, <1>7, ServerOrder
  <1>8. CASE UNCHANGED vars
    BY <1>1, <1>8 DEF vars, fastVars, userVars, codecVars, clientVars
  <1> QED
    BY <1>5, <1>6, <1>7, <1>8 DEF Next

\* The fast path and user space implement Dispatch: however messages are cut, held
\* back, bundled or dropped, no request is taken by both or twice, and the server
\* decodes its share in the order the client sent it.
THEOREM TakesEachRequestOnce == Spec => Dispatches
  <1>1. Init => Taking!Init
    <2> SUFFICES ASSUME Init PROVE Taker = [r \in 1 .. MaxReqs |-> "unsent"]
      BY DEF Taking!Init, Taking!Reqs, Taker
    <2>1. reqs = 0
      BY DEF Init
    <2> QED
      BY <2>1 DEF Taker
  <1>2. TypeInv /\ OrderInv /\ TypeInv' /\ OrderInv' /\ [Next]_vars => [Taking!Next]_Taker
    BY StepDispatches
  <1> QED
    BY <1>1, <1>2, TypeInvHolds, OrderInvHolds, PTL DEF Spec, Dispatches, Taking!Spec, Taker

-----------------------------------------------------------------------------
(* What is answered with *)

\* A request more is a response more.
LEMMA ResponsesCount ==
    ASSUME TypeInv, OrderInv
    PROVE  /\ FastSent \in Nat
           /\ \A r \in 1 .. reqs :
                 r \notin Taken /\ answered' = answered \cup {r} => FastSent' = FastSent + RouteLen
  <1>1. reqs \in Nat /\ answered \subseteq 1 .. reqs
    BY OrderTypes, TakenWasSent DEF Taken
  <1>2. IsFiniteSet(1 .. reqs)
    BY <1>1, FS_Interval
  <1>3. IsFiniteSet(answered)
    BY <1>1, <1>2, FS_Subset
  <1>4. PICK c : c = Cardinality(answered)
    OBVIOUS
  <1>5. c \in Nat
    BY <1>3, <1>4, FS_CardinalityType
  <1>6. FastSent = RouteLen * c
    BY <1>4 DEF FastSent
  <1>7. FastSent \in Nat
    BY <1>5, <1>6
  <1>8. ASSUME NEW r \in 1 .. reqs, r \notin Taken, answered' = answered \cup {r}
        PROVE  FastSent' = FastSent + RouteLen
    <2>1. r \notin answered
      BY <1>8 DEF Taken
    <2>2. Cardinality(answered \cup {r}) = Cardinality(answered) + 1
      BY <1>3, <2>1, FS_AddElement
    <2>3. Cardinality(answered') = c + 1
      BY <1>4, <1>8, <2>2
    <2>4. FastSent' = RouteLen * (c + 1)
      BY <2>3 DEF FastSent
    <2>5. RouteLen * (c + 1) = RouteLen * c + RouteLen
      BY <1>5
    <2> QED
      BY <1>6, <2>4, <2>5
  <1> QED
    BY <1>7, <1>8

-----------------------------------------------------------------------------
(* What frames weigh on their way *)

\* One frame weighs what it weighs.
LEMMA WeightOne ==
    ASSUME NEW w \in [Frame -> Nat], NEW f \in Frame
    PROVE  Weight(w, <<f>>) = w[f] /\ w[f] \in Nat
  <1>1. PICK p : p = <<>>
    OBVIOUS
  <1>2. p \in Seq(Frame) /\ <<f>> = Append(p, f) /\ Weight(w, p) = 0
    BY <1>1, WeightStep
  <1>3. Weight(w, Append(p, f)) = Weight(w, p) + w[f]
    BY <1>2, WeightStep
  <1>4. w[f] \in Nat
    OBVIOUS
  <1>5. Weight(w, <<f>>) = 0 + w[f]
    BY <1>2, <1>3
  <1> QED
    BY <1>4, <1>5

\* Frames of no weight weigh nothing together.
LEMMA WeightNone ==
    ASSUME NEW w \in [Frame -> Nat], NEW q \in Seq(Frame), \A i \in 1 .. Len(q) : w[q[i]] = 0
    PROVE  Weight(w, q) = 0
  <1> DEFINE None(s) == \A i \in 1 .. Len(s) : w[s[i]] = 0
             S == {s \in Seq(Frame) : None(s) => Weight(w, s) = 0}
  <1>1. <<>> \in S
    <2>1. <<>> \in Seq(Frame) /\ Weight(w, <<>>) = 0
      BY WeightStep
    <2> QED
      BY <2>1
  <1>2. ASSUME NEW s \in Seq(Frame), NEW f \in Frame, s \in S PROVE Append(s, f) \in S
    <2>1. PICK a : a = Append(s, f)
      OBVIOUS
    <2>2. PICK n : n = Len(s)
      OBVIOUS
    <2>3. /\ n \in Nat /\ a \in Seq(Frame) /\ Len(a) = n + 1 /\ a[n + 1] = f
          /\ \A i \in 1 .. n : a[i] = s[i]
      BY <2>1, <2>2
    <2>4. None(a) => None(s) /\ w[f] = 0
      BY <2>2, <2>3
    <2>5. Weight(w, a) = Weight(w, s) + w[f]
      BY <2>1, WeightStep
    <2>6. None(a) => Weight(w, a) = 0
      <3>1. None(s) => Weight(w, s) = 0
        BY <1>2
      <3> HIDE DEF None
      <3> QED
        BY <2>4, <2>5, <3>1
    <2> QED
      BY <2>1, <2>3, <2>6
  <1> HIDE DEF S
  <1>3. q \in S
    BY <1>1, <1>2, SeqInd
  <1> QED
    BY <1>3 DEF S

\* The client's frames and the updates report nothing, updates and reports give no
\* window.
LEMMA NoWeight ==
    /\ \A q \in Seq(ClientFrame) : q \in Seq(Frame) /\ Weight(Snt, q) = 0
    /\ \A f \in Frame : /\ f.type # "fc_sync" => Snt[f] = 0
                        /\ f.type # "window_update" => Inc[f] = 0
                        /\ f.type = "window_update" => Inc[f] = f.inc
                        /\ f.type = "fc_sync" => Snt[f] = f.sent
  <1>1. \A f \in Frame : /\ f.type # "fc_sync" => Snt[f] = 0
                         /\ f.type # "window_update" => Inc[f] = 0
                         /\ f.type = "window_update" => Inc[f] = f.inc
                         /\ f.type = "fc_sync" => Snt[f] = f.sent
    BY DEF Snt, Inc
  <1>2. ASSUME NEW q \in Seq(ClientFrame) PROVE q \in Seq(Frame) /\ Weight(Snt, q) = 0
    <2>1. q \in Seq(Frame)
      BY ClientFramesWait
    <2>2. ASSUME NEW i \in 1 .. Len(q) PROVE Snt[q[i]] = 0
      <3>1. q[i] \in ClientFrame /\ q[i] \in Frame
        BY DEF Frame
      <3>2. q[i].type # "fc_sync"
        BY <3>1, WhoseFrame
      <3> QED
        BY <1>1, <3>1, <3>2
    <2> QED
      BY <2>1, <2>2, WeightNone, AreWeights
  <1> QED
    BY <1>1, <1>2

\* What leaves takes its weight with it.
LEMMA LeavesWeight ==
    ASSUME NEW w \in [Frame -> Nat], NEW q, Leaves(q)
    PROVE  /\ Weight(w, Unseen) = Weight(w, q) + Weight(w, Unseen')
           /\ q \in Seq(Frame) /\ Weight(w, q) \in Nat /\ Weight(w, Unseen') \in Nat
  <1>1. PICK r : r = Unseen'
    OBVIOUS
  <1>2. q \in Seq(Frame) /\ r \in Seq(Frame)
    BY <1>1, ClientFramesWait DEF Leaves
  <1>3. Weight(w, q \o r) = Weight(w, q) + Weight(w, r)
    BY <1>2, WeightConcat
  <1>4. Weight(w, q) \in Nat /\ Weight(w, r) \in Nat
    BY <1>2, WeightStep
  <1> QED
    BY <1>1, <1>2, <1>3, <1>4 DEF Leaves

\* What is added to the pipe adds its weight.
LEMMA PipeWeight ==
    ASSUME NEW w \in [Frame -> Nat], TypeInv, NEW q \in Seq(Frame), Pipe' = Pipe \o q
    PROVE  /\ Weight(w, Pipe') = Weight(w, Pipe) + Weight(w, q)
           /\ Weight(w, q) \in Nat
  <1>1. PICK p : p = Pipe
    OBVIOUS
  <1>2. p \in Seq(Frame)
    BY <1>1, PipeTypes
  <1>3. Weight(w, p \o q) = Weight(w, p) + Weight(w, q)
    BY <1>2, WeightConcat
  <1>4. Weight(w, q) \in Nat
    BY WeightStep
  <1> QED
    BY <1>1, <1>3, <1>4

\* What leaves the pipe takes its weight with it.
LEMMA FirstWeight ==
    ASSUME NEW w \in [Frame -> Nat], NEW f, First(f)
    PROVE  Weight(w, Pipe) = w[f] + Weight(w, Pipe') /\ w[f] \in Nat
  <1>1. PICK r : r = Pipe'
    OBVIOUS
  <1>2. PICK q : q = <<f>>
    OBVIOUS
  <1>3. f \in Frame /\ q \in Seq(Frame) /\ r \in Seq(Frame) /\ Pipe = q \o r
    BY <1>1, <1>2 DEF First
  <1>4. Weight(w, q \o r) = Weight(w, q) + Weight(w, r)
    BY <1>3, WeightConcat
  <1>5. Weight(w, q) = w[f] /\ w[f] \in Nat
    BY <1>2, <1>3, WeightOne
  <1> QED
    BY <1>1, <1>3, <1>4, <1>5

\* A message weighs what the frame that tells something weighs.
LEMMA MessageWeight ==
    ASSUME TypeInv, NEW fs, NEW f, Message(fs, f), Tells(f), Unseen' = Unseen \o fs
    PROVE  granted' - granted \in Nat
           /\ Weight(Inc, Unseen') = Weight(Inc, Unseen) + (granted' - granted)
  <1>1. f \in Frame /\ fs \in Seq(Frame) /\ Inc \in [Frame -> Nat] /\ granted \in Nat
    BY ClientFramesWait, AreWeights DEF Message, Frame, TypeInv, ClientInv
  <1>2. Weight(Inc, fs) = Inc[f] /\ Inc[f] \in Nat
    <2>1. CASE fs = <<f>>
      BY <1>1, <2>1, WeightOne
    <2>2. CASE fs # <<f>>
      <3>1. PICK p \in ClientFrame : p.type = "preface" /\ fs = <<p, f>>
        BY <2>2 DEF Message
      <3>2. PICK q : q = <<p>>
        OBVIOUS
      <3>3. p \in Frame /\ q \in Seq(Frame) /\ fs = Append(q, f)
        BY <3>1, <3>2 DEF Frame
      <3>4. Weight(Inc, Append(q, f)) = Weight(Inc, q) + Inc[f] /\ Inc[f] \in Nat
        BY <1>1, <3>3, WeightStep
      <3>5. Weight(Inc, q) = 0
        <4>1. Weight(Inc, q) = Inc[p]
          BY <1>1, <3>2, <3>3, WeightOne
        <4>2. Inc[p] = 0
          BY <3>1, <3>3, NoWeight
        <4> QED
          BY <4>1, <4>2
      <3> QED
        BY <3>3, <3>4, <3>5
    <2> QED
      BY <2>1, <2>2
  <1>3. granted' = granted + Inc[f]
    <2>1. CASE f.type = "window_update"
      BY <1>1, <2>1, NoWeight DEF Tells
    <2>2. CASE f.type # "window_update"
      <3>1. granted' = granted
        BY <2>2 DEF Tells
      <3>2. Inc[f] = 0
        BY <1>1, <2>2, NoWeight
      <3> QED
        BY <1>1, <3>1, <3>2
    <2> QED
      BY <2>1, <2>2
  <1>4. Weight(Inc, Unseen') = Weight(Inc, Unseen) + Weight(Inc, fs)
    <2>1. PICK u : u = Unseen
      OBVIOUS
    <2>2. u \in Seq(Frame)
      BY <2>1, PipeTypes
    <2>3. Weight(Inc, u \o fs) = Weight(Inc, u) + Weight(Inc, fs)
      BY <1>1, <2>2, WeightConcat
    <2> QED
      BY <2>1, <2>3
  <1> QED
    BY <1>1, <1>2, <1>3, <1>4

-----------------------------------------------------------------------------
(* The window as the fast path has it *)

\* The window the fast path believes in, which it starts with at the preface.
Believed == IF h2_state = 0 THEN InitWindow ELSE flow_ctl.conn_window

\* WindowBounded is not inductive: before the preface there is no window to bound.
WindowInv ==
    ~left /\ ~down => Believed + Weight(Inc, Unseen) <= InitWindow + granted - FastSent

\* The numbers are numbers.
LEMMA Numbers ==
    ASSUME TypeInv
    PROVE  /\ Inc \in [Frame -> Nat] /\ Snt \in [Frame -> Nat]
           /\ granted \in Nat /\ srv_sent \in Nat /\ sent \in Nat /\ capacity \in Int
           /\ flow_ctl \in FlowCtl
           /\ flow_ctl.conn_window \in Int /\ flow_ctl.unreported \in Nat /\ Believed \in Int
           /\ Weight(Inc, Unseen) \in Nat /\ Weight(Inc, Pipe) \in Nat /\ Weight(Snt, Pipe) \in Nat
  <1>1. /\ granted \in Nat /\ srv_sent \in Nat /\ sent \in Nat /\ capacity \in Int
        /\ flow_ctl \in FlowCtl
    BY DEF TypeInv, ClientInv, UserInv, FastInv
  <1>2. flow_ctl.conn_window \in Int /\ flow_ctl.unreported \in Nat
    BY <1>1 DEF FlowCtl
  <1>3. Believed \in Int
    BY <1>2 DEF Believed
  <1>4. Weight(Inc, Unseen) \in Nat /\ Weight(Inc, Pipe) \in Nat /\ Weight(Snt, Pipe) \in Nat
    BY PipeTypes, WeightStep, AreWeights
  <1> QED
    BY <1>1, <1>2, <1>3, <1>4, AreWeights

\* What the program has not seen it does not believe in yet.
LEMMA KernelWindow ==
    ASSUME TypeInv, OrderInv, WindowInv, Kernel
    PROVE  WindowInv'
  <1>1. granted' = granted
    BY DEF Kernel, clientVars
  <1>2. FastSent \in Nat
    BY ResponsesCount
  <1>3. UNCHANGED answered => FastSent' = FastSent
    BY DEF FastSent
  <1>4. CASE Upgrade
    <2>1. PICK q : PassesOn(q)
      BY <1>4, KernelPipe DEF Answers, GivesUp, Forwards, PassesOn, Upgrade, Serve, ServeFails,
                              SyncFails, Forward, RunsOn
    <2>2. PICK h : h = Head(Cur)
      OBVIOUS
    <2>3. q = <<h>> /\ h.type = "preface" /\ Leaves(q) /\ h \in Frame
      BY <1>4, <2>1, <2>2, InFront DEF PassesOn, Upgrade, Frame
    <2>4. /\ h2_state = 0 /\ h2_state' # 0 /\ flow_ctl'.conn_window = InitWindow
          /\ ~left /\ ~down /\ answered' = answered
      BY <1>4 DEF Upgrade, RunsOn, H2_UPGRADED
    <2>5. Weight(Inc, q) = 0
      <3>1. Weight(Inc, <<h>>) = Inc[h] /\ Inc[h] = 0
        BY <2>3, Numbers, WeightOne, NoWeight
      <3> QED
        BY <2>3, <3>1
    <2>6. Weight(Inc, Unseen') = Weight(Inc, Unseen)
      <3>1. Weight(Inc, Unseen) = Weight(Inc, q) + Weight(Inc, Unseen') /\ Weight(Inc, Unseen') \in Nat
        BY <2>3, Numbers, LeavesWeight
      <3> QED
        BY <2>5, <3>1
    <2>7. Believed' = InitWindow /\ Believed = InitWindow
      BY <2>4 DEF Believed
    <2>8. FastSent' = FastSent
      BY <1>3, <2>4
    <2> QED
      BY <1>1, <2>4, <2>6, <2>7, <2>8 DEF WindowInv
  <1>5. CASE LeaveToUserSpace \/ PassOn
    BY <1>5 DEF WindowInv, LeaveToUserSpace, PassOn, fastVars
  <1>6. CASE ServeFails \/ SyncFails
    BY <1>6 DEF WindowInv, ServeFails, SyncFails
  <1>7. CASE Serve
    <2>1. RunsOn({"headers"}) /\ msg' = Tail(Cur) /\ flow_ctl' = Spend(flow_ctl)
          /\ h2_state = H2_HANDSHAKED /\ UNCHANGED <<h2_state, left, down>>
      BY <1>7 DEF Serve, TakeRequest, CanServe
    <2>2. PICK h : h = Head(Cur)
      OBVIOUS
    <2>3. h \in Frame /\ h.type = "headers" /\ Leaves(<<h>>)
      BY <2>1, <2>2, InFront, RunsLeaves DEF Frame
    <2>4. Weight(Inc, Unseen) = Inc[h] + Weight(Inc, Unseen') /\ Weight(Inc, Unseen') \in Nat
      <3>1. /\ Weight(Inc, Unseen) = Weight(Inc, <<h>>) + Weight(Inc, Unseen')
            /\ Weight(Inc, Unseen') \in Nat
        BY <2>3, Numbers, LeavesWeight
      <3>2. Weight(Inc, <<h>>) = Inc[h]
        BY <2>3, Numbers, WeightOne
      <3> QED
        BY <3>1, <3>2
    <2>5. Inc[h] = 0
      BY <2>3, NoWeight
    <2>6. flow_ctl'.conn_window = flow_ctl.conn_window - RouteLen
      BY <2>1, Numbers DEF Spend, FlowCtl
    <2>7. Believed' = Believed - RouteLen
      BY <2>1, <2>6 DEF Believed, H2_HANDSHAKED
    <2>8. FastSent' = FastSent + RouteLen
      <3>1. Answers
        <4>1. Pipe' = Pipe
          BY <1>7 DEF Serve, Kernel, userVars, scanVars, codecVars, Pipe, Update
        <4> QED
          BY <1>7, <2>2, <2>3, <4>1 DEF Answers
      <3>2. \E r \in 1 .. reqs : r \notin Taken /\ answered' = answered \cup {r}
        BY <3>1, AnswerOrder
      <3> QED
        BY <3>2, ResponsesCount
    <2>9. Believed + Weight(Inc, Unseen) <= InitWindow + granted - FastSent
      BY <2>1 DEF WindowInv, RunsOn
    <2>10. Believed' + Weight(Inc, Unseen') <= InitWindow + granted' - FastSent'
      BY <1>1, <1>2, <2>4, <2>5, <2>7, <2>8, <2>9, Numbers
    <2> QED
      BY <2>10 DEF WindowInv
  <1>8. CASE Forward
    <2>1. PICK report : Forwards(report)
      BY <1>8, ForwardPipe
    <2>2. /\ Leaves(Cur) /\ Cur \in Seq(ClientFrame)
          /\ flow_ctl' = Report(Track(Cur, flow_ctl), report)
      BY <2>1 DEF Forwards
    <2>3. /\ ~left /\ ~down /\ h2_state # 0 /\ h2_state' # 0 /\ answered' = answered
      BY <1>8 DEF Forward, RunsOn, Handshaked, H2_HANDSHAKED
    <2>4. PICK fc : fc = Track(Cur, flow_ctl)
      OBVIOUS
    <2>5. fc \in FlowCtl /\ fc.conn_window <= flow_ctl.conn_window + Weight(Inc, Cur)
      BY <2>2, <2>4, Numbers, TrackAll
    <2>6. flow_ctl'.conn_window = fc.conn_window /\ fc.conn_window \in Int
      BY <2>2, <2>4, <2>5 DEF Report, FlowCtl
    <2>7. /\ Weight(Inc, Unseen) = Weight(Inc, Cur) + Weight(Inc, Unseen')
          /\ Weight(Inc, Cur) \in Nat /\ Weight(Inc, Unseen') \in Nat
      BY <2>2, Numbers, LeavesWeight
    <2>8. Believed' = fc.conn_window /\ Believed = flow_ctl.conn_window
      BY <2>3, <2>6 DEF Believed
    <2>9. FastSent' = FastSent
      BY <1>3, <2>3
    <2> QED
      BY <1>1, <1>2, <2>3, <2>5, <2>6, <2>7, <2>8, <2>9, Numbers DEF WindowInv
  <1> QED
    BY <1>4, <1>5, <1>6, <1>7, <1>8 DEF Kernel, Verdict, Mishap

\* The bound holds at the start and every step keeps it.
LEMMA WindowInvHolds ==
    /\ Init => WindowInv
    /\ TypeInv /\ OrderInv /\ WindowInv /\ [Next]_vars => WindowInv'
  <1>1. ASSUME Init PROVE WindowInv
    <2>1. answered = {} /\ msgs = <<>> /\ msg = <<>> /\ h2_state = 0 /\ granted = 0
      BY <1>1 DEF Init, FastInit
    <2>2. Unseen = <<>>
      BY <2>1, FlattenEmpty DEF Unseen
    <2>3. Weight(Inc, Unseen) = 0
      BY <2>2, WeightStep, AreWeights
    <2>4. FastSent = 0
      BY <2>1, FS_EmptySet DEF FastSent
    <2>5. Believed = InitWindow
      BY <2>1 DEF Believed
    <2> QED
      BY <2>1, <2>3, <2>4, <2>5 DEF WindowInv
  <1>2. ASSUME TypeInv, OrderInv, WindowInv, Client PROVE WindowInv'
    <2>1. UNCHANGED <<left, down, h2_state, flow_ctl, answered>>
      BY <1>2, ClientSends DEF fastVars
    <2>2. Believed' = Believed /\ FastSent' = FastSent
      BY <2>1 DEF Believed, FastSent
    <2>3. PICK fs, f : Message(fs, f) /\ Tells(f) /\ Unseen' = Unseen \o fs
      BY <1>2, ClientSends
    <2>4. /\ granted' - granted \in Nat
          /\ Weight(Inc, Unseen') = Weight(Inc, Unseen) + (granted' - granted)
      BY <1>2, <2>3, MessageWeight
    <2>5. granted' \in Nat
      <3>1. TypeInv'
        BY <1>2, TypeInvHolds DEF Next
      <3> QED
        BY <3>1 DEF TypeInv, ClientInv
    <2>6. FastSent \in Nat
      BY <1>2, ResponsesCount
    <2> QED
      BY <1>2, <2>1, <2>2, <2>4, <2>5, <2>6, Numbers DEF WindowInv
  <1>3. ASSUME WindowInv, Server PROVE WindowInv'
    BY <1>3 DEF Server, fastVars, clientVars, WindowInv, Believed, FastSent, Unseen
  <1>4. ASSUME WindowInv, UNCHANGED vars PROVE WindowInv'
    BY <1>4 DEF vars, fastVars, clientVars, WindowInv, Believed, FastSent, Unseen
  <1> QED
    BY <1>1, <1>2, <1>3, <1>4, KernelWindow DEF Next

\* The fast path never believes the client's window larger than it is by more than
\* the bytes the server has sent, with the updates it has not seen counted in: it
\* cannot overrun the client but by what user space sent behind its back.
THEOREM WindowIsBounded == Spec => []WindowBounded
  <1>1. TypeInv /\ OrderInv /\ WindowInv => WindowBounded
    <2> SUFFICES ASSUME TypeInv, OrderInv, WindowInv, ~left, ~down, h2_state # 0
                 PROVE  flow_ctl.conn_window + Grants(Unseen) <= ClientWindow + srv_sent
      BY DEF WindowBounded
    <2>1. Grants(Unseen) = Weight(Inc, Unseen)
      BY PipeTypes, AreWeights
    <2>2. Believed = flow_ctl.conn_window
      BY DEF Believed
    <2>3. FastSent \in Nat
      BY ResponsesCount
    <2> QED
      BY <2>1, <2>2, <2>3, Numbers DEF WindowInv, ClientWindow
  <1> QED
    BY <1>1, TypeInvHolds, OrderInvHolds, WindowInvHolds, PTL DEF Spec

-----------------------------------------------------------------------------
(* The accounts of the window *)

\* What the codec will have once it has read all that is on its way, reports taken.
Due == flow_ctl.unreported + Weight(Snt, Pipe) + sent
Account == capacity + Weight(Inc, Pipe) + Weight(Inc, Unseen) - Due

\* AccountsBalance is not inductive: it has to be known that nothing is owed before
\* the preface, which starts the fast path's count afresh.
AccountsInv ==
    /\ ~down => Account = InitWindow + granted - FastSent - srv_sent
    /\ h2_state = 0 => flow_ctl.unreported = 0

\* A step of the client adds what it grants.
LEMMA ClientAccounts ==
    ASSUME TypeInv, OrderInv, AccountsInv, Client
    PROVE  AccountsInv'
  <1>1. UNCHANGED <<down, h2_state, flow_ctl, answered, capacity, srv_sent, sent>> /\ Pipe' = Pipe
    BY ClientSends DEF fastVars, userVars, scanVars, codecVars
  <1>2. FastSent' = FastSent
    BY <1>1 DEF FastSent
  <1>3. PICK fs, f : Message(fs, f) /\ Tells(f) /\ Unseen' = Unseen \o fs
    BY ClientSends
  <1>4. /\ granted' - granted \in Nat
        /\ Weight(Inc, Unseen') = Weight(Inc, Unseen) + (granted' - granted)
    BY <1>3, MessageWeight
  <1>5. granted' \in Nat
    <2>1. TypeInv'
      BY TypeInvHolds DEF Next
    <2> QED
      BY <2>1 DEF TypeInv, ClientInv
  <1>6. FastSent \in Nat
    BY ResponsesCount
  <1>7. Due' = Due /\ Due \in Nat
    BY <1>1, Numbers DEF Due
  <1>8. Account' = Account + (granted' - granted) /\ Account \in Int
    BY <1>1, <1>4, <1>5, <1>7, Numbers DEF Account
  <1> QED
    BY <1>1, <1>2, <1>5, <1>6, <1>8, Numbers DEF AccountsInv

\* What the program hands over is on its way still.
LEMMA PassesOnAccounts ==
    ASSUME TypeInv, OrderInv, AccountsInv, Kernel, NEW q, PassesOn(q)
    PROVE  AccountsInv'
  <1>1. UNCHANGED <<granted, capacity, srv_sent, sent>>
    BY DEF Kernel, userVars, scanVars, codecVars, clientVars
  <1>2. UNCHANGED <<answered, down>>
    BY DEF PassesOn, Upgrade, LeaveToUserSpace, PassOn, fastVars
  <1>3. FastSent' = FastSent
    BY <1>2 DEF FastSent
  <1>4. Leaves(q) /\ Pipe' = Pipe \o q
    BY DEF PassesOn
  <1>5. q \in Seq(Frame) /\ Weight(Snt, q) = 0
    BY <1>4, NoWeight DEF Leaves
  <1>6. /\ Weight(Inc, Unseen) = Weight(Inc, q) + Weight(Inc, Unseen')
        /\ Weight(Inc, q) \in Nat /\ Weight(Inc, Unseen') \in Nat
    BY <1>4, Numbers, LeavesWeight
  <1>7. Weight(Inc, Pipe') = Weight(Inc, Pipe) + Weight(Inc, q)
    BY <1>4, <1>5, Numbers, PipeWeight
  <1>8. Weight(Snt, Pipe') = Weight(Snt, Pipe)
    <2>1. Weight(Snt, Pipe') = Weight(Snt, Pipe) + Weight(Snt, q)
      BY <1>4, <1>5, Numbers, PipeWeight
    <2> QED
      BY <1>5, <2>1, Numbers
  <1>9. /\ flow_ctl'.unreported = flow_ctl.unreported
        /\ h2_state' = 0 => flow_ctl'.unreported = 0
    <2>1. CASE Upgrade
      BY <2>1 DEF Upgrade, AccountsInv, H2_UPGRADED
    <2>2. CASE LeaveToUserSpace \/ PassOn
      BY <2>2 DEF LeaveToUserSpace, PassOn, fastVars, AccountsInv
    <2> QED
      BY <2>1, <2>2 DEF PassesOn
  <1>10. Due' = Due /\ Due \in Nat
    BY <1>1, <1>8, <1>9, Numbers DEF Due
  <1>11. Account' = Account
    BY <1>1, <1>6, <1>7, <1>10, Numbers DEF Account
  <1> QED
    BY <1>1, <1>2, <1>3, <1>9, <1>11 DEF AccountsInv

\* What is answered with is owed to user space.
LEMMA AnswersAccounts ==
    ASSUME TypeInv, OrderInv, AccountsInv, Kernel, Answers
    PROVE  AccountsInv'
  <1>1. UNCHANGED <<granted, capacity, srv_sent, sent>>
    BY DEF Kernel, userVars, scanVars, codecVars, clientVars
  <1>2. /\ RunsOn({"headers"}) /\ flow_ctl' = Spend(flow_ctl) /\ ~down /\ UNCHANGED down
        /\ h2_state' # 0
    BY DEF Answers, Serve, RunsOn, CanServe, H2_HANDSHAKED
  <1>3. FastSent \in Nat /\ FastSent' = FastSent + RouteLen
    BY AnswerOrder, ResponsesCount
  <1>4. PICK h : h = Head(Cur)
    OBVIOUS
  <1>5. h \in Frame /\ h.type = "headers" /\ Leaves(<<h>>) /\ Pipe' = Pipe
    BY <1>2, <1>4, InFront DEF Frame, Answers
  <1>6. Weight(Inc, Unseen') = Weight(Inc, Unseen)
    <2>1. /\ Weight(Inc, Unseen) = Weight(Inc, <<h>>) + Weight(Inc, Unseen')
          /\ Weight(Inc, Unseen') \in Nat
      BY <1>5, Numbers, LeavesWeight
    <2>2. Weight(Inc, <<h>>) = Inc[h] /\ Inc[h] = 0
      BY <1>5, Numbers, WeightOne, NoWeight
    <2> QED
      BY <2>1, <2>2
  <1>7. flow_ctl'.unreported = flow_ctl.unreported + RouteLen
    BY <1>2, Numbers DEF Spend, FlowCtl
  <1>8. Due' = Due + RouteLen /\ Due \in Nat
    BY <1>1, <1>5, <1>7, Numbers DEF Due
  <1>9. Account' = Account - RouteLen /\ Account \in Int
    BY <1>1, <1>5, <1>6, <1>8, Numbers DEF Account
  <1>10. Account = InitWindow + granted - FastSent - srv_sent
    BY <1>2 DEF AccountsInv
  <1>11. Account' = InitWindow + granted' - FastSent' - srv_sent'
    BY <1>1, <1>3, <1>9, <1>10, Numbers
  <1> QED
    BY <1>2, <1>11 DEF AccountsInv

\* What is owed is reported in front of what is handed over, or stays owed.
LEMMA ForwardsAccounts ==
    ASSUME TypeInv, OrderInv, AccountsInv, Kernel, NEW report, Forwards(report)
    PROVE  AccountsInv'
  <1>1. UNCHANGED <<granted, capacity, srv_sent, sent>>
    BY DEF Kernel, userVars, scanVars, codecVars, clientVars
  <1>2. UNCHANGED <<answered, down>> /\ h2_state' # 0
    BY DEF Forwards, Forward, Handshaked, H2_HANDSHAKED
  <1>3. FastSent' = FastSent
    BY <1>2 DEF FastSent
  <1>4. PICK d : d = DtSync
    OBVIOUS
  <1>5. PICK c : c = Cur
    OBVIOUS
  <1>6. PICK rd : rd = report \o d
    OBVIOUS
  <1>7. PICK all : all = rd \o c
    OBVIOUS
  <1>8. /\ report \in Seq(Frame) /\ d \in Seq(Frame) /\ c \in Seq(ClientFrame) /\ c \in Seq(Frame)
        /\ Leaves(c)
    BY <1>4, <1>5, ClientFramesWait DEF Forwards
  <1>9. rd \in Seq(Frame) /\ all \in Seq(Frame) /\ Pipe' = Pipe \o all
    <2>1. rd \in Seq(Frame)
      BY <1>6, <1>8
    <2>2. all \in Seq(Frame)
      BY <1>7, <1>8, <2>1
    <2>3. Pipe' = Pipe \o all
      BY <1>4, <1>5, <1>6, <1>7 DEF Forwards
    <2> QED
      BY <2>1, <2>2, <2>3
  <1>10. ASSUME NEW w \in [Frame -> Nat]
         PROVE  /\ Weight(w, Pipe') = Weight(w, Pipe) + (Weight(w, report) + Weight(w, d) + Weight(w, c))
                /\ Weight(w, report) \in Nat /\ Weight(w, d) \in Nat /\ Weight(w, c) \in Nat
    <2>1. Weight(w, Pipe') = Weight(w, Pipe) + Weight(w, all)
      BY <1>9, PipeWeight
    <2>2. Weight(w, all) = Weight(w, rd) + Weight(w, c)
      BY <1>7, <1>8, <1>9, WeightConcat
    <2>3. Weight(w, rd) = Weight(w, report) + Weight(w, d)
      BY <1>6, <1>8, WeightConcat
    <2>4. Weight(w, report) \in Nat /\ Weight(w, d) \in Nat /\ Weight(w, c) \in Nat
      BY <1>8, WeightStep
    <2> QED
      BY <2>1, <2>2, <2>3, <2>4
  <1>11. Weight(Inc, d) = 0 /\ Weight(Snt, d) = 0
    <2>1. ASSUME NEW i \in 1 .. Len(d) PROVE Inc[d[i]] = 0 /\ Snt[d[i]] = 0
      <3>1. d[i] \in Frame
        BY <1>8
      <3>2. d[i].type = "dt_sync"
        BY <1>4 DEF DtSync, TableBefore
      <3> QED
        BY <3>1, <3>2, NoWeight
    <2>2. \A i \in 1 .. Len(d) : Inc[d[i]] = 0
      BY <2>1
    <2>3. \A i \in 1 .. Len(d) : Snt[d[i]] = 0
      BY <2>1
    <2>4. Weight(Inc, d) = 0
      BY <1>8, <2>2, Numbers, WeightNone
    <2>5. Weight(Snt, d) = 0
      BY <1>8, <2>3, Numbers, WeightNone
    <2> QED
      BY <2>4, <2>5
  <1>12. /\ Weight(Inc, report) = 0
         /\ flow_ctl'.unreported + Weight(Snt, report) = flow_ctl.unreported
    <2>1. PICK fc : fc = Track(Cur, flow_ctl)
      OBVIOUS
    <2>2. fc \in FlowCtl /\ fc.unreported = flow_ctl.unreported
      BY <1>5, <1>8, <2>1, Numbers, TrackAll
    <2>3. flow_ctl' = Report(fc, report) /\ report \in FcSync(flow_ctl.unreported)
      BY <2>1 DEF Forwards
    <2>4. CASE report = <<>>
      <3>1. flow_ctl' = fc
        BY <2>3, <2>4 DEF Report
      <3>2. Weight(Inc, report) = 0 /\ Weight(Snt, report) = 0
        BY <2>4, Numbers, WeightStep
      <3> QED
        BY <2>2, <3>1, <3>2, Numbers
    <2>5. CASE report # <<>>
      <3>1. PICK f : f = [type |-> "fc_sync", sent |-> flow_ctl.unreported]
        OBVIOUS
      <3>2. report = <<f>>
        BY <2>3, <2>5, <3>1 DEF FcSync
      <3>3. f \in Frame /\ f.type = "fc_sync" /\ f.sent = flow_ctl.unreported
        BY <3>1, Numbers DEF Frame, SyncFrame
      <3>4. Inc[f] = 0 /\ Snt[f] = flow_ctl.unreported
        BY <3>3, NoWeight
      <3>5. Weight(Inc, <<f>>) = Inc[f] /\ Weight(Snt, <<f>>) = Snt[f]
        BY <3>3, Numbers, WeightOne
      <3>6. flow_ctl'.unreported = 0
        BY <2>2, <2>3, <2>5 DEF Report, FlowCtl
      <3>7. Weight(Inc, report) = 0 /\ Weight(Snt, report) = flow_ctl.unreported
        BY <3>2, <3>4, <3>5
      <3> QED
        BY <3>6, <3>7, Numbers
    <2> QED
      BY <2>4, <2>5
  <1>13. Weight(Snt, c) = 0
    BY <1>8, NoWeight
  <1>14. Weight(Inc, Pipe') = Weight(Inc, Pipe) + Weight(Inc, c)
    BY <1>10, <1>11, <1>12, Numbers
  <1>15. Weight(Snt, Pipe') = Weight(Snt, Pipe) + Weight(Snt, report) /\ Weight(Snt, report) \in Nat
    BY <1>10, <1>11, <1>13, Numbers
  <1>16. /\ Weight(Inc, Unseen) = Weight(Inc, c) + Weight(Inc, Unseen')
         /\ Weight(Inc, c) \in Nat /\ Weight(Inc, Unseen') \in Nat
    BY <1>8, Numbers, LeavesWeight
  <1>17. flow_ctl'.unreported \in Nat
    <2>1. TypeInv'
      BY TypeInvHolds DEF Next
    <2>2. flow_ctl' \in FlowCtl
      BY <2>1 DEF TypeInv, FastInv
    <2> QED
      BY <2>2 DEF FlowCtl
  <1>18. Due' = Due /\ Due \in Nat
    BY <1>1, <1>12, <1>15, <1>17, Numbers DEF Due
  <1>19. Account' = Account
    BY <1>1, <1>14, <1>16, <1>18, Numbers DEF Account
  <1> QED
    BY <1>1, <1>2, <1>3, <1>19 DEF AccountsInv

\* A step of user space moves numbers from one account to another.
LEMMA ServerAccounts ==
    ASSUME TypeInv, OrderInv, AccountsInv, Server
    PROVE  AccountsInv'
  <1>1. UNCHANGED <<granted, answered, down, flow_ctl, h2_state, Unseen>>
    BY DEF Server, fastVars, clientVars, Unseen
  <1>2. /\ FastSent' = FastSent /\ FastSent \in Nat
        /\ granted' = granted /\ flow_ctl'.unreported = flow_ctl.unreported
        /\ Weight(Inc, Unseen') = Weight(Inc, Unseen)
    <2>1. FastSent' = FastSent /\ FastSent \in Nat
      BY <1>1, ResponsesCount DEF FastSent
    <2>2. granted' = granted /\ flow_ctl' = flow_ctl /\ Unseen' = Unseen
      BY <1>1
    <2> QED
      BY <2>1, <2>2
  <1>3. Account' + srv_sent' = Account + srv_sent /\ srv_sent' \in Nat => AccountsInv'
    <2>1. Account \in Int /\ Account' \in Int
      <3>1. TypeInv'
        BY TypeInvHolds DEF Next
      <3>2. /\ capacity' \in Int /\ sent' \in Nat
            /\ Pipe' \in Seq(Frame)
        <4>1. capacity' \in Int /\ sent' \in Nat
          BY <3>1 DEF TypeInv, UserInv
        <4>2. Pipe' \in Seq(Frame)
          <5>1. CASE Reread
            <6>1. PICK p, seen, r \in Seq(Frame) : Pipe' = (p \o Passed(seen)) \o r
              BY <5>1 DEF Reread
            <6>2. PICK x : x = Passed(seen)
              OBVIOUS
            <6>3. x \in Seq(Frame)
              BY <6>2, PassedStep
            <6> QED
              BY <6>1, <6>2, <6>3
          <5>2. CASE Take
            <6>1. PICK p, r \in Seq(Frame) : Pipe' = p \o r
              BY <5>2, TakePipe
            <6> QED
              BY <6>1
          <5> QED
            BY <5>1, <5>2, ServerPipe DEF First
        <4> QED
          BY <4>1, <4>2
      <3>3. Weight(Inc, Pipe') \in Nat /\ Weight(Snt, Pipe') \in Nat
        BY <3>2, Numbers, WeightStep
      <3>4. Due \in Nat
        BY Numbers DEF Due
      <3>5. Due' \in Nat
        <4>1. Due' = flow_ctl.unreported + Weight(Snt, Pipe') + sent'
          BY <1>2 DEF Due
        <4>2. flow_ctl.unreported \in Nat
          BY Numbers
        <4> QED
          BY <3>2, <3>3, <4>1, <4>2
      <3>6. Account \in Int
        BY <3>4, Numbers DEF Account
      <3>7. Account' = capacity' + Weight(Inc, Pipe') + Weight(Inc, Unseen) - Due'
        BY <1>2 DEF Account
      <3>8. Account' \in Int
        <4>1. Weight(Inc, Unseen) \in Nat
          BY Numbers
        <4> QED
          BY <3>2, <3>3, <3>5, <3>7, <4>1
      <3> QED
        BY <3>6, <3>8
    <2> QED
      BY <1>1, <1>2, <2>1, Numbers DEF AccountsInv
  <1>4. ASSUME Reread, \/ UNCHANGED <<capacity, srv_sent>>
                       \/ capacity' = capacity - 1 /\ srv_sent' = srv_sent + 1
        PROVE  AccountsInv'
    <2>1. PICK p, seen, r \in Seq(Frame) :
             /\ Pipe = (p \o seen) \o r /\ Pipe' = (p \o Passed(seen)) \o r
             /\ sent' = sent + Weight(Snt, seen)
      BY <1>4 DEF Reread
    <2>2. PICK x : x = Passed(seen)
      OBVIOUS
    <2>3. x \in Seq(Frame)
      BY <2>2, PassedStep
    <2>4. PICK ps : ps = p \o seen
      OBVIOUS
    <2>5. PICK px : px = p \o x
      OBVIOUS
    <2>6. ps \in Seq(Frame) /\ px \in Seq(Frame)
      BY <2>3, <2>4, <2>5
    <2>7. ASSUME NEW w \in [Frame -> Nat]
          PROVE  /\ Weight(w, Pipe) = Weight(w, p) + Weight(w, seen) + Weight(w, r)
                 /\ Weight(w, Pipe') = Weight(w, p) + Weight(w, x) + Weight(w, r)
                 /\ Weight(w, p) \in Nat /\ Weight(w, seen) \in Nat /\ Weight(w, r) \in Nat
                 /\ Weight(w, x) \in Nat
      <3>1. Weight(w, ps \o r) = Weight(w, ps) + Weight(w, r)
        BY <2>6, WeightConcat
      <3>2. Weight(w, px \o r) = Weight(w, px) + Weight(w, r)
        BY <2>6, WeightConcat
      <3>3. Weight(w, p \o seen) = Weight(w, p) + Weight(w, seen)
        BY WeightConcat
      <3>4. Weight(w, p \o x) = Weight(w, p) + Weight(w, x)
        BY <2>3, WeightConcat
      <3>5. /\ Weight(w, p) \in Nat /\ Weight(w, seen) \in Nat /\ Weight(w, r) \in Nat
            /\ Weight(w, x) \in Nat
        BY <2>3, WeightStep
      <3> QED
        BY <2>1, <2>2, <2>4, <2>5, <3>1, <3>2, <3>3, <3>4, <3>5
    <2>8. Weight(Inc, x) = Weight(Inc, seen) /\ Weight(Snt, x) = 0
      BY <2>2, PassedWeight
    <2>9. Weight(Inc, Pipe') = Weight(Inc, Pipe)
      BY <2>7, <2>8, Numbers
    <2>10. Weight(Snt, Pipe') + Weight(Snt, seen) = Weight(Snt, Pipe) /\ Weight(Snt, seen) \in Nat
      <3>1. Snt \in [Frame -> Nat]
        BY Numbers
      <3>2. PICK a, b, c \in Nat :
               a = Weight(Snt, p) /\ b = Weight(Snt, seen) /\ c = Weight(Snt, r)
        BY <2>7, <3>1
      <3>3. Weight(Snt, Pipe) = a + b + c
        BY <2>7, <3>1, <3>2
      <3>4. Weight(Snt, Pipe') = a + 0 + c
        BY <2>7, <2>8, <3>1, <3>2
      <3> QED
        BY <3>2, <3>3, <3>4
    <2>11. Weight(Snt, Pipe') \in Nat
      <3>1. Snt \in [Frame -> Nat]
        BY Numbers
      <3>2. /\ Weight(Snt, Pipe') = Weight(Snt, p) + Weight(Snt, x) + Weight(Snt, r)
            /\ Weight(Snt, p) \in Nat /\ Weight(Snt, x) \in Nat /\ Weight(Snt, r) \in Nat
        BY <2>7, <3>1
      <3> QED
        BY <3>2
    <2>12. Due' = Due /\ Due \in Nat
      <3>1. Due' = flow_ctl.unreported + Weight(Snt, Pipe') + sent'
        BY <1>2 DEF Due
      <3>2. sent' = sent + Weight(Snt, seen)
        BY <2>1
      <3>3. Due = flow_ctl.unreported + Weight(Snt, Pipe) + sent
        BY DEF Due
      <3>4. flow_ctl.unreported \in Nat /\ sent \in Nat /\ Weight(Snt, Pipe) \in Nat
        BY Numbers
      <3>5. Due \in Nat
        BY <3>3, <3>4
      <3>6. Weight(Snt, Pipe') + sent' = Weight(Snt, Pipe) + sent /\ sent' \in Nat
        BY <2>10, <2>11, <3>2, <3>4
      <3>7. Due' = Due
        <4>1. PICK o, w, v, x1, y \in Nat :
                 /\ o = flow_ctl.unreported /\ w = Weight(Snt, Pipe) /\ v = sent
                 /\ x1 = Weight(Snt, Pipe') /\ y = sent'
          BY <2>11, <3>4, <3>6
        <4>2. Due = o + w + v
          BY <3>3, <4>1
        <4>3. Due' = o + x1 + y
          BY <3>1, <4>1
        <4>4. x1 + y = w + v
          BY <3>6, <4>1
        <4> QED
          BY <4>2, <4>3, <4>4
      <3> QED
        BY <3>5, <3>7
    <2>13. Account' + srv_sent' = Account + srv_sent /\ srv_sent' \in Nat
      <3>1. PICK c \in Int, v, i, u, d \in Nat :
               /\ c = capacity /\ v = srv_sent /\ d = Due
               /\ i = Weight(Inc, Pipe) /\ u = Weight(Inc, Unseen)
        BY <2>12, Numbers
      <3>2. Account = c + i + u - d
        BY <3>1 DEF Account
      <3>3. Account' = capacity' + i + u - d
        BY <1>2, <2>9, <2>12, <3>1 DEF Account
      <3>4. \/ capacity' = c /\ srv_sent' = v
            \/ capacity' = c - 1 /\ srv_sent' = v + 1
        BY <1>4, <3>1
      <3>5. srv_sent' \in Nat
        BY <3>4
      <3>6. Account' + srv_sent' = Account + v
        BY <3>2, <3>3, <3>4
      <3> QED
        BY <3>1, <3>5, <3>6
    <2> QED
      BY <1>3, <2>13
  <1>5. ASSUME NEW w \in [Frame -> Nat], NEW f, First(f)
        PROVE  Weight(w, Pipe) = w[f] + Weight(w, Pipe') /\ w[f] \in Nat /\ Weight(w, Pipe') \in Nat
    <2>1. Weight(w, Pipe') \in Nat
      BY <1>5, WeightStep DEF First
    <2> QED
      BY <1>5, <2>1, FirstWeight
  <1>6. ASSUME NEW f, First(f), f.type = "preface", UNCHANGED <<capacity, srv_sent, sent>>
        PROVE  AccountsInv'
    <2>1. Inc[f] = 0 /\ Snt[f] = 0
      BY <1>6, NoWeight DEF First
    <2>2. Weight(Inc, Pipe) = Inc[f] + Weight(Inc, Pipe') /\ Weight(Inc, Pipe') \in Nat
      BY <1>5, <1>6, Numbers
    <2>3. Weight(Snt, Pipe) = Snt[f] + Weight(Snt, Pipe') /\ Weight(Snt, Pipe') \in Nat
      BY <1>5, <1>6, Numbers
    <2>4. Weight(Inc, Pipe') = Weight(Inc, Pipe) /\ Weight(Snt, Pipe') = Weight(Snt, Pipe)
      BY <2>1, <2>2, <2>3
    <2>5. Due' = Due
      BY <1>1, <1>6, <2>4 DEF Due
    <2>6. Account' = Account
      BY <1>1, <1>6, <2>4, <2>5 DEF Account
    <2> QED
      BY <1>3, <1>6, <2>6, Numbers
  <1>7. CASE Decode /\ First(Head(buf)) /\ UNCHANGED <<srv_sent, sent>>
    <2>1. PICK f : f = Head(buf)
      OBVIOUS
    <2>2. f \in ClientFrame /\ f \in Frame
      BY <1>7, <2>1 DEF TypeInv, UserInv, Decode, Frame
    <2>3. f.type # "fc_sync"
      BY <2>2, WhoseFrame
    <2>4. Snt[f] = 0
      BY <2>2, <2>3, NoWeight
    <2>5. capacity' = capacity + Inc[f]
      <3>1. CASE f.type = "window_update"
        BY <1>7, <2>1, <2>2, <3>1, NoWeight DEF Decode
      <3>2. CASE f.type # "window_update"
        <4>1. capacity' = capacity /\ Inc[f] = 0
          BY <1>7, <2>1, <2>2, <3>2, NoWeight DEF Decode
        <4> QED
          BY <4>1, Numbers
      <3> QED
        BY <3>1, <3>2
    <2>6. /\ Weight(Inc, Pipe) = Inc[f] + Weight(Inc, Pipe') /\ Weight(Inc, Pipe') \in Nat
          /\ Inc[f] \in Nat
      BY <1>5, <1>7, <2>1, Numbers
    <2>7. Weight(Snt, Pipe) = Snt[f] + Weight(Snt, Pipe') /\ Weight(Snt, Pipe') \in Nat
      BY <1>5, <1>7, <2>1, Numbers
    <2>8. Weight(Snt, Pipe') = Weight(Snt, Pipe)
      BY <2>4, <2>7
    <2>9. Due' = Due /\ Due \in Nat
      BY <1>1, <1>7, <2>8, Numbers DEF Due
    <2>10. Account' = Account
      BY <1>1, <2>5, <2>6, <2>9, Numbers DEF Account
    <2> QED
      BY <1>3, <1>7, <2>10, Numbers
  <1>8. CASE Take
    <2>1. PICK p, r \in Seq(Frame) : Pipe = (p \o Update(blocks)) \o r /\ Pipe' = p \o r
      BY <1>8, TakePipe
    <2>2. PICK u : u = Update(blocks)
      OBVIOUS
    <2>3. PICK pu : pu = p \o u
      OBVIOUS
    <2>4. u \in Seq(Frame) /\ pu \in Seq(Frame)
      <3>1. u \in Seq(Frame)
        BY <2>2, PipeTypes
      <3> QED
        BY <2>3, <3>1
    <2>5. \A i \in 1 .. Len(u) : u[i].type = "dt_sync" /\ u[i] \in Frame
      <3>1. \A i \in 1 .. Len(u) : u[i].type = "dt_sync"
        BY <2>2 DEF Update
      <3> QED
        BY <2>4, <3>1
    <2>6. ASSUME NEW w \in [Frame -> Nat], \A f \in Frame : f.type = "dt_sync" => w[f] = 0
          PROVE  Weight(w, Pipe') = Weight(w, Pipe)
      <3>1. \A i \in 1 .. Len(u) : w[u[i]] = 0
        BY <2>5, <2>6
      <3>2. Weight(w, u) = 0
        BY <2>4, <3>1, WeightNone
      <3>3. Weight(w, pu \o r) = Weight(w, pu) + Weight(w, r)
        BY <2>4, WeightConcat
      <3>4. Weight(w, p \o u) = Weight(w, p) + Weight(w, u)
        BY <2>4, WeightConcat
      <3>5. Weight(w, p \o r) = Weight(w, p) + Weight(w, r)
        BY WeightConcat
      <3>6. Weight(w, p) \in Nat /\ Weight(w, r) \in Nat
        BY WeightStep
      <3> QED
        BY <2>1, <2>2, <2>3, <3>2, <3>3, <3>4, <3>5, <3>6
    <2>7. Weight(Inc, Pipe') = Weight(Inc, Pipe)
      <3>1. \A f \in Frame : f.type = "dt_sync" => Inc[f] = 0
        BY NoWeight
      <3> QED
        BY <2>6, <3>1, Numbers
    <2>8. Weight(Snt, Pipe') = Weight(Snt, Pipe)
      <3>1. \A f \in Frame : f.type = "dt_sync" => Snt[f] = 0
        BY NoWeight
      <3> QED
        BY <2>6, <3>1, Numbers
    <2>9. capacity' = capacity - sent /\ sent' = 0 /\ srv_sent' = srv_sent
      BY <1>8 DEF Take
    <2>10. Due' + sent = Due /\ Due \in Nat /\ Due' \in Nat
      <3>1. Due' = flow_ctl.unreported + Weight(Snt, Pipe) + 0
        BY <1>2, <2>8, <2>9 DEF Due
      <3>2. Due = flow_ctl.unreported + Weight(Snt, Pipe) + sent
        BY DEF Due
      <3>3. flow_ctl.unreported \in Nat /\ sent \in Nat /\ Weight(Snt, Pipe) \in Nat
        BY Numbers
      <3> QED
        BY <3>1, <3>2, <3>3
    <2>11. Account' = Account
      <3>1. PICK c \in Int, s, i, u1, d, d1 \in Nat :
               /\ c = capacity /\ s = sent /\ d = Due /\ d1 = Due'
               /\ i = Weight(Inc, Pipe) /\ u1 = Weight(Inc, Unseen)
        BY <2>10, Numbers
      <3>2. Account = c + i + u1 - d
        BY <3>1 DEF Account
      <3>3. Account' = (c - s) + i + u1 - d1
        BY <1>2, <2>7, <2>9, <3>1 DEF Account
      <3>4. d1 + s = d
        BY <2>10, <3>1
      <3> QED
        BY <3>2, <3>3, <3>4
    <2> QED
      BY <1>3, <2>9, <2>11, Numbers
  <1> QED
    BY <1>4, <1>6, <1>7, <1>8, ServerPipe

\* The accounts balance at the start and every step keeps them so.
LEMMA AccountsInvHolds ==
    /\ Init => AccountsInv
    /\ TypeInv /\ OrderInv /\ AccountsInv /\ [Next]_vars => AccountsInv'
  <1>1. ASSUME Init PROVE AccountsInv
    <2>1. /\ answered = {} /\ msgs = <<>> /\ msg = <<>> /\ granted = 0 /\ srv_sent = 0
          /\ flow_ctl.unreported = 0 /\ sent = 0 /\ capacity = InitWindow
          /\ buf = <<>> /\ out = <<>> /\ blocks = <<>> /\ hold = <<>> /\ ingress = <<>>
      BY <1>1 DEF Init, FastInit, UserInit
    <2>2. Unseen = <<>>
      BY <2>1, FlattenEmpty DEF Unseen
    <2>3. Pipe = <<>>
      BY <2>1 DEF Pipe, Update
    <2>4. Weight(Inc, Unseen) = 0 /\ Weight(Inc, Pipe) = 0 /\ Weight(Snt, Pipe) = 0
      BY <2>2, <2>3, WeightStep, AreWeights
    <2>5. FastSent = 0
      BY <2>1, FS_EmptySet DEF FastSent
    <2>6. Due = 0
      BY <2>1, <2>4 DEF Due
    <2>7. Account = InitWindow
      BY <2>1, <2>4, <2>6 DEF Account
    <2> QED
      BY <2>1, <2>5, <2>7 DEF AccountsInv
  <1>2. ASSUME TypeInv, OrderInv, AccountsInv, Kernel PROVE AccountsInv'
    <2>1. CASE GivesUp
      <3>1. down' /\ (h2_state' = 0 => flow_ctl'.unreported = 0)
        <4>1. CASE ServeFails
          BY <1>2, <4>1 DEF ServeFails, AccountsInv
        <4>2. CASE SyncFails
          BY <1>2, <4>2 DEF SyncFails, Handshaked, H2_HANDSHAKED
        <4> QED
          BY <2>1, <4>1, <4>2 DEF GivesUp
      <3> QED
        BY <3>1 DEF AccountsInv
    <2> QED
      BY <1>2, <2>1, KernelPipe, PassesOnAccounts, AnswersAccounts, ForwardsAccounts
  <1>3. ASSUME AccountsInv, UNCHANGED vars PROVE AccountsInv'
    BY <1>3 DEF vars, fastVars, userVars, scanVars, codecVars, clientVars, AccountsInv, Account,
                Due, FastSent, Unseen, Pipe, Update
  <1> QED
    BY <1>1, <1>2, <1>3, ClientAccounts, ServerAccounts DEF Next

\* What is on its way is in the pipe, except an update that was scanned, which has no
\* weight.
LEMMA UnderwayWeight ==
    ASSUME TypeInv
    PROVE  /\ Grants(Underway \o Unseen) = Weight(Inc, Pipe) + Weight(Inc, Unseen)
           /\ Reports(Underway) = Weight(Snt, Pipe)
  <1>1. PICK b : b = buf \o out
    OBVIOUS
  <1>2. PICK u : u = Update(blocks)
    OBVIOUS
  <1>3. PICK bu : bu = b \o u
    OBVIOUS
  <1>4. PICK bh : bh = b \o hold
    OBVIOUS
  <1>5. PICK buh : buh = bu \o hold
    OBVIOUS
  <1>6. PICK way : way = bh \o ingress
    OBVIOUS
  <1>7. PICK un : un = Unseen
    OBVIOUS
  <1>8. /\ b \in Seq(Frame) /\ u \in Seq(Frame) /\ hold \in Seq(Frame) /\ ingress \in Seq(Frame)
        /\ un \in Seq(Frame)
    BY <1>1, <1>2, <1>7, PipeTypes
  <1>9. bu \in Seq(Frame) /\ bh \in Seq(Frame)
    BY <1>3, <1>4, <1>8
  <1>10. buh \in Seq(Frame) /\ way \in Seq(Frame)
    BY <1>5, <1>6, <1>8, <1>9
  <1>11. Pipe = buh \o ingress
    BY <1>1, <1>2, <1>3, <1>5 DEF Pipe
  <1>12. Underway = way
    BY <1>1, <1>4, <1>6 DEF Underway
  <1>13. ASSUME NEW w \in [Frame -> Nat], \A f \in Frame : f.type = "dt_sync" => w[f] = 0
         PROVE  Weight(w, way) = Weight(w, Pipe)
    <2>1. Weight(w, u) = 0
      <3>1. \A i \in 1 .. Len(u) : u[i].type = "dt_sync"
        BY <1>2 DEF Update
      <3>2. \A i \in 1 .. Len(u) : u[i] \in Frame
        BY <1>8
      <3>3. \A i \in 1 .. Len(u) : w[u[i]] = 0
        BY <1>13, <3>1, <3>2
      <3> QED
        BY <1>8, <3>3, WeightNone
    <2>2. Weight(w, buh \o ingress) = Weight(w, buh) + Weight(w, ingress)
      BY <1>8, <1>10, WeightConcat
    <2>3. Weight(w, bu \o hold) = Weight(w, bu) + Weight(w, hold)
      BY <1>8, <1>9, WeightConcat
    <2>4. Weight(w, b \o u) = Weight(w, b) + Weight(w, u)
      BY <1>8, WeightConcat
    <2>5. Weight(w, b \o hold) = Weight(w, b) + Weight(w, hold)
      BY <1>8, WeightConcat
    <2>6. Weight(w, bh \o ingress) = Weight(w, bh) + Weight(w, ingress)
      BY <1>8, <1>9, WeightConcat
    <2>7. Weight(w, b) \in Nat /\ Weight(w, hold) \in Nat /\ Weight(w, ingress) \in Nat
      BY <1>8, WeightStep
    <2> QED
      BY <1>3, <1>4, <1>5, <1>6, <1>11, <2>1, <2>2, <2>3, <2>4, <2>5, <2>6, <2>7
  <1>14. Weight(Inc, way) = Weight(Inc, Pipe)
    <2>1. \A f \in Frame : f.type = "dt_sync" => Inc[f] = 0
      BY NoWeight
    <2> QED
      BY <1>13, <2>1, Numbers
  <1>15. Weight(Snt, way) = Weight(Snt, Pipe)
    <2>1. \A f \in Frame : f.type = "dt_sync" => Snt[f] = 0
      BY NoWeight
    <2> QED
      BY <1>13, <2>1, Numbers
  <1>16. Reports(Underway) = Weight(Snt, Pipe)
    BY <1>10, <1>12, <1>15, AreWeights
  <1>17. Grants(Underway \o Unseen) = Weight(Inc, Pipe) + Weight(Inc, Unseen)
    <2>1. PICK all : all = way \o un
      OBVIOUS
    <2>2. all \in Seq(Frame)
      BY <1>8, <1>10, <2>1
    <2>3. Grants(all) = Weight(Inc, all)
      BY <2>2, AreWeights
    <2>4. Weight(Inc, way \o un) = Weight(Inc, way) + Weight(Inc, un)
      BY <1>8, <1>10, Numbers, WeightConcat
    <2> QED
      BY <1>7, <1>12, <1>14, <2>1, <2>3, <2>4
  <1> QED
    BY <1>16, <1>17

\* The window the codec sends from is the client's, but for the updates and reports on
\* their way to it: every byte the fast path answered with is reported once and every
\* update counted once, whatever is put off, held back or cut.
THEOREM WindowsAgree == Spec => []AccountsBalance
  <1>1. TypeInv /\ OrderInv /\ AccountsInv => AccountsBalance
    <2> SUFFICES ASSUME TypeInv, OrderInv, AccountsInv, ~down
                 PROVE  capacity + Grants(Underway \o Unseen)
                            - (flow_ctl.unreported + Reports(Underway) + sent) = ClientWindow
      BY DEF AccountsBalance
    <2>1. Account = InitWindow + granted - FastSent - srv_sent
      BY DEF AccountsInv
    <2>2. /\ Grants(Underway \o Unseen) = Weight(Inc, Pipe) + Weight(Inc, Unseen)
          /\ Reports(Underway) = Weight(Snt, Pipe)
      BY UnderwayWeight
    <2>3. capacity + Grants(Underway \o Unseen)
              - (flow_ctl.unreported + Reports(Underway) + sent) = Account
      BY <2>2, Numbers DEF Account, Due
    <2> QED
      BY <2>1, <2>3 DEF ClientWindow
  <1> QED
    BY <1>1, TypeInvHolds, OrderInvHolds, AccountsInvHolds, PTL DEF Spec

-----------------------------------------------------------------------------
(* The window the client lets a stream start with *)

\* What the client puts into one sk_buff.
Carried == {fs \in Seq(ClientFrame) : Len(fs) <= MaxMsg}

Streams == SUBSET Nat

\* Who follows the client's SETTINGS has the window a stream starts with, or none
\* once a request was met that was sent with another.
Following ==
    [s \in Streams |-> [f \in Frame |->
        IF f.type = "settings" /\ ~f.ack THEN IF s = {} THEN {} ELSE {f.win}
        ELSE IF f.type = "headers" /\ f.win \notin s THEN {} ELSE s]]

\* What a frame does to the window.
LEMMA FollowingIs ==
    /\ Reader(Following, Streams, Frame)
    /\ {} \in Streams /\ \A w \in Nat : {w} \in Streams
    /\ \A f \in Frame : Following[{}][f] = {}
    /\ \A s \in Streams, f \in Frame :
          f.type \in {"preface", "window_update"} \/ (f.type = "settings" /\ f.ack)
              => Following[s][f] = s
    /\ \A w \in Nat, f \in Frame : f.type = "settings" /\ ~f.ack => Following[{w}][f] = {f.win}
    /\ \A w \in Nat, f \in Frame :
          f.type = "headers" => Following[{w}][f] = IF f.win = w THEN {w} ELSE {}
  <1>1. Reader(Following, Streams, Frame)
    <2> SUFFICES ASSUME NEW s \in Streams, NEW f \in Frame
                 PROVE  (IF f.type = "settings" /\ ~f.ack THEN IF s = {} THEN {} ELSE {f.win}
                         ELSE IF f.type = "headers" /\ f.win \notin s THEN {} ELSE s)
                            \in Streams
      BY DEF Following, Reader
    <2>1. f.type = "settings" => f.win \in Nat
      BY Fields
    <2> QED
      BY <2>1 DEF Streams
  <1>2. {} \in Streams /\ \A w \in Nat : {w} \in Streams
    BY DEF Streams
  <1> QED
    BY <1>1, <1>2 DEF Following

\* Who has a window at the end had one before.
LEMMA StillFollows ==
    ASSUME NEW s \in Streams, NEW q \in Seq(Frame), NEW r \in Seq(Frame),
           Fold(Following, Fold(Following, s, q), r) # {}
    PROVE  Fold(Following, s, q) # {}
  <1>1. /\ Reader(Following, Streams, Frame) /\ {} \in Streams
        /\ \A f \in Frame : Following[{}][f] = {}
    BY FollowingIs
  <1>2. Fold(Following, s, q \o r) # {}
    BY <1>1, FoldConcat
  <1> QED
    BY <1>1, <1>2, FoldStuck

\* The program follows the SETTINGS of a message it has room for: it comes to have the
\* window one who reads every frame has.
LEMMA TrackFollows ==
    ASSUME NEW fs \in Seq(ClientFrame), Len(fs) <= MaxFlowFrames, NEW fc \in FlowCtl,
           Fold(Following, {fc.stream_window}, fs) # {}
    PROVE  Fold(Following, {fc.stream_window}, fs) = {Track(fs, fc).stream_window}
  <1> DEFINE Like(s, t) == t \in FlowCtl /\ s \in {{}, {t.stream_window}}
             D == {qs \in Seq(ClientFrame) :
                      Like(Fold(Following, {fc.stream_window}, qs), Fold(Tracking, fc, qs))}
  <1>1. Reader(Tracking, FlowCtl, ClientFrame)
    BY TrackOne DEF Reader, Tracking
  <1>2. PICK b : b = {fc.stream_window}
    OBVIOUS
  <1>3. b \in Streams /\ Reader(Following, Streams, Frame)
    BY <1>2, FollowingIs DEF FlowCtl
  <1>4. <<>> \in D
    <2>1. PICK p : p = <<>>
      OBVIOUS
    <2>2. p \in Seq(ClientFrame) /\ Fold(Tracking, fc, p) = fc /\ Fold(Following, b, p) = b
      BY <1>1, <1>3, <2>1, FoldEmpty
    <2> QED
      BY <1>2, <2>1, <2>2
  <1>5. ASSUME NEW qs \in Seq(ClientFrame), NEW f \in ClientFrame, qs \in D
        PROVE  Append(qs, f) \in D
    <2>1. PICK t : t = Fold(Tracking, fc, qs)
      OBVIOUS
    <2>2. PICK s : s = Fold(Following, b, qs)
      OBVIOUS
    <2>3. t \in FlowCtl /\ t.stream_window \in Nat /\ s \in {{}, {t.stream_window}}
      BY <1>2, <1>5, <2>1, <2>2 DEF FlowCtl
    <2>4. Fold(Tracking, fc, Append(qs, f)) = TrackFrame(f, t)
      BY <1>1, <2>1, <2>3, FoldAppend DEF Tracking
    <2>5. qs \in Seq(Frame) /\ f \in Frame
      BY ClientFramesWait DEF Frame
    <2>6. Fold(Following, b, Append(qs, f)) = Following[s][f]
      BY <1>3, <2>2, <2>5, FoldAppend
    <2>7. /\ TrackFrame(f, t) \in FlowCtl
          /\ TrackFrame(f, t).stream_window =
                IF f.type = "settings" /\ ~f.ack THEN f.win ELSE t.stream_window
      BY <2>3, TrackOne
    <2>8. Following[s][f] \in {{}, {TrackFrame(f, t).stream_window}}
      <3>1. CASE s = {}
        BY <2>5, <3>1, FollowingIs
      <3>2. CASE s = {t.stream_window}
        <4>1. PICK w : w = t.stream_window
          OBVIOUS
        <4>2. w \in Nat /\ {w} \in Streams /\ s = {w}
          BY <2>3, <3>2, <4>1, FollowingIs
        <4>3. CASE f.type = "settings" /\ ~f.ack
          <5>1. Following[{w}][f] = {f.win}
            BY <2>5, <4>2, <4>3, FollowingIs
          <5> QED
            BY <2>7, <4>2, <4>3, <5>1
        <4>4. CASE f.type \in {"preface", "window_update"} \/ (f.type = "settings" /\ f.ack)
          <5>1. Following[s][f] = {w}
            BY <2>5, <4>2, <4>4, FollowingIs
          <5> QED
            BY <2>7, <4>1, <4>4, <5>1
        <4>5. CASE f.type = "headers"
          <5>1. Following[s][f] \in {{}, {w}}
            BY <2>5, <4>2, <4>5, FollowingIs
          <5> QED
            BY <2>7, <4>1, <4>5, <5>1
        <4> QED
          BY <4>3, <4>4, <4>5 DEF ClientFrame
      <3> QED
        BY <2>3, <3>1, <3>2
    <2>9. Append(qs, f) \in Seq(ClientFrame)
      OBVIOUS
    <2> QED
      BY <1>2, <2>4, <2>6, <2>7, <2>8, <2>9
  <1> HIDE DEF D
  <1>6. Shortened(fs, MaxFlowFrames) = fs
    <2>1. Shortened(fs, MaxFlowFrames) = SubSeq(fs, 1, Len(fs))
      BY DEF Shortened
    <2> QED
      BY <2>1
  <1>7. Track(fs, fc) = Fold(Tracking, fc, fs)
    BY <1>6, TrackFold
  <1>8. fs \in D
    BY <1>4, <1>5, SeqInd
  <1> QED
    BY <1>7, <1>8 DEF D

\* What the client sends and what the program leaves of it stays within an sk_buff.
LEMMA CarriedKept ==
    ASSUME TypeInv, msgs \in Seq(Carried), msg \in Carried, [Next]_vars
    PROVE  msgs' \in Seq(Carried) /\ msg' \in Carried
  <1>1. ASSUME Client PROVE msgs' \in Seq(Carried) /\ msg' \in Carried
    <2>1. PICK fs, f : Message(fs, f) /\ Put(fs)
      BY <1>1, ClientSends
    <2>2. fs \in Carried
      <3>1. fs \in Seq(ClientFrame) /\ (Len(fs) = 1 \/ Len(fs) = 2)
        <4>1. CASE fs = <<f>>
          BY <2>1, <4>1 DEF Message
        <4>2. ASSUME NEW p, fs = <<p, f>> PROVE Len(fs) = 2
          BY <4>2
        <4> QED
          BY <2>1, <4>1, <4>2 DEF Message
      <3>2. PICK l : l = Len(fs)
        OBVIOUS
      <3>3. MaxMsg \in Nat /\ MaxMsg # 0 /\ MaxMsg # 1
        BY BoundAssumption
      <3>4. l <= MaxMsg
        BY <3>1, <3>2, <3>3
      <3> QED
        BY <3>1, <3>2, <3>4 DEF Carried
    <2>3. msg' = msg
      BY <1>1, ClientSends DEF fastVars
    <2>4. ASSUME msgs # <<>>, Len(Last(msgs)) + Len(fs) <= MaxMsg,
                 msgs' = Append(Front(msgs), Last(msgs) \o fs)
          PROVE  msgs' \in Seq(Carried)
      <3>1. PICK l : l = Last(msgs)
        OBVIOUS
      <3>2. l \in Carried /\ Front(msgs) \in Seq(Carried)
        <4>1. Len(msgs) \in Nat /\ Len(msgs) > 0
          BY <2>4
        <4> QED
          BY <3>1, <4>1 DEF Front, Last
      <3>3. l \in Seq(ClientFrame) /\ fs \in Seq(ClientFrame)
        BY <2>2, <3>2 DEF Carried
      <3>4. l \o fs \in Seq(ClientFrame) /\ Len(l \o fs) = Len(l) + Len(fs)
        BY <3>3
      <3>5. l \o fs \in Carried
        BY <2>4, <3>1, <3>4 DEF Carried
      <3> QED
        BY <2>4, <3>1, <3>2, <3>5
    <2> QED
      BY <2>1, <2>2, <2>3, <2>4 DEF Put
  <1>2. ASSUME Kernel PROVE msgs' \in Seq(Carried) /\ msg' \in Carried
    <2>1. <<>> \in Carried
      BY BoundAssumption DEF Carried
    <2>2. ASSUME NEW t, RunsOn(t), msg' \in {Tail(Cur), <<>>}
          PROVE  msgs' \in Seq(Carried) /\ msg' \in Carried
      <3>1. Cur \in Carried /\ Cur # <<>>
        BY <2>1, <2>2 DEF Cur, RunsOn
      <3>2. Tail(Cur) \in Carried
        BY <3>1, BoundAssumption DEF Carried
      <3>3. msgs' \in Seq(Carried)
        BY <2>2 DEF RunsOn, Cur
      <3> QED
        BY <2>1, <2>2, <3>2, <3>3
    <2>3. CASE PassOn
      BY <2>3 DEF PassOn, fastVars
    <2>4. CASE ~PassOn
      BY <1>2, <2>2, <2>4 DEF Kernel, Verdict, Mishap, Upgrade, LeaveToUserSpace, Serve, TakeRequest,
                              ServeFails, Forward, SyncFails
    <2> QED
      BY <2>3, <2>4
  <1>3. ASSUME Server \/ UNCHANGED vars PROVE msgs' \in Seq(Carried) /\ msg' \in Carried
    BY <1>3 DEF Server, fastVars, vars
  <1> QED
    BY <1>1, <1>2, <1>3 DEF Next

\* The window the fast path believes a stream starts with, from the preface on.
BelievedStream == IF h2_state = 0 THEN InitWindow ELSE flow_ctl.stream_window

\* AnswersFit needs to know how the fast path came to the window it answers from: it
\* has what the client had when it sent the frame in front, so that who reads on from
\* there finds every request sent with the window it has, and in the end has the client's.
StreamInv ==
    /\ msgs \in Seq(Carried) /\ msg \in Carried
    /\ ~left /\ ~down => Fold(Following, {BelievedStream}, Unseen) = {stream_win}

\* The windows are windows.
LEMMA StreamTypes ==
    ASSUME TypeInv
    PROVE  /\ BelievedStream \in Nat /\ {BelievedStream} \in Streams
           /\ stream_win \in Nat /\ {stream_win} \in Streams
           /\ flow_ctl \in FlowCtl /\ flow_ctl.stream_window \in Nat
           /\ Reader(Following, Streams, Frame)
  <1>1. flow_ctl \in FlowCtl /\ stream_win \in Nat
    BY DEF TypeInv, FastInv, HandshakeInv
  <1> QED
    BY <1>1, FollowingIs DEF BelievedStream, FlowCtl

\* The client's step is followed by who followed it up to there.
LEMMA ClientStream ==
    ASSUME TypeInv, StreamInv, Client
    PROVE  StreamInv'
  <1>1. UNCHANGED <<left, down, h2_state, flow_ctl>>
    BY ClientSends DEF fastVars
  <1>2. msgs' \in Seq(Carried) /\ msg' \in Carried
    BY CarriedKept DEF StreamInv, Next
  <1>3. PICK fs, f : Message(fs, f) /\ Tells(f) /\ Unseen' = Unseen \o fs
    BY ClientSends
  <1>4. f \in Frame /\ fs \in Seq(Frame)
    BY <1>3, ClientFramesWait DEF Message, Frame
  <1>5. PICK b : b = {stream_win}
    OBVIOUS
  <1>6. b \in Streams
    BY <1>5, StreamTypes
  <1>7. Fold(Following, b, fs) = Following[b][f]
    <2>1. \A p \in Frame : p.type = "preface" => Following[b][p] = b
      BY <1>6, FollowingIs
    <2> QED
      BY <1>3, <1>6, <2>1, StreamTypes, ReadMessage
  <1>8. Following[b][f] = {stream_win'}
    <2>1. PICK w : w = stream_win
      OBVIOUS
    <2>2. w \in Nat /\ b = {w} /\ Tells(f)
      BY <1>3, <1>5, <2>1, StreamTypes
    <2>3. CASE f.type = "settings" /\ ~f.ack
      <3>1. Following[{w}][f] = {f.win}
        BY <1>4, <2>2, <2>3, FollowingIs
      <3> QED
        BY <2>2, <2>3, <3>1 DEF Tells
    <2>4. CASE f.type = "window_update" \/ (f.type = "settings" /\ f.ack)
      <3>1. Following[b][f] = b
        BY <1>4, <1>6, <2>4, FollowingIs
      <3> QED
        BY <1>5, <2>2, <2>4, <3>1 DEF Tells
    <2>5. CASE f.type = "headers"
      <3>1. Following[{w}][f] = IF f.win = w THEN {w} ELSE {}
        BY <1>4, <2>2, <2>5, FollowingIs
      <3>2. f.win = w /\ stream_win' = w
        BY <2>1, <2>2, <2>5 DEF Tells
      <3> QED
        BY <2>2, <3>1, <3>2
    <2> QED
      BY <2>2, <2>3, <2>4, <2>5 DEF Tells
  <1>9. PICK a : a = {BelievedStream}
    OBVIOUS
  <1>10. a \in Streams /\ {BelievedStream'} = a
    BY <1>1, <1>9, StreamTypes DEF BelievedStream
  <1>11. Fold(Following, a, Unseen') = Fold(Following, Fold(Following, a, Unseen), fs)
    BY <1>3, <1>4, <1>10, StreamTypes, SentFold
  <1>12. ~left /\ ~down => Fold(Following, a, Unseen') = {stream_win'}
    BY <1>5, <1>7, <1>8, <1>9, <1>11 DEF StreamInv
  <1> QED
    BY <1>1, <1>2, <1>10, <1>12 DEF StreamInv

\* What leaves the unseen frames takes with it what it says of the window.
LEMMA LeavesStream ==
    ASSUME TypeInv, StreamInv, ~left, ~down, NEW q, Leaves(q)
    PROVE  /\ Fold(Following, Fold(Following, {BelievedStream}, q), Unseen') = {stream_win}
           /\ Fold(Following, {BelievedStream}, q) # {}
           /\ q \in Seq(Frame)
  <1>1. PICK a : a = {BelievedStream}
    OBVIOUS
  <1>2. a \in Streams /\ Reader(Following, Streams, Frame)
    BY <1>1, StreamTypes
  <1>3. /\ Fold(Following, a, Unseen) = Fold(Following, Fold(Following, a, q), Unseen')
        /\ q \in Seq(Frame) /\ Unseen' \in Seq(Frame)
    BY <1>2, LeavesFold
  <1>4. Fold(Following, a, Unseen) = {stream_win}
    BY <1>1 DEF StreamInv
  <1>5. PICK r : r = Unseen'
    OBVIOUS
  <1>6. r \in Seq(Frame) /\ Fold(Following, Fold(Following, a, q), r) # {}
    BY <1>3, <1>4, <1>5
  <1>7. Fold(Following, a, q) # {}
    BY <1>2, <1>3, <1>6, StillFollows
  <1> QED
    BY <1>1, <1>3, <1>4, <1>7

\* A request in front was sent with the window the fast path has.
LEMMA WindowInFront ==
    ASSUME TypeInv, StreamInv, NEW t, RunsOn(t), Head(Cur).type = "headers", h2_state # 0
    PROVE  Head(Cur).win = flow_ctl.stream_window
           /\ (msg' = Tail(Cur)
                  => Fold(Following, {BelievedStream}, Unseen') = {stream_win})
  <1>1. PICK h : h = Head(Cur)
    OBVIOUS
  <1>2. h \in Frame /\ h.type = "headers" /\ ~left /\ ~down
    BY <1>1, InFront DEF Frame, RunsOn
  <1>3. PICK a : a = {BelievedStream}
    OBVIOUS
  <1>4. a \in Streams /\ Reader(Following, Streams, Frame) /\ BelievedStream \in Nat
    BY <1>3, StreamTypes
  <1>5. Following[a][h] = IF h.win = BelievedStream THEN a ELSE {}
    BY <1>2, <1>3, <1>4, FollowingIs
  <1>6. Fold(Following, a, <<h>>) = Following[a][h]
    BY <1>2, <1>4, FoldOne
  <1>7. h.win = BelievedStream
    <2>1. PICK r : r = Tail(Cur) \o FlattenSeq(msgs')
      OBVIOUS
    <2>2. r \in Seq(Frame) /\ Unseen = <<h>> \o r
      <3>1. PICK u : u = FlattenSeq(msgs')
        OBVIOUS
      <3>2. PICK c : c = Tail(Cur)
        OBVIOUS
      <3>3. /\ Unseen = Cur \o u /\ Cur = <<h>> \o c
            /\ u \in Seq(ClientFrame) /\ c \in Seq(ClientFrame) /\ h \in ClientFrame
        BY <1>1, <3>1, <3>2, InFront, Sent, RunsOnUnseen DEF TypeInv
      <3>4. PICK g : g = <<h>>
        OBVIOUS
      <3>5. g \in Seq(ClientFrame)
        BY <3>3, <3>4
      <3>6. Cat(Cat(g, c), u) = Cat(g, Cat(c, u)) /\ Cat(c, u) \in Seq(ClientFrame)
        BY <3>3, <3>5, CatAssoc, CatType
      <3>7. Unseen = g \o (c \o u) /\ c \o u \in Seq(ClientFrame)
        BY <3>3, <3>4, <3>6 DEF Cat
      <3> QED
        BY <2>1, <3>1, <3>2, <3>4, <3>7, ClientFramesWait
    <2>3. Fold(Following, a, <<h>> \o r) = Fold(Following, Following[a][h], r)
      BY <1>2, <1>4, <2>2, FoldCons
    <2>4. Fold(Following, a, <<h>> \o r) = {stream_win}
      BY <1>2, <1>3, <2>2 DEF StreamInv
    <2>5. ASSUME h.win # BelievedStream PROVE FALSE
      <3>1. PICK none : none = {}
        OBVIOUS
      <3>2. none \in Streams /\ \A i \in 1 .. Len(r) : Following[none][r[i]] = none
        BY <2>2, <3>1, FollowingIs
      <3>3. Fold(Following, none, r) = none
        BY <1>4, <2>2, <3>2, FoldIdle
      <3> QED
        BY <1>5, <2>3, <2>4, <2>5, <3>1, <3>3
    <2> QED
      BY <2>5
  <1>8. ASSUME msg' = Tail(Cur) PROVE Fold(Following, a, Unseen') = {stream_win}
    <2>1. Leaves(<<h>>)
      BY <1>1, <1>8, RunsLeaves
    <2>2. Fold(Following, Fold(Following, a, <<h>>), Unseen') = {stream_win}
      BY <1>2, <1>3, <2>1, LeavesStream
    <2> QED
      BY <1>5, <1>6, <1>7, <2>2
  <1> QED
    BY <1>1, <1>3, <1>7, <1>8 DEF BelievedStream

\* The program's step follows what it takes off the unseen frames.
LEMMA KernelStream ==
    ASSUME MaxMsg <= MaxFlowFrames, TypeInv, StreamInv, Kernel
    PROVE  StreamInv'
  <1>1. msgs' \in Seq(Carried) /\ msg' \in Carried
    BY CarriedKept DEF StreamInv, Next
  <1>2. stream_win' = stream_win
    BY DEF Kernel, clientVars
  <1>3. CASE Upgrade
    <2>1. /\ RunsOn({"preface"}) /\ msg' = Tail(Cur) /\ UNCHANGED <<left, down>>
          /\ BelievedStream = InitWindow /\ BelievedStream' = InitWindow
      BY <1>3 DEF Upgrade, BelievedStream, H2_UPGRADED
    <2>2. PICK h : h = Head(Cur)
      OBVIOUS
    <2>3. h \in Frame /\ h.type = "preface" /\ Leaves(<<h>>)
      BY <2>1, <2>2, InFront, RunsLeaves DEF Frame
    <2>4. PICK a : a = {BelievedStream}
      OBVIOUS
    <2>5. Fold(Following, a, <<h>>) = a
      <3>1. a \in Streams /\ Reader(Following, Streams, Frame)
        BY <2>4, StreamTypes
      <3>2. Following[a][h] = a
        BY <2>3, <3>1, FollowingIs
      <3> QED
        BY <2>3, <3>1, <3>2, FoldOne
    <2>6. Fold(Following, Fold(Following, a, <<h>>), Unseen') = {stream_win}
      BY <2>1, <2>3, <2>4, LeavesStream DEF RunsOn
    <2>7. {BelievedStream'} = a
      BY <2>1, <2>4
    <2> QED
      BY <1>1, <1>2, <2>5, <2>6, <2>7 DEF StreamInv
  <1>4. CASE LeaveToUserSpace \/ PassOn \/ ServeFails \/ SyncFails
    <2>1. left' \/ down'
      BY <1>4 DEF LeaveToUserSpace, PassOn, ServeFails, SyncFails, fastVars
    <2> QED
      BY <1>1, <2>1 DEF StreamInv
  <1>5. CASE Serve
    <2>1. /\ RunsOn({"headers"}) /\ msg' = Tail(Cur) /\ flow_ctl' = Spend(flow_ctl)
          /\ h2_state # 0 /\ h2_state' = h2_state
      BY <1>5 DEF Serve, TakeRequest, CanServe, H2_HANDSHAKED
    <2>2. Head(Cur).type = "headers"
      BY <2>1, InFront
    <2>3. Fold(Following, {BelievedStream}, Unseen') = {stream_win}
      BY <2>1, <2>2, WindowInFront
    <2>4. flow_ctl'.stream_window = flow_ctl.stream_window
      BY <2>1, StreamTypes DEF Spend, FlowCtl
    <2>5. BelievedStream' = BelievedStream
      BY <2>1, <2>4 DEF BelievedStream
    <2> QED
      BY <1>1, <1>2, <2>3, <2>5 DEF StreamInv
  <1>6. CASE Forward
    <2>1. RunsOn({"settings", "window_update", "headers"}) /\ msg' = <<>> /\ ~left /\ ~down
      BY <1>6 DEF Forward, RunsOn
    <2>2. PICK report : flow_ctl' = Report(Track(Cur, flow_ctl), report)
      BY <1>6 DEF Forward
    <2>3. h2_state # 0 /\ h2_state' # 0
      BY <1>6 DEF Forward, Handshaked, H2_HANDSHAKED
    <2>4. Cur \in Seq(ClientFrame) /\ Leaves(Cur) /\ Len(Cur) <= MaxFlowFrames
      <3>1. Cur \in Carried
        BY <2>1 DEF StreamInv, Cur, RunsOn
      <3>2. Len(Cur) \in Nat /\ MaxMsg \in Nat /\ MaxFlowFrames \in Nat
        BY <3>1, BoundAssumption, FastPathAssumption DEF Carried
      <3> QED
        BY <2>1, <3>1, <3>2, InFront, RunsLeaves DEF Carried
    <2>5. PICK fs : fs = Cur
      OBVIOUS
    <2>6. PICK fc : fc = flow_ctl
      OBVIOUS
    <2>7. BelievedStream = fc.stream_window /\ fc \in FlowCtl
      BY <2>3, <2>6, StreamTypes DEF BelievedStream
    <2>8. /\ Fold(Following, Fold(Following, {fc.stream_window}, fs), Unseen') = {stream_win}
          /\ Fold(Following, {fc.stream_window}, fs) # {}
      BY <2>1, <2>4, <2>5, <2>7, LeavesStream
    <2>9. Fold(Following, {fc.stream_window}, fs) = {Track(fs, fc).stream_window}
      BY <2>4, <2>5, <2>7, <2>8, TrackFollows
    <2>10. BelievedStream' = Track(fs, fc).stream_window
      <3>1. Track(fs, fc) \in FlowCtl
        BY <2>4, <2>5, <2>7, TrackAll
      <3>2. flow_ctl'.stream_window = Track(fs, fc).stream_window
        BY <2>2, <2>5, <2>6, <3>1 DEF Report, FlowCtl
      <3> QED
        BY <2>3, <3>2 DEF BelievedStream
    <2> QED
      BY <1>1, <1>2, <2>8, <2>9, <2>10 DEF StreamInv
  <1> QED
    BY <1>3, <1>4, <1>5, <1>6 DEF Kernel, Verdict, Mishap

\* The fast path follows the client's windows at the start and every step keeps it.
LEMMA StreamInvHolds ==
    /\ Init => StreamInv
    /\ MaxMsg <= MaxFlowFrames /\ TypeInv /\ StreamInv /\ [Next]_vars => StreamInv'
  <1>1. ASSUME Init PROVE StreamInv
    <2>1. msgs = <<>> /\ msg = <<>> /\ h2_state = 0 /\ stream_win = InitWindow
      BY <1>1 DEF Init, FastInit
    <2>2. Unseen = <<>>
      BY <2>1, FlattenEmpty DEF Unseen
    <2>3. PICK a : a = {BelievedStream}
      OBVIOUS
    <2>4. a = {stream_win} /\ a \in Streams
      <3>1. a = {InitWindow} /\ InitWindow \in Nat
        BY <2>1, <2>3, WireAssumption DEF BelievedStream
      <3> QED
        BY <2>1, <3>1, FollowingIs
    <2>5. Fold(Following, a, <<>>) = a
      BY <2>4, FollowingIs, FoldEmpty
    <2>6. msgs \in Seq(Carried) /\ msg \in Carried
      BY <2>1, BoundAssumption DEF Carried
    <2> QED
      BY <2>2, <2>3, <2>4, <2>5, <2>6 DEF StreamInv
  <1>2. ASSUME StreamInv, Server \/ UNCHANGED vars PROVE StreamInv'
    BY <1>2 DEF Server, vars, fastVars, clientVars, StreamInv, BelievedStream, Unseen
  <1> QED
    BY <1>1, <1>2, ClientStream, KernelStream DEF Next

\* As long as no sk_buff carries more frames than track_flow looks at, the fast path
\* answers no request with more than the window the client lets its stream start with,
\* however often that window is changed and however the frames are cut into messages.
\* With longer messages it may: a change of the window behind MAX_FLOW_FRAMES is missed.
THEOREM AnswersFitTheirStreams ==
    ASSUME MaxMsg <= MaxFlowFrames
    PROVE  Spec => AnswersFit
  <1>1. TypeInv /\ StreamInv /\ [Next]_vars
            => [answered' # answered => RouteLen <= Head(Cur).win]_vars
    <2> SUFFICES ASSUME TypeInv, StreamInv, [Next]_vars, answered' # answered
                 PROVE  RouteLen <= Head(Cur).win
      OBVIOUS
    <2>1. Serve
      BY OnlyServeAnswers
    <2>2. /\ RunsOn({"headers"}) /\ h2_state # 0
          /\ flow_ctl.stream_window >= RouteLen
      BY <2>1 DEF Serve, CanServe, Fits, H2_HANDSHAKED
    <2>3. Head(Cur).win = flow_ctl.stream_window
      BY <2>2, InFront, WindowInFront
    <2>4. flow_ctl.stream_window \in Nat /\ RouteLen \in Nat
      BY StreamTypes, FastPathAssumption
    <2> QED
      BY <2>2, <2>3, <2>4
  <1> QED
    BY <1>1, TypeInvHolds, StreamInvHolds, PTL DEF Spec, AnswersFit
=============================================================================
