-------------------------- MODULE Handover_proofs --------------------------
(***************************************************************************)
(* The types of the connection, and that no request is answered before the *)
(* handshake has completed, for every size of the tables and windows and   *)
(* every number of requests.                                               *)
(***************************************************************************)
EXTENDS Handover, Folding_proofs

USE WireAssumption, FastPathAssumption, BoundAssumption

-----------------------------------------------------------------------------
(* Sequences *)

\* A message of one frame or two.
LEMMA ShortSeq ==
    ASSUME NEW S, NEW a \in S, NEW b \in S
    PROVE  <<a>> \in Seq(S) /\ <<a, b>> \in Seq(S)
  OBVIOUS

\* A sequence over a set is one over a larger set.
LEMMA SeqGrows ==
    ASSUME NEW S, NEW T, S \subseteq T
    PROVE  Seq(S) \subseteq Seq(T)
  <1> SUFFICES ASSUME NEW q \in Seq(S) PROVE q \in Seq(T)
    OBVIOUS
  <1>1. Len(q) \in Nat /\ q = [i \in 1 .. Len(q) |-> q[i]] /\ \A i \in 1 .. Len(q) : q[i] \in T
    OBVIOUS
  <1> QED
    BY <1>1

\* Adding entries to a table leaves a table.
LEMMA AddedType ==
    ASSUME NEW t \in Seq(Entry), NEW new \in Seq(Entry)
    PROVE  Added(t, new) \in Seq(Entry) /\ Len(Added(t, new)) <= TableCap
  <1> DEFINE q == Reverse(new) \o t
  <1>1. Reverse(new) \in Seq(Entry)
    BY DEF Reverse
  <1>2. q \in Seq(Entry)
    BY <1>1
  <1>3. \A n \in 0 .. Len(q) : SubSeq(q, 1, n) \in Seq(Entry)
    BY <1>2
  <1>4. (IF Len(q) < TableCap THEN Len(q) ELSE TableCap) \in 0 .. Len(q)
    BY <1>2
  <1> QED
    BY <1>3, <1>4 DEF Added, Shortened

\* What the client puts in a message is all it adds to those on their way.
LEMMA PutType ==
    ASSUME NEW S, msgs \in Seq(Seq(S)), NEW fs \in Seq(S), Put(fs)
    PROVE  msgs' \in Seq(Seq(S))
  <1>1. CASE msgs' = Append(msgs, fs)
    BY <1>1
  <1>2. CASE msgs # <<>> /\ msgs' = Append(Front(msgs), Last(msgs) \o fs)
    <2>1. Len(msgs) \in Nat /\ Len(msgs) > 0
      BY <1>2
    <2>2. Last(msgs) \in Seq(S)
      BY <2>1 DEF Last
    <2>3. Front(msgs) \in Seq(Seq(S))
      BY <2>1 DEF Front
    <2>4. Last(msgs) \o fs \in Seq(S)
      BY <2>2
    <2> QED
      BY <1>2, <2>3, <2>4
  <1> QED
    BY <1>1, <1>2 DEF Put

\* The program takes frames out of what the client sent and makes up none.
LEMMA RunsOnType ==
    ASSUME NEW S, msgs \in Seq(Seq(S)), msg \in Seq(S), NEW t, RunsOn(t)
    PROVE  /\ Head(Cur) \in S /\ Head(Cur).type \in t
           /\ Tail(Cur) \in Seq(S) /\ Cur \in Seq(S)
           /\ msgs' \in Seq(Seq(S))
  <1>1. Cur \in Seq(S) /\ Cur # <<>>
    BY DEF RunsOn, Cur
  <1>2. msgs' \in Seq(Seq(S))
    <2>1. CASE msg # <<>>
      BY <2>1 DEF RunsOn
    <2>2. CASE msg = <<>>
      BY <2>2 DEF RunsOn, Cur
    <2> QED
      BY <2>1, <2>2
  <1> QED
    BY <1>1, <1>2 DEF RunsOn

-----------------------------------------------------------------------------
(* Sums *)

Sum == [v \in Nat |-> [n \in Nat |-> v + n]]

TotalOf(ns, t) == t = [i \in 0 .. Len(ns) |-> IF i = 0 THEN 0 ELSE t[i - 1] + ns[i]]

\* A sum is what a reader that adds ends with.
LEMMA TotalFold ==
    ASSUME NEW ns \in Seq(Nat)
    PROVE  Total(ns) = Fold(Sum, 0, ns)
  <1>1. Len(ns) \in Nat /\ \A i \in 1 .. Len(ns) : ns[i] \in Nat
    OBVIOUS
  <1>2. PICK f \in [0 .. Len(ns) -> Nat] : Trace(Sum, 0, ns, f)
    <2>1. Reader(Sum, Nat, Nat) /\ 0 \in Nat
      BY DEF Reader, Sum
    <2> QED
      BY <2>1, TraceExists
  <1>3. \A i \in 1 .. Len(ns) : i - 1 \in 0 .. Len(ns) /\ f[i - 1] \in Nat
    <2>1. \A i \in 1 .. Len(ns) : i - 1 \in 0 .. Len(ns)
      BY <1>1
    <2> QED
      BY <2>1
  <1>4. f[0] = 0 /\ \A i \in 1 .. Len(ns) : f[i] = f[i - 1] + ns[i]
    BY <1>1, <1>2, <1>3 DEF Trace, Sum
  <1>5. TotalOf(ns, f)
    BY <1>1, <1>4 DEF TotalOf
  <1>6. PICK t : t = CHOOSE u : TotalOf(ns, u)
    OBVIOUS
  <1>7. TotalOf(ns, t)
    BY <1>5, <1>6
  <1>8. Total(ns) = t[Len(ns)]
    BY <1>6 DEF Total, TotalOf
  <1>9. t[0] = 0 /\ \A i \in 1 .. Len(ns) : t[i] = t[i - 1] + ns[i]
    <2>1. 0 \in 0 .. Len(ns) /\ \A i \in 1 .. Len(ns) : i \in 0 .. Len(ns) /\ i # 0
      BY <1>1
    <2>2. t = [i \in 0 .. Len(ns) |-> IF i = 0 THEN 0 ELSE t[i - 1] + ns[i]]
      BY <1>7 DEF TotalOf
    <2>3. \A i \in 0 .. Len(ns) : t[i] = IF i = 0 THEN 0 ELSE t[i - 1] + ns[i]
      BY <2>2, Zenon
    <2> QED
      BY <2>1, <2>3
  <1>10. t[Len(ns)] = f[Len(ns)]
    <2>1. t[0] = f[0] /\ \A i \in 1 .. Len(ns) : t[i - 1] = f[i - 1] => t[i] = f[i]
      BY <1>4, <1>9
    <2> QED
      BY <1>1, <2>1, Agree
  <1> QED
    BY <1>2, <1>8, <1>10, FoldIs

\* Each element counts once, and none is no sum.
LEMMA TotalStep ==
    /\ Total(<<>>) = 0
    /\ \A ns \in Seq(Nat) : Total(ns) \in Nat
    /\ \A ns \in Seq(Nat), n \in Nat : Total(Append(ns, n)) = Total(ns) + n
  <1>1. Reader(Sum, Nat, Nat) /\ 0 \in Nat
    BY DEF Reader, Sum
  <1>2. Total(<<>>) = 0
    <2>1. PICK p : p = <<>>
      OBVIOUS
    <2>2. p \in Seq(Nat)
      BY <2>1
    <2>3. Fold(Sum, 0, p) = 0
      BY <1>1, <2>1, FoldEmpty
    <2> QED
      BY <2>1, <2>2, <2>3, TotalFold
  <1>3. \A ns \in Seq(Nat) : Total(ns) \in Nat
    <2> SUFFICES ASSUME NEW ns \in Seq(Nat) PROVE Total(ns) \in Nat
      OBVIOUS
    <2>1. Fold(Sum, 0, ns) \in Nat
      BY <1>1, FoldType
    <2> QED
      BY <2>1, TotalFold
  <1>4. ASSUME NEW ns \in Seq(Nat), NEW n \in Nat PROVE Total(Append(ns, n)) = Total(ns) + n
    <2>1. Append(ns, n) \in Seq(Nat)
      OBVIOUS
    <2>2. Fold(Sum, 0, Append(ns, n)) = Sum[Fold(Sum, 0, ns)][n]
      <3>1. PICK N : N = Nat
        OBVIOUS
      <3>2. Reader(Sum, N, N) /\ 0 \in N /\ ns \in Seq(N) /\ n \in N
        BY <1>1, <3>1
      <3> HIDE <3>1
      <3> QED
        BY <3>2, FoldAppend
    <2>3. Total(ns) \in Nat
      BY <1>3
    <2> QED
      BY <2>1, <2>2, <2>3, TotalFold DEF Sum
  <1> QED
    BY <1>2, <1>3, <1>4

-----------------------------------------------------------------------------
(* Frames *)

\* The fields a frame of each type has.
LEMMA Fields ==
    ASSUME NEW f \in Frame
    PROVE  /\ f.type = "headers" => /\ f.req \in Nat /\ f.win \in Nat
                                    /\ f.adds \in Seq(Entry) /\ f.table \in Seq(Entry)
           /\ f.type = "settings" => f.win \in Nat /\ f.ack \in BOOLEAN
           /\ f.type = "window_update" => f.inc \in Nat
           /\ f.type = "fc_sync" => f.sent \in Nat
           /\ f.type = "dt_sync" => f.table \in Seq(Entry)
  BY DEF Frame, ClientFrame, SyncFrame

\* The client's frames are those the fast path did not add.
LEMMA WhoseFrame ==
    ASSUME NEW f \in Frame
    PROVE  f \in ClientFrame <=> f.type \notin {"fc_sync", "dt_sync"}
  BY DEF Frame, ClientFrame, SyncFrame

\* What frames weigh: the increment of an update or the bytes of a report.
Inc == [f \in Frame |-> IF f.type = "window_update" THEN f.inc ELSE 0]
Snt == [f \in Frame |-> IF f.type = "fc_sync" THEN f.sent ELSE 0]

Weights(w, fs) == [i \in 1 .. Len(fs) |-> w[fs[i]]]
Weight(w, fs) == Total(Weights(w, fs))

\* Grants and reports are weights.
LEMMA AreWeights ==
    /\ Inc \in [Frame -> Nat] /\ Snt \in [Frame -> Nat]
    /\ \A fs \in Seq(Frame) : Grants(fs) = Weight(Inc, fs) /\ Reports(fs) = Weight(Snt, fs)
  <1>1. Inc \in [Frame -> Nat] /\ Snt \in [Frame -> Nat]
    BY Fields DEF Inc, Snt
  <1>2. ASSUME NEW fs \in Seq(Frame)
        PROVE  Grants(fs) = Weight(Inc, fs) /\ Reports(fs) = Weight(Snt, fs)
    <2>1. DOMAIN fs = 1 .. Len(fs) /\ \A i \in 1 .. Len(fs) : fs[i] \in Frame
      OBVIOUS
    <2>2. [i \in DOMAIN fs |-> IF fs[i].type = "window_update" THEN fs[i].inc ELSE 0]
              = Weights(Inc, fs)
      BY <2>1 DEF Weights, Inc
    <2>3. [i \in DOMAIN fs |-> IF fs[i].type = "fc_sync" THEN fs[i].sent ELSE 0]
              = Weights(Snt, fs)
      BY <2>1 DEF Weights, Snt
    <2> QED
      BY <2>2, <2>3 DEF Grants, Reports, Weight
  <1> QED
    BY <1>1, <1>2

\* Each frame weighs what it weighs, and no frames weigh nothing.
LEMMA WeightStep ==
    ASSUME NEW w \in [Frame -> Nat]
    PROVE  /\ Weight(w, <<>>) = 0
           /\ \A fs \in Seq(Frame) : Weight(w, fs) \in Nat
           /\ \A fs \in Seq(Frame), f \in Frame :
                 Weight(w, Append(fs, f)) = Weight(w, fs) + w[f]
  <1>1. ASSUME NEW fs \in Seq(Frame)
        PROVE  Weights(w, fs) \in Seq(Nat) /\ Len(Weights(w, fs)) = Len(fs)
    <2>1. Len(fs) \in Nat /\ \A i \in 1 .. Len(fs) : fs[i] \in Frame
      OBVIOUS
    <2> QED
      BY <2>1 DEF Weights
  <1>2. Weight(w, <<>>) = 0
    <2>1. PICK p : p = <<>>
      OBVIOUS
    <2>2. p \in Seq(Frame) /\ Len(p) = 0
      BY <2>1
    <2>3. Weights(w, p) = <<>>
      BY <1>1, <2>2, NoElements
    <2> QED
      BY <2>1, <2>3, TotalStep DEF Weight
  <1>3. \A fs \in Seq(Frame) : Weight(w, fs) \in Nat
    BY <1>1, TotalStep DEF Weight
  <1>4. ASSUME NEW fs \in Seq(Frame), NEW f \in Frame
        PROVE  Weight(w, Append(fs, f)) = Weight(w, fs) + w[f]
    <2>1. PICK a : a = Append(fs, f)
      OBVIOUS
    <2>2. PICK n : n = Len(fs)
      OBVIOUS
    <2>3. /\ n \in Nat /\ a \in Seq(Frame) /\ Len(a) = n + 1 /\ a[n + 1] = f
          /\ \A i \in 1 .. n : a[i] = fs[i]
      BY <2>1, <2>2
    <2>4. PICK ns : ns = Weights(w, fs)
      OBVIOUS
    <2>5. PICK as : as = Weights(w, a)
      OBVIOUS
    <2>6. /\ ns \in Seq(Nat) /\ Len(ns) = n /\ as \in Seq(Nat) /\ Len(as) = n + 1
          /\ w[f] \in Nat
      BY <1>1, <2>2, <2>3, <2>4, <2>5
    <2>7. as[n + 1] = w[f] /\ \A i \in 1 .. n : as[i] = ns[i]
      BY <2>2, <2>3, <2>4, <2>5 DEF Weights
    <2>8. as = Append(ns, w[f])
      <3>1. w[f] \in Nat /\ Len(as) = Len(ns) + 1 /\ as[Len(ns) + 1] = w[f]
            /\ \A i \in 1 .. Len(ns) : as[i] = ns[i]
        BY <2>6, <2>7
      <3> QED
        BY <2>6, <3>1, AppendIs
    <2> QED
      BY <2>1, <2>4, <2>5, <2>6, <2>8, TotalStep DEF Weight
  <1> QED
    BY <1>2, <1>3, <1>4

\* Sequences of frames weigh together what they weigh apart.
LEMMA WeightConcat ==
    ASSUME NEW w \in [Frame -> Nat], NEW fs \in Seq(Frame), NEW gs \in Seq(Frame)
    PROVE  Weight(w, fs \o gs) = Weight(w, fs) + Weight(w, gs)
  <1> DEFINE D == {qs \in Seq(Frame) : Weight(w, fs \o qs) = Weight(w, fs) + Weight(w, qs)}
  <1>1. <<>> \in D
    <2>1. PICK p : p = <<>>
      OBVIOUS
    <2>2. p \in Seq(Frame) /\ fs \o p = fs /\ Weight(w, p) = 0 /\ Weight(w, fs) \in Nat
      BY <2>1, WeightStep
    <2> QED
      BY <2>1, <2>2
  <1>2. ASSUME NEW qs \in Seq(Frame), NEW f \in Frame, qs \in D PROVE Append(qs, f) \in D
    <2>1. PICK p : p = fs \o qs
      OBVIOUS
    <2>2. p \in Seq(Frame) /\ Append(qs, f) \in Seq(Frame) /\ fs \o Append(qs, f) = Append(p, f)
      BY <2>1
    <2>3. /\ Weight(w, Append(p, f)) = Weight(w, p) + w[f]
          /\ Weight(w, Append(qs, f)) = Weight(w, qs) + w[f]
          /\ Weight(w, p) \in Nat /\ Weight(w, qs) \in Nat /\ Weight(w, fs) \in Nat /\ w[f] \in Nat
      BY <2>2, WeightStep
    <2>4. Weight(w, p) = Weight(w, fs) + Weight(w, qs)
      BY <1>2, <2>1
    <2>5. Weight(w, Append(p, f)) = Weight(w, fs) + Weight(w, Append(qs, f))
      BY <2>3, <2>4
    <2> QED
      BY <2>2, <2>5
  <1> HIDE DEF D
  <1>3. gs \in D
    BY <1>1, <1>2, SeqInd
  <1> QED
    BY <1>3 DEF D

-----------------------------------------------------------------------------
(* What is scanned *)

Passing ==
    [v \in Seq(Frame) |-> [f \in Frame |-> IF f.type = "fc_sync" THEN v ELSE Append(v, f)]]

PassedOf(fs, p) ==
    p = [i \in 0 .. Len(fs) |->
            IF i = 0 THEN <<>>
            ELSE IF fs[i].type = "fc_sync" THEN p[i - 1] ELSE Append(p[i - 1], fs[i])]

\* What is passed on is what a reader that leaves the reports out ends with.
LEMMA PassedFold ==
    ASSUME NEW fs \in Seq(Frame)
    PROVE  Passed(fs) = Fold(Passing, <<>>, fs)
  <1>1. PICK n : n = Len(fs)
    OBVIOUS
  <1>2. n \in Nat /\ \A i \in 1 .. n : fs[i] \in Frame
    BY <1>1
  <1>3. PICK f \in [0 .. n -> Seq(Frame)] : Trace(Passing, <<>>, fs, f)
    <2>1. Reader(Passing, Seq(Frame), Frame) /\ <<>> \in Seq(Frame)
      BY DEF Reader, Passing
    <2> QED
      BY <1>1, <2>1, TraceExists
  <1>4. \A i \in 1 .. n : i - 1 \in 0 .. n /\ f[i - 1] \in Seq(Frame)
    BY <1>2
  <1>5. /\ f[0] = <<>>
        /\ \A i \in 1 .. n :
              f[i] = IF fs[i].type = "fc_sync" THEN f[i - 1] ELSE Append(f[i - 1], fs[i])
    BY <1>1, <1>2, <1>3, <1>4 DEF Trace, Passing
  <1>6. PassedOf(fs, f)
    <2>1. f[0] = <<>>
      BY <1>5
    <2>2. ASSUME NEW i \in 0 .. n
          PROVE  f[i] = IF i = 0 THEN <<>>
                        ELSE IF fs[i].type = "fc_sync" THEN f[i - 1] ELSE Append(f[i - 1], fs[i])
      <3>1. CASE i = 0
        BY <2>1, <3>1, Zenon
      <3>2. CASE i # 0
        <4>1. i \in 1 .. n
          BY <1>2, <3>2
        <4>2. f[i] = IF fs[i].type = "fc_sync" THEN f[i - 1] ELSE Append(f[i - 1], fs[i])
          BY <1>5, <4>1, Zenon
        <4> QED
          BY <3>2, <4>2, Zenon
      <3> QED
        BY <3>1, <3>2
    <2>3. f = [i \in 0 .. n |->
                  IF i = 0 THEN <<>>
                  ELSE IF fs[i].type = "fc_sync" THEN f[i - 1] ELSE Append(f[i - 1], fs[i])]
      BY <2>2, Zenon
    <2> QED
      BY <1>1, <2>3, Zenon DEF PassedOf
  <1>7. PICK t : t = CHOOSE u : PassedOf(fs, u)
    OBVIOUS
  <1>8. PassedOf(fs, t)
    BY <1>6, <1>7
  <1>9. Passed(fs) = t[n]
    BY <1>1, <1>7 DEF Passed, PassedOf
  <1>10. /\ t[0] = <<>>
         /\ \A i \in 1 .. n :
               t[i] = IF fs[i].type = "fc_sync" THEN t[i - 1] ELSE Append(t[i - 1], fs[i])
    <2>1. /\ 0 \in 0 .. n
          /\ \A i \in 1 .. n : i \in 0 .. n /\ i # 0
      BY <1>2
    <2>2. t[0] = <<>>
      BY <1>1, <1>8, <2>1, Zenon DEF PassedOf
    <2>3. ASSUME NEW i \in 1 .. n
          PROVE  t[i] = IF fs[i].type = "fc_sync" THEN t[i - 1] ELSE Append(t[i - 1], fs[i])
      BY <1>1, <1>8, <2>1, Zenon DEF PassedOf
    <2> QED
      BY <2>2, <2>3
  <1>11. t[n] = f[n]
    <2>1. t[0] = f[0] /\ \A i \in 1 .. n : t[i - 1] = f[i - 1] => t[i] = f[i]
      BY <1>5, <1>10
    <2> QED
      BY <1>2, <2>1, Agree
  <1> QED
    BY <1>1, <1>3, <1>9, <1>11, FoldIs

\* Each frame is passed on behind the ones before it, unless it is a report.
LEMMA PassedStep ==
    /\ Passed(<<>>) = <<>>
    /\ \A fs \in Seq(Frame) : Passed(fs) \in Seq(Frame)
    /\ \A fs \in Seq(Frame), f \in Frame :
          Passed(Append(fs, f)) = IF f.type = "fc_sync" THEN Passed(fs) ELSE Append(Passed(fs), f)
  <1>1. PICK V : V = Seq(Frame)
    OBVIOUS
  <1>2. Reader(Passing, V, Frame) /\ <<>> \in V /\ <<>> \in Seq(Frame)
    BY <1>1 DEF Reader, Passing
  <1>3. Passed(<<>>) = <<>>
    <2>1. PICK p : p = <<>>
      OBVIOUS
    <2>2. p \in Seq(Frame)
      BY <2>1
    <2>3. Fold(Passing, <<>>, p) = <<>>
      BY <1>2, <2>1, FoldEmpty
    <2> QED
      BY <2>1, <2>2, <2>3, PassedFold
  <1>4. ASSUME NEW fs \in Seq(Frame) PROVE Passed(fs) \in Seq(Frame)
    <2>1. Fold(Passing, <<>>, fs) \in V
      BY <1>2, FoldType
    <2> QED
      BY <1>1, <2>1, PassedFold
  <1>5. ASSUME NEW fs \in Seq(Frame), NEW f \in Frame
        PROVE  Passed(Append(fs, f))
                  = IF f.type = "fc_sync" THEN Passed(fs) ELSE Append(Passed(fs), f)
    <2>1. Append(fs, f) \in Seq(Frame)
      OBVIOUS
    <2>2. Fold(Passing, <<>>, Append(fs, f)) = Passing[Fold(Passing, <<>>, fs)][f]
      BY <1>2, FoldAppend
    <2>3. Passed(fs) \in Seq(Frame)
      BY <1>4
    <2> QED
      BY <2>1, <2>2, <2>3, PassedFold DEF Passing
  <1> QED
    BY <1>3, <1>4, <1>5

\* If nothing but reports and the client's frames is scanned, the client's are
\* passed on.
LEMMA PassedType ==
    ASSUME NEW fs \in Seq(Frame), \A i \in 1 .. Len(fs) : fs[i].type # "dt_sync"
    PROVE  Passed(fs) \in Seq(ClientFrame)
  <1> DEFINE D == {qs \in Seq(Frame) :
                     (\A i \in 1 .. Len(qs) : qs[i].type # "dt_sync")
                         => Passed(qs) \in Seq(ClientFrame)}
  <1>1. <<>> \in D
    <2>1. PICK p : p = <<>>
      OBVIOUS
    <2>2. p \in Seq(Frame) /\ Passed(p) = p /\ p \in Seq(ClientFrame)
      BY <2>1, PassedStep
    <2> QED
      BY <2>1, <2>2
  <1>2. ASSUME NEW qs \in Seq(Frame), NEW f \in Frame, qs \in D PROVE Append(qs, f) \in D
    <2>1. PICK a : a = Append(qs, f)
      OBVIOUS
    <2>2. PICK n : n = Len(qs)
      OBVIOUS
    <2>3. /\ n \in Nat /\ a \in Seq(Frame) /\ Len(a) = n + 1 /\ a[n + 1] = f
          /\ \A i \in 1 .. n : a[i] = qs[i]
      BY <2>1, <2>2
    <2> SUFFICES ASSUME \A i \in 1 .. Len(a) : a[i].type # "dt_sync"
                 PROVE  Passed(a) \in Seq(ClientFrame)
      BY <2>1, <2>3
    <2>4. f.type # "dt_sync" /\ \A i \in 1 .. Len(qs) : qs[i].type # "dt_sync"
      BY <2>2, <2>3
    <2>5. Passed(qs) \in Seq(ClientFrame)
      BY <1>2, <2>4
    <2>6. CASE f.type = "fc_sync"
      BY <2>1, <2>5, <2>6, PassedStep
    <2>7. CASE f.type # "fc_sync"
      <3>1. f \in ClientFrame
        BY <2>4, <2>7, WhoseFrame
      <3>2. Append(Passed(qs), f) \in Seq(ClientFrame)
        BY <2>5, <3>1
      <3> QED
        BY <2>1, <2>7, <3>2, PassedStep
    <2> QED
      BY <2>6, <2>7
  <1> HIDE DEF D
  <1>3. fs \in D
    BY <1>1, <1>2, SeqInd
  <1> QED
    BY <1>3 DEF D

\* What is not a report in front stays in front.
LEMMA PassedHead ==
    ASSUME NEW fs \in Seq(Frame), fs # <<>>, fs[1].type # "fc_sync"
    PROVE  Passed(fs) # <<>> /\ Passed(fs)[1] = fs[1]
  <1> DEFINE Kept(qs) == Passed(qs) # <<>> /\ Passed(qs)[1] = qs[1]
             D == {qs \in Seq(Frame) : qs # <<>> /\ qs[1].type # "fc_sync" => Kept(qs)}
  <1>1. <<>> \in D
    OBVIOUS
  <1>2. ASSUME NEW qs \in Seq(Frame), NEW f \in Frame, qs \in D PROVE Append(qs, f) \in D
    <2>1. PICK a : a = Append(qs, f)
      OBVIOUS
    <2>2. PICK p : p = Passed(qs)
      OBVIOUS
    <2>3. a \in Seq(Frame) /\ a # <<>>
      BY <2>1
    <2>10. p \in Seq(Frame)
      BY <2>2, PassedStep
    <2>4. Passed(a) = IF f.type = "fc_sync" THEN p ELSE Append(p, f)
      BY <2>1, <2>2, PassedStep
    <2> SUFFICES ASSUME a[1].type # "fc_sync"
                 PROVE  Passed(a) # <<>> /\ Passed(a)[1] = a[1]
      BY <2>1, <2>3
    <2>5. CASE qs = <<>>
      <3>1. a[1] = f /\ p = <<>>
        BY <2>1, <2>2, <2>5, PassedStep
      <3> QED
        BY <2>4, <3>1
    <2>6. CASE qs # <<>>
      <3>1. a[1] = qs[1]
        BY <2>1, <2>6
      <3>2. p # <<>> /\ p[1] = qs[1]
        BY <1>2, <2>2, <2>6, <3>1
      <3>3. Append(p, f) # <<>> /\ Append(p, f)[1] = p[1]
        BY <2>10, <3>2
      <3> QED
        BY <2>4, <3>1, <3>2, <3>3
    <2> QED
      BY <2>5, <2>6
  <1> HIDE DEF D
  <1>3. fs \in D
    BY <1>1, <1>2, SeqInd
  <1> QED
    BY <1>3 DEF D

\* A reader that takes no notice of reports ends alike without them.
LEMMA PassedRead ==
    ASSUME NEW V, NEW g, Reader(g, V, Frame), NEW b \in V, NEW fs \in Seq(Frame),
           \A v \in V, f \in Frame : f.type = "fc_sync" => g[v][f] = v
    PROVE  Fold(g, b, Passed(fs)) = Fold(g, b, fs)
  <1> DEFINE D == {qs \in Seq(Frame) : Fold(g, b, Passed(qs)) = Fold(g, b, qs)}
  <1>1. <<>> \in D
    <2>1. PICK p : p = <<>>
      OBVIOUS
    <2>2. p \in Seq(Frame) /\ Passed(p) = p
      BY <2>1, PassedStep
    <2> QED
      BY <2>1, <2>2
  <1>2. ASSUME NEW qs \in Seq(Frame), NEW f \in Frame, qs \in D PROVE Append(qs, f) \in D
    <2>1. PICK p : p = Passed(qs)
      OBVIOUS
    <2>2. p \in Seq(Frame) /\ Append(qs, f) \in Seq(Frame)
      BY <2>1, PassedStep
    <2>3. Fold(g, b, Append(qs, f)) = g[Fold(g, b, qs)][f]
      BY FoldAppend
    <2>4. Fold(g, b, Append(p, f)) = g[Fold(g, b, p)][f]
      BY <2>2, FoldAppend
    <2>5. Fold(g, b, p) = Fold(g, b, qs) /\ Fold(g, b, qs) \in V
      BY <1>2, <2>1, FoldType
    <2>6. Passed(Append(qs, f)) = IF f.type = "fc_sync" THEN p ELSE Append(p, f)
      BY <2>1, PassedStep
    <2> QED
      BY <2>2, <2>3, <2>4, <2>5, <2>6
  <1> HIDE DEF D
  <1>3. fs \in D
    BY <1>1, <1>2, SeqInd
  <1> QED
    BY <1>3 DEF D

\* Updates of the window are passed on and reports are not.
LEMMA PassedWeight ==
    ASSUME NEW fs \in Seq(Frame)
    PROVE  Weight(Inc, Passed(fs)) = Weight(Inc, fs) /\ Weight(Snt, Passed(fs)) = 0
  <1> DEFINE D == {qs \in Seq(Frame) : /\ Weight(Inc, Passed(qs)) = Weight(Inc, qs)
                                       /\ Weight(Snt, Passed(qs)) = 0}
  <1>1. <<>> \in D
    <2>1. PICK p : p = <<>>
      OBVIOUS
    <2>2. p \in Seq(Frame) /\ Passed(p) = p /\ Weight(Snt, p) = 0
      BY <2>1, PassedStep, WeightStep, AreWeights
    <2> QED
      BY <2>1, <2>2
  <1>2. ASSUME NEW qs \in Seq(Frame), NEW f \in Frame, qs \in D PROVE Append(qs, f) \in D
    <2>1. PICK p : p = Passed(qs)
      OBVIOUS
    <2>2. p \in Seq(Frame) /\ Append(qs, f) \in Seq(Frame)
      BY <2>1, PassedStep
    <2>3. Passed(Append(qs, f)) = IF f.type = "fc_sync" THEN p ELSE Append(p, f)
      BY <2>1, PassedStep
    <2>4. Inc \in [Frame -> Nat] /\ Snt \in [Frame -> Nat]
      BY AreWeights
    <2>5. /\ Weight(Inc, Append(qs, f)) = Weight(Inc, qs) + Inc[f]
          /\ Weight(Inc, Append(p, f)) = Weight(Inc, p) + Inc[f]
          /\ Weight(Snt, Append(p, f)) = Weight(Snt, p) + Snt[f]
          /\ Weight(Inc, qs) \in Nat
      BY <2>2, <2>4, WeightStep
    <2>6. /\ f.type = "fc_sync" => Inc[f] = 0
          /\ f.type # "fc_sync" => Snt[f] = 0
      BY DEF Inc, Snt
    <2>7. Weight(Inc, p) = Weight(Inc, qs) /\ Weight(Snt, p) = 0
      BY <1>2, <2>1
    <2>8. CASE f.type = "fc_sync"
      BY <2>2, <2>3, <2>5, <2>6, <2>7, <2>8
    <2>9. CASE f.type # "fc_sync"
      <3>1. Passed(Append(qs, f)) = Append(p, f)
        BY <2>3, <2>9
      <3>2. Weight(Snt, Append(p, f)) = 0
        BY <2>5, <2>6, <2>7, <2>9
      <3>3. Weight(Inc, Append(p, f)) = Weight(Inc, Append(qs, f))
        BY <2>5, <2>7
      <3> QED
        BY <2>2, <3>1, <3>2, <3>3
    <2> QED
      BY <2>8, <2>9
  <1> HIDE DEF D
  <1>3. fs \in D
    BY <1>1, <1>2, SeqInd
  <1> QED
    BY <1>3 DEF D

\* A chunk comes apart into what is scanned, the first update in it, and the rest.
Parts(fs, seen, mid, rest) ==
    /\ fs = seen \o mid \o rest
    /\ \A i \in 1 .. Len(seen) : seen[i].type # "dt_sync"
    /\ \/ mid = <<>> /\ rest = <<>>
       \/ Len(mid) = 1 /\ mid[1].type = "dt_sync"

Scanned(seen, mid, rest) ==
    /\ out' = out \o Passed(seen)
    /\ sent' = sent + Reports(seen)
    /\ blocks' = IF mid = <<>> THEN blocks ELSE Append(blocks, mid[1].table)
    /\ hold' = rest

Syncs(fs) == {i \in 1 .. Len(fs) : fs[i].type = "dt_sync"}

\* Scanning a chunk does to the parts what Scan says.
LEMMA ScanParts ==
    ASSUME NEW T, NEW fs \in Seq(T), Scan(fs)
    PROVE  \E seen, mid, rest \in Seq(T) :
              Parts(fs, seen, mid, rest) /\ Scanned(seen, mid, rest)
  <1>1. PICK end : end = SelectInSeq(fs, LAMBDA f : f.type = "dt_sync")
    OBVIOUS
  <1>2. end = IF Syncs(fs) # {} THEN Min(Syncs(fs)) ELSE 0
    BY <1>1, Zenon DEF SelectInSeq, Syncs
  <1>3. /\ out' = out \o Passed(IF end = 0 THEN fs ELSE SubSeq(fs, 1, end - 1))
        /\ sent' = sent + Reports(IF end = 0 THEN fs ELSE SubSeq(fs, 1, end - 1))
        /\ blocks' = (IF end = 0 THEN blocks ELSE Append(blocks, fs[end].table))
        /\ hold' = (IF end = 0 THEN <<>> ELSE SubSeq(fs, end + 1, Len(fs)))
    BY <1>1, Zenon DEF Scan
  <1>4. Len(fs) \in Nat /\ \A i \in 1 .. Len(fs) : fs[i] \in T
    OBVIOUS
  <1>5. CASE Syncs(fs) = {}
    <2>1. end = 0 /\ \A i \in 1 .. Len(fs) : fs[i].type # "dt_sync"
      BY <1>2, <1>5 DEF Syncs
    <2>2. PICK none : none = <<>>
      OBVIOUS
    <2>3. none \in Seq(T) /\ fs = fs \o none \o none
      BY <2>2
    <2>4. Parts(fs, fs, none, none)
      BY <2>1, <2>2, <2>3 DEF Parts
    <2>5. Scanned(fs, none, none)
      BY <1>3, <2>1, <2>2 DEF Scanned
    <2> QED
      BY <2>3, <2>4, <2>5
  <1>6. CASE Syncs(fs) # {}
    <2>1. Syncs(fs) \in SUBSET Nat
      BY <1>4 DEF Syncs
    <2>2. end \in Syncs(fs) /\ \A i \in Syncs(fs) : end <= i
      <3>1. \E m \in Syncs(fs) : \A i \in Syncs(fs) : m <= i
        BY <1>6, <2>1, LeastIn
      <3>2. end = CHOOSE x \in Syncs(fs) : \A y \in Syncs(fs) : x =< y
        BY <1>2, <1>6, Zenon DEF Min
      <3> QED
        BY <3>1, <3>2, Zenon
    <2>3. end \in 1 .. Len(fs) /\ fs[end].type = "dt_sync"
      BY <2>2 DEF Syncs
    <2>4. PICK seen : seen = SubSeq(fs, 1, end - 1)
      OBVIOUS
    <2>5. PICK mid : mid = <<fs[end]>>
      OBVIOUS
    <2>6. PICK rest : rest = SubSeq(fs, end + 1, Len(fs))
      OBVIOUS
    <2>7. /\ Len(seen) = end - 1
          /\ \A i \in 1 .. end - 1 : seen[i] = fs[i]
      BY <1>4, <2>3, <2>4
    <2>8. mid \in Seq(T) /\ Len(mid) = 1 /\ mid[1] = fs[end]
      BY <1>4, <2>3, <2>5
    <2>9. end \in 0 .. Len(fs) /\ end - 1 \in 0 .. Len(fs) /\ (end - 1) + 1 = end
      BY <1>4, <2>3
    <2>10. seen \in Seq(T) /\ rest \in Seq(T) /\ fs = seen \o mid \o rest
      <3>1. PICK a : a = SubSeq(fs, 1, end)
        OBVIOUS
      <3>2. rest \in Seq(T) /\ fs = a \o rest /\ a \in Seq(T)
        BY <2>6, <2>9, <3>1, SplitSeq
      <3>3. Len(a) = end /\ \A i \in 1 .. end : a[i] = fs[i]
        BY <1>4, <2>3, <3>1
      <3>4. seen \in Seq(T)
        BY <2>4, <2>9, SplitSeq
      <3>5. /\ Len(a) = Len(seen) + 1 /\ a[Len(seen) + 1] = fs[end]
            /\ fs[end] \in T /\ \A i \in 1 .. Len(seen) : a[i] = seen[i]
        BY <1>4, <2>3, <2>7, <3>3
      <3>6. a = Append(seen, fs[end])
        BY <3>2, <3>4, <3>5, AppendIs
      <3>7. a = seen \o mid
        BY <2>5, <3>4, <3>5, <3>6
      <3> QED
        BY <3>2, <3>4, <3>7
    <2>11. \A i \in 1 .. Len(seen) : seen[i].type # "dt_sync"
      <3> SUFFICES ASSUME NEW i \in 1 .. Len(seen), seen[i].type = "dt_sync" PROVE FALSE
        OBVIOUS
      <3>1. i \in 1 .. Len(fs) /\ fs[i].type = "dt_sync" /\ ~(end <= i)
        BY <1>4, <2>3, <2>7
      <3> QED
        BY <2>2, <3>1 DEF Syncs
    <2>12. Parts(fs, seen, mid, rest)
      BY <2>3, <2>8, <2>10, <2>11 DEF Parts
    <2>13. end # 0 /\ mid # <<>>
      <3>1. end # 0
        BY <1>4, <2>3
      <3>2. mid # <<>>
        BY <2>5
      <3> QED
        BY <3>1, <3>2
    <2>14. Scanned(seen, mid, rest)
      <3>1. out' = out \o Passed(seen) /\ sent' = sent + Reports(seen)
        BY <1>3, <2>4, <2>13
      <3>2. blocks' = Append(blocks, mid[1].table)
        BY <1>3, <2>8, <2>13
      <3>3. hold' = rest
        BY <1>3, <2>6, <2>13
      <3> QED
        BY <2>13, <3>1, <3>2, <3>3 DEF Scanned
    <2> QED
      BY <2>8, <2>10, <2>12, <2>14
  <1> QED
    BY <1>5, <1>6

\* A read takes some of what waits and scans it.
LEMMA ReadParts ==
    ASSUME NEW T, ingress \in Seq(T), Read
    PROVE  \E fs \in Seq(T) : /\ fs # <<>> /\ ingress = fs \o ingress'
                              /\ ingress' \in Seq(T) /\ Scan(fs)
  <1>1. PICK n \in 1 .. Len(ingress) : /\ ingress' = SubSeq(ingress, n + 1, Len(ingress))
                                       /\ Scan(SubSeq(ingress, 1, n))
    BY DEF Read
  <1>2. PICK fs : fs = SubSeq(ingress, 1, n)
    OBVIOUS
  <1>3. n \in 0 .. Len(ingress) /\ Len(fs) = n /\ n # 0
    BY <1>1, <1>2
  <1>4. fs \in Seq(T) /\ ingress' \in Seq(T) /\ ingress = fs \o ingress'
    BY <1>1, <1>2, <1>3, SplitSeq
  <1>5. fs # <<>>
    BY <1>3
  <1> QED
    BY <1>1, <1>2, <1>4, <1>5

-----------------------------------------------------------------------------
(* What the program has not seen *)

\* The message it runs on comes in front of all others.
LEMMA RunsOnUnseen ==
    ASSUME NEW S, msgs \in Seq(Seq(S)), msg \in Seq(S), NEW t, RunsOn(t)
    PROVE  /\ Unseen = Cur \o FlattenSeq(msgs')
           /\ Cur = <<Head(Cur)>> \o Tail(Cur)
           /\ FlattenSeq(msgs') \in Seq(S)
  <1>1. Cur \in Seq(S) /\ Cur # <<>> /\ msgs' \in Seq(Seq(S))
    BY RunsOnType DEF RunsOn
  <1>2. Cur = <<Head(Cur)>> \o Tail(Cur)
    BY <1>1
  <1>3. FlattenSeq(msgs') \in Seq(S)
    BY <1>1, FlattenType
  <1>4. Unseen = Cur \o FlattenSeq(msgs')
    <2>1. CASE msg # <<>>
      BY <2>1 DEF RunsOn, Cur, Unseen
    <2>2. CASE msg = <<>>
      <3>1. msgs # <<>> /\ Cur = Head(msgs) /\ msgs' = Tail(msgs)
        BY <1>1, <2>2 DEF RunsOn, Cur
      <3>2. msgs = <<Head(msgs)>> \o msgs' /\ Head(msgs) \in Seq(S)
        BY <3>1
      <3>3. FlattenSeq(msgs) = Head(msgs) \o FlattenSeq(msgs')
        BY <1>1, <3>2, FlattenCons
      <3>4. FlattenSeq(msgs) \in Seq(S)
        BY FlattenType
      <3>5. Unseen = FlattenSeq(msgs)
        BY <2>2, <3>4 DEF Unseen
      <3> QED
        BY <3>1, <3>3, <3>5
    <2> QED
      BY <2>1, <2>2
  <1> QED
    BY <1>2, <1>3, <1>4

\* What is passed on without the program running was the first to come.
LEMMA PassOnUnseen ==
    ASSUME NEW S, msgs \in Seq(Seq(S)), msgs # <<>>, msgs' = Tail(msgs)
    PROVE  /\ FlattenSeq(msgs) = Head(msgs) \o FlattenSeq(msgs')
           /\ Head(msgs) \in Seq(S) /\ FlattenSeq(msgs') \in Seq(S)
  <1>1. msgs = <<Head(msgs)>> \o msgs' /\ Head(msgs) \in Seq(S) /\ msgs' \in Seq(Seq(S))
    OBVIOUS
  <1> QED
    BY <1>1, FlattenCons, FlattenType

\* What the client sends comes behind all it sent before.
LEMMA PutUnseen ==
    ASSUME NEW S, msgs \in Seq(Seq(S)), msg \in Seq(S), NEW fs \in Seq(S), Put(fs),
           msg' = msg
    PROVE  Unseen' = Unseen \o fs /\ Unseen \in Seq(S) /\ Unseen' \in Seq(S)
  <1>1. FlattenSeq(msgs) \in Seq(S)
    BY FlattenType
  <1>2. FlattenSeq(msgs') = FlattenSeq(msgs) \o fs
    <2>1. CASE msgs' = Append(msgs, fs)
      BY <2>1, FlattenAppend
    <2>2. CASE msgs # <<>> /\ msgs' = Append(Front(msgs), Last(msgs) \o fs)
      <3>1. PICK a : a = Front(msgs)
        OBVIOUS
      <3>2. PICK l : l = Last(msgs)
        OBVIOUS
      <3>3. Len(msgs) \in Nat /\ Len(msgs) > 0
        BY <2>2
      <3>4. a \in Seq(Seq(S)) /\ l \in Seq(S) /\ l \o fs \in Seq(S)
        BY <3>1, <3>2, <3>3 DEF Front, Last
      <3>5. msgs = Append(a, l)
        BY <3>1, <3>2, <3>3 DEF Front, Last
      <3>6. FlattenSeq(msgs) = FlattenSeq(a) \o l
        BY <3>4, <3>5, FlattenAppend
      <3>7. FlattenSeq(msgs') = FlattenSeq(a) \o (l \o fs)
        BY <2>2, <3>1, <3>2, <3>4, FlattenAppend
      <3>8. FlattenSeq(a) \in Seq(S)
        BY <3>4, FlattenType
      <3> QED
        BY <3>4, <3>6, <3>7, <3>8, SMTT(30)
    <2> QED
      BY <2>1, <2>2 DEF Put
  <1>3. PICK f : f = FlattenSeq(msgs)
    OBVIOUS
  <1>4. f \in Seq(S) /\ FlattenSeq(msgs') = f \o fs
    BY <1>1, <1>2, <1>3
  <1>5. msg \o (f \o fs) = (msg \o f) \o fs /\ msg \o f \in Seq(S)
    BY <1>4
  <1> QED
    BY <1>3, <1>4, <1>5 DEF Unseen

-----------------------------------------------------------------------------
(* What is followed of the flow control *)

FlowCtl == [conn_window : 0 .. MaxWindow, stream_window : Nat, unreported : Nat]

\* A frame opens the window by no more than it says.
LEMMA TrackOne ==
    ASSUME NEW f \in ClientFrame, NEW fc \in FlowCtl
    PROVE  /\ TrackFrame(f, fc) \in FlowCtl
           /\ TrackFrame(f, fc).conn_window <= fc.conn_window + Inc[f]
           /\ TrackFrame(f, fc).unreported = fc.unreported
           /\ TrackFrame(f, fc).stream_window =
                 IF f.type = "settings" /\ ~f.ack THEN f.win ELSE fc.stream_window
  <1>1. f \in Frame
    BY DEF Frame
  <1>2. CASE f.type = "window_update"
    <2>1. f.inc \in Nat /\ Inc[f] = f.inc
      BY <1>1, <1>2, Fields DEF Inc
    <2>2. PICK w : w = IF fc.conn_window + f.inc > MaxWindow THEN MaxWindow
                       ELSE fc.conn_window + f.inc
      OBVIOUS
    <2>3. w \in 0 .. MaxWindow /\ w <= fc.conn_window + f.inc
      BY <2>1, <2>2 DEF FlowCtl
    <2>4. TrackFrame(f, fc) = [fc EXCEPT !.conn_window = w]
      BY <1>2, <2>2 DEF TrackFrame
    <2> QED
      BY <1>2, <2>1, <2>3, <2>4 DEF FlowCtl
  <1>3. CASE f.type = "settings" /\ ~f.ack
    <2>1. f.win \in Nat /\ Inc[f] = 0
      BY <1>1, <1>3, Fields DEF Inc
    <2>2. TrackFrame(f, fc) = [fc EXCEPT !.stream_window = f.win]
      BY <1>3 DEF TrackFrame
    <2> QED
      BY <1>3, <2>1, <2>2 DEF FlowCtl
  <1>4. CASE f.type # "window_update" /\ ~(f.type = "settings" /\ ~f.ack)
    <2>1. Inc[f] = 0
      BY <1>1, <1>4 DEF Inc
    <2>2. TrackFrame(f, fc) = fc
      BY <1>4 DEF TrackFrame
    <2> QED
      BY <1>4, <2>1, <2>2 DEF FlowCtl
  <1> QED
    BY <1>2, <1>3, <1>4

Tracking == [fc \in FlowCtl |-> [f \in ClientFrame |-> TrackFrame(f, fc)]]

TrackedOf(fs, fc, t) ==
    t = [i \in 0 .. Len(fs) |-> IF i = 0 THEN fc ELSE TrackFrame(fs[i], t[i - 1])]

\* What is followed is a message up to MAX_FLOW_FRAMES, frame after frame.
LEMMA TrackFold ==
    ASSUME NEW fs \in Seq(ClientFrame), NEW fc \in FlowCtl
    PROVE  Track(fs, fc) = Fold(Tracking, fc, Shortened(fs, MaxFlowFrames))
  <1>1. PICK seen : seen = Shortened(fs, MaxFlowFrames)
    OBVIOUS
  <1>2. seen \in Seq(ClientFrame)
    <2>1. (IF Len(fs) < MaxFlowFrames THEN Len(fs) ELSE MaxFlowFrames) \in 0 .. Len(fs)
      OBVIOUS
    <2> QED
      BY <1>1, <2>1, SplitSeq DEF Shortened
  <1>3. PICK n : n = Len(seen)
    OBVIOUS
  <1>4. n \in Nat /\ \A i \in 1 .. n : seen[i] \in ClientFrame
    BY <1>2, <1>3
  <1>5. PICK f \in [0 .. n -> FlowCtl] : Trace(Tracking, fc, seen, f)
    <2>1. Reader(Tracking, FlowCtl, ClientFrame)
      BY TrackOne DEF Reader, Tracking
    <2> QED
      BY <1>2, <1>3, <2>1, TraceExists
  <1>6. \A i \in 1 .. n : i - 1 \in 0 .. n /\ f[i - 1] \in FlowCtl
    BY <1>4
  <1>7. f[0] = fc /\ \A i \in 1 .. n : f[i] = TrackFrame(seen[i], f[i - 1])
    BY <1>3, <1>4, <1>5, <1>6 DEF Trace, Tracking
  <1>8. TrackedOf(seen, fc, f)
    <2>1. \A i \in 0 .. n : f[i] = IF i = 0 THEN fc ELSE TrackFrame(seen[i], f[i - 1])
      BY <1>4, <1>7
    <2>2. f = [i \in 0 .. n |-> IF i = 0 THEN fc ELSE TrackFrame(seen[i], f[i - 1])]
      BY <2>1, Zenon
    <2> QED
      BY <1>3, <2>2, Zenon DEF TrackedOf
  <1>9. PICK t : t = CHOOSE u : TrackedOf(seen, fc, u)
    OBVIOUS
  <1>10. TrackedOf(seen, fc, t)
    BY <1>8, <1>9
  <1>11. Track(fs, fc) = t[n]
    BY <1>1, <1>3, <1>9, Zenon DEF Track, TrackedOf
  <1>12. t[0] = fc /\ \A i \in 1 .. n : t[i] = TrackFrame(seen[i], t[i - 1])
    <2>1. 0 \in 0 .. n /\ \A i \in 1 .. n : i \in 0 .. n /\ i # 0
      BY <1>4
    <2>2. t[0] = fc
      BY <1>3, <1>10, <2>1, Zenon DEF TrackedOf
    <2>3. ASSUME NEW i \in 1 .. n PROVE t[i] = TrackFrame(seen[i], t[i - 1])
      BY <1>3, <1>10, <2>1, Zenon DEF TrackedOf
    <2> QED
      BY <2>2, <2>3
  <1>13. t[n] = f[n]
    <2>1. t[0] = f[0] /\ \A i \in 1 .. n : t[i - 1] = f[i - 1] => t[i] = f[i]
      BY <1>7, <1>12
    <2> QED
      BY <1>4, <2>1, Agree
  <1>14. Fold(Tracking, fc, seen) = f[n]
    BY <1>2, <1>3, <1>5, FoldIs
  <1> QED
    BY <1>1, <1>11, <1>13, <1>14

\* A message opens the window by no more than its frames say.
LEMMA TrackAll ==
    ASSUME NEW fs \in Seq(ClientFrame), NEW fc \in FlowCtl
    PROVE  /\ Track(fs, fc) \in FlowCtl
           /\ Track(fs, fc).conn_window <= fc.conn_window + Weight(Inc, fs)
           /\ Track(fs, fc).unreported = fc.unreported
  <1> DEFINE Kept(t, qs) == /\ t \in FlowCtl
                            /\ t.conn_window <= fc.conn_window + Weight(Inc, qs)
                            /\ t.unreported = fc.unreported
             D == {qs \in Seq(ClientFrame) : Kept(Fold(Tracking, fc, qs), qs)}
  <1>1. Reader(Tracking, FlowCtl, ClientFrame)
    BY TrackOne DEF Reader, Tracking
  <1>2. ClientFrame \subseteq Frame /\ Seq(ClientFrame) \subseteq Seq(Frame)
    BY SeqGrows DEF Frame
  <1>3. <<>> \in D
    <2>1. PICK p : p = <<>>
      OBVIOUS
    <2>2. p \in Seq(ClientFrame) /\ Fold(Tracking, fc, p) = fc /\ Weight(Inc, p) = 0
      BY <1>1, <2>1, FoldEmpty, WeightStep, AreWeights
    <2> QED
      BY <2>1, <2>2 DEF FlowCtl
  <1>4. ASSUME NEW qs \in Seq(ClientFrame), NEW f \in ClientFrame, qs \in D
        PROVE  Append(qs, f) \in D
    <2>1. PICK t : t = Fold(Tracking, fc, qs)
      OBVIOUS
    <2>2. t \in FlowCtl /\ Kept(t, qs)
      BY <1>4, <2>1
    <2>3. Fold(Tracking, fc, Append(qs, f)) = TrackFrame(f, t)
      BY <1>1, <2>1, <2>2, FoldAppend DEF Tracking
    <2>4. qs \in Seq(Frame) /\ f \in Frame /\ Inc \in [Frame -> Nat]
      BY <1>2, AreWeights
    <2>5. /\ Weight(Inc, Append(qs, f)) = Weight(Inc, qs) + Inc[f]
          /\ Weight(Inc, qs) \in Nat /\ Inc[f] \in Nat
      BY <2>4, WeightStep
    <2>6. /\ TrackFrame(f, t) \in FlowCtl
          /\ TrackFrame(f, t).conn_window <= t.conn_window + Inc[f]
          /\ TrackFrame(f, t).unreported = t.unreported
      BY <2>2, TrackOne
    <2>7. Kept(TrackFrame(f, t), Append(qs, f))
      <3>1. /\ t.conn_window \in Int /\ fc.conn_window \in Int
            /\ TrackFrame(f, t).conn_window \in Int
        BY <2>2, <2>6 DEF FlowCtl
      <3> QED
        BY <2>2, <2>5, <2>6, <3>1
    <2> QED
      BY <2>3, <2>7
  <1> HIDE DEF D
  <1>5. PICK n \in 0 .. Len(fs) : Shortened(fs, MaxFlowFrames) = SubSeq(fs, 1, n)
    BY DEF Shortened
  <1>6. PICK seen : seen = SubSeq(fs, 1, n)
    OBVIOUS
  <1>7. PICK rest : rest = SubSeq(fs, n + 1, Len(fs))
    OBVIOUS
  <1>8. seen \in Seq(ClientFrame) /\ rest \in Seq(ClientFrame) /\ fs = seen \o rest
    BY <1>5, <1>6, <1>7, SplitSeq
  <1>9. Weight(Inc, seen) <= Weight(Inc, fs)
    <2>1. seen \in Seq(Frame) /\ rest \in Seq(Frame) /\ Inc \in [Frame -> Nat]
      BY <1>2, <1>8, AreWeights
    <2>2. Weight(Inc, fs) = Weight(Inc, seen) + Weight(Inc, rest)
      BY <1>8, <2>1, WeightConcat
    <2>3. Weight(Inc, seen) \in Nat /\ Weight(Inc, rest) \in Nat
      BY <2>1, WeightStep
    <2> QED
      BY <2>2, <2>3
  <1>10. seen \in D
    BY <1>3, <1>4, <1>8, SeqInd
  <1>11. Track(fs, fc) = Fold(Tracking, fc, seen)
    BY <1>5, <1>6, TrackFold
  <1>12. Kept(Track(fs, fc), seen)
    BY <1>10, <1>11 DEF D
  <1>13. /\ Weight(Inc, seen) \in Nat /\ Weight(Inc, fs) \in Nat
         /\ Track(fs, fc).conn_window \in Int /\ fc.conn_window \in Int
    <2>1. fs \in Seq(Frame) /\ seen \in Seq(Frame) /\ Inc \in [Frame -> Nat]
      BY <1>2, <1>8, AreWeights
    <2>2. Weight(Inc, seen) \in Nat /\ Weight(Inc, fs) \in Nat
      BY <2>1, WeightStep
    <2> QED
      BY <1>12, <2>2 DEF FlowCtl
  <1> QED
    BY <1>9, <1>12, <1>13

-----------------------------------------------------------------------------
(* The inductive invariant *)

IsAck(f) == f.type = "settings" /\ f.ack

\* The frames that may be on their way: an acknowledgement only if the client
\* has sent it.
Sendable(a) == {f \in ClientFrame : IsAck(f) => a}

\* HandshakeFirst is not inductive: that H2_HANDSHAKED means an acknowledgement
\* was sent follows from where one can be.
HandshakeInv ==
    /\ msgs \in Seq(Seq(Sendable(acked))) /\ msg \in Seq(Sendable(acked))
    /\ acked \in BOOLEAN
    /\ reqs \in Nat /\ stream_win \in Nat /\ client_table \in Seq(Entry)
    /\ h2_state = H2_HANDSHAKED => acked
    /\ acked => task \notin {"protocol", "handshake"}

\* What could be sent before the acknowledgement can be sent after it.
LEMMA SendableGrows ==
    /\ Seq(Sendable(FALSE)) \subseteq Seq(Sendable(TRUE))
    /\ Seq(Seq(Sendable(FALSE))) \subseteq Seq(Seq(Sendable(TRUE)))
  <1>1. Sendable(FALSE) \subseteq Sendable(TRUE)
    BY DEF Sendable
  <1>2. Seq(Sendable(FALSE)) \subseteq Seq(Sendable(TRUE))
    BY <1>1, SeqGrows
  <1> QED
    BY <1>2, SeqGrows

\* Only the acknowledgement of a server that has sent its SETTINGS is one.
LEMMA ClientHandshake ==
    ASSUME HandshakeInv, Client
    PROVE  HandshakeInv'
  <1> USE DEF HandshakeInv
  <1>u. UNCHANGED <<msg, h2_state, task>>
    BY DEF Client, Open, Ack, ChangeWindow, Request, UpdateWindow, fastVars, userVars
  <1>1. ASSUME NEW w \in Windows, Open(w) PROVE HandshakeInv'
    <2> DEFINE fs == <<[type |-> "preface"], Settings(w, FALSE)>>
    <2>1. fs \in Seq(Sendable(acked))
      <3>1. [type |-> "preface"] \in Sendable(acked)
        BY DEF Sendable, ClientFrame, IsAck
      <3>2. Settings(w, FALSE) \in Sendable(acked)
        BY DEF Sendable, ClientFrame, IsAck, Settings
      <3> QED
        BY <3>1, <3>2, ShortSeq
    <2>2. msgs' \in Seq(Seq(Sendable(acked)))
      BY <1>1, <2>1, PutType DEF Open
    <2> QED
      BY <1>u, <1>1, <2>2 DEF Open
  <1>2. CASE Ack
    <2>1. msgs \in Seq(Seq(Sendable(TRUE))) /\ msg \in Seq(Sendable(TRUE))
      BY <1>2, SendableGrows DEF Ack
    <2>2. <<Settings(0, TRUE)>> \in Seq(Sendable(TRUE))
      <3>1. Settings(0, TRUE) \in Sendable(TRUE)
        BY DEF Sendable, ClientFrame, Settings
      <3> QED
        BY <3>1, ShortSeq
    <2>3. msgs' \in Seq(Seq(Sendable(TRUE)))
      BY <1>2, <2>1, <2>2, PutType DEF Ack
    <2> QED
      BY <1>u, <1>2, <2>1, <2>3 DEF Ack
  <1>3. ASSUME NEW w \in Windows, ChangeWindow(w) PROVE HandshakeInv'
    <2>1. <<Settings(w, FALSE)>> \in Seq(Sendable(acked))
      <3>1. Settings(w, FALSE) \in Sendable(acked)
        BY DEF Sendable, ClientFrame, IsAck, Settings
      <3> QED
        BY <3>1, ShortSeq
    <2>2. msgs' \in Seq(Seq(Sendable(acked)))
      BY <1>3, <2>1, PutType DEF ChangeWindow
    <2> QED
      BY <1>u, <1>3, <2>2 DEF ChangeWindow
  <1>4. ASSUME NEW new \in Entries, NEW fast \in BOOLEAN, Request(new, fast)
        PROVE  HandshakeInv'
    <2> DEFINE entries == [i \in 1 .. new |-> <<reqs + 1, i>>]
               f == [type |-> "headers", req |-> reqs + 1, fast |-> fast,
                     adds |-> entries, table |-> client_table, win |-> stream_win]
    <2>1. entries \in Seq(Entry)
      BY DEF Entry
    <2>2. client_table' \in Seq(Entry)
      BY <1>4, <2>1, AddedType DEF Request
    <2>3. <<f>> \in Seq(Sendable(acked))
      <3>1. f \in ClientFrame
        BY <2>1 DEF ClientFrame
      <3>2. f \in Sendable(acked)
        BY <3>1 DEF Sendable, IsAck
      <3> QED
        BY <3>2
    <2>4. Put(<<f>>)
      BY <1>4 DEF Request
    <2>5. msgs' \in Seq(Seq(Sendable(acked)))
      BY <2>3, <2>4, PutType
    <2> QED
      BY <1>u, <1>4, <2>2, <2>5 DEF Request
  <1>5. ASSUME NEW n \in 1 .. FastSent + srv_sent, UpdateWindow(n) PROVE HandshakeInv'
    <2>1. <<[type |-> "window_update", inc |-> n]>> \in Seq(Sendable(acked))
      <3>1. [type |-> "window_update", inc |-> n] \in Sendable(acked)
        BY DEF Sendable, ClientFrame, IsAck
      <3> QED
        BY <3>1
    <2>2. msgs' \in Seq(Seq(Sendable(acked)))
      BY <1>5, <2>1, PutType DEF UpdateWindow
    <2> QED
      BY <1>u, <1>5, <2>2 DEF UpdateWindow
  <1> QED
    BY <1>1, <1>2, <1>3, <1>4, <1>5 DEF Client

\* The program takes the handshake for complete at an acknowledgement only.
LEMMA KernelHandshake ==
    ASSUME HandshakeInv, Kernel
    PROVE  HandshakeInv'
  <1> USE DEF HandshakeInv
  <1>u. UNCHANGED <<acked, reqs, stream_win, client_table, task>>
    BY DEF Kernel, userVars, clientVars
  <1>1. CASE PassOn
    <2>1. msgs' \in Seq(Seq(Sendable(acked)))
      BY <1>1 DEF PassOn
    <2> QED
      BY <1>u, <1>1, <2>1 DEF PassOn, fastVars
  <1>2. ASSUME NEW t, RunsOn(t), msg' \in {<<>>, Tail(Cur)},
               h2_state' \in {h2_state, H2_UPGRADED, Handshaked}
        PROVE  HandshakeInv'
    <2>1. /\ msgs' \in Seq(Seq(Sendable(acked)))
          /\ Head(Cur) \in Sendable(acked) /\ Tail(Cur) \in Seq(Sendable(acked))
      BY <1>2, RunsOnType
    <2>2. <<>> \in Seq(Sendable(acked))
      OBVIOUS
    <2>3. h2_state' = H2_HANDSHAKED => acked
      BY <1>2, <2>1 DEF Handshaked, Sendable, IsAck, H2_UPGRADED, H2_HANDSHAKED
    <2> QED
      BY <1>u, <1>2, <2>1, <2>2, <2>3
  <1>3. CASE Upgrade
    BY <1>2, <1>3 DEF Upgrade
  <1>4. CASE LeaveToUserSpace
    BY <1>2, <1>4 DEF LeaveToUserSpace
  <1>5. CASE Serve
    BY <1>2, <1>5 DEF Serve, TakeRequest
  <1>6. CASE ServeFails
    BY <1>2, <1>6 DEF ServeFails
  <1>7. CASE Forward
    BY <1>2, <1>7 DEF Forward
  <1>8. CASE SyncFails
    BY <1>2, <1>8 DEF SyncFails
  <1> QED
    BY <1>1, <1>3, <1>4, <1>5, <1>6, <1>7, <1>8 DEF Kernel, Verdict, Mishap

\* User space never goes back to its handshake.
LEMMA ServerHandshakeKept ==
    ASSUME HandshakeInv, Server
    PROVE  HandshakeInv'
  <1>1. UNCHANGED <<msgs, msg, h2_state, acked, reqs, stream_win, client_table>>
    BY DEF Server, fastVars, clientVars
  <1>2. task' \in {"protocol", "handshake"} => task \in {"protocol", "handshake"}
    BY DEF Server, Poll, ReadProtocol, ServerHandshake, Take, TakeFails, ReadOut, Withhold,
           Rescan, ReadSocket, WaitForSocket, SocketWakes, Accept, Decode, Stall, Respond
  <1> QED
    BY <1>1, <1>2 DEF HandshakeInv

\* Only Serve answers a request.
LEMMA OnlyServeAnswers ==
    ASSUME [Next]_vars, answered' # answered
    PROVE  Serve
  <1>1. CASE UNCHANGED vars
    BY <1>1 DEF vars, fastVars
  <1>2. CASE Client
    BY <1>2 DEF Client, Open, Ack, ChangeWindow, Request, UpdateWindow, fastVars
  <1>3. CASE Server
    BY <1>3 DEF Server, fastVars
  <1>4. CASE Kernel
    BY <1>4 DEF Kernel, Verdict, Mishap, Upgrade, LeaveToUserSpace, PassOn, ServeFails,
                Forward, SyncFails, fastVars
  <1> QED
    BY <1>1, <1>2, <1>3, <1>4 DEF Next

\* The handshake's invariant holds at the start.
LEMMA HandshakeStarts ==
    ASSUME Init
    PROVE  HandshakeInv
  <1>1. msgs \in Seq(Seq(Sendable(acked))) /\ msg \in Seq(Sendable(acked))
    BY DEF Init, FastInit
  <1>2. acked = FALSE /\ reqs \in Nat /\ stream_win \in Nat
    BY DEF Init
  <1>3. client_table \in Seq(Entry)
    BY DEF Init
  <1>4. h2_state # H2_HANDSHAKED
    BY DEF Init, FastInit, H2_HANDSHAKED
  <1> QED
    BY <1>1, <1>2, <1>3, <1>4 DEF HandshakeInv

\* Every step keeps it.
LEMMA HandshakeKept ==
    ASSUME HandshakeInv, [Next]_vars
    PROVE  HandshakeInv'
  <1>1. CASE UNCHANGED vars
    BY <1>1 DEF HandshakeInv, vars, fastVars, userVars, clientVars
  <1> QED
    BY <1>1, ClientHandshake, KernelHandshake, ServerHandshakeKept DEF Next

\* No request is answered before the client has acknowledged the server's
\* SETTINGS, whatever the messages carry and however they are cut: a response of
\* the fast path never preempts the server's preface.
THEOREM NoAnswerBeforeHandshake == Spec => HandshakeFirst
  <1>1. HandshakeInv /\ [Next]_vars
            => [answered' # answered => acked /\ task # "handshake"]_vars
    BY OnlyServeAnswers DEF HandshakeInv, Serve, CanServe
  <1> QED
    BY <1>1, HandshakeStarts, HandshakeKept, PTL DEF Spec, HandshakeFirst

-----------------------------------------------------------------------------
(* Types *)

Tables == {t \in Seq(Entry) : Len(t) <= TableCap}

\* What may wait in user space's way.
Waiting == {f \in Frame : f.type = "dt_sync" => f.table \in Tables}

FastInv ==
    /\ h2_state \in {0, H2_UPGRADED, H2_HANDSHAKED}
    /\ dt_dirty \in BOOLEAN /\ left \in BOOLEAN /\ down \in BOOLEAN /\ missed \in BOOLEAN
    /\ flow_ctl \in FlowCtl
    /\ mirror \in Tables
    /\ answered \subseteq Nat

UserInv ==
    /\ ingress \in Seq(Waiting) /\ hold \in Seq(Waiting)
    /\ out \in Seq(ClientFrame) /\ buf \in Seq(ClientFrame)
    /\ task \in {"protocol", "handshake", "woken", "polling", "idle", "ended"}
    /\ blocks \in Seq(Tables) /\ Len(blocks) <= 1
    /\ table \in Tables
    /\ sent \in Nat /\ capacity \in Int /\ incoming \in Nat /\ owed \in Nat
    /\ srv_sent \in Nat /\ delivered \subseteq Nat /\ early \in BOOLEAN

ClientInv ==
    /\ opened \in BOOLEAN
    /\ reqs \in 0 .. MaxReqs /\ updates \in 0 .. MaxUpdates /\ granted \in Nat
    /\ client_table \in Tables

\* The program has passed nothing on.
Untouched == h2_state = 0 /\ ~left

\* That the codec finds a preface to take depends on how the connection starts:
\* it is the first thing the client sends and the first that is passed on.
StartInv ==
    /\ ~opened => msgs = <<>> /\ msg = <<>>
    /\ Untouched => /\ msg = <<>> /\ ingress = <<>> /\ task = "protocol"
                    /\ opened => msgs # <<>> /\ msgs[1] # <<>> /\ msgs[1][1].type = "preface"
    /\ left => msg = <<>> /\ ~down
    /\ task = "protocol" => /\ out = <<>> /\ hold = <<>> /\ buf = <<>> /\ blocks = <<>>
                            /\ IF ingress = <<>> THEN Untouched
                               ELSE ingress[1].type = "preface"
    /\ task = "handshake" => buf = <<>> /\ out # <<>> /\ out[1].type = "preface"

TypeInv == HandshakeInv /\ FastInv /\ UserInv /\ ClientInv /\ StartInv

\* The client's frames are frames that may wait.
LEMMA ClientFramesWait ==
    /\ ClientFrame \subseteq Waiting /\ Waiting \subseteq Frame
    /\ \A a \in BOOLEAN : Sendable(a) \subseteq ClientFrame
    /\ Seq(ClientFrame) \subseteq Seq(Waiting) /\ Seq(Waiting) \subseteq Seq(Frame)
    /\ \A a \in BOOLEAN : Seq(Sendable(a)) \subseteq Seq(ClientFrame)
    /\ \A a \in BOOLEAN : Seq(Seq(Sendable(a))) \subseteq Seq(Seq(ClientFrame))
  <1>1. ClientFrame \subseteq Waiting
    <2>1. ASSUME NEW f \in ClientFrame PROVE f \in Waiting
      <3>1. f \in Frame
        BY DEF Frame
      <3> QED
        BY <3>1, WhoseFrame DEF Waiting
    <2> QED
      BY <2>1
  <1>2. Waiting \subseteq Frame
    BY DEF Waiting
  <1>3. \A a \in BOOLEAN : Sendable(a) \subseteq ClientFrame
    BY DEF Sendable
  <1>4. \A a \in BOOLEAN : Seq(Sendable(a)) \subseteq Seq(ClientFrame)
    BY <1>3, SeqGrows
  <1>5. \A a \in BOOLEAN : Seq(Seq(Sendable(a))) \subseteq Seq(Seq(ClientFrame))
    BY <1>4, SeqGrows
  <1>6. Seq(ClientFrame) \subseteq Seq(Waiting) /\ Seq(Waiting) \subseteq Seq(Frame)
    BY <1>1, <1>2, SeqGrows
  <1> QED
    BY <1>1, <1>2, <1>3, <1>4, <1>5, <1>6

\* What the invariant says of the frames the client sent.
LEMMA Sent ==
    ASSUME HandshakeInv
    PROVE  msgs \in Seq(Seq(ClientFrame)) /\ msg \in Seq(ClientFrame)
  BY ClientFramesWait DEF HandshakeInv

\* What is put behind something leaves what is in front.
LEMMA PutFront ==
    ASSUME NEW S, msgs \in Seq(Seq(S)), NEW fs \in Seq(S), Put(fs)
    PROVE  /\ msgs = <<>> => msgs' = <<fs>>
           /\ msgs # <<>> /\ msgs[1] # <<>>
                => msgs' # <<>> /\ msgs'[1] # <<>> /\ msgs'[1][1] = msgs[1][1]
  <1>1. CASE msgs = <<>>
    BY <1>1 DEF Put
  <1>2. CASE msgs # <<>> /\ msgs[1] # <<>>
    <2>1. PICK n : n = Len(msgs)
      OBVIOUS
    <2>2. n \in Nat /\ n >= 1 /\ msgs[1] \in Seq(S) /\ msgs[n] \in Seq(S)
      BY <1>2, <2>1
    <2>3. CASE msgs' = Append(msgs, fs)
      BY <1>2, <2>1, <2>2, <2>3
    <2>4. CASE msgs' = Append(Front(msgs), Last(msgs) \o fs)
      <3>1. PICK a : a = Front(msgs)
        OBVIOUS
      <3>2. a \in Seq(Seq(S)) /\ Len(a) = n - 1 /\ \A i \in 1 .. n - 1 : a[i] = msgs[i]
        BY <2>1, <2>2, <3>1 DEF Front
      <3>3. msgs' = Append(a, msgs[n] \o fs) /\ msgs[n] \o fs \in Seq(S)
        BY <2>1, <2>2, <2>4, <3>1 DEF Last
      <3>4. CASE n = 1
        <4>1. PICK x : x = msgs[1] \o fs
          OBVIOUS
        <4>2. x \in Seq(S) /\ x[1] = msgs[1][1] /\ x # <<>>
          BY <1>2, <2>2, <4>1
        <4>3. msgs' = Append(a, x) /\ Len(a) = 0
          BY <3>2, <3>3, <3>4, <4>1
        <4>4. a = <<>>
          BY <3>2, <4>3, NoElements
        <4>5. msgs' = <<x>>
          BY <4>3, <4>4
        <4>6. msgs' # <<>> /\ msgs'[1] = x
          BY <4>5
        <4> QED
          BY <1>2, <4>2, <4>6
      <3>5. CASE n # 1
        <4>1. msgs'[1] = msgs[1] /\ msgs' # <<>>
          BY <2>2, <3>2, <3>3, <3>5
        <4> QED
          BY <1>2, <4>1
      <3> QED
        BY <3>4, <3>5
    <2> QED
      BY <1>2, <2>3, <2>4 DEF Put
  <1> QED
    BY <1>1, <1>2

\* A client's step keeps the types and the start.
LEMMA ClientTypes ==
    ASSUME TypeInv, Client
    PROVE  FastInv' /\ UserInv' /\ ClientInv' /\ StartInv'
  <1>1. UNCHANGED <<ingress, fastVars, userVars>>
    BY DEF Client, Open, Ack, ChangeWindow, Request, UpdateWindow
  <1>2. FastInv' /\ UserInv'
    BY <1>1 DEF TypeInv, FastInv, UserInv, fastVars, userVars, scanVars, codecVars
  <1>3. ClientInv'
    <2> USE DEF TypeInv, ClientInv, HandshakeInv
    <2>1. ASSUME NEW w \in Windows, Open(w) PROVE ClientInv'
      BY <2>1 DEF Open
    <2>2. CASE Ack
      BY <2>2 DEF Ack
    <2>3. ASSUME NEW w \in Windows, ChangeWindow(w) PROVE ClientInv'
      BY <2>3 DEF ChangeWindow
    <2>4. ASSUME NEW new \in Entries, NEW fast \in BOOLEAN, Request(new, fast)
          PROVE  ClientInv'
      <3>1. [i \in 1 .. new |-> <<reqs + 1, i>>] \in Seq(Entry)
        BY DEF Entry
      <3>2. client_table \in Seq(Entry)
        BY DEF Tables
      <3>3. client_table' \in Tables
        BY <2>4, <3>1, <3>2, AddedType DEF Request, Tables
      <3> QED
        BY <2>4, <3>3 DEF Request
    <2>5. ASSUME NEW n \in 1 .. FastSent + srv_sent, UpdateWindow(n) PROVE ClientInv'
      BY <2>5 DEF UpdateWindow
    <2> QED
      BY <2>1, <2>2, <2>3, <2>4, <2>5 DEF Client
  <1>4. StartInv'
    <2>1. opened' /\ \E fs \in Seq(ClientFrame) :
                        /\ Put(fs)
                        /\ opened \/ (fs # <<>> /\ fs[1].type = "preface")
      <3>1. ASSUME NEW w \in Windows, Open(w)
            PROVE  opened' /\ \E fs \in Seq(ClientFrame) :
                                 Put(fs) /\ fs # <<>> /\ fs[1].type = "preface"
        <4>1. [type |-> "preface"] \in ClientFrame /\ Settings(w, FALSE) \in ClientFrame
          BY DEF ClientFrame, Settings
        <4>2. PICK fs : fs = <<[type |-> "preface"], Settings(w, FALSE)>>
          OBVIOUS
        <4>3. fs \in Seq(ClientFrame) /\ fs # <<>> /\ fs[1].type = "preface" /\ Put(fs)
          BY <3>1, <4>1, <4>2, ShortSeq DEF Open
        <4> QED
          BY <3>1, <4>3 DEF Open
      <3>2. CASE Ack
        <4>1. <<Settings(0, TRUE)>> \in Seq(ClientFrame)
          BY ShortSeq DEF ClientFrame, Settings
        <4> QED
          BY <3>2, <4>1 DEF Ack
      <3>3. ASSUME NEW w \in Windows, ChangeWindow(w)
            PROVE  opened /\ opened' /\ \E fs \in Seq(ClientFrame) : Put(fs)
        <4>1. <<Settings(w, FALSE)>> \in Seq(ClientFrame)
          BY ShortSeq DEF ClientFrame, Settings
        <4> QED
          BY <3>3, <4>1 DEF ChangeWindow
      <3>4. ASSUME NEW new \in Entries, NEW fast \in BOOLEAN, Request(new, fast)
            PROVE  opened /\ opened' /\ \E fs \in Seq(ClientFrame) : Put(fs)
        <4>1. PICK f : f = [type |-> "headers", req |-> reqs + 1, fast |-> fast,
                            adds |-> [i \in 1 .. new |-> <<reqs + 1, i>>],
                            table |-> client_table, win |-> stream_win]
          OBVIOUS
        <4>2. [i \in 1 .. new |-> <<reqs + 1, i>>] \in Seq(Entry)
          BY DEF TypeInv, HandshakeInv, Entry
        <4>3. f \in ClientFrame
          BY <4>1, <4>2 DEF TypeInv, HandshakeInv, ClientFrame
        <4>4. <<f>> \in Seq(ClientFrame)
          BY <4>3
        <4> QED
          BY <3>4, <4>1, <4>4 DEF Request
      <3>5. ASSUME NEW n \in 1 .. FastSent + srv_sent, UpdateWindow(n)
            PROVE  opened /\ opened' /\ \E fs \in Seq(ClientFrame) : Put(fs)
        <4>1. <<[type |-> "window_update", inc |-> n]>> \in Seq(ClientFrame)
          BY ShortSeq DEF ClientFrame
        <4> QED
          BY <3>5, <4>1 DEF UpdateWindow
      <3> QED
        BY <3>1, <3>2, <3>3, <3>4, <3>5 DEF Client, Ack
    <2>2. PICK fs \in Seq(ClientFrame) :
             Put(fs) /\ (opened \/ (fs # <<>> /\ fs[1].type = "preface"))
      BY <2>1
    <2>3. msgs \in Seq(Seq(ClientFrame))
      BY Sent DEF TypeInv
    <2>4. Untouched' => msgs' # <<>> /\ msgs'[1] # <<>> /\ msgs'[1][1].type = "preface"
      <3> SUFFICES ASSUME Untouched
                   PROVE  msgs' # <<>> /\ msgs'[1] # <<>> /\ msgs'[1][1].type = "preface"
        BY <1>1 DEF Untouched, fastVars
      <3>1. CASE opened
        BY <2>2, <2>3, <3>1, PutFront DEF TypeInv, StartInv
      <3>2. CASE ~opened
        <4>1. msgs = <<>>
          BY <3>2 DEF TypeInv, StartInv
        <4>2. msgs' = <<fs>>
          BY <2>2, <2>3, <4>1, PutFront
        <4> QED
          BY <2>2, <3>2, <4>2
      <3> QED
        BY <3>1, <3>2
    <2> QED
      BY <1>1, <2>1, <2>4
      DEF TypeInv, StartInv, Untouched, fastVars, userVars, scanVars, codecVars
  <1> QED
    BY <1>2, <1>3, <1>4

\* What the program finds in front: at first, the preface.
LEMMA InFront ==
    ASSUME TypeInv, NEW t, RunsOn(t)
    PROVE  /\ Cur \in Seq(ClientFrame) /\ Cur # <<>> /\ Cur = <<Head(Cur)>> \o Tail(Cur)
           /\ Head(Cur) \in ClientFrame /\ Tail(Cur) \in Seq(ClientFrame)
           /\ Head(Cur).type \in t
           /\ Untouched => Head(Cur).type = "preface"
           /\ Parsed \in Tables
  <1>1. msgs \in Seq(Seq(ClientFrame)) /\ msg \in Seq(ClientFrame)
    BY Sent DEF TypeInv
  <1>2. /\ Cur \in Seq(ClientFrame) /\ Head(Cur) \in ClientFrame
        /\ Tail(Cur) \in Seq(ClientFrame) /\ Head(Cur).type \in t
    BY <1>1, RunsOnType
  <1>3. Cur # <<>>
    BY DEF RunsOn
  <1>4. Cur = <<Head(Cur)>> \o Tail(Cur)
    BY <1>2, <1>3
  <1>5. Untouched => Head(Cur).type = "preface"
    <2> SUFFICES ASSUME Untouched PROVE Head(Cur).type = "preface"
      OBVIOUS
    <2>1. msg = <<>> /\ msgs # <<>>
      BY <1>3 DEF TypeInv, StartInv, Cur
    <2>2. Cur = msgs[1] /\ opened
      BY <2>1 DEF TypeInv, StartInv, ClientInv, Cur
    <2> QED
      BY <1>2, <1>3, <2>1, <2>2 DEF TypeInv, StartInv
  <1>6. Parsed \in Tables
    <2>1. mirror \in Tables /\ mirror \in Seq(Entry)
      BY DEF TypeInv, FastInv, Tables
    <2>2. CASE Head(Cur).type = "headers"
      <3>1. Head(Cur) \in Frame
        BY <1>2 DEF Frame
      <3>2. Head(Cur).adds \in Seq(Entry)
        BY <2>2, <3>1, Fields
      <3> QED
        BY <2>1, <2>2, <3>2, AddedType DEF Parsed, Tables
    <2>3. CASE Head(Cur).type # "headers"
      BY <2>1, <2>3 DEF Parsed
    <2> QED
      BY <2>2, <2>3
  <1> QED
    BY <1>2, <1>3, <1>4, <1>5, <1>6

\* What the fast path adds may wait.
LEMMA SyncsWait ==
    ASSUME TypeInv
    PROVE  DtSync \in Seq(Waiting) /\ \A n \in Nat : FcSync(n) \subseteq Seq(Waiting)
  <1>1. mirror \in Tables /\ mirror \in Seq(Entry)
    BY DEF TypeInv, FastInv, Tables
  <1>2. PICK f : f = [type |-> "dt_sync", table |-> mirror]
    OBVIOUS
  <1>3. f \in Frame
    BY <1>1, <1>2 DEF Frame, SyncFrame
  <1>4. f \in Waiting
    BY <1>1, <1>2, <1>3 DEF Waiting
  <1>5. <<f>> \in Seq(Waiting) /\ <<>> \in Seq(Waiting)
    BY <1>4
  <1>6. DtSync \in Seq(Waiting)
    BY <1>2, <1>5 DEF DtSync, TableBefore
  <1>7. ASSUME NEW n \in Nat PROVE FcSync(n) \subseteq Seq(Waiting)
    <2>1. PICK r : r = [type |-> "fc_sync", sent |-> n]
      OBVIOUS
    <2>2. r \in Frame
      BY <2>1 DEF Frame, SyncFrame
    <2>3. r \in Waiting
      BY <2>1, <2>2 DEF Waiting
    <2>4. <<r>> \in Seq(Waiting)
      BY <2>3
    <2>5. FcSync(n) \subseteq {<<>>, <<r>>}
      BY <2>1 DEF FcSync
    <2> QED
      BY <1>5, <2>4, <2>5
  <1> QED
    BY <1>6, <1>7

\* What is passed on comes behind what waits.
LEMMA BehindIngress ==
    ASSUME ingress \in Seq(Waiting), NEW q \in Seq(Waiting), ingress' = ingress \o q
    PROVE  /\ ingress' \in Seq(Waiting)
           /\ ingress # <<>> => ingress' # <<>> /\ ingress'[1] = ingress[1]
           /\ ingress = <<>> => ingress' = q
  OBVIOUS

\* If something was passed on before, what is in front of the queue does not change.
LEMMA StartsOnce ==
    ASSUME TypeInv, NEW q \in Seq(Waiting), ingress' = ingress \o q, ~Untouched \/ ~Untouched',
           Untouched => q # <<>> /\ q[1].type = "preface",
           UNCHANGED <<task, out, hold, buf, blocks, opened>>, opened,
           Untouched' => Untouched, left' => msg' = <<>> /\ ~down'
    PROVE  StartInv'
  <1>1. /\ ingress' \in Seq(Waiting)
        /\ ingress # <<>> => ingress' # <<>> /\ ingress'[1] = ingress[1]
        /\ ingress = <<>> => ingress' = q
    BY BehindIngress DEF TypeInv, UserInv
  <1>2. ~Untouched'
    OBVIOUS
  <1>3. task = "protocol" => ingress' # <<>> /\ ingress'[1].type = "preface"
    BY <1>1 DEF TypeInv, StartInv
  <1> QED
    BY <1>2, <1>3 DEF TypeInv, StartInv, Untouched

\* A step of the program keeps the types and the start.
LEMMA KernelTypes ==
    ASSUME TypeInv, Kernel
    PROVE  FastInv' /\ UserInv' /\ ClientInv' /\ StartInv'
  <1>1. UNCHANGED <<userVars, clientVars>>
    BY DEF Kernel
  <1>2. ClientInv'
    BY <1>1 DEF TypeInv, ClientInv, clientVars
  <1>3. ingress' \in Seq(Waiting) => UserInv'
    BY <1>1 DEF TypeInv, UserInv, userVars, scanVars, codecVars
  <1>4. UNCHANGED <<task, out, hold, buf, blocks, opened>>
    BY <1>1 DEF userVars, scanVars, codecVars, clientVars
  <1>5. ingress \in Seq(Waiting) /\ <<>> \in Seq(Waiting)
    BY DEF TypeInv, UserInv
  <1>6. msgs # <<>> \/ msg # <<>> => opened
    BY DEF TypeInv, StartInv, FastInv, ClientInv, Untouched
  <1>7. CASE PassOn
    <2>1. Head(msgs) \in Seq(Waiting) /\ opened
      BY <1>6, <1>7, Sent, ClientFramesWait DEF TypeInv, PassOn
    <2>2. UNCHANGED fastVars /\ ingress' = ingress \o Head(msgs) /\ left
      BY <1>7 DEF PassOn
    <2>3. FastInv'
      BY <2>2 DEF TypeInv, FastInv, fastVars
    <2>4. StartInv'
      BY <1>4, <2>1, <2>2, StartsOnce DEF TypeInv, StartInv, Untouched, fastVars
    <2> QED
      BY <1>2, <1>3, <2>1, <2>2, <2>3, <2>4, BehindIngress, <1>5
  <1>8. CASE Upgrade
    <2>1. RunsOn({"preface"}) /\ h2_state = 0
      BY <1>8 DEF Upgrade
    <2>2. Head(Cur) \in ClientFrame /\ Untouched /\ Cur # <<>>
      BY <2>1, InFront DEF Untouched, RunsOn
    <2>3. Head(Cur).type = "preface"
      BY <2>1, <2>2, InFront
    <2>4. PICK q : q = <<Head(Cur)>>
      OBVIOUS
    <2>5. q \in Seq(Waiting) /\ q # <<>> /\ q[1].type = "preface"
      BY <2>2, <2>3, <2>4, ClientFramesWait
    <2>6. ingress' = ingress \o q
      <3>1. PICK h : h = Head(Cur)
        OBVIOUS
      <3>2. h \in Waiting /\ ingress' = Append(ingress, h) /\ q = <<h>>
        BY <1>8, <2>2, <2>4, <3>1, ClientFramesWait DEF Upgrade
      <3> QED
        BY <1>5, <3>2
    <2>7. opened
      BY <1>6, <2>2 DEF Cur
    <2>8. ~Untouched' /\ ~left'
      BY <1>8, <2>1 DEF Upgrade, RunsOn, Untouched, H2_UPGRADED
    <2>9. StartInv'
      BY <1>4, <2>5, <2>6, <2>7, <2>8, StartsOnce
    <2>10. FastInv'
      BY <1>8 DEF Upgrade, TypeInv, FastInv, FlowCtl, H2_UPGRADED
    <2> QED
      BY <1>2, <1>3, <1>5, <2>5, <2>6, <2>9, <2>10, BehindIngress
  <1>9. CASE LeaveToUserSpace
    <2>1. RunsOn({"preface", "settings", "window_update", "headers"})
      BY <1>9 DEF LeaveToUserSpace
    <2>2. Cur \in Seq(Waiting) /\ Cur # <<>> /\ (Untouched => Cur[1].type = "preface")
      BY <2>1, InFront, ClientFramesWait
    <2>3. opened
      BY <1>6, <2>2 DEF Cur
    <2>4. ingress' = ingress \o Cur /\ left' /\ msg' = <<>> /\ ~down'
      BY <1>9, <2>1 DEF LeaveToUserSpace, RunsOn
    <2>5. ~Untouched'
      BY <2>4 DEF Untouched
    <2>6. StartInv'
      BY <1>4, <2>2, <2>3, <2>4, <2>5, StartsOnce
    <2>7. FastInv'
      BY <1>9 DEF LeaveToUserSpace, TypeInv, FastInv
    <2> QED
      BY <1>2, <1>3, <1>5, <2>2, <2>4, <2>6, <2>7, BehindIngress
  <1>10. CASE Serve \/ ServeFails
    <2>1. RunsOn({"headers"}) /\ ~Untouched /\ ingress' = ingress /\ ~left /\ ~left'
      BY <1>10 DEF Serve, ServeFails, RunsOn, CanServe, Untouched, H2_HANDSHAKED
    <2>2. opened
      BY <1>6, <2>1 DEF RunsOn, Cur
    <2>3. Parsed \in Tables /\ Head(Cur) \in ClientFrame /\ Head(Cur).type = "headers"
      BY <2>1, InFront
    <2>4. PICK q \in Seq(Waiting) : q = <<>>
      BY <1>5
    <2>5. ingress' = ingress \o q
      BY <1>5, <2>1, <2>4
    <2>6. h2_state' = h2_state
      BY <1>10 DEF Serve, ServeFails
    <2>7. StartInv'
      BY <1>4, <2>1, <2>2, <2>5, <2>6, StartsOnce DEF Untouched
    <2>8. FastInv'
      <3>1. CASE Serve
        <4>1. Head(Cur).req \in Nat
          BY <2>3, Fields DEF Frame
        <4>2. Spend(flow_ctl) \in FlowCtl
          <5>1. flow_ctl \in FlowCtl /\ flow_ctl.conn_window >= RouteLen
            BY <3>1 DEF Serve, CanServe, Fits, TypeInv, FastInv
          <5>2. /\ flow_ctl.conn_window \in 0 .. MaxWindow /\ flow_ctl.stream_window \in Nat
                /\ flow_ctl.unreported \in Nat
            BY <5>1 DEF FlowCtl
          <5>3. /\ flow_ctl.conn_window - RouteLen \in 0 .. MaxWindow
                /\ flow_ctl.unreported + RouteLen \in Nat
            BY <5>1, <5>2
          <5> QED
            BY <5>1, <5>3 DEF Spend, FlowCtl
        <4> QED
          BY <2>3, <3>1, <4>1, <4>2 DEF Serve, TypeInv, FastInv
      <3>2. CASE ServeFails
        BY <2>3, <3>2 DEF ServeFails, TypeInv, FastInv
      <3> QED
        BY <1>10, <3>1, <3>2
    <2> QED
      BY <1>2, <1>3, <1>5, <2>1, <2>7, <2>8
  <1>11. CASE Forward
    <2>1. RunsOn({"settings", "window_update", "headers"}) /\ ~Untouched /\ ~left /\ ~left'
      BY <1>11 DEF Forward, RunsOn, Untouched
    <2>2. Cur \in Seq(Waiting) /\ Cur \in Seq(ClientFrame) /\ Cur # <<>> /\ Parsed \in Tables
      BY <2>1, InFront, ClientFramesWait
    <2>3. opened
      BY <1>6, <2>2 DEF Cur
    <2>4. PICK report \in FcSync(flow_ctl.unreported) :
             /\ flow_ctl' = Report(Track(Cur, flow_ctl), report)
             /\ ingress' = ingress \o report \o DtSync \o Cur
      BY <1>11 DEF Forward
    <2>5. flow_ctl \in FlowCtl /\ flow_ctl.unreported \in Nat
      BY DEF TypeInv, FastInv, FlowCtl
    <2>6. report \in Seq(Waiting) /\ DtSync \in Seq(Waiting)
      BY <2>4, <2>5, SyncsWait
    <2>7. PICK q : q = report \o DtSync \o Cur
      OBVIOUS
    <2>8. q \in Seq(Waiting) /\ ingress' = ingress \o q
      <3>1. PICK rd : rd = report \o DtSync
        OBVIOUS
      <3>2. rd \in Seq(Waiting) /\ q = rd \o Cur
        BY <2>6, <2>7, <3>1
      <3>3. (ingress \o report) \o DtSync = ingress \o rd
        BY <1>5, <2>6, <3>1, SMTT(30)
      <3>4. (ingress \o rd) \o Cur = ingress \o q
        BY <1>5, <2>2, <3>2, SMTT(30)
      <3> QED
        BY <2>2, <2>4, <3>2, <3>3, <3>4
    <2>9. Handshaked \in {h2_state, H2_HANDSHAKED}
      BY DEF Handshaked
    <2>10. ~Untouched'
      BY <1>11, <2>1, <2>9 DEF Forward, Untouched, H2_HANDSHAKED
    <2>11. StartInv'
      BY <1>4, <2>1, <2>3, <2>8, <2>10, StartsOnce
    <2>12. flow_ctl' \in FlowCtl
      <3>1. Track(Cur, flow_ctl) \in FlowCtl
        BY <2>2, <2>5, TrackAll
      <3> QED
        BY <2>4, <3>1 DEF Report, FlowCtl
    <2>13. FastInv'
      BY <1>11, <2>2, <2>9, <2>12 DEF Forward, TypeInv, FastInv, Carries
    <2> QED
      BY <1>2, <1>3, <1>5, <2>8, <2>11, <2>13, BehindIngress
  <1>12. CASE SyncFails
    <2>1. /\ RunsOn({"settings", "window_update", "headers"}) /\ ~Untouched /\ ~left /\ ~left'
          /\ ingress' = ingress
      BY <1>12 DEF SyncFails, RunsOn, Untouched
    <2>2. Cur \in Seq(ClientFrame) /\ Cur # <<>> /\ Parsed \in Tables
      BY <2>1, InFront
    <2>3. opened
      BY <1>6, <2>2 DEF Cur
    <2>4. PICK q \in Seq(Waiting) : q = <<>>
      BY <1>5
    <2>5. ingress' = ingress \o q
      BY <1>5, <2>1, <2>4
    <2>6. Handshaked \in {h2_state, H2_HANDSHAKED}
      BY DEF Handshaked
    <2>7. ~Untouched'
      BY <1>12, <2>1, <2>6 DEF SyncFails, Untouched, H2_HANDSHAKED
    <2>8. StartInv'
      BY <1>4, <2>1, <2>3, <2>5, <2>7, StartsOnce
    <2>9. Track(Cur, flow_ctl) \in FlowCtl
      BY <2>2, TrackAll DEF TypeInv, FastInv
    <2>10. FastInv'
      BY <1>12, <2>2, <2>6, <2>9 DEF SyncFails, TypeInv, FastInv
    <2> QED
      BY <1>2, <1>3, <1>5, <2>1, <2>8, <2>10
  <1> QED
    BY <1>7, <1>8, <1>9, <1>10, <1>11, <1>12 DEF Kernel, Verdict, Mishap

\* Scanning hands the client's frames on, one update, and what is behind it.
LEMMA ScanTypes ==
    ASSUME NEW fs \in Seq(Waiting), Scan(fs), blocks = <<>>, out \in Seq(ClientFrame),
           sent \in Nat
    PROVE  /\ out' \in Seq(ClientFrame) /\ hold' \in Seq(Waiting)
           /\ blocks' \in Seq(Tables) /\ Len(blocks') <= 1 /\ sent' \in Nat
           /\ out = <<>> /\ fs # <<>> /\ fs[1].type = "preface"
                => out' # <<>> /\ out'[1].type = "preface"
  <1>1. PICK seen, mid, rest \in Seq(Waiting) :
           Parts(fs, seen, mid, rest) /\ Scanned(seen, mid, rest)
    BY ScanParts
  <1>2. seen \in Seq(Frame) /\ \A i \in 1 .. Len(seen) : seen[i].type # "dt_sync"
    BY <1>1, ClientFramesWait DEF Parts
  <1>3. Passed(seen) \in Seq(ClientFrame)
    BY <1>2, PassedType
  <1>4. Reports(seen) \in Nat
    <2>1. Reports(seen) = Weight(Snt, seen) /\ Snt \in [Frame -> Nat]
      BY <1>2, AreWeights
    <2> QED
      BY <1>2, <2>1, WeightStep
  <1>5. out' \in Seq(ClientFrame) /\ sent' \in Nat /\ hold' \in Seq(Waiting)
    BY <1>1, <1>3, <1>4 DEF Scanned
  <1>6. blocks' \in Seq(Tables) /\ Len(blocks') <= 1
    <2>1. CASE mid = <<>>
      BY <1>1, <2>1 DEF Scanned
    <2>2. CASE mid # <<>>
      <3>1. Len(mid) = 1 /\ mid[1].type = "dt_sync"
        BY <1>1, <2>2 DEF Parts
      <3>2. mid[1] \in Waiting
        BY <1>1, <3>1, OneElement
      <3>3. mid[1].table \in Tables
        BY <3>1, <3>2 DEF Waiting
      <3>4. blocks' = Append(blocks, mid[1].table)
        BY <1>1, <2>2 DEF Scanned
      <3>5. blocks' = <<mid[1].table>>
        BY <3>4
      <3> QED
        BY <3>3, <3>5
    <2> QED
      BY <2>1, <2>2
  <1>7. ASSUME out = <<>>, fs # <<>>, fs[1].type = "preface"
        PROVE  out' # <<>> /\ out'[1].type = "preface"
    <2>1. seen # <<>>
      <3> SUFFICES ASSUME seen = <<>> PROVE FALSE
        OBVIOUS
      <3>1. CASE mid = <<>>
        BY <1>1, <1>7, <3>1 DEF Parts
      <3>2. CASE mid # <<>>
        <4>1. fs = mid \o rest /\ Len(mid) = 1 /\ mid[1].type = "dt_sync"
          BY <1>1, <3>2 DEF Parts
        <4>2. fs[1] = mid[1]
          <5>1. mid \in Seq(Waiting) /\ rest \in Seq(Waiting)
            BY <1>1
          <5>2. mid # <<>>
            BY <3>2
          <5>3. (mid \o rest)[1] = mid[1]
            BY <5>1, <5>2
          <5> QED
            BY <4>1, <5>3
        <4> QED
          BY <1>7, <4>1, <4>2
      <3> QED
        BY <3>1, <3>2
    <2>2. fs[1] = seen[1]
      <3>1. fs = seen \o mid \o rest
        BY <1>1 DEF Parts
      <3>2. (seen \o mid)[1] = seen[1] /\ seen \o mid # <<>> /\ seen \o mid \in Seq(Waiting)
        BY <1>1, <2>1
      <3> QED
        BY <1>1, <3>1, <3>2
    <2>3. Passed(seen) # <<>> /\ Passed(seen)[1] = seen[1]
      BY <1>2, <1>7, <2>1, <2>2, PassedHead
    <2>4. out' = Passed(seen)
      BY <1>1, <1>3, <1>7 DEF Scanned
    <2> QED
      BY <1>7, <2>2, <2>3, <2>4
  <1> QED
    BY <1>5, <1>6, <1>7

\* A step of user space keeps the types and the start.
LEMMA ServerTypes ==
    ASSUME TypeInv, Server
    PROVE  FastInv' /\ UserInv' /\ ClientInv' /\ StartInv'
  <1>1. UNCHANGED <<msgs, fastVars, clientVars>>
    BY DEF Server
  <1>2. FastInv' /\ ClientInv'
    BY <1>1 DEF TypeInv, FastInv, ClientInv, fastVars, clientVars
  <1>u. UserInv /\ StartInv
    BY DEF TypeInv
  <1>3. UNCHANGED <<opened, msg, h2_state, left, down>>
    BY <1>1 DEF fastVars, clientVars
  <1>4. ASSUME task' \notin {"protocol", "handshake"}, task # "protocol"
        PROVE  StartInv'
    BY <1>u, <1>1, <1>3, <1>4 DEF StartInv, Untouched
  <1>5. CASE ReadProtocol
    <2>1. task = "protocol" /\ Read /\ task' = "handshake" /\ UNCHANGED <<codecVars, early>>
          /\ ingress # <<>>
      BY <1>5 DEF ReadProtocol, Read
    <2>2. out = <<>> /\ hold = <<>> /\ buf = <<>> /\ blocks = <<>> /\ ingress[1].type = "preface"
      BY <1>u, <2>1 DEF StartInv
    <2>3. PICK fs \in Seq(Waiting) : /\ fs # <<>> /\ ingress = fs \o ingress'
                                     /\ ingress' \in Seq(Waiting) /\ Scan(fs)
      BY <1>u, <2>1, ReadParts DEF UserInv
    <2>4. fs[1].type = "preface"
      <3>1. fs[1] = ingress[1]
        BY <2>3
      <3> QED
        BY <2>2, <3>1
    <2>5. /\ out' \in Seq(ClientFrame) /\ hold' \in Seq(Waiting)
          /\ blocks' \in Seq(Tables) /\ Len(blocks') <= 1 /\ sent' \in Nat
          /\ out' # <<>> /\ out'[1].type = "preface"
      BY <1>u, <2>2, <2>3, <2>4, ScanTypes DEF UserInv
    <2>6. UserInv'
      BY <1>u, <2>1, <2>3, <2>5 DEF UserInv, codecVars
    <2>7. ~Untouched
      BY <1>u, <2>1 DEF StartInv
    <2>8. StartInv'
      BY <1>u, <1>1, <1>3, <2>1, <2>2, <2>5, <2>7 DEF StartInv, Untouched, codecVars
    <2> QED
      BY <1>2, <2>6, <2>8
  <1>6. CASE ServerHandshake
    <2>1. out # <<>> /\ task # "protocol" /\ task' = "woken"
      BY <1>u, <1>6 DEF ServerHandshake, StartInv
    <2>2. out' \in Seq(ClientFrame)
      BY <1>u, <1>6, <2>1 DEF ServerHandshake, UserInv
    <2>3. UserInv'
      BY <1>u, <1>6, <2>2 DEF ServerHandshake, UserInv, codecVars
    <2> QED
      BY <1>2, <1>4, <2>1, <2>3
  <1>7. CASE Take
    <2>1. task = "woken" /\ task' = "polling"
      BY <1>7 DEF Take
    <2>2. table' \in Tables
      <3>1. blocks # <<>> => Last(blocks) \in Tables
        BY <1>u DEF UserInv, Last
      <3> QED
        BY <1>u, <1>7, <3>1 DEF Take, UserInv
    <2>3. blocks' \in Seq(Tables) /\ Len(blocks') <= 1 /\ sent' \in Nat /\ capacity' \in Int
      BY <1>u, <1>7 DEF Take, UserInv
    <2>4. early' \in BOOLEAN
      BY <1>u, <1>7 DEF Take, UserInv, Carries
    <2>5. UserInv'
      BY <1>u, <1>7, <2>2, <2>3, <2>4 DEF Take, UserInv
    <2> QED
      BY <1>2, <1>4, <2>1, <2>5
  <1>8. CASE TakeFails
    <2>1. task = "woken" /\ task' = "ended" /\ UserInv'
      BY <1>u, <1>8 DEF TakeFails, UserInv, scanVars, codecVars
    <2> QED
      BY <1>2, <1>4, <2>1
  <1>9. CASE ReadOut
    <2>1. task = "polling" /\ task' = task /\ UserInv'
      BY <1>u, <1>9 DEF ReadOut, UserInv
    <2> QED
      BY <1>2, <1>4, <2>1
  <1>10. CASE Withhold \/ WaitForSocket \/ Stall
    <2>1. /\ task = "polling" /\ task' \in {"woken", "idle"}
          /\ UNCHANGED <<ingress, scanVars, buf, table, capacity, srv_sent, delivered, early>>
          /\ \/ Accept
             \/ UNCHANGED <<incoming, owed>>
      BY <1>10 DEF Withhold, WaitForSocket, Stall, Dry, Accept
    <2>2. incoming' \in Nat /\ owed' \in Nat
      BY <1>u, <2>1, BodyAssumption DEF Accept, UserInv
    <2>3. UserInv'
      BY <1>u, <2>1, <2>2 DEF UserInv, scanVars
    <2> QED
      BY <1>2, <1>4, <2>1, <2>3
  <1>11. CASE Rescan \/ ReadSocket
    <2>1. /\ task = "polling" /\ task' = task /\ blocks = <<>>
          /\ UNCHANGED <<codecVars, early>>
      BY <1>11 DEF Rescan, ReadSocket, Dry
    <2>2. ingress' \in Seq(Waiting) /\ \E fs \in Seq(Waiting) : Scan(fs)
      <3>1. CASE Rescan
        BY <1>u, <3>1 DEF Rescan, UserInv
      <3>2. CASE ReadSocket
        BY <1>u, <3>2, ReadParts DEF ReadSocket, UserInv
      <3> QED
        BY <1>11, <3>1, <3>2
    <2>3. /\ out' \in Seq(ClientFrame) /\ hold' \in Seq(Waiting)
          /\ blocks' \in Seq(Tables) /\ Len(blocks') <= 1 /\ sent' \in Nat
      BY <1>u, <2>1, <2>2, ScanTypes DEF UserInv
    <2>4. UserInv'
      BY <1>u, <2>1, <2>2, <2>3 DEF UserInv, codecVars
    <2> QED
      BY <1>2, <1>4, <2>1, <2>4
  <1>12. CASE SocketWakes
    <2>1. task = "idle" /\ task' = "woken" /\ UserInv'
      BY <1>u, <1>12 DEF SocketWakes, UserInv, scanVars, codecVars
    <2> QED
      BY <1>2, <1>4, <2>1
  <1>13. CASE Decode
    <2>1. task = "polling" /\ task' = task /\ buf # <<>>
      BY <1>13 DEF Decode
    <2>2. PICK f : f = Head(buf)
      OBVIOUS
    <2>3. f \in ClientFrame /\ buf' \in Seq(ClientFrame) /\ f \in Frame
      BY <1>u, <1>13, <2>1, <2>2 DEF Decode, UserInv, Frame
    <2>4. table' \in Tables /\ incoming' \in Nat /\ delivered' \subseteq Nat
      <3>1. table \in Seq(Entry) /\ table \in Tables
        BY <1>u DEF UserInv, Tables
      <3>2. CASE f.type = "headers"
        <4>1. f.adds \in Seq(Entry) /\ f.req \in Nat
          BY <2>3, <3>2, Fields
        <4>2. Added(table, f.adds) \in Tables
          BY <3>1, <4>1, AddedType DEF Tables
        <4>3. /\ table' = Added(table, f.adds) /\ incoming' = incoming + 1
              /\ delivered' = delivered \cup {f.req}
          BY <1>13, <2>2, <3>2 DEF Decode
        <4>4. incoming \in Nat /\ delivered \subseteq Nat
          BY <1>u DEF UserInv
        <4>5. table' \in Tables
          BY <4>2, <4>3
        <4>6. incoming' \in Nat
          BY <4>3, <4>4
        <4>7. delivered' \subseteq Nat
          BY <4>1, <4>3, <4>4
        <4> QED
          BY <4>5, <4>6, <4>7
      <3>3. CASE f.type # "headers"
        BY <1>u, <1>13, <2>2, <3>3 DEF Decode, UserInv
      <3> QED
        BY <3>2, <3>3
    <2>5. capacity' \in Int
      <3>1. f.type = "window_update" => f.inc \in Nat
        BY <2>3, Fields
      <3> QED
        BY <1>u, <1>13, <2>2, <3>1 DEF Decode, UserInv
    <2>6. UserInv'
      BY <1>u, <1>13, <2>3, <2>4, <2>5 DEF Decode, UserInv, scanVars
    <2> QED
      BY <1>2, <1>4, <2>1, <2>6
  <1>14. CASE Respond
    <2>1. UserInv'
      BY <1>u, <1>14 DEF Respond, UserInv, scanVars
    <2>2. StartInv'
      BY <1>u, <1>1, <1>3, <1>14 DEF Respond, StartInv, Untouched, scanVars
    <2> QED
      BY <1>2, <2>1, <2>2
  <1> QED
    BY <1>5, <1>6, <1>7, <1>8, <1>9, <1>10, <1>11, <1>12, <1>13, <1>14 DEF Server, Poll

\* The types and the start hold at the start and are kept by every step.
LEMMA TypeInvHolds ==
    /\ Init => TypeInv
    /\ TypeInv /\ [Next]_vars => TypeInv'
  <1>1. Init => TypeInv
    <2> SUFFICES ASSUME Init PROVE TypeInv
      OBVIOUS
    <2>1. mirror \in Tables /\ table \in Tables /\ client_table \in Tables
      <3>1. mirror = <<>> /\ table = <<>> /\ client_table = <<>>
        BY DEF Init, FastInit, UserInit
      <3>2. \A t : t = <<>> => t \in Tables
        BY DEF Tables
      <3> QED
        BY <3>1, <3>2
    <2>2. FastInv
      <3>1. flow_ctl \in FlowCtl
        BY DEF Init, FastInit, FlowCtl
      <3> QED
        BY <2>1, <3>1 DEF Init, FastInit, FastInv
    <2>3. UserInv
      <3>1. /\ ingress \in Seq(Waiting) /\ hold \in Seq(Waiting)
            /\ out \in Seq(ClientFrame) /\ buf \in Seq(ClientFrame)
            /\ blocks \in Seq(Tables) /\ Len(blocks) <= 1
        BY DEF Init, UserInit
      <3>2. /\ task = "protocol" /\ sent = 0 /\ capacity = InitWindow /\ incoming = 0 /\ owed = 0
            /\ srv_sent = 0 /\ delivered = {} /\ early = FALSE
        BY DEF Init, UserInit
      <3>3. /\ sent \in Nat /\ capacity \in Int /\ incoming \in Nat /\ owed \in Nat
            /\ srv_sent \in Nat
        BY <3>2
      <3>4. delivered \subseteq Nat /\ early \in BOOLEAN
        BY <3>2
      <3> QED
        BY <2>1, <3>1, <3>2, <3>3, <3>4 DEF UserInv
    <2>4. ClientInv
      <3>1. reqs \in 0 .. MaxReqs /\ updates \in 0 .. MaxUpdates /\ granted \in Nat
        BY DEF Init
      <3>2. opened \in BOOLEAN
        BY DEF Init
      <3> QED
        BY <2>1, <3>1, <3>2 DEF ClientInv
    <2>5. StartInv
      BY DEF Init, FastInit, UserInit, StartInv, Untouched
    <2> QED
      BY <2>2, <2>3, <2>4, <2>5, HandshakeStarts DEF TypeInv
  <1>2. TypeInv /\ [Next]_vars => TypeInv'
    <2> SUFFICES ASSUME TypeInv, [Next]_vars PROVE TypeInv'
      OBVIOUS
    <2>1. HandshakeInv'
      BY HandshakeKept DEF TypeInv
    <2>2. CASE UNCHANGED vars
      BY <2>1, <2>2
      DEF vars, fastVars, userVars, scanVars, codecVars, clientVars, TypeInv, FastInv,
          UserInv, ClientInv, StartInv, Untouched
    <2>3. CASE Next
      BY <2>1, <2>3, ClientTypes, KernelTypes, ServerTypes DEF Next, TypeInv
    <2> QED
      BY <2>2, <2>3
  <1> QED
    BY <1>1, <1>2

\* Every variable of the connection has its type: in particular the codec never
\* gets to see a frame of the fast path's own, at most one update is pending, and
\* the connection's window fits its 32 bits.
THEOREM ConnectionTypes == Spec => []TypeOK
  <1>1. TypeInv => TypeOK
    <2> SUFFICES ASSUME TypeInv PROVE TypeOK
      OBVIOUS
    <2>1. \A t \in Tables : t \in Seq(Entry) /\ Len(t) <= TableCap
      BY DEF Tables
    <2>2. FastTypeOK
      <3>1. flow_ctl \in [conn_window : s32, stream_window : Nat, unreported : Nat]
        <4>1. 0 .. MaxWindow \subseteq s32
          BY FastPathAssumption DEF s32
        <4> QED
          BY <4>1 DEF TypeInv, FastInv, FlowCtl
      <3> QED
        BY <2>1, <3>1, Sent DEF TypeInv, FastInv, FastTypeOK
    <2>3. UserTypeOK
      <3>1. ingress \in Seq(Frame) /\ hold \in Seq(Frame)
        BY ClientFramesWait DEF TypeInv, UserInv
      <3>2. blocks \in Seq(Seq(Entry))
        <4>1. Tables \subseteq Seq(Entry)
          BY <2>1
        <4> QED
          BY <4>1, SeqGrows DEF TypeInv, UserInv
      <3> QED
        BY <2>1, <3>1, <3>2 DEF TypeInv, UserInv, UserTypeOK
    <2> QED
      BY <2>1, <2>2, <2>3 DEF TypeInv, HandshakeInv, ClientInv, TypeOK
  <1> QED
    BY <1>1, TypeInvHolds, PTL DEF Spec

\* The fast path never overdraws the connection's window, for any window a client
\* announces and any order of its changes, its updates and the answers: what the
\* comment on conn_window expects of a client that shrinks its window cannot be.
THEOREM WindowNeverNegative == Spec => []NeverOverdrawn
  <1>1. TypeInv => NeverOverdrawn
    BY DEF TypeInv, FastInv, FlowCtl, NeverOverdrawn
  <1> QED
    BY <1>1, TypeInvHolds, PTL DEF Spec
=============================================================================
