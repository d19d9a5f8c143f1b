--------------------------- MODULE Scanner_proofs ---------------------------
(***************************************************************************)
(* The scanner gives every reader what the stream carries, for every       *)
(* stream and however it is cut into reads: Scanner implements Filter.     *)
(*                                                                         *)
(* The scanner is compared with a reader that nothing holds back (Reading) *)
(* and that notes for each update how much is in front of it.  Wherever    *)
(* the scanner is, that reader ends with what the stream carries if it     *)
(* goes on with the bytes that are held and the bytes on the wire (Ahead). *)
(***************************************************************************)
EXTENDS Scanner, Folding_proofs, SequenceTheorems

States == {"preface", "header", "payload", "sync", "flow", "blind"}
Bytes == Seq(Nat)
Updates == [at : Nat, block : Bytes, sent : Nat]

ScannerType ==
    [state : States, part : Bytes, remaining : Nat, out : Bytes, hold : Bytes,
     blocks : Seq(Bytes), sent : Nat]

-----------------------------------------------------------------------------
(* A reader that nothing holds back *)

Positions ==
    [state : States, part : Bytes, remaining : Nat, out : Bytes, ups : Seq(Updates),
     sent : Nat]

Deliver(x) ==
    LET u == [at |-> Len(x.out), block |-> x.part, sent |-> x.sent]
    IN  GoTo([x EXCEPT !.ups = Append(@, u)], "header")

\* Settle and ScanByte with updates that know their place.
Pass(x) ==
    CASE x.state = "payload" /\ x.remaining = 0 -> GoTo(x, "header")
      [] x.state = "sync" /\ x.remaining = 0 -> Deliver(x)
      [] OTHER -> x

PassByte(x, b) ==
    CASE x.state = "blind" -> [x EXCEPT !.out = Append(@, b)]
      [] x.state = "preface" -> MatchPreface(x, b)
      [] x.state = "header" -> ReadHeader(x, b)
      [] x.state = "payload" -> Pass([x EXCEPT !.remaining = @ - 1, !.out = Append(@, b)])
      [] x.state = "flow" -> ReadFlow(x, b)
      [] x.state = "sync" -> Pass([x EXCEPT !.remaining = @ - 1, !.part = Append(@, b)])

Step(x, b) == PassByte(Pass(x), b)

Reading == [x \in Positions |-> [b \in Nat |-> Step(x, b)]]

-----------------------------------------------------------------------------
(* Types *)

\* What the assumption says of the constants.
LEMMA Constants ==
    /\ Preface \in Bytes /\ Len(Preface) \in Nat /\ Len(Preface) > 0
    /\ HeaderLen \in Nat /\ HeaderLen > 1 /\ FlowLen \in Nat /\ FlowLen > 0
    /\ FcKind \in Nat /\ DtKind \in Nat /\ FcKind # DtKind
  BY ScannerAssumption, LenProperties DEF Bytes

\* A byte more.
LEMMA AppendType ==
    ASSUME NEW q \in Bytes, NEW b \in Nat
    PROVE  Append(q, b) \in Bytes
  BY DEF Bytes

\* All but the last byte, as ReadHeader takes the length out of a header.
LEMMA FrontType ==
    ASSUME NEW q \in Bytes, q # <<>>
    PROVE  Front(q) \in Bytes /\ Len(Front(q)) = Len(q) - 1
           /\ \A i \in 1 .. Len(q) - 1 : Front(q)[i] = q[i]
  <1>1. PICK n \in Nat : Len(q) = n + 1
    <2>1. Len(q) \in Nat /\ Len(q) # 0  BY EmptySeq, LenProperties DEF Bytes
    <2> QED  BY <2>1
  <1>2. \A i \in 1 .. n : q[i] \in Nat  BY <1>1 DEF Bytes
  <1>3. Front(q) = SubSeq(q, 1, n)  BY <1>1 DEF Front
  <1>4. SubSeq(q, 1, n) \in Bytes /\ Len(SubSeq(q, 1, n)) = n
        /\ \A i \in 1 .. n : SubSeq(q, 1, n)[i] = q[i]
    BY <1>1, <1>2, SubSeqProperties DEF Bytes
  <1> QED  BY <1>1, <1>3, <1>4

\* The number of the bytes is what reading them one by one computes.
Digits == [m \in Nat |-> [b \in Nat |-> 256 * m + b]]

\* Folding_proofs applies to numbers.
LEMMA DigitsReader == Reader(Digits, Nat, Nat)
  BY DEF Reader, Digits

\* A byte more is a digit more.
LEMMA DigitsAppend ==
    ASSUME NEW m \in Nat, NEW q \in Seq(Nat), NEW b \in Nat
    PROVE  Fold(Digits, m, Append(q, b)) = Digits[Fold(Digits, m, q)][b]
  <1>1. PICK T : T = Nat  OBVIOUS
  <1>2. Reader(Digits, T, T) /\ m \in T /\ q \in Seq(T) /\ b \in T  BY <1>1, DigitsReader
  <1> QED  BY <1>2, FoldAppend

\* Number, a recursive function, is a fold.
LEMMA NumberIs ==
    ASSUME NEW q \in Bytes
    PROVE  Number(q) = Fold(Digits, 0, q)
  <1>1. q \in Seq(Nat) /\ Len(q) \in Nat  BY DEF Bytes
  <1>2. PICK t \in [0 .. Len(q) -> Nat] : Trace(Digits, 0, q, t)
    BY <1>1, DigitsReader, TraceExists
  <1> DEFINE Is(f) == f = [i \in 0 .. Len(q) |-> IF i = 0 THEN 0 ELSE 256 * f[i - 1] + q[i]]
  <1>3. Is(t)
    <2>1. t[0] = 0  BY <1>2 DEF Trace
    <2>2. ASSUME NEW i \in 1 .. Len(q)  PROVE t[i] = 256 * t[i - 1] + q[i]
      <3>1. t[i] = Digits[t[i - 1]][q[i]]  BY <1>2 DEF Trace
      <3>2. t[i - 1] \in Nat /\ q[i] \in Nat  BY <1>1, <1>2
      <3> QED  BY <3>1, <3>2 DEF Digits
    <2>3. ASSUME NEW i \in 0 .. Len(q)
          PROVE  t[i] = IF i = 0 THEN 0 ELSE 256 * t[i - 1] + q[i]
      <3>1. i = 0 \/ i \in 1 .. Len(q)  BY <1>1
      <3> QED  BY <3>1, <2>1, <2>2
    <2> QED  BY <1>2, <2>3
  <1> DEFINE u == CHOOSE f : Is(f)
  <1>4. Is(u)  BY <1>3
  <1>5. Number(q) = u[Len(q)]  BY DEF Number
  <1> HIDE DEF u
  <1>6. u[0] = 0 /\ \A i \in 1 .. Len(q) : u[i] = 256 * u[i - 1] + q[i]
    BY <1>4, <1>1
  <1>7. t[Len(q)] = u[Len(q)]
    <2>1. \A i \in 1 .. Len(q) : t[i - 1] = u[i - 1] => t[i] = u[i]
      BY <1>3, <1>6, <1>1
    <2>2. t[0] = u[0]  BY <1>2, <1>6 DEF Trace
    <2>3. PICK n \in Nat : n = Len(q)  BY <1>1
    <2>4. t[n] = u[n]
      <3> HIDE DEF Is
      <3> QED  BY <2>1, <2>2, <2>3, Agree
    <2> QED  BY <2>3, <2>4
  <1>8. Fold(Digits, 0, q) = t[Len(q)]  BY <1>1, <1>2, FoldIs
  <1> QED  BY <1>5, <1>7, <1>8

\* Lengths and reports are natural numbers.
LEMMA NumberType ==
    ASSUME NEW q \in Bytes
    PROVE  Number(q) \in Nat
  <1>1. q \in Seq(Nat)  BY DEF Bytes
  <1>2. PICK z \in Nat : z = 0  OBVIOUS
  <1>3. Fold(Digits, z, q) \in Nat  BY <1>1, DigitsReader, FoldType
  <1> QED  BY <1>2, <1>3, NumberIs

\* What a state is given up for has its fields, without what was gathered.
LEMMA GoToFields ==
    ASSUME NEW x \in Positions, NEW st \in States
    PROVE  /\ GoTo(x, st) \in Positions /\ GoTo(x, st).state = st /\ GoTo(x, st).part = <<>>
           /\ GoTo(x, st).remaining = x.remaining /\ GoTo(x, st).out = x.out
           /\ GoTo(x, st).ups = x.ups /\ GoTo(x, st).sent = x.sent
  <1>1. <<>> \in Bytes  BY DEF Bytes
  <1> QED  BY <1>1 DEF GoTo, Positions

\* What a delivery leaves behind, and the update with its place.
LEMMA DeliverFields ==
    ASSUME NEW x \in Positions
    PROVE  LET u == [at |-> Len(x.out), block |-> x.part, sent |-> x.sent] IN
           /\ u \in Updates
           /\ Deliver(x) \in Positions /\ Deliver(x).state = "header" /\ Deliver(x).part = <<>>
           /\ Deliver(x).remaining = x.remaining /\ Deliver(x).out = x.out
           /\ Deliver(x).ups = Append(x.ups, u) /\ Deliver(x).sent = x.sent
  <1> DEFINE u == [at |-> Len(x.out), block |-> x.part, sent |-> x.sent]
             y == [x EXCEPT !.ups = Append(@, u)]
  <1>1. u \in Updates
    <2>1. x.out \in Bytes /\ x.part \in Bytes /\ x.sent \in Nat  BY DEF Positions
    <2>2. Len(x.out) \in Nat  BY <2>1 DEF Bytes
    <2> QED  BY <2>1, <2>2 DEF Updates
  <1> HIDE DEF u
  <1>2. Append(x.ups, u) \in Seq(Updates)  BY <1>1 DEF Positions
  <1>3. /\ y \in Positions /\ y.state = x.state /\ y.remaining = x.remaining /\ y.out = x.out
        /\ y.ups = Append(x.ups, u) /\ y.sent = x.sent
    BY <1>2 DEF Positions
  <1>4. Deliver(x) = GoTo(y, "header")  BY DEF Deliver, u
  <1> HIDE DEF y
  <1>5. "header" \in States  BY DEF States
  <1> QED  BY <1>1, <1>3, <1>4, <1>5, GoToFields DEF u

\* Settling what is over keeps the types.
LEMMA PassType ==
    ASSUME NEW x \in Positions
    PROVE  Pass(x) \in Positions
  <1>1. "header" \in States  BY DEF States
  <1>2. GoTo(x, "header") \in Positions  BY <1>1, GoToFields
  <1>3. Deliver(x) \in Positions  BY DeliverFields
  <1> QED  BY <1>2, <1>3 DEF Pass

\* So does a byte of the preface,
LEMMA MatchPrefaceType ==
    ASSUME NEW x \in Positions, NEW b \in Nat
    PROVE  MatchPreface(x, b) \in Positions
  <1> DEFINE y == [x EXCEPT !.part = Append(x.part, b), !.out = Append(@, b)]
  <1>1. Append(x.part, b) \in Bytes /\ Append(x.out, b) \in Bytes
    BY AppendType DEF Positions
  <1>2. y \in Positions  BY <1>1 DEF Positions
  <1> HIDE DEF y
  <1>3. GoTo(y, "blind") \in Positions /\ GoTo(y, "header") \in Positions
    BY <1>2, GoToFields DEF States
  <1> QED  BY <1>2, <1>3 DEF MatchPreface, y

\* one of a header,
LEMMA ReadHeaderType ==
    ASSUME NEW x \in Positions, NEW b \in Nat
    PROVE  ReadHeader(x, b) \in Positions
  <1> DEFINE buf == Append(x.part, b)
             len == Number(Front(buf))
             y == [x EXCEPT !.part = buf]
             z == [x EXCEPT !.remaining = len]
             w == [x EXCEPT !.remaining = len, !.out = @ \o buf]
  <1>1. x.part \in Bytes /\ x.out \in Bytes  BY DEF Positions
  <1>2. buf \in Bytes  BY <1>1, AppendType
  <1>3. len \in Nat
    <2>1. buf # <<>>
      <3>1. PICK p \in Seq(Nat) : p = x.part  BY <1>1 DEF Bytes
      <3>2. Append(p, b) # <<>>  BY AppendProperties
      <3> QED  BY <3>1, <3>2
    <2> HIDE DEF buf
    <2>2. Front(buf) \in Bytes  BY <2>1, <1>2, FrontType
    <2> QED  BY <2>2, NumberType
  <1> HIDE DEF buf, len
  <1>4. x.out \o buf \in Bytes  BY <1>1, <1>2 DEF Bytes
  <1>5. y \in Positions /\ z \in Positions /\ w \in Positions
    BY <1>2, <1>3, <1>4 DEF Positions
  <1> HIDE DEF y, z, w
  <1>6. /\ GoTo(x, "flow") \in Positions /\ GoTo(x, "blind") \in Positions
        /\ GoTo(z, "sync") \in Positions /\ GoTo(w, "payload") \in Positions
    BY <1>5, GoToFields DEF States
  <1>7. GoTo(x, IF len = FlowLen THEN "flow" ELSE "blind") \in Positions
    BY <1>6
  <1>8. ReadHeader(x, b) = CASE Len(buf) < HeaderLen -> y
                             [] Len(buf) = HeaderLen /\ b = FcKind ->
                                  GoTo(x, IF len = FlowLen THEN "flow" ELSE "blind")
                             [] Len(buf) = HeaderLen /\ b = DtKind /\ len <= MaxSyncFrame ->
                                  GoTo(z, "sync")
                             [] Len(buf) = HeaderLen /\ b = DtKind /\ len > MaxSyncFrame ->
                                  GoTo(x, "blind")
                             [] OTHER -> GoTo(w, "payload")
    BY DEF ReadHeader, buf, len, y, z, w
  <1> QED  BY <1>5, <1>6, <1>7, <1>8

\* one of a report,
LEMMA ReadFlowType ==
    ASSUME NEW x \in Positions, NEW b \in Nat
    PROVE  ReadFlow(x, b) \in Positions
  <1> DEFINE buf == Append(x.part, b)
             y == [x EXCEPT !.part = buf]
             z == [x EXCEPT !.sent = @ + Number(buf)]
  <1>1. buf \in Bytes  BY AppendType DEF Positions
  <1>2. Number(buf) \in Nat  BY <1>1, NumberType
  <1> HIDE DEF buf
  <1>3. x.sent + Number(buf) \in Nat  BY <1>2 DEF Positions
  <1>4. y \in Positions /\ z \in Positions  BY <1>1, <1>3 DEF Positions
  <1> HIDE DEF y, z
  <1>5. GoTo(z, "header") \in Positions  BY <1>4, GoToFields DEF States
  <1> QED  BY <1>4, <1>5 DEF ReadFlow, buf, y, z

\* and any other.
LEMMA StepType ==
    ASSUME NEW x \in Positions, NEW b \in Nat
    PROVE  Step(x, b) \in Positions
  <1>1. PICK a \in Positions : a = Pass(x) /\ ~(a.state \in {"payload", "sync"} /\ a.remaining = 0)
    <2>1. Pass(x) \in Positions  BY PassType
    <2>2. ~(Pass(x).state \in {"payload", "sync"} /\ Pass(x).remaining = 0)
      <3>1. GoTo(x, "header").state = "header" /\ Deliver(x).state = "header"
        BY GoToFields, DeliverFields DEF States
      <3> QED  BY <3>1 DEF Pass
    <2> QED  BY <2>1, <2>2
  <1> DEFINE e == [a EXCEPT !.out = Append(@, b)]
             p == [a EXCEPT !.remaining = @ - 1, !.out = Append(@, b)]
             q == [a EXCEPT !.remaining = @ - 1, !.part = Append(@, b)]
  <1>2. Append(a.out, b) \in Bytes /\ Append(a.part, b) \in Bytes
    BY AppendType DEF Positions
  <1>3. e \in Positions  BY <1>2 DEF Positions
  <1>4. ASSUME a.state = "payload" \/ a.state = "sync"
        PROVE  p \in Positions /\ q \in Positions
    <2>1. a.remaining - 1 \in Nat  BY <1>1, <1>4 DEF Positions
    <2> QED  BY <2>1, <1>2 DEF Positions
  <1> HIDE DEF e, p, q
  <1>5. /\ MatchPreface(a, b) \in Positions /\ ReadHeader(a, b) \in Positions
        /\ ReadFlow(a, b) \in Positions
    BY MatchPrefaceType, ReadHeaderType, ReadFlowType
  <1>6. ASSUME a.state = "payload" \/ a.state = "sync"
        PROVE  Pass(p) \in Positions /\ Pass(q) \in Positions
    BY <1>4, <1>6, PassType
  <1>7. a.state \in States  BY DEF Positions
  <1>8. Step(x, b) = PassByte(a, b)  BY <1>1 DEF Step
  <1> QED  BY <1>3, <1>5, <1>6, <1>7, <1>8 DEF PassByte, States, e, p, q

\* Folding_proofs applies to the reader.
LEMMA ReadingType == Reader(Reading, Positions, Nat)
  BY StepType DEF Reader, Reading

\* A step of the fold is a byte.
LEMMA ReadingStep ==
    ASSUME NEW x \in Positions, NEW b \in Nat
    PROVE  Reading[x][b] = Step(x, b)
  BY DEF Reading

-----------------------------------------------------------------------------
(* What it makes of the parts of a frame *)

\* A byte behind a concatenation is one behind its second part.
LEMMA CatAppend ==
    ASSUME NEW p \in Bytes, NEW q \in Bytes, NEW b \in Nat
    PROVE  Append(p \o q, b) = p \o Append(q, b)
  <1>1. p \in Seq(Nat) /\ q \in Seq(Nat)  BY DEF Bytes
  <1>2. <<b>> \in Seq(Nat)  OBVIOUS
  <1>3. Append(q, b) = q \o <<b>> /\ Append(p \o q, b) = (p \o q) \o <<b>>
    BY <1>1, AppendIsConcat, ConcatProperties
  <1>4. (p \o q) \o <<b>> = p \o (q \o <<b>>)  BY <1>1, <1>2, ConcatAssociative
  <1> QED  BY <1>3, <1>4

\* What holds of all concatenations of bytes.
LEMMA CatBytes ==
    ASSUME NEW p \in Bytes, NEW q \in Bytes, NEW b \in Nat
    PROVE  /\ p \o q \in Bytes /\ Len(p \o q) = Len(p) + Len(q)
           /\ p \o <<>> = p /\ <<>> \o p = p
           /\ Append(q, b) \in Bytes /\ Len(Append(q, b)) = Len(q) + 1 /\ Len(q) \in Nat
           /\ Len(p) \in Nat
  <1>1. p \in Seq(Nat) /\ q \in Seq(Nat)  BY DEF Bytes
  <1> QED
    BY <1>1, ConcatProperties, ConcatEmptySeq, LenProperties, AppendProperties DEF Bytes

\* How three are put together does not matter.
LEMMA CatThree ==
    ASSUME NEW p \in Bytes, NEW q \in Bytes, NEW r \in Bytes
    PROVE  (p \o q) \o r = p \o (q \o r)
  BY ConcatAssociative DEF Bytes

\* Bytes that are passed on or gathered, and then one more.
LEMMA CatFields ==
    ASSUME NEW x \in Positions, NEW q \in Bytes, NEW b \in Nat
    PROVE  /\ Append(x.out \o q, b) = x.out \o Append(q, b)
           /\ Append(x.part \o q, b) = x.part \o Append(q, b)
  <1>1. PICK o \in Bytes, p \in Bytes : o = x.out /\ p = x.part  BY DEF Positions
  <1>2. Append(o \o q, b) = o \o Append(q, b)  BY <1>1, CatAppend
  <1>3. Append(p \o q, b) = p \o Append(q, b)  BY <1>1, CatAppend
  <1> QED  BY <1>1, <1>2, <1>3

\* A byte settles what is over.
LEMMA PassTwice ==
    ASSUME NEW x \in Positions
    PROVE  /\ Pass(Pass(x)) = Pass(x)
           /\ \A b : Step(Pass(x), b) = Step(x, b)
  <1>1. Pass(Pass(x)) = Pass(x)
    <2>1. CASE x.state = "payload" /\ x.remaining = 0
      <3>1. Pass(x) = GoTo(x, "header")  BY <2>1 DEF Pass
      <3>2. Pass(x).state = "header"  BY <3>1, GoToFields DEF States
      <3> QED  BY <3>2 DEF Pass
    <2>2. CASE x.state = "sync" /\ x.remaining = 0
      <3>1. Pass(x) = Deliver(x)  BY <2>2 DEF Pass
      <3>2. Pass(x).state = "header"  BY <3>1, DeliverFields
      <3> QED  BY <3>2 DEF Pass
    <2>3. CASE ~(x.state = "payload" /\ x.remaining = 0) /\ ~(x.state = "sync" /\ x.remaining = 0)
      BY <2>3 DEF Pass
    <2> QED  BY <2>1, <2>2, <2>3
  <1> QED  BY <1>1 DEF Step

\* It can go on from where it is when that is settled.
LEMMA FoldPassed ==
    ASSUME NEW x \in Positions, NEW q \in Bytes, q # <<>>
    PROVE  Fold(Reading, Pass(x), q) = Fold(Reading, x, q)
  <1>1. PICK b \in Nat, r \in Seq(Nat) : q = <<b>> \o r
    <2>1. q \in Seq(Nat)  BY DEF Bytes
    <2>2. Head(q) \in Nat /\ Tail(q) \in Seq(Nat) /\ q = <<Head(q)>> \o Tail(q)
      BY <2>1
    <2> QED  BY <2>2
  <1>2. Pass(x) \in Positions  BY PassType
  <1>3. Fold(Reading, Pass(x), <<b>> \o r) = Fold(Reading, Reading[Pass(x)][b], r)
    BY <1>2, ReadingType, FoldCons
  <1>4. Fold(Reading, x, <<b>> \o r) = Fold(Reading, Reading[x][b], r)
    BY ReadingType, FoldCons
  <1>5. Reading[Pass(x)][b] = Reading[x][b]
    BY <1>2, ReadingStep, PassTwice
  <1> QED  BY <1>1, <1>3, <1>4, <1>5

Wrote(x, q) == [x EXCEPT !.out = @ \o q]
Gathered(x, q) == [x EXCEPT !.part = @ \o q]
Paid(x, q) == [x EXCEPT !.remaining = @ - Len(q), !.out = @ \o q]
Synced(x, q) == [x EXCEPT !.remaining = @ - Len(q), !.part = @ \o q]

\* Bytes passed on, gathered or taken off a payload at once.
LEMMA Bulk ==
    ASSUME NEW x \in Positions, NEW q \in Bytes
    PROVE  /\ Wrote(x, q) \in Positions /\ Gathered(x, q) \in Positions
           /\ Len(q) <= x.remaining => Paid(x, q) \in Positions /\ Synced(x, q) \in Positions
  <1>1. x.out \o q \in Bytes /\ x.part \o q \in Bytes  BY CatBytes DEF Positions
  <1>2. Wrote(x, q) \in Positions /\ Gathered(x, q) \in Positions
    BY <1>1 DEF Wrote, Gathered, Positions
  <1>3. ASSUME Len(q) <= x.remaining
        PROVE  Paid(x, q) \in Positions /\ Synced(x, q) \in Positions
    <2>1. PICK m \in Nat, n \in Nat : m = x.remaining /\ n = Len(q)
      BY CatBytes DEF Positions
    <2>2. x.remaining - Len(q) \in Nat  BY <2>1, <1>3
    <2> QED  BY <2>2, <1>1 DEF Paid, Synced, Positions
  <1> QED  BY <1>2, <1>3

\* No bytes change nothing.
LEMMA BulkNothing ==
    ASSUME NEW x \in Positions
    PROVE  /\ Wrote(x, <<>>) = x /\ Gathered(x, <<>>) = x
           /\ Paid(x, <<>>) = x /\ Synced(x, <<>>) = x
  <1>1. /\ x.out \in Bytes /\ x.part \in Bytes /\ x.remaining \in Nat  BY DEF Positions
  <1>2. x.out \o <<>> = x.out /\ x.part \o <<>> = x.part  BY <1>1, ConcatEmptySeq DEF Bytes
  <1>3. x.remaining - Len(<<>>) = x.remaining  BY <1>1, EmptySeq
  <1>4. x = [x EXCEPT !.out = x.out, !.part = x.part, !.remaining = x.remaining]
    BY DEF Positions
  <1> QED  BY <1>2, <1>3, <1>4 DEF Wrote, Gathered, Paid, Synced, Positions

\* Once blind it passes everything on.
LEMMA BlindStep ==
    ASSUME NEW x \in Positions, x.state = "blind", NEW q \in Bytes, NEW b \in Nat
    PROVE  Step(Wrote(x, q), b) = Wrote(x, Append(q, b))
  <1>1. PICK y \in Positions : y = Wrote(x, q)  BY Bulk
  <1>2. y.state = "blind" /\ y.out = x.out \o q  BY <1>1 DEF Wrote, Positions
  <1>3. Pass(y) = y  BY <1>2 DEF Pass
  <1>4. Step(y, b) = [y EXCEPT !.out = Append(@, b)]
    <2>1. PassByte(y, b) = [y EXCEPT !.out = Append(@, b)]  BY <1>2 DEF PassByte
    <2>2. Step(y, b) = PassByte(y, b)  BY <1>3 DEF Step
    <2> QED  BY <2>1, <2>2
  <1>5. Append(x.out \o q, b) = x.out \o Append(q, b)  BY CatFields
  <1> QED  BY <1>1, <1>2, <1>4, <1>5 DEF Wrote, Positions

\* So does any number of bytes.
LEMMA BlindFold ==
    ASSUME NEW x \in Positions, x.state = "blind", NEW q \in Bytes
    PROVE  Fold(Reading, x, q) = Wrote(x, q)
  <1> DEFINE S == {r \in Seq(Nat) : Fold(Reading, x, r) = Wrote(x, r)}
  <1>1. <<>> \in S
    <2>1. Fold(Reading, x, <<>>) = x  BY ReadingType, FoldEmpty
    <2>2. <<>> \in Seq(Nat)  OBVIOUS
    <2> QED  BY <2>1, <2>2, BulkNothing
  <1>2. ASSUME NEW r \in Seq(Nat), NEW b \in Nat, r \in S  PROVE Append(r, b) \in S
    <2>1. r \in Bytes /\ Append(r, b) \in Seq(Nat)  BY CatBytes DEF Bytes
    <2>2. Fold(Reading, x, Append(r, b)) = Reading[Fold(Reading, x, r)][b]
      BY ReadingType, FoldAppend
    <2>3. Fold(Reading, x, r) = Wrote(x, r)  BY <1>2
    <2>4. Wrote(x, r) \in Positions  BY <2>1, Bulk
    <2> QED  BY <2>1, <2>2, <2>3, <2>4, ReadingStep, BlindStep
  <1> HIDE DEF S
  <1>3. q \in S  BY <1>1, <1>2, SeqInd DEF Bytes
  <1> QED  BY <1>3 DEF S

\* The bytes of a header are gathered until there are as many as it has.
LEMMA HeaderStep ==
    ASSUME NEW x \in Positions, x.state = "header", NEW q \in Bytes, NEW b \in Nat,
           Len(x.part \o Append(q, b)) < HeaderLen
    PROVE  Step(Gathered(x, q), b) = Gathered(x, Append(q, b))
  <1>1. PICK y \in Positions : y = Gathered(x, q)  BY Bulk
  <1>2. y.state = "header" /\ y.part = x.part \o q  BY <1>1 DEF Gathered, Positions
  <1>3. Append(x.part \o q, b) = x.part \o Append(q, b)  BY CatFields
  <1>4. ReadHeader(y, b) = [y EXCEPT !.part = Append(y.part, b)]
    <2>1. PICK buf : buf = Append(y.part, b)  OBVIOUS
    <2>2. Len(buf) < HeaderLen  BY <2>1, <1>2, <1>3
    <2> QED  BY <2>1, <2>2 DEF ReadHeader
  <1>5. Pass(y) = y  BY <1>2 DEF Pass
  <1>6. PassByte(y, b) = ReadHeader(y, b)  BY <1>2 DEF PassByte
  <1>7. Step(y, b) = ReadHeader(y, b)  BY <1>5, <1>6 DEF Step
  <1>8. [y EXCEPT !.part = Append(y.part, b)] = Gathered(x, Append(q, b))
    BY <1>1, <1>2, <1>3 DEF Gathered, Positions
  <1> QED  BY <1>1, <1>4, <1>7, <1>8

\* Of a sequence that is long enough, the first elements are.
LEMMA Shorter ==
    ASSUME NEW p \in Bytes, NEW q \in Bytes, NEW b \in Nat, NEW n \in Nat,
           Len(p \o Append(q, b)) < n
    PROVE  Len(p \o q) < n
  <1>1. PICK k \in Nat, l \in Nat : k = Len(p) /\ l = Len(q)  BY CatBytes
  <1>2. Len(p \o Append(q, b)) = k + (l + 1) /\ Len(p \o q) = k + l
    <2>1. Append(q, b) \in Bytes /\ Len(Append(q, b)) = l + 1  BY <1>1, CatBytes
    <2> QED  BY <2>1, <1>1, CatBytes
  <1> QED  BY <1>1, <1>2

\* So is any part of a header.
LEMMA HeaderFold ==
    ASSUME NEW x \in Positions, x.state = "header", NEW q \in Bytes,
           Len(x.part \o q) < HeaderLen
    PROVE  Fold(Reading, x, q) = Gathered(x, q)
  <1> DEFINE S == {r \in Seq(Nat) :
                      Len(x.part \o r) < HeaderLen => Fold(Reading, x, r) = Gathered(x, r)}
  <1>1. <<>> \in S
    <2>1. Fold(Reading, x, <<>>) = x  BY ReadingType, FoldEmpty
    <2>2. <<>> \in Seq(Nat)  OBVIOUS
    <2> QED  BY <2>1, <2>2, BulkNothing
  <1>2. ASSUME NEW r \in Seq(Nat), NEW b \in Nat, r \in S,
               Len(x.part \o Append(r, b)) < HeaderLen
        PROVE  Fold(Reading, x, Append(r, b)) = Gathered(x, Append(r, b))
    <2>1. r \in Bytes /\ x.part \in Bytes /\ HeaderLen \in Nat
      BY Constants DEF Bytes, Positions
    <2>2. Fold(Reading, x, Append(r, b)) = Reading[Fold(Reading, x, r)][b]
      BY ReadingType, FoldAppend
    <2>3. Len(x.part \o r) < HeaderLen  BY <2>1, <1>2, Shorter
    <2>4. Fold(Reading, x, r) = Gathered(x, r)  BY <1>2, <2>3
    <2>5. Gathered(x, r) \in Positions  BY <2>1, Bulk
    <2>6. Step(Gathered(x, r), b) = Gathered(x, Append(r, b))  BY <2>1, <1>2, HeaderStep
    <2> QED  BY <2>2, <2>4, <2>5, <2>6, ReadingStep
  <1>3. ASSUME NEW r \in Seq(Nat), NEW b \in Nat, r \in S  PROVE Append(r, b) \in S
    <2>1. Append(r, b) \in Seq(Nat)  OBVIOUS
    <2> QED  BY <2>1, <1>2, <1>3
  <1> HIDE DEF S
  <1>4. q \in S  BY <1>1, <1>3, SeqInd DEF Bytes
  <1> QED  BY <1>4 DEF S

\* So are those of a report.
LEMMA FlowStep ==
    ASSUME NEW x \in Positions, x.state = "flow", NEW q \in Bytes, NEW b \in Nat,
           Len(x.part \o Append(q, b)) < FlowLen
    PROVE  Step(Gathered(x, q), b) = Gathered(x, Append(q, b))
  <1>1. PICK y \in Positions : y = Gathered(x, q)  BY Bulk
  <1>2. y.state = "flow" /\ y.part = x.part \o q  BY <1>1 DEF Gathered, Positions
  <1>3. Append(x.part \o q, b) = x.part \o Append(q, b)  BY CatFields
  <1>4. ReadFlow(y, b) = [y EXCEPT !.part = Append(y.part, b)]
    <2>1. PICK buf : buf = Append(y.part, b)  OBVIOUS
    <2>2. Len(buf) < FlowLen  BY <2>1, <1>2, <1>3
    <2> QED  BY <2>1, <2>2 DEF ReadFlow
  <1>5. Pass(y) = y  BY <1>2 DEF Pass
  <1>6. PassByte(y, b) = ReadFlow(y, b)  BY <1>2 DEF PassByte
  <1>7. Step(y, b) = ReadFlow(y, b)  BY <1>5, <1>6 DEF Step
  <1>8. [y EXCEPT !.part = Append(y.part, b)] = Gathered(x, Append(q, b))
    BY <1>1, <1>2, <1>3 DEF Gathered, Positions
  <1> QED  BY <1>1, <1>4, <1>7, <1>8

\* So is any part of a report.
LEMMA FlowFold ==
    ASSUME NEW x \in Positions, x.state = "flow", NEW q \in Bytes,
           Len(x.part \o q) < FlowLen
    PROVE  Fold(Reading, x, q) = Gathered(x, q)
  <1> DEFINE S == {r \in Seq(Nat) :
                      Len(x.part \o r) < FlowLen => Fold(Reading, x, r) = Gathered(x, r)}
  <1>1. <<>> \in S
    <2>1. Fold(Reading, x, <<>>) = x  BY ReadingType, FoldEmpty
    <2>2. <<>> \in Seq(Nat)  OBVIOUS
    <2> QED  BY <2>1, <2>2, BulkNothing
  <1>2. ASSUME NEW r \in Seq(Nat), NEW b \in Nat, r \in S,
               Len(x.part \o Append(r, b)) < FlowLen
        PROVE  Fold(Reading, x, Append(r, b)) = Gathered(x, Append(r, b))
    <2>1. r \in Bytes /\ x.part \in Bytes /\ FlowLen \in Nat
      BY Constants DEF Bytes, Positions
    <2>2. Fold(Reading, x, Append(r, b)) = Reading[Fold(Reading, x, r)][b]
      BY ReadingType, FoldAppend
    <2>3. Len(x.part \o r) < FlowLen  BY <2>1, <1>2, Shorter
    <2>4. Fold(Reading, x, r) = Gathered(x, r)  BY <1>2, <2>3
    <2>5. Gathered(x, r) \in Positions  BY <2>1, Bulk
    <2>6. Step(Gathered(x, r), b) = Gathered(x, Append(r, b))  BY <2>1, <1>2, FlowStep
    <2> QED  BY <2>2, <2>4, <2>5, <2>6, ReadingStep
  <1>3. ASSUME NEW r \in Seq(Nat), NEW b \in Nat, r \in S  PROVE Append(r, b) \in S
    <2>1. Append(r, b) \in Seq(Nat)  OBVIOUS
    <2> QED  BY <2>1, <1>2, <1>3
  <1> HIDE DEF S
  <1>4. q \in S  BY <1>1, <1>3, SeqInd DEF Bytes
  <1> QED  BY <1>4 DEF S

\* Of a payload and of an update as much as is announced.
LEMMA PaidStep ==
    ASSUME NEW x \in Positions, x.state = "payload", NEW q \in Bytes, NEW b \in Nat,
           Len(q) < x.remaining
    PROVE  Pass(Step(Paid(x, q), b)) = Pass(Paid(x, Append(q, b)))
  <1>1. PICK m \in Nat, n \in Nat : m = x.remaining /\ n = Len(q)
    BY CatBytes DEF Positions
  <1>2. n < m /\ Len(Append(q, b)) = n + 1  BY <1>1, CatBytes
  <1>3. PICK y \in Positions : y = Paid(x, q)  BY <1>1, <1>2, Bulk
  <1>4. y.state = "payload" /\ y.out = x.out \o q /\ y.remaining = m - n
    BY <1>1, <1>3 DEF Paid, Positions
  <1>5. m - n # 0 /\ (m - n) - 1 = m - (n + 1)  BY <1>2
  <1>6. Append(x.out \o q, b) = x.out \o Append(q, b)  BY CatFields
  <1>7. PICK z : z = [y EXCEPT !.remaining = @ - 1, !.out = Append(@, b)]  OBVIOUS
  <1>8. z = Paid(x, Append(q, b))
    BY <1>1, <1>2, <1>3, <1>4, <1>5, <1>6, <1>7 DEF Paid, Positions
  <1>9. Paid(x, Append(q, b)) \in Positions
    <2>1. Append(q, b) \in Bytes  BY CatBytes
    <2>2. n + 1 <= m  BY <1>2
    <2> QED  BY <2>1, <2>2, <1>1, <1>2, Bulk
  <1>10. Pass(y) = y  BY <1>4, <1>5 DEF Pass
  <1>11. PassByte(y, b) = Pass(z)  BY <1>4, <1>7 DEF PassByte
  <1>12. Step(y, b) = Pass(z)  BY <1>10, <1>11 DEF Step
  <1> QED  BY <1>3, <1>8, <1>9, <1>12, PassTwice

\* A byte of an update that is not its last is gathered.
LEMMA SyncedStep ==
    ASSUME NEW x \in Positions, x.state = "sync", NEW q \in Bytes, NEW b \in Nat,
           Len(q) < x.remaining
    PROVE  Pass(Step(Synced(x, q), b)) = Pass(Synced(x, Append(q, b)))
  <1>1. PICK m \in Nat, n \in Nat : m = x.remaining /\ n = Len(q)
    BY CatBytes DEF Positions
  <1>2. n < m /\ Len(Append(q, b)) = n + 1  BY <1>1, CatBytes
  <1>3. PICK y \in Positions : y = Synced(x, q)  BY <1>1, <1>2, Bulk
  <1>4. y.state = "sync" /\ y.part = x.part \o q /\ y.remaining = m - n
    BY <1>1, <1>3 DEF Synced, Positions
  <1>5. m - n # 0 /\ (m - n) - 1 = m - (n + 1)  BY <1>2
  <1>6. Append(x.part \o q, b) = x.part \o Append(q, b)  BY CatFields
  <1>7. PICK z : z = [y EXCEPT !.remaining = @ - 1, !.part = Append(@, b)]  OBVIOUS
  <1>8. z = Synced(x, Append(q, b))
    BY <1>1, <1>2, <1>3, <1>4, <1>5, <1>6, <1>7 DEF Synced, Positions
  <1>9. Synced(x, Append(q, b)) \in Positions
    <2>1. Append(q, b) \in Bytes  BY CatBytes
    <2>2. n + 1 <= m  BY <1>2
    <2> QED  BY <2>1, <2>2, <1>1, <1>2, Bulk
  <1>10. Pass(y) = y  BY <1>4, <1>5 DEF Pass
  <1>11. PassByte(y, b) = Pass(z)  BY <1>4, <1>7 DEF PassByte
  <1>12. Step(y, b) = Pass(z)  BY <1>10, <1>11 DEF Step
  <1> QED  BY <1>3, <1>8, <1>9, <1>12, PassTwice

\* A payload is passed on as far as it goes,
LEMMA PaidFold ==
    ASSUME NEW x \in Positions, x.state = "payload", NEW q \in Bytes, Len(q) <= x.remaining
    PROVE  Pass(Fold(Reading, x, q)) = Pass(Paid(x, q))
  <1> DEFINE S == {r \in Seq(Nat) : Len(r) <= x.remaining =>
                                       Pass(Fold(Reading, x, r)) = Pass(Paid(x, r))}
  <1>1. <<>> \in S
    <2>1. Fold(Reading, x, <<>>) = x  BY ReadingType, FoldEmpty
    <2>2. <<>> \in Seq(Nat)  OBVIOUS
    <2> QED  BY <2>1, <2>2, BulkNothing
  <1>2. ASSUME NEW r \in Seq(Nat), NEW b \in Nat, r \in S, Len(Append(r, b)) <= x.remaining
        PROVE  Pass(Fold(Reading, x, Append(r, b))) = Pass(Paid(x, Append(r, b)))
    <2>1. r \in Bytes  BY DEF Bytes
    <2>2. Fold(Reading, x, Append(r, b)) = Reading[Fold(Reading, x, r)][b]
      BY ReadingType, FoldAppend
    <2>3. Len(r) < x.remaining
      <3>1. PICK n \in Nat, m \in Nat : n = Len(r) /\ m = x.remaining
        BY <2>1, CatBytes DEF Positions
      <3>2. n + 1 <= m  BY <2>1, <3>1, <1>2, CatBytes
      <3> QED  BY <3>1, <3>2
    <2>4. PICK y \in Positions : y = Fold(Reading, x, r)
      BY ReadingType, FoldType
    <2>5. Len(r) <= x.remaining
      <3>1. Len(r) \in Nat /\ x.remaining \in Nat  BY <2>1, CatBytes DEF Positions
      <3> QED  BY <3>1, <2>3
    <2>6. Paid(x, r) \in Positions  BY <2>1, <2>5, Bulk
    <2>7. Pass(y) = Pass(Paid(x, r))  BY <1>2, <2>4, <2>5
    <2>8. Reading[y][b] = Step(y, b)  BY <2>4, ReadingStep
    <2>9. Step(y, b) = Step(Pass(y), b)  BY <2>4, PassTwice
    <2>10. Step(Paid(x, r), b) = Step(Pass(Paid(x, r)), b)  BY <2>6, PassTwice
    <2>11. Pass(Step(Paid(x, r), b)) = Pass(Paid(x, Append(r, b)))
      BY <2>1, <2>3, PaidStep
    <2> QED  BY <2>2, <2>4, <2>7, <2>8, <2>9, <2>10, <2>11
  <1>3. ASSUME NEW r \in Seq(Nat), NEW b \in Nat, r \in S  PROVE Append(r, b) \in S
    <2>1. Append(r, b) \in Seq(Nat)  OBVIOUS
    <2> QED  BY <2>1, <1>2, <1>3
  <1> HIDE DEF S
  <1>4. q \in S  BY <1>1, <1>3, SeqInd DEF Bytes
  <1> QED  BY <1>4 DEF S

\* and an update gathered.
LEMMA SyncedFold ==
    ASSUME NEW x \in Positions, x.state = "sync", NEW q \in Bytes, Len(q) <= x.remaining
    PROVE  Pass(Fold(Reading, x, q)) = Pass(Synced(x, q))
  <1> DEFINE S == {r \in Seq(Nat) : Len(r) <= x.remaining =>
                                       Pass(Fold(Reading, x, r)) = Pass(Synced(x, r))}
  <1>1. <<>> \in S
    <2>1. Fold(Reading, x, <<>>) = x  BY ReadingType, FoldEmpty
    <2>2. <<>> \in Seq(Nat)  OBVIOUS
    <2> QED  BY <2>1, <2>2, BulkNothing
  <1>2. ASSUME NEW r \in Seq(Nat), NEW b \in Nat, r \in S, Len(Append(r, b)) <= x.remaining
        PROVE  Pass(Fold(Reading, x, Append(r, b))) = Pass(Synced(x, Append(r, b)))
    <2>1. r \in Bytes  BY DEF Bytes
    <2>2. Fold(Reading, x, Append(r, b)) = Reading[Fold(Reading, x, r)][b]
      BY ReadingType, FoldAppend
    <2>3. Len(r) < x.remaining
      <3>1. PICK n \in Nat, m \in Nat : n = Len(r) /\ m = x.remaining
        BY <2>1, CatBytes DEF Positions
      <3>2. n + 1 <= m  BY <2>1, <3>1, <1>2, CatBytes
      <3> QED  BY <3>1, <3>2
    <2>4. PICK y \in Positions : y = Fold(Reading, x, r)
      BY ReadingType, FoldType
    <2>5. Len(r) <= x.remaining
      <3>1. Len(r) \in Nat /\ x.remaining \in Nat  BY <2>1, CatBytes DEF Positions
      <3> QED  BY <3>1, <2>3
    <2>6. Synced(x, r) \in Positions  BY <2>1, <2>5, Bulk
    <2>7. Pass(y) = Pass(Synced(x, r))  BY <1>2, <2>4, <2>5
    <2>8. Reading[y][b] = Step(y, b)  BY <2>4, ReadingStep
    <2>9. Step(y, b) = Step(Pass(y), b)  BY <2>4, PassTwice
    <2>10. Step(Synced(x, r), b) = Step(Pass(Synced(x, r)), b)  BY <2>6, PassTwice
    <2>11. Pass(Step(Synced(x, r), b)) = Pass(Synced(x, Append(r, b)))
      BY <2>1, <2>3, SyncedStep
    <2> QED  BY <2>2, <2>4, <2>7, <2>8, <2>9, <2>10, <2>11
  <1>3. ASSUME NEW r \in Seq(Nat), NEW b \in Nat, r \in S  PROVE Append(r, b) \in S
    <2>1. Append(r, b) \in Seq(Nat)  OBVIOUS
    <2> QED  BY <2>1, <1>2, <1>3
  <1> HIDE DEF S
  <1>4. q \in S  BY <1>1, <1>3, SeqInd DEF Bytes
  <1> QED  BY <1>4 DEF S

-----------------------------------------------------------------------------
(* What it makes of a frame *)

Frames == [kind : Nat, payload : Bytes]

\* The bytes of a header in front of the kind: zeros and the length.
LengthBytes(n) == [i \in 1 .. HeaderLen - 1 |-> IF i = HeaderLen - 1 THEN n ELSE 0]

\* Number gets back what a header says of the length.
LEMMA LengthFacts ==
    ASSUME NEW n \in Nat
    PROVE  /\ LengthBytes(n) \in Bytes /\ Len(LengthBytes(n)) = HeaderLen - 1
           /\ Number(LengthBytes(n)) = n
  <1>1. PICK k \in Nat : HeaderLen - 1 = k + 1
    <2>1. HeaderLen \in Nat /\ HeaderLen - 2 \in Nat /\ HeaderLen - 1 = (HeaderLen - 2) + 1
      BY Constants
    <2> QED  BY <2>1
  <1>2. LengthBytes(n) = [i \in 1 .. k + 1 |-> IF i = k + 1 THEN n ELSE 0]
    BY <1>1 DEF LengthBytes
  <1>3. PICK q : q = [i \in 1 .. k + 1 |-> IF i = k + 1 THEN n ELSE 0]  OBVIOUS
  <1>4. PICK z : z = [i \in 1 .. k |-> 0]  OBVIOUS
  <1>5. z \in Seq(Nat) /\ Len(z) = k /\ \A i \in 1 .. k : z[i] = 0  BY <1>4
  <1>6. q \in Seq(Nat) /\ Len(q) = k + 1  BY <1>3
  <1>7. q = Append(z, n)
    <2>1. q[k + 1] = n /\ \A i \in 1 .. k : q[i] = 0  BY <1>3
    <2> QED  BY <2>1, <1>5, <1>6, AppendIs
  <1>8. PICK o \in Nat : o = 0  OBVIOUS
  <1>9. Fold(Digits, o, z) = o
    <2>1. Digits[o][o] = o  BY <1>8 DEF Digits
    <2>2. \A i \in 1 .. Len(z) : Digits[o][z[i]] = o  BY <2>1, <1>5, <1>8
    <2> QED  BY <2>2, <1>5, <1>8, DigitsReader, FoldIdle
  <1>10. Fold(Digits, o, Append(z, n)) = Digits[Fold(Digits, o, z)][n]
    <2>1. z \in Seq(Nat) /\ o \in Nat  BY <1>5, <1>8
    <2> QED  BY <2>1, DigitsAppend
  <1>11. Digits[o][n] = n  BY <1>8 DEF Digits
  <1>12. Fold(Digits, o, q) = n  BY <1>7, <1>9, <1>10, <1>11
  <1>13. Number(q) = n  BY <1>6, <1>8, <1>12, NumberIs DEF Bytes
  <1> QED  BY <1>1, <1>2, <1>3, <1>6, <1>13 DEF Bytes

\* A frame is its length, its kind and its payload.
LEMMA EncodeParts ==
    ASSUME NEW f \in Frames
    PROVE  LET n == Len(f.payload)
               h == Append(LengthBytes(n), f.kind)
           IN  /\ n \in Nat /\ f.payload \in Bytes /\ f.kind \in Nat
               /\ h \in Bytes /\ Len(h) = HeaderLen /\ Front(h) = LengthBytes(n)
               /\ Encode(f) = h \o f.payload /\ Encode(f) \in Bytes /\ Encode(f) # <<>>
  <1> DEFINE n == Len(f.payload)
             l == LengthBytes(n)
             h == Append(l, f.kind)
  <1>1. f.payload \in Bytes /\ f.kind \in Nat  BY DEF Frames
  <1>2. n \in Nat  BY <1>1, CatBytes
  <1>3. l \in Seq(Nat) /\ Len(l) = HeaderLen - 1 /\ HeaderLen \in Nat
    BY <1>2, LengthFacts, Constants DEF Bytes
  <1>4. Encode(f) = (l \o <<f.kind>>) \o f.payload  BY DEF Encode, LengthBytes
  <1> HIDE DEF l, n
  <1>5. PICK k \in Nat : k = f.kind  BY <1>1
  <1>6. h = l \o <<f.kind>> /\ h \in Seq(Nat) /\ Len(h) = HeaderLen /\ h # <<>>
        /\ \A i \in 1 .. Len(l) : h[i] = l[i]
    <2>1. Append(l, k) = l \o <<k>>  BY <1>3, AppendIsConcat
    <2>2. /\ Append(l, k) \in Seq(Nat) /\ Append(l, k) # <<>>
          /\ Len(Append(l, k)) = Len(l) + 1
          /\ \A i \in 1 .. Len(l) : Append(l, k)[i] = l[i]
      BY <1>3, AppendProperties
    <2>3. Len(l) + 1 = HeaderLen  BY <1>3
    <2> QED  BY <2>1, <2>2, <2>3, <1>5
  <1> HIDE DEF h
  <1>7. Front(h) = l
    <2>1. /\ Front(h) \in Seq(Nat) /\ Len(Front(h)) = Len(h) - 1
          /\ \A i \in 1 .. Len(h) - 1 : Front(h)[i] = h[i]
      BY <1>6, FrontType DEF Bytes
    <2>2. Len(h) - 1 = Len(l)  BY <1>3, <1>6
    <2>3. Len(Front(h)) = Len(l) /\ \A i \in 1 .. Len(l) : Front(h)[i] = l[i]
      BY <2>1, <2>2, <1>6
    <2> QED  BY <2>1, <2>3, <1>3, SeqEqual
  <1>8. Encode(f) = h \o f.payload  BY <1>4, <1>6
  <1>9. h \o f.payload \in Bytes /\ h \o f.payload # <<>>
    <2>1. f.payload \in Seq(Nat)  BY <1>1 DEF Bytes
    <2> QED  BY <2>1, <1>6, ConcatProperties, ConcatSimplifications DEF Bytes
  <1> QED  BY <1>1, <1>2, <1>6, <1>7, <1>8, <1>9 DEF l, h, n, Bytes

\* What the header `h` of a payload of n bytes announces.
Announced(x, n, kind, h, z) ==
    /\ z.part = <<>> /\ z.ups = x.ups /\ z.sent = x.sent
    /\ kind = FcKind => z.state = (IF n = FlowLen THEN "flow" ELSE "blind") /\ z.out = x.out
    /\ kind = DtKind /\ n <= MaxSyncFrame =>
          z.state = "sync" /\ z.out = x.out /\ z.remaining = n
    /\ kind = DtKind /\ n > MaxSyncFrame => z.state = "blind" /\ z.out = x.out
    /\ kind \notin {FcKind, DtKind} =>
          z.state = "payload" /\ z.out = x.out \o h /\ z.remaining = n

\* Reading a header is deciding what follows it.
LEMMA ReadsHeader ==
    ASSUME NEW x \in Positions, x.state = "header", x.part = <<>>,
           NEW n \in Nat, NEW kind \in Nat, NEW h \in Bytes, Len(h) = HeaderLen,
           h = Append(LengthBytes(n), kind), Front(h) = LengthBytes(n)
    PROVE  \E z \in Positions : z = Fold(Reading, x, h) /\ Announced(x, n, kind, h, z)
  <1> DEFINE l == LengthBytes(n)
  <1>1. l \in Bytes /\ Len(l) = HeaderLen - 1 /\ Number(l) = n /\ HeaderLen \in Nat
    BY LengthFacts, Constants
  <1> HIDE DEF l
  <1>2. x.part \o l = l
    <2>1. <<>> \o l = l  BY <1>1, ConcatEmptySeq DEF Bytes
    <2> QED  BY <2>1
  <1>3. Len(x.part \o l) < HeaderLen  BY <1>1, <1>2
  <1>4. Fold(Reading, x, l) = Gathered(x, l)  BY <1>1, <1>3, HeaderFold
  <1>5. PICK y \in Positions : y = Gathered(x, l)  BY <1>1, Bulk
  <1>6. /\ y.part = l /\ y.state = "header" /\ y.out = x.out /\ y.ups = x.ups
        /\ y.sent = x.sent
    BY <1>2, <1>5 DEF Gathered, Positions
  <1>7. h = Append(l, kind) /\ Front(h) = l  BY DEF l
  <1>8. Fold(Reading, x, h) = Step(y, kind)
    <2>1. Fold(Reading, x, Append(l, kind)) = Reading[Fold(Reading, x, l)][kind]
      <3>1. l \in Seq(Nat)  BY <1>1 DEF Bytes
      <3> QED  BY <3>1, ReadingType, FoldAppend
    <2> QED  BY <2>1, <1>4, <1>5, <1>7, ReadingStep
  <1>9. Step(y, kind) = ReadHeader(y, kind)
    <2>1. Pass(y) = y  BY <1>6 DEF Pass
    <2>2. PassByte(y, kind) = ReadHeader(y, kind)  BY <1>6 DEF PassByte
    <2> QED  BY <2>1, <2>2 DEF Step
  <1> DEFINE s == [y EXCEPT !.remaining = n]
             w == [y EXCEPT !.remaining = n, !.out = @ \o h]
  <1>10. /\ kind = FcKind =>
               ReadHeader(y, kind) = GoTo(y, IF n = FlowLen THEN "flow" ELSE "blind")
         /\ kind = DtKind /\ n <= MaxSyncFrame => ReadHeader(y, kind) = GoTo(s, "sync")
         /\ kind = DtKind /\ n > MaxSyncFrame => ReadHeader(y, kind) = GoTo(y, "blind")
         /\ kind \notin {FcKind, DtKind} => ReadHeader(y, kind) = GoTo(w, "payload")
    <2>1. PICK buf : buf = h  OBVIOUS
    <2>2. buf = Append(y.part, kind) /\ Number(Front(buf)) = n
      BY <2>1, <1>1, <1>6, <1>7
    <2>3. Len(buf) = HeaderLen /\ ~(HeaderLen < HeaderLen)  BY <2>1, <1>1
    <2>4. ReadHeader(y, kind) =
            CASE HeaderLen < HeaderLen -> [y EXCEPT !.part = buf]
              [] kind = FcKind -> GoTo(y, IF n = FlowLen THEN "flow" ELSE "blind")
              [] kind = DtKind /\ n <= MaxSyncFrame -> GoTo(s, "sync")
              [] kind = DtKind /\ n > MaxSyncFrame -> GoTo(y, "blind")
              [] OTHER -> GoTo(w, "payload")
      BY <2>1, <2>2, <2>3 DEF ReadHeader
    <2>5. FcKind # DtKind /\ (n > MaxSyncFrame => ~(n <= MaxSyncFrame))
      BY ScannerAssumption
    <2> HIDE DEF s, w
    <2>6. ASSUME kind = FcKind
          PROVE  ReadHeader(y, kind) = GoTo(y, IF n = FlowLen THEN "flow" ELSE "blind")
      BY <2>3, <2>4, <2>5, <2>6
    <2>7. ASSUME kind = DtKind, n <= MaxSyncFrame
          PROVE  ReadHeader(y, kind) = GoTo(s, "sync")
      BY <2>3, <2>4, <2>5, <2>7
    <2>8. ASSUME kind = DtKind, n > MaxSyncFrame
          PROVE  ReadHeader(y, kind) = GoTo(y, "blind")
      BY <2>3, <2>4, <2>5, <2>8
    <2>9. ASSUME kind \notin {FcKind, DtKind}
          PROVE  ReadHeader(y, kind) = GoTo(w, "payload")
      BY <2>3, <2>4, <2>9
    <2> QED  BY <2>6, <2>7, <2>8, <2>9
  <1>11. /\ s \in Positions /\ s.out = x.out /\ s.remaining = n /\ s.ups = x.ups
         /\ s.sent = x.sent
    BY <1>6 DEF Positions
  <1>12. /\ w \in Positions /\ w.out = x.out \o h /\ w.remaining = n /\ w.ups = x.ups
         /\ w.sent = x.sent
    <2>1. y.out \o h \in Bytes  BY CatBytes DEF Positions
    <2> QED  BY <2>1, <1>6 DEF Positions
  <1> HIDE DEF s, w
  <1>13. CASE kind = FcKind
    <2>1. PICK st \in States : st = IF n = FlowLen THEN "flow" ELSE "blind"  BY DEF States
    <2>2. Fold(Reading, x, h) = GoTo(y, st)
      <3>1. ReadHeader(y, kind) = GoTo(y, IF n = FlowLen THEN "flow" ELSE "blind")
        BY <1>10, <1>13
      <3> QED  BY <2>1, <3>1, <1>8, <1>9
    <2>3. FcKind # DtKind  BY Constants
    <2>4. PICK z : z = GoTo(y, st)  OBVIOUS
    <2>5. /\ z \in Positions /\ z.state = st /\ z.part = <<>>
          /\ z.out = x.out /\ z.ups = x.ups /\ z.sent = x.sent
      BY <2>4, <1>6, GoToFields
    <2>6. Announced(x, n, kind, h, z)
      BY <2>1, <2>3, <2>5, <1>13 DEF Announced
    <2> QED  BY <2>2, <2>4, <2>5, <2>6
  <1>14. CASE kind = DtKind /\ n <= MaxSyncFrame
    <2>1. Fold(Reading, x, h) = GoTo(s, "sync")
      BY <1>8, <1>9, <1>10, <1>14, Constants
    <2>2. "sync" \in States /\ kind # FcKind  BY <1>14, Constants DEF States
    <2>3. PICK z : z = GoTo(s, "sync")  OBVIOUS
    <2>4. /\ z \in Positions /\ z.state = "sync" /\ z.part = <<>> /\ z.remaining = n
          /\ z.out = x.out /\ z.ups = x.ups /\ z.sent = x.sent
      BY <2>2, <2>3, <1>11, GoToFields
    <2>5. ~(n > MaxSyncFrame)  BY <1>14, ScannerAssumption
    <2>6. Announced(x, n, kind, h, z)  BY <2>2, <2>4, <2>5, <1>14 DEF Announced
    <2> QED  BY <2>1, <2>3, <2>4, <2>6
  <1>15. CASE kind = DtKind /\ n > MaxSyncFrame
    <2>1. Fold(Reading, x, h) = GoTo(y, "blind")
      BY <1>8, <1>9, <1>10, <1>15, Constants
    <2>2. "blind" \in States /\ kind # FcKind  BY <1>15, Constants DEF States
    <2>3. PICK z : z = GoTo(y, "blind")  OBVIOUS
    <2>4. /\ z \in Positions /\ z.state = "blind" /\ z.part = <<>>
          /\ z.out = x.out /\ z.ups = x.ups /\ z.sent = x.sent
      BY <2>2, <2>3, <1>6, GoToFields
    <2>5. ~(n <= MaxSyncFrame)  BY <1>15, ScannerAssumption
    <2>6. Announced(x, n, kind, h, z)  BY <2>2, <2>4, <2>5, <1>15 DEF Announced
    <2> QED  BY <2>1, <2>3, <2>4, <2>6
  <1>16. CASE kind \notin {FcKind, DtKind}
    <2>1. Fold(Reading, x, h) = GoTo(w, "payload")
      BY <1>8, <1>9, <1>10, <1>16
    <2>2. "payload" \in States  BY DEF States
    <2>3. PICK z : z = GoTo(w, "payload")  OBVIOUS
    <2>4. /\ z \in Positions /\ z.state = "payload" /\ z.part = <<>> /\ z.remaining = n
          /\ z.out = x.out \o h /\ z.ups = x.ups /\ z.sent = x.sent
      BY <2>2, <2>3, <1>12, GoToFields
    <2>5. Announced(x, n, kind, h, z)  BY <2>4, <1>16 DEF Announced
    <2> QED  BY <2>1, <2>3, <2>4, <2>5
  <1>17. n <= MaxSyncFrame \/ n > MaxSyncFrame  BY ScannerAssumption
  <1> QED  BY <1>13, <1>14, <1>15, <1>16, <1>17

\* A report is complete with its last byte.
LEMMA ReadsReport ==
    ASSUME NEW z \in Positions, z.state = "flow", z.part = <<>>,
           NEW q \in Bytes, Len(q) = FlowLen
    PROVE  \E y \in Positions :
              /\ y = Pass(Fold(Reading, z, q)) /\ y.state = "header" /\ y.part = <<>>
              /\ y.out = z.out /\ y.ups = z.ups /\ y.sent = z.sent + Number(q)
  <1>1. q \in Seq(Nat) /\ q # <<>>
    <2>1. FlowLen > 0 /\ FlowLen \in Nat  BY Constants
    <2> QED  BY <2>1, EmptySeq DEF Bytes
  <1>2. PICK r \in Seq(Nat), b \in Nat : q = Append(r, b)
    BY <1>1, SequenceEmptyOrAppend
  <1>3. r \in Bytes /\ Len(r) \in Nat /\ Len(q) = Len(r) + 1
    BY <1>2, CatBytes DEF Bytes
  <1>4. z.part \o r = r /\ z.part \o q = q
    <2>1. <<>> \o r = r /\ <<>> \o q = q  BY <1>1, <1>2, ConcatEmptySeq
    <2> QED  BY <2>1
  <1>5. Fold(Reading, z, r) = Gathered(z, r)
    <2>1. Len(z.part \o r) < FlowLen  BY <1>3, <1>4, Constants
    <2> QED  BY <2>1, <1>3, FlowFold
  <1>6. PICK y \in Positions : y = Gathered(z, r)  BY <1>3, Bulk
  <1>7. /\ y.state = "flow" /\ y.part = r /\ y.out = z.out /\ y.ups = z.ups
        /\ y.sent = z.sent
    BY <1>4, <1>6 DEF Gathered, Positions
  <1>8. Fold(Reading, z, q) = Step(y, b)
    <2>1. Fold(Reading, z, Append(r, b)) = Reading[Fold(Reading, z, r)][b]
      BY <1>2, ReadingType, FoldAppend
    <2> QED  BY <2>1, <1>2, <1>5, <1>6, ReadingStep
  <1>9. Step(y, b) = ReadFlow(y, b)
    <2>1. Pass(y) = y  BY <1>7 DEF Pass
    <2>2. PassByte(y, b) = ReadFlow(y, b)  BY <1>7 DEF PassByte
    <2> QED  BY <2>1, <2>2 DEF Step
  <1> DEFINE w == [y EXCEPT !.sent = @ + Number(q)]
  <1>10. ReadFlow(y, b) = GoTo(w, "header")
    <2>1. PICK buf : buf = q  OBVIOUS
    <2>2. buf = Append(y.part, b) /\ Number(buf) = Number(q)  BY <2>1, <1>2, <1>7
    <2>3. ~(Len(buf) < FlowLen)  BY <2>1, Constants
    <2> QED  BY <2>2, <2>3 DEF ReadFlow
  <1>11. /\ w \in Positions /\ w.out = z.out /\ w.ups = z.ups
         /\ w.sent = z.sent + Number(q)
    <2>1. Number(q) \in Nat  BY NumberType
    <2>2. y.sent + Number(q) \in Nat  BY <2>1 DEF Positions
    <2> QED  BY <2>2, <1>7 DEF Positions
  <1> HIDE DEF w
  <1>12. PICK g : g = GoTo(w, "header")  OBVIOUS
  <1>13. /\ g \in Positions /\ g.state = "header" /\ g.part = <<>>
         /\ g.out = z.out /\ g.ups = z.ups /\ g.sent = z.sent + Number(q)
    <2>1. "header" \in States  BY DEF States
    <2> QED  BY <2>1, <1>11, <1>12, GoToFields
  <1>14. Pass(g) = g  BY <1>13 DEF Pass
  <1> QED  BY <1>8, <1>9, <1>10, <1>12, <1>13, <1>14

\* An update is delivered behind what is in front of it.
LEMMA ReadsUpdate ==
    ASSUME NEW z \in Positions, z.state = "sync", z.part = <<>>,
           NEW q \in Bytes, z.remaining = Len(q)
    PROVE  \E y \in Positions :
              /\ y = Pass(Fold(Reading, z, q)) /\ y.state = "header" /\ y.part = <<>>
              /\ y.out = z.out /\ y.sent = z.sent
              /\ y.ups = Append(z.ups, [at |-> Len(z.out), block |-> q, sent |-> z.sent])
  <1>1. Len(q) \in Nat /\ <<>> \o q = q  BY CatBytes, ConcatEmptySeq DEF Bytes
  <1>2. Len(q) <= z.remaining  BY <1>1
  <1>3. Pass(Fold(Reading, z, q)) = Pass(Synced(z, q))  BY <1>2, SyncedFold
  <1>4. PICK s \in Positions : s = Synced(z, q)  BY <1>2, Bulk
  <1>5. /\ s.state = "sync" /\ s.remaining = 0 /\ s.part = q /\ s.out = z.out
        /\ s.ups = z.ups /\ s.sent = z.sent
    <2>1. z.remaining - Len(q) = 0  BY <1>1
    <2> QED  BY <2>1, <1>1, <1>4 DEF Synced, Positions
  <1>6. Pass(s) = Deliver(s)  BY <1>5 DEF Pass
  <1>7. PICK y : y = Deliver(s)  OBVIOUS
  <1>8. /\ y \in Positions /\ y.state = "header" /\ y.part = <<>> /\ y.out = s.out
        /\ y.sent = s.sent
        /\ y.ups = Append(s.ups, [at |-> Len(s.out), block |-> s.part, sent |-> s.sent])
    BY <1>7, DeliverFields
  <1> QED  BY <1>3, <1>4, <1>5, <1>6, <1>7, <1>8

\* Any other payload is passed on.
LEMMA ReadsPayload ==
    ASSUME NEW z \in Positions, z.state = "payload", z.part = <<>>,
           NEW q \in Bytes, z.remaining = Len(q)
    PROVE  \E y \in Positions :
              /\ y = Pass(Fold(Reading, z, q)) /\ y.state = "header" /\ y.part = <<>>
              /\ y.out = Cat(z.out, q) /\ y.sent = z.sent /\ y.ups = z.ups
  <1>1. Len(q) \in Nat  BY CatBytes
  <1>2. Len(q) <= z.remaining  BY <1>1
  <1>3. Pass(Fold(Reading, z, q)) = Pass(Paid(z, q))  BY <1>2, PaidFold
  <1>4. PICK s \in Positions : s = Paid(z, q)  BY <1>2, Bulk
  <1>5. /\ s.state = "payload" /\ s.remaining = 0 /\ s.out = z.out \o q
        /\ s.ups = z.ups /\ s.sent = z.sent
    <2>1. z.remaining - Len(q) = 0  BY <1>1
    <2> QED  BY <2>1, <1>1, <1>4 DEF Paid, Positions
  <1>6. Pass(s) = GoTo(s, "header")  BY <1>5 DEF Pass
  <1>7. PICK y : y = GoTo(s, "header")  OBVIOUS
  <1>8. /\ y \in Positions /\ y.state = "header" /\ y.part = <<>> /\ y.out = s.out
        /\ y.sent = s.sent /\ y.ups = s.ups
    <2>1. "header" \in States  BY DEF States
    <2> QED  BY <2>1, <1>7, GoToFields
  <1>9. y.out = Cat(z.out, q)  BY <1>5, <1>8 DEF Cat
  <1> QED  BY <1>3, <1>4, <1>5, <1>6, <1>7, <1>8, <1>9

-----------------------------------------------------------------------------
(* What it makes of a stream *)

Sources ==
    [bytes : Bytes, updates : Seq(Updates), sent : Nat, late : Nat, blind : BOOLEAN]

\* The reader has what it is to get of the frames so far.
Agrees(y, s) ==
    /\ y \in Positions
    /\ y.out = s.bytes /\ y.ups = s.updates /\ y.sent = s.sent
    /\ s.blind => y.state = "blind"
    /\ ~s.blind => y.state = "header" /\ y.part = <<>>

\* The cases of Filtered, field by field.
LEMMA FilteredFields ==
    ASSUME NEW s \in Sources, NEW f \in Frames
    PROVE  LET t == Filtered(s, f)
               u == [at |-> Len(s.bytes), block |-> f.payload, sent |-> s.sent]
           IN
           /\ t \in Sources /\ t.late = s.late
           /\ s.blind => /\ t.blind /\ t.updates = s.updates /\ t.sent = s.sent
                         /\ t.bytes = s.bytes \o Encode(f)
           /\ ~s.blind /\ Refused(f) =>
                 /\ t.blind /\ t.updates = s.updates /\ t.sent = s.sent
                 /\ t.bytes = s.bytes \o f.payload
           /\ ~s.blind /\ ~Refused(f) /\ f.kind = FcKind =>
                 /\ ~t.blind /\ t.updates = s.updates /\ t.sent = s.sent + Number(f.payload)
                 /\ t.bytes = s.bytes
           /\ ~s.blind /\ ~Refused(f) /\ f.kind = DtKind =>
                 /\ ~t.blind /\ t.updates = Append(s.updates, u) /\ t.sent = s.sent
                 /\ t.bytes = s.bytes
           /\ ~s.blind /\ ~Refused(f) /\ ~Own(f) =>
                 /\ ~t.blind /\ t.updates = s.updates /\ t.sent = s.sent
                 /\ t.bytes = s.bytes \o Encode(f)
  <1> DEFINE t == Filtered(s, f)
             u == [at |-> Len(s.bytes), block |-> f.payload, sent |-> s.sent]
             e == Encode(f)
  <1>1. e \in Bytes /\ f.payload \in Bytes /\ s.bytes \in Bytes
    BY EncodeParts DEF Frames, Sources
  <1> HIDE DEF e
  <1>2. u \in Updates
    <2>1. Len(s.bytes) \in Nat /\ s.sent \in Nat  BY <1>1 DEF Bytes, Sources
    <2> QED  BY <2>1, <1>1 DEF Updates
  <1> HIDE DEF u
  <1>3. s.bytes \o e \in Bytes /\ s.bytes \o f.payload \in Bytes  BY <1>1 DEF Bytes
  <1>4. Append(s.updates, u) \in Seq(Updates)
    <2>1. s.updates \in Seq(Updates)  BY DEF Sources
    <2> QED  BY <2>1, <1>2, AppendProperties
  <1>5. s.sent + Number(f.payload) \in Nat
    <2>1. Number(f.payload) \in Nat /\ s.sent \in Nat  BY <1>1, NumberType DEF Sources
    <2> QED  BY <2>1
  <1>6. FcKind # DtKind  BY Constants
  <1> DEFINE a == [s EXCEPT !.bytes = @ \o e]
             b == [s EXCEPT !.blind = TRUE, !.bytes = @ \o f.payload]
             c == [s EXCEPT !.sent = @ + Number(f.payload)]
             d == [s EXCEPT !.updates = Append(@, u)]
  <1>7. /\ a \in Sources /\ a.late = s.late /\ a.blind = s.blind /\ a.updates = s.updates
        /\ a.sent = s.sent /\ a.bytes = s.bytes \o e
    BY <1>3 DEF Sources
  <1>8. /\ b \in Sources /\ b.late = s.late /\ b.blind = TRUE /\ b.updates = s.updates
        /\ b.sent = s.sent /\ b.bytes = s.bytes \o f.payload
    BY <1>3 DEF Sources
  <1>9. /\ c \in Sources /\ c.late = s.late /\ c.blind = s.blind /\ c.updates = s.updates
        /\ c.sent = s.sent + Number(f.payload) /\ c.bytes = s.bytes
    BY <1>5 DEF Sources
  <1>10. /\ d \in Sources /\ d.late = s.late /\ d.blind = s.blind
         /\ d.updates = Append(s.updates, u) /\ d.sent = s.sent /\ d.bytes = s.bytes
    BY <1>4 DEF Sources
  <1>11. t = CASE s.blind -> a
               [] ~s.blind /\ Refused(f) -> b
               [] ~s.blind /\ ~Refused(f) /\ f.kind = FcKind -> c
               [] ~s.blind /\ ~Refused(f) /\ f.kind = DtKind -> d
               [] OTHER -> a
    BY DEF Filtered, e, u
  <1>12. Own(f) <=> f.kind = FcKind \/ f.kind = DtKind  BY DEF Own
  <1> HIDE DEF a, b, c, d, t
  <1>13. CASE s.blind
    <2>1. t = a  BY <1>11, <1>13
    <2> QED  BY <2>1, <1>7, <1>13 DEF t, e
  <1>14. CASE ~s.blind /\ Refused(f)
    <2>1. t = b  BY <1>11, <1>14
    <2> QED  BY <2>1, <1>8, <1>14 DEF t
  <1>15. CASE ~s.blind /\ ~Refused(f) /\ f.kind = FcKind
    <2>1. t = c  BY <1>6, <1>11, <1>15
    <2> QED  BY <2>1, <1>6, <1>9, <1>12, <1>15 DEF t
  <1>16. CASE ~s.blind /\ ~Refused(f) /\ f.kind = DtKind
    <2>1. t = d  BY <1>6, <1>11, <1>16
    <2> QED  BY <2>1, <1>6, <1>10, <1>12, <1>16 DEF t, u
  <1>17. CASE ~s.blind /\ ~Refused(f) /\ ~Own(f)
    <2>1. t = a  BY <1>11, <1>12, <1>17
    <2> QED  BY <2>1, <1>7, <1>12, <1>17 DEF t, e
  <1> QED  BY <1>12, <1>13, <1>14, <1>15, <1>16, <1>17

\* The reader makes of a frame what Filtered says.
LEMMA FrameAgrees ==
    ASSUME NEW x, NEW s \in Sources, Agrees(x, s), NEW f \in Frames
    PROVE  Agrees(Pass(Fold(Reading, x, Encode(f))), Filtered(s, f))
  <1>1. PICK n \in Nat, q \in Bytes, h \in Bytes, k \in Nat :
            /\ n = Len(f.payload) /\ q = f.payload /\ k = f.kind
            /\ h = Append(LengthBytes(n), k)
    BY EncodeParts
  <1>2. /\ n \in Nat /\ q \in Bytes /\ f.kind \in Nat /\ h \in Bytes /\ Len(h) = HeaderLen
        /\ Front(h) = LengthBytes(n) /\ Encode(f) = h \o q /\ Encode(f) \in Bytes
    BY <1>1, EncodeParts
  <1>3. PICK e \in Bytes : e = Encode(f)  BY <1>2
  <1>4. PICK t : t = Filtered(s, f)  OBVIOUS
  <1>5. PICK y : y = Pass(Fold(Reading, x, e))  OBVIOUS
  <1>6. /\ x \in Positions /\ x.out = s.bytes /\ x.ups = s.updates /\ x.sent = s.sent
        /\ s.blind => x.state = "blind"
        /\ ~s.blind => x.state = "header" /\ x.part = <<>>
    BY DEF Agrees
  <1>7. CASE s.blind
    <2>1. Fold(Reading, x, e) = Wrote(x, e)  BY <1>3, <1>6, <1>7, BlindFold
    <2>2. PICK w \in Positions : w = Wrote(x, e)  BY <1>3, <1>6, Bulk
    <2>3. /\ w.state = "blind" /\ w.out = x.out \o e /\ w.ups = x.ups /\ w.sent = x.sent
      BY <2>2, <1>6, <1>7 DEF Wrote, Positions
    <2>4. y = w  BY <2>1, <2>2, <2>3, <1>5 DEF Pass
    <2>5. /\ t.blind /\ t.updates = s.updates /\ t.sent = s.sent /\ t.bytes = s.bytes \o e
      BY <1>3, <1>4, <1>7, FilteredFields
    <2>6. Agrees(y, t)  BY <2>2, <2>3, <2>4, <2>5, <1>6 DEF Agrees
    <2> QED  BY <2>6, <1>3, <1>4, <1>5
  <1>8. CASE ~s.blind
    <2>1. PICK z \in Positions : z = Fold(Reading, x, h) /\ Announced(x, n, k, h, z)
      BY <1>1, <1>2, <1>6, <1>8, ReadsHeader
    <2>2. /\ z.part = <<>> /\ z.ups = x.ups /\ z.sent = x.sent
          /\ f.kind = FcKind => /\ z.state = IF n = FlowLen THEN "flow" ELSE "blind"
                                /\ z.out = x.out
          /\ f.kind = DtKind /\ n <= MaxSyncFrame =>
                z.state = "sync" /\ z.out = x.out /\ z.remaining = n
          /\ f.kind = DtKind /\ n > MaxSyncFrame => z.state = "blind" /\ z.out = x.out
          /\ f.kind \notin {FcKind, DtKind} =>
                z.state = "payload" /\ z.out = x.out \o h /\ z.remaining = n
      BY <2>1, <1>1 DEF Announced
    <2>3. y = Pass(Fold(Reading, z, q))
      <3>1. h \in Seq(Nat) /\ q \in Seq(Nat)  BY <1>2 DEF Bytes
      <3>2. Fold(Reading, x, h \o q) = Fold(Reading, Fold(Reading, x, h), q)
        BY <3>1, <1>6, ReadingType, FoldConcat
      <3> QED  BY <3>2, <2>1, <1>2, <1>3, <1>5
    <2>4. Refused(f) <=> \/ f.kind = FcKind /\ n # FlowLen
                         \/ f.kind = DtKind /\ n > MaxSyncFrame
      BY <1>1 DEF Refused
    <2>5. n <= MaxSyncFrame \/ n > MaxSyncFrame  BY <1>2, ScannerAssumption
    <2>6. CASE Refused(f)
      <3>1. z.state = "blind" /\ z.out = x.out  BY <2>2, <2>1, <2>4, <2>6
      <3>2. Fold(Reading, z, q) = Wrote(z, q)  BY <3>1, <1>2, <2>2, <2>1, BlindFold
      <3>3. PICK w \in Positions : w = Wrote(z, q)  BY <1>2, <2>2, <2>1, Bulk
      <3>4. /\ w.state = "blind" /\ w.out = x.out \o q /\ w.ups = x.ups /\ w.sent = x.sent
        BY <3>1, <3>3, <2>2, <2>1 DEF Wrote, Positions
      <3>5. y = w  BY <3>2, <3>3, <3>4, <2>3 DEF Pass
      <3>6. t.blind /\ t.updates = s.updates /\ t.sent = s.sent /\ t.bytes = s.bytes \o q
        BY <2>6, <1>1, <1>4, <1>8, FilteredFields
      <3>7. Agrees(y, t)  BY <3>3, <3>4, <3>5, <3>6, <1>6 DEF Agrees
      <3> QED  BY <3>7, <1>3, <1>4, <1>5
    <2>7. CASE ~Refused(f) /\ f.kind = FcKind
      <3>1. z.state = "flow" /\ z.out = x.out /\ n = FlowLen  BY <2>2, <2>1, <2>4, <2>7
      <3>2. /\ y \in Positions /\ y.state = "header" /\ y.part = <<>>
            /\ y.out = z.out /\ y.ups = z.ups /\ y.sent = z.sent + Number(q)
        BY <3>1, <1>1, <1>2, <2>2, <2>1, <2>3, ReadsReport
      <3>3. /\ ~t.blind /\ t.updates = s.updates /\ t.sent = s.sent + Number(q)
            /\ t.bytes = s.bytes
        BY <2>7, <1>1, <1>4, <1>8, FilteredFields
      <3>4. Agrees(y, t)  BY <3>1, <3>2, <3>3, <2>2, <2>1, <1>6 DEF Agrees
      <3> QED  BY <3>4, <1>3, <1>4, <1>5
    <2>8. CASE ~Refused(f) /\ f.kind = DtKind
      <3>1. z.state = "sync" /\ z.out = x.out /\ z.remaining = Len(q)
        BY <2>2, <2>1, <2>4, <2>5, <2>8, <1>1
      <3>2. PICK w \in Positions :
                /\ w = Pass(Fold(Reading, z, q)) /\ w.state = "header" /\ w.part = <<>>
                /\ w.out = z.out /\ w.sent = z.sent
                /\ w.ups = Append(z.ups, [at |-> Len(z.out), block |-> q, sent |-> z.sent])
        <4>1. z.state = "sync" /\ z.part = <<>> /\ q \in Bytes /\ z.remaining = Len(q)
          BY <3>1, <1>2, <2>2
        <4>2. \E v \in Positions :
                 /\ v = Pass(Fold(Reading, z, q)) /\ v.state = "header" /\ v.part = <<>>
                 /\ v.out = z.out /\ v.sent = z.sent
                 /\ v.ups = Append(z.ups,
                                  [at |-> Len(z.out), block |-> q, sent |-> z.sent])
          BY <4>1, ReadsUpdate
        <4> QED  BY <4>2
      <3>3. /\ ~t.blind /\ t.sent = s.sent /\ t.bytes = s.bytes
            /\ t.updates = Append(s.updates, [at |-> Len(s.bytes), block |-> q,
                                              sent |-> s.sent])
        BY <2>8, <1>1, <1>4, <1>8, FilteredFields
      <3>4. z.out = s.bytes /\ z.sent = s.sent /\ z.ups = s.updates
        BY <3>1, <2>2, <1>6
      <3>5. w.ups = t.updates  BY <3>2, <3>3, <3>4
      <3>6. Agrees(w, t)  BY <3>2, <3>3, <3>4, <3>5 DEF Agrees
      <3>7. y = w  BY <3>2, <2>3
      <3> QED  BY <3>6, <3>7, <1>3, <1>4, <1>5
    <2>9. CASE ~Refused(f) /\ ~Own(f)
      <3>1. z.state = "payload" /\ z.out = x.out \o h /\ z.remaining = Len(q)
        BY <2>2, <2>1, <2>9, <1>1 DEF Own
      <3>2. /\ y \in Positions /\ y.state = "header" /\ y.part = <<>>
            /\ y.out = Cat(z.out, q) /\ y.sent = z.sent /\ y.ups = z.ups
        <4>1. z \in Positions /\ z.state = "payload" /\ z.part = <<>> /\ z.remaining = Len(q)
          BY <3>1, <2>1, <2>2
        <4>2. PICK v \in Positions :
                  /\ v = Pass(Fold(Reading, z, q)) /\ v.state = "header" /\ v.part = <<>>
                  /\ v.out = Cat(z.out, q) /\ v.sent = z.sent /\ v.ups = z.ups
          BY <4>1, ReadsPayload
        <4> QED  BY <4>2, <2>3
      <3>3. /\ ~t.blind /\ t.updates = s.updates /\ t.sent = s.sent /\ t.bytes = s.bytes \o e
        BY <2>9, <1>3, <1>4, <1>8, FilteredFields
      <3>4. y.out = t.bytes
        <4>1. PICK o \in Bytes : o = x.out  BY <1>6 DEF Positions
        <4>3. (o \o h) \o q = o \o (h \o q)  BY CatThree
        <4>4. y.out = (o \o h) \o q  BY <3>1, <3>2, <4>1 DEF Cat
        <4>5. t.bytes = o \o (h \o q)  BY <3>3, <4>1, <1>2, <1>3, <1>6
        <4> QED  BY <4>3, <4>4, <4>5
      <3>5. Agrees(y, t)  BY <3>2, <3>3, <3>4, <2>2, <2>1, <1>6 DEF Agrees
      <3> QED  BY <3>5, <1>3, <1>4, <1>5
    <2> QED  BY <2>6, <2>7, <2>8, <2>9 DEF Own
  <1> QED  BY <1>7, <1>8

\* Where it is before anything was read.
Beginning ==
    [state |-> "preface", part |-> <<>>, remaining |-> 0, out |-> <<>>, ups |-> <<>>,
     sent |-> 0]

\* It is a position.
LEMMA BeginningType == Beginning \in Positions
  <1>1. <<>> \in Bytes /\ <<>> \in Seq(Updates)  BY DEF Bytes
  <1> QED  BY <1>1 DEF Beginning, Positions, States

\* A prefix is shorter and otherwise the same.
LEMMA PrefixIs ==
    ASSUME NEW p \in Bytes, NEW q \in Bytes
    PROVE  IsPrefix(p, q) <=> Len(p) <= Len(q) /\ \A i \in 1 .. Len(p) : p[i] = q[i]
  <1>1. PICK m \in Nat, n \in Nat : m = Len(p) /\ n = Len(q)  BY CatBytes
  <1>2. SubSeq(p, 1, m) = p
    <2>1. \A i \in 1 .. m : p[i] \in Nat  BY <1>1 DEF Bytes
    <2> DEFINE a == SubSeq(p, 1, m)
    <2>2. a \in Seq(Nat) /\ Len(a) = m /\ \A i \in 1 .. m : a[i] = p[i]
      BY <1>1, <2>1, SubSeqProperties DEF Bytes
    <2> HIDE DEF a
    <2>3. a = p  BY <2>2, <1>1, SeqEqual DEF Bytes
    <2> QED  BY <2>3 DEF a
  <1>3. CASE m <= n
    <2>1. \A i \in 1 .. m : q[i] \in Nat
      <3>1. \A i \in 1 .. m : i \in 1 .. n  BY <1>3
      <3> QED  BY <1>1, <3>1 DEF Bytes
    <2> DEFINE a == SubSeq(q, 1, m)
    <2>2. a \in Seq(Nat) /\ Len(a) = m /\ \A i \in 1 .. m : a[i] = q[i]
      BY <1>1, <1>3, <2>1, SubSeqProperties DEF Bytes
    <2> HIDE DEF a
    <2>3. (\A i \in 1 .. m : p[i] = q[i]) => p = a  BY <2>2, <1>1, SeqEqual DEF Bytes
    <2>4. IsPrefix(p, q) <=> p = a  BY <1>1, <1>2, <1>3 DEF IsPrefix, a
    <2> QED  BY <1>1, <1>3, <2>2, <2>3, <2>4
  <1>4. CASE ~(m <= n)  BY <1>1, <1>4 DEF IsPrefix
  <1> QED  BY <1>3, <1>4

\* What MatchPreface relies on to tell a preface from anything else.
LEMMA PrefixFacts ==
    ASSUME NEW q \in Bytes, NEW b \in Nat
    PROVE  /\ IsPrefix(Append(q, b), Preface) => IsPrefix(q, Preface) /\ q # Preface
           /\ IsPrefix(q, Preface) /\ IsPrefix(Preface, q) => q = Preface
           /\ IsPrefix(Preface, q) => IsPrefix(Preface, Append(q, b))
           /\ IsPrefix(<<>>, Preface) /\ IsPrefix(Preface, Preface) /\ <<>> # Preface
  <1>1. PICK n \in Nat, k \in Nat : n = Len(q) /\ k = Len(Preface) /\ k > 0
    BY Constants, CatBytes
  <1>2. PICK a \in Bytes : /\ a = Append(q, b) /\ Len(a) = n + 1
                           /\ \A i \in 1 .. n : a[i] = q[i]
    <2>1. q \in Seq(Nat)  BY DEF Bytes
    <2>2. /\ Append(q, b) \in Seq(Nat) /\ Len(Append(q, b)) = Len(q) + 1
          /\ \A i \in 1 .. Len(q) : Append(q, b)[i] = q[i]
      BY <2>1, AppendProperties
    <2> QED  BY <2>2, <1>1 DEF Bytes
  <1>3. Preface \in Bytes  BY Constants
  <1>4. ASSUME IsPrefix(a, Preface)
        PROVE  IsPrefix(q, Preface) /\ q # Preface
    <2>1. n + 1 <= k /\ \A i \in 1 .. n + 1 : a[i] = Preface[i]
      BY <1>1, <1>2, <1>3, <1>4, PrefixIs
    <2>2. \A i \in 1 .. n : i \in 1 .. n + 1  BY <1>1
    <2>3. n <= k /\ n # k  BY <2>1, <1>1
    <2>4. \A i \in 1 .. n : q[i] = Preface[i]  BY <1>2, <2>1, <2>2
    <2> QED  BY <2>3, <2>4, <1>1, <1>3, PrefixIs
  <1>5. ASSUME IsPrefix(q, Preface), IsPrefix(Preface, q)
        PROVE  q = Preface
    <2>1. n <= k /\ k <= n /\ \A i \in 1 .. n : q[i] = Preface[i]
      BY <1>1, <1>3, <1>5, PrefixIs
    <2>2. n = k  BY <2>1, <1>1
    <2> QED  BY <2>1, <2>2, <1>1, <1>3, SeqEqual DEF Bytes
  <1>6. ASSUME IsPrefix(Preface, q)
        PROVE  IsPrefix(Preface, a)
    <2>1. k <= n /\ \A i \in 1 .. k : Preface[i] = q[i]
      BY <1>1, <1>3, <1>6, PrefixIs
    <2>2. k <= n + 1 /\ \A i \in 1 .. k : i \in 1 .. n  BY <2>1, <1>1
    <2>3. \A i \in 1 .. k : Preface[i] = a[i]  BY <1>2, <2>1, <2>2
    <2> QED  BY <2>2, <2>3, <1>1, <1>2, <1>3, PrefixIs
  <1>7. IsPrefix(<<>>, Preface) /\ IsPrefix(Preface, Preface) /\ <<>> # Preface
    <2>1. <<>> \in Bytes /\ Len(<<>>) = 0  BY EmptySeq DEF Bytes
    <2>2. PICK e \in Bytes : e = <<>> /\ Len(e) = 0  BY <2>1
    <2>3. Len(e) <= Len(Preface) /\ \A i \in 1 .. Len(e) : e[i] = Preface[i]
      BY <2>2, <1>1
    <2>4. IsPrefix(e, Preface)  BY <2>3, <1>3, PrefixIs
    <2>5. IsPrefix(Preface, Preface)  BY <1>1, <1>3, PrefixIs
    <2> QED  BY <2>2, <2>4, <2>5, <1>1
  <1> QED  BY <1>2, <1>4, <1>5, <1>6, <1>7

\* What it makes of bytes that do not go on behind the preface.
Opened(y, q) ==
    /\ y \in Positions /\ y.out = q /\ y.ups = <<>> /\ y.sent = 0
    /\ q = Preface => y.state = "header" /\ y.part = <<>>
    /\ q # Preface /\ IsPrefix(q, Preface) => y.state = "preface" /\ y.part = q
    /\ ~IsPrefix(q, Preface) => y.state = "blind"

\* A byte more, as long as it does not go on behind the preface.
LEMMA OpenStep ==
    ASSUME NEW q \in Bytes, NEW b \in Nat, NEW y, Opened(y, q),
           ~(IsPrefix(Preface, q) /\ q # Preface), q # Preface
    PROVE  Opened(Step(y, b), Append(q, b))
  <1>1. y \in Positions /\ y.out = q /\ y.ups = <<>> /\ y.sent = 0  BY DEF Opened
  <1>2. PICK a \in Bytes : a = Append(q, b)  BY CatBytes
  <1>3. CASE IsPrefix(q, Preface)
    <2>1. y.state = "preface" /\ y.part = q  BY <1>3 DEF Opened
    <2>2. Step(y, b) = MatchPreface(y, b)
      <3>1. Pass(y) = y  BY <2>1 DEF Pass
      <3>2. PassByte(y, b) = MatchPreface(y, b)  BY <2>1 DEF PassByte
      <3> QED  BY <3>1, <3>2 DEF Step
    <2>3. PICK w : w = [y EXCEPT !.part = a, !.out = a]  OBVIOUS
    <2>4. /\ w \in Positions /\ w.state = "preface" /\ w.part = a /\ w.out = a
          /\ w.ups = <<>> /\ w.sent = 0
      BY <2>1, <2>3, <1>1 DEF Positions
    <2>5. MatchPreface(y, b) =
            CASE ~IsPrefix(a, Preface) -> GoTo(w, "blind")
              [] a = Preface -> GoTo(w, "header")
              [] OTHER -> w
      <3>1. w = [y EXCEPT !.part = Append(y.part, b), !.out = Append(@, b)]
        BY <2>1, <2>3, <1>1, <1>2
      <3> QED  BY <3>1, <2>1, <1>2 DEF MatchPreface
    <2>6. a = Preface => IsPrefix(a, Preface)  BY PrefixFacts, <1>2
    <2>7. CASE ~IsPrefix(a, Preface)
      <3>1. PICK z : z = GoTo(w, "blind")  OBVIOUS
      <3>2. /\ z \in Positions /\ z.state = "blind" /\ z.out = a /\ z.ups = <<>> /\ z.sent = 0
        BY <3>1, <2>4, GoToFields DEF States
      <3>3. MatchPreface(y, b) = z  BY <3>1, <2>5, <2>6, <2>7
      <3> QED  BY <3>2, <3>3, <2>2, <2>6, <2>7, <1>2 DEF Opened
    <2>8. CASE a = Preface
      <3>1. PICK z : z = GoTo(w, "header")  OBVIOUS
      <3>2. /\ z \in Positions /\ z.state = "header" /\ z.part = <<>> /\ z.out = a
            /\ z.ups = <<>> /\ z.sent = 0
        BY <3>1, <2>4, GoToFields DEF States
      <3>3. MatchPreface(y, b) = z  BY <3>1, <2>5, <2>6, <2>8
      <3> QED  BY <3>2, <3>3, <2>2, <2>6, <2>8, <1>2 DEF Opened
    <2>9. CASE IsPrefix(a, Preface) /\ a # Preface
      <3>1. MatchPreface(y, b) = w  BY <2>5, <2>9
      <3> QED  BY <3>1, <2>2, <2>4, <2>9, <1>2 DEF Opened
    <2> QED  BY <2>7, <2>8, <2>9
  <1>4. CASE ~IsPrefix(q, Preface)
    <2>1. y.state = "blind"  BY <1>4 DEF Opened
    <2>2. Step(y, b) = [y EXCEPT !.out = Append(@, b)]
      <3>1. Pass(y) = y  BY <2>1 DEF Pass
      <3>2. PassByte(y, b) = [y EXCEPT !.out = Append(@, b)]  BY <2>1 DEF PassByte
      <3> QED  BY <3>1, <3>2 DEF Step
    <2>3. PICK z : z = [y EXCEPT !.out = a]  OBVIOUS
    <2>4. /\ z \in Positions /\ z.state = "blind" /\ z.out = a /\ z.ups = <<>> /\ z.sent = 0
      BY <2>1, <2>3, <1>1 DEF Positions
    <2>5. Step(y, b) = z  BY <2>2, <2>3, <1>1, <1>2
    <2>6. ~IsPrefix(a, Preface) /\ a # Preface
      <3>1. IsPrefix(Preface, Preface)  BY PrefixFacts
      <3>2. ~IsPrefix(a, Preface)  BY <1>2, <1>4, PrefixFacts
      <3> QED  BY <3>1, <3>2
    <2> QED  BY <2>4, <2>5, <2>6, <1>2 DEF Opened
  <1> QED  BY <1>3, <1>4

\* Bytes that do not reach behind the preface.
LEMMA OpenFold ==
    ASSUME NEW q \in Bytes, q = Preface \/ ~IsPrefix(Preface, q)
    PROVE  Opened(Fold(Reading, Beginning, q), q)
  <1> DEFINE S == {r \in Seq(Nat) : r = Preface \/ ~IsPrefix(Preface, r) =>
                                       Opened(Fold(Reading, Beginning, r), r)}
  <1>1. <<>> \in S
    <2>1. Fold(Reading, Beginning, <<>>) = Beginning
      BY ReadingType, BeginningType, FoldEmpty
    <2>2. <<>> \in Seq(Nat)  OBVIOUS
    <2>3. IsPrefix(<<>>, Preface) /\ <<>> # Preface
      <3>1. <<>> \in Bytes /\ 0 \in Nat  BY DEF Bytes
      <3> QED  BY <3>1, PrefixFacts
    <2>4. Opened(Beginning, <<>>)  BY <2>3, BeginningType DEF Opened, Beginning
    <2> QED  BY <2>1, <2>2, <2>4
  <1>2. ASSUME NEW r \in Seq(Nat), NEW b \in Nat, r \in S,
               Append(r, b) = Preface \/ ~IsPrefix(Preface, Append(r, b))
        PROVE  Opened(Fold(Reading, Beginning, Append(r, b)), Append(r, b))
    <2>1. r \in Bytes  BY DEF Bytes
    <2>2. ~IsPrefix(Preface, r)
      <3>1. CASE ~IsPrefix(Preface, Append(r, b))  BY <3>1, <2>1, PrefixFacts
      <3>2. CASE Append(r, b) = Preface
        <4>1. IsPrefix(r, Preface) /\ r # Preface  BY <3>2, <2>1, PrefixFacts
        <4> QED  BY <4>1, <2>1, PrefixFacts
      <3> QED  BY <3>1, <3>2, <1>2
    <2>3. r # Preface  BY <2>2, <2>1, PrefixFacts
    <2>4. PICK y : y = Fold(Reading, Beginning, r)  OBVIOUS
    <2>5. Opened(y, r)  BY <2>2, <2>4, <1>2
    <2>6. Opened(Step(y, b), Append(r, b))  BY <2>1, <2>2, <2>3, <2>5, OpenStep
    <2>7. Fold(Reading, Beginning, Append(r, b)) = Reading[y][b]
      BY <2>4, ReadingType, BeginningType, FoldAppend
    <2>8. Reading[y][b] = Step(y, b)
      <3>1. y \in Positions  BY <2>5 DEF Opened
      <3> QED  BY <3>1, ReadingStep
    <2> QED  BY <2>6, <2>7, <2>8
  <1>3. ASSUME NEW r \in Seq(Nat), NEW b \in Nat, r \in S  PROVE Append(r, b) \in S
    <2>1. Append(r, b) \in Seq(Nat)  OBVIOUS
    <2> QED  BY <2>1, <1>2, <1>3
  <1> HIDE DEF S
  <1>4. q \in S  BY <1>1, <1>3, SeqInd DEF Bytes
  <1> QED  BY <1>4 DEF S

-----------------------------------------------------------------------------
(* What arrives *)

Streams == [wire : Bytes, source : Sources]

Growing ==
    [v \in Streams |->
        [f \in Frames |-> [wire |-> v.wire \o Encode(f), source |-> Carry(v.source, f)]]]

\* What there is before any frame.
Bare(in) ==
    [wire |-> in.text,
     source |-> [bytes |-> in.text, updates |-> <<>>, sent |-> 0, late |-> 0,
                 blind |-> in.text # Preface]]

\* The inputs have the types ScannerAssumption gives them.
LEMMA InputType ==
    ASSUME NEW in \in Inputs
    PROVE  /\ in.text \in Bytes /\ in.frames \in Seq(Frames) /\ Bare(in) \in Streams
           /\ in.text = Preface \/ (~IsPrefix(Preface, in.text) /\ in.frames = <<>>)
  <1>1. /\ in.text \in Bytes /\ in.frames \in Seq(Frames)
        /\ in.text = Preface \/ (~IsPrefix(Preface, in.text) /\ in.frames = <<>>)
    BY ScannerAssumption DEF Bytes, Frames
  <1>2. <<>> \in Seq(Updates)  OBVIOUS
  <1> QED  BY <1>1, <1>2 DEF Bare, Streams, Sources

\* Carry adds to Filtered what is late.
LEMMA CarryFields ==
    ASSUME NEW s \in Sources, NEW f \in Frames
    PROVE  LET t == Carry(s, f) IN
           /\ t \in Sources
           /\ t.bytes = Filtered(s, f).bytes /\ t.updates = Filtered(s, f).updates
           /\ t.sent = Filtered(s, f).sent /\ t.blind = Filtered(s, f).blind
           /\ s.late > 0 \/ Own(f) => t.late = s.late + Len(Encode(f))
           /\ ~(s.late > 0 \/ Own(f)) => t.late = 0
  <1>1. PICK a \in Sources : a = Filtered(s, f) /\ a.late = s.late  BY FilteredFields
  <1>2. PICK n \in Nat : n = Len(Encode(f))  BY EncodeParts, CatBytes
  <1>3. PICK l \in Nat : l = s.late  BY DEF Sources
  <1>4. PICK k \in Nat : k = IF l > 0 \/ Own(f) THEN l + n ELSE 0  OBVIOUS
  <1>5. Carry(s, f) = [a EXCEPT !.late = k]  BY <1>1, <1>2, <1>3, <1>4 DEF Carry
  <1>6. PICK t : t = [a EXCEPT !.late = k]  OBVIOUS
  <1>7. /\ t \in Sources /\ t.late = k /\ t.bytes = a.bytes /\ t.updates = a.updates
        /\ t.sent = a.sent /\ t.blind = a.blind
    BY <1>6 DEF Sources
  <1> QED  BY <1>1, <1>2, <1>3, <1>4, <1>5, <1>6, <1>7

\* Folding_proofs applies to streams that grow by frames.
LEMMA GrowingType == Reader(Growing, Streams, Frames)
  <1>1. ASSUME NEW v \in Streams, NEW f \in Frames
        PROVE  [wire |-> v.wire \o Encode(f), source |-> Carry(v.source, f)] \in Streams
    <2>1. v.wire \in Bytes /\ v.source \in Sources  BY DEF Streams
    <2>2. v.wire \o Encode(f) \in Bytes  BY <2>1, EncodeParts, CatBytes
    <2>3. Carry(v.source, f) \in Sources  BY <2>1, CarryFields
    <2> QED  BY <2>2, <2>3 DEF Streams
  <1> QED  BY <1>1 DEF Reader, Growing

\* Stream, a recursive function, is a fold over the frames.
LEMMA StreamIs ==
    ASSUME NEW in \in Inputs
    PROVE  Stream(in) = Fold(Growing, Bare(in), in.frames)
  <1>1. PICK q \in Seq(Frames), b \in Streams : q = in.frames /\ b = Bare(in)
    BY InputType
  <1>2. Len(q) \in Nat  OBVIOUS
  <1>3. PICK t \in [0 .. Len(q) -> Streams] : Trace(Growing, b, q, t)
    BY GrowingType, TraceExists
  <1> DEFINE Is(f) == f = [i \in 0 .. Len(q) |->
                              IF i = 0 THEN b
                              ELSE [wire |-> f[i - 1].wire \o Encode(q[i]),
                                    source |-> Carry(f[i - 1].source, q[i])]]
  <1> DEFINE Grows(i) == t[i] = [wire |-> t[i - 1].wire \o Encode(q[i]),
                                 source |-> Carry(t[i - 1].source, q[i])]
  <1>4. ASSUME NEW i \in 1 .. Len(q)  PROVE Grows(i)
    <2>1. t[i] = Growing[t[i - 1]][q[i]]  BY <1>3 DEF Trace
    <2>2. t[i - 1] \in Streams /\ q[i] \in Frames
      <3>1. i - 1 \in 0 .. Len(q)  BY <1>2
      <3> QED  BY <3>1, <1>3
    <2> QED  BY <2>1, <2>2 DEF Growing
  <1>5. Is(t)
    <2>1. t[0] = b  BY <1>3 DEF Trace
    <2>2. \A i \in 1 .. Len(q) : Grows(i)  BY <1>4
    <2>3. ASSUME NEW i \in 0 .. Len(q)
          PROVE  t[i] = IF i = 0 THEN b
                        ELSE [wire |-> t[i - 1].wire \o Encode(q[i]),
                              source |-> Carry(t[i - 1].source, q[i])]
      <3>1. i = 0 \/ i \in 1 .. Len(q)  BY <1>2
      <3> QED  BY <3>1, <2>1, <2>2
    <2> QED  BY <1>3, <2>3
  <1> DEFINE u == CHOOSE f : Is(f)
  <1>6. Is(u)  BY <1>5
  <1>7. Stream(in) = u[Len(q)]  BY <1>1 DEF Stream, Bare
  <1> HIDE DEF u
  <1>8. /\ u[0] = b
        /\ \A i \in 1 .. Len(q) : u[i] = [wire |-> u[i - 1].wire \o Encode(q[i]),
                                          source |-> Carry(u[i - 1].source, q[i])]
    BY <1>6, <1>2
  <1>9. t[Len(q)] = u[Len(q)]
    <2>1. \A i \in 1 .. Len(q) : t[i - 1] = u[i - 1] => t[i] = u[i]
      <3>1. ASSUME NEW i \in 1 .. Len(q), t[i - 1] = u[i - 1]  PROVE t[i] = u[i]
        <4>1. t[i] = [wire |-> t[i - 1].wire \o Encode(q[i]),
                      source |-> Carry(t[i - 1].source, q[i])]
          BY <1>4
        <4> QED  BY <4>1, <3>1, <1>8
      <3> QED  BY <3>1
    <2>2. t[0] = u[0]  BY <1>3, <1>8 DEF Trace
    <2>3. PICK n \in Nat : n = Len(q)  BY <1>2
    <2>4. t[n] = u[n]
      <3> HIDE DEF Is
      <3> QED  BY <2>1, <2>2, <2>3, Agree
    <2> QED  BY <2>3, <2>4
  <1>10. Fold(Growing, b, q) = t[Len(q)]  BY <1>3, FoldIs
  <1> QED  BY <1>1, <1>7, <1>9, <1>10

\* The wire is one part that brings no update and another that is late.
Awaited(v) ==
    \E e, r \in Bytes :
       v.wire = Cat(e, r) /\ Len(r) = v.source.late /\ Fold(Reading, Beginning, e).ups = <<>>

Promised(v) ==
    /\ v \in Streams
    /\ Agrees(Pass(Fold(Reading, Beginning, v.wire)), v.source)
    /\ v.source.late = 0 => v.source.updates = <<>>
    /\ Awaited(v)

\* What is over brings no update that is not there when it is settled.
LEMMA PassUps ==
    ASSUME NEW x \in Positions, Pass(x).ups = <<>>
    PROVE  x.ups = <<>>
  <1>1. CASE x.state = "payload" /\ x.remaining = 0
    <2>1. Pass(x) = GoTo(x, "header")  BY <1>1 DEF Pass
    <2>2. Pass(x).ups = x.ups  BY <2>1, GoToFields DEF States
    <2> QED  BY <2>2
  <1>2. CASE x.state = "sync" /\ x.remaining = 0
    <2>1. Pass(x) = Deliver(x)  BY <1>2 DEF Pass
    <2>2. PICK u \in Updates : Pass(x).ups = Append(x.ups, u)
      BY <2>1, DeliverFields
    <2>3. x.ups \in Seq(Updates)  BY DEF Positions
    <2>4. Append(x.ups, u) # <<>>  BY <2>2, <2>3, AppendProperties
    <2> QED  BY <2>2, <2>4
  <1>3. CASE ~(x.state = "payload" /\ x.remaining = 0) /\ ~(x.state = "sync" /\ x.remaining = 0)
    BY <1>3 DEF Pass
  <1> QED  BY <1>1, <1>2, <1>3

\* A frame more keeps the promise.
LEMMA GrowPromised ==
    ASSUME NEW v, Promised(v), NEW f \in Frames
    PROVE  Promised(Growing[v][f])
  <1>1. v \in Streams /\ v.wire \in Bytes /\ v.source \in Sources
    BY DEF Promised, Streams
  <1>2. PICK w \in Bytes, s \in Sources, e \in Bytes :
            w = v.wire /\ s = v.source /\ e = Encode(f)
    BY <1>1, EncodeParts
  <1>3. e # <<>>  BY <1>2, EncodeParts
  <1>4. PICK t \in Sources : t = Carry(s, f)  BY CarryFields
  <1>5. PICK g : g = Growing[v][f]  OBVIOUS
  <1>6. g \in Streams /\ g.wire = w \o e /\ g.source = t
    <2>1. w \o e \in Bytes  BY CatBytes
    <2>2. g = [wire |-> w \o e, source |-> t]  BY <1>1, <1>2, <1>4, <1>5 DEF Growing
    <2> QED  BY <2>1, <2>2 DEF Streams
  <1>7. PICK x \in Positions : x = Fold(Reading, Beginning, w)
    <2>1. w \in Seq(Nat)  BY DEF Bytes
    <2> QED  BY <2>1, ReadingType, BeginningType, FoldType
  <1>8. Fold(Reading, Beginning, w \o e) = Fold(Reading, x, e)
    <2>1. w \in Seq(Nat) /\ e \in Seq(Nat)  BY DEF Bytes
    <2> QED  BY <2>1, <1>7, ReadingType, BeginningType, FoldConcat
  <1>9. PICK y \in Positions : y = Fold(Reading, x, e)
    <2>1. e \in Seq(Nat)  BY DEF Bytes
    <2> QED  BY <2>1, <1>7, ReadingType, FoldType
  <1>10. Agrees(Pass(y), Filtered(s, f))
    <2>1. Agrees(Pass(x), s)  BY <1>2, <1>7 DEF Promised
    <2>2. Agrees(Pass(Fold(Reading, Pass(x), e)), Filtered(s, f))
      BY <2>1, <1>2, FrameAgrees
    <2>3. Fold(Reading, Pass(x), e) = y  BY <1>3, <1>7, <1>9, FoldPassed
    <2> QED  BY <2>2, <2>3
  <1>11. Agrees(Pass(y), t)  BY <1>10, <1>4, CarryFields DEF Agrees
  <1>12. t.late = 0 => t.updates = <<>> /\ ~Own(f) /\ s.late = 0
    <2>1. PICK n \in Nat, m \in Nat : n = Len(e) /\ n # 0 /\ m = s.late
      <3>1. Len(e) \in Nat /\ Len(e) # 0  BY <1>3, EmptySeq DEF Bytes
      <3> QED  BY <3>1 DEF Sources
    <2>2. t.late = 0 => ~(m > 0 \/ Own(f))
      <3>1. m > 0 \/ Own(f) => t.late = m + n  BY <2>1, <1>2, <1>4, CarryFields
      <3> QED  BY <3>1, <2>1
    <2>3. ASSUME ~Own(f)  PROVE t.updates = s.updates
      <3>1. ~Refused(f)  BY <2>3 DEF Own, Refused
      <3> QED  BY <3>1, <2>3, <1>4, CarryFields, FilteredFields
    <2>4. m = 0 => s.updates = <<>>  BY <2>1, <1>2 DEF Promised
    <2> QED  BY <2>1, <2>2, <2>3, <2>4
  <1>13. Awaited(g)
    <2>1. PICK a \in Bytes, r \in Bytes :
              w = Cat(a, r) /\ Len(r) = s.late /\ Fold(Reading, Beginning, a).ups = <<>>
      BY <1>2 DEF Promised, Awaited
    <2>2. CASE t.late = 0
      <3>1. Pass(y).ups = <<>>  BY <2>2, <1>11, <1>12 DEF Agrees
      <3>2. y.ups = <<>>  BY <3>1, PassUps
      <3>3. PICK c \in Bytes, z \in Bytes : c = w \o e /\ z = <<>>
        <4>1. <<>> \in Bytes  BY DEF Bytes
        <4>2. w \o e \in Bytes  BY CatBytes
        <4> QED  BY <4>1, <4>2
      <3>4. c = Cat(c, z) /\ Len(z) = 0  BY <3>3, CatBytes, EmptySeq DEF Cat
      <3>5. Fold(Reading, Beginning, c).ups = <<>>  BY <3>2, <3>3, <1>8, <1>9
      <3>6. g.wire = Cat(c, z) /\ Len(z) = g.source.late  BY <3>3, <3>4, <2>2, <1>6
      <3> QED  BY <3>5, <3>6 DEF Awaited
    <2>3. CASE t.late # 0
      <3>1. s.late > 0 \/ Own(f)  BY <2>3, <1>4, CarryFields
      <3>2. t.late = s.late + Len(e)  BY <3>1, <1>2, <1>4, CarryFields
      <3>3. PICK c \in Bytes : c = Cat(r, e)  BY CatBytes DEF Cat
      <3>4. Len(c) = Len(r) + Len(e)  BY <3>3, CatBytes DEF Cat
      <3>5. Cat(w, e) = Cat(a, c)
        <4>1. Cat(Cat(a, r), e) = Cat(a, Cat(r, e))  BY CatAssoc DEF Bytes
        <4> QED  BY <4>1, <2>1, <3>3
      <3>6. g.wire = Cat(a, c) /\ Len(c) = g.source.late
        BY <3>2, <3>4, <3>5, <2>1, <1>6 DEF Cat
      <3> QED  BY <3>6, <2>1 DEF Awaited
    <2> QED  BY <2>2, <2>3
  <1>14. Agrees(Pass(Fold(Reading, Beginning, g.wire)), g.source)
    BY <1>6, <1>8, <1>9, <1>11
  <1> QED  BY <1>5, <1>6, <1>12, <1>13, <1>14 DEF Promised

\* A stream read to its end is what its reader is to get of it.
Complete(v) ==
    LET y == Pass(Fold(Reading, Beginning, v.wire)) IN
    /\ y \in Positions /\ y.out = v.source.bytes /\ y.ups = v.source.updates
    /\ y.sent = v.source.sent

\* Every input is read to its end as Stream says, and its late part has all the updates.
LEMMA StreamComplete ==
    ASSUME NEW in \in Inputs
    PROVE  Stream(in) \in Streams /\ Complete(Stream(in)) /\ Awaited(Stream(in))
  <1>1. PICK b \in Streams : b = Bare(in)  BY InputType
  <1>2. PICK q \in Bytes : q = in.text  BY InputType
  <1>3. b.wire = q /\ b.source.bytes = q /\ b.source.updates = <<>> /\ b.source.sent = 0
        /\ b.source.late = 0 /\ b.source.blind = (q # Preface)
    BY <1>1, <1>2 DEF Bare
  <1>4. PICK y : y = Fold(Reading, Beginning, q)  OBVIOUS
  <1>5. Opened(y, q)
    BY <1>2, <1>4, InputType, OpenFold
  <1>6. Pass(y) = y
    <2>1. y.state \in {"preface", "header", "blind"}  BY <1>5 DEF Opened
    <2> QED  BY <2>1 DEF Pass
  <1>7. y \in Positions /\ y.out = q /\ y.ups = <<>> /\ y.sent = 0  BY <1>5 DEF Opened
  <1>8. Awaited(b)
    <2>1. PICK z \in Bytes : z = <<>>
      <3>1. <<>> \in Bytes  BY DEF Bytes
      <3> QED  BY <3>1
    <2>2. q = Cat(q, z) /\ Len(z) = 0  BY <2>1, CatBytes, EmptySeq DEF Cat
    <2> QED  BY <2>1, <2>2, <1>3, <1>4, <1>7 DEF Awaited
  <1>9. CASE q = Preface
    <2>1. Agrees(y, b.source)  BY <1>3, <1>5, <1>7, <1>9 DEF Agrees, Opened
    <2>2. Promised(b)  BY <2>1, <1>3, <1>4, <1>6, <1>8 DEF Promised
    <2> DEFINE W == {v \in Streams : Promised(v)}
    <2>3. \A v \in W, f \in Frames : Growing[v][f] \in W
      BY GrowPromised DEF Promised
    <2>4. b \in W /\ W \subseteq Streams  BY <2>2
    <2> HIDE DEF W
    <2>5. PICK fs \in Seq(Frames) : fs = in.frames  BY InputType
    <2>6. Fold(Growing, b, fs) \in W  BY <2>3, <2>4, GrowingType, FoldKeeps
    <2>7. Promised(Stream(in))  BY <2>5, <2>6, <1>1, StreamIs DEF W
    <2> QED  BY <2>7 DEF Promised, Complete, Agrees
  <1>10. CASE ~IsPrefix(Preface, q) /\ in.frames = <<>>
    <2>1. Fold(Growing, b, <<>>) = b  BY GrowingType, FoldEmpty
    <2>2. Stream(in) = b  BY <2>1, <1>1, <1>10, StreamIs
    <2> QED  BY <2>2, <1>3, <1>4, <1>6, <1>7, <1>8 DEF Complete
  <1> QED  BY <1>2, <1>9, <1>10, InputType

-----------------------------------------------------------------------------
(* The scanner is such a reader *)

\* The updates `d` that were taken and the one that is pending, with everything in
\* front of it.
Pending(sc, h, r, d) ==
    IF sc.blocks = <<>> THEN d
    ELSE Append(d, [at |-> Len(Cat(h, sc.out)), block |-> sc.blocks[1],
                    sent |-> r + sc.sent])

\* The scanner as the reader that gave out the bytes `h`, reported r of those the
\* fast path handed over and the updates `d`.
Ghost(sc, h, r, d) ==
    [state |-> sc.state, part |-> sc.part, remaining |-> sc.remaining,
     out |-> Cat(h, sc.out), ups |-> Pending(sc, h, r, d), sent |-> r + sc.sent]

\* Where the reader is behind the bytes that are held.
Held(sc, h, r, d) == Fold(Reading, Ghost(sc, h, r, d), sc.hold)

\* Nothing is held unless an update is pending, and no payload is read then.
Fits(sc) ==
    /\ sc \in ScannerType
    /\ sc.blocks = <<>> => sc.hold = <<>>
    /\ sc.blocks # <<>> => Len(sc.blocks) = 1 /\ sc.state = "header"

\* The scanner is a position of the reader.
LEMMA GhostType ==
    ASSUME NEW sc \in ScannerType, Len(sc.blocks) <= 1,
           NEW h \in Bytes, NEW r \in Nat, NEW d \in Seq(Updates)
    PROVE  Ghost(sc, h, r, d) \in Positions
  <1>1. sc.out \in Bytes /\ sc.sent \in Nat /\ sc.blocks \in Seq(Bytes)  BY DEF ScannerType
  <1>2. Cat(h, sc.out) \in Bytes /\ Len(Cat(h, sc.out)) \in Nat  BY <1>1, CatBytes DEF Cat
  <1>3. r + sc.sent \in Nat  BY <1>1
  <1>4. Pending(sc, h, r, d) \in Seq(Updates)
    <2>1. CASE sc.blocks = <<>>  BY <2>1 DEF Pending
    <2>2. CASE sc.blocks # <<>>
      <3>1. PICK n \in Nat : n = Len(sc.blocks) /\ n = 1
        <4>1. Len(sc.blocks) \in Nat /\ Len(sc.blocks) # 0  BY <1>1, <2>2, EmptySeq
        <4> QED  BY <4>1
      <3>2. sc.blocks[1] \in Bytes
        <4>1. 1 \in 1 .. Len(sc.blocks)  BY <3>1
        <4> QED  BY <4>1, <1>1
      <3>3. [at |-> Len(Cat(h, sc.out)), block |-> sc.blocks[1], sent |-> r + sc.sent] \in Updates
        BY <1>2, <1>3, <3>2 DEF Updates
      <3> QED  BY <2>2, <3>3, AppendProperties DEF Pending
    <2> QED  BY <2>1, <2>2
  <1> QED  BY <1>2, <1>3, <1>4 DEF Ghost, Positions, ScannerType

\* Where it is, field by field.
LEMMA GhostFields ==
    ASSUME NEW sc \in ScannerType, NEW h \in Bytes, NEW r \in Nat, NEW d \in Seq(Updates)
    PROVE  LET g == Ghost(sc, h, r, d) IN
           /\ g.state = sc.state /\ g.part = sc.part /\ g.remaining = sc.remaining
           /\ g.out = Cat(h, sc.out) /\ g.ups = Pending(sc, h, r, d) /\ g.sent = r + sc.sent
  BY DEF Ghost

\* Positions are what their fields are.
LEMMA Alike ==
    ASSUME NEW x \in Positions, NEW y \in Positions,
           x.state = y.state, x.part = y.part, x.remaining = y.remaining, x.out = y.out,
           x.ups = y.ups, x.sent = y.sent
    PROVE  x = y
  BY DEF Positions

\* Their fields are changed alike while no update is pending.
LEMMA GhostGoTo ==
    ASSUME NEW sc \in ScannerType, sc.blocks = <<>>, NEW st \in States,
           NEW h \in Bytes, NEW r \in Nat, NEW d \in Seq(Updates)
    PROVE  LET t == GoTo(sc, st) IN
           /\ t \in ScannerType /\ t.state = st /\ t.blocks = <<>> /\ t.hold = sc.hold
           /\ Ghost(t, h, r, d) = GoTo(Ghost(sc, h, r, d), st)
  <1>1. PICK t : t = [sc EXCEPT !.state = st, !.part = <<>>]  OBVIOUS
  <1>2. <<>> \in Bytes  BY DEF Bytes
  <1>3. /\ t \in ScannerType /\ t.state = st /\ t.part = <<>> /\ t.blocks = sc.blocks
        /\ t.hold = sc.hold /\ t.out = sc.out /\ t.remaining = sc.remaining
        /\ t.sent = sc.sent
    BY <1>1, <1>2 DEF ScannerType
  <1>4. Ghost(t, h, r, d) = GoTo(Ghost(sc, h, r, d), st)
    <2>1. Len(sc.blocks) <= 1 /\ Len(t.blocks) <= 1  BY <1>3, EmptySeq
    <2>2. PICK g \in Positions, x \in Positions :
              g = Ghost(sc, h, r, d) /\ x = Ghost(t, h, r, d)
      BY <2>1, <1>3, GhostType
    <2>3. Pending(t, h, r, d) = d /\ Pending(sc, h, r, d) = d  BY <1>3 DEF Pending
    <2>4. PICK y \in Positions : y = GoTo(g, st)  BY GoToFields
    <2>5. /\ y.state = st /\ y.part = <<>> /\ y.remaining = g.remaining /\ y.out = g.out
          /\ y.ups = g.ups /\ y.sent = g.sent
      BY <2>4, GoToFields
    <2>6. /\ g.remaining = sc.remaining /\ g.out = Cat(h, sc.out) /\ g.ups = d
          /\ g.sent = r + sc.sent
      BY <2>2, <2>3, GhostFields
    <2>7. /\ x.state = st /\ x.part = <<>> /\ x.remaining = sc.remaining
          /\ x.out = Cat(h, sc.out) /\ x.ups = d /\ x.sent = r + sc.sent
      BY <2>2, <2>3, <1>3, GhostFields
    <2>8. x = y  BY <2>5, <2>6, <2>7, Alike
    <2> QED  BY <2>2, <2>4, <2>8
  <1> QED  BY <1>1, <1>3, <1>4 DEF GoTo

\* The scanner pushes an update when the reader delivers it.
LEMMA GhostPush ==
    ASSUME NEW sc \in ScannerType, sc.blocks = <<>>,
           NEW h \in Bytes, NEW r \in Nat, NEW d \in Seq(Updates)
    PROVE  LET t == Push(sc) IN
           /\ t \in ScannerType /\ t.state = "header" /\ t.blocks # <<>>
           /\ Len(t.blocks) = 1 /\ t.hold = sc.hold
           /\ Ghost(t, h, r, d) = Deliver(Ghost(sc, h, r, d))
  <1>1. PICK p \in Bytes : p = sc.part  BY DEF ScannerType
  <1>2. PICK bs : bs = <<p>>  OBVIOUS
  <1>3. bs \in Seq(Bytes) /\ Len(bs) = 1 /\ bs[1] = p /\ bs # <<>>
    BY <1>2
  <1>4. Append(sc.blocks, p) = bs  BY <1>2
  <1>5. PICK t : t = [sc EXCEPT !.blocks = bs, !.state = "header", !.part = <<>>]  OBVIOUS
  <1>6. <<>> \in Bytes /\ "header" \in States  BY DEF Bytes, States
  <1>7. /\ t \in ScannerType /\ t.state = "header" /\ t.part = <<>> /\ t.blocks = bs
        /\ t.hold = sc.hold /\ t.out = sc.out /\ t.remaining = sc.remaining
        /\ t.sent = sc.sent
    BY <1>3, <1>5, <1>6 DEF ScannerType
  <1>8. Push(sc) = t
    <2>1. Push(sc) = GoTo([sc EXCEPT !.blocks = bs], "header")  BY <1>1, <1>4 DEF Push
    <2> QED  BY <2>1, <1>5 DEF GoTo, ScannerType
  <1>9. PICK u : u = [at |-> Len(Cat(h, sc.out)), block |-> p, sent |-> r + sc.sent]  OBVIOUS
  <1>10. Ghost(t, h, r, d) = Deliver(Ghost(sc, h, r, d))
    <2>1. Len(sc.blocks) <= 1 /\ Len(t.blocks) <= 1
      <3>1. Len(sc.blocks) = 0  BY EmptySeq
      <3>2. Len(t.blocks) = 1  BY <1>3, <1>7
      <3> QED  BY <3>1, <3>2
    <2>2. PICK g \in Positions, x \in Positions :
              g = Ghost(sc, h, r, d) /\ x = Ghost(t, h, r, d)
      BY <2>1, <1>7, GhostType
    <2>3. PICK us : us = Append(d, u)  OBVIOUS
    <2>4. Pending(t, h, r, d) = us /\ Pending(sc, h, r, d) = d
      BY <2>3, <1>3, <1>7, <1>9 DEF Pending
    <2>5. PICK y \in Positions : y = Deliver(g)  BY DeliverFields
    <2>6. /\ y.state = "header" /\ y.part = <<>> /\ y.remaining = g.remaining
          /\ y.out = g.out /\ y.sent = g.sent
          /\ y.ups = Append(g.ups, [at |-> Len(g.out), block |-> g.part, sent |-> g.sent])
      BY <2>5, DeliverFields
    <2>7. /\ g.remaining = sc.remaining /\ g.out = Cat(h, sc.out) /\ g.ups = d
          /\ g.sent = r + sc.sent /\ g.part = p
      BY <2>2, <2>4, <1>1, GhostFields
    <2>8. /\ x.state = "header" /\ x.part = <<>> /\ x.remaining = sc.remaining
          /\ x.out = Cat(h, sc.out) /\ x.ups = us /\ x.sent = r + sc.sent
      <3>1. t \in ScannerType  BY <1>7
      <3>2. /\ x.state = t.state /\ x.part = t.part /\ x.remaining = t.remaining
            /\ x.out = Cat(h, t.out) /\ x.ups = Pending(t, h, r, d) /\ x.sent = r + t.sent
        BY <3>1, <2>2, GhostFields
      <3> QED  BY <3>2, <2>4, <1>7
    <2>9. y.ups = us
      <3>1. y.ups = Append(d, u)  BY <2>6, <2>7, <1>9
      <3> QED  BY <3>1, <2>3
    <2>10. x = y  BY <2>6, <2>7, <2>8, <2>9, Alike
    <2> QED  BY <2>2, <2>5, <2>10
  <1> QED  BY <1>3, <1>7, <1>8, <1>10

\* Both settle what is over alike,
LEMMA GhostSettle ==
    ASSUME NEW sc \in ScannerType, sc.blocks = <<>>,
           NEW h \in Bytes, NEW r \in Nat, NEW d \in Seq(Updates)
    PROVE  LET t == Settle(sc) IN
           /\ t \in ScannerType /\ t.hold = sc.hold
           /\ t.blocks # <<>> => Len(t.blocks) = 1 /\ t.state = "header"
           /\ t.state \in {"payload", "sync"} => t.remaining # 0
           /\ Ghost(t, h, r, d) = Pass(Ghost(sc, h, r, d))
  <1>1. PICK g : g = Ghost(sc, h, r, d)  OBVIOUS
  <1>2. g.state = sc.state /\ g.remaining = sc.remaining  BY <1>1 DEF Ghost
  <1>3. PICK t : t = Settle(sc)  OBVIOUS
  <1>4. CASE sc.state = "payload" /\ sc.remaining = 0
    <2>1. t = GoTo(sc, "header") /\ Pass(g) = GoTo(g, "header")
      BY <1>2, <1>3, <1>4 DEF Settle, Pass
    <2>2. "header" \in States  BY DEF States
    <2>3. /\ t \in ScannerType /\ t.state = "header" /\ t.blocks = <<>> /\ t.hold = sc.hold
          /\ Ghost(t, h, r, d) = GoTo(g, "header")
      BY <2>1, <2>2, <1>1, GhostGoTo
    <2> QED  BY <2>1, <2>3, <1>1, <1>3
  <1>5. CASE sc.state = "sync" /\ sc.remaining = 0
    <2>1. t = Push(sc) /\ Pass(g) = Deliver(g)
      BY <1>2, <1>3, <1>5 DEF Settle, Pass
    <2>2. /\ t \in ScannerType /\ t.state = "header" /\ t.blocks # <<>>
          /\ Len(t.blocks) = 1 /\ t.hold = sc.hold /\ Ghost(t, h, r, d) = Deliver(g)
      BY <2>1, <1>1, GhostPush
    <2> QED  BY <2>1, <2>2, <1>1, <1>3
  <1>6. CASE ~(sc.state \in {"payload", "sync"} /\ sc.remaining = 0)
    <2>1. t = sc /\ Pass(g) = g  BY <1>2, <1>3, <1>6 DEF Settle, Pass
    <2> QED  BY <2>1, <1>1, <1>3, <1>6
  <1> QED  BY <1>4, <1>5, <1>6

\* A record with some fields set, which the scanner and the reader both have.
Sets(x, p, m, o, k) == [x EXCEPT !.part = p, !.remaining = m, !.out = o, !.sent = k]

\* The scanner t, with the same bytes held and nothing pending, as the reader y.
Stands(t, sc, y, h, r, d) ==
    t \in ScannerType /\ t.blocks = <<>> /\ t.hold = sc.hold /\ Ghost(t, h, r, d) = y

\* and set the fields that both have.
LEMMA GhostSets ==
    ASSUME NEW sc \in ScannerType, sc.blocks = <<>>,
           NEW h \in Bytes, NEW r \in Nat, NEW d \in Seq(Updates),
           NEW p \in Bytes, NEW m \in Nat, NEW o \in Bytes, NEW k \in Nat
    PROVE  Stands(Sets(sc, p, m, o, k), sc,
                  Sets(Ghost(sc, h, r, d), p, m, Cat(h, o), r + k), h, r, d)
  <1>1. PICK t : t = Sets(sc, p, m, o, k)  OBVIOUS
  <1>2. /\ t \in ScannerType /\ t.state = sc.state /\ t.blocks = sc.blocks /\ t.hold = sc.hold
        /\ t.part = p /\ t.remaining = m /\ t.out = o /\ t.sent = k
    BY <1>1 DEF Sets, ScannerType
  <1>3. Len(sc.blocks) <= 1 /\ Len(t.blocks) <= 1  BY <1>2, EmptySeq
  <1>4. PICK g \in Positions, x \in Positions : g = Ghost(sc, h, r, d) /\ x = Ghost(t, h, r, d)
    BY <1>2, <1>3, GhostType
  <1>5. Pending(t, h, r, d) = d /\ Pending(sc, h, r, d) = d  BY <1>2 DEF Pending
  <1>6. Cat(h, o) \in Bytes /\ r + k \in Nat  BY CatBytes DEF Cat
  <1>7. PICK y : y = Sets(g, p, m, Cat(h, o), r + k)  OBVIOUS
  <1>8. /\ y \in Positions /\ y.state = g.state /\ y.ups = g.ups /\ y.part = p
        /\ y.remaining = m /\ y.out = Cat(h, o) /\ y.sent = r + k
    BY <1>6, <1>7 DEF Sets, Positions
  <1>9. g.state = sc.state /\ g.ups = d  BY <1>4, <1>5, GhostFields
  <1>10. /\ x.state = sc.state /\ x.part = p /\ x.remaining = m /\ x.out = Cat(h, o)
         /\ x.ups = d /\ x.sent = r + k
    <2>1. t \in ScannerType  BY <1>2
    <2>2. /\ x.state = t.state /\ x.part = t.part /\ x.remaining = t.remaining
          /\ x.out = Cat(h, t.out) /\ x.ups = Pending(t, h, r, d) /\ x.sent = r + t.sent
      BY <2>1, <1>4, GhostFields
    <2> QED  BY <2>2, <1>2, <1>5
  <1>11. x = y  BY <1>8, <1>9, <1>10, Alike
  <1> QED  BY <1>1, <1>2, <1>4, <1>7, <1>11 DEF Stands

\* What the reader does with a byte the scanner does with it.
Mirrors(t, sc, y, h, r, d) ==
    /\ t \in ScannerType /\ t.hold = sc.hold
    /\ t.blocks # <<>> => Len(t.blocks) = 1 /\ t.state = "header"
    /\ Ghost(t, h, r, d) = y

\* The scanner reads the preface as the reader does,
LEMMA GhostMatch ==
    ASSUME NEW sc \in ScannerType, sc.blocks = <<>>, NEW b \in Nat,
           NEW h \in Bytes, NEW r \in Nat, NEW d \in Seq(Updates),
           NEW g \in Positions, g = Ghost(sc, h, r, d)
    PROVE  Mirrors(MatchPreface(sc, b), sc, MatchPreface(g, b), h, r, d)
  <1>1. PICK p \in Bytes, o \in Bytes, m \in Nat, k \in Nat :
            /\ p = Append(sc.part, b) /\ o = Append(sc.out, b) /\ m = sc.remaining
            /\ k = sc.sent
    BY AppendType DEF ScannerType
  <1>2. PICK t : t = Sets(sc, p, m, o, k)  OBVIOUS
  <1>3. PICK y : y = Sets(g, p, m, Cat(h, o), r + k)  OBVIOUS
  <1>4. t \in ScannerType /\ t.blocks = <<>> /\ t.hold = sc.hold /\ Ghost(t, h, r, d) = y
    <2>1. Stands(t, sc, y, h, r, d)  BY <1>2, <1>3, GhostSets
    <2> QED  BY <2>1 DEF Stands
  <1>5. [sc EXCEPT !.part = p, !.out = Append(@, b)] = t
    BY <1>1, <1>2 DEF Sets, ScannerType
  <1>6. /\ g.part = sc.part /\ g.out = Cat(h, sc.out) /\ g.remaining = m /\ g.sent = r + k
    <2>1. /\ g.part = sc.part /\ g.out = Cat(h, sc.out) /\ g.remaining = sc.remaining
          /\ g.sent = r + sc.sent
      BY GhostFields
    <2> QED  BY <2>1, <1>1
  <1>7. Append(g.out, b) = Cat(h, o)
    <2>1. PICK q \in Bytes : q = sc.out  BY DEF ScannerType
    <2>2. Append(h \o q, b) = h \o Append(q, b)  BY CatAppend
    <2> QED  BY <2>1, <2>2, <1>1, <1>6 DEF Cat
  <1>8. [g EXCEPT !.part = p, !.out = Append(@, b)] = y
    BY <1>3, <1>6, <1>7 DEF Sets, Positions
  <1>9. MatchPreface(sc, b) = CASE ~IsPrefix(p, Preface) -> GoTo(t, "blind")
                                [] p = Preface -> GoTo(t, "header")
                                [] OTHER -> t
    BY <1>1, <1>5 DEF MatchPreface
  <1>10. MatchPreface(g, b) = CASE ~IsPrefix(p, Preface) -> GoTo(y, "blind")
                                [] p = Preface -> GoTo(y, "header")
                                [] OTHER -> y
    BY <1>1, <1>6, <1>8 DEF MatchPreface
  <1>11. p = Preface => IsPrefix(p, Preface)
    <2>1. 0 \in Nat /\ <<>> \in Bytes  BY DEF Bytes
    <2> QED  BY <2>1, PrefixFacts
  <1>12. "blind" \in States /\ "header" \in States  BY DEF States
  <1>13. CASE ~IsPrefix(p, Preface)
    <2>1. MatchPreface(sc, b) = GoTo(t, "blind") /\ MatchPreface(g, b) = GoTo(y, "blind")
      BY <1>9, <1>10, <1>11, <1>13
    <2> QED  BY <2>1, <1>4, <1>12, GhostGoTo DEF Mirrors
  <1>14. CASE p = Preface
    <2>1. MatchPreface(sc, b) = GoTo(t, "header") /\ MatchPreface(g, b) = GoTo(y, "header")
      BY <1>9, <1>10, <1>11, <1>14
    <2> QED  BY <2>1, <1>4, <1>12, GhostGoTo DEF Mirrors
  <1>15. CASE IsPrefix(p, Preface) /\ p # Preface
    <2>1. MatchPreface(sc, b) = t /\ MatchPreface(g, b) = y
      BY <1>9, <1>10, <1>15
    <2> QED  BY <2>1, <1>4 DEF Mirrors
  <1> QED  BY <1>13, <1>14, <1>15

\* headers,
LEMMA GhostHeader ==
    ASSUME NEW sc \in ScannerType, sc.blocks = <<>>, NEW b \in Nat,
           NEW h \in Bytes, NEW r \in Nat, NEW d \in Seq(Updates),
           NEW g \in Positions, g = Ghost(sc, h, r, d)
    PROVE  Mirrors(ReadHeader(sc, b), sc, ReadHeader(g, b), h, r, d)
  <1>1. PICK p \in Bytes, o \in Bytes, m \in Nat, k \in Nat, buf \in Bytes :
            /\ p = sc.part /\ o = sc.out /\ m = sc.remaining /\ k = sc.sent
            /\ buf = Append(p, b)
    BY AppendType DEF ScannerType
  <1>2. PICK len \in Nat : len = Number(Front(buf))
    <2>1. buf # <<>>
      <3>1. p \in Seq(Nat)  BY DEF Bytes
      <3>2. Append(p, b) # <<>>  BY <3>1, AppendProperties
      <3> QED  BY <3>2, <1>1
    <2>2. Front(buf) \in Bytes  BY <2>1, FrontType
    <2> QED  BY <2>2, NumberType
  <1>3. PICK all \in Bytes : all = o \o buf  BY CatBytes
  <1>4. PICK t1, t2, t3 :
            /\ t1 = Sets(sc, buf, m, o, k) /\ t2 = Sets(sc, p, len, o, k)
            /\ t3 = Sets(sc, p, len, all, k)
    OBVIOUS
  <1>5. PICK y1, y2, y3 :
            /\ y1 = Sets(g, buf, m, Cat(h, o), r + k) /\ y2 = Sets(g, p, len, Cat(h, o), r + k)
            /\ y3 = Sets(g, p, len, Cat(h, all), r + k)
    OBVIOUS
  <1>6. /\ t1 \in ScannerType /\ t1.blocks = <<>> /\ t1.hold = sc.hold
        /\ Ghost(t1, h, r, d) = y1
        /\ t2 \in ScannerType /\ t2.blocks = <<>> /\ t2.hold = sc.hold
        /\ Ghost(t2, h, r, d) = y2
        /\ t3 \in ScannerType /\ t3.blocks = <<>> /\ t3.hold = sc.hold
        /\ Ghost(t3, h, r, d) = y3
    <2>1. /\ Stands(t1, sc, y1, h, r, d) /\ Stands(t2, sc, y2, h, r, d)
          /\ Stands(t3, sc, y3, h, r, d)
      BY <1>4, <1>5, GhostSets
    <2> QED  BY <2>1 DEF Stands
  <1>7. /\ [sc EXCEPT !.part = buf] = t1 /\ [sc EXCEPT !.remaining = len] = t2
        /\ [sc EXCEPT !.remaining = len, !.out = @ \o buf] = t3
    BY <1>1, <1>3, <1>4 DEF Sets, ScannerType
  <1>8. /\ g.part = p /\ g.out = Cat(h, o) /\ g.remaining = m /\ g.sent = r + k
    <2>1. /\ g.part = sc.part /\ g.out = Cat(h, sc.out) /\ g.remaining = sc.remaining
          /\ g.sent = r + sc.sent
      BY GhostFields
    <2> QED  BY <2>1, <1>1
  <1>9. g.out \o buf = Cat(h, all)
    <2>1. (h \o o) \o buf = h \o (o \o buf)  BY CatThree
    <2> QED  BY <2>1, <1>3, <1>8 DEF Cat
  <1>10. /\ [g EXCEPT !.part = buf] = y1 /\ [g EXCEPT !.remaining = len] = y2
         /\ [g EXCEPT !.remaining = len, !.out = @ \o buf] = y3
    BY <1>5, <1>8, <1>9 DEF Sets, Positions
  <1>11. PICK st \in States : st = IF len = FlowLen THEN "flow" ELSE "blind"  BY DEF States
  <1>12. ReadHeader(sc, b) = CASE Len(buf) < HeaderLen -> t1
                               [] Len(buf) = HeaderLen /\ b = FcKind -> GoTo(sc, st)
                               [] Len(buf) = HeaderLen /\ b = DtKind /\ len <= MaxSyncFrame ->
                                    GoTo(t2, "sync")
                               [] Len(buf) = HeaderLen /\ b = DtKind /\ len > MaxSyncFrame ->
                                    GoTo(sc, "blind")
                               [] OTHER -> GoTo(t3, "payload")
    BY <1>1, <1>2, <1>7, <1>11 DEF ReadHeader
  <1>13. ReadHeader(g, b) = CASE Len(buf) < HeaderLen -> y1
                              [] Len(buf) = HeaderLen /\ b = FcKind -> GoTo(g, st)
                              [] Len(buf) = HeaderLen /\ b = DtKind /\ len <= MaxSyncFrame ->
                                   GoTo(y2, "sync")
                              [] Len(buf) = HeaderLen /\ b = DtKind /\ len > MaxSyncFrame ->
                                   GoTo(g, "blind")
                              [] OTHER -> GoTo(y3, "payload")
    BY <1>1, <1>2, <1>8, <1>10, <1>11 DEF ReadHeader
  <1>14. "blind" \in States /\ "sync" \in States /\ "payload" \in States  BY DEF States
  <1>15. /\ Mirrors(GoTo(sc, st), sc, GoTo(g, st), h, r, d)
         /\ Mirrors(GoTo(sc, "blind"), sc, GoTo(g, "blind"), h, r, d)
         /\ Mirrors(GoTo(t2, "sync"), sc, GoTo(y2, "sync"), h, r, d)
         /\ Mirrors(GoTo(t3, "payload"), sc, GoTo(y3, "payload"), h, r, d)
         /\ Mirrors(t1, sc, y1, h, r, d)
    BY <1>6, <1>14, GhostGoTo DEF Mirrors
  <1>16. PICK n \in Nat, l \in Nat : n = Len(buf) /\ l = HeaderLen
    BY CatBytes, Constants
  <1>17. FcKind # DtKind /\ (len <= MaxSyncFrame => ~(len > MaxSyncFrame))
         /\ (n < l => n # l)
    BY ScannerAssumption
  <1>18. CASE n < l
    <2>1. ReadHeader(sc, b) = t1 /\ ReadHeader(g, b) = y1
      BY <1>12, <1>13, <1>16, <1>17, <1>18
    <2> QED  BY <2>1, <1>15
  <1>19. CASE n = l /\ b = FcKind
    <2>1. ReadHeader(sc, b) = GoTo(sc, st) /\ ReadHeader(g, b) = GoTo(g, st)
      BY <1>12, <1>13, <1>16, <1>17, <1>19
    <2> QED  BY <2>1, <1>15
  <1>20. CASE n = l /\ b = DtKind /\ len <= MaxSyncFrame
    <2>1. ReadHeader(sc, b) = GoTo(t2, "sync") /\ ReadHeader(g, b) = GoTo(y2, "sync")
      BY <1>12, <1>13, <1>16, <1>17, <1>20
    <2> QED  BY <2>1, <1>15
  <1>21. CASE n = l /\ b = DtKind /\ len > MaxSyncFrame
    <2>1. ReadHeader(sc, b) = GoTo(sc, "blind") /\ ReadHeader(g, b) = GoTo(g, "blind")
      BY <1>12, <1>13, <1>16, <1>17, <1>21
    <2> QED  BY <2>1, <1>15
  <1>22. CASE /\ ~(n < l) /\ ~(n = l /\ b = FcKind)
              /\ ~(n = l /\ b = DtKind /\ len <= MaxSyncFrame)
              /\ ~(n = l /\ b = DtKind /\ len > MaxSyncFrame)
    <2>1. ReadHeader(sc, b) = GoTo(t3, "payload") /\ ReadHeader(g, b) = GoTo(y3, "payload")
      BY <1>12, <1>13, <1>16, <1>22
    <2> QED  BY <2>1, <1>15
  <1> QED  BY <1>18, <1>19, <1>20, <1>21, <1>22

\* reports,
LEMMA GhostFlow ==
    ASSUME NEW sc \in ScannerType, sc.blocks = <<>>, NEW b \in Nat,
           NEW h \in Bytes, NEW r \in Nat, NEW d \in Seq(Updates),
           NEW g \in Positions, g = Ghost(sc, h, r, d)
    PROVE  Mirrors(ReadFlow(sc, b), sc, ReadFlow(g, b), h, r, d)
  <1>1. PICK p \in Bytes, o \in Bytes, m \in Nat, k \in Nat, buf \in Bytes :
            /\ p = sc.part /\ o = sc.out /\ m = sc.remaining /\ k = sc.sent
            /\ buf = Append(p, b)
    BY AppendType DEF ScannerType
  <1>2. PICK n \in Nat : n = Number(buf)  BY NumberType
  <1>3. PICK t1, t2 : t1 = Sets(sc, buf, m, o, k) /\ t2 = Sets(sc, p, m, o, k + n)
    OBVIOUS
  <1>4. PICK y1, y2 : /\ y1 = Sets(g, buf, m, Cat(h, o), r + k)
                      /\ y2 = Sets(g, p, m, Cat(h, o), r + (k + n))
    OBVIOUS
  <1>5. /\ t1 \in ScannerType /\ t1.blocks = <<>> /\ t1.hold = sc.hold
        /\ Ghost(t1, h, r, d) = y1
        /\ t2 \in ScannerType /\ t2.blocks = <<>> /\ t2.hold = sc.hold
        /\ Ghost(t2, h, r, d) = y2
    <2>1. k + n \in Nat  OBVIOUS
    <2>2. Stands(t1, sc, y1, h, r, d) /\ Stands(t2, sc, y2, h, r, d)
      BY <2>1, <1>3, <1>4, GhostSets
    <2> QED  BY <2>2 DEF Stands
  <1>6. [sc EXCEPT !.part = buf] = t1 /\ [sc EXCEPT !.sent = @ + n] = t2
    BY <1>1, <1>3 DEF Sets, ScannerType
  <1>7. /\ g.part = p /\ g.out = Cat(h, o) /\ g.remaining = m /\ g.sent = r + k
    <2>1. /\ g.part = sc.part /\ g.out = Cat(h, sc.out) /\ g.remaining = sc.remaining
          /\ g.sent = r + sc.sent
      BY GhostFields
    <2> QED  BY <2>1, <1>1
  <1>8. g.sent + n = r + (k + n)  BY <1>7
  <1>9. [g EXCEPT !.part = buf] = y1 /\ [g EXCEPT !.sent = @ + n] = y2
    BY <1>4, <1>7, <1>8 DEF Sets, Positions
  <1>10. ReadFlow(sc, b) = IF Len(buf) < FlowLen THEN t1 ELSE GoTo(t2, "header")
    BY <1>1, <1>2, <1>6 DEF ReadFlow
  <1>11. ReadFlow(g, b) = IF Len(buf) < FlowLen THEN y1 ELSE GoTo(y2, "header")
    BY <1>1, <1>2, <1>7, <1>9 DEF ReadFlow
  <1>12. "header" \in States  BY DEF States
  <1>13. /\ Mirrors(GoTo(t2, "header"), sc, GoTo(y2, "header"), h, r, d)
         /\ Mirrors(t1, sc, y1, h, r, d)
    BY <1>5, <1>12, GhostGoTo DEF Mirrors
  <1> QED  BY <1>10, <1>11, <1>13

\* and any byte as long as nothing is pending.
LEMMA GhostByte ==
    ASSUME NEW sc \in ScannerType, sc.blocks = <<>>, NEW b \in Nat,
           sc.state \in {"payload", "sync"} => sc.remaining # 0,
           NEW h \in Bytes, NEW r \in Nat, NEW d \in Seq(Updates),
           NEW g \in Positions, g = Ghost(sc, h, r, d)
    PROVE  Mirrors(ScanByte(sc, b), sc, PassByte(g, b), h, r, d)
  <1>1. PICK p \in Bytes, o \in Bytes, m \in Nat, k \in Nat, po \in Bytes, oo \in Bytes :
            /\ p = sc.part /\ o = sc.out /\ m = sc.remaining /\ k = sc.sent
            /\ po = Append(p, b) /\ oo = Append(o, b)
    BY AppendType DEF ScannerType
  <1>2. /\ g.part = p /\ g.out = Cat(h, o) /\ g.remaining = m /\ g.sent = r + k
        /\ g.state = sc.state
    <2>1. g.part = p /\ g.out = Cat(h, o) /\ g.remaining = m /\ g.sent = r + k
      <3>1. /\ g.part = sc.part /\ g.out = Cat(h, sc.out) /\ g.remaining = sc.remaining
            /\ g.sent = r + sc.sent
        BY GhostFields
      <3> QED  BY <3>1, <1>1
    <2>2. g.state = sc.state  BY GhostFields
    <2> QED  BY <2>1, <2>2
  <1>3. Append(g.out, b) = Cat(h, oo)
    <2>1. Append(h \o o, b) = h \o Append(o, b)  BY CatAppend
    <2> QED  BY <2>1, <1>1, <1>2 DEF Cat
  <1>4. CASE sc.state = "blind"
    <2>1. PICK t, y : t = Sets(sc, p, m, oo, k) /\ y = Sets(g, p, m, Cat(h, oo), r + k)
      OBVIOUS
    <2>2. Mirrors(t, sc, y, h, r, d)
      <3>1. Stands(t, sc, y, h, r, d)  BY <2>1, GhostSets
      <3> QED  BY <3>1 DEF Stands, Mirrors
    <2>3. ScanByte(sc, b) = t
      <3>1. ScanByte(sc, b) = [sc EXCEPT !.out = Append(@, b)]  BY <1>4 DEF ScanByte
      <3> QED  BY <3>1, <2>1, <1>1 DEF Sets, ScannerType
    <2>4. PassByte(g, b) = y
      <3>1. PassByte(g, b) = [g EXCEPT !.out = Append(@, b)]  BY <1>2, <1>4 DEF PassByte
      <3> QED  BY <3>1, <2>1, <1>2, <1>3 DEF Sets, Positions
    <2> QED  BY <2>2, <2>3, <2>4
  <1>5. CASE sc.state = "preface"
    <2>1. ScanByte(sc, b) = MatchPreface(sc, b)  BY <1>5 DEF ScanByte
    <2>2. PassByte(g, b) = MatchPreface(g, b)  BY <1>2, <1>5 DEF PassByte
    <2> QED  BY <2>1, <2>2, GhostMatch
  <1>6. CASE sc.state = "header"
    <2>1. ScanByte(sc, b) = ReadHeader(sc, b)  BY <1>6 DEF ScanByte
    <2>2. PassByte(g, b) = ReadHeader(g, b)  BY <1>2, <1>6 DEF PassByte
    <2> QED  BY <2>1, <2>2, GhostHeader
  <1>7. CASE sc.state = "flow"
    <2>1. ScanByte(sc, b) = ReadFlow(sc, b)  BY <1>7 DEF ScanByte
    <2>2. PassByte(g, b) = ReadFlow(g, b)  BY <1>2, <1>7 DEF PassByte
    <2> QED  BY <2>1, <2>2, GhostFlow
  <1>8. CASE sc.state = "payload"
    <2>1. PICK n \in Nat : n = m - 1
      <3>1. m # 0  BY <1>1, <1>8
      <3> QED  BY <3>1
    <2>2. PICK t, y : t = Sets(sc, p, n, oo, k) /\ y = Sets(g, p, n, Cat(h, oo), r + k)
      OBVIOUS
    <2>3. t \in ScannerType /\ t.blocks = <<>> /\ t.hold = sc.hold /\ Ghost(t, h, r, d) = y
      <3>1. Stands(t, sc, y, h, r, d)  BY <2>2, GhostSets
      <3> QED  BY <3>1 DEF Stands
    <2>4. ScanByte(sc, b) = Settle(t)
      <3>1. ScanByte(sc, b) = Settle([sc EXCEPT !.remaining = @ - 1, !.out = Append(@, b)])
        BY <1>8 DEF ScanByte
      <3>2. [sc EXCEPT !.remaining = @ - 1, !.out = Append(@, b)] = t
        BY <2>1, <2>2, <1>1 DEF Sets, ScannerType
      <3> QED  BY <3>1, <3>2
    <2>5. PassByte(g, b) = Pass(y)
      <3>1. PassByte(g, b) = Pass([g EXCEPT !.remaining = @ - 1, !.out = Append(@, b)])
        BY <1>2, <1>8 DEF PassByte
      <3>2. [g EXCEPT !.remaining = @ - 1, !.out = Append(@, b)] = y
        BY <2>1, <2>2, <1>2, <1>3 DEF Sets, Positions
      <3> QED  BY <3>1, <3>2
    <2>6. Mirrors(Settle(t), sc, Pass(y), h, r, d)  BY <2>3, GhostSettle DEF Mirrors
    <2> QED  BY <2>4, <2>5, <2>6
  <1>9. CASE sc.state = "sync"
    <2>1. PICK n \in Nat : n = m - 1
      <3>1. m # 0  BY <1>1, <1>9
      <3> QED  BY <3>1
    <2>2. PICK t, y : t = Sets(sc, po, n, o, k) /\ y = Sets(g, po, n, Cat(h, o), r + k)
      OBVIOUS
    <2>3. t \in ScannerType /\ t.blocks = <<>> /\ t.hold = sc.hold /\ Ghost(t, h, r, d) = y
      <3>1. Stands(t, sc, y, h, r, d)  BY <2>2, GhostSets
      <3> QED  BY <3>1 DEF Stands
    <2>4. ScanByte(sc, b) = Settle(t)
      <3>1. ScanByte(sc, b) = Settle([sc EXCEPT !.remaining = @ - 1, !.part = Append(@, b)])
        BY <1>9 DEF ScanByte
      <3>2. [sc EXCEPT !.remaining = @ - 1, !.part = Append(@, b)] = t
        BY <2>1, <2>2, <1>1 DEF Sets, ScannerType
      <3> QED  BY <3>1, <3>2
    <2>5. PassByte(g, b) = Pass(y)
      <3>1. PassByte(g, b) = Pass([g EXCEPT !.remaining = @ - 1, !.part = Append(@, b)])
        BY <1>2, <1>9 DEF PassByte
      <3>2. [g EXCEPT !.remaining = @ - 1, !.part = Append(@, b)] = y
        BY <2>1, <2>2, <1>1, <1>2 DEF Sets, Positions
      <3> QED  BY <3>1, <3>2
    <2>6. Mirrors(Settle(t), sc, Pass(y), h, r, d)  BY <2>3, GhostSettle DEF Mirrors
    <2> QED  BY <2>4, <2>5, <2>6
  <1> QED  BY <1>4, <1>5, <1>6, <1>7, <1>8, <1>9 DEF ScannerType, States

\* A byte that is held changes nothing but what is held.
LEMMA HoldByte ==
    ASSUME NEW sc \in ScannerType, Len(sc.blocks) <= 1, NEW b \in Nat,
           NEW h \in Bytes, NEW r \in Nat, NEW d \in Seq(Updates)
    PROVE  LET t == [sc EXCEPT !.hold = Append(@, b)] IN
           /\ t \in ScannerType /\ t.state = sc.state /\ t.blocks = sc.blocks
           /\ Held(t, h, r, d) = Step(Held(sc, h, r, d), b)
  <1>1. PICK q \in Bytes : q = sc.hold  BY DEF ScannerType
  <1>2. PICK a \in Bytes : a = Append(q, b)  BY AppendType
  <1>3. PICK t : t = [sc EXCEPT !.hold = a]  OBVIOUS
  <1>4. /\ t \in ScannerType /\ t.state = sc.state /\ t.blocks = sc.blocks /\ t.hold = a
        /\ t.part = sc.part /\ t.remaining = sc.remaining /\ t.out = sc.out
        /\ t.sent = sc.sent
    BY <1>3 DEF ScannerType
  <1>5. PICK g \in Positions : g = Ghost(sc, h, r, d)  BY GhostType
  <1>6. Ghost(t, h, r, d) = g  BY <1>4, <1>5 DEF Ghost, Pending
  <1>7. Held(t, h, r, d) = Fold(Reading, g, Append(q, b))  BY <1>2, <1>4, <1>6 DEF Held
  <1>8. Held(sc, h, r, d) = Fold(Reading, g, q)  BY <1>1, <1>5 DEF Held
  <1>9. q \in Seq(Nat)  BY DEF Bytes
  <1>10. Fold(Reading, g, Append(q, b)) = Reading[Fold(Reading, g, q)][b]
    BY <1>9, ReadingType, FoldAppend
  <1>11. Fold(Reading, g, q) \in Positions  BY <1>9, ReadingType, FoldType
  <1> QED  BY <1>1, <1>2, <1>3, <1>4, <1>7, <1>8, <1>10, <1>11, ReadingStep

\* Behind the bytes that are held the scanner is a position, too.
LEMMA HeldType ==
    ASSUME NEW sc \in ScannerType, Len(sc.blocks) <= 1,
           NEW h \in Bytes, NEW r \in Nat, NEW d \in Seq(Updates)
    PROVE  /\ Held(sc, h, r, d) \in Positions
           /\ sc.hold = <<>> => Held(sc, h, r, d) = Ghost(sc, h, r, d)
  <1>1. sc.hold \in Seq(Nat)  BY DEF ScannerType, Bytes
  <1>2. PICK g \in Positions : g = Ghost(sc, h, r, d)  BY GhostType
  <1>3. Fold(Reading, g, sc.hold) \in Positions  BY <1>1, ReadingType, FoldType
  <1>4. Fold(Reading, g, <<>>) = g  BY ReadingType, FoldEmpty
  <1> QED  BY <1>2, <1>3, <1>4 DEF Held

\* One update at most is pending.
LEMMA FitsOne ==
    ASSUME NEW sc, Fits(sc)
    PROVE  sc \in ScannerType /\ Len(sc.blocks) <= 1
  <1>1. Len(sc.blocks) <= 1
    <2>1. CASE sc.blocks = <<>>
      <3>1. Len(sc.blocks) = 0  BY <2>1, EmptySeq
      <3> QED  BY <3>1
    <2>2. CASE sc.blocks # <<>>
      <3>1. Len(sc.blocks) = 1  BY <2>2 DEF Fits
      <3> QED  BY <3>1
    <2> QED  BY <2>1, <2>2
  <1> QED  BY <1>1 DEF Fits

\* Feeding the scanner a byte is reading it.
LEMMA FeedHeld ==
    ASSUME NEW sc, Fits(sc), NEW b \in Nat,
           NEW h \in Bytes, NEW r \in Nat, NEW d \in Seq(Updates)
    PROVE  Fits(Feed(sc, b)) /\ Held(Feed(sc, b), h, r, d) = Step(Held(sc, h, r, d), b)
  <1>1. sc \in ScannerType /\ Len(sc.blocks) <= 1  BY FitsOne
  <1>2. CASE sc.blocks # <<>>
    <2>1. Len(sc.blocks) = 1 /\ sc.state = "header"  BY <1>2 DEF Fits
    <2>2. Settle(sc) = sc  BY <2>1 DEF Settle
    <2>3. PICK t : t = [sc EXCEPT !.hold = Append(@, b)]  OBVIOUS
    <2>4. Feed(sc, b) = t  BY <2>2, <2>3, <1>2 DEF Feed
    <2>5. /\ t \in ScannerType /\ t.state = sc.state /\ t.blocks = sc.blocks
          /\ Held(t, h, r, d) = Step(Held(sc, h, r, d), b)
      BY <2>3, <1>1, HoldByte
    <2>6. Fits(t)  BY <2>1, <2>5, <1>2 DEF Fits
    <2> QED  BY <2>4, <2>5, <2>6
  <1>3. CASE sc.blocks = <<>>
    <2>1. sc.hold = <<>>  BY <1>3 DEF Fits
    <2>2. PICK g \in Positions : g = Ghost(sc, h, r, d) /\ Held(sc, h, r, d) = g
      BY <2>1, <1>1, GhostType, HeldType
    <2>3. PICK a : a = Settle(sc)  OBVIOUS
    <2>4. /\ a \in ScannerType /\ a.hold = <<>>
          /\ a.blocks # <<>> => Len(a.blocks) = 1 /\ a.state = "header"
          /\ a.state \in {"payload", "sync"} => a.remaining # 0
          /\ Ghost(a, h, r, d) = Pass(g)
      BY <2>1, <2>2, <2>3, <1>1, <1>3, GhostSettle
    <2>5. PICK y \in Positions : y = Pass(g) /\ Step(y, b) = Step(g, b) /\ Pass(y) = y
      BY PassType, PassTwice
    <2>6. CASE a.blocks # <<>>
      <3>1. Len(a.blocks) <= 1
        <4>1. Len(a.blocks) = 1  BY <2>4, <2>6
        <4> QED  BY <4>1
      <3>2. PICK t : t = [a EXCEPT !.hold = Append(@, b)]  OBVIOUS
      <3>3. Feed(sc, b) = t  BY <3>2, <2>3, <2>6 DEF Feed
      <3>4. /\ t \in ScannerType /\ t.state = a.state /\ t.blocks = a.blocks
            /\ Held(t, h, r, d) = Step(Held(a, h, r, d), b)
        BY <3>1, <3>2, <2>4, HoldByte
      <3>5. Held(a, h, r, d) = y  BY <3>1, <2>4, <2>5, HeldType
      <3>6. Fits(t)  BY <3>4, <2>4, <2>6 DEF Fits
      <3> QED  BY <3>3, <3>4, <3>5, <3>6, <2>2, <2>5
    <2>7. CASE a.blocks = <<>>
      <3>1. PICK t : t = ScanByte(a, b)  OBVIOUS
      <3>2. Feed(sc, b) = t  BY <3>1, <2>3, <2>7 DEF Feed
      <3>3. Mirrors(t, a, PassByte(y, b), h, r, d)
        BY <3>1, <2>4, <2>5, <2>7, GhostByte
      <3>4. /\ t \in ScannerType /\ t.hold = <<>>
            /\ t.blocks # <<>> => Len(t.blocks) = 1 /\ t.state = "header"
            /\ Ghost(t, h, r, d) = PassByte(y, b)
        BY <3>3, <2>4 DEF Mirrors
      <3>5. Fits(t)  BY <3>4 DEF Fits
      <3>6. Held(t, h, r, d) = PassByte(y, b)  BY <3>4, <3>5, FitsOne, HeldType
      <3>7. PassByte(y, b) = Step(g, b)  BY <2>5 DEF Step
      <3> QED  BY <3>2, <3>5, <3>6, <3>7, <2>2
    <2> QED  BY <2>6, <2>7
  <1> QED  BY <1>2, <1>3

Fitting == {sc \in ScannerType : Fits(sc)}

Feeding == [S \in SUBSET Fitting |-> [b \in Nat |-> {Feed(sc, b) : sc \in S}]]

\* Folding_proofs applies to the scanner.
LEMMA FeedingType == Reader(Feeding, SUBSET Fitting, Nat)
  <1>1. ASSUME NEW S \in SUBSET Fitting, NEW b \in Nat
        PROVE  {Feed(sc, b) : sc \in S} \in SUBSET Fitting
    <2>1. ASSUME NEW sc \in S  PROVE Feed(sc, b) \in Fitting
      <3>1. Fits(sc)  BY DEF Fitting
      <3>2. <<>> \in Bytes /\ 0 \in Nat /\ <<>> \in Seq(Updates)  BY DEF Bytes
      <3>3. Fits(Feed(sc, b))  BY <3>1, <3>2, FeedHeld
      <3> QED  BY <3>3 DEF Fits, Fitting
    <2> QED  BY <2>1
  <1> QED  BY <1>1 DEF Reader, Feeding

\* Scan, a recursive function, is a fold.
LEMMA ScanIs ==
    ASSUME NEW sc, Fits(sc), sc.blocks = <<>>, NEW q \in Bytes
    PROVE  Scan(sc, q) = Fold(Feeding, {sc}, q)
  <1>1. q \in Seq(Nat) /\ Len(q) \in Nat  BY DEF Bytes
  <1>2. PICK c \in SUBSET Fitting : c = {sc}  BY DEF Fits, Fitting
  <1>3. PICK t \in [0 .. Len(q) -> SUBSET Fitting] : Trace(Feeding, c, q, t)
    BY <1>1, FeedingType, TraceExists
  <1> DEFINE Feeds(i) == t[i] = {Feed(s, q[i]) : s \in t[i - 1]}
             Is(f) == f = [i \in 0 .. Len(q) |->
                              IF i = 0 THEN {sc} ELSE {Feed(s, q[i]) : s \in f[i - 1]}]
  <1>4. ASSUME NEW i \in 1 .. Len(q)  PROVE Feeds(i)
    <2>1. t[i] = Feeding[t[i - 1]][q[i]]  BY <1>3 DEF Trace
    <2>2. t[i - 1] \in SUBSET Fitting /\ q[i] \in Nat
      <3>1. i - 1 \in 0 .. Len(q)  BY <1>1
      <3> QED  BY <3>1, <1>1, <1>3
    <2> QED  BY <2>1, <2>2 DEF Feeding
  <1>5. Is(t)
    <2>1. t[0] = {sc}  BY <1>2, <1>3 DEF Trace
    <2>2. ASSUME NEW i \in 0 .. Len(q)
          PROVE  t[i] = IF i = 0 THEN {sc} ELSE {Feed(s, q[i]) : s \in t[i - 1]}
      <3>1. i = 0 \/ i \in 1 .. Len(q)  BY <1>1
      <3> QED  BY <3>1, <2>1, <1>4
    <2> QED  BY <1>3, <2>2
  <1> DEFINE u == CHOOSE f : Is(f)
  <1>6. Is(u)  BY <1>5
  <1>7. Scan(sc, q) = u[Len(q)]  BY DEF Scan
  <1> HIDE DEF u
  <1>8. /\ u[0] = {sc}
        /\ \A i \in 1 .. Len(q) : u[i] = {Feed(s, q[i]) : s \in u[i - 1]}
    <2>1. 0 \in 0 .. Len(q)  BY <1>1
    <2>2. u[0] = {sc}  BY <1>6, <2>1
    <2>3. ASSUME NEW i \in 1 .. Len(q)
          PROVE  u[i] = {Feed(s, q[i]) : s \in u[i - 1]}
      <3>1. i \in 0 .. Len(q) /\ i # 0  BY <1>1
      <3> QED  BY <1>6, <3>1
    <2> QED  BY <2>2, <2>3
  <1>9. t[Len(q)] = u[Len(q)]
    <2>1. \A i \in 1 .. Len(q) : t[i - 1] = u[i - 1] => t[i] = u[i]
      <3>1. ASSUME NEW i \in 1 .. Len(q), t[i - 1] = u[i - 1]  PROVE t[i] = u[i]
        <4>1. t[i] = {Feed(s, q[i]) : s \in t[i - 1]}  BY <1>4
        <4> QED  BY <4>1, <3>1, <1>8
      <3> QED  BY <3>1
    <2>2. t[0] = u[0]  BY <1>2, <1>3, <1>8 DEF Trace
    <2>3. PICK n \in Nat : n = Len(q)  BY <1>1
    <2>4. t[n] = u[n]
      <3> HIDE DEF Is
      <3> QED  BY <2>1, <2>2, <2>3, Agree
    <2> QED  BY <2>3, <2>4
  <1>10. Fold(Feeding, c, q) = t[Len(q)]  BY <1>1, <1>3, FoldIs
  <1> QED  BY <1>2, <1>7, <1>9, <1>10

\* A byte more is fed to every state there may be.
LEMMA FeedingAppend ==
    ASSUME NEW c \in SUBSET Fitting, NEW p \in Seq(Nat), NEW b \in Nat
    PROVE  Fold(Feeding, c, Append(p, b)) = Feeding[Fold(Feeding, c, p)][b]
  <1>1. PICK V : V = SUBSET Fitting  OBVIOUS
  <1>2. c \in V /\ Reader(Feeding, V, Nat)  BY <1>1, FeedingType
  <1>3. \A W : c \in W /\ Reader(Feeding, W, Nat) =>
            Fold(Feeding, c, Append(p, b)) = Feeding[Fold(Feeding, c, p)][b]
    BY FoldAppend
  <1> QED  BY <1>2, <1>3

\* So is scanning a chunk.
LEMMA ScanHeld ==
    ASSUME NEW sc, Fits(sc), sc.blocks = <<>>, NEW q \in Bytes,
           NEW h \in Bytes, NEW r \in Nat, NEW d \in Seq(Updates), NEW t \in Scan(sc, q)
    PROVE  Fits(t) /\ Held(t, h, r, d) = Fold(Reading, Held(sc, h, r, d), q)
  <1>1. PICK c \in SUBSET Fitting : c = {sc}  BY DEF Fits, Fitting
  <1>2. PICK g \in Positions : g = Held(sc, h, r, d)  BY FitsOne, HeldType
  <1> DEFINE Reads(s, p) == Fits(s) /\ Held(s, h, r, d) = Fold(Reading, g, p)
             S == {p \in Seq(Nat) : \A s \in Fold(Feeding, c, p) : Reads(s, p)}
  <1>3. <<>> \in S
    <2>1. Fold(Feeding, c, <<>>) = {sc}  BY <1>1, FeedingType, FoldEmpty
    <2>2. Fold(Reading, g, <<>>) = g  BY ReadingType, FoldEmpty
    <2>3. <<>> \in Seq(Nat)  OBVIOUS
    <2> QED  BY <2>1, <2>2, <2>3, <1>2
  <1>4. ASSUME NEW p \in Seq(Nat), NEW b \in Nat, p \in S  PROVE Append(p, b) \in S
    <2>1. PICK F \in SUBSET Fitting : F = Fold(Feeding, c, p)  BY FeedingType, FoldType
    <2>2. Fold(Feeding, c, Append(p, b)) = {Feed(s, b) : s \in F}
      <3>1. Fold(Feeding, c, Append(p, b)) = Feeding[Fold(Feeding, c, p)][b]
        BY FeedingAppend
      <3> QED  BY <3>1, <2>1 DEF Feeding
    <2>3. Fold(Reading, g, Append(p, b)) = Step(Fold(Reading, g, p), b)
      <3>1. Fold(Reading, g, Append(p, b)) = Reading[Fold(Reading, g, p)][b]
        BY ReadingType, FoldAppend
      <3>2. Fold(Reading, g, p) \in Positions  BY ReadingType, FoldType
      <3> QED  BY <3>1, <3>2, ReadingStep
    <2>4. ASSUME NEW s \in F  PROVE Reads(Feed(s, b), Append(p, b))
      <3>1. Fits(s) /\ Held(s, h, r, d) = Fold(Reading, g, p)  BY <2>1, <1>4
      <3>2. Fits(Feed(s, b)) /\ Held(Feed(s, b), h, r, d) = Step(Held(s, h, r, d), b)
        BY <3>1, FeedHeld
      <3> QED  BY <3>1, <3>2, <2>3
    <2>5. Append(p, b) \in Seq(Nat)  OBVIOUS
    <2> HIDE DEF Reads
    <2> QED  BY <2>2, <2>4, <2>5
  <1> HIDE DEF S
  <1>5. q \in S  BY <1>3, <1>4, SeqInd DEF Bytes
  <1>6. t \in Fold(Feeding, c, q)  BY <1>1, ScanIs
  <1> QED  BY <1>2, <1>5, <1>6 DEF S

-----------------------------------------------------------------------------
(* What was read stays, and updates have their place behind it *)

\* The updates v are the updates u and others, behind n bytes and k reported ones.
Later(u, v, n, k) ==
    /\ Len(u) <= Len(v)
    /\ \A i \in 1 .. Len(u) : v[i] = u[i]
    /\ \A i \in Len(u) + 1 .. Len(v) : v[i].at >= n /\ v[i].sent >= k

Further(x, y) ==
    /\ x \in Positions /\ y \in Positions
    /\ \E o \in Bytes : y.out = Cat(x.out, o)
    /\ y.sent >= x.sent
    /\ Later(x.ups, y.ups, Len(x.out), x.sent)

\* Updates that are behind those behind others are behind these.
LEMMA LaterTwice ==
    ASSUME NEW u \in Seq(Updates), NEW v \in Seq(Updates), NEW w \in Seq(Updates),
           NEW n \in Nat, NEW k \in Nat, NEW m \in Nat, NEW l \in Nat, n <= m, k <= l,
           Later(u, v, n, k), Later(v, w, m, l)
    PROVE  Later(u, w, n, k)
  <1>1. PICK lu \in Nat, lv \in Nat, lw \in Nat : lu = Len(u) /\ lv = Len(v) /\ lw = Len(w)
    OBVIOUS
  <1>2. /\ lu <= lv /\ lv <= lw
        /\ \A i \in 1 .. lu : v[i] = u[i]
        /\ \A i \in lu + 1 .. lv : v[i].at >= n /\ v[i].sent >= k
        /\ \A i \in 1 .. lv : w[i] = v[i]
        /\ \A i \in lv + 1 .. lw : w[i].at >= m /\ w[i].sent >= l
    BY <1>1 DEF Later
  <1>3. ASSUME NEW i \in 1 .. lu  PROVE w[i] = u[i]
    <2>1. i \in 1 .. lv  BY <1>2
    <2> QED  BY <2>1, <1>2
  <1>4. ASSUME NEW i \in lu + 1 .. lw  PROVE w[i].at >= n /\ w[i].sent >= k
    <2>1. CASE i <= lv
      <3>1. i \in 1 .. lv /\ i \in lu + 1 .. lv  BY <2>1
      <3> QED  BY <3>1, <1>2
    <2>2. CASE ~(i <= lv)
      <3>1. i \in lv + 1 .. lw /\ i \in 1 .. lw  BY <2>2, <1>2
      <3>2. w[i] \in Updates  BY <3>1, <1>1
      <3>3. PICK a \in Nat, s \in Nat : a = w[i].at /\ s = w[i].sent
        BY <3>2 DEF Updates
      <3>4. a >= m /\ s >= l  BY <3>1, <3>3, <1>2
      <3>5. a >= n /\ s >= k  BY <3>4
      <3> QED  BY <3>3, <3>5
    <2> QED  BY <2>1, <2>2
  <1>5. lu <= lw  BY <1>2
  <1> QED  BY <1>1, <1>3, <1>4, <1>5 DEF Later

\* The reader gets further and further.
LEMMA FurtherTwice ==
    ASSUME NEW x, NEW y, NEW z, Further(x, y), Further(y, z)
    PROVE  Further(x, z)
  <1>1. x \in Positions /\ y \in Positions /\ z \in Positions  BY DEF Further
  <1>2. PICK a \in Bytes, o \in Bytes, p \in Bytes :
            a = x.out /\ y.out = Cat(a, o) /\ z.out = Cat(y.out, p)
    <2>1. x.out \in Bytes  BY <1>1 DEF Positions
    <2> QED  BY <2>1 DEF Further
  <1>3. PICK q \in Bytes : q = Cat(o, p)  BY CatBytes DEF Cat
  <1>4. z.out = Cat(x.out, q)
    <2>1. Cat(Cat(a, o), p) = Cat(a, Cat(o, p))  BY CatAssoc DEF Bytes
    <2> QED  BY <2>1, <1>2, <1>3
  <1>5. PICK n \in Nat, m \in Nat : n = Len(x.out) /\ m = Len(y.out) /\ n <= m
    <2>1. Len(Cat(a, o)) = Len(a) + Len(o) /\ Len(a) \in Nat /\ Len(o) \in Nat
      BY CatBytes DEF Cat
    <2>2. Len(a) + Len(o) \in Nat /\ Len(a) <= Len(a) + Len(o)  BY <2>1
    <2> QED  BY <2>1, <2>2, <1>2
  <1>6. PICK k \in Nat, l \in Nat, j \in Nat : k = x.sent /\ l = y.sent /\ j = z.sent
    BY <1>1 DEF Positions
  <1>7. k <= l /\ l <= j  BY <1>6 DEF Further
  <1>8. PICK u \in Seq(Updates), v \in Seq(Updates), w \in Seq(Updates) :
            u = x.ups /\ v = y.ups /\ w = z.ups
    BY <1>1 DEF Positions
  <1>9. Later(u, v, n, k) /\ Later(v, w, m, l)  BY <1>5, <1>6, <1>8 DEF Further
  <1>10. Later(u, w, n, k)  BY <1>5, <1>7, <1>9, LaterTwice
  <1>11. j >= k  BY <1>7
  <1> QED  BY <1>1, <1>3, <1>4, <1>5, <1>6, <1>8, <1>10, <1>11 DEF Further

\* It is further with more bytes and reports and no update,
LEMMA FurtherNow ==
    ASSUME NEW x \in Positions, NEW y \in Positions, NEW o \in Bytes,
           y.out = Cat(x.out, o), y.sent >= x.sent, y.ups = x.ups
    PROVE  Further(x, y)
  <1>1. PICK u \in Seq(Updates) : u = x.ups  BY DEF Positions
  <1>2. PICK n \in Nat : n = Len(u)  BY <1>1
  <1>3. \A i \in n + 1 .. n : FALSE  BY <1>2
  <1>4. Later(u, u, Len(x.out), x.sent)  BY <1>2, <1>3 DEF Later
  <1> QED  BY <1>1, <1>4 DEF Further

\* or with nothing at all,
LEMMA FurtherSame ==
    ASSUME NEW x \in Positions, NEW y \in Positions, y.out = x.out, y.sent = x.sent,
           y.ups = x.ups
    PROVE  Further(x, y)
  <1>1. <<>> \in Bytes /\ x.out \in Bytes /\ x.sent \in Nat  BY DEF Bytes, Positions
  <1>2. x.out = Cat(x.out, <<>>)  BY <1>1, CatBytes DEF Cat
  <1>3. y.sent >= x.sent  BY <1>1
  <1>4. PICK o \in Bytes : o = <<>>  BY <1>1
  <1> QED  BY <1>2, <1>3, <1>4, FurtherNow

\* when it settles what is over,
LEMMA FurtherPass ==
    ASSUME NEW x \in Positions
    PROVE  Further(x, Pass(x))
  <1>1. PICK y \in Positions : y = Pass(x)  BY PassType
  <1>2. CASE x.state = "payload" /\ x.remaining = 0
    <2>1. y = GoTo(x, "header")  BY <1>1, <1>2 DEF Pass
    <2>2. y.out = x.out /\ y.sent = x.sent /\ y.ups = x.ups
      BY <2>1, GoToFields DEF States
    <2> QED  BY <2>2, <1>1, FurtherSame
  <1>3. CASE x.state = "sync" /\ x.remaining = 0
    <2>1. y = Deliver(x)  BY <1>1, <1>3 DEF Pass
    <2>2. PICK d \in Seq(Updates), n \in Nat, k \in Nat :
              d = x.ups /\ n = Len(x.out) /\ k = x.sent
      <3>1. x.out \in Bytes /\ x.ups \in Seq(Updates) /\ x.sent \in Nat  BY DEF Positions
      <3> QED  BY <3>1, CatBytes
    <2>3. PICK u \in Updates : y.ups = Append(d, u) /\ u.at = n /\ u.sent = k
      <3>1. PICK v : v = [at |-> Len(x.out), block |-> x.part, sent |-> x.sent]  OBVIOUS
      <3>2. v \in Updates /\ y.ups = Append(d, v)  BY <3>1, <2>1, <2>2, DeliverFields
      <3>3. v.at = n /\ v.sent = k  BY <3>1, <2>2
      <3> QED  BY <3>2, <3>3
    <2>4. PICK l \in Nat : l = Len(d)  BY <2>2
    <2>5. /\ Len(Append(d, u)) = l + 1 /\ Append(d, u)[l + 1] = u
          /\ \A i \in 1 .. l : Append(d, u)[i] = d[i]
      BY <2>4, AppendProperties
    <2>6. PICK a : a = Append(d, u)  OBVIOUS
    <2>7. Later(d, a, n, k)
      <3>1. \A i \in l + 1 .. l + 1 : i = l + 1  OBVIOUS
      <3>2. n >= n /\ k >= k  OBVIOUS
      <3>3. \A i \in l + 1 .. l + 1 : a[i].at >= n /\ a[i].sent >= k
        BY <3>1, <3>2, <2>3, <2>5, <2>6
      <3>4. l <= l + 1  OBVIOUS
      <3> QED  BY <3>3, <3>4, <2>4, <2>5, <2>6 DEF Later
    <2>8. y.out = x.out /\ y.sent = x.sent  BY <2>1, DeliverFields
    <2>10. \E o \in Bytes : y.out = Cat(x.out, o)
      <3>1. <<>> \in Bytes /\ x.out \in Bytes  BY DEF Bytes, Positions
      <3>2. x.out = Cat(x.out, <<>>)  BY <3>1, CatBytes DEF Cat
      <3> QED  BY <3>1, <3>2, <2>8
    <2>11. y.sent >= x.sent  BY <2>2, <2>8
    <2> QED  BY <1>1, <2>2, <2>3, <2>6, <2>7, <2>10, <2>11 DEF Further
  <1>4. CASE ~(x.state \in {"payload", "sync"} /\ x.remaining = 0)
    <2>1. y = x  BY <1>1, <1>4 DEF Pass
    <2> QED  BY <2>1, <1>1, FurtherSame
  <1> QED  BY <1>2, <1>3, <1>4

\* when its fields are set to more,
LEMMA FurtherSets ==
    ASSUME NEW x \in Positions, NEW p \in Bytes, NEW m \in Nat, NEW q \in Bytes, NEW n \in Nat
    PROVE  LET y == Sets(x, p, m, Cat(x.out, q), x.sent + n) IN
           y \in Positions /\ Further(x, y)
  <1>1. PICK y : y = Sets(x, p, m, Cat(x.out, q), x.sent + n)  OBVIOUS
  <1>2. PICK o \in Bytes, k \in Nat : o = x.out /\ k = x.sent  BY DEF Positions
  <1>3. Cat(o, q) \in Bytes /\ k + n \in Nat /\ k + n >= k  BY CatBytes DEF Cat
  <1>4. y \in Positions /\ y.out = Cat(x.out, q) /\ y.sent = k + n /\ y.ups = x.ups
    BY <1>1, <1>2, <1>3 DEF Sets, Positions
  <1>5. y.sent >= x.sent  BY <1>2, <1>3, <1>4
  <1> QED  BY <1>1, <1>4, <1>5, FurtherNow

\* and in another state.
LEMMA FurtherGoTo ==
    ASSUME NEW x, NEW y, Further(x, y), NEW st \in States
    PROVE  Further(x, GoTo(y, st))
  <1>1. y \in Positions  BY DEF Further
  <1>2. Further(y, GoTo(y, st))  BY <1>1, GoToFields, FurtherSame
  <1> QED  BY <1>2, FurtherTwice

\* Reading goes further, and never back to the preface.
Onward(x, y) == Further(x, y) /\ (x.state # "preface" => y.state # "preface")

\* So it does without seeing the preface again,
LEMMA OnwardTwice ==
    ASSUME NEW x, NEW y, NEW z, Onward(x, y), Onward(y, z)
    PROVE  Onward(x, z)
  BY FurtherTwice DEF Onward

\* in another state,
LEMMA OnwardGoTo ==
    ASSUME NEW x, NEW y, Further(x, y), NEW st \in States, st # "preface"
    PROVE  Onward(x, GoTo(y, st))
  <1>1. Further(x, GoTo(y, st))  BY FurtherGoTo
  <1>2. GoTo(y, st).state = st  BY GoToFields DEF Further
  <1> QED  BY <1>1, <1>2 DEF Onward

\* with its fields set to more,
LEMMA OnwardSets ==
    ASSUME NEW x \in Positions, NEW p \in Bytes, NEW m \in Nat, NEW q \in Bytes, NEW n \in Nat
    PROVE  Onward(x, Sets(x, p, m, Cat(x.out, q), x.sent + n))
  <1>1. Further(x, Sets(x, p, m, Cat(x.out, q), x.sent + n))  BY FurtherSets
  <1>2. Sets(x, p, m, Cat(x.out, q), x.sent + n).state = x.state  BY DEF Sets, Positions
  <1> QED  BY <1>1, <1>2 DEF Onward

\* when it settles what is over,
LEMMA OnwardPass ==
    ASSUME NEW x \in Positions
    PROVE  Onward(x, Pass(x))
  <1>1. Further(x, Pass(x))  BY FurtherPass
  <1>2. GoTo(x, "header").state = "header" /\ Deliver(x).state = "header"
    BY GoToFields, DeliverFields DEF States
  <1>3. Pass(x).state = "header" \/ Pass(x) = x  BY <1>2 DEF Pass
  <1> QED  BY <1>1, <1>3 DEF Onward

\* Nothing, and one byte, behind what was given out.
LEMMA OutTails ==
    ASSUME NEW x \in Positions, NEW b \in Nat
    PROVE  \E z, one \in Bytes :
              /\ z = <<>> /\ one = <<b>> /\ x.out = Cat(x.out, z)
              /\ Append(x.out, b) = Cat(x.out, one)
  <1>1. PICK o \in Bytes : o = x.out  BY DEF Positions
  <1>2. <<>> \in Bytes /\ <<b>> \in Bytes  BY DEF Bytes
  <1>3. o \o <<>> = o /\ Append(o, b) = o \o <<b>>
    BY <1>1, ConcatEmptySeq, AppendIsConcat DEF Bytes
  <1> QED  BY <1>1, <1>2, <1>3 DEF Cat

\* with a byte,
LEMMA OnwardByte ==
    ASSUME NEW x \in Positions, NEW b \in Nat,
           x.state \in {"payload", "sync"} => x.remaining # 0
    PROVE  Onward(x, PassByte(x, b))
  <1>1. PICK p \in Bytes, m \in Nat, k \in Nat, pb \in Bytes :
            /\ p = x.part /\ m = x.remaining /\ k = x.sent /\ pb = Append(p, b)
    BY AppendType DEF Positions
  <1>2. PICK z \in Bytes, one \in Bytes :
            x.out = Cat(x.out, z) /\ Append(x.out, b) = Cat(x.out, one)
    BY OutTails
  <1>3. k + 0 = k /\ 0 \in Nat  OBVIOUS
  <1>4. CASE x.state = "blind"
    <2>1. PassByte(x, b) = [x EXCEPT !.out = Append(@, b)]  BY <1>4 DEF PassByte
    <2>2. PassByte(x, b) = Sets(x, p, m, Cat(x.out, one), x.sent + 0)
      BY <2>1, <1>1, <1>2, <1>3 DEF Sets, Positions
    <2> QED  BY <2>2, <1>3, OnwardSets
  <1>5. CASE x.state = "preface"
    <2>1. PICK t : t = Sets(x, pb, m, Cat(x.out, one), x.sent + 0)  OBVIOUS
    <2>2. [x EXCEPT !.part = Append(x.part, b), !.out = Append(@, b)] = t
      BY <2>1, <1>1, <1>2, <1>3 DEF Sets, Positions
    <2>3. Onward(x, t)  BY <2>1, <1>3, OnwardSets
    <2>4. PassByte(x, b) = MatchPreface(x, b)  BY <1>5 DEF PassByte
    <2>5. MatchPreface(x, b) \in {GoTo(t, "blind"), GoTo(t, "header"), t}
      BY <2>2 DEF MatchPreface
    <2>6. Onward(x, GoTo(t, "blind")) /\ Onward(x, GoTo(t, "header"))
      BY <2>3, OnwardGoTo DEF Onward, States
    <2> QED  BY <2>3, <2>4, <2>5, <2>6
  <1>6. CASE x.state = "header"
    <2>1. PICK len \in Nat : len = Number(Front(pb))
      <3>1. pb # <<>>
        <4>1. p \in Seq(Nat)  BY DEF Bytes
        <4>2. Append(p, b) # <<>>  BY <4>1, AppendProperties
        <4> QED  BY <4>2, <1>1
      <3>2. Front(pb) \in Bytes  BY <3>1, FrontType
      <3> QED  BY <3>2, NumberType
    <2>2. PICK t1, t2, t3, t4 :
              /\ t1 = Sets(x, pb, m, Cat(x.out, z), x.sent + 0)
              /\ t2 = Sets(x, p, len, Cat(x.out, z), x.sent + 0)
              /\ t3 = Sets(x, p, len, Cat(x.out, pb), x.sent + 0)
              /\ t4 = Sets(x, p, m, Cat(x.out, z), x.sent + 0)
      OBVIOUS
    <2>3. /\ [x EXCEPT !.part = pb] = t1 /\ [x EXCEPT !.remaining = len] = t2
          /\ [x EXCEPT !.remaining = len, !.out = @ \o pb] = t3 /\ x = t4
      BY <2>2, <1>1, <1>2, <1>3 DEF Sets, Positions, Cat
    <2>4. Onward(x, t1) /\ Onward(x, t2) /\ Onward(x, t3) /\ Onward(x, t4)
      BY <2>2, <1>3, OnwardSets
    <2>5. PICK st \in States : st = (IF len = FlowLen THEN "flow" ELSE "blind")
                               /\ st # "preface"
      BY DEF States
    <2>6. PassByte(x, b) = ReadHeader(x, b)  BY <1>6 DEF PassByte
    <2>7. ReadHeader(x, b) \in {t1, GoTo(x, st), GoTo(t2, "sync"), GoTo(x, "blind"),
                                GoTo(t3, "payload")}
      BY <2>1, <2>3, <2>5, <1>1 DEF ReadHeader
    <2>8. /\ Onward(x, GoTo(t4, st)) /\ Onward(x, GoTo(t2, "sync"))
          /\ Onward(x, GoTo(t4, "blind")) /\ Onward(x, GoTo(t3, "payload"))
      BY <2>4, <2>5, OnwardGoTo DEF Onward, States
    <2> QED  BY <2>3, <2>4, <2>6, <2>7, <2>8
  <1>7. CASE x.state = "flow"
    <2>1. PICK n \in Nat : n = Number(pb)  BY NumberType
    <2>2. PICK t1, t2 : /\ t1 = Sets(x, pb, m, Cat(x.out, z), x.sent + 0)
                        /\ t2 = Sets(x, p, m, Cat(x.out, z), x.sent + n)
      OBVIOUS
    <2>3. [x EXCEPT !.part = pb] = t1 /\ [x EXCEPT !.sent = @ + n] = t2
      BY <2>2, <1>1, <1>2, <1>3 DEF Sets, Positions
    <2>4. Onward(x, t1) /\ Onward(x, t2)  BY <2>2, <1>3, OnwardSets
    <2>5. PassByte(x, b) = ReadFlow(x, b)  BY <1>7 DEF PassByte
    <2>6. ReadFlow(x, b) \in {t1, GoTo(t2, "header")}
      BY <2>1, <2>3, <1>1 DEF ReadFlow
    <2>7. Onward(x, GoTo(t2, "header"))  BY <2>4, OnwardGoTo DEF Onward, States
    <2> QED  BY <2>4, <2>5, <2>6, <2>7
  <1>8. CASE x.state = "payload"
    <2>1. PICK n \in Nat : n = m - 1
      <3>1. m # 0  BY <1>1, <1>8
      <3> QED  BY <3>1
    <2>2. PICK t : t = Sets(x, p, n, Cat(x.out, one), x.sent + 0)  OBVIOUS
    <2>3. [x EXCEPT !.remaining = @ - 1, !.out = Append(@, b)] = t
      BY <2>1, <2>2, <1>1, <1>2, <1>3 DEF Sets, Positions
    <2>4. Onward(x, t) /\ t \in Positions
      <3>1. Onward(x, t)  BY <2>2, <1>3, OnwardSets
      <3> QED  BY <3>1 DEF Onward, Further
    <2>5. PassByte(x, b) = Pass(t)
      <3>1. PassByte(x, b) = Pass([x EXCEPT !.remaining = @ - 1, !.out = Append(@, b)])
        BY <1>8 DEF PassByte
      <3> QED  BY <3>1, <2>3
    <2> QED  BY <2>4, <2>5, OnwardPass, OnwardTwice
  <1>9. CASE x.state = "sync"
    <2>1. PICK n \in Nat : n = m - 1
      <3>1. m # 0  BY <1>1, <1>9
      <3> QED  BY <3>1
    <2>2. PICK t : t = Sets(x, pb, n, Cat(x.out, z), x.sent + 0)  OBVIOUS
    <2>3. [x EXCEPT !.remaining = @ - 1, !.part = Append(@, b)] = t
      BY <2>1, <2>2, <1>1, <1>2, <1>3 DEF Sets, Positions
    <2>4. Onward(x, t) /\ t \in Positions
      <3>1. Onward(x, t)  BY <2>2, <1>3, OnwardSets
      <3> QED  BY <3>1 DEF Onward, Further
    <2>5. PassByte(x, b) = Pass(t)
      <3>1. PassByte(x, b) = Pass([x EXCEPT !.remaining = @ - 1, !.part = Append(@, b)])
        BY <1>9 DEF PassByte
      <3> QED  BY <3>1, <2>3
    <2> QED  BY <2>4, <2>5, OnwardPass, OnwardTwice
  <1> QED  BY <1>4, <1>5, <1>6, <1>7, <1>8, <1>9 DEF Positions, States

\* A payload that is read has bytes left.
LEMMA PassLeaves ==
    ASSUME NEW x \in Positions
    PROVE  Pass(x).state \in {"payload", "sync"} => Pass(x).remaining # 0
  <1>1. GoTo(x, "header").state = "header" /\ Deliver(x).state = "header"
    BY GoToFields, DeliverFields DEF States
  <1> QED  BY <1>1 DEF Pass

\* which it settles what is over for,
LEMMA OnwardStep ==
    ASSUME NEW x \in Positions, NEW b \in Nat
    PROVE  Onward(x, Step(x, b))
  <1>1. PICK y \in Positions : y = Pass(x)  BY PassType
  <1>2. Onward(x, y)  BY <1>1, OnwardPass
  <1>3. Onward(y, PassByte(y, b))  BY <1>1, PassLeaves, OnwardByte
  <1> QED  BY <1>1, <1>2, <1>3, OnwardTwice DEF Step

\* and with any number of them.
LEMMA OnwardFold ==
    ASSUME NEW x \in Positions, NEW q \in Bytes
    PROVE  Onward(x, Fold(Reading, x, q))
  <1> DEFINE W == {y \in Positions : Onward(x, y)}
  <1>1. \A y \in W, b \in Nat : Reading[y][b] \in W
    <2>1. ASSUME NEW y \in W, NEW b \in Nat  PROVE Reading[y][b] \in W
      <3>1. Reading[y][b] = Step(y, b)  BY ReadingStep
      <3>2. Step(y, b) \in Positions  BY StepType
      <3> QED  BY <3>1, <3>2, OnwardStep, OnwardTwice
    <2> QED  BY <2>1
  <1>2. x \in W
    <2>1. Further(x, x)  BY FurtherSame
    <2> QED  BY <2>1 DEF Onward
  <1>3. W \subseteq Positions  OBVIOUS
  <1> HIDE DEF W
  <1>4. q \in Seq(Nat)  BY DEF Bytes
  <1>5. Fold(Reading, x, q) \in W  BY <1>1, <1>2, <1>3, <1>4, ReadingType, FoldKeeps
  <1> QED  BY <1>5 DEF W

\* What is given out opens with the preface, unless the stream does not.
Opening(x) ==
    /\ x \in Positions
    /\ x.state = "preface" => x.out = x.part
    /\ x.state \notin {"preface", "blind"} => \E o \in Bytes : x.out = Cat(Preface, o)

\* A byte keeps this,
LEMMA OpeningStep ==
    ASSUME NEW x, Opening(x), NEW b \in Nat
    PROVE  Opening(Step(x, b))
  <1>1. x \in Positions  BY DEF Opening
  <1>2. PICK y \in Positions : y = Step(x, b)  BY <1>1, StepType
  <1>3. CASE x.state = "blind"
    <2>1. Pass(x) = x  BY <1>3 DEF Pass
    <2>2. PassByte(x, b) = [x EXCEPT !.out = Append(@, b)]  BY <1>3 DEF PassByte
    <2>3. y = [x EXCEPT !.out = Append(@, b)]  BY <2>1, <2>2, <1>2 DEF Step
    <2>4. y.state = "blind"  BY <2>3, <1>1, <1>3 DEF Positions
    <2> QED  BY <2>4, <1>2 DEF Opening
  <1>4. CASE x.state = "preface"
    <2>1. Pass(x) = x  BY <1>4 DEF Pass
    <2>2. PassByte(x, b) = MatchPreface(x, b)  BY <1>4 DEF PassByte
    <2>3. y = MatchPreface(x, b)  BY <2>1, <2>2, <1>2 DEF Step
    <2>4. PICK p \in Bytes : p = Append(x.part, b) /\ p = Append(x.out, b)
      BY <1>1, <1>4, AppendType DEF Opening, Positions
    <2>5. PICK t : t = [x EXCEPT !.part = p, !.out = p]  OBVIOUS
    <2>6. /\ t \in Positions /\ t.state = "preface" /\ t.part = p /\ t.out = p
      BY <2>5, <1>1, <1>4 DEF Positions
    <2>7. y \in {GoTo(t, "blind"), t} \/ (p = Preface /\ y = GoTo(t, "header"))
      <3>1. [x EXCEPT !.part = Append(x.part, b), !.out = Append(@, b)] = t
        BY <2>4, <2>5
      <3> QED  BY <3>1, <2>3, <2>4 DEF MatchPreface
    <2>8. CASE y = GoTo(t, "blind")
      <3>1. y.state = "blind"  BY <2>6, <2>8, GoToFields DEF States
      <3> QED  BY <3>1, <1>2 DEF Opening
    <2>9. CASE y = t
      BY <2>6, <2>9, <1>2 DEF Opening
    <2>10. CASE p = Preface /\ y = GoTo(t, "header")
      <3>1. y.state = "header" /\ y.out = Preface
        BY <2>6, <2>10, GoToFields DEF States
      <3>2. PICK o \in Bytes : o = <<>>
        <4>1. <<>> \in Bytes  BY DEF Bytes
        <4> QED  BY <4>1
      <3>3. Preface = Cat(Preface, o)  BY <3>2, Constants, CatBytes DEF Cat
      <3> QED  BY <3>1, <3>3, <1>2 DEF Opening
    <2> QED  BY <2>7, <2>8, <2>9, <2>10, <1>2
  <1>5. CASE x.state \notin {"preface", "blind"}
    <2>1. Onward(x, y)  BY <1>1, <1>2, OnwardStep
    <2>2. PICK o \in Bytes, p \in Bytes : x.out = Cat(Preface, o) /\ y.out = Cat(x.out, p)
      BY <2>1, <1>5 DEF Onward, Further, Opening
    <2>3. Preface \in Bytes  BY Constants
    <2>4. Cat(Cat(Preface, o), p) = Cat(Preface, Cat(o, p))
      BY <2>3, CatAssoc DEF Bytes
    <2>5. Cat(o, p) \in Bytes  BY CatBytes DEF Cat
    <2>6. y.state # "preface"  BY <2>1, <1>5 DEF Onward
    <2> QED  BY <2>2, <2>4, <2>5, <2>6, <1>2 DEF Opening
  <1> QED  BY <1>2, <1>3, <1>4, <1>5

\* and so does any number of them.
LEMMA OpeningFold ==
    ASSUME NEW x, Opening(x), NEW q \in Bytes
    PROVE  Opening(Fold(Reading, x, q))
  <1> DEFINE W == {y \in Positions : Opening(y)}
  <1>1. \A y \in W, b \in Nat : Reading[y][b] \in W
    <2>1. ASSUME NEW y \in W, NEW b \in Nat  PROVE Reading[y][b] \in W
      <3>1. Reading[y][b] = Step(y, b)  BY ReadingStep
      <3>2. Step(y, b) \in Positions  BY StepType
      <3> QED  BY <3>1, <3>2, OpeningStep
    <2> QED  BY <2>1
  <1>2. x \in W /\ W \subseteq Positions  BY DEF Opening
  <1> HIDE DEF W
  <1>3. q \in Seq(Nat)  BY DEF Bytes
  <1>4. Fold(Reading, x, q) \in W  BY <1>1, <1>2, <1>3, ReadingType, FoldKeeps
  <1> QED  BY <1>4 DEF W

-----------------------------------------------------------------------------
(* Taking sequences apart *)

\* How long a concatenation is.
LEMMA CatLen ==
    ASSUME NEW p \in Bytes, NEW q \in Bytes
    PROVE  Len(Cat(p, q)) = Len(p) + Len(q)
  BY CatBytes DEF Cat

\* What is left behind the first elements of a concatenation.
LEMMA CatSplit ==
    ASSUME NEW a \in Bytes, NEW w \in Bytes
    PROVE  SubSeq(Cat(a, w), Len(a) + 1, Len(Cat(a, w))) = w
  <1>1. PICK n \in Nat, m \in Nat : n = Len(a) /\ m = Len(w)  BY CatBytes
  <1>2. PICK c \in Bytes : /\ c = Cat(a, w) /\ Len(c) = n + m
                           /\ \A i \in 1 .. n + m : c[i] = IF i <= n THEN a[i] ELSE w[i - n]
    <2>1. a \in Seq(Nat) /\ w \in Seq(Nat)  BY DEF Bytes
    <2>2. /\ Cat(a, w) \in Seq(Nat) /\ Len(Cat(a, w)) = n + m
          /\ \A i \in 1 .. n + m : Cat(a, w)[i] = IF i <= n THEN a[i] ELSE w[i - n]
      BY <2>1, <1>1, ConcatProperties DEF Cat
    <2> QED  BY <2>2 DEF Bytes
  <1>3. \A i \in n + 1 .. n + m : c[i] \in Nat
    <2>1. \A i \in n + 1 .. n + m : i \in 1 .. n + m  BY <1>1
    <2> QED  BY <2>1, <1>2 DEF Bytes
  <1> DEFINE s == SubSeq(c, n + 1, n + m)
  <1>4. /\ s \in Seq(Nat) /\ Len(s) = m
        /\ \A i \in 1 .. m : s[i] = w[i]
    <2>1. s \in Seq(Nat) /\ Len(s) = (IF n + 1 <= n + m THEN (n + m) - (n + 1) + 1 ELSE 0)
          /\ \A i \in 1 .. ((n + m) - (n + 1) + 1) : s[i] = c[(n + 1) + i - 1]
      BY <1>1, <1>3, SubSeqProperties
    <2>2. Len(s) = m /\ (n + m) - (n + 1) + 1 = m  BY <2>1, <1>1
    <2>3. ASSUME NEW i \in 1 .. m  PROVE s[i] = w[i]
      <3>1. s[i] = c[(n + 1) + i - 1]  BY <2>1, <2>2
      <3>2. (n + 1) + i - 1 = n + i /\ n + i \in 1 .. n + m /\ ~(n + i <= n)
            /\ (n + i) - n = i
        BY <1>1
      <3>3. c[n + i] = w[(n + i) - n]  BY <3>2, <1>2
      <3> QED  BY <3>1, <3>2, <3>3
    <2> QED  BY <2>1, <2>2, <2>3
  <1> HIDE DEF s
  <1>5. s = w  BY <1>1, <1>4, SeqEqual DEF Bytes
  <1> QED  BY <1>1, <1>2, <1>5 DEF s

\* The first elements of a concatenation.
LEMMA CatHead ==
    ASSUME NEW a \in Bytes, NEW w \in Bytes
    PROVE  SubSeq(Cat(a, w), 1, Len(a)) = a
  <1>1. PICK n \in Nat, m \in Nat : n = Len(a) /\ m = Len(w)  BY CatBytes
  <1>2. PICK c \in Bytes : /\ c = Cat(a, w) /\ Len(c) = n + m
                           /\ \A i \in 1 .. n : c[i] = a[i]
    <2>1. a \in Seq(Nat) /\ w \in Seq(Nat)  BY DEF Bytes
    <2>2. /\ Cat(a, w) \in Seq(Nat) /\ Len(Cat(a, w)) = n + m
          /\ \A i \in 1 .. n + m : Cat(a, w)[i] = IF i <= n THEN a[i] ELSE w[i - n]
      BY <2>1, <1>1, ConcatProperties DEF Cat
    <2>3. \A i \in 1 .. n : i \in 1 .. n + m /\ i <= n  BY <1>1
    <2> QED  BY <2>2, <2>3 DEF Bytes
  <1> DEFINE s == SubSeq(c, 1, n)
  <1>3. s \in Seq(Nat) /\ Len(s) = n /\ \A i \in 1 .. n : s[i] = a[i]
    <2>1. \A i \in 1 .. n : c[i] \in Nat  BY <1>1, <1>2 DEF Bytes
    <2>2. s \in Seq(Nat) /\ Len(s) = n /\ \A i \in 1 .. n : s[i] = c[i]
      BY <1>1, <2>1, SubSeqProperties
    <2> QED  BY <2>2, <1>2
  <1> HIDE DEF s
  <1>4. s = a  BY <1>1, <1>3, SeqEqual DEF Bytes
  <1> QED  BY <1>1, <1>2, <1>4 DEF s

\* Concatenations that are equal and end in sequences of one length.
LEMMA CatEqual ==
    ASSUME NEW p \in Bytes, NEW q \in Bytes, NEW r \in Bytes, NEW s \in Bytes,
           Cat(p, r) = Cat(q, s), Len(r) = Len(s)
    PROVE  p = q /\ r = s
  <1>1. Len(p) = Len(q)
    <2>1. PICK a \in Nat, b \in Nat, c \in Nat : a = Len(p) /\ b = Len(q) /\ c = Len(r)
      BY CatBytes
    <2>2. Len(Cat(p, r)) = a + c /\ Len(Cat(q, s)) = b + c  BY <2>1, CatLen
    <2>3. a + c = b + c  BY <2>2
    <2>4. a = b  BY <2>3
    <2> QED  BY <2>1, <2>4
  <1>2. SubSeq(Cat(p, r), 1, Len(p)) = p /\ SubSeq(Cat(q, s), 1, Len(q)) = q  BY CatHead
  <1>3. /\ SubSeq(Cat(p, r), Len(p) + 1, Len(Cat(p, r))) = r
        /\ SubSeq(Cat(q, s), Len(q) + 1, Len(Cat(q, s))) = s
    BY CatSplit
  <1> QED  BY <1>1, <1>2, <1>3

\* Of a sequence cut in two ways the parts between the cuts.
LEMMA CatBetween ==
    ASSUME NEW a \in Bytes, NEW w \in Bytes, NEW e \in Bytes, NEW r \in Bytes,
           Cat(a, w) = Cat(e, r), Len(r) <= Len(w)
    PROVE  \E m \in Bytes : e = Cat(a, m) /\ w = Cat(m, r)
  <1>1. PICK n \in Nat, k \in Nat : n = Len(w) /\ k = Len(r) /\ k <= n  BY CatBytes
  <1>2. n - k \in 0 .. n  BY <1>1
  <1>3. PICK m \in Bytes, s \in Bytes : w = Cat(m, s) /\ Len(m) = n - k
    <2>1. w \in Seq(Nat) /\ n - k \in 0 .. Len(w)  BY <1>1, <1>2 DEF Bytes
    <2>2. /\ SubSeq(w, 1, n - k) \in Seq(Nat) /\ SubSeq(w, (n - k) + 1, Len(w)) \in Seq(Nat)
          /\ w = SubSeq(w, 1, n - k) \o SubSeq(w, (n - k) + 1, Len(w))
      BY <2>1, SplitSeq
    <2>3. Len(SubSeq(w, 1, n - k)) = n - k
      <3>1. PICK l \in Nat : l = n - k /\ l <= n
        <4>1. n - k \in Nat /\ n - k <= n  BY <1>1
        <4> QED  BY <4>1
      <3>2. \A i \in 1 .. l : w[i] \in Nat
        <4>1. \A i \in 1 .. l : i \in 1 .. n  BY <3>1
        <4> QED  BY <4>1, <1>1 DEF Bytes
      <3>3. Len(SubSeq(w, 1, l)) = l  BY <3>1, <3>2, SubSeqProperties
      <3> QED  BY <3>1, <3>3
    <2> QED  BY <2>2, <2>3 DEF Cat, Bytes
  <1>4. Len(s) = k
    <2>1. PICK l \in Nat : l = Len(s)  BY CatBytes
    <2>2. Len(Cat(m, s)) = Len(m) + Len(s)  BY CatLen
    <2>3. n = (n - k) + l  BY <2>1, <2>2, <1>1, <1>3
    <2>4. l = k  BY <2>3, <1>1
    <2> QED  BY <2>1, <2>4
  <1>5. PICK am \in Bytes : am = Cat(a, m)  BY CatBytes DEF Cat
  <1>6. Cat(am, s) = Cat(e, r)
    <2>1. Cat(Cat(a, m), s) = Cat(a, Cat(m, s))  BY CatAssoc DEF Bytes
    <2> QED  BY <2>1, <1>3, <1>5
  <1>7. am = e /\ s = r  BY <1>1, <1>4, <1>6, CatEqual
  <1> QED  BY <1>3, <1>5, <1>7

\* Sequences cut at a place.
LEMMA CutBytes ==
    ASSUME NEW q \in Bytes, NEW n \in 0 .. Len(q)
    PROVE  \E a, w \in Bytes : /\ a = SubSeq(q, 1, n) /\ w = SubSeq(q, n + 1, Len(q))
                               /\ q = Cat(a, w) /\ Len(a) = n
  <1>1. q \in Seq(Nat)  BY DEF Bytes
  <1>2. /\ SubSeq(q, 1, n) \in Seq(Nat) /\ SubSeq(q, n + 1, Len(q)) \in Seq(Nat)
        /\ q = SubSeq(q, 1, n) \o SubSeq(q, n + 1, Len(q))
    BY <1>1, SplitSeq
  <1>3. PICK l \in Nat : l = Len(q) /\ n \in Nat /\ n <= l  BY CatBytes
  <1>4. Len(SubSeq(q, 1, n)) = n
    <2>1. \A i \in 1 .. n : q[i] \in Nat
      <3>1. \A i \in 1 .. n : i \in 1 .. l  BY <1>3
      <3> QED  BY <3>1, <1>3 DEF Bytes
    <2> QED  BY <2>1, <1>3, SubSeqProperties
  <1> QED  BY <1>2, <1>4 DEF Cat, Bytes

-----------------------------------------------------------------------------
(* The invariant *)

Typed ==
    /\ source \in Sources /\ wire \in Bytes
    /\ scanner \in ScannerType /\ Len(scanner.blocks) <= 1
    /\ phase \in {"protocol", "handshake", "woken", "polling", "ended"}
    /\ protocol \in {"unknown", "http1", "http2"}
    /\ handed \in Bytes /\ taken \in Seq(Bytes) /\ reported \in Nat

\* Where the reader ends if it goes on from where the scanner is.
Ahead(d) == Fold(Reading, Held(scanner, handed, reported, d), wire)

\* It has then what it is to get.
Ends(y) ==
    /\ Pass(y).out = source.bytes /\ Pass(y).ups = source.updates
    /\ Pass(y).sent = source.sent

Faithful ==
    \E d \in Seq(Updates) : Len(d) = Len(taken) /\ Ends(Ahead(d))

\* Before the loop starts nothing was given out and no update has arrived.
Fresh ==
    /\ handed = <<>> /\ taken = <<>> /\ reported = 0
    /\ scanner.hold = <<>> /\ scanner.blocks = <<>>

Unread(g) ==
    \E e, r \in Bytes :
       wire = Cat(e, r) /\ Len(r) = source.late /\ Fold(Reading, g, e).ups = <<>>

Early ==
    phase \in {"protocol", "handshake"} =>
       /\ Fresh
       /\ Opening(Ghost(scanner, <<>>, 0, <<>>)) /\ Unread(Ghost(scanner, <<>>, 0, <<>>))

\* The codec's handshake has the preface to read, and the loop looks for an update
\* only when everything in front of it was given out.
Waking ==
    /\ phase = "handshake" => scanner.state \notin {"preface", "blind"}
    /\ phase = "woken" /\ scanner.blocks # <<>> => scanner.out = <<>>

Inv == Typed /\ Faithful /\ Early /\ Waking

-----------------------------------------------------------------------------
(* Steps of the scanner *)

\* Scanners that differ in nothing the reader sees.
LEMMA HeldSame ==
    ASSUME NEW s, NEW t, NEW h, NEW r, NEW d, NEW k, NEW l, NEW e,
           s.hold = t.hold, Ghost(s, h, r, d) = Ghost(t, k, l, e)
    PROVE  Held(s, h, r, d) = Held(t, k, l, e)
  BY DEF Held

\* What the SyncHandle holds when it is not empty.
LEMMA BlocksOne ==
    ASSUME Typed, scanner.blocks # <<>>
    PROVE  /\ Len(scanner.blocks) = 1 /\ scanner.blocks[1] \in Bytes
           /\ scanner.blocks = <<scanner.blocks[1]>>
  <1>1. scanner.blocks \in Seq(Bytes) /\ Len(scanner.blocks) <= 1
    BY DEF Typed, ScannerType
  <1>2. PICK bs \in Seq(Bytes) : bs = scanner.blocks  BY <1>1
  <1>3. Len(bs) \in Nat /\ Len(bs) # 0  BY <1>2, EmptySeq
  <1>4. Len(bs) = 1
    <2>1. PICK n \in Nat : n = Len(bs)  BY <1>3
    <2>2. n <= 1 /\ n # 0  BY <1>1, <1>2, <1>3, <2>1
    <2>3. n = 1  BY <2>2
    <2> QED  BY <2>1, <2>3
  <1>5. bs[1] \in Bytes /\ bs = <<bs[1]>>  BY <1>4, OneElement
  <1> QED  BY <1>2, <1>4, <1>5

\* Reading takes bytes off the wire and goes on with them.
LEMMA ReadBytes ==
    ASSUME Typed, scanner.blocks = <<>>, scanner.hold = <<>>, Read
    PROVE  \E a \in Bytes :
              /\ wire' \in Bytes /\ wire = Cat(a, wire') /\ Fits(scanner')
              /\ \A h \in Bytes, r \in Nat, d \in Seq(Updates) :
                    Held(scanner', h, r, d) = Fold(Reading, Held(scanner, h, r, d), a)
  <1>1. PICK n \in 1 .. Len(wire) :
            /\ scanner' \in Scan(scanner, SubSeq(wire, 1, n))
            /\ wire' = SubSeq(wire, n + 1, Len(wire))
    BY DEF Read
  <1>2. wire \in Bytes  BY DEF Typed
  <1>3. n \in 0 .. Len(wire)
    <2>1. Len(wire) \in Nat  BY <1>2, CatBytes
    <2> QED  BY <2>1
  <1>4. PICK a \in Bytes, w \in Bytes :
            a = SubSeq(wire, 1, n) /\ w = SubSeq(wire, n + 1, Len(wire)) /\ wire = Cat(a, w)
    BY <1>2, <1>3, CutBytes
  <1>5. Fits(scanner)  BY DEF Fits, Typed
  <1>6. scanner' \in Scan(scanner, a)  BY <1>1, <1>4
  <1>7. PICK t : t = scanner'  OBVIOUS
  <1>8. ASSUME NEW h \in Bytes, NEW r \in Nat, NEW d \in Seq(Updates)
        PROVE  Fits(t) /\ Held(t, h, r, d) = Fold(Reading, Held(scanner, h, r, d), a)
    BY <1>5, <1>6, <1>7, ScanHeld
  <1>9. Fits(t)
    <2>1. <<>> \in Bytes /\ 0 \in Nat /\ <<>> \in Seq(Updates)  BY DEF Bytes
    <2> QED  BY <2>1, <1>8
  <1> QED  BY <1>1, <1>4, <1>7, <1>8, <1>9

\* What is ahead stays what it is.
LEMMA ReadFaithful ==
    ASSUME Typed, Faithful, scanner.blocks = <<>>, scanner.hold = <<>>, Read
    PROVE  Typed' /\ Faithful'
  <1>1. /\ UNCHANGED <<source, phase, protocol, handed, taken, reported>>
        /\ handed \in Bytes /\ reported \in Nat
    BY DEF Read, Typed
  <1>2. PICK a \in Bytes :
            /\ wire' \in Bytes /\ wire = Cat(a, wire') /\ Fits(scanner')
            /\ \A h \in Bytes, r \in Nat, d \in Seq(Updates) :
                  Held(scanner', h, r, d) = Fold(Reading, Held(scanner, h, r, d), a)
    BY ReadBytes
  <1>3. Typed'
    <2>1. PICK t : t = scanner'  OBVIOUS
    <2>2. t \in ScannerType /\ Len(t.blocks) <= 1  BY <2>1, <1>2, FitsOne
    <2> QED  BY <2>1, <2>2, <1>1, <1>2 DEF Typed
  <1>4. PICK d \in Seq(Updates) : Len(d) = Len(taken) /\ Ends(Ahead(d))  BY DEF Faithful
  <1>5. PICK x \in Positions : x = Held(scanner, handed, reported, d)
    BY <1>1, HeldType DEF Typed
  <1>6. Ahead(d)' = Ahead(d)
    <2>1. PICK w \in Bytes : w = wire'  BY <1>2
    <2>2. a \in Seq(Nat) /\ w \in Seq(Nat)  BY DEF Bytes
    <2>3. Fold(Reading, x, a \o w) = Fold(Reading, Fold(Reading, x, a), w)
      BY <2>2, ReadingType, FoldConcat
    <2>4. Held(scanner', handed, reported, d) = Fold(Reading, x, a)
      BY <1>1, <1>2, <1>5
    <2>5. Ahead(d)' = Fold(Reading, Held(scanner', handed, reported, d), w)
      BY <2>1, <1>1 DEF Ahead
    <2>6. Ahead(d) = Fold(Reading, x, a \o w)  BY <2>1, <1>2, <1>5 DEF Ahead, Cat
    <2> QED  BY <2>3, <2>4, <2>5, <2>6
  <1>7. Ends(Ahead(d))'
    BY <1>1, <1>4, <1>6 DEF Ends
  <1>8. Faithful'
    BY <1>1, <1>4, <1>7 DEF Faithful
  <1> QED  BY <1>3, <1>8

\* Who has no update later has none now.
LEMMA NoneYet ==
    ASSUME NEW x, NEW y, Further(x, y), y.ups = <<>>
    PROVE  x.ups = <<>>
  <1>1. PICK u \in Seq(Updates) : u = x.ups  BY DEF Further, Positions
  <1>2. Later(u, y.ups, Len(x.out), x.sent)  BY <1>1 DEF Further
  <1>3. Len(u) <= Len(y.ups)  BY <1>2 DEF Later
  <1>4. Len(y.ups) = 0  BY EmptySeq
  <1>5. Len(u) \in Nat  BY <1>1
  <1>6. Len(u) = 0  BY <1>3, <1>4, <1>5
  <1>7. u = <<>>  BY <1>1, <1>6, NoElements
  <1> QED  BY <1>1, <1>7

\* protocol() reads nothing that is late, so no update.
LEMMA ReadProtocolEarly ==
    ASSUME Inv, ReadProtocol
    PROVE  Early' /\ Typed' /\ Faithful'
  <1>1. /\ phase = "protocol" /\ Read /\ Len(wire') >= source.late /\ Typed /\ Fresh
        /\ Faithful /\ Opening(Ghost(scanner, <<>>, 0, <<>>))
        /\ Unread(Ghost(scanner, <<>>, 0, <<>>))
    BY DEF ReadProtocol, Inv, Early
  <1>2. scanner.blocks = <<>> /\ scanner.hold = <<>>  BY <1>1 DEF Fresh
  <1>3. Typed' /\ Faithful'  BY <1>1, <1>2, ReadFaithful
  <1>4. PICK a \in Bytes :
            /\ wire' \in Bytes /\ wire = Cat(a, wire') /\ Fits(scanner')
            /\ \A h \in Bytes, r \in Nat, d \in Seq(Updates) :
                  Held(scanner', h, r, d) = Fold(Reading, Held(scanner, h, r, d), a)
    BY <1>1, <1>2, ReadBytes
  <1>5. PICK t : t = scanner'  OBVIOUS
  <1>6. t \in ScannerType /\ Len(t.blocks) <= 1 /\ Fits(t)  BY <1>4, <1>5, FitsOne
  <1>7. PICK none \in Bytes, z \in Nat, no \in Seq(Updates) :
            none = <<>> /\ z = 0 /\ no = <<>>
    <2>1. <<>> \in Bytes /\ <<>> \in Seq(Updates)  BY DEF Bytes
    <2> QED  BY <2>1
  <1>8. PICK g \in Positions : g = Ghost(scanner, none, z, no)
    BY <1>1, <1>7 DEF Opening
  <1>9. Held(scanner, none, z, no) = g  BY <1>1, <1>2, <1>8, HeldType DEF Typed
  <1>10. PICK y \in Positions : y = Held(t, none, z, no) /\ y = Fold(Reading, g, a)
    <2>1. Held(t, none, z, no) = Fold(Reading, g, a)  BY <1>4, <1>5, <1>9
    <2>2. Held(t, none, z, no) \in Positions  BY <1>6, HeldType
    <2> QED  BY <2>1, <2>2
  <1>11. PICK e \in Bytes, r \in Bytes :
             wire = Cat(e, r) /\ Len(r) = source.late /\ Fold(Reading, g, e).ups = <<>>
    BY <1>1, <1>7, <1>8 DEF Unread
  <1>12. PICK m \in Bytes : e = Cat(a, m) /\ wire' = Cat(m, r)
    <2>1. PICK w \in Bytes : w = wire'  BY <1>4
    <2>2. Len(r) <= Len(w)
      <3>1. PICK i \in Nat, j \in Nat : i = Len(r) /\ j = Len(w)  BY CatBytes
      <3>2. j >= i  BY <3>1, <2>1, <1>1, <1>11
      <3> QED  BY <3>1, <3>2
    <2>3. Cat(a, w) = Cat(e, r)  BY <2>1, <1>4, <1>11
    <2> QED  BY <2>1, <2>2, <2>3, CatBetween
  <1>13. Fold(Reading, g, e) = Fold(Reading, y, m)
    <2>1. a \in Seq(Nat) /\ m \in Seq(Nat)  BY DEF Bytes
    <2>2. Fold(Reading, g, a \o m) = Fold(Reading, Fold(Reading, g, a), m)
      BY <2>1, ReadingType, FoldConcat
    <2> QED  BY <2>2, <1>10, <1>12 DEF Cat
  <1>14. t.blocks = <<>>
    <2>1. Further(y, Fold(Reading, y, m))  BY OnwardFold DEF Onward
    <2>2. y.ups = <<>>  BY <2>1, <1>11, <1>13, NoneYet
    <2>3. PICK x \in Positions, q \in Bytes : x = Ghost(t, none, z, no) /\ q = t.hold
      BY <1>6, GhostType DEF ScannerType
    <2>4. Further(x, y)
      <3>1. y = Fold(Reading, x, q)  BY <2>3, <1>10 DEF Held
      <3> QED  BY <3>1, OnwardFold DEF Onward
    <2>5. x.ups = <<>>  BY <2>2, <2>4, NoneYet
    <2>6. ASSUME t.blocks # <<>>  PROVE FALSE
      <3>1. PICK u : x.ups = Append(no, u)
        <4>1. x.ups = Pending(t, none, z, no)  BY <2>3, <1>6, GhostFields
        <4> QED  BY <4>1, <2>6 DEF Pending
      <3>2. Append(no, u) # <<>>
        <4>1. Append(<<>>, u) # <<>>  OBVIOUS
        <4> QED  BY <4>1, <1>7
      <3> QED  BY <3>1, <3>2, <2>5
    <2> QED  BY <2>6
  <1>15. t.hold = <<>>  BY <1>6, <1>14 DEF Fits
  <1>16. Ghost(t, none, z, no) = y  BY <1>6, <1>10, <1>15, HeldType
  <1>17. Opening(y)
    <2>1. Opening(g)  BY <1>1, <1>7, <1>8
    <2> QED  BY <2>1, <1>10, OpeningFold
  <1>18. UNCHANGED <<source, handed, taken, reported>>  BY <1>1 DEF Read
  <1>19. Fresh'
    BY <1>1, <1>5, <1>14, <1>15, <1>18 DEF Fresh
  <1>20. Unread(Ghost(scanner, <<>>, 0, <<>>))'
    <2>1. Ghost(scanner, <<>>, 0, <<>>)' = y  BY <1>5, <1>7, <1>16
    <2>2. Fold(Reading, y, m).ups = <<>>  BY <1>11, <1>13
    <2>3. wire' = Cat(m, r) /\ Len(r) = source'.late  BY <1>11, <1>12, <1>18
    <2> QED  BY <2>1, <2>2, <2>3 DEF Unread
  <1>21. Opening(Ghost(scanner, <<>>, 0, <<>>))'
    BY <1>5, <1>7, <1>16, <1>17
  <1> QED  BY <1>3, <1>19, <1>20, <1>21 DEF Early

-----------------------------------------------------------------------------
(* Every step keeps the invariant *)

\* A step that reads nothing and leaves the reader where it is.
LEMMA FaithfulSame ==
    ASSUME Faithful, UNCHANGED <<source, wire>>,
           \A d \in Seq(Updates) : Len(d) = Len(taken) =>
              \E e \in Seq(Updates) :
                 /\ Len(e) = Len(taken')
                 /\ Held(scanner', handed', reported', e) = Held(scanner, handed, reported, d)
    PROVE  Faithful'
  <1>1. PICK d \in Seq(Updates) : Len(d) = Len(taken) /\ Ends(Ahead(d))  BY DEF Faithful
  <1>2. PICK e \in Seq(Updates) :
            /\ Len(e) = Len(taken')
            /\ Held(scanner', handed', reported', e) = Held(scanner, handed, reported, d)
    BY <1>1
  <1>3. Ahead(e)' = Ahead(d)  BY <1>2 DEF Ahead
  <1>4. Ends(Ahead(e))'  BY <1>1, <1>3 DEF Ends
  <1> QED  BY <1>2, <1>4 DEF Faithful

\* Steps of the connection's task alone.
LEMMA TaskKeeps ==
    ASSUME Inv, UNCHANGED <<source, wire, scanner, handed, taken, reported>>,
           phase' \in {"protocol", "handshake", "woken", "polling", "ended"},
           protocol' \in {"unknown", "http1", "http2"},
           phase' \in {"protocol", "handshake"} => phase \in {"protocol", "handshake"},
           Waking'
    PROVE  Inv'
  <1>1. Typed'  BY DEF Inv, Typed
  <1>2. Faithful'
    <2>1. Faithful  BY DEF Inv
    <2> QED  BY <2>1, FaithfulSame
  <1>3. Early'
    <2>1. Early  BY DEF Inv
    <2>2. ASSUME phase' \in {"protocol", "handshake"}  PROVE Fresh' /\ Fresh
      BY <2>1, <2>2 DEF Early, Fresh
    <2>3. ASSUME phase' \in {"protocol", "handshake"}
          PROVE  /\ Opening(Ghost(scanner, <<>>, 0, <<>>))'
                 /\ Unread(Ghost(scanner, <<>>, 0, <<>>))'
      BY <2>1, <2>3 DEF Early, Unread
    <2> QED  BY <2>2, <2>3 DEF Early
  <1> QED  BY <1>1, <1>2, <1>3 DEF Inv

\* Steps that change the phase and the protocol only.
LEMMA QuietKeeps ==
    ASSUME Inv,
           ProtocolHttp1 \/ ProtocolHttp2 \/ Withhold \/ WaitForSocket \/ ReadEnd
           \/ UNCHANGED vars
    PROVE  Inv'
  <1>1. Typed /\ Waking  BY DEF Inv
  <1>2. CASE ProtocolHttp1
    <2>1. Waking'  BY <1>2 DEF ProtocolHttp1, Waking
    <2> QED  BY <1>2, <2>1, TaskKeeps DEF ProtocolHttp1
  <1>3. CASE ProtocolHttp2
    <2>1. Waking'  BY <1>3 DEF ProtocolHttp2, Waking
    <2> QED  BY <1>3, <2>1, TaskKeeps DEF ProtocolHttp2
  <1>4. CASE Withhold
    <2>1. phase' \in {"woken", "polling"} /\ scanner.out = <<>> /\ UNCHANGED scanner
      BY <1>4 DEF Withhold, PollAgain, Dry
    <2>2. Waking'  BY <2>1 DEF Waking
    <2>3. UNCHANGED <<source, wire, scanner, protocol, handed, taken, reported>>
      BY <1>4 DEF Withhold
    <2> QED  BY <1>1, <2>1, <2>2, <2>3, TaskKeeps DEF Typed
  <1>5. CASE WaitForSocket
    <2>1. phase' \in {"woken", "polling"} /\ scanner.out = <<>> /\ UNCHANGED scanner
      BY <1>5 DEF WaitForSocket, PollAgain, AtSocket, Dry
    <2>2. Waking'  BY <2>1 DEF Waking
    <2>3. UNCHANGED <<source, wire, scanner, protocol, handed, taken, reported>>
      BY <1>5 DEF WaitForSocket
    <2> QED  BY <1>1, <2>1, <2>2, <2>3, TaskKeeps DEF Typed
  <1>6. CASE ReadEnd
    <2>1. Waking'  BY <1>6 DEF ReadEnd, Waking
    <2> QED  BY <1>1, <1>6, <2>1, TaskKeeps DEF ReadEnd, Typed
  <1>7. CASE UNCHANGED vars
    <2>1. Waking'  BY <1>1, <1>7 DEF vars, Waking
    <2> QED  BY <1>1, <1>7, <2>1, TaskKeeps DEF vars, Typed
  <1> QED  BY <1>2, <1>3, <1>4, <1>5, <1>6, <1>7

\* protocol() reads.
LEMMA ReadProtocolKeeps ==
    ASSUME Inv, ReadProtocol
    PROVE  Inv'
  <1>1. Waking'
    <2>1. phase' = "protocol"  BY DEF ReadProtocol, Read
    <2> QED  BY <2>1 DEF Waking
  <1> QED  BY <1>1, ReadProtocolEarly DEF Inv

\* poll_read reads.
LEMMA ReadSocketKeeps ==
    ASSUME Inv, ReadSocket
    PROVE  Inv'
  <1>1. scanner.blocks = <<>> /\ scanner.hold = <<>> /\ phase = "polling" /\ Read
    BY DEF ReadSocket, AtSocket, Dry
  <1>2. Typed' /\ Faithful'  BY <1>1, ReadFaithful DEF Inv
  <1>3. phase' = "polling"  BY <1>1 DEF Read
  <1> QED  BY <1>2, <1>3 DEF Inv, Early, Waking

\* What was held is scanned.
LEMMA RescanKeeps ==
    ASSUME Inv, Rescan
    PROVE  Inv'
  <1>1. /\ phase = "polling" /\ phase' = phase /\ scanner.blocks = <<>>
        /\ UNCHANGED <<source, wire, protocol, handed, taken, reported>>
        /\ scanner' \in Scan([scanner EXCEPT !.hold = <<>>], scanner.hold)
    BY DEF Rescan, Dry
  <1>2. /\ Typed /\ Faithful /\ scanner \in ScannerType /\ scanner.hold \in Bytes
        /\ handed \in Bytes /\ reported \in Nat
    BY DEF Inv, Typed, ScannerType
  <1>3. PICK none \in Bytes : none = <<>>
    <2>1. <<>> \in Bytes  BY DEF Bytes
    <2> QED  BY <2>1
  <1>4. PICK u : u = [scanner EXCEPT !.hold = none]  OBVIOUS
  <1>5. u \in ScannerType /\ u.hold = <<>> /\ u.blocks = <<>>
    BY <1>1, <1>2, <1>3, <1>4 DEF ScannerType
  <1>6. Fits(u)  BY <1>5 DEF Fits
  <1>7. PICK t : t = scanner'  OBVIOUS
  <1>8. ASSUME NEW h \in Bytes, NEW r \in Nat, NEW d \in Seq(Updates)
        PROVE  Fits(t) /\ Held(t, h, r, d) = Held(scanner, h, r, d)
    <2>1. t \in Scan(u, scanner.hold)  BY <1>1, <1>3, <1>4, <1>7
    <2>2. Fits(t) /\ Held(t, h, r, d) = Fold(Reading, Held(u, h, r, d), scanner.hold)
      BY <1>2, <1>5, <1>6, <2>1, ScanHeld
    <2>3. Held(u, h, r, d) = Ghost(u, h, r, d)
      <3>1. Len(u.blocks) <= 1  BY <1>6, FitsOne
      <3> QED  BY <1>5, <3>1, HeldType
    <2>4. Ghost(u, h, r, d) = Ghost(scanner, h, r, d)
      <3>1. /\ u.state = scanner.state /\ u.part = scanner.part /\ u.sent = scanner.sent
            /\ u.remaining = scanner.remaining /\ u.out = scanner.out
            /\ u.blocks = scanner.blocks
        BY <1>2, <1>4 DEF ScannerType
      <3> QED  BY <3>1 DEF Ghost, Pending
    <2> QED  BY <2>2, <2>3, <2>4 DEF Held
  <1>9. Fits(t)
    <2>1. <<>> \in Seq(Updates)  OBVIOUS
    <2> QED  BY <2>1, <1>2, <1>8
  <1>10. Typed'
    <2>1. t \in ScannerType /\ Len(t.blocks) <= 1  BY <1>9, FitsOne
    <2> QED  BY <1>1, <1>2, <1>7, <2>1 DEF Typed
  <1>11. Faithful'
    <2>1. ASSUME NEW d \in Seq(Updates), Len(d) = Len(taken)
          PROVE  /\ Len(d) = Len(taken')
                 /\ Held(scanner', handed', reported', d) = Held(scanner, handed, reported, d)
      BY <1>1, <1>2, <1>7, <1>8, <2>1
    <2> QED  BY <1>1, <1>2, <2>1, FaithfulSame
  <1> QED  BY <1>1, <1>10, <1>11 DEF Inv, Early, Waking

\* Bytes that are given out are the reader's all the same.
LEMMA GhostMoves ==
    ASSUME NEW s \in ScannerType, NEW o \in Bytes, NEW h, NEW k, Cat(h, s.out) = Cat(k, o)
    PROVE  LET t == [s EXCEPT !.out = o] IN
           /\ t \in ScannerType /\ t.blocks = s.blocks
           /\ \A r, d : Held(t, k, r, d) = Held(s, h, r, d)
  <1> DEFINE t == [s EXCEPT !.out = o]
  <1>1. t \in ScannerType  BY DEF ScannerType
  <1>2. /\ t.state = s.state /\ t.part = s.part /\ t.sent = s.sent /\ t.blocks = s.blocks
        /\ t.remaining = s.remaining /\ t.hold = s.hold /\ t.out = o
    BY DEF ScannerType
  <1> HIDE DEF t
  <1>3. ASSUME NEW r, NEW d  PROVE Ghost(t, k, r, d) = Ghost(s, h, r, d)
    BY <1>2 DEF Ghost, Pending
  <1>4. ASSUME NEW r, NEW d  PROVE Held(t, k, r, d) = Held(s, h, r, d)
    BY <1>2, <1>3, HeldSame
  <1> QED  BY <1>1, <1>2, <1>4 DEF t

\* Bytes move from the scanner to what the reader was given.
LEMMA GiveKeeps ==
    ASSUME Typed, Faithful, NEW o \in Bytes, NEW k \in Bytes,
           Cat(handed, scanner.out) = Cat(k, o),
           scanner' = [scanner EXCEPT !.out = o], handed' = k,
           UNCHANGED <<source, wire, protocol, taken, reported>>,
           phase' \in {"protocol", "handshake", "woken", "polling", "ended"}
    PROVE  Typed' /\ Faithful'
  <1>1. scanner \in ScannerType  BY DEF Typed
  <1>2. /\ scanner' \in ScannerType /\ scanner'.blocks = scanner.blocks
        /\ \A r, d : Held(scanner', k, r, d) = Held(scanner, handed, r, d)
    BY <1>1, GhostMoves
  <1>3. Typed'  BY <1>2 DEF Typed
  <1>4. ASSUME NEW d \in Seq(Updates), Len(d) = Len(taken)
        PROVE  /\ Len(d) = Len(taken')
               /\ Held(scanner', handed', reported', d) = Held(scanner, handed, reported, d)
    BY <1>2, <1>4
  <1>5. Faithful'  BY <1>4, FaithfulSame
  <1> QED  BY <1>3, <1>5

\* What the codec's handshake finds in the scanner.
LEMMA HandshakePreface ==
    ASSUME Inv, Handshake
    PROVE  /\ handed = <<>> /\ handed' = Preface /\ scanner.blocks = <<>>
           /\ \E o \in Bytes : /\ scanner.out = Cat(Preface, o)
                               /\ scanner' = [scanner EXCEPT !.out = o]
  <1>1. /\ Typed /\ Fresh /\ Opening(Ghost(scanner, <<>>, 0, <<>>))
        /\ scanner.state \notin {"preface", "blind"}
    BY DEF Inv, Early, Waking, Handshake
  <1>2. scanner.out \in Bytes  BY <1>1 DEF Typed, ScannerType
  <1>3. PICK o \in Bytes : Ghost(scanner, <<>>, 0, <<>>).out = Cat(Preface, o)
    <2>1. Ghost(scanner, <<>>, 0, <<>>).state = scanner.state  BY DEF Ghost
    <2> QED  BY <1>1, <2>1 DEF Opening
  <1>4. scanner.out = Cat(Preface, o)
    <2>1. Ghost(scanner, <<>>, 0, <<>>).out = Cat(<<>>, scanner.out)  BY DEF Ghost
    <2>2. Cat(<<>>, scanner.out) = scanner.out  BY <1>2, CatBytes DEF Cat
    <2> QED  BY <1>3, <2>1, <2>2
  <1>5. SubSeq(scanner.out, Len(Preface) + 1, Len(scanner.out)) = o
    BY <1>4, CatSplit, Constants
  <1>6. scanner' = [scanner EXCEPT !.out = o]  BY <1>5 DEF Handshake
  <1> QED  BY <1>1, <1>4, <1>6 DEF Fresh, Handshake

\* The codec's handshake takes the preface.
LEMMA HandshakeKeeps ==
    ASSUME Inv, Handshake
    PROVE  Inv'
  <1>1. Typed /\ Faithful /\ phase' = "woken"
        /\ UNCHANGED <<source, wire, protocol, taken, reported>>
    BY DEF Inv, Handshake
  <1>2. /\ handed = <<>> /\ handed' = Preface /\ scanner.blocks = <<>>
        /\ scanner \in ScannerType
    BY <1>1, HandshakePreface DEF Typed
  <1>3. PICK o \in Bytes : scanner.out = Cat(Preface, o)
                           /\ scanner' = [scanner EXCEPT !.out = o]
    BY HandshakePreface
  <1>4. Cat(handed, scanner.out) = Cat(Preface, o)
    <2>1. PICK q \in Bytes : q = Cat(Preface, o)  BY Constants, CatBytes DEF Cat
    <2>2. Cat(<<>>, q) = q  BY CatBytes DEF Cat
    <2> QED  BY <1>2, <1>3, <2>1, <2>2
  <1>5. Typed' /\ Faithful'
    <2>1. Preface \in Bytes  BY Constants
    <2> QED  BY <1>1, <1>2, <1>3, <1>4, <2>1, GiveKeeps
  <1>6. scanner'.blocks = <<>>
    BY <1>2, <1>3 DEF ScannerType
  <1> QED  BY <1>1, <1>5, <1>6 DEF Inv, Early, Waking

\* drain_into cuts what there is.
LEMMA DrainCuts ==
    ASSUME Typed, Drain
    PROVE  \E a, o \in Bytes : /\ a # <<>> /\ scanner.out = Cat(a, o)
                               /\ handed' = Cat(handed, a)
                               /\ scanner' = [scanner EXCEPT !.out = o]
  <1>1. scanner.out \in Bytes /\ scanner.out # <<>>  BY DEF Typed, ScannerType, Drain
  <1>2. PICK l \in Nat : l = Len(scanner.out) /\ l > 0
    <2>1. PICK l \in Nat : l = Len(scanner.out)  BY <1>1, CatBytes
    <2>2. l # 0  BY <1>1, <2>1, EmptySeq DEF Bytes
    <2>3. l > 0  BY <2>2
    <2> QED  BY <2>1, <2>3
  <1>3. PICK room \in 1 .. MaxRoom :
            LET n == IF room < Len(scanner.out) THEN room ELSE Len(scanner.out) IN
            /\ handed' = handed \o SubSeq(scanner.out, 1, n)
            /\ scanner' = [scanner EXCEPT !.out = SubSeq(@, n + 1, Len(@))]
    BY DEF Drain
  <1>4. PICK n \in 0 .. Len(scanner.out) :
            /\ n > 0 /\ handed' = handed \o SubSeq(scanner.out, 1, n)
            /\ scanner' = [scanner EXCEPT !.out = SubSeq(@, n + 1, Len(@))]
    <2>1. room \in Nat /\ room >= 1  BY ScannerAssumption
    <2>2. PICK n \in Nat : n = (IF room < l THEN room ELSE l)  BY <2>1
    <2>3. n > 0 /\ n \in 0 .. l  BY <2>1, <2>2, <1>2
    <2> QED  BY <2>2, <2>3, <1>2, <1>3
  <1>5. PICK a \in Bytes, o \in Bytes :
            /\ a = SubSeq(scanner.out, 1, n)
            /\ o = SubSeq(scanner.out, n + 1, Len(scanner.out))
            /\ scanner.out = Cat(a, o) /\ Len(a) = n
    BY <1>1, CutBytes
  <1>6. a # <<>>
    <2>1. Len(<<>>) = 0  OBVIOUS
    <2>2. Len(a) # 0  BY <1>4, <1>5
    <2> QED  BY <2>1, <2>2
  <1>7. scanner' = [scanner EXCEPT !.out = o]  BY <1>4, <1>5
  <1>8. handed' = Cat(handed, a)  BY <1>4, <1>5 DEF Cat
  <1> QED  BY <1>5, <1>6, <1>7, <1>8

\* The reader takes what it has room for.
LEMMA DrainKeeps ==
    ASSUME Inv, Drain
    PROVE  Inv'
  <1>1. /\ Typed /\ Faithful /\ phase = "polling" /\ phase' = "polling"
        /\ UNCHANGED <<source, wire, protocol, taken, reported>> /\ handed \in Bytes
    BY DEF Inv, Drain, Typed
  <1>2. PICK a \in Bytes, o \in Bytes :
            /\ scanner.out = Cat(a, o) /\ handed' = Cat(handed, a)
            /\ scanner' = [scanner EXCEPT !.out = o]
    BY <1>1, DrainCuts
  <1>3. PICK k \in Bytes : k = Cat(handed, a)  BY <1>1, CatBytes DEF Cat
  <1>4. Cat(handed, scanner.out) = Cat(k, o)
    <2>1. Cat(Cat(handed, a), o) = Cat(handed, Cat(a, o))  BY <1>1, CatAssoc DEF Bytes
    <2> QED  BY <2>1, <1>2, <1>3
  <1>5. Typed' /\ Faithful'  BY <1>1, <1>2, <1>3, <1>4, GiveKeeps
  <1> QED  BY <1>1, <1>5 DEF Inv, Early, Waking

\* What is pending is the reader's when it is taken.
LEMMA TakeKeeps ==
    ASSUME Inv, Take
    PROVE  Inv'
  <1>1. /\ Typed /\ Faithful /\ scanner \in ScannerType /\ scanner.blocks \in Seq(Bytes)
        /\ Len(scanner.blocks) <= 1 /\ scanner.sent \in Nat /\ reported \in Nat
        /\ taken \in Seq(Bytes) /\ handed \in Bytes
    BY DEF Inv, Typed, ScannerType
  <1>2. /\ phase' = "polling" /\ reported' = reported + scanner.sent
        /\ taken' = taken \o scanner.blocks
        /\ scanner' = [scanner EXCEPT !.blocks = <<>>, !.sent = 0]
        /\ UNCHANGED <<source, wire, protocol, handed>>
    BY DEF Take
  <1>3. PICK t : t = scanner'  OBVIOUS
  <1>4. /\ t \in ScannerType /\ t.blocks = <<>> /\ t.sent = 0 /\ t.state = scanner.state
        /\ t.part = scanner.part /\ t.remaining = scanner.remaining /\ t.out = scanner.out
        /\ t.hold = scanner.hold
    <2>1. PICK none \in Seq(Bytes) : none = <<>>
      <3>1. <<>> \in Seq(Bytes)  OBVIOUS
      <3> QED  BY <3>1
    <2>2. t = [scanner EXCEPT !.blocks = none, !.sent = 0]  BY <1>2, <1>3, <2>1
    <2>3. t \in ScannerType /\ t.blocks = none /\ t.sent = 0  BY <1>1, <2>2 DEF ScannerType
    <2>4. /\ t.state = scanner.state /\ t.part = scanner.part /\ t.hold = scanner.hold
          /\ t.remaining = scanner.remaining /\ t.out = scanner.out
      BY <1>1, <2>2 DEF ScannerType
    <2> QED  BY <2>1, <2>3, <2>4
  <1>5. Typed'
    <2>1. taken' \in Seq(Bytes)  BY <1>1, <1>2, ConcatProperties
    <2>2. reported' \in Nat  BY <1>1, <1>2
    <2>3. t \in ScannerType /\ Len(t.blocks) <= 1
      <3>1. Len(<<>>) = 0 /\ 0 <= 1  OBVIOUS
      <3> QED  BY <1>4, <3>1
    <2> QED  BY <1>1, <1>2, <1>3, <2>1, <2>2, <2>3 DEF Typed
  <1>6. Faithful'
    <2>1. ASSUME NEW d \in Seq(Updates), Len(d) = Len(taken)
          PROVE  \E e \in Seq(Updates) :
                    /\ Len(e) = Len(taken')
                    /\ Held(scanner', handed', reported', e)
                          = Held(scanner, handed, reported, d)
      <3>1. PICK e \in Seq(Updates) : e = Pending(scanner, handed, reported, d)
        <4>1. Ghost(scanner, handed, reported, d) \in Positions  BY <1>1, GhostType
        <4>2. Ghost(scanner, handed, reported, d).ups = Pending(scanner, handed, reported, d)
          BY <1>1, GhostFields
        <4> QED  BY <4>1, <4>2 DEF Positions
      <3>2. Len(e) = Len(taken')
        <4>1. Len(taken \o scanner.blocks) = Len(taken) + Len(scanner.blocks)
          BY <1>1, ConcatProperties
        <4>2. PICK n \in Nat : n = Len(taken) /\ n = Len(d)  BY <1>1, <2>1
        <4>3. CASE scanner.blocks = <<>>
          <5>1. Len(scanner.blocks) = 0 /\ e = d  BY <4>3, <3>1 DEF Pending
          <5>2. Len(taken \o scanner.blocks) = n  BY <4>1, <4>2, <5>1
          <5> QED  BY <5>1, <5>2, <4>2, <1>2
        <4>4. CASE scanner.blocks # <<>>
          <5>1. Len(scanner.blocks) = 1  BY <1>1, <4>4, BlocksOne
          <5>2. PICK u : e = Append(d, u)  BY <4>4, <3>1 DEF Pending
          <5>3. Len(e) = n + 1  BY <5>2, <4>2
          <5>4. Len(taken \o scanner.blocks) = n + 1  BY <4>1, <4>2, <5>1
          <5> QED  BY <5>3, <5>4, <1>2
        <4> QED  BY <4>3, <4>4
      <3>3. Ghost(t, handed, reported', e) = Ghost(scanner, handed, reported, d)
        <4>1. Pending(t, handed, reported', e) = e  BY <1>4 DEF Pending
        <4>2. reported' + t.sent = reported + scanner.sent  BY <1>1, <1>2, <1>4
        <4> QED  BY <1>4, <3>1, <4>1, <4>2 DEF Ghost
      <3>4. Held(t, handed, reported', e) = Held(scanner, handed, reported, d)
        BY <1>4, <3>3, HeldSame
      <3> QED  BY <1>2, <1>3, <3>2, <3>4
    <2> QED  BY <1>1, <1>2, <2>1, FaithfulSame
  <1> QED  BY <1>2, <1>5, <1>6 DEF Inv, Early, Waking

\* Where the stream begins.
LEMMA InitInv ==
    ASSUME Init
    PROVE  Inv
  <1>1. PICK in \in Inputs : wire = Stream(in).wire /\ source = Stream(in).source
    BY DEF Init
  <1>2. PICK v \in Streams : v = Stream(in) /\ Complete(v) /\ Awaited(v)
    BY StreamComplete
  <1>3. wire = v.wire /\ source = v.source /\ wire \in Bytes /\ source \in Sources
    BY <1>1, <1>2 DEF Streams
  <1>4. PICK none \in Bytes, no \in Seq(Bytes), un \in Seq(Updates) :
            none = <<>> /\ no = <<>> /\ un = <<>> /\ Len(no) = 0 /\ Len(un) = 0
    <2>1. <<>> \in Bytes /\ <<>> \in Seq(Bytes) /\ <<>> \in Seq(Updates) /\ Len(<<>>) = 0
      BY DEF Bytes
    <2> QED  BY <2>1
  <1>5. /\ scanner.state = "preface" /\ scanner.part = none /\ scanner.remaining = 0
        /\ scanner.out = none /\ scanner.hold = none /\ scanner.blocks = no
        /\ scanner.sent = 0 /\ scanner \in ScannerType
    <2>1. scanner = [state |-> "preface", part |-> none, remaining |-> 0, out |-> none,
                     hold |-> none, blocks |-> no, sent |-> 0]
      BY <1>4 DEF Init
    <2> QED  BY <2>1 DEF ScannerType, States
  <1>6. /\ phase = "protocol" /\ protocol = "unknown" /\ handed = none /\ taken = no
        /\ reported = 0
    BY <1>4 DEF Init
  <1>7. Typed
    <2>1. Len(scanner.blocks) <= 1  BY <1>4, <1>5
    <2> QED  BY <1>3, <1>5, <1>6, <2>1 DEF Typed
  <1>8. Ghost(scanner, <<>>, 0, <<>>) = Beginning
    <2>1. Cat(none, none) = none
      <3>1. Cat(none, <<>>) = none  BY CatBytes DEF Cat
      <3> QED  BY <3>1, <1>4
    <2>2. Pending(scanner, none, 0, un) = un  BY <1>4, <1>5 DEF Pending
    <2>3. 0 + scanner.sent = 0  BY <1>5
    <2> QED  BY <1>4, <1>5, <2>1, <2>2, <2>3 DEF Ghost, Beginning
  <1>9. Faithful
    <2>1. Held(scanner, none, 0, un) = Beginning
      <3>1. Held(scanner, none, 0, un) = Ghost(scanner, none, 0, un)
        <4>1. Len(scanner.blocks) <= 1 /\ scanner.hold = <<>> /\ 0 \in Nat
          BY <1>4, <1>5
        <4> QED  BY <4>1, <1>4, <1>5, HeldType
      <3> QED  BY <3>1, <1>4, <1>8
    <2>2. Ahead(un) = Fold(Reading, Beginning, v.wire)
      BY <1>3, <1>6, <2>1 DEF Ahead
    <2>3. Ends(Ahead(un))  BY <1>2, <1>3, <2>2 DEF Ends, Complete
    <2>4. Len(un) = Len(taken)  BY <1>4, <1>6
    <2> QED  BY <2>3, <2>4 DEF Faithful
  <1>10. Opening(Ghost(scanner, <<>>, 0, <<>>))
    BY <1>8, BeginningType DEF Opening, Beginning
  <1>11. Unread(Ghost(scanner, <<>>, 0, <<>>))
    <2>1. PICK e \in Bytes, r \in Bytes :
              /\ v.wire = Cat(e, r) /\ Len(r) = v.source.late
              /\ Fold(Reading, Beginning, e).ups = <<>>
      BY <1>2 DEF Awaited
    <2> QED  BY <2>1, <1>3, <1>8 DEF Unread
  <1>12. Fresh  BY <1>4, <1>5, <1>6 DEF Fresh
  <1>13. Waking  BY <1>6 DEF Waking
  <1> QED  BY <1>7, <1>9, <1>10, <1>11, <1>12, <1>13 DEF Inv, Early

\* Every step does.
LEMMA InvStep ==
    ASSUME Inv, [Next]_vars
    PROVE  Inv'
  <1>1. CASE ReadProtocol  BY <1>1, ReadProtocolKeeps
  <1>2. CASE ProtocolHttp1 \/ ProtocolHttp2 \/ Withhold \/ WaitForSocket \/ ReadEnd
             \/ UNCHANGED vars
    BY <1>2, QuietKeeps
  <1>3. CASE Handshake  BY <1>3, HandshakeKeeps
  <1>4. CASE Take  BY <1>4, TakeKeeps
  <1>5. CASE Drain  BY <1>5, DrainKeeps
  <1>6. CASE Rescan  BY <1>6, RescanKeeps
  <1>7. CASE ReadSocket  BY <1>7, ReadSocketKeeps
  <1> QED  BY <1>1, <1>2, <1>3, <1>4, <1>5, <1>6, <1>7 DEF Next, Progress

-----------------------------------------------------------------------------
(* Every step is one of the promise *)

\* From where the scanner is the reader gets to what the stream carries.
LEMMA Reach ==
    ASSUME Inv
    PROVE  \E d \in Seq(Updates) :
              /\ Len(d) = Len(taken)
              /\ Pending(scanner, handed, reported, d) \in Seq(Updates)
              /\ Later(Pending(scanner, handed, reported, d), source.updates,
                       Len(Cat(handed, scanner.out)), reported + scanner.sent)
              /\ \E o \in Bytes : source.bytes = Cat(Cat(handed, scanner.out), o)
              /\ source.sent >= reported + scanner.sent
  <1>1. /\ scanner \in ScannerType /\ Len(scanner.blocks) <= 1 /\ handed \in Bytes
        /\ reported \in Nat /\ wire \in Bytes /\ scanner.hold \in Bytes
    BY DEF Inv, Typed, ScannerType
  <1>2. PICK d \in Seq(Updates) : Len(d) = Len(taken) /\ Ends(Ahead(d))
    BY DEF Inv, Faithful
  <1>3. PICK x \in Positions : x = Ghost(scanner, handed, reported, d)
    BY <1>1, GhostType
  <1>4. PICK y \in Positions : y = Held(scanner, handed, reported, d)
    BY <1>1, HeldType
  <1>5. PICK z : z = Fold(Reading, y, wire)  OBVIOUS
  <1>6. Further(x, y)
    <2>1. y = Fold(Reading, x, scanner.hold)  BY <1>3, <1>4 DEF Held
    <2> QED  BY <2>1, <1>1, OnwardFold DEF Onward
  <1>7. Further(y, z)  BY <1>1, <1>5, OnwardFold DEF Onward
  <1>8. Further(z, Pass(z))  BY <1>7, FurtherPass DEF Further
  <1>9. Further(x, z)  BY <1>6, <1>7, FurtherTwice
  <1>10. Further(x, Pass(z))  BY <1>8, <1>9, FurtherTwice
  <1>11. z = Ahead(d)  BY <1>4, <1>5 DEF Ahead
  <1>12. /\ Pass(z).out = source.bytes /\ Pass(z).ups = source.updates
         /\ Pass(z).sent = source.sent
    BY <1>2, <1>11 DEF Ends
  <1>13. /\ x.out = Cat(handed, scanner.out) /\ x.sent = reported + scanner.sent
         /\ x.ups = Pending(scanner, handed, reported, d)
    BY <1>1, <1>3, GhostFields
  <1>14. x.ups \in Seq(Updates)  BY DEF Positions
  <1>15. Later(x.ups, Pass(z).ups, Len(x.out), x.sent)  BY <1>10 DEF Further
  <1>16. \E o \in Bytes : Pass(z).out = Cat(x.out, o)  BY <1>10 DEF Further
  <1>17. Pass(z).sent >= x.sent  BY <1>10 DEF Further
  <1> QED  BY <1>2, <1>12, <1>13, <1>14, <1>15, <1>16, <1>17

\* The update that is pending is the next one, in its place.
LEMMA PendingIsNext ==
    ASSUME Inv, scanner.blocks # <<>>
    PROVE  /\ Promise!Left
           /\ Promise!Upcoming.at = Len(Cat(handed, scanner.out))
           /\ Promise!Upcoming.block = scanner.blocks[1]
           /\ Promise!Upcoming.sent = reported + scanner.sent
  <1>1. PICK d \in Seq(Updates) :
            /\ Len(d) = Len(taken)
            /\ Pending(scanner, handed, reported, d) \in Seq(Updates)
            /\ Later(Pending(scanner, handed, reported, d), source.updates,
                     Len(Cat(handed, scanner.out)), reported + scanner.sent)
    BY Reach
  <1>2. PICK u : u = [at |-> Len(Cat(handed, scanner.out)), block |-> scanner.blocks[1],
                      sent |-> reported + scanner.sent]
    OBVIOUS
  <1>3. PICK p \in Seq(Updates) : p = Pending(scanner, handed, reported, d)  BY <1>1
  <1>4. p = Append(d, u)  BY <1>2, <1>3 DEF Pending
  <1>5. PICK n \in Nat : n = Len(d) /\ n = Len(taken)  BY <1>1
  <1>6. Len(p) = n + 1 /\ p[n + 1] = u
    <2>1. u \in Updates
      <3>1. scanner.blocks[1] \in Bytes  BY BlocksOne DEF Inv
      <3>2. /\ handed \in Bytes /\ scanner.out \in Bytes /\ reported \in Nat
            /\ scanner.sent \in Nat
        BY DEF Inv, Typed, ScannerType
      <3>3. PICK c \in Bytes : c = Cat(handed, scanner.out)  BY <3>2, CatBytes DEF Cat
      <3>4. Len(c) \in Nat  BY CatBytes
      <3>5. reported + scanner.sent \in Nat  BY <3>2
      <3> QED  BY <3>1, <3>3, <3>4, <3>5, <1>2 DEF Updates
    <2>2. /\ Len(Append(d, u)) = Len(d) + 1 /\ Append(d, u)[Len(d) + 1] = u
      BY <2>1, AppendProperties
    <2> QED  BY <2>2, <1>4, <1>5
  <1>7. Len(p) <= Len(source.updates) /\ \A i \in 1 .. Len(p) : source.updates[i] = p[i]
    BY <1>1, <1>3 DEF Later
  <1>8. PICK m \in Nat : m = Len(source.updates)
    <2>1. source.updates \in Seq(Updates)  BY DEF Inv, Typed, Sources
    <2> QED  BY <2>1
  <1>9. n < m /\ n + 1 \in 1 .. n + 1  BY <1>6, <1>7, <1>8
  <1>10. source.updates[n + 1] = u  BY <1>6, <1>7, <1>9
  <1>11. Promise!Left  BY <1>5, <1>8, <1>9 DEF Promise!Left
  <1>12. Promise!Upcoming = u  BY <1>5, <1>10 DEF Promise!Upcoming
  <1> QED  BY <1>2, <1>11, <1>12

\* Nothing that is behind the next update is out or reported before it is taken.
LEMMA Bounds ==
    ASSUME Inv
    PROVE  /\ Promise!Barrier \in Nat /\ Promise!Barrier >= Len(Cat(handed, scanner.out))
           /\ Promise!Told \in Nat /\ Promise!Told >= reported + scanner.sent
  <1>1. /\ handed \in Bytes /\ scanner.out \in Bytes /\ reported \in Nat
        /\ scanner.sent \in Nat /\ taken \in Seq(Bytes)
        /\ source.bytes \in Bytes /\ source.updates \in Seq(Updates) /\ source.sent \in Nat
    BY DEF Inv, Typed, ScannerType, Sources
  <1>2. PICK c \in Bytes : c = Cat(handed, scanner.out)  BY <1>1, CatBytes DEF Cat
  <1>3. PICK l \in Nat, k \in Nat, n \in Nat, m \in Nat :
            /\ l = Len(c) /\ k = reported + scanner.sent
            /\ n = Len(taken) /\ m = Len(source.updates)
    <2>1. Len(c) \in Nat  BY CatBytes
    <2>2. reported + scanner.sent \in Nat  BY <1>1
    <2>3. Len(taken) \in Nat /\ Len(source.updates) \in Nat  BY <1>1
    <2> QED  BY <2>1, <2>2, <2>3
  <1>4. PICK d \in Seq(Updates) :
            /\ Len(d) = Len(taken)
            /\ Later(Pending(scanner, handed, reported, d), source.updates, l, k)
            /\ \E o \in Bytes : source.bytes = Cat(c, o)
            /\ source.sent >= k
    BY <1>2, <1>3, Reach
  <1>5. CASE Promise!Left
    <2>1. n < m /\ Promise!Upcoming = source.updates[n + 1]
      BY <1>3, <1>5 DEF Promise!Left, Promise!Upcoming
    <2>2. PICK v \in Updates : v = source.updates[n + 1]
      <3>1. n + 1 \in 1 .. m  BY <2>1
      <3> QED  BY <3>1, <1>1, <1>3
    <2>3. v.at \in Nat /\ v.sent \in Nat  BY DEF Updates
    <2>4. v.at >= l /\ v.sent >= k
      <3>1. CASE scanner.blocks = <<>>
        <4>1. Pending(scanner, handed, reported, d) = d  BY <3>1 DEF Pending
        <4>2. \A i \in n + 1 .. m : source.updates[i].at >= l /\ source.updates[i].sent >= k
          BY <4>1, <1>3, <1>4 DEF Later
        <4>3. n + 1 \in n + 1 .. m  BY <2>1
        <4> QED  BY <4>2, <4>3, <2>2
      <3>2. CASE scanner.blocks # <<>>
        <4>1. v.at = l /\ v.sent = k
          BY <3>2, <1>2, <1>3, <2>1, <2>2, PendingIsNext
        <4> QED  BY <4>1
      <3> QED  BY <3>1, <3>2
    <2>5. Promise!Barrier = v.at /\ Promise!Told = v.sent
      BY <1>5, <2>1, <2>2 DEF Promise!Barrier, Promise!Told
    <2> QED  BY <2>3, <2>4, <2>5, <1>2, <1>3
  <1>6. CASE ~Promise!Left
    <2>1. Promise!Barrier = Len(source.bytes) /\ Promise!Told = source.sent
      BY <1>6 DEF Promise!Barrier, Promise!Told
    <2>2. PICK o \in Bytes : source.bytes = Cat(c, o)  BY <1>4
    <2>3. PICK j \in Nat : j = Len(o)  BY CatBytes
    <2>4. Len(source.bytes) = l + j  BY <2>2, <2>3, <1>3, CatLen
    <2>5. l + j \in Nat /\ l + j >= l  OBVIOUS
    <2> QED  BY <2>1, <2>4, <2>5, <1>1, <1>2, <1>3, <1>4
  <1> QED  BY <1>5, <1>6

\* What leaves the scanner is the next of the stream's bytes.
LEMMA HandsNext ==
    ASSUME Inv, NEW a \in Bytes, NEW o \in Bytes, a # <<>>, scanner.out = Cat(a, o),
           handed' = Cat(handed, a), UNCHANGED <<source, taken, reported>>
    PROVE  Promise!Hand
  <1>1. handed \in Bytes /\ scanner.out \in Bytes  BY DEF Inv, Typed, ScannerType
  <1>2. PICK k \in Bytes : k = Cat(handed, a)  BY <1>1, CatBytes DEF Cat
  <1>3. Cat(handed, scanner.out) = Cat(k, o)
    <2>1. Cat(Cat(handed, a), o) = Cat(handed, Cat(a, o))  BY <1>1, CatAssoc DEF Bytes
    <2> QED  BY <2>1, <1>2
  <1>4. PICK r \in Bytes : source.bytes = Cat(Cat(k, o), r)  BY <1>3, Reach
  <1>5. SubSeq(source.bytes, 1, Len(k)) = k
    <2>1. PICK w \in Bytes : w = Cat(o, r)  BY CatBytes DEF Cat
    <2>2. Cat(Cat(k, o), r) = Cat(k, Cat(o, r))  BY CatAssoc DEF Bytes
    <2> QED  BY <2>1, <2>2, <1>4, CatHead
  <1>6. PICK n \in Nat, i \in Nat, j \in Nat, b \in Nat :
            n = Len(handed) /\ i = Len(a) /\ j = Len(o) /\ b = Promise!Barrier
    BY <1>1, CatBytes, Bounds
  <1>7. i # 0  BY <1>6, EmptySeq DEF Bytes
  <1>8. Len(k) = n + i  BY <1>1, <1>2, <1>6, CatLen
  <1>9. Len(Cat(k, o)) = (n + i) + j  BY <1>6, <1>8, CatLen
  <1>10. b >= (n + i) + j  BY <1>3, <1>6, <1>9, Bounds
  <1>11. n + i \in n + 1 .. b  BY <1>7, <1>10
  <1>12. Len(k) \in Len(handed) + 1 .. Promise!Barrier  BY <1>6, <1>8, <1>11
  <1> QED  BY <1>2, <1>5, <1>12 DEF Promise!Hand

\* serve_h2 takes the next update when everything in front of it was given out.
LEMMA TakesNext ==
    ASSUME Inv, Take
    PROVE  Promise!Update \/ Promise!Report \/ UNCHANGED <<source, handed, taken, reported>>
  <1>1. /\ phase = "woken" /\ reported' = reported + scanner.sent
        /\ taken' = taken \o scanner.blocks /\ UNCHANGED <<source, handed>>
    BY DEF Take
  <1>2. /\ handed \in Bytes /\ taken \in Seq(Bytes) /\ reported \in Nat
        /\ scanner.sent \in Nat /\ Typed
    BY DEF Inv, Typed, ScannerType
  <1>3. CASE scanner.blocks # <<>>
    <2>1. /\ Promise!Left /\ Promise!Upcoming.block = scanner.blocks[1]
          /\ Promise!Upcoming.at = Len(Cat(handed, scanner.out))
          /\ Promise!Upcoming.sent = reported + scanner.sent
      BY <1>3, PendingIsNext
    <2>2. Len(handed) = Promise!Barrier
      <3>1. scanner.out = <<>>  BY <1>1, <1>3 DEF Inv, Waking
      <3>2. Cat(handed, <<>>) = handed  BY <1>2, CatBytes DEF Cat
      <3> QED  BY <2>1, <3>1, <3>2 DEF Promise!Barrier
    <2>3. taken' = Append(taken, Promise!Upcoming.block)
      <3>1. PICK q \in Bytes : q = scanner.blocks[1] /\ scanner.blocks = <<q>>
        BY <1>2, <1>3, BlocksOne
      <3>2. taken \o <<q>> = Append(taken, q)  BY <1>2
      <3> QED  BY <3>1, <3>2, <1>1, <2>1
    <2>4. reported' = Promise!Told  BY <1>1, <2>1 DEF Promise!Told
    <2> QED  BY <1>1, <2>1, <2>2, <2>3, <2>4 DEF Promise!Update
  <1>4. CASE scanner.blocks = <<>> /\ scanner.sent = 0
    <2>1. taken \o <<>> = taken  BY <1>2
    <2>2. taken' = taken  BY <1>1, <1>4, <2>1
    <2>3. reported' = reported  BY <1>1, <1>2, <1>4
    <2> QED  BY <1>1, <2>2, <2>3
  <1>5. CASE scanner.blocks = <<>> /\ scanner.sent # 0
    <2>1. taken \o <<>> = taken  BY <1>2
    <2>2. taken' = taken  BY <1>1, <1>5, <2>1
    <2>3. PICK t \in Nat : t = Promise!Told /\ t >= reported + scanner.sent  BY Bounds
    <2>4. reported' \in reported + 1 .. t  BY <1>1, <1>2, <1>5, <2>3
    <2> QED  BY <1>1, <2>2, <2>3, <2>4 DEF Promise!Report
  <1> QED  BY <1>3, <1>4, <1>5

\* Handing out and taking are steps of the promise, all others none.
LEMMA PromiseStep ==
    ASSUME Inv, [Next]_vars
    PROVE  [Promise!Hand \/ Promise!Report \/ Promise!Update]_
              <<source, handed, taken, reported>>
  <1>1. CASE Handshake
    <2>1. /\ handed = <<>> /\ handed' = Preface /\ UNCHANGED <<source, taken, reported>>
      BY <1>1, HandshakePreface DEF Handshake
    <2>2. PICK o \in Bytes : scanner.out = Cat(Preface, o)  BY <1>1, HandshakePreface
    <2>3. Preface \in Bytes /\ Preface # <<>>
      <3>1. Len(<<>>) = 0  OBVIOUS
      <3> QED  BY <3>1, Constants
    <2>4. Cat(<<>>, Preface) = Preface  BY <2>3, CatBytes DEF Cat
    <2>5. handed' = Cat(handed, Preface)  BY <2>1, <2>4
    <2> QED  BY <2>1, <2>2, <2>3, <2>5, HandsNext
  <1>2. CASE Drain
    <2>1. PICK a \in Bytes, o \in Bytes :
              a # <<>> /\ scanner.out = Cat(a, o) /\ handed' = Cat(handed, a)
      BY <1>2, DrainCuts DEF Inv
    <2>2. UNCHANGED <<source, taken, reported>>  BY <1>2 DEF Drain
    <2> QED  BY <2>1, <2>2, HandsNext
  <1>3. CASE Take
    BY <1>3, TakesNext
  <1>4. CASE ReadProtocol \/ ProtocolHttp1 \/ ProtocolHttp2 \/ Withhold \/ Rescan
             \/ ReadEnd \/ ReadSocket \/ WaitForSocket \/ UNCHANGED vars
    <2>1. UNCHANGED <<source, handed, taken, reported>>
      BY <1>4 DEF ReadProtocol, ProtocolHttp1, ProtocolHttp2, Withhold, Rescan, ReadEnd,
                  ReadSocket, WaitForSocket, Read, vars
    <2> QED  BY <2>1
  <1> QED  BY <1>1, <1>2, <1>3, <1>4 DEF Next, Progress

-----------------------------------------------------------------------------
(* What is proved *)

\* Typed, Faithful, Early and Waking hold in every state.
LEMMA Invariance == Spec => []Inv
  <1>1. Init => Inv  BY InitInv
  <1>2. Inv /\ [Next]_vars => Inv'  BY InvStep
  <1> QED  BY <1>1, <1>2, PTL DEF Spec

\* Whatever arrives, the handles hold one update at most and what remains of a payload
\* never goes below zero: the scanner stops at an update and leaves a payload with its
\* last byte.
THEOREM TypeCorrect == Spec => []TypeOK
  <1>1. Inv => TypeOK
    BY DEF Inv, Typed, TypeOK, ScannerType, States, Bytes
  <1> QED  BY <1>1, Invariance, PTL

\* For every stream, all chunks it is read in and all the room its reader has: the
\* reader gets the client's bytes and nothing else, each update when it has all that
\* is in front of it and nothing of what is behind, and reports no later than that.
THEOREM FilterImplemented == Spec => ImplementsFilter
  <1>1. Init => Promise!Init  BY DEF Init, Promise!Init
  <1>2. Inv /\ [Next]_vars
            => [Promise!Hand \/ Promise!Report \/ Promise!Update]_
                  <<source, handed, taken, reported>>
    BY PromiseStep
  <1> QED  BY <1>1, <1>2, Invariance, PTL DEF Spec, ImplementsFilter, Promise!Spec

=============================================================================
