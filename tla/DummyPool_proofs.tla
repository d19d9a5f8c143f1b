-------------------------- MODULE DummyPool_proofs --------------------------
(***************************************************************************)
(* Where the dummies are: the types of the pool, that a dummy is lent once *)
(* at a time, that none vanishes and that the pool implements              *)
(* DummyLending; and what they carry, at the end.  For every number of     *)
(* sockets, keys and dummies and every capacity, quarantine and delay the  *)
(* assumptions allow.                                                      *)
(***************************************************************************)
EXTENDS DummyPool, TLAPS

-----------------------------------------------------------------------------
(* Sequences *)

\* What the two operations of a FIFO queue make of its elements.
LEMMA AppendFacts ==
    ASSUME NEW S, NEW q \in Seq(S), NEW e \in S
    PROVE  /\ Append(q, e) \in Seq(S)
           /\ Len(Append(q, e)) = Len(q) + 1
           /\ DOMAIN Append(q, e) = 1 .. Len(q) + 1
           /\ \A i \in 1 .. Len(q) : Append(q, e)[i] = q[i]
           /\ Append(q, e)[Len(q) + 1] = e
  OBVIOUS

\* What is left of a queue after its front was taken, by position.
LEMMA TailFacts ==
    ASSUME NEW S, NEW q \in Seq(S), q # <<>>
    PROVE  /\ Head(q) \in S /\ Head(q) = q[1]
           /\ Tail(q) \in Seq(S)
           /\ Len(Tail(q)) = Len(q) - 1 /\ Len(q) \in Nat /\ Len(q) > 0
           /\ DOMAIN Tail(q) = 1 .. Len(q) - 1
           /\ \A i \in 1 .. Len(q) - 1 : Tail(q)[i] = q[i + 1]
  OBVIOUS

\* What the recycler appends to its queue: every index of the ring, at age 0.
LEMMA CollectFacts ==
    ASSUME NEW q \in Seq(Waiting), NEW r \in Seq(Dummies), Quarantine \in Nat,
           NEW new, new = [i \in DOMAIN r |-> [idx |-> r[i], age |-> 0]]
    PROVE  /\ q \o new \in Seq(Waiting)
           /\ DOMAIN (q \o new) = 1 .. Len(q) + Len(r)
           /\ \A i \in 1 .. Len(q) : (q \o new)[i] = q[i]
           /\ \A i \in 1 .. Len(r) :
                 (q \o new)[Len(q) + i] = [idx |-> r[i], age |-> 0]
  <1>1. DOMAIN r = 1 .. Len(r) /\ Len(r) \in Nat
    OBVIOUS
  <1>2. \A i \in DOMAIN r : r[i] \in Dummies
    OBVIOUS
  <1>3. \A i \in DOMAIN r : [idx |-> r[i], age |-> 0] \in Waiting
    BY <1>2 DEF Waiting
  <1>4. new \in Seq(Waiting) /\ Len(new) = Len(r) /\ DOMAIN new = 1 .. Len(r)
    BY <1>1, <1>3
  <1>10. Len(q) \in Nat /\ DOMAIN q = 1 .. Len(q) /\ Len(q \o new) = Len(q) + Len(r)
    BY <1>4
  <1>5. q \o new \in Seq(Waiting)
    BY <1>4
  <1>6. DOMAIN (q \o new) = 1 .. Len(q) + Len(r)
    BY <1>5, <1>10
  <1>7. \A i \in 1 .. Len(q) : (q \o new)[i] = q[i]
    BY <1>4
  <1>8. \A i \in 1 .. Len(r) : (q \o new)[Len(q) + i] = new[i]
    BY <1>4
  <1>9. \A i \in 1 .. Len(r) : new[i] = [idx |-> r[i], age |-> 0]
    BY <1>1
  <1> QED
    BY <1>5, <1>6, <1>7, <1>8, <1>9

-----------------------------------------------------------------------------
(* The control state: what the actors hold where they are *)

\* TypeOK is not inductive: that a callback or the recycler has a dummy where
\* it uses one follows from where it is.
Control ==
    /\ \A s \in Socks : local[s] # None <=> sock[s] \in {"adding", "closing"}
    /\ \A s \in Socks : sock[s] = "open" => conn_dummy[KeyOf[s]] # None
    /\ \A k \in Keys : conn_dummy[k] # None =>
          \E s \in Socks : sock[s] = "open" /\ KeyOf[s] = k
    /\ \A s, t \in Socks : Live(s) /\ Live(t) /\ KeyOf[s] = KeyOf[t] => s = t
    /\ \A d \in Dummies : dummy_owners[d].active => dummy_owners[d].conn # None
    /\ resetting # None <=> rpc \in {"delete", "take_error", "update", "table", "free"}

TypeInv == TypeOK /\ Control

USE KeyAssumption, NoneAssumption, BoundsAssumption

\* The pool starts well typed, with nobody holding a dummy.
LEMMA InitType == Init => TypeInv
  <1> SUFFICES ASSUME Init PROVE TypeInv
    OBVIOUS
  <1>1. \A i \in 1 .. NumDummies : i - 1 \in Dummies
    BY DEF Dummies
  <1>2. free_dummies \in Seq(Dummies)
    BY <1>1 DEF Init
  <1>3. TypeOK
    BY <1>2 DEF Init, TypeOK
  <1>4. Control
    BY DEF Init, Control, Live
  <1> QED
    BY <1>3, <1>4 DEF TypeInv

\* A sockops callback or skb_verdict keeps the types: what it stores and releases
\* is a dummy it holds.
LEMMA ConnType ==
    ASSUME TypeInv, NEW s \in Socks,
           AddConnPlain(s) \/ AddConnPop(s) \/ RemoveConnTake(s) \/ ClosePlain(s)
             \/ Callback(s) \/ SkbData(s)
    PROVE  TypeOK'
  <1> USE DEF TypeInv, TypeOK, connVars, msgVars, poolVars, recyclerVars
  <1>1. CASE AddConnPlain(s)
    BY <1>1 DEF AddConnPlain
  <1>2. CASE AddConnPop(s)
    BY <1>2, TailFacts DEF AddConnPop, AddConnTakes
  <1>3. CASE RemoveConnTake(s)
    BY <1>3 DEF RemoveConnTake, Control
  <1>4. CASE ClosePlain(s)
    BY <1>4 DEF ClosePlain
  <1>5. CASE AddConnDone(s)
    BY <1>5 DEF AddConnDone
  <1>6. CASE AddConnRelease(s)
    BY <1>6, AppendFacts DEF AddConnRelease, AddConnUndo, Control
  <1>7. CASE RemoveConnRelease(s)
    <2>1. local[s] \in Dummies
      BY <1>7 DEF RemoveConnRelease, Forget, Control
    <2>2. released_dummies' \in Seq(Dummies) /\ Len(released_dummies') <= RingCap
      <3>1. CASE Len(released_dummies) < RingCap
        <4>1. released_dummies' = Append(released_dummies, local[s])
          BY <1>7, <3>1 DEF RemoveConnRelease
        <4>2. released_dummies \in Seq(Dummies) /\ Len(released_dummies) \in Nat
          OBVIOUS
        <4>3. /\ released_dummies' \in Seq(Dummies)
              /\ Len(released_dummies') = Len(released_dummies) + 1
          BY <2>1, <4>1, <4>2, AppendFacts
        <4> QED
          BY <3>1, <4>2, <4>3
      <3>2. CASE ~(Len(released_dummies) < RingCap)
        BY <1>7, <3>2 DEF RemoveConnRelease
      <3> QED
        BY <3>1, <3>2
    <2> QED
      BY <1>7, <2>1, <2>2 DEF RemoveConnRelease, Forget
  <1>8. CASE SkbData(s)
    BY <1>8, AppendFacts DEF SkbData
  <1> QED
    BY <1>1, <1>2, <1>3, <1>4, <1>5, <1>6, <1>7, <1>8 DEF Callback

\* A sockops callback leaves every socket holding a dummy where, and only where,
\* its place in the callback says so.
LEMMA ConnControl ==
    ASSUME TypeInv, NEW s \in Socks,
           AddConnPlain(s) \/ AddConnPop(s) \/ RemoveConnTake(s) \/ ClosePlain(s)
             \/ Callback(s) \/ SkbData(s)
    PROVE  Control'
  <1> USE DEF TypeInv, TypeOK, Control, Live, connVars, msgVars, poolVars, recyclerVars
  <1>1. CASE AddConnPlain(s)
    BY <1>1 DEF AddConnPlain, Acceptable
  <1>2. CASE AddConnPop(s)
    BY <1>2, TailFacts DEF AddConnPop, AddConnTakes, Acceptable
  <1>3. CASE RemoveConnTake(s)
    <2>1. KeyOf[s] \in Keys /\ conn_dummy[KeyOf[s]] \in Dummies
      BY <1>3 DEF RemoveConnTake
    <2>2. \A t \in Socks : sock'[t] = "open" => KeyOf[t] # KeyOf[s]
      BY <1>3 DEF RemoveConnTake
    <2>3. \A d \in Dummies : dummy_owners'[d].active => dummy_owners'[d].conn # None
      BY <1>3, <2>1 DEF RemoveConnTake
    <2>4. \A k \in Keys : conn_dummy'[k] # None =>
            \E t \in Socks : sock'[t] = "open" /\ KeyOf[t] = k
      BY <1>3, <2>1 DEF RemoveConnTake
    <2>5. \A t, u \in Socks : Live(t)' /\ Live(u)' /\ KeyOf[t] = KeyOf[u] => t = u
      BY <1>3 DEF RemoveConnTake
    <2>6. \A t \in Socks : local'[t] # None <=> sock'[t] \in {"adding", "closing"}
      BY <1>3, <2>1 DEF RemoveConnTake
    <2>7. \A t \in Socks : sock'[t] = "open" => conn_dummy'[KeyOf[t]] # None
      BY <1>3, <2>1, <2>2 DEF RemoveConnTake
    <2> QED
      BY <1>3, <2>3, <2>4, <2>5, <2>6, <2>7 DEF RemoveConnTake
  <1>4. CASE ClosePlain(s)
    BY <1>4 DEF ClosePlain
  <1>5. CASE AddConnDone(s)
    BY <1>5 DEF AddConnDone
  <1>6. CASE AddConnRelease(s)
    <2>1. KeyOf[s] \in Keys /\ local[s] \in Dummies
      BY <1>6 DEF AddConnRelease, AddConnUndo
    <2>2. \A t \in Socks : sock'[t] = "open" => KeyOf[t] # KeyOf[s]
      BY <1>6 DEF AddConnRelease, AddConnUndo
    <2>3. \A d \in Dummies : dummy_owners'[d].active => dummy_owners'[d].conn # None
      BY <1>6, <2>1 DEF AddConnRelease, AddConnUndo
    <2>4. \A k \in Keys : conn_dummy'[k] # None =>
            \E t \in Socks : sock'[t] = "open" /\ KeyOf[t] = k
      BY <1>6, <2>1 DEF AddConnRelease, AddConnUndo
    <2>5. \A t, u \in Socks : Live(t)' /\ Live(u)' /\ KeyOf[t] = KeyOf[u] => t = u
      BY <1>6 DEF AddConnRelease, AddConnUndo
    <2>6. \A t \in Socks : local'[t] # None <=> sock'[t] \in {"adding", "closing"}
      BY <1>6, <2>1 DEF AddConnRelease, AddConnUndo
    <2>7. \A t \in Socks : sock'[t] = "open" => conn_dummy'[KeyOf[t]] # None
      BY <1>6, <2>1, <2>2 DEF AddConnRelease, AddConnUndo
    <2> QED
      BY <1>6, <2>3, <2>4, <2>5, <2>6, <2>7 DEF AddConnRelease, AddConnUndo
  <1>7. CASE RemoveConnRelease(s)
    BY <1>7 DEF RemoveConnRelease, Forget
  <1>8. CASE SkbData(s)
    BY <1>8 DEF SkbData
  <1> QED
    BY <1>1, <1>2, <1>3, <1>4, <1>5, <1>6, <1>7, <1>8 DEF Callback

\* What msg_verdict writes for its connection is of the right type.
LEMMA TracksType ==
    ASSUME NEW d \in Dummies, Tracks(d), verdict[d].from \in Socks,
           conn_state \in [Keys -> Socks \cup {None}],
           dyn_table \in [Dummies -> SUBSET Socks]
    PROVE  /\ conn_state' \in [Keys -> Socks \cup {None}]
           /\ dyn_table' \in [Dummies -> SUBSET Socks]
  <1>1. conn_state' \in [Keys -> Socks \cup {None}]
    BY DEF Tracks
  <1>2. dyn_table' \in [Dummies -> SUBSET Socks]
    BY DEF Tracks
  <1> QED
    BY <1>1, <1>2

\* A worker's step keeps the types and nobody's hold on a dummy.
LEMMA WorkerType ==
    ASSUME TypeInv, NEW d \in Dummies, Worker(d)
    PROVE  TypeInv'
  <1> USE DEF TypeInv, TypeOK, connVars, poolVars, recyclerVars
  <1>1. CASE MsgBegin(d)
    <2>1. Head(backlog[d]) \in Socks /\ Tail(backlog[d]) \in Seq(Socks)
      BY <1>1, TailFacts DEF MsgBegin, Sends
    <2>2. dummy_owners[d].conn \in Keys
      BY <1>1 DEF MsgBegin, Control
    <2> QED
      BY <1>1, <2>1, <2>2 DEF MsgBegin, Run, Control, Live
  <1>2. CASE MsgApplied(d)
    <2>1. Head(backlog[d]) \in Socks /\ Tail(backlog[d]) \in Seq(Socks)
      BY <1>2, TailFacts DEF MsgApplied, Sends
    <2>2. apply[d] \in Socks
      BY <1>2 DEF MsgApplied
    <2>3. got' \in [Socks -> SUBSET Socks]
      BY <1>2, <2>1, <2>2 DEF MsgApplied
    <2>4. apply' \in [Dummies -> Socks \cup {None}]
      BY <1>2 DEF MsgApplied
    <2>5. backlog' \in [Dummies -> Seq(Socks)]
      BY <1>2, <2>1 DEF MsgApplied
    <2>6. TypeOK'
      BY <1>2, <2>3, <2>4, <2>5 DEF MsgApplied
    <2> QED
      BY <1>2, <2>6 DEF MsgApplied, Control, Live
  <1>3. CASE MsgFails(d)
    BY <1>3 DEF MsgFails, Control, Live
  <1>4. CASE MsgRedirect(d)
    <2>1. verdict[d].key \in Keys /\ verdict[d].from \in Socks
      BY <1>4 DEF MsgRedirect, Run
    <2>2. sock_map[verdict[d].key] \in Socks
      BY <1>4, <2>1 DEF MsgRedirect
    <2>3. got' \in [Socks -> SUBSET Socks]
      BY <1>4, <2>1, <2>2 DEF MsgRedirect
    <2>4. apply' \in [Dummies -> Socks \cup {None}]
      BY <1>4, <2>2 DEF MsgRedirect
    <2>5. /\ conn_state' \in [Keys -> Socks \cup {None}]
          /\ dyn_table' \in [Dummies -> SUBSET Socks]
      BY <1>4, <2>1, TracksType DEF MsgRedirect
    <2>6. TypeOK'
      BY <1>4, <2>3, <2>4, <2>5 DEF MsgRedirect
    <2> QED
      BY <1>4, <2>6 DEF MsgRedirect, Control, Live
  <1>5. CASE MsgDrop(d)
    <2>1. verdict[d].key \in Keys /\ verdict[d].from \in Socks
      BY <1>5 DEF MsgDrop, Run
    <2>2. /\ conn_state' \in [Keys -> Socks \cup {None}]
          /\ dyn_table' \in [Dummies -> SUBSET Socks]
      BY <1>5, <2>1, TracksType DEF MsgDrop
    <2>3. TypeOK'
      BY <1>5, <2>2 DEF MsgDrop
    <2> QED
      BY <1>5, <2>3 DEF MsgDrop, Control, Live
  <1> QED
    BY <1>1, <1>2, <1>3, <1>4, <1>5 DEF Worker

\* Aging keeps the queue's length and its indices.
LEMMA TickFacts ==
    ASSUME quarantine \in Seq(Waiting), Tick
    PROVE  /\ quarantine' \in Seq(Waiting)
           /\ DOMAIN quarantine' = DOMAIN quarantine
           /\ \A i \in DOMAIN quarantine :
                 /\ quarantine'[i].idx = quarantine[i].idx
                 /\ quarantine[i].age >= MaxDelay => Quiet(quarantine[i].idx)
  <1> DEFINE Older(w) == [idx |-> w.idx, age |-> IF w.age < Quarantine
                                                 THEN w.age + 1 ELSE Quarantine]
  <1>1. quarantine' = [i \in DOMAIN quarantine |-> Older(quarantine[i])]
    BY DEF Tick
  <1>2. \A w \in Waiting : Older(w) \in Waiting /\ Older(w).idx = w.idx
    BY DEF Waiting
  <1>3. \A i \in DOMAIN quarantine : quarantine[i] \in Waiting
    OBVIOUS
  <1>4. DOMAIN quarantine = 1 .. Len(quarantine) /\ Len(quarantine) \in Nat
    OBVIOUS
  <1> HIDE DEF Older
  <1>5. \A i \in DOMAIN quarantine : Older(quarantine[i]) \in Waiting
    BY <1>2, <1>3
  <1>6. quarantine' \in Seq(Waiting)
    BY <1>1, <1>4, <1>5
  <1> QED
    BY <1>1, <1>2, <1>3, <1>6 DEF Tick

\* A step of the recycler, or a tick, keeps the types: the recycler holds a dummy
\* exactly while it resets one.
LEMMA RecyclerType ==
    ASSUME TypeInv, Tick \/ Recycle \/ RecyclerEnds
    PROVE  TypeInv'
  <1> USE DEF TypeInv, TypeOK, connVars, msgVars, poolVars, recyclerVars
  <1>1. CASE Tick
    BY <1>1, TickFacts DEF Tick, Control, Live
  <1>2. CASE Poll
    BY <1>2, CollectFacts DEF Poll, Collect, Control, Live
  <1>3. CASE RecyclerEnds
    BY <1>3 DEF RecyclerEnds, Control, Live
  <1>4. CASE Drain
    <2>1. Head(quarantine) \in Waiting /\ Tail(quarantine) \in Seq(Waiting)
      BY <1>4, TailFacts DEF Drain, ResetNext
    <2>2. Head(quarantine).idx \in Dummies
      BY <2>1 DEF Waiting
    <2> QED
      BY <1>4, <2>1, <2>2 DEF Drain, ResetNext, Control, Live
  <1>5. CASE DrainEnds
    BY <1>5 DEF DrainEnds, Control, Live
  <1>6. CASE ResetDelete
    <2>1. CASE verdict[resetting] = None
      <3>1. resetting \in Dummies
        BY <1>6 DEF ResetDelete
      <3>2. /\ tx' = [tx EXCEPT ![resetting] = FALSE]
            /\ backlog' = [backlog EXCEPT ![resetting] = <<>>]
            /\ apply' = [apply EXCEPT ![resetting] = None]
        BY <1>6, <2>1 DEF ResetDelete
      <3>3. tx' \in [Dummies -> BOOLEAN]
        BY <3>2
      <3>4. backlog' \in [Dummies -> Seq(Socks)]
        <4>1. <<>> \in Seq(Socks)
          OBVIOUS
        <4>2. backlog \in [Dummies -> Seq(Socks)]
          OBVIOUS
        <4> HIDE DEF TypeOK
        <4> QED
          BY <3>2, <4>1, <4>2, Zenon
      <3>5. apply' \in [Dummies -> Socks \cup {None}]
        BY <3>2
      <3>6. TypeOK'
        BY <1>6, <3>3, <3>4, <3>5 DEF ResetDelete
      <3> QED
        BY <1>6, <3>6 DEF ResetDelete, Control, Live
    <2>2. CASE verdict[resetting] # None
      BY <1>6, <2>2 DEF ResetDelete, Control, Live
    <2> QED
      BY <2>1, <2>2
  <1>7. CASE ResetTakeError
    BY <1>7 DEF ResetTakeError, Control, Live
  <1>8. CASE ResetUpdate
    BY <1>8 DEF ResetUpdate, Control, Live
  <1>9. CASE ResetTable
    BY <1>9 DEF ResetTable, Control, Live
  <1>10. CASE ResetFree
    BY <1>10, AppendFacts DEF ResetFree, ResetDone, Control, Live
  <1>11. CASE ResetFails
    BY <1>11 DEF ResetFails, ResetDone, Control, Live
  <1> QED
    BY <1>1, <1>2, <1>3, <1>4, <1>5, <1>6, <1>7, <1>8, <1>9, <1>10, <1>11 DEF Recycle

\* A stuttering step keeps the types.
LEMMA StutterType == TypeInv /\ UNCHANGED vars => TypeInv'
  BY DEF TypeInv, TypeOK, Control, Live, vars, connVars, msgVars, poolVars, recyclerVars

\* Every variable stays within its type, in every behaviour of the pool.
THEOREM TypeCorrect == Spec => []TypeOK
  <1>1. TypeInv /\ [Next]_vars => TypeInv'
    BY ConnType, ConnControl, WorkerType, RecyclerType, StutterType DEF Next, TypeInv
  <1>2. TypeInv => TypeOK
    BY DEF TypeInv
  <1> QED
    BY InitType, <1>1, <1>2, PTL DEF Spec
-----------------------------------------------------------------------------
(* Exclusive lending *)

Occurs(e, q) == \E i \in DOMAIN q : q[i] = e

\* The front of a queue without repeats is in it once.
LEMMA PopPlace ==
    ASSUME NEW S, NEW q \in Seq(S), q # <<>>, NoRepeats(q)
    PROVE  /\ NoRepeats(Tail(q))
           /\ Occurs(Head(q), q)
           /\ \A e : Occurs(e, Tail(q)) => Occurs(e, q) /\ e # Head(q)
  <1>1. DOMAIN q = 1 .. Len(q) /\ Len(q) \in Nat /\ Len(q) > 0
    OBVIOUS
  <1> QED
    BY <1>1, TailFacts DEF NoRepeats, Occurs

\* A queue stays without repeats when something new is pushed.
LEMMA PushPlace ==
    ASSUME NEW S, NEW q \in Seq(S), NEW e \in S, NoRepeats(q), ~Occurs(e, q)
    PROVE  /\ NoRepeats(Append(q, e))
           /\ \A x : Occurs(x, Append(q, e)) => Occurs(x, q) \/ x = e
  <1>1. DOMAIN q = 1 .. Len(q) /\ Len(q) \in Nat
    OBVIOUS
  <1>2. DOMAIN Append(q, e) = 1 .. Len(q) + 1
    BY AppendFacts
  <1>3. \A i \in 1 .. Len(q) : Append(q, e)[i] = q[i] /\ q[i] # e
    BY <1>1, AppendFacts DEF Occurs
  <1>4. Append(q, e)[Len(q) + 1] = e
    BY AppendFacts
  <1>5. \A i \in 1 .. Len(q) + 1 : i \in 1 .. Len(q) \/ i = Len(q) + 1
    BY <1>1
  <1> QED
    BY <1>1, <1>2, <1>3, <1>4, <1>5 DEF NoRepeats, Occurs

\* The recycler's queue loses its front, or gains what the ring holds.
LEMMA DrainPlace ==
    ASSUME TypeInv, NoSharing, quarantine # <<>>, quarantine' = Tail(quarantine)
    PROVE  /\ \A i, j \in DOMAIN quarantine' :
                 quarantine'[i].idx = quarantine'[j].idx => i = j
           /\ Waits(Head(quarantine).idx)
           /\ \A d \in Dummies : Waits(d)' => Waits(d) /\ d # Head(quarantine).idx
  <1>1. quarantine \in Seq(Waiting)
    BY DEF TypeInv, TypeOK
  <1>2. DOMAIN quarantine = 1 .. Len(quarantine) /\ Len(quarantine) \in Nat
    BY <1>1
  <1> QED
    BY <1>1, <1>2, TailFacts DEF NoSharing, Waits

\* What is collected from the ring waits once, and only what was in the ring or
\* waited before waits.
LEMMA CollectPlace ==
    ASSUME TypeInv, NoSharing, OnePlace, Collect
    PROVE  /\ \A i, j \in DOMAIN quarantine' :
                 quarantine'[i].idx = quarantine'[j].idx => i = j
           /\ \A d \in Dummies : Waits(d)' => Waits(d) \/ InRing(d)
  <1>1. quarantine \in Seq(Waiting) /\ released_dummies \in Seq(Dummies)
    BY DEF TypeInv, TypeOK
  <1>2. /\ DOMAIN quarantine = 1 .. Len(quarantine) /\ Len(quarantine) \in Nat
        /\ DOMAIN released_dummies = 1 .. Len(released_dummies)
        /\ Len(released_dummies) \in Nat
    BY <1>1
  <1>3. /\ DOMAIN quarantine' = 1 .. Len(quarantine) + Len(released_dummies)
        /\ \A i \in 1 .. Len(quarantine) : quarantine'[i] = quarantine[i]
        /\ \A i \in 1 .. Len(released_dummies) :
              quarantine'[Len(quarantine) + i].idx = released_dummies[i]
    BY <1>1, CollectFacts DEF Collect
  <1>4. \A i \in DOMAIN quarantine' :
           \/ i \in 1 .. Len(quarantine) /\ quarantine'[i].idx = quarantine[i].idx
           \/ /\ i - Len(quarantine) \in 1 .. Len(released_dummies)
              /\ quarantine'[i].idx = released_dummies[i - Len(quarantine)]
    <2> SUFFICES ASSUME NEW i \in DOMAIN quarantine', i \notin 1 .. Len(quarantine)
                 PROVE  /\ i - Len(quarantine) \in 1 .. Len(released_dummies)
                        /\ quarantine'[i].idx = released_dummies[i - Len(quarantine)]
      BY <1>3
    <2>1. i - Len(quarantine) \in 1 .. Len(released_dummies)
      BY <1>2, <1>3
    <2>2. Len(quarantine) + (i - Len(quarantine)) = i
      BY <1>2, <1>3
    <2> QED
      BY <1>3, <2>1, <2>2
  <1>5. \A i \in 1 .. Len(quarantine), j \in 1 .. Len(released_dummies) :
           quarantine[i].idx # released_dummies[j]
    <2> SUFFICES ASSUME NEW i \in 1 .. Len(quarantine),
                        NEW j \in 1 .. Len(released_dummies),
                        quarantine[i].idx = released_dummies[j]
                 PROVE  FALSE
      OBVIOUS
    <2>1. released_dummies[j] \in Dummies
      BY <1>1, <1>2
    <2>2. Waits(released_dummies[j]) /\ InRing(released_dummies[j])
      BY <1>2 DEF Waits, InRing
    <2> QED
      BY <2>1, <2>2 DEF OnePlace
  <1>6. \A i, j \in DOMAIN quarantine' : quarantine'[i].idx = quarantine'[j].idx => i = j
    <2> SUFFICES ASSUME NEW i \in DOMAIN quarantine', NEW j \in DOMAIN quarantine',
                        quarantine'[i].idx = quarantine'[j].idx
                 PROVE  i = j
      OBVIOUS
    <2>1. CASE i \in 1 .. Len(quarantine) /\ j \in 1 .. Len(quarantine)
      BY <1>2, <1>3, <2>1 DEF NoSharing
    <2>2. CASE i \notin 1 .. Len(quarantine) /\ j \notin 1 .. Len(quarantine)
      <3>1. i - Len(quarantine) = j - Len(quarantine)
        BY <1>2, <1>4, <2>2 DEF NoSharing, NoRepeats
      <3> QED
        BY <1>2, <1>3, <3>1
    <2>3. CASE (i \in 1 .. Len(quarantine)) # (j \in 1 .. Len(quarantine))
      BY <1>4, <1>5, <2>3
    <2> QED
      BY <2>1, <2>2, <2>3
  <1>7. \A d \in Dummies : Waits(d)' => Waits(d) \/ InRing(d)
    BY <1>2, <1>4 DEF Waits, InRing
  <1> QED
    BY <1>6, <1>7

\* Every step that leaves the places of the dummies as they are.
LEMMA PlacesKept ==
    ASSUME ExclusiveLending,
           UNCHANGED <<free_dummies, released_dummies, quarantine, local,
                       conn_dummy, resetting>>
    PROVE  ExclusiveLending'
  BY DEF ExclusiveLending, NoSharing, NoRepeats, OnePlace, InFree, InRing, Waits,
         Held, Lent

\* A sockops callback moves a dummy from one place to one other.
LEMMA ConnLending ==
    ASSUME TypeInv, ExclusiveLending, NEW s \in Socks,
           AddConnPlain(s) \/ AddConnPop(s) \/ RemoveConnTake(s) \/ ClosePlain(s)
             \/ Callback(s) \/ SkbData(s)
    PROVE  ExclusiveLending'
  <1> USE DEF ExclusiveLending
  <1>t. /\ free_dummies \in Seq(Dummies) /\ released_dummies \in Seq(Dummies)
        /\ local \in [Socks -> Dummies \cup {None}]
        /\ conn_dummy \in [Keys -> Dummies \cup {None}]
        /\ KeyOf[s] \in Keys
    BY DEF TypeInv, TypeOK
  <1>l. /\ \A t \in Socks : local[t] # None => local[t] \in Dummies /\ Held(local[t])
        /\ \A k \in Keys : conn_dummy[k] # None => conn_dummy[k] \in Dummies /\ Lent(conn_dummy[k])
    BY <1>t DEF Held, Lent
  <1>1. CASE AddConnPlain(s) \/ ClosePlain(s) \/ SkbData(s)
    BY <1>1, PlacesKept
       DEF AddConnPlain, ClosePlain, SkbData, connVars, poolVars, recyclerVars
  <1>2. CASE AddConnPop(s)
    <2> DEFINE d0 == Head(free_dummies)
    <2>1. /\ free_dummies # <<>> /\ free_dummies' = Tail(free_dummies)
          /\ local' = [local EXCEPT ![s] = d0]
          /\ UNCHANGED <<released_dummies, quarantine, conn_dummy, resetting>>
      BY <1>2 DEF AddConnPop, AddConnTakes, recyclerVars
    <2>2. /\ d0 \in Dummies /\ InFree(d0) /\ NoRepeats(free_dummies')
          /\ \A d : InFree(d)' => InFree(d) /\ d # d0
      BY <1>t, <2>1, TailFacts, PopPlace DEF NoSharing, InFree, Occurs
    <2> HIDE DEF d0
    <2>3. \A d : Held(d)' => Held(d) \/ d = d0
      BY <1>t, <2>1 DEF Held
    <2>4. \A t, u \in Socks : local'[t] = local'[u] /\ local'[t] # None => t = u
      BY <1>t, <1>l, <2>1, <2>2 DEF NoSharing, OnePlace
    <2>5. NoSharing'
      BY <2>1, <2>2, <2>4 DEF NoSharing
    <2>6. OnePlace'
      BY <2>1, <2>2, <2>3 DEF OnePlace, InRing, Waits, Lent
    <2> QED
      BY <2>5, <2>6
  <1>3. CASE AddConnDone(s)
    <2>1. /\ local' = [local EXCEPT ![s] = None]
          /\ conn_dummy' = [conn_dummy EXCEPT ![KeyOf[s]] = local[s]]
          /\ UNCHANGED <<free_dummies, released_dummies, quarantine, resetting>>
      BY <1>3 DEF AddConnDone, poolVars, recyclerVars
    <2>2. local[s] \in Dummies /\ Held(local[s])
      BY <1>3, <1>l DEF AddConnDone, TypeInv, Control
    <2>3. \A d \in Dummies : Held(d)' => Held(d) /\ d # local[s]
      BY <1>t, <2>1 DEF Held, NoSharing
    <2>4. \A d \in Dummies : Lent(d)' => Lent(d) \/ d = local[s]
      BY <1>t, <2>1 DEF Lent
    <2>5. \A k, l \in Keys : conn_dummy'[k] = conn_dummy'[l] /\ conn_dummy'[k] # None => k = l
      BY <1>t, <1>l, <2>1, <2>2 DEF NoSharing, OnePlace
    <2>6. \A t, u \in Socks : local'[t] = local'[u] /\ local'[t] # None => t = u
      BY <1>t, <2>1 DEF NoSharing
    <2>7. NoSharing'
      BY <2>1, <2>5, <2>6 DEF NoSharing
    <2>8. OnePlace'
      BY <2>1, <2>2, <2>3, <2>4 DEF OnePlace, InFree, InRing, Waits
    <2> QED
      BY <2>7, <2>8
  <1>4. CASE AddConnRelease(s)
    <2>1. /\ local' = [local EXCEPT ![s] = None]
          /\ conn_dummy' = [conn_dummy EXCEPT ![KeyOf[s]] = None]
          /\ free_dummies' = Append(free_dummies, local[s])
          /\ UNCHANGED <<released_dummies, quarantine, resetting>>
      BY <1>4 DEF AddConnRelease, AddConnUndo, recyclerVars
    <2>2. local[s] \in Dummies /\ Held(local[s])
      BY <1>4, <1>l DEF AddConnRelease, AddConnUndo, TypeInv, Control
    <2>3. \A d \in Dummies : Held(d)' => Held(d) /\ d # local[s]
      BY <1>t, <2>1 DEF Held, NoSharing
    <2>4. \A d \in Dummies : Lent(d)' => Lent(d)
      BY <1>t, <2>1 DEF Lent
    <2>5. ~Occurs(local[s], free_dummies)
      BY <2>2 DEF Occurs, OnePlace, InFree
    <2>6. NoRepeats(free_dummies') /\ \A d : InFree(d)' => InFree(d) \/ d = local[s]
      BY <1>t, <2>1, <2>2, <2>5, PushPlace DEF NoSharing, InFree, Occurs
    <2>7. /\ \A k, l \in Keys : conn_dummy'[k] = conn_dummy'[l] /\ conn_dummy'[k] # None => k = l
          /\ \A t, u \in Socks : local'[t] = local'[u] /\ local'[t] # None => t = u
      BY <1>t, <2>1 DEF NoSharing
    <2>8. NoSharing'
      BY <2>1, <2>6, <2>7 DEF NoSharing
    <2>9. OnePlace'
      BY <2>1, <2>2, <2>3, <2>4, <2>6 DEF OnePlace, InRing, Waits
    <2> QED
      BY <2>8, <2>9
  <1>5. CASE RemoveConnTake(s)
    <2> DEFINE d0 == conn_dummy[KeyOf[s]]
    <2>1. /\ local' = [local EXCEPT ![s] = d0]
          /\ conn_dummy' = [conn_dummy EXCEPT ![KeyOf[s]] = None]
          /\ UNCHANGED <<free_dummies, released_dummies, quarantine, resetting>>
      BY <1>5 DEF RemoveConnTake, poolVars, recyclerVars
    <2>2. d0 \in Dummies /\ Lent(d0)
      BY <1>5, <1>t, <1>l DEF RemoveConnTake, TypeInv, Control
    <2>3. \A d \in Dummies : Lent(d)' => Lent(d) /\ d # d0
      BY <1>t, <2>1 DEF Lent, NoSharing
    <2> HIDE DEF d0
    <2>4. \A d \in Dummies : Held(d)' => Held(d) \/ d = d0
      BY <1>t, <2>1 DEF Held
    <2>5. \A t, u \in Socks : local'[t] = local'[u] /\ local'[t] # None => t = u
      BY <1>t, <1>l, <2>1, <2>2 DEF NoSharing, OnePlace
    <2>6. \A k, l \in Keys : conn_dummy'[k] = conn_dummy'[l] /\ conn_dummy'[k] # None => k = l
      BY <1>t, <2>1 DEF NoSharing
    <2>7. NoSharing'
      BY <2>1, <2>5, <2>6 DEF NoSharing
    <2>8. OnePlace'
      BY <2>1, <2>2, <2>3, <2>4 DEF OnePlace, InFree, InRing, Waits
    <2> QED
      BY <2>7, <2>8
  <1>6. CASE RemoveConnRelease(s)
    <2>1. /\ local' = [local EXCEPT ![s] = None]
          /\ released_dummies' \in {released_dummies, Append(released_dummies, local[s])}
          /\ UNCHANGED <<conn_dummy, free_dummies, quarantine, resetting>>
      BY <1>6 DEF RemoveConnRelease, Forget, recyclerVars
    <2>2. local[s] \in Dummies /\ Held(local[s])
      BY <1>6, <1>l DEF RemoveConnRelease, Forget, TypeInv, Control
    <2>3. \A d \in Dummies : Held(d)' => Held(d) /\ d # local[s]
      BY <1>t, <2>1 DEF Held, NoSharing
    <2>4. ~Occurs(local[s], released_dummies)
      BY <2>2 DEF Occurs, OnePlace, InRing
    <2>5. NoRepeats(released_dummies') /\ \A d : InRing(d)' => InRing(d) \/ d = local[s]
      <3>1. CASE released_dummies' = released_dummies
        BY <3>1 DEF NoSharing, InRing
      <3>2. CASE released_dummies' = Append(released_dummies, local[s])
        BY <1>t, <2>2, <2>4, <3>2, PushPlace DEF NoSharing, InRing, Occurs
      <3> QED
        BY <2>1, <3>1, <3>2
    <2>6. \A t, u \in Socks : local'[t] = local'[u] /\ local'[t] # None => t = u
      BY <1>t, <2>1 DEF NoSharing
    <2>7. NoSharing'
      BY <2>1, <2>5, <2>6 DEF NoSharing
    <2>8. OnePlace'
      BY <2>1, <2>2, <2>3, <2>5 DEF OnePlace, InFree, Waits, Lent
    <2> QED
      BY <2>7, <2>8
  <1> QED
    BY <1>1, <1>2, <1>3, <1>4, <1>5, <1>6 DEF Callback

\* The recycler moves a dummy from one place to one other.
LEMMA RecyclerLending ==
    ASSUME TypeInv, ExclusiveLending, Tick \/ Recycle \/ RecyclerEnds
    PROVE  ExclusiveLending'
  <1> USE DEF ExclusiveLending
  <1>t. /\ free_dummies \in Seq(Dummies) /\ released_dummies \in Seq(Dummies)
        /\ quarantine \in Seq(Waiting) /\ resetting \in Dummies \cup {None}
    BY DEF TypeInv, TypeOK
  <1>1. CASE Tick
    <2>1. UNCHANGED <<free_dummies, released_dummies, local, conn_dummy, resetting>>
      BY <1>1 DEF Tick, connVars, poolVars
    <2>2. /\ DOMAIN quarantine' = DOMAIN quarantine
          /\ \A i \in DOMAIN quarantine : quarantine'[i].idx = quarantine[i].idx
      BY <1>1, <1>t, TickFacts
    <2>3. \A d \in Dummies : Waits(d)' => Waits(d)
      BY <2>2 DEF Waits
    <2>4. NoSharing'
      BY <2>1, <2>2 DEF NoSharing, NoRepeats
    <2>5. OnePlace'
      BY <2>1, <2>3 DEF OnePlace, InFree, InRing, Held, Lent
    <2> QED
      BY <2>4, <2>5
  <1>2. CASE Poll
    <2>1. /\ released_dummies' = <<>>
          /\ UNCHANGED <<free_dummies, local, conn_dummy, resetting>>
      BY <1>2 DEF Poll, Collect, connVars
    <2>2. /\ \A i, j \in DOMAIN quarantine' :
                quarantine'[i].idx = quarantine'[j].idx => i = j
          /\ \A d \in Dummies : Waits(d)' => Waits(d) \/ InRing(d)
      BY <1>2, CollectPlace DEF Poll
    <2>3. \A d : ~InRing(d)'
      BY <2>1 DEF InRing
    <2>4. NoSharing'
      BY <2>1, <2>2 DEF NoSharing, NoRepeats
    <2>5. OnePlace'
      BY <2>1, <2>2, <2>3 DEF OnePlace, InFree, Held, Lent
    <2> QED
      BY <2>4, <2>5
  <1>3. CASE Drain
    <2> DEFINE d0 == Head(quarantine).idx
    <2>1. /\ quarantine # <<>> /\ quarantine' = Tail(quarantine) /\ resetting' = d0
          /\ UNCHANGED <<free_dummies, released_dummies, local, conn_dummy>>
      BY <1>3 DEF Drain, ResetNext, connVars, poolVars
    <2>2. d0 \in Dummies
      <3>1. Head(quarantine) \in Waiting
        BY <1>t, <2>1, TailFacts
      <3> QED
        BY <3>1 DEF Waiting
    <2>3. /\ \A i, j \in DOMAIN quarantine' :
                quarantine'[i].idx = quarantine'[j].idx => i = j
          /\ Waits(d0)
          /\ \A d \in Dummies : Waits(d)' => Waits(d) /\ d # d0
      BY <2>1, DrainPlace
    <2> HIDE DEF d0
    <2>4. NoSharing'
      BY <2>1, <2>3 DEF NoSharing
    <2>5. OnePlace'
      BY <2>1, <2>2, <2>3 DEF OnePlace, InFree, InRing, Held, Lent
    <2> QED
      BY <2>4, <2>5
  <1>4. CASE ResetFree
    <2>1. /\ free_dummies' = Append(free_dummies, resetting) /\ resetting' = None
          /\ UNCHANGED <<released_dummies, quarantine, local, conn_dummy>>
      BY <1>4 DEF ResetFree, ResetDone, connVars
    <2>2. resetting \in Dummies
      BY <1>4, <1>t DEF ResetFree, TypeInv, Control
    <2>3. ~Occurs(resetting, free_dummies)
      BY <2>2 DEF Occurs, OnePlace, InFree
    <2>4. NoRepeats(free_dummies') /\ \A d : InFree(d)' => InFree(d) \/ d = resetting
      BY <1>t, <2>1, <2>2, <2>3, PushPlace DEF NoSharing, InFree, Occurs
    <2>5. NoSharing'
      BY <2>1, <2>4 DEF NoSharing
    <2>6. OnePlace'
      BY <2>1, <2>2, <2>4 DEF OnePlace, InRing, Waits, Held, Lent
    <2> QED
      BY <2>5, <2>6
  <1>5. CASE ResetFails
    <2>1. /\ resetting' = None
          /\ UNCHANGED <<free_dummies, released_dummies, quarantine, local, conn_dummy>>
      BY <1>5 DEF ResetFails, ResetDone, connVars
    <2> QED
      BY <2>1 DEF NoSharing, NoRepeats, OnePlace, InFree, InRing, Waits, Held, Lent
  <1>6. CASE DrainEnds \/ ResetDelete \/ ResetTakeError \/ ResetUpdate \/ ResetTable
               \/ RecyclerEnds
    BY <1>6, PlacesKept
       DEF DrainEnds, ResetDelete, ResetTakeError, ResetUpdate, ResetTable,
           RecyclerEnds, connVars, poolVars
  <1> QED
    BY <1>1, <1>2, <1>3, <1>4, <1>5, <1>6 DEF Recycle

\* A worker moves no dummy.
LEMMA WorkerLending ==
    ASSUME ExclusiveLending, NEW d \in Dummies, Worker(d)
    PROVE  ExclusiveLending'
  BY PlacesKept
     DEF Worker, MsgBegin, MsgApplied, MsgFails, MsgRedirect, MsgDrop, connVars,
         poolVars, recyclerVars

\* In the beginning every dummy is free and nowhere else.
LEMMA InitLending == Init => ExclusiveLending
  <1> SUFFICES ASSUME Init PROVE ExclusiveLending
    OBVIOUS
  <1>1. NoSharing
    BY DEF Init, NoSharing, NoRepeats
  <1>2. OnePlace
    BY DEF Init, OnePlace, InFree, InRing, Waits, Held, Lent
  <1> QED
    BY <1>1, <1>2 DEF ExclusiveLending

LendingInv == TypeInv /\ ExclusiveLending

\* Between add_conn's pop and the recycler's push a dummy has one holder: no two
\* connections, and no connection and the recycler, ever share one.
THEOREM LendingIsExclusive == Spec => []ExclusiveLending
  <1>1. Init => LendingInv
    BY InitType, InitLending DEF LendingInv
  <1>2. LendingInv /\ [Next]_vars => LendingInv'
    <2> SUFFICES ASSUME LendingInv, [Next]_vars PROVE LendingInv'
      OBVIOUS
    <2>1. TypeInv'
      BY ConnType, ConnControl, WorkerType, RecyclerType, StutterType
         DEF Next, TypeInv, LendingInv
    <2>2. ExclusiveLending'
      <3>1. CASE UNCHANGED vars
        BY <3>1, PlacesKept DEF LendingInv, vars, connVars, poolVars, recyclerVars
      <3> QED
        BY <3>1, ConnLending, WorkerLending, RecyclerLending DEF Next, LendingInv
    <2> QED
      BY <2>1, <2>2 DEF LendingInv
  <1>3. LendingInv => ExclusiveLending
    BY DEF LendingInv
  <1> QED
    BY <1>1, <1>2, <1>3, PTL DEF Spec

-----------------------------------------------------------------------------
(* No dummy vanishes: whoever takes one from a place puts it in the next in *)
(* the same step, or reports it.                                             *)

\* Somebody has the dummy, or it was reported lost.
Accounted(d) ==
    InFree(d) \/ InRing(d) \/ Waits(d) \/ Held(d) \/ Lent(d) \/ resetting = d \/ d \in failed

\* An element of a queue is its front or is left when the front is taken.
LEMMA FrontOrRest ==
    ASSUME NEW S, NEW q \in Seq(S), NEW i \in DOMAIN q
    PROVE  q # <<>> /\ (q[i] = Head(q) \/ \E j \in DOMAIN Tail(q) : Tail(q)[j] = q[i])
  <1>1. DOMAIN q = 1 .. Len(q) /\ Len(q) \in Nat
    OBVIOUS
  <1>2. CASE i = 1
    BY <1>1, <1>2
  <1>3. CASE i # 1
    <2>1. i - 1 \in DOMAIN Tail(q) /\ Tail(q)[i - 1] = q[i]
      BY <1>1, <1>3
    <2> QED
      BY <1>1, <2>1
  <1> QED
    BY <1>2, <1>3

\* What was in a queue is in it when something was pushed, and so is that.
LEMMA PushKeeps ==
    ASSUME NEW S, NEW q \in Seq(S), NEW e \in S
    PROVE  \A x : Occurs(x, q) \/ x = e => Occurs(x, Append(q, e))
  <1>1. DOMAIN q = 1 .. Len(q) /\ Len(q) \in Nat
    OBVIOUS
  <1>2. DOMAIN Append(q, e) = 1 .. Len(q) + 1
    BY AppendFacts
  <1>3. \A i \in DOMAIN q : i \in DOMAIN Append(q, e) /\ Append(q, e)[i] = q[i]
    BY <1>1, <1>2, AppendFacts
  <1>4. Len(q) + 1 \in DOMAIN Append(q, e) /\ Append(q, e)[Len(q) + 1] = e
    BY <1>1, <1>2, AppendFacts
  <1> QED
    BY <1>3, <1>4 DEF Occurs

\* A step that leaves every place of a dummy as it is.
LEMMA AccountedKept ==
    ASSUME NEW d, Accounted(d),
           UNCHANGED <<free_dummies, released_dummies, failed, quarantine, local,
                       conn_dummy, resetting>>
    PROVE  Accounted(d)'
  BY DEF Accounted, InFree, InRing, Waits, Held, Lent

\* While add_conn runs for a socket, no dummy is stored under its key: the kernel
\* has no other socket under it.
LEMMA NoneStored ==
    ASSUME TypeInv, NEW s \in Socks, sock[s] = "adding"
    PROVE  conn_dummy[KeyOf[s]] = None
  <1>1. Control /\ KeyOf[s] \in Keys
    BY DEF TypeInv
  <1>2. SUFFICES ASSUME conn_dummy[KeyOf[s]] # None PROVE FALSE
    OBVIOUS
  <1>3. PICK t \in Socks : sock[t] = "open" /\ KeyOf[t] = KeyOf[s]
    BY <1>1, <1>2 DEF Control
  <1>4. t = s
    BY <1>1, <1>3 DEF Control, Live
  <1> QED
    BY <1>3, <1>4

\* A callback that takes a dummy from a place puts it in the next, or reports it.
LEMMA AccountedConn ==
    ASSUME TypeInv, NEW d \in Dummies, Accounted(d), NEW s \in Socks,
           AddConnPlain(s) \/ AddConnPop(s) \/ RemoveConnTake(s) \/ ClosePlain(s)
             \/ Callback(s) \/ SkbData(s)
    PROVE  Accounted(d)'
  <1>t. /\ free_dummies \in Seq(Dummies) /\ released_dummies \in Seq(Dummies)
        /\ local \in [Socks -> Dummies \cup {None}]
        /\ conn_dummy \in [Keys -> Dummies \cup {None}]
        /\ failed \subseteq Dummies
        /\ KeyOf[s] \in Keys /\ d # None
    BY DEF TypeInv, TypeOK
  <1>1. CASE AddConnPlain(s) \/ ClosePlain(s) \/ SkbData(s)
    BY <1>1, AccountedKept
       DEF AddConnPlain, ClosePlain, SkbData, connVars, poolVars, recyclerVars
  <1>2. CASE AddConnPop(s)
    <2>1. /\ free_dummies # <<>> /\ free_dummies' = Tail(free_dummies)
          /\ local' = [local EXCEPT ![s] = Head(free_dummies)]
          /\ UNCHANGED <<released_dummies, failed, quarantine, conn_dummy, resetting>>
      BY <1>2 DEF AddConnPop, AddConnTakes, recyclerVars
    <2>2. local[s] = None
      BY <1>2 DEF AddConnPop, AddConnTakes, Acceptable, TypeInv, Control
    <2>3. InFree(d) => InFree(d)' \/ Held(d)'
      BY <1>t, <2>1, FrontOrRest DEF InFree, Held
    <2>4. Held(d) => Held(d)'
      BY <1>t, <2>1, <2>2 DEF Held
    <2> QED
      BY <2>1, <2>3, <2>4 DEF Accounted, InRing, Waits, Lent
  <1>3. CASE AddConnDone(s)
    <2>1. /\ local' = [local EXCEPT ![s] = None]
          /\ conn_dummy' = [conn_dummy EXCEPT ![KeyOf[s]] = local[s]]
          /\ UNCHANGED <<free_dummies, released_dummies, failed, quarantine, resetting>>
      BY <1>3 DEF AddConnDone, poolVars, recyclerVars
    <2>2. conn_dummy[KeyOf[s]] = None
      BY <1>3, NoneStored DEF AddConnDone
    <2>3. Held(d) => Held(d)' \/ Lent(d)'
      BY <1>t, <2>1 DEF Held, Lent
    <2>4. Lent(d) => Lent(d)'
      BY <1>t, <2>1, <2>2 DEF Lent
    <2> QED
      BY <2>1, <2>3, <2>4 DEF Accounted, InFree, InRing, Waits
  <1>4. CASE AddConnRelease(s)
    <2>1. /\ free_dummies' = Append(free_dummies, local[s])
          /\ local' = [local EXCEPT ![s] = None]
          /\ conn_dummy' = [conn_dummy EXCEPT ![KeyOf[s]] = None]
          /\ UNCHANGED <<released_dummies, failed, quarantine, resetting>>
      BY <1>4 DEF AddConnRelease, AddConnUndo, recyclerVars
    <2>2. conn_dummy[KeyOf[s]] = None
      BY <1>4, NoneStored DEF AddConnRelease, AddConnUndo
    <2>3. local[s] \in Dummies
      BY <1>4, <1>t DEF AddConnRelease, AddConnUndo, TypeInv, Control
    <2>4. InFree(d) \/ d = local[s] => InFree(d)'
      <3>1. \A x : Occurs(x, free_dummies) \/ x = local[s] => Occurs(x, free_dummies')
        BY <1>t, <2>1, <2>3, PushKeeps
      <3> QED
        BY <3>1 DEF InFree, Occurs
    <2>5. Held(d) => Held(d)' \/ d = local[s]
      BY <1>t, <2>1 DEF Held
    <2>6. Lent(d) => Lent(d)'
      BY <1>t, <2>1, <2>2 DEF Lent
    <2> QED
      BY <2>1, <2>4, <2>5, <2>6 DEF Accounted, InRing, Waits
  <1>5. CASE RemoveConnTake(s)
    <2>1. /\ local' = [local EXCEPT ![s] = conn_dummy[KeyOf[s]]]
          /\ conn_dummy' = [conn_dummy EXCEPT ![KeyOf[s]] = None]
          /\ UNCHANGED <<free_dummies, released_dummies, failed, quarantine, resetting>>
      BY <1>5 DEF RemoveConnTake, poolVars, recyclerVars
    <2>2. local[s] = None
      BY <1>5 DEF RemoveConnTake, TypeInv, Control
    <2>3. Held(d) => Held(d)'
      BY <1>t, <2>1, <2>2 DEF Held
    <2>4. Lent(d) => Lent(d)' \/ Held(d)'
      BY <1>t, <2>1 DEF Held, Lent
    <2> QED
      BY <2>1, <2>3, <2>4 DEF Accounted, InFree, InRing, Waits
  <1>6. CASE RemoveConnRelease(s)
    <2>1. /\ local' = [local EXCEPT ![s] = None]
          /\ UNCHANGED <<free_dummies, quarantine, conn_dummy, resetting>>
      BY <1>6 DEF RemoveConnRelease, Forget, recyclerVars
    <2>2. local[s] \in Dummies
      BY <1>6, <1>t DEF RemoveConnRelease, Forget, TypeInv, Control
    <2>3. \/ released_dummies' = Append(released_dummies, local[s]) /\ failed' = failed
          \/ released_dummies' = released_dummies /\ failed' = failed \cup {local[s]}
      BY <1>6 DEF RemoveConnRelease
    <2>4. InRing(d) \/ d \in failed \/ d = local[s] => InRing(d)' \/ d \in failed'
      <3>1. CASE released_dummies' = released_dummies /\ failed' = failed \cup {local[s]}
        BY <3>1 DEF InRing
      <3>2. CASE released_dummies' = Append(released_dummies, local[s]) /\ failed' = failed
        <4>1. \A x : Occurs(x, released_dummies) \/ x = local[s]
                       => Occurs(x, released_dummies')
          BY <1>t, <2>2, <3>2, PushKeeps
        <4> QED
          BY <3>2, <4>1 DEF InRing, Occurs
      <3> QED
        BY <2>3, <3>1, <3>2
    <2>5. Held(d) => Held(d)' \/ d = local[s]
      BY <1>t, <2>1 DEF Held
    <2> QED
      BY <2>1, <2>4, <2>5 DEF Accounted, InFree, Waits, Lent
  <1> QED
    BY <1>1, <1>2, <1>3, <1>4, <1>5, <1>6 DEF Callback

\* A step of the recycler that takes a dummy from a place puts it in the next, or
\* reports it.
LEMMA AccountedRecycler ==
    ASSUME TypeInv, NEW d \in Dummies, Accounted(d), Tick \/ Recycle \/ RecyclerEnds
    PROVE  Accounted(d)'
  <1>t. /\ free_dummies \in Seq(Dummies) /\ released_dummies \in Seq(Dummies)
        /\ quarantine \in Seq(Waiting) /\ resetting \in Dummies \cup {None}
        /\ failed \subseteq Dummies /\ d # None
    BY DEF TypeInv, TypeOK
  <1>1. CASE Tick
    <2>1. UNCHANGED <<free_dummies, released_dummies, failed, local, conn_dummy, resetting>>
      BY <1>1 DEF Tick, connVars, poolVars
    <2>2. /\ DOMAIN quarantine' = DOMAIN quarantine
          /\ \A i \in DOMAIN quarantine : quarantine'[i].idx = quarantine[i].idx
      BY <1>1, <1>t, TickFacts
    <2>3. Waits(d) => Waits(d)'
      BY <2>2 DEF Waits
    <2> QED
      BY <2>1, <2>3 DEF Accounted, InFree, InRing, Held, Lent
  <1>2. CASE Poll
    <2>1. UNCHANGED <<free_dummies, failed, local, conn_dummy, resetting>>
      BY <1>2 DEF Poll, Collect, connVars
    <2>2. /\ DOMAIN quarantine' = 1 .. Len(quarantine) + Len(released_dummies)
          /\ \A i \in 1 .. Len(quarantine) : quarantine'[i] = quarantine[i]
          /\ \A i \in 1 .. Len(released_dummies) :
                quarantine'[Len(quarantine) + i].idx = released_dummies[i]
      BY <1>2, <1>t, CollectFacts DEF Poll, Collect
    <2>3. /\ DOMAIN quarantine = 1 .. Len(quarantine) /\ Len(quarantine) \in Nat
          /\ DOMAIN released_dummies = 1 .. Len(released_dummies)
          /\ Len(released_dummies) \in Nat
      BY <1>t
    <2>4. Waits(d) => Waits(d)'
      BY <2>2, <2>3 DEF Waits
    <2>5. InRing(d) => Waits(d)'
      <3>1. \A i \in DOMAIN released_dummies : Len(quarantine) + i \in DOMAIN quarantine'
        BY <2>2, <2>3
      <3> QED
        BY <2>2, <2>3, <3>1 DEF InRing, Waits
    <2> QED
      BY <2>1, <2>4, <2>5 DEF Accounted, InFree, Held, Lent
  <1>3. CASE Drain
    <2>1. /\ quarantine # <<>> /\ quarantine' = Tail(quarantine)
          /\ resetting' = Head(quarantine).idx
          /\ UNCHANGED <<free_dummies, released_dummies, failed, local, conn_dummy>>
      BY <1>3 DEF Drain, ResetNext, connVars, poolVars
    <2>2. resetting = None
      BY <1>3 DEF Drain, ResetNext, TypeInv, Control
    <2>3. Waits(d) => Waits(d)' \/ resetting' = d
      BY <1>t, <2>1, FrontOrRest, SMTT(30) DEF Waits
    <2> QED
      BY <1>t, <2>1, <2>2, <2>3 DEF Accounted, InFree, InRing, Held, Lent
  <1>4. CASE ResetFree
    <2>1. /\ free_dummies' = Append(free_dummies, resetting)
          /\ UNCHANGED <<released_dummies, failed, quarantine, local, conn_dummy>>
      BY <1>4 DEF ResetFree, ResetDone, connVars
    <2>2. resetting \in Dummies
      BY <1>4, <1>t DEF ResetFree, TypeInv, Control
    <2>3. InFree(d) \/ resetting = d => InFree(d)'
      <3>1. \A x : Occurs(x, free_dummies) \/ x = resetting => Occurs(x, free_dummies')
        BY <1>t, <2>1, <2>2, PushKeeps
      <3> QED
        BY <3>1 DEF InFree, Occurs
    <2> QED
      BY <2>1, <2>3 DEF Accounted, InRing, Waits, Held, Lent
  <1>5. CASE ResetFails
    <2>1. /\ failed' = failed \cup {resetting}
          /\ UNCHANGED <<free_dummies, released_dummies, quarantine, local, conn_dummy>>
      BY <1>5 DEF ResetFails, ResetDone, connVars
    <2> QED
      BY <2>1 DEF Accounted, InFree, InRing, Waits, Held, Lent
  <1>6. CASE DrainEnds \/ ResetDelete \/ ResetTakeError \/ ResetUpdate \/ ResetTable
               \/ RecyclerEnds
    BY <1>6, AccountedKept
       DEF DrainEnds, ResetDelete, ResetTakeError, ResetUpdate, ResetTable,
           RecyclerEnds, connVars, poolVars
  <1> QED
    BY <1>1, <1>2, <1>3, <1>4, <1>5, <1>6 DEF Recycle

\* A worker moves no dummy.
LEMMA AccountedWorker ==
    ASSUME NEW d \in Dummies, Accounted(d), NEW e \in Dummies, Worker(e)
    PROVE  Accounted(d)'
  BY AccountedKept
     DEF Worker, MsgBegin, MsgApplied, MsgFails, MsgRedirect, MsgDrop, connVars,
         poolVars, recyclerVars

\* In the beginning the queue holds every dummy.
LEMMA AccountedInit == Init => NoSilentLoss
  <1> SUFFICES ASSUME Init, NEW d \in Dummies PROVE InFree(d)
    BY DEF NoSilentLoss
  <1>1. free_dummies = [i \in 1 .. NumDummies |-> i - 1] /\ NumDummies \in Nat
    BY DEF Init
  <1>2. d + 1 \in 1 .. NumDummies /\ (d + 1) - 1 = d
    BY <1>1 DEF Dummies
  <1> QED
    BY <1>1, <1>2 DEF InFree

\* Every dummy is in the pool, with a connection or with the recycler, or was
\* reported lost, for every number of sockets, keys and dummies and every size
\* of the ring buffer: remove_conn and the recycler drop none without a message.
THEOREM NothingVanishes == Spec => []NoSilentLoss
  <1> DEFINE Inv == TypeInv /\ NoSilentLoss
  <1>1. Init => Inv
    BY InitType, AccountedInit
  <1>2. Inv /\ [Next]_vars => Inv'
    <2> SUFFICES ASSUME Inv, [Next]_vars PROVE Inv'
      OBVIOUS
    <2>1. TypeInv'
      BY ConnType, ConnControl, WorkerType, RecyclerType, StutterType
         DEF Next, TypeInv
    <2>2. ASSUME NEW d \in Dummies PROVE Accounted(d)'
      <3>1. Accounted(d)
        BY DEF NoSilentLoss, Accounted
      <3>2. CASE UNCHANGED vars
        BY <3>1, <3>2, AccountedKept DEF vars, connVars, poolVars, recyclerVars
      <3> QED
        BY <3>1, <3>2, AccountedConn, AccountedWorker, AccountedRecycler
           DEF Next
    <2> QED
      BY <2>1, <2>2 DEF NoSilentLoss, Accounted
  <1> QED
    BY <1>1, <1>2, PTL DEF Spec

-----------------------------------------------------------------------------
(* The pool implements DummyLending: what it does to a dummy, however many   *)
(* queues, maps and threads it takes, is one of the abstract steps.          *)

(* The places a dummy's stage is told from *)

Arriving(d) == \E s \in Socks : sock[s] = "adding" /\ local[s] = d
InUse(d) == Held(d) \/ Lent(d)
ToClean(d) == InRing(d) \/ Waits(d) \/ resetting = d

\* A dummy in use is in no queue, one in the pool is nowhere else.
LEMMA Apart ==
    ASSUME OnePlace, NEW d \in Dummies
    PROVE  /\ InFree(d) => ~InUse(d) /\ ~ToClean(d)
           /\ InUse(d) => ~InFree(d) /\ ~ToClean(d)
           /\ ToClean(d) => ~InFree(d) /\ ~InUse(d)
           /\ Held(d) => ~Lent(d)
  BY DEF OnePlace, InUse, ToClean

\* The stage of a dummy by its places, before a step and behind it.
LEMMA StageIs ==
    ASSUME NEW d
    PROVE  /\ StageOf(d) = IF InFree(d) THEN "free" ELSE IF Arriving(d) THEN "lent"
                           ELSE IF InUse(d) THEN "used"
                           ELSE IF ToClean(d) THEN "dirty" ELSE "lost"
           /\ StageOf(d)' = IF InFree(d)' THEN "free" ELSE IF Arriving(d)' THEN "lent"
                            ELSE IF InUse(d)' THEN "used"
                            ELSE IF ToClean(d)' THEN "dirty" ELSE "lost"
  BY DEF StageOf, Arriving, InUse, ToClean

\* A step keeps the stage of a dummy if it keeps its places.
Same(d) ==
    /\ InFree(d)' <=> InFree(d)
    /\ Arriving(d)' <=> Arriving(d)
    /\ InUse(d)' <=> InUse(d)
    /\ ToClean(d)' <=> ToClean(d)

\* A dummy in the same places is in the same stage.
LEMMA StageKept ==
    ASSUME NEW d, Same(d)
    PROVE  StageOf(d)' = StageOf(d)
  BY StageIs DEF Same

\* A dummy is arriving with at most one socket.
LEMMA ArrivingHeld ==
    ASSUME NEW d
    PROVE  Arriving(d) => Held(d)
  BY DEF Arriving, Held

-----------------------------------------------------------------------------
(* From the places to the abstract steps *)

\* A step that changes the stage of one dummy and what one socket holds.
LEMMA Mapped ==
    ASSUME NEW d \in Dummies, NEW s \in Socks,
           \A e \in Dummies \ {d} : StageOf(e)' = StageOf(e),
           \A t \in Socks \ {s} : HoldsOf(t)' = HoldsOf(t)
    PROVE  /\ [e \in Dummies |-> StageOf(e)'] =
                 [[e \in Dummies |-> StageOf(e)] EXCEPT ![d] = StageOf(d)']
           /\ [t \in Socks |-> HoldsOf(t)'] =
                 [[t \in Socks |-> HoldsOf(t)] EXCEPT ![s] = HoldsOf(s)']
  OBVIOUS

\* A free dummy that a socket without one holds behind the step was lent.
LEMMA IsLend ==
    ASSUME NEW d \in Dummies, NEW s \in Socks,
           \A e \in Dummies \ {d} : StageOf(e)' = StageOf(e),
           \A t \in Socks \ {s} : HoldsOf(t)' = HoldsOf(t),
           StageOf(d) = "free", HoldsOf(s) = None,
           StageOf(d)' = "lent", HoldsOf(s)' = d
    PROVE  Lending!Next
  <1>1. Lending!Lend(s, d)
    BY Mapped DEF Lending!Lend
  <1> QED
    BY <1>1 DEF Lending!Next, Lending!Dummies, Dummies

\* A lent dummy whose connection is set up is in use, held by the same socket.
LEMMA IsUse ==
    ASSUME NEW d \in Dummies, NEW s \in Socks,
           \A e \in Dummies \ {d} : StageOf(e)' = StageOf(e),
           \A t \in Socks : HoldsOf(t)' = HoldsOf(t),
           HoldsOf(s) = d, StageOf(d) = "lent", StageOf(d)' = "used"
    PROVE  Lending!Next
  <1>1. [t \in Socks |-> HoldsOf(t)'] = [t \in Socks |-> HoldsOf(t)]
    OBVIOUS
  <1>2. d # None
    OBVIOUS
  <1>3. Lending!Use(s)
    BY Mapped, <1>1, <1>2 DEF Lending!Use
  <1> QED
    BY <1>3 DEF Lending!Next

\* A socket that lets go of its dummy gives it back, a used one never as free.
LEMMA IsGiveBack ==
    ASSUME NEW d \in Dummies, NEW s \in Socks,
           \A e \in Dummies \ {d} : StageOf(e)' = StageOf(e),
           \A t \in Socks \ {s} : HoldsOf(t)' = HoldsOf(t),
           HoldsOf(s) = d, HoldsOf(s)' = None,
           StageOf(d)' \in {"free", "dirty", "lost"},
           StageOf(d) = "used" => StageOf(d)' # "free"
    PROVE  Lending!Next
  <1>1. d # None
    OBVIOUS
  <1>2. Lending!GiveBack(s, StageOf(d)')
    BY Mapped, <1>1 DEF Lending!GiveBack
  <1> QED
    BY <1>2 DEF Lending!Next

\* A dirty dummy becomes free, or is lost, while no socket holds another.
LEMMA IsClean ==
    ASSUME NEW d \in Dummies,
           \A e \in Dummies \ {d} : StageOf(e)' = StageOf(e),
           \A t \in Socks : HoldsOf(t)' = HoldsOf(t),
           StageOf(d) = "dirty", StageOf(d)' \in {"free", "lost"}
    PROVE  Lending!Next
  <1>1. [e \in Dummies |-> StageOf(e)'] =
           [[e \in Dummies |-> StageOf(e)] EXCEPT ![d] = StageOf(d)']
    OBVIOUS
  <1>2. [t \in Socks |-> HoldsOf(t)'] = [t \in Socks |-> HoldsOf(t)]
    OBVIOUS
  <1>3. Lending!Clean(d, StageOf(d)')
    BY <1>1, <1>2 DEF Lending!Clean
  <1> QED
    BY <1>3 DEF Lending!Next, Lending!Dummies, Dummies

\* A step that keeps every stage and every hold is a stutter.
LEMMA IsStutter ==
    ASSUME \A d \in Dummies : StageOf(d)' = StageOf(d),
           \A s \in Socks : HoldsOf(s)' = HoldsOf(s)
    PROVE  UNCHANGED Lending!lendingVars
  BY DEF Lending!lendingVars

-----------------------------------------------------------------------------
(* Every step of the pool is one of them *)

LendingStep == Lending!Next \/ UNCHANGED Lending!lendingVars

\* The types the steps below read, and where a socket is when it holds a dummy.
LEMMA Typed ==
    ASSUME TypeInv
    PROVE  /\ free_dummies \in Seq(Dummies) /\ released_dummies \in Seq(Dummies)
           /\ quarantine \in Seq(Waiting) /\ resetting \in Dummies \cup {None}
           /\ local \in [Socks -> Dummies \cup {None}]
           /\ conn_dummy \in [Keys -> Dummies \cup {None}]
           /\ DOMAIN sock = Socks
           /\ \A t \in Socks : KeyOf[t] \in Keys
           /\ \A t \in Socks : local[t] # None <=> sock[t] \in {"adding", "closing"}
           /\ \A t \in Socks : sock[t] = "open" => conn_dummy[KeyOf[t]] # None
           /\ \A t, u \in Socks : Live(t) /\ Live(u) /\ KeyOf[t] = KeyOf[u] => t = u
  BY DEF TypeInv, TypeOK, Control

\* A step that touches no place of a dummy, and lets no callback begin or end.
LEMMA PlacesStay ==
    ASSUME UNCHANGED <<free_dummies, released_dummies, quarantine, local, conn_dummy,
                       resetting>>,
           \A t \in Socks : /\ sock'[t] = "adding" <=> sock[t] = "adding"
                            /\ sock'[t] = "open" <=> sock[t] = "open"
    PROVE  LendingStep
  <1>1. \A d \in Dummies : Same(d)
    BY DEF Same, Arriving, InUse, ToClean, InFree, InRing, Waits, Held, Lent
  <1>2. \A t \in Socks : HoldsOf(t)' = HoldsOf(t)
    BY DEF HoldsOf
  <1> QED
    BY <1>1, <1>2, StageKept, IsStutter DEF LendingStep

\* add_conn pops a dummy: it is lent.
LEMMA PopLends ==
    ASSUME LendingInv, LendingInv', NEW s \in Socks, AddConnPop(s)
    PROVE  LendingStep
  <1>t. TypeInv /\ NoSharing /\ OnePlace /\ OnePlace'
    BY DEF LendingInv, ExclusiveLending
  <1>0. PICK d0 \in Dummies : free_dummies # <<>> /\ d0 = Head(free_dummies)
    BY <1>t, Typed, TailFacts DEF AddConnPop, AddConnTakes
  <1>1. /\ free_dummies # <<>> /\ free_dummies' = Tail(free_dummies)
        /\ local' = [local EXCEPT ![s] = d0]
        /\ sock[s] = "new" /\ sock' = [sock EXCEPT ![s] = "adding"]
        /\ UNCHANGED <<released_dummies, quarantine, conn_dummy, resetting>>
    BY <1>0 DEF AddConnPop, AddConnTakes, Acceptable, recyclerVars
  <1>2. InFree(d0) /\ \A d : InFree(d)' => InFree(d) /\ d # d0
    <2>1. /\ Occurs(d0, free_dummies)
          /\ \A d : Occurs(d, Tail(free_dummies)) => Occurs(d, free_dummies) /\ d # d0
      BY <1>t, <1>0, Typed, PopPlace DEF NoSharing
    <2> QED
      BY <1>1, <2>1 DEF InFree, Occurs
  <1>3. \A d : InFree(d) => InFree(d)' \/ d = d0
    BY <1>t, <1>0, <1>1, Typed, FrontOrRest DEF InFree
  <1>4. local[s] = None
    BY <1>t, <1>1, Typed
  <1>5. \A d \in Dummies : d # d0 => Same(d)
    <2> SUFFICES ASSUME NEW d \in Dummies, d # d0 PROVE Same(d)
      OBVIOUS
    <2>1. /\ Held(d)' <=> Held(d)
          /\ Arriving(d)' <=> Arriving(d)
      BY <1>t, <1>1, <1>4, Typed DEF Held, Arriving
    <2> QED
      BY <1>1, <1>2, <1>3, <2>1 DEF Same, InUse, ToClean, InRing, Waits, Lent
  <1>6. Arriving(d0)' /\ ~InFree(d0)'
    BY <1>t, <1>1, <1>2, Typed DEF Arriving
  <1>7. StageOf(d0) = "free" /\ StageOf(d0)' = "lent"
    BY <1>2, <1>6, StageIs
  <1>8. /\ HoldsOf(s) = None /\ HoldsOf(s)' = d0
        /\ \A t \in Socks \ {s} : HoldsOf(t)' = HoldsOf(t)
    BY <1>t, <1>1, <1>4, Typed DEF HoldsOf
  <1> QED
    BY <1>2, <1>5, <1>7, <1>8, StageKept, IsLend DEF LendingStep

\* add_conn has set the connection up: the dummy is in use.
LEMMA DoneUses ==
    ASSUME LendingInv, LendingInv', NEW s \in Socks, AddConnDone(s)
    PROVE  LendingStep
  <1>t. TypeInv /\ NoSharing /\ OnePlace /\ OnePlace'
    BY DEF LendingInv, ExclusiveLending
  <1>0. PICK d0 \in Dummies : d0 = local[s]
    BY <1>t, Typed DEF AddConnDone
  <1>1. /\ local' = [local EXCEPT ![s] = None]
        /\ conn_dummy' = [conn_dummy EXCEPT ![KeyOf[s]] = d0]
        /\ sock[s] = "adding" /\ sock' = [sock EXCEPT ![s] = "open"]
        /\ UNCHANGED <<free_dummies, released_dummies, quarantine, resetting>>
    BY <1>0 DEF AddConnDone, poolVars, recyclerVars
  <1>2. conn_dummy[KeyOf[s]] = None
    BY <1>t, <1>1, NoneStored
  <1>3. Arriving(d0)
    BY <1>0, <1>1 DEF Arriving
  <1>4. \A t \in Socks : local[t] = d0 => t = s
    BY <1>t, <1>0 DEF NoSharing
  <1>5. \A t \in Socks : HoldsOf(t)' = HoldsOf(t)
    <2> SUFFICES ASSUME NEW t \in Socks PROVE HoldsOf(t)' = HoldsOf(t)
      OBVIOUS
    <2>1. CASE t = s
      BY <1>t, <1>0, <1>1, <2>1, Typed DEF HoldsOf
    <2>2. CASE t # s
      <3>1. sock[t] = "open" => KeyOf[t] # KeyOf[s]
        BY <1>t, <1>2, Typed
      <3> QED
        BY <1>t, <1>1, <2>2, <3>1, Typed DEF HoldsOf
    <2> QED
      BY <2>1, <2>2
  <1>6. HoldsOf(s) = d0
    BY <1>0, <1>1 DEF HoldsOf
  <1>10. \A t \in Socks : sock'[t] = "adding" => t # s /\ local'[t] = local[t]
    BY <1>t, <1>1, Typed
  <1>7. Lent(d0)' /\ ~Arriving(d0)'
    <2>1. Lent(d0)'
      BY <1>t, <1>1, Typed DEF Lent
    <2> QED
      BY <2>1, <1>4, <1>10 DEF Arriving
  <1>8. \A d \in Dummies : d # d0 => Same(d)
    <2> SUFFICES ASSUME NEW d \in Dummies, d # d0 PROVE Same(d)
      OBVIOUS
    <2>1. /\ Held(d)' <=> Held(d)
          /\ Arriving(d)' <=> Arriving(d)
      BY <1>t, <1>0, <1>1, Typed DEF Held, Arriving
    <2>2. Lent(d)' <=> Lent(d)
      BY <1>t, <1>1, <1>2, Typed DEF Lent
    <2> QED
      BY <1>1, <2>1, <2>2 DEF Same, InUse, ToClean, InFree, InRing, Waits
  <1>9. StageOf(d0) = "lent" /\ StageOf(d0)' = "used"
    <2>1. ~InFree(d0)
      BY <1>t, <1>3, Apart, ArrivingHeld DEF InUse
    <2>2. ~InFree(d0)'
      BY <1>1, <2>1 DEF InFree
    <2> QED
      BY <1>3, <1>7, <2>1, <2>2, StageIs DEF InUse
  <1> QED
    BY <1>3, <1>5, <1>6, <1>8, <1>9, StageKept, IsUse DEF LendingStep

\* add_conn fails and pushes the unused dummy back: it is given back free.
LEMMA UndoGivesBack ==
    ASSUME LendingInv, LendingInv', NEW s \in Socks, AddConnRelease(s)
    PROVE  LendingStep
  <1>t. TypeInv /\ NoSharing /\ OnePlace /\ OnePlace'
    BY DEF LendingInv, ExclusiveLending
  <1>0. PICK d0 \in Dummies : d0 = local[s]
    BY <1>t, Typed DEF AddConnRelease, AddConnUndo
  <1>1. /\ local' = [local EXCEPT ![s] = None]
        /\ conn_dummy' = [conn_dummy EXCEPT ![KeyOf[s]] = None]
        /\ sock[s] = "adding" /\ sock' = [sock EXCEPT ![s] = "plain"]
        /\ free_dummies' = Append(free_dummies, d0)
        /\ UNCHANGED <<released_dummies, quarantine, resetting>>
    BY <1>0 DEF AddConnRelease, AddConnUndo, recyclerVars
  <1>2. UNCHANGED conn_dummy
    BY <1>t, <1>1, NoneStored, Typed
  <1>3. Arriving(d0) /\ ~InFree(d0)
    <2>1. Arriving(d0)
      BY <1>0, <1>1 DEF Arriving
    <2> QED
      BY <1>t, <2>1, Apart, ArrivingHeld DEF InUse
  <1>4. InFree(d0)' /\ \A d \in Dummies : d # d0 => (InFree(d)' <=> InFree(d))
    <2>1. ~Occurs(d0, free_dummies)
      BY <1>3 DEF Occurs, InFree
    <2>2. /\ \A x : Occurs(x, free_dummies') => Occurs(x, free_dummies) \/ x = d0
          /\ \A x : Occurs(x, free_dummies) \/ x = d0 => Occurs(x, free_dummies')
      BY <1>t, <1>1, <2>1, Typed, PushPlace, PushKeeps DEF NoSharing
    <2> QED
      BY <2>2 DEF InFree, Occurs
  <1>5. \A d \in Dummies : d # d0 => Same(d)
    <2> SUFFICES ASSUME NEW d \in Dummies, d # d0 PROVE Same(d)
      OBVIOUS
    <2>1. /\ Held(d)' <=> Held(d)
          /\ Arriving(d)' <=> Arriving(d)
      BY <1>t, <1>0, <1>1, Typed DEF Held, Arriving
    <2> QED
      BY <1>1, <1>2, <1>4, <2>1 DEF Same, InUse, ToClean, InRing, Waits, Lent
  <1>6. StageOf(d0) = "lent" /\ StageOf(d0)' = "free"
    BY <1>3, <1>4, StageIs
  <1>7. /\ HoldsOf(s) = d0 /\ HoldsOf(s)' = None
        /\ \A t \in Socks \ {s} : HoldsOf(t)' = HoldsOf(t)
    BY <1>t, <1>0, <1>1, <1>2, Typed DEF HoldsOf
  <1> QED
    BY <1>5, <1>6, <1>7, StageKept, IsGiveBack DEF LendingStep

\* remove_conn takes the dummy from the map into its own hands: a stutter.
LEMMA TakeStays ==
    ASSUME LendingInv, LendingInv', NEW s \in Socks, RemoveConnTake(s)
    PROVE  LendingStep
  <1>t. TypeInv /\ NoSharing /\ OnePlace /\ OnePlace'
    BY DEF LendingInv, ExclusiveLending
  <1>0. PICK d0 \in Dummies : d0 = conn_dummy[KeyOf[s]]
    BY <1>t, Typed DEF RemoveConnTake
  <1>1. /\ local' = [local EXCEPT ![s] = d0]
        /\ conn_dummy' = [conn_dummy EXCEPT ![KeyOf[s]] = None]
        /\ sock[s] = "open" /\ sock' = [sock EXCEPT ![s] = "closing"]
        /\ UNCHANGED <<free_dummies, released_dummies, quarantine, resetting>>
    BY <1>0 DEF RemoveConnTake, poolVars, recyclerVars
  <1>2. local[s] = None
    BY <1>t, <1>1, Typed
  <1>3. \A t \in Socks : HoldsOf(t)' = HoldsOf(t)
    <2> SUFFICES ASSUME NEW t \in Socks PROVE HoldsOf(t)' = HoldsOf(t)
      OBVIOUS
    <2>1. CASE t = s
      BY <1>t, <1>0, <1>1, <2>1, Typed DEF HoldsOf
    <2>2. CASE t # s
      <3>1. sock[t] = "open" => KeyOf[t] # KeyOf[s]
        BY <1>t, <1>1, <2>2, Typed DEF Live
      <3> QED
        BY <1>t, <1>1, <2>2, <3>1, Typed DEF HoldsOf
    <2> QED
      BY <2>1, <2>2
  <1>4. ASSUME NEW d \in Dummies PROVE Same(d)
    <2>1. Arriving(d)' <=> Arriving(d)
      BY <1>t, <1>1, Typed DEF Arriving
    <2>2. InUse(d)' => InUse(d)
      BY <1>t, <1>0, <1>1, Typed DEF InUse, Held, Lent
    <2>3. Held(d) => Held(d)'
      BY <1>t, <1>1, <1>2, Typed DEF Held
    <2>4. Lent(d) => Lent(d)' \/ Held(d)'
      BY <1>t, <1>0, <1>1, Typed DEF Held, Lent
    <2> QED
      BY <1>1, <2>1, <2>2, <2>3, <2>4 DEF Same, InUse, ToClean, InFree, InRing, Waits
  <1> QED
    BY <1>3, <1>4, StageKept, IsStutter DEF LendingStep

\* remove_conn releases the dummy: it is given back dirty, or lost.
LEMMA ReleaseGivesBack ==
    ASSUME LendingInv, LendingInv', NEW s \in Socks, RemoveConnRelease(s)
    PROVE  LendingStep
  <1>t. TypeInv /\ NoSharing /\ OnePlace /\ OnePlace'
    BY DEF LendingInv, ExclusiveLending
  <1>0. PICK d0 \in Dummies : d0 = local[s]
    BY <1>t, Typed DEF RemoveConnRelease, Forget
  <1>1. /\ local' = [local EXCEPT ![s] = None]
        /\ sock[s] = "closing" /\ sock' = [sock EXCEPT ![s] = "closed"]
        /\ released_dummies' \in {released_dummies, Append(released_dummies, d0)}
        /\ UNCHANGED <<conn_dummy, free_dummies, quarantine, resetting>>
    BY <1>0 DEF RemoveConnRelease, Forget, recyclerVars
  <1>2. Held(d0) /\ ~Arriving(d0) /\ ~InFree(d0) /\ ~Lent(d0) /\ ~InRing(d0)
    <2>1. Held(d0)
      BY <1>0 DEF Held
    <2>2. ~Arriving(d0)
      BY <1>t, <1>0, <1>1 DEF Arriving, NoSharing
    <2> QED
      BY <1>t, <2>1, <2>2 DEF OnePlace
  <1>3. \A d \in Dummies : d # d0 => (InRing(d)' <=> InRing(d))
    <2>1. CASE released_dummies' = released_dummies
      BY <2>1 DEF InRing
    <2>2. CASE released_dummies' = Append(released_dummies, d0)
      <3>1. ~Occurs(d0, released_dummies)
        BY <1>2 DEF Occurs, InRing
      <3>2. /\ \A x : Occurs(x, released_dummies') => Occurs(x, released_dummies) \/ x = d0
            /\ \A x : Occurs(x, released_dummies) \/ x = d0 => Occurs(x, released_dummies')
        BY <1>t, <2>2, <3>1, Typed, PushPlace, PushKeeps DEF NoSharing
      <3> QED
        BY <3>2 DEF InRing, Occurs
    <2> QED
      BY <1>1, <2>1, <2>2
  <1>4. \A d \in Dummies : d # d0 => Same(d)
    <2> SUFFICES ASSUME NEW d \in Dummies, d # d0 PROVE Same(d)
      OBVIOUS
    <2>1. /\ Held(d)' <=> Held(d)
          /\ Arriving(d)' <=> Arriving(d)
      BY <1>t, <1>0, <1>1, Typed DEF Held, Arriving
    <2> QED
      BY <1>1, <1>3, <2>1 DEF Same, InUse, ToClean, InFree, Waits, Lent
  <1>5. ~InFree(d0)' /\ ~Arriving(d0)' /\ ~InUse(d0)'
    <2>1. ~Held(d0)'
      BY <1>t, <1>0, <1>1, Typed DEF Held, NoSharing
    <2> QED
      BY <1>1, <1>2, <2>1 DEF InFree, InUse, Lent, Arriving, Held
  <1>6. StageOf(d0) = "used" /\ StageOf(d0)' \in {"dirty", "lost"}
    BY <1>2, <1>5, StageIs DEF InUse
  <1>7. /\ HoldsOf(s) = d0 /\ HoldsOf(s)' = None
        /\ \A t \in Socks \ {s} : HoldsOf(t)' = HoldsOf(t)
    BY <1>t, <1>0, <1>1, Typed DEF HoldsOf
  <1> QED
    BY <1>4, <1>6, <1>7, StageKept, IsGiveBack DEF LendingStep

\* The steps of a connection.
LEMMA ConnSteps ==
    ASSUME LendingInv, LendingInv', NEW s \in Socks,
           AddConnPlain(s) \/ AddConnPop(s) \/ RemoveConnTake(s) \/ ClosePlain(s)
             \/ Callback(s) \/ SkbData(s)
    PROVE  LendingStep
  <1>1. CASE AddConnPlain(s) \/ ClosePlain(s) \/ SkbData(s)
    <2>1. /\ UNCHANGED <<free_dummies, released_dummies, quarantine, local, conn_dummy,
                         resetting>>
          /\ sock' = sock \/ (/\ sock[s] \in {"new", "plain"}
                              /\ sock' \in {[sock EXCEPT ![s] = "plain"],
                                            [sock EXCEPT ![s] = "closed"]})
      BY <1>1 DEF AddConnPlain, Acceptable, ClosePlain, SkbData, connVars, poolVars,
                  recyclerVars
    <2> QED
      BY <2>1, Typed, PlacesStay DEF LendingInv
  <1> QED
    BY <1>1, PopLends, TakeStays, DoneUses, UndoGivesBack, ReleaseGivesBack DEF Callback

\* The recycler's queues: a dummy that waits, in whichever of them, is dirty.
LEMMA QueueSteps ==
    ASSUME LendingInv, LendingInv', Tick \/ Poll \/ Drain
    PROVE  LendingStep
  <1>t. TypeInv /\ NoSharing /\ OnePlace
    BY DEF LendingInv, ExclusiveLending
  <1>1. UNCHANGED <<free_dummies, local, conn_dummy, sock>>
    BY DEF Tick, Poll, Collect, Drain, ResetNext, connVars, poolVars
  <1>2. ASSUME NEW d \in Dummies PROVE ToClean(d)' <=> ToClean(d)
    <2>1. CASE Tick
      <3>1. UNCHANGED <<released_dummies, resetting>>
        BY <2>1 DEF Tick, poolVars
      <3>2. /\ DOMAIN quarantine' = DOMAIN quarantine
            /\ \A i \in DOMAIN quarantine : quarantine'[i].idx = quarantine[i].idx
        BY <1>t, <2>1, Typed, TickFacts
      <3>3. Waits(d)' <=> Waits(d)
        BY <3>2 DEF Waits
      <3> QED
        BY <3>1, <3>3 DEF ToClean, InRing
    <2>2. CASE Poll
      <3>1. released_dummies' = <<>> /\ UNCHANGED resetting
        BY <2>2 DEF Poll, Collect
      <3>2. ~InRing(d)'
        BY <3>1 DEF InRing
      <3>3. Waits(d)' => Waits(d) \/ InRing(d)
        BY <1>t, <2>2, CollectPlace DEF Poll
      <3>4. /\ DOMAIN quarantine' = 1 .. Len(quarantine) + Len(released_dummies)
            /\ \A i \in 1 .. Len(quarantine) : quarantine'[i] = quarantine[i]
            /\ \A i \in 1 .. Len(released_dummies) :
                  quarantine'[Len(quarantine) + i].idx = released_dummies[i]
        BY <1>t, <2>2, Typed, CollectFacts DEF Poll, Collect
      <3>5. /\ DOMAIN quarantine = 1 .. Len(quarantine) /\ Len(quarantine) \in Nat
            /\ DOMAIN released_dummies = 1 .. Len(released_dummies)
            /\ Len(released_dummies) \in Nat
        BY <1>t, Typed
      <3>6. Waits(d) => Waits(d)'
        BY <3>4, <3>5 DEF Waits
      <3>7. InRing(d) => Waits(d)'
        <4>1. \A i \in DOMAIN released_dummies : Len(quarantine) + i \in DOMAIN quarantine'
          BY <3>4, <3>5
        <4> QED
          BY <3>4, <3>5, <4>1 DEF InRing, Waits
      <3> QED
        BY <3>1, <3>2, <3>3, <3>6, <3>7 DEF ToClean
    <2>3. CASE Drain
      <3>1. /\ quarantine # <<>> /\ quarantine' = Tail(quarantine)
            /\ resetting' = Head(quarantine).idx
            /\ UNCHANGED released_dummies
        BY <2>3 DEF Drain, ResetNext, poolVars
      <3>2. resetting # d
        BY <1>t, <2>3 DEF Drain, ResetNext, TypeInv, Control
      <3>5. quarantine \in Seq(Waiting)
        BY <1>t, Typed
      <3>3. Waits(d) => Waits(d)' \/ resetting' = d
        BY <3>1, <3>5, FrontOrRest DEF Waits
      <3>4. Waits(d)' \/ resetting' = d => Waits(d)
        BY <1>t, <3>1, DrainPlace
      <3> QED
        BY <3>1, <3>2, <3>3, <3>4 DEF ToClean, InRing
    <2> QED
      BY <2>1, <2>2, <2>3
  <1>3. \A d \in Dummies : Same(d)
    BY <1>1, <1>2 DEF Same, Arriving, InUse, InFree, Held, Lent
  <1>4. \A t \in Socks : HoldsOf(t)' = HoldsOf(t)
    BY <1>1 DEF HoldsOf
  <1> QED
    BY <1>3, <1>4, StageKept, IsStutter DEF LendingStep

\* The reset ends: the dummy is clean, or lost.
LEMMA ResetCleans ==
    ASSUME LendingInv, LendingInv', ResetFree \/ ResetFails
    PROVE  LendingStep
  <1>t. TypeInv /\ NoSharing /\ OnePlace
    BY DEF LendingInv, ExclusiveLending
  <1>0. PICK d0 \in Dummies : d0 = resetting
    BY <1>t, Typed DEF ResetFree, ResetFails, TypeInv, Control
  <1>1. /\ free_dummies' \in {free_dummies, Append(free_dummies, d0)} /\ resetting' = None
        /\ UNCHANGED <<released_dummies, quarantine, local, conn_dummy, sock>>
    BY <1>0 DEF ResetFree, ResetFails, ResetDone, connVars
  <1>2. ToClean(d0) /\ ~InFree(d0) /\ ~InUse(d0) /\ ~InRing(d0) /\ ~Waits(d0)
    BY <1>t, <1>0 DEF ToClean, InUse, OnePlace
  <1>3. \A d \in Dummies : d # d0 => (InFree(d)' <=> InFree(d))
    <2>1. CASE free_dummies' = free_dummies
      BY <2>1 DEF InFree
    <2>2. CASE free_dummies' = Append(free_dummies, d0)
      <3>1. ~Occurs(d0, free_dummies)
        BY <1>2 DEF Occurs, InFree
      <3>2. /\ \A x : Occurs(x, free_dummies') => Occurs(x, free_dummies) \/ x = d0
            /\ \A x : Occurs(x, free_dummies) \/ x = d0 => Occurs(x, free_dummies')
        BY <1>t, <2>2, <3>1, Typed, PushPlace, PushKeeps DEF NoSharing
      <3> QED
        BY <3>2 DEF InFree, Occurs
    <2> QED
      BY <1>1, <2>1, <2>2
  <1>4. \A d \in Dummies : d # d0 => Same(d)
    BY <1>0, <1>1, <1>3 DEF Same, Arriving, InUse, ToClean, InRing, Waits, Held, Lent
  <1>5. ~Arriving(d0)' /\ ~InUse(d0)' /\ ~ToClean(d0)'
    <2>1. ~Held(d0) /\ ~Lent(d0)
      BY <1>2 DEF InUse
    <2> QED
      BY <1>1, <1>2, <2>1 DEF Arriving, InUse, ToClean, InRing, Waits, Held, Lent
  <1>6. StageOf(d0) = "dirty" /\ StageOf(d0)' \in {"free", "lost"}
    <2>1. ~Arriving(d0)
      BY <1>2, ArrivingHeld DEF InUse
    <2> QED
      BY <1>2, <1>5, <2>1, StageIs
  <1>7. \A t \in Socks : HoldsOf(t)' = HoldsOf(t)
    BY <1>1 DEF HoldsOf
  <1> QED
    BY <1>4, <1>6, <1>7, StageKept, IsClean DEF LendingStep

\* What the others do to a dummy, its worker included, moves none.
LEMMA OtherSteps ==
    ASSUME \/ \E d \in Dummies : Worker(d)
           \/ DrainEnds \/ ResetDelete \/ ResetTakeError \/ ResetUpdate \/ ResetTable
           \/ RecyclerEnds
           \/ UNCHANGED vars
    PROVE  LendingStep
  <1>1. UNCHANGED <<free_dummies, released_dummies, quarantine, local, conn_dummy,
                    resetting, sock>>
    BY DEF Worker, MsgBegin, MsgApplied, MsgFails, MsgRedirect, MsgDrop, DrainEnds,
           ResetDelete, ResetTakeError, ResetUpdate, ResetTable, RecyclerEnds, vars,
           connVars, poolVars, recyclerVars
  <1> QED
    BY <1>1, PlacesStay

\* In the beginning every dummy is free and nobody holds one.
LEMMA LendingInit == Init => Lending!Init
  <1> SUFFICES ASSUME Init PROVE Lending!Init
    OBVIOUS
  <1>1. \A d \in Dummies : InFree(d)
    <2> SUFFICES ASSUME NEW d \in Dummies PROVE InFree(d)
      OBVIOUS
    <2>1. free_dummies = [i \in 1 .. NumDummies |-> i - 1] /\ NumDummies \in Nat
      BY DEF Init
    <2>2. d + 1 \in 1 .. NumDummies /\ (d + 1) - 1 = d
      BY <2>1 DEF Dummies
    <2> QED
      BY <2>1, <2>2 DEF InFree
  <1>2. \A d \in Dummies : StageOf(d) = "free"
    BY <1>1 DEF StageOf
  <1>3. \A s \in Socks : HoldsOf(s) = None
    BY DEF Init, HoldsOf
  <1> QED
    BY <1>2, <1>3 DEF Lending!Init, Lending!Dummies, Dummies

\* For every number of sockets, keys and dummies and every size of the ring buffer,
\* whatever the callbacks, the workers and the recycler do to a dummy is one of the
\* abstract steps: it is lent to one connection at a time and, once used, goes to
\* the next only through the recycler's reset.
THEOREM PoolImplementsLending == Spec => ImplementsLending
  <1>1. Init => LendingInv /\ Lending!Init
    BY InitType, InitLending, LendingInit DEF LendingInv
  <1>2. LendingInv /\ [Next]_vars => LendingInv'
    <2> SUFFICES ASSUME LendingInv, [Next]_vars PROVE LendingInv'
      OBVIOUS
    <2>1. TypeInv'
      BY ConnType, ConnControl, WorkerType, RecyclerType, StutterType
         DEF Next, TypeInv, LendingInv
    <2>2. ExclusiveLending'
      <3>1. CASE UNCHANGED vars
        BY <3>1, PlacesKept DEF LendingInv, vars, connVars, poolVars, recyclerVars
      <3> QED
        BY <3>1, ConnLending, WorkerLending, RecyclerLending DEF Next, LendingInv
    <2> QED
      BY <2>1, <2>2 DEF LendingInv
  <1>3. LendingInv /\ LendingInv' /\ [Next]_vars => [Lending!Next]_(Lending!lendingVars)
    <2> SUFFICES ASSUME LendingInv, LendingInv', [Next]_vars PROVE LendingStep
      BY DEF LendingStep
    <2> QED
      BY ConnSteps, QueueSteps, ResetCleans, OtherSteps DEF Next, Recycle
  <1> QED
    BY <1>1, <1>2, <1>3, PTL DEF Spec, ImplementsLending, Lending!Spec

-----------------------------------------------------------------------------
(* Isolation: that a dummy which can be lent carries nothing of the           *)
(* connections before, and that what a client sends never reaches a connection *)
(* of another address pair.                                                    *)

\* Everything a dummy still carries belongs to one address pair.
Carries(d, k) ==
    /\ \A i \in DOMAIN backlog[d] : KeyOf[backlog[d][i]] = k
    /\ apply[d] # None => KeyOf[apply[d]] = k
    /\ verdict[d] # None => verdict[d].key = k /\ KeyOf[verdict[d].from] = k
    /\ \A t \in dyn_table[d] : KeyOf[t] = k

OneKey ==
    \A d \in Dummies : \E k \in Keys \cup {None} :
        Carries(d, k) /\ (dummy_owners[d].active => dummy_owners[d].conn = k)

\* conn_dummy and dummy_owners are each other's inverse, and sock_map holds a
\* socket under its own key.
MapsAgree ==
    /\ \A k \in Keys : conn_dummy[k] # None =>
          dummy_owners[conn_dummy[k]] = [conn |-> k, active |-> TRUE]
    /\ \A d \in Dummies : dummy_owners[d].active => conn_dummy[dummy_owners[d].conn] = d
    /\ \A k \in Keys : sock_map[k] # None => KeyOf[sock_map[k]] = k

\* A dummy that can be lent, or that add_conn is about to lend.
Ready(d) == InFree(d) \/ \E s \in Socks : sock[s] = "adding" /\ local[s] = d

Idle(d) == backlog[d] = <<>> /\ apply[d] = None /\ verdict[d] = None

\* What the quarantine and the steps of the reset have achieved so far.
Rested ==
    /\ \A d \in Dummies : Ready(d) => Idle(d) /\ dyn_table[d] = {}
    /\ \A i \in DOMAIN quarantine :
          quarantine[i].age > MaxDelay => Quiet(quarantine[i].idx)
    /\ rpc = "delete" => Quiet(resetting)
    /\ rpc \in {"take_error", "update", "table", "free"} => Idle(resetting)
    /\ rpc = "free" => dyn_table[resetting] = {}

\* What makes a dummy usable again.
Usable(d) == d \in dummy_map /\ tx[d] /\ ~sk_err[d]

Restored ==
    /\ rpc # "ended" => \A d \in Dummies : Ready(d) => Usable(d)
    /\ rpc \in {"update", "table", "free"} => ~sk_err[resetting]
    /\ rpc \in {"table", "free"} => Usable(resetting)

CustodyInv == MapsAgree /\ OneKey /\ Rested /\ Restored /\ Isolation

-----------------------------------------------------------------------------
(* The maps *)

\* conn_dummy and dummy_owners change together in every callback, and remove_conn
\* undoes what add_conn recorded.
LEMMA MapsStep ==
    ASSUME LendingInv, MapsAgree, [Next]_vars
    PROVE  MapsAgree'
  <1>t. /\ conn_dummy \in [Keys -> Dummies \cup {None}]
        /\ dummy_owners \in [Dummies -> [conn : Keys \cup {None}, active : BOOLEAN]]
        /\ sock_map \in [Keys -> Socks \cup {None}]
        /\ local \in [Socks -> Dummies \cup {None}]
    BY DEF LendingInv, TypeInv, TypeOK
  <1>k. \A d \in Dummies : dummy_owners[d].active => dummy_owners[d].conn \in Keys
    BY <1>t DEF LendingInv, TypeInv, Control
  <1>l. \A s \in Socks : sock[s] \in {"adding", "closing"} =>
           /\ local[s] \in Dummies
           /\ \A k \in Keys : conn_dummy[k] # local[s]
    BY <1>t DEF LendingInv, TypeInv, Control, ExclusiveLending, OnePlace, Held, Lent
  <1>u. \A s \in Socks : sock[s] \in {"adding", "closing"} => conn_dummy[KeyOf[s]] = None
    BY DEF LendingInv, TypeInv, Control, Live
  <1>1. ASSUME UNCHANGED <<conn_dummy, dummy_owners, sock_map>> PROVE MapsAgree'
    BY <1>1 DEF MapsAgree
  <1>2. ASSUME NEW s \in Socks, AddConnDone(s) PROVE MapsAgree'
    <2>1. /\ dummy_owners' = [dummy_owners EXCEPT
                                ![local[s]] = [conn |-> KeyOf[s], active |-> TRUE]]
          /\ conn_dummy' = [conn_dummy EXCEPT ![KeyOf[s]] = local[s]]
          /\ sock_map' = [sock_map EXCEPT ![KeyOf[s]] = s]
          /\ sock[s] = "adding"
      BY <1>2 DEF AddConnDone
    <2>2. \A k \in Keys : conn_dummy'[k] # None =>
             dummy_owners'[conn_dummy'[k]] = [conn |-> k, active |-> TRUE]
      BY <1>t, <1>l, <2>1 DEF MapsAgree
    <2>3. \A d \in Dummies : dummy_owners'[d].active => conn_dummy'[dummy_owners'[d].conn] = d
      BY <1>t, <1>k, <1>l, <1>u, <2>1 DEF MapsAgree
    <2>4. \A k \in Keys : sock_map'[k] # None => KeyOf[sock_map'[k]] = k
      BY <1>t, <2>1 DEF MapsAgree
    <2> QED
      BY <2>2, <2>3, <2>4 DEF MapsAgree
  <1>3. ASSUME NEW s \in Socks, AddConnRelease(s) PROVE MapsAgree'
    <2>1. /\ dummy_owners' = [dummy_owners EXCEPT
                                ![local[s]] = [conn |-> KeyOf[s], active |-> FALSE]]
          /\ conn_dummy' = [conn_dummy EXCEPT ![KeyOf[s]] = None]
          /\ sock_map' = sock_map
          /\ sock[s] = "adding"
      BY <1>3 DEF AddConnRelease, AddConnUndo
    <2>2. \A k \in Keys : conn_dummy'[k] # None =>
             dummy_owners'[conn_dummy'[k]] = [conn |-> k, active |-> TRUE]
      BY <1>t, <1>l, <2>1 DEF MapsAgree
    <2>3. \A d \in Dummies : dummy_owners'[d].active => conn_dummy'[dummy_owners'[d].conn] = d
      BY <1>t, <1>k, <1>l, <1>u, <2>1 DEF MapsAgree
    <2> QED
      BY <2>1, <2>2, <2>3 DEF MapsAgree
  <1>4. ASSUME NEW s \in Socks, RemoveConnTake(s) PROVE MapsAgree'
    <2>1. /\ dummy_owners' = [dummy_owners EXCEPT ![conn_dummy[KeyOf[s]]] =
                                [conn |-> KeyOf[s], active |-> FALSE]]
          /\ conn_dummy' = [conn_dummy EXCEPT ![KeyOf[s]] = None]
          /\ sock_map' = sock_map
          /\ KeyOf[s] \in Keys /\ conn_dummy[KeyOf[s]] \in Dummies
      BY <1>4, <1>t DEF RemoveConnTake, LendingInv, TypeInv, Control
    <2>2. \A k \in Keys : conn_dummy'[k] # None =>
             dummy_owners'[conn_dummy'[k]] = [conn |-> k, active |-> TRUE]
      BY <1>t, <2>1 DEF MapsAgree, LendingInv, ExclusiveLending, NoSharing
    <2>3. \A d \in Dummies : dummy_owners'[d].active => conn_dummy'[dummy_owners'[d].conn] = d
      BY <1>t, <1>k, <2>1 DEF MapsAgree
    <2> QED
      BY <2>1, <2>2, <2>3 DEF MapsAgree
  <1>5. ASSUME NEW s \in Socks, RemoveConnRelease(s) PROVE MapsAgree'
    <2>1. /\ UNCHANGED <<conn_dummy, dummy_owners>>
          /\ sock_map' = [sock_map EXCEPT ![KeyOf[s]] = None]
      BY <1>5 DEF RemoveConnRelease, Forget
    <2> QED
      BY <1>t, <2>1 DEF MapsAgree
  <1> QED
    BY <1>1, <1>2, <1>3, <1>4, <1>5
       DEF Next, Callback, Worker, Recycle, vars, connVars, AddConnPlain, AddConnPop,
           AddConnTakes, ClosePlain, SkbData, MsgBegin, MsgApplied, MsgFails,
           MsgRedirect, MsgDrop, Tick, Poll, Collect, Drain, DrainEnds, ResetNext,
           ResetDelete, ResetTakeError, ResetUpdate, ResetTable, ResetFree,
           ResetFails, ResetDone, RecyclerEnds

-----------------------------------------------------------------------------
(* What a dummy carries *)

OwnKey(d, k) == Carries(d, k) /\ (dummy_owners[d].active => dummy_owners[d].conn = k)

\* A step that gives one dummy a key, and leaves the others alone.
LEMMA OneKeyFrom ==
    ASSUME OneKey, NEW d0 \in Dummies, NEW k0 \in Keys \cup {None}, OwnKey(d0, k0)',
           \A d \in Dummies \ {d0} :
              /\ backlog'[d] = backlog[d] /\ apply'[d] = apply[d]
              /\ verdict'[d] = verdict[d] /\ dyn_table'[d] = dyn_table[d]
              /\ dummy_owners'[d] = dummy_owners[d]
    PROVE  OneKey'
  BY DEF OneKey, OwnKey, Carries

\* Every socket that is sent for shares its key with what the dummy carries.
LEMMA OneKeyConn ==
    ASSUME LendingInv, CustodyInv, NEW s \in Socks,
           AddConnPlain(s) \/ AddConnPop(s) \/ RemoveConnTake(s) \/ ClosePlain(s)
             \/ Callback(s) \/ SkbData(s)
    PROVE  OneKey'
  <1>t. /\ conn_dummy \in [Keys -> Dummies \cup {None}]
        /\ dummy_owners \in [Dummies -> [conn : Keys \cup {None}, active : BOOLEAN]]
        /\ local \in [Socks -> Dummies \cup {None}]
        /\ backlog \in [Dummies -> Seq(Socks)]
        /\ KeyOf[s] \in Keys
    BY DEF LendingInv, TypeInv, TypeOK
  <1>c. OneKey
    BY DEF CustodyInv
  <1>1. CASE AddConnPlain(s) \/ AddConnPop(s) \/ ClosePlain(s) \/ RemoveConnRelease(s)
    BY <1>1, <1>c
       DEF OneKey, Carries, AddConnPlain, AddConnPop, AddConnTakes, ClosePlain,
           RemoveConnRelease, Forget, msgVars
  <1>2. CASE AddConnDone(s)
    <2>1. /\ dummy_owners' = [dummy_owners EXCEPT
                                ![local[s]] = [conn |-> KeyOf[s], active |-> TRUE]]
          /\ UNCHANGED <<backlog, apply, verdict, dyn_table>>
          /\ sock[s] = "adding"
      BY <1>2 DEF AddConnDone, msgVars
    <2>2. PICK d0 \in Dummies : d0 = local[s]
      BY <1>t, <2>1 DEF LendingInv, TypeInv, Control
    <2>3. Idle(d0) /\ dyn_table[d0] = {}
      BY <2>1, <2>2 DEF CustodyInv, Rested, Ready
    <2>4. OwnKey(d0, KeyOf[s])'
      BY <1>t, <2>1, <2>2, <2>3 DEF OwnKey, Carries, Idle
    <2> QED
      BY <1>c, <1>t, <2>1, <2>2, <2>4, OneKeyFrom
  <1>3. CASE AddConnRelease(s) \/ RemoveConnTake(s)
    <2>1. PICK d0 \in Dummies :
             /\ dummy_owners' = [dummy_owners EXCEPT
                                   ![d0] = [conn |-> KeyOf[s], active |-> FALSE]]
             /\ UNCHANGED <<backlog, apply, verdict, dyn_table>>
      BY <1>3, <1>t
         DEF AddConnRelease, AddConnUndo, RemoveConnTake, msgVars, LendingInv,
             TypeInv, Control
    <2>2. PICK k \in Keys \cup {None} : OwnKey(d0, k)
      BY <1>c DEF OneKey, OwnKey
    <2>3. OwnKey(d0, k)'
      BY <1>t, <2>1, <2>2 DEF OwnKey, Carries
    <2> QED
      BY <1>c, <1>t, <2>1, <2>3, OneKeyFrom
  <1>4. CASE SkbData(s)
    <2>0. PICK d0 \in Dummies : d0 = conn_dummy[KeyOf[s]]
      BY <1>4, <1>t DEF SkbData, LendingInv, TypeInv, Control
    <2>1. /\ backlog' = [backlog EXCEPT ![d0] = Append(@, s)]
          /\ UNCHANGED <<dummy_owners, apply, verdict, dyn_table>>
      BY <1>4, <2>0 DEF SkbData, connVars
    <2>2. dummy_owners[d0] = [conn |-> KeyOf[s], active |-> TRUE]
      BY <1>t, <2>0 DEF CustodyInv, MapsAgree
    <2>3. OwnKey(d0, KeyOf[s])
      BY <1>c, <2>2 DEF OneKey, OwnKey
    <2>4. backlog[d0] \in Seq(Socks) /\ backlog'[d0] = Append(backlog[d0], s)
      BY <1>t, <2>1, <2>2
    <2>5. DOMAIN backlog[d0] = 1 .. Len(backlog[d0]) /\ Len(backlog[d0]) \in Nat
      BY <2>4
    <2>6. \A i \in DOMAIN backlog'[d0] : KeyOf[backlog'[d0][i]] = KeyOf[s]
      BY <2>3, <2>4, <2>5, AppendFacts DEF OwnKey, Carries
    <2>7. OwnKey(d0, KeyOf[s])'
      BY <2>1, <2>3, <2>6 DEF OwnKey, Carries
    <2> QED
      BY <1>c, <1>t, <2>1, <2>2, <2>7, OneKeyFrom
  <1> QED
    BY <1>1, <1>2, <1>3, <1>4 DEF Callback

\* What a worker moves between the dummy and the maps stays with its key.
LEMMA OneKeyWorker ==
    ASSUME LendingInv, CustodyInv, NEW d \in Dummies, Worker(d)
    PROVE  OneKey'
  <1>t. /\ dummy_owners \in [Dummies -> [conn : Keys \cup {None}, active : BOOLEAN]]
        /\ sock_map \in [Keys -> Socks \cup {None}]
        /\ backlog \in [Dummies -> Seq(Socks)]
        /\ apply \in [Dummies -> Socks \cup {None}]
        /\ dyn_table \in [Dummies -> SUBSET Socks]
        /\ verdict \in [Dummies -> Run \cup {None}]
        /\ UNCHANGED dummy_owners
    BY DEF LendingInv, TypeInv, TypeOK, Worker, MsgBegin, MsgApplied, MsgFails,
           MsgRedirect, MsgDrop, connVars
  <1>c. OneKey
    BY DEF CustodyInv
  <1>k. PICK k \in Keys \cup {None} : OwnKey(d, k)
    BY <1>c DEF OneKey, OwnKey
  <1>h. backlog[d] # <<>> =>
          /\ KeyOf[Head(backlog[d])] = k
          /\ \A i \in DOMAIN Tail(backlog[d]) : KeyOf[Tail(backlog[d])[i]] = k
    <2> SUFFICES ASSUME backlog[d] # <<>>
                 PROVE  /\ KeyOf[Head(backlog[d])] = k
                        /\ \A i \in DOMAIN Tail(backlog[d]) : KeyOf[Tail(backlog[d])[i]] = k
      OBVIOUS
    <2>1. backlog[d] \in Seq(Socks)
      BY <1>t
    <2>2. DOMAIN backlog[d] = 1 .. Len(backlog[d])
      BY <2>1
    <2>3. \A i \in 1 .. Len(backlog[d]) : KeyOf[backlog[d][i]] = k
      BY <1>k, <2>2 DEF OwnKey, Carries
    <2> QED
      BY <2>1, <2>3, TailFacts
  <1>1. CASE MsgBegin(d)
    <2>1. /\ verdict' = [verdict EXCEPT ![d] = [from |-> Head(backlog[d]),
                                                key |-> dummy_owners[d].conn]]
          /\ backlog' = [backlog EXCEPT ![d] = Tail(@)]
          /\ UNCHANGED <<apply, dyn_table>>
          /\ backlog[d] # <<>> /\ dummy_owners[d].active
      BY <1>1 DEF MsgBegin, Sends
    <2>2. OwnKey(d, k)'
      BY <1>t, <1>k, <1>h, <2>1 DEF OwnKey, Carries
    <2> QED
      BY <1>c, <1>t, <2>1, <2>2, OneKeyFrom
  <1>2. CASE MsgApplied(d)
    <2>1. /\ backlog' = [backlog EXCEPT ![d] = Tail(@)]
          /\ apply' \in {apply, [apply EXCEPT ![d] = None]}
          /\ UNCHANGED <<verdict, dyn_table>>
          /\ backlog[d] # <<>>
      BY <1>2 DEF MsgApplied, Sends
    <2>2. OwnKey(d, k)'
      BY <1>t, <1>k, <1>h, <2>1 DEF OwnKey, Carries
    <2> QED
      BY <1>c, <1>t, <2>1, <2>2, OneKeyFrom
  <1>3. CASE MsgFails(d)
    <2>1. UNCHANGED <<backlog, apply, verdict, dyn_table>>
      BY <1>3 DEF MsgFails
    <2>2. \A e \in Dummies, j \in Keys \cup {None} : OwnKey(e, j) => OwnKey(e, j)'
      BY <1>t, <2>1 DEF OwnKey, Carries
    <2> QED
      BY <1>c, <2>2 DEF OneKey, OwnKey
  <1>4. CASE MsgRedirect(d) \/ MsgDrop(d)
    <2>1. /\ verdict[d] \in Run /\ verdict[d].key = k /\ KeyOf[verdict[d].from] = k
          /\ verdict' = [verdict EXCEPT ![d] = None]
          /\ dyn_table' \in {dyn_table, [dyn_table EXCEPT ![d] = @ \cup {verdict[d].from}]}
          /\ UNCHANGED backlog
      BY <1>4, <1>k, <1>t DEF MsgRedirect, MsgDrop, Tracks, OwnKey, Carries
    <2>2. \A t \in dyn_table'[d] : KeyOf[t] = k
      BY <1>t, <1>k, <2>1 DEF OwnKey, Carries
    <2>3. apply'[d] # None => KeyOf[apply'[d]] = k
      <3>1. CASE MsgRedirect(d)
        <4>1. /\ sock_map[k] # None /\ k \in Keys
              /\ apply' \in {apply, [apply EXCEPT ![d] = sock_map[k]]}
          BY <3>1, <2>1 DEF MsgRedirect, Run
        <4>2. KeyOf[sock_map[k]] = k
          BY <4>1 DEF CustodyInv, MapsAgree
        <4> QED
          BY <1>t, <1>k, <4>1, <4>2 DEF OwnKey, Carries
      <3>2. CASE MsgDrop(d)
        BY <3>2, <1>k DEF MsgDrop, OwnKey, Carries
      <3> QED
        BY <1>4, <3>1, <3>2
    <2>4. OwnKey(d, k)'
      BY <1>t, <1>k, <2>1, <2>2, <2>3 DEF OwnKey, Carries
    <2>5. \A e \in Dummies \ {d} :
             apply'[e] = apply[e] /\ dyn_table'[e] = dyn_table[e] /\ verdict'[e] = verdict[e]
      BY <1>4, <1>t, <2>1 DEF MsgRedirect, MsgDrop
    <2> QED
      BY <1>c, <1>t, <2>1, <2>4, <2>5, OneKeyFrom
  <1> QED
    BY <1>1, <1>2, <1>3, <1>4 DEF Worker

\* The recycler adds nothing to what a dummy carries.
LEMMA OneKeyRecycler ==
    ASSUME LendingInv, CustodyInv, Tick \/ Recycle \/ RecyclerEnds
    PROVE  OneKey'
  <1>t. /\ backlog \in [Dummies -> Seq(Socks)]
        /\ apply \in [Dummies -> Socks \cup {None}]
        /\ dyn_table \in [Dummies -> SUBSET Socks]
        /\ UNCHANGED dummy_owners
    BY DEF LendingInv, TypeInv, TypeOK, Tick, Recycle, Poll, Collect, Drain, DrainEnds,
           ResetNext, ResetDelete, ResetTakeError, ResetUpdate, ResetTable, ResetFree,
           ResetFails, ResetDone, RecyclerEnds, connVars
  <1>c. OneKey
    BY DEF CustodyInv
  <1>1. CASE ResetDelete
    <2>1. /\ backlog' \in {backlog, [backlog EXCEPT ![resetting] = <<>>]}
          /\ apply' \in {apply, [apply EXCEPT ![resetting] = None]}
          /\ UNCHANGED <<verdict, dyn_table>>
      BY <1>1 DEF ResetDelete
    <2>2. \A d \in Dummies, k \in Keys \cup {None} : OwnKey(d, k) => OwnKey(d, k)'
      BY <1>t, <2>1 DEF OwnKey, Carries
    <2> QED
      BY <1>c, <2>2 DEF OneKey, OwnKey
  <1>2. CASE ResetTable
    <2>1. /\ dyn_table' = [dyn_table EXCEPT ![resetting] = {}]
          /\ UNCHANGED <<verdict, backlog, apply>>
      BY <1>2 DEF ResetTable
    <2>2. \A d \in Dummies, k \in Keys \cup {None} : OwnKey(d, k) => OwnKey(d, k)'
      BY <1>t, <2>1 DEF OwnKey, Carries
    <2> QED
      BY <1>c, <2>2 DEF OneKey, OwnKey
  <1>3. CASE UNCHANGED <<verdict, backlog, apply, dyn_table>>
    BY <1>c, <1>t, <1>3 DEF OneKey, Carries
  <1> QED
    BY <1>1, <1>2, <1>3
       DEF Tick, Recycle, Poll, Collect, Drain, DrainEnds, ResetNext, ResetTakeError,
           ResetUpdate, ResetFree, ResetFails, ResetDone, RecyclerEnds, msgVars

-----------------------------------------------------------------------------
(* The quarantine and the reset *)

\* A dummy that can be lent is nowhere else.
LEMMA ReadyApart ==
    ASSUME LendingInv, NEW d \in Dummies, Ready(d)
    PROVE  ~Lent(d) /\ ~Waits(d) /\ resetting # d
  BY DEF LendingInv, TypeInv, TypeOK, ExclusiveLending, OnePlace, Ready, Held

\* The sockops callbacks make no dummy lendable that was not.
LEMMA ReadyConn ==
    ASSUME LendingInv, NEW s \in Socks,
           AddConnPlain(s) \/ AddConnPop(s) \/ RemoveConnTake(s) \/ ClosePlain(s)
             \/ Callback(s) \/ SkbData(s)
    PROVE  \A d \in Dummies : Ready(d)' => Ready(d)
  <1>t. /\ free_dummies \in Seq(Dummies)
        /\ sock \in [Socks -> {"new", "adding", "open", "plain", "closing", "closed"}]
        /\ local \in [Socks -> Dummies \cup {None}]
    BY DEF LendingInv, TypeInv, TypeOK
  <1>1. CASE AddConnPop(s)
    <2>1. /\ free_dummies # <<>> /\ free_dummies' = Tail(free_dummies)
          /\ local' = [local EXCEPT ![s] = Head(free_dummies)]
          /\ sock' = [sock EXCEPT ![s] = "adding"]
      BY <1>1 DEF AddConnPop, AddConnTakes
    <2>2. InFree(Head(free_dummies)) /\ \A d : InFree(d)' => InFree(d)
      BY <1>t, <2>1, PopPlace DEF LendingInv, ExclusiveLending, NoSharing, InFree, Occurs
    <2> QED
      BY <1>t, <2>1, <2>2 DEF Ready
  <1>2. CASE AddConnRelease(s)
    <2>1. /\ free_dummies' = Append(free_dummies, local[s])
          /\ sock[s] = "adding" /\ sock' = [sock EXCEPT ![s] = "plain"]
          /\ local' = [local EXCEPT ![s] = None]
      BY <1>2 DEF AddConnRelease, AddConnUndo
    <2>2. local[s] \in Dummies /\ Held(local[s])
      BY <1>t, <2>1 DEF LendingInv, TypeInv, Control, Held
    <2>3. ~Occurs(local[s], free_dummies)
      BY <2>2 DEF Occurs, LendingInv, ExclusiveLending, OnePlace, InFree
    <2>4. \A d : InFree(d)' => InFree(d) \/ d = local[s]
      BY <1>t, <2>1, <2>2, <2>3, PushPlace
         DEF LendingInv, ExclusiveLending, NoSharing, InFree, Occurs
    <2> QED
      BY <1>t, <2>1, <2>4 DEF Ready
  <1>3. CASE AddConnPlain(s) \/ RemoveConnTake(s) \/ ClosePlain(s) \/ AddConnDone(s)
               \/ RemoveConnRelease(s) \/ SkbData(s)
    <2>1. /\ free_dummies' = free_dummies
          /\ \A t \in Socks : sock'[t] = "adding" => sock[t] = "adding" /\ local'[t] = local[t]
      BY <1>3, <1>t
         DEF AddConnPlain, RemoveConnTake, ClosePlain, AddConnDone, RemoveConnRelease,
             Forget, SkbData, connVars, poolVars
    <2> QED
      BY <2>1 DEF Ready, InFree
  <1> QED
    BY <1>1, <1>2, <1>3 DEF Callback

\* skb_verdict only queues on a dummy that is lent.
LEMMA SkbApart ==
    ASSUME LendingInv, NEW s \in Socks, SkbData(s)
    PROVE  \A d \in Dummies : backlog'[d] = backlog[d] \/ Lent(d)
  BY DEF LendingInv, TypeInv, TypeOK, SkbData, Lent

\* A callback lends only what is idle and usable, and wakes nothing that waits.
LEMMA RestedConn ==
    ASSUME LendingInv, CustodyInv, NEW s \in Socks,
           AddConnPlain(s) \/ AddConnPop(s) \/ RemoveConnTake(s) \/ ClosePlain(s)
             \/ Callback(s) \/ SkbData(s)
    PROVE  Rested' /\ Restored'
  <1>r. \A d \in Dummies : Ready(d)' => Ready(d)
    BY ReadyConn
  <1>c. Rested /\ Restored
    BY DEF CustodyInv
  <1>1. /\ UNCHANGED <<dummy_map, tx, apply, sk_err, dyn_table, verdict, recyclerVars>>
        /\ \A d \in Dummies : backlog'[d] = backlog[d] \/ Lent(d)
    <2>1. CASE SkbData(s)
      BY <2>1, SkbApart DEF SkbData
    <2>2. CASE ~SkbData(s)
      BY <2>2
         DEF AddConnPlain, AddConnPop, AddConnTakes, RemoveConnTake, ClosePlain, Callback,
             AddConnDone, AddConnRelease, AddConnUndo, RemoveConnRelease, Forget, msgVars
    <2> QED
      BY <2>1, <2>2
  <1>2. \A d \in Dummies : Ready(d)' => Idle(d)' /\ dyn_table'[d] = {}
    BY <1>r, <1>c, <1>1, ReadyApart DEF Rested, Idle
  <1>3. \A d \in Dummies : ~Lent(d) /\ Quiet(d) => Quiet(d)'
    BY <1>1 DEF Quiet
  <1>4. \A i \in DOMAIN quarantine : quarantine[i].idx \in Dummies /\ ~Lent(quarantine[i].idx)
    <2>1. \A i \in DOMAIN quarantine : quarantine[i] \in Waiting
      BY DEF LendingInv, TypeInv, TypeOK
    <2> QED
      BY <2>1 DEF Waiting, LendingInv, ExclusiveLending, OnePlace, Waits
  <1>5. resetting # None => resetting \in Dummies /\ ~Lent(resetting)
    BY DEF LendingInv, TypeInv, TypeOK, ExclusiveLending, OnePlace
  <1>6. /\ rpc = "delete" => Quiet(resetting)'
        /\ rpc \in {"take_error", "update", "table", "free"} => Idle(resetting)'
        /\ UNCHANGED <<quarantine, rpc, resetting>>
    BY <1>c, <1>1, <1>3, <1>5 DEF Rested, Idle, recyclerVars, LendingInv, TypeInv, Control
  <1>7. \A i \in DOMAIN quarantine : quarantine[i].age > MaxDelay => Quiet(quarantine[i].idx)'
    BY <1>c, <1>3, <1>4, <1>6 DEF Rested
  <1>8. Rested'
    BY <1>c, <1>1, <1>2, <1>6, <1>7 DEF Rested
  <1>9. Restored'
    BY <1>c, <1>r, <1>1, <1>6 DEF Restored, Usable
  <1> QED
    BY <1>8, <1>9

\* The worker of a dummy that is quiet does nothing, and no worker touches a
\* dummy that is not its own.
LEMMA RestedWorker ==
    ASSUME LendingInv, CustodyInv, NEW d \in Dummies, Worker(d)
    PROVE  Rested' /\ Restored'
  <1>t. /\ tx \in [Dummies -> BOOLEAN] /\ sk_err \in [Dummies -> BOOLEAN]
        /\ backlog \in [Dummies -> Seq(Socks)]
        /\ apply \in [Dummies -> Socks \cup {None}]
        /\ dyn_table \in [Dummies -> SUBSET Socks]
        /\ verdict \in [Dummies -> Run \cup {None}]
    BY DEF LendingInv, TypeInv, TypeOK
  <1>c. Rested /\ Restored
    BY DEF CustodyInv
  <1>1. /\ UNCHANGED <<dummy_map, free_dummies, sock, local, quarantine, rpc, resetting>>
        /\ ~Quiet(d)
    BY DEF Worker, MsgBegin, MsgApplied, MsgFails, MsgRedirect, MsgDrop, Sends, Quiet,
           connVars, poolVars, recyclerVars
  <1>2. \A e \in Dummies \ {d} :
           /\ backlog'[e] = backlog[e] /\ apply'[e] = apply[e] /\ verdict'[e] = verdict[e]
           /\ tx'[e] = tx[e] /\ sk_err'[e] = sk_err[e] /\ dyn_table'[e] = dyn_table[e]
    <2>1. CASE MsgBegin(d)
      BY <2>1, <1>t DEF MsgBegin
    <2>2. CASE MsgApplied(d)
      BY <2>2, <1>t DEF MsgApplied
    <2>3. CASE MsgFails(d)
      BY <2>3, <1>t DEF MsgFails
    <2>4. CASE MsgRedirect(d)
      BY <2>4, <1>t DEF MsgRedirect, Tracks
    <2>5. CASE MsgDrop(d)
      BY <2>5, <1>t DEF MsgDrop, Tracks
    <2> QED
      BY <2>1, <2>2, <2>3, <2>4, <2>5 DEF Worker
  <1>3. \A e \in Dummies : Ready(e)' => Ready(e) /\ e # d
    BY <1>c, <1>1 DEF Ready, InFree, Rested, Idle, Quiet
  <1>4. \A e \in Dummies : Quiet(e) => Quiet(e)' /\ e # d
    BY <1>1, <1>2 DEF Quiet
  <1>5. \A e \in Dummies : Idle(e) => Idle(e)' /\ e # d
    BY <1>1, <1>2 DEF Idle, Quiet
  <1>6. \A i \in DOMAIN quarantine : quarantine[i].idx \in Dummies
    <2>1. \A i \in DOMAIN quarantine : quarantine[i] \in Waiting
      BY DEF LendingInv, TypeInv, TypeOK
    <2> QED
      BY <2>1 DEF Waiting
  <1>7. rpc \in {"delete", "take_error", "update", "table", "free"} =>
           resetting \in Dummies /\ resetting # d
    BY <1>c, <1>1 DEF Rested, Idle, Quiet, LendingInv, TypeInv, TypeOK, Control
  <1>8. Rested'
    <2>1. \A e \in Dummies : Ready(e)' => Idle(e)' /\ dyn_table'[e] = {}
      BY <1>c, <1>2, <1>3, <1>5 DEF Rested
    <2>2. \A i \in DOMAIN quarantine' :
             (quarantine[i].age > MaxDelay => Quiet(quarantine[i].idx))'
      BY <1>c, <1>1, <1>4, <1>6 DEF Rested
    <2>3. rpc' = "delete" => Quiet(resetting)'
      BY <1>c, <1>1, <1>4, <1>7 DEF Rested
    <2>4. rpc' \in {"take_error", "update", "table", "free"} => Idle(resetting)'
      BY <1>c, <1>1, <1>5, <1>7 DEF Rested
    <2>5. rpc' = "free" => dyn_table'[resetting'] = {}
      BY <1>c, <1>1, <1>2, <1>7 DEF Rested
    <2> QED
      BY <2>1, <2>2, <2>3, <2>4, <2>5 DEF Rested
  <1>9. Restored'
    BY <1>c, <1>1, <1>2, <1>3, <1>7 DEF Restored, Usable
  <1> QED
    BY <1>8, <1>9

\* The quarantine outlasts the backlog, and each step of the reset keeps what the
\* ones before it achieved: the dummy that is freed is idle, empty and usable.
LEMMA RestedRecycler ==
    ASSUME LendingInv, CustodyInv, Tick \/ Recycle \/ RecyclerEnds
    PROVE  Rested' /\ Restored'
  <1>t. /\ tx \in [Dummies -> BOOLEAN] /\ sk_err \in [Dummies -> BOOLEAN]
        /\ backlog \in [Dummies -> Seq(Socks)]
        /\ apply \in [Dummies -> Socks \cup {None}]
        /\ dyn_table \in [Dummies -> SUBSET Socks]
        /\ free_dummies \in Seq(Dummies) /\ released_dummies \in Seq(Dummies)
        /\ quarantine \in Seq(Waiting)
    BY DEF LendingInv, TypeInv, TypeOK
  <1>c. Rested /\ Restored
    BY DEF CustodyInv
  <1>q. \A i \in DOMAIN quarantine :
           quarantine[i].idx \in Dummies /\ quarantine[i].age \in Nat
    <2>1. \A i \in DOMAIN quarantine : quarantine[i] \in Waiting
      BY <1>t
    <2> QED
      BY <2>1 DEF Waiting
  <1>p. rpc \in {"delete", "take_error", "update", "table", "free"} =>
           /\ resetting \in Dummies /\ ~InFree(resetting) /\ ~Ready(resetting)
           /\ \A i \in DOMAIN quarantine : quarantine[i].idx # resetting
    <2>1. rpc \in {"delete", "take_error", "update", "table", "free"} => resetting \in Dummies
      BY DEF LendingInv, TypeInv, TypeOK, Control
    <2>2. \A d \in Dummies : Ready(d) \/ Waits(d) => resetting # d
      BY ReadyApart DEF LendingInv, ExclusiveLending, OnePlace
    <2> QED
      BY <2>1, <2>2 DEF Waits, Ready
  <1>1. CASE Tick
    <2>1. UNCHANGED <<sock, local, msgVars, free_dummies, rpc, resetting>>
      BY <1>1 DEF Tick, connVars, poolVars
    <2>2. \A i \in DOMAIN quarantine :
             quarantine'[i].age > MaxDelay => quarantine[i].age >= MaxDelay
      BY <1>1, <1>q DEF Tick
    <2>3. /\ DOMAIN quarantine' = DOMAIN quarantine
          /\ \A i \in DOMAIN quarantine : quarantine'[i].idx = quarantine[i].idx
          /\ \A i \in DOMAIN quarantine :
                quarantine[i].age >= MaxDelay => Quiet(quarantine[i].idx)
      BY <1>1, <1>t, TickFacts
    <2>4. \A i \in DOMAIN quarantine' :
             (quarantine[i].age > MaxDelay => Quiet(quarantine[i].idx))'
      BY <2>1, <2>2, <2>3 DEF Quiet, msgVars
    <2>5. Rested'
      BY <1>c, <2>1, <2>4 DEF Rested, Ready, InFree, Idle, Quiet, msgVars
    <2>6. Restored'
      BY <1>c, <2>1 DEF Restored, Ready, InFree, Usable, msgVars
    <2> QED
      BY <2>5, <2>6
  <1>2. CASE Poll
    <2>1. /\ UNCHANGED <<sock, local, msgVars, free_dummies, resetting>>
          /\ rpc' = "drain" /\ rpc = "poll"
      BY <1>2 DEF Poll, Collect, connVars
    <2>2. /\ DOMAIN quarantine' = 1 .. Len(quarantine) + Len(released_dummies)
          /\ \A i \in 1 .. Len(quarantine) : quarantine'[i] = quarantine[i]
          /\ \A i \in 1 .. Len(released_dummies) :
                quarantine'[Len(quarantine) + i].age = 0
      BY <1>2, <1>t, CollectFacts DEF Poll, Collect
    <2>3. /\ Len(quarantine) \in Nat /\ Len(released_dummies) \in Nat
          /\ DOMAIN quarantine = 1 .. Len(quarantine)
      BY <1>t
    <2>4. \A i \in DOMAIN quarantine' :
             quarantine'[i].age > MaxDelay => i \in 1 .. Len(quarantine)
      <3> SUFFICES ASSUME NEW i \in DOMAIN quarantine', i \notin 1 .. Len(quarantine)
                   PROVE  quarantine'[i].age = 0
        OBVIOUS
      <3>1. i - Len(quarantine) \in 1 .. Len(released_dummies)
        BY <2>2, <2>3
      <3>2. Len(quarantine) + (i - Len(quarantine)) = i
        BY <2>2, <2>3
      <3> QED
        BY <2>2, <3>1, <3>2
    <2>5. \A i \in DOMAIN quarantine' :
             (quarantine[i].age > MaxDelay => Quiet(quarantine[i].idx))'
      BY <1>c, <2>1, <2>2, <2>3, <2>4 DEF Rested, Quiet, msgVars
    <2>6. Rested'
      BY <1>c, <2>1, <2>5 DEF Rested, Ready, InFree, Idle, msgVars
    <2>7. Restored'
      BY <1>c, <2>1 DEF Restored, Ready, InFree, Usable, msgVars
    <2> QED
      BY <2>6, <2>7
  <1>3. CASE Drain
    <2>1. /\ UNCHANGED <<sock, local, msgVars, free_dummies>>
          /\ quarantine # <<>> /\ quarantine' = Tail(quarantine)
          /\ resetting' = Head(quarantine).idx /\ Head(quarantine).age >= Quarantine
          /\ rpc' = "delete" /\ rpc = "drain"
      BY <1>3 DEF Drain, ResetNext, connVars, poolVars
    <2>2. /\ Head(quarantine) = quarantine[1] /\ 1 \in DOMAIN quarantine
          /\ \A i \in DOMAIN quarantine' :
                i + 1 \in DOMAIN quarantine /\ quarantine'[i] = quarantine[i + 1]
      <3>1. DOMAIN quarantine = 1 .. Len(quarantine)
        BY <1>t
      <3> QED
        BY <1>t, <2>1, <3>1, TailFacts
    <2>3. quarantine[1].age > MaxDelay
      BY <1>q, <2>1, <2>2
    <2>4. Quiet(resetting)'
      BY <1>c, <2>1, <2>2, <2>3 DEF Rested, Quiet, msgVars
    <2>5. \A i \in DOMAIN quarantine' :
             (quarantine[i].age > MaxDelay => Quiet(quarantine[i].idx))'
      BY <1>c, <2>1, <2>2 DEF Rested, Quiet, msgVars
    <2>6. Rested'
      BY <1>c, <2>1, <2>4, <2>5 DEF Rested, Ready, InFree, Idle, Quiet, msgVars
    <2>7. Restored'
      BY <1>c, <2>1 DEF Restored, Ready, InFree, Usable, msgVars
    <2> QED
      BY <2>6, <2>7
  <1>4. CASE DrainEnds \/ ResetFails \/ RecyclerEnds
    <2>1. /\ UNCHANGED <<sock, local, backlog, apply, sk_err, dyn_table, verdict,
                         free_dummies, quarantine>>
          /\ \A d \in Dummies : Quiet(d) => Quiet(d)'
      BY <1>4, <1>t DEF DrainEnds, ResetFails, ResetDone, RecyclerEnds, connVars, msgVars,
                    poolVars, Quiet
    <2>2. /\ rpc' \in {"poll", "drain", "ended"}
          /\ rpc' # "ended" => UNCHANGED <<tx, dummy_map>> /\ rpc # "ended"
      BY <1>4 DEF DrainEnds, ResetFails, ResetDone, RecyclerEnds, msgVars
    <2>3. Rested'
      BY <1>c, <1>q, <2>1, <2>2 DEF Rested, Ready, InFree, Idle
    <2>4. Restored'
      BY <1>c, <2>1, <2>2 DEF Restored, Ready, InFree, Usable
    <2> QED
      BY <2>3, <2>4
  <1>5. CASE ResetDelete \/ ResetTakeError \/ ResetUpdate \/ ResetTable
    <2>1. /\ UNCHANGED <<sock, local, free_dummies, quarantine, resetting, verdict>>
          /\ rpc \in {"delete", "take_error", "update", "table"}
      BY <1>5 DEF ResetDelete, ResetTakeError, ResetUpdate, ResetTable, connVars, poolVars
    <2>2. \A d \in Dummies : d # resetting =>
             /\ backlog'[d] = backlog[d] /\ apply'[d] = apply[d] /\ tx'[d] = tx[d]
             /\ sk_err'[d] = sk_err[d] /\ dyn_table'[d] = dyn_table[d]
             /\ (d \in dummy_map' <=> d \in dummy_map)
      <3>1. CASE ResetDelete
        BY <3>1, <1>t DEF ResetDelete
      <3>2. CASE ResetTakeError
        BY <3>2, <1>t DEF ResetTakeError
      <3>3. CASE ResetUpdate
        BY <3>3, <1>t DEF ResetUpdate
      <3>4. CASE ResetTable
        BY <3>4, <1>t DEF ResetTable
      <3> QED
        BY <1>5, <3>1, <3>2, <3>3, <3>4
    <2>3. resetting \in Dummies
      BY <1>p, <2>1
    <2>4. /\ rpc' \in {"take_error", "update", "table", "free"}
          /\ Idle(resetting)'
          /\ rpc' = "free" => dyn_table'[resetting] = {}
          /\ rpc' \in {"update", "table", "free"} => ~sk_err'[resetting]
          /\ rpc' \in {"table", "free"} => Usable(resetting)'
      <3>1. CASE ResetDelete
        BY <3>1, <1>t, <1>c, <2>3 DEF ResetDelete, Rested, Quiet, Idle
      <3>2. CASE ResetTakeError
        BY <3>2, <1>t, <1>c, <2>3 DEF ResetTakeError, Rested, Idle
      <3>3. CASE ResetUpdate
        BY <3>3, <1>t, <1>c, <2>3 DEF ResetUpdate, Rested, Restored, Idle, Usable
      <3>4. CASE ResetTable
        BY <3>4, <1>t, <1>c, <2>3 DEF ResetTable, Rested, Restored, Idle, Usable
      <3> QED
        BY <1>5, <3>1, <3>2, <3>3, <3>4
    <2>5. \A d \in Dummies : Ready(d)' => Ready(d) /\ d # resetting
      BY <1>p, <2>1 DEF Ready, InFree
    <2>6. \A i \in DOMAIN quarantine' :
             (quarantine[i].age > MaxDelay => Quiet(quarantine[i].idx))'
      BY <1>c, <1>p, <1>q, <2>1, <2>2 DEF Rested, Quiet
    <2>7. Rested'
      BY <1>c, <2>1, <2>2, <2>4, <2>5, <2>6 DEF Rested, Idle
    <2>8. Restored'
      BY <1>c, <2>1, <2>2, <2>4, <2>5 DEF Restored, Usable
    <2> QED
      BY <2>7, <2>8
  <1>6. CASE ResetFree
    <2>1. /\ UNCHANGED <<sock, local, msgVars, quarantine>>
          /\ free_dummies' = Append(free_dummies, resetting)
          /\ rpc = "free" /\ rpc' = "drain"
      BY <1>6 DEF ResetFree, ResetDone, connVars
    <2>2. resetting \in Dummies /\ ~Occurs(resetting, free_dummies)
      BY <1>p, <2>1 DEF Occurs, InFree
    <2>3. \A d : InFree(d)' => InFree(d) \/ d = resetting
      BY <1>t, <2>1, <2>2, PushPlace
         DEF LendingInv, ExclusiveLending, NoSharing, InFree, Occurs
    <2>4. \A d \in Dummies : Ready(d)' => Ready(d) \/ d = resetting
      BY <2>1, <2>3 DEF Ready
    <2>5. Rested'
      BY <1>c, <2>1, <2>4 DEF Rested, Idle, Quiet, msgVars
    <2>6. Restored'
      BY <1>c, <2>1, <2>4 DEF Restored, Usable, msgVars
    <2> QED
      BY <2>5, <2>6
  <1> QED
    BY <1>1, <1>2, <1>3, <1>4, <1>5, <1>6 DEF Recycle

-----------------------------------------------------------------------------
(* The theorems *)

\* Bytes go where the key of what the dummy carries points to: to its own key.
LEMMA IsolationStep ==
    ASSUME LendingInv, CustodyInv, [Next]_vars
    PROVE  Isolation'
  <1>t. /\ got \in [Socks -> SUBSET Socks]
        /\ sock_map \in [Keys -> Socks \cup {None}]
        /\ verdict \in [Dummies -> Run \cup {None}]
        /\ backlog \in [Dummies -> Seq(Socks)]
        /\ apply \in [Dummies -> Socks \cup {None}]
    BY DEF LendingInv, TypeInv, TypeOK
  <1>c. Isolation
    BY DEF CustodyInv
  <1>1. ASSUME NEW d \in Dummies, MsgApplied(d) PROVE Isolation'
    <2>1. /\ backlog[d] # <<>> /\ apply[d] \in Socks
          /\ got' = [got EXCEPT ![apply[d]] = @ \cup {Head(backlog[d])}]
      BY <1>1, <1>t DEF MsgApplied, Sends
    <2>2. PICK k : Carries(d, k)
      BY DEF CustodyInv, OneKey
    <2>3. Head(backlog[d]) = backlog[d][1] /\ 1 \in DOMAIN backlog[d]
      <3>1. backlog[d] \in Seq(Socks)
        BY <1>t
      <3> QED
        BY <2>1, <3>1
    <2>4. KeyOf[Head(backlog[d])] = KeyOf[apply[d]]
      BY <2>1, <2>2, <2>3 DEF Carries
    <2> QED
      BY <1>c, <1>t, <2>1, <2>4 DEF Isolation
  <1>2. ASSUME NEW d \in Dummies, MsgRedirect(d) PROVE Isolation'
    <2> DEFINE v == verdict[d]
    <2>1. /\ v \in Run /\ sock_map[v.key] \in Socks
          /\ got' = [got EXCEPT ![sock_map[v.key]] = @ \cup {v.from}]
      BY <1>2, <1>t DEF MsgRedirect, Run
    <2>2. KeyOf[v.from] = v.key
      BY <1>2 DEF MsgRedirect, CustodyInv, OneKey, Carries
    <2>3. KeyOf[sock_map[v.key]] = v.key
      BY <2>1 DEF CustodyInv, MapsAgree, Run
    <2> QED
      BY <1>c, <1>t, <2>1, <2>2, <2>3 DEF Isolation
  <1>3. CASE UNCHANGED got
    BY <1>c, <1>3 DEF Isolation
  <1> QED
    BY <1>1, <1>2, <1>3
       DEF Next, Callback, Worker, Recycle, vars, AddConnPlain, AddConnPop,
           AddConnTakes, AddConnDone, AddConnRelease, AddConnUndo, RemoveConnTake,
           RemoveConnRelease, Forget, ClosePlain, SkbData, MsgBegin, MsgFails, MsgDrop,
           Tick, Poll, Collect, Drain, DrainEnds, ResetNext, ResetDelete,
           ResetTakeError, ResetUpdate, ResetTable, ResetFree, ResetFails, ResetDone,
           RecyclerEnds

\* A new dummy carries nothing and is usable.
LEMMA InitCustody == Init => CustodyInv
  <1> SUFFICES ASSUME Init PROVE CustodyInv
    OBVIOUS
  <1>1. MapsAgree
    BY DEF Init, MapsAgree
  <1>2. OneKey
    BY DEF Init, OneKey, Carries
  <1>3. Rested
    BY DEF Init, Rested, Idle
  <1>4. Restored
    BY DEF Init, Restored, Usable, Ready, InFree
  <1>5. Isolation
    BY DEF Init, Isolation
  <1> QED
    BY <1>1, <1>2, <1>3, <1>4, <1>5 DEF CustodyInv

\* A stuttering step keeps the custody of the dummies.
LEMMA StutterCustody == CustodyInv /\ UNCHANGED vars => CustodyInv'
  BY DEF CustodyInv, MapsAgree, OneKey, Carries, Rested, Ready, InFree, Idle, Quiet,
         Restored, Usable, Isolation, vars, connVars, msgVars, poolVars, recyclerVars

PoolInv == LendingInv /\ CustodyInv

\* The types, the exclusive lending and the custody are invariants together.
LEMMA PoolInvariant == Spec => []PoolInv
  <1>1. Init => PoolInv
    BY InitType, InitLending, InitCustody DEF PoolInv, LendingInv
  <1>2. PoolInv /\ [Next]_vars => PoolInv'
    <2> SUFFICES ASSUME PoolInv, [Next]_vars PROVE PoolInv'
      OBVIOUS
    <2>1. LendingInv /\ CustodyInv
      BY DEF PoolInv
    <2>2. LendingInv'
      <3>1. CASE UNCHANGED vars
        BY <2>1, <3>1, StutterType, PlacesKept
           DEF LendingInv, vars, connVars, poolVars, recyclerVars
      <3> QED
        BY <2>1, <3>1, ConnType, ConnControl, WorkerType, RecyclerType, ConnLending,
           WorkerLending, RecyclerLending DEF Next, TypeInv, LendingInv
    <2>3. CustodyInv'
      <3>1. CASE UNCHANGED vars
        BY <2>1, <3>1, StutterCustody
      <3>2. CASE Next
        <4>1. MapsAgree' /\ Isolation'
          BY <2>1, MapsStep, IsolationStep DEF CustodyInv
        <4>2. OneKey'
          BY <2>1, <3>2, OneKeyConn, OneKeyWorker, OneKeyRecycler DEF Next
        <4>3. Rested' /\ Restored'
          BY <2>1, <3>2, RestedConn, RestedWorker, RestedRecycler DEF Next
        <4> QED
          BY <4>1, <4>2, <4>3 DEF CustodyInv
      <3> QED
        BY <3>1, <3>2
    <2> QED
      BY <2>2, <2>3 DEF PoolInv
  <1> QED
    BY <1>1, <1>2, PTL DEF Spec

\* What a client sends never goes out on, or into, a connection of another
\* address pair, for every interleaving of the callbacks, the workers and the
\* recycler: apply_bytes and queued sk_buffs of one lending never reach the next.
THEOREM PoolIsolates == Spec => []Isolation
  <1>1. PoolInv => Isolation
    BY DEF PoolInv, CustodyInv
  <1> QED
    BY PoolInvariant, <1>1, PTL

\* While the recycler runs, every dummy that can be lent is as good as new.
THEOREM LendableIsFresh == Spec => []FreeDummiesAreFresh
  <1>1. PoolInv => FreeDummiesAreFresh
    <2> SUFFICES ASSUME PoolInv, rpc # "ended", NEW d \in Dummies, InFree(d)
                 PROVE  /\ d \in dummy_map /\ tx[d] /\ ~sk_err[d]
                        /\ backlog[d] = <<>> /\ verdict[d] = None /\ apply[d] = None
                        /\ dyn_table[d] = {}
                        /\ ~dummy_owners[d].active
      BY DEF FreeDummiesAreFresh
    <2>1. Ready(d)
      BY DEF Ready
    <2>2. ~dummy_owners[d].active
      <3>1. ~Lent(d)
        BY <2>1, ReadyApart DEF PoolInv
      <3>2. dummy_owners[d].active => dummy_owners[d].conn \in Keys
        BY DEF PoolInv, LendingInv, TypeInv, TypeOK, Control
      <3> QED
        BY <3>1, <3>2 DEF PoolInv, CustodyInv, MapsAgree, Lent
    <2> QED
      BY <2>1, <2>2 DEF PoolInv, CustodyInv, Rested, Restored, Idle, Usable
  <1> QED
    BY PoolInvariant, <1>1, PTL

\* A message is parsed against a table only its own address pair has added to.
THEOREM TablesAreOwn == Spec => []TableIsOwn
  <1>1. PoolInv => TableIsOwn
    BY DEF PoolInv, CustodyInv, OneKey, Carries, TableIsOwn
  <1> QED
    BY PoolInvariant, <1>1, PTL
=============================================================================
