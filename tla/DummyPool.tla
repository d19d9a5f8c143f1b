----------------------------- MODULE DummyPool -----------------------------
(***************************************************************************)
(* The pool of dummy sockets: how a dummy is lent to an accepted           *)
(* connection, carries what its client sends through msg_verdict, is taken *)
(* back when the connection closes, waits out its quarantine and is reset  *)
(* by the recycler thread before it is lent again.                         *)
(*                                                                         *)
(* The actors run concurrently: the sockops callbacks add_conn and         *)
(* remove_conn (under the lock of the client's socket), skb_verdict (under *)
(* the same lock, hence one step), msg_verdict (in the backlog worker of   *)
(* the dummy, under no lock the others take) and the recycler thread.      *)
(*                                                                         *)
(* A message is abstracted to the socket whose client sent it.  Sockets    *)
(* are instances: two of them may have the same key (address pair), one    *)
(* after the other.                                                        *)
(***************************************************************************)
EXTENDS Naturals, Sequences

CONSTANTS
    Socks,          \* the sockets the server accepts over time
    Keys,           \* their struct ip4_conn keys
    KeyOf,          \* the key of a socket
    NumDummies,     \* the size of the pool
    None,           \* no entry in a map, no value in a variable
    RingCap,        \* how many records released_dummies holds
    Quarantine,     \* QUARANTINE, in ticks
    MaxDelay,       \* ticks a released dummy's backlog takes to come to rest
    MaxBacklog      \* bound: sk_buffs queued on one dummy

Dummies == 0 .. NumDummies - 1

ASSUME KeyAssumption == KeyOf \in [Socks -> Keys]

ASSUME NoneAssumption == None \notin Socks /\ None \notin Keys /\ None \notin Dummies

\* QUARANTINE is chosen to outlast what the backlog still works off.
ASSUME BoundsAssumption ==
    /\ NumDummies \in Nat /\ RingCap \in Nat /\ MaxBacklog \in Nat
    /\ MaxDelay \in Nat /\ Quarantine \in Nat /\ MaxDelay < Quarantine

VARIABLES
    sock,               \* where each socket is in its life
    local,              \* the dummy a sockops callback of the socket holds
    sock_map,           \* the socket stored under a key
    free_dummies,       \* queue of indices
    conn_dummy,         \* the dummy stored under a key
    dummy_owners,       \* struct dummy_owner of each dummy
    conn_state,         \* upgraded_conns, flow_ctl, dt_dirty: whose entries
    released_dummies,   \* ring buffer of indices
    dummy_map,          \* the dummies in the sockmap
    tx,                 \* whether the dummy's psock still sends
    backlog,            \* the psock's queue: who sent each sk_buff
    apply,              \* the socket an unfinished bpf_msg_apply_bytes goes to
    sk_err,             \* whether an error is pending on the dummy
    dyn_table,          \* whose entries the parser's table for the dummy holds
    verdict,            \* the msg_verdict running on the dummy
    quarantine,         \* the recycler's VecDeque: index and age
    rpc,                \* where the recycler is
    resetting,          \* the dummy the recycler resets
    failed,             \* history: dummies reported lost
    got                 \* history: whose bytes went out on or into a socket

connVars == <<sock, local, sock_map, conn_dummy, dummy_owners>>
msgVars == <<dummy_map, tx, backlog, apply, sk_err, dyn_table, verdict>>
poolVars == <<free_dummies, released_dummies, failed>>
recyclerVars == <<quarantine, rpc, resetting>>
vars == <<connVars, msgVars, poolVars, recyclerVars, got, conn_state>>

Waiting == [idx : Dummies, age : 0 .. Quarantine]
Run == [from : Socks, key : Keys]

TypeOK ==
    /\ sock \in [Socks -> {"new", "adding", "open", "plain", "closing", "closed"}]
    /\ local \in [Socks -> Dummies \cup {None}]
    /\ sock_map \in [Keys -> Socks \cup {None}]
    /\ conn_dummy \in [Keys -> Dummies \cup {None}]
    /\ dummy_owners \in [Dummies -> [conn : Keys \cup {None}, active : BOOLEAN]]
    /\ conn_state \in [Keys -> Socks \cup {None}]
    /\ free_dummies \in Seq(Dummies)
    /\ released_dummies \in Seq(Dummies) /\ Len(released_dummies) <= RingCap
    /\ failed \subseteq Dummies
    /\ dummy_map \subseteq Dummies
    /\ tx \in [Dummies -> BOOLEAN]
    /\ sk_err \in [Dummies -> BOOLEAN]
    /\ backlog \in [Dummies -> Seq(Socks)]
    /\ apply \in [Dummies -> Socks \cup {None}]
    /\ dyn_table \in [Dummies -> SUBSET Socks]
    /\ verdict \in [Dummies -> Run \cup {None}]
    /\ quarantine \in Seq(Waiting)
    /\ rpc \in {"poll", "drain", "delete", "take_error", "update", "table",
                "free", "ended"}
    /\ resetting \in Dummies \cup {None}
    /\ got \in [Socks -> SUBSET Socks]

\* DummyPool::new has filled the queue in order before the sockops program is
\* attached, so no socket exists yet.
Init ==
    /\ sock = [s \in Socks |-> "new"]
    /\ local = [s \in Socks |-> None]
    /\ sock_map = [k \in Keys |-> None]
    /\ conn_dummy = [k \in Keys |-> None]
    /\ dummy_owners = [d \in Dummies |-> [conn |-> None, active |-> FALSE]]
    /\ conn_state = [k \in Keys |-> None]
    /\ free_dummies = [i \in 1 .. NumDummies |-> i - 1]
    /\ released_dummies = <<>>
    /\ failed = {}
    /\ dummy_map = Dummies
    /\ tx = [d \in Dummies |-> TRUE]
    /\ sk_err = [d \in Dummies |-> FALSE]
    /\ backlog = [d \in Dummies |-> <<>>]
    /\ apply = [d \in Dummies |-> None]
    /\ dyn_table = [d \in Dummies |-> {}]
    /\ verdict = [d \in Dummies |-> None]
    /\ quarantine = <<>>
    /\ rpc = "poll"
    /\ resetting = None
    /\ got = [s \in Socks |-> {}]

-----------------------------------------------------------------------------
(* monitor_sockets: add_conn and remove_conn *)

\* The kernel has one socket at a time under a key.
Live(s) == sock[s] \notin {"new", "closed"}
Acceptable(s) == sock[s] = "new" /\ \A t \in Socks : KeyOf[t] = KeyOf[s] => ~Live(t)

\* add_conn finds no dummy left and leaves the connection to user space.
AddConnPlain(s) ==
    /\ Acceptable(s)
    /\ free_dummies = <<>>
    /\ sock' = [sock EXCEPT ![s] = "plain"]
    /\ UNCHANGED <<local, sock_map, conn_dummy, dummy_owners, conn_state,
                   msgVars, poolVars, recyclerVars, got>>

AddConnTakes(s) ==
    /\ Acceptable(s)
    /\ free_dummies # <<>>
    /\ local' = [local EXCEPT ![s] = Head(free_dummies)]
    /\ sock' = [sock EXCEPT ![s] = "adding"]
    /\ UNCHANGED <<sock_map, conn_dummy, dummy_owners, conn_state, msgVars,
                   released_dummies, failed, recyclerVars, got>>

\* The slip of a pop that only peeks.
AddConnPeek(s) == AddConnTakes(s) /\ free_dummies' = free_dummies

\* add_conn pops a dummy.
AddConnPop(s) == AddConnTakes(s) /\ free_dummies' = Tail(free_dummies)

\* The owner is recorded, the connection finds its dummy, the socket is added.
AddConnDone(s) ==
    /\ sock[s] = "adding"
    /\ dummy_owners' = [dummy_owners EXCEPT
                          ![local[s]] = [conn |-> KeyOf[s], active |-> TRUE]]
    /\ conn_dummy' = [conn_dummy EXCEPT ![KeyOf[s]] = local[s]]
    /\ sock_map' = [sock_map EXCEPT ![KeyOf[s]] = s]
    /\ sock' = [sock EXCEPT ![s] = "open"]
    /\ local' = [local EXCEPT ![s] = None]
    /\ UNCHANGED <<conn_state, msgVars, poolVars, recyclerVars, got>>

AddConnUndo(s) ==
    /\ sock[s] = "adding"
    /\ conn_dummy' = [conn_dummy EXCEPT ![KeyOf[s]] = None]
    /\ dummy_owners' = [dummy_owners EXCEPT
                          ![local[s]] = [conn |-> KeyOf[s], active |-> FALSE]]
    /\ sock' = [sock EXCEPT ![s] = "plain"]
    /\ local' = [local EXCEPT ![s] = None]
    /\ UNCHANGED <<sock_map, conn_state, msgVars, released_dummies, failed,
                   recyclerVars, got>>

\* The slip of a release that forgets to push the dummy.
AddConnReleaseKeeps(s) == AddConnUndo(s) /\ free_dummies' = free_dummies

\* One of the updates failed: the label release undoes the ones before it and
\* pushes the dummy back, which was never used.
AddConnRelease(s) ==
    AddConnUndo(s) /\ free_dummies' = Append(free_dummies, local[s])

\* remove_conn up to the dummy being marked inactive.
RemoveConnTake(s) ==
    /\ sock[s] = "open"
    /\ local' = [local EXCEPT ![s] = conn_dummy[KeyOf[s]]]
    /\ conn_dummy' = [conn_dummy EXCEPT ![KeyOf[s]] = None]
    /\ dummy_owners' = [dummy_owners EXCEPT
                          ![conn_dummy[KeyOf[s]]] = [conn |-> KeyOf[s], active |-> FALSE]]
    /\ sock' = [sock EXCEPT ![s] = "closing"]
    /\ UNCHANGED <<sock_map, conn_state, msgVars, poolVars, recyclerVars, got>>

\* The connection's entries are deleted.  The kernel unhashes the socket, and
\* takes it out of sock_map, after the callback.
Forget(s) ==
    /\ sock[s] = "closing"
    /\ conn_state' = [conn_state EXCEPT ![KeyOf[s]] = None]
    /\ sock_map' = [sock_map EXCEPT ![KeyOf[s]] = None]
    /\ sock' = [sock EXCEPT ![s] = "closed"]
    /\ local' = [local EXCEPT ![s] = None]
    /\ UNCHANGED <<conn_dummy, dummy_owners, msgVars, recyclerVars, got>>

\* The slip of a ring buffer whose reservation is not checked.
RemoveConnReleaseUnchecked(s) ==
    /\ Forget(s)
    /\ released_dummies' = Append(released_dummies, local[s])
    /\ UNCHANGED <<free_dummies, failed>>

\* The slip of a release that skips the recycler.
RemoveConnReleaseFree(s) ==
    /\ Forget(s)
    /\ free_dummies' = Append(free_dummies, local[s])
    /\ UNCHANGED <<released_dummies, failed>>

\* The rest of remove_conn: the dummy is released, or lost when the ring buffer
\* has no room for it.
RemoveConnRelease(s) ==
    /\ Forget(s)
    /\ IF Len(released_dummies) < RingCap
       THEN /\ released_dummies' = Append(released_dummies, local[s])
            /\ failed' = failed
       ELSE /\ failed' = failed \cup {local[s]}
            /\ released_dummies' = released_dummies
    /\ UNCHANGED free_dummies

\* A connection without a dummy closes: remove_conn finds nothing to take back.
ClosePlain(s) ==
    /\ sock[s] = "plain"
    /\ sock' = [sock EXCEPT ![s] = "closed"]
    /\ UNCHANGED <<local, sock_map, conn_dummy, dummy_owners, conn_state,
                   msgVars, poolVars, recyclerVars, got>>

-----------------------------------------------------------------------------
(* skb_verdict *)

\* What the client sent is queued on the dummy.  A dummy that is not in the map
\* or no longer sends has it dropped, and the end of the stream, an empty
\* sk_buff, is passed to the socket directly: neither changes anything here.
SkbData(s) ==
    LET d == conn_dummy[KeyOf[s]] IN
    /\ sock[s] = "open"
    /\ d \in dummy_map /\ tx[d] /\ Len(backlog[d]) < MaxBacklog
    /\ backlog' = [backlog EXCEPT ![d] = Append(@, s)]
    /\ UNCHANGED <<connVars, conn_state, dummy_map, tx, apply, sk_err, dyn_table,
                   verdict, poolVars, recyclerVars, got>>

-----------------------------------------------------------------------------
(* The dummy's backlog worker and msg_verdict *)

\* The worker has something to send and no send of its is under way.
Sends(d) == tx[d] /\ backlog[d] # <<>> /\ verdict[d] = None

\* msg_verdict starts: it copies the owner's key while the owner is active.
MsgBegin(d) ==
    /\ Sends(d) /\ ~sk_err[d] /\ apply[d] = None
    /\ dummy_owners[d].active
    /\ verdict' = [verdict EXCEPT ![d] = [from |-> Head(backlog[d]),
                                          key |-> dummy_owners[d].conn]]
    /\ backlog' = [backlog EXCEPT ![d] = Tail(@)]
    /\ UNCHANGED <<connVars, conn_state, dummy_map, tx, apply, sk_err, dyn_table,
                   poolVars, recyclerVars, got>>

\* An unfinished bpf_msg_apply_bytes: the bytes follow the verdict it was set
\* with to the same socket, and msg_verdict does not run.
MsgApplied(d) ==
    /\ Sends(d) /\ ~sk_err[d] /\ apply[d] # None
    /\ sock[apply[d]] # "closed"
    /\ got' = [got EXCEPT ![apply[d]] = @ \cup {Head(backlog[d])}]
    /\ backlog' = [backlog EXCEPT ![d] = Tail(@)]
    /\ apply' \in {apply, [apply EXCEPT ![d] = None]}
    /\ UNCHANGED <<connVars, conn_state, dummy_map, tx, sk_err, dyn_table, verdict,
                   poolVars, recyclerVars>>

\* A send fails: an error is pending, msg_verdict drops what is left over from
\* a connection that closed, or the socket the bytes go to has closed.  The
\* backlog gives up: the psock stops sending and an error is left on the dummy.
MsgFails(d) ==
    /\ Sends(d)
    /\ \/ sk_err[d]
       \/ apply[d] = None /\ ~dummy_owners[d].active
       \/ apply[d] # None /\ sock[apply[d]] = "closed"
    /\ tx' = [tx EXCEPT ![d] = FALSE]
    /\ sk_err' = [sk_err EXCEPT ![d] = TRUE]
    /\ UNCHANGED <<connVars, conn_state, dummy_map, backlog, apply, dyn_table,
                   verdict, poolVars, recyclerVars, got>>

\* What a run of msg_verdict leaves in the maps: the parser may add to the
\* dummy's table, and the entries of the connection may be written.
Tracks(d) ==
    /\ dyn_table' \in {dyn_table, [dyn_table EXCEPT ![d] = @ \cup {verdict[d].from}]}
    /\ conn_state' \in {conn_state, [conn_state EXCEPT ![verdict[d].key] = verdict[d].from]}

\* msg_verdict ends in a redirect to the socket sock_map holds for the key, to
\* its egress (served) or its ingress (to_user_space, which may reach past the
\* end of the message).
MsgRedirect(d) ==
    /\ verdict[d] # None
    /\ sock_map[verdict[d].key] # None
    /\ got' = [got EXCEPT ![sock_map[verdict[d].key]] = @ \cup {verdict[d].from}]
    /\ apply' \in {apply, [apply EXCEPT ![d] = sock_map[verdict[d].key]]}
    /\ Tracks(d)
    /\ verdict' = [verdict EXCEPT ![d] = None]
    /\ UNCHANGED <<connVars, dummy_map, tx, backlog, sk_err, poolVars,
                   recyclerVars>>

\* msg_verdict drops the message, or finds no socket to redirect it to.
MsgDrop(d) ==
    /\ verdict[d] # None
    /\ Tracks(d)
    /\ verdict' = [verdict EXCEPT ![d] = None]
    /\ tx' = [tx EXCEPT ![d] = FALSE]
    /\ sk_err' = [sk_err EXCEPT ![d] = TRUE]
    /\ UNCHANGED <<connVars, dummy_map, backlog, apply, poolVars, recyclerVars,
                   got>>
-----------------------------------------------------------------------------
(* The recycler thread *)

\* Nothing is being sent on the dummy, and nothing it has queued will be.
Quiet(d) == verdict[d] = None /\ (backlog[d] = <<>> \/ ~tx[d])

\* Time passes for what waits.  A dummy comes to rest within MaxDelay ticks of
\* its release at the latest, which is what QUARANTINE relies on.
Tick ==
    /\ \E i \in DOMAIN quarantine : quarantine[i].age < Quarantine
    /\ \A i \in DOMAIN quarantine :
          quarantine[i].age >= MaxDelay => Quiet(quarantine[i].idx)
    /\ quarantine' = [i \in DOMAIN quarantine |->
                        [idx |-> quarantine[i].idx,
                         age |-> IF quarantine[i].age < Quarantine
                                 THEN quarantine[i].age + 1 ELSE Quarantine]]
    /\ UNCHANGED <<connVars, conn_state, msgVars, poolVars, rpc, resetting, got>>

Collect ==
    /\ rpc = "poll"
    /\ quarantine' = quarantine \o
          [i \in DOMAIN released_dummies |-> [idx |-> released_dummies[i], age |-> 0]]
    /\ released_dummies' = <<>>
    /\ rpc' = "drain"
    /\ UNCHANGED <<connVars, conn_state, msgVars, free_dummies, failed, resetting, got>>

\* The slip of a poll without a timeout: it only returns with a record.
PollBlocking == released_dummies # <<>> /\ Collect

\* poll returns with what was released, or after POLL_INTERVAL with nothing.
Poll == Collect

\* poll fails, or stop is set: the thread returns, and with it go the sockets
\* of all dummies, which the kernel takes out of the map as they close.
RecyclerEnds ==
    /\ rpc = "poll"
    /\ rpc' = "ended"
    /\ dummy_map' = {}
    /\ tx' = [d \in Dummies |-> FALSE]
    /\ UNCHANGED <<connVars, conn_state, backlog, apply, sk_err, dyn_table,
                   verdict, poolVars, quarantine, resetting, got>>

ResetNext ==
    /\ rpc = "drain" /\ quarantine # <<>>
    /\ resetting' = Head(quarantine).idx
    /\ quarantine' = Tail(quarantine)
    /\ rpc' = "delete"
    /\ UNCHANGED <<connVars, conn_state, msgVars, poolVars, got>>

\* The slip of a drain that does not wait.
DrainEager == ResetNext

\* The dummy released first has waited long enough and is reset.
Drain == ResetNext /\ Head(quarantine).age >= Quarantine

\* None has, so the recycler polls again.
DrainEnds ==
    /\ rpc = "drain"
    /\ quarantine # <<>> => Head(quarantine).age < Quarantine
    /\ rpc' = "poll"
    /\ UNCHANGED <<connVars, conn_state, msgVars, poolVars, quarantine, resetting,
                   got>>

\* Taking the dummy out of the map drops its psock, and what that has queued,
\* unless it is in use.
ResetDelete ==
    LET d == resetting IN
    /\ rpc = "delete" /\ d \in dummy_map
    /\ dummy_map' = dummy_map \ {d}
    /\ IF verdict[d] = None
       THEN /\ tx' = [tx EXCEPT ![d] = FALSE]
            /\ backlog' = [backlog EXCEPT ![d] = <<>>]
            /\ apply' = [apply EXCEPT ![d] = None]
       ELSE UNCHANGED <<tx, backlog, apply>>
    /\ rpc' = "take_error"
    /\ UNCHANGED <<connVars, conn_state, sk_err, dyn_table, verdict, poolVars,
                   quarantine, resetting, got>>

ResetTakeError ==
    /\ rpc = "take_error"
    /\ sk_err' = [sk_err EXCEPT ![resetting] = FALSE]
    /\ rpc' = "update"
    /\ UNCHANGED <<connVars, conn_state, dummy_map, tx, backlog, apply, dyn_table,
                   verdict, poolVars, quarantine, resetting, got>>

\* Adding the dummy again sets up a fresh psock, or finds the one in use.
ResetUpdate ==
    LET d == resetting IN
    /\ rpc = "update"
    /\ dummy_map' = dummy_map \cup {d}
    /\ tx' = [tx EXCEPT ![d] = verdict[d] = None \/ @]
    /\ rpc' = "table"
    /\ UNCHANGED <<connVars, conn_state, backlog, apply, sk_err, dyn_table, verdict,
                   poolVars, quarantine, resetting, got>>

\* The slip of a reset that leaves the parser's table alone.
ResetTableSkipped ==
    /\ rpc = "table"
    /\ rpc' = "free"
    /\ UNCHANGED <<connVars, conn_state, msgVars, poolVars, quarantine, resetting,
                   got>>

\* The parser starts a connection it has no entry for with an empty table.
ResetTable ==
    /\ rpc = "table"
    /\ dyn_table' = [dyn_table EXCEPT ![resetting] = {}]
    /\ rpc' = "free"
    /\ UNCHANGED <<connVars, conn_state, dummy_map, tx, backlog, apply, sk_err,
                   verdict, poolVars, quarantine, resetting, got>>

ResetDone ==
    /\ resetting' = None
    /\ rpc' = "drain"
    /\ UNCHANGED <<connVars, conn_state, msgVars, released_dummies, quarantine, got>>

\* The dummy goes back into the pool.
ResetFree ==
    /\ rpc = "free"
    /\ ResetDone
    /\ free_dummies' = Append(free_dummies, resetting)
    /\ UNCHANGED failed

\* The slip of an error that returns the dummy to the pool half reset.
ResetFailsFrees ==
    /\ rpc \in {"delete", "take_error", "update", "table", "free"}
    /\ ResetDone
    /\ free_dummies' = Append(free_dummies, resetting)
    /\ UNCHANGED failed

\* A step of the reset fails: it returns early and the dummy is lost.
ResetFails ==
    /\ rpc \in {"delete", "take_error", "update", "table", "free"}
    /\ ResetDone
    /\ failed' = failed \cup {resetting}
    /\ UNCHANGED free_dummies

-----------------------------------------------------------------------------
Callback(s) == AddConnDone(s) \/ AddConnRelease(s) \/ RemoveConnRelease(s)

Worker(d) == MsgBegin(d) \/ MsgApplied(d) \/ MsgFails(d) \/ MsgRedirect(d) \/ MsgDrop(d)

Recycle ==
    \/ Poll
    \/ Drain
    \/ DrainEnds
    \/ ResetDelete
    \/ ResetTakeError
    \/ ResetUpdate
    \/ ResetTable
    \/ ResetFree
    \/ ResetFails

Next ==
    \/ \E s \in Socks : AddConnPlain(s)
    \/ \E s \in Socks : AddConnPop(s)
    \/ \E s \in Socks : RemoveConnTake(s)
    \/ \E s \in Socks : ClosePlain(s)
    \/ \E s \in Socks : Callback(s)
    \/ \E s \in Socks : SkbData(s)
    \/ \E d \in Dummies : Worker(d)
    \/ Tick
    \/ Recycle
    \/ RecyclerEnds

Spec == Init /\ [][Next]_vars

\* Callbacks return, workers send, time passes and the recycler runs.
Fairness ==
    /\ \A s \in Socks : WF_vars(Callback(s))
    /\ \A d \in Dummies : WF_vars(Worker(d))
    /\ WF_vars(Tick)
    /\ WF_vars(Recycle)

FairSpec == Spec /\ Fairness

-----------------------------------------------------------------------------
(* Where a dummy is *)

InFree(d) == \E i \in DOMAIN free_dummies : free_dummies[i] = d
InRing(d) == \E i \in DOMAIN released_dummies : released_dummies[i] = d
Waits(d) == \E i \in DOMAIN quarantine : quarantine[i].idx = d
Held(d) == \E s \in Socks : local[s] = d
Lent(d) == \E k \in Keys : conn_dummy[k] = d

\* A queue holds no dummy twice, no dummy is held or lent twice, and none is in
\* two places at once: between add_conn's pop and the recycler's push a dummy
\* has exactly one holder.
NoRepeats(q) == \A i, j \in DOMAIN q : q[i] = q[j] => i = j

NoSharing ==
    /\ NoRepeats(free_dummies)
    /\ NoRepeats(released_dummies)
    /\ \A i, j \in DOMAIN quarantine : quarantine[i].idx = quarantine[j].idx => i = j
    /\ \A s, t \in Socks : local[s] = local[t] /\ local[s] # None => s = t
    /\ \A k, l \in Keys : conn_dummy[k] = conn_dummy[l] /\ conn_dummy[k] # None => k = l

OnePlace ==
    \A d \in Dummies :
        /\ InFree(d) => ~InRing(d) /\ ~Waits(d) /\ ~Held(d) /\ ~Lent(d) /\ resetting # d
        /\ InRing(d) => ~Waits(d) /\ ~Held(d) /\ ~Lent(d) /\ resetting # d
        /\ Waits(d) => ~Held(d) /\ ~Lent(d) /\ resetting # d
        /\ Held(d) => ~Lent(d) /\ resetting # d
        /\ Lent(d) => resetting # d

ExclusiveLending == NoSharing /\ OnePlace

\* No dummy vanishes without an error message: one that nobody holds was
\* reported lost (dummies.rs:152-154, remove_conn's bpf_error).
NoSilentLoss ==
    \A d \in Dummies :
        InFree(d) \/ InRing(d) \/ Waits(d) \/ Held(d) \/ Lent(d)
            \/ resetting = d \/ d \in failed

\* While the recycler runs, a dummy that can be lent carries nothing over from
\* the connections before: it is in the map, sends, has nothing queued or
\* running, no unfinished apply, no pending error and an empty table.
FreeDummiesAreFresh ==
    rpc # "ended" =>
        \A d \in Dummies : InFree(d) =>
            /\ d \in dummy_map /\ tx[d] /\ ~sk_err[d]
            /\ backlog[d] = <<>> /\ verdict[d] = None /\ apply[d] = None
            /\ dyn_table[d] = {}
            /\ ~dummy_owners[d].active

\* What a client sends never goes out on, or into, a connection of another
\* address pair, whatever dummies the two were lent.
Isolation == \A s \in Socks : \A t \in got[s] : KeyOf[t] = KeyOf[s]

\* A message is parsed against a table only its own address pair has added to.
TableIsOwn ==
    \A d \in Dummies : verdict[d] # None =>
        \A t \in dyn_table[d] : KeyOf[t] = verdict[d].key

\* A released dummy can eventually be lent again, unless it is reported lost or
\* the recycler is gone.
Recycled ==
    \A d \in Dummies : InRing(d) ~> (InFree(d) \/ d \in failed \/ rpc = "ended")

\* remove_conn: "Takes the dummy back from a connection that closed, along with
\* the state the fast path kept for it."  No entry outlives its connection.
ClosedConnsLeaveNoState ==
    \A k \in Keys : conn_state[k] # None => Live(conn_state[k])

-----------------------------------------------------------------------------
(* The pool implements DummyLending *)

StageOf(d) ==
    IF InFree(d) THEN "free"
    ELSE IF \E s \in Socks : sock[s] = "adding" /\ local[s] = d THEN "lent"
    ELSE IF Held(d) \/ Lent(d) THEN "used"
    ELSE IF InRing(d) \/ Waits(d) \/ resetting = d THEN "dirty"
    ELSE "lost"

HoldsOf(s) == IF sock[s] = "open" THEN conn_dummy[KeyOf[s]] ELSE local[s]

Lending == INSTANCE DummyLending WITH
    stage <- [d \in Dummies |-> StageOf(d)],
    holds <- [s \in Socks |-> HoldsOf(s)]

\* Whatever the actors do, a dummy goes from one connection to the next only
\* through a reset.
ImplementsLending == Lending!Spec
=============================================================================
