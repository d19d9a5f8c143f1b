--------------------------------- MODULE Reply ---------------------------------
(***************************************************************************)
(* What the fast path promises about the requests of a message: each is    *)
(* answered in its turn with a whole response, a version of the file it    *)
(* asks for on the stream it came on; or all that are left go to user      *)
(* space as they arrived; or they are dropped.  A response on a stream is  *)
(* only sent if both windows have room for it.                             *)
(***************************************************************************)
EXTENDS Integers, SequencesExt

VARIABLES
    versions,   \* path to the sizes its file has had
    asked,      \* the requests not dealt with, each with the bytes there are of it
    window,     \* the connection's window, less what answers took out of it
    stream,     \* what a stream's window starts with
    answers,    \* what a client makes of the responses it is sent
    passed,     \* the bytes passed on
    fate        \* what became of the requests that were not answered

vars == <<versions, asked, window, stream, answers, passed, fate>>

Init == asked = <<>> /\ answers = <<>> /\ passed = <<>> /\ fate = "open"

\* Files change until the routes are prepared, and then requests arrive.
Prepare ==
    /\ asked = <<>> /\ answers = <<>>
    /\ UNCHANGED <<answers, passed, fate>>

Answer ==
    /\ fate = "open" /\ asked # <<>>
    /\ Head(asked).path \in DOMAIN versions
    /\ \E size \in versions[Head(asked).path] :
          LET data == IF Head(asked).sid = 0 THEN 0 ELSE size IN
          /\ answers' = Append(answers,
                [path |-> Head(asked).path, sid |-> Head(asked).sid, size |-> size])
          /\ data <= window /\ data <= stream
          /\ window' = window - data
    /\ asked' = Tail(asked)
    /\ UNCHANGED <<versions, stream, passed, fate>>

PassOn ==
    /\ fate = "open" /\ asked # <<>>
    /\ fate' = "passed"
    /\ passed' = FlattenSeq([k \in DOMAIN asked |-> asked[k].bytes])
    /\ UNCHANGED <<versions, asked, window, stream, answers>>

Drop ==
    /\ fate = "open" /\ asked # <<>>
    /\ fate' = "dropped"
    /\ UNCHANGED <<versions, asked, window, stream, answers, passed>>

Next == Prepare \/ Answer \/ PassOn \/ Drop

Spec == Init /\ [][Next]_vars
=============================================================================
