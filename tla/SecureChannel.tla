--------------------------- MODULE SecureChannel ---------------------------
(***************************************************************************)
(* What HPKE's multi-message mode promises the two parties (RFC 9180,     *)
(* section 5.2 and spec.md section 4.5): an ordered, authenticated stream  *)
(* of messages per session.                                               *)
(*                                                                         *)
(* The sender's messages are kept per session, in order; a session is     *)
(* only ever extended.  The receiver is in at most one session at a time *)
(* and has delivered a prefix of that session's messages: each delivery  *)
(* is the next message, never a skipped, repeated, reordered or invented  *)
(* one.  The receiver may join any session at any time, or leave its     *)
(* session; sending and receiving are otherwise independent.              *)
(***************************************************************************)
EXTENDS Naturals, Sequences

CONSTANTS
    Sessions,   \* session identifiers
    Msgs,       \* message contents
    NoSession   \* the receiver is in no session

VARIABLES
    logs,       \* logs[s]: the messages sent in session s, in order
    cur,        \* the receiver's session, or NoSession
    got         \* the messages the receiver delivered in session cur

vars == <<logs, cur, got>>

\* The messages of session s (none for a session never sent on).
Log(s) == IF s \in DOMAIN logs THEN logs[s] ELSE <<>>

Init ==
    /\ logs = [s \in {} |-> <<>>]
    /\ cur = NoSession
    /\ got = <<>>

Send(s, m) ==
    /\ logs' = [t \in DOMAIN logs \cup {s} |->
                   IF t = s THEN Append(Log(s), m) ELSE logs[t]]
    /\ UNCHANGED <<cur, got>>

\* The receiver enters session s (or none) and has delivered nothing in it.
Join(s) ==
    /\ cur' = s
    /\ got' = <<>>
    /\ UNCHANGED logs

Deliver ==
    /\ cur # NoSession
    /\ Len(got) < Len(Log(cur))
    /\ got' = Append(got, Log(cur)[Len(got) + 1])
    /\ UNCHANGED <<logs, cur>>

Next ==
    \/ \E s \in Sessions, m \in Msgs : Send(s, m)
    \/ \E s \in Sessions \cup {NoSession} : Join(s)
    \/ Deliver

Spec == Init /\ [][Next]_vars
=============================================================================
