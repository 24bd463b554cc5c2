----------------------------- MODULE LdapSession -----------------------------
(***************************************************************************)
(* The session behind every request of the editor: the vendored, modified  *)
(* wrapper (LDAPAsynConnection, LDAPConnection and the request classes)    *)
(* and CLdapData's way of bringing a broken session back.  The wrapper     *)
(* forgets a handle that reports LDAP_SERVER_DOWN, lets hardReconnect      *)
(* build another one and sends the request once more.                      *)
(*                                                                         *)
(* A modification is sent and answered in one call (ldap_modify_ext_s), so *)
(* a lost answer is retried as well; a search or a deletion is retried     *)
(* only when it could not be sent; an addition never is.                   *)
(*                                                                         *)
(* libldap is external: a fresh handle connects when it is first used, a   *)
(* handle whose connection broke reports LDAP_SERVER_DOWN from then on.    *)
(***************************************************************************)
EXTENDS Integers

CONSTANTS Requests, \* the requests of the editor, each made once
          None      \* no request

ASSUME RequestsAssumption == None \notin Requests

VARIABLES
    server,   \* "up" or "down"
    useTLS,   \* m_connectOptions.useTLS
    session,  \* cur_session: its connection, and what was done on it
    cur,      \* the request in progress
    phase,    \* how far its call has come
    copy,     \* 1 when it is sent first, 2 when it is sent again
    answer,   \* the server's answer to it, once on its way
    kind,     \* the kind of each request made
    result,   \* what the caller was told of each request
    wire,     \* copies the server has received and not yet dealt with
    executed, \* copies the server has executed
    intact    \* the last reconnection, if there was one, succeeded

client == <<session, cur, phase, copy, answer, kind, result, intact>>
vars   == <<server, useTLS, client, wire, executed>>

Kinds  == {"modify", "search", "delete", "add"}
Phases == {"idle", "send", "wait", "tls", "bind"}
Copies == Requests \X {1, 2}

TypeOK ==
    /\ server \in {"up", "down"}
    /\ useTLS \in BOOLEAN
    /\ session \in [state : {"fresh", "live", "dead"},
                    bound : BOOLEAN, tls : BOOLEAN]
    /\ cur \in Requests \union {None}
    /\ phase \in Phases
    /\ copy \in {1, 2}
    /\ answer \in {"none", "ok", "refused"}
    /\ kind \in [Requests -> Kinds]
    /\ result \in [Requests -> {"none", "ok", "refused", "failed"}]
    /\ wire \subseteq Copies
    /\ executed \subseteq Copies
    /\ intact \in BOOLEAN
    /\ (cur = None) <=> (phase = "idle")
    /\ cur # None => result[cur] = "none"

\* connect has built the session and set its reset function.
Init ==
    /\ server = "up"
    /\ useTLS \in BOOLEAN
    /\ session = [state |-> "live", bound |-> TRUE, tls |-> useTLS]
    /\ cur = None /\ phase = "idle" /\ copy = 1 /\ answer = "none"
    /\ kind \in [Requests -> Kinds]
    /\ result = [r \in Requests |-> "none"]
    /\ wire = {} /\ executed = {}
    /\ intact = TRUE

----------------------------------------------------------------------------
(* The client. *)

\* A fresh handle connects on first use, if the server lets it.
Reachable == \/ session.state = "live"
             \/ session.state = "fresh" /\ server = "up"

Begin(r) ==
    /\ phase = "idle" /\ result[r] = "none"
    /\ cur' = r /\ phase' = "send" /\ copy' = 1
    /\ UNCHANGED <<server, useTLS, session, answer, kind, result, wire,
                   executed, intact>>

\* The call returns or throws.
Finish(told) ==
    /\ result' = [result EXCEPT ![cur] = told]
    /\ cur' = None /\ phase' = "idle"
    /\ UNCHANGED <<copy, kind>>

\* Mutant: the new session is not protected again.
RetryUnprotected ==
    /\ session' = [state |-> "fresh", bound |-> FALSE, tls |-> FALSE]
    /\ phase' = "bind"
    /\ copy' = 2
    /\ UNCHANGED <<cur, kind, result>>

\* Mutant: any number of attempts.
RetryForever ==
    /\ session' = [state |-> "fresh", bound |-> FALSE, tls |-> FALSE]
    /\ phase' = IF useTLS THEN "tls" ELSE "bind"
    /\ UNCHANGED <<cur, copy, kind, result>>

\* hardReset forgets the handle without unbinding it, and hardReconnect
\* makes another one.
Retry ==
    /\ session' = [state |-> "fresh", bound |-> FALSE, tls |-> FALSE]
    /\ phase' = IF useTLS THEN "tls" ELSE "bind"
    /\ copy' = 2
    /\ UNCHANGED <<cur, kind, result>>

\* Mutant: a deletion is repeated like a modification.
RetriedUnansweredToo == {"modify", "delete"}

\* The calls that are repeated when they cannot be sent, and when their
\* answer does not come.
RetriedUnsent     == {"modify", "search", "delete"}
RetriedUnanswered == {"modify"}

Send ==
    /\ phase = "send" /\ Reachable
    /\ session' = [session EXCEPT !.state = "live"]
    /\ wire' = wire \union {<<cur, copy>>}
    /\ phase' = "wait" /\ answer' = "none"
    /\ UNCHANGED <<server, useTLS, cur, copy, kind, result, executed, intact>>

ServerDown(retried) ==
    /\ IF copy = 1 /\ kind[cur] \in retried
       THEN Retry
       ELSE Finish("failed") /\ UNCHANGED session
    /\ UNCHANGED <<server, useTLS, answer, wire, executed, intact>>

SendFails == phase = "send" /\ ~Reachable /\ ServerDown(RetriedUnsent)

AnswerLost ==
    /\ phase = "wait" /\ answer = "none" /\ session.state = "dead"
    /\ ServerDown(RetriedUnanswered)

Return ==
    /\ phase = "wait" /\ answer # "none"
    /\ Finish(answer)
    /\ UNCHANGED <<server, useTLS, session, answer, wire, executed, intact>>

\* start_tls, with the answer given to the first certificate warning.
StartTls ==
    /\ phase = "tls" /\ Reachable
    /\ session' = [session EXCEPT !.state = "live", !.tls = TRUE]
    /\ phase' = "bind"
    /\ UNCHANGED <<server, useTLS, cur, copy, answer, kind, result, wire,
                   executed, intact>>

\* Mutant: success as soon as the session is back.
BindAndReturn ==
    /\ phase = "bind" /\ Reachable
    /\ session' = [session EXCEPT !.state = "live", !.bound = TRUE]
    /\ Finish("ok") /\ intact' = TRUE
    /\ UNCHANGED <<server, useTLS, answer, wire, executed>>

\* The new session is complete, and the request is sent again.
Bind ==
    /\ phase = "bind" /\ Reachable
    /\ session' = [session EXCEPT !.state = "live", !.bound = TRUE]
    /\ phase' = "send" /\ intact' = TRUE
    /\ UNCHANGED <<server, useTLS, cur, copy, answer, kind, result, wire,
                   executed>>

\* start_tls or bind throws: hardReconnect returns false, the first error is
\* thrown, and the unfinished session stays.
ReconnectFails ==
    /\ phase \in {"tls", "bind"}
    /\ \E s \in IF Reachable THEN {"live", "dead"} ELSE {session.state} :
           session' = [session EXCEPT !.state = s]
    /\ Finish("failed")
    /\ intact' = FALSE
    /\ UNCHANGED <<server, useTLS, answer, wire, executed>>

\* CLdapData::reconnect, from the menu: another session replaces this one
\* once it is complete; otherwise nothing changes.
Reconnect ==
    /\ phase = "idle" /\ server = "up"
    /\ session' = [state |-> "live", bound |-> TRUE, tls |-> useTLS]
    /\ intact' = TRUE
    /\ UNCHANGED <<server, useTLS, cur, phase, copy, answer, kind, result,
                   wire, executed>>

----------------------------------------------------------------------------
(* The server and the network. *)

Broken == [session EXCEPT !.state = IF @ = "live" THEN "dead" ELSE @]

LinkBreaks ==
    /\ session.state = "live"
    /\ session' = Broken
    /\ UNCHANGED <<server, useTLS, cur, phase, copy, answer, kind, result,
                   wire, executed, intact>>

ServerStops ==
    /\ server = "up"
    /\ server' = "down" /\ session' = Broken /\ wire' = {}
    /\ UNCHANGED <<useTLS, cur, phase, copy, answer, kind, result, executed,
                   intact>>

ServerStarts ==
    /\ server = "down"
    /\ server' = "up"
    /\ UNCHANGED <<useTLS, client, wire, executed>>

\* The server deals with a copy it received, whether its sender is still
\* there or not; the answer arrives if the connection still stands.
Deal(c) ==
    /\ c \in wire
    /\ wire' = wire \ {c}
    /\ \E verdict \in {"ok", "refused"} :
           /\ executed' = IF verdict = "ok" THEN executed \union {c}
                                            ELSE executed
           /\ answer' = IF /\ phase = "wait" /\ c = <<cur, copy>>
                           /\ session.state = "live"
                        THEN verdict ELSE answer
    /\ UNCHANGED <<server, useTLS, session, cur, phase, copy, kind, result,
                   intact>>

\* Nothing is left of a request whose connection is gone.
Discard(c) ==
    /\ c \in wire
    /\ ~(phase = "wait" /\ c = <<cur, copy>> /\ session.state = "live")
    /\ wire' = wire \ {c}
    /\ UNCHANGED <<server, useTLS, client, executed>>

----------------------------------------------------------------------------
Client == \/ Send \/ SendFails \/ AnswerLost \/ Return
          \/ StartTls \/ Bind \/ ReconnectFails

User == Reconnect \/ \E r \in Requests : Begin(r)

Environment == \/ LinkBreaks \/ ServerStops \/ ServerStarts
               \/ \E c \in wire : Deal(c) \/ Discard(c)

Next == Client \/ User \/ Environment

Spec == Init /\ [][Next]_vars

\* The calls go on by themselves; a server that got a request deals with it,
\* or the break of the connection is noticed (keepalive, configureTimeouts).
FairSpec == /\ Spec
            /\ WF_vars(Client)
            /\ WF_vars(LinkBreaks \/ \E c \in wire : Deal(c))

----------------------------------------------------------------------------
(* Properties. *)

\* What a caller may rely on: see RequestContract.  A success is only
\* returned of a request the server executed, whatever broke, was sent again
\* or was dealt with late (modify_s, LDAPRequest::sendRequest).
Contract == INSTANCE RequestContract
KeepsContract == Contract!Spec

\* The server executes a search, a deletion or an addition at most once;
\* only a modification, whose answer can be lost after it was sent, may be
\* executed twice (the retry of modify_s against those of
\* LDAPSearchRequest and LDAPDeleteRequest).
TwiceOnlyModify ==
    \A r \in Requests :
        <<r, 1>> \in executed /\ <<r, 2>> \in executed => kind[r] = "modify"

\* As long as no hardReconnect has failed, every request goes out over a
\* session bound and protected as the connection options say.
Proper == session.bound /\ session.tls = useTLS
ProperUnlessReconnectFailed ==
    intact /\ phase \in {"idle", "send", "wait"} => Proper

\* Every call comes back to the GUI thread (modify_s retries once only).
CallReturns == (phase # "idle") ~> (phase = "idle")
=============================================================================
