--------------------------- MODULE ConnectionProofs ---------------------------
(***************************************************************************)
(* How the editor gets a connection and what it can rely on while it has   *)
(* one: ConnectionDialog for any number of clicks and any timeout,         *)
(* StoredConnections for any forms and any cipher library, and LdapSession *)
(* for any set of requests.                                                *)
(***************************************************************************)
EXTENDS ConnectionDialog, LdapSession, StoredConnections, ListLemmas

-----------------------------------------------------------------------------
(* The dialog.                                                             *)
(*                                                                         *)
(* Timing adds to the type invariant that at most one timer is pending,    *)
(* that it still has time to count, and that the form is disabled exactly  *)
(* meanwhile.  Prompt says what one attempt at a time means: as long as no *)
(* answer was overtaken, only the last click's attempt runs or has an      *)
(* answer queued, and then the form is disabled.                           *)

Timing ==
    /\ timers \in {0, 1}
    /\ timers = 1 => waitTime >= 0
    /\ window # "accepted" => (enabled <=> timers = 0)

Prompt ==
    ~overtaken =>
        /\ \A k \in Attempts :
              Running(k) => /\ k = clicks /\ settings = clicks /\ answers = <<>>
                            /\ worker[k] = "building" => conn = clicks
        /\ answers # <<>> => /\ Len(answers) = 1 /\ settings = clicks
                             /\ answers[1].ok => conn = clicks /\ clicks \in succeeded
        /\ window = "open" /\ enabled => ~Unanswered
        /\ window = "accepted" => /\ ~Unanswered
                                  /\ conn = clicks /\ settings = clicks /\ last = clicks
                                  /\ clicks \in succeeded

DialogInv == DialogTypeOK /\ Timing /\ Prompt

-----------------------------------------------------------------------------
(* Nothing has been clicked and nothing runs: the invariant holds.         *)
LEMMA DialogInitOK == DialogInit => DialogInv
<1> SUFFICES ASSUME DialogInit PROVE DialogInv
  OBVIOUS
<1>1. DialogTypeOK
  <2>1. /\ waitTime \in -1 .. Timeout /\ {settings, conn, last} \subseteq 0 .. MaxClicks
        /\ clicks \in 0 .. MaxClicks /\ timers \in Nat /\ boxes \in Nat
    BY BoundsAssumption DEF DialogInit
  <2>2. worker \in [Attempts -> {"idle", "connecting", "building", "done"}]
    BY DEF DialogInit
  <2>3. answers \in Seq(Answer) /\ succeeded \subseteq Attempts
    BY DEF DialogInit
  <2> QED
    BY <2>1, <2>2, <2>3 DEF DialogInit, DialogTypeOK
<1>2. Timing
  BY DEF DialogInit, Timing
<1>3. ~Unanswered
  BY DEF DialogInit, Unanswered, Running
<1> QED
  BY <1>1, <1>2, <1>3 DEF DialogInit, DialogInv, Prompt, Unanswered

(* Every step keeps the types: a timer that is pending has a second left,  *)
(* so the time never falls below the -1 a late answer can leave.           *)
LEMMA StepTyped == DialogTypeOK /\ Timing /\ [DialogNext]_dialogVars => DialogTypeOK'
<1> SUFFICES ASSUME DialogTypeOK, Timing, [DialogNext]_dialogVars PROVE DialogTypeOK'
  OBVIOUS
<1> USE BoundsAssumption DEF DialogTypeOK, Timing, Attempts
<1>1. CASE Connect
  <2>1. /\ clicks' \in Attempts /\ waitTime' \in -1 .. Timeout
        /\ timers' \in Nat /\ settings' \in 0 .. MaxClicks /\ conn' \in 0 .. MaxClicks
    BY <1>1 DEF Connect
  <2>2. worker' \in [Attempts -> {"idle", "connecting", "building", "done"}]
    BY <1>1, <2>1 DEF Connect
  <2> QED
    BY <1>1, <2>1, <2>2 DEF Connect
<1>2. CASE ChangeConnection
  BY <1>2 DEF ChangeConnection
<1>3. CASE Cancel
  BY <1>3 DEF Cancel
<1>4. CASE Tick
  <2>1. waitTime' \in -1 .. Timeout /\ timers' \in Nat
    BY <1>4 DEF Tick
  <2>2. enabled' \in BOOLEAN /\ overtaken' \in BOOLEAN
    BY <1>4 DEF Tick
  <2> QED
    BY <1>4, <2>1, <2>2 DEF Tick
<1>5. ASSUME NEW k \in Attempts, NEW ok \in BOOLEAN, Emit(k, ok)
      PROVE  /\ answers' \in Seq(Answer) /\ succeeded' \subseteq Attempts
             /\ worker' \in [Attempts -> {"idle", "connecting", "building", "done"}]
  BY <1>5 DEF Emit, Answer
<1>6. ASSUME NEW k \in Attempts, NEW ok \in BOOLEAN, WorkerConnects(k, ok)
      PROVE  DialogTypeOK'
  <2>1. CASE ok
    <3>1. conn' \in 0 .. MaxClicks
      BY <1>6, <2>1 DEF WorkerConnects
    <3>2. worker' \in [Attempts -> {"idle", "connecting", "building", "done"}]
      BY <1>6, <2>1 DEF WorkerConnects
    <3> QED
      BY <1>6, <2>1, <3>1, <3>2 DEF WorkerConnects
  <2>2. CASE ~ok
    BY <1>5, <1>6, <2>2 DEF WorkerConnects
  <2> QED
    BY <2>1, <2>2
<1>7. ASSUME NEW k \in Attempts, NEW ok \in BOOLEAN, WorkerBuilds(k, ok)
      PROVE  DialogTypeOK'
  BY <1>5, <1>7 DEF WorkerBuilds
<1>8. CASE OnConnectionCompleted
  <2>1. answers' \in Seq(Answer) /\ waitTime' \in -1 .. Timeout
    BY <1>8 DEF OnConnectionCompleted
  <2>2. CASE Head(answers).ok
    BY <1>8, <2>1, <2>2 DEF OnConnectionCompleted
  <2>3. CASE ~Head(answers).ok
    BY <1>8, <2>1, <2>3 DEF OnConnectionCompleted
  <2> QED
    BY <2>2, <2>3
<1>9. CASE CloseBox
  BY <1>9 DEF CloseBox
<1>10. CASE UNCHANGED dialogVars
  BY <1>10 DEF dialogVars
<1> QED
  BY <1>1, <1>2, <1>3, <1>4, <1>6, <1>7, <1>8, <1>9, <1>10 DEF DialogNext, WorkerStep

(* Every step keeps the timer and the form together: a click needs the     *)
(* form, an answer leaves both alone unless it accepts the window.         *)
LEMMA StepTimed == DialogTypeOK /\ Timing /\ [DialogNext]_dialogVars => Timing'
<1> SUFFICES ASSUME DialogTypeOK, Timing, [DialogNext]_dialogVars PROVE Timing'
  OBVIOUS
<1> USE BoundsAssumption DEF DialogTypeOK, Timing
<1>1. CASE Connect
  BY <1>1 DEF Connect, TakesInput
<1>2. CASE ChangeConnection
  BY <1>2 DEF ChangeConnection
<1>3. CASE Cancel
  BY <1>3 DEF Cancel, TakesInput
<1>4. CASE Tick
  BY <1>4 DEF Tick
<1>5. ASSUME NEW k \in Attempts, NEW ok \in BOOLEAN,
             WorkerConnects(k, ok) \/ WorkerBuilds(k, ok)
      PROVE  Timing'
  <2>1. UNCHANGED <<window, enabled, waitTime, timers>>
    BY <1>5, Zenon DEF WorkerConnects, WorkerBuilds
  <2> QED
    BY <2>1
<1>6. CASE OnConnectionCompleted
  <2>1. CASE Head(answers).ok
    BY <1>6, <2>1 DEF OnConnectionCompleted
  <2>2. CASE ~Head(answers).ok
    BY <1>6, <2>2 DEF OnConnectionCompleted
  <2> QED
    BY <2>1, <2>2
<1>7. CASE CloseBox
  BY <1>7 DEF CloseBox
<1>8. CASE UNCHANGED dialogVars
  BY <1>8 DEF dialogVars
<1> QED
  BY <1>1, <1>2, <1>3, <1>4, <1>5, <1>6, <1>7, <1>8 DEF DialogNext, WorkerStep

(* Every step keeps attempts apart while none is overtaken: a new one      *)
(* starts only when the form takes input, so only after the last answer.   *)
LEMMA StepPrompt == DialogInv /\ [DialogNext]_dialogVars => Prompt'
<1> SUFFICES ASSUME DialogInv, [DialogNext]_dialogVars, ~overtaken' PROVE Prompt'
  BY DEF Prompt
<1> USE BoundsAssumption DEF DialogInv, DialogTypeOK, Timing, Prompt, Running, Unanswered, Attempts
<1>1. CASE Connect
  BY <1>1 DEF Connect, TakesInput
<1>2. CASE ChangeConnection
  BY <1>2 DEF ChangeConnection, TakesInput
<1>3. CASE Cancel
  BY <1>3 DEF Cancel, TakesInput
<1>4. CASE Tick
  BY <1>4 DEF Tick
<1>5. ASSUME NEW k \in Attempts, NEW ok \in BOOLEAN, WorkerConnects(k, ok)
      PROVE  Prompt'
  <2>1. ~overtaken /\ k = clicks /\ settings = clicks /\ answers = <<>> /\ window = "open" /\ ~enabled
    BY <1>5 DEF WorkerConnects
  <2>2. \A j \in Attempts \ {k} : ~Running(j)'
    BY <1>5, <2>1 DEF WorkerConnects, Emit
  <2>3. CASE ok
    BY <1>5, <2>1, <2>2, <2>3 DEF WorkerConnects
  <2>4. CASE ~ok
    <3>1. answers' = <<[attempt |-> k, ok |-> FALSE]>> /\ worker'[k] = "done"
      BY <1>5, <2>1, <2>4 DEF WorkerConnects, Emit
    <3> QED
      BY <1>5, <2>1, <2>2, <2>4, <3>1 DEF WorkerConnects
  <2> QED
    BY <2>3, <2>4
<1>6. ASSUME NEW k \in Attempts, NEW ok \in BOOLEAN, WorkerBuilds(k, ok)
      PROVE  Prompt'
  <2>1. /\ ~overtaken /\ k = clicks /\ settings = clicks /\ answers = <<>> /\ conn = clicks
        /\ window = "open" /\ ~enabled
    BY <1>6 DEF WorkerBuilds
  <2>2. /\ \A j \in Attempts : ~Running(j)'
        /\ answers' = <<[attempt |-> k, ok |-> ok]>>
        /\ ok => clicks \in succeeded'
    BY <1>6, <2>1 DEF WorkerBuilds, Emit
  <2> QED
    BY <1>6, <2>1, <2>2 DEF WorkerBuilds
<1>7. CASE OnConnectionCompleted
  <2>1. /\ ~overtaken /\ Len(answers) = 1 /\ settings = clicks /\ window = "open"
        /\ Head(answers) = answers[1] /\ answers' = <<>>
        /\ \A k \in Attempts : ~Running(k)
    BY <1>7 DEF OnConnectionCompleted
  <2> QED
    BY <1>7, <2>1 DEF OnConnectionCompleted
<1>8. CASE CloseBox
  BY <1>8 DEF CloseBox
<1>9. CASE UNCHANGED dialogVars
  BY <1>9 DEF dialogVars
<1> QED
  BY <1>1, <1>2, <1>3, <1>4, <1>5, <1>6, <1>7, <1>8, <1>9 DEF DialogNext, WorkerStep

-----------------------------------------------------------------------------
(* The three parts hold together in every reachable state.                 *)
THEOREM DialogInductive == DialogSpec => []DialogInv
<1>1. DialogInv /\ [DialogNext]_dialogVars => DialogInv'
  BY StepTyped, StepTimed, StepPrompt DEF DialogInv
<1> QED
  BY <1>1, DialogInitOK, PTL DEF DialogSpec

(* The dialog's state keeps its type, for any timeout: m_WaitTime of       *)
(* onTimer in particular never counts on below -1.                         *)
THEOREM DialogTypeCorrect == DialogSpec => []DialogTypeOK
<1>1. DialogInv => DialogTypeOK
  BY DEF DialogInv
<1> QED
  BY <1>1, DialogInductive, PTL

(* onConnectClicked and onTimer: the form is disabled exactly while the    *)
(* one timer that will bring it back is pending.                           *)
THEOREM FormNeverStuck == DialogSpec => []FormWaitsForTimer
<1>1. DialogInv => FormWaitsForTimer
  BY DEF DialogInv, Timing, FormWaitsForTimer
<1> QED
  BY <1>1, DialogInductive, PTL

(* CLdapData::connect and onConnectionCompleted: with no answer overtaken  *)
(* by the timeout, connection, settings and last_connection are those of   *)
(* the attempt that succeeded.                                             *)
THEOREM PromptIsConsistent == DialogSpec => []PromptAnswersAgree
<1>1. DialogInv => PromptAnswersAgree
  BY DEF DialogInv, Prompt, PromptAnswersAgree
<1> QED
  BY <1>1, DialogInductive, PTL

-----------------------------------------------------------------------------
(* The session keeps its contract, repeats only modifications, and loses   *)
(* its identity only by a failed reconnection.                             *)

USE RequestsAssumption

\* A copy is on its way or was executed.
Sent(c) == c \in wire \/ c \in executed

\* Nothing of a request reaches the server before its call.
NotBegun ==
    \A r \in Requests :
        result[r] = "none" /\ r # cur => ~Sent(<<r, 1>>) /\ ~Sent(<<r, 2>>)

\* The copies of the current request that cannot have left yet; a second
\* copy of anything but a modification means that the first never left.
CurrentCopies ==
    cur # None =>
        /\ copy = 1 /\ phase # "wait" => ~Sent(<<cur, 1>>)
        /\ copy = 1 \/ phase # "wait" => ~Sent(<<cur, 2>>)
        /\ copy = 2 /\ kind[cur] # "modify" => ~Sent(<<cur, 1>>)
        /\ phase \in {"tls", "bind"} => copy = 2

SentOnce ==
    \A r \in Requests :
        kind[r] # "modify" => ~(Sent(<<r, 1>>) /\ Sent(<<r, 2>>))

AnswerIsTrue ==
    phase = "wait" /\ answer = "ok" => <<cur, copy>> \in executed

Identity == /\ ProperUnlessReconnectFailed
            /\ phase = "bind" => session.tls = useTLS
            /\ phase = "tls" => useTLS = TRUE

SessionInv == TypeOK /\ NotBegun /\ CurrentCopies /\ SentOnce /\ AnswerIsTrue /\ Identity

LEMMA SessionInit == Init => SessionInv
  BY DEF Init, SessionInv, TypeOK, NotBegun, CurrentCopies, SentOnce, AnswerIsTrue,
         Identity, ProperUnlessReconnectFailed, Proper, Sent, Phases, Copies

\* A call that found the server down: it starts over or fails.
LEMMA DownStep ==
    ASSUME NEW S, TypeOK, Identity, phase \in {"send", "wait"}, ServerDown(S)
    PROVE  TypeOK' /\ Identity'
<1> USE DEF TypeOK, Identity, ProperUnlessReconnectFailed, Proper, ServerDown
<1>1. CASE Retry
  <2>1. session' \in [state : {"fresh", "live", "dead"},
                      bound : BOOLEAN, tls : BOOLEAN]
    BY <1>1 DEF Retry
  <2>2. phase' \in {"tls", "bind"}
    BY <1>1 DEF Retry
  <2>3. /\ phase' = "bind" => session'.tls = useTLS
        /\ phase' = "tls" => useTLS = TRUE
    <3>1. CASE useTLS = TRUE
      BY <1>1, <3>1 DEF Retry
    <3>2. CASE useTLS = FALSE
      BY <1>1, <3>2 DEF Retry
    <3> QED
      BY <3>1, <3>2
  <2> UNCHANGED <<server, useTLS, answer, wire, executed, intact, cur, kind,
                  result>> /\ copy' = 2
    BY <1>1 DEF Retry
  <2> QED
    BY <2>1, <2>2, <2>3 DEF Phases
<1>2. CASE Finish("failed") /\ UNCHANGED session
  BY <1>2 DEF Finish, Phases
<1> QED
  BY <1>1, <1>2

LEMMA SessionTypeStep == TypeOK /\ Identity /\ [Next]_vars => TypeOK'
<1> SUFFICES ASSUME TypeOK, Identity, [Next]_vars PROVE TypeOK'
  OBVIOUS
<1> USE DEF TypeOK
<1>1. CASE \E r \in Requests : Begin(r)
  BY <1>1 DEF Begin, Phases
<1>2. CASE Send
  BY <1>2 DEF Send, Phases, Copies
<1>3. CASE SendFails
  BY <1>3, DownStep DEF SendFails
<1>4. CASE AnswerLost
  BY <1>4, DownStep DEF AnswerLost
<1>5. CASE Return
  BY <1>5 DEF Return, Finish, Phases
<1>6. CASE StartTls
  BY <1>6 DEF StartTls, Phases
<1>7. CASE Bind
  BY <1>7 DEF Bind, Phases
<1>8. CASE ReconnectFails
  BY <1>8 DEF ReconnectFails, Finish, Phases
<1>9. CASE Reconnect
  BY <1>9 DEF Reconnect
<1>10. CASE LinkBreaks
  BY <1>10 DEF LinkBreaks, Broken
<1>11. CASE ServerStops
  BY <1>11 DEF ServerStops, Broken
<1>12. CASE ServerStarts
  BY <1>12 DEF ServerStarts, client
<1>13. CASE \E c \in wire : Deal(c)
  BY <1>13 DEF Deal
<1>14. CASE \E c \in wire : Discard(c)
  BY <1>14 DEF Discard, client
<1>15. CASE UNCHANGED vars
  BY <1>15 DEF vars, client
<1> QED
  BY <1>1, <1>2, <1>3, <1>4, <1>5, <1>6, <1>7, <1>8, <1>9, <1>10, <1>11,
     <1>12, <1>13, <1>14, <1>15 DEF Next, Client, User, Environment

LEMMA CopiesStep ==
    SessionInv /\ [Next]_vars =>
        NotBegun' /\ CurrentCopies' /\ SentOnce' /\ AnswerIsTrue'
<1> SUFFICES ASSUME SessionInv, [Next]_vars
             PROVE  NotBegun' /\ CurrentCopies' /\ SentOnce' /\ AnswerIsTrue'
  OBVIOUS
<1> USE DEF SessionInv, TypeOK, NotBegun, CurrentCopies, SentOnce, AnswerIsTrue, Sent
<1>1. CASE \E r \in Requests : Begin(r)
  BY <1>1 DEF Begin
<1>2. CASE Send
  BY <1>2 DEF Send
<1>3. CASE SendFails
  BY <1>3 DEF SendFails, ServerDown, Retry, Finish, RetriedUnsent
<1>4. CASE AnswerLost
  BY <1>4 DEF AnswerLost, ServerDown, Retry, Finish, RetriedUnanswered
<1>5. CASE Return
  BY <1>5 DEF Return, Finish
<1>6. CASE StartTls
  BY <1>6 DEF StartTls
<1>7. CASE Bind
  BY <1>7 DEF Bind
<1>8. CASE ReconnectFails
  BY <1>8 DEF ReconnectFails, Finish
<1>9. CASE Reconnect
  BY <1>9 DEF Reconnect
<1>10. CASE LinkBreaks
  BY <1>10 DEF LinkBreaks
<1>11. CASE ServerStops
  BY <1>11 DEF ServerStops
<1>12. CASE ServerStarts
  BY <1>12 DEF ServerStarts, client
<1>13. CASE \E c \in wire : Deal(c)
  BY <1>13 DEF Deal
<1>14. CASE \E c \in wire : Discard(c)
  BY <1>14 DEF Discard, client
<1>15. CASE UNCHANGED vars
  BY <1>15 DEF vars, client
<1> QED
  BY <1>1, <1>2, <1>3, <1>4, <1>5, <1>6, <1>7, <1>8, <1>9, <1>10, <1>11,
     <1>12, <1>13, <1>14, <1>15 DEF Next, Client, User, Environment

LEMMA IdentityStep == TypeOK /\ Identity /\ [Next]_vars => Identity'
<1> SUFFICES ASSUME TypeOK, Identity, [Next]_vars PROVE Identity'
  OBVIOUS
<1> USE DEF TypeOK, Identity, ProperUnlessReconnectFailed, Proper
<1>1. CASE \E r \in Requests : Begin(r)
  BY <1>1 DEF Begin
<1>2. CASE Send
  BY <1>2 DEF Send
<1>3. CASE SendFails
  BY <1>3, DownStep DEF SendFails
<1>4. CASE AnswerLost
  BY <1>4, DownStep DEF AnswerLost
<1>5. CASE Return
  BY <1>5 DEF Return, Finish
<1>6. CASE StartTls
  <2>1. phase' = "bind" /\ session'.tls = TRUE /\ UNCHANGED useTLS
    BY <1>6 DEF StartTls
  <2>2. useTLS = TRUE
    BY <1>6 DEF StartTls
  <2> QED
    BY <2>1, <2>2
<1>7. CASE Bind
  BY <1>7 DEF Bind
<1>8. CASE ReconnectFails
  BY <1>8 DEF ReconnectFails, Finish
<1>9. CASE Reconnect
  BY <1>9 DEF Reconnect
<1>10. CASE LinkBreaks
  BY <1>10 DEF LinkBreaks, Broken
<1>11. CASE ServerStops
  BY <1>11 DEF ServerStops, Broken
<1>12. CASE ServerStarts
  BY <1>12 DEF ServerStarts, client
<1>13. CASE \E c \in wire : Deal(c)
  BY <1>13 DEF Deal
<1>14. CASE \E c \in wire : Discard(c)
  BY <1>14 DEF Discard, client
<1>15. CASE UNCHANGED vars
  BY <1>15 DEF vars, client
<1> QED
  BY <1>1, <1>2, <1>3, <1>4, <1>5, <1>6, <1>7, <1>8, <1>9, <1>10, <1>11,
     <1>12, <1>13, <1>14, <1>15 DEF Next, Client, User, Environment

THEOREM SessionInductive == Spec => []SessionInv
<1>1. SessionInv /\ [Next]_vars => SessionInv'
  BY SessionTypeStep, CopiesStep, IdentityStep DEF SessionInv
<1> QED
  BY SessionInit, <1>1, PTL DEF Spec

\* The session's state is well formed for any set of requests.
THEOREM SessionTypeCorrect == Spec => []TypeOK
<1>1. SessionInv => TypeOK
  BY DEF SessionInv
<1> QED
  BY SessionInductive, <1>1, PTL

\* Searches, deletions and additions are executed at most once, whatever is
\* lost, sent again or dealt with late (modify_s and the request classes).
THEOREM OnlyModificationsRepeat == Spec => []TwiceOnlyModify
<1>1. SessionInv => TwiceOnlyModify
  BY DEF SessionInv, SentOnce, Sent, TwiceOnlyModify
<1> QED
  BY SessionInductive, <1>1, PTL

\* Only a failed hardReconnect lets a request out over a session that is not
\* bound and protected as the options say (CLdapData::hardReconnect).
THEOREM IdentityKept == Spec => []ProperUnlessReconnectFailed
<1>1. SessionInv => ProperUnlessReconnectFailed
  BY DEF SessionInv, Identity
<1> QED
  BY SessionInductive, <1>1, PTL

\* Every step of the session is one of its contract or leaves it alone: a
\* reported success was executed, and two copies are the most (modify_s).
THEOREM ContractKept == Spec => KeepsContract
<1>1. Init => Contract!Init
  BY DEF Init, Contract!Init
<1>2. SessionInv /\ [Next]_vars => [Contract!Next]_(Contract!vars)
  <2> SUFFICES ASSUME SessionInv, [Next]_vars
               PROVE  [Contract!Next]_(Contract!vars)
    OBVIOUS
  <2> USE DEF SessionInv, TypeOK
  <2>1. ASSUME NEW told \in Contract!Answers, Finish(told), cur \in Requests,
               UNCHANGED executed,
               told = "ok" => \E n \in {1, 2} : <<cur, n>> \in executed
        PROVE  Contract!Next
    BY <2>1 DEF Finish, Contract!Next, Contract!Reply
  <2>2. CASE SendFails
    BY <2>1, <2>2 DEF SendFails, ServerDown, Retry, Contract!Answers, Contract!vars
  <2>3. CASE AnswerLost
    BY <2>1, <2>3 DEF AnswerLost, ServerDown, Retry, Contract!Answers, Contract!vars
  <2>4. CASE Return
    BY <2>1, <2>4 DEF Return, AnswerIsTrue, Contract!Answers
  <2>5. CASE ReconnectFails
    BY <2>1, <2>5 DEF ReconnectFails, Contract!Answers
  <2>6. CASE \E c \in wire : Deal(c)
    BY <2>6 DEF Deal, Copies, Contract!Next, Contract!Execute, Contract!Copies,
                Contract!vars
  <2>7. CASE UNCHANGED <<executed, result>>
    BY <2>7 DEF Contract!vars
  <2>8. CASE (\E r \in Requests : Begin(r)) \/ Send \/ StartTls \/ Bind
             \/ Reconnect \/ LinkBreaks \/ ServerStops \/ ServerStarts
             \/ (\E c \in wire : Discard(c)) \/ UNCHANGED vars
    BY <2>7, <2>8 DEF Begin, Send, StartTls, Bind, Reconnect, LinkBreaks,
                      ServerStops, ServerStarts, Discard, client, vars
  <2> QED
    BY <2>2, <2>3, <2>4, <2>5, <2>6, <2>8 DEF Next, Client, User, Environment
<1> QED
  BY SessionInductive, <1>1, <1>2, PTL DEF Spec, KeepsContract, Contract!Spec

-----------------------------------------------------------------------------
(* The cipher.                                                             *)

LEMMA XorUndone ==
    ASSUME NEW b \in Byte, NEW k \in Byte, NEW p \in Byte
    PROVE  Xor(Xor(b, k), p) \in Byte /\ Xor(Xor(Xor(Xor(b, k), p), p), k) = b
<1>1. \A x, y \in Byte : Xor(x, y) \in Byte /\ Xor(Xor(x, y), y) = x
  BY Zenon DEF Byte, Xor
<1>2. Xor(b, k) \in Byte
  BY <1>1
<1>3. Xor(Xor(Xor(b, k), p), p) = Xor(b, k)
  BY <1>1, <1>2
<1> QED
  BY <1>1, <1>2, <1>3

LEMMA KeyIsBytes ==
    ASSUME NEW i \in Nat \ {0}
    PROVE  KeyAt(i) \in Byte
<1>1. ((i - 1) % 8) + 1 \in 1 .. 8
  OBVIOUS
<1>2. KeyParts \in Seq(Byte) /\ Len(KeyParts) = 8
  BY KeyAssumption
<1> QED
  BY <1>1, <1>2, ElementOfSeq DEF KeyAt

\* The values of the loop of encryptToByteArray.
Mixing(g, w) ==
    /\ g \in [0 .. Len(w) -> Byte] /\ g[0] = NoBits
    /\ \A i \in 1 .. Len(w) : g[i] = Xor(Xor(w[i], KeyAt(i)), g[i - 1])

LEMMA ChainedRuns ==
    ASSUME NEW w \in Seq(Byte)
    PROVE  \E g : Mixing(g, w) /\ Chained(w) = [i \in 1 .. Len(w) |-> g[i]]
<1> DEFINE n == Len(w)
           F == [i \in 1 .. n |-> [b \in Byte |-> Xor(Xor(w[i], KeyAt(i)), b)]]
           Unfolds(g) == g = [i \in 0 .. Len(w) |->
               IF i = 0 THEN NoBits ELSE Xor(Xor(w[i], KeyAt(i)), g[i - 1])]
           mixed[i \in 0 .. Len(w)] ==
               IF i = 0 THEN NoBits ELSE Xor(Xor(w[i], KeyAt(i)), mixed[i - 1])
<1>1. n \in Nat /\ NoBits \in Byte
  BY DEF NoBits, Byte
<1>2. F \in [1 .. n -> [Byte -> Byte]]
  <2> SUFFICES ASSUME NEW i \in 1 .. n, NEW b \in Byte
               PROVE  Xor(Xor(w[i], KeyAt(i)), b) \in Byte
    OBVIOUS
  <2>1. w[i] \in Byte /\ KeyAt(i) \in Byte
    BY <1>1, KeyIsBytes
  <2> QED
    BY <2>1, XorUndone
<1>3. PICK g \in [0 .. n -> Byte] : Runs(g, n, NoBits, F)
  <2> HIDE DEF F, n
  <2> QED
    BY <1>1, <1>2, LoopRuns
<1>4. ASSUME NEW i \in 1 .. n
      PROVE  g[i] = Xor(Xor(w[i], KeyAt(i)), g[i - 1])
  <2>1. i - 1 \in 0 .. n
    BY <1>1
  <2>2. g[i - 1] \in Byte /\ g[i] = F[i][g[i - 1]]
    BY <1>3, <2>1 DEF Runs
  <2> QED
    BY <2>2
<1>5. Unfolds(g)
  <2>1. \A i \in 0 .. n :
            g[i] = IF i = 0 THEN NoBits ELSE Xor(Xor(w[i], KeyAt(i)), g[i - 1])
    <3> TAKE i \in 0 .. n
    <3>1. CASE i = 0
      BY <1>3, <3>1 DEF Runs
    <3>2. CASE i # 0
      <4>1. i \in 1 .. n
        BY <1>1, <3>2
      <4> QED
        BY <1>4, <3>2, <4>1
    <3> QED
      BY <3>1, <3>2
  <2>2. [i \in 0 .. n |-> g[i]] = [i \in 0 .. n |->
            IF i = 0 THEN NoBits ELSE Xor(Xor(w[i], KeyAt(i)), g[i - 1])]
    BY <2>1
  <2>3. g = [i \in 0 .. n |-> g[i]]
    OBVIOUS
  <2> QED
    BY <2>2, <2>3
<1>6. mixed = CHOOSE f : Unfolds(f)
  BY DEF mixed
<1>7. Unfolds(mixed)
  <2> HIDE DEF Unfolds, mixed
  <2> QED
    BY <1>5, <1>6
<1>8. Chained(w) = [i \in 1 .. n |-> mixed[i]]
  BY DEF Chained
<1> HIDE DEF mixed
<1>9. mixed[0] = NoBits /\ \A i \in 1 .. n : mixed[i] = Xor(Xor(w[i], KeyAt(i)), mixed[i - 1])
  <2>1. 0 \in 0 .. n /\ \A i \in 1 .. n : i \in 0 .. n /\ i # 0
    BY <1>1
  <2> QED
    BY <1>7, <2>1
<1>10. mixed \in [0 .. n -> Byte]
  <2> DEFINE Good == {i \in 0 .. n : mixed[i] \in Byte}
  <2>1. 0 \in Good
    BY <1>1, <1>9
  <2>2. ASSUME NEW i \in 1 .. n, i - 1 \in Good
        PROVE  i \in Good
    <3>1. w[i] \in Byte /\ KeyAt(i) \in Byte /\ mixed[i - 1] \in Byte /\ i \in 0 .. n
      BY <1>1, <2>2, KeyIsBytes
    <3>2. mixed[i] \in Byte
      BY <1>9, <3>1, XorUndone
    <3> QED
      BY <3>1, <3>2
  <2>3. Good \in SUBSET (0 .. n)
    OBVIOUS
  <2> HIDE DEF Good
  <2>4. Good = 0 .. n
    BY <1>1, <2>1, <2>2, <2>3, OneByOne
  <2>5. \A i \in 0 .. n : mixed[i] \in Byte
    BY <2>4 DEF Good
  <2>6. mixed = [i \in 0 .. n |-> mixed[i]]
    BY <1>7
  <2> QED
    BY <2>5, <2>6
<1>11. Mixing(mixed, w)
  BY <1>9, <1>10 DEF Mixing
<1> QED
  BY <1>8, <1>11

\* decryptToByteArray undoes encryptToByteArray, byte by byte.
LEMMA ChainUndone ==
    ASSUME NEW w \in Seq(Byte)
    PROVE  /\ Chained(w) \in Seq(Byte) /\ Len(Chained(w)) = Len(w)
           /\ Unchained(Chained(w)) = w
<1>1. PICK g : Mixing(g, w) /\ Chained(w) = [i \in 1 .. Len(w) |-> g[i]]
  BY ChainedRuns
<1> DEFINE c == Chained(w)
<1>2. Len(w) \in Nat /\ \A i \in 1 .. Len(w) : w[i] \in Byte /\ KeyAt(i) \in Byte
  BY KeyIsBytes
<1>3. c \in [1 .. Len(w) -> Byte]
  BY <1>1, <1>2 DEF Mixing
<1>4. c \in Seq(Byte) /\ Len(c) = Len(w)
  <2> HIDE DEF c
  <2>1. c \in Seq(Byte)
    BY <1>2, <1>3, SeqDef
  <2> QED
    BY <1>2, <1>3, <2>1, LenProperties
<1>5. ASSUME NEW i \in 1 .. Len(w)
      PROVE  Xor(Xor(c[i], IF i = 1 THEN NoBits ELSE c[i - 1]), KeyAt(i)) = w[i]
  <2>1. i - 1 \in 0 .. Len(w) /\ (i # 1 => i - 1 \in 1 .. Len(w))
    BY <1>2
  <2>2. (IF i = 1 THEN NoBits ELSE c[i - 1]) = g[i - 1]
    BY <1>1, <2>1 DEF Mixing
  <2>3. c[i] = Xor(Xor(w[i], KeyAt(i)), g[i - 1]) /\ g[i - 1] \in Byte
    BY <1>1, <2>1 DEF Mixing
  <2> HIDE DEF c
  <2> QED
    BY <1>2, <2>2, <2>3, XorUndone
<1> HIDE DEF c
<1>6. Unchained(c) = [i \in 1 .. Len(w) |-> w[i]]
  BY <1>4, <1>5 DEF Unchained
<1>7. w = [i \in 1 .. Len(w) |-> w[i]]
  BY LenProperties
<1> QED
  BY <1>4, <1>6, <1>7 DEF c

\* A check value of the right length in front of a body, and a byte before both.
LEMMA Unpacked ==
    ASSUME NEW r \in Byte, NEW p \in Seq(Byte), NEW b \in Seq(Byte),
           NEW w, w = <<r>> \o (p \o b)
    PROVE  /\ w \in Seq(Byte) /\ w # <<>> /\ Tail(w) = p \o b
           /\ Len(p \o b) = Len(p) + Len(b)
           /\ SubSeq(p \o b, 1, Len(p)) = p
           /\ SubSeq(p \o b, Len(p) + 1, Len(p \o b)) = b
<1>1. p \o b \in Seq(Byte) /\ Len(p \o b) = Len(p) + Len(b)
  OBVIOUS
<1>2. w \in Seq(Byte) /\ Len(w) = 1 + Len(p \o b) /\ w # <<>>
  BY <1>1
<1>3. Tail(w) = p \o b
  BY <1>1
<1>4. SubSeq(p \o b, 1, Len(p)) = p
  OBVIOUS
<1>5. SubSeq(p \o b, Len(p) + 1, Len(p \o b)) = b
  OBVIOUS
<1> QED
  BY <1>1, <1>2, <1>3, <1>4, <1>5

\* What was encrypted with any random byte is decrypted again.
LEMMA DecryptUndoesEncrypt ==
    ASSUME NEW t \in Texts, NEW r \in Byte
    PROVE  Decrypt(Encrypt(t, r)) = t
<1> DEFINE body == IF Compressed(t) THEN Compress(t) ELSE t
           check == CheckValue(Protection, body)
           w == <<r>> \o (check \o body)
           cypher == Encrypt(t, r)
<1>1. body \in Seq(Byte) /\ body \in Bodies /\ (Compressed(t) => Uncompress(body) = t)
  BY LibraryAssumption DEF Bodies
<1>2. check \in Seq(Byte) /\ Len(check) = CheckLength(Protection)
  <2> HIDE DEF body
  <2>1. /\ Checksum(body) \in Seq(Byte) /\ Len(Checksum(body)) = 2
        /\ Hash(body) \in Seq(Byte) /\ Len(Hash(body)) = 20
    BY <1>1, LibraryAssumption
  <2>2. CASE Protection = "checksum"
    BY <2>1, <2>2 DEF CheckValue, CheckLength
  <2>3. CASE Protection = "hash"
    BY <2>1, <2>3 DEF CheckValue, CheckLength
  <2>4. CASE Protection = "none"
    <3>1. CheckValue(Protection, body) = <<>> /\ CheckLength(Protection) = 0
      BY <2>4 DEF CheckValue, CheckLength
    <3> QED
      BY <3>1
  <2> QED
    BY <2>2, <2>3, <2>4, ModesAssumption
<1>3. /\ cypher.version = 3 /\ cypher.compressed = Compressed(t)
      /\ cypher.kind = Protection /\ cypher.bytes = Chained(w)
  BY DEF Encrypt
<1> HIDE DEF cypher, body, check
<1>4. /\ w \in Seq(Byte) /\ w # <<>> /\ Tail(w) = check \o body
      /\ Len(check \o body) = Len(check) + Len(body)
      /\ SubSeq(check \o body, 1, Len(check)) = check
      /\ SubSeq(check \o body, Len(check) + 1, Len(check \o body)) = body
  BY <1>1, <1>2, Unpacked
<1> HIDE DEF w
<1>5. Unchained(cypher.bytes) = w /\ cypher.bytes # <<>>
  <2>1. Chained(w) \in Seq(Byte) /\ Len(Chained(w)) = Len(w) /\ Unchained(Chained(w)) = w
    BY <1>4, ChainUndone
  <2>2. Len(w) # 0
    BY <1>4
  <2> QED
    BY <1>3, <2>1, <2>2
<1>6. ~(Len(check \o body) < CheckLength(Protection))
  BY <1>1, <1>2, <1>4
<1>7. Decrypt(cypher) = IF Compressed(t) THEN Uncompress(body) ELSE body
  BY <1>2, <1>3, <1>4, <1>5, <1>6 DEF Decrypt, check
<1> QED
  BY <1>1, <1>7 DEF body, cypher

-----------------------------------------------------------------------------
(* Stored connections.                                                     *)

LEMMA WrittenIsShown ==
    ASSUME NEW d \in Drafts, NEW r \in Randoms
    PROVE  Shown(Written(d, r)) = d
<1> DEFINE file == Written(d, r)
<1>1. DOMAIN file = Keys
  BY DEF Written
<1>2. ASSUME NEW key \in Keys
      PROVE  ReadKey(file, key) = d[key]
  <2>1. CASE key \in Secrets
    <3>1. d[key] \in Texts /\ r[key] \in Byte
      BY <2>1, DraftsAssumption, RandomsAssumption
    <3>2. file[key] = Encrypt(d[key], r[key])
      BY <2>1 DEF Written
    <3>3. Decrypt(Encrypt(d[key], r[key])) = d[key]
      BY <3>1, DecryptUndoesEncrypt
    <3> HIDE DEF file
    <3> QED
      BY <1>1, <2>1, <3>2, <3>3 DEF ReadKey
  <2>2. CASE key \notin Secrets
    <3>1. file[key] = d[key]
      BY <2>2 DEF Written
    <3> HIDE DEF file
    <3> QED
      BY <1>1, <2>2, <3>1 DEF ReadKey
  <2> QED
    BY <2>1, <2>2
<1>3. Shown(file) = [key \in Keys |-> d[key]]
  <2> HIDE DEF file
  <2> QED
    BY <1>2 DEF Shown
<1>4. d = [key \in Keys |-> d[key]]
  BY DraftsAssumption
<1> QED
  BY <1>3, <1>4

\* What the form shows of a connection that is not stored.
Blank == Shown(Nothing)

LEMMA BlankDefault == Default("simpleAuth") = TRUE
<1>1. "simpleAuth" \in Flags /\ "simpleAuth" \notin {"host", "port", "version"}
  BY DEF Flags
<1>2. "simpleAuth" \notin Secrets /\ "simpleAuth" \notin {"name", "baseDN"}
  BY DEF Secrets
<1>3. Default("simpleAuth") = ("simpleAuth" = "simpleAuth")
  BY <1>1, <1>2 DEF Default
<1> QED
  BY <1>3

LEMMA BlankForm ==
    /\ Blank["name"] = "" /\ Blank["simpleAuth"] = TRUE
    /\ Blank = [key \in Keys |-> Blank[key]]
<1>1. "name" \in Keys \ Secrets /\ "simpleAuth" \in Keys \ Secrets
  BY DEF Keys, Flags, Secrets
<1>2. DOMAIN Nothing = {}
  BY DEF Nothing
<1>3. Default("name") = ""
  BY DEF Default, Flags, Secrets
<1>4. Default("simpleAuth") = TRUE
  BY BlankDefault
<1> QED
  BY <1>1, <1>2, <1>3, <1>4 DEF Blank, Shown, ReadKey

\* The file of every connection holds the form as it was saved.
FilesHold ==
    /\ DOMAIN files \subseteq Files /\ DOMAIN saved = DOMAIN files
    /\ \A f \in DOMAIN files : saved[f] \in Drafts /\ Shown(files[f]) = saved[f]

\* Where an item's text comes from, and that its file is there.
ItemOf(it) ==
    /\ it.file \in DOMAIN files \union {New}
    /\ it.text \in Names \union {NewItem.text} \/ (it.file # New /\ it.text = it.file)

StoredInvariant ==
    /\ FilesHold
    /\ current \in items /\ \A it \in items : ItemOf(it)
    /\ form \in Drafts \union {Blank}
    /\ StoredIsListed /\ ShownIsStored

\* The form of an item.
LEMMA FormOfItem ==
    ASSUME FilesHold, NEW f, f \in DOMAIN files \union {New}
    PROVE  /\ Shown(Contents(files, f)) \in Drafts \union {Blank}
           /\ f # New => f \in DOMAIN files /\ Contents(files, f) = files[f]
<1>1. CASE f \in DOMAIN files
  BY <1>1 DEF FilesHold, Contents
<1>2. CASE f \notin DOMAIN files
  BY <1>2 DEF Contents, Blank
<1> QED
  BY <1>1, <1>2

\* What the constructor makes of any files that hold what was saved.
LEMMA ConstructorEstablishes ==
    ASSUME FilesHold
    PROVE  LET its == Listed(files)
               first == LastItem(files, recorded)
           IN  /\ first \in its /\ \A it \in its : ItemOf(it)
               /\ FirstForm(files, recorded) = Shown(Contents(files, first.file))
               /\ FirstForm(files, recorded) \in Drafts \union {Blank}
               /\ \A f \in DOMAIN files : \E it \in its : it.file = f
               /\ first.file # New =>
                      /\ first.file \in DOMAIN files
                      /\ Contents(files, first.file) = files[first.file]
<1> DEFINE its == Listed(files)
           first == LastItem(files, recorded)
           loaded == Shown(Contents(files, first.file))
<1>1. first \in its
  BY DEF LastItem, Listed
<1>2. ASSUME NEW f \in DOMAIN files
      PROVE  ReadKey(files[f], "name") \in Names
  <2>1. Shown(files[f])["name"] \in Names
    BY DraftsAssumption DEF FilesHold
  <2> QED
    BY <2>1 DEF Shown, Keys
<1>3. ItemOf(NewItem)
  BY DEF ItemOf, NewItem
<1>4. \A it \in its : ItemOf(it)
  <2> SUFFICES ASSUME NEW f \in DOMAIN files
               PROVE  ItemOf([text |-> ReadKey(files[f], "name"), file |-> f])
    BY <1>3 DEF Listed
  <2> QED
    BY <1>2 DEF ItemOf
<1>5. first.file \in DOMAIN files \union {New}
  BY <1>1, <1>4 DEF ItemOf
<1>6. /\ loaded \in Drafts \union {Blank}
      /\ first.file # New =>
             first.file \in DOMAIN files /\ Contents(files, first.file) = files[first.file]
  <2> HIDE DEF first
  <2> QED
    BY <1>5, FormOfItem
<1>7. loaded["simpleAuth"] = TRUE /\ loaded = [key \in Keys |-> loaded[key]]
  <2> HIDE DEF loaded
  <2>1. CASE loaded = Blank
    BY <2>1, BlankForm
  <2>2. CASE loaded \in Drafts
    <3>1. loaded["simpleAuth"] = Default("simpleAuth")
      BY <2>2, DraftsAssumption DEF Hidden
    <3>2. Default("simpleAuth") = TRUE
      BY BlankDefault
    <3> QED
      BY <2>2, <3>1, <3>2, DraftsAssumption
  <2> QED
    BY <1>6, <2>1, <2>2
<1>8. FirstForm(files, recorded) = loaded
  <2>1. FirstForm(files, recorded) = [loaded EXCEPT !["simpleAuth"] = TRUE]
    BY DEF FirstForm
  <2> HIDE DEF loaded
  <2> QED
    BY <1>7, <2>1
<1>9. \A f \in DOMAIN files : \E it \in its : it.file = f
  <2> TAKE f \in DOMAIN files
  <2> DEFINE it == [text |-> ReadKey(files[f], "name"), file |-> f]
  <2>1. it \in its
    BY DEF Listed
  <2>2. it.file = f
    OBVIOUS
  <2> HIDE DEF it, its
  <2> QED
    BY <2>1, <2>2
<1> QED
  BY <1>1, <1>4, <1>6, <1>8, <1>9

LEMMA StoredInitial == StoredInit => StoredInvariant
<1> SUFFICES ASSUME StoredInit PROVE StoredInvariant
  OBVIOUS
<1>1. DOMAIN files = {} /\ DOMAIN saved = {}
  BY DEF StoredInit, Nothing
<1>2. FilesHold
  BY <1>1 DEF FilesHold
<1>3. /\ current \in items /\ \A it \in items : ItemOf(it)
      /\ form \in Drafts \union {Blank}
      /\ current.file # New => current.file \in DOMAIN files
  BY <1>2, ConstructorEstablishes DEF StoredInit
<1>4. StoredIsListed /\ ShownIsStored
  BY <1>1, <1>3 DEF StoredIsListed, ShownIsStored
<1> QED
  BY <1>2, <1>3, <1>4 DEF StoredInvariant

LEMMA StartKeeps == StoredInvariant /\ Start => StoredInvariant'
<1> SUFFICES ASSUME StoredInvariant, Start PROVE StoredInvariant'
  OBVIOUS
<1>1. UNCHANGED <<files, saved>> /\ FilesHold
  BY DEF Start, StoredInvariant
<1>2. FilesHold'
  BY <1>1 DEF FilesHold
<1>3. /\ current' \in items' /\ \A it \in items' : ItemOf(it)
      /\ form' \in Drafts \union {Blank}
      /\ form' = Shown(Contents(files, current'.file))
      /\ \A f \in DOMAIN files : \E it \in items' : it.file = f
      /\ current'.file # New =>
             /\ current'.file \in DOMAIN files
             /\ Contents(files, current'.file) = files[current'.file]
  BY <1>1, ConstructorEstablishes DEF Start
<1>4. \A it \in items' : ItemOf(it)'
  BY <1>1, <1>3 DEF ItemOf
<1>5. StoredIsListed'
  BY <1>1, <1>3 DEF StoredIsListed
<1>6. ShownIsStored'
  BY <1>1, <1>3 DEF ShownIsStored
<1> QED
  BY <1>2, <1>3, <1>4, <1>5, <1>6 DEF StoredInvariant

LEMMA ChoosingKeeps ==
    ASSUME StoredInvariant, NEW it \in items, ChooseConnection(it)
    PROVE  StoredInvariant'
<1>1. UNCHANGED <<files, items, saved>> /\ FilesHold /\ ItemOf(it)
  BY DEF ChooseConnection, StoredInvariant
<1>2. FilesHold' /\ \A i \in items' : ItemOf(i)'
  BY <1>1 DEF FilesHold, ItemOf, StoredInvariant
<1>3. current' = it /\ form' = Shown(Contents(files, it.file))
  BY DEF ChooseConnection, MakeCurrent
<1>4. /\ Shown(Contents(files, it.file)) \in Drafts \union {Blank}
      /\ it.file # New => it.file \in DOMAIN files /\ Contents(files, it.file) = files[it.file]
  BY <1>1, FormOfItem DEF ItemOf
<1>5. ShownIsStored'
  BY <1>1, <1>3, <1>4 DEF ShownIsStored
<1>6. StoredIsListed'
  BY <1>1 DEF StoredIsListed, StoredInvariant
<1> QED
  BY <1>1, <1>2, <1>3, <1>4, <1>5, <1>6 DEF StoredInvariant

LEMMA EnteringKeeps == StoredInvariant /\ EnterName => StoredInvariant'
<1> SUFFICES ASSUME StoredInvariant, EnterName PROVE StoredInvariant'
  OBVIOUS
<1> DEFINE item == [text |-> form["name"], file |-> New]
<1>1. UNCHANGED <<files, saved>> /\ FilesHold
  BY DEF EnterName, StoredInvariant
<1>2. /\ items' = items \union {item} /\ current' = item /\ form["name"] # ""
      /\ form' = Shown(Contents(files, item.file))
  BY DEF EnterName, MakeCurrent
<1>3. form["name"] \in Names
  BY <1>2, BlankForm, DraftsAssumption DEF StoredInvariant
<1>4. ItemOf(item)
  BY <1>3 DEF ItemOf
<1>5. FilesHold' /\ \A i \in items' : ItemOf(i)'
  BY <1>1, <1>2, <1>4 DEF FilesHold, ItemOf, StoredInvariant
<1>6. form' \in Drafts \union {Blank}
  BY <1>1, <1>2, FormOfItem
<1>7. ShownIsStored'
  BY <1>2 DEF ShownIsStored
<1>8. StoredIsListed'
  <2>1. \A f \in DOMAIN files : \E it \in items : it.file = f \/ (it.text = f /\ f \in Names)
    BY DEF StoredIsListed, StoredInvariant
  <2>2. files' = files /\ items \subseteq items'
    BY <1>1, <1>2
  <2> QED
    BY <2>1, <2>2 DEF StoredIsListed
<1> QED
  BY <1>2, <1>5, <1>6, <1>7, <1>8 DEF StoredInvariant

LEMMA TypingKeeps ==
    ASSUME StoredInvariant, NEW d \in Drafts, Type(d)
    PROVE  StoredInvariant'
<1>1. UNCHANGED <<files, items, current, saved>> /\ form' = d /\ touched' = TRUE
  BY DEF Type
<1>2. FilesHold' /\ \A i \in items' : ItemOf(i)'
  BY <1>1 DEF FilesHold, ItemOf, StoredInvariant
<1>3. StoredIsListed' /\ ShownIsStored'
  BY <1>1 DEF StoredIsListed, ShownIsStored, StoredInvariant
<1> QED
  BY <1>1, <1>2, <1>3 DEF StoredInvariant

\* What a click writes is read back as the form.
LEMMA SaveAndRead ==
    ASSUME StoredInvariant, NEW random \in Randoms, OnConnectClicked(random)
    PROVE  /\ form \in Drafts /\ FileName \in Files
           /\ FileName \in DOMAIN files' /\ Shown(files'[FileName]) = form
           /\ DOMAIN files' = DOMAIN files \union {FileName}
           /\ \A g \in DOMAIN files \ {FileName} : files'[g] = files[g]
           /\ asked' = form
<1>1. form \in Drafts
  <2>1. form["name"] # ""
    BY DEF OnConnectClicked, Ready
  <2> QED
    BY <2>1, BlankForm DEF StoredInvariant
<1>2. FileName \in Files
  <2>1. CASE current.file = New
    <3>1. form["name"] \in Names
      BY <1>1, DraftsAssumption
    <3> QED
      BY <2>1, <3>1, FilesAssumption DEF FileName
  <2>2. CASE current.file # New
    BY <2>2 DEF FileName, StoredInvariant, ItemOf, FilesHold
  <2> QED
    BY <2>1, <2>2
<1>3. /\ files' = [g \in DOMAIN files \union {FileName} |->
                      IF g = FileName THEN Written(form, random) ELSE files[g]]
      /\ asked' = ConnectionOptions(files', FileName)
  BY DEF OnConnectClicked
<1>4. files'[FileName] = Written(form, random)
  BY <1>3
<1>5. Shown(files'[FileName]) = form
  BY <1>1, <1>4, WrittenIsShown
<1> QED
  BY <1>1, <1>2, <1>3, <1>5 DEF ConnectionOptions

LEMMA ConnectingKeeps ==
    ASSUME StoredInvariant, NEW random \in Randoms, OnConnectClicked(random)
    PROVE  StoredInvariant'
<1> DEFINE f == FileName
<1>1. /\ form \in Drafts /\ f \in Files /\ f \in DOMAIN files' /\ Shown(files'[f]) = form
      /\ DOMAIN files' = DOMAIN files \union {f}
      /\ \A g \in DOMAIN files \ {f} : files'[g] = files[g]
  BY SaveAndRead
<1>2. f # New /\ f # NewItem.text
  BY <1>1, FilesAssumption
<1>3. saved' = [g \in DOMAIN files \union {f} |-> IF g = f THEN form ELSE saved[g]]
  BY DEF OnConnectClicked
<1>4. FilesHold'
  <2>1. DOMAIN files' \subseteq Files /\ DOMAIN saved' = DOMAIN files'
    BY <1>1, <1>3 DEF FilesHold, StoredInvariant
  <2>2. ASSUME NEW g \in DOMAIN files'
        PROVE  saved'[g] \in Drafts /\ Shown(files'[g]) = saved'[g]
    <3>1. CASE g = f
      BY <1>1, <1>3, <3>1
    <3>2. CASE g # f
      <4>1. g \in DOMAIN files /\ files'[g] = files[g] /\ saved'[g] = saved[g]
        BY <1>1, <1>3, <3>2
      <4> QED
        BY <4>1 DEF FilesHold, StoredInvariant
    <3> QED
      BY <3>1, <3>2
  <2> QED
    BY <2>1, <2>2 DEF FilesHold
<1>5. \A it \in items : ItemOf(it)'
  <2> SUFFICES ASSUME NEW it \in items PROVE ItemOf(it)'
    OBVIOUS
  <2>1. ItemOf(it)
    BY DEF StoredInvariant
  <2> HIDE DEF f
  <2> QED
    BY <1>1, <2>1 DEF ItemOf
<1>6. \A g \in DOMAIN files : \E it \in items : it.file = g \/ (it.text = g /\ g \in Names)
  BY DEF StoredInvariant, StoredIsListed
<1>7. CASE \E it \in items : it.text = f
  <2>1. UNCHANGED <<items, current, form>>
    BY <1>7 DEF OnConnectClicked, ListFile
  <2>2. StoredIsListed'
    <3>1. PICK it \in items : it.text = f
      BY <1>7
    <3>2. it.file = f \/ f \in Names
      BY <1>2, <3>1 DEF StoredInvariant, ItemOf
    <3> HIDE DEF f
    <3>3. \A g \in DOMAIN files' : \E i \in items : i.file = g \/ (i.text = g /\ g \in Names)
      BY <1>1, <1>6, <3>1, <3>2
    <3> QED
      BY <2>1, <3>3 DEF StoredIsListed
  <2>3. ShownIsStored'
    <3>1. current.file # New => f = current.file
      BY DEF FileName
    <3> HIDE DEF f
    <3> QED
      BY <1>1, <2>1, <3>1 DEF ShownIsStored
  <2>4. current' \in items' /\ form' \in Drafts \union {Blank} /\ \A it \in items' : ItemOf(it)'
    BY <1>1, <1>5, <2>1 DEF StoredInvariant
  <2> QED
    BY <1>4, <2>2, <2>3, <2>4 DEF StoredInvariant
<1>8. CASE ~ \E it \in items : it.text = f
  <2>1. /\ items' = items \union {AddedItem(f)} /\ current' = AddedItem(f)
        /\ form' = Shown(Contents(files', current'.file))
    BY <1>8 DEF OnConnectClicked, ListFile
  <2>2. AddedItem(f).file = f /\ AddedItem(f).text = f
    BY DEF AddedItem
  <2> HIDE DEF f
  <2>3. form' = Shown(files'[f]) /\ form' = form
    BY <1>1, <2>1, <2>2 DEF Contents
  <2>4. ShownIsStored'
    BY <1>1, <2>1, <2>2, <2>3 DEF ShownIsStored
  <2>5. ASSUME NEW it \in items'
        PROVE  ItemOf(it)'
    <3>1. CASE it \in items
      BY <1>5, <3>1
    <3>2. CASE it = AddedItem(f)
      BY <1>1, <1>2, <2>2, <3>2 DEF ItemOf
    <3> QED
      BY <2>1, <3>1, <3>2
  <2>6. current' \in items' /\ form' \in Drafts \union {Blank}
    BY <1>1, <2>1, <2>3
  <2>7. StoredIsListed'
    <3>1. \A g \in DOMAIN files' : \E it \in items' : it.file = g \/ (it.text = g /\ g \in Names)
      BY <1>1, <1>6, <2>1, <2>2
    <3> QED
      BY <3>1 DEF StoredIsListed
  <2> QED
    BY <1>4, <2>4, <2>5, <2>6, <2>7 DEF StoredInvariant
<1> QED
  BY <1>7, <1>8

LEMMA StoredStep == StoredInvariant /\ [StoredNext]_storedVars => StoredInvariant'
<1> SUFFICES ASSUME StoredInvariant, [StoredNext]_storedVars
             PROVE  StoredInvariant'
  OBVIOUS
<1>1. ASSUME UNCHANGED <<files, items, current, form, touched, saved>>
      PROVE  StoredInvariant'
  <2>1. FilesHold' /\ \A i \in items' : ItemOf(i)'
    BY <1>1 DEF FilesHold, ItemOf, StoredInvariant
  <2>2. StoredIsListed' /\ ShownIsStored'
    BY <1>1 DEF StoredIsListed, ShownIsStored, StoredInvariant
  <2> QED
    BY <1>1, <2>1, <2>2 DEF StoredInvariant
<1>2. CASE \E it \in items : ChooseConnection(it)
  BY <1>2, ChoosingKeeps
<1>3. CASE \E d \in Drafts : Type(d)
  BY <1>3, TypingKeeps
<1>4. CASE \E random \in Randoms : OnConnectClicked(random)
  BY <1>4, ConnectingKeeps
<1>5. CASE EnterName
  BY <1>5, EnteringKeeps
<1>6. CASE Start
  BY <1>6, StartKeeps
<1>7. CASE GiveUp \/ Succeed \/ UNCHANGED storedVars
  BY <1>1, <1>7 DEF GiveUp, Succeed, storedVars
<1> QED
  BY <1>2, <1>3, <1>4, <1>5, <1>6, <1>7 DEF StoredNext

LEMMA StoredInvariantHolds == StoredSpec => []StoredInvariant
<1> QED
  BY StoredInitial, StoredStep, PTL DEF StoredSpec

(***************************************************************************)
(* Whatever may be typed, whatever qrand gives and whatever the library's  *)
(* compression and check values are, what is read from the file of a       *)
(* connection, its secrets included, is the form that was saved there.     *)
(***************************************************************************)
THEOREM StoredStaysAsSaved == StoredSpec => []StoredAsSaved
<1>1. StoredInvariant => StoredAsSaved
  BY DEF StoredInvariant, FilesHold, StoredAsSaved
<1> QED
  BY <1>1, StoredInvariantHolds, PTL

(***************************************************************************)
(* The form that nobody typed in shows what is stored of the connection    *)
(* that is current, after a save that changed the current item as well.    *)
(***************************************************************************)
THEOREM FormStaysAsStored == StoredSpec => []ShownIsStored
<1>1. StoredInvariant => ShownIsStored
  BY DEF StoredInvariant
<1> QED
  BY <1>1, StoredInvariantHolds, PTL

(***************************************************************************)
(* Every stored connection stays one that can be chosen, or is hidden by an*)
(* item with the name of its file: the only way saveSettings loses one.    *)
(***************************************************************************)
THEOREM StoredStaysListed == StoredSpec => []StoredIsListed
<1>1. StoredInvariant => StoredIsListed
  BY DEF StoredInvariant
<1> QED
  BY <1>1, StoredInvariantHolds, PTL

(***************************************************************************)
(* Every click connects with the form as it was: what saveSettings writes, *)
(* the settings object it makes and the form it loads in between lose      *)
(* nothing (onConnectClicked, connectionOptions).                          *)
(***************************************************************************)
THEOREM EveryClickConnectsAsShown == StoredSpec => ConnectsAsShown
<1>1. StoredInvariant =>
          [\A random \in Randoms : OnConnectClicked(random) => asked' = form]_storedVars
  BY SaveAndRead
<1> QED
  BY <1>1, StoredInvariantHolds, PTL DEF ConnectsAsShown
=============================================================================
