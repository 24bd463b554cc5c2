--------------------------- MODULE ConnectionDialog ---------------------------
(***************************************************************************)
(* The connection dialog and the worker threads that connect.              *)
(*                                                                         *)
(* A click on Connect saves the settings, disables the form, starts a      *)
(* worker on the thread pool and a one-second timer.  The form comes back  *)
(* when the time is up although the worker may still run, so a second      *)
(* click can start a second worker beside it.  Workers share the           *)
(* connection (CLdapData::m_Connection) with the GUI thread and read the   *)
(* settings object of the dialog by reference; their answers are signals   *)
(* queued to the GUI thread.  Error boxes run an event loop of their own,  *)
(* so timers and answers are handled while one is open.                    *)
(***************************************************************************)
EXTENDS Integers, Sequences

CONSTANTS
    MaxClicks,  \* bound: clicks on Connect
    Timeout     \* CLdapSettings::timeout, in seconds

ASSUME BoundsAssumption == MaxClicks \in Nat /\ Timeout \in Nat \ {0}

Attempts == 1 .. MaxClicks

VARIABLES
    window,     \* "open", "accepted" or "rejected"
    enabled,    \* the form takes input
    waitTime,   \* m_WaitTime, in seconds
    timers,     \* pending QTimer::singleShot calls
    boxes,      \* open error boxes
    clicks,     \* attempts made; m_lastConnectionFile is the last one's
    settings,   \* the attempt m_Settings was saved for, 0 for none
    worker,     \* [Attempts -> "idle", "connecting", "building", "done"]
    answers,    \* queued onConnectionCompleted signals
    conn,       \* the attempt whose connection m_Connection is, 0 for null
    last,       \* last_connection of the session file, 0 if never written
    succeeded,  \* history: attempts that reported success
    overtaken   \* history: the form came back before an answer

dialogVars == <<window, enabled, waitTime, timers, boxes, clicks, settings, worker, answers,
          conn, last, succeeded, overtaken>>

Answer == [attempt : Attempts, ok : BOOLEAN]

DialogTypeOK ==
    /\ window \in {"open", "accepted", "rejected"}
    /\ enabled \in BOOLEAN /\ overtaken \in BOOLEAN
    /\ waitTime \in -1 .. Timeout
    /\ timers \in Nat /\ boxes \in Nat
    /\ clicks \in 0 .. MaxClicks
    /\ {settings, conn, last} \subseteq 0 .. MaxClicks
    /\ worker \in [Attempts -> {"idle", "connecting", "building", "done"}]
    /\ answers \in Seq(Answer)
    /\ succeeded \subseteq Attempts

DialogInit ==
    /\ window = "open" /\ enabled = TRUE
    /\ waitTime = 0 /\ timers = 0 /\ boxes = 0
    /\ clicks = 0 /\ settings = 0
    /\ worker = [k \in Attempts |-> "idle"]
    /\ answers = <<>>
    /\ conn = 0 /\ last = 0
    /\ succeeded = {} /\ overtaken = FALSE

Running(k) == worker[k] \in {"connecting", "building"}
Unanswered == (\E k \in Attempts : Running(k)) \/ answers # <<>>
TakesInput == window = "open" /\ enabled /\ boxes = 0

-----------------------------------------------------------------------------
(* A mistaken Connect that leaves the form enabled.                        *)
ConnectEnabled ==
    /\ TakesInput /\ clicks < MaxClicks
    /\ clicks' = clicks + 1
    /\ settings' = clicks'
    /\ waitTime' = Timeout
    /\ timers' = timers + 1
    /\ conn' = 0
    /\ worker' = [worker EXCEPT ![clicks'] = "connecting"]
    /\ UNCHANGED <<window, enabled, boxes, answers, last, succeeded, overtaken>>

(* CConnectionDialog::onConnectClicked and the part of CLdapData::connect  *)
(* that runs on the GUI thread.                                            *)
Connect ==
    /\ TakesInput /\ clicks < MaxClicks
    /\ clicks' = clicks + 1
    /\ settings' = clicks'
    /\ enabled' = FALSE
    /\ waitTime' = Timeout
    /\ timers' = timers + 1
    /\ conn' = 0
    /\ worker' = [worker EXCEPT ![clicks'] = "connecting"]
    /\ UNCHANGED <<window, boxes, answers, last, succeeded, overtaken>>

(* onConnectionChanged: another stored connection replaces m_Settings.     *)
ChangeConnection ==
    /\ TakesInput /\ settings # 0
    /\ settings' = 0
    /\ UNCHANGED <<window, enabled, waitTime, timers, boxes, clicks, worker, answers,
                   conn, last, succeeded, overtaken>>

Cancel ==
    /\ TakesInput
    /\ window' = "rejected"
    /\ UNCHANGED <<enabled, waitTime, timers, boxes, clicks, settings, worker, answers,
                   conn, last, succeeded, overtaken>>

(* A mistaken Tick whose timer is not started again.                       *)
TickOnce ==
    /\ timers > 0 /\ window # "rejected"
    /\ waitTime' = waitTime - 1
    /\ timers' = timers - 1
    /\ IF waitTime' > 0
       THEN UNCHANGED <<enabled, overtaken>>
       ELSE /\ enabled' = TRUE
            /\ overtaken' = (overtaken \/ (window = "open" /\ Unanswered))
    /\ UNCHANGED <<window, boxes, clicks, settings, worker, answers, conn, last, succeeded>>

(* onTimer: one second less to wait, or the form comes back.               *)
Tick ==
    /\ timers > 0 /\ window # "rejected"
    /\ waitTime' = waitTime - 1
    /\ IF waitTime' > 0
       THEN UNCHANGED <<enabled, timers, overtaken>>
       ELSE /\ enabled' = TRUE
            /\ timers' = timers - 1
            /\ overtaken' = (overtaken \/ (window = "open" /\ Unanswered))
    /\ UNCHANGED <<window, boxes, clicks, settings, worker, answers, conn, last, succeeded>>

-----------------------------------------------------------------------------
(* The worker: the lambda of CLdapData::connect. *)

Emit(k, ok) ==
    /\ answers' = Append(answers, [attempt |-> k, ok |-> ok])
    /\ worker' = [worker EXCEPT ![k] = "done"]
    /\ succeeded' = IF ok THEN succeeded \cup {k} ELSE succeeded

(* Up to bind: the new connection becomes m_Connection, or it failed.      *)
WorkerConnects(k, ok) ==
    /\ worker[k] = "connecting" /\ window # "rejected"
    /\ IF ok
       THEN /\ conn' = k
            /\ worker' = [worker EXCEPT ![k] = "building"]
            /\ UNCHANGED <<answers, succeeded>>
       ELSE Emit(k, FALSE) /\ UNCHANGED conn
    /\ UNCHANGED <<window, enabled, waitTime, timers, boxes, clicks, settings, last, overtaken>>

(* Schema and top entries are read over m_Connection, then the answer.     *)
WorkerBuilds(k, ok) ==
    /\ worker[k] = "building" /\ window # "rejected"
    /\ Emit(k, ok)
    /\ UNCHANGED <<window, enabled, waitTime, timers, boxes, clicks, settings, conn, last,
                   overtaken>>

(* A mistaken onConnectionCompleted: a failure brings the form back at once. *)
CompletedEnabling ==
    /\ answers # <<>> /\ window # "rejected"
    /\ answers' = Tail(answers)
    /\ waitTime' = 0
    /\ enabled' = TRUE
    /\ IF Head(answers).ok
       THEN last' = clicks /\ window' = "accepted" /\ UNCHANGED boxes
       ELSE boxes' = boxes + 1 /\ UNCHANGED <<window, last>>
    /\ UNCHANGED <<timers, clicks, settings, worker, conn, succeeded, overtaken>>

(* onConnectionCompleted, in the GUI thread's event loop.                  *)
OnConnectionCompleted ==
    /\ answers # <<>> /\ window # "rejected"
    /\ answers' = Tail(answers)
    /\ waitTime' = 0
    /\ IF Head(answers).ok
       THEN /\ enabled' = TRUE
            /\ last' = clicks
            /\ window' = "accepted"
            /\ UNCHANGED boxes
       ELSE /\ boxes' = boxes + 1
            /\ UNCHANGED <<window, enabled, last>>
    /\ UNCHANGED <<timers, clicks, settings, worker, conn, succeeded, overtaken>>

CloseBox ==
    /\ boxes > 0
    /\ boxes' = boxes - 1
    /\ UNCHANGED <<window, enabled, waitTime, timers, clicks, settings, worker, answers,
                   conn, last, succeeded, overtaken>>

WorkerStep(k) == \E ok \in BOOLEAN : WorkerConnects(k, ok) \/ WorkerBuilds(k, ok)

DialogNext ==
    \/ Connect \/ ChangeConnection \/ Cancel \/ Tick
    \/ \E k \in Attempts : WorkerStep(k)
    \/ OnConnectionCompleted \/ CloseBox

DialogSpec == DialogInit /\ [][DialogNext]_dialogVars

(* Timers fire and queued signals are delivered by the event loop, also    *)
(* while a box is open.  Nothing is assumed of the workers: a server may   *)
(* never answer.                                                           *)
DialogFairSpec == DialogSpec /\ WF_dialogVars(Tick) /\ WF_dialogVars(OnConnectionCompleted)

-----------------------------------------------------------------------------
(* The form is disabled exactly while a timer that will bring it back is   *)
(* pending, whatever answers, late or not, come in meanwhile; never more   *)
(* than one timer counts the seconds.                                      *)
FormWaitsForTimer ==
    window = "open" => (enabled <=> timers = 0) /\ timers <= 1

(* As long as no answer was overtaken by the timeout, a running worker     *)
(* finds its own settings and, once connected, its own connection, and the *)
(* window is accepted with the connection, the settings and the recorded   *)
(* last connection of the one attempt that succeeded.                      *)
PromptAnswersAgree ==
    ~overtaken =>
        /\ \A k \in Attempts : Running(k) => settings = k /\ (worker[k] = "building" => conn = k)
        /\ window = "accepted" => conn = clicks /\ settings = clicks /\ last = clicks
                                  /\ clicks \in succeeded

(* A disabled form comes back even if no server ever answers.              *)
FormComesBack == ~enabled ~> enabled

(* CLdapData.h: onConnectionCompleted's isSucceed is "is connection        *)
(* successful"; the main window opens on it.                               *)
AcceptedIsConnected == window = "accepted" => conn # 0
=============================================================================
