------------------------------- MODULE SignIn -------------------------------
(***************************************************************************)
(* The browser sign-in of ARCTracker Sync (src/src/auth_bridge.rs and the  *)
(* handlers of src/src/app.rs that use it).  An attempt binds the callback *)
(* port, opens a browser tab that carries the attempt's random state, and  *)
(* leaves a thread behind that accepts ONE connection, answers it with a   *)
(* page, and reports to the app through a channel.                         *)
(*                                                                         *)
(* A tab outlives its attempt: it may call back late, or more than once,   *)
(* and it survives the program.  The thread outlives a cancelled attempt,  *)
(* whose receiver is gone, and keeps the port.                             *)
(*                                                                         *)
(* What refreshes do to the sign-in afterwards is part of SyncSession.     *)
(***************************************************************************)
EXTENDS Naturals

CONSTANTS
    Attempts,   \* sign-ins, each with a state of its own
    None,       \* the Option::None of every optional field
    Stranger    \* any other local program that connects to the port

ASSUME SignInAssumption ==
    /\ None \notin Attempts
    /\ Stranger \notin Attempts
    /\ None # Stranger

VARIABLES
    auth_rx,     \* attempt whose answer the app awaits, or None
    reply,       \* what the channel of that attempt holds
    auth_token,  \* attempt that signed the app in, or None
    port,        \* attempt whose thread holds CALLBACK_PORT, or None
    conn,        \* the connection that thread accepted
    page,        \* last page shown in the tab of each attempt
    opened       \* attempts whose tab has been opened

vars == <<auth_rx, reply, auth_token, port, conn, page, opened>>

Callers == Attempts \cup {Stranger}
\* What a caller brings: a token, the error of a refused sign-in, or a request
\* with neither, cut short, or with a foreign Host.
Queries == {"token", "error", "neither"}
NoConn == [from |-> None, query |-> "neither"]

TypeOK ==
    /\ auth_rx \in Attempts \cup {None}
    /\ reply \in {"none", "token", "error"}
    /\ auth_token \in Attempts \cup {None}
    /\ port \in Attempts \cup {None}
    /\ conn \in [from : Callers, query : Queries] \cup {NoConn}
    /\ page \in [Attempts -> {"none", "success", "error"}]
    /\ opened \subseteq Attempts

Init ==
    /\ auth_rx = None
    /\ reply = "none"
    /\ auth_token = None
    /\ port = None
    /\ conn = NoConn
    /\ page = [a \in Attempts |-> "none"]
    /\ opened = {}

-----------------------------------------------------------------------------
(* Faulty variants of definitions below.                                   *)

\* A callback that is not asked for its state.
AcceptedAnyState == conn.query = "token" /\ conn.from # Stranger

\* A poll that takes whatever came for a token.
PollAuthTakesAll ==
    /\ reply # "none"
    /\ auth_token' = IF reply = "token" THEN auth_rx ELSE reply
    /\ auth_rx' = None
    /\ reply' = "none"
    /\ UNCHANGED <<port, conn, page, opened>>

\* A thread that reports only success.
ReportOnlySuccess(ok) == IF ok THEN "token" ELSE "none"

\* A thread that goes on accepting after a request it refused.
ReleaseOnSuccess(ok) == IF ok THEN None ELSE port

-----------------------------------------------------------------------------
(* The app.                                                                *)

\* start_sign_in from the button of HubState::SignedOut.  Binding the port
\* fails while an older thread holds it, and then nothing has changed.
StartSignIn(a) ==
    /\ auth_token = None
    /\ auth_rx = None
    /\ a \notin opened
    /\ port = None
    /\ port' = a
    /\ auth_rx' = a
    /\ reply' = "none"
    /\ opened' = opened \cup {a}
    /\ UNCHANGED <<auth_token, conn, page>>

\* cancel_sign_in drops the receiver; the thread is not told.
CancelSignIn ==
    /\ auth_rx # None
    /\ auth_rx' = None
    /\ reply' = "none"
    /\ UNCHANGED <<auth_token, port, conn, page, opened>>

\* sign_out, from the tray at any time.
SignOut ==
    /\ auth_rx' = None
    /\ reply' = "none"
    /\ auth_token' = None
    /\ UNCHANGED <<port, conn, page, opened>>

PollAuth ==
    /\ reply # "none"
    /\ auth_token' = IF reply = "token" THEN auth_rx ELSE auth_token
    /\ auth_rx' = None
    /\ reply' = "none"
    /\ UNCHANGED <<port, conn, page, opened>>

\* A new process: no thread, no listener, perhaps the saved sign-in.
Restart ==
    /\ auth_rx' = None
    /\ reply' = "none"
    /\ auth_token' \in {auth_token, None}
    /\ port' = None
    /\ conn' = NoConn
    /\ UNCHANGED <<page, opened>>

-----------------------------------------------------------------------------
(* The browser and the callback thread.                                    *)

\* listener.accept() returns; there is no second accept.
Connect(caller, query) ==
    /\ port # None
    /\ conn = NoConn
    /\ caller \in opened \cup {Stranger}
    /\ conn' = [from |-> caller, query |-> query]
    /\ UNCHANGED <<auth_rx, reply, auth_token, port, page, opened>>

\* The request carries the state of the attempt and a token.
Accepted == conn.query = "token" /\ conn.from = port

\* What the thread sends, and the port once its listener is dropped.
Report(ok) == IF ok THEN "token" ELSE "error"
Release(ok) == None

\* accept_callback returns: the page is written, then the port is released
\* and the result sent, which reaches nobody when the receiver is gone.  The
\* page may fail to be written, which turns a success into an error.
Answer(written) ==
    LET ok == Accepted /\ written
    IN  /\ conn # NoConn
        /\ page' = IF written /\ conn.from \in Attempts
                   THEN [page EXCEPT ![conn.from] =
                            IF ok THEN "success" ELSE "error"]
                   ELSE page
        /\ reply' = IF auth_rx = port THEN Report(ok) ELSE reply
        /\ port' = Release(ok)
        /\ conn' = NoConn
        /\ UNCHANGED <<auth_rx, auth_token, opened>>

\* listener.accept() fails: no page, but an answer.
AcceptFails ==
    /\ port # None
    /\ conn = NoConn
    /\ reply' = IF auth_rx = port THEN Report(FALSE) ELSE reply
    /\ port' = Release(FALSE)
    /\ UNCHANGED <<auth_rx, auth_token, conn, page, opened>>

Next ==
    \/ \E a \in Attempts : StartSignIn(a)
    \/ CancelSignIn \/ SignOut \/ PollAuth \/ Restart
    \/ \E caller \in Callers, query \in Queries : Connect(caller, query)
    \/ \E written \in BOOLEAN : Answer(written)
    \/ AcceptFails

Spec == Init /\ [][Next]_vars

\* The worker polls for ever, and reading a request ends: each read has a
\* 10 s timeout and the request a maximal size.  No tab has to call back.
Fairness ==
    /\ WF_vars(PollAuth)
    /\ WF_vars(\E written \in BOOLEAN : Answer(written))

FairSpec == Spec /\ Fairness

-----------------------------------------------------------------------------
(* Properties.                                                             *)

\* The app is signed in only by the tab of the sign-in it is waiting for and
\* that was told so: not by a tab of an attempt cancelled before, a tab left
\* over from an earlier run, nor another program on the port.
SignedInByItsOwnTab ==
    [][auth_token' \notin {None, auth_token} =>
          auth_token' = auth_rx /\ page[auth_rx] = "success"]_vars

\* "Finish signing in" is shown only while an answer can still come: the
\* thread of the awaited attempt holds the port, or has already reported.
AwaitedCanAnswer ==
    auth_rx # None => port = auth_rx \/ reply # "none"

\* "Head back to ARCTracker Sync and try again" (SyncApp.bridge.errorBody):
\* after the error page, the port is soon free for a new attempt.
ErrorPageCanRetry ==
    \A a \in Attempts :
        page[a] = "error" /\ auth_rx = a ~> auth_rx # a /\ port # a

=============================================================================
