---------------------------- MODULE SignInProofs ----------------------------
(* Theorems about SignIn, for any number of attempts.                      *)
EXTENDS SignIn, TLAPS

\* What has been reported came from the awaited attempt, whose tab was told,
\* and whose thread is gone.
Reported ==
    reply # "none" =>
        /\ auth_rx # None
        /\ port = None
        /\ reply = "token" => page[auth_rx] = "success"

\* A connection is read by the thread that holds the port.
ConnHasPort == conn # NoConn => port # None

SignInInv == TypeOK /\ ConnHasPort /\ Reported /\ AwaitedCanAnswer

LEMMA SignInStep == SignInInv /\ [Next]_vars => SignInInv'
<1> SUFFICES ASSUME SignInInv, [Next]_vars PROVE SignInInv'
  OBVIOUS
<1>0. TypeOK /\ ConnHasPort /\ Reported /\ AwaitedCanAnswer
  BY DEF SignInInv
<1> USE SignInAssumption, <1>0
    DEF SignInAssumption, SignInInv, TypeOK, ConnHasPort, Reported,
        AwaitedCanAnswer,
        NoConn, Callers, Queries
<1>1. ASSUME NEW a \in Attempts, StartSignIn(a) PROVE SignInInv'
  BY <1>1 DEF StartSignIn
<1>2. CASE CancelSignIn BY <1>2 DEF CancelSignIn
<1>3. CASE SignOut BY <1>3 DEF SignOut
<1>4. CASE PollAuth BY <1>4 DEF PollAuth
<1>5. CASE Restart BY <1>5 DEF Restart
<1>6. ASSUME NEW caller \in Callers, NEW query \in Queries,
             Connect(caller, query)
      PROVE  SignInInv'
  BY <1>6 DEF Connect
<1>7. ASSUME NEW written \in BOOLEAN, Answer(written) PROVE SignInInv'
  <2>1. /\ port \in Attempts
        /\ reply = "none"
    <3>1. conn # NoConn BY <1>7 DEF Answer
    <3>2. port # None BY <3>1, <1>0 DEF ConnHasPort
    <3> QED BY <3>2
  <2>2. TypeOK'
    BY <1>7 DEF Answer, Report, Release
  <2>3. Reported'
    BY <1>7, <2>1 DEF Answer, Report, Release, Accepted
  <2>4. AwaitedCanAnswer'
    BY <1>7 DEF Answer, Report, Release
  <2>5. ConnHasPort'
    BY <1>7 DEF Answer
  <2> QED BY <2>2, <2>3, <2>4, <2>5
<1>8. CASE AcceptFails BY <1>8 DEF AcceptFails, Report, Release
<1>9. CASE UNCHANGED vars BY <1>9 DEF vars
<1> QED BY <1>1, <1>2, <1>3, <1>4, <1>5, <1>6, <1>7, <1>8, <1>9 DEF Next

LEMMA SignInInvHolds == Spec => []SignInInv
<1>1. Init => SignInInv
  BY SignInAssumption
  DEF SignInAssumption, Init, SignInInv, TypeOK, ConnHasPort, Reported,
        AwaitedCanAnswer,
      NoConn
<1> QED BY <1>1, SignInStep, PTL DEF Spec

\* Every field of the sign-in keeps its type, for any number of attempts: the
\* answers that poll_auth takes are those that a callback can give.
THEOREM SignInTypes == Spec => []TypeOK
<1>1. SignInInv => TypeOK BY DEF SignInInv
<1> QED BY <1>1, SignInInvHolds, PTL

\* Nobody waits for an answer that can no longer come.
THEOREM AwaitedCanAnswerHolds == Spec => []AwaitedCanAnswer
<1>1. SignInInv => AwaitedCanAnswer BY DEF SignInInv
<1> QED BY <1>1, SignInInvHolds, PTL

\* Whatever late, repeated or foreign requests reach the port, only the tab of
\* the awaited sign-in signs the app in.
THEOREM SignedInByItsOwnTabHolds == Spec => SignedInByItsOwnTab
<1>1. SignInInv /\ [Next]_vars =>
        [auth_token' \notin {None, auth_token} =>
            auth_token' = auth_rx /\ page[auth_rx] = "success"]_vars
  <2> SUFFICES ASSUME SignInInv, Next, auth_token' \notin {None, auth_token}
               PROVE  auth_token' = auth_rx /\ page[auth_rx] = "success"
    OBVIOUS
  <2>1. CASE PollAuth
    BY <2>1 DEF PollAuth, SignInInv, Reported
  <2>2. CASE ~PollAuth
    BY <2>2 DEF Next, StartSignIn, CancelSignIn, SignOut, Restart, Connect,
                Answer, AcceptFails
  <2> QED BY <2>1, <2>2
<1> QED BY <1>1, SignInInvHolds, PTL DEF Spec, SignedInByItsOwnTab

=============================================================================
