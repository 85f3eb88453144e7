----------------------------- MODULE TokenSource -----------------------------
(***************************************************************************)
(* What passes between the capture thread and the session: the tokens a    *)
(* thread reports while it runs.  A thread knows what it reported and does *)
(* not repeat it, but keeps only so many: when it is full it forgets all,  *)
(* the token it looks at included.                                         *)
(*                                                                         *)
(* CaptureThread implements this on the thread's side of the channel,      *)
(* SyncSession on the side that polls it.                                  *)
(***************************************************************************)
EXTENDS Naturals, FiniteSets

CONSTANTS
    Tokens,
    SeenLimit    \* MAX_SEEN_FINGERPRINTS

VARIABLES
    running,     \* there is a capture thread
    known        \* the tokens it reported and remembers

vars == <<running, known>>

Init == running \in BOOLEAN /\ known = {}

\* A thread starts with nothing to remember, and leaves nothing.
Starts == ~running /\ running' /\ known' = {}
Ends == running /\ ~running' /\ known' = {}

\* A token is reported: a new one, or when the thread is full any.
Report(t) ==
    /\ running /\ running'
    /\ IF Cardinality(known) >= SeenLimit
       THEN known' = {t}
       ELSE t \notin known /\ known' = known \cup {t}

\* What the threads do, one after the other.
ThreadNext == Starts \/ Ends \/ \E t \in Tokens : Report(t)

ThreadSpec == Init /\ [][ThreadNext]_vars

\* A handler of the app may end one thread and start the next: its reader sees
\* both at once.
Replaced == running /\ running' /\ known' = {}

Spec == Init /\ [][ThreadNext \/ Replaced]_vars

\* The set never grows past its limit, however many tokens the game goes through.
KnownIsBounded == Cardinality(known) <= IF SeenLimit = 0 THEN 1 ELSE SeenLimit
==============================================================================
