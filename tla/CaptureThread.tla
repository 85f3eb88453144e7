--------------------------- MODULE CaptureThread ---------------------------
(***************************************************************************)
(* The capture thread: start_capture and capture_loop of                   *)
(* src/src/capture.rs over the StreamManager of the vendored pcapsql-core. *)
(* It reads TLS connections off the wire, decrypts those whose secrets are *)
(* in the sync-key file, and reports the bearer tokens it finds.           *)
(*                                                                         *)
(* Secrets are looked up once, when a connection's handshake goes by, so   *)
(* a file that changes later makes the thread rebuild its manager from the *)
(* new secrets and replay a ring of the segments it has seen lately.       *)
(*                                                                         *)
(* A connection is a handshake (segment 0) and data segments 1..LastPos in *)
(* wire order; a data segment may carry a token.  Segments that are lost   *)
(* to the capture stay lost; those of other connections only take room in  *)
(* the ring.                                                               *)
(***************************************************************************)
EXTENDS Integers, Sequences, FiniteSets

CONSTANTS
    Conns,        \* connections of the game to Embark hosts
    Tokens,
    NoToken,      \* what a segment without a bearer token carries
    LastPos,      \* bound on the data segments of a connection
    RingSize,     \* MAX_RECENT_SEGMENTS
    TailSize,     \* connections whose secrets fit MAX_SYNC_KEY_TAIL_BYTES
    SeenLimit     \* MAX_SEEN_FINGERPRINTS

ASSUME CaptureAssumption ==
    /\ NoToken \notin Tokens
    /\ LastPos \in Nat
    /\ RingSize \in Nat \ {0}
    /\ TailSize \in Nat \ {0}
    /\ SeenLimit \in Nat

VARIABLES
    keylog,     \* connections in the order their secrets were written
    oldest,     \* index of the first of them still in the sync-key file
    readable,   \* FALSE while the file is locked or missing
    sent,       \* segments each connection has sent
    pc,         \* where the thread is
    stop,       \* the stop flag of the CaptureHandle, see StopFlags
    signed,     \* sync_key_signature is that of the file as it is now
    tail,       \* secrets just read, not yet in use
    keys,       \* secrets the manager was built with
    stream,     \* what the manager knows of each connection
    ring,       \* recent
    replay,     \* index of the segment reprocess_recent handles next
    seen,       \* seen_fingerprints
    reported    \* tokens sent on tx since the thread started; {} when it ended

fileVars == <<keylog, oldest, readable>>
keyVars == <<signed, tail, keys>>
tokenVars == <<seen, reported>>
vars == <<fileVars, sent, pc, stop, keyVars, stream, ring, replay, tokenVars>>

\* The flag is clear, or it is set with the loop, which looks at it once a round,
\* before the check of the key file, the read of a packet or the sweep of old
\* connections: what is left of the round is still done.
StopFlags == {"no", "check", "read", "sweep"}

Segments == [conn : Conns, pos : 0..LastPos, token : Tokens \cup {NoToken}]
Streams == [next : 0..(LastPos + 1),
            session : {"none", "keyless", "open", "timed_out"}]

\* No buffer and no TLS state yet: the first segment to come is taken as the
\* start of the stream, since SYNs have no payload and never get this far.
NewStream == [next |-> 0, session |-> "none"]
TimedOut == [next |-> 0, session |-> "timed_out"]

TypeOK ==
    /\ keylog \in Seq(Conns)
    /\ oldest \in 1..(Len(keylog) + 1)
    /\ readable \in BOOLEAN
    /\ sent \in [Conns -> 0..(LastPos + 1)]
    /\ pc \in {"start", "run", "sign", "replay", "stopped"}
    /\ stop \in StopFlags
    /\ signed \in BOOLEAN
    /\ tail \subseteq Conns
    /\ keys \subseteq Conns
    /\ stream \in [Conns -> Streams]
    /\ ring \in Seq(Segments) /\ Len(ring) <= RingSize
    /\ replay \in 1..(RingSize + 1)
    /\ seen \subseteq Tokens
    /\ reported \subseteq Tokens

\* The state start_capture gives a new thread.
NewThread ==
    /\ pc = "start"
    /\ stop = "no"
    /\ signed = FALSE
    /\ tail = {}
    /\ keys = {}
    /\ stream = [c \in Conns |-> NewStream]
    /\ ring = <<>>
    /\ replay = 1
    /\ seen = {}
    /\ reported = {}

Init ==
    /\ keylog = <<>>
    /\ oldest = 1
    /\ readable \in BOOLEAN
    /\ sent = [c \in Conns |-> 0]
    /\ NewThread

-----------------------------------------------------------------------------
(* The sync-key file.                                                      *)

Written == {keylog[i] : i \in 1..Len(keylog)}

\* read_sync_key_tail: the secrets in the last TailSize entries of the file.
FileTail ==
    {keylog[i] : i \in {j \in oldest..Len(keylog) : j > Len(keylog) - TailSize}}

\* The game writes the secrets of a connection, once, when it likes.
GameWritesKey(c) ==
    /\ c \notin Written
    /\ keylog' = Append(keylog, c)
    /\ signed' = FALSE
    /\ UNCHANGED <<oldest, readable, sent, pc, stop, tail, keys, stream, ring,
                   replay, tokenVars>>

\* "The game rewrites the keylog continuously during play": other secrets.
GameWrites ==
    /\ signed
    /\ signed' = FALSE
    /\ UNCHANGED <<fileVars, sent, pc, stop, tail, keys, stream, ring, replay,
                   tokenVars>>

\* prepare_sync_key_for_launch empties the file.
LauncherTruncates ==
    /\ oldest <= Len(keylog)
    /\ oldest' = Len(keylog) + 1
    /\ signed' = FALSE
    /\ UNCHANGED <<keylog, readable, sent, pc, stop, tail, keys, stream, ring,
                   replay, tokenVars>>

LockOrUnlock ==
    /\ readable' = ~readable
    /\ UNCHANGED <<keylog, oldest, sent, pc, stop, keyVars, stream, ring,
                   replay, tokenVars>>

-----------------------------------------------------------------------------
(* Faulty variants of definitions below.                                   *)

\* A ring that is never trimmed.
PushUnbounded(segment) == ring' = Append(ring, segment)

\* A reload that hands the new secrets to the manager it has.
SignKeysKeepsManager ==
    /\ pc = "sign"
    /\ readable
    /\ signed' = TRUE
    /\ keys' = tail
    /\ tail' = {}
    /\ pc' = "replay"
    /\ UNCHANGED <<fileVars, sent, stop, stream, ring, replay, tokenVars>>

\* A reload that does not replay the ring.
SignKeysWithoutReplay ==
    /\ pc = "sign"
    /\ readable
    /\ signed' = TRUE
    /\ keys' = tail
    /\ tail' = {}
    /\ stream' = [c \in Conns |-> NewStream]
    /\ pc' = "run"
    /\ UNCHANGED <<fileVars, sent, stop, ring, replay, tokenVars>>

-----------------------------------------------------------------------------
(* The stream manager.                                                     *)

\* TcpReassembler: a segment is handed on if it is the next of its stream, or
\* the first one seen; after a gap everything waits for what was lost.
InOrder(segment) ==
    LET s == stream[segment.conn] IN s.next \in {0, segment.pos}

\* process_server_hello looks the secrets up, this once.
SessionAfter(segment) ==
    IF segment.pos # 0 THEN stream[segment.conn].session
    ELSE IF segment.conn \in keys THEN "open" ELSE "keyless"

\* The manager can decrypt this segment and there is a token in it.
Finds(segment) ==
    /\ stream[segment.conn].next = segment.pos
    /\ stream[segment.conn].session = "open"
    /\ segment.token # NoToken

\* The dedup of process_segment: the set is cleared when it is full, whether
\* or not the token is in it.
Observe(t) ==
    LET known == IF Cardinality(seen) >= SeenLimit THEN {} ELSE seen
    IN  /\ seen' = known \cup {t}
        /\ reported' = IF t \in known THEN reported ELSE reported \cup {t}

\* process_segment
Process(segment) ==
    /\ stream' = IF InOrder(segment)
                 THEN [stream EXCEPT ![segment.conn] =
                          [next |-> segment.pos + 1,
                           session |-> SessionAfter(segment)]]
                 ELSE stream
    /\ IF Finds(segment) THEN Observe(segment.token) ELSE UNCHANGED tokenVars

\* push_recent
Push(segment) ==
    ring' = IF Len(ring) < RingSize THEN Append(ring, segment)
            ELSE Append(Tail(ring), segment)

-----------------------------------------------------------------------------
(* The wire.                                                               *)

\* A connection's next segment, with any token the game may be using.
NextSegments(c) ==
    {s \in Segments : /\ s.conn = c
                      /\ s.pos = sent[c]
                      /\ s.pos = 0 => s.token = NoToken}

Sends(c) ==
    /\ sent[c] <= LastPos
    /\ sent' = [sent EXCEPT ![c] = @ + 1]

\* A round has one read of a packet.
ReadsPacket ==
    /\ pc = "run"
    /\ stop # "sweep"
    /\ stop' = IF stop = "no" THEN "no" ELSE "sweep"

\* next_packet returns it: it goes into the ring and then to the manager.
Captured(c) ==
    /\ ReadsPacket
    /\ Sends(c)
    /\ \E segment \in NextSegments(c) : Push(segment) /\ Process(segment)
    /\ UNCHANGED <<fileVars, pc, keyVars, replay>>

\* It goes by while no capture is open, or the driver drops it.
Missed(c) ==
    /\ Sends(c)
    /\ UNCHANGED <<fileVars, pc, stop, keyVars, stream, ring, replay, tokenVars>>

\* A segment of a connection that is none of Conns.
OtherTraffic ==
    /\ ReadsPacket
    /\ ring # <<>>
    /\ ring' = Tail(ring)
    /\ UNCHANGED <<fileVars, sent, pc, keyVars, stream, replay, tokenVars>>

-----------------------------------------------------------------------------
(* The loop.                                                               *)

\* initial_sync_keys, or the one-second check that finds the signature
\* changed: read_sync_key_tail reads the file.
ReadTail ==
    /\ pc \in {"start", "run"}
    /\ pc = "run" => stop \in {"no", "check"} /\ ~signed
    /\ readable
    /\ tail' = FileTail
    /\ pc' = "sign"
    /\ stop' = IF stop = "check" THEN "read" ELSE stop
    /\ UNCHANGED <<fileVars, sent, signed, keys, stream, ring, replay,
                   tokenVars>>

\* initial_sync_keys on a file it cannot read: no keys and no signature.
StartWithoutKeys ==
    /\ pc = "start"
    /\ ~readable
    /\ pc' = "run"
    /\ UNCHANGED <<fileVars, sent, stop, keyVars, stream, ring, replay,
                   tokenVars>>

\* load_sync_keys takes the signature of the file as it has become since, and
\* build_manager starts from nothing but the secrets that were read.
SignKeys ==
    /\ pc = "sign"
    /\ readable
    /\ signed' = TRUE
    /\ keys' = tail
    /\ tail' = {}
    /\ stream' = [c \in Conns |-> NewStream]
    /\ pc' = "replay"
    /\ UNCHANGED <<fileVars, sent, stop, ring, replay, tokenVars>>

\* The signature cannot be taken, or the secrets not be parsed: the thread
\* stays with the manager it has and the signature it had.
LoadFails ==
    /\ pc = "sign"
    /\ tail' = {}
    /\ pc' = "run"
    /\ UNCHANGED <<fileVars, sent, stop, signed, keys, stream, ring, replay,
                   tokenVars>>

\* reprocess_recent, one segment at a time.
ReplaySegment ==
    /\ pc = "replay"
    /\ replay <= Len(ring)
    /\ Process(ring[replay])
    /\ replay' = replay + 1
    /\ UNCHANGED <<fileVars, sent, pc, stop, keyVars, ring>>

ReplayDone ==
    /\ pc = "replay"
    /\ replay > Len(ring)
    /\ replay' = 1
    /\ pc' = "run"
    /\ UNCHANGED <<fileVars, sent, stop, keyVars, stream, ring, tokenVars>>

\* cleanup_timeout: five minutes without a segment.  The next one starts a
\* new stream, with no TLS session and so nothing to decrypt it with.
CleanupTimeout(c) ==
    /\ pc = "run"
    /\ stream[c].next # 0
    /\ stream' = [stream EXCEPT ![c] = TimedOut]
    /\ UNCHANGED <<fileVars, sent, pc, stop, keyVars, ring, replay, tokenVars>>

\* CaptureHandle::stop, from the app.  The load of the keys is before the loop,
\* or is its check of the key file.
RequestStop ==
    /\ stop = "no"
    /\ stop' \in StopFlags \ {"no"}
    /\ pc \in {"sign", "replay"} => stop' # "check"
    /\ pc \in {"start", "stopped"} => stop' = "sweep"
    /\ UNCHANGED <<fileVars, sent, pc, keyVars, stream, ring, replay, tokenVars>>

\* capture_loop returns: what it kept goes with it.
LoopEnds ==
    /\ pc = "run"
    /\ pc' = "stopped"
    /\ stop' = IF stop = "no" THEN "no" ELSE "sweep"
    /\ signed' = FALSE
    /\ tail' = {}
    /\ keys' = {}
    /\ stream' = [c \in Conns |-> NewStream]
    /\ ring' = <<>>
    /\ replay' = 1
    /\ seen' = {}
    /\ reported' = {}
    /\ UNCHANGED <<fileVars, sent>>

\* (Faulty variant.)  The flag is looked at only while the file can be read.
StopsWhenReadable == stop # "no" /\ readable /\ LoopEnds

\* The loop ends on the flag; the thread then sends Stopped.
Stops == stop # "no" /\ LoopEnds

\* open_capture or next_packet fails: Error, then Stopped.
CaptureFails == LoopEnds

\* The app drops the handle and starts another thread.
Restart ==
    /\ pc = "stopped"
    /\ pc' = "start"
    /\ stop' = "no"
    /\ UNCHANGED <<fileVars, sent, keyVars, stream, ring, replay, tokenVars>>

-----------------------------------------------------------------------------
File ==
    \/ \E c \in Conns : GameWritesKey(c)
    \/ GameWrites \/ LauncherTruncates \/ LockOrUnlock

Wire == OtherTraffic \/ \E c \in Conns : Captured(c) \/ Missed(c)

LoadKeys == ReadTail \/ StartWithoutKeys \/ SignKeys \/ LoadFails

Replay == ReplaySegment \/ ReplayDone

Control == RequestStop \/ Stops \/ CaptureFails \/ Restart

Next ==
    \/ File \/ Wire \/ LoadKeys \/ Replay \/ Control
    \/ \E c \in Conns : CleanupTimeout(c)

Spec == Init /\ [][Next]_vars

\* The loop never blocks: reads of the wire and of the file return.  The game
\* keeps writing the file while it plays, and no lock on it keeps meeting
\* every look the thread takes.
Fairness ==
    /\ WF_vars(Replay)
    /\ WF_vars(Stops)
    /\ WF_vars(LoadKeys)
    /\ SF_vars(ReadTail)
    /\ SF_vars(SignKeys)
    /\ WF_vars(GameWrites)
    /\ WF_vars(LockOrUnlock /\ ~readable)

FairSpec == Spec /\ Fairness

-----------------------------------------------------------------------------
(* Properties.                                                             *)

InRing(c) == {s \in Segments : s.conn = c /\ \E i \in 1..Len(ring) : ring[i] = s}

\* The segments of c in the ring whose stream is there from its handshake on.
Whole(c) ==
    {s \in InRing(c) : \A p \in 0..s.pos : \E r \in InRing(c) : r.pos = p}

\* Whatever order handshakes, secrets and data came in, a thread that is
\* through with its replay has decrypted and reported all that its ring and its
\* secrets allow, but for connections it took for dead.
RingIsDecrypted ==
    pc \in {"run", "sign"} =>
        \A c \in keys : stream[c].session # "timed_out" =>
            \A s \in Whole(c) :
                /\ stream[c].session = "open"
                /\ s.token \in reported \cup {NoToken}

\* A token that the ring can show is reported once the secrets are in the
\* file, however late they came and whatever the loads in between met: unless
\* one of its segments leaves the ring, the secrets leave the file or the
\* thread ends.
CanShow(c, t) == c \in FileTail /\ t \in {s.token : s \in Whole(c)}

LateSecretsAreUsed ==
    \A c \in Conns, t \in Tokens :
        CanShow(c, t) ~> t \in reported \/ ~CanShow(c, t) \/ pc = "stopped"

\* CaptureHandle::drop joins the thread with the app's lock held: it ends.
StopEnds == stop # "no" ~> pc = "stopped"

\* What the thread reports is what the session expects of it (TokenSource): from
\* its start to its end a token is repeated only after the dedup set was full.
Source == INSTANCE TokenSource WITH
    running <- pc # "stopped",
    known <- seen

ImplementsSource == Source!ThreadSpec

=============================================================================
