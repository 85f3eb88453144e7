------------------------- MODULE CaptureThreadProofs -------------------------
(* Theorems about CaptureThread, for any connections and tokens and any     *)
(* limits of the ring, the tail of the key file and the dedup set.          *)
EXTENDS CaptureThread, FiniteSetTheorems, TLAPS

-----------------------------------------------------------------------------
(* The inductive invariant.                                                *)

\* The segments of the ring that the manager as it is now was given: all of them,
\* but for those a replay has not come to yet.
Handled == {ring[i] : i \in 1..(IF pc = "replay" THEN replay - 1 ELSE Len(ring))}

\* The stream of s is in H from its handshake on.
Linked(H, s) == \A p \in 0..s.pos : \E r \in H : r.conn = s.conn /\ r.pos = p

\* The manager went past s with its session open, and its token is out.
Decrypted(s, str, rep) ==
    /\ str[s.conn].session = "open"
    /\ s.pos < str[s.conn].next
    /\ s.token \in rep \cup {NoToken}

AllDecrypted(H, ks, str, rep) ==
    \A s \in H :
        s.conn \in ks /\ str[s.conn].session # "timed_out" /\ Linked(H, s)
            => Decrypted(s, str, rep)

\* The ring has the segments of a connection in the order they were sent, and
\* no token comes before the handshake.
RingOrdered ==
    /\ \A i \in 1..Len(ring) :
           /\ ring[i].pos < sent[ring[i].conn]
           /\ ring[i].pos = 0 => ring[i].token = NoToken
    /\ \A i, j \in 1..Len(ring) :
           i < j /\ ring[i].conn = ring[j].conn => ring[i].pos < ring[j].pos

\* The manager is never ahead of what was sent, nor in a replay of what it has
\* been given again.
NextKnown ==
    \A c \in Conns :
        /\ stream[c].next <= sent[c]
        /\ pc = "replay" =>
               \/ stream[c].next = 0
               \/ \E r \in Handled : r.conn = c /\ r.pos = stream[c].next - 1

Loop ==
    /\ seen \subseteq reported
    /\ replay <= Len(ring) + 1
    /\ pc # "replay" => replay = 1
    /\ pc \in {"start", "stopped"} => ring = <<>> /\ seen = {}

RingInv ==
    /\ RingOrdered
    /\ NextKnown
    /\ Loop
    /\ AllDecrypted(Handled, keys, stream, reported)

CaptureInv == TypeOK /\ RingInv

-----------------------------------------------------------------------------
(* Types.                                                                  *)

LEMMA LimitsType == RingSize \in Nat \ {0} /\ LastPos \in Nat /\ NoToken \notin Tokens
BY CaptureAssumption DEF CaptureAssumption

LEMMA NewStreamType == NewStream \in Streams /\ TimedOut \in Streams
BY LimitsType DEF NewStream, TimedOut, Streams

LEMMA FieldTypes ==
    ASSUME TypeOK
    PROVE  /\ Len(ring) \in Nat
           /\ \A i \in 1..Len(ring) : /\ ring[i] \in Segments
                                     /\ ring[i].conn \in Conns
                                     /\ ring[i].pos \in Nat
           /\ \A c \in Conns : stream[c].next \in Nat /\ sent[c] \in Nat
<1>1. /\ Len(ring) \in Nat
      /\ \A i \in 1..Len(ring) : ring[i] \in Segments
  BY DEF TypeOK
<1>2. \A i \in 1..Len(ring) : ring[i].conn \in Conns /\ ring[i].pos \in Nat
  BY <1>1, LimitsType DEF Segments
<1>3. \A c \in Conns : stream[c] \in Streams /\ sent[c] \in Nat
  BY LimitsType DEF TypeOK
<1>4. \A c \in Conns : stream[c].next \in Nat
  BY <1>3, LimitsType DEF Streams
<1> QED BY <1>1, <1>2, <1>3, <1>4

LEMMA FileTailType == ASSUME TypeOK PROVE FileTail \subseteq Conns
<1>1. \A i \in oldest..Len(keylog) : i \in 1..Len(keylog)
  BY DEF TypeOK
<1> QED BY <1>1 DEF TypeOK, FileTail

\* The ring takes the segment at its end, and may drop one at its head.
LEMMA PushEffect ==
    ASSUME TypeOK, NEW segment \in Segments, Push(segment)
    PROVE  /\ ring' \in Seq(Segments)
           /\ Len(ring') \in 1..RingSize
           /\ ring'[Len(ring')] = segment
           /\ \E d \in {0, 1} :
                 /\ Len(ring') = Len(ring) + 1 - d
                 /\ \A i \in 1..(Len(ring') - 1) : ring'[i] = ring[i + d]
<1>1. ring \in Seq(Segments) /\ Len(ring) \in Nat /\ Len(ring) <= RingSize
  BY DEF TypeOK
<1>2. CASE Len(ring) < RingSize
  <2>1. ring' = Append(ring, segment)
    BY <1>2 DEF Push
  <2> QED BY <1>1, <1>2, <2>1, LimitsType
<1>3. CASE ~(Len(ring) < RingSize)
  <2>1. ring' = Append(Tail(ring), segment) /\ ring # <<>>
    BY <1>1, <1>3, LimitsType DEF Push
  <2>2. /\ Tail(ring) \in Seq(Segments)
        /\ Len(Tail(ring)) = Len(ring) - 1
        /\ \A i \in 1..(Len(ring) - 1) : Tail(ring)[i] = ring[i + 1]
    BY <1>1, <2>1
  <2> QED BY <1>1, <1>3, <2>1, <2>2, LimitsType
<1> QED BY <1>2, <1>3

LEMMA ProcessType ==
    ASSUME TypeOK, NEW segment \in Segments, Process(segment)
    PROVE  /\ stream' \in [Conns -> Streams]
           /\ seen' \subseteq Tokens
           /\ reported' \subseteq Tokens
<1>1. /\ segment.conn \in Conns /\ segment.pos \in 0..LastPos
      /\ segment.token \in Tokens \cup {NoToken}
  BY DEF Segments
<1>2. stream' \in [Conns -> Streams]
  <2>1. SessionAfter(segment) \in {"none", "keyless", "open", "timed_out"}
    BY <1>1 DEF SessionAfter, TypeOK, Streams
  <2>2. [next |-> segment.pos + 1, session |-> SessionAfter(segment)] \in Streams
    BY <1>1, <2>1, LimitsType DEF Streams
  <2> QED BY <1>1, <2>2 DEF Process, TypeOK
<1>3. seen' \subseteq Tokens /\ reported' \subseteq Tokens
  BY <1>1 DEF Process, Finds, Observe, tokenVars, TypeOK
<1> QED BY <1>2, <1>3

LEMMA InitTypes == Init => TypeOK
<1> SUFFICES ASSUME Init PROVE TypeOK
  OBVIOUS
<1>1. readable \in BOOLEAN /\ stop \in StopFlags /\ signed \in BOOLEAN
  BY Zenon DEF Init, NewThread, StopFlags
<1>2. keylog \in Seq(Conns) /\ oldest \in 1..(Len(keylog) + 1)
  BY DEF Init
<1>3. /\ sent \in [Conns -> 0..(LastPos + 1)]
      /\ stream \in [Conns -> Streams]
  BY LimitsType, NewStreamType DEF Init, NewThread
<1>4. /\ ring \in Seq(Segments) /\ Len(ring) <= RingSize
      /\ replay \in 1..(RingSize + 1)
  BY LimitsType DEF Init, NewThread
<1>5. /\ pc \in {"start", "run", "sign", "replay", "stopped"}
      /\ tail \subseteq Conns /\ keys \subseteq Conns
      /\ seen \subseteq Tokens /\ reported \subseteq Tokens
  BY DEF Init, NewThread
<1> QED BY <1>1, <1>2, <1>3, <1>4, <1>5, Zenon DEF TypeOK

LEMMA TypesStep == TypeOK /\ Loop /\ [Next]_vars => TypeOK'
<1> SUFFICES ASSUME TypeOK, Loop, [Next]_vars PROVE TypeOK'
  OBVIOUS
<1> USE DEF TypeOK, StopFlags
<1>1. CASE UNCHANGED vars
  BY <1>1 DEF vars, fileVars, keyVars, tokenVars
<1>2. CASE File
  <2>1. ASSUME NEW c \in Conns, GameWritesKey(c) PROVE TypeOK'
    <3>1. keylog' \in Seq(Conns) /\ Len(keylog') = Len(keylog) + 1
      BY <2>1 DEF GameWritesKey
    <3>2. signed' \in BOOLEAN BY <2>1, Zenon DEF GameWritesKey
    <3>3. oldest' \in 1..(Len(keylog') + 1)
      BY <2>1, <3>1 DEF GameWritesKey
    <3> QED BY <2>1, <3>1, <3>2, <3>3, Zenon DEF GameWritesKey, tokenVars
  <2>2. CASE GameWrites BY <2>2 DEF GameWrites, fileVars, tokenVars
  <2>3. CASE LauncherTruncates
    <3>1. oldest' \in 1..(Len(keylog') + 1) BY <2>3 DEF LauncherTruncates
    <3> QED BY <2>3, <3>1, Zenon DEF LauncherTruncates, tokenVars
  <2>4. CASE LockOrUnlock BY <2>4 DEF LockOrUnlock, keyVars, tokenVars
  <2> QED BY <1>2, <2>1, <2>2, <2>3, <2>4 DEF File
<1>3. CASE Wire
  <2>1. ASSUME NEW c \in Conns, Captured(c) PROVE TypeOK'
    <3>1. PICK segment \in NextSegments(c) : Push(segment) /\ Process(segment)
      BY <2>1 DEF Captured, ReadsPacket
    <3>2. segment \in Segments BY <3>1 DEF NextSegments
    <3>3. ring' \in Seq(Segments) /\ Len(ring') <= RingSize
      BY <3>1, <3>2, PushEffect
    <3>4. sent' \in [Conns -> 0..(LastPos + 1)]
      BY <2>1, LimitsType DEF Captured, ReadsPacket, Sends
    <3>5. /\ stream' \in [Conns -> Streams]
          /\ seen' \subseteq Tokens /\ reported' \subseteq Tokens
      BY <3>1, <3>2, ProcessType
    <3> QED BY <2>1, <3>3, <3>4, <3>5 DEF Captured, ReadsPacket, fileVars, keyVars
  <2>2. ASSUME NEW c \in Conns, Missed(c) PROVE TypeOK'
    <3>1. sent' \in [Conns -> 0..(LastPos + 1)]
      BY <2>2, LimitsType DEF Missed, Sends
    <3> QED BY <2>2, <3>1 DEF Missed, fileVars, keyVars, tokenVars
  <2>3. CASE OtherTraffic
    <3>1. Tail(ring) \in Seq(Segments) /\ Len(Tail(ring)) <= RingSize
      BY <2>3, LimitsType DEF OtherTraffic, ReadsPacket
    <3> QED BY <2>3, <3>1 DEF OtherTraffic, ReadsPacket, fileVars, keyVars, tokenVars
  <2> QED BY <1>3, <2>1, <2>2, <2>3 DEF Wire
<1>4. CASE LoadKeys
  <2>1. CASE ReadTail BY <2>1, FileTailType DEF ReadTail, fileVars, tokenVars
  <2>2. CASE StartWithoutKeys
    BY <2>2 DEF StartWithoutKeys, fileVars, keyVars, tokenVars
  <2>3. CASE SignKeys BY <2>3, NewStreamType DEF SignKeys, fileVars, tokenVars
  <2>4. CASE LoadFails BY <2>4 DEF LoadFails, fileVars, tokenVars
  <2> QED BY <1>4, <2>1, <2>2, <2>3, <2>4 DEF LoadKeys
<1>5. CASE Replay
  <2>1. CASE ReplaySegment
    <3>1. ring[replay] \in Segments /\ replay' \in 1..(RingSize + 1)
      BY <2>1, LimitsType DEF ReplaySegment
    <3>2. /\ stream' \in [Conns -> Streams]
          /\ seen' \subseteq Tokens /\ reported' \subseteq Tokens
      BY <2>1, <3>1, ProcessType DEF ReplaySegment
    <3> QED BY <2>1, <3>1, <3>2 DEF ReplaySegment, fileVars, keyVars
  <2>2. CASE ReplayDone
    BY <2>2, LimitsType DEF ReplayDone, fileVars, keyVars, tokenVars
  <2> QED BY <1>5, <2>1, <2>2 DEF Replay
<1>6. CASE Control
  <2>1. CASE RequestStop
    BY <2>1 DEF RequestStop, fileVars, keyVars, tokenVars
  <2>3. CASE Restart
    BY <2>3 DEF Restart, fileVars, keyVars, tokenVars
  <2>4. CASE LoopEnds
    <3>1. /\ ring' \in Seq(Segments) /\ Len(ring') <= RingSize
          /\ replay' \in 1..(RingSize + 1)
      BY <2>4, LimitsType DEF LoopEnds
    <3>2. stop' \in StopFlags /\ signed' \in BOOLEAN
      BY <2>4, Zenon DEF LoopEnds, StopFlags
    <3>3. stream' \in [Conns -> Streams] BY <2>4, NewStreamType DEF LoopEnds
    <3>4. /\ pc' \in {"start", "run", "sign", "replay", "stopped"}
          /\ tail' \subseteq Conns /\ keys' \subseteq Conns
          /\ seen' \subseteq Tokens /\ reported' \subseteq Tokens
      BY <2>4 DEF LoopEnds
    <3> QED BY <2>4, <3>1, <3>2, <3>3, <3>4, Zenon DEF LoopEnds, fileVars
  <2> QED BY <1>6, <2>1, <2>3, <2>4 DEF Control, Stops, CaptureFails
<1>7. ASSUME NEW c \in Conns, CleanupTimeout(c) PROVE TypeOK'
  BY <1>7, NewStreamType DEF CleanupTimeout, fileVars, keyVars, tokenVars
<1> QED BY <1>1, <1>2, <1>3, <1>4, <1>5, <1>6, <1>7 DEF Next

-----------------------------------------------------------------------------
(* What the manager was given it has decrypted.                            *)

\* What is known of a set of segments is known of its parts.
LEMMA PartDecrypted ==
    ASSUME NEW H, NEW K, K \subseteq H, NEW ks, NEW str, NEW rep,
           AllDecrypted(H, ks, str, rep)
    PROVE  AllDecrypted(K, ks, str, rep)
<1>1. \A s \in K : Linked(K, s) => Linked(H, s)
  BY DEF Linked
<1> QED BY <1>1 DEF AllDecrypted

\* The manager is given a segment that is later than all it was given of that
\* connection, and no earlier than the one it expects.
LEMMA OneMoreDecrypted ==
    ASSUME TypeOK, seen \subseteq reported,
           NEW segment \in Segments, Process(segment),
           segment.pos = 0 => segment.token = NoToken,
           NEW H, H \subseteq Segments,
           AllDecrypted(H, keys, stream, reported),
           \A r \in H : r.conn = segment.conn => r.pos < segment.pos,
           stream[segment.conn].next <= segment.pos
    PROVE  /\ AllDecrypted(H \cup {segment}, keys, stream', reported')
           /\ seen' \subseteq reported'
           /\ stream'[segment.conn].next \in {stream[segment.conn].next, segment.pos + 1}
           /\ \A c \in Conns \ {segment.conn} : stream'[c] = stream[c]
<1> DEFINE old == stream[segment.conn]
           new == stream'[segment.conn]
<1>1. /\ segment.conn \in Conns /\ segment.pos \in Nat
      /\ old \in Streams /\ old.next \in Nat
      /\ \A r \in H : r.conn \in Conns /\ r.pos \in Nat
  BY LimitsType DEF Segments, TypeOK, Streams
<1>2. /\ InOrder(segment) => /\ new.next = segment.pos + 1
                             /\ new.session = SessionAfter(segment)
      /\ ~InOrder(segment) => new = old
  BY <1>1 DEF Process, TypeOK
<1>3. \A c \in Conns \ {segment.conn} : stream'[c] = stream[c]
  BY <1>1 DEF Process, TypeOK
<1>4. /\ reported \subseteq reported'
      /\ seen' \subseteq reported'
      /\ Finds(segment) => segment.token \in reported'
  BY DEF Process, Observe, tokenVars
<1>5. segment.pos # 0 => new.session = old.session
  BY <1>2 DEF SessionAfter
<1>6. old.next <= new.next
  BY <1>1, <1>2
<1> DEFINE G == H \cup {segment}
<1>7. ASSUME NEW s \in H, s.conn \in keys, Linked(G, s),
             stream'[s.conn].session # "timed_out"
      PROVE  Decrypted(s, stream', reported')
  <2>1. Linked(H, s)
    <3> SUFFICES ASSUME NEW p \in 0..s.pos
                 PROVE  \E r \in H : r.conn = s.conn /\ r.pos = p
      BY DEF Linked
    <3>1. PICK r \in G : r.conn = s.conn /\ r.pos = p
      BY <1>7 DEF Linked
    <3>2. r # segment
      BY <1>1, <3>1
    <3> QED BY <3>1, <3>2
  <2>2. CASE s.conn # segment.conn
    <3>1. stream'[s.conn] = stream[s.conn]
      BY <1>1, <1>3, <2>2
    <3>2. Decrypted(s, stream, reported)
      BY <1>7, <2>1, <3>1 DEF AllDecrypted
    <3> QED BY <1>4, <3>1, <3>2 DEF Decrypted
  <2>3. CASE s.conn = segment.conn
    <3>1. segment.pos # 0
      BY <1>1, <2>3
    <3>2. Decrypted(s, stream, reported)
      BY <1>5, <1>7, <2>1, <2>3, <3>1 DEF AllDecrypted
    <3>3. s.pos < new.next
      <4>1. s.pos < old.next BY <2>3, <3>2 DEF Decrypted
      <4>2. new.next \in Nat BY <1>1, <1>2
      <4> QED BY <1>1, <1>6, <4>1, <4>2
    <3>4. new.session = "open"
      BY <1>5, <2>3, <3>1, <3>2 DEF Decrypted
    <3>5. s.token \in reported' \cup {NoToken}
      BY <1>4, <3>2 DEF Decrypted
    <3> QED BY <2>3, <3>3, <3>4, <3>5 DEF Decrypted
  <2> QED BY <2>2, <2>3
<1>8. ASSUME segment.conn \in keys, Linked(G, segment), new.session # "timed_out"
      PROVE  Decrypted(segment, stream', reported')
  <2>1. CASE segment.pos = 0
    <3>1. InOrder(segment) BY <1>1, <2>1 DEF InOrder
    <3>2. new.next = segment.pos + 1 /\ new.session = "open"
      BY <1>2, <1>8, <2>1, <3>1 DEF SessionAfter
    <3> QED BY <1>1, <2>1, <3>2 DEF Decrypted
  <2>2. CASE segment.pos # 0
    <3>1. PICK r \in H : r.conn = segment.conn /\ r.pos = segment.pos - 1
      <4>1. segment.pos - 1 \in 0..segment.pos BY <1>1, <2>2
      <4>2. PICK r \in G : r.conn = segment.conn /\ r.pos = segment.pos - 1
        BY <1>8, <4>1 DEF Linked
      <4>3. r # segment BY <1>1, <4>2
      <4> QED BY <4>2, <4>3
    <3>2. Linked(H, r)
      <4> SUFFICES ASSUME NEW p \in 0..r.pos
                   PROVE  \E q \in H : q.conn = r.conn /\ q.pos = p
        BY DEF Linked
      <4>1. p \in 0..segment.pos /\ p # segment.pos BY <1>1, <3>1
      <4>2. PICK q \in G : q.conn = segment.conn /\ q.pos = p
        BY <1>8, <4>1 DEF Linked
      <4> QED BY <3>1, <4>1, <4>2
    <3>3. Decrypted(r, stream, reported)
      BY <1>5, <1>8, <2>2, <3>1, <3>2 DEF AllDecrypted
    <3>4. old.next = segment.pos /\ old.session = "open"
      BY <1>1, <3>1, <3>3 DEF Decrypted
    <3>5. InOrder(segment) BY <3>4 DEF InOrder
    <3>6. segment.token \in reported' \cup {NoToken}
      BY <1>4, <3>4 DEF Finds
    <3>7. new.session = "open" /\ segment.pos < new.next
      BY <1>1, <1>2, <1>5, <2>2, <3>4, <3>5
    <3> QED BY <3>6, <3>7 DEF Decrypted
  <2> QED BY <2>1, <2>2
<1>9. AllDecrypted(G, keys, stream', reported')
  BY <1>7, <1>8 DEF AllDecrypted
<1> QED BY <1>2, <1>3, <1>4, <1>9

\* Most steps leave alone what the invariant is about.
LEMMA UntouchedStep ==
    ASSUME CaptureInv, UNCHANGED <<ring, replay, keys, stream, reported, seen>>,
           \/ pc' = pc
           \/ pc # "replay" /\ pc' \notin {"replay", "start", "stopped"}
           \/ pc = "stopped" /\ pc' = "start",
           \A c \in Conns : sent'[c] \in Nat /\ sent[c] <= sent'[c]
    PROVE  RingInv'
<1>1. TypeOK
  BY DEF CaptureInv
<1>2. /\ \A i \in 1..Len(ring) : ring[i].conn \in Conns /\ ring[i].pos \in Nat
      /\ \A c \in Conns : stream[c].next \in Nat /\ sent[c] \in Nat
  BY <1>1, FieldTypes
<1>3. RingOrdered'
  BY <1>2 DEF CaptureInv, RingInv, RingOrdered
<1>4. Handled' = Handled
  BY DEF Handled
<1>5. NextKnown'
  BY <1>2, <1>4 DEF CaptureInv, RingInv, NextKnown
<1>6. Loop'
  BY DEF CaptureInv, RingInv, Loop
<1>7. AllDecrypted(Handled, keys, stream, reported)'
  BY <1>4 DEF CaptureInv, RingInv, AllDecrypted, Linked, Decrypted
<1> QED BY <1>3, <1>5, <1>6, <1>7 DEF RingInv

\* Segments that leave the ring.
LEMMA OtherTrafficStep == CaptureInv /\ OtherTraffic => RingInv'
<1> SUFFICES ASSUME CaptureInv, OtherTraffic PROVE RingInv'
  OBVIOUS
<1>1. /\ ring \in Seq(Segments) /\ ring # <<>> /\ pc = "run" /\ pc' = "run"
      /\ UNCHANGED <<sent, stream, keys, replay, seen, reported>>
  BY DEF OtherTraffic, ReadsPacket, CaptureInv, TypeOK, keyVars, tokenVars
<1>2. /\ Len(ring') = Len(ring) - 1
      /\ \A i \in 1..Len(ring') : ring'[i] = ring[i + 1] /\ i + 1 \in 1..Len(ring)
  BY <1>1 DEF OtherTraffic, ReadsPacket
<1>3. Len(ring) \in Nat /\ Len(ring') \in Nat
  BY <1>1, <1>2
<1>4. RingOrdered'
  <2>1. \A i, j \in 1..Len(ring') : i < j => i + 1 < j + 1
    BY <1>3
  <2> QED BY <1>1, <1>2, <2>1 DEF CaptureInv, RingInv, RingOrdered
<1>5. NextKnown'
  BY <1>1 DEF CaptureInv, RingInv, NextKnown
<1>6. Loop'
  BY <1>1, <1>3 DEF CaptureInv, RingInv, Loop
<1>7. Handled' \subseteq Handled
  BY <1>1, <1>2, <1>3 DEF Handled
<1>8. AllDecrypted(Handled', keys, stream, reported)
  BY <1>7, PartDecrypted DEF CaptureInv, RingInv
<1>9. AllDecrypted(Handled, keys, stream, reported)'
  BY <1>1, <1>8 DEF AllDecrypted, Decrypted, Linked
<1> QED BY <1>4, <1>5, <1>6, <1>9 DEF RingInv

\* A segment from the wire, which may push another out of the ring.
LEMMA CapturedStep ==
    ASSUME CaptureInv, NEW c \in Conns, Captured(c) PROVE RingInv'
<1>1. PICK segment \in NextSegments(c) : Push(segment) /\ Process(segment)
  BY DEF Captured, ReadsPacket
<1>2. /\ segment \in Segments /\ segment.conn = c /\ segment.pos = sent[c]
      /\ segment.pos = 0 => segment.token = NoToken
  BY <1>1 DEF NextSegments
<1>3. /\ pc = "run" /\ pc' = "run" /\ keys' = keys /\ replay' = replay /\ replay = 1
      /\ sent' = [sent EXCEPT ![c] = @ + 1]
      /\ TypeOK
  BY DEF Captured, ReadsPacket, Sends, keyVars, CaptureInv, RingInv, Loop
<1>4. /\ \A i \in 1..Len(ring) : /\ ring[i] \in Segments
                                /\ ring[i].conn \in Conns /\ ring[i].pos \in Nat
      /\ \A d \in Conns : stream[d].next \in Nat /\ sent[d] \in Nat
      /\ Len(ring) \in Nat
  BY <1>3, FieldTypes
<1>5. /\ ring' \in Seq(Segments) /\ Len(ring') \in Nat \ {0}
      /\ ring'[Len(ring')] = segment
  BY <1>1, <1>2, <1>3, PushEffect
<1>6. PICK shift \in {0, 1} :
         /\ Len(ring') = Len(ring) + 1 - shift
         /\ \A i \in 1..(Len(ring') - 1) : ring'[i] = ring[i + shift]
  BY <1>1, <1>2, <1>3, PushEffect
<1>7. \A i \in 1..(Len(ring') - 1) : i + shift \in 1..Len(ring)
  BY <1>4, <1>5, <1>6
<1>8. \A i \in 1..Len(ring) : ring[i].conn = c => ring[i].pos < sent[c]
  BY DEF CaptureInv, RingInv, RingOrdered
<1>9. Handled = {ring[i] : i \in 1..Len(ring)}
  BY <1>3 DEF Handled
<1>10. /\ AllDecrypted(Handled \cup {segment}, keys, stream', reported')
       /\ seen' \subseteq reported'
       /\ stream'[c].next \in {stream[c].next, segment.pos + 1}
       /\ \A d \in Conns \ {c} : stream'[d] = stream[d]
  <2>1. Handled \subseteq Segments BY <1>4, <1>9
  <2>2. \A r \in Handled : r.conn = segment.conn => r.pos < segment.pos
    BY <1>2, <1>8, <1>9
  <2>3. stream[segment.conn].next <= segment.pos
    BY <1>2 DEF CaptureInv, RingInv, NextKnown
  <2>4. /\ AllDecrypted(Handled, keys, stream, reported)
        /\ seen \subseteq reported
    BY DEF CaptureInv, RingInv, Loop
  <2> HIDE DEF Handled
  <2> QED BY <1>1, <1>2, <1>3, <2>1, <2>2, <2>3, <2>4, OneMoreDecrypted
<1>11. RingOrdered'
  <2>1. ASSUME NEW i \in 1..Len(ring')
        PROVE  /\ ring'[i].pos < sent'[ring'[i].conn]
               /\ ring'[i].pos = 0 => ring'[i].token = NoToken
    <3>1. CASE i = Len(ring')
      BY <1>2, <1>3, <1>4, <1>5, <3>1 DEF TypeOK
    <3>2. CASE i # Len(ring')
      <4>1. i \in 1..(Len(ring') - 1) BY <1>5, <3>2
      <4>2. ring'[i] = ring[i + shift] /\ i + shift \in 1..Len(ring)
        BY <1>6, <1>7, <4>1
      <4>3. /\ ring[i + shift].pos < sent[ring[i + shift].conn]
            /\ ring[i + shift].pos = 0 => ring[i + shift].token = NoToken
        BY <4>2 DEF CaptureInv, RingInv, RingOrdered
      <4>4. sent[ring[i + shift].conn] <= sent'[ring[i + shift].conn]
            /\ sent'[ring[i + shift].conn] \in Nat
        BY <1>3, <1>4, <4>2 DEF TypeOK
      <4> QED BY <1>4, <4>2, <4>3, <4>4
    <3> QED BY <3>1, <3>2
  <2>2. ASSUME NEW i \in 1..Len(ring'), NEW j \in 1..Len(ring'), i < j,
               ring'[i].conn = ring'[j].conn
        PROVE  ring'[i].pos < ring'[j].pos
    <3>1. i \in 1..(Len(ring') - 1) BY <1>5, <2>2
    <3>2. ring'[i] = ring[i + shift] /\ i + shift \in 1..Len(ring)
      BY <1>6, <1>7, <3>1
    <3>3. CASE j = Len(ring')
      BY <1>2, <1>5, <1>8, <2>2, <3>2, <3>3
    <3>4. CASE j # Len(ring')
      <4>1. j \in 1..(Len(ring') - 1) BY <1>5, <3>4
      <4>2. ring'[j] = ring[j + shift] /\ j + shift \in 1..Len(ring)
        BY <1>6, <1>7, <4>1
      <4>3. i + shift < j + shift BY <2>2
      <4> QED BY <2>2, <3>2, <4>2, <4>3 DEF CaptureInv, RingInv, RingOrdered
    <3> QED BY <3>3, <3>4
  <2> QED BY <2>1, <2>2 DEF RingOrdered
<1>12. NextKnown'
  <2>1. ASSUME NEW d \in Conns PROVE stream'[d].next <= sent'[d]
    <3>1. stream[d].next <= sent[d]
      BY DEF CaptureInv, RingInv, NextKnown
    <3>2. CASE d = c
      BY <1>2, <1>3, <1>4, <1>10, <3>1, <3>2 DEF TypeOK
    <3>3. CASE d # c
      BY <1>3, <1>10, <3>1, <3>3 DEF TypeOK
    <3> QED BY <3>2, <3>3
  <2> QED BY <1>3, <2>1 DEF NextKnown
<1>13. Loop'
  BY <1>3, <1>5, <1>10 DEF Loop
<1>14. Handled' \subseteq Handled \cup {segment}
  <2>1. Handled' = {ring'[i] : i \in 1..Len(ring')}
    BY <1>3 DEF Handled
  <2>2. ASSUME NEW i \in 1..Len(ring') PROVE ring'[i] \in Handled \cup {segment}
    <3>1. CASE i = Len(ring') BY <1>5, <3>1
    <3>2. CASE i # Len(ring')
      <4>1. i \in 1..(Len(ring') - 1) BY <1>5, <3>2
      <4> QED BY <1>6, <1>7, <1>9, <4>1
    <3> QED BY <3>1, <3>2
  <2> QED BY <2>1, <2>2
<1>15. AllDecrypted(Handled', keys, stream', reported')
  BY <1>10, <1>14, PartDecrypted
<1>16. AllDecrypted(Handled, keys, stream, reported)'
  BY <1>3, <1>15 DEF AllDecrypted, Decrypted, Linked
<1> QED BY <1>11, <1>12, <1>13, <1>16 DEF RingInv

\* A segment of the ring again, for a manager that starts from nothing.
LEMMA ReplaySegmentStep == CaptureInv /\ ReplaySegment => RingInv'
<1> SUFFICES ASSUME CaptureInv, ReplaySegment PROVE RingInv'
  OBVIOUS
<1> DEFINE segment == ring[replay]
<1>1. /\ pc = "replay" /\ pc' = "replay" /\ replay \in Nat \ {0}
      /\ replay <= Len(ring) /\ replay' = replay + 1
      /\ UNCHANGED <<ring, keys, sent>>
      /\ Process(segment) /\ TypeOK
  BY LimitsType DEF ReplaySegment, keyVars, CaptureInv, TypeOK
<1>2. /\ Len(ring) \in Nat
      /\ \A i \in 1..Len(ring) : ring[i] \in Segments
  BY <1>1, FieldTypes
<1>3. \A i \in 1..Len(ring) : ring[i].conn \in Conns /\ ring[i].pos \in Nat
  BY <1>1, FieldTypes
<1>4. /\ replay \in 1..Len(ring)
      /\ \A i \in 1..(replay - 1) : i \in 1..Len(ring) /\ i < replay
  BY <1>1, <1>2
<1>5. /\ \A r \in Handled : r.conn = segment.conn => r.pos < segment.pos
      /\ segment.pos = 0 => segment.token = NoToken
      /\ segment.pos < sent[segment.conn]
      /\ Handled \subseteq Segments
  BY <1>1, <1>2, <1>4 DEF Handled, CaptureInv, RingInv, RingOrdered
<1>6. Handled' = Handled \cup {segment}
  <2>1. Handled = {ring[i] : i \in 1..(replay - 1)}
    BY <1>1 DEF Handled
  <2>2. Handled' = {ring[i] : i \in 1..replay}
    <3>1. replay' - 1 = replay BY <1>1
    <3> QED BY <1>1, <3>1 DEF Handled
  <2>3. 1..replay = 1..(replay - 1) \cup {replay}
    BY <1>1
  <2> QED BY <2>1, <2>2, <2>3
<1>7. stream[segment.conn].next \in Nat /\ stream[segment.conn].next <= segment.pos
  <2>1. segment.conn \in Conns /\ segment.pos \in Nat
    BY <1>3, <1>4
  <2>2. stream[segment.conn].next \in Nat
    BY <1>1, <2>1, FieldTypes
  <2>3. \/ stream[segment.conn].next = 0
        \/ \E r \in Handled : /\ r.conn = segment.conn
                              /\ r.pos = stream[segment.conn].next - 1
    BY <1>1, <2>1 DEF CaptureInv, RingInv, NextKnown
  <2> QED BY <1>5, <2>1, <2>2, <2>3
<1>8. /\ AllDecrypted(Handled \cup {segment}, keys, stream', reported')
      /\ seen' \subseteq reported'
      /\ stream'[segment.conn].next \in {stream[segment.conn].next, segment.pos + 1}
      /\ \A c \in Conns \ {segment.conn} : stream'[c] = stream[c]
  <2>1. /\ AllDecrypted(Handled, keys, stream, reported)
        /\ seen \subseteq reported /\ segment \in Segments
    BY <1>2, <1>4 DEF CaptureInv, RingInv, Loop
  <2> HIDE DEF Handled, segment
  <2> QED BY <1>1, <1>5, <1>7, <2>1, OneMoreDecrypted
<1>9. RingOrdered'
  BY <1>1 DEF CaptureInv, RingInv, RingOrdered
<1>10. NextKnown'
  <2> SUFFICES ASSUME NEW c \in Conns
               PROVE  /\ stream'[c].next <= sent[c]
                      /\ \/ stream'[c].next = 0
                         \/ \E r \in Handled \cup {segment} :
                                r.conn = c /\ r.pos = stream'[c].next - 1
    BY <1>1, <1>6 DEF NextKnown
  <2>1. /\ stream[c].next <= sent[c]
        /\ \/ stream[c].next = 0
           \/ \E r \in Handled : r.conn = c /\ r.pos = stream[c].next - 1
    BY <1>1 DEF CaptureInv, RingInv, NextKnown
  <2>2. CASE stream'[c].next = stream[c].next
    BY <2>1, <2>2
  <2>3. CASE stream'[c].next # stream[c].next
    <3>1. c = segment.conn /\ stream'[c].next = segment.pos + 1
      BY <1>8, <2>3
    <3>2. /\ segment.pos \in Nat /\ sent[c] \in Nat
      BY <1>1, <1>3, <1>4, LimitsType DEF TypeOK
    <3>3. segment.pos = stream'[c].next - 1 /\ stream'[c].next <= sent[c]
      BY <1>5, <3>1, <3>2
    <3> QED BY <3>1, <3>3
  <2> QED BY <2>2, <2>3
<1>11. Loop'
  BY <1>1, <1>2, <1>8 DEF Loop
<1>12. AllDecrypted(Handled, keys, stream, reported)'
  BY <1>1, <1>6, <1>8 DEF AllDecrypted, Decrypted, Linked
<1> QED BY <1>9, <1>10, <1>11, <1>12 DEF RingInv

\* The replay has come to the end of the ring.
LEMMA ReplayDoneStep == CaptureInv /\ ReplayDone => RingInv'
<1> SUFFICES ASSUME CaptureInv, ReplayDone PROVE RingInv'
  OBVIOUS
<1>1. /\ pc = "replay" /\ pc' = "run" /\ replay' = 1 /\ replay = Len(ring) + 1
      /\ Len(ring) \in Nat
      /\ UNCHANGED <<ring, keys, sent, stream, seen, reported>>
  BY DEF ReplayDone, keyVars, tokenVars, CaptureInv, RingInv, Loop, TypeOK
<1>2. RingOrdered'
  BY <1>1 DEF CaptureInv, RingInv, RingOrdered
<1>3. NextKnown'
  BY <1>1 DEF CaptureInv, RingInv, NextKnown
<1>4. Loop'
  BY <1>1 DEF CaptureInv, RingInv, Loop
<1>5. Handled' = Handled
  <2>1. replay - 1 = Len(ring) BY <1>1
  <2> QED BY <1>1, <2>1 DEF Handled
<1>6. AllDecrypted(Handled, keys, stream, reported)'
  BY <1>1, <1>5 DEF CaptureInv, RingInv, AllDecrypted, Decrypted, Linked
<1> QED BY <1>2, <1>3, <1>4, <1>6 DEF RingInv

\* A manager that was given nothing yet.
LEMMA FreshManager ==
    ASSUME TypeOK', Loop', RingOrdered', Handled' = {},
           \A c \in Conns : stream'[c].next = 0
    PROVE  RingInv'
<1>1. NextKnown'
  <2>1. \A c \in Conns : sent'[c] \in Nat
    BY LimitsType DEF TypeOK
  <2> QED BY <2>1 DEF NextKnown
<1>2. AllDecrypted(Handled, keys, stream, reported)'
  BY DEF AllDecrypted
<1> QED BY <1>1, <1>2 DEF RingInv

LEMMA SignKeysStep == CaptureInv /\ SignKeys /\ TypeOK' => RingInv'
<1> SUFFICES ASSUME CaptureInv, SignKeys, TypeOK' PROVE RingInv'
  OBVIOUS
<1>1. /\ pc = "sign" /\ pc' = "replay" /\ replay = 1 /\ replay' = 1
      /\ Len(ring) \in Nat
      /\ UNCHANGED <<ring, sent, seen, reported>>
      /\ stream' = [c \in Conns |-> NewStream]
  BY DEF SignKeys, tokenVars, CaptureInv, RingInv, Loop, TypeOK
<1>2. RingOrdered'
  BY <1>1 DEF CaptureInv, RingInv, RingOrdered
<1>3. Loop'
  BY <1>1 DEF CaptureInv, RingInv, Loop
<1>4. Handled' = {}
  BY <1>1 DEF Handled
<1> QED BY <1>1, <1>2, <1>3, <1>4, FreshManager DEF NewStream

LEMMA LoopEndsStep == CaptureInv /\ LoopEnds /\ TypeOK' => RingInv'
<1> SUFFICES ASSUME CaptureInv, LoopEnds, TypeOK' PROVE RingInv'
  OBVIOUS
<1>1. /\ pc' = "stopped" /\ replay' = 1 /\ ring' = <<>>
      /\ seen' = {} /\ reported' = {}
      /\ stream' = [c \in Conns |-> NewStream]
  BY DEF LoopEnds
<1>2. RingOrdered' /\ Loop' /\ Handled' = {}
  BY <1>1 DEF RingOrdered, Loop, Handled
<1> QED BY <1>1, <1>2, FreshManager DEF NewStream

LEMMA InitRing == Init => RingInv
<1> SUFFICES ASSUME Init PROVE RingInv
  OBVIOUS
<1>1. /\ pc = "start" /\ replay = 1 /\ ring = <<>>
      /\ seen = {} /\ reported = {} /\ sent = [c \in Conns |-> 0]
      /\ stream = [c \in Conns |-> NewStream]
  BY DEF Init, NewThread
<1>2. RingOrdered /\ Loop /\ NextKnown /\ Handled = {}
  BY <1>1 DEF RingOrdered, Loop, Handled, NextKnown, NewStream
<1> QED BY <1>2 DEF RingInv, AllDecrypted

\* A connection is forgotten: it is excused from then on.
LEMMA CleanupStep ==
    ASSUME CaptureInv, NEW c \in Conns, CleanupTimeout(c) PROVE RingInv'
<1>1. /\ pc = "run" /\ pc' = "run"
      /\ UNCHANGED <<ring, keys, replay, sent, seen, reported>>
      /\ stream' = [stream EXCEPT ![c] = TimedOut]
      /\ TypeOK
  BY DEF CleanupTimeout, keyVars, tokenVars, CaptureInv
<1>2. /\ stream'[c] = TimedOut
      /\ \A d \in Conns \ {c} : stream'[d] = stream[d]
      /\ sent[c] \in Nat
  BY <1>1, LimitsType DEF TypeOK
<1>3. RingOrdered' /\ Loop'
  BY <1>1 DEF CaptureInv, RingInv, RingOrdered, Loop
<1>4. NextKnown'
  BY <1>1, <1>2 DEF CaptureInv, RingInv, NextKnown, TimedOut
<1>5. Handled' = Handled /\ Handled \subseteq Segments
  BY <1>1 DEF Handled, TypeOK
<1>6. ASSUME NEW s \in Handled, s.conn \in keys, Linked(Handled, s),
             stream'[s.conn].session # "timed_out"
      PROVE  Decrypted(s, stream', reported)
  <2>1. s.conn # c BY <1>2, <1>6 DEF TimedOut
  <2>2. s.conn \in Conns BY <1>5, <1>6 DEF Segments
  <2>3. stream'[s.conn] = stream[s.conn] BY <1>2, <2>1, <2>2
  <2>4. Decrypted(s, stream, reported)
    BY <1>6, <2>3 DEF CaptureInv, RingInv, AllDecrypted
  <2> QED BY <2>3, <2>4 DEF Decrypted
<1>7. AllDecrypted(Handled, keys, stream', reported)
  BY <1>6 DEF AllDecrypted
<1>8. AllDecrypted(Handled, keys, stream, reported)'
  BY <1>1, <1>5, <1>7 DEF AllDecrypted, Decrypted, Linked
<1> QED BY <1>3, <1>4, <1>8 DEF RingInv

-----------------------------------------------------------------------------
(* The theorems.                                                           *)

LEMMA RingStep == CaptureInv /\ [Next]_vars /\ TypeOK' => RingInv'
<1> SUFFICES ASSUME CaptureInv, [Next]_vars, TypeOK' PROVE RingInv'
  OBVIOUS
<1>1. \A c \in Conns : sent[c] \in Nat /\ sent'[c] \in Nat
  BY LimitsType DEF CaptureInv, TypeOK
<1>2. ASSUME UNCHANGED <<ring, replay, keys, stream, tokenVars, sent>>,
             \/ pc' = pc
             \/ pc # "replay" /\ pc' \notin {"replay", "start", "stopped"}
             \/ pc = "stopped" /\ pc' = "start"
      PROVE  RingInv'
  <2>1. \A c \in Conns : sent'[c] \in Nat /\ sent[c] <= sent'[c]
    BY <1>1, <1>2
  <2>2. UNCHANGED <<ring, replay, keys, stream, reported, seen>>
    BY <1>2 DEF tokenVars
  <2> QED BY <1>2, <2>1, <2>2, UntouchedStep
<1>3. CASE UNCHANGED vars
  BY <1>2, <1>3 DEF vars, keyVars
<1>4. CASE File
  BY <1>2, <1>4 DEF File, GameWritesKey, GameWrites, LauncherTruncates,
                    LockOrUnlock, keyVars
<1>5. CASE Wire
  <2>1. ASSUME NEW c \in Conns, Missed(c) PROVE RingInv'
    <3>1. \A d \in Conns : sent'[d] \in Nat /\ sent[d] <= sent'[d]
      BY <1>1, <2>1 DEF Missed, Sends, CaptureInv, TypeOK
    <3>2. UNCHANGED <<ring, replay, keys, stream, reported, seen>> /\ pc' = pc
      BY <2>1 DEF Missed, keyVars, tokenVars
    <3> QED BY <3>1, <3>2, UntouchedStep
  <2> QED BY <1>5, <2>1, CapturedStep, OtherTrafficStep DEF Wire
<1>6. CASE LoadKeys
  <2>1. CASE ReadTail BY <1>2, <2>1 DEF ReadTail
  <2>2. CASE StartWithoutKeys BY <1>2, <2>2 DEF StartWithoutKeys, keyVars
  <2>3. CASE LoadFails BY <1>2, <2>3 DEF LoadFails
  <2> QED BY <1>6, <2>1, <2>2, <2>3, SignKeysStep DEF LoadKeys
<1>7. CASE Replay
  BY <1>7, ReplaySegmentStep, ReplayDoneStep DEF Replay
<1>8. CASE Control
  <2>1. CASE RequestStop BY <1>2, <2>1 DEF RequestStop, keyVars
  <2>2. CASE LoopEnds BY <2>2, LoopEndsStep
  <2>3. CASE Restart BY <1>2, <2>3 DEF Restart, keyVars
  <2> QED BY <1>8, <2>1, <2>2, <2>3 DEF Control, Stops, CaptureFails
<1>9. ASSUME NEW c \in Conns, CleanupTimeout(c) PROVE RingInv'
  BY <1>9, CleanupStep
<1> QED BY <1>3, <1>4, <1>5, <1>6, <1>7, <1>8, <1>9 DEF Next

LEMMA InvHolds == Spec => []CaptureInv
<1>1. Init => CaptureInv
  BY InitTypes, InitRing DEF CaptureInv
<1>2. CaptureInv /\ [Next]_vars => CaptureInv'
  <2>1. CaptureInv /\ [Next]_vars => TypeOK'
    BY TypesStep DEF CaptureInv, RingInv
  <2> QED BY <2>1, RingStep DEF CaptureInv
<1> QED BY <1>1, <1>2, PTL DEF Spec

\* Every field of the capture thread keeps its type: the ring stays within its
\* limit and a replay within the ring.
THEOREM CaptureTypes == Spec => []TypeOK
<1>1. CaptureInv => TypeOK BY DEF CaptureInv
<1> QED BY <1>1, InvHolds, PTL

\* Whatever order handshakes, secrets and data come in, and whatever is lost, a
\* thread through with its replay has decrypted what its ring and its secrets
\* allow.
THEOREM RingIsDecryptedHolds == Spec => []RingIsDecrypted
<1>1. ASSUME CaptureInv PROVE RingIsDecrypted
  <2> SUFFICES ASSUME pc \in {"run", "sign"}, NEW c \in keys,
                      stream[c].session # "timed_out", NEW s \in Whole(c)
               PROVE  stream[c].session = "open" /\ s.token \in reported \cup {NoToken}
    BY DEF RingIsDecrypted
  <2>1. Handled = {ring[i] : i \in 1..Len(ring)}
    BY DEF Handled
  <2>2. \A r \in InRing(c) : r \in Handled /\ r.conn = c
    BY <2>1 DEF InRing
  <2>3. s \in Handled /\ s.conn = c /\ Linked(Handled, s)
    BY <2>2 DEF Whole, Linked
  <2>4. Decrypted(s, stream, reported)
    BY <1>1, <2>3 DEF CaptureInv, RingInv, AllDecrypted
  <2> QED BY <2>3, <2>4 DEF Decrypted
<1>2. CaptureInv => RingIsDecrypted BY <1>1
<1> QED BY <1>2, InvHolds, PTL

-----------------------------------------------------------------------------
(* What the session may rely on.                                           *)

\* Nothing that the session could see.
SourceIdle == UNCHANGED Source!vars

\* An instance counts as its user does.
LEMMA SourceCounts == \A S : Source!Cardinality(S) = Cardinality(S)
BY DEF Source!Cardinality, Cardinality

\* The set of the thread and where it is decide what the session sees.
LEMMA SameSource ==
    ASSUME UNCHANGED seen, (pc' = "stopped") <=> (pc = "stopped")
    PROVE  SourceIdle
BY DEF SourceIdle, Source!vars

\* One segment, off the wire or out of the ring, is one report or none.
LEMMA ProcessReports ==
    ASSUME TypeOK, pc # "stopped", pc' = pc,
           NEW segment \in Segments, Process(segment)
    PROVE  SourceIdle \/ \E t \in Tokens : Source!Report(t)
<1>1. CASE ~Finds(segment)
  <2>1. UNCHANGED seen
    BY <1>1 DEF Process, tokenVars
  <2> QED
    BY <2>1, SameSource
<1>2. CASE Finds(segment)
  <2> DEFINE t == segment.token
  <2>1. t \in Tokens
    BY <1>2 DEF Finds, Segments
  <2>2. Observe(t)
    BY <1>2 DEF Process
  <2>3. CASE Cardinality(seen) >= SeenLimit
    <3>1. seen' = {t}
      BY <2>2, <2>3 DEF Observe
    <3>2. Source!Report(t)
      BY <2>3, <3>1, SourceCounts DEF Source!Report
    <3> QED
      BY <2>1, <3>2
  <2>4. CASE ~(Cardinality(seen) >= SeenLimit)
    <3>1. seen' = seen \cup {t}
      BY <2>2, <2>4 DEF Observe
    <3>2. CASE t \in seen
      BY <3>1, <3>2, SameSource
    <3>3. CASE t \notin seen
      BY <2>1, <2>4, <3>1, <3>3, SourceCounts DEF Source!Report
    <3> QED
      BY <3>2, <3>3
  <2> QED
    BY <2>3, <2>4
<1> QED
  BY <1>1, <1>2

\* A thread that ends, by its flag or by an error, and one that starts.
LEMMA ThreadsComeAndGo ==
    ASSUME CaptureInv, Stops \/ CaptureFails \/ Restart
    PROVE  Source!Starts \/ Source!Ends
BY DEF Stops, CaptureFails, LoopEnds, Restart, tokenVars, CaptureInv, RingInv, Loop, Source!Starts, Source!Ends

\* The thread of start_capture is what the session takes it for: whatever the file,
\* the wire and the reloads of the keys do, a replay included, it reports no token
\* it remembers, and remembers none once it has ended.
THEOREM ImplementsSourceHolds == Spec => ImplementsSource
<1>1. Init => Source!Init
  BY DEF Init, NewThread, Source!Init
<1>2. CaptureInv /\ [Next]_vars => [Source!ThreadNext]_Source!vars
  <2> SUFFICES ASSUME CaptureInv, TypeOK, [Next]_vars
               PROVE  SourceIdle \/ Source!ThreadNext
    BY DEF SourceIdle, CaptureInv
  <2>1. CASE UNCHANGED vars
    BY <2>1, SameSource DEF vars, tokenVars
  <2>2. CASE File
    BY <2>2, SameSource DEF File, GameWritesKey, GameWrites, LauncherTruncates, LockOrUnlock, tokenVars
  <2>3. CASE Wire
    <3>1. CASE OtherTraffic
      BY <3>1, SameSource DEF OtherTraffic, ReadsPacket, tokenVars
    <3>2. ASSUME NEW c \in Conns, Missed(c) PROVE SourceIdle
      BY <3>2, SameSource DEF Missed, tokenVars
    <3>3. ASSUME NEW c \in Conns, Captured(c) PROVE SourceIdle \/ Source!ThreadNext
      <4>1. PICK segment \in NextSegments(c) : Process(segment)
        BY <3>3 DEF Captured, ReadsPacket
      <4>2. segment \in Segments
        BY DEF NextSegments
      <4>3. pc # "stopped" /\ pc' = pc
        BY <3>3 DEF Captured, ReadsPacket
      <4> QED
        BY <4>1, <4>2, <4>3, ProcessReports DEF Source!ThreadNext
    <3> QED
      BY <2>3, <3>1, <3>2, <3>3 DEF Wire
  <2>4. CASE LoadKeys
    BY <2>4, SameSource DEF LoadKeys, ReadTail, StartWithoutKeys, SignKeys, LoadFails, tokenVars
  <2>5. CASE ReplaySegment
    <3>1. ring[replay] \in Segments
      BY <2>5 DEF ReplaySegment, TypeOK
    <3>2. pc # "stopped" /\ pc' = pc /\ Process(ring[replay])
      BY <2>5 DEF ReplaySegment
    <3> QED
      BY <3>1, <3>2, ProcessReports DEF Source!ThreadNext
  <2>6. CASE ReplayDone
    BY <2>6, SameSource DEF ReplayDone, tokenVars
  <2>7. CASE RequestStop
    BY <2>7, SameSource DEF RequestStop, tokenVars
  <2>8. CASE Stops \/ CaptureFails \/ Restart
    BY <2>8, ThreadsComeAndGo DEF Source!ThreadNext
  <2>9. ASSUME NEW c \in Conns, CleanupTimeout(c) PROVE SourceIdle
    BY <2>9, SameSource DEF CleanupTimeout, tokenVars
  <2> QED
    BY <2>1, <2>2, <2>3, <2>4, <2>5, <2>6, <2>7, <2>8, <2>9 DEF Next, Replay, Control
<1> QED
  BY <1>1, <1>2, InvHolds, PTL DEF Spec, ImplementsSource, Source!ThreadSpec

-----------------------------------------------------------------------------
(* The limit of the dedup set, for whatever implements TokenSource.        *)

VARIABLES running, known

AnySource == INSTANCE TokenSource

\* This instance counts as the library does.
LEMMA AnySourceCounts == \A S : AnySource!Cardinality(S) = Cardinality(S)
BY DEF AnySource!Cardinality, Cardinality

\* A set that is cleared when it is full stays finite and within its limit.
KnownInv == IsFiniteSet(known) /\ AnySource!KnownIsBounded

\* One more token, or one alone: either way the set is within the limit.
LEMMA ReportKeepsBound ==
    ASSUME KnownInv, NEW t \in Tokens, AnySource!Report(t)
    PROVE  KnownInv'
<1> USE AnySourceCounts
<1>1. SeenLimit \in Nat /\ IsFiniteSet(known) /\ Cardinality(known) \in Nat
  BY CaptureAssumption, FS_CardinalityType DEF KnownInv
<1>2. CASE Cardinality(known) >= SeenLimit
  <2>1. known' = {t}
    BY <1>2 DEF AnySource!Report
  <2>2. IsFiniteSet({t}) /\ Cardinality({t}) = 1
    BY FS_Singleton
  <2> QED
    BY <1>1, <2>1, <2>2 DEF KnownInv, AnySource!KnownIsBounded
<1>3. CASE ~(Cardinality(known) >= SeenLimit)
  <2>1. known' = known \cup {t} /\ t \notin known
    BY <1>3 DEF AnySource!Report
  <2>2. IsFiniteSet(known') /\ Cardinality(known') = Cardinality(known) + 1
    BY <1>1, <2>1, FS_AddElement
  <2> QED
    BY <1>1, <1>3, <2>2 DEF KnownInv, AnySource!KnownIsBounded
<1> QED
  BY <1>2, <1>3

\* A game that rotates its token for ever does not make the dedup set grow past
\* MAX_SEEN_FINGERPRINTS.
THEOREM KnownIsBoundedHolds == AnySource!Spec => []AnySource!KnownIsBounded
<1> USE AnySourceCounts
<1>1. ASSUME known = {} PROVE KnownInv
  BY <1>1, CaptureAssumption, FS_EmptySet DEF KnownInv, AnySource!KnownIsBounded
<1>2. ASSUME known' = {} PROVE KnownInv'
  BY <1>2, CaptureAssumption, FS_EmptySet DEF KnownInv, AnySource!KnownIsBounded
<1>3. KnownInv /\ [AnySource!ThreadNext \/ AnySource!Replaced]_AnySource!vars => KnownInv'
  <2>1. CASE UNCHANGED AnySource!vars
    BY <2>1 DEF AnySource!vars, KnownInv, AnySource!KnownIsBounded
  <2>2. CASE AnySource!Starts \/ AnySource!Ends \/ AnySource!Replaced
    BY <2>2, <1>2 DEF AnySource!Starts, AnySource!Ends, AnySource!Replaced
  <2> QED
    BY <2>1, <2>2, ReportKeepsBound DEF AnySource!ThreadNext
<1>4. AnySource!Init => KnownInv
  BY <1>1 DEF AnySource!Init
<1>5. KnownInv => AnySource!KnownIsBounded
  BY DEF KnownInv
<1> QED
  BY <1>3, <1>4, <1>5, PTL DEF AnySource!Spec
=============================================================================
