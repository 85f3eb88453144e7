----------------------------- MODULE HttpScanner -----------------------------
(***************************************************************************)
(* The HTTP/1 scanner: EmbarkHttpParser of src/src/capture.rs over the     *)
(* header functions of src/src/token.rs.                                   *)
(*                                                                         *)
(* The TLS layer hands it the decrypted bytes of each direction of each    *)
(* connection, in order and cut into chunks at any place.  The scanner     *)
(* keeps a buffer for each, and each chunk yields one message: a token, a  *)
(* request of no interest, or just "plaintext".                            *)
(*                                                                         *)
(* The bytes are symbols: the two halves of a method word (so that a chunk *)
(* may end inside one), the rest of a request line, the line end, a header *)
(* line, and anything else.  Lengths of bodies are not parsed, and are not *)
(* here.                                                                   *)
(***************************************************************************)
EXTENDS Naturals, Sequences, FiniteSets, SequencesExt

CONSTANTS
    Conns,         \* connections
    Requests,      \* requests a client may send, without their tokens
    Responses,     \* bodies of the responses
    MaxRequests,   \* bound on the requests of a connection
    MaxBuffer      \* MAX_HTTP1_BUFFER, in symbols

Bodies == {"none", "plain", "method"}

ASSUME ScannerAssumption ==
    /\ Requests \subseteq [host : {"game", "other"},
                           auth : {"none", "bearer", "malformed"}, body : Bodies]
    /\ Responses \subseteq Bodies
    /\ MaxRequests \in Nat \ {0}
    /\ MaxBuffer \in Nat \ {0}

Directions == {"ToServer", "ToClient"}
Keys == Conns \X Directions

VARIABLES
    requests,    \* what each client sends
    wire,        \* the plaintext of each direction
    read,        \* how much of it the scanner was given
    buffers,     \* http1_buffers
    hits,        \* the tokens reported for each direction, with their hosts
    overflowed   \* history: the limit cut something off

vars == <<requests, wire, read, buffers, hits, overflowed>>

-----------------------------------------------------------------------------
(* What is on the wire.                                                    *)

Ge == <<"method", 1>>
Et == <<"method", 2>>
Target == <<"target", 0>>     \* " /path HTTP/1.1"
Status == <<"status", 0>>     \* "HTTP/1.1 200 OK"
NL == <<"nl", 0>>
Text == <<"text", 0>>
HostLine(host) == <<"host", IF host = "game" THEN 1 ELSE 0>>
AuthLine(number) == <<"auth", number>>   \* 0 is no JSON web token

BodyOf(body) ==
    CASE body = "none" -> <<>>
      [] body = "plain" -> <<Text>>
      [] body = "method" -> <<Ge, Et, Text>>

HeadOf(req, number) ==
    <<Ge, Et, Target, NL, HostLine(req.host), NL>>
    \o (CASE req.auth = "none" -> <<>>
          [] req.auth = "bearer" -> <<AuthLine(number), NL>>
          [] req.auth = "malformed" -> <<AuthLine(0), NL>>)
    \o <<NL>>

\* The i-th request of a connection has the i-th token.
RequestBytes(reqs) ==
    FlattenSeq([i \in DOMAIN reqs |-> HeadOf(reqs[i], i) \o BodyOf(reqs[i].body)])

ResponseBytes(bodies) ==
    FlattenSeq([i \in DOMAIN bodies |-> <<Status, NL, NL>> \o BodyOf(bodies[i])])

\* Where the head of the i-th request starts and ends.
StartOf(reqs, i) == Len(RequestBytes(SubSeq(reqs, 1, i - 1)))
HeadEnd(reqs, i) == StartOf(reqs, i) + Len(HeadOf(reqs[i], i))

Init ==
    /\ requests \in [Conns -> UNION {[1..n -> Requests] : n \in 1..MaxRequests}]
    /\ \E responses \in [Conns -> [1..1 -> Responses]] :
           wire = [k \in Keys |-> IF k[2] = "ToServer"
                                  THEN RequestBytes(requests[k[1]])
                                  ELSE ResponseBytes(responses[k[1]])]
    /\ read = [k \in Keys |-> 0]
    /\ buffers = [k \in Keys |-> <<>>]
    /\ hits = [k \in Keys |-> <<>>]
    /\ overflowed = [k \in Keys |-> FALSE]

-----------------------------------------------------------------------------
(* token.rs, on a buffer.                                                  *)

\* Places at which the symbols of the pair a stand.
Occurrences(buf, a) ==
    {i \in 1..(Len(buf) - 1) : buf[i] = a[1] /\ buf[i + 1] = a[2]}
First(places) == CHOOSE i \in places : \A j \in places : i <= j

\* find_http1_method_offset, with the drain that follows it.
FromMethod(buf) ==
    LET places == Occurrences(buf, <<Ge, Et>>)
    IN  IF places = {} THEN buf ELSE SubSeq(buf, First(places), Len(buf))

\* http1_header_len: 0 is none.
HeaderLen(buf) ==
    LET places == Occurrences(buf, <<NL, NL>>)
    IN  IF places = {} THEN 0 ELSE First(places) + 1

\* The first line of a head is a request line.
HasRequestLine(buf) ==
    HeaderLen(buf) > 0 /\ IsPrefix(<<Ge, Et, Target, NL>>, buf)

\* headers.get: the last header line of that name.
Values(buf, name) ==
    {i \in 5..(HeaderLen(buf) - 2) : buf[i - 1] = NL /\ buf[i][1] = name}
Header(buf, name) ==
    LET lines == Values(buf, name)
    IN  IF lines = {} THEN 0
        ELSE buf[CHOOSE i \in lines : \A j \in lines : j <= i][2]

\* (Faulty variant.)  A token in a request to any host.
IsHitAnyHost(buf) == HasRequestLine(buf) /\ Header(buf, "auth") > 0

\* http1_hit finds a token, for one of EMBARK_TOKEN_HOSTS.
IsHit(buf) ==
    HasRequestLine(buf) /\ Header(buf, "host") = 1 /\ Header(buf, "auth") > 0

\* (Faulty variant.)  With the head all of the buffer goes.
AfterHeadNothing(buf) == <<>>

\* buffer.drain(..header_len)
AfterHead(buf) == SubSeq(buf, HeaderLen(buf) + 1, Len(buf))

-----------------------------------------------------------------------------
(* Faulty variants of definitions below.                                   *)

\* A buffer that is cut at its end, where the next data go.
TrimmedAtEnd(buf) ==
    IF Len(buf) > MaxBuffer THEN SubSeq(buf, 1, MaxBuffer) ELSE buf

\* One buffer for both directions.
KeptShared(k, rest) == [key \in Keys |-> IF key[1] = k[1] THEN rest ELSE buffers[key]]

-----------------------------------------------------------------------------
(* parse_stream                                                            *)

Appended(k, data) == buffers[k] \o data

Trimmed(buf) ==
    IF Len(buf) > MaxBuffer
    THEN SubSeq(buf, Len(buf) - MaxBuffer + 1, Len(buf)) ELSE buf

\* The loop goes on while it finds heads that are no requests, and is left with
\* the buffer as it is when there is a request or no whole head.
Skips(buf) == HeaderLen(buf) > 0 /\ ~HasRequestLine(buf)

Scanned(buf) ==
    LET left[n \in 0..Len(buf)] ==
            IF n = 0 THEN FromMethod(buf)
            ELSE LET last == left[n - 1]
                 IN  IF Skips(last) THEN FromMethod(AfterHead(last)) ELSE last
    IN  left[Len(buf)]

\* What the buffer is afterwards: a request is consumed, up to its body.
Rest(buf) == IF HasRequestLine(buf) THEN AfterHead(buf) ELSE buf

Kept(k, rest) == [buffers EXCEPT ![k] = rest]

\* One chunk is parsed: a hit, an embark_http_observation or an
\* embark_plaintext_observation, and no second message.
ParseStream(k, n) ==
    LET data == SubSeq(wire[k], read[k] + 1, read[k] + n)
        whole == Appended(k, data)
        buf == Scanned(Trimmed(whole))
    IN  /\ n <= Len(wire[k]) - read[k]
        /\ read' = [read EXCEPT ![k] = @ + n]
        /\ overflowed' = [overflowed EXCEPT ![k] = @ \/ Len(whole) > MaxBuffer]
        /\ buffers' = Kept(k, Rest(buf))
        /\ hits' = IF IsHit(buf)
                   THEN [hits EXCEPT ![k] =
                            Append(@, [host |-> Header(buf, "host"),
                                       token |-> Header(buf, "auth")])]
                   ELSE hits
        /\ UNCHANGED <<requests, wire>>

\* load_sync_keys found a new key file: a new manager has a new scanner, and is
\* given the recent segments again, from the handshake of a connection on.
Rebuild ==
    /\ \E k \in Keys : read[k] > 0
    /\ read' = [k \in Keys |-> 0]
    /\ buffers' = [k \in Keys |-> <<>>]
    /\ hits' = [k \in Keys |-> <<>>]
    /\ overflowed' = [k \in Keys |-> FALSE]
    /\ UNCHANGED <<requests, wire>>

Next ==
    \/ \E k \in Keys : \E n \in 1..Len(wire[k]) : ParseStream(k, n)
    \/ Rebuild

Spec == Init /\ [][Next]_vars

-----------------------------------------------------------------------------
(* Properties.                                                             *)

\* A buffer is never over its limit and never holds what is not on the wire.
TypeOK ==
    /\ \A k \in Keys :
           /\ read[k] \in 0..Len(wire[k])
           /\ Len(buffers[k]) <= MaxBuffer
           /\ IsSuffix(buffers[k], SubSeq(wire[k], 1, read[k]))
    /\ overflowed \in [Keys -> BOOLEAN]

RequestsOn(k) == IF k[2] = "ToServer" THEN requests[k[1]] ELSE <<>>

\* The requests whose tokens are wanted, and whose heads have been read.
Wanted(reqs) == {i \in DOMAIN reqs : reqs[i].host = "game" /\ reqs[i].auth = "bearer"}
Arrived(k) == {i \in Wanted(RequestsOn(k)) : HeadEnd(RequestsOn(k), i) <= read[k]}

\* A method word in a body has been read: the scanner takes it for a request.
Misled(k) ==
    \E i \in DOMAIN RequestsOn(k) :
        /\ RequestsOn(k)[i].body = "method"
        /\ HeadEnd(RequestsOn(k), i) < read[k]

\* A hit as a number of the feed: the rank of its request among the wanted ones,
\* or 0 when there is no such request.
RankOf(k, hit) ==
    IF hit.host = 1 /\ hit.token \in Wanted(RequestsOn(k))
    THEN Cardinality({i \in Wanted(RequestsOn(k)) : i <= hit.token}) ELSE 0

Feed == INSTANCE TokenFeed WITH
    Feeds <- Keys,
    sent <- [k \in Keys |-> Cardinality(Arrived(k))],
    got <- [k \in Keys |-> [i \in DOMAIN hits[k] |-> RankOf(k, hits[k][i])]],
    lossy <- [k \in Keys |-> overflowed[k] \/ Misled(k)]

\* However the plaintext is cut into chunks, and whatever else is sent, the
\* tokens come out in order, once, with the host they were sent to.
ImplementsFeed == Feed!Spec

\* A token that was not reported is still whole in the buffer, where the next
\* data find it.  It is lost to the limit, or to a method word in the body
\* before it, which the scanner takes for the start of a request.
UnreportedIsBuffered ==
    \A k \in Keys : ~overflowed[k] =>
        \A i \in Arrived(k) :
            \/ i \in {hits[k][j].token : j \in DOMAIN hits[k]}
            \/ StartOf(RequestsOn(k), i) >= read[k] - Len(buffers[k])
            \/ i > 1 /\ RequestsOn(k)[i - 1].body = "method"
==============================================================================
