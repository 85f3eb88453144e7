------------------------------ MODULE TokenFeed ------------------------------
(***************************************************************************)
(* What the HTTP scanner owes the capture thread.  A feed is one direction *)
(* of one connection, and its tokens are numbered as they are sent: they   *)
(* are reported in that order, each once, and nothing else is.  A token    *)
(* may be passed over only in a feed that had to give data up.             *)
(***************************************************************************)
EXTENDS Naturals, Sequences

CONSTANT Feeds

VARIABLES
    sent,    \* how many tokens have arrived
    got,     \* the numbers of those reported
    lossy    \* data was given up

vars == <<sent, got, lossy>>

Last(numbers) == IF numbers = <<>> THEN 0 ELSE numbers[Len(numbers)]

Fresh ==
    /\ sent = [f \in Feeds |-> 0]
    /\ got = [f \in Feeds |-> <<>>]
    /\ lossy = [f \in Feeds |-> FALSE]

Init == Fresh

\* The next token is reported, or in a lossy feed some later one.
Report(f) ==
    \E n \in 1..sent'[f] :
        /\ n > Last(got[f])
        /\ n = Last(got[f]) + 1 \/ lossy'[f]
        /\ got' = [got EXCEPT ![f] = Append(@, n)]

\* Data arrive on one feed, and at most one of its tokens is reported.
Data(f) ==
    /\ \E more \in 0..sent'[f] : sent' = [sent EXCEPT ![f] = @ + more]
    /\ \E cut \in BOOLEAN : lossy' = [lossy EXCEPT ![f] = @ \/ cut]
    /\ Report(f) \/ UNCHANGED got

\* Everything is read again from its beginning, by a new reader.
Reread == Fresh'

Next == Reread \/ \E f \in Feeds : Data(f)

Spec == Init /\ [][Next]_vars

-----------------------------------------------------------------------------
(* What follows for whoever reads the feeds.                               *)

\* No token is reported that has not arrived, none twice, and none after a
\* token that was sent later.
OnceInOrder ==
    \A f \in Feeds : \A i \in 1..Len(got[f]) :
        /\ got[f][i] \in 1..sent[f]
        /\ \A j \in 1..(i - 1) : got[f][j] < got[f][i]

\* Unless data was given up, the reports are the beginning of what was sent.
NonePassedOver ==
    \A f \in Feeds : ~lossy[f] => \A i \in 1..Len(got[f]) : got[f][i] = i
==============================================================================
