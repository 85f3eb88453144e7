---------------------------- MODULE MCHttpScanner ----------------------------
(* A request of each kind that the scanner treats differently.              *)
EXTENDS HttpScanner

MCRequests ==
    {[host |-> "game", auth |-> "bearer", body |-> "none"],
     [host |-> "game", auth |-> "bearer", body |-> "method"],
     [host |-> "game", auth |-> "malformed", body |-> "plain"],
     [host |-> "other", auth |-> "bearer", body |-> "plain"]}
==============================================================================
