--------------------------- MODULE MCRequestAuth ---------------------------
(* Instance for TLC.  Two hostnames, which may fail to resolve or resolve   *)
(* to the address of a proxy; a message that comes through the proxy and is *)
(* sent again.                                                              *)
EXTENDS RequestAuth, TLC

CONSTANTS p, c, s, h1, h2

MCNames == <<h1, h2>>
MCAnswers == {{}, {p}}
Forwarded == [peer |-> p, forwarded |-> <<c, p>>, real_ip |-> None, timestamp |-> 0,
              signature |-> s]
MCMessages == {Forwarded}
=============================================================================
