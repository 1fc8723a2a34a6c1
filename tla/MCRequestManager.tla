-------------------------- MODULE MCRequestManager --------------------------
(* Small instances of RequestManager for TLC.                              *)
EXTENDS RequestDelivery, TLC

CONSTANTS p1, p2

\* One profile with a search server, one with none.
OneServer == p1 :> 1 @@ p2 :> 0

\* One profile with a search server, one with two.
TwoServers == p1 :> 1 @@ p2 :> 2
=============================================================================
