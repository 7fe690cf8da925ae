---------------------------- MODULE MCLinkBroker ----------------------------
(* LinkBroker with one benign and one destructive action.  Goroutines are   *)
(* interchangeable: no property names one and none is a liveness property.  *)
EXTENDS LinkBroker, TLC

CONSTANTS w1, w2
Goroutines == Permutations({w1, w2})
=============================================================================
