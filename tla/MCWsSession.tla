------------------------------ MODULE MCWsSession ------------------------------
(* What TLC needs to check WsSession on a small instance.                   *)
EXTENDS WsSession, TLC

(* The client's keys are interchangeable: sound where nothing temporal is   *)
(* checked.                                                                 *)
KeySymmetry == Permutations(ClientKeys)
================================================================================
