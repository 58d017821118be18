------------------------------ MODULE MCSession -------------------------------
(* Up to two enrolled people, two names for listening threads.             *)
EXTENDS Session
===============================================================================
