------------------------------ MODULE MCConsole ------------------------------
(* A console with two names for worker threads and one enrolment thread.   *)
EXTENDS Console
===============================================================================
