----------------------------- MODULE MCWebDisplay -----------------------------
(* Three pages, three renders, up to three broadcasts under way.           *)
EXTENDS WebDisplay
===============================================================================
