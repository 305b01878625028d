-------------------------- MODULE MCRobotsAuditor --------------------------
(* Every robots.txt can be had or not. *)
EXTENDS RobotsAuditor

MCServed == [h \in Host |-> {"rules", "open"}]
=============================================================================
