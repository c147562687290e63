---------------------------- MODULE MCAdmission ----------------------------
(* Instances of Admission for TLC: an agent makes two calls of one heavy      *)
(* command through the hook, and a wrapper runs a command y.                  *)
EXTENDS Admission

CONSTANTS x1, x2, y, agent, other, build, test

\* y belongs to another agent, runs another command and has a lower priority.
MCOwnerOf == [u \in Use |-> IF u = y THEN other ELSE agent]
MCCommandOf == [u \in Use |-> IF u = y THEN test ELSE build]
MCRankOf == [u \in Use |-> IF u = y THEN 1 ELSE 0]

\* All three are the same command of one agent.
MCOneOwner == [u \in Use |-> agent]
MCOneCommand == [u \in Use |-> build]
MCOneRank == [u \in Use |-> 0]
=============================================================================
