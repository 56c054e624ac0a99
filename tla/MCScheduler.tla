---------------------------- MODULE MCScheduler ----------------------------
(* A small instance of Scheduler. *)
EXTENDS Scheduler

CONSTANTS
    draft,      \* a D-URL whose paper is p1, probed in every cycle
    cold,       \* a D-URL in the second cold slice, whatever the index has
    p1

MCDraftsOf == [p \in Paper |-> {draft}]
MCListFor == [index \in SUBSET Paper |-> Url \ {draft : p \in index}]
MCSliceOf == [u \in Url |-> IF u = cold THEN 1 ELSE Hot]
=============================================================================
