------------------------------ MODULE MCDelivery ------------------------------
(* The instance of MCScheduler, with the outbox. *)
EXTENDS Delivery, MCScheduler

\* For safety no slices, for liveness only files in the second one.
AllHot == [u \in Url |-> Hot]
AllCold == [u \in Url |-> 1]
===============================================================================
