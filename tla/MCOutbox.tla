------------------------------ MODULE MCOutbox ------------------------------
(***************************************************************************)
(* Outbox for TLC.  Messages and senders are interchangeable: nothing in   *)
(* the specification or its safety properties tells them apart.            *)
(***************************************************************************)
EXTENDS OutboxInvariants, TLC

Symmetry == Permutations(Messages) \cup Permutations(Senders)
=============================================================================
