----------------------------- MODULE MCChannel -----------------------------
(* Channel with three threads: two can meet behind the third's back. *)
EXTENDS Channel

\* Rendezvous, one slot, and no bound.
MCCapacities == {-1, 0, 1}

=============================================================================
