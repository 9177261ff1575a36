----------------------------- MODULE MCClientCopy -----------------------------
(* Small instances of ClientCopy for TLC: one file, a client that keeps a copy
   and one that does not. *)
EXTENDS ClientCopy

MCFiles == {"page"}
MCVariant == [p \in MCFiles |-> p]
MCRequests == {Get(Unconditional)}

=============================================================================
