---------------------------- MODULE MCReception ----------------------------
(* Scopes for model checking Reception. *)
EXTENDS Reception

Scope(dests, exit, fail, cancel, reuse) ==
    [dests |-> dests, exit |-> exit, fail |-> fail, cancel |-> cancel, reuse |-> reuse]

\* Orderly applications, whose ports are used again at once; a socket that
\* tries again, elsewhere; and every fault, when no port is bound again while
\* it is still announced.
Sound == {Scope(Dests, FALSE, FALSE, FALSE, TRUE),
          Scope(Dests, FALSE, TRUE, FALSE, FALSE),
          Scope({CHOOSE d \in Dests : TRUE}, TRUE, TRUE, TRUE, FALSE)}
=============================================================================
