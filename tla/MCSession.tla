------------------------------ MODULE MCSession ------------------------------
(* Connections to one server's databases, for TLC. *)
EXTENDS Session

MCVersions ==
    <<{[kind |-> "batch", scoped |-> FALSE], [kind |-> "divided", scoped |-> FALSE]},
      {[kind |-> "divided", scoped |-> FALSE], [kind |-> "write", scoped |-> TRUE]}>>
=============================================================================
