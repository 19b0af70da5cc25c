------------------------------ MODULE MCNotice ------------------------------
(* Which client meets which environment: the plain life cycle for all, and *)
(* for the queue client the events that endanger the bookkeeping they share. *)
EXTENDS Notice

MCCases == {<<"queue", {"retry"}>>,
            <<"notice", {"retry"}>>,
            <<"kv", {"retry"}>>,
            <<"lease", {"retry", "restore"}>>,
            <<"queue", {"timeout", "restore"}>>,
            <<"queue", {"down", "gap", "abort"}>>}

\* For the configurations that are run by hand.
MCRestore == {<<"queue", {"restore"}>>}
MCAbort == {<<"queue", {"abort"}>>, <<"notice", {"abort"}>>}
=============================================================================
