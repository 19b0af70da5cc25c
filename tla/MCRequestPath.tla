----------------------------- MODULE MCRequestPath -----------------------------
(* An instance of RequestPath in which every kind of call meets the two     *)
(* ends of the handle, one of each caller's kinds in a behaviour.           *)
EXTENDS RequestPath

CONSTANTS c1, c2, c3

MCClasses(c) ==
    CASE c = c1 -> {"commit"}
      [] c = c2 -> {"handleWrite", "rollback"}
      [] c = c3 -> {"handleRead", "publish", "send", "restore"}
================================================================================
