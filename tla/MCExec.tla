------------------------------- MODULE MCExec -------------------------------
(***************************************************************************)
(* ExecWatch on a small instance: two programs run one after the other.    *)
(***************************************************************************)
EXTENDS ExecWatch
=============================================================================
