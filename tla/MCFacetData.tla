---------------------------- MODULE MCFacetData ----------------------------
(***************************************************************************)
(* FacetData on a small instance, given in MCFacetData_all.cfg.            *)
(***************************************************************************)
EXTENDS FacetData
=============================================================================
