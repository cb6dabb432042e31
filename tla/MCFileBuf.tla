----------------------------- MODULE MCFileBuf ------------------------------
(***************************************************************************)
(* FileBuf on small instances: files of up to four bytes behind buffers of *)
(* one to four.                                                            *)
(***************************************************************************)
EXTENDS FileBuf

MCTexts == {<<10>>, <<10, 11>>}
=============================================================================
