------------------------------ MODULE MCPaging ------------------------------
(* Paging over every listing, for TLC.                                     *)
EXTENDS Paging
=============================================================================
