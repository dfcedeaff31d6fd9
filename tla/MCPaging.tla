------------------------------- MODULE MCPaging -------------------------------
(* Instances of Paging for TLC; the configurations give the constants.      *)
EXTENDS Paging
===============================================================================
