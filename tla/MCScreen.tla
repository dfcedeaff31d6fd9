------------------------------- MODULE MCScreen -------------------------------
(* Instances of Screen for TLC; the configuration gives the constants.      *)
EXTENDS Screen
===============================================================================
