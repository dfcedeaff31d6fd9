------------------------------ MODULE MCKeyboard ------------------------------
(* Instances of Keyboard for TLC; the configurations give the constants.    *)
EXTENDS Keyboard
===============================================================================
