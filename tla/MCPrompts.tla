----------------------------- MODULE MCPrompts ------------------------------
(* The empty text, one that is a number and one that is not.               *)
EXTENDS Prompts

MCValues == {"", "7", "text"}
MCNumbers == {"7"}
=============================================================================
