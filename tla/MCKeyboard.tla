------------------------------ MODULE MCKeyboard ------------------------------
(* One letter key is enough: shift gives it two characters.                *)
EXTENDS Keyboard

CONSTANT k

Keys == {k}
=============================================================================
