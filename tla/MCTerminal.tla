------------------------------ MODULE MCTerminal ------------------------------
(* One letter for the program and one for the handler.                     *)
EXTENDS Terminal

Letters == {"a", "!"}
BufferIsFull == <<"!", "!">>
=============================================================================
