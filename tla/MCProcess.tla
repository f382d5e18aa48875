------------------------------ MODULE MCProcess ------------------------------
(***************************************************************************)
(* Sixteen pages of four bytes.  0 to 3: images; 6, 7: the user stack;     *)
(* from 8: mmap; 14, 15: the kernel's half.                                *)
(***************************************************************************)
EXTENDS Process

CONSTANTS rw, rwx

\* "a" is init, "b" a program that fits, "ba" one with a segment too long.  What
\* follows the initialised data in the file of "b" is not zero: malloc's
\* variables start with it, and malloc asks mmap when it has used that up, or
\* at once for a large block.
Programs ==
  <<[string |-> <<97>>, segments |-> <<[page |-> 1, pages |-> 1], [page |-> 2, pages |-> 1]>>,
     bss |-> [bump |-> 0, space_remaining |-> 0]],
    [string |-> <<98>>, segments |-> <<[page |-> 1, pages |-> 1], [page |-> 3, pages |-> 1]>>,
     bss |-> [bump |-> 34, space_remaining |-> 4]],
    [string |-> <<98, 97>>, segments |-> <<[page |-> 1, pages |-> 2]>>,
     bss |-> [bump |-> 0, space_remaining |-> 0]]>>
InitString == <<97>>
ShellKnows == <<<<98>>, <<97>>, <<98, 97>>>>

\* 16-bit numbers, at the edges of the digits.  Some calls have more arguments
\* than directives.
Numbers == {0, 1, 9, 10, 15, 16, 100, 255, 256, 9999, 10000, 32767, 32768, 65535}

d == 100
PrintCalls ==
  {<<<<Percent, code>>, <<v>>>> : code \in {99, d, 112, 120}, v \in {0, 65535}}
    \cup {<<<<120, Percent, d, Percent, Percent, d, Percent, 120, 10>>, <<10, 171, 5>>>>,
          <<<<Percent, Percent, Percent, 115, Percent, 63>>, <<<<Percent, d, 97>>, <<>>, 5>>>>,
          <<<<Percent, 115, Percent, 112>>, <<<<>>, 255>>>>,
          <<<<>>, <<>>>>}
=============================================================================
