------------------------------- MODULE MCMemory -------------------------------
(***************************************************************************)
(* Tables of two entries; nine frames.  0: firmware, 1: the table at CR3,   *)
(* 2 to 4: the boot loader's tables of the lower half, 5: one of the upper *)
(* half, 6 to 8: usable memory.                                            *)
(***************************************************************************)
EXTENDS Memory, TLC

CONSTANTS rw, rx

Leading(f, huge) ==
  [present |-> TRUE, page_size |-> huge, prot |-> AnyProt, address |-> f]

BootFrames ==
  [f \in 0 .. 8 |->
     CASE f = 1 -> Table(0 :> Leading(2, FALSE) @@ 1 :> Leading(5, FALSE))
       [] f = 2 -> Table(0 :> Leading(3, FALSE) @@ 1 :> Leading(0, TRUE))
       [] f = 3 -> Table(0 :> Leading(4, FALSE) @@ 1 :> Leading(0, TRUE))
       [] f = 5 -> Table(0 :> Leading(0, TRUE) @@ 1 :> Zero)
       [] f = 4 -> Empty
       [] OTHER -> Other]

MemoryMap == <<[base |-> 6, size |-> 1], [base |-> 7, size |-> 2]>>

\* Two pages of one table, a distant one, and two of the upper half, of which
\* one lies in a huge page.
Asked == {<<0, 0, 0, 0>>, <<0, 0, 0, 1>>, <<0, 1, 0, 0>>, <<1, 0, 0, 0>>, <<1, 1, 0, 0>>}

OnTrack == ~astray
=============================================================================
