------------------------------- MODULE KeyQueue -------------------------------
(***************************************************************************)
(* What the keyboard promises a reader: the characters come out in the     *)
(* order they went in, none twice; at most Capacity wait at a time.        *)
(***************************************************************************)
EXTENDS Naturals, Sequences

CONSTANTS Capacity, Char, Nothing

VARIABLES
  queue,   \* typed and not yet read
  last     \* the character read last

vars == <<queue, last>>

Init == queue = <<>> /\ last = Nothing

Enter(c) ==
  /\ Len(queue) < Capacity
  /\ queue' = Append(queue, c)
  /\ UNCHANGED last

Take ==
  /\ queue # <<>>
  /\ last' = Head(queue)
  /\ queue' = Tail(queue)

Next == Take \/ \E c \in Char : Enter(c)

Spec == Init /\ [][Next]_vars
=============================================================================
