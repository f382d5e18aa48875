----------------------------- MODULE AddressSpace -----------------------------
(***************************************************************************)
(* What kernel/memory.h promises of an address space: a page is mapped or  *)
(* not, with a protection that lasts until the lower half is cleared.      *)
(* There are no tables; mapping may fail for want of memory.               *)
(*                                                                         *)
(* A change of protection is not here: the code reports it and does not    *)
(* make it.                                                                *)
(***************************************************************************)
CONSTANTS
  Address,      \* pages of the address space
  Low,          \* those of its lower half
  Protection, Unmapped

VARIABLES
  protection,   \* protection[a], or Unmapped
  reply         \* what the last call told its caller

vars == <<protection, reply>>

Init ==
  /\ protection \in [Address -> Protection \cup {Unmapped}]
  /\ reply = <<"boot">>

Map(a, p) ==
  /\ protection[a] = Unmapped
  /\ protection' = [protection EXCEPT ![a] = p]
  /\ reply' = <<"map", "done">>

MapFails(a) ==
  /\ \/ protection[a] # Unmapped /\ reply' = <<"map", "already mapped">>
     \/ protection[a] = Unmapped /\ reply' = <<"map", "no memory">>
  /\ UNCHANGED protection

Protect(a) ==
  /\ reply' = <<"protect", protection[a] # Unmapped>>
  /\ UNCHANGED protection

Translate(a) ==
  /\ reply' = <<"translate", protection[a]>>
  /\ UNCHANGED protection

ClearLow ==
  /\ protection' = [a \in Address |-> IF a \in Low THEN Unmapped ELSE protection[a]]
  /\ reply' = <<"cleared">>

Next ==
  \/ \E a \in Address :
       \/ \E p \in Protection : Map(a, p)
       \/ MapFails(a) \/ Protect(a) \/ Translate(a)
  \/ ClearLow

Spec == Init /\ [][Next]_vars
=============================================================================
