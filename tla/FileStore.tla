------------------------------ MODULE FileStore ------------------------------
(***************************************************************************)
(* What the file system promises a program (kernel/fs.h): files are named  *)
(* sequences of bytes, reached through descriptors.  There are no blocks;  *)
(* a call takes effect in one step, and a write or an open that needs room *)
(* may fail, but then it changes nothing.                                  *)
(*                                                                         *)
(* The slots of the entries table show through: they are never used again, *)
(* an open fails once all are used, and the first file of a name wins.     *)
(***************************************************************************)
EXTENDS Integers, Sequences

CONSTANTS MaxFiles, MaxFd, MaxLen, Name, NoName, Byte, NoFile

Slot == 0 .. MaxFiles - 1
Fd   == 0 .. MaxFd - 1

VARIABLES
  file,     \* file[s]: [name, bytes], or NoFile once deleted or not yet made
  used,     \* slots 0 .. used-1 have been handed out
  handle,   \* handle[d]: the slot descriptor d refers to, or NoFile
  fresh,    \* the next descriptor
  reply     \* what the last call told the program

vars == <<file, used, handle, fresh, reply>>

Init ==
  /\ file = [s \in Slot |-> NoFile]
  /\ used = 0
  /\ handle = [d \in Fd |-> NoFile]
  /\ fresh = 0
  /\ reply = <<"init">>

Named(n) == {s \in Slot : file[s] # NoFile /\ file[s].name = n}
First(S) == CHOOSE s \in S : \A t \in S : s <= t

Attach(s) ==
  /\ fresh < MaxFd
  /\ handle' = [handle EXCEPT ![fresh] = s]
  /\ fresh' = fresh + 1
  /\ reply' = <<"open", fresh>>

OpenFails(n) ==
  /\ used = MaxFiles \/ Named(n) = {}
  /\ reply' = <<"open", -1>>
  /\ UNCHANGED <<file, used, handle, fresh>>

OpenFile(n) ==
  /\ used < MaxFiles
  /\ Named(n) # {}
  /\ Attach(First(Named(n)))
  /\ UNCHANGED <<file, used>>

Create(n) ==
  /\ used < MaxFiles
  /\ Named(n) = {}
  /\ file' = [file EXCEPT ![used] = [name |-> n, bytes |-> <<>>]]
  /\ used' = used + 1
  /\ Attach(used)

\* The bytes of a file after b is written at offset i, inside it or at its end.
Overlay(bytes, i, b) ==
  [p \in 1 .. (IF i + Len(b) > Len(bytes) THEN i + Len(b) ELSE Len(bytes)) |->
     IF p > i /\ p <= i + Len(b) THEN b[p - i] ELSE bytes[p]]

WriteFails(d) ==
  /\ reply' = <<"write", FALSE>>
  /\ UNCHANGED <<file, used, handle, fresh>>

Write(d, i, b) ==
  /\ handle[d] # NoFile
  /\ i <= Len(file[handle[d]].bytes)
  /\ i + Len(b) <= MaxLen
  /\ file' = [file EXCEPT ![handle[d]].bytes = Overlay(@, i, b)]
  /\ reply' = <<"write", TRUE>>
  /\ UNCHANGED <<used, handle, fresh>>

Read(d) ==
  /\ reply' = IF handle[d] = NoFile THEN <<"warning">>
              ELSE <<"read", file[handle[d]].bytes>>
  /\ UNCHANGED <<file, used, handle, fresh>>

\* After a delete no descriptor leads to the file.
Delete(d) ==
  /\ IF handle[d] = NoFile
     THEN reply' = <<"warning">> /\ UNCHANGED <<file, handle>>
     ELSE /\ file' = [file EXCEPT ![handle[d]] = NoFile]
          /\ handle' = [h \in Fd |-> IF handle[h] = handle[d] THEN NoFile ELSE handle[h]]
          /\ reply' = <<"delete">>
  /\ UNCHANGED <<used, fresh>>

Rename(old, new) ==
  /\ IF Named(old) = {}
     THEN reply' = <<"rename", FALSE>> /\ UNCHANGED file
     ELSE /\ file' = [file EXCEPT ![First(Named(old))].name = new]
          /\ reply' = <<"rename", TRUE>>
  /\ UNCHANGED <<used, handle, fresh>>

Buffer == UNION {[1 .. n -> Byte] : n \in 0 .. MaxLen}

Next ==
  \/ \E n \in Name : OpenFails(n) \/ OpenFile(n) \/ Create(n)
  \/ \E d \in Fd :
       \/ WriteFails(d)
       \/ \E i \in 0 .. MaxLen, b \in Buffer : Write(d, i, b)
       \/ Read(d)
       \/ Delete(d)
  \/ \E old, new \in Name : Rename(old, new)

Spec == Init /\ [][Next]_vars
=============================================================================
