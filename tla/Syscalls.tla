------------------------------- MODULE Syscalls -------------------------------
(***************************************************************************)
(* How a call of the user library reaches the kernel: the wrappers of      *)
(* stdlib, syscall (syscall.s) and syscall_handler (interrupts.c).         *)
(*                                                                         *)
(* The numbers are written down in the kernel and again on the user side.  *)
(* The arguments of a call are named by their positions.                   *)
(***************************************************************************)
EXTENDS Naturals, SequencesExt, TLC

Undefined == 0      \* the argument in a register that nobody has set

-----------------------------------------------------------------------------
(* The wrappers: the number, the arguments passed on, and whether what     *)
(* comes back is returned.                                                 *)

Passes(nr, arguments, returns) == [nr |-> nr, arguments |-> arguments, returns |-> returns]

io == [read |-> Passes(0, <<1, 2, 3>>, TRUE), write |-> Passes(1, <<1, 2, 3>>, TRUE)]

mem == [mmap |-> Passes(9, <<1, 2, 3, 4, 5, 6>>, TRUE), exec |-> Passes(5, <<1>>, TRUE)]

fs ==
  [file_open     |-> Passes(12, <<1>>, TRUE),
   file_write    |-> Passes(13, <<1, 2, 3>>, TRUE),
   file_write_at |-> Passes(14, <<2, 3, 4>>, TRUE),
   file_append   |-> Passes(15, <<1, 2, 3>>, TRUE),
   file_read     |-> Passes(16, <<1>>, FALSE),
   file_delete   |-> Passes(17, <<1>>, FALSE),
   file_rename   |-> Passes(18, <<1, 2>>, FALSE)]

programs == [exec |-> Passes(5, <<1>>, FALSE), exit |-> Passes(6, <<>>, FALSE)]

-----------------------------------------------------------------------------
(* The registers, and the kernel.                                          *)

syscall(call) ==
  [k \in 1 .. 6 |-> IF k \in DOMAIN call.arguments THEN call.arguments[k] ELSE Undefined]

\* A function of the kernel with its arguments; its result may be dropped.
Runs(fn, arguments, returns) == [fn |-> fn, arguments |-> arguments, returns |-> returns]

\* The functions SYS_fs_* pass everything on.
SYS_fs(fn, arguments, returns) == Runs(fn, arguments, returns)

\* Mutant: the buffer and the size change places.
SwappedArgs(arg) == <<arg[1], arg[3], arg[2]>>
BufferArgs(arg) == <<arg[1], arg[2], arg[3]>>

syscall_handler(nr, arg) ==
  CASE nr = 0  -> Runs("SYS_read", <<arg[1], arg[2], arg[3]>>, TRUE)
    [] nr = 1  -> Runs("SYS_write", <<arg[1], arg[2], arg[3]>>, TRUE)
    [] nr = 9  -> Runs("SYS_mmap", arg, TRUE)
    [] nr = 5  -> Runs("SYS_exec", <<arg[1]>>, TRUE)
    [] nr = 6  -> Runs("SYS_exit", <<>>, TRUE)
    [] nr = 12 -> SYS_fs("fs_open", <<arg[1]>>, TRUE)
    [] nr = 13 -> SYS_fs("fs_write", BufferArgs(arg), TRUE)
    [] nr = 14 -> SYS_fs("fs_write_at", <<arg[1], arg[2], arg[3], arg[4]>>, TRUE)
    [] nr = 15 -> SYS_fs("fs_append", BufferArgs(arg), TRUE)
    [] nr = 16 -> SYS_fs("fs_read", <<arg[1]>>, FALSE)
    [] nr = 17 -> SYS_fs("fs_delete", <<arg[1]>>, FALSE)
    [] nr = 18 -> SYS_fs("fs_rename", <<arg[1], arg[2]>>, FALSE)
    [] nr \notin (0 .. 1) \cup {5, 6, 9} \cup (12 .. 18) -> Runs("none", <<>>, FALSE)

-----------------------------------------------------------------------------
(* Properties.                                                             *)

Arrives(call, fn, arity, result) ==
  LET run == syscall_handler(call.nr, syscall(call)) IN
  /\ run.fn = fn
  /\ run.arguments = [k \in 1 .. arity |-> k]
  /\ result => run.returns /\ call.returns

AllArrive ==
  /\ Arrives(io.read, "SYS_read", 3, TRUE) /\ Arrives(io.write, "SYS_write", 3, TRUE)
  /\ Arrives(mem.mmap, "SYS_mmap", 6, TRUE) /\ Arrives(mem.exec, "SYS_exec", 1, TRUE)
  /\ Arrives(programs.exec, "SYS_exec", 1, FALSE) /\ Arrives(programs.exit, "SYS_exit", 0, FALSE)
  /\ Arrives(fs.file_open, "fs_open", 1, TRUE)
  /\ Arrives(fs.file_write, "fs_write", 3, TRUE) /\ Arrives(fs.file_append, "fs_append", 3, TRUE)
  /\ Arrives(fs.file_read, "fs_read", 1, FALSE) /\ Arrives(fs.file_delete, "fs_delete", 1, FALSE)

\* As fs.h declares them.
AllFileCallsArrive ==
  /\ Arrives(fs.file_open, "fs_open", 1, TRUE)
  /\ Arrives(fs.file_write, "fs_write", 3, TRUE)
  /\ Arrives(fs.file_write_at, "fs_write_at", 4, TRUE)
  /\ Arrives(fs.file_append, "fs_append", 3, TRUE)
  /\ Arrives(fs.file_read, "fs_read", 1, FALSE)
  /\ Arrives(fs.file_delete, "fs_delete", 1, FALSE)
  /\ Arrives(fs.file_rename, "fs_rename", 2, TRUE)
=============================================================================
