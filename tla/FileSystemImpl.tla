--------------------------- MODULE FileSystemImpl ---------------------------
(***************************************************************************)
(* The file system of fs.c implements FileStore, up to the first event     *)
(* that breaks its structures (harm).                                      *)
(*                                                                         *)
(* A write takes effect when it updates file_size: the bytes it still has  *)
(* to copy count as copied.  A delete takes effect when it starts.         *)
(***************************************************************************)
EXTENDS FileSystem, FiniteSets

CONSTANT NoFile   \* stands for no slot, and for no file

ASSUME NoFileAssumption ==
  NoFile \notin Slot \cup [name : Name, bytes : Seq(Byte \cup {Junk})]

\* The byte at offset p of the file in slot s, as a reader would find it.
ByteAt(s, p) == data[Chain(entries[s].start)[p \div DataSize]][p % DataSize]

Pending(s, p) == pc = "copy" /\ s = ent /\ p >= pos /\ p < pos + Len(buf)

Bytes(s) ==
  [p \in 1 .. entries[s].size |->
     IF Pending(s, p - 1) THEN buf[p - pos] ELSE ByteAt(s, p - 1)]

Going(d) == pc = "delete" /\ find_fd(d) = ent

FileSeen(s) ==
  IF Holds(s) THEN [name |-> entries[s].name, bytes |-> Bytes(s)] ELSE NoFile

HandleSeen(d) == IF find_fd(d) = NULL \/ Going(d) THEN NoFile ELSE find_fd(d)

FilesSeen   == [s \in Slot |-> FileSeen(s)]
HandlesSeen == [d \in Fd |-> HandleSeen(d)]
ReplySeen   == IF pc = "copy" THEN <<"write", TRUE>>
               ELSE IF pc = "delete" THEN <<"delete">> ELSE ret

Store == INSTANCE FileStore WITH
  file <- FilesSeen, used <- next_entry, handle <- HandlesSeen, fresh <- next_fd,
  reply <- ReplySeen

\* Every step of fs.c is a step of FileStore, or changes nothing it can see:
\* a program reads back the bytes it wrote, a call on one file leaves the
\* others alone, and a call that fails changes nothing.
ImplementsFileStore ==
  Store!Init /\ [][~Sound' \/ UNCHANGED Store!vars \/ Store!Next]_(Store!vars)

-----------------------------------------------------------------------------
(* The pages of the pool, counted.                                         *)

FreePages ==
  LET c == Follow(next, free_list) IN {c[n] : n \in 0 .. NumBlocks} \cap Block

Files == {s \in Slot : Holds(s)}

\* What a file may put a page in: as many places as its size asks for.
Places == UNION {{s} \X (0 .. NumBlocksOf(entries[s].size) - 1) : s \in Files}

\* Between calls every page is on the free list or in the chain of a file,
\* except the last page of each deleted file: fs_delete stops before it.
PagesAccounted ==
  Sound /\ pc = "idle" =>
    Cardinality(FreePages) + Cardinality(Places)
      + Cardinality(0 .. next_entry - 1 \ Files) = NumBlocks

-----------------------------------------------------------------------------
(* What the repository says of the calls, and what they do.                *)

\* "set index to last block" (fs.c:103): between calls the chain of every file
\* ends with the end mark.  A write that fails half way leaves one that does not.
ChainsEnd ==
  harm \subseteq {"torn"} /\ pc = "idle" =>
    \A s \in Slot : Holds(s) =>
      \E n \in 0 .. NumBlocks : Chain(entries[s].start)[n] = END

\* "The file you are trying to read does not exist" (fs.c:145) is the answer
\* to a read of a deleted file: a descriptor that fs_read accepts has a file.
DeletedFilesWarn ==
  harm \subseteq {"dangling"} /\ pc = "read" => Holds(ent)
=============================================================================
