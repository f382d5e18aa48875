# A verification development for fsproject

fsproject is a teaching kernel for x86-64 (one CPU, no scheduler, one program at
a time) with an in-memory file system. This directory holds TLA+ models of its
parts, the TLC runs that check them on small instances, and proofs that TLAPS
checks for every instance.

| file | what it is |
| --- | --- |
| `FileSystem.tla` | `kernel/fs.c` and `kernel/fd.c`, one loop iteration per step |
| `FileStore.tla` | what the file system promises: named byte sequences |
| `FileSystemImpl.tla` | `FileSystem` implements `FileStore`; page accounting; what the code's own texts claim |
| `FileSystemProofs.tla` | the theorems about `FileSystem` |
| `MCFileSystem.tla`, `FileSystem*.cfg` | its instances for TLC |
| `Keyboard.tla` | `keyboard_handler`, `kgetc`, `SYS_read` of `kernel/interrupts.c` |
| `KeyQueue.tla` | what the keyboard promises: a bounded FIFO queue |
| `KeyboardProofs.tla` | the theorems about `Keyboard` |
| `MCKeyboard.tla`, `Keyboard.cfg` | its instance for TLC |
| `Memory.tla` | `kernel/memory.c`: the free list of physical pages, the page tables |
| `AddressSpace.tla` | what an address space promises: a map from pages to protections |
| `MemoryProofs.tla` | the theorems about `Memory` |
| `MCMemory.tla`, `Memory*.cfg` | its instance for TLC |
| `Terminal.tla` | `kernel/terminal.c`, printed to by `SYS_write` and by the keyboard handler |
| `TerminalProofs.tla` | the theorems about `Terminal` |
| `MCTerminal.tla`, `Terminal*.cfg` | its instance for TLC |
| `Boot.tla` | the start of `_start`: `gdt.c`, `idt_setup`, `pic.c` |
| `Format.tla` | `kprintf` (`kernel/kprint.c`) and `printf` (`stdlib/io.c`) as functions |
| `Syscalls.tla` | the wrappers of `stdlib`, `syscall`, `syscall_handler` |
| `Process.tla` | on those three: exec, exit, `mmap`, `load_module`, `malloc`, the shell |
| `ProcessProofs.tla` | the theorems about `Process` |
| `FormatProofs.tla` | the theorems about `Format` |
| `HeapProofs.tla` | the theorems about what `mmap` and `malloc` hand out, and about the pages `mmap` maps |
| `MCProcess.tla`, `Process*.cfg` | its instance for TLC |
| `ModularArithmetic.tla` | lemmas on numbers that the proofs share: quotients, remainders, products, least ones |

## 1. The system

What concurrency there is comes from one interrupt, IRQ 1. All gates are trap
gates, so interrupts stay enabled inside system calls; the handler sends the EOI
last, so it is not interrupted by itself. Everything else runs to its end, or
loops for ever.

| component | state | operations | hard part | what makes it correct |
| --- | --- | --- | --- | --- |
| File system (`kernel/fs.c`) | `free_list` through the free pages, chains of blocks through the used ones, `entries`, `next_entry` | `fs_init/open/write/write_at/append/read/delete/rename` | a page is cast between list node and block; unbounded walks; failures half way | pages are never shared; chains match sizes; calls behave like a store of named byte sequences, and return |
| Descriptors (`kernel/fd.c`) | `fd_list`, `next_fd`, `next_alloc` | `create_fd`, `find_fd`, `remove_fd` | several descriptors for one file | a descriptor never outlives its file |
| Keyboard (`kernel/interrupts.c`) | `iobuffer`, `read_val`, `write_val`, `iobuffer_count`, shift flags | `keyboard_handler`, `kgetc`, `SYS_read` | the handler interrupts the reader anywhere; full and empty ring | FIFO, nothing lost but what does not fit; lines edited as typed; a waiting reader wakes |
| Dispatch (`interrupts.c`, `syscall*.s`) | IDT | `syscall_handler`, exception handlers | numbers and argument orders written down twice; results dropped or fixed (123) on the way back | a call reaches its function with its arguments, and a program sees the result |
| Processes (`SYS_exec`, `SYS_exit`, `SYS_mmap`, `modules.c`) | `mem_start`, the lower half of the page tables | exec, exit, mmap, `load_module` | unmapping before the new module is known; ignored failures; unsigned lengths; exec runs in kernel mode on the interrupt stack | a program has its own pages and those it asked for; the shell comes back |
| Physical memory (`memory.c`) | `FREELIST` of chunks | `freelist_init`, `pmem_alloc`, `pmem_free` | node headers lie in the memory they describe; the file system's pages do too | no page is handed out twice |
| Page tables (`memory.c`) | the tree of tables at CR3 | `vm_map`, `vm_protect`, `translate`, `unmap_lower_half` | failure half way; shared frames | a mapping leads to a frame of its own, with the protection asked for |
| Terminal (`terminal.c`) | `term_row`, `term_col`, screen, display registers | `term_putchar`, `term_update_cursor` | the handler prints too | the screen shows what was printed; the cursor stays on it |
| Formatted output (`kprint.c`, `stdlib/io.c`) | none | `kprintf`, `printf` | number conversion | prints the number, and each directive with its own argument |
| User library (`stdlib/`) | `bump`, `space_remaining` | `malloc`, wrappers, strings | error values that do not match | allocations are disjoint and mapped |
| Shell and demos (`init`, `test_mod`) | line buffer | the shell's loop | a buffer that starts again when full | what is run is what was typed |
| Boot, GDT, PIC | descriptor tables, masks, the interrupt flag | `gdt_setup`, `idt_setup`, `pic_init`, `pic_unmask_irq` | interrupts come on before start-up is over | whatever interrupts finds its handler, segment and stack |

Calls go from a program through the wrappers of `stdlib`, `syscall` and
`syscall_handler` to `fs.c`, which calls `fd.c`; both map pages with
`vm_map`, which takes tables from `pmem_alloc`. The keyboard handler shares its
ring with `kgetc`, and the terminal with everybody who prints.

`PROJECT.json` lists the hazards line by line, with the properties that cover
them.

## 2. The file system

### State

A page of the pool is a list node while it is free and a `data_block_t` while it
belongs to a file; the node's 8-byte pointer overlaps the 4-byte index and the
first four data bytes. The model keeps both readings, `next[b]` and `index[b]`,
and every write through one changes the other (`SetNext`, and `WILD` in
`next` when a block's index is written). `WILD` is any pointer or index that
leads out of the pool: the low half of a page's address read as an index, or an
index and data read as a pointer. Following it is a page fault, and
`page_fault_handler` halts the machine (`pc = "crash"`). A NULL pointer read as
an index is 0, which is block 0, a real one.

The code numbers blocks in units of 128 bytes while pages are 4096 bytes apart,
so page *i* has index 32 *i*; the model numbers pages. Blocks that start inside
a page never occur, because indices come only from page addresses and from 0.

`entries` and `next_entry` are the table; slots are never used again. `fd_list`
is a function, because descriptors are unique and the list is only searched by
descriptor. The locals of the running call are `ent`, `cur`, `cnt` (blocks to
allocate or to skip, or bytes to print), `wp`, `pos`, `buf`; `pc` names the loop.

### Actions

Each call has an action for its start (tests, early returns) and one action per
loop iteration, because the loops have no bound but the end mark: `Seek`,
`Alloc`, `Skip`, `Copy` in `fs_write_at`, `ReadBlock`, `Delete`. `fs_open` and
`fs_rename` have only the search over the table and are one step each. Calls do
not overlap: there is one CPU, and the handler calls none of them.

`DeleteReads` says which builds are considered. `fs_delete` writes
`curr_node->next` and then reads `curr_block->index` from the same bytes. The
types may not alias, so a compiler may use the value it has already loaded for
the loop test ("kept", what `-O2` is entitled to) or load it again ("reread").
`file_structures` uses both, `file_store` "kept".

### Harm

Five events break what the code relies on. `harm` remembers them; a property
says `Sound =>` when it holds until one of them happens.

| event | what happened |
| --- | --- |
| torn | a write ran out of pages after linking some (fs.c:93) |
| dangling | a file was deleted while another descriptor refers to it (fs.c:184) |
| nameless | the empty name, the mark of a deleted entry, was used (fs.c:34, 189) |
| reread | the build re-reads the overwritten index (fs.c:178) |
| shadowed | a file was renamed to an existing name (fs.c:190); memory stays intact, so `Sound` allows it |

The first two are shown by runs of their own (section 7). That everything else a
program can do, in any order, keeps the structures is what the passing runs and
the theorems say.

### Properties

* `NoSharing`: the free list and the chains are disjoint and injective.
* `DescriptorsLive`: a descriptor refers to an existing file.
* `NoCrash`: no call leaves the pool.
* `ChainsMatchSizes`: between calls a file has exactly the blocks its size asks
  for, ended by the mark.
* `PagesAccounted`: free pages, file blocks and one page per deleted file (which
  `fs_delete` never frees) add up to the pool: nothing else leaks.
* `NamesUnique`: until a file is renamed to another's name, a name has one file.
* `ImplementsFileStore`: every step is a step of `FileStore` or invisible. A
  write takes effect when it sets `file_size`; the bytes still to be copied count
  as copied. A delete takes effect when it starts. So a read returns what was
  written, calls on one file leave the others alone, and a failed call changes
  nothing. Two oddities of the code show in `FileStore`: slots are never used
  again, and an open fails when all are used even for an existing file.
* `CallsReturn`: every call returns, unless an event of harm but `shadowed` happens.

### Not modelled here

The 32-byte name field and what a longer name overwrites; `int` and `size_t`
arithmetic at its limits (`index + size` wraps, block counts are cut to `int`);
whether `vm_map` succeeds. These are among the hazards, and the plan below says
which of them can be modelled next.

## 3. The keyboard

The handler is one step: it cannot be interrupted and runs between two
instructions of the program. `kgetc` is a step per access to what they share:
the poll, the load of the character with the advance of `read_val` (nobody else
reads `read_val`), and `iobuffer_count--`, which on a `volatile int` is one
instruction or a load and a store; `Decrements` holds both. `clang`, which the
Makefile uses, can emit the single instruction; C does not promise it. When
an interrupt falls between load and store a character is uncounted; `lost`
remembers it.

Scan codes are grouped by what the handler does with them: the four shift codes,
a letter, backspace, any other release. A character is its key and the table it
was translated with.

* `ImplementsKeyQueue`: the window of `iobuffer_count` cells from `read_val` is a
  FIFO queue of capacity `IO_BUFFER_SIZE`, while `lost` is false. Between the
  load and the count the window is one shorter than the counter. (In that
  moment a key can be dropped as "Buffer is full" although one cell is free; the
  queue may always drop.)
* `LineEdited`: what `SYS_read` returns is the eaten characters without
  those a backspace erased, stated by counting and not by replaying.
* `ReadAnswered`: a polling `kgetc` goes on once a character's code is on the wire.

Fairness: `WF(keyboard_handler)`, because interrupts are never disabled and IRQ 1
is unmasked from start-up on; `WF(Main)`, because the CPU returns to the program
after each handler. Nothing forces the user to type, so the run does not check for
deadlock: `kgetc` may wait for ever.

## 4. Memory

A frame is what was last written to it: the `Node_t` of a chunk, a page table, or
something else. A chunk's node lies in the chunk's own first page, so a table
that is freed becomes a node, and a page taken from a chunk that has no other
page was the chunk's node. Reading one as the other is what the code must avoid,
and `ReadAsWritten` says it does.

`vm_map` takes a step per level: `Descend`, `NewTable` (with `pmem_alloc` and the
`memset`), `NoMemory`, and at the last level `AlreadyMapped` or `MapLeaf`, which
stores no address, as the code does. `unmap_lower_half` is its three loops,
`LoopL4`, `LoopL3` and `LoopL2`, a turn of one of them per step, so that an entry
is read when the code reads it: after an inner loop has freed tables, and after
`pmem_free` has written its `Node_t` over the first entries of one. No interrupt
handler touches this state.
`Init` has the boot loader's tables in place, in both halves, with huge pages,
because `_start` calls `unmap_lower_half` on them.

`vm_map` does not test `page_size`. Below a huge page it takes the page's
contents for a table; `astray` remembers it, and the properties end there.

* `PagesApart`: chunks are disjoint, and no page is both free and a table, or a
  table in two places.
* `PagesKept`: every page that was free or a table at boot is one of the two,
  also after mappings that failed half way.
* `ReadAsWritten`: see above.
* `ImplementsAddressSpace`: each step is one of `AddressSpace`, or invisible.

## 5. Terminal

The program prints with `SYS_write`, the keyboard handler when its ring is full,
and the two share the cursor. The program's `term_putchar` takes a step per
access to what is shared (`Wrap`, `WrapReturn`, `WrapFeed`, `Scroll`, `Shift`,
...); the handler's takes one step per character, during which the program stands
still. `term_col` and `term_row` are not volatile, so a build may keep them in
registers from the start of `term_putchar` to `term_update_cursor` or to the
`memcpy` of a scroll, which is in another library: `NextChar` chooses. The
`memcpy` and the clearing of a row are one step each, and so are the two stores of
a build that uses registers: interrupts inside those are left out. A
character beyond the screen is not stored; `outside` remembers it. `Init` is the
state after `term_init`. The handler prints letters only, as its warning has no
control characters.

* `NoUnderflow`: the unsigned cursor never passes below zero, wherever the handler
  breaks in between a test and a decrement.
* `ShowsOutput`: the screen is the end of what a roll of paper of unlimited length
  would show, on which the output is typed without any scrolling.
* `StaysOnScreen`, `CursorShown`: nothing is written past the screen, and the
  displayed cursor is where the next character goes.

`ShowsOutput`, `StaysOnScreen` and `CursorShown` hold until a warning breaks into a `term_putchar` (`torn`).
After that the code promises nothing, as `CursorInTerminal` shows: see the
findings below. No liveness is claimed here and no fairness assumed.

## 6. Programs

`Process` starts with the first instruction of `_start` and goes on for ever. It
is the composition of `Boot` (the processor's tables), `Syscalls` and `Format`
(pure functions) with what programs do to the kernel and to the address space.

### Boot

`todo` is what is left of the first four calls of `_start`. The controllers take
their words one at a time and an interrupt may come after any of them, so each
`outb` of `pic_init` is a step; `outb` itself is the 8259 as the code uses it
(an ICW1 clears the mask and makes the next three data words configuration).
The boot loader hands over with interrupts off. The GDT is the set of its
descriptors: one that overlaps another destroys it, and the limit that is loaded
may leave one out.

`InterruptsServed`: from the first `sti` on, whatever can interrupt finds a gate,
a code segment inside the limit, and, in user mode, a TSS with a stack; exceptions
with an error code get the handlers that take one; of the IRQs only the
keyboard's is ever let through.

### Calls and output

`Syscalls` names arguments by their positions and follows them through wrapper,
registers, `syscall_handler` and `SYS_fs_*`. `CallsArrive` says that a call of a
program is served by its function, arguments in place and result returned, for the
eleven wrappers of which that is true. `FileCallsArrive` says it of all seven that
`stdlib/fs.h` declares, with the arguments and results declared there; it is
violated, and section 7 says how.

`Format` has both printing libraries. A call is a sequence of directives with
their arguments; what it prints is a sequence of codes. `NumbersReadBack` reads
the digits back; `PrintsAsMeant` finds the directives in another way than the
loop does (a `%` after an even number of others) and compares, for `kprintf` and
for `printf` through `write`. A format that ends in `%`, or with too few
arguments, reads what lies behind; that is left out.

### Programs

One program runs at a time. `Client` is any program: it allocates, maps and
executes as it likes; `hello_world` and `test_mod` end in `SYS_EXIT`. The shell
is modelled by its code, one turn of the loop for each character `read` returns
(how `read` gets it, and that it swallows backspaces, is module `Keyboard`).

The address space is the one of `AddressSpace`: a map from pages to protections,
so that `vm_map` is one step here, and fails when memory for a page table is
short (`short`), which is chosen freely. What pages hold is left out, and has to
be: see `shared_frame` below. `SYS_mmap` takes a step per page. `exec` and `exit`
are one step each, as no handler touches what they use. `exec` calls the new
program as a function, so it runs in kernel mode on the interrupt stack (`depth`
counts what is left there), without the user stack; `exit` and the end of `_start`
enter user mode with an empty interrupt stack. A fault halts.

A module is its name, its segments, and what its file leaves in the two variables
of `malloc`. They are in `.bss`, which the linker scripts put behind `.data` in one
segment (init/linker.ld:41-44), and `load_module` copies all `p_memsz` bytes of a
segment from the file and clears none (modules.c:109, 124). So a program does not
start with `bump = NULL` and `space_remaining = 0`, as mem.c:58-59 says, but with
whatever bytes of the file follow the initialised data (`Leftover`). `malloc` then hands out
memory it never asked for, as long as the leftover `space_remaining` is large enough.
In the instance one program has such bytes; the proofs are for any. What a program
writes into such a block is left out, as all it writes is; the shell is the
exception: when its buffer is not its own memory, typing overwrites its code or its
stack, and nothing is said of it any more (`pc = "wild"`). Other initialised
data, and the shell's own locals, are as the source says.

Addresses and lengths wrap at `Word`. Two consequences of the code are visible
and are stated rather than assumed away:

* `mmap` takes whole pages off an unsigned length, so a length that is not a
  number of full pages behind the first never becomes 0: the call maps pages for
  ever. `MmapReturns` is about all other requests; `malloc` makes no such.
* Nothing limits what a program asks for. `Overdrawn` says that it was more than
  lies between `MMAP_MEM_START` and the kernel's half, or more at once than an
  `int` counts; `malloc` may then take mmap's -1 for an address. `HeapApart` and
  `RegionsMapped` end there. The history variable `overdrawn` remembers it from
  the call on, since `mem_start` itself may have wrapped.

The bound by an `int` is the code's: `SYS_mmap` keeps the number of pages in an
`int` and multiplies it by the `int` `PAGESIZE` (interrupts.c:334-339). From 2 GB
on the product overflows, which a build may wrap or compute with the width of
`mem_start`; `Reckoned` holds both. Wrapped, it moves `mem_start` by too little or
backwards, and the next region or block lies in this one: without its clause in
`overdrawn`, TLC finds `HeapApart` violated.

Properties:

* `OwnPages`: a program finds its image, in user mode its stack, and nothing else
  but what it asked for: nothing of any program before it, in whatever state that
  was left. User mode starts with an empty interrupt stack.
* `HeapApart`: regions share no page. From the first call of `mmap` on (`Grown`),
  blocks of `malloc` share no byte and lie in regions of the heap (`asked`); a block
  that was not asked for is no larger than what the file has left in
  `space_remaining`. So with a loader that clears `.bss` every block is asked for.
* `RegionsMapped`: when mmap returns, the region is mapped as asked, unless memory
  was short or the program had placed a mapping there.
* `KeysArrive`: while the shell waits, the keyboard can interrupt: in user mode,
  in a program started by exec, and inside the system call, whose gate must leave
  interrupts on.
* `CommandRun`: a command is run if and only if it was typed: as the whole line or,
  as the buffer starts again when it is full, behind the last full buffer.
* `MmapReturns`, `ShellBack`: see above, and the shell comes back after boot and
  after every program, unless the kernel has halted.

Fairness: weak for boot, for starting, for a running `mmap` and for a fault, as
the processor goes on; strong for `Exit`, because the programs there are run
through a finite list of calls whose last is `SYS_EXIT`. Nobody has to type.
The run does not check for deadlock: the machine halts after a fault, and the
bounds on calls and lines stop programs.

## 7. Runs

| run | instance | shows |
| --- | --- | --- |
| `file_structures` | 4 pages of 2 data bytes, 2 files, 3 descriptors, files up to 5 bytes, both readings in `fs_delete` | type invariant, the six structural properties and `CallsReturn`, 848 000 states |
| `file_store` | 3 pages, 2 descriptors, 3 bytes, 2 byte values, names and bytes symmetric | `ImplementsFileStore`, 554 000 states |
| `key_queue` | ring of 2, lines up to 2, 6 scan codes, both decrements | the four properties of section 3, 541 000 states |
| `page_tables` | tables of 2 entries, 9 frames, 5 addresses, 2 protections | the type invariant and the four properties of section 4, 268 000 states |
| `screen` | 2 lines of 3 cells, bytes of 3 values, a warning of 2 letters, up to 4 characters in writes of up to 2 and 2 warnings, both builds | the type invariant and the four properties of section 5, 2.1 million states |
| `programs` | 16 pages of 4 bytes, addresses of 6 bits, page tables of 2 entries, `int`s of 5 bits; init, a program that fits, with leftovers in `.bss`, one with a segment of two pages; 3 calls per program, 2 programs started from one another, a line buffer of 3 and lines of 5 | boot, and the twelve properties of section 6 that hold, 133 000 states |
| `torn_write` | as `file_structures` | violates `ChainsEnd` |
| `dangling_descriptor` | as `file_structures` | violates `DeletedFilesWarn` |
| `page_protection` | as `page_tables` | violates `ProtectionChanged` |
| `shared_frame` | as `page_tables` | violates `OwnFrame` |
| `cursor_escapes` | as `screen` | violates `CursorInTerminal` |
| `file_calls` | as `programs` | violates `FileCallsArrive` |

Why the bounds are enough. With 4 pages and files of up to 3 blocks, a file can
grow by several blocks in one call, two files compete for the pool, and the pool
can run dry at each iteration; offsets cover the start, the end and the
inside of a block. Two slots let the table fill and a slot be lost. Three
descriptors allow two for one file and one for another. `PtrTail = 1` keeps a
byte that the pointer overlaps and one that it does not. `MaxFd` and `MaxLen`
bound the run only: descriptors only grow, and a file cannot be longer than the
pool. Where a run stops at a break (`WhileSound`), the properties say nothing
about states after it. That includes `CallsReturn`: it asks that a call returns or
harm is done, and harm stays, so every behaviour that leaves the constraint satisfies
it, whatever follows; and one that stutters in front of it is not fair. In a ring of 2 the buffer is empty, half full and full,
and wraps; 6 codes include shift changes around letters and more backspaces than
letters. For the page tables 6 pages can be tables of the lower half or below a
new entry of the upper one, and 7 would be needed to map all addresses: memory
runs out at each level. The addresses are two of one table, a distant one, and
two of the upper half, which `unmap_lower_half` must leave alone. The run stops
where a walk goes astray. On the screen of 2 by 3, up to 8 characters fill both
lines, wrap and scroll, by newline and by a full line; bytes of 3 values make the
cursor's high half matter; the second warning lets the handler break in where it
has left things undone. For programs, sizes of `malloc` are a part of a page, more
than a page, more than an `int` counts, and two that wrap when they are rounded;
requests of `mmap` are part of a page and two pages, where the kernel likes, at an
address of the program's own and among the kernel's choices; the stack and every
two pages have page tables of their own, so that memory can be short for each. Lines are longer than the
buffer and commands shorter, one begins another, and one is the shell itself.
Numbers printed are of 16 bits, at the edges of the digits of both bases, with
buffers of 5 digits.

`FairSpec` of `FileSystem` is `WF(Step)`: the CPU goes on executing the call it
is in.

Findings. `torn_write`: the end mark is written only in the last iteration of
the allocation loop, so a write that runs out of pages returns false and leaves a
chain whose last index is what a NULL list pointer looks like, block 0.
`dangling_descriptor`: `fs_delete` removes one descriptor and clears the entry;
a second descriptor then reads and writes block 0 with no warning.
`page_protection`: `vm_protect` changes a copy of the entry. `shared_frame`:
`vm_map` stores no address in the last entry, so pages mapped through new tables
are all frame 0. `cursor_escapes`: a warning printed between the test for the
last column and the write leaves `term_col` at `VGA_WIDTH`, the write makes it
`VGA_WIDTH + 1`, and the test is for equality; from there the line runs over the
next ones until a newline. `file_calls`: the wrapper `file_write_at` leaves out the
descriptor (stdlib/fs.c:25), so that the kernel gets the index for the descriptor, the
buffer's address for the index and the size for the buffer: test_mod.c:34-35, which is
to "set first two letters to 'a ' in f2.txt", asks for descriptor 0. And `file_rename`,
declared `bool` (stdlib/fs.h:16), returns nothing, as `syscall_handler` keeps nothing
of what `fs_rename` returns (interrupts.c:196-198).

## 8. Proofs

`FileSystemProofs.tla`, for every number of pages, files and descriptors, every
block size, set of names and build:

* `TypeCorrect`: `Spec => []TypeOK`, also after harm and inside every loop. It
  needs `Locals`: which variables a loop may rely on (a cursor in the pool, a
  write that ends within `MaxLen`).
* `NoPageShared`: `Spec => []NoSharing`.
* `NoStaleDescriptor`: `Spec => []DescriptorsLive`.
* `OneFilePerName`: `Spec => []NamesUnique`.
* `Inductive`: the invariant the two on structure come from.
* `NothingCrashes`, `SizesAreKept`, `NoPageForgotten`: `Spec => []NoCrash`,
  `Spec => []ChainsMatchSizes` and `Spec => []PagesAccounted`.
* `FilesImplementStore`: `Spec => ImplementsFileStore`, the refinement.

`NoSharing` is not inductive. It says what pages point to; the loops need to know
where they stand, and the casts need the two readings of a page to agree. `IInv`
adds to it:

* `ViewsAgree`: a page of a file holds an index that can be followed; the index
  of a free page is its pointer read as one. So the end mark is never found in a
  free page.
* `CursorOwned`: a loop that reads an index or writes data is at a page of a file.
* `EntryInUse`: a call works on a used slot.
* `CursorUnclaimed`: the page `fs_delete` is about to push is in no other chain.

A page that `fs_write_at` has taken and not yet linked further is neither free
nor owned, which is why `Free` looks at `pc` and `cur`. Disjointness is stated by
in-degree ("at most one predecessor") and not by reachability, so no induction
over chains is needed. The proof goes action by action; most actions leave the
structure alone (`StructureKept`) and the work is in `OpenNew`, `AllocBlock` and
`DeleteBlock`. `NamesUnique` has an invariant of its own, `NamesInv`: between the
start of `fs_delete` and the step that clears the entry the slot still counts.

`NoCrash` and `ChainsMatchSizes` are about whole chains, and the prover does no
induction along them. `ChainInv` says instead that the pages of each file can be
numbered (`HasChains`): `way[s][k]` is the k-th page of the file in slot `s` and
`num[s]` how many it has. A step that adds a page extends the numbering, and all
others leave it alone. It has two parts:

* `Chains`: a file's pages are linked in this order (`Laid`), the last one has the
  end mark (`Ended`, but while a write adds pages), there are as many as the size
  asks for (`Counted`, but until a write has updated the size), and two places are
  two pages (`Apart`).
* `Place`: at which page the running loop is, and what it has left to do
  (`AtSeek`, `AtAlloc`, `AtSkip`, `AtCopy`, `AtRead`). That the loop of `fs_write_at`
  finds the page of its index, and the one of `fs_read` the last page exactly when
  the size is used up, is arithmetic with `BLOCK_DATA_SIZE` (`BlockOf`, `LastBlock`).

`Chain` is defined by recursion, so `Follows` first shows that what it defines is
there at all, from a least counterexample (`Least`); `ChainWay` and `ChainEnd` then
identify it with the numbering, in which a file has at most all pages
(`PagesBound`, the pigeonhole principle).

For `PagesAccounted`, `CountInv` also numbers the free list (`Listed`) and what
`fs_delete` has still to push (`Rest`), and adds up: free pages, places in files
(`Placed`), deleted files (`Gone`) and pages left to push are the pool (`Sums`). Four
steps move a page from one of these to another, and the start of `fs_delete` moves
those of a file; all others are `Still`. `ListFollows` and `PlacesAre` turn this
into the sets of the property.

For the refinement, `TextOf` reads a file along its way (`BytesAre`), and there is
one lemma per action: an open or a rename is a step of the store (`StoreOpens`,
`StoreCreates`, `StoreRenames`), a write where it updates the size
(`StoreWrites`), each byte it copies afterwards invisible (`StoreCopies`), since it was
`Pending` and is now in its page, and all others are elsewhere; a read where it
prints (`StorePrints`), a delete where it starts (`StoreDeletes`, `StorePushes`).
`Reached` says that the file of a running call is one a descriptor leads to.

The assumptions are the named ones of `FileSystem` (sizes are positive, the pointer
overlaps some but at most all of a block's data, `NoName` is a name, `Junk` is no
byte) and `NoFileAssumption`: what stands for no file is none.

`TerminalProofs.tla`, for every screen size, warning, text and build:

* `TerminalTypes`: `Spec => []TypeOK`. It needs `Printing`: between the tests for
  control characters and the write, the character is a letter or a newline.
* `CursorNeverUnderflows`: `Spec => []NoUnderflow`, under every interleaving. The
  invariant `Safe` says what the handler cannot undo: it leaves the cursor behind
  a character it has printed, so not in the first column, and a row it finds
  at the bottom or below it raises by one at most.
* `TextStaysOnScreen`: `Spec => []StaysOnScreen`. The invariant `Fits` gives for
  each step of `term_putchar` the columns and rows that are possible there; the
  tests for equality are enough because the cursor reaches an edge and does not
  pass it before it is tested. `OnScreen` is the arithmetic that turns column and
  row into an index of the screen.

* `CursorIsShown`: `Spec => []CursorShown`. At rest the two halves the display
  holds are the cursor's position; on the way there, `Told` says what the display
  has been told at each port access: which register is addressed, and that the low
  half already stored belongs to the position whose high half comes next. `TwoBytes`
  is the arithmetic: a position on the screen, or the one behind the last, is put
  together again from its halves. It needs `StaysOnScreen`'s invariant.

* `ScreenShowsOutput`: `Spec => []ShowsOutput`, for output of any length. The paper
  is a recursive function of the output; `DrawnInv` compares it with the screen at
  every step of `term_putchar`, one character back until the step that puts the
  character on: at a scroll halfway, the screen shows the old paper one line
  higher. `AboveMoves` says that the paper's window moves exactly when the cursor
  is in the row below the last.

The assumptions are those of `TerminalAssumption`: a width of at least 1, a height
of at least 2, a warning of letters, and fewer cells than two bytes can number.

`KeyboardProofs.tla`, for every size of the ring, every length of a line, any
number of keys, and both decrements:

* `KeyboardTypes`: `Spec => []TypeOK`, also after a decrement was hit. The types
  alone are not inductive: that `iobuffer_count` is not decremented below zero,
  and that what is read is a character, depends on what lies in the ring.
* `BufferIsQueue`: `Spec => ImplementsKeyQueue`, the refinement. `KeyInvariant`
  says that between `read_val` and `write_val` there are some `k` characters,
  modulo the size of the ring, that `iobuffer_count` never counts more than these,
  and counts exactly these as long as no decrement was hit. The counter alone
  would not do: the queue is a window that starts at `read_val`, and the handler
  stores at `write_val`.
* `LinesAreEdited`: `Spec => []LineEdited`, for lines of any length, the handler
  interrupting anywhere. The property counts backspaces; `SYS_read` replays them. What
  connects the two is `Lists`, a numbering of the kept characters in their order
  with the gaps between them: behind each kept character, up to the next one, half of
  what was eaten is backspaces, and never more than half up to any point
  between. So a letter is kept and disturbs no gap (`LinedLetter`), a backspace joins
  the last kept character and what is behind it into a gap (`LinedErase`), and at the
  start of a line, where nothing is left to erase, it counts for nothing.

`MemoryProofs.tla`, for every number of frames, every fan-out, every memory map and
every tree of tables that the boot loader leaves:

* `MemoryTypes`: `Spec => [](~astray => TypeOK)`. After a walk has taken a huge page
  for a table the frames may be anything, and nothing is claimed.
* `PagesStayApart`, `NoPageIsLost`, `TablesAreRead`: `Spec => []PagesApart`,
  `Spec => []PagesKept` and `Spec => []ReadAsWritten`.
* `TablesImplementSpace`: `Spec => ImplementsAddressSpace`, the refinement.

None of these is inductive: they speak of the moments between calls, or of the
frames a loop looks at. `Good` holds at every step, for some levels of the frames
(`lev`) and some order of the chunks (`s`):

* `Tree`: every table in use has a level, the one at CR3 level 4; the entries that
  count (`Kept`) lead one level down; no two lead to one table; each table but the
  root has one that leads to it. Levels replace an induction over paths.
  Which entries count depends on where `unmap_lower_half` is: the entry at level 4
  still does, although it is cleared already, and those behind the two inner
  indices do not, although they still say they are present.
* `Chain`: `s` is the free list from its head to its end. Its chunks are apart,
  none is empty, and none holds a table in use.
* `Whole`: tables and free pages are together what they were at boot.
* `OnLoop` and `OnWalk`: the indices and the table where a call is, and that
  `cur_table` is where the entries lead for the page the call is about.

The work is in what one step does to a tree and a list: a leaf of the tree goes and
becomes the head of the list (`Removed`, `Pushed`), the last page of a chunk leaves
the list and becomes a leaf of the tree (`Popped`, `Added`). `Init` is the same
for a whole boot tree and memory map (`BootTree`, `FirstMemory`). `TablesAre` and
`ChunksAre` then turn levels and order into the sets that the properties name;
that there are as many tables as links is a bijection. For the refinement, `Mean` is
what the tables say of a page; two pages meet in a table only as far as their
indices agree (`WaysMeet`), so an entry written for one changes no other.

Assumed are three things. `MemoryAssumption`: sizes are positive. `MapAssumption`:
the usable regions of the boot loader's memory map do not overlap and lie in
memory, as the stivale2 protocol says. `BootAssumption`: CR3 leads to a tree of
tables outside of usable memory, which the loader reports as reclaimable, not as
usable (type 1, memory.c:95), with no huge pages at level 4, which the processor
does not have, and no `page_size` in an entry that is not present. TLC
evaluates them on the instance.

`ProcessProofs.tla`, for every size of pages and addresses, every list of modules,
and all requests of programs:

* `TypeCorrect`: `Spec => []TypeOK`. Most of it is arithmetic modulo `Word`: what
  `mmap` and `malloc` compute stays an address, and its page is in the table.
* `PagesAreOwn`: `Spec => []OwnPages`. `OwnInvariant` adds the states inside a
  running `mmap`, page by page: its image and stack are still there, and what is
  still to be mapped belongs to what was asked for. Of calls whose length never
  becomes 0 nothing needs to be said, as they never return (section 6). `unmap_lower_half` empties the lower half, so an
  image is all that is there after `load_module`; for this, programs have to
  be linked into the lower half (`ProgramAssumption`).

* `InterruptsAreServed`: `Spec => []InterruptsServed`. During boot `Stage` says what
  is set up, from how many calls of `_start` have returned, and `Controllers` what
  the two 8259s have been told, after each word; `Ready` is what boot leaves behind.
  Programs change nothing of it.
* `KeysDoArrive`: `Spec => []KeysArrive`, from `Ready`: a system call, and `exec`
  within it, leaves the interrupt flag as it is.
* `TypedIsRun`: `Spec => []CommandRun`. `LineHeld` relates the shell's buffer to the
  line: the characters before the next place are the line's last ones, and that place
  is the line's length modulo `BUFFER_SIZE`. `StrcmpZero` is what `strcmp` promises;
  `CharacterAssumption`
  says that characters are numbers and no key types the one that ends a string.
* `CallsDoArrive`: `Spec => []CallsArrive`, so all calls but the two that
  `FileCallsArrive` fails on. The invariant of boot gives the gate and
  the stack; what the wrappers pass and `syscall_handler` does with it is looked up
  call by call (`Dispatched`, `AllDoArrive`).

`FormatProofs.tla`, for every number that fits and every call that has its arguments:

* `NumbersAreReadBack`: `NumbersReadBack`. The provers do no induction; `DigitsAre`
  shows first that the recursive function has its equation at all, by gluing
  functions on `0 .. n` together, and `DigitsRead` rules out a least number whose digits
  read otherwise. `DigitsFit` is the bound of the buffer: digits are at most `n` if
  the number is below `10^n`.
* `CallsPrintAsMeant`: `PrintsAsMeant`. `BetweenTurns` is the invariant of the loop over
  a format: `pos` lies behind an even number of `%`, the next argument is the
  number of directives before that take one, and what was printed is what is meant
  up to there (`AnotherTurn`). The two ways of finding directives meet in
  `OddOrEven`: behind a `%` that begins one, the next does not. That a process
  prints the same is `StringsArrive`: `write` prints character by character
  through the kernel's `%c`.

`FormatAssumption` says that numbers are below `10^Length` (2^64 - 1 is below
10^20, and both libraries have room for 20 digits), that formats are strings, and that
each directive has an argument of its type; TLC evaluates it for the calls of the
run.

`HeapProofs.tla`, on top of them, `HeapStaysApart`: `Spec => []HeapApart`. The
property is not inductive. `HeapInvariant` says, as long as the program is not
`Overdrawn`:

* `RegionsBelow`: `mem_start` is on a page boundary, and every region the kernel
  chose lies between `MMAP_MEM_START` and it. So the next one is apart.
* `IsFound` (always) and `OnlyLeftovers`: the running program is one of the modules; until
  `malloc` has asked for memory, what it has left and what it has given are within
  the leftovers of that module. Nothing is known of where `bump` points.
* `Arena`: from then on, what `malloc` has left is the end of a region it asked for.
* `BlocksBefore`: blocks it asked for lie in such regions, are apart, and end at or before
  `bump`. So the next one is apart, whether it is cut from the arena or from a new
  region.
* `Asking`: while `malloc` waits for `mmap`, what it will get lies behind the arena
  and is as long as it is going to assume. `SYS_mmap` is many steps, and
  `mem_start` has moved in the first.

The work is in the arithmetic: what `ROUND_UP` returns when it wraps (`RoundUp`),
that the `int` product is right below its limit (`ReckonedBytes`), and which pages
bytes lie on (`PageBefore`, `ByteOnPage`).

In the same module, on top of this, `RegionsStayMapped`: `Spec => []RegionsMapped`.
The property is about the moment `mmap` returns; `RegionInvariant` carries it
through the call, page by page, and leaves out what is `Remaining`:

* `ChosenMapped` and `PlacedMapped`: the property for all pages but those.
* `Serving`: what is left lies in one region. If the kernel chose it, the call
  still has that region's protection, and none of those pages is mapped but by the
  program itself; else `vm_map` would find a page mapped and keep its protection.

That pages behind `mem_start` are not mapped (`BehindUnmapped`) comes from both
earlier invariants: a page in the lower half is the image's, the stack's or was
asked for (`OwnInvariant`), the first two lie below `MMAP_MEM_START`
(`LayoutAssumption`: programs are linked to 0x500000000, the stack is at
0x70000000000), and what the kernel chose lies below `mem_start` (`HeapInvariant`).
For a placed region, `PlacedParts` and `PagesSplit` show that the first page, which
is mapped apart from the others, and what is left make up the region.

`ProcessAssumption` asks for addresses that wrap at a whole number of pages, a
stack in the lower half, and `MMAP_MEM_START` on a page boundary, not 0, and below
the kernel's half.
`ModularArithmetic` holds what the ring, the addresses and the display's halves
have in common: a quotient and a remainder are unique, and products are monotonic;
and `Least`, that a set of numbers has a smallest, which stands in for induction.

So every invariant, every action property and every refinement of a passing run is
also a theorem. Left to TLC is liveness (`CallsReturn`, `ReadAnswered`, `MmapReturns`,
`ShellBack`): it needs fairness and `ENABLED`, which the prover cannot do. The six
runs that show a violation are counterexamples and stay with TLC by their nature.

## 9. Plan

1. `Memory` and `FileSystem` together: the file system's pages are the start of a
   region that the kernel's free list owns, and block 0 lies on the chunk's
   `Node_t`, whose size it overwrites. `fs_init` and `create_fd` map those pages
   under huge pages.
2. The number of a block as an `int` and the sum of index and size as a `size_t`
   in `FileSystem`, with sizes at their limits.

## Not modelled

* `stivale2.h` declares the boot loader's structures and holds no logic; the linker
  scripts and Makefiles place what the models take as placed (images,
  `MMAP_MEM_START`, the stack).
* `fs_demo`, `testing.c`, `print_modules`, `load_init`, `pic_mask_irq`, `strlen` and
  `vm_unmap` (which does nothing) are called by nobody.
* `fs_init`, `freelist_init` and `term_init` run once and are the initial states of
  their modules.
* `memset`, `memcpy` and `strcpy` are assignments where they are used; what pages
  of programs hold is left out in `Process`.
* File names longer than their 32 bytes, and `int` and `size_t` at their limits in
  `fs.c`; system call arguments that are cut to `int`.
* A build that loads the character of `kgetc` after it counts it, which C allows,
  as `iobuffer` is not volatile.
* A format that ends in `%` or has more directives than arguments.
* `Memory` and `FileSystem` together: `vm_map` below a huge page changes the page's
  contents as if it were a table, and what that destroys is the boot loader's
  choice.
