--------------------------------- MODULE Boot ---------------------------------
(***************************************************************************)
(* _start (kernel/boot.c) as far as it sets up the processor: the segment  *)
(* descriptors (gdt.c), the interrupt gates (interrupts.c) and the two     *)
(* interrupt controllers (pic.c).                                          *)
(*                                                                         *)
(* The controllers take their words one by one, and a device may interrupt *)
(* after any of them: each outb of pic_init is a step.                     *)
(***************************************************************************)
EXTENDS Integers, SequencesExt, FiniteSetsExt

KERNEL_CODE_SELECTOR == 40
KERNEL_DATA_SELECTOR == 48
USER_CODE_SELECTOR   == 56
USER_DATA_SELECTOR   == 64
TSS_SELECTOR         == 72
SYSCALL_INTERRUPT    == 128
IRQ0_INTERRUPT       == 32
IRQ1_INTERRUPT       == 33
IRQ8_INTERRUPT       == 40
ICW1_INIT == 16
ICW1_ICW4 == 1
ICW4_8086 == 1

Exception == 0 .. 21                             \* those of the processor
Vector    == (0 .. 47) \cup {SYSCALL_INTERRUPT}  \* the others are never raised
IRQ       == 0 .. 15

VARIABLES
  todo,       \* what is left of this part of _start
  gdtr, tr,   \* loaded: the size of the GDT, the selector of the TSS; 0: none
  rsp0,       \* the TSS names the interrupt stack
  idtr,       \* the gates are loaded
  pic,        \* external: the two 8259 controllers
  enabled,    \* the processor's interrupt flag
  ring        \* the privilege it runs at

tables   == <<gdtr, tr, rsp0, idtr>>
bootVars == <<todo, tables, pic, enabled, ring>>

-----------------------------------------------------------------------------
(* gdt.c                                                                   *)

\* Clearing and filling a descriptor destroys those it overlaps.
Fill(table, d) ==
  {e \in table : e.at + e.size <= d.at \/ d.at + d.size <= e.at} \cup {d}

Segment(offset, kind, user) ==
  [at |-> offset, size |-> 8, kind |-> kind, dpl |-> IF user THEN 3 ELSE 0]

gdt_code_descriptor(table, offset, user) == Fill(table, Segment(offset, "code", user))
gdt_data_descriptor(table, offset, user) == Fill(table, Segment(offset, "data", user))
gdt_tss_descriptor(table, offset) ==
  Fill(table, [at |-> offset, size |-> 16, kind |-> "tss", dpl |-> 0])

gdt ==
  LET code   == gdt_code_descriptor({}, KERNEL_CODE_SELECTOR, FALSE)
      kernel == gdt_data_descriptor(code, KERNEL_DATA_SELECTOR, FALSE)
      user   == gdt_data_descriptor(gdt_code_descriptor(kernel, USER_CODE_SELECTOR, TRUE),
                                    USER_DATA_SELECTOR, TRUE)
  IN  gdt_tss_descriptor(user, TSS_SELECTOR)

\* Mutant: the size as it is before the TSS descriptor, the last, is made.
SizeBefore(table) == Max({d.at + d.size : d \in {e \in table : e.kind # "tss"}})
SizeOf(table) == Max({d.at + d.size : d \in table})

gdt_setup ==
  /\ gdtr' = SizeOf(gdt)
  /\ rsp0' = TRUE
  /\ tr' = TSS_SELECTOR
  /\ UNCHANGED idtr

-----------------------------------------------------------------------------
(* interrupts.c: idt_setup                                                 *)

Gate(fn, type) ==
  [handler |-> fn, type |-> type, dpl |-> 3, selector |-> KERNEL_CODE_SELECTOR]
None == [handler |-> "none", type |-> "none", dpl |-> 0, selector |-> 0]

\* Mutant: interrupts are off while a system call runs.
InterruptGate == Gate("syscall_entry", "interrupt")
TrapGate == Gate("syscall_entry", "trap")

idt ==
  [v \in Vector |->
     CASE v = 0 -> Gate("divide_handler", "trap")
       [] v \in {8, 10, 11, 12, 17, 21} -> Gate("default_handler_ec", "trap")
       [] v = 13 -> Gate("general_protection_handler", "trap")
       [] v = 14 -> Gate("page_fault_handler", "trap")
       [] v \in 1 .. 7 \cup {9, 15, 16, 18, 19, 20} -> Gate("default_handler", "trap")
       [] v = IRQ1_INTERRUPT -> Gate("keyboard_handler", "trap")
       [] v = SYSCALL_INTERRUPT -> TrapGate
       [] v \in Vector \ (Exception \cup {IRQ1_INTERRUPT, SYSCALL_INTERRUPT}) -> None]

idt_setup ==
  /\ idtr' = TRUE
  /\ UNCHANGED <<gdtr, tr, rsp0>>

-----------------------------------------------------------------------------
(* pic.c, and the controllers (external): command ICW1 makes a controller  *)
(* forget its mask and take the next three data words as ICW2 (where its   *)
(* vectors start), ICW3 and ICW4; later ones are masks.                    *)

Bit(mask, n) == (mask \div 2 ^ n) % 2

Taken(c, port, val) ==
  IF port = "command"
  THEN IF Bit(val, 4) = 1 THEN [c EXCEPT !.icw = 2, !.mask = 0] ELSE c
  ELSE CASE c.icw = 2 -> [c EXCEPT !.base = val, !.icw = 3]
         [] c.icw = 3 -> [c EXCEPT !.icw = 4]
         [] c.icw = 4 -> [c EXCEPT !.icw = 0]
         [] c.icw = 0 -> [c EXCEPT !.mask = val]

outb(p, port, val) == pic' = [pic EXCEPT ![p] = Taken(@, port, val)]

\* Mutant: interrupts are enabled before the IRQs are masked.
EnabledEarly(setup, masks) == setup \o <<<<"sti">>>> \o masks
EnabledLast(setup, masks) == setup \o masks \o <<<<"sti">>>>

pic_init ==
  EnabledLast(
    <<<<"outb", 1, "command", ICW1_INIT + ICW1_ICW4>>, <<"outb", 2, "command", ICW1_INIT + ICW1_ICW4>>,
      <<"outb", 1, "data", IRQ0_INTERRUPT>>, <<"outb", 2, "data", IRQ8_INTERRUPT>>,
      <<"outb", 1, "data", 4>>, <<"outb", 2, "data", 2>>,
      <<"outb", 1, "data", ICW4_8086>>, <<"outb", 2, "data", ICW4_8086>>>>,
    <<<<"outb", 1, "data", 255>>, <<"outb", 2, "data", 255>>>>)

pic_unmask_irq(num) ==
  LET p == IF num < 8 THEN 1 ELSE 2
      n == num % 8
  IN  outb(p, "data", pic[p].mask - Bit(pic[p].mask, n) * 2 ^ n)

-----------------------------------------------------------------------------
\* The boot loader hands over with interrupts off and all IRQs masked.
BootInit ==
  /\ todo = <<<<"gdt_setup">>, <<"idt_setup">>>> \o pic_init \o <<<<"unmask", 1>>>>
  /\ gdtr = 0 /\ tr = 0 /\ rsp0 = FALSE /\ idtr = FALSE
  /\ pic = [p \in 1 .. 2 |-> [icw |-> 0, base |-> 0, mask |-> 255]]
  /\ enabled = FALSE
  /\ ring = 0

BootStep ==
  /\ todo # <<>>
  /\ todo' = Tail(todo)
  /\ LET call == Head(todo) IN
     \/ call[1] = "gdt_setup" /\ gdt_setup /\ UNCHANGED <<pic, enabled>>
     \/ call[1] = "idt_setup" /\ idt_setup /\ UNCHANGED <<pic, enabled>>
     \/ call[1] = "outb" /\ outb(call[2], call[3], call[4]) /\ UNCHANGED <<tables, enabled>>
     \/ call[1] = "sti" /\ enabled' = TRUE /\ UNCHANGED <<tables, pic>>
     \/ call[1] = "unmask" /\ pic_unmask_irq(call[2]) /\ UNCHANGED <<tables, enabled>>
  /\ UNCHANGED ring

-----------------------------------------------------------------------------
(* Properties.                                                             *)

Loaded(selector, kind, dpl) ==
  \E d \in gdt : d.at = selector /\ d.kind = kind /\ d.dpl = dpl /\ d.at + d.size <= gdtr

\* The processor finds a handler for vector v: coming from user mode it also
\* needs a stack.
Served(v) ==
  /\ idtr
  /\ v \in Vector /\ idt[v] # None
  /\ Loaded(idt[v].selector, "code", 0)
  /\ ring = 3 => Loaded(tr, "tss", 0) /\ rsp0

\* An IRQ that would be delivered if interrupts were enabled.
Unmasked(irq) ==
  LET p == pic[IF irq < 8 THEN 1 ELSE 2] IN
  /\ p.icw = 0 /\ Bit(p.mask, irq % 8) = 0
  /\ irq >= 8 => Bit(pic[1].mask, 2) = 0

VectorOf(irq) == pic[IF irq < 8 THEN 1 ELSE 2].base + (irq % 8)
WithErrorCode == {8, 10, 11, 12, 13, 14, 17, 21}
TakesErrorCode == {"default_handler_ec", "general_protection_handler", "page_fault_handler"}

\* Whatever interrupts the processor, from the first sti on, is served by the
\* handler meant for it, on a stack: of the IRQs only the keyboard's has one
\* (boot.c:115-118, pic.c:21-57, interrupts.c:458-493, gdt.c:126-158).
InterruptsServed ==
  /\ \A irq \in IRQ : enabled /\ Unmasked(irq) =>
       irq = 1 /\ Served(VectorOf(irq)) /\ idt[VectorOf(irq)].handler = "keyboard_handler"
  /\ ring = 3 =>
       /\ \A v \in Exception :
            Served(v) /\ (v \in WithErrorCode <=> idt[v].handler \in TakesErrorCode)
       /\ Served(SYSCALL_INTERRUPT) /\ idt[SYSCALL_INTERRUPT].dpl = 3
       /\ Loaded(USER_CODE_SELECTOR, "code", 3) /\ Loaded(USER_DATA_SELECTOR, "data", 3)
=============================================================================
