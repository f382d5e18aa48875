-------------------------------- MODULE Format --------------------------------
(***************************************************************************)
(* Formatted output: kprintf of the kernel (kernel/kprint.c) and printf of *)
(* the user library (stdlib/io.c), which prints through the system call.   *)
(* Characters are their codes, and what a call prints is a sequence of     *)
(* them; what becomes of it on the screen is module Terminal.              *)
(*                                                                         *)
(* A format that ends in a single %, or has more directives than           *)
(* arguments, is left out: the code then reads what lies behind them.  The *)
(* largest number, 2^64 - 1, is less than 10^Length.                       *)
(***************************************************************************)
EXTENDS Integers, SequencesExt, FiniteSets

CONSTANTS
  Length,    \* UINT64_LENGTH, HEX64_LENGTH: room for the digits of a number
  Values,    \* model bound: the numbers printed
  Prints     \* model bound: calls, as pairs of a format and its arguments

STD_OUT   == 1
STD_ERROR == 2
Percent   == 37
Directive == [c |-> 99, d |-> 100, p |-> 112, s |-> 115, x |-> 120]
Unknown   == <<63, 63, 63, 63>>       \* "????"
Prefix    == <<48, 120>>              \* "0x"

-----------------------------------------------------------------------------
(* Numbers.  The buffer is filled from its end.                            *)

\* Mutant: the letters are taken to follow the digits.
CodeAfter(remainder) == remainder + 48
DigitCode(remainder) == IF remainder > 9 THEN remainder + 39 + 48 ELSE remainder + 48

Digits(value, base) ==
  LET str[v \in Nat] ==
        (IF v \div base # 0 THEN str[v \div base] ELSE <<>>) \o <<DigitCode(v % base)>>
  IN  str[value]

-----------------------------------------------------------------------------
(* The loop over a format: a sequence of directives, each with its         *)
(* argument; another character is printed as by %c.                        *)

\* Mutant: every directive takes an argument.
AlwaysTakes(code) == TRUE
Takes(code) == code \in Range(Directive)

\* One turn of "while (*pos)": where pos is, the next argument, and what the
\* turns so far print.
Turn(s, format, args) ==
  LET prints(n, taken, piece) == [pos |-> s.pos + n, arg |-> s.arg + taken, out |-> Append(s.out, piece)]
      code == format[s.pos + 1]
  IN  IF s.pos > Len(format) THEN s
      ELSE IF format[s.pos] # Percent THEN prints(1, 0, <<Directive.c, format[s.pos]>>)
      ELSE IF Takes(code) THEN prints(2, 1, <<code, args[s.arg]>>)
      ELSE prints(2, 0, <<code, 0>>)

Turns(format, args) ==
  LET turn[k \in 0 .. Len(format)] ==
        IF k = 0 THEN [pos |-> 1, arg |-> 1, out |-> <<>>] ELSE Turn(turn[k - 1], format, args)
  IN  turn
Pieces(format, args) == Turns(format, args)[Len(format)].out

-----------------------------------------------------------------------------
(* kprint.c                                                                *)

term_write(str) == str
kprint_c(c)     == term_write(<<c>>)
kprint_s(str)   == FlattenSeq([n \in DOMAIN str |-> kprint_c(str[n])])
kprint_d(value) == term_write(Digits(value, 10))
kprint_x(value) == term_write(Digits(value, 16))
kprint_p(ptr)   == term_write(Prefix) \o kprint_x(ptr)

kprint(code, arg) ==
  CASE code = Percent     -> kprint_c(Percent)
    [] code = Directive.c -> kprint_c(arg)
    [] code = Directive.s -> kprint_s(arg)
    [] code = Directive.d -> kprint_d(arg)
    [] code = Directive.x -> kprint_x(arg)
    [] code = Directive.p -> kprint_p(arg)
    [] code \notin Range(Directive) \cup {Percent} -> kprint_s(Unknown)

kprintf(format, args) ==
  LET out == Pieces(format, args) IN FlattenSeq([k \in DOMAIN out |-> kprint(out[k][1], out[k][2])])

-----------------------------------------------------------------------------
(* io.c: a system call for each piece                                      *)

SYS_write(fd, str) ==
  IF fd \in {STD_OUT, STD_ERROR}
  THEN FlattenSeq([n \in DOMAIN str |-> kprintf(<<Percent, Directive.c>>, <<str[n]>>)])
  ELSE <<>>
write(str)     == SYS_write(STD_OUT, str)
print_c(c)     == write(<<c>>)
print_s(str)   == FlattenSeq([n \in DOMAIN str |-> print_c(str[n])])
print_d(value) == write(Digits(value, 10))
print_x(value) == write(Digits(value, 16))
print_p(ptr)   == print_s(Prefix) \o print_x(ptr)

print(code, arg) ==
  CASE code = Percent     -> print_c(Percent)
    [] code = Directive.c -> print_c(arg)
    [] code = Directive.s -> print_s(arg)
    [] code = Directive.d -> print_d(arg)
    [] code = Directive.x -> print_x(arg)
    [] code = Directive.p -> print_p(arg)
    [] code \notin Range(Directive) \cup {Percent} -> print_s(Unknown)

printf(format, args) ==
  LET out == Pieces(format, args) IN FlattenSeq([k \in DOMAIN out |-> print(out[k][1], out[k][2])])

-----------------------------------------------------------------------------
(* Properties.                                                             *)

Lowercase == <<48, 49, 50, 51, 52, 53, 54, 55, 56, 57, 97, 98, 99, 100, 101, 102>>
Worth(c) == CHOOSE digit \in 0 .. 15 : Lowercase[digit + 1] = c
Readings(str, base) ==
  LET read[n \in 0 .. Len(str)] == IF n = 0 THEN 0 ELSE read[n - 1] * base + Worth(str[n])
  IN  read
ReadBack(str, base) == Readings(str, base)[Len(str)]

Numeral(str, value, base) ==
  /\ Range(str) \subseteq Range(Lowercase)
  /\ ReadBack(str, base) = value
  /\ Len(str) <= Length
  /\ Len(str) > 1 => str[1] # Lowercase[1]
Printed(code, value) ==
  {kprintf(<<Percent, code>>, <<value>>), printf(<<Percent, code>>, <<value>>)}
Unreadable ==
  {v \in Values :
     \/ \E str \in Printed(Directive.d, v) : ~Numeral(str, v, 10)
     \/ \E str \in Printed(Directive.x, v) : ~Numeral(str, v, 16)}

\* A number is printed "in decimal notation" and "in lowercase hexadecimal
\* notation" (kprint.c:41, 69; io.c:48, 67): read in that notation it is the
\* number, it has no leading zeros, and its digits fit in the buffer.
NumbersReadBack == Unreadable = {}

\* The positions of the % that begin a directive: those behind an even number
\* of others.
Begins(format) ==
  {p \in DOMAIN format :
     /\ format[p] = Percent
     /\ \E q \in 0 .. p - 1 :
          /\ q > 0 => format[q] # Percent
          /\ \A r \in q + 1 .. p : format[r] = Percent
          /\ (p - 1 - q) % 2 = 0}

Argument(format, p) ==
  1 + Cardinality({q \in Begins(format) : q < p /\ format[q + 1] \in Range(Directive)})

Meant(format, args) ==
  LET B == Begins(format)
  IN  FlattenSeq([p \in DOMAIN format |->
        IF p \in B
        THEN kprint(format[p + 1],
                    IF format[p + 1] \in Range(Directive) THEN args[Argument(format, p)] ELSE 0)
        ELSE IF p - 1 \in B THEN <<>> ELSE <<format[p]>>])

\* There is an argument of the right type for each directive that takes one.
Answered(format, args) ==
  \A p \in Begins(format) :
    /\ p < Len(format)
    /\ format[p + 1] \in Range(Directive) =>
         /\ Argument(format, p) \in DOMAIN args
         /\ args[Argument(format, p)] \in IF format[p + 1] = Directive.s THEN Seq(Nat) ELSE Nat

PowersOfTen ==
  LET power[n \in 0 .. Length] == IF n = 0 THEN 1 ELSE 10 * power[n - 1]
  IN  power

ASSUME FormatAssumption ==
  /\ Length \in Nat \ {0}
  /\ Values \subseteq Nat /\ \A v \in Values : v < PowersOfTen[Length]
  /\ \A call \in Prints : call[1] \in Seq(Nat) /\ Answered(call[1], call[2])

Misprinted ==
  {call \in Prints :
     \E printed \in {kprintf(call[1], call[2]), printf(call[1], call[2])} :
       printed # Meant(call[1], call[2])}

\* Each directive is replaced by its own argument, whatever stands around it
\* (%% among them), and what a program prints arrives as if the kernel had
\* printed it (kprint.c:106-150, io.c:97-144, interrupts.c:246-260).
PrintsAsMeant == Misprinted = {}
=============================================================================
