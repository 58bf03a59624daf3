------------------------------ MODULE Console ------------------------------
(***************************************************************************)
(* The text console (drivers/vga.c): the cursor, which printc moves in     *)
(* several statements without a lock, and printf, which goes through a     *)
(* format with a lock that keeps other calls of printf out, but not        *)
(* keyboard_handler, which calls printc in the interrupt.                  *)
(*                                                                         *)
(* printc is there twice: as steps, for code that an interrupt can abandon *)
(* in the middle, and whole, for handlers.  Of a character only matters    *)
(* whether it is a newline; of the screen, where it is written to.         *)
(***************************************************************************)
EXTENDS Integers, Sequences, FiniteSets

CONSTANTS
  VGA_WIDTH, VGA_HEIGHT,   \* 80, 25
  PageCells,               \* cells in the page at VGA_TEXT_BUFFER_BASE: 2048
  MaxChars,                \* bound on the characters of a string argument
  Ints,                    \* what %d is given
  LongDigits               \* the digits printlong prints: 16

\* The page ends within the first line below the screen.
ASSUME ConsoleAssumption ==
  /\ VGA_WIDTH \in Nat \ {0, 1} /\ VGA_HEIGHT \in Nat \ {0} /\ PageCells \in Nat
  /\ VGA_WIDTH * VGA_HEIGHT < PageCells
  /\ PageCells < VGA_WIDTH * VGA_HEIGHT + VGA_WIDTH
  /\ MaxChars \in Nat /\ Ints \subseteq Nat /\ LongDigits \in Nat

VARIABLES
  cursor,      \* [x, y]
  print_pc,    \* the next statement of the printc kernel_start is in, or "loop"
  format,      \* what its printf has left of the format
  text,        \* and of the argument it is printing
  settled,     \* no printc has been left half done since the last whole one
  outside      \* history: a character has been written outside the page

consoleVars == <<cursor, print_pc, format, text, settled, outside>>

Chars      == {"c", "newline"}
Specifiers == {"%d", "%s", "%lu", "%l", "%?"}   \* the last two: as in "%lx" and "%r"
Formats    == Seq(Chars \cup Specifiers)

\* What a string argument can be.
Texts == UNION {[1 .. n -> Chars] : n \in 0 .. MaxChars}

OnScreen(c) == c.x \in 0 .. VGA_WIDTH - 1 /\ c.y \in 0 .. VGA_HEIGHT - 1

\* After console_init and what is printed up to apic_init.
ConsoleInit ==
  /\ cursor \in [x : 0 .. VGA_WIDTH - 1, y : 0 .. VGA_HEIGHT - 1]
  /\ print_pc = "loop" /\ format = <<>> /\ text = <<>>
  /\ settled = TRUE /\ outside = FALSE

Beyond(c) == c.y * VGA_WIDTH + c.x >= PageCells

\* Mutant of Below: the line below the last one counts as the screen's.
BelowByOne(c) == c.y > VGA_HEIGHT

\* printc has to scroll.
Below(c) == c.y >= VGA_HEIGHT

-----------------------------------------------------------------------------
(* printf and printc, as the statements of kernel_start *)

Statement(from, to, c) ==
  /\ print_pc = from /\ print_pc' = to
  /\ cursor' = c
  /\ settled' = (to = "loop")

\* printc up to its first write.
Begin(char) ==
  \/ char = "newline" /\ Statement("loop", "newline", [cursor EXCEPT !.x = 0]) /\ UNCHANGED outside
  \/ char = "c" /\ Statement("loop", "x", cursor) /\ outside' = (outside \/ Beyond(cursor))

\* The rest of printc.
printcStep ==
  /\ \/ Statement("newline", "check", [cursor EXCEPT !.y = @ + 1])
     \/ Statement("x", "y", [cursor EXCEPT !.x = @ + 1])
     \/ Statement("y", "mod", [cursor EXCEPT !.y = @ + cursor.x \div VGA_WIDTH])
     \/ Statement("mod", "check", [cursor EXCEPT !.x = @ % VGA_WIDTH])
     \/ ~Below(cursor) /\ Statement("check", "loop", cursor)
     \/ Below(cursor) /\ Statement("check", "scroll", [cursor EXCEPT !.x = 0])
     \/ Statement("scroll", "loop", [cursor EXCEPT !.y = VGA_HEIGHT - 1])
  /\ UNCHANGED <<format, text, outside>>

Plain(n) == [i \in 1 .. n |-> "c"]

\* What printint prints of an int: cut_num_str is behind the digit written last, so
\* the first digit is missing.
printint(d) == Plain(Cardinality({k \in 1 .. 9 : 10 ^ k <= d}))

\* Mutant of Arguments: printf does not know %lu.
ArgumentsNoLong(specifier) ==
  CASE specifier = "%s" -> Texts
    [] specifier = "%d" -> {printint(d) : d \in Ints}
    [] OTHER -> {}

\* What printf prints for a specifier.  For "%l" before any other character its loop
\* does not advance, and for any other specifier it calls printf, which waits for
\* the lock this call holds: nothing is printed any more.
Arguments(specifier) ==
  CASE specifier = "%s"  -> Texts
    [] specifier = "%d"  -> {printint(d) : d \in Ints}
    [] specifier = "%lu" -> {Plain(2 + LongDigits)}
    [] OTHER             -> {}

\* The loop of printf, and printstr's.
printfStep ==
  \/ text # <<>> /\ Begin(Head(text)) /\ text' = Tail(text) /\ UNCHANGED format
  \/ /\ text = <<>> /\ format # <<>> /\ Head(format) \in Chars
     /\ Begin(Head(format))
     /\ format' = Tail(format) /\ UNCHANGED text
  \/ /\ print_pc = "loop" /\ text = <<>> /\ format # <<>> /\ Head(format) \in Specifiers
     /\ text' \in Arguments(Head(format))
     /\ format' = Tail(format)
     /\ UNCHANGED <<cursor, print_pc, settled, outside>>
  \/ printcStep

\* printf has printed everything.
Printed == print_pc = "loop" /\ text = <<>> /\ format = <<>>

-----------------------------------------------------------------------------
(* printc, whole *)

Moved(c, char) ==
  IF char = "newline" THEN [x |-> 0, y |-> c.y + 1]
  ELSE [x |-> (c.x + 1) % VGA_WIDTH, y |-> c.y + (c.x + 1) \div VGA_WIDTH]

Scrolled(c) == IF Below(c) THEN [x |-> 0, y |-> VGA_HEIGHT - 1] ELSE c

\* A handler prints a character.
printc(char) ==
  /\ cursor' = Scrolled(Moved(cursor, char))
  /\ outside' = (outside \/ (char # "newline" /\ Beyond(cursor)))
  /\ settled' = TRUE
  /\ UNCHANGED <<print_pc, format, text>>

\* A handler prints a newline and n characters, less than a line.
printLine(n) ==
  /\ cursor' = [Scrolled(Moved(cursor, "newline")) EXCEPT !.x = n]
  /\ settled' = TRUE
  /\ UNCHANGED <<print_pc, format, text, outside>>

-----------------------------------------------------------------------------
(* Properties *)

\* A whole printc leaves the cursor on the screen, also when the one before it was
\* abandoned between any two of its statements.
CursorReturnsToScreen == settled => OnScreen(cursor)

=============================================================================
