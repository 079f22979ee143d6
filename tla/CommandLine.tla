---------------------------- MODULE CommandLine ----------------------------
(***************************************************************************)
(* The command line of a DEVICE or BASEDEV statement as the init routines  *)
(* read it: a switch follows a minus or a slash, wherever that stands.     *)
(***************************************************************************)
EXTENDS NumberStrings, StringRoutines

CONSTANT USHRT_MAX   \* 2^16 - 1 in the program
ASSUME ShortAssumption == USHRT_MAX \in Nat

Slash == 47
QuietSwitch == <<81>>                                             \* Q
IrqSwitch == <<73, 82, 81, 95, 76, 69, 86, 69, 76, 58>>           \* IRQ_LEVEL:

StartsWith(s, p, prefix) == \A i \in DOMAIN prefix : CharAt(s, p + i - 1) = prefix[i]

NothingFound == [quiet |-> FALSE, irq_ok |-> FALSE, irq_level |-> 0]

(* The body of the loop, behind the minus or slash in front of offset at:  *)
(* where the search goes on, and what has been found.  The driver knows    *)
(* some of the switches; s is the line in capital letters.                 *)
Switch(s, known, at, found) ==
  LET number == strtoul(From(s, at + Len(IrqSwitch)), 0)
  IN IF QuietSwitch \in known /\ StartsWith(s, at, QuietSwitch)
       THEN [p |-> at, found |-> [found EXCEPT !.quiet = TRUE]]
     ELSE IF IrqSwitch \in known /\ StartsWith(s, at, IrqSwitch)
       THEN [p |-> at + Len(IrqSwitch) + number.end,
             found |-> [found EXCEPT !.irq_ok = TRUE,
                                     !.irq_level = number.value % (USHRT_MAX + 1)]]
     ELSE [p |-> at, found |-> found]

Search(s, known, loop) ==
  LET next == strpbrk(From(s, loop.p), {Minus, Slash})
  IN IF next = Null THEN loop ELSE Switch(s, known, loop.p + next + 1, loop.found)

(* The loop after k searches.  Each goes on behind what it found, so that  *)
(* the last one finds nothing.                                             *)
Searched(s, known) ==
  LET loop[k \in 0..Len(s)] ==
        IF k = 0 THEN [p |-> 0, found |-> NothingFound] ELSE Search(s, known, loop[k - 1])
  IN loop
Switches(s, known) == Searched(s, known)[Len(s)].found

mwdd32_switches(line) == Switches(strupr(line), {QuietSwitch})
dev32_switches(line) == Switches(strupr(line), {QuietSwitch})
sec32_switches(line) == Switches(strupr(line), {QuietSwitch})

(* The line is read as it stands in CONFIG.SYS.                            *)
drv32_switches_NotRaised(line) == Switches(line, {QuietSwitch, IrqSwitch})
drv32_switches(line) == Switches(strupr(line), {QuietSwitch, IrqSwitch})
=============================================================================
