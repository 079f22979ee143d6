------------------------------ MODULE FsThunks ------------------------------
(***************************************************************************)
(* The 16-bit entry points FS_* of a file system driver, as fsh32.lib      *)
(* builds them with the macros thunk_fs and nothunk_fs of                  *)
(* fsh32/fs_thunks.asm.  The kernel pushes the parameters of an entry      *)
(* point one after the other and calls it; the entry point passes the      *)
(* flat address of the whole block to the 32-bit routine FS32_* and, by    *)
(* the Pascal convention, takes the block off the stack when it returns.   *)
(* A 32-bit routine lies in pageable segments: while it runs, a page fault *)
(* may make the kernel call the swapper's entry points on the same stack.  *)
(*                                                                         *)
(* The stack is a sequence of 16-bit words; the top is the last one.  A    *)
(* word is a record of what it holds, for which call, and its value.         *)
(***************************************************************************)
EXTENDS Integers, FiniteSets, SequencesExt

Parms == INSTANCE FsdParms

CONSTANTS
    Entries,            \* the entry points the kernel calls
    PagingEntries,      \* those it calls while a page fault is served
    MaxDepth            \* bound on the calls open at the same time

VARIABLES
    calls,      \* the open calls: entry point and what the kernel left when it made the call
    pc,         \* where the innermost call stands
    stack, ds, es, bp

vars == <<calls, pc, stack, ds, es, bp>>

\* Selectors, told from the offsets of the stack by their sign.
FlatDS == -1
KernelDS == -2
KernelES == -3

\* What the uses of thunk_fs say the entry point takes off the stack, in bytes.
ThunkSize ==
    [ ALLOCATEPAGESPACE |-> 16, CHDIR |-> 16, CHGFILEPTR |-> 16, CLOSE |-> 12,
      COMMIT |-> 12, DELETE |-> 14, DOPAGEIO |-> 12, EXIT |-> 6,
      FILEATTRIBUTE |-> 14, FILEINFO |-> 20, FINDCLOSE |-> 8, FINDFIRST |-> 38,
      FINDFROMNAME |-> 30, FINDNEXT |-> 22, FLUSHBUF |-> 4, FSCTL |-> 28,
      FSINFO |-> 12, IOCTL |-> 32, MKDIR |-> 20, MOUNT |-> 16, MOVE |-> 22,
      NEWSIZE |-> 14, OPENCREATE |-> 42, OPENPAGEFILE |-> 30, PATHINFO |-> 24,
      READ |-> 18, RMDIR |-> 14, SHUTDOWN |-> 6, WRITE |-> 18 ]

\* The same for nothunk_fs.  These blocks are declared nowhere in the source.
NoThunkSize ==
    [ ATTACH |-> 22, CANCELLOCKREQUEST |-> 12, COPY |-> 14, FILEIO |-> 20,
      FILELOCKS |-> 24, FINDNOTIFYCLOSE |-> 2, FINDNOTIFYFIRST |-> 36,
      FINDNOTIFYNEXT |-> 18, NMPIPE |-> 22, PROCESSNAME |-> 4, SETSWAP |-> 8 ]

Thunked == DOMAIN ThunkSize
NotThunked == DOMAIN NoThunkSize

ASSUME EntriesAssumption ==
    /\ Entries \subseteq Thunked \cup NotThunked
    /\ PagingEntries \subseteq Thunked
    /\ MaxDepth \in Nat \ {0}

----------------------------------------------------------------------------
Word(holds, call, value) == [holds |-> holds, call |-> call, value |-> value]
Copies(w, n) == [i \in 1 .. n |-> w]

\* The words of a packed structure: one for each field, and one more for each
\* that is not a Short.
WordsOf(parms) == Len(parms) + Cardinality({i \in DOMAIN parms : parms[i] # Parms!Short})

\* The words of the block the kernel passes, where it is declared.
BlockWords(e) ==
    IF e \in Thunked THEN WordsOf(Parms!Layout[e]) ELSE NoThunkSize[e] \div 2

\* The block of call n: the first field is pushed last and lies lowest.
Block(e, n) ==
    [i \in 1 .. BlockWords(e) |-> Word("parm", n, BlockWords(e) - i)]

Depth == Len(calls)
Current == calls[Depth]
Popped(words) == SubSeq(stack, 1, Len(stack) - words)

Init ==
    /\ calls = <<>> /\ pc = "kernel"
    /\ stack = <<>> /\ ds = KernelDS /\ es = KernelES /\ bp = 0

\* The kernel pushes the block and calls the 16-bit entry point.
CallEntry(e) ==
    /\ calls' = Append(calls, [entry |-> e, found |-> stack, ds |-> ds, es |-> es,
                               bp |-> bp, resume |-> pc])
    /\ stack' = stack \o Block(e, Depth + 1) \o Copies(Word("far16", Depth + 1, 0), 2)
    /\ pc' = "entry"
    /\ UNCHANGED <<ds, es, bp>>

Request ==
    /\ pc = "kernel"
    /\ \E e \in Entries : CallEntry(e)

PageFault ==
    /\ pc = "handling" /\ Depth < MaxDepth
    /\ \E e \in PagingEntries : CallEntry(e)

\* thunk_fs up to its call32: the frame, the segments, and the address bp + 6
\* of the block pushed for the 32-bit routine.
thunk_fs ==
    /\ pc = "entry" /\ Current.entry \in Thunked
    /\ bp' = Len(stack) + 1
    /\ stack' = stack \o <<Word("bp", Depth, bp), Word("ds", Depth, ds), Word("es", Depth, es)>>
                      \o Copies(Word("address", Depth, bp' - 3), 2)
                      \o Copies(Word("far32", Depth, 0), 4)
    /\ ds' = FlatDS /\ es' = FlatDS
    /\ pc' = "handling"
    /\ UNCHANGED calls

\* FS32_<name> ends: far32 Pascal, so that it takes its one argument with it.
handler_returns ==
    /\ pc = "handling"
    /\ stack' = Popped(4 + 2)
    /\ pc' = "leave"
    /\ UNCHANGED <<calls, ds, es, bp>>

\* pop es, pop ds, leave and retf: what thunk_fs does after its call32.
leave ==
    /\ pc = "leave"
    /\ es' = Last(stack).value
    /\ ds' = Last(Popped(1)).value
    /\ bp' = stack[bp].value
    /\ stack' = SubSeq(stack, 1, bp - 1 - 2 - (ThunkSize[Current.entry] \div 2))
    /\ pc' = "returned"
    /\ UNCHANGED calls

nothunk_fs ==
    /\ pc = "entry" /\ Current.entry \in NotThunked
    /\ stack' = Popped(2 + (NoThunkSize[Current.entry] \div 2))
    /\ pc' = "returned"
    /\ UNCHANGED <<calls, ds, es, bp>>

\* The kernel goes on where it called the entry point.
Resume ==
    /\ pc = "returned"
    /\ pc' = Current.resume
    /\ calls' = Front(calls)
    /\ UNCHANGED <<stack, ds, es, bp>>

Next == Request \/ PageFault \/ thunk_fs \/ handler_returns \/ leave \/ nothunk_fs \/ Resume

Spec == Init /\ [][Next]_vars

----------------------------------------------------------------------------
(* Properties *)

\* An entry point that has returned leaves the kernel's stack, its frame and
\* its segments as they were before the first parameter was pushed: its retf
\* takes exactly the block that fsd32.h declares, and nothing pushed is lost.
CallIsTransparent ==
    pc = "returned" =>
        /\ stack = Current.found
        /\ ds = Current.ds /\ es = Current.es /\ bp = Current.bp

\* The 32-bit routine gets the address of the first field of the block of its
\* own call, not of the frame or of the call that a page fault interrupted.
ReceivesItsBlock ==
    (pc = "handling" /\ Current.entry \in Thunked) =>
        LET address == Last(Popped(4)).value
        IN  stack[address] = Word("parm", Depth, 0)

=============================================================================
