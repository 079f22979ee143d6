----------------------------- MODULE KernelCalls -----------------------------
(***************************************************************************)
(* The way back: while a 32-bit routine of a file system driver runs, it   *)
(* calls the kernel through the thunks DevHlp32_* and fsh32_*.  A thunk    *)
(* saves registers, loads those in which the kernel expects the parameters *)
(* (or, for fsh32_*, copies the parameters into a 16-bit Pascal block),    *)
(* calls the kernel, stores its answers through the caller's pointers and  *)
(* returns a code.  The calls lie on the stack of FsThunks, in the middle  *)
(* of the FS_* entry points, and a page fault may interrupt a thunk.       *)
(*                                                                         *)
(* A thunk is described by a record; the actions are the parts that all of *)
(* them have in common.  Thunks with more than one kind of kernel call are *)
(* in GdtSelectors and SaveMessage.                                        *)
(***************************************************************************)
EXTENDS FsThunks

Interface == INSTANCE DevHelpInterface

CONSTANT Routines        \* the thunks that are called

VARIABLE regs            \* the general registers: pairs <<low word, high word>>

allVars == <<vars, regs>>

Registers == {"eax", "ebx", "ecx", "edx", "esi", "edi", "dh"}
CalleeSaved == {"ebx", "esi", "edi"}   \* by the conventions _System and _Optlink

\* More selectors: of the stack, of the system anchor segment, and one that
\* the caller hands over.
StackSel == -4
AnchorSel == -5
DriverSel == -6

----------------------------------------------------------------------------
(* Descriptions.  Offsets count in bytes: from bp in a thunk with a frame,  *)
(* from the top of the stack in one without.                                *)

In(reg, off) == [reg |-> reg, from |-> "stack", off |-> off]        \* mov reg, [ebp + off]
InLow(reg, off) == [reg |-> reg, from |-> "stack16", off |-> off]   \* its low half only
InReg(reg, r) == [reg |-> reg, from |-> r, off |-> 0]               \* mov reg, r

\* A word of a block: a parameter's, a half of a register, half a far pointer
\* to a local variable, or a number.
Item(from, reg, off) == [from |-> from, reg |-> reg, off |-> off]
Arg(off) == Item("arg", "", off)
High(r) == Item("high", r, 0)
Low(r) == Item("low", r, 0)
SS == Item("ss", "", 0)
Local(off) == Item("local", "", off)
Size(n) == Item("size", "", n)

NoFrame == -1

\* local: words of local variables.  A store is a pair: the offset of the
\* pointer, and that of the local, 0 for a register.
Thunk(local, pushes, loads, pops) ==
    [local |-> local, pushes |-> pushes,
     loads |-> loads, block |-> <<>>, pops |-> pops,
     ds |-> FlatDS, es |-> FlatDS, via |-> "ds",
     stores |-> << <<>> >>, null |-> "fault", code |-> "eax", result |-> "carry"]

DevHlp(local, pushes, loads, pops, stores, result) ==
    [Thunk(local, pushes, loads, pops) EXCEPT !.stores = <<stores>>, !.result = result]

Fsh(local, block, stores, result) ==
    [Thunk(local, <<"es", "ebx">>, <<>>, <<"ebx", "es">>) EXCEPT
        !.block = block, !.via = "far", !.stores = <<stores>>,
        !.code = "ax", !.result = result]

VMAlloc == DevHlp(0, <<"ebx", "edi">>,
    <<In("ecx", 8), In("edi", 12), In("eax", 16)>>, <<"edi", "ebx">>,
    << <<20, 0>> >>, "carry")
VMFree == DevHlp(NoFrame, <<>>, <<>>, <<>>, <<>>, "raw")
\* A mutant: EDI and ESI are popped in the order in which they were pushed.
VMLock_PopsInOrder == DevHlp(0, <<"ebx", "esi", "edi">>,
    <<In("ebx", 12), In("ecx", 16), In("edi", 20), In("esi", 24), In("eax", 8)>>,
    <<"esi", "edi", "ebx">>, << <<28, 0>> >>, "carry")
VMLock == DevHlp(0, <<"ebx", "esi", "edi">>,
    <<In("ebx", 12), In("ecx", 16), In("edi", 20), In("esi", 24), In("eax", 8)>>,
    <<"edi", "esi", "ebx">>, << <<28, 0>> >>, "carry")
VMUnlock == DevHlp(0, <<"esi">>, <<In("esi", 8)>>, <<"esi">>, <<>>, "carry")
VirtToLin == DevHlp(0, <<"esi", "edi">>,
    <<InLow("esi", 8), InLow("eax", 10)>>, <<"edi", "esi">>, << <<12, 0>> >>, "carry")
VerifyAccess == [DevHlp(0, <<"ebx", "ecx", "edi">>,
    <<InLow("edi", 8), InLow("eax", 10), InLow("ecx", 12), InLow("dh", 16)>>,
    <<"edi", "ecx", "ebx">>, <<>>, "carry16") EXCEPT !.code = "ax"]
LinToPageList == [DevHlp(0, <<"ebx", "edi">>,
    <<In("eax", 8), In("ecx", 12), In("edi", 16)>>, <<"edi", "ebx">>,
    << <<20, 0>> >>, "carry") EXCEPT !.null = "skipped"]
PageListToLin == [DevHlp(0, <<"edi", "ebx">>,
    <<In("ecx", 8), In("edi", 12)>>, <<"ebx", "edi">>,
    << <<16, 0>> >>, "carry") EXCEPT !.null = "refused"]
GetDosVar == DevHlp(0, <<"ebx", "esi", "edi">>,
    <<In("eax", 8), In("ecx", 16)>>, <<"edi", "esi", "ebx">>, << <<12, 0>> >>, "carry")
\* Two conversions, of selectors that the system anchor segment holds.
GetInfoSegs == [Thunk(0, <<"es", "ebx", "esi", "edi">>, <<>>,
    <<"edi", "esi", "ebx", "es">>) EXCEPT
        !.es = AnchorSel, !.stores = << << <<8, 0>> >>, << <<12, 0>> >> >>]
Security == DevHlp(0, <<"ebx">>, <<In("ecx", 12), In("eax", 8)>>,
    <<"ebx">>, <<>>, "zero")
AllocOneGDTSelector == [DevHlp(1, <<"es", "ebx", "esi", "edi">>, <<>>,
    <<"edi", "esi", "ebx", "es">>, << <<8, 2>> >>, "carry") EXCEPT !.es = StackSel]
FreeGDTSelector == DevHlp(NoFrame, <<>>, <<>>, <<>>, <<>>, "carry")
AttachToDD == [DevHlp(NoFrame, <<"ds", "ebx", "edi">>,
    <<InReg("ebx", "eax"), InReg("edi", "edx")>>, <<"edi", "ebx", "ds">>, <<>>, "carry")
    EXCEPT !.ds = StackSel, !.via = "es"]
setIRQ == [DevHlp(0, <<"ds", "ebx">>,
    <<InLow("eax", 8), InLow("ebx", 12), InLow("dh", 16), InLow("ecx", 20)>>,
    <<"ebx", "ds">>, <<>>, "carry16") EXCEPT !.ds = DriverSel, !.via = "es", !.code = "ax"]
UnSetIRQ == [DevHlp(0, <<"ds", "ebx">>,
    <<InLow("ebx", 8), InLow("ecx", 12)>>, <<"ebx", "ds">>, <<>>, "zero")
    EXCEPT !.ds = DriverSel, !.via = "es"]
EOI == DevHlp(NoFrame, <<>>, <<>>, <<>>, <<>>, "zero")

\* The code that ProcBlock returns is in AL; ProcRun returns a count.
ProcBlock == [DevHlp(0, <<"ebx", "edi">>,
    <<InLow("ebx", 8), InLow("eax", 10), InLow("edi", 14), InLow("ecx", 12), InLow("dh", 16)>>,
    <<"edi", "ebx">>, <<>>, "byte") EXCEPT !.code = "ax"]
ProcRun == DevHlp(NoFrame, <<"ebx">>, <<InLow("ebx", 8), InLow("eax", 10)>>,
    <<"ebx">>, <<>>, "none")
Yield == DevHlp(NoFrame, <<>>, <<>>, <<>>, <<>>, "none")

EventSem == [DevHlp(NoFrame, <<"ebx">>, <<In("eax", 8)>>, <<"ebx">>, <<>>, "carry16")
    EXCEPT !.code = "ax"]
OpenEventSem == EventSem
CloseEventSem == EventSem
PostEventSem == EventSem
\* Two registers are pushed, but the offsets are those of a thunk that pushes one.
ResetEventSem == [DevHlp(NoFrame, <<"ebx", "edi">>,
    <<In("eax", 8), In("edi", 12)>>, <<"edi", "ebx">>, <<>>, "carry16")
    EXCEPT !.code = "ax"]

\* Of a double word the upper half is pushed first, and lies higher.
addshare == Fsh(2, <<Arg(10), Arg(8), Arg(12), Arg(16), SS, Local(4)>>,
    << <<20, 4>> >>, "ax")
devioctl == Fsh(0, <<Arg(8), Arg(14), Arg(12), Arg(16), Arg(20), Arg(24),
    Arg(30), Arg(28), Arg(32), Arg(38), Arg(36), Arg(40)>>, <<>>, "ax")
findduphvpb == Fsh(1, <<Arg(8), SS, Local(2)>>, << <<12, 2>> >>, "ax")
\* A mutant: the two answers go where the other one belongs.
getvolparm_Exchanged == Fsh(4, <<Arg(8), SS, Local(4), SS, Local(8)>>,
    << <<16, 4>>, <<12, 8>> >>, "ax")
getvolparm == Fsh(4, <<Arg(8), SS, Local(4), SS, Local(8)>>,
    << <<16, 8>>, <<12, 4>> >>, "ax")
qsysinfo == Fsh(3, <<Arg(8), SS, Local(6), Size(6)>>, << <<12, 6>> >>, "ax")
segalloc == Fsh(2, <<Arg(8), Arg(14), Arg(12), SS, Local(4)>>, << <<16, 4>> >>, "ax")
ioboost == Fsh(NoFrame, <<>>, <<>>, "none")
removeshare == Fsh(NoFrame, <<High("eax"), Low("eax")>>, <<>>, "none")
forcenoswap == Fsh(NoFrame, <<Low("eax")>>, <<>>, "raw")
setvolume == Fsh(NoFrame, <<Low("eax"), High("edx"), Low("edx")>>, <<>>, "ax")

\* A routine in C: the compiler keeps the conventions.
Compiled == [Thunk(0, <<>>, <<>>, <<>>) EXCEPT !.via = "none", !.result = "none"]

Description ==
    [ vsprintf |-> Compiled, strtoul |-> Compiled, strtol |-> Compiled, atol |-> Compiled,
      strupr |-> Compiled, strpbrk |-> Compiled, fnmatch |-> Compiled,
      sec32_attach_ses |-> Compiled, AllocGDTSelector |-> Compiled, AttachDD |-> Compiled,
      VMAlloc |-> VMAlloc, VMFree |-> VMFree, VMLock |-> VMLock, VMUnlock |-> VMUnlock,
      VirtToLin |-> VirtToLin, VerifyAccess |-> VerifyAccess,
      LinToPageList |-> LinToPageList, PageListToLin |-> PageListToLin,
      GetDosVar |-> GetDosVar, GetInfoSegs |-> GetInfoSegs, Security |-> Security,
      AllocOneGDTSelector |-> AllocOneGDTSelector, FreeGDTSelector |-> FreeGDTSelector,
      AttachToDD |-> AttachToDD, setIRQ |-> setIRQ, UnSetIRQ |-> UnSetIRQ, EOI |-> EOI,
      ProcBlock |-> ProcBlock, ProcRun |-> ProcRun, Yield |-> Yield,
      OpenEventSem |-> OpenEventSem, CloseEventSem |-> CloseEventSem,
      PostEventSem |-> PostEventSem, ResetEventSem |-> ResetEventSem,
      addshare |-> addshare, devioctl |-> devioctl, findduphvpb |-> findduphvpb,
      getvolparm |-> getvolparm, qsysinfo |-> qsysinfo, segalloc |-> segalloc,
      ioboost |-> ioboost, removeshare |-> removeshare, forcenoswap |-> forcenoswap,
      setvolume |-> setvolume ]

ASSUME RoutinesAssumption == Routines \subseteq DOMAIN Description

----------------------------------------------------------------------------
(* The state of a call.                                                    *)

Thunk32Steps == {"pushing", "loading", "in_kernel", "storing", "popping", "returned32"}
thunk == Description[Current.entry]
asked == Interface!Declared[Current.called]    \* the prototype the caller knows

Words(name, n, v) == <<Word(name, n, 2 * v), Word(name, n, 2 * v + 1)>>
Zero == <<Word("zero", 0, 0), Word("zero", 0, 0)>>
IsZero(w) == w.holds \in {"zero", "code"} /\ w.value = 0

NoRegs == [r \in Registers |-> Zero]

\* The registers at the call number n of a routine that is declared as t:
\* _Optlink passes two parameters in registers.
RegsAtCall(t, n) ==
    [r \in Registers |->
        CASE t.optlink /\ r = "eax" /\ Len(t.args) >= 1 -> Words("arg", n, 1)
          [] t.optlink /\ r = "edx" /\ Len(t.args) >= 2 -> Words("arg", n, 2)
          [] OTHER -> Words(r, n, 0)]

\* The parameters on the stack: a double word each, the first one pushed last,
\* so that the number of a word falls with its address: see Words.
ArgWords(t, n) ==
    IF t.optlink THEN <<>>
    ELSE [k \in 1 .. 2 * Len(t.args) |-> Word("arg", n, 2 * Len(t.args) + 2 - k)]

Base == IF thunk.local = NoFrame THEN Len(stack) ELSE bp
At(off) == stack[Base - (off \div 2)]

Loaded(l) ==
    CASE l.from = "stack"   -> <<At(l.off), At(l.off + 2)>>
      [] l.from = "stack16" -> <<At(l.off), regs[l.reg][2]>>
      [] OTHER              -> regs[l.from]

BlockWord(w) ==
    CASE w.from = "arg"   -> At(w.off)
      [] w.from = "low"   -> regs[w.reg][1]
      [] w.from = "high"  -> regs[w.reg][2]
      [] w.from = "ss"    -> Word("ss", Depth, 0)
      [] w.from = "local" -> Word("local_at", Depth, w.off)
      [] w.from = "size"  -> Word("size", Depth, w.off)

Pushed(r) ==
    CASE r = "ds" -> <<Word("high", Depth, 0), Word("ds", Depth, ds)>>
      [] r = "es" -> <<Word("high", Depth, 0), Word("es", Depth, es)>>
      [] OTHER    -> <<regs[r][2], regs[r][1]>>

\* The words of all registers that are pushed, in this order.
PushedWords ==
    [k \in 1 .. 2 * Len(thunk.pushes) |-> Pushed(thunk.pushes[(k + 1) \div 2])[2 - (k % 2)]]

PassedBlock == SubSeq(stack, Len(stack) - Len(thunk.block) + 1, Len(stack))
OutPlaces == {i \in DOMAIN PassedBlock : PassedBlock[i].holds = "local_at"}

\* The number of k among the members of S, in ascending order.
Rank(S, k) == Cardinality({i \in S : i <= k})

Go(to) == pc' = to
Note(call) == calls' = [calls EXCEPT ![Depth] = call]

----------------------------------------------------------------------------
(* The steps of a call.                                                    *)

InitCalls == Init /\ regs = NoRegs

\* The 32-bit routine that serves an FS_* entry point calls a thunk, one of
\* mwdd32.sys through the table.
call_thunk ==
    /\ pc = "handling" /\ Depth < MaxDepth
    /\ \E r \in Routines :
         LET t == Interface!Declared[r]
             n == Depth + 1
             callee == Interface!Reached(r)
         IN  \E null \in {FALSE, Description[callee].null # "fault"} :
               /\ calls' = Append(calls,
                    [called |-> r, entry |-> callee, found |-> stack \o ArgWords(t, n), ds |-> ds, es |-> es,
                     bp |-> bp, resume |-> pc, outer |-> regs, null |-> null,
                     ok |-> TRUE, stage |-> 1, answers |-> <<>>, written |-> {}])
               /\ stack' = stack \o ArgWords(t, n) \o Copies(Word("near32", n, 0), 2)
               /\ regs' = RegsAtCall(t, n)
    /\ Go("pushing")
    /\ UNCHANGED <<ds, es, bp>>

\* push ebp, mov ebp, esp or enter; then the registers that are saved.
push_registers ==
    /\ pc = "pushing"
    /\ LET frame == IF thunk.local = NoFrame THEN <<>>
                    ELSE <<Word("high", Depth, 0), Word("bp", Depth, bp)>>
                         \o Copies(Word("local", Depth, 0), thunk.local)
       IN  stack' = stack \o frame
                    \o PushedWords
    /\ bp' = IF thunk.local = NoFrame THEN bp ELSE Len(stack) + 2
    /\ Go("loading")
    /\ UNCHANGED <<calls, ds, es, regs>>

\* The parameters go where the kernel looks for them, the segments as well.
load_parameters ==
    /\ pc = "loading"
    /\ regs' = [r \in Registers |->
                   IF \E l \in Range(thunk.loads) : l.reg = r
                     THEN Loaded(CHOOSE l \in Range(thunk.loads) : l.reg = r)
                     ELSE regs[r]]
    /\ stack' = stack \o [j \in DOMAIN thunk.block |-> BlockWord(thunk.block[j])]
    /\ ds' = thunk.ds
    /\ es' = thunk.es
    /\ Go(IF thunk.via = "none" THEN "popping" ELSE "in_kernel")
    /\ UNCHANGED <<calls, bp>>

\* What is in AX or EAX when a service has done what it was asked for: nothing
\* that means anything if the thunk reads the carry flag, a code otherwise.
\* DevHlp32_VMFree takes for a code what may be none.
Leaves ==
    CASE thunk.result \in {"carry", "carry16"} -> {"answer"}
      [] thunk.result = "raw" /\ thunk.via # "far" -> {"answer", "code"}
      [] OTHER -> {"code"}

\* A DevHelp service sets the carry flag and leaves a code in EAX, or clears it
\* and leaves there what it likes; it answers in registers or, for AllocGDTSelector, through
\* ES:EDI; a FSH_* routine pops its block, answers through far pointers and,
\* being a 16-bit routine, keeps neither EBX nor ES, nor the upper half of EAX.
kernel_answers ==
    /\ pc = "in_kernel"
    /\ \E ok \in {TRUE, thunk.result = "none"}, dirty \in {FALSE, thunk.code = "ax"},
          left \in Leaves :
         /\ Note([Current EXCEPT
                !.ok = ok,
                !.answers =
                    IF ~ok THEN <<>>
                    ELSE IF thunk.via = "far"
                    THEN [l \in {PassedBlock[i].value : i \in OutPlaces} |->
                            Rank(OutPlaces, CHOOSE i \in OutPlaces : PassedBlock[i].value = l)]
                    ELSE [l \in {s[2] : s \in Range(thunk.stores[Current.stage])} |->
                            Current.stage]])
         /\ regs' = [r \in Registers |->
                CASE r = "eax" -> <<Word(IF ok THEN left ELSE "code", Depth, IF ok THEN 0 ELSE 1),
                                    Word(IF dirty THEN "junk" ELSE "code", Depth, 0)>>
                  [] r \in {"ecx", "edx"} \/ (r = "ebx" /\ thunk.via = "far") ->
                       Words("junk", Depth, 0)
                  [] OTHER -> regs[r]]
    /\ stack' = Popped(Len(thunk.block))
    /\ es' = IF thunk.via = "far" THEN KernelES ELSE es
    /\ Go("storing")
    /\ UNCHANGED <<ds, bp>>

\* What the thunk makes of EAX and of the carry flag.
Code(failed) ==
    LET low == <<regs["eax"][1], Zero[2]>>
    IN  CASE thunk.result = "carry" /\ failed -> regs["eax"]
          [] thunk.result = "byte" -> low
          [] thunk.result \in {"raw", "none"} -> regs["eax"]
          [] thunk.result \in {"carry16", "ax"} /\ failed -> low
          [] thunk.result = "carry" /\ ~failed /\ Current.null /\ thunk.null = "refused" ->
               <<Word("code", Depth, 1), Zero[2]>>
          [] OTHER -> Zero

\* The answers are stored, unless the code says that there are none.
store_answers ==
    /\ pc = "storing"
    /\ LET failed == IF thunk.via = "far" THEN ~IsZero(regs["eax"][1]) ELSE ~Current.ok
           stores == IF failed \/ Current.null THEN {} ELSE Range(thunk.stores[Current.stage])
           answer(l) == IF l \in DOMAIN Current.answers THEN Current.answers[l] ELSE 0
           more == ~failed /\ Current.stage < Len(thunk.stores)
       IN  /\ regs' = [regs EXCEPT !["eax"] = Code(failed)]
           /\ Go(IF more THEN "in_kernel" ELSE "popping")
           /\ Note([Current EXCEPT
                  !.stage = IF more THEN @ + 1 ELSE @,
                  !.written = @ \cup {<<At(s[1]), answer(s[2])>> : s \in stores}])
    /\ UNCHANGED <<stack, ds, es, bp>>

\* The registers that were saved are popped; then leave, if there is a frame, and ret.
pop_registers ==
    /\ pc = "popping"
    /\ LET saved == Range(thunk.pops)
           place(r) == Len(stack) - 2 * ((CHOOSE j \in DOMAIN thunk.pops : thunk.pops[j] = r) - 1)
       IN  /\ regs' = [r \in Registers |->
                 IF r \in saved THEN <<stack[place(r)], stack[place(r) - 1]>> ELSE regs[r]]
           /\ ds' = IF "ds" \in saved THEN stack[place("ds")].value ELSE ds
           /\ es' = IF "es" \in saved THEN stack[place("es")].value ELSE es
    /\ IF thunk.local = NoFrame
         THEN stack' = Popped(2 * Len(thunk.pops) + 2) /\ bp' = bp
         ELSE stack' = SubSeq(stack, 1, bp - 2 - 2) /\ bp' = stack[bp].value
    /\ Go("returned32")
    /\ UNCHANGED calls

\* The caller takes its parameters off the stack and is done with the answer.
resume_handler ==
    /\ pc = "returned32"
    /\ stack' = Popped(Len(ArgWords(asked, Depth)))
    /\ regs' = Current.outer
    /\ calls' = Front(calls)
    /\ Go(Current.resume)
    /\ UNCHANGED <<ds, es, bp>>

\* The thunks lie in pageable segments too, and touch pageable memory.
PageFault32 ==
    /\ pc \in Thunk32Steps /\ Depth < MaxDepth
    /\ \E e \in PagingEntries : CallEntry(e)
    /\ UNCHANGED regs

NextCalls ==
    \/ Next /\ UNCHANGED regs
    \/ call_thunk \/ push_registers \/ load_parameters \/ kernel_answers
    \/ store_answers \/ pop_registers \/ resume_handler \/ PageFault32

SpecCalls == InitCalls /\ [][NextCalls]_allVars

----------------------------------------------------------------------------
(* Properties *)

\* A thunk that returns, after whatever answer and whatever page fault, leaves
\* its caller's stack, frame, segments and the registers that a 32-bit compiler
\* expects to keep: every exit pops what was pushed, in the opposite order, and
\* a FSH_* routine's loss of EBX and ES is made good.
ServiceIsTransparent ==
    pc = "returned32" =>
        /\ stack = Current.found
        /\ ds = Current.ds /\ es = Current.es /\ bp = Current.bp
        /\ \A r \in CalleeSaved : regs[r] = RegsAtCall(asked, Depth)[r]

\* The words of the parameters that the prototype declares, as they were passed.
Given(j) == {Word("arg", Depth, 2 * j + h) : h \in 0 .. (asked.args[j] \div 2) - 1}

\* The block is in the order of the 16-bit Pascal prototype: a word for a short,
\* two for a long one or for the far pointer to an answer; sizes that the thunk
\* adds of its own come last.
BlockPlace(j) == j + Cardinality({i \in 1 .. j - 1 : asked.args[i] # Interface!Short})
BlockIsPrototype ==
    LET used == BlockPlace(Len(asked.args) + 1) - 1
    IN  /\ Len(PassedBlock) >= used
        /\ \A i \in DOMAIN PassedBlock : i > used => PassedBlock[i].holds = "size"
        /\ \A j \in DOMAIN asked.args :
             LET first == PassedBlock[BlockPlace(j)]
                 second == PassedBlock[BlockPlace(j) + 1]
             IN  CASE asked.args[j] = Interface!Short -> first = Word("arg", Depth, 2 * j)
                   [] asked.args[j] = Interface!Long  -> <<second, first>> = Words("arg", Depth, j)
                   [] OTHER -> first.holds = "ss" /\ second.holds = "local_at"

\* When the kernel gets control it is through a selector that reaches the
\* kernel's entry point, and with the caller's parameters: each word that the
\* prototype declares is in a register or in the block, no register is loaded
\* with anything else, and a block is in the order of the 16-bit prototype.
\* Offsets that forget a push, or a changed DS, break this only in the thunk
\* that has it.
KernelIsCalledRight ==
    pc = "in_kernel" =>
        LET loaded == {l.reg : l \in Range(thunk.loads)}
            used == IF asked.optlink THEN loaded \cup {"eax", "edx"} ELSE loaded
            passed == Range(PassedBlock) \cup UNION {Range(regs[r]) : r \in used}
        IN  /\ thunk.via = "ds" => ds = FlatDS
            /\ thunk.via = "es" => es = FlatDS
            /\ Current.stage = 1 => \A j \in DOMAIN asked.args : Given(j) \subseteq passed
            /\ \A r \in loaded : regs[r][1].holds = "arg" /\ regs[r][1].call = Depth
            /\ thunk.via = "far" => BlockIsPrototype

\* A call through the table reaches the routine that it names, in whatever
\* version's layout the header looks it up.
RoutineIsReached == pc \in Thunk32Steps => Current.entry = Current.called

\* What the caller passes is what arrives: the flat block of a 32-bit routine,
\* the routine that is asked for, and the parameters in the kernel.
ParametersArrive == ReceivesItsBlock /\ RoutineIsReached /\ KernelIsCalledRight

\* Neither the entry points nor the thunks leave a trace in the state of who
\* called them, however they are nested.
CallsAreTransparent == CallIsTransparent /\ ServiceIsTransparent

\* Thunks that clear EAX without a look at the carry flag: their callers are
\* told NO_ERROR whatever the kernel answers (DevHlp32_Security.asm:72,
\* DevHlp32_UnSetIRQ.asm:66, DevHlp32_EOI.asm:59).
Silent == {"Security", "UnSetIRQ", "EOI"}

\* Thunks that hand over EAX as the kernel leaves it: all of it after a service
\* that reports by the carry flag, or with the upper half that a 16-bit routine
\* does not keep.  Their callers may take a success for a failure
\* (DevHlp32_VMFree.asm:58-59, fsh32_forcenoswap.asm:63-66).
Unclean == {"VMFree", "forcenoswap"}

\* The caller of a routine whose prototype declares a code learns from it
\* whether the kernel did what it was asked for: a refusal is never reported as
\* NO_ERROR, but by the silent thunks, and a success never as a failure, but by
\* the unclean ones.  The caller's pointers hold the kernel's answers, each its
\* own, exactly after a success; a conversion that fails after another one leaves
\* the first answer alone.  Routines in C, which are not thunks, are left out.
AnswerReachesCaller ==
    (pc = "returned32" /\ thunk.via # "none") =>
        LET outputs == {j \in DOMAIN asked.args : asked.args[j] = Interface!Answer}
            complete == {<<Word("arg", Depth, 2 * j), Rank(outputs, j)>> : j \in outputs}
            said_ok == IsZero(regs["eax"][1]) /\ IsZero(regs["eax"][2])
            done == Current.ok /\ ~(Current.null /\ thunk.null = "refused")
        IN  /\ Current.called \in Interface!ReturnsCode \ Silent => (said_ok => done)
            /\ Current.called \in Interface!ReturnsCode \ Unclean => (done => said_ok)
            /\ (Current.ok /\ ~Current.null) => Current.written = complete
            /\ ~(Current.ok /\ ~Current.null) =>
                 Current.written = {a \in complete : a[2] < Current.stage}

=============================================================================
