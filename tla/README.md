# A verification of mwdd32

mwdd32 lets OS/2 device drivers, base device drivers, security drivers and
installable file systems be written as 32-bit C code in ring 0. It consists of a
physical device driver, `mwdd32.sys`, that hands out a table of pointers to 32-bit
versions of the kernel's services (`struct DevHelp32`); of static libraries with
those services (`devhlp32/`), with the 16-bit side of a file system (`fsh32/`) and
with C library routines (`util/`); and of skeletons for the four kinds of client
(`skeleton/`).

This directory holds TLA+ modules translated from that source, configurations that
check them with TLC on small instances, and proofs, checked by TLAPS, of the
properties that matter most for all instances. `PROJECT.json` maps each definition
to the lines it models.

## 1. The system

### Components, their state and how they interact

| Component | State | Operations | Interacts with |
|---|---|---|---|
| `mwdd32.sys`, strategy routine (`mwdd32/mwdd32_strategy.c`, `_open.c`, `_close.c`, `_ioctl.c`, `_start.asm`) | `open_count`; per request: status word, the two buffers of an ioctl, their locks | INIT, OPEN, CLOSE, GENERIC_IOCTL (INIT_FSD, INIT_DEVICE), SHUTDOWN, INIT_COMPLETE, anything else | the kernel sends request packets; an ioctl exports the table into the client's image and **calls back** the client's init routine |
| `mwdd32.sys`, IDC entry (`mwdd32_idc.c`, `mwdd32_start.asm`) | the client's `DevHelp32` and `_TKSSBase` | export by direct call, in two calling conventions | base device and security drivers attach with `DevHlp_AttachDD` and call it |
| Boot protocol (`fsh32/fs_init.asm`, `skeleton/device/dev32_start.asm`, `skeleton/basedev/drv32_pre_init_base.asm`) | file handle, answer of the ioctl, entry point of the IDC | open/ioctl/close of `mwdd32$`; attach and call | needs `mwdd32.sys` loaded; order comes from CONFIG.SYS |
| Init routines (`mwdd32_init_base.c`, `drv32_init_base.c`, `sec32_init_base.c`, `dev32_init.c`) | locked segments, hooked IRQ, exchanged security entry points, the INIT packet | pre-init, command line, IRQ test, `LockSegments`, security exchange, answer | the kernel keeps or drops the driver by the answer; interrupts arrive meanwhile |
| GDT selectors (`DevHlp32_AllocGDTSelector.c`, `_AllocOneGDTSelector.asm`, `_FreeGDTSelector.asm`), volume I/O (`fsh32_dovolio.asm`) | the system's GDT | allocate *n* with rollback, free one, read/write a volume through a temporary selector | all threads of all drivers share the GDT |
| `DevHlp32_SaveMessage` | a static message table, one selector, DS/ES | one routine of four kernel calls | called by every init routine |
| `FS_*` entry points (`fsh32/fs_thunks.asm`) | the kernel's stack, segments, frame pointer | 29 thunks, 11 stubs | the kernel's file system router calls them, page faults nest them |
| other `devhlp32` and `fsh32` thunks | saved registers, 16-bit parameter blocks and temporaries on the caller's stack | one kernel call each (two in `DevHlp32_GetInfoSegs`) | called by the 32-bit code of every driver, directly or through the table of services; carry flag or code, output pointers |
| semaphores (`include/os2/fsh32.h`: `fsh32_semrequest`, `_semset`, `_semwait`, `_semclear`) | one word per semaphore, the interrupt flag | test and set with interrupts disabled, `DevHlp32_ProcBlock`; clear and `DevHlp32_ProcRun` | threads of all drivers, interrupt handlers, the kernel's dispatcher and timer |
| `fnmatch` (`util/fnmatch.c`) | – | a pure function with three styles and six options | used by `sec32_OPEN_PRE.c` |
| numbers and strings (`util/STRTOUL.C`, `strtol.c`, `atol.c`, `strtok.c`, `vsprintf.c`, `ctype.c`, `strupr.c`, `STRPBRK.C`) | `strtok`: one static pointer for all that link it | pure functions but for `strtok` | command lines, messages |
| skeletons at run time (`skeleton/ses/sec32_OPEN_PRE.c`, `sec32_callbacks.c`, ...) | – | the security driver's callbacks, through a structure of pointers; elsewhere handlers that return an error code or STDON | the kernel calls `OPEN_PRE` before each open; uses `fnmatch` |

### What is hard in it

* **Partial failure.** Nearly every routine is a ladder of kernel calls each of
  which may fail, with statuses combined by `|=` and clean-up on some branches.
* **Callbacks.** The client's init routine runs *inside* mwdd32.sys's ioctl, while
  the client waits in `DosDevIOCtl`, and needs what the same ioctl exports.
* **Versions.** The exported table is written into the image of a client that may
  be built with an older header.
* **Order of loading.** CONFIG.SYS decides whether mwdd32.sys comes before, after or
  never; a base device driver is loaded before any DEVICE statement.
* **Threads.** Threads of several processes are inside mwdd32.sys and the libraries
  at the same time, and share `open_count` and the GDT; page faults re-enter a file
  system on the same stack.
* **Interrupts** during initialisation, and between the test of a semaphore and the
  block on it; timeouts that race a wake-up; wake-ups meant for somebody else.
* **Hand-written conventions**: which side pops how many bytes, which segment
  register holds what after an error.

`PROJECT.json`, "hazards", lists these at their lines with the properties that
watch over them. Three have none. For two the source does not say what would be
right: whether the first of two locks, and a mapping whose answer cannot be stored,
have to be undone. The third is `strtok`'s one pointer for all its users: that another
one takes the scan over is what ANSI C says of it too.

## 2. Modules

| Module | Models | State and actions |
|---|---|---|
| `Reqpkt` | the status word of a request packet | a word is the set of its bits, so that `\|=` is union and the mixture of two codes is visible |
| `Mwdd32` | the strategy routine and the IDC of `mwdd32.sys`, for any set of callers | `pc[c]` is the place in the handler; one action per step between two calls of the kernel (`lock_parm`, `lock_data`, `check_magic`, `thunk_parms`, `export`, `callback`, `unlock_data`, `unlock_parm`), `stub_strategy`, `strategy`, `open`, `close`, `idc`. Each call of a DevHelp service may fail |
| `InitContract` | abstract: what initialisation promises | a client is served, initialised, then accepted or rejected |
| `InitProtocol` | a boot: several clients and `mwdd32.sys` | extends `Mwdd32` and composes its actions with those of `FS_INIT`, `device_init` and `drv32_pre_init_base`; the refinement `Contract` implements `InitContract` |
| `DriverInit` | the init routine of one driver, step by step | the four routines share `packet`, `lock_data`, `lock_code`, `answer` and differ in the rest; `drv32_irq` is the interrupt; also implements `InitContract` |
| `SelectorPool` | abstract: selectors are taken all at once or not at all | `Take`, `GiveBack`, `Lose` |
| `GdtSelectors` | selector allocation, freeing and `fsh32_dovolio` by several threads | one action per kernel call; implements `SelectorPool` |
| `SaveMessage` | `DevHlp32_SaveMessage` with its segment registers | one action per kernel call; a call through a wrong segment is `jump_wild` |
| `InitMessages` | an init routine and the messages it logs | extends `DriverInit`, instantiates `SaveMessage`: the routine waits (`pending`) while a message is saved, interrupts go on |
| `FsdParms` | the parameter blocks of `include/os2/fsd32.h` | a block is the sequence of the sizes of its members |
| `FsThunks` | the 40 `FS_*` entry points on the kernel's stack | the stack is a sequence of 16-bit words; one action per stretch of a thunk between calls; page faults nest calls |
| `DevHelpInterface` | the table of services by version, its initializer, the prototypes and the inline functions of `devhlp32.h` and `fsh32.h` | constants and the route from a call to a routine |
| `KernelCalls` | the 44 routines that a driver calls, from within the `FS_*` entry points | extends `FsThunks`. A thunk is described by a record (what it pushes, loads, copies and pops, at which offsets); one action for each part that all thunks have: `push_registers`, `load_parameters`, `kernel_answers`, `store_answers`, `pop_registers` |
| `Semaphore` | abstract: what a user of a semaphore relies on | `Ask`, `Take`, `Pass`, `Refuse`, `Release` |
| `FshSemaphores` | the inline semaphores over `ProcBlock` and `ProcRun` | `sem` are the words, `pc[t]` the place in the inline function, `cpu`, `enabled` and `handler` who runs and whether an interrupt may come; one action per stretch in which no interrupt or thread can come between; implements `Semaphore` |
| `Fnmatch` | `util/fnmatch.c` | pure operators named as in the code; what calls itself there is a function of the pointers it moves |
| `Ctype`, `StringRoutines`, `NumberStrings`, `Vsprintf` | the routines of `util/` | pure operators; a pointer is an offset; the bits of a long and of a short are constants; `strtok_from` maps the static pointer to its next value |
| `CommandLine`, `SecurityCallbacks` | the switches of the init routines; the security driver's callbacks and the structure the kernel finds them in | pure operators built from the routines above |
| `StringCalls` | calls of the string and number routines and of the init routines' command lines, with reference definitions | one action per routine: the call; `strtok_begin` and `strtok_next` for two users of `strtok` |
| `VsprintfCalls`, `FnmatchCalls`, `PathCalls` | calls of `vsprintf`, of `fnmatch` and of the security driver's `OPEN_PRE` (which extends `FnmatchCalls`), with reference definitions | one action per routine: the call |
| `RoutineCalls`, `UtilCalls` | a call and its answer; a driver linked with all of `util/` | `UtilCalls` extends `StringCalls` and `PathCalls` and instantiates `VsprintfCalls` (`Formats`), all of which share the variables of `RoutineCalls` |
| `MC*` | constants for TLC | – |
| `Mwdd32_proofs`, `InitProtocol_proofs`, `InitMessages_proofs`, `GdtSelectors_proofs`, `FshSemaphores_proofs`, `KernelCalls_proofs`, `StringCalls_proofs`, `PathCalls_proofs` | theorems | – |

Definitions with a suffix after an underscore (`lock_data_FallsThrough`) are faulty
variants of the definition they are named after. No specification uses them; they
show that the properties can tell the code from plausible mistakes in it.

### Abstractions

* A buffer, name, message or driver is a model value or one of a few cases that the
  code distinguishes (magic number right or wrong, pointer translatable or not).
* A kernel service is external: it returns one of the codes the code tells apart and
  has the effect that the code relies on. A kernel call is one step.
* Code between two kernel calls is one step. The drivers run in ring 0 of a machine
  with one processor, where a thread is not preempted, so that a thread loses the
  processor only in a kernel call. In `FshSemaphores`, where an interrupt matters,
  a step ends wherever interrupts are enabled and one could change what follows.
* Characters are codes in `Ctype` and its users and the characters themselves in
  `Fnmatch`, with the code page of ASCII.
* Bounds: `MaxRequests` (requests of one caller), `MaxCount` (selectors of one
  allocation), `MaxIrqs` (interrupts that arrive), `MaxDepth` (calls open on one
  stack), `MaxTokens` (calls of `strtok` after the first). The proofs hold for every
  value of all five.

## 3. Runs

Fairness is weak fairness of the steps of a routine that has been entered: the
kernel returns from its services, and nothing in the drivers waits for another
caller. No step of the environment (sending a request, an interrupt, a close by the
user) is assumed to happen, with the one exception that a boot processes
CONFIG.SYS to its end. In `FshSemaphores` a thread that has the processor goes on
(weak), an interrupt handler that has begun does (weak), and a thread that was run
gets the processor again although others take it in between (strong: the
dispatcher of OS/2 raises the priority of threads that starve). Nobody is assumed to
clear a semaphore or a device to interrupt. That one given thread gets a semaphore
is *not* claimed: `fsh32_semclear` runs all that wait, and the same one may lose the
race each time. Deadlock is checked except where behaviours end, because a bound is
reached, a function has returned or a driver has been kept or dropped.

| Run | Bounds | What it shows |
|---|---|---|
| `driver` | 2 callers, 2 requests each, client versions 2 and 8, every request and IDC call the code distinguishes; 422 500 states | **NoSilentLock**: a buffer left locked is reported. **BuffersWrittenOnlyWhileLocked**. **CallbackReady**: the init routine runs with table, stack base and both locks in place. **TableFitsVersion**: the export never writes past an old client's table. **AnswerIsInitResult**: a request without an error carries the init routine's own code. **StatusWellFormed**: done, error code iff error bit, and a mixed code only when an unlock failed. **StackBalanced**: both IDC conventions. **OpenCountIsHandles**. **RequestsAnswered** (liveness) |
| `boot` | one file system, one device driver, one base device driver, versions 2 and 8; 18 160 states | **AcceptedIsComplete**: an accepted client has its table and ran its init routine. **InitResultReachesKernel**. **LeftOpenIsReported**: `mwdd32$` stays open only if the client reports a failure. **BootCompletes** (liveness). **ImplementsContract**: the boot implements `InitContract`, liveness included |
| `driver_init` | the four kinds, 2 interrupts, 3 selectors, every message saved or failing at every call, every kernel call granted or refused; 6 917 states | **KeptIsResident**: both segments of a driver that is kept are locked. **DroppedIsForgotten**: the kernel has no entry point of one that it drops. Both say that the interrupt is released too, unless the kernel has refused that, which the thunk hides (divergence 6). **CallableIsPrepared**, **TableNamesMessage** and **NothingLeftAllocated** for their messages, and **ImplementsContract**, liveness included, for the composition. Its liveness leaves out the behaviours of finding 2, in which the processor goes astray (`msg_pc = "wild"`) |
| `selectors` | 2 threads, 2 selectors, up to 2 per call; 279 241 states | **EveryoneHasTheirOwn**, **TransfersOwnBuffer**, **SectorsCountedOnSuccess**, **AllOrNothing**, **CallsReturn** (liveness), **ImplementsPool** (refinement). With two selectors and two threads asking for two, the GDT runs out in the middle of both allocations |
| `semaphores` | 3 threads, a lock, an event with its device; 67 328 states | **WordTellsHolder**: the word is set exactly while there is a holder, and there is one at most. **NoLostWakeup**: nobody blocks on a clear semaphore unless the wake-up is on its way. **DisabledOnlyInside**: interrupts come back on every path. **ImplementsSemaphore** (refinement, liveness included): who is told `NO_ERROR` has the semaphore, and a free one is given to somebody |
| `kernel_calls` | 39 entry points, 43 routines, up to 3 nested calls, page faults at any step; 120 619 states | **CallsAreTransparent**: after an entry point, stack, frame and segments are as before the first parameter was pushed, and after a routine also the registers its convention saves, on every exit. **ParametersArrive**: the 32-bit routine gets the address of its own block; a call through the table of any version reaches the routine it names; the kernel is called through a selector that reaches it, with the caller's parameters and nothing else. **AnswerReachesCaller**: of the routines whose prototype declares a code, all but three never report a refusal as a success, and all but two never a success as a failure (divergences 6 and 7); each output pointer holds its own answer exactly after a success |
| `util` | masks of up to 4 items and names of up to 3 characters, all three styles, with brackets that are never closed and backslashes that escape nothing; paths of up to 5 pieces with and without a drive; numbers of 3 digits in 8 radices and of 9 binary digits with a long of 8 bits; 32 sets of flags with widths and precisions around the length of the number; formats of 3 parts; all 256 characters and -1; two users of `strtok` with 42 texts each; command lines of 4 pieces; 1 336 448 states | **MatchesAsDefined**: a match is a way to cut the name into one piece per item. **OpensAreFiltered**: the security driver refuses the files named CONFIG, and no others. **NumberIsItsValue**: the value of the digits, or the nearest that fits, but for `atol` behind a line feed (divergence 8). **FormatsAsDefined**: the field of a number is that of ANSI C, character by character, but for the cases of divergence 9, in which it still reads back as the number; each conversion takes its own arguments. **StringsAsDefined**, **TokensAreBlocks**, **SwitchesAreSeen** |
| `save_message_ds`, `fnmatch_negated_set`, `driver_init_ses`, `fs_thunks_fileattribute`, `reset_event_sem` | – | the findings below |

Why the bounds are enough. In `driver`, two callers are all that can matter to the
one shared variable, `open_count`; two requests allow an open followed by an ioctl
or a close, or two IDC calls on the same image (longer histories, such as an IDC call
after an open and an ioctl, are the theorems'); version 2 is older
than the current header and version 8 unknown to it (the theorems cover all
others). In `semaphores`, three threads are a holder, one that waits and one that
comes in between, on one semaphore; words of different semaphores do not touch one another,
and the proofs hold for any number. In `kernel_calls`, an entry point, a thunk and a page fault in the middle of
either make three levels; entry points nest through page faults only, so that a
fourth would repeat the third. The matcher's search decides one mask character at a time, and
the masks are long enough for two asterisks with a literal between or after them. A
long of 8 and a short of 4 bits keep every limit and every carry of the real
widths, which only enter as powers of two.

The theorems on `StringCalls` hold for texts, numbers and lines of any length and
for a long and a short of any size, and that on `PathCalls` for paths of any length;
there the run only guards against a slip in the statement.

Each property of a passing run is violated when one definition is replaced by one
of its faulty variants (`PROJECT.json`, "mutants").

## 4. What is proved

The theorems hold for every set of callers, clients, versions, selectors, threads,
semaphores, kinds of driver, entry points, routines, texts, numbers, paths and
command lines and every bound. They assume
the named `ASSUME`s of the modules (and, of `KernelCalls`, two hypotheses given
below): callers and selectors are finite sets, versions are positive numbers,
bounds are natural numbers, the kinds are among the four there are, names of
different things differ, the requests and IDC calls are among those the code
distinguishes, those that the clients of a boot send are among them, entry points
and routines are among those that exist, the largest long and the largest unsigned
short are natural numbers, texts, lines and paths are finite strings of characters other
than NUL, delimiters and wanted characters are sets of characters, and a number
is written as blanks, sign, prefix and the characters behind it (`IsNumber`).

**`Mwdd32_proofs`.** Type correctness, then four inductive invariants, each the
conjunction over all callers of what is true of one caller at each place of its
handler:

* `LockInv` says which buffers are locked at each `pc`, and that the status already has
  `GEN_FAILURE` when a buffer stayed locked. `NoSilentLock` speaks only of
  finished requests, so that it is not inductive without this. From it follow
  `NoSilentLock` and `BuffersWrittenOnlyWhileLocked`.
* `ClientInv` relates the client's image to the place in the handler: a table once
  filled is filled to its version, the callback is reached only after the export,
  and from the callback to the end a request without an error carries the init
  routine's code. From it: `CallbackReady`, `TableFitsVersion`,
  `AnswerIsInitResult`, `StackBalanced`.
* `OpenInv` adds to `OpenCountIsHandles` that the request of a caller still fits its
  handle when it is routed (`Routed`): only then do count and handles move together.
* `WordInv` lists the status words possible at each place; from it,
  `StatusWellFormed`.

**`InitProtocol_proofs`.** A boot with any clients. `DriverInvStep` carries the
invariants of `Mwdd32_proofs` over: every step of a boot is a step of `Mwdd32`, or
leaves its state alone, or is the init routine of a base device driver. To them
`BootInv` adds, for each client, whether it has a handle, which request it waits
for, what may be locked and what has become of its init routine (`Ring3At`,
`BaseAt`, `CommonAt`); the boot properties speak of clients that are done and are not
inductive without this. `Others` (a step of one client leaves the rest alone) reduces
each step to the client that takes it. From `BootInv`: the type invariant,
`AcceptedIsComplete`, `InitResultReachesKernel`, `LeftOpenIsReported`, and
`ContractKept`, that a boot implements `InitContract!Spec`.

**`GdtSelectors_proofs`.** `EveryoneHasTheirOwn` with `DovolioHoldsOne` (a call of
`fsh32_dovolio` holds one selector between its steps) is inductive; `SectorsInv`
and `CountInv` (an allocation at work holds no more than its count, in
distinct selectors) carry `SectorsCountedOnSuccess` and `AllOrNothing`;
`PoolImplemented` is the refinement: every step is a `Take`, a `GiveBack`, a `Lose`
or a stutter of `SelectorPool`.

**`FshSemaphores_proofs`.** The inductive invariant joins the three properties with
`Processor`, which says at which places a thread has the processor, with interrupts
disabled, and what it knows there of the word. It gives `WordTellsHolder`,
`NoLostWakeup` and `DisabledOnlyInside` for any number of threads and semaphores.
`CallInv` adds which function and which code go with each place, and with it
`SemaphoreImplemented`: every step is one of `Semaphore` or a stutter.

**`InitMessages_proofs`.** `StepInv` says what the segment
registers address and which selector is held at each place of
`DevHlp32_SaveMessage`, the error exit being entered with the segments exchanged or
not. `InitMessages` refines both of its parts (`InitRefined`, `MessagesRefined`):
every step is a step of each or leaves it alone. So what is proved of
an init routine, and of a message, is proved of both together.

For an init routine (`DriverInit`), `IInv` joins five parts: the status before the end is empty
or a failure (`StatusInv`), services come before everything that uses them
(`SupportInv`), the locks by place (`LockInv`), the answer in the packet
(`ReplyInv`), and IRQ and security entry points (`HookInv`: the interrupt is hooked
only between request and release, or after a release that was refused). From it follow the
three safety properties and `ContractKept`, that the specification implements
`InitContract!Spec`, the contract without its fairness.

**`KernelCalls_proofs`.** Entry points, thunks and page faults nested to any depth, with
any answers of the kernel. The three properties speak of the innermost call
when it is at its end; whether it finds there what it pushed depends on every
call that came between. The inductive invariant `IInv` therefore says of *every* open
call what is true where it stands, be it running or interrupted (`Levels`): the
innermost one stands in the machine's state, any other in what the call above it has
to restore (`Before`), and its registers are those the next thunk above it
saved (`RegsFrom`). What is true at a place is `EntryAt` for an entry point (where the
saved registers and the address of the block lie) and, for a thunk, `FrameAt` (what
the stack holds above the caller's, and where each saved register is),
`DeliveredAt` (what registers and block hold when the kernel gets control) and `ToldAt`
(what EAX says, and of which routines it can be trusted, and which answers the caller's
pointers hold). Three lemmas about
all calls, `Push`, `Proceed` and `Pop`, reduce a step to the call that takes it.

What the code of one thunk has to do with this is said once, of its description:
`Sound` (pops reverse pushes, offsets stay within the parameters), `Tells` (each store
is that of a declared answer) and `Delivers` (each declared word is loaded, kept
in a register or in its place of the block). `DescriptionsSound` and
`DescriptionsTell` show the first two of all routines, `DescriptionsDeliver` the third
of all but `ResetEventSem`, `BlocksMatch` that what an entry point
pops is the structure of `fsd32.h`, and `RoutinesReached` that each version's
layout of the table finds each routine. From `CallsFramed`, the invariance of
`IInv`, follow `CallsAreTransparent`, `AnswerReachesCaller` and `ParametersArrive`.

Two hypotheses leave out what is known to be wrong, and nothing else.
`SizesAgree`: `FS_FILEATTRIBUTE` (finding 4) is not called, as its lost words would shift
the frames of all calls below it. `OffsetsRight`: `ResetEventSem` (finding 5) is not called;
only `ParametersAlwaysArrive` needs it, and `KernelCalledRightElsewhere` shows without it that
the kernel is called right in every other call. The run `kernel_calls` makes the
same two exceptions, and the runs `fs_thunks_fileattribute` and `reset_event_sem`
show that they are needed.

**`StringCalls_proofs`.** Functions over strings, of any length. Zenon and the SMT
solver know no induction, and the theorems of the library that state it for any
predicate cannot be used with them. It is therefore done with sets: the natural
numbers are well founded (`LessIsWellFounded`), so a set of them has a least
element (`LeastElement`), and a set that has 0 and with each number the next one has them
all (`UpTo`). From it comes `Recursion`, that a function defined by what it is at 0 and
by how each value follows from the one before it exists; TLA+ needs that before
a definition by recursion says anything (`NumeralIs`, `AccumulatedIs`, `WrappedIs`,
`SwitchesIs`).

* `strtok`: `TokensAreBlocks` speaks of what has been returned; that the next call goes on
  right depends on where the static pointer stands and what of the text is still as
  it was. `StrtokInv` adds this (`NextStands`, `CutUpTo`: the pointer stands at the end of the
  text or on a delimiter of it, before it as many blocks begin as tokens have been
  returned, and behind it the text is as it was passed). One search finds the first
  block behind the pointer or there is none (`StrtokFinds`).
* The other routines answer once: `AnswerInv` says that an answer is that of the
  routine that was called, so that what remains is what the routine computes.
  `ClassesAre` reads the table of `ctype.c` for all characters, `StruprIs` and
  `StrpbrkFinds` follow the loops.
* Numbers (`atol` with the exception of divergence 8): the limit of `strtoul` and `strtol` is kept as a quotient and a remainder, and
  `OverflowIs` shows that the comparison with both is that of the number with the
  limit. `ScanDigitsIs` follows the loop, `PartsAre` and `RadixIs` the text before the
  digits, and `ScanIs` puts them together; `SignedIs` and `SignedAgain` are the wrap-around of a
  long, on which `AtolValue` and the negated unsigned number rest.
* Command lines: the search steps over the digits of an interrupt level, as `strtoul` moves its
  pointer. `StrtoulEnds` shows that no switch is lost there: a minus inside what
  `strtoul` has consumed is the sign of a number, with a digit behind it. `Seen` says what the
  search knows at each place, and `SearchStep` that each turn of the loop keeps it.

From these `TokensAreBlocks`, `StringsAsDefined`, `NumberIsItsValue` and `SwitchesAreSeen`
follow for `StringCalls!Spec`. `UtilCalls` adds the calls of `vsprintf`, `fnmatch` and
`OPEN_PRE`, which touch no state of `strtok` and answer under other names.

**`PathCalls_proofs`.** `OpensAreFiltered` for paths of any length, made of any characters.
The loops of `fnmatch.c` that call themselves are recursive functions of
the two pointers; before the equation of one says anything, there must be a function that
satisfies it. For the mask of the security driver `Matched` is such a function, written
without recursion: behind the remaining letters of the mask, in either case, there is a
dot or the end of a name without dots (`TurnsExist`, for a turn of `match_comp_os2`).
Each turn moves the pointer into the mask ahead, and the mask has eight
characters, so the equation leaves no other choice (`TurnsDetermine`), and
`match_comp_os2` compares names as `Spelled` says (`CompIs`). The same is
shown of the loop over the components, of which mask and file have one (`ComponentsAre`).
Drive letters, UNC names and colons are what remains of `fnmatch` (`FnmatchIs`); `InUpperCaseIs`
compares its answer with the name in upper case. `LastSeparatorIs` is the loop
of `OPEN_PRE`, for which some separator is the last one (`LastOffset`, from
the same theorem about well-founded relations as `LeastElement`). `ConfigSysRefused` is the
promise of the comment in `sec32_OPEN_PRE.c`, also for paths with a separator
only at their start, where `OPEN_PRE` does not look. The one assumption, `PathsAssumption`, says that a
path is a string with no null character inside.

**Only model-checked**, and why:

* All liveness (`RequestsAnswered`, `BootCompletes`, `CallsReturn`, the fair halves of
  `ImplementsContract` and `ImplementsSemaphore`): fairness speaks of `ENABLED`, which is
  beyond TLAPS.
* `FormatsAsDefined`: the conversion of a number into digits (`Vsprintf`) is written with
  recursive operators, and a module with one has no SMT solver in TLAPS.
* `MatchesAsDefined`, which is about all masks and names: it is false for masks with a
  negated set of several members (finding 1), so no theorem could be about all masks.
  `PathCalls_proofs` proves what `fnmatch` does with the one mask in `src/` it is called with.

## 5. Findings

1. **A negated set matches what it lists** (`util/fnmatch.c:396`). `[!ab]` matches
   `a`: the flag for "matched" is set as soon as one member differs. The comment at
   346-347 says the set matches all characters not listed. Sets with one member or
   one range behave as documented (`MatchesAsDefined`).
2. **DS and ES exchanged on an error path** (`devhlp32/DevHlp32_SaveMessage.asm:124`).
   After a failed `DevHlp_LinToGDTSelector` the clean-up reads `msg_seg` through the
   flat segment, loads DS with `DATA16` and calls `[DevHelp2]` through it.
3. **The kernel's refusal is lost** (`devhlp32/DevHlp32_Security.asm:72`). The thunk
   returns NO_ERROR whatever the carry flag says; the branches of
   `sec32_init_base.c` for a refusal cannot be taken, and a security driver stays
   loaded without being registered.
4. **FS_FILEATTRIBUTE pops too little** (`fsh32/fs_thunks.asm:83`): `retf 14` for a block
   of 20 bytes (`include/os2/fsd32.h:362-369`). All the other thunks pop what is
   declared.
5. **DevHlp32_ResetEventSem reads one push too low** (`devhlp32/DevHlp32_ResetEventSem.asm:60`).
   It pushes two registers but reads its parameters at the offsets for one: the
   kernel gets the return address as the handle, and the handle as the address of
   the count.

Further divergences. No run is made to fail for these: the code is modelled as it is,
and the property that meets them names each of them as an exception, so that it holds.

6. **Two more thunks lose a refusal.** `DevHlp32_UnSetIRQ.asm:66` and
   `DevHlp32_EOI.asm:59` clear EAX without a look at the carry flag, as finding 3 does
   (`Silent` in `KernelCalls`). The branch "IRQ couldn't be released" of
   `drv32_init_base.c:173-177` is never taken. In `DriverInit` the kernel may refuse the
   release (`unset_irq`): the interrupt stays hooked and the routine goes on. If
   `LockSegments` fails afterwards the driver is dropped with its interrupt hooked;
   `KeptIsResident` and `DroppedIsForgotten` hold except after a refusal, which the
   history variable `irq_refused` remembers.
7. **Two thunks hand on what is no code** (`Unclean` in `KernelCalls`).
   `DevHlp32_VMFree.asm:58-59` returns EAX as the kernel leaves it, also after a success
   that only the carry flag tells, and `fsh32_forcenoswap.asm:63-66`, an `int` by
   `fsh32.h:205`, the upper half of EAX that a 16-bit routine does not keep. Their
   callers may take a success for a failure, but not the reverse.
8. **`atol` steps over blanks and tabs only** (`atol.c:49`). Behind any other white space it
   returns 0, where ANSI C, to which `doc/mwdd32/utils.im:38` refers for these functions
   (`atol` at :156), says the number. `strtol` and `strtoul` pass over all of it. (`StopsAtol`.)
9. **`vsprintf` is not in all cases that of "an ANSI C programming manual"**, to which
   `doc/mwdd32/utils.im:101` refers for the format. Where `NotAnsi` or the comment of
   `FormatsAsDefined` says so:
   * with the flag `0` and a precision it fills with zeros, not with blanks (`%06.4d`,
     `vsprintf.c:152`);
   * a precision of 0 does not make 0 an empty text (lines 174-175);
   * `#` writes `0x` in front of 0 too, and in octal one more 0 even if the precision
     has provided one (lines 167-172 and 195-201);
   * `%hn` stores an int over a short (line 328);
   * a negative precision from an argument counts as 0, not as none (lines 272-273);
   * there is no `%f`, `%e` or `%g`.
   A `%p` without a width is as wide as a pointer, which ANSI C leaves open.
10. **`strtoul("0x")`** in radix 0 or 16, and `strtol`, end at the start of the string instead of
   after the 0 (`utils.im:38` again).

## 6. Not modelled, and why

* The strategy routines and handlers of the device skeletons, and the operations of the sample
  file system: they route requests as `mwdd32.sys` does, keep no state and answer
  with a constant.
* `DevHlp32_InternalError`, which does not return, and `__getvolume`, which only
  follows a pointer. Shared event semaphores themselves: their thunks are modelled,
  the kernel's service answers with a code.
* `util/sec32_attach_ses.asm`: its only call is commented out; as a routine of the
  table, it is in `KernelCalls`.
* The conversion of a far pointer in `DevHlp32_AttachDD.c`; its callers see it succeed
  or fail.
* Callers of the inline semaphores that have disabled interrupts themselves: the
  functions enable them unconditionally on the way out, so the model calls them
  with interrupts enabled.
* More than one processor: `_disable` would not exclude the others; the code is of a
  system with one.
* Messages' wording.
* Build files, documentation, distribution: no behaviour. The documentation is
  quoted where a property states what it says.
* The two near entries at the end of `fs_thunks.asm`: nothing in the repository
  calls them.

## 7. Plan

Order: what the whole system depends on first.

| Step | Module | Composes / implements | Status |
|---|---|---|---|
| 1 | `Mwdd32` | – | modelled, checked, safety proved |
| 2 | `InitProtocol` | composes `Mwdd32` with three clients, implements `InitContract` | modelled, checked, safety and refinement proved |
| 3 | `GdtSelectors` | implements `SelectorPool` | modelled, checked, safety and refinement proved |
| 4 | `DriverInit` | implements `InitContract` | modelled, checked, safety and refinement proved |
| 5 | `SaveMessage`, `FsThunks`, `Fnmatch` | – | modelled, checked; `SaveMessage` proved in step 9, `FsThunks` in step 6 |
| 6 | `KernelCalls` | extends `FsThunks` with the routines of `devhlp32/` and `fsh32/`, and `DevHelpInterface` | modelled, checked, safety proved, that of `FsThunks` included |
| 7 | `FshSemaphores` | implements `Semaphore` | modelled, checked, safety and refinement proved |
| 8 | `StringCalls`, `VsprintfCalls`, `PathCalls` | numbers, strings and command lines; formats; `fnmatch` and the security callbacks; each against reference definitions, composed in `UtilCalls` | modelled, checked; safety of `StringCalls` proved |
| 9 | `InitMessages` | composes `DriverInit` with `SaveMessage`, implements `InitContract` | modelled, checked, safety and refinement proved |
| 10 | `Fnmatch`, `PathCalls` | its recursive operators as recursive functions, as `StringRoutines` and `NumberStrings` have them | modelled, checked, `OpensAreFiltered` proved |
| 11 | `Vsprintf` | the same, for `FormatsAsDefined`; and `MatchesAsDefined` for masks without negated sets | open |
