------------------------- MODULE KernelCalls_proofs -------------------------
(***************************************************************************)
(* Proofs about KernelCalls, and with it about FsThunks: however deep the  *)
(* calls of entry points and routines are nested, each of them finds its   *)
(* own parameters and leaves its caller's state as it was.                 *)
(***************************************************************************)
EXTENDS KernelCalls, FiniteSetTheorems, TLAPS

----------------------------------------------------------------------------
(* Counting.  Rank is the only operator that counts.                       *)

One(P) == IF P THEN 1 ELSE 0

\* Structures, blocks and prototypes have no more than twelve members.
LEMMA RankStep ==
  ASSUME NEW S, S \subseteq 1 .. 12
  PROVE  /\ Rank(S, 0) = 0
         /\ \A k \in 1 .. 12 : Rank(S, k) = Rank(S, k - 1) + One(k \in S)
         /\ \A k \in 0 .. 12 : Rank(S, k) \in Nat
<1> DEFINE Upto(k) == {i \in S : i <= k}
<1>1. \A i \in S : i \in Int /\ i >= 1
  OBVIOUS
<1>2. ASSUME NEW k \in 0 .. 12
      PROVE  /\ IsFiniteSet(Upto(k))
             /\ Rank(S, k) = Cardinality(Upto(k))
             /\ Rank(S, k) \in Nat
  <2>1. IsFiniteSet(1 .. 12)
    <3>1. 1 \in Int /\ 12 \in Int
      OBVIOUS
    <3> QED
      BY <3>1, FS_Interval
  <2>2. Upto(k) \subseteq 1 .. 12
    OBVIOUS
  <2>3. IsFiniteSet(Upto(k))
    BY <2>1, <2>2, FS_Subset
  <2>4. Rank(S, k) = Cardinality(Upto(k))
    BY DEF Rank
  <2> HIDE DEF Upto
  <2> QED
    BY <2>3, <2>4, FS_CardinalityType
<1>3. Upto(0) = {}
  <2>1. \A i \in S : ~(i <= 0)
    BY <1>1
  <2> QED
    BY <2>1, Zenon
<1>4. ASSUME NEW k \in 1 .. 12, k \in S
      PROVE  Rank(S, k) = Rank(S, k - 1) + 1
  <2>1. /\ \A i \in S : i <= k <=> i <= k - 1 \/ i = k
        /\ ~(k <= k - 1)
    BY <1>1
  <2>2. Upto(k) = Upto(k - 1) \cup {k} /\ k \notin Upto(k - 1)
    BY <1>4, <2>1, Zenon
  <2>3. k \in 0 .. 12 /\ k - 1 \in 0 .. 12
    OBVIOUS
  <2>4. /\ IsFiniteSet(Upto(k - 1))
        /\ Rank(S, k) = Cardinality(Upto(k))
        /\ Rank(S, k - 1) = Cardinality(Upto(k - 1))
    BY <1>2, <2>3
  <2> HIDE DEF Upto
  <2>5. Cardinality(Upto(k - 1) \cup {k}) = Cardinality(Upto(k - 1)) + 1
    BY <2>2, <2>4, FS_AddElement
  <2> QED
    BY <2>2, <2>4, <2>5, Zenon
<1>5. ASSUME NEW k \in 1 .. 12, k \notin S
      PROVE  Rank(S, k) = Rank(S, k - 1)
  <2>1. \A i \in S : i <= k <=> i <= k - 1
    BY <1>1, <1>5
  <2>2. Upto(k) = Upto(k - 1)
    BY <2>1
  <2>3. k \in 0 .. 12 /\ k - 1 \in 0 .. 12
    OBVIOUS
  <2> HIDE DEF Upto
  <2> QED
    BY <1>2, <2>2, <2>3
<1>6. Rank(S, 0) = 0
  <2> HIDE DEF Upto
  <2> QED
    BY <1>2, <1>3, FS_EmptySet
<1>7. \A k \in 1 .. 12 : Rank(S, k) = Rank(S, k - 1) + One(k \in S)
  <2> TAKE k \in 1 .. 12
  <2>1. CASE k \in S
    BY <1>4, <2>1 DEF One
  <2>2. CASE k \notin S
    <3>1. k - 1 \in 0 .. 12
      OBVIOUS
    <3> QED
      BY <1>2, <1>5, <2>2, <3>1 DEF One
  <2> QED
    BY <2>1, <2>2
<1> QED
  BY <1>2, <1>6, <1>7

\* Counting to the end of a structure counts all of it.
LEMMA CountAll ==
  ASSUME NEW S, S \subseteq 1 .. 12, NEW n \in 0 .. 12, S \subseteq 1 .. n
  PROVE  Cardinality(S) = Rank(S, n)
<1>1. \A i \in S : i <= n
  OBVIOUS
<1>2. {i \in S : i <= n} = S
  BY <1>1, Zenon
<1> QED
  BY <1>2 DEF Rank

----------------------------------------------------------------------------
(* The blocks of the entry points.                                         *)

LongAt(parms, i) == One(i \in DOMAIN parms /\ parms[i] # Parms!Short)
Longs(parms) ==
  LongAt(parms, 1) + LongAt(parms, 2) + LongAt(parms, 3) + LongAt(parms, 4)
  + LongAt(parms, 5) + LongAt(parms, 6) + LongAt(parms, 7) + LongAt(parms, 8)
  + LongAt(parms, 9) + LongAt(parms, 10) + LongAt(parms, 11) + LongAt(parms, 12)
Fits(parms, bytes) ==
  /\ parms \in Seq({Parms!Short, Parms!Long}) /\ Len(parms) \in 1 .. 12
  /\ 2 * (Len(parms) + Longs(parms)) = bytes

\* The structures of fsd32.h, without padding, have the sizes that the thunks pop.
LEMMA LayoutsFit ==
  ASSUME NEW e \in Thunked, e # "FILEATTRIBUTE"
  PROVE  Fits(Parms!Layout[e], ThunkSize[e])
<1> USE DEF Fits, Longs, LongAt, One, Parms!Short, Parms!Long, Parms!Far, ThunkSize
<1>1. Fits(Parms!fs32_allocatepagespace_parms, ThunkSize["ALLOCATEPAGESPACE"])
  BY DEF Parms!fs32_allocatepagespace_parms
<1>2. Fits(Parms!fs32_chdir_parms, ThunkSize["CHDIR"])
  BY DEF Parms!fs32_chdir_parms
<1>3. Fits(Parms!fs32_chgfileptr_parms, ThunkSize["CHGFILEPTR"])
  BY DEF Parms!fs32_chgfileptr_parms
<1>4. Fits(Parms!fs32_close_parms, ThunkSize["CLOSE"])
  BY DEF Parms!fs32_close_parms
<1>5. Fits(Parms!fs32_commit_parms, ThunkSize["COMMIT"])
  BY DEF Parms!fs32_commit_parms
<1>6. Fits(Parms!fs32_dopageio_parms, ThunkSize["DOPAGEIO"])
  BY DEF Parms!fs32_dopageio_parms
<1>7. Fits(Parms!fs32_delete_parms, ThunkSize["DELETE"])
  BY DEF Parms!fs32_delete_parms
<1>8. Fits(Parms!fs32_exit_parms, ThunkSize["EXIT"])
  BY DEF Parms!fs32_exit_parms
<1>9. Fits(Parms!fs32_fileinfo_parms, ThunkSize["FILEINFO"])
  BY DEF Parms!fs32_fileinfo_parms
<1>10. Fits(Parms!fs32_findclose_parms, ThunkSize["FINDCLOSE"])
  BY DEF Parms!fs32_findclose_parms
<1>11. Fits(Parms!fs32_findfirst_parms, ThunkSize["FINDFIRST"])
  BY DEF Parms!fs32_findfirst_parms
<1>12. Fits(Parms!fs32_findfromname_parms, ThunkSize["FINDFROMNAME"])
  BY DEF Parms!fs32_findfromname_parms
<1>13. Fits(Parms!fs32_findnext_parms, ThunkSize["FINDNEXT"])
  BY DEF Parms!fs32_findnext_parms
<1>14. Fits(Parms!fs32_flushbuf_parms, ThunkSize["FLUSHBUF"])
  BY DEF Parms!fs32_flushbuf_parms
<1>15. Fits(Parms!fs32_fsctl_parms, ThunkSize["FSCTL"])
  BY DEF Parms!fs32_fsctl_parms
<1>16. Fits(Parms!fs32_fsinfo_parms, ThunkSize["FSINFO"])
  BY DEF Parms!fs32_fsinfo_parms
<1>17. Fits(Parms!fs32_ioctl_parms, ThunkSize["IOCTL"])
  BY DEF Parms!fs32_ioctl_parms
<1>18. Fits(Parms!fs32_mkdir_parms, ThunkSize["MKDIR"])
  BY DEF Parms!fs32_mkdir_parms
<1>19. Fits(Parms!fs32_mount_parms, ThunkSize["MOUNT"])
  BY DEF Parms!fs32_mount_parms
<1>20. Fits(Parms!fs32_move_parms, ThunkSize["MOVE"])
  BY DEF Parms!fs32_move_parms
<1>21. Fits(Parms!fs32_newsize_parms, ThunkSize["NEWSIZE"])
  BY DEF Parms!fs32_newsize_parms
<1>22. Fits(Parms!fs32_opencreate_parms, ThunkSize["OPENCREATE"])
  BY DEF Parms!fs32_opencreate_parms
<1>23. Fits(Parms!fs32_openpagefile_parms, ThunkSize["OPENPAGEFILE"])
  BY DEF Parms!fs32_openpagefile_parms
<1>24. Fits(Parms!fs32_pathinfo_parms, ThunkSize["PATHINFO"])
  BY DEF Parms!fs32_pathinfo_parms
<1>25. Fits(Parms!fs32_read_parms, ThunkSize["READ"])
  BY DEF Parms!fs32_read_parms
<1>26. Fits(Parms!fs32_rmdir_parms, ThunkSize["RMDIR"])
  BY DEF Parms!fs32_rmdir_parms
<1>27. Fits(Parms!fs32_shutdown_parms, ThunkSize["SHUTDOWN"])
  BY DEF Parms!fs32_shutdown_parms
<1>28. Fits(Parms!fs32_write_parms, ThunkSize["WRITE"])
  BY DEF Parms!fs32_write_parms
<1> HIDE DEF Fits, Longs, LongAt, One, Parms!Short, Parms!Long, Parms!Far
<1> QED
  BY <1>1, <1>2, <1>3, <1>4, <1>5, <1>6, <1>7, <1>8, <1>9, <1>10, <1>11, <1>12, <1>13, <1>14,
     <1>15, <1>16, <1>17, <1>18, <1>19, <1>20, <1>21, <1>22, <1>23, <1>24, <1>25, <1>26, <1>27, <1>28
  DEF Thunked, Parms!Layout

\* The thunk of every entry point but FS_FILEATTRIBUTE takes exactly the block
\* off the stack that the structure in fsd32.h declares.
LEMMA BlocksMatch ==
  ASSUME NEW e \in Thunked, e # "FILEATTRIBUTE"
  PROVE  BlockWords(e) \in Nat /\ 2 * BlockWords(e) = ThunkSize[e]
<1> DEFINE parms == Parms!Layout[e]
           S == {i \in DOMAIN parms : parms[i] # Parms!Short}
<1>1. Fits(parms, ThunkSize[e])
  BY LayoutsFit
<1>2. S \subseteq 1 .. 12 /\ Len(parms) \in Nat
  BY <1>1 DEF Fits
<1>3. Cardinality(S) = Rank(S, 12)
  BY <1>2, CountAll
<1>4. \A i \in 1 .. 12 : One(i \in S) = LongAt(parms, i)
  BY DEF LongAt, One
<1>5. BlockWords(e) = Len(parms) + Rank(S, 12)
  BY <1>3 DEF BlockWords, WordsOf
<1> HIDE DEF S, parms
<1>6. Rank(S, 12) = Longs(parms)
  <2>1. /\ Rank(S, 0) = 0
        /\ \A k \in 1 .. 12 : Rank(S, k) = Rank(S, k - 1) + LongAt(parms, k)
        /\ \A k \in 0 .. 12 : Rank(S, k) \in Nat
    BY <1>2, <1>4, RankStep
  <2>2. \A k \in 1 .. 12 : LongAt(parms, k) \in Nat
    BY DEF LongAt, One
  <2>3. /\ Rank(S, 1) = LongAt(parms, 1)
        /\ Rank(S, 2) = Rank(S, 1) + LongAt(parms, 2)
        /\ Rank(S, 3) = Rank(S, 2) + LongAt(parms, 3)
        /\ Rank(S, 4) = Rank(S, 3) + LongAt(parms, 4)
        /\ Rank(S, 5) = Rank(S, 4) + LongAt(parms, 5)
        /\ Rank(S, 6) = Rank(S, 5) + LongAt(parms, 6)
        /\ Rank(S, 7) = Rank(S, 6) + LongAt(parms, 7)
        /\ Rank(S, 8) = Rank(S, 7) + LongAt(parms, 8)
        /\ Rank(S, 9) = Rank(S, 8) + LongAt(parms, 9)
        /\ Rank(S, 10) = Rank(S, 9) + LongAt(parms, 10)
        /\ Rank(S, 11) = Rank(S, 10) + LongAt(parms, 11)
        /\ Rank(S, 12) = Rank(S, 11) + LongAt(parms, 12)
    BY <2>1, <2>2
  <2> QED
    BY <2>1, <2>2, <2>3 DEF Longs
<1>7. \A i : LongAt(parms, i) \in Nat
  BY DEF LongAt, One
<1>8. Longs(parms) \in Nat
  BY <1>7 DEF Longs
<1>9. 2 * (Len(parms) + Longs(parms)) = ThunkSize[e]
  BY <1>1 DEF Fits
<1> QED
  BY <1>2, <1>5, <1>6, <1>8, <1>9

\* The words of the blocks that thunk_fs and nothunk_fs pop are those pushed.
LEMMA BlockSizes ==
  ASSUME NEW e \in Thunked \cup NotThunked, e # "FILEATTRIBUTE"
  PROVE  /\ BlockWords(e) \in Nat \ {0}
         /\ e \in Thunked => BlockWords(e) = ThunkSize[e] \div 2
         /\ e \in NotThunked => BlockWords(e) = NoThunkSize[e] \div 2
<1>1. CASE e \in Thunked
  <2>1. BlockWords(e) \in Nat /\ 2 * BlockWords(e) = ThunkSize[e]
    BY <1>1, BlocksMatch
  <2>2. ThunkSize[e] \in Nat /\ ThunkSize[e] >= 4 /\ e \notin NotThunked
    BY <1>1 DEF Thunked, NotThunked, ThunkSize, NoThunkSize
  <2> QED
    BY <1>1, <2>1, <2>2
<1>2. CASE e \in NotThunked
  <2>1. e \notin Thunked /\ NoThunkSize[e] \in Nat /\ NoThunkSize[e] >= 2
    BY <1>2 DEF Thunked, NotThunked, ThunkSize, NoThunkSize
  <2> QED
    BY <1>2, <2>1 DEF BlockWords
<1> QED
  BY <1>1, <1>2

----------------------------------------------------------------------------
(* The descriptions of the routines.                                       *)

Segments == {"ds", "es"}
Locals == 0 .. 8          \* offsets of local variables; 0 stands for a register

\* Words of parameters on the stack, and what lies there between their last one
\* and the place from which a thunk counts its offsets.
ArgCount(p) == IF p.optlink THEN 0 ELSE 2 * Len(p.args)
Shift(t) == IF t.local = NoFrame THEN 2 * Len(t.pushes) ELSE 2

\* An offset that does not reach beyond the first parameter.
Reads(t, p, off) ==
  off \in Nat /\ off % 2 = 0 /\ off \div 2 <= Shift(t) + ArgCount(p) + 1

\* What is pushed is popped in the opposite order; what a thunk changes and its
\* caller keeps is pushed.
Balanced(t) ==
  /\ t.pushes \in Seq(Registers \cup Segments)
  /\ t.pops \in Seq(Registers \cup Segments)
  /\ Len(t.pops) = Len(t.pushes)
  /\ \A j \in 1 .. Len(t.pushes) : t.pops[j] = t.pushes[Len(t.pushes) + 1 - j]
  /\ \A i, j \in 1 .. Len(t.pushes) : t.pushes[i] = t.pushes[j] => i = j
  /\ "ds" \notin Range(t.pushes) => t.ds = FlatDS
  /\ "es" \notin Range(t.pushes) => t.es = FlatDS /\ t.via # "far"
  /\ t.via = "far" => "ebx" \in Range(t.pushes)
  /\ \A l \in Range(t.loads) : l.reg \in CalleeSaved => l.reg \in Range(t.pushes)

\* Everything that a thunk reads is there.
LoadReads(t, p, l) ==
  CASE l.from = "stack"   -> Reads(t, p, l.off) /\ Reads(t, p, l.off + 2)
    [] l.from = "stack16" -> Reads(t, p, l.off)
    [] OTHER              -> l.from \in Registers
BlockReads(t, p, w) ==
  \/ w.from = "arg" /\ Reads(t, p, w.off) /\ (w.off \div 2) - Shift(t) >= 2
  \/ w.from \in {"low", "high"} /\ w.reg \in Registers
  \/ w.from \in {"ss", "local", "size"} /\ w.off \in Locals
Readable(t, p) ==
  /\ t.local \in Nat \cup {NoFrame} /\ t.ds \in Int /\ t.es \in Int
  /\ p.optlink \in BOOLEAN /\ Len(p.args) \in Nat
  /\ \A l \in Range(t.loads) : l.reg \in Registers /\ LoadReads(t, p, l)
  /\ \A l, l2 \in Range(t.loads) : l.reg = l2.reg => l = l2
  /\ Len(t.stores) \in Nat \ {0}
  /\ \A k \in 1 .. Len(t.stores) : \A a \in Range(t.stores[k]) :
       Reads(t, p, a[1]) /\ a[2] \in Locals
  /\ Len(t.stores) > 1 \/ t.via = "none" => t.block = <<>>
Pushable(t, p) ==
  /\ Len(t.block) \in Nat /\ DOMAIN t.block = 1 .. Len(t.block)
  /\ \A j \in DOMAIN t.block : BlockReads(t, p, t.block[j])

Sound(t, p) == Balanced(t) /\ Readable(t, p) /\ Pushable(t, p)

\* Each thunk is sound with respect to its prototype in the headers.
LEMMA DescriptionsSound ==
  ASSUME NEW r \in DOMAIN Description
  PROVE  Sound(Description[r], Interface!Declared[r])
<1> USE DEF Sound, Balanced, Readable, Pushable, Reads, LoadReads, BlockReads, Shift, ArgCount,
        Segments, Locals, Registers, CalleeSaved, Range, NoFrame, FlatDS, StackSel, AnchorSel,
        DriverSel, Thunk, DevHlp, Fsh, In, InLow, InReg, Item, Arg, High, Low, SS, Local, Size, EventSem, Interface!System, Interface!Optlink, Interface!Long,
        Interface!Short, Interface!Answer, Interface!Linked
<1>1. Sound(Compiled, Interface!vsprintf)
  BY DEF Compiled, Interface!vsprintf
<1>2. Sound(Compiled, Interface!strtoul)
  BY DEF Compiled, Interface!strtoul
<1>3. Sound(Compiled, Interface!strtol)
  BY DEF Compiled, Interface!strtol
<1>4. Sound(Compiled, Interface!atol)
  BY DEF Compiled, Interface!atol
<1>5. Sound(Compiled, Interface!strupr)
  BY DEF Compiled, Interface!strupr
<1>6. Sound(Compiled, Interface!strpbrk)
  BY DEF Compiled, Interface!strpbrk
<1>7. Sound(Compiled, Interface!fnmatch)
  BY DEF Compiled, Interface!fnmatch
<1>8. Sound(Compiled, Interface!sec32_attach_ses)
  BY DEF Compiled, Interface!sec32_attach_ses
<1>9. Sound(Compiled, Interface!AllocGDTSelector)
  BY DEF Compiled, Interface!AllocGDTSelector
<1>10. Sound(Compiled, Interface!AttachDD)
  BY DEF Compiled, Interface!AttachDD
<1>11. Sound(VMAlloc, Interface!VMAlloc)
  BY DEF VMAlloc, Interface!VMAlloc
<1>12. Sound(VMFree, Interface!VMFree)
  BY DEF VMFree, Interface!VMFree
<1>13. Sound(VMLock, Interface!VMLock)
  BY DEF VMLock, Interface!VMLock
<1>14. Sound(VMUnlock, Interface!VMUnlock)
  BY DEF VMUnlock, Interface!VMUnlock
<1>15. Sound(VirtToLin, Interface!VirtToLin)
  BY DEF VirtToLin, Interface!VirtToLin
<1>16. Sound(VerifyAccess, Interface!VerifyAccess)
  BY DEF VerifyAccess, Interface!VerifyAccess
<1>17. Sound(LinToPageList, Interface!LinToPageList)
  BY DEF LinToPageList, Interface!LinToPageList
<1>18. Sound(PageListToLin, Interface!PageListToLin)
  BY DEF PageListToLin, Interface!PageListToLin
<1>19. Sound(GetDosVar, Interface!GetDosVar)
  BY DEF GetDosVar, Interface!GetDosVar
<1>20. Sound(GetInfoSegs, Interface!GetInfoSegs)
  BY DEF GetInfoSegs, Interface!GetInfoSegs
<1>21. Sound(Security, Interface!Security)
  BY DEF Security, Interface!Security
<1>22. Sound(AllocOneGDTSelector, Interface!AllocOneGDTSelector)
  BY DEF AllocOneGDTSelector, Interface!AllocOneGDTSelector
<1>23. Sound(FreeGDTSelector, Interface!FreeGDTSelector)
  BY DEF FreeGDTSelector, Interface!FreeGDTSelector
<1>24. Sound(AttachToDD, Interface!AttachToDD)
  BY DEF AttachToDD, Interface!AttachToDD
<1>25. Sound(setIRQ, Interface!setIRQ)
  BY DEF setIRQ, Interface!setIRQ
<1>26. Sound(UnSetIRQ, Interface!UnSetIRQ)
  BY DEF UnSetIRQ, Interface!UnSetIRQ
<1>27. Sound(EOI, Interface!EOI)
  BY DEF EOI, Interface!EOI
<1>28. Sound(ProcBlock, Interface!ProcBlock)
  BY SMTT(30) DEF ProcBlock, Interface!ProcBlock
<1>29. Sound(ProcRun, Interface!ProcRun)
  BY DEF ProcRun, Interface!ProcRun
<1>30. Sound(Yield, Interface!Yield)
  BY DEF Yield, Interface!Yield
<1>31. Sound(OpenEventSem, Interface!OpenEventSem)
  BY DEF OpenEventSem, Interface!OpenEventSem
<1>32. Sound(CloseEventSem, Interface!CloseEventSem)
  BY DEF CloseEventSem, Interface!CloseEventSem
<1>33. Sound(PostEventSem, Interface!PostEventSem)
  BY DEF PostEventSem, Interface!PostEventSem
<1>34. Sound(ResetEventSem, Interface!ResetEventSem)
  BY DEF ResetEventSem, Interface!ResetEventSem
<1>35. Sound(addshare, Interface!addshare)
  <2> DEFINE t == addshare  p == Interface!addshare
  <2>1. Balanced(t) /\ Readable(t, p)
    BY DEF addshare, Interface!addshare
  <2>2. t.block = <<Arg(10), Arg(8), Arg(12), Arg(16), SS, Local(4)>>
    BY DEF addshare
  <2>3. /\ BlockReads(t, p, Arg(10))
        /\ BlockReads(t, p, Arg(8))
        /\ BlockReads(t, p, Arg(12))
        /\ BlockReads(t, p, Arg(16))
        /\ BlockReads(t, p, SS)
        /\ BlockReads(t, p, Local(4))
    BY DEF addshare, Interface!addshare
  <2> HIDE DEF t, p, BlockReads, Item, Arg, SS, Local, Size
  <2>4. Pushable(t, p)
    BY <2>2, <2>3
  <2> HIDE DEF Balanced, Readable, Pushable
  <2> QED
    BY <2>1, <2>4 DEF t, p
<1>36. Sound(devioctl, Interface!devioctl)
  <2> DEFINE t == devioctl  p == Interface!devioctl
  <2>1. Balanced(t) /\ Readable(t, p)
    BY DEF devioctl, Interface!devioctl
  <2>2. t.block = <<Arg(8), Arg(14), Arg(12), Arg(16), Arg(20), Arg(24),
                    Arg(30), Arg(28), Arg(32), Arg(38), Arg(36), Arg(40)>>
    BY DEF devioctl
  <2>3. /\ BlockReads(t, p, Arg(8))
        /\ BlockReads(t, p, Arg(14))
        /\ BlockReads(t, p, Arg(12))
        /\ BlockReads(t, p, Arg(16))
        /\ BlockReads(t, p, Arg(20))
        /\ BlockReads(t, p, Arg(24))
        /\ BlockReads(t, p, Arg(30))
        /\ BlockReads(t, p, Arg(28))
        /\ BlockReads(t, p, Arg(32))
        /\ BlockReads(t, p, Arg(38))
        /\ BlockReads(t, p, Arg(36))
        /\ BlockReads(t, p, Arg(40))
    BY DEF devioctl, Interface!devioctl
  <2> HIDE DEF t, p, BlockReads, Item, Arg, SS, Local, Size
  <2>4. Pushable(t, p)
    BY <2>2, <2>3
  <2> HIDE DEF Balanced, Readable, Pushable
  <2> QED
    BY <2>1, <2>4 DEF t, p
<1>37. Sound(findduphvpb, Interface!findduphvpb)
  <2> DEFINE t == findduphvpb  p == Interface!findduphvpb
  <2>1. Balanced(t) /\ Readable(t, p)
    BY DEF findduphvpb, Interface!findduphvpb
  <2>2. t.block = <<Arg(8), SS, Local(2)>>
    BY DEF findduphvpb
  <2>3. /\ BlockReads(t, p, Arg(8))
        /\ BlockReads(t, p, SS)
        /\ BlockReads(t, p, Local(2))
    BY DEF findduphvpb, Interface!findduphvpb
  <2> HIDE DEF t, p, BlockReads, Item, Arg, SS, Local, Size
  <2>4. Pushable(t, p)
    BY <2>2, <2>3
  <2> HIDE DEF Balanced, Readable, Pushable
  <2> QED
    BY <2>1, <2>4 DEF t, p
<1>38. Sound(getvolparm, Interface!getvolparm)
  <2> DEFINE t == getvolparm  p == Interface!getvolparm
  <2>1. Balanced(t) /\ Readable(t, p)
    BY DEF getvolparm, Interface!getvolparm
  <2>2. t.block = <<Arg(8), SS, Local(4), SS, Local(8)>>
    BY DEF getvolparm
  <2>3. /\ BlockReads(t, p, Arg(8))
        /\ BlockReads(t, p, SS)
        /\ BlockReads(t, p, Local(4))
        /\ BlockReads(t, p, Local(8))
    BY DEF getvolparm, Interface!getvolparm
  <2> HIDE DEF t, p, BlockReads, Item, Arg, SS, Local, Size
  <2>4. Pushable(t, p)
    BY <2>2, <2>3
  <2> HIDE DEF Balanced, Readable, Pushable
  <2> QED
    BY <2>1, <2>4 DEF t, p
<1>39. Sound(qsysinfo, Interface!qsysinfo)
  <2> DEFINE t == qsysinfo  p == Interface!qsysinfo
  <2>1. Balanced(t) /\ Readable(t, p)
    BY DEF qsysinfo, Interface!qsysinfo
  <2>2. t.block = <<Arg(8), SS, Local(6), Size(6)>>
    BY DEF qsysinfo
  <2>3. /\ BlockReads(t, p, Arg(8))
        /\ BlockReads(t, p, SS)
        /\ BlockReads(t, p, Local(6))
        /\ BlockReads(t, p, Size(6))
    BY DEF qsysinfo, Interface!qsysinfo
  <2> HIDE DEF t, p, BlockReads, Item, Arg, SS, Local, Size
  <2>4. Pushable(t, p)
    BY <2>2, <2>3
  <2> HIDE DEF Balanced, Readable, Pushable
  <2> QED
    BY <2>1, <2>4 DEF t, p
<1>40. Sound(segalloc, Interface!segalloc)
  <2> DEFINE t == segalloc  p == Interface!segalloc
  <2>1. Balanced(t) /\ Readable(t, p)
    BY DEF segalloc, Interface!segalloc
  <2>2. t.block = <<Arg(8), Arg(14), Arg(12), SS, Local(4)>>
    BY DEF segalloc
  <2>3. /\ BlockReads(t, p, Arg(8))
        /\ BlockReads(t, p, Arg(14))
        /\ BlockReads(t, p, Arg(12))
        /\ BlockReads(t, p, SS)
        /\ BlockReads(t, p, Local(4))
    BY DEF segalloc, Interface!segalloc
  <2> HIDE DEF t, p, BlockReads, Item, Arg, SS, Local, Size
  <2>4. Pushable(t, p)
    BY <2>2, <2>3
  <2> HIDE DEF Balanced, Readable, Pushable
  <2> QED
    BY <2>1, <2>4 DEF t, p
<1>41. Sound(ioboost, Interface!ioboost)
  BY DEF ioboost, Interface!ioboost
<1>42. Sound(removeshare, Interface!removeshare)
  BY DEF removeshare, Interface!removeshare
<1>43. Sound(forcenoswap, Interface!forcenoswap)
  BY DEF forcenoswap, Interface!forcenoswap
<1>44. Sound(setvolume, Interface!setvolume)
  BY DEF setvolume, Interface!setvolume
<1> HIDE DEF Sound
<1> QED
  BY SMTT(60), <1>1, <1>2, <1>3, <1>4, <1>5, <1>6, <1>7, <1>8, <1>9, <1>10, <1>11, <1>12, <1>13, <1>14,
     <1>15, <1>16, <1>17, <1>18, <1>19, <1>20, <1>21, <1>22, <1>23, <1>24, <1>25, <1>26, <1>27, <1>28,
     <1>29, <1>30, <1>31, <1>32, <1>33, <1>34, <1>35, <1>36, <1>37, <1>38, <1>39, <1>40, <1>41, <1>42,
     <1>43, <1>44
  DEF Description, Interface!Declared

----------------------------------------------------------------------------
(* The table of entry points.                                              *)

Services == DOMAIN Interface!Declared

\* A layout of the header is the beginning of what the initializer lists.
IsHead(layout, n) ==
  /\ layout \in Seq(Services) /\ Len(layout) = n
  /\ \A i \in 1 .. n : layout[i] = Interface!DevHlp32[i]

\* A beginning of the table and the members that follow make a longer one.
LEMMA HeadGrows ==
  ASSUME NEW n \in Nat, NEW m \in Nat, NEW s, NEW t \in Seq(Services), IsHead(s, n),
         Len(t) = m, \A i \in 1 .. m : t[i] = Interface!DevHlp32[n + i]
  PROVE  IsHead(s \o t, n + m)
<1>1. s \in Seq(Services) /\ Len(s) = n /\ \A i \in 1 .. n : s[i] = Interface!DevHlp32[i]
  BY DEF IsHead
<1>2. s \o t \in Seq(Services)
  BY <1>1
<1>3. Len(s \o t) = n + m
  <2>1. s \in Seq(Services)
    BY <1>1
  <2>2. Len(s \o t) = Len(s) + Len(t)
    BY <2>1
  <2> QED
    BY <1>1, <2>2
<1>4. \A i \in 1 .. n : (s \o t)[i] = s[i]
  BY <1>1
<1>5. \A i \in n + 1 .. n + m : (s \o t)[i] = t[i - n] /\ i - n \in 1 .. m /\ n + (i - n) = i
  BY <1>1
<1>6. ASSUME NEW i \in 1 .. n + m
      PROVE  (s \o t)[i] = Interface!DevHlp32[i]
  <2>1. CASE i \in 1 .. n
    BY <1>1, <1>4, <2>1
  <2>2. CASE i \in n + 1 .. n + m
    BY <1>5, <2>2
  <2>3. i \in 1 .. n \/ i \in n + 1 .. n + m
    OBVIOUS
  <2> QED
    BY <2>1, <2>2, <2>3
<1> QED
  BY <1>2, <1>6, <1>3 DEF IsHead

\* The table that each version of the headers knows is a beginning of that of mwdd32.sys.
LEMMA LayoutsAreHeads ==
  /\ IsHead(Interface!Layouts[1], 12)
  /\ IsHead(Interface!Layouts[2], 19)
  /\ IsHead(Interface!Layouts[3], 20)
  /\ IsHead(Interface!Layouts[4], 21)
  /\ IsHead(Interface!Layouts[5], 24)
  /\ IsHead(Interface!Layouts[6], 29)
  /\ IsHead(Interface!Layouts[7], 34)
<1>1. IsHead(Interface!version_1, 12)
  BY DEF IsHead, Interface!version_1, Interface!DevHlp32, Services, Interface!Declared
<1>2. IsHead(Interface!version_2, 19)
  <2> DEFINE new == <<"GetInfoSegs", "vsprintf", "strtoul", "atol", "strupr", "strpbrk",
           "fnmatch">>
  <2>1. Interface!version_2 = Interface!version_1 \o new
    BY DEF Interface!version_2
  <2>2. \A i \in 1 .. 7 : new[i] = Interface!DevHlp32[12 + i]
    BY DEF Interface!DevHlp32
  <2>3. Len(new) = 7 /\ new \in Seq(Services)
    BY DEF Services, Interface!Declared
  <2> HIDE DEF new
  <2>4. IsHead(Interface!version_1 \o new, 12 + 7)
    BY <1>1, <2>2, <2>3, HeadGrows
  <2> QED
    BY <1>1, <2>1, <2>4
<1>3. IsHead(Interface!version_3, 20)
  <2> DEFINE new == <<"strtol">>
  <2>1. Interface!version_3 = Interface!version_2 \o new
    BY DEF Interface!version_3
  <2>2. \A i \in 1 .. 1 : new[i] = Interface!DevHlp32[19 + i]
    BY DEF Interface!DevHlp32
  <2>3. Len(new) = 1 /\ new \in Seq(Services)
    BY DEF Services, Interface!Declared
  <2> HIDE DEF new
  <2>4. IsHead(Interface!version_2 \o new, 19 + 1)
    BY <1>2, <2>2, <2>3, HeadGrows
  <2> QED
    BY <1>2, <2>1, <2>4
<1>4. IsHead(Interface!version_4, 21)
  <2> DEFINE new == <<"sec32_attach_ses">>
  <2>1. Interface!version_4 = Interface!version_3 \o new
    BY DEF Interface!version_4
  <2>2. \A i \in 1 .. 1 : new[i] = Interface!DevHlp32[20 + i]
    BY DEF Interface!DevHlp32
  <2>3. Len(new) = 1 /\ new \in Seq(Services)
    BY DEF Services, Interface!Declared
  <2> HIDE DEF new
  <2>4. IsHead(Interface!version_3 \o new, 20 + 1)
    BY <1>3, <2>2, <2>3, HeadGrows
  <2> QED
    BY <1>3, <2>1, <2>4
<1>5. IsHead(Interface!version_5, 24)
  <2> DEFINE new == <<"setIRQ", "EOI", "UnSetIRQ">>
  <2>1. Interface!version_5 = Interface!version_4 \o new
    BY DEF Interface!version_5
  <2>2. \A i \in 1 .. 3 : new[i] = Interface!DevHlp32[21 + i]
    BY DEF Interface!DevHlp32
  <2>3. Len(new) = 3 /\ new \in Seq(Services)
    BY DEF Services, Interface!Declared
  <2> HIDE DEF new
  <2>4. IsHead(Interface!version_4 \o new, 21 + 3)
    BY <1>4, <2>2, <2>3, HeadGrows
  <2> QED
    BY <1>4, <2>1, <2>4
<1>6. IsHead(Interface!version_6, 29)
  <2> DEFINE new == <<"PageListToLin", "AllocGDTSelector", "FreeGDTSelector", "AttachDD",
           "GetDosVar">>
  <2>1. Interface!version_6 = Interface!version_5 \o new
    BY DEF Interface!version_6
  <2>2. \A i \in 1 .. 5 : new[i] = Interface!DevHlp32[24 + i]
    BY DEF Interface!DevHlp32
  <2>3. Len(new) = 5 /\ new \in Seq(Services)
    BY DEF Services, Interface!Declared
  <2> HIDE DEF new
  <2>4. IsHead(Interface!version_5 \o new, 24 + 5)
    BY <1>5, <2>2, <2>3, HeadGrows
  <2> QED
    BY <1>5, <2>1, <2>4
<1>7. IsHead(Interface!version_7, 34)
  <2> DEFINE new == <<"VerifyAccess", "CloseEventSem", "OpenEventSem", "PostEventSem",
           "ResetEventSem">>
  <2>1. Interface!version_7 = Interface!version_6 \o new
    BY DEF Interface!version_7
  <2>2. \A i \in 1 .. 5 : new[i] = Interface!DevHlp32[29 + i]
    BY DEF Interface!DevHlp32
  <2>3. Len(new) = 5 /\ new \in Seq(Services)
    BY DEF Services, Interface!Declared
  <2> HIDE DEF new
  <2>4. IsHead(Interface!version_6 \o new, 29 + 5)
    BY <1>6, <2>2, <2>3, HeadGrows
  <2> QED
    BY <1>6, <2>1, <2>4
<1> QED
  BY <1>1, <1>2, <1>3, <1>4, <1>5, <1>6, <1>7 DEF Interface!Layouts

\* The services that each version of the table introduced, and what is linked.
Introduced ==
  <<{"SaveMessage", "InternalError", "VMAlloc", "VMFree", "VMLock", "VMUnlock",
      "VirtToLin", "ProcBlock", "ProcRun", "LinToPageList", "Security", "Yield"},
    {"GetInfoSegs", "vsprintf", "strtoul", "atol", "strupr", "strpbrk", "fnmatch"},
    {"strtol"},
    {"sec32_attach_ses"},
    {"setIRQ", "EOI", "UnSetIRQ"},
    {"PageListToLin", "AllocGDTSelector", "FreeGDTSelector", "AttachDD", "GetDosVar"},
    {"VerifyAccess", "CloseEventSem", "OpenEventSem", "PostEventSem", "ResetEventSem"},
    {"AllocOneGDTSelector", "AttachToDD", "segalloc", "qsysinfo", "getvolparm",
      "devioctl", "findduphvpb", "forcenoswap", "addshare", "removeshare", "setvolume",
      "ioboost"}>>

\* Every routine that is looked up is declared with one of the versions.
LEMMA VersionsDeclared ==
  /\ Services \subseteq UNION {Introduced[k] : k \in 1 .. 8}
  /\ \A k \in 1 .. 8 : \A s \in Introduced[k] :
       Interface!Declared[s].version = IF k = 8 THEN Interface!Linked ELSE k
<1>1. \A s \in Introduced[1] : Interface!Declared[s].version = 1
  BY DEF Introduced, Interface!Declared, Interface!System, Interface!Optlink,
         Interface!SaveMessage, Interface!InternalError, Interface!VMAlloc,
         Interface!VMFree, Interface!VMLock, Interface!VMUnlock, Interface!VirtToLin,
         Interface!ProcBlock, Interface!ProcRun, Interface!LinToPageList,
         Interface!Security, Interface!Yield
<1>2. \A s \in Introduced[2] : Interface!Declared[s].version = 2
  BY DEF Introduced, Interface!Declared, Interface!System, Interface!Optlink,
         Interface!GetInfoSegs, Interface!vsprintf, Interface!strtoul, Interface!atol,
         Interface!strupr, Interface!strpbrk, Interface!fnmatch
<1>3. \A s \in Introduced[3] : Interface!Declared[s].version = 3
  BY DEF Introduced, Interface!Declared, Interface!System, Interface!Optlink,
         Interface!strtol
<1>4. \A s \in Introduced[4] : Interface!Declared[s].version = 4
  BY DEF Introduced, Interface!Declared, Interface!System, Interface!Optlink,
         Interface!sec32_attach_ses
<1>5. \A s \in Introduced[5] : Interface!Declared[s].version = 5
  BY DEF Introduced, Interface!Declared, Interface!System, Interface!Optlink,
         Interface!setIRQ, Interface!EOI, Interface!UnSetIRQ
<1>6. \A s \in Introduced[6] : Interface!Declared[s].version = 6
  BY DEF Introduced, Interface!Declared, Interface!System, Interface!Optlink,
         Interface!PageListToLin, Interface!AllocGDTSelector, Interface!FreeGDTSelector,
         Interface!AttachDD, Interface!GetDosVar
<1>7. \A s \in Introduced[7] : Interface!Declared[s].version = 7
  BY DEF Introduced, Interface!Declared, Interface!System, Interface!Optlink,
         Interface!VerifyAccess, Interface!CloseEventSem, Interface!OpenEventSem,
         Interface!PostEventSem, Interface!ResetEventSem
<1>8. \A s \in Introduced[8] : Interface!Declared[s].version = Interface!Linked
  BY DEF Introduced, Interface!Declared, Interface!System, Interface!Optlink,
         Interface!AllocOneGDTSelector, Interface!AttachToDD, Interface!segalloc,
         Interface!qsysinfo, Interface!getvolparm, Interface!devioctl,
         Interface!findduphvpb, Interface!forcenoswap, Interface!addshare,
         Interface!removeshare, Interface!setvolume, Interface!ioboost
<1>9. ASSUME NEW s \in Services
      PROVE  \E k \in 1 .. 8 : s \in Introduced[k]
  BY DEF Services, Interface!Declared, Introduced
<1> QED
  BY <1>1, <1>2, <1>3, <1>4, <1>5, <1>6, <1>7, <1>8, <1>9

\* Each service lies in the layout in which the header looks it up.
Looks(r) ==
  \E n \in {12, 19, 20, 21, 24, 29, 34} :
     /\ Interface!Declared[r].version \in 1 .. 7
     /\ IsHead(Interface!Layouts[Interface!Declared[r].version], n)
     /\ \E i \in 1 .. n : Interface!DevHlp32[i] = r

\* A routine that is looked up is in the table of the version it is declared with.
LEMMA ServicesListed ==
  ASSUME NEW r \in Services, Interface!Declared[r].version # Interface!Linked
  PROVE  Looks(r)
<1> DEFINE v == Interface!Declared[r].version
<1>1. PICK k \in 1 .. 7 : v = k /\ r \in Introduced[k]
  BY VersionsDeclared
<1>2. \A s \in Introduced[1] : \E i \in 1 .. 12 : Interface!DevHlp32[i] = s
  BY DEF Introduced, Interface!DevHlp32
<1>3. \A s \in Introduced[2] : \E i \in 1 .. 19 : Interface!DevHlp32[i] = s
  BY DEF Introduced, Interface!DevHlp32
<1>4. \A s \in Introduced[3] : \E i \in 1 .. 20 : Interface!DevHlp32[i] = s
  BY DEF Introduced, Interface!DevHlp32
<1>5. \A s \in Introduced[4] : \E i \in 1 .. 21 : Interface!DevHlp32[i] = s
  BY DEF Introduced, Interface!DevHlp32
<1>6. \A s \in Introduced[5] : \E i \in 1 .. 24 : Interface!DevHlp32[i] = s
  BY DEF Introduced, Interface!DevHlp32
<1>7. \A s \in Introduced[6] : \E i \in 1 .. 29 : Interface!DevHlp32[i] = s
  BY DEF Introduced, Interface!DevHlp32
<1>8. \A s \in Introduced[7] : \E i \in 1 .. 34 : Interface!DevHlp32[i] = s
  BY DEF Introduced, Interface!DevHlp32
<1> HIDE DEF v
<1> QED
  BY <1>1, <1>2, <1>3, <1>4, <1>5, <1>6, <1>7, <1>8, LayoutsAreHeads DEF Looks, v

\* A call through the table reaches the routine that it names.
LEMMA RoutinesReached ==
  ASSUME NEW r \in Services
  PROVE  Interface!Reached(r) = r
<1>1. CASE Interface!Declared[r].version = Interface!Linked
  BY <1>1 DEF Interface!Reached
<1>2. CASE Interface!Declared[r].version # Interface!Linked
  <2> DEFINE layout == Interface!Layouts[Interface!Declared[r].version]
  <2>1. PICK n \in {12, 19, 20, 21, 24, 29, 34} :
           IsHead(layout, n) /\ \E i \in 1 .. n : Interface!DevHlp32[i] = r
    BY <1>2, ServicesListed DEF Looks
  <2>2. DOMAIN layout = 1 .. n /\ \A i \in 1 .. n : layout[i] = Interface!DevHlp32[i]
    BY <2>1 DEF IsHead
  <2>3. Interface!Slot(r) \in 1 .. n /\ Interface!DevHlp32[Interface!Slot(r)] = r
    <3> HIDE DEF layout
    <3>1. \E i \in DOMAIN layout : layout[i] = r
      BY <2>1, <2>2
    <3>2. Interface!Slot(r) = CHOOSE i \in DOMAIN layout : layout[i] = r
      BY DEF Interface!Slot, layout
    <3> QED
      BY <2>2, <3>1, <3>2
  <2>4. \A i \in 1 .. 34 : Interface!Table[i] = Interface!DevHlp32[i]
    <3>1. Len(Interface!Layouts[7]) = 34
      BY LayoutsAreHeads DEF IsHead
    <3>2. Interface!Table = SubSeq(Interface!DevHlp32, 1, 34)
      BY <3>1 DEF Interface!Table, Interface!DEVHELP32_VERSION
    <3>3. Interface!DevHlp32 \in Seq(Services) /\ Len(Interface!DevHlp32) = 34
      BY DEF Interface!DevHlp32, Services, Interface!Declared
    <3> QED
      BY <3>2, <3>3
  <2> QED
    BY <1>2, <2>3, <2>4 DEF Interface!Reached
<1> QED
  BY <1>1, <1>2

----------------------------------------------------------------------------
(* The invariant: what holds of each open call, whether it is running or    *)
(* interrupted.                                                             *)

Holds == {"parm", "far16", "bp", "ds", "es", "address", "far32", "arg", "near32", "zero",
  "code", "answer", "junk", "high", "local", "ss", "local_at", "size"} \cup Registers
WordSet == [holds : Holds, call : Nat, value : Int]
RegFile == [Registers -> WordSet \X WordSet]

EntryPlaces == {"entry", "handling", "leave", "returned"}
Places == EntryPlaces \cup Thunk32Steps \cup {"kernel"}
Answers == UNION {[S -> Nat] : S \in SUBSET Locals}

EntryCall ==
  [entry : (Thunked \cup NotThunked) \ {"FILEATTRIBUTE"}, found : Seq(WordSet),
   ds : Int, es : Int, bp : Int, resume : Places]
ThunkCall ==
  [called : Routines, entry : DOMAIN Description, found : Seq(WordSet),
   ds : Int, es : Int, bp : Int, resume : Places, outer : RegFile, null : BOOLEAN,
   ok : BOOLEAN, stage : Nat, answers : Answers, written : SUBSET (WordSet \X Nat)]
IsThunk(c) == "called" \in DOMAIN c

TypeOK ==
  /\ calls \in Seq(EntryCall \cup ThunkCall)
  /\ pc \in Places
  /\ stack \in Seq(WordSet) /\ ds \in Int /\ es \in Int /\ bp \in Int
  /\ regs \in RegFile

\* A stack that has k words more than f, and the same below them.
Grown(s, f, k) == Len(s) = Len(f) + k /\ \A i \in 1 .. Len(f) : s[i] = f[i]

\* Where a call stands, with which stack, segments and frame.
Stands(p, s, d, e, b) == [place |-> p, stack |-> s, ds |-> d, es |-> e, bp |-> b]

\* An entry point, called as c at depth n, that stands at z.
EntryAt(c, n, z) ==
  LET top == Len(c.found) + BlockWords(c.entry)
  IN  /\ z.place \in EntryPlaces
      /\ z.place = "entry" =>
           /\ Grown(z.stack, c.found, BlockWords(c.entry) + 2)
           /\ z.stack[top] = Word("parm", n, 0)
           /\ z.ds = c.ds /\ z.es = c.es /\ z.bp = c.bp
      /\ z.place \in {"handling", "leave"} =>
           /\ c.entry \in Thunked
           /\ Grown(z.stack, c.found,
                    BlockWords(c.entry) + IF z.place = "handling" THEN 11 ELSE 5)
           /\ z.stack[top] = Word("parm", n, 0)
           /\ z.stack[top + 3].value = c.bp
           /\ z.stack[top + 4].value = c.ds
           /\ z.stack[top + 5].value = c.es
           /\ z.place = "handling" => z.stack[top + 7].value = top
           /\ z.ds = FlatDS /\ z.es = FlatDS /\ z.bp = top + 3
      /\ z.place = "returned" =>
           z.stack = c.found /\ z.ds = c.ds /\ z.es = c.es /\ z.bp = c.bp

FrameWords(t) == IF t.local = NoFrame THEN 0 ELSE 2 + t.local
Reserved(t) == 2 + FrameWords(t) + 2 * Len(t.pushes)

\* The registers with which a thunk is called, low word above high.
Saved(s, k, r, q) ==
  IF r \in Segments THEN s[k].value = FlatDS ELSE s[k] = q[r][1] /\ s[k - 1] = q[r][2]

\* On stack s, with frame pointer b and k words on top, thunk t can undo what it has done.
Framed(c, t, s, b, k, q) ==
  /\ Grown(s, c.found, Reserved(t) + k)
  /\ IF t.local = NoFrame THEN b = c.bp
     ELSE b = Len(c.found) + 4 /\ s[b].value = c.bp
  /\ \A j \in 1 .. Len(t.pushes) :
       Saved(s, Len(c.found) + 2 + FrameWords(t) + 2 * j, t.pushes[j], q)

\* The same of a thunk, where q are the registers.
FrameAt(c, n, z, q) ==
  LET t == Description[c.entry]
      given == RegsAtCall(Interface!Declared[c.called], n)
      args == ArgCount(Interface!Declared[c.called])
  IN  /\ z.place \in Thunk32Steps
      /\ c.entry = c.called /\ c.ds = FlatDS /\ c.es = FlatDS
      /\ args <= Len(c.found)
      /\ \A i \in Len(c.found) - args + 1 .. Len(c.found) :
           c.found[i] = Word("arg", n, Len(c.found) + 2 - i)
      /\ z.place = "pushing" => Grown(z.stack, c.found, 2) /\ z.bp = c.bp
      /\ z.place \in {"pushing", "loading"} => z.ds = c.ds /\ z.es = c.es /\ q = given
      /\ z.place \in {"loading", "in_kernel", "storing", "popping"} =>
           Framed(c, t, z.stack, z.bp, IF z.place = "in_kernel" THEN Len(t.block) ELSE 0, given)
      /\ z.place \in {"in_kernel", "storing", "popping"} =>
           /\ z.ds = t.ds
           /\ z.es = IF z.place # "in_kernel" /\ t.via = "far" THEN KernelES ELSE t.es
           /\ \A r \in CalleeSaved : r \in Range(t.pushes) \/ q[r] = given[r]
      /\ z.place = "returned32" =>
           /\ z.stack = c.found /\ z.ds = c.ds /\ z.es = c.es /\ z.bp = c.bp
           /\ \A r \in CalleeSaved : q[r] = given[r]

\* The word of the parameters of call n that a thunk has at an offset.
Parm(t, n, off) == Word("arg", n, (off \div 2) - Shift(t))

\* What a register is loaded with, and what becomes of a word of a block.
LoadPassed(t, n, l, q) ==
  CASE l.from = "stack"   -> <<Parm(t, n, l.off), Parm(t, n, l.off + 2)>>
    [] l.from = "stack16" -> <<Parm(t, n, l.off), q[l.reg][2]>>
    [] OTHER              -> q[l.from]
BlockPassed(t, n, w, q) ==
  CASE w.from = "arg"   -> Parm(t, n, w.off)
    [] w.from = "low"   -> q[w.reg][1]
    [] w.from = "high"  -> q[w.reg][2]
    [] w.from = "ss"    -> Word("ss", n, 0)
    [] w.from = "local" -> Word("local_at", n, w.off)
    [] w.from = "size"  -> Word("size", n, w.off)

\* Its offsets count all that it has pushed.
LoadsParms(t) ==
  \A l \in Range(t.loads) :
    l.from \in {"stack", "stack16"} => (l.off \div 2) - Shift(t) >= 2

\* The kernel is called with the words of this call.
DeliveredAt(c, n, z, q) ==
  LET t == Description[c.entry]
      given == RegsAtCall(Interface!Declared[c.called], n)
  IN  z.place = "in_kernel" =>
        /\ t.via # "none"
        /\ \A j \in 1 .. Len(t.block) :
             z.stack[Len(c.found) + Reserved(t) + j] = BlockPassed(t, n, t.block[j], given)
        /\ (LoadsParms(t) /\ c.stage = 1) =>
             /\ \A l \in Range(t.loads) : q[l.reg] = LoadPassed(t, n, l, given)
             /\ \A r \in Registers : (\A l \in Range(t.loads) : l.reg # r) => q[r] = given[r]

\* The answers that the caller of a routine expects, and those of them that
\* belong to conversions before the k-th.
Outputs(p) == {j \in DOMAIN p.args : p.args[j] = Interface!Answer}
Complete(p, n) == {<<Word("arg", n, 2 * j), Rank(Outputs(p), j)>> : j \in Outputs(p)}
Earlier(p, n, k) == {a \in Complete(p, n) : a[2] < k}

\* What the kernel has answered is what the k-th conversion stores.
Outs(t) == {i \in DOMAIN t.block : t.block[i].from = "local"}
AnswerIs(t, k, l, a) ==
  IF t.via = "far" THEN \E i \in Outs(t) : t.block[i].off = l /\ a = Rank(Outs(t), i)
  ELSE a = k

Said(q) == IsZero(q["eax"][1]) /\ IsZero(q["eax"][2])

\* Whether the caller is told a success or a failure when it is one: always by a
\* thunk that looks at the kernel's code, a success by one that clears EAX, a
\* failure by one that leaves EAX alone.
Coded == {"carry", "carry16", "ax", "byte"}
Honest(c, t, q) ==
  /\ t.result \in Coded => (Said(q) <=> c.ok /\ ~(c.null /\ t.null = "refused"))
  /\ t.result = "zero" => Said(q)
  /\ t.result = "raw" => (Said(q) => c.ok)

\* The low half of EAX as the kernel leaves it.
LeftByKernel(w, t, n, ok) ==
  \E left \in {"answer", "code"} :
    /\ w = Word(left, n, IF ok THEN 0 ELSE 1)
    /\ ~ok \/ t.via = "far" \/ t.result = "byte" => left = "code"

ToldAt(c, n, z, q) ==
  LET t == Description[c.entry]
      p == Interface!Declared[c.called]
  IN  /\ c.null => t.null # "fault"
      /\ c.stage \in 1 .. Len(t.stores)
      /\ z.place \in {"pushing", "loading", "in_kernel", "storing"} =>
           c.written = Earlier(p, n, c.stage)
      /\ z.place = "storing" =>
           /\ t.via # "none"
           /\ LeftByKernel(q["eax"][1], t, n, c.ok)
           /\ c.ok => \A s \in Range(t.stores[c.stage]) :
                /\ s[2] \in DOMAIN c.answers
                /\ AnswerIs(t, c.stage, s[2], c.answers[s[2]])
      /\ (z.place \in {"popping", "returned32"} /\ t.via # "none") =>
           /\ Honest(c, t, q)
           /\ c.written = IF c.ok /\ ~c.null THEN Complete(p, n) ELSE Earlier(p, n, c.stage)

ThunkAt(c, n, z, q) == FrameAt(c, n, z, q) /\ DeliveredAt(c, n, z, q) /\ ToldAt(c, n, z, q)

Level(c, n, z, q) == IF IsThunk(c) THEN ThunkAt(c, n, z, q) ELSE EntryAt(c, n, z)

\* What call c interrupted.
Passed(c) == IF IsThunk(c) THEN ArgCount(Interface!Declared[c.called]) ELSE 0
Before(c) ==
  Stands(c.resume, SubSeq(c.found, 1, Len(c.found) - Passed(c)), c.ds, c.es, c.bp)

\* Entry points change no register, so that those of call i are with the first
\* thunk above it.
RegsFrom(cs, i, j) ==
  /\ \A k \in i + 1 .. j - 1 : ~IsThunk(cs[k])
  /\ j <= Len(cs) => IsThunk(cs[j])

Levels(cs, z, q) ==
  \A i \in 1 .. Len(cs) : \A j \in i + 1 .. Len(cs) + 1 :
    RegsFrom(cs, i, j) =>
      Level(cs[i], i, IF i = Len(cs) THEN z ELSE Before(cs[i + 1]),
            IF j = Len(cs) + 1 THEN q ELSE cs[j].outer)

Here == Stands(pc, stack, ds, es, bp)

IInv ==
  /\ TypeOK
  /\ pc = "kernel" <=> Depth = 0
  /\ Depth > 0 => calls[1].resume = "kernel"
  /\ Levels(calls, Here, regs)

----------------------------------------------------------------------------
(* What the thunks store.                                                   *)

\* A store of the k-th conversion is that of the answer to parameter j.
Matches(t, p, k, s, j) ==
  /\ (s[1] \div 2) - Shift(t) = 2 * j
  /\ \A a : AnswerIs(t, k, s[2], a) => a = Rank(Outputs(p), j)

\* With the k-th conversion the caller has the first k answers, with the last one all.
Stores(t, p, k) ==
  /\ \A s \in Range(t.stores[k]) : \E j \in Outputs(p) :
       Matches(t, p, k, s, j) /\ (k < Len(t.stores) => Rank(Outputs(p), j) < k + 1)
  /\ \A j \in Outputs(p) :
       \/ Rank(Outputs(p), j) < k
       \/ k < Len(t.stores) /\ Rank(Outputs(p), j) >= k + 1
       \/ \E s \in Range(t.stores[k]) : Matches(t, p, k, s, j)

Codes(t) ==
  /\ t.via = "far" => t.result \in {"ax", "none", "raw"}
  /\ t.via = "none" => t.result = "none"
  /\ Len(t.stores) > 1 =>
       t.null = "fault" /\ t.result = "carry" /\ t.via = "ds" /\ t.loads = <<>>
  /\ t.result # "carry" => t.null # "refused"
  /\ "eax" \notin Range(t.pushes)

Tells(t, p) ==
  /\ Codes(t)
  /\ t.via = "far" => \A k \in 1 .. Len(t.stores) : \A s \in Range(t.stores[k]) :
       \E i \in Outs(t) : t.block[i].off = s[2]
  /\ t.via # "none" => \A k \in 1 .. Len(t.stores) : Stores(t, p, k)
  /\ \A j \in Outputs(p) : j \in Nat \ {0} /\ Rank(Outputs(p), j) \in Nat \ {0}

\* The only member of a set is the first.
LEMMA RankOfOne ==
  ASSUME NEW j \in Nat
  PROVE  Rank({j}, j) = 1
<1>1. {i \in {j} : i <= j} = {j}
  OBVIOUS
<1> QED
  BY <1>1, FS_Singleton DEF Rank

\* Of two members the smaller one is the first, the other the second.
LEMMA RankOfTwo ==
  ASSUME NEW j \in Nat, NEW k \in Nat, j < k
  PROVE  Rank({j, k}, j) = 1 /\ Rank({j, k}, k) = 2
<1>1. {i \in {j, k} : i <= j} = {j} /\ {i \in {j, k} : i <= k} = {j} \cup {k}
  OBVIOUS
<1>2. Cardinality({j}) = 1 /\ IsFiniteSet({j}) /\ k \notin {j}
  BY FS_Singleton
<1>3. Cardinality({j} \cup {k}) = 1 + 1
  BY <1>2, FS_AddElement
<1> QED
  BY <1>1, <1>2, <1>3 DEF Rank

\* A routine with no answers, and one with one answer.
TellsNone(t, p) ==
  Codes(t) /\ Len(t.stores) = 1 /\ t.stores[1] = <<>> /\ \A j \in DOMAIN p.args : p.args[j] # Interface!Answer
TellsOne(t, p, j) ==
  /\ Codes(t) /\ Len(t.stores) = 1 /\ Len(t.stores[1]) = 1 /\ DOMAIN t.stores[1] = {1}
  /\ (t.stores[1][1][1] \div 2) - Shift(t) = 2 * j
  /\ \A i \in DOMAIN p.args : p.args[i] = Interface!Answer <=> i = j
  /\ j \in DOMAIN p.args /\ j \in Nat \ {0}
FarOne(t, i) ==
  /\ i \in DOMAIN t.block /\ i \in Nat /\ t.block[i].off = t.stores[1][1][2]
  /\ \A k \in DOMAIN t.block : t.block[k].from = "local" <=> k = i

\* A thunk that stores nothing tells what it should if nothing is expected.
LEMMA NoneTold ==
  ASSUME NEW t, NEW p, TellsNone(t, p)
  PROVE  Tells(t, p)
<1>1. Outputs(p) = {} /\ Range(t.stores[1]) = {} /\ 1 .. Len(t.stores) = {1}
  BY DEF TellsNone, Outputs, Range
<1> QED
  BY <1>1 DEF Tells, Stores, TellsNone

\* So does one that stores the one answer that is expected.
LEMMA OneTold ==
  ASSUME NEW t, NEW p, NEW j, TellsOne(t, p, j), t.via = "far" => \E i : FarOne(t, i)
  PROVE  Tells(t, p)
<1> DEFINE s == t.stores[1][1]
<1>1. Outputs(p) = {j} /\ Range(t.stores[1]) = {s} /\ 1 .. Len(t.stores) = {1} /\ j \in Nat \ {0}
  BY DEF TellsOne, Outputs, Range
<1>2. Rank(Outputs(p), j) = 1
  BY <1>1, RankOfOne
<1>3. ASSUME NEW a, AnswerIs(t, 1, s[2], a)
      PROVE  a = 1
  <2>1. CASE t.via = "far"
    <3>1. PICK i : FarOne(t, i)
      BY <2>1
    <3>2. Outs(t) = {i} /\ i \in Nat
      BY <3>1 DEF FarOne, Outs
    <3>3. Rank(Outs(t), i) = 1
      BY <3>2, RankOfOne
    <3> QED
      BY <1>3, <2>1, <3>2, <3>3 DEF AnswerIs
  <2>2. CASE t.via # "far"
    BY <1>3, <2>2 DEF AnswerIs
  <2> QED
    BY <2>1, <2>2
<1>4. Matches(t, p, 1, s, j)
  BY <1>2, <1>3 DEF Matches, TellsOne
<1>5. Stores(t, p, 1)
  BY <1>1, <1>2, <1>4 DEF Stores, TellsOne
<1>6. t.via = "far" => \E i \in Outs(t) : t.block[i].off = s[2]
  BY DEF FarOne, Outs
<1> QED
  BY <1>1, <1>2, <1>5, <1>6 DEF Tells, TellsOne

\* What the constructors of a block's items stand for.
LEMMA Items ==
  /\ \A x : Arg(x).from = "arg" /\ Arg(x).off = x
  /\ \A x : Local(x).from = "local" /\ Local(x).off = x
  /\ \A x : Size(x).from = "size" /\ Size(x).off = x
  /\ SS.from = "ss"
  /\ \A x : High(x).from = "high" /\ High(x).reg = x
  /\ \A x : Low(x).from = "low" /\ Low(x).reg = x
BY DEF Arg, Local, Size, SS, High, Low, Item

\* GetInfoSegs stores its two answers one after the other.
LEMMA SegsTold == Tells(GetInfoSegs, Interface!GetInfoSegs)
<1> DEFINE t == GetInfoSegs
           p == Interface!GetInfoSegs
<1>1. Outputs(p) = {1, 2}
  BY DEF Outputs, Interface!GetInfoSegs, Interface!System, Interface!Answer
<1>2. Rank(Outputs(p), 1) = 1 /\ Rank(Outputs(p), 2) = 2
  BY <1>1, RankOfTwo
<1>3. Codes(t)
  BY DEF Codes, GetInfoSegs, Thunk, Registers, Range
<1>4. /\ Len(t.stores) = 2 /\ t.via = "ds" /\ Shift(t) = 2 /\ t.stores[1] = << <<8, 0>> >>
      /\ t.stores[2] = << <<12, 0>> >>
  BY DEF GetInfoSegs, Thunk, Shift, NoFrame
<1>5. Range(t.stores[1]) = {<<8, 0>>} /\ Range(t.stores[2]) = {<<12, 0>>}
  BY <1>4 DEF Range
<1> HIDE DEF t, p
<1>6. Matches(t, p, 1, <<8, 0>>, 1) /\ Matches(t, p, 2, <<12, 0>>, 2)
  BY <1>2, <1>4 DEF Matches, AnswerIs
<1>7. Stores(t, p, 1) /\ Stores(t, p, 2)
  BY <1>1, <1>2, <1>4, <1>5, <1>6 DEF Stores
<1>8. Tells(t, p)
  <2>1. 1 .. Len(t.stores) = {1, 2}
    BY <1>4
  <2> QED
    BY <1>1, <1>2, <1>3, <1>4, <1>7, <2>1 DEF Tells
<1> QED
  BY <1>8 DEF t, p

\* getvolparm stores two answers, each where it belongs.
LEMMA VolparmTold == Tells(getvolparm, Interface!getvolparm)
<1> DEFINE t == getvolparm
           p == Interface!getvolparm
<1>1. Outputs(p) = {2, 3}
  BY DEF Outputs, Interface!getvolparm, Interface!System, Interface!Answer, Interface!Short
<1>2. Rank(Outputs(p), 2) = 1 /\ Rank(Outputs(p), 3) = 2
  BY <1>1, RankOfTwo
<1>3. Codes(t)
  BY DEF Codes, getvolparm, Fsh, Thunk, Range
<1>4. /\ Len(t.stores) = 1 /\ t.via = "far" /\ Shift(t) = 2
      /\ t.stores[1] = << <<16, 8>>, <<12, 4>> >>
  BY DEF getvolparm, Fsh, Thunk, Shift, NoFrame
<1>5. Range(t.stores[1]) = {<<16, 8>>, <<12, 4>>}
  BY <1>4 DEF Range
<1>6. t.block = <<Arg(8), SS, Local(4), SS, Local(8)>>
  BY DEF getvolparm, Fsh
<1> HIDE DEF t, p
<1>7. Outs(t) = {3, 5} /\ t.block[3].off = 4 /\ t.block[5].off = 8
  BY <1>6, Items DEF Outs
<1>8. Rank(Outs(t), 3) = 1 /\ Rank(Outs(t), 5) = 2
  BY <1>7, RankOfTwo
<1>9. Matches(t, p, 1, <<16, 8>>, 3) /\ Matches(t, p, 1, <<12, 4>>, 2)
  BY <1>2, <1>4, <1>7, <1>8 DEF Matches, AnswerIs
<1>10. Stores(t, p, 1)
  BY <1>1, <1>2, <1>4, <1>5, <1>9 DEF Stores
<1>11. Tells(t, p)
  <2>1. 1 .. Len(t.stores) = {1}
    BY <1>4
  <2> QED
    BY <1>1, <1>2, <1>3, <1>5, <1>7, <1>10, <2>1 DEF Tells
<1> QED
  BY <1>11 DEF t, p

\* Each thunk stores the answers that its prototype declares, and their number.
LEMMA DescriptionsTell ==
  ASSUME NEW r \in DOMAIN Description
  PROVE  Tells(Description[r], Interface!Declared[r])
<1> USE DEF Codes, Shift, Registers, Range, NoFrame, Thunk, DevHlp, Fsh, In, InLow, InReg,
        EventSem, Interface!System, Interface!Optlink,
        Interface!Long, Interface!Short, Interface!Answer, Interface!Linked
<1>1. Tells(Compiled, Interface!vsprintf)
  BY DEF Tells, Outputs, Compiled, Interface!vsprintf
<1>2. Tells(Compiled, Interface!strtoul)
  BY DEF Tells, Outputs, Compiled, Interface!strtoul
<1>3. Tells(Compiled, Interface!strtol)
  BY DEF Tells, Outputs, Compiled, Interface!strtol
<1>4. Tells(Compiled, Interface!atol)
  BY DEF Tells, Outputs, Compiled, Interface!atol
<1>5. Tells(Compiled, Interface!strupr)
  BY DEF Tells, Outputs, Compiled, Interface!strupr
<1>6. Tells(Compiled, Interface!strpbrk)
  BY DEF Tells, Outputs, Compiled, Interface!strpbrk
<1>7. Tells(Compiled, Interface!fnmatch)
  BY DEF Tells, Outputs, Compiled, Interface!fnmatch
<1>8. Tells(Compiled, Interface!sec32_attach_ses)
  BY DEF Tells, Outputs, Compiled, Interface!sec32_attach_ses
<1>9. Tells(Compiled, Interface!AllocGDTSelector)
  BY DEF Tells, Outputs, Compiled, Interface!AllocGDTSelector
<1>10. Tells(Compiled, Interface!AttachDD)
  BY DEF Tells, Outputs, Compiled, Interface!AttachDD
<1>11. Tells(VMFree, Interface!VMFree)
  <2>1. TellsNone(VMFree, Interface!VMFree)
    BY DEF TellsNone, VMFree, Interface!VMFree
  <2> QED
    BY <2>1, NoneTold
<1>12. Tells(VMUnlock, Interface!VMUnlock)
  <2>1. TellsNone(VMUnlock, Interface!VMUnlock)
    BY DEF TellsNone, VMUnlock, Interface!VMUnlock
  <2> QED
    BY <2>1, NoneTold
<1>13. Tells(VerifyAccess, Interface!VerifyAccess)
  <2>1. TellsNone(VerifyAccess, Interface!VerifyAccess)
    BY DEF TellsNone, VerifyAccess, Interface!VerifyAccess
  <2> QED
    BY <2>1, NoneTold
<1>14. Tells(Security, Interface!Security)
  <2>1. TellsNone(Security, Interface!Security)
    BY DEF TellsNone, Security, Interface!Security
  <2> QED
    BY <2>1, NoneTold
<1>15. Tells(FreeGDTSelector, Interface!FreeGDTSelector)
  <2>1. TellsNone(FreeGDTSelector, Interface!FreeGDTSelector)
    BY DEF TellsNone, FreeGDTSelector, Interface!FreeGDTSelector
  <2> QED
    BY <2>1, NoneTold
<1>16. Tells(AttachToDD, Interface!AttachToDD)
  <2>1. TellsNone(AttachToDD, Interface!AttachToDD)
    BY DEF TellsNone, AttachToDD, Interface!AttachToDD
  <2> QED
    BY <2>1, NoneTold
<1>17. Tells(setIRQ, Interface!setIRQ)
  <2>1. TellsNone(setIRQ, Interface!setIRQ)
    BY DEF TellsNone, setIRQ, Interface!setIRQ
  <2> QED
    BY <2>1, NoneTold
<1>18. Tells(UnSetIRQ, Interface!UnSetIRQ)
  <2>1. TellsNone(UnSetIRQ, Interface!UnSetIRQ)
    BY DEF TellsNone, UnSetIRQ, Interface!UnSetIRQ
  <2> QED
    BY <2>1, NoneTold
<1>19. Tells(EOI, Interface!EOI)
  <2>1. TellsNone(EOI, Interface!EOI)
    BY DEF TellsNone, EOI, Interface!EOI
  <2> QED
    BY <2>1, NoneTold
<1>20. Tells(ProcBlock, Interface!ProcBlock)
  <2>1. TellsNone(ProcBlock, Interface!ProcBlock)
    BY DEF TellsNone, ProcBlock, Interface!ProcBlock
  <2> QED
    BY <2>1, NoneTold
<1>21. Tells(ProcRun, Interface!ProcRun)
  <2>1. TellsNone(ProcRun, Interface!ProcRun)
    BY DEF TellsNone, ProcRun, Interface!ProcRun
  <2> QED
    BY <2>1, NoneTold
<1>22. Tells(Yield, Interface!Yield)
  <2>1. TellsNone(Yield, Interface!Yield)
    BY DEF TellsNone, Yield, Interface!Yield
  <2> QED
    BY <2>1, NoneTold
<1>23. Tells(OpenEventSem, Interface!OpenEventSem)
  <2>1. TellsNone(OpenEventSem, Interface!OpenEventSem)
    BY DEF TellsNone, OpenEventSem, Interface!OpenEventSem
  <2> QED
    BY <2>1, NoneTold
<1>24. Tells(CloseEventSem, Interface!CloseEventSem)
  <2>1. TellsNone(CloseEventSem, Interface!CloseEventSem)
    BY DEF TellsNone, CloseEventSem, Interface!CloseEventSem
  <2> QED
    BY <2>1, NoneTold
<1>25. Tells(PostEventSem, Interface!PostEventSem)
  <2>1. TellsNone(PostEventSem, Interface!PostEventSem)
    BY DEF TellsNone, PostEventSem, Interface!PostEventSem
  <2> QED
    BY <2>1, NoneTold
<1>26. Tells(ResetEventSem, Interface!ResetEventSem)
  <2>1. TellsNone(ResetEventSem, Interface!ResetEventSem)
    BY DEF TellsNone, ResetEventSem, Interface!ResetEventSem
  <2> QED
    BY <2>1, NoneTold
<1>27. Tells(devioctl, Interface!devioctl)
  <2>1. TellsNone(devioctl, Interface!devioctl)
    BY DEF TellsNone, devioctl, Interface!devioctl
  <2> QED
    BY <2>1, NoneTold
<1>28. Tells(ioboost, Interface!ioboost)
  <2>1. TellsNone(ioboost, Interface!ioboost)
    BY DEF TellsNone, ioboost, Interface!ioboost
  <2> QED
    BY <2>1, NoneTold
<1>29. Tells(removeshare, Interface!removeshare)
  <2>1. TellsNone(removeshare, Interface!removeshare)
    BY DEF TellsNone, removeshare, Interface!removeshare
  <2> QED
    BY <2>1, NoneTold
<1>30. Tells(forcenoswap, Interface!forcenoswap)
  <2>1. TellsNone(forcenoswap, Interface!forcenoswap)
    BY DEF TellsNone, forcenoswap, Interface!forcenoswap
  <2> QED
    BY <2>1, NoneTold
<1>31. Tells(setvolume, Interface!setvolume)
  <2>1. TellsNone(setvolume, Interface!setvolume)
    BY DEF TellsNone, setvolume, Interface!setvolume
  <2> QED
    BY <2>1, NoneTold
<1>32. Tells(VMAlloc, Interface!VMAlloc)
  <2>1. TellsOne(VMAlloc, Interface!VMAlloc, 4) /\ VMAlloc.via # "far"
    BY DEF TellsOne, VMAlloc, Interface!VMAlloc
  <2> QED
    BY <2>1, OneTold
<1>33. Tells(VMLock, Interface!VMLock)
  <2>1. TellsOne(VMLock, Interface!VMLock, 6) /\ VMLock.via # "far"
    BY DEF TellsOne, VMLock, Interface!VMLock
  <2> QED
    BY <2>1, OneTold
<1>34. Tells(VirtToLin, Interface!VirtToLin)
  <2>1. TellsOne(VirtToLin, Interface!VirtToLin, 2) /\ VirtToLin.via # "far"
    BY DEF TellsOne, VirtToLin, Interface!VirtToLin
  <2> QED
    BY <2>1, OneTold
<1>35. Tells(LinToPageList, Interface!LinToPageList)
  <2>1. TellsOne(LinToPageList, Interface!LinToPageList, 4) /\ LinToPageList.via # "far"
    BY DEF TellsOne, LinToPageList, Interface!LinToPageList
  <2> QED
    BY <2>1, OneTold
<1>36. Tells(PageListToLin, Interface!PageListToLin)
  <2>1. TellsOne(PageListToLin, Interface!PageListToLin, 3) /\ PageListToLin.via # "far"
    BY DEF TellsOne, PageListToLin, Interface!PageListToLin
  <2> QED
    BY <2>1, OneTold
<1>37. Tells(GetDosVar, Interface!GetDosVar)
  <2>1. TellsOne(GetDosVar, Interface!GetDosVar, 2) /\ GetDosVar.via # "far"
    BY DEF TellsOne, GetDosVar, Interface!GetDosVar
  <2> QED
    BY <2>1, OneTold
<1>38. Tells(AllocOneGDTSelector, Interface!AllocOneGDTSelector)
  <2>1. TellsOne(AllocOneGDTSelector, Interface!AllocOneGDTSelector, 1) /\ AllocOneGDTSelector.via # "far"
    BY DEF TellsOne, AllocOneGDTSelector, Interface!AllocOneGDTSelector
  <2> QED
    BY <2>1, OneTold
<1>39. Tells(addshare, Interface!addshare)
  <2>1. TellsOne(addshare, Interface!addshare, 4)
    BY DEF TellsOne, addshare, Interface!addshare
  <2>2. addshare.block = <<Arg(10), Arg(8), Arg(12), Arg(16), SS, Local(4)>>
    BY DEF addshare
  <2>3. addshare.stores[1][1][2] = 4
    BY DEF addshare
  <2>4. FarOne(addshare, 6)
    BY <2>2, <2>3, Items DEF FarOne
  <2> QED
    BY <2>1, <2>4, OneTold
<1>40. Tells(findduphvpb, Interface!findduphvpb)
  <2>1. TellsOne(findduphvpb, Interface!findduphvpb, 2)
    BY DEF TellsOne, findduphvpb, Interface!findduphvpb
  <2>2. findduphvpb.block = <<Arg(8), SS, Local(2)>>
    BY DEF findduphvpb
  <2>3. findduphvpb.stores[1][1][2] = 2
    BY DEF findduphvpb
  <2>4. FarOne(findduphvpb, 3)
    BY <2>2, <2>3, Items DEF FarOne
  <2> QED
    BY <2>1, <2>4, OneTold
<1>41. Tells(qsysinfo, Interface!qsysinfo)
  <2>1. TellsOne(qsysinfo, Interface!qsysinfo, 2)
    BY DEF TellsOne, qsysinfo, Interface!qsysinfo
  <2>2. qsysinfo.block = <<Arg(8), SS, Local(6), Size(6)>>
    BY DEF qsysinfo
  <2>3. qsysinfo.stores[1][1][2] = 6
    BY DEF qsysinfo
  <2>4. FarOne(qsysinfo, 3)
    BY <2>2, <2>3, Items DEF FarOne
  <2> QED
    BY <2>1, <2>4, OneTold
<1>42. Tells(segalloc, Interface!segalloc)
  <2>1. TellsOne(segalloc, Interface!segalloc, 3)
    BY DEF TellsOne, segalloc, Interface!segalloc
  <2>2. segalloc.block = <<Arg(8), Arg(14), Arg(12), SS, Local(4)>>
    BY DEF segalloc
  <2>3. segalloc.stores[1][1][2] = 4
    BY DEF segalloc
  <2>4. FarOne(segalloc, 5)
    BY <2>2, <2>3, Items DEF FarOne
  <2> QED
    BY <2>1, <2>4, OneTold
<1>43. Tells(GetInfoSegs, Interface!GetInfoSegs)
  BY SegsTold
<1>44. Tells(getvolparm, Interface!getvolparm)
  BY VolparmTold
<1> HIDE DEF Codes, Shift
<1> QED
  BY SMTT(60), <1>1, <1>2, <1>3, <1>4, <1>5, <1>6, <1>7, <1>8, <1>9, <1>10, <1>11, <1>12, <1>13, <1>14, <1>15, <1>16, <1>17, <1>18, <1>19, <1>20, <1>21, <1>22, <1>23, <1>24, <1>25, <1>26, <1>27, <1>28, <1>29, <1>30, <1>31, <1>32, <1>33, <1>34, <1>35, <1>36, <1>37, <1>38, <1>39, <1>40, <1>41, <1>42, <1>43, <1>44
  DEF Description, Interface!Declared

----------------------------------------------------------------------------
(* Stacks.                                                                  *)

\* What is appended lies on top, and nothing below it moves.
LEMMA Pushing ==
  ASSUME NEW S, NEW s \in Seq(S), NEW t \in Seq(S)
  PROVE  /\ s \o t \in Seq(S)
         /\ Len(s \o t) = Len(s) + Len(t)
         /\ \A i \in 1 .. Len(s) : (s \o t)[i] = s[i]
         /\ \A i \in 1 .. Len(t) : (s \o t)[Len(s) + i] = t[i]
OBVIOUS

\* What remains when words are popped.
LEMMA Popping ==
  ASSUME NEW S, NEW s \in Seq(S), NEW k \in 0 .. Len(s)
  PROVE  /\ SubSeq(s, 1, k) \in Seq(S)
         /\ Len(SubSeq(s, 1, k)) = k
         /\ \A i \in 1 .. k : SubSeq(s, 1, k)[i] = s[i]
OBVIOUS

\* What is left when all that was pushed is popped.
LEMMA PoppedAll ==
  ASSUME NEW S, NEW s \in Seq(S), NEW f \in Seq(S), NEW k \in Nat, Grown(s, f, k)
  PROVE  SubSeq(s, 1, Len(f)) = f
<1>1. Len(f) \in 0 .. Len(s)
  BY DEF Grown
<1>2. \A i \in 1 .. Len(f) : s[i] = f[i]
  BY DEF Grown
<1> QED
  BY <1>1, <1>2, Popping

\* The calls but the innermost one.
LEMMA FrontLast ==
  ASSUME NEW S, NEW s \in Seq(S), Len(s) > 0
  PROVE  /\ Front(s) \in Seq(S) /\ Len(Front(s)) = Len(s) - 1
         /\ \A i \in 1 .. Len(s) - 1 : Front(s)[i] = s[i]
         /\ Last(s) = s[Len(s)]
<1>1. Len(s) - 1 \in 0 .. Len(s)
  OBVIOUS
<1>2. Front(s) = SubSeq(s, 1, Len(s) - 1) /\ Last(s) = s[Len(s)]
  BY DEF Front, Last
<1> QED
  BY <1>1, <1>2, Popping

\* The innermost call is the one that was begun last.
LEMMA Appending ==
  ASSUME NEW S, NEW s \in Seq(S), NEW x \in S
  PROVE  /\ Append(s, x) \in Seq(S) /\ Len(Append(s, x)) = Len(s) + 1
         /\ Append(s, x)[Len(s) + 1] = x
         /\ \A i \in 1 .. Len(s) : Append(s, x)[i] = s[i]
OBVIOUS

----------------------------------------------------------------------------
(* A call opens, goes on, ends: the calls below it are not concerned.       *)

Call == EntryCall \cup ThunkCall

\* The state of call i, and its registers if the next thunk is call j.
StandsAt(cs, z, i) == IF i = Len(cs) THEN z ELSE Before(cs[i + 1])
RegsAt(cs, q, j) == IF j = Len(cs) + 1 THEN q ELSE cs[j].outer

\* The call opens in state z, and z2 and q2 are the state it begins with.
Opens(c, z, q, q2) ==
  Before(c) = z /\ IF IsThunk(c) THEN c.outer = q ELSE q2 = q

\* A call that begins leaves the ones below it where they are.
LEMMA Push ==
  ASSUME NEW cs \in Seq(Call), NEW z, NEW q, Levels(cs, z, q),
         NEW c, NEW z2, NEW q2, Opens(c, z, q, q2), Level(c, Len(cs) + 1, z2, q2)
  PROVE  Levels(Append(cs, c), z2, q2)
<1> DEFINE n == Len(cs)
           ds2 == Append(cs, c)
<1>1. n \in Nat /\ Len(ds2) = n + 1 /\ ds2[n + 1] = c /\ \A i \in 1 .. n : ds2[i] = cs[i]
  OBVIOUS
<1> HIDE DEF n, ds2
<1>2. \A i \in 1 .. n : StandsAt(ds2, z2, i) = StandsAt(cs, z, i)
  <2>1. Before(c) = z
    BY DEF Opens
  <2> QED
    BY <1>1, <2>1 DEF StandsAt, n
<1>3. ASSUME NEW i \in 1 .. n, NEW j \in i + 1 .. n + 2, RegsFrom(ds2, i, j)
      PROVE  \E k \in i + 1 .. n + 1 : RegsFrom(cs, i, k) /\ RegsAt(ds2, q2, j) = RegsAt(cs, q, k)
  <2>1. n = Len(cs)
    BY DEF n
  <2>2. CASE j \in i + 1 .. n
    BY <1>1, <1>3, <2>1, <2>2 DEF RegsFrom, RegsAt
  <2>3. CASE j = n + 1
    <3>1. RegsFrom(cs, i, j) /\ IsThunk(c)
      BY <1>1, <1>3, <2>1, <2>3 DEF RegsFrom
    <3> QED
      BY <1>1, <2>1, <2>3, <3>1 DEF RegsAt, Opens
  <2>4. CASE j = n + 2
    <3>1. RegsFrom(cs, i, n + 1) /\ ~IsThunk(c)
      BY <1>1, <1>3, <2>1, <2>4 DEF RegsFrom
    <3>2. RegsAt(ds2, q2, j) = RegsAt(cs, q, n + 1)
      BY <1>1, <2>1, <2>4, <3>1 DEF RegsAt, Opens
    <3> QED
      BY <1>1, <3>1, <3>2
  <2> QED
    BY <1>1, <2>2, <2>3, <2>4
<1>4. ASSUME NEW i \in 1 .. n, NEW j \in i + 1 .. n + 2, RegsFrom(ds2, i, j)
      PROVE  Level(ds2[i], i, StandsAt(ds2, z2, i), RegsAt(ds2, q2, j))
  <2>1. PICK k \in i + 1 .. n + 1 : RegsFrom(cs, i, k) /\ RegsAt(ds2, q2, j) = RegsAt(cs, q, k)
    BY <1>3, <1>4
  <2>2. Level(cs[i], i, StandsAt(cs, z, i), RegsAt(cs, q, k))
    BY <2>1 DEF Levels, StandsAt, RegsAt, n
  <2> QED
    BY <1>1, <1>2, <2>1, <2>2
<1>5. Level(ds2[n + 1], n + 1, StandsAt(ds2, z2, n + 1), RegsAt(ds2, q2, n + 2))
  BY <1>1 DEF StandsAt, RegsAt, n
<1>6. ASSUME NEW i \in 1 .. n + 1, NEW j \in i + 1 .. n + 2, RegsFrom(ds2, i, j)
      PROVE  Level(ds2[i], i, StandsAt(ds2, z2, i), RegsAt(ds2, q2, j))
  <2>1. CASE i \in 1 .. n
    BY <1>4, <1>6, <2>1
  <2>2. CASE i = n + 1
    <3>1. j = n + 2
      BY <1>1, <2>2
    <3> QED
      BY <1>5, <2>2, <3>1
  <2> QED
    BY <1>1, <2>1, <2>2
<1>7. Levels(ds2, z2, q2)
  BY <1>1, <1>6 DEF Levels, StandsAt, RegsAt
<1> QED
  BY <1>7 DEF ds2

\* What the innermost call does does not change how it was called.
LEMMA Proceed ==
  ASSUME NEW cs \in Seq(Call), NEW z, NEW q, Levels(cs, z, q), Len(cs) > 0,
         NEW c, NEW z2, NEW q2, IsThunk(c) <=> IsThunk(cs[Len(cs)]),
         Before(c) = Before(cs[Len(cs)]), IsThunk(c) => c.outer = cs[Len(cs)].outer,
         IsThunk(c) \/ q2 = q,
         Level(c, Len(cs), z2, q2)
  PROVE  Levels([cs EXCEPT ![Len(cs)] = c], z2, q2)
<1> DEFINE n == Len(cs)
           ds2 == [cs EXCEPT ![n] = c]
<1>1. /\ n \in Nat /\ n > 0 /\ Len(ds2) = n
      /\ ds2[n] = c /\ \A i \in 1 .. n - 1 : ds2[i] = cs[i]
  OBVIOUS
<1>2. Before(c) = Before(cs[n]) /\ (IsThunk(c) => c.outer = cs[n].outer)
  OBVIOUS
<1> HIDE DEF n, ds2
<1>3. \A i \in 1 .. n - 1 : StandsAt(ds2, z2, i) = StandsAt(cs, z, i)
  BY <1>1, <1>2 DEF StandsAt, n
<1>4. ASSUME NEW i \in 1 .. n - 1, NEW j \in i + 1 .. n + 1, RegsFrom(ds2, i, j)
      PROVE  RegsFrom(cs, i, j) /\ RegsAt(ds2, q2, j) = RegsAt(cs, q, j)
  <2>1. n = Len(cs) /\ (IsThunk(c) <=> IsThunk(cs[n]))
    BY DEF n
  <2>2. RegsFrom(cs, i, j)
    <3>1. \A k \in 1 .. n : IsThunk(ds2[k]) <=> IsThunk(cs[k])
      BY <1>1, <2>1
    <3> QED
      BY <1>1, <1>4, <2>1, <3>1 DEF RegsFrom
  <2>3. CASE j \in i + 1 .. n - 1
    BY <1>1, <2>1, <2>2, <2>3 DEF RegsAt
  <2>4. CASE j = n
    <3>1. IsThunk(c)
      BY <1>1, <1>4, <2>4 DEF RegsFrom
    <3> QED
      BY <1>1, <1>2, <2>1, <2>2, <2>4, <3>1 DEF RegsAt
  <2>5. CASE j = n + 1
    <3>1. ~IsThunk(c)
      BY <1>1, <1>4, <2>5 DEF RegsFrom
    <3> QED
      BY <1>1, <2>1, <2>2, <2>5, <3>1 DEF RegsAt
  <2> QED
    BY <1>1, <2>3, <2>4, <2>5
<1>5. ASSUME NEW i \in 1 .. n, NEW j \in i + 1 .. n + 1, RegsFrom(ds2, i, j)
      PROVE  Level(ds2[i], i, StandsAt(ds2, z2, i), RegsAt(ds2, q2, j))
  <2>1. CASE i \in 1 .. n - 1
    <3>1. RegsFrom(cs, i, j) /\ RegsAt(ds2, q2, j) = RegsAt(cs, q, j)
      BY <1>4, <1>5, <2>1
    <3>2. Level(cs[i], i, StandsAt(cs, z, i), RegsAt(cs, q, j))
      BY <3>1 DEF Levels, StandsAt, RegsAt, n
    <3> QED
      BY <1>1, <1>3, <2>1, <3>1, <3>2
  <2>2. CASE i = n
    <3>1. j = n + 1
      BY <1>1, <2>2
    <3> QED
      BY <1>1, <2>2, <3>1 DEF StandsAt, RegsAt, n
  <2> QED
    BY <1>1, <2>1, <2>2
<1>6. Levels(ds2, z2, q2)
  BY <1>1, <1>5 DEF Levels, StandsAt, RegsAt
<1> QED
  BY <1>6 DEF ds2, n

\* A call that ends leaves the one below it as it was interrupted.
LEMMA Pop ==
  ASSUME NEW cs \in Seq(Call), NEW z, NEW q, Levels(cs, z, q), Len(cs) > 0,
         NEW z2, NEW q2, Opens(cs[Len(cs)], z2, q2, q)
  PROVE  Levels(Front(cs), z2, q2)
<1> DEFINE n == Len(cs)
           ds2 == Front(cs)
<1>1. n \in Nat /\ n > 0 /\ Len(ds2) = n - 1 /\ \A i \in 1 .. n - 1 : ds2[i] = cs[i]
  BY FrontLast
<1>2. Before(cs[n]) = z2 /\ IF IsThunk(cs[n]) THEN cs[n].outer = q2 ELSE q2 = q
  BY DEF Opens
<1> HIDE DEF n, ds2
<1>3. \A i \in 1 .. n - 1 : StandsAt(ds2, z2, i) = StandsAt(cs, z, i)
  BY <1>1, <1>2 DEF StandsAt, n
<1>4. ASSUME NEW i \in 1 .. n - 1, NEW j \in i + 1 .. n, RegsFrom(ds2, i, j)
      PROVE  \E k \in i + 1 .. n + 1 : RegsFrom(cs, i, k) /\ RegsAt(ds2, q2, j) = RegsAt(cs, q, k)
  <2>1. n = Len(cs)
    BY DEF n
  <2>2. CASE j \in i + 1 .. n - 1
    BY <1>1, <1>4, <2>1, <2>2 DEF RegsFrom, RegsAt
  <2>3. CASE j = n /\ IsThunk(cs[n])
    <3>1. RegsFrom(cs, i, n)
      BY <1>1, <1>4, <2>1, <2>3 DEF RegsFrom
    <3> QED
      BY <1>1, <1>2, <2>1, <2>3, <3>1 DEF RegsAt
  <2>4. CASE j = n /\ ~IsThunk(cs[n])
    <3>1. RegsFrom(cs, i, n + 1)
      BY <1>1, <1>4, <2>1, <2>4 DEF RegsFrom
    <3> QED
      BY <1>1, <1>2, <2>1, <2>4, <3>1 DEF RegsAt
  <2> QED
    BY <1>1, <2>2, <2>3, <2>4
<1>5. ASSUME NEW i \in 1 .. n - 1, NEW j \in i + 1 .. n, RegsFrom(ds2, i, j)
      PROVE  Level(ds2[i], i, StandsAt(ds2, z2, i), RegsAt(ds2, q2, j))
  <2>1. PICK k \in i + 1 .. n + 1 : RegsFrom(cs, i, k) /\ RegsAt(ds2, q2, j) = RegsAt(cs, q, k)
    BY <1>4, <1>5
  <2>2. Level(cs[i], i, StandsAt(cs, z, i), RegsAt(cs, q, k))
    BY <1>1, <2>1 DEF Levels, StandsAt, RegsAt, n
  <2> QED
    BY <1>1, <1>3, <2>1, <2>2
<1>6. Levels(ds2, z2, q2)
  BY <1>1, <1>5 DEF Levels, StandsAt, RegsAt
<1> QED
  BY <1>6 DEF ds2

\* Where the innermost call goes on, those below it see no difference.
LEMMA Stays ==
  ASSUME NEW cs \in Seq(Call), NEW z, NEW q, Levels(cs, z, q), Len(cs) > 0,
         NEW z2, NEW q2, IsThunk(cs[Len(cs)]) \/ q2 = q,
         Level(cs[Len(cs)], Len(cs), z2, q2)
  PROVE  Levels(cs, z2, q2)
<1> DEFINE c == cs[Len(cs)]
<1>1. [cs EXCEPT ![Len(cs)] = c] = cs
  OBVIOUS
<1>2. IsThunk(c) \/ q2 = q
  OBVIOUS
<1>3. Level(c, Len(cs), z2, q2)
  OBVIOUS
<1>4. c = cs[Len(cs)]
  OBVIOUS
<1> HIDE DEF c
<1>5. Levels([cs EXCEPT ![Len(cs)] = c], z2, q2)
  BY <1>2, <1>3, <1>4, Proceed
<1> QED
  BY <1>1, <1>5

----------------------------------------------------------------------------
(* The steps of the entry points.                                           *)

\* The entry points whose thunks and structures agree.
Sized == (Thunked \cup NotThunked) \ {"FILEATTRIBUTE"}

\* What the invariant says of the innermost call.
LEMMA Innermost ==
  ASSUME IInv, Depth # 0
  PROVE  /\ Depth \in Nat \ {0} /\ Current \in Call
         /\ Level(Current, Depth, Here, regs)
<1>1. calls \in Seq(Call) /\ Depth = Len(calls)
  BY DEF IInv, TypeOK, Call, Depth
<1>2. Depth \in Nat \ {0} /\ Current \in Call
  BY <1>1 DEF Current
<1>3. RegsFrom(calls, Depth, Depth + 1)
  BY <1>1, <1>2 DEF RegsFrom
<1>4. Level(calls[Depth], Depth, Here, regs)
  <2>1. /\ Depth \in 1 .. Len(calls) /\ Depth + 1 \in Depth + 1 .. Len(calls) + 1
        /\ Depth + 1 = Len(calls) + 1
    BY <1>1, <1>2
  <2>2. Levels(calls, Here, regs)
    BY DEF IInv
  <2> QED
    BY <1>1, <1>3, <2>1, <2>2 DEF Levels
<1> QED
  BY <1>2, <1>4 DEF Current

\* A word is a word.
LEMMA WordTyped ==
  ASSUME NEW h \in Holds, NEW n \in Nat, NEW v \in Int
  PROVE  /\ Word(h, n, v) \in WordSet
         /\ Word(h, n, v).holds = h /\ Word(h, n, v).call = n /\ Word(h, n, v).value = v
BY DEF Word, WordSet

\* So are copies of it.
LEMMA CopiesTyped ==
  ASSUME NEW w \in WordSet, NEW k \in Nat
  PROVE  Copies(w, k) \in Seq(WordSet) /\ Len(Copies(w, k)) = k
         /\ \A i \in 1 .. k : Copies(w, k)[i] = w
BY DEF Copies

\* A block of parameters is a sequence of words.
LEMMA BlockTyped ==
  ASSUME NEW e \in Sized, NEW n \in Nat
  PROVE  /\ Block(e, n) \in Seq(WordSet) /\ Len(Block(e, n)) = BlockWords(e)
         /\ Block(e, n)[BlockWords(e)] = Word("parm", n, 0)
<1>1. BlockWords(e) \in Nat \ {0}
  BY BlockSizes DEF Sized
<1>2. "parm" \in Holds
  BY DEF Holds
<1>3. \A i \in 1 .. BlockWords(e) : Word("parm", n, BlockWords(e) - i) \in WordSet
  BY <1>1, <1>2, WordTyped
<1>4. BlockWords(e) - BlockWords(e) = 0
  BY <1>1
<1> QED
  BY <1>1, <1>3, <1>4 DEF Block

\* The stack that an entry point is called with.
LEMMA EntryStack ==
  ASSUME NEW s \in Seq(WordSet), NEW e \in Sized, NEW n \in Nat,
         NEW s2, s2 = s \o Block(e, n) \o Copies(Word("far16", n, 0), 2)
  PROVE  /\ s2 \in Seq(WordSet) /\ Grown(s2, s, BlockWords(e) + 2)
         /\ s2[Len(s) + BlockWords(e)] = Word("parm", n, 0)
<1> DEFINE w == BlockWords(e)
           u == s \o Block(e, n)
           v == Copies(Word("far16", n, 0), 2)
<1>1. w \in Nat \ {0}
  BY BlockSizes DEF Sized
<1>2. Block(e, n) \in Seq(WordSet) /\ v \in Seq(WordSet)
  <2>1. Word("far16", n, 0) \in WordSet
    BY WordTyped DEF Holds
  <2> QED
    BY <2>1, BlockTyped, CopiesTyped
<1>3. /\ Len(Block(e, n)) = w /\ Block(e, n)[w] = Word("parm", n, 0)
      /\ Len(v) = 2
  <2>1. Word("far16", n, 0) \in WordSet
    BY WordTyped DEF Holds
  <2> QED
    BY <2>1, BlockTyped, CopiesTyped
<1>4. /\ u \in Seq(WordSet) /\ Len(u) = Len(s) + Len(Block(e, n))
      /\ \A i \in 1 .. Len(s) : u[i] = s[i]
      /\ \A i \in 1 .. Len(Block(e, n)) : u[Len(s) + i] = Block(e, n)[i]
  BY <1>2, Pushing
<1>5. s2 = u \o v
  OBVIOUS
<1> HIDE DEF u, v, w
<1>6. /\ u \o v \in Seq(WordSet) /\ Len(u \o v) = Len(u) + Len(v)
      /\ \A i \in 1 .. Len(u) : (u \o v)[i] = u[i]
  <2>1. u \in Seq(WordSet)
    BY <1>4
  <2> QED
    BY <1>2, <2>1, Pushing
<1>7. Len(s) \in Nat
  OBVIOUS
<1>8. Len(u) = Len(s) + w /\ u[Len(s) + w] = Word("parm", n, 0)
  BY <1>1, <1>3, <1>4
<1>9. Len(s2) = Len(s) + (w + 2)
  BY <1>1, <1>3, <1>5, <1>6, <1>7, <1>8
<1>10. \A i \in 1 .. Len(s) + w : s2[i] = u[i]
  BY <1>5, <1>6, <1>8
<1>11. /\ \A i \in 1 .. Len(s) : s2[i] = s[i]
       /\ s2[Len(s) + w] = Word("parm", n, 0)
  BY <1>1, <1>4, <1>7, <1>8, <1>10
<1> QED
  BY <1>5, <1>6, <1>9, <1>11 DEF Grown, w

StateTyped(z) ==
  z.stack \in Seq(WordSet) /\ z.ds \in Int /\ z.es \in Int /\ z.bp \in Int

\* A call that opens in the present state, and holds what it has to.
LEMMA CallOpens ==
  ASSUME IInv, NEW c \in Call, calls' = Append(calls, c), Opens(c, Here, regs, regs'),
         Level(c, Depth + 1, Here', regs'), StateTyped(Here'), regs' \in RegFile,
         pc' \in EntryPlaces \cup Thunk32Steps
  PROVE  IInv'
<1>1. /\ Levels(calls, Here, regs) /\ calls \in Seq(Call)
      /\ Depth = Len(calls) /\ Depth \in Nat
  BY DEF IInv, TypeOK, Depth, Call
<1>2. Levels(calls', Here', regs')
  BY <1>1, Push
<1>3. /\ calls' \in Seq(Call) /\ Len(calls') = Len(calls) + 1
      /\ calls'[Len(calls) + 1] = c /\ \A i \in 1 .. Len(calls) : calls'[i] = calls[i]
  BY <1>1, Appending
<1>4. TypeOK'
  BY <1>3 DEF TypeOK, StateTyped, Here, Stands, Call, Places
<1>5. Depth' = Depth + 1
  BY <1>1, <1>3 DEF Depth
<1>6. calls'[1].resume = "kernel"
  <2>1. CASE Depth = 0
    <3>1. c.resume = pc /\ pc = "kernel"
      BY <2>1 DEF IInv, Opens, Before, Here, Stands
    <3> QED
      BY <1>1, <1>3, <2>1, <3>1
  <2>2. CASE Depth # 0
    <3>1. calls[1].resume = "kernel" /\ 1 \in 1 .. Len(calls)
      BY <1>1, <2>2 DEF IInv
    <3> QED
      BY <1>3, <3>1
  <2> QED
    BY <2>1, <2>2
<1>7. pc' # "kernel" /\ Depth' # 0 /\ Depth' > 0
  BY <1>1, <1>5 DEF EntryPlaces, Thunk32Steps
<1> QED
  BY <1>2, <1>4, <1>6, <1>7 DEF IInv

\* The kernel, or a page fault, calls an entry point.
LEMMA CallEntryStep ==
  ASSUME IInv, NEW e \in Sized, CallEntry(e), regs' = regs
  PROVE  IInv'
<1> DEFINE c == [entry |-> e, found |-> stack, ds |-> ds, es |-> es, bp |-> bp, resume |-> pc]
           n == Depth + 1
<1>1. /\ TypeOK /\ Levels(calls, Here, regs) /\ calls \in Seq(Call)
      /\ stack \in Seq(WordSet) /\ Depth = Len(calls) /\ Depth \in Nat
  BY DEF IInv, TypeOK, Depth, Call
<1>2. /\ calls' = Append(calls, c) /\ pc' = "entry"
      /\ stack' = stack \o Block(e, n) \o Copies(Word("far16", n, 0), 2)
      /\ ds' = ds /\ es' = es /\ bp' = bp
  BY DEF CallEntry
<1>3. c \in Call /\ ~IsThunk(c) /\ ~("called" \in DOMAIN c)
  BY <1>1 DEF Call, EntryCall, TypeOK, Sized, IsThunk
<1>4. /\ stack' \in Seq(WordSet) /\ Grown(stack', stack, BlockWords(e) + 2)
      /\ stack'[Len(stack) + BlockWords(e)] = Word("parm", n, 0)
  <2>1. stack \in Seq(WordSet) /\ n \in Nat
    BY <1>1
  <2>2. stack' = stack \o Block(e, n) \o Copies(Word("far16", n, 0), 2)
    BY <1>2
  <2> HIDE DEF n
  <2> QED
    BY <2>1, <2>2, EntryStack
<1>5. Opens(c, Here, regs, regs')
  <2>1. SubSeq(stack, 1, Len(stack) - 0) = stack
    BY <1>1
  <2> QED
    BY <1>3, <2>1 DEF Opens, Before, Passed, Here, Stands
<1>6. Level(c, n, Here', regs')
  BY <1>2, <1>3, <1>4 DEF Level, EntryAt, Here, Stands, EntryPlaces
<1>7. StateTyped(Here') /\ regs' \in RegFile /\ pc' \in EntryPlaces
  BY <1>1, <1>2, <1>4 DEF StateTyped, Here, Stands, TypeOK, EntryPlaces
<1> HIDE DEF c
<1> QED
  BY <1>1, <1>2, <1>3, <1>5, <1>6, <1>7, CallOpens

\* An entry point, and no thunk, is where the places of entry points are.
LEMMA AtEntry ==
  ASSUME IInv, pc \in EntryPlaces
  PROVE  /\ Depth \in Nat \ {0} /\ calls \in Seq(Call) /\ Depth = Len(calls)
         /\ Current \in EntryCall /\ ~IsThunk(Current) /\ EntryAt(Current, Depth, Here)
<1>1. calls \in Seq(Call) /\ Depth = Len(calls)
  BY DEF IInv, TypeOK, Call, Depth
<1>2. Depth # 0
  BY DEF IInv, EntryPlaces
<1>3. Depth \in Nat \ {0} /\ Current \in Call /\ Level(Current, Depth, Here, regs)
  BY <1>2, Innermost
<1>4. ~IsThunk(Current)
  BY <1>3 DEF Level, ThunkAt, FrameAt, Here, Stands, EntryPlaces, Thunk32Steps
<1>5. Current \in EntryCall
  BY <1>3, <1>4 DEF Call, ThunkCall, IsThunk
<1> QED
  BY <1>1, <1>3, <1>4, <1>5 DEF Level

\* A thunk, and no entry point, is where the places of thunks are.
LEMMA AtThunk ==
  ASSUME IInv, pc \in Thunk32Steps
  PROVE  /\ Depth \in Nat \ {0} /\ calls \in Seq(Call) /\ Depth = Len(calls)
         /\ Current \in ThunkCall /\ IsThunk(Current) /\ ThunkAt(Current, Depth, Here, regs)
<1>1. calls \in Seq(Call) /\ Depth = Len(calls)
  BY DEF IInv, TypeOK, Call, Depth
<1>2. Depth # 0
  BY DEF IInv, Thunk32Steps
<1>3. Depth \in Nat \ {0} /\ Current \in Call /\ Level(Current, Depth, Here, regs)
  BY <1>2, Innermost
<1>4. IsThunk(Current)
  BY <1>3 DEF Level, EntryAt, Here, Stands, EntryPlaces, Thunk32Steps
<1>5. Current \in ThunkCall
  BY <1>3, <1>4 DEF Call, EntryCall, IsThunk
<1> QED
  BY <1>1, <1>3, <1>4, <1>5 DEF Level

\* A step of an entry point keeps the invariant if it keeps that entry point's part of it.
LEMMA EntryGoesOn ==
  ASSUME IInv, pc \in EntryPlaces, calls' = calls, regs' = regs, pc' \in EntryPlaces,
         StateTyped(Here'), EntryAt(Current, Depth, Here')
  PROVE  IInv'
<1>1. /\ Depth \in Nat \ {0} /\ calls \in Seq(Call) /\ Depth = Len(calls)
      /\ ~IsThunk(Current) /\ Current = calls[Len(calls)]
  BY AtEntry DEF Current
<1>2. Level(Current, Depth, Here', regs')
  BY <1>1 DEF Level
<1>3. Levels(calls, Here, regs)
  BY DEF IInv
<1>4. Levels(calls', Here', regs')
  BY <1>1, <1>2, <1>3, Stays
<1>5. TypeOK'
  BY DEF IInv, TypeOK, StateTyped, Here, Stands, Places
<1>6. pc' # "kernel" /\ Depth' = Depth
  BY DEF EntryPlaces, Depth
<1> QED
  BY <1>1, <1>4, <1>5, <1>6 DEF IInv

\* The same of a thunk.
LEMMA ThunkGoesOn ==
  ASSUME IInv, pc \in Thunk32Steps, NEW c \in ThunkCall, calls' = [calls EXCEPT ![Depth] = c],
         Before(c) = Before(Current), c.outer = Current.outer, c.resume = Current.resume,
         pc' \in Thunk32Steps, StateTyped(Here'), regs' \in RegFile,
         ThunkAt(c, Depth, Here', regs')
  PROVE  IInv'
<1>1. /\ Depth \in Nat \ {0} /\ calls \in Seq(Call) /\ Depth = Len(calls)
      /\ IsThunk(Current) /\ Current = calls[Len(calls)]
  BY AtThunk DEF Current
<1>2. IsThunk(c)
  BY DEF IsThunk, ThunkCall
<1>3. Level(c, Len(calls), Here', regs')
  BY <1>1, <1>2 DEF Level
<1>4. Levels(calls, Here, regs)
  BY DEF IInv
<1>5. Levels(calls', Here', regs')
  <2> DEFINE n == Len(calls)
  <2>1. Before(c) = Before(calls[n]) /\ (IsThunk(c) => c.outer = calls[n].outer)
    BY <1>1
  <2>2. (IsThunk(c) <=> IsThunk(calls[n])) /\ (IsThunk(c) \/ regs' = regs) /\ n > 0
    BY <1>1, <1>2
  <2>3. Levels([calls EXCEPT ![n] = c], Here', regs')
    BY <1>1, <1>3, <1>4, <2>1, <2>2, Proceed
  <2> QED
    BY <1>1, <2>3
<1>6. calls' \in Seq(EntryCall \cup ThunkCall) /\ Len(calls') = Len(calls)
  BY <1>1 DEF Call
<1>7. TypeOK'
  BY <1>6 DEF IInv, TypeOK, StateTyped, Here, Stands, Places
<1>8. pc' # "kernel" /\ Depth' = Depth
  BY <1>1, <1>6 DEF Thunk32Steps, Depth
<1>9. calls'[1].resume = "kernel"
  BY <1>1 DEF IInv
<1> QED
  BY <1>1, <1>5, <1>7, <1>8, <1>9 DEF IInv

\* A call that returns leaves the one below it where it was interrupted.
LEMMA CallEnds ==
  ASSUME IInv, Depth # 0, calls' = Front(calls), Opens(Current, Here', regs', regs),
         StateTyped(Here'), regs' \in RegFile
  PROVE  IInv'
<1>1. /\ Depth \in Nat \ {0} /\ calls \in Seq(Call) /\ Depth = Len(calls)
      /\ Current = calls[Len(calls)] /\ Current \in Call
  BY Innermost DEF IInv, TypeOK, Call, Depth, Current
<1>2. Levels(calls', Here', regs')
  <2>1. Levels(calls, Here, regs)
    BY DEF IInv
  <2> QED
    BY <1>1, <2>1, Pop
<1>3. pc' = Current.resume /\ pc' \in Places
  BY <1>1 DEF Opens, Before, Here, Stands, Call, EntryCall, ThunkCall
<1>4. /\ calls' \in Seq(Call) /\ Len(calls') = Len(calls) - 1
      /\ \A i \in 1 .. Len(calls) - 1 : calls'[i] = calls[i]
  BY <1>1, FrontLast
<1>5. TypeOK'
  BY <1>3, <1>4 DEF TypeOK, StateTyped, Here, Stands, Call
<1>6. CASE Depth = 1
  <2>1. pc' = "kernel" /\ Depth' = 0
    BY <1>1, <1>3, <1>4, <1>6 DEF IInv, Depth
  <2> QED
    BY <1>2, <1>5, <2>1 DEF IInv
<1>7. CASE Depth # 1
  <2>1. Depth' = Depth - 1 /\ calls'[1].resume = "kernel"
    BY <1>1, <1>4, <1>7 DEF IInv, Depth
  <2>2. Level(calls'[Depth'], Depth', Here', regs')
    <3>1. RegsFrom(calls', Depth', Depth' + 1)
      BY <1>1, <1>4, <2>1 DEF RegsFrom
    <3>2. /\ Len(calls') = Depth' /\ Depth' \in 1 .. Len(calls')
          /\ Depth' + 1 \in Depth' + 1 .. Len(calls') + 1
      BY <1>1, <1>4, <1>7, <2>1
    <3> QED
      BY <1>2, <3>1, <3>2 DEF Levels
  <2>3. pc' # "kernel"
    BY <2>2 DEF Level, EntryAt, ThunkAt, FrameAt, Here, Stands, EntryPlaces, Thunk32Steps
  <2> QED
    BY <1>1, <1>2, <1>5, <1>7, <2>1, <2>3 DEF IInv
<1> QED
  BY <1>6, <1>7

\* The type of what a call has recorded, and the size of its block.
LEMMA EntryTyped ==
  ASSUME NEW c \in EntryCall
  PROVE  /\ c.found \in Seq(WordSet) /\ Len(c.found) \in Nat
         /\ c.ds \in Int /\ c.es \in Int /\ c.bp \in Int /\ c.resume \in Places
         /\ BlockWords(c.entry) \in Nat \ {0}
         /\ c.entry \in Thunked => BlockWords(c.entry) = ThunkSize[c.entry] \div 2
         /\ c.entry \in NotThunked => BlockWords(c.entry) = NoThunkSize[c.entry] \div 2
<1>1. /\ c.found \in Seq(WordSet) /\ Len(c.found) \in Nat
      /\ c.ds \in Int /\ c.es \in Int /\ c.bp \in Int /\ c.resume \in Places
      /\ c.entry \in Thunked \cup NotThunked /\ c.entry # "FILEATTRIBUTE"
  BY DEF EntryCall
<1> QED
  BY <1>1, BlockSizes

\* The stack of thunk_fs, with the address a of the block.
FarFrame(s, n, b, d, e, a) ==
  s \o <<Word("bp", n, b), Word("ds", n, d), Word("es", n, e)>>
    \o Copies(Word("address", n, a), 2) \o Copies(Word("far32", n, 0), 4)

\* What thunk_fs pushes on the stack.
LEMMA ThunkStack ==
  ASSUME NEW s \in Seq(WordSet), NEW n \in Nat, NEW b \in Int, NEW d \in Int, NEW e \in Int,
         NEW a \in Int, NEW s2, s2 = FarFrame(s, n, b, d, e, a)
  PROVE  /\ s2 \in Seq(WordSet) /\ Grown(s2, s, 9)
         /\ s2[Len(s) + 1].value = b /\ s2[Len(s) + 2].value = d /\ s2[Len(s) + 3].value = e
         /\ s2[Len(s) + 5].value = a
<1> DEFINE t1 == <<Word("bp", n, b), Word("ds", n, d), Word("es", n, e)>>
           t2 == Copies(Word("address", n, a), 2)
           t3 == Copies(Word("far32", n, 0), 4)
           u1 == s \o t1
           u2 == u1 \o t2
<1>1. s2 = u2 \o t3
  BY DEF FarFrame
<1>2. /\ Word("bp", n, b) \in WordSet /\ Word("ds", n, d) \in WordSet
      /\ Word("es", n, e) \in WordSet /\ Word("address", n, a) \in WordSet
      /\ Word("far32", n, 0) \in WordSet
      /\ Word("bp", n, b).value = b /\ Word("ds", n, d).value = d
      /\ Word("es", n, e).value = e /\ Word("address", n, a).value = a
  BY WordTyped DEF Holds
<1>3. /\ Len(t1) = 3 /\ t1[1].value = b /\ t1[2].value = d /\ t1[3].value = e
      /\ Len(t2) = 2 /\ t2[2].value = a /\ Len(t3) = 4
  <2>1. Len(t1) = 3 /\ t1[1].value = b /\ t1[2].value = d /\ t1[3].value = e
    BY <1>2
  <2>2. Len(t2) = 2 /\ t2[2].value = a
    <3>1. Word("address", n, a) \in WordSet /\ Word("address", n, a).value = a
      BY <1>2
    <3>2. Len(t2) = 2
      BY <3>1, CopiesTyped
    <3>3. t2[2] = Word("address", n, a)
      BY DEF Copies
    <3> QED
      BY <3>1, <3>2, <3>3
  <2>3. Len(t3) = 4
    <3>1. Word("far32", n, 0) \in WordSet
      BY <1>2
    <3> QED
      BY <3>1, CopiesTyped
  <2> QED
    BY <2>1, <2>2, <2>3
<1>4. t1 \in Seq(WordSet) /\ t2 \in Seq(WordSet) /\ t3 \in Seq(WordSet)
  BY <1>2, CopiesTyped
<1> HIDE DEF t1, t2, t3
<1>5. /\ u1 \in Seq(WordSet) /\ Len(u1) = Len(s) + Len(t1)
      /\ \A i \in 1 .. Len(s) : u1[i] = s[i]
      /\ \A i \in 1 .. Len(t1) : u1[Len(s) + i] = t1[i]
  BY <1>4, Pushing
<1> HIDE DEF u1
<1>6. /\ u2 \in Seq(WordSet) /\ Len(u2) = Len(u1) + Len(t2)
      /\ \A i \in 1 .. Len(u1) : u2[i] = u1[i]
      /\ \A i \in 1 .. Len(t2) : u2[Len(u1) + i] = t2[i]
  <2>1. u1 \in Seq(WordSet)
    BY <1>5
  <2> QED
    BY <1>4, <2>1, Pushing
<1> HIDE DEF u2
<1>7. /\ u2 \o t3 \in Seq(WordSet) /\ Len(u2 \o t3) = Len(u2) + Len(t3)
      /\ \A i \in 1 .. Len(u2) : (u2 \o t3)[i] = u2[i]
  <2>1. u2 \in Seq(WordSet)
    BY <1>6
  <2> QED
    BY <1>4, <2>1, Pushing
<1>8. Len(s) \in Nat
  OBVIOUS
<1>9. /\ Len(u1) = Len(s) + 3 /\ Len(u2) = Len(s) + 5 /\ Len(s2) = Len(s) + 9
  BY <1>1, <1>3, <1>5, <1>6, <1>7, <1>8
<1>10. /\ \A i \in 1 .. Len(s) + 5 : s2[i] = u2[i]
       /\ \A i \in 1 .. Len(s) + 3 : u2[i] = u1[i]
       /\ u2[Len(s) + 5] = t2[2]
  BY <1>1, <1>3, <1>6, <1>7, <1>8, <1>9
<1>11. u1[Len(s) + 1] = t1[1] /\ u1[Len(s) + 2] = t1[2] /\ u1[Len(s) + 3] = t1[3]
  BY <1>3, <1>5, <1>8
<1>12. ASSUME NEW i \in 1 .. Len(s)
       PROVE  s2[i] = s[i]
  <2>1. u1[i] = s[i]
    BY <1>5
  <2>2. i \in 1 .. Len(s) + 5 /\ i \in 1 .. Len(s) + 3
    BY <1>8
  <2> QED
    BY <1>10, <2>1, <2>2
<1>13. /\ s2[Len(s) + 1] = t1[1] /\ s2[Len(s) + 2] = t1[2] /\ s2[Len(s) + 3] = t1[3]
       /\ s2[Len(s) + 5] = t2[2]
  <2> DEFINE k == Len(s)
  <2>1. k \in Nat
    BY <1>8
  <2> HIDE DEF k
  <2>2. {k + 1, k + 2, k + 3} \subseteq 1 .. k + 3
    BY <2>1
  <2>3. {k + 1, k + 2, k + 3, k + 5} \subseteq 1 .. k + 5
    BY <2>1
  <2>4. u2[k + 1] = u1[k + 1] /\ u2[k + 2] = u1[k + 2] /\ u2[k + 3] = u1[k + 3]
    BY <1>10, <2>2 DEF k
  <2>5. /\ s2[k + 1] = u2[k + 1] /\ s2[k + 2] = u2[k + 2] /\ s2[k + 3] = u2[k + 3]
        /\ s2[k + 5] = u2[k + 5]
    BY <1>10, <2>3 DEF k
  <2> QED
    BY <1>10, <1>11, <2>4, <2>5 DEF k
<1> QED
  BY <1>1, <1>3, <1>7, <1>9, <1>12, <1>13 DEF Grown

\* The thunk of an entry point builds its frame.
LEMMA thunk_fs_Step ==
  ASSUME IInv, thunk_fs, regs' = regs
  PROVE  IInv'
<1> DEFINE c == Current
           m == Len(c.found)
           w == BlockWords(c.entry)
<1>1. pc = "entry" /\ pc \in EntryPlaces /\ pc' = "handling" /\ pc' \in EntryPlaces
  BY DEF thunk_fs, EntryPlaces
<1>2. c \in EntryCall /\ EntryAt(c, Depth, Here) /\ Depth \in Nat
  BY <1>1, AtEntry
<1>3. /\ m \in Nat /\ w \in Nat \ {0} /\ c.entry \in Thunked
      /\ c.ds \in Int /\ c.es \in Int /\ c.bp \in Int
  BY <1>2, EntryTyped DEF thunk_fs
<1> HIDE DEF c, m, w
<1>4. /\ Len(stack) = m + (w + 2) /\ \A i \in 1 .. m : stack[i] = c.found[i]
      /\ stack[m + w] = Word("parm", Depth, 0)
      /\ ds = c.ds /\ es = c.es /\ bp = c.bp
  BY <1>1, <1>2 DEF EntryAt, Here, Stands, Grown, m, w
<1>5. bp' = Len(stack) + 1 /\ bp' - 3 = m + w /\ bp' \in Int
  <2>1. bp' = Len(stack) + 1
    BY DEF thunk_fs
  <2>2. Len(stack) = m + (w + 2) /\ m \in Nat /\ w \in Nat
    BY <1>3, <1>4
  <2> QED
    BY <2>1, <2>2
<1>6. /\ stack' \in Seq(WordSet) /\ Grown(stack', stack, 9)
      /\ stack'[Len(stack) + 1].value = bp /\ stack'[Len(stack) + 2].value = ds
      /\ stack'[Len(stack) + 3].value = es /\ stack'[Len(stack) + 5].value = m + w
  <2>1. /\ stack \in Seq(WordSet) /\ ds \in Int /\ es \in Int /\ bp \in Int /\ m + w \in Int
    BY <1>3 DEF IInv, TypeOK
  <2>2. stack' = FarFrame(stack, Depth, bp, ds, es, m + w)
    BY <1>5 DEF thunk_fs, FarFrame
  <2> QED
    BY <1>2, <2>1, <2>2, ThunkStack
<1>7. /\ Grown(stack', c.found, w + 11)
      /\ stack'[m + w] = Word("parm", Depth, 0)
      /\ stack'[m + w + 3].value = c.bp /\ stack'[m + w + 4].value = c.ds
      /\ stack'[m + w + 5].value = c.es /\ stack'[m + w + 7].value = m + w
  <2>1. /\ Len(stack) + 1 = m + w + 3 /\ Len(stack) + 2 = m + w + 4
        /\ Len(stack) + 3 = m + w + 5 /\ Len(stack) + 5 = m + w + 7
        /\ m + w \in 1 .. Len(stack)
    BY <1>3, <1>4
  <2>2. Len(stack') = m + (w + 11) /\ \A i \in 1 .. Len(stack) : stack'[i] = stack[i]
    BY <1>3, <1>4, <1>6 DEF Grown
  <2>3. \A i \in 1 .. m : stack'[i] = c.found[i]
    BY <1>3, <1>4, <2>2
  <2>4. stack'[m + w] = Word("parm", Depth, 0)
    BY <1>4, <2>1, <2>2
  <2> QED
    BY <1>4, <1>6, <2>1, <2>2, <2>3, <2>4 DEF Grown, m
<1>8. ds' = FlatDS /\ es' = FlatDS /\ bp' = m + w + 3
  BY <1>3, <1>5 DEF thunk_fs
<1>9. EntryAt(c, Depth, Here')
  BY <1>1, <1>3, <1>7, <1>8 DEF EntryAt, Here, Stands, m, w
<1>10. StateTyped(Here')
  BY <1>5, <1>6, <1>8 DEF StateTyped, Here, Stands, FlatDS
<1>11. calls' = calls
  BY DEF thunk_fs
<1> QED
  BY <1>1, <1>9, <1>10, <1>11, EntryGoesOn DEF c

\* The 32-bit routine returns.
LEMMA handler_returns_Step ==
  ASSUME IInv, handler_returns, regs' = regs
  PROVE  IInv'
<1> DEFINE c == Current
           m == Len(c.found)
           w == BlockWords(c.entry)
<1>1. pc = "handling" /\ pc \in EntryPlaces /\ pc' = "leave" /\ pc' \in EntryPlaces
  BY DEF handler_returns, EntryPlaces
<1>2. c \in EntryCall /\ EntryAt(c, Depth, Here)
  BY <1>1, AtEntry
<1>3. m \in Nat /\ w \in Nat \ {0}
  BY <1>2, EntryTyped
<1> HIDE DEF c, m, w
<1>4. /\ Len(stack) = m + (w + 11) /\ \A i \in 1 .. m : stack[i] = c.found[i]
      /\ stack[m + w] = Word("parm", Depth, 0) /\ stack[m + w + 3].value = c.bp
      /\ stack[m + w + 4].value = c.ds /\ stack[m + w + 5].value = c.es
      /\ c.entry \in Thunked /\ ds = FlatDS /\ es = FlatDS /\ bp = m + w + 3
  BY <1>1, <1>2 DEF EntryAt, Here, Stands, Grown, m, w
<1>5. Len(stack) - 6 = m + w + 5 /\ Len(stack) - 6 \in 0 .. Len(stack)
  BY <1>3, <1>4
<1>6. /\ stack' \in Seq(WordSet) /\ Len(stack') = Len(stack) - 6
      /\ \A i \in 1 .. Len(stack) - 6 : stack'[i] = stack[i]
  <2>1. stack \in Seq(WordSet)
    BY DEF IInv, TypeOK
  <2>2. stack' = SubSeq(stack, 1, Len(stack) - 6)
    BY DEF handler_returns, Popped
  <2> QED
    BY <1>5, <2>1, <2>2, Popping
<1>7. /\ Len(stack') = m + (w + 5)
      /\ \A i \in 1 .. m + w + 5 : stack'[i] = stack[i]
  BY <1>3, <1>5, <1>6
<1>8. Grown(stack', c.found, w + 5)
  <2>1. \A i \in 1 .. m : i \in 1 .. m + w + 5
    BY <1>3
  <2>2. \A i \in 1 .. m : stack'[i] = c.found[i]
    BY <1>4, <1>7, <2>1
  <2> QED
    BY <1>7, <2>2 DEF Grown, m
<1>9. /\ stack'[m + w] = Word("parm", Depth, 0) /\ stack'[m + w + 3].value = c.bp
      /\ stack'[m + w + 4].value = c.ds /\ stack'[m + w + 5].value = c.es
  BY <1>3, <1>4, <1>7
<1>10. ds' = ds /\ es' = es /\ bp' = bp /\ calls' = calls
  BY DEF handler_returns
<1>11. EntryAt(c, Depth, Here')
  BY <1>1, <1>4, <1>8, <1>9, <1>10 DEF EntryAt, Here, Stands, m, w
<1>12. StateTyped(Here')
  BY <1>6, <1>10 DEF StateTyped, Here, Stands, IInv, TypeOK
<1> QED
  BY <1>1, <1>10, <1>11, <1>12, EntryGoesOn DEF c

\* The thunk undoes its frame, and pops the parameters.
LEMMA leave_Step ==
  ASSUME IInv, leave, regs' = regs
  PROVE  IInv'
<1> DEFINE c == Current
           m == Len(c.found)
           w == BlockWords(c.entry)
<1>1. pc = "leave" /\ pc \in EntryPlaces /\ pc' = "returned" /\ pc' \in EntryPlaces
  BY DEF leave, EntryPlaces
<1>2. c \in EntryCall /\ EntryAt(c, Depth, Here)
  BY <1>1, AtEntry
<1>3. /\ m \in Nat /\ w \in Nat \ {0} /\ c.found \in Seq(WordSet)
      /\ c.entry \in Thunked => w = ThunkSize[c.entry] \div 2
      /\ c.ds \in Int /\ c.es \in Int /\ c.bp \in Int
  BY <1>2, EntryTyped
<1>4. stack \in Seq(WordSet)
  BY DEF IInv, TypeOK
<1> HIDE DEF c, m, w
<1>5. /\ Grown(stack, c.found, w + 5) /\ stack[m + w + 3].value = c.bp
      /\ stack[m + w + 4].value = c.ds /\ stack[m + w + 5].value = c.es
      /\ c.entry \in Thunked /\ bp = m + w + 3
  BY <1>1, <1>2 DEF EntryAt, Here, Stands, m, w
<1>6. Len(stack) = m + w + 5
  <2>1. Len(stack) = m + (w + 5)
    BY <1>5 DEF Grown, m
  <2> QED
    BY <1>3, <2>1
<1>7. es' = c.es
  <2>1. Last(stack) = stack[Len(stack)]
    BY DEF Last
  <2> QED
    BY <1>5, <1>6, <2>1 DEF leave
<1>8. ds' = c.ds
  <2> DEFINE p == SubSeq(stack, 1, Len(stack) - 1)
  <2>1. Len(stack) - 1 \in 0 .. Len(stack)
    BY <1>3, <1>6
  <2>2. Len(p) = Len(stack) - 1 /\ \A i \in 1 .. Len(stack) - 1 : p[i] = stack[i]
    BY <1>4, <2>1, Popping
  <2> HIDE DEF p
  <2>3. Last(p) = p[Len(p)]
    BY DEF Last
  <2>4. Last(p) = stack[m + w + 4]
    BY <1>3, <1>6, <2>2, <2>3
  <2>5. ds' = Last(p).value
    BY DEF leave, Popped, p
  <2> QED
    BY <1>5, <2>4, <2>5
<1>9. bp' = c.bp
  BY <1>5 DEF leave
<1>10. stack' = c.found
  <2>1. bp - 1 - 2 - (ThunkSize[c.entry] \div 2) = m
    BY <1>3, <1>5
  <2>2. stack' = SubSeq(stack, 1, Len(c.found))
    BY <2>1 DEF leave, c, m
  <2>3. w + 5 \in Nat
    BY <1>3
  <2> QED
    BY <1>3, <1>4, <1>5, <2>2, <2>3, PoppedAll
<1>11. EntryAt(c, Depth, Here')
  BY <1>1, <1>7, <1>8, <1>9, <1>10 DEF EntryAt, Here, Stands
<1>12. StateTyped(Here')
  BY <1>3, <1>7, <1>8, <1>9, <1>10 DEF StateTyped, Here, Stands
<1>13. calls' = calls
  BY DEF leave
<1> QED
  BY <1>1, <1>11, <1>12, <1>13, EntryGoesOn DEF c

\* An entry point without a routine pops the parameters.
LEMMA nothunk_fs_Step ==
  ASSUME IInv, nothunk_fs, regs' = regs
  PROVE  IInv'
<1> DEFINE c == Current
           m == Len(c.found)
           w == BlockWords(c.entry)
<1>1. pc = "entry" /\ pc \in EntryPlaces /\ pc' = "returned" /\ pc' \in EntryPlaces
  BY DEF nothunk_fs, EntryPlaces
<1>2. c \in EntryCall /\ EntryAt(c, Depth, Here)
  BY <1>1, AtEntry
<1>3. /\ m \in Nat /\ w \in Nat \ {0} /\ c.found \in Seq(WordSet)
      /\ w = NoThunkSize[c.entry] \div 2
  BY <1>2, EntryTyped DEF nothunk_fs
<1>4. stack \in Seq(WordSet)
  BY DEF IInv, TypeOK
<1> HIDE DEF c, m, w
<1>5. /\ Grown(stack, c.found, w + 2) /\ ds = c.ds /\ es = c.es /\ bp = c.bp
  BY <1>1, <1>2 DEF EntryAt, Here, Stands, w
<1>6. stack' = c.found
  <2>1. Len(stack) - (2 + w) = m
    BY <1>3, <1>5 DEF Grown, m
  <2>2. stack' = SubSeq(stack, 1, Len(c.found))
    BY <1>3, <2>1 DEF nothunk_fs, Popped, c, m
  <2>3. w + 2 \in Nat
    BY <1>3
  <2> QED
    BY <1>3, <1>4, <1>5, <2>2, <2>3, PoppedAll
<1>7. ds' = ds /\ es' = es /\ bp' = bp /\ calls' = calls
  BY DEF nothunk_fs
<1>8. EntryAt(c, Depth, Here')
  BY <1>1, <1>5, <1>6, <1>7 DEF EntryAt, Here, Stands
<1>9. StateTyped(Here')
  BY <1>3, <1>6, <1>7 DEF StateTyped, Here, Stands, IInv, TypeOK
<1> QED
  BY <1>1, <1>7, <1>8, <1>9, EntryGoesOn DEF c

\* An entry point has returned to the kernel, or to what a page fault interrupted.
LEMMA Resume_Step ==
  ASSUME IInv, Resume, regs' = regs
  PROVE  IInv'
<1>1. pc = "returned" /\ pc \in EntryPlaces
  BY DEF Resume, EntryPlaces
<1>2. /\ Current \in EntryCall /\ ~IsThunk(Current) /\ EntryAt(Current, Depth, Here)
      /\ Depth # 0
  BY <1>1, AtEntry
<1>3. /\ stack = Current.found /\ ds = Current.ds /\ es = Current.es /\ bp = Current.bp
      /\ stack \in Seq(WordSet)
  BY <1>1, <1>2 DEF EntryAt, Here, Stands, IInv, TypeOK
<1>4. SubSeq(stack, 1, Len(stack) - 0) = stack
  BY <1>3
<1>5. Opens(Current, Here', regs', regs)
  BY <1>2, <1>3, <1>4 DEF Resume, Opens, Before, Passed, Here, Stands
<1>6. StateTyped(Here') /\ regs' \in RegFile
  BY DEF Resume, StateTyped, Here, Stands, IInv, TypeOK
<1>7. calls' = Front(calls)
  BY DEF Resume
<1> QED
  BY <1>2, <1>5, <1>6, <1>7, CallEnds

----------------------------------------------------------------------------
(* The steps of the thunks.                                                 *)

\* In the beginning nothing is called.
LEMMA InitStep ==
  ASSUME InitCalls
  PROVE  IInv
<1> USE DEF InitCalls, Init
<1>1. regs \in RegFile
  BY WordTyped DEF NoRegs, RegFile, Zero, Holds
<1>2. TypeOK
  BY <1>1 DEF TypeOK, Places, KernelDS, KernelES
<1>3. Depth = 0 /\ Levels(calls, Here, regs)
  BY DEF Depth, Levels
<1> QED
  BY <1>2, <1>3 DEF IInv

\* A routine that can be called, and its prototype.
LEMMA Described ==
  ASSUME NEW r \in DOMAIN Description
  PROVE  /\ r \in Services /\ Interface!Reached(r) = r
         /\ Sound(Description[r], Interface!Declared[r])
         /\ Tells(Description[r], Interface!Declared[r])
<1>1. r \in Services
  BY DEF Description, Services, Interface!Declared
<1> QED
  BY <1>1, RoutinesReached, DescriptionsSound, DescriptionsTell

\* The registers at a call hold words.
LEMMA RegsTyped ==
  ASSUME NEW p, p.optlink \in BOOLEAN, NEW n \in Nat
  PROVE  RegsAtCall(p, n) \in RegFile
<1>1. \A h \in Holds : \A v \in {0, 1, 2} : Words(h, n, v) \in WordSet \X WordSet
  BY WordTyped DEF Words
<1>2. "arg" \in Holds /\ Registers \subseteq Holds
  BY DEF Holds
<1> QED
  BY <1>1, <1>2 DEF RegsAtCall, RegFile

\* The parameters on the stack are words, two for each.
LEMMA ArgsTyped ==
  ASSUME NEW p, p.optlink \in BOOLEAN, Len(p.args) \in Nat, NEW n \in Nat
  PROVE  /\ ArgWords(p, n) \in Seq(WordSet) /\ Len(ArgWords(p, n)) = ArgCount(p)
         /\ ArgCount(p) \in Nat
         /\ \A k \in 1 .. ArgCount(p) : ArgWords(p, n)[k] = Word("arg", n, ArgCount(p) + 2 - k)
<1>1. CASE p.optlink
  BY <1>1 DEF ArgWords, ArgCount
<1>2. CASE ~p.optlink
  <2> DEFINE m == 2 * Len(p.args)
  <2>1. m \in Nat /\ ArgCount(p) = m
    BY <1>2 DEF ArgCount
  <2>2. ArgWords(p, n) = [k \in 1 .. m |-> Word("arg", n, m + 2 - k)]
    BY <1>2 DEF ArgWords
  <2> HIDE DEF m
  <2>3. \A k \in 1 .. m : Word("arg", n, m + 2 - k) \in WordSet
    BY <2>1, WordTyped DEF Holds
  <2> QED
    BY <2>1, <2>2, <2>3
<1> QED
  BY <1>1, <1>2

\* The parameters of call n, k words.
AreArgs(a, n, k) == Len(a) = k /\ \A i \in 1 .. k : a[i] = Word("arg", n, k + 2 - i)

\* The stack that a thunk is called with.
LEMMA CallStack ==
  ASSUME NEW s \in Seq(WordSet), NEW a \in Seq(WordSet), NEW n \in Nat, NEW k \in Nat,
         AreArgs(a, n, k), NEW f, f = s \o a
  PROVE  /\ f \in Seq(WordSet) /\ Len(f) \in Nat /\ k <= Len(f) /\ SubSeq(f, 1, Len(f) - k) = s
         /\ \A i \in Len(f) - k + 1 .. Len(f) : f[i] = Word("arg", n, Len(f) + 2 - i)
<1> DEFINE ls == Len(s)
<1>1. /\ f \in Seq(WordSet) /\ Len(f) = ls + Len(a)
      /\ \A i \in 1 .. ls : f[i] = s[i]
      /\ \A i \in 1 .. Len(a) : f[ls + i] = a[i]
  BY Pushing
<1>2. ls \in Nat
  OBVIOUS
<1>3. Len(a) = k /\ \A i \in 1 .. k : a[i] = Word("arg", n, k + 2 - i)
  BY DEF AreArgs
<1>4. Grown(f, s, k)
  BY <1>1, <1>3 DEF Grown
<1>5. SubSeq(f, 1, ls) = s
  BY <1>1, <1>4, PoppedAll
<1> HIDE DEF ls
<1>6. Len(f) = ls + k
  BY <1>1, <1>3
<1>7. ASSUME NEW i \in Len(f) - k + 1 .. Len(f)
      PROVE  f[i] = Word("arg", n, Len(f) + 2 - i)
  <2>1. i - ls \in 1 .. k /\ ls + (i - ls) = i /\ k + 2 - (i - ls) = Len(f) + 2 - i
    BY <1>2, <1>6
  <2>2. f[ls + (i - ls)] = a[i - ls]
    BY <1>1, <1>3, <2>1
  <2>3. a[i - ls] = Word("arg", n, k + 2 - (i - ls))
    BY <1>3, <2>1
  <2> QED
    BY <2>1, <2>2, <2>3
<1>8. k <= Len(f) /\ Len(f) - k = ls /\ Len(f) \in Nat
  BY <1>2, <1>6
<1>9. SubSeq(f, 1, Len(f) - k) = s
  BY <1>5, <1>8
<1>10. f \in Seq(WordSet)
  BY <1>1
<1> QED
  BY <1>7, <1>8, <1>9, <1>10

\* The return address takes two words.
LEMMA TwoMore ==
  ASSUME NEW f \in Seq(WordSet), NEW w \in WordSet, NEW s, s = f \o Copies(w, 2)
  PROVE  s \in Seq(WordSet) /\ Grown(s, f, 2)
<1>1. Copies(w, 2) \in Seq(WordSet)
  BY CopiesTyped
<1>2. Len(Copies(w, 2)) = 2
  BY CopiesTyped
<1>3. /\ s \in Seq(WordSet) /\ Len(s) = Len(f) + Len(Copies(w, 2))
      /\ \A i \in 1 .. Len(f) : s[i] = f[i]
  BY <1>1, Pushing
<1> QED
  BY <1>2, <1>3 DEF Grown

\* There may be no answers.
LEMMA NoAnswers == <<>> \in Answers
<1>1. <<>> \in [{} -> Nat]
  OBVIOUS
<1>2. {} \in SUBSET Locals
  OBVIOUS
<1> QED
  BY <1>1, <1>2 DEF Answers

\* No answer belongs to a conversion before the first.
LEMMA NothingEarlier ==
  ASSUME NEW t, NEW p, Tells(t, p), NEW n
  PROVE  Earlier(p, n, 1) = {}
<1>1. \A j \in Outputs(p) : ~(Rank(Outputs(p), j) < 1)
  BY DEF Tells
<1> QED
  BY <1>1 DEF Earlier, Complete

\* A 32-bit routine calls a thunk.
LEMMA call_thunk_Step ==
  ASSUME IInv, call_thunk
  PROVE  IInv'
<1> DEFINE n == Depth + 1
<1>1. pc = "handling" /\ pc \in EntryPlaces /\ pc' = "pushing"
  BY DEF call_thunk, EntryPlaces, Go
<1>2. /\ ds = FlatDS /\ es = FlatDS /\ n \in Nat
      /\ ds' = ds /\ es' = es /\ bp' = bp
  BY <1>1, AtEntry DEF EntryAt, Here, Stands, call_thunk
<1>3. /\ stack \in Seq(WordSet) /\ ds \in Int /\ es \in Int /\ bp \in Int
      /\ regs \in RegFile /\ pc \in Places
  BY DEF IInv, TypeOK
<1>4. PICK r \in Routines, null \in BOOLEAN :
        /\ null => Description[Interface!Reached(r)].null # "fault"
        /\ calls' = Append(calls,
             [called |-> r, entry |-> Interface!Reached(r),
              found |-> stack \o ArgWords(Interface!Declared[r], n), ds |-> ds, es |-> es,
              bp |-> bp, resume |-> pc, outer |-> regs, null |-> null,
              ok |-> TRUE, stage |-> 1, answers |-> <<>>, written |-> {}])
        /\ stack' = stack \o ArgWords(Interface!Declared[r], n) \o Copies(Word("near32", n, 0), 2)
        /\ regs' = RegsAtCall(Interface!Declared[r], n)
  BY DEF call_thunk
<1>5. r \in DOMAIN Description
  BY RoutinesAssumption
<1> DEFINE p == Interface!Declared[r]
           f == stack \o ArgWords(p, n)
           c == [called |-> r, entry |-> r, found |-> f, ds |-> ds, es |-> es,
                 bp |-> bp, resume |-> pc, outer |-> regs, null |-> null,
                 ok |-> TRUE, stage |-> 1, answers |-> <<>>, written |-> {}]
<1>6. Interface!Reached(r) = r /\ Sound(Description[r], p) /\ Tells(Description[r], p)
  BY <1>5, Described
<1>7. calls' = Append(calls, c) /\ stack' = f \o Copies(Word("near32", n, 0), 2) /\ regs' = RegsAtCall(p, n)
  BY <1>4, <1>6
<1>8. p.optlink \in BOOLEAN /\ Len(p.args) \in Nat
  BY <1>6 DEF Sound, Readable
<1> HIDE DEF n, p
<1>9. /\ f \in Seq(WordSet) /\ Len(f) \in Nat /\ ArgCount(p) <= Len(f)
      /\ SubSeq(f, 1, Len(f) - ArgCount(p)) = stack
      /\ \A i \in Len(f) - ArgCount(p) + 1 .. Len(f) : f[i] = Word("arg", n, Len(f) + 2 - i)
  <2>1. /\ ArgWords(p, n) \in Seq(WordSet) /\ Len(ArgWords(p, n)) = ArgCount(p)
        /\ ArgCount(p) \in Nat
        /\ \A k \in 1 .. ArgCount(p) : ArgWords(p, n)[k] = Word("arg", n, ArgCount(p) + 2 - k)
    BY <1>2, <1>8, ArgsTyped
  <2> QED
    BY <1>2, <1>3, <2>1, CallStack DEF AreArgs
<1> HIDE DEF f
<1>10. stack' \in Seq(WordSet) /\ Grown(stack', f, 2)
  <2>1. Word("near32", n, 0) \in WordSet
    BY <1>2, WordTyped DEF Holds
  <2> QED
    BY <1>7, <1>9, <2>1, TwoMore
<1>11. regs' \in RegFile
  BY <1>2, <1>7, <1>8, RegsTyped
<1>12. null \in BOOLEAN /\ (null => Description[r].null # "fault")
  BY <1>4, <1>6
<1>13. c \in ThunkCall /\ IsThunk(c) /\ c \in Call
  BY <1>12, <1>3, <1>5, <1>9, NoAnswers DEF ThunkCall, IsThunk, Call
<1>14. Opens(c, Here, regs, regs')
  BY <1>9, <1>13 DEF Opens, Before, Passed, Here, Stands, p
<1>15. FrameAt(c, n, Here', regs')
  BY <1>1, <1>2, <1>7, <1>9, <1>10 DEF FrameAt, Here, Stands, Thunk32Steps, p
<1>16. DeliveredAt(c, n, Here', regs')
  BY <1>1 DEF DeliveredAt, Here, Stands
<1>17. ToldAt(c, n, Here', regs')
  <2>1. 1 \in 1 .. Len(Description[r].stores)
    BY <1>6 DEF Sound, Readable
  <2>2. {} = Earlier(p, n, 1)
    BY <1>6, NothingEarlier
  <2> QED
    BY <1>1, <1>12, <2>1, <2>2 DEF ToldAt, Here, Stands, p
<1>18. Level(c, n, Here', regs')
  BY <1>13, <1>15, <1>16, <1>17 DEF Level, ThunkAt
<1>19. StateTyped(Here') /\ pc' \in Thunk32Steps
  BY <1>1, <1>2, <1>3, <1>10 DEF StateTyped, Here, Stands, Thunk32Steps
<1> HIDE DEF c
<1> QED
  BY <1>7, <1>11, <1>13, <1>14, <1>18, <1>19, CallOpens DEF n

\* What is known of a thunk that is running.
LEMMA ThunkTyped ==
  ASSUME IInv, pc \in Thunk32Steps
  PROVE  /\ Current.entry \in DOMAIN Description /\ Current.called = Current.entry
         /\ Sound(thunk, asked) /\ Tells(thunk, asked) /\ thunk = Description[Current.entry]
         /\ asked = Interface!Declared[Current.called]
         /\ Current.found \in Seq(WordSet) /\ Len(Current.found) \in Nat
         /\ Current.ds = FlatDS /\ Current.es = FlatDS /\ Current.bp \in Int
         /\ Depth \in Nat \ {0}
<1>1. Current \in ThunkCall /\ FrameAt(Current, Depth, Here, regs) /\ Depth \in Nat \ {0}
  BY AtThunk DEF ThunkAt
<1>2. /\ Current.entry \in DOMAIN Description /\ Current.found \in Seq(WordSet)
      /\ Current.bp \in Int
  BY <1>1 DEF ThunkCall
<1>3. Current.entry = Current.called /\ Current.ds = FlatDS /\ Current.es = FlatDS
  BY <1>1 DEF FrameAt
<1>4. Sound(thunk, asked) /\ Tells(thunk, asked)
  BY <1>2, <1>3, Described DEF thunk, asked
<1> QED
  BY <1>1, <1>2, <1>3, <1>4 DEF thunk, asked

\* A thunk that goes on without changing the record of its call.
LEMMA ThunkStays ==
  ASSUME IInv, pc \in Thunk32Steps, calls' = calls, pc' \in Thunk32Steps, StateTyped(Here'),
         regs' \in RegFile, ThunkAt(Current, Depth, Here', regs')
  PROVE  IInv'
<1>1. /\ Depth \in Nat \ {0} /\ calls \in Seq(Call) /\ Depth = Len(calls)
      /\ Current \in ThunkCall
  BY AtThunk
<1>2. calls' = [calls EXCEPT ![Depth] = Current]
  BY <1>1 DEF Current
<1> QED
  BY <1>1, <1>2, ThunkGoesOn

\* Until the kernel answers nothing is stored, and the answer of a routine
\* that calls no kernel is its own.
LEMMA ToldStays ==
  ASSUME NEW c, NEW n, NEW z, NEW q, ToldAt(c, n, z, q), NEW z2, NEW q2,
         z.place \in {"pushing", "loading"},
         \/ z2.place \in {"loading", "in_kernel"}
         \/ z2.place = "popping" /\ Description[c.entry].via = "none"
  PROVE  ToldAt(c, n, z2, q2)
BY DEF ToldAt

\* The frame of a thunk with k words of local variables.
Frame(k, n, b) ==
  IF k = NoFrame THEN <<>>
  ELSE <<Word("high", n, 0), Word("bp", n, b)>> \o Copies(Word("local", n, 0), k)

\* What enter, or push ebp, puts on the stack.
LEMMA FrameTyped ==
  ASSUME NEW t, t.local \in Nat \cup {NoFrame}, NEW n \in Nat, NEW b \in Int
  PROVE  /\ Frame(t.local, n, b) \in Seq(WordSet)
         /\ Len(Frame(t.local, n, b)) = FrameWords(t) /\ FrameWords(t) \in Nat
         /\ t.local # NoFrame => /\ Frame(t.local, n, b)[2].value = b
                                 /\ FrameWords(t) >= 2
<1>1. CASE t.local = NoFrame
  BY <1>1 DEF Frame, FrameWords
<1>2. CASE t.local # NoFrame
  <2> DEFINE h == <<Word("high", n, 0), Word("bp", n, b)>>
             v == Copies(Word("local", n, 0), t.local)
  <2>1. /\ Word("high", n, 0) \in WordSet /\ Word("bp", n, b) \in WordSet
        /\ Word("local", n, 0) \in WordSet /\ Word("bp", n, b).value = b
    BY WordTyped DEF Holds
  <2>2. h \in Seq(WordSet)
    BY <2>1
  <2>3. Len(h) = 2 /\ h[2].value = b
    BY <2>1
  <2>4. t.local \in Nat
    BY <1>2
  <2>5. v \in Seq(WordSet)
    BY <2>1, <2>4, CopiesTyped
  <2>6. Len(v) = t.local
    BY <2>1, <2>4, CopiesTyped
  <2> HIDE DEF h, v
  <2>7. /\ h \o v \in Seq(WordSet) /\ Len(h \o v) = Len(h) + Len(v)
        /\ \A i \in 1 .. Len(h) : (h \o v)[i] = h[i]
    BY <2>2, <2>5, Pushing
  <2>8. Frame(t.local, n, b) = h \o v /\ FrameWords(t) = 2 + t.local
    BY <1>2 DEF Frame, FrameWords, h, v
  <2>9. 2 \in 1 .. Len(h)
    BY <2>3
  <2>10. Len(h \o v) = 2 + t.local /\ (h \o v)[2].value = b
    BY <2>3, <2>6, <2>7, <2>9
  <2> QED
    BY <2>4, <2>7, <2>8, <2>10
<1> QED
  BY <1>1, <1>2

\* Of each register that a thunk saves the upper half is pushed first.
LEMMA PushedTyped ==
  ASSUME IInv, NEW k \in Nat, thunk.pushes \in Seq(Registers \cup Segments),
         Len(thunk.pushes) = k, ds = FlatDS, es = FlatDS
  PROVE  /\ PushedWords \in Seq(WordSet) /\ Len(PushedWords) = 2 * k
         /\ \A j \in 1 .. k : Saved(PushedWords, 2 * j, thunk.pushes[j], regs)
<1> DEFINE p == thunk.pushes
<1>1. regs \in RegFile /\ Depth \in Nat
  BY DEF IInv, TypeOK, Depth
<1>2. ASSUME NEW r \in Registers \cup Segments
      PROVE  /\ Pushed(r)[1] \in WordSet /\ Pushed(r)[2] \in WordSet
             /\ IF r \in Segments THEN Pushed(r)[2].value = FlatDS
                ELSE Pushed(r)[2] = regs[r][1] /\ Pushed(r)[1] = regs[r][2]
  <2>1. CASE r \in Segments
    <3>1. \A s \in {"high", "ds", "es"} : \A v \in {0, FlatDS} :
            Word(s, Depth, v) \in WordSet /\ Word(s, Depth, v).value = v
      BY <1>1, WordTyped DEF Holds, FlatDS
    <3> QED
      BY <2>1, <3>1 DEF Segments, Pushed
  <2>2. CASE r \notin Segments
    <3>1. r \in Registers /\ r # "ds" /\ r # "es"
      BY <2>2 DEF Segments
    <3>2. regs[r] \in WordSet \X WordSet
      BY <1>1, <3>1 DEF RegFile
    <3>3. Pushed(r) = <<regs[r][2], regs[r][1]>>
      BY <3>1 DEF Pushed
    <3> QED
      BY <2>2, <3>2, <3>3
  <2> QED
    BY <2>1, <2>2
<1>3. \A i \in 1 .. 2 * k : (i + 1) \div 2 \in 1 .. k /\ 2 - (i % 2) \in {1, 2}
  OBVIOUS
<1>4. \A j \in 1 .. k : /\ 2 * j \in 1 .. 2 * k /\ (2 * j + 1) \div 2 = j
                        /\ 2 - ((2 * j) % 2) = 2
                        /\ 2 * j - 1 \in 1 .. 2 * k /\ (2 * j - 1 + 1) \div 2 = j
                        /\ 2 - ((2 * j - 1) % 2) = 1
  OBVIOUS
<1>5. \A j \in 1 .. k : p[j] \in Registers \cup Segments
  OBVIOUS
<1>6. PushedWords = [i \in 1 .. 2 * k |-> Pushed(p[(i + 1) \div 2])[2 - (i % 2)]]
  BY DEF PushedWords
<1> HIDE DEF p
<1>7. \A i \in 1 .. 2 * k : Pushed(p[(i + 1) \div 2])[2 - (i % 2)] \in WordSet
  BY <1>2, <1>3, <1>5
<1>8. PushedWords \in Seq(WordSet) /\ Len(PushedWords) = 2 * k
  BY <1>6, <1>7
<1>9. \A j \in 1 .. k : PushedWords[2 * j] = Pushed(p[j])[2] /\ PushedWords[2 * j - 1] = Pushed(p[j])[1]
  BY <1>4, <1>6
<1>10. ASSUME NEW j \in 1 .. k
       PROVE  Saved(PushedWords, 2 * j, p[j], regs)
  BY <1>2, <1>5, <1>9 DEF Saved
<1> QED
  BY <1>8, <1>10 DEF p

\* The frame, and above it the registers, are pushed on a stack.
LEMMA PushingTwo ==
  ASSUME NEW s \in Seq(WordSet), NEW f \in Seq(WordSet), NEW p \in Seq(WordSet),
         NEW s2, s2 = s \o f \o p
  PROVE  /\ s2 \in Seq(WordSet) /\ Len(s2) = Len(s) + Len(f) + Len(p)
         /\ \A i \in 1 .. Len(s) : s2[i] = s[i]
         /\ \A i \in 1 .. Len(f) : s2[Len(s) + i] = f[i]
         /\ \A i \in 1 .. Len(p) : s2[Len(s) + Len(f) + i] = p[i]
<1> DEFINE u == s \o f
<1>1. /\ u \in Seq(WordSet) /\ Len(u) = Len(s) + Len(f)
      /\ \A i \in 1 .. Len(s) : u[i] = s[i]
      /\ \A i \in 1 .. Len(f) : u[Len(s) + i] = f[i]
  BY Pushing
<1>2. s2 = u \o p
  OBVIOUS
<1> HIDE DEF u
<1>3. /\ s2 \in Seq(WordSet) /\ Len(s2) = Len(u) + Len(p)
      /\ \A i \in 1 .. Len(u) : s2[i] = u[i]
      /\ \A i \in 1 .. Len(p) : s2[Len(u) + i] = p[i]
  <2>1. u \in Seq(WordSet)
    BY <1>1
  <2> QED
    BY <1>2, <2>1, Pushing
<1>4. Len(s) \in Nat /\ Len(f) \in Nat
  OBVIOUS
<1>5. \A i \in 1 .. Len(s) : i \in 1 .. Len(u)
  BY <1>1, <1>4
<1>6. \A i \in 1 .. Len(f) : Len(s) + i \in 1 .. Len(u)
  BY <1>1, <1>4
<1>7. \A i \in 1 .. Len(s) : s2[i] = s[i]
  BY <1>1, <1>3, <1>5
<1>8. \A i \in 1 .. Len(f) : s2[Len(s) + i] = f[i]
  BY <1>1, <1>3, <1>6
<1>9. \A i \in 1 .. Len(p) : s2[Len(s) + Len(f) + i] = p[i]
  BY <1>1, <1>3
<1>10. Len(s2) = Len(s) + Len(f) + Len(p)
  BY <1>1, <1>3
<1> QED
  BY <1>3, <1>7, <1>8, <1>9, <1>10

\* A thunk builds its frame and saves registers.
LEMMA push_registers_Step ==
  ASSUME IInv, push_registers
  PROVE  IInv'
<1> DEFINE c == Current
           m == Len(c.found)
           t == thunk
           k == Len(t.pushes)
           w == FrameWords(t)
           f == Frame(t.local, Depth, bp)
           given == RegsAtCall(asked, Depth)
<1>1. pc = "pushing" /\ pc \in Thunk32Steps /\ pc' = "loading" /\ pc' \in Thunk32Steps
  BY DEF push_registers, Thunk32Steps, Go
<1>2. FrameAt(c, Depth, Here, regs)
  BY <1>1, AtThunk DEF ThunkAt
<1>3. /\ Sound(t, asked) /\ t = Description[c.entry] /\ asked = Interface!Declared[c.called]
      /\ c.found \in Seq(WordSet) /\ m \in Nat /\ c.ds = FlatDS /\ c.es = FlatDS
      /\ c.bp \in Int /\ Depth \in Nat
  BY <1>1, ThunkTyped
<1>4. /\ t.local \in Nat \cup {NoFrame} /\ t.pushes \in Seq(Registers \cup Segments)
      /\ k \in Nat
  BY <1>3 DEF Sound, Balanced, Readable
<1>5. stack \in Seq(WordSet) /\ bp \in Int /\ regs \in RegFile
  BY DEF IInv, TypeOK
<1> HIDE DEF c, m, t
<1>6. /\ c.entry = c.called /\ ArgCount(asked) <= m
      /\ \A i \in m - ArgCount(asked) + 1 .. m : c.found[i] = Word("arg", Depth, m + 2 - i)
      /\ Grown(stack, c.found, 2) /\ bp = c.bp /\ ds = c.ds /\ es = c.es /\ regs = given
  BY <1>1, <1>2, <1>3 DEF FrameAt, Here, Stands, m
<1>7. /\ stack' = stack \o f \o PushedWords
      /\ bp' = IF t.local = NoFrame THEN bp ELSE Len(stack) + 2
      /\ calls' = calls /\ ds' = ds /\ es' = es /\ regs' = regs
  BY DEF push_registers, Frame, t
<1>8. /\ f \in Seq(WordSet) /\ Len(f) = w /\ w \in Nat
      /\ t.local # NoFrame => f[2].value = bp /\ w >= 2
  <2>1. Depth \in Nat /\ bp \in Int /\ t.local \in Nat \cup {NoFrame}
    BY <1>3, <1>4, <1>5
  <2> QED
    BY <2>1, FrameTyped
<1>9. /\ PushedWords \in Seq(WordSet) /\ Len(PushedWords) = 2 * k
      /\ \A j \in 1 .. k : Saved(PushedWords, 2 * j, t.pushes[j], regs)
  BY <1>3, <1>4, <1>6, PushedTyped DEF t
<1> HIDE DEF f, w, k, given
<1>10. /\ stack' \in Seq(WordSet) /\ Len(stack') = Len(stack) + Len(f) + Len(PushedWords)
       /\ \A i \in 1 .. Len(stack) : stack'[i] = stack[i]
       /\ \A i \in 1 .. Len(f) : stack'[Len(stack) + i] = f[i]
       /\ \A i \in 1 .. Len(PushedWords) : stack'[Len(stack) + Len(f) + i] = PushedWords[i]
  <2>1. f \in Seq(WordSet) /\ PushedWords \in Seq(WordSet) /\ stack' = stack \o f \o PushedWords
    BY <1>7, <1>8, <1>9
  <2> QED
    BY <1>5, <2>1, PushingTwo
<1>11. Len(stack) = m + 2 /\ \A i \in 1 .. m : stack[i] = c.found[i]
  BY <1>6 DEF Grown, m
<1>12. Grown(stack', c.found, Reserved(t) + 0)
  <2>1. Len(stack') = m + (2 + w + 2 * k + 0)
    BY <1>3, <1>4, <1>8, <1>9, <1>10, <1>11
  <2>2. Reserved(t) = 2 + w + 2 * k
    BY DEF Reserved, w, k
  <2>3. \A i \in 1 .. m : stack'[i] = c.found[i]
    BY <1>3, <1>10, <1>11
  <2> QED
    BY <2>1, <2>2, <2>3 DEF Grown, m
<1>13. IF t.local = NoFrame THEN bp' = c.bp
       ELSE bp' = m + 4 /\ stack'[bp'].value = c.bp
  <2>1. CASE t.local = NoFrame
    BY <1>6, <1>7, <2>1
  <2>2. CASE t.local # NoFrame
    <3>1. bp' = m + 4
      BY <1>3, <1>7, <1>11, <2>2
    <3>2. 2 \in 1 .. Len(f)
      BY <1>8, <2>2
    <3>3. stack'[Len(stack) + 2].value = c.bp
      BY <1>6, <1>8, <1>10, <2>2, <3>2
    <3> QED
      BY <1>7, <2>2, <3>1, <3>3
  <2> QED
    BY <2>1, <2>2
<1>14. ASSUME NEW j \in 1 .. k
       PROVE  Saved(stack', m + 2 + w + 2 * j, t.pushes[j], given)
  <2>1. 2 * j \in 1 .. 2 * k /\ 2 * j - 1 \in 1 .. 2 * k
    BY <1>4
  <2>2. /\ Len(stack) + Len(f) + 2 * j = m + 2 + w + 2 * j
        /\ Len(stack) + Len(f) + (2 * j - 1) = (m + 2 + w + 2 * j) - 1
    BY <1>3, <1>4, <1>8, <1>11
  <2>3. /\ stack'[m + 2 + w + 2 * j] = PushedWords[2 * j]
        /\ stack'[(m + 2 + w + 2 * j) - 1] = PushedWords[2 * j - 1]
    BY <1>9, <1>10, <2>1, <2>2
  <2>4. Saved(PushedWords, 2 * j, t.pushes[j], given)
    BY <1>6, <1>9
  <2> QED
    BY <2>3, <2>4 DEF Saved
<1>15. FrameAt(c, Depth, Here', regs')
  BY <1>1, <1>3, <1>6, <1>7, <1>12, <1>13, <1>14
  DEF FrameAt, Framed, Here, Stands, m, w, k, given
<1>16. StateTyped(Here') /\ regs' \in RegFile
  <2>1. bp' \in Int
    BY <1>3, <1>5, <1>7, <1>11
  <2> QED
    BY <1>3, <1>5, <1>6, <1>7, <1>10, <2>1 DEF StateTyped, Here, Stands, FlatDS
<1>17. DeliveredAt(c, Depth, Here', regs')
  BY <1>1 DEF DeliveredAt, Here, Stands
<1>18. ToldAt(c, Depth, Here', regs')
  <2>1. ToldAt(c, Depth, Here, regs) /\ Here.place = "pushing" /\ Here'.place = "loading"
    BY <1>1, AtThunk DEF ThunkAt, Here, Stands, c
  <2> QED
    BY <2>1, ToldStays
<1> QED
  BY <1>1, <1>7, <1>15, <1>16, <1>17, <1>18, ThunkStays DEF c, ThunkAt

\* What is pushed on a frame leaves the frame alone.
LEMMA FramedKept ==
  ASSUME NEW c, Len(c.found) \in Nat, NEW t, t.local \in Nat \cup {NoFrame},
         Len(t.pushes) \in Nat, NEW s, NEW b, NEW q, NEW k \in Nat, NEW k2 \in Nat,
         Framed(c, t, s, b, k, q), NEW s2, Len(s2) = Len(c.found) + Reserved(t) + k2,
         \A i \in 1 .. Len(c.found) + Reserved(t) : s2[i] = s[i]
  PROVE  Framed(c, t, s2, b, k2, q)
<1> DEFINE m == Len(c.found)
           w == FrameWords(t)
           p == Len(t.pushes)
<1>1. /\ m \in Nat /\ w \in Nat /\ p \in Nat /\ Reserved(t) = 2 + w + 2 * p
      /\ t.local # NoFrame => w >= 2
  <2>1. w \in Nat /\ (t.local # NoFrame => w >= 2)
    BY DEF FrameWords
  <2>2. Reserved(t) = 2 + w + 2 * p
    BY DEF Reserved
  <2> QED
    BY <2>1, <2>2
<1>2. \A i \in 1 .. m + Reserved(t) : s2[i] = s[i]
  OBVIOUS
<1>3. Len(s2) = m + Reserved(t) + k2
  OBVIOUS
<1>4. /\ \A i \in 1 .. m : s[i] = c.found[i]
      /\ IF t.local = NoFrame THEN b = c.bp ELSE b = m + 4 /\ s[b].value = c.bp
      /\ \A j \in 1 .. p : Saved(s, m + 2 + w + 2 * j, t.pushes[j], q)
  BY DEF Framed, Grown
<1> HIDE DEF m, w, p
<1>5. Grown(s2, c.found, Reserved(t) + k2)
  <2>1. \A i \in 1 .. m : i \in 1 .. m + Reserved(t)
    BY <1>1
  <2>2. \A i \in 1 .. m : s2[i] = c.found[i]
    BY <1>2, <1>4, <2>1
  <2>3. Len(s2) = m + (Reserved(t) + k2)
    <3>1. Reserved(t) \in Nat /\ k2 \in Nat /\ m \in Nat
      BY <1>1
    <3>2. m + Reserved(t) + k2 = m + (Reserved(t) + k2)
      BY <3>1
    <3> QED
      BY <1>3, <3>2, Zenon
  <2> QED
    BY <2>2, <2>3 DEF Grown, m
<1>6. IF t.local = NoFrame THEN b = c.bp ELSE b = m + 4 /\ s2[b].value = c.bp
  <2>1. t.local # NoFrame => m + 4 \in 1 .. m + Reserved(t)
    BY <1>1
  <2> QED
    BY <1>2, <1>4, <2>1
<1>7. ASSUME NEW j \in 1 .. p
      PROVE  Saved(s2, m + 2 + w + 2 * j, t.pushes[j], q)
  <2>1. /\ m + 2 + w + 2 * j \in 1 .. m + Reserved(t)
        /\ (m + 2 + w + 2 * j) - 1 \in 1 .. m + Reserved(t)
    BY <1>1
  <2>2. /\ s2[m + 2 + w + 2 * j] = s[m + 2 + w + 2 * j]
        /\ s2[(m + 2 + w + 2 * j) - 1] = s[(m + 2 + w + 2 * j) - 1]
    BY <1>2, <2>1
  <2>3. Saved(s, m + 2 + w + 2 * j, t.pushes[j], q)
    BY <1>4
  <2> QED
    BY <2>2, <2>3 DEF Saved
<1> QED
  BY <1>5, <1>6, <1>7 DEF Framed, m, w, p

\* The words that a thunk reads on its stack.
LEMMA AtTyped ==
  ASSUME IInv, pc \in {"loading", "storing"}, NEW off, Reads(thunk, asked, off)
  PROVE  /\ At(off) \in WordSet
         /\ (off \div 2) - Shift(thunk) \in 2 .. ArgCount(asked) + 1 =>
              At(off) = Word("arg", Depth, (off \div 2) - Shift(thunk))
<1> DEFINE c == Current
           m == Len(c.found)
           t == thunk
           p == Len(t.pushes)
           a == ArgCount(asked)
           d == off \div 2
           i == Base - d
<1>1. pc \in Thunk32Steps
  BY DEF Thunk32Steps
<1>2. FrameAt(c, Depth, Here, regs)
  BY <1>1, AtThunk DEF ThunkAt
<1>3. /\ Sound(t, asked) /\ t = Description[c.entry] /\ asked = Interface!Declared[c.called]
      /\ m \in Nat /\ stack \in Seq(WordSet)
  BY <1>1, ThunkTyped DEF IInv, TypeOK
<1>4. /\ t.local \in Nat \cup {NoFrame} /\ p \in Nat /\ a \in Nat
  <2>1. t.local \in Nat \cup {NoFrame} /\ p \in Nat
    BY <1>3 DEF Sound, Balanced, Readable
  <2>2. Len(asked.args) \in Nat
    BY <1>3 DEF Sound, Readable
  <2> QED
    BY <2>1, <2>2 DEF ArgCount
<1> HIDE DEF c, m, t, p
<1>5. /\ Framed(c, t, stack, bp, 0, RegsAtCall(asked, Depth)) /\ a <= m
      /\ \A j \in m - a + 1 .. m : c.found[j] = Word("arg", Depth, m + 2 - j)
  BY <1>2, <1>3 DEF FrameAt, Here, Stands, m
<1>6. /\ Len(stack) = m + (Reserved(t) + 0) /\ \A j \in 1 .. m : stack[j] = c.found[j]
      /\ t.local # NoFrame => bp = m + 4
  BY <1>5 DEF Framed, Grown, m
<1>7. d \in Nat /\ d <= Shift(t) + a + 1
  BY DEF Reads, t
<1> HIDE DEF a, d
<1>8. i = m + 2 + Shift(t) - d /\ Base <= Len(stack) /\ Base \in Int /\ Shift(t) \in Nat
  <2>1. CASE t.local = NoFrame
    <3>1. Base = Len(stack) /\ Shift(t) = 2 * p /\ Reserved(t) = 2 + 0 + 2 * p
      BY <2>1 DEF Base, Shift, Reserved, FrameWords, p, t
    <3> QED
      BY <1>3, <1>4, <1>6, <1>7, <3>1
  <2>2. CASE t.local # NoFrame
    <3>1. Base = bp /\ Shift(t) = 2 /\ Reserved(t) = 2 + (2 + t.local) + 2 * p
      BY <2>2 DEF Base, Shift, Reserved, FrameWords, p, t
    <3>2. t.local \in Nat /\ bp = m + 4 /\ Len(stack) = m + (2 + (2 + t.local) + 2 * p)
      BY <1>4, <1>6, <2>2, <3>1
    <3>3. Base = m + 4 /\ Base \in Int
      BY <1>3, <3>1, <3>2
    <3>4. m + 4 <= Len(stack)
      <4> DEFINE l == Len(stack)
                 x == t.local
      <4>1. m \in Nat /\ x \in Nat /\ p \in Nat /\ l = m + (2 + (2 + x) + 2 * p)
        BY <1>3, <1>4, <3>2
      <4> HIDE DEF l, x
      <4>2. m + 4 <= l
        BY <4>1
      <4> QED
        BY <4>2 DEF l
    <3>5. i = m + 2 + 2 - d
      BY <1>3, <1>7, <3>3
    <3> QED
      BY <3>1, <3>3, <3>4, <3>5
  <2> QED
    BY <2>1, <2>2
<1>9. At(off) = stack[i]
  BY DEF At, d
<1> HIDE DEF i
<1>10. i \in 1 .. Len(stack)
  BY <1>3, <1>4, <1>5, <1>7, <1>8 DEF i
<1>11. At(off) \in WordSet
  BY <1>3, <1>9, <1>10
<1>12. ASSUME d - Shift(t) \in 2 .. a + 1
       PROVE  At(off) = Word("arg", Depth, d - Shift(t))
  <2>1. i \in m - a + 1 .. m /\ i \in 1 .. m /\ m + 2 - i = d - Shift(t)
    <3>1. a <= m /\ m \in Nat /\ a \in Nat /\ d \in Nat /\ Shift(t) \in Nat
      BY <1>3, <1>4, <1>5, <1>7, <1>8
    <3>2. i = m + 2 - (d - Shift(t))
      BY <1>8, <3>1
    <3> QED
      BY <1>12, <3>1, <3>2
  <2>2. stack[i] = c.found[i]
    BY <1>6, <2>1
  <2>3. c.found[i] = Word("arg", Depth, m + 2 - i)
    BY <1>5, <2>1
  <2> QED
    BY <1>9, <2>1, <2>2, <2>3
<1> QED
  BY <1>11, <1>12 DEF a, d, t

\* An offset that reads a parameter finds this call's word.
LEMMA AtParm ==
  ASSUME IInv, pc \in {"loading", "storing"}, NEW off, Reads(thunk, asked, off),
         (off \div 2) - Shift(thunk) >= 2
  PROVE  At(off) = Parm(thunk, Depth, off)
<1>1. Shift(thunk) \in Int /\ ArgCount(asked) \in Int
  <2>1. Sound(thunk, asked)
    BY ThunkTyped DEF Thunk32Steps
  <2> QED
    BY <2>1 DEF Sound, Balanced, Readable, Shift, ArgCount
<1>2. (off \div 2) - Shift(thunk) \in 2 .. ArgCount(asked) + 1
  BY <1>1 DEF Reads
<1> QED
  BY <1>2, AtTyped DEF Parm

\* What a register is loaded with is a pair of words.
LEMMA LoadTyped ==
  ASSUME IInv, pc = "loading", NEW l, LoadReads(thunk, asked, l), l.reg \in Registers
  PROVE  Loaded(l) \in WordSet \X WordSet
<1>1. regs \in RegFile
  BY DEF IInv, TypeOK
<1>2. CASE l.from = "stack"
  <2>1. At(l.off) \in WordSet /\ At(l.off + 2) \in WordSet
    BY <1>2, AtTyped DEF LoadReads
  <2> QED
    BY <1>2, <2>1 DEF Loaded
<1>3. CASE l.from = "stack16"
  <2>1. At(l.off) \in WordSet
    BY <1>3, AtTyped DEF LoadReads
  <2>2. regs[l.reg] \in WordSet \X WordSet
    BY <1>1, <2>1 DEF RegFile
  <2> QED
    BY <1>3, <2>1, <2>2 DEF Loaded
<1>4. CASE l.from # "stack" /\ l.from # "stack16"
  <2>1. l.from \in Registers
    BY <1>4 DEF LoadReads
  <2>2. regs[l.from] \in WordSet \X WordSet
    BY <1>1, <2>1 DEF RegFile
  <2> QED
    BY <1>4, <2>2 DEF Loaded
<1> QED
  BY <1>2, <1>3, <1>4

\* What is put in a block is a word.
LEMMA BlockWordTyped ==
  ASSUME IInv, pc = "loading", NEW w, BlockReads(thunk, asked, w)
  PROVE  BlockWord(w) \in WordSet
<1>1. regs \in RegFile /\ Depth \in Nat
  BY DEF IInv, TypeOK, Depth
<1>2. CASE w.from = "arg"
  <2>1. At(w.off) \in WordSet
    BY <1>2, AtTyped DEF BlockReads
  <2> QED
    BY <1>2, <2>1 DEF BlockWord
<1>3. CASE w.from \in {"low", "high"}
  <2>1. w.reg \in Registers
    BY <1>3 DEF BlockReads
  <2>2. regs[w.reg] \in WordSet \X WordSet
    BY <1>1, <2>1 DEF RegFile
  <2> QED
    BY <1>3, <2>2 DEF BlockWord
<1>4. CASE w.from \in {"ss", "local", "size"}
  <2>1. w.off \in Int
    BY <1>4 DEF BlockReads, Locals
  <2>2. \A h \in {"ss", "local_at", "size"} : \A v \in {0, w.off} : Word(h, Depth, v) \in WordSet
    BY <1>1, <2>1, WordTyped DEF Holds
  <2> QED
    BY <1>4, <2>2 DEF BlockWord
<1> QED
  BY <1>2, <1>3, <1>4 DEF BlockReads

\* A register is loaded with what the thunk's description says of the parameters.
LEMMA LoadDelivered ==
  ASSUME IInv, pc = "loading", NEW l \in Range(thunk.loads), LoadsParms(thunk)
  PROVE  Loaded(l) = LoadPassed(thunk, Depth, l, regs)
<1>1. pc \in Thunk32Steps /\ pc \in {"loading", "storing"}
  BY DEF Thunk32Steps
<1>2. LoadReads(thunk, asked, l)
  BY <1>1, ThunkTyped DEF Sound, Readable
<1>3. CASE l.from = "stack"
  <2>1. /\ Reads(thunk, asked, l.off) /\ Reads(thunk, asked, l.off + 2)
        /\ (l.off \div 2) - Shift(thunk) >= 2
    BY <1>2, <1>3 DEF LoadReads, LoadsParms
  <2>2. l.off \in Nat /\ (l.off + 2) \div 2 = (l.off \div 2) + 1
    BY <2>1 DEF Reads
  <2>3. Shift(thunk) \in Int /\ ArgCount(asked) \in Int
    BY <1>1, ThunkTyped DEF Sound, Balanced, Readable, Shift, ArgCount
  <2>4. ((l.off + 2) \div 2) - Shift(thunk) >= 2
    BY <2>1, <2>2, <2>3
  <2>5. \A off : (Reads(thunk, asked, off) /\ (off \div 2) - Shift(thunk) >= 2) =>
                   At(off) = Parm(thunk, Depth, off)
    BY <1>1, AtParm
  <2> QED
    BY <1>3, <2>1, <2>4, <2>5 DEF Loaded, LoadPassed
<1>4. CASE l.from = "stack16"
  <2>1. Reads(thunk, asked, l.off) /\ (l.off \div 2) - Shift(thunk) >= 2
    BY <1>2, <1>4 DEF LoadReads, LoadsParms
  <2>2. At(l.off) = Parm(thunk, Depth, l.off)
    BY <1>1, <2>1, AtParm
  <2> QED
    BY <1>4, <2>2 DEF Loaded, LoadPassed
<1>5. CASE l.from # "stack" /\ l.from # "stack16"
  BY <1>5 DEF Loaded, LoadPassed
<1> QED
  BY <1>3, <1>4, <1>5

\* So is each word of a block.
LEMMA BlockDelivered ==
  ASSUME IInv, pc = "loading", NEW w, BlockReads(thunk, asked, w)
  PROVE  BlockWord(w) = BlockPassed(thunk, Depth, w, regs)
<1>1. w.from = "arg" => At(w.off) = Parm(thunk, Depth, w.off)
  BY AtParm DEF BlockReads
<1> QED
  BY <1>1 DEF BlockReads, BlockWord, BlockPassed

\* What the loading of the registers does to them.
LEMMA RegsLoaded ==
  ASSUME IInv, load_parameters
  PROVE  /\ regs' \in RegFile
         /\ \A r \in Registers : r \notin {l.reg : l \in Range(thunk.loads)} => regs'[r] = regs[r]
         /\ \A r \in Registers : r \in {l.reg : l \in Range(thunk.loads)} =>
              \E l \in Range(thunk.loads) : l.reg = r /\ regs'[r] = Loaded(l)
<1> DEFINE L == Range(thunk.loads)
<1>1. pc = "loading" /\ pc \in Thunk32Steps
  BY DEF load_parameters, Thunk32Steps
<1>2. \A l \in L : LoadReads(thunk, asked, l) /\ l.reg \in Registers
  BY <1>1, ThunkTyped DEF Sound, Readable
<1>3. \A l \in L : Loaded(l) \in WordSet \X WordSet
  BY <1>1, <1>2, LoadTyped
<1>4. regs \in RegFile
  BY DEF IInv, TypeOK
<1>5. regs' = [r \in Registers |->
                  IF \E l \in L : l.reg = r THEN Loaded(CHOOSE l \in L : l.reg = r) ELSE regs[r]]
  BY DEF load_parameters
<1> HIDE DEF L
<1>6. ASSUME NEW r \in Registers, \E l \in L : l.reg = r
      PROVE  \E l \in L : l.reg = r /\ regs'[r] = Loaded(l)
  <2> DEFINE l == CHOOSE x \in L : x.reg = r
  <2>1. l \in L /\ l.reg = r
    BY <1>6
  <2>2. regs'[r] = Loaded(l)
    BY <1>5, <1>6
  <2> QED
    BY <2>1, <2>2
<1>7. ASSUME NEW r \in Registers, ~\E l \in L : l.reg = r
      PROVE  regs'[r] = regs[r]
  BY <1>5, <1>7
<1>8. \A r \in Registers : regs'[r] \in WordSet \X WordSet
  BY <1>3, <1>4, <1>6, <1>7 DEF RegFile
<1>9. DOMAIN regs' = Registers /\ regs' = [r \in Registers |-> regs'[r]]
  BY <1>5
<1>10. regs' \in RegFile
  BY <1>8, <1>9 DEF RegFile
<1> QED
  BY <1>6, <1>7, <1>10 DEF L

\* A thunk loads the registers, or builds the block.
LEMMA load_parameters_Step ==
  ASSUME IInv, load_parameters
  PROVE  IInv'
<1> DEFINE c == Current
           m == Len(c.found)
           t == thunk
           k == Len(t.block)
           b == [j \in DOMAIN t.block |-> BlockWord(t.block[j])]
           given == RegsAtCall(asked, Depth)
<1>1. /\ pc = "loading" /\ pc \in Thunk32Steps /\ pc' \in {"in_kernel", "popping"}
      /\ pc' \in Thunk32Steps
      /\ pc' = "popping" => t.via = "none"
      /\ pc' = "in_kernel" => t.via # "none"
  BY DEF load_parameters, Thunk32Steps, Go
<1>2. FrameAt(c, Depth, Here, regs)
  BY <1>1, AtThunk DEF ThunkAt
<1>3. /\ Sound(t, asked) /\ t = Description[c.entry] /\ asked = Interface!Declared[c.called]
      /\ c.found \in Seq(WordSet) /\ m \in Nat /\ c.ds = FlatDS /\ c.es = FlatDS
      /\ c.bp \in Int /\ Depth \in Nat
  BY <1>1, ThunkTyped
<1>4. /\ t.local \in Nat \cup {NoFrame} /\ Len(t.pushes) \in Nat
      /\ k \in Nat /\ DOMAIN t.block = 1 .. k /\ t.ds \in Int /\ t.es \in Int
      /\ \A j \in 1 .. k : BlockReads(t, asked, t.block[j])
      /\ t.via = "none" => k = 0
      /\ \A l \in Range(t.loads) : l.reg \in CalleeSaved => l.reg \in Range(t.pushes)
  BY <1>3 DEF Sound, Balanced, Readable, Pushable
<1>5. stack \in Seq(WordSet) /\ bp \in Int
  BY DEF IInv, TypeOK
<1>6. /\ regs' \in RegFile
      /\ \A r \in CalleeSaved : r \in Range(t.pushes) \/ regs'[r] = regs[r]
  <2>1. CalleeSaved \subseteq Registers
    BY DEF CalleeSaved, Registers
  <2> HIDE DEF t
  <2>2. \A r \in Registers : r \notin {l.reg : l \in Range(t.loads)} => regs'[r] = regs[r]
    BY RegsLoaded DEF t
  <2> QED
    BY <1>4, <2>1, <2>2, RegsLoaded
<1>7. \A j \in 1 .. k : BlockWord(t.block[j]) \in WordSet
  BY <1>1, <1>4, BlockWordTyped
<1> HIDE DEF c, m, t, k
<1>8. b \in Seq(WordSet) /\ Len(b) = k
  BY <1>4, <1>7
<1>9. stack' = stack \o b /\ ds' = t.ds /\ es' = t.es /\ bp' = bp /\ calls' = calls
  BY DEF load_parameters, t
<1> HIDE DEF b, given
<1>10. /\ stack' \in Seq(WordSet) /\ Len(stack') = Len(stack) + Len(b)
       /\ \A i \in 1 .. Len(stack) : stack'[i] = stack[i]
  <2>1. b \in Seq(WordSet)
    BY <1>8
  <2> QED
    BY <1>5, <1>9, <2>1, Pushing
<1>11. /\ c.entry = c.called /\ ArgCount(asked) <= m
       /\ \A i \in m - ArgCount(asked) + 1 .. m : c.found[i] = Word("arg", Depth, m + 2 - i)
       /\ Framed(c, t, stack, bp, 0, given) /\ regs = given
  BY <1>1, <1>2, <1>3 DEF FrameAt, Here, Stands, m, given
<1>12. Len(stack) = m + Reserved(t) /\ Reserved(t) \in Nat
  <2>1. Reserved(t) \in Nat
    BY <1>4 DEF Reserved, FrameWords
  <2>2. Len(stack) = m + (Reserved(t) + 0)
    BY <1>11 DEF Framed, Grown, m
  <2> QED
    BY <1>3, <2>1, <2>2
<1>13. Framed(c, t, stack', bp, k, given)
  <2>1. Len(stack') = m + Reserved(t) + k
    BY <1>3, <1>4, <1>8, <1>10, <1>12
  <2>2. \A i \in 1 .. m + Reserved(t) : stack'[i] = stack[i]
    BY <1>10, <1>12
  <2>3. /\ Len(c.found) \in Nat /\ t.local \in Nat \cup {NoFrame} /\ Len(t.pushes) \in Nat
        /\ k \in Nat /\ 0 \in Nat /\ Framed(c, t, stack, bp, 0, given)
    BY <1>3, <1>4, <1>11 DEF m
  <2>4. /\ Len(stack') = Len(c.found) + Reserved(t) + k
        /\ \A i \in 1 .. Len(c.found) + Reserved(t) : stack'[i] = stack[i]
    BY <2>1, <2>2 DEF m
  <2> QED
    BY <2>3, <2>4, FramedKept
<1>14. Framed(c, t, stack', bp', IF pc' = "in_kernel" THEN k ELSE 0, given)
  BY <1>1, <1>4, <1>9, <1>13
<1>15. FrameAt(c, Depth, Here', regs')
  <2>1. es' = IF pc' # "in_kernel" /\ t.via = "far" THEN KernelES ELSE t.es
    BY <1>1, <1>9
  <2> QED
    BY <1>1, <1>3, <1>6, <1>9, <1>11, <1>14, <2>1
    DEF FrameAt, Here, Stands, m, k, given
<1>16. StateTyped(Here')
  BY <1>4, <1>5, <1>9, <1>10 DEF StateTyped, Here, Stands
<1>17. DeliveredAt(c, Depth, Here', regs')
  <2>1. ASSUME NEW j \in 1 .. k
        PROVE  stack'[m + Reserved(t) + j] = BlockPassed(t, Depth, t.block[j], given)
    <3>1. stack'[Len(stack) + j] = b[j] /\ b[j] = BlockWord(t.block[j])
      BY <1>4, <1>5, <1>8, <1>9, Pushing DEF b
    <3>2. BlockWord(t.block[j]) = BlockPassed(t, Depth, t.block[j], regs)
      BY <1>1, <1>4, BlockDelivered DEF t
    <3> QED
      BY <1>11, <1>12, <3>1, <3>2
  <2>2. ASSUME LoadsParms(t)
        PROVE  /\ \A l \in Range(t.loads) : regs'[l.reg] = LoadPassed(t, Depth, l, given)
               /\ \A r \in Registers : (\A l \in Range(t.loads) : l.reg # r) => regs'[r] = given[r]
    <3>1. \A l \in Range(t.loads) : Loaded(l) = LoadPassed(t, Depth, l, given)
      BY <1>1, <1>11, <2>2, LoadDelivered DEF t
    <3>2. ASSUME NEW l \in Range(t.loads)
          PROVE  regs'[l.reg] = Loaded(l)
      <4>1. l.reg \in Registers /\ \A l2 \in Range(t.loads) : l2.reg = l.reg => l2 = l
        BY <1>3 DEF Sound, Readable
      <4>2. l.reg \in {x.reg : x \in Range(t.loads)}
        OBVIOUS
      <4> QED
        BY <4>1, <4>2, RegsLoaded DEF t
    <3>3. ASSUME NEW r \in Registers, \A l \in Range(t.loads) : l.reg # r
          PROVE  regs'[r] = given[r]
      <4>1. r \notin {x.reg : x \in Range(t.loads)}
        BY <3>3
      <4> QED
        BY <1>11, <4>1, RegsLoaded DEF t
    <3> QED
      BY <3>1, <3>2, <3>3
  <2> QED
    BY <1>1, <1>3, <2>1, <2>2 DEF DeliveredAt, Here, Stands, m, k, given
<1>18. ToldAt(c, Depth, Here', regs')
  <2>1. ToldAt(c, Depth, Here, regs) /\ Here.place = "loading" /\ Here'.place = pc'
    BY <1>1, AtThunk DEF ThunkAt, Here, Stands, c
  <2>2. pc' = "popping" => Description[c.entry].via = "none"
    BY <1>1, ThunkTyped DEF load_parameters, Go, t, c
  <2> QED
    BY <1>1, <2>1, <2>2, ToldStays
<1> QED
  BY <1>1, <1>6, <1>9, <1>15, <1>16, <1>17, <1>18, ThunkStays DEF c, ThunkAt

\* The last words of a sequence.
LEMMA LastWords ==
  ASSUME NEW s \in Seq(WordSet), NEW k \in 0 .. Len(s)
  PROVE  /\ SubSeq(s, Len(s) - k + 1, Len(s)) \in Seq(WordSet)
         /\ Len(SubSeq(s, Len(s) - k + 1, Len(s))) = k
         /\ \A i \in 1 .. k : SubSeq(s, Len(s) - k + 1, Len(s))[i] = s[Len(s) - k + i]
<1> DEFINE n == Len(s)
           u == SubSeq(s, n - k + 1, n)
<1>1. n \in Nat /\ n - k + 1 \in 1 .. n + 1 /\ n - (n - k + 1) + 1 = k
  OBVIOUS
<1>2. \A i \in 1 .. k : n - k + 1 + i - 1 = n - k + i /\ n - k + i \in 1 .. n
  BY <1>1
<1>3. u = [i \in 1 .. k |-> s[n - k + i]]
  <2>1. u = [i \in 1 .. (n - (n - k + 1) + 1) |-> s[(i + (n - k + 1)) - 1]]
    OBVIOUS
  <2>2. \A i \in 1 .. k : (i + (n - k + 1)) - 1 = n - k + i
    BY <1>1
  <2> QED
    BY <1>1, <2>1, <2>2
<1>4. \A i \in 1 .. k : s[n - k + i] \in WordSet
  BY <1>2
<1> HIDE DEF n, u
<1> QED
  BY <1>3, <1>4 DEF u, n

\* No register holds the address of a local variable at the call.
LEMMA GivenHolds ==
  ASSUME NEW p, NEW n, NEW r \in Registers
  PROVE  RegsAtCall(p, n)[r][1].holds # "local_at" /\ RegsAtCall(p, n)[r][2].holds # "local_at"
BY DEF RegsAtCall, Words, Word, Registers

\* The block that the kernel finds, and the places in it for answers.
LEMMA BlockPlaced ==
  ASSUME IInv, pc = "in_kernel"
  PROVE  /\ Len(PassedBlock) = Len(thunk.block) /\ DOMAIN PassedBlock = 1 .. Len(thunk.block)
         /\ \A i \in 1 .. Len(thunk.block) : PassedBlock[i] =
              BlockPassed(thunk, Depth, thunk.block[i], RegsAtCall(asked, Depth))
         /\ OutPlaces = Outs(thunk)
         /\ \A i \in Outs(thunk) : PassedBlock[i].value = thunk.block[i].off
<1> DEFINE c == Current
           m == Len(c.found)
           t == thunk
           k == Len(t.block)
           given == RegsAtCall(asked, Depth)
<1>1. pc \in Thunk32Steps
  BY DEF Thunk32Steps
<1>2. /\ Sound(t, asked) /\ t = Description[c.entry] /\ asked = Interface!Declared[c.called]
      /\ m \in Nat /\ stack \in Seq(WordSet)
  BY <1>1, ThunkTyped DEF IInv, TypeOK
<1>3. /\ k \in Nat /\ DOMAIN t.block = 1 .. k
      /\ \A j \in 1 .. k : BlockReads(t, asked, t.block[j])
      /\ t.local \in Nat \cup {NoFrame} /\ Len(t.pushes) \in Nat
  BY <1>2 DEF Sound, Balanced, Readable, Pushable
<1>4. FrameAt(c, Depth, Here, regs) /\ DeliveredAt(c, Depth, Here, regs)
  BY <1>1, AtThunk DEF ThunkAt
<1> HIDE DEF c, m, t, k
<1>5. /\ Len(stack) = m + (Reserved(t) + k)
      /\ \A j \in 1 .. k : stack[m + Reserved(t) + j] = BlockPassed(t, Depth, t.block[j], given)
  BY <1>2, <1>4 DEF FrameAt, DeliveredAt, Framed, Grown, Here, Stands, m, k
<1> HIDE DEF given
<1>6. Reserved(t) \in Nat
  BY <1>3 DEF Reserved, FrameWords
<1>7. k \in 0 .. Len(stack) /\ Len(stack) - k = m + Reserved(t)
  BY <1>2, <1>3, <1>5, <1>6
<1>8. /\ PassedBlock \in Seq(WordSet) /\ Len(PassedBlock) = k
      /\ \A i \in 1 .. k : PassedBlock[i] = stack[Len(stack) - k + i]
  BY <1>2, <1>7, LastWords DEF PassedBlock, k, t
<1>9. \A i \in 1 .. k : PassedBlock[i] = BlockPassed(t, Depth, t.block[i], given)
  BY <1>5, <1>7, <1>8
<1>10. DOMAIN PassedBlock = 1 .. k
  BY <1>3, <1>8
<1>11. ASSUME NEW i \in 1 .. k
       PROVE  /\ PassedBlock[i].holds = "local_at" <=> t.block[i].from = "local"
              /\ t.block[i].from = "local" => PassedBlock[i].value = t.block[i].off
  <2> DEFINE w == t.block[i]
  <2>1. BlockReads(t, asked, w) /\ PassedBlock[i] = BlockPassed(t, Depth, w, given)
    BY <1>3, <1>9
  <2> HIDE DEF w
  <2>2. w.from \in {"low", "high"} => w.reg \in Registers
    BY <2>1 DEF BlockReads
  <2>3. w.from \in {"low", "high"} => BlockPassed(t, Depth, w, given).holds # "local_at"
    BY <2>2, GivenHolds DEF BlockPassed, given
  <2>4. w.from \in {"arg", "ss", "size"} => BlockPassed(t, Depth, w, given).holds # "local_at"
    BY DEF BlockPassed, Parm, Word
  <2>5. w.from = "local" => /\ BlockPassed(t, Depth, w, given).holds = "local_at"
                            /\ BlockPassed(t, Depth, w, given).value = w.off
    BY DEF BlockPassed, Word
  <2>6. w.from \in {"arg", "low", "high", "ss", "local", "size"}
    BY <2>1 DEF BlockReads
  <2> QED
    BY <2>1, <2>3, <2>4, <2>5, <2>6 DEF w
<1>12. OutPlaces = Outs(t)
  BY <1>3, <1>10, <1>11 DEF OutPlaces, Outs
<1>13. \A i \in Outs(t) : PassedBlock[i].value = t.block[i].off
  BY <1>3, <1>11 DEF Outs
<1> QED
  BY <1>8, <1>9, <1>10, <1>12, <1>13 DEF k, t, given

\* A number among the members of a finite set.
LEMMA RankTyped ==
  ASSUME NEW k \in Nat, NEW S, S \subseteq 1 .. k, NEW i
  PROVE  Rank(S, i) \in Nat
<1>1. IsFiniteSet(1 .. k)
  BY FS_Interval
<1>2. {j \in S : j <= i} \subseteq 1 .. k
  OBVIOUS
<1>3. IsFiniteSet({j \in S : j <= i})
  BY <1>1, <1>2, FS_Subset
<1> QED
  BY <1>3, FS_CardinalityType DEF Rank

\* The answers of the kernel, as kernel_answers records them.
Answered(ok) ==
  IF ~ok THEN <<>>
  ELSE IF thunk.via = "far"
  THEN [l \in {PassedBlock[i].value : i \in OutPlaces} |->
          Rank(OutPlaces, CHOOSE i \in OutPlaces : PassedBlock[i].value = l)]
  ELSE [l \in {s[2] : s \in Range(thunk.stores[Current.stage])} |-> Current.stage]

\* What the kernel answers is what the conversion stores.
LEMMA AnswersTyped ==
  ASSUME IInv, pc = "in_kernel", NEW ok \in BOOLEAN
  PROVE  /\ Answered(ok) \in Answers
         /\ ok => \A s \in Range(thunk.stores[Current.stage]) :
              /\ s[2] \in DOMAIN Answered(ok)
              /\ AnswerIs(thunk, Current.stage, s[2], Answered(ok)[s[2]])
<1> DEFINE t == thunk
           n == Current.stage
           k == Len(t.block)
<1>1. pc \in Thunk32Steps
  BY DEF Thunk32Steps
<1>2. Sound(t, asked) /\ Tells(t, asked) /\ t = Description[Current.entry]
  BY <1>1, ThunkTyped
<1>3. n \in 1 .. Len(t.stores) /\ n \in Nat
  BY <1>1, <1>2, AtThunk DEF ThunkAt, ToldAt, Sound, Readable
<1> HIDE DEF t, n
<1>4. /\ k \in Nat /\ DOMAIN t.block = 1 .. k
      /\ \A j \in 1 .. k : BlockReads(t, asked, t.block[j])
      /\ \A s \in Range(t.stores[n]) : s[2] \in Locals
      /\ t.via = "far" => \A s \in Range(t.stores[n]) : \E i \in Outs(t) : t.block[i].off = s[2]
  BY <1>2, <1>3 DEF Sound, Readable, Pushable, Tells
<1>5. CASE ~ok
  BY <1>5, NoAnswers DEF Answered
<1>6. CASE ok /\ t.via # "far"
  <2> DEFINE S == {s[2] : s \in Range(t.stores[n])}
  <2>1. Answered(ok) = [l \in S |-> n]
    BY <1>6 DEF Answered, t, n
  <2>2. S \subseteq Locals
    BY <1>4
  <2>3. \A s \in Range(t.stores[n]) : s[2] \in S
    OBVIOUS
  <2> HIDE DEF S
  <2>4. Answered(ok) \in [S -> Nat] /\ \A l \in S : Answered(ok)[l] = n
    BY <1>3, <2>1
  <2>5. Answered(ok) \in Answers
    BY <2>2, <2>4 DEF Answers
  <2> QED
    BY <1>6, <2>1, <2>3, <2>4, <2>5 DEF AnswerIs, t, n
<1>7. CASE ok /\ t.via = "far"
  <2> DEFINE S == {t.block[i].off : i \in Outs(t)}
             At_(l) == CHOOSE i \in Outs(t) : PassedBlock[i].value = l
  <2>1. /\ OutPlaces = Outs(t)
        /\ \A i \in Outs(t) : PassedBlock[i].value = t.block[i].off
    BY BlockPlaced DEF t
  <2>2. {PassedBlock[i].value : i \in OutPlaces} = S
    BY <2>1
  <2>3. Answered(ok) = [l \in S |-> Rank(Outs(t), At_(l))]
    BY <1>7, <2>1, <2>2 DEF Answered, t
  <2>4. ASSUME NEW l \in S
        PROVE  At_(l) \in Outs(t) /\ t.block[At_(l)].off = l
    <3>1. \E i \in Outs(t) : PassedBlock[i].value = l
      BY <2>1
    <3>2. At_(l) \in Outs(t) /\ PassedBlock[At_(l)].value = l
      BY <3>1
    <3> QED
      BY <2>1, <3>2
  <2>5. S \subseteq Locals
    BY <1>4 DEF BlockReads, Outs
  <2>6. \A s \in Range(t.stores[n]) : s[2] \in S
    BY <1>4, <1>7
  <2>7. Outs(t) \subseteq 1 .. k
    BY <1>4 DEF Outs
  <2>8. \A l \in S : Rank(Outs(t), At_(l)) \in Nat
    BY <1>4, <2>7, RankTyped
  <2> HIDE DEF S, At_
  <2>9. /\ Answered(ok) \in [S -> Nat] /\ DOMAIN Answered(ok) = S
        /\ \A l \in S : Answered(ok)[l] = Rank(Outs(t), At_(l))
    BY <2>3, <2>8
  <2>10. Answered(ok) \in Answers
    BY <2>5, <2>9 DEF Answers
  <2>11. \A l \in S : AnswerIs(t, n, l, Answered(ok)[l])
    BY <1>7, <2>4, <2>9 DEF AnswerIs
  <2> QED
    BY <2>6, <2>9, <2>10, <2>11 DEF t, n
<1> QED
  BY <1>5, <1>6, <1>7

\* The kernel answers, or refuses to.
LEMMA kernel_answers_Step ==
  ASSUME IInv, kernel_answers
  PROVE  IInv'
<1> DEFINE c == Current
           m == Len(c.found)
           t == thunk
           k == Len(t.block)
           given == RegsAtCall(asked, Depth)
<1>1. pc = "in_kernel" /\ pc \in Thunk32Steps /\ pc' = "storing" /\ pc' \in Thunk32Steps
  BY DEF kernel_answers, Thunk32Steps, Go
<1>2. FrameAt(c, Depth, Here, regs) /\ ToldAt(c, Depth, Here, regs) /\ c \in ThunkCall
  BY <1>1, AtThunk DEF ThunkAt
<1>3. /\ Sound(t, asked) /\ t = Description[c.entry] /\ asked = Interface!Declared[c.called]
      /\ c.found \in Seq(WordSet) /\ m \in Nat /\ c.ds = FlatDS /\ c.es = FlatDS
      /\ c.bp \in Int /\ Depth \in Nat
  BY <1>1, ThunkTyped
<1>4. /\ t.local \in Nat \cup {NoFrame} /\ Len(t.pushes) \in Nat
      /\ k \in Nat /\ t.ds \in Int /\ t.es \in Int
      /\ t.via = "far" => "ebx" \in Range(t.pushes)
  BY <1>3 DEF Sound, Balanced, Readable, Pushable
<1>5. stack \in Seq(WordSet) /\ bp \in Int /\ regs \in RegFile
  BY DEF IInv, TypeOK
<1>6. PICK ok \in {TRUE, t.result = "none"}, dirty \in {FALSE, t.code = "ax"}, left \in Leaves :
        /\ Note([c EXCEPT !.ok = ok, !.answers = Answered(ok)])
        /\ regs' = [r \in Registers |->
                CASE r = "eax" -> <<Word(IF ok THEN left ELSE "code", Depth, IF ok THEN 0 ELSE 1),
                                    Word(IF dirty THEN "junk" ELSE "code", Depth, 0)>>
                  [] r \in {"ecx", "edx"} \/ (r = "ebx" /\ t.via = "far") ->
                       Words("junk", Depth, 0)
                  [] OTHER -> regs[r]]
  BY DEF kernel_answers, Answered
<1>7. /\ ok \in BOOLEAN /\ dirty \in BOOLEAN /\ left \in {"answer", "code"}
      /\ t.via = "far" \/ t.result = "byte" => left = "code"
  <2>1. Tells(t, asked)
    BY <1>1, ThunkTyped
  <2>2. t.via = "far" => t.result \in {"ax", "none", "raw"}
    BY <2>1 DEF Tells, Codes
  <2> QED
    BY <2>2 DEF Leaves
<1> DEFINE c2 == [c EXCEPT !.ok = ok, !.answers = Answered(ok)]
<1>8. /\ Answered(ok) \in Answers
      /\ ok => \A s \in Range(t.stores[c.stage]) :
           s[2] \in DOMAIN Answered(ok) /\ AnswerIs(t, c.stage, s[2], Answered(ok)[s[2]])
  BY <1>1, <1>7, AnswersTyped
<1>9. /\ stack' = SubSeq(stack, 1, Len(stack) - k) /\ ds' = ds /\ bp' = bp
      /\ es' = IF t.via = "far" THEN KernelES ELSE es
      /\ calls' = [calls EXCEPT ![Depth] = c2]
  BY <1>6 DEF kernel_answers, Popped, Note
<1> HIDE DEF c, m, t, k
<1>10. /\ c2 \in ThunkCall /\ c2.entry = c.entry /\ c2.called = c.called /\ c2.found = c.found
      /\ c2.ds = c.ds /\ c2.es = c.es /\ c2.bp = c.bp /\ c2.resume = c.resume
      /\ c2.outer = c.outer /\ c2.null = c.null /\ c2.stage = c.stage /\ c2.written = c.written
      /\ c2.ok = ok /\ c2.answers = Answered(ok)
  BY <1>2, <1>8, <1>7 DEF ThunkCall
<1> HIDE DEF c2
<1>11. /\ c.entry = c.called /\ ArgCount(asked) <= m
       /\ \A i \in m - ArgCount(asked) + 1 .. m : c.found[i] = Word("arg", Depth, m + 2 - i)
       /\ Framed(c, t, stack, bp, k, given) /\ ds = t.ds /\ es = t.es
       /\ \A r \in CalleeSaved : r \in Range(t.pushes) \/ regs[r] = given[r]
  BY <1>1, <1>2, <1>3 DEF FrameAt, Here, Stands, m, k
<1> HIDE DEF given
<1>12. Len(stack) - k = m + Reserved(t) /\ Len(stack) - k \in 0 .. Len(stack)
  <2>1. Reserved(t) \in Nat
    BY <1>4 DEF Reserved, FrameWords
  <2>2. Len(stack) = m + (Reserved(t) + k)
    BY <1>11 DEF Framed, Grown, m
  <2>3. m \in Nat /\ k \in Nat
    BY <1>3, <1>4
  <2> QED
    BY <2>1, <2>2, <2>3
<1>13. /\ stack' \in Seq(WordSet) /\ Len(stack') = Len(stack) - k
       /\ \A i \in 1 .. Len(stack) - k : stack'[i] = stack[i]
  BY <1>5, <1>9, <1>12, Popping
<1>14. Framed(c, t, stack', bp, 0, given)
  <2>1. Len(stack') = m + Reserved(t) + 0
    BY <1>3, <1>12, <1>13
  <2>2. \A i \in 1 .. m + Reserved(t) : stack'[i] = stack[i]
    BY <1>12, <1>13
  <2> QED
    BY <1>3, <1>4, <1>11, <2>1, <2>2, FramedKept DEF m
<1>15. /\ regs' \in RegFile
       /\ regs'["eax"][1] = Word(IF ok THEN left ELSE "code", Depth, IF ok THEN 0 ELSE 1)
       /\ \A r \in CalleeSaved : r \in Range(t.pushes) \/ regs'[r] = given[r]
  <2>0. {"answer", "code", "junk"} \subseteq Holds /\ {0, 1} \subseteq Int
    BY DEF Holds
  <2>1. \A h \in {"answer", "code", "junk"} : \A v \in {0, 1} : Word(h, Depth, v) \in WordSet
    <3>1. ASSUME NEW h \in Holds, NEW v \in Int PROVE Word(h, Depth, v) \in WordSet
      BY <1>3, WordTyped
    <3> QED
      BY <2>0, <3>1
  <2>2. /\ \A r \in Registers : regs[r] \in WordSet \X WordSet
        /\ Words("junk", Depth, 0) \in WordSet \X WordSet
    BY <1>5, <2>1 DEF RegFile, Words
  <2>3. regs' \in RegFile
    BY <1>6, <1>7, <2>1, <2>2 DEF RegFile
  <2>4. \A r \in CalleeSaved : regs'[r] = regs[r] \/ (r = "ebx" /\ t.via = "far")
    BY <1>6 DEF CalleeSaved, Registers
  <2>5. \A r \in CalleeSaved : r \in Range(t.pushes) \/ regs'[r] = given[r]
    BY <1>4, <1>11, <2>4
  <2>6. "eax" \in Registers
    BY DEF Registers
  <2> QED
    BY <1>6, <2>3, <2>5, <2>6
<1>16. FrameAt(c2, Depth, Here', regs')
  <2>1. /\ Framed(c2, t, stack', bp, 0, given)
        /\ es' = IF t.via = "far" THEN KernelES ELSE t.es
    BY <1>9, <1>10, <1>11, <1>14 DEF Framed
  <2> QED
    BY <1>1, <1>3, <1>9, <1>10, <1>11, <1>15, <2>1 DEF FrameAt, Here, Stands, m, given
<1>17. DeliveredAt(c2, Depth, Here', regs')
  BY <1>1 DEF DeliveredAt, Here, Stands
<1>18. ToldAt(c2, Depth, Here', regs')
  <2>1. /\ c.null => t.null # "fault"
        /\ c.stage \in 1 .. Len(t.stores) /\ c.written = Earlier(asked, Depth, c.stage)
    BY <1>1, <1>2, <1>3 DEF ToldAt, Here, Stands
  <2>2. t.via # "none"
    BY <1>1, <1>3, AtThunk DEF ThunkAt, DeliveredAt, Here, Stands, c
  <2>3. LeftByKernel(regs'["eax"][1], t, Depth, ok)
    BY <1>7, <1>15 DEF LeftByKernel
  <2> QED
    BY <1>1, <1>3, <1>8, <1>10, <2>1, <2>2, <2>3 DEF ToldAt, Here, Stands
<1>19. StateTyped(Here')
  BY <1>4, <1>5, <1>9, <1>11, <1>13 DEF StateTyped, Here, Stands, KernelES
<1>20. Before(c2) = Before(c)
  BY <1>2, <1>10 DEF Before, Passed, IsThunk, ThunkCall
<1> QED
  BY <1>1, <1>9, <1>10, <1>15, <1>16, <1>17, <1>18, <1>19, <1>20, ThunkGoesOn DEF c, ThunkAt

\* What the k-th conversion adds to the answers that the caller has.
AllAre(t, k, f) == \A s \in Range(t.stores[k]) : AnswerIs(t, k, s[2], f[s[2]])
Stored(t, n, k, f) == {<<Parm(t, n, s[1]), f[s[2]]>> : s \in Range(t.stores[k])}
After(t, p, n, k, f) == Earlier(p, n, k) \cup Stored(t, n, k, f)
Due(t, p, n, k) == IF k < Len(t.stores) THEN Earlier(p, n, k + 1) ELSE Complete(p, n)

\* A conversion adds to the caller's answers those that belong to it.
LEMMA Converted ==
  ASSUME NEW t, NEW p, Tells(t, p), t.via # "none", NEW k \in 1 .. Len(t.stores),
         Len(t.stores) \in Nat, NEW n, NEW f,
         AllAre(t, k, f)
  PROVE  After(t, p, n, k, f) = Due(t, p, n, k)
<1> DEFINE o == Outputs(p)
           S == Range(t.stores[k])
           e(j) == <<Word("arg", n, 2 * j), Rank(o, j)>>
           d(s) == <<Parm(t, n, s[1]), f[s[2]]>>
<1>1. Stores(t, p, k) /\ k \in Nat
  BY DEF Tells
<1>2. \A j \in o : Rank(o, j) \in Nat
  BY DEF Tells
<1>3. \A s \in S : \A j \in o : Matches(t, p, k, s, j) => d(s) = e(j)
  BY DEF Matches, Parm, AllAre
<1>4. Complete(p, n) = {e(j) : j \in o}
  BY DEF Complete
<1>5. \A i : Earlier(p, n, i) = {e(j) : j \in {x \in o : Rank(o, x) < i}}
  BY <1>4 DEF Earlier
<1>6. /\ \A s \in S : \E j \in o :
           Matches(t, p, k, s, j) /\ (k < Len(t.stores) => Rank(o, j) < k + 1)
      /\ \A j \in o :
           \/ Rank(o, j) < k
           \/ k < Len(t.stores) /\ Rank(o, j) >= k + 1
           \/ \E s \in S : Matches(t, p, k, s, j)
  BY <1>1 DEF Stores
<1> HIDE DEF o, S, d, e
<1>7. CASE k < Len(t.stores)
  <2>1. \A j \in o : /\ Rank(o, j) < k => Rank(o, j) < k + 1
                     /\ ~(Rank(o, j) < k + 1 /\ Rank(o, j) >= k + 1)
    BY <1>1, <1>2
  <2>2. {e(j) : j \in {x \in o : Rank(o, x) < k}} \cup {d(s) : s \in S}
          = {e(j) : j \in {x \in o : Rank(o, x) < k + 1}}
    <3>1. ASSUME NEW s \in S
          PROVE  \E j \in o : Rank(o, j) < k + 1 /\ d(s) = e(j)
      BY <1>3, <1>6, <1>7
    <3>2. ASSUME NEW j \in o, Rank(o, j) < k + 1
          PROVE  Rank(o, j) < k \/ \E s \in S : d(s) = e(j)
      BY <1>3, <1>6, <2>1, <3>2
    <3> QED
      BY <2>1, <3>1, <3>2, Zenon
  <2> QED
    BY <1>5, <1>7, <2>2 DEF d, S, Stored, After, Due
<1>8. CASE ~(k < Len(t.stores))
  <2>1. {e(j) : j \in {x \in o : Rank(o, x) < k}} \cup {d(s) : s \in S} = {e(j) : j \in o}
    <3>1. \A s \in S : \E j \in o : d(s) = e(j)
      BY <1>3, <1>6
    <3>2. \A j \in o : Rank(o, j) < k \/ \E s \in S : d(s) = e(j)
      BY <1>3, <1>6, <1>8
    <3> QED
      BY <3>1, <3>2, Zenon
  <2> QED
    BY <1>4, <1>5, <1>8, <2>1 DEF d, S, Stored, After, Due
<1> QED
  BY <1>7, <1>8

\* The code that is left in EAX.
LEMMA CodeTold ==
  ASSUME IInv, pc = "storing", NEW failed, failed = ~Current.ok, NEW q,
         q["eax"] = Code(failed)
  PROVE  /\ Code(failed) \in WordSet \X WordSet
         /\ Honest(Current, thunk, q)
<1> DEFINE n == Depth
           w == regs["eax"][1]
<1>1. pc \in Thunk32Steps
  BY DEF Thunk32Steps
<1>2. /\ Tells(thunk, asked) /\ thunk = Description[Current.entry] /\ n \in Nat
      /\ Current \in ThunkCall
  BY <1>1, ThunkTyped, AtThunk
<1>3. ToldAt(Current, n, Here, regs)
  BY <1>1, AtThunk DEF ThunkAt
<1>4. /\ LeftByKernel(w, thunk, n, Current.ok)
      /\ Current.null => thunk.null # "fault"
  BY <1>2, <1>3 DEF ToldAt, Here, Stands
<1>5. regs["eax"] \in WordSet \X WordSet
  BY DEF IInv, TypeOK, RegFile, Registers
<1>6. /\ Zero[2] \in WordSet /\ Zero \in WordSet \X WordSet /\ Word("code", n, 1) \in WordSet
  <2>1. "code" \in Holds /\ "zero" \in Holds /\ n \in Nat
    BY <1>2 DEF Holds
  <2>2. Word("code", n, 1) \in WordSet
    BY <2>1, WordTyped
  <2>3. Word("zero", 0, 0) \in WordSet
    BY <2>1, WordTyped
  <2> QED
    BY <2>2, <2>3 DEF Zero
<1>7. Code(failed) \in WordSet \X WordSet
  BY <1>5, <1>6 DEF Code
<1>8. IsZero(Zero[1]) /\ IsZero(Zero[2]) /\ ~IsZero(Word("code", n, 1))
  BY DEF IsZero, Zero, Word
<1>9. /\ ~Current.ok => ~IsZero(w)
      /\ (Current.ok /\ thunk.result = "byte") => IsZero(w)
  BY <1>4 DEF LeftByKernel, IsZero, Word
<1>10. thunk.result # "carry" => thunk.null # "refused"
  BY <1>2 DEF Tells, Codes
<1> HIDE DEF n, w
<1>11. ASSUME thunk.result \in Coded
       PROVE  Said(q) <=> Current.ok /\ ~(Current.null /\ thunk.null = "refused")
  <2>1. CASE failed
    <3>1. Code(failed)[1] = w
      BY <1>11, <2>1 DEF Code, Coded, w
    <3> QED
      BY <1>9, <2>1, <3>1 DEF Said
  <2>2. CASE ~failed /\ thunk.result = "byte"
    <3>1. Code(failed) = <<w, Zero[2]>>
      BY <2>2 DEF Code, w
    <3> QED
      BY <1>8, <1>9, <1>10, <2>2, <3>1 DEF Said
  <2>3. CASE ~failed /\ thunk.result # "byte" /\ Current.null /\ thunk.null = "refused"
    <3>1. Code(failed) = <<Word("code", n, 1), Zero[2]>>
      BY <1>10, <1>11, <2>3 DEF Code, Coded, n
    <3> QED
      BY <1>8, <2>3, <3>1 DEF Said
  <2>4. CASE ~failed /\ thunk.result # "byte" /\ ~(Current.null /\ thunk.null = "refused")
    <3>1. Code(failed) = Zero
      BY <1>11, <2>4 DEF Code, Coded
    <3> QED
      BY <1>8, <2>4, <3>1 DEF Said
  <2> QED
    BY <2>1, <2>2, <2>3, <2>4
<1>12. ASSUME thunk.result = "zero"
       PROVE  Said(q)
  <2>1. Code(failed) = Zero
    BY <1>12 DEF Code
  <2> QED
    BY <1>8, <2>1 DEF Said
<1>13. ASSUME thunk.result = "raw", ~Current.ok
       PROVE  ~Said(q)
  <2>1. Code(failed)[1] = w
    BY <1>13 DEF Code, w
  <2> QED
    BY <1>9, <1>13, <2>1 DEF Said
<1> QED
  BY <1>7, <1>11, <1>12, <1>13 DEF Honest

\* A thunk stores the answers, and calls the kernel again if there is more to convert.
LEMMA store_answers_Step ==
  ASSUME IInv, store_answers
  PROVE  IInv'
<1> DEFINE c == Current
           m == Len(c.found)
           t == thunk
           given == RegsAtCall(asked, Depth)
           failed == ~c.ok
           more == c.ok /\ c.stage < Len(t.stores)
           stores == IF failed \/ c.null THEN {} ELSE Range(t.stores[c.stage])
           answer(l) == IF l \in DOMAIN c.answers THEN c.answers[l] ELSE 0
           new == {<<At(s[1]), answer(s[2])>> : s \in stores}
           next == IF more THEN c.stage + 1 ELSE c.stage
           written == c.written \cup new
           c2 == [c EXCEPT !.stage = next, !.written = written]
<1>1. pc = "storing" /\ pc \in Thunk32Steps
  BY DEF store_answers, Thunk32Steps
<1>2. /\ FrameAt(c, Depth, Here, regs) /\ ToldAt(c, Depth, Here, regs) /\ c \in ThunkCall
      /\ Depth \in Nat \ {0} /\ Depth = Len(calls)
  BY <1>1, AtThunk DEF ThunkAt
<1>3. /\ Sound(t, asked) /\ Tells(t, asked) /\ t = Description[c.entry]
      /\ asked = Interface!Declared[c.called] /\ c.called = c.entry
      /\ c.found \in Seq(WordSet) /\ m \in Nat /\ c.ds = FlatDS /\ c.es = FlatDS
      /\ c.bp \in Int /\ Depth \in Nat
  BY <1>1, ThunkTyped
<1>4. /\ t.ds \in Int /\ t.es \in Int /\ Len(t.stores) \in Nat \ {0}
      /\ Len(t.stores) > 1 => t.via = "ds" /\ t.null = "fault" /\ t.result = "carry"
      /\ Len(t.stores) > 1 => Len(t.block) = 0
      /\ "eax" \notin Range(t.pushes)
      /\ \A k \in 1 .. Len(t.stores) : \A s \in Range(t.stores[k]) : Reads(t, asked, s[1])
  BY <1>3 DEF Sound, Readable, Tells, Codes
<1>5. /\ stack \in Seq(WordSet) /\ bp \in Int /\ regs \in RegFile
  BY DEF IInv, TypeOK
<1>6. /\ c.null => t.null # "fault"
      /\ c.stage \in 1 .. Len(t.stores) /\ c.written = Earlier(asked, Depth, c.stage)
      /\ LeftByKernel(regs["eax"][1], t, Depth, c.ok) /\ t.via # "none"
      /\ c.ok => \A s \in Range(t.stores[c.stage]) :
           s[2] \in DOMAIN c.answers /\ AnswerIs(t, c.stage, s[2], c.answers[s[2]])
  BY <1>1, <1>2, <1>3 DEF ToldAt, Here, Stands
<1>7. (IF t.via = "far" THEN ~IsZero(regs["eax"][1]) ELSE ~c.ok) = failed
  <2>2. c.ok \in BOOLEAN
    BY <1>2 DEF ThunkCall
  <2>3. t.via = "far" => (IsZero(regs["eax"][1]) <=> c.ok)
    BY <1>6, <2>2 DEF LeftByKernel, IsZero, Word
  <2> QED
    BY <2>2, <2>3
<1>8. /\ regs' = [regs EXCEPT !["eax"] = Code(failed)]
      /\ pc' = IF more THEN "in_kernel" ELSE "popping"
      /\ calls' = [calls EXCEPT ![Depth] = c2]
      /\ stack' = stack /\ ds' = ds /\ es' = es /\ bp' = bp
  BY <1>7 DEF store_answers, Go, Note
<1>9. /\ Code(failed) \in WordSet \X WordSet
      /\ Honest(c, t, regs')
  <2>1. regs'["eax"] = Code(failed)
    BY <1>5, <1>8 DEF RegFile, Registers
  <2> QED
    BY <1>1, <2>1, CodeTold
<1>10. ASSUME NEW s \in stores
       PROVE  /\ At(s[1]) \in WordSet /\ answer(s[2]) \in Nat
  <2>1. s \in Range(t.stores[c.stage]) /\ Reads(t, asked, s[1])
    BY <1>4, <1>6
  <2>2. At(s[1]) \in WordSet
    BY <1>1, <2>1, AtTyped
  <2>3. PICK S \in SUBSET Locals : c.answers \in [S -> Nat]
    BY <1>2 DEF ThunkCall, Answers
  <2> QED
    BY <2>2, <2>3
<1>11. new \subseteq WordSet \X Nat
  BY <1>10
<1>12. c.ok \in BOOLEAN /\ c.null \in BOOLEAN /\ c.stage \in Nat
       /\ c.written \subseteq WordSet \X Nat
  BY <1>2 DEF ThunkCall
<1>13. more => c.ok /\ ~c.null /\ Len(t.stores) > 1
  BY <1>4, <1>6, <1>12
<1>14. c.written \cup new =
           IF failed \/ c.null THEN Earlier(asked, Depth, c.stage)
           ELSE IF c.stage < Len(t.stores) THEN Earlier(asked, Depth, c.stage + 1)
           ELSE Complete(asked, Depth)
  <2>1. CASE failed \/ c.null
    BY <1>6, <2>1
  <2>2. CASE ~(failed \/ c.null)
    <3>1. stores = Range(t.stores[c.stage]) /\ c.ok
      BY <2>2
    <3>2. ASSUME NEW s \in stores
          PROVE  At(s[1]) = Parm(t, Depth, s[1]) /\ answer(s[2]) = c.answers[s[2]]
      <4>1. Stores(t, asked, c.stage)
        BY <1>3, <1>6 DEF Tells
      <4>2. PICK j \in Outputs(asked) : Matches(t, asked, c.stage, s, j)
        BY <3>1, <4>1 DEF Stores
      <4>3. j \in Nat \ {0} /\ (s[1] \div 2) - Shift(t) = 2 * j
        BY <1>3, <4>2 DEF Tells, Matches
      <4>4. (s[1] \div 2) - Shift(t) >= 2
        BY <4>3
      <4>5. Reads(t, asked, s[1])
        BY <1>4, <1>6, <3>1
      <4>6. At(s[1]) = Parm(t, Depth, s[1])
        BY <1>1, <4>4, <4>5, AtParm
      <4> QED
        BY <1>6, <3>1, <4>6
    <3>3. new = Stored(t, Depth, c.stage, c.answers)
      BY <3>1, <3>2 DEF Stored
    <3>4. AllAre(t, c.stage, c.answers)
      BY <1>6, <3>1 DEF AllAre
    <3> HIDE DEF new, t, c
    <3>5. After(t, asked, Depth, c.stage, c.answers) = Due(t, asked, Depth, c.stage)
      <4>1. /\ Tells(t, asked) /\ t.via # "none" /\ c.stage \in 1 .. Len(t.stores)
            /\ Len(t.stores) \in Nat
        BY <1>3, <1>4, <1>6, <2>2
      <4> HIDE DEF failed, more
      <4> QED
        BY <3>4, <4>1, Converted
    <3> QED
      BY <1>6, <2>2, <3>3, <3>5 DEF After, Due
  <2> QED
    BY <2>1, <2>2
<1> HIDE DEF new, stores, answer, t, c, m, given
<1>15. /\ c2 \in ThunkCall /\ c2.entry = c.entry /\ c2.called = c.called /\ c2.found = c.found
       /\ c2.ds = c.ds /\ c2.es = c.es /\ c2.bp = c.bp /\ c2.resume = c.resume
       /\ c2.outer = c.outer /\ c2.null = c.null /\ c2.ok = c.ok /\ c2.answers = c.answers
       /\ c2.stage = IF more THEN c.stage + 1 ELSE c.stage
       /\ c2.written = c.written \cup new
  <2>1. next \in Nat /\ written \in SUBSET (WordSet \X Nat)
    BY <1>11, <1>12
  <2>2. next = IF more THEN c.stage + 1 ELSE c.stage
    OBVIOUS
  <2>3. written = c.written \cup new
    OBVIOUS
  <2> HIDE DEF next, written, more, failed
  <2>4. /\ c2 \in ThunkCall /\ c2.entry = c.entry /\ c2.called = c.called /\ c2.found = c.found
        /\ c2.ds = c.ds /\ c2.es = c.es /\ c2.bp = c.bp /\ c2.resume = c.resume
        /\ c2.outer = c.outer /\ c2.null = c.null /\ c2.ok = c.ok /\ c2.answers = c.answers
        /\ c2.stage = next /\ c2.written = written
    BY <1>2, <2>1 DEF ThunkCall
  <2> QED
    BY <2>2, <2>3, <2>4
<1> HIDE DEF c2
<1>16. /\ c.entry = c.called /\ ArgCount(asked) <= m
       /\ \A i \in m - ArgCount(asked) + 1 .. m : c.found[i] = Word("arg", Depth, m + 2 - i)
       /\ Framed(c, t, stack, bp, 0, given) /\ ds = t.ds
       /\ es = IF t.via = "far" THEN KernelES ELSE t.es
       /\ \A r \in CalleeSaved : r \in Range(t.pushes) \/ regs[r] = given[r]
  BY <1>1, <1>2, <1>3 DEF FrameAt, Here, Stands, m, given
<1>17. /\ regs' \in RegFile /\ regs'["eax"] = Code(failed)
       /\ \A r \in CalleeSaved : regs'[r] = regs[r]
  BY <1>5, <1>8, <1>9 DEF RegFile, CalleeSaved, Registers
<1>18. FrameAt(c2, Depth, Here', regs')
  <2>1. pc' \in {"in_kernel", "popping"} /\ (pc' = "in_kernel" => t.via = "ds" /\ Len(t.block) = 0)
    BY <1>4, <1>8, <1>13
  <2>2. Framed(c2, t, stack', bp', IF pc' = "in_kernel" THEN Len(t.block) ELSE 0, given)
    BY <1>8, <1>15, <1>16, <2>1 DEF Framed
  <2>3. es' = IF pc' # "in_kernel" /\ t.via = "far" THEN KernelES ELSE t.es
    BY <1>8, <1>16, <2>1
  <2> QED
    BY <1>3, <1>8, <1>15, <1>16, <1>17, <2>1, <2>2, <2>3
    DEF FrameAt, Here, Stands, m, given, Thunk32Steps
<1>19. DeliveredAt(c2, Depth, Here', regs')
  <2>1. pc' = "in_kernel" => t.via = "ds" /\ Len(t.block) = 0 /\ c2.stage # 1
    BY <1>4, <1>6, <1>8, <1>12, <1>13, <1>15
  <2> QED
    BY <1>3, <1>15, <2>1 DEF DeliveredAt, Here, Stands
<1>20. ToldAt(c2, Depth, Here', regs')
  <2>1. CASE more
    <3>1. c.stage + 1 \in 1 .. Len(t.stores)
      BY <1>4, <1>6, <1>12, <1>13, <2>1
    <3>2. c2.written = Earlier(asked, Depth, c.stage + 1) /\ pc' = "in_kernel"
      BY <1>8, <1>12, <1>13, <1>14, <1>15, <2>1, <3>1
    <3> QED
      BY <1>3, <1>6, <1>15, <2>1, <3>1, <3>2 DEF ToldAt, Here, Stands
  <2>2. CASE ~more
    <3>1. pc' = "popping"
      BY <1>8, <2>2
    <3>2. c2.written = IF c.ok /\ ~c.null THEN Complete(asked, Depth)
                         ELSE Earlier(asked, Depth, c.stage)
      BY <1>12, <1>14, <1>15, <2>2
    <3>3. Honest(c2, t, regs')
      BY <1>9, <1>15 DEF Honest
    <3> QED
      BY <1>3, <1>6, <1>15, <2>2, <3>1, <3>2, <3>3 DEF ToldAt, Here, Stands
  <2> QED
    BY <2>1, <2>2
<1>21. StateTyped(Here')
  BY <1>4, <1>5, <1>8, <1>16 DEF StateTyped, Here, Stands, KernelES
<1>22. Before(c2) = Before(c) /\ pc' \in Thunk32Steps
  BY <1>2, <1>8, <1>15 DEF Before, Passed, IsThunk, ThunkCall, Thunk32Steps
<1> QED
  BY <1>1, <1>8, <1>15, <1>17, <1>18, <1>19, <1>20, <1>21, <1>22, ThunkGoesOn DEF c, ThunkAt

\* The range of a sequence, member by member.
LEMMA InRange ==
  ASSUME NEW f, NEW S, DOMAIN f = S, NEW x
  PROVE  x \in Range(f) <=> \E j \in S : f[j] = x
BY DEF Range

\* The registers that are popped are those that were pushed.
LEMMA PopsArePushes ==
  ASSUME NEW t, Balanced(t)
  PROVE  Range(t.pops) = Range(t.pushes)
<1> DEFINE p == Len(t.pushes)
<1>1. /\ p \in Nat /\ DOMAIN t.pushes = 1 .. p /\ DOMAIN t.pops = 1 .. p
      /\ \A j \in 1 .. p : t.pops[j] = t.pushes[p + 1 - j]
  BY DEF Balanced
<1> HIDE DEF p
<1>2. \A j \in 1 .. p : p + 1 - j \in 1 .. p /\ p + 1 - (p + 1 - j) = j
  BY <1>1
<1>3. \A j \in 1 .. p : t.pushes[j] = t.pops[p + 1 - j]
  BY <1>1, <1>2
<1>4. \A x : (\E j \in 1 .. p : t.pops[j] = x) <=> (\E j \in 1 .. p : t.pushes[j] = x)
  <2> TAKE x
  <2>1. ASSUME NEW j \in 1 .. p, t.pops[j] = x
        PROVE  \E k \in 1 .. p : t.pushes[k] = x
    BY <1>1, <1>2, <2>1
  <2>2. ASSUME NEW j \in 1 .. p, t.pushes[j] = x
        PROVE  \E k \in 1 .. p : t.pops[k] = x
    BY <1>2, <1>3, <2>2
  <2> QED
    BY <2>1, <2>2
<1>5. \A x : /\ x \in Range(t.pops) <=> \E j \in 1 .. p : t.pops[j] = x
             /\ x \in Range(t.pushes) <=> \E j \in 1 .. p : t.pushes[j] = x
  BY <1>1, InRange
<1>6. \A x : x \in Range(t.pops) <=> x \in Range(t.pushes)
  <2> TAKE x
  <2>1. (\E j \in 1 .. p : t.pops[j] = x) <=> (\E j \in 1 .. p : t.pushes[j] = x)
    BY <1>4
  <2>2. /\ x \in Range(t.pops) <=> \E j \in 1 .. p : t.pops[j] = x
        /\ x \in Range(t.pushes) <=> \E j \in 1 .. p : t.pushes[j] = x
    BY <1>5
  <2> QED
    BY <2>1, <2>2, Zenon
<1> HIDE <1>1, <1>2, <1>3, <1>4, <1>5
<1> QED
  BY <1>6

PopAt(r) == Len(stack) - 2 * ((CHOOSE j \in DOMAIN thunk.pops : thunk.pops[j] = r) - 1)

\* Where a register is popped from lies what was pushed of it.
LEMMA PopPlace ==
  ASSUME IInv, pc = "popping", NEW r \in Range(thunk.pops), NEW i, i = PopAt(r)
  PROVE  /\ Saved(stack, i, r, RegsAtCall(asked, Depth))
         /\ stack[i] \in WordSet /\ stack[i - 1] \in WordSet
<1> DEFINE c == Current
           m == Len(c.found)
           t == thunk
           p == Len(t.pushes)
           w == FrameWords(t)
           j == CHOOSE x \in DOMAIN t.pops : t.pops[x] = r
           k == p + 1 - j
           given == RegsAtCall(asked, Depth)
<1>1. pc \in Thunk32Steps
  BY DEF Thunk32Steps
<1>2. FrameAt(c, Depth, Here, regs)
  BY <1>1, AtThunk DEF ThunkAt
<1>3. /\ Sound(t, asked) /\ t = Description[c.entry] /\ asked = Interface!Declared[c.called]
      /\ m \in Nat /\ stack \in Seq(WordSet)
  BY <1>1, ThunkTyped DEF IInv, TypeOK
<1>4. /\ t.local \in Nat \cup {NoFrame} /\ p \in Nat /\ DOMAIN t.pops = 1 .. p
      /\ \A x \in 1 .. p : t.pops[x] = t.pushes[p + 1 - x]
  BY <1>3 DEF Sound, Balanced, Readable
<1>5. w \in Nat
  BY <1>4 DEF FrameWords
<1>6. j \in 1 .. p /\ t.pops[j] = r
  BY <1>4 DEF Range
<1> HIDE DEF c, m, t, p, w, j
<1>7. k \in 1 .. p /\ p + 1 - j = k
  BY <1>4, <1>6
<1>8. t.pushes[k] = r
  BY <1>4, <1>6
<1> HIDE DEF k
<1>9. /\ Framed(c, t, stack, bp, 0, given)
  BY <1>2, <1>3 DEF FrameAt, Here, Stands
<1>10. /\ Len(stack) = m + ((2 + w + 2 * p) + 0)
       /\ \A x \in 1 .. p : Saved(stack, m + 2 + w + 2 * x, t.pushes[x], given)
  BY <1>9 DEF Framed, Grown, Reserved, m, w, p
<1>11. i = m + 2 + w + 2 * k
  <2>1. i = Len(stack) - 2 * (j - 1)
    BY DEF PopAt, j, t
  <2>2. Len(stack) = m + ((2 + w + 2 * p) + 0)
    BY <1>10
  <2>3. m \in Nat /\ p \in Nat /\ w \in Nat /\ j \in Nat /\ k = p + 1 - j
    BY <1>3, <1>4, <1>5, <1>6, <1>7
  <2> QED
    BY <2>1, <2>2, <2>3
<1>12. i \in 1 .. Len(stack) /\ i - 1 \in 1 .. Len(stack)
  <2>1. Len(stack) = m + ((2 + w + 2 * p) + 0)
    BY <1>10
  <2>2. m \in Nat /\ p \in Nat /\ w \in Nat /\ k \in 1 .. p
    BY <1>3, <1>4, <1>5, <1>7
  <2> QED
    BY <1>11, <2>1, <2>2
<1>13. Saved(stack, i, r, given)
  BY <1>7, <1>8, <1>10, <1>11
<1> QED
  BY <1>3, <1>12, <1>13

\* What is left is what the caller had, and the frame pointer is its own again.
LEMMA FrameLeft ==
  ASSUME IInv, pop_registers
  PROVE  stack' = Current.found /\ bp' = Current.bp
<1> DEFINE c == Current
           m == Len(c.found)
           t == thunk
           p == Len(t.pushes)
<1>1. pc = "popping" /\ pc \in Thunk32Steps
  BY DEF pop_registers, Thunk32Steps
<1>2. FrameAt(c, Depth, Here, regs)
  BY <1>1, AtThunk DEF ThunkAt
<1>3. /\ Sound(t, asked) /\ t = Description[c.entry] /\ asked = Interface!Declared[c.called]
      /\ c.found \in Seq(WordSet) /\ m \in Nat /\ stack \in Seq(WordSet)
  BY <1>1, ThunkTyped DEF IInv, TypeOK
<1>4. t.local \in Nat \cup {NoFrame} /\ p \in Nat /\ Len(t.pops) = p
  BY <1>3 DEF Sound, Balanced, Readable
<1>5. Framed(c, t, stack, bp, 0, RegsAtCall(asked, Depth))
  BY <1>1, <1>2, <1>3 DEF FrameAt, Here, Stands
<1>6. IF t.local = NoFrame
        THEN stack' = SubSeq(stack, 1, Len(stack) - (2 * p + 2)) /\ bp' = bp
        ELSE stack' = SubSeq(stack, 1, bp - 2 - 2) /\ bp' = stack[bp].value
  BY <1>4 DEF pop_registers, Popped
<1> HIDE DEF c, m, t, p
<1>7. Reserved(t) + 0 \in Nat
  BY <1>4 DEF Reserved, FrameWords, p
<1>8. /\ Grown(stack, c.found, Reserved(t) + 0)
      /\ IF t.local = NoFrame THEN bp = c.bp ELSE bp = m + 4 /\ stack[bp].value = c.bp
  BY <1>5 DEF Framed, m
<1>9. SubSeq(stack, 1, Len(c.found)) = c.found
  BY <1>3, <1>7, <1>8, PoppedAll
<1>10. CASE t.local = NoFrame
  <2>1. Len(stack) - (2 * p + 2) = m
    <3>1. Reserved(t) = 2 + 0 + 2 * p
      BY <1>10 DEF Reserved, FrameWords, p
    <3>2. Len(stack) = m + (2 + 0 + 2 * p + 0)
      BY <1>8, <3>1 DEF Grown, m
    <3> QED
      BY <1>3, <1>4, <3>2
  <2> QED
    BY <1>6, <1>8, <1>9, <1>10, <2>1 DEF c, m
<1>11. CASE t.local # NoFrame
  <2>1. bp - 2 - 2 = m
    BY <1>3, <1>8, <1>11
  <2> QED
    BY <1>6, <1>8, <1>9, <1>11, <2>1 DEF c, m
<1> QED
  BY <1>10, <1>11

\* A thunk restores the registers, undoes its frame and returns.
LEMMA pop_registers_Step ==
  ASSUME IInv, pop_registers
  PROVE  IInv'
<1> DEFINE c == Current
           t == thunk
           given == RegsAtCall(asked, Depth)
           place(r) == Len(stack) - 2 * ((CHOOSE j \in DOMAIN t.pops : t.pops[j] = r) - 1)
<1>1. pc = "popping" /\ pc \in Thunk32Steps /\ pc' = "returned32" /\ calls' = calls
  BY DEF pop_registers, Thunk32Steps, Go
<1>2. FrameAt(c, Depth, Here, regs) /\ ToldAt(c, Depth, Here, regs)
  BY <1>1, AtThunk DEF ThunkAt
<1>3. /\ Sound(t, asked) /\ Tells(t, asked) /\ t = Description[c.entry]
      /\ asked = Interface!Declared[c.called] /\ c.called = c.entry
      /\ c.found \in Seq(WordSet) /\ c.ds = FlatDS /\ c.es = FlatDS /\ c.bp \in Int
      /\ regs \in RegFile
  BY <1>1, ThunkTyped DEF IInv, TypeOK
<1>4. /\ Range(t.pops) = Range(t.pushes)
      /\ "ds" \notin Range(t.pushes) => t.ds = FlatDS
      /\ "es" \notin Range(t.pushes) => t.es = FlatDS /\ t.via # "far"
      /\ "eax" \notin Range(t.pushes)
  BY <1>3, PopsArePushes DEF Sound, Balanced, Tells, Codes
<1>5. \A r \in Range(t.pops) :
        /\ Saved(stack, place(r), r, given)
        /\ stack[place(r)] \in WordSet /\ stack[place(r) - 1] \in WordSet
  BY <1>1, PopPlace DEF PopAt
<1>6. /\ regs' = [r \in Registers |-> IF r \in Range(t.pops)
                   THEN <<stack[place(r)], stack[place(r) - 1]>> ELSE regs[r]]
      /\ ds' = IF "ds" \in Range(t.pops) THEN stack[place("ds")].value ELSE ds
      /\ es' = IF "es" \in Range(t.pops) THEN stack[place("es")].value ELSE es
  BY DEF pop_registers
<1>7. stack' = c.found /\ bp' = c.bp
  BY FrameLeft
<1> HIDE DEF c, t, given, place
<1>8. /\ ds = t.ds /\ es = IF t.via = "far" THEN KernelES ELSE t.es
      /\ \A r \in CalleeSaved : r \in Range(t.pushes) \/ regs[r] = given[r]
  BY <1>1, <1>2, <1>3 DEF FrameAt, Here, Stands, given
<1>9. ds' = FlatDS /\ es' = FlatDS
  <2>1. ds' = FlatDS
    <3>1. CASE "ds" \in Range(t.pops)
      BY <1>5, <1>6, <3>1 DEF Saved, Segments
    <3>2. CASE "ds" \notin Range(t.pops)
      BY <1>4, <1>6, <1>8, <3>2
    <3> QED
      BY <3>1, <3>2
  <2>2. es' = FlatDS
    <3>1. CASE "es" \in Range(t.pops)
      BY <1>5, <1>6, <3>1 DEF Saved, Segments
    <3>2. CASE "es" \notin Range(t.pops)
      BY <1>4, <1>6, <1>8, <3>2
    <3> QED
      BY <3>1, <3>2
  <2> QED
    BY <2>1, <2>2
<1>10. regs' \in RegFile
  <2>1. \A r \in Registers : IF r \in Range(t.pops)
          THEN <<stack[place(r)], stack[place(r) - 1]>> \in WordSet \X WordSet
          ELSE regs[r] \in WordSet \X WordSet
    BY <1>3, <1>5 DEF RegFile
  <2> QED
    BY <1>6, <2>1 DEF RegFile
<1>11. ASSUME NEW r \in CalleeSaved
       PROVE  regs'[r] = given[r]
  <2>1. r \in Registers /\ r \notin Segments
    BY DEF CalleeSaved, Registers, Segments
  <2>2. given[r] = <<given[r][1], given[r][2]>>
    BY <2>1 DEF given, RegsAtCall, Words
  <2>3. CASE r \in Range(t.pops)
    <3>1. regs'[r] = <<stack[place(r)], stack[place(r) - 1]>>
      BY <1>6, <2>1, <2>3
    <3>2. stack[place(r)] = given[r][1] /\ stack[place(r) - 1] = given[r][2]
      BY <1>5, <2>1, <2>3 DEF Saved
    <3> QED
      BY <2>2, <3>1, <3>2
  <2>4. CASE r \notin Range(t.pops)
    BY <1>4, <1>6, <1>8, <2>1, <2>4
  <2> QED
    BY <2>3, <2>4
<1>12. regs'["eax"] = regs["eax"]
  BY <1>4, <1>6 DEF Registers
<1>13. FrameAt(c, Depth, Here', regs')
  BY <1>1, <1>2, <1>3, <1>7, <1>9, <1>11
  DEF FrameAt, Here, Stands, Thunk32Steps, given
<1>14. DeliveredAt(c, Depth, Here', regs')
  BY <1>1 DEF DeliveredAt, Here, Stands
<1>15. ToldAt(c, Depth, Here', regs')
  BY <1>1, <1>2, <1>12 DEF ToldAt, Honest, Said, Here, Stands
<1>16. StateTyped(Here') /\ pc' \in Thunk32Steps
  BY <1>1, <1>3, <1>7, <1>9 DEF StateTyped, Here, Stands, Thunk32Steps, FlatDS
<1> QED
  BY <1>1, <1>10, <1>13, <1>14, <1>15, <1>16, ThunkStays DEF c, ThunkAt

\* The routine goes on with its own registers, and without the parameters.
LEMMA resume_handler_Step ==
  ASSUME IInv, resume_handler
  PROVE  IInv'
<1> DEFINE c == Current
<1>1. pc = "returned32" /\ pc \in Thunk32Steps
  BY DEF resume_handler, Thunk32Steps
<1>2. /\ c \in ThunkCall /\ IsThunk(c) /\ FrameAt(c, Depth, Here, regs) /\ Depth \in Nat \ {0}
  BY <1>1, AtThunk DEF ThunkAt
<1>3. /\ asked = Interface!Declared[c.called] /\ Sound(thunk, asked)
      /\ c.found \in Seq(WordSet) /\ Len(c.found) \in Nat
  BY <1>1, ThunkTyped
<1>4. /\ stack = c.found /\ ds = c.ds /\ es = c.es /\ bp = c.bp /\ ArgCount(asked) <= Len(c.found)
  BY <1>1, <1>2, <1>3 DEF FrameAt, Here, Stands
<1>5. Len(ArgWords(asked, Depth)) = ArgCount(asked) /\ ArgCount(asked) \in Nat
  <2>1. asked.optlink \in BOOLEAN /\ Len(asked.args) \in Nat
    BY <1>3 DEF Sound, Readable
  <2> QED
    BY <1>2, <2>1, ArgsTyped
<1>6. stack' = SubSeq(c.found, 1, Len(c.found) - ArgCount(asked))
  BY <1>4, <1>5 DEF resume_handler, Popped
<1>7. /\ regs' = c.outer /\ calls' = Front(calls) /\ pc' = c.resume
      /\ ds' = ds /\ es' = es /\ bp' = bp
  BY DEF resume_handler, Go
<1>8. Opens(c, Here', regs', regs)
  BY <1>2, <1>3, <1>4, <1>6, <1>7 DEF Opens, Before, Passed, Here, Stands
<1>9. stack' \in Seq(WordSet)
  <2>1. Len(c.found) - ArgCount(asked) \in 0 .. Len(c.found)
    BY <1>3, <1>4, <1>5
  <2> QED
    BY <1>3, <1>6, <2>1, Popping
<1>10. StateTyped(Here') /\ regs' \in RegFile
  BY <1>2, <1>7, <1>9 DEF StateTyped, Here, Stands, IInv, TypeOK, ThunkCall
<1> QED
  BY <1>2, <1>7, <1>8, <1>10, CallEnds DEF c

----------------------------------------------------------------------------
(* What the kernel gets.                                                    *)

\* Word number v of the parameters is loaded into a register, or a register in
\* which the caller passes it is left alone.
WordLoaded(t, v) ==
  \E l \in Range(t.loads) :
    \/ l.from \in {"stack", "stack16"} /\ (l.off \div 2) - Shift(t) = v
    \/ l.from = "stack" /\ ((l.off + 2) \div 2) - Shift(t) = v
InRegister(p, r, j) ==
  /\ p.optlink /\ Len(p.args) >= j
  /\ \/ r = "eax" /\ j = 1
     \/ r = "edx" /\ j = 2
Kept(t, p, j) ==
  \E r \in {"eax", "edx"} : InRegister(p, r, j) /\ \A l \in Range(t.loads) : l.reg # r

\* An item of a block is word number v of the parameters.
IsWord(t, p, w, v) ==
  \/ w.from = "arg" /\ (w.off \div 2) - Shift(t) = v
  \/ w.from = "low" /\ \E j \in {1, 2} : InRegister(p, w.reg, j) /\ v = 2 * j
  \/ w.from = "high" /\ \E j \in {1, 2} : InRegister(p, w.reg, j) /\ v = 2 * j + 1

Wide(p) == {i \in DOMAIN p.args : p.args[i] # Interface!Short}
Spot(p, j) == j + Rank(Wide(p), j - 1)
Within(t, p, j) ==
  Spot(p, j) \in DOMAIN t.block /\ (j \in Wide(p) => Spot(p, j) + 1 \in DOMAIN t.block)
ItemsAt(t, p, j, a, b) ==
  /\ p.args[j] = Interface!Short => IsWord(t, p, a, 2 * j)
  /\ p.args[j] = Interface!Long => IsWord(t, p, b, 2 * j) /\ IsWord(t, p, a, 2 * j + 1)
  /\ p.args[j] = Interface!Answer => a.from = "ss" /\ b.from = "local"
InOrder(t, p) ==
  LET used == Spot(p, Len(p.args) + 1) - 1
  IN  /\ Len(t.block) >= used
      /\ \A i \in DOMAIN t.block : i > used => t.block[i].from = "size"
      /\ \A j \in DOMAIN p.args : Within(t, p, j)
      /\ \A j \in DOMAIN p.args :
           ItemsAt(t, p, j, t.block[Spot(p, j)], t.block[Spot(p, j) + 1])

Prototype(p) ==
  /\ Len(p.args) \in 0 .. 12 /\ DOMAIN p.args = 1 .. Len(p.args)
  /\ \A j \in DOMAIN p.args :
       p.args[j] \in {Interface!Short, Interface!Long, Interface!Answer}

Delivers(t, p) ==
  /\ t.via = "ds" => t.ds = FlatDS
  /\ t.via = "es" => t.es = FlatDS
  /\ Prototype(p) /\ LoadsParms(t)
  /\ \A l \in Range(t.loads) :
       l.from \in {"stack", "stack16"} \/ InRegister(p, l.from, 1) \/ InRegister(p, l.from, 2)
  /\ t.via = "far" => t.loads = <<>> /\ InOrder(t, p)
  /\ t.via # "far" => \A j \in DOMAIN p.args :
       /\ p.args[j] # Interface!Answer => WordLoaded(t, 2 * j) \/ Kept(t, p, j)
       /\ p.args[j] = Interface!Long => WordLoaded(t, 2 * j + 1) \/ Kept(t, p, j)

\* A parameter takes one word of a block more than the one before it, two if
\* that is not short.
LEMMA SpotStep ==
  ASSUME NEW p, Prototype(p)
  PROVE  /\ Spot(p, 1) = 1
         /\ \A j \in 1 .. Len(p.args) : Spot(p, j + 1) = Spot(p, j) + 1 + One(j \in Wide(p))
         /\ \A j \in 1 .. Len(p.args) + 1 : Spot(p, j) \in Nat
<1> DEFINE n == Len(p.args)
           W == Wide(p)
<1>1. W \subseteq 1 .. 12 /\ n \in 0 .. 12
  BY DEF Wide, Prototype
<1> HIDE DEF n, W
<1>2. /\ Rank(W, 0) = 0
      /\ \A k \in 1 .. 12 : Rank(W, k) = Rank(W, k - 1) + One(k \in W)
      /\ \A k \in 0 .. 12 : Rank(W, k) \in Nat
  BY <1>1, RankStep
<1>3. ASSUME NEW j \in 1 .. n
      PROVE  Spot(p, j + 1) = Spot(p, j) + 1 + One(j \in W)
  <2>1. j \in 1 .. 12 /\ j - 1 \in 0 .. 12 /\ (j + 1) - 1 = j
    BY <1>1
  <2>2. Rank(W, j) = Rank(W, j - 1) + One(j \in W) /\ Rank(W, j - 1) \in Nat
    BY <1>2, <2>1
  <2>3. Spot(p, j + 1) = j + 1 + Rank(W, j) /\ Spot(p, j) = j + Rank(W, j - 1)
    BY <2>1 DEF Spot, W
  <2>4. One(j \in W) \in Nat
    BY DEF One
  <2> QED
    BY <2>1, <2>2, <2>3, <2>4
<1>4. ASSUME NEW j \in 1 .. n + 1
      PROVE  Spot(p, j) \in Nat
  <2>1. j - 1 \in 0 .. 12 /\ j \in Nat
    BY <1>1
  <2>2. Rank(W, j - 1) \in Nat /\ Spot(p, j) = j + Rank(W, j - 1)
    BY <1>2, <2>1 DEF Spot, W
  <2> QED
    BY <2>1, <2>2
<1>5. Spot(p, 1) = 1
  BY <1>2 DEF Spot, W
<1> QED
  BY <1>3, <1>4, <1>5 DEF n, W

\* The kernel gets what the prototypes say, from every routine but the one whose
\* offsets forget a push.
LEMMA DescriptionsDeliver ==
  ASSUME NEW r \in DOMAIN Description, r # "ResetEventSem", Description[r].via # "none"
  PROVE  Delivers(Description[r], Interface!Declared[r])
<1> USE DEF Shift, NoFrame, FlatDS, Thunk, DevHlp, Fsh, In, InLow, InReg, EventSem,
        Interface!System, Interface!Optlink, Interface!Long, Interface!Short, Interface!Answer,
        Interface!Linked
<1>1. Delivers(VMAlloc, Interface!VMAlloc)
  BY DEF Delivers, Prototype, LoadsParms, WordLoaded, InRegister, Kept, Range, VMAlloc, Interface!VMAlloc
<1>2. Delivers(VMFree, Interface!VMFree)
  BY DEF Delivers, Prototype, LoadsParms, WordLoaded, InRegister, Kept, Range, VMFree, Interface!VMFree
<1>3. Delivers(VMLock, Interface!VMLock)
  BY DEF Delivers, Prototype, LoadsParms, WordLoaded, InRegister, Kept, Range, VMLock, Interface!VMLock
<1>4. Delivers(VMUnlock, Interface!VMUnlock)
  BY DEF Delivers, Prototype, LoadsParms, WordLoaded, InRegister, Kept, Range, VMUnlock, Interface!VMUnlock
<1>5. Delivers(VirtToLin, Interface!VirtToLin)
  BY DEF Delivers, Prototype, LoadsParms, WordLoaded, InRegister, Kept, Range, VirtToLin, Interface!VirtToLin
<1>6. Delivers(VerifyAccess, Interface!VerifyAccess)
  BY DEF Delivers, Prototype, LoadsParms, WordLoaded, InRegister, Kept, Range, VerifyAccess, Interface!VerifyAccess
<1>7. Delivers(LinToPageList, Interface!LinToPageList)
  BY DEF Delivers, Prototype, LoadsParms, WordLoaded, InRegister, Kept, Range, LinToPageList, Interface!LinToPageList
<1>8. Delivers(PageListToLin, Interface!PageListToLin)
  BY DEF Delivers, Prototype, LoadsParms, WordLoaded, InRegister, Kept, Range, PageListToLin, Interface!PageListToLin
<1>9. Delivers(GetDosVar, Interface!GetDosVar)
  BY DEF Delivers, Prototype, LoadsParms, WordLoaded, InRegister, Kept, Range, GetDosVar, Interface!GetDosVar
<1>10. Delivers(GetInfoSegs, Interface!GetInfoSegs)
  BY DEF Delivers, Prototype, LoadsParms, WordLoaded, InRegister, Kept, Range, GetInfoSegs, Interface!GetInfoSegs
<1>11. Delivers(Security, Interface!Security)
  BY DEF Delivers, Prototype, LoadsParms, WordLoaded, InRegister, Kept, Range, Security, Interface!Security
<1>12. Delivers(AllocOneGDTSelector, Interface!AllocOneGDTSelector)
  BY DEF Delivers, Prototype, LoadsParms, WordLoaded, InRegister, Kept, Range, AllocOneGDTSelector, Interface!AllocOneGDTSelector
<1>13. Delivers(FreeGDTSelector, Interface!FreeGDTSelector)
  BY DEF Delivers, Prototype, LoadsParms, WordLoaded, InRegister, Kept, Range, FreeGDTSelector, Interface!FreeGDTSelector
<1>14. Delivers(AttachToDD, Interface!AttachToDD)
  BY DEF Delivers, Prototype, LoadsParms, WordLoaded, InRegister, Kept, Range, AttachToDD, Interface!AttachToDD
<1>15. Delivers(setIRQ, Interface!setIRQ)
  BY DEF Delivers, Prototype, LoadsParms, WordLoaded, InRegister, Kept, Range, setIRQ, Interface!setIRQ
<1>16. Delivers(UnSetIRQ, Interface!UnSetIRQ)
  <2> DEFINE t == UnSetIRQ  p == Interface!UnSetIRQ
  <2>1. /\ t.loads = <<InLow("ebx", 8), InLow("ecx", 12)>> /\ t.via = "es" /\ t.es = FlatDS
        /\ Shift(t) = 2
    BY DEF UnSetIRQ
  <2>2. p.args = <<Interface!Short, Interface!Short>>
    BY DEF Interface!UnSetIRQ
  <2> HIDE DEF t, p, Shift
  <2>3. WordLoaded(t, 2) /\ WordLoaded(t, 4)
    BY <2>1 DEF WordLoaded, Range
  <2> QED
    BY <2>1, <2>2, <2>3 DEF Delivers, Prototype, LoadsParms, Range, t, p
<1>17. Delivers(EOI, Interface!EOI)
  BY DEF Delivers, Prototype, LoadsParms, WordLoaded, InRegister, Kept, Range, EOI, Interface!EOI
<1>18. Delivers(ProcBlock, Interface!ProcBlock)
  BY DEF Delivers, Prototype, LoadsParms, WordLoaded, InRegister, Kept, Range, ProcBlock, Interface!ProcBlock
<1>19. Delivers(ProcRun, Interface!ProcRun)
  BY DEF Delivers, Prototype, LoadsParms, WordLoaded, InRegister, Kept, Range, ProcRun, Interface!ProcRun
<1>20. Delivers(Yield, Interface!Yield)
  BY DEF Delivers, Prototype, LoadsParms, WordLoaded, InRegister, Kept, Range, Yield, Interface!Yield
<1>21. Delivers(OpenEventSem, Interface!OpenEventSem)
  BY DEF Delivers, Prototype, LoadsParms, WordLoaded, InRegister, Kept, Range, OpenEventSem, Interface!OpenEventSem
<1>22. Delivers(CloseEventSem, Interface!CloseEventSem)
  BY DEF Delivers, Prototype, LoadsParms, WordLoaded, InRegister, Kept, Range, CloseEventSem, Interface!CloseEventSem
<1>23. Delivers(PostEventSem, Interface!PostEventSem)
  BY DEF Delivers, Prototype, LoadsParms, WordLoaded, InRegister, Kept, Range, PostEventSem, Interface!PostEventSem
<1>24. Delivers(addshare, Interface!addshare)
  <2> DEFINE t == addshare  p == Interface!addshare
  <2>1. /\ Prototype(p) /\ Len(p.args) = 4 /\ t.via = "far" /\ t.loads = <<>>
        /\ Wide(p) = {1, 4}
    BY DEF Prototype, Wide, addshare, Interface!addshare
  <2>2. t.block = <<Arg(10), Arg(8), Arg(12), Arg(16), SS, Local(4)>>
    BY DEF addshare
  <2>3. LoadsParms(t) /\ \A l \in Range(t.loads) : FALSE
    BY <2>1 DEF LoadsParms, Range
  <2>4. /\ ItemsAt(t, p, 1, Arg(10), Arg(8))
        /\ ItemsAt(t, p, 2, Arg(12), Arg(16))
        /\ ItemsAt(t, p, 3, Arg(16), SS)
        /\ ItemsAt(t, p, 4, SS, Local(4))
    BY Items DEF ItemsAt, IsWord, InRegister, addshare, Interface!addshare
  <2> HIDE DEF t, p
  <2>5. /\ Spot(p, 1) = 1
        /\ Spot(p, 2) = 3
        /\ Spot(p, 3) = 4
        /\ Spot(p, 4) = 5
        /\ Spot(p, 5) = 7
    <3>1. /\ Spot(p, 1) = 1
          /\ \A j \in 1 .. 4 : Spot(p, j + 1) = Spot(p, j) + 1 + One(j \in Wide(p))
      BY <2>1, SpotStep
    <3>2. Spot(p, 1) = 1 /\ \A j \in 1 .. 4 : Spot(p, j + 1) = Spot(p, j) + IF j \in {1, 4} THEN 2 ELSE 1
      BY <2>1, <3>1 DEF One
    <3> QED
      BY <3>2
  <2>6. InOrder(t, p)
    BY <2>1, <2>2, <2>4, <2>5, Items DEF InOrder, Within, Prototype
  <2> QED
    BY <2>1, <2>3, <2>6 DEF Delivers, t, p
<1>25. Delivers(devioctl, Interface!devioctl)
  <2> DEFINE t == devioctl  p == Interface!devioctl
  <2>1. /\ Prototype(p) /\ Len(p.args) = 9 /\ t.via = "far" /\ t.loads = <<>>
        /\ Wide(p) = {2, 6, 8}
    BY DEF Prototype, Wide, devioctl, Interface!devioctl
  <2>2. t.block = <<Arg(8), Arg(14), Arg(12), Arg(16), Arg(20), Arg(24), Arg(30), Arg(28), Arg(32), Arg(38), Arg(36), Arg(40)>>
    BY DEF devioctl
  <2>3. LoadsParms(t) /\ \A l \in Range(t.loads) : FALSE
    BY <2>1 DEF LoadsParms, Range
  <2>4. /\ ItemsAt(t, p, 1, Arg(8), Arg(14))
        /\ ItemsAt(t, p, 2, Arg(14), Arg(12))
        /\ ItemsAt(t, p, 3, Arg(16), Arg(20))
        /\ ItemsAt(t, p, 4, Arg(20), Arg(24))
        /\ ItemsAt(t, p, 5, Arg(24), Arg(30))
        /\ ItemsAt(t, p, 6, Arg(30), Arg(28))
        /\ ItemsAt(t, p, 7, Arg(32), Arg(38))
        /\ ItemsAt(t, p, 8, Arg(38), Arg(36))
        /\ ItemsAt(t, p, 9, Arg(40), t.block[13])
    BY Items DEF ItemsAt, IsWord, InRegister, devioctl, Interface!devioctl
  <2> HIDE DEF t, p
  <2>5. /\ Spot(p, 1) = 1
        /\ Spot(p, 2) = 2
        /\ Spot(p, 3) = 4
        /\ Spot(p, 4) = 5
        /\ Spot(p, 5) = 6
        /\ Spot(p, 6) = 7
        /\ Spot(p, 7) = 9
        /\ Spot(p, 8) = 10
        /\ Spot(p, 9) = 12
        /\ Spot(p, 10) = 13
    <3>1. /\ Spot(p, 1) = 1
          /\ \A j \in 1 .. 9 : Spot(p, j + 1) = Spot(p, j) + 1 + One(j \in Wide(p))
      BY <2>1, SpotStep
    <3>2. Spot(p, 1) = 1 /\ \A j \in 1 .. 9 : Spot(p, j + 1) = Spot(p, j) + IF j \in {2, 6, 8} THEN 2 ELSE 1
      BY <2>1, <3>1 DEF One
    <3> QED
      BY <3>2
  <2>6. InOrder(t, p)
    <3>1. /\ t.block[1] = Arg(8)
          /\ t.block[2] = Arg(14)
          /\ t.block[3] = Arg(12)
          /\ t.block[4] = Arg(16)
          /\ t.block[5] = Arg(20)
          /\ t.block[6] = Arg(24)
          /\ t.block[7] = Arg(30)
          /\ t.block[8] = Arg(28)
          /\ t.block[9] = Arg(32)
          /\ t.block[10] = Arg(38)
          /\ t.block[11] = Arg(36)
          /\ t.block[12] = Arg(40)
      BY <2>2
    <3>2. /\ ItemsAt(t, p, 1, t.block[Spot(p, 1)], t.block[Spot(p, 1) + 1])
          /\ ItemsAt(t, p, 2, t.block[Spot(p, 2)], t.block[Spot(p, 2) + 1])
          /\ ItemsAt(t, p, 3, t.block[Spot(p, 3)], t.block[Spot(p, 3) + 1])
          /\ ItemsAt(t, p, 4, t.block[Spot(p, 4)], t.block[Spot(p, 4) + 1])
          /\ ItemsAt(t, p, 5, t.block[Spot(p, 5)], t.block[Spot(p, 5) + 1])
          /\ ItemsAt(t, p, 6, t.block[Spot(p, 6)], t.block[Spot(p, 6) + 1])
          /\ ItemsAt(t, p, 7, t.block[Spot(p, 7)], t.block[Spot(p, 7) + 1])
          /\ ItemsAt(t, p, 8, t.block[Spot(p, 8)], t.block[Spot(p, 8) + 1])
          /\ ItemsAt(t, p, 9, t.block[Spot(p, 9)], t.block[Spot(p, 9) + 1])
      BY <2>4, <2>5, <3>1
    <3>3. \A j \in 1 .. 9 : ItemsAt(t, p, j, t.block[Spot(p, j)], t.block[Spot(p, j) + 1])
      BY <3>2
    <3>4. Len(t.block) = 12 /\ DOMAIN t.block = 1 .. 12
      BY <2>2
    <3>5. DOMAIN p.args = 1 .. 9 /\ Spot(p, Len(p.args) + 1) - 1 = 12
      BY <2>1, <2>5 DEF Prototype
    <3>6. 9 \notin Wide(p)
      BY <2>1
    <3>7. \A j \in 1 .. 9 : Within(t, p, j)
      BY <2>5, <3>4, <3>6 DEF Within
    <3> QED
      BY <3>3, <3>4, <3>5, <3>7 DEF InOrder
  <2> QED
    BY <2>1, <2>3, <2>6 DEF Delivers, t, p
<1>26. Delivers(findduphvpb, Interface!findduphvpb)
  <2> DEFINE t == findduphvpb  p == Interface!findduphvpb
  <2>1. /\ Prototype(p) /\ Len(p.args) = 2 /\ t.via = "far" /\ t.loads = <<>>
        /\ Wide(p) = {2}
    BY DEF Prototype, Wide, findduphvpb, Interface!findduphvpb
  <2>2. t.block = <<Arg(8), SS, Local(2)>>
    BY DEF findduphvpb
  <2>3. LoadsParms(t) /\ \A l \in Range(t.loads) : FALSE
    BY <2>1 DEF LoadsParms, Range
  <2>4. /\ ItemsAt(t, p, 1, Arg(8), SS)
        /\ ItemsAt(t, p, 2, SS, Local(2))
    BY Items DEF ItemsAt, IsWord, InRegister, findduphvpb, Interface!findduphvpb
  <2> HIDE DEF t, p
  <2>5. /\ Spot(p, 1) = 1
        /\ Spot(p, 2) = 2
        /\ Spot(p, 3) = 4
    <3>1. /\ Spot(p, 1) = 1
          /\ \A j \in 1 .. 2 : Spot(p, j + 1) = Spot(p, j) + 1 + One(j \in Wide(p))
      BY <2>1, SpotStep
    <3>2. Spot(p, 1) = 1 /\ \A j \in 1 .. 2 : Spot(p, j + 1) = Spot(p, j) + IF j \in {2} THEN 2 ELSE 1
      BY <2>1, <3>1 DEF One
    <3> QED
      BY <3>2
  <2>6. InOrder(t, p)
    BY <2>1, <2>2, <2>4, <2>5, Items DEF InOrder, Within, Prototype
  <2> QED
    BY <2>1, <2>3, <2>6 DEF Delivers, t, p
<1>27. Delivers(getvolparm, Interface!getvolparm)
  <2> DEFINE t == getvolparm  p == Interface!getvolparm
  <2>1. /\ Prototype(p) /\ Len(p.args) = 3 /\ t.via = "far" /\ t.loads = <<>>
        /\ Wide(p) = {2, 3}
    BY DEF Prototype, Wide, getvolparm, Interface!getvolparm
  <2>2. t.block = <<Arg(8), SS, Local(4), SS, Local(8)>>
    BY DEF getvolparm
  <2>3. LoadsParms(t) /\ \A l \in Range(t.loads) : FALSE
    BY <2>1 DEF LoadsParms, Range
  <2>4. /\ ItemsAt(t, p, 1, Arg(8), SS)
        /\ ItemsAt(t, p, 2, SS, Local(4))
        /\ ItemsAt(t, p, 3, SS, Local(8))
    BY Items DEF ItemsAt, IsWord, InRegister, getvolparm, Interface!getvolparm
  <2> HIDE DEF t, p
  <2>5. /\ Spot(p, 1) = 1
        /\ Spot(p, 2) = 2
        /\ Spot(p, 3) = 4
        /\ Spot(p, 4) = 6
    <3>1. /\ Spot(p, 1) = 1
          /\ \A j \in 1 .. 3 : Spot(p, j + 1) = Spot(p, j) + 1 + One(j \in Wide(p))
      BY <2>1, SpotStep
    <3>2. Spot(p, 1) = 1 /\ \A j \in 1 .. 3 : Spot(p, j + 1) = Spot(p, j) + IF j \in {2, 3} THEN 2 ELSE 1
      BY <2>1, <3>1 DEF One
    <3> QED
      BY <3>2
  <2>6. InOrder(t, p)
    BY <2>1, <2>2, <2>4, <2>5, Items DEF InOrder, Within, Prototype
  <2> QED
    BY <2>1, <2>3, <2>6 DEF Delivers, t, p
<1>28. Delivers(qsysinfo, Interface!qsysinfo)
  <2> DEFINE t == qsysinfo  p == Interface!qsysinfo
  <2>1. /\ Prototype(p) /\ Len(p.args) = 2 /\ t.via = "far" /\ t.loads = <<>>
        /\ Wide(p) = {2}
    BY DEF Prototype, Wide, qsysinfo, Interface!qsysinfo
  <2>2. t.block = <<Arg(8), SS, Local(6), Size(6)>>
    BY DEF qsysinfo
  <2>3. LoadsParms(t) /\ \A l \in Range(t.loads) : FALSE
    BY <2>1 DEF LoadsParms, Range
  <2>4. /\ ItemsAt(t, p, 1, Arg(8), SS)
        /\ ItemsAt(t, p, 2, SS, Local(6))
    BY Items DEF ItemsAt, IsWord, InRegister, qsysinfo, Interface!qsysinfo
  <2> HIDE DEF t, p
  <2>5. /\ Spot(p, 1) = 1
        /\ Spot(p, 2) = 2
        /\ Spot(p, 3) = 4
    <3>1. /\ Spot(p, 1) = 1
          /\ \A j \in 1 .. 2 : Spot(p, j + 1) = Spot(p, j) + 1 + One(j \in Wide(p))
      BY <2>1, SpotStep
    <3>2. Spot(p, 1) = 1 /\ \A j \in 1 .. 2 : Spot(p, j + 1) = Spot(p, j) + IF j \in {2} THEN 2 ELSE 1
      BY <2>1, <3>1 DEF One
    <3> QED
      BY <3>2
  <2>6. InOrder(t, p)
    BY <2>1, <2>2, <2>4, <2>5, Items DEF InOrder, Within, Prototype
  <2> QED
    BY <2>1, <2>3, <2>6 DEF Delivers, t, p
<1>29. Delivers(segalloc, Interface!segalloc)
  <2> DEFINE t == segalloc  p == Interface!segalloc
  <2>1. /\ Prototype(p) /\ Len(p.args) = 3 /\ t.via = "far" /\ t.loads = <<>>
        /\ Wide(p) = {2, 3}
    BY DEF Prototype, Wide, segalloc, Interface!segalloc
  <2>2. t.block = <<Arg(8), Arg(14), Arg(12), SS, Local(4)>>
    BY DEF segalloc
  <2>3. LoadsParms(t) /\ \A l \in Range(t.loads) : FALSE
    BY <2>1 DEF LoadsParms, Range
  <2>4. /\ ItemsAt(t, p, 1, Arg(8), Arg(14))
        /\ ItemsAt(t, p, 2, Arg(14), Arg(12))
        /\ ItemsAt(t, p, 3, SS, Local(4))
    BY Items DEF ItemsAt, IsWord, InRegister, segalloc, Interface!segalloc
  <2> HIDE DEF t, p
  <2>5. /\ Spot(p, 1) = 1
        /\ Spot(p, 2) = 2
        /\ Spot(p, 3) = 4
        /\ Spot(p, 4) = 6
    <3>1. /\ Spot(p, 1) = 1
          /\ \A j \in 1 .. 3 : Spot(p, j + 1) = Spot(p, j) + 1 + One(j \in Wide(p))
      BY <2>1, SpotStep
    <3>2. Spot(p, 1) = 1 /\ \A j \in 1 .. 3 : Spot(p, j + 1) = Spot(p, j) + IF j \in {2, 3} THEN 2 ELSE 1
      BY <2>1, <3>1 DEF One
    <3> QED
      BY <3>2
  <2>6. InOrder(t, p)
    BY <2>1, <2>2, <2>4, <2>5, Items DEF InOrder, Within, Prototype
  <2> QED
    BY <2>1, <2>3, <2>6 DEF Delivers, t, p
<1>30. Delivers(ioboost, Interface!ioboost)
  <2> DEFINE t == ioboost  p == Interface!ioboost
  <2>1. /\ Prototype(p) /\ Len(p.args) = 0 /\ t.via = "far" /\ t.loads = <<>>
        /\ Wide(p) = {}
    BY DEF Prototype, Wide, ioboost, Interface!ioboost
  <2>2. t.block = <<>>
    BY DEF ioboost
  <2>3. LoadsParms(t) /\ \A l \in Range(t.loads) : FALSE
    BY <2>1 DEF LoadsParms, Range
  <2> HIDE DEF t, p
  <2>4. /\ Spot(p, 1) = 1
    <3>1. /\ Spot(p, 1) = 1
          /\ \A j \in 1 .. 0 : Spot(p, j + 1) = Spot(p, j) + 1 + One(j \in Wide(p))
      BY <2>1, SpotStep
    <3>2. Spot(p, 1) = 1 /\ \A j \in 1 .. 0 : Spot(p, j + 1) = Spot(p, j) + IF j \in {} THEN 2 ELSE 1
      BY <2>1, <3>1 DEF One
    <3> QED
      BY <3>2
  <2>5. InOrder(t, p)
    BY <2>1, <2>2, <2>4, Items DEF InOrder, Within, Prototype
  <2> QED
    BY <2>1, <2>3, <2>5 DEF Delivers, t, p
<1>31. Delivers(removeshare, Interface!removeshare)
  <2> DEFINE t == removeshare  p == Interface!removeshare
  <2>1. /\ Prototype(p) /\ Len(p.args) = 1 /\ t.via = "far" /\ t.loads = <<>>
        /\ Wide(p) = {1}
    BY DEF Prototype, Wide, removeshare, Interface!removeshare
  <2>2. t.block = <<High("eax"), Low("eax")>>
    BY DEF removeshare
  <2>3. LoadsParms(t) /\ \A l \in Range(t.loads) : FALSE
    BY <2>1 DEF LoadsParms, Range
  <2>4. /\ ItemsAt(t, p, 1, High("eax"), Low("eax"))
    BY Items DEF ItemsAt, IsWord, InRegister, removeshare, Interface!removeshare
  <2> HIDE DEF t, p
  <2>5. /\ Spot(p, 1) = 1
        /\ Spot(p, 2) = 3
    <3>1. /\ Spot(p, 1) = 1
          /\ \A j \in 1 .. 1 : Spot(p, j + 1) = Spot(p, j) + 1 + One(j \in Wide(p))
      BY <2>1, SpotStep
    <3>2. Spot(p, 1) = 1 /\ \A j \in 1 .. 1 : Spot(p, j + 1) = Spot(p, j) + IF j \in {1} THEN 2 ELSE 1
      BY <2>1, <3>1 DEF One
    <3> QED
      BY <3>2
  <2>6. InOrder(t, p)
    BY <2>1, <2>2, <2>4, <2>5, Items DEF InOrder, Within, Prototype
  <2> QED
    BY <2>1, <2>3, <2>6 DEF Delivers, t, p
<1>32. Delivers(forcenoswap, Interface!forcenoswap)
  <2> DEFINE t == forcenoswap  p == Interface!forcenoswap
  <2>1. /\ Prototype(p) /\ Len(p.args) = 1 /\ t.via = "far" /\ t.loads = <<>>
        /\ Wide(p) = {}
    BY DEF Prototype, Wide, forcenoswap, Interface!forcenoswap
  <2>2. t.block = <<Low("eax")>>
    BY DEF forcenoswap
  <2>3. LoadsParms(t) /\ \A l \in Range(t.loads) : FALSE
    BY <2>1 DEF LoadsParms, Range
  <2>4. /\ ItemsAt(t, p, 1, Low("eax"), t.block[2])
    BY Items DEF ItemsAt, IsWord, InRegister, forcenoswap, Interface!forcenoswap
  <2> HIDE DEF t, p
  <2>5. /\ Spot(p, 1) = 1
        /\ Spot(p, 2) = 2
    <3>1. /\ Spot(p, 1) = 1
          /\ \A j \in 1 .. 1 : Spot(p, j + 1) = Spot(p, j) + 1 + One(j \in Wide(p))
      BY <2>1, SpotStep
    <3>2. Spot(p, 1) = 1 /\ \A j \in 1 .. 1 : Spot(p, j + 1) = Spot(p, j) + IF j \in {} THEN 2 ELSE 1
      BY <2>1, <3>1 DEF One
    <3> QED
      BY <3>2
  <2>6. InOrder(t, p)
    BY <2>1, <2>2, <2>4, <2>5, Items DEF InOrder, Within, Prototype
  <2> QED
    BY <2>1, <2>3, <2>6 DEF Delivers, t, p
<1>33. Delivers(setvolume, Interface!setvolume)
  <2> DEFINE t == setvolume  p == Interface!setvolume
  <2>1. /\ Prototype(p) /\ Len(p.args) = 2 /\ t.via = "far" /\ t.loads = <<>>
        /\ Wide(p) = {2}
    BY DEF Prototype, Wide, setvolume, Interface!setvolume
  <2>2. t.block = <<Low("eax"), High("edx"), Low("edx")>>
    BY DEF setvolume
  <2>3. LoadsParms(t) /\ \A l \in Range(t.loads) : FALSE
    BY <2>1 DEF LoadsParms, Range
  <2>4. /\ ItemsAt(t, p, 1, Low("eax"), High("edx"))
        /\ ItemsAt(t, p, 2, High("edx"), Low("edx"))
    BY Items DEF ItemsAt, IsWord, InRegister, setvolume, Interface!setvolume
  <2> HIDE DEF t, p
  <2>5. /\ Spot(p, 1) = 1
        /\ Spot(p, 2) = 2
        /\ Spot(p, 3) = 4
    <3>1. /\ Spot(p, 1) = 1
          /\ \A j \in 1 .. 2 : Spot(p, j + 1) = Spot(p, j) + 1 + One(j \in Wide(p))
      BY <2>1, SpotStep
    <3>2. Spot(p, 1) = 1 /\ \A j \in 1 .. 2 : Spot(p, j + 1) = Spot(p, j) + IF j \in {2} THEN 2 ELSE 1
      BY <2>1, <3>1 DEF One
    <3> QED
      BY <3>2
  <2>6. InOrder(t, p)
    BY <2>1, <2>2, <2>4, <2>5, Items DEF InOrder, Within, Prototype
  <2> QED
    BY <2>1, <2>3, <2>6 DEF Delivers, t, p
<1>34. Compiled.via = "none"
  BY DEF Compiled
<1> HIDE DEF Thunk, DevHlp, Fsh, In, InLow, InReg, EventSem, Interface!System, Interface!Optlink
<1> QED
  BY SMTT(60), <1>1, <1>2, <1>3, <1>4, <1>5, <1>6, <1>7, <1>8, <1>9, <1>10, <1>11, <1>12, <1>13, <1>14, <1>15, <1>16, <1>17, <1>18, <1>19, <1>20, <1>21, <1>22, <1>23, <1>24, <1>25, <1>26, <1>27, <1>28, <1>29, <1>30, <1>31, <1>32, <1>33, <1>34
  DEF Description, Interface!Declared

----------------------------------------------------------------------------
(* What the entry points and the kernel are called with.                    *)

\* The address that a 32-bit routine is passed is that of its own block.
LEMMA BlockReceived ==
  ASSUME IInv
  PROVE  ReceivesItsBlock
<1> DEFINE c == Current
           m == Len(c.found)
           w == BlockWords(c.entry)
           rest == SubSeq(stack, 1, Len(stack) - 4)
<1> SUFFICES ASSUME pc = "handling"
             PROVE  stack[Last(rest).value] = Word("parm", Depth, 0)
  BY DEF ReceivesItsBlock, Popped
<1>1. c \in EntryCall /\ EntryAt(c, Depth, Here) /\ stack \in Seq(WordSet)
  BY AtEntry DEF EntryPlaces, IInv, TypeOK
<1>2. m \in Nat /\ w \in Nat \ {0}
  BY <1>1, EntryTyped
<1> HIDE DEF c, m, w
<1>3. /\ Len(stack) = m + (w + 11) /\ stack[m + w] = Word("parm", Depth, 0)
      /\ stack[m + w + 7].value = m + w
  BY <1>1 DEF EntryAt, Here, Stands, Grown, m, w
<1>4. Len(stack) - 4 = m + w + 7 /\ Len(stack) - 4 \in 0 .. Len(stack)
  BY <1>2, <1>3
<1>5. Len(rest) = Len(stack) - 4 /\ \A i \in 1 .. Len(stack) - 4 : rest[i] = stack[i]
  BY <1>1, <1>4, Popping
<1> HIDE DEF rest
<1>6. Last(rest) = rest[Len(rest)]
  BY DEF Last
<1>7. Last(rest) = stack[m + w + 7]
  BY <1>2, <1>4, <1>5, <1>6
<1> QED
  BY <1>3, <1>7

\* A register of _Optlink holds its parameter when the call begins.
LEMMA RegisterGiven ==
  ASSUME NEW p, NEW r, NEW j \in {1, 2}, InRegister(p, r, j), NEW n
  PROVE  /\ r \in Registers
         /\ RegsAtCall(p, n)[r] = <<Word("arg", n, 2 * j), Word("arg", n, 2 * j + 1)>>
<1>1. CASE r = "eax"
  BY <1>1 DEF InRegister, RegsAtCall, Words, Registers
<1>2. CASE r = "edx"
  BY <1>2 DEF InRegister, RegsAtCall, Words, Registers
<1> QED
  BY <1>1, <1>2 DEF InRegister

\* An item that stands for a word of the parameters passes this word.
LEMMA IsWordPassed ==
  ASSUME NEW t, NEW p, NEW w, NEW v, IsWord(t, p, w, v), NEW n
  PROVE  BlockPassed(t, n, w, RegsAtCall(p, n)) = Word("arg", n, v)
<1>1. CASE w.from = "arg" /\ (w.off \div 2) - Shift(t) = v
  BY <1>1 DEF BlockPassed, Parm
<1>2. CASE w.from = "low" /\ \E j \in {1, 2} : InRegister(p, w.reg, j) /\ v = 2 * j
  BY <1>2, RegisterGiven DEF BlockPassed
<1>3. CASE w.from = "high" /\ \E j \in {1, 2} : InRegister(p, w.reg, j) /\ v = 2 * j + 1
  BY <1>3, RegisterGiven DEF BlockPassed
<1> QED
  BY <1>1, <1>2, <1>3 DEF IsWord

\* A parameter's place in the prototype is its spot in the block.
LEMMA PlaceIsSpot ==
  ASSUME Prototype(asked), NEW j \in 1 .. Len(asked.args) + 1
  PROVE  BlockPlace(j) = Spot(asked, j)
<1>1. /\ Len(asked.args) \in Nat /\ DOMAIN asked.args = 1 .. Len(asked.args)
  BY DEF Prototype
<1>2. \A i : i \in 1 .. j - 1 <=> i \in DOMAIN asked.args /\ i <= j - 1
  BY <1>1
<1>3. {i \in 1 .. j - 1 : asked.args[i] # Interface!Short} = {i \in Wide(asked) : i <= j - 1}
  BY <1>2 DEF Wide
<1> QED
  BY <1>3 DEF BlockPlace, Spot, Rank

\* A word of a parameter that is loaded, or passed in a register that is kept.
LEMMA WordDelivered ==
  ASSUME IInv, pc = "in_kernel", Current.stage = 1, LoadsParms(thunk), NEW v,
         WordLoaded(thunk, v)
  PROVE  \E l \in Range(thunk.loads) : Word("arg", Depth, v) \in Range(regs[l.reg])
<1> DEFINE t == thunk
           n == Depth
           given == RegsAtCall(asked, n)
<1>1. pc \in Thunk32Steps
  BY DEF Thunk32Steps
<1>2. \A l \in Range(t.loads) : regs[l.reg] = LoadPassed(t, n, l, given)
  BY <1>1, AtThunk, ThunkTyped DEF ThunkAt, DeliveredAt, Here, Stands
<1>3. PICK l \in Range(t.loads) :
        \/ l.from \in {"stack", "stack16"} /\ (l.off \div 2) - Shift(t) = v
        \/ l.from = "stack" /\ ((l.off + 2) \div 2) - Shift(t) = v
  BY DEF WordLoaded
<1>4. regs[l.reg] = LoadPassed(t, n, l, given)
  BY <1>2
<1> HIDE DEF t, n, given
<1>5. \A a, b : a \in Range(<<a, b>>) /\ b \in Range(<<a, b>>)
  BY DEF Range
<1>6. CASE l.from = "stack"
  <2>1. regs[l.reg] = <<Parm(t, n, l.off), Parm(t, n, l.off + 2)>>
    BY <1>4, <1>6 DEF LoadPassed
  <2>2. Word("arg", n, v) = Parm(t, n, l.off) \/ Word("arg", n, v) = Parm(t, n, l.off + 2)
    BY <1>3 DEF Parm
  <2> QED
    BY <1>5, <2>1, <2>2 DEF t, n
<1>7. CASE l.from = "stack16"
  <2>1. regs[l.reg] = <<Parm(t, n, l.off), given[l.reg][2]>>
    BY <1>4, <1>7 DEF LoadPassed
  <2>2. Word("arg", n, v) = Parm(t, n, l.off)
    BY <1>3, <1>7 DEF Parm
  <2> QED
    BY <1>5, <2>1, <2>2 DEF t, n
<1> QED
  BY <1>3, <1>6, <1>7

\* A parameter in a register that the thunk does not load is still there.
LEMMA RegisterKept ==
  ASSUME IInv, pc = "in_kernel", Current.stage = 1, LoadsParms(thunk), NEW j \in {1, 2},
         Kept(thunk, asked, j)
  PROVE  /\ asked.optlink
         /\ \E r \in {"eax", "edx"} : {Word("arg", Depth, 2 * j), Word("arg", Depth, 2 * j + 1)}
                                        \subseteq Range(regs[r])
<1>1. pc \in Thunk32Steps
  BY DEF Thunk32Steps
<1>2. \A r \in Registers : (\A l \in Range(thunk.loads) : l.reg # r) =>
        regs[r] = RegsAtCall(asked, Depth)[r]
  BY <1>1, AtThunk, ThunkTyped DEF ThunkAt, DeliveredAt, Here, Stands
<1>3. PICK r \in {"eax", "edx"} :
        InRegister(asked, r, j) /\ \A l \in Range(thunk.loads) : l.reg # r
  BY DEF Kept
<1>4. regs[r] = <<Word("arg", Depth, 2 * j), Word("arg", Depth, 2 * j + 1)>>
  <2>1. r \in Registers /\ RegsAtCall(asked, Depth)[r]
          = <<Word("arg", Depth, 2 * j), Word("arg", Depth, 2 * j + 1)>>
    BY <1>3, RegisterGiven
  <2> QED
    BY <1>2, <1>3, <2>1
<1>5. \A a, b : {a, b} \subseteq Range(<<a, b>>)
  BY DEF Range
<1>6. asked.optlink
  BY <1>3 DEF InRegister
<1> QED
  BY <1>4, <1>5, <1>6

\* A call of any routine but the one whose offsets forget a push.
Counts == Current.called # "ResetEventSem"

\* Such a call's thunk delivers the parameters.
LEMMA Delivering ==
  ASSUME IInv, pc = "in_kernel", Counts
  PROVE  Delivers(thunk, asked)
<1>1. pc \in Thunk32Steps
  BY DEF Thunk32Steps
<1>2. thunk.via # "none"
  BY <1>1, AtThunk, ThunkTyped DEF ThunkAt, DeliveredAt, Here, Stands
<1> QED
  BY <1>1, <1>2, ThunkTyped, DescriptionsDeliver DEF Counts

\* The block on the stack is that of the 16-bit prototype.
LEMMA BlockInOrder ==
  ASSUME IInv, pc = "in_kernel", Counts, thunk.via = "far"
  PROVE  BlockIsPrototype
<1> DEFINE t == thunk
           p == asked
           given == RegsAtCall(asked, Depth)
           used == Spot(p, Len(p.args) + 1) - 1
<1>1. Prototype(p) /\ InOrder(t, p)
  BY Delivering DEF Delivers
<1>2. /\ Len(PassedBlock) = Len(t.block) /\ DOMAIN PassedBlock = 1 .. Len(t.block)
      /\ \A i \in 1 .. Len(t.block) : PassedBlock[i] = BlockPassed(t, Depth, t.block[i], given)
  BY BlockPlaced
<1>3. DOMAIN t.block = 1 .. Len(t.block)
  <2>1. Sound(t, p)
    BY ThunkTyped DEF Thunk32Steps
  <2> QED
    BY <2>1 DEF Sound, Pushable
<1>4. /\ Len(p.args) \in Nat /\ DOMAIN p.args = 1 .. Len(p.args)
      /\ \A j \in DOMAIN p.args : p.args[j] \in {Interface!Short, Interface!Long, Interface!Answer}
  BY <1>1 DEF Prototype
<1>5. \A j \in DOMAIN p.args : BlockPlace(j) = Spot(p, j)
  BY <1>1, <1>4, PlaceIsSpot
<1>6. BlockPlace(Len(p.args) + 1) - 1 = used
  BY <1>1, <1>4, PlaceIsSpot
<1>7. /\ Len(t.block) >= used
      /\ \A i \in DOMAIN t.block : i > used => t.block[i].from = "size"
      /\ \A j \in DOMAIN p.args : Within(t, p, j)
      /\ \A j \in DOMAIN p.args :
           ItemsAt(t, p, j, t.block[Spot(p, j)], t.block[Spot(p, j) + 1])
  BY <1>1 DEF InOrder
<1> HIDE DEF t, p, given, used
<1>8. \A i \in DOMAIN PassedBlock : i > used => PassedBlock[i].holds = "size"
  <2>1. \A w : w.from = "size" => BlockPassed(t, Depth, w, given).holds = "size"
    BY DEF BlockPassed, Word
  <2> QED
    BY <1>2, <1>3, <1>7, <2>1
<1>9. ASSUME NEW j \in DOMAIN p.args
      PROVE  LET first == PassedBlock[BlockPlace(j)]
                 second == PassedBlock[BlockPlace(j) + 1]
             IN  CASE p.args[j] = Interface!Short -> first = Word("arg", Depth, 2 * j)
                   [] p.args[j] = Interface!Long  -> <<second, first>> = Words("arg", Depth, j)
                   [] OTHER -> first.holds = "ss" /\ second.holds = "local_at"
  <2> DEFINE a == t.block[Spot(p, j)]
             b == t.block[Spot(p, j) + 1]
  <2>1. BlockPlace(j) = Spot(p, j) /\ Within(t, p, j) /\ ItemsAt(t, p, j, a, b)
    BY <1>5, <1>7
  <2>2. PassedBlock[BlockPlace(j)] = BlockPassed(t, Depth, a, given)
    BY <1>2, <1>3, <2>1 DEF Within
  <2>3. p.args[j] # Interface!Short =>
          PassedBlock[BlockPlace(j) + 1] = BlockPassed(t, Depth, b, given)
    BY <1>2, <1>3, <2>1 DEF Within, Wide
  <2> HIDE DEF a, b
  <2>4. CASE p.args[j] = Interface!Short
    <3>1. IsWord(t, p, a, 2 * j)
      BY <2>1, <2>4 DEF ItemsAt
    <3>2. BlockPassed(t, Depth, a, given) = Word("arg", Depth, 2 * j)
      BY <3>1, IsWordPassed DEF given, p
    <3>3. Interface!Short # Interface!Long
      BY DEF Interface!Long, Interface!Short
    <3> QED
      BY <2>2, <2>4, <3>2, <3>3
  <2>5. CASE p.args[j] = Interface!Long
    <3>1. IsWord(t, p, b, 2 * j) /\ IsWord(t, p, a, 2 * j + 1)
      BY <2>1, <2>5 DEF ItemsAt
    <3>2. Interface!Long # Interface!Short
      BY DEF Interface!Long, Interface!Short
    <3>3. /\ BlockPassed(t, Depth, b, given) = Word("arg", Depth, 2 * j)
          /\ BlockPassed(t, Depth, a, given) = Word("arg", Depth, 2 * j + 1)
      BY <3>1, IsWordPassed DEF given, p
    <3> QED
      BY <2>2, <2>3, <2>5, <3>2, <3>3 DEF Words
  <2>6. CASE p.args[j] = Interface!Answer
    <3>1. a.from = "ss" /\ b.from = "local"
      BY <2>1, <2>6 DEF ItemsAt
    <3>2. Interface!Answer # Interface!Short /\ Interface!Answer # Interface!Long
      BY DEF Interface!Answer, Interface!Long, Interface!Short
    <3>3. /\ BlockPassed(t, Depth, a, given).holds = "ss"
          /\ BlockPassed(t, Depth, b, given).holds = "local_at"
      BY <3>1 DEF BlockPassed, Word
    <3> QED
      BY <2>2, <2>3, <2>6, <3>2, <3>3
  <2> QED
    BY <1>4, <2>4, <2>5, <2>6
<1> QED
  BY <1>2, <1>6, <1>7, <1>8, <1>9 DEF BlockIsPrototype, p, used

\* The words that a parameter consists of.
LEMMA GivenWords ==
  ASSUME Prototype(asked), NEW j \in DOMAIN asked.args, NEW w \in Given(j)
  PROVE  /\ asked.args[j] # Interface!Answer
         /\ \/ w = Word("arg", Depth, 2 * j)
            \/ asked.args[j] = Interface!Long /\ w = Word("arg", Depth, 2 * j + 1)
<1>1. asked.args[j] \in {Interface!Short, Interface!Long, Interface!Answer} /\ j \in Int
  BY DEF Prototype
<1>2. PICK h \in 0 .. (asked.args[j] \div 2) - 1 : w = Word("arg", Depth, 2 * j + h)
  BY DEF Given
<1>3. CASE asked.args[j] = Interface!Short
  <2>1. h = 0
    BY <1>2, <1>3 DEF Interface!Short
  <2> QED
    BY <1>1, <1>2, <1>3, <2>1 DEF Interface!Short, Interface!Answer
<1>4. CASE asked.args[j] = Interface!Long
  <2>1. h = 0 \/ h = 1
    BY <1>2, <1>4 DEF Interface!Long
  <2> QED
    BY <1>1, <1>2, <1>4, <2>1 DEF Interface!Long, Interface!Answer
<1>5. CASE asked.args[j] = Interface!Answer
  BY <1>2, <1>5 DEF Interface!Answer
<1> QED
  BY <1>1, <1>3, <1>4, <1>5

\* In a block that is in order each parameter lies where it belongs.
LEMMA GivenInBlock ==
  ASSUME IInv, pc = "in_kernel", Counts, thunk.via = "far",
         NEW j \in DOMAIN asked.args, NEW w \in Given(j)
  PROVE  w \in Range(PassedBlock)
<1> DEFINE t == thunk
           p == asked
           first == PassedBlock[BlockPlace(j)]
           second == PassedBlock[BlockPlace(j) + 1]
<1>1. Prototype(p) /\ InOrder(t, p)
  BY Delivering DEF Delivers
<1>2. Within(t, p, j)
  BY <1>1 DEF InOrder
<1>3. BlockPlace(j) = Spot(p, j)
  <2>1. j \in 1 .. Len(p.args) + 1
    BY <1>1 DEF Prototype
  <2> QED
    BY <1>1, <2>1, PlaceIsSpot
<1>4. DOMAIN PassedBlock = 1 .. Len(t.block) /\ DOMAIN t.block = 1 .. Len(t.block)
  <2>1. Sound(t, p)
    BY ThunkTyped DEF Thunk32Steps
  <2> QED
    BY <2>1, BlockPlaced DEF Sound, Pushable
<1>5. /\ p.args[j] # Interface!Answer
      /\ w = Word("arg", Depth, 2 * j)
           \/ (p.args[j] = Interface!Long /\ w = Word("arg", Depth, 2 * j + 1))
  BY <1>1, GivenWords
<1>6. p.args[j] = Interface!Short \/ p.args[j] = Interface!Long
  BY <1>1, <1>5 DEF Prototype
<1>7. Interface!Short # Interface!Long
  BY DEF Interface!Long, Interface!Short
<1>8. CASE p.args[j] = Interface!Short
  <2>1. first = Word("arg", Depth, 2 * j)
    BY <1>7, <1>8, BlockInOrder DEF BlockIsPrototype
  <2>2. w = first /\ BlockPlace(j) \in DOMAIN PassedBlock
    BY <1>2, <1>3, <1>4, <1>5, <1>7, <1>8, <2>1 DEF Within
  <2> QED
    BY <2>2 DEF Range
<1>9. CASE p.args[j] = Interface!Long
  <2>1. <<second, first>> = Words("arg", Depth, j)
    BY <1>7, <1>9, BlockInOrder DEF BlockIsPrototype
  <2>2. w = second \/ w = first
    BY <1>5, <2>1 DEF Words
  <2>3. BlockPlace(j) \in DOMAIN PassedBlock /\ BlockPlace(j) + 1 \in DOMAIN PassedBlock
    BY <1>2, <1>3, <1>4, <1>7, <1>9 DEF Within, Wide
  <2> QED
    BY <2>2, <2>3 DEF Range
<1> QED
  BY <1>6, <1>8, <1>9

\* Else it is in a register that the kernel reads.
LEMMA GivenInRegisters ==
  ASSUME IInv, pc = "in_kernel", Counts, thunk.via # "far", Current.stage = 1,
         NEW j \in DOMAIN asked.args, NEW w \in Given(j)
  PROVE  \/ \E l \in Range(thunk.loads) : w \in Range(regs[l.reg])
         \/ asked.optlink /\ \E r \in {"eax", "edx"} : w \in Range(regs[r])
<1>1. /\ Prototype(asked) /\ LoadsParms(thunk)
      /\ asked.args[j] # Interface!Answer =>
           WordLoaded(thunk, 2 * j) \/ Kept(thunk, asked, j)
      /\ asked.args[j] = Interface!Long =>
           WordLoaded(thunk, 2 * j + 1) \/ Kept(thunk, asked, j)
  BY Delivering DEF Delivers
<1>2. /\ asked.args[j] # Interface!Answer
      /\ w = Word("arg", Depth, 2 * j)
           \/ (asked.args[j] = Interface!Long /\ w = Word("arg", Depth, 2 * j + 1))
  BY <1>1, GivenWords
<1>3. CASE Kept(thunk, asked, j)
  <2>1. j \in {1, 2}
    BY <1>3 DEF Kept, InRegister
  <2> QED
    BY <1>1, <1>2, <1>3, <2>1, RegisterKept
<1>4. CASE ~Kept(thunk, asked, j)
  BY <1>1, <1>2, <1>4, WordDelivered
<1> QED
  BY <1>3, <1>4

\* A register that is loaded holds a parameter.
LEMMA LoadsAreParameters ==
  ASSUME IInv, pc = "in_kernel", Counts, NEW l \in Range(thunk.loads)
  PROVE  regs[l.reg][1].holds = "arg" /\ regs[l.reg][1].call = Depth
<1> DEFINE t == thunk
           given == RegsAtCall(asked, Depth)
<1>1. pc \in Thunk32Steps
  BY DEF Thunk32Steps
<1>2. /\ LoadsParms(t)
      /\ l.from \in {"stack", "stack16"} \/ InRegister(asked, l.from, 1) \/ InRegister(asked, l.from, 2)
  BY Delivering DEF Delivers
<1>3. Current.stage = 1
  <2>1. Current.stage \in 1 .. Len(t.stores)
    BY <1>1, AtThunk, ThunkTyped DEF ThunkAt, ToldAt
  <2>2. t.loads # <<>>
    BY DEF Range
  <2>3. ~(Len(t.stores) > 1) /\ Len(t.stores) \in Nat
    BY <1>1, <2>2, ThunkTyped DEF Tells, Codes, Sound, Readable
  <2> QED
    BY <2>1, <2>3
<1>4. regs[l.reg] = LoadPassed(t, Depth, l, given)
  BY <1>1, <1>2, <1>3, AtThunk, ThunkTyped DEF ThunkAt, DeliveredAt, Here, Stands
<1> HIDE DEF t, given
<1>5. CASE l.from = "stack"
  BY <1>4, <1>5 DEF LoadPassed, Parm, Word
<1>6. CASE l.from = "stack16"
  BY <1>4, <1>6 DEF LoadPassed, Parm, Word
<1>7. CASE \E j \in {1, 2} : InRegister(asked, l.from, j)
  <2>1. PICK j \in {1, 2} : InRegister(asked, l.from, j)
    BY <1>7
  <2>2. given[l.from] = <<Word("arg", Depth, 2 * j), Word("arg", Depth, 2 * j + 1)>>
    BY <2>1, RegisterGiven DEF given
  <2>3. l.from = "eax" \/ l.from = "edx"
    BY <2>1 DEF InRegister
  <2>4. regs[l.reg] = given[l.from]
    BY <1>4, <2>3 DEF LoadPassed
  <2> QED
    BY <2>2, <2>4 DEF Word
<1> QED
  BY <1>2, <1>5, <1>6, <1>7

\* What the kernel finds when it gets control.
LEMMA KernelCalledRight ==
  ASSUME IInv, pc = "in_kernel", Counts
  PROVE  KernelIsCalledRight
<1> DEFINE loaded == {l.reg : l \in Range(thunk.loads)}
           used == IF asked.optlink THEN loaded \cup {"eax", "edx"} ELSE loaded
           passed == Range(PassedBlock) \cup UNION {Range(regs[r]) : r \in used}
<1> SUFFICES /\ thunk.via = "ds" => ds = FlatDS
             /\ thunk.via = "es" => es = FlatDS
             /\ Current.stage = 1 => \A j \in DOMAIN asked.args : Given(j) \subseteq passed
             /\ \A r \in loaded : regs[r][1].holds = "arg" /\ regs[r][1].call = Depth
             /\ thunk.via = "far" => BlockIsPrototype
  BY DEF KernelIsCalledRight
<1>1. pc \in Thunk32Steps
  BY DEF Thunk32Steps
<1>2. ds = thunk.ds /\ es = thunk.es
  BY <1>1, AtThunk, ThunkTyped DEF ThunkAt, FrameAt, Here, Stands
<1>3. (thunk.via = "ds" => thunk.ds = FlatDS) /\ (thunk.via = "es" => thunk.es = FlatDS)
  BY Delivering DEF Delivers
<1>4. ASSUME Current.stage = 1, NEW j \in DOMAIN asked.args, NEW w \in Given(j)
      PROVE  w \in passed
  <2>1. CASE thunk.via = "far"
    BY <2>1, GivenInBlock
  <2>2. CASE thunk.via # "far"
    <3>1. \/ \E r \in loaded : w \in Range(regs[r])
          \/ asked.optlink /\ \E r \in {"eax", "edx"} : w \in Range(regs[r])
      BY <1>4, <2>2, GivenInRegisters
    <3>2. \E r \in used : w \in Range(regs[r])
      BY <3>1
    <3> QED
      BY <3>2
  <2> QED
    BY <2>1, <2>2
<1>5. \A r \in loaded : regs[r][1].holds = "arg" /\ regs[r][1].call = Depth
  BY LoadsAreParameters
<1>6. thunk.via = "far" => BlockIsPrototype
  BY BlockInOrder
<1> HIDE DEF loaded, used, passed
<1> QED
  BY <1>2, <1>3, <1>4, <1>5, <1>6

\* Nothing else is called than what was asked for.
LEMMA RoutineReached ==
  ASSUME IInv
  PROVE  RoutineIsReached
BY ThunkTyped DEF RoutineIsReached

----------------------------------------------------------------------------
(* The theorems.                                                            *)

\* FILEATTRIBUTE takes fewer words off the stack than the kernel has pushed, if
\* the block of fsd32.h is right: this is the disagreement that the run
\* fs_thunks_fileattribute shows, and no more than this entry point is left out.
SizesAgree == "FILEATTRIBUTE" \notin Entries \cup PagingEntries

\* An entry point of which the sizes agree is called.
LEMMA CallEntryOf ==
  ASSUME SizesAgree, IInv, NEW e \in Entries \cup PagingEntries, CallEntry(e), regs' = regs
  PROVE  IInv'
<1>1. e \in Sized
  BY EntriesAssumption DEF SizesAgree, Sized
<1> QED
  BY <1>1, CallEntryStep

\* Each step of an entry point, of a thunk, and of the kernel keeps the invariant.
LEMMA IInvStep ==
  ASSUME SizesAgree, IInv, [NextCalls]_allVars
  PROVE  IInv'
<1>1. CASE UNCHANGED allVars
  <2>1. /\ calls' = calls /\ pc' = pc /\ stack' = stack /\ ds' = ds /\ es' = es /\ bp' = bp
        /\ regs' = regs
    BY <1>1 DEF allVars, vars
  <2>2. Here' = Here /\ Depth' = Depth
    BY <2>1 DEF Here, Stands, Depth
  <2> QED
    BY <2>1, <2>2 DEF IInv, TypeOK
<1>2. CASE Next /\ UNCHANGED regs
  <2>1. CASE Request
    BY <1>2, <2>1, CallEntryOf DEF Request
  <2>2. CASE PageFault
    BY <1>2, <2>2, CallEntryOf DEF PageFault
  <2>3. CASE thunk_fs
    BY <1>2, <2>3, thunk_fs_Step
  <2>4. CASE handler_returns
    BY <1>2, <2>4, handler_returns_Step
  <2>5. CASE leave
    BY <1>2, <2>5, leave_Step
  <2>6. CASE nothunk_fs
    BY <1>2, <2>6, nothunk_fs_Step
  <2>7. CASE Resume
    BY <1>2, <2>7, Resume_Step
  <2> QED
    BY <1>2, <2>1, <2>2, <2>3, <2>4, <2>5, <2>6, <2>7 DEF Next
<1>3. CASE call_thunk
  BY <1>3, call_thunk_Step
<1>4. CASE push_registers
  BY <1>4, push_registers_Step
<1>5. CASE load_parameters
  BY <1>5, load_parameters_Step
<1>6. CASE kernel_answers
  BY <1>6, kernel_answers_Step
<1>7. CASE store_answers
  BY <1>7, store_answers_Step
<1>8. CASE pop_registers
  BY <1>8, pop_registers_Step
<1>9. CASE resume_handler
  BY <1>9, resume_handler_Step
<1>10. CASE PageFault32
  BY <1>10, CallEntryOf DEF PageFault32
<1> QED
  BY <1>1, <1>2, <1>3, <1>4, <1>5, <1>6, <1>7, <1>8, <1>9, <1>10 DEF NextCalls

\* Whatever calls are open, each finds the state it was promised.
THEOREM CallsFramed ==
  ASSUME SizesAgree
  PROVE  SpecCalls => []IInv
<1>1. InitCalls => IInv
  BY InitStep
<1>2. IInv /\ [NextCalls]_allVars => IInv'
  BY IInvStep
<1> QED
  BY <1>1, <1>2, PTL DEF SpecCalls

\* An entry point that has returned has left no trace.
LEMMA EntryTransparent ==
  ASSUME IInv
  PROVE  CallIsTransparent
<1> SUFFICES ASSUME pc = "returned"
             PROVE  /\ stack = Current.found
                    /\ ds = Current.ds /\ es = Current.es /\ bp = Current.bp
  BY DEF CallIsTransparent
<1>1. EntryAt(Current, Depth, Here)
  BY AtEntry DEF EntryPlaces
<1> QED
  BY <1>1 DEF EntryAt, Here, Stands

\* Nor has a thunk.
LEMMA ServiceTransparent ==
  ASSUME IInv
  PROVE  ServiceIsTransparent
<1> SUFFICES ASSUME pc = "returned32"
             PROVE  /\ stack = Current.found
                    /\ ds = Current.ds /\ es = Current.es /\ bp = Current.bp
                    /\ \A r \in CalleeSaved : regs[r] = RegsAtCall(asked, Depth)[r]
  BY DEF ServiceIsTransparent
<1>1. pc \in Thunk32Steps
  BY DEF Thunk32Steps
<1>2. FrameAt(Current, Depth, Here, regs) /\ asked = Interface!Declared[Current.called]
  BY <1>1, AtThunk, ThunkTyped DEF ThunkAt
<1> QED
  BY <1>2 DEF FrameAt, Here, Stands

\* Neither an entry point nor a thunk leaves a trace in the state of who called
\* it, however deep the calls are nested and whatever the kernel answers.
THEOREM CallsTransparent ==
  ASSUME SizesAgree
  PROVE  SpecCalls => []CallsAreTransparent
<1>1. IInv => CallsAreTransparent
  BY EntryTransparent, ServiceTransparent DEF CallsAreTransparent
<1> QED
  BY <1>1, CallsFramed, PTL

\* Which thunks clear EAX unread, leave it alone, or make nothing of it.
LEMMA ResultsDescribed ==
  ASSUME NEW r \in DOMAIN Description, Description[r].via # "none"
  PROVE  \/ Description[r].result \in Coded
         \/ Description[r].result = "zero" /\ r \in Silent
         \/ Description[r].result = "raw" /\ r \in Unclean
         \/ r \in Interface!NoCode
<1> USE DEF Thunk, DevHlp, Fsh
<1>1. /\ VMAlloc.result = "carry" /\ VMLock.result = "carry" /\ VMUnlock.result = "carry"
      /\ VirtToLin.result = "carry" /\ LinToPageList.result = "carry"
      /\ PageListToLin.result = "carry" /\ GetDosVar.result = "carry"
      /\ GetInfoSegs.result = "carry" /\ AllocOneGDTSelector.result = "carry"
      /\ FreeGDTSelector.result = "carry" /\ AttachToDD.result = "carry"
  BY DEF VMAlloc, VMLock, VMUnlock, VirtToLin, LinToPageList, PageListToLin, GetDosVar,
         GetInfoSegs, AllocOneGDTSelector, FreeGDTSelector, AttachToDD
<1>2. /\ VerifyAccess.result = "carry16" /\ setIRQ.result = "carry16"
      /\ OpenEventSem.result = "carry16" /\ CloseEventSem.result = "carry16"
      /\ PostEventSem.result = "carry16" /\ ResetEventSem.result = "carry16"
      /\ ProcBlock.result = "byte"
  BY DEF VerifyAccess, setIRQ, OpenEventSem, CloseEventSem, PostEventSem, ResetEventSem,
         EventSem, ProcBlock
<1>3. /\ addshare.result = "ax" /\ devioctl.result = "ax" /\ findduphvpb.result = "ax"
      /\ getvolparm.result = "ax" /\ qsysinfo.result = "ax" /\ segalloc.result = "ax"
      /\ setvolume.result = "ax"
  BY DEF addshare, devioctl, findduphvpb, getvolparm, qsysinfo, segalloc, setvolume
<1>4. /\ Security.result = "zero" /\ UnSetIRQ.result = "zero" /\ EOI.result = "zero"
      /\ VMFree.result = "raw" /\ forcenoswap.result = "raw" /\ Compiled.via = "none"
  BY DEF Security, UnSetIRQ, EOI, VMFree, forcenoswap, Compiled
<1> HIDE DEF Thunk, DevHlp, Fsh
<1> QED
  BY <1>1, <1>2, <1>3, <1>4 DEF Description, Coded, Silent, Unclean, Interface!NoCode

\* A thunk's caller reads from EAX what the thunk makes of the kernel's code, and
\* its pointers hold the answers.
LEMMA AnswersTold ==
  ASSUME IInv
  PROVE  AnswerReachesCaller
<1> SUFFICES ASSUME pc = "returned32", thunk.via # "none"
             PROVE  AnswerReachesCaller
  BY DEF AnswerReachesCaller
<1>1. pc \in Thunk32Steps
  BY DEF Thunk32Steps
<1>2. /\ ToldAt(Current, Depth, Here, regs) /\ asked = Interface!Declared[Current.called]
      /\ thunk = Description[Current.entry] /\ Current.called = Current.entry
      /\ Current.called \in Routines /\ Tells(thunk, asked)
  BY <1>1, AtThunk, ThunkTyped DEF ThunkAt, ThunkCall
<1>3. /\ Honest(Current, thunk, regs)
      /\ Current.written = IF Current.ok /\ ~Current.null THEN Complete(asked, Depth)
                           ELSE Earlier(asked, Depth, Current.stage)
  BY <1>2 DEF ToldAt, Here, Stands
<1>4. /\ Complete(asked, Depth) =
           {<<Word("arg", Depth, 2 * j), Rank({k \in DOMAIN asked.args : asked.args[k] = Interface!Answer}, j)>> :
              j \in {k \in DOMAIN asked.args : asked.args[k] = Interface!Answer}}
      /\ Earlier(asked, Depth, Current.stage) =
           {a \in Complete(asked, Depth) : a[2] < Current.stage}
  BY DEF Complete, Earlier, Outputs
<1> DEFINE done == Current.ok /\ ~(Current.null /\ thunk.null = "refused")
<1>5. /\ Current.called \in Interface!ReturnsCode \ Silent => (Said(regs) => done)
      /\ Current.called \in Interface!ReturnsCode \ Unclean => (done => Said(regs))
  <2>1. Current.called \in DOMAIN Description
    BY <1>2, RoutinesAssumption
  <2>2. \/ thunk.result \in Coded
        \/ thunk.result = "zero" /\ Current.called \in Silent
        \/ thunk.result = "raw" /\ Current.called \in Unclean
        \/ Current.called \in Interface!NoCode
    BY <1>2, <2>1, ResultsDescribed
  <2>3. thunk.result # "carry" => thunk.null # "refused"
    BY <1>2 DEF Tells, Codes
  <2>4. CASE thunk.result \in Coded
    BY <1>3, <2>4 DEF Honest
  <2>5. CASE thunk.result = "zero" /\ Current.called \in Silent
    BY <1>3, <2>5 DEF Honest
  <2>6. CASE thunk.result = "raw" /\ Current.called \in Unclean
    BY <1>3, <2>3, <2>6 DEF Honest
  <2>7. CASE Current.called \in Interface!NoCode
    BY <2>7 DEF Interface!ReturnsCode
  <2> QED
    BY <2>2, <2>4, <2>5, <2>6, <2>7
<1> QED
  BY <1>3, <1>4, <1>5 DEF AnswerReachesCaller, Said

\* From the code that a prototype declares the caller learns whether the kernel
\* did what it was asked for: no thunk but Security, UnSetIRQ and EOI reports a
\* refusal as NO_ERROR, and none but VMFree and forcenoswap a success as a
\* failure.  The caller's pointers hold the answers, each its own, exactly after a
\* success; of two conversions the first one's answer remains if the second fails.
THEOREM AnswersReachCaller ==
  ASSUME SizesAgree
  PROVE  SpecCalls => []AnswerReachesCaller
<1>1. IInv => AnswerReachesCaller
  BY AnswersTold
<1> QED
  BY <1>1, CallsFramed, PTL

\* In the kernel the parameters arrive whatever the depth and whatever page
\* faults come between, unless the thunk is the one whose offsets forget a push:
\* that a driver calls ResetEventSem harms no other of its calls.
THEOREM KernelCalledRightElsewhere ==
  ASSUME SizesAgree
  PROVE  SpecCalls => [](pc = "in_kernel" /\ Current.called # "ResetEventSem" => KernelIsCalledRight)
<1>1. IInv => (pc = "in_kernel" /\ Current.called # "ResetEventSem" => KernelIsCalledRight)
  BY KernelCalledRight DEF Counts
<1> QED
  BY <1>1, CallsFramed, PTL

\* A driver that does without ResetEventSem: see the run reset_event_sem.
OffsetsRight == "ResetEventSem" \notin Routines

\* What the caller passes is what arrives: at each 32-bit routine its own block,
\* through the table the routine that was asked for, and in the kernel each
\* parameter that the prototype declares.
THEOREM ParametersAlwaysArrive ==
  ASSUME SizesAgree, OffsetsRight
  PROVE  SpecCalls => []ParametersArrive
<1>1. ASSUME IInv
      PROVE  KernelIsCalledRight
  <2>1. CASE pc = "in_kernel"
    <3>1. Current.called \in Routines
      BY <1>1, <2>1, AtThunk DEF ThunkCall, Thunk32Steps
    <3> QED
      BY <1>1, <2>1, <3>1, KernelCalledRight DEF OffsetsRight, Counts
  <2>2. CASE pc # "in_kernel"
    BY <2>2 DEF KernelIsCalledRight
  <2> QED
    BY <2>1, <2>2
<1>2. IInv => ParametersArrive
  BY <1>1, BlockReceived, RoutineReached DEF ParametersArrive
<1> QED
  BY <1>2, CallsFramed, PTL
=============================================================================
