------------------------ MODULE GdtSelectors_proofs ------------------------
(***************************************************************************)
(* Proofs about the GDT selectors for any number of threads and selectors. *)
(***************************************************************************)
EXTENDS GdtSelectors, FiniteSetTheorems, TLAPS

(* Every variable keeps its type, whatever the kernel answers.             *)
THEOREM TypeCorrect == Spec => []TypeOK
<1> USE DEF AllocSteps, DovolioSteps, Codes
<1>1. Init => TypeOK
  BY MaxCountAssumption DEF Init, TypeOK
<1>2. TypeOK /\ [Next]_vars => TypeOK'
  <2> SUFFICES ASSUME TypeOK, [Next]_vars
               PROVE  TypeOK'
    OBVIOUS
  <2> USE DEF TypeOK, Goto, Code, dovolio
  <2>1. CASE UNCHANGED vars
    BY <2>1 DEF vars
  <2>2. ASSUME NEW c \in Callers, NEW n \in 0..MaxCount,
               call_AllocGDTSelector(c, n)
        PROVE  TypeOK'
    BY <2>2 DEF call_AllocGDTSelector
  <2>3. ASSUME NEW c \in Callers, NEW s \in Selectors, FreeGDTSelector(c, s)
        PROVE  TypeOK'
    BY <2>3 DEF FreeGDTSelector
  <2>4. ASSUME NEW c \in Callers, call_dovolio(c)
        PROVE  TypeOK'
    BY <2>4 DEF call_dovolio
  <2>5. ASSUME NEW c \in Callers, AllocOneGDTSelector(c)
        PROVE  TypeOK'
    BY <2>5 DEF AllocOneGDTSelector
  <2>6. ASSUME NEW c \in Callers, return_AllocGDTSelector(c)
        PROVE  TypeOK'
    BY <2>6 DEF return_AllocGDTSelector
  <2>7. ASSUME NEW c \in Callers, rollback(c)
        PROVE  TypeOK'
    BY <2>7 DEF rollback
  <2>8. ASSUME NEW c \in Callers, dovolio_alloc(c)
        PROVE  TypeOK'
    BY <2>8 DEF dovolio_alloc
  <2>9. ASSUME NEW c \in Callers, dovolio_map(c)
        PROVE  TypeOK'
    BY <2>9 DEF dovolio_map
  <2>10. ASSUME NEW c \in Callers, dovolio_io(c)
         PROVE  TypeOK'
    BY <2>10 DEF dovolio_io
  <2>11. ASSUME NEW c \in Callers, dovolio_free(c)
         PROVE  TypeOK'
    BY <2>11 DEF dovolio_free
  <2> QED
    BY <2>1, <2>2, <2>3, <2>4, <2>5, <2>6, <2>7, <2>8,
       <2>9, <2>10, <2>11
    DEF Next, Running
<1> QED
  BY <1>1, <1>2, PTL DEF Spec
(***************************************************************************)
(* Ownership.  EveryoneHasTheirOwn is not inductive by itself: the release *)
(* at the end of fsh32_dovolio is right only because a call that got past  *)
(* its allocation holds exactly one selector.                              *)
(***************************************************************************)
DovolioHoldsOne ==
  \A c \in Callers :
    /\ pc[c] = "dv_alloc" => got[c] = {}
    /\ pc[c] \in {"dv_map", "dv_io", "dv_free"} =>
         \E s \in Selectors : got[c] = {s}

OwnInv == EveryoneHasTheirOwn /\ DovolioHoldsOne

(* No step of a thread breaks the ownership of selectors.                  *)
LEMMA OwnInvStep == TypeOK /\ OwnInv /\ [Next]_vars => OwnInv'
<1> SUFFICES ASSUME TypeOK, OwnInv, [Next]_vars
             PROVE  OwnInv'
  OBVIOUS
<1> USE DEF TypeOK, OwnInv, EveryoneHasTheirOwn, Holds, DovolioHoldsOne,
            Goto, Code, dovolio
<1>1. EveryoneHasTheirOwn'
  <2>1. CASE UNCHANGED vars
    BY <2>1 DEF vars
  <2>2. ASSUME NEW c \in Callers, NEW n \in 0..MaxCount,
               call_AllocGDTSelector(c, n)
        PROVE  EveryoneHasTheirOwn'
    BY <2>2 DEF call_AllocGDTSelector
  <2>3. ASSUME NEW c \in Callers, NEW s \in Selectors, FreeGDTSelector(c, s)
        PROVE  EveryoneHasTheirOwn'
    BY <2>3 DEF FreeGDTSelector
  <2>4. ASSUME NEW c \in Callers, call_dovolio(c)
        PROVE  EveryoneHasTheirOwn'
    BY <2>4 DEF call_dovolio
  <2>5. ASSUME NEW c \in Callers, AllocOneGDTSelector(c)
        PROVE  EveryoneHasTheirOwn'
    BY <2>5 DEF AllocOneGDTSelector
  <2>6. ASSUME NEW c \in Callers, return_AllocGDTSelector(c)
        PROVE  EveryoneHasTheirOwn'
    BY <2>6 DEF return_AllocGDTSelector
  <2>7. ASSUME NEW c \in Callers, rollback(c)
        PROVE  EveryoneHasTheirOwn'
    BY <2>7 DEF rollback
  <2>8. ASSUME NEW c \in Callers, dovolio_alloc(c)
        PROVE  EveryoneHasTheirOwn'
    BY <2>8 DEF dovolio_alloc
  <2>9. ASSUME NEW c \in Callers, dovolio_map(c)
        PROVE  EveryoneHasTheirOwn'
    BY <2>9 DEF dovolio_map
  <2>10. ASSUME NEW c \in Callers, dovolio_io(c)
        PROVE  EveryoneHasTheirOwn'
    BY <2>10 DEF dovolio_io
  <2>11. ASSUME NEW c \in Callers, dovolio_free(c)
        PROVE  EveryoneHasTheirOwn'
    BY <2>11 DEF dovolio_free
  <2> QED
    BY <2>1, <2>2, <2>3, <2>4, <2>5, <2>6, <2>7, <2>8,
       <2>9, <2>10, <2>11
    DEF Next, Running
<1>2. DovolioHoldsOne'
  <2>1. CASE UNCHANGED vars
    BY <2>1 DEF vars
  <2>2. ASSUME NEW c \in Callers, NEW n \in 0..MaxCount,
               call_AllocGDTSelector(c, n)
        PROVE  DovolioHoldsOne'
    BY <2>2 DEF call_AllocGDTSelector
  <2>3. ASSUME NEW c \in Callers, NEW s \in Selectors, FreeGDTSelector(c, s)
        PROVE  DovolioHoldsOne'
    BY <2>3 DEF FreeGDTSelector
  <2>4. ASSUME NEW c \in Callers, call_dovolio(c)
        PROVE  DovolioHoldsOne'
    BY <2>4 DEF call_dovolio
  <2>5. ASSUME NEW c \in Callers, AllocOneGDTSelector(c)
        PROVE  DovolioHoldsOne'
    BY <2>5 DEF AllocOneGDTSelector
  <2>6. ASSUME NEW c \in Callers, return_AllocGDTSelector(c)
        PROVE  DovolioHoldsOne'
    BY <2>6 DEF return_AllocGDTSelector
  <2>7. ASSUME NEW c \in Callers, rollback(c)
        PROVE  DovolioHoldsOne'
    BY <2>7 DEF rollback
  <2>8. ASSUME NEW c \in Callers, dovolio_alloc(c)
        PROVE  DovolioHoldsOne'
    BY <2>8 DEF dovolio_alloc
  <2>9. ASSUME NEW c \in Callers, dovolio_map(c)
        PROVE  DovolioHoldsOne'
    BY <2>9 DEF dovolio_map
  <2>10. ASSUME NEW c \in Callers, dovolio_io(c)
        PROVE  DovolioHoldsOne'
    BY <2>10 DEF dovolio_io
  <2>11. ASSUME NEW c \in Callers, dovolio_free(c)
        PROVE  DovolioHoldsOne'
    BY <2>11 DEF dovolio_free
  <2> QED
    BY <2>1, <2>2, <2>3, <2>4, <2>5, <2>6, <2>7, <2>8,
       <2>9, <2>10, <2>11
    DEF Next, Running
<1> QED
  BY <1>1, <1>2 DEF OwnInv

(* EveryoneHasTheirOwn: whatever the threads do and whichever DevHelp call *)
(* fails, no selector ever has two owners and none vanishes silently.      *)
THEOREM OwnershipCorrect == Spec => []EveryoneHasTheirOwn
<1>1. Init => OwnInv
  BY DEF Init, OwnInv, EveryoneHasTheirOwn, Holds, DovolioHoldsOne
<1> QED
  BY <1>1, OwnInvStep, TypeCorrect, PTL DEF Spec, OwnInv
(* TransfersOwnBuffer: an I/O never goes through a selector that another   *)
(* thread made to address its own buffer, because no other thread holds it.*)
THEOREM TransfersCorrect == Spec => []TransfersOwnBuffer
<1>1. Init => TransfersOwnBuffer
  BY DEF Init, TransfersOwnBuffer
<1>2. TypeOK /\ OwnInv /\ TransfersOwnBuffer /\ [Next]_vars
        => TransfersOwnBuffer'
  <2> SUFFICES ASSUME TypeOK, OwnInv, TransfersOwnBuffer, [Next]_vars
               PROVE  TransfersOwnBuffer'
    OBVIOUS
  <2> USE DEF TypeOK, TransfersOwnBuffer, Goto, dovolio
  <2>0. \A c, d \in Callers : c # d => got[c] \cap got[d] = {}
    BY DEF OwnInv, EveryoneHasTheirOwn, Holds
  <2>1. CASE UNCHANGED vars
    BY <2>1, <2>0 DEF vars
  <2>2. ASSUME NEW c \in Callers, NEW n \in 0..MaxCount,
               call_AllocGDTSelector(c, n)
        PROVE  TransfersOwnBuffer'
    BY <2>2, <2>0 DEF call_AllocGDTSelector
  <2>3. ASSUME NEW c \in Callers, NEW s \in Selectors, FreeGDTSelector(c, s)
        PROVE  TransfersOwnBuffer'
    BY <2>3, <2>0 DEF FreeGDTSelector
  <2>4. ASSUME NEW c \in Callers, call_dovolio(c)
        PROVE  TransfersOwnBuffer'
    BY <2>4, <2>0 DEF call_dovolio
  <2>5. ASSUME NEW c \in Callers, AllocOneGDTSelector(c)
        PROVE  TransfersOwnBuffer'
    BY <2>5, <2>0 DEF AllocOneGDTSelector
  <2>6. ASSUME NEW c \in Callers, return_AllocGDTSelector(c)
        PROVE  TransfersOwnBuffer'
    BY <2>6, <2>0 DEF return_AllocGDTSelector
  <2>7. ASSUME NEW c \in Callers, rollback(c)
        PROVE  TransfersOwnBuffer'
    BY <2>7, <2>0 DEF rollback
  <2>8. ASSUME NEW c \in Callers, dovolio_alloc(c)
        PROVE  TransfersOwnBuffer'
    BY <2>8, <2>0 DEF dovolio_alloc
  <2>9. ASSUME NEW c \in Callers, dovolio_map(c)
        PROVE  TransfersOwnBuffer'
    <3>1. PICK s \in Selectors : got[c] = {s}
      BY <2>9 DEF dovolio_map, OwnInv, DovolioHoldsOne
    <3>2. CASE maps' = [maps EXCEPT ![s] = {c}]
      BY <2>9, <2>0, <3>1, <3>2 DEF dovolio_map
    <3>3. CASE pc' = [pc EXCEPT ![c] = "dv_free"] /\ maps' = maps
      BY <2>9, <3>3 DEF dovolio_map
    <3> QED
      BY <2>9, <3>1, <3>2, <3>3 DEF dovolio_map
  <2>10. ASSUME NEW c \in Callers, dovolio_io(c)
        PROVE  TransfersOwnBuffer'
    BY <2>10, <2>0 DEF dovolio_io
  <2>11. ASSUME NEW c \in Callers, dovolio_free(c)
        PROVE  TransfersOwnBuffer'
    BY <2>11, <2>0 DEF dovolio_free
  <2> QED
    BY <2>1, <2>2, <2>3, <2>4, <2>5, <2>6, <2>7, <2>8,
       <2>9, <2>10, <2>11
    DEF Next, Running
<1>3. Init => OwnInv
  BY DEF Init, OwnInv, EveryoneHasTheirOwn, Holds, DovolioHoldsOne
<1> QED
  BY <1>1, <1>2, <1>3, OwnInvStep, TypeCorrect, PTL DEF Spec

(* SectorsCountedOnSuccess: by induction together with the fact that at    *)
(* the release of the selector rc = NO_ERROR means that the I/O succeeded. *)
SectorsInv ==
  /\ SectorsCountedOnSuccess
  /\ \A c \in Callers :
       pc[c] = "dv_free" /\ rc[c] = "no_error" => io[c] = "no_error"

(* SectorsCountedOnSuccess: no sectors are counted unless the kernel did   *)
(* the I/O without an error, whatever happened to the mapping and to the   *)
(* selector, and the release of the selector does not hide its error.      *)
THEOREM SectorsCorrect == Spec => []SectorsCountedOnSuccess
<1>1. Init => SectorsInv
  BY DEF Init, SectorsInv, SectorsCountedOnSuccess, DovolioSteps
<1>2. TypeOK /\ SectorsInv /\ [Next]_vars => SectorsInv'
  <2> SUFFICES ASSUME TypeOK, SectorsInv, [Next]_vars
               PROVE  SectorsInv'
    OBVIOUS
  <2> USE DEF TypeOK, SectorsInv, SectorsCountedOnSuccess, DovolioSteps,
              Goto, Code, dovolio
  <2>1. CASE UNCHANGED vars
    BY <2>1 DEF vars
  <2>2. ASSUME NEW c \in Callers, NEW n \in 0..MaxCount,
               call_AllocGDTSelector(c, n)
        PROVE  SectorsInv'
    BY <2>2 DEF call_AllocGDTSelector
  <2>3. ASSUME NEW c \in Callers, NEW s \in Selectors, FreeGDTSelector(c, s)
        PROVE  SectorsInv'
    BY <2>3 DEF FreeGDTSelector
  <2>4. ASSUME NEW c \in Callers, call_dovolio(c)
        PROVE  SectorsInv'
    BY <2>4 DEF call_dovolio
  <2>5. ASSUME NEW c \in Callers, AllocOneGDTSelector(c)
        PROVE  SectorsInv'
    BY <2>5 DEF AllocOneGDTSelector
  <2>6. ASSUME NEW c \in Callers, return_AllocGDTSelector(c)
        PROVE  SectorsInv'
    BY <2>6 DEF return_AllocGDTSelector
  <2>7. ASSUME NEW c \in Callers, rollback(c)
        PROVE  SectorsInv'
    BY <2>7 DEF rollback
  <2>8. ASSUME NEW c \in Callers, dovolio_alloc(c)
        PROVE  SectorsInv'
    BY <2>8 DEF dovolio_alloc
  <2>9. ASSUME NEW c \in Callers, dovolio_map(c)
        PROVE  SectorsInv'
    BY <2>9 DEF dovolio_map
  <2>10. ASSUME NEW c \in Callers, dovolio_io(c)
        PROVE  SectorsInv'
    BY <2>10 DEF dovolio_io
  <2>11. ASSUME NEW c \in Callers, dovolio_free(c)
        PROVE  SectorsInv'
    BY <2>11 DEF dovolio_free
  <2> QED
    BY <2>1, <2>2, <2>3, <2>4, <2>5, <2>6, <2>7, <2>8,
       <2>9, <2>10, <2>11
    DEF Next, Running
<1> QED
  BY <1>1, <1>2, TypeCorrect, PTL DEF Spec, SectorsInv

(***************************************************************************)
(* All or nothing.  The loop never holds more than it was asked for, so    *)
(* that it ends with exactly count selectors.                              *)
(***************************************************************************)
CountInv ==
  \A c \in Callers :
    /\ pc[c] = "alloc" => Cardinality(got[c]) <= count[c] /\ rc[c] = "no_error"
    /\ pc[c] = "rollback" => rc[c] = "error"

(* Every set of selectors is finite, and one selector more makes its       *)
(* cardinality one greater.                                                *)
LEMMA SelectorSets ==
  ASSUME NEW S \in SUBSET Selectors
  PROVE  /\ IsFiniteSet(S)
         /\ Cardinality(S) \in Nat
         /\ \A s \in Selectors \ S :
              Cardinality(S \cup {s}) = Cardinality(S) + 1
         /\ \A T \in SUBSET Selectors : S \cap T = {} =>
              Cardinality(S \cup T) = Cardinality(S) + Cardinality(T)
<1>1. \A T \in SUBSET Selectors : IsFiniteSet(T) /\ Cardinality(T) \in Nat
  BY SelectorsAssumption, FS_Subset, FS_CardinalityType
<1>2. ASSUME NEW T \in SUBSET Selectors, S \cap T = {}
      PROVE  Cardinality(S \cup T) = Cardinality(S) + Cardinality(T)
  <2>1. Cardinality(S \cup T) =
          Cardinality(S) + Cardinality(T) - Cardinality(S \cap T)
    BY <1>1, FS_Union
  <2> QED
    BY <2>1, <1>1, <1>2, FS_EmptySet
<1> QED
  BY <1>1, <1>2, FS_AddElement

(* AllOrNothing: a successful call gives what was asked for, a failed one  *)
(* nothing, however the calls of the threads interleave.                   *)
THEOREM AllocationIsAllOrNothing == Spec => AllOrNothing
<1>1. Init => CountInv
  BY DEF Init, CountInv
<1>2. TypeOK /\ OwnInv /\ CountInv /\ [Next]_vars => CountInv'
  <2> SUFFICES ASSUME TypeOK, OwnInv, CountInv, [Next]_vars
               PROVE  CountInv'
    OBVIOUS
  <2> USE DEF TypeOK, CountInv, Goto, Code, dovolio
  <2>1. CASE UNCHANGED vars
    BY <2>1 DEF vars
  <2>2. ASSUME NEW c \in Callers, NEW n \in 0..MaxCount,
               call_AllocGDTSelector(c, n)
        PROVE  CountInv'
    <3>1. /\ got' = got /\ got[c] = {} /\ count'[c] = n /\ n >= 0
          /\ rc'[c] = "no_error" /\ pc'[c] = "alloc"
      BY <2>2 DEF call_AllocGDTSelector, OwnInv, EveryoneHasTheirOwn
    <3>2. \A d \in Callers : d # c =>
            pc'[d] = pc[d] /\ count'[d] = count[d] /\ rc'[d] = rc[d]
      BY <2>2 DEF call_AllocGDTSelector
    <3>3. Cardinality(got'[c]) <= count'[c]
      BY <3>1, FS_EmptySet
    <3> HIDE DEF TypeOK
    <3> QED
      BY <3>1, <3>2, <3>3
  <2>3. ASSUME NEW c \in Callers, NEW s \in Selectors, FreeGDTSelector(c, s)
        PROVE  CountInv'
    BY <2>3 DEF FreeGDTSelector
  <2>4. ASSUME NEW c \in Callers, call_dovolio(c)
        PROVE  CountInv'
    BY <2>4 DEF call_dovolio
  <2>5. ASSUME NEW c \in Callers, AllocOneGDTSelector(c)
        PROVE  CountInv'
    <3>1. pc[c] = "alloc" /\ count' = count
      BY <2>5 DEF AllocOneGDTSelector
    <3>2. Cardinality(got[c]) \in Nat /\ count[c] \in Nat
      BY SelectorSets
    <3>3. ASSUME NEW s \in free, got' = [got EXCEPT ![c] = @ \cup {s}],
                 pc' = pc, rc' = rc
          PROVE  CountInv'
      <4>1. Cardinality(got'[c]) = Cardinality(got[c]) + 1
        BY <3>3, SelectorSets DEF OwnInv, EveryoneHasTheirOwn, Holds
      <4>2. Cardinality(got[c]) < count[c]
        BY <2>5 DEF AllocOneGDTSelector
      <4>3. Cardinality(got'[c]) <= count[c]
        BY <3>2, <4>1, <4>2
      <4>4. \A d \in Callers : d # c => got'[d] = got[d]
        BY <3>3
      <4> HIDE DEF TypeOK
      <4> QED
        BY <3>1, <3>3, <4>3, <4>4
    <3>4. ASSUME Goto(c, "rollback"), Code(c, "error"), got' = got
          PROVE  CountInv'
      <4>1. /\ pc'[c] = "rollback" /\ rc'[c] = "error"
            /\ \A d \in Callers : d # c => pc'[d] = pc[d] /\ rc'[d] = rc[d]
        BY <3>4
      <4> HIDE DEF TypeOK
      <4> QED
        BY <3>1, <3>4, <4>1
    <3> QED
      BY <2>5, <3>3, <3>4 DEF AllocOneGDTSelector
  <2>6. ASSUME NEW c \in Callers, return_AllocGDTSelector(c)
        PROVE  CountInv'
    BY <2>6 DEF return_AllocGDTSelector
  <2>7. ASSUME NEW c \in Callers, rollback(c)
        PROVE  CountInv'
    BY <2>7 DEF rollback
  <2>8. ASSUME NEW c \in Callers, dovolio_alloc(c)
        PROVE  CountInv'
    BY <2>8 DEF dovolio_alloc
  <2>9. ASSUME NEW c \in Callers, dovolio_map(c)
        PROVE  CountInv'
    BY <2>9 DEF dovolio_map
  <2>10. ASSUME NEW c \in Callers, dovolio_io(c)
        PROVE  CountInv'
    BY <2>10 DEF dovolio_io
  <2>11. ASSUME NEW c \in Callers, dovolio_free(c)
        PROVE  CountInv'
    BY <2>11 DEF dovolio_free
  <2> QED
    BY <2>1, <2>2, <2>3, <2>4, <2>5, <2>6, <2>7, <2>8,
       <2>9, <2>10, <2>11
    DEF Next, Running
<1>3. TypeOK /\ OwnInv /\ CountInv /\ [Next]_vars => [AllOrNothingStep]_vars
  <2> SUFFICES ASSUME TypeOK, OwnInv, CountInv, [Next]_vars, ~UNCHANGED vars
               PROVE  AllOrNothingStep
    OBVIOUS
  <2> USE DEF TypeOK, AllOrNothingStep, AllocSteps, Goto, Code, dovolio
  <2>2. ASSUME NEW c \in Callers, NEW n \in 0..MaxCount,
               call_AllocGDTSelector(c, n)
        PROVE  AllOrNothingStep
    BY <2>2 DEF call_AllocGDTSelector
  <2>3. ASSUME NEW c \in Callers, NEW s \in Selectors, FreeGDTSelector(c, s)
        PROVE  AllOrNothingStep
    BY <2>3 DEF FreeGDTSelector
  <2>4. ASSUME NEW c \in Callers, call_dovolio(c)
        PROVE  AllOrNothingStep
    BY <2>4 DEF call_dovolio
  <2>5. ASSUME NEW c \in Callers, AllocOneGDTSelector(c)
        PROVE  AllOrNothingStep
    BY <2>5 DEF AllocOneGDTSelector
  <2>6. ASSUME NEW c \in Callers, return_AllocGDTSelector(c)
        PROVE  AllOrNothingStep
    <3>1. /\ kept'[c] = kept[c] \cup got[c] /\ rc'[c] = "no_error"
          /\ \A d \in Callers : d # c => pc'[d] = pc[d] /\ kept'[d] = kept[d]
      BY <2>6 DEF return_AllocGDTSelector, CountInv
    <3>2. Cardinality(kept'[c]) = Cardinality(kept[c]) + Cardinality(got[c])
      BY <3>1, SelectorSets DEF OwnInv, EveryoneHasTheirOwn
    <3>3. Cardinality(got[c]) = count[c]
      <4>1. Cardinality(got[c]) \in Nat /\ count[c] \in Nat
        BY SelectorSets
      <4> QED
        BY <2>6, <4>1 DEF return_AllocGDTSelector, CountInv
    <3> QED
      BY <3>1, <3>2, <3>3
  <2>7. ASSUME NEW c \in Callers, rollback(c)
        PROVE  AllOrNothingStep
    <3>1. kept' = kept /\ rc'[c] = "error"
      BY <2>7 DEF rollback, CountInv
    <3>2. \A d \in Callers : d # c => pc'[d] = pc[d]
      BY <2>7 DEF rollback
    <3>3. Cardinality(kept[c]) \in Nat
      BY SelectorSets
    <3> QED
      BY <3>1, <3>2, <3>3
  <2>8. ASSUME NEW c \in Callers, dovolio_alloc(c)
        PROVE  AllOrNothingStep
    BY <2>8 DEF dovolio_alloc
  <2>9. ASSUME NEW c \in Callers, dovolio_map(c)
        PROVE  AllOrNothingStep
    BY <2>9 DEF dovolio_map
  <2>10. ASSUME NEW c \in Callers, dovolio_io(c)
        PROVE  AllOrNothingStep
    BY <2>10 DEF dovolio_io
  <2>11. ASSUME NEW c \in Callers, dovolio_free(c)
        PROVE  AllOrNothingStep
    BY <2>11 DEF dovolio_free
  <2> QED
    BY <2>2, <2>3, <2>4, <2>5, <2>6, <2>7, <2>8,
       <2>9, <2>10, <2>11
    DEF Next, Running
<1>4. Init => OwnInv
  BY DEF Init, OwnInv, EveryoneHasTheirOwn, Holds, DovolioHoldsOne
<1> QED
  BY <1>1, <1>2, <1>3, <1>4, OwnInvStep, TypeCorrect, PTL
  DEF Spec, AllOrNothing

(***************************************************************************)
(* Refinement.  The selectors a running call holds are still in the pool   *)
(* as far as the abstract allocator is concerned; a call that returns      *)
(* takes them all in one step.                                             *)
(***************************************************************************)
LEMMA PoolStep == TypeOK /\ OwnInv /\ [Next]_vars => [Pool!Next]_<<kept, lost>>
<1> SUFFICES ASSUME TypeOK, OwnInv, [Next]_vars
             PROVE  Pool!Next \/ UNCHANGED <<kept, lost>>
  OBVIOUS
<1> USE DEF TypeOK
<1>1. ASSUME NEW c \in Callers, return_AllocGDTSelector(c)
      PROVE  Pool!Next
  <2>1. got[c] \subseteq Selectors \ (Pool!Owned \cup lost)
    BY DEF Pool!Owned, OwnInv, EveryoneHasTheirOwn, Holds
  <2>2. Pool!Take(c, got[c])
    BY <1>1, <2>1 DEF Pool!Take, return_AllocGDTSelector
  <2> QED
    BY <2>2 DEF Pool!Next
<1>2. ASSUME NEW c \in Callers, NEW s \in Selectors, FreeGDTSelector(c, s)
      PROVE  Pool!Next \/ UNCHANGED <<kept, lost>>
  BY <1>2 DEF FreeGDTSelector, Pool!Next, Pool!GiveBack
<1>3. ASSUME NEW c \in Callers, NEW s \in got[c],
             lost' = lost \cup {s}, kept' = kept
      PROVE  Pool!Next
  <2>1. s \in Selectors \ (Pool!Owned \cup lost)
    BY DEF Pool!Owned, OwnInv, EveryoneHasTheirOwn, Holds
  <2> QED
    BY <1>3, <2>1 DEF Pool!Next, Pool!Lose
<1>4. ASSUME NEW c \in Callers, rollback(c)
      PROVE  Pool!Next \/ UNCHANGED <<kept, lost>>
  BY <1>3, <1>4 DEF rollback
<1>5. ASSUME NEW c \in Callers, dovolio_free(c)
      PROVE  Pool!Next \/ UNCHANGED <<kept, lost>>
  <2>1. PICK s \in Selectors : got[c] = {s}
    BY <1>5 DEF dovolio_free, OwnInv, DovolioHoldsOne
  <2> QED
    BY <1>3, <1>5, <2>1 DEF dovolio_free
<1>6. CASE UNCHANGED vars
  BY <1>6 DEF vars
<1>7. ASSUME NEW c \in Callers,
             \/ \E n \in 0..MaxCount : call_AllocGDTSelector(c, n)
             \/ call_dovolio(c) \/ AllocOneGDTSelector(c)
             \/ dovolio_alloc(c) \/ dovolio_map(c) \/ dovolio_io(c)
      PROVE  UNCHANGED <<kept, lost>>
  BY <1>7 DEF call_AllocGDTSelector, call_dovolio, AllocOneGDTSelector,
              dovolio_alloc, dovolio_map, dovolio_io, dovolio
<1> QED
  BY <1>1, <1>2, <1>4, <1>5, <1>6, <1>7 DEF Next, Running

(* ImplementsPool: DevHlp32_AllocGDTSelector, with its loop and its        *)
(* rollback, DevHlp32_FreeGDTSelector and fsh32_dovolio implement the      *)
(* atomic allocator.                                                       *)
THEOREM PoolImplemented == Spec => ImplementsPool
<1>1. Init => Pool!Init
  BY DEF Init, Pool!Init
<1>2. Init => OwnInv
  BY DEF Init, OwnInv, EveryoneHasTheirOwn, Holds, DovolioHoldsOne
<1> QED
  BY <1>1, <1>2, PoolStep, OwnInvStep, TypeCorrect, PTL
  DEF Spec, ImplementsPool, Pool!Spec
=============================================================================
