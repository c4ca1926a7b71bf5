----------------------------- MODULE PoolProofs ------------------------------
(***************************************************************************)
(* Proofs about Pool, for any finite set of slots, any competing runs and  *)
(* any names, states and tokens.                                           *)
(***************************************************************************)
EXTENDS Pool, RunnerProofs, FiniteSetTheorems

USE PoolAssumption

-----------------------------------------------------------------------------
(* The inductive invariant: the runs keep the invariant of RunnerProofs,   *)
(* although a slot calls Run again and again; the counter of dead slots is *)
(* the number of goroutines that incremented it; and each slot is where    *)
(* the result of its last Run sent it.                                     *)

(* The goroutines that have counted themselves dead. *)
CountedDead == {s \in Slots : slot[s] \in {"last", "dead"}}

DeadIsCounted == dead = Cardinality(CountedDead)

(* Outside Run, the slot remembers why it is where it is. *)
SlotInv(s) ==
    /\ slot[s] # "running" => pc[s] = "returned"
    /\ slot[s] = "retired" => result[s] = NilErr /\ workErr[s] = ErrRetire
    /\ slot[s] \in {"deciding", "sleeping", "again", "exited"} =>
          ~(result[s] = NilErr /\ workErr[s] = ErrRetire)
    /\ slot[s] \in {"last", "dead"} => result[s] = WorkPermanent
    /\ slot[s] = "exited" => cancelled[s]

(* Run returned what the counter said once every goroutine was gone. *)
ReturnedAfterAll ==
    poolResult # Unset =>
        /\ \A s \in Slots : Gone(s)
        /\ poolResult = IF dead = Cardinality(Slots) THEN ErrAllSlotsDead ELSE NilErr

PoolInv ==
    /\ Inv /\ PoolTypeOK /\ DeadIsCounted /\ ReturnedAfterAll
    /\ \A s \in Slots : SlotInv(s)

-----------------------------------------------------------------------------
(* What a result of Run means to a slot: a PermanentError is WorkFn's own. *)
LEMMA PermanentIsWorks ==
    ASSUME Inv, NEW s \in Runs, pc[s] = "returned", result[s] = WorkPermanent
    PROVE  workErr[s] = WorkPermanent
  BY DEF Inv, RunInv, Answered

(* A step of a run cancels no context but its own, and a step that is not  *)
(* a cancellation none at all.                                             *)
LEMMA CancelsOnlyItself ==
    ASSUME TypeOK, NEW r \in Runs, RunStep(r) \/ Cancel(r) \/ Crash(r)
    PROVE  /\ \A q \in Runs \ {r} : cancelled'[q] = cancelled[q]
           /\ cancelled[r] => cancelled'[r]
  <1>1. CASE Acquires(r)
    BY <1>1 DEF Acquires, Acquire
  <1>2. CASE Reads(r)
    BY <1>2 DEF Reads, ReadCheckpoint
  <1>3. CASE Works(r) \/ Worked(r) \/ WorkPanics(r)
    BY <1>3 DEF Works, WorkCheckpoint, Worked, WorkReturns, WorkPanics, runVars
  <1>4. CASE StopAndClassify(r) \/ Cleans(r) \/ Releases(r)
    BY <1>4 DEF StopAndClassify, Cleans, FinalCheckpoint, Releases, Release
  <1>5. CASE \E c \in {CauseFenced, CauseExhausted} : LoseLease(r, c)
    BY <1>5 DEF LoseLease
  <1>6. CASE Cancel(r) \/ Crash(r)
    BY <1>6 DEF TypeOK, Cancel, Crash
  <1> QED BY <1>1, <1>2, <1>3, <1>4, <1>5, <1>6 DEF RunStep

(* The counter and the result of the pool do not change while no goroutine *)
(* leaves or enters the dead ones.                                         *)
LEMMA CounterKept ==
    ASSUME DeadIsCounted, UNCHANGED dead, CountedDead' = CountedDead
    PROVE  DeadIsCounted'
  BY DEF DeadIsCounted

(* A step that leaves the goroutines of the pool alone, inside Run or not. *)
LEMMA SlotsKept ==
    ASSUME PoolInv, UNCHANGED poolVars, Inv',
           \A s \in Slots : slot[s] # "running" =>
               /\ pc'[s] = pc[s] /\ result'[s] = result[s] /\ workErr'[s] = workErr[s]
               /\ cancelled[s] => cancelled'[s]
    PROVE  PoolInv'
  <1>1. UNCHANGED slot /\ UNCHANGED dead /\ UNCHANGED poolResult
    BY DEF poolVars
  <1>2. DeadIsCounted'
    BY <1>1 DEF PoolInv, DeadIsCounted, CountedDead
  <1>3. PoolTypeOK'
    BY <1>1 DEF PoolInv, PoolTypeOK, Inv
  <1>4. ReturnedAfterAll'
    BY <1>1 DEF PoolInv, ReturnedAfterAll, Gone
  <1>5. ASSUME NEW s \in Slots PROVE SlotInv(s)'
    BY <1>1, ErrorsDistinct DEF PoolInv, SlotInv
  <1> QED BY <1>2, <1>3, <1>4, <1>5 DEF PoolInv

(* A goroutine of the pool moves, outside Run, without dying. *)
LEMMA SlotMoves ==
    ASSUME PoolInv, NEW s \in Slots, NEW l, slot' = [slot EXCEPT ![s] = l],
           l \in {"running", "deciding", "sleeping", "again", "retired", "exited"},
           ~Gone(s), slot[s] # "last",
           UNCHANGED <<dead, poolResult>>, Inv', SlotInv(s)',
           \A u \in Slots \ {s} : RunUntouched(u) /\ (cancelled[u] => cancelled'[u])
    PROVE  PoolInv'
  <1>1. PoolTypeOK /\ poolResult = Unset
    BY DEF PoolInv, ReturnedAfterAll
  <1>2. PoolTypeOK'
    BY <1>1 DEF PoolTypeOK, Inv
  <1>3. CountedDead' = CountedDead
    BY <1>1 DEF PoolTypeOK, CountedDead, Gone
  <1>4. DeadIsCounted'
    BY <1>3, CounterKept DEF PoolInv
  <1>5. ReturnedAfterAll'
    BY <1>1 DEF ReturnedAfterAll
  <1>6. ASSUME NEW u \in Slots, u # s PROVE SlotInv(u)'
    <2>1. slot'[u] = slot[u] /\ RunUntouched(u) /\ SlotInv(u) /\ (cancelled[u] => cancelled'[u])
      BY <1>1, <1>6 DEF PoolTypeOK, PoolInv
    <2> QED BY <2>1 DEF SlotInv, RunUntouched
  <1> QED BY <1>2, <1>4, <1>5, <1>6 DEF PoolInv

-----------------------------------------------------------------------------
(* One lemma per step of the pool. *)

(* A competitor's run, or a run of the pool's own slot, moves on. *)
LEMMA RunsMove ==
    ASSUME PoolInv, NEW r \in Runs, RunStep(r) \/ Cancel(r) \/ Crash(r), UNCHANGED poolVars,
           r \in Slots => slot[r] = "running"
    PROVE  PoolInv'
  <1>1. Inv /\ TypeOK
    BY DEF PoolInv, Inv
  <1>2. StepOf(r) /\ Inv'
    BY <1>1, RunPreserves
  <1>3. ASSUME NEW s \in Slots, slot[s] # "running"
        PROVE  /\ pc'[s] = pc[s] /\ result'[s] = result[s] /\ workErr'[s] = workErr[s]
               /\ cancelled[s] => cancelled'[s]
    <2>1. s \in Runs /\ s # r
      BY <1>3
    <2>2. RunUntouched(s)
      BY <1>2, <2>1 DEF StepOf
    <2>3. cancelled'[s] = cancelled[s]
      BY <1>1, <2>1, CancelsOnlyItself
    <2> QED BY <2>2, <2>3 DEF RunUntouched
  <1> QED BY <1>2, <1>3, SlotsKept

(* Nothing of the runs changes. *)
LEMMA RunsStill ==
    ASSUME Inv, UNCHANGED vars
    PROVE  Inv' /\ \A q \in Runs : RunUntouched(q) /\ cancelled'[q] = cancelled[q]
  <1>1. Inv'
    BY InvNext
  <1> QED BY <1>1 DEF vars, runVars, RunUntouched

(* The decision: retired only on nil and ErrRetire, exited only if runCtx  *)
(* is done.                                                                *)
LEMMA ChecksStep ==
    ASSUME PoolInv, NEW s \in Slots, ChecksResultAndContext(s)
    PROVE  PoolInv'
  <1>0. /\ PoolTypeOK /\ Inv /\ SlotInv(s) /\ s \in Runs
        /\ slot[s] = "running" /\ pc[s] = "returned" /\ UNCHANGED vars /\ UNCHANGED <<dead, poolResult>>
    BY DEF PoolInv, ChecksResultAndContext
  <1>1. Inv' /\ \A q \in Runs : RunUntouched(q) /\ cancelled'[q] = cancelled[q]
    BY <1>0, RunsStill
  <1>2. PICK l : /\ slot' = [slot EXCEPT ![s] = l]
                 /\ l = IF result[s] = NilErr /\ workErr[s] = ErrRetire THEN "retired"
                        ELSE IF cancelled[s] THEN "exited" ELSE "deciding"
    BY DEF ChecksResultAndContext, Goto
  <1>3. slot'[s] = l
    BY <1>0, <1>2 DEF PoolTypeOK
  <1>4. SlotInv(s)'
    BY <1>0, <1>1, <1>2, <1>3 DEF SlotInv, RunUntouched
  <1>5. l \in {"running", "deciding", "sleeping", "again", "retired", "exited"}
    BY <1>2
  <1> QED BY <1>0, <1>1, <1>2, <1>4, <1>5, SlotMoves DEF Gone

(* The loop goes on, or a wait ends: no slot that was retired is among     *)
(* them.                                                                   *)
LEMMA LoopsOrWakesStep ==
    ASSUME PoolInv, NEW s \in Slots, LoopsOn(s) \/ Wakes(s)
    PROVE  PoolInv'
  <1>0. /\ PoolTypeOK /\ Inv /\ SlotInv(s) /\ s \in Runs
        /\ slot[s] \in {"deciding", "sleeping"} /\ UNCHANGED vars /\ UNCHANGED <<dead, poolResult>>
    BY DEF PoolInv, LoopsOn, Wakes
  <1>1. Inv' /\ \A q \in Runs : RunUntouched(q) /\ cancelled'[q] = cancelled[q]
    BY <1>0, RunsStill
  <1>2. PICK l : /\ slot' = [slot EXCEPT ![s] = l]
                 /\ l \in {"sleeping", "again"} \/ (l = "exited" /\ cancelled[s])
    BY DEF LoopsOn, Wakes, Goto
  <1>3. slot'[s] = l
    BY <1>0, <1>2 DEF PoolTypeOK
  <1>4. SlotInv(s)'
    BY <1>0, <1>1, <1>2, <1>3 DEF SlotInv, RunUntouched
  <1>5. l \in {"running", "deciding", "sleeping", "again", "retired", "exited"}
    BY <1>2
  <1> QED BY <1>0, <1>1, <1>2, <1>4, <1>5, SlotMoves DEF Gone

(* A slot dies of a PermanentError and is counted, once. *)
LEMMA DiesStep ==
    ASSUME PoolInv, NEW s \in Slots, Dies(s)
    PROVE  PoolInv'
  <1>0. /\ PoolTypeOK /\ Inv /\ SlotInv(s) /\ s \in Runs
        /\ slot[s] = "deciding" /\ result[s] = WorkPermanent
        /\ dead' = dead + 1 /\ UNCHANGED vars /\ UNCHANGED poolResult
    BY DEF PoolInv, Dies
  <1>1. Inv' /\ \A q \in Runs : RunUntouched(q) /\ cancelled'[q] = cancelled[q]
    BY <1>0, RunsStill
  <1>2. PICK l \in {"last", "dead"} : slot' = [slot EXCEPT ![s] = l]
    BY DEF Dies, Goto
  <1>3. /\ slot'[s] = l
        /\ \A u \in Slots \ {s} : slot'[u] = slot[u]
    BY <1>0, <1>2 DEF PoolTypeOK
  <1>4. s \notin CountedDead /\ CountedDead' = CountedDead \union {s}
    BY <1>0, <1>2, <1>3 DEF CountedDead
  <1>5. /\ IsFiniteSet(CountedDead) /\ IsFiniteSet(CountedDead')
        /\ Cardinality(CountedDead') <= Cardinality(Slots)
        /\ Cardinality(CountedDead) \in Nat /\ Cardinality(Slots) \in Nat
    <2>1. CountedDead \in SUBSET Slots /\ CountedDead' \in SUBSET Slots
      BY DEF CountedDead
    <2> QED BY <2>1, FS_Subset, FS_CardinalityType
  <1>6. Cardinality(CountedDead') = Cardinality(CountedDead) + 1
    BY <1>4, <1>5, FS_AddElement
  <1>7. DeadIsCounted'
    BY <1>0, <1>6 DEF PoolInv, DeadIsCounted
  <1>8. PoolTypeOK'
    <2>1. dead' \in 0..Cardinality(Slots)
      BY <1>0, <1>5, <1>6 DEF PoolInv, DeadIsCounted
    <2> QED BY <1>0, <1>1, <1>2, <2>1 DEF PoolTypeOK, Inv
  <1>9. ReturnedAfterAll'
    BY <1>0 DEF PoolInv, ReturnedAfterAll, Gone
  <1>10. SlotInv(s)'
    BY <1>0, <1>1, <1>2, <1>3 DEF SlotInv, RunUntouched
  <1>11. ASSUME NEW u \in Slots, u # s PROVE SlotInv(u)'
    <2>1. slot'[u] = slot[u] /\ SlotInv(u) /\ RunUntouched(u) /\ cancelled'[u] = cancelled[u]
      BY <1>1, <1>3, <1>11 DEF PoolInv
    <2> QED BY <2>1 DEF SlotInv, RunUntouched
  <1> QED BY <1>1, <1>7, <1>8, <1>9, <1>10, <1>11 DEF PoolInv

(* runCtx ends for every slot: the runs keep their invariant. *)
LEMMA CancelRunCtxKeeps ==
    ASSUME Inv, CancelRunCtx, UNCHANGED <<ledger, pc, tok, cause, workErr, final, mode, result>>
    PROVE  /\ Inv' /\ \A q \in Runs : RunUntouched(q)
           /\ \A s \in Slots : cancelled'[s]
  <1>1. cancelled' \in [Runs -> BOOLEAN] /\ \A s \in Slots : cancelled'[s]
    BY DEF Inv, TypeOK, CancelRunCtx
  <1>2. LedgerOK' /\ LedgerAges /\ Tokens' = Tokens /\ \A u \in Tokens : WritesKept(u)
    BY NothingWritten, TypedLedger DEF Inv
  <1>3. Inv'
    BY <1>1, <1>2, NobodyActs
  <1> QED BY <1>1, <1>3 DEF RunUntouched

(* The last dead slot cancels runCtx and is gone. *)
LEMMA LastDeadStep ==
    ASSUME PoolInv, NEW s \in Slots, LastDeadExits(s)
    PROVE  PoolInv'
  <1>0. /\ PoolTypeOK /\ Inv /\ SlotInv(s) /\ s \in Runs
        /\ slot[s] = "last" /\ slot' = [slot EXCEPT ![s] = "dead"] /\ CancelRunCtx
        /\ UNCHANGED <<ledger, pc, tok, cause, workErr, final, mode, result>>
        /\ UNCHANGED <<dead, poolResult>>
    BY DEF PoolInv, LastDeadExits, Goto
  <1>1. /\ Inv' /\ \A q \in Runs : RunUntouched(q)
        /\ \A u \in Slots : cancelled'[u]
    BY <1>0, CancelRunCtxKeeps
  <1>2. /\ slot'[s] = "dead"
        /\ \A u \in Slots \ {s} : slot'[u] = slot[u]
    BY <1>0 DEF PoolTypeOK
  <1>3. DeadIsCounted'
    <2>1. CountedDead' = CountedDead
      BY <1>0, <1>2 DEF CountedDead
    <2> QED BY <1>0, <2>1, CounterKept DEF PoolInv
  <1>4. PoolTypeOK'
    BY <1>0, <1>1 DEF PoolTypeOK, Inv
  <1>5. ReturnedAfterAll'
    BY <1>0 DEF PoolInv, ReturnedAfterAll, Gone
  <1>6. SlotInv(s)'
    BY <1>0, <1>1, <1>2 DEF SlotInv, RunUntouched
  <1>7. ASSUME NEW u \in Slots, u # s PROVE SlotInv(u)'
    <2>1. slot'[u] = slot[u] /\ SlotInv(u) /\ RunUntouched(u) /\ cancelled'[u]
      BY <1>1, <1>2, <1>7 DEF PoolInv
    <2> QED BY <2>1 DEF SlotInv, RunUntouched
  <1> QED BY <1>1, <1>3, <1>4, <1>5, <1>6, <1>7 DEF PoolInv

(* Run is called again, with a fresh Runner. *)
LEMMA CallsAgainStep ==
    ASSUME PoolInv, NEW s \in Slots, CallsAgain(s)
    PROVE  PoolInv'
  <1>0. /\ PoolTypeOK /\ Inv /\ SlotInv(s) /\ s \in Runs /\ TypeOK
        /\ slot[s] = "again" /\ slot' = [slot EXCEPT ![s] = "running"]
        /\ UNCHANGED ledger /\ UNCHANGED cancelled /\ UNCHANGED <<dead, poolResult>>
        /\ pc' = [pc EXCEPT ![s] = "call"] /\ tok' = [tok EXCEPT ![s] = 0]
        /\ cause' = [cause EXCEPT ![s] = NoCause] /\ workErr' = [workErr EXCEPT ![s] = Unset]
        /\ final' = [final EXCEPT ![s] = NoState] /\ mode' = [mode EXCEPT ![s] = ExitNone]
        /\ result' = [result EXCEPT ![s] = Unset]
    BY DEF PoolInv, Inv, CallsAgain, Goto
  <1>1. Inv'
    <2>1. cancelled' \in [Runs -> BOOLEAN]
      BY <1>0 DEF TypeOK
    <2> QED BY <1>0, <2>1, ResetPreserves
  <1>2. ASSUME NEW u \in Slots, u # s PROVE RunUntouched(u) /\ (cancelled[u] => cancelled'[u])
    BY <1>0, <1>2 DEF TypeOK, RunUntouched
  <1>3. SlotInv(s)'
    BY <1>0 DEF PoolTypeOK, SlotInv
  <1> QED BY <1>0, <1>1, <1>2, <1>3, SlotMoves DEF Gone

(* The caller cancels the context of Run. *)
LEMMA CancelPoolStep == ASSUME PoolInv, CancelPool PROVE PoolInv'
  <1>0. /\ Inv /\ CancelRunCtx /\ UNCHANGED poolVars
        /\ UNCHANGED <<ledger, pc, tok, cause, workErr, final, mode, result>>
    BY DEF PoolInv, CancelPool
  <1>1. /\ Inv' /\ \A q \in Runs : RunUntouched(q)
        /\ \A s \in Slots : cancelled'[s]
    BY <1>0, CancelRunCtxKeeps
  <1> QED BY <1>0, <1>1, SlotsKept DEF RunUntouched

(* Run returns when every goroutine is gone. *)
LEMMA RunReturnsStep == ASSUME PoolInv, RunReturnsResult PROVE PoolInv'
  <1>0. /\ PoolTypeOK /\ Inv /\ UNCHANGED vars /\ UNCHANGED slot /\ UNCHANGED dead
        /\ \A s \in Slots : Gone(s)
        /\ poolResult' = IF dead = Cardinality(Slots) THEN ErrAllSlotsDead ELSE NilErr
    BY DEF PoolInv, RunReturnsResult
  <1>1. Inv' /\ \A q \in Runs : RunUntouched(q) /\ cancelled'[q] = cancelled[q]
    BY <1>0, RunsStill
  <1>2. PoolTypeOK'
    BY <1>0, <1>1 DEF PoolTypeOK, Inv
  <1>3. DeadIsCounted'
    BY <1>0 DEF PoolInv, DeadIsCounted, CountedDead
  <1>4. ReturnedAfterAll'
    BY <1>0 DEF ReturnedAfterAll, Gone
  <1>5. ASSUME NEW s \in Slots PROVE SlotInv(s)'
    BY <1>0, <1>1 DEF PoolInv, SlotInv, RunUntouched
  <1> QED BY <1>1, <1>2, <1>3, <1>4, <1>5 DEF PoolInv

-----------------------------------------------------------------------------
(* The invariant is inductive. *)

(* Every goroutine is about to call Run for the first time. *)
LEMMA PoolInvInit == PoolInit => PoolInv
  <1> SUFFICES ASSUME PoolInit PROVE PoolInv
    OBVIOUS
  <1>1. Inv
    BY InvInit DEF PoolInit
  <1>2. CountedDead = {}
    BY DEF PoolInit, CountedDead
  <1>3. DeadIsCounted
    BY <1>2, FS_EmptySet DEF PoolInit, DeadIsCounted
  <1>4. PoolTypeOK
    BY <1>1, FS_CardinalityType DEF PoolInit, PoolTypeOK, Inv
  <1>5. ReturnedAfterAll /\ \A s \in Slots : SlotInv(s)
    BY DEF PoolInit, ReturnedAfterAll, SlotInv
  <1> QED BY <1>1, <1>3, <1>4, <1>5 DEF PoolInv

(* The invariant is preserved by every step. *)
LEMMA PoolInvNext == PoolInv /\ [PoolNext]_allVars => PoolInv'
  <1> SUFFICES ASSUME PoolInv, [PoolNext]_allVars PROVE PoolInv'
    OBVIOUS
  <1>1. CASE UNCHANGED allVars
    <2>1. Inv /\ UNCHANGED vars /\ UNCHANGED poolVars
      BY <1>1 DEF allVars, PoolInv
    <2>2. Inv' /\ \A q \in Runs : RunUntouched(q) /\ cancelled'[q] = cancelled[q]
      BY <2>1, RunsStill
    <2> QED BY <2>1, <2>2, SlotsKept DEF RunUntouched
  <1>2. ASSUME NEW r \in Runs, OtherProcess(r) PROVE PoolInv'
    BY <1>2, RunsMove DEF OtherProcess
  <1>3. ASSUME NEW s \in Slots, InRun(s) PROVE PoolInv'
    <2>1. s \in Runs /\ RunStep(s) /\ slot[s] = "running" /\ UNCHANGED poolVars
      BY <1>3 DEF InRun, RunStep
    <2> QED BY <2>1, RunsMove
  <1>4. ASSUME NEW s \in Slots, SlotLoop(s) PROVE PoolInv'
    BY <1>4, ChecksStep, LoopsOrWakesStep, DiesStep, LastDeadStep, CallsAgainStep DEF SlotLoop
  <1>5. CASE CancelPool \/ RunReturnsResult
    BY <1>5, CancelPoolStep, RunReturnsStep
  <1>6. CASE DeleteRow /\ UNCHANGED poolVars
    <2>1. Inv'
      BY <1>6, DeleteRowPreserves DEF PoolInv
    <2> QED BY <1>6, <2>1, SlotsKept DEF DeleteRow, runVars
  <1> QED BY <1>1, <1>2, <1>3, <1>4, <1>5, <1>6 DEF PoolNext

(* PoolInv holds in every reachable state. *)
LEMMA PoolInvHolds == PoolSpec => []PoolInv
  BY PoolInvInit, PoolInvNext, PTL DEF PoolSpec

-----------------------------------------------------------------------------
(* What the invariant gives. *)

(* When Run has returned, the counter tells whether all slots died. *)
LEMMA CounterIsTrue ==
    ASSUME PoolInv
    PROVE  dead = Cardinality(Slots) <=> CountedDead = Slots
  <1>1. CountedDead \in SUBSET Slots
    BY DEF CountedDead
  <1>2. Cardinality(Slots) = Cardinality(CountedDead) => Slots = CountedDead
    BY <1>1, FS_Subset
  <1> QED BY <1>2 DEF PoolInv, DeadIsCounted

(* The named properties follow from the invariant, state by state. *)
LEMMA PoolInvImplies ==
    PoolInv => PoolTypeOK /\ ResultIsTrue /\ RetiredIsRecorded /\ RunWaitsForCleanup
  <1> SUFFICES ASSUME PoolInv
               PROVE  PoolTypeOK /\ ResultIsTrue /\ RetiredIsRecorded /\ RunWaitsForCleanup
    OBVIOUS
  <1>0. Inv /\ PoolTypeOK /\ \A s \in Slots : SlotInv(s) /\ s \in Runs
    BY DEF PoolInv
  <1>1. ASSUME poolResult = ErrAllSlotsDead, NEW s \in Slots
        PROVE  slot[s] = "dead" /\ workErr[s] = WorkPermanent
    <2>1. Gone(s) /\ dead = Cardinality(Slots)
      BY <1>1 DEF PoolInv, ReturnedAfterAll, ErrAllSlotsDead, NilErr, Unset
    <2>2. s \in CountedDead
      BY <2>1, CounterIsTrue
    <2>3. slot[s] = "dead"
      BY <2>1, <2>2 DEF CountedDead, Gone
    <2>4. workErr[s] = WorkPermanent
      BY <1>0, <2>3, PermanentIsWorks DEF SlotInv
    <2> QED BY <2>3, <2>4
  <1>2. ASSUME poolResult = NilErr
        PROVE  \E s \in Slots : slot[s] = "retired" \/ cancelled[s]
    <2>1. dead # Cardinality(Slots) /\ \A s \in Slots : Gone(s)
      BY <1>2 DEF PoolInv, ReturnedAfterAll, ErrAllSlotsDead, NilErr, Unset
    <2>2. CountedDead # Slots
      BY <2>1, CounterIsTrue
    <2>3. PICK s \in Slots : s \notin CountedDead
      BY <2>2 DEF CountedDead
    <2>4. slot[s] \in {"retired", "exited"}
      BY <2>1, <2>3 DEF CountedDead, Gone
    <2> QED BY <1>0, <2>4 DEF SlotInv
  <1>3. ResultIsTrue
    BY <1>1, <1>2 DEF ResultIsTrue
  <1>4. ASSUME NEW s \in Slots, slot[s] = "retired" PROVE ledger[tok[s]].exit = ExitRetired
    <2>1. pc[s] = "returned" /\ result[s] = NilErr /\ workErr[s] = ErrRetire
      BY <1>0, <1>4 DEF SlotInv
    <2>2. NilMeansRecorded
      BY <1>0, InvImplies
    <2> QED BY <1>0, <2>1, <2>2 DEF NilMeansRecorded
  <1>5. RetiredIsRecorded
    BY <1>0, <1>4 DEF RetiredIsRecorded, SlotInv
  <1>6. ASSUME poolResult # Unset, NEW s \in Slots PROVE pc[s] = "returned" /\ Gone(s)
    BY <1>0, <1>6 DEF PoolInv, ReturnedAfterAll, Gone, SlotInv
  <1>7. RunWaitsForCleanup
    BY <1>6 DEF RunWaitsForCleanup, ActiveSlots
  <1> QED BY <1>0, <1>3, <1>5, <1>7

(* Every reachable state of a pool with any number of slots is well typed; *)
(* in particular the counter of dead slots never exceeds their number.     *)
THEOREM PoolTypeCorrect == PoolSpec => []PoolTypeOK
  BY PoolInvHolds, PoolInvImplies, PTL

(* Run returns ErrAllSlotsDead only if every slot died of a PermanentError *)
(* of its WorkFn, and nil only if the context was cancelled or a work ID   *)
(* was retired, whichever comes first.                                     *)
THEOREM PoolResultIsTrue == PoolSpec => []ResultIsTrue
  BY PoolInvHolds, PoolInvImplies, PTL

(* A slot is retired only once the retirement is recorded, and a recorded  *)
(* retirement that Run reported is never run again.                        *)
THEOREM RetirementIsRecorded == PoolSpec => []RetiredIsRecorded
  BY PoolInvHolds, PoolInvImplies, PTL

(* When Run has returned, no WorkFn, final Checkpoint or Release of the    *)
(* pool is still to come.                                                  *)
THEOREM RunWaits == PoolSpec => []RunWaitsForCleanup
  BY PoolInvHolds, PoolInvImplies, PTL

(* The promises of a single Run carry over to the runs that a pool calls   *)
(* again and again: success is complete where it is recorded.              *)
THEOREM PoolRecordsCompletely == PoolSpec => []RecordedSuccessIsComplete
  <1>1. PoolInv => RecordedSuccessIsComplete
    BY InvImplies DEF PoolInv
  <1> QED BY <1>1, PoolInvHolds, PTL
=============================================================================
