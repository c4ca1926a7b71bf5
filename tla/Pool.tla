-------------------------------- MODULE Pool --------------------------------
(***************************************************************************)
(* pool.Pool.Run: one goroutine per work ID that calls Runner.Run, decides *)
(* from its result, waits and calls again, until the work ID is retired,   *)
(* the slot is dead or the context is cancelled; Run returns when every    *)
(* goroutine has.  A slot is a run of module Runner that is called again   *)
(* and again; the other runs are the slots of other processes.             *)
(***************************************************************************)
EXTENDS Runner, FiniteSets

CONSTANT Slots   \* the runs of the pool under observation

ASSUME PoolAssumption ==
    /\ Slots \subseteq Runs /\ IsFiniteSet(Slots)
    /\ \A s, u \in Slots : WorkOf[s] = WorkOf[u] => s = u

VARIABLES
    slot,        \* where the goroutine of a slot is
    dead,        \* the atomic counter of dead slots
    poolResult   \* what Run returned

poolVars == <<slot, dead, poolResult>>
allVars  == <<vars, poolVars>>

ErrAllSlotsDead == "ErrAllSlotsDead"

PoolInit ==
    /\ Init
    /\ slot = [s \in Slots |-> "running"]
    /\ dead = 0
    /\ poolResult = Unset

Goto(s, l) == slot' = [slot EXCEPT ![s] = l]

(* wg.Done was called. *)
Gone(s) == slot[s] \in {"retired", "dead", "exited"}

(* runCtx ends for all slots at once. *)
CancelRunCtx == cancelled' = [r \in Runs |-> r \in Slots \/ cancelled[r]]

(* The work IDs whose WorkFn executes. *)
ActiveSlots == {WorkOf[s] : s \in {u \in Slots : pc[u] = "working"}}

-----------------------------------------------------------------------------
(* The runs of other processes, and the calls of Run by the slots: a       *)
(* panicking WorkFn ends the whole process and is left to module Runner.   *)

OtherProcess(r) ==
    /\ r \notin Slots
    /\ RunStep(r) \/ Cancel(r) \/ Crash(r)
    /\ UNCHANGED poolVars

InRun(s) ==
    /\ slot[s] = "running"
    /\ \/ Acquires(s) \/ Reads(s) \/ Works(s) \/ Worked(s)
       \/ StopAndClassify(s) \/ Cleans(s) \/ Releases(s)
       \/ \E c \in {CauseFenced, CauseExhausted} : LoseLease(s, c)
    /\ UNCHANGED poolVars

(* The decision looks at the result, then at runCtx, then at the error:    *)
(* runCtx may end right after it was found alive.                          *)

(* Mutant: the retired flag is believed whatever Run returned. *)
ChecksRetiredFlagOnly(s) ==
    /\ slot[s] = "running" /\ pc[s] = "returned"
    /\ Goto(s, IF workErr[s] = ErrRetire THEN "retired"
               ELSE IF cancelled[s] THEN "exited" ELSE "deciding")
    /\ UNCHANGED <<vars, dead, poolResult>>

ChecksResultAndContext(s) ==
    /\ slot[s] = "running" /\ pc[s] = "returned"
    /\ Goto(s, IF result[s] = NilErr /\ workErr[s] = ErrRetire THEN "retired"
               ELSE IF cancelled[s] THEN "exited" ELSE "deciding")
    /\ UNCHANGED <<vars, dead, poolResult>>

(* nil waits RerunInterval, ErrLeaseHeld IdleInterval, other errors        *)
(* BackoffInterval; ErrFenced does not wait.                               *)
LoopsOn(s) ==
    /\ slot[s] = "deciding" /\ result[s] # WorkPermanent
    /\ Goto(s, IF result[s] = ErrFenced THEN "again" ELSE "sleeping")
    /\ UNCHANGED <<vars, dead, poolResult>>

(* Mutant: any error of WorkFn kills the slot. *)
DiesOnAnyError(s) ==
    /\ slot[s] = "deciding" /\ result[s] \in {WorkPermanent, WorkFailed}
    /\ dead' = dead + 1
    /\ Goto(s, IF dead' = Cardinality(Slots) THEN "last" ELSE "dead")
    /\ UNCHANGED <<vars, poolResult>>

Dies(s) ==
    /\ slot[s] = "deciding" /\ result[s] = WorkPermanent
    /\ dead' = dead + 1
    /\ Goto(s, IF dead' = Cardinality(Slots) THEN "last" ELSE "dead")
    /\ UNCHANGED <<vars, poolResult>>

(* The slot whose increment reached the total cancels runCtx. *)
LastDeadExits(s) ==
    /\ slot[s] = "last"
    /\ Goto(s, "dead")
    /\ CancelRunCtx
    /\ UNCHANGED <<ledger, pc, tok, cause, workErr, final, mode, result, dead, poolResult>>

(* Mutant: a wait is not cut short. *)
WakesByTimer(s) ==
    /\ slot[s] = "sleeping" /\ ~cancelled[s]
    /\ Goto(s, "again")
    /\ UNCHANGED <<vars, dead, poolResult>>

(* Mutant: a wait only ends with runCtx. *)
WakesByContext(s) ==
    /\ slot[s] = "sleeping" /\ cancelled[s]
    /\ Goto(s, "exited")
    /\ UNCHANGED <<vars, dead, poolResult>>

(* The timer fires or runCtx ends; with both ready either may win. *)
Wakes(s) ==
    /\ slot[s] = "sleeping"
    /\ \/ Goto(s, "again")
       \/ cancelled[s] /\ Goto(s, "exited")
    /\ UNCHANGED <<vars, dead, poolResult>>

(* A new Runner, and Run is called with it. *)
CallsAgain(s) ==
    /\ slot[s] = "again"
    /\ Goto(s, "running")
    /\ pc' = [pc EXCEPT ![s] = "call"]
    /\ tok' = [tok EXCEPT ![s] = 0]
    /\ cause' = [cause EXCEPT ![s] = NoCause]
    /\ workErr' = [workErr EXCEPT ![s] = Unset]
    /\ final' = [final EXCEPT ![s] = NoState]
    /\ mode' = [mode EXCEPT ![s] = ExitNone]
    /\ result' = [result EXCEPT ![s] = Unset]
    /\ UNCHANGED <<ledger, cancelled, dead, poolResult>>

SlotLoop(s) == \/ ChecksResultAndContext(s) \/ LoopsOn(s) \/ Dies(s) \/ LastDeadExits(s)
               \/ Wakes(s) \/ CallsAgain(s)

-----------------------------------------------------------------------------
(* The caller cancels the context passed to Run. *)
CancelPool ==
    /\ poolResult = Unset /\ \E s \in Slots : ~cancelled[s]
    /\ CancelRunCtx
    /\ UNCHANGED <<ledger, pc, tok, cause, workErr, final, mode, result, poolVars>>

(* Mutant: Run returns without waiting for the goroutines. *)
RunReturnsAtOnce ==
    /\ poolResult = Unset /\ \A s \in Slots : Gone(s) \/ cancelled[s]
    /\ poolResult' = IF dead = Cardinality(Slots) THEN ErrAllSlotsDead ELSE NilErr
    /\ UNCHANGED <<vars, slot, dead>>

(* wg.Wait returns. *)
RunReturnsResult ==
    /\ poolResult = Unset /\ \A s \in Slots : Gone(s)
    /\ poolResult' = IF dead = Cardinality(Slots) THEN ErrAllSlotsDead ELSE NilErr
    /\ UNCHANGED <<vars, slot, dead>>

PoolNext ==
    \/ \E r \in Runs : OtherProcess(r)
    \/ \E s \in Slots : InRun(s) \/ SlotLoop(s)
    \/ CancelPool \/ RunReturnsResult
    \/ DeleteRow /\ UNCHANGED poolVars

PoolSpec == PoolInit /\ [][PoolNext]_allVars

(* The goroutines run and their timers fire.  A call of the lease returns: *)
(* Acquire and ReadCheckpoint on runCtx, the final calls on one bounded by *)
(* CleanupTimeout.  WorkFn returns once its context is done; nothing is    *)
(* assumed of it before.                                                   *)
PoolFairSpec ==
    /\ PoolSpec
    /\ \A s \in Slots : /\ WF_allVars(SlotLoop(s))
                        /\ WF_allVars(InRun(s) /\ pc[s] # "working")
                        /\ WF_allVars(InRun(s) /\ (cancelled[s] \/ cause[s] # NoCause) /\ pc'[s] = "worked")
    /\ WF_allVars(RunReturnsResult)

-----------------------------------------------------------------------------
(* Every variable has its type. *)
PoolTypeOK ==
    /\ TypeOK
    /\ slot \in [Slots -> {"running", "deciding", "last", "sleeping", "again", "retired", "dead", "exited"}]
    /\ dead \in 0..Cardinality(Slots)
    /\ poolResult \in {Unset, NilErr, ErrAllSlotsDead}

(* "Run returns ErrAllSlotsDead only when every slot was counted dead      *)
(* through a PermanentError", whichever of the last death, a retirement    *)
(* and the cancellation comes first, and nil only if the context was       *)
(* cancelled or a work ID retired.                                         *)
ResultIsTrue ==
    /\ poolResult = ErrAllSlotsDead => \A s \in Slots : slot[s] = "dead" /\ workErr[s] = WorkPermanent
    /\ poolResult = NilErr => \E s \in Slots : slot[s] = "retired" \/ cancelled[s]

(* OnSlotRetired fires only once the exit is recorded, also when the       *)
(* release fails, its reply is lost or the context ends during it; and a   *)
(* work ID whose retirement succeeded is never taken up again or left as   *)
(* merely exited, even if runCtx ends before the slot decides.             *)
RetiredIsRecorded ==
    \A s \in Slots :
        /\ slot[s] = "retired" => ledger[tok[s]].exit = ExitRetired
        /\ (slot[s] \in {"exited", "again", "sleeping"} /\ result[s] = NilErr) => workErr[s] # ErrRetire

(* "Every active slot completes its final Checkpoint and Release before    *)
(* Run returns": nothing of the pool runs any more.                        *)
RunWaitsForCleanup ==
    poolResult # Unset => ActiveSlots = {} /\ \A s \in Slots : pc[s] = "returned" /\ Gone(s)

(* Run returns once its context is cancelled or all slots have ended. *)
PoolReturns ==
    (\E s \in Slots : cancelled[s]) ~> poolResult # Unset

(* A slot whose work ID is held, fenced, finished or failing tries again,  *)
(* or its goroutine ends.                                                  *)
SlotTriesAgain ==
    \A s \in Slots : slot[s] = "deciding" ~> (Gone(s) \/ pc[s] = "call")

(* "Return an error implementing PermanentError to drop the slot           *)
(* permanently without reacquisition" (docs/ARCHITECTURE.md:1294).  Does   *)
(* not hold: a fencing found during cleanup takes the error's place.       *)
PermanentIsNotRerun ==
    \A s \in Slots : slot[s] \in {"sleeping", "again"} => workErr[s] # WorkPermanent
=============================================================================
