---------------------------- MODULE RunnerProofs -----------------------------
(***************************************************************************)
(* Proofs about Runner, for any runs, work IDs, holders, states, tokens    *)
(* and errors of WorkFn.                                                   *)
(***************************************************************************)
EXTENDS Runner, LeaseServiceProofs

USE RunnerAssumption, NamesAssumption

-----------------------------------------------------------------------------
(* The inductive invariant, run by run: what Run knows at each step, and   *)
(* what its tenure records because of it.                                  *)

(* Run is between a granted Acquire and its return. *)
HasLease(r) == pc[r] \in {"acquired", "working", "worked", "cleanup", "release"}

(* No two runs act under one token. *)
TokensAreOwn == \A r, q \in Runs : (tok[r] # 0 /\ tok[r] = tok[q]) => r = q

(* A run without a token never got beyond Acquire. *)
Tokenless(r) ==
    tok[r] = 0 => /\ pc[r] \in {"call", "returned", "crashed"}
                  /\ workErr[r] = Unset /\ cause[r] = NoCause
                  /\ result[r] \notin {NilErr, ErrFenced}

(* WorkFn has returned exactly from "worked" on, and nothing is declared   *)
(* before Release.                                                         *)
Progress(r) ==
    /\ pc[r] = "call" => tok[r] = 0
    /\ pc[r] \in {"call", "acquired", "working"} => workErr[r] = Unset
    /\ pc[r] \in {"worked", "cleanup", "release"} => workErr[r] # Unset
    /\ HasLease(r) => ledger[tok[r]].exit = ExitNone

(* A fencing that WorkFn or the renewal goroutine met is a real one. *)
LossIsTrue(r) == (workErr[r] = ErrFenced \/ cause[r] = CauseFenced) => Fenced(tok[r])

(* What cleanup is about to declare and to return agree with what WorkFn   *)
(* returned, and a success is declared only with the final state stored.   *)
Decided(r) ==
    pc[r] \in {"cleanup", "release"} =>
        /\ cause[r] = NoCause /\ workErr[r] # ErrFenced /\ result[r] # ErrFenced
        /\ mode[r] \in DeclarableExits
        /\ mode[r] = ExitAbandoned => result[r] # NilErr
        /\ mode[r] # ExitAbandoned => /\ workErr[r] = IF mode[r] = ExitRetired THEN ErrRetire ELSE NilErr
                                      /\ pc[r] = "release" => FinalSaved(r)
        /\ workErr[r] \in {WorkFailed, WorkPermanent} => result[r] = workErr[r]
        /\ result[r] \in {WorkFailed, WorkPermanent} => workErr[r] = result[r]

(* What a declared exit says of the run that declared it. *)
Recorded(r) ==
    (tok[r] # 0 /\ ledger[tok[r]].exit # ExitNone) =>
        /\ workErr[r] \notin {Unset, ErrFenced} /\ cause[r] = NoCause
        /\ ledger[tok[r]].exit # ExitAbandoned =>
              /\ workErr[r] = IF ledger[tok[r]].exit = ExitRetired THEN ErrRetire ELSE NilErr
              /\ FinalSaved(r)

(* What a result says. *)
Answered(r) ==
    pc[r] = "returned" =>
        /\ result[r] = NilErr => tok[r] # 0 /\ ledger[tok[r]].exit \in {ExitFinished, ExitRetired}
        /\ result[r] = ErrFenced => Fenced(tok[r])
        /\ workErr[r] \in {WorkFailed, WorkPermanent} => result[r] \in {workErr[r], ErrFenced}
        /\ result[r] \in {WorkFailed, WorkPermanent} => workErr[r] = result[r]

RunInv(r) ==
    Tokenless(r) /\ Progress(r) /\ LossIsTrue(r) /\ Decided(r) /\ Recorded(r) /\ Answered(r)

Inv == TypeOK /\ TokensAreOwn /\ \A r \in Runs : RunInv(r)

-----------------------------------------------------------------------------
(* Frames: what a step of one run, or of nobody, leaves to the others. *)

(* The errors and causes that Run tells apart are different strings. *)
LEMMA ErrorsDistinct ==
    /\ {NilErr, ErrRetire, ErrFenced, WorkFailed, WorkPermanent} \subseteq RunResults
    /\ Unset \notin RunResults /\ NoCause \notin {CauseFenced, CauseExhausted}
    /\ CauseFenced = ErrFenced /\ CauseExhausted # ErrFenced
    /\ CauseExhausted \notin {NilErr, ErrRetire, WorkFailed, WorkPermanent}
    /\ ErrFenced \notin {NilErr, ErrRetire, WorkFailed, WorkPermanent, ErrRead, ErrCheckpoint,
                         ErrRelease, Panicked, ErrLeaseHeld, ErrOther, OK}
    /\ NilErr \notin {ErrRetire, WorkFailed, WorkPermanent, ErrRead, ErrCheckpoint,
                      ErrRelease, Panicked, ErrLeaseHeld, ErrOther, OK}
    /\ \A e \in {WorkFailed, WorkPermanent} :
          e \notin {Unset, ErrRetire, ErrRead, ErrCheckpoint, ErrRelease, Panicked, ErrLeaseHeld, ErrOther}
    /\ {ErrRead, ErrCheckpoint, ErrRelease, Panicked, ErrLeaseHeld, ErrOther, CauseExhausted}
          \subseteq RunResults
    /\ OK \notin {ErrLeaseHeld, ErrLeaseExpired, ErrOther}
  BY DEF NilErr, ErrRetire, ErrFenced, WorkFailed, WorkPermanent, RunResults, Unset, NoCause,
         CauseFenced, CauseExhausted, ErrRead, ErrCheckpoint, ErrRelease, Panicked,
         ErrLeaseHeld, ErrOther, OK, ErrLeaseExpired

(* TypeOK contains the type of the ledger. *)
LEMMA TypedLedger == TypeOK => LedgerOK /\ TokenSpace \subseteq Nat
  BY DEF TypeOK, LedgerOK

(* A fencing that a run met stays true of its token. *)
LEMMA RunStaysFenced ==
    ASSUME NEW r \in Runs, tok[r] \in Tokens, tok'[r] = tok[r], LedgerAges, Fenced(tok[r])
    PROVE  Fenced(tok[r])'
  BY DEF LedgerAges, Fenced, C!Current, C!Newest, C!Tokens, Tokens

(* The variables of run q are left alone. *)
RunUntouched(q) ==
    /\ pc'[q] = pc[q] /\ tok'[q] = tok[q] /\ cause'[q] = cause[q] /\ workErr'[q] = workErr[q]
    /\ final'[q] = final[q] /\ mode'[q] = mode[q] /\ result'[q] = result[q]

(* A run keeps its invariant when neither it nor its tenure is written to. *)
LEMMA RunKept ==
    ASSUME TypeOK, NEW q \in Runs, RunInv(q), LedgerAges, RunUntouched(q),
           tok[q] # 0 => WritesKept(tok[q])
    PROVE  RunInv(q)'
  <1>1. tok[q] # 0 => tok[q] \in Tokens
    BY DEF TypeOK
  <1>2. tok[q] # 0 /\ Fenced(tok[q]) => Fenced(tok[q])'
    BY <1>1, RunStaysFenced DEF RunUntouched
  <1>3. tok[q] = 0 => Tokenless(q)' /\ Progress(q)' /\ LossIsTrue(q)' /\ Decided(q)' /\ Recorded(q)' /\ Answered(q)'
    BY ErrorsDistinct DEF RunUntouched, RunInv, Tokenless, Progress, LossIsTrue, Decided, Recorded, Answered, HasLease,
       Unset, NoCause, CauseFenced, ErrFenced, WorkFailed, WorkPermanent
  <1>4. ASSUME tok[q] # 0
        PROVE  Tokenless(q)' /\ Progress(q)' /\ LossIsTrue(q)' /\ Recorded(q)' /\ Answered(q)' /\ Decided(q)'
    <2>1. Tokenless(q)' /\ Progress(q)'
      BY <1>4 DEF RunUntouched, WritesKept, RunInv, Tokenless, Progress, HasLease
    <2>2. LossIsTrue(q)'
      BY <1>2, <1>4 DEF RunUntouched, RunInv, LossIsTrue
    <2>3. Recorded(q)' /\ Decided(q)'
      BY <1>4 DEF RunUntouched, WritesKept, RunInv, Recorded, Decided, FinalSaved
    <2>4. Answered(q)'
      BY <1>2, <1>4 DEF RunUntouched, WritesKept, RunInv, Answered
    <2> QED BY <2>1, <2>2, <2>3, <2>4
  <1> QED BY <1>3, <1>4 DEF RunInv

(* A step of the run r, its effect on the world. *)
StepOf(r) ==
    /\ LedgerAges
    /\ \A u \in Tokens : u # tok[r] => WritesKept(u)
    /\ \A q \in Runs \ {r} : RunUntouched(q)
    /\ tok'[r] = tok[r] \/ tok'[r] \notin Tokens

(* A step of run r preserves the invariant once it preserves that of r. *)
LEMMA OthersKept ==
    ASSUME Inv, NEW r \in Runs, StepOf(r), TypeOK', RunInv(r)'
    PROVE  Inv'
  <1>1. ASSUME NEW q \in Runs, q # r PROVE RunInv(q)'
    <2>1. tok[q] # 0 => tok[q] \in Tokens /\ tok[q] # tok[r]
      BY <1>1 DEF Inv, TypeOK, TokensAreOwn
    <2> QED BY <1>1, <2>1, RunKept DEF Inv, StepOf
  <1>2. TokensAreOwn'
    BY DEF Inv, TypeOK, TokensAreOwn, StepOf, RunUntouched
  <1> QED BY <1>1, <1>2 DEF Inv

-----------------------------------------------------------------------------
(* One lemma per step of Run. *)

(* Acquire: a granted tenure is the run's own and open; a failed call      *)
(* leaves the run without a token.                                         *)
LEMMA AcquireStep ==
    ASSUME Inv, NEW r \in Runs, NEW t \in TokenSpace, NEW err \in Errors, Acquire(r, t, err)
    PROVE  StepOf(r) /\ TypeOK' /\ RunInv(r)'
  <1>0. /\ TypeOK /\ LedgerOK /\ TokenSpace \subseteq Nat /\ pc[r] = "call" /\ RunInv(r)
        /\ AcquireCall(WorkOf[r], HolderOf[r], t, err)
        /\ WorkOf[r] \in WorkIDs /\ HolderOf[r] \in HolderIDs
    BY TypedLedger DEF Inv, Acquire
  <1>1. /\ LedgerOK' /\ LedgerAges /\ \A u \in Tokens : WritesKept(u)
        /\ err \in {OK, ErrLeaseHeld} \union Faults
        /\ err = OK => C!Grant(t, WorkOf[r], HolderOf[r])
    BY <1>0, AcquireEffect
  <1>2. tok[r] = 0 /\ workErr[r] = Unset /\ cause[r] = NoCause
    BY <1>0 DEF RunInv, Progress, Tokenless
  <1>3. CASE err = OK
    <2>1. /\ t \notin Tokens /\ Tokens' = Tokens \union {t} /\ t # 0
          /\ ledger'[t].exit = ExitNone
      BY <1>0, <1>1, <1>3, GrantAdds
    <2>2. /\ pc' = [pc EXCEPT ![r] = "acquired"] /\ tok' = [tok EXCEPT ![r] = t]
          /\ UNCHANGED <<cancelled, cause, workErr, final, mode, result>>
      BY <1>3 DEF Acquire
    <2>3. TypeOK'
      BY <1>0, <1>1, <2>1, <2>2 DEF TypeOK, LedgerOK
    <2>4. /\ pc'[r] = "acquired" /\ tok'[r] = t /\ workErr'[r] = Unset /\ cause'[r] = NoCause
      BY <1>0, <1>2, <2>2 DEF TypeOK
    <2>5. RunInv(r)'
      BY <2>1, <2>4, ErrorsDistinct DEF RunInv, Tokenless, Progress, HasLease, LossIsTrue, Decided,
         Recorded, Answered, Unset, ErrFenced
    <2>6. StepOf(r)
      BY <1>0, <1>1, <2>1, <2>2 DEF StepOf, RunUntouched, TypeOK
    <2> QED BY <2>3, <2>5, <2>6
  <1>4. CASE err # OK
    <2>1. /\ pc' = [pc EXCEPT ![r] = "returned"] /\ result' = [result EXCEPT ![r] = err]
          /\ UNCHANGED <<tok, cancelled, cause, workErr, final, mode>>
      BY <1>4 DEF Acquire, Return
    <2>2. err \in {ErrLeaseHeld, ErrOther}
      BY <1>1, <1>4 DEF Errors, Faults, ErrContext, ErrOther, OK, ErrFenced, ErrLeaseHeld, ErrLeaseExpired
    <2>3. TypeOK'
      BY <1>0, <1>1, <2>1, <2>2, ErrorsDistinct DEF TypeOK, LedgerOK, LedgerAges
    <2>4. /\ pc'[r] = "returned" /\ tok'[r] = 0 /\ workErr'[r] = Unset /\ cause'[r] = NoCause
          /\ result'[r] = err
      BY <1>0, <1>2, <2>1 DEF TypeOK
    <2>5. RunInv(r)'
      BY <2>2, <2>4, ErrorsDistinct DEF RunInv, Tokenless, Progress, HasLease, LossIsTrue, Decided,
         Recorded, Answered, Unset, ErrFenced, WorkFailed, WorkPermanent
    <2>6. StepOf(r)
      BY <1>0, <1>1, <2>1 DEF StepOf, RunUntouched, TypeOK
    <2> QED BY <2>3, <2>5, <2>6
  <1> QED BY <1>3, <1>4

(* A step that writes nothing and moves only r keeps the types of the      *)
(* ledger and the other runs.                                              *)
LEMMA QuietStep ==
    ASSUME Inv, NEW r \in Runs, UNCHANGED <<ledger, tok>>,
           \A q \in Runs \ {r} : RunUntouched(q)
    PROVE  /\ StepOf(r) /\ LedgerOK' /\ Tokens' = Tokens
           /\ tok[r] # 0 => WritesKept(tok[r])
           /\ tok[r] # 0 /\ Fenced(tok[r]) => Fenced(tok[r])'
  <1>1. TypeOK /\ LedgerOK
    BY TypedLedger DEF Inv
  <1>2. tok[r] # 0 => tok[r] \in Tokens
    BY <1>1 DEF TypeOK
  <1>3. LedgerAges /\ LedgerOK' /\ Tokens' = Tokens /\ \A u \in Tokens : WritesKept(u)
    BY <1>1, NothingWritten
  <1>4. tok[r] # 0 /\ Fenced(tok[r]) => Fenced(tok[r])'
    BY <1>2, <1>3, RunStaysFenced
  <1> QED BY <1>2, <1>3, <1>4 DEF StepOf

(* ReadCheckpoint: ErrFenced is returned as it is, and is true. *)
LEMMA ReadStep ==
    ASSUME Inv, NEW r \in Runs, NEW state, NEW err \in Errors, ReadCheckpoint(r, state, err)
    PROVE  StepOf(r) /\ TypeOK' /\ RunInv(r)'
  <1>0. /\ TypeOK /\ RunInv(r) /\ pc[r] = "acquired" /\ UNCHANGED <<ledger, tok>>
        /\ UNCHANGED <<cancelled, cause, workErr, final, mode>>
        /\ err = ErrFenced => Fenced(tok[r])
    BY DEF Inv, ReadCheckpoint, ReadCheckpointCall, Faults, ErrFenced, OK, ErrOther, ErrContext
  <1>1. /\ tok[r] # 0 /\ workErr[r] = Unset /\ ledger[tok[r]].exit = ExitNone
    BY <1>0 DEF RunInv, Tokenless, Progress, HasLease
  <1>2. /\ pc' = [pc EXCEPT ![r] = IF err = OK THEN "working" ELSE "returned"]
        /\ result' = IF err = OK THEN result
                     ELSE [result EXCEPT ![r] = IF err = ErrFenced THEN ErrFenced ELSE ErrRead]
    BY DEF ReadCheckpoint, Return
  <1>3. \A q \in Runs \ {r} : RunUntouched(q)
    BY <1>0, <1>2 DEF RunUntouched, TypeOK
  <1>4. /\ StepOf(r) /\ LedgerOK' /\ Tokens' = Tokens /\ WritesKept(tok[r])
        /\ Fenced(tok[r]) => Fenced(tok[r])'
    BY <1>0, <1>1, <1>3, QuietStep
  <1>5. TypeOK'
    BY <1>0, <1>2, <1>4, ErrorsDistinct DEF TypeOK, LedgerOK
  <1>6. /\ pc'[r] = (IF err = OK THEN "working" ELSE "returned")
        /\ err # OK => result'[r] = IF err = ErrFenced THEN ErrFenced ELSE ErrRead
    BY <1>0, <1>2 DEF TypeOK
  <1>7. RunInv(r)'
    <2>1. Tokenless(r)' /\ Progress(r)' /\ Decided(r)' /\ Recorded(r)'
      BY <1>0, <1>1, <1>4, <1>6 DEF RunInv, Tokenless, Progress, HasLease, Decided, Recorded, WritesKept
    <2>2. LossIsTrue(r)'
      BY <1>0, <1>1, <1>4 DEF RunInv, LossIsTrue, WritesKept
    <2>3. Answered(r)'
      BY <1>0, <1>1, <1>4, <1>6, ErrorsDistinct DEF RunInv, Answered, Unset, WorkFailed, WorkPermanent
    <2> QED BY <2>1, <2>2, <2>3 DEF RunInv
  <1> QED BY <1>4, <1>5, <1>7

(* WorkFn saves state: no exit, and no other tenure, is touched. *)
LEMMA WorkCheckpointStep ==
    ASSUME Inv, NEW r \in Runs, NEW state \in States \union {NoState}, NEW err \in Errors,
           WorkCheckpoint(r, state, err)
    PROVE  StepOf(r) /\ TypeOK' /\ RunInv(r)'
  <1>0. /\ TypeOK /\ LedgerOK /\ RunInv(r) /\ pc[r] = "working" /\ UNCHANGED runVars
        /\ CheckpointCall(tok[r], state, err)
    BY TypedLedger DEF Inv, WorkCheckpoint
  <1>1. /\ tok[r] # 0 /\ tok[r] \in Tokens /\ workErr[r] = Unset
        /\ ledger[tok[r]].exit = ExitNone
    BY <1>0 DEF TypeOK, RunInv, Tokenless, Progress, HasLease
  <1>2. /\ LedgerOK' /\ LedgerAges /\ Tokens' = Tokens
        /\ \A u \in Tokens : u # tok[r] => WritesKept(u)
        /\ ledger'[tok[r]].exit = ExitNone
    BY <1>0, <1>1, CheckpointEffect
  <1>3. TypeOK'
    BY <1>0, <1>2 DEF TypeOK, LedgerOK, runVars
  <1>4. StepOf(r)
    BY <1>0, <1>2 DEF StepOf, RunUntouched, runVars
  <1>5. Fenced(tok[r]) => Fenced(tok[r])'
    BY <1>0, <1>1, <1>2, RunStaysFenced DEF runVars
  <1>6. RunInv(r)'
    BY <1>0, <1>1, <1>2, <1>5 DEF runVars, RunInv, Tokenless, Progress, HasLease, LossIsTrue, Decided,
       Recorded, Answered
  <1> QED BY <1>3, <1>4, <1>6

(* WorkFn returns: ErrFenced only if it met a fencing. *)
LEMMA WorkReturnsStep ==
    ASSUME Inv, NEW r \in Runs, NEW state \in Finals, NEW err \in WorkErrs,
           WorkReturns(r, state, err)
    PROVE  StepOf(r) /\ TypeOK' /\ RunInv(r)'
  <1>0. /\ TypeOK /\ RunInv(r) /\ pc[r] = "working"
        /\ err = ErrFenced => Fenced(tok[r])
        /\ pc' = [pc EXCEPT ![r] = "worked"] /\ workErr' = [workErr EXCEPT ![r] = err]
        /\ final' = [final EXCEPT ![r] = state]
        /\ UNCHANGED <<ledger, tok>> /\ UNCHANGED <<cancelled, cause, mode, result>>
    BY DEF Inv, WorkReturns
  <1>1. tok[r] # 0 /\ ledger[tok[r]].exit = ExitNone
    BY <1>0 DEF RunInv, Tokenless, Progress, HasLease
  <1>2. \A q \in Runs \ {r} : RunUntouched(q)
    BY <1>0 DEF RunUntouched, TypeOK
  <1>3. /\ StepOf(r) /\ LedgerOK' /\ Tokens' = Tokens /\ WritesKept(tok[r])
        /\ Fenced(tok[r]) => Fenced(tok[r])'
    BY <1>0, <1>1, <1>2, QuietStep
  <1>4. TypeOK'
    BY <1>0, <1>3 DEF TypeOK, LedgerOK
  <1>5. pc'[r] = "worked" /\ workErr'[r] = err /\ err # Unset
    BY <1>0, ErrorsDistinct DEF TypeOK
  <1>6. RunInv(r)'
    <2>1. LossIsTrue(r)'
      BY <1>0, <1>3, <1>5 DEF RunInv, LossIsTrue
    <2>2. Tokenless(r)' /\ Progress(r)' /\ Decided(r)' /\ Recorded(r)' /\ Answered(r)'
      BY <1>0, <1>1, <1>3, <1>5 DEF RunInv, Tokenless, Progress, HasLease, Decided, Recorded, Answered,
         WritesKept
    <2> QED BY <2>1, <2>2 DEF RunInv
  <1> QED BY <1>3, <1>4, <1>6

(* WorkFn panics: nothing is declared. *)
LEMMA WorkPanicsStep ==
    ASSUME Inv, NEW r \in Runs, WorkPanics(r)
    PROVE  StepOf(r) /\ TypeOK' /\ RunInv(r)'
  <1>0. /\ TypeOK /\ RunInv(r) /\ pc[r] = "working"
        /\ pc' = [pc EXCEPT ![r] = "returned"] /\ result' = [result EXCEPT ![r] = Panicked]
        /\ UNCHANGED <<ledger, tok>> /\ UNCHANGED <<cancelled, cause, workErr, final, mode>>
    BY DEF Inv, WorkPanics, Return
  <1>1. tok[r] # 0 /\ ledger[tok[r]].exit = ExitNone /\ workErr[r] = Unset
    BY <1>0 DEF RunInv, Tokenless, Progress, HasLease
  <1>2. \A q \in Runs \ {r} : RunUntouched(q)
    BY <1>0 DEF RunUntouched, TypeOK
  <1>3. /\ StepOf(r) /\ LedgerOK' /\ Tokens' = Tokens /\ WritesKept(tok[r])
        /\ Fenced(tok[r]) => Fenced(tok[r])'
    BY <1>0, <1>1, <1>2, QuietStep
  <1>4. TypeOK'
    BY <1>0, <1>3, ErrorsDistinct DEF TypeOK, LedgerOK
  <1>5. pc'[r] = "returned" /\ result'[r] = Panicked
    BY <1>0 DEF TypeOK
  <1>6. RunInv(r)'
    <2>1. LossIsTrue(r)'
      BY <1>0, <1>3 DEF RunInv, LossIsTrue
    <2>2. Tokenless(r)' /\ Progress(r)' /\ Decided(r)' /\ Recorded(r)'
      BY <1>0, <1>1, <1>3, <1>5 DEF RunInv, Tokenless, Progress, HasLease, Decided, Recorded, WritesKept
    <2>3. Answered(r)'
      BY <1>0, <1>1, <1>5, ErrorsDistinct DEF Answered, Unset, WorkFailed, WorkPermanent
    <2> QED BY <2>1, <2>2, <2>3 DEF RunInv
  <1> QED BY <1>3, <1>4, <1>6

(* The renewal goroutine cancels: with ErrFenced only if that is true. *)
LEMMA LoseLeaseStep ==
    ASSUME Inv, NEW r \in Runs, NEW c \in {CauseFenced, CauseExhausted}, LoseLease(r, c)
    PROVE  StepOf(r) /\ TypeOK' /\ RunInv(r)'
  <1>0. /\ TypeOK /\ RunInv(r) /\ pc[r] \in {"working", "worked"}
        /\ c = CauseFenced => Fenced(tok[r])
        /\ cause' = [cause EXCEPT ![r] = c]
        /\ UNCHANGED <<ledger, tok>> /\ UNCHANGED <<pc, cancelled, workErr, final, mode, result>>
    BY ErrorsDistinct DEF Inv, LoseLease, Renewing, RenewalLoss
  <1>1. tok[r] # 0 /\ ledger[tok[r]].exit = ExitNone
    BY <1>0 DEF RunInv, Tokenless, Progress, HasLease
  <1>2. \A q \in Runs \ {r} : RunUntouched(q)
    BY <1>0 DEF RunUntouched, TypeOK
  <1>3. /\ StepOf(r) /\ LedgerOK' /\ Tokens' = Tokens /\ WritesKept(tok[r])
        /\ Fenced(tok[r]) => Fenced(tok[r])'
    BY <1>0, <1>1, <1>2, QuietStep
  <1>4. TypeOK'
    BY <1>0, <1>3 DEF TypeOK, LedgerOK
  <1>5. cause'[r] = c
    BY <1>0 DEF TypeOK
  <1>6. RunInv(r)'
    <2>1. LossIsTrue(r)'
      BY <1>0, <1>3, <1>5 DEF RunInv, LossIsTrue
    <2>2. Tokenless(r)' /\ Progress(r)' /\ Decided(r)' /\ Recorded(r)' /\ Answered(r)'
      BY <1>0, <1>1, <1>3, <1>5 DEF RunInv, Tokenless, Progress, HasLease, Decided, Recorded, Answered,
         WritesKept
    <2> QED BY <2>1, <2>2 DEF RunInv
  <1> QED BY <1>3, <1>4, <1>6

(* The caller cancels, or the process dies: what was written stays. *)
LEMMA CancelOrCrashStep ==
    ASSUME Inv, NEW r \in Runs, Cancel(r) \/ Crash(r)
    PROVE  StepOf(r) /\ TypeOK' /\ RunInv(r)'
  <1>0. /\ TypeOK /\ RunInv(r)
        /\ UNCHANGED <<ledger, tok>> /\ UNCHANGED <<cause, workErr, final, mode, result>>
        /\ pc' = pc \/ pc' = [pc EXCEPT ![r] = "crashed"]
        /\ cancelled' = cancelled \/ cancelled' = [cancelled EXCEPT ![r] = TRUE]
    BY DEF Inv, Cancel, Crash
  <1>2. \A q \in Runs \ {r} : RunUntouched(q)
    BY <1>0 DEF RunUntouched, TypeOK
  <1>3. /\ StepOf(r) /\ LedgerOK' /\ Tokens' = Tokens /\ LedgerAges
        /\ tok[r] # 0 => WritesKept(tok[r])
        /\ tok[r] # 0 /\ Fenced(tok[r]) => Fenced(tok[r])'
    BY <1>0, <1>2, QuietStep DEF StepOf
  <1>4. TypeOK'
    BY <1>0, <1>3 DEF TypeOK, LedgerOK
  <1>5. ASSUME pc' = pc PROVE RunInv(r)'
    BY <1>0, <1>3, <1>5, RunKept DEF RunUntouched
  <1>6. ASSUME pc' = [pc EXCEPT ![r] = "crashed"] PROVE RunInv(r)'
    <2>1. pc'[r] = "crashed"
      BY <1>0, <1>6 DEF TypeOK
    <2>2. LossIsTrue(r)'
      BY <1>0, <1>3, ErrorsDistinct DEF RunInv, LossIsTrue, Tokenless, Unset, ErrFenced
    <2>3. Tokenless(r)' /\ Progress(r)' /\ Decided(r)' /\ Answered(r)'
      BY <1>0, <2>1 DEF RunInv, Tokenless, Progress, HasLease, Decided, Answered
    <2>4. Recorded(r)'
      BY <1>0 DEF RunInv, Recorded, FinalSaved
    <2> QED BY <2>2, <2>3, <2>4 DEF RunInv
  <1> QED BY <1>0, <1>3, <1>4, <1>5, <1>6

(* stopRenewal and the classification: a lost lease returns without        *)
(* writing; otherwise exit mode and result follow WorkFn's error.          *)
LEMMA ClassifyStep ==
    ASSUME Inv, NEW r \in Runs, StopAndClassify(r)
    PROVE  StepOf(r) /\ TypeOK' /\ RunInv(r)'
  <1>0. /\ TypeOK /\ RunInv(r) /\ pc[r] = "worked" /\ workErr[r] \in WorkErrs
        /\ UNCHANGED <<ledger, tok>> /\ UNCHANGED <<cancelled, cause, workErr, final>>
    BY DEF Inv, TypeOK, RunInv, Progress, StopAndClassify
  <1>1. tok[r] # 0 /\ ledger[tok[r]].exit = ExitNone /\ workErr[r] # Unset
    BY <1>0 DEF RunInv, Tokenless, Progress, HasLease
  <1>2. CASE LostAlready(r)
    <2>1. /\ pc' = [pc EXCEPT ![r] = "returned"] /\ result' = [result EXCEPT ![r] = LostResult(r)]
          /\ mode' = mode
      BY <1>2 DEF StopAndClassify, Return
    <2>2. /\ LostResult(r) \in RunResults \ {NilErr}
          /\ LostResult(r) = ErrFenced => workErr[r] = ErrFenced \/ cause[r] = CauseFenced
          /\ workErr[r] \in {WorkFailed, WorkPermanent} => LostResult(r) \in {workErr[r], ErrFenced}
          /\ LostResult(r) \in {WorkFailed, WorkPermanent} => workErr[r] = LostResult(r)
      BY <1>0, <1>2, ErrorsDistinct DEF LostResult, LostAlready, TypeOK
    <2>3. \A q \in Runs \ {r} : RunUntouched(q)
      BY <1>0, <2>1 DEF RunUntouched, TypeOK
    <2>4. /\ StepOf(r) /\ LedgerOK' /\ Tokens' = Tokens /\ WritesKept(tok[r])
          /\ Fenced(tok[r]) => Fenced(tok[r])'
      BY <1>0, <1>1, <2>3, QuietStep
    <2>5. TypeOK'
      BY <1>0, <2>1, <2>2, <2>4 DEF TypeOK, LedgerOK
    <2>6. pc'[r] = "returned" /\ result'[r] = LostResult(r)
      BY <1>0, <2>1 DEF TypeOK
    <2>7. LossIsTrue(r)'
      BY <1>0, <2>4 DEF RunInv, LossIsTrue
    <2>8. Tokenless(r)' /\ Progress(r)' /\ Decided(r)' /\ Recorded(r)'
      BY <1>0, <1>1, <2>4, <2>6 DEF RunInv, Tokenless, Progress, HasLease, Decided, Recorded, WritesKept
    <2>9. Answered(r)'
      BY <1>0, <2>2, <2>4, <2>6 DEF RunInv, LossIsTrue, Answered
    <2> QED BY <2>4, <2>5, <2>7, <2>8, <2>9 DEF RunInv
  <1>3. CASE ~LostAlready(r)
    <2> DEFINE m == CASE workErr[r] = ErrRetire -> ExitRetired
                      [] workErr[r] = NilErr    -> ExitFinished
                      [] OTHER                  -> ExitAbandoned
               e == IF workErr[r] = ErrRetire THEN NilErr ELSE workErr[r]
    <2>1. /\ pc' = [pc EXCEPT ![r] = "cleanup"] /\ mode' = [mode EXCEPT ![r] = m]
          /\ result' = [result EXCEPT ![r] = e]
      BY <1>3 DEF StopAndClassify
    <2>2. /\ m \in DeclarableExits /\ m \in StoredExits /\ e \in RunResults \ {ErrFenced}
          /\ m = ExitAbandoned => e # NilErr
          /\ m # ExitAbandoned => workErr[r] = IF m = ExitRetired THEN ErrRetire ELSE NilErr
          /\ workErr[r] \in {WorkFailed, WorkPermanent} => e = workErr[r]
          /\ e \in {WorkFailed, WorkPermanent} => workErr[r] = e
      BY <1>0, <1>3, ErrorsDistinct, ExitsDistinct DEF LostAlready
    <2>3. cause[r] = NoCause /\ workErr[r] # ErrFenced
      BY <1>0, <1>3, ErrorsDistinct DEF LostAlready, TypeOK
    <2> HIDE DEF m, e
    <2>4. \A q \in Runs \ {r} : RunUntouched(q)
      BY <1>0, <2>1 DEF RunUntouched, TypeOK
    <2>5. /\ StepOf(r) /\ LedgerOK' /\ Tokens' = Tokens /\ WritesKept(tok[r])
          /\ Fenced(tok[r]) => Fenced(tok[r])'
      BY <1>0, <1>1, <2>4, QuietStep
    <2>6. TypeOK'
      BY <1>0, <2>1, <2>2, <2>5 DEF TypeOK, LedgerOK
    <2>7. pc'[r] = "cleanup" /\ mode'[r] = m /\ result'[r] = e
      BY <1>0, <2>1 DEF TypeOK
    <2>8. LossIsTrue(r)'
      BY <1>0, <2>5 DEF RunInv, LossIsTrue
    <2>9. Tokenless(r)' /\ Progress(r)' /\ Recorded(r)' /\ Answered(r)'
      BY <1>0, <1>1, <2>5, <2>7 DEF RunInv, Tokenless, Progress, HasLease, Recorded, Answered, WritesKept
    <2>10. Decided(r)'
      BY <1>0, <2>2, <2>3, <2>7 DEF Decided
    <2> QED BY <2>5, <2>6, <2>8, <2>9, <2>10 DEF RunInv
  <1> QED BY <1>2, <1>3

(* The final Checkpoint: a success goes on to Release only with the final  *)
(* state stored, any failure turns the exit into Abandoned.                *)
LEMMA FinalCheckpointStep ==
    ASSUME Inv, NEW r \in Runs, NEW err \in Errors, FinalCheckpoint(r, err)
    PROVE  StepOf(r) /\ TypeOK' /\ RunInv(r)'
  <1>0. /\ TypeOK /\ LedgerOK /\ RunInv(r) /\ pc[r] = "cleanup"
        /\ UNCHANGED <<tok, cancelled, cause, workErr, final>>
        /\ final[r] # NoState => AsStored(final[r]) \in States \union {NoState}
    BY TypedLedger DEF Inv, TypeOK, FinalCheckpoint, AsStored
  <1>1. /\ tok[r] # 0 /\ tok[r] \in Tokens /\ workErr[r] # Unset
        /\ ledger[tok[r]].exit = ExitNone
    BY <1>0 DEF TypeOK, RunInv, Tokenless, Progress, HasLease
  <1>2. /\ LedgerOK' /\ LedgerAges /\ Tokens' = Tokens
        /\ \A u \in Tokens : u # tok[r] => WritesKept(u)
        /\ ledger'[tok[r]].exit = ExitNone
        /\ err = OK /\ final[r] # NoState => ledger'[tok[r]].saved = {AsStored(final[r])}
        /\ err = ErrFenced => Fenced(tok[r])
    <2>1. CASE final[r] = NoState
      BY <1>0, <1>1, <2>1, NothingWritten, ErrorsDistinct DEF FinalCheckpoint, WritesKept
    <2>2. CASE final[r] # NoState
      BY <1>0, <1>1, <2>2, CheckpointEffect DEF FinalCheckpoint
    <2> QED BY <2>1, <2>2
  <1>3. Fenced(tok[r]) => Fenced(tok[r])'
    BY <1>0, <1>1, <1>2, RunStaysFenced
  <1>4. LossIsTrue(r)'
    BY <1>0, <1>3 DEF RunInv, LossIsTrue
  <1>5. CASE err = ErrFenced
    <2>1. /\ pc' = [pc EXCEPT ![r] = "returned"] /\ result' = [result EXCEPT ![r] = ErrFenced]
          /\ mode' = mode
      BY <1>5 DEF FinalCheckpoint, Return
    <2>2. TypeOK'
      BY <1>0, <1>2, <2>1, ErrorsDistinct DEF TypeOK, LedgerOK
    <2>3. StepOf(r)
      BY <1>0, <1>2, <2>1 DEF StepOf, RunUntouched, TypeOK
    <2>4. pc'[r] = "returned" /\ result'[r] = ErrFenced
      BY <1>0, <2>1 DEF TypeOK
    <2>5. Tokenless(r)' /\ Progress(r)' /\ Decided(r)' /\ Recorded(r)'
      BY <1>0, <1>1, <1>2, <2>4 DEF RunInv, Tokenless, Progress, HasLease, Decided, Recorded
    <2>6. Answered(r)'
      BY <1>2, <1>3, <1>5, <2>4, ErrorsDistinct DEF Answered
    <2> QED BY <1>4, <2>2, <2>3, <2>5, <2>6 DEF RunInv
  <1>6. CASE err # ErrFenced
    <2>1. /\ pc' = [pc EXCEPT ![r] = "release"]
          /\ mode' = [mode EXCEPT ![r] = ModeAfterCheckpoint(r, err)]
          /\ result' = [result EXCEPT ![r] = ResultAfterCheckpoint(r, err)]
      BY <1>6 DEF FinalCheckpoint
    <2>2. /\ ModeAfterCheckpoint(r, err) \in StoredExits
          /\ ResultAfterCheckpoint(r, err) \in RunResults \union {Unset}
      BY <1>0, ErrorsDistinct, ExitsDistinct DEF TypeOK, ModeAfterCheckpoint, ResultAfterCheckpoint
    <2>3. TypeOK'
      BY <1>0, <1>2, <2>1, <2>2 DEF TypeOK, LedgerOK
    <2>4. StepOf(r)
      BY <1>0, <1>2, <2>1 DEF StepOf, RunUntouched, TypeOK
    <2>5. /\ pc'[r] = "release" /\ mode'[r] = ModeAfterCheckpoint(r, err)
          /\ result'[r] = ResultAfterCheckpoint(r, err)
      BY <1>0, <2>1 DEF TypeOK
    <2>6. Tokenless(r)' /\ Progress(r)' /\ Recorded(r)' /\ Answered(r)'
      BY <1>0, <1>1, <1>2, <2>5 DEF RunInv, Tokenless, Progress, HasLease, Answered, Recorded
    <2>7. Decided(r)'
      BY <1>0, <1>2, <2>5, ErrorsDistinct, ExitsDistinct
         DEF RunInv, Decided, FinalSaved, ModeAfterCheckpoint, ResultAfterCheckpoint
    <2> QED BY <1>4, <2>3, <2>4, <2>6, <2>7 DEF RunInv
  <1> QED BY <1>5, <1>6

(* Release: nil is returned only if the exit is recorded; an exit that was *)
(* recorded while the reply was lost is still the right one.               *)
LEMMA ReleaseStep ==
    ASSUME Inv, NEW r \in Runs, NEW err \in Errors, Release(r, err)
    PROVE  StepOf(r) /\ TypeOK' /\ RunInv(r)'
  <1>0. /\ TypeOK /\ LedgerOK /\ RunInv(r) /\ pc[r] = "release"
        /\ ReleaseCall(tok[r], mode[r], err)
        /\ pc' = [pc EXCEPT ![r] = "returned"]
        /\ result' = [result EXCEPT ![r] = ResultAfterRelease(r, err)]
        /\ UNCHANGED <<tok, cancelled, cause, workErr, final, mode>>
    BY TypedLedger DEF Inv, Release, Return
  <1>1. /\ tok[r] # 0 /\ tok[r] \in Tokens /\ workErr[r] # Unset
        /\ ledger[tok[r]].exit = ExitNone /\ mode[r] \in DeclarableExits
    BY <1>0 DEF TypeOK, RunInv, Tokenless, Progress, HasLease, Decided
  <1>2. /\ LedgerOK' /\ LedgerAges /\ Tokens' = Tokens
        /\ \A u \in Tokens : u # tok[r] => WritesKept(u)
        /\ ledger'[tok[r]].saved = ledger[tok[r]].saved
        /\ ledger'[tok[r]].exit \in {ExitNone, mode[r]}
        /\ err = OK => ledger'[tok[r]].exit = mode[r]
        /\ err = ErrFenced => Fenced(tok[r])
    BY <1>0, <1>1, ReleaseEffect
  <1>3. Fenced(tok[r]) => Fenced(tok[r])'
    BY <1>0, <1>1, <1>2, RunStaysFenced
  <1>4. LossIsTrue(r)'
    BY <1>0, <1>3 DEF RunInv, LossIsTrue
  <1>5. ResultAfterRelease(r, err) \in RunResults \union {Unset}
    BY <1>0, ErrorsDistinct DEF TypeOK, ResultAfterRelease
  <1>6. TypeOK'
    BY <1>0, <1>2, <1>5 DEF TypeOK, LedgerOK
  <1>7. StepOf(r)
    BY <1>0, <1>2 DEF StepOf, RunUntouched, TypeOK
  <1>8. pc'[r] = "returned" /\ result'[r] = ResultAfterRelease(r, err)
    BY <1>0 DEF TypeOK
  <1>9. Tokenless(r)' /\ Progress(r)' /\ Decided(r)'
    BY <1>0, <1>1, <1>8 DEF RunInv, Tokenless, Progress, HasLease, Decided
  <1>10. Recorded(r)'
    BY <1>0, <1>1, <1>2 DEF RunInv, Decided, Recorded, FinalSaved
  <1>11. Answered(r)'
    <2>1. /\ result'[r] = NilErr => err = OK /\ result[r] = NilErr
          /\ result'[r] = ErrFenced => err = ErrFenced
          /\ result'[r] \in {result[r], ErrFenced} \/ result[r] = NilErr
          /\ result'[r] \in {WorkFailed, WorkPermanent} => result'[r] = result[r]
      BY <1>0, <1>8, ErrorsDistinct DEF RunInv, Decided, ResultAfterRelease
    <2>2. result'[r] = NilErr => ledger'[tok[r]].exit \in {ExitFinished, ExitRetired}
      BY <1>0, <1>2, <2>1, ExitsDistinct DEF RunInv, Decided
    <2> QED BY <1>0, <1>1, <1>2, <1>3, <2>1, <2>2, ErrorsDistinct DEF RunInv, Decided, Answered
  <1> QED BY <1>4, <1>6, <1>7, <1>9, <1>10, <1>11 DEF RunInv

-----------------------------------------------------------------------------
(* The invariant is inductive. *)

(* No run has been called yet. *)
LEMMA InvInit == Init => Inv
  <1> SUFFICES ASSUME Init PROVE Inv
    OBVIOUS
  <1>1. Tokens = {}
    BY DEF Init, C!Init, Tokens
  <1>2. TypeOK
    BY <1>1, ExitsDistinct DEF Init, TypeOK
  <1>3. TokensAreOwn
    BY DEF Init, TokensAreOwn
  <1>4. \A r \in Runs : RunInv(r)
    BY ErrorsDistinct DEF Init, RunInv, Tokenless, Progress, HasLease, LossIsTrue, Decided, Recorded,
       Answered, Unset, NilErr, ErrFenced
  <1> QED BY <1>2, <1>3, <1>4 DEF Inv

(* A step of a run, of its renewal goroutine or of its caller, or its      *)
(* crash, preserves the invariant and touches no other run.                *)
LEMMA RunPreserves ==
    ASSUME Inv, NEW r \in Runs, RunStep(r) \/ Cancel(r) \/ Crash(r)
    PROVE  StepOf(r) /\ Inv'
  <1>1. CASE Acquires(r)
    BY <1>1, AcquireStep, OthersKept DEF Acquires
  <1>2. CASE Reads(r)
    BY <1>2, ReadStep, OthersKept DEF Reads
  <1>3. CASE Works(r)
    BY <1>3, WorkCheckpointStep, OthersKept DEF Works
  <1>4. CASE Worked(r)
    BY <1>4, WorkReturnsStep, OthersKept DEF Worked
  <1>5. CASE WorkPanics(r)
    BY <1>5, WorkPanicsStep, OthersKept
  <1>6. CASE StopAndClassify(r)
    BY <1>6, ClassifyStep, OthersKept
  <1>7. CASE Cleans(r)
    BY <1>7, FinalCheckpointStep, OthersKept DEF Cleans
  <1>8. CASE Releases(r)
    BY <1>8, ReleaseStep, OthersKept DEF Releases
  <1>9. CASE \E c \in {CauseFenced, CauseExhausted} : LoseLease(r, c)
    BY <1>9, LoseLeaseStep, OthersKept
  <1>10. CASE Cancel(r) \/ Crash(r)
    BY <1>10, CancelOrCrashStep, OthersKept
  <1> QED BY <1>1, <1>2, <1>3, <1>4, <1>5, <1>6, <1>7, <1>8, <1>9, <1>10 DEF RunStep

(* A step that writes to no tenure and leaves every run alone. *)
LEMMA NobodyActs ==
    ASSUME Inv, LedgerOK', LedgerAges, Tokens' = Tokens, \A u \in Tokens : WritesKept(u),
           UNCHANGED <<pc, tok, cause, workErr, final, mode, result>>,
           cancelled' \in [Runs -> BOOLEAN]
    PROVE  Inv'
  <1>1. TypeOK'
    BY DEF Inv, TypeOK, LedgerOK
  <1>2. TokensAreOwn'
    BY DEF Inv, TokensAreOwn
  <1>3. ASSUME NEW q \in Runs PROVE RunInv(q)'
    BY RunKept DEF Inv, TypeOK, RunUntouched
  <1> QED BY <1>1, <1>2, <1>3 DEF Inv

(* A run is given up and called afresh: only its tenure remembers it. *)
LEMMA ResetPreserves ==
    ASSUME Inv, NEW r \in Runs, UNCHANGED ledger,
           pc' = [pc EXCEPT ![r] = "call"], tok' = [tok EXCEPT ![r] = 0],
           cause' = [cause EXCEPT ![r] = NoCause], workErr' = [workErr EXCEPT ![r] = Unset],
           final' = [final EXCEPT ![r] = NoState], mode' = [mode EXCEPT ![r] = ExitNone],
           result' = [result EXCEPT ![r] = Unset], cancelled' \in [Runs -> BOOLEAN]
    PROVE  Inv'
  <1>1. TypeOK /\ LedgerOK
    BY TypedLedger DEF Inv
  <1>2. LedgerOK' /\ LedgerAges /\ Tokens' = Tokens /\ \A u \in Tokens : WritesKept(u)
    BY <1>1, NothingWritten
  <1>3. TypeOK'
    BY <1>1, <1>2, ExitsDistinct DEF TypeOK, LedgerOK
  <1>4. /\ pc'[r] = "call" /\ tok'[r] = 0 /\ cause'[r] = NoCause /\ workErr'[r] = Unset
        /\ result'[r] = Unset
    BY <1>1 DEF TypeOK
  <1>5. RunInv(r)'
    BY <1>4, ErrorsDistinct DEF RunInv, Tokenless, Progress, HasLease, LossIsTrue, Decided, Recorded,
       Answered
  <1>6. ASSUME NEW q \in Runs, q # r PROVE RunUntouched(q)
    BY <1>1, <1>6 DEF TypeOK, RunUntouched
  <1>7. ASSUME NEW q \in Runs, q # r PROVE RunInv(q)'
    BY <1>1, <1>2, <1>6, <1>7, RunKept DEF Inv, TypeOK
  <1>8. TokensAreOwn'
    BY <1>1 DEF Inv, TypeOK, TokensAreOwn
  <1> QED BY <1>3, <1>5, <1>7, <1>8 DEF Inv

(* A deletion of a row fences its holder, and changes nothing else. *)
LEMMA DeleteRowPreserves == ASSUME Inv, DeleteRow PROVE Inv'
  <1>1. PICK t \in Tokens : RowDeleted(t)
    BY DEF DeleteRow
  <1>2. LedgerOK' /\ LedgerAges /\ Tokens' = Tokens /\ \A u \in Tokens : WritesKept(u)
    BY <1>1, RowDeletedKeeps, TypedLedger DEF Inv
  <1> QED BY <1>2, NobodyActs DEF DeleteRow, runVars, Inv, TypeOK

(* The invariant is preserved by every step. *)
LEMMA InvNext == Inv /\ [Next]_vars => Inv'
  <1> SUFFICES ASSUME Inv, [Next]_vars PROVE Inv'
    OBVIOUS
  <1>1. CASE UNCHANGED vars
    BY <1>1, NobodyActs, NothingWritten, TypedLedger DEF vars, runVars, Inv, TypeOK
  <1>2. ASSUME NEW r \in Runs, RunStep(r) \/ Cancel(r) \/ Crash(r) PROVE Inv'
    BY <1>2, RunPreserves
  <1>3. CASE DeleteRow
    BY <1>3, DeleteRowPreserves
  <1> QED BY <1>1, <1>2, <1>3 DEF Next

(* Inv holds in every reachable state of the runs. *)
LEMMA InvHolds == Spec => []Inv
  BY InvInit, InvNext, PTL DEF Spec

-----------------------------------------------------------------------------
(* What the invariant gives. *)

(* The named properties follow from the invariant, state by state. *)
LEMMA InvImplies ==
    Inv => /\ NilMeansRecorded /\ RecordedSuccessIsComplete /\ LostRunsDeclareNothing
           /\ FencedIsTrue /\ WorkErrorSurvives
  <1> SUFFICES ASSUME Inv
               PROVE  /\ NilMeansRecorded /\ RecordedSuccessIsComplete /\ LostRunsDeclareNothing
                      /\ FencedIsTrue /\ WorkErrorSurvives
    OBVIOUS
  <1>1. \A r \in Runs : RunInv(r)
    BY DEF Inv
  <1>2. RecordedSuccessIsComplete
    BY <1>1, ExitsDistinct DEF RunInv, Recorded, RecordedSuccessIsComplete
  <1>3. NilMeansRecorded
    BY <1>1, <1>2, ErrorsDistinct, ExitsDistinct
       DEF RunInv, Answered, RecordedSuccessIsComplete, NilMeansRecorded
  <1>4. LostRunsDeclareNothing
    BY <1>1 DEF RunInv, Recorded, LostRunsDeclareNothing
  <1>5. FencedIsTrue /\ WorkErrorSurvives
    BY <1>1 DEF RunInv, Answered, FencedIsTrue, WorkErrorSurvives
  <1> QED BY <1>2, <1>3, <1>4, <1>5

(* Every reachable state of any number of runs of worker.Run is well typed; *)
(* in particular a run past Acquire holds a token of the ledger.            *)
THEOREM TypeCorrect == Spec => []TypeOK
  <1>1. Inv => TypeOK
    BY DEF Inv
  <1> QED BY <1>1, InvHolds, PTL

(* Run returns nil only when the exit WorkFn asked for is recorded and its *)
(* final state is stored, however the runs, their losses, cancellations,   *)
(* failing calls and lost replies interleave.                              *)
THEOREM NilResultIsRecorded == Spec => []NilMeansRecorded
  BY InvHolds, InvImplies, PTL

(* A recorded Finished or Retired belongs to a WorkFn that returned so and *)
(* whose final state was stored before, also if Run itself never learnt    *)
(* that its Release took effect.                                           *)
THEOREM RecordedIsComplete == Spec => []RecordedSuccessIsComplete
  BY InvHolds, InvImplies, PTL

(* A run whose WorkFn did not return, panicked, or lost its lease before   *)
(* stopRenewal returned declares no exit.                                  *)
THEOREM LostDeclaresNothing == Spec => []LostRunsDeclareNothing
  BY InvHolds, InvImplies, PTL

(* Run returns ErrFenced only to a holder whose token never matches again. *)
THEOREM FencedResultIsTrue == Spec => []FencedIsTrue
  BY InvHolds, InvImplies, PTL

(* No failure of the cleanup hides an error of WorkFn; only a true fencing *)
(* takes its place.                                                        *)
THEOREM WorkErrorIsReturned == Spec => []WorkErrorSurvives
  BY InvHolds, InvImplies, PTL

(* Two calls of Run never act under the same token, so that no run can     *)
(* save state or declare an exit for another.                              *)
THEOREM TokensNeverShared == Spec => []TokensAreOwn
  <1>1. Inv => TokensAreOwn
    BY DEF Inv
  <1> QED BY <1>1, InvHolds, PTL
=============================================================================
