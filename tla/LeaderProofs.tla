---------------------------- MODULE LeaderProofs -----------------------------
(***************************************************************************)
(* Proofs about Leader, for any number of competing calls of Elect and any *)
(* names, states and tokens.                                               *)
(***************************************************************************)
EXTENDS Leader, LeaseServiceProofs

USE LeaderAssumption, NamesAssumption

-----------------------------------------------------------------------------
(* The inductive invariant, call by call. *)

(* Elect is between a granted Acquire and the answer of Release. *)
HasLease(e) == pc[e] \in {"elected", "leading", "led", "doubt", "reported", "release"}

(* No two leaders act under one token. *)
TokensAreOwn == \A e, q \in Elects : (tok[e] # 0 /\ tok[e] = tok[q]) => e = q

(* A call without a token never got beyond Acquire. *)
Tokenless(e) ==
    tok[e] = 0 => /\ pc[e] \in {"call", "pause", "returned", "crashed"}
                  /\ fnErr[e] = Unset /\ cause[e] = NoCause /\ calls[e] = {}
                  /\ result[e] \notin {NilErr, ErrFenced}

(* fn has returned exactly from "led" on; nothing is declared before       *)
(* Release; the second read of step 6 is made only if a context was done.  *)
Progress(e) ==
    /\ pc[e] = "call" => tok[e] = 0
    /\ pc[e] \in {"call", "elected", "leading"} => fnErr[e] = Unset
    /\ pc[e] \in {"led", "doubt", "reported", "release"} => fnErr[e] # Unset
    /\ pc[e] = "doubt" => RenewalDone(e)
    /\ HasLease(e) => ledger[tok[e]].exit = ExitNone

(* A fencing that fn or the renewal goroutine met is a real one. *)
LossIsTrue(e) == (fnErr[e] = ErrFenced \/ cause[e] = CauseFenced) => Fenced(tok[e])

(* Elect releases only a lease it did not lose, with fn's own outcome. *)
Decided(e) ==
    pc[e] = "release" =>
        /\ cause[e] = NoCause /\ fnErr[e] # ErrFenced
        /\ result[e] = IF fnErr[e] = ErrRetire THEN NilErr ELSE fnErr[e]

(* What the callbacks said, and when they can have been made. *)
Told(e) ==
    /\ "OnLost" \in calls[e] =>
          /\ pc[e] \in {"reported", "pause", "returned", "crashed"} /\ tok[e] # 0
          /\ cause[e] # NoCause /\ ledger[tok[e]].exit = ExitNone
          /\ "OnRelinquished" \notin calls[e]
    /\ "OnRelinquished" \in calls[e] =>
          /\ pc[e] \in {"pause", "returned", "crashed"} /\ tok[e] # 0
          /\ ledger[tok[e]].exit = IF fnErr[e] = ErrRetire THEN ExitRetired ELSE ExitFinished

(* What a result says, already while Elect waits to return it. *)
Answered(e) ==
    pc[e] \in {"pause", "returned"} =>
        /\ result[e] = NilErr => "OnRelinquished" \in calls[e]
        /\ result[e] = ErrFenced => Fenced(tok[e])

ElectInv(e) ==
    Tokenless(e) /\ Progress(e) /\ LossIsTrue(e) /\ Decided(e) /\ Told(e) /\ Answered(e)

Inv == TypeOK /\ TokensAreOwn /\ \A e \in Elects : ElectInv(e)

-----------------------------------------------------------------------------
(* Frames: what a step of one call, or of nobody, leaves to the others. *)

(* The errors and causes that Elect tells apart are different strings. *)
LEMMA ErrorsDistinct ==
    /\ Unset \notin FnErrs /\ NoCause \notin {CauseFenced, CauseExhausted}
    /\ CauseFenced = ErrFenced /\ CauseExhausted \notin FnErrs
    /\ FnErrs = {NilErr, ErrRetire, ErrFenced, FnFailed}
    /\ ErrFenced \notin {NilErr, ErrRetire, FnFailed, ErrRelease, Panicked, ErrLeaseHeld, ErrOther,
                         ErrContext, Unset, OK}
    /\ NilErr \notin {ErrRetire, FnFailed, ErrRelease, Panicked, ErrLeaseHeld, ErrOther, ErrContext,
                      Unset, OK}
    /\ ErrRetire # FnFailed /\ ErrRetire # Unset
    /\ "OnLost" # "OnRelinquished" /\ "OnElected" \notin {"OnLost", "OnRelinquished"}
  BY DEF NilErr, ErrRetire, ErrFenced, FnFailed, FnErrs, Unset, NoCause, CauseFenced, CauseExhausted,
         ErrRelease, Panicked, ErrLeaseHeld, ErrOther, ErrContext, OK

(* TypeOK contains the type of the ledger. *)
LEMMA TypedLedger == TypeOK => LedgerOK /\ TokenSpace \subseteq Nat
  BY DEF TypeOK, LedgerOK

(* A fencing that a leader met stays true of its token. *)
LEMMA LeaderStaysFenced ==
    ASSUME NEW e \in Elects, tok[e] \in Tokens, tok'[e] = tok[e], LedgerAges, Fenced(tok[e])
    PROVE  Fenced(tok[e])'
  BY DEF LedgerAges, Fenced, C!Current, C!Newest, C!Tokens, Tokens

(* The variables of the call q are left alone. *)
ElectUntouched(q) ==
    /\ pc'[q] = pc[q] /\ tok'[q] = tok[q] /\ cause'[q] = cause[q] /\ fnErr'[q] = fnErr[q]
    /\ result'[q] = result[q] /\ calls'[q] = calls[q]
    /\ cancelled[q] => cancelled'[q]

(* A call keeps its invariant when neither it nor its tenure is written to. *)
LEMMA ElectKept ==
    ASSUME TypeOK, NEW q \in Elects, ElectInv(q), LedgerAges, ElectUntouched(q),
           tok[q] # 0 => WritesKept(tok[q])
    PROVE  ElectInv(q)'
  <1>1. tok[q] # 0 => tok[q] \in Tokens
    BY DEF TypeOK
  <1>2. tok[q] # 0 /\ Fenced(tok[q]) => Fenced(tok[q])'
    BY <1>1, LeaderStaysFenced DEF ElectUntouched
  <1>3. CASE tok[q] = 0
    <2>1. Tokenless(q)' /\ Progress(q)' /\ Decided(q)' /\ Told(q)'
      BY <1>3 DEF ElectUntouched, ElectInv, Tokenless, Progress, HasLease, Decided, Told
    <2>2. LossIsTrue(q)' /\ Answered(q)'
      BY <1>3, ErrorsDistinct DEF ElectUntouched, ElectInv, Tokenless, LossIsTrue, Answered
    <2> QED BY <2>1, <2>2 DEF ElectInv
  <1>4. CASE tok[q] # 0
    <2>1. Tokenless(q)' /\ Progress(q)' /\ Decided(q)'
      BY <1>4 DEF ElectUntouched, WritesKept, ElectInv, Tokenless, Progress, HasLease, Decided,
         RenewalDone
    <2>2. LossIsTrue(q)'
      BY <1>2, <1>4 DEF ElectUntouched, ElectInv, LossIsTrue
    <2>3. Told(q)'
      BY <1>4 DEF ElectUntouched, WritesKept, ElectInv, Told
    <2>4. Answered(q)'
      BY <1>2, <1>4 DEF ElectUntouched, ElectInv, Answered
    <2> QED BY <2>1, <2>2, <2>3, <2>4 DEF ElectInv
  <1> QED BY <1>3, <1>4

(* A step of the call e, its effect on the world. *)
StepOf(e) ==
    /\ LedgerAges
    /\ \A u \in Tokens : u # tok[e] => WritesKept(u)
    /\ \A q \in Elects \ {e} : ElectUntouched(q)
    /\ tok'[e] = tok[e] \/ tok'[e] \notin Tokens

(* A step of e preserves the invariant once it preserves that of e. *)
LEMMA OthersKept ==
    ASSUME Inv, NEW e \in Elects, StepOf(e), TypeOK', ElectInv(e)'
    PROVE  Inv'
  <1>1. ASSUME NEW q \in Elects, q # e PROVE ElectInv(q)'
    <2>1. tok[q] # 0 => tok[q] \in Tokens /\ tok[q] # tok[e]
      BY <1>1 DEF Inv, TypeOK, TokensAreOwn
    <2> QED BY <1>1, <2>1, ElectKept DEF Inv, StepOf
  <1>2. TokensAreOwn'
    BY DEF Inv, TypeOK, TokensAreOwn, StepOf, ElectUntouched
  <1> QED BY <1>1, <1>2 DEF Inv

(* A step of e that does not touch the ledger. *)
LEMMA QuietStep ==
    ASSUME Inv, NEW e \in Elects, UNCHANGED <<ledger, tok>>,
           \A q \in Elects \ {e} : ElectUntouched(q)
    PROVE  /\ StepOf(e) /\ LedgerOK' /\ Tokens' = Tokens
           /\ tok[e] # 0 => WritesKept(tok[e])
           /\ tok[e] # 0 /\ Fenced(tok[e]) => Fenced(tok[e])'
  <1>1. TypeOK /\ LedgerOK
    BY TypedLedger DEF Inv
  <1>2. tok[e] # 0 => tok[e] \in Tokens
    BY <1>1 DEF TypeOK
  <1>3. LedgerAges /\ LedgerOK' /\ Tokens' = Tokens /\ \A u \in Tokens : WritesKept(u)
    BY <1>1, NothingWritten
  <1>4. tok[e] # 0 /\ Fenced(tok[e]) => Fenced(tok[e])'
    BY <1>2, <1>3, LeaderStaysFenced
  <1> QED BY <1>2, <1>3, <1>4 DEF StepOf

-----------------------------------------------------------------------------
(* One lemma per step of Elect. *)

(* Acquire: a granted tenure is the leader's own and open; a failed call   *)
(* leaves Elect without a token.                                           *)
LEMMA AcquireStep ==
    ASSUME Inv, NEW e \in Elects, NEW t \in TokenSpace, NEW err \in Errors, Acquire(e, t, err)
    PROVE  StepOf(e) /\ TypeOK' /\ ElectInv(e)'
  <1>0. /\ TypeOK /\ LedgerOK /\ TokenSpace \subseteq Nat /\ pc[e] = "call" /\ ElectInv(e)
        /\ AcquireCall(Work, HolderOf[e], t, err)
        /\ Work \in WorkIDs /\ HolderOf[e] \in HolderIDs
        /\ UNCHANGED <<cancelled, cause, fnErr, calls>>
    BY TypedLedger DEF Inv, Acquire
  <1>1. /\ LedgerOK' /\ LedgerAges /\ \A u \in Tokens : WritesKept(u)
        /\ err \in {OK, ErrLeaseHeld} \union Faults
        /\ err = OK => C!Grant(t, Work, HolderOf[e])
    BY <1>0, AcquireEffect
  <1>2. tok[e] = 0 /\ fnErr[e] = Unset /\ cause[e] = NoCause /\ calls[e] = {}
    BY <1>0 DEF ElectInv, Progress, Tokenless
  <1>3. CASE err = OK
    <2>1. /\ t \notin Tokens /\ Tokens' = Tokens \union {t} /\ t # 0
          /\ ledger'[t].exit = ExitNone
      BY <1>0, <1>1, <1>3, GrantAdds
    <2>2. /\ pc' = [pc EXCEPT ![e] = "elected"] /\ tok' = [tok EXCEPT ![e] = t]
          /\ result' = result
      BY <1>3 DEF Acquire, Goto
    <2>3. TypeOK'
      BY <1>0, <1>1, <2>1, <2>2 DEF TypeOK, LedgerOK
    <2>4. pc'[e] = "elected" /\ tok'[e] = t
      BY <1>0, <2>2 DEF TypeOK
    <2>5. ElectInv(e)'
      BY <1>0, <1>2, <2>1, <2>4, ErrorsDistinct DEF ElectInv, Tokenless, Progress, HasLease, LossIsTrue,
         Decided, Told, Answered
    <2>6. StepOf(e)
      BY <1>0, <1>1, <2>1, <2>2 DEF StepOf, ElectUntouched, TypeOK
    <2> QED BY <2>3, <2>5, <2>6
  <1>4. CASE err # OK
    <2>1. /\ pc' = [pc EXCEPT ![e] = IF err = ErrContext THEN "returned" ELSE "pause"]
          /\ result' = [result EXCEPT ![e] = err] /\ tok' = tok
      BY <1>4 DEF Acquire, Leave, Goto
    <2>2. err \in {ErrLeaseHeld, ErrOther, ErrContext}
      BY <1>1, <1>4 DEF Faults
    <2>3. TypeOK'
      BY <1>0, <1>1, <2>1, <2>2 DEF TypeOK, LedgerOK, LedgerAges, Faults
    <2>4. pc'[e] \in {"returned", "pause"} /\ result'[e] = err
      BY <1>0, <2>1 DEF TypeOK
    <2>5. ElectInv(e)'
      BY <1>0, <1>2, <2>1, <2>2, <2>4, ErrorsDistinct DEF ElectInv, Tokenless, Progress, HasLease,
         LossIsTrue, Decided, Told, Answered
    <2>6. StepOf(e)
      BY <1>0, <1>1, <2>1 DEF StepOf, ElectUntouched, TypeOK
    <2> QED BY <2>3, <2>5, <2>6
  <1> QED BY <1>3, <1>4

(* OnElected, and fn is called. *)
LEMMA LeadStep ==
    ASSUME Inv, NEW e \in Elects, Lead(e)
    PROVE  StepOf(e) /\ TypeOK' /\ ElectInv(e)'
  <1>0. /\ TypeOK /\ ElectInv(e) /\ pc[e] = "elected"
        /\ pc' = [pc EXCEPT ![e] = "leading"]
        /\ calls' = [calls EXCEPT ![e] = calls[e] \union {"OnElected"}]
        /\ UNCHANGED <<ledger, tok>> /\ UNCHANGED <<cancelled, cause, fnErr, result>>
    BY DEF Inv, Lead, Call, Goto
  <1>1. tok[e] # 0 /\ ledger[tok[e]].exit = ExitNone
    BY <1>0 DEF ElectInv, Tokenless, Progress, HasLease
  <1>2. \A q \in Elects \ {e} : ElectUntouched(q)
    BY <1>0 DEF ElectUntouched, TypeOK
  <1>3. /\ StepOf(e) /\ LedgerOK' /\ Tokens' = Tokens
        /\ Fenced(tok[e]) => Fenced(tok[e])'
    BY <1>0, <1>1, <1>2, QuietStep
  <1>4. TypeOK'
    BY <1>0, <1>3 DEF TypeOK, LedgerOK
  <1>5. pc'[e] = "leading" /\ calls'[e] = calls[e] \union {"OnElected"}
    BY <1>0 DEF TypeOK
  <1>6. LossIsTrue(e)'
    BY <1>0, <1>3 DEF ElectInv, LossIsTrue
  <1>7. ElectInv(e)'
    BY <1>0, <1>1, <1>5, <1>6, ErrorsDistinct DEF ElectInv, Tokenless, Progress, HasLease, Decided, Told,
       Answered
  <1> QED BY <1>3, <1>4, <1>7

(* The renewal goroutine cancels: with ErrFenced only if that is true. *)
LEMMA LoseLeaseStep ==
    ASSUME Inv, NEW e \in Elects, NEW c \in {CauseFenced, CauseExhausted}, LoseLease(e, c)
    PROVE  StepOf(e) /\ TypeOK' /\ ElectInv(e)'
  <1>0. /\ TypeOK /\ ElectInv(e) /\ pc[e] \in {"leading", "led", "doubt", "reported"}
        /\ c = CauseFenced => Fenced(tok[e])
        /\ cause' = [cause EXCEPT ![e] = c]
        /\ UNCHANGED <<ledger, tok>> /\ UNCHANGED <<pc, cancelled, fnErr, result, calls>>
    BY ErrorsDistinct DEF Inv, LoseLease, RenewalLoss, FnErrs
  <1>1. tok[e] # 0 /\ ledger[tok[e]].exit = ExitNone
    BY <1>0 DEF ElectInv, Tokenless, Progress, HasLease
  <1>2. \A q \in Elects \ {e} : ElectUntouched(q)
    BY <1>0 DEF ElectUntouched, TypeOK
  <1>3. /\ StepOf(e) /\ LedgerOK' /\ Tokens' = Tokens
        /\ Fenced(tok[e]) => Fenced(tok[e])'
    BY <1>0, <1>1, <1>2, QuietStep
  <1>4. TypeOK'
    BY <1>0, <1>3 DEF TypeOK, LedgerOK
  <1>5. cause'[e] = c /\ c # NoCause
    BY <1>0, ErrorsDistinct DEF TypeOK
  <1>6. LossIsTrue(e)'
    BY <1>0, <1>3, <1>5 DEF ElectInv, LossIsTrue
  <1>7. Tokenless(e)' /\ Progress(e)' /\ Decided(e)' /\ Told(e)' /\ Answered(e)'
    BY <1>0, <1>1, <1>5 DEF ElectInv, Tokenless, Progress, HasLease, Decided, Told, Answered,
       RenewalDone
  <1> QED BY <1>3, <1>4, <1>6, <1>7 DEF ElectInv

(* The caller cancels. *)
LEMMA CancelStep ==
    ASSUME Inv, NEW e \in Elects, Cancel(e)
    PROVE  StepOf(e) /\ TypeOK' /\ ElectInv(e)'
  <1>0. /\ TypeOK /\ ElectInv(e) /\ cancelled' = [cancelled EXCEPT ![e] = TRUE]
        /\ UNCHANGED <<ledger, tok>> /\ UNCHANGED <<pc, cause, fnErr, result, calls>>
    BY DEF Inv, Cancel
  <1>1. \A q \in Elects : ElectUntouched(q)
    BY <1>0 DEF ElectUntouched, TypeOK
  <1>2. /\ StepOf(e) /\ LedgerOK' /\ Tokens' = Tokens
        /\ tok[e] # 0 => WritesKept(tok[e])
    BY <1>0, <1>1, QuietStep
  <1>3. TypeOK'
    BY <1>0, <1>2 DEF TypeOK, LedgerOK
  <1>4. ElectInv(e)'
    BY <1>0, <1>1, <1>2, ElectKept DEF StepOf
  <1> QED BY <1>2, <1>3, <1>4

(* fn returns: ErrFenced only if it met a fencing. *)
LEMMA FnReturnsStep ==
    ASSUME Inv, NEW e \in Elects, NEW err \in FnErrs, FnReturns(e, err)
    PROVE  StepOf(e) /\ TypeOK' /\ ElectInv(e)'
  <1>0. /\ TypeOK /\ ElectInv(e) /\ pc[e] = "leading"
        /\ err = ErrFenced => Fenced(tok[e])
        /\ pc' = [pc EXCEPT ![e] = "led"] /\ fnErr' = [fnErr EXCEPT ![e] = err]
        /\ UNCHANGED <<ledger, tok>> /\ UNCHANGED <<cancelled, cause, result, calls>>
    BY DEF Inv, FnReturns, Goto
  <1>1. tok[e] # 0 /\ ledger[tok[e]].exit = ExitNone
    BY <1>0 DEF ElectInv, Tokenless, Progress, HasLease
  <1>2. \A q \in Elects \ {e} : ElectUntouched(q)
    BY <1>0 DEF ElectUntouched, TypeOK
  <1>3. /\ StepOf(e) /\ LedgerOK' /\ Tokens' = Tokens
        /\ Fenced(tok[e]) => Fenced(tok[e])'
    BY <1>0, <1>1, <1>2, QuietStep
  <1>4. TypeOK'
    BY <1>0, <1>3 DEF TypeOK, LedgerOK
  <1>5. pc'[e] = "led" /\ fnErr'[e] = err /\ err # Unset
    BY <1>0, ErrorsDistinct DEF TypeOK
  <1>6. LossIsTrue(e)'
    BY <1>0, <1>3, <1>5 DEF ElectInv, LossIsTrue
  <1>7. Tokenless(e)' /\ Progress(e)' /\ Decided(e)' /\ Told(e)' /\ Answered(e)'
    BY <1>0, <1>1, <1>5 DEF ElectInv, Tokenless, Progress, HasLease, Decided, Told, Answered
  <1> QED BY <1>3, <1>4, <1>6, <1>7 DEF ElectInv

(* fn panics, the process of Elect dies, or a wait ends: the callbacks     *)
(* made so far stay true.                                                  *)
LEMMA EndStep ==
    ASSUME Inv, NEW e \in Elects, FnPanics(e) \/ Crash(e) \/ PauseEnds(e)
    PROVE  StepOf(e) /\ TypeOK' /\ ElectInv(e)'
  <1>0. /\ TypeOK /\ ElectInv(e)
        /\ \/ pc[e] = "leading" /\ pc' = [pc EXCEPT ![e] = "returned"]
              /\ result' = [result EXCEPT ![e] = Panicked]
           \/ pc' = [pc EXCEPT ![e] = "crashed"] /\ result' = result
           \/ pc[e] = "pause" /\ pc' = [pc EXCEPT ![e] = "returned"] /\ result' = result
        /\ UNCHANGED <<ledger, tok>> /\ UNCHANGED <<cancelled, cause, fnErr, calls>>
    BY DEF Inv, FnPanics, Crash, PauseEnds, Leave, Goto
  <1>1. \A q \in Elects \ {e} : ElectUntouched(q)
    BY <1>0 DEF ElectUntouched, TypeOK
  <1>2. /\ StepOf(e) /\ LedgerOK' /\ Tokens' = Tokens
        /\ tok[e] # 0 /\ Fenced(tok[e]) => Fenced(tok[e])'
    BY <1>0, <1>1, QuietStep
  <1>3. TypeOK'
    BY <1>0, <1>2 DEF TypeOK, LedgerOK
  <1>4. \/ pc[e] = "leading" /\ pc'[e] = "returned" /\ result'[e] = Panicked
        \/ pc'[e] = "crashed" /\ result'[e] = result[e]
        \/ pc[e] = "pause" /\ pc'[e] = "returned" /\ result'[e] = result[e]
    BY <1>0 DEF TypeOK
  <1>5. LossIsTrue(e)'
    BY <1>0, <1>2, ErrorsDistinct DEF ElectInv, LossIsTrue, Tokenless
  <1>6. Tokenless(e)' /\ Progress(e)' /\ Decided(e)'
    BY <1>0, <1>4, ErrorsDistinct DEF ElectInv, Tokenless, Progress, HasLease, Decided
  <1>7. Told(e)'
    BY <1>0, <1>4 DEF ElectInv, Told
  <1>8. Answered(e)'
    BY <1>0, <1>2, <1>4, ErrorsDistinct DEF ElectInv, Answered, Tokenless
  <1> QED BY <1>2, <1>3, <1>5, <1>6, <1>7, <1>8 DEF ElectInv

(* The first read of step 6. *)
LEMMA SeesRenewalStep ==
    ASSUME Inv, NEW e \in Elects, SeesRenewalContext(e)
    PROVE  StepOf(e) /\ TypeOK' /\ ElectInv(e)'
  <1>0. /\ TypeOK /\ ElectInv(e) /\ pc[e] = "led"
        /\ pc' = [pc EXCEPT ![e] = IF RenewalDone(e) THEN "doubt" ELSE "reported"]
        /\ UNCHANGED <<ledger, tok>> /\ UNCHANGED <<cancelled, cause, fnErr, result, calls>>
    BY DEF Inv, SeesRenewalContext, Goto
  <1>1. tok[e] # 0 /\ ledger[tok[e]].exit = ExitNone
    BY <1>0 DEF ElectInv, Tokenless, Progress, HasLease
  <1>2. \A q \in Elects \ {e} : ElectUntouched(q)
    BY <1>0 DEF ElectUntouched, TypeOK
  <1>3. /\ StepOf(e) /\ LedgerOK' /\ Tokens' = Tokens
        /\ Fenced(tok[e]) => Fenced(tok[e])'
    BY <1>0, <1>1, <1>2, QuietStep
  <1>4. TypeOK'
    BY <1>0, <1>3 DEF TypeOK, LedgerOK
  <1>5. pc'[e] = IF RenewalDone(e) THEN "doubt" ELSE "reported"
    BY <1>0 DEF TypeOK
  <1>6. LossIsTrue(e)'
    BY <1>0, <1>3 DEF ElectInv, LossIsTrue
  <1>7. Tokenless(e)' /\ Progress(e)' /\ Decided(e)' /\ Told(e)' /\ Answered(e)'
    BY <1>0, <1>1, <1>5 DEF ElectInv, Tokenless, Progress, HasLease, Decided, Told, Answered,
       RenewalDone
  <1> QED BY <1>3, <1>4, <1>6, <1>7 DEF ElectInv

(* The second read: OnLost only if the renewal context was done and the    *)
(* parent still is not, so that the renewal goroutine must have a cause.   *)
LEMMA ReportsLossStep ==
    ASSUME Inv, NEW e \in Elects, ReportsLoss(e)
    PROVE  StepOf(e) /\ TypeOK' /\ ElectInv(e)'
  <1>0. /\ TypeOK /\ ElectInv(e) /\ pc[e] = "doubt"
        /\ pc' = [pc EXCEPT ![e] = "reported"]
        /\ calls' = [calls EXCEPT ![e] = IF cancelled[e] THEN calls[e] ELSE calls[e] \union {"OnLost"}]
        /\ UNCHANGED <<ledger, tok>> /\ UNCHANGED <<cancelled, cause, fnErr, result>>
    BY DEF Inv, TypeOK, ReportsLoss, Goto, Call
  <1>1. /\ tok[e] # 0 /\ ledger[tok[e]].exit = ExitNone
        /\ ~cancelled[e] => cause[e] # NoCause
    BY <1>0 DEF ElectInv, Tokenless, Progress, HasLease, RenewalDone
  <1>2. \A q \in Elects \ {e} : ElectUntouched(q)
    BY <1>0 DEF ElectUntouched, TypeOK
  <1>3. /\ StepOf(e) /\ LedgerOK' /\ Tokens' = Tokens
        /\ Fenced(tok[e]) => Fenced(tok[e])'
    BY <1>0, <1>1, <1>2, QuietStep
  <1>4. TypeOK'
    BY <1>0, <1>3 DEF TypeOK, LedgerOK
  <1>5. /\ pc'[e] = "reported"
        /\ calls'[e] = IF cancelled[e] THEN calls[e] ELSE calls[e] \union {"OnLost"}
    BY <1>0 DEF TypeOK
  <1>6. LossIsTrue(e)'
    BY <1>0, <1>3 DEF ElectInv, LossIsTrue
  <1>7. Tokenless(e)' /\ Progress(e)' /\ Decided(e)' /\ Answered(e)'
    BY <1>0, <1>1, <1>5 DEF ElectInv, Tokenless, Progress, HasLease, Decided, Answered
  <1>8. Told(e)'
    BY <1>0, <1>1, <1>5, ErrorsDistinct DEF ElectInv, Told
  <1> QED BY <1>3, <1>4, <1>6, <1>7, <1>8 DEF ElectInv

(* stopRenewal and the classification: Elect goes on to Release only if    *)
(* neither fn nor the renewal goroutine lost the lease.                    *)
LEMMA ClassifyStep ==
    ASSUME Inv, NEW e \in Elects, StopAndClassify(e)
    PROVE  StepOf(e) /\ TypeOK' /\ ElectInv(e)'
  <1>0. /\ TypeOK /\ ElectInv(e) /\ pc[e] = "reported" /\ fnErr[e] \in FnErrs
        /\ UNCHANGED <<ledger, tok>> /\ UNCHANGED <<cancelled, cause, fnErr, calls>>
    BY DEF Inv, TypeOK, ElectInv, Progress, StopAndClassify
  <1>1. tok[e] # 0 /\ ledger[tok[e]].exit = ExitNone /\ fnErr[e] # Unset
    BY <1>0 DEF ElectInv, Tokenless, Progress, HasLease
  <1>2. PICK l, x :
          /\ pc' = [pc EXCEPT ![e] = l] /\ result' = [result EXCEPT ![e] = x]
          /\ \/ l = "returned" /\ x = ErrFenced /\ ErrFenced \in {fnErr[e], cause[e]}
             \/ l = "pause" /\ x \in (FnErrs \union {CauseExhausted}) \ {NilErr, ErrFenced}
             \/ /\ l = "release" /\ x = IF fnErr[e] = ErrRetire THEN NilErr ELSE fnErr[e]
                /\ cause[e] = NoCause /\ fnErr[e] # ErrFenced
    <2>1. CASE ErrFenced \in {fnErr[e], cause[e]}
      BY <2>1 DEF StopAndClassify, Leave, Goto
    <2>2. CASE ErrFenced \notin {fnErr[e], cause[e]} /\ cause[e] = CauseExhausted
      <3>1. Leave(e, "pause", IF fnErr[e] = NilErr THEN CauseExhausted ELSE fnErr[e])
        BY <2>2 DEF StopAndClassify
      <3>2. (IF fnErr[e] = NilErr THEN CauseExhausted ELSE fnErr[e])
               \in (FnErrs \union {CauseExhausted}) \ {NilErr, ErrFenced}
        BY <1>0, <2>2, ErrorsDistinct
      <3> QED BY <3>1, <3>2 DEF Leave, Goto
    <2>3. CASE ErrFenced \notin {fnErr[e], cause[e]} /\ cause[e] # CauseExhausted
      <3>1. Leave(e, "release", IF fnErr[e] = ErrRetire THEN NilErr ELSE fnErr[e])
        BY <2>3 DEF StopAndClassify
      <3>2. cause[e] = NoCause
        BY <1>0, <2>3, ErrorsDistinct DEF TypeOK
      <3> QED BY <2>3, <3>1, <3>2 DEF Leave, Goto
    <2> QED BY <2>1, <2>2, <2>3
  <1>3. \A q \in Elects \ {e} : ElectUntouched(q)
    BY <1>0, <1>2 DEF ElectUntouched, TypeOK
  <1>4. /\ StepOf(e) /\ LedgerOK' /\ Tokens' = Tokens
        /\ Fenced(tok[e]) => Fenced(tok[e])'
    BY <1>0, <1>1, <1>3, QuietStep
  <1>5. x \in FnErrs \union {CauseExhausted}
    BY <1>0, <1>2, ErrorsDistinct
  <1>6. TypeOK'
    BY <1>0, <1>2, <1>4, <1>5 DEF TypeOK, LedgerOK
  <1>7. pc'[e] = l /\ result'[e] = x
    BY <1>0, <1>2 DEF TypeOK
  <1>8. LossIsTrue(e)'
    BY <1>0, <1>4 DEF ElectInv, LossIsTrue
  <1>9. Tokenless(e)' /\ Progress(e)' /\ Decided(e)'
    BY <1>0, <1>1, <1>2, <1>7 DEF ElectInv, Tokenless, Progress, HasLease, Decided
  <1>10. Told(e)'
    BY <1>0, <1>1, <1>2, <1>7 DEF ElectInv, Told
  <1>11. Answered(e)'
    BY <1>0, <1>2, <1>4, <1>7, ErrorsDistinct DEF ElectInv, LossIsTrue, Answered
  <1> QED BY <1>4, <1>6, <1>8, <1>9, <1>10, <1>11 DEF ElectInv

(* Release: OnRelinquished, and a nil result, only once a success is       *)
(* recorded.                                                               *)
LEMMA ReleaseStep ==
    ASSUME Inv, NEW e \in Elects, NEW err \in Errors, Release(e, err)
    PROVE  StepOf(e) /\ TypeOK' /\ ElectInv(e)'
  <1>0. /\ TypeOK /\ LedgerOK /\ ElectInv(e) /\ pc[e] = "release"
        /\ ReleaseCall(tok[e], Mode(e), err)
        /\ pc' = [pc EXCEPT ![e] = IF err = ErrFenced THEN "returned" ELSE "pause"]
        /\ result' = [result EXCEPT ![e] = ReleaseResult(e, err)]
        /\ calls' = [calls EXCEPT ![e] = IF Relinquishes(e, err) THEN calls[e] \union {"OnRelinquished"}
                                         ELSE calls[e]]
        /\ UNCHANGED <<tok, cancelled, cause, fnErr>>
    BY TypedLedger DEF Inv, TypeOK, Release, Leave, Goto, Call
  <1>1. /\ tok[e] # 0 /\ tok[e] \in Tokens /\ ledger[tok[e]].exit = ExitNone
        /\ cause[e] = NoCause /\ fnErr[e] \in FnErrs \ {ErrFenced}
        /\ result[e] = IF fnErr[e] = ErrRetire THEN NilErr ELSE fnErr[e]
        /\ calls[e] \intersect {"OnLost", "OnRelinquished"} = {}
    BY <1>0 DEF TypeOK, ElectInv, Tokenless, Progress, HasLease, Decided, Told
  <1>2. /\ Mode(e) \in DeclarableExits
        /\ Mode(e) # ExitAbandoned => Mode(e) = IF fnErr[e] = ErrRetire THEN ExitRetired ELSE ExitFinished
        /\ Mode(e) # ExitAbandoned <=> result[e] = NilErr
    BY <1>1, ErrorsDistinct, ExitsDistinct DEF Mode
  <1>3. /\ LedgerOK' /\ LedgerAges /\ Tokens' = Tokens
        /\ \A u \in Tokens : u # tok[e] => WritesKept(u)
        /\ err = OK => ledger'[tok[e]].exit = Mode(e)
        /\ err = ErrFenced => Fenced(tok[e])
    BY <1>0, <1>1, <1>2, ReleaseEffect
  <1>4. Fenced(tok[e]) => Fenced(tok[e])'
    BY <1>0, <1>1, <1>3, LeaderStaysFenced
  <1>5. /\ ReleaseResult(e, err) \in FnErrs \union {ErrRelease}
        /\ ReleaseResult(e, err) = NilErr => err = OK /\ result[e] = NilErr
        /\ ReleaseResult(e, err) = ErrFenced => err = ErrFenced
    BY <1>1, ErrorsDistinct DEF ReleaseResult
  <1>6. TypeOK'
    BY <1>0, <1>3, <1>5 DEF TypeOK, LedgerOK
  <1>7. StepOf(e)
    BY <1>0, <1>3 DEF StepOf, ElectUntouched, TypeOK
  <1>8. /\ pc'[e] \in {"returned", "pause"} /\ result'[e] = ReleaseResult(e, err)
        /\ calls'[e] = IF Relinquishes(e, err) THEN calls[e] \union {"OnRelinquished"} ELSE calls[e]
    BY <1>0 DEF TypeOK
  <1>9. LossIsTrue(e)'
    BY <1>0, <1>4 DEF ElectInv, LossIsTrue
  <1>10. Tokenless(e)' /\ Progress(e)' /\ Decided(e)'
    BY <1>0, <1>1, <1>8 DEF ElectInv, Tokenless, Progress, HasLease, Decided
  <1>11. Told(e)'
    BY <1>0, <1>1, <1>2, <1>3, <1>8, ErrorsDistinct DEF Told, Relinquishes
  <1>12. Answered(e)'
    BY <1>0, <1>2, <1>3, <1>4, <1>5, <1>8 DEF Answered, Relinquishes
  <1> QED BY <1>6, <1>7, <1>9, <1>10, <1>11, <1>12 DEF ElectInv

-----------------------------------------------------------------------------
(* The invariant is inductive. *)

(* No call of Elect has been made yet. *)
LEMMA InvInit == Init => Inv
  <1> SUFFICES ASSUME Init PROVE Inv
    OBVIOUS
  <1>1. Tokens = {}
    BY DEF Init, C!Init, Tokens
  <1>2. TypeOK
    BY <1>1 DEF Init, TypeOK
  <1>3. TokensAreOwn
    BY DEF Init, TokensAreOwn
  <1>4. \A e \in Elects : ElectInv(e)
    BY ErrorsDistinct DEF Init, ElectInv, Tokenless, Progress, HasLease, LossIsTrue, Decided, Told,
       Answered
  <1> QED BY <1>2, <1>3, <1>4 DEF Inv

(* A step that writes to no tenure and leaves every call of Elect alone. *)
LEMMA NobodyActs ==
    ASSUME Inv, LedgerOK', LedgerAges, Tokens' = Tokens, \A u \in Tokens : WritesKept(u),
           UNCHANGED electVars
    PROVE  Inv'
  <1>1. TypeOK'
    BY DEF Inv, TypeOK, LedgerOK, electVars
  <1>2. TokensAreOwn'
    BY DEF Inv, TokensAreOwn, electVars
  <1>3. ASSUME NEW q \in Elects PROVE ElectInv(q)'
    BY ElectKept DEF Inv, TypeOK, ElectUntouched, electVars
  <1> QED BY <1>1, <1>2, <1>3 DEF Inv

(* The invariant is preserved by every step. *)
LEMMA InvNext == Inv /\ [Next]_vars => Inv'
  <1> SUFFICES ASSUME Inv, [Next]_vars PROVE Inv'
    OBVIOUS
  <1>1. CASE UNCHANGED vars
    BY <1>1, NobodyActs, NothingWritten, TypedLedger DEF vars, Inv
  <1>2. ASSUME NEW e \in Elects, ElectStep(e) \/ Cancel(e) \/ Crash(e) PROVE Inv'
    <2>1. CASE Acquires(e)
      BY <2>1, AcquireStep, OthersKept DEF Acquires
    <2>2. CASE Lead(e)
      BY <2>2, LeadStep, OthersKept
    <2>3. CASE FnEnds(e)
      BY <2>3, FnReturnsStep, OthersKept DEF FnEnds
    <2>4. CASE FnPanics(e) \/ Crash(e) \/ PauseEnds(e)
      BY <2>4, EndStep, OthersKept
    <2>5. CASE SeesRenewalContext(e)
      BY <2>5, SeesRenewalStep, OthersKept
    <2>6. CASE ReportsLoss(e)
      BY <2>6, ReportsLossStep, OthersKept
    <2>7. CASE StopAndClassify(e)
      BY <2>7, ClassifyStep, OthersKept
    <2>8. CASE \E err \in Errors : Release(e, err)
      BY <2>8, ReleaseStep, OthersKept
    <2>9. CASE \E c \in {CauseFenced, CauseExhausted} : LoseLease(e, c)
      BY <2>9, LoseLeaseStep, OthersKept
    <2>10. CASE Cancel(e)
      BY <2>10, CancelStep, OthersKept
    <2> QED BY <1>2, <2>1, <2>2, <2>3, <2>4, <2>5, <2>6, <2>7, <2>8, <2>9, <2>10
            DEF ElectStep, Finishes
  <1>3. CASE DeleteRow
    <2>1. PICK t \in Tokens : RowDeleted(t)
      BY <1>3 DEF DeleteRow
    <2>2. LedgerOK' /\ LedgerAges /\ Tokens' = Tokens /\ \A u \in Tokens : WritesKept(u)
      BY <2>1, RowDeletedKeeps, TypedLedger DEF Inv
    <2> QED BY <1>3, <2>2, NobodyActs DEF DeleteRow
  <1> QED BY <1>1, <1>2, <1>3 DEF Next

(* Inv holds in every reachable state. *)
LEMMA InvHolds == Spec => []Inv
  BY InvInit, InvNext, PTL DEF Spec

-----------------------------------------------------------------------------
(* What the invariant gives. *)

(* The named properties follow from the invariant, state by state. *)
LEMMA InvImplies == Inv => TypeOK /\ RelinquishedIsRecorded /\ LostIsTrue /\ FencedIsTrue /\ TokensAreOwn
  BY DEF Inv, ElectInv, Told, Answered, RelinquishedIsRecorded, LostIsTrue, FencedIsTrue

(* Every reachable state of any number of calls of Elect is well typed. *)
THEOREM TypeCorrect == Spec => []TypeOK
  BY InvHolds, InvImplies, PTL

(* OnRelinquished is called only once the exit fn asked for is recorded,   *)
(* and Elect returns nil only to a leader that was told so, however        *)
(* releases fail, replies are lost and contexts end.                       *)
THEOREM RelinquishedIsTrue == Spec => []RelinquishedIsRecorded
  BY InvHolds, InvImplies, PTL

(* OnLost is called only for a lost lease or window, never for a cancelled *)
(* parent, whichever context ends between the two reads; that leader       *)
(* declares nothing and is never also told that it relinquished.           *)
THEOREM LossReportIsTrue == Spec => []LostIsTrue
  BY InvHolds, InvImplies, PTL

(* Elect returns ErrFenced only when the token can never match again. *)
THEOREM FencedResultIsTrue == Spec => []FencedIsTrue
  BY InvHolds, InvImplies, PTL

(* Two leaders never act under the same token. *)
THEOREM TokensNeverShared == Spec => []TokensAreOwn
  BY InvHolds, InvImplies, PTL
=============================================================================
