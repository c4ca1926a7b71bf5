---------------------------- MODULE Conformance ----------------------------
(***************************************************************************)
(* The backend conformance suite (backend/conformance/conformance.go) run  *)
(* against the model of the in-memory backend: each It is a sequence of    *)
(* calls with the outcome it expects, run on a new backend.  The suite     *)
(* never waits: between two calls the clock may not move at all, or move   *)
(* past a whole TTL.  A TTL of -1 makes a lease that has already expired.  *)
(* The specs on slice aliasing have no counterpart: a checkpoint is a      *)
(* value here.                                                             *)
(***************************************************************************)
EXTENDS Backend, Sequences, FiniteSets, TLC

CONSTANTS
    Gaps,        \* how far the clock may move between two calls
    normalTTL, expiredTTL, Hour,
    Nanosecond,  \* the shortest Retention
    Grace, MaxStall, MaxTime, MaxSeq

ASSUME SuiteAssumption ==
    /\ expiredTTL < 0 /\ 0 < Nanosecond
    /\ normalTTL <= Hour
    /\ Gaps \subseteq Nat

VARIABLES
    records, seq, now, ledger,   \* the backend
    script, k,                   \* the spec and its next call
    regs,                        \* the LeaseRecords it has been given, by variable name
    pause                        \* time is about to pass

store == <<records, seq, now, ledger>>
vars  == <<store, script, k, regs, pause>>

B == INSTANCE MemoryBackend WITH TTLs <- {normalTTL, expiredTTL}, Retentions <- {Nanosecond, Hour}

-----------------------------------------------------------------------------
(* Calls.  A record is passed as it was returned, with its fencing token   *)
(* incremented, or under another holder ID.                                *)

Own(reg)   == <<reg, "own">>
stale(reg) == <<reg, "stale">>
Other(reg) == <<reg, "other">>
neverAcquired == Own("never")

Acquire(reg, w, h, ttl, want) ==
    [op |-> "Acquire", reg |-> reg, work |-> w, holder |-> h, ttl |-> ttl, want |-> want]
Checkpoint(rec, state, ttl, want) == [op |-> "Checkpoint", rec |-> rec, state |-> state, ttl |-> ttl, want |-> want]
Renew(rec, want)         == [op |-> "Renew", rec |-> rec, want |-> want]
Release(rec, mode, want) == [op |-> "Release", rec |-> rec, mode |-> mode, want |-> want]
Forget(rec, want)        == [op |-> "Forget", rec |-> rec, want |-> want]
(* n is the set of counts the matcher of the deleted rows accepts. *)
BeZero     == {0}
AtLeastOne == 1 .. Cardinality(WorkIDs)
Sweep(retention, include, n) == [op |-> "Sweep", retention |-> retention, include |-> include, n |-> n, want |-> OK]
(* The fields of cp are expected; a refused read has none. *)
Read(rec, cp)            == [op |-> "ReadCheckpoint", rec |-> rec, want |-> OK, cp |-> cp]
ReadRefused(rec)         == [op |-> "ReadCheckpoint", rec |-> rec, want |-> ErrFenced]
(* The call c with a cancelled context. *)
Cancelled(c)             == [ctx |-> "cancelled", want |-> ErrContext] @@ c

PrevIs(exit, holder) == [PrevExit |-> exit, PrevHolderID |-> holder]
NothingBefore == PrevIs(ExitNone, NoHolder)

(* The usual first and later holders. *)
First(want)       == Acquire("a", "w1", "h-a", normalTTL, want)
FirstExpired      == Acquire("a", "w1", "h-a", expiredTTL, OK)
Second(want)      == Acquire("b", "w1", "h-b", normalTTL, want)
SecondExpired     == Acquire("b", "w1", "h-b", expiredTTL, OK)
Third             == Acquire("c", "w1", "h-c", normalTTL, OK)
Saves(reg, state) == Checkpoint(Own(reg), state, normalTTL, OK)
Declares(reg, mode) == Release(Own(reg), mode, OK)

-----------------------------------------------------------------------------
(* The specs, by Context.                                                  *)

AcquireSpecs == {
    << First(OK) >>,
    << First(OK), Second(ErrLeaseHeld) >>,
    << FirstExpired, Second(OK) >>,
    << First(OK), Acquire("b", "w2", "h-a", normalTTL, OK) >>,
    << FirstExpired, Checkpoint(Own("a"), "data", expiredTTL, OK), Second(OK), Read(Own("b"), [State |-> "data"]) >>,
    << First(OK), Declares("a", ExitAbandoned), Second(OK), Read(Own("b"), PrevIs(ExitAbandoned, "h-a")) >> }

CheckpointSpecs == {
    << First(OK), Saves("a", "data"), Read(Own("a"), [State |-> "data"]) >>,
    << First(OK), Checkpoint(stale("a"), "data", normalTTL, ErrFenced) >>,
    << Checkpoint(neverAcquired, "data", normalTTL, ErrFenced) >>,
    << First(OK), Declares("a", ExitFinished), Second(OK), Saves("b", "data"),
       Read(Own("b"), [State |-> "data", PrevExit |-> ExitFinished, PrevHolderID |-> "h-a"]) >>,
    << First(OK), Saves("a", "data"), Declares("a", ExitFinished),
       Checkpoint(Own("a"), "late", normalTTL, ErrLeaseExpired), Second(OK),
       Read(Own("b"), [State |-> "data", PrevExit |-> ExitFinished, PrevHolderID |-> "h-a"]) >>,
    << FirstExpired, Saves("a", "data"), Second(ErrLeaseHeld) >> }

RenewSpecs == {
    << First(OK), Renew(Own("a"), OK) >>,
    << First(OK), Renew(stale("a"), ErrFenced) >>,
    << Renew(neverAcquired, ErrFenced) >>,
    << FirstExpired, Renew(Own("a"), ErrLeaseExpired) >>,
    << First(OK), Declares("a", ExitFinished), Renew(Own("a"), ErrLeaseExpired), Second(OK) >> }

ReleaseSpecs == {
    << First(OK), Declares("a", ExitFinished), Second(OK), Read(Own("b"), PrevIs(ExitFinished, "h-a")) >>,
    << First(OK), Declares("a", ExitFinished), Second(OK) >>,
    << First(OK), Release(stale("a"), ExitFinished, ErrFenced) >>,
    << FirstExpired, Second(OK), Release(Own("a"), ExitFinished, ErrFenced) >>,
    << First(OK), Release(Own("a"), ExitNone, ErrInvalidExitMode), Release(Own("a"), ExitExpired, ErrInvalidExitMode),
       Release(Own("a"), "99", ErrInvalidExitMode), Second(ErrLeaseHeld) >>,
    << First(OK), Declares("a", ExitRetired), Release(Own("a"), ExitAbandoned, ErrLeaseExpired), Second(OK),
       Read(Own("b"), [PrevExit |-> ExitRetired]) >> }
    \union
  { << FirstExpired, Release(Own("a"), mode, ErrLeaseExpired), Second(OK),
       Read(Own("b"), PrevIs(ExitExpired, "h-a")) >> : mode \in DeclarableExits }

ReadCheckpointSpecs == {
    << First(OK), Read(Own("a"), [State |-> NoState, PrevExit |-> ExitNone, PrevHolderID |-> NoHolder]) >>,
    << First(OK), Checkpoint(Own("a"), "data", expiredTTL, OK), Second(OK),
       Read(Own("b"), [State |-> "data", PrevExit |-> ExitExpired, PrevHolderID |-> "h-a"]) >>,
    << First(OK), Declares("a", ExitRetired), Second(OK), Read(Own("b"), PrevIs(ExitRetired, "h-a")),
       Renew(Own("b"), OK), Read(Own("b"), PrevIs(ExitRetired, "h-a")) >>,
    << ReadRefused(neverAcquired) >>,
    << First(OK), Forget(Own("a"), OK), ReadRefused(Own("a")) >>,
    << First(OK), Declares("a", ExitRetired), Sweep(Nanosecond, FALSE, AtLeastOne), ReadRefused(Own("a")) >>,
    << First(OK), Forget(Own("a"), OK), Second(OK), Read(Own("b"), NothingBefore) >>,
    << First(OK), Saves("a", "data"), Saves("a", NoState), Read(Own("a"), [State |-> NoState]),
       Acquire("b", "w2", "h-a", normalTTL, OK), Saves("b", NoState), Read(Own("b"), [State |-> NoState]) >>,
    << First(OK), ReadRefused(stale("a")) >> }

CancelledContextSpec ==
    << First(OK), Saves("a", "data"),
       Cancelled(Acquire("b", "w2", "h-a", normalTTL, OK)), Cancelled(Saves("a", "late")), Cancelled(Renew(Own("a"), OK)),
       Cancelled(Declares("a", ExitFinished)), Cancelled(ReadRefused(Own("a"))), Cancelled(Forget(Own("a"), OK)),
       Cancelled(Sweep(Nanosecond, TRUE, BeZero)),
       Acquire("b", "w2", "h-b", normalTTL, OK),
       Read(Own("a"), [State |-> "data", PrevExit |-> ExitNone]), Acquire("c", "w1", "h-c", normalTTL, ErrLeaseHeld) >>

HolderMismatchSpec ==
    << First(OK), Checkpoint(Other("a"), "late", normalTTL, ErrFenced), Renew(Other("a"), ErrFenced),
       Release(Other("a"), ExitFinished, ErrFenced), Forget(Other("a"), ErrFenced),
       Read(Own("a"), [PrevExit |-> ExitNone]), Acquire("c", "w1", "h-c", normalTTL, ErrLeaseHeld), Renew(Own("a"), OK) >>

ForgetSpecs == {
    << First(OK), Forget(Own("a"), OK), Acquire("b", "w1", "h-a", normalTTL, OK) >>,
    << First(OK), Forget(stale("a"), ErrFenced), Saves("a", "data") >>,
    << Forget(neverAcquired, ErrFenced) >>,
    << First(OK), Declares("a", ExitRetired), Forget(Own("a"), OK), Second(OK), Read(Own("b"), NothingBefore) >> }

SweepSpecs == {
    << First(OK), Declares("a", ExitRetired), Sweep(Nanosecond, FALSE, AtLeastOne), Second(OK), Read(Own("b"), NothingBefore) >>,
    << First(OK), Declares("a", ExitFinished), Acquire("b", "w2", "h-a", normalTTL, OK), Declares("b", ExitAbandoned),
       Sweep(Nanosecond, TRUE, BeZero) >>,
    << FirstExpired, Sweep(Nanosecond, FALSE, BeZero), Sweep(Nanosecond, TRUE, AtLeastOne) >>,
    << First(OK), Declares("a", ExitRetired), Sweep(Hour, FALSE, BeZero), Second(OK),
       Read(Own("b"), PrevIs(ExitRetired, "h-a")) >>,
    << First(OK), Sweep(Nanosecond, TRUE, BeZero) >> }

HandoffSpecs == {
    << First(OK), Saves("a", "data"), Declares("a", ExitFinished), SecondExpired, Sweep(Nanosecond, FALSE, BeZero), Third,
       Read(Own("c"), [State |-> "data", PrevExit |-> ExitExpired, PrevHolderID |-> "h-b"]) >>,
    << First(OK), Saves("a", "data"), Declares("a", ExitFinished), SecondExpired, Sweep(Nanosecond, FALSE, BeZero),
       Sweep(Nanosecond, TRUE, AtLeastOne) >>,
    << FirstExpired, Second(OK), Read(Own("b"), PrevIs(ExitExpired, "h-a")), Declares("b", ExitAbandoned),
       Sweep(Nanosecond, TRUE, BeZero), Third, Read(Own("c"), PrevIs(ExitAbandoned, "h-b")) >>,
    << First(OK), Declares("a", ExitRetired), Second(OK), Read(Own("b"), PrevIs(ExitRetired, "h-a")),
       Declares("b", ExitFinished), Sweep(Nanosecond, FALSE, BeZero), Third, Read(Own("c"), PrevIs(ExitFinished, "h-b")) >> }

RunSuite == AcquireSpecs \union CheckpointSpecs \union RenewSpecs \union ReleaseSpecs \union ReadCheckpointSpecs
            \union {CancelledContextSpec, HolderMismatchSpec} \union ForgetSpecs \union SweepSpecs \union HandoffSpecs

-----------------------------------------------------------------------------
(* Running a spec.                                                         *)

Init ==
    /\ B!New
    /\ script \in RunSuite /\ k = 1
    /\ regs = [r \in {"never"} |-> [WorkID |-> "never-acquired", HolderID |-> "h", FencingToken |-> 1]]
    /\ pause = FALSE

Running == k <= Len(script)
call == script[k]

(* The record the call passes. *)
Passed ==
    LET rec == regs[call.rec[1]]
    IN CASE call.rec[2] = "own"   -> rec
         [] call.rec[2] = "stale" -> [rec EXCEPT !.FencingToken = @ + 1]
         [] call.rec[2] = "other" -> [rec EXCEPT !.HolderID = "h-other"]

(* What the method returns now, if its context lets it run. *)
Result ==
    CASE call.op = "Acquire"        -> B!AcquireResult(call.work)
      [] call.op = "Checkpoint"     -> B!CheckpointResult(Passed)
      [] call.op = "Renew"          -> B!RenewResult(Passed)
      [] call.op = "Release"        -> B!ReleaseResult(Passed, call.mode)
      [] call.op = "ReadCheckpoint" -> B!ReadCheckpointResult(Passed)
      [] call.op = "Forget"         -> B!ForgetResult(Passed)
      [] call.op = "Sweep"          -> OK

(* What the call returns.  Release validates the mode before the context. *)
Outcome ==
    IF Result = ErrInvalidExitMode THEN Result
    ELSE B!CheckContext("ctx" \in DOMAIN call, Result)

(* What the method does to the backend. *)
Method(rd) ==
    \/ call.op = "Acquire"    /\ B!Acquire(call.work, call.holder, call.ttl, rd)
    \/ call.op = "Checkpoint" /\ B!Checkpoint(Passed, call.state, call.ttl, rd)
    \/ call.op = "Renew"      /\ B!Renew(Passed, normalTTL, rd)
    \/ call.op = "Release"    /\ B!Release(Passed, call.mode, rd)
    \/ call.op = "Forget"     /\ B!Forget(Passed)
    \/ call.op = "Sweep"      /\ B!Sweep(call.retention, call.include)
    \/ call.op = "ReadCheckpoint" /\ UNCHANGED store

Effect(rd) == IF Outcome = ErrContext THEN B!DoneContextCall ELSE Method(rd)

Granted == call.op = "Acquire" /\ Outcome = OK

(* What the call's Expects demand: the error, the fields of the Checkpoint *)
(* read, the number of rows swept, and a fencing token above 0 and above   *)
(* those granted before.                                                   *)
Passes ==
    /\ Outcome = call.want
    /\ (call.op = "ReadCheckpoint" /\ Outcome = OK) =>
          \A f \in DOMAIN call.cp : B!ReadCheckpoint(Passed)[f] = call.cp[f]
    /\ (call.op = "Sweep" /\ Outcome = OK) =>
          Cardinality(B!Sweepable(call.retention, call.include)) \in call.n
    /\ Granted => /\ B!nextToken(call.work) > 0
                  /\ \A r \in DOMAIN regs \ {"never"} : B!nextToken(call.work) > regs[r].FencingToken

(* A failed Expect ends the It. *)
Call(rd) ==
    /\ Running /\ ~pause
    /\ Effect(rd)
    /\ regs' = IF Granted
               THEN [r \in DOMAIN regs \union {call.reg} |->
                       IF r = call.reg
                       THEN [WorkID |-> call.work, HolderID |-> call.holder, FencingToken |-> B!nextToken(call.work)]
                       ELSE regs[r]]
               ELSE regs
    /\ k' = IF Passes THEN k + 1 ELSE Len(script) + 1
    /\ pause' = TRUE
    /\ UNCHANGED script

TimePasses ==
    /\ pause /\ Running /\ pause' = FALSE
    /\ \E gap \in Gaps : now + gap <= MaxTime /\ now' = now + gap
    /\ UNCHANGED <<records, seq, ledger, script, k, regs>>

Next == (\E rd \in B!Readings : Call(rd)) \/ TimePasses

Spec == Init /\ [][Next]_vars

-----------------------------------------------------------------------------
(* The call is a Sweep that expects to delete a row. *)
SweepsRows == call.op = "Sweep" /\ 0 \notin call.n

(* More than the shortest retention has passed since each row was written. *)
Settled == \A w \in DOMAIN records : now - records[w].updatedAt > Nanosecond

(* As long as a spec is done within normalTTL of its start, its calls      *)
(* return what conformance.go expects, with one exception, which depends   *)
(* on the clock: a Sweep with Retention time.Nanosecond that expects to    *)
(* delete a row (lines 364, 547, 580, 649) finds it if, and only if, more  *)
(* than that nanosecond lies between the row's last write and the Sweep.   *)
(* On a clock that did not move, or moved by one nanosecond, exactly those *)
(* specs fail, and they fail at that call.                                 *)
SuiteSucceeds ==
    (Running /\ ~pause /\ now < normalTTL) => (Passes <=> (SweepsRows => Settled))
=============================================================================
