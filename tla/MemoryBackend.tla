---------------------------- MODULE MemoryBackend ----------------------------
(***************************************************************************)
(* The in-memory backend, backend/memory/memory.go.  Each method runs under *)
(* one mutex, so each is one action; its error returns change nothing, so  *)
(* an action whose result is not OK leaves the state alone.  The clock is  *)
(* not stopped by the mutex: a method decides on one reading and writes    *)
(* expiresAt and updatedAt from two later ones, up to MaxStall apart.      *)
(*                                                                         *)
(* ledger is a history variable: actions write it, no guard reads it.      *)
(***************************************************************************)
EXTENDS Backend

CONSTANTS
    TTLs,         \* lease durations callers ask for
    Retentions,   \* SweepOptions.Retention values Vacuum.Sweep lets through
    Grace,        \* -releaseGracePeriod
    MaxStall,     \* how far the clock may move inside one method
    MaxTime,      \* bound on the clock
    MaxSeq        \* bound on the number of grants

ASSUME MemoryAssumption ==
    /\ TTLs \subseteq Nat \ {0}
    /\ Retentions \subseteq Nat \ {0}
    /\ Grace \in Nat \ {0}
    /\ MaxStall \in Nat /\ MaxTime \in Nat /\ MaxSeq \in Nat

VARIABLES
    records,   \* map from work ID to record; only stored IDs are in its domain
    seq,       \* the instance's fencing counter
    now,       \* the backend's clock
    ledger     \* history: every tenure ever granted

vars == <<records, seq, now, ledger>>

Contract == INSTANCE LeaseContract WITH TokenSpace <- 1 .. MaxSeq

record == [holderID     : HolderIDs,
           fencingToken : Nat,
           expiresAt    : Int,
           checkpoint   : States \union {NoState},
           exitMode     : StoredExits,
           prevExit     : ExitModes,
           prevHolderID : HolderIDs \union {NoHolder},
           updatedAt    : Int]

Exists(w) == w \in DOMAIN records

(* Mutant: the token is not compared. *)
heldByHolder(rec) == records[rec.WorkID].holderID = rec.HolderID

heldBy(rec) ==
    /\ records[rec.WorkID].holderID = rec.HolderID
    /\ records[rec.WorkID].fencingToken = rec.FencingToken

Fenced(rec) == ~(Exists(rec.WorkID) /\ heldBy(rec))

(* The second and the third clock reading of a method. *)
Readings == {r \in (now .. now + MaxStall) \X (now .. now + MaxStall) :
                r[1] <= r[2] /\ r[2] <= MaxTime}

(* Every record Acquire ever returned: what a caller can pass back. *)
Issued == {[WorkID |-> ledger[t].work, HolderID |-> ledger[t].holder,
            FencingToken |-> t] : t \in DOMAIN ledger}

New ==
    /\ records = [w \in {} |-> w]
    /\ seq = 0
    /\ now = 0
    /\ Contract!Init

-----------------------------------------------------------------------------
AcquireResult(w) ==
    IF Exists(w) /\ ~(now > records[w].expiresAt) THEN ErrLeaseHeld
    ELSE OK

(* Mutant: the counter lives in the row and starts over with a new one. *)
nextTokenOfRow(w) == IF Exists(w) THEN records[w].fencingToken + 1 ELSE 1

nextToken(w) == seq + 1

(* Mutant: only an undeclared exit hands its checkpoint over. *)
prevCheckpointIfExpired(w) ==
    IF Exists(w) /\ records[w].exitMode = ExitNone THEN records[w].checkpoint ELSE NoState

prevCheckpoint(w) == IF Exists(w) THEN records[w].checkpoint ELSE NoState

(* The record a successful Acquire stores. *)
NewRecord(w, h, ttl, rd) ==
    [holderID     |-> h,
     fencingToken |-> nextToken(w),
     expiresAt    |-> rd[1] + ttl,
     checkpoint   |-> prevCheckpoint(w),
     exitMode     |-> ExitNone,
     prevExit     |-> IF Exists(w) THEN CapturedExit(records[w].exitMode) ELSE ExitNone,
     prevHolderID |-> IF Exists(w) THEN records[w].holderID ELSE NoHolder,
     updatedAt    |-> rd[2]]

Acquire(w, h, ttl, rd) ==
    IF AcquireResult(w) = OK
    THEN /\ seq < MaxSeq
         /\ records' = [x \in DOMAIN records \union {w} |->
                          IF x = w THEN NewRecord(w, h, ttl, rd) ELSE records[x]]
         /\ seq' = seq + 1
         /\ now' = rd[2]
         /\ ledger' = [t \in DOMAIN ledger \union {nextToken(w)} |->
                         IF t = nextToken(w) THEN Contract!NewTenure(w, h) ELSE ledger[t]]
    ELSE UNCHANGED vars

(* Mutant: no refusal after a declared exit. *)
CheckpointResultAfterExit(rec) ==
    IF Fenced(rec) THEN ErrFenced ELSE OK

CheckpointResult(rec) ==
    IF Fenced(rec) THEN ErrFenced
    ELSE IF records[rec.WorkID].exitMode # ExitNone THEN ErrLeaseExpired
    ELSE OK

(* state is NoState for a nil or an empty slice: both clear the checkpoint. *)
Checkpoint(rec, state, ttl, rd) ==
    IF CheckpointResult(rec) = OK
    THEN /\ records' = [records EXCEPT ![rec.WorkID] =
                          [@ EXCEPT !.checkpoint = state, !.expiresAt = rd[1] + ttl,
                                    !.updatedAt = rd[2]]]
         /\ now' = rd[2]
         /\ ledger' = [ledger EXCEPT ![rec.FencingToken].saved = {state}]
         /\ UNCHANGED seq
    ELSE UNCHANGED vars

(* Mutant: no expiry check. *)
RenewResultAnyTime(rec) == IF Fenced(rec) THEN ErrFenced ELSE OK

RenewResult(rec) ==
    IF Fenced(rec) THEN ErrFenced
    ELSE IF ~(now < records[rec.WorkID].expiresAt) THEN ErrLeaseExpired
    ELSE OK

Renew(rec, ttl, rd) ==
    IF RenewResult(rec) = OK
    THEN /\ records' = [records EXCEPT ![rec.WorkID] =
                          [@ EXCEPT !.expiresAt = rd[1] + ttl, !.updatedAt = rd[2]]]
         /\ now' = rd[2]
         /\ UNCHANGED <<seq, ledger>>
    ELSE UNCHANGED vars

(* Mutant: no expiry check, so a second Release is accepted. *)
ReleaseResultTwice(rec, mode) ==
    IF mode \notin DeclarableExits THEN ErrInvalidExitMode
    ELSE IF Fenced(rec) THEN ErrFenced
    ELSE OK

ReleaseResult(rec, mode) ==
    IF mode \notin DeclarableExits THEN ErrInvalidExitMode
    ELSE IF Fenced(rec) THEN ErrFenced
    ELSE IF ~(records[rec.WorkID].expiresAt > now) THEN ErrLeaseExpired
    ELSE OK

Release(rec, mode, rd) ==
    IF ReleaseResult(rec, mode) = OK
    THEN /\ records' = [records EXCEPT ![rec.WorkID] =
                          [@ EXCEPT !.exitMode = mode, !.expiresAt = rd[1] - Grace,
                                    !.updatedAt = rd[2]]]
         /\ now' = rd[2]
         /\ ledger' = [ledger EXCEPT ![rec.FencingToken].exit = mode]
         /\ UNCHANGED seq
    ELSE UNCHANGED vars

(* Compares the token only, not the holder ID. *)
ReadCheckpointResult(rec) ==
    IF ~(Exists(rec.WorkID) /\ records[rec.WorkID].fencingToken = rec.FencingToken)
         THEN ErrFenced
    ELSE OK

(* The value a successful ReadCheckpoint returns. *)
ReadCheckpoint(rec) ==
    [State        |-> records[rec.WorkID].checkpoint,
     PrevExit     |-> records[rec.WorkID].prevExit,
     PrevHolderID |-> records[rec.WorkID].prevHolderID]

ForgetResult(rec) ==
    IF Fenced(rec) THEN ErrFenced ELSE OK

(* Deletes the records of the work IDs in W. *)
Delete(W) ==
    /\ records' = [w \in DOMAIN records \ W |-> records[w]]
    /\ ledger' = [t \in DOMAIN ledger |->
                    IF \E w \in W : w \in DOMAIN records /\ records[w].fencingToken = t
                    THEN [ledger[t] EXCEPT !.erased = TRUE] ELSE ledger[t]]

Forget(rec) ==
    IF ForgetResult(rec) = OK
    THEN Delete({rec.WorkID}) /\ UNCHANGED <<seq, now>>
    ELSE UNCHANGED vars

(* The work IDs a Sweep at this instant deletes. *)
Sweepable(retention, includeExpired) ==
    {w \in DOMAIN records :
        /\ now - records[w].updatedAt > retention
        /\ now > records[w].expiresAt
        /\ \/ records[w].exitMode = ExitRetired
           \/ includeExpired /\ records[w].exitMode = ExitNone}

Sweep(retention, includeExpired) ==
    Delete(Sweepable(retention, includeExpired)) /\ UNCHANGED <<seq, now>>

(* Time passes between calls. *)
Tick == now < MaxTime /\ now' = now + 1 /\ UNCHANGED <<records, seq, ledger>>

AcquireCall == \E w \in WorkIDs, h \in HolderIDs, ttl \in TTLs, rd \in Readings :
                  Acquire(w, h, ttl, rd)

CheckpointCall == \E rec \in Issued, s \in States \union {NoState}, ttl \in TTLs,
                     rd \in Readings : Checkpoint(rec, s, ttl, rd)

RenewCall == \E rec \in Issued, ttl \in TTLs, rd \in Readings : Renew(rec, ttl, rd)

ReleaseCall == \E rec \in Issued, mode \in ExitModes, rd \in Readings :
                  Release(rec, mode, rd)

ForgetCall == \E rec \in Issued : Forget(rec)

SweepCall == \E retention \in Retentions, includeExpired \in BOOLEAN :
                Sweep(retention, includeExpired)

(* What a method returns given whether its context is done: ctx.Err() is   *)
(* asked before the mutex is taken.                                        *)
CheckContext(done, result) == IF done THEN ErrContext ELSE result

(* Any method called with a context that is already done changes nothing.  *)
DoneContextCall == UNCHANGED vars

Next == \/ AcquireCall \/ CheckpointCall \/ RenewCall \/ ReleaseCall
        \/ ForgetCall \/ SweepCall \/ DoneContextCall \/ Tick

Spec == New /\ [][Next]_vars

-----------------------------------------------------------------------------
(* Every variable keeps its type; a stored record never carries a token    *)
(* the counter has not reached.                                            *)
TypeOK ==
    /\ DOMAIN records \subseteq WorkIDs
    /\ records \in [DOMAIN records -> record]
    /\ seq \in 0 .. MaxSeq
    /\ now \in 0 .. MaxTime
    /\ ledger \in [1 .. seq -> Contract!Tenure]

(* Whoever can still read a work ID's checkpoint reads the truth: the exit *)
(* and the holder of the tenure it took over from, ExitExpired if that one *)
(* declared none, and the last state any holder was told is stored, over   *)
(* any number of holders that stored none, and nothing from before a       *)
(* Forget or a Sweep (memory.go Acquire, Checkpoint, ReadCheckpoint).      *)
ReadsAreTrue ==
    \A rec \in Issued :
        ReadCheckpointResult(rec) = OK =>
            LET cp == ReadCheckpoint(rec)
            IN  /\ Contract!TruePrevExit(rec.FencingToken, cp.PrevExit, cp.PrevHolderID)
                /\ Contract!TrueState(rec.FencingToken, cp.State)

(* After Release any successor may acquire at once, and no later Renew,    *)
(* Checkpoint or second Release by the old holder can take that back       *)
(* (memory.go Release sets expiresAt into the past; nothing moves it).     *)
HandoffIsImmediate ==
    \A w \in DOMAIN records :
        records[w].exitMode # ExitNone => AcquireResult(w) = OK

(* A declared exit, and the state stored before it, are never overwritten, *)
(* whatever calls arrive late (memory.go Checkpoint step 4, Release step 4).*)
ExitIsFinal ==
    [][\A t \in DOMAIN ledger :
          ledger[t].exit # ExitNone =>
             /\ ledger'[t].exit = ledger[t].exit
             /\ ledger'[t].saved = ledger[t].saved]_vars

(* Once fenced, always fenced: no later grant, also not the first one      *)
(* after the row was deleted, makes an old record valid again (memory.go:  *)
(* seq is never reset, heldBy compares it).                                *)
FencedForever ==
    [][\A rec \in Issued : Fenced(rec) => Fenced(rec)']_vars

(* The rows implement the contract: tokens only grow, and only the newest, *)
(* stored, undeclared tenure of a work ID is ever written.                 *)
ImplementsContract == Contract!Spec
=============================================================================
