--------------------------- MODULE PostgresBackend ---------------------------
(***************************************************************************)
(* The PostgreSQL backend, backend/postgres/postgres.go and schema.sql, at *)
(* the default isolation level, READ COMMITTED.  A method sends one        *)
(* statement: its transaction begins, which fixes NOW(); later, with the   *)
(* steps of other connections in between, it writes.  It scans a snapshot  *)
(* for its row, waits for the row's lock and evaluates its WHERE clause    *)
(* again on the latest row, still with its own NOW().  The snapshot may be *)
(* any taken since it began, so it changes no row if its clause is false   *)
(* at some moment, and changes the row at a moment when the clause is      *)
(* true.  Acquire draws the token of its VALUES row before it writes.      *)
(* A write that changed no row is classified by a second statement.  Any   *)
(* call may fail, and any answer may be lost.                              *)
(*                                                                         *)
(* grants is a history variable: actions write it, no guard reads it but   *)
(* for the records callers hold.                                           *)
(***************************************************************************)
EXTENDS Backend, Sequences

CONSTANTS
    Conns,       \* connections of the pool, each running one method
    Unit,        \* nanoseconds per microsecond
    TTL,         \* lease duration, in nanoseconds
    Retention,   \* SweepOptions.Retention, in nanoseconds
    Ops,         \* the methods callers use besides Acquire
    Modes,       \* the exit modes callers pass to Release
    Grace,       \* the interval Release subtracts, in microseconds
    MaxDelay,    \* how long after its NOW() a statement may write, in microseconds
    MaxTime,     \* bound on the clock, in microseconds
    MaxSeq       \* bound on the sequence

ASSUME PostgresAssumption ==
    /\ Unit \in Nat \ {0} /\ TTL \in Nat \ {0} /\ Retention \in Nat \ {0}
    /\ Ops \subseteq {"checkpoint", "renew", "release", "forget", "sweep"}
    /\ Modes \subseteq ExitModes
    /\ Grace \in Nat \ {0} /\ MaxDelay \in Nat /\ MaxTime \in Nat /\ MaxSeq \in Nat

VARIABLES
    rows,     \* worklease_leases: map from work_id to row
    seq,      \* worklease_fencing_seq
    now,      \* the server's clock
    conn,     \* what each connection is doing
    grants    \* history: the tenures in the order they were granted

vars == <<rows, seq, now, conn, grants>>

(* Mutant: whole microseconds, rounded down. *)
formatIntervalDown(d) == d \div Unit

(* Whole microseconds, rounded up. *)
formatInterval(d) == (d + Unit - 1) \div Unit

(* Seconds with six decimals: microseconds, rounded to the nearest. *)
formatSeconds(d) == (2 * d + Unit) \div (2 * Unit)

(* NULL is ExitNone in exit_mode and NoHolder in prev_holder_id. *)
Row == [holder_id      : HolderIDs,
        fencing_token  : Nat,
        expires_at     : Int,
        checkpoint     : States \union {NoState},
        exit_mode      : StoredExits,
        prev_exit_mode : ExitModes,
        prev_holder_id : HolderIDs \union {NoHolder},
        updated_at     : Int]

(* A tenure as in LeaseContract, its token, and promised: the latest end   *)
(* of the lease window, in nanoseconds, that a client computes from the    *)
(* calls that succeeded (the start of the call plus TTL).                  *)
Grant == [work : WorkIDs, holder : HolderIDs, exit : StoredExits,
          saved : SUBSET (States \union {NoState}), erased : BOOLEAN,
          token : Nat, promised : Int]

Tenures == [i \in DOMAIN grants |->
              [work |-> grants[i].work, holder |-> grants[i].holder, exit |-> grants[i].exit,
               saved |-> grants[i].saved, erased |-> grants[i].erased]]

(* Tenures are numbered in the order in which they were granted. *)
Contract == INSTANCE LeaseContract WITH TokenSpace <- 1 .. MaxSeq, ledger <- Tenures

Idle == [st |-> "idle"]

(* The records Acquire returned, as callers pass them back. *)
Issued == {[WorkID |-> grants[i].work, HolderID |-> grants[i].holder,
            FencingToken |-> grants[i].token] : i \in DOMAIN grants}

Exists(w) == w \in DOMAIN rows

(* WHERE work_id = ... AND holder_id = ... AND fencing_token = ... *)
Matches(rec) ==
    /\ Exists(rec.WorkID)
    /\ rows[rec.WorkID].holder_id = rec.HolderID
    /\ rows[rec.WorkID].fencing_token = rec.FencingToken

(* The tenure a record stands for. *)
IndexOf(rec) ==
    CHOOSE i \in DOMAIN grants :
        /\ grants[i].work = rec.WorkID /\ grants[i].token = rec.FencingToken
        /\ \A j \in DOMAIN grants :
              grants[j].work = rec.WorkID /\ grants[j].token = rec.FencingToken => j <= i

Init ==
    /\ rows = [w \in {} |-> w]
    /\ seq = 0
    /\ now = 0
    /\ conn = [c \in Conns |-> Idle]
    /\ grants = <<>>

-----------------------------------------------------------------------------
(* Begin.                                                                  *)

Free(c) == conn[c].st \in {"idle", "done"}

Send(c, op, rec, arg) ==
    /\ Free(c)
    /\ conn' = [conn EXCEPT ![c] = [st |-> "begun", op |-> op, at |-> now, rec |-> rec, arg |-> arg]]
    /\ UNCHANGED <<rows, seq, now, grants>>

(* The method returns.  The result is kept where the caller learns from it *)
(* what became of its lease.                                               *)
Done(c, op, rec, err) ==
    conn' = [conn EXCEPT ![c] =
               IF err = ErrFenced \/ (err = ErrLeaseExpired /\ op = "checkpoint")
               THEN [st |-> "done", rec |-> rec, err |-> err]
               ELSE Idle]

AcquireBegin(c) ==
    \E w \in WorkIDs, h \in HolderIDs :
        Send(c, "acquire", [WorkID |-> w, HolderID |-> h, FencingToken |-> 0], NoState)

CheckpointBegin(c) ==
    \E rec \in Issued, s \in States \union {NoState} : Send(c, "checkpoint", rec, s)

RenewBegin(c) == \E rec \in Issued : Send(c, "renew", rec, NoState)

(* Mutant: every mode is sent. *)
ReleaseBeginUnchecked(c) == \E rec \in Issued, mode \in Modes : Send(c, "release", rec, mode)

(* An undeclarable mode is refused before anything is sent. *)
ReleaseBegin(c) ==
    \E rec \in Issued, mode \in Modes :
        IF mode \in DeclarableExits
        THEN Send(c, "release", rec, mode)
        ELSE /\ Free(c) /\ Done(c, "release", rec, ErrInvalidExitMode)
             /\ UNCHANGED <<rows, seq, now, grants>>

ForgetBegin(c) == \E rec \in Issued : Send(c, "forget", rec, NoState)

SweepBegin(c) ==
    /\ Free(c)
    /\ \E includeExpired \in BOOLEAN :
          conn' = [conn EXCEPT ![c] = [st |-> "begun", op |-> "sweep", at |-> now,
                                       include |-> includeExpired]]
    /\ UNCHANGED <<rows, seq, now, grants>>

Begin(c) == \/ AcquireBegin(c)
            \/ "checkpoint" \in Ops /\ CheckpointBegin(c)
            \/ "renew" \in Ops /\ RenewBegin(c)
            \/ "release" \in Ops /\ ReleaseBegin(c)
            \/ "forget" \in Ops /\ ForgetBegin(c)
            \/ "sweep" \in Ops /\ SweepBegin(c)

-----------------------------------------------------------------------------
(* The WHERE clauses, and the sequence.                                    *)

queryCheckpoint(rec) == Matches(rec) /\ rows[rec.WorkID].exit_mode = ExitNone

(* Mutant: the clause on expires_at is missing. *)
queryRenewAnyTime(rec, at) == Matches(rec)

queryRenew(rec, at) == Matches(rec) /\ rows[rec.WorkID].expires_at > at

(* Mutant: the clause on expires_at is missing. *)
queryReleaseAnyTime(rec, at) == Matches(rec)

queryRelease(rec, at) == Matches(rec) /\ rows[rec.WorkID].expires_at > at

queryForget(rec) == Matches(rec)

queryVacuumSweep(w, at, includeExpired) ==
    /\ Exists(w)
    /\ rows[w].updated_at < at - formatSeconds(Retention)
    /\ rows[w].expires_at < at
    /\ \/ rows[w].exit_mode = ExitRetired
       \/ includeExpired /\ rows[w].exit_mode = ExitNone

(* The row satisfies the WHERE clause of the statement q. *)
Where(q) ==
    \/ q.op = "checkpoint" /\ queryCheckpoint(q.rec)
    \/ q.op = "renew"      /\ queryRenew(q.rec, q.at)
    \/ q.op = "release"    /\ queryRelease(q.rec, q.at)
    \/ q.op = "forget"     /\ queryForget(q.rec)

(* Mutant: the counter lives in the row and starts over with a new one. *)
nextvalOfRow(w) == IF Exists(w) THEN rows[w].fencing_token + 1 ELSE 1

nextval(w) == seq + 1

AcquireDraws(c) ==
    /\ conn[c].st = "begun" /\ conn[c].op = "acquire"
    /\ seq < MaxSeq
    /\ seq' = seq + 1
    /\ conn' = [conn EXCEPT ![c].st = "drawn",
                            ![c].rec.FencingToken = nextval(conn[c].rec.WorkID)]
    /\ UNCHANGED <<rows, now, grants>>

-----------------------------------------------------------------------------
(* The statement reaches its row.                                          *)

NewGrant(rec, tok, at) ==
    [work |-> rec.WorkID, holder |-> rec.HolderID, exit |-> ExitNone, saved |-> {},
     erased |-> FALSE, token |-> tok, promised |-> at * Unit + TTL]

(* queryAcquire without a conflict: the VALUES row. *)
AcquireInserts(c) ==
    LET q == conn[c]
    IN  /\ q.st = "drawn" /\ q.op = "acquire" /\ ~Exists(q.rec.WorkID)
        /\ rows' = [w \in DOMAIN rows \union {q.rec.WorkID} |->
                      IF w = q.rec.WorkID
                      THEN [holder_id |-> q.rec.HolderID, fencing_token |-> q.rec.FencingToken,
                            expires_at |-> q.at + formatInterval(TTL), checkpoint |-> NoState,
                            exit_mode |-> ExitNone, prev_exit_mode |-> ExitNone,
                            prev_holder_id |-> NoHolder, updated_at |-> q.at]
                      ELSE rows[w]]
        /\ grants' = Append(grants, NewGrant(q.rec, q.rec.FencingToken, q.at))
        /\ Done(c, "acquire", q.rec, OK)
        /\ UNCHANGED <<seq, now>>

(* Mutant: a NULL exit_mode is not captured as expired. *)
COALESCEmissing(exit) == exit

(* Mutant: a declared exit is captured as expired as well. *)
COALESCEalways(exit) == ExitExpired

COALESCE(exit) == CapturedExit(exit)

(* queryAcquire with a conflict: DO UPDATE, which draws a second token. *)
AcquireUpdates(c) ==
    LET q   == conn[c]
        old == rows[q.rec.WorkID]
        tok == nextval(q.rec.WorkID)
    IN  /\ q.st = "drawn" /\ q.op = "acquire" /\ Exists(q.rec.WorkID)
        /\ IF old.expires_at < q.at
           THEN /\ seq < MaxSeq
                /\ seq' = seq + 1
                /\ rows' = [rows EXCEPT ![q.rec.WorkID] =
                              [@ EXCEPT !.holder_id = q.rec.HolderID, !.fencing_token = tok,
                                        !.expires_at = q.at + formatInterval(TTL),
                                        !.prev_exit_mode = COALESCE(old.exit_mode),
                                        !.prev_holder_id = old.holder_id,
                                        !.exit_mode = ExitNone, !.updated_at = q.at]]
                /\ grants' = Append(grants, NewGrant(q.rec, tok, q.at))
                /\ Done(c, "acquire", q.rec, OK)
           ELSE /\ Done(c, "acquire", q.rec, ErrLeaseHeld)
                /\ UNCHANGED <<rows, seq, grants>>
        /\ UNCHANGED now

(* A holder's statement reaches its row and changes it. *)
Updates(c, op) ==
    /\ conn[c].st = "begun" /\ conn[c].op = op /\ Where(conn[c])
    /\ Done(c, op, conn[c].rec, OK)
    /\ UNCHANGED <<seq, now>>

CheckpointWrites(c) ==
    LET q == conn[c]
    IN  /\ Updates(c, "checkpoint")
        /\ rows' = [rows EXCEPT ![q.rec.WorkID] =
                      [@ EXCEPT !.checkpoint = q.arg, !.expires_at = q.at + formatInterval(TTL),
                                !.updated_at = q.at]]
        /\ grants' = [grants EXCEPT ![IndexOf(q.rec)].saved = {q.arg}]

RenewWrites(c) ==
    LET q   == conn[c]
        end == q.at * Unit + TTL
    IN  /\ Updates(c, "renew")
        /\ rows' = [rows EXCEPT ![q.rec.WorkID] =
                      [@ EXCEPT !.expires_at = q.at + formatInterval(TTL), !.updated_at = q.at]]
        /\ grants' = [grants EXCEPT ![IndexOf(q.rec)].promised = IF end > @ THEN end ELSE @]

ReleaseWrites(c) ==
    LET q == conn[c]
    IN  /\ Updates(c, "release")
        /\ rows' = [rows EXCEPT ![q.rec.WorkID] =
                      [@ EXCEPT !.exit_mode = q.arg, !.expires_at = q.at - Grace,
                                !.updated_at = q.at]]
        /\ grants' = [grants EXCEPT ![IndexOf(q.rec)].exit = q.arg]

Delete(W) ==
    /\ rows' = [w \in DOMAIN rows \ W |-> rows[w]]
    /\ grants' = [i \in DOMAIN grants |->
                    IF \E w \in W : grants[i].work = w /\ grants[i].token = rows[w].fencing_token
                    THEN [grants[i] EXCEPT !.erased = TRUE] ELSE grants[i]]

ForgetWrites(c) == Updates(c, "forget") /\ Delete({conn[c].rec.WorkID})

SweepWrites(c) ==
    LET q == conn[c]
    IN  /\ q.st = "begun" /\ q.op = "sweep"
        /\ Delete({w \in DOMAIN rows : queryVacuumSweep(w, q.at, q.include)})
        /\ conn' = [conn EXCEPT ![c] = Idle]
        /\ UNCHANGED <<seq, now>>

(* Forget returns ErrFenced, the others look again. *)
ZeroRows(c) ==
    LET q == conn[c]
    IN  /\ q.st = "begun" /\ q.op \in {"checkpoint", "renew", "release", "forget"}
        /\ ~Where(q)
        /\ IF q.op = "forget"
           THEN Done(c, "forget", q.rec, ErrFenced)
           ELSE conn' = [conn EXCEPT ![c] = [st |-> "classify", op |-> q.op, rec |-> q.rec]]
        /\ UNCHANGED <<rows, seq, now, grants>>

-----------------------------------------------------------------------------
(* Mutant: zero rows are taken for a fencing, without a second look. *)
queryHolderCheckSkipped(rec) == ErrFenced

(* queryRenewCheck and queryHolderCheck: the classification of zero rows. *)
queryHolderCheck(rec) == IF Matches(rec) THEN ErrLeaseExpired ELSE ErrFenced

Classify(c) ==
    /\ conn[c].st = "classify"
    /\ Done(c, conn[c].op, conn[c].rec, queryHolderCheck(conn[c].rec))
    /\ UNCHANGED <<rows, seq, now, grants>>

(* A statement fails in the driver or with its context, without effect. *)
Fails(c) ==
    /\ conn[c].st \in {"begun", "drawn", "classify"}
    /\ conn' = [conn EXCEPT ![c] = Idle]
    /\ UNCHANGED <<rows, seq, now, grants>>

(* exitModeFromSQL maps an unknown text to ExitExpired. *)
exitModeFromSQL(text) ==
    IF text \in {ExitNone, ExitFinished, ExitAbandoned, ExitRetired} THEN text ELSE ExitExpired

(* Compares the token only, not the holder ID. *)
ReadCheckpointResult(rec) ==
    IF ~(Exists(rec.WorkID) /\ rows[rec.WorkID].fencing_token = rec.FencingToken)
    THEN ErrFenced ELSE OK

(* The value a successful ReadCheckpoint returns. *)
ReadCheckpoint(rec) ==
    [State        |-> rows[rec.WorkID].checkpoint,
     PrevExit     |-> exitModeFromSQL(rows[rec.WorkID].prev_exit_mode),
     PrevHolderID |-> rows[rec.WorkID].prev_holder_id]

Tick ==
    /\ now < MaxTime
    /\ \A c \in Conns : conn[c].st \in {"begun", "drawn"} => now - conn[c].at < MaxDelay
    /\ now' = now + 1
    /\ UNCHANGED <<rows, seq, conn, grants>>

Step(c) ==
    \/ Begin(c) \/ AcquireDraws(c)
    \/ AcquireInserts(c) \/ AcquireUpdates(c) \/ CheckpointWrites(c) \/ RenewWrites(c)
    \/ ReleaseWrites(c) \/ ForgetWrites(c) \/ SweepWrites(c) \/ ZeroRows(c)
    \/ Classify(c) \/ Fails(c)

Next == Tick \/ \E c \in Conns : Step(c)

Spec == Init /\ [][Next]_vars

-----------------------------------------------------------------------------
(* Every variable keeps its type, and a stored token has been drawn. *)
TypeOK ==
    /\ DOMAIN rows \subseteq WorkIDs
    /\ rows \in [DOMAIN rows -> Row]
    /\ seq \in 0 .. MaxSeq
    /\ now \in 0 .. MaxTime
    /\ \A c \in Conns : conn[c].st \in {"idle", "begun", "drawn", "classify", "done"}
    /\ grants \in Seq(Grant)
    /\ \A w \in DOMAIN rows : rows[w].fencing_token <= seq

(* As for the memory backend: whoever can still read a work ID's           *)
(* checkpoint reads the exit, the holder and the state its predecessors    *)
(* left, in the order in which PostgreSQL granted the lease, whatever      *)
(* statements overlapped (postgres.go queryAcquire, queryCheckpoint,       *)
(* ReadCheckpoint).                                                        *)
ReadsAreTrue ==
    \A rec \in Issued :
        ReadCheckpointResult(rec) = OK =>
            LET cp == ReadCheckpoint(rec)
            IN  /\ Contract!TruePrevExit(IndexOf(rec), cp.PrevExit, cp.PrevHolderID)
                /\ Contract!TrueState(IndexOf(rec), cp.State)

(* An answer built from two statements is the truth, although the row may  *)
(* change between them: ErrFenced means that the record does not match any *)
(* more, now and as long as the caller relies on it, and ErrLeaseExpired   *)
(* from Checkpoint means that this holder declared its exit (postgres.go   *)
(* Checkpoint step 3, Renew step 3, Release step 4).                       *)
AnswersAreTrue ==
    \A c \in Conns : conn[c].st = "done" =>
        /\ conn[c].err = ErrFenced => ~Matches(conn[c].rec)
        /\ conn[c].err = ErrLeaseExpired => grants[IndexOf(conn[c].rec)].exit # ExitNone

(* After Release any successor may acquire at once, and a statement of the *)
(* old holder that began before the Release cannot take that back          *)
(* (postgres.go queryRenew, queryRelease).                                 *)
HandoffIsImmediate ==
    \A w \in DOMAIN rows : rows[w].exit_mode # ExitNone => rows[w].expires_at < now

(* A declared exit is never overwritten (postgres.go queryRelease).  Does  *)
(* not hold once a statement is delayed by more than Grace.                *)
ExitIsFinal ==
    [][\A i \in DOMAIN grants :
          grants[i].exit # ExitNone => grants'[i].exit = grants[i].exit]_vars

(* The stored expiry of a lease without a declared exit falls short of the *)
(* latest window end its client computed by at most the age of the oldest  *)
(* statement: a late Checkpoint or Renew writes an expiry of its own,      *)
(* older NOW() (postgres.go queryCheckpoint, queryRenew, formatInterval).  *)
ShortfallIsBounded ==
    \A w \in DOMAIN rows, i \in DOMAIN grants :
        /\ grants[i].work = w /\ grants[i].token = rows[w].fencing_token
        /\ rows[w].exit_mode = ExitNone
        => (rows[w].expires_at + MaxDelay) * Unit >= grants[i].promised

(* The stored expiry is never below the window its client computed, as     *)
(* renewal.go says of LeaseWindow.  Does not hold: see ShortfallIsBounded. *)
ExpiryCoversWindow ==
    \A w \in DOMAIN rows, i \in DOMAIN grants :
        /\ grants[i].work = w /\ grants[i].token = rows[w].fencing_token
        /\ rows[w].exit_mode = ExitNone
        => rows[w].expires_at * Unit >= grants[i].promised

(* A later grant of a work ID carries a greater token than any earlier one *)
(* (postgres.go queryAcquire draws both tokens from one sequence).  Does   *)
(* not hold if a row is deleted between the draw and the insert.           *)
TokensGrow ==
    \A i, j \in DOMAIN grants :
        grants[i].work = grants[j].work /\ i < j => grants[i].token < grants[j].token

(* The rows implement the contract, in grant order: only the newest,       *)
(* stored, undeclared tenure of a work ID is ever written, and its exit is *)
(* declared once.                                                          *)
ImplementsContract == Contract!Spec
=============================================================================
