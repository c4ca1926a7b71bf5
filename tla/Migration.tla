----------------------------- MODULE Migration -----------------------------
(***************************************************************************)
(* An application of the library: the one-shot migration of                *)
(* examples/cross-tenant-migration.  Coordinators call Runner.Run on one   *)
(* work ID; WorkFn resumes from the cursor it is handed, migrates the      *)
(* tenants that the cursor does not list, saves the cursor after each and  *)
(* retires the work ID when none is left.  What a migration did to a       *)
(* tenant is outside the lease and outlives every tenure, so this is where *)
(* the promises of backend, lease and runner must add up.                  *)
(***************************************************************************)
EXTENDS Runner, Sequences

CONSTANT tenants   \* the tenant IDs, in the order of the migration

Tenants == {tenants[i] : i \in DOMAIN tenants}

(* checkpoint.Encode and Decode of a MigrationProgress: a document with    *)
(* one field; nil decodes to the zero value.                               *)
Encode(progress) == [migrated_tenants |-> progress]
Decode(data) == IF data = NoState THEN <<>> ELSE data.migrated_tenants

ASSUME MigrationAssumption ==
    /\ tenants \in Seq(Tenants)
    /\ \A i, j \in DOMAIN tenants : tenants[i] = tenants[j] => i = j
    /\ \A n \in 0..Len(tenants) : Encode(SubSeq(tenants, 1, n)) \in States
    /\ {ErrRetire, ErrFenced, WorkFailed} \subseteq WorkErrs
    /\ States \union {NoState} \subseteq Finals

VARIABLES
    at,         \* where WorkFn is
    kept,       \* the state of a retired work ID, to be returned as it is
    progress,   \* MigratedTenants
    migrated    \* tenant -> the tokens under which it was migrated

workVars == <<at, kept, progress, migrated>>
appVars  == <<vars, workVars>>

MigrationInit ==
    /\ Init
    /\ at = [r \in Runs |-> "start"]
    /\ kept = [r \in Runs |-> NoState]
    /\ progress = [r \in Runs |-> <<>>]
    /\ migrated = [x \in Tenants |-> {}]

Listed(list) == {list[i] : i \in DOMAIN list}

Remaining(r) == Tenants \ Listed(progress[r])

(* The first tenant in order that is not skipped. *)
IsNext(r, x) ==
    \E i \in DOMAIN tenants :
        /\ x = tenants[i] /\ x \in Remaining(r)
        /\ \A j \in 1..(i - 1) : tenants[j] \notin Remaining(r)

-----------------------------------------------------------------------------
(* Mutant: an abandoned migration is started over. *)
ResumesFromExpiredOnly(state, prevExit) == IF prevExit = ExitExpired THEN Decode(state) ELSE <<>>

(* Only a holder that did not finish leaves a cursor to resume from. *)
ResumesFrom(state, prevExit) ==
    IF prevExit \in {ExitExpired, ExitAbandoned} THEN Decode(state) ELSE <<>>

(* Run reads the checkpoint and calls WorkFn with it. *)
Starts(r, state, prevExit) ==
    /\ ReadCheckpoint(r, state, OK)
    /\ \E prevHolder \in HolderIDs \union {NoHolder} : C!TruePrevExit(tok[r], prevExit, prevHolder)
    /\ IF prevExit = ExitRetired
       THEN /\ at' = [at EXCEPT ![r] = "keep retired"]
            /\ kept' = [kept EXCEPT ![r] = state]
            /\ UNCHANGED progress
       ELSE /\ at' = [at EXCEPT ![r] = "loop"]
            /\ progress' = [progress EXCEPT ![r] = ResumesFrom(state, prevExit)]
            /\ UNCHANGED kept
    /\ UNCHANGED migrated

(* Mutant: a migration cut short by its context is listed as done. *)
MigratesTenantAnyway(r, x, done) ==
    /\ pc[r] = "working" /\ at[r] = "loop" /\ IsNext(r, x)
    /\ ~done => cancelled[r] \/ cause[r] # NoCause
    /\ migrated' = IF done THEN [migrated EXCEPT ![x] = @ \union {tok[r]}] ELSE migrated
    /\ progress' = [progress EXCEPT ![r] = Append(@, x)]
    /\ at' = [at EXCEPT ![r] = "save"]
    /\ UNCHANGED <<vars, kept>>

(* migrateTenant takes effect, or gives up because the renewal context is  *)
(* done; it looks at no fencing token.                                     *)
MigratesTenant(r, x, done) ==
    /\ pc[r] = "working" /\ at[r] = "loop" /\ IsNext(r, x)
    /\ IF done
       THEN /\ migrated' = [migrated EXCEPT ![x] = @ \union {tok[r]}]
            /\ progress' = [progress EXCEPT ![r] = Append(@, x)]
            /\ at' = [at EXCEPT ![r] = "save"]
       ELSE /\ cancelled[r] \/ cause[r] # NoCause
            /\ at' = [at EXCEPT ![r] = WorkFailed]
            /\ UNCHANGED <<migrated, progress>>
    /\ UNCHANGED <<vars, kept>>

SavesCursor(r, err) ==
    /\ at[r] = "save"
    /\ WorkCheckpoint(r, Encode(progress[r]), err)
    /\ at' = [at EXCEPT ![r] = CASE err = OK        -> "loop"
                                 [] err = ErrFenced -> ErrFenced
                                 [] OTHER           -> WorkFailed]
    /\ UNCHANGED <<kept, progress, migrated>>

(* Mutant: the work ID is retired whatever stopped the loop. *)
ReturnsRetired(r) ==
    /\ at[r] \in {"loop", "keep retired", WorkFailed}
    /\ at[r] = "loop" => Remaining(r) = {}
    /\ WorkReturns(r, IF at[r] = "keep retired" THEN kept[r] ELSE Encode(progress[r]), ErrRetire)
    /\ UNCHANGED workVars

(* WorkFn returns the cursor and ErrRetire once no tenant is left, the     *)
(* checkpoint as it was if the work ID is retired already, or nil and the  *)
(* error that stopped it.                                                  *)
Returns(r) ==
    /\ \/ at[r] = "loop" /\ Remaining(r) = {} /\ WorkReturns(r, Encode(progress[r]), ErrRetire)
       \/ at[r] = "keep retired" /\ WorkReturns(r, kept[r], ErrRetire)
       \/ at[r] \in {WorkFailed, ErrFenced} /\ WorkReturns(r, NoState, at[r])
    /\ UNCHANGED workVars

(* The rest of Run, and what happens around it. *)
RestOfRun(r) ==
    /\ \/ Acquires(r) \/ \E err \in Errors \ {OK} : ReadCheckpoint(r, NoState, err)
       \/ StopAndClassify(r) \/ Cleans(r) \/ Releases(r)
       \/ \E c \in {CauseFenced, CauseExhausted} : LoseLease(r, c)
       \/ Cancel(r)
    /\ UNCHANGED workVars

(* A coordinator that returned, or died at any step, is followed by one    *)
(* that calls Run afresh.                                                  *)
Replaced(r) ==
    /\ pc[r] # "call"
    /\ pc' = [pc EXCEPT ![r] = "call"]
    /\ tok' = [tok EXCEPT ![r] = 0]
    /\ cancelled' = [cancelled EXCEPT ![r] = FALSE]
    /\ cause' = [cause EXCEPT ![r] = NoCause]
    /\ workErr' = [workErr EXCEPT ![r] = Unset]
    /\ final' = [final EXCEPT ![r] = NoState]
    /\ mode' = [mode EXCEPT ![r] = ExitNone]
    /\ result' = [result EXCEPT ![r] = Unset]
    /\ at' = [at EXCEPT ![r] = "start"]
    /\ kept' = [kept EXCEPT ![r] = NoState]
    /\ progress' = [progress EXCEPT ![r] = <<>>]
    /\ UNCHANGED <<ledger, migrated>>

MigrationNext ==
    \/ \E r \in Runs :
        \/ \E state \in States \union {NoState}, prevExit \in ExitModes : Starts(r, state, prevExit)
        \/ Returns(r) \/ RestOfRun(r) \/ Replaced(r)
        \/ \E x \in Tenants, done \in BOOLEAN : MigratesTenant(r, x, done)
        \/ \E err \in Errors : SavesCursor(r, err)
    \/ DeleteRow /\ UNCHANGED workVars

MigrationSpec == MigrationInit /\ [][MigrationNext]_appVars

-----------------------------------------------------------------------------
(* The tenants listed by what the tenure of t saved last. *)
CursorOf(t) == UNION {Listed(Decode(state)) : state \in ledger[t].saved}

(* A stored cursor lists no tenant that nobody migrated: whoever resumes   *)
(* from it, after whatever crash or loss, skips no work.                   *)
CursorIsTrue ==
    \A t \in Tokens : \A x \in CursorOf(t) : migrated[x] # {}

(* A recorded retirement means that every tenant was migrated, also if it  *)
(* was declared by a coordinator that only kept an earlier one.            *)
RetiredIsComplete ==
    \A t \in Tokens : ledger[t].exit = ExitRetired => \A x \in Tenants : migrated[x] # {}

(* A tenant that the cursor of an earlier tenure lists is never migrated   *)
(* again by a later tenure, however that one ended - crashed, lapsed,      *)
(* fenced, abandoned with a failed release or retired - unless the row was *)
(* deleted in between.  Only the tenant whose Checkpoint did not make it   *)
(* is repeated.                                                            *)
ListedIsNotRedone ==
    \A t, u \in Tokens : (t < u /\ C!Reaches(t, u)) =>
        \A x \in CursorOf(t) : u \notin migrated[x]
=============================================================================
