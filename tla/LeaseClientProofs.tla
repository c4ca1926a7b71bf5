------------------------- MODULE LeaseClientProofs --------------------------
(***************************************************************************)
(* Proofs about LeaseClient, for any number of sessions, any TTL, clock    *)
(* offset, clock stalls and retentions.  What the memory backend keeps for *)
(* all its callers is taken from MemoryBackendProofs.                      *)
(***************************************************************************)
EXTENDS LeaseClient, TLAPS

USE ClientAssumption, NamesAssumption

M == INSTANCE MemoryBackendProofs WITH TTLs <- {TTL}

-----------------------------------------------------------------------------
(* The inductive invariant: M!Inv of the backend, and for each session     *)
(* what its thread, its renewal goroutine and its Renew call know of the   *)
(* stored lease.                                                           *)

(* While W lies ahead of the local clock, the stored lease is that of s,   *)
(* without a declared exit, and lasts until W at least.                    *)
Backed(s, W) ==
    Local < W =>
        /\ Work \in DOMAIN records
        /\ records[Work].fencingToken = tok[s] /\ records[Work].holderID = HolderOf[s]
        /\ records[Work].exitMode = ExitNone
        /\ W <= records[Work].expiresAt + Offset

(* Two sessions never share a token. *)
TokensAreOwn == \A s, u \in Sessions : (tok[s] # 0 /\ tok[s] = tok[u]) => s = u

(* A token is one the backend issued to this session, and whoever may pass *)
(* it back has one.                                                        *)
TokenIssued(s) ==
    /\ tok[s] # 0 => /\ tok[s] \in DOMAIN ledger
                     /\ ledger[tok[s]].work = Work /\ ledger[tok[s]].holder = HolderOf[s]
    /\ HasToken(s) \/ pc[s] = "released" \/ reply[s] = OK \/ callAt[s] # "none" => tok[s] # 0

(* Where the goroutine and the call are while the session's thread is      *)
(* where it is.                                                            *)
Positions(s) ==
    /\ pc[s] \in {"idle", "polling", "acquiring"} =>
          ren[s] = "off" /\ callAt[s] = "none" /\ cause[s] = NoCause
    /\ ren[s] \in {"select", "launch", "attempt", "backoff", "publish"} => pc[s] \in {"held", "stopping"}
    /\ cause[s] # NoCause => ren[s] = "exited"
    /\ reply[s] = OK => pc[s] = "acquiring"

(* The start of Acquire lies in the past, and a grant lasts a TTL from it. *)
StartBacked(s) ==
    pc[s] = "acquiring" => start[s] <= Local /\ (reply[s] = OK => Backed(s, start[s] + TTL))

(* Both windows are backed, and no longer than a TTL. *)
WindowsBacked(s) ==
    HasToken(s) => /\ window[s] <= Local + TTL /\ published[s] <= Local + TTL
                   /\ Backed(s, window[s]) /\ Backed(s, published[s])

(* What the result of a Renew call says is true when it is taken. *)
CallIsTrue(s) ==
    /\ callAt[s] # "none" => callStart[s] <= Local
    /\ (ren[s] = "attempt" /\ callAt[s] = "answered") =>
          /\ callErr[s] = OK => Backed(s, callStart[s] + TTL)
          /\ callErr[s] = ErrFenced => B!Fenced(rec(s))
          /\ callErr[s] = ErrLeaseExpired => Local >= window[s]

LossIsTrue(s) ==
    /\ cause[s] = CauseFenced => tok[s] # 0 /\ B!Fenced(rec(s))
    /\ cause[s] \in {CauseExhausted, CauseExpired} => Local >= window[s]

SessionInv(s) ==
    TokenIssued(s) /\ Positions(s) /\ StartBacked(s) /\ WindowsBacked(s) /\ CallIsTrue(s) /\ LossIsTrue(s)

Inv == TypeOK /\ M!Inv /\ TokensAreOwn /\ \A s \in Sessions : SessionInv(s)

-----------------------------------------------------------------------------
(* The backend under the client is the one of MemoryBackendProofs. *)

(* The assumptions of the backend are met. *)
LEMMA BackendAssumption == M!MemoryAssumption /\ M!NamesAssumption
  BY DEF M!MemoryAssumption, M!NamesAssumption

(* The names and types of the two instances are the same. *)
LEMMA SameTypes ==
    /\ B!TypeOK <=> M!TypeOK
    /\ B!Readings = M!Readings /\ B!vars = M!vars
    /\ M!ExitModes = ExitModes /\ B!ExitModes = ExitModes
    /\ B!DeclarableExits = DeclarableExits /\ M!ExitNone = ExitNone
    /\ B!ExitNone = ExitNone /\ B!OK = OK /\ B!ErrFenced = ErrFenced
    /\ B!ErrLeaseExpired = ErrLeaseExpired /\ B!ErrLeaseHeld = ErrLeaseHeld
  <1>1. B!TypeOK <=> M!TypeOK
    BY DEF B!TypeOK, M!TypeOK, B!record, M!record, B!Contract!Tenure, M!Contract!Tenure,
       B!StoredExits, M!StoredExits, B!ExitModes, M!ExitModes, B!Contract!StoredExits, M!Contract!StoredExits,
       B!DeclarableExits, M!DeclarableExits, B!Contract!DeclarableExits, M!Contract!DeclarableExits,
       B!ExitNone, M!ExitNone, B!ExitFinished, M!ExitFinished, B!ExitAbandoned, M!ExitAbandoned,
       B!ExitRetired, M!ExitRetired, B!ExitExpired, M!ExitExpired, B!Contract!ExitNone, M!Contract!ExitNone,
       B!Contract!ExitFinished, M!Contract!ExitFinished, B!Contract!ExitAbandoned, M!Contract!ExitAbandoned,
       B!Contract!ExitRetired, M!Contract!ExitRetired
  <1>2. B!Readings = M!Readings /\ B!vars = M!vars
    BY DEF B!Readings, M!Readings, B!vars, M!vars
  <1>3. M!ExitModes = ExitModes /\ B!ExitModes = ExitModes
        /\ B!DeclarableExits = DeclarableExits /\ M!ExitNone = ExitNone
        /\ B!ExitNone = ExitNone
    BY DEF M!ExitModes, B!ExitModes, B!ExitExpired, ExitModes, B!DeclarableExits, DeclarableExits,
       M!ExitNone, ExitNone, B!ExitNone,
       M!DeclarableExits, M!ExitFinished, ExitFinished, B!ExitFinished, M!ExitAbandoned, ExitAbandoned,
       B!ExitAbandoned, M!ExitRetired, ExitRetired, B!ExitRetired, M!ExitExpired, ExitExpired
  <1>4. /\ B!OK = OK /\ B!ErrFenced = ErrFenced
        /\ B!ErrLeaseExpired = ErrLeaseExpired /\ B!ErrLeaseHeld = ErrLeaseHeld
    BY DEF B!OK, OK, B!ErrFenced, ErrFenced, B!ErrLeaseExpired, ErrLeaseExpired, B!ErrLeaseHeld, ErrLeaseHeld
  <1> QED BY <1>1, <1>2, <1>3, <1>4

(* The methods of the two instances are the same. *)
LEMMA SameMethods ==
    ASSUME NEW w, NEW ttl, NEW r, NEW rd, NEW h, NEW state, NEW mode, NEW retention, NEW expired
    PROVE  /\ B!Acquire(w, h, ttl, rd) => M!Acquire(w, h, ttl, rd)
           /\ B!Checkpoint(r, state, ttl, rd) => M!Checkpoint(r, state, ttl, rd)
           /\ B!Renew(r, ttl, rd) => M!Renew(r, ttl, rd)
           /\ B!Release(r, mode, rd) => M!Release(r, mode, rd)
           /\ B!Forget(r) => M!Forget(r)
           /\ B!Sweep(retention, expired) => M!Sweep(retention, expired)
           /\ B!Tick => M!Tick
           /\ B!New => M!New
  <1>1. B!Acquire(w, h, ttl, rd) => M!Acquire(w, h, ttl, rd)
    BY DEF B!Acquire, M!Acquire, B!AcquireResult, M!AcquireResult, B!Exists, M!Exists, B!NewRecord,
       M!NewRecord, B!nextToken, M!nextToken, B!prevCheckpoint, M!prevCheckpoint, B!vars, M!vars,
       B!Contract!NewTenure, M!Contract!NewTenure, B!Contract!ExitNone, M!Contract!ExitNone,
       B!CapturedExit, M!CapturedExit, B!ExitNone, M!ExitNone, B!ExitExpired, M!ExitExpired,
       B!OK, M!OK, B!ErrLeaseHeld, M!ErrLeaseHeld
  <1>2. B!Checkpoint(r, state, ttl, rd) => M!Checkpoint(r, state, ttl, rd)
    BY DEF B!Checkpoint, M!Checkpoint, B!CheckpointResult, M!CheckpointResult, B!Fenced, M!Fenced,
       B!heldBy, M!heldBy, B!Exists, M!Exists, B!vars, M!vars, B!ExitNone, M!ExitNone,
       B!OK, M!OK, B!ErrFenced, M!ErrFenced, B!ErrLeaseExpired, M!ErrLeaseExpired
  <1>3. B!Renew(r, ttl, rd) => M!Renew(r, ttl, rd)
    BY DEF B!Renew, M!Renew, B!RenewResult, M!RenewResult, B!Fenced, M!Fenced,
       B!heldBy, M!heldBy, B!Exists, M!Exists, B!vars, M!vars,
       B!OK, M!OK, B!ErrFenced, M!ErrFenced, B!ErrLeaseExpired, M!ErrLeaseExpired
  <1>4. B!Release(r, mode, rd) => M!Release(r, mode, rd)
    BY DEF B!Release, M!Release, B!ReleaseResult, M!ReleaseResult, B!Fenced, M!Fenced,
       B!heldBy, M!heldBy, B!Exists, M!Exists, B!vars, M!vars, B!DeclarableExits, M!DeclarableExits,
       B!ExitFinished, M!ExitFinished, B!ExitAbandoned, M!ExitAbandoned, B!ExitRetired, M!ExitRetired,
       B!OK, M!OK, B!ErrFenced, M!ErrFenced, B!ErrLeaseExpired, M!ErrLeaseExpired,
       B!ErrInvalidExitMode, M!ErrInvalidExitMode
  <1>5. B!Forget(r) => M!Forget(r)
    BY DEF B!Forget, M!Forget, B!ForgetResult, M!ForgetResult, B!Delete, M!Delete, B!Fenced, M!Fenced,
       B!heldBy, M!heldBy, B!Exists, M!Exists, B!vars, M!vars, B!OK, M!OK, B!ErrFenced, M!ErrFenced
  <1>6. B!Sweep(retention, expired) => M!Sweep(retention, expired)
    BY DEF B!Sweep, M!Sweep, B!Delete, M!Delete, B!Sweepable, M!Sweepable, B!ExitRetired, M!ExitRetired,
       B!ExitNone, M!ExitNone
  <1>7. B!Tick => M!Tick
    BY DEF B!Tick, M!Tick
  <1>8. B!New => M!New
    BY DEF B!New, M!New, B!Contract!Init, M!Contract!Init, B!Contract!NewTenure, M!Contract!NewTenure,
       B!Contract!ExitNone, M!Contract!ExitNone
  <1> QED BY <1>1, <1>2, <1>3, <1>4, <1>5, <1>6, <1>7, <1>8

(* So a call of the one is a call of the other. *)
LEMMA SameNext == B!Next => M!Next
  <1>1. B!Issued = M!Issued
    BY DEF B!Issued, M!Issued
  <1>2. B!AcquireCall => M!AcquireCall
    <2> SUFFICES ASSUME NEW w \in WorkIDs, NEW h \in HolderIDs, NEW ttl \in {TTL}, NEW rd \in B!Readings,
                        B!Acquire(w, h, ttl, rd)
                 PROVE  M!AcquireCall
      BY DEF B!AcquireCall
    <2>1. M!Acquire(w, h, ttl, rd) /\ rd \in M!Readings
      BY SameMethods, SameTypes
    <2> QED BY <2>1 DEF M!AcquireCall
  <1>3. B!CheckpointCall => M!CheckpointCall
    <2> SUFFICES ASSUME NEW r \in B!Issued, NEW state \in States \union {NoState}, NEW ttl \in {TTL},
                        NEW rd \in B!Readings, B!Checkpoint(r, state, ttl, rd)
                 PROVE  M!CheckpointCall
      BY DEF B!CheckpointCall
    <2>1. M!Checkpoint(r, state, ttl, rd) /\ rd \in M!Readings
      BY SameMethods, SameTypes
    <2> QED BY <1>1, <2>1 DEF M!CheckpointCall
  <1>4. B!RenewCall => M!RenewCall
    BY <1>1, SameMethods, SameTypes DEF B!RenewCall, M!RenewCall
  <1>5. B!ReleaseCall => M!ReleaseCall
    BY <1>1, SameMethods, SameTypes DEF B!ReleaseCall, M!ReleaseCall
  <1>6. B!ForgetCall => M!ForgetCall
    BY <1>1, SameMethods DEF B!ForgetCall, M!ForgetCall
  <1>7. B!SweepCall => M!SweepCall
    BY SameMethods DEF B!SweepCall, M!SweepCall
  <1>8. (B!DoneContextCall => M!DoneContextCall) /\ (B!Tick => M!Tick)
    BY SameMethods DEF B!DoneContextCall, M!DoneContextCall, B!vars, M!vars
  <1> QED BY <1>2, <1>3, <1>4, <1>5, <1>6, <1>7, <1>8 DEF B!Next, M!Next

-----------------------------------------------------------------------------
(* What a call may do to the stored lease. *)

(* Time and history only grow, and a row never gets an old token anew. *)
StoreAges ==
    /\ now <= now'
    /\ \A t \in DOMAIN ledger : /\ t \in DOMAIN ledger'
                                /\ ledger'[t].work = ledger[t].work
                                /\ ledger'[t].holder = ledger[t].holder
    /\ \A t \in DOMAIN ledger : (Work \in DOMAIN records' /\ records'[Work].fencingToken = t) =>
          /\ Work \in DOMAIN records /\ records[Work].fencingToken = t
          /\ records[Work].holderID = records'[Work].holderID

(* A lease of token t that has not run out stays, until it would have run  *)
(* out or for a TTL from now.                                              *)
LeaseKept(t) ==
    (Work \in DOMAIN records /\ records[Work].fencingToken = t /\ now < records[Work].expiresAt) =>
        /\ Work \in DOMAIN records' /\ records'[Work].fencingToken = t
        /\ records'[Work].holderID = records[Work].holderID
        /\ records'[Work].exitMode = records[Work].exitMode
        /\ \/ records[Work].expiresAt <= records'[Work].expiresAt
           \/ now + TTL <= records'[Work].expiresAt

(* The facts of the backend's types that the effects rest on. *)
LEMMA StoreTypes ==
    ASSUME B!TypeOK
    PROVE  /\ now \in Int /\ seq \in Nat /\ DOMAIN ledger = 1 .. seq
           /\ seq + 1 \notin DOMAIN ledger
           /\ Work \in DOMAIN records => records[Work].expiresAt \in Int /\ records[Work].fencingToken \in Nat
           /\ \A rd \in B!Readings : /\ rd[1] \in Int /\ rd[2] \in Int
                                     /\ now <= rd[1] /\ rd[1] <= rd[2]
  BY DEF B!TypeOK, B!record, B!Readings

(* A call without effect. *)
LEMMA NoEffect ==
    ASSUME B!TypeOK, UNCHANGED storeVars
    PROVE  StoreAges /\ \A t : LeaseKept(t)
  BY StoreTypes DEF StoreAges, LeaseKept, storeVars

(* Acquire takes only a lease that is gone or has run out; what it grants  *)
(* has a new token and lasts a TTL from a moment not before now.           *)
LEMMA AcquireEffect ==
    ASSUME B!TypeOK, NEW h \in HolderIDs, NEW rd \in B!Readings, B!Acquire(Work, h, TTL, rd)
    PROVE  /\ StoreAges /\ \A t : LeaseKept(t)
           /\ B!AcquireResult(Work) \in {OK, ErrLeaseHeld}
           /\ B!AcquireResult(Work) = OK =>
                /\ B!nextToken(Work) \notin DOMAIN ledger /\ B!nextToken(Work) \in Nat \ {0}
                /\ B!nextToken(Work) \in DOMAIN ledger'
                /\ ledger'[B!nextToken(Work)].work = Work /\ ledger'[B!nextToken(Work)].holder = h
                /\ Work \in DOMAIN records' /\ records'[Work].fencingToken = B!nextToken(Work)
                /\ records'[Work].holderID = h /\ records'[Work].exitMode = ExitNone
                /\ now + TTL <= records'[Work].expiresAt
  <1>1. CASE B!AcquireResult(Work) = OK
    <2>1. /\ DOMAIN records' = DOMAIN records \union {Work}
          /\ records'[Work] = B!NewRecord(Work, h, TTL, rd)
          /\ now' = rd[2] /\ DOMAIN ledger' = DOMAIN ledger \union {seq + 1}
          /\ ledger'[seq + 1] = B!Contract!NewTenure(Work, h)
          /\ \A t \in DOMAIN ledger : t # seq + 1 => ledger'[t] = ledger[t]
      BY <1>1, SameTypes DEF B!Acquire, B!nextToken
    <2>2. /\ records'[Work].fencingToken = seq + 1 /\ records'[Work].holderID = h
          /\ records'[Work].exitMode = ExitNone /\ records'[Work].expiresAt = rd[1] + TTL
      BY <2>1, SameTypes DEF B!NewRecord, B!nextToken
    <2>3. ledger'[seq + 1].work = Work /\ ledger'[seq + 1].holder = h
      BY <2>1 DEF B!Contract!NewTenure
    <2>4. StoreAges
      BY <2>1, <2>2, StoreTypes DEF StoreAges
    <2>5. ~(Work \in DOMAIN records /\ now < records[Work].expiresAt)
      BY <1>1, SameTypes, StoreTypes DEF B!AcquireResult, B!Exists, OK, ErrLeaseHeld
    <2> QED BY <1>1, <2>1, <2>2, <2>3, <2>4, <2>5, StoreTypes DEF LeaseKept, B!nextToken
  <1>2. CASE B!AcquireResult(Work) # OK
    <2>1. B!AcquireResult(Work) = ErrLeaseHeld
      BY <1>2, SameTypes DEF B!AcquireResult
    <2>2. UNCHANGED storeVars
      BY <1>2, SameTypes DEF B!Acquire, B!vars, storeVars
    <2> QED BY <1>2, <2>1, <2>2, NoEffect
  <1> QED BY <1>1, <1>2

(* Renew and Checkpoint by the holder of a session extend the lease to a   *)
(* TTL from a moment not before now, if they do anything.                  *)
LEMMA ExtendEffect ==
    ASSUME B!TypeOK, NEW s \in Sessions, NEW rd \in B!Readings,
           B!Renew(rec(s), TTL, rd) \/ \E state \in States \union {NoState} : B!Checkpoint(rec(s), state, TTL, rd)
    PROVE  /\ StoreAges /\ \A t : LeaseKept(t)
           /\ UNCHANGED storeVars \/ (~B!Fenced(rec(s)) /\ now + TTL <= records'[Work].expiresAt)
  <1>0. rec(s).WorkID = Work /\ rec(s).HolderID = HolderOf[s] /\ rec(s).FencingToken = tok[s]
    BY DEF rec
  <1>1. CASE UNCHANGED storeVars
    BY <1>1, NoEffect
  <1> DEFINE Extended == /\ ~B!Fenced(rec(s)) /\ DOMAIN records' = DOMAIN records /\ now' = rd[2]
                         /\ DOMAIN ledger' = DOMAIN ledger
                         /\ \A t \in DOMAIN ledger : /\ ledger'[t].work = ledger[t].work
                                                     /\ ledger'[t].holder = ledger[t].holder
                         /\ records'[Work].fencingToken = records[Work].fencingToken
                         /\ records'[Work].holderID = records[Work].holderID
                         /\ records'[Work].exitMode = records[Work].exitMode
                         /\ records'[Work].expiresAt = rd[1] + TTL
  <1>2. CASE Extended
    <2>1. StoreAges
      BY <1>2, StoreTypes DEF StoreAges
    <2>2. now + TTL <= records'[Work].expiresAt
      BY <1>2, StoreTypes
    <2> QED BY <1>2, <2>1, <2>2 DEF LeaseKept
  <1>3. ASSUME B!Renew(rec(s), TTL, rd), B!RenewResult(rec(s)) = OK PROVE Extended
    <2>1. ~B!Fenced(rec(s)) /\ Work \in DOMAIN records
      BY <1>0, <1>3, SameTypes DEF B!RenewResult, B!Fenced, B!Exists, OK, ErrFenced
    <2>2. /\ records' = [records EXCEPT ![Work] = [@ EXCEPT !.expiresAt = rd[1] + TTL, !.updatedAt = rd[2]]]
          /\ now' = rd[2] /\ ledger' = ledger
      BY <1>0, <1>3, SameTypes DEF B!Renew
    <2>3. records[Work] \in B!record
      BY <2>1 DEF B!TypeOK
    <2> QED BY <2>1, <2>2, <2>3 DEF B!record
  <1>4. ASSUME NEW state \in States \union {NoState}, B!Checkpoint(rec(s), state, TTL, rd),
               B!CheckpointResult(rec(s)) = OK
        PROVE  Extended
    <2>1. ~B!Fenced(rec(s)) /\ Work \in DOMAIN records
      BY <1>0, <1>4, SameTypes DEF B!CheckpointResult, B!Fenced, B!Exists, OK, ErrFenced
    <2>2. /\ records' = [records EXCEPT ![Work] = [@ EXCEPT !.checkpoint = state, !.expiresAt = rd[1] + TTL,
                                                          !.updatedAt = rd[2]]]
          /\ now' = rd[2] /\ ledger' = [ledger EXCEPT ![tok[s]].saved = {state}]
      BY <1>0, <1>4, SameTypes DEF B!Checkpoint
    <2>3. /\ DOMAIN records' = DOMAIN records
          /\ records'[Work].fencingToken = records[Work].fencingToken
          /\ records'[Work].holderID = records[Work].holderID
          /\ records'[Work].exitMode = records[Work].exitMode
          /\ records'[Work].expiresAt = rd[1] + TTL
      BY <2>1, <2>2 DEF B!TypeOK, B!record
    <2>4. DOMAIN ledger' = DOMAIN ledger
      BY <2>2
    <2>5. ASSUME NEW t \in DOMAIN ledger
          PROVE  ledger'[t].work = ledger[t].work /\ ledger'[t].holder = ledger[t].holder
      BY <2>2 DEF B!TypeOK, B!Contract!Tenure
    <2> QED BY <2>1, <2>2, <2>3, <2>4, <2>5
  <1>5. ASSUME B!Renew(rec(s), TTL, rd), B!RenewResult(rec(s)) # OK PROVE UNCHANGED storeVars
    BY <1>5, SameTypes DEF B!Renew, B!vars, storeVars
  <1>6. ASSUME NEW state \in States \union {NoState}, B!Checkpoint(rec(s), state, TTL, rd),
               B!CheckpointResult(rec(s)) # OK
        PROVE  UNCHANGED storeVars
    BY <1>6, SameTypes DEF B!Checkpoint, B!vars, storeVars
  <1> QED BY <1>1, <1>2, <1>3, <1>4, <1>5, <1>6

(* Release and Forget end only the lease of the token they are called with. *)
LEMMA EndEffect ==
    ASSUME B!TypeOK, NEW s \in Sessions,
           \/ B!Forget(rec(s))
           \/ \E mode \in Modes, rd \in B!Readings : B!Release(rec(s), mode, rd)
    PROVE  StoreAges /\ \A t : t # tok[s] => LeaseKept(t)
  <1>0. rec(s).WorkID = Work /\ rec(s).HolderID = HolderOf[s] /\ rec(s).FencingToken = tok[s]
    BY DEF rec
  <1>1. ASSUME B!Forget(rec(s)), B!ForgetResult(rec(s)) = OK
        PROVE  StoreAges /\ \A t : t # tok[s] => LeaseKept(t)
    <2>1. Work \in DOMAIN records /\ records[Work].fencingToken = tok[s]
      BY <1>0, <1>1, SameTypes DEF B!ForgetResult, B!Fenced, B!heldBy, B!Exists, OK, ErrFenced
    <2>2. B!Delete({Work}) /\ now' = now
      BY <1>0, <1>1, SameTypes DEF B!Forget
    <2>3. Work \notin DOMAIN records'
      BY <2>2 DEF B!Delete
    <2>4. /\ DOMAIN ledger' = DOMAIN ledger
          /\ \A t \in DOMAIN ledger : ledger'[t] \in {ledger[t], [ledger[t] EXCEPT !.erased = TRUE]}
      BY <2>2 DEF B!Delete
    <2>5. \A t \in DOMAIN ledger : ledger'[t].work = ledger[t].work /\ ledger'[t].holder = ledger[t].holder
      BY <2>4 DEF B!TypeOK, B!Contract!Tenure
    <2> QED BY <2>1, <2>2, <2>3, <2>4, <2>5, StoreTypes DEF StoreAges, LeaseKept
  <1>2. ASSUME NEW mode \in Modes, NEW rd \in B!Readings, B!Release(rec(s), mode, rd),
               B!ReleaseResult(rec(s), mode) = OK
        PROVE  StoreAges /\ \A t : t # tok[s] => LeaseKept(t)
    <2>1. Work \in DOMAIN records /\ records[Work].fencingToken = tok[s]
      BY <1>0, <1>2, SameTypes DEF B!ReleaseResult, B!Fenced, B!heldBy, B!Exists, OK, ErrFenced,
         B!ErrInvalidExitMode
    <2>2. /\ records' = [records EXCEPT ![Work] = [@ EXCEPT !.exitMode = mode, !.expiresAt = rd[1] - Grace,
                                                          !.updatedAt = rd[2]]]
          /\ now' = rd[2] /\ ledger' = [ledger EXCEPT ![tok[s]].exit = mode]
      BY <1>0, <1>2, SameTypes DEF B!Release
    <2>3. /\ DOMAIN records' = DOMAIN records
          /\ records'[Work].fencingToken = records[Work].fencingToken
          /\ records'[Work].holderID = records[Work].holderID
      BY <2>1, <2>2 DEF B!TypeOK, B!record
    <2>4. DOMAIN ledger' = DOMAIN ledger
      BY <2>2
    <2>5. ASSUME NEW t \in DOMAIN ledger
          PROVE  ledger'[t].work = ledger[t].work /\ ledger'[t].holder = ledger[t].holder
      BY <2>2 DEF B!TypeOK, B!Contract!Tenure
    <2>6. now <= now'
      BY <2>2, StoreTypes
    <2>7. StoreAges
      BY <2>3, <2>4, <2>5, <2>6 DEF StoreAges
    <2>8. \A t : t # tok[s] => LeaseKept(t)
      BY <2>1 DEF LeaseKept
    <2> QED BY <2>7, <2>8
  <1>3. ASSUME B!Forget(rec(s)), B!ForgetResult(rec(s)) # OK PROVE UNCHANGED storeVars
    BY <1>3, SameTypes DEF B!Forget, B!vars, storeVars
  <1>4. ASSUME NEW mode \in Modes, NEW rd \in B!Readings, B!Release(rec(s), mode, rd),
               B!ReleaseResult(rec(s), mode) # OK
        PROVE  UNCHANGED storeVars
    BY <1>4, SameTypes DEF B!Release, B!vars, storeVars
  <1> QED BY <1>1, <1>2, <1>3, <1>4, NoEffect

(* A Sweep deletes only leases that have run out. *)
LEMMA SweepEffect ==
    ASSUME B!TypeOK, NEW retention, NEW expired, B!Sweep(retention, expired)
    PROVE  StoreAges /\ \A t : LeaseKept(t)
  <1>1. PICK W \in SUBSET DOMAIN records : /\ B!Delete(W) /\ now' = now
                                           /\ \A w \in W : now > records[w].expiresAt
    BY DEF B!Sweep, B!Sweepable
  <1>2. /\ DOMAIN records' = DOMAIN records \ W
        /\ \A w \in DOMAIN records' : records'[w] = records[w]
    BY <1>1 DEF B!Delete
  <1>3. /\ DOMAIN ledger' = DOMAIN ledger
        /\ \A t \in DOMAIN ledger : ledger'[t] \in {ledger[t], [ledger[t] EXCEPT !.erased = TRUE]}
    BY <1>1 DEF B!Delete
  <1>4. \A t \in DOMAIN ledger : ledger'[t].work = ledger[t].work /\ ledger'[t].holder = ledger[t].holder
    BY <1>3 DEF B!TypeOK, B!Contract!Tenure
  <1>5. StoreAges
    BY <1>1, <1>2, <1>3, <1>4, StoreTypes DEF StoreAges
  <1>6. (Work \in DOMAIN records /\ now < records[Work].expiresAt) => Work \in DOMAIN records'
    BY <1>1, <1>2, StoreTypes
  <1> QED BY <1>2, <1>5, <1>6, StoreTypes DEF LeaseKept

(* Time passes. *)
LEMMA TickEffect ==
    ASSUME B!TypeOK, B!Tick
    PROVE  StoreAges /\ \A t : LeaseKept(t)
  BY StoreTypes DEF B!Tick, StoreAges, LeaseKept

-----------------------------------------------------------------------------
(* Every step is a step of the backend, or leaves it alone. *)

(* A session that passes its token back passes a record the backend issued. *)
LEMMA RecIssued ==
    ASSUME Inv, NEW s \in Sessions, tok[s] # 0
    PROVE  rec(s) \in B!Issued
  BY DEF Inv, SessionInv, TokenIssued, B!Issued, rec

(* A call of session s on the backend. *)
Calls(s) ==
    \/ \E rd \in B!Readings : B!Acquire(Work, HolderOf[s], TTL, rd)
    \/ /\ tok[s] # 0
       /\ \/ \E state \in States \union {NoState}, rd \in B!Readings : B!Checkpoint(rec(s), state, TTL, rd)
          \/ \E rd \in B!Readings : B!Renew(rec(s), TTL, rd)
          \/ \E mode \in Modes, rd \in B!Readings : B!Release(rec(s), mode, rd)
          \/ B!Forget(rec(s))

(* What the steps of sessions and goroutines do to the backend. *)
LEMMA StepCalls ==
    ASSUME Inv, NEW s \in Sessions, SessionStep(s) \/ Goroutine(s) \/ CallStep(s)
    PROVE  UNCHANGED storeVars \/ Calls(s)
  <1>1. CASE Goroutine(s)
    BY <1>1 DEF Goroutine, SeesStop, SeesParentDone, SeesWindowClosed, TimerFires, LaunchRenew, TakesResult,
       Publish
  <1>2. CASE CallStep(s)
    <2>1. callAt[s] = "entered" => tok[s] # 0
      BY DEF Inv, SessionInv, TokenIssued
    <2> QED BY <1>2, <2>1 DEF CallStep, RenewEnters, RenewFails, RenewTakesEffect, Calls
  <1>3. CASE SessionStep(s)
    <2>1. (HasToken(s) \/ pc[s] = "released") => tok[s] # 0
      BY DEF Inv, SessionInv, TokenIssued
    <2>2. CASE \E rd \in B!Readings, lost \in BOOLEAN : AcquireTakesEffect(s, rd, lost)
      BY <2>2 DEF AcquireTakesEffect, Calls
    <2>3. CASE \E state \in States \union {NoState}, rd \in B!Readings : CheckpointWork(s, state, rd)
      BY <2>1, <2>3 DEF CheckpointWork, Calls
    <2>4. CASE \E rd \in B!Readings : RenewLease(s, rd)
      BY <2>1, <2>4 DEF RenewLease, Calls
    <2>5. CASE \E mode \in Modes, rd \in B!Readings, lost \in BOOLEAN : ReleaseLease(s, mode, rd, lost)
      BY <2>1, <2>5 DEF ReleaseLease, HasToken, Calls
    <2>6. CASE ForgetLease(s)
      BY <2>1, <2>6 DEF ForgetLease, HasToken, Calls
    <2> QED BY <1>3, <2>2, <2>3, <2>4, <2>5, <2>6 DEF SessionStep, AcquireBegin, AcquireFails, StartRenewal,
            PollCancelled, AcquireRefused, CancelParent, StopRenewal, StopReturns, Crash
  <1> QED BY <1>1, <1>2, <1>3

(* The client's steps are steps of the backend or leave it alone. *)
LEMMA BackendStep ==
    ASSUME Inv, [Next]_vars
    PROVE  [B!Next]_(B!vars)
  <1>1. CASE UNCHANGED storeVars
    BY <1>1 DEF storeVars, B!vars
  <1>2. ASSUME NEW s \in Sessions, Calls(s) PROVE B!Next
    <2>1. tok[s] # 0 => rec(s) \in B!Issued
      BY RecIssued
    <2>2. HolderOf[s] \in HolderIDs /\ Modes \subseteq B!ExitModes
      BY SameTypes
    <2>3. B!AcquireCall \/ B!CheckpointCall \/ B!RenewCall \/ B!ReleaseCall \/ B!ForgetCall
      BY <1>2, <2>1, <2>2 DEF Calls, B!AcquireCall, B!CheckpointCall, B!RenewCall, B!ReleaseCall, B!ForgetCall
    <2> QED BY <2>3 DEF B!Next
  <1>3. ASSUME NEW retention \in Retentions, NEW includeExpired \in BOOLEAN, VacuumSweep(retention, includeExpired)
        PROVE  B!Next
    BY <1>3 DEF VacuumSweep, B!Next, B!SweepCall
  <1>4. CASE Tick
    BY <1>4 DEF Tick, B!Next
  <1> QED BY <1>1, <1>2, <1>3, <1>4, StepCalls DEF Next, vars

(* So what MemoryBackendProofs proves of the backend is kept here too. *)
LEMMA BackendKept ==
    ASSUME Inv, [Next]_vars
    PROVE  M!Inv' /\ B!TypeOK'
  <1>1. M!Inv'
    <2>1. [M!Next]_(M!vars)
      BY BackendStep, SameNext DEF B!vars, M!vars
    <2> QED BY <2>1, M!InvNext DEF Inv
  <1>2. M!TypeOK'
    BY <1>1 DEF M!Inv
  <1>3. (B!TypeOK <=> M!TypeOK)'
    BY SameTypes, PTL
  <1> QED BY <1>1, <1>2, <1>3

-----------------------------------------------------------------------------
(* What a step leaves of a session it does not touch. *)

ThreadsUntouched(u) ==
    /\ pc'[u] = pc[u] /\ tok'[u] = tok[u] /\ start'[u] = start[u] /\ reply'[u] = reply[u]
    /\ ren'[u] = ren[u] /\ window'[u] = window[u] /\ published'[u] = published[u] /\ cause'[u] = cause[u]

Untouched(u) ==
    /\ ThreadsUntouched(u)
    /\ callAt'[u] = callAt[u] /\ callStart'[u] = callStart[u] /\ callErr'[u] = callErr[u]

(* Backed after the step, for a W that is fixed before it. *)
BackedNext(u, W) ==
    now' + Offset < W =>
        /\ Work \in DOMAIN records'
        /\ records'[Work].fencingToken = tok'[u] /\ records'[Work].holderID = HolderOf[u]
        /\ records'[Work].exitMode = ExitNone
        /\ W <= records'[Work].expiresAt + Offset

(* The types of what a session keeps. *)
LEMMA SessionTypes ==
    ASSUME TypeOK, NEW u \in Sessions
    PROVE  /\ tok[u] \in Nat /\ start[u] \in Int /\ window[u] \in Int /\ published[u] \in Int
           /\ callStart[u] \in Int /\ Local \in Int /\ now \in Int
  BY StoreTypes DEF TypeOK, Local

(* A window of at most a TTL stays backed. *)
LEMMA BackedKept ==
    ASSUME TypeOK, B!TypeOK', StoreAges, NEW u \in Sessions, LeaseKept(tok[u]), tok'[u] = tok[u],
           NEW W \in Int, W <= Local + TTL, Backed(u, W)
    PROVE  BackedNext(u, W)
  <1>1. /\ now \in Int /\ now' \in Int /\ now <= now'
        /\ Work \in DOMAIN records => records[Work].expiresAt \in Int
    BY StoreTypes DEF TypeOK, B!TypeOK, StoreAges
  <1>2. Work \in DOMAIN records' => records'[Work].expiresAt \in Int
    BY DEF B!TypeOK, B!record
  <1> SUFFICES ASSUME now' + Offset < W
               PROVE  /\ Work \in DOMAIN records'
                      /\ records'[Work].fencingToken = tok'[u] /\ records'[Work].holderID = HolderOf[u]
                      /\ records'[Work].exitMode = ExitNone
                      /\ W <= records'[Work].expiresAt + Offset
    BY DEF BackedNext
  <1>3. Local < W
    BY <1>1 DEF Local
  <1>4. /\ Work \in DOMAIN records
        /\ records[Work].fencingToken = tok[u] /\ records[Work].holderID = HolderOf[u]
        /\ records[Work].exitMode = ExitNone
        /\ W <= records[Work].expiresAt + Offset
    BY <1>3 DEF Backed
  <1>5. now < records[Work].expiresAt
    BY <1>1, <1>3, <1>4 DEF Local
  <1> QED BY <1>1, <1>2, <1>4, <1>5 DEF LeaseKept, Local

(* Who is fenced stays fenced, and an issued token stays issued. *)
LEMMA TokenKept ==
    ASSUME TypeOK, StoreAges, NEW u \in Sessions, tok'[u] = tok[u], tok[u] # 0, TokenIssued(u)
    PROVE  /\ B!Fenced(rec(u)) => B!Fenced(rec(u))'
           /\ tok'[u] \in DOMAIN ledger'
           /\ ledger'[tok'[u]].work = Work /\ ledger'[tok'[u]].holder = HolderOf[u]
  BY DEF StoreAges, TokenIssued, B!Fenced, B!heldBy, B!Exists, rec

(* The clocks of a step. *)
LEMMA ClocksGrow ==
    ASSUME TypeOK, B!TypeOK', StoreAges
    PROVE  /\ now \in Int /\ now' \in Int /\ now <= now'
           /\ Local \in Int /\ Local' = now' + Offset /\ Local <= Local' /\ Local' \in Int
  <1>1. now \in Int
    BY StoreTypes DEF TypeOK
  <1>2. now' \in Int /\ now <= now'
    BY DEF B!TypeOK, StoreAges
  <1>3. Offset \in Int
    OBVIOUS
  <1>4. now + Offset \in Int /\ now' + Offset \in Int
    BY ONLY <1>1, <1>2, <1>3
  <1>5. now + Offset <= now' + Offset
    <2>1. \A a, b, c \in Int : a <= b => a + c <= b + c
      OBVIOUS
    <2> QED BY <1>1, <1>2, <1>3, <2>1
  <1> QED BY <1>1, <1>2, <1>4, <1>5 DEF Local

(* What a session's two threads know, if neither is touched. *)
LEMMA ThreadsKeep ==
    ASSUME TypeOK, B!TypeOK', StoreAges, NEW u \in Sessions, LeaseKept(tok[u]), ThreadsUntouched(u), SessionInv(u)
    PROVE  StartBacked(u)' /\ WindowsBacked(u)' /\ LossIsTrue(u)'
  <1>0. /\ tok'[u] = tok[u] /\ Local \in Int /\ Local' = now' + Offset /\ Local <= Local' /\ Local' \in Int
    BY ClocksGrow DEF ThreadsUntouched
  <1>1. StartBacked(u)'
    <2> SUFFICES ASSUME pc[u] = "acquiring"
                 PROVE  start[u] <= Local' /\ (reply[u] = OK => BackedNext(u, start[u] + TTL))
      BY DEF StartBacked, Backed, BackedNext, Local, ThreadsUntouched
    <2>1. start[u] <= Local /\ (reply[u] = OK => Backed(u, start[u] + TTL))
      BY DEF SessionInv, StartBacked
    <2>2. start[u] + TTL \in Int /\ start[u] + TTL <= Local + TTL /\ start[u] <= Local'
      BY <1>0, <2>1, SessionTypes
    <2> QED BY <1>0, <2>1, <2>2, BackedKept
  <1>2. WindowsBacked(u)'
    <2> SUFFICES ASSUME HasToken(u)
                 PROVE  /\ window[u] <= Local' + TTL /\ published[u] <= Local' + TTL
                        /\ BackedNext(u, window[u]) /\ BackedNext(u, published[u])
      BY DEF WindowsBacked, Backed, BackedNext, Local, ThreadsUntouched, HasToken
    <2>1. /\ window[u] <= Local + TTL /\ published[u] <= Local + TTL
          /\ Backed(u, window[u]) /\ Backed(u, published[u])
      BY DEF SessionInv, WindowsBacked
    <2>2. BackedNext(u, window[u]) /\ BackedNext(u, published[u])
      BY <1>0, <2>1, SessionTypes, BackedKept
    <2>3. window[u] <= Local' + TTL /\ published[u] <= Local' + TTL
      <3>1. window[u] \in Int /\ published[u] \in Int
        BY SessionTypes
      <3> QED BY <1>0, <2>1, <3>1
    <2> QED BY <2>2, <2>3
  <1>3. LossIsTrue(u)'
    <2>1. cause[u] = CauseFenced => tok[u] # 0 /\ B!Fenced(rec(u))'
      BY <1>0, TokenKept DEF SessionInv, LossIsTrue
    <2>2. cause[u] \in {CauseExhausted, CauseExpired} => Local' >= window[u]
      BY <1>0, SessionTypes DEF SessionInv, LossIsTrue
    <2> QED BY <2>1, <2>2 DEF LossIsTrue, ThreadsUntouched
  <1> QED BY <1>1, <1>2, <1>3

(* A session that is not touched keeps all it knows. *)
LEMMA UntouchedKeeps ==
    ASSUME TypeOK, B!TypeOK', StoreAges, NEW u \in Sessions, LeaseKept(tok[u]), Untouched(u), SessionInv(u)
    PROVE  SessionInv(u)'
  <1>0. /\ tok'[u] = tok[u] /\ Local \in Int /\ Local' = now' + Offset /\ Local <= Local' /\ Local' \in Int
    BY ClocksGrow DEF Untouched, ThreadsUntouched
  <1>1. TokenIssued(u)'
    BY TokenKept DEF SessionInv, TokenIssued, Untouched, ThreadsUntouched, HasToken
  <1>2. Positions(u)'
    BY DEF SessionInv, Positions, Untouched, ThreadsUntouched
  <1>3. StartBacked(u)' /\ WindowsBacked(u)' /\ LossIsTrue(u)'
    BY ThreadsKeep DEF Untouched
  <1>4. CallIsTrue(u)'
    <2>0. (ren[u] = "attempt" /\ callAt[u] = "answered") => tok[u] # 0
      BY DEF SessionInv, TokenIssued
    <2>1. callAt[u] # "none" => callStart[u] <= Local'
      BY <1>0, SessionTypes DEF SessionInv, CallIsTrue
    <2> SUFFICES ASSUME ren[u] = "attempt", callAt[u] = "answered"
                 PROVE  /\ callErr[u] = OK => BackedNext(u, callStart[u] + TTL)
                        /\ callErr[u] = ErrFenced => B!Fenced(rec(u))'
                        /\ callErr[u] = ErrLeaseExpired => Local' >= window[u]
      BY <2>1 DEF CallIsTrue, Backed, BackedNext, Local, Untouched, ThreadsUntouched
    <2>2. /\ callStart[u] <= Local
          /\ callErr[u] = OK => Backed(u, callStart[u] + TTL)
          /\ callErr[u] = ErrFenced => B!Fenced(rec(u))
          /\ callErr[u] = ErrLeaseExpired => Local >= window[u]
      BY DEF SessionInv, CallIsTrue
    <2>3. callStart[u] + TTL \in Int /\ callStart[u] + TTL <= Local + TTL
      BY <1>0, <2>2, SessionTypes
    <2>4. callErr[u] = OK => BackedNext(u, callStart[u] + TTL)
      BY <1>0, <2>2, <2>3, BackedKept
    <2>5. callErr[u] = ErrFenced => B!Fenced(rec(u))'
      BY <1>0, <2>0, <2>2, TokenKept DEF SessionInv
    <2> QED BY <1>0, <2>2, <2>4, <2>5, SessionTypes
  <1> QED BY <1>1, <1>2, <1>3, <1>4 DEF SessionInv

-----------------------------------------------------------------------------
(* The steps that leave the backend alone. *)

(* The arithmetic of windows. *)
LEMMA Clocks ==
    ASSUME TypeOK, NEW s \in Sessions
    PROVE  /\ Local <= Local /\ Local \in Int
           /\ WindowClosed(s) => Local >= window[s]
           /\ start[s] + TTL \in Int /\ (start[s] <= Local => start[s] + TTL <= Local + TTL)
           /\ callStart[s] + TTL \in Int /\ (callStart[s] <= Local => callStart[s] + TTL <= Local + TTL)
  <1>1. Local \in Int /\ window[s] \in Int /\ start[s] \in Int /\ callStart[s] \in Int
    BY SessionTypes
  <1>2. WindowClosed(s) => Local >= window[s]
    BY <1>1 DEF WindowClosed
  <1> QED BY <1>1, <1>2

(* CancelCause leaves the cause or sets it. *)
LEMMA Cancels ==
    ASSUME TypeOK, NEW s \in Sessions, NEW c, CancelCause(s, c)
    PROVE  cause'[s] \in {cause[s], c}
  BY DEF TypeOK, CancelCause

(* The steps of a session, of its goroutine and of its Renew call that do  *)
(* not reach the backend.                                                  *)
QuietStep(s) ==
    \/ AcquireBegin(s) \/ AcquireFails(s) \/ PollCancelled(s) \/ StartRenewal(s)
    \/ \E waits \in BOOLEAN : AcquireRefused(s, waits)
    \/ Goroutine(s) \/ RenewEnters(s) \/ RenewFails(s)
    \/ CancelParent(s) \/ StopRenewal(s) \/ StopReturns(s) \/ Crash(s)

(* They leave the backend alone. *)
LEMMA QuietStepIsQuiet ==
    ASSUME NEW s \in Sessions, QuietStep(s)
    PROVE  UNCHANGED <<storeVars, tok>>
  BY DEF QuietStep, AcquireBegin, AcquireFails, AcquireRefused, PollCancelled, StartRenewal, Goroutine,
     SeesStop, SeesParentDone, SeesWindowClosed, TimerFires, LaunchRenew, TakesResult, Publish,
     RenewEnters, RenewFails, Answer, CancelParent, StopRenewal, StopReturns, Crash, Leave, LeaveTo, appVars

(* A session whose thread, goroutine or Renew call moves without an effect *)
(* on the backend knows the truth afterwards.                              *)
LEMMA QuietKeeps ==
    ASSUME Inv, NEW s \in Sessions, QuietStep(s)
    PROVE  SessionInv(s)'
  <1>0. /\ SessionInv(s) /\ TypeOK /\ records' = records /\ ledger' = ledger /\ Local' = Local
        /\ Local <= Local /\ Local \in Int /\ TTL \in Nat
    BY QuietStepIsQuiet, Clocks DEF Inv, storeVars, Local
  <1> USE <1>0 DEF TypeOK, SessionInv, TokenIssued, Positions, StartBacked, WindowsBacked, CallIsTrue,
               LossIsTrue, Backed, HasToken, appVars, renVars, callVars, Goto, Waiting,
               B!Fenced, B!heldBy, B!Exists, rec, OK, ErrFenced, ErrLeaseExpired, ErrLeaseHeld, ErrOther,
               ErrContext, NoCause, CauseFenced, CauseExhausted, CauseExpired
  <1>1. CASE AcquireBegin(s)
    <2>1. start'[s] = Local /\ reply'[s] # OK
      BY <1>1 DEF AcquireBegin
    <2> QED BY <1>1, <2>1 DEF AcquireBegin
  <1>2. CASE AcquireFails(s)
    BY <1>2 DEF AcquireFails
  <1>3. CASE \E waits \in BOOLEAN : AcquireRefused(s, waits)
    BY <1>3 DEF AcquireRefused
  <1>4. CASE PollCancelled(s)
    BY <1>4 DEF PollCancelled
  <1>5. CASE StartRenewal(s)
    <2>1. window'[s] = start[s] + TTL /\ published'[s] = start[s] + TTL
      BY <1>5 DEF StartRenewal, newToken
    <2>2. start[s] + TTL <= Local + TTL
      BY <1>5, Clocks DEF StartRenewal
    <2> QED BY <1>5, <2>1, <2>2 DEF StartRenewal
  <1>6. CASE SeesStop(s) \/ SeesParentDone(s)
    BY <1>6 DEF SeesStop, SeesParentDone
  <1>7. CASE SeesWindowClosed(s)
    <2>1. Local >= window[s] /\ cause'[s] \in {cause[s], CauseExhausted}
      BY <1>7, Clocks, Cancels DEF SeesWindowClosed
    <2> QED BY <1>7, <2>1 DEF SeesWindowClosed
  <1>8. CASE TimerFires(s)
    <2>1. CASE WindowClosed(s)
      <3>1. Local >= window[s] /\ cause'[s] \in {cause[s], CauseExhausted}
        BY <1>8, <2>1, Clocks, Cancels DEF TimerFires
      <3> QED BY <1>8, <2>1, <3>1 DEF TimerFires
    <2>2. CASE ~WindowClosed(s)
      BY <1>8, <2>2 DEF TimerFires
    <2> QED BY <2>1, <2>2
  <1>9. CASE LaunchRenew(s)
    <2>1. callStart'[s] = Local
      BY <1>9 DEF LaunchRenew
    <2> QED BY <1>9, <2>1 DEF LaunchRenew
  <1>10. CASE TakesResult(s)
    <2>1. callStart[s] + TTL <= Local + TTL
      BY <1>10, Clocks DEF TakesResult
    <2>2. CASE callErr[s] = OK
      BY <1>10, <2>1, <2>2 DEF TakesResult, RenewedWindow
    <2>3. CASE callErr[s] = ErrFenced
      <3>1. cause'[s] \in {cause[s], CauseFenced}
        BY <1>10, <2>3, Cancels DEF TakesResult
      <3> QED BY <1>10, <2>3, <3>1 DEF TakesResult
    <2>4. CASE callErr[s] = ErrLeaseExpired
      <3>1. cause'[s] \in {cause[s], CauseExpired}
        BY <1>10, <2>4, Cancels DEF TakesResult
      <3> QED BY <1>10, <2>4, <3>1 DEF TakesResult
    <2>5. CASE callErr[s] \in {ErrOther, ErrContext} /\ WindowClosed(s)
      <3>1. Local >= window[s] /\ cause'[s] \in {cause[s], CauseExhausted}
        BY <1>10, <2>5, Clocks, Cancels DEF TakesResult
      <3> QED BY <1>10, <2>5, <3>1 DEF TakesResult
    <2>6. CASE callErr[s] \in {ErrOther, ErrContext} /\ ~WindowClosed(s)
      BY <1>10, <2>6 DEF TakesResult
    <2> QED BY <1>10, <2>2, <2>3, <2>4, <2>5, <2>6 DEF TakesResult
  <1>11. CASE Publish(s)
    BY <1>11 DEF Publish
  <1>12. CASE RenewEnters(s)
    BY <1>12 DEF RenewEnters, Answer
  <1>13. CASE RenewFails(s)
    BY <1>13 DEF RenewFails, Answer
  <1>14. CASE CancelParent(s)
    BY <1>14 DEF CancelParent
  <1>15. CASE StopRenewal(s) \/ StopReturns(s)
    BY <1>15 DEF StopRenewal, StopReturns
  <1>16. CASE Crash(s)
    BY <1>16 DEF Crash, Leave, LeaveTo
  <1> QED BY <1>1, <1>2, <1>3, <1>4, <1>5, <1>6, <1>7, <1>8, <1>9, <1>10, <1>11, <1>12, <1>13, <1>14,
             <1>15, <1>16 DEF QuietStep, Goroutine

-----------------------------------------------------------------------------
(* The steps that reach the backend. *)

(* A grant has a token of its own, and lasts a TTL from before the call. *)
LEMMA AcquireKeeps ==
    ASSUME Inv, B!TypeOK', NEW s \in Sessions, NEW rd \in B!Readings, NEW lost \in BOOLEAN,
           AcquireTakesEffect(s, rd, lost)
    PROVE  /\ StoreAges /\ \A t : LeaseKept(t)
           /\ SessionInv(s)' /\ TokensAreOwn'
  <1>0. /\ TypeOK /\ B!TypeOK /\ SessionInv(s) /\ TokensAreOwn /\ HolderOf[s] \in HolderIDs
        /\ B!Acquire(Work, HolderOf[s], TTL, rd) /\ pc[s] = "acquiring" /\ reply[s] = "none"
    BY DEF Inv, TypeOK, AcquireTakesEffect
  <1>1. /\ StoreAges /\ \A t : LeaseKept(t)
        /\ B!AcquireResult(Work) \in {OK, ErrLeaseHeld}
    BY <1>0, AcquireEffect
  <1>2. /\ now \in Int /\ now' \in Int /\ now <= now' /\ start[s] \in Int /\ start[s] <= Local
        /\ start[s] <= Local' /\ pc'[s] = "acquiring" /\ start'[s] = start[s]
    <2>1. now' \in Int /\ now <= now'
      BY <1>1 DEF B!TypeOK, StoreAges
    <2>2. now \in Int /\ start[s] \in Int /\ start[s] <= Local
      BY <1>0, SessionTypes DEF SessionInv, StartBacked
    <2>3. start[s] <= Local'
      BY <2>1, <2>2 DEF Local
    <2> QED BY <1>0, <2>1, <2>2, <2>3 DEF AcquireTakesEffect
  <1>3. /\ ren'[s] = ren[s] /\ cause'[s] = cause[s] /\ callAt'[s] = callAt[s]
        /\ ren[s] = "off" /\ cause[s] = NoCause /\ callAt[s] = "none"
    BY <1>0 DEF AcquireTakesEffect, renVars, callVars, SessionInv, Positions
  <1>4. Positions(s)' /\ WindowsBacked(s)' /\ CallIsTrue(s)' /\ LossIsTrue(s)'
    BY <1>2, <1>3 DEF Positions, WindowsBacked, HasToken, CallIsTrue, LossIsTrue, NoCause, CauseFenced,
       CauseExhausted, CauseExpired
  <1>5. CASE B!AcquireResult(Work) = OK /\ ~lost
    <2> DEFINE T == B!nextToken(Work)
    <2>1. /\ T \notin DOMAIN ledger /\ T \in Nat \ {0} /\ T \in DOMAIN ledger'
          /\ ledger'[T].work = Work /\ ledger'[T].holder = HolderOf[s]
          /\ Work \in DOMAIN records' /\ records'[Work].fencingToken = T
          /\ records'[Work].holderID = HolderOf[s] /\ records'[Work].exitMode = ExitNone
          /\ now + TTL <= records'[Work].expiresAt
      BY <1>0, <1>5, AcquireEffect
    <2>2. tok'[s] = T /\ \A u \in Sessions : u # s => tok'[u] = tok[u]
      BY <1>0, <1>5 DEF AcquireTakesEffect, TypeOK
    <2> HIDE DEF T
    <2>3. TokensAreOwn'
      <3>1. \A u \in Sessions : tok[u] # 0 => tok[u] # T
        BY <2>1 DEF Inv, SessionInv, TokenIssued
      <3> QED BY <1>0, <2>2, <3>1 DEF TokensAreOwn
    <2>4. TokenIssued(s)'
      BY <2>1, <2>2 DEF TokenIssued
    <2>5. start[s] + TTL <= records'[Work].expiresAt + Offset
      <3>1. records'[Work].expiresAt \in Int
        BY <2>1 DEF B!TypeOK, B!record
      <3> QED BY <1>2, <2>1, <3>1 DEF Local
    <2>6. StartBacked(s)'
      BY <1>2, <2>1, <2>2, <2>5 DEF StartBacked, Backed
    <2> QED BY <1>1, <1>4, <2>3, <2>4, <2>6 DEF SessionInv
  <1>6. CASE ~(B!AcquireResult(Work) = OK /\ ~lost)
    <2>1. tok' = tok /\ reply'[s] # OK
      BY <1>0, <1>1, <1>6 DEF AcquireTakesEffect, TypeOK, OK, ErrOther
    <2>2. TokensAreOwn'
      BY <1>0, <2>1 DEF TokensAreOwn
    <2>3. TokenIssued(s)'
      BY <1>0, <1>1, <1>2, <1>3, <2>1, TokenKept DEF SessionInv, TokenIssued, HasToken
    <2>4. StartBacked(s)'
      BY <1>2, <2>1 DEF StartBacked
    <2> QED BY <1>1, <1>4, <2>2, <2>3, <2>4 DEF SessionInv
  <1> QED BY <1>5, <1>6

(* A Renew call that takes effect answers the truth, if anybody waits for  *)
(* the answer.                                                             *)
LEMMA RenewKeeps ==
    ASSUME Inv, B!TypeOK', NEW s \in Sessions, NEW rd \in B!Readings, NEW lost \in BOOLEAN,
           RenewTakesEffect(s, rd, lost)
    PROVE  /\ StoreAges /\ \A t : LeaseKept(t)
           /\ SessionInv(s)'
  <1>0. /\ TypeOK /\ B!TypeOK /\ SessionInv(s) /\ M!ExitedIsExpired /\ B!Renew(rec(s), TTL, rd)
        /\ callAt[s] = "entered" /\ tok[s] # 0
    BY DEF Inv, M!Inv, TypeOK, RenewTakesEffect, SessionInv, TokenIssued
  <1>1. /\ StoreAges /\ \A t : LeaseKept(t)
        /\ UNCHANGED storeVars \/ (~B!Fenced(rec(s)) /\ now + TTL <= records'[Work].expiresAt)
    BY <1>0, ExtendEffect
  <1>2. /\ UNCHANGED <<appVars, renVars>>
        /\ \/ ren[s] # "attempt" /\ callAt'[s] = "none"
           \/ /\ ren[s] = "attempt" /\ callAt'[s] = "answered" /\ callStart'[s] = callStart[s]
              /\ callErr'[s] = IF lost THEN ErrOther ELSE B!RenewResult(rec(s))
    BY <1>0 DEF RenewTakesEffect, Answer, TypeOK
  <1>3. /\ now \in Int /\ now' \in Int /\ now <= now' /\ callStart[s] \in Int /\ callStart[s] <= Local
        /\ callStart[s] <= Local' /\ Local \in Int /\ Local' \in Int /\ Local <= Local'
    <2>1. callStart[s] \in Int /\ callStart[s] <= Local
      BY <1>0, SessionTypes DEF SessionInv, CallIsTrue
    <2> QED BY <1>0, <1>1, <2>1, ClocksGrow
  <1>4. ThreadsUntouched(s)
    BY <1>2 DEF ThreadsUntouched, appVars, renVars
  <1>5. StartBacked(s)' /\ WindowsBacked(s)' /\ LossIsTrue(s)'
    BY <1>0, <1>1, <1>4, ThreadsKeep
  <1>6. Positions(s)'
    BY <1>0, <1>4 DEF SessionInv, Positions, ThreadsUntouched
  <1>7. TokenIssued(s)'
    BY <1>0, <1>1, <1>4, TokenKept DEF SessionInv, TokenIssued, ThreadsUntouched
  <1>8. CallIsTrue(s)'
    <2>1. CASE ren[s] # "attempt"
      BY <1>2, <2>1 DEF CallIsTrue, renVars
    <2>2. CASE ren[s] = "attempt" /\ callErr'[s] = OK
      <3>1. B!RenewResult(rec(s)) = OK
        BY <1>2, <2>2, SameTypes DEF OK, ErrOther
      <3>2. /\ Work \in DOMAIN records /\ records[Work].fencingToken = tok[s]
            /\ records[Work].holderID = HolderOf[s] /\ now < records[Work].expiresAt
        BY <3>1, SameTypes DEF B!RenewResult, B!Fenced, B!heldBy, B!Exists, rec, OK, ErrFenced, ErrLeaseExpired
      <3>3. records[Work].exitMode = ExitNone
        BY <1>0, <1>3, <3>2, StoreTypes, SameTypes DEF M!ExitedIsExpired
      <3>4. /\ Work \in DOMAIN records' /\ records'[Work].fencingToken = tok[s]
            /\ records'[Work].holderID = HolderOf[s] /\ records'[Work].exitMode = ExitNone
        BY <1>1, <3>2, <3>3 DEF LeaseKept
      <3>5. records'[Work].expiresAt = rd[1] + TTL /\ now <= rd[1] /\ rd[1] \in Int
        <4>1. records' = [records EXCEPT ![Work] = [@ EXCEPT !.expiresAt = rd[1] + TTL, !.updatedAt = rd[2]]]
          BY <1>0, <3>1, SameTypes DEF B!Renew, rec
        <4>2. records[Work] \in B!record
          BY <1>0, <3>2 DEF B!TypeOK
        <4>3. records'[Work].expiresAt = rd[1] + TTL
          BY <3>2, <4>1, <4>2 DEF B!record
        <4> QED BY <1>0, <4>3, StoreTypes
      <3>6. callStart[s] + TTL <= records'[Work].expiresAt + Offset
        BY <1>3, <3>5 DEF Local
      <3> QED BY <1>2, <1>3, <1>4, <2>2, <3>4, <3>6 DEF CallIsTrue, Backed, ThreadsUntouched, OK, ErrFenced,
              ErrLeaseExpired
    <2>3. CASE ren[s] = "attempt" /\ callErr'[s] # OK
      <3>1. lost \/ B!RenewResult(rec(s)) \in {ErrFenced, ErrLeaseExpired}
        BY <1>2, <2>3, SameTypes DEF B!RenewResult
      <3>2. B!RenewResult(rec(s)) # OK => UNCHANGED storeVars
        BY <1>0, SameTypes DEF B!Renew, B!vars, storeVars
      <3>3. callErr'[s] = ErrFenced => B!Fenced(rec(s))'
        <4> SUFFICES ASSUME callErr'[s] = ErrFenced PROVE B!Fenced(rec(s))'
          OBVIOUS
        <4>1. B!RenewResult(rec(s)) = ErrFenced
          BY <1>2, <2>3 DEF ErrFenced, ErrOther
        <4>2. B!Fenced(rec(s))
          BY <4>1, SameTypes DEF B!RenewResult, OK, ErrFenced, ErrLeaseExpired
        <4> QED BY <1>0, <1>1, <1>4, <4>2, TokenKept DEF SessionInv, ThreadsUntouched
      <3>4. callErr'[s] = ErrLeaseExpired => Local' >= window[s]
        <4> SUFFICES ASSUME callErr'[s] = ErrLeaseExpired PROVE Local' >= window[s]
          OBVIOUS
        <4>1. B!RenewResult(rec(s)) = ErrLeaseExpired
          BY <1>2, <2>3 DEF ErrLeaseExpired, ErrOther
        <4>2. Work \in DOMAIN records /\ ~(now < records[Work].expiresAt)
          BY <4>1, SameTypes DEF B!RenewResult, B!Fenced, B!Exists, rec, OK, ErrFenced, ErrLeaseExpired
        <4>3. Backed(s, window[s]) /\ window[s] \in Int
          BY <1>0, <2>3, SessionTypes DEF SessionInv, Positions, WindowsBacked, HasToken
        <4>4. records[Work].expiresAt \in Int
          BY <1>0, <4>2, StoreTypes
        <4>5. ~(Local < window[s])
          BY <1>3, <4>2, <4>3, <4>4 DEF Backed, Local
        <4> QED BY <1>3, <4>3, <4>5
      <3> QED BY <1>2, <1>3, <1>4, <2>3, <3>3, <3>4 DEF CallIsTrue, ThreadsUntouched
    <2> QED BY <2>1, <2>2, <2>3
  <1> QED BY <1>1, <1>5, <1>6, <1>7, <1>8 DEF SessionInv

(* A session that leaves after a Release, a Forget or a crash keeps only   *)
(* its token, and ends no lease but its own.                               *)
LEMMA LeaveKeeps ==
    ASSUME Inv, B!TypeOK', StoreAges, NEW s \in Sessions, NEW l \in {"released", "over"},
           LeaveTo(s, l), tok[s] # 0
    PROVE  SessionInv(s)'
  <1>0. TypeOK /\ SessionInv(s) /\ tok' = tok
    BY DEF Inv, LeaveTo
  <1>1. /\ pc'[s] = l /\ ren'[s] = "exited" /\ cause'[s] = NoCause /\ reply'[s] = "none"
        /\ callAt'[s] = callAt[s] /\ callStart'[s] = callStart[s]
    BY <1>0 DEF TypeOK, LeaveTo, Goto, callVars
  <1>2. TokenIssued(s)'
    BY <1>0, TokenKept DEF SessionInv, TokenIssued
  <1>3. callAt[s] # "none" => callStart[s] <= Local'
    BY <1>0, SessionTypes, ClocksGrow DEF SessionInv, CallIsTrue
  <1> QED BY <1>1, <1>2, <1>3 DEF SessionInv, Positions, StartBacked, WindowsBacked, HasToken, CallIsTrue,
          LossIsTrue, OK, NoCause, CauseFenced, CauseExhausted, CauseExpired

-----------------------------------------------------------------------------
(* A step of one session keeps all types and touches no other session. *)
LEMMA OneSessionMoves ==
    ASSUME TypeOK, B!TypeOK', NEW s \in Sessions, SessionStep(s) \/ Goroutine(s) \/ CallStep(s)
    PROVE  TypeOK' /\ \A u \in Sessions : u # s => Untouched(u)
  <1>0. /\ Local \in Int /\ start[s] + TTL \in Int /\ callStart[s] + TTL \in Int
        /\ B!nextToken(Work) \in Nat /\ B!AcquireResult(Work) \in {OK, ErrLeaseHeld}
        /\ B!RenewResult(rec(s)) \in {OK, ErrFenced, ErrLeaseExpired}
    <2>1. B!nextToken(Work) \in Nat
      BY StoreTypes DEF TypeOK, B!nextToken
    <2> QED BY <2>1, Clocks, SameTypes DEF B!AcquireResult, B!RenewResult
  <1> USE <1>0 DEF TypeOK, Untouched, ThreadsUntouched, appVars, renVars, callVars, Goto
  <1>1. CASE AcquireBegin(s)
    BY <1>1 DEF AcquireBegin
  <1>2. CASE AcquireFails(s)
    BY <1>2 DEF AcquireFails
  <1>3. CASE \E waits \in BOOLEAN : AcquireRefused(s, waits)
    BY <1>3 DEF AcquireRefused
  <1>4. CASE PollCancelled(s)
    BY <1>4 DEF PollCancelled
  <1>5. CASE StartRenewal(s)
    BY <1>5 DEF StartRenewal, newToken
  <1>6. CASE SeesStop(s) \/ SeesParentDone(s)
    BY <1>6 DEF SeesStop, SeesParentDone
  <1>7. CASE SeesWindowClosed(s)
    BY <1>7 DEF SeesWindowClosed, CancelCause
  <1>8. CASE TimerFires(s)
    BY <1>8 DEF TimerFires, CancelCause
  <1>9. CASE LaunchRenew(s)
    BY <1>9 DEF LaunchRenew
  <1>10. CASE TakesResult(s)
    BY <1>10 DEF TakesResult, RenewedWindow, CancelCause
  <1>11. CASE Publish(s)
    BY <1>11 DEF Publish
  <1>12. CASE RenewEnters(s)
    BY <1>12 DEF RenewEnters, Answer
  <1>13. CASE RenewFails(s)
    BY <1>13 DEF RenewFails, Answer
  <1>14. CASE CancelParent(s)
    BY <1>14 DEF CancelParent
  <1>15. CASE StopRenewal(s) \/ StopReturns(s)
    BY <1>15 DEF StopRenewal, StopReturns
  <1>16. CASE Crash(s)
    BY <1>16 DEF Crash, Leave, LeaveTo
  <1>17. CASE \E rd \in B!Readings, lost \in BOOLEAN : AcquireTakesEffect(s, rd, lost)
    BY <1>17 DEF AcquireTakesEffect
  <1>18. CASE \E rd \in B!Readings, lost \in BOOLEAN : RenewTakesEffect(s, rd, lost)
    BY <1>18 DEF RenewTakesEffect, Answer
  <1>19. CASE \E state \in States \union {NoState}, rd \in B!Readings : CheckpointWork(s, state, rd)
    BY <1>19 DEF CheckpointWork
  <1>20. CASE \E rd \in B!Readings : RenewLease(s, rd)
    BY <1>20 DEF RenewLease
  <1>21. CASE \E mode \in Modes, rd \in B!Readings, lost \in BOOLEAN : ReleaseLease(s, mode, rd, lost)
    BY <1>21 DEF ReleaseLease, LeaveTo
  <1>22. CASE ForgetLease(s)
    BY <1>22 DEF ForgetLease, Leave, LeaveTo
  <1> QED BY <1>1, <1>2, <1>3, <1>4, <1>5, <1>6, <1>7, <1>8, <1>9, <1>10, <1>11, <1>12,
             <1>13, <1>14, <1>15, <1>16, <1>17, <1>18, <1>19, <1>20, <1>21, <1>22
          DEF SessionStep, Goroutine, CallStep

(* Every step of a session, of its goroutine or of its Renew call keeps    *)
(* what all sessions know.                                                 *)
LEMMA SessionStepKeeps ==
    ASSUME Inv, Next, NEW s \in Sessions, SessionStep(s) \/ Goroutine(s) \/ CallStep(s)
    PROVE  Inv'
  <1>0. TypeOK /\ B!TypeOK /\ M!Inv' /\ B!TypeOK' /\ TokensAreOwn /\ \A u \in Sessions : SessionInv(u)
    BY BackendKept DEF Inv, TypeOK
  <1>1. TypeOK' /\ \A u \in Sessions : u # s => Untouched(u)
    BY <1>0, OneSessionMoves
  <1> SUFFICES /\ StoreAges /\ \A u \in Sessions : u # s => LeaseKept(tok[u])
               /\ SessionInv(s)' /\ TokensAreOwn'
    BY <1>0, <1>1, UntouchedKeeps DEF Inv
  <1>2. ASSUME tok' = tok PROVE TokensAreOwn'
    BY <1>0, <1>2 DEF TokensAreOwn
  <1>3. CASE QuietStep(s)
    <2>1. UNCHANGED storeVars /\ tok' = tok
      BY <1>3, QuietStepIsQuiet
    <2> QED BY <1>0, <1>2, <1>3, <2>1, QuietKeeps, NoEffect
  <1>4. CASE \E rd \in B!Readings, lost \in BOOLEAN : AcquireTakesEffect(s, rd, lost)
    BY <1>0, <1>4, AcquireKeeps
  <1>5. CASE \E rd \in B!Readings, lost \in BOOLEAN : RenewTakesEffect(s, rd, lost)
    <2>1. tok' = tok
      BY <1>5 DEF RenewTakesEffect, Answer, appVars
    <2> QED BY <1>0, <1>2, <1>5, <2>1, RenewKeeps
  <1>6. CASE \/ \E state \in States \union {NoState}, rd \in B!Readings : CheckpointWork(s, state, rd)
             \/ \E rd \in B!Readings : RenewLease(s, rd)
    <2>1. UNCHANGED <<appVars, renVars, callVars>>
      BY <1>6 DEF CheckpointWork, RenewLease
    <2>2. Untouched(s) /\ tok' = tok
      BY <2>1 DEF Untouched, ThreadsUntouched, appVars, renVars, callVars
    <2>3. StoreAges /\ \A t : LeaseKept(t)
      BY <1>0, <1>6, ExtendEffect DEF CheckpointWork, RenewLease
    <2> QED BY <1>0, <1>2, <2>2, <2>3, UntouchedKeeps
  <1>7. CASE \/ \E mode \in Modes, rd \in B!Readings, lost \in BOOLEAN : ReleaseLease(s, mode, rd, lost)
             \/ ForgetLease(s)
    <2>1. tok[s] # 0
      BY <1>0, <1>7 DEF ReleaseLease, ForgetLease, SessionInv, TokenIssued, HasToken
    <2>2. StoreAges /\ \A t : t # tok[s] => LeaseKept(t)
      BY <1>0, <1>7, EndEffect DEF ReleaseLease, ForgetLease
    <2>3. \E l \in {"released", "over"} : LeaveTo(s, l)
      BY <1>7 DEF ReleaseLease, ForgetLease, Leave
    <2>4. SessionInv(s)'
      BY <1>0, <2>1, <2>2, <2>3, LeaveKeeps
    <2>5. tok' = tok
      BY <2>3 DEF LeaveTo
    <2>6. \A u \in Sessions : u # s => tok[u] # tok[s]
      BY <1>0, <2>1 DEF TokensAreOwn
    <2> QED BY <1>2, <2>2, <2>4, <2>5, <2>6
  <1> QED BY <1>3, <1>4, <1>5, <1>6, <1>7 DEF SessionStep, CallStep, QuietStep

(* The first state satisfies the invariant. *)
LEMMA InvInit == Init => Inv
  <1> SUFFICES ASSUME Init PROVE Inv
    OBVIOUS
  <1>1. M!Inv
    BY SameMethods, M!InvInit DEF Init
  <1>2. B!TypeOK
    BY <1>1, SameTypes DEF M!Inv
  <1>3. TypeOK
    BY <1>2 DEF Init, TypeOK
  <1>4. TokensAreOwn
    BY DEF Init, TokensAreOwn
  <1>5. ASSUME NEW s \in Sessions PROVE SessionInv(s)
    BY DEF Init, SessionInv, TokenIssued, Positions, StartBacked, WindowsBacked, CallIsTrue, LossIsTrue,
       HasToken, OK, NoCause, CauseFenced, CauseExhausted, CauseExpired
  <1> QED BY <1>1, <1>3, <1>4, <1>5 DEF Inv

(* Every step preserves the invariant: a session's own, a Sweep, the       *)
(* clock's.                                                                *)
LEMMA InvNext == Inv /\ [Next]_vars => Inv'
  <1> SUFFICES ASSUME Inv, [Next]_vars PROVE Inv'
    OBVIOUS
  <1>0. TypeOK /\ B!TypeOK /\ M!Inv' /\ B!TypeOK' /\ TokensAreOwn /\ \A u \in Sessions : SessionInv(u)
    BY BackendKept DEF Inv, TypeOK
  <1>1. ASSUME UNCHANGED <<appVars, renVars, parent, callVars>>, StoreAges, \A t : LeaseKept(t)
        PROVE  Inv'
    <2>1. TypeOK'
      BY <1>0, <1>1 DEF TypeOK, appVars, renVars, callVars
    <2>2. TokensAreOwn'
      BY <1>0, <1>1 DEF TokensAreOwn, appVars
    <2>3. \A u \in Sessions : Untouched(u)
      BY <1>1 DEF Untouched, ThreadsUntouched, appVars, renVars, callVars
    <2> QED BY <1>0, <1>1, <2>1, <2>2, <2>3, UntouchedKeeps DEF Inv
  <1>2. CASE UNCHANGED vars
    BY <1>0, <1>1, <1>2, NoEffect DEF vars
  <1>3. CASE \E s \in Sessions : SessionStep(s) \/ Goroutine(s) \/ CallStep(s)
    BY <1>3, SessionStepKeeps DEF Next
  <1>4. CASE \E retention \in Retentions, includeExpired \in BOOLEAN : VacuumSweep(retention, includeExpired)
    BY <1>0, <1>1, <1>4, SweepEffect DEF VacuumSweep
  <1>5. CASE Tick
    BY <1>0, <1>1, <1>5, TickEffect DEF Tick
  <1> QED BY <1>2, <1>3, <1>4, <1>5 DEF Next

(* The invariant holds in every reachable state. *)
LEMMA Invariance == Spec => []Inv
  BY InvInit, InvNext, PTL DEF Spec

-----------------------------------------------------------------------------
(* Every variable of the client and of the backend under it keeps its      *)
(* type.                                                                   *)
THEOREM ClientTypeCorrect == Spec => []TypeOK
  <1>1. Inv => TypeOK
    BY DEF Inv
  <1> QED BY <1>1, Invariance, PTL

(* Whoever reads an open LeaseWindow before its own Release or Forget is   *)
(* the stored holder, and without those stays it for as long as the window *)
(* says, whatever was slow, lost, abandoned or concurrent on the way       *)
(* (renewal.go: start plus TTL).                                           *)
THEOREM WindowsArePromises == Spec => []WindowWithinExpiry
  <1>1. Inv => WindowWithinExpiry
    BY DEF Inv, SessionInv, WindowsBacked, Backed, WindowWithinExpiry, WindowOpen
  <1> QED BY <1>1, Invariance, PTL

(* Two sessions, neither of which has called Release or Forget, never have *)
(* an open window at the same time: the stored lease backs the window of   *)
(* one token, and no two sessions share one (acquire.go, renewal.go).      *)
THEOREM WindowsExclude == Spec => []OneOpenWindow
  <1>1. Inv => OneOpenWindow
    <2> SUFFICES ASSUME Inv, NEW s \in Sessions, NEW u \in Sessions, WindowOpen(s), WindowOpen(u)
                 PROVE  s = u
      BY DEF OneOpenWindow
    <2>1. records[Work].fencingToken = tok[s] /\ records[Work].fencingToken = tok[u]
      BY DEF Inv, SessionInv, WindowsBacked, Backed, WindowOpen
    <2>2. tok[s] # 0
      BY DEF Inv, SessionInv, TokenIssued, WindowOpen
    <2> QED BY <2>1, <2>2 DEF Inv, TokensAreOwn
  <1> QED BY <1>1, Invariance, PTL

(* What the renewal context says it was cancelled for is what happened     *)
(* (renewal.go renewCycle).                                                *)
THEOREM CausesAreTrue == Spec => []CauseIsTrue
  <1>1. Inv => CauseIsTrue
    BY DEF Inv, SessionInv, LossIsTrue, CauseIsTrue
  <1> QED BY <1>1, Invariance, PTL

(* A declared exit frees the lease for good, also with a Renew call of the *)
(* old holder still in flight (renewal.go stopRenewal, memory.go Release). *)
THEOREM ReleaseOutlivesLateCalls == Spec => []ReleasedStaysFree
  <1>1. Inv => ReleasedStaysFree
    <2> SUFFICES ASSUME Inv, NEW w \in DOMAIN records, records[w].exitMode # ExitNone
                 PROVE  B!AcquireResult(w) = OK
      BY SameTypes DEF ReleasedStaysFree, B!HandoffIsImmediate
    <2>1. records[w].expiresAt < now
      BY SameTypes DEF Inv, M!Inv, M!ExitedIsExpired
    <2>2. records[w].expiresAt \in Int /\ now \in Int
      BY DEF Inv, TypeOK, B!TypeOK, B!record
    <2> QED BY <2>1, <2>2, SameTypes DEF B!AcquireResult
  <1> QED BY <1>1, Invariance, PTL

(* The client uses the backend as any caller may: its steps are steps of   *)
(* the memory backend's specification.                                     *)
THEOREM ClientImplementsBackend == Spec => B!Spec
  <1>1. Init => B!New
    BY DEF Init
  <1>2. Inv /\ [Next]_vars => [B!Next]_(B!vars)
    BY BackendStep
  <1> QED BY <1>1, <1>2, Invariance, PTL DEF Spec, B!Spec
=============================================================================
