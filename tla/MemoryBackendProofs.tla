------------------------ MODULE MemoryBackendProofs -------------------------
(***************************************************************************)
(* Proofs about MemoryBackend, for any work IDs, holders, states, TTLs,    *)
(* clock stalls and bounds.                                                *)
(***************************************************************************)
EXTENDS MemoryBackend, TLAPS

USE MemoryAssumption, NamesAssumption

(* The exit modes are distinct strings, in this module and in the contract. *)
LEMMA ExitModesDistinct ==
    /\ ExitNone \in StoredExits /\ DeclarableExits \subseteq StoredExits
    /\ StoredExits \subseteq ExitModes
    /\ ExitNone \notin DeclarableExits
    /\ \A e \in StoredExits : CapturedExit(e) \in ExitModes
    /\ Contract!ExitNone = ExitNone /\ Contract!StoredExits = StoredExits
    /\ Contract!DeclarableExits = DeclarableExits
    /\ \A e : Contract!CapturedExit(e) = CapturedExit(e)
  BY DEF ExitNone, ExitFinished, ExitAbandoned, ExitRetired, ExitExpired, ExitModes,
         DeclarableExits, StoredExits, CapturedExit, Contract!ExitNone,
         Contract!ExitFinished, Contract!ExitAbandoned, Contract!ExitRetired,
         Contract!ExitExpired, Contract!StoredExits, Contract!DeclarableExits,
         Contract!CapturedExit

(* The clock readings of a method are ordered integers no later than MaxTime. *)
LEMMA ReadingsOrdered ==
    ASSUME TypeOK, NEW rd \in Readings
    PROVE  /\ rd[1] \in Int /\ rd[2] \in 0 .. MaxTime
           /\ now <= rd[1] /\ rd[1] <= rd[2]
  BY DEF TypeOK, Readings

(* A record a caller passes back names a tenure of the ledger. *)
LEMMA IssuedRecords ==
    ASSUME TypeOK, NEW rec \in Issued
    PROVE  /\ rec.FencingToken \in DOMAIN ledger
           /\ rec.FencingToken \in 1 .. seq
           /\ rec.WorkID = ledger[rec.FencingToken].work
           /\ rec.HolderID = ledger[rec.FencingToken].holder
           /\ rec.WorkID \in WorkIDs
           /\ rec.HolderID \in HolderIDs
  BY DEF TypeOK, Issued, Contract!Tenure

(* What a method that does not fail has checked. *)
LEMMA ResultsOK ==
    ASSUME NEW rec, NEW mode
    PROVE  /\ \/ CheckpointResult(rec) = OK \/ RenewResult(rec) = OK
              \/ ReleaseResult(rec, mode) = OK \/ ForgetResult(rec) = OK
              => /\ rec.WorkID \in DOMAIN records
                 /\ records[rec.WorkID].holderID = rec.HolderID
                 /\ records[rec.WorkID].fencingToken = rec.FencingToken
           /\ CheckpointResult(rec) = OK => records[rec.WorkID].exitMode = ExitNone
           /\ RenewResult(rec) = OK => now < records[rec.WorkID].expiresAt
           /\ ReleaseResult(rec, mode) = OK =>
                 mode \in DeclarableExits /\ now < records[rec.WorkID].expiresAt
  BY DEF CheckpointResult, RenewResult, ReleaseResult, ForgetResult, Fenced, heldBy, Exists,
         OK, ErrFenced, ErrLeaseExpired, ErrInvalidExitMode

(* Updating fields of a record keeps its type. *)
LEMMA RecordUpdates ==
    ASSUME NEW r \in record, NEW s \in States \union {NoState}, NEW mode \in StoredExits,
           NEW e \in Int, NEW u \in Int
    PROVE  /\ [r EXCEPT !.checkpoint = s, !.expiresAt = e, !.updatedAt = u] \in record
           /\ [r EXCEPT !.expiresAt = e, !.updatedAt = u] \in record
           /\ [r EXCEPT !.exitMode = mode, !.expiresAt = e, !.updatedAt = u] \in record
  BY DEF record

(* Updating fields of a tenure keeps its type. *)
LEMMA TenureUpdates ==
    ASSUME NEW S, NEW f \in [S -> Contract!Tenure], NEW t \in S,
           NEW s \in States \union {NoState}, NEW mode \in StoredExits
    PROVE  /\ [f EXCEPT ![t].saved = {s}] \in [S -> Contract!Tenure]
           /\ [f EXCEPT ![t].exit = mode] \in [S -> Contract!Tenure]
           /\ [f[t] EXCEPT !.erased = TRUE] \in Contract!Tenure
  BY ExitModesDistinct DEF Contract!Tenure

(* A new backend is well typed. *)
LEMMA TypeInit == New => TypeOK
  BY DEF New, TypeOK, Contract!Init

(* Every method, and the clock, keep the types. *)
LEMMA TypeNext == TypeOK /\ [Next]_vars => TypeOK'
  <1> SUFFICES ASSUME TypeOK, [Next]_vars PROVE TypeOK'
    OBVIOUS
  <1>1. CASE AcquireCall
    <2> PICK w \in WorkIDs, h \in HolderIDs, ttl \in TTLs, rd \in Readings :
             Acquire(w, h, ttl, rd)
      BY <1>1 DEF AcquireCall
    <2>1. CASE AcquireResult(w) = OK
      <3>1. NewRecord(w, h, ttl, rd) \in record
        BY ReadingsOrdered, ExitModesDistinct
           DEF TypeOK, NewRecord, record, Exists, prevCheckpoint, nextToken
      <3>2. Contract!NewTenure(w, h) \in Contract!Tenure
        BY ExitModesDistinct DEF Contract!NewTenure, Contract!Tenure
      <3>3. /\ DOMAIN records' \subseteq WorkIDs
            /\ records' \in [DOMAIN records' -> record]
        BY <2>1, <3>1 DEF TypeOK, Acquire
      <3>4. seq' \in 0 .. MaxSeq /\ now' \in 0 .. MaxTime
        BY <2>1, ReadingsOrdered DEF TypeOK, Acquire
      <3>5. /\ DOMAIN ledger' = 1 .. seq'
            /\ ledger' \in [DOMAIN ledger' -> Contract!Tenure]
        BY <2>1, <3>2 DEF TypeOK, Acquire, nextToken
      <3> QED BY <3>3, <3>4, <3>5 DEF TypeOK
    <2>2. CASE AcquireResult(w) # OK
      BY <2>2 DEF Acquire, TypeOK, vars
    <2> QED BY <2>1, <2>2
  <1>2. CASE CheckpointCall
    <2> PICK rec \in Issued, s \in States \union {NoState}, ttl \in TTLs, rd \in Readings :
             Checkpoint(rec, s, ttl, rd)
      BY <1>2 DEF CheckpointCall
    <2>1. CASE CheckpointResult(rec) = OK
      <3>1. rec.WorkID \in DOMAIN records
        BY <2>1, ResultsOK
      <3>2. records[rec.WorkID] \in record
        BY <3>1 DEF TypeOK
      <3>3. [records[rec.WorkID] EXCEPT !.checkpoint = s, !.expiresAt = rd[1] + ttl,
                                        !.updatedAt = rd[2]] \in record
        <4>1. rd[1] + ttl \in Int /\ rd[2] \in Int
          BY ReadingsOrdered
        <4> QED BY <3>2, <4>1, RecordUpdates, ExitModesDistinct
      <3>4. records' \in [DOMAIN records' -> record]
        BY <2>1, <3>3 DEF Checkpoint, TypeOK
      <3>5. ledger' \in [1 .. seq -> Contract!Tenure]
        <4>1. ledger \in [1 .. seq -> Contract!Tenure] /\ rec.FencingToken \in 1 .. seq
          BY IssuedRecords DEF TypeOK
        <4>2. [ledger EXCEPT ![rec.FencingToken].saved = {s}] \in [1 .. seq -> Contract!Tenure]
          BY <4>1, TenureUpdates, ExitModesDistinct
        <4> QED BY <2>1, <4>2 DEF Checkpoint
      <3> QED BY <2>1, <3>4, <3>5, ReadingsOrdered DEF TypeOK, Checkpoint
    <2>2. CASE CheckpointResult(rec) # OK
      BY <2>2 DEF Checkpoint, TypeOK, vars
    <2> QED BY <2>1, <2>2
  <1>3. CASE RenewCall
    <2> PICK rec \in Issued, ttl \in TTLs, rd \in Readings : Renew(rec, ttl, rd)
      BY <1>3 DEF RenewCall
    <2>1. CASE RenewResult(rec) = OK
      <3>1. rec.WorkID \in DOMAIN records
        BY <2>1, ResultsOK
      <3>2. records[rec.WorkID] \in record
        BY <3>1 DEF TypeOK
      <3>3. [records[rec.WorkID] EXCEPT !.expiresAt = rd[1] + ttl, !.updatedAt = rd[2]]
               \in record
        <4>1. rd[1] + ttl \in Int /\ rd[2] \in Int
          BY ReadingsOrdered
        <4> QED BY <3>2, <4>1, RecordUpdates, ExitModesDistinct
      <3>4. records' \in [DOMAIN records' -> record]
        BY <2>1, <3>3 DEF Renew, TypeOK
      <3> QED BY <2>1, <3>4, ReadingsOrdered DEF TypeOK, Renew
    <2>2. CASE RenewResult(rec) # OK
      BY <2>2 DEF Renew, TypeOK, vars
    <2> QED BY <2>1, <2>2
  <1>4. CASE ReleaseCall
    <2> PICK rec \in Issued, mode \in ExitModes, rd \in Readings : Release(rec, mode, rd)
      BY <1>4 DEF ReleaseCall
    <2>1. CASE ReleaseResult(rec, mode) = OK
      <3>1. rec.WorkID \in DOMAIN records /\ mode \in StoredExits
        BY <2>1, ResultsOK, ExitModesDistinct
      <3>2. records[rec.WorkID] \in record
        BY <3>1 DEF TypeOK
      <3>3. [records[rec.WorkID] EXCEPT !.exitMode = mode, !.expiresAt = rd[1] - Grace,
                                        !.updatedAt = rd[2]] \in record
        <4>1. rd[1] - Grace \in Int /\ rd[2] \in Int
          BY ReadingsOrdered
        <4> QED BY <3>1, <3>2, <4>1, RecordUpdates
      <3>4. records' \in [DOMAIN records' -> record]
        BY <2>1, <3>3 DEF Release, TypeOK
      <3>5. ledger' \in [1 .. seq -> Contract!Tenure]
        <4>1. ledger \in [1 .. seq -> Contract!Tenure] /\ rec.FencingToken \in 1 .. seq
          BY IssuedRecords DEF TypeOK
        <4>2. [ledger EXCEPT ![rec.FencingToken].exit = mode] \in [1 .. seq -> Contract!Tenure]
          BY <3>1, <4>1, TenureUpdates
        <4> QED BY <2>1, <4>2 DEF Release
      <3> QED BY <2>1, <3>4, <3>5, ReadingsOrdered DEF TypeOK, Release
    <2>2. CASE ReleaseResult(rec, mode) # OK
      BY <2>2 DEF Release, TypeOK, vars
    <2> QED BY <2>1, <2>2
  <1>5. ASSUME NEW W, Delete(W), UNCHANGED <<seq, now>> PROVE TypeOK'
    <2>1. records' \in [DOMAIN records' -> record]
      BY <1>5 DEF Delete, TypeOK
    <2>2. \A t \in DOMAIN ledger : [ledger[t] EXCEPT !.erased = TRUE] \in Contract!Tenure
      BY TenureUpdates, ExitModesDistinct DEF TypeOK
    <2>3. ledger' \in [DOMAIN ledger' -> Contract!Tenure]
      BY <1>5, <2>2 DEF Delete, TypeOK
    <2> QED BY <1>5, <2>1, <2>3 DEF Delete, TypeOK
  <1>6. CASE ForgetCall \/ SweepCall
    BY <1>5, <1>6 DEF ForgetCall, SweepCall, Forget, Sweep, TypeOK, vars
  <1>7. CASE DoneContextCall
    BY <1>7 DEF DoneContextCall, TypeOK, vars
  <1>8. CASE Tick
    BY <1>8 DEF Tick, TypeOK
  <1>9. CASE UNCHANGED vars
    BY <1>9 DEF TypeOK, vars
  <1> QED BY <1>1, <1>2, <1>3, <1>4, <1>6, <1>7, <1>8, <1>9 DEF Next

(* Every reachable state of the memory backend is well typed. *)
THEOREM TypeCorrect == Spec => []TypeOK
  BY TypeInit, TypeNext, PTL DEF Spec

-----------------------------------------------------------------------------
(* The inductive invariant.  The rows and the ledger agree; a work ID with *)
(* no row has only deleted tenures at its end; a declared exit leaves the  *)
(* row expired, which is what keeps a late Renew and a second Release out; *)
(* and each row tells the truth about the tenures before it.               *)

RowMatches(w) ==
    LET t == records[w].fencingToken
    IN  /\ t \in DOMAIN ledger
        /\ ledger[t].work = w
        /\ ledger[t].holder = records[w].holderID
        /\ ledger[t].exit = records[w].exitMode
        /\ Contract!Current(t)

RowsMatch == \A w \in DOMAIN records : RowMatches(w)

GoneIsErased ==
    \A t \in DOMAIN ledger :
        ledger[t].work \notin DOMAIN records =>
            \E u \in DOMAIN ledger : u >= t /\ ledger[u].work = ledger[t].work /\ ledger[u].erased

ExitedIsExpired ==
    \A w \in DOMAIN records : records[w].exitMode # ExitNone => records[w].expiresAt < now

RowIsTrue(w) ==
    LET r == records[w]
    IN  /\ Contract!TruePrevExit(r.fencingToken, r.prevExit, r.prevHolderID)
        /\ Contract!TrueState(r.fencingToken, r.checkpoint)

RowsAreTrue == \A w \in DOMAIN records : RowIsTrue(w)

Inv == TypeOK /\ RowsMatch /\ GoneIsErased /\ ExitedIsExpired /\ RowsAreTrue

(* A step that leaves the tenures of one work ID alone leaves alone what   *)
(* the ledger says of that work ID.                                        *)
LEMMA OtherWorkFrame ==
    ASSUME NEW t, t \in DOMAIN ledger, DOMAIN ledger \subseteq DOMAIN ledger',
           \A u \in DOMAIN ledger : /\ ledger'[u].work = ledger[u].work
                                    /\ ledger[u].work = ledger[t].work => ledger'[u] = ledger[u],
           \A u \in DOMAIN ledger' : u \notin DOMAIN ledger => ledger'[u].work # ledger[t].work
    PROVE  /\ Contract!Current(t)' <=> Contract!Current(t)
           /\ \A e, h : Contract!TruePrevExit(t, e, h)' <=> Contract!TruePrevExit(t, e, h)
           /\ \A state : Contract!TrueState(t, state)' <=> Contract!TrueState(t, state)
  <1>0. /\ \A u \in DOMAIN ledger : ledger'[u].work = ledger[t].work <=> ledger[u].work = ledger[t].work
        /\ \A u \in DOMAIN ledger' : ledger'[u].work = ledger[t].work => u \in DOMAIN ledger
        /\ ledger'[t] = ledger[t]
    OBVIOUS
  <1>1. Contract!Current(t)' <=> Contract!Current(t)
    BY <1>0 DEF Contract!Current, Contract!Newest, Contract!Tokens
  <1>2. ASSUME NEW p \in DOMAIN ledger
        PROVE  Contract!HandsOverTo(p, t)' <=> Contract!HandsOverTo(p, t)
    BY <1>0 DEF Contract!HandsOverTo, Contract!Predecessor, Contract!Tokens
  <1>3. ASSUME NEW p \in DOMAIN ledger', p \notin DOMAIN ledger
        PROVE  ~Contract!HandsOverTo(p, t)'
    BY <1>0, <1>3 DEF Contract!HandsOverTo, Contract!Predecessor
  <1>4. ASSUME NEW p \in DOMAIN ledger, Contract!HandsOverTo(p, t)
        PROVE  ledger'[p] = ledger[p]
    BY <1>4 DEF Contract!HandsOverTo, Contract!Predecessor
  <1>5. ASSUME NEW e, NEW h
        PROVE  Contract!TruePrevExit(t, e, h)' <=> Contract!TruePrevExit(t, e, h)
    BY <1>2, <1>3, <1>4 DEF Contract!TruePrevExit, Contract!Tokens
  <1>6. ASSUME NEW p \in DOMAIN ledger
        PROVE  Contract!Reaches(p, t)' <=> Contract!Reaches(p, t)
    BY <1>0 DEF Contract!Reaches, Contract!Tokens
  <1>7. ASSUME NEW p \in DOMAIN ledger', p \notin DOMAIN ledger
        PROVE  ~Contract!Reaches(p, t)'
    BY <1>0, <1>7 DEF Contract!Reaches
  <1>8. ASSUME NEW p \in DOMAIN ledger, Contract!Reaches(p, t)
        PROVE  ledger'[p] = ledger[p]
    BY <1>8 DEF Contract!Reaches
  <1>9. ASSUME NEW state
        PROVE  Contract!TrueState(t, state)' <=> Contract!TrueState(t, state)
    BY <1>6, <1>7, <1>8 DEF Contract!TrueState, Contract!Tokens
  <1> QED BY <1>1, <1>5, <1>9

(* The same, lifted to the row of a work ID that the step leaves alone. *)
LEMMA RowFrame ==
    ASSUME Inv, NEW w, w \in DOMAIN records, w \in DOMAIN records',
           records'[w].holderID = records[w].holderID,
           records'[w].fencingToken = records[w].fencingToken,
           records'[w].exitMode = records[w].exitMode,
           records'[w].prevExit = records[w].prevExit,
           records'[w].prevHolderID = records[w].prevHolderID,
           records'[w].checkpoint = records[w].checkpoint,
           DOMAIN ledger \subseteq DOMAIN ledger',
           \A u \in DOMAIN ledger : /\ ledger'[u].work = ledger[u].work
                                    /\ ledger[u].work = w => ledger'[u] = ledger[u],
           \A u \in DOMAIN ledger' : u \notin DOMAIN ledger => ledger'[u].work # w
    PROVE  RowMatches(w)' /\ RowIsTrue(w)'
  <1>1. RowMatches(w) /\ RowIsTrue(w)
    BY DEF Inv, RowsMatch, RowsAreTrue
  <1>2. PICK t \in DOMAIN ledger : t = records[w].fencingToken /\ ledger[t].work = w
    BY <1>1 DEF RowMatches
  <1>3. /\ Contract!Current(t)' <=> Contract!Current(t)
        /\ \A e, h : Contract!TruePrevExit(t, e, h)' <=> Contract!TruePrevExit(t, e, h)
        /\ \A state : Contract!TrueState(t, state)' <=> Contract!TrueState(t, state)
    BY <1>2, OtherWorkFrame
  <1>4. RowMatches(w)'
    BY <1>1, <1>2, <1>3 DEF RowMatches
  <1>5. RowIsTrue(w)'
    BY <1>1, <1>2, <1>3 DEF RowIsTrue
  <1> QED BY <1>4, <1>5

-----------------------------------------------------------------------------
(* Preservation of the invariant, one lemma per way a method can succeed.  *)

(* A successful Acquire: the new row and the new tenure agree, and the row it
   replaces hands its exit, holder and state over. *)
LEMMA AcquirePreserves ==
    ASSUME Inv, NEW w \in WorkIDs, NEW h \in HolderIDs, NEW ttl \in TTLs, NEW rd \in Readings,
           AcquireResult(w) = OK, Acquire(w, h, ttl, rd)
    PROVE  (RowsMatch /\ GoneIsErased /\ ExitedIsExpired /\ RowsAreTrue)'
  <1>1. PICK T : T = seq + 1
    OBVIOUS
  <1>2. /\ T \notin DOMAIN ledger /\ T \in Nat
        /\ \A u \in DOMAIN ledger : u \in Nat /\ u < T
    BY <1>1 DEF Inv, TypeOK
  <1>3. /\ DOMAIN ledger' = DOMAIN ledger \union {T}
        /\ ledger'[T] = Contract!NewTenure(w, h)
        /\ \A u \in DOMAIN ledger : ledger'[u] = ledger[u]
    BY <1>1, <1>2 DEF Acquire, nextToken
  <1>4. /\ ledger'[T].work = w /\ ledger'[T].holder = h /\ ledger'[T].exit = ExitNone
        /\ ledger'[T].saved = {} /\ ledger'[T].erased = FALSE
    BY <1>3, ExitModesDistinct DEF Contract!NewTenure
  <1>5. /\ DOMAIN records' = DOMAIN records \union {w}
        /\ records'[w] = NewRecord(w, h, ttl, rd)
        /\ \A x \in DOMAIN records : x # w => records'[x] = records[x]
    BY DEF Acquire
  <1>6. /\ records'[w].fencingToken = T /\ records'[w].holderID = h
        /\ records'[w].exitMode = ExitNone
        /\ records'[w].checkpoint = prevCheckpoint(w)
        /\ records'[w].prevExit = IF Exists(w) THEN CapturedExit(records[w].exitMode) ELSE ExitNone
        /\ records'[w].prevHolderID = IF Exists(w) THEN records[w].holderID ELSE NoHolder
    BY <1>1, <1>5 DEF NewRecord, nextToken
  <1>7. RowMatches(w)'
    BY <1>2, <1>3, <1>4, <1>6 DEF RowMatches, Contract!Current, Contract!Newest, Contract!Tokens
  <1>8. ASSUME Exists(w)
        PROVE  RowIsTrue(w)'
    <2>1. RowMatches(w) /\ RowIsTrue(w)
      BY <1>8 DEF Exists, Inv, RowsMatch, RowsAreTrue
    <2>2. PICK p \in DOMAIN ledger : p = records[w].fencingToken
      BY <2>1 DEF RowMatches
    <2>3. /\ ledger[p].work = w /\ ledger[p].exit = records[w].exitMode
          /\ ledger[p].holder = records[w].holderID /\ ~ledger[p].erased
          /\ \A u \in DOMAIN ledger : ledger[u].work = w => u <= p
      BY <2>1, <2>2 DEF RowMatches, Contract!Current, Contract!Newest, Contract!Tokens
    <2>4. Contract!HandsOverTo(p, T)'
      BY <1>2, <1>3, <1>4, <2>3
         DEF Contract!HandsOverTo, Contract!Predecessor, Contract!Tokens
    <2>5. Contract!TruePrevExit(T, records[w].prevExit, records[w].prevHolderID)'
      BY <1>3, <1>6, <1>8, <2>3, <2>4, ExitModesDistinct
         DEF Contract!TruePrevExit, Contract!Tokens
    <2>6. \A s \in DOMAIN ledger : Contract!Reaches(s, T)' <=> Contract!Reaches(s, p)
      BY <1>2, <1>3, <1>4, <2>3 DEF Contract!Reaches, Contract!Tokens
    <2>7. ~Contract!Reaches(T, T)'
      BY <1>4 DEF Contract!Reaches
    <2>8. Contract!TrueState(p, records[w].checkpoint)
      BY <2>1, <2>2 DEF RowIsTrue
    <2>9. records'[w].checkpoint = records[w].checkpoint
      BY <1>6, <1>8 DEF prevCheckpoint
    <2>10. Contract!TrueState(T, records[w].checkpoint)'
      BY <1>3, <2>6, <2>7, <2>8, <2>9 DEF Contract!TrueState, Contract!Tokens
    <2> QED BY <1>6, <2>5, <2>10 DEF RowIsTrue
  <1>9. ASSUME ~Exists(w)
        PROVE  RowIsTrue(w)'
    <2>1. \A t \in DOMAIN ledger : ledger[t].work = w =>
             \E u \in DOMAIN ledger : u >= t /\ ledger[u].work = w /\ ledger[u].erased
      BY <1>9 DEF Inv, GoneIsErased, Exists
    <2>2. \A p \in DOMAIN ledger' : ~Contract!HandsOverTo(p, T)'
      <3> SUFFICES ASSUME NEW p \in DOMAIN ledger', Contract!HandsOverTo(p, T)' PROVE FALSE
        OBVIOUS
      <3>1. /\ p < T /\ ledger'[p].work = w /\ ~ledger'[p].erased
            /\ \A u \in DOMAIN ledger' : ledger'[u].work = w => u <= p \/ T <= u
        BY <1>4 DEF Contract!HandsOverTo, Contract!Predecessor, Contract!Tokens
      <3>2. p \in DOMAIN ledger /\ ledger[p].work = w /\ ~ledger[p].erased
        BY <1>2, <1>3, <3>1
      <3>3. PICK u \in DOMAIN ledger : u >= p /\ ledger[u].work = w /\ ledger[u].erased
        BY <2>1, <3>2
      <3>4. u <= p \/ T <= u
        BY <1>3, <3>1, <3>3
      <3> QED BY <1>2, <3>2, <3>3, <3>4
    <2>3. \A p \in DOMAIN ledger' : ~Contract!Reaches(p, T)'
      <3> SUFFICES ASSUME NEW p \in DOMAIN ledger', Contract!Reaches(p, T)' PROVE FALSE
        OBVIOUS
      <3>1. /\ ledger'[p].work = w /\ ledger'[p].saved # {}
            /\ \A u \in DOMAIN ledger' : ledger'[u].work = w /\ p <= u /\ u < T => ~ledger'[u].erased
        BY <1>4 DEF Contract!Reaches, Contract!Tokens
      <3>2. p \in DOMAIN ledger /\ ledger[p].work = w
        BY <1>3, <1>4, <3>1
      <3>3. PICK u \in DOMAIN ledger : u >= p /\ ledger[u].work = w /\ ledger[u].erased
        BY <2>1, <3>2
      <3> QED BY <1>2, <1>3, <3>1, <3>2, <3>3
    <2>4. records'[w].checkpoint = NoState
      BY <1>6, <1>9 DEF prevCheckpoint
    <2> QED BY <1>6, <1>9, <2>2, <2>3, <2>4, ExitModesDistinct
               DEF RowIsTrue, Contract!TruePrevExit, Contract!TrueState, Contract!Tokens,
                   Contract!ExitNone, ExitNone
  <1>10. ASSUME NEW x \in DOMAIN records, x # w
         PROVE  RowMatches(x)' /\ RowIsTrue(x)'
    BY <1>3, <1>4, <1>5, <1>10, RowFrame
  <1>11. (RowsMatch /\ RowsAreTrue)'
    BY <1>5, <1>7, <1>8, <1>9, <1>10 DEF RowsMatch, RowsAreTrue
  <1>12. GoneIsErased'
    BY <1>3, <1>4, <1>5 DEF Inv, GoneIsErased
  <1>13. ExitedIsExpired'
    <2>1. now' \in Int /\ now \in Int /\ now <= now'
      BY ReadingsOrdered DEF Acquire, Inv, TypeOK
    <2>2. \A x \in DOMAIN records : records[x].expiresAt \in Int
      BY DEF Inv, TypeOK, record
    <2> QED BY <1>5, <1>6, <2>1, <2>2 DEF Inv, ExitedIsExpired
  <1> QED BY <1>11, <1>12, <1>13

(* A method that succeeds for rec acts on the row and the tenure of rec. *)
LEMMA HolderTenure ==
    ASSUME Inv, NEW rec \in Issued, rec.WorkID \in DOMAIN records,
           records[rec.WorkID].fencingToken = rec.FencingToken
    PROVE  /\ rec.FencingToken \in DOMAIN ledger
           /\ RowMatches(rec.WorkID) /\ RowIsTrue(rec.WorkID)
           /\ ledger[rec.FencingToken].work = rec.WorkID
           /\ ledger[rec.FencingToken].exit = records[rec.WorkID].exitMode
           /\ Contract!Current(rec.FencingToken)
  BY DEF Inv, RowsMatch, RowsAreTrue, RowMatches

(* A successful Checkpoint stores the state that the tenure says was saved. *)
LEMMA CheckpointPreserves ==
    ASSUME Inv, NEW rec \in Issued, NEW s \in States \union {NoState}, NEW ttl \in TTLs,
           NEW rd \in Readings, CheckpointResult(rec) = OK, Checkpoint(rec, s, ttl, rd)
    PROVE  (RowsMatch /\ GoneIsErased /\ ExitedIsExpired /\ RowsAreTrue)'
  <1>1. PICK w \in DOMAIN records, t \in DOMAIN ledger :
           /\ w = rec.WorkID /\ t = rec.FencingToken /\ records[w].fencingToken = t
           /\ RowMatches(w) /\ RowIsTrue(w) /\ ledger[t].work = w
           /\ records[w].exitMode = ExitNone /\ Contract!Current(t)
    BY ResultsOK, HolderTenure
  <1>2. /\ DOMAIN ledger' = DOMAIN ledger
        /\ \A u \in DOMAIN ledger : u # t => ledger'[u] = ledger[u]
        /\ ledger'[t] = [ledger[t] EXCEPT !.saved = {s}]
    BY <1>1 DEF Checkpoint
  <1>3. ledger[t] \in Contract!Tenure
    BY DEF Inv, TypeOK
  <1>4. /\ ledger'[t].work = w /\ ledger'[t].holder = ledger[t].holder
        /\ ledger'[t].exit = ledger[t].exit /\ ledger'[t].erased = ledger[t].erased
        /\ ledger'[t].saved = {s}
    BY <1>1, <1>2, <1>3 DEF Contract!Tenure
  <1>5. /\ DOMAIN records' = DOMAIN records
        /\ \A x \in DOMAIN records : x # w => records'[x] = records[x]
        /\ records'[w] = [records[w] EXCEPT !.checkpoint = s, !.expiresAt = rd[1] + ttl,
                                            !.updatedAt = rd[2]]
    BY <1>1 DEF Checkpoint
  <1>6. records[w] \in record
    BY DEF Inv, TypeOK
  <1>7. /\ records'[w].fencingToken = t /\ records'[w].holderID = records[w].holderID
        /\ records'[w].exitMode = ExitNone /\ records'[w].checkpoint = s
        /\ records'[w].prevExit = records[w].prevExit
        /\ records'[w].prevHolderID = records[w].prevHolderID
    BY <1>1, <1>5, <1>6 DEF record
  <1>8. RowMatches(w)'
    BY <1>1, <1>2, <1>4, <1>7 DEF RowMatches, Contract!Current, Contract!Newest, Contract!Tokens
  <1>9. \A p \in DOMAIN ledger : Contract!HandsOverTo(p, t)' <=> Contract!HandsOverTo(p, t)
    BY <1>1, <1>2, <1>4 DEF Contract!HandsOverTo, Contract!Predecessor, Contract!Tokens
  <1>10. Contract!TruePrevExit(t, records[w].prevExit, records[w].prevHolderID)'
    <2>1. Contract!TruePrevExit(t, records[w].prevExit, records[w].prevHolderID)
      BY <1>1 DEF RowIsTrue
    <2>2. \A p \in DOMAIN ledger : ledger'[p].exit = ledger[p].exit /\ ledger'[p].holder = ledger[p].holder
      BY <1>2, <1>4
    <2> QED BY <1>2, <1>7, <1>9, <2>1, <2>2 DEF Contract!TruePrevExit, Contract!Tokens
  <1>11. Contract!TrueState(t, records[w].checkpoint)'
    <2>1. t \in Nat /\ \A u \in DOMAIN ledger' : u \in Nat
      BY <1>2 DEF Inv, TypeOK
    <2>2. Contract!Reaches(t, t)'
      BY <1>4, <2>1 DEF Contract!Reaches, Contract!Tokens
    <2>3. \A u \in DOMAIN ledger' : Contract!Reaches(u, t)' => u <= t
      BY DEF Contract!Reaches
    <2> QED BY <1>2, <1>4, <1>7, <2>2, <2>3 DEF Contract!TrueState, Contract!Tokens
  <1>12. RowIsTrue(w)'
    BY <1>7, <1>10, <1>11 DEF RowIsTrue
  <1>13. ASSUME NEW x \in DOMAIN records, x # w
         PROVE  RowMatches(x)' /\ RowIsTrue(x)'
    BY <1>1, <1>2, <1>4, <1>5, <1>13, RowFrame
  <1>14. (RowsMatch /\ RowsAreTrue)'
    BY <1>5, <1>8, <1>12, <1>13 DEF RowsMatch, RowsAreTrue
  <1>15. GoneIsErased'
    <2>1. \A u \in DOMAIN ledger : ledger'[u].work = ledger[u].work /\ ledger'[u].erased = ledger[u].erased
      BY <1>1, <1>2, <1>4
    <2>2. GoneIsErased
      BY DEF Inv
    <2> QED BY <1>2, <1>5, <2>1, <2>2 DEF GoneIsErased
  <1>16. ExitedIsExpired'
    <2>1. now' \in Int /\ now \in Int /\ now <= now'
      BY ReadingsOrdered DEF Checkpoint, Inv, TypeOK
    <2>2. \A x \in DOMAIN records : records[x].expiresAt \in Int
      BY DEF Inv, TypeOK, record
    <2>3. \A x \in DOMAIN records : x # w /\ records[x].exitMode # ExitNone => records[x].expiresAt < now'
      BY <2>1, <2>2 DEF Inv, ExitedIsExpired
    <2> QED BY <1>5, <1>7, <2>1, <2>3 DEF ExitedIsExpired
  <1> QED BY <1>14, <1>15, <1>16

(* A successful Release writes the exit to the row and to the tenure. *)
LEMMA ReleasePreserves ==
    ASSUME Inv, NEW rec \in Issued, NEW mode \in ExitModes, NEW rd \in Readings,
           ReleaseResult(rec, mode) = OK, Release(rec, mode, rd)
    PROVE  (RowsMatch /\ GoneIsErased /\ ExitedIsExpired /\ RowsAreTrue)'
  <1>1. PICK w \in DOMAIN records, t \in DOMAIN ledger :
           /\ w = rec.WorkID /\ t = rec.FencingToken /\ records[w].fencingToken = t
           /\ RowMatches(w) /\ RowIsTrue(w) /\ ledger[t].work = w /\ Contract!Current(t)
    BY ResultsOK, HolderTenure
  <1>2. /\ DOMAIN ledger' = DOMAIN ledger
        /\ \A u \in DOMAIN ledger : u # t => ledger'[u] = ledger[u]
        /\ ledger'[t] = [ledger[t] EXCEPT !.exit = mode]
    BY <1>1 DEF Release
  <1>3. ledger[t] \in Contract!Tenure
    BY DEF Inv, TypeOK
  <1>4. /\ ledger'[t].work = w /\ ledger'[t].holder = ledger[t].holder
        /\ ledger'[t].saved = ledger[t].saved /\ ledger'[t].erased = ledger[t].erased
        /\ ledger'[t].exit = mode
    BY <1>1, <1>2, <1>3 DEF Contract!Tenure
  <1>5. /\ DOMAIN records' = DOMAIN records
        /\ \A x \in DOMAIN records : x # w => records'[x] = records[x]
        /\ records'[w] = [records[w] EXCEPT !.exitMode = mode, !.expiresAt = rd[1] - Grace,
                                            !.updatedAt = rd[2]]
    BY <1>1 DEF Release
  <1>6. records[w] \in record
    BY DEF Inv, TypeOK
  <1>7. /\ records'[w].fencingToken = t /\ records'[w].holderID = records[w].holderID
        /\ records'[w].exitMode = mode /\ records'[w].checkpoint = records[w].checkpoint
        /\ records'[w].expiresAt = rd[1] - Grace
        /\ records'[w].prevExit = records[w].prevExit
        /\ records'[w].prevHolderID = records[w].prevHolderID
    BY <1>1, <1>5, <1>6 DEF record
  <1>8. RowMatches(w)'
    BY <1>1, <1>2, <1>4, <1>7 DEF RowMatches, Contract!Current, Contract!Newest, Contract!Tokens
  <1>9. \A p \in DOMAIN ledger : Contract!HandsOverTo(p, t)' <=> Contract!HandsOverTo(p, t)
    BY <1>1, <1>2, <1>4 DEF Contract!HandsOverTo, Contract!Predecessor, Contract!Tokens
  <1>10. Contract!TruePrevExit(t, records[w].prevExit, records[w].prevHolderID)'
    <2>1. Contract!TruePrevExit(t, records[w].prevExit, records[w].prevHolderID)
      BY <1>1 DEF RowIsTrue
    <2>2. \A p \in DOMAIN ledger : Contract!HandsOverTo(p, t) => p # t
      BY DEF Contract!HandsOverTo, Contract!Predecessor, Inv, TypeOK
    <2> QED BY <1>2, <1>7, <1>9, <2>1, <2>2 DEF Contract!TruePrevExit, Contract!Tokens
  <1>11. Contract!TrueState(t, records[w].checkpoint)'
    <2>1. Contract!TrueState(t, records[w].checkpoint)
      BY <1>1 DEF RowIsTrue
    <2>2. \A u \in DOMAIN ledger : /\ ledger'[u].work = ledger[u].work
                                   /\ ledger'[u].saved = ledger[u].saved
                                   /\ ledger'[u].erased = ledger[u].erased
      BY <1>1, <1>2, <1>4
    <2>3. \A u \in DOMAIN ledger : Contract!Reaches(u, t)' <=> Contract!Reaches(u, t)
      BY <1>2, <2>2 DEF Contract!Reaches, Contract!Tokens
    <2> QED BY <1>2, <1>7, <2>1, <2>2, <2>3 DEF Contract!TrueState, Contract!Tokens
  <1>12. RowIsTrue(w)'
    BY <1>7, <1>10, <1>11 DEF RowIsTrue
  <1>13. ASSUME NEW x \in DOMAIN records, x # w
         PROVE  RowMatches(x)' /\ RowIsTrue(x)'
    BY <1>1, <1>2, <1>4, <1>5, <1>13, RowFrame
  <1>14. (RowsMatch /\ RowsAreTrue)'
    BY <1>5, <1>8, <1>12, <1>13 DEF RowsMatch, RowsAreTrue
  <1>15. GoneIsErased'
    <2>1. \A u \in DOMAIN ledger : ledger'[u].work = ledger[u].work /\ ledger'[u].erased = ledger[u].erased
      BY <1>1, <1>2, <1>4
    <2>2. GoneIsErased
      BY DEF Inv
    <2> QED BY <1>2, <1>5, <2>1, <2>2 DEF GoneIsErased
  <1>16. ExitedIsExpired'
    <2>1. now' \in Int /\ now \in Int /\ now <= now' /\ rd[1] - Grace < now'
      BY ReadingsOrdered DEF Release, Inv, TypeOK
    <2>2. \A x \in DOMAIN records : records[x].expiresAt \in Int
      BY DEF Inv, TypeOK, record
    <2>3. \A x \in DOMAIN records : x # w /\ records[x].exitMode # ExitNone => records[x].expiresAt < now'
      BY <2>1, <2>2 DEF Inv, ExitedIsExpired
    <2> QED BY <1>5, <1>7, <2>1, <2>3 DEF ExitedIsExpired
  <1> QED BY <1>14, <1>15, <1>16

(* A successful Renew moves the expiry of a lease without a declared exit only. *)
LEMMA RenewPreserves ==
    ASSUME Inv, NEW rec \in Issued, NEW ttl \in TTLs, NEW rd \in Readings,
           RenewResult(rec) = OK, Renew(rec, ttl, rd)
    PROVE  (RowsMatch /\ GoneIsErased /\ ExitedIsExpired /\ RowsAreTrue)'
  <1>1. PICK w \in DOMAIN records : w = rec.WorkID /\ now < records[w].expiresAt
    BY ResultsOK
  <1>2. ledger' = ledger
    BY DEF Renew
  <1>3. /\ DOMAIN records' = DOMAIN records
        /\ \A x \in DOMAIN records : x # w => records'[x] = records[x]
        /\ records'[w] = [records[w] EXCEPT !.expiresAt = rd[1] + ttl, !.updatedAt = rd[2]]
    BY <1>1 DEF Renew
  <1>4. records[w] \in record
    BY DEF Inv, TypeOK
  <1>5. /\ records'[w].fencingToken = records[w].fencingToken
        /\ records'[w].holderID = records[w].holderID
        /\ records'[w].exitMode = records[w].exitMode
        /\ records'[w].checkpoint = records[w].checkpoint
        /\ records'[w].prevExit = records[w].prevExit
        /\ records'[w].prevHolderID = records[w].prevHolderID
    BY <1>3, <1>4 DEF record
  <1>6. ASSUME NEW x \in DOMAIN records
        PROVE  RowMatches(x)' /\ RowIsTrue(x)'
    <2>1. CASE x = w
      BY <1>2, <1>3, <1>5, <2>1, RowFrame
    <2>2. CASE x # w
      BY <1>2, <1>3, <2>2, RowFrame
    <2> QED BY <2>1, <2>2
  <1>7. (RowsMatch /\ RowsAreTrue)'
    BY <1>3, <1>6 DEF RowsMatch, RowsAreTrue
  <1>8. GoneIsErased'
    BY <1>2, <1>3 DEF Inv, GoneIsErased
  <1>9. ExitedIsExpired'
    <2>1. now' \in Int /\ now \in Int /\ now <= now'
      BY ReadingsOrdered DEF Renew, Inv, TypeOK
    <2>2. \A x \in DOMAIN records : records[x].expiresAt \in Int
      BY DEF Inv, TypeOK, record
    <2>3. \A x \in DOMAIN records : records[x].exitMode # ExitNone => records[x].expiresAt < now'
      BY <2>1, <2>2 DEF Inv, ExitedIsExpired
    <2>4. records[w].exitMode = ExitNone
      BY <1>1, <2>1, <2>2 DEF Inv, ExitedIsExpired
    <2> QED BY <1>3, <1>5, <2>3, <2>4 DEF ExitedIsExpired
  <1> QED BY <1>7, <1>8, <1>9

(* Forget and Sweep mark exactly the tenures whose rows they delete. *)
LEMMA DeletePreserves ==
    ASSUME Inv, NEW W, Delete(W), UNCHANGED <<seq, now>>
    PROVE  (RowsMatch /\ GoneIsErased /\ ExitedIsExpired /\ RowsAreTrue)'
  <1>1. /\ DOMAIN records' = DOMAIN records \ W
        /\ \A x \in DOMAIN records' : records'[x] = records[x]
    BY DEF Delete
  <1>2. /\ DOMAIN ledger' = DOMAIN ledger
        /\ \A t \in DOMAIN ledger :
              ledger'[t] = IF \E w \in W : w \in DOMAIN records /\ records[w].fencingToken = t
                           THEN [ledger[t] EXCEPT !.erased = TRUE] ELSE ledger[t]
    BY DEF Delete
  <1>3. \A t \in DOMAIN ledger : ledger[t] \in Contract!Tenure
    BY DEF Inv, TypeOK
  <1>4. \A t \in DOMAIN ledger : /\ ledger'[t].work = ledger[t].work
                                 /\ ledger[t].erased => ledger'[t].erased
    BY <1>2, <1>3 DEF Contract!Tenure
  <1>5. \A w \in DOMAIN records : /\ records[w].fencingToken \in DOMAIN ledger
                                  /\ ledger[records[w].fencingToken].work = w
                                  /\ \A u \in DOMAIN ledger : ledger[u].work = w => u <= records[w].fencingToken
    BY DEF Inv, RowsMatch, RowMatches, Contract!Current, Contract!Newest, Contract!Tokens
  <1>6. ASSUME NEW x \in DOMAIN records'
        PROVE  RowMatches(x)' /\ RowIsTrue(x)'
    <2>1. x \in DOMAIN records /\ x \notin W
      BY <1>1
    <2>2. \A u \in DOMAIN ledger : ledger[u].work = x => ledger'[u] = ledger[u]
      BY <1>2, <1>5, <2>1
    <2> QED BY <1>1, <1>2, <1>4, <2>1, <2>2, RowFrame
  <1>7. (RowsMatch /\ RowsAreTrue)'
    BY <1>6 DEF RowsMatch, RowsAreTrue
  <1>8. GoneIsErased'
    <2> SUFFICES ASSUME NEW t \in DOMAIN ledger', ledger'[t].work \notin DOMAIN records'
                 PROVE  \E u \in DOMAIN ledger' : /\ u >= t /\ ledger'[u].work = ledger'[t].work
                                                  /\ ledger'[u].erased
      BY DEF GoneIsErased
    <2>1. CASE ledger[t].work \in DOMAIN records
      <3>1. PICK u \in DOMAIN ledger : /\ u = records[ledger[t].work].fencingToken
                                       /\ ledger[u].work = ledger[t].work /\ t <= u
        BY <1>2, <1>5, <2>1
      <3>2. ledger[t].work \in W
        BY <1>1, <1>2, <1>4, <2>1
      <3>3. ledger'[u] = [ledger[u] EXCEPT !.erased = TRUE]
        BY <1>2, <2>1, <3>1, <3>2
      <3>4. ledger'[u].erased
        BY <1>3, <3>3 DEF Contract!Tenure
      <3>5. t \in Nat /\ u \in Nat
        BY <1>2 DEF Inv, TypeOK
      <3> QED BY <1>2, <1>4, <3>1, <3>4, <3>5
    <2>2. CASE ledger[t].work \notin DOMAIN records
      <3>1. PICK u \in DOMAIN ledger : u >= t /\ ledger[u].work = ledger[t].work /\ ledger[u].erased
        BY <1>2, <2>2 DEF Inv, GoneIsErased
      <3> QED BY <1>2, <1>4, <3>1
    <2> QED BY <2>1, <2>2
  <1>9. ExitedIsExpired'
    BY <1>1 DEF Inv, ExitedIsExpired
  <1> QED BY <1>7, <1>8, <1>9

(* The passage of time frees leases and never binds them. *)
LEMMA TickPreserves ==
    ASSUME Inv, Tick
    PROVE  (RowsMatch /\ GoneIsErased /\ ExitedIsExpired /\ RowsAreTrue)'
  <1>1. /\ records' = records /\ ledger' = ledger
        /\ now' \in Int /\ now \in Int /\ now <= now'
    BY DEF Tick, Inv, TypeOK
  <1>2. \A x \in DOMAIN records : records[x].expiresAt \in Int
    BY DEF Inv, TypeOK, record
  <1>3. ExitedIsExpired'
    BY <1>1, <1>2 DEF Inv, ExitedIsExpired
  <1>4. (RowsMatch /\ RowsAreTrue)'
    BY <1>1, RowFrame DEF RowsMatch, RowsAreTrue
  <1>5. GoneIsErased'
    BY <1>1 DEF Inv, GoneIsErased
  <1> QED BY <1>3, <1>4, <1>5

(* The invariant holds of a new backend. *)
LEMMA InvInit == New => Inv
  <1> SUFFICES ASSUME New PROVE Inv
    OBVIOUS
  <1>1. TypeOK
    BY TypeInit
  <1>2. DOMAIN records = {} /\ DOMAIN ledger = {}
    BY DEF New, Contract!Init
  <1> QED BY <1>1, <1>2 DEF Inv, RowsMatch, GoneIsErased, ExitedIsExpired, RowsAreTrue

(* Every step preserves the invariant, one step per method. *)
LEMMA InvNext == Inv /\ [Next]_vars => Inv'
  <1> SUFFICES ASSUME Inv, [Next]_vars PROVE Inv'
    OBVIOUS
  <1>0. TypeOK'
    BY TypeNext DEF Inv
  <1>1. ASSUME UNCHANGED vars
        PROVE  (RowsMatch /\ GoneIsErased /\ ExitedIsExpired /\ RowsAreTrue)'
    <2>1. records' = records /\ ledger' = ledger /\ now' = now
      BY <1>1 DEF vars
    <2>2. (RowsMatch /\ RowsAreTrue)'
      BY <2>1, RowFrame DEF RowsMatch, RowsAreTrue
    <2> QED BY <2>1, <2>2 DEF Inv, GoneIsErased, ExitedIsExpired
  <1>2. CASE AcquireCall
    BY <1>0, <1>1, <1>2, AcquirePreserves DEF AcquireCall, Acquire, Inv
  <1>3. CASE CheckpointCall
    BY <1>0, <1>1, <1>3, CheckpointPreserves DEF CheckpointCall, Checkpoint, Inv
  <1>4. CASE RenewCall
    BY <1>0, <1>1, <1>4, RenewPreserves DEF RenewCall, Renew, Inv
  <1>5. CASE ReleaseCall
    BY <1>0, <1>1, <1>5, ReleasePreserves DEF ReleaseCall, Release, Inv
  <1>6. CASE ForgetCall
    BY <1>0, <1>1, <1>6, DeletePreserves DEF ForgetCall, Forget, Inv
  <1>7. CASE SweepCall
    BY <1>0, <1>7, DeletePreserves DEF SweepCall, Sweep, Inv
  <1>8. CASE DoneContextCall
    BY <1>0, <1>1, <1>8 DEF DoneContextCall, Inv
  <1>9. CASE Tick
    BY <1>0, <1>9, TickPreserves DEF Inv
  <1> QED BY <1>0, <1>1, <1>2, <1>3, <1>4, <1>5, <1>6, <1>7, <1>8, <1>9 DEF Next, Inv

(* The rows and the history of tenures agree in every reachable state. *)
THEOREM Invariance == Spec => []Inv
  BY InvInit, InvNext, PTL DEF Spec

-----------------------------------------------------------------------------
(* Whatever calls raced, a successor that can read its checkpoint reads    *)
(* the true exit, holder and last stored state of the tenures before it.   *)
THEOREM SuccessorsReadTheTruth == Spec => []ReadsAreTrue
  <1>1. Inv => ReadsAreTrue
    <2> SUFFICES ASSUME Inv, NEW rec \in Issued, ReadCheckpointResult(rec) = OK
                 PROVE  /\ Contract!TruePrevExit(rec.FencingToken, ReadCheckpoint(rec).PrevExit,
                                                 ReadCheckpoint(rec).PrevHolderID)
                        /\ Contract!TrueState(rec.FencingToken, ReadCheckpoint(rec).State)
      BY DEF ReadsAreTrue
    <2>1. rec.WorkID \in DOMAIN records /\ records[rec.WorkID].fencingToken = rec.FencingToken
      BY DEF ReadCheckpointResult, Exists, OK, ErrFenced
    <2> QED BY <2>1 DEF Inv, RowsAreTrue, RowIsTrue, ReadCheckpoint
  <1> QED BY <1>1, Invariance, PTL

(* A released work ID can be acquired at once, and stays so whatever its   *)
(* old holder still sends.                                                 *)
THEOREM ReleaseFreesTheLease == Spec => []HandoffIsImmediate
  <1>1. Inv => HandoffIsImmediate
    <2> SUFFICES ASSUME Inv, NEW w \in DOMAIN records, records[w].exitMode # ExitNone
                 PROVE  AcquireResult(w) = OK
      BY DEF HandoffIsImmediate
    <2>1. records[w].expiresAt < now /\ records[w].expiresAt \in Int /\ now \in Int
      BY DEF Inv, ExitedIsExpired, TypeOK, record
    <2> QED BY <2>1 DEF AcquireResult
  <1> QED BY <1>1, Invariance, PTL

(* Neither a declared exit nor the state stored before it is ever changed. *)
THEOREM DeclaredExitIsFinal == Spec => ExitIsFinal
  <1>1. ASSUME Inv, [Next]_vars, NEW t \in DOMAIN ledger, ledger[t].exit # ExitNone
        PROVE  ledger'[t].exit = ledger[t].exit /\ ledger'[t].saved = ledger[t].saved
    <2>0. /\ t \in 1 .. seq /\ ledger[t] \in Contract!Tenure /\ seq \in Nat
          /\ seq + 1 \notin DOMAIN ledger
      BY <1>1 DEF Inv, TypeOK
    <2>1. CASE AcquireCall
      BY <2>0, <2>1 DEF AcquireCall, Acquire, nextToken, vars
    <2>2. CASE CheckpointCall
      <3> PICK rec \in Issued, s \in States \union {NoState}, ttl \in TTLs, rd \in Readings :
               Checkpoint(rec, s, ttl, rd)
        BY <2>2 DEF CheckpointCall
      <3>1. CheckpointResult(rec) = OK => rec.FencingToken # t
        BY <1>1, ResultsOK, HolderTenure
      <3> QED BY <3>1 DEF Checkpoint, vars
    <2>3. CASE RenewCall
      BY <2>3 DEF RenewCall, Renew, vars
    <2>4. CASE ReleaseCall
      <3> PICK rec \in Issued, mode \in ExitModes, rd \in Readings : Release(rec, mode, rd)
        BY <2>4 DEF ReleaseCall
      <3>1. ReleaseResult(rec, mode) = OK => records[rec.WorkID].exitMode = ExitNone
        <4> SUFFICES ASSUME ReleaseResult(rec, mode) = OK
                     PROVE  records[rec.WorkID].exitMode = ExitNone
          OBVIOUS
        <4>1. rec.WorkID \in DOMAIN records /\ now < records[rec.WorkID].expiresAt
          BY ResultsOK
        <4>2. now \in Int /\ records[rec.WorkID].expiresAt \in Int
          BY <1>1, <4>1 DEF Inv, TypeOK, record
        <4> QED BY <1>1, <4>1, <4>2 DEF Inv, ExitedIsExpired
      <3>2. ReleaseResult(rec, mode) = OK => rec.FencingToken # t
        BY <1>1, <3>1, ResultsOK, HolderTenure
      <3> QED BY <3>2 DEF Release, vars
    <2>5. CASE ForgetCall \/ SweepCall
      <3>1. \A W : Delete(W) => ledger'[t].exit = ledger[t].exit /\ ledger'[t].saved = ledger[t].saved
        BY <2>0 DEF Delete, Contract!Tenure
      <3> QED BY <2>5, <3>1 DEF ForgetCall, Forget, SweepCall, Sweep, vars
    <2>6. CASE DoneContextCall \/ Tick \/ UNCHANGED vars
      BY <2>6 DEF DoneContextCall, Tick, vars
    <2> QED BY <1>1, <2>1, <2>2, <2>3, <2>4, <2>5, <2>6 DEF Next
  <1>2. Inv /\ [Next]_vars =>
          [\A t \in DOMAIN ledger : ledger[t].exit # ExitNone =>
               /\ ledger'[t].exit = ledger[t].exit
               /\ ledger'[t].saved = ledger[t].saved]_vars
    BY <1>1
  <1> QED BY <1>2, Invariance, PTL DEF Spec, ExitIsFinal

(* A record that is fenced once is fenced for good, also when its row is   *)
(* deleted and the work ID is acquired afresh.                             *)
THEOREM FencingIsForever == Spec => FencedForever
  <1>1. ASSUME Inv, [Next]_vars, NEW rec \in Issued, Fenced(rec)
        PROVE  Fenced(rec)'
    <2>0. rec.FencingToken \in 1 .. seq /\ seq \in Nat
      BY <1>1, IssuedRecords DEF Inv, TypeOK
    <2>1. CASE AcquireCall
      <3> PICK w \in WorkIDs, h \in HolderIDs, ttl \in TTLs, rd \in Readings :
               Acquire(w, h, ttl, rd)
        BY <2>1 DEF AcquireCall
      <3>1. CASE AcquireResult(w) = OK
        <4>1. NewRecord(w, h, ttl, rd).fencingToken # rec.FencingToken
          BY <2>0 DEF NewRecord, nextToken
        <4> QED BY <1>1, <3>1, <4>1 DEF Acquire, Fenced, Exists, heldBy
      <3>2. CASE AcquireResult(w) # OK
        BY <1>1, <3>2 DEF Acquire, Fenced, Exists, heldBy, vars
      <3> QED BY <3>1, <3>2
    <2>2. ASSUME DOMAIN records' \subseteq DOMAIN records,
                 \A w \in DOMAIN records' : /\ records'[w].holderID = records[w].holderID
                                            /\ records'[w].fencingToken = records[w].fencingToken
          PROVE  Fenced(rec)'
      BY <1>1, <2>2 DEF Fenced, Exists, heldBy
    <2>3. \A w \in DOMAIN records : records[w] \in record
      BY <1>1 DEF Inv, TypeOK
    <2>4. CASE CheckpointCall
      <3> PICK q \in Issued, s \in States \union {NoState}, ttl \in TTLs, rd \in Readings : Checkpoint(q, s, ttl, rd)
        BY <2>4 DEF CheckpointCall
      <3>1. CASE CheckpointResult(q) = OK
        <4>1. DOMAIN records' = DOMAIN records
          BY <3>1 DEF Checkpoint
        <4>2. \A w \in DOMAIN records : /\ records'[w].holderID = records[w].holderID
                                        /\ records'[w].fencingToken = records[w].fencingToken
          <5> TAKE w \in DOMAIN records
          <5>1. \/ records'[w] = records[w]
                \/ records'[w] = [records[w] EXCEPT !.checkpoint = s, !.expiresAt = rd[1] + ttl, !.updatedAt = rd[2]]
            BY <3>1 DEF Checkpoint
          <5>2. records[w] \in record
            BY <2>3
          <5> QED BY <5>1, <5>2 DEF record
        <4> QED BY <2>2, <4>1, <4>2
      <3>2. CASE CheckpointResult(q) # OK
        BY <2>2, <3>2 DEF Checkpoint, vars
      <3> QED BY <3>1, <3>2
    <2>5. CASE RenewCall
      <3> PICK q \in Issued, ttl \in TTLs, rd \in Readings : Renew(q, ttl, rd)
        BY <2>5 DEF RenewCall
      <3>1. CASE RenewResult(q) = OK
        <4>1. DOMAIN records' = DOMAIN records
          BY <3>1 DEF Renew
        <4>2. \A w \in DOMAIN records : /\ records'[w].holderID = records[w].holderID
                                        /\ records'[w].fencingToken = records[w].fencingToken
          <5> TAKE w \in DOMAIN records
          <5>1. \/ records'[w] = records[w]
                \/ records'[w] = [records[w] EXCEPT !.expiresAt = rd[1] + ttl, !.updatedAt = rd[2]]
            BY <3>1 DEF Renew
          <5>2. records[w] \in record
            BY <2>3
          <5> QED BY <5>1, <5>2 DEF record
        <4> QED BY <2>2, <4>1, <4>2
      <3>2. CASE RenewResult(q) # OK
        BY <2>2, <3>2 DEF Renew, vars
      <3> QED BY <3>1, <3>2
    <2>6. CASE ReleaseCall
      <3> PICK q \in Issued, mode \in ExitModes, rd \in Readings : Release(q, mode, rd)
        BY <2>6 DEF ReleaseCall
      <3>1. CASE ReleaseResult(q, mode) = OK
        <4>1. DOMAIN records' = DOMAIN records
          BY <3>1 DEF Release
        <4>2. \A w \in DOMAIN records : /\ records'[w].holderID = records[w].holderID
                                        /\ records'[w].fencingToken = records[w].fencingToken
          <5> TAKE w \in DOMAIN records
          <5>1. \/ records'[w] = records[w]
                \/ records'[w] = [records[w] EXCEPT !.exitMode = mode, !.expiresAt = rd[1] - Grace, !.updatedAt = rd[2]]
            BY <3>1 DEF Release
          <5>2. records[w] \in record
            BY <2>3
          <5> QED BY <5>1, <5>2 DEF record
        <4> QED BY <2>2, <4>1, <4>2
      <3>2. CASE ReleaseResult(q, mode) # OK
        BY <2>2, <3>2 DEF Release, vars
      <3> QED BY <3>1, <3>2
    <2>7. CASE ForgetCall \/ SweepCall
      BY <2>2, <2>7 DEF ForgetCall, SweepCall, Forget, Sweep, Delete, vars
    <2>8. CASE DoneContextCall \/ Tick \/ UNCHANGED vars
      BY <2>2, <2>8 DEF DoneContextCall, Tick, vars
    <2> QED BY <1>1, <2>1, <2>4, <2>5, <2>6, <2>7, <2>8 DEF Next
  <1>2. Inv /\ [Next]_vars => [\A rec \in Issued : Fenced(rec) => Fenced(rec)']_vars
    BY <1>1
  <1> QED BY <1>2, Invariance, PTL DEF Spec, FencedForever

(* The memory backend implements the contract of package backend. *)
THEOREM MemoryImplementsContract == Spec => ImplementsContract
  <1>1. New => Contract!Init
    BY DEF New
  <1>2. ASSUME Inv, [Next]_vars
        PROVE  [Contract!Next]_ledger
    <2>1. CASE AcquireCall
      <3> PICK w \in WorkIDs, h \in HolderIDs, ttl \in TTLs, rd \in Readings :
               Acquire(w, h, ttl, rd)
        BY <2>1 DEF AcquireCall
      <3>1. CASE AcquireResult(w) = OK
        <4>1. seq + 1 \in 1 .. MaxSeq /\ \A u \in DOMAIN ledger : u < seq + 1
          BY <1>2, <3>1 DEF Inv, TypeOK, Acquire
        <4>2. Contract!Grant(seq + 1, w, h)
          BY <3>1, <4>1 DEF Acquire, nextToken, Contract!Grant, Contract!Tokens
        <4> QED BY <4>1, <4>2 DEF Contract!Next
      <3>2. CASE AcquireResult(w) # OK
        BY <3>2 DEF Acquire, vars
      <3> QED BY <3>1, <3>2
    <2>2. CASE CheckpointCall
      <3> PICK rec \in Issued, s \in States \union {NoState}, ttl \in TTLs, rd \in Readings :
               Checkpoint(rec, s, ttl, rd)
        BY <2>2 DEF CheckpointCall
      <3>1. CASE CheckpointResult(rec) = OK
        <4>1. rec.FencingToken \in DOMAIN ledger /\ Contract!Open(rec.FencingToken)
          BY <1>2, <3>1, ResultsOK, HolderTenure, ExitModesDistinct DEF Contract!Open
        <4>2. Contract!Save(rec.FencingToken, s)
          BY <3>1, <4>1 DEF Checkpoint, Contract!Save
        <4> QED BY <4>1, <4>2 DEF Contract!Next, Contract!Tokens
      <3>2. CASE CheckpointResult(rec) # OK
        BY <3>2 DEF Checkpoint, vars
      <3> QED BY <3>1, <3>2
    <2>3. CASE RenewCall
      BY <2>3 DEF RenewCall, Renew, vars
    <2>4. CASE ReleaseCall
      <3> PICK rec \in Issued, mode \in ExitModes, rd \in Readings : Release(rec, mode, rd)
        BY <2>4 DEF ReleaseCall
      <3>1. CASE ReleaseResult(rec, mode) = OK
        <4>1. /\ rec.WorkID \in DOMAIN records /\ now < records[rec.WorkID].expiresAt
              /\ records[rec.WorkID].fencingToken = rec.FencingToken /\ mode \in DeclarableExits
          BY <3>1, ResultsOK
        <4>2. now \in Int /\ records[rec.WorkID].expiresAt \in Int
          BY <1>2, <4>1 DEF Inv, TypeOK, record
        <4>3. records[rec.WorkID].exitMode = ExitNone
          BY <1>2, <4>1, <4>2 DEF Inv, ExitedIsExpired
        <4>4. rec.FencingToken \in DOMAIN ledger /\ Contract!Open(rec.FencingToken)
          BY <1>2, <4>1, <4>3, HolderTenure, ExitModesDistinct DEF Contract!Open
        <4>5. Contract!Declare(rec.FencingToken, mode)
          BY <3>1, <4>4 DEF Release, Contract!Declare
        <4> QED BY <4>1, <4>4, <4>5, ExitModesDistinct DEF Contract!Next, Contract!Tokens
      <3>2. CASE ReleaseResult(rec, mode) # OK
        BY <3>2 DEF Release, vars
      <3> QED BY <3>1, <3>2
    <2>5. ASSUME NEW W, Delete(W) PROVE Contract!Next
      <3> DEFINE T == {t \in DOMAIN ledger : \E w \in W : w \in DOMAIN records /\ records[w].fencingToken = t}
      <3>1. T \in SUBSET {t \in Contract!Tokens : Contract!Current(t)}
        BY <1>2 DEF Inv, RowsMatch, RowMatches, Contract!Tokens
      <3>2. Contract!Erase(T)
        BY <2>5 DEF Delete, Contract!Erase, Contract!Tokens
      <3> HIDE DEF T
      <3> QED BY <3>1, <3>2 DEF Contract!Next
    <2>6. CASE ForgetCall \/ SweepCall
      BY <2>5, <2>6 DEF ForgetCall, SweepCall, Forget, Sweep, vars
    <2>7. CASE DoneContextCall \/ Tick \/ UNCHANGED vars
      BY <2>7 DEF DoneContextCall, Tick, vars
    <2> QED BY <1>2, <2>1, <2>2, <2>3, <2>4, <2>6, <2>7 DEF Next
  <1> QED BY <1>1, <1>2, Invariance, PTL DEF Spec, ImplementsContract, Contract!Spec
=============================================================================
