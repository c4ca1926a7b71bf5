------------------------ MODULE PostgresBackendProofs ------------------------
(***************************************************************************)
(* Proofs about PostgresBackend, for any connections, work IDs, holders,   *)
(* states, durations, delays and bounds.  What depends on how late a       *)
(* statement may write is stated under that condition.                     *)
(***************************************************************************)
EXTENDS PostgresBackend, FiniteSetTheorems, SequenceTheorems, TLAPS

USE PostgresAssumption, NamesAssumption

-----------------------------------------------------------------------------
(* The first inductive invariant: what each connection is doing, and the   *)
(* tokens.  A token stands for one grant, and a drawn token for none yet,  *)
(* which is what makes a record name its tenure.                           *)

HolderOps == {"checkpoint", "renew", "release", "forget"}

AcquireStatement == [st : {"begun", "drawn"}, op : {"acquire"}, at : Nat,
                     rec : LeaseRecord, arg : {NoState}]

(* What connection c may be doing: a statement writes at most MaxDelay     *)
(* after its NOW(), and a holder's statement carries a record once issued. *)
ConnOK(c) ==
    LET q == conn[c]
    IN  /\ q.st \in {"begun", "drawn"} =>
              q.at \in Nat /\ q.at <= now /\ now - q.at <= MaxDelay
        /\ q.st = "drawn" \/ (q.st = "begun" /\ q.op = "acquire") => q \in AcquireStatement
        /\ q.st = "begun" /\ q.op \in HolderOps => q.rec \in Issued
        /\ q.st = "begun" /\ q.op = "checkpoint" => q.arg \in States \union {NoState}
        /\ q.st = "begun" /\ q.op = "release" => q.arg \in DeclarableExits
        /\ q.st \in {"classify", "done"} => q.rec \in Issued

ConnsOK == DOMAIN conn = Conns /\ \A c \in Conns : ConnOK(c)

TokensDiffer ==
    /\ \A i \in DOMAIN grants : grants[i].token \in 1 .. seq
    /\ \A i, j \in DOMAIN grants : grants[i].token = grants[j].token => i = j

DrawnAreFresh ==
    /\ \A c \in Conns : conn[c].st = "drawn" =>
          /\ conn[c].rec.FencingToken \in 1 .. seq
          /\ \A i \in DOMAIN grants : grants[i].token # conn[c].rec.FencingToken
    /\ \A c, d \in Conns :
          /\ conn[c].st = "drawn" /\ conn[d].st = "drawn"
          /\ conn[c].rec.FencingToken = conn[d].rec.FencingToken
          => c = d

TypeInv == TypeOK /\ ConnsOK /\ TokensDiffer /\ DrawnAreFresh

-----------------------------------------------------------------------------
(* The second one: the rows and the grants agree, a work ID without a row  *)
(* has only deleted tenures at its end, each row tells the truth about the *)
(* tenures before it, and an answer already given stays true.              *)

Written(w, i) ==
    /\ grants[i].work = w
    /\ grants[i].token = rows[w].fencing_token
    /\ grants[i].holder = rows[w].holder_id
    /\ grants[i].exit = rows[w].exit_mode

RowOK(w, i) ==
    /\ Written(w, i)
    /\ Contract!Current(i)
    /\ Contract!TruePrevExit(i, exitModeFromSQL(rows[w].prev_exit_mode), rows[w].prev_holder_id)
    /\ Contract!TrueState(i, rows[w].checkpoint)

RowsOK == \A w \in DOMAIN rows : \E i \in DOMAIN grants : RowOK(w, i)

GoneIsErased ==
    \A i \in DOMAIN grants :
        grants[i].work \notin DOMAIN rows =>
            \E j \in DOMAIN grants : j >= i /\ grants[j].work = grants[i].work /\ grants[j].erased

(* What the caller on connection c was told, or is about to be told. *)
AnswerOK(c) ==
    \A rec \in Issued :
        /\ conn[c].st = "done" /\ conn[c].rec = rec /\ conn[c].err = ErrFenced => ~Matches(rec)
        /\ conn[c].st = "done" /\ conn[c].rec = rec /\ conn[c].err = ErrLeaseExpired =>
              grants[IndexOf(rec)].exit # ExitNone
        /\ conn[c].st = "classify" /\ conn[c].rec = rec /\ conn[c].op = "checkpoint" =>
              ~Matches(rec) \/ grants[IndexOf(rec)].exit # ExitNone

AnswersOK == \A c \in Conns : AnswerOK(c)

(* A client's window never ends later than TTL from now. *)
PromisesOK == \A i \in DOMAIN grants : grants[i].promised <= now * Unit + TTL

Inv == TypeInv /\ RowsOK /\ GoneIsErased /\ AnswersOK /\ PromisesOK /\ ShortfallIsBounded

(* A declared exit leaves the row expired by the grace interval. *)
ExitedIsExpired ==
    \A w \in DOMAIN rows : rows[w].exit_mode # ExitNone => rows[w].expires_at <= now - Grace

-----------------------------------------------------------------------------
(* Facts about the definitions.                                            *)

(* The exit modes are distinct strings, in this module and in the contract. *)
LEMMA ExitModesDistinct ==
    /\ ExitNone \in StoredExits /\ DeclarableExits \subseteq StoredExits
    /\ StoredExits \subseteq ExitModes
    /\ ExitNone \notin DeclarableExits
    /\ \A e \in StoredExits : CapturedExit(e) \in ExitModes
    /\ Contract!ExitNone = ExitNone /\ Contract!StoredExits = StoredExits
    /\ Contract!DeclarableExits = DeclarableExits
    /\ \A e : Contract!CapturedExit(e) = CapturedExit(e)
    /\ \A e \in ExitModes : exitModeFromSQL(e) = e
  BY DEF ExitNone, ExitFinished, ExitAbandoned, ExitRetired, ExitExpired, ExitModes,
         DeclarableExits, StoredExits, CapturedExit, Contract!ExitNone,
         Contract!ExitFinished, Contract!ExitAbandoned, Contract!ExitRetired,
         Contract!ExitExpired, Contract!StoredExits, Contract!DeclarableExits,
         Contract!CapturedExit, exitModeFromSQL

(* The results of a method are distinct strings. *)
LEMMA ResultsDistinct ==
    /\ ErrFenced # ErrLeaseExpired /\ OK # ErrFenced /\ OK # ErrLeaseExpired
    /\ ErrLeaseHeld # ErrFenced /\ ErrLeaseHeld # ErrLeaseExpired
    /\ ErrInvalidExitMode # ErrFenced /\ ErrInvalidExitMode # ErrLeaseExpired
  BY DEF OK, ErrFenced, ErrLeaseExpired, ErrLeaseHeld, ErrInvalidExitMode

(* Rounding up loses nothing: the interval sent to the server is at least the duration. *)
LEMMA IntervalCovers ==
    /\ formatInterval(TTL) \in Nat
    /\ formatInterval(TTL) * Unit >= TTL
  <1>1. PICK d \in Nat, u \in Nat \ {0} : d = TTL + Unit - 1 /\ u = Unit
    OBVIOUS
  <1>2. d \div u \in Nat /\ d = u * (d \div u) + (d % u) /\ d % u \in 0 .. u - 1
    OBVIOUS
  <1> QED BY <1>1, <1>2 DEF formatInterval

(* The grants are a function on 1 .. Len(grants). *)
LEMMA GrantsTyped ==
    ASSUME TypeOK
    PROVE  /\ Len(grants) \in Nat /\ DOMAIN grants = 1 .. Len(grants)
           /\ \A i \in DOMAIN grants : i \in Nat /\ grants[i] \in Grant
  <1>1. grants \in Seq(Grant)
    BY DEF TypeOK
  <1>2. Len(grants) \in Nat /\ grants \in [1 .. Len(grants) -> Grant]
    BY <1>1, LenProperties
  <1> QED BY <1>2

(* A token identifies a grant, so a record names one tenure. *)
LEMMA IndexIsUnique ==
    ASSUME TypeOK, TokensDiffer, NEW rec, NEW i \in DOMAIN grants,
           grants[i].work = rec.WorkID, grants[i].token = rec.FencingToken
    PROVE  IndexOf(rec) = i
  <1> DEFINE P(k) == /\ grants[k].work = rec.WorkID /\ grants[k].token = rec.FencingToken
                     /\ \A j \in DOMAIN grants :
                           grants[j].work = rec.WorkID /\ grants[j].token = rec.FencingToken => j <= k
  <1>1. i \in Nat
    BY GrantsTyped
  <1>2. \A j \in DOMAIN grants : grants[j].token = rec.FencingToken => j = i
    BY DEF TokensDiffer
  <1>3. P(i)
    BY <1>1, <1>2
  <1>4. \A k \in DOMAIN grants : P(k) => k = i
    BY <1>2
  <1>5. IndexOf(rec) = CHOOSE k \in DOMAIN grants : P(k)
    BY DEF IndexOf
  <1> HIDE DEF P
  <1> QED BY <1>3, <1>4, <1>5

(* The same in the state after a step. *)
LEMMA IndexIsUniqueNext ==
    ASSUME TypeOK', TokensDiffer', NEW rec, NEW i \in DOMAIN grants',
           grants'[i].work = rec.WorkID, grants'[i].token = rec.FencingToken
    PROVE  IndexOf(rec)' = i
  <1> DEFINE P(k) == /\ grants'[k].work = rec.WorkID /\ grants'[k].token = rec.FencingToken
                     /\ \A j \in DOMAIN grants' :
                           grants'[j].work = rec.WorkID /\ grants'[j].token = rec.FencingToken => j <= k
  <1>1. i \in Nat
    <2>1. grants' \in Seq(Grant)
      BY DEF TypeOK
    <2>2. Len(grants') \in Nat /\ DOMAIN grants' = 1 .. Len(grants')
      BY <2>1, LenProperties
    <2> QED BY <2>2
  <1>2. \A j \in DOMAIN grants' : grants'[j].token = rec.FencingToken => j = i
    BY DEF TokensDiffer
  <1>3. P(i)
    BY <1>1, <1>2
  <1>4. \A k \in DOMAIN grants' : P(k) => k = i
    BY <1>2
  <1>5. IndexOf(rec)' = CHOOSE k \in DOMAIN grants' : P(k)
    BY DEF IndexOf
  <1> HIDE DEF P
  <1> QED BY <1>3, <1>4, <1>5

(* A record that was issued names a grant that agrees with it. *)
LEMMA IssuedRecords ==
    ASSUME TypeOK, TokensDiffer, NEW rec \in Issued
    PROVE  /\ IndexOf(rec) \in DOMAIN grants
           /\ grants[IndexOf(rec)].work = rec.WorkID
           /\ grants[IndexOf(rec)].holder = rec.HolderID
           /\ grants[IndexOf(rec)].token = rec.FencingToken
           /\ rec.WorkID \in WorkIDs /\ rec.HolderID \in HolderIDs
  <1>1. PICK i \in DOMAIN grants :
           rec = [WorkID |-> grants[i].work, HolderID |-> grants[i].holder,
                  FencingToken |-> grants[i].token]
    BY DEF Issued
  <1>2. /\ rec.WorkID = grants[i].work /\ rec.HolderID = grants[i].holder
        /\ rec.FencingToken = grants[i].token
    BY <1>1
  <1>3. IndexOf(rec) = i
    BY <1>2, IndexIsUnique
  <1>4. grants[i] \in Grant
    BY GrantsTyped
  <1> QED BY <1>2, <1>3, <1>4 DEF Grant

(* A step that keeps who was granted what keeps every record a caller holds. *)
GrantsKept ==
    /\ DOMAIN grants \subseteq DOMAIN grants'
    /\ \A i \in DOMAIN grants : /\ grants'[i].work = grants[i].work
                                /\ grants'[i].holder = grants[i].holder
                                /\ grants'[i].token = grants[i].token

(* Records stay issued. *)
LEMMA IssuedKept ==
    ASSUME GrantsKept
    PROVE  Issued \subseteq Issued'
  BY DEF GrantsKept, Issued

(* What a method that returns leaves on its connection. *)
LEMMA DoneEffect ==
    ASSUME DOMAIN conn = Conns, NEW c \in Conns, NEW op, NEW rec, NEW err, Done(c, op, rec, err)
    PROVE  /\ DOMAIN conn' = Conns
           /\ \A d \in Conns : d # c => conn'[d] = conn[d]
           /\ \/ conn'[c] = Idle
              \/ /\ conn'[c] = [st |-> "done", rec |-> rec, err |-> err]
                 /\ err = ErrFenced \/ (err = ErrLeaseExpired /\ op = "checkpoint")
           /\ err \in {OK, ErrLeaseHeld, ErrInvalidExitMode} => conn'[c] = Idle
  BY ResultsDistinct DEF Done

(* A connection that the step leaves alone stays well typed. *)
LEMMA ConnKept ==
    ASSUME NEW d \in Conns, ConnOK(d), conn'[d] = conn[d], now' = now, GrantsKept
    PROVE  ConnOK(d)'
  BY IssuedKept DEF ConnOK

(* An idle connection is well typed. *)
LEMMA ConnIdle ==
    ASSUME NEW d \in Conns, conn'[d] = Idle
    PROVE  ConnOK(d)' /\ conn'[d].st = "idle"
  BY DEF ConnOK, Idle

-----------------------------------------------------------------------------
(* The effect of each statement that writes.                               *)

(* Only the row of w and the grant i it belongs to change, and neither its *)
(* owner nor what it says of its predecessor.                              *)
RowWritten(w, i) ==
    /\ w \in DOMAIN rows /\ i \in DOMAIN grants
    /\ grants[i].work = w /\ grants[i].token = rows[w].fencing_token
    /\ grants[i].holder = rows[w].holder_id
    /\ DOMAIN rows' = DOMAIN rows /\ rows' \in [DOMAIN rows' -> Row]
    /\ \A x \in DOMAIN rows : x # w => rows'[x] = rows[x]
    /\ rows'[w].holder_id = rows[w].holder_id
    /\ rows'[w].fencing_token = rows[w].fencing_token
    /\ rows'[w].prev_exit_mode = rows[w].prev_exit_mode
    /\ rows'[w].prev_holder_id = rows[w].prev_holder_id
    /\ grants' \in Seq(Grant) /\ DOMAIN grants' = DOMAIN grants
    /\ \A j \in DOMAIN grants : j # i => grants'[j] = grants[j]
    /\ grants'[i].work = grants[i].work /\ grants'[i].holder = grants[i].holder
    /\ grants'[i].token = grants[i].token /\ grants'[i].erased = grants[i].erased

(* A write keeps who was granted what. *)
LEMMA RowWrittenKeeps ==
    ASSUME NEW w, NEW i, RowWritten(w, i)
    PROVE  GrantsKept
  BY DEF RowWritten, GrantsKept

(* The row and the grant that a holder's statement acts on. *)
LEMMA HolderEffect ==
    ASSUME TypeInv, NEW c \in Conns, NEW op \in HolderOps, Updates(c, op)
    PROVE  /\ conn[c].st = "begun" /\ conn[c].op = op /\ conn[c].rec \in Issued
           /\ conn[c].at \in Nat /\ conn[c].at <= now /\ now - conn[c].at <= MaxDelay
           /\ Matches(conn[c].rec) /\ Where(conn[c])
           /\ DOMAIN conn' = Conns /\ conn'[c] = Idle
           /\ \A d \in Conns : d # c => conn'[d] = conn[d]
           /\ seq' = seq /\ now' = now
           /\ \E w \in DOMAIN rows, i \in DOMAIN grants :
                 /\ w = conn[c].rec.WorkID /\ i = IndexOf(conn[c].rec)
                 /\ rows[w] \in Row /\ grants[i] \in Grant /\ grants[i].work = w
                 /\ grants[i].token = rows[w].fencing_token
                 /\ grants[i].holder = rows[w].holder_id
  <1>1. /\ conn[c].st = "begun" /\ conn[c].op = op /\ Where(conn[c])
        /\ seq' = seq /\ now' = now /\ Done(c, op, conn[c].rec, OK)
    BY DEF Updates
  <1>2. ConnOK(c) /\ DOMAIN conn = Conns
    BY DEF TypeInv, ConnsOK
  <1>3. /\ conn[c].rec \in Issued
        /\ conn[c].at \in Nat /\ conn[c].at <= now /\ now - conn[c].at <= MaxDelay
    BY <1>1, <1>2 DEF ConnOK
  <1>4. Matches(conn[c].rec)
    BY <1>1 DEF Where, queryCheckpoint, queryRenew, queryRelease, queryForget
  <1>5. PICK i : i = IndexOf(conn[c].rec)
    OBVIOUS
  <1>6. /\ i \in DOMAIN grants /\ grants[i].work = conn[c].rec.WorkID
        /\ grants[i].holder = conn[c].rec.HolderID
        /\ grants[i].token = conn[c].rec.FencingToken
    BY <1>3, <1>5, IssuedRecords DEF TypeInv
  <1>7. /\ conn[c].rec.WorkID \in DOMAIN rows
        /\ rows[conn[c].rec.WorkID].fencing_token = conn[c].rec.FencingToken
        /\ rows[conn[c].rec.WorkID].holder_id = conn[c].rec.HolderID
    BY <1>4 DEF Matches, Exists
  <1>8. rows[conn[c].rec.WorkID] \in Row /\ grants[i] \in Grant
    BY <1>6, <1>7, GrantsTyped DEF TypeInv, TypeOK
  <1>9. /\ DOMAIN conn' = Conns /\ conn'[c] = Idle
        /\ \A d \in Conns : d # c => conn'[d] = conn[d]
    BY <1>1, <1>2, DoneEffect
  <1> QED BY <1>1, <1>3, <1>4, <1>5, <1>6, <1>7, <1>8, <1>9

(* Changing one grant keeps the sequence of grants. *)
LEMMA GrantWritten ==
    ASSUME TypeOK, NEW i \in DOMAIN grants, NEW g \in Grant, grants' = [grants EXCEPT ![i] = g]
    PROVE  /\ grants' \in Seq(Grant) /\ DOMAIN grants' = DOMAIN grants
           /\ grants'[i] = g /\ \A j \in DOMAIN grants : j # i => grants'[j] = grants[j]
  <1>1. grants \in Seq(Grant) /\ i \in 1 .. Len(grants)
    BY GrantsTyped DEF TypeOK
  <1>2. grants' \in Seq(Grant)
    BY <1>1, ExceptSeq
  <1> QED BY <1>2

(* Changing fields of a row keeps its type and its other fields. *)
LEMMA RowUpdates ==
    ASSUME NEW r \in Row, NEW s \in States \union {NoState}, NEW mode \in StoredExits,
           NEW e \in Int, NEW u \in Int
    PROVE  /\ [r EXCEPT !.checkpoint = s, !.expires_at = e, !.updated_at = u] \in Row
           /\ [r EXCEPT !.expires_at = e, !.updated_at = u] \in Row
           /\ [r EXCEPT !.exit_mode = mode, !.expires_at = e, !.updated_at = u] \in Row
  BY DEF Row

(* A Checkpoint that writes stores its state, in a row without a declared exit. *)
LEMMA CheckpointEffect ==
    ASSUME TypeInv, NEW c \in Conns, CheckpointWrites(c)
    PROVE  \E w, i :
              /\ RowWritten(w, i) /\ i = IndexOf(conn[c].rec)
              /\ conn[c].arg \in States \union {NoState}
              /\ rows[w].exit_mode = ExitNone /\ rows'[w].exit_mode = ExitNone
              /\ rows'[w].checkpoint = conn[c].arg
              /\ rows'[w].expires_at = conn[c].at + formatInterval(TTL)
              /\ grants'[i].saved = {conn[c].arg} /\ grants'[i].exit = grants[i].exit
              /\ grants'[i].promised = grants[i].promised
  <1>1. Updates(c, "checkpoint") /\ "checkpoint" \in HolderOps
    BY DEF CheckpointWrites, HolderOps
  <1>2. /\ conn[c].st = "begun" /\ conn[c].op = "checkpoint" /\ Where(conn[c])
        /\ conn[c].at \in Nat
    BY <1>1, HolderEffect
  <1>3. PICK w \in DOMAIN rows, i \in DOMAIN grants :
           /\ w = conn[c].rec.WorkID /\ i = IndexOf(conn[c].rec)
           /\ rows[w] \in Row /\ grants[i] \in Grant /\ grants[i].work = w
           /\ grants[i].token = rows[w].fencing_token
           /\ grants[i].holder = rows[w].holder_id
    BY <1>1, HolderEffect
  <1>4. conn[c].arg \in States \union {NoState}
    BY <1>2 DEF TypeInv, ConnsOK, ConnOK
  <1>5. rows[w].exit_mode = ExitNone
    BY <1>2, <1>3 DEF Where, queryCheckpoint
  <1>6. PICK r : r = [rows[w] EXCEPT !.checkpoint = conn[c].arg,
                            !.expires_at = conn[c].at + formatInterval(TTL), !.updated_at = conn[c].at]
    OBVIOUS
  <1>7. /\ r \in Row /\ r.exit_mode = ExitNone /\ r.checkpoint = conn[c].arg
        /\ r.expires_at = conn[c].at + formatInterval(TTL)
        /\ r.holder_id = rows[w].holder_id /\ r.fencing_token = rows[w].fencing_token
        /\ r.prev_exit_mode = rows[w].prev_exit_mode /\ r.prev_holder_id = rows[w].prev_holder_id
    <2>1. conn[c].at + formatInterval(TTL) \in Int /\ conn[c].at \in Int
      BY <1>2, IntervalCovers
    <2>2. r \in Row
      BY <1>3, <1>4, <1>6, <2>1, RowUpdates, ExitModesDistinct
    <2> QED BY <1>3, <1>5, <1>6, <2>2 DEF Row
  <1>8. /\ DOMAIN rows' = DOMAIN rows /\ rows'[w] = r
        /\ \A x \in DOMAIN rows : x # w => rows'[x] = rows[x]
        /\ rows' \in [DOMAIN rows' -> Row]
    <2>1. rows' = [rows EXCEPT ![w] = r]
      BY <1>3, <1>6 DEF CheckpointWrites
    <2> QED BY <1>3, <1>7, <2>1 DEF TypeInv, TypeOK
  <1>9. PICK g : g = [grants[i] EXCEPT !.saved = {conn[c].arg}]
    OBVIOUS
  <1>10. /\ g \in Grant /\ g.saved = {conn[c].arg} /\ g.exit = grants[i].exit
         /\ g.promised = grants[i].promised /\ g.work = grants[i].work
         /\ g.holder = grants[i].holder /\ g.token = grants[i].token /\ g.erased = grants[i].erased
    BY <1>3, <1>4, <1>9 DEF Grant
  <1>11. grants' = [grants EXCEPT ![i] = g]
    BY <1>3, <1>9 DEF CheckpointWrites
  <1>12. /\ grants' \in Seq(Grant) /\ DOMAIN grants' = DOMAIN grants
         /\ grants'[i] = g /\ \A j \in DOMAIN grants : j # i => grants'[j] = grants[j]
    BY <1>10, <1>11, GrantWritten DEF TypeInv
  <1>13. RowWritten(w, i)
    BY <1>3, <1>7, <1>8, <1>10, <1>12 DEF RowWritten
  <1> QED BY <1>3, <1>4, <1>5, <1>7, <1>8, <1>10, <1>12, <1>13

(* A Renew that writes moves the expiry of a row that has not expired. *)
LEMMA RenewEffect ==
    ASSUME TypeInv, NEW c \in Conns, RenewWrites(c)
    PROVE  \E w, i :
              /\ RowWritten(w, i)
              /\ rows[w].expires_at > conn[c].at
              /\ rows'[w].exit_mode = rows[w].exit_mode
              /\ rows'[w].checkpoint = rows[w].checkpoint
              /\ rows'[w].expires_at = conn[c].at + formatInterval(TTL)
              /\ grants'[i].saved = grants[i].saved /\ grants'[i].exit = grants[i].exit
              /\ grants'[i].promised \in {grants[i].promised, conn[c].at * Unit + TTL}
  <1>1. Updates(c, "renew") /\ "renew" \in HolderOps
    BY DEF RenewWrites, HolderOps
  <1>2. /\ conn[c].st = "begun" /\ conn[c].op = "renew" /\ Where(conn[c])
        /\ conn[c].at \in Nat
    BY <1>1, HolderEffect
  <1>3. PICK w \in DOMAIN rows, i \in DOMAIN grants :
           /\ w = conn[c].rec.WorkID /\ i = IndexOf(conn[c].rec)
           /\ rows[w] \in Row /\ grants[i] \in Grant /\ grants[i].work = w
           /\ grants[i].token = rows[w].fencing_token
           /\ grants[i].holder = rows[w].holder_id
    BY <1>1, HolderEffect
  <1>4. PICK p : /\ p \in {grants[i].promised, conn[c].at * Unit + TTL}
                 /\ grants' = [grants EXCEPT ![i] = [grants[i] EXCEPT !.promised = p]]
    BY <1>3, Zenon DEF RenewWrites
  <1>5. rows[w].expires_at > conn[c].at
    BY <1>2, <1>3 DEF Where, queryRenew
  <1>6. PICK r : r = [rows[w] EXCEPT !.expires_at = conn[c].at + formatInterval(TTL),
                                     !.updated_at = conn[c].at]
    OBVIOUS
  <1>7. /\ r \in Row /\ r.exit_mode = rows[w].exit_mode /\ r.checkpoint = rows[w].checkpoint
        /\ r.expires_at = conn[c].at + formatInterval(TTL)
        /\ r.holder_id = rows[w].holder_id /\ r.fencing_token = rows[w].fencing_token
        /\ r.prev_exit_mode = rows[w].prev_exit_mode /\ r.prev_holder_id = rows[w].prev_holder_id
    <2>1. conn[c].at + formatInterval(TTL) \in Int /\ conn[c].at \in Int
      BY <1>2, IntervalCovers
    <2>2. r \in Row
      BY <1>3, <1>6, <2>1, RowUpdates, ExitModesDistinct
    <2> QED BY <1>3, <1>6, <2>2 DEF Row
  <1>8. /\ DOMAIN rows' = DOMAIN rows /\ rows'[w] = r
        /\ \A x \in DOMAIN rows : x # w => rows'[x] = rows[x]
        /\ rows' \in [DOMAIN rows' -> Row]
    <2>1. rows' = [rows EXCEPT ![w] = r]
      BY <1>3, <1>6 DEF RenewWrites
    <2> QED BY <1>3, <1>7, <2>1 DEF TypeInv, TypeOK
  <1>9. PICK g : g = [grants[i] EXCEPT !.promised = p]
    OBVIOUS
  <1>10. p \in Int
    BY <1>2, <1>3, <1>4 DEF Grant
  <1>11. /\ g \in Grant /\ g.saved = grants[i].saved /\ g.exit = grants[i].exit
         /\ g.promised = p /\ g.work = grants[i].work
         /\ g.holder = grants[i].holder /\ g.token = grants[i].token /\ g.erased = grants[i].erased
    BY <1>3, <1>9, <1>10 DEF Grant
  <1>12. /\ grants' \in Seq(Grant) /\ DOMAIN grants' = DOMAIN grants
         /\ grants'[i] = g /\ \A j \in DOMAIN grants : j # i => grants'[j] = grants[j]
    BY <1>4, <1>9, <1>11, GrantWritten DEF TypeInv
  <1>13. RowWritten(w, i)
    BY <1>3, <1>7, <1>8, <1>11, <1>12 DEF RowWritten
  <1> QED BY <1>3, <1>4, <1>5, <1>7, <1>8, <1>11, <1>12, <1>13

(* A Release that writes declares the exit and leaves the row expired. *)
LEMMA ReleaseEffect ==
    ASSUME TypeInv, NEW c \in Conns, ReleaseWrites(c)
    PROVE  \E w, i :
              /\ RowWritten(w, i) /\ i = IndexOf(conn[c].rec)
              /\ rows[w].expires_at > conn[c].at
              /\ conn[c].arg \in DeclarableExits
              /\ rows'[w].exit_mode = conn[c].arg
              /\ rows'[w].checkpoint = rows[w].checkpoint
              /\ rows'[w].expires_at = conn[c].at - Grace
              /\ grants'[i].saved = grants[i].saved /\ grants'[i].exit = conn[c].arg
              /\ grants'[i].promised = grants[i].promised
  <1>1. Updates(c, "release") /\ "release" \in HolderOps
    BY DEF ReleaseWrites, HolderOps
  <1>2. /\ conn[c].st = "begun" /\ conn[c].op = "release" /\ Where(conn[c])
        /\ conn[c].at \in Nat
    BY <1>1, HolderEffect
  <1>3. PICK w \in DOMAIN rows, i \in DOMAIN grants :
           /\ w = conn[c].rec.WorkID /\ i = IndexOf(conn[c].rec)
           /\ rows[w] \in Row /\ grants[i] \in Grant /\ grants[i].work = w
           /\ grants[i].token = rows[w].fencing_token
           /\ grants[i].holder = rows[w].holder_id
    BY <1>1, HolderEffect
  <1>4. conn[c].arg \in DeclarableExits /\ conn[c].arg \in StoredExits
    BY <1>2, ExitModesDistinct DEF TypeInv, ConnsOK, ConnOK
  <1>5. rows[w].expires_at > conn[c].at
    BY <1>2, <1>3 DEF Where, queryRelease
  <1>6. PICK r : r = [rows[w] EXCEPT !.exit_mode = conn[c].arg, !.expires_at = conn[c].at - Grace,
                                     !.updated_at = conn[c].at]
    OBVIOUS
  <1>7. /\ r \in Row /\ r.exit_mode = conn[c].arg /\ r.checkpoint = rows[w].checkpoint
        /\ r.expires_at = conn[c].at - Grace
        /\ r.holder_id = rows[w].holder_id /\ r.fencing_token = rows[w].fencing_token
        /\ r.prev_exit_mode = rows[w].prev_exit_mode /\ r.prev_holder_id = rows[w].prev_holder_id
    <2>1. conn[c].at - Grace \in Int /\ conn[c].at \in Int
      BY <1>2
    <2>2. r \in Row
      BY <1>3, <1>4, <1>6, <2>1, RowUpdates, ExitModesDistinct
    <2> QED BY <1>3, <1>6, <2>2 DEF Row
  <1>8. /\ DOMAIN rows' = DOMAIN rows /\ rows'[w] = r
        /\ \A x \in DOMAIN rows : x # w => rows'[x] = rows[x]
        /\ rows' \in [DOMAIN rows' -> Row]
    <2>1. rows' = [rows EXCEPT ![w] = r]
      BY <1>3, <1>6 DEF ReleaseWrites
    <2> QED BY <1>3, <1>7, <2>1 DEF TypeInv, TypeOK
  <1>9. PICK g : g = [grants[i] EXCEPT !.exit = conn[c].arg]
    OBVIOUS
  <1>10. /\ g \in Grant /\ g.saved = grants[i].saved /\ g.exit = conn[c].arg
         /\ g.promised = grants[i].promised /\ g.work = grants[i].work
         /\ g.holder = grants[i].holder /\ g.token = grants[i].token /\ g.erased = grants[i].erased
    BY <1>3, <1>4, <1>9 DEF Grant
  <1>11. grants' = [grants EXCEPT ![i] = g]
    BY <1>3, <1>9 DEF ReleaseWrites
  <1>12. /\ grants' \in Seq(Grant) /\ DOMAIN grants' = DOMAIN grants
         /\ grants'[i] = g /\ \A j \in DOMAIN grants : j # i => grants'[j] = grants[j]
    BY <1>10, <1>11, GrantWritten DEF TypeInv
  <1>13. RowWritten(w, i)
    BY <1>3, <1>7, <1>8, <1>10, <1>12 DEF RowWritten
  <1> QED BY <1>3, <1>4, <1>5, <1>7, <1>8, <1>10, <1>12, <1>13

(* A new grant of w to h under the token tok, at index n. *)
Granted(w, h, tok, at, n) ==
    /\ n = Len(grants) + 1 /\ n \in Nat /\ \A i \in DOMAIN grants : i \in Nat /\ i < n
    /\ grants' \in Seq(Grant) /\ DOMAIN grants' = DOMAIN grants \union {n}
    /\ \A i \in DOMAIN grants : grants'[i] = grants[i]
    /\ grants'[n].work = w /\ grants'[n].holder = h /\ grants'[n].exit = ExitNone
    /\ grants'[n].saved = {} /\ grants'[n].erased = FALSE /\ grants'[n].token = tok
    /\ grants'[n].promised = at * Unit + TTL

(* The grant takes over the row if there is one. *)
RowAcquired(w, h, tok, at, n) ==
    /\ w \in WorkIDs /\ h \in HolderIDs /\ at \in Nat /\ at <= now /\ now - at <= MaxDelay
    /\ tok \in 1 .. seq' /\ \A i \in DOMAIN grants : grants[i].token # tok
    /\ DOMAIN rows' = DOMAIN rows \union {w} /\ rows' \in [DOMAIN rows' -> Row]
    /\ \A x \in DOMAIN rows : x # w => rows'[x] = rows[x]
    /\ rows'[w].holder_id = h /\ rows'[w].fencing_token = tok
    /\ rows'[w].expires_at = at + formatInterval(TTL) /\ rows'[w].exit_mode = ExitNone
    /\ w \in DOMAIN rows =>
          /\ rows'[w].checkpoint = rows[w].checkpoint
          /\ rows'[w].prev_exit_mode = CapturedExit(rows[w].exit_mode)
          /\ rows'[w].prev_holder_id = rows[w].holder_id
    /\ w \notin DOMAIN rows =>
          /\ rows'[w].checkpoint = NoState
          /\ rows'[w].prev_exit_mode = ExitNone
          /\ rows'[w].prev_holder_id = NoHolder
    /\ Granted(w, h, tok, at, n)

(* Both forms of queryAcquire that grant the lease. *)
Acquires(c) ==
    \/ AcquireInserts(c)
    \/ AcquireUpdates(c) /\ rows[conn[c].rec.WorkID].expires_at < conn[c].at

(* A grant keeps who was granted what before. *)
LEMMA RowAcquiredKeeps ==
    ASSUME NEW w, NEW h, NEW tok, NEW at, NEW n, RowAcquired(w, h, tok, at, n)
    PROVE  GrantsKept
  BY DEF RowAcquired, Granted, GrantsKept

(* A statement that has drawn its token. *)
LEMMA DrawnStatement ==
    ASSUME TypeInv, NEW c \in Conns, conn[c].st = "drawn" \/ (conn[c].st = "begun" /\ conn[c].op = "acquire")
    PROVE  /\ conn[c] \in AcquireStatement
           /\ conn[c].rec.WorkID \in WorkIDs /\ conn[c].rec.HolderID \in HolderIDs
           /\ conn[c].rec.FencingToken \in Nat
           /\ conn[c].at \in Nat /\ conn[c].at <= now /\ now - conn[c].at <= MaxDelay
           /\ seq \in Nat /\ seq <= MaxSeq /\ now \in Nat
           /\ conn[c].st = "drawn" =>
                 /\ conn[c].rec.FencingToken \in 1 .. seq
                 /\ \A i \in DOMAIN grants : grants[i].token # conn[c].rec.FencingToken
                 /\ \A d \in Conns : d # c /\ conn[d].st = "drawn" =>
                       conn[c].rec.FencingToken # conn[d].rec.FencingToken
  <1>1. conn[c] \in AcquireStatement
    BY DEF TypeInv, ConnsOK, ConnOK
  <1>2. /\ conn[c].rec \in LeaseRecord /\ conn[c].st \in {"begun", "drawn"}
    BY <1>1 DEF AcquireStatement
  <1>3. /\ conn[c].at \in Nat /\ conn[c].at <= now /\ now - conn[c].at <= MaxDelay
    BY <1>2 DEF TypeInv, ConnsOK, ConnOK
  <1>4. seq \in Nat /\ seq <= MaxSeq /\ now \in Nat
    BY DEF TypeInv, TypeOK
  <1>5. conn[c].st = "drawn" =>
                 /\ conn[c].rec.FencingToken \in 1 .. seq
                 /\ \A i \in DOMAIN grants : grants[i].token # conn[c].rec.FencingToken
                 /\ \A d \in Conns : d # c /\ conn[d].st = "drawn" =>
                       conn[c].rec.FencingToken # conn[d].rec.FencingToken
    BY DEF TypeInv, DrawnAreFresh
  <1> QED BY <1>1, <1>2, <1>3, <1>4, <1>5 DEF LeaseRecord

(* Appending a new grant. *)
LEMMA GrantAppended ==
    ASSUME TypeOK, NEW w \in WorkIDs, NEW h \in HolderIDs, NEW tok \in Nat, NEW at \in Nat, NEW rec,
           rec.WorkID = w, rec.HolderID = h,
           grants' = Append(grants, NewGrant(rec, tok, at))
    PROVE  \E n : Granted(w, h, tok, at, n)
  <1>1. PICK g, p : g = NewGrant(rec, tok, at) /\ p = at * Unit + TTL
    OBVIOUS
  <1>2. p \in Int
    BY <1>1
  <1>3. g = [work |-> w, holder |-> h, exit |-> ExitNone, saved |-> {},
             erased |-> FALSE, token |-> tok, promised |-> p]
    BY <1>1 DEF NewGrant
  <1>4. g \in Grant
    BY <1>2, <1>3, ExitModesDistinct DEF Grant
  <1>5. grants \in Seq(Grant) /\ Len(grants) \in Nat /\ DOMAIN grants = 1 .. Len(grants)
    BY GrantsTyped DEF TypeOK
  <1>6. /\ grants' \in Seq(Grant) /\ Len(grants') = Len(grants) + 1
        /\ \A i \in 1 .. Len(grants) : grants'[i] = grants[i]
        /\ grants'[Len(grants) + 1] = g
    BY <1>1, <1>4, <1>5, AppendProperties
  <1>7. DOMAIN grants' = 1 .. Len(grants) + 1
    BY <1>6, LenProperties
  <1>8. PICK n : n = Len(grants) + 1
    OBVIOUS
  <1>9. /\ n \in Nat /\ \A i \in DOMAIN grants : i \in Nat /\ i < n
        /\ DOMAIN grants' = DOMAIN grants \union {n}
    BY <1>5, <1>7, <1>8
  <1>10. grants'[n] = g /\ \A i \in DOMAIN grants : grants'[i] = grants[i]
    BY <1>5, <1>6, <1>8
  <1>11. /\ grants'[n].work = w /\ grants'[n].holder = h /\ grants'[n].exit = ExitNone
         /\ grants'[n].saved = {} /\ grants'[n].erased = FALSE /\ grants'[n].token = tok
         /\ grants'[n].promised = at * Unit + TTL
    <2>1. /\ g.work = w /\ g.holder = h /\ g.exit = ExitNone
          /\ g.saved = {} /\ g.erased = FALSE /\ g.token = tok /\ g.promised = p
      BY <1>3
    <2> QED BY <1>1, <1>10, <2>1
  <1> QED BY <1>6, <1>8, <1>9, <1>10, <1>11 DEF Granted

(* What an Acquire that grants the lease does. *)
LEMMA AcquireEffect ==
    ASSUME TypeInv, NEW c \in Conns, Acquires(c)
    PROVE  /\ \E tok, n :
                 /\ RowAcquired(conn[c].rec.WorkID, conn[c].rec.HolderID, tok, conn[c].at, n)
                 /\ \A d \in Conns : d # c /\ conn[d].st = "drawn" =>
                       tok # conn[d].rec.FencingToken
           /\ DOMAIN conn' = Conns /\ conn'[c] = Idle
           /\ \A d \in Conns : d # c => conn'[d] = conn[d]
           /\ seq' \in {seq, seq + 1} /\ seq' \in 0 .. MaxSeq /\ now' = now
  <1>0. /\ conn[c].st = "drawn" /\ DOMAIN conn = Conns
        /\ now' = now /\ Done(c, "acquire", conn[c].rec, OK)
    BY DEF Acquires, AcquireInserts, AcquireUpdates, TypeInv, ConnsOK
  <1>1. /\ DOMAIN conn' = Conns /\ conn'[c] = Idle
        /\ \A d \in Conns : d # c => conn'[d] = conn[d]
    BY <1>0, DoneEffect
  <1>2. PICK w, h, at, drawn :
           /\ w = conn[c].rec.WorkID /\ h = conn[c].rec.HolderID /\ at = conn[c].at
           /\ drawn = conn[c].rec.FencingToken
    OBVIOUS
  <1>3. /\ w \in WorkIDs /\ h \in HolderIDs /\ at \in Nat /\ at <= now /\ now - at <= MaxDelay
        /\ drawn \in 1 .. seq /\ seq \in Nat /\ seq <= MaxSeq
        /\ \A i \in DOMAIN grants : grants[i].token # drawn
        /\ \A d \in Conns : d # c /\ conn[d].st = "drawn" => drawn # conn[d].rec.FencingToken
    BY <1>0, <1>2, DrawnStatement
  <1>4. PICK end : end = at + formatInterval(TTL) /\ end \in Int /\ at \in Int
    BY <1>3, IntervalCovers
  <1>5. CASE AcquireInserts(c)
    <2>1. /\ w \notin DOMAIN rows /\ seq' = seq
          /\ grants' = Append(grants, NewGrant(conn[c].rec, drawn, at))
          /\ DOMAIN rows' = DOMAIN rows \union {w}
          /\ \A x \in DOMAIN rows : x # w => rows'[x] = rows[x]
      BY <1>2, <1>5 DEF AcquireInserts, Exists
    <2>2. rows'[w] = [holder_id |-> h, fencing_token |-> drawn,
                      expires_at |-> end, checkpoint |-> NoState,
                      exit_mode |-> ExitNone, prev_exit_mode |-> ExitNone,
                      prev_holder_id |-> NoHolder, updated_at |-> at]
      BY <1>2, <1>4, <1>5 DEF AcquireInserts
    <2>3. drawn \in Nat /\ ExitNone \in StoredExits /\ ExitNone \in ExitModes
      BY <1>3, ExitModesDistinct
    <2>4. rows' \in [DOMAIN rows' -> Row]
      <3>1. rows'[w] \in Row
        BY <1>3, <1>4, <2>2, <2>3 DEF Row
      <3>2. rows' = [x \in DOMAIN rows \union {w} |-> rows'[x]]
        BY <1>2, <1>5 DEF AcquireInserts
      <3>3. \A x \in DOMAIN rows \union {w} : rows'[x] \in Row
        BY <2>1, <3>1 DEF TypeInv, TypeOK
      <3> QED BY <3>2, <3>3
    <2>5. /\ rows'[w].holder_id = h /\ rows'[w].fencing_token = drawn
          /\ rows'[w].expires_at = at + formatInterval(TTL) /\ rows'[w].exit_mode = ExitNone
          /\ rows'[w].checkpoint = NoState
          /\ rows'[w].prev_exit_mode = ExitNone
          /\ rows'[w].prev_holder_id = NoHolder
      BY <1>4, <2>2
    <2>6. PICK n : Granted(w, h, drawn, at, n)
      BY <1>2, <1>3, <2>1, <2>3, GrantAppended DEF TypeInv
    <2>7. RowAcquired(w, h, drawn, at, n)
      BY <1>3, <2>1, <2>4, <2>5, <2>6 DEF RowAcquired
    <2> QED BY <1>0, <1>1, <1>2, <1>3, <2>1, <2>7
  <1>6. CASE AcquireUpdates(c) /\ rows[conn[c].rec.WorkID].expires_at < conn[c].at
    <2>0. PICK tok, r : /\ tok = seq + 1
                        /\ r = [rows[w] EXCEPT !.holder_id = h, !.fencing_token = tok,
                                       !.expires_at = end,
                                       !.prev_exit_mode = CapturedExit(rows[w].exit_mode),
                                       !.prev_holder_id = rows[w].holder_id,
                                       !.exit_mode = ExitNone, !.updated_at = at]
      OBVIOUS
    <2>1. /\ w \in DOMAIN rows /\ seq' = tok /\ seq < MaxSeq
          /\ grants' = Append(grants, NewGrant(conn[c].rec, tok, at))
      BY <1>2, <1>6, <2>0 DEF AcquireUpdates, Exists, nextval
    <2>2. rows' = [rows EXCEPT ![w] = r]
      BY <1>2, <1>4, <1>6, <2>0 DEF AcquireUpdates, nextval, COALESCE
    <2>3. /\ tok \in Nat /\ tok \in 1 .. seq' /\ seq' \in 0 .. MaxSeq
          /\ \A i \in DOMAIN grants : grants[i].token # tok
          /\ \A d \in Conns : d # c /\ conn[d].st = "drawn" => tok # conn[d].rec.FencingToken
      BY <1>3, <2>0, <2>1 DEF TypeInv, TokensDiffer, DrawnAreFresh
    <2>4. /\ rows[w] \in Row /\ CapturedExit(rows[w].exit_mode) \in ExitModes
          /\ rows[w].holder_id \in HolderIDs /\ ExitNone \in StoredExits
      BY <2>1, ExitModesDistinct DEF TypeInv, TypeOK, Row
    <2>5. r \in Row
      BY <1>3, <1>4, <2>0, <2>3, <2>4 DEF Row
    <2>6. /\ r.holder_id = h /\ r.fencing_token = tok
          /\ r.expires_at = end /\ r.exit_mode = ExitNone
          /\ r.checkpoint = rows[w].checkpoint
          /\ r.prev_exit_mode = CapturedExit(rows[w].exit_mode)
          /\ r.prev_holder_id = rows[w].holder_id
      BY <2>0, <2>4 DEF Row
    <2>7. /\ DOMAIN rows' = DOMAIN rows \union {w} /\ rows'[w] = r
          /\ \A x \in DOMAIN rows : x # w => rows'[x] = rows[x]
          /\ rows' \in [DOMAIN rows' -> Row]
      BY <2>1, <2>2, <2>5 DEF TypeInv, TypeOK
    <2>8. PICK n : Granted(w, h, tok, at, n)
      BY <1>2, <1>3, <2>1, <2>3, GrantAppended DEF TypeInv
    <2>9. RowAcquired(w, h, tok, at, n)
      BY <1>3, <1>4, <2>1, <2>3, <2>5, <2>6, <2>7, <2>8 DEF RowAcquired
    <2> QED BY <1>0, <1>1, <1>2, <2>0, <2>1, <2>3, <2>9
  <1> QED BY <1>5, <1>6 DEF Acquires

(* The grant i belongs to the row of a work ID in W. *)
Belongs(i, W) == \E w \in W : grants[i].work = w /\ grants[i].token = rows[w].fencing_token

(* Forget and Sweep delete rows, and mark exactly the grants these belong to. *)
LEMMA DeleteEffect ==
    ASSUME TypeInv, NEW W, W \subseteq DOMAIN rows, Delete(W)
    PROVE  /\ DOMAIN rows' = DOMAIN rows \ W /\ rows' \in [DOMAIN rows' -> Row]
           /\ \A x \in DOMAIN rows' : rows'[x] = rows[x]
           /\ grants' \in Seq(Grant) /\ DOMAIN grants' = DOMAIN grants
           /\ GrantsKept
           /\ \A i \in DOMAIN grants :
                 /\ grants'[i].exit = grants[i].exit /\ grants'[i].saved = grants[i].saved
                 /\ grants'[i].promised = grants[i].promised
                 /\ grants[i].erased => grants'[i].erased
                 /\ Belongs(i, W) => grants'[i].erased
                 /\ ~Belongs(i, W) => grants'[i] = grants[i]
  <1>1. /\ DOMAIN rows' = DOMAIN rows \ W /\ rows' \in [DOMAIN rows' -> Row]
        /\ \A x \in DOMAIN rows' : rows'[x] = rows[x]
    BY DEF Delete, TypeInv, TypeOK
  <1>2. /\ DOMAIN grants' = DOMAIN grants
        /\ grants' = [i \in DOMAIN grants |->
                        IF Belongs(i, W) THEN [grants[i] EXCEPT !.erased = TRUE] ELSE grants[i]]
    BY DEF Delete, Belongs
  <1>3. \A i \in DOMAIN grants : grants[i] \in Grant
    BY GrantsTyped DEF TypeInv
  <1>4. ASSUME NEW i \in DOMAIN grants
        PROVE  /\ grants'[i] \in Grant
               /\ grants'[i].work = grants[i].work /\ grants'[i].holder = grants[i].holder
               /\ grants'[i].token = grants[i].token
               /\ grants'[i].exit = grants[i].exit /\ grants'[i].saved = grants[i].saved
               /\ grants'[i].promised = grants[i].promised
               /\ grants[i].erased => grants'[i].erased
               /\ Belongs(i, W) => grants'[i].erased
               /\ ~Belongs(i, W) => grants'[i] = grants[i]
    BY <1>2, <1>3 DEF Grant
  <1>5. grants' \in Seq(Grant)
    <2>1. Len(grants) \in Nat /\ DOMAIN grants = 1 .. Len(grants)
      BY GrantsTyped DEF TypeInv
    <2>2. grants' \in [1 .. Len(grants) -> Grant]
      BY <1>2, <1>4, <2>1
    <2> QED BY <2>1, <2>2, SeqDef
  <1> QED BY <1>1, <1>2, <1>4, <1>5 DEF GrantsKept

-----------------------------------------------------------------------------
(* The first invariant is preserved.                                       *)

(* A step that only moves a connection on. *)
LEMMA ConnTyped ==
    ASSUME TypeInv, NEW c \in Conns, UNCHANGED <<rows, seq, now, grants>>,
           DOMAIN conn' = Conns, \A d \in Conns : d # c => conn'[d] = conn[d],
           ConnOK(c)', conn'[c].st \in {"idle", "begun", "classify", "done"}
    PROVE  TypeInv'
  <1>1. rows' = rows /\ seq' = seq /\ now' = now /\ grants' = grants /\ GrantsKept
    BY DEF GrantsKept
  <1>2. TypeOK'
    <2>1. \A d \in Conns : conn'[d].st \in {"idle", "begun", "drawn", "classify", "done"}
      BY DEF TypeInv, TypeOK
    <2> QED BY <1>1, <2>1 DEF TypeInv, TypeOK
  <1>3. ConnsOK'
    BY <1>1, ConnKept DEF TypeInv, ConnsOK
  <1>4. TokensDiffer'
    BY <1>1 DEF TypeInv, TokensDiffer
  <1>5. DrawnAreFresh'
    <2>1. \A d \in Conns : conn'[d].st = "drawn" => conn[d].st = "drawn" /\ conn'[d] = conn[d]
      OBVIOUS
    <2> QED BY <1>1, <2>1 DEF TypeInv, DrawnAreFresh
  <1> QED BY <1>2, <1>3, <1>4, <1>5 DEF TypeInv

(* A step that writes rows and grants, adds no grant, and ends its statement. *)
LEMMA WriteTyped ==
    ASSUME TypeInv, NEW c \in Conns, seq' = seq, now' = now,
           DOMAIN conn' = Conns, conn'[c] = Idle, \A d \in Conns : d # c => conn'[d] = conn[d],
           DOMAIN rows' \subseteq DOMAIN rows, rows' \in [DOMAIN rows' -> Row],
           \A w \in DOMAIN rows' : rows'[w].fencing_token = rows[w].fencing_token,
           grants' \in Seq(Grant), DOMAIN grants' = DOMAIN grants, GrantsKept
    PROVE  TypeInv'
  <1>1. conn'[c].st = "idle" /\ ConnOK(c)'
    BY ConnIdle
  <1>2. TypeOK'
    <2>1. \A d \in Conns : conn'[d].st \in {"idle", "begun", "drawn", "classify", "done"}
      BY <1>1 DEF TypeInv, TypeOK
    <2>2. \A w \in DOMAIN rows' : rows'[w].fencing_token <= seq'
      BY DEF TypeInv, TypeOK
    <2> QED BY <2>1, <2>2 DEF TypeInv, TypeOK
  <1>3. ConnsOK'
    BY <1>1, ConnKept DEF TypeInv, ConnsOK
  <1>4. TokensDiffer'
    BY DEF TypeInv, TokensDiffer, GrantsKept
  <1>5. DrawnAreFresh'
    <2>1. \A d \in Conns : conn'[d].st = "drawn" => conn[d].st = "drawn" /\ conn'[d] = conn[d]
      BY <1>1
    <2> QED BY <2>1 DEF TypeInv, DrawnAreFresh, GrantsKept
  <1> QED BY <1>2, <1>3, <1>4, <1>5 DEF TypeInv

(* A grant under a token that no grant and no other statement has. *)
LEMMA AcquireTyped ==
    ASSUME TypeInv, NEW c \in Conns, Acquires(c)
    PROVE  TypeInv'
  <1>0. /\ DOMAIN conn' = Conns /\ conn'[c] = Idle
        /\ \A d \in Conns : d # c => conn'[d] = conn[d]
        /\ seq' \in {seq, seq + 1} /\ seq' \in 0 .. MaxSeq /\ now' = now
    BY AcquireEffect
  <1>1. PICK w, h, tok, at, n :
           /\ RowAcquired(w, h, tok, at, n)
           /\ \A d \in Conns : d # c /\ conn[d].st = "drawn" => tok # conn[d].rec.FencingToken
    BY AcquireEffect
  <1>2. conn'[c].st = "idle" /\ ConnOK(c)'
    BY <1>0, ConnIdle
  <1>3. GrantsKept
    BY <1>1, RowAcquiredKeeps
  <1>4. seq \in Nat /\ seq <= seq' /\ seq' \in Nat
    BY <1>0 DEF TypeInv, TypeOK
  <1>5. TypeOK'
    <2>1. \A d \in Conns : conn'[d].st \in {"idle", "begun", "drawn", "classify", "done"}
      BY <1>0, <1>2 DEF TypeInv, TypeOK
    <2>2. DOMAIN rows' \subseteq WorkIDs /\ rows' \in [DOMAIN rows' -> Row] /\ grants' \in Seq(Grant)
      BY <1>1 DEF RowAcquired, Granted, TypeInv, TypeOK
    <2>3. \A x \in DOMAIN rows' : rows'[x].fencing_token <= seq'
      <3>1. rows'[w].fencing_token <= seq'
        BY <1>1, <1>4 DEF RowAcquired
      <3>2. \A x \in DOMAIN rows : rows[x].fencing_token \in Nat /\ rows[x].fencing_token <= seq
        BY DEF TypeInv, TypeOK, Row
      <3>3. \A x \in DOMAIN rows : rows[x].fencing_token <= seq'
        BY <1>4, <3>2
      <3> QED BY <1>1, <3>1, <3>3 DEF RowAcquired
    <2>4. now' \in 0 .. MaxTime
      BY <1>0 DEF TypeInv, TypeOK
    <2> QED BY <1>0, <2>1, <2>2, <2>3, <2>4 DEF TypeOK
  <1>6. ConnsOK'
    BY <1>0, <1>2, <1>3, ConnKept DEF TypeInv, ConnsOK
  <1>7. TokensDiffer'
    <2>1. /\ DOMAIN grants' = DOMAIN grants \union {n} /\ grants'[n].token = tok
          /\ \A i \in DOMAIN grants : grants'[i] = grants[i] /\ grants[i].token # tok
          /\ tok \in 1 .. seq'
      BY <1>1 DEF RowAcquired, Granted
    <2> QED BY <1>4, <2>1 DEF TypeInv, TokensDiffer
  <1>8. DrawnAreFresh'
    <2>1. \A d \in Conns : conn'[d].st = "drawn" =>
             conn[d].st = "drawn" /\ conn'[d] = conn[d] /\ conn[d].rec.FencingToken # tok
      BY <1>0, <1>1, <1>2
    <2>2. /\ DOMAIN grants' = DOMAIN grants \union {n} /\ grants'[n].token = tok
          /\ \A i \in DOMAIN grants : grants'[i] = grants[i]
      BY <1>1 DEF RowAcquired, Granted
    <2> QED BY <1>4, <2>1, <2>2 DEF TypeInv, DrawnAreFresh
  <1> QED BY <1>5, <1>6, <1>7, <1>8 DEF TypeInv

(* The token drawn is newer than any drawn before. *)
LEMMA DrawTyped ==
    ASSUME TypeInv, NEW c \in Conns, AcquireDraws(c)
    PROVE  TypeInv'
  <1>1. /\ conn[c].st = "begun" /\ conn[c].op = "acquire" /\ seq < MaxSeq /\ seq' = seq + 1
        /\ rows' = rows /\ now' = now /\ grants' = grants /\ GrantsKept
    BY DEF AcquireDraws, GrantsKept
  <1>2. /\ conn[c] \in AcquireStatement /\ conn[c].at <= now /\ now - conn[c].at <= MaxDelay
        /\ conn[c].at \in Nat /\ seq \in Nat /\ seq <= MaxSeq /\ conn[c].rec \in LeaseRecord
    BY <1>1, DrawnStatement DEF AcquireStatement
  <1>3. PICK q, r : /\ r = [conn[c].rec EXCEPT !.FencingToken = seq + 1]
                    /\ q = [conn[c] EXCEPT !.st = "drawn", !.rec = r]
    OBVIOUS
  <1>4. /\ DOMAIN conn' = Conns /\ conn'[c] = q
        /\ \A d \in Conns : d # c => conn'[d] = conn[d]
    <2>1. DOMAIN conn = Conns
      BY DEF TypeInv, ConnsOK
    <2>2. conn' = [conn EXCEPT ![c] = [[conn[c] EXCEPT !.st = "drawn"] EXCEPT
                                          !.rec = [[conn[c] EXCEPT !.st = "drawn"].rec EXCEPT
                                                      !.FencingToken = seq + 1]]]
      BY <2>1 DEF AcquireDraws, nextval
    <2>3. [conn[c] EXCEPT !.st = "drawn"].rec = conn[c].rec
      BY <1>2 DEF AcquireStatement
    <2>4. conn'[c] = [[conn[c] EXCEPT !.st = "drawn"] EXCEPT !.rec = r]
      BY <1>3, <2>1, <2>2, <2>3
    <2>5. [[conn[c] EXCEPT !.st = "drawn"] EXCEPT !.rec = r] = q
      BY <1>3
    <2> QED BY <2>1, <2>2, <2>4, <2>5
  <1>5. r \in LeaseRecord /\ r.FencingToken = seq + 1
    BY <1>2, <1>3 DEF LeaseRecord
  <1>6. q \in AcquireStatement /\ q.st = "drawn" /\ q.at = conn[c].at /\ q.rec = r
    BY <1>2, <1>3, <1>5 DEF AcquireStatement
  <1>7. TypeOK'
    <2>1. \A d \in Conns : conn'[d].st \in {"idle", "begun", "drawn", "classify", "done"}
      BY <1>4, <1>6 DEF TypeInv, TypeOK
    <2>2. \A x \in DOMAIN rows : rows[x].fencing_token \in Nat /\ rows[x].fencing_token <= seq
      BY DEF TypeInv, TypeOK, Row
    <2>3. \A x \in DOMAIN rows : rows[x].fencing_token <= seq + 1
      BY <1>2, <2>2
    <2>4. seq' \in 0 .. MaxSeq
      BY <1>1, <1>2
    <2> QED BY <1>1, <2>1, <2>3, <2>4 DEF TypeInv, TypeOK
  <1>8. ConnsOK'
    <2>1. ConnOK(c)'
      BY <1>1, <1>2, <1>4, <1>6 DEF ConnOK, AcquireStatement
    <2> QED BY <1>1, <1>4, <2>1, ConnKept DEF TypeInv, ConnsOK
  <1>9. TokensDiffer'
    BY <1>1, <1>2 DEF TypeInv, TokensDiffer
  <1>10. DrawnAreFresh'
    <2>1. \A d \in Conns : d # c /\ conn'[d].st = "drawn" =>
             /\ conn'[d] = conn[d]
             /\ conn[d].rec.FencingToken \in 1 .. seq
             /\ \A i \in DOMAIN grants : grants[i].token # conn[d].rec.FencingToken
      BY <1>4 DEF TypeInv, DrawnAreFresh
    <2>2. /\ conn'[c].rec.FencingToken = seq'
          /\ \A i \in DOMAIN grants : grants[i].token # seq'
      BY <1>1, <1>2, <1>4, <1>5, <1>6 DEF TypeInv, TokensDiffer
    <2>3. \A d \in Conns : conn'[d].st = "drawn" =>
             /\ conn'[d].rec.FencingToken \in 1 .. seq'
             /\ \A i \in DOMAIN grants' : grants'[i].token # conn'[d].rec.FencingToken
      BY <1>1, <1>2, <2>1, <2>2
    <2>4. \A d, e \in Conns :
             /\ conn'[d].st = "drawn" /\ conn'[e].st = "drawn"
             /\ conn'[d].rec.FencingToken = conn'[e].rec.FencingToken
             => d = e
      <3> SUFFICES ASSUME NEW d \in Conns, NEW e \in Conns, conn'[d].st = "drawn",
                          conn'[e].st = "drawn",
                          conn'[d].rec.FencingToken = conn'[e].rec.FencingToken
                   PROVE  d = e
        OBVIOUS
      <3>1. \A x \in 1 .. seq : x # seq'
        BY <1>1, <1>2
      <3>2. CASE d = c \/ e = c
        BY <2>1, <2>2, <3>1, <3>2
      <3>3. CASE d # c /\ e # c
        BY <1>4, <3>3 DEF TypeInv, DrawnAreFresh
      <3> QED BY <3>2, <3>3
    <2> QED BY <2>3, <2>4 DEF DrawnAreFresh
  <1> QED BY <1>7, <1>8, <1>9, <1>10 DEF TypeInv

(* Nothing but time passes, and not while a statement would get too old. *)
LEMMA TickTyped ==
    ASSUME TypeInv, Tick
    PROVE  TypeInv'
  <1>1. /\ rows' = rows /\ seq' = seq /\ conn' = conn /\ grants' = grants
        /\ now' = now + 1 /\ now < MaxTime /\ now \in Nat
        /\ \A c \in Conns : conn[c].st \in {"begun", "drawn"} => now - conn[c].at < MaxDelay
    BY DEF Tick, TypeInv, TypeOK
  <1>2. TypeOK' /\ TokensDiffer' /\ DrawnAreFresh'
    BY <1>1 DEF TypeInv, TypeOK, TokensDiffer, DrawnAreFresh
  <1>3. Issued' = Issued
    BY <1>1 DEF Issued
  <1>4. ASSUME NEW c \in Conns PROVE ConnOK(c)'
    <2>1. ConnOK(c)
      BY DEF TypeInv, ConnsOK
    <2>2. conn[c].st \in {"begun", "drawn"} =>
             conn[c].at \in Nat /\ conn[c].at <= now' /\ now' - conn[c].at <= MaxDelay
      <3>1. conn[c].st \in {"begun", "drawn"} =>
               conn[c].at \in Nat /\ conn[c].at <= now /\ now - conn[c].at < MaxDelay
        BY <1>1, <2>1 DEF ConnOK
      <3> QED BY <1>1, <3>1
    <2> QED BY <1>1, <1>3, <2>1, <2>2 DEF ConnOK
  <1> QED BY <1>1, <1>2, <1>4 DEF TypeInv, ConnsOK

(* Every Begin sends a well-formed statement, or ends the call at once. *)
LEMMA BeginTyped ==
    ASSUME TypeInv, NEW c \in Conns, Begin(c)
    PROVE  /\ TypeInv' /\ UNCHANGED <<rows, seq, now, grants>>
           /\ \A d \in Conns : d # c => conn'[d] = conn[d]
           /\ conn'[c].st \in {"idle", "begun"}
  <1>0. DOMAIN conn = Conns /\ now \in Nat /\ now - now <= MaxDelay
    BY DEF TypeInv, TypeOK, ConnsOK
  <1>1. ASSUME NEW op, NEW rec, NEW arg, Send(c, op, rec, arg),
               \/ op = "acquire" /\ rec \in LeaseRecord /\ arg = NoState
               \/ op \in HolderOps /\ rec \in Issued,
               op = "checkpoint" => arg \in States \union {NoState},
               op = "release" => arg \in DeclarableExits
        PROVE  /\ TypeInv' /\ UNCHANGED <<rows, seq, now, grants>>
               /\ \A d \in Conns : d # c => conn'[d] = conn[d]
               /\ conn'[c].st \in {"idle", "begun"}
    <2>1. /\ UNCHANGED <<rows, seq, now, grants>>
          /\ DOMAIN conn' = Conns /\ \A d \in Conns : d # c => conn'[d] = conn[d]
          /\ conn'[c] = [st |-> "begun", op |-> op, at |-> now, rec |-> rec, arg |-> arg]
      BY <1>0, <1>1 DEF Send
    <2>2. /\ conn'[c].st = "begun" /\ conn'[c].op = op /\ conn'[c].at = now
          /\ conn'[c].rec = rec /\ conn'[c].arg = arg
      BY <2>1
    <2>3. op = "acquire" => conn'[c] \in AcquireStatement
      BY <1>0, <1>1, <2>1 DEF AcquireStatement, HolderOps
    <2>4. Issued' = Issued
      BY <2>1 DEF Issued
    <2>5. ConnOK(c)'
      BY <1>0, <1>1, <2>1, <2>2, <2>3, <2>4 DEF ConnOK, HolderOps
    <2> QED BY <2>1, <2>2, <2>5, ConnTyped
  <1>2. ASSUME UNCHANGED <<rows, seq, now, grants>>, DOMAIN conn' = Conns,
               \A d \in Conns : d # c => conn'[d] = conn[d],
               conn'[c].st \in {"idle", "begun"}, ConnOK(c)'
        PROVE  /\ TypeInv' /\ UNCHANGED <<rows, seq, now, grants>>
               /\ \A d \in Conns : d # c => conn'[d] = conn[d]
               /\ conn'[c].st \in {"idle", "begun"}
    BY <1>2, ConnTyped
  <1>3. CASE AcquireBegin(c)
    <2>1. PICK w \in WorkIDs, h \in HolderIDs :
             Send(c, "acquire", [WorkID |-> w, HolderID |-> h, FencingToken |-> 0], NoState)
      BY <1>3 DEF AcquireBegin
    <2>2. PICK rec : rec = [WorkID |-> w, HolderID |-> h, FencingToken |-> 0]
      OBVIOUS
    <2>3. rec \in LeaseRecord
      BY <2>2 DEF LeaseRecord
    <2> QED BY <1>1, <2>1, <2>2, <2>3
  <1>4. CASE CheckpointBegin(c)
    BY <1>1, <1>4 DEF CheckpointBegin, HolderOps
  <1>5. CASE RenewBegin(c)
    BY <1>1, <1>5 DEF RenewBegin, HolderOps
  <1>6. CASE ReleaseBegin(c)
    <2>1. PICK rec \in Issued, mode \in Modes :
            IF mode \in DeclarableExits
            THEN Send(c, "release", rec, mode)
            ELSE /\ Free(c) /\ Done(c, "release", rec, ErrInvalidExitMode)
                 /\ UNCHANGED <<rows, seq, now, grants>>
      BY <1>6 DEF ReleaseBegin
    <2>2. CASE mode \in DeclarableExits
      BY <1>1, <2>1, <2>2 DEF HolderOps
    <2>3. CASE mode \notin DeclarableExits
      BY <1>0, <1>2, <2>1, <2>3, DoneEffect, ConnIdle
    <2> QED BY <2>2, <2>3
  <1>7. CASE ForgetBegin(c)
    BY <1>1, <1>7 DEF ForgetBegin, HolderOps
  <1>8. CASE SweepBegin(c)
    <2>1. PICK b \in BOOLEAN :
             /\ conn' = [conn EXCEPT ![c] = [st |-> "begun", op |-> "sweep", at |-> now,
                                             include |-> b]]
             /\ UNCHANGED <<rows, seq, now, grants>>
      BY <1>8 DEF SweepBegin
    <2>2. /\ conn'[c].st = "begun" /\ conn'[c].op = "sweep" /\ conn'[c].at = now
          /\ DOMAIN conn' = Conns /\ \A d \in Conns : d # c => conn'[d] = conn[d]
      BY <1>0, <2>1
    <2>3. ConnOK(c)'
      BY <1>0, <2>1, <2>2 DEF ConnOK, HolderOps
    <2> QED BY <1>2, <2>1, <2>2, <2>3
  <1> QED BY <1>3, <1>4, <1>5, <1>6, <1>7, <1>8 DEF Begin

(* What ends a call, or sends it to its second look, without a write. *)
AnswerStep(c) == ZeroRows(c) \/ Classify(c) \/ Fails(c) \/ (AcquireUpdates(c) /\ ~Acquires(c))

(* The steps that change nothing but the connection keep it well typed. *)
LEMMA AnswerTyped ==
    ASSUME TypeInv, NEW c \in Conns, AnswerStep(c)
    PROVE  /\ TypeInv' /\ UNCHANGED <<rows, seq, now, grants>>
           /\ \A d \in Conns : d # c => conn'[d] = conn[d]
           /\ \/ conn'[c] = Idle
              \/ /\ conn[c].st = "begun" /\ conn[c].op = "forget" /\ ~Where(conn[c])
                 /\ conn'[c] = [st |-> "done", rec |-> conn[c].rec, err |-> ErrFenced]
                 /\ conn[c].rec \in Issued
              \/ /\ conn[c].st = "begun" /\ conn[c].op \in HolderOps /\ ~Where(conn[c])
                 /\ conn'[c] = [st |-> "classify", op |-> conn[c].op, rec |-> conn[c].rec]
                 /\ conn[c].rec \in Issued
              \/ /\ conn[c].st = "classify" /\ conn[c].rec \in Issued
                 /\ \E err : /\ conn'[c] = [st |-> "done", rec |-> conn[c].rec, err |-> err]
                             /\ err = queryHolderCheck(conn[c].rec)
                             /\ err = ErrFenced \/ conn[c].op = "checkpoint"
  <1>0. DOMAIN conn = Conns /\ ConnOK(c)
    BY DEF TypeInv, ConnsOK
  <1>1. ASSUME UNCHANGED <<rows, seq, now, grants>>, DOMAIN conn' = Conns,
               \A d \in Conns : d # c => conn'[d] = conn[d],
               \/ conn'[c] = Idle
               \/ \E rec \in Issued : \E err : conn'[c] = [st |-> "done", rec |-> rec, err |-> err]
               \/ \E rec \in Issued : \E op : conn'[c] = [st |-> "classify", op |-> op, rec |-> rec]
        PROVE  TypeInv'
    <2>1. conn'[c].st \in {"idle", "classify", "done"}
      BY <1>1 DEF Idle
    <2>2. conn'[c].st # "idle" => conn'[c].rec \in Issued
      BY <1>1 DEF Idle
    <2>3. Issued' = Issued
      BY <1>1 DEF Issued
    <2>4. ConnOK(c)'
      BY <2>1, <2>2, <2>3 DEF ConnOK
    <2> QED BY <1>1, <2>1, <2>4, ConnTyped
  <1>2. CASE ZeroRows(c)
    <2>1. /\ conn[c].st = "begun" /\ conn[c].op \in HolderOps /\ ~Where(conn[c])
          /\ UNCHANGED <<rows, seq, now, grants>>
      BY <1>2 DEF ZeroRows, HolderOps
    <2>2. conn[c].rec \in Issued
      BY <1>0, <2>1 DEF ConnOK
    <2>3. CASE conn[c].op = "forget"
      <3>1. conn' = [conn EXCEPT ![c] = [st |-> "done", rec |-> conn[c].rec, err |-> ErrFenced]]
        BY <1>2, <2>3 DEF ZeroRows, Done
      <3> QED BY <1>0, <1>1, <2>1, <2>2, <2>3, <3>1
    <2>4. CASE conn[c].op # "forget"
      <3>1. conn' = [conn EXCEPT ![c] = [st |-> "classify", op |-> conn[c].op, rec |-> conn[c].rec]]
        BY <1>2, <2>4 DEF ZeroRows
      <3> QED BY <1>0, <1>1, <2>1, <2>2, <3>1
    <2> QED BY <2>3, <2>4
  <1>3. CASE Classify(c)
    <2>1. /\ conn[c].st = "classify" /\ UNCHANGED <<rows, seq, now, grants>>
          /\ Done(c, conn[c].op, conn[c].rec, queryHolderCheck(conn[c].rec))
      BY <1>3 DEF Classify
    <2>2. conn[c].rec \in Issued
      BY <1>0, <2>1 DEF ConnOK
    <2>3. PICK err : err = queryHolderCheck(conn[c].rec)
      OBVIOUS
    <2>4. /\ DOMAIN conn' = Conns /\ \A d \in Conns : d # c => conn'[d] = conn[d]
          /\ \/ conn'[c] = Idle
             \/ /\ conn'[c] = [st |-> "done", rec |-> conn[c].rec, err |-> err]
                /\ err = ErrFenced \/ (err = ErrLeaseExpired /\ conn[c].op = "checkpoint")
      BY <1>0, <2>1, <2>3, DoneEffect
    <2>5. TypeInv'
      BY <1>1, <2>1, <2>2, <2>4
    <2> QED BY <2>1, <2>2, <2>3, <2>4, <2>5
  <1>4. CASE Fails(c)
    <2>1. /\ conn' = [conn EXCEPT ![c] = Idle] /\ UNCHANGED <<rows, seq, now, grants>>
      BY <1>4 DEF Fails
    <2> QED BY <1>0, <1>1, <2>1
  <1>5. CASE AcquireUpdates(c) /\ ~Acquires(c)
    <2>1. /\ Done(c, "acquire", conn[c].rec, ErrLeaseHeld) /\ UNCHANGED <<rows, seq, now, grants>>
      BY <1>5 DEF AcquireUpdates, Acquires
    <2>2. /\ DOMAIN conn' = Conns /\ conn'[c] = Idle /\ \A d \in Conns : d # c => conn'[d] = conn[d]
      BY <1>0, <2>1, DoneEffect
    <2> QED BY <1>1, <2>1, <2>2
  <1> QED BY <1>2, <1>3, <1>4, <1>5 DEF AnswerStep

(* Forget and Sweep delete rows that exist. *)
LEMMA DeleteSteps ==
    ASSUME TypeInv, NEW c \in Conns, ForgetWrites(c) \/ SweepWrites(c)
    PROVE  /\ \E W : W \subseteq DOMAIN rows /\ Delete(W)
           /\ seq' = seq /\ now' = now /\ DOMAIN conn' = Conns /\ conn'[c] = Idle
           /\ \A d \in Conns : d # c => conn'[d] = conn[d]
  <1>1. CASE ForgetWrites(c)
    <2>1. Updates(c, "forget") /\ "forget" \in HolderOps /\ Delete({conn[c].rec.WorkID})
      BY <1>1 DEF ForgetWrites, HolderOps
    <2>2. Matches(conn[c].rec)
      BY <2>1, HolderEffect
    <2>3. {conn[c].rec.WorkID} \subseteq DOMAIN rows
      BY <2>2 DEF Matches, Exists
    <2> QED BY <2>1, <2>3, HolderEffect
  <1>2. CASE SweepWrites(c)
    <2>1. DOMAIN conn = Conns
      BY DEF TypeInv, ConnsOK
    <2>2. PICK W : /\ W = {w \in DOMAIN rows : queryVacuumSweep(w, conn[c].at, conn[c].include)}
                   /\ Delete(W)
      BY <1>2 DEF SweepWrites
    <2> QED BY <1>2, <2>1, <2>2 DEF SweepWrites
  <1> QED BY <1>1, <1>2

(* The steps, told apart by what they do to the rows. *)
LEMMA StepCases ==
    ASSUME NEW c \in Conns, Step(c)
    PROVE  \/ Begin(c) \/ AcquireDraws(c) \/ Acquires(c) \/ CheckpointWrites(c)
           \/ RenewWrites(c) \/ ReleaseWrites(c) \/ ForgetWrites(c) \/ SweepWrites(c)
           \/ AnswerStep(c)
  BY DEF Step, Acquires, AnswerStep

(* A new database is well typed. *)
LEMMA TypeInit == Init => TypeInv
  <1> SUFFICES ASSUME Init PROVE TypeInv
    OBVIOUS
  <1>1. /\ DOMAIN rows = {} /\ seq = 0 /\ now = 0 /\ grants = <<>> /\ DOMAIN grants = {}
        /\ DOMAIN conn = Conns /\ \A c \in Conns : conn[c] = Idle /\ conn[c].st = "idle"
    BY DEF Init, Idle
  <1>2. rows \in [DOMAIN rows -> Row]
    BY <1>1 DEF Init
  <1>3. TypeOK
    BY <1>1, <1>2 DEF TypeOK
  <1> QED BY <1>1, <1>3 DEF TypeInv, ConnsOK, ConnOK, TokensDiffer, DrawnAreFresh

(* Every step keeps the types, one step per statement. *)
LEMMA TypeNext == TypeInv /\ [Next]_vars => TypeInv'
  <1> SUFFICES ASSUME TypeInv, [Next]_vars PROVE TypeInv'
    OBVIOUS
  <1>1. CASE Tick
    BY <1>1, TickTyped
  <1>2. ASSUME NEW c \in Conns, Step(c) PROVE TypeInv'
    <2>1. CASE Begin(c)
      BY <2>1, BeginTyped
    <2>2. CASE AcquireDraws(c)
      BY <2>2, DrawTyped
    <2>3. CASE Acquires(c)
      BY <2>3, AcquireTyped
    <2>4. ASSUME NEW w, NEW i, RowWritten(w, i), NEW op \in HolderOps, Updates(c, op)
          PROVE  TypeInv'
      <3>1. /\ DOMAIN conn' = Conns /\ conn'[c] = Idle /\ seq' = seq /\ now' = now
            /\ \A d \in Conns : d # c => conn'[d] = conn[d]
        BY <2>4, HolderEffect
      <3>2. GrantsKept
        BY <2>4, RowWrittenKeeps
      <3>3. /\ DOMAIN rows' \subseteq DOMAIN rows /\ rows' \in [DOMAIN rows' -> Row]
            /\ \A x \in DOMAIN rows' : rows'[x].fencing_token = rows[x].fencing_token
            /\ grants' \in Seq(Grant) /\ DOMAIN grants' = DOMAIN grants
        BY <2>4 DEF RowWritten
      <3> QED BY <3>1, <3>2, <3>3, WriteTyped
    <2>5. CASE CheckpointWrites(c)
      BY <2>4, <2>5, CheckpointEffect DEF CheckpointWrites, HolderOps
    <2>6. CASE RenewWrites(c)
      BY <2>4, <2>6, RenewEffect DEF RenewWrites, HolderOps
    <2>7. CASE ReleaseWrites(c)
      BY <2>4, <2>7, ReleaseEffect DEF ReleaseWrites, HolderOps
    <2>8. CASE ForgetWrites(c) \/ SweepWrites(c)
      <3>1. PICK W : W \subseteq DOMAIN rows /\ Delete(W)
        BY <2>8, DeleteSteps
      <3>2. /\ DOMAIN conn' = Conns /\ conn'[c] = Idle /\ seq' = seq /\ now' = now
            /\ \A d \in Conns : d # c => conn'[d] = conn[d]
        BY <2>8, DeleteSteps
      <3>3. /\ DOMAIN rows' \subseteq DOMAIN rows /\ rows' \in [DOMAIN rows' -> Row]
            /\ \A x \in DOMAIN rows' : rows'[x].fencing_token = rows[x].fencing_token
            /\ grants' \in Seq(Grant) /\ DOMAIN grants' = DOMAIN grants /\ GrantsKept
        BY <3>1, DeleteEffect
      <3> QED BY <3>2, <3>3, WriteTyped
    <2>9. CASE AnswerStep(c)
      BY <2>9, AnswerTyped
    <2> QED BY <1>2, <2>1, <2>2, <2>3, <2>5, <2>6, <2>7, <2>8, <2>9, StepCases
  <1>3. CASE UNCHANGED vars
    <2>1. rows' = rows /\ seq' = seq /\ now' = now /\ conn' = conn /\ grants' = grants
      BY <1>3 DEF vars
    <2> QED BY <2>1 DEF TypeInv, TypeOK, ConnsOK, ConnOK, Issued, TokensDiffer, DrawnAreFresh
  <1> QED BY <1>1, <1>2, <1>3 DEF Next

(* The first invariant holds in every reachable state. *)
THEOREM TypeInvariance == Spec => []TypeInv
  BY TypeInit, TypeNext, PTL DEF Spec

(* Every reachable state of the PostgreSQL backend is well typed, and no   *)
(* row carries a token that the sequence has not drawn.                    *)
THEOREM TypeCorrect == Spec => []TypeOK
  BY TypeInvariance, PTL DEF TypeInv

-----------------------------------------------------------------------------
(* The rows and the history agree.                                         *)

(* The tenures of the contract are the grants, before and after a step. *)
LEMMA TenuresAre ==
    /\ DOMAIN Tenures = DOMAIN grants
    /\ \A i \in DOMAIN grants :
          /\ Tenures[i].work = grants[i].work /\ Tenures[i].holder = grants[i].holder
          /\ Tenures[i].exit = grants[i].exit /\ Tenures[i].saved = grants[i].saved
          /\ Tenures[i].erased = grants[i].erased
    /\ DOMAIN Tenures' = DOMAIN grants'
    /\ \A i \in DOMAIN grants' :
          /\ Tenures'[i].work = grants'[i].work /\ Tenures'[i].holder = grants'[i].holder
          /\ Tenures'[i].exit = grants'[i].exit /\ Tenures'[i].saved = grants'[i].saved
          /\ Tenures'[i].erased = grants'[i].erased
  BY DEF Tenures

(* A tenure whose fields are kept is kept. *)
LEMMA TenureKept ==
    ASSUME NEW i \in DOMAIN grants, i \in DOMAIN grants',
           grants'[i].work = grants[i].work, grants'[i].holder = grants[i].holder,
           grants'[i].exit = grants[i].exit, grants'[i].saved = grants[i].saved,
           grants'[i].erased = grants[i].erased
    PROVE  Tenures'[i] = Tenures[i]
  BY DEF Tenures

(* A step that leaves the tenures of one work ID alone leaves alone what   *)
(* the history says of that work ID.                                       *)
LEMMA OtherWorkFrame ==
    ASSUME NEW t, t \in DOMAIN Tenures, DOMAIN Tenures \subseteq DOMAIN Tenures',
           \A u \in DOMAIN Tenures : /\ Tenures'[u].work = Tenures[u].work
                                     /\ Tenures[u].work = Tenures[t].work => Tenures'[u] = Tenures[u],
           \A u \in DOMAIN Tenures' : u \notin DOMAIN Tenures => Tenures'[u].work # Tenures[t].work
    PROVE  /\ Contract!Current(t)' <=> Contract!Current(t)
           /\ \A e, h : Contract!TruePrevExit(t, e, h)' <=> Contract!TruePrevExit(t, e, h)
           /\ \A state : Contract!TrueState(t, state)' <=> Contract!TrueState(t, state)
  <1>0. /\ \A u \in DOMAIN Tenures : Tenures'[u].work = Tenures[t].work <=> Tenures[u].work = Tenures[t].work
        /\ \A u \in DOMAIN Tenures' : Tenures'[u].work = Tenures[t].work => u \in DOMAIN Tenures
        /\ Tenures'[t] = Tenures[t]
    OBVIOUS
  <1>1. Contract!Current(t)' <=> Contract!Current(t)
    BY <1>0 DEF Contract!Current, Contract!Newest, Contract!Tokens
  <1>2. ASSUME NEW p \in DOMAIN Tenures
        PROVE  Contract!HandsOverTo(p, t)' <=> Contract!HandsOverTo(p, t)
    BY <1>0 DEF Contract!HandsOverTo, Contract!Predecessor, Contract!Tokens
  <1>3. ASSUME NEW p \in DOMAIN Tenures', p \notin DOMAIN Tenures
        PROVE  ~Contract!HandsOverTo(p, t)'
    BY <1>0, <1>3 DEF Contract!HandsOverTo, Contract!Predecessor
  <1>4. ASSUME NEW p \in DOMAIN Tenures, Contract!HandsOverTo(p, t)
        PROVE  Tenures'[p] = Tenures[p]
    BY <1>4 DEF Contract!HandsOverTo, Contract!Predecessor
  <1>5. ASSUME NEW e, NEW h
        PROVE  Contract!TruePrevExit(t, e, h)' <=> Contract!TruePrevExit(t, e, h)
    BY <1>2, <1>3, <1>4 DEF Contract!TruePrevExit, Contract!Tokens
  <1>6. ASSUME NEW p \in DOMAIN Tenures
        PROVE  Contract!Reaches(p, t)' <=> Contract!Reaches(p, t)
    BY <1>0 DEF Contract!Reaches, Contract!Tokens
  <1>7. ASSUME NEW p \in DOMAIN Tenures', p \notin DOMAIN Tenures
        PROVE  ~Contract!Reaches(p, t)'
    BY <1>0, <1>7 DEF Contract!Reaches
  <1>8. ASSUME NEW p \in DOMAIN Tenures, Contract!Reaches(p, t)
        PROVE  Tenures'[p] = Tenures[p]
    BY <1>8 DEF Contract!Reaches
  <1>9. ASSUME NEW state
        PROVE  Contract!TrueState(t, state)' <=> Contract!TrueState(t, state)
    BY <1>6, <1>7, <1>8 DEF Contract!TrueState, Contract!Tokens
  <1> QED BY <1>1, <1>5, <1>9

(* The same, lifted to the row of a work ID whose tenures a step leaves alone. *)
LEMMA RowFrame ==
    ASSUME NEW w, NEW i \in DOMAIN grants, RowOK(w, i),
           rows'[w].holder_id = rows[w].holder_id, rows'[w].fencing_token = rows[w].fencing_token,
           rows'[w].exit_mode = rows[w].exit_mode, rows'[w].checkpoint = rows[w].checkpoint,
           rows'[w].prev_exit_mode = rows[w].prev_exit_mode,
           rows'[w].prev_holder_id = rows[w].prev_holder_id,
           GrantsKept,
           \A u \in DOMAIN grants : grants[u].work = w =>
              /\ grants'[u].exit = grants[u].exit /\ grants'[u].saved = grants[u].saved
              /\ grants'[u].erased = grants[u].erased,
           \A u \in DOMAIN grants' : u \notin DOMAIN grants => grants'[u].work # w
    PROVE  RowOK(w, i)'
  <1>1. grants[i].work = w
    BY DEF RowOK, Written
  <1>2. \A u \in DOMAIN grants : grants[u].work = w => Tenures'[u] = Tenures[u]
    BY TenureKept DEF GrantsKept
  <1>3. /\ Contract!Current(i)' <=> Contract!Current(i)
        /\ \A e, h : Contract!TruePrevExit(i, e, h)' <=> Contract!TruePrevExit(i, e, h)
        /\ \A state : Contract!TrueState(i, state)' <=> Contract!TrueState(i, state)
    <2>1. /\ i \in DOMAIN Tenures /\ DOMAIN Tenures \subseteq DOMAIN Tenures'
          /\ \A u \in DOMAIN Tenures : /\ Tenures'[u].work = Tenures[u].work
                                       /\ Tenures[u].work = Tenures[i].work => Tenures'[u] = Tenures[u]
          /\ \A u \in DOMAIN Tenures' : u \notin DOMAIN Tenures => Tenures'[u].work # Tenures[i].work
      BY <1>1, <1>2, TenuresAre DEF GrantsKept
    <2> QED BY <2>1, OtherWorkFrame
  <1>4. Written(w, i)'
    BY <1>1 DEF RowOK, Written, GrantsKept
  <1>5. /\ Contract!Current(i)'
        /\ Contract!TruePrevExit(i, exitModeFromSQL(rows[w].prev_exit_mode), rows[w].prev_holder_id)'
        /\ Contract!TrueState(i, rows[w].checkpoint)'
    BY <1>3 DEF RowOK
  <1> QED BY <1>4, <1>5 DEF RowOK

(* A row belongs to the one grant that carries its token. *)
LEMMA RowIndex ==
    ASSUME TypeInv, RowsOK, NEW w \in DOMAIN rows, NEW i \in DOMAIN grants,
           grants[i].token = rows[w].fencing_token
    PROVE  RowOK(w, i)
  BY DEF RowsOK, RowOK, Written, TypeInv, TokensDiffer

(* A holder's write changes the row and its grant alike. *)
LEMMA WritePreserves ==
    ASSUME TypeInv, RowsOK, GoneIsErased, NEW w, NEW i, RowWritten(w, i),
           rows'[w].exit_mode = grants'[i].exit,
           \/ grants'[i].saved = grants[i].saved /\ rows'[w].checkpoint = rows[w].checkpoint
           \/ grants'[i].saved = {rows'[w].checkpoint}
    PROVE  RowsOK' /\ GoneIsErased'
  <1>1. /\ w \in DOMAIN rows /\ i \in DOMAIN grants /\ DOMAIN grants' = DOMAIN grants
        /\ DOMAIN rows' = DOMAIN rows /\ grants[i].work = w
        /\ grants[i].token = rows[w].fencing_token /\ grants[i].holder = rows[w].holder_id
        /\ \A j \in DOMAIN grants : j # i => grants'[j] = grants[j]
        /\ \A x \in DOMAIN rows : x # w => rows'[x] = rows[x]
        /\ grants'[i].erased = grants[i].erased /\ GrantsKept
    BY RowWrittenKeeps DEF RowWritten
  <1>2. RowOK(w, i)
    BY <1>1, RowIndex
  <1>3. \A j \in DOMAIN grants : j \in Nat
    BY GrantsTyped DEF TypeInv
  <1>4. /\ DOMAIN Tenures = DOMAIN grants /\ DOMAIN Tenures' = DOMAIN grants
        /\ \A u \in DOMAIN grants : /\ Tenures'[u].work = Tenures[u].work
                                    /\ Tenures'[u].holder = Tenures[u].holder
                                    /\ Tenures'[u].erased = Tenures[u].erased
                                    /\ u # i => Tenures'[u] = Tenures[u]
    <2>1. \A u \in DOMAIN grants : u # i => Tenures'[u] = Tenures[u]
      BY <1>1, TenureKept
    <2> QED BY <1>1, <2>1, TenuresAre DEF GrantsKept
  <1>5. Written(w, i)'
    BY <1>1 DEF Written, RowWritten
  <1>6. Contract!Current(i)'
    BY <1>1, <1>2, <1>4 DEF RowOK, Contract!Current, Contract!Newest, Contract!Tokens
  <1>7. Contract!TruePrevExit(i, exitModeFromSQL(rows[w].prev_exit_mode), rows[w].prev_holder_id)'
    <2>1. PICK e, h : e = exitModeFromSQL(rows[w].prev_exit_mode) /\ h = rows[w].prev_holder_id
      OBVIOUS
    <2>2. Contract!TruePrevExit(i, e, h)
      BY <1>2, <2>1 DEF RowOK
    <2>3. \A p \in DOMAIN grants : Contract!HandsOverTo(p, i)' <=> Contract!HandsOverTo(p, i)
      BY <1>1, <1>4 DEF Contract!HandsOverTo, Contract!Predecessor, Contract!Tokens
    <2>4. \A p \in DOMAIN grants : Contract!HandsOverTo(p, i) => p # i
      BY <1>1, <1>3 DEF Contract!HandsOverTo, Contract!Predecessor
    <2>5. Contract!TruePrevExit(i, e, h)'
      BY <1>4, <2>2, <2>3, <2>4 DEF Contract!TruePrevExit, Contract!Tokens
    <2>6. e = exitModeFromSQL(rows'[w].prev_exit_mode) /\ h = rows'[w].prev_holder_id
      BY <2>1 DEF RowWritten
    <2> QED BY <2>5, <2>6
  <1>8. Contract!TrueState(i, rows[w].checkpoint)'
    <2>1. CASE grants'[i].saved = grants[i].saved /\ rows'[w].checkpoint = rows[w].checkpoint
      <3>1. Contract!TrueState(i, rows[w].checkpoint)
        BY <1>2 DEF RowOK
      <3>2. \A u \in DOMAIN grants : Tenures'[u].saved = Tenures[u].saved
        BY <1>1, <1>4, <2>1, TenuresAre
      <3>3. \A u \in DOMAIN grants : Contract!Reaches(u, i)' <=> Contract!Reaches(u, i)
        BY <1>1, <1>4, <3>2 DEF Contract!Reaches, Contract!Tokens
      <3> QED BY <1>4, <2>1, <3>1, <3>2, <3>3 DEF Contract!TrueState, Contract!Tokens
    <2>2. CASE grants'[i].saved = {rows'[w].checkpoint}
      <3>1. Tenures'[i].saved = {rows'[w].checkpoint}
        BY <1>1, <2>2, TenuresAre
      <3>2. Contract!Reaches(i, i)'
        BY <1>1, <1>3, <1>4, <3>1 DEF Contract!Reaches, Contract!Tokens
      <3>3. \A u \in DOMAIN grants : Contract!Reaches(u, i)' => u <= i
        BY DEF Contract!Reaches
      <3> QED BY <1>1, <1>4, <3>1, <3>2, <3>3 DEF Contract!TrueState, Contract!Tokens
    <2> QED BY <2>1, <2>2
  <1>9. RowOK(w, i)'
    BY <1>5, <1>6, <1>7, <1>8 DEF RowOK
  <1>10. ASSUME NEW x \in DOMAIN rows, x # w
         PROVE  \E j \in DOMAIN grants' : RowOK(x, j)'
    <2>1. PICK j \in DOMAIN grants : RowOK(x, j)
      BY DEF RowsOK
    <2>2. \A u \in DOMAIN grants : grants[u].work = x => grants'[u] = grants[u]
      BY <1>1, <1>10
    <2>3. RowOK(x, j)'
      BY <1>1, <1>10, <2>1, <2>2, RowFrame
    <2> QED BY <1>1, <2>3
  <1>11. RowsOK'
    BY <1>1, <1>9, <1>10 DEF RowsOK
  <1>12. GoneIsErased'
    <2>1. \A u \in DOMAIN grants : grants'[u].work = grants[u].work /\ grants'[u].erased = grants[u].erased
      BY <1>1 DEF GrantsKept
    <2> QED BY <1>1, <2>1 DEF GoneIsErased
  <1> QED BY <1>11, <1>12

(* A grant: the new row and the new tenure agree, and the row it replaces  *)
(* hands its exit, holder and state over.                                  *)
LEMMA AcquirePreserves ==
    ASSUME TypeInv, RowsOK, GoneIsErased,
           NEW w, NEW h, NEW tok, NEW at, NEW n, RowAcquired(w, h, tok, at, n)
    PROVE  RowsOK' /\ GoneIsErased'
  <1>1. /\ n \in Nat /\ \A i \in DOMAIN grants : i \in Nat /\ i < n
        /\ DOMAIN grants' = DOMAIN grants \union {n} /\ n \notin DOMAIN grants
        /\ \A i \in DOMAIN grants : grants'[i] = grants[i]
        /\ grants'[n].work = w /\ grants'[n].holder = h /\ grants'[n].exit = ExitNone
        /\ grants'[n].saved = {} /\ grants'[n].erased = FALSE /\ grants'[n].token = tok
        /\ GrantsKept
    <2>1. GrantsKept
      BY RowAcquiredKeeps
    <2>2. Granted(w, h, tok, at, n)
      BY DEF RowAcquired
    <2> QED BY <2>1, <2>2 DEF Granted
  <1>2. /\ DOMAIN rows' = DOMAIN rows \union {w}
        /\ \A x \in DOMAIN rows : x # w => rows'[x] = rows[x]
        /\ rows'[w].holder_id = h /\ rows'[w].fencing_token = tok /\ rows'[w].exit_mode = ExitNone
    BY DEF RowAcquired
  <1>3. /\ DOMAIN Tenures = DOMAIN grants /\ DOMAIN Tenures' = DOMAIN grants \union {n}
        /\ \A u \in DOMAIN grants : Tenures'[u] = Tenures[u]
        /\ \A u \in DOMAIN grants :
              /\ Tenures[u].work = grants[u].work /\ Tenures[u].holder = grants[u].holder
              /\ Tenures[u].exit = grants[u].exit /\ Tenures[u].saved = grants[u].saved
              /\ Tenures[u].erased = grants[u].erased
        /\ Tenures'[n].work = w /\ Tenures'[n].saved = {} /\ Tenures'[n].erased = FALSE
    BY <1>1, TenuresAre, TenureKept
  <1>4. Written(w, n)'
    BY <1>1, <1>2 DEF Written
  <1>5. Contract!Current(n)'
    BY <1>1, <1>3 DEF Contract!Current, Contract!Newest, Contract!Tokens
  <1>6. ASSUME w \in DOMAIN rows
        PROVE  /\ Contract!TruePrevExit(n, exitModeFromSQL(rows[w].prev_exit_mode), rows[w].prev_holder_id)'
               /\ Contract!TrueState(n, rows[w].checkpoint)'
    <2>1. PICK p \in DOMAIN grants : RowOK(w, p)
      BY <1>6 DEF RowsOK
    <2>2. /\ grants[p].work = w /\ grants[p].exit = rows[w].exit_mode
          /\ grants[p].holder = rows[w].holder_id /\ ~Tenures[p].erased
          /\ \A u \in DOMAIN grants : Tenures[u].work = w => u <= p
      BY <1>3, <2>1 DEF RowOK, Written, Contract!Current, Contract!Newest, Contract!Tokens
    <2>3. Contract!HandsOverTo(p, n)'
      BY <1>1, <1>3, <2>2 DEF Contract!HandsOverTo, Contract!Predecessor, Contract!Tokens
    <2>4. /\ exitModeFromSQL(rows'[w].prev_exit_mode) = CapturedExit(Tenures'[p].exit)
          /\ rows'[w].prev_holder_id = Tenures'[p].holder
      <3>1. /\ rows'[w].prev_exit_mode = CapturedExit(rows[w].exit_mode)
            /\ rows'[w].prev_holder_id = rows[w].holder_id
        BY <1>6 DEF RowAcquired
      <3>2. CapturedExit(rows[w].exit_mode) \in ExitModes
        BY <1>6, ExitModesDistinct DEF TypeInv, TypeOK, Row
      <3> QED BY <1>3, <2>2, <3>1, <3>2, ExitModesDistinct
    <2>5. Contract!TruePrevExit(n, exitModeFromSQL(rows[w].prev_exit_mode), rows[w].prev_holder_id)'
      BY <1>3, <2>3, <2>4, ExitModesDistinct DEF Contract!TruePrevExit, Contract!Tokens
    <2>6. \A s \in DOMAIN grants : Contract!Reaches(s, n)' <=> Contract!Reaches(s, p)
      BY <1>1, <1>3, <2>2 DEF Contract!Reaches, Contract!Tokens
    <2>7. ~Contract!Reaches(n, n)'
      BY <1>3 DEF Contract!Reaches
    <2>8. Contract!TrueState(p, rows[w].checkpoint)
      BY <2>1 DEF RowOK
    <2>9. rows'[w].checkpoint = rows[w].checkpoint
      BY <1>6 DEF RowAcquired
    <2>10. Contract!TrueState(n, rows[w].checkpoint)'
      BY <1>3, <2>6, <2>7, <2>8, <2>9 DEF Contract!TrueState, Contract!Tokens
    <2> QED BY <2>5, <2>10
  <1>7. ASSUME w \notin DOMAIN rows
        PROVE  /\ Contract!TruePrevExit(n, exitModeFromSQL(rows[w].prev_exit_mode), rows[w].prev_holder_id)'
               /\ Contract!TrueState(n, rows[w].checkpoint)'
    <2>1. \A i \in DOMAIN grants : Tenures[i].work = w =>
             \E u \in DOMAIN grants : u >= i /\ Tenures[u].work = w /\ Tenures[u].erased
      BY <1>3, <1>7 DEF GoneIsErased
    <2>2. \A p \in DOMAIN Tenures' : ~Contract!HandsOverTo(p, n)'
      <3> SUFFICES ASSUME NEW p \in DOMAIN Tenures', Contract!HandsOverTo(p, n)' PROVE FALSE
        OBVIOUS
      <3>1. /\ p < n /\ Tenures'[p].work = w /\ ~Tenures'[p].erased
            /\ \A u \in DOMAIN Tenures' : Tenures'[u].work = w => u <= p \/ n <= u
        BY <1>3 DEF Contract!HandsOverTo, Contract!Predecessor, Contract!Tokens
      <3>2. p \in DOMAIN grants /\ Tenures[p].work = w /\ ~Tenures[p].erased
        BY <1>1, <1>3, <3>1
      <3>3. PICK u \in DOMAIN grants : u >= p /\ Tenures[u].work = w /\ Tenures[u].erased
        BY <2>1, <3>2
      <3>4. u <= p \/ n <= u
        BY <1>3, <3>1, <3>3
      <3> QED BY <1>1, <3>2, <3>3, <3>4
    <2>3. \A p \in DOMAIN Tenures' : ~Contract!Reaches(p, n)'
      <3> SUFFICES ASSUME NEW p \in DOMAIN Tenures', Contract!Reaches(p, n)' PROVE FALSE
        OBVIOUS
      <3>1. /\ Tenures'[p].work = w /\ Tenures'[p].saved # {}
            /\ \A u \in DOMAIN Tenures' : Tenures'[u].work = w /\ p <= u /\ u < n => ~Tenures'[u].erased
        BY <1>3 DEF Contract!Reaches, Contract!Tokens
      <3>2. p \in DOMAIN grants /\ Tenures[p].work = w
        BY <1>3, <3>1
      <3>3. PICK u \in DOMAIN grants : u >= p /\ Tenures[u].work = w /\ Tenures[u].erased
        BY <2>1, <3>2
      <3> QED BY <1>1, <1>3, <3>1, <3>2, <3>3
    <2>4. /\ rows'[w].checkpoint = NoState /\ rows'[w].prev_holder_id = NoHolder
          /\ exitModeFromSQL(rows'[w].prev_exit_mode) = ExitNone
      BY <1>7, ExitModesDistinct DEF RowAcquired
    <2> QED BY <2>2, <2>3, <2>4, ExitModesDistinct
               DEF Contract!TruePrevExit, Contract!TrueState, Contract!Tokens
  <1>8. RowOK(w, n)'
    BY <1>4, <1>5, <1>6, <1>7 DEF RowOK
  <1>9. ASSUME NEW x \in DOMAIN rows, x # w
        PROVE  \E j \in DOMAIN grants' : RowOK(x, j)'
    <2>1. PICK j \in DOMAIN grants : RowOK(x, j)
      BY DEF RowsOK
    <2>2. RowOK(x, j)'
      BY <1>1, <1>2, <1>9, <2>1, RowFrame
    <2> QED BY <1>1, <2>2
  <1>10. RowsOK'
    BY <1>1, <1>2, <1>8, <1>9 DEF RowsOK
  <1>11. GoneIsErased'
    BY <1>1, <1>2 DEF GoneIsErased
  <1> QED BY <1>10, <1>11

(* Forget and Sweep mark exactly the tenures whose rows they delete. *)
LEMMA DeletePreserves ==
    ASSUME TypeInv, RowsOK, GoneIsErased, NEW W, W \subseteq DOMAIN rows, Delete(W)
    PROVE  RowsOK' /\ GoneIsErased'
  <1>1. /\ DOMAIN rows' = DOMAIN rows \ W
        /\ \A x \in DOMAIN rows' : rows'[x] = rows[x]
        /\ DOMAIN grants' = DOMAIN grants /\ GrantsKept
        /\ \A i \in DOMAIN grants : /\ grants[i].erased => grants'[i].erased
                                    /\ Belongs(i, W) => grants'[i].erased
                                    /\ ~Belongs(i, W) => grants'[i] = grants[i]
    BY DeleteEffect
  <1>2. \A i \in DOMAIN grants : i \in Nat
    BY GrantsTyped DEF TypeInv
  <1>3. ASSUME NEW x \in DOMAIN rows'
        PROVE  \E j \in DOMAIN grants' : RowOK(x, j)'
    <2>1. x \in DOMAIN rows /\ x \notin W
      BY <1>1
    <2>2. PICK j \in DOMAIN grants : RowOK(x, j)
      BY <2>1 DEF RowsOK
    <2>3. \A u \in DOMAIN grants : grants[u].work = x => grants'[u] = grants[u]
      BY <1>1, <2>1 DEF Belongs
    <2>4. RowOK(x, j)'
      BY <1>1, <2>2, <2>3, RowFrame
    <2> QED BY <1>1, <2>4
  <1>4. RowsOK'
    BY <1>3 DEF RowsOK
  <1>5. GoneIsErased'
    <2> SUFFICES ASSUME NEW i \in DOMAIN grants', grants'[i].work \notin DOMAIN rows'
                 PROVE  \E j \in DOMAIN grants' : /\ j >= i /\ grants'[j].work = grants'[i].work
                                                  /\ grants'[j].erased
      BY DEF GoneIsErased
    <2>0. i \in DOMAIN grants /\ grants'[i].work = grants[i].work
      BY <1>1 DEF GrantsKept
    <2>1. CASE grants[i].work \in DOMAIN rows
      <3>1. PICK j \in DOMAIN grants : RowOK(grants[i].work, j)
        BY <2>1 DEF RowsOK
      <3>2. /\ grants[j].work = grants[i].work /\ i <= j
            /\ grants[j].token = rows[grants[i].work].fencing_token
        BY <2>0, <3>1, TenuresAre DEF RowOK, Written, Contract!Current, Contract!Newest, Contract!Tokens
      <3>3. grants[i].work \in W
        BY <1>1, <2>0, <2>1
      <3>4. grants'[j].erased
        BY <1>1, <3>2, <3>3 DEF Belongs
      <3> QED BY <1>1, <1>2, <2>0, <3>2, <3>4 DEF GrantsKept
    <2>2. CASE grants[i].work \notin DOMAIN rows
      <3>1. PICK j \in DOMAIN grants : j >= i /\ grants[j].work = grants[i].work /\ grants[j].erased
        BY <2>0, <2>2 DEF GoneIsErased
      <3> QED BY <1>1, <2>0, <3>1 DEF GrantsKept
    <2> QED BY <2>1, <2>2
  <1> QED BY <1>4, <1>5

(* A step that leaves the rows and the grants alone. *)
LEMMA StutterPreserves ==
    ASSUME RowsOK, GoneIsErased, rows' = rows, grants' = grants
    PROVE  RowsOK' /\ GoneIsErased'
  <1>1. GrantsKept
    BY DEF GrantsKept
  <1>2. ASSUME NEW x \in DOMAIN rows
        PROVE  \E j \in DOMAIN grants' : RowOK(x, j)'
    <2>1. PICK j \in DOMAIN grants : RowOK(x, j)
      BY DEF RowsOK
    <2>2. RowOK(x, j)'
      BY <1>1, <2>1, RowFrame
    <2> QED BY <2>2
  <1> QED BY <1>2 DEF RowsOK, GoneIsErased

-----------------------------------------------------------------------------
(* An answer that was true stays true.                                     *)

(* A record keeps naming the same tenure. *)
LEMMA IndexKept ==
    ASSUME TypeInv, TypeInv', GrantsKept, NEW rec \in Issued
    PROVE  IndexOf(rec)' = IndexOf(rec)
  <1>1. PICK i : i = IndexOf(rec)
    OBVIOUS
  <1>2. /\ i \in DOMAIN grants /\ grants[i].work = rec.WorkID /\ grants[i].token = rec.FencingToken
    BY <1>1, IssuedRecords DEF TypeInv
  <1>3. /\ i \in DOMAIN grants' /\ grants'[i].work = rec.WorkID /\ grants'[i].token = rec.FencingToken
    BY <1>2 DEF GrantsKept
  <1>4. TypeOK' /\ TokensDiffer'
    BY DEF TypeInv
  <1>5. IndexOf(rec)' = i
    BY <1>3, <1>4, IndexIsUniqueNext
  <1> QED BY <1>1, <1>5

(* What no step undoes: a row gets only tokens that no grant had, and a    *)
(* declared exit is not withdrawn.                                         *)
NothingReturns ==
    /\ GrantsKept
    /\ \A x \in DOMAIN rows' :
          \/ /\ x \in DOMAIN rows /\ rows'[x].holder_id = rows[x].holder_id
             /\ rows'[x].fencing_token = rows[x].fencing_token
          \/ \A i \in DOMAIN grants : grants[i].token # rows'[x].fencing_token
    /\ \A i \in DOMAIN grants : grants[i].exit # ExitNone => grants'[i].exit # ExitNone

(* So a record that does not match will never match again. *)
LEMMA FencedStays ==
    ASSUME TypeInv, NothingReturns, NEW rec \in Issued, ~Matches(rec)
    PROVE  ~Matches(rec)'
  <1>1. PICK i \in DOMAIN grants : grants[i].token = rec.FencingToken
    BY DEF Issued
  <1> QED BY <1>1 DEF Matches, Exists, NothingReturns

(* The answer on a connection that the step leaves alone stays true. *)
LEMMA AnswerKept ==
    ASSUME TypeInv, TypeInv', NothingReturns, NEW d \in Conns, AnswerOK(d), conn'[d] = conn[d]
    PROVE  AnswerOK(d)'
  <1> SUFFICES ASSUME NEW rec \in Issued', conn[d].st \in {"done", "classify"}, conn[d].rec = rec
               PROVE  /\ conn[d].st = "done" /\ conn[d].err = ErrFenced => ~Matches(rec)'
                      /\ conn[d].st = "done" /\ conn[d].err = ErrLeaseExpired =>
                            grants'[IndexOf(rec)'].exit # ExitNone
                      /\ conn[d].st = "classify" /\ conn[d].op = "checkpoint" =>
                            ~Matches(rec)' \/ grants'[IndexOf(rec)'].exit # ExitNone
    BY DEF AnswerOK
  <1>1. rec \in Issued
    BY DEF TypeInv, ConnsOK, ConnOK
  <1>2. IndexOf(rec)' = IndexOf(rec) /\ IndexOf(rec) \in DOMAIN grants
    BY <1>1, IndexKept, IssuedRecords DEF NothingReturns, TypeInv
  <1>3. grants[IndexOf(rec)].exit # ExitNone => grants'[IndexOf(rec)'].exit # ExitNone
    BY <1>2 DEF NothingReturns
  <1>4. ~Matches(rec) => ~Matches(rec)'
    BY <1>1, FencedStays
  <1> QED BY <1>1, <1>3, <1>4 DEF AnswerOK

(* A connection that is idle, or has just sent a statement, has no answer. *)
LEMMA NoAnswer ==
    ASSUME NEW c \in Conns, conn'[c].st \notin {"done", "classify"}
    PROVE  AnswerOK(c)'
  BY DEF AnswerOK

(* All the answers, when at most the connection c moves on without one. *)
LEMMA AnswersKept ==
    ASSUME TypeInv, TypeInv', NothingReturns, AnswersOK, NEW c \in Conns,
           \A d \in Conns : d # c => conn'[d] = conn[d],
           conn'[c].st \notin {"done", "classify"}
    PROVE  AnswersOK'
  BY AnswerKept, NoAnswer DEF AnswersOK

(* Zero rows, a second look, and what the caller is told. *)
LEMMA AnswerStepTrue ==
    ASSUME TypeInv, TypeInv', RowsOK, AnswersOK, NEW c \in Conns, AnswerStep(c)
    PROVE  AnswersOK'
  <1>1. /\ rows' = rows /\ grants' = grants /\ \A d \in Conns : d # c => conn'[d] = conn[d]
    BY AnswerTyped
  <1>2. NothingReturns
    BY <1>1 DEF NothingReturns, GrantsKept
  <1>3. \A rec : Matches(rec)' <=> Matches(rec)
    BY <1>1 DEF Matches, Exists
  <1>4. \A rec \in Issued : IndexOf(rec)' = IndexOf(rec)
    BY <1>2, IndexKept DEF NothingReturns
  <1>5. Issued' = Issued
    BY <1>1 DEF Issued
  <1>6. AnswerOK(c)'
    <2>1. CASE conn'[c] = Idle
      BY <2>1, NoAnswer DEF Idle
    <2>2. CASE /\ conn[c].st = "begun" /\ conn[c].op = "forget" /\ ~Where(conn[c])
               /\ conn'[c] = [st |-> "done", rec |-> conn[c].rec, err |-> ErrFenced]
               /\ conn[c].rec \in Issued
      <3>1. /\ conn'[c].st = "done" /\ conn'[c].rec = conn[c].rec /\ conn'[c].err = ErrFenced
        BY <2>2
      <3>2. ~Matches(conn[c].rec)
        BY <2>2 DEF Where, queryForget
      <3>3. \A rec \in Issued' : conn'[c].rec = rec => ~Matches(rec)'
        BY <1>3, <3>1, <3>2
      <3> QED BY <3>1, <3>3, ResultsDistinct DEF AnswerOK
    <2>3. CASE /\ conn[c].st = "begun" /\ conn[c].op \in HolderOps /\ ~Where(conn[c])
               /\ conn'[c] = [st |-> "classify", op |-> conn[c].op, rec |-> conn[c].rec]
               /\ conn[c].rec \in Issued
      <3>1. /\ conn'[c].st = "classify" /\ conn'[c].rec = conn[c].rec /\ conn'[c].op = conn[c].op
        BY <2>3
      <3>2. PICK r \in Issued : r = conn[c].rec
        BY <2>3
      <3>3. conn[c].op = "checkpoint" => ~Matches(r) \/ grants[IndexOf(r)].exit # ExitNone
        <4> SUFFICES ASSUME conn[c].op = "checkpoint", Matches(r)
                     PROVE  grants[IndexOf(r)].exit # ExitNone
          OBVIOUS
        <4>1. /\ r.WorkID \in DOMAIN rows /\ rows[r.WorkID].fencing_token = r.FencingToken
              /\ rows[r.WorkID].exit_mode # ExitNone
          BY <2>3, <3>2 DEF Where, queryCheckpoint, Matches, Exists
        <4>2. /\ IndexOf(r) \in DOMAIN grants /\ grants[IndexOf(r)].token = r.FencingToken
          BY IssuedRecords DEF TypeInv
        <4>3. RowOK(r.WorkID, IndexOf(r))
          BY <4>1, <4>2, RowIndex
        <4> QED BY <4>1, <4>3 DEF RowOK, Written
      <3>4. conn'[c].op = "checkpoint" =>
               \A rec \in Issued' : conn'[c].rec = rec =>
                  ~Matches(rec)' \/ grants'[IndexOf(rec)'].exit # ExitNone
        BY <1>1, <1>3, <1>4, <1>5, <3>1, <3>2, <3>3
      <3> QED BY <3>1, <3>4 DEF AnswerOK
    <2>4. CASE /\ conn[c].st = "classify" /\ conn[c].rec \in Issued
               /\ \E err : /\ conn'[c] = [st |-> "done", rec |-> conn[c].rec, err |-> err]
                           /\ err = queryHolderCheck(conn[c].rec)
                           /\ err = ErrFenced \/ conn[c].op = "checkpoint"
      <3>1. PICK r \in Issued, err \in {ErrFenced, ErrLeaseExpired} :
               /\ r = conn[c].rec /\ err = queryHolderCheck(r)
               /\ conn'[c] = [st |-> "done", rec |-> r, err |-> err]
               /\ err = ErrFenced \/ conn[c].op = "checkpoint"
        BY <2>4 DEF queryHolderCheck
      <3>2. /\ conn'[c].st = "done" /\ conn'[c].rec = r /\ conn'[c].err = err
        BY <3>1
      <3>3. AnswerOK(c)
        BY DEF AnswersOK
      <3>4. /\ err = ErrFenced => ~Matches(r)
            /\ err = ErrLeaseExpired => Matches(r) /\ conn[c].op = "checkpoint"
        BY <3>1, ResultsDistinct DEF queryHolderCheck
      <3>5. err = ErrLeaseExpired => grants[IndexOf(r)].exit # ExitNone
        BY <2>4, <3>1, <3>3, <3>4 DEF AnswerOK
      <3>6. \A rec \in Issued' : conn'[c].rec = rec =>
               /\ err = ErrFenced => ~Matches(rec)'
               /\ err = ErrLeaseExpired => grants'[IndexOf(rec)'].exit # ExitNone
        BY <1>1, <1>3, <1>4, <1>5, <3>2, <3>4, <3>5
      <3> QED BY <3>2, <3>6 DEF AnswerOK
    <2> QED BY <2>1, <2>2, <2>3, <2>4, AnswerTyped
  <1>7. \A d \in Conns : d # c => AnswerOK(d)'
    BY <1>1, <1>2, AnswerKept DEF AnswersOK
  <1> QED BY <1>6, <1>7 DEF AnswersOK

-----------------------------------------------------------------------------
(* The stored expiry and the window the client computes.                   *)

(* An expiry written by a statement that is not too old covers a window    *)
(* that ends TTL from now, but for MaxDelay.                               *)
LEMMA ExpiryCovers ==
    ASSUME NEW a \in Nat, NEW n \in Nat, n - a <= MaxDelay, NEW p \in Int, p <= n * Unit + TTL
    PROVE  (a + formatInterval(TTL) + MaxDelay) * Unit >= p
  <1>1. PICK f \in Nat : f = formatInterval(TTL) /\ f * Unit >= TTL
    BY IntervalCovers
  <1>2. PICK k \in Nat : a + MaxDelay = n + k
    <2>1. a + MaxDelay - n \in Nat
      OBVIOUS
    <2> QED BY <2>1
  <1>3. (a + f + MaxDelay) * Unit = n * Unit + k * Unit + f * Unit
    BY <1>2
  <1>4. k * Unit >= 0
    OBVIOUS
  <1>5. /\ n * Unit \in Int /\ k * Unit \in Int /\ f * Unit \in Int
    OBVIOUS
  <1>6. \A x, y, z, s \in Int : x + y + z = s /\ y >= 0 /\ z >= TTL /\ p <= x + TTL => s >= p
    OBVIOUS
  <1>7. (a + f + MaxDelay) * Unit \in Int
    OBVIOUS
  <1>8. (a + f + MaxDelay) * Unit >= p
    BY <1>1, <1>3, <1>4, <1>5, <1>6, <1>7
  <1> QED BY <1>1, <1>8

(* An earlier microsecond is not a later nanosecond. *)
LEMMA EarlierStays ==
    ASSUME NEW a \in Nat, NEW n \in Nat, a <= n
    PROVE  a * Unit + TTL <= n * Unit + TTL
  <1>1. PICK k \in Nat : n = a + k
    <2>1. n - a \in Nat
      OBVIOUS
    <2> QED BY <2>1
  <1>2. n * Unit = a * Unit + k * Unit /\ k * Unit >= 0 /\ a * Unit \in Int /\ k * Unit \in Int
    BY <1>1
  <1> QED BY <1>2

(* A window moves to TTL after the start of a call, or not at all. *)
LEMMA PromisesKept ==
    ASSUME TypeInv, TypeInv', PromisesOK, now <= now',
           \A i \in DOMAIN grants' :
              \/ i \in DOMAIN grants /\ grants'[i].promised = grants[i].promised
              \/ \E a \in Nat : a <= now /\ grants'[i].promised = a * Unit + TTL
    PROVE  PromisesOK'
  <1>1. now \in Nat /\ now' \in Nat
    BY DEF TypeInv, TypeOK
  <1>2. now * Unit + TTL <= now' * Unit + TTL
    BY <1>1, EarlierStays
  <1>3. now * Unit + TTL \in Int /\ now' * Unit + TTL \in Int
    BY <1>1
  <1>4. \A i \in DOMAIN grants : grants[i].promised \in Int /\ grants[i].promised <= now * Unit + TTL
    BY GrantsTyped DEF TypeInv, PromisesOK, Grant
  <1>5. ASSUME NEW i \in DOMAIN grants'
        PROVE  grants'[i].promised <= now' * Unit + TTL
    <2>1. CASE i \in DOMAIN grants /\ grants'[i].promised = grants[i].promised
      BY <1>2, <1>3, <1>4, <2>1
    <2>2. CASE \E a \in Nat : a <= now /\ grants'[i].promised = a * Unit + TTL
      <3>1. PICK a \in Nat : a <= now /\ grants'[i].promised = a * Unit + TTL
        BY <2>2
      <3>2. a <= now'
        BY <1>1, <3>1
      <3> QED BY <1>1, <3>1, <3>2, EarlierStays
    <2> QED BY <2>1, <2>2
  <1> QED BY <1>5 DEF PromisesOK

(* A row without a declared exit keeps its expiry, or gets one of a        *)
(* statement that is not too old.                                          *)
LEMMA ShortfallKept ==
    ASSUME TypeInv, TypeInv', PromisesOK', ShortfallIsBounded,
           \A x \in DOMAIN rows' : rows'[x].exit_mode = ExitNone =>
              \/ /\ x \in DOMAIN rows /\ rows[x].exit_mode = ExitNone
                 /\ rows'[x].fencing_token = rows[x].fencing_token
                 /\ rows'[x].expires_at = rows[x].expires_at
                 /\ \A i \in DOMAIN grants' :
                       grants'[i].work = x /\ grants'[i].token = rows[x].fencing_token =>
                          /\ i \in DOMAIN grants /\ grants[i].work = x
                          /\ grants[i].token = rows[x].fencing_token
                          /\ grants'[i].promised = grants[i].promised
              \/ \E a \in Nat : /\ now' - a <= MaxDelay
                                /\ rows'[x].expires_at = a + formatInterval(TTL)
    PROVE  ShortfallIsBounded'
  <1>1. now' \in Nat /\ grants' \in Seq(Grant)
    BY DEF TypeInv, TypeOK
  <1>2. \A i \in DOMAIN grants' : grants'[i].promised \in Int /\ grants'[i].promised <= now' * Unit + TTL
    <2>1. grants' \in [1 .. Len(grants') -> Grant]
      BY <1>1, LenProperties
    <2> QED BY <2>1 DEF PromisesOK, Grant
  <1> SUFFICES ASSUME NEW x \in DOMAIN rows', NEW i \in DOMAIN grants', grants'[i].work = x,
                      grants'[i].token = rows'[x].fencing_token, rows'[x].exit_mode = ExitNone
               PROVE  (rows'[x].expires_at + MaxDelay) * Unit >= grants'[i].promised
    BY DEF ShortfallIsBounded
  <1>3. CASE \E a \in Nat : now' - a <= MaxDelay /\ rows'[x].expires_at = a + formatInterval(TTL)
    <2>1. PICK a \in Nat : now' - a <= MaxDelay /\ rows'[x].expires_at = a + formatInterval(TTL)
      BY <1>3
    <2>2. (a + formatInterval(TTL) + MaxDelay) * Unit >= grants'[i].promised
      BY <1>1, <1>2, <2>1, ExpiryCovers
    <2> QED BY <2>1, <2>2
  <1>4. CASE ~\E a \in Nat : now' - a <= MaxDelay /\ rows'[x].expires_at = a + formatInterval(TTL)
    <2>1. /\ x \in DOMAIN rows /\ rows[x].exit_mode = ExitNone
          /\ rows'[x].expires_at = rows[x].expires_at
          /\ i \in DOMAIN grants /\ grants[i].work = x
          /\ grants[i].token = rows[x].fencing_token
          /\ grants'[i].promised = grants[i].promised
      BY <1>4
    <2>2. (rows[x].expires_at + MaxDelay) * Unit >= grants[i].promised
      BY <2>1 DEF ShortfallIsBounded
    <2> QED BY <2>1, <2>2
  <1> QED BY <1>3, <1>4

-----------------------------------------------------------------------------
(* The second invariant is preserved.                                      *)

(* A new database satisfies it. *)
LEMMA InvInit == Init => Inv
  <1> SUFFICES ASSUME Init PROVE Inv
    OBVIOUS
  <1>1. TypeInv
    BY TypeInit
  <1>2. /\ DOMAIN rows = {} /\ DOMAIN grants = {}
        /\ \A c \in Conns : conn[c].st = "idle"
    BY DEF Init, Idle
  <1> QED BY <1>1, <1>2 DEF Inv, RowsOK, GoneIsErased, AnswersOK, AnswerOK, PromisesOK,
                            ShortfallIsBounded

(* A step that leaves the rows and the grants alone. *)
LEMMA StutterKeeps ==
    ASSUME Inv, TypeInv', rows' = rows, grants' = grants, now <= now'
    PROVE  RowsOK' /\ GoneIsErased' /\ PromisesOK' /\ ShortfallIsBounded' /\ NothingReturns
  <1>1. RowsOK' /\ GoneIsErased'
    BY StutterPreserves DEF Inv
  <1>2. PromisesOK'
    BY PromisesKept DEF Inv
  <1>3. ShortfallIsBounded'
    BY DEF Inv, ShortfallIsBounded
  <1>4. NothingReturns
    BY DEF NothingReturns, GrantsKept
  <1> QED BY <1>1, <1>2, <1>3, <1>4

(* A holder's write, whichever it is. *)
LEMMA WriteKeeps ==
    ASSUME Inv, TypeInv', NEW c \in Conns, NEW op \in HolderOps, Updates(c, op),
           NEW w, NEW i, RowWritten(w, i),
           rows'[w].exit_mode = grants'[i].exit,
           grants[i].exit # ExitNone => grants'[i].exit # ExitNone,
           \/ grants'[i].saved = grants[i].saved /\ rows'[w].checkpoint = rows[w].checkpoint
           \/ grants'[i].saved = {rows'[w].checkpoint},
           grants'[i].promised \in {grants[i].promised, conn[c].at * Unit + TTL},
           \/ rows'[w].exit_mode # ExitNone
           \/ rows'[w].expires_at = conn[c].at + formatInterval(TTL)
    PROVE  Inv' /\ NothingReturns
  <1>1. /\ w \in DOMAIN rows /\ i \in DOMAIN grants /\ DOMAIN grants' = DOMAIN grants
        /\ DOMAIN rows' = DOMAIN rows /\ grants[i].work = w
        /\ \A j \in DOMAIN grants : j # i => grants'[j] = grants[j]
        /\ \A x \in DOMAIN rows : x # w => rows'[x] = rows[x]
        /\ rows'[w].holder_id = rows[w].holder_id
        /\ rows'[w].fencing_token = rows[w].fencing_token
        /\ grants'[i].work = w
    BY DEF RowWritten
  <1>2. /\ conn'[c] = Idle /\ now' = now /\ \A d \in Conns : d # c => conn'[d] = conn[d]
        /\ conn[c].at \in Nat /\ conn[c].at <= now /\ now - conn[c].at <= MaxDelay
    BY HolderEffect DEF Inv
  <1>3. RowsOK' /\ GoneIsErased'
    BY WritePreserves DEF Inv
  <1>4. NothingReturns
    BY <1>1, RowWrittenKeeps DEF NothingReturns
  <1>5. AnswersOK'
    BY <1>2, <1>4, AnswersKept DEF Inv, Idle
  <1>6. PromisesOK'
    <2>1. now <= now'
      BY <1>2 DEF Inv, TypeInv, TypeOK
    <2>2. \A j \in DOMAIN grants' :
              \/ j \in DOMAIN grants /\ grants'[j].promised = grants[j].promised
              \/ \E a \in Nat : a <= now /\ grants'[j].promised = a * Unit + TTL
      BY <1>1, <1>2
    <2> QED BY <2>1, <2>2, PromisesKept DEF Inv
  <1>7. ShortfallIsBounded'
    <2>1. \A x \in DOMAIN rows' : rows'[x].exit_mode = ExitNone =>
              \/ /\ x \in DOMAIN rows /\ rows[x].exit_mode = ExitNone
                 /\ rows'[x].fencing_token = rows[x].fencing_token
                 /\ rows'[x].expires_at = rows[x].expires_at
                 /\ \A j \in DOMAIN grants' :
                       grants'[j].work = x /\ grants'[j].token = rows[x].fencing_token =>
                          /\ j \in DOMAIN grants /\ grants[j].work = x
                          /\ grants[j].token = rows[x].fencing_token
                          /\ grants'[j].promised = grants[j].promised
              \/ \E a \in Nat : /\ now' - a <= MaxDelay
                                /\ rows'[x].expires_at = a + formatInterval(TTL)
      <3> TAKE x \in DOMAIN rows'
      <3>1. CASE x = w
        BY <1>2, <3>1
      <3>2. CASE x # w
        BY <1>1, <3>2
      <3> QED BY <3>1, <3>2
    <2> QED BY <1>6, <2>1, ShortfallKept DEF Inv
  <1> QED BY <1>3, <1>4, <1>5, <1>6, <1>7 DEF Inv

(* A grant. *)
LEMMA AcquireKeeps ==
    ASSUME Inv, TypeInv', NEW c \in Conns, Acquires(c)
    PROVE  Inv' /\ NothingReturns
  <1>1. /\ conn'[c] = Idle /\ now' = now /\ \A d \in Conns : d # c => conn'[d] = conn[d]
    BY AcquireEffect DEF Inv
  <1>2. PICK w, h, tok, at, n : RowAcquired(w, h, tok, at, n)
    BY AcquireEffect DEF Inv
  <1>3. RowsOK' /\ GoneIsErased'
    BY <1>2, AcquirePreserves DEF Inv
  <1>4. Granted(w, h, tok, at, n) /\ GrantsKept
    <2>1. GrantsKept
      BY <1>2, RowAcquiredKeeps
    <2> QED BY <1>2, <2>1 DEF RowAcquired
  <1>5. /\ at \in Nat /\ at <= now /\ now - at <= MaxDelay
        /\ DOMAIN rows' = DOMAIN rows \union {w}
        /\ \A x \in DOMAIN rows : x # w => rows'[x] = rows[x]
        /\ rows'[w].fencing_token = tok /\ \A i \in DOMAIN grants : grants[i].token # tok
        /\ rows'[w].expires_at = at + formatInterval(TTL)
    BY <1>2 DEF RowAcquired
  <1>6. /\ DOMAIN grants' = DOMAIN grants \union {n}
        /\ \A i \in DOMAIN grants : grants'[i] = grants[i]
        /\ grants'[n].work = w /\ grants'[n].promised = at * Unit + TTL
    BY <1>4 DEF Granted
  <1>7. NothingReturns
    BY <1>4, <1>5, <1>6 DEF NothingReturns
  <1>8. AnswersOK'
    BY <1>1, <1>7, AnswersKept DEF Inv, Idle
  <1>9. PromisesOK'
    <2>1. now <= now'
      BY <1>1 DEF Inv, TypeInv, TypeOK
    <2>2. \A j \in DOMAIN grants' :
              \/ j \in DOMAIN grants /\ grants'[j].promised = grants[j].promised
              \/ \E a \in Nat : a <= now /\ grants'[j].promised = a * Unit + TTL
      BY <1>5, <1>6
    <2> QED BY <2>1, <2>2, PromisesKept DEF Inv
  <1>10. ShortfallIsBounded'
    <2>1. \A x \in DOMAIN rows' : rows'[x].exit_mode = ExitNone =>
              \/ /\ x \in DOMAIN rows /\ rows[x].exit_mode = ExitNone
                 /\ rows'[x].fencing_token = rows[x].fencing_token
                 /\ rows'[x].expires_at = rows[x].expires_at
                 /\ \A j \in DOMAIN grants' :
                       grants'[j].work = x /\ grants'[j].token = rows[x].fencing_token =>
                          /\ j \in DOMAIN grants /\ grants[j].work = x
                          /\ grants[j].token = rows[x].fencing_token
                          /\ grants'[j].promised = grants[j].promised
              \/ \E a \in Nat : /\ now' - a <= MaxDelay
                                /\ rows'[x].expires_at = a + formatInterval(TTL)
      <3> TAKE x \in DOMAIN rows'
      <3>1. CASE x = w
        BY <1>1, <1>5, <3>1
      <3>2. CASE x # w
        BY <1>5, <1>6, <3>2
      <3> QED BY <3>1, <3>2
    <2> QED BY <1>9, <2>1, ShortfallKept DEF Inv
  <1> QED BY <1>3, <1>7, <1>8, <1>9, <1>10 DEF Inv

(* A deletion. *)
LEMMA DeleteKeeps ==
    ASSUME Inv, TypeInv', NEW c \in Conns, ForgetWrites(c) \/ SweepWrites(c)
    PROVE  Inv' /\ NothingReturns
  <1>1. /\ conn'[c] = Idle /\ now' = now /\ \A d \in Conns : d # c => conn'[d] = conn[d]
    BY DeleteSteps DEF Inv
  <1>2. PICK W : W \subseteq DOMAIN rows /\ Delete(W)
    BY DeleteSteps DEF Inv
  <1>3. RowsOK' /\ GoneIsErased'
    BY <1>2, DeletePreserves DEF Inv
  <1>4. /\ DOMAIN rows' = DOMAIN rows \ W /\ \A x \in DOMAIN rows' : rows'[x] = rows[x]
        /\ DOMAIN grants' = DOMAIN grants /\ GrantsKept
        /\ \A i \in DOMAIN grants : /\ grants'[i].exit = grants[i].exit
                                    /\ grants'[i].promised = grants[i].promised
    BY <1>2, DeleteEffect DEF Inv
  <1>5. NothingReturns
    BY <1>4 DEF NothingReturns
  <1>6. AnswersOK'
    BY <1>1, <1>5, AnswersKept DEF Inv, Idle
  <1>7. now <= now'
    BY <1>1 DEF Inv, TypeInv, TypeOK
  <1>8. PromisesOK'
    BY <1>4, <1>7, PromisesKept DEF Inv
  <1>9. ShortfallIsBounded'
    BY <1>4 DEF Inv, ShortfallIsBounded, GrantsKept
  <1> QED BY <1>3, <1>5, <1>6, <1>8, <1>9 DEF Inv

(* Every step preserves the invariant and undoes no grant, one step per statement. *)
LEMMA InvNext == Inv /\ [Next]_vars => Inv' /\ NothingReturns
  <1> SUFFICES ASSUME Inv, [Next]_vars PROVE Inv' /\ NothingReturns
    OBVIOUS
  <1>0. TypeInv /\ TypeInv' /\ now \in Nat
    BY TypeNext DEF Inv, TypeInv, TypeOK
  <1>1. CASE Tick
    <2>1. rows' = rows /\ grants' = grants /\ conn' = conn /\ now <= now'
      BY <1>0, <1>1 DEF Tick
    <2>2. RowsOK' /\ GoneIsErased' /\ PromisesOK' /\ ShortfallIsBounded' /\ NothingReturns
      BY <1>0, <2>1, StutterKeeps
    <2>3. AnswersOK'
      BY <1>0, <2>1, <2>2, AnswerKept DEF Inv, AnswersOK
    <2> QED BY <1>0, <2>2, <2>3 DEF Inv
  <1>2. ASSUME NEW c \in Conns, Step(c) PROVE Inv' /\ NothingReturns
    <2>1. ASSUME rows' = rows, grants' = grants, now' = now, AnswersOK' PROVE Inv' /\ NothingReturns
      <3>1. now <= now'
        BY <1>0, <2>1
      <3>2. RowsOK' /\ GoneIsErased' /\ PromisesOK' /\ ShortfallIsBounded' /\ NothingReturns
        BY <1>0, <2>1, <3>1, StutterKeeps
      <3> QED BY <1>0, <2>1, <3>2 DEF Inv
    <2>2. ASSUME rows' = rows, grants' = grants PROVE NothingReturns
      BY <2>2 DEF NothingReturns, GrantsKept
    <2>3. CASE Begin(c)
      <3>1. /\ rows' = rows /\ grants' = grants /\ now' = now
            /\ \A d \in Conns : d # c => conn'[d] = conn[d]
            /\ conn'[c].st \notin {"done", "classify"}
        BY <1>0, <2>3, BeginTyped
      <3>2. AnswersOK'
        BY <1>0, <2>2, <3>1, AnswersKept DEF Inv
      <3> QED BY <2>1, <3>1, <3>2
    <2>4. CASE AcquireDraws(c)
      <3>1. rows' = rows /\ grants' = grants /\ now' = now
        BY <2>4 DEF AcquireDraws
      <3>2. /\ \A d \in Conns : d # c => conn'[d] = conn[d]
            /\ conn'[c].st = "drawn"
        <4>1. DOMAIN conn = Conns /\ conn[c] \in AcquireStatement
          BY <1>0, <2>4, DrawnStatement DEF AcquireDraws, TypeInv, ConnsOK
        <4> QED BY <2>4, <4>1 DEF AcquireDraws, AcquireStatement
      <3>3. AnswersOK'
        BY <1>0, <2>2, <3>1, <3>2, AnswersKept DEF Inv
      <3> QED BY <2>1, <3>1, <3>3
    <2>5. CASE Acquires(c)
      BY <1>0, <2>5, AcquireKeeps
    <2>6. CASE CheckpointWrites(c)
      <3>1. PICK w, i :
              /\ RowWritten(w, i)
              /\ rows[w].exit_mode = ExitNone /\ rows'[w].exit_mode = ExitNone
              /\ rows'[w].checkpoint = conn[c].arg
              /\ rows'[w].expires_at = conn[c].at + formatInterval(TTL)
              /\ grants'[i].saved = {conn[c].arg} /\ grants'[i].exit = grants[i].exit
              /\ grants'[i].promised = grants[i].promised
        BY <1>0, <2>6, CheckpointEffect
      <3>2. grants[i].exit = rows[w].exit_mode
        BY <3>1, RowIndex DEF RowWritten, RowOK, Written, Inv
      <3>3. Updates(c, "checkpoint") /\ "checkpoint" \in HolderOps
        BY <2>6 DEF CheckpointWrites, HolderOps
      <3> QED BY <1>0, <3>1, <3>2, <3>3, WriteKeeps
    <2>7. CASE RenewWrites(c)
      <3>1. PICK w, i :
              /\ RowWritten(w, i)
              /\ rows'[w].exit_mode = rows[w].exit_mode
              /\ rows'[w].checkpoint = rows[w].checkpoint
              /\ rows'[w].expires_at = conn[c].at + formatInterval(TTL)
              /\ grants'[i].saved = grants[i].saved /\ grants'[i].exit = grants[i].exit
              /\ grants'[i].promised \in {grants[i].promised, conn[c].at * Unit + TTL}
        BY <1>0, <2>7, RenewEffect
      <3>2. grants[i].exit = rows[w].exit_mode
        BY <3>1, RowIndex DEF RowWritten, RowOK, Written, Inv
      <3>3. Updates(c, "renew") /\ "renew" \in HolderOps
        BY <2>7 DEF RenewWrites, HolderOps
      <3> QED BY <1>0, <3>1, <3>2, <3>3, WriteKeeps
    <2>8. CASE ReleaseWrites(c)
      <3>1. PICK w, i :
              /\ RowWritten(w, i)
              /\ conn[c].arg \in DeclarableExits
              /\ rows'[w].exit_mode = conn[c].arg
              /\ rows'[w].checkpoint = rows[w].checkpoint
              /\ grants'[i].saved = grants[i].saved /\ grants'[i].exit = conn[c].arg
              /\ grants'[i].promised = grants[i].promised
        BY <1>0, <2>8, ReleaseEffect
      <3>2. conn[c].arg # ExitNone
        BY <3>1, ExitModesDistinct
      <3>3. Updates(c, "release") /\ "release" \in HolderOps
        BY <2>8 DEF ReleaseWrites, HolderOps
      <3> QED BY <1>0, <3>1, <3>2, <3>3, WriteKeeps
    <2>9. CASE ForgetWrites(c) \/ SweepWrites(c)
      BY <1>0, <2>9, DeleteKeeps
    <2>10. CASE AnswerStep(c)
      <3>1. rows' = rows /\ grants' = grants /\ now' = now
        BY <1>0, <2>10, AnswerTyped
      <3>2. AnswersOK'
        BY <1>0, <2>10, AnswerStepTrue DEF Inv
      <3> QED BY <2>1, <3>1, <3>2
    <2> QED BY <1>2, <2>3, <2>4, <2>5, <2>6, <2>7, <2>8, <2>9, <2>10, StepCases
  <1>3. CASE UNCHANGED vars
    <2>1. rows' = rows /\ grants' = grants /\ conn' = conn /\ now <= now'
      BY <1>0, <1>3 DEF vars
    <2>2. RowsOK' /\ GoneIsErased' /\ PromisesOK' /\ ShortfallIsBounded' /\ NothingReturns
      BY <1>0, <2>1, StutterKeeps
    <2>3. AnswersOK'
      BY <1>0, <2>1, <2>2, AnswerKept DEF Inv, AnswersOK
    <2> QED BY <1>0, <2>2, <2>3 DEF Inv
  <1> QED BY <1>1, <1>2, <1>3 DEF Next

(* The rows, the history and what callers were told agree in every         *)
(* reachable state.                                                        *)
THEOREM Invariance == Spec => []Inv
  BY InvInit, InvNext, PTL DEF Spec

-----------------------------------------------------------------------------
(* What holds however late a statement writes.                             *)

(* Whatever statements overlapped, a successor that can read its           *)
(* checkpoint reads the true exit, holder and last stored state of the     *)
(* tenures before it.                                                      *)
THEOREM SuccessorsReadTheTruth == Spec => []ReadsAreTrue
  <1>1. Inv => ReadsAreTrue
    <2> SUFFICES ASSUME Inv, NEW rec \in Issued, ReadCheckpointResult(rec) = OK
                 PROVE  /\ Contract!TruePrevExit(IndexOf(rec), ReadCheckpoint(rec).PrevExit,
                                                 ReadCheckpoint(rec).PrevHolderID)
                        /\ Contract!TrueState(IndexOf(rec), ReadCheckpoint(rec).State)
      BY DEF ReadsAreTrue
    <2>1. rec.WorkID \in DOMAIN rows /\ rows[rec.WorkID].fencing_token = rec.FencingToken
      BY DEF ReadCheckpointResult, Exists, OK, ErrFenced
    <2>2. IndexOf(rec) \in DOMAIN grants /\ grants[IndexOf(rec)].token = rec.FencingToken
      BY IssuedRecords DEF Inv, TypeInv
    <2>3. RowOK(rec.WorkID, IndexOf(rec))
      BY <2>1, <2>2, RowIndex DEF Inv
    <2> QED BY <2>3 DEF RowOK, ReadCheckpoint
  <1> QED BY <1>1, Invariance, PTL

(* What Checkpoint, Renew, Release and Forget tell their caller is true,   *)
(* although it comes from two statements with anything in between, and     *)
(* stays true as long as the caller relies on it.                          *)
THEOREM CallersAreToldTheTruth == Spec => []AnswersAreTrue
  <1>1. Inv => AnswersAreTrue
    <2> SUFFICES ASSUME Inv, NEW c \in Conns, conn[c].st = "done"
                 PROVE  /\ conn[c].err = ErrFenced => ~Matches(conn[c].rec)
                        /\ conn[c].err = ErrLeaseExpired => grants[IndexOf(conn[c].rec)].exit # ExitNone
      BY DEF AnswersAreTrue
    <2>1. conn[c].rec \in Issued
      BY DEF Inv, TypeInv, ConnsOK, ConnOK
    <2> QED BY <2>1 DEF Inv, AnswersOK, AnswerOK
  <1> QED BY <1>1, Invariance, PTL

(* A record that does not match its row never matches one again, also when *)
(* the row is deleted and inserted afresh under a token drawn earlier.     *)
THEOREM FencingIsForever == Spec => [][\A rec \in Issued : ~Matches(rec) => ~Matches(rec)']_vars
  <1>1. Inv /\ [Next]_vars => [\A rec \in Issued : ~Matches(rec) => ~Matches(rec)']_vars
    BY InvNext, FencedStays DEF Inv
  <1> QED BY <1>1, Invariance, PTL DEF Spec

(* The stored expiry falls short of the window that the client computes by *)
(* at most the age a statement may reach before it writes.                 *)
THEOREM WindowIsCoveredButForDelay == Spec => []ShortfallIsBounded
  BY Invariance, PTL DEF Inv

-----------------------------------------------------------------------------
(* What holds if no statement writes later than the grace interval after   *)
(* its NOW().                                                              *)

(* A row that a Renew or a Release still finds unexpired has no declared exit. *)
LEMMA UnexpiredIsOpen ==
    ASSUME MaxDelay <= Grace, TypeOK, ExitedIsExpired, NEW w \in DOMAIN rows, NEW at \in Nat,
           now - at <= MaxDelay, rows[w].expires_at > at
    PROVE  rows[w].exit_mode = ExitNone
  <1>1. rows[w].expires_at \in Int /\ now \in Int
    BY DEF TypeOK, Row
  <1>2. rows[w].exit_mode # ExitNone => rows[w].expires_at <= now - Grace
    BY DEF ExitedIsExpired
  <1> QED BY <1>1, <1>2

(* A new database has no row. *)
LEMMA ExitedInit == Init => ExitedIsExpired
  BY DEF Init, ExitedIsExpired

(* A declared exit stays expired, whatever its holder sent before. *)
LEMMA ExitedNext ==
    ASSUME MaxDelay <= Grace, Inv, ExitedIsExpired, [Next]_vars
    PROVE  ExitedIsExpired'
  <1>0. TypeInv /\ TypeOK /\ now \in Nat /\ \A x \in DOMAIN rows : rows[x].expires_at \in Int
    BY DEF Inv, TypeInv, TypeOK, Row
  <1>1. ASSUME now' \in Nat, now <= now',
               \A x \in DOMAIN rows' :
                  \/ x \in DOMAIN rows /\ rows'[x] = rows[x]
                  \/ rows'[x].exit_mode = ExitNone
                  \/ \E a \in Nat : a <= now /\ rows'[x].expires_at = a - Grace
        PROVE  ExitedIsExpired'
    <2> SUFFICES ASSUME NEW x \in DOMAIN rows', rows'[x].exit_mode # ExitNone
                 PROVE  rows'[x].expires_at <= now' - Grace
      BY DEF ExitedIsExpired
    <2>1. CASE x \in DOMAIN rows /\ rows'[x] = rows[x]
      <3>1. rows[x].expires_at <= now - Grace /\ rows[x].expires_at \in Int
        BY <1>0, <2>1 DEF ExitedIsExpired
      <3> QED BY <1>0, <1>1, <2>1, <3>1
    <2>2. CASE \E a \in Nat : a <= now /\ rows'[x].expires_at = a - Grace
      <3>1. PICK a \in Nat : a <= now /\ rows'[x].expires_at = a - Grace
        BY <2>2
      <3>2. \A p, q, r \in Nat : p <= q /\ q <= r => p - Grace <= r - Grace
        OBVIOUS
      <3> QED BY <1>0, <1>1, <3>1, <3>2
    <2> QED BY <1>1, <2>1, <2>2
  <1>2. CASE Tick
    BY <1>0, <1>1, <1>2 DEF Tick
  <1>3. ASSUME NEW c \in Conns, Step(c) PROVE ExitedIsExpired'
    <2>1. ASSUME rows' = rows, now' = now PROVE ExitedIsExpired'
      BY <2>1 DEF ExitedIsExpired
    <2>2. CASE Begin(c)
      BY <1>0, <2>1, <2>2, BeginTyped
    <2>3. CASE AcquireDraws(c)
      BY <2>1, <2>3 DEF AcquireDraws
    <2>4. CASE Acquires(c)
      <3>1. PICK w, h, tok, at, n : RowAcquired(w, h, tok, at, n)
        BY <1>0, <2>4, AcquireEffect
      <3>2. now' = now
        BY <1>0, <2>4, AcquireEffect
      <3>3. \A x \in DOMAIN rows' :
               (x \in DOMAIN rows /\ rows'[x] = rows[x]) \/ rows'[x].exit_mode = ExitNone
        BY <3>1 DEF RowAcquired
      <3> QED BY <1>0, <1>1, <3>2, <3>3
    <2>5. CASE CheckpointWrites(c)
      <3>1. PICK w, i : RowWritten(w, i) /\ rows'[w].exit_mode = ExitNone
        BY <1>0, <2>5, CheckpointEffect
      <3>2. now' = now
        BY <2>5 DEF CheckpointWrites, Updates
      <3>3. \A x \in DOMAIN rows' :
               (x \in DOMAIN rows /\ rows'[x] = rows[x]) \/ rows'[x].exit_mode = ExitNone
        BY <3>1 DEF RowWritten
      <3> QED BY <1>0, <1>1, <3>2, <3>3
    <2>6. CASE RenewWrites(c)
      <3>1. PICK w, i : /\ RowWritten(w, i) /\ rows[w].expires_at > conn[c].at
                        /\ rows'[w].exit_mode = rows[w].exit_mode
        BY <1>0, <2>6, RenewEffect
      <3>2. /\ now' = now /\ conn[c].at \in Nat /\ now - conn[c].at <= MaxDelay
        BY <1>0, <2>6, HolderEffect DEF RenewWrites, HolderOps
      <3>3. rows'[w].exit_mode = ExitNone
        BY <1>0, <3>1, <3>2, UnexpiredIsOpen DEF RowWritten
      <3>4. \A x \in DOMAIN rows' :
               (x \in DOMAIN rows /\ rows'[x] = rows[x]) \/ rows'[x].exit_mode = ExitNone
        BY <3>1, <3>3 DEF RowWritten
      <3> QED BY <1>0, <1>1, <3>2, <3>4
    <2>7. CASE ReleaseWrites(c)
      <3>1. PICK w, i : RowWritten(w, i) /\ rows'[w].expires_at = conn[c].at - Grace
        BY <1>0, <2>7, ReleaseEffect
      <3>2. /\ now' = now /\ conn[c].at \in Nat /\ conn[c].at <= now
        BY <1>0, <2>7, HolderEffect DEF ReleaseWrites, HolderOps
      <3>3. \A x \in DOMAIN rows' :
               \/ x \in DOMAIN rows /\ rows'[x] = rows[x]
               \/ \E a \in Nat : a <= now /\ rows'[x].expires_at = a - Grace
        BY <3>1, <3>2 DEF RowWritten
      <3> QED BY <1>0, <1>1, <3>2, <3>3
    <2>8. CASE ForgetWrites(c) \/ SweepWrites(c)
      <3>1. PICK W : W \subseteq DOMAIN rows /\ Delete(W)
        BY <1>0, <2>8, DeleteSteps
      <3>2. now' = now
        BY <1>0, <2>8, DeleteSteps
      <3>3. \A x \in DOMAIN rows' : x \in DOMAIN rows /\ rows'[x] = rows[x]
        BY <1>0, <3>1, DeleteEffect
      <3> QED BY <1>0, <1>1, <3>2, <3>3
    <2>9. CASE AnswerStep(c)
      BY <1>0, <2>1, <2>9, AnswerTyped
    <2> QED BY <1>3, <2>2, <2>3, <2>4, <2>5, <2>6, <2>7, <2>8, <2>9, StepCases
  <1>4. CASE UNCHANGED vars
    BY <1>4 DEF vars, ExitedIsExpired
  <1> QED BY <1>2, <1>3, <1>4 DEF Next

(* Both invariants together, under the bound on delays. *)
THEOREM InvarianceWithinGrace ==
    ASSUME MaxDelay <= Grace
    PROVE  Spec => [](Inv /\ ExitedIsExpired)
  <1>1. Init => Inv /\ ExitedIsExpired
    BY InvInit, ExitedInit
  <1>2. Inv /\ ExitedIsExpired /\ [Next]_vars => (Inv /\ ExitedIsExpired)'
    BY InvNext, ExitedNext
  <1> QED BY <1>1, <1>2, PTL DEF Spec

(* A released work ID can be acquired at once, and stays so whatever its   *)
(* old holder sent before, if no statement writes later than the grace     *)
(* interval that Release subtracts.                                        *)
THEOREM ReleaseFreesTheLease ==
    ASSUME MaxDelay <= Grace
    PROVE  Spec => []HandoffIsImmediate
  <1>1. Inv /\ ExitedIsExpired => HandoffIsImmediate
    <2> SUFFICES ASSUME Inv, ExitedIsExpired, NEW w \in DOMAIN rows, rows[w].exit_mode # ExitNone
                 PROVE  rows[w].expires_at < now
      BY DEF HandoffIsImmediate
    <2>1. rows[w].expires_at <= now - Grace /\ rows[w].expires_at \in Int /\ now \in Int
      BY DEF ExitedIsExpired, Inv, TypeInv, TypeOK, Row
    <2> QED BY <2>1
  <1> QED BY <1>1, InvarianceWithinGrace, PTL

(* A row that is written belongs to the tenure that the contract calls     *)
(* current.                                                                *)
LEMMA WrittenIsCurrent ==
    ASSUME Inv, NEW w, NEW i, RowWritten(w, i)
    PROVE  Contract!Current(i) /\ grants[i].exit = rows[w].exit_mode
  <1>1. RowOK(w, i)
    BY RowIndex DEF Inv, RowWritten
  <1> QED BY <1>1 DEF RowOK, Written

(* A Release that writes finds its tenure open. *)
LEMMA ReleasedIsOpen ==
    ASSUME MaxDelay <= Grace, Inv, ExitedIsExpired, NEW c \in Conns, ReleaseWrites(c)
    PROVE  \E w, i :
              /\ RowWritten(w, i) /\ Contract!Open(i)
              /\ conn[c].arg \in DeclarableExits
              /\ grants'[i].saved = grants[i].saved /\ grants'[i].exit = conn[c].arg
  <1>0. TypeInv /\ TypeOK
    BY DEF Inv, TypeInv
  <1>1. PICK w, i : /\ RowWritten(w, i) /\ rows[w].expires_at > conn[c].at
                    /\ conn[c].arg \in DeclarableExits
                    /\ grants'[i].saved = grants[i].saved /\ grants'[i].exit = conn[c].arg
    BY <1>0, ReleaseEffect
  <1>2. conn[c].at \in Nat /\ now - conn[c].at <= MaxDelay
    BY <1>0, HolderEffect DEF ReleaseWrites, HolderOps
  <1>3. w \in DOMAIN rows /\ i \in DOMAIN grants
    BY <1>1 DEF RowWritten
  <1>4. rows[w].exit_mode = ExitNone
    BY <1>0, <1>1, <1>2, <1>3, UnexpiredIsOpen
  <1>5. Contract!Current(i) /\ grants[i].exit = ExitNone
    BY <1>1, <1>4, WrittenIsCurrent
  <1>6. Contract!Open(i)
    BY <1>3, <1>5, TenuresAre, ExitModesDistinct DEF Contract!Open
  <1> QED BY <1>1, <1>6

(* What each kind of step does to the declared exits. *)
LEMMA ExitsKept ==
    ASSUME MaxDelay <= Grace, Inv, ExitedIsExpired, [Next]_vars,
           NEW i \in DOMAIN grants, grants[i].exit # ExitNone
    PROVE  grants'[i].exit = grants[i].exit
  <1>0. TypeInv /\ TypeOK
    BY DEF Inv, TypeInv
  <1>1. ASSUME NEW c \in Conns, Step(c) PROVE grants'[i].exit = grants[i].exit
    <2>1. CASE Begin(c)
      BY <1>0, <2>1, BeginTyped
    <2>2. CASE AcquireDraws(c)
      BY <2>2 DEF AcquireDraws
    <2>3. CASE Acquires(c)
      <3>1. PICK w, h, tok, at, n : RowAcquired(w, h, tok, at, n)
        BY <1>0, <2>3, AcquireEffect
      <3> QED BY <3>1 DEF RowAcquired, Granted
    <2>4. CASE CheckpointWrites(c)
      <3>1. PICK w, k : RowWritten(w, k) /\ grants'[k].exit = grants[k].exit
        BY <1>0, <2>4, CheckpointEffect
      <3> QED BY <3>1 DEF RowWritten
    <2>5. CASE RenewWrites(c)
      <3>1. PICK w, k : RowWritten(w, k) /\ grants'[k].exit = grants[k].exit
        BY <1>0, <2>5, RenewEffect
      <3> QED BY <3>1 DEF RowWritten
    <2>6. CASE ReleaseWrites(c)
      <3>1. PICK w, k : RowWritten(w, k) /\ Contract!Open(k)
        BY <2>6, ReleasedIsOpen
      <3>2. k # i
        BY <3>1, TenuresAre, ExitModesDistinct DEF Contract!Open
      <3> QED BY <3>1, <3>2 DEF RowWritten
    <2>7. CASE ForgetWrites(c) \/ SweepWrites(c)
      <3>1. PICK W : W \subseteq DOMAIN rows /\ Delete(W)
        BY <1>0, <2>7, DeleteSteps
      <3> QED BY <1>0, <3>1, DeleteEffect
    <2>8. CASE AnswerStep(c)
      BY <1>0, <2>8, AnswerTyped
    <2> QED BY <1>1, <2>1, <2>2, <2>3, <2>4, <2>5, <2>6, <2>7, <2>8, StepCases
  <1>2. CASE Tick \/ UNCHANGED vars
    BY <1>2 DEF Tick, vars
  <1> QED BY <1>1, <1>2 DEF Next

(* A declared exit is never overwritten, if no statement writes later than *)
(* the grace interval that Release subtracts (queryRelease).               *)
THEOREM DeclaredExitIsFinal ==
    ASSUME MaxDelay <= Grace
    PROVE  Spec => ExitIsFinal
  <1>1. Inv /\ ExitedIsExpired /\ [Next]_vars =>
           [\A i \in DOMAIN grants :
               grants[i].exit # ExitNone => grants'[i].exit = grants[i].exit]_vars
    BY ExitsKept
  <1> QED BY <1>1, InvarianceWithinGrace, PTL DEF Spec, ExitIsFinal

-----------------------------------------------------------------------------
(* The rows implement the contract.                                        *)

(* Distinct tokens from 1 .. m are at most m. *)
LEMMA DistinctTokensFit ==
    ASSUME NEW n \in Nat, NEW m \in Nat, NEW f \in [1 .. n -> 1 .. m],
           \A i, j \in 1 .. n : f[i] = f[j] => i = j
    PROVE  n <= m
  <1>1. f \in Injection(1 .. n, 1 .. m)
    BY DEF Injection, IsInjective
  <1>2. IsFiniteSet(1 .. m) /\ Cardinality(1 .. m) = m
    <2>1. IsFiniteSet(1 .. m) /\ Cardinality(1 .. m) = IF 1 > m THEN 0 ELSE m - 1 + 1
      BY FS_Interval
    <2> QED BY <2>1
  <1>3. Cardinality(1 .. n) = n
    <2>1. Cardinality(1 .. n) = IF 1 > n THEN 0 ELSE n - 1 + 1
      BY FS_Interval
    <2> QED BY <2>1
  <1>4. Cardinality(1 .. n) <= Cardinality(1 .. m)
    BY <1>1, <1>2, FS_Injection
  <1> QED BY <1>2, <1>3, <1>4

(* So there are never more grants than the sequence has numbers. *)
LEMMA GrantsFitTheSequence ==
    ASSUME TypeInv'
    PROVE  DOMAIN grants' \subseteq 1 .. MaxSeq
  <1>1. grants' \in Seq(Grant) /\ seq' \in 0 .. MaxSeq
    BY DEF TypeInv, TypeOK
  <1>2. PICK n \in Nat : DOMAIN grants' = 1 .. n
    BY <1>1, LenProperties
  <1>3. PICK f : f = [i \in 1 .. n |-> grants'[i].token]
    OBVIOUS
  <1>4. \A i, j \in DOMAIN grants' : /\ grants'[i].token \in 1 .. seq'
                                     /\ grants'[i].token = grants'[j].token => i = j
    BY DEF TypeInv, TokensDiffer
  <1>5. f \in [1 .. n -> 1 .. seq'] /\ \A i, j \in 1 .. n : f[i] = f[j] => i = j
    BY <1>2, <1>3, <1>4
  <1>6. seq' \in Nat /\ seq' <= MaxSeq
    BY <1>1
  <1>7. n <= seq'
    BY <1>5, <1>6, DistinctTokensFit
  <1> QED BY <1>2, <1>6, <1>7

(* A tenure, spelt out. *)
LEMMA TenureRecord ==
    /\ Tenures = [i \in DOMAIN grants |-> Tenures[i]]
    /\ Tenures' = [i \in DOMAIN grants' |-> Tenures'[i]]
    /\ \A i \in DOMAIN grants :
          Tenures[i] = [work |-> grants[i].work, holder |-> grants[i].holder,
                        exit |-> grants[i].exit, saved |-> grants[i].saved,
                        erased |-> grants[i].erased]
    /\ \A i \in DOMAIN grants' :
          Tenures'[i] = [work |-> grants'[i].work, holder |-> grants'[i].holder,
                         exit |-> grants'[i].exit, saved |-> grants'[i].saved,
                         erased |-> grants'[i].erased]
  BY DEF Tenures

(* A write that changes no field of the contract's. *)
LEMMA TenuresKept ==
    ASSUME NEW w, NEW i, RowWritten(w, i),
           grants'[i].saved = grants[i].saved, grants'[i].exit = grants[i].exit
    PROVE  Tenures' = Tenures
  <1>1. DOMAIN grants' = DOMAIN grants
    BY DEF RowWritten
  <1>2. \A j \in DOMAIN grants : Tenures'[j] = Tenures[j]
    BY TenureKept DEF RowWritten
  <1> QED BY <1>1, <1>2, TenureRecord

(* A saved state is the contract's Save. *)
LEMMA SaveImplemented ==
    ASSUME NEW w, NEW i, RowWritten(w, i), NEW s, Contract!Open(i),
           grants'[i].saved = {s}, grants'[i].exit = grants[i].exit
    PROVE  Contract!Save(i, s) /\ i \in Contract!Tokens
  <1>1. i \in DOMAIN grants /\ DOMAIN grants' = DOMAIN grants /\ DOMAIN Tenures = DOMAIN grants
    BY TenuresAre DEF RowWritten
  <1>2. \A j \in DOMAIN grants : j # i => Tenures'[j] = Tenures[j]
    BY TenureKept DEF RowWritten
  <1>3. Tenures'[i] = [Tenures[i] EXCEPT !.saved = {s}]
    <2>1. /\ grants'[i].work = grants[i].work /\ grants'[i].holder = grants[i].holder
          /\ grants'[i].erased = grants[i].erased
      BY DEF RowWritten
    <2>2. Tenures'[i] = [work |-> grants[i].work, holder |-> grants[i].holder,
                          exit |-> grants[i].exit, saved |-> {s}, erased |-> grants[i].erased]
      BY <1>1, <2>1, TenureRecord
    <2>3. Tenures[i] = [work |-> grants[i].work, holder |-> grants[i].holder,
                         exit |-> grants[i].exit, saved |-> grants[i].saved, erased |-> grants[i].erased]
      BY <1>1, TenureRecord
    <2>4. ASSUME NEW v,
                 Tenures'[i] = [work |-> grants[i].work, holder |-> grants[i].holder,
                                exit |-> grants[i].exit, saved |-> v, erased |-> grants[i].erased]
          PROVE  Tenures'[i] = [Tenures[i] EXCEPT !.saved = v]
      BY <2>3, <2>4
    <2> QED BY <2>2, <2>4
  <1>4. Tenures' = [Tenures EXCEPT ![i].saved = {s}]
    BY <1>1, <1>2, <1>3, TenureRecord
  <1> QED BY <1>1, <1>4 DEF Contract!Save, Contract!Tokens

(* A released lease is the contract's Declare. *)
LEMMA DeclareImplemented ==
    ASSUME NEW w, NEW i, RowWritten(w, i), NEW mode, Contract!Open(i),
           grants'[i].saved = grants[i].saved, grants'[i].exit = mode
    PROVE  Contract!Declare(i, mode) /\ i \in Contract!Tokens
  <1>1. i \in DOMAIN grants /\ DOMAIN grants' = DOMAIN grants /\ DOMAIN Tenures = DOMAIN grants
    BY TenuresAre DEF RowWritten
  <1>2. \A j \in DOMAIN grants : j # i => Tenures'[j] = Tenures[j]
    BY TenureKept DEF RowWritten
  <1>3. Tenures'[i] = [Tenures[i] EXCEPT !.exit = mode]
    <2>1. /\ grants'[i].work = grants[i].work /\ grants'[i].holder = grants[i].holder
          /\ grants'[i].erased = grants[i].erased
      BY DEF RowWritten
    <2>2. Tenures'[i] = [work |-> grants[i].work, holder |-> grants[i].holder,
                          exit |-> mode, saved |-> grants[i].saved, erased |-> grants[i].erased]
      BY <1>1, <2>1, TenureRecord
    <2>3. Tenures[i] = [work |-> grants[i].work, holder |-> grants[i].holder,
                         exit |-> grants[i].exit, saved |-> grants[i].saved, erased |-> grants[i].erased]
      BY <1>1, TenureRecord
    <2> QED BY <2>2, <2>3
  <1>4. Tenures' = [Tenures EXCEPT ![i].exit = mode]
    BY <1>1, <1>2, <1>3, TenureRecord
  <1> QED BY <1>1, <1>4 DEF Contract!Declare, Contract!Tokens

(* A grant is the contract's Grant, under the next number. *)
LEMMA GrantImplemented ==
    ASSUME TypeInv', NEW w, NEW h, NEW tok, NEW at, NEW n, RowAcquired(w, h, tok, at, n)
    PROVE  /\ n \in 1 .. MaxSeq /\ w \in WorkIDs /\ h \in HolderIDs
           /\ Contract!Grant(n, w, h)
  <1>1. Granted(w, h, tok, at, n) /\ w \in WorkIDs /\ h \in HolderIDs
    BY DEF RowAcquired
  <1>2. /\ n \in Nat /\ \A i \in DOMAIN grants : i \in Nat /\ i < n
        /\ DOMAIN grants' = DOMAIN grants \union {n}
        /\ \A i \in DOMAIN grants : grants'[i] = grants[i]
        /\ grants'[n].work = w /\ grants'[n].holder = h /\ grants'[n].exit = ExitNone
        /\ grants'[n].saved = {} /\ grants'[n].erased = FALSE
    BY <1>1 DEF Granted
  <1>3. n \in 1 .. MaxSeq
    BY <1>2, GrantsFitTheSequence
  <1>4. /\ n \notin DOMAIN grants /\ \A i \in DOMAIN grants : Tenures'[i] = Tenures[i]
        /\ DOMAIN Tenures = DOMAIN grants
    BY <1>2, TenureKept, TenuresAre
  <1>5. Tenures'[n] = [work |-> w, holder |-> h, exit |-> ExitNone, saved |-> {}, erased |-> FALSE]
    BY <1>2, TenureRecord
  <1>6. Tenures' = [u \in DOMAIN Tenures \union {n} |->
                      IF u = n THEN Contract!NewTenure(w, h) ELSE Tenures[u]]
    BY <1>2, <1>4, <1>5, TenureRecord, ExitModesDistinct DEF Contract!NewTenure
  <1> QED BY <1>1, <1>2, <1>3, <1>4, <1>6 DEF Contract!Grant, Contract!Tokens

(* Forget and Sweep are the contract's Erase, of current tenures only. *)
LEMMA EraseImplemented ==
    ASSUME Inv, NEW W, W \subseteq DOMAIN rows, Delete(W)
    PROVE  \E T \in SUBSET {t \in Contract!Tokens : Contract!Current(t)} : Contract!Erase(T)
  <1> DEFINE T == {i \in DOMAIN grants : Belongs(i, W)}
  <1>1. DOMAIN grants' = DOMAIN grants /\ DOMAIN Tenures = DOMAIN grants
    BY TenuresAre DEF Delete
  <1>2. \A i \in T : Contract!Current(i)
    <2> TAKE i \in T
    <2>1. PICK w \in W : grants[i].work = w /\ grants[i].token = rows[w].fencing_token
      BY DEF Belongs
    <2>2. RowOK(w, i)
      BY <2>1, RowIndex DEF Inv
    <2> QED BY <2>2 DEF RowOK
  <1>3. ASSUME NEW i \in DOMAIN grants
        PROVE  Tenures'[i] = IF i \in T THEN [Tenures[i] EXCEPT !.erased = TRUE] ELSE Tenures[i]
    <2>0. grants[i] \in Grant
      BY GrantsTyped DEF Inv, TypeInv
    <2>1. grants'[i] = IF Belongs(i, W) THEN [grants[i] EXCEPT !.erased = TRUE] ELSE grants[i]
      BY DEF Delete, Belongs
    <2>2. CASE i \in T
      <3>1. /\ grants'[i].work = grants[i].work /\ grants'[i].holder = grants[i].holder
            /\ grants'[i].exit = grants[i].exit /\ grants'[i].saved = grants[i].saved
            /\ grants'[i].erased = TRUE
        BY <2>0, <2>1, <2>2 DEF Grant
      <3> QED BY <1>1, <2>2, <3>1, TenureRecord
    <2>3. CASE i \notin T
      BY <1>1, <2>1, <2>3, TenureKept
    <2> QED BY <2>2, <2>3
  <1>4. Tenures' = [t \in DOMAIN Tenures |->
                      IF t \in T THEN [Tenures[t] EXCEPT !.erased = TRUE] ELSE Tenures[t]]
    BY <1>1, <1>3, TenureRecord
  <1>5. T \in SUBSET {t \in Contract!Tokens : Contract!Current(t)}
    BY <1>1, <1>2 DEF Contract!Tokens
  <1>6. Contract!Erase(T)
    BY <1>4 DEF Contract!Erase, Contract!Tokens
  <1> QED BY <1>5, <1>6

(* Every step is a step of the contract, or changes nothing it sees. *)
LEMMA StepsImplementContract ==
    ASSUME MaxDelay <= Grace, Inv, ExitedIsExpired, [Next]_vars
    PROVE  [Contract!Next]_Tenures
  <1>0. TypeInv /\ TypeInv'
    BY TypeNext DEF Inv
  <1>1. ASSUME grants' = grants PROVE Tenures' = Tenures
    BY <1>1 DEF Tenures
  <1>2. ASSUME NEW c \in Conns, Step(c) PROVE [Contract!Next]_Tenures
    <2>1. CASE Begin(c)
      BY <1>0, <1>1, <2>1, BeginTyped
    <2>2. CASE AcquireDraws(c)
      BY <1>1, <2>2 DEF AcquireDraws
    <2>3. CASE Acquires(c)
      <3>1. PICK w, h, tok, at, n : RowAcquired(w, h, tok, at, n)
        BY <1>0, <2>3, AcquireEffect
      <3>2. n \in 1 .. MaxSeq /\ w \in WorkIDs /\ h \in HolderIDs /\ Contract!Grant(n, w, h)
        BY <1>0, <3>1, GrantImplemented
      <3> QED BY <3>2 DEF Contract!Next
    <2>4. CASE CheckpointWrites(c)
      <3>1. PICK w, i : /\ RowWritten(w, i) /\ rows[w].exit_mode = ExitNone
                        /\ conn[c].arg \in States \union {NoState}
                        /\ grants'[i].saved = {conn[c].arg} /\ grants'[i].exit = grants[i].exit
        BY <1>0, <2>4, CheckpointEffect
      <3>2. Contract!Current(i) /\ grants[i].exit = ExitNone /\ i \in DOMAIN grants
        <4>1. i \in DOMAIN grants
          BY <3>1 DEF RowWritten
        <4> QED BY <3>1, <4>1, WrittenIsCurrent
      <3>3. Contract!Open(i)
        BY <3>2, TenuresAre, ExitModesDistinct DEF Contract!Open
      <3>4. Contract!Save(i, conn[c].arg) /\ i \in Contract!Tokens
        BY <3>1, <3>3, SaveImplemented
      <3> QED BY <3>1, <3>4 DEF Contract!Next
    <2>5. CASE RenewWrites(c)
      <3>1. PICK w, i : /\ RowWritten(w, i)
                        /\ grants'[i].saved = grants[i].saved /\ grants'[i].exit = grants[i].exit
        BY <1>0, <2>5, RenewEffect
      <3> QED BY <3>1, TenuresKept
    <2>6. CASE ReleaseWrites(c)
      <3>1. PICK w, i : /\ RowWritten(w, i) /\ Contract!Open(i) /\ conn[c].arg \in DeclarableExits
                        /\ grants'[i].saved = grants[i].saved /\ grants'[i].exit = conn[c].arg
        BY <2>6, ReleasedIsOpen
      <3>2. Contract!Declare(i, conn[c].arg) /\ i \in Contract!Tokens
        BY <3>1, DeclareImplemented
      <3> QED BY <3>1, <3>2, ExitModesDistinct DEF Contract!Next
    <2>7. CASE ForgetWrites(c) \/ SweepWrites(c)
      <3>1. PICK W : W \subseteq DOMAIN rows /\ Delete(W)
        BY <1>0, <2>7, DeleteSteps
      <3>2. \E T \in SUBSET {t \in Contract!Tokens : Contract!Current(t)} : Contract!Erase(T)
        BY <3>1, EraseImplemented
      <3> QED BY <3>2 DEF Contract!Next
    <2>8. CASE AnswerStep(c)
      BY <1>0, <1>1, <2>8, AnswerTyped
    <2> QED BY <1>2, <2>1, <2>2, <2>3, <2>4, <2>5, <2>6, <2>7, <2>8, StepCases
  <1>3. CASE Tick \/ UNCHANGED vars
    BY <1>1, <1>3 DEF Tick, vars
  <1> QED BY <1>2, <1>3 DEF Next

(* The PostgreSQL backend implements the contract of package backend, in   *)
(* the order in which it grants, if no statement writes later than the     *)
(* grace interval after its NOW().                                         *)
THEOREM PostgresImplementsContract ==
    ASSUME MaxDelay <= Grace
    PROVE  Spec => ImplementsContract
  <1>1. Init => Contract!Init
    <2> SUFFICES ASSUME Init PROVE Tenures = [t \in {} |-> Contract!NewTenure(t, t)]
      BY DEF Contract!Init
    <2>1. DOMAIN grants = {}
      BY DEF Init
    <2>2. Tenures = [t \in {} |-> Tenures[t]]
      BY <2>1, TenureRecord
    <2> QED BY <2>2
  <1>2. Inv /\ ExitedIsExpired /\ [Next]_vars => [Contract!Next]_Tenures
    BY StepsImplementContract
  <1> QED BY <1>1, <1>2, InvarianceWithinGrace, PTL DEF Spec, ImplementsContract, Contract!Spec
=============================================================================
