-------------------------- MODULE LeaseServiceProofs ---------------------------
(***************************************************************************)
(* What the calls of LeaseService may do to the ledger, for any names,     *)
(* states and tokens: the lemmas that the proofs about Runner, Leader,     *)
(* Pool and Migration share.                                               *)
(***************************************************************************)
EXTENDS LeaseService, TLAPS

(* The ledger has its type. *)
LedgerOK == Tokens \subseteq TokenSpace /\ \A t \in Tokens : ledger[t] \in C!Tenure

(* A tenure stays in the ledger, under its work ID, and what was deleted   *)
(* stays deleted.                                                          *)
LedgerAges ==
    /\ Tokens \subseteq Tokens'
    /\ \A u \in Tokens : /\ ledger'[u].work = ledger[u].work
                         /\ ledger[u].erased => ledger'[u].erased

(* What the holder of u wrote is left alone. *)
WritesKept(u) == ledger'[u].exit = ledger[u].exit /\ ledger'[u].saved = ledger[u].saved

(* The exit modes are distinct, here and in the contract. *)
LEMMA ExitsDistinct ==
    /\ C!ExitNone = ExitNone /\ C!StoredExits = StoredExits
    /\ C!DeclarableExits = DeclarableExits
    /\ ExitNone \in StoredExits /\ DeclarableExits \subseteq StoredExits
    /\ ExitNone \notin DeclarableExits
    /\ {ExitFinished, ExitRetired, ExitAbandoned} = DeclarableExits
    /\ ExitFinished # ExitRetired /\ ExitFinished # ExitAbandoned /\ ExitRetired # ExitAbandoned
    /\ \A e : C!CapturedExit(e) = CapturedExit(e)
  BY DEF ExitNone, ExitFinished, ExitAbandoned, ExitRetired, ExitExpired, DeclarableExits,
         StoredExits, CapturedExit, C!ExitNone, C!ExitFinished, C!ExitAbandoned,
         C!ExitRetired, C!ExitExpired, C!StoredExits, C!DeclarableExits, C!CapturedExit

(* A token that no longer matches the stored lease never matches again:    *)
(* only a newer tenure or a deletion ends the match, and neither is undone. *)
LEMMA FencedStays ==
    ASSUME LedgerAges, NEW t \in Tokens, Fenced(t)
    PROVE  Fenced(t)'
  BY DEF LedgerAges, Fenced, C!Current, C!Newest, C!Tokens, Tokens

(* A grant adds an open tenure under a new token, and touches no other. *)
LEMMA GrantAdds ==
    ASSUME LedgerOK, TokenSpace \subseteq Nat, NEW t \in TokenSpace,
           NEW w \in WorkIDs, NEW h \in HolderIDs, C!Grant(t, w, h)
    PROVE  /\ LedgerOK' /\ LedgerAges
           /\ t \notin Tokens /\ Tokens' = Tokens \union {t}
           /\ ledger'[t].work = w /\ ledger'[t].exit = ExitNone /\ ledger'[t].saved = {}
           /\ ledger'[t].erased = FALSE /\ ledger'[t].holder = h
           /\ \A u \in Tokens : ledger'[u] = ledger[u]
  <1>1. t \notin Tokens
    BY DEF C!Grant, C!Tokens, Tokens
  <1>2. /\ Tokens' = Tokens \union {t} /\ ledger'[t] = C!NewTenure(w, h)
        /\ \A u \in Tokens : ledger'[u] = ledger[u]
    BY <1>1 DEF C!Grant, C!Tokens, Tokens
  <1>3. C!NewTenure(w, h) \in C!Tenure
    BY ExitsDistinct DEF C!NewTenure, C!Tenure
  <1>4. /\ C!NewTenure(w, h).work = w /\ C!NewTenure(w, h).exit = ExitNone
        /\ C!NewTenure(w, h).saved = {} /\ C!NewTenure(w, h).erased = FALSE
        /\ C!NewTenure(w, h).holder = h
    BY ExitsDistinct DEF C!NewTenure
  <1> QED BY <1>1, <1>2, <1>3, <1>4 DEF LedgerOK, LedgerAges

(* A save changes the saved state of one open tenure. *)
LEMMA SaveStores ==
    ASSUME LedgerOK, NEW t \in Tokens, NEW s \in States \union {NoState}, C!Save(t, s)
    PROVE  /\ LedgerOK' /\ LedgerAges /\ Tokens' = Tokens
           /\ ledger[t].exit = ExitNone /\ ~Fenced(t)
           /\ ledger'[t].exit = ledger[t].exit /\ ledger'[t].saved = {s}
           /\ ledger'[t].erased = ledger[t].erased
           /\ \A u \in Tokens : u # t => ledger'[u] = ledger[u]
  <1>1. /\ Tokens' = Tokens
        /\ \A u \in Tokens : u # t => ledger'[u] = ledger[u]
        /\ ledger'[t] = [ledger[t] EXCEPT !.saved = {s}]
    BY DEF C!Save, Tokens
  <1>2. ledger[t] \in C!Tenure
    BY DEF LedgerOK
  <1>3. /\ ledger'[t] \in C!Tenure /\ ledger'[t].saved = {s}
        /\ ledger'[t].exit = ledger[t].exit /\ ledger'[t].work = ledger[t].work
        /\ ledger'[t].erased = ledger[t].erased
    BY <1>1, <1>2 DEF C!Tenure
  <1>4. ledger[t].exit = ExitNone /\ ~Fenced(t)
    BY ExitsDistinct DEF C!Save, C!Open, Fenced
  <1> QED BY <1>1, <1>3, <1>4 DEF LedgerOK, LedgerAges

(* A declaration changes the exit of one open tenure. *)
LEMMA DeclareRecords ==
    ASSUME LedgerOK, NEW t \in Tokens, NEW m \in DeclarableExits, C!Declare(t, m)
    PROVE  /\ LedgerOK' /\ LedgerAges /\ Tokens' = Tokens
           /\ ledger[t].exit = ExitNone /\ ~Fenced(t)
           /\ ledger'[t].exit = m /\ ledger'[t].saved = ledger[t].saved
           /\ ledger'[t].erased = ledger[t].erased
           /\ \A u \in Tokens : u # t => ledger'[u] = ledger[u]
  <1>1. /\ Tokens' = Tokens
        /\ \A u \in Tokens : u # t => ledger'[u] = ledger[u]
        /\ ledger'[t] = [ledger[t] EXCEPT !.exit = m]
    BY DEF C!Declare, Tokens
  <1>2. ledger[t] \in C!Tenure
    BY DEF LedgerOK
  <1>3. /\ ledger'[t] \in C!Tenure /\ ledger'[t].exit = m
        /\ ledger'[t].saved = ledger[t].saved /\ ledger'[t].work = ledger[t].work
        /\ ledger'[t].erased = ledger[t].erased
    BY <1>1, <1>2, ExitsDistinct DEF C!Tenure
  <1>4. ledger[t].exit = ExitNone /\ ~Fenced(t)
    BY ExitsDistinct DEF C!Declare, C!Open, Fenced
  <1> QED BY <1>1, <1>3, <1>4 DEF LedgerOK, LedgerAges

(* A deletion of the stored row changes nothing that a holder wrote. *)
LEMMA RowDeletedKeeps ==
    ASSUME LedgerOK, NEW t \in Tokens, RowDeleted(t)
    PROVE  /\ LedgerOK' /\ LedgerAges /\ Tokens' = Tokens
           /\ \A u \in Tokens : WritesKept(u)
  <1>1. /\ Tokens' = Tokens
        /\ \A u \in Tokens : u # t => ledger'[u] = ledger[u]
        /\ ledger'[t] = [ledger[t] EXCEPT !.erased = TRUE]
    BY DEF RowDeleted, C!Erase, C!Tokens, Tokens
  <1>2. ledger[t] \in C!Tenure
    BY DEF LedgerOK
  <1>3. /\ ledger'[t] \in C!Tenure /\ ledger'[t].exit = ledger[t].exit
        /\ ledger'[t].saved = ledger[t].saved /\ ledger'[t].work = ledger[t].work
        /\ ledger'[t].erased
    BY <1>1, <1>2 DEF C!Tenure
  <1> QED BY <1>1, <1>3 DEF LedgerOK, LedgerAges, WritesKept

(* A step that leaves the ledger alone. *)
LEMMA NothingWritten ==
    ASSUME UNCHANGED ledger, LedgerOK
    PROVE  LedgerOK' /\ LedgerAges /\ Tokens' = Tokens /\ \A u \in Tokens : WritesKept(u)
  BY DEF LedgerOK, LedgerAges, Tokens, WritesKept

-----------------------------------------------------------------------------
(* The calls, whatever they answer. *)

(* Acquire answers with the error of a call of its own kind, and grants a  *)
(* tenure whenever it answers OK; a fault may hide a grant.                *)
LEMMA AcquireEffect ==
    ASSUME LedgerOK, TokenSpace \subseteq Nat, NEW t \in TokenSpace,
           NEW w \in WorkIDs, NEW h \in HolderIDs, NEW err, AcquireCall(w, h, t, err)
    PROVE  /\ LedgerOK' /\ LedgerAges
           /\ \A u \in Tokens : WritesKept(u)
           /\ err \in {OK, ErrLeaseHeld} \union Faults
           /\ err = OK => C!Grant(t, w, h)
  <1>1. CASE C!Grant(t, w, h) /\ err \in Faults \union {OK}
    BY <1>1, GrantAdds DEF WritesKept
  <1>2. CASE UNCHANGED ledger /\ err \in Faults \union {ErrLeaseHeld}
    BY <1>2, NothingWritten DEF Faults, OK, ErrLeaseHeld, ErrOther, ErrContext
  <1> QED BY <1>1, <1>2 DEF AcquireCall

(* Checkpoint writes to its own tenure only, never its exit; it answers OK *)
(* when the state is stored, ErrFenced only to a fenced token.             *)
LEMMA CheckpointEffect ==
    ASSUME LedgerOK, NEW t \in Tokens, NEW s \in States \union {NoState}, NEW err,
           CheckpointCall(t, s, err)
    PROVE  /\ LedgerOK' /\ LedgerAges /\ Tokens' = Tokens
           /\ \A u \in Tokens : u # t => WritesKept(u)
           /\ ledger'[t].exit = ledger[t].exit
           /\ ledger'[t].saved \in {ledger[t].saved, {s}}
           /\ ledger'[t].saved # ledger[t].saved => ~Fenced(t)
           /\ err = OK => ledger'[t].saved = {s}
           /\ err = ErrFenced => Fenced(t)
  <1>1. CASE C!Save(t, s) /\ err \in Faults \union {OK}
    BY <1>1, SaveStores DEF WritesKept, Faults, OK, ErrFenced, ErrOther, ErrContext
  <1>2. CASE UNCHANGED ledger /\ err # OK /\ (err = ErrFenced => Fenced(t))
    BY <1>2, NothingWritten DEF WritesKept
  <1> QED BY <1>1, <1>2
          DEF CheckpointCall, Faults, OK, ErrFenced, ErrLeaseExpired, ErrOther, ErrContext

(* Release writes the exit of its own tenure only, once; it answers OK     *)
(* when the exit is recorded, ErrFenced only to a fenced token.            *)
LEMMA ReleaseEffect ==
    ASSUME LedgerOK, NEW t \in Tokens, NEW m \in DeclarableExits, NEW err,
           ReleaseCall(t, m, err)
    PROVE  /\ LedgerOK' /\ LedgerAges /\ Tokens' = Tokens
           /\ \A u \in Tokens : u # t => WritesKept(u)
           /\ ledger'[t].saved = ledger[t].saved
           /\ ledger'[t].exit \in {ledger[t].exit, m}
           /\ err = OK => ledger'[t].exit = m
           /\ err = ErrFenced => Fenced(t)
  <1>1. CASE C!Declare(t, m) /\ err \in Faults \union {OK}
    BY <1>1, DeclareRecords DEF WritesKept, Faults, OK, ErrFenced, ErrOther, ErrContext
  <1>2. CASE UNCHANGED ledger /\ err # OK /\ (err = ErrFenced => Fenced(t))
    BY <1>2, NothingWritten DEF WritesKept
  <1> QED BY <1>1, <1>2
          DEF ReleaseCall, Faults, OK, ErrFenced, ErrLeaseExpired, ErrOther, ErrContext
=============================================================================
