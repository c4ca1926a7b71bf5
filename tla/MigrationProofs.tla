--------------------------- MODULE MigrationProofs ---------------------------
(***************************************************************************)
(* Proofs about Migration, for any list of distinct tenants, any number of *)
(* coordinators on any work IDs, and any tokens.                           *)
(***************************************************************************)
EXTENDS Migration, RunnerProofs, SequenceTheorems

USE MigrationAssumption, RunnerAssumption, NamesAssumption

-----------------------------------------------------------------------------
(* The inductive invariant.  A cursor is a prefix of the list of tenants;  *)
(* what a tenure or a coordinator lists was migrated; and a coordinator    *)
(* lists at least what every tenure before it listed, unless the row was   *)
(* deleted in between.                                                     *)

Prefix(n) == SubSeq(tenants, 1, n)

Prefixes == {Prefix(n) : n \in 0..Len(tenants)}

Cursors == {Encode(p) : p \in Prefixes}

Done == {x \in Tenants : migrated[x] # {}}

(* The newest tenure of a work ID, and the one before a tenure, exist. *)
HasNewest == \A t \in Tokens : \E v \in Tokens : ledger[v].work = ledger[t].work /\ C!Newest(v)

HasPredecessor ==
    \A t, u \in Tokens : (t < u /\ ledger[t].work = ledger[u].work) =>
        \E p \in Tokens : C!Predecessor(p, u)

(* What the tenures stored and declared. *)
TenureTrue(t) ==
    /\ ledger[t].saved \subseteq Cursors /\ \A state, other \in ledger[t].saved : state = other
    /\ \A state \in ledger[t].saved : Listed(Decode(state)) \subseteq Done
    /\ ledger[t].exit # ExitFinished
    /\ ledger[t].exit = ExitRetired => Done = Tenants

(* S holds every tenant that a cursor lists which reaches tenure u from before. *)
Covers(S, u) ==
    \A t \in Tokens : (t < u /\ C!Reaches(t, u)) =>
        \A state \in ledger[t].saved : Listed(Decode(state)) \subseteq S

CursorsGrow == \A u \in Tokens : \A state \in ledger[u].saved : Covers(Listed(Decode(state)), u)

NotRedone ==
    \A t, u \in Tokens : (t < u /\ C!Reaches(t, u)) =>
        \A state \in ledger[t].saved : \A x \in Listed(Decode(state)) : u \notin migrated[x]

(* What a coordinator knows: of the tenants, ... *)
KnowsTrue(r) ==
    /\ progress[r] \in Prefixes /\ Listed(progress[r]) \subseteq Done
    /\ kept[r] \in Cursors \union {NoState} /\ Listed(Decode(kept[r])) \subseteq Done
    /\ final[r] \in Cursors \union {NoState} /\ Listed(Decode(final[r])) \subseteq Done
    /\ workErr[r] = ErrRetire \/ at[r] = "keep retired" => Done = Tenants
    /\ workErr[r] # NilErr

(* ... and of the cursors before its own. *)
KnowsEarlier(r) ==
    /\ pc[r] = "acquired" => ledger[tok[r]].saved = {}
    /\ pc[r] = "working" =>
          /\ at[r] \in {"loop", "save", "keep retired", WorkFailed, ErrFenced}
          /\ at[r] \in {"loop", "save"} => Covers(Listed(progress[r]), tok[r])
          /\ at[r] = "keep retired" => Covers(Listed(Decode(kept[r])), tok[r])
    /\ (pc[r] \in {"worked", "cleanup"} /\ final[r] # NoState) => Covers(Listed(Decode(final[r])), tok[r])

WorkTypeOK ==
    /\ at \in [Runs -> {"start", "loop", "save", "keep retired", WorkFailed, ErrFenced}]
    /\ kept \in [Runs -> States \union {NoState}]
    /\ progress \in [Runs -> Seq(Tenants)]
    /\ migrated \in [Tenants -> SUBSET Tokens]

LedgerInv ==
    HasNewest /\ HasPredecessor /\ (\A t \in Tokens : TenureTrue(t)) /\ CursorsGrow /\ NotRedone

MigrationInv ==
    Inv /\ WorkTypeOK /\ LedgerInv /\ \A r \in Runs : KnowsTrue(r) /\ KnowsEarlier(r)

-----------------------------------------------------------------------------
(* Cursors. *)

(* A prefix lists its tenants; the next tenant makes it the next prefix. *)
LEMMA PrefixFacts ==
    ASSUME NEW n \in 0..Len(tenants)
    PROVE  /\ Prefix(n) \in Seq(Tenants) /\ DOMAIN Prefix(n) = 1..n
           /\ Listed(Prefix(n)) = {tenants[i] : i \in 1..n}
           /\ n < Len(tenants) => Append(Prefix(n), tenants[n + 1]) = Prefix(n + 1)
  <1>0. /\ n \in Nat /\ Len(tenants) \in Nat /\ DOMAIN tenants = 1..Len(tenants)
        /\ \A i \in 1..Len(tenants) : tenants[i] \in Tenants
    BY LenProperties
  <1>1. /\ Prefix(n) \in Seq(Tenants) /\ Len(Prefix(n)) = n
        /\ \A i \in 1..n : Prefix(n)[i] = tenants[i]
    <2>1. \A i \in 1..n : tenants[i] \in Tenants
      BY <1>0
    <2> QED BY <1>0, <2>1, SubSeqProperties DEF Prefix
  <1>2. DOMAIN Prefix(n) = 1..n
    BY <1>1, LenProperties
  <1>3. Listed(Prefix(n)) = {tenants[i] : i \in 1..n}
    BY <1>1, <1>2 DEF Listed
  <1>4. ASSUME n < Len(tenants)
        PROVE  Append(Prefix(n), tenants[n + 1]) = Prefix(n + 1)
    <2>1. n + 1 \in 1..Len(tenants) /\ 1 \in 1..Len(tenants) /\ n + 1 \in 1..Len(tenants) /\ (n + 1) - 1 = n
      BY <1>0, <1>4
    <2>2. Prefix(n + 1) = Prefix(n) \o <<tenants[n + 1]>>
      BY <2>1, SubSeqRecursiveSecond DEF Prefix
    <2>3. tenants[n + 1] \in Tenants
      BY <1>0, <2>1
    <2>4. Append(Prefix(n), tenants[n + 1]) = Prefix(n) \o <<tenants[n + 1]>>
      BY <1>1, <2>3, AppendIsConcat
    <2> QED BY <2>2, <2>4
  <1> QED BY <1>1, <1>2, <1>3, <1>4

(* A cursor is a state, and decodes to the prefix it encodes. *)
LEMMA CursorFacts ==
    /\ \A p \in Prefixes : /\ Encode(p) \in Cursors /\ Decode(Encode(p)) = p
                           /\ p \in Seq(Tenants) /\ Listed(p) \subseteq Tenants
    /\ Cursors \subseteq States /\ NoState \notin Cursors
    /\ Decode(NoState) = <<>> /\ Listed(<<>>) = {} /\ <<>> \in Prefixes
  <1>1. ASSUME NEW p \in Prefixes
        PROVE  /\ Encode(p) \in States /\ Encode(p) \in Cursors /\ Decode(Encode(p)) = p
               /\ p \in Seq(Tenants) /\ Listed(p) \subseteq Tenants
    <2>1. PICK n \in 0..Len(tenants) : p = Prefix(n)
      BY DEF Prefixes
    <2>2. Encode(p) \in States
      BY <2>1 DEF Prefix
    <2>3. Encode(p) # NoState
      BY <2>2
    <2>4. Decode(Encode(p)) = p
      BY <2>3 DEF Decode, Encode
    <2>5. DOMAIN tenants = 1..Len(tenants) /\ n \in Int /\ Len(tenants) \in Nat
      BY LenProperties
    <2>6. Listed(p) \subseteq Tenants
      <3>1. \A i \in 1..n : tenants[i] \in Tenants
        BY <2>5, LenProperties
      <3> QED BY <2>1, <3>1, PrefixFacts
    <2> QED BY <2>1, <2>2, <2>4, <2>6, PrefixFacts DEF Cursors
  <1>2. <<>> \in Prefixes
    <2>1. Len(tenants) \in Nat
      BY LenProperties
    <2>2. Prefix(0) = <<>>
      BY SubSeqEmpty DEF Prefix
    <2> QED BY <2>1, <2>2 DEF Prefixes
  <1>3. Decode(NoState) = <<>>
    BY DEF Decode
  <1>4. Listed(<<>>) = {}
    BY DEF Listed
  <1>5. Cursors \subseteq States /\ NoState \notin Cursors
    BY <1>1 DEF Cursors
  <1> QED BY <1>1, <1>2, <1>3, <1>4, <1>5

(* Migrating the next tenant leads from prefix to prefix. *)
LEMMA NextExtendsPrefix ==
    ASSUME NEW r \in Runs, progress[r] \in Prefixes, NEW x, IsNext(r, x)
    PROVE  /\ Append(progress[r], x) \in Prefixes /\ x \in Tenants
           /\ x \notin Listed(progress[r])
           /\ Listed(Append(progress[r], x)) = Listed(progress[r]) \union {x}
  <1>0. /\ Len(tenants) \in Nat /\ DOMAIN tenants = 1..Len(tenants)
        /\ \A i \in 1..Len(tenants) : tenants[i] \in Tenants
    BY LenProperties
  <1>1. PICK n \in 0..Len(tenants) : progress[r] = Prefix(n)
    BY DEF Prefixes
  <1>2. PICK i \in 1..Len(tenants) :
            /\ x = tenants[i] /\ x \in Remaining(r)
            /\ \A j \in 1..(i - 1) : tenants[j] \notin Remaining(r)
    BY <1>0 DEF IsNext
  <1>3. Listed(progress[r]) = {tenants[k] : k \in 1..n}
    BY <1>1, PrefixFacts
  <1>4. i > n
    BY <1>0, <1>2, <1>3 DEF Remaining
  <1>5. ASSUME i > n + 1 PROVE FALSE
    <2>1. n + 1 \in 1..(i - 1) /\ n + 1 \in 1..Len(tenants)
      BY <1>0, <1>5
    <2>2. tenants[n + 1] \in Listed(progress[r])
      BY <1>0, <1>2, <2>1 DEF Remaining
    <2>3. PICK k \in 1..n : tenants[n + 1] = tenants[k]
      BY <1>3, <2>2
    <2>4. k \in DOMAIN tenants /\ n + 1 \in DOMAIN tenants /\ k # n + 1
      BY <1>0, <2>1
    <2> QED BY <2>3, <2>4
  <1>6. i = n + 1 /\ n < Len(tenants) /\ n + 1 \in 0..Len(tenants)
    BY <1>0, <1>4, <1>5
  <1>7. Append(progress[r], x) = Prefix(n + 1)
    BY <1>1, <1>2, <1>6, PrefixFacts
  <1>8. Listed(Prefix(n + 1)) = {tenants[k] : k \in 1..(n + 1)}
    BY <1>6, PrefixFacts
  <1>9. {tenants[k] : k \in 1..(n + 1)} = {tenants[k] : k \in 1..n} \union {tenants[n + 1]}
    BY <1>0, <1>6
  <1> QED BY <1>0, <1>2, <1>3, <1>6, <1>7, <1>8, <1>9 DEF Prefixes, Remaining

-----------------------------------------------------------------------------
(* Frames: what a step leaves of the ledger of the others. *)

(* What reaches a tenure from before it does not grow: the row in between  *)
(* may be deleted, but a tenure with a successor is not written to.        *)
LEMMA ReachesShrinks ==
    ASSUME LedgerAges, NEW t \in Tokens, NEW u \in Tokens,
           ledger'[t].saved = ledger[t].saved, C!Reaches(t, u)'
    PROVE  C!Reaches(t, u)
  BY DEF LedgerAges, C!Reaches, C!Tokens, Tokens

(* Only the newest tenure of a work ID is written to. *)
OnlyNewestWritten == \A t \in Tokens : ledger'[t].saved # ledger[t].saved => C!Newest(t)

(* What reaches a tenure from before reached it already, and is the same. *)
HistoryKept ==
    \A u \in Tokens, t \in Tokens' : (t < u /\ C!Reaches(t, u)') =>
        t \in Tokens /\ ledger'[t].saved = ledger[t].saved /\ C!Reaches(t, u)

(* New tokens are greater, and only newest tenures are written to: so      *)
(* history stays as it is.                                                 *)
LEMMA HistoryIsKept ==
    ASSUME LedgerOK, LedgerOK', TokenSpace \subseteq Nat, LedgerAges, OnlyNewestWritten,
           \A v \in Tokens' : v \notin Tokens => \A y \in Tokens : y < v
    PROVE  HistoryKept
  <1> SUFFICES ASSUME NEW u \in Tokens, NEW t \in Tokens', t < u, C!Reaches(t, u)'
               PROVE  t \in Tokens /\ ledger'[t].saved = ledger[t].saved /\ C!Reaches(t, u)
    BY DEF HistoryKept
  <1>0. t \in Nat /\ u \in Nat
    BY DEF LedgerOK
  <1>1. t \in Tokens
    BY <1>0
  <1>2. ledger[t].work = ledger[u].work
    BY <1>1 DEF LedgerAges, C!Reaches
  <1>3. ~C!Newest(t)
    BY <1>0, <1>2 DEF C!Newest, C!Tokens, Tokens
  <1>4. ledger'[t].saved = ledger[t].saved
    BY <1>1, <1>3 DEF OnlyNewestWritten
  <1> QED BY <1>1, <1>4, ReachesShrinks

(* A call that grants nothing keeps the ledger's part of the invariant, if *)
(* what it writes to a tenure is true and lists all that came before.      *)
LEMMA LedgerInvKept ==
    ASSUME LedgerInv, LedgerOK, LedgerOK', TokenSpace \subseteq Nat, LedgerAges, OnlyNewestWritten,
           Tokens' = Tokens, UNCHANGED migrated, \A u \in Tokens : TenureTrue(u)',
           \A u \in Tokens : ledger'[u].saved # ledger[u].saved =>
               \A state \in ledger'[u].saved : Covers(Listed(Decode(state)), u)
    PROVE  LedgerInv' /\ HistoryKept
  <1>1. HistoryKept
    BY HistoryIsKept
  <1>2. HasNewest' /\ HasPredecessor'
    <2>1. \A u \in Tokens : ledger'[u].work = ledger[u].work
      BY DEF LedgerAges
    <2>2. HasNewest'
      BY <2>1 DEF LedgerInv, HasNewest, C!Newest, C!Tokens, Tokens
    <2>3. HasPredecessor'
      BY <2>1 DEF LedgerInv, HasPredecessor, C!Predecessor, C!Tokens, Tokens
    <2> QED BY <2>2, <2>3
  <1>3. CursorsGrow'
    <2> SUFFICES ASSUME NEW u \in Tokens, NEW state \in ledger'[u].saved,
                        NEW t \in Tokens, t < u, C!Reaches(t, u)', NEW other \in ledger'[t].saved
                 PROVE  Listed(Decode(other)) \subseteq Listed(Decode(state))
      BY DEF CursorsGrow, Covers
    <2>1. Covers(Listed(Decode(state)), u)
      BY DEF LedgerInv, CursorsGrow
    <2>2. ledger'[t].saved = ledger[t].saved /\ C!Reaches(t, u)
      BY <1>1 DEF HistoryKept
    <2> QED BY <2>1, <2>2 DEF Covers
  <1>4. NotRedone'
    <2> SUFFICES ASSUME NEW t \in Tokens, NEW u \in Tokens, t < u, C!Reaches(t, u)',
                        NEW state \in ledger'[t].saved, NEW x \in Listed(Decode(state))
                 PROVE  u \notin migrated[x]
      BY DEF NotRedone
    <2>1. ledger'[t].saved = ledger[t].saved /\ C!Reaches(t, u)
      BY <1>1 DEF HistoryKept
    <2> QED BY <2>1 DEF LedgerInv, NotRedone
  <1> QED BY <1>1, <1>2, <1>3, <1>4 DEF LedgerInv

(* A grant keeps it: the new tenure follows the newest one of its work ID  *)
(* and has neither saved nor migrated anything.                            *)
LEMMA LedgerInvGrant ==
    ASSUME LedgerInv, LedgerOK, TokenSpace \subseteq Nat, migrated \in [Tenants -> SUBSET Tokens],
           NEW n \in TokenSpace, NEW w \in WorkIDs, NEW h \in HolderIDs, C!Grant(n, w, h),
           UNCHANGED migrated
    PROVE  LedgerInv' /\ HistoryKept
  <1>1. /\ LedgerOK' /\ LedgerAges /\ n \notin Tokens /\ Tokens' = Tokens \union {n}
        /\ ledger'[n].work = w /\ ledger'[n].exit = ExitNone /\ ledger'[n].saved = {}
        /\ \A u \in Tokens : ledger'[u] = ledger[u]
    BY GrantAdds
  <1>2. /\ n \in Nat /\ Tokens \subseteq Nat
        /\ \A u \in Tokens : u < n
    BY DEF LedgerOK, C!Grant, C!Tokens, Tokens
  <1>3. HistoryKept
    BY <1>1, <1>2, HistoryIsKept DEF OnlyNewestWritten
  <1>4. HasNewest'
    <2> SUFFICES ASSUME NEW t \in Tokens'
                 PROVE  \E v \in Tokens' : ledger'[v].work = ledger'[t].work /\ C!Newest(v)'
      BY DEF HasNewest
    <2>1. CASE ledger'[t].work = w
      <3>1. C!Newest(n)'
        BY <1>1, <1>2 DEF C!Newest, C!Tokens, Tokens
      <3> QED BY <1>1, <2>1, <3>1
    <2>2. CASE ledger'[t].work # w
      <3>1. PICK v \in Tokens : ledger[v].work = ledger[t].work /\ C!Newest(v)
        BY <1>1, <2>2 DEF LedgerInv, HasNewest
      <3>2. C!Newest(v)'
        BY <1>1, <2>2, <3>1 DEF C!Newest, C!Tokens, Tokens
      <3> QED BY <1>1, <2>2, <3>1, <3>2
    <2> QED BY <2>1, <2>2
  <1>5. HasPredecessor'
    <2> SUFFICES ASSUME NEW t \in Tokens', NEW u \in Tokens', t < u, ledger'[t].work = ledger'[u].work
                 PROVE  \E p \in Tokens' : C!Predecessor(p, u)'
      BY DEF HasPredecessor
    <2>0. t \in Tokens
      BY <1>1, <1>2
    <2>1. CASE u = n
      <3>1. PICK v \in Tokens : ledger[v].work = ledger[t].work /\ C!Newest(v)
        BY <2>0 DEF LedgerInv, HasNewest
      <3>2. C!Predecessor(v, u)'
        BY <1>1, <1>2, <2>0, <2>1, <3>1 DEF C!Predecessor, C!Newest, C!Tokens, Tokens
      <3> QED BY <1>1, <3>2
    <2>2. CASE u \in Tokens
      <3>1. PICK p \in Tokens : C!Predecessor(p, u)
        BY <1>1, <2>0, <2>2 DEF LedgerInv, HasPredecessor
      <3>2. C!Predecessor(p, u)'
        BY <1>1, <1>2, <2>2, <3>1 DEF C!Predecessor, C!Tokens, Tokens
      <3> QED BY <1>1, <3>2
    <2> QED BY <1>1, <2>1, <2>2
  <1>6. \A t \in Tokens' : TenureTrue(t)'
    BY <1>1, ExitsDistinct DEF LedgerInv, TenureTrue, Done, ExitNone, ExitFinished, ExitRetired
  <1>7. CursorsGrow'
    <2> SUFFICES ASSUME NEW u \in Tokens', NEW state \in ledger'[u].saved,
                        NEW t \in Tokens', t < u, C!Reaches(t, u)', NEW other \in ledger'[t].saved
                 PROVE  Listed(Decode(other)) \subseteq Listed(Decode(state))
      BY DEF CursorsGrow, Covers
    <2>1. u \in Tokens /\ state \in ledger[u].saved
      BY <1>1
    <2>2. t \in Tokens /\ other \in ledger[t].saved /\ C!Reaches(t, u)
      BY <1>3, <2>1 DEF HistoryKept
    <2> QED BY <2>1, <2>2 DEF LedgerInv, CursorsGrow, Covers
  <1>8. NotRedone'
    <2> SUFFICES ASSUME NEW t \in Tokens', NEW u \in Tokens', t < u, C!Reaches(t, u)',
                        NEW state \in ledger'[t].saved, NEW x \in Listed(Decode(state))
                 PROVE  u \notin migrated[x]
      BY DEF NotRedone
    <2>1. CASE u \in Tokens
      <3>1. t \in Tokens /\ state \in ledger[t].saved /\ C!Reaches(t, u)
        BY <1>3, <2>1 DEF HistoryKept
      <3> QED BY <2>1, <3>1 DEF LedgerInv, NotRedone
    <2>2. CASE u = n
      <3>1. t \in Tokens /\ state \in ledger[t].saved
        BY <1>1, <1>2
      <3>2. x \in Tenants
        BY <3>1 DEF LedgerInv, TenureTrue, Done
      <3> QED BY <1>1, <2>2, <3>2
    <2> QED BY <1>1, <2>1, <2>2
  <1> QED BY <1>3, <1>4, <1>5, <1>6, <1>7, <1>8 DEF LedgerInv

(* What a run lists covers all before its tenure after the step, too. *)
LEMMA CoversNow ==
    ASSUME NEW r \in Runs, tok[r] \in Tokens, tok'[r] = tok[r], HistoryKept
    PROVE  /\ Covers(Listed(progress'[r]), tok[r]) => Covers(Listed(progress[r]), tok[r])'
           /\ Covers(Listed(Decode(kept'[r])), tok[r]) => Covers(Listed(Decode(kept[r])), tok[r])'
           /\ Covers(Listed(Decode(final'[r])), tok[r]) => Covers(Listed(Decode(final[r])), tok[r])'
  <1>1. \A t \in Tokens' : (t < tok[r] /\ C!Reaches(t, tok[r])') =>
            t \in Tokens /\ ledger'[t].saved = ledger[t].saved /\ C!Reaches(t, tok[r])
    BY DEF HistoryKept, C!Reaches, C!Tokens
  <1>2. Covers(Listed(progress'[r]), tok[r]) => Covers(Listed(progress[r]), tok[r])'
    BY <1>1 DEF Covers
  <1>3. Covers(Listed(Decode(kept'[r])), tok[r]) => Covers(Listed(Decode(kept[r])), tok[r])'
    BY <1>1 DEF Covers
  <1>4. Covers(Listed(Decode(final'[r])), tok[r]) => Covers(Listed(Decode(final[r])), tok[r])'
    BY <1>1 DEF Covers
  <1> QED BY <1>2, <1>3, <1>4

(* What the coordinator q remembers is left alone. *)
WorkUntouched(q) == at'[q] = at[q] /\ kept'[q] = kept[q] /\ progress'[q] = progress[q]

(* What a coordinator knows stays true while others act. *)
LEMMA KnowsKept ==
    ASSUME MigrationInv, NEW q \in Runs, RunUntouched(q), WorkUntouched(q),
           tok[q] # 0 => WritesKept(tok[q]), HistoryKept, Done \subseteq Done'
    PROVE  KnowsTrue(q)' /\ KnowsEarlier(q)'
  <1>1. KnowsTrue(q) /\ KnowsEarlier(q) /\ TypeOK /\ RunInv(q)
    BY DEF MigrationInv, Inv
  <1>2. KnowsTrue(q)'
    <2>1. Done = Tenants => Done' = Tenants
      BY DEF Done
    <2> QED BY <1>1, <2>1 DEF KnowsTrue, RunUntouched, WorkUntouched
  <1>3. ASSUME HasLease(q) PROVE KnowsEarlier(q)'
    <2>1. tok[q] \in Tokens /\ tok[q] # 0 /\ tok'[q] = tok[q]
      BY <1>1, <1>3 DEF TypeOK, RunInv, Tokenless, HasLease, RunUntouched
    <2>2. /\ Covers(Listed(progress[q]), tok[q]) => Covers(Listed(progress[q]), tok[q])'
          /\ Covers(Listed(Decode(kept[q])), tok[q]) => Covers(Listed(Decode(kept[q])), tok[q])'
          /\ Covers(Listed(Decode(final[q])), tok[q]) => Covers(Listed(Decode(final[q])), tok[q])'
      BY <2>1, CoversNow DEF RunUntouched, WorkUntouched
    <2> QED BY <1>1, <2>1, <2>2 DEF KnowsEarlier, RunUntouched, WorkUntouched, WritesKept
  <1>4. ASSUME ~HasLease(q) PROVE KnowsEarlier(q)'
    BY <1>4 DEF HasLease, KnowsEarlier, RunUntouched
  <1> QED BY <1>2, <1>3, <1>4

(* A step of r preserves the invariant once it preserves the ledger's part *)
(* and that of r.                                                          *)
LEMMA OthersKnow ==
    ASSUME MigrationInv, NEW r \in Runs, StepOf(r), Inv', WorkTypeOK', LedgerInv', HistoryKept,
           Done \subseteq Done', \A q \in Runs \ {r} : WorkUntouched(q),
           KnowsTrue(r)', KnowsEarlier(r)'
    PROVE  MigrationInv'
  <1>1. ASSUME NEW q \in Runs, q # r PROVE KnowsTrue(q)' /\ KnowsEarlier(q)'
    <2>1. tok[q] # 0 => tok[q] \in Tokens /\ tok[q] # tok[r]
      BY <1>1 DEF MigrationInv, Inv, TypeOK, TokensAreOwn
    <2> QED BY <1>1, <2>1, KnowsKept DEF StepOf
  <1> QED BY <1>1 DEF MigrationInv

-----------------------------------------------------------------------------
(* The steps of a coordinator. *)

(* The checkpoint that a new tenure reads lists all that came before. *)
LEMMA StateCovers ==
    ASSUME LedgerInv, Tokens \subseteq Nat, NEW u \in Tokens, ledger[u].saved = {},
           NEW state, C!TrueState(u, state)
    PROVE  /\ state \in Cursors \union {NoState} /\ Listed(Decode(state)) \subseteq Done
           /\ Covers(Listed(Decode(state)), u)
  <1>1. CASE \E s \in Tokens : /\ C!Reaches(s, u)
                               /\ \A t \in Tokens : C!Reaches(t, u) => t <= s
                               /\ state \in ledger[s].saved
    <2>1. PICK s \in Tokens : /\ C!Reaches(s, u) /\ state \in ledger[s].saved
                              /\ \A t \in Tokens : C!Reaches(t, u) => t <= s
      BY <1>1
    <2>2. state \in Cursors /\ Listed(Decode(state)) \subseteq Done
      BY <2>1 DEF LedgerInv, TenureTrue
    <2>3. ASSUME NEW t \in Tokens, t < u, C!Reaches(t, u), NEW other \in ledger[t].saved
          PROVE  Listed(Decode(other)) \subseteq Listed(Decode(state))
      <3>1. CASE t = s
        BY <2>1, <2>3, <3>1 DEF LedgerInv, TenureTrue
      <3>2. CASE t # s
        <4>1. t < s /\ s <= u
          BY <2>1, <2>3, <3>2 DEF C!Reaches
        <4>2. C!Reaches(t, s)
          BY <2>1, <2>3, <4>1 DEF C!Reaches, C!Tokens, Tokens
        <4> QED BY <2>1, <2>3, <4>1, <4>2 DEF LedgerInv, CursorsGrow, Covers
      <3> QED BY <3>1, <3>2
    <2> QED BY <2>2, <2>3 DEF Covers
  <1>2. CASE (\A s \in Tokens : ~C!Reaches(s, u)) /\ state = NoState
    BY <1>2, CursorFacts DEF Covers
  <1> QED BY <1>1, <1>2 DEF C!TrueState, C!Tokens, Tokens

(* An exit that was handed over: none without a predecessor, Retired only  *)
(* when all is done, Finished never.                                       *)
LEMMA HandedOver ==
    ASSUME LedgerInv, LedgerOK, TokenSpace \subseteq Nat, NEW u \in Tokens,
           NEW prevExit, NEW prevHolder, C!TruePrevExit(u, prevExit, prevHolder)
    PROVE  /\ prevExit = ExitRetired => Done = Tenants
           /\ prevExit \notin {ExitRetired, ExitExpired, ExitAbandoned} => Covers({}, u)
  <1>0. Tokens \subseteq Nat
    BY DEF LedgerOK
  <1>1. CASE \E p \in Tokens : prevExit = C!CapturedExit(ledger[p].exit)
    <2>1. PICK p \in Tokens : prevExit = CapturedExit(ledger[p].exit)
      BY <1>1, ExitsDistinct
    <2>2. ledger[p].exit \in {ExitNone, ExitAbandoned, ExitRetired}
      BY ExitsDistinct DEF LedgerInv, TenureTrue, LedgerOK, C!Tenure, StoredExits, DeclarableExits
    <2> QED BY <2>1, <2>2 DEF CapturedExit, ExitNone, ExitFinished, ExitAbandoned, ExitRetired,
               ExitExpired, LedgerInv, TenureTrue
  <1>2. CASE (\A p \in Tokens : ~C!HandsOverTo(p, u)) /\ prevExit = ExitNone
    <2>1. ASSUME NEW t \in Tokens, t < u, C!Reaches(t, u) PROVE FALSE
      <3>1. PICK p \in Tokens : C!Predecessor(p, u)
        BY <2>1 DEF LedgerInv, HasPredecessor, C!Reaches
      <3>2. t <= p /\ p < u /\ ledger[p].work = ledger[u].work
        BY <1>0, <2>1, <3>1 DEF C!Predecessor, C!Reaches, C!Tokens, Tokens
      <3>3. ~ledger[p].erased
        BY <2>1, <3>2 DEF C!Reaches, C!Tokens, Tokens
      <3> QED BY <1>2, <3>1, <3>3 DEF C!HandsOverTo
    <2> QED BY <1>2, <2>1 DEF Covers, ExitNone, ExitRetired
  <1> QED BY <1>1, <1>2, ExitsDistinct DEF C!TruePrevExit, C!Tokens, Tokens

(* A step that writes nothing and migrates nothing. *)
LEMMA QuietLedger ==
    ASSUME MigrationInv, UNCHANGED <<ledger, migrated>>
    PROVE  LedgerInv' /\ HistoryKept /\ Done' = Done
  <1>1. LedgerOK /\ LedgerOK' /\ TokenSpace \subseteq Nat /\ LedgerAges /\ Tokens' = Tokens
    BY TypedLedger, NothingWritten DEF MigrationInv, Inv
  <1>2. Done' = Done
    BY DEF Done
  <1>3. \A u \in Tokens : TenureTrue(u)'
    BY <1>2 DEF MigrationInv, LedgerInv, TenureTrue
  <1> QED BY <1>1, <1>2, <1>3, LedgerInvKept DEF MigrationInv, OnlyNewestWritten

(* WorkFn is called: it resumes from the cursor it read, from nothing when *)
(* nothing was handed over, or keeps a retirement.                         *)
LEMMA StartsStep ==
    ASSUME MigrationInv, NEW r \in Runs, NEW state \in States \union {NoState},
           NEW prevExit \in ExitModes, Starts(r, state, prevExit)
    PROVE  MigrationInv'
  <1>0. /\ Inv /\ TypeOK /\ LedgerOK /\ TokenSpace \subseteq Nat /\ WorkTypeOK /\ LedgerInv
        /\ KnowsTrue(r) /\ KnowsEarlier(r) /\ RunInv(r)
    BY TypedLedger DEF MigrationInv, Inv
  <1>1. /\ pc[r] = "acquired" /\ ReadCheckpoint(r, state, OK) /\ C!TrueState(tok[r], state)
        /\ UNCHANGED <<ledger, migrated>> /\ UNCHANGED <<tok, workErr, final, mode>>
        /\ pc' = [pc EXCEPT ![r] = "working"]
    BY DEF Starts, ReadCheckpoint, ReadCheckpointCall, Stored, Faults, OK, ErrFenced, ErrOther, ErrContext
  <1>2. StepOf(r) /\ Inv'
    BY <1>0, <1>1, RunPreserves DEF RunStep, Reads, Errors
  <1>3. LedgerInv' /\ HistoryKept /\ Done' = Done
    BY <1>1, QuietLedger
  <1>4. tok[r] \in Tokens /\ ledger[tok[r]].saved = {} /\ Tokens \subseteq Nat
    BY <1>0, <1>1 DEF TypeOK, LedgerOK, RunInv, Tokenless, KnowsEarlier
  <1>5. /\ state \in Cursors \union {NoState} /\ Listed(Decode(state)) \subseteq Done
        /\ Covers(Listed(Decode(state)), tok[r])
    BY <1>0, <1>1, <1>4, StateCovers
  <1>6. /\ prevExit = ExitRetired => Done = Tenants
        /\ prevExit \notin {ExitRetired, ExitExpired, ExitAbandoned} => Covers({}, tok[r])
    BY <1>0, <1>4, HandedOver DEF Starts
  <1>7. pc'[r] = "working" /\ tok'[r] = tok[r] /\ workErr'[r] = workErr[r] /\ final'[r] = final[r]
    BY <1>0, <1>1 DEF TypeOK
  <1>8. CASE prevExit = ExitRetired
    <2>1. /\ at' = [at EXCEPT ![r] = "keep retired"] /\ kept' = [kept EXCEPT ![r] = state]
          /\ progress' = progress
      BY <1>8 DEF Starts
    <2>2. at'[r] = "keep retired" /\ kept'[r] = state /\ progress'[r] = progress[r]
      BY <1>0, <2>1 DEF WorkTypeOK
    <2>3. WorkTypeOK' /\ \A q \in Runs \ {r} : WorkUntouched(q)
      BY <1>0, <1>1, <2>1 DEF WorkTypeOK, WorkUntouched, Tokens
    <2>4. KnowsTrue(r)'
      BY <1>0, <1>3, <1>5, <1>6, <1>7, <1>8, <2>2 DEF KnowsTrue
    <2>5. Covers(Listed(Decode(kept[r])), tok[r])'
      BY <1>3, <1>4, <1>5, <1>7, <2>2, CoversNow
    <2>6. KnowsEarlier(r)'
      BY <1>7, <2>2, <2>5 DEF KnowsEarlier
    <2> QED BY <1>2, <1>3, <2>3, <2>4, <2>6, OthersKnow
  <1>9. CASE prevExit # ExitRetired
    <2>1. /\ at' = [at EXCEPT ![r] = "loop"] /\ kept' = kept
          /\ progress' = [progress EXCEPT ![r] = ResumesFrom(state, prevExit)]
      BY <1>9 DEF Starts
    <2>2. /\ ResumesFrom(state, prevExit) \in Prefixes
          /\ Listed(ResumesFrom(state, prevExit)) \subseteq Done
          /\ Covers(Listed(ResumesFrom(state, prevExit)), tok[r])
      <3>1. Decode(state) \in Prefixes
        BY <1>5, CursorFacts DEF Cursors
      <3> QED BY <1>5, <1>6, <1>9, <3>1, CursorFacts DEF ResumesFrom
    <2>3. /\ at'[r] = "loop" /\ kept'[r] = kept[r] /\ progress'[r] = ResumesFrom(state, prevExit)
      BY <1>0, <2>1 DEF WorkTypeOK
    <2>4. WorkTypeOK' /\ \A q \in Runs \ {r} : WorkUntouched(q)
      BY <1>0, <1>1, <2>1, <2>2, CursorFacts DEF WorkTypeOK, WorkUntouched, Tokens
    <2>5. KnowsTrue(r)'
      BY <1>0, <1>3, <1>7, <2>2, <2>3 DEF KnowsTrue
    <2>6. Covers(Listed(progress[r]), tok[r])'
      BY <1>3, <1>4, <1>7, <2>2, <2>3, CoversNow
    <2>7. KnowsEarlier(r)'
      BY <1>7, <2>3, <2>6 DEF KnowsEarlier
    <2> QED BY <1>2, <1>3, <2>4, <2>5, <2>7, OthersKnow
  <1> QED BY <1>8, <1>9

(* A tenant is migrated: it is one that no cursor before this tenure       *)
(* lists, for this one's progress lists them all.                          *)
LEMMA MigratesStep ==
    ASSUME MigrationInv, NEW r \in Runs, NEW x \in Tenants, NEW done \in BOOLEAN,
           MigratesTenant(r, x, done)
    PROVE  MigrationInv'
  <1>0. /\ Inv /\ TypeOK /\ LedgerOK /\ TokenSpace \subseteq Nat /\ WorkTypeOK /\ LedgerInv
        /\ KnowsTrue(r) /\ KnowsEarlier(r) /\ RunInv(r)
        /\ pc[r] = "working" /\ at[r] = "loop" /\ IsNext(r, x) /\ UNCHANGED <<vars, kept>>
    BY TypedLedger DEF MigrationInv, Inv, MigratesTenant
  <1>1. /\ UNCHANGED ledger /\ UNCHANGED <<pc, tok, cause, workErr, final, mode, result, cancelled>>
    BY <1>0 DEF vars, runVars
  <1>2. LedgerAges /\ LedgerOK' /\ Tokens' = Tokens /\ \A u \in Tokens : WritesKept(u)
    BY <1>0, <1>1, NothingWritten
  <1>3. Inv'
    BY <1>0, <1>1, <1>2, NobodyActs DEF TypeOK
  <1>4. StepOf(r)
    BY <1>1, <1>2 DEF StepOf, RunUntouched
  <1>5. tok[r] \in Tokens /\ Covers(Listed(progress[r]), tok[r])
    BY <1>0 DEF TypeOK, RunInv, Tokenless, KnowsEarlier
  <1>6. CASE done
    <2>1. /\ migrated' = [migrated EXCEPT ![x] = @ \union {tok[r]}]
          /\ progress' = [progress EXCEPT ![r] = Append(@, x)]
          /\ at' = [at EXCEPT ![r] = "save"]
      BY <1>6 DEF MigratesTenant
    <2>2. /\ Append(progress[r], x) \in Prefixes /\ x \notin Listed(progress[r])
          /\ Listed(Append(progress[r], x)) = Listed(progress[r]) \union {x}
      BY <1>0, NextExtendsPrefix DEF KnowsTrue
    <2>3. at'[r] = "save" /\ progress'[r] = Append(progress[r], x)
      BY <1>0, <2>1 DEF WorkTypeOK
    <2>4. WorkTypeOK' /\ \A q \in Runs \ {r} : WorkUntouched(q)
      BY <1>0, <1>2, <1>5, <2>1, <2>2, CursorFacts DEF WorkTypeOK, WorkUntouched
    <2>5. /\ \A y \in Tenants : migrated'[y] = IF y = x THEN migrated[y] \union {tok[r]} ELSE migrated[y]
      BY <1>0, <2>1 DEF WorkTypeOK
    <2>6. Done' = Done \union {x}
      BY <2>5 DEF Done
    <2>7. Done = Tenants => Done' = Tenants
      BY <2>6 DEF Done
    <2>8. HistoryKept
      BY <1>1 DEF HistoryKept, C!Reaches, C!Tokens, Tokens
    <2>9. LedgerInv'
      <3>1. HasNewest' /\ HasPredecessor' /\ CursorsGrow'
        <4>1. HasNewest'
          BY <1>0, <1>1 DEF LedgerInv, HasNewest, C!Newest, C!Tokens, Tokens
        <4>2. HasPredecessor'
          BY <1>0, <1>1 DEF LedgerInv, HasPredecessor, C!Predecessor, C!Tokens, Tokens
        <4>3. CursorsGrow'
          BY <1>0, <1>1 DEF LedgerInv, CursorsGrow, Covers, C!Reaches, C!Tokens, Tokens
        <4> QED BY <4>1, <4>2, <4>3
      <3>2. \A t \in Tokens' : TenureTrue(t)'
        BY <1>0, <1>1, <1>2, <2>6, <2>7 DEF LedgerInv, TenureTrue
      <3>3. NotRedone'
        <4> SUFFICES ASSUME NEW t \in Tokens, NEW u \in Tokens, t < u, C!Reaches(t, u),
                            NEW state \in ledger[t].saved, NEW y \in Listed(Decode(state))
                     PROVE  u \notin migrated'[y]
          BY <1>1, <1>2 DEF NotRedone, C!Reaches, C!Tokens, Tokens
        <4>1. y \in Tenants /\ u \notin migrated[y]
          BY <1>0 DEF LedgerInv, NotRedone, TenureTrue, Done
        <4>2. ~(y = x /\ u = tok[r])
          BY <1>5, <2>2 DEF Covers
        <4> QED BY <2>5, <4>1, <4>2
      <3> QED BY <3>1, <3>2, <3>3 DEF LedgerInv
    <2>10. KnowsTrue(r)'
      BY <1>0, <1>1, <2>2, <2>3, <2>6, <2>7, ErrorsDistinct DEF KnowsTrue
    <2>11. Covers(Listed(progress'[r]), tok[r])
      BY <1>5, <2>2, <2>3 DEF Covers
    <2>12. Covers(Listed(progress[r]), tok[r])'
      BY <1>1, <1>5, <2>8, <2>11, CoversNow
    <2>13. KnowsEarlier(r)'
      BY <1>0, <1>1, <2>3, <2>12 DEF KnowsEarlier
    <2> QED BY <1>3, <1>4, <2>4, <2>6, <2>8, <2>9, <2>10, <2>13, OthersKnow
  <1>7. CASE ~done
    <2>1. /\ at' = [at EXCEPT ![r] = WorkFailed] /\ UNCHANGED <<ledger, migrated>> /\ progress' = progress
      BY <1>1, <1>7 DEF MigratesTenant
    <2>2. at'[r] = WorkFailed
      BY <1>0, <2>1 DEF WorkTypeOK
    <2>3. WorkTypeOK' /\ \A q \in Runs \ {r} : WorkUntouched(q)
      BY <1>0, <1>2, <2>1 DEF WorkTypeOK, WorkUntouched
    <2>4. LedgerInv' /\ HistoryKept /\ Done' = Done
      BY <2>1, QuietLedger
    <2>5. KnowsTrue(r)'
      BY <1>0, <1>1, <2>1, <2>2, <2>4 DEF KnowsTrue, WorkFailed
    <2>6. KnowsEarlier(r)'
      BY <1>0, <1>1, <2>2 DEF KnowsEarlier, WorkFailed
    <2> QED BY <1>3, <1>4, <2>3, <2>4, <2>5, <2>6, OthersKnow
  <1> QED BY <1>6, <1>7

(* The step of a holder that writes to its own tenure: the tenure is the   *)
(* newest of its work ID when its saved state changes.                     *)
LEMMA HolderWrites ==
    ASSUME MigrationInv, NEW r \in Runs, tok[r] \in Tokens, LedgerOK', LedgerAges, Tokens' = Tokens,
           UNCHANGED migrated, \A u \in Tokens : u # tok[r] => WritesKept(u),
           ledger'[tok[r]].saved # ledger[tok[r]].saved => ~Fenced(tok[r]),
           \/ ledger'[tok[r]].exit \in {ledger[tok[r]].exit, ExitAbandoned}
           \/ ledger'[tok[r]].exit = ExitRetired /\ Done = Tenants,
           NEW state \in Cursors, Listed(Decode(state)) \subseteq Done,
           \/ ledger'[tok[r]].saved = ledger[tok[r]].saved
           \/ ledger'[tok[r]].saved = {state} /\ Covers(Listed(Decode(state)), tok[r])
    PROVE  LedgerInv' /\ HistoryKept /\ Done' = Done
  <1>1. LedgerOK /\ TokenSpace \subseteq Nat /\ LedgerInv
    BY TypedLedger DEF MigrationInv, Inv
  <1>2. Done' = Done
    BY DEF Done
  <1>3. ASSUME NEW u \in Tokens PROVE TenureTrue(u)'
    <2>1. TenureTrue(u)
      BY <1>1 DEF LedgerInv
    <2>2. CASE u # tok[r]
      BY <1>2, <2>1, <2>2 DEF TenureTrue, WritesKept
    <2>3. CASE u = tok[r]
      <3>1. ledger'[u].saved \in {ledger[u].saved, {state}}
        BY <2>3
      <3>2. /\ ledger'[u].exit # ExitFinished
            /\ ledger'[u].exit = ExitRetired => Done = Tenants
        BY <2>1, <2>3, ExitsDistinct DEF TenureTrue
      <3> QED BY <1>2, <2>1, <3>1, <3>2 DEF TenureTrue
    <2> QED BY <2>2, <2>3
  <1>4. OnlyNewestWritten
    <2> SUFFICES ASSUME NEW u \in Tokens, ledger'[u].saved # ledger[u].saved PROVE C!Newest(u)
      BY DEF OnlyNewestWritten
    <2>1. u = tok[r]
      BY DEF WritesKept
    <2> QED BY <2>1 DEF Fenced, C!Current, C!Newest
  <1>5. ASSUME NEW u \in Tokens, ledger'[u].saved # ledger[u].saved, NEW s \in ledger'[u].saved
        PROVE  Covers(Listed(Decode(s)), u)
    <2>1. u = tok[r] /\ s = state
      BY <1>5 DEF WritesKept
    <2> QED BY <1>5, <2>1 DEF Covers, C!Reaches
  <1> QED BY <1>1, <1>2, <1>3, <1>4, <1>5, LedgerInvKept

(* WorkFn saves its cursor, whatever it is told about it. *)
LEMMA SavesStep ==
    ASSUME MigrationInv, NEW r \in Runs, NEW err \in Errors, SavesCursor(r, err)
    PROVE  MigrationInv'
  <1>0. /\ Inv /\ TypeOK /\ LedgerOK /\ WorkTypeOK /\ KnowsTrue(r) /\ KnowsEarlier(r) /\ RunInv(r)
        /\ pc[r] = "working" /\ at[r] = "save" /\ CheckpointCall(tok[r], Encode(progress[r]), err)
        /\ WorkCheckpoint(r, Encode(progress[r]), err)
        /\ UNCHANGED <<pc, tok, workErr, final>> /\ UNCHANGED <<kept, progress, migrated>>
    BY TypedLedger DEF MigrationInv, Inv, SavesCursor, WorkCheckpoint, runVars
  <1>1. /\ Encode(progress[r]) \in Cursors /\ Encode(progress[r]) \in States
        /\ Decode(Encode(progress[r])) = progress[r]
    BY <1>0, CursorFacts DEF KnowsTrue
  <1>2. StepOf(r) /\ Inv'
    BY <1>0, <1>1, RunPreserves DEF RunStep, Works
  <1>3. tok[r] \in Tokens /\ Covers(Listed(progress[r]), tok[r]) /\ Listed(progress[r]) \subseteq Done
    BY <1>0 DEF TypeOK, RunInv, Tokenless, KnowsEarlier, KnowsTrue
  <1>4. /\ LedgerOK' /\ LedgerAges /\ Tokens' = Tokens
        /\ \A u \in Tokens : u # tok[r] => WritesKept(u)
        /\ ledger'[tok[r]].exit = ledger[tok[r]].exit
        /\ ledger'[tok[r]].saved \in {ledger[tok[r]].saved, {Encode(progress[r])}}
        /\ ledger'[tok[r]].saved # ledger[tok[r]].saved => ~Fenced(tok[r])
    BY <1>0, <1>1, <1>3, CheckpointEffect
  <1>5. LedgerInv' /\ HistoryKept /\ Done' = Done
    <2>1. PICK state \in Cursors : state = Encode(progress[r])
      BY <1>1
    <2>2. /\ Listed(Decode(state)) \subseteq Done /\ Covers(Listed(Decode(state)), tok[r])
          /\ ledger'[tok[r]].saved \in {ledger[tok[r]].saved, {state}}
      BY <1>1, <1>3, <1>4, <2>1
    <2>3. \/ ledger'[tok[r]].saved = ledger[tok[r]].saved
          \/ ledger'[tok[r]].saved = {state} /\ Covers(Listed(Decode(state)), tok[r])
      BY <2>2
    <2>4. \/ ledger'[tok[r]].exit \in {ledger[tok[r]].exit, ExitAbandoned}
          \/ ledger'[tok[r]].exit = ExitRetired /\ Done = Tenants
      BY <1>4
    <2> QED BY <1>0, <1>3, <1>4, <2>2, <2>3, <2>4, HolderWrites
  <1>6. PICK a \in {"loop", ErrFenced, WorkFailed} : at' = [at EXCEPT ![r] = a]
    <2> DEFINE a == CASE err = OK -> "loop" [] err = ErrFenced -> ErrFenced [] OTHER -> WorkFailed
    <2>1. a \in {"loop", ErrFenced, WorkFailed}
      BY DEF OK, ErrFenced
    <2>2. at' = [at EXCEPT ![r] = a]
      BY DEF SavesCursor
    <2> QED BY <2>1, <2>2
  <1>7. at'[r] = a
    BY <1>0, <1>6 DEF WorkTypeOK
  <1>8. WorkTypeOK' /\ \A q \in Runs \ {r} : WorkUntouched(q)
    BY <1>0, <1>4, <1>6 DEF WorkTypeOK, WorkUntouched
  <1>9. KnowsTrue(r)'
    BY <1>0, <1>5, <1>7 DEF KnowsTrue, WorkFailed, ErrFenced
  <1>10. Covers(Listed(progress[r]), tok[r])'
    BY <1>0, <1>3, <1>5, CoversNow
  <1>11. KnowsEarlier(r)'
    BY <1>0, <1>7, <1>10 DEF KnowsEarlier, WorkFailed, ErrFenced
  <1> QED BY <1>2, <1>5, <1>8, <1>9, <1>11, OthersKnow

(* WorkFn returns: it asks for retirement only when all tenants are done.  *)
LEMMA ReturnsStep ==
    ASSUME MigrationInv, NEW r \in Runs, Returns(r)
    PROVE  MigrationInv'
  <1>0. /\ Inv /\ TypeOK /\ LedgerOK /\ WorkTypeOK /\ KnowsTrue(r) /\ KnowsEarlier(r) /\ RunInv(r)
        /\ UNCHANGED <<at, kept, progress, migrated>>
    BY TypedLedger DEF MigrationInv, Inv, Returns, workVars
  <1>1. PICK state \in Cursors \union {NoState}, err \in {ErrRetire, ErrFenced, WorkFailed} :
            /\ WorkReturns(r, state, err)
            /\ Listed(Decode(state)) \subseteq Done
            /\ state # NoState => Covers(Listed(Decode(state)), tok[r])
            /\ err = ErrRetire => Done = Tenants
    <2>1. CASE at[r] = "loop" /\ Remaining(r) = {} /\ WorkReturns(r, Encode(progress[r]), ErrRetire)
      <3>1. Encode(progress[r]) \in Cursors /\ Decode(Encode(progress[r])) = progress[r]
        BY <1>0, CursorFacts DEF KnowsTrue
      <3>2. Listed(progress[r]) \subseteq Done /\ Done = Tenants
        BY <1>0, <2>1 DEF KnowsTrue, Remaining, Done
      <3>3. Covers(Listed(progress[r]), tok[r])
        BY <1>0, <2>1 DEF KnowsEarlier, WorkReturns
      <3> QED BY <2>1, <3>1, <3>2, <3>3
    <2>2. CASE at[r] = "keep retired" /\ WorkReturns(r, kept[r], ErrRetire)
      BY <1>0, <2>2 DEF KnowsTrue, KnowsEarlier, WorkReturns
    <2>3. CASE at[r] \in {WorkFailed, ErrFenced} /\ WorkReturns(r, NoState, at[r])
      BY <2>3, CursorFacts, ErrorsDistinct
    <2> QED BY <2>1, <2>2, <2>3 DEF Returns
  <1>2. state \in States \union {NoState} /\ err \in WorkErrs
    BY CursorFacts
  <1>3. StepOf(r) /\ Inv'
    BY <1>0, <1>1, <1>2, RunPreserves DEF RunStep, Worked
  <1>4. /\ pc[r] = "working" /\ UNCHANGED <<ledger, migrated>> /\ tok' = tok
        /\ pc'[r] = "worked" /\ workErr'[r] = err /\ final'[r] = state
    BY <1>0, <1>1 DEF WorkReturns, TypeOK
  <1>5. LedgerInv' /\ HistoryKept /\ Done' = Done
    BY <1>4, QuietLedger
  <1>6. WorkTypeOK' /\ \A q \in Runs \ {r} : WorkUntouched(q)
    BY <1>0, <1>4 DEF WorkTypeOK, WorkUntouched, Tokens
  <1>7. KnowsTrue(r)'
    BY <1>0, <1>1, <1>4, <1>5, ErrorsDistinct DEF KnowsTrue
  <1>8. tok[r] \in Tokens
    BY <1>0, <1>4 DEF TypeOK, RunInv, Tokenless
  <1>9. state # NoState => Covers(Listed(Decode(final[r])), tok[r])'
    BY <1>1, <1>4, <1>5, <1>8, CoversNow
  <1>10. KnowsEarlier(r)'
    BY <1>4, <1>9 DEF KnowsEarlier
  <1> QED BY <1>3, <1>5, <1>6, <1>7, <1>10, OthersKnow

(* The final Checkpoint and the Release of Run, and what surrounds them:   *)
(* a retirement is declared only by a run whose WorkFn asked for it.       *)
LEMMA RestStep ==
    ASSUME MigrationInv, NEW r \in Runs, RestOfRun(r)
    PROVE  MigrationInv'
  <1>0. /\ Inv /\ TypeOK /\ LedgerOK /\ TokenSpace \subseteq Nat /\ WorkTypeOK /\ LedgerInv
        /\ KnowsTrue(r) /\ KnowsEarlier(r) /\ RunInv(r)
        /\ UNCHANGED <<at, kept, progress, migrated>>
    BY TypedLedger DEF MigrationInv, Inv, RestOfRun, workVars
  <1>1. StepOf(r) /\ Inv'
    <2>1. RunStep(r) \/ Cancel(r)
      <3>1. CASE \E err \in Errors \ {OK} : ReadCheckpoint(r, NoState, err)
        BY <3>1 DEF RunStep, Reads
      <3> QED BY <3>1 DEF RestOfRun, RunStep
    <2> QED BY <1>0, <2>1, RunPreserves
  <1>2. WorkTypeOK' /\ \A q \in Runs \ {r} : WorkUntouched(q)
    BY <1>0, <1>1 DEF WorkTypeOK, WorkUntouched, StepOf, LedgerAges
  <1>3. Done' = Done
    BY <1>0 DEF Done
  <1>4. CASE Acquires(r)
    <2>1. PICK t \in TokenSpace, err \in Errors : Acquire(r, t, err)
      BY <1>4 DEF Acquires
    <2>2. /\ AcquireCall(WorkOf[r], HolderOf[r], t, err) /\ UNCHANGED <<workErr, final>>
          /\ WorkOf[r] \in WorkIDs /\ HolderOf[r] \in HolderIDs
          /\ pc'[r] = (IF err = OK THEN "acquired" ELSE "returned")
          /\ err = OK => tok'[r] = t
      BY <1>0, <2>1 DEF Acquire, Return, TypeOK
    <2>3. KnowsTrue(r)'
      BY <1>0, <1>3, <2>2 DEF KnowsTrue
    <2>4. CASE C!Grant(t, WorkOf[r], HolderOf[r])
      <3>1. LedgerInv' /\ HistoryKept
        BY <1>0, <2>2, <2>4, LedgerInvGrant DEF WorkTypeOK
      <3>2. ledger'[t].saved = {}
        BY <1>0, <2>2, <2>4, GrantAdds
      <3>3. KnowsEarlier(r)'
        BY <2>2, <3>2 DEF KnowsEarlier
      <3> QED BY <1>1, <1>2, <1>3, <2>3, <3>1, <3>3, OthersKnow
    <2>5. CASE UNCHANGED ledger /\ err # OK
      <3>1. LedgerInv' /\ HistoryKept
        BY <1>0, <2>5, QuietLedger
      <3>2. KnowsEarlier(r)'
        BY <2>2, <2>5 DEF KnowsEarlier
      <3> QED BY <1>1, <1>2, <1>3, <2>3, <3>1, <3>2, OthersKnow
    <2> QED BY <2>2, <2>4, <2>5 DEF AcquireCall, Faults, OK, ErrLeaseHeld, ErrOther, ErrContext
  <1>5. CASE \/ \E err \in Errors \ {OK} : ReadCheckpoint(r, NoState, err)
             \/ StopAndClassify(r)
             \/ \E c \in {CauseFenced, CauseExhausted} : LoseLease(r, c)
             \/ Cancel(r)
    <2>1. /\ UNCHANGED <<ledger, migrated>> /\ UNCHANGED <<tok, workErr, final>>
          /\ \/ pc'[r] = pc[r]
             \/ pc'[r] = "returned"
             \/ pc[r] = "worked" /\ pc'[r] = "cleanup"
      <3>1. CASE \E err \in Errors \ {OK} : ReadCheckpoint(r, NoState, err)
        BY <1>0, <3>1 DEF ReadCheckpoint, ReadCheckpointCall, Return, TypeOK
      <3>2. CASE StopAndClassify(r)
        BY <1>0, <3>2 DEF StopAndClassify, Return, TypeOK
      <3>3. CASE (\E c \in {CauseFenced, CauseExhausted} : LoseLease(r, c)) \/ Cancel(r)
        BY <1>0, <3>3 DEF LoseLease, Cancel
      <3> QED BY <1>5, <3>1, <3>2, <3>3
    <2>2. LedgerInv' /\ HistoryKept
      BY <2>1, QuietLedger
    <2>3. KnowsTrue(r)'
      BY <1>0, <1>3, <2>1 DEF KnowsTrue
    <2>4. KnowsEarlier(r)'
      <3>1. ASSUME HasLease(r)
            PROVE  KnowsEarlier(r)'
        <4>1. tok[r] \in Tokens
          BY <1>0, <3>1 DEF TypeOK, RunInv, Tokenless, HasLease
        <4>2. /\ Covers(Listed(progress[r]), tok[r]) => Covers(Listed(progress[r]), tok[r])'
              /\ Covers(Listed(Decode(kept[r])), tok[r]) => Covers(Listed(Decode(kept[r])), tok[r])'
              /\ Covers(Listed(Decode(final[r])), tok[r]) => Covers(Listed(Decode(final[r])), tok[r])'
          BY <1>0, <2>1, <2>2, <4>1, CoversNow
        <4> QED BY <1>0, <2>1, <4>2 DEF KnowsEarlier
      <3>2. ASSUME ~HasLease(r)
            PROVE  KnowsEarlier(r)'
        BY <2>1, <3>2 DEF KnowsEarlier, HasLease
      <3> QED BY <3>1, <3>2
    <2> QED BY <1>1, <1>2, <1>3, <2>2, <2>3, <2>4, OthersKnow
  <1>6. CASE Cleans(r)
    <2>1. PICK err \in Errors : FinalCheckpoint(r, err)
      BY <1>6 DEF Cleans
    <2>2. /\ pc[r] = "cleanup" /\ pc'[r] \in {"returned", "release"} /\ UNCHANGED <<tok, workErr, final>>
          /\ tok[r] \in Tokens
      BY <1>0, <2>1 DEF FinalCheckpoint, Return, TypeOK, RunInv, Tokenless
    <2>3. LedgerInv' /\ HistoryKept
      <3>1. CASE UNCHANGED ledger
        BY <1>0, <3>1, QuietLedger
      <3>2. CASE final[r] # NoState
        <4>1. PICK state \in Cursors : state = final[r]
          BY <1>0, <3>2 DEF KnowsTrue
        <4>2. /\ Listed(Decode(state)) \subseteq Done /\ Covers(Listed(Decode(state)), tok[r])
          BY <1>0, <2>2, <3>2, <4>1 DEF KnowsTrue, KnowsEarlier
        <4>3. CheckpointCall(tok[r], state, err) /\ state \in States \union {NoState}
          BY <2>1, <3>2, <4>1, CursorFacts DEF FinalCheckpoint, AsStored
        <4>4. /\ LedgerOK' /\ LedgerAges /\ Tokens' = Tokens
              /\ \A u \in Tokens : u # tok[r] => WritesKept(u)
              /\ ledger'[tok[r]].exit = ledger[tok[r]].exit
              /\ ledger'[tok[r]].saved \in {ledger[tok[r]].saved, {state}}
              /\ ledger'[tok[r]].saved # ledger[tok[r]].saved => ~Fenced(tok[r])
          BY <1>0, <2>2, <4>3, CheckpointEffect
        <4>5. \/ ledger'[tok[r]].saved = ledger[tok[r]].saved
              \/ ledger'[tok[r]].saved = {state} /\ Covers(Listed(Decode(state)), tok[r])
          BY <4>2, <4>4
        <4>6. \/ ledger'[tok[r]].exit \in {ledger[tok[r]].exit, ExitAbandoned}
              \/ ledger'[tok[r]].exit = ExitRetired /\ Done = Tenants
          BY <4>4
        <4> QED BY <1>0, <2>2, <4>2, <4>4, <4>5, <4>6, HolderWrites
      <3> QED BY <2>1, <3>1, <3>2 DEF FinalCheckpoint
    <2>4. KnowsTrue(r)'
      BY <1>0, <1>3, <2>2 DEF KnowsTrue
    <2>5. KnowsEarlier(r)'
      BY <2>2 DEF KnowsEarlier
    <2> QED BY <1>1, <1>2, <1>3, <2>3, <2>4, <2>5, OthersKnow
  <1>7. CASE Releases(r)
    <2>1. PICK err \in Errors : Release(r, err)
      BY <1>7 DEF Releases
    <2>2. /\ pc[r] = "release" /\ pc'[r] = "returned" /\ UNCHANGED <<tok, workErr, final>>
          /\ ReleaseCall(tok[r], mode[r], err) /\ tok[r] \in Tokens /\ mode[r] \in DeclarableExits
      BY <1>0, <2>1 DEF Release, Return, TypeOK, RunInv, Tokenless, Decided
    <2>3. mode[r] = ExitAbandoned \/ (mode[r] = ExitRetired /\ Done = Tenants)
      <3>1. mode[r] # ExitAbandoned => workErr[r] = IF mode[r] = ExitRetired THEN ErrRetire ELSE NilErr
        BY <1>0, <2>2 DEF RunInv, Decided
      <3>2. workErr[r] # NilErr /\ (workErr[r] = ErrRetire => Done = Tenants)
        BY <1>0 DEF KnowsTrue
      <3> QED BY <3>1, <3>2
    <2>4. /\ LedgerOK' /\ LedgerAges /\ Tokens' = Tokens
          /\ \A u \in Tokens : u # tok[r] => WritesKept(u)
          /\ ledger'[tok[r]].saved = ledger[tok[r]].saved
          /\ ledger'[tok[r]].exit \in {ledger[tok[r]].exit, mode[r]}
      BY <1>0, <2>2, ReleaseEffect
    <2>5. LedgerInv' /\ HistoryKept
      <3>1. PICK state \in Cursors : Listed(Decode(state)) = {}
        BY CursorFacts
      <3> QED BY <1>0, <2>2, <2>3, <2>4, <3>1, HolderWrites
    <2>6. KnowsTrue(r)'
      BY <1>0, <1>3, <2>2 DEF KnowsTrue
    <2>7. KnowsEarlier(r)'
      BY <2>2 DEF KnowsEarlier
    <2> QED BY <1>1, <1>2, <1>3, <2>5, <2>6, <2>7, OthersKnow
  <1> QED BY <1>4, <1>5, <1>6, <1>7 DEF RestOfRun

(* A coordinator that returned or died is followed by a fresh one. *)
LEMMA ReplacedStep ==
    ASSUME MigrationInv, NEW r \in Runs, Replaced(r)
    PROVE  MigrationInv'
  <1>0. /\ Inv /\ TypeOK /\ LedgerOK /\ WorkTypeOK /\ UNCHANGED <<ledger, migrated>>
        /\ cancelled' \in [Runs -> BOOLEAN]
    BY TypedLedger DEF MigrationInv, Inv, TypeOK, Replaced
  <1>1. Inv'
    BY <1>0, ResetPreserves DEF Replaced
  <1>2. LedgerAges /\ Tokens' = Tokens /\ \A u \in Tokens : WritesKept(u)
    BY <1>0, NothingWritten
  <1>3. StepOf(r)
    BY <1>0, <1>2 DEF StepOf, RunUntouched, Replaced, TypeOK
  <1>4. LedgerInv' /\ HistoryKept /\ Done' = Done
    BY <1>0, QuietLedger
  <1>5. /\ pc'[r] = "call" /\ workErr'[r] = Unset /\ final'[r] = NoState
        /\ at'[r] = "start" /\ kept'[r] = NoState /\ progress'[r] = <<>>
    BY <1>0 DEF Replaced, TypeOK, WorkTypeOK
  <1>6. WorkTypeOK' /\ \A q \in Runs \ {r} : WorkUntouched(q)
    BY <1>0, <1>2, CursorFacts DEF Replaced, WorkTypeOK, WorkUntouched
  <1>7. KnowsTrue(r)' /\ KnowsEarlier(r)'
    BY <1>5, CursorFacts, ErrorsDistinct DEF KnowsTrue, KnowsEarlier, Unset, NilErr, ErrRetire
  <1> QED BY <1>1, <1>3, <1>4, <1>6, <1>7, OthersKnow

(* A deleted row takes cursors out of reach and changes none. *)
LEMMA DeleteRowStep ==
    ASSUME MigrationInv, DeleteRow, UNCHANGED workVars
    PROVE  MigrationInv'
  <1>0. /\ Inv /\ TypeOK /\ LedgerOK /\ TokenSpace \subseteq Nat /\ WorkTypeOK /\ LedgerInv
        /\ UNCHANGED <<at, kept, progress, migrated>>
        /\ UNCHANGED <<pc, tok, cause, workErr, final, mode, result, cancelled>>
    BY TypedLedger DEF MigrationInv, Inv, workVars, DeleteRow, runVars
  <1>1. Inv'
    BY <1>0, DeleteRowPreserves
  <1>2. PICK t \in Tokens : RowDeleted(t)
    BY DEF DeleteRow
  <1>3. LedgerOK' /\ LedgerAges /\ Tokens' = Tokens /\ \A u \in Tokens : WritesKept(u)
    BY <1>0, <1>2, RowDeletedKeeps
  <1>4. Done' = Done
    BY <1>0 DEF Done
  <1>5. LedgerInv' /\ HistoryKept
    <2>1. \A u \in Tokens : TenureTrue(u)'
      BY <1>0, <1>3, <1>4 DEF LedgerInv, TenureTrue, WritesKept
    <2>2. OnlyNewestWritten
      BY <1>3 DEF OnlyNewestWritten, WritesKept
    <2> QED BY <1>0, <1>3, <2>1, <2>2, LedgerInvKept DEF WritesKept
  <1>6. ASSUME NEW q \in Runs PROVE KnowsTrue(q)' /\ KnowsEarlier(q)'
    BY <1>0, <1>3, <1>4, <1>5, KnowsKept DEF TypeOK, RunUntouched, WorkUntouched
  <1>7. WorkTypeOK'
    BY <1>0, <1>3 DEF WorkTypeOK
  <1> QED BY <1>1, <1>5, <1>6, <1>7 DEF MigrationInv

(* A stuttering step. *)
LEMMA StutterStep == ASSUME MigrationInv, UNCHANGED appVars PROVE MigrationInv'
  <1>0. /\ Inv /\ TypeOK /\ LedgerOK /\ WorkTypeOK
        /\ UNCHANGED <<ledger, migrated>> /\ UNCHANGED <<at, kept, progress>>
        /\ UNCHANGED <<pc, tok, cause, workErr, final, mode, result, cancelled>> /\ UNCHANGED vars
    BY TypedLedger DEF MigrationInv, Inv, appVars, vars, runVars, workVars
  <1>1. Inv'
    BY <1>0, InvNext
  <1>2. LedgerAges /\ Tokens' = Tokens /\ \A u \in Tokens : WritesKept(u)
    BY <1>0, NothingWritten
  <1>3. LedgerInv' /\ HistoryKept /\ Done' = Done
    BY <1>0, QuietLedger
  <1>4. ASSUME NEW q \in Runs PROVE KnowsTrue(q)' /\ KnowsEarlier(q)'
    BY <1>0, <1>2, <1>3, KnowsKept DEF TypeOK, RunUntouched, WorkUntouched
  <1>5. WorkTypeOK'
    BY <1>0, <1>2 DEF WorkTypeOK
  <1> QED BY <1>1, <1>3, <1>4, <1>5 DEF MigrationInv

-----------------------------------------------------------------------------
(* The invariant is inductive. *)

(* Nothing was granted, saved or migrated yet. *)
LEMMA MigrationInvInit == MigrationInit => MigrationInv
  <1> SUFFICES ASSUME MigrationInit PROVE MigrationInv
    OBVIOUS
  <1>1. Inv
    BY InvInit DEF MigrationInit
  <1>2. Tokens = {}
    BY DEF MigrationInit, Init, C!Init, Tokens
  <1>3. LedgerInv
    BY <1>2 DEF LedgerInv, HasNewest, HasPredecessor, CursorsGrow, NotRedone
  <1>4. WorkTypeOK
    BY CursorFacts DEF MigrationInit, WorkTypeOK
  <1>5. ASSUME NEW r \in Runs PROVE KnowsTrue(r) /\ KnowsEarlier(r)
    BY CursorFacts, ErrorsDistinct
       DEF MigrationInit, Init, KnowsTrue, KnowsEarlier, Unset, NilErr, ErrRetire
  <1> QED BY <1>1, <1>3, <1>4, <1>5 DEF MigrationInv

(* The invariant is preserved by every step. *)
LEMMA MigrationInvNext == MigrationInv /\ [MigrationNext]_appVars => MigrationInv'
  <1> SUFFICES ASSUME MigrationInv, [MigrationNext]_appVars PROVE MigrationInv'
    OBVIOUS
  <1>1. CASE UNCHANGED appVars
    BY <1>1, StutterStep
  <1>2. ASSUME NEW r \in Runs,
               \/ \E state \in States \union {NoState}, prevExit \in ExitModes : Starts(r, state, prevExit)
               \/ Returns(r) \/ RestOfRun(r) \/ Replaced(r)
               \/ \E x \in Tenants, done \in BOOLEAN : MigratesTenant(r, x, done)
               \/ \E err \in Errors : SavesCursor(r, err)
        PROVE  MigrationInv'
    BY <1>2, StartsStep, ReturnsStep, RestStep, ReplacedStep, MigratesStep, SavesStep
  <1>3. CASE DeleteRow /\ UNCHANGED workVars
    BY <1>3, DeleteRowStep
  <1> QED BY <1>1, <1>2, <1>3 DEF MigrationNext

(* It holds in every reachable state of the migration. *)
LEMMA MigrationInvHolds == MigrationSpec => []MigrationInv
  BY MigrationInvInit, MigrationInvNext, PTL DEF MigrationSpec

-----------------------------------------------------------------------------
(* What the migration may rely on. *)

(* Every stored cursor lists only tenants that were migrated, through any  *)
(* number of crashes, takeovers, fenced writes and deleted rows.           *)
THEOREM StoredCursorIsTrue == MigrationSpec => []CursorIsTrue
  <1>1. MigrationInv => CursorIsTrue
    BY DEF MigrationInv, LedgerInv, TenureTrue, Done, CursorIsTrue, CursorOf
  <1> QED BY <1>1, MigrationInvHolds, PTL

(* A recorded retirement, also one that a later coordinator only kept,     *)
(* means that every tenant was migrated.                                   *)
THEOREM RetirementIsComplete == MigrationSpec => []RetiredIsComplete
  <1>1. MigrationInv => RetiredIsComplete
    BY DEF MigrationInv, LedgerInv, TenureTrue, Done, RetiredIsComplete
  <1> QED BY <1>1, MigrationInvHolds, PTL

(* No tenure migrates again a tenant that the cursor of an earlier one     *)
(* lists, unless the row was deleted in between.                           *)
THEOREM NothingListedIsRedone == MigrationSpec => []ListedIsNotRedone
  <1>1. MigrationInv => ListedIsNotRedone
    BY DEF MigrationInv, LedgerInv, NotRedone, ListedIsNotRedone, CursorOf
  <1> QED BY <1>1, MigrationInvHolds, PTL
=============================================================================
