---------------------------- MODULE LeaseContract ----------------------------
(***************************************************************************)
(* What a backend promises its callers, without clocks, rows or SQL: a     *)
(* ledger of tenures, one per fencing token ever issued.  A tenure is      *)
(* granted under a token greater than every earlier one; while it is the   *)
(* newest tenure of its work ID, still stored and without a declared exit, *)
(* its holder may save state and declare an exit, once; from then on it is *)
(* history and only a deletion of the stored row may touch it.             *)
(*                                                                         *)
(* From the doc comments of Acquire, Checkpoint, Release, Forget and Sweep *)
(* in backend/backend.go.                                                  *)
(***************************************************************************)
EXTENDS Backend

CONSTANT TokenSpace   \* the numbers a fencing token is drawn from

VARIABLE ledger   \* fencing token -> tenure

(* saved holds the last state the holder was told is stored; it is empty   *)
(* while the holder has stored none.                                       *)
Tenure == [work   : WorkIDs,
           holder : HolderIDs,
           exit   : StoredExits,
           saved  : SUBSET (States \union {NoState}),
           erased : BOOLEAN]

Tokens == DOMAIN ledger

NewTenure(w, h) ==
    [work |-> w, holder |-> h, exit |-> ExitNone, saved |-> {}, erased |-> FALSE]

Newest(t) == \A u \in Tokens : ledger[u].work = ledger[t].work => u <= t

Current(t) == Newest(t) /\ ~ledger[t].erased

Open(t) == Current(t) /\ ledger[t].exit = ExitNone

Init == ledger = [t \in {} |-> NewTenure(t, t)]

Grant(t, w, h) ==
    /\ \A u \in Tokens : u < t
    /\ ledger' = [u \in Tokens \union {t} |->
                    IF u = t THEN NewTenure(w, h) ELSE ledger[u]]

Save(t, s) ==
    /\ Open(t)
    /\ ledger' = [ledger EXCEPT ![t].saved = {s}]

Declare(t, mode) ==
    /\ Open(t)
    /\ ledger' = [ledger EXCEPT ![t].exit = mode]

Erase(T) ==
    /\ ledger' = [t \in Tokens |->
                    IF t \in T THEN [ledger[t] EXCEPT !.erased = TRUE] ELSE ledger[t]]

Next ==
    \/ \E t \in TokenSpace, w \in WorkIDs, h \in HolderIDs : Grant(t, w, h)
    \/ \E t \in Tokens, s \in States \union {NoState} : Save(t, s)
    \/ \E t \in Tokens, mode \in DeclarableExits : Declare(t, mode)
    \/ \E T \in SUBSET {t \in Tokens : Current(t)} : Erase(T)

Spec == Init /\ [][Next]_ledger

-----------------------------------------------------------------------------
(* What the holder of t must be told about the tenure before its own.      *)

Predecessor(p, t) ==
    /\ p < t
    /\ ledger[p].work = ledger[t].work
    /\ \A u \in Tokens : ledger[u].work = ledger[t].work => u <= p \/ t <= u

(* The row of p was still stored when t was granted. *)
HandsOverTo(p, t) == Predecessor(p, t) /\ ~ledger[p].erased

(* prevExit and prevHolder are those of the tenure t took over from. *)
TruePrevExit(t, prevExit, prevHolder) ==
    \/ \E p \in Tokens : /\ HandsOverTo(p, t)
                         /\ prevExit = CapturedExit(ledger[p].exit)
                         /\ prevHolder = ledger[p].holder
    \/ /\ \A p \in Tokens : ~HandsOverTo(p, t)
       /\ prevExit = ExitNone
       /\ prevHolder = NoHolder

(* The state s saved reaches t: no deletion of the row in between. *)
Reaches(s, t) ==
    /\ s <= t
    /\ ledger[s].work = ledger[t].work
    /\ ledger[s].saved # {}
    /\ \A u \in Tokens :
          (ledger[u].work = ledger[t].work /\ s <= u /\ u < t) => ~ledger[u].erased

(* state is the last one saved, by the holder of t or by any before it. *)
TrueState(t, state) ==
    \/ \E s \in Tokens : /\ Reaches(s, t)
                         /\ \A u \in Tokens : Reaches(u, t) => u <= s
                         /\ state \in ledger[s].saved
    \/ /\ \A s \in Tokens : ~Reaches(s, t)
       /\ state = NoState
=============================================================================
