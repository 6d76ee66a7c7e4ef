-------------------------- MODULE UnitOfWorkProofs --------------------------
(***************************************************************************)
(* What the three ways a unit of work ends leave of the others, for any    *)
(* number of sessions.  The proofs of the components rest on these facts   *)
(* and do not look into Load, Commit, Abandon and CommitAtOnce again.      *)
(***************************************************************************)
EXTENDS Integers, FiniteSets, UnitOfWork, FiniteSetTheorems, TLAPS

(* What is known of the units of work of any component.                     *)
Units(T) == txn \in [Sessions -> T \cup {Idle}] /\ UnitsOK

(* An idle session has no handler's name.                                   *)
LEMMA IdleHandler == Idle.handler = "idle" /\ DOMAIN Idle = {"handler"}
  BY DEF Idle

(* A request in flight is late only if some commit made it so.              *)
LEMMA UnitsStart == ASSUME UnitsInit, NEW T
                    PROVE  /\ Units(T)
                           /\ late = {} /\ raced = {}
                           /\ \A s \in Sessions : txn[s] = Idle
  BY DEF UnitsInit, Units, UnitsOK

(* A request that loads its rows is not late, and nobody else notices.      *)
LEMMA LoadUnits ==
    ASSUME NEW T, Units(T), NEW s \in Sessions, NEW t \in T, t # Idle, Load(s, t)
    PROVE  /\ Units(T)'
           /\ txn[s] = Idle /\ s \notin late
           /\ txn'[s] = t
           /\ \A u \in Sessions : u # s => txn'[u] = txn[u]
           /\ late' = late /\ raced' = raced
  BY DEF Load, Units, UnitsOK, InFlight

(* A commit makes every other request late that reads what it wrote; a      *)
(* handler that is not in raced afterwards did not commit late.             *)
LEMMA CommitUnits ==
    ASSUME NEW T, Units(T), NEW s \in Sessions, NEW hit, Commit(s, hit)
    PROVE  /\ Units(T)'
           /\ txn'[s] = Idle
           /\ \A u \in Sessions : u # s => txn'[u] = txn[u]
           /\ \A u \in Sessions : u # s /\ u \in late => u \in late'
           /\ \A u \in Sessions : u # s /\ txn[u] # Idle /\ txn[u].handler \in hit
                                    => u \in late'
           /\ raced \subseteq raced'
           /\ txn[s].handler \notin raced' => s \notin late
  <1>1. txn' \in [Sessions -> T \cup {Idle}]
    BY DEF Commit, End, Units
  <1>2. \A u \in Sessions : txn'[u] = IF u = s THEN Idle ELSE txn[u]
    BY DEF Commit, End, Units
  <1>3. \A u \in Sessions : u # s => (u \in InFlight <=> u \in InFlight')
    BY <1>2 DEF InFlight
  <1>4. UnitsOK'
    BY <1>3 DEF Commit, Units, UnitsOK, Reading, InFlight
  <1>5. \A u \in Sessions : u # s /\ txn[u] # Idle /\ txn[u].handler \in hit => u \in late'
    BY DEF Commit, Reading, InFlight
  <1>6. /\ \A u \in Sessions : u # s /\ u \in late => u \in late'
        /\ raced \subseteq raced'
        /\ txn[s].handler \notin raced' => s \notin late
    BY DEF Commit
  <1> QED  BY <1>1, <1>2, <1>4, <1>5, <1>6 DEF Units

(* A rolled back request leaves no trace.                                   *)
LEMMA AbandonUnits ==
    ASSUME NEW T, Units(T), NEW s \in Sessions, Abandon(s)
    PROVE  /\ Units(T)'
           /\ txn'[s] = Idle
           /\ \A u \in Sessions : u # s => txn'[u] = txn[u] /\ (u \in late <=> u \in late')
           /\ raced' = raced
  <1>1. txn' \in [Sessions -> T \cup {Idle}]
    BY DEF Abandon, End, Units
  <1>2. \A u \in Sessions : txn'[u] = IF u = s THEN Idle ELSE txn[u]
    BY DEF Abandon, End, Units
  <1>3. UnitsOK'
    BY <1>2 DEF Abandon, Units, UnitsOK, InFlight
  <1> QED  BY <1>1, <1>2, <1>3 DEF Units, Abandon

(* A commit in one step: only who reads what it wrote notices.              *)
LEMMA AtOnceUnits ==
    ASSUME NEW T, Units(T), NEW hit, CommitAtOnce(hit)
    PROVE  /\ Units(T)'
           /\ txn' = txn /\ raced' = raced /\ late \subseteq late'
           /\ \A u \in Sessions : txn[u] # Idle /\ txn[u].handler \in hit => u \in late'
  BY DEF CommitAtOnce, Units, UnitsOK, InFlight, Reading

(* A step that leaves the units of work alone.                              *)
LEMMA SameUnits ==
    ASSUME NEW T, Units(T), UNCHANGED uow
    PROVE  Units(T)' /\ txn' = txn /\ late' = late /\ raced' = raced
  BY DEF uow, Units, UnitsOK, InFlight

(* A step that gives no session a new request: a request in flight ends or  *)
(* stays, and one that is late stays late.                                  *)
Settles(T) ==
    /\ Units(T)'
    /\ raced \subseteq raced'
    /\ \A u \in Sessions : \/ txn'[u] = Idle
                           \/ txn'[u] = txn[u] /\ (u \in late => u \in late')

(* Every step but a load is one.                                            *)
LEMMA Settled ==
    ASSUME NEW T, Units(T),
           \/ \E s \in Sessions : Abandon(s) \/ \E hit : Commit(s, hit)
           \/ \E hit : CommitAtOnce(hit)
           \/ UNCHANGED uow
    PROVE  Settles(T)
  <1>1. ASSUME NEW s \in Sessions, NEW hit, Commit(s, hit) PROVE Settles(T)
    BY <1>1, CommitUnits DEF Settles
  <1>2. ASSUME NEW s \in Sessions, Abandon(s) PROVE Settles(T)
    BY <1>2, AbandonUnits DEF Settles
  <1>3. ASSUME NEW hit, CommitAtOnce(hit) PROVE Settles(T)
    BY <1>3, AtOnceUnits DEF Settles
  <1>4. CASE UNCHANGED uow
    BY <1>4, SameUnits DEF Settles
  <1> QED  BY <1>1, <1>2, <1>3, <1>4

------------------------------------------------------------------------------
(* What the proofs of several components need about sets.                   *)

(* A set any two members of which are equal has at most one.                *)
LEMMA AtMostOne ==
    ASSUME NEW S, \A u, v \in S : u = v
    PROVE  IsFiniteSet(S) /\ Cardinality(S) <= 1
  <1>1. CASE S = {}
    BY <1>1, FS_EmptySet
  <1>2. CASE S # {}
    <2>1. PICK u \in S : S = {u}
      BY <1>2
    <2> QED  BY <2>1, FS_Singleton
  <1> QED  BY <1>1, <1>2

(* A set of numbers that is not empty has a least one.                      *)
LEMMA LeastNumber ==
    ASSUME NEW S \in SUBSET Nat, S # {}
    PROVE  \E v \in S : \A w \in S : v <= w
  <1>1. \E v \in S : \A w \in S : ~(<<w, v>> \in OpToRel(<, Nat))
    BY NatLessThanWellFounded, WFMin
  <1>2. \A v, w \in Nat : <<w, v>> \in OpToRel(<, Nat) <=> w < v
    BY DEF OpToRel
  <1>3. PICK v \in S : \A w \in S : ~(w < v)
    BY <1>1, <1>2
  <1>4. \A x, y \in Nat : ~(y < x) => x <= y
    OBVIOUS
  <1> QED  BY <1>3, <1>4

(* A set of versions that is not empty has a highest one.                   *)
LEMMA HighestVersion ==
    ASSUME NEW n \in Nat, NEW S \in SUBSET (1..n), S # {}
    PROVE  \E v \in S : \A w \in S : w <= v
  <1> DEFINE Below == {n - v : v \in S}
  <1>1. Below \in SUBSET Nat /\ Below # {}
    <2>1. \A v \in S : v \in 1..n /\ n - v \in Nat
      OBVIOUS
    <2> QED  BY <2>1
  <1>2. \E x \in Below : \A y \in Below : x <= y
    <2> HIDE DEF Below
    <2> QED  BY <1>1, LeastNumber
  <1>3. PICK v \in S : \A w \in S : n - v <= n - w
    BY <1>2
  <1> QED  BY <1>3
=============================================================================
