---------------------------- MODULE KeyLockProofs ----------------------------
(***************************************************************************)
(* Mutual exclusion of KeyLock for every set of callers, keys, ttls and    *)
(* timeouts.  What the holders believe is not enough: the argument ties    *)
(* each lease still running to the bucket that backs it.                   *)
(***************************************************************************)
EXTENDS KeyLock, TLAPS

\* A handle in use has been given out, and is not the 0 of "no bucket".
HandlesGivenOut ==
  /\ \A p \in Callers : Held(p) => call[p].handle \in 1 .. c
  /\ \A k \in Keys : locks[k].handle <= c

\* A lease that runs is backed by a bucket of the same handle and the same age.
LeaseIsBacked ==
  \A p \in Callers : InLease(p) =>
    /\ locks[call[p].key].handle = call[p].handle
    /\ locks[call[p].key].left = call[p].lease

LockInv == TypeOK /\ HandlesGivenOut /\ HandlesAreUnique /\ LeaseIsBacked

USE DEF Left

\* No time to pass turns a caller of one kind into another, or gives it another
\* key or handle.
LEMMA AgeKeeps ==
  ASSUME NEW r \in {Idle} \cup Waiting \cup Holding
  PROVE  /\ Age(r) \in {Idle} \cup Waiting \cup Holding
         /\ (Age(r).pc = "held") <=> (r.pc = "held")
         /\ r.pc = "held" => /\ Age(r).key = r.key
                             /\ Age(r).handle = r.handle
                             /\ Age(r).lease = Sooner(r.lease)
  <1>1. CASE r \in Holding
    BY <1>1 DEF Holding, Age, Sooner
  <1>2. CASE r \in Waiting
    <2>1. r.pc # "held" /\ r.pc \in {"try", "sleep"}
      BY <1>2 DEF Waiting
    <2>2. Age(r) = [r EXCEPT !.pc = "try",
                             !.patience = Sooner(@)]
      BY <2>1 DEF Age
    <2>3. Sooner(r.patience) \in Left
      BY <1>2 DEF Waiting, Sooner
    <2>4. Age(r) \in Waiting
      BY <1>2, <2>2, <2>3 DEF Waiting
    <2> QED BY <2>1, <2>4 DEF Waiting
  <1>3. CASE r = Idle
    BY <1>3 DEF Idle, Age
  <1> QED BY <1>1, <1>2, <1>3

LEMMA InvInit == Init => LockInv
  BY DEF Init, LockInv, TypeOK, HandlesGivenOut, HandlesAreUnique,
         LeaseIsBacked, InLease, Held, NoBucket, Bucket, Idle

LEMMA InvNext == LockInv /\ [Next]_vars => LockInv'
  <1> SUFFICES ASSUME LockInv, [Next]_vars PROVE LockInv'
    OBVIOUS
  <1> USE DEF LockInv, Held, InLease
  <1>0. \A p \in Callers : Held(p) => call[p] \in Holding
    BY DEF TypeOK, Idle, Waiting, Holding
  <1>1. ASSUME NEW p \in Callers, NEW k \in Keys, NEW ttl \in TTLs,
               NEW timeout \in Timeouts, BeginLock(p, k, ttl, timeout)
        PROVE LockInv'
    <2>1. TypeOK'
      BY <1>1, TimeoutAssumption DEF BeginLock, TypeOK, Waiting
    <2>2. \A q \in Callers : Held(q)' => /\ Held(q)
                                         /\ call'[q] = call[q]
      BY <1>1 DEF BeginLock, TypeOK
    <2>3. QED
      BY <2>1, <2>2, <1>1 DEF BeginLock, HandlesGivenOut, HandlesAreUnique, LeaseIsBacked
  <1>2. ASSUME NEW p \in Callers, TakeLock(p) PROVE LockInv'
    <2>0. call[p] \in Waiting
      BY <1>2 DEF TakeLock, TypeOK, Idle, Holding, Waiting
    <2>1. TypeOK'
      BY <1>2, <2>0, TTLAssumption
         DEF TakeLock, TypeOK, Bucket, Holding, Waiting, NewHandle
    <2>2. \A q \in Callers : q # p => call'[q] = call[q]
      BY <1>2 DEF TakeLock, TypeOK
    <2>3. /\ Held(p)' /\ call'[p].handle = c + 1 /\ c' = c + 1
          /\ call'[p].key = call[p].key /\ call[p].key \in Keys
          /\ call'[p].lease = call[p].ttl /\ call[p].ttl \in Nat
      BY <1>2, <2>0, TTLAssumption DEF TakeLock, TypeOK, NewHandle, Waiting
    <2>4. /\ locks'[call[p].key].handle = c + 1
          /\ locks'[call[p].key].left = call[p].ttl
          /\ locks[call[p].key].left < 0
          /\ \A k \in Keys : k # call[p].key => locks'[k] = locks[k]
      BY <1>2, <2>3 DEF TakeLock, TypeOK, NewHandle, Bucket, CanTake
    <2>5. HandlesGivenOut'
      BY <2>2, <2>3, <2>4, <1>0 DEF HandlesGivenOut, TypeOK, Holding, Bucket
    <2>6. HandlesAreUnique'
      BY <2>2, <2>3, <1>0 DEF HandlesAreUnique, HandlesGivenOut, TypeOK, Holding
    <2>7. LeaseIsBacked'
      <3> SUFFICES ASSUME NEW q \in Callers, InLease(q)'
                   PROVE  /\ locks'[call'[q].key].handle = call'[q].handle
                          /\ locks'[call'[q].key].left = call'[q].lease
        BY DEF LeaseIsBacked
      <3>1. CASE q = p
        BY <3>1, <2>3, <2>4
      <3>2. CASE q # p
        <4>1. InLease(q) /\ call'[q] = call[q]
          BY <3>2, <2>2
        <4>2. call[q].key # call[p].key
          BY <4>1, <2>4, <1>0 DEF LeaseIsBacked, Holding
        <4> QED BY <4>1, <4>2, <2>4, <1>0 DEF LeaseIsBacked, Holding
      <3> QED BY <3>1, <3>2
    <2> QED BY <2>1, <2>5, <2>6, <2>7
  <1>3. ASSUME NEW p \in Callers, FailLock(p) PROVE LockInv'
    <2>0. call[p] \in Waiting
      BY <1>3 DEF FailLock, TypeOK, Idle, Holding, Waiting
    <2>1. TypeOK'
      BY <1>3, <2>0 DEF FailLock, TypeOK, Idle, Waiting
    <2>2. \A q \in Callers : Held(q)' => /\ Held(q)
                                         /\ call'[q] = call[q]
      BY <1>3, <2>0 DEF FailLock, TypeOK, Idle, Waiting
    <2>3. QED
      BY <2>1, <2>2, <1>3 DEF FailLock, HandlesGivenOut, HandlesAreUnique, LeaseIsBacked
  <1>4. ASSUME NEW p \in Callers, Unlock(p) PROVE LockInv'
    <2>0. call[p] \in Holding
      BY <1>4, <1>0 DEF Unlock
    <2>1. TypeOK'
      BY <1>4, <2>0 DEF Unlock, TypeOK, Idle, NoBucket, Bucket, Holding
    <2>2. \A q \in Callers : Held(q)' => /\ q # p
                                         /\ Held(q)
                                         /\ call'[q] = call[q]
      BY <1>4 DEF Unlock, TypeOK, Idle
    <2>3. HandlesGivenOut'
      BY <1>4, <2>2 DEF Unlock, HandlesGivenOut, TypeOK, NoBucket, Bucket
    <2>4. HandlesAreUnique'
      BY <2>2 DEF HandlesAreUnique
    <2>5. LeaseIsBacked'
      <3> SUFFICES ASSUME NEW q \in Callers, InLease(q)'
                   PROVE  /\ locks'[call'[q].key].handle = call'[q].handle
                          /\ locks'[call'[q].key].left = call'[q].lease
        BY DEF LeaseIsBacked
      <3>1. InLease(q) /\ call'[q] = call[q] /\ q # p
        BY <2>2
      <3>2. call[q].key \in Keys /\ call[p].handle # call[q].handle
        BY <3>1, <1>0, <2>0, <1>4 DEF Unlock, HandlesAreUnique, Holding
      <3>3. locks'[call[q].key] = locks[call[q].key]
        BY <3>1, <3>2, <2>0, <1>4 DEF Unlock, TypeOK, LeaseIsBacked, Owns
      <3> QED BY <3>1, <3>3 DEF LeaseIsBacked
    <2> QED BY <2>1, <2>3, <2>4, <2>5
  <1>5. ASSUME Tick PROVE LockInv'
    <2>1. TypeOK'
      <3>1. \A n \in Left : Sooner(n) \in Left
        BY DEF Sooner
      <3> QED BY <1>5, <3>1, AgeKeeps DEF Tick, TypeOK, Bucket
    <2>2. \A q \in Callers : Held(q)' => /\ Held(q)
                                         /\ call'[q].key = call[q].key
                                         /\ call'[q].handle = call[q].handle
                                         /\ call'[q].lease = Sooner(call[q].lease)
      BY <1>5, AgeKeeps DEF Tick, TypeOK
    <2>3. \A k \in Keys : /\ locks'[k].handle = locks[k].handle
                          /\ locks'[k].left = Sooner(locks[k].left)
      BY <1>5 DEF Tick, TypeOK, Bucket
    <2>4. HandlesGivenOut' /\ HandlesAreUnique'
      BY <1>5, <2>2, <2>3 DEF Tick, HandlesGivenOut, HandlesAreUnique
    <2>5. LeaseIsBacked'
      BY <2>2, <2>3, <1>0 DEF LeaseIsBacked, Sooner, Holding
    <2> QED BY <2>1, <2>4, <2>5
  <1>6. ASSUME UNCHANGED vars PROVE LockInv'
    BY <1>6 DEF vars, TypeOK, HandlesGivenOut, HandlesAreUnique, LeaseIsBacked
  <1> QED BY <1>1, <1>2, <1>3, <1>4, <1>5, <1>6 DEF Next, LockStep

\* The types of KeyLock's state hold in every state, whatever the constants.
THEOREM Typing == Spec => []TypeOK
  <1>1. LockInv => TypeOK BY DEF LockInv
  <1> QED BY <1>1, InvInit, InvNext, PTL DEF Spec

\* No two callers hold one key inside their leases (keylock.go: Lock).
THEOREM LockExcludes == Spec => []MutualExclusion
  <1>1. LockInv => MutualExclusion
    BY DEF LockInv, MutualExclusion, LeaseIsBacked, HandlesAreUnique, InLease
  <1> QED BY <1>1, InvInit, InvNext, PTL DEF Spec

\* No two callers carry the same handle, also past their leases (keylock.go: tryLock).
THEOREM UniqueHandles == Spec => []HandlesAreUnique
  <1>1. LockInv => HandlesAreUnique BY DEF LockInv
  <1> QED BY <1>1, InvInit, InvNext, PTL DEF Spec

\* An unexpired bucket goes only by a step of its owner (keylock.go: Unlock).
THEOREM OwnerReleases == Spec => OnlyTheOwnerReleases
  <1> DEFINE Released == \A k \in Keys :
               locks[k].left >= 0 /\ locks'[k].handle # locks[k].handle =>
                 \E p \in Callers : /\ Held(p) /\ ~Held(p)'
                                    /\ call[p].handle = locks[k].handle
  <1>1. ASSUME LockInv, [Next]_vars PROVE [Released]_vars
    <2> SUFFICES ASSUME NEW k \in Keys, locks[k].left >= 0,
                        locks'[k].handle # locks[k].handle
                 PROVE  \E p \in Callers : /\ Held(p) /\ ~Held(p)'
                                           /\ call[p].handle = locks[k].handle
      OBVIOUS
    <2> USE DEF LockInv, TypeOK
    <2>1. ASSUME NEW p \in Callers, Unlock(p)
          PROVE Held(p) /\ ~Held(p)' /\ call[p].handle = locks[k].handle
      <3>1. k = call[p].key /\ Owns(k, call[p].handle)
        BY <1>1, <2>1 DEF Unlock
      <3>2. call'[p] = Idle
        BY <1>1, <2>1 DEF Unlock
      <3> QED BY <2>1, <3>1, <3>2 DEF Unlock, Held, Owns, Idle
    <2>2. ASSUME NEW p \in Callers, TakeLock(p) PROVE FALSE
      <3>1. k = call[p].key
        BY <1>1, <2>2 DEF TakeLock
      <3> QED BY <1>1, <2>2, <3>1 DEF TakeLock, CanTake, Bucket
    <2>3. ASSUME Tick PROVE FALSE
      <3>1. locks[k] \in Bucket /\ locks'[k] = [locks[k] EXCEPT !.left = Sooner(@)]
        BY <1>1, <2>3 DEF Tick
      <3> QED BY <3>1 DEF Bucket
    <2>4. locks' # locks
      OBVIOUS
    <2> QED BY <2>1, <2>2, <2>3, <2>4, <1>1
               DEF Next, LockStep, vars, FailLock, BeginLock
  <1> HIDE DEF Released
  <1>2. [][Released]_vars <=> OnlyTheOwnerReleases
    BY DEF Released, OnlyTheOwnerReleases
  <1> QED BY <1>1, <1>2, InvInit, InvNext, PTL DEF Spec
=============================================================================
