------------------------------- MODULE KeyLock -------------------------------
(***************************************************************************)
(* common/keylock: locks on keys, each with a time to live.                *)
(*                                                                         *)
(* A caller polls tryLock every 250 ms until it gets the key or its        *)
(* timeout has passed.  A lock whose ttl has passed may be taken over;     *)
(* its former holder still runs, does not know, and calls Unlock later     *)
(* with the handle it was given.  One tick of the model is one poll        *)
(* interval.  Times are kept as what is left of them, so that no clock     *)
(* grows without bound.                                                    *)
(***************************************************************************)
EXTENDS Integers

CONSTANTS
  Keys, Callers,
  TTLs,       \* values of the argument ttl, in ticks
  Timeouts,   \* values of the argument timeout, in ticks
  MaxCalls    \* bound: handles given out in one behaviour

ASSUME TTLAssumption == TTLs \subseteq Nat
ASSUME TimeoutAssumption == Timeouts \subseteq Nat
ASSUME MaxCallsAssumption == MaxCalls \in Nat

VARIABLES
  locks,   \* KeyLock.locks: what is kept for each key
  c,       \* KeyLock.c: the last handle given out
  call     \* per caller: where it is in Lock or in its critical section

vars == <<locks, c, call>>

\* left is expires - now; once it is negative the bucket has expired (now.After).
Left == Nat \cup {-1}
Bucket == [handle : Nat, left : Left]
NoBucket == [handle |-> 0, left |-> -1]

Idle == [pc |-> "idle"]

Waiting == [pc : {"try", "sleep"}, key : Keys, ttl : TTLs, patience : Left]
Holding == [pc : {"held"}, key : Keys, handle : Nat, lease : Left]

Trying(p)  == call[p].pc \in {"try", "sleep"}
Held(p)    == call[p].pc = "held"

\* The holder's own view: the ttl it asked for has not yet passed.
InLease(p) == Held(p) /\ call[p].lease >= 0

TypeOK ==
  /\ locks \in [Keys -> Bucket]
  /\ c \in Nat
  /\ call \in [Callers -> {Idle} \cup Waiting \cup Holding]

Init ==
  /\ locks = [k \in Keys |-> NoBucket]
  /\ c = 0
  /\ call = [p \in Callers |-> Idle]

-----------------------------------------------------------------------------
\* Mutant: a bucket in its last tick counts as expired.
CanTakeEarly(k) == locks[k].left <= 0

\* The test of tryLock: no bucket, or now is after its expiry.
CanTake(k) == locks[k].left < 0

NewHandle(k) == c + 1

BeginLock(p, k, ttl, timeout) ==
  /\ call[p] = Idle
  /\ c < MaxCalls
  /\ call' = [call EXCEPT ![p] = [pc |-> "try", key |-> k, ttl |-> ttl,
                                  patience |-> timeout]]
  /\ UNCHANGED <<locks, c>>

\* tryLock succeeds: the key is free or the bucket's ttl has passed.
TakeLock(p) ==
  /\ call[p].pc = "try"
  /\ CanTake(call[p].key)
  /\ c' = c + 1
  /\ locks' = [locks EXCEPT ![call[p].key] =
                 [handle |-> NewHandle(call[p].key), left |-> call[p].ttl]]
  /\ call' = [call EXCEPT ![p] = [pc |-> "held", key |-> call[p].key,
                                  handle |-> NewHandle(call[p].key), lease |-> call[p].ttl]]

\* tryLock fails: return -1 once the timeout has passed, else sleep.
FailLock(p) ==
  /\ call[p].pc = "try"
  /\ ~CanTake(call[p].key)
  /\ call' = [call EXCEPT ![p] = IF call[p].patience <= 0 THEN Idle
                                 ELSE [call[p] EXCEPT !.pc = "sleep"]]
  /\ UNCHANGED <<locks, c>>

\* Mutant: the key is deleted whoever holds it.
OwnsAny(k, h) == TRUE

Owns(k, h) == locks[k].handle = h

\* Unlock: the bucket goes only if its handle is the caller's.
Unlock(p) ==
  /\ Held(p)
  /\ locks' = [locks EXCEPT ![call[p].key] =
                 IF Owns(call[p].key, call[p].handle) THEN NoBucket ELSE @]
  /\ call' = [call EXCEPT ![p] = Idle]
  /\ UNCHANGED c

Sooner(n) == IF n < 0 THEN n ELSE n - 1

\* Mutant: a sleeper waits for a wake-up that no expiry sends.
AgeAsleep(r) ==
  CASE r.pc = "held"  -> [r EXCEPT !.lease = Sooner(@)]
    [] r.pc \in {"try", "sleep"} -> [r EXCEPT !.patience = Sooner(@)]
    [] OTHER -> r

Age(r) ==
  CASE r.pc = "held"  -> [r EXCEPT !.lease = Sooner(@)]
    [] r.pc \in {"try", "sleep"} ->
         [r EXCEPT !.pc = "try", !.patience = Sooner(@)]
    [] OTHER -> r

\* 250 ms pass: sleepers wake, leases and timeouts run down.
Tick ==
  /\ locks' = [k \in Keys |-> [locks[k] EXCEPT !.left = Sooner(@)]]
  /\ call' = [p \in Callers |-> Age(call[p])]
  /\ UNCHANGED c

LockStep(p) == TakeLock(p) \/ FailLock(p)

Next ==
  \/ \E p \in Callers :
       \/ \E k \in Keys, ttl \in TTLs, timeout \in Timeouts :
            BeginLock(p, k, ttl, timeout)
       \/ LockStep(p)
       \/ Unlock(p)
  \/ Tick

\* A caller inside Lock is scheduled again and time passes; a holder is never
\* obliged to unlock.
Fairness == WF_vars(Tick) /\ \A p \in Callers : WF_vars(LockStep(p))

Spec == Init /\ [][Next]_vars
FairSpec == Spec /\ Fairness

-----------------------------------------------------------------------------
(* Two callers that both hold the same key inside the time to live each asked
   for never exist, whoever overran its own lease and unlocked late: what
   Lock promises to the custom commands it serialises.                      *)
MutualExclusion ==
  \A p, q \in Callers :
    InLease(p) /\ InLease(q) /\ call[p].key = call[q].key => p = q

(* A handle names one acquisition: no two callers ever carry the same one, not
   even a caller whose bucket was taken over, or its Unlock could remove a
   bucket that is not its own.                                              *)
HandlesAreUnique ==
  \A p, q \in Callers :
    Held(p) /\ Held(q) /\ call[p].handle = call[q].handle => p = q

(* A bucket that has not expired is removed or replaced only by the caller it
   was given to.                                                            *)
OnlyTheOwnerReleases ==
  [][\A k \in Keys :
       locks[k].left >= 0 /\ locks'[k].handle # locks[k].handle =>
         \E p \in Callers : /\ Held(p) /\ ~Held(p)'
                            /\ call[p].handle = locks[k].handle]_vars

(* Every call of Lock returns, with a handle or with -1, even if the holder of
   the key never unlocks it.                                                *)
LockReturns == \A p \in Callers : Trying(p) ~> ~Trying(p)
=============================================================================
