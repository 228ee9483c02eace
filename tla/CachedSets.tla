----------------------------- MODULE CachedSets -----------------------------
(* What a cache that is kept up to date with evictions promises its readers: *)
(* what they see is what is stored, or they are owed an eviction.            *)
CONSTANTS
  Keys,     \* what values are stored for
  Readers,  \* processes with a cache each
  Values,
  None      \* nothing is cached

VARIABLES
  truth,  \* truth[k]: the stored value
  view,   \* view[r][k]: what r has cached, or None
  owed    \* owed[r]: the keys r will be told to forget, or should have been

cvars == <<truth, view, owed>>

CInit ==
  /\ truth \in [Keys -> Values]
  /\ view = [r \in Readers |-> [k \in Keys |-> None]]
  /\ owed \in [Readers -> SUBSET Keys]

(* The value changes; every reader that may have cached it is owed an eviction. *)
Write(k) ==
  /\ \E v \in Values : truth' = [truth EXCEPT ![k] = v]
  /\ owed' \in [Readers -> SUBSET Keys]
  /\ \A r \in Readers :
       /\ owed[r] \subseteq owed'[r]
       /\ view[r][k] # None => k \in owed'[r]
  /\ UNCHANGED view

Fill(r, k) ==
  /\ view[r][k] = None
  /\ view' = [view EXCEPT ![r][k] = truth[k]]
  /\ UNCHANGED <<truth, owed>>

(* What r has cached for some keys is forgotten; only then may r stop being  *)
(* owed their evictions.                                                     *)
Evict(r, K) ==
  /\ view' = [view EXCEPT ![r] = [k \in Keys |-> IF k \in K THEN None ELSE view[r][k]]]
  /\ owed' \in [Readers -> SUBSET Keys]
  /\ \A q \in Readers : owed[q] \ (IF q = r THEN K ELSE {}) \subseteq owed'[q]
  /\ UNCHANGED truth

CNext ==
  \/ \E k \in Keys : Write(k)
  \/ \E r \in Readers, k \in Keys : Fill(r, k)
  \/ \E r \in Readers, K \in SUBSET Keys : Evict(r, K)

CSpec == CInit /\ [][CNext]_cvars

(* What is cached is what is stored, or the reader is owed an eviction.      *)
ViewsAreCurrent ==
  \A r \in Readers, k \in Keys : view[r][k] \in {None, truth[k]} \/ k \in owed[r]
=============================================================================
