------------------------- MODULE MemberFetcherProofs -------------------------
(***************************************************************************)
(* Proofs about the member fetcher, for any callers, guilds and members.   *)
(***************************************************************************)
EXTENDS MemberFetcher, FiniteSetTheorems, TLAPS

(* Those a late answer may still bring.                                     *)
Known == here \cup leaving \cup overtaken

(* An answer of Discord that is on its way has only members that were there,
   and that the state tracker has been told about or is to be.              *)
AnswersInv ==
  /\ \A m \in Members : call[m] = "got" => m \in Known
  /\ \A ch \in chunks : ch.found \subseteq Known

\* The part of the type invariant that the proof needs.
CallsInv == call \in [Members -> Stages]

FetcherInv == CallsInv /\ AnswersInv /\ NobodyComesBack

(* checkSendNextAPICall begins a call, and is in no hurry to store anything. *)
LEMMA NextCallLooks ==
  ASSUME NEW calls \in [Members -> Stages], NEW q, NEW g \in Guilds
  PROVE  /\ NextCall(calls, q, g) \in [Members -> Stages]
         /\ \A m \in Members : NextCall(calls, q, g)[m] = "got" => calls[m] = "got"
  <1>1. CASE NextCall(calls, q, g) = calls
    BY <1>1
  <1>2. CASE NextCall(calls, q, g) = [calls EXCEPT ![Head(q[g]).member] = "looks"]
    BY <1>2 DEF Stages
  <1> QED BY <1>1, <1>2 DEF NextCall

LEMMA InitFetcherInv == Init => FetcherInv
  BY DEF Init, FetcherInv, CallsInv, AnswersInv, NobodyComesBack, Stages

LEMMA FetcherStep == FetcherInv /\ [Next]_vars => FetcherInv'
  <1> SUFFICES ASSUME FetcherInv, [Next]_vars PROVE FetcherInv'
    OBVIOUS
  <1> USE DEF FetcherInv
  <1>1. ASSUME NEW c \in Callers, NEW g \in Guilds, NEW M \in SUBSET Of(g), GetMembers(c, g, M)
        PROVE  FetcherInv'
    <2>1. call' = NextCall(call, queue', g) /\ UNCHANGED tracked /\ chunks' = chunks
      BY <1>1 DEF GetMembers, SendBatch, NoBatch, gateway
    <2>2. CallsInv' /\ \A m \in Members : call'[m] = "got" => call[m] = "got"
      BY <2>1, NextCallLooks DEF CallsInv
    <2> QED BY <2>1, <2>2 DEF tracked, AnswersInv, NobodyComesBack, Known
  <1>2. ASSUME NEW m \in Members, HandleFinishedSingle(m) PROVE FetcherInv'
    <2> DEFINE calls == [call EXCEPT ![m] = "no"]
    <2>1. calls \in [Members -> Stages] /\ \A x \in Members : calls[x] = "got" => call[x] = "got"
      BY DEF CallsInv, Stages
    <2>2. call' = NextCall(calls, queue', GuildOf[m]) /\ UNCHANGED <<gateway, tracked>>
      BY <1>2 DEF HandleFinishedSingle, CallAfter
    <2>3. GuildOf[m] \in Guilds
      BY FetcherAssumption
    <2> HIDE DEF calls
    <2>4. CallsInv' /\ \A x \in Members : call'[x] = "got" => call[x] = "got"
      BY <2>1, <2>2, <2>3, NextCallLooks DEF CallsInv
    <2> QED BY <2>2, <2>4 DEF gateway, tracked, AnswersInv, NobodyComesBack, Known
  <1>3. ASSUME NEW ch \in chunks, HandleFinishedGateway(ch) PROVE FetcherInv'
    <2>1. /\ chunks' = chunks \ {ch} /\ state' = state \cup ch.found
          /\ UNCHANGED <<call, here, leaving, overtaken>>
      BY <1>3 DEF HandleFinishedGateway
    <2> QED BY <2>1 DEF CallsInv, AnswersInv, NobodyComesBack, Known
  <1>4. CASE Tick \/ SecondPasses
    BY <1>4 DEF Tick, SecondPasses, SendBatch, tracked, CallsInv, AnswersInv, NobodyComesBack, Known
  <1>5. ASSUME NEW m \in Members, Look(m) \/ Ask(m) PROVE FetcherInv'
    <2>1. UNCHANGED <<chunks, tracked>>
      BY <1>5 DEF Look, Ask, Goes, gateway
    <2>2. PICK s \in Stages : call' = [call EXCEPT ![m] = s] /\ (s = "got" => m \in here)
      <3>1. CASE Look(m)
        <4>1. PICK s \in {"has", "asks"} : call' = [call EXCEPT ![m] = s]
          BY <3>1 DEF Look, Goes
        <4> QED BY <4>1 DEF Stages
      <3>2. CASE Ask(m)
        <4>1. PICK s \in {"got", "failed"} : call' = [call EXCEPT ![m] = s] /\ (s = "got" => m \in here)
          BY <3>2 DEF Ask, Goes
        <4> QED BY <4>1 DEF Stages
      <3> QED BY <1>5, <3>1, <3>2
    <2> QED BY <2>1, <2>2 DEF tracked, CallsInv, AnswersInv, NobodyComesBack, Known
  <1>6. ASSUME NEW m \in Members, Store(m) PROVE FetcherInv'
    <2>1. /\ call[m] = "got" /\ call' = [call EXCEPT ![m] = "has"]
          /\ state' = state \cup {m} /\ UNCHANGED <<chunks, here, leaving, overtaken>>
      BY <1>6 DEF Store, MayStore, Goes, gateway
    <2>2. CallsInv' /\ \A x \in Members : call'[x] = "got" => call[x] = "got"
      BY <2>1 DEF CallsInv, Stages
    <2>3. m \in Known /\ Known' = Known
      BY <2>1 DEF AnswersInv, Known
    <2>4. AnswersInv'
      BY <2>1, <2>2, <2>3 DEF AnswersInv
    <2>5. NobodyComesBack'
      BY <2>1, <2>3 DEF NobodyComesBack, Known
    <2> QED BY <2>2, <2>4, <2>5
  <1>7. ASSUME NEW r \in requests, Reply(r) PROVE FetcherInv'
    <2> DEFINE ch == [nonce |-> r.nonce, guild |-> r.guild, asked |-> r.asked,
                      found |-> r.asked \cap here]
    <2>1. chunks' = chunks \cup {ch} /\ ch.found \subseteq here
      BY <1>7 DEF Reply
    <2>2. UNCHANGED <<call, tracked>>
      BY <1>7 DEF Reply
    <2> HIDE DEF ch
    <2> QED BY <2>1, <2>2 DEF tracked, CallsInv, AnswersInv, NobodyComesBack, Known
  <1>8. CASE Lose
    BY <1>8 DEF Lose, tracked, CallsInv, AnswersInv, NobodyComesBack, Known
  <1>13. ASSUME NEW g \in Guilds, NEW M \in Foreign, ReplyToOthers(g, M) PROVE FetcherInv'
    <2> DEFINE ch == [nonce |-> Other, guild |-> g, asked |-> M, found |-> M \cap here]
    <2>1. chunks' = chunks \cup {ch} /\ ch.found \subseteq here
      BY <1>13 DEF ReplyToOthers
    <2>2. UNCHANGED <<call, tracked>>
      BY <1>13 DEF ReplyToOthers
    <2> HIDE DEF ch
    <2> QED BY <2>1, <2>2 DEF tracked, CallsInv, AnswersInv, NobodyComesBack, Known
  <1>9. ASSUME NEW m \in Members, Leave(m) PROVE FetcherInv'
    <2>1. /\ here' = here \ {m} /\ leaving' = leaving \cup {m}
          /\ UNCHANGED <<call, chunks, state, overtaken>>
      BY <1>9 DEF Leave, gateway
    <2> QED BY <2>1 DEF CallsInv, AnswersInv, NobodyComesBack, Known
  <1>10. ASSUME NEW m \in Members, Left(m) PROVE FetcherInv'
    <2>1. /\ leaving' = leaving \ {m} /\ state' = state \ {m} /\ UNCHANGED <<call, chunks, here>>
          /\ overtaken \subseteq overtaken'
          /\ call[m] = "got" \/ (\E ch \in chunks : m \in ch.found) => m \in overtaken'
      BY <1>10 DEF Left, gateway
    <2>2. \A x \in Known \ {m} : x \in Known'
      BY <2>1 DEF Known
    <2>3. AnswersInv'
      BY <2>1, <2>2 DEF AnswersInv, Known
    <2> QED BY <2>1, <2>2, <2>3 DEF CallsInv, NobodyComesBack, Known
  <1>11. CASE UNCHANGED vars
    BY <1>11 DEF vars, gateway, tracked, CallsInv, AnswersInv, NobodyComesBack, Known
  <1>12. CASE Next
    BY <1>1, <1>2, <1>3, <1>4, <1>5, <1>6, <1>7, <1>8, <1>9, <1>10, <1>12, <1>13
    DEF Next, Run, Fetch
  <1> QED BY <1>11, <1>12

(* Nobody who has left comes back into the state tracker but by an answer that
   was on its way when they left: fetchSingle and handleFinishedGateway add
   only what Discord has answered with, for any number of requests.         *)
THEOREM NobodyIsBroughtBack == Spec => []NobodyComesBack
  <1>1. FetcherInv => NobodyComesBack
    BY DEF FetcherInv
  <1> QED BY <1>1, InitFetcherInv, FetcherStep, PTL DEF Spec

-----------------------------------------------------------------------------
(***************************************************************************)
(* What is left of a queue.                                                *)
(***************************************************************************)

(* Nth counts the positions: it gives every one of them, and each once.      *)
LEMMA NthCounts ==
  ASSUME NEW N \in Nat, NEW I \in SUBSET (1..N)
  PROVE  /\ Cardinality(I) \in Nat
         /\ \A n \in 1..Cardinality(I) : Nth(I, n) \in I
         /\ \A i \in I : \E n \in 1..Cardinality(I) : Nth(I, n) = i
         /\ \A n, k \in 1..Cardinality(I) : Nth(I, n) = Nth(I, k) => n = k
  <1> DEFINE Upto(i) == {k \in I : k <= i}
             Rank(i) == Cardinality(Upto(i))
             rank == [i \in I |-> Rank(i)]
             C == Cardinality(I)
  <1>1. IsFiniteSet(I) /\ C \in Nat
    <2>1. IsFiniteSet(1..N)
      BY FS_Interval
    <2> QED BY <2>1, FS_Subset, FS_CardinalityType
  <1>2. \A i \in I : IsFiniteSet(Upto(i)) /\ Rank(i) \in 1..C
    <2> SUFFICES ASSUME NEW i \in I PROVE IsFiniteSet(Upto(i)) /\ Rank(i) \in 1..C
      OBVIOUS
    <2>1. i \in Upto(i) /\ Upto(i) \subseteq I
      OBVIOUS
    <2>2. IsFiniteSet(Upto(i)) /\ Rank(i) <= C /\ Rank(i) \in Nat
      BY <1>1, <2>1, FS_Subset, FS_CardinalityType
    <2>3. Rank(i) # 0
      BY <2>1, <2>2, FS_EmptySet
    <2> QED BY <1>1, <2>2, <2>3
  <1>3. \A i, k \in I : i < k => Rank(i) < Rank(k)
    <2> SUFFICES ASSUME NEW i \in I, NEW k \in I, i < k PROVE Rank(i) < Rank(k)
      OBVIOUS
    <2>1. Upto(i) \subseteq Upto(k) /\ k \in Upto(k) /\ k \notin Upto(i)
      <3>1. \A j \in I : j \in Int
        OBVIOUS
      <3>2. \A j \in I : j <= i => j <= k
        BY <3>1
      <3>3. Upto(i) \subseteq Upto(k)
        BY <3>2, Zenon
      <3>4. k <= k /\ ~(k <= i)
        BY <3>1
      <3> QED BY <3>3, <3>4, Zenon
    <2>2. PICK U, V : U = Upto(i) /\ V = Upto(k)
      OBVIOUS
    <2> HIDE DEF Upto
    <2>3. U \in SUBSET V /\ U # V /\ IsFiniteSet(V)
      BY <1>2, <2>1, <2>2
    <2>4. Rank(i) <= Rank(k) /\ Rank(i) # Rank(k)
      BY <2>2, <2>3, FS_Subset
    <2> QED BY <1>2, <2>4
  <1>4. \A i, k \in I : Rank(i) = Rank(k) => i = k
    <2> SUFFICES ASSUME NEW i \in I, NEW k \in I, Rank(i) = Rank(k) PROVE i = k
      OBVIOUS
    <2>1. Rank(i) \in Nat /\ ~(i < k) /\ ~(k < i)
      BY <1>2, <1>3
    <2> QED BY <2>1
  <1> HIDE DEF Rank, C
  <1>5. rank \in Injection(I, 1..C)
    <2>1. rank \in [I -> 1..C] /\ DOMAIN rank = I /\ \A i \in I : rank[i] = Rank(i)
      BY <1>2
    <2> HIDE DEF rank
    <2> QED BY <1>4, <2>1 DEF Injection, IsInjective
  <1>6. Cardinality(1..C) = C /\ IsFiniteSet(1..C)
    BY <1>1, FS_Interval
  <1>7. rank \in Surjection(I, 1..C)
    BY <1>5, <1>6, FS_Injection DEF C
  <1>8. \A n \in 1..C : Nth(I, n) \in I /\ Rank(Nth(I, n)) = n
    <2> SUFFICES ASSUME NEW n \in 1..C PROVE Nth(I, n) \in I /\ Rank(Nth(I, n)) = n
      OBVIOUS
    <2>1. PICK i \in I : rank[i] = n
      BY <1>7 DEF Surjection
    <2>2. Rank(i) = n
      BY <2>1
    <2> QED BY <2>2 DEF Nth, Rank
  <1>9. \A i \in I : \E n \in 1..C : Nth(I, n) = i
    <2> SUFFICES ASSUME NEW i \in I PROVE \E n \in 1..C : Nth(I, n) = i
      OBVIOUS
    <2>1. Rank(i) \in 1..C
      BY <1>2
    <2>2. Nth(I, Rank(i)) = i
      BY <1>4, <1>8, <2>1
    <2> QED BY <2>1, <2>2
  <1> QED BY <1>1, <1>8, <1>9 DEF C

(* The queue of g without the members M has what it had of the others, and
   nothing twice that was not there twice.                                   *)
LEMMA WithoutLeaves ==
  ASSUME NEW q \in [Guilds -> Seq(Request)], NEW g \in Guilds, NEW M, NEW w, w = Without(q, g, M)
  PROVE  /\ w \in [Guilds -> Seq(Request)]
         /\ \A h \in Guilds \ {g} : w[h] = q[h]
         /\ \A j \in DOMAIN w[g] : \E i \in DOMAIN q[g] : w[g][j] = q[g][i] /\ q[g][i].member \notin M
         /\ \A i \in DOMAIN q[g] : q[g][i].member \notin M => \E j \in DOMAIN w[g] : w[g][j] = q[g][i]
         /\ (\A i, j \in DOMAIN q[g] : q[g][i] = q[g][j] => i = j)
               => \A i, j \in DOMAIN w[g] : w[g][i] = w[g][j] => i = j
  <1> DEFINE left == {i \in DOMAIN q[g] : q[g][i].member \notin M}
             C == Cardinality(left)
             kept == [n \in 1..C |-> q[g][Nth(left, n)]]
  <1>1. w = [q EXCEPT ![g] = kept]
    BY DEF Without
  <1>2. q[g] \in Seq(Request) /\ Len(q[g]) \in Nat /\ DOMAIN q[g] = 1..Len(q[g])
    OBVIOUS
  <1>3. left \in SUBSET (1..Len(q[g])) /\ left \subseteq DOMAIN q[g]
    BY <1>2
  <1>4. \A i \in DOMAIN q[g] : i \in left <=> q[g][i].member \notin M
    OBVIOUS
  <1> HIDE DEF left
  <1>5. /\ C \in Nat
        /\ \A n \in 1..C : Nth(left, n) \in left
        /\ \A i \in left : \E n \in 1..C : Nth(left, n) = i
        /\ \A n, k \in 1..C : Nth(left, n) = Nth(left, k) => n = k
    BY <1>2, <1>3, NthCounts
  <1> HIDE DEF C
  <1>6. kept \in Seq(Request) /\ DOMAIN kept = 1..C
    <2>1. \A n \in 1..C : q[g][Nth(left, n)] \in Request
      BY <1>2, <1>3, <1>5
    <2> QED BY <1>5, <2>1
  <1>7. \A n \in 1..C : kept[n] = q[g][Nth(left, n)]
    OBVIOUS
  <1> HIDE DEF kept
  <1>8. w[g] = kept /\ w \in [Guilds -> Seq(Request)] /\ \A h \in Guilds \ {g} : w[h] = q[h]
    BY <1>1, <1>6
  <1>9. \A j \in DOMAIN kept : \E i \in DOMAIN q[g] : kept[j] = q[g][i] /\ q[g][i].member \notin M
    BY <1>3, <1>4, <1>5, <1>6, <1>7
  <1>10. \A i \in DOMAIN q[g] : q[g][i].member \notin M => \E j \in DOMAIN kept : kept[j] = q[g][i]
    BY <1>4, <1>5, <1>6, <1>7
  <1>11. ASSUME \A i, j \in DOMAIN q[g] : q[g][i] = q[g][j] => i = j
         PROVE  \A i, j \in DOMAIN kept : kept[i] = kept[j] => i = j
    BY <1>3, <1>5, <1>6, <1>7, <1>11
  <1> QED BY <1>8, <1>9, <1>10, <1>11

-----------------------------------------------------------------------------
(***************************************************************************)
(* The queues and those who wait.                                          *)
(***************************************************************************)

Waits(c, m) == [by |-> c, member |-> m]

InQueue(c, m) == \E i \in DOMAIN queue[GuildOf[m]] : queue[GuildOf[m]][i] = Waits(c, m)

(* Every request in a queue is one of its guild that somebody waits for, no
   request is there twice, and every request that somebody waits for is there. *)
QueueInv ==
  /\ answer \in [Callers -> [Members -> Answers \cup {"none", "waits"}]]
  /\ queue \in [Guilds -> Seq(Request)]
  /\ \A g \in Guilds : \A i \in DOMAIN queue[g] :
       /\ GuildOf[queue[g][i].member] = g
       /\ answer[queue[g][i].by][queue[g][i].member] = "waits"
  /\ \A g \in Guilds : \A i, j \in DOMAIN queue[g] : queue[g][i] = queue[g][j] => i = j
  /\ \A c \in Callers, m \in Members : answer[c][m] = "waits" => InQueue(c, m)

(* The sequences that addToQueue may get the requests in: all, and each once. *)
LEMMA SequencesHaveAll ==
  ASSUME NEW S, IsFiniteSet(S), NEW s \in SetToSeqs(S)
  PROVE  /\ Cardinality(S) \in Nat /\ s \in [1..Cardinality(S) -> S]
         /\ \A x \in S : \E i \in 1..Cardinality(S) : s[i] = x
         /\ \A i, j \in 1..Cardinality(S) : s[i] = s[j] => i = j
  <1> DEFINE C == Cardinality(S)
  <1>1. C \in Nat
    BY FS_CardinalityType
  <1>2. s \in [1..C -> S] /\ \A i, j \in 1..C : i # j => s[i] # s[j]
    BY Zenon DEF SetToSeqs
  <1> HIDE DEF C
  <1>3. s \in Injection(1..C, S)
    BY <1>2, Zenon DEF Injection, IsInjective
  <1>4. IsFiniteSet(1..C) /\ Cardinality(1..C) = C
    BY <1>1, FS_Interval
  <1>5. s \in Surjection(1..C, S)
    BY <1>3, <1>4, FS_Injection DEF C
  <1>6. \A x \in S : \E i \in 1..C : s[i] = x
    BY <1>5, Zenon DEF Surjection
  <1> QED BY <1>1, <1>2, <1>6 DEF C

(* Requests that are done leave the queue, and nobody waits for them.        *)
LEMMA DoneLeaves ==
  ASSUME QueueInv, NEW g \in Guilds, NEW M, NEW result, \A m \in M : result[m] \in Answers,
         queue' = Without(queue, g, M), Done(g, M, result)
  PROVE  QueueInv'
  <1>1. queue \in [Guilds -> Seq(Request)]
    BY DEF QueueInv
  <1> DEFINE w == queue'
  <1>2. /\ w \in [Guilds -> Seq(Request)]
        /\ \A h \in Guilds \ {g} : w[h] = queue[h]
        /\ \A j \in DOMAIN w[g] : \E i \in DOMAIN queue[g] : w[g][j] = queue[g][i] /\ queue[g][i].member \notin M
        /\ \A i \in DOMAIN queue[g] : queue[g][i].member \notin M => \E j \in DOMAIN w[g] : w[g][j] = queue[g][i]
        /\ (\A i, j \in DOMAIN queue[g] : queue[g][i] = queue[g][j] => i = j)
              => \A i, j \in DOMAIN w[g] : w[g][i] = w[g][j] => i = j
    BY SMTT(30), <1>1, WithoutLeaves
  <1>3. /\ answer' \in [Callers -> [Members -> Answers \cup {"none", "waits"}]]
        /\ \A c \in Callers, m \in Members :
             answer'[c][m] = IF m \in M /\ Waits(c, m) \in ToSet(queue[g]) THEN result[m] ELSE answer[c][m]
    BY DEF Done, QueueInv, Waits
  <1>4. \A h \in Guilds : \A i \in DOMAIN queue[h] : queue[h][i] \in Request
    BY <1>1
  <1>5. \A h \in Guilds : \A j \in DOMAIN w[h] :
          \E i \in DOMAIN queue[h] : w[h][j] = queue[h][i] /\ (h = g => queue[h][i].member \notin M)
    <2> SUFFICES ASSUME NEW h \in Guilds, NEW j \in DOMAIN w[h]
                 PROVE  \E i \in DOMAIN queue[h] :
                          w[h][j] = queue[h][i] /\ (h = g => queue[h][i].member \notin M)
      OBVIOUS
    <2>1. CASE h = g
      BY <1>2, <2>1
    <2>2. CASE h # g
      <3>1. w[h] = queue[h]
        BY <1>2, <2>2
      <3> QED BY <2>2, <3>1
    <2> QED BY <2>1, <2>2
  <1>6. ASSUME NEW h \in Guilds, NEW j \in DOMAIN w[h]
        PROVE  /\ GuildOf[w[h][j].member] = h
               /\ answer'[w[h][j].by][w[h][j].member] = "waits"
    <2>1. PICK i \in DOMAIN queue[h] : w[h][j] = queue[h][i] /\ (h = g => queue[h][i].member \notin M)
      BY <1>5, <1>6
    <2>2. PICK c \in Callers, m \in Members : queue[h][i] = Waits(c, m)
      BY <1>4 DEF Request, Waits
    <2>3. queue[h][i].by = c /\ queue[h][i].member = m
      BY <2>2 DEF Waits
    <2>4. GuildOf[m] = h /\ answer[c][m] = "waits"
      BY <2>3 DEF QueueInv
    <2>5. CASE m \in M /\ Waits(c, m) \in ToSet(queue[g])
      <3>1. PICK k \in DOMAIN queue[g] : queue[g][k] = Waits(c, m)
        BY <2>5 DEF ToSet
      <3>2. GuildOf[m] = g
        BY <3>1 DEF QueueInv, Waits
      <3> QED BY <2>1, <2>3, <2>4, <2>5, <3>2
    <2>6. CASE ~(m \in M /\ Waits(c, m) \in ToSet(queue[g]))
      BY <1>3, <2>1, <2>3, <2>4, <2>6
    <2> QED BY <2>5, <2>6
  <1>7. \A h \in Guilds : \A i, j \in DOMAIN w[h] : w[h][i] = w[h][j] => i = j
    <2> SUFFICES ASSUME NEW h \in Guilds
                 PROVE  \A i, j \in DOMAIN w[h] : w[h][i] = w[h][j] => i = j
      OBVIOUS
    <2>1. \A i, j \in DOMAIN queue[h] : queue[h][i] = queue[h][j] => i = j
      BY DEF QueueInv
    <2>2. CASE h = g
      BY <1>2, <2>1, <2>2
    <2>3. CASE h # g
      <3>1. w[h] = queue[h]
        BY <1>2, <2>3
      <3> QED BY <2>1, <3>1
    <2> QED BY <2>2, <2>3
  <1>8. ASSUME NEW c \in Callers, NEW m \in Members, answer'[c][m] = "waits"
        PROVE  \E j \in DOMAIN w[GuildOf[m]] : w[GuildOf[m]][j] = Waits(c, m)
    <2>1. ~(m \in M /\ Waits(c, m) \in ToSet(queue[g])) /\ answer[c][m] = "waits"
      BY <1>3, <1>8 DEF Answers
    <2>2. PICK i \in DOMAIN queue[GuildOf[m]] : queue[GuildOf[m]][i] = Waits(c, m)
      BY <2>1 DEF QueueInv, InQueue
    <2>3. queue[GuildOf[m]][i].member = m /\ GuildOf[m] \in Guilds
      BY <2>2, FetcherAssumption DEF Waits
    <2>4. CASE GuildOf[m] = g
      <3>1. m \notin M
        BY <2>1, <2>2, <2>4 DEF ToSet
      <3> QED BY <1>2, <2>2, <2>3, <2>4, <3>1
    <2>5. CASE GuildOf[m] # g
      BY <1>2, <2>2, <2>3, <2>5
    <2> QED BY <2>4, <2>5
  <1>9. \A c \in Callers, m \in Members : answer'[c][m] = "waits" => InQueue(c, m)'
    BY SMTT(30), <1>8 DEF InQueue
  <1> QED BY <1>2, <1>3, <1>6, <1>7, <1>9 DEF QueueInv

(* What the state tracker does not have is put behind what is in the queue:
   nothing of a caller who waits for nothing is there yet.                   *)
LEMMA GetQueues ==
  ASSUME QueueInv, NEW c \in Callers, NEW g \in Guilds, NEW M \in SUBSET Of(g), GetMembers(c, g, M)
  PROVE  QueueInv'
  <1> DEFINE rest == M \ state
  <1>1. /\ answer[c] = [m \in Members |-> "none"]
        /\ answer' = [answer EXCEPT ![c] = [m \in Members |->
                        IF m \in rest THEN "waits" ELSE IF m \in M THEN "member" ELSE "none"]]
    BY Zenon DEF GetMembers
  <1>2. PICK s \in SetToSeqs(rest) :
          queue' = [queue EXCEPT ![g] = @ \o [i \in DOMAIN s |-> [by |-> c, member |-> s[i]]]]
    BY Zenon DEF GetMembers
  <1>3. rest \in SUBSET Members /\ \A m \in rest : GuildOf[m] = g
    BY DEF Of
  <1>4. IsFiniteSet(rest)
    BY <1>3, FetcherAssumption, FS_Subset
  <1> HIDE DEF rest
  <1> DEFINE C == Cardinality(rest)
             n == Len(queue[g])
             new == [i \in DOMAIN s |-> [by |-> c, member |-> s[i]]]
             w == queue'
  <1>5. /\ C \in Nat /\ s \in [1..C -> rest]
        /\ \A x \in rest : \E i \in 1..C : s[i] = x
        /\ \A i, j \in 1..C : s[i] = s[j] => i = j
    BY <1>4, SequencesHaveAll
  <1>6. queue \in [Guilds -> Seq(Request)] /\ queue[g] \in Seq(Request) /\ n \in Nat /\ DOMAIN queue[g] = 1..n
    BY DEF QueueInv
  <1> HIDE DEF C
  <1>7. DOMAIN new = 1..C /\ \A i \in 1..C : new[i] = Waits(c, s[i]) /\ new[i] \in Request
    BY <1>3, <1>5 DEF Waits, Request
  <1>8. new \in Seq(Request) /\ Len(new) = C
    <2>1. new = [i \in 1..C |-> new[i]]
      BY <1>5
    <2> HIDE DEF new
    <2>2. new \in [1..C -> Request]
      BY <1>7, <2>1
    <2> QED BY <1>5, <1>7, <2>2
  <1> HIDE DEF new
  <1>9. w[g] = queue[g] \o new /\ w \in [Guilds -> Seq(Request)] /\ \A h \in Guilds \ {g} : w[h] = queue[h]
    <2>1. queue[g] \o new \in Seq(Request)
      BY <1>6, <1>8
    <2> QED BY <1>2, <1>6, <2>1 DEF new
  <1>10. /\ DOMAIN w[g] = 1..(n + C)
         /\ \A i \in 1..n : w[g][i] = queue[g][i]
         /\ \A i \in 1..C : w[g][n + i] = Waits(c, s[i])
    <2>1. DOMAIN w[g] = 1..(n + C)
      BY <1>6, <1>8, <1>9
    <2>2. \A i \in 1..n : w[g][i] = queue[g][i]
      BY <1>5, <1>6, <1>8, <1>9
    <2>3. \A i \in 1..C : w[g][n + i] = new[i]
      BY <1>5, <1>6, <1>8, <1>9
    <2> QED BY <1>7, <2>1, <2>2, <2>3
  <1>11. \A i \in DOMAIN w[g] : \/ i \in 1..n /\ w[g][i] = queue[g][i]
                                \/ i - n \in 1..C /\ w[g][i] = Waits(c, s[i - n])
    <2> SUFFICES ASSUME NEW i \in DOMAIN w[g]
                 PROVE  \/ i \in 1..n /\ w[g][i] = queue[g][i]
                        \/ i - n \in 1..C /\ w[g][i] = Waits(c, s[i - n])
      OBVIOUS
    <2>1. i \in 1..n \/ (i - n \in 1..C /\ n + (i - n) = i)
      BY <1>5, <1>6, <1>10
    <2> QED BY <1>10, <2>1
  <1>12. /\ answer' \in [Callers -> [Members -> Answers \cup {"none", "waits"}]]
         /\ \A d \in Callers \ {c} : answer'[d] = answer[d]
         /\ \A m \in Members : answer'[c][m] = "waits" <=> m \in rest
    BY <1>1 DEF QueueInv, Answers
  <1>13. \A d \in Callers, m \in Members : answer[d][m] = "waits" => d # c /\ answer'[d][m] = "waits"
    BY <1>1, <1>12
  <1>14. \A h \in Guilds : \A i \in DOMAIN queue[h] : queue[h][i] \in Request /\ queue[h][i].by # c
                            /\ answer'[queue[h][i].by][queue[h][i].member] = "waits"
    <2> SUFFICES ASSUME NEW h \in Guilds, NEW i \in DOMAIN queue[h]
                 PROVE  queue[h][i] \in Request /\ queue[h][i].by # c
                            /\ answer'[queue[h][i].by][queue[h][i].member] = "waits"
      OBVIOUS
    <2>1. queue[h][i] \in Request
      BY <1>6
    <2>2. answer[queue[h][i].by][queue[h][i].member] = "waits"
      BY DEF QueueInv
    <2> QED BY <1>13, <2>1, <2>2 DEF Request
  <1> HIDE DEF w, n
  <1>15. ASSUME NEW h \in Guilds, NEW i \in DOMAIN w[h]
         PROVE  /\ GuildOf[w[h][i].member] = h
                /\ answer'[w[h][i].by][w[h][i].member] = "waits"
    <2>1. CASE h # g \/ (w[h][i] = queue[h][i] /\ i \in DOMAIN queue[h])
      <3>1. w[h][i] = queue[h][i] /\ i \in DOMAIN queue[h]
        BY <1>9, <1>15, <2>1
      <3> QED BY <1>14, <3>1 DEF QueueInv
    <2>2. CASE h = g /\ i - n \in 1..C /\ w[g][i] = Waits(c, s[i - n])
      <3>1. s[i - n] \in rest
        BY <1>5, <2>2
      <3>2. w[g][i].by = c /\ w[g][i].member = s[i - n]
        BY <2>2 DEF Waits
      <3> QED BY <1>3, <1>12, <2>2, <3>1, <3>2
    <2>3. CASE h = g
      <3>1. i \in DOMAIN w[g]
        BY <1>15, <2>3
      <3>2. CASE i \in 1..n /\ w[g][i] = queue[g][i]
        BY <1>6, <2>1, <2>3, <3>2
      <3>3. CASE i - n \in 1..C /\ w[g][i] = Waits(c, s[i - n])
        BY <2>2, <2>3, <3>3
      <3> QED BY <1>11, <3>1, <3>2, <3>3
    <2> QED BY <2>1, <2>3
  <1>16. ASSUME NEW h \in Guilds, NEW i \in DOMAIN w[h], NEW j \in DOMAIN w[h], w[h][i] = w[h][j]
         PROVE  i = j
    <2>1. \A k, l \in DOMAIN queue[h] : queue[h][k] = queue[h][l] => k = l
      BY DEF QueueInv
    <2>2. CASE h # g
      BY <1>9, <1>16, <2>1, <2>2
    <2>3. CASE h = g
      <3>1. CASE i \in 1..n /\ j \in 1..n
        BY <1>6, <1>10, <1>16, <2>1, <2>3, <3>1
      <3>2. CASE i - n \in 1..C /\ w[g][i] = Waits(c, s[i - n]) /\ j - n \in 1..C /\ w[g][j] = Waits(c, s[j - n])
        <4>1. s[i - n] = s[j - n]
          BY <1>16, <2>3, <3>2 DEF Waits
        <4>2. i - n = j - n
          BY <1>5, <3>2, <4>1
        <4>3. i \in 1..(n + C) /\ j \in 1..(n + C)
          BY <1>10, <1>16, <2>3
        <4> QED BY <1>5, <1>6, <4>2, <4>3
      <3>3. \A k, l \in DOMAIN w[g] : k \in 1..n /\ w[g][k] = queue[g][k] /\ w[g][l] = Waits(c, s[l - n])
                                        => w[g][k] # w[g][l]
        BY <1>6, <1>14, <2>3 DEF Waits
      <3>4. CASE i \in 1..n /\ w[g][i] = queue[g][i] /\ w[g][j] = Waits(c, s[j - n])
        BY <1>16, <2>3, <3>3, <3>4
      <3>5. CASE j \in 1..n /\ w[g][j] = queue[g][j] /\ w[g][i] = Waits(c, s[i - n])
        BY <1>16, <2>3, <3>3, <3>5
      <3> QED BY <1>11, <1>16, <2>3, <3>1, <3>2, <3>4, <3>5
    <2> QED BY <2>2, <2>3
  <1>17. ASSUME NEW d \in Callers, NEW m \in Members, answer'[d][m] = "waits"
         PROVE  \E i \in DOMAIN w[GuildOf[m]] : w[GuildOf[m]][i] = Waits(d, m)
    <2>1. CASE d = c
      <3>1. m \in rest /\ GuildOf[m] = g
        BY <1>3, <1>12, <1>17, <2>1
      <3>2. PICK i \in 1..C : s[i] = m
        BY <1>5, <3>1
      <3>3. w[g][n + i] = Waits(c, m) /\ n + i \in DOMAIN w[g]
        BY <1>5, <1>6, <1>10, <3>2
      <3> QED BY <2>1, <3>1, <3>3
    <2>2. CASE d # c
      <3>1. PICK i \in DOMAIN queue[GuildOf[m]] : queue[GuildOf[m]][i] = Waits(d, m)
        BY <1>12, <1>17, <2>2 DEF QueueInv, InQueue
      <3>2. GuildOf[m] \in Guilds
        BY FetcherAssumption
      <3>3. CASE GuildOf[m] = g
        <4>1. i \in 1..n /\ i \in DOMAIN w[g]
          BY <1>5, <1>6, <1>10, <3>1, <3>3
        <4> QED BY <1>10, <3>1, <3>3, <4>1
      <3>4. CASE GuildOf[m] # g
        BY <1>9, <3>1, <3>2, <3>4
      <3> QED BY <3>3, <3>4
    <2> QED BY <2>1, <2>2
  <1>18. \A d \in Callers, m \in Members : answer'[d][m] = "waits" => InQueue(d, m)'
    BY <1>17 DEF InQueue, w
  <1> QED BY <1>9, <1>12, <1>15, <1>16, <1>18 DEF QueueInv, w

LEMMA InitQueueInv == Init => QueueInv
  <1> SUFFICES ASSUME Init PROVE QueueInv
    OBVIOUS
  <1>1. \A g \in Guilds : queue[g] = <<>>
    BY DEF Init
  <1> QED BY <1>1 DEF Init, QueueInv, Answers

\* What the gateway is asked for has to be known for the next two.
BatchOK == batch \subseteq Members

(* The steps that touch the queues or what callers have been told.           *)
LEMMA OthersLeaveQueues ==
  ASSUME Next
  PROVE  \/ \E c \in Callers, g \in Guilds : \E M \in SUBSET Of(g) \ {{}} : GetMembers(c, g, M)
         \/ \E m \in Members : HandleFinishedSingle(m)
         \/ \E ch \in chunks : HandleFinishedGateway(ch)
         \/ UNCHANGED <<answer, queue>>
  <1>1. CASE Tick \/ SecondPasses \/ Lose \/ \E r \in requests : Reply(r)
    BY <1>1 DEF Tick, SecondPasses, Lose, Reply
  <1>2. ASSUME NEW m \in Members, Fetch(m) \/ Leave(m) \/ Left(m) PROVE UNCHANGED <<answer, queue>>
    BY <1>2 DEF Fetch, Look, Ask, Store, Goes, Leave, Left
  <1>3. ASSUME NEW g \in Guilds, NEW M \in Foreign, ReplyToOthers(g, M)
        PROVE  UNCHANGED <<answer, queue>>
    BY <1>3 DEF ReplyToOthers
  <1> QED BY <1>1, <1>2, <1>3, Zenon DEF Next, Run

(* What a single call answers.                                               *)
LEMMA SingleAnswers ==
  ASSUME NEW m \in Members, HandleFinishedSingle(m)
  PROVE  /\ GuildOf[m] \in Guilds /\ queue' = Without(queue, GuildOf[m], {m})
         /\ Done(GuildOf[m], {m}, [x \in {m} |-> Result(m)])
         /\ \A x \in {m} : [y \in {m} |-> Result(m)][x] \in {"member", "error"}
  <1>1. GuildOf[m] \in Guilds
    BY FetcherAssumption
  <1>2. Result(m) \in {"member", "error"}
    BY DEF Result
  <1>3. \A x \in {m} : [y \in {m} |-> Result(m)][x] = Result(m)
    OBVIOUS
  <1> QED BY <1>1, <1>2, <1>3, Zenon DEF HandleFinishedSingle

(* What a chunk of members is about, as long as nothing else is in it.       *)
AboutMembers ==
  /\ BatchOK
  /\ \A r \in requests : r.guild \in Guilds /\ r.asked \subseteq Of(r.guild)
  /\ \A ch \in chunks : ch.guild \in Guilds /\ ch.found \subseteq ch.asked /\ ch.asked \subseteq Of(ch.guild)

LEMMA ChunkAnswers ==
  ASSUME AboutMembers, NEW ch \in chunks, HandleFinishedGateway(ch)
  PROVE  \E result :
           /\ result = [m \in Members |-> IF m \in ch.found THEN "member" ELSE "notfound"]
           /\ ch.guild \in Guilds /\ queue' = Without(queue, ch.guild, Answered(ch))
           /\ Answered(ch) \subseteq Members
           /\ Done(ch.guild, Answered(ch), result)
           /\ \A x \in Answered(ch) : result[x] \in Answers
  <1>1. PICK result : result = [m \in Members |-> IF m \in ch.found THEN "member" ELSE "notfound"]
    OBVIOUS
  <1>2. Answered(ch) \subseteq Members /\ ch.guild \in Guilds
    BY DEF Answered, AboutMembers, BatchOK, Of
  <1>3. \A x \in Members : result[x] \in Answers
    BY <1>1 DEF Answers
  <1>4. queue' = Without(queue, ch.guild, Answered(ch)) /\ Done(ch.guild, Answered(ch), result)
    BY <1>1, Zenon DEF HandleFinishedGateway
  <1> QED BY <1>1, <1>2, <1>3, <1>4

LEMMA QueueStep == QueueInv /\ AboutMembers /\ [Next]_vars => QueueInv'
  <1> SUFFICES ASSUME QueueInv, AboutMembers, [Next]_vars PROVE QueueInv'
    OBVIOUS
  <1>1. ASSUME NEW c \in Callers, NEW g \in Guilds, NEW M \in SUBSET Of(g), GetMembers(c, g, M)
        PROVE  QueueInv'
    BY <1>1, GetQueues
  <1>2. ASSUME NEW m \in Members, HandleFinishedSingle(m) PROVE QueueInv'
    <2> DEFINE result == [x \in {m} |-> Result(m)]
    <2>1. /\ GuildOf[m] \in Guilds /\ queue' = Without(queue, GuildOf[m], {m})
          /\ Done(GuildOf[m], {m}, result)
          /\ \A x \in {m} : result[x] \in {"member", "error"}
      BY <1>2, SingleAnswers
    <2> HIDE DEF result
    <2>2. \A x \in {m} : result[x] \in Answers
      BY <2>1 DEF Answers
    <2> QED BY <2>1, <2>2, DoneLeaves
  <1>3. ASSUME NEW ch \in chunks, HandleFinishedGateway(ch) PROVE QueueInv'
    <2>1. PICK result :
            /\ ch.guild \in Guilds /\ queue' = Without(queue, ch.guild, Answered(ch))
            /\ Done(ch.guild, Answered(ch), result)
            /\ \A x \in Answered(ch) : result[x] \in Answers
      BY <1>3, ChunkAnswers, Zenon
    <2> QED BY <2>1, DoneLeaves
  <1>4. CASE UNCHANGED <<answer, queue>>
    BY <1>4 DEF QueueInv, InQueue
  <1>5. CASE UNCHANGED vars
    BY <1>4, <1>5 DEF vars
  <1>6. CASE Next
    BY <1>1, <1>2, <1>3, <1>4, <1>6, OthersLeaveQueues
  <1> QED BY <1>5, <1>6

(* Once in the queue is what the invariant's two parts come to.              *)
LEMMA QueuedOnce == QueueInv => WaitersAreQueued
  <1> SUFFICES ASSUME QueueInv, NEW c \in Callers, NEW m \in Members
               PROVE  Cardinality({i \in DOMAIN queue[GuildOf[m]] :
                                     queue[GuildOf[m]][i] = [by |-> c, member |-> m]})
                        = IF answer[c][m] = "waits" THEN 1 ELSE 0
    BY Zenon DEF WaitersAreQueued
  <1> DEFINE g == GuildOf[m]
             P == {i \in DOMAIN queue[g] : queue[g][i] = Waits(c, m)}
  <1>1. g \in Guilds
    BY FetcherAssumption
  <1>2. CASE answer[c][m] = "waits"
    <2>1. PICK i \in DOMAIN queue[g] : queue[g][i] = Waits(c, m)
      BY <1>2 DEF QueueInv, InQueue
    <2>2. \A j \in P : j = i
      BY <1>1, <2>1 DEF QueueInv
    <2>3. P = {i}
      BY <2>1, <2>2
    <2>4. Cardinality({i}) = 1
      BY FS_Singleton
    <2> QED BY <1>2, <2>3, <2>4 DEF Waits
  <1>3. CASE answer[c][m] # "waits"
    <2>1. \A j \in DOMAIN queue[g] : queue[g][j] # Waits(c, m)
      BY <1>1, <1>3 DEF QueueInv, Waits
    <2>2. P = {}
      BY <2>1
    <2>3. Cardinality({}) = 0
      BY FS_EmptySet
    <2> QED BY <1>3, <2>2, <2>3 DEF Waits
  <1> QED BY <1>2, <1>3

-----------------------------------------------------------------------------
(***************************************************************************)
(* Requests to the gateway, and the answers to them.                       *)
(***************************************************************************)

(* A request, or the answer to one, has the nonce of a batch up to the last,
   and asks for all of the last batch if its nonce is the last.              *)
OfABatch(b) ==
  /\ b.nonce \in 1..MaxBatches /\ b.nonce <= nonce
  /\ b.nonce = nonce => batch \subseteq b.asked

GatewayInv ==
  /\ AboutMembers
  /\ nonce \in 0..MaxBatches /\ young \in BOOLEAN
  /\ \A r \in requests : DOMAIN r = {"nonce", "guild", "asked"} /\ OfABatch(r)
  /\ \A ch \in chunks : ch.nonce = Other \/ OfABatch(ch)

LEMMA InitGatewayInv == Init => GatewayInv
  <1> SUFFICES ASSUME Init PROVE GatewayInv
    OBVIOUS
  <1>1. batch = {} /\ nonce = 0 /\ young = FALSE /\ requests = {} /\ chunks = {}
    BY DEF Init
  <1>2. nonce \in 0..MaxBatches
    BY <1>1, FetcherAssumption
  <1> QED BY <1>1, <1>2, Zenon DEF GatewayInv, AboutMembers, BatchOK

(* checkSendNextGatewayRequest, with the queues q: all that is under way
   belongs to earlier batches.                                               *)
LEMMA BatchAsks ==
  ASSUME GatewayInv, NEW q \in [Guilds -> Seq(Request)],
         \A g \in Guilds : \A i \in DOMAIN q[g] : GuildOf[q[g][i].member] = g,
         SendBatch(q)
  PROVE  GatewayInv'
  <1>1. PICK g \in Guilds :
          /\ batch' \subseteq Unfetched(q, g)
          /\ requests' = requests \cup {[nonce |-> nonce + 1, guild |-> g, asked |-> batch']}
    BY Zenon DEF SendBatch, Biggest, Asked
  <1>2. nonce < MaxBatches /\ nonce' = nonce + 1 /\ young' = TRUE /\ chunks' = chunks
    BY DEF SendBatch
  <1>3. batch' \subseteq Of(g)
    <2> SUFFICES ASSUME NEW m \in batch' PROVE m \in Of(g)
      OBVIOUS
    <2>1. PICK i \in DOMAIN q[g] : m = q[g][i].member
      BY <1>1 DEF Unfetched
    <2>2. q[g][i] \in Request
      OBVIOUS
    <2> QED BY <2>1, <2>2 DEF Request, Of
  <1>4. nonce \in Nat /\ MaxBatches \in Nat /\ nonce' \in 1..MaxBatches
    BY <1>2, FetcherAssumption DEF GatewayInv
  <1>5. ASSUME NEW b, OfABatch(b) PROVE OfABatch(b)'
    BY <1>2, <1>4, <1>5 DEF OfABatch
  <1>6. PICK r : r = [nonce |-> nonce + 1, guild |-> g, asked |-> batch']
    OBVIOUS
  <1>7. /\ r.nonce = nonce' /\ r.guild = g /\ r.asked = batch' /\ DOMAIN r = {"nonce", "guild", "asked"}
        /\ requests' = requests \cup {r}
    BY <1>1, <1>2, <1>6
  <1>8. OfABatch(r)'
    BY <1>4, <1>7 DEF OfABatch
  <1>9. AboutMembers'
    BY <1>2, <1>3, <1>7 DEF GatewayInv, AboutMembers, BatchOK, Of
  <1> QED BY <1>2, <1>4, <1>5, <1>7, <1>8, <1>9 DEF GatewayInv

LEMMA GatewayStep == QueueInv /\ GatewayInv /\ [Next]_vars => GatewayInv'
  <1> SUFFICES ASSUME QueueInv, GatewayInv, [Next]_vars PROVE GatewayInv'
    OBVIOUS
  <1>0. CASE UNCHANGED gateway
    BY <1>0 DEF gateway, GatewayInv, AboutMembers, BatchOK, OfABatch
  <1>1. ASSUME NEW c \in Callers, NEW g \in Guilds, NEW M \in SUBSET Of(g), GetMembers(c, g, M)
        PROVE  GatewayInv'
    <2>1. QueueInv'
      BY <1>1, GetQueues
    <2>2. PICK q : q = queue'
      OBVIOUS
    <2>3. q \in [Guilds -> Seq(Request)] /\ \A h \in Guilds : \A i \in DOMAIN q[h] : GuildOf[q[h][i].member] = h
      BY <2>1, <2>2 DEF QueueInv
    <2>4. SendBatch(q) \/ UNCHANGED gateway
      BY <1>1, <2>2, Zenon DEF GetMembers, NoBatch
    <2> QED BY <1>0, <2>3, <2>4, BatchAsks
  <1>2. ASSUME NEW m \in Members, HandleFinishedSingle(m) PROVE GatewayInv'
    BY <1>0, <1>2 DEF HandleFinishedSingle
  <1>3. ASSUME NEW ch \in chunks, HandleFinishedGateway(ch) PROVE GatewayInv'
    <2>1. batch' \subseteq batch /\ chunks' \subseteq chunks /\ UNCHANGED <<nonce, young, requests>>
      BY <1>3 DEF HandleFinishedGateway
    <2>2. ASSUME NEW b, OfABatch(b) PROVE OfABatch(b)'
      BY <2>1, <2>2 DEF OfABatch
    <2> QED BY <2>1, <2>2 DEF GatewayInv, AboutMembers, BatchOK
  <1>4. CASE Tick
    <2>1. queue \in [Guilds -> Seq(Request)] /\ \A h \in Guilds : \A i \in DOMAIN queue[h] : GuildOf[queue[h][i].member] = h
      BY DEF QueueInv
    <2> QED BY <1>4, <2>1, BatchAsks DEF Tick
  <1>5. CASE SecondPasses
    BY <1>5 DEF SecondPasses, GatewayInv, AboutMembers, BatchOK, OfABatch
  <1>6. ASSUME NEW m \in Members, Fetch(m) \/ Leave(m) \/ Left(m) PROVE GatewayInv'
    BY <1>0, <1>6 DEF Fetch, Look, Ask, Store, Goes, Leave, Left
  <1>7. ASSUME NEW r \in requests, Reply(r) PROVE GatewayInv'
    <2>1. PICK ch : ch = [nonce |-> r.nonce, guild |-> r.guild, asked |-> r.asked, found |-> r.asked \cap here]
      OBVIOUS
    <2>2. /\ ch.nonce = r.nonce /\ ch.guild = r.guild /\ ch.asked = r.asked /\ ch.found \subseteq r.asked
          /\ chunks' = chunks \cup {ch}
          /\ requests' \subseteq requests /\ UNCHANGED <<batch, nonce, young>>
      BY <1>7, <2>1 DEF Reply
    <2>3. ASSUME NEW b, OfABatch(b) PROVE OfABatch(b)'
      BY <2>2, <2>3 DEF OfABatch
    <2>4. OfABatch(ch)'
      BY <2>2 DEF GatewayInv, OfABatch
    <2>5. AboutMembers'
      BY <2>2 DEF GatewayInv, AboutMembers, BatchOK
    <2> QED BY <2>2, <2>3, <2>4, <2>5 DEF GatewayInv
  <1>8. CASE Lose
    BY <1>8 DEF Lose, GatewayInv, AboutMembers, BatchOK
  <1>11. ASSUME NEW g \in Guilds, NEW M \in Foreign, ReplyToOthers(g, M) PROVE GatewayInv'
    <2>1. PICK ch : ch = [nonce |-> Other, guild |-> g, asked |-> M, found |-> M \cap here]
      OBVIOUS
    <2>2. /\ ch.nonce = Other /\ ch.guild = g /\ ch.asked = M /\ ch.found \subseteq M
          /\ M \subseteq Of(g) /\ chunks' = chunks \cup {ch}
          /\ UNCHANGED <<requests, batch, nonce, young>>
      BY <1>11, <2>1 DEF ReplyToOthers
    <2>3. ASSUME NEW b, OfABatch(b) PROVE OfABatch(b)'
      BY <2>2, <2>3 DEF OfABatch
    <2>4. AboutMembers'
      BY <2>2 DEF GatewayInv, AboutMembers, BatchOK
    <2> QED BY <2>2, <2>3, <2>4 DEF GatewayInv
  <1>9. CASE UNCHANGED vars
    BY <1>0, <1>9 DEF vars, gateway
  <1>10. CASE Next
    BY <1>1, <1>2, <1>3, <1>4, <1>5, <1>6, <1>7, <1>8, <1>10, <1>11, Zenon DEF Next, Run
  <1> QED BY <1>9, <1>10

-----------------------------------------------------------------------------
(***************************************************************************)
(* The calls of the API.                                                   *)
(***************************************************************************)

OneCall(calls) ==
  \A m, n \in Members : calls[m] # "no" /\ calls[n] # "no" /\ GuildOf[m] = GuildOf[n] => m = n

HasCall(calls, g) == \E m \in Members : calls[m] # "no" /\ GuildOf[m] = g

(* A guild has one call at a time, and has one when its queue is not empty.  *)
ServedInv ==
  /\ CallsInv /\ OneCall(call)
  /\ \A g \in Guilds : queue[g] # <<>> => HasCall(call, g)

LEMMA NextCallServes ==
  ASSUME NEW calls \in [Members -> Stages], OneCall(calls), NEW g \in Guilds,
         NEW q \in [Guilds -> Seq(Request)], \A i \in DOMAIN q[g] : GuildOf[q[g][i].member] = g,
         NEW k, k = NextCall(calls, q, g)
  PROVE  /\ k \in [Members -> Stages] /\ OneCall(k)
         /\ q[g] # <<>> => HasCall(k, g)
         /\ \A h \in Guilds : HasCall(calls, h) => HasCall(k, h)
  <1>1. CASE (\A m \in Of(g) : calls[m] = "no") /\ q[g] # <<>>
    <2>1. q[g] \in Seq(Request) /\ Head(q[g]) = q[g][1] /\ 1 \in DOMAIN q[g] /\ q[g][1] \in Request
      BY <1>1
    <2>2. PICK m \in Members : m = Head(q[g]).member /\ GuildOf[m] = g
      BY <2>1 DEF Request
    <2>3. k = [calls EXCEPT ![m] = "looks"]
      BY <1>1, <2>2, Zenon DEF NextCall
    <2>4. k \in [Members -> Stages] /\ k[m] = "looks" /\ \A x \in Members \ {m} : k[x] = calls[x]
      BY <2>3 DEF Stages
    <2>5. \A x \in Members : GuildOf[x] = g => calls[x] = "no"
      BY <1>1 DEF Of
    <2>6. OneCall(k)
      BY <2>2, <2>4, <2>5 DEF OneCall
    <2> QED BY <2>2, <2>4, <2>5, <2>6 DEF HasCall
  <1>2. CASE ~(\A m \in Of(g) : calls[m] = "no")
    <2>1. k = calls /\ HasCall(calls, g)
      BY <1>2 DEF NextCall, Of, HasCall
    <2> QED BY <2>1
  <1>3. CASE q[g] = <<>>
    <2>1. k = calls
      BY <1>3 DEF NextCall
    <2> QED BY <1>3, <2>1
  <1> QED BY <1>1, <1>2, <1>3

LEMMA InitServedInv == Init => ServedInv
  <1> SUFFICES ASSUME Init PROVE ServedInv
    OBVIOUS
  <1>1. CallsInv /\ \A m \in Members : call[m] = "no"
    BY DEF Init, CallsInv, Stages
  <1>2. \A g \in Guilds : queue[g] = <<>>
    BY DEF Init
  <1> QED BY <1>1, <1>2 DEF ServedInv, OneCall

LEMMA ServedStep == QueueInv /\ AboutMembers /\ ServedInv /\ [Next]_vars => ServedInv'
  <1> SUFFICES ASSUME QueueInv, AboutMembers, ServedInv, [Next]_vars PROVE ServedInv'
    OBVIOUS
  <1>1. QueueInv'
    BY QueueStep
  <1>2. PICK q : q = queue'
    OBVIOUS
  <1>3. q \in [Guilds -> Seq(Request)] /\ \A h \in Guilds : \A i \in DOMAIN q[h] : GuildOf[q[h][i].member] = h
    BY <1>1, <1>2 DEF QueueInv
  <1>4. ASSUME NEW calls \in [Members -> Stages], OneCall(calls), NEW g \in Guilds,
               call' = NextCall(calls, queue', g),
               \A h \in Guilds \ {g} : q[h] # <<>> => HasCall(calls, h)
        PROVE  ServedInv'
    <2>1. PICK k : k = call'
      OBVIOUS
    <2>2. /\ k \in [Members -> Stages] /\ OneCall(k)
          /\ q[g] # <<>> => HasCall(k, g)
          /\ \A h \in Guilds : HasCall(calls, h) => HasCall(k, h)
      BY <1>2, <1>3, <1>4, <2>1, NextCallServes
    <2>3. \A h \in Guilds : q[h] # <<>> => HasCall(k, h)
      BY <1>4, <2>2
    <2>4. OneCall(call)' /\ CallsInv'
      BY <2>1, <2>2 DEF OneCall, CallsInv
    <2>5. \A h \in Guilds : queue'[h] # <<>> => HasCall(call', h)
      BY <1>2, <2>1, <2>3
    <2> QED BY <2>4, <2>5 DEF ServedInv, HasCall
  <1>5. ASSUME NEW c \in Callers, NEW g \in Guilds, NEW M \in SUBSET Of(g), GetMembers(c, g, M)
        PROVE  ServedInv'
    <2>1. call' = NextCall(call, queue', g)
      BY <1>5, Zenon DEF GetMembers
    <2>2. PICK e : queue' = [queue EXCEPT ![g] = e]
      BY <1>5, Zenon DEF GetMembers
    <2>3. \A h \in Guilds \ {g} : q[h] = queue[h]
      BY <1>2, <2>2 DEF QueueInv
    <2> QED BY <1>4, <2>1, <2>3 DEF ServedInv, CallsInv
  <1>6. ASSUME NEW m \in Members, HandleFinishedSingle(m) PROVE ServedInv'
    <2>1. PICK calls : calls = [call EXCEPT ![m] = "no"]
      OBVIOUS
    <2>2. calls \in [Members -> Stages] /\ \A x \in Members \ {m} : calls[x] = call[x]
      BY <2>1 DEF ServedInv, CallsInv, Stages
    <2>3. OneCall(calls)
      BY <2>1, <2>2 DEF ServedInv, CallsInv, OneCall
    <2>4. GuildOf[m] \in Guilds /\ queue' = Without(queue, GuildOf[m], {m})
      BY <1>6, FetcherAssumption DEF HandleFinishedSingle
    <2>5. \A h \in Guilds \ {GuildOf[m]} : q[h] = queue[h]
      BY <1>2, <2>4, WithoutLeaves DEF QueueInv
    <2>6. \A h \in Guilds \ {GuildOf[m]} : HasCall(call, h) => HasCall(calls, h)
      BY <2>2 DEF HasCall
    <2>7. call' = NextCall(calls, queue', GuildOf[m])
      BY <1>6, <2>1, Zenon DEF HandleFinishedSingle, CallAfter
    <2> QED BY <1>4, <2>2, <2>3, <2>4, <2>5, <2>6, <2>7 DEF ServedInv
  <1>7. ASSUME NEW ch \in chunks, HandleFinishedGateway(ch) PROVE ServedInv'
    <2>1. ch.guild \in Guilds /\ queue' = Without(queue, ch.guild, Answered(ch)) /\ call' = call
      BY <1>7 DEF HandleFinishedGateway, AboutMembers
    <2>2. /\ \A h \in Guilds \ {ch.guild} : q[h] = queue[h]
          /\ \A j \in DOMAIN q[ch.guild] : \E i \in DOMAIN queue[ch.guild] : q[ch.guild][j] = queue[ch.guild][i]
      BY <1>2, <2>1, WithoutLeaves DEF QueueInv
    <2>3. q[ch.guild] # <<>> => queue[ch.guild] # <<>>
      <3> SUFFICES ASSUME q[ch.guild] # <<>> PROVE queue[ch.guild] # <<>>
        OBVIOUS
      <3>1. q[ch.guild] \in Seq(Request) /\ 1 \in DOMAIN q[ch.guild]
        BY <1>3, <2>1
      <3> QED BY <2>2, <3>1
    <2>4. \A h \in Guilds : queue'[h] # <<>> => queue[h] # <<>>
      BY <1>2, <2>2, <2>3
    <2> QED BY <2>1, <2>4 DEF ServedInv, CallsInv, OneCall, HasCall
  <1>8. ASSUME NEW m \in Members, Fetch(m) PROVE ServedInv'
    <2>1. PICK s \in Stages \ {"no"} : call' = [call EXCEPT ![m] = s] /\ call[m] # "no"
      BY <1>8 DEF Fetch, Look, Ask, Store, MayStore, Goes, Stages
    <2>2. queue' = queue
      BY <1>8 DEF Fetch, Look, Ask, Store, Goes
    <2>3. CallsInv' /\ \A x \in Members : call'[x] # "no" <=> call[x] # "no"
      BY <2>1 DEF ServedInv, CallsInv, Stages
    <2> QED BY <2>2, <2>3 DEF ServedInv, OneCall, HasCall
  <1>9. CASE UNCHANGED <<queue, call>>
    BY <1>9 DEF ServedInv, CallsInv, OneCall, HasCall
  <1>10. CASE UNCHANGED vars
    BY <1>9, <1>10 DEF vars
  <1>11. CASE Next
    <2>1. CASE Tick \/ SecondPasses \/ Lose \/ \E r \in requests : Reply(r)
      BY <1>9, <2>1 DEF Tick, SecondPasses, Lose, Reply
    <2>2. ASSUME NEW m \in Members, Leave(m) \/ Left(m) PROVE ServedInv'
      BY <1>9, <2>2 DEF Leave, Left
    <2>3. ASSUME NEW g \in Guilds, NEW M \in Foreign, ReplyToOthers(g, M) PROVE ServedInv'
      BY <1>9, <2>3 DEF ReplyToOthers
    <2> QED BY <1>5, <1>6, <1>7, <1>8, <1>11, <2>1, <2>2, <2>3, Zenon DEF Next, Run
  <1> QED BY <1>10, <1>11

LEMMA OneCallServes == ServedInv => QueuesAreServed
  <1> SUFFICES ASSUME ServedInv, NEW g \in Guilds,
                      NEW n, n = Cardinality(Fetching \cap Of(g))
               PROVE  n <= 1 /\ (queue[g] # <<>> => n = 1)
    BY Zenon DEF QueuesAreServed
  <1>1. CASE Fetching \cap Of(g) = {}
    <2>1. n = 0
      BY <1>1, FS_EmptySet
    <2>2. ~HasCall(call, g)
      BY <1>1 DEF HasCall, Fetching, Of
    <2> QED BY <2>1, <2>2 DEF ServedInv
  <1>2. CASE Fetching \cap Of(g) # {}
    <2>1. PICK m : m \in Fetching \cap Of(g)
      BY <1>2
    <2>2. Fetching \cap Of(g) = {m}
      BY <2>1 DEF ServedInv, OneCall, Fetching, Of
    <2>3. n = 1
      BY <2>2, FS_Singleton
    <2> QED BY <2>3
  <1> QED BY <1>1, <1>2

-----------------------------------------------------------------------------
(***************************************************************************)
(* What the three come to.                                                 *)
(***************************************************************************)

TrackedInv == state \subseteq Members /\ here \subseteq Members /\ leaving \subseteq Members /\ overtaken \subseteq Members

ServiceInv == QueueInv /\ GatewayInv /\ ServedInv /\ TrackedInv

LEMMA InitServiceInv == Init => ServiceInv
  <1>1. Init => TrackedInv
    BY DEF Init, TrackedInv
  <1> QED BY <1>1, InitQueueInv, InitGatewayInv, InitServedInv DEF ServiceInv

LEMMA TrackedStep == AboutMembers /\ TrackedInv /\ [Next]_vars => TrackedInv'
  <1> SUFFICES ASSUME AboutMembers, TrackedInv, [Next]_vars PROVE TrackedInv'
    OBVIOUS
  <1>1. CASE UNCHANGED tracked
    BY <1>1 DEF tracked, TrackedInv
  <1>2. ASSUME NEW ch \in chunks, HandleFinishedGateway(ch) PROVE TrackedInv'
    BY <1>2 DEF HandleFinishedGateway, AboutMembers, TrackedInv, Of
  <1>3. ASSUME NEW m \in Members, Store(m) \/ Leave(m) \/ Left(m) PROVE TrackedInv'
    BY <1>3 DEF Store, Leave, Left, TrackedInv
  <1>4. ASSUME NEW m \in Members, Look(m) \/ Ask(m) \/ HandleFinishedSingle(m) PROVE TrackedInv'
    BY <1>1, <1>4 DEF Look, Ask, HandleFinishedSingle, tracked
  <1>5. ASSUME NEW c \in Callers, NEW g \in Guilds, NEW M, GetMembers(c, g, M) PROVE TrackedInv'
    <2>1. UNCHANGED tracked
      BY <1>5, Zenon DEF GetMembers
    <2> QED BY <1>1, <2>1
  <1>6. CASE Tick \/ SecondPasses \/ Lose \/ \E r \in requests : Reply(r)
    BY <1>1, <1>6 DEF Tick, SecondPasses, Lose, Reply
  <1>7. CASE UNCHANGED vars
    BY <1>1, <1>7 DEF vars
  <1>8. ASSUME NEW g \in Guilds, NEW M \in Foreign, ReplyToOthers(g, M) PROVE TrackedInv'
    BY <1>1, <1>8 DEF ReplyToOthers
  <1> QED BY <1>2, <1>3, <1>4, <1>5, <1>6, <1>7, <1>8, Zenon DEF Next, Run, Fetch

LEMMA ServiceStep == ServiceInv /\ [Next]_vars => ServiceInv'
  <1>1. ServiceInv => AboutMembers
    BY DEF ServiceInv, GatewayInv
  <1> QED BY <1>1, QueueStep, GatewayStep, ServedStep, TrackedStep DEF ServiceInv

LEMMA Service == Spec => []ServiceInv
  BY InitServiceInv, ServiceStep, PTL DEF Spec

(* Whoever waits for a member is in its guild's queue, once, and nobody else
   is: addToQueue, handleFinishedSingle and handleFinishedGateway forget no
   request, and answer none twice, whatever order their answers come in.     *)
THEOREM WaitersStayQueued == Spec => []WaitersAreQueued
  <1>1. ServiceInv => WaitersAreQueued
    BY QueuedOnce DEF ServiceInv
  <1> QED BY <1>1, Service, PTL

(* A guild with requests has one call of the API under way, and no guild has
   two: checkSendNextAPICall is called wherever a queue grows or a call ends. *)
THEOREM OneCallAtATime == Spec => []QueuesAreServed
  <1>1. ServiceInv => QueuesAreServed
    BY OneCallServes DEF ServiceInv
  <1> QED BY <1>1, Service, PTL

(* The queues, the calls and what is under way have their types.             *)
THEOREM Typing == Spec => []TypeOK
  <1>1. ServiceInv => TypeOK
    BY DEF ServiceInv, QueueInv, GatewayInv, AboutMembers, BatchOK, OfABatch, ServedInv, CallsInv, TrackedInv, TypeOK
  <1> QED BY <1>1, Service, PTL

(* Who is told that a member is not there is told so by an answer of Discord's
   to a request that asked for that member: an answer to an earlier batch
   says nothing about the members of a later one.                            *)
LEMMA MissingStep ==
  ASSUME ServiceInv, Next, NEW c \in Callers, NEW m \in Members,
         answer[c][m] # "notfound", answer'[c][m] = "notfound"
  PROVE  \E ch \in chunks \ chunks' : m \in ch.asked \ ch.found
  <1>1. ASSUME NEW d \in Callers, NEW g \in Guilds, NEW M, GetMembers(d, g, M) PROVE FALSE
    <2>1. answer' = [answer EXCEPT ![d] = [x \in Members |->
                       IF x \in M \ state THEN "waits" ELSE IF x \in M THEN "member" ELSE "none"]]
      BY <1>1, Zenon DEF GetMembers
    <2> QED BY <2>1 DEF ServiceInv, QueueInv
  <1>2. ASSUME NEW n \in Members, HandleFinishedSingle(n) PROVE FALSE
    <2>1. PICK result : /\ result = [x \in {n} |-> Result(n)] /\ Done(GuildOf[n], {n}, result)
                        /\ \A x \in {n} : result[x] \in {"member", "error"}
      BY <1>2, SingleAnswers
    <2>2. answer'[c][m] = answer[c][m] \/ (m \in {n} /\ answer'[c][m] = result[m])
      BY <2>1 DEF Done
    <2> QED BY <2>1, <2>2
  <1>3. ASSUME NEW ch \in chunks, HandleFinishedGateway(ch) PROVE ch \notin chunks' /\ m \in ch.asked \ ch.found
    <2>1. PICK result : /\ result = [x \in Members |-> IF x \in ch.found THEN "member" ELSE "notfound"]
                        /\ Done(ch.guild, Answered(ch), result)
      BY <1>3, ChunkAnswers, Zenon DEF ServiceInv, GatewayInv
    <2>2. m \in Answered(ch) /\ result[m] = "notfound"
      BY <2>1 DEF Done
    <2>3. m \notin ch.found
      BY <2>1, <2>2
    <2>4. ch.nonce = nonce /\ m \in batch
      BY <2>2, <2>3 DEF Answered
    <2>5. m \in ch.asked
      BY <2>4 DEF ServiceInv, GatewayInv, OfABatch, Other
    <2> QED BY <1>3, <2>3, <2>5 DEF HandleFinishedGateway
  <1> QED BY <1>1, <1>2, <1>3, OthersLeaveQueues

THEOREM MissingIsAskedFor == Spec => MissingWasAskedFor
  <1>1. ServiceInv /\ [Next]_vars =>
          [\A c \in Callers, m \in Members :
             answer[c][m] # "notfound" /\ answer'[c][m] = "notfound" =>
               \E ch \in chunks \ chunks' : m \in ch.asked \ ch.found]_vars
    BY MissingStep
  <1> QED BY <1>1, Service, PTL DEF Spec, MissingWasAskedFor
=============================================================================
