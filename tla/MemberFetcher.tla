--------------------------- MODULE MemberFetcher ----------------------------
(* The member fetcher of one shard (bot/shardmemberfetcher): members that    *)
(* the state tracker does not have are fetched one at a time from Discord's  *)
(* API and, in batches, over the gateway, and both answer the same queue.    *)
EXTENDS Integers, Sequences, FiniteSets, SequencesExt

CONSTANTS
  Callers,
  Guilds,
  Members,      \* members, each of one guild
  GuildOf,      \* GuildOf[m]
  Many,         \* a call for more members than this asks the gateway at once
  MaxAsked,     \* members the gateway is asked for at most (100 in the code)
  Foreign,      \* chunks that other parts of the bot are sent, as sets of members
  MaxBatches,   \* bound on the requests to the gateway
  MaxLeaves,    \* bound on the members that leave
  MaxLoad       \* bound on the sum of the two and of the chunks under way for others

ASSUME FetcherAssumption ==
  /\ IsFiniteSet(Members) /\ GuildOf \in [Members -> Guilds]
  /\ Foreign \subseteq SUBSET Members
  /\ Many \in Nat /\ MaxAsked \in Nat /\ MaxBatches \in Nat /\ MaxLeaves \in Nat /\ MaxLoad \in Nat

VARIABLES
  answer,    \* answer[c][m]: "none" if c did not ask for m, "waits", or the answer
  queue,     \* sortedQueue
  call,      \* call[m]: the goroutine that fetches m from the API (fetchingSingle)
  batch,     \* the members of the last request to the gateway (fetchingGWState)
  nonce,     \* its nonce
  young,     \* whether it was sent less than a second ago
  requests,  \* requests on their way to Discord
  chunks,    \* and the answers to them
  state,     \* members the state tracker has
  here,      \* members that are in their guild
  leaving,   \* members whose leaving the state tracker has not been told
  overtaken  \* members that left while an answer with them was on its way

gateway == <<batch, nonce, young, requests, chunks>>
tracked == <<state, here, leaving, overtaken>>
vars == <<answer, queue, call, gateway, tracked>>

Of(g) == {m \in Members : GuildOf[m] = g}
Request == [by : Callers, member : Members]
Answers == {"member", "error", "notfound"}

\* The nonce of a request that is not the fetcher's.
Other == -1

Init ==
  /\ answer = [c \in Callers |-> [m \in Members |-> "none"]]
  /\ queue = [g \in Guilds |-> <<>>]
  /\ call = [m \in Members |-> "no"]
  /\ batch = {} /\ nonce = 0 /\ young = FALSE
  /\ requests = {} /\ chunks = {}
  /\ here = Members /\ state = {} /\ leaving = {} /\ overtaken = {}

ForOthers == {ch \in chunks : ch.nonce = Other}

Room == nonce + Cardinality(Members \ here) + Cardinality(ForOthers) < MaxLoad

-----------------------------------------------------------------------------
(* Parts of the steps of run(), which handles one event at a time.           *)

Fetching == {m \in Members : call[m] # "no"}

(* checkSendNextAPICall, when the queues are q: one call for a guild at a    *)
(* time. Finished is set to FALSE nowhere, so the branch that leaves out     *)
(* what the gateway is asked for is never taken.                             *)
NextCall(calls, q, g) ==
  IF (\A m \in Of(g) : calls[m] = "no") /\ q[g] # <<>>
  THEN [calls EXCEPT ![Head(q[g]).member] = "looks"] ELSE calls

\* Mutant: the next call is left to the next event.
LeftToLater(calls, q, g) == calls

CallAfter(calls, q, g) == NextCall(calls, q, g)

(* The members of g's queue that no call is under way for, and the first of  *)
(* them in the queue's order.                                                *)
Unfetched(q, g) == {q[g][i].member : i \in DOMAIN q[g]} \ Fetching

Before(s, m) == {s[k].member : k \in 1..(SelectInSeq(s, LAMBDA r : r.member = m) - 1)}

Asked(q, g) ==
  {m \in Unfetched(q, g) : Cardinality(Before(q[g], m) \cap Unfetched(q, g)) < MaxAsked}

Biggest(q) == {g \in Guilds : \A h \in Guilds : Len(q[h]) <= Len(q[g])}

(* checkSendNextGatewayRequest; the shard may not be ready.                  *)
NoBatch == UNCHANGED gateway

SendBatch(q) ==
  /\ ~young
  /\ nonce < MaxBatches /\ Room
  /\ \E g \in Biggest(q) :
       /\ Unfetched(q, g) # {}
       /\ batch' = Asked(q, g)
       /\ requests' = requests \cup {[nonce |-> nonce + 1, guild |-> g, asked |-> batch']}
  /\ nonce' = nonce + 1 /\ young' = TRUE
  /\ UNCHANGED chunks

\* Mutant: a request stays in the queue when another of its member is answered.
OnlyFirst(q, g, M) ==
  LET i == SelectInSeq(q[g], LAMBDA r : r.member \in M)
  IN [q EXCEPT ![g] = IF i = 0 THEN @ ELSE RemoveAt(@, i)]

(* The n-th of the positions I, counted from the front.                      *)
Nth(I, n) == CHOOSE i \in I : Cardinality({k \in I : k <= i}) = n

(* The queues without the requests for the members M of g, which are done;   *)
(* what is left keeps its order.                                             *)
Without(q, g, M) ==
  LET left == {i \in DOMAIN q[g] : q[g][i].member \notin M}
  IN [q EXCEPT ![g] = [n \in 1..Cardinality(left) |-> q[g][Nth(left, n)]]]

Done(g, M, result) ==
  answer' = [c \in Callers |-> [m \in Members |->
               IF m \in M /\ [by |-> c, member |-> m] \in ToSet(queue[g])
               THEN result[m] ELSE answer[c][m]]]

-----------------------------------------------------------------------------
(* GetMember and GetMembers: what the state tracker has is not asked for;    *)
(* addToQueue takes the rest.                                                *)
GetMembers(c, g, M) ==
  LET rest == M \ state
  IN /\ answer[c] = [m \in Members |-> "none"]
     /\ answer' = [answer EXCEPT ![c] = [m \in Members |->
                     IF m \in rest THEN "waits" ELSE IF m \in M THEN "member" ELSE "none"]]
     /\ \E s \in SetToSeqs(rest) :
          queue' = [queue EXCEPT ![g] = @ \o [i \in DOMAIN s |-> [by |-> c, member |-> s[i]]]]
     /\ \/ Cardinality(rest) > Many /\ SendBatch(queue')
        \/ NoBatch
     /\ call' = NextCall(call, queue', g)
     /\ UNCHANGED tracked

Result(m) == IF call[m] = "has" THEN "member" ELSE "error"

HandleFinishedSingle(m) ==
  LET g == GuildOf[m]
  IN /\ call[m] \in {"has", "failed"}
     /\ queue' = Without(queue, g, {m})
     /\ Done(g, {m}, [x \in {m} |-> Result(m)])
     /\ call' = CallAfter([call EXCEPT ![m] = "no"], queue', g)
     /\ UNCHANGED <<gateway, tracked>>

\* Mutant: whatever comes is taken for the answer to the last batch.
AnyNonce(ch) == batch

(* The requests that a chunk answers: with the nonce of the last batch, all  *)
(* of that batch, and otherwise those it has members for.                    *)
Answered(ch) == IF ch.nonce = nonce THEN batch ELSE ch.found

HandleFinishedGateway(ch) ==
  /\ ch \in chunks
  /\ queue' = Without(queue, ch.guild, Answered(ch))
  /\ Done(ch.guild, Answered(ch),
          [m \in Members |-> IF m \in ch.found THEN "member" ELSE "notfound"])
  /\ batch' = IF ch.nonce = nonce THEN {} ELSE batch
  /\ chunks' = chunks \ {ch}
  /\ state' = state \cup ch.found
  /\ UNCHANGED <<call, nonce, young, requests, here, leaving, overtaken>>

Tick ==
  /\ SendBatch(queue)
  /\ UNCHANGED <<answer, queue, call, tracked>>

SecondPasses ==
  /\ young /\ young' = FALSE
  /\ UNCHANGED <<answer, queue, call, batch, nonce, requests, chunks, tracked>>

-----------------------------------------------------------------------------
(* fetchSingle                                                               *)

Goes(m, stage) == call' = [call EXCEPT ![m] = stage] /\ UNCHANGED <<answer, queue, gateway>>

Look(m) ==
  /\ call[m] = "looks"
  /\ Goes(m, IF m \in state THEN "has" ELSE "asks")
  /\ UNCHANGED tracked

(* Discord has no such member, or the call fails.                            *)
Ask(m) ==
  /\ call[m] = "asks"
  /\ \/ m \in here /\ Goes(m, "got")
     \/ Goes(m, "failed")
  /\ UNCHANGED tracked

\* Mutant: what was fetched is added to the state before the error is looked at.
Stored(m) == call[m] \in {"got", "failed"}

MayStore(m) == call[m] = "got"

Store(m) ==
  /\ MayStore(m)
  /\ state' = state \cup {m}
  /\ Goes(m, IF call[m] = "got" THEN "has" ELSE call[m])
  /\ UNCHANGED <<here, leaving, overtaken>>

-----------------------------------------------------------------------------
(* Discord, and the state tracker.                                           *)

Reply(r) ==
  /\ r \in requests
  /\ requests' = requests \ {r}
  /\ chunks' = chunks \cup {[nonce |-> r.nonce, guild |-> r.guild, asked |-> r.asked,
                             found |-> r.asked \cap here]}
  /\ UNCHANGED <<answer, queue, call, batch, nonce, young, tracked>>

(* What others are sent, who ask with nonces of their own, gets to the       *)
(* fetcher as well.                                                          *)
ReplyToOthers(g, M) ==
  /\ M \subseteq Of(g)
  /\ Room
  /\ chunks' = chunks \cup {[nonce |-> Other, guild |-> g, asked |-> M, found |-> M \cap here]}
  /\ UNCHANGED <<answer, queue, call, batch, nonce, young, requests, tracked>>

(* The gateway's connection is lost, and with it what was under way.         *)
Lose ==
  /\ requests \cup chunks # {}
  /\ requests' = {} /\ chunks' = {}
  /\ UNCHANGED <<answer, queue, call, batch, nonce, young, tracked>>

Leave(m) ==
  /\ m \in here
  /\ Cardinality(Members \ here) < MaxLeaves /\ Room
  /\ here' = here \ {m} /\ leaving' = leaving \cup {m}
  /\ UNCHANGED <<answer, queue, call, gateway, state, overtaken>>

Left(m) ==
  /\ m \in leaving
  /\ leaving' = leaving \ {m} /\ state' = state \ {m}
  /\ overtaken' = IF call[m] = "got" \/ \E ch \in chunks : m \in ch.found
                  THEN overtaken \cup {m} ELSE overtaken
  /\ UNCHANGED <<answer, queue, call, gateway, here>>

Run ==
  \/ \E m \in Members : HandleFinishedSingle(m)
  \/ \E ch \in chunks : HandleFinishedGateway(ch)

Fetch(m) == Look(m) \/ Ask(m) \/ Store(m)

Next ==
  \/ \E c \in Callers, g \in Guilds : \E M \in SUBSET Of(g) \ {{}} : GetMembers(c, g, M)
  \/ Run \/ Tick \/ SecondPasses
  \/ \E m \in Members : Fetch(m) \/ Leave(m) \/ Left(m)
  \/ \E r \in requests : Reply(r)
  \/ \E g \in Guilds, M \in Foreign : ReplyToOthers(g, M)
  \/ Lose

(* run() handles what is sent to it, and calls of the API end. Nothing is    *)
(* assumed of the gateway.                                                   *)
Fairness ==
  /\ \A m \in Members : WF_vars(Fetch(m)) /\ WF_vars(HandleFinishedSingle(m))

Spec == Init /\ [][Next]_vars /\ Fairness

-----------------------------------------------------------------------------
(* Properties *)

Stages == {"no", "looks", "asks", "got", "has", "failed"}

(* Types of the queues, the calls and what is under way.                     *)
TypeOK ==
  /\ answer \in [Callers -> [Members -> Answers \cup {"none", "waits"}]]
  /\ queue \in [Guilds -> Seq(Request)]
  /\ call \in [Members -> Stages]
  /\ batch \subseteq Members /\ nonce \in 0..MaxBatches /\ young \in BOOLEAN
  /\ \A r \in requests : /\ DOMAIN r = {"nonce", "guild", "asked"}
                         /\ r.nonce \in 1..MaxBatches /\ r.guild \in Guilds
                         /\ r.asked \subseteq Of(r.guild)
  /\ \A ch \in chunks : /\ ch.nonce \in 1..MaxBatches \cup {Other} /\ ch.guild \in Guilds
                        /\ ch.found \subseteq ch.asked /\ ch.asked \subseteq Of(ch.guild)
  /\ state \subseteq Members /\ here \subseteq Members
  /\ leaving \subseteq Members /\ overtaken \subseteq Members

(* Whoever waits is in the queue, once, and nobody else is: no request is    *)
(* forgotten, and none is answered a second time on a channel that nobody    *)
(* reads any more.                                                           *)
WaitersAreQueued ==
  \A c \in Callers, m \in Members :
    Cardinality({i \in DOMAIN queue[GuildOf[m]] :
                   queue[GuildOf[m]][i] = [by |-> c, member |-> m]})
      = IF answer[c][m] = "waits" THEN 1 ELSE 0

(* A guild that has requests has one call to the API under way, and only one: *)
(* it is what will answer them if the gateway never does.                    *)
QueuesAreServed ==
  \A g \in Guilds :
    LET n == Cardinality(Fetching \cap Of(g))
    IN n <= 1 /\ (queue[g] # <<>> => n = 1)

(* Every request is answered, whatever becomes of the gateway.               *)
EveryRequestIsAnswered ==
  \A c \in Callers, m \in Members : answer[c][m] = "waits" ~> answer[c][m] # "waits"

(* "not found" is said only of members that Discord was asked for, in the    *)
(* answer that is missing them.                                              *)
MissingWasAskedFor ==
  [][\A c \in Callers, m \in Members :
       answer[c][m] # "notfound" /\ answer'[c][m] = "notfound" =>
         \E ch \in chunks \ chunks' : m \in ch.asked \ ch.found]_vars

(* The state tracker has nobody who has left, once it has been told, unless  *)
(* an answer that was fetched before put them back.                          *)
NobodyComesBack == state \subseteq here \cup leaving \cup overtaken
=============================================================================
