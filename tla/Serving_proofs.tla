--------------------------- MODULE Serving_proofs ---------------------------
(***************************************************************************)
(* Proofs about the server, for any requests, tokens and claims, any rate, *)
(* window, time to live and duration: the types, that a request is         *)
(* answered once, whose principal it has, which tokens are accepted, how   *)
(* often a caller is let in and what is audited before it is answered;     *)
(* that the projection that searches read is an eventually consistent      *)
(* index, that hits are sound, that nothing is missed and that a graph     *)
(* search finds the neighbourhood of its seeds.                            *)
(***************************************************************************)
EXTENDS Serving, FiniteSetTheorems, TLAPS

-----------------------------------------------------------------------------
(* The types of the requests.                                              *)

Pcs == {"idle", "body", "gate", "authenticate", "asking", "asked", "profile", "enter", "tool",
        "searching", "audit", "answer", "over"}

Moments == 0..MaxTime

Asks == [place : {"gate", "authenticate"}, asked : Moments, active : BOOLEAN]

Acceptances == [at : Moments, asked : Moments \cup {None}]

Outcomes == {"success", "error", "internal"}

Principals == {Principal(t) : t \in AccessTokens}

RequestStates ==
  [pc : Pcs, admitted : Moments \cup {None}, ask : Asks \cup {None},
   accepted : Acceptances \cup {None}, outcome : Outcomes \cup {None}, by : Principals \cup {None}]

RequestTypes ==
  /\ now \in Moments
  /\ revoked \in [AccessTokens -> Moments \cup {None}]
  /\ cache \in [AccessTokens -> Nat]
  /\ request \in [Requests -> RequestStates]
  /\ slot \in [Requests -> Principals \cup {None}]
  /\ timer \in [Requests -> {"off", "on"}]
  /\ response \in [Requests -> Statuses]
  /\ audits \in [Requests -> Seq(Outcomes)]
  /\ DOMAIN search = Searchers

(* What a request has at each place.                                       *)
PlaceInv(q) ==
  /\ At(q, "asking") \/ At(q, "asked") => request[q].ask \in Asks
  /\ At(q, "audit") => request[q].outcome \in {"success", "error"}
  /\ At(q, "answer") => request[q].outcome \in Outcomes
  /\ timer[q] = "on" => Route(q) = "mcp" /\ request[q].pc \notin {"idle", "body", "over"}

-----------------------------------------------------------------------------
(* Tokens. An answer of the authorization server says that the token was   *)
(* valid when it was asked, and what the cache keeps counts from then.     *)

CacheInv(t) ==
  /\ cache[t] <= Expiry(t) /\ cache[t] <= now + TTL
  /\ revoked[t] # None => revoked[t] <= now /\ cache[t] <= revoked[t] + TTL

AskInv(q) ==
  At(q, "asking") \/ At(q, "asked") =>
    /\ request[q].ask.asked <= now
    /\ At(q, "asked") /\ request[q].ask.active /\ revoked[Bearer(q)] # None =>
         request[q].ask.asked <= revoked[Bearer(q)]

AcceptedInv(q) ==
  LET accepted == request[q].accepted
      token == Bearer(q)
  IN  accepted # None =>
        /\ accepted.at <= now
        /\ IF accepted.asked = None
           THEN /\ accepted.at < Expiry(token)
                /\ revoked[token] # None => accepted.at < revoked[token] + TTL
           ELSE /\ accepted.asked < Expiry(token) /\ accepted.asked <= now
                /\ revoked[token] # None => accepted.asked <= revoked[token]

TokenInv == /\ \A t \in AccessTokens : CacheInv(t)
            /\ \A q \in Requests : AskInv(q) /\ AcceptedInv(q)

-----------------------------------------------------------------------------
(* Audits: none before the place of the audit, then the outcome.           *)

AuditInv(q) ==
  /\ request[q].pc \notin {"answer", "over"} => audits[q] = <<>>
  /\ At(q, "answer") /\ Route(q) = "mcp" /\ request[q].outcome \in {"success", "error"} =>
       audits[q] = <<request[q].outcome>>
  /\ response[q] \in {"success", "error"} =>
       At(q, "over") /\ (Route(q) = "mcp" => audits[q] = <<response[q]>>)

(* Principals: the one in the context of a request is that of its token.   *)
CallerInv(q) ==
  /\ At(q, "tool") => slot[q] = Principal(Bearer(q))
  /\ request[q].by \in {None, Principal(Bearer(q))}
  /\ At(q, "searching") =>
       q \in Searchers /\ "principal" \in DOMAIN search[q] /\ search[q].principal = Principal(Bearer(q))

RequestInv ==
  /\ RequestTypes
  /\ TokenInv
  /\ \A q \in Requests : PlaceInv(q) /\ AuditInv(q) /\ CallerInv(q)

-----------------------------------------------------------------------------
(* A step of a request changes its own part of the state only. One lemma   *)
(* for each part of the invariant, with one step for each action.          *)

LEMMA Places == \A pc \in {"idle", "body", "gate", "authenticate", "asking", "asked", "profile",
                           "enter", "tool", "searching", "audit", "answer", "over"} : pc \in Pcs
BY DEF Pcs

(* An answer is written with a status.                                     *)
LEMMA WriteTypes ==
  ASSUME response \in [Requests -> Statuses], NEW q \in Requests, NEW s \in Statuses, WriteJson(q, s)
  PROVE  response' \in [Requests -> Statuses]
BY DEF WriteJson

(* What a step of a request may set in its record.                         *)
LEMMA ToTypes ==
  ASSUME request \in [Requests -> RequestStates], NEW q \in Requests, NEW pc \in Pcs
  PROVE  [request EXCEPT ![q].pc = pc]
           \in [Requests -> RequestStates]
BY DEF RequestStates

LEMMA AdmittedTypes ==
  ASSUME request \in [Requests -> RequestStates], NEW q \in Requests, NEW pc \in Pcs,
         NEW admitted \in Moments
  PROVE  [request EXCEPT ![q].pc = pc, ![q].admitted = admitted]
           \in [Requests -> RequestStates]
BY DEF RequestStates

LEMMA AskTypes ==
  ASSUME request \in [Requests -> RequestStates], NEW q \in Requests, NEW pc \in Pcs,
         NEW ask \in Asks
  PROVE  [request EXCEPT ![q].pc = pc, ![q].ask = ask]
           \in [Requests -> RequestStates]
BY DEF RequestStates

LEMMA AcceptedTypes ==
  ASSUME request \in [Requests -> RequestStates], NEW q \in Requests, NEW pc \in Pcs,
         NEW accepted \in Acceptances \cup {None}
  PROVE  [request EXCEPT ![q].pc = pc, ![q].ask = None, ![q].accepted = accepted]
           \in [Requests -> RequestStates]
<1> DEFINE next == [request[q] EXCEPT !.pc = pc, !.ask = None, !.accepted = accepted]
<1>1. next \in RequestStates
  BY DEF RequestStates
<1>2. [request EXCEPT ![q].pc = pc, ![q].ask = None, ![q].accepted = accepted] = [request EXCEPT ![q] = next]
  OBVIOUS
<1> HIDE DEF next
<1> QED  BY <1>1, <1>2

LEMMA EnteredTypes ==
  ASSUME request \in [Requests -> RequestStates], NEW q \in Requests, NEW pc \in Pcs
  PROVE  [request EXCEPT ![q].pc = pc, ![q].accepted = None]
           \in [Requests -> RequestStates]
BY DEF RequestStates

LEMMA OutcomeTypes ==
  ASSUME request \in [Requests -> RequestStates], NEW q \in Requests, NEW pc \in Pcs,
         NEW outcome \in Outcomes \cup {None}
  PROVE  [request EXCEPT ![q].pc = pc, ![q].outcome = outcome]
           \in [Requests -> RequestStates]
BY DEF RequestStates

LEMMA ErrorTypes ==
  ASSUME request \in [Requests -> RequestStates], NEW q \in Requests, NEW outcome \in Outcomes
  PROVE  [request EXCEPT ![q].outcome = outcome]
           \in [Requests -> RequestStates]
BY DEF RequestStates

LEMMA ExecutedTypes ==
  ASSUME request \in [Requests -> RequestStates], NEW q \in Requests, NEW pc \in Pcs,
         NEW outcome \in Outcomes, NEW by \in Principals \cup {None}
  PROVE  [request EXCEPT ![q].pc = pc, ![q].outcome = outcome, ![q].by = by]
           \in [Requests -> RequestStates]
<1> DEFINE next == [request[q] EXCEPT !.pc = pc, !.outcome = outcome, !.by = by]
<1>1. next \in RequestStates
  BY DEF RequestStates
<1>2. [request EXCEPT ![q].pc = pc, ![q].outcome = outcome, ![q].by = by] = [request EXCEPT ![q] = next]
  OBVIOUS
<1> HIDE DEF next
<1> QED  BY <1>1, <1>2

LEMMA MinOfTwo ==
  ASSUME NEW m \in Nat, NEW n \in Nat
  PROVE  Min({m, n}) \in {m, n} /\ Min({m, n}) <= m /\ Min({m, n}) <= n
<1>1. \E x \in {m, n} : \A y \in {m, n} : x <= y
  <2>1. CASE m <= n
    BY <2>1
  <2>2. CASE ~(m <= n)
    BY <2>2
  <2> QED BY <2>1, <2>2
<1> QED BY <1>1 DEF Min

LEMMA CachedUntilBounds ==
  ASSUME NEW t \in AccessTokens, NEW asked \in Nat
  PROVE  /\ CachedUntil(t, asked) \in Nat
         /\ CachedUntil(t, asked) <= Expiry(t) /\ CachedUntil(t, asked) <= asked + TTL
<1>1. PICK m, n : m = Expiry(t) /\ n = asked + TTL
  OBVIOUS
<1>2. m \in Nat /\ n \in Nat
  BY <1>1, AdmissionAssumption
<1>3. Min({m, n}) \in {m, n} /\ Min({m, n}) <= m /\ Min({m, n}) <= n
  BY <1>2, MinOfTwo
<1>4. CachedUntil(t, asked) = Min({m, n})
  BY <1>1 DEF CachedUntil
<1> QED BY <1>1, <1>2, <1>3, <1>4

LEMMA InitRequests == Init => RequestInv
<1> SUFFICES ASSUME Init PROVE RequestInv
  OBVIOUS
<1>1. RequestTypes
  BY AdmissionAssumption DEF Init, AdmissionInit, RetrievalInit, RequestTypes, RequestStates, Pcs,
     Moments, Statuses, Unsent
<1>2. TokenInv
  BY AdmissionAssumption DEF Init, AdmissionInit, TokenInv, CacheInv, AskInv, AcceptedInv, At
<1>3. \A q \in Requests : PlaceInv(q) /\ AuditInv(q) /\ CallerInv(q)
  BY DEF Init, AdmissionInit, PlaceInv, AuditInv, CallerInv, At, Unsent
<1> QED BY <1>1, <1>2, <1>3 DEF RequestInv

LEMMA ArrivalTypes ==
  ASSUME RequestInv, NEW q \in Requests, Arrival(q), UNCHANGED retrievalVars
  PROVE  RequestTypes'
<1>1. RequestTypes /\ UNCHANGED search
  BY DEF RequestInv, retrievalVars
<1>2. /\ now' = now /\ UNCHANGED <<revoked, cache, slot, audits>>
  BY DEF Arrival, Arrive, ArriveAtRest, TurnAway, ReadBody, RejectBody
<1>3. request' \in [Requests -> RequestStates]
  <2> USE Places, <1>1 DEF RequestTypes, To
  <2>1. CASE Arrive(q)
    <3>1. CASE LetIn(Bearer(q))
      <4>1. request' = [request EXCEPT ![q].pc = "body", ![q].admitted = now]
        BY <2>1, <3>1 DEF Arrive
      <4> QED BY <4>1, AdmittedTypes
    <3>2. CASE ~LetIn(Bearer(q))
      <4>1. request' = [request EXCEPT ![q].pc = "over"]
        BY <2>1, <3>2 DEF Arrive
      <4> QED BY <4>1, ToTypes
    <3> QED BY <3>1, <3>2
  <2>2. CASE ArriveAtRest(q) \/ TurnAway(q) \/ ReadBody(q) \/ RejectBody(q)
    <3>1. \E pc \in {"body", "over", "gate", "authenticate"} : request' = [request EXCEPT ![q].pc = pc]
      BY <2>2 DEF ArriveAtRest, TurnAway, ReadBody, RejectBody
    <3> QED BY <3>1, ToTypes
  <2> QED BY <2>1, <2>2 DEF Arrival
<1>4. timer' \in [Requests -> {"off", "on"}]
  BY <1>1 DEF RequestTypes, Arrival, Arrive, ArriveAtRest, TurnAway, ReadBody, RejectBody
<1>5. response' \in [Requests -> Statuses]
  <2>1. {"429", "403", "400"} \subseteq Statuses
    BY DEF Statuses
  <2>2. UNCHANGED response \/ \E s \in {"429", "403", "400"} : WriteJson(q, s)
    BY DEF Arrival, Arrive, ArriveAtRest, TurnAway, ReadBody, RejectBody
  <2> QED BY <1>1, <2>1, <2>2, WriteTypes DEF RequestTypes
<1> QED BY <1>1, <1>2, <1>3, <1>4, <1>5 DEF RequestTypes

LEMMA AuthenticationTypes ==
  ASSUME RequestInv, NEW q \in Requests, Authentication(q), UNCHANGED retrievalVars
  PROVE  RequestTypes'
<1>1. RequestTypes /\ UNCHANGED search /\ PlaceInv(q)
  BY DEF RequestInv, retrievalVars
<1>2. UNCHANGED <<now, revoked, audits>>
  BY DEF Authentication, IntrospectCached, Introspect, IntrospectionAnswered, IntrospectionAccepted,
     IntrospectionRefused, CheckProfile, RunAsRequest, Settle
<1>3. request' \in [Requests -> RequestStates]
  <2> USE Places, <1>1 DEF RequestTypes, To
  <2>1. CASE IntrospectCached(q)
    <3>1. [at |-> now, asked |-> None] \in Acceptances
      BY DEF Acceptances
    <3>2. AfterToken(request[q].pc) \in Pcs
      BY DEF AfterToken
    <3> QED BY <2>1, <3>1, <3>2, AcceptedTypes DEF IntrospectCached, Accepted
  <2>2. CASE Introspect(q)
    <3>1. [place |-> request[q].pc, asked |-> now, active |-> FALSE] \in Asks
      BY <2>2 DEF Introspect, Introspecting, At, Asks
    <3> QED BY <2>2, <3>1, AskTypes DEF Introspect
  <2>3. CASE IntrospectionAnswered(q)
    <3>1. request[q].ask \in Asks
      BY <2>3 DEF IntrospectionAnswered, PlaceInv
    <3>2. PICK active \in BOOLEAN :
            request' = [request EXCEPT ![q].pc = "asked", ![q].ask.active = active]
      BY <2>3 DEF IntrospectionAnswered
    <3>3. PICK ask \in Asks : ask = [request[q].ask EXCEPT !.active = active]
      BY <3>1 DEF Asks
    <3>4. request' = [request EXCEPT ![q].pc = "asked", ![q].ask = ask]
      BY <3>2, <3>3 DEF RequestStates
    <3> QED BY <3>4, AskTypes
  <2>4. CASE IntrospectionAccepted(q)
    <3>1. request[q].ask \in Asks
      BY <2>4 DEF IntrospectionAccepted, PlaceInv
    <3>2. [at |-> now, asked |-> request[q].ask.asked] \in Acceptances
      BY <3>1 DEF Acceptances, Asks
    <3>3. AfterToken(request[q].ask.place) \in Pcs
      BY DEF AfterToken
    <3> QED BY <2>4, <3>2, <3>3, AcceptedTypes DEF IntrospectionAccepted, Accepted
  <2>5. CASE IntrospectionRefused(q) \/ CheckProfile(q) \/ RunAsRequest(q)
    <3>1. CASE IntrospectionRefused(q)
      BY <3>1, AcceptedTypes DEF IntrospectionRefused
    <3>2. CASE CheckProfile(q)
      <4>1. \E pc \in {"authenticate", "over"} : request' = [request EXCEPT ![q].pc = pc]
        BY <3>2 DEF CheckProfile
      <4> QED BY <4>1, ToTypes
    <3>3. CASE RunAsRequest(q)
      BY <3>3, EnteredTypes DEF RunAsRequest
    <3> QED BY <2>5, <3>1, <3>2, <3>3
  <2> QED BY <2>1, <2>2, <2>3, <2>4, <2>5 DEF Authentication
<1>4. cache' \in [AccessTokens -> Nat]
  <2>1. CASE IntrospectionAccepted(q)
    <3>1. request[q].ask \in Asks
      BY <1>1, <2>1 DEF IntrospectionAccepted, PlaceInv
    <3>2. request[q].ask.asked \in Nat /\ Bearer(q) \in AccessTokens
      BY <3>1, AdmissionAssumption DEF Asks, Moments
    <3>3. CachedUntil(Bearer(q), request[q].ask.asked) \in Nat
      BY <3>2, CachedUntilBounds
    <3> QED BY <1>1, <2>1, <3>3 DEF IntrospectionAccepted, RequestTypes
  <2>2. CASE UNCHANGED cache
    BY <1>1, <2>2 DEF RequestTypes
  <2> QED BY <2>1, <2>2 DEF Authentication, IntrospectCached, Introspect, IntrospectionAnswered,
             IntrospectionRefused, CheckProfile, RunAsRequest, Settle
<1>5. slot' \in [Requests -> Principals \cup {None}]
  <2>1. Principal(Bearer(q)) \in Principals
    BY AdmissionAssumption DEF Principals
  <2> QED BY <1>1, <2>1 DEF RequestTypes, Authentication, IntrospectCached, Introspect,
             IntrospectionAnswered, IntrospectionAccepted, IntrospectionRefused, CheckProfile,
             RunAsRequest, Settle
<1>6. timer' \in [Requests -> {"off", "on"}]
  BY <1>1 DEF RequestTypes, Authentication, IntrospectCached, Introspect, IntrospectionAnswered,
     IntrospectionAccepted, IntrospectionRefused, CheckProfile, RunAsRequest, Settle
<1>7. response' \in [Requests -> Statuses]
  <2>1. {"500", "401", "403"} \subseteq Statuses
    BY DEF Statuses
  <2>2. UNCHANGED response \/ \E s \in {"500", "401", "403"} : WriteJson(q, s)
    BY DEF Authentication, IntrospectCached, Introspect, IntrospectionAnswered,
       IntrospectionAccepted, IntrospectionRefused, CheckProfile, RunAsRequest, Settle
  <2> QED BY <1>1, <2>1, <2>2, WriteTypes DEF RequestTypes
<1> QED BY <1>1, <1>2, <1>3, <1>4, <1>5, <1>6, <1>7 DEF RequestTypes

LEMMA AnsweringTypes ==
  ASSUME RequestInv, NEW q \in Requests, Answering(q), UNCHANGED retrievalVars
  PROVE  RequestTypes'
<1>1. RequestTypes /\ UNCHANGED search /\ PlaceInv(q)
  BY DEF RequestInv, retrievalVars
<1>2. UNCHANGED <<now, revoked, cache, slot>>
  BY DEF Answering, AuditTool, AuditFails, SendHead, Answer, TimeoutFires, Settle
<1>3. request' \in [Requests -> RequestStates]
  <2> USE Places, <1>1 DEF RequestTypes, To
  <2>1. CASE AuditTool(q)
    BY <2>1, ToTypes DEF AuditTool
  <2>2. CASE AuditFails(q)
    <3>1. \/ request' = [request EXCEPT ![q].outcome = "error"]
          \/ request' = [request EXCEPT ![q].pc = "answer", ![q].outcome = "internal"]
      BY <2>2 DEF AuditFails
    <3>2. {"error", "internal"} \subseteq Outcomes
      BY DEF Outcomes
    <3>3. [request EXCEPT ![q].pc = "answer", ![q].outcome = "internal"] \in [Requests -> RequestStates]
      BY <3>2, OutcomeTypes
    <3>4. [request EXCEPT ![q].outcome = "error"] \in [Requests -> RequestStates]
      BY <3>2, ErrorTypes
    <3> QED BY <3>1, <3>3, <3>4
  <2>3. CASE Answer(q)
    BY <2>3, OutcomeTypes DEF Answer
  <2>4. CASE SendHead(q) \/ TimeoutFires(q)
    BY <2>4 DEF SendHead, TimeoutFires
  <2> QED BY <2>1, <2>2, <2>3, <2>4 DEF Answering
<1>4. timer' \in [Requests -> {"off", "on"}]
  BY <1>1 DEF RequestTypes, Answering, AuditTool, AuditFails, SendHead, Answer, TimeoutFires, Settle
<1>5. response' \in [Requests -> Statuses]
  <2>1. /\ {"head", "500", "504", "destroyed"} \subseteq Statuses /\ Outcomes \subseteq Statuses
    BY DEF Statuses, Outcomes
  <2>2. CASE Answer(q)
    <3>1. \E s \in Statuses : WriteJson(q, s)
      BY <1>1, <2>1, <2>2 DEF Answer, Settle, PlaceInv
    <3> QED BY <1>1, <3>1, WriteTypes DEF RequestTypes
  <2>3. CASE TimeoutFires(q)
    BY <1>1, <2>1, <2>3 DEF TimeoutFires, TimeoutAnswer, RequestTypes
  <2>4. CASE SendHead(q)
    BY <1>1, <2>1, <2>4 DEF SendHead, RequestTypes
  <2>5. CASE AuditTool(q) \/ AuditFails(q)
    BY <1>1, <2>5 DEF AuditTool, AuditFails, RequestTypes
  <2> QED BY <2>2, <2>3, <2>4, <2>5 DEF Answering
<1>6. audits' \in [Requests -> Seq(Outcomes)]
  <2>1. CASE AuditTool(q)
    <3>1. request[q].outcome \in Outcomes /\ audits[q] \in Seq(Outcomes)
      BY <1>1, <2>1 DEF AuditTool, PlaceInv, RequestTypes, Outcomes
    <3>2. Append(audits[q], request[q].outcome) \in Seq(Outcomes)
      BY <3>1
    <3> QED BY <1>1, <2>1, <3>2 DEF AuditTool, RequestTypes
  <2>2. CASE UNCHANGED audits
    BY <1>1, <2>2 DEF RequestTypes
  <2> QED BY <2>1, <2>2 DEF Answering, AuditFails, SendHead, Answer, TimeoutFires, Settle
<1> QED BY <1>1, <1>2, <1>3, <1>4, <1>5, <1>6 DEF RequestTypes

-----------------------------------------------------------------------------
(* A search belongs to a searcher, and none of its steps changes whose it  *)
(* is, or any other search.                                                *)

SearchesKept ==
  /\ DOMAIN search' = Searchers
  /\ \A s \in Searchers : "principal" \in DOMAIN search[s] =>
       "principal" \in DOMAIN search'[s] /\ search'[s].principal = search[s].principal

LEMMA GoKeeps ==
  ASSUME DOMAIN search = Searchers, NEW s \in Searchers, NEW k, NEW task, Go(s, k, task)
  PROVE  SearchesKept
BY DEF Go, SearchesKept

LEMMA FieldsKeep ==
  ASSUME DOMAIN search = Searchers, NEW s \in Searchers, NEW u,
         \/ search' = [search EXCEPT ![s].resolutions = u]
         \/ search' = [search EXCEPT ![s].task = u]
  PROVE  SearchesKept
BY DEF SearchesKept

LEMMA SearchStepKeeps ==
  ASSUME DOMAIN search = Searchers, NEW s \in Searchers, SearchStep(s)
  PROVE  SearchesKept
<1>1. CASE \E k \in {"lexical", "vector", "graph"} :
             GateEvents(s, k) \/ GateMarks(s, k) \/ ProjectionFails(s, k)
  BY <1>1, GoKeeps DEF GateEvents, GateMarks, ProjectionFails
<1>2. CASE SearchProjectionLexical(s) \/ SearchProjectionVector(s)
  BY <1>2, GoKeeps DEF SearchProjectionLexical, SearchProjectionVector
<1>3. CASE SearchLexicalIds(s)
  BY <1>3, GoKeeps DEF SearchLexicalIds
<1>4. CASE SearchLexicalRead(s)
  BY <1>4, GoKeeps DEF SearchLexicalRead
<1>5. CASE SearchLexicalAtOnce(s)
  BY <1>5, GoKeeps DEF SearchLexicalAtOnce
<1>6. CASE RankClaimsLexically(s)
  BY <1>6, GoKeeps DEF RankClaimsLexically
<1>7. CASE SearchCanonicalVector(s)
  BY <1>7, GoKeeps DEF SearchCanonicalVector
<1>8. CASE SeedGraph(s) \/ SeedGraphEntities(s)
  BY <1>8, GoKeeps DEF SeedGraph, SeedGraphEntities
<1>9. CASE GraphRowsForEntity(s)
  BY <1>9, GoKeeps DEF GraphRowsForEntity
<1>10. CASE GraphHop(s)
  BY <1>10, GoKeeps DEF GraphHop
<1>11. CASE SearchCanonicalGraph(s)
  BY <1>11, GoKeeps DEF SearchCanonicalGraph
<1>12. CASE BeginGraph(s)
  BY <1>12, FieldsKeep DEF BeginGraph
<1>13. CASE ReadResolutions(s)
  BY <1>13, FieldsKeep DEF ReadResolutions
<1>14. CASE ReciprocalRankFuse(s)
  <2>1. PICK order : search' = [search EXCEPT ![s].pc = "ranked", ![s].order = order]
    BY <1>14 DEF ReciprocalRankFuse
  <2> QED BY <2>1 DEF SearchesKept
<1>15. CASE FallbackCandidates(s)
  <2>1. PICK order : search' = [search EXCEPT ![s].pc = "ranked", ![s].order = order]
    BY <1>15 DEF FallbackCandidates
  <2> QED BY <2>1 DEF SearchesKept
<1>16. CASE AuthorizeHits(s)
  <2>1. PICK hits : search' = [search EXCEPT ![s].pc = "done", ![s].until = Len(changes), ![s].hits = hits]
    BY <1>16 DEF AuthorizeHits
  <2> QED BY <2>1 DEF SearchesKept
<1> QED BY <1>1, <1>2, <1>3, <1>4, <1>5, <1>6, <1>7, <1>8, <1>9, <1>10, <1>11, <1>12, <1>13,
           <1>14, <1>15, <1>16 DEF SearchStep

-----------------------------------------------------------------------------
(* The operations.                                                         *)

LEMMA OperatingTypes ==
  ASSUME RequestInv, NEW q \in Requests, Operating(q)
  PROVE  RequestTypes'
<1>1. RequestTypes /\ CallerInv(q)
  BY DEF RequestInv
<1>2. UNCHANGED <<now, revoked, cache, slot, timer, response, audits>>
  BY DEF Operating, ListPolicies, BeginSearch, EndSearch, SearchFails, Executed
<1>3. DOMAIN search' = Searchers
  BY <1>1 DEF RequestTypes, Operating, ListPolicies, BeginSearch, EndSearch, SearchFails,
     retrievalVars, Begin
<1>4. request' \in [Requests -> RequestStates]
  <2> USE Places, <1>1 DEF RequestTypes
  <2>1. CASE BeginSearch(q)
    BY <2>1, ToTypes DEF BeginSearch, To
  <2>2. ASSUME NEW outcome \in {"success", "error"}, NEW by \in Principals \cup {None},
               Executed(q, outcome, by)
        PROVE  request' \in [Requests -> RequestStates]
    <3>1. outcome \in Outcomes
      BY DEF Outcomes
    <3>2. PICK pc \in {"audit", "answer"} :
            request' = [request EXCEPT ![q].pc = pc, ![q].outcome = outcome, ![q].by = by]
      BY <2>2 DEF Executed
    <3> QED BY <3>1, <3>2, ExecutedTypes
  <2>3. CASE ListPolicies(q)
    <3>1. Current(q) \in Principals \cup {None}
      BY DEF Current, Context
    <3> QED BY <2>2, <2>3, <3>1 DEF ListPolicies
  <2>4. CASE EndSearch(q) \/ SearchFails(q)
    <3>1. search[q].principal \in Principals
      BY <2>4, AdmissionAssumption DEF EndSearch, SearchFails, CallerInv, Principals
    <3> QED BY <2>2, <2>4, <3>1 DEF EndSearch, SearchFails
  <2> QED BY <2>1, <2>3, <2>4 DEF Operating
<1> QED BY <1>1, <1>2, <1>3, <1>4 DEF RequestTypes

LEMMA TimeTypes ==
  ASSUME RequestInv, TimeStep, UNCHANGED retrievalVars
  PROVE  RequestTypes'
<1>1. CASE Tick
  BY <1>1, AdmissionAssumption DEF Tick, RequestInv, RequestTypes, Moments, retrievalVars
<1>2. ASSUME NEW q \in cast, Revoke(Bearer(q)) PROVE RequestTypes'
  BY <1>2 DEF Revoke, RequestInv, RequestTypes, retrievalVars
<1> QED BY <1>1, <1>2 DEF TimeStep

LEMMA KnowledgeKeeps == ASSUME KnowledgeStep PROVE UNCHANGED search
BY DEF KnowledgeStep, Sync, Resolve, AssertClaim, RetractClaim, Change

(* Whoever appears in a behaviour sends one of its requests.               *)
LEMMA CastIsRequests == Init /\ [][Next]_vars => [](cast \subseteq Requests)
<1>1. Init => cast \subseteq Requests
  BY ServingAssumption DEF Init
<1>2. cast \subseteq Requests /\ [Next]_vars => (cast \subseteq Requests)'
  BY DEF Next, vars
<1> QED BY <1>1, <1>2, PTL

LEMMA StepTypes ==
  ASSUME RequestInv, cast \subseteq Requests, [Next]_vars
  PROVE  RequestTypes'
<1>1. ASSUME NEW q \in cast, RequestStep(q), UNCHANGED retrievalVars PROVE RequestTypes'
  BY <1>1, ArrivalTypes, AuthenticationTypes, AnsweringTypes DEF RequestStep
<1>2. ASSUME NEW q \in cast, Operating(q) PROVE RequestTypes'
  BY <1>2, OperatingTypes
<1>3. ASSUME NEW q \in cast \cap Searchers, SearchStep(q), UNCHANGED admissionVars
      PROVE  RequestTypes'
  BY <1>3, SearchStepKeeps DEF SearchesKept, RequestInv, RequestTypes, admissionVars
<1>4. CASE KnowledgeStep /\ UNCHANGED admissionVars
  BY <1>4, KnowledgeKeeps DEF RequestInv, RequestTypes, admissionVars
<1>5. CASE TimeStep /\ UNCHANGED retrievalVars
  BY <1>5, TimeTypes
<1>6. CASE UNCHANGED vars
  BY <1>6 DEF vars, retrievalVars, admissionVars, RequestInv, RequestTypes
<1> QED BY <1>1, <1>2, <1>3, <1>4, <1>5, <1>6 DEF Next

-----------------------------------------------------------------------------
(* Places.                                                                 *)

LEMMA Others ==
  ASSUME RequestInv, NEW q \in Requests, RequestStep(q) \/ Operating(q), NEW r \in Requests, r # q
  PROVE  /\ request'[r] = request[r] /\ slot'[r] = slot[r] /\ timer'[r] = timer[r]
         /\ response'[r] = response[r] /\ audits'[r] = audits[r]
<1>1. RequestTypes
  BY DEF RequestInv
<1> USE <1>1 DEF RequestTypes, To, WriteJson, Settle
<1>2. CASE Arrival(q)
  BY <1>2 DEF Arrival, Arrive, ArriveAtRest, TurnAway, ReadBody, RejectBody
<1>3. CASE Authentication(q)
  BY <1>3 DEF Authentication, IntrospectCached, Introspect, IntrospectionAnswered,
     IntrospectionAccepted, IntrospectionRefused, CheckProfile, RunAsRequest, Accepted, Context
<1>4. CASE Answering(q)
  BY <1>4 DEF Answering, AuditTool, AuditFails, SendHead, Answer, TimeoutFires
<1>5. CASE Operating(q)
  BY <1>5 DEF Operating, ListPolicies, BeginSearch, EndSearch, SearchFails, Executed
<1> QED BY <1>2, <1>3, <1>4, <1>5 DEF RequestStep

(* What an answer of the authorization server changes.                     *)
LEMMA Answered ==
  ASSUME RequestInv, NEW q \in Requests, IntrospectionAnswered(q)
  PROVE  /\ request'[q].pc = "asked"
         /\ request'[q].ask \in Asks /\ request'[q].ask.asked = request[q].ask.asked
         /\ request'[q].ask.active => revoked[Bearer(q)] = None
         /\ request'[q].accepted = request[q].accepted
<1>1. request[q] \in RequestStates /\ q \in DOMAIN request /\ request[q].ask \in Asks
  BY DEF RequestInv, RequestTypes, PlaceInv, IntrospectionAnswered
<1>2. PICK active \in {revoked[Bearer(q)] = None, FALSE} :
        request' = [request EXCEPT ![q].pc = "asked", ![q].ask.active = active]
  BY DEF IntrospectionAnswered
<1>3. PICK ask : ask = [request[q].ask EXCEPT !.active = active]
  OBVIOUS
<1>4. ask \in Asks /\ ask.asked = request[q].ask.asked /\ ask.active = active
  BY <1>1, <1>2, <1>3 DEF Asks
<1>5. request'[q] = [request[q] EXCEPT !.pc = "asked", !.ask = ask]
  BY <1>1, <1>2, <1>3 DEF RequestStates
<1>6. request'[q].pc = "asked" /\ request'[q].ask = ask /\ request'[q].accepted = request[q].accepted
  BY <1>1, <1>5 DEF RequestStates
<1> QED BY <1>2, <1>4, <1>6

LEMMA PlaceStep ==
  ASSUME RequestInv, NEW q \in Requests, RequestStep(q) \/ Operating(q)
  PROVE  PlaceInv(q)'
<1>1. RequestTypes /\ PlaceInv(q)
  BY DEF RequestInv
<1> USE <1>1 DEF RequestTypes, RequestStates, To, At, PlaceInv
<1>2. CASE Arrival(q)
  BY <1>2 DEF Arrival, Arrive, ArriveAtRest, TurnAway, ReadBody, RejectBody
<1>3. CASE IntrospectCached(q)
  BY <1>3 DEF IntrospectCached, Accepted, AfterToken, Introspecting
<1>4. CASE Introspect(q)
  <2>1. [place |-> request[q].pc, asked |-> now, active |-> FALSE] \in Asks
    BY <1>4 DEF Introspect, Introspecting, Asks
  <2> QED BY <1>4, <2>1 DEF Introspect, Introspecting
<1>5. CASE IntrospectionAnswered(q)
  BY <1>5, Answered DEF IntrospectionAnswered
<1>6. CASE IntrospectionAccepted(q)
  BY <1>6 DEF IntrospectionAccepted, Accepted, AfterToken
<1>7. CASE IntrospectionRefused(q)
  BY <1>7 DEF IntrospectionRefused, Settle
<1>8. CASE CheckProfile(q)
  BY <1>8 DEF CheckProfile, Settle
<1>9. CASE RunAsRequest(q)
  BY <1>9 DEF RunAsRequest
<1>10. CASE AuditTool(q) \/ AuditFails(q)
  BY <1>10 DEF AuditTool, AuditFails, Outcomes
<1>11. CASE SendHead(q) \/ TimeoutFires(q)
  BY <1>11 DEF SendHead, TimeoutFires
<1>12. CASE Answer(q)
  BY <1>12 DEF Answer, Settle
<1>13. CASE Operating(q)
  BY <1>13 DEF Operating, ListPolicies, BeginSearch, EndSearch, SearchFails, Executed, MayExecute,
     Outcomes
<1> QED BY <1>2, <1>3, <1>4, <1>5, <1>6, <1>7, <1>8, <1>9, <1>10, <1>11, <1>12, <1>13
           DEF RequestStep, Authentication, Answering

-----------------------------------------------------------------------------
(* Tokens.                                                                 *)

(* A step that asks nobody and accepts nothing anew.                       *)
LEMMA TokensUntouched ==
  ASSUME NEW q, AcceptedInv(q), UNCHANGED <<now, revoked>>,
         request'[q].accepted = request[q].accepted \/ request'[q].accepted = None,
         request'[q].pc \notin {"asking", "asked"}
  PROVE  AskInv(q)' /\ AcceptedInv(q)'
BY DEF AskInv, AcceptedInv, At

(* What the cache vouches for is valid, and so is what was just asked for. *)
LEMMA AcceptStep ==
  ASSUME RequestInv, NEW q \in Requests, IntrospectCached(q) \/ IntrospectionAccepted(q)
  PROVE  AcceptedInv(q)' /\ AskInv(q)'
<1> DEFINE t == Bearer(q)
<1>1. /\ RequestTypes /\ CacheInv(t) /\ AskInv(q) /\ PlaceInv(q) /\ UNCHANGED <<now, revoked>>
      /\ t \in AccessTokens /\ Expiry(t) \in Nat /\ TTL \in Nat /\ None \notin Nat /\ MaxTime \in Nat
  BY AdmissionAssumption DEF RequestInv, TokenInv, IntrospectCached, IntrospectionAccepted
<1>2. /\ request[q] \in RequestStates /\ q \in DOMAIN request /\ now \in Nat /\ cache[t] \in Nat
      /\ revoked[t] \in Nat \cup {None}
  BY <1>1 DEF RequestTypes, Moments
<1>3. CASE IntrospectCached(q)
  <2>1. /\ request'[q].pc \in {"profile", "enter"}
        /\ request'[q].accepted = [at |-> now, asked |-> None]
    BY <1>2, <1>3 DEF IntrospectCached, Accepted, AfterToken, RequestStates
  <2>2. cache[t] > now
    BY <1>3 DEF IntrospectCached
  <2> QED BY <1>1, <1>2, <2>1, <2>2 DEF AcceptedInv, AskInv, CacheInv, At
<1>4. CASE IntrospectionAccepted(q)
  <2>1. /\ request'[q].pc \in {"profile", "enter"}
        /\ request'[q].accepted = [at |-> now, asked |-> request[q].ask.asked]
    BY <1>2, <1>4 DEF IntrospectionAccepted, Accepted, AfterToken, RequestStates
  <2>2. /\ request[q].ask.asked \in Nat /\ request[q].ask.asked < Expiry(t)
        /\ request[q].ask.asked <= now
        /\ revoked[t] # None => request[q].ask.asked <= revoked[t]
    BY <1>1, <1>4 DEF IntrospectionAccepted, PlaceInv, AskInv, At, Asks, Moments
  <2> QED BY <1>1, <1>2, <2>1, <2>2 DEF AcceptedInv, AskInv, At
<1> QED BY <1>3, <1>4

LEMMA TokenStepOfRequest ==
  ASSUME RequestInv, NEW q \in Requests, RequestStep(q) \/ Operating(q)
  PROVE  AskInv(q)' /\ AcceptedInv(q)'
<1>1. /\ AskInv(q) /\ AcceptedInv(q) /\ PlaceInv(q) /\ request[q] \in RequestStates
      /\ q \in DOMAIN request /\ now \in Nat
  BY AdmissionAssumption DEF RequestInv, TokenInv, RequestTypes, Moments
<1>2. UNCHANGED <<now, revoked>>
  BY DEF RequestStep, Arrival, Arrive, ArriveAtRest, TurnAway, ReadBody, RejectBody,
     Authentication, IntrospectCached, Introspect, IntrospectionAnswered,
     IntrospectionAccepted, IntrospectionRefused, CheckProfile, RunAsRequest, Accepted,
     Answering, AuditTool, AuditFails, SendHead, Answer, TimeoutFires, Settle,
     Operating, ListPolicies, BeginSearch, EndSearch, SearchFails, Executed
<1> USE <1>1, <1>2 DEF To, RequestStates, At
<1>3. CASE Arrival(q)
  BY <1>3, TokensUntouched DEF Arrival, Arrive, ArriveAtRest, TurnAway, ReadBody, RejectBody
<1>4. CASE IntrospectCached(q) \/ IntrospectionAccepted(q)
  BY <1>4, AcceptStep
<1>5. CASE Introspect(q)
  <2>1. /\ request'[q].ask.asked = now /\ request'[q].pc = "asking"
        /\ request'[q].accepted = request[q].accepted
    BY <1>5 DEF Introspect
  <2> QED BY <2>1 DEF AskInv, AcceptedInv
<1>6. CASE IntrospectionAnswered(q)
  <2>1. request[q].pc = "asking"
    BY <1>6 DEF IntrospectionAnswered
  <2> QED BY <1>6, <2>1, Answered DEF AskInv, AcceptedInv
<1>7. CASE IntrospectionRefused(q) \/ CheckProfile(q) \/ RunAsRequest(q)
  BY <1>7, TokensUntouched DEF IntrospectionRefused, CheckProfile, RunAsRequest
<1>8. CASE AuditTool(q) \/ AuditFails(q)
  BY <1>8, TokensUntouched DEF AuditTool, AuditFails
<1>9. CASE SendHead(q) \/ TimeoutFires(q)
  BY <1>9 DEF SendHead, TimeoutFires, AskInv, AcceptedInv
<1>10. CASE Answer(q)
  BY <1>10, TokensUntouched DEF Answer
<1>11. CASE Operating(q)
  BY <1>11, TokensUntouched DEF Operating, ListPolicies, BeginSearch, EndSearch, SearchFails, Executed
<1> QED BY <1>3, <1>4, <1>5, <1>6, <1>7, <1>8, <1>9, <1>10, <1>11
           DEF RequestStep, Authentication, Answering

(* The cache counts from when it was asked, so an answer that comes after  *)
(* the token was revoked keeps it alive no longer than any other.          *)
LEMMA CacheStep ==
  ASSUME RequestInv, NEW q \in Requests, RequestStep(q) \/ Operating(q), NEW t \in AccessTokens
  PROVE  CacheInv(t)'
<1>1. CASE IntrospectionAccepted(q) /\ t = Bearer(q)
  <2> DEFINE asked == request[q].ask.asked
  <2>1. /\ CacheInv(t) /\ now \in Nat /\ Expiry(t) \in Nat /\ TTL \in Nat /\ cache[t] \in Nat
        /\ revoked[t] \in Nat \cup {None} /\ t \in DOMAIN cache
    BY AdmissionAssumption DEF RequestInv, TokenInv, RequestTypes, Moments
  <2>2. /\ asked \in Nat /\ asked <= now
        /\ revoked[t] # None => asked <= revoked[t]
    BY <1>1, AdmissionAssumption
       DEF RequestInv, TokenInv, IntrospectionAccepted, PlaceInv, AskInv, At, Asks, Moments
  <2>3. cache'[t] = CachedUntil(t, asked) /\ UNCHANGED <<now, revoked>>
    BY <1>1, <2>1 DEF IntrospectionAccepted
  <2>4. /\ CachedUntil(t, asked) <= Expiry(t) /\ CachedUntil(t, asked) <= asked + TTL
        /\ CachedUntil(t, asked) \in Nat
    BY <2>2, CachedUntilBounds
  <2> QED BY <2>1, <2>2, <2>3, <2>4 DEF CacheInv
<1>2. CASE ~(IntrospectionAccepted(q) /\ t = Bearer(q))
  <2>1. cache'[t] = cache[t]
    BY <1>2 DEF RequestInv, RequestTypes,
       RequestStep, Arrival, Arrive, ArriveAtRest, TurnAway, ReadBody, RejectBody,
       Authentication, IntrospectCached, Introspect, IntrospectionAnswered,
       IntrospectionAccepted, IntrospectionRefused, CheckProfile, RunAsRequest,
       Answering, AuditTool, AuditFails, SendHead, Answer, TimeoutFires, Settle,
       Operating, ListPolicies, BeginSearch, EndSearch, SearchFails, Executed
  <2>2. UNCHANGED <<now, revoked>>
    BY DEF RequestStep, Arrival, Arrive, ArriveAtRest, TurnAway, ReadBody, RejectBody,
       Authentication, IntrospectCached, Introspect, IntrospectionAnswered,
       IntrospectionAccepted, IntrospectionRefused, CheckProfile, RunAsRequest,
       Answering, AuditTool, AuditFails, SendHead, Answer, TimeoutFires, Settle,
       Operating, ListPolicies, BeginSearch, EndSearch, SearchFails, Executed
  <2> QED BY <2>1, <2>2 DEF CacheInv, RequestInv, TokenInv
<1> QED BY <1>1, <1>2

LEMMA TokenStepOfTime ==
  ASSUME RequestInv, cast \subseteq Requests, TimeStep
  PROVE  TokenInv'
<1>1. /\ RequestTypes /\ TokenInv /\ TTL \in Nat \ {0} /\ None \notin Nat /\ now \in Nat
      /\ \A t \in AccessTokens : cache[t] \in Nat /\ Expiry(t) \in Nat /\ revoked[t] \in Nat \cup {None}
      /\ \A q \in Requests : Bearer(q) \in AccessTokens
  BY AdmissionAssumption DEF RequestInv, RequestTypes, Moments
<1>2. \A q \in Requests :
        /\ request[q].accepted \in Acceptances \cup {None}
        /\ At(q, "asking") \/ At(q, "asked") => request[q].ask.asked \in Nat
  BY AdmissionAssumption DEF RequestInv, RequestTypes, RequestStates, PlaceInv, Asks, Moments
<1>3. CASE Tick
  <2>1. now' = now + 1 /\ UNCHANGED <<revoked, cache, request>>
    BY <1>3 DEF Tick
  <2>2. ASSUME NEW t \in AccessTokens PROVE CacheInv(t)'
    BY <1>1, <2>1 DEF TokenInv, CacheInv
  <2>3. ASSUME NEW q \in Requests PROVE AskInv(q)'
    BY <1>1, <1>2, <2>1 DEF TokenInv, AskInv, At
  <2>4. ASSUME NEW q \in Requests PROVE AcceptedInv(q)'
    BY <1>1, <1>2, <2>1, AdmissionAssumption DEF TokenInv, AcceptedInv, Acceptances, Moments
  <2> QED BY <2>2, <2>3, <2>4 DEF TokenInv
<1>4. ASSUME NEW r \in cast, Revoke(Bearer(r)) PROVE TokenInv'
  <2>1. /\ \A t \in AccessTokens : revoked'[t] = revoked[t] \/ (revoked[t] = None /\ revoked'[t] = now)
        /\ UNCHANGED <<now, cache, request>>
    BY <1>1, <1>4 DEF Revoke, RequestTypes
  <2>2. ASSUME NEW t \in AccessTokens PROVE CacheInv(t)'
    BY <1>1, <2>1 DEF TokenInv, CacheInv
  <2>3. ASSUME NEW q \in Requests PROVE AskInv(q)'
    BY <1>1, <1>2, <2>1 DEF TokenInv, AskInv, At
  <2>4. ASSUME NEW q \in Requests PROVE AcceptedInv(q)'
    BY <1>1, <1>2, <2>1, AdmissionAssumption DEF TokenInv, AcceptedInv, Acceptances, Moments
  <2> QED BY <2>2, <2>3, <2>4 DEF TokenInv
<1> QED BY <1>3, <1>4 DEF TimeStep

-----------------------------------------------------------------------------
(* Audits and answers.                                                     *)

(* An answer that is written is the first one, or is dropped.              *)
LEMMA Written ==
  ASSUME RequestInv, NEW q \in Requests, NEW s, WriteJson(q, s)
  PROVE  /\ response'[q] = response[q] \/ response'[q] = s
         /\ Ended(q) => response'[q] = response[q]
BY DEF RequestInv, RequestTypes, WriteJson

(* No step before the answer tells of the outcome.                         *)
LEMMA NothingTold ==
  ASSUME RequestInv, NEW q \in Requests, Arrival(q) \/ Authentication(q) \/ Operating(q) \/ AuditTool(q)
           \/ AuditFails(q) \/ SendHead(q) \/ TimeoutFires(q)
  PROVE  response'[q] = response[q] \/ response'[q] \notin {"success", "error"}
<1>1. /\ response \in [Requests -> Statuses]
      /\ \A s : WriteJson(q, s) => response'[q] = response[q] \/ response'[q] = s
  BY Written DEF RequestInv, RequestTypes
<1>2. CASE Arrival(q)
  BY <1>1, <1>2 DEF Arrival, Arrive, ArriveAtRest, TurnAway, ReadBody, RejectBody
<1>3. CASE Authentication(q)
  BY <1>1, <1>3 DEF Authentication, IntrospectCached, Introspect, IntrospectionAnswered,
     IntrospectionAccepted, IntrospectionRefused, CheckProfile, RunAsRequest, Settle
<1>4. CASE AuditTool(q) \/ AuditFails(q) \/ SendHead(q) \/ TimeoutFires(q)
  BY <1>1, <1>4 DEF AuditTool, AuditFails, SendHead, TimeoutFires, TimeoutAnswer
<1>5. CASE Operating(q)
  BY <1>5 DEF Operating, ListPolicies, BeginSearch, EndSearch, SearchFails, Executed
<1> QED BY <1>2, <1>3, <1>4, <1>5

LEMMA AuditStep ==
  ASSUME RequestInv, NEW q \in Requests, RequestStep(q) \/ Operating(q)
  PROVE  AuditInv(q)'
<1>1. /\ AuditInv(q) /\ PlaceInv(q) /\ request[q] \in RequestStates /\ q \in DOMAIN request
      /\ q \in DOMAIN audits /\ q \in DOMAIN response
  BY DEF RequestInv, RequestTypes
<1> USE <1>1 DEF To, RequestStates, At, AuditInv
<1>2. CASE Arrival(q)
  <2>1. audits' = audits /\ request[q].pc \in {"idle", "body"}
    BY <1>2 DEF Arrival, Arrive, ArriveAtRest, TurnAway, ReadBody, RejectBody
  <2>2. request'[q].pc # "answer"
    BY <1>2 DEF Arrival, Arrive, ArriveAtRest, TurnAway, ReadBody, RejectBody
  <2> QED BY <1>2, <2>1, <2>2, NothingTold
<1>3. CASE Authentication(q)
  <2>1. audits' = audits /\ request[q].pc \notin {"answer", "over"}
    BY <1>3 DEF Authentication, IntrospectCached, Introspect, IntrospectionAnswered,
       IntrospectionAccepted, IntrospectionRefused, CheckProfile, RunAsRequest, Settle, Introspecting
  <2>2. request'[q].pc # "answer"
    BY <1>3, Answered DEF Authentication, IntrospectCached, Introspect, IntrospectionAccepted,
       IntrospectionRefused, CheckProfile, RunAsRequest, Accepted, AfterToken
  <2> QED BY <1>3, <2>1, <2>2, NothingTold
<1>4. CASE Operating(q)
  <2>1. /\ audits' = audits /\ request[q].pc \in {"tool", "searching"}
        /\ request'[q].pc = "answer" => Route(q) # "mcp"
        /\ request'[q].pc # "over"
    BY <1>4 DEF Operating, ListPolicies, BeginSearch, EndSearch, SearchFails, Executed, MayExecute
  <2> QED BY <1>4, <2>1, NothingTold
<1>5. CASE AuditTool(q)
  <2>1. /\ audits[q] = <<>> /\ audits'[q] = Append(audits[q], request[q].outcome)
        /\ request'[q].outcome = request[q].outcome /\ request'[q].pc = "answer"
        /\ response' = response
    BY <1>5 DEF AuditTool
  <2>2. Append(<<>>, request[q].outcome) = <<request[q].outcome>>
    OBVIOUS
  <2> QED BY <1>5, <2>1, <2>2 DEF AuditTool
<1>6. CASE AuditFails(q)
  BY <1>6 DEF AuditFails
<1>7. CASE SendHead(q) \/ TimeoutFires(q)
  <2>1. UNCHANGED <<request, audits>>
    BY <1>7 DEF SendHead, TimeoutFires
  <2> QED BY <1>7, <2>1, NothingTold
<1>8. CASE Answer(q)
  <2>1. request[q].pc = "answer" /\ request'[q].pc = "over" /\ audits' = audits
    BY <1>8 DEF Answer, Settle
  <2>2. \/ response'[q] = response[q]
        \/ response'[q] = IF Route(q) = "mcp" \/ request[q].outcome = "success"
                          THEN request[q].outcome ELSE "500"
    BY <1>8, Written DEF Answer, Settle
  <2> QED BY <2>1, <2>2
<1> QED BY <1>2, <1>3, <1>4, <1>5, <1>6, <1>7, <1>8 DEF RequestStep, Answering

-----------------------------------------------------------------------------
(* Principals.                                                             *)

LEMMA CallerStep ==
  ASSUME RequestInv, NEW q \in Requests,
         (RequestStep(q) /\ UNCHANGED retrievalVars) \/ Operating(q)
  PROVE  CallerInv(q)'
<1>1. /\ CallerInv(q) /\ request[q] \in RequestStates /\ q \in DOMAIN request
      /\ q \in DOMAIN slot /\ DOMAIN search = Searchers
  BY DEF RequestInv, RequestTypes
<1> USE <1>1 DEF To, RequestStates, At, CallerInv
<1>2. CASE RequestStep(q) /\ UNCHANGED retrievalVars
  <2>1. search' = search
    BY <1>2 DEF retrievalVars
  <2>2. CASE RunAsRequest(q)
    BY <2>2 DEF RunAsRequest, Context
  <2>3. CASE Arrival(q)
    BY <2>3 DEF Arrival, Arrive, ArriveAtRest, TurnAway, ReadBody, RejectBody
  <2>4. CASE IntrospectionAnswered(q)
    BY <2>4 DEF IntrospectionAnswered
  <2>5. CASE IntrospectCached(q) \/ Introspect(q) \/ IntrospectionAccepted(q)
    BY <2>5 DEF IntrospectCached, Introspect, IntrospectionAccepted, Accepted, AfterToken
  <2>6. CASE IntrospectionRefused(q) \/ CheckProfile(q)
    BY <2>6 DEF IntrospectionRefused, CheckProfile
  <2>7. CASE AuditTool(q) \/ AuditFails(q)
    BY <2>7 DEF AuditTool, AuditFails
  <2>8. CASE SendHead(q) \/ TimeoutFires(q)
    BY <2>1, <2>8 DEF SendHead, TimeoutFires
  <2>9. CASE Answer(q)
    BY <2>9 DEF Answer
  <2> QED BY <1>2, <2>2, <2>3, <2>4, <2>5, <2>6, <2>7, <2>8, <2>9
             DEF RequestStep, Authentication, Answering
<1>3. CASE ListPolicies(q)
  <2>1. PICK outcome \in {"success", "error"} : Executed(q, outcome, Current(q))
    BY <1>3 DEF ListPolicies
  <2>2. Current(q) = Principal(Bearer(q))
    BY <1>3 DEF ListPolicies, MayExecute, Current, Context
  <2>3. request'[q].by = Current(q) /\ request'[q].pc \in {"audit", "answer"}
    BY <2>1 DEF Executed
  <2> QED BY <2>2, <2>3
<1>4. CASE BeginSearch(q)
  <2>1. q \in Searchers
    BY <1>4, ServingAssumption DEF BeginSearch
  <2>2. /\ "principal" \in DOMAIN search'[q] /\ search'[q].principal = slot[q]
    BY <1>4, <2>1 DEF BeginSearch, Begin, Current, Context
  <2> QED BY <1>4, <2>1, <2>2 DEF BeginSearch, MayExecute
<1>5. CASE EndSearch(q) \/ SearchFails(q)
  BY <1>5 DEF EndSearch, SearchFails, Executed
<1> QED BY <1>2, <1>3, <1>4, <1>5 DEF Operating

-----------------------------------------------------------------------------
(* The invariant of the requests.                                          *)

LEMMA Untouched ==
  ASSUME NEW r, request'[r] = request[r], slot'[r] = slot[r], timer'[r] = timer[r],
         response'[r] = response[r], audits'[r] = audits[r], PlaceInv(r), AuditInv(r)
  PROVE  PlaceInv(r)' /\ AuditInv(r)'
BY DEF PlaceInv, AuditInv, At

LEMMA CallerUntouched ==
  ASSUME NEW r, request'[r] = request[r], slot'[r] = slot[r], CallerInv(r),
         r \in Searchers /\ "principal" \in DOMAIN search[r] =>
           "principal" \in DOMAIN search'[r] /\ search'[r].principal = search[r].principal
  PROVE  CallerInv(r)'
BY DEF CallerInv, At

LEMMA RequestStepKeeps ==
  ASSUME RequestInv, NEW q \in Requests, RequestTypes',
         (RequestStep(q) /\ UNCHANGED retrievalVars) \/ Operating(q)
  PROVE  RequestInv'
<1>1. ASSUME NEW r \in Requests, r # q
      PROVE  PlaceInv(r)' /\ AuditInv(r)' /\ CallerInv(r)' /\ AskInv(r)' /\ AcceptedInv(r)'
  <2>1. /\ request'[r] = request[r] /\ slot'[r] = slot[r] /\ timer'[r] = timer[r]
        /\ response'[r] = response[r] /\ audits'[r] = audits[r]
    BY <1>1, Others
  <2>2. PlaceInv(r) /\ AuditInv(r) /\ CallerInv(r) /\ AskInv(r) /\ AcceptedInv(r) /\ RequestTypes
    BY DEF RequestInv, TokenInv
  <2>3. r \in Searchers => search'[r] = search[r]
    BY <1>1, <2>2 DEF RequestTypes, retrievalVars, Operating, ListPolicies, BeginSearch, EndSearch,
       SearchFails, Begin
  <2>4. UNCHANGED <<now, revoked>>
    BY DEF RequestStep, Arrival, Arrive, ArriveAtRest, TurnAway, ReadBody, RejectBody,
       Authentication, IntrospectCached, Introspect, IntrospectionAnswered,
       IntrospectionAccepted, IntrospectionRefused, CheckProfile, RunAsRequest,
       Answering, AuditTool, AuditFails, SendHead, Answer, TimeoutFires, Settle,
       Operating, ListPolicies, BeginSearch, EndSearch, SearchFails, Executed
  <2>5. AskInv(r)' /\ AcceptedInv(r)'
    BY <2>1, <2>2, <2>4 DEF AskInv, AcceptedInv, At
  <2> QED BY <2>1, <2>2, <2>3, <2>5, Untouched, CallerUntouched
<1>2. PlaceInv(q)' /\ AuditInv(q)' /\ CallerInv(q)' /\ AskInv(q)' /\ AcceptedInv(q)'
  BY PlaceStep, AuditStep, CallerStep, TokenStepOfRequest
<1>3. \A t \in AccessTokens : CacheInv(t)'
  BY CacheStep
<1> QED BY <1>1, <1>2, <1>3 DEF RequestInv, TokenInv

LEMMA RequestsUntouched ==
  ASSUME RequestInv, UNCHANGED <<request, slot, timer, response, audits>>,
         RequestTypes', TokenInv', SearchesKept
  PROVE  RequestInv'
<1>1. ASSUME NEW r \in Requests PROVE PlaceInv(r)' /\ AuditInv(r)' /\ CallerInv(r)'
  BY Untouched, CallerUntouched DEF RequestInv, SearchesKept
<1> QED BY <1>1 DEF RequestInv

LEMMA NextKeeps ==
  ASSUME RequestInv, cast \subseteq Requests, [Next]_vars
  PROVE  RequestInv'
<1>1. RequestTypes' /\ DOMAIN search = Searchers
  BY StepTypes DEF RequestInv, RequestTypes
<1>2. UNCHANGED admissionVars => TokenInv'
  BY DEF RequestInv, TokenInv, CacheInv, AskInv, AcceptedInv, At, admissionVars
<1>3. UNCHANGED search => SearchesKept
  BY <1>1 DEF SearchesKept
<1>4. ASSUME NEW q \in cast, RequestStep(q) /\ UNCHANGED retrievalVars PROVE RequestInv'
  BY <1>1, <1>4, RequestStepKeeps
<1>5. ASSUME NEW q \in cast, Operating(q) PROVE RequestInv'
  BY <1>1, <1>5, RequestStepKeeps
<1>6. ASSUME NEW q \in cast \cap Searchers, SearchStep(q), UNCHANGED admissionVars
      PROVE  RequestInv'
  BY <1>1, <1>2, <1>6, SearchStepKeeps, RequestsUntouched DEF admissionVars
<1>7. CASE KnowledgeStep /\ UNCHANGED admissionVars
  BY <1>1, <1>2, <1>3, <1>7, KnowledgeKeeps, RequestsUntouched DEF admissionVars
<1>8. CASE TimeStep /\ UNCHANGED retrievalVars
  <2>1. UNCHANGED <<request, slot, timer, response, audits, search>>
    BY <1>8 DEF TimeStep, Tick, Revoke, retrievalVars
  <2> QED BY <1>1, <1>3, <1>8, <2>1, TokenStepOfTime, RequestsUntouched
<1>9. CASE UNCHANGED vars
  BY <1>1, <1>2, <1>3, <1>9, RequestsUntouched DEF vars, admissionVars, retrievalVars
<1> QED BY <1>4, <1>5, <1>6, <1>7, <1>8, <1>9 DEF Next

LEMMA RequestsAreWell == Spec => [](RequestInv /\ cast \subseteq Requests)
<1>1. RequestInv /\ cast \subseteq Requests /\ [Next]_vars => RequestInv'
  BY NextKeeps
<1> QED BY <1>1, InitRequests, CastIsRequests, PTL DEF Spec

(* A token is accepted only if it was valid less than the time to live     *)
(* before, or after the authorization server was asked for this request,   *)
(* for every time to live, expiry and number of requests.                  *)
THEOREM AcceptedWereValid == Spec => []AcceptedTokensWereValid
<1>1. RequestInv => AcceptedTokensWereValid
  BY DEF RequestInv, TokenInv, AcceptedInv, AcceptedTokensWereValid
<1> QED BY <1>1, RequestsAreWell, PTL

(* Whatever is answered for a tool was audited before as what it is told   *)
(* to be, also when the sink of the audit events fails.                    *)
THEOREM AnswersAudited == Spec => []AnswersAreAudited
<1>1. RequestInv => AnswersAreAudited
  BY DEF RequestInv, AuditInv, AnswersAreAudited
<1> QED BY <1>1, RequestsAreWell, PTL

(* Any number of requests at the same time act each in the name of the     *)
(* principal of its own token.                                             *)
THEOREM CallersKept == Spec => []AnswersAreForTheCaller
<1>1. RequestInv => AnswersAreForTheCaller
  BY DEF RequestInv, CallerInv, AnswersAreForTheCaller
<1> QED BY <1>1, RequestsAreWell, PTL

(* The timeout and the handler may both have an answer for a request: it   *)
(* is answered once.                                                       *)
THEOREM AnsweredOnce == Spec => OneAnswer
<1>1. ASSUME RequestInv, cast \subseteq Requests, [Next]_vars, NEW r \in Requests, Ended(r)
      PROVE  response'[r] = response[r]
  <2> DEFINE Kept == response'[r] = response[r]
  <2>1. \A s : WriteJson(r, s) => Kept
    BY <1>1, Written
  <2>2. ASSUME NEW q \in cast, RequestStep(q) PROVE Kept
    <3>1. CASE q # r
      BY <1>1, <2>2, <3>1, Others
    <3>2. CASE Arrival(r)
      BY <2>1, <3>2 DEF Arrival, Arrive, ArriveAtRest, TurnAway, ReadBody, RejectBody
    <3>3. CASE Authentication(r)
      BY <2>1, <3>3 DEF Authentication, IntrospectCached, Introspect, IntrospectionAnswered,
         IntrospectionAccepted, IntrospectionRefused, CheckProfile, RunAsRequest, Settle
    <3>4. CASE AuditTool(r) \/ AuditFails(r) \/ Answer(r)
      BY <2>1, <3>4 DEF AuditTool, AuditFails, Answer, Settle
    <3>5. CASE SendHead(r) \/ TimeoutFires(r)
      BY <1>1, <3>5 DEF SendHead, TimeoutFires, Ended, RequestInv, RequestTypes
    <3> QED BY <2>2, <3>1, <3>2, <3>3, <3>4, <3>5 DEF RequestStep, Answering
  <2>3. ASSUME NEW q \in cast, Operating(q) PROVE Kept
    BY <2>3 DEF Operating, ListPolicies, BeginSearch, EndSearch, SearchFails, Executed
  <2>4. CASE UNCHANGED admissionVars
    BY <2>4 DEF admissionVars
  <2>5. CASE TimeStep
    BY <2>5 DEF TimeStep, Tick, Revoke
  <2> QED BY <1>1, <2>2, <2>3, <2>4, <2>5 DEF Next, vars
<1>2. RequestInv /\ cast \subseteq Requests /\ [Next]_vars
        => [\A q \in Requests : Ended(q) => response'[q] = response[q]]_vars
  BY <1>1
<1> QED BY <1>2, RequestsAreWell, PTL DEF Spec, OneAnswer

-----------------------------------------------------------------------------
(* The knowledge: what has no pending change is in the projection as it is. *)

Changes == [claim : Claims, status : {"asserted", "retracted"}]

Truth == [c \in Claims |-> Shown(status[c])]

KnowledgeInv ==
  /\ status \in [Claims -> {"absent", "asserted", "retracted"}]
  /\ changes \in Seq(Changes)
  /\ pending \subseteq DOMAIN changes
  /\ rows \in [Claims -> {"asserted", None}]
  /\ \A c \in Claims \ Dirty : rows[c] = Shown(status[c])

LEMMA ShownTypes ==
  ASSUME status \in [Claims -> {"absent", "asserted", "retracted"}]
  PROVE  Truth \in [Claims -> {"asserted", None}]
BY DEF Truth, Shown, Visible

LEMMA DirtyTypes == KnowledgeInv => Dirty \subseteq Claims
<1> SUFFICES ASSUME KnowledgeInv, NEW n \in pending PROVE changes[n].claim \in Claims
  BY DEF Dirty
<1>1. changes[n] \in Changes
  BY DEF KnowledgeInv
<1> QED BY <1>1 DEF Changes

LEMMA InitKnowledge == Init => KnowledgeInv
BY ShownTypes DEF Init, RetrievalInit, KnowledgeInv, Dirty, Truth, Shown, Visible

(* A change makes its claim dirty, and leaves dirty what was.              *)
LEMMA ChangeStep ==
  ASSUME KnowledgeInv, NEW c \in Claims, NEW state \in {"asserted", "retracted"}, Change(c, state)
  PROVE  KnowledgeInv' /\ Index!Change
<1> DEFINE last == Len(changes) + 1
<1>1. /\ status' = [status EXCEPT ![c] = state] /\ rows' = rows
      /\ changes' = Append(changes, [claim |-> c, status |-> state])
      /\ pending' = pending \cup {last}
  BY DEF Change
<1>2. [claim |-> c, status |-> state] \in Changes
  BY DEF Changes
<1>3. /\ changes' \in Seq(Changes) /\ DOMAIN changes' = 1..last /\ changes'[last].claim = c
      /\ \A n \in DOMAIN changes : changes'[n] = changes[n]
      /\ DOMAIN changes = 1..Len(changes) /\ Len(changes) \in Nat
  BY <1>1, <1>2 DEF KnowledgeInv
<1>4. pending' \subseteq DOMAIN changes'
  BY <1>1, <1>3 DEF KnowledgeInv
<1>5. Dirty \subseteq Dirty' /\ c \in Dirty'
  <2>1. ASSUME NEW n \in pending PROVE changes[n].claim \in Dirty'
    BY <1>1, <1>3, <2>1 DEF Dirty, KnowledgeInv
  <2>2. c \in Dirty'
    BY <1>1, <1>3 DEF Dirty
  <2> QED BY <2>1, <2>2 DEF Dirty
<1>6. status' \in [Claims -> {"absent", "asserted", "retracted"}]
  BY <1>1 DEF KnowledgeInv
<1>7. \A d \in Claims \ Dirty' : status'[d] = status[d]
  BY <1>1, <1>5 DEF KnowledgeInv
<1>8. \A d \in Claims \ Dirty' : rows'[d] = Shown(status'[d])
  BY <1>1, <1>5, <1>7 DEF KnowledgeInv
<1>9. KnowledgeInv'
  BY <1>1, <1>3, <1>4, <1>6, <1>8 DEF KnowledgeInv
<1>10. Dirty' \subseteq Claims
  <2>1. ASSUME NEW n \in pending' PROVE changes'[n].claim \in Claims
    <3>1. changes'[n] \in Changes
      BY <1>3, <1>4
    <3> QED BY <3>1 DEF Changes
  <2> QED BY <2>1 DEF Dirty
<1>11. Truth' \in [Claims -> {"asserted", None}]
  BY <1>6, ShownTypes DEF Truth, Shown, Visible
<1>12. \A d \in Claims : Truth'[d] # Truth[d] => d \in Dirty'
  BY <1>7 DEF Truth
<1> QED BY <1>1, <1>5, <1>9, <1>10, <1>11, <1>12 DEF Index!Change, Truth

(* A synchronisation marks a claim's changes all together, and its row is  *)
(* then that of the moment.                                                *)
LEMMA SyncStep ==
  ASSUME KnowledgeInv, Sync
  PROVE  KnowledgeInv' /\ Index!Refresh
<1>1. PICK done \in (SUBSET pending) \ {{}} :
        LET about == {changes[n].claim : n \in done}
            also == {n \in pending : changes[n].claim \in about}
        IN  /\ done = also
            /\ rows' = [c \in Claims |-> IF c \in about THEN Shown(status[c]) ELSE rows[c]]
            /\ pending' = pending \ done
            /\ UNCHANGED <<status, changes>>
  BY DEF Sync, Processed
<1> DEFINE about == {changes[n].claim : n \in done}
<1>2. UNCHANGED <<status, changes>> /\ pending' \subseteq pending
  BY <1>1
<1>3. Truth \in [Claims -> {"asserted", None}]
  BY ShownTypes DEF KnowledgeInv
<1>4. \A c \in Claims : rows'[c] = IF c \in about THEN Shown(status[c]) ELSE rows[c]
  BY <1>1
<1>5. rows' \in [Claims -> {"asserted", None}]
  BY <1>1, <1>3 DEF KnowledgeInv, Truth
<1>6. \A c \in Dirty : c \in Dirty' \/ c \in about
  BY <1>1, <1>2 DEF Dirty
<1>7. \A c \in Claims \ Dirty' : rows'[c] = Shown(status[c])
  BY <1>4, <1>6 DEF KnowledgeInv
<1>8. KnowledgeInv'
  BY <1>2, <1>5, <1>7 DEF KnowledgeInv
<1>9. Dirty' \subseteq Claims
  BY <1>2, DirtyTypes DEF Dirty
<1>10. Truth' = Truth
  BY <1>2 DEF Truth, Shown, Visible
<1> QED BY <1>5, <1>7, <1>8, <1>9, <1>10 DEF Index!Refresh, Truth

LEMMA SearchLeavesKnowledge == ASSUME NEW s, SearchStep(s) PROVE UNCHANGED knowledge
BY DEF SearchStep, GateEvents, GateMarks, ProjectionFails, SearchProjectionLexical,
   SearchProjectionVector, SearchLexicalIds, SearchLexicalRead, SearchLexicalAtOnce,
   RankClaimsLexically, SearchCanonicalVector, BeginGraph, SeedGraph, SeedGraphEntities,
   GraphRowsForEntity, GraphHop, SearchCanonicalGraph, ReadResolutions, ReciprocalRankFuse,
   FallbackCandidates, AuthorizeHits

LEMMA KnowledgeNext ==
  ASSUME KnowledgeInv, [Next]_vars
  PROVE  KnowledgeInv' /\ [Index!Next]_<<Truth, Dirty, rows>>
<1>1. CASE UNCHANGED <<status, changes, pending, rows>>
  BY <1>1 DEF KnowledgeInv, Dirty, Truth, Shown, Visible
<1>2. CASE Sync
  BY <1>2, SyncStep DEF Index!Next
<1>3. ASSUME NEW c \in Changing, AssertClaim(c) \/ RetractClaim(c)
      PROVE  KnowledgeInv' /\ Index!Next
  BY <1>3, ChangeStep, RetrievalAssumption DEF AssertClaim, RetractClaim, Index!Next
<1>4. CASE Resolve
  BY <1>1, <1>4 DEF Resolve
<1>5. CASE \E q \in cast : RequestStep(q) /\ UNCHANGED <<retrievalVars, cast>>
  BY <1>1, <1>5 DEF retrievalVars, knowledge
<1>6. CASE \E q \in cast : Operating(q)
  BY <1>1, <1>6 DEF Operating, ListPolicies, BeginSearch, EndSearch, SearchFails, retrievalVars,
     knowledge
<1>7. CASE \E q \in cast \cap Searchers : SearchStep(q)
  BY <1>1, <1>7, SearchLeavesKnowledge DEF knowledge
<1>8. CASE UNCHANGED retrievalVars
  BY <1>1, <1>8 DEF retrievalVars, knowledge
<1> QED BY <1>2, <1>3, <1>4, <1>5, <1>6, <1>7, <1>8 DEF Next, KnowledgeStep, vars

LEMMA KnowledgeIsWell == Spec => []KnowledgeInv
<1>1. KnowledgeInv /\ [Next]_vars => KnowledgeInv'
  BY KnowledgeNext
<1> QED BY <1>1, InitKnowledge, PTL DEF Spec

(* The projection the searches of the server read, for any claims and any  *)
(* number of changes, is an eventually consistent index: a row without a   *)
(* pending change shows the claim as it is.                                *)
THEOREM IndexConsistent == Spec => IndexIsConsistent
<1>1. KnowledgeInv /\ [Next]_vars => [Index!Next]_<<[c \in Claims |-> Shown(status[c])], Dirty, rows>>
  BY KnowledgeNext DEF Truth
<1> QED BY <1>1, KnowledgeIsWell, PTL DEF Spec, IndexIsConsistent

(* Every variable has its type; only an MCP request has a timer, and only  *)
(* while its handler runs.                                                 *)
THEOREM TypeCorrect == Spec => []TypeOK
<1>1. RequestInv /\ KnowledgeInv => TypeOK
  <2> SUFFICES ASSUME RequestInv, KnowledgeInv PROVE TypeOK
    OBVIOUS
  <2>1. ASSUME NEW t \in AccessTokens PROVE cache[t] \in 0..(MaxTime + TTL)
    BY AdmissionAssumption DEF RequestInv, RequestTypes, TokenInv, CacheInv, Moments
  <2>2. cache \in [AccessTokens -> 0..(MaxTime + TTL)]
    BY <2>1 DEF RequestInv, RequestTypes
  <2>3. \A q \in Requests :
          timer[q] = "on" => Route(q) = "mcp" /\ ~(request[q].pc \in {"idle", "body", "over"})
    BY DEF RequestInv, PlaceInv
  <2> QED BY <2>2, <2>3 DEF TypeOK, RequestInv, RequestTypes, KnowledgeInv
<1> QED BY <1>1, RequestsAreWell, KnowledgeIsWell, PTL

-----------------------------------------------------------------------------
(* The rate. What is said of the requests let in with a token is said of a *)
(* set of requests and of when each was let in.                            *)

Between(let, at, m, n) == {q \in let : at[q] \in m..n}

From(let, at, m) == {q \in let : at[q] >= m}

(* A bucket begins with a request let in. What was let in since is not     *)
(* more than was counted, nor than the maximum; what was let in less than  *)
(* a window before is less than the maximum, since it does not include the *)
(* request with which the bucket before began.                             *)
RateInv(let, at, bucket, time) ==
  /\ IsFiniteSet(let)
  /\ \A q \in let : at[q] \in Nat /\ at[q] <= time
  /\ bucket.count \in Nat /\ bucket.resetAt \in Nat
  /\ bucket.resetAt = 0 => let = {}
  /\ bucket.resetAt # 0 =>
       LET start == bucket.resetAt - Window
       IN  /\ start \in 0..time
           /\ \A q \in let : at[q] < bucket.resetAt
           /\ Cardinality(From(let, at, start)) <= bucket.count
           /\ Cardinality(From(let, at, start)) <= RateMax
           /\ \E q \in let : at[q] = start
           /\ \A first \in Nat :
                first > start - Window => Cardinality(Between(let, at, first, start - 1)) <= RateMax - 1
  /\ \A first \in Nat :
       Cardinality(Between(let, at, first, first + Window - 1)) <= 2 * RateMax - 1

LEMMA PartsAreFinite ==
  ASSUME NEW let, IsFiniteSet(let), NEW at
  PROVE  /\ \A m, n : IsFiniteSet(Between(let, at, m, n))
         /\ \A m : IsFiniteSet(From(let, at, m))
BY FS_Subset DEF Between, From

(* One more request, let in now.                                           *)
CountsOneMore(let, at, q, late) ==
  /\ IsFiniteSet(let \cup {q})
  /\ \A m, n \in Int : ~(late[q] \in m..n) => Between(let \cup {q}, late, m, n) = Between(let, at, m, n)
  /\ \A m, n \in Int : late[q] \in m..n =>
       Cardinality(Between(let \cup {q}, late, m, n)) = Cardinality(Between(let, at, m, n)) + 1
  /\ \A m \in Int : late[q] >= m =>
       Cardinality(From(let \cup {q}, late, m)) = Cardinality(From(let, at, m)) + 1

LEMMA OneMore ==
  ASSUME NEW let, IsFiniteSet(let), NEW at, NEW q, q \notin let, NEW late, late[q] \in Nat,
         \A r \in let : late[r] = at[r]
  PROVE  CountsOneMore(let, at, q, late)
<1>1. IsFiniteSet(let \cup {q})
  BY FS_AddElement
<1>2. ASSUME NEW m \in Int, NEW n \in Int, ~(late[q] \in m..n)
      PROVE  Between(let \cup {q}, late, m, n) = Between(let, at, m, n)
  BY <1>2 DEF Between
<1>3. ASSUME NEW m \in Int, NEW n \in Int, late[q] \in m..n
      PROVE  Cardinality(Between(let \cup {q}, late, m, n)) = Cardinality(Between(let, at, m, n)) + 1
  <2>1. Between(let \cup {q}, late, m, n) = Between(let, at, m, n) \cup {q}
    BY <1>3 DEF Between
  <2>2. q \notin Between(let, at, m, n)
    BY DEF Between
  <2> QED BY <2>1, <2>2, PartsAreFinite, FS_AddElement
<1>4. ASSUME NEW m \in Int, late[q] >= m
      PROVE  Cardinality(From(let \cup {q}, late, m)) = Cardinality(From(let, at, m)) + 1
  <2>1. From(let \cup {q}, late, m) = From(let, at, m) \cup {q}
    BY <1>4 DEF From
  <2>2. q \notin From(let, at, m)
    BY DEF From
  <2> QED BY <2>1, <2>2, PartsAreFinite, FS_AddElement
<1> QED BY <1>1, <1>2, <1>3, <1>4 DEF CountsOneMore

(* A bucket that is over: the request begins the next one.                 *)
LEMMA FirstOfBucket ==
  ASSUME NEW let, NEW at, NEW bucket, NEW time \in Nat, RateInv(let, at, bucket, time),
         bucket.resetAt <= time,
         NEW q, q \notin let, NEW late, late[q] = time, \A r \in let : late[r] = at[r]
  PROVE  RateInv(let \cup {q}, late, [count |-> 1, resetAt |-> time + Window], time)
<1> DEFINE more == let \cup {q}
           next == [count |-> 1, resetAt |-> time + Window]
<1>1. Window \in Nat \ {0} /\ RateMax \in Nat \ {0} /\ IsFiniteSet(let)
  BY AdmissionAssumption DEF RateInv
<1>0. CountsOneMore(let, at, q, late)
  BY <1>1, OneMore
<1>2. IsFiniteSet(more) /\ \A r \in more : late[r] \in Nat /\ late[r] <= time
  <2>1. \A r \in let : at[r] \in Nat /\ at[r] <= time
    BY DEF RateInv
  <2> QED BY <1>0, <2>1 DEF CountsOneMore
<1>3. \A m, n : Cardinality(Between(let, at, m, n)) \in Nat
  BY <1>1, PartsAreFinite, FS_CardinalityType
<1>4. ASSUME NEW first \in Nat, NEW last \in Int, first > time - Window
      PROVE  Cardinality(Between(let, at, first, last)) <= RateMax - 1
  <2>1. CASE let = {}
    <3>1. Between(let, at, first, last) = {}
      BY <2>1 DEF Between
    <3> QED BY <1>1, <3>1, FS_EmptySet
  <2>2. CASE let # {}
    <3> DEFINE start == bucket.resetAt - Window
    <3>1. bucket.resetAt # 0 /\ start \in 0..time /\ Cardinality(From(let, at, start)) <= RateMax
      BY <2>2 DEF RateInv
    <3>2. PICK r \in let : at[r] = start
      BY <2>2, <3>1 DEF RateInv
    <3>3. first > start
      BY <1>1, <1>4, <3>1 DEF RateInv
    <3>4. r \in From(let, at, start) /\ Between(let, at, first, last) \subseteq From(let, at, start) \ {r}
      BY <3>1, <3>2, <3>3 DEF Between, From, RateInv
    <3>5. IsFiniteSet(From(let, at, start))
      BY <1>1, PartsAreFinite
    <3>6. /\ IsFiniteSet(From(let, at, start) \ {r})
          /\ Cardinality(From(let, at, start) \ {r}) = Cardinality(From(let, at, start)) - 1
      BY <3>4, <3>5, FS_RemoveElement
    <3>7. Cardinality(Between(let, at, first, last)) <= Cardinality(From(let, at, start) \ {r})
      BY <3>4, <3>6, FS_Subset
    <3> QED BY <1>1, <1>3, <3>1, <3>5, <3>6, <3>7, FS_CardinalityType
  <2> QED BY <2>1, <2>2
<1>5. Cardinality(From(more, late, time)) = 1
  <2>1. \A r \in let : at[r] < time
    BY DEF RateInv
  <2>2. From(let, at, time) = {}
    BY <2>1 DEF From, RateInv
  <2>3. Cardinality(From(more, late, time)) = Cardinality(From(let, at, time)) + 1
    BY <1>1, <1>0 DEF CountsOneMore
  <2> QED BY <2>2, <2>3, FS_EmptySet
<1>6. ASSUME NEW first \in Nat, first > time - Window
      PROVE  Cardinality(Between(more, late, first, time - 1)) <= RateMax - 1
  <2>1. ~(time \in first..(time - 1)) /\ time - 1 \in Int /\ first \in Int
    OBVIOUS
  <2>2. Between(more, late, first, time - 1) = Between(let, at, first, time - 1)
    BY <1>1, <2>1, <1>0 DEF CountsOneMore
  <2> QED BY <1>4, <1>6, <2>1, <2>2
<1>7. ASSUME NEW first \in Nat
      PROVE  Cardinality(Between(more, late, first, first + Window - 1)) <= 2 * RateMax - 1
  <2> DEFINE last == first + Window - 1
  <2>0. last \in Int /\ first \in Int
    BY <1>1
  <2>1. CASE time \in first..last
    <3>1. first > time - Window
      BY <1>1, <2>1
    <3>2. Cardinality(Between(let, at, first, last)) <= RateMax - 1
      BY <1>4, <2>0, <3>1
    <3>3. Cardinality(Between(more, late, first, last)) = Cardinality(Between(let, at, first, last)) + 1
      BY <1>1, <2>0, <2>1, <1>0 DEF CountsOneMore
    <3> QED BY <1>1, <1>3, <3>2, <3>3
  <2>2. CASE ~(time \in first..last)
    <3>1. Between(more, late, first, last) = Between(let, at, first, last)
      BY <1>1, <2>0, <2>2, <1>0 DEF CountsOneMore
    <3> QED BY <3>1 DEF RateInv
  <2> QED BY <2>1, <2>2
<1>8. /\ next.count = 1 /\ next.resetAt = time + Window /\ next.resetAt # 0
      /\ next.resetAt - Window = time
  BY <1>1
<1>9. \A r \in more : late[r] < next.resetAt
  BY <1>1, <1>2
<1> HIDE DEF next, more
<1>10. \E r \in more : late[r] = time
  BY DEF more
<1>11. RateInv(more, late, next, time)
  BY <1>1, <1>2, <1>5, <1>6, <1>7, <1>8, <1>9, <1>10 DEF RateInv
<1> QED BY <1>11 DEF next, more

(* A bucket that is not over and not yet full takes one more.              *)
LEMMA NextOfBucket ==
  ASSUME NEW let, NEW at, NEW bucket, NEW time \in Nat, RateInv(let, at, bucket, time),
         ~(bucket.resetAt <= time), bucket.count + 1 <= RateMax,
         NEW next, next.count = bucket.count + 1, next.resetAt = bucket.resetAt,
         NEW q, q \notin let, NEW late, late[q] = time, \A r \in let : late[r] = at[r]
  PROVE  RateInv(let \cup {q}, late, next, time)
<1> DEFINE more == let \cup {q}
           start == bucket.resetAt - Window
<1>1. Window \in Nat \ {0} /\ RateMax \in Nat \ {0} /\ IsFiniteSet(let)
  BY AdmissionAssumption DEF RateInv
<1>0. CountsOneMore(let, at, q, late)
  BY <1>1, OneMore
<1>2. IsFiniteSet(more) /\ \A r \in more : late[r] \in Nat /\ late[r] <= time
  <2>1. \A r \in let : at[r] \in Nat /\ at[r] <= time
    BY DEF RateInv
  <2> QED BY <1>0, <2>1 DEF CountsOneMore
<1>3. \A m, n : Cardinality(Between(let, at, m, n)) \in Nat
  BY <1>1, PartsAreFinite, FS_CardinalityType
<1>4. \A m : Cardinality(From(let, at, m)) \in Nat
  BY <1>1, PartsAreFinite, FS_CardinalityType
<1>5. /\ bucket.resetAt # 0 /\ bucket.resetAt \in Nat /\ bucket.count \in Nat
      /\ start \in 0..time /\ start \in Int
      /\ Cardinality(From(let, at, start)) <= bucket.count
      /\ \E r \in let : at[r] = start
      /\ \A r \in let : at[r] \in Nat /\ at[r] < bucket.resetAt
  BY DEF RateInv
<1>6. \A first \in Nat : first > start - Window =>
        Cardinality(Between(let, at, first, start - 1)) <= RateMax - 1
  BY <1>5 DEF RateInv
<1>7. /\ Cardinality(From(more, late, start)) = Cardinality(From(let, at, start)) + 1
      /\ Cardinality(From(more, late, start)) <= bucket.count + 1
      /\ Cardinality(From(more, late, start)) <= RateMax
  <2>1. Cardinality(From(more, late, start)) = Cardinality(From(let, at, start)) + 1
    <3>1. late[q] >= start /\ start \in Int
      BY <1>5
    <3> HIDE DEF start
    <3> QED BY <1>0, <3>1 DEF CountsOneMore
  <2> QED BY <1>1, <1>4, <1>5, <2>1
<1>8. ASSUME NEW first \in Nat, first > start - Window
      PROVE  Cardinality(Between(more, late, first, start - 1)) <= RateMax - 1
  <2>1. ~(time \in first..(start - 1)) /\ start - 1 \in Int /\ first \in Int
    BY <1>5
  <2>2. Between(more, late, first, start - 1) = Between(let, at, first, start - 1)
    BY <1>1, <2>1, <1>0 DEF CountsOneMore
  <2> QED BY <1>6, <1>8, <2>2
<1>9. ASSUME NEW first \in Nat
      PROVE  Cardinality(Between(more, late, first, first + Window - 1)) <= 2 * RateMax - 1
  <2> DEFINE last == first + Window - 1
  <2>0. last \in Int /\ first \in Int /\ start - 1 \in Int /\ start \in Int
    BY <1>1, <1>5
  <2>1. CASE time \in first..last
    <3>1. first > start - Window
      <4>1. first + Window > time /\ time \in Int /\ Window \in Int
        BY <1>1, <2>1
      <4>2. time >= start
        BY <1>5
      <4> HIDE DEF start, last
      <4> QED BY <2>0, <4>1, <4>2
    <3> DEFINE old == Between(more, late, first, start - 1)
               new == From(more, late, start)
    <3>2. Between(more, late, first, last) \subseteq old \cup new
      <4> HIDE DEF start, last, more
      <4>1. ASSUME NEW r \in more, late[r] \in first..last
            PROVE  late[r] \in first..(start - 1) \/ late[r] >= start
        BY <1>2, <2>0, <4>1
      <4> QED BY <4>1 DEF Between, From
    <3>3. IsFiniteSet(old) /\ IsFiniteSet(new) /\ Cardinality(old) \in Nat /\ Cardinality(new) \in Nat
      BY <1>2, PartsAreFinite, FS_CardinalityType
    <3>4. old \cap new = {}
      <4> HIDE DEF start, more
      <4>1. ASSUME NEW r \in more, late[r] \in first..(start - 1), late[r] >= start PROVE FALSE
        BY <1>2, <2>0, <4>1
      <4> QED BY <4>1 DEF Between, From
    <3>5. /\ IsFiniteSet(old \cup new)
          /\ Cardinality(old \cup new) <= Cardinality(old) + Cardinality(new)
      <4>1. Cardinality(old \cap new) = 0
        BY <3>4, FS_EmptySet
      <4>2. /\ IsFiniteSet(old \cup new)
            /\ Cardinality(old \cup new) = Cardinality(old) + Cardinality(new) - Cardinality(old \cap new)
        <5> HIDE DEF old, new
        <5> QED BY <3>3, FS_Union
      <4> HIDE DEF old, new
      <4> QED BY <3>3, <4>1, <4>2
    <3>6. Cardinality(Between(more, late, first, last)) <= Cardinality(old \cup new)
      BY <3>2, <3>5, FS_Subset
    <3>7. Cardinality(old) <= RateMax - 1 /\ Cardinality(new) <= RateMax
      BY <1>7, <1>8, <3>1
    <3>8. Cardinality(Between(more, late, first, last)) \in Nat /\ Cardinality(old \cup new) \in Nat
      BY <1>2, <3>5, PartsAreFinite, FS_CardinalityType
    <3> HIDE DEF old, new, last
    <3>9. RateMax \in Nat
      BY <1>1
    <3> DEFINE part == Cardinality(Between(more, late, first, last))
               whole == Cardinality(old \cup new)
               before == Cardinality(old)
               rest == Cardinality(new)
    <3>10. /\ part \in Nat /\ whole \in Nat /\ before \in Nat /\ rest \in Nat
           /\ part <= whole /\ whole <= before + rest /\ before <= RateMax - 1 /\ rest <= RateMax
      BY <3>3, <3>5, <3>6, <3>7, <3>8
    <3>11. part <= 2 * RateMax - 1
      <4> HIDE DEF part, whole, before, rest
      <4> QED BY <3>9, <3>10
    <3> QED BY <3>11 DEF last
  <2>2. CASE ~(time \in first..last)
    <3>1. Between(more, late, first, last) = Between(let, at, first, last)
      BY <1>1, <2>0, <2>2, <1>0 DEF CountsOneMore
    <3> QED BY <3>1 DEF RateInv
  <2> QED BY <2>1, <2>2
<1>10. \A r \in more : late[r] < next.resetAt
  BY <1>5
<1>11. \E r \in more : late[r] = start
  BY <1>5
<1>12. next.count \in Nat /\ next.resetAt \in Nat /\ next.resetAt # 0 /\ next.resetAt - Window = start
  BY <1>5
<1> HIDE DEF more, start
<1>13. RateInv(more, late, next, time)
  <2>1. Cardinality(From(more, late, start)) <= next.count
    BY <1>7
  <2> QED BY <1>2, <1>5, <1>7, <1>8, <1>9, <1>10, <1>11, <1>12, <2>1 DEF RateInv
<1> QED BY <1>13 DEF more

(* One that is turned away is counted all the same.                        *)
LEMMA OverTheRate ==
  ASSUME NEW let, NEW at, NEW bucket, NEW time \in Nat, RateInv(let, at, bucket, time),
         NEW next, next.count = bucket.count + 1, next.resetAt = bucket.resetAt
  PROVE  RateInv(let, at, next, time)
<1>1. \A m : Cardinality(From(let, at, m)) \in Nat
  BY PartsAreFinite, FS_CardinalityType DEF RateInv
<1> QED BY <1>1 DEF RateInv

(* The requests let in with a token, when, and its bucket.                 *)
LetInAt == [q \in Requests |-> request[q].admitted]

BucketInv ==
  /\ \A t \in AccessTokens : RateInv(Admitted(t), LetInAt, buckets[t], now)
  /\ buckets \in [AccessTokens -> [count : Nat, resetAt : Nat]]
  /\ \A q \in Requests : request[q].pc = "idle" => request[q].admitted = None

LEMMA InitBuckets == Init => BucketInv
<1> SUFFICES ASSUME Init PROVE BucketInv
  OBVIOUS
<1>1. \A q \in Requests : request[q].admitted = None
  BY DEF Init, AdmissionInit
<1>2. buckets \in [AccessTokens -> [count : Nat, resetAt : Nat]]
  BY DEF Init, AdmissionInit
<1>3. ASSUME NEW t \in AccessTokens PROVE RateInv(Admitted(t), LetInAt, buckets[t], now)
  <2>1. Admitted(t) = {}
    BY <1>1 DEF Admitted
  <2>2. \A m, n : Between(Admitted(t), LetInAt, m, n) = {}
    BY <2>1 DEF Between
  <2>3. IsFiniteSet({}) /\ Cardinality({}) = 0
    BY FS_EmptySet
  <2>4. buckets[t].resetAt = 0 /\ buckets[t].count = 0
    BY DEF Init, AdmissionInit
  <2>5. RateMax \in Nat \ {0}
    BY AdmissionAssumption
  <2> QED BY <2>1, <2>2, <2>3, <2>4, <2>5 DEF RateInv
<1> QED BY <1>1, <1>2, <1>3 DEF BucketInv

(* Time goes by.                                                           *)
LEMMA RateInTime ==
  ASSUME NEW let, NEW at, NEW bucket, NEW time \in Nat, RateInv(let, at, bucket, time),
         NEW later \in Nat, time <= later
  PROVE  RateInv(let, at, bucket, later)
BY DEF RateInv

(* When nobody is let in, what is said of the requests stays.              *)
LEMMA NobodyIsLetIn ==
  ASSUME BucketInv, now \in Nat, now' \in Nat, now <= now',
         \A q \in Requests : request'[q].admitted = request[q].admitted,
         \A q \in Requests : request'[q].pc = "idle" => request[q].pc = "idle",
         buckets' = buckets
  PROVE  BucketInv'
<1>1. LetInAt' = LetInAt
  BY DEF LetInAt
<1>2. ASSUME NEW t \in AccessTokens PROVE RateInv(Admitted(t), LetInAt, buckets[t], now)'
  <2>1. PICK let, at, bucket, time : let = Admitted(t) /\ at = LetInAt /\ bucket = buckets[t] /\ time = now
    OBVIOUS
  <2>2. Admitted(t)' = let
    BY <2>1 DEF Admitted
  <2>3. RateInv(let, at, bucket, now')
    BY <2>1, RateInTime DEF BucketInv
  <2> QED BY <1>1, <2>1, <2>2, <2>3 DEF RateInv
<1>3. \A q \in Requests : request'[q].pc = "idle" => request'[q].admitted = None
  BY DEF BucketInv
<1> QED BY <1>2, <1>3 DEF BucketInv

LEMMA OthersAreNotLetIn ==
  ASSUME RequestInv, NEW q \in Requests, RequestStep(q) \/ Operating(q), ~Arrive(q)
  PROVE  /\ \A r \in Requests : request'[r].admitted = request[r].admitted
         /\ \A r \in Requests : request'[r].pc = "idle" => request[r].pc = "idle"
         /\ buckets' = buckets /\ now' = now
<1>1. /\ buckets' = buckets /\ now' = now
  BY DEF RequestStep, Arrival, ArriveAtRest, TurnAway, ReadBody, RejectBody,
       Authentication, IntrospectCached, Introspect, IntrospectionAnswered,
       IntrospectionAccepted, IntrospectionRefused, CheckProfile, RunAsRequest,
       Answering, AuditTool, AuditFails, SendHead, Answer, TimeoutFires, Settle,
       Operating, ListPolicies, BeginSearch, EndSearch, SearchFails, Executed
<1>2. request \in [Requests -> RequestStates] /\ PlaceInv(q)
  BY DEF RequestInv, RequestTypes
<1> DEFINE Keeps == /\ \A r \in Requests : request'[r].admitted = request[r].admitted
                    /\ \A r \in Requests : request'[r].pc = "idle" => request[r].pc = "idle"
<1> SUFFICES Keeps
  BY <1>1
<1>3. CASE UNCHANGED request
  BY <1>3 DEF At
<1>4. ASSUME NEW pc, pc # "idle", request' = [request EXCEPT ![q].pc = pc] PROVE Keeps
  BY <1>2, <1>4 DEF At, RequestStates
<1>5. ASSUME NEW pc, pc # "idle", NEW accepted,
             request' = [request EXCEPT ![q].pc = pc, ![q].ask = None, ![q].accepted = accepted]
      PROVE  Keeps
  BY <1>2, <1>5 DEF At, RequestStates
<1>6. CASE Arrival(q)
  <2>1. \E pc \in {"body", "over", "gate", "authenticate"} : request' = [request EXCEPT ![q].pc = pc]
    BY <1>6 DEF Arrival, ArriveAtRest, TurnAway, ReadBody, RejectBody, To
  <2> QED BY <1>4, <2>1
<1>7. CASE Authentication(q)
  <2>1. CASE IntrospectCached(q) \/ IntrospectionAccepted(q) \/ IntrospectionRefused(q)
    <3>1. \E pc \in {"profile", "enter", "over"}, accepted \in {[at |-> now, asked |-> None], None,
               [at |-> now, asked |-> request[q].ask.asked]} :
            request' = [request EXCEPT ![q].pc = pc, ![q].ask = None, ![q].accepted = accepted]
      BY <2>1 DEF IntrospectCached, IntrospectionAccepted, IntrospectionRefused, Accepted, AfterToken
    <3> QED BY <1>5, <3>1
  <2>2. CASE Introspect(q)
    BY <1>2, <2>2 DEF Introspect, At, RequestStates
  <2>3. CASE IntrospectionAnswered(q)
    <3>1. PICK active : request' = [request EXCEPT ![q].pc = "asked", ![q].ask.active = active]
      BY <2>3 DEF IntrospectionAnswered
    <3> QED BY <1>2, <3>1 DEF At, RequestStates
  <2>4. CASE CheckProfile(q)
    <3>1. \E pc \in {"authenticate", "over"} : request' = [request EXCEPT ![q].pc = pc]
      BY <2>4 DEF CheckProfile, To
    <3> QED BY <1>4, <3>1
  <2>5. CASE RunAsRequest(q)
    BY <1>2, <2>5 DEF RunAsRequest, At, RequestStates
  <2> QED BY <1>7, <2>1, <2>2, <2>3, <2>4, <2>5 DEF Authentication
<1>8. CASE Answering(q)
  <2>1. CASE AuditTool(q) \/ SendHead(q) \/ TimeoutFires(q)
    <3>1. UNCHANGED request \/ request' = [request EXCEPT ![q].pc = "answer"]
      BY <2>1 DEF AuditTool, SendHead, TimeoutFires, To
    <3> QED BY <1>3, <1>4, <3>1
  <2>2. CASE AuditFails(q)
    <3>1. \/ request' = [request EXCEPT ![q].outcome = "error"]
          \/ request' = [request EXCEPT ![q].pc = "answer", ![q].outcome = "internal"]
      BY <2>2 DEF AuditFails
    <3> QED BY <1>2, <3>1 DEF At, RequestStates
  <2>3. CASE Answer(q)
    BY <1>2, <2>3 DEF Answer, At, RequestStates
  <2> QED BY <1>8, <2>1, <2>2, <2>3 DEF Answering
<1>9. CASE Operating(q)
  <2>1. CASE BeginSearch(q)
    <3>1. request' = [request EXCEPT ![q].pc = "searching"]
      BY <2>1 DEF BeginSearch, To
    <3> QED BY <1>4, <3>1
  <2>2. CASE ~BeginSearch(q)
    <3>1. PICK outcome, by : Executed(q, outcome, by)
      BY <1>9, <2>2 DEF Operating, ListPolicies, EndSearch, SearchFails
    <3>2. PICK pc : pc \in {"audit", "answer"} /\ pc = IF Route(q) = "mcp" THEN "audit" ELSE "answer"
      OBVIOUS
    <3>3. pc # "idle" /\ request' = [request EXCEPT ![q].pc = pc, ![q].outcome = outcome, ![q].by = by]
      BY <3>1, <3>2 DEF Executed
    <3> QED BY <1>2, <3>3 DEF At, RequestStates
  <2> QED BY <2>1, <2>2
<1> QED BY <1>1, <1>6, <1>7, <1>8, <1>9 DEF RequestStep

LEMMA ArriveKeepsTheRate ==
  ASSUME BucketInv, RequestInv, NEW q \in Requests, Arrive(q)
  PROVE  BucketInv'
<1>1. /\ request \in [Requests -> RequestStates] /\ now \in Nat /\ now' = now
      /\ Bearer(q) \in AccessTokens /\ request[q].admitted = None /\ None \notin Nat
      /\ buckets \in [AccessTokens -> [count : Nat, resetAt : Nat]]
  BY AdmissionAssumption DEF RequestInv, RequestTypes, Moments, Arrive, BucketInv, At
<1> DEFINE token == Bearer(q)
<1>2. PICK bucket, next, let, at, time :
        /\ time \in Nat /\ bucket = buckets[token] /\ next = buckets'[token] /\ time = now
        /\ let = Admitted(token) /\ at = LetInAt
  BY <1>1
<1>3. RateInv(let, at, bucket, time) /\ q \notin let
  BY <1>1, <1>2 DEF BucketInv, Admitted
<1>4. bucket \in [count : Nat, resetAt : Nat]
  BY <1>1, <1>2
<1>5. next = IF bucket.resetAt <= time THEN [count |-> 1, resetAt |-> time + Window]
             ELSE [bucket EXCEPT !.count = @ + 1]
  BY <1>1, <1>2 DEF Arrive, ConsumeRateLimit, Counted
<1>6. next \in [count : Nat, resetAt : Nat]
  <2>1. time + Window \in Nat
    BY <1>2, AdmissionAssumption
  <2> QED BY <1>4, <1>5, <2>1
<1>7. /\ buckets' \in [AccessTokens -> [count : Nat, resetAt : Nat]]
      /\ \A t \in AccessTokens \ {token} : buckets'[t] = buckets[t]
  BY <1>1, <1>2, <1>6 DEF Arrive
<1>8. \A r \in Requests \ {q} : request'[r] = request[r]
  BY <1>1 DEF Arrive, To
<1>9. ASSUME NEW t \in AccessTokens \ {token} PROVE RateInv(Admitted(t), LetInAt, buckets[t], now)'
  <2>1. PICK mine, its : mine = Admitted(t) /\ its = buckets[t]
    OBVIOUS
  <2>2. PICK late : late = LetInAt'
    OBVIOUS
  <2>3. \A r \in Requests \ {q} : late[r] = at[r]
    BY <1>2, <1>8, <2>2 DEF LetInAt
  <2>4. Admitted(t)' = mine /\ mine \subseteq Requests \ {q}
    BY <1>8, <2>1 DEF Admitted
  <2>5. RateInv(mine, at, its, time)
    BY <1>2, <2>1 DEF BucketInv
  <2>6. /\ \A m, n : Between(mine, late, m, n) = Between(mine, at, m, n)
        /\ \A m : From(mine, late, m) = From(mine, at, m)
        /\ \A r \in mine : late[r] = at[r]
    BY <2>3, <2>4 DEF Between, From
  <2>7. RateInv(mine, late, its, time)
    BY <2>5, <2>6 DEF RateInv
  <2>8. buckets'[t] = its /\ now' = time
    BY <1>1, <1>2, <1>7, <2>1
  <2> QED BY <2>2, <2>4, <2>7, <2>8 DEF RateInv
<1>10. RateInv(Admitted(token), LetInAt, buckets[token], now)' /\ request'[q].pc # "idle"
  <2>1. PICK late : late = LetInAt'
    OBVIOUS
  <2>2. \A r \in Requests \ {q} : late[r] = at[r]
    BY <1>2, <1>8, <2>1 DEF LetInAt
  <2>3. CASE LetIn(token)
    <3>1. request' = [request EXCEPT ![q].pc = "body", ![q].admitted = now]
      BY <2>3 DEF Arrive
    <3>2. request'[q].admitted = time /\ request'[q].pc = "body"
      BY <1>1, <1>2, <3>1 DEF RequestStates
    <3>3. late[q] = time /\ Admitted(token)' = let \cup {q}
      BY <1>1, <1>2, <1>8, <2>1, <3>2 DEF LetInAt, Admitted
    <3>4. \A r \in let : late[r] = at[r]
      BY <1>2, <1>3, <2>2 DEF Admitted
    <3>5. RateInv(let \cup {q}, late, next, time)
      <4>1. CASE bucket.resetAt <= time
        <5>1. next = [count |-> 1, resetAt |-> time + Window]
          BY <1>5, <4>1
        <5>2. RateInv(let \cup {q}, late, [count |-> 1, resetAt |-> time + Window], time)
          BY <1>2, <1>3, <3>3, <3>4, <4>1, FirstOfBucket
        <5> QED BY <5>1, <5>2
      <4>2. CASE ~(bucket.resetAt <= time)
        <5>1. next.count = bucket.count + 1 /\ next.resetAt = bucket.resetAt
          BY <1>4, <1>5, <4>2
        <5>2. bucket.count + 1 <= RateMax
          BY <1>2, <1>4, <2>3, <4>2 DEF LetIn, Counted
        <5> QED BY <1>2, <1>3, <3>3, <3>4, <4>2, <5>1, <5>2, NextOfBucket
      <4> QED BY <4>1, <4>2
    <3>6. now' = time /\ buckets'[token] = next
      BY <1>1, <1>2
    <3> QED BY <2>1, <3>2, <3>3, <3>5, <3>6 DEF RateInv, At
  <2>4. CASE ~LetIn(token)
    <3>1. request'[q].admitted = None /\ request'[q].pc = "over"
      BY <1>1, <2>4 DEF Arrive, To, RequestStates
    <3>2. Admitted(token)' = let /\ \A r \in Requests : late[r] = at[r]
      BY <1>1, <1>2, <1>8, <2>1, <2>2, <3>1 DEF LetInAt, Admitted
    <3>3. late = at
      BY <1>2, <2>1, <3>2 DEF LetInAt
    <3>4. ~(bucket.resetAt <= time)
      BY <1>2, <2>4 DEF LetIn
    <3>5. RateInv(let, late, next, time)
      <4>1. next.count = bucket.count + 1 /\ next.resetAt = bucket.resetAt
        BY <1>4, <1>5, <3>4
      <4>2. RateInv(let, at, next, time)
        BY <1>2, <1>3, <4>1, OverTheRate
      <4> QED BY <3>3, <4>2
    <3>6. now' = time /\ buckets'[token] = next
      BY <1>1, <1>2
    <3> QED BY <2>1, <3>1, <3>2, <3>5, <3>6 DEF RateInv, At
  <2> QED BY <2>3, <2>4
<1>11. \A r \in Requests : request'[r].pc = "idle" => request'[r].admitted = None
  BY <1>8, <1>10 DEF BucketInv
<1> QED BY <1>7, <1>9, <1>10, <1>11 DEF BucketInv

LEMMA BucketsKeep ==
  ASSUME BucketInv, RequestInv, RequestInv', cast \subseteq Requests, [Next]_vars
  PROVE  BucketInv'
<1>1. now \in Nat /\ now' \in Nat
  BY AdmissionAssumption DEF RequestInv, RequestTypes, Moments
<1>2. CASE UNCHANGED <<request, buckets>> /\ now <= now'
  BY <1>1, <1>2, NobodyIsLetIn DEF At
<1>3. ASSUME NEW q \in Requests, RequestStep(q) \/ Operating(q) PROVE BucketInv'
  <2>1. CASE Arrive(q)
    BY <2>1, ArriveKeepsTheRate
  <2>2. CASE ~Arrive(q)
    BY <1>1, <1>3, <2>2, OthersAreNotLetIn, NobodyIsLetIn
  <2> QED BY <2>1, <2>2
<1>4. CASE UNCHANGED admissionVars
  BY <1>1, <1>2, <1>4 DEF admissionVars
<1>5. CASE TimeStep
  BY <1>1, <1>2, <1>5 DEF TimeStep, Tick, Revoke
<1> QED BY <1>3, <1>4, <1>5 DEF Next, vars

(* In no window are more requests let in with one token than two buckets   *)
(* hold, short of one, for any rate, any window and any number of requests *)
(* at any times.                                                           *)
THEOREM TheRateIsKept == Spec => []RateIsKept
<1>1. BucketInv /\ RequestInv => RateIsKept
  <2> SUFFICES ASSUME BucketInv, RequestInv, NEW t \in AccessTokens, NEW first \in 0..MaxTime
               PROVE  Cardinality({q \in Admitted(t) : request[q].admitted \in first..(first + Window - 1)})
                        <= 2 * RateMax - 1
    BY DEF RateIsKept
  <2>1. {q \in Admitted(t) : request[q].admitted \in first..(first + Window - 1)}
          = Between(Admitted(t), LetInAt, first, first + Window - 1)
    BY DEF Between, LetInAt, Admitted
  <2>2. RateInv(Admitted(t), LetInAt, buckets[t], now) /\ first \in Nat
    BY AdmissionAssumption DEF BucketInv
  <2> QED BY <2>1, <2>2 DEF RateInv
<1>2. Init => BucketInv
  BY InitBuckets
<1>3. BucketInv /\ RequestInv /\ cast \subseteq Requests /\ RequestInv' /\ [Next]_vars => BucketInv'
  BY BucketsKeep
<1> QED BY <1>1, <1>2, <1>3, RequestsAreWell, PTL DEF Spec

-----------------------------------------------------------------------------
(* Lists of claims.                                                        *)

LEMMA ClaimsAreFinite == IsFiniteSet(Claims)
<1> DEFINE size == Len(Order)
<1>1. Order \in [1..size -> Claims] /\ size \in Nat
  BY RetrievalAssumption
<1>2. Order \in Surjection(1..size, Claims)
  BY <1>1, RetrievalAssumption DEF Surjection
<1>3. IsFiniteSet(1..size)
  BY <1>1, FS_Interval
<1> QED BY <1>2, <1>3, FS_Surjection

LEMMA SomeClaimsAreFinite ==
  ASSUME NEW some \in SUBSET Claims
  PROVE  IsFiniteSet(some) /\ Cardinality(some) \in Nat
BY ClaimsAreFinite, FS_Subset, FS_CardinalityType

(* A list of all members of a set without repetition.                      *)
LEMMA Listing ==
  ASSUME NEW some \in SUBSET Claims, NEW list \in SetToSeqs(some)
  PROVE  list \in Seq(Claims) /\ Len(list) = Cardinality(some) /\ Members(list) = some
<1> DEFINE size == Cardinality(some)
<1>1. IsFiniteSet(some) /\ size \in Nat
  BY SomeClaimsAreFinite
<1>2. list \in [1..size -> some] /\ \A i, j \in 1..size : i # j => list[i] # list[j]
  BY DEF SetToSeqs
<1>3. list \in Seq(Claims) /\ Len(list) = size
  BY <1>1, <1>2
<1>4. list \in Injection(1..size, some)
  BY <1>2 DEF Injection, IsInjective
<1>5. Cardinality(1..size) = size
  BY <1>1, FS_Interval
<1>6. list \in Surjection(1..size, some)
  BY <1>1, <1>4, <1>5, FS_Injection
<1>7. Members(list) = some
  BY <1>2, <1>6 DEF Surjection, Members
<1> QED BY <1>3, <1>7

LEMMA Cutting ==
  ASSUME NEW list \in Seq(Claims), NEW limit \in Nat
  PROVE  /\ Cut(list, limit) \in Seq(Claims)
         /\ Members(Cut(list, limit)) \subseteq Members(list)
         /\ Len(list) <= limit => Cut(list, limit) = list
         /\ Len(list) > limit => Len(Cut(list, limit)) = limit
<1>1. PICK length : length = Min({limit, Len(list)})
  OBVIOUS
<1>2. length \in {limit, Len(list)} /\ length <= limit /\ length <= Len(list)
  BY <1>1, MinOfTwo
<1>3. length \in Nat /\ 1 \in Int
  BY <1>2
<1>4. Cut(list, limit) = SubSeq(list, 1, length)
  BY <1>1 DEF Cut
<1>5. /\ SubSeq(list, 1, length) \in Seq(Claims) /\ Len(SubSeq(list, 1, length)) = length
      /\ \A n \in 1..length : SubSeq(list, 1, length)[n] = list[n]
  BY <1>2, <1>3
<1>6. Members(SubSeq(list, 1, length)) \subseteq Members(list)
  BY <1>2, <1>3, <1>5 DEF Members
<1>7. Len(list) <= limit => SubSeq(list, 1, length) = list
  BY <1>2, <1>3, <1>5
<1> QED BY <1>2, <1>4, <1>5, <1>6, <1>7

(* What a strategy ranks is among what it has found, and all of it unless  *)
(* that is more than the limit.                                            *)
LEMMA Ranking ==
  ASSUME NEW some \in SUBSET Claims, NEW score, NEW limit \in Nat, NEW list \in Ranked(some, score, limit)
  PROVE  /\ list \in Seq(Claims) /\ Members(list) \subseteq some
         /\ ~(Cardinality(some) > limit) => Members(list) = some
<1>1. PICK all \in SetToSeqs(some) : list = Cut(all, limit)
  BY DEF Ranked
<1>2. all \in Seq(Claims) /\ Len(all) = Cardinality(some) /\ Members(all) = some
  BY Listing
<1>3. Cardinality(some) \in Nat
  BY SomeClaimsAreFinite
<1>4. list \in Seq(Claims) /\ Members(list) \subseteq Members(all) /\ (Len(all) <= limit => list = all)
  BY <1>1, <1>2, Cutting
<1> QED BY <1>2, <1>3, <1>4

(* What is selected of a list is allowed, and everything that is allowed   *)
(* unless there are as many as were asked for.                             *)
LEMMA Selecting ==
  ASSUME NEW order \in Seq(Claims), NEW allowed, NEW budget \in Nat,
         NEW hits \in Selected(order, allowed, budget)
  PROVE  /\ hits \in Seq(Claims) /\ Members(hits) \subseteq Members(order) \cap allowed
         /\ Len(hits) # budget => Members(hits) = Members(order) \cap allowed
<1>1. PICK list \in SetToSeqs(Members(order) \cap allowed) : hits = Cut(list, budget)
  BY DEF Selected
<1>2. Members(order) \cap allowed \in SUBSET Claims
  BY DEF Members
<1>3. list \in Seq(Claims) /\ Members(list) = Members(order) \cap allowed
  BY <1>2, Listing
<1>4. Len(list) \in Nat
  BY <1>3
<1>5. /\ hits \in Seq(Claims) /\ Members(hits) \subseteq Members(list)
      /\ Len(list) <= budget => hits = list
      /\ Len(list) > budget => Len(hits) = budget
  BY <1>1, <1>3, Cutting
<1> QED BY <1>3, <1>4, <1>5

LEMMA Joining ==
  ASSUME NEW list \in Seq(Claims)
  PROVE  /\ \A c \in Claims : Append(list, c) \in Seq(Claims) /\ Members(Append(list, c)) = Members(list) \cup {c}
         /\ \A more \in Seq(Claims) : list \o more \in Seq(Claims) /\ Members(list \o more) = Members(list) \cup Members(more)
<1>1. ASSUME NEW c \in Claims
      PROVE  Append(list, c) \in Seq(Claims) /\ Members(Append(list, c)) = Members(list) \cup {c}
  <2>1. /\ Append(list, c) \in Seq(Claims) /\ DOMAIN Append(list, c) = 1..(Len(list) + 1)
        /\ Append(list, c)[Len(list) + 1] = c /\ DOMAIN list = 1..Len(list) /\ Len(list) \in Nat
        /\ \A n \in 1..Len(list) : Append(list, c)[n] = list[n]
    OBVIOUS
  <2>2. ASSUME NEW n \in 1..(Len(list) + 1) PROVE Append(list, c)[n] \in Members(list) \cup {c}
    BY <2>1 DEF Members
  <2>3. Members(list) \cup {c} \subseteq Members(Append(list, c))
    BY <2>1 DEF Members
  <2> QED BY <2>1, <2>2, <2>3 DEF Members
<1>2. ASSUME NEW more \in Seq(Claims)
      PROVE  list \o more \in Seq(Claims) /\ Members(list \o more) = Members(list) \cup Members(more)
  <2>1. /\ list \o more \in Seq(Claims) /\ DOMAIN (list \o more) = 1..(Len(list) + Len(more))
        /\ DOMAIN list = 1..Len(list) /\ DOMAIN more = 1..Len(more) /\ Len(list) \in Nat /\ Len(more) \in Nat
        /\ \A n \in 1..Len(list) : (list \o more)[n] = list[n]
        /\ \A n \in (Len(list) + 1)..(Len(list) + Len(more)) : (list \o more)[n] = more[n - Len(list)]
    OBVIOUS
  <2>2. ASSUME NEW n \in 1..(Len(list) + Len(more))
        PROVE  (list \o more)[n] \in Members(list) \cup Members(more)
    <3>1. CASE n \in 1..Len(list)
      BY <2>1, <3>1 DEF Members
    <3>2. CASE n \in (Len(list) + 1)..(Len(list) + Len(more))
      <4>1. n - Len(list) \in 1..Len(more)
        BY <2>1, <3>2
      <4> QED BY <2>1, <3>2, <4>1 DEF Members
    <3> QED BY <2>1, <3>1, <3>2
  <2>3. Members(list) \subseteq Members(list \o more)
    BY <2>1 DEF Members
  <2>4. ASSUME NEW n \in 1..Len(more) PROVE more[n] \in Members(list \o more)
    <3>1. /\ Len(list) + n \in (Len(list) + 1)..(Len(list) + Len(more))
          /\ Len(list) + n - Len(list) = n
      BY <2>1
    <3>2. (list \o more)[Len(list) + n] = more[n]
      BY <2>1, <3>1
    <3>3. Len(list) + n \in 1..(Len(list) + Len(more))
      BY <2>1
    <3> QED BY <2>1, <3>2, <3>3 DEF Members
  <2> QED BY <2>1, <2>2, <2>3, <2>4 DEF Members
<1> QED BY <1>1, <1>2

-----------------------------------------------------------------------------
(* The history of the claims: the status of a claim after some of the      *)
(* changes of a log.                                                       *)

About(log, c, n) == {m \in 1..n : log[m].claim = c}

StatusIn(log, c, n) ==
  IF About(log, c, n) = {} THEN IF c \in Asserted THEN "asserted" ELSE "absent"
  ELSE log[Max(About(log, c, n))].status

(* The changes of a claim have a last one.                                 *)
IsLog(log) ==
  /\ log \in Seq(Changes)
  /\ \A c \in Claims : \A n \in 0..Len(log) :
       About(log, c, n) # {} => \E m \in About(log, c, n) : \A k \in About(log, c, n) : k <= m

LEMMA StatusIsInTheLog == \A c, n : StatusAt(c, n) = StatusIn(changes, c, n)
BY DEF StatusAt, StatusIn, About

LEMMA LastChange ==
  ASSUME NEW log, IsLog(log), NEW c \in Claims, NEW n \in 0..Len(log), About(log, c, n) # {}
  PROVE  /\ Max(About(log, c, n)) \in About(log, c, n)
         /\ \A k \in About(log, c, n) : k <= Max(About(log, c, n))
<1>1. \E m \in About(log, c, n) : \A k \in About(log, c, n) : k <= m
  BY DEF IsLog
<1>2. \A k \in About(log, c, n) : k \in Nat
  BY DEF About, IsLog
<1> QED BY <1>1, <1>2 DEF Max

LEMMA StatusTypes ==
  ASSUME NEW log, IsLog(log), NEW c \in Claims, NEW n \in 0..Len(log)
  PROVE  StatusIn(log, c, n) \in {"absent", "asserted", "retracted"}
<1>1. CASE About(log, c, n) = {}
  BY <1>1 DEF StatusIn
<1>2. CASE About(log, c, n) # {}
  <2>1. Max(About(log, c, n)) \in About(log, c, n)
    BY <1>2, LastChange
  <2>2. log[Max(About(log, c, n))] \in Changes
    BY <2>1 DEF IsLog, About
  <2> QED BY <1>2, <2>2 DEF StatusIn, Changes
<1> QED BY <1>1, <1>2

(* Without a change in between the status is the same.                     *)
LEMMA NoChangeBetween ==
  ASSUME NEW log, NEW c, NEW m \in Nat, NEW n \in Nat, m <= n,
         \A k \in (m + 1)..n : log[k].claim # c
  PROVE  StatusIn(log, c, m) = StatusIn(log, c, n)
<1>1. About(log, c, m) = About(log, c, n)
  BY DEF About
<1> QED BY <1>1 DEF StatusIn

(* One more change: the status before it stays, and that after it is what  *)
(* it says of its claim.                                                   *)
GrowsBy(log, longer, change) ==
  /\ IsLog(longer) /\ Len(longer) = Len(log) + 1 /\ Len(log) \in Nat
  /\ \A c \in Claims : \A n \in 0..Len(log) : StatusIn(longer, c, n) = StatusIn(log, c, n)
  /\ \A c \in Claims : StatusIn(longer, c, Len(longer)) =
       IF c = change.claim THEN change.status ELSE StatusIn(log, c, Len(log))

LEMMA OneMoreChange ==
  ASSUME NEW log, IsLog(log), NEW change \in Changes, NEW longer, longer = Append(log, change)
  PROVE  GrowsBy(log, longer, change)
<1>1. /\ longer \in Seq(Changes) /\ Len(longer) = Len(log) + 1 /\ Len(log) \in Nat
      /\ longer[Len(longer)] = change /\ \A k \in 1..Len(log) : longer[k] = log[k]
  BY DEF IsLog
<1>2. ASSUME NEW c, NEW n \in 0..Len(log) PROVE About(longer, c, n) = About(log, c, n)
  BY <1>1 DEF About
<1>3. ASSUME NEW c \in Claims, NEW n \in 0..Len(log) PROVE StatusIn(longer, c, n) = StatusIn(log, c, n)
  <2>1. CASE About(log, c, n) = {}
    BY <1>2, <2>1 DEF StatusIn
  <2>2. CASE About(log, c, n) # {}
    <3>0. Max(About(log, c, n)) \in About(log, c, n)
      BY <2>2, LastChange
    <3>1. Max(About(log, c, n)) \in 1..Len(log)
      BY <1>1, <3>0 DEF About
    <3> QED BY <1>1, <1>2, <2>2, <3>1 DEF StatusIn
  <2> QED BY <2>1, <2>2
<1>4. ASSUME NEW c \in Claims, c = change.claim
      PROVE  /\ Len(longer) \in About(longer, c, Len(longer))
             /\ \A k \in About(longer, c, Len(longer)) : k <= Len(longer)
  BY <1>1, <1>4 DEF About
<1>5. ASSUME NEW c, c # change.claim
      PROVE  About(longer, c, Len(longer)) = About(longer, c, Len(log))
  BY <1>1, <1>5 DEF About
<1>6. ASSUME NEW c \in Claims, NEW n \in 0..Len(longer), About(longer, c, n) # {}
      PROVE  \E m \in About(longer, c, n) : \A k \in About(longer, c, n) : k <= m
  <2>1. CASE n \in 0..Len(log)
    BY <1>2, <1>6, <2>1 DEF IsLog
  <2>2. CASE n = Len(longer)
    <3>1. CASE c = change.claim
      BY <1>4, <2>2, <3>1
    <3>2. CASE c # change.claim
      <4>1. Len(log) \in 0..Len(log)
        BY <1>1
      <4>2. About(longer, c, n) = About(log, c, Len(log))
        BY <1>2, <1>5, <2>2, <3>2, <4>1
      <4> QED BY <1>6, <4>1, <4>2 DEF IsLog
    <3> QED BY <3>1, <3>2
  <2> QED BY <1>1, <2>1, <2>2
<1>7. IsLog(longer)
  BY <1>1, <1>6 DEF IsLog
<1>8. ASSUME NEW c \in Claims
      PROVE  StatusIn(longer, c, Len(longer)) =
               IF c = change.claim THEN change.status ELSE StatusIn(log, c, Len(log))
  <2>1. CASE c = change.claim
    <3>1. About(longer, c, Len(longer)) # {} /\ Len(longer) \in 0..Len(longer)
      BY <1>1, <1>4, <2>1
    <3>2. /\ Max(About(longer, c, Len(longer))) \in 1..Len(longer)
          /\ Len(longer) <= Max(About(longer, c, Len(longer)))
      <4>1. /\ Max(About(longer, c, Len(longer))) \in About(longer, c, Len(longer))
            /\ \A k \in About(longer, c, Len(longer)) : k <= Max(About(longer, c, Len(longer)))
        BY <1>7, <3>1, LastChange
      <4> QED BY <1>4, <2>1, <4>1 DEF About
    <3>3. Max(About(longer, c, Len(longer))) = Len(longer)
      BY <1>1, <3>2
    <3> QED BY <1>1, <2>1, <3>1, <3>3 DEF StatusIn
  <2>2. CASE c # change.claim
    <3>1. StatusIn(longer, c, Len(longer)) = StatusIn(longer, c, Len(log))
      BY <1>5, <2>2 DEF StatusIn
    <3>2. Len(log) \in 0..Len(log)
      BY <1>1
    <3> QED BY <1>3, <2>2, <3>1, <3>2
  <2> QED BY <2>1, <2>2
<1> QED BY <1>1, <1>3, <1>7, <1>8 DEF GrowsBy

(* Everything the log says stays when it grows.                            *)
Grows(log, longer) ==
  /\ Len(log) \in Nat /\ Len(longer) \in Nat /\ Len(log) <= Len(longer)
  /\ \A c \in Claims : \A n \in 0..Len(log) : StatusIn(longer, c, n) = StatusIn(log, c, n)

(* A row shows its claim at some moment, and the changes since are pending. *)
RowIsOf(log, waiting, row, c) ==
  \E k \in 0..Len(log) :
    /\ row = Shown(StatusIn(log, c, k))
    /\ \A n \in (k + 1)..Len(log) : log[n].claim = c => n \in waiting

HistoryInv ==
  /\ IsLog(changes)
  /\ \A c \in Claims : status[c] = StatusIn(changes, c, Len(changes))
  /\ \A c \in Claims : RowIsOf(changes, pending, rows[c], c)

LEMMA InitHistory == Init => HistoryInv
<1> SUFFICES ASSUME Init PROVE HistoryInv
  OBVIOUS
<1>1. changes = <<>> /\ Len(changes) = 0 /\ changes \in Seq(Changes)
  BY DEF Init, RetrievalInit
<1>2. \A c : About(changes, c, 0) = {}
  BY DEF About
<1>3. IsLog(changes)
  BY <1>1, <1>2 DEF IsLog
<1>4. \A c \in Claims : status[c] = StatusIn(changes, c, 0) /\ rows[c] = Shown(status[c])
  BY <1>2 DEF StatusIn, Init, RetrievalInit
<1>5. \A c \in Claims : RowIsOf(changes, pending, rows[c], c)
  BY <1>1, <1>4 DEF RowIsOf
<1> QED BY <1>1, <1>3, <1>4, <1>5 DEF HistoryInv

LEMMA ChangeGrows ==
  ASSUME KnowledgeInv, HistoryInv, NEW c \in Claims, NEW state \in {"asserted", "retracted"}, Change(c, state)
  PROVE  /\ HistoryInv' /\ Grows(changes, changes') /\ UNCHANGED search
         /\ pending' \cap (1..Len(changes)) \subseteq pending /\ resolutions' = resolutions
<1>1. PICK log, longer, change, waiting :
        /\ log = changes /\ longer = changes' /\ change = [claim |-> c, status |-> state]
        /\ waiting = pending
  OBVIOUS
<1>2. longer = Append(log, change) /\ change \in Changes /\ IsLog(log)
  BY <1>1 DEF Change, Changes, HistoryInv
<1>3. /\ IsLog(longer) /\ Len(longer) = Len(log) + 1 /\ Len(log) \in Nat
      /\ \A d \in Claims : \A n \in 0..Len(log) : StatusIn(longer, d, n) = StatusIn(log, d, n)
      /\ \A d \in Claims : StatusIn(longer, d, Len(longer)) =
           IF d = change.claim THEN change.status ELSE StatusIn(log, d, Len(log))
  <2>1. GrowsBy(log, longer, change)
    BY <1>2, OneMoreChange
  <2> QED BY <2>1 DEF GrowsBy
<1>4. pending' = waiting \cup {Len(longer)} /\ rows' = rows /\ status' = [status EXCEPT ![c] = state]
  BY <1>1, <1>3 DEF Change
<1>5. \A d \in Claims : status'[d] = StatusIn(longer, d, Len(longer))
  BY <1>1, <1>3, <1>4 DEF HistoryInv, KnowledgeInv
<1>6. \A n \in 1..Len(log) : longer[n] = log[n]
  BY <1>2 DEF IsLog
<1>7. ASSUME NEW d \in Claims PROVE RowIsOf(longer, waiting \cup {Len(longer)}, rows[d], d)
  <2>1. PICK k \in 0..Len(log) :
          /\ rows[d] = Shown(StatusIn(log, d, k))
          /\ \A n \in (k + 1)..Len(log) : log[n].claim = d => n \in waiting
    BY <1>1 DEF HistoryInv, RowIsOf
  <2>2. rows[d] = Shown(StatusIn(longer, d, k)) /\ k \in 0..Len(longer)
    BY <1>3, <2>1
  <2>3. ASSUME NEW n \in (k + 1)..Len(longer), longer[n].claim = d PROVE n \in waiting \cup {Len(longer)}
    <3>1. n = Len(longer) \/ n \in (k + 1)..Len(log)
      BY <1>3
    <3> QED BY <1>6, <2>1, <2>3, <3>1
  <2> QED BY <2>2, <2>3 DEF RowIsOf
<1>8. HistoryInv'
  BY <1>1, <1>3, <1>4, <1>5, <1>7 DEF HistoryInv
<1>9. Grows(changes, changes')
  BY <1>1, <1>3 DEF Grows
<1> QED BY <1>1, <1>3, <1>4, <1>8, <1>9 DEF Change

LEMMA SyncKeepsHistory ==
  ASSUME KnowledgeInv, HistoryInv, Sync
  PROVE  /\ HistoryInv' /\ UNCHANGED <<changes, search, resolutions>> /\ pending' \subseteq pending
<1>1. PICK done \in (SUBSET pending) \ {{}} :
        LET about == {changes[n].claim : n \in done}
            also == {n \in pending : changes[n].claim \in about}
        IN  /\ done = also
            /\ rows' = [c \in Claims |-> IF c \in about THEN Shown(status[c]) ELSE rows[c]]
            /\ pending' = pending \ done
            /\ UNCHANGED <<status, changes, resolutions, search>>
  BY DEF Sync, Processed
<1> DEFINE about == {changes[n].claim : n \in done}
<1>2. PICK log, waiting : log = changes /\ waiting = pending'
  OBVIOUS
<1>3. UNCHANGED <<status, changes, resolutions, search>> /\ pending' \subseteq pending /\ Len(changes) \in Nat
  BY <1>1 DEF HistoryInv, IsLog
<1>4. ASSUME NEW c \in Claims PROVE RowIsOf(log, waiting, rows'[c], c)
  <2>1. CASE c \in about
    <3>1. rows'[c] = Shown(StatusIn(log, c, Len(log)))
      BY <1>1, <1>2, <2>1 DEF HistoryInv
    <3>2. Len(log) \in 0..Len(log) /\ (Len(log) + 1)..Len(log) = {}
      BY <1>2, <1>3
    <3> QED BY <3>1, <3>2 DEF RowIsOf
  <2>2. CASE c \notin about
    <3>1. rows'[c] = rows[c]
      BY <1>1, <2>2
    <3>2. \A n \in pending : changes[n].claim = c => n \in pending'
      BY <1>1, <2>2
    <3>3. PICK k \in 0..Len(log) :
            /\ rows[c] = Shown(StatusIn(log, c, k))
            /\ \A n \in (k + 1)..Len(log) : log[n].claim = c => n \in pending
      BY <1>2 DEF HistoryInv, RowIsOf
    <3> QED BY <1>2, <3>1, <3>2, <3>3 DEF RowIsOf
  <2> QED BY <2>1, <2>2
<1>5. HistoryInv'
  BY <1>2, <1>3, <1>4 DEF HistoryInv
<1> QED BY <1>3, <1>5

-----------------------------------------------------------------------------
(* A search. What it has found was visible at some moment since it began,  *)
(* and what was visible all the while it finds.                            *)

Seen(log, since, c) == \E n \in since..Len(log) : Visible(StatusIn(log, c, n))

Steady(log, since, c) == \A n \in since..Len(log) : Visible(StatusIn(log, c, n))

Sound(log, me, list) ==
  list \in Seq(Claims) /\ \A c \in Members(list) : Seen(log, me.since, c)

(* What each of the two primary strategies is to find.                     *)
Wanted(me, k, c) ==
  IF k = "lexical" THEN IF me.source = "gate" THEN Tokens[c] = Words ELSE Tokens[c] > 0
  ELSE Similarity[c] > 0

Complete(log, me, k, found) ==
  \A c \in Claims : Steady(log, me.since, c) /\ InScope(c, me.principal) /\ Wanted(me, k, c) => c \in found

(* The projection is read when nothing it has not processed is older than  *)
(* the search.                                                             *)
TaskInv(log, waiting, me, k, task) ==
  /\ "at" \in DOMAIN task
  /\ task.at \in {"events", "marks", "projection", "seeds", "hop"} => me.source = "gate"
  /\ task.at = "marks" => task.events \in me.since..Len(log)
  /\ task.at \in {"projection", "seeds", "hop"} => waiting \cap (1..me.since) = {}
  /\ task.at = "reading" =>
       /\ {"left", "list", "full"} \subseteq DOMAIN task
       /\ task.left \subseteq Claims /\ Sound(log, me, task.list)
       /\ ~task.full => Complete(log, me, "lexical", task.left \cup Members(task.list))
  /\ task.at = "seeds" => {"left", "next"} \subseteq DOMAIN task
  /\ task.at = "hop" => {"hop", "left", "next", "list"} \subseteq DOMAIN task /\ Sound(log, me, task.list)
  /\ task.at = "done" =>
       /\ Sound(log, me, task.list)
       /\ k \in {"lexical", "vector"} /\ ~task.full => Complete(log, me, k, Members(task.list))
       /\ k = "vector" /\ me.source # "gate" =>
            task.listed \subseteq Claims /\ \A c \in task.listed : Seen(log, me.since, c)

DoneInv(s, log, me) ==
  /\ me.until \in me.since..Len(log)
  /\ \A c \in Members(me.hits) :
       /\ c \in Claims /\ MayRead(me.principal, c)
       /\ \E n \in me.since..me.until : Visible(StatusIn(log, c, n))
       /\ \A resolution \in me.before : c \in resolution.claims => c = resolution.preferred
  /\ \A c \in Claims \ Members(me.hits) :
       /\ \A n \in me.since..me.until : Visible(StatusIn(log, c, n))
       /\ InScope(c, me.principal) /\ MayRead(me.principal, c)
       /\ \A resolution \in me.resolutions[1] : c \notin Losers(resolution)
       => \/ Len(me.hits) = Budget(s)
          \/ \A k \in {"lexical", "vector"} : Wanted(me, k, c) => me.task[k].full

Fields == {"pc", "principal", "source", "since", "until", "before", "resolutions", "order", "hits", "task"}

PrimaryAreDone(me) == \A k \in {"lexical", "vector"} : me.task[k].at = "done"

SearchInv(s, me, log, waiting, resolved) ==
  /\ me.pc \in {"idle", "candidates", "ranked", "done"}
  /\ me.pc # "idle" =>
       /\ Fields \subseteq DOMAIN me
       /\ me.principal = Principal(Bearer(s)) /\ me.since \in 0..Len(log)
       /\ me.before \subseteq resolved
       /\ me.resolutions = None \/ \E all : me.resolutions = <<all>> /\ me.before \subseteq all
       /\ {"lexical", "vector"} \subseteq DOMAIN me.task
       /\ DOMAIN me.task \subseteq {"lexical", "vector", "graph"}
       /\ \A k \in DOMAIN me.task : TaskInv(log, waiting, me, k, me.task[k])
       /\ "graph" \in DOMAIN me.task => PrimaryAreDone(me)
       /\ me.pc = "ranked" =>
            /\ Sound(log, me, me.order) /\ PrimaryAreDone(me)
            /\ \A k \in {"lexical", "vector"} : Members(me.task[k].list) \subseteq Members(me.order)
       /\ me.pc = "done" => DoneInv(s, log, me)

SearchesInv == \A s \in Searchers : SearchInv(s, search[s], changes, pending, resolutions)

LEMMA SoundGrows ==
  ASSUME NEW log, NEW longer, Grows(log, longer), NEW me, me.since \in 0..Len(log), NEW list, Sound(log, me, list)
  PROVE  Sound(longer, me, list)
<1>1. ASSUME NEW c \in Claims, Seen(log, me.since, c) PROVE Seen(longer, me.since, c)
  BY <1>1 DEF Seen, Grows
<1>2. Members(list) \subseteq Claims
  BY DEF Sound, Members
<1> QED BY <1>1, <1>2 DEF Sound

LEMMA CompleteGrows ==
  ASSUME NEW log, NEW longer, Grows(log, longer), NEW me, me.since \in 0..Len(log), NEW k, NEW found,
         Complete(log, me, k, found)
  PROVE  Complete(longer, me, k, found)
<1>1. ASSUME NEW c \in Claims, Steady(longer, me.since, c) PROVE Steady(log, me.since, c)
  BY <1>1 DEF Steady, Grows
<1> QED BY <1>1 DEF Complete

(* What is said of a search stays while the claims change, the projection  *)
(* follows and conflicts are resolved.                                     *)
LEMMA SearchGrows ==
  ASSUME NEW s \in Searchers, NEW me, NEW log, NEW waiting, NEW resolved, SearchInv(s, me, log, waiting, resolved),
         NEW longer, Grows(log, longer), NEW later, later \cap (1..Len(log)) \subseteq waiting,
         NEW more, resolved \subseteq more
  PROVE  SearchInv(s, me, longer, later, more)
<1> SUFFICES ASSUME me.pc # "idle" PROVE SearchInv(s, me, longer, later, more)
  BY DEF SearchInv
<1>1. me.since \in 0..Len(log) /\ Len(log) \in Nat /\ Len(longer) \in Nat /\ Len(log) <= Len(longer)
  BY DEF SearchInv, Grows
<1>2. ASSUME NEW k \in DOMAIN me.task PROVE TaskInv(longer, later, me, k, me.task[k])
  <2>1. PICK task : task = me.task[k]
    OBVIOUS
  <2>2. TaskInv(log, waiting, me, k, task)
    BY <2>1 DEF SearchInv
  <2>3. task.at = "marks" => task.events \in me.since..Len(longer)
    BY <1>1, <2>2 DEF TaskInv
  <2>4. waiting \cap (1..me.since) = {} => later \cap (1..me.since) = {}
    BY <1>1
  <2>5. task.at = "reading" =>
       /\ {"left", "list", "full"} \subseteq DOMAIN task
       /\ task.left \subseteq Claims /\ Sound(longer, me, task.list)
       /\ ~task.full => Complete(longer, me, "lexical", task.left \cup Members(task.list))
    BY <1>1, <2>2, SoundGrows, CompleteGrows DEF TaskInv
  <2>6. task.at = "hop" =>
          {"hop", "left", "next", "list"} \subseteq DOMAIN task /\ Sound(longer, me, task.list)
    BY <1>1, <2>2, SoundGrows DEF TaskInv
  <2>7. task.at = "done" =>
       /\ Sound(longer, me, task.list)
       /\ k \in {"lexical", "vector"} /\ ~task.full => Complete(longer, me, k, Members(task.list))
    BY <1>1, <2>2, SoundGrows, CompleteGrows DEF TaskInv
  <2>8. task.at = "done" /\ k = "vector" /\ me.source # "gate" =>
            task.listed \subseteq Claims /\ \A c \in task.listed : Seen(longer, me.since, c)
    <3>1. ASSUME NEW c \in Claims, Seen(log, me.since, c) PROVE Seen(longer, me.since, c)
      BY <1>1, <3>1 DEF Seen, Grows
    <3> QED BY <2>2, <3>1 DEF TaskInv
  <2>9. TaskInv(longer, later, me, k, task)
    BY <2>2, <2>3, <2>4, <2>5, <2>6, <2>7, <2>8 DEF TaskInv
  <2> QED BY <2>1, <2>9
<1>3. me.pc = "ranked" => Sound(longer, me, me.order)
  BY <1>1, SoundGrows DEF SearchInv
<1>4. me.pc = "done" => DoneInv(s, longer, me)
  <2> SUFFICES ASSUME me.pc = "done" PROVE DoneInv(s, longer, me)
    OBVIOUS
  <2>1. DoneInv(s, log, me)
    BY DEF SearchInv
  <2>2. me.until \in me.since..Len(longer) /\ me.until \in me.since..Len(log)
    BY <1>1, <2>1 DEF DoneInv
  <2>3. \A n \in me.since..me.until : n \in 0..Len(log)
    BY <1>1, <2>2
  <2>4. \A c \in Claims : \A n \in me.since..me.until : StatusIn(longer, c, n) = StatusIn(log, c, n)
    BY <2>3 DEF Grows
  <2>5. \A c \in Members(me.hits) :
       /\ c \in Claims /\ MayRead(me.principal, c)
       /\ \E n \in me.since..me.until : Visible(StatusIn(longer, c, n))
       /\ \A resolution \in me.before : c \in resolution.claims => c = resolution.preferred
    BY <2>1, <2>4 DEF DoneInv
  <2>6. \A c \in Claims : (\A n \in me.since..me.until : Visible(StatusIn(longer, c, n)))
          => (\A n \in me.since..me.until : Visible(StatusIn(log, c, n)))
    BY <2>4
  <2> QED BY <2>1, <2>2, <2>5, <2>6 DEF DoneInv
<1>5. /\ me.since \in 0..Len(longer) /\ me.before \subseteq more
  BY <1>1 DEF SearchInv
<1> QED BY <1>2, <1>3, <1>4, <1>5 DEF SearchInv

(* A row of the projection, when everything before the search is in it,    *)
(* shows a claim that was visible since, and every claim that always was.  *)
LEMMA RowsAreFresh ==
  ASSUME KnowledgeInv, HistoryInv, NEW since \in 0..Len(changes), pending \cap (1..since) = {},
         NEW c \in Claims
  PROVE  /\ rows[c] # None => Seen(changes, since, c)
         /\ Steady(changes, since, c) => rows[c] # None
<1>1. PICK k \in 0..Len(changes) :
        /\ rows[c] = Shown(StatusIn(changes, c, k))
        /\ \A n \in (k + 1)..Len(changes) : changes[n].claim = c => n \in pending
  BY DEF HistoryInv, RowIsOf
<1>2. Len(changes) \in Nat /\ IsLog(changes)
  BY DEF HistoryInv, IsLog
<1>3. PICK n \in since..Len(changes) : StatusIn(changes, c, n) = StatusIn(changes, c, k)
  <2>1. CASE k >= since
    BY <1>2, <2>1
  <2>2. CASE ~(k >= since)
    <3>1. \A n \in (k + 1)..since : n \in (k + 1)..Len(changes) /\ n \in 1..since
      BY <1>2
    <3>2. \A n \in (k + 1)..since : changes[n].claim # c
      BY <1>1, <3>1
    <3>3. StatusIn(changes, c, k) = StatusIn(changes, c, since)
      BY <1>2, <2>2, <3>2, NoChangeBetween
    <3> QED BY <1>2, <3>3
  <2> QED BY <2>1, <2>2
<1>4. rows[c] # None => Visible(StatusIn(changes, c, n))
  BY <1>1, <1>3 DEF Shown
<1>5. Visible(StatusIn(changes, c, n)) => rows[c] # None
  <2>1. StatusIn(changes, c, k) \in {"absent", "asserted", "retracted"}
    BY <1>2, StatusTypes
  <2> QED BY <1>1, <1>3, <2>1, RetrievalAssumption DEF Shown, Visible
<1> QED BY <1>3, <1>4, <1>5 DEF Seen, Steady

(* The same of the store.                                                  *)
LEMMA TheStoreIsFresh ==
  ASSUME HistoryInv, NEW since \in 0..Len(changes), NEW c \in Claims
  PROVE  /\ Visible(status[c]) => Seen(changes, since, c)
         /\ Steady(changes, since, c) => Visible(status[c])
<1>1. status[c] = StatusIn(changes, c, Len(changes))
  BY DEF HistoryInv
<1>2. Len(changes) \in since..Len(changes)
  BY DEF HistoryInv, IsLog
<1> QED BY <1>1, <1>2 DEF Seen, Steady

(* A step of a task.                                                       *)
Goes(s, k, task) ==
  /\ search[s].pc = "candidates" /\ k \in DOMAIN search[s].task /\ search[s].task[k].at # "done"
  /\ TaskInv(changes, pending, search[s], k, task)
  /\ search' = [search EXCEPT ![s].task[k] = task]

LEMMA TaskStep ==
  ASSUME NEW s \in Searchers, DOMAIN search = Searchers, SearchesInv, UNCHANGED knowledge,
         \E k, task : Goes(s, k, task)
  PROVE  SearchesInv'
<1>1. PICK k, task : Goes(s, k, task)
  OBVIOUS
<1>2. PICK me, log, waiting, resolved :
        me = search[s] /\ log = changes /\ waiting = pending /\ resolved = resolutions
  OBVIOUS
<1>3. SearchInv(s, me, log, waiting, resolved)
  BY <1>2 DEF SearchesInv
<1>4. /\ me.pc = "candidates" /\ k \in DOMAIN me.task /\ me.task[k].at # "done"
      /\ TaskInv(log, waiting, me, k, task)
  BY <1>1, <1>2 DEF Goes
<1>5. PICK next : next = [me EXCEPT !.task = [@ EXCEPT ![k] = task]]
  OBVIOUS
<1>6. search' = [search EXCEPT ![s] = next]
  BY <1>1, <1>2, <1>5 DEF Goes
<1>7. /\ Fields \subseteq DOMAIN me /\ DOMAIN next = DOMAIN me
      /\ \A field \in Fields \ {"task"} : next[field] = me[field]
      /\ next.task = [me.task EXCEPT ![k] = task]
  BY <1>3, <1>4, <1>5 DEF SearchInv, Fields
<1>8. /\ next.pc = me.pc /\ next.principal = me.principal /\ next.source = me.source
      /\ next.since = me.since /\ next.before = me.before /\ next.resolutions = me.resolutions
  BY <1>7 DEF Fields
<1>9. "graph" \notin DOMAIN me.task \/ k = "graph"
  BY <1>3, <1>4 DEF SearchInv, PrimaryAreDone
<1>10. ASSUME NEW j \in DOMAIN next.task PROVE TaskInv(log, waiting, next, j, next.task[j])
  <2>1. TaskInv(log, waiting, me, j, next.task[j])
    BY <1>3, <1>4, <1>7 DEF SearchInv
  <2> QED BY <1>8, <2>1 DEF TaskInv, Sound, Complete, Wanted
<1>11. "graph" \in DOMAIN next.task => PrimaryAreDone(next)
  BY <1>3, <1>4, <1>7, <1>9 DEF SearchInv, PrimaryAreDone
<1>12. SearchInv(s, next, log, waiting, resolved)
  BY <1>3, <1>4, <1>7, <1>8, <1>10, <1>11 DEF SearchInv
<1> QED BY <1>2, <1>6, <1>12 DEF SearchesInv, knowledge

(* The facts about a search that its tasks need.                           *)
Runs(s, me) ==
  /\ me.since \in 0..Len(changes)
  /\ \A k \in DOMAIN me.task : TaskInv(changes, pending, me, k, me.task[k])

LEMMA Running ==
  ASSUME SearchesInv, NEW s \in Searchers, NEW k, NEW at, Task(s, k, at)
  PROVE  /\ Runs(s, search[s]) /\ k \in DOMAIN search[s].task /\ search[s].pc = "candidates"
         /\ search[s].task[k].at = at
         /\ TaskInv(changes, pending, search[s], k, search[s].task[k])
         /\ search[s].since \in 0..Len(changes)
BY DEF SearchesInv, SearchInv, Task, Runs

LEMMA Going ==
  ASSUME SearchesInv, NEW s \in Searchers, NEW k, NEW at, Task(s, k, at), at # "done", NEW task,
         TaskInv(changes, pending, search[s], k, task), Go(s, k, task)
  PROVE  Goes(s, k, task)
BY Running DEF Goes, Go

LEMMA ProjectionList ==
  ASSUME KnowledgeInv, HistoryInv, NEW me, me.since \in 0..Len(changes), pending \cap (1..me.since) = {},
         NEW list \in Seq(Claims), \A c \in Members(list) : rows[c] # None
  PROVE  Sound(changes, me, list)
<1>1. Members(list) \subseteq Claims
  BY DEF Members
<1> QED BY <1>1, RowsAreFresh DEF Sound

LEMMA StoreList ==
  ASSUME HistoryInv, NEW me, me.since \in 0..Len(changes),
         NEW list \in Seq(Claims), \A c \in Members(list) : Visible(status[c])
  PROVE  Sound(changes, me, list)
<1>1. Members(list) \subseteq Claims
  BY DEF Members
<1> QED BY <1>1, TheStoreIsFresh DEF Sound

LEMMA GateSteps ==
  ASSUME SearchesInv, HistoryInv, NEW s \in Searchers, NEW k,
         GateEvents(s, k) \/ GateMarks(s, k) \/ ProjectionFails(s, k)
  PROVE  \E task : Goes(s, k, task)
<1>0. Len(changes) \in Nat
  BY DEF HistoryInv, IsLog
<1>1. CASE GateEvents(s, k)
  <2> DEFINE task == [at |-> "marks", events |-> Len(changes)]
  <2>1. TaskInv(changes, pending, search[s], k, task)
    <3>1. Task(s, k, "events")
      BY <1>1 DEF GateEvents
    <3>2. search[s].source = "gate" /\ search[s].since \in 0..Len(changes)
      BY <3>1, Running DEF TaskInv
    <3> QED BY <1>0, <3>2 DEF TaskInv
  <2>2. Goes(s, k, task)
    BY <1>1, <2>1, Running DEF GateEvents, Goes, Go
  <2> QED BY <2>2
<1>2. ASSUME NEW at \in {"marks", "projection", "seeds", "hop"}, Task(s, k, at), Go(s, k, Waiting("canonical"))
      PROVE  \E task : Goes(s, k, task)
  <2>1. TaskInv(changes, pending, search[s], k, Waiting("canonical"))
    BY DEF TaskInv, Waiting
  <2>2. Goes(s, k, Waiting("canonical"))
    BY <1>2, <2>1, Running DEF Goes, Go
  <2> QED BY <2>2
<1>3. CASE GateMarks(s, k) /\ Ready(search[s].task[k].events) /\ Go(s, k, Waiting("projection"))
  <2>1. /\ search[s].task[k].events \in search[s].since..Len(changes)
        /\ search[s].source = "gate" /\ search[s].since \in 0..Len(changes)
    BY <1>3, Running DEF GateMarks, TaskInv
  <2>2. pending \cap (1..search[s].since) = {}
    BY <1>0, <1>3, <2>1 DEF Ready
  <2>3. TaskInv(changes, pending, search[s], k, Waiting("projection"))
    BY <2>1, <2>2 DEF TaskInv, Waiting
  <2>4. Goes(s, k, Waiting("projection"))
    BY <1>3, <2>3, Running DEF GateMarks, Goes, Go
  <2> QED BY <2>4
<1> QED BY <1>1, <1>2, <1>3 DEF GateMarks, ProjectionFails

LEMMA ProjectionSteps ==
  ASSUME SearchesInv, KnowledgeInv, HistoryInv, NEW s \in Searchers,
         SearchProjectionLexical(s) \/ SearchProjectionVector(s)
  PROVE  \E k, task : Goes(s, k, task)
<1> DEFINE principal == search[s].principal
           limit(k) == IF k = "lexical" THEN LexicalLimit ELSE VectorLimit
<1>1. PICK k, found, score, list :
        /\ k \in {"lexical", "vector"} /\ found \in SUBSET ProjectionRows(principal)
        /\ Task(s, k, "projection")
        /\ list \in Ranked(found, score, limit(k))
        /\ Go(s, k, Found(list, Cardinality(found) > limit(k)))
        /\ \A c \in ProjectionRows(principal) : (IF k = "lexical" THEN Tokens[c] = Words ELSE TRUE) => c \in found
  <2>1. CASE SearchProjectionLexical(s)
    BY <2>1 DEF SearchProjectionLexical
  <2>2. CASE SearchProjectionVector(s)
    BY <2>2 DEF SearchProjectionVector
  <2> QED BY <2>1, <2>2
<1>2. PICK me : me = search[s]
  OBVIOUS
<1>3. me.since \in 0..Len(changes) /\ pending \cap (1..me.since) = {} /\ me.source = "gate"
  BY <1>1, <1>2, Running DEF TaskInv
<1>4. found \in SUBSET Claims /\ \A c \in found : rows[c] # None
  BY <1>1 DEF ProjectionRows
<1>5. limit(k) \in Nat
  BY RetrievalAssumption
<1>6. /\ list \in Seq(Claims) /\ Members(list) \subseteq found
      /\ ~(Cardinality(found) > limit(k)) => Members(list) = found
  BY <1>1, <1>4, <1>5, Ranking
<1>7. Sound(changes, me, list)
  BY <1>3, <1>4, <1>6, ProjectionList
<1>8. Complete(changes, me, k, found)
  <2> SUFFICES ASSUME NEW c \in Claims, Steady(changes, me.since, c), InScope(c, me.principal), Wanted(me, k, c)
               PROVE  c \in found
    BY DEF Complete
  <2>1. rows[c] # None
    BY <1>3, RowsAreFresh
  <2>2. c \in ProjectionRows(principal)
    BY <1>2, <2>1 DEF ProjectionRows
  <2> QED BY <1>1, <1>3, <2>2 DEF Wanted
<1>9. PICK task : task = Found(list, Cardinality(found) > limit(k))
  OBVIOUS
<1>10. task.at = "done" /\ task.list = list /\ "at" \in DOMAIN task /\ (~task.full => Members(list) = found)
  BY <1>6, <1>9 DEF Found
<1>11. TaskInv(changes, pending, me, k, task)
  BY <1>3, <1>7, <1>8, <1>10 DEF TaskInv
<1>12. Goes(s, k, task)
  BY <1>1, <1>2, <1>9, <1>11, Running DEF Goes, Go
<1> QED BY <1>12

(* What the lexical index of a store matches.                              *)
Matching(principal) ==
  {c \in Claims : status[c] # "absent" /\ Tokens[c] > 0 /\ Record(c).tenant = principal.tenant}

LEMMA MatchesAreWanted ==
  ASSUME HistoryInv, NEW me, me.since \in 0..Len(changes), NEW c \in Claims,
         Steady(changes, me.since, c), InScope(c, me.principal), Wanted(me, "lexical", c)
  PROVE  c \in ListClaims(me.principal) /\ c \in Matching(me.principal) /\ Tokens[c] > 0
<1>1. Visible(status[c])
  BY TheStoreIsFresh
<1>2. Tokens[c] > 0
  BY RetrievalAssumption DEF Wanted
<1> QED BY <1>1, <1>2 DEF ListClaims, Matching, InScope, Visible

LEMMA LexicalIdsStep ==
  ASSUME SearchesInv, HistoryInv, NEW s \in Searchers, SearchLexicalIds(s)
  PROVE  \E k, task : Goes(s, k, task)
<1>1. PICK me : me = search[s]
  OBVIOUS
<1>2. PICK ids \in SUBSET Matching(me.principal) :
        Go(s, "lexical", [at |-> "reading", left |-> ids, list |-> <<>>, full |-> ids # Matching(me.principal)])
  BY <1>1 DEF SearchLexicalIds, Matching
<1>3. me.since \in 0..Len(changes)
  BY <1>1, Running DEF SearchLexicalIds
<1>4. PICK task : task = [at |-> "reading", left |-> ids, list |-> <<>>, full |-> ids # Matching(me.principal)]
  OBVIOUS
<1>5. ids \subseteq Claims /\ Members(<<>>) = {} /\ <<>> \in Seq(Claims)
  BY DEF Matching, Members
<1>6. Complete(changes, me, "lexical", Matching(me.principal))
  BY <1>3, MatchesAreWanted DEF Complete
<1>7. /\ task.at = "reading" /\ DOMAIN task = {"at", "left", "list", "full"} /\ task.list = <<>> /\ task.left = ids
      /\ ~task.full => ids = Matching(me.principal)
  BY <1>4
<1>8. ~task.full => Complete(changes, me, "lexical", task.left \cup Members(task.list))
  BY <1>5, <1>6, <1>7 DEF Complete
<1>9. TaskInv(changes, pending, me, "lexical", task)
  BY <1>5, <1>7, <1>8 DEF TaskInv, Sound
<1>10. Goes(s, "lexical", task)
  <2>1. Task(s, "lexical", "canonical")
    BY DEF SearchLexicalIds
  <2> QED BY <1>1, <1>2, <1>4, <1>9, <2>1, Going
<1> QED BY <1>10

LEMMA LexicalReadStep ==
  ASSUME SearchesInv, HistoryInv, NEW s \in Searchers, SearchLexicalRead(s)
  PROVE  \E k, task : Goes(s, k, task)
<1>1. PICK me, task : me = search[s] /\ task = me.task["lexical"]
  OBVIOUS
<1>2. /\ me.since \in 0..Len(changes) /\ task.at = "reading" /\ TaskInv(changes, pending, me, "lexical", task)
  BY <1>1, Running DEF SearchLexicalRead
<1>3. /\ {"left", "list", "full", "at"} \subseteq DOMAIN task /\ task.left \subseteq Claims
      /\ Sound(changes, me, task.list)
      /\ ~task.full => Complete(changes, me, "lexical", task.left \cup Members(task.list))
  BY <1>2 DEF TaskInv
<1>4. CASE task.left = {} /\ Go(s, "lexical", Found(task.list, task.full))
  <2>1. PICK next : next = Found(task.list, task.full)
    OBVIOUS
  <2>2. next.at = "done" /\ next.list = task.list /\ next.full = task.full /\ "at" \in DOMAIN next
    BY <2>1 DEF Found
  <2>3. ~next.full => Complete(changes, me, "lexical", Members(next.list))
    BY <1>3, <1>4, <2>2 DEF Complete
  <2>4. TaskInv(changes, pending, me, "lexical", next)
    BY <1>3, <2>2, <2>3 DEF TaskInv
  <2>5. Goes(s, "lexical", next)
    BY <1>1, <1>4, <2>1, <2>4, Running DEF SearchLexicalRead, Goes, Go
  <2> QED BY <2>5
<1>5. ASSUME NEW c \in task.left,
             Go(s, "lexical", [task EXCEPT !.left = @ \ {c},
                                           !.list = IF c \in ListClaims(me.principal) THEN Append(@, c) ELSE @])
      PROVE  \E k, next : Goes(s, k, next)
  <2>1. PICK next :
          next = [task EXCEPT !.left = @ \ {c},
                              !.list = IF c \in ListClaims(me.principal) THEN Append(@, c) ELSE @]
    OBVIOUS
  <2>2. /\ DOMAIN next = DOMAIN task /\ next.at = "reading" /\ next.left = task.left \ {c} /\ next.full = task.full
        /\ next.list = IF c \in ListClaims(me.principal) THEN Append(task.list, c) ELSE task.list
    BY <1>2, <1>3, <2>1
  <2>3. /\ task.list \in Seq(Claims) /\ next.list \in Seq(Claims)
        /\ Members(next.list) = IF c \in ListClaims(me.principal) THEN Members(task.list) \cup {c}
                                ELSE Members(task.list)
    BY <1>3, <2>2, Joining DEF Sound
  <2>4. c \in ListClaims(me.principal) => Seen(changes, me.since, c)
    BY <1>2, <1>3, TheStoreIsFresh DEF ListClaims
  <2>5. Sound(changes, me, next.list)
    BY <1>3, <2>3, <2>4 DEF Sound
  <2>6. ~next.full => Complete(changes, me, "lexical", next.left \cup Members(next.list))
    <3> SUFFICES ASSUME ~next.full, NEW d \in Claims, Steady(changes, me.since, d),
                        InScope(d, me.principal), Wanted(me, "lexical", d)
                 PROVE  d \in next.left \cup Members(next.list)
      BY DEF Complete
    <3>1. d \in ListClaims(me.principal)
      BY <1>2, MatchesAreWanted
    <3>2. d \in task.left \cup Members(task.list)
      BY <1>3, <2>2 DEF Complete
    <3> QED BY <2>2, <2>3, <3>1, <3>2
  <2>7. TaskInv(changes, pending, me, "lexical", next)
    BY <1>3, <2>2, <2>5, <2>6 DEF TaskInv
  <2>8. Goes(s, "lexical", next)
    <3>1. Task(s, "lexical", "reading")
      BY DEF SearchLexicalRead
    <3> QED BY <1>1, <1>5, <2>1, <2>7, <3>1, Going
  <2> QED BY <2>8
<1>6. \/ task.left = {} /\ Go(s, "lexical", Found(task.list, task.full))
      \/ \E c \in task.left :
           Go(s, "lexical", [task EXCEPT !.left = @ \ {c},
                                         !.list = IF c \in ListClaims(me.principal) THEN Append(@, c) ELSE @])
  BY <1>1 DEF SearchLexicalRead
<1> QED BY <1>4, <1>5, <1>6

(* The stores that find, filter and rank at once.                          *)
LEMMA AtOnceStep ==
  ASSUME SearchesInv, HistoryInv, NEW s \in Searchers,
         SearchLexicalAtOnce(s) \/ RankClaimsLexically(s)
  PROVE  \E k, task : Goes(s, k, task)
<1>1. PICK me : me = search[s]
  OBVIOUS
<1>2. \E at \in {"sqlite", "memory"} : Task(s, "lexical", at)
  BY DEF SearchLexicalAtOnce, RankClaimsLexically
<1>3. me.since \in 0..Len(changes)
  BY <1>1, <1>2, Running
<1>4. PICK list, full :
        /\ list \in Seq(Claims) /\ Members(list) \subseteq ListClaims(me.principal)
        /\ ~full => \A c \in ListClaims(me.principal) : c \in Matching(me.principal) => c \in Members(list)
        /\ Go(s, "lexical", Found(list, full))
  <2>1. CASE SearchLexicalAtOnce(s)
    <3>1. PICK ids \in SUBSET Matching(me.principal) :
            \E list \in SetToSeqs(ids \cap ListClaims(me.principal)) :
              Go(s, "lexical", Found(list, ids # Matching(me.principal)))
      BY <1>1, <2>1 DEF SearchLexicalAtOnce, Matching
    <3>2. PICK some : some = ids \cap ListClaims(me.principal)
      OBVIOUS
    <3>3. PICK list \in SetToSeqs(some) : Go(s, "lexical", Found(list, ids # Matching(me.principal)))
      BY <3>1, <3>2
    <3>4. some \in SUBSET Claims
      BY <3>2 DEF ListClaims
    <3>5. list \in Seq(Claims) /\ Members(list) = some
      BY <3>4, Listing
    <3>6. PICK full : full = (ids # Matching(me.principal))
      OBVIOUS
    <3>7. ~full => \A c \in ListClaims(me.principal) : c \in Matching(me.principal) => c \in some
      BY <3>2, <3>6
    <3> QED BY <3>2, <3>3, <3>5, <3>6, <3>7
  <2>2. CASE RankClaimsLexically(s)
    <3> DEFINE found == {c \in ListClaims(me.principal) : Tokens[c] > 0}
    <3>1. PICK list \in Ranked(found, Tokens, LexicalLimit) :
            Go(s, "lexical", Found(list, Cardinality(found) > LexicalLimit))
      BY <1>1, <2>2 DEF RankClaimsLexically
    <3>2. found \in SUBSET Claims /\ LexicalLimit \in Nat
      BY RetrievalAssumption DEF ListClaims
    <3>3. /\ list \in Seq(Claims) /\ Members(list) \subseteq found
          /\ ~(Cardinality(found) > LexicalLimit) => Members(list) = found
      BY <3>1, <3>2, Ranking
    <3>4. \A c \in ListClaims(me.principal) : c \in Matching(me.principal) => c \in found
      BY DEF Matching
    <3>5. Members(list) \subseteq ListClaims(me.principal)
      BY <3>3
    <3> HIDE DEF found
    <3> QED BY <3>1, <3>3, <3>4, <3>5
  <2> QED BY <2>1, <2>2
<1>5. PICK task : task = Found(list, full)
  OBVIOUS
<1>6. task.at = "done" /\ task.list = list /\ task.full = full /\ "at" \in DOMAIN task
  BY <1>5 DEF Found
<1>7. Sound(changes, me, list)
  BY <1>3, <1>4, StoreList DEF ListClaims
<1>8. ~full => Complete(changes, me, "lexical", Members(list))
  BY <1>3, <1>4, MatchesAreWanted DEF Complete
<1>9. TaskInv(changes, pending, me, "lexical", task)
  BY <1>6, <1>7, <1>8 DEF TaskInv
<1>10. Goes(s, "lexical", task)
  <2>1. PICK at \in {"sqlite", "memory"} : Task(s, "lexical", at)
    BY <1>2
  <2> QED BY <1>1, <1>4, <1>5, <1>9, <2>1, Going
<1> QED BY <1>10

LEMMA CanonicalVectorStep ==
  ASSUME SearchesInv, HistoryInv, NEW s \in Searchers, SearchCanonicalVector(s)
  PROVE  \E k, task : Goes(s, k, task)
<1>1. PICK me, listed, similar : me = search[s] /\ listed = ListClaims(me.principal)
                                 /\ similar = {c \in listed : Similarity[c] > 0}
  OBVIOUS
<1>2. Task(s, "vector", "canonical")
  BY DEF SearchCanonicalVector
<1>3. me.since \in 0..Len(changes)
  BY <1>1, <1>2, Running
<1>4. PICK list \in Ranked(similar, Similarity, VectorLimit) :
        Go(s, "vector", [at |-> "done", list |-> list, full |-> Cardinality(similar) > VectorLimit,
                         listed |-> IF me.source = "gate" THEN {} ELSE listed])
  BY <1>1 DEF SearchCanonicalVector
<1>5. similar \in SUBSET Claims /\ VectorLimit \in Nat /\ listed \subseteq Claims
      /\ \A c \in listed : Visible(status[c])
  BY <1>1, RetrievalAssumption DEF ListClaims
<1>6. /\ list \in Seq(Claims) /\ Members(list) \subseteq similar
      /\ ~(Cardinality(similar) > VectorLimit) => Members(list) = similar
  BY <1>5, Ranking
<1>7. Sound(changes, me, list)
  BY <1>1, <1>3, <1>5, <1>6, StoreList
<1>8. Complete(changes, me, "vector", similar)
  <2> SUFFICES ASSUME NEW c \in Claims, Steady(changes, me.since, c), InScope(c, me.principal), Wanted(me, "vector", c)
               PROVE  c \in similar
    BY DEF Complete
  <2>1. Visible(status[c])
    BY <1>3, TheStoreIsFresh
  <2> QED BY <1>1, <2>1 DEF ListClaims, Wanted
<1>9. PICK task :
        task = [at |-> "done", list |-> list, full |-> Cardinality(similar) > VectorLimit,
                listed |-> IF me.source = "gate" THEN {} ELSE listed]
  OBVIOUS
<1>10. /\ task.at = "done" /\ task.list = list /\ "at" \in DOMAIN task /\ (~task.full => Members(list) = similar)
       /\ me.source # "gate" => task.listed = listed
  BY <1>6, <1>9
<1>11. \A c \in listed : c \in Claims /\ Seen(changes, me.since, c)
  BY <1>3, <1>5, TheStoreIsFresh
<1>12. TaskInv(changes, pending, me, "vector", task)
  BY <1>7, <1>8, <1>10, <1>11 DEF TaskInv
<1>13. Goes(s, "vector", task)
  BY <1>1, <1>2, <1>4, <1>9, <1>12, Going
<1> QED BY <1>13

-----------------------------------------------------------------------------
(* The graph. What it finds was visible, whatever it is near to.           *)

LEMMA NothingFound ==
  ASSUME NEW log, NEW waiting, NEW me, NEW full
  PROVE  TaskInv(log, waiting, me, "graph", Found(<<>>, full))
<1>1. <<>> \in Seq(Claims) /\ Members(<<>>) = {}
  BY DEF Members
<1> QED BY <1>1 DEF TaskInv, Found, Sound

LEMMA SeedSteps ==
  ASSUME SearchesInv, HistoryInv, NEW s \in Searchers, SeedGraph(s) \/ SeedGraphEntities(s)
  PROVE  \E k, task : Goes(s, k, task)
<1>1. PICK me, task : me = search[s] /\ task = me.task["graph"]
  OBVIOUS
<1>2. PICK at \in {"projection", "seeds"} : Task(s, "graph", at)
  BY DEF SeedGraph, SeedGraphEntities
<1>3. /\ me.source = "gate" /\ pending \cap (1..me.since) = {} /\ task.at = at
      /\ TaskInv(changes, pending, me, "graph", task)
  BY <1>1, <1>2, Running DEF TaskInv
<1>4. ASSUME NEW next, Go(s, "graph", next), TaskInv(changes, pending, me, "graph", next)
      PROVE  \E k, t : Goes(s, k, t)
  BY <1>1, <1>2, <1>4, Going
<1>5. CASE SeedGraph(s)
  <2>1. PICK next : next = [at |-> "seeds", left |-> Seeds(s), next |-> {}]
    OBVIOUS
  <2>2. TaskInv(changes, pending, me, "graph", next)
    BY <1>3, <2>1 DEF TaskInv
  <2> QED BY <1>4, <1>5, <2>1, <2>2 DEF SeedGraph
<1>6. CASE SeedGraphEntities(s)
  <2>1. /\ \/ \E seed \in task.left :
                Go(s, "graph",
                   [task EXCEPT !.left = @ \ {seed},
                                !.next = @ \cup IF rows[seed] = None THEN {} ELSE Connected(seed)])
           \/ Go(s, "graph", Found(<<>>, FALSE))
           \/ Go(s, "graph", [at |-> "hop", hop |-> 1, list |-> <<>>, left |-> task.next, next |-> {}])
        /\ Task(s, "graph", "seeds")
    BY <1>1, <1>6 DEF SeedGraphEntities
  <2>2. task.at = "seeds" /\ {"at", "left", "next"} \subseteq DOMAIN task
    <3>1. TaskInv(changes, pending, me, "graph", task) /\ task.at = "seeds"
      BY <1>1, <2>1, Running
    <3> QED BY <3>1 DEF TaskInv
  <2>3. ASSUME NEW seed \in task.left,
               Go(s, "graph",
                   [task EXCEPT !.left = @ \ {seed},
                                !.next = @ \cup IF rows[seed] = None THEN {} ELSE Connected(seed)])
        PROVE  \E k, t : Goes(s, k, t)
    <3>1. PICK next : next = [task EXCEPT !.left = @ \ {seed},
                                          !.next = @ \cup IF rows[seed] = None THEN {} ELSE Connected(seed)]
      OBVIOUS
    <3>2. DOMAIN next = DOMAIN task /\ next.at = "seeds"
      BY <2>2, <3>1
    <3>3. TaskInv(changes, pending, me, "graph", next)
      BY <1>3, <2>2, <3>2 DEF TaskInv
    <3> QED BY <1>4, <2>3, <3>1, <3>3
  <2>4. CASE Go(s, "graph", Found(<<>>, FALSE))
    BY <1>4, <2>4, NothingFound
  <2>5. CASE Go(s, "graph", [at |-> "hop", hop |-> 1, list |-> <<>>, left |-> task.next, next |-> {}])
    <3>1. PICK next : next = [at |-> "hop", hop |-> 1, list |-> <<>>, left |-> task.next, next |-> {}]
      OBVIOUS
    <3>2. <<>> \in Seq(Claims) /\ Members(<<>>) = {}
      BY DEF Members
    <3>3. TaskInv(changes, pending, me, "graph", next)
      BY <1>3, <3>1, <3>2 DEF TaskInv, Sound
    <3> QED BY <1>4, <2>5, <3>1, <3>3
  <2> QED BY <2>1, <2>3, <2>4, <2>5
<1> QED BY <1>5, <1>6

LEMMA HopSteps ==
  ASSUME SearchesInv, KnowledgeInv, HistoryInv, NEW s \in Searchers, GraphRowsForEntity(s) \/ GraphHop(s)
  PROVE  \E k, task : Goes(s, k, task)
<1>1. PICK me, task : me = search[s] /\ task = me.task["graph"]
  OBVIOUS
<1>2. Task(s, "graph", "hop")
  BY DEF GraphRowsForEntity, GraphHop
<1>3. /\ me.source = "gate" /\ pending \cap (1..me.since) = {} /\ task.at = "hop"
      /\ TaskInv(changes, pending, me, "graph", task) /\ me.since \in 0..Len(changes)
      /\ {"at", "hop", "left", "next", "list"} \subseteq DOMAIN task /\ Sound(changes, me, task.list)
  <2>1. TaskInv(changes, pending, me, "graph", task) /\ task.at = "hop" /\ me.since \in 0..Len(changes)
    BY <1>1, <1>2, Running
  <2>2. me.source = "gate" /\ pending \cap (1..me.since) = {}
    BY <2>1 DEF TaskInv
  <2>3. {"at", "hop", "left", "next", "list"} \subseteq DOMAIN task /\ Sound(changes, me, task.list)
    BY <2>1 DEF TaskInv
  <2> QED BY <2>1, <2>2, <2>3
<1>4. ASSUME NEW next, Go(s, "graph", next), TaskInv(changes, pending, me, "graph", next)
      PROVE  \E k, t : Goes(s, k, t)
  BY <1>1, <1>2, <1>4, Going
<1>5. CASE GraphRowsForEntity(s)
  <2>1. PICK entity, more :
          /\ more \in SetToSeqs(Touching(ProjectionRows(me.principal), {entity})
                                 \ (Seeds(s) \cup Members(task.list)))
          /\ Go(s, "graph",
                [task EXCEPT !.left = @ \ {entity}, !.list = @ \o more,
                   !.next = @ \cup (EntitiesOf(Touching(ProjectionRows(me.principal), {entity})) \ {entity})])
    BY <1>1, <1>5 DEF GraphRowsForEntity
  <2>2. PICK next :
          next = [task EXCEPT !.left = @ \ {entity}, !.list = @ \o more,
                    !.next = @ \cup (EntitiesOf(Touching(ProjectionRows(me.principal), {entity})) \ {entity})]
    OBVIOUS
  <2>3. DOMAIN next = DOMAIN task /\ next.at = "hop" /\ next.list = task.list \o more
    BY <1>3, <2>2
  <2>4. PICK found : found = Touching(ProjectionRows(me.principal), {entity}) \ (Seeds(s) \cup Members(task.list))
    OBVIOUS
  <2>5. found \in SUBSET Claims /\ \A c \in found : rows[c] # None
    BY <2>4 DEF Touching, ProjectionRows
  <2>6. more \in SetToSeqs(found)
    BY <2>1, <2>4
  <2>7. more \in Seq(Claims) /\ Members(more) = found
    BY <2>5, <2>6, Listing
  <2>8. task.list \in Seq(Claims)
    BY <1>3 DEF Sound
  <2>9. /\ next.list \in Seq(Claims)
        /\ Members(next.list) = Members(task.list) \cup Members(more)
    BY <2>3, <2>7, <2>8, Joining
  <2>10. Sound(changes, me, more)
    BY <1>3, <2>5, <2>7, ProjectionList
  <2>11. Sound(changes, me, next.list)
    BY <1>3, <2>9, <2>10 DEF Sound
  <2>12. TaskInv(changes, pending, me, "graph", next)
    BY <1>3, <2>3, <2>11 DEF TaskInv
  <2> QED BY <1>4, <2>1, <2>2, <2>12
<1>6. CASE GraphHop(s)
  <2>1. \/ \E full : Go(s, "graph", Found(Cut(task.list, GraphLimit), full))
        \/ Go(s, "graph", [task EXCEPT !.hop = @ + 1, !.left = task.next, !.next = {}])
    BY <1>1, <1>6 DEF GraphHop
  <2>2. ASSUME NEW full, Go(s, "graph", Found(Cut(task.list, GraphLimit), full)) PROVE \E k, t : Goes(s, k, t)
    <3>1. PICK list : list = Cut(task.list, GraphLimit)
      OBVIOUS
    <3>2. GraphLimit \in Nat /\ task.list \in Seq(Claims)
      BY <1>3, RetrievalAssumption DEF Sound
    <3>3. list \in Seq(Claims) /\ Members(list) \subseteq Members(task.list)
      BY <3>1, <3>2, Cutting
    <3>4. Sound(changes, me, list)
      BY <1>3, <3>3 DEF Sound
    <3>5. TaskInv(changes, pending, me, "graph", Found(list, full))
      BY <3>4 DEF TaskInv, Found
    <3> QED BY <1>4, <2>2, <3>1, <3>5
  <2>3. CASE Go(s, "graph", [task EXCEPT !.hop = @ + 1, !.left = task.next, !.next = {}])
    <3>1. PICK next : next = [task EXCEPT !.hop = @ + 1, !.left = task.next, !.next = {}]
      OBVIOUS
    <3>2. DOMAIN next = DOMAIN task /\ next.at = "hop" /\ next.list = task.list
      BY <1>3, <3>1
    <3>3. TaskInv(changes, pending, me, "graph", next)
      BY <1>3, <3>2 DEF TaskInv
    <3> QED BY <1>4, <2>3, <3>1, <3>3
  <2> QED BY <2>1, <2>2, <2>3
<1> QED BY <1>5, <1>6

(* What is reached in some claims is among them.                           *)
LEMMA ReachedIsAmong ==
  ASSUME NEW found, NEW entities
  PROVE  \A hop \in DOMAIN Reached(found, entities) : Reached(found, entities)[hop] \subseteq found
BY DEF Reached, Touching

LEMMA CanonicalGraphStep ==
  ASSUME SearchesInv, HistoryInv, NEW s \in Searchers, SearchCanonicalGraph(s)
  PROVE  \E k, task : Goes(s, k, task)
<1>1. PICK me, listed : me = search[s] /\ listed = ListClaims(me.principal)
  OBVIOUS
<1>2. Task(s, "graph", "canonical")
  BY DEF SearchCanonicalGraph
<1>3. me.since \in 0..Len(changes)
  BY <1>1, <1>2, Running
<1>4. PICK reached, found, list :
        /\ reached = Reached(listed, EntitiesOf(Seeds(s) \cap listed))
        /\ found = (UNION {reached[hop] : hop \in DOMAIN reached}) \ Seeds(s)
        /\ list \in SetToSeqs(found)
        /\ Go(s, "graph", Found(Cut(list, GraphLimit), Len(list) > GraphLimit))
  BY <1>1 DEF SearchCanonicalGraph
<1>5. found \subseteq listed /\ listed \in SUBSET Claims /\ \A c \in listed : Visible(status[c])
  BY <1>1, <1>4, ReachedIsAmong DEF ListClaims
<1>6. list \in Seq(Claims) /\ Members(list) = found
  BY <1>4, <1>5, Listing
<1>7. GraphLimit \in Nat
  BY RetrievalAssumption
<1>8. Cut(list, GraphLimit) \in Seq(Claims) /\ Members(Cut(list, GraphLimit)) \subseteq found
  BY <1>6, <1>7, Cutting
<1>9. Sound(changes, me, Cut(list, GraphLimit))
  BY <1>3, <1>5, <1>8, StoreList
<1>10. TaskInv(changes, pending, me, "graph", Found(Cut(list, GraphLimit), Len(list) > GraphLimit))
  BY <1>9 DEF TaskInv, Found
<1>11. Goes(s, "graph", Found(Cut(list, GraphLimit), Len(list) > GraphLimit))
  BY <1>1, <1>2, <1>4, <1>10, Going
<1> QED BY <1>11

-----------------------------------------------------------------------------
(* The other steps of a search.                                            *)

Becomes(s, next) ==
  search' = [search EXCEPT ![s] = next] /\ SearchInv(s, next, changes, pending, resolutions)

LEMMA NextSearch ==
  ASSUME NEW s \in Searchers, DOMAIN search = Searchers, SearchesInv, UNCHANGED knowledge,
         \E next : Becomes(s, next)
  PROVE  SearchesInv'
<1>1. PICK next : Becomes(s, next)
  OBVIOUS
<1>2. PICK log, waiting, resolved : log = changes /\ waiting = pending /\ resolved = resolutions
  OBVIOUS
<1>3. SearchInv(s, next, log, waiting, resolved) /\ search' = [search EXCEPT ![s] = next]
  BY <1>1, <1>2 DEF Becomes
<1>4. \A r \in Searchers : SearchInv(r, search[r], log, waiting, resolved)
  BY <1>2 DEF SearchesInv
<1> QED BY <1>2, <1>3, <1>4 DEF SearchesInv, knowledge

(* A task of a search is the same for every record that agrees with it on  *)
(* what the search was begun with.                                         *)
Alike(me, next) ==
  /\ next.principal = me.principal /\ next.source = me.source /\ next.since = me.since
  /\ next.before = me.before

LEMMA TaskAlike ==
  ASSUME NEW log, NEW waiting, NEW me, NEW next, Alike(me, next), NEW k, NEW task, TaskInv(log, waiting, me, k, task)
  PROVE  TaskInv(log, waiting, next, k, task)
BY DEF Alike, TaskInv, Sound, Complete, Wanted

LEMMA BeginGraphStep ==
  ASSUME SearchesInv, NEW s \in Searchers, BeginGraph(s)
  PROVE  \E next : Becomes(s, next)
<1>1. PICK me, log, waiting, resolved :
        me = search[s] /\ log = changes /\ waiting = pending /\ resolved = resolutions
  OBVIOUS
<1>2. SearchInv(s, me, log, waiting, resolved) /\ me.pc = "candidates" /\ me.source = "gate"
  BY <1>1 DEF SearchesInv, BeginGraph
<1>3. PICK task \in {Found(<<>>, FALSE), Waiting("events")} :
        search' = [search EXCEPT ![s].task =
                     [k \in DOMAIN me.task \cup {"graph"} |-> IF k = "graph" THEN task ELSE me.task[k]]]
  BY <1>1 DEF BeginGraph
<1>4. PICK all : all = [k \in DOMAIN me.task \cup {"graph"} |-> IF k = "graph" THEN task ELSE me.task[k]]
  OBVIOUS
<1>5. "graph" \notin DOMAIN me.task
  BY <1>1 DEF BeginGraph
<1>6. PICK next : next = [me EXCEPT !.task = all]
  OBVIOUS
<1>7. search' = [search EXCEPT ![s] = next]
  BY <1>1, <1>3, <1>4, <1>6
<1>8. /\ Fields \subseteq DOMAIN me /\ DOMAIN next = DOMAIN me
      /\ \A field \in Fields \ {"task"} : next[field] = me[field]
      /\ next.task = all
  BY <1>2, <1>6 DEF SearchInv, Fields
<1>9. Alike(me, next) /\ next.pc = me.pc /\ next.resolutions = me.resolutions
  BY <1>8 DEF Fields, Alike
<1>10. {"lexical", "vector"} \subseteq DOMAIN me.task /\ DOMAIN me.task \subseteq {"lexical", "vector", "graph"}
  BY <1>2 DEF SearchInv
<1>11. \A k \in DOMAIN me.task : TaskInv(log, waiting, next, k, me.task[k])
  BY <1>2, <1>9, TaskAlike DEF SearchInv
<1>12. TaskInv(log, waiting, next, "graph", task)
  <2>1. <<>> \in Seq(Claims) /\ Members(<<>>) = {}
    BY DEF Members
  <2>2. next.source = "gate"
    BY <1>2, <1>9 DEF Alike
  <2>3. CASE task = Found(<<>>, FALSE)
    BY <2>1, <2>3 DEF TaskInv, Sound, Found
  <2>4. CASE task = Waiting("events")
    BY <2>2, <2>4 DEF TaskInv, Waiting
  <2> QED BY <2>3, <2>4
<1>13. \A k \in DOMAIN next.task : TaskInv(log, waiting, next, k, next.task[k])
  BY <1>4, <1>5, <1>8, <1>11, <1>12
<1>14. PrimaryAreDone(next)
  <2>1. PrimaryAreDone(me)
    BY <1>1 DEF BeginGraph, PrimaryDone, Task, PrimaryAreDone
  <2> QED BY <1>4, <1>5, <1>8, <1>10, <2>1 DEF PrimaryAreDone
<1>15. DOMAIN next.task = DOMAIN me.task \cup {"graph"}
  BY <1>4, <1>8
<1>16. SearchInv(s, next, log, waiting, resolved)
  BY <1>2, <1>8, <1>9, <1>10, <1>13, <1>14, <1>15 DEF SearchInv, Alike
<1> QED BY <1>1, <1>7, <1>16 DEF Becomes

LEMMA ReadResolutionsStep ==
  ASSUME SearchesInv, NEW s \in Searchers, ReadResolutions(s)
  PROVE  \E next : Becomes(s, next)
<1>1. PICK me, log, waiting, resolved :
        me = search[s] /\ log = changes /\ waiting = pending /\ resolved = resolutions
  OBVIOUS
<1>2. SearchInv(s, me, log, waiting, resolved) /\ me.pc \in {"candidates", "ranked"}
  BY <1>1 DEF SearchesInv, ReadResolutions
<1>3. PICK next : next = [me EXCEPT !.resolutions = <<resolved>>]
  OBVIOUS
<1>4. search' = [search EXCEPT ![s] = next]
  BY <1>1, <1>3 DEF ReadResolutions
<1>5. /\ Fields \subseteq DOMAIN me /\ DOMAIN next = DOMAIN me
      /\ \A field \in Fields \ {"resolutions"} : next[field] = me[field]
      /\ next.resolutions = <<resolved>>
  BY <1>2, <1>3 DEF SearchInv, Fields
<1>6. Alike(me, next) /\ next.pc = me.pc /\ next.task = me.task /\ next.order = me.order
  BY <1>5 DEF Fields, Alike
<1>7. \A k \in DOMAIN next.task : TaskInv(log, waiting, next, k, next.task[k])
  BY <1>2, <1>6, TaskAlike DEF SearchInv
<1>8. next.before \subseteq resolved
  BY <1>2, <1>6 DEF SearchInv, Alike
<1>9. next.pc = "ranked" =>
            /\ Sound(log, next, next.order) /\ PrimaryAreDone(next)
            /\ \A k \in {"lexical", "vector"} : Members(next.task[k].list) \subseteq Members(next.order)
  BY <1>2, <1>6 DEF SearchInv, Sound, PrimaryAreDone, Alike
<1>10. SearchInv(s, next, log, waiting, resolved)
  BY <1>2, <1>5, <1>6, <1>7, <1>8, <1>9 DEF SearchInv, Alike, PrimaryAreDone
<1> QED BY <1>1, <1>4, <1>10 DEF Becomes

(* The lists are put together: nothing new is in them, and nothing is lost. *)
LEMMA RankedStep ==
  ASSUME SearchesInv, NEW s \in Searchers, search[s].pc = "candidates", PrimaryAreDone(search[s]),
         NEW order, Sound(changes, search[s], order),
         \A k \in {"lexical", "vector"} : Members(search[s].task[k].list) \subseteq Members(order),
         search' = [search EXCEPT ![s].pc = "ranked", ![s].order = order]
  PROVE  \E next : Becomes(s, next)
<1>1. PICK me, log, waiting, resolved :
        me = search[s] /\ log = changes /\ waiting = pending /\ resolved = resolutions
  OBVIOUS
<1>2. SearchInv(s, me, log, waiting, resolved) /\ me.pc = "candidates"
  BY <1>1 DEF SearchesInv
<1>3. PICK next : next = [me EXCEPT !.pc = "ranked", !.order = order]
  OBVIOUS
<1>4. search' = [search EXCEPT ![s] = next]
  BY <1>1, <1>3
<1>5. Fields \subseteq DOMAIN me
  BY <1>2 DEF SearchInv
<1>6. DOMAIN next = DOMAIN me
  BY <1>3
<1>7. /\ \A field \in Fields \ {"pc", "order"} : next[field] = me[field]
      /\ next.pc = "ranked" /\ next.order = order
  BY <1>3, <1>5 DEF Fields
<1>8. Alike(me, next) /\ next.task = me.task /\ next.resolutions = me.resolutions
  BY <1>7 DEF Fields, Alike
<1>9. \A k \in DOMAIN next.task : TaskInv(log, waiting, next, k, next.task[k])
  BY <1>2, <1>8, TaskAlike DEF SearchInv
<1>10. Sound(log, next, next.order) /\ PrimaryAreDone(next)
       /\ \A k \in {"lexical", "vector"} : Members(next.task[k].list) \subseteq Members(next.order)
  BY <1>1, <1>7, <1>8 DEF Sound, PrimaryAreDone, Alike
<1>11. SearchInv(s, next, log, waiting, resolved)
  BY <1>2, <1>5, <1>6, <1>7, <1>8, <1>9, <1>10 DEF SearchInv, Alike
<1> QED BY <1>1, <1>4, <1>11 DEF Becomes

LEMMA FuseStep ==
  ASSUME SearchesInv, NEW s \in Searchers, ReciprocalRankFuse(s)
  PROVE  \E next : Becomes(s, next)
<1>1. PICK me, all : me = search[s] /\ all = Listed(s)
  OBVIOUS
<1>2. SearchInv(s, me, changes, pending, resolutions) /\ me.pc = "candidates"
      /\ "graph" \in DOMAIN me.task /\ me.task["graph"].at = "done"
  BY <1>1 DEF SearchesInv, ReciprocalRankFuse, Task
<1>3. /\ PrimaryAreDone(me) /\ {"lexical", "vector"} \subseteq DOMAIN me.task
      /\ DOMAIN me.task \subseteq {"lexical", "vector", "graph"}
      /\ \A k \in DOMAIN me.task : TaskInv(changes, pending, me, k, me.task[k])
  BY <1>2 DEF SearchInv
<1>4. \A k \in DOMAIN me.task : Sound(changes, me, me.task[k].list)
  BY <1>2, <1>3 DEF PrimaryAreDone, TaskInv
<1>5. all = UNION {Members(me.task[k].list) : k \in DOMAIN me.task}
  BY <1>1 DEF Listed
<1>6. \A k \in DOMAIN me.task : Members(me.task[k].list) \subseteq Claims
  BY <1>4 DEF Sound, Members
<1>7. all \in SUBSET Claims
  BY <1>5, <1>6
<1>8. \A c \in all : Seen(changes, me.since, c)
  BY <1>4, <1>5 DEF Sound
<1>9. PICK score, order :
        /\ order \in Ranked(all, score, Cardinality(Claims))
        /\ search' = [search EXCEPT ![s].pc = "ranked", ![s].order = order]
  BY <1>1 DEF ReciprocalRankFuse
<1>10. Cardinality(Claims) \in Nat /\ Cardinality(all) \in Nat /\ Cardinality(all) <= Cardinality(Claims)
  BY <1>7, ClaimsAreFinite, FS_Subset, FS_CardinalityType
<1>11. order \in Seq(Claims) /\ (~(Cardinality(all) > Cardinality(Claims)) => Members(order) = all)
  BY <1>7, <1>9, <1>10, Ranking
<1>12. Members(order) = all
  BY <1>10, <1>11
<1>13. Sound(changes, me, order)
  BY <1>8, <1>11, <1>12 DEF Sound
<1>14. \A k \in {"lexical", "vector"} : Members(me.task[k].list) \subseteq Members(order)
  BY <1>3, <1>5, <1>12
<1> QED BY <1>1, <1>2, <1>3, <1>9, <1>13, <1>14, RankedStep

LEMMA FallbackStep ==
  ASSUME SearchesInv, NEW s \in Searchers, FallbackCandidates(s)
  PROVE  \E next : Becomes(s, next)
<1>1. PICK me, score : me = search[s] /\ score = FallbackScore(s)
  OBVIOUS
<1>2. SearchInv(s, me, changes, pending, resolutions) /\ me.pc = "candidates" /\ me.source # "gate"
      /\ PrimaryAreDone(me)
  BY <1>1 DEF SearchesInv, FallbackCandidates, PrimaryDone, Task, PrimaryAreDone
<1>3. /\ {"lexical", "vector"} \subseteq DOMAIN me.task
      /\ \A k \in {"lexical", "vector"} : TaskInv(changes, pending, me, k, me.task[k])
  BY <1>2 DEF SearchInv
<1>4. \A k \in {"lexical", "vector"} : Sound(changes, me, me.task[k].list)
  BY <1>2, <1>3 DEF PrimaryAreDone, TaskInv
<1>5. PICK lexical, similar, listed, reached :
        /\ lexical = Members(me.task["lexical"].list) /\ similar = Members(me.task["vector"].list)
        /\ listed = me.task["vector"].listed
        /\ reached = Reached(listed, EntitiesOf(lexical \cup similar))
  OBVIOUS
<1>6. DOMAIN score = lexical \cup similar \cup UNION {reached[hop] : hop \in DOMAIN reached}
  <2> DEFINE Lexical == Members(search[s].task["lexical"].list)
             Similar == Members(search[s].task["vector"].list)
             Near == Reached(search[s].task["vector"].listed, EntitiesOf(Lexical \cup Similar))
  <2>1. DOMAIN FallbackScore(s) = Lexical \cup Similar \cup UNION {Near[hop] : hop \in DOMAIN Near}
    BY Zenon DEF FallbackScore
  <2>2. Lexical = lexical /\ Similar = similar /\ Near = reached
    BY <1>1, <1>5
  <2> QED BY <1>1, <2>1, <2>2
<1>7. listed \subseteq Claims /\ \A c \in listed : Seen(changes, me.since, c)
  BY <1>2, <1>3, <1>5 DEF PrimaryAreDone, TaskInv
<1>8. \A hop \in DOMAIN reached : reached[hop] \subseteq listed
  BY <1>5, ReachedIsAmong
<1>9. lexical \subseteq Claims /\ similar \subseteq Claims
  BY <1>4, <1>5 DEF Sound, Members
<1>10. \A c \in lexical \cup similar : Seen(changes, me.since, c)
  BY <1>4, <1>5 DEF Sound
<1>11. PICK all : all = DOMAIN score
  OBVIOUS
<1>12. all \in SUBSET Claims /\ \A c \in all : Seen(changes, me.since, c)
  BY <1>6, <1>7, <1>8, <1>9, <1>10, <1>11
<1>13. PICK order \in SetToSeqs(all) : search' = [search EXCEPT ![s].pc = "ranked", ![s].order = order]
  BY <1>1, <1>11 DEF FallbackCandidates
<1>14. order \in Seq(Claims) /\ Members(order) = all
  BY <1>12, <1>13, Listing
<1>15. Sound(changes, me, order)
  BY <1>12, <1>14 DEF Sound
<1>16. \A k \in {"lexical", "vector"} : Members(me.task[k].list) \subseteq Members(order)
  BY <1>5, <1>6, <1>11, <1>14
<1> QED BY <1>1, <1>2, <1>13, <1>15, <1>16, RankedStep

(* Only what is allowed is a hit, and all of that, up to the budget.       *)
LEMMA AuthorizeStep ==
  ASSUME SearchesInv, HistoryInv, NEW s \in Searchers, AuthorizeHits(s)
  PROVE  \E next : Becomes(s, next)
<1>1. PICK me, log, waiting, resolved :
        me = search[s] /\ log = changes /\ waiting = pending /\ resolved = resolutions
  OBVIOUS
<1>2. SearchInv(s, me, log, waiting, resolved) /\ me.pc = "ranked" /\ me.resolutions # None
  BY <1>1 DEF SearchesInv, AuthorizeHits
<1>3. PICK all : me.resolutions = <<all>> /\ me.before \subseteq all
  BY <1>2 DEF SearchInv
<1>4. PICK allowed :
        allowed = {c \in Claims \ UNION {Losers(resolution) : resolution \in all} : MayRead(me.principal, c)}
  OBVIOUS
<1>5. me.resolutions[1] = all
  BY <1>3
<1>6. PICK hits \in Selected(me.order, allowed, Budget(s)) :
        search' = [search EXCEPT ![s].pc = "done", ![s].until = Len(log), ![s].hits = hits]
  BY <1>1, <1>4, <1>5 DEF AuthorizeHits, Suppressed
<1>7. /\ Sound(log, me, me.order) /\ PrimaryAreDone(me) /\ me.since \in 0..Len(log)
      /\ \A k \in {"lexical", "vector"} : Members(me.task[k].list) \subseteq Members(me.order)
      /\ \A k \in {"lexical", "vector"} : TaskInv(log, waiting, me, k, me.task[k])
  BY <1>2 DEF SearchInv
<1>8. me.order \in Seq(Claims) /\ Budget(s) \in Nat
  BY <1>7, RetrievalAssumption DEF Sound
<1>9. /\ hits \in Seq(Claims) /\ Members(hits) \subseteq Members(me.order) \cap allowed
      /\ Len(hits) # Budget(s) => Members(hits) = Members(me.order) \cap allowed
  BY <1>6, <1>8, Selecting
<1>10. PICK next : next = [me EXCEPT !.pc = "done", !.until = Len(log), !.hits = hits]
  OBVIOUS
<1>11. search' = [search EXCEPT ![s] = next]
  BY <1>1, <1>6, <1>10
<1>12. Fields \subseteq DOMAIN me
  BY <1>2 DEF SearchInv
<1>13. DOMAIN next = DOMAIN me
  BY <1>10
<1>14. /\ \A field \in Fields \ {"pc", "until", "hits"} : next[field] = me[field]
       /\ next.pc = "done" /\ next.until = Len(log) /\ next.hits = hits
  BY <1>10, <1>12 DEF Fields
<1>15. Alike(me, next) /\ next.task = me.task /\ next.resolutions = me.resolutions
  BY <1>14 DEF Fields, Alike
<1>16. \A k \in DOMAIN next.task : TaskInv(log, waiting, next, k, next.task[k])
  BY <1>2, <1>15, TaskAlike DEF SearchInv
<1>17. Len(log) \in Nat /\ next.until \in next.since..Len(log)
  BY <1>1, <1>7, <1>14, <1>15 DEF HistoryInv, IsLog, Alike
<1>18. ASSUME NEW c \in Members(hits)
       PROVE  /\ c \in Claims /\ MayRead(me.principal, c)
              /\ \E n \in me.since..Len(log) : Visible(StatusIn(log, c, n))
              /\ \A resolution \in me.before : c \in resolution.claims => c = resolution.preferred
  <2>1. c \in Members(me.order) /\ c \in allowed
    BY <1>9, <1>18
  <2>2. \A resolution \in all : c \notin Losers(resolution)
    BY <1>4, <2>1
  <2> QED BY <1>3, <1>4, <1>7, <2>1, <2>2 DEF Sound, Seen, Losers
<1>19. ASSUME NEW c \in Claims \ Members(hits),
              \A n \in me.since..Len(log) : Visible(StatusIn(log, c, n)),
              InScope(c, me.principal), MayRead(me.principal, c),
              \A resolution \in all : c \notin Losers(resolution),
              Len(hits) # Budget(s), NEW k \in {"lexical", "vector"}, Wanted(me, k, c)
       PROVE  me.task[k].full
  <2>1. c \in allowed
    BY <1>4, <1>19
  <2>2. c \notin Members(me.order)
    BY <1>9, <1>19, <2>1
  <2>3. c \notin Members(me.task[k].list)
    BY <1>7, <2>2
  <2>4. ~me.task[k].full => Complete(log, me, k, Members(me.task[k].list))
    BY <1>7 DEF TaskInv, PrimaryAreDone
  <2> QED BY <1>19, <2>3, <2>4 DEF Complete, Steady
<1>20. DoneInv(s, log, next)
  <2>1. \A c \in Members(next.hits) :
          /\ c \in Claims /\ MayRead(next.principal, c)
          /\ \E n \in next.since..next.until : Visible(StatusIn(log, c, n))
          /\ \A resolution \in next.before : c \in resolution.claims => c = resolution.preferred
    BY <1>14, <1>15, <1>18 DEF Alike
  <2>2. \A k, c : Wanted(next, k, c) => Wanted(me, k, c)
    BY <1>15 DEF Wanted, Alike
  <2>3. \A c \in Claims \ Members(next.hits) :
          /\ \A n \in next.since..next.until : Visible(StatusIn(log, c, n))
          /\ InScope(c, next.principal) /\ MayRead(next.principal, c)
          /\ \A resolution \in next.resolutions[1] : c \notin Losers(resolution)
          => \/ Len(next.hits) = Budget(s)
             \/ \A k \in {"lexical", "vector"} : Wanted(next, k, c) => next.task[k].full
    BY <1>5, <1>14, <1>15, <1>19, <2>2 DEF Alike
  <2> QED BY <1>17, <2>1, <2>3 DEF DoneInv
<1>21. SearchInv(s, next, log, waiting, resolved)
  BY <1>2, <1>7, <1>12, <1>13, <1>14, <1>15, <1>16, <1>20 DEF SearchInv, Alike, PrimaryAreDone
<1> QED BY <1>1, <1>11, <1>21 DEF Becomes

LEMMA SearchesStep ==
  ASSUME SearchesInv, KnowledgeInv, HistoryInv, DOMAIN search = Searchers, NEW s \in Searchers, SearchStep(s)
  PROVE  SearchesInv' /\ HistoryInv'
<1>1. UNCHANGED knowledge
  BY SearchLeavesKnowledge
<1>2. HistoryInv'
  BY <1>1 DEF HistoryInv, knowledge
<1> SUFFICES SearchesInv'
  BY <1>2
<1>3. (\E k, task : Goes(s, k, task)) => SearchesInv'
  BY <1>1, TaskStep
<1>4. (\E next : Becomes(s, next)) => SearchesInv'
  BY <1>1, NextSearch
<1>5. CASE \E k \in {"lexical", "vector", "graph"} : GateEvents(s, k) \/ GateMarks(s, k) \/ ProjectionFails(s, k)
  BY <1>3, <1>5, GateSteps
<1>6. CASE SearchProjectionLexical(s) \/ SearchProjectionVector(s)
  BY <1>3, <1>6, ProjectionSteps
<1>7. CASE SearchLexicalIds(s) \/ SearchLexicalRead(s)
  BY <1>3, <1>7, LexicalIdsStep, LexicalReadStep
<1>8. CASE SearchLexicalAtOnce(s) \/ RankClaimsLexically(s)
  BY <1>3, <1>8, AtOnceStep
<1>9. CASE SearchCanonicalVector(s)
  BY <1>3, <1>9, CanonicalVectorStep
<1>10. CASE SeedGraph(s) \/ SeedGraphEntities(s)
  BY <1>3, <1>10, SeedSteps
<1>11. CASE GraphRowsForEntity(s) \/ GraphHop(s)
  BY <1>3, <1>11, HopSteps
<1>12. CASE SearchCanonicalGraph(s)
  BY <1>3, <1>12, CanonicalGraphStep
<1>13. CASE BeginGraph(s) \/ ReadResolutions(s)
  BY <1>4, <1>13, BeginGraphStep, ReadResolutionsStep
<1>14. CASE ReciprocalRankFuse(s) \/ FallbackCandidates(s)
  BY <1>4, <1>14, FuseStep, FallbackStep
<1>15. CASE AuthorizeHits(s)
  BY <1>4, <1>15, AuthorizeStep
<1> QED BY <1>5, <1>6, <1>7, <1>8, <1>9, <1>10, <1>11, <1>12, <1>13, <1>14, <1>15 DEF SearchStep

-----------------------------------------------------------------------------
(* What goes on during a search leaves true what is said of it.            *)

LEMMA SearchesGrow ==
  ASSUME SearchesInv, UNCHANGED search, Grows(changes, changes'),
         pending' \cap (1..Len(changes)) \subseteq pending, resolutions \subseteq resolutions'
  PROVE  SearchesInv'
<1>1. PICK log, waiting, resolved, longer, later, more :
        /\ log = changes /\ waiting = pending /\ resolved = resolutions
        /\ longer = changes' /\ later = pending' /\ more = resolutions'
  OBVIOUS
<1>2. Grows(log, longer) /\ later \cap (1..Len(log)) \subseteq waiting /\ resolved \subseteq more
  BY <1>1
<1>3. ASSUME NEW s \in Searchers PROVE SearchInv(s, search[s], longer, later, more)
  <2>1. PICK me : me = search[s]
    OBVIOUS
  <2>2. SearchInv(s, me, log, waiting, resolved)
    BY <1>1, <2>1 DEF SearchesInv
  <2>3. SearchInv(s, me, longer, later, more)
    BY <1>2, <2>2, SearchGrows
  <2> QED BY <2>1, <2>3
<1> QED BY <1>1, <1>3 DEF SearchesInv

LEMMA KnowledgeMoves ==
  ASSUME SearchesInv, KnowledgeInv, HistoryInv, KnowledgeStep
  PROVE  SearchesInv' /\ HistoryInv'
<1>1. Grows(changes, changes)
  BY DEF Grows, HistoryInv, IsLog
<1>2. CASE Sync
  <2>1. HistoryInv' /\ UNCHANGED <<changes, search, resolutions>> /\ pending' \subseteq pending
    BY <1>2, SyncKeepsHistory
  <2> QED BY <1>1, <2>1, SearchesGrow
<1>3. CASE Resolve
  <2>1. UNCHANGED <<status, changes, pending, rows, search>> /\ resolutions = {}
    BY <1>3 DEF Resolve
  <2>2. HistoryInv'
    BY <2>1 DEF HistoryInv
  <2> QED BY <1>1, <2>1, <2>2, SearchesGrow
<1>4. ASSUME NEW c \in Changing, AssertClaim(c) \/ RetractClaim(c) PROVE SearchesInv' /\ HistoryInv'
  <2>1. PICK state \in {"asserted", "retracted"} : Change(c, state)
    BY <1>4 DEF AssertClaim, RetractClaim
  <2>2. c \in Claims
    BY RetrievalAssumption
  <2>3. /\ HistoryInv' /\ Grows(changes, changes') /\ UNCHANGED search
        /\ pending' \cap (1..Len(changes)) \subseteq pending /\ resolutions' = resolutions
    BY <2>1, <2>2, ChangeGrows
  <2> QED BY <2>3, SearchesGrow
<1> QED BY <1>2, <1>3, <1>4 DEF KnowledgeStep

(* The start and the end of a search.                                      *)
LEMMA SearchBegins ==
  ASSUME SearchesInv, HistoryInv, RequestInv, NEW q \in Requests, BeginSearch(q)
  PROVE  q \in Searchers /\ \E next : Becomes(q, next)
<1>1. q \in Searchers
  BY ServingAssumption DEF BeginSearch
<1>2. PICK source, log : source = Source(q) /\ log = changes
  OBVIOUS
<1>3. source \in {"gate", "postgres", "sqlite", "memory"}
  BY <1>1, <1>2, ServingAssumption
<1>4. Current(q) = Principal(Bearer(q))
  BY DEF BeginSearch, MayExecute, Current, Context, RequestInv, CallerInv, At
<1>5. PICK task : task = [k \in {"lexical", "vector"} |->
                 Waiting(CASE source = "gate" -> "events"
                           [] source # "gate" /\ (source = "postgres" \/ k = "vector") -> "canonical"
                           [] OTHER -> source)]
  OBVIOUS
<1>6. PICK next : next =
        [pc |-> "candidates", principal |-> Principal(Bearer(q)), source |-> source,
         since |-> Len(log), until |-> None, before |-> resolutions, resolutions |-> None,
         order |-> <<>>, hits |-> <<>>, task |-> task]
  OBVIOUS
<1>7. search' = [search EXCEPT ![q] = next]
  BY <1>2, <1>4, <1>5, <1>6 DEF BeginSearch, Begin
<1>8. Len(log) \in 0..Len(log)
  BY <1>2 DEF HistoryInv, IsLog
<1>9. Fields \subseteq DOMAIN next
  BY <1>6 DEF Fields
<1>10. DOMAIN task = {"lexical", "vector"}
  BY <1>5
<1>11. ASSUME NEW k \in {"lexical", "vector"} PROVE TaskInv(log, pending, next, k, task[k])
  <2>1. PICK at \in {"events", "canonical", "sqlite", "memory"} :
          task[k] = Waiting(at) /\ (at = "events" => source = "gate")
    <3>1. CASE source = "gate"
      BY <1>5, <3>1
    <3>2. CASE source # "gate" /\ (source = "postgres" \/ k = "vector")
      BY <1>5, <3>2
    <3>3. CASE source # "gate" /\ ~(source = "postgres" \/ k = "vector")
      BY <1>3, <1>5, <3>3
    <3> QED BY <3>1, <3>2, <3>3
  <2>2. next.source = source
    BY <1>6
  <2> QED BY <2>1, <2>2 DEF TaskInv, Waiting
<1>12. SearchInv(q, next, log, pending, resolutions)
  BY <1>6, <1>8, <1>9, <1>10, <1>11 DEF SearchInv
<1> QED BY <1>1, <1>2, <1>7, <1>12 DEF Becomes

LEMMA OperationsKeepSearches ==
  ASSUME SearchesInv, HistoryInv, RequestInv, NEW q \in Requests, Operating(q)
  PROVE  SearchesInv' /\ HistoryInv'
<1>1. UNCHANGED knowledge
  BY DEF Operating, ListPolicies, BeginSearch, EndSearch, SearchFails, retrievalVars
<1>2. HistoryInv' /\ DOMAIN search = Searchers
  BY <1>1 DEF HistoryInv, knowledge, RequestInv, RequestTypes
<1>3. CASE ListPolicies(q)
  BY <1>2, <1>3 DEF ListPolicies, retrievalVars, knowledge, SearchesInv
<1>4. CASE BeginSearch(q)
  BY <1>1, <1>2, <1>4, SearchBegins, NextSearch
<1>5. CASE EndSearch(q) \/ SearchFails(q)
  <2>1. q \in Searchers /\ search' = [search EXCEPT ![q] = [pc |-> "idle"]]
    BY <1>5 DEF EndSearch, SearchFails, RequestInv, CallerInv
  <2>2. SearchInv(q, [pc |-> "idle"], changes, pending, resolutions)
    BY DEF SearchInv
  <2> QED BY <1>1, <1>2, <2>1, <2>2, NextSearch DEF Becomes
<1> QED BY <1>2, <1>3, <1>4, <1>5 DEF Operating

LEMMA InitSearches == Init => SearchesInv
BY DEF Init, RetrievalInit, SearchesInv, SearchInv

LEMMA SearchesKeep ==
  ASSUME SearchesInv, KnowledgeInv, HistoryInv, RequestInv, cast \subseteq Requests, [Next]_vars
  PROVE  SearchesInv' /\ HistoryInv'
<1>1. CASE UNCHANGED retrievalVars
  BY <1>1 DEF retrievalVars, knowledge, SearchesInv, HistoryInv
<1>2. ASSUME NEW q \in cast, Operating(q) PROVE SearchesInv' /\ HistoryInv'
  BY <1>2, OperationsKeepSearches
<1>3. ASSUME NEW q \in cast \cap Searchers, SearchStep(q) PROVE SearchesInv' /\ HistoryInv'
  BY <1>3, SearchesStep DEF RequestInv, RequestTypes
<1>4. CASE KnowledgeStep
  BY <1>4, KnowledgeMoves
<1> QED BY <1>1, <1>2, <1>3, <1>4 DEF Next, vars

LEMMA SearchesAreWell == Spec => [](SearchesInv /\ HistoryInv)
<1>1. SearchesInv /\ HistoryInv /\ KnowledgeInv /\ RequestInv /\ cast \subseteq Requests /\ [Next]_vars
        => (SearchesInv /\ HistoryInv)'
  BY SearchesKeep
<1> QED BY <1>1, InitSearches, InitHistory, KnowledgeIsWell, RequestsAreWell, PTL DEF Spec

(* Whoever may read a record, by all the rules, may know of it.            *)
LEMMA ReadersMayKnow ==
  ASSUME NEW t \in AccessTokens, NEW c \in Claims, MayRead(Principal(t), c)
  PROVE  MayKnow(Principal(t), Record(c))
<1>1. PICK reader, record : reader = Principal(t) /\ record = Record(c)
  OBVIOUS
<1>2. /\ reader.clearance \in DOMAIN ClassificationRank /\ record.classification \in DOMAIN ClassificationRank
  BY <1>1, AdmissionAssumption, RetrievalAssumption
<1>3. \A level \in DOMAIN ClassificationRank : ClassificationRank[level] \in Nat
  BY DEF ClassificationRank
<1>4. Allow(reader, "knowledge.read", record,
            [tenant |-> reader.tenant, purpose |-> None, delegation |-> None, now |-> 0])
  BY <1>1 DEF MayRead
<1>5. reader.tenant = record.tenant /\ record.namespace \in Namespaces(reader)
  BY <1>4 DEF Allow, CrossTenant
<1>6. ClassificationRank[record.classification] <= ClassificationRank[reader.clearance]
  <2>1. ~(ClassificationRank[reader.clearance] < ClassificationRank[record.classification])
    BY <1>4 DEF Allow, ClassificationInsufficient
  <2>2. ClassificationRank[reader.clearance] \in Nat /\ ClassificationRank[record.classification] \in Nat
    BY <1>2, <1>3
  <2> QED BY <2>1, <2>2
<1>7. ~ActsForAnother(reader)
  BY <1>4 DEF Allow, DelegationInvalid
<1>8. record.visibility = "private" => record.owner \in {None, reader.id}
  BY <1>4, <1>7 DEF Allow, PrivateToAnother, ActingAs
<1> QED BY <1>1, <1>5, <1>6, <1>8 DEF MayKnow

(* A hit was a visible claim at some moment of the search, and it is one   *)
(* the caller may know of that has lost no conflict resolved before, for   *)
(* every source of candidates, any limits, and whatever changes, is        *)
(* synchronised or is resolved between the reads of the search.            *)
THEOREM HitsSound == Spec => []HitsAreSound
<1>1. SearchesInv => HitsAreSound
  <2> SUFFICES ASSUME SearchesInv, NEW s \in Searchers, search[s].pc = "done", NEW c \in Members(search[s].hits)
               PROVE  /\ \E n \in During(s) : Visible(StatusAt(c, n))
                      /\ MayKnow(Principal(Bearer(s)), Record(c))
                      /\ \A resolution \in search[s].before : c \in resolution.claims => c = resolution.preferred
    BY DEF HitsAreSound, Finished
  <2>1. DoneInv(s, changes, search[s]) /\ search[s].principal = Principal(Bearer(s))
    BY DEF SearchesInv, SearchInv
  <2>2. /\ c \in Claims /\ MayRead(search[s].principal, c)
        /\ \E n \in During(s) : Visible(StatusIn(changes, c, n))
        /\ \A resolution \in search[s].before : c \in resolution.claims => c = resolution.preferred
    BY <2>1 DEF DoneInv, During
  <2>3. Bearer(s) \in AccessTokens
    BY ServingAssumption, AdmissionAssumption
  <2> QED BY <2>1, <2>2, <2>3, ReadersMayKnow, StatusIsInTheLog
<1> QED BY <1>1, SearchesAreWell, PTL

(* A claim that matches, that the caller may read and that was visible all *)
(* the while is a hit, unless it lost a conflict, there are as many hits   *)
(* as were asked for, or the limit cut off a list of every strategy that   *)
(* could find it.                                                          *)
THEOREM NothingMissed == Spec => []NothingIsMissed
<1>1. SearchesInv => NothingIsMissed
  <2> SUFFICES ASSUME SearchesInv, NEW s \in Searchers, search[s].pc = "done",
                      NEW c \in Claims \ Members(search[s].hits),
                      \A n \in During(s) : Visible(StatusAt(c, n)),
                      InScope(c, search[s].principal), MayRead(search[s].principal, c),
                      \A resolution \in search[s].resolutions[1] :
                        c \notin resolution.claims \ {resolution.preferred},
                      Len(search[s].hits) # Budget(s)
               PROVE  /\ HasWords(s, c) => search[s].task["lexical"].full
                      /\ Similarity[c] > 0 => search[s].task["vector"].full
    BY DEF NothingIsMissed, Finished
  <2>1. DoneInv(s, changes, search[s])
    BY DEF SearchesInv, SearchInv
  <2>2. \A n \in search[s].since..search[s].until : Visible(StatusIn(changes, c, n))
    BY StatusIsInTheLog DEF During
  <2>3. \A k \in {"lexical", "vector"} : Wanted(search[s], k, c) => search[s].task[k].full
    BY <2>1, <2>2 DEF DoneInv, Losers
  <2> QED BY <2>3 DEF Wanted, HasWords
<1> QED BY <1>1, SearchesAreWell, PTL
-----------------------------------------------------------------------------
(* The neighbourhood of some claims, of which a graph search is to find    *)
(* all: the claims among some that a path of at most so many hops leads to *)
(* from a seed.                                                            *)

Path(path, length, seeds, among, c) ==
  /\ path \in [0..length -> among] /\ path[0] \in seeds /\ path[length] = c
  /\ \A n \in 1..length : Linked(path[n - 1], path[n])

Near(seeds, among, most) ==
  {c \in among : \E length \in 0..most : \E path : Path(path, length, seeds, among, c)}

LEMMA NearestAreSeeds ==
  ASSUME NEW seeds, NEW among
  PROVE  Near(seeds, among, 0) = seeds \cap among
<1>1. ASSUME NEW c \in seeds \cap among PROVE c \in Near(seeds, among, 0)
  <2>1. PICK path : path = [n \in 0..0 |-> c]
    OBVIOUS
  <2>2. path \in [0..0 -> among] /\ path[0] = c
    BY <2>1
  <2>3. Path(path, 0, seeds, among, c)
    BY <2>2 DEF Path
  <2> QED BY <2>3 DEF Near
<1>2. ASSUME NEW c \in Near(seeds, among, 0) PROVE c \in seeds \cap among
  BY DEF Near, Path
<1> QED BY <1>1, <1>2

LEMMA NearerAreNear ==
  ASSUME NEW seeds, NEW among, NEW n \in Nat, NEW m \in Nat, n <= m
  PROVE  Near(seeds, among, n) \subseteq Near(seeds, among, m)
<1>1. 0..n \subseteq 0..m
  OBVIOUS
<1> QED BY <1>1 DEF Near

(* One hop more reaches what touches an entity of those that are near.     *)
LEMMA OneHopMore ==
  ASSUME NEW seeds, NEW among, NEW n \in Nat
  PROVE  /\ Touching(among, EntitiesOf(Near(seeds, among, n))) \subseteq Near(seeds, among, n + 1)
         /\ Near(seeds, among, n + 1) \subseteq seeds \cup Touching(among, EntitiesOf(Near(seeds, among, n)))
<1>1. ASSUME NEW c \in Touching(among, EntitiesOf(Near(seeds, among, n)))
      PROVE  c \in Near(seeds, among, n + 1)
  <2>1. c \in among /\ Connected(c) \cap EntitiesOf(Near(seeds, among, n)) # {}
    BY DEF Touching
  <2>2. PICK d \in Near(seeds, among, n) : Linked(d, c)
    BY <2>1 DEF EntitiesOf, Linked
  <2>3. PICK length, path : length \in 0..n /\ Path(path, length, seeds, among, d)
    BY DEF Near
  <2>4. PICK longer : longer = [k \in 0..(length + 1) |-> IF k = length + 1 THEN c ELSE path[k]]
    OBVIOUS
  <2>5. /\ length \in Nat /\ length + 1 \in 0..(n + 1)
        /\ path \in [0..length -> among] /\ path[0] \in seeds /\ path[length] = d
        /\ \A k \in 1..length : Linked(path[k - 1], path[k])
    BY <2>3 DEF Path
  <2>6. longer \in [0..(length + 1) -> among]
    BY <2>1, <2>4, <2>5
  <2>7. longer[0] \in seeds /\ longer[length + 1] = c
    BY <2>4, <2>5
  <2>8. ASSUME NEW k \in 1..(length + 1) PROVE Linked(longer[k - 1], longer[k])
    <3>1. CASE k = length + 1
      <4>1. k - 1 = length /\ k - 1 \in 0..(length + 1) /\ k - 1 # length + 1
        BY <2>5, <3>1
      <4>2. longer[k - 1] = d /\ longer[k] = c
        BY <2>4, <2>5, <3>1, <4>1
      <4> QED BY <2>2, <4>2
    <3>2. CASE k # length + 1
      <4>1. /\ k \in 1..length /\ k \in 0..(length + 1)
            /\ k - 1 \in 0..(length + 1) /\ k - 1 # length + 1
        BY <2>5, <3>2
      <4>2. longer[k - 1] = path[k - 1] /\ longer[k] = path[k]
        BY <2>4, <3>2, <4>1
      <4> QED BY <2>5, <4>1, <4>2
    <3> QED BY <3>1, <3>2
  <2>9. Path(longer, length + 1, seeds, among, c)
    BY <2>6, <2>7, <2>8 DEF Path
  <2> QED BY <2>1, <2>5, <2>9 DEF Near
<1>2. ASSUME NEW c \in Near(seeds, among, n + 1), c \notin seeds
      PROVE  c \in Touching(among, EntitiesOf(Near(seeds, among, n)))
  <2>1. PICK length, path : length \in 0..(n + 1) /\ Path(path, length, seeds, among, c)
    BY DEF Near
  <2>2. /\ path \in [0..length -> among] /\ path[0] \in seeds /\ path[length] = c
        /\ \A k \in 1..length : Linked(path[k - 1], path[k])
    BY <2>1 DEF Path
  <2>3. length # 0 /\ length \in Nat
    BY <1>2, <2>1, <2>2
  <2>4. PICK before : before = length - 1
    OBVIOUS
  <2>5. before \in 0..n /\ 0..before \subseteq 0..length /\ 1..before \subseteq 1..length /\ length \in 1..length
        /\ before \in 0..length /\ 0 \in 0..before
    BY <2>1, <2>3, <2>4
  <2>6. PICK d : d = path[before]
    OBVIOUS
  <2>7. d \in among /\ Linked(d, c)
    BY <2>2, <2>4, <2>5, <2>6
  <2>8. PICK shorter : shorter = [k \in 0..before |-> path[k]]
    OBVIOUS
  <2>9. shorter \in [0..before -> among] /\ shorter[0] \in seeds /\ shorter[before] = d
    BY <2>2, <2>5, <2>6, <2>8
  <2>10. ASSUME NEW k \in 1..before PROVE Linked(shorter[k - 1], shorter[k])
    <3>1. k \in 0..before /\ k - 1 \in 0..before /\ k \in 1..length
      BY <2>5
    <3> QED BY <2>2, <2>8, <3>1
  <2>11. Path(shorter, before, seeds, among, d)
    BY <2>9, <2>10 DEF Path
  <2>12. d \in Near(seeds, among, n)
    BY <2>5, <2>7, <2>11 DEF Near
  <2>13. Connected(d) \cap Connected(c) # {} /\ c \in among
    BY <2>7 DEF Near, Linked
  <2> QED BY <2>12, <2>13 DEF Touching, EntitiesOf
<1> QED BY <1>1, <1>2

LEMMA HopsAreNear ==
  ASSUME NEW seeds, NEW among, NEW c \in among \ seeds
  PROVE  WithinHops(c, seeds, among) <=> c \in Near(seeds, among, Hops)
<1>1. among \cup {c} = among /\ Hops \in Nat
  BY RetrievalAssumption
<1>2. ASSUME NEW length \in 0..Hops, NEW path, Path(path, length, seeds, among, c) PROVE length \in 1..Hops
  BY <1>1, <1>2 DEF Path
<1>3. WithinHops(c, seeds, among) =
        \E length \in 1..Hops : \E path \in [0..length -> among] :
          path[0] \in seeds /\ path[length] = c /\ \A n \in 1..length : Linked(path[n - 1], path[n])
  BY <1>1 DEF WithinHops
<1>4. 1..Hops \subseteq 0..Hops
  BY <1>1
<1> QED BY <1>2, <1>3, <1>4 DEF Near, Path

LEMMA LeastNatural ==
  ASSUME NEW S \in SUBSET Nat, S # {}
  PROVE  \E m \in S : \A n \in S : m <= n
<1> DEFINE R == OpToRel(<, Nat)
<1>1. IsWellFoundedOn(R, Nat)
  BY NatLessThanWellFounded
<1>2. R = {ss \in Nat \X Nat : ss[1] < ss[2]}
  BY DEF OpToRel
<1> HIDE DEF R
<1>3. PICK m \in S : \A n \in S : ~ (<<n, m>> \in R)
  BY <1>1, WFMin
<1>4. ASSUME NEW n \in S PROVE m <= n
  <2>1. ~(<<n, m>> \in R)
    BY <1>3
  <2>2. ~(n < m)
    BY <1>2, <2>1
  <2> QED BY <2>2
<1> QED BY <1>4

(* Entities that are closed under links and hold those of the seeds hold   *)
(* all that is near.                                                       *)
LEMMA NearIsClosed ==
  ASSUME NEW seeds, NEW among, NEW entities, EntitiesOf(seeds \cap among) \subseteq entities,
         EntitiesOf(Touching(among, entities)) \subseteq entities, NEW most \in Nat
  PROVE  Near(seeds, among, most) \subseteq seeds \cup Touching(among, entities)
<1> DEFINE Out == {n \in Nat : ~(EntitiesOf(Near(seeds, among, n)) \subseteq entities)}
<1>1. Out = {}
  <2> SUFFICES ASSUME Out # {} PROVE FALSE
    OBVIOUS
  <2>1. PICK n \in Out : \A m \in Out : n <= m
    BY LeastNatural
  <2>2. n \in Nat /\ ~(EntitiesOf(Near(seeds, among, n)) \subseteq entities)
    BY <2>1
  <2>3. n # 0
    BY <2>2, NearestAreSeeds
  <2>4. PICK m \in Nat : n = m + 1
    <3>1. n - 1 \in Nat /\ n = (n - 1) + 1
      BY <2>2, <2>3
    <3> QED BY <3>1
  <2>5. EntitiesOf(Near(seeds, among, m)) \subseteq entities
    <3>1. m \notin Out
      BY <2>1, <2>4
    <3> QED BY <3>1
  <2>6. Near(seeds, among, n) \subseteq seeds \cup Touching(among, EntitiesOf(Near(seeds, among, m)))
    BY <2>4, OneHopMore
  <2>7. Near(seeds, among, n) \subseteq among
    BY DEF Near
  <2>8. Near(seeds, among, n) \subseteq (seeds \cap among) \cup Touching(among, entities)
    BY <2>5, <2>6, <2>7 DEF Touching
  <2>9. EntitiesOf(Near(seeds, among, n)) \subseteq entities
    BY <2>8 DEF EntitiesOf
  <2> QED BY <2>2, <2>9
<1>2. CASE most = 0
  BY <1>2, NearestAreSeeds
<1>3. CASE most # 0
  <2>1. PICK m \in Nat : most = m + 1
    <3>1. most - 1 \in Nat /\ most = (most - 1) + 1
      BY <1>3
    <3> QED BY <3>1
  <2>2. EntitiesOf(Near(seeds, among, m)) \subseteq entities
    BY <1>1
  <2> QED BY <2>1, <2>2, OneHopMore DEF Touching
<1> QED BY <1>2, <1>3

(* The entities the store's search has reached after each hop.             *)
ReachesAs(near, found, entities) ==
  near = [hop \in 0..Hops |->
            IF hop = 0 THEN entities ELSE near[hop - 1] \cup EntitiesOf(Touching(found, near[hop - 1]))]

LEMMA ReachedAre ==
  ASSUME NEW found, NEW seeds, NEW entities, entities = EntitiesOf(seeds \cap found)
  PROVE  /\ DOMAIN Reached(found, entities) = 1..Hops
         /\ \A hop \in 1..Hops :
              Reached(found, entities)[hop] = Touching(found, EntitiesOf(Near(seeds, found, hop - 1)))
<1>1. Hops \in Nat
  BY RetrievalAssumption
<1>2. PICK those : those = [hop \in 0..Hops |-> EntitiesOf(Near(seeds, found, hop))]
  OBVIOUS
<1>3. ASSUME NEW n \in Nat
      PROVE  EntitiesOf(Near(seeds, found, n + 1)) =
               EntitiesOf(Near(seeds, found, n)) \cup EntitiesOf(Touching(found, EntitiesOf(Near(seeds, found, n))))
  <2>1. Near(seeds, found, n + 1) \subseteq seeds \cup Touching(found, EntitiesOf(Near(seeds, found, n)))
    BY OneHopMore
  <2>2. Touching(found, EntitiesOf(Near(seeds, found, n))) \subseteq Near(seeds, found, n + 1)
    BY OneHopMore
  <2>3. Near(seeds, found, n) \subseteq Near(seeds, found, n + 1)
    BY NearerAreNear
  <2>4. Near(seeds, found, 0) \subseteq Near(seeds, found, n)
    BY NearerAreNear
  <2>5. Near(seeds, found, n + 1) \subseteq Near(seeds, found, n)
                                            \cup Touching(found, EntitiesOf(Near(seeds, found, n)))
    BY <2>1, <2>4, NearestAreSeeds DEF Near
  <2> QED BY <2>2, <2>3, <2>5 DEF EntitiesOf
<1>4. ASSUME NEW hop \in 0..Hops
      PROVE  those[hop] = IF hop = 0 THEN entities
                          ELSE those[hop - 1] \cup EntitiesOf(Touching(found, those[hop - 1]))
  <2>1. CASE hop = 0
    BY <1>2, <2>1, NearestAreSeeds
  <2>2. CASE hop # 0
    <3>1. PICK n \in Nat : hop = n + 1 /\ n = hop - 1 /\ n \in 0..Hops
      <4>1. hop - 1 \in Nat /\ hop = (hop - 1) + 1 /\ hop - 1 \in 0..Hops
        BY <1>1, <2>2
      <4> QED BY <4>1
    <3>2. those[hop] = EntitiesOf(Near(seeds, found, n + 1)) /\ those[n] = EntitiesOf(Near(seeds, found, n))
      BY <1>2, <3>1
    <3> QED BY <1>3, <2>2, <3>1, <3>2
  <2> QED BY <2>1, <2>2
<1>5. ReachesAs(those, found, entities)
  BY <1>2, <1>4 DEF ReachesAs
<1>6. PICK near : ReachesAs(near, found, entities)
                  /\ Reached(found, entities) = [hop \in 1..Hops |-> Touching(found, near[hop - 1])]
  <2> DEFINE near == CHOOSE near : ReachesAs(near, found, entities)
  <2>1. ReachesAs(near, found, entities)
    BY <1>5
  <2>2. Reached(found, entities) = [hop \in 1..Hops |-> Touching(found, near[hop - 1])]
    BY DEF Reached, ReachesAs
  <2> HIDE DEF near
  <2> QED BY <2>1, <2>2
<1>7. \A hop \in 0..Hops : near[hop] = those[hop]
  <2> DEFINE Other == {hop \in 0..Hops : near[hop] # those[hop]}
  <2> SUFFICES ASSUME Other # {} PROVE FALSE
    OBVIOUS
  <2>1. PICK hop \in Other : \A n \in Other : hop <= n
    <3>1. Other \in SUBSET Nat
      BY <1>1
    <3> HIDE DEF Other
    <3> QED BY <3>1, LeastNatural
  <2>2. hop \in 0..Hops /\ near[hop] # those[hop]
    BY <2>1
  <2>3. near[hop] = IF hop = 0 THEN entities
                    ELSE near[hop - 1] \cup EntitiesOf(Touching(found, near[hop - 1]))
    BY <1>6, <2>2 DEF ReachesAs
  <2>4. hop # 0
    BY <1>4, <2>2, <2>3
  <2>5. hop - 1 \in 0..Hops /\ ~(hop <= hop - 1)
    BY <1>1, <2>2, <2>4
  <2>6. near[hop - 1] = those[hop - 1]
    BY <2>1, <2>5
  <2> QED BY <1>4, <2>2, <2>3, <2>4, <2>6
<1>8. ASSUME NEW hop \in 1..Hops
      PROVE  Reached(found, entities)[hop] = Touching(found, EntitiesOf(Near(seeds, found, hop - 1)))
  <2>1. hop - 1 \in 0..Hops
    BY <1>1
  <2>2. near[hop - 1] = EntitiesOf(Near(seeds, found, hop - 1))
    BY <1>2, <1>7, <2>1
  <2> QED BY <1>6, <2>2
<1> QED BY <1>6, <1>8

(* So the store's search finds all that is near.                           *)
LEMMA AllNearAreReached ==
  ASSUME NEW found, NEW seeds, NEW reached, reached = Reached(found, EntitiesOf(seeds \cap found))
  PROVE  (UNION {reached[hop] : hop \in DOMAIN reached}) \ seeds = Near(seeds, found, Hops) \ seeds
<1>1. Hops \in Nat
  BY RetrievalAssumption
<1>2. /\ DOMAIN reached = 1..Hops
      /\ \A hop \in 1..Hops : reached[hop] = Touching(found, EntitiesOf(Near(seeds, found, hop - 1)))
  BY ReachedAre
<1>3. ASSUME NEW hop \in 1..Hops PROVE reached[hop] \subseteq Near(seeds, found, Hops)
  <2>1. hop - 1 \in Nat /\ (hop - 1) + 1 = hop /\ hop <= Hops /\ hop \in Nat
    BY <1>1
  <2>2. Touching(found, EntitiesOf(Near(seeds, found, hop - 1))) \subseteq Near(seeds, found, (hop - 1) + 1)
    BY <2>1, OneHopMore
  <2>3. Near(seeds, found, hop) \subseteq Near(seeds, found, Hops)
    BY <1>1, <2>1, NearerAreNear
  <2> QED BY <1>2, <2>1, <2>2, <2>3
<1>4. ASSUME NEW c \in Near(seeds, found, Hops) \ seeds PROVE \E hop \in 1..Hops : c \in reached[hop]
  <2>1. Hops # 0
    BY <1>4, NearestAreSeeds
  <2>2. Hops - 1 \in Nat /\ (Hops - 1) + 1 = Hops /\ Hops \in 1..Hops
    BY <1>1, <2>1
  <2>3. Near(seeds, found, (Hops - 1) + 1) \subseteq seeds \cup Touching(found, EntitiesOf(Near(seeds, found, Hops - 1)))
    BY <2>2, OneHopMore
  <2> QED BY <1>2, <1>4, <2>2, <2>3
<1> QED BY <1>2, <1>3, <1>4

(* The projection's search. Of the entities of the seeds, those that are   *)
(* not in next yet belong to seeds that are left.                          *)
Seeding(seeds, among, left, next) ==
  /\ left \subseteq seeds
  /\ next \subseteq EntitiesOf(seeds \cap among)
  /\ EntitiesOf(seeds \cap among) \subseteq next \cup EntitiesOf(left \cap among)

(* An entity has been asked about: what touches it is found, and the       *)
(* entities of that are known.                                             *)
Asked(entity, seeds, among, known, list) ==
  /\ Touching(among, {entity}) \subseteq seeds \cup list
  /\ EntitiesOf(Touching(among, {entity})) \subseteq known

(* During a hop every entity that was near before it has been asked about, *)
(* in this hop or in an earlier one, or is left.                           *)
Hopping(seeds, among, hop, left, next, list) ==
  /\ hop \in 1..Hops
  /\ list \subseteq Near(seeds, among, hop) \ seeds
  /\ left \subseteq EntitiesOf(Near(seeds, among, hop - 1))
  /\ next \subseteq EntitiesOf(Near(seeds, among, hop))
  /\ \A entity \in EntitiesOf(Near(seeds, among, hop - 1)) \ left :
       Asked(entity, seeds, among, EntitiesOf(Near(seeds, among, hop - 1)) \cup next, list)

LEMMA SeedGoesOn ==
  ASSUME NEW seeds, NEW among, NEW left, NEW next, Seeding(seeds, among, left, next),
         NEW seed \in left, NEW more, more = next \cup IF seed \in among THEN Connected(seed) ELSE {}
  PROVE  Seeding(seeds, among, left \ {seed}, more)
BY DEF Seeding, EntitiesOf

LEMMA HopBegins ==
  ASSUME NEW seeds, NEW among, NEW next, Seeding(seeds, among, {}, next), Hops # 0
  PROVE  Hopping(seeds, among, 1, next, {}, {})
<1>1. Hops \in Nat
  BY RetrievalAssumption
<1>2. next = EntitiesOf(seeds \cap among)
  BY DEF Seeding, EntitiesOf
<1>3. 1 \in 1..Hops /\ 1 - 1 = 0
  BY <1>1
<1> QED BY <1>2, <1>3, NearestAreSeeds DEF Hopping

LEMMA HopGoesOn ==
  ASSUME NEW seeds, NEW among, NEW hop, NEW left, NEW next, NEW list,
         Hopping(seeds, among, hop, left, next, list), NEW entity \in left,
         NEW further, further = next \cup (EntitiesOf(Touching(among, {entity})) \ {entity}),
         NEW longer, longer = list \cup (Touching(among, {entity}) \ (seeds \cup list))
  PROVE  Hopping(seeds, among, hop, left \ {entity}, further, longer)
<1>1. PICK before \in Nat : hop = before + 1 /\ before = hop - 1
  <2>1. hop - 1 \in Nat /\ hop = (hop - 1) + 1
    BY RetrievalAssumption DEF Hopping
  <2> QED BY <2>1
<1>2. PICK near, nearer : near = Near(seeds, among, hop) /\ nearer = EntitiesOf(Near(seeds, among, before))
  OBVIOUS
<1>3. /\ hop \in 1..Hops /\ list \subseteq near \ seeds /\ left \subseteq nearer /\ next \subseteq EntitiesOf(near)
      /\ \A e \in nearer \ left : Asked(e, seeds, among, nearer \cup next, list)
  BY <1>1, <1>2 DEF Hopping
<1>4. entity \in nearer
  BY <1>3
<1>5. Touching(among, {entity}) \subseteq Touching(among, nearer)
  BY <1>4 DEF Touching
<1>6. Touching(among, nearer) \subseteq near
  BY <1>1, <1>2, OneHopMore
<1>7. longer \subseteq near \ seeds
  BY <1>3, <1>5, <1>6
<1>8. further \subseteq EntitiesOf(near)
  BY <1>3, <1>5, <1>6 DEF EntitiesOf
<1>9. ASSUME NEW e \in nearer \ (left \ {entity}) PROVE Asked(e, seeds, among, nearer \cup further, longer)
  <2>1. CASE e = entity
    <3>1. EntitiesOf(Touching(among, {entity})) \subseteq nearer \cup further
      BY <1>4
    <3> QED BY <2>1, <3>1 DEF Asked
  <2>2. CASE e # entity
    <3>1. Asked(e, seeds, among, nearer \cup next, list)
      BY <1>3, <1>9, <2>2
    <3> QED BY <3>1 DEF Asked
  <2> QED BY <2>1, <2>2
<1> QED BY <1>1, <1>2, <1>3, <1>7, <1>8, <1>9 DEF Hopping

LEMMA NextHop ==
  ASSUME NEW seeds, NEW among, NEW hop, NEW next, NEW list,
         Hopping(seeds, among, hop, {}, next, list), hop # Hops
  PROVE  Hopping(seeds, among, hop + 1, next, {}, list)
<1>1. PICK before \in Nat : hop = before + 1 /\ before = hop - 1
  <2>1. hop - 1 \in Nat /\ hop = (hop - 1) + 1
    BY RetrievalAssumption DEF Hopping
  <2> QED BY <2>1
<1>2. PICK near, nearer, far :
        /\ near = Near(seeds, among, hop) /\ nearer = EntitiesOf(Near(seeds, among, before))
        /\ far = Near(seeds, among, hop + 1)
  OBVIOUS
<1>3. /\ list \subseteq near \ seeds /\ next \subseteq EntitiesOf(near)
      /\ \A e \in nearer : Asked(e, seeds, among, nearer \cup next, list)
  BY <1>1, <1>2 DEF Hopping
<1>4. hop + 1 \in 1..Hops /\ hop \in Nat /\ (hop + 1) - 1 = hop
  BY RetrievalAssumption DEF Hopping
<1>5. near \subseteq far
  BY <1>2, <1>4, NearerAreNear
<1>6. near \subseteq (seeds \cap among) \cup Touching(among, nearer)
  <2>1. near \subseteq seeds \cup Touching(among, nearer)
    BY <1>1, <1>2, OneHopMore
  <2> QED BY <1>2, <2>1 DEF Near
<1>7. EntitiesOf(seeds \cap among) \subseteq nearer
  <2>1. Near(seeds, among, 0) \subseteq Near(seeds, among, before)
    BY <1>1, NearerAreNear
  <2> QED BY <1>2, <2>1, NearestAreSeeds DEF EntitiesOf
<1>8. nearer \subseteq EntitiesOf(near)
  <2>1. Near(seeds, among, before) \subseteq near
    BY <1>1, <1>2, <1>4, NearerAreNear
  <2> QED BY <1>2, <2>1 DEF EntitiesOf
<1>9. EntitiesOf(near) \subseteq nearer \cup next
  <2>1. EntitiesOf(Touching(among, nearer)) \subseteq nearer \cup next
    BY <1>3 DEF Asked, EntitiesOf, Touching
  <2> QED BY <1>6, <1>7, <2>1 DEF EntitiesOf
<1>10. ASSUME NEW e \in EntitiesOf(near) \ next PROVE Asked(e, seeds, among, EntitiesOf(near) \cup {}, list)
  <2>1. Asked(e, seeds, among, nearer \cup next, list)
    BY <1>3, <1>9
  <2> QED BY <1>3, <1>8, <2>1 DEF Asked
<1>11. {} \subseteq EntitiesOf(far) /\ list \subseteq far \ seeds
  BY <1>3, <1>5
<1> QED BY <1>2, <1>3, <1>4, <1>10, <1>11 DEF Hopping

(* After the last hop, or when there is nothing to hop to, all that is     *)
(* near is found.                                                          *)
LEMMA HopsEnd ==
  ASSUME NEW seeds, NEW among, NEW hop, NEW next, NEW list,
         Hopping(seeds, among, hop, {}, next, list), hop = Hops \/ next = {}
  PROVE  list = Near(seeds, among, Hops) \ seeds
<1>1. PICK before \in Nat : hop = before + 1 /\ before = hop - 1
  <2>1. hop - 1 \in Nat /\ hop = (hop - 1) + 1
    BY RetrievalAssumption DEF Hopping
  <2> QED BY <2>1
<1>2. PICK nearer : nearer = EntitiesOf(Near(seeds, among, before))
  OBVIOUS
<1>3. /\ list \subseteq Near(seeds, among, hop) \ seeds
      /\ \A e \in nearer : Asked(e, seeds, among, nearer \cup next, list)
  BY <1>1, <1>2 DEF Hopping
<1>4. hop \in Nat /\ hop <= Hops /\ Hops \in Nat
  BY RetrievalAssumption DEF Hopping
<1>5. list \subseteq Near(seeds, among, Hops) \ seeds
  BY <1>3, <1>4, NearerAreNear
<1>6. Touching(among, nearer) \subseteq seeds \cup list
  BY <1>3 DEF Asked, Touching
<1>7. Near(seeds, among, Hops) \subseteq seeds \cup Touching(among, nearer)
  <2>1. CASE hop = Hops
    BY <1>1, <1>2, <2>1, OneHopMore
  <2>2. CASE next = {}
    <3>1. EntitiesOf(Touching(among, nearer)) \subseteq nearer
      BY <1>3, <2>2 DEF Asked, EntitiesOf, Touching
    <3>2. EntitiesOf(seeds \cap among) \subseteq nearer
      <4>1. Near(seeds, among, 0) \subseteq Near(seeds, among, before)
        BY <1>1, NearerAreNear
      <4> QED BY <1>2, <4>1, NearestAreSeeds DEF EntitiesOf
    <3> QED BY <1>4, <3>1, <3>2, NearIsClosed
  <2> QED BY <2>1, <2>2
<1> QED BY <1>5, <1>6, <1>7

(* Without entities to start from nothing is near but the seeds.           *)
LEMMA NothingIsNear ==
  ASSUME NEW seeds, NEW among, EntitiesOf(seeds \cap among) = {}
  PROVE  Near(seeds, among, Hops) \ seeds = {}
<1>1. Touching(among, {}) = {} /\ EntitiesOf({}) = {} /\ Hops \in Nat
  BY RetrievalAssumption DEF Touching, EntitiesOf
<1>2. Near(seeds, among, Hops) \subseteq seeds \cup Touching(among, {})
  BY <1>1, NearIsClosed
<1> QED BY <1>1, <1>2

-----------------------------------------------------------------------------
(* What a search of the gate has found, as long as no claim changes: seeds *)
(* in the namespace of the caller, and of what is near to them what its    *)
(* place says.                                                             *)

SeedsIn(tasks) == Members(tasks["lexical"].list) \cup Members(tasks["vector"].list)

InView(principal, state) == {c \in Claims : Visible(state[c]) /\ InScope(c, principal)}

ScopeInv(principal, task) ==
  task.at \in {"reading", "done"} => \A c \in Members(task.list) : InScope(c, principal)

GraphInv(seeds, among, task) ==
  /\ task.at # "done" => Hops # 0
  /\ task.at = "seeds" => Seeding(seeds, among, task.left, task.next)
  /\ task.at = "hop" => Hopping(seeds, among, task.hop, task.left, task.next, Members(task.list))
  /\ task.at = "done" /\ ~task.full => Members(task.list) = Near(seeds, among, Hops) \ seeds

NeighbourInv(me, until, state) ==
  me.pc # "idle" /\ me.source = "gate" =>
    /\ \A k \in {"lexical", "vector"} : ScopeInv(me.principal, me.task[k])
    /\ me.pc \in {"ranked", "done"} => "graph" \in DOMAIN me.task /\ me.task["graph"].at = "done"
    /\ "graph" \in DOMAIN me.task /\ me.since = until =>
         GraphInv(SeedsIn(me.task), InView(me.principal, state), me.task["graph"])

NeighboursInv == \A s \in Searchers : NeighbourInv(search[s], Len(changes), status)

Settles(s, next) ==
  search' = [search EXCEPT ![s] = next] /\ NeighbourInv(next, Len(changes), status)

LEMMA NextNeighbours ==
  ASSUME NEW s \in Searchers, DOMAIN search = Searchers, NeighboursInv, UNCHANGED knowledge,
         \E next : Settles(s, next)
  PROVE  NeighboursInv'
<1>1. PICK next : Settles(s, next)
  OBVIOUS
<1>2. PICK until, state : until = Len(changes) /\ state = status
  OBVIOUS
<1>3. NeighbourInv(next, until, state) /\ search' = [search EXCEPT ![s] = next]
  BY <1>1, <1>2 DEF Settles
<1>4. \A r \in Searchers : NeighbourInv(search[r], until, state)
  BY <1>2 DEF NeighboursInv
<1>5. \A r \in Searchers : NeighbourInv(search'[r], until, state)
  BY <1>3, <1>4
<1>6. Len(changes') = until /\ status' = state
  BY <1>2 DEF knowledge
<1> QED BY <1>5, <1>6 DEF NeighboursInv

(* A step of a task of the gate.                                           *)
Fits(me, k, task) ==
  me.source = "gate" =>
    /\ k \in {"lexical", "vector"} => ScopeInv(me.principal, task)
    /\ k = "graph" /\ me.since = Len(changes) =>
         GraphInv(SeedsIn(me.task), InView(me.principal, status), task)

LEMMA FittingStep ==
  ASSUME NEW s \in Searchers, DOMAIN search = Searchers, SearchesInv, NeighboursInv, UNCHANGED knowledge,
         NEW k, NEW at, Task(s, k, at), at # "done", NEW task, Go(s, k, task), Fits(search[s], k, task)
  PROVE  NeighboursInv'
<1>1. PICK me, until, state : me = search[s] /\ until = Len(changes) /\ state = status
  OBVIOUS
<1>2. SearchInv(s, me, changes, pending, resolutions) /\ NeighbourInv(me, until, state)
  BY <1>1 DEF SearchesInv, NeighboursInv
<1>3. me.pc = "candidates" /\ k \in DOMAIN me.task /\ me.task[k].at # "done"
  BY <1>1 DEF Task
<1>4. /\ Fields \subseteq DOMAIN me /\ {"lexical", "vector"} \subseteq DOMAIN me.task
      /\ DOMAIN me.task \subseteq {"lexical", "vector", "graph"}
      /\ k # "graph" => "graph" \notin DOMAIN me.task
  BY <1>2, <1>3 DEF SearchInv, PrimaryAreDone
<1>5. PICK next : next = [me EXCEPT !.task = [@ EXCEPT ![k] = task]]
  OBVIOUS
<1>6. search' = [search EXCEPT ![s] = next]
  BY <1>1, <1>5 DEF Go
<1>7. /\ \A field \in Fields \ {"task"} : next[field] = me[field]
      /\ next.task = [me.task EXCEPT ![k] = task]
  BY <1>4, <1>5 DEF Fields
<1>8. next.pc = me.pc /\ next.principal = me.principal /\ next.source = me.source /\ next.since = me.since
  BY <1>7 DEF Fields
<1>9. me.source = "gate" =>
        /\ k \in {"lexical", "vector"} => ScopeInv(me.principal, task)
        /\ k = "graph" /\ me.since = until => GraphInv(SeedsIn(me.task), InView(me.principal, state), task)
  BY <1>1 DEF Fits
<1>10. me.source = "gate" => \A j \in {"lexical", "vector"} : ScopeInv(next.principal, next.task[j])
  <2>1. me.source = "gate" => \A j \in {"lexical", "vector"} : ScopeInv(me.principal, me.task[j])
    BY <1>2, <1>3 DEF NeighbourInv
  <2> QED BY <1>3, <1>4, <1>7, <1>8, <1>9, <2>1
<1>11. me.source = "gate" /\ "graph" \in DOMAIN next.task /\ next.since = until =>
         GraphInv(SeedsIn(next.task), InView(next.principal, state), next.task["graph"])
  <2> SUFFICES ASSUME me.source = "gate", "graph" \in DOMAIN next.task, next.since = until
               PROVE  GraphInv(SeedsIn(next.task), InView(next.principal, state), next.task["graph"])
    OBVIOUS
  <2>1. k = "graph"
    BY <1>4, <1>7
  <2>2. next.task["graph"] = task /\ next.task["lexical"] = me.task["lexical"]
        /\ next.task["vector"] = me.task["vector"]
    BY <1>3, <1>4, <1>7, <2>1
  <2>3. SeedsIn(next.task) = SeedsIn(me.task)
    BY <2>2 DEF SeedsIn
  <2> QED BY <1>8, <1>9, <2>1, <2>2, <2>3
<1>12. NeighbourInv(next, until, state)
  BY <1>3, <1>8, <1>10, <1>11 DEF NeighbourInv
<1>13. Settles(s, next)
  BY <1>1, <1>6, <1>12 DEF Settles
<1> QED BY <1>13, NextNeighbours

Fitting(s, k, at, task) ==
  Task(s, k, at) /\ at # "done" /\ Go(s, k, task) /\ Fits(search[s], k, task)

LEMMA FittingTask ==
  ASSUME NEW s \in Searchers, DOMAIN search = Searchers, SearchesInv, NeighboursInv, UNCHANGED knowledge,
         \E k, at, task : Fitting(s, k, at, task)
  PROVE  NeighboursInv'
<1>1. PICK k, at, task : Fitting(s, k, at, task)
  OBVIOUS
<1>2. Task(s, k, at) /\ at # "done" /\ Go(s, k, task) /\ Fits(search[s], k, task)
  BY <1>1 DEF Fitting
<1> QED BY <1>2, FittingStep

(* While the graph is searched, what is said of it holds.                  *)
LEMMA GraphGoesOn ==
  ASSUME NeighboursInv, NEW s \in Searchers, NEW at, Task(s, "graph", at), at # "done",
         search[s].source = "gate", search[s].since = Len(changes)
  PROVE  /\ GraphInv(SeedsIn(search[s].task), InView(search[s].principal, status), search[s].task["graph"])
         /\ Hops # 0
<1>1. PICK me, until, state : me = search[s] /\ until = Len(changes) /\ state = status
  OBVIOUS
<1>2. NeighbourInv(me, until, state) /\ me.pc = "candidates" /\ "graph" \in DOMAIN me.task
      /\ me.task["graph"].at # "done"
  BY <1>1 DEF NeighboursInv, Task
<1>3. GraphInv(SeedsIn(me.task), InView(me.principal, state), me.task["graph"])
  BY <1>1, <1>2 DEF NeighbourInv
<1> QED BY <1>1, <1>2, <1>3 DEF GraphInv

(* The steps that ask whether the projection is up to date.                *)
LEMMA GateFits ==
  ASSUME SearchesInv, NeighboursInv, NEW s \in Searchers, NEW k \in {"lexical", "vector", "graph"},
         GateEvents(s, k) \/ GateMarks(s, k) \/ ProjectionFails(s, k)
  PROVE  \E at, task : Fitting(s, k, at, task)
<1>1. PICK at, task :
        /\ at \in {"events", "marks", "projection", "seeds", "hop"} /\ Task(s, k, at)
        /\ Go(s, k, task) /\ task.at \in {"marks", "projection", "canonical"}
  <2>1. CASE GateEvents(s, k)
    <3>1. [at |-> "marks", events |-> Len(changes)].at = "marks"
      OBVIOUS
    <3> QED BY <2>1, <3>1 DEF GateEvents
  <2>2. CASE GateMarks(s, k) \/ ProjectionFails(s, k)
    <3>1. Waiting("projection").at = "projection" /\ Waiting("canonical").at = "canonical"
      BY DEF Waiting
    <3> QED BY <2>2, <3>1 DEF GateMarks, ProjectionFails
  <2> QED BY <2>1, <2>2
<1>2. ASSUME search[s].source = "gate", k = "graph", search[s].since = Len(changes)
      PROVE  GraphInv(SeedsIn(search[s].task), InView(search[s].principal, status), task)
  <2>1. Hops # 0
    BY <1>1, <1>2, GraphGoesOn
  <2> QED BY <1>1, <2>1 DEF GraphInv
<1>3. ScopeInv(search[s].principal, task)
  BY <1>1 DEF ScopeInv
<1>4. Fits(search[s], k, task)
  BY <1>2, <1>3 DEF Fits
<1>5. Fitting(s, k, at, task)
  BY <1>1, <1>4 DEF Fitting
<1> QED BY <1>5

(* A primary strategy that is done found claims in scope.                  *)
LEMMA FoundInScope ==
  ASSUME NEW s \in Searchers, NEW k \in {"lexical", "vector"}, NEW at, Task(s, k, at), at # "done",
         NEW task, Go(s, k, task), NEW found, Members(task.list) \subseteq found,
         \A c \in found : InScope(c, search[s].principal)
  PROVE  Fitting(s, k, at, task)
<1>1. ScopeInv(search[s].principal, task)
  BY DEF ScopeInv
<1>2. Fits(search[s], k, task)
  BY <1>1 DEF Fits
<1> QED BY <1>2 DEF Fitting

LEMMA ProjectionFits ==
  ASSUME NEW s \in Searchers, SearchProjectionLexical(s) \/ SearchProjectionVector(s)
  PROVE  \E k, at, task : Fitting(s, k, at, task)
<1> DEFINE principal == search[s].principal
           limit(k) == IF k = "lexical" THEN LexicalLimit ELSE VectorLimit
<1>1. PICK k, found, score, list :
        /\ k \in {"lexical", "vector"} /\ found \in SUBSET ProjectionRows(principal)
        /\ Task(s, k, "projection")
        /\ list \in Ranked(found, score, limit(k))
        /\ Go(s, k, Found(list, Cardinality(found) > limit(k)))
  <2>1. CASE SearchProjectionLexical(s)
    BY <2>1 DEF SearchProjectionLexical
  <2>2. CASE SearchProjectionVector(s)
    BY <2>2 DEF SearchProjectionVector
  <2> QED BY <2>1, <2>2
<1>2. found \in SUBSET Claims /\ \A c \in found : InScope(c, principal)
  BY <1>1 DEF ProjectionRows
<1>3. limit(k) \in Nat
  BY RetrievalAssumption
<1>4. Members(list) \subseteq found
  BY <1>1, <1>2, <1>3, Ranking
<1>5. PICK task : task = Found(list, Cardinality(found) > limit(k))
  OBVIOUS
<1>6. Members(task.list) \subseteq found
  BY <1>4, <1>5 DEF Found
<1>7. Go(s, k, task)
  BY <1>1, <1>5
<1>8. Fitting(s, k, "projection", task)
  BY <1>1, <1>2, <1>6, <1>7, FoundInScope
<1> QED BY <1>8

LEMMA LexicalFits ==
  ASSUME SearchesInv, NeighboursInv, NEW s \in Searchers, SearchLexicalIds(s) \/ SearchLexicalRead(s)
  PROVE  \E k, at, task : Fitting(s, k, at, task)
<1>1. CASE SearchLexicalIds(s)
  <2>1. PICK ids, full :
          Task(s, "lexical", "canonical")
          /\ Go(s, "lexical", [at |-> "reading", left |-> ids, list |-> <<>>, full |-> full])
    BY <1>1 DEF SearchLexicalIds
  <2>2. PICK task : task = [at |-> "reading", left |-> ids, list |-> <<>>, full |-> full]
    OBVIOUS
  <2>3. Members(task.list) \subseteq {}
    BY <2>2 DEF Members
  <2>4. Go(s, "lexical", task)
    BY <2>1, <2>2
  <2>5. ScopeInv(search[s].principal, task)
    BY <2>3 DEF ScopeInv
  <2>6. Fitting(s, "lexical", "canonical", task)
    BY <2>1, <2>4, <2>5 DEF Fitting, Fits
  <2> QED BY <2>6
<1>2. CASE SearchLexicalRead(s)
  <2>1. PICK me, task : me = search[s] /\ task = me.task["lexical"]
    OBVIOUS
  <2>2. Task(s, "lexical", "reading")
    BY <1>2 DEF SearchLexicalRead
  <2>3. /\ task.at = "reading" /\ {"left", "list", "full", "at"} \subseteq DOMAIN task
        /\ task.list \in Seq(Claims) /\ task.left \subseteq Claims
    <3>1. task.at = "reading" /\ TaskInv(changes, pending, me, "lexical", task)
      BY <2>1, <2>2, Running
    <3> QED BY <3>1 DEF TaskInv, Sound
  <2>4. me.source = "gate" => \A c \in Members(task.list) : InScope(c, me.principal)
    <3>1. NeighbourInv(me, Len(changes), status) /\ me.pc = "candidates"
      BY <2>1, <2>2 DEF NeighboursInv, Task
    <3>2. me.source = "gate" => ScopeInv(me.principal, task)
      BY <2>1, <3>1 DEF NeighbourInv
    <3> QED BY <2>3, <3>2 DEF ScopeInv
  <2>5. \/ Go(s, "lexical", Found(task.list, task.full))
        \/ \E c \in task.left :
             Go(s, "lexical", [task EXCEPT !.left = @ \ {c},
                                           !.list = IF c \in ListClaims(me.principal) THEN Append(@, c) ELSE @])
    BY <1>2, <2>1 DEF SearchLexicalRead
  <2>6. PICK next :
          /\ Go(s, "lexical", next)
          /\ me.source = "gate" => \A c \in Members(next.list) : InScope(c, me.principal)
    <3>1. CASE Go(s, "lexical", Found(task.list, task.full))
      <4>1. Found(task.list, task.full).list = task.list
        BY DEF Found
      <4> QED BY <2>4, <3>1, <4>1
    <3>2. ASSUME NEW c \in task.left,
                 Go(s, "lexical", [task EXCEPT !.left = @ \ {c},
                                    !.list = IF c \in ListClaims(me.principal) THEN Append(@, c) ELSE @])
          PROVE  \E next :
                   /\ Go(s, "lexical", next)
                   /\ me.source = "gate" => \A d \in Members(next.list) : InScope(d, me.principal)
      <4>1. PICK next :
              next = [task EXCEPT !.left = @ \ {c},
                                  !.list = IF c \in ListClaims(me.principal) THEN Append(@, c) ELSE @]
        OBVIOUS
      <4>2. next.list = IF c \in ListClaims(me.principal) THEN Append(task.list, c) ELSE task.list
        BY <2>3, <4>1
      <4>3. Members(Append(task.list, c)) = Members(task.list) \cup {c}
        BY <2>3, Joining
      <4>4. c \in ListClaims(me.principal) => InScope(c, me.principal)
        BY DEF ListClaims
      <4>5. me.source = "gate" => \A d \in Members(next.list) : InScope(d, me.principal)
        BY <2>4, <4>2, <4>3, <4>4
      <4> QED BY <3>2, <4>1, <4>5
    <3> QED BY <2>5, <3>1, <3>2
  <2>7. Fits(search[s], "lexical", next)
    BY <2>1, <2>6 DEF Fits, ScopeInv
  <2>8. Fitting(s, "lexical", "reading", next)
    BY <2>2, <2>6, <2>7 DEF Fitting
  <2> QED BY <2>8
<1> QED BY <1>1, <1>2

(* The stores in which a strategy is one step.                             *)
LEMMA AtOnceFits ==
  ASSUME NEW s \in Searchers, SearchLexicalAtOnce(s) \/ RankClaimsLexically(s) \/ SearchCanonicalVector(s)
  PROVE  \E k, at, task : Fitting(s, k, at, task)
<1> DEFINE listed == ListClaims(search[s].principal)
<1>1. listed \in SUBSET Claims /\ \A c \in listed : InScope(c, search[s].principal)
  BY DEF ListClaims
<1>2. PICK k, at, task :
        /\ k \in {"lexical", "vector"} /\ Task(s, k, at) /\ at # "done"
        /\ Go(s, k, task) /\ Members(task.list) \subseteq listed
  <2>1. CASE SearchLexicalAtOnce(s)
    <3>1. PICK some, full, list :
            /\ some \in SUBSET listed /\ list \in SetToSeqs(some)
            /\ Task(s, "lexical", "sqlite") /\ Go(s, "lexical", Found(list, full))
      BY <2>1 DEF SearchLexicalAtOnce
    <3>2. some \in SUBSET Claims
      BY <1>1, <3>1
    <3>3. Members(list) \subseteq listed
      BY <3>1, <3>2, Listing
    <3>4. Found(list, full).list = list
      BY DEF Found
    <3> QED BY <3>1, <3>3, <3>4
  <2>2. CASE RankClaimsLexically(s)
    <3>1. PICK some, full, list :
            /\ some \in SUBSET listed /\ list \in Ranked(some, Tokens, LexicalLimit)
            /\ Task(s, "lexical", "memory") /\ Go(s, "lexical", Found(list, full))
      BY <2>2 DEF RankClaimsLexically
    <3>2. some \in SUBSET Claims /\ LexicalLimit \in Nat
      BY <1>1, <3>1, RetrievalAssumption
    <3>3. Members(list) \subseteq listed
      BY <3>1, <3>2, Ranking
    <3>4. Found(list, full).list = list
      BY DEF Found
    <3> QED BY <3>1, <3>3, <3>4
  <2>3. CASE SearchCanonicalVector(s)
    <3>1. PICK some, full, all, list :
            /\ some \in SUBSET listed /\ list \in Ranked(some, Similarity, VectorLimit)
            /\ Task(s, "vector", "canonical")
            /\ Go(s, "vector", [at |-> "done", list |-> list, full |-> full, listed |-> all])
      BY <2>3 DEF SearchCanonicalVector
    <3>2. some \in SUBSET Claims /\ VectorLimit \in Nat
      BY <1>1, <3>1, RetrievalAssumption
    <3>3. Members(list) \subseteq listed
      BY <3>1, <3>2, Ranking
    <3>4. [at |-> "done", list |-> list, full |-> full, listed |-> all].list = list
      OBVIOUS
    <3> QED BY <3>1, <3>3, <3>4
  <2> QED BY <2>1, <2>2, <2>3
<1>3. Fitting(s, k, at, task)
  BY <1>1, <1>2, FoundInScope
<1> QED BY <1>3

(* The graph. While no claim changes an up-to-date projection has the rows *)
(* of the store, and the primary strategies have found claims in scope.    *)
LEMMA RowsAreInView ==
  ASSUME KnowledgeInv, HistoryInv, pending \cap (1..Len(changes)) = {}
  PROVE  /\ \A c \in Claims : rows[c] # None <=> Visible(status[c])
         /\ \A principal : ProjectionRows(principal) = InView(principal, status)
<1>1. pending = {}
  BY DEF KnowledgeInv, HistoryInv, IsLog
<1>2. \A c \in Claims : rows[c] = Shown(status[c])
  BY <1>1 DEF KnowledgeInv, Dirty
<1>3. \A c \in Claims : status[c] \in {"absent", "asserted", "retracted"}
  BY DEF KnowledgeInv
<1>4. \A c \in Claims : rows[c] # None <=> Visible(status[c])
  BY <1>2, <1>3, RetrievalAssumption DEF Shown, Visible
<1> QED BY <1>4 DEF ProjectionRows, InView

LEMMA SeedsAreInScope ==
  ASSUME SearchesInv, NeighboursInv, NEW s \in Searchers, NEW at, Task(s, "graph", at),
         search[s].source = "gate"
  PROVE  \A c \in SeedsIn(search[s].task) : c \in Claims /\ InScope(c, search[s].principal)
<1>1. PICK me : me = search[s]
  OBVIOUS
<1>2. SearchInv(s, me, changes, pending, resolutions) /\ NeighbourInv(me, Len(changes), status)
  BY <1>1 DEF SearchesInv, NeighboursInv
<1>3. me.pc = "candidates" /\ "graph" \in DOMAIN me.task /\ me.source = "gate"
  BY <1>1 DEF Task
<1>4. /\ PrimaryAreDone(me) /\ {"lexical", "vector"} \subseteq DOMAIN me.task
      /\ \A k \in DOMAIN me.task : TaskInv(changes, pending, me, k, me.task[k])
  BY <1>2, <1>3 DEF SearchInv
<1>5. \A k \in {"lexical", "vector"} : ScopeInv(me.principal, me.task[k])
  BY <1>2, <1>3 DEF NeighbourInv
<1>6. ASSUME NEW k \in {"lexical", "vector"}, NEW c \in Members(me.task[k].list)
      PROVE  c \in Claims /\ InScope(c, me.principal)
  <2>1. me.task[k].at = "done" /\ ScopeInv(me.principal, me.task[k])
    BY <1>4, <1>5 DEF PrimaryAreDone
  <2>2. TaskInv(changes, pending, me, k, me.task[k])
    BY <1>4
  <2>3. me.task[k].list \in Seq(Claims)
    BY <2>1, <2>2 DEF TaskInv, Sound
  <2> QED BY <2>1, <2>3 DEF ScopeInv, Members
<1> QED BY <1>1, <1>6 DEF SeedsIn

(* A step of the graph's task has to keep what is said of it.              *)
LEMMA GraphFits ==
  ASSUME NEW s \in Searchers, NEW at, Task(s, "graph", at), at # "done", NEW task, Go(s, "graph", task),
         search[s].source = "gate" /\ search[s].since = Len(changes) =>
           GraphInv(SeedsIn(search[s].task), InView(search[s].principal, status), task)
  PROVE  Fitting(s, "graph", at, task)
BY DEF Fitting, Fits

LEMMA HopsAreFresh ==
  ASSUME SearchesInv, KnowledgeInv, HistoryInv, NEW s \in Searchers,
         NEW at \in {"projection", "seeds", "hop"}, Task(s, "graph", at), search[s].since = Len(changes)
  PROVE  /\ \A c \in Claims : rows[c] # None <=> Visible(status[c])
         /\ \A principal : ProjectionRows(principal) = InView(principal, status)
<1>1. pending \cap (1..search[s].since) = {}
  BY Running DEF TaskInv
<1> QED BY <1>1, RowsAreInView

LEMMA SeedsFit ==
  ASSUME SearchesInv, KnowledgeInv, HistoryInv, NeighboursInv, NEW s \in Searchers,
         SeedGraph(s) \/ SeedGraphEntities(s)
  PROVE  \E k, at, task : Fitting(s, k, at, task)
<1>1. PICK me, seeds, among, task :
        /\ me = search[s] /\ seeds = SeedsIn(me.task) /\ among = InView(me.principal, status)
        /\ task = me.task["graph"]
  OBVIOUS
<1>2. Seeds(s) = seeds
  BY <1>1 DEF Seeds, SeedsIn
<1>3. CASE SeedGraph(s)
  <2>1. PICK next : next = [at |-> "seeds", left |-> seeds, next |-> {}]
    OBVIOUS
  <2>2. Task(s, "graph", "projection") /\ Go(s, "graph", next)
    BY <1>2, <1>3, <2>1 DEF SeedGraph
  <2>3. Seeding(seeds, among, seeds, {})
    BY DEF Seeding
  <2>4. me.source = "gate" /\ me.since = Len(changes) => GraphInv(seeds, among, next)
    <3>1. me.source = "gate" /\ me.since = Len(changes) => Hops # 0
      BY <1>1, <2>2, GraphGoesOn
    <3> QED BY <2>1, <2>3, <3>1 DEF GraphInv
  <2>5. Fitting(s, "graph", "projection", next)
    BY <1>1, <2>2, <2>4, GraphFits
  <2> QED BY <2>5
<1>4. CASE SeedGraphEntities(s)
  <2>1. Task(s, "graph", "seeds")
    BY <1>4 DEF SeedGraphEntities
  <2>2. task.at = "seeds" /\ {"at", "left", "next"} \subseteq DOMAIN task
    <3>1. TaskInv(changes, pending, me, "graph", task) /\ task.at = "seeds"
      BY <1>1, <2>1, Running
    <3> QED BY <3>1 DEF TaskInv
  <2>3. ASSUME me.source = "gate", me.since = Len(changes)
        PROVE  /\ Seeding(seeds, among, task.left, task.next) /\ Hops # 0
               /\ \A c \in seeds : rows[c] # None <=> c \in among
    <3>1. GraphInv(seeds, among, task) /\ Hops # 0
      BY <1>1, <2>1, <2>3, GraphGoesOn
    <3>2. \A c \in seeds : c \in Claims /\ InScope(c, me.principal)
      BY <1>1, <2>1, <2>3, SeedsAreInScope
    <3>3. \A c \in Claims : rows[c] # None <=> Visible(status[c])
      BY <1>1, <2>1, <2>3, HopsAreFresh
    <3> QED BY <1>1, <2>2, <3>1, <3>2, <3>3 DEF GraphInv, InView
  <2>4. CASE task.left # {}
    <3>1. PICK seed \in task.left :
            Go(s, "graph",
               [task EXCEPT !.left = @ \ {seed},
                            !.next = @ \cup IF rows[seed] = None THEN {} ELSE Connected(seed)])
      BY <1>1, <1>4, <2>4 DEF SeedGraphEntities
    <3>2. PICK more, next :
            /\ more = task.next \cup IF rows[seed] = None THEN {} ELSE Connected(seed)
            /\ next = [task EXCEPT !.left = @ \ {seed},
                                   !.next = @ \cup IF rows[seed] = None THEN {} ELSE Connected(seed)]
      OBVIOUS
    <3>3. next.at = "seeds" /\ next.left = task.left \ {seed} /\ next.next = more
      BY <2>2, <3>2
    <3>4. ASSUME me.source = "gate", me.since = Len(changes) PROVE GraphInv(seeds, among, next)
      <4>1. Seeding(seeds, among, task.left, task.next) /\ Hops # 0
        BY <2>3, <3>4
      <4>2. rows[seed] # None <=> seed \in among
        BY <2>3, <3>4, <4>1 DEF Seeding
      <4>3. more = task.next \cup IF seed \in among THEN Connected(seed) ELSE {}
        BY <3>2, <4>2
      <4>4. Seeding(seeds, among, task.left \ {seed}, more)
        BY <4>1, <4>3, SeedGoesOn
      <4> QED BY <3>3, <4>1, <4>4 DEF GraphInv
    <3>5. Go(s, "graph", next)
      BY <3>1, <3>2
    <3>6. Fitting(s, "graph", "seeds", next)
      BY <1>1, <2>1, <3>4, <3>5, GraphFits
    <3> QED BY <3>6
  <2>5. CASE task.left = {}
    <3>1. PICK next :
            next = IF task.next = {} THEN Found(<<>>, FALSE)
                   ELSE [at |-> "hop", hop |-> 1, list |-> <<>>, left |-> task.next, next |-> {}]
      OBVIOUS
    <3>2. Go(s, "graph", next)
      BY <1>1, <1>4, <2>5, <3>1 DEF SeedGraphEntities
    <3>3. Members(<<>>) = {}
      BY DEF Members
    <3>4. ASSUME me.source = "gate", me.since = Len(changes) PROVE GraphInv(seeds, among, next)
      <4>1. Seeding(seeds, among, {}, task.next) /\ Hops # 0
        BY <2>3, <2>5, <3>4
      <4>2. CASE task.next = {}
        <5>1. EntitiesOf(seeds \cap among) = {}
          BY <4>1, <4>2 DEF Seeding, EntitiesOf
        <5>2. Near(seeds, among, Hops) \ seeds = {}
          BY <5>1, NothingIsNear
        <5>3. next.at = "done" /\ next.list = <<>>
          BY <3>1, <4>2 DEF Found
        <5> QED BY <3>3, <5>2, <5>3 DEF GraphInv
      <4>3. CASE task.next # {}
        <5>1. Hopping(seeds, among, 1, task.next, {}, {})
          BY <4>1, HopBegins
        <5>2. next.at = "hop" /\ next.hop = 1 /\ next.list = <<>> /\ next.left = task.next /\ next.next = {}
          BY <3>1, <4>3
        <5> QED BY <3>3, <4>1, <5>1, <5>2 DEF GraphInv
      <4> QED BY <4>2, <4>3
    <3>5. Fitting(s, "graph", "seeds", next)
      BY <1>1, <2>1, <3>2, <3>4, GraphFits
    <3> QED BY <3>5
  <2> QED BY <2>4, <2>5
<1> QED BY <1>3, <1>4

LEMMA HopsFit ==
  ASSUME SearchesInv, KnowledgeInv, HistoryInv, NeighboursInv, NEW s \in Searchers,
         GraphRowsForEntity(s) \/ GraphHop(s)
  PROVE  \E k, at, task : Fitting(s, k, at, task)
<1>1. PICK me, seeds, among, task :
        /\ me = search[s] /\ seeds = SeedsIn(me.task) /\ among = InView(me.principal, status)
        /\ task = me.task["graph"]
  OBVIOUS
<1>2. Seeds(s) = seeds
  BY <1>1 DEF Seeds, SeedsIn
<1>3. Task(s, "graph", "hop")
  BY DEF GraphRowsForEntity, GraphHop
<1>4. /\ task.at = "hop" /\ {"at", "hop", "left", "next", "list"} \subseteq DOMAIN task
      /\ task.list \in Seq(Claims)
  <2>1. TaskInv(changes, pending, me, "graph", task) /\ task.at = "hop"
    BY <1>1, <1>3, Running
  <2> QED BY <2>1 DEF TaskInv, Sound
<1>5. ASSUME me.source = "gate", me.since = Len(changes)
      PROVE  /\ Hopping(seeds, among, task.hop, task.left, task.next, Members(task.list)) /\ Hops # 0
             /\ ProjectionRows(me.principal) = among
  <2>1. GraphInv(seeds, among, task) /\ Hops # 0
    BY <1>1, <1>3, <1>5, GraphGoesOn
  <2>2. ProjectionRows(me.principal) = among
    BY <1>1, <1>3, <1>5, HopsAreFresh
  <2> QED BY <1>4, <2>1, <2>2 DEF GraphInv
<1>6. CASE GraphRowsForEntity(s)
  <2>1. PICK entity, touching, more :
          /\ entity \in task.left /\ touching = Touching(ProjectionRows(me.principal), {entity})
          /\ more \in SetToSeqs(touching \ (seeds \cup Members(task.list)))
          /\ Go(s, "graph",
                [task EXCEPT !.left = @ \ {entity}, !.list = @ \o more,
                             !.next = @ \cup (EntitiesOf(touching) \ {entity})])
    BY <1>1, <1>2, <1>6 DEF GraphRowsForEntity
  <2>2. PICK next :
          next = [task EXCEPT !.left = @ \ {entity}, !.list = @ \o more,
                              !.next = @ \cup (EntitiesOf(touching) \ {entity})]
    OBVIOUS
  <2>3. /\ next.at = "hop" /\ next.hop = task.hop /\ next.left = task.left \ {entity}
        /\ next.list = task.list \o more /\ next.next = task.next \cup (EntitiesOf(touching) \ {entity})
    BY <1>4, <2>2
  <2>4. PICK found : found = touching \ (seeds \cup Members(task.list))
    OBVIOUS
  <2>5. found \in SUBSET Claims
    BY <2>1, <2>4 DEF Touching, ProjectionRows
  <2>6. more \in Seq(Claims) /\ Members(more) = found
    BY <2>1, <2>4, <2>5, Listing
  <2>7. Members(next.list) = Members(task.list) \cup found
    BY <1>4, <2>3, <2>6, Joining
  <2>8. ASSUME me.source = "gate", me.since = Len(changes) PROVE GraphInv(seeds, among, next)
    <3>1. /\ Hopping(seeds, among, task.hop, task.left, task.next, Members(task.list)) /\ Hops # 0
          /\ touching = Touching(among, {entity})
      BY <1>5, <2>1, <2>8
    <3>2. PICK hop, left, further, list, longer, known :
            /\ hop = task.hop /\ left = task.left /\ known = task.next /\ list = Members(task.list)
            /\ further = next.next /\ longer = Members(next.list)
      OBVIOUS
    <3>3. further = known \cup (EntitiesOf(Touching(among, {entity})) \ {entity})
      BY <2>3, <3>1, <3>2
    <3>4. longer = list \cup (Touching(among, {entity}) \ (seeds \cup list))
      BY <2>4, <2>7, <3>1, <3>2
    <3>5. Hopping(seeds, among, hop, left, known, list) /\ entity \in left
      BY <2>1, <3>1, <3>2
    <3>6. Hopping(seeds, among, hop, left \ {entity}, further, longer)
      BY <3>3, <3>4, <3>5, HopGoesOn
    <3> QED BY <2>3, <3>1, <3>2, <3>6 DEF GraphInv
  <2>9. Go(s, "graph", next)
    BY <2>1, <2>2
  <2>10. Fitting(s, "graph", "hop", next)
    BY <1>1, <1>3, <2>8, <2>9, GraphFits
  <2> QED BY <2>10
<1>7. CASE GraphHop(s)
  <2>1. PICK full, next :
          /\ full = (Len(task.list) >= GraphLimit)
          /\ next = IF LastHop(task.hop) \/ task.next = {} \/ full
                    THEN Found(Cut(task.list, GraphLimit), full)
                    ELSE [task EXCEPT !.hop = @ + 1, !.left = task.next, !.next = {}]
    OBVIOUS
  <2>2. task.left = {} /\ Go(s, "graph", next)
    BY <1>1, <1>7, <2>1 DEF GraphHop
  <2>3. Len(task.list) \in Nat /\ GraphLimit \in Nat
    BY <1>4, RetrievalAssumption
  <2>4. ~full => Cut(task.list, GraphLimit) = task.list
    <3>1. full = (Len(task.list) >= GraphLimit)
      BY <2>1
    <3>2. ~full => ~(Len(task.list) >= GraphLimit)
      BY <3>1, Zenon
    <3>3. ~(Len(task.list) >= GraphLimit) => Len(task.list) <= GraphLimit
      BY <2>3
    <3>4. Len(task.list) <= GraphLimit => Cut(task.list, GraphLimit) = task.list
      BY <1>4, <2>3, Cutting
    <3> QED BY <3>2, <3>3, <3>4
  <2>5. ASSUME me.source = "gate", me.since = Len(changes) PROVE GraphInv(seeds, among, next)
    <3>1. Hopping(seeds, among, task.hop, {}, task.next, Members(task.list)) /\ Hops # 0
      BY <1>5, <2>2, <2>5
    <3>2. CASE LastHop(task.hop) \/ task.next = {} \/ full
      <4>1. next.at = "done" /\ next.list = Cut(task.list, GraphLimit) /\ next.full = full
        BY <2>1, <3>2 DEF Found
      <4>2. ~full => Members(task.list) = Near(seeds, among, Hops) \ seeds
        BY <3>1, <3>2, HopsEnd DEF LastHop
      <4> QED BY <2>4, <4>1, <4>2 DEF GraphInv
    <3>3. CASE ~(LastHop(task.hop) \/ task.next = {} \/ full)
      <4>1. /\ next.at = "hop" /\ next.hop = task.hop + 1 /\ next.left = task.next /\ next.next = {}
            /\ next.list = task.list
        BY <1>4, <2>1, <3>3
      <4>2. Hopping(seeds, among, task.hop + 1, task.next, {}, Members(task.list))
        BY <3>1, <3>3, NextHop DEF LastHop
      <4> QED BY <3>1, <4>1, <4>2 DEF GraphInv
    <3> QED BY <3>2, <3>3
  <2>6. Fitting(s, "graph", "hop", next)
    BY <1>1, <1>3, <2>2, <2>5, GraphFits
  <2> QED BY <2>6
<1> QED BY <1>6, <1>7

LEMMA CanonicalGraphFits ==
  ASSUME NEW s \in Searchers, SearchCanonicalGraph(s), NeighboursInv
  PROVE  \E k, at, task : Fitting(s, k, at, task)
<1>1. PICK me, seeds, among :
        me = search[s] /\ seeds = SeedsIn(me.task) /\ among = InView(me.principal, status)
  OBVIOUS
<1>2. Seeds(s) = seeds /\ ListClaims(me.principal) = among
  BY <1>1 DEF Seeds, SeedsIn, ListClaims, InView
<1>3. PICK reached, found, list :
        /\ reached = Reached(among, EntitiesOf(seeds \cap among))
        /\ found = (UNION {reached[hop] : hop \in DOMAIN reached}) \ seeds
        /\ list \in SetToSeqs(found)
        /\ Go(s, "graph", Found(Cut(list, GraphLimit), Len(list) > GraphLimit))
  BY <1>1, <1>2 DEF SearchCanonicalGraph
<1>4. found = Near(seeds, among, Hops) \ seeds
  BY <1>3, AllNearAreReached
<1>5. found \in SUBSET Claims
  BY <1>1, <1>4 DEF Near, InView
<1>6. list \in Seq(Claims) /\ Members(list) = found
  BY <1>3, <1>5, Listing
<1>7. PICK task : task = Found(Cut(list, GraphLimit), Len(list) > GraphLimit)
  OBVIOUS
<1>8. ~(Len(list) > GraphLimit) => Cut(list, GraphLimit) = list
  <2>1. Len(list) \in Nat /\ GraphLimit \in Nat
    BY <1>6, RetrievalAssumption
  <2> QED BY <1>6, <2>1, Cutting
<1>9. GraphInv(seeds, among, task)
  <2>1. task.at = "done" /\ task.list = Cut(list, GraphLimit) /\ task.full = (Len(list) > GraphLimit)
    BY <1>7 DEF Found
  <2> QED BY <1>4, <1>6, <1>8, <2>1 DEF GraphInv
<1>10. Task(s, "graph", "canonical") /\ Go(s, "graph", task)
  BY <1>3, <1>7 DEF SearchCanonicalGraph
<1>11. Fitting(s, "graph", "canonical", task)
  BY <1>1, <1>9, <1>10, GraphFits
<1> QED BY <1>11

(* The steps of a search as a whole.                                       *)
LEMMA BeginGraphSettles ==
  ASSUME SearchesInv, NeighboursInv, NEW s \in Searchers, BeginGraph(s)
  PROVE  \E next : Settles(s, next)
<1>1. PICK me, until, state, seeds, among :
        /\ me = search[s] /\ until = Len(changes) /\ state = status
        /\ seeds = SeedsIn(me.task) /\ among = InView(me.principal, state)
  OBVIOUS
<1>2. SearchInv(s, me, changes, pending, resolutions) /\ NeighbourInv(me, until, state)
      /\ me.pc = "candidates" /\ me.source = "gate" /\ "graph" \notin DOMAIN me.task
  BY <1>1 DEF SearchesInv, NeighboursInv, BeginGraph
<1>3. Seeds(s) = seeds
  BY <1>1 DEF Seeds, SeedsIn
<1>4. PICK task : task = IF Hops = 0 \/ seeds = {} THEN Found(<<>>, FALSE) ELSE Waiting("events")
  OBVIOUS
<1>5. PICK all : all = [k \in DOMAIN me.task \cup {"graph"} |-> IF k = "graph" THEN task ELSE me.task[k]]
  OBVIOUS
<1>6. search' = [search EXCEPT ![s].task =
                   [k \in DOMAIN @ \cup {"graph"} |-> IF k = "graph" THEN task ELSE @[k]]]
  BY <1>3, <1>4 DEF BeginGraph
<1>7. PICK next : next = [me EXCEPT !.task = all]
  OBVIOUS
<1>8. search' = [search EXCEPT ![s] = next]
  BY <1>1, <1>5, <1>6, <1>7
<1>9. /\ Fields \subseteq DOMAIN me /\ {"lexical", "vector"} \subseteq DOMAIN me.task
      /\ DOMAIN me.task \subseteq {"lexical", "vector", "graph"}
  BY <1>2 DEF SearchInv
<1>10. (\A field \in Fields \ {"task"} : next[field] = me[field]) /\ next.task = all
  BY <1>7, <1>9 DEF Fields
<1>11. next.pc = "candidates" /\ next.source = "gate" /\ next.principal = me.principal /\ next.since = me.since
  BY <1>2, <1>10 DEF Fields
<1>12. /\ next.task["lexical"] = me.task["lexical"] /\ next.task["vector"] = me.task["vector"]
       /\ next.task["graph"] = task
  BY <1>2, <1>5, <1>9, <1>10
<1>13. \A k \in {"lexical", "vector"} : ScopeInv(next.principal, next.task[k])
  <2>1. \A k \in {"lexical", "vector"} : ScopeInv(me.principal, me.task[k])
    BY <1>2 DEF NeighbourInv
  <2> QED BY <1>11, <1>12, <2>1
<1>14. GraphInv(seeds, among, task)
  <2>1. CASE Hops = 0 \/ seeds = {}
    <3>1. task.at = "done" /\ task.list = <<>>
      BY <1>4, <2>1 DEF Found
    <3>2. Members(<<>>) = {}
      BY DEF Members
    <3>3. CASE Hops = 0
      BY <3>1, <3>2, <3>3, NearestAreSeeds DEF GraphInv
    <3>4. CASE seeds = {}
      <4>1. EntitiesOf(seeds \cap among) = {}
        BY <3>4 DEF EntitiesOf
      <4> QED BY <3>1, <3>2, <4>1, NothingIsNear DEF GraphInv
    <3> QED BY <2>1, <3>3, <3>4
  <2>2. CASE ~(Hops = 0 \/ seeds = {})
    BY <1>4, <2>2 DEF GraphInv, Waiting
  <2> QED BY <2>1, <2>2
<1>15. SeedsIn(next.task) = seeds
  BY <1>1, <1>12 DEF SeedsIn
<1>16. NeighbourInv(next, until, state)
  BY <1>1, <1>11, <1>12, <1>13, <1>14, <1>15 DEF NeighbourInv
<1> QED BY <1>1, <1>8, <1>16 DEF Settles

LEMMA OthersSettle ==
  ASSUME SearchesInv, NeighboursInv, NEW s \in Searchers,
         ReadResolutions(s) \/ ReciprocalRankFuse(s) \/ FallbackCandidates(s) \/ AuthorizeHits(s)
  PROVE  \E next : Settles(s, next)
<1>1. PICK me, until, state : me = search[s] /\ until = Len(changes) /\ state = status
  OBVIOUS
<1>2. NeighbourInv(me, until, state) /\ me.pc \in {"candidates", "ranked"}
  BY <1>1 DEF NeighboursInv, ReadResolutions, ReciprocalRankFuse, FallbackCandidates, AuthorizeHits
<1>3. Fields \subseteq DOMAIN me
  <2>1. SearchInv(s, me, changes, pending, resolutions)
    BY <1>1 DEF SearchesInv
  <2> QED BY <1>2, <2>1 DEF SearchInv
<1>4. CASE ReadResolutions(s)
  <2>1. PICK read, next : read = <<resolutions>> /\ next = [me EXCEPT !.resolutions = read]
    OBVIOUS
  <2>2. search' = [search EXCEPT ![s] = next]
    BY <1>1, <1>4, <2>1 DEF ReadResolutions
  <2>3. \A field \in Fields \ {"resolutions"} : next[field] = me[field]
    BY <1>3, <2>1 DEF Fields
  <2>4. Alike(me, next) /\ next.task = me.task /\ next.pc = me.pc
    BY <2>3 DEF Alike, Fields
  <2>5. me.pc # "idle" /\ (next.pc \in {"ranked", "done"} => me.pc \in {"ranked", "done"})
    BY <1>2, <2>4
  <2>6. NeighbourInv(next, until, state)
    BY <1>2, <2>4, <2>5 DEF NeighbourInv, Alike
  <2> QED BY <1>1, <2>2, <2>6 DEF Settles
<1>5. ASSUME NEW order, search' = [search EXCEPT ![s].pc = "ranked", ![s].order = order],
             me.source = "gate" => "graph" \in DOMAIN me.task /\ me.task["graph"].at = "done"
      PROVE  \E next : Settles(s, next)
  <2>1. PICK next : next = [me EXCEPT !.pc = "ranked", !.order = order]
    OBVIOUS
  <2>2. search' = [search EXCEPT ![s] = next]
    BY <1>1, <1>5, <2>1
  <2>3. \A field \in Fields \ {"pc", "order"} : next[field] = me[field]
    BY <1>3, <2>1 DEF Fields
  <2>4. Alike(me, next) /\ next.task = me.task
    BY <2>3 DEF Alike, Fields
  <2>5. NeighbourInv(next, until, state)
    BY <1>2, <1>5, <2>4 DEF NeighbourInv, Alike
  <2> QED BY <1>1, <2>2, <2>5 DEF Settles
<1>6. CASE ReciprocalRankFuse(s)
  BY <1>1, <1>5, <1>6 DEF ReciprocalRankFuse, Task
<1>7. CASE FallbackCandidates(s)
  BY <1>1, <1>5, <1>7 DEF FallbackCandidates
<1>8. CASE AuthorizeHits(s)
  <2>1. PICK hits : search' = [search EXCEPT ![s].pc = "done", ![s].until = Len(changes), ![s].hits = hits]
    BY <1>8 DEF AuthorizeHits
  <2>2. PICK next : next = [me EXCEPT !.pc = "done", !.until = until, !.hits = hits]
    OBVIOUS
  <2>3. search' = [search EXCEPT ![s] = next]
    BY <1>1, <2>1, <2>2
  <2>4. \A field \in Fields \ {"pc", "until", "hits"} : next[field] = me[field]
    BY <1>3, <2>2 DEF Fields
  <2>5. Alike(me, next) /\ next.task = me.task /\ me.pc = "ranked"
    BY <1>1, <1>8, <2>4 DEF Alike, Fields, AuthorizeHits
  <2>6. me.pc # "idle" /\ me.pc \in {"ranked", "done"}
    BY <2>5
  <2>7. NeighbourInv(next, until, state)
    BY <1>2, <2>5, <2>6 DEF NeighbourInv, Alike
  <2> QED BY <1>1, <2>3, <2>7 DEF Settles
<1> QED BY <1>4, <1>6, <1>7, <1>8

LEMMA NeighboursStep ==
  ASSUME SearchesInv, KnowledgeInv, HistoryInv, NeighboursInv, DOMAIN search = Searchers,
         NEW s \in Searchers, SearchStep(s)
  PROVE  NeighboursInv'
<1>1. UNCHANGED knowledge
  BY SearchLeavesKnowledge
<1>2. (\E k, at, task : Fitting(s, k, at, task)) => NeighboursInv'
  BY <1>1, FittingTask
<1>3. (\E next : Settles(s, next)) => NeighboursInv'
  BY <1>1, NextNeighbours
<1>4. ASSUME NEW k \in {"lexical", "vector", "graph"}, GateEvents(s, k) \/ GateMarks(s, k) \/ ProjectionFails(s, k)
      PROVE  NeighboursInv'
  <2>1. \E at, task : Fitting(s, k, at, task)
    BY <1>4, GateFits
  <2> QED BY <1>2, <2>1
<1>5. CASE SearchProjectionLexical(s) \/ SearchProjectionVector(s)
  BY <1>2, <1>5, ProjectionFits
<1>6. CASE SearchLexicalIds(s) \/ SearchLexicalRead(s)
  BY <1>2, <1>6, LexicalFits
<1>7. CASE SearchLexicalAtOnce(s) \/ RankClaimsLexically(s) \/ SearchCanonicalVector(s)
  BY <1>2, <1>7, AtOnceFits
<1>8. CASE SeedGraph(s) \/ SeedGraphEntities(s)
  BY <1>2, <1>8, SeedsFit
<1>9. CASE GraphRowsForEntity(s) \/ GraphHop(s)
  BY <1>2, <1>9, HopsFit
<1>10. CASE SearchCanonicalGraph(s)
  BY <1>2, <1>10, CanonicalGraphFits
<1>11. CASE BeginGraph(s)
  BY <1>3, <1>11, BeginGraphSettles
<1>12. CASE ReadResolutions(s) \/ ReciprocalRankFuse(s) \/ FallbackCandidates(s) \/ AuthorizeHits(s)
  BY <1>3, <1>12, OthersSettle
<1> QED BY <1>4, <1>5, <1>6, <1>7, <1>8, <1>9, <1>10, <1>11, <1>12 DEF SearchStep

(* Once a claim has changed, nothing is said of the graph any more.        *)
LEMMA NeighboursMove ==
  ASSUME SearchesInv, HistoryInv, NeighboursInv, KnowledgeStep
  PROVE  NeighboursInv'
<1>1. CASE Sync \/ Resolve
  <2>1. UNCHANGED <<status, changes, search>>
    BY <1>1 DEF Sync, Resolve
  <2> QED BY <2>1 DEF NeighboursInv
<1>2. ASSUME NEW c \in Changing, AssertClaim(c) \/ RetractClaim(c) PROVE NeighboursInv'
  <2>1. PICK change : changes' = Append(changes, change) /\ search' = search
    BY <1>2 DEF AssertClaim, RetractClaim, Change
  <2>2. PICK until, later, state, after :
          until = Len(changes) /\ later = Len(changes') /\ state = status /\ after = status'
    OBVIOUS
  <2>3. until \in Nat /\ later = until + 1
    BY <2>1, <2>2 DEF HistoryInv, IsLog
  <2>4. ASSUME NEW s \in Searchers PROVE NeighbourInv(search[s], later, after)
    <3>1. PICK me : me = search[s]
      OBVIOUS
    <3>2. NeighbourInv(me, until, state) /\ (me.pc # "idle" => me.since \in 0..until)
      BY <2>2, <3>1 DEF NeighboursInv, SearchesInv, SearchInv
    <3>3. me.pc # "idle" => me.since # later
      BY <2>3, <3>2
    <3> QED BY <3>1, <3>2, <3>3 DEF NeighbourInv
  <2> QED BY <2>1, <2>2, <2>4 DEF NeighboursInv
<1> QED BY <1>1, <1>2 DEF KnowledgeStep

LEMMA OperationsKeepNeighbours ==
  ASSUME NeighboursInv, RequestInv, NEW q \in Requests, Operating(q)
  PROVE  NeighboursInv'
<1>1. UNCHANGED knowledge /\ DOMAIN search = Searchers
  BY DEF Operating, ListPolicies, BeginSearch, EndSearch, SearchFails, retrievalVars, RequestInv, RequestTypes
<1>2. CASE ListPolicies(q)
  BY <1>2 DEF ListPolicies, retrievalVars, knowledge, NeighboursInv
<1>3. CASE BeginSearch(q)
  <2>1. q \in Searchers
    BY <1>3, ServingAssumption DEF BeginSearch
  <2>2. PICK source, reader : source = Source(q) /\ reader = Current(q)
    OBVIOUS
  <2>3. PICK task : task = [k \in {"lexical", "vector"} |->
                   Waiting(CASE source = "gate" -> "events"
                             [] source # "gate" /\ (source = "postgres" \/ k = "vector") -> "canonical"
                             [] OTHER -> source)]
    OBVIOUS
  <2>4. PICK next : next =
          [pc |-> "candidates", principal |-> reader, source |-> source,
           since |-> Len(changes), until |-> None, before |-> resolutions, resolutions |-> None,
           order |-> <<>>, hits |-> <<>>, task |-> task]
    OBVIOUS
  <2>5. search' = [search EXCEPT ![q] = next]
    BY <1>3, <2>2, <2>3, <2>4 DEF BeginSearch, Begin
  <2>6. next.pc = "candidates" /\ next.task = task /\ next.source = source
    <3>1. next.pc = "candidates"
      BY <2>4
    <3>2. next.task = task
      BY <2>4
    <3>3. next.source = source
      BY <2>4
    <3> QED BY <3>1, <3>2, <3>3
  <2>7. ASSUME source = "gate", NEW k \in {"lexical", "vector"} PROVE task[k] = Waiting("events")
    <3>1. PICK at : at = CASE source = "gate" -> "events"
                           [] source # "gate" /\ (source = "postgres" \/ k = "vector") -> "canonical"
                           [] OTHER -> source
      OBVIOUS
    <3>2. task[k] = Waiting(at)
      BY <2>3, <3>1
    <3>3. at = "events"
      BY <2>7, <3>1
    <3> QED BY <3>2, <3>3
  <2>8. DOMAIN task = {"lexical", "vector"}
    BY <2>3
  <2>9. NeighbourInv(next, Len(changes), status)
    <3>1. ScopeInv(next.principal, Waiting("events"))
      BY DEF ScopeInv, Waiting
    <3> QED BY <2>6, <2>7, <2>8, <3>1 DEF NeighbourInv
  <2>10. Settles(q, next)
    BY <2>5, <2>9 DEF Settles
  <2> QED BY <1>1, <2>1, <2>10, NextNeighbours
<1>4. CASE EndSearch(q) \/ SearchFails(q)
  <2>1. q \in Searchers /\ search' = [search EXCEPT ![q] = [pc |-> "idle"]]
    BY <1>4 DEF EndSearch, SearchFails, RequestInv, CallerInv
  <2>2. NeighbourInv([pc |-> "idle"], Len(changes), status)
    BY DEF NeighbourInv
  <2>3. Settles(q, [pc |-> "idle"])
    BY <2>1, <2>2 DEF Settles
  <2> QED BY <1>1, <2>1, <2>3, NextNeighbours
<1> QED BY <1>2, <1>3, <1>4 DEF Operating

LEMMA NeighboursKeep ==
  ASSUME NeighboursInv, SearchesInv, KnowledgeInv, HistoryInv, RequestInv, cast \subseteq Requests, [Next]_vars
  PROVE  NeighboursInv'
<1>1. CASE UNCHANGED retrievalVars
  BY <1>1 DEF retrievalVars, knowledge, NeighboursInv
<1>2. ASSUME NEW q \in cast, Operating(q) PROVE NeighboursInv'
  BY <1>2, OperationsKeepNeighbours
<1>3. ASSUME NEW q \in cast \cap Searchers, SearchStep(q) PROVE NeighboursInv'
  BY <1>3, NeighboursStep DEF RequestInv, RequestTypes
<1>4. CASE KnowledgeStep
  BY <1>4, NeighboursMove
<1> QED BY <1>1, <1>2, <1>3, <1>4 DEF Next, vars

LEMMA NeighboursAreFound == Spec => []NeighboursInv
<1>1. Init => NeighboursInv
  BY DEF Init, RetrievalInit, NeighboursInv, NeighbourInv
<1>2. NeighboursInv /\ SearchesInv /\ KnowledgeInv /\ HistoryInv /\ RequestInv /\ cast \subseteq Requests
        /\ [Next]_vars => NeighboursInv'
  BY NeighboursKeep
<1> QED BY <1>1, <1>2, SearchesAreWell, KnowledgeIsWell, RequestsAreWell, PTL DEF Spec

(* While no claim changes, a graph search that its limit has not cut off   *)
(* finds exactly the claims in the namespace of the caller that are linked *)
(* to a seed over at most Hops claims, whether the projection was asked    *)
(* entity by entity, the store at once, or the one after the other.        *)
THEOREM GraphFindsTheNeighbourhood == Spec => []GraphIsNeighbourhood
<1>1. NeighboursInv => GraphIsNeighbourhood
  <2> SUFFICES ASSUME NeighboursInv, NEW s \in Searchers, search[s].pc = "done", search[s].source = "gate",
                      search[s].since = Len(changes), ~search[s].task["graph"].full
               PROVE  Members(search[s].task["graph"].list) =
                        {c \in ListClaims(search[s].principal) \ Seeds(s) :
                           WithinHops(c, Seeds(s), ListClaims(search[s].principal))}
    BY DEF GraphIsNeighbourhood, Finished
  <2>1. PICK me, seeds, among, graph :
          /\ me = search[s] /\ seeds = Seeds(s) /\ among = ListClaims(me.principal) /\ graph = me.task["graph"]
    OBVIOUS
  <2>2. seeds = SeedsIn(me.task) /\ among = InView(me.principal, status)
    BY <2>1 DEF Seeds, SeedsIn, ListClaims, InView
  <2>3. NeighbourInv(me, Len(changes), status)
    BY <2>1 DEF NeighboursInv
  <2>4. graph.at = "done" /\ GraphInv(seeds, among, graph)
    BY <2>1, <2>2, <2>3 DEF NeighbourInv
  <2>5. Members(graph.list) = Near(seeds, among, Hops) \ seeds
    BY <2>1, <2>4 DEF GraphInv
  <2>6. \A c \in among \ seeds : WithinHops(c, seeds, among) <=> c \in Near(seeds, among, Hops)
    BY HopsAreNear
  <2>7. Near(seeds, among, Hops) \subseteq among
    BY DEF Near
  <2>8. Members(graph.list) = {c \in among \ seeds : WithinHops(c, seeds, among)}
    BY <2>5, <2>6, <2>7
  <2> QED BY <2>1, <2>8
<1> QED BY <1>1, NeighboursAreFound, PTL
=============================================================================
