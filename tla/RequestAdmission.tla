-------------------------- MODULE RequestAdmission --------------------------
(***************************************************************************)
(* A request from its arrival to its answer: the rate limit, the body, the *)
(* bearer token and its introspection with a cache, the principal of the   *)
(* request, the scopes of a tool, the audit event and the timeout. A route *)
(* of the MCP server has all of these; a REST route has only the body and  *)
(* the token. What a request then asks of the application is an operation  *)
(* that another module begins and ends.                                    *)
(*                                                                         *)
(* Time is counted in units of the shortest interval that matters. The     *)
(* authorization server is external: it answers an introspection with what *)
(* it knows at that moment, and the answer may be lost.                    *)
(***************************************************************************)
EXTENDS Authorization, FiniteSets, FiniteSetsExt

CONSTANTS
  Requests, AccessTokens,
  Route(_),       \* of a request: "mcp" or "rest"
  Bearer(_),      \* the token of a request
  Required,       \* the scopes the profile of the MCP route requires
  Scopes(_),      \* those of a token
  Principal(_),   \* whom a token stands for
  Expiry(_),      \* when it expires
  RateMax, Window, TTL,
  MaxTime

ASSUME AdmissionAssumption ==
  /\ \A q \in Requests : Route(q) \in {"mcp", "rest"} /\ Bearer(q) \in AccessTokens
  /\ {RateMax, Window, TTL} \subseteq Nat \ {0} /\ MaxTime \in Nat
  /\ \A t \in AccessTokens :
       Expiry(t) \in Nat /\ Principal(t).clearance \in DOMAIN ClassificationRank
  /\ None \notin Nat

VARIABLES
  now,
  revoked,     \* when each token was revoked, or None
  cache,       \* until when the introspection of each token is cached, or 0
  buckets,     \* of the rate limiter, by token
  request,     \* where each request stands
  slot,        \* the principal in the context of each request
  timer,       \* of each request: "off" or "on"
  response,    \* of each request
  audits       \* the outcomes audited for each request

admissionVars == <<now, revoked, cache, buckets, request, slot, timer, response, audits>>

Unsent == "unsent"

AdmissionInit ==
  /\ now = 0
  /\ revoked = [t \in AccessTokens |-> None]
  /\ cache = [t \in AccessTokens |-> 0]
  /\ buckets = [t \in AccessTokens |-> [count |-> 0, resetAt |-> 0]]
  /\ request = [q \in Requests |->
       [pc |-> "idle", admitted |-> None, ask |-> None, accepted |-> None, outcome |-> None, by |-> None]]
  /\ slot = [q \in Requests |-> None]
  /\ timer = [q \in Requests |-> "off"]
  /\ response = [q \in Requests |-> Unsent]
  /\ audits = [q \in Requests |-> <<>>]

Tick ==
  /\ now < MaxTime
  /\ now' = now + 1
  /\ UNCHANGED <<revoked, cache, buckets, request, slot, timer, response, audits>>

Revoke(t) ==
  /\ revoked[t] = None
  /\ revoked' = [revoked EXCEPT ![t] = now]
  /\ UNCHANGED <<now, cache, buckets, request, slot, timer, response, audits>>

At(q, pc) == request[q].pc = pc

To(q, pc) == [request EXCEPT ![q].pc = pc]

Ended(q) == response[q] \notin {Unsent, "head"}

(* Mutant of WriteJson: an answer is written over another.                 *)
WriteJsonAgain(q, status) == response' = [response EXCEPT ![q] = status]

WriteJson(q, status) == response' = [response EXCEPT ![q] = IF Ended(q) THEN @ ELSE status]

(* The handler settles: the timer is cleared.                              *)
Settle(q, status) ==
  /\ WriteJson(q, status)
  /\ timer' = [timer EXCEPT ![q] = "off"]
  /\ UNCHANGED <<now, revoked, cache, buckets, slot, audits>>

-----------------------------------------------------------------------------
(* Arrival.                                                                *)

(* Mutant of Counted: the count is never raised.                           *)
NotCounted(bucket) == bucket

Counted(bucket) == [bucket EXCEPT !.count = @ + 1]

ConsumeRateLimit(t) ==
  IF buckets[t].resetAt <= now THEN [count |-> 1, resetAt |-> now + Window] ELSE Counted(buckets[t])

(* The first request of a window is let in whatever the maximum is.        *)
LetIn(t) == buckets[t].resetAt <= now \/ Counted(buckets[t]).count <= RateMax

Arrive(q) ==
  /\ At(q, "idle") /\ Route(q) = "mcp"
  /\ buckets' = [buckets EXCEPT ![Bearer(q)] = ConsumeRateLimit(Bearer(q))]
  /\ IF LetIn(Bearer(q))
     THEN /\ request' = [request EXCEPT ![q].pc = "body", ![q].admitted = now]
          /\ UNCHANGED response
     ELSE /\ request' = To(q, "over")
          /\ WriteJson(q, "429")
  /\ UNCHANGED <<now, revoked, cache, slot, timer, audits>>

ArriveAtRest(q) ==
  /\ At(q, "idle") /\ Route(q) = "rest"
  /\ request' = To(q, "body")
  /\ UNCHANGED <<now, revoked, cache, buckets, slot, timer, response, audits>>

(* A forbidden host or origin is turned away before anything is counted.   *)
TurnAway(q) ==
  /\ At(q, "idle") /\ Route(q) = "mcp"
  /\ request' = To(q, "over")
  /\ WriteJson(q, "403")
  /\ UNCHANGED <<now, revoked, cache, buckets, slot, timer, audits>>

(* A body that is too large is no other case than one that is no JSON.     *)
RejectBody(q) ==
  /\ At(q, "body")
  /\ request' = To(q, "over")
  /\ WriteJson(q, "400")
  /\ UNCHANGED <<now, revoked, cache, buckets, slot, timer, audits>>

(* The timer of an MCP request starts with its body read; a body that does *)
(* not come is waited for without it.                                      *)
ReadBody(q) ==
  /\ At(q, "body")
  /\ request' = To(q, IF Route(q) = "mcp" THEN "gate" ELSE "authenticate")
  /\ timer' = [timer EXCEPT ![q] = IF Route(q) = "mcp" THEN "on" ELSE "off"]
  /\ UNCHANGED <<now, revoked, cache, buckets, slot, response, audits>>

-----------------------------------------------------------------------------
(* The token is introspected by the gate of the MCP route, and once more   *)
(* when the request gets its principal.                                    *)

AfterToken(place) == IF place = "gate" THEN "profile" ELSE "enter"

Introspecting(q) == At(q, "gate") \/ At(q, "authenticate")

Accepted(q, place, asked) ==
  request' = [request EXCEPT ![q].pc = AfterToken(place), ![q].ask = None,
                             ![q].accepted = [at |-> now, asked |-> asked]]

IntrospectCached(q) ==
  /\ Introspecting(q)
  /\ cache[Bearer(q)] > now
  /\ Accepted(q, request[q].pc, None)
  /\ UNCHANGED <<now, revoked, cache, buckets, slot, timer, response, audits>>

Introspect(q) ==
  /\ Introspecting(q)
  /\ cache[Bearer(q)] <= now
  /\ request' = [request EXCEPT ![q].pc = "asking",
                                ![q].ask = [place |-> request[q].pc, asked |-> now, active |-> FALSE]]
  /\ UNCHANGED <<now, revoked, cache, buckets, slot, timer, response, audits>>

(* The authorization server answers, or it cannot.                         *)
IntrospectionAnswered(q) ==
  /\ At(q, "asking")
  /\ \E active \in {revoked[Bearer(q)] = None, FALSE} :
       request' = [request EXCEPT ![q].pc = "asked", ![q].ask.active = active]
  /\ UNCHANGED <<now, revoked, cache, buckets, slot, timer, response, audits>>

(* Mutant of CachedUntil: counted from the arrival of the answer.          *)
CachedFromArrival(t, asked) == Min({Expiry(t), now + TTL})

CachedUntil(t, asked) == Min({Expiry(t), asked + TTL})

IntrospectionAccepted(q) ==
  /\ At(q, "asked")
  /\ LET ask == request[q].ask
     IN  /\ ask.active /\ Expiry(Bearer(q)) > ask.asked
         /\ Accepted(q, ask.place, ask.asked)
         /\ cache' = [cache EXCEPT ![Bearer(q)] = CachedUntil(Bearer(q), ask.asked)]
  /\ UNCHANGED <<now, revoked, buckets, slot, timer, response, audits>>

(* The cache keeps what it has. Outside the gate any error is a 500; the   *)
(* gate is a library's, and the error it gets is not one of its own kind.  *)
IntrospectionRefused(q) ==
  /\ At(q, "asked")
  /\ ~request[q].ask.active \/ Expiry(Bearer(q)) <= request[q].ask.asked
  /\ request' = [request EXCEPT ![q].pc = "over", ![q].ask = None, ![q].accepted = None]
  /\ \E status \in {"500"} \cup IF request[q].ask.place = "gate" THEN {"401"} ELSE {} :
       Settle(q, status)

CheckProfile(q) ==
  /\ At(q, "profile")
  /\ IF Required \subseteq Scopes(Bearer(q))
     THEN /\ request' = To(q, "authenticate")
          /\ UNCHANGED <<now, revoked, cache, buckets, slot, timer, response, audits>>
     ELSE /\ request' = To(q, "over")
          /\ Settle(q, "403")

(* Mutant of Context: all requests share one.                              *)
SharedContext(q) == CHOOSE r \in Requests : TRUE

Context(q) == q

(* The rest of the request runs with its principal.                        *)
RunAsRequest(q) ==
  /\ At(q, "enter")
  /\ slot' = [slot EXCEPT ![Context(q)] = Principal(Bearer(q))]
  /\ request' = [request EXCEPT ![q].pc = "tool", ![q].accepted = None]
  /\ UNCHANGED <<now, revoked, cache, buckets, timer, response, audits>>

Current(q) == slot[Context(q)]

-----------------------------------------------------------------------------
(* The operation. An MCP tool is audited; it checks the scopes of its      *)
(* profile once more, which cannot fail here, every tool requiring just    *)
(* those.                                                                  *)

MayExecute(q) == At(q, "tool")

(* The operation ended, for this principal.                                *)
Executed(q, outcome, by) ==
  /\ request' = [request EXCEPT ![q].pc = IF Route(q) = "mcp" THEN "audit" ELSE "answer",
                                ![q].outcome = outcome, ![q].by = by]
  /\ UNCHANGED <<now, revoked, cache, buckets, slot, timer, response, audits>>

AuditTool(q) ==
  /\ At(q, "audit")
  /\ audits' = [audits EXCEPT ![q] = Append(@, request[q].outcome)]
  /\ request' = To(q, "answer")
  /\ UNCHANGED <<now, revoked, cache, buckets, slot, timer, response>>

(* Mutant of AuditFails: the event is lost and nobody notices.             *)
AuditIsLost(q) ==
  /\ At(q, "audit")
  /\ request' = To(q, "answer")
  /\ UNCHANGED <<now, revoked, cache, buckets, slot, timer, response, audits>>

(* The sink of the audit events fails: a success becomes an error, to be   *)
(* audited as one, and after an error the request fails.                   *)
AuditFails(q) ==
  /\ At(q, "audit")
  /\ IF request[q].outcome = "success"
     THEN request' = [request EXCEPT ![q].outcome = "error"]
     ELSE request' = [request EXCEPT ![q].pc = "answer", ![q].outcome = "internal"]
  /\ UNCHANGED <<now, revoked, cache, buckets, slot, timer, response, audits>>

(* An MCP answer may be sent in two parts, and a REST answer is written at *)
(* once; an operation that failed there is a 500.                          *)
SendHead(q) ==
  /\ At(q, "answer") /\ Route(q) = "mcp" /\ response[q] = Unsent
  /\ response' = [response EXCEPT ![q] = "head"]
  /\ UNCHANGED <<now, revoked, cache, buckets, request, slot, timer, audits>>

Answer(q) ==
  /\ At(q, "answer")
  /\ request' = [request EXCEPT ![q].pc = "over", ![q].outcome = None]
  /\ Settle(q, IF Route(q) = "mcp" \/ request[q].outcome = "success"
               THEN request[q].outcome ELSE "500")

(* Mutant of TimeoutAnswer: a started answer is left alone.                *)
TimeoutLeavesHead(q) == IF response[q] = Unsent THEN "504" ELSE response[q]

TimeoutAnswer(q) == IF response[q] = Unsent THEN "504" ELSE "destroyed"

(* The handler is not stopped by it.                                       *)
TimeoutFires(q) ==
  /\ timer[q] = "on"
  /\ timer' = [timer EXCEPT ![q] = "off"]
  /\ response' = [response EXCEPT ![q] = IF Ended(q) THEN @ ELSE TimeoutAnswer(q)]
  /\ UNCHANGED <<now, revoked, cache, buckets, request, slot, audits>>

Arrival(q) == Arrive(q) \/ ArriveAtRest(q) \/ TurnAway(q) \/ ReadBody(q) \/ RejectBody(q)

Authentication(q) ==
  \/ IntrospectCached(q) \/ Introspect(q) \/ IntrospectionAnswered(q)
  \/ IntrospectionAccepted(q) \/ IntrospectionRefused(q)
  \/ CheckProfile(q) \/ RunAsRequest(q)

Answering(q) == AuditTool(q) \/ AuditFails(q) \/ SendHead(q) \/ Answer(q) \/ TimeoutFires(q)

RequestStep(q) == Arrival(q) \/ Authentication(q) \/ Answering(q)
=============================================================================
