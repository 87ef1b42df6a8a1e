------------------------------- MODULE Serving -------------------------------
(***************************************************************************)
(* The server: requests are admitted, run with the principal of their      *)
(* token, search or do something else, and are answered, while time goes   *)
(* by, tokens are revoked, claims change and the projection follows.       *)
(*                                                                         *)
(* Cast is who appears in a behaviour: one request that searches while the *)
(* knowledge changes and time stands still, or some requests without a     *)
(* search while time passes and tokens are revoked. A search shares        *)
(* nothing with other requests but what it reads.                          *)
(***************************************************************************)
EXTENDS RetrievalPipeline, RequestAdmission

CONSTANTS
  Casts,
  Operation(_),  \* of a request: "search_knowledge" or "list_policies"
  Source(_)      \* of its candidates: "gate", or the fallback "postgres", "sqlite" or "memory"

ASSUME ServingAssumption ==
  /\ Searchers = {q \in Requests : Operation(q) = "search_knowledge"}
  /\ \A q \in Searchers : Source(q) \in {"gate", "postgres", "sqlite", "memory"}
  /\ \A cast \in Casts :
       /\ cast \subseteq Requests
       /\ cast \cap Searchers # {} => Cardinality(cast) = 1

VARIABLE cast

vars == <<retrievalVars, admissionVars, cast>>

Init == RetrievalInit /\ AdmissionInit /\ cast \in Casts

Searching == cast \cap Searchers # {}

ListPolicies(q) ==
  /\ MayExecute(q) /\ Operation(q) = "list_policies"
  /\ \E outcome \in {"success", "error"} : Executed(q, outcome, Current(q))
  /\ UNCHANGED retrievalVars

(* The principal of a search is that of the request when it begins.        *)
BeginSearch(q) ==
  /\ MayExecute(q) /\ Operation(q) = "search_knowledge"
  /\ Begin(q, Current(q), Source(q))
  /\ request' = To(q, "searching")
  /\ UNCHANGED <<knowledge, now, revoked, cache, buckets, slot, timer, response, audits>>

EndSearch(q) ==
  /\ At(q, "searching") /\ search[q].pc = "done"
  /\ search' = [search EXCEPT ![q] = [pc |-> "idle"]]
  /\ Executed(q, "success", search[q].principal)
  /\ UNCHANGED knowledge

(* Any read of a search may fail.                                          *)
SearchFails(q) ==
  /\ At(q, "searching") /\ search[q].pc # "done"
  /\ search' = [search EXCEPT ![q] = [pc |-> "idle"]]
  /\ Executed(q, "error", search[q].principal)
  /\ UNCHANGED knowledge

Operating(q) == ListPolicies(q) \/ BeginSearch(q) \/ EndSearch(q) \/ SearchFails(q)

TimeStep == Tick \/ \E q \in cast : Revoke(Bearer(q))

Next ==
  \/ \E q \in cast : RequestStep(q) /\ UNCHANGED <<retrievalVars, cast>>
  \/ \E q \in cast : Operating(q) /\ UNCHANGED cast
  \/ \E q \in cast \cap Searchers : SearchStep(q) /\ UNCHANGED <<admissionVars, cast>>
  \/ Searching /\ KnowledgeStep /\ UNCHANGED <<admissionVars, cast>>
  \/ ~Searching /\ TimeStep /\ UNCHANGED <<retrievalVars, cast>>

Spec == Init /\ [][Next]_vars

(* The timers of the runtime fire; nothing else is promised, neither that  *)
(* an introspection or an operation ends nor that a body arrives.          *)
FairSpec == Spec /\ WF_vars(\E q \in cast : TimeoutFires(q) /\ UNCHANGED <<retrievalVars, cast>>)

-----------------------------------------------------------------------------
(* Properties.                                                             *)

Statuses == {Unsent, "head", "destroyed", "success", "error", "internal",
             "400", "401", "403", "429", "500", "504"}

(* Every variable has its type; only an MCP request has a timer, and only  *)
(* while its handler runs.                                                 *)
TypeOK ==
  /\ status \in [Claims -> {"absent", "asserted", "retracted"}]
  /\ pending \subseteq DOMAIN changes
  /\ rows \in [Claims -> {"asserted", None}]
  /\ cache \in [AccessTokens -> 0..(MaxTime + TTL)]
  /\ response \in [Requests -> Statuses]
  /\ \A q \in Requests :
       timer[q] = "on" => Route(q) = "mcp" /\ ~(request[q].pc \in {"idle", "body", "over"})

(* A reader may know of a record in a namespace of theirs, up to their     *)
(* clearance, unless it is private to somebody else.                       *)
MayKnow(reader, record) ==
  /\ reader.tenant = record.tenant
  /\ record.namespace \in Namespaces(reader)
  /\ ClassificationRank[record.classification] <= ClassificationRank[reader.clearance]
  /\ record.visibility = "private" => record.owner \in {None, reader.id}

(* A hit was a visible claim at some moment between the start of the       *)
(* search and its end, whichever index it was found in: neither a stale    *)
(* row of the projection nor a retracted entry of the lexical index makes  *)
(* a claim reappear. It is one the caller may know of, and it has not lost *)
(* a conflict that was resolved before the search.                         *)
HitsAreSound ==
  \A s \in Finished : \A c \in Members(search[s].hits) :
    /\ \E n \in During(s) : Visible(StatusAt(c, n))
    /\ MayKnow(Principal(Bearer(s)), Record(c))
    /\ \A resolution \in search[s].before : c \in resolution.claims => c = resolution.preferred

(* What a request does, it does in the name of the principal of its own    *)
(* token, however many requests run at the same time.                      *)
AnswersAreForTheCaller ==
  \A q \in Requests :
    /\ request[q].by \in {None, Principal(Bearer(q))}
    /\ At(q, "searching") => search[q].principal = Principal(Bearer(q))

(* In any window no more requests with one token are let in than two       *)
(* buckets hold, short of one: a bucket begins with a request let in.      *)
Admitted(t) == {q \in Requests : Bearer(q) = t /\ request[q].admitted # None}

RateIsKept ==
  \A t \in AccessTokens : \A first \in 0..MaxTime :
    Cardinality({q \in Admitted(t) : request[q].admitted \in first..(first + Window - 1)}) <= 2 * RateMax - 1

(* A token is accepted only if it was valid less than the time to live     *)
(* before, or, when the authorization server was asked for this request,   *)
(* after it was asked: a late answer does not keep a revoked token alive,  *)
(* and the cache vouches for no token that has expired.                    *)
AcceptedTokensWereValid ==
  \A q \in Requests :
    LET accepted == request[q].accepted
        token == Bearer(q)
    IN  accepted # None =>
          IF accepted.asked = None
          THEN /\ accepted.at < Expiry(token)
               /\ revoked[token] # None => accepted.at < revoked[token] + TTL
          ELSE /\ accepted.asked < Expiry(token)
               /\ revoked[token] # None => accepted.asked <= revoked[token]

(* A request is answered once: when the timeout and the handler both have  *)
(* an answer, the second is dropped.                                       *)
OneAnswer ==
  [][\A q \in Requests : Ended(q) => response'[q] = response[q]]_vars

(* What a tool answers was audited before, as what it is told to be; if    *)
(* the audit of a success failed, the request is not told of a success.    *)
AnswersAreAudited ==
  \A q \in Requests :
    Route(q) = "mcp" /\ response[q] \in {"success", "error"} => audits[q] = <<response[q]>>

(* An MCP request whose body was read is answered or cut off, even if the  *)
(* authorization server or the operation never answers: again and again    *)
(* there is none that has only its timer left.                             *)
TimeoutsEndRequests ==
  []<>(\A q \in Requests : Route(q) = "mcp" => request[q].pc \in {"idle", "body"} \/ Ended(q))
=============================================================================
