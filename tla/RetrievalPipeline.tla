-------------------------- MODULE RetrievalPipeline --------------------------
(***************************************************************************)
(* A search for claims, read by read, while claims are asserted and        *)
(* retracted, the projection follows and conflicts are resolved.           *)
(*                                                                         *)
(* Without a candidate source a search asks the canonical store, which is  *)
(* PostgreSQL, SQLite or in memory. With the serving gate as its source it *)
(* asks the projection if that is up to date and the store otherwise, once *)
(* for each strategy: the lists are fused and the claims then read.        *)
(* ServingGate has the modes and the breaker of the gate; here it may      *)
(* choose the store at any time. The projection is the one ConsistentIndex *)
(* describes.                                                              *)
(*                                                                         *)
(* One query by one tenant, with at least one token: a claim matches a     *)
(* number of its tokens, and its vector has a similarity in twentieths, 0  *)
(* below the threshold.                                                    *)
(***************************************************************************)
EXTENDS Authorization, FiniteSets, FiniteSetsExt, SequencesExt

CONSTANTS
  Claims,
  Order,         \* their ids in ascending order
  Asserted,      \* those that are there at the start
  Changing,      \* those that are asserted or retracted
  Subject(_), Object(_), Record(_),
  Words,         \* of the query
  Tokens,        \* how many of them are in each claim
  Similarity,    \* of each claim
  Searchers,
  LexicalLimit, VectorLimit, GraphLimit, Hops,
  Budget(_),     \* of a searcher: how many hits are asked for
  RrfK,
  MaxChanges

ASSUME RetrievalAssumption ==
  /\ Asserted \cup Changing \subseteq Claims
  /\ Order \in Seq(Claims) /\ {Order[n] : n \in DOMAIN Order} = Claims
  /\ {LexicalLimit, VectorLimit, GraphLimit, Hops, RrfK, MaxChanges} \subseteq Nat
  /\ Words \in Nat \ {0} /\ None # "asserted"
  /\ \A s \in Searchers : Budget(s) \in Nat
  /\ Tokens \in [Claims -> 0..Words] /\ Similarity \in [Claims -> Nat]
  /\ \A c \in Claims : Record(c).classification \in DOMAIN ClassificationRank

VARIABLES
  status,        \* of each claim
  changes,       \* every change of a claim, in the order of the commits
  pending,       \* the changes the projection has not processed
  rows,          \* the status each row of the projection shows, or None
  resolutions,   \* of conflicts: [claims, preferred]
  search         \* what each searcher does

knowledge == <<status, changes, pending, rows, resolutions>>
retrievalVars == <<knowledge, search>>

Visible(state) == state \notin {"absent", "retracted"}

Shown(state) == IF Visible(state) THEN state ELSE None

RetrievalInit ==
  /\ status = [c \in Claims |-> IF c \in Asserted THEN "asserted" ELSE "absent"]
  /\ changes = <<>>
  /\ pending = {}
  /\ rows = [c \in Claims |-> Shown(status[c])]
  /\ resolutions = {}
  /\ search = [s \in Searchers |-> [pc |-> "idle"]]

-----------------------------------------------------------------------------
(* What goes on meanwhile.                                                 *)

Change(c, state) ==
  /\ Len(changes) < MaxChanges
  /\ status' = [status EXCEPT ![c] = state]
  /\ changes' = Append(changes, [claim |-> c, status |-> state])
  /\ pending' = pending \cup {Len(changes) + 1}
  /\ UNCHANGED <<rows, resolutions, search>>

AssertClaim(c) == status[c] = "absent" /\ Change(c, "asserted")

RetractClaim(c) == status[c] = "asserted" /\ Change(c, "retracted")

Processed(done) == pending \ done

(* The projection processes some events and writes the rows they are about. *)
Sync ==
  \E done \in (SUBSET pending) \ {{}} :
    LET about == {changes[n].claim : n \in done}
        also == {n \in pending : changes[n].claim \in about}
    IN  /\ done = also
        /\ rows' = [c \in Claims |-> IF c \in about THEN Shown(status[c]) ELSE rows[c]]
        /\ pending' = Processed(done)
        /\ UNCHANGED <<status, changes, resolutions, search>>

(* A conflict of two claims is resolved for one of them.                   *)
Resolve ==
  /\ resolutions = {}
  /\ \E c, d \in Changing :
       /\ c # d /\ "absent" \notin {status[c], status[d]}
       /\ resolutions' = {[claims |-> {c, d}, preferred |-> c]}
  /\ UNCHANGED <<status, changes, pending, rows, search>>

Dirty == {changes[n].claim : n \in pending}

Index == INSTANCE ConsistentIndex WITH
  Keys <- Claims,
  Values <- {"asserted", None},
  Absent <- None,
  truth <- [c \in Claims |-> Shown(status[c])],
  dirty <- Dirty,
  index <- rows

-----------------------------------------------------------------------------
(* Which claims a strategy finds.                                          *)

InScope(c, principal) ==
  Record(c).tenant = principal.tenant /\ Record(c).namespace = principal.namespaces[1]

Position(c) == CHOOSE n \in DOMAIN Order : Order[n] = c

Sorted(list, score) ==
  \A m, n \in DOMAIN list : m < n =>
    \/ score[list[m]] > score[list[n]]
    \/ score[list[m]] = score[list[n]] /\ Position(list[m]) < Position(list[n])

Cut(list, limit) == SubSeq(list, 1, Min({limit, Len(list)}))

(* Sorted by a score, then by id, and cut off: there is one such list.     *)
Ranked(found, score, limit) ==
  {Cut(list, limit) : list \in {l \in SetToSeqs(found) : Sorted(l, score)}}

ListClaims(principal) == {c \in Claims : Visible(status[c]) /\ InScope(c, principal)}

ProjectionRows(principal) == {c \in Claims : rows[c] # None /\ InScope(c, principal)}

Connected(c) == {Subject(c), Object(c)} \ {None}

Touching(found, entities) == {c \in found : Connected(c) \cap entities # {}}

EntitiesOf(found) == UNION {Connected(c) : c \in found}

-----------------------------------------------------------------------------
(* A search. Its tasks run at the same time: those of the primary          *)
(* strategies, the graph search after them, and the reading of resolutions. *)

Waiting(at) == [at |-> at]

Begin(s, principal, source) ==
  search' = [search EXCEPT ![s] =
    [pc |-> "candidates", principal |-> principal, source |-> source,
     since |-> Len(changes), until |-> None, before |-> resolutions, resolutions |-> None,
     order |-> <<>>, hits |-> <<>>,
     task |-> [k \in {"lexical", "vector"} |->
                 Waiting(CASE source = "gate" -> "events"
                           [] source # "gate" /\ (source = "postgres" \/ k = "vector") -> "canonical"
                           [] OTHER -> source)]]]

Task(s, k, at) ==
  search[s].pc = "candidates" /\ k \in DOMAIN search[s].task /\ search[s].task[k].at = at

Go(s, k, task) == search' = [search EXCEPT ![s].task[k] = task]

(* The two last things told of a finished task: the list it found, and     *)
(* whether the limit has cut it off, before or after it was filtered.      *)
Found(list, full) == [at |-> "done", list |-> list, full |-> full]

ReadResolutions(s) ==
  /\ search[s].pc \in {"candidates", "ranked"} /\ search[s].resolutions = None
  /\ search' = [search EXCEPT ![s].resolutions = <<resolutions>>]
  /\ UNCHANGED knowledge

(* The status of the projection: first the events are read,                *)
GateEvents(s, k) ==
  /\ Task(s, k, "events")
  /\ Go(s, k, [at |-> "marks", events |-> Len(changes)])
  /\ UNCHANGED knowledge

(* Mutant of Ready: the projection is asked in any case.                   *)
AlwaysReady(events) == TRUE

Ready(events) == pending \cap (1..events) = {}

(* then which of them are processed. The store may be chosen all the same, *)
(* in another mode of the gate.                                            *)
GateMarks(s, k) ==
  /\ Task(s, k, "marks")
  /\ \/ Ready(search[s].task[k].events) /\ Go(s, k, Waiting("projection"))
     \/ Go(s, k, Waiting("canonical"))
  /\ UNCHANGED knowledge

ProjectionFails(s, k) ==
  /\ \E at \in {"projection", "seeds", "hop"} : Task(s, k, at)
  /\ Go(s, k, Waiting("canonical"))
  /\ UNCHANGED knowledge

(* The projection finds claims with every word of the query, the stores    *)
(* those with any.                                                         *)
SearchProjectionLexical(s) ==
  /\ Task(s, "lexical", "projection")
  /\ LET found == {c \in ProjectionRows(search[s].principal) : Tokens[c] = Words}
     IN  \E list \in Ranked(found, Tokens, LexicalLimit) :
           Go(s, "lexical", Found(list, Cardinality(found) > LexicalLimit))
  /\ UNCHANGED knowledge

(* The projection has no threshold.                                        *)
SearchProjectionVector(s) ==
  /\ Task(s, "vector", "projection")
  /\ LET found == ProjectionRows(search[s].principal)
     IN  \E list \in Ranked(found, Similarity, VectorLimit) :
           Go(s, "vector", Found(list, Cardinality(found) > VectorLimit))
  /\ UNCHANGED knowledge

(* The lexical index of the store is asked for ids, and these are cut off  *)
(* before anything else than the tenant is looked at; it holds retracted   *)
(* claims as well.                                                         *)
SearchLexicalIds(s) ==
  /\ Task(s, "lexical", "canonical")
  /\ LET matches == {c \in Claims : /\ status[c] # "absent" /\ Tokens[c] > 0
                                    /\ Record(c).tenant = search[s].principal.tenant}
     IN  \E ids \in SUBSET matches :
           /\ Cardinality(ids) = Min({LexicalLimit, Cardinality(matches)})
           /\ Go(s, "lexical", [at |-> "reading", left |-> ids, list |-> <<>>, full |-> ids # matches])
  /\ UNCHANGED knowledge

(* Then each claim is read and kept if it is visible and in the namespace. *)
SearchLexicalRead(s) ==
  /\ Task(s, "lexical", "reading")
  /\ LET task == search[s].task["lexical"]
     IN  IF task.left = {} THEN Go(s, "lexical", Found(task.list, task.full))
         ELSE \E c \in task.left :
                Go(s, "lexical",
                   [task EXCEPT !.left = @ \ {c},
                                !.list = IF c \in ListClaims(search[s].principal)
                                         THEN Append(@, c) ELSE @])
  /\ UNCHANGED knowledge

(* SQLite does the same in one step,                                       *)
SearchLexicalAtOnce(s) ==
  /\ Task(s, "lexical", "sqlite")
  /\ LET matches == {c \in Claims : /\ status[c] # "absent" /\ Tokens[c] > 0
                                    /\ Record(c).tenant = search[s].principal.tenant}
     IN  \E ids \in SUBSET matches :
           /\ Cardinality(ids) = Min({LexicalLimit, Cardinality(matches)})
           /\ \E list \in SetToSeqs(ids \cap ListClaims(search[s].principal)) :
                Go(s, "lexical", Found(list, ids # matches))
  /\ UNCHANGED knowledge

(* and the store in memory filters and sorts before it cuts off.           *)
RankClaimsLexically(s) ==
  /\ Task(s, "lexical", "memory")
  /\ LET found == {c \in ListClaims(search[s].principal) : Tokens[c] > 0}
     IN  \E list \in Ranked(found, Tokens, LexicalLimit) :
           Go(s, "lexical", Found(list, Cardinality(found) > LexicalLimit))
  /\ UNCHANGED knowledge

(* The fallback keeps the listed claims, it needs them for the graph.      *)
SearchCanonicalVector(s) ==
  /\ Task(s, "vector", "canonical")
  /\ LET listed == ListClaims(search[s].principal)
         similar == {c \in listed : Similarity[c] > 0}
     IN  \E list \in Ranked(similar, Similarity, VectorLimit) :
           Go(s, "vector",
              [at |-> "done", list |-> list, full |-> Cardinality(similar) > VectorLimit,
               listed |-> IF search[s].source = "gate" THEN {} ELSE listed])
  /\ UNCHANGED knowledge

Members(list) == {list[n] : n \in DOMAIN list}

PrimaryDone(s) == \A k \in {"lexical", "vector"} : Task(s, k, "done")

Seeds(s) == Members(search[s].task["lexical"].list) \cup Members(search[s].task["vector"].list)

(* The graph is searched from what the others have found.                  *)
BeginGraph(s) ==
  /\ search[s].pc = "candidates" /\ search[s].source = "gate"
  /\ "graph" \notin DOMAIN search[s].task
  /\ PrimaryDone(s)
  /\ LET graph == IF Hops = 0 \/ Seeds(s) = {} THEN Found(<<>>, FALSE) ELSE Waiting("events")
     IN  search' = [search EXCEPT ![s].task =
                      [k \in DOMAIN @ \cup {"graph"} |-> IF k = "graph" THEN graph ELSE @[k]]]
  /\ UNCHANGED knowledge

(* The projection is asked for the entities of each of the seeds           *)
SeedGraph(s) ==
  /\ Task(s, "graph", "projection")
  /\ Go(s, "graph", [at |-> "seeds", left |-> Seeds(s), next |-> {}])
  /\ UNCHANGED knowledge

SeedGraphEntities(s) ==
  /\ Task(s, "graph", "seeds")
  /\ LET task == search[s].task["graph"]
     IN  IF task.left # {}
         THEN \E seed \in task.left :
                Go(s, "graph",
                   [task EXCEPT !.left = @ \ {seed},
                                !.next = @ \cup IF rows[seed] = None THEN {} ELSE Connected(seed)])
         ELSE Go(s, "graph", IF task.next = {} THEN Found(<<>>, FALSE)
                             ELSE [at |-> "hop", hop |-> 1, list |-> <<>>, left |-> task.next, next |-> {}])
  /\ UNCHANGED knowledge

(* and then, hop after hop, for the rows at each of the entities found.    *)
GraphRowsForEntity(s) ==
  /\ Task(s, "graph", "hop")
  /\ LET task == search[s].task["graph"]
     IN  \E entity \in task.left :
           LET touching == Touching(ProjectionRows(search[s].principal), {entity})
           IN  \E more \in SetToSeqs(touching \ (Seeds(s) \cup Members(task.list))) :
                 Go(s, "graph",
                    [task EXCEPT !.left = @ \ {entity}, !.list = @ \o more,
                                 !.next = @ \cup (EntitiesOf(touching) \ {entity})])
  /\ UNCHANGED knowledge

(* Mutant of LastHop: one hop less.                                        *)
OneHopEarly(hop) == hop + 1 = Hops

LastHop(hop) == hop = Hops

GraphHop(s) ==
  /\ Task(s, "graph", "hop")
  /\ LET task == search[s].task["graph"]
         full == Len(task.list) >= GraphLimit
     IN  /\ task.left = {}
         /\ Go(s, "graph",
               IF LastHop(task.hop) \/ task.next = {} \/ full
               THEN Found(Cut(task.list, GraphLimit), full)
               ELSE [task EXCEPT !.hop = @ + 1, !.left = task.next, !.next = {}])
  /\ UNCHANGED knowledge

(* The claims that are reached from some entities, hop by hop.             *)
Reached(found, entities) ==
  LET near[hop \in 0..Hops] ==
        IF hop = 0 THEN entities
        ELSE near[hop - 1] \cup EntitiesOf(Touching(found, near[hop - 1]))
  IN  [hop \in 1..Hops |-> Touching(found, near[hop - 1])]

HopOf(reached, c) == Min({hop \in DOMAIN reached : c \in reached[hop]})

(* The store has no order for the claims of one hop.                       *)
SearchCanonicalGraph(s) ==
  /\ Task(s, "graph", "canonical")
  /\ LET listed == ListClaims(search[s].principal)
         reached == Reached(listed, EntitiesOf(Seeds(s) \cap listed))
         found == (UNION {reached[hop] : hop \in DOMAIN reached}) \ Seeds(s)
     IN  \E list \in SetToSeqs(found) :
           /\ \A m, n \in DOMAIN list : m < n => HopOf(reached, list[m]) <= HopOf(reached, list[n])
           /\ Go(s, "graph", Found(Cut(list, GraphLimit), Len(list) > GraphLimit))
  /\ UNCHANGED knowledge

-----------------------------------------------------------------------------
(* The lists are fused. A claim scores by its rank in each; the scores are *)
(* fractions, brought to the denominator Common.                           *)

Common == ProductSet({RrfK + n : n \in 1..Cardinality(Claims)})

Contribution(rank) == Common \div (RrfK + rank)

Rank(list, c) == CHOOSE n \in DOMAIN list : list[n] = c

FusedScore(s, c) ==
  LET In == {k \in DOMAIN search[s].task : c \in Members(search[s].task[k].list)}
  IN  MapThenSumSet(LAMBDA k : Contribution(Rank(search[s].task[k].list, c)), In)

Listed(s) == UNION {Members(search[s].task[k].list) : k \in DOMAIN search[s].task}

ReciprocalRankFuse(s) ==
  /\ search[s].pc = "candidates" /\ Task(s, "graph", "done")
  /\ LET score == [c \in Listed(s) |-> FusedScore(s, c)]
     IN  \E order \in Ranked(Listed(s), score, Cardinality(Claims)) :
           search' = [search EXCEPT ![s].pc = "ranked", ![s].order = order]
  /\ UNCHANGED knowledge

(* Without the gate the scores add up: a token counts 20, the similarity   *)
(* as it is, and a claim only the graph has found 6 at the first hop, 3 at *)
(* the second. Claims of equal score are in any order.                     *)
FallbackScore(s) ==
  LET task == search[s].task
      lexical == Members(task["lexical"].list)
      similar == Members(task["vector"].list)
      reached == Reached(task["vector"].listed, EntitiesOf(lexical \cup similar))
      found == lexical \cup similar \cup UNION {reached[hop] : hop \in DOMAIN reached}
  IN  [c \in found |->
         IF c \in lexical \cup similar
         THEN (IF c \in lexical THEN 20 * Tokens[c] ELSE 0) + (IF c \in similar THEN Similarity[c] ELSE 0)
         ELSE 6 \div HopOf(reached, c)]

FallbackCandidates(s) ==
  /\ search[s].pc = "candidates" /\ search[s].source # "gate" /\ PrimaryDone(s)
  /\ LET score == FallbackScore(s)
     IN  \E order \in SetToSeqs(DOMAIN score) :
           /\ \A m, n \in DOMAIN order : m < n => score[order[m]] >= score[order[n]]
           /\ search' = [search EXCEPT ![s].pc = "ranked", ![s].order = order]
  /\ UNCHANGED knowledge

Losers(resolution) == resolution.claims \ {resolution.preferred}

Suppressed(s) == UNION {Losers(resolution) : resolution \in search[s].resolutions[1]}

MayRead(principal, c) ==
  Allow(principal, "knowledge.read", Record(c),
        [tenant |-> principal.tenant, purpose |-> None, delegation |-> None, now |-> 0])

(* Mutant of Selected: the list is cut off before it is filtered.          *)
SelectedTooEarly(order, allowed, budget) ==
  {list \in SetToSeqs(Members(Cut(order, budget)) \cap allowed) :
     \A m, n \in DOMAIN list : m < n => Rank(order, list[m]) < Rank(order, list[n])}

(* What is allowed of a list, in its order, and cut off.                   *)
Selected(order, allowed, budget) ==
  {Cut(list, budget) : list \in {l \in SetToSeqs(Members(order) \cap allowed) :
     \A m, n \in DOMAIN l : m < n => Rank(order, l[m]) < Rank(order, l[n])}}

(* Fused claims are read again, but not left out if retracted meanwhile.   *)
AuthorizeHits(s) ==
  /\ search[s].pc = "ranked" /\ search[s].resolutions # None
  /\ LET allowed == {c \in Claims \ Suppressed(s) : MayRead(search[s].principal, c)}
     IN  \E hits \in Selected(search[s].order, allowed, Budget(s)) :
           search' = [search EXCEPT ![s].pc = "done", ![s].until = Len(changes), ![s].hits = hits]
  /\ UNCHANGED knowledge

SearchStep(s) ==
  \/ \E k \in {"lexical", "vector", "graph"} : GateEvents(s, k) \/ GateMarks(s, k) \/ ProjectionFails(s, k)
  \/ SearchProjectionLexical(s) \/ SearchProjectionVector(s)
  \/ SearchLexicalIds(s) \/ SearchLexicalRead(s)
  \/ SearchLexicalAtOnce(s) \/ RankClaimsLexically(s) \/ SearchCanonicalVector(s)
  \/ BeginGraph(s) \/ SeedGraph(s) \/ SeedGraphEntities(s)
  \/ GraphRowsForEntity(s) \/ GraphHop(s) \/ SearchCanonicalGraph(s)
  \/ ReadResolutions(s) \/ ReciprocalRankFuse(s) \/ FallbackCandidates(s)
  \/ AuthorizeHits(s)

KnowledgeStep ==
  Sync \/ Resolve \/ \E c \in Changing : AssertClaim(c) \/ RetractClaim(c)

-----------------------------------------------------------------------------
(* Properties.                                                             *)

Finished == {s \in Searchers : search[s].pc = "done"}

(* The status of a claim after the first n changes.                        *)
StatusAt(c, n) ==
  LET mine == {m \in 1..n : changes[m].claim = c}
  IN  IF mine = {} THEN IF c \in Asserted THEN "asserted" ELSE "absent"
      ELSE changes[Max(mine)].status

During(s) == search[s].since..search[s].until

HasWords(s, c) == IF search[s].source = "gate" THEN Tokens[c] = Words ELSE Tokens[c] > 0

(* A claim that matches, that the caller may read, that was visible all    *)
(* the while and that has lost no conflict is a hit, unless there are as   *)
(* many hits as were asked for or the limit of every strategy that could   *)
(* find it has cut off a list.                                             *)
NothingIsMissed ==
  \A s \in Finished : \A c \in Claims \ Members(search[s].hits) :
    /\ \A n \in During(s) : Visible(StatusAt(c, n))
    /\ InScope(c, search[s].principal) /\ MayRead(search[s].principal, c)
    /\ \A resolution \in search[s].resolutions[1] : c \notin resolution.claims \ {resolution.preferred}
    /\ HasWords(s, c) \/ Similarity[c] > 0
    => \/ Len(search[s].hits) = Budget(s)
       \/ /\ HasWords(s, c) => search[s].task["lexical"].full
          /\ Similarity[c] > 0 => search[s].task["vector"].full

(* Some claims, each sharing an entity with the next, lead from a seed to c. *)
Linked(c, d) == Connected(c) \cap Connected(d) # {}

WithinHops(c, seeds, among) ==
  \E length \in 1..Hops : \E path \in [0..length -> among \cup {c}] :
    path[0] \in seeds /\ path[length] = c /\ \A n \in 1..length : Linked(path[n - 1], path[n])

(* While no claim changes, the graph search finds exactly the claims that  *)
(* are linked to a seed over at most Hops hops, in the projection and in   *)
(* the store, unless its limit cuts off its list.                          *)
GraphIsNeighbourhood ==
  \A s \in Finished :
    LET listed == ListClaims(search[s].principal)
        graph == search[s].task["graph"]
        primary == Seeds(s)
    IN  search[s].source = "gate" /\ search[s].since = Len(changes) /\ ~graph.full =>
          Members(graph.list) = {c \in listed \ primary : WithinHops(c, primary, listed)}

(* The projection the searches read is the eventually consistent index     *)
(* that RetrievalProjection is shown to be.                                *)
IndexIsConsistent == [][Index!Next]_<<[c \in Claims |-> Shown(status[c])], Dirty, rows>>
=============================================================================
