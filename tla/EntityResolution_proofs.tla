----------------------- MODULE EntityResolution_proofs -----------------------
(***************************************************************************)
(* That merges are reviewed and that the two resolvers agree, for any      *)
(* number of callers, and that serial operations keep the merges a forest, *)
(* review once, and move one cluster at a time; for any entities and any   *)
(* number of events.                                                       *)
(*                                                                         *)
(* Induction is by a least counterexample: a set of naturals that is not   *)
(* empty has a least element.                                              *)
(***************************************************************************)
EXTENDS EntityResolution, FiniteSetTheorems, TLAPS

-----------------------------------------------------------------------------
(* Numbers.                                                                *)

LEMMA LeastNatural ==
  ASSUME NEW S \in SUBSET Nat, S # {}
  PROVE  \E m \in S : \A n \in S : m <= n
<1> DEFINE R == OpToRel(<, Nat)
<1>1. IsWellFoundedOn(R, Nat)
  BY NatLessThanWellFounded
<1>2. R = {ss \in Nat \X Nat : ss[1] < ss[2]}
  BY DEF OpToRel
<1> HIDE DEF R
<1>3. PICK m \in S : \A n \in S : ~ (<<n, m>> \in R)
  BY <1>1, WFMin
<1>4. ASSUME NEW n \in S PROVE m <= n
  <2>1. ~(<<n, m>> \in R)
    BY <1>3
  <2>2. ~(n < m)
    BY <1>2, <2>1
  <2> QED  BY <2>2
<1> QED  BY <1>4

(* What holds of a natural if it holds of all smaller ones holds of all.   *)
LEMMA LeastCounterexample ==
  ASSUME NEW Holds \in SUBSET Nat,
         \A n \in Nat : (\A m \in Nat : m < n => m \in Holds) => n \in Holds
  PROVE  Holds = Nat
<1> SUFFICES ASSUME Nat \ Holds # {} PROVE FALSE
  OBVIOUS
<1>1. PICK m \in Nat \ Holds : \A n \in Nat \ Holds : m <= n
  BY LeastNatural
<1>2. \A k \in Nat : k < m => k \in Holds
  BY <1>1
<1> QED  BY <1>1, <1>2

LEMMA GreatestNatural ==
  ASSUME NEW S \in SUBSET Nat, IsFiniteSet(S), S # {}
  PROVE  \E m \in S : \A n \in S : n <= m
<1> DEFINE Good(n) == \A T \in SUBSET S :
             T # {} /\ Cardinality(T) = n => \E m \in T : \A k \in T : k <= m
           Holds == {n \in Nat : Good(n)}
<1>1. ASSUME NEW n \in Nat, \A m \in Nat : m < n => Good(m) PROVE Good(n)
  <2> SUFFICES ASSUME NEW T \in SUBSET S, T # {}, Cardinality(T) = n
               PROVE  \E m \in T : \A k \in T : k <= m
    OBVIOUS
  <2>1. IsFiniteSet(T)
    BY FS_Subset
  <2>2. PICK x \in T : TRUE
    OBVIOUS
  <2>3. Cardinality(T \ {x}) = n - 1
    BY <2>1, <2>2, FS_RemoveElement
  <2>4. n - 1 \in Nat
    BY <2>1, FS_RemoveElement, FS_CardinalityType, <2>3
  <2>5. CASE T \ {x} = {}
    BY <2>2, <2>5
  <2>6. CASE T \ {x} # {}
    <3>1. T \ {x} \in SUBSET S /\ n - 1 < n
      BY <2>4
    <3>2. PICK m \in T \ {x} : \A k \in T \ {x} : k <= m
      BY <1>1, <2>3, <2>4, <2>6, <3>1
    <3> QED  BY <2>2, <3>2
  <2> QED  BY <2>5, <2>6
<1>2. \A n \in Nat : (\A m \in Nat : m < n => m \in Holds) => n \in Holds
  BY <1>1
<1>3. Holds = Nat
  <2>1. Holds \in SUBSET Nat
    OBVIOUS
  <2> HIDE DEF Holds
  <2> QED  BY <1>2, <2>1, LeastCounterexample
<1>4. Cardinality(S) \in Nat
  BY FS_CardinalityType
<1>5. Good(Cardinality(S))
  <2> HIDE DEF Good
  <2> QED  BY <1>3, <1>4
<1> QED  BY <1>5
-----------------------------------------------------------------------------
(* Following redirects. Both resolvers are recursive functions of one      *)
(* shape: each step visits an entity that has a redirect for the first     *)
(* time, and finitely many have one, so such a function exists.            *)

Redirecting(to) ==
  /\ IsFiniteSet(DOMAIN to)
  /\ DOMAIN to \subseteq Entities
  /\ \A x \in DOMAIN to : to[x] \in Entities

ChaseStep(to, at, f, visited, x) ==
  IF x \in visited \/ x \notin DOMAIN to THEN at[x] ELSE f[visited \cup {x}][to[x]]

Chases(to, at, f) ==
  f = [visited \in SUBSET Entities |-> [x \in Entities |-> ChaseStep(to, at, f, visited, x)]]

LEMMA Unvisited ==
  ASSUME NEW to, Redirecting(to), NEW visited
  PROVE  /\ Cardinality(DOMAIN to \ visited) \in Nat
         /\ \A x \in DOMAIN to \ visited :
              Cardinality(DOMAIN to \ (visited \cup {x})) = Cardinality(DOMAIN to \ visited) - 1
<1> DEFINE left == DOMAIN to \ visited
<1>1. IsFiniteSet(left) /\ Cardinality(left) \in Nat
  BY FS_Difference, FS_CardinalityType DEF Redirecting
<1>2. ASSUME NEW x \in left PROVE Cardinality(left \ {x}) = Cardinality(left) - 1
  BY <1>1, FS_RemoveElement
<1>3. \A x : DOMAIN to \ (visited \cup {x}) = left \ {x}
  OBVIOUS
<1> QED  BY <1>1, <1>2, <1>3

LEMMA ChaseExists ==
  ASSUME NEW to, Redirecting(to), NEW at
  PROVE  \E f : Chases(to, at, f)
<1> DEFINE Left(visited) == Cardinality(DOMAIN to \ visited)
           Within(n) == {visited \in SUBSET Entities : Left(visited) <= n}
           Fits(f, n) ==
             f = [visited \in Within(n) |-> [x \in Entities |-> ChaseStep(to, at, f, visited, x)]]
           Holds == {n \in Nat : \E f : Fits(f, n)}
<1>1. ASSUME NEW n \in Nat, \A m \in Nat : m < n => m \in Holds PROVE n \in Holds
  <2>1. ASSUME NEW visited \in Within(n), NEW x \in DOMAIN to, x \notin visited
        PROVE  n # 0 /\ visited \cup {x} \in Within(n - 1)
    <3>1. Left(visited) \in Nat /\ Left(visited \cup {x}) \in Nat
      BY Unvisited
    <3>2. Left(visited \cup {x}) = Left(visited) - 1
      BY <2>1, Unvisited
    <3>3. visited \cup {x} \in SUBSET Entities
      BY DEF Redirecting
    <3> HIDE DEF Left
    <3> QED  BY <3>1, <3>2, <3>3
  <2>2. \E g : n # 0 => Fits(g, n - 1)
    <3>1. CASE n = 0
      BY <3>1
    <3>2. CASE n # 0
      <4>1. n - 1 \in Nat /\ n - 1 < n
        BY <3>2
      <4>2. n - 1 \in Holds
        BY <1>1, <4>1
      <4> QED  BY <4>2
    <3> QED  BY <3>1, <3>2
  <2>3. PICK g : n # 0 => Fits(g, n - 1)
    BY <2>2
  <2> DEFINE f == [visited \in Within(n) |->
                     [x \in Entities |-> ChaseStep(to, at, g, visited, x)]]
  <2>4. ASSUME n # 0, NEW visited \in Within(n - 1) PROVE f[visited] = g[visited]
    <3>1. Left(visited) \in Nat
      BY Unvisited
    <3>2. visited \in Within(n)
      <4> HIDE DEF Left
      <4> QED  BY <3>1
    <3>3. g[visited] = [x \in Entities |-> ChaseStep(to, at, g, visited, x)]
      <4> HIDE DEF Within
      <4> QED  BY <2>3, <2>4
    <3> HIDE DEF Within
    <3> QED  BY <3>2, <3>3
  <2>5. ASSUME NEW visited \in Within(n), NEW x \in Entities
        PROVE  ChaseStep(to, at, f, visited, x) = ChaseStep(to, at, g, visited, x)
    <3>1. CASE x \in visited \/ x \notin DOMAIN to
      BY <3>1 DEF ChaseStep
    <3>2. CASE x \in DOMAIN to /\ x \notin visited
      <4>1. f[visited \cup {x}] = g[visited \cup {x}]
        <5> HIDE DEF f, Within
        <5> QED  BY <2>1, <2>4, <3>2
      <4> HIDE DEF f, Within
      <4> QED  BY <3>2, <4>1 DEF ChaseStep
    <3> QED  BY <3>1, <3>2
  <2>6. Fits(f, n)
    <3> HIDE DEF Within
    <3> QED  BY <2>5
  <2> QED
    <3> HIDE DEF f, Fits
    <3> QED  BY <2>6
<1>2. Holds = Nat
  <2>1. Holds \in SUBSET Nat
    OBVIOUS
  <2> HIDE DEF Holds
  <2> QED  BY <1>1, <2>1, LeastCounterexample
<1>3. Left({}) \in Nat /\ Left({}) \in Holds
  BY <1>2, Unvisited
<1>4. PICK f : Fits(f, Left({}))
  BY <1>3
<1>5. ASSUME NEW visited \in SUBSET Entities PROVE visited \in Within(Left({}))
  <2>1. IsFiniteSet(DOMAIN to) /\ DOMAIN to \ {} = DOMAIN to
    BY DEF Redirecting
  <2>2. Left(visited) <= Cardinality(DOMAIN to)
    BY <2>1, FS_Subset, DOMAIN to \ visited \in SUBSET DOMAIN to
  <2> QED  BY <2>1, <2>2
<1>6. Within(Left({})) = SUBSET Entities
  BY <1>5
<1>7. Chases(to, at, f)
  <2> HIDE DEF Within
  <2> QED  BY <1>4, <1>6 DEF Chases
<1> QED  BY <1>7

(* The two resolvers take such steps.                                      *)
LEMMA RootSteps ==
  ASSUME NEW to, Redirecting(to)
  PROVE  \A visited \in SUBSET Entities, x \in Entities :
           Redirects!chaseToRoot(to)[visited][x] =
             IF x \notin DOMAIN to THEN x
             ELSE IF x \in visited THEN None ELSE Redirects!chaseToRoot(to)[visited \cup {x}][to[x]]
<1> DEFINE at == [x \in Entities |-> IF x \notin DOMAIN to THEN x ELSE None]
           Step(f, visited, x) ==
             IF x \notin DOMAIN to THEN x
             ELSE IF x \in visited THEN None ELSE f[visited \cup {x}][to[x]]
           IsChase(f) ==
             f = [visited \in SUBSET Entities |-> [x \in Entities |-> Step(f, visited, x)]]
<1>1. Redirects!chaseToRoot(to) = CHOOSE f : IsChase(f)
  BY DEF Redirects!chaseToRoot
<1>2. \E f : IsChase(f)
  <2>1. PICK f : Chases(to, at, f)
    BY ChaseExists
  <2>2. \A visited \in SUBSET Entities, x \in Entities :
          ChaseStep(to, at, f, visited, x) = Step(f, visited, x)
    BY DEF ChaseStep
  <2> HIDE DEF Step
  <2>3. IsChase(f)
    BY <2>1, <2>2 DEF Chases
  <2> QED  BY <2>3
<1>3. IsChase(Redirects!chaseToRoot(to))
  <2> HIDE DEF IsChase
  <2> QED  BY <1>1, <1>2
<1>4. \A visited \in SUBSET Entities, x \in Entities :
        Redirects!chaseToRoot(to)[visited][x] = Step(Redirects!chaseToRoot(to), visited, x)
  <2> HIDE DEF Step
  <2> QED  BY <1>3
<1> QED  BY <1>4

LEMMA SeenSteps ==
  ASSUME NEW to, Redirecting(to)
  PROVE  \A visited \in SUBSET Entities, x \in Entities :
           Redirects!chaseUntilSeen(to)[visited][x] =
             IF x \in visited \/ x \notin DOMAIN to THEN x
             ELSE Redirects!chaseUntilSeen(to)[visited \cup {x}][to[x]]
<1> DEFINE at == [x \in Entities |-> x]
           Step(f, visited, x) ==
             IF x \in visited \/ x \notin DOMAIN to THEN x
             ELSE f[visited \cup {x}][to[x]]
           IsChase(f) ==
             f = [visited \in SUBSET Entities |-> [x \in Entities |-> Step(f, visited, x)]]
<1>1. Redirects!chaseUntilSeen(to) = CHOOSE f : IsChase(f)
  BY DEF Redirects!chaseUntilSeen
<1>2. \E f : IsChase(f)
  <2>1. PICK f : Chases(to, at, f)
    BY ChaseExists
  <2>2. \A visited \in SUBSET Entities, x \in Entities :
          ChaseStep(to, at, f, visited, x) = Step(f, visited, x)
    BY DEF ChaseStep
  <2> HIDE DEF Step
  <2>3. IsChase(f)
    BY <2>1, <2>2 DEF Chases
  <2> QED  BY <2>3
<1>3. IsChase(Redirects!chaseUntilSeen(to))
  <2> HIDE DEF IsChase
  <2> QED  BY <1>1, <1>2
<1>4. \A visited \in SUBSET Entities, x \in Entities :
        Redirects!chaseUntilSeen(to)[visited][x] = Step(Redirects!chaseUntilSeen(to), visited, x)
  <2> HIDE DEF Step
  <2> QED  BY <1>3
<1> QED  BY <1>4

-----------------------------------------------------------------------------
(* What a log says.                                                        *)

LEMMA EventKinds ==
  ASSUME NEW log \in Log
  PROVE  /\ \A i \in Proposals(log) : log[i] \in ProposedEvent
         /\ \A i \in Ids(log, "entity.resolution_decided") : log[i] \in DecidedEvent
         /\ \A i \in Merges(log) : log[i] \in MergedEvent
         /\ \A i \in Ids(log, "entity.merge_reverted") : log[i] \in RevertedEvent
BY DEF Log, Event, ProposedEvent, DecidedEvent, MergedEvent, RevertedEvent,
       Proposals, Merges, Ids

LEMMA ActiveEverywhere ==
  ASSUME NEW log \in Log
  PROVE  Redirects!activeEntityMergeEvents(log) = activeMerges(log)
<1>1. DOMAIN log = EventIds
  BY DEF Log
<1> QED  BY <1>1 DEF Redirects!activeEntityMergeEvents, Redirects!IdsOfKind, activeMerges,
                     Merges, Reverts, Ids

LEMMA RedirectsOfLog ==
  ASSUME NEW log \in Log
  PROVE  LET to == Redirects!redirects(log)
         IN  /\ Redirecting(to)
             /\ DOMAIN to = {log[i].absorbed : i \in activeMerges(log)}
             /\ \A x \in DOMAIN to : \E i \in activeMerges(log) :
                  log[i].absorbed = x /\ to[x] = log[i].surviving
<1> DEFINE active == activeMerges(log)
           to == Redirects!redirects(log)
           absorbed == {log[i].absorbed : i \in active}
           merged(x) == {i \in active : log[i].absorbed = x}
           latest(x) == CHOOSE i \in merged(x) : \A j \in merged(x) : j <= i
<1>1. to = [x \in absorbed |-> log[latest(x)].surviving]
  <2>1. to = Redirects!redirectsOf(log, active)
    BY ActiveEverywhere DEF Redirects!redirects
  <2> HIDE DEF to, active
  <2> QED  BY <2>1 DEF Redirects!redirectsOf
<1>2. active \subseteq EventIds /\ active \subseteq Merges(log)
  BY DEF activeMerges, Merges, Ids
<1>3. \A i \in active : log[i].absorbed \in Entities /\ log[i].surviving \in Entities
  BY <1>2, EventKinds DEF MergedEvent
<1>4. IsFiniteSet(active)
  BY <1>2, ResolutionAssumption, FS_Subset
<1>5. IsFiniteSet(absorbed)
  <2> DEFINE f == [i \in active |-> log[i].absorbed]
  <2>1. f \in Surjection(active, absorbed)
    BY DEF Surjection
  <2> QED  BY <1>4, <2>1, FS_Surjection
<1>6. ASSUME NEW x \in absorbed
      PROVE  latest(x) \in merged(x)
  <2>1. merged(x) # {} /\ merged(x) \in SUBSET active
    OBVIOUS
  <2>2. IsFiniteSet(merged(x)) /\ merged(x) \in SUBSET Nat
    BY <1>2, <1>4, <2>1, ResolutionAssumption, FS_Subset
  <2>3. \E i \in merged(x) : \A j \in merged(x) : j <= i
    <3> HIDE DEF merged
    <3> QED  BY <2>1, <2>2, GreatestNatural
  <2> HIDE DEF merged
  <2> QED  BY <2>3
<1>7. \A x \in absorbed : \E i \in active :
        log[i].absorbed = x /\ to[x] = log[i].surviving
  <2> SUFFICES ASSUME NEW x \in absorbed
               PROVE  \E i \in active : log[i].absorbed = x /\ to[x] = log[i].surviving
    OBVIOUS
  <2>1. latest(x) \in active /\ log[latest(x)].absorbed = x
    BY <1>6
  <2>2. to[x] = log[latest(x)].surviving
    <3> HIDE DEF latest, absorbed, to
    <3> QED  BY <1>1
  <2> HIDE DEF latest
  <2> QED  BY <2>1, <2>2
<1>8. DOMAIN to = absorbed
  <2> HIDE DEF latest, absorbed, to
  <2> QED  BY <1>1
<1>9. absorbed \subseteq Entities /\ \A x \in absorbed : to[x] \in Entities
  <2> HIDE DEF to
  <2> QED  BY <1>3, <1>7
<1>10. Redirecting(to)
  <2> HIDE DEF to, absorbed
  <2> QED  BY <1>5, <1>8, <1>9 DEF Redirecting
<1> HIDE DEF latest
<1> QED  BY <1>7, <1>8, <1>10

(* Whatever the redirects, the knowledge capability fails or answers what  *)
(* the projection answers.                                                 *)
LEMMA ResolversAgreeOn ==
  ASSUME NEW to, Redirecting(to), NEW x \in Entities
  PROVE  Redirects!chaseToRoot(to)[{}][x] \in {None, Redirects!chaseUntilSeen(to)[{}][x]}
<1> DEFINE root == Redirects!chaseToRoot(to)
           until == Redirects!chaseUntilSeen(to)
           Left(visited) == Cardinality(DOMAIN to \ visited)
           Good(n) == \A visited \in SUBSET Entities, y \in Entities :
                        Left(visited) = n => root[visited][y] \in {None, until[visited][y]}
           Holds == {n \in Nat : Good(n)}
<1>1. \A visited \in SUBSET Entities, y \in Entities :
        root[visited][y] = IF y \notin DOMAIN to THEN y
                           ELSE IF y \in visited THEN None ELSE root[visited \cup {y}][to[y]]
  BY RootSteps
<1>2. \A visited \in SUBSET Entities, y \in Entities :
        until[visited][y] = IF y \in visited \/ y \notin DOMAIN to THEN y
                            ELSE until[visited \cup {y}][to[y]]
  BY SeenSteps
<1> HIDE DEF root, until
<1>3. ASSUME NEW n \in Nat, \A m \in Nat : m < n => m \in Holds PROVE n \in Holds
  <2> SUFFICES ASSUME NEW visited \in SUBSET Entities, NEW y \in Entities, Left(visited) = n
               PROVE  root[visited][y] \in {None, until[visited][y]}
    OBVIOUS
  <2>1. CASE y \notin DOMAIN to \/ y \in visited
    BY <1>1, <1>2, <2>1
  <2>2. CASE y \in DOMAIN to /\ y \notin visited
    <3>1. visited \cup {y} \in SUBSET Entities /\ to[y] \in Entities
      BY <2>2 DEF Redirecting
    <3>2. root[visited][y] = root[visited \cup {y}][to[y]]
          /\ until[visited][y] = until[visited \cup {y}][to[y]]
      BY <1>1, <1>2, <2>2
    <3>3. Left(visited \cup {y}) = n - 1 /\ Left(visited \cup {y}) \in Nat
      BY <2>2, Unvisited
    <3>4. Good(Left(visited \cup {y}))
      <4> HIDE DEF Left, Good
      <4> QED  BY <1>3, <3>3
    <3> HIDE DEF Left
    <3> QED  BY <3>1, <3>2, <3>4
  <2> QED  BY <2>1, <2>2
<1>4. Holds = Nat
  <2>1. Holds \in SUBSET Nat
    OBVIOUS
  <2> HIDE DEF Holds
  <2> QED  BY <1>3, <2>1, LeastCounterexample
<1>5. Left({}) \in Nat
  BY Unvisited
<1>6. Good(Left({}))
  <2> HIDE DEF Good
  <2> QED  BY <1>4, <1>5
<1> QED  BY <1>6 DEF root, until

-----------------------------------------------------------------------------
(* Forests: entities can be ranked so that every redirect leads to a lower *)
(* rank.                                                                   *)

Ranked(to, rank) ==
  /\ rank \in [Entities -> Nat]
  /\ \A x \in DOMAIN to : rank[to[x]] < rank[x]

Stands(to, x) == Redirects!chaseToRoot(to)[{}][x]

LEMMA VisitedDoNotMatter ==
  ASSUME NEW to, Redirecting(to), NEW rank, Ranked(to, rank),
         NEW above \in SUBSET Entities, NEW e \in Entities,
         \A y \in above : rank[e] < rank[y]
  PROVE  Redirects!chaseToRoot(to)[above][e] = Stands(to, e)
<1> DEFINE root == Redirects!chaseToRoot(to)
           Good(n) == \A visited \in SUBSET Entities, x \in Entities :
                        rank[x] = n /\ (\A y \in visited : rank[x] < rank[y])
                          => root[visited][x] = root[{}][x]
           Holds == {n \in Nat : Good(n)}
<1>1. \A visited \in SUBSET Entities, x \in Entities :
        root[visited][x] = IF x \notin DOMAIN to THEN x
                           ELSE IF x \in visited THEN None ELSE root[visited \cup {x}][to[x]]
  BY RootSteps
<1> HIDE DEF root
<1>2. ASSUME NEW n \in Nat, \A m \in Nat : m < n => m \in Holds PROVE n \in Holds
  <2> SUFFICES ASSUME NEW visited \in SUBSET Entities, NEW x \in Entities, rank[x] = n,
                      \A y \in visited : rank[x] < rank[y]
               PROVE  root[visited][x] = root[{}][x]
    OBVIOUS
  <2>1. CASE x \notin DOMAIN to
    BY <1>1, <2>1
  <2>2. CASE x \in DOMAIN to
    <3>1. to[x] \in Entities /\ rank[to[x]] < rank[x] /\ rank[to[x]] \in Nat /\ rank[x] \in Nat
      BY <2>2 DEF Redirecting, Ranked
    <3>2. x \notin visited
      BY <3>1
    <3>3. \A y \in visited \cup {x} : rank[to[x]] < rank[y]
      BY <3>1 DEF Ranked
    <3>4. Good(rank[to[x]])
      <4> HIDE DEF Good
      <4> QED  BY <1>2, <3>1
    <3>5. root[visited \cup {x}][to[x]] = root[{}][to[x]]
      BY <3>1, <3>3, <3>4
    <3>6. root[{x}][to[x]] = root[{}][to[x]]
      BY <3>1, <3>4
    <3>7. root[visited][x] = root[visited \cup {x}][to[x]]
      BY <1>1, <2>2, <3>2
    <3>8. root[{}][x] = root[{} \cup {x}][to[x]]
      BY <1>1, <2>2
    <3>9. {} \cup {x} = {x}
      OBVIOUS
    <3> QED  BY <3>5, <3>6, <3>7, <3>8, <3>9
  <2> QED  BY <2>1, <2>2
<1>3. Holds = Nat
  <2>1. Holds \in SUBSET Nat
    OBVIOUS
  <2> HIDE DEF Holds
  <2> QED  BY <1>2, <2>1, LeastCounterexample
<1>4. rank[e] \in Nat
  BY DEF Ranked
<1>5. Good(rank[e])
  <2> HIDE DEF Good
  <2> QED  BY <1>3, <1>4
<1> QED  BY <1>5 DEF Stands, root

(* In a forest an entity stands for what its redirect stands for.          *)
LEMMA StandsStep ==
  ASSUME NEW to, Redirecting(to), NEW rank, Ranked(to, rank), NEW x \in Entities
  PROVE  Stands(to, x) = IF x \in DOMAIN to THEN Stands(to, to[x]) ELSE x
<1>1. CASE x \notin DOMAIN to
  BY <1>1, RootSteps DEF Stands
<1>2. CASE x \in DOMAIN to
  <2>1. to[x] \in Entities /\ rank[to[x]] < rank[x]
    BY <1>2 DEF Redirecting, Ranked
  <2>2. Stands(to, x) = Redirects!chaseToRoot(to)[{} \cup {x}][to[x]]
    BY <1>2, RootSteps DEF Stands
  <2>3. Redirects!chaseToRoot(to)[{x}][to[x]] = Stands(to, to[x])
    BY <2>1, VisitedDoNotMatter
  <2>4. {} \cup {x} = {x}
    OBVIOUS
  <2> QED  BY <1>2, <2>2, <2>3, <2>4
<1> QED  BY <1>1, <1>2

(* What holds of an entity if it holds of what it is redirected to.        *)
LEMMA RankInduction ==
  ASSUME NEW to, Redirecting(to), NEW rank, Ranked(to, rank), NEW Those \in SUBSET Entities,
         \A x \in Entities : (x \in DOMAIN to => to[x] \in Those) => x \in Those
  PROVE  Those = Entities
<1> DEFINE Holds == {n \in Nat : \A x \in Entities : rank[x] = n => x \in Those}
<1>1. ASSUME NEW n \in Nat, \A m \in Nat : m < n => m \in Holds PROVE n \in Holds
  <2> SUFFICES ASSUME NEW x \in Entities, rank[x] = n, x \in DOMAIN to PROVE to[x] \in Those
    OBVIOUS
  <2>1. to[x] \in Entities /\ rank[to[x]] < n /\ rank[to[x]] \in Nat
    BY DEF Redirecting, Ranked
  <2> QED  BY <1>1, <2>1
<1>2. Holds = Nat
  <2>1. Holds \in SUBSET Nat
    OBVIOUS
  <2> HIDE DEF Holds
  <2> QED  BY <1>1, <2>1, LeastCounterexample
<1>3. ASSUME NEW x \in Entities PROVE x \in Those
  <2>1. rank[x] \in Nat
    BY DEF Ranked
  <2>2. rank[x] \in Holds
    BY <1>2, <2>1
  <2> QED  BY <2>2
<1> QED  BY <1>3

LEMMA StandsForRoot ==
  ASSUME NEW to, Redirecting(to), NEW rank, Ranked(to, rank), NEW x \in Entities
  PROVE  Stands(to, x) \in Entities \ DOMAIN to
<1> DEFINE Those == {y \in Entities : Stands(to, y) \in Entities \ DOMAIN to}
<1>1. \A y \in Entities : (y \in DOMAIN to => to[y] \in Those) => y \in Those
  BY StandsStep
<1>2. Those \in SUBSET Entities
  OBVIOUS
<1>3. Those = Entities
  <2> HIDE DEF Those
  <2> QED  BY <1>1, <1>2, RankInduction
<1> QED  BY <1>3

(* A root is merged into another.                                          *)
LEMMA MergeMoves ==
  ASSUME NEW to, Redirecting(to), NEW rank, Ranked(to, rank), NEW new, Redirecting(new),
         NEW absorbed \in Entities \ DOMAIN to, NEW surviving \in Entities \ DOMAIN to,
         absorbed # surviving, DOMAIN new = DOMAIN to \cup {absorbed},
         new[absorbed] = surviving, \A x \in DOMAIN to : new[x] = to[x]
  PROVE  /\ \E higher : Ranked(new, higher)
         /\ \A x \in Entities :
              Stands(new, x) = IF Stands(to, x) = absorbed THEN surviving ELSE Stands(to, x)
<1> DEFINE higher == [x \in Entities |-> IF x = surviving THEN 0 ELSE rank[x] + 1]
           Leads(x) == Stands(new, x) = IF Stands(to, x) = absorbed THEN surviving
                                     ELSE Stands(to, x)
           Those == {x \in Entities : Leads(x)}
<1>1. Ranked(new, higher)
  <2>1. higher \in [Entities -> Nat]
    BY DEF Ranked
  <2>2. ASSUME NEW x \in DOMAIN to PROVE higher[new[x]] < higher[x]
    <3>1. x # surviving /\ to[x] \in Entities /\ x \in Entities /\ new[x] = to[x]
      BY DEF Redirecting
    <3>2. rank[to[x]] < rank[x] /\ rank[x] \in Nat /\ rank[to[x]] \in Nat
      BY <3>1 DEF Ranked
    <3> QED  BY <3>1, <3>2
  <2>3. higher[new[absorbed]] < higher[absorbed]
    BY DEF Ranked
  <2> QED  BY <2>1, <2>2, <2>3 DEF Ranked
<1>2. ASSUME NEW x \in Entities, x \in DOMAIN new => new[x] \in Those PROVE x \in Those
  <2>1. Stands(new, x) = IF x \in DOMAIN new THEN Stands(new, new[x]) ELSE x
    BY <1>1, StandsStep
  <2>2. Stands(to, x) = IF x \in DOMAIN to THEN Stands(to, to[x]) ELSE x
    BY StandsStep
  <2>3. CASE x \in DOMAIN to
    BY <1>2, <2>1, <2>2, <2>3
  <2>4. CASE x = absorbed
    <3>1. Stands(new, surviving) = surviving
      BY <1>1, StandsStep
    <3> QED  BY <2>1, <2>2, <2>4, <3>1
  <2>5. CASE x \notin DOMAIN to /\ x # absorbed
    BY <2>1, <2>2, <2>5
  <2> QED  BY <2>3, <2>4, <2>5
<1>3. Those = Entities
  <2>1. Those \in SUBSET Entities
    OBVIOUS
  <2> HIDE DEF Those, higher
  <2> QED  BY <1>1, <1>2, <2>1, RankInduction
<1> QED  BY <1>1, <1>3

(* A merge is reverted.                                                    *)
LEMMA RevertMoves ==
  ASSUME NEW to, Redirecting(to), NEW rank, Ranked(to, rank), NEW new, Redirecting(new),
         NEW restored \in DOMAIN to, DOMAIN new = DOMAIN to \ {restored},
         \A x \in DOMAIN new : new[x] = to[x]
  PROVE  /\ Ranked(new, rank)
         /\ Stands(new, restored) = restored
         /\ \A x \in Entities : Stands(new, x) \in {restored, Stands(to, x)}
<1> DEFINE Those == {x \in Entities : Stands(new, x) \in {restored, Stands(to, x)}}
<1>1. Ranked(new, rank)
  BY DEF Ranked
<1>2. ASSUME NEW x \in Entities, x \in DOMAIN new => new[x] \in Those PROVE x \in Those
  <2>1. Stands(new, x) = IF x \in DOMAIN new THEN Stands(new, new[x]) ELSE x
    BY <1>1, StandsStep
  <2>2. Stands(to, x) = IF x \in DOMAIN to THEN Stands(to, to[x]) ELSE x
    BY StandsStep
  <2> QED  BY <1>2, <2>1, <2>2
<1>3. Those = Entities
  <2>1. Those \in SUBSET Entities
    OBVIOUS
  <2> HIDE DEF Those
  <2> QED  BY <1>1, <1>2, <2>1, RankInduction
<1>4. restored \in Entities
  BY DEF Redirecting
<1>5. Stands(new, restored) = restored
  BY <1>1, <1>4, StandsStep
<1> QED  BY <1>1, <1>3, <1>5

-----------------------------------------------------------------------------
(* What holds for any number of callers: of each caller, the event it is   *)
(* about to append has the kind its place says, and the checks it passed   *)
(* of events, which do not go away, still hold.                            *)

ProposePlaces == {"proposeRoots", "proposeEvents", "proposeList", "proposeDecisions"}
MergePlaces == {"mergeDecisions", "mergeRoots", "mergeEvents"}
Places == {"idle", "decide", "revert", "write"} \cup ProposePlaces \cup MergePlaces

Reviewable(log, merge) ==
  /\ merge.proposal \in Proposals(log)
  /\ merge.absorbed # merge.surviving
  /\ {merge.absorbed, merge.surviving} = {log[merge.proposal].source, log[merge.proposal].candidate}

Approved(log, merge) ==
  \E d \in Decisions(log, merge.proposal) : log[d].outcome = "approved"

TypeInv ==
  /\ events \in Log
  /\ pc \in [Callers -> Places]
  /\ call \in [Callers -> Event \cup {None}]
  /\ DOMAIN toCheck = Callers
  /\ seen \in [Callers -> Log]

CallerInv(log, place, event) ==
  /\ place \in ProposePlaces => event \in ProposedEvent
  /\ place = "decide" => event \in DecidedEvent
  /\ place \in MergePlaces => event \in MergedEvent
  /\ place = "revert" => event \in RevertedEvent
  /\ place = "write" => event \in Event
  /\ event \in MergedEvent => Reviewable(log, event)
  /\ event \in RevertedEvent => event.merge \in Merges(log)
  /\ event \in MergedEvent /\ place \in {"mergeRoots", "mergeEvents", "write"}
       => Approved(log, event)

LogInv(log) ==
  /\ \A i \in Merges(log) : Reviewable(log, log[i]) /\ Approved(log, log[i])
  /\ \A i \in Ids(log, "entity.merge_reverted") : log[i].merge \in Merges(log)

ReviewInv ==
  /\ TypeInv
  /\ \A p \in Callers : CallerInv(events, pc[p], call[p])
  /\ LogInv(events)

(* No step but Write changes the log, and a step concerns one caller.      *)
Others(p) ==
  \A q \in Callers \ {p} :
    pc'[q] = pc[q] /\ call'[q] = call[q] /\ toCheck'[q] = toCheck[q] /\ seen'[q] = seen[q]

LEMMA GotoFacts ==
  ASSUME TypeInv, NEW p \in Callers, NEW next \in Places, NEW check, NEW log \in Log,
         Goto(p, next, check, log)
  PROVE  /\ pc' \in [Callers -> Places] /\ pc'[p] = next
         /\ DOMAIN toCheck' = Callers /\ toCheck'[p] = check
         /\ seen' \in [Callers -> Log] /\ seen'[p] = log
         /\ \A q \in Callers \ {p} :
              pc'[q] = pc[q] /\ toCheck'[q] = toCheck[q] /\ seen'[q] = seen[q]
BY DEF TypeInv, Goto

LEMMA EmptyLog == NoLog \in Log
BY DEF NoLog, Log

LEMMA EventIsNotNone == None \notin Event
BY ResolutionAssumption

LEMMA ReturnFacts ==
  ASSUME TypeInv, NEW p \in Callers, Return(p)
  PROVE  /\ pc' \in [Callers -> Places] /\ pc'[p] = "idle"
         /\ DOMAIN toCheck' = Callers
         /\ seen' \in [Callers -> Log]
         /\ call' \in [Callers -> Event \cup {None}] /\ call'[p] = None
         /\ Others(p)
<1>1. "idle" \in Places
  BY DEF Places
<1>2. Goto(p, "idle", {}, NoLog) /\ call' = [call EXCEPT ![p] = None]
  BY DEF Return
<1>3. call' \in [Callers -> Event \cup {None}] /\ call'[p] = None
      /\ \A q \in Callers \ {p} : call'[q] = call[q]
  BY <1>2 DEF TypeInv
<1> QED  BY <1>1, <1>2, <1>3, EmptyLog, GotoFacts DEF Others

LEMMA BeginFacts ==
  ASSUME TypeInv, NEW p \in Callers, NEW event \in Event, NEW next \in Places, NEW check,
         Begin(p, event, next, check)
  PROVE  /\ TypeInv' /\ UNCHANGED events /\ Others(p)
         /\ pc'[p] = next /\ call'[p] = event /\ toCheck'[p] = check /\ seen'[p] = NoLog
<1>1. Goto(p, next, check, NoLog) /\ call' = [call EXCEPT ![p] = event] /\ UNCHANGED events
  BY DEF Begin
<1>2. call' \in [Callers -> Event \cup {None}] /\ call'[p] = event
      /\ \A q \in Callers \ {p} : call'[q] = call[q]
  BY <1>1 DEF TypeInv
<1> QED  BY <1>1, <1>2, EmptyLog, GotoFacts DEF Others, TypeInv

LEMMA CheckFacts ==
  ASSUME TypeInv, NEW p \in Callers, NEW passes \in BOOLEAN, NEW next \in Places, NEW check,
         NEW log \in Log, Check(p, passes, next, check, log)
  PROVE  /\ TypeInv' /\ UNCHANGED events /\ Others(p)
         /\ \/ /\ passes
               /\ pc'[p] = next /\ call'[p] = call[p] /\ toCheck'[p] = check /\ seen'[p] = log
            \/ ~passes /\ pc'[p] = "idle" /\ call'[p] = None
<1>1. CASE passes
  <2>1. Goto(p, next, check, log) /\ UNCHANGED <<call, events>>
    BY <1>1 DEF Check
  <2> QED  BY <1>1, <2>1, GotoFacts DEF Others, TypeInv
<1>2. CASE ~passes
  <2>1. Return(p) /\ UNCHANGED events
    BY <1>2 DEF Check
  <2> QED  BY <1>2, <2>1, ReturnFacts DEF TypeInv
<1> QED  BY <1>1, <1>2

(* An event is appended.                                                   *)
Grown(log, i, event) == [log EXCEPT ![i] = event]

LEMMA GrownFacts ==
  ASSUME NEW log \in Log, NEW i \in Free(log), NEW event \in Event
  PROVE  LET new == Grown(log, i, event)
         IN  /\ new \in Log /\ new[i] = event
             /\ \A j \in EventIds \ {i} : new[j] = log[j]
             /\ \A kind : /\ i \notin Ids(log, kind)
                          /\ Ids(new, kind) = IF event.kind = kind THEN Ids(log, kind) \cup {i}
                                              ELSE Ids(log, kind)
             /\ Proposals(log) \subseteq Proposals(new)
             /\ Merges(log) \subseteq Merges(new)
             /\ \A proposal : Decisions(log, proposal) \subseteq Decisions(new, proposal)
<1> DEFINE new == Grown(log, i, event)
<1>1. new \in Log /\ new[i] = event /\ \A j \in EventIds \ {i} : new[j] = log[j]
  BY DEF Grown, Log, Free
<1>2. log[i] = None /\ event # None
  BY EventIsNotNone DEF Free
<1> HIDE DEF new
<1>3. \A kind : i \notin Ids(log, kind)
                /\ Ids(new, kind) = IF event.kind = kind THEN Ids(log, kind) \cup {i}
                                    ELSE Ids(log, kind)
  BY <1>1, <1>2 DEF Ids, Free
<1>4. \A kind : Ids(log, kind) \subseteq Ids(new, kind)
  BY <1>3
<1>5. \A kind : \A j \in Ids(log, kind) : new[j] = log[j]
  BY <1>1, <1>3 DEF Ids
<1>6. \A proposal : Decisions(log, proposal) \subseteq Decisions(new, proposal)
  BY <1>4, <1>5 DEF Decisions
<1> QED  BY <1>1, <1>3, <1>4, <1>6 DEF Proposals, Merges, new

LEMMA StaysReviewed ==
  ASSUME NEW log \in Log, NEW i \in Free(log), NEW event \in Event, NEW merge
  PROVE  LET new == Grown(log, i, event)
         IN  /\ Reviewable(log, merge) => Reviewable(new, merge)
             /\ Approved(log, merge) => Approved(new, merge)
<1> DEFINE new == Grown(log, i, event)
<1>1. /\ \A j \in EventIds \ {i} : new[j] = log[j]
      /\ \A kind : i \notin Ids(log, kind)
      /\ Proposals(log) \subseteq Proposals(new)
      /\ \A proposal : Decisions(log, proposal) \subseteq Decisions(new, proposal)
  BY GrownFacts
<1>2. \A kind : \A j \in Ids(log, kind) : new[j] = log[j]
  BY <1>1 DEF Ids
<1>3. \A j \in Proposals(log) : new[j] = log[j]
  BY <1>2 DEF Proposals
<1>4. \A proposal : \A d \in Decisions(log, proposal) : new[d] = log[d]
  BY <1>2 DEF Decisions
<1> HIDE DEF new
<1> QED  BY <1>1, <1>3, <1>4 DEF Reviewable, Approved, new

LEMMA OutcomeWasDecided ==
  ASSUME NEW log \in Log, NEW proposal
  PROVE  \/ Decisions(log, proposal) = {} /\ Outcome(log, proposal) = "none"
         \/ \E d \in Decisions(log, proposal) :
              /\ Outcome(log, proposal) = log[d].outcome
              /\ \A e \in Decisions(log, proposal) : e <= d
<1> DEFINE decisions == Decisions(log, proposal)
<1>1. CASE decisions = {}
  BY <1>1 DEF Outcome
<1>2. CASE decisions # {}
  <2>1. decisions \in SUBSET EventIds
    BY DEF Decisions, Ids
  <2>2. IsFiniteSet(decisions) /\ decisions \in SUBSET Nat
    BY <2>1, ResolutionAssumption, FS_Subset
  <2>3. \E d \in decisions : \A e \in decisions : e <= d
    BY <1>2, <2>2, GreatestNatural
  <2> DEFINE d == CHOOSE d \in decisions : \A e \in decisions : e <= d
  <2>4. d \in decisions /\ \A e \in decisions : e <= d
    BY <2>3
  <2>5. Outcome(log, proposal) = log[d].outcome
    BY <1>2 DEF Outcome
  <2> QED  BY <2>4, <2>5
<1> QED  BY <1>1, <1>2

LEMMA KindsDiffer ==
  /\ \A e \in ProposedEvent : e \in Event /\ e \notin MergedEvent /\ e \notin RevertedEvent
  /\ \A e \in DecidedEvent : e \in Event /\ e \notin MergedEvent /\ e \notin RevertedEvent
  /\ \A e \in MergedEvent : e \in Event /\ e \notin RevertedEvent
  /\ \A e \in RevertedEvent : e \in Event /\ e \notin MergedEvent
  /\ None \notin MergedEvent /\ None \notin RevertedEvent
BY EventIsNotNone DEF Event, ProposedEvent, DecidedEvent, MergedEvent, RevertedEvent

LEMMA StartHolds ==
  ASSUME ReviewInv, NEW p \in Callers, Start(p)
  PROVE  TypeInv' /\ UNCHANGED events /\ Others(p) /\ CallerInv(events, pc'[p], call'[p])
<1>1. TypeInv /\ events \in Log
  BY DEF ReviewInv, TypeInv
<1>2. ASSUME NEW x \in Entities, NEW y \in Entities, Propose(p, x, y)
      PROVE  TypeInv' /\ UNCHANGED events /\ Others(p) /\ CallerInv(events, pc'[p], call'[p])
  <2> DEFINE event == [kind |-> "entity.resolution_proposed", source |-> x, candidate |-> y]
  <2>1. event \in ProposedEvent
    BY DEF ProposedEvent
  <2>2. Begin(p, event, "proposeRoots", {x, y})
    BY <1>2 DEF Propose
  <2> HIDE DEF event
  <2>3. CallerInv(events, "proposeRoots", event)
    BY <2>1, KindsDiffer DEF CallerInv, MergePlaces
  <2>4. "proposeRoots" \in Places /\ event \in Event
    BY <2>1, KindsDiffer DEF Places, ProposePlaces
  <2> QED  BY <1>1, <2>2, <2>3, <2>4, BeginFacts
<1>3. ASSUME NEW proposal \in EventIds, NEW outcome \in Outcomes, Decide(p, proposal, outcome)
      PROVE  TypeInv' /\ UNCHANGED events /\ Others(p) /\ CallerInv(events, pc'[p], call'[p])
  <2> DEFINE event == [kind |-> "entity.resolution_decided", proposal |-> proposal,
                       outcome |-> outcome]
  <2>1. event \in DecidedEvent
    BY DEF DecidedEvent
  <2>2. Begin(p, event, "decide", {})
    BY <1>3 DEF Decide
  <2> HIDE DEF event
  <2>3. CallerInv(events, "decide", event)
    BY <2>1, KindsDiffer DEF CallerInv, MergePlaces, ProposePlaces
  <2>4. "decide" \in Places /\ event \in Event
    BY <2>1, KindsDiffer DEF Places
  <2> QED  BY <1>1, <2>2, <2>3, <2>4, BeginFacts
<1>4. ASSUME NEW proposal \in EventIds, NEW x \in Entities, NEW y \in Entities,
             Merge(p, proposal, x, y)
      PROVE  TypeInv' /\ UNCHANGED events /\ Others(p) /\ CallerInv(events, pc'[p], call'[p])
  <2> DEFINE event == [kind |-> "entity.merged", absorbed |-> y, surviving |-> x,
                       proposal |-> proposal]
  <2>1. event \in MergedEvent /\ event.proposal = proposal
        /\ event.absorbed = y /\ event.surviving = x
    BY DEF MergedEvent
  <2>2. Begin(p, event, "mergeDecisions", {})
    BY <1>4 DEF Merge
  <2> HIDE DEF event
  <2>3. Reviewable(events, event)
    BY <1>4, <2>1 DEF Merge, Reviewable
  <2>4. CallerInv(events, "mergeDecisions", event)
    BY <2>1, <2>3, KindsDiffer DEF CallerInv, MergePlaces, ProposePlaces
  <2>5. "mergeDecisions" \in Places /\ event \in Event
    BY <2>1, KindsDiffer DEF Places, MergePlaces
  <2> QED  BY <1>1, <2>2, <2>4, <2>5, BeginFacts
<1>5. ASSUME NEW merge \in EventIds, RevertMerge(p, merge)
      PROVE  TypeInv' /\ UNCHANGED events /\ Others(p) /\ CallerInv(events, pc'[p], call'[p])
  <2> DEFINE event == [kind |-> "entity.merge_reverted", merge |-> merge]
  <2>1. event \in RevertedEvent /\ event.merge = merge
    BY DEF RevertedEvent
  <2>2. Begin(p, event, "revert", {}) /\ merge \in Merges(events)
    BY <1>5 DEF RevertMerge
  <2> HIDE DEF event
  <2>3. CallerInv(events, "revert", event)
    BY <2>1, <2>2, KindsDiffer DEF CallerInv, MergePlaces, ProposePlaces
  <2>4. "revert" \in Places /\ event \in Event
    BY <2>1, KindsDiffer DEF Places
  <2> QED  BY <1>1, <2>2, <2>3, <2>4, BeginFacts
<1> QED  BY <1>2, <1>3, <1>4, <1>5 DEF Start

LEMMA CheckHolds ==
  ASSUME ReviewInv, NEW p \in Callers, NEW passes \in BOOLEAN, NEW next \in Places, NEW check,
         NEW log \in Log, Check(p, passes, next, check, log),
         passes => CallerInv(events, next, call[p])
  PROVE  TypeInv' /\ UNCHANGED events /\ Others(p) /\ CallerInv(events, pc'[p], call'[p])
<1>1. TypeInv
  BY DEF ReviewInv
<1>2. /\ TypeInv' /\ UNCHANGED events /\ Others(p)
      /\ \/ passes /\ pc'[p] = next /\ call'[p] = call[p]
         \/ pc'[p] = "idle" /\ call'[p] = None
  BY <1>1, CheckFacts
<1>3. CallerInv(events, "idle", None)
  BY KindsDiffer DEF CallerInv, ProposePlaces, MergePlaces
<1> HIDE DEF CallerInv
<1> QED  BY <1>2, <1>3

LEMMA ContinueHolds ==
  ASSUME ReviewInv, NEW p \in Callers, Continue(p), \A i \in EventIds : ~Write(p, i)
  PROVE  TypeInv' /\ UNCHANGED events /\ Others(p) /\ CallerInv(events, pc'[p], call'[p])
<1>1. events \in Log /\ seen[p] \in Log /\ NoLog \in Log /\ CallerInv(events, pc[p], call[p])
  BY EmptyLog DEF ReviewInv, TypeInv
<1>2. /\ \A place \in ProposePlaces : place \in Places
      /\ \A place \in MergePlaces : place \in Places
      /\ "write" \in Places
  BY DEF Places
<1>3. ASSUME NEW x \in Entities, CheckRoot(p, x, "proposeRoots", "proposeEvents")
      PROVE  TypeInv' /\ UNCHANGED events /\ Others(p) /\ CallerInv(events, pc'[p], call'[p])
  <2> DEFINE more == toCheck[p] \ {x}
             next == IF more = {} THEN "proposeEvents" ELSE "proposeRoots"
  <2>1. Check(p, IsRoot(events, x), next, more, NoLog) /\ pc[p] = "proposeRoots"
    BY <1>3 DEF CheckRoot
  <2>2. next \in ProposePlaces
    BY DEF ProposePlaces
  <2>3. CallerInv(events, next, call[p])
    BY <1>1, <2>1, <2>2, KindsDiffer DEF CallerInv, ProposePlaces, MergePlaces
  <2>4. IsRoot(events, x) \in BOOLEAN
    BY DEF IsRoot
  <2> HIDE DEF next, more
  <2> QED  BY <1>1, <1>2, <2>1, <2>2, <2>3, <2>4, CheckHolds
<1>4. ASSUME NEW x \in Entities, CheckRoot(p, x, "mergeRoots", "mergeEvents")
      PROVE  TypeInv' /\ UNCHANGED events /\ Others(p) /\ CallerInv(events, pc'[p], call'[p])
  <2> DEFINE more == toCheck[p] \ {x}
             next == IF more = {} THEN "mergeEvents" ELSE "mergeRoots"
  <2>1. Check(p, IsRoot(events, x), next, more, NoLog) /\ pc[p] = "mergeRoots"
    BY <1>4 DEF CheckRoot
  <2>2. next \in MergePlaces
    BY DEF MergePlaces
  <2>3. CallerInv(events, next, call[p])
    BY <1>1, <2>1, <2>2, KindsDiffer DEF CallerInv, ProposePlaces, MergePlaces
  <2>4. IsRoot(events, x) \in BOOLEAN
    BY DEF IsRoot
  <2> HIDE DEF next, more
  <2> QED  BY <1>1, <1>2, <2>1, <2>2, <2>3, <2>4, CheckHolds
<1>5. ASSUME ProposeReadEvents(p)
      PROVE  TypeInv' /\ UNCHANGED events /\ Others(p) /\ CallerInv(events, pc'[p], call'[p])
  <2>1. Check(p, TRUE, "proposeList", {}, events) /\ pc[p] = "proposeEvents"
    BY <1>5 DEF ProposeReadEvents
  <2>2. "proposeList" \in Places /\ CallerInv(events, "proposeList", call[p])
    BY <1>1, <1>2, <2>1, KindsDiffer DEF CallerInv, ProposePlaces, MergePlaces
  <2> QED  BY <1>1, <2>1, <2>2, CheckHolds
<1>6. ASSUME ProposeListProposals(p)
      PROVE  TypeInv' /\ UNCHANGED events /\ Others(p) /\ CallerInv(events, pc'[p], call'[p])
  <2> DEFINE same == {i \in Proposals(events) : SamePair(events, i, call[p])}
             next == IF same = {} THEN "write" ELSE "proposeDecisions"
  <2>1. Check(p, TRUE, next, same, seen[p]) /\ pc[p] = "proposeList"
    BY <1>6 DEF ProposeListProposals
  <2>2. next \in Places /\ CallerInv(events, next, call[p])
    BY <1>1, <1>2, <2>1, KindsDiffer DEF CallerInv, ProposePlaces, MergePlaces
  <2> HIDE DEF next, same
  <2> QED  BY <1>1, <2>1, <2>2, CheckHolds
<1>7. ASSUME NEW proposal \in EventIds, ProposeReadDecisions(p, proposal)
      PROVE  TypeInv' /\ UNCHANGED events /\ Others(p) /\ CallerInv(events, pc'[p], call'[p])
  <2> DEFINE more == toCheck[p] \ {proposal}
             next == IF more = {} THEN "write" ELSE "proposeDecisions"
  <2>1. PICK merge : Check(p, Reopened(p, proposal, merge), next, more, seen[p])
    BY <1>7 DEF ProposeReadDecisions
  <2>2. pc[p] = "proposeDecisions"
    BY <1>7 DEF ProposeReadDecisions
  <2>3. next \in Places /\ CallerInv(events, next, call[p])
    BY <1>1, <1>2, <2>2, KindsDiffer DEF CallerInv, ProposePlaces, MergePlaces
  <2>4. Reopened(p, proposal, merge) \in BOOLEAN
    BY DEF Reopened
  <2> HIDE DEF next, more
  <2> QED  BY <1>1, <2>1, <2>3, <2>4, CheckHolds
<1>8. ASSUME DecideReadDecisions(p)
      PROVE  TypeInv' /\ UNCHANGED events /\ Others(p) /\ CallerInv(events, pc'[p], call'[p])
  <2>1. /\ Check(p, Decisions(events, call[p].proposal) = {}, "write", {}, NoLog)
        /\ pc[p] = "decide"
    BY <1>8 DEF DecideReadDecisions
  <2>2. CallerInv(events, "write", call[p])
    BY <1>1, <2>1, KindsDiffer DEF CallerInv, ProposePlaces, MergePlaces
  <2>3. (Decisions(events, call[p].proposal) = {}) \in BOOLEAN
    OBVIOUS
  <2> QED  BY <1>1, <1>2, <2>1, <2>2, <2>3, CheckHolds
<1>9. ASSUME MergeReadDecisions(p)
      PROVE  TypeInv' /\ UNCHANGED events /\ Others(p) /\ CallerInv(events, pc'[p], call'[p])
  <2> DEFINE roots == {call[p].surviving, call[p].absorbed}
             approved == Outcome(events, call[p].proposal) = "approved"
  <2>1. /\ Check(p, approved, "mergeRoots", roots, NoLog)
        /\ pc[p] = "mergeDecisions"
    BY <1>9 DEF MergeReadDecisions
  <2>2. approved => Approved(events, call[p])
    BY <1>1, OutcomeWasDecided DEF Approved
  <2>3. approved => CallerInv(events, "mergeRoots", call[p])
    BY <1>1, <2>1, <2>2, KindsDiffer DEF CallerInv, ProposePlaces, MergePlaces
  <2>4. approved \in BOOLEAN /\ "mergeRoots" \in Places
    BY <1>2 DEF MergePlaces
  <2> HIDE DEF approved, roots
  <2> QED  BY <1>1, <2>1, <2>3, <2>4, CheckHolds
<1>10. ASSUME MergeReadEvents(p)
       PROVE  TypeInv' /\ UNCHANGED events /\ Others(p) /\ CallerInv(events, pc'[p], call'[p])
  <2>1. /\ Check(p, MergesOf(events, call[p].proposal) = {}, "write", {}, NoLog)
        /\ pc[p] = "mergeEvents"
    BY <1>10 DEF MergeReadEvents
  <2>2. CallerInv(events, "write", call[p])
    BY <1>1, <2>1, KindsDiffer DEF CallerInv, ProposePlaces, MergePlaces
  <2>3. (MergesOf(events, call[p].proposal) = {}) \in BOOLEAN
    OBVIOUS
  <2> QED  BY <1>1, <1>2, <2>1, <2>2, <2>3, CheckHolds
<1>11. ASSUME RevertReadEvents(p)
       PROVE  TypeInv' /\ UNCHANGED events /\ Others(p) /\ CallerInv(events, pc'[p], call'[p])
  <2>1. /\ Check(p, Reverts(events, call[p].merge) = {}, "write", {}, NoLog)
        /\ pc[p] = "revert"
    BY <1>11 DEF RevertReadEvents
  <2>2. CallerInv(events, "write", call[p])
    BY <1>1, <2>1, KindsDiffer DEF CallerInv, ProposePlaces, MergePlaces
  <2>3. (Reverts(events, call[p].merge) = {}) \in BOOLEAN
    OBVIOUS
  <2> QED  BY <1>1, <1>2, <2>1, <2>2, <2>3, CheckHolds
<1> QED  BY <1>3, <1>4, <1>5, <1>6, <1>7, <1>8, <1>9, <1>10, <1>11 DEF Continue

LEMMA WriteHolds ==
  ASSUME ReviewInv, NEW p \in Callers, NEW i \in EventIds, Write(p, i)
  PROVE  /\ i \in Free(events) /\ call[p] \in Event /\ events' = Grown(events, i, call[p])
         /\ pc'[p] = "idle" /\ call'[p] = None /\ Others(p)
         /\ ReviewInv'
<1> DEFINE new == Grown(events, i, call[p])
<1>1. TypeInv /\ events \in Log /\ CallerInv(events, pc[p], call[p]) /\ LogInv(events)
  BY DEF ReviewInv, TypeInv
<1>2. i \in Free(events) /\ pc[p] = "write" /\ events' = new /\ Return(p)
  BY DEF Write, Grown
<1>3. call[p] \in Event
  BY <1>1, <1>2 DEF CallerInv
<1>4. /\ pc' \in [Callers -> Places] /\ pc'[p] = "idle"
      /\ DOMAIN toCheck' = Callers
      /\ seen' \in [Callers -> Log]
      /\ call' \in [Callers -> Event \cup {None}] /\ call'[p] = None
      /\ Others(p)
  BY <1>1, <1>2, ReturnFacts
<1>5. /\ new \in Log /\ new[i] = call[p]
      /\ \A j \in EventIds \ {i} : new[j] = events[j]
      /\ \A kind : /\ i \notin Ids(events, kind)
                   /\ Ids(new, kind) = IF call[p].kind = kind THEN Ids(events, kind) \cup {i}
                                       ELSE Ids(events, kind)
      /\ Proposals(events) \subseteq Proposals(new)
      /\ Merges(events) \subseteq Merges(new)
      /\ \A proposal : Decisions(events, proposal) \subseteq Decisions(new, proposal)
  BY <1>1, <1>2, <1>3, GrownFacts, Zenon
<1>6. \A merge : /\ Reviewable(events, merge) => Reviewable(new, merge)
                 /\ Approved(events, merge) => Approved(new, merge)
  BY <1>1, <1>2, <1>3, StaysReviewed
<1> HIDE DEF new
<1>7. TypeInv'
  BY <1>2, <1>4, <1>5 DEF TypeInv
<1>8. ASSUME NEW q \in Callers PROVE CallerInv(new, pc'[q], call'[q])
  <2>1. CASE q = p
    BY <1>4, <2>1, KindsDiffer DEF CallerInv, ProposePlaces, MergePlaces
  <2>2. CASE q # p
    <3>1. CallerInv(events, pc[q], call[q]) /\ pc'[q] = pc[q] /\ call'[q] = call[q]
      BY <1>4, <2>2 DEF ReviewInv, Others
    <3> QED  BY <1>5, <1>6, <3>1 DEF CallerInv
  <2> QED  BY <2>1, <2>2
<1>9. ASSUME NEW j \in Merges(new) PROVE Reviewable(new, new[j]) /\ Approved(new, new[j])
  <2>1. CASE j \in Merges(events)
    <3>1. j # i /\ j \in EventIds
      BY <1>5, <2>1 DEF Merges, Ids
    <3> QED  BY <1>1, <1>5, <1>6, <2>1, <3>1 DEF LogInv
  <2>2. CASE j \notin Merges(events)
    <3>1. j = i
      BY <1>5, <2>2 DEF Merges
    <3>2. call[p] \in MergedEvent
      BY <1>5, <3>1, EventKinds
    <3> QED  BY <1>1, <1>2, <1>5, <1>6, <3>1, <3>2 DEF CallerInv
  <2> QED  BY <2>1, <2>2
<1>10. ASSUME NEW j \in Ids(new, "entity.merge_reverted") PROVE new[j].merge \in Merges(new)
  <2>1. CASE j \in Ids(events, "entity.merge_reverted")
    <3>1. j # i /\ j \in EventIds
      BY <1>5, <2>1 DEF Ids
    <3> QED  BY <1>1, <1>5, <2>1, <3>1 DEF LogInv
  <2>2. CASE j \notin Ids(events, "entity.merge_reverted")
    <3>1. j = i
      BY <1>5, <2>2
    <3>2. call[p] \in RevertedEvent
      BY <1>5, <3>1, EventKinds
    <3> QED  BY <1>1, <1>2, <1>5, <3>1, <3>2 DEF CallerInv
  <2> QED  BY <2>1, <2>2
<1>11. LogInv(new)
  BY <1>9, <1>10 DEF LogInv
<1>12. ReviewInv'
  BY <1>2, <1>7, <1>8, <1>11 DEF ReviewInv
<1> QED  BY <1>2, <1>3, <1>4, <1>12 DEF new

LEMMA ReviewStep == ReviewInv /\ [Next]_vars => ReviewInv'
<1> SUFFICES ASSUME ReviewInv, [Next]_vars PROVE ReviewInv'
  OBVIOUS
<1>1. ASSUME NEW p \in Callers,
             TypeInv', UNCHANGED events, Others(p), CallerInv(events, pc'[p], call'[p])
      PROVE  ReviewInv'
  <2>1. ASSUME NEW q \in Callers PROVE CallerInv(events, pc'[q], call'[q])
    BY <1>1 DEF ReviewInv, Others
  <2>2. events' = events /\ LogInv(events)
    BY <1>1 DEF ReviewInv
  <2> QED  BY <1>1, <2>1, <2>2 DEF ReviewInv
<1>2. ASSUME NEW p \in Callers, Start(p) PROVE ReviewInv'
  BY <1>1, <1>2, StartHolds
<1>3. ASSUME NEW p \in Callers, Continue(p) PROVE ReviewInv'
  BY <1>1, <1>3, ContinueHolds, WriteHolds
<1>4. CASE UNCHANGED vars
  <2>1. events' = events /\ pc' = pc /\ call' = call /\ toCheck' = toCheck /\ seen' = seen
    BY <1>4 DEF vars
  <2> QED  BY <2>1 DEF ReviewInv, TypeInv
<1> QED  BY <1>2, <1>3, <1>4 DEF Next

LEMMA NothingLogged ==
  /\ \A kind : Ids(NoLog, kind) = {}
  /\ Proposals(NoLog) = {} /\ Merges(NoLog) = {} /\ activeMerges(NoLog) = {}
BY DEF Ids, NoLog, Proposals, Merges, activeMerges

LEMMA ReviewInit == Init => ReviewInv
<1> SUFFICES ASSUME Init PROVE ReviewInv
  OBVIOUS
<1>1. TypeInv
  BY EmptyLog DEF Init, TypeInv, Places
<1>2. \A p \in Callers : CallerInv(events, pc[p], call[p])
  BY KindsDiffer DEF Init, CallerInv, ProposePlaces, MergePlaces
<1>3. LogInv(events)
  BY NothingLogged DEF Init, LogInv
<1> QED  BY <1>1, <1>2, <1>3 DEF ReviewInv

LEMMA ReviewHolds == Spec => []ReviewInv
BY ReviewInit, ReviewStep, PTL DEF Spec

(* However many callers race, and whatever the order of their clocks: a    *)
(* merge in the log is of the pair of a proposal in the log, and some      *)
(* decision approved it. mergeApprovedEntityResolution reads the decision  *)
(* long before its transaction, but events never go away.                  *)
THEOREM MergesReviewed == Spec => []MergesWereApproved
<1>1. ReviewInv => MergesWereApproved
  BY DEF ReviewInv, LogInv, Reviewable, Approved, MergesWereApproved
<1> QED  BY <1>1, ReviewHolds, PTL

(* Whatever the log, with cycles or without, the knowledge capability      *)
(* resolves an entity to what the projection resolves it to, or throws.    *)
THEOREM ResolversAlwaysAgree == Spec => []ResolversAgree
<1>1. ReviewInv => ResolversAgree
  <2> SUFFICES ASSUME ReviewInv, NEW x \in Entities
               PROVE  Redirects!canonicalEntityIdFromEvents(events, x) \in
                        {None, Redirects!canonicalEntityResolver(events, x)}
    BY DEF ResolversAgree
  <2>1. Redirecting(Redirects!redirects(events))
    BY RedirectsOfLog DEF ReviewInv, TypeInv
  <2> QED  BY <2>1, ResolversAgreeOn
             DEF Redirects!canonicalEntityIdFromEvents, Redirects!canonicalEntityResolver
<1> QED  BY <1>1, ReviewHolds, PTL

-----------------------------------------------------------------------------
(* Serial operations. Nothing changes between the checks of an operation   *)
(* and its transaction, so what was checked holds when the event is        *)
(* appended (Ready), and while it is appended the log stays one of single  *)
(* reviews (OnceInv) whose active merges are a forest (ForestInv).         *)

Unabsorbed(log, x) == \A i \in activeMerges(log) : log[i].absorbed # x

OnceInv(log) ==
  /\ \A d, e \in Ids(log, "entity.resolution_decided") :
       log[d].proposal = log[e].proposal => d = e
  /\ \A d, e \in Merges(log) : log[d].proposal = log[e].proposal => d = e
  /\ \A d, e \in Ids(log, "entity.merge_reverted") : log[d].merge = log[e].merge => d = e
  /\ \A i, j \in Proposals(log) :
       /\ Open(log, i) /\ Open(log, j)
       /\ {log[i].source, log[i].candidate} = {log[j].source, log[j].candidate}
       => i = j

ForestInv(log) ==
  /\ \E rank \in [Entities -> Nat] : \A i \in activeMerges(log) :
       rank[log[i].surviving] < rank[log[i].absorbed]
  /\ \A i, j \in activeMerges(log) : log[i].absorbed = log[j].absorbed => i = j

Ready(log, event) ==
  /\ event \in ProposedEvent =>
       \A i \in Proposals(log) : SamePair(log, i, event) => ~Open(log, i)
  /\ event \in DecidedEvent => Decisions(log, event.proposal) = {}
  /\ event \in MergedEvent => /\ MergesOf(log, event.proposal) = {}
                              /\ Unabsorbed(log, event.absorbed)
                              /\ Unabsorbed(log, event.surviving)
  /\ event \in RevertedEvent => Reverts(log, event.merge) = {}

CheckedInv(log, place, event, left, read) ==
  /\ place \in {"proposeList", "proposeDecisions"} => read = log
  /\ place = "proposeDecisions" =>
       \A i \in Proposals(log) : SamePair(log, i, event) => i \in left \/ ~Open(log, i)
  /\ place = "mergeRoots" =>
       \A x \in {event.surviving, event.absorbed} : x \in left \/ Unabsorbed(log, x)
  /\ place = "mergeEvents" => Unabsorbed(log, event.absorbed) /\ Unabsorbed(log, event.surviving)
  /\ place = "write" => Ready(log, event)

SerialInv ==
  /\ OnceInv(events)
  /\ ForestInv(events)
  /\ \A p \in Callers : CheckedInv(events, pc[p], call[p], toCheck[p], seen[p])

(* In a forest every merge counts, and the chain of an entity ends.        *)
LEMMA ForestRedirects ==
  ASSUME NEW log \in Log, ForestInv(log)
  PROVE  LET to == Redirects!redirects(log)
         IN  /\ Redirecting(to)
             /\ DOMAIN to = {log[i].absorbed : i \in activeMerges(log)}
             /\ \A i \in activeMerges(log) : to[log[i].absorbed] = log[i].surviving
             /\ \E rank : Ranked(to, rank)
<1> DEFINE to == Redirects!redirects(log)
           active == activeMerges(log)
<1>1. /\ Redirecting(to)
      /\ DOMAIN to = {log[i].absorbed : i \in active}
      /\ \A x \in DOMAIN to : \E i \in active : log[i].absorbed = x /\ to[x] = log[i].surviving
  BY RedirectsOfLog
<1> HIDE DEF to
<1>2. \A i \in active : to[log[i].absorbed] = log[i].surviving
  BY <1>1 DEF ForestInv
<1>3. PICK rank \in [Entities -> Nat] :
             \A i \in active : rank[log[i].surviving] < rank[log[i].absorbed]
  BY DEF ForestInv
<1>4. Ranked(to, rank)
  BY <1>1, <1>3 DEF Ranked
<1> QED  BY <1>1, <1>2, <1>4 DEF to

LEMMA CanonicalStands ==
  ASSUME NEW log, NEW x
  PROVE  Canonical(log, x) = Stands(Redirects!redirects(log), x)
BY DEF Canonical, Stands, Redirects!canonicalEntityIdFromEvents

LEMMA RootIsUnabsorbed ==
  ASSUME NEW log \in Log, ForestInv(log), NEW x \in Entities, IsRoot(log, x)
  PROVE  Unabsorbed(log, x)
<1> DEFINE to == Redirects!redirects(log)
<1>1. /\ Redirecting(to)
      /\ DOMAIN to = {log[i].absorbed : i \in activeMerges(log)}
      /\ \E rank : Ranked(to, rank)
  BY ForestRedirects
<1>2. Stands(to, x) = x
  BY CanonicalStands DEF IsRoot, Canonical
<1> HIDE DEF to
<1>3. x \notin DOMAIN to
  BY <1>1, <1>2, StandsForRoot
<1> QED  BY <1>1, <1>3 DEF Unabsorbed

LEMMA StartIsNotChecked ==
  ASSUME TypeInv, NEW p \in Callers, Start(p)
  PROVE  pc'[p] \in {"proposeRoots", "decide", "mergeDecisions", "revert"}
<1>1. \A event, next, check : Begin(p, event, next, check) => pc'[p] = next
  BY DEF Begin, Goto, TypeInv
<1> QED  BY <1>1 DEF Start, Propose, Decide, Merge, RevertMerge

(* A check that passes.                                                    *)
LEMMA CheckIsRecorded ==
  ASSUME ReviewInv, NEW p \in Callers, NEW passes \in BOOLEAN, NEW next \in Places, NEW check,
         NEW log \in Log, Check(p, passes, next, check, log),
         passes => CheckedInv(events, next, call[p], check, log)
  PROVE  CheckedInv(events, pc'[p], call'[p], toCheck'[p], seen'[p])
<1>1. TypeInv
  BY DEF ReviewInv
<1>2. \/ /\ passes
         /\ pc'[p] = next /\ call'[p] = call[p] /\ toCheck'[p] = check /\ seen'[p] = log
      \/ pc'[p] = "idle"
  BY <1>1, CheckFacts
<1>3. \A event, left, read : CheckedInv(events, "idle", event, left, read)
  BY DEF CheckedInv
<1> HIDE DEF CheckedInv
<1> QED  BY <1>2, <1>3

(* A proposal seen as one that may be made again is not open.              *)
LEMMA ReopenedIsClosed ==
  ASSUME ReviewInv, SerialInv, NEW p \in Callers, pc[p] = "proposeDecisions",
         NEW proposal, NEW merge,
         merge = None \/ merge \in MergesOf(seen[p], proposal),
         Reopened(p, proposal, merge)
  PROVE  ~Open(events, proposal)
<1>1. seen[p] = events
  BY DEF SerialInv, CheckedInv
<1>2. CASE Outcome(events, proposal) = "rejected"
  BY <1>2 DEF Open
<1>3. CASE merge # None /\ Reverts(seen[p], merge) # {}
  <2>1. merge \in MergesOf(events, proposal) /\ merge \notin activeMerges(events)
    BY <1>1, <1>3 DEF activeMerges
  <2>2. \A d, e \in Merges(events) : events[d].proposal = events[e].proposal => d = e
    BY DEF SerialInv, OnceInv
  <2>3. MergesOf(events, proposal) = {merge}
    BY <2>1, <2>2 DEF MergesOf
  <2> QED  BY <2>1, <2>3 DEF Open
<1> QED  BY <1>2, <1>3 DEF Reopened

LEMMA ChecksHold ==
  ASSUME ReviewInv, SerialInv, NEW p \in Callers, Continue(p), \A i \in EventIds : ~Write(p, i)
  PROVE  CheckedInv(events, pc'[p], call'[p], toCheck'[p], seen'[p])
<1>1. /\ events \in Log /\ seen[p] \in Log /\ NoLog \in Log
      /\ CallerInv(events, pc[p], call[p])
      /\ CheckedInv(events, pc[p], call[p], toCheck[p], seen[p])
      /\ ForestInv(events)
  BY EmptyLog DEF ReviewInv, TypeInv, SerialInv
<1>2. /\ \A place \in ProposePlaces : place \in Places
      /\ \A place \in MergePlaces : place \in Places
      /\ "write" \in Places
  BY DEF Places
<1>3. ASSUME NEW x \in Entities, CheckRoot(p, x, "proposeRoots", "proposeEvents")
      PROVE  CheckedInv(events, pc'[p], call'[p], toCheck'[p], seen'[p])
  <2> DEFINE more == toCheck[p] \ {x}
             next == IF more = {} THEN "proposeEvents" ELSE "proposeRoots"
  <2>1. Check(p, IsRoot(events, x), next, more, NoLog)
    BY <1>3 DEF CheckRoot
  <2>2. next \in ProposePlaces
    BY DEF ProposePlaces
  <2>3. CheckedInv(events, next, call[p], more, NoLog)
    BY DEF CheckedInv
  <2>4. IsRoot(events, x) \in BOOLEAN
    BY DEF IsRoot
  <2> HIDE DEF next, more
  <2> QED  BY <1>1, <1>2, <2>1, <2>2, <2>3, <2>4, CheckIsRecorded
<1>4. ASSUME NEW x \in Entities, CheckRoot(p, x, "mergeRoots", "mergeEvents")
      PROVE  CheckedInv(events, pc'[p], call'[p], toCheck'[p], seen'[p])
  <2> DEFINE more == toCheck[p] \ {x}
             next == IF more = {} THEN "mergeEvents" ELSE "mergeRoots"
  <2>1. Check(p, IsRoot(events, x), next, more, NoLog) /\ pc[p] = "mergeRoots"
    BY <1>4 DEF CheckRoot
  <2>2. next \in Places
    BY <1>2 DEF MergePlaces
  <2>3. \A y \in {call[p].surviving, call[p].absorbed} : y \in toCheck[p] \/ Unabsorbed(events, y)
    BY <1>1, <2>1 DEF CheckedInv
  <2>4. IsRoot(events, x) => Unabsorbed(events, x)
    BY <1>1, RootIsUnabsorbed
  <2>5. IsRoot(events, x) =>
          \A y \in {call[p].surviving, call[p].absorbed} : y \in more \/ Unabsorbed(events, y)
    BY <2>3, <2>4
  <2>6. IsRoot(events, x) => CheckedInv(events, next, call[p], more, NoLog)
    BY <2>5 DEF CheckedInv
  <2>7. IsRoot(events, x) \in BOOLEAN
    BY DEF IsRoot
  <2> HIDE DEF next, more
  <2> QED  BY <1>1, <2>1, <2>2, <2>6, <2>7, CheckIsRecorded
<1>5. ASSUME ProposeReadEvents(p)
      PROVE  CheckedInv(events, pc'[p], call'[p], toCheck'[p], seen'[p])
  <2>1. Check(p, TRUE, "proposeList", {}, events)
    BY <1>5 DEF ProposeReadEvents
  <2>2. "proposeList" \in Places /\ CheckedInv(events, "proposeList", call[p], {}, events)
    BY <1>2 DEF CheckedInv, ProposePlaces
  <2> QED  BY <1>1, <2>1, <2>2, CheckIsRecorded
<1>6. ASSUME ProposeListProposals(p)
      PROVE  CheckedInv(events, pc'[p], call'[p], toCheck'[p], seen'[p])
  <2> DEFINE same == {i \in Proposals(events) : SamePair(events, i, call[p])}
             next == IF same = {} THEN "write" ELSE "proposeDecisions"
  <2>1. Check(p, TRUE, next, same, seen[p]) /\ pc[p] = "proposeList"
    BY <1>6 DEF ProposeListProposals
  <2>2. next \in Places
    BY <1>2 DEF ProposePlaces
  <2>3. seen[p] = events /\ call[p] \in ProposedEvent
    BY <1>1, <2>1 DEF CheckedInv, CallerInv, ProposePlaces
  <2>4. same = {} => Ready(events, call[p])
    BY <2>3 DEF Ready, ProposedEvent, DecidedEvent, MergedEvent, RevertedEvent
  <2>5. CheckedInv(events, next, call[p], same, seen[p])
    BY <2>3, <2>4 DEF CheckedInv
  <2> HIDE DEF next, same
  <2> QED  BY <1>1, <2>1, <2>2, <2>5, CheckIsRecorded
<1>7. ASSUME NEW proposal \in EventIds, ProposeReadDecisions(p, proposal)
      PROVE  CheckedInv(events, pc'[p], call'[p], toCheck'[p], seen'[p])
  <2> DEFINE more == toCheck[p] \ {proposal}
             next == IF more = {} THEN "write" ELSE "proposeDecisions"
  <2>1. PICK merge : /\ merge = None \/ merge \in MergesOf(seen[p], proposal)
                     /\ Check(p, Reopened(p, proposal, merge), next, more, seen[p])
    BY <1>7 DEF ProposeReadDecisions
  <2>2. pc[p] = "proposeDecisions"
    BY <1>7 DEF ProposeReadDecisions
  <2>3. next \in Places
    BY <1>2 DEF ProposePlaces
  <2>4. /\ seen[p] = events /\ call[p] \in ProposedEvent
        /\ \A i \in Proposals(events) :
             SamePair(events, i, call[p]) => i \in toCheck[p] \/ ~Open(events, i)
    BY <1>1, <2>2 DEF CheckedInv, CallerInv, ProposePlaces
  <2>5. Reopened(p, proposal, merge) => ~Open(events, proposal)
    BY <2>1, <2>2, ReopenedIsClosed
  <2>6. Reopened(p, proposal, merge) =>
          \A i \in Proposals(events) :
            SamePair(events, i, call[p]) => i \in more \/ ~Open(events, i)
    BY <2>4, <2>5
  <2>7. Reopened(p, proposal, merge) /\ more = {} => Ready(events, call[p])
    BY <2>4, <2>6 DEF Ready, ProposedEvent, DecidedEvent, MergedEvent, RevertedEvent
  <2>8. Reopened(p, proposal, merge) => CheckedInv(events, next, call[p], more, seen[p])
    BY <2>4, <2>6, <2>7 DEF CheckedInv
  <2>9. Reopened(p, proposal, merge) \in BOOLEAN
    BY DEF Reopened
  <2> HIDE DEF next, more
  <2> QED  BY <1>1, <2>1, <2>3, <2>8, <2>9, CheckIsRecorded
<1>8. ASSUME DecideReadDecisions(p)
      PROVE  CheckedInv(events, pc'[p], call'[p], toCheck'[p], seen'[p])
  <2> DEFINE first == Decisions(events, call[p].proposal) = {}
  <2>1. Check(p, first, "write", {}, NoLog) /\ pc[p] = "decide"
    BY <1>8 DEF DecideReadDecisions
  <2>2. call[p] \in DecidedEvent
    BY <1>1, <2>1 DEF CallerInv
  <2>3. first => Ready(events, call[p])
    BY <2>2 DEF Ready, ProposedEvent, DecidedEvent, MergedEvent, RevertedEvent
  <2>4. first => CheckedInv(events, "write", call[p], {}, NoLog)
    BY <2>3 DEF CheckedInv
  <2>5. first \in BOOLEAN
    OBVIOUS
  <2> HIDE DEF first
  <2> QED  BY <1>1, <1>2, <2>1, <2>4, <2>5, CheckIsRecorded
<1>9. ASSUME MergeReadDecisions(p)
      PROVE  CheckedInv(events, pc'[p], call'[p], toCheck'[p], seen'[p])
  <2> DEFINE roots == {call[p].surviving, call[p].absorbed}
             approved == Outcome(events, call[p].proposal) = "approved"
  <2>1. Check(p, approved, "mergeRoots", roots, NoLog)
    BY <1>9 DEF MergeReadDecisions
  <2>2. CheckedInv(events, "mergeRoots", call[p], roots, NoLog)
    BY DEF CheckedInv
  <2>3. approved \in BOOLEAN /\ "mergeRoots" \in Places
    BY <1>2 DEF MergePlaces
  <2> HIDE DEF approved, roots
  <2> QED  BY <1>1, <2>1, <2>2, <2>3, CheckIsRecorded
<1>10. ASSUME MergeReadEvents(p)
       PROVE  CheckedInv(events, pc'[p], call'[p], toCheck'[p], seen'[p])
  <2> DEFINE first == MergesOf(events, call[p].proposal) = {}
  <2>1. Check(p, first, "write", {}, NoLog) /\ pc[p] = "mergeEvents"
    BY <1>10 DEF MergeReadEvents
  <2>2. /\ call[p] \in MergedEvent
        /\ Unabsorbed(events, call[p].absorbed) /\ Unabsorbed(events, call[p].surviving)
    BY <1>1, <2>1 DEF CallerInv, CheckedInv, MergePlaces
  <2>3. first => Ready(events, call[p])
    BY <2>2 DEF Ready, ProposedEvent, DecidedEvent, MergedEvent, RevertedEvent
  <2>4. first => CheckedInv(events, "write", call[p], {}, NoLog)
    BY <2>3 DEF CheckedInv
  <2>5. first \in BOOLEAN
    OBVIOUS
  <2> HIDE DEF first
  <2> QED  BY <1>1, <1>2, <2>1, <2>4, <2>5, CheckIsRecorded
<1>11. ASSUME RevertReadEvents(p)
       PROVE  CheckedInv(events, pc'[p], call'[p], toCheck'[p], seen'[p])
  <2> DEFINE first == Reverts(events, call[p].merge) = {}
  <2>1. Check(p, first, "write", {}, NoLog) /\ pc[p] = "revert"
    BY <1>11 DEF RevertReadEvents
  <2>2. call[p] \in RevertedEvent
    BY <1>1, <2>1 DEF CallerInv
  <2>3. first => Ready(events, call[p])
    BY <2>2 DEF Ready, ProposedEvent, DecidedEvent, MergedEvent, RevertedEvent
  <2>4. first => CheckedInv(events, "write", call[p], {}, NoLog)
    BY <2>3 DEF CheckedInv
  <2>5. first \in BOOLEAN
    OBVIOUS
  <2> HIDE DEF first
  <2> QED  BY <1>1, <1>2, <2>1, <2>4, <2>5, CheckIsRecorded
<1> QED  BY <1>3, <1>4, <1>5, <1>6, <1>7, <1>8, <1>9, <1>10, <1>11 DEF Continue

(* What an appended event adds to what a log says.                         *)
LEMMA GrownReads ==
  ASSUME NEW log \in Log, NEW i \in Free(log), NEW event \in Event
  PROVE  LET new == Grown(log, i, event)
         IN  /\ \A q : Decisions(new, q) = IF event \in DecidedEvent /\ event.proposal = q
                                           THEN Decisions(log, q) \cup {i} ELSE Decisions(log, q)
             /\ \A q : MergesOf(new, q) = IF event \in MergedEvent /\ event.proposal = q
                                          THEN MergesOf(log, q) \cup {i} ELSE MergesOf(log, q)
             /\ \A m : Reverts(new, m) = IF event \in RevertedEvent /\ event.merge = m
                                         THEN Reverts(log, m) \cup {i} ELSE Reverts(log, m)
<1> DEFINE new == Grown(log, i, event)
<1>1. /\ new[i] = event
      /\ \A j \in EventIds \ {i} : new[j] = log[j]
      /\ \A kind : /\ i \notin Ids(log, kind)
                   /\ Ids(new, kind) = IF event.kind = kind THEN Ids(log, kind) \cup {i}
                                       ELSE Ids(log, kind)
  BY GrownFacts
<1>2. \A kind : \A j \in Ids(log, kind) : new[j] = log[j]
  BY <1>1 DEF Ids
<1>3. /\ event \in DecidedEvent <=> event.kind = "entity.resolution_decided"
      /\ event \in MergedEvent <=> event.kind = "entity.merged"
      /\ event \in RevertedEvent <=> event.kind = "entity.merge_reverted"
  BY DEF Event, ProposedEvent, DecidedEvent, MergedEvent, RevertedEvent
<1> HIDE DEF new
<1>4. \A q : Decisions(new, q) = IF event \in DecidedEvent /\ event.proposal = q
                                 THEN Decisions(log, q) \cup {i} ELSE Decisions(log, q)
  BY <1>1, <1>2, <1>3 DEF Decisions
<1>5. \A q : MergesOf(new, q) = IF event \in MergedEvent /\ event.proposal = q
                                THEN MergesOf(log, q) \cup {i} ELSE MergesOf(log, q)
  BY <1>1, <1>2, <1>3 DEF MergesOf, Merges
<1>6. \A m : Reverts(new, m) = IF event \in RevertedEvent /\ event.merge = m
                               THEN Reverts(log, m) \cup {i} ELSE Reverts(log, m)
  BY <1>1, <1>2, <1>3 DEF Reverts
<1> QED  BY <1>4, <1>5, <1>6 DEF new

LEMMA GrownActive ==
  ASSUME NEW log \in Log, NEW i \in Free(log), NEW event \in Event, LogInv(log)
  PROVE  LET new == Grown(log, i, event)
         IN  activeMerges(new) = IF event \in MergedEvent THEN activeMerges(log) \cup {i}
                                 ELSE IF event \in RevertedEvent
                                      THEN activeMerges(log) \ {event.merge}
                                      ELSE activeMerges(log)
<1> DEFINE new == Grown(log, i, event)
<1>1. \A kind : /\ i \notin Ids(log, kind)
                /\ Ids(new, kind) = IF event.kind = kind THEN Ids(log, kind) \cup {i}
                                    ELSE Ids(log, kind)
  BY GrownFacts
<1>2. \A m : Reverts(new, m) = IF event \in RevertedEvent /\ event.merge = m
                               THEN Reverts(log, m) \cup {i} ELSE Reverts(log, m)
  BY GrownReads
<1>3. /\ event \in MergedEvent => event \notin RevertedEvent
      /\ event \in MergedEvent <=> event.kind = "entity.merged"
  BY DEF Event, ProposedEvent, DecidedEvent, MergedEvent, RevertedEvent
<1> HIDE DEF new
<1>4. Merges(new) = IF event \in MergedEvent THEN Merges(log) \cup {i} ELSE Merges(log)
  BY <1>1, <1>3 DEF Merges
<1>5. i \notin Merges(log) /\ Reverts(log, i) = {}
  BY <1>1 DEF LogInv, Merges, Reverts
<1>6. CASE event \in MergedEvent
  BY <1>2, <1>3, <1>4, <1>5, <1>6 DEF activeMerges, new
<1>7. CASE event \in RevertedEvent
  BY <1>2, <1>3, <1>4, <1>7 DEF activeMerges, new
<1>8. CASE event \notin MergedEvent /\ event \notin RevertedEvent
  BY <1>2, <1>4, <1>8 DEF activeMerges, new
<1> QED  BY <1>3, <1>6, <1>7, <1>8 DEF new

(* An event that was ready opens no proposal but its own.                  *)
LEMMA GrownOpen ==
  ASSUME NEW log \in Log, NEW i \in Free(log), NEW event \in Event, LogInv(log),
         Ready(log, event), NEW j \in Proposals(log), Open(Grown(log, i, event), j)
  PROVE  Open(log, j)
<1> DEFINE new == Grown(log, i, event)
<1>1. \A q : Decisions(new, q) = IF event \in DecidedEvent /\ event.proposal = q
                                 THEN Decisions(log, q) \cup {i} ELSE Decisions(log, q)
  BY GrownReads
<1>2. \A q : MergesOf(new, q) = IF event \in MergedEvent /\ event.proposal = q
                                THEN MergesOf(log, q) \cup {i} ELSE MergesOf(log, q)
  BY GrownReads
<1>3. activeMerges(new) = IF event \in MergedEvent THEN activeMerges(log) \cup {i}
                          ELSE IF event \in RevertedEvent
                               THEN activeMerges(log) \ {event.merge}
                               ELSE activeMerges(log)
  BY GrownActive
<1>4. /\ \A k \in EventIds \ {i} : new[k] = log[k]
      /\ \A kind : i \notin Ids(log, kind)
  BY GrownFacts
<1>5. \A d \in Decisions(log, j) : new[d] = log[d]
  BY <1>4 DEF Decisions, Ids
<1> HIDE DEF new
<1>6. Outcome(log, j) # "rejected"
  <2>1. CASE Decisions(log, j) = {}
    BY <2>1 DEF Outcome
  <2>2. CASE Decisions(log, j) # {}
    <3>1. ~(event \in DecidedEvent /\ event.proposal = j)
      BY <2>2 DEF Ready
    <3>2. Decisions(new, j) = Decisions(log, j)
      BY <1>1, <3>1
    <3> DEFINE last(ds) == CHOOSE d \in ds : \A e \in ds : e <= d
    <3>3. PICK d \in Decisions(log, j) :
            Outcome(log, j) = log[d].outcome /\ \A e \in Decisions(log, j) : e <= d
      BY <2>2, OutcomeWasDecided
    <3>4. last(Decisions(log, j)) \in Decisions(log, j)
      BY <3>3
    <3>5. Outcome(new, j) = new[last(Decisions(log, j))].outcome
      BY <2>2, <3>2 DEF Outcome
    <3>6. Outcome(log, j) = log[last(Decisions(log, j))].outcome
      BY <2>2 DEF Outcome
    <3>7. Outcome(new, j) = Outcome(log, j)
      <4> HIDE DEF last
      <4> QED  BY <1>5, <3>4, <3>5, <3>6
    <3> QED  BY <3>7 DEF Open, new
  <2> QED  BY <2>1, <2>2
<1>7. MergesOf(log, j) = {} \/ MergesOf(log, j) \cap activeMerges(log) # {}
  <2>1. MergesOf(new, j) = {} \/ MergesOf(new, j) \cap activeMerges(new) # {}
    BY DEF Open, new
  <2>2. i \notin MergesOf(log, j)
    BY <1>4 DEF MergesOf, Merges
  <2>3. CASE event \in MergedEvent /\ event.proposal = j
    BY <2>3 DEF Ready
  <2>4. CASE ~(event \in MergedEvent /\ event.proposal = j)
    <3>1. MergesOf(new, j) = MergesOf(log, j)
      BY <1>2, <2>4
    <3>2. activeMerges(new) \subseteq activeMerges(log) \cup {i}
      BY <1>3
    <3> QED  BY <2>1, <2>2, <3>1, <3>2
  <2> QED  BY <2>3, <2>4
<1> QED  BY <1>6, <1>7 DEF Open

LEMMA GrownOnce ==
  ASSUME NEW log \in Log, NEW i \in Free(log), NEW event \in Event, LogInv(log),
         Ready(log, event), OnceInv(log)
  PROVE  OnceInv(Grown(log, i, event))
<1> DEFINE new == Grown(log, i, event)
<1>1. /\ new[i] = event
      /\ \A j \in EventIds \ {i} : new[j] = log[j]
      /\ \A kind : /\ i \notin Ids(log, kind)
                   /\ Ids(new, kind) = IF event.kind = kind THEN Ids(log, kind) \cup {i}
                                       ELSE Ids(log, kind)
  BY GrownFacts
<1>2. \A kind : \A j \in Ids(log, kind) : new[j] = log[j]
  BY <1>1 DEF Ids
<1>3. /\ event.kind = "entity.resolution_proposed" => event \in ProposedEvent
      /\ event.kind = "entity.resolution_decided" => event \in DecidedEvent
      /\ event.kind = "entity.merged" => event \in MergedEvent
      /\ event.kind = "entity.merge_reverted" => event \in RevertedEvent
  BY DEF Event, ProposedEvent, DecidedEvent, MergedEvent, RevertedEvent
<1>4. \A j \in Proposals(log) : Open(new, j) => Open(log, j)
  BY GrownOpen
<1> HIDE DEF new
<1>5. \A d, e \in Ids(new, "entity.resolution_decided") :
        new[d].proposal = new[e].proposal => d = e
  <2>1. \A d, e \in Ids(log, "entity.resolution_decided") :
          log[d].proposal = log[e].proposal => d = e
    BY DEF OnceInv
  <2>2. event.kind = "entity.resolution_decided" =>
          \A d \in Ids(log, "entity.resolution_decided") : log[d].proposal # event.proposal
    BY <1>3 DEF Ready, Decisions
  <2> QED  BY <1>1, <1>2, <2>1, <2>2
<1>6. \A d, e \in Merges(new) : new[d].proposal = new[e].proposal => d = e
  <2>1. \A d, e \in Merges(log) : log[d].proposal = log[e].proposal => d = e
    BY DEF OnceInv
  <2>2. event.kind = "entity.merged" => \A d \in Merges(log) : log[d].proposal # event.proposal
    BY <1>3 DEF Ready, MergesOf
  <2> QED  BY <1>1, <1>2, <2>1, <2>2 DEF Merges
<1>7. \A d, e \in Ids(new, "entity.merge_reverted") : new[d].merge = new[e].merge => d = e
  <2>1. \A d, e \in Ids(log, "entity.merge_reverted") : log[d].merge = log[e].merge => d = e
    BY DEF OnceInv
  <2>2. event.kind = "entity.merge_reverted" =>
          \A d \in Ids(log, "entity.merge_reverted") : log[d].merge # event.merge
    BY <1>3 DEF Ready, Reverts
  <2> QED  BY <1>1, <1>2, <2>1, <2>2
<1>8. ASSUME NEW j \in Proposals(new), NEW k \in Proposals(new), Open(new, j), Open(new, k),
             {new[j].source, new[j].candidate} = {new[k].source, new[k].candidate}
      PROVE  j = k
  <2>1. /\ \A l \in Proposals(log) : new[l] = log[l]
        /\ i \notin Proposals(log)
        /\ Proposals(new) \subseteq Proposals(log) \cup {i}
        /\ i \in Proposals(new) => event \in ProposedEvent
    BY <1>1, <1>2, <1>3 DEF Proposals
  <2>2. CASE j \in Proposals(log) /\ k \in Proposals(log)
    BY <1>4, <1>8, <2>1, <2>2 DEF OnceInv
  <2>3. ASSUME NEW l \in Proposals(log), i \in Proposals(new), Open(new, l),
               {log[l].source, log[l].candidate} = {event.source, event.candidate}
        PROVE  FALSE
    BY <1>4, <2>1, <2>3 DEF Ready, SamePair
  <2>4. CASE j = i /\ k \in Proposals(log)
    BY <1>1, <1>8, <2>1, <2>3, <2>4
  <2>5. CASE k = i /\ j \in Proposals(log)
    BY <1>1, <1>8, <2>1, <2>3, <2>5
  <2> QED  BY <2>1, <2>2, <2>4, <2>5
<1> QED  BY <1>5, <1>6, <1>7, <1>8 DEF OnceInv, new

LEMMA GrownForest ==
  ASSUME NEW log \in Log, NEW i \in Free(log), NEW event \in Event, LogInv(log),
         Ready(log, event), ForestInv(log),
         event \in MergedEvent => event.absorbed # event.surviving
  PROVE  ForestInv(Grown(log, i, event))
<1> DEFINE new == Grown(log, i, event)
<1>1. /\ new[i] = event
      /\ \A j \in EventIds \ {i} : new[j] = log[j]
      /\ \A kind : i \notin Ids(log, kind)
  BY GrownFacts
<1>2. activeMerges(new) = IF event \in MergedEvent THEN activeMerges(log) \cup {i}
                          ELSE IF event \in RevertedEvent
                               THEN activeMerges(log) \ {event.merge}
                               ELSE activeMerges(log)
  BY GrownActive
<1>3. \A j \in activeMerges(log) :
        /\ new[j] = log[j] /\ j # i
        /\ log[j].absorbed \in Entities /\ log[j].surviving \in Entities
  BY <1>1, EventKinds DEF activeMerges, Merges, Ids, MergedEvent
<1>4. PICK rank \in [Entities -> Nat] :
        \A j \in activeMerges(log) : rank[log[j].surviving] < rank[log[j].absorbed]
  BY DEF ForestInv
<1>5. \A j, k \in activeMerges(log) : log[j].absorbed = log[k].absorbed => j = k
  BY DEF ForestInv
<1> HIDE DEF new
<1>6. CASE event \in MergedEvent
  <2> DEFINE higher == [x \in Entities |-> IF x = event.surviving THEN 0 ELSE rank[x] + 1]
  <2>1. event.absorbed \in Entities /\ event.surviving \in Entities
        /\ event.absorbed # event.surviving
    BY <1>6 DEF MergedEvent
  <2>2. \A j \in activeMerges(log) :
          log[j].absorbed # event.absorbed /\ log[j].absorbed # event.surviving
    BY <1>6 DEF Ready, Unabsorbed
  <2>3. higher \in [Entities -> Nat]
    OBVIOUS
  <2>4. ASSUME NEW j \in activeMerges(log)
        PROVE  higher[new[j].surviving] < higher[new[j].absorbed]
    BY <1>3, <1>4, <2>2
  <2>5. higher[event.surviving] < higher[event.absorbed]
    BY <2>1
  <2>6. \A j \in activeMerges(new) : higher[new[j].surviving] < higher[new[j].absorbed]
    <3> HIDE DEF higher
    <3> QED  BY <1>1, <1>2, <1>6, <2>4, <2>5
  <2>7. \A j, k \in activeMerges(new) : new[j].absorbed = new[k].absorbed => j = k
    BY <1>1, <1>2, <1>3, <1>5, <1>6, <2>2
  <2> HIDE DEF higher
  <2> QED  BY <2>3, <2>6, <2>7 DEF ForestInv, new
<1>7. CASE event \notin MergedEvent
  <2>1. activeMerges(new) \subseteq activeMerges(log)
    BY <1>2, <1>7
  <2>2. \A j \in activeMerges(new) : rank[new[j].surviving] < rank[new[j].absorbed]
    BY <1>3, <1>4, <2>1
  <2>3. \A j, k \in activeMerges(new) : new[j].absorbed = new[k].absorbed => j = k
    BY <1>3, <1>5, <2>1
  <2> QED  BY <2>2, <2>3 DEF ForestInv, new
<1> QED  BY <1>6, <1>7

(* What entities stand for once an event is appended.                      *)
LEMMA GrownMoves ==
  ASSUME NEW log \in Log, NEW i \in Free(log), NEW event \in Event, LogInv(log),
         Ready(log, event), ForestInv(log), ForestInv(Grown(log, i, event)),
         event \in MergedEvent => event.absorbed # event.surviving,
         event \in RevertedEvent => event.merge \in Merges(log)
  PROVE  LET new == Grown(log, i, event)
         IN  \A x \in Entities :
               /\ event \in MergedEvent =>
                    Canonical(new, x) = IF Canonical(log, x) = event.absorbed
                                        THEN event.surviving ELSE Canonical(log, x)
               /\ event \in RevertedEvent =>
                    LET restored == log[event.merge].absorbed
                    IN  /\ Canonical(new, restored) = restored
                        /\ Canonical(new, x) \in {restored, Canonical(log, x)}
               /\ event \notin MergedEvent \cup RevertedEvent =>
                    Canonical(new, x) = Canonical(log, x)
<1> DEFINE new == Grown(log, i, event)
           to == Redirects!redirects(log)
           next == Redirects!redirects(new)
<1>1. /\ new \in Log /\ new[i] = event
      /\ \A j \in EventIds \ {i} : new[j] = log[j]
      /\ \A kind : i \notin Ids(log, kind)
  BY GrownFacts
<1>2. activeMerges(new) = IF event \in MergedEvent THEN activeMerges(log) \cup {i}
                          ELSE IF event \in RevertedEvent
                               THEN activeMerges(log) \ {event.merge}
                               ELSE activeMerges(log)
  BY GrownActive
<1>3. \A j \in activeMerges(log) : new[j] = log[j] /\ j # i
  BY <1>1 DEF activeMerges, Merges, Ids
<1>4. /\ Redirecting(to)
      /\ DOMAIN to = {log[j].absorbed : j \in activeMerges(log)}
      /\ \A j \in activeMerges(log) : to[log[j].absorbed] = log[j].surviving
      /\ \E rank : Ranked(to, rank)
  BY ForestRedirects
<1>5. /\ Redirecting(next)
      /\ DOMAIN next = {new[j].absorbed : j \in activeMerges(new)}
      /\ \A j \in activeMerges(new) : next[new[j].absorbed] = new[j].surviving
      /\ \E rank : Ranked(next, rank)
  <2> HIDE DEF new
  <2>1. new \in Log /\ ForestInv(new)
    BY <1>1 DEF new
  <2> QED  BY <2>1, ForestRedirects
<1>6. \A x : Canonical(log, x) = Stands(to, x) /\ Canonical(new, x) = Stands(next, x)
  BY CanonicalStands
<1>7. PICK rank : Ranked(to, rank)
  BY <1>4
<1>8. \A j, k \in activeMerges(log) : log[j].absorbed = log[k].absorbed => j = k
  BY DEF ForestInv
<1> HIDE DEF new, to, next
<1>9. CASE event \in MergedEvent
  <2>1. /\ event.absorbed \in Entities \ DOMAIN to /\ event.surviving \in Entities \ DOMAIN to
        /\ event.absorbed # event.surviving
    BY <1>4, <1>9 DEF MergedEvent, Ready, Unabsorbed
  <2>2. DOMAIN next = DOMAIN to \cup {event.absorbed}
    BY <1>1, <1>2, <1>3, <1>4, <1>5, <1>9
  <2>3. next[event.absorbed] = event.surviving
    BY <1>1, <1>2, <1>5, <1>9
  <2>4. \A x \in DOMAIN to : next[x] = to[x]
    BY <1>2, <1>3, <1>4, <1>5, <1>9
  <2>5. \A x \in Entities :
          Stands(next, x) = IF Stands(to, x) = event.absorbed THEN event.surviving
                            ELSE Stands(to, x)
    BY <1>4, <1>5, <1>7, <2>1, <2>2, <2>3, <2>4, MergeMoves
  <2>6. event \notin RevertedEvent
    BY <1>9, KindsDiffer
  <2> QED  BY <1>6, <1>9, <2>5, <2>6 DEF new
<1>10. CASE event \in RevertedEvent
  <2> DEFINE restored == log[event.merge].absorbed
  <2>1. event.merge \in activeMerges(log) /\ event \notin MergedEvent
    BY <1>10, KindsDiffer DEF Ready, activeMerges
  <2>2. restored \in DOMAIN to
    BY <1>4, <2>1
  <2>3. DOMAIN next = DOMAIN to \ {restored}
    BY <1>2, <1>3, <1>4, <1>5, <1>8, <1>10, <2>1
  <2>4. \A x \in DOMAIN next : next[x] = to[x]
    BY <1>2, <1>3, <1>4, <1>5, <1>10, <2>1
  <2>5. /\ Stands(next, restored) = restored
        /\ \A x \in Entities : Stands(next, x) \in {restored, Stands(to, x)}
    <3> HIDE DEF restored
    <3> QED  BY <1>4, <1>5, <1>7, <2>2, <2>3, <2>4, RevertMoves
  <2>6. /\ Canonical(new, restored) = restored
        /\ \A x \in Entities : Canonical(new, x) \in {restored, Canonical(log, x)}
    <3> HIDE DEF restored
    <3> QED  BY <1>6, <2>5
  <2> QED  BY <1>10, <2>1, <2>6, Zenon DEF new
<1>11. CASE event \notin MergedEvent \cup RevertedEvent
  <2>1. DOMAIN next = DOMAIN to
    BY <1>2, <1>3, <1>4, <1>5, <1>11
  <2>2. \A x \in DOMAIN to : next[x] = to[x]
    BY <1>2, <1>3, <1>4, <1>5, <1>11
  <2> DEFINE Those == {x \in Entities : Stands(next, x) = Stands(to, x)}
  <2>3. Ranked(next, rank)
    BY <1>7, <2>1, <2>2 DEF Ranked
  <2>4. ASSUME NEW x \in Entities, x \in DOMAIN to => to[x] \in Those PROVE x \in Those
    <3>1. Stands(next, x) = IF x \in DOMAIN next THEN Stands(next, next[x]) ELSE x
      BY <1>5, <2>3, StandsStep
    <3>2. Stands(to, x) = IF x \in DOMAIN to THEN Stands(to, to[x]) ELSE x
      BY <1>4, <1>7, StandsStep
    <3> QED  BY <2>1, <2>2, <2>4, <3>1, <3>2
  <2>5. Those = Entities
    <3>1. Those \in SUBSET Entities
      OBVIOUS
    <3> HIDE DEF Those
    <3> QED  BY <1>4, <1>7, <2>4, <3>1, RankInduction
  <2> QED  BY <1>6, <1>11, <2>5 DEF new
<1> QED  BY <1>9, <1>10, <1>11

LEMMA SerialInit == Init => SerialInv
<1> SUFFICES ASSUME Init PROVE SerialInv
  OBVIOUS
<1>1. OnceInv(events)
  BY NothingLogged DEF Init, OnceInv
<1>2. ForestInv(events)
  <2>1. [x \in Entities |-> 0] \in [Entities -> Nat]
    OBVIOUS
  <2> QED  BY <2>1, NothingLogged DEF Init, ForestInv
<1>3. \A p \in Callers : CheckedInv(events, pc[p], call[p], toCheck[p], seen[p])
  BY DEF Init, CheckedInv
<1> QED  BY <1>1, <1>2, <1>3 DEF SerialInv

(* What a serial transaction appends.                                      *)
LEMMA SerialWrite ==
  ASSUME ReviewInv, SerialInv, NEW p \in Callers, NEW i \in EventIds, Write(p, i)
  PROVE  /\ i \in Free(events) /\ call[p] \in Event /\ events' = Grown(events, i, call[p])
         /\ events \in Log /\ LogInv(events) /\ OnceInv(events) /\ ForestInv(events)
         /\ Ready(events, call[p])
         /\ call[p] \in MergedEvent => call[p].absorbed # call[p].surviving
         /\ call[p] \in RevertedEvent => call[p].merge \in Merges(events)
<1>1. /\ events \in Log /\ LogInv(events) /\ CallerInv(events, pc[p], call[p])
      /\ OnceInv(events) /\ ForestInv(events)
      /\ CheckedInv(events, pc[p], call[p], toCheck[p], seen[p])
  BY DEF ReviewInv, TypeInv, SerialInv
<1>2. pc[p] = "write"
  BY DEF Write
<1>3. i \in Free(events) /\ call[p] \in Event /\ events' = Grown(events, i, call[p])
  BY WriteHolds
<1>4. Ready(events, call[p])
  BY <1>1, <1>2 DEF CheckedInv
<1>5. /\ call[p] \in MergedEvent => call[p].absorbed # call[p].surviving
      /\ call[p] \in RevertedEvent => call[p].merge \in Merges(events)
  BY <1>1 DEF CallerInv, Reviewable
<1> QED  BY <1>1, <1>3, <1>4, <1>5

LEMMA SerialStep ==
  ASSUME NEW CONSTANT caller, Callers = {caller}
  PROVE  ReviewInv /\ SerialInv /\ [Next]_vars => SerialInv'
<1> SUFFICES ASSUME ReviewInv, SerialInv, [Next]_vars PROVE SerialInv'
  OBVIOUS
<1>1. ASSUME NEW p \in Callers, UNCHANGED events,
             CheckedInv(events, pc'[p], call'[p], toCheck'[p], seen'[p])
      PROVE  SerialInv'
  <2>1. \A q \in Callers : q = p
    OBVIOUS
  <2>2. events' = events /\ OnceInv(events) /\ ForestInv(events)
    BY <1>1 DEF SerialInv
  <2> QED  BY <1>1, <2>1, <2>2 DEF SerialInv
<1>2. ASSUME NEW p \in Callers, Start(p) PROVE SerialInv'
  <2>1. TypeInv
    BY DEF ReviewInv
  <2>2. pc'[p] \in {"proposeRoots", "decide", "mergeDecisions", "revert"}
    BY <1>2, <2>1, StartIsNotChecked
  <2>3. CheckedInv(events, pc'[p], call'[p], toCheck'[p], seen'[p])
    BY <2>2 DEF CheckedInv
  <2>4. UNCHANGED events
    BY <1>2, StartHolds
  <2> QED  BY <1>1, <2>3, <2>4
<1>3. ASSUME NEW p \in Callers, Continue(p), \A i \in EventIds : ~Write(p, i) PROVE SerialInv'
  <2>1. CheckedInv(events, pc'[p], call'[p], toCheck'[p], seen'[p])
    BY <1>3, ChecksHold
  <2>2. UNCHANGED events
    BY <1>3, ContinueHolds
  <2> QED  BY <1>1, <2>1, <2>2
<1>4. ASSUME NEW p \in Callers, NEW i \in EventIds, Write(p, i) PROVE SerialInv'
  <2>1. /\ i \in Free(events) /\ call[p] \in Event /\ events' = Grown(events, i, call[p])
        /\ events \in Log /\ LogInv(events) /\ OnceInv(events) /\ ForestInv(events)
        /\ Ready(events, call[p])
        /\ call[p] \in MergedEvent => call[p].absorbed # call[p].surviving
        /\ call[p] \in RevertedEvent => call[p].merge \in Merges(events)
    BY <1>4, SerialWrite
  <2>2. OnceInv(events') /\ ForestInv(events')
    BY <2>1, GrownOnce, GrownForest
  <2>3. pc'[p] = "idle"
    BY <1>4, WriteHolds
  <2>4. \A q \in Callers : q = p
    OBVIOUS
  <2>5. \A q \in Callers : CheckedInv(events', pc'[q], call'[q], toCheck'[q], seen'[q])
    BY <2>3, <2>4 DEF CheckedInv
  <2> QED  BY <2>2, <2>5 DEF SerialInv
<1>5. CASE UNCHANGED vars
  BY <1>5 DEF SerialInv, vars
<1> QED  BY <1>2, <1>3, <1>4, <1>5 DEF Next

LEMMA SerialHolds ==
  ASSUME NEW CONSTANT caller, Callers = {caller}
  PROVE  Spec => [](ReviewInv /\ SerialInv)
<1>1. Init => ReviewInv /\ SerialInv
  BY ReviewInit, SerialInit
<1>2. (ReviewInv /\ SerialInv) /\ [Next]_vars => (ReviewInv /\ SerialInv)'
  BY ReviewStep, SerialStep
<1> QED  BY <1>1, <1>2, PTL DEF Spec

(* Operations that run one after another never make a cycle of merges and  *)
(* never absorb an entity twice: an operation finds both entities to be    *)
(* roots, and they still are when its merge is appended.                   *)
THEOREM SerialMergesFormAForest ==
  ASSUME NEW CONSTANT caller, Callers = {caller}
  PROVE  Spec => []MergesFormAForest
<1>1. ReviewInv /\ SerialInv => MergesFormAForest
  <2> SUFFICES ASSUME ReviewInv, SerialInv PROVE MergesFormAForest
    OBVIOUS
  <2>1. events \in Log /\ ForestInv(events)
    BY DEF ReviewInv, TypeInv, SerialInv
  <2>2. PICK rank : /\ Redirecting(Redirects!redirects(events))
                    /\ Ranked(Redirects!redirects(events), rank)
    BY <2>1, ForestRedirects
  <2>3. ASSUME NEW x \in Entities
        PROVE  Redirects!canonicalEntityIdFromEvents(events, x) # None
    <3>1. Canonical(events, x) \in Entities
      BY <2>2, CanonicalStands, StandsForRoot
    <3> QED  BY <3>1, ResolutionAssumption DEF Canonical
  <2>4. \A i, j \in activeMerges(events) : events[i].absorbed = events[j].absorbed => i = j
    BY <2>1 DEF ForestInv
  <2> QED  BY <2>3, <2>4 DEF MergesFormAForest
<1> QED  BY <1>1, SerialHolds, PTL

LEMMA AtMostOne ==
  ASSUME NEW S, \A x, y \in S : x = y
  PROVE  Cardinality(S) <= 1
<1>1. CASE S = {}
  BY <1>1, FS_EmptySet
<1>2. CASE S # {}
  <2>1. PICK x \in S : TRUE
    BY <1>2
  <2>2. S = {x}
    BY <2>1
  <2>3. Cardinality({x}) = 1
    BY FS_Singleton
  <2> QED  BY <2>2, <2>3
<1> QED  BY <1>1, <1>2

(* Operations that run one after another decide a proposal once, merge it  *)
(* once, revert a merge once, and have a pair under one proposal that may  *)
(* still be merged or is: what each operation did not find in the log is   *)
(* not there either when it appends its event.                             *)
THEOREM SerialReviewsHappenOnce ==
  ASSUME NEW CONSTANT caller, Callers = {caller}
  PROVE  Spec => []ReviewedOnce
<1>1. \A S : (\A x, y \in S : x = y) => Cardinality(S) <= 1
  BY AtMostOne
<1>2. ReviewInv /\ SerialInv => ReviewedOnce
  <2> SUFFICES ASSUME SerialInv PROVE ReviewedOnce
    OBVIOUS
  <2>1. OnceInv(events)
    BY DEF SerialInv
  <2>2. \A q : \A x, y \in Decisions(events, q) : x = y
    BY <2>1 DEF OnceInv, Decisions
  <2>3. \A q : \A x, y \in MergesOf(events, q) : x = y
    BY <2>1 DEF OnceInv, MergesOf
  <2>4. \A m : \A x, y \in Reverts(events, m) : x = y
    BY <2>1 DEF OnceInv, Reverts
  <2>5. /\ \A q : Cardinality(Decisions(events, q)) <= 1
        /\ \A q : Cardinality(MergesOf(events, q)) <= 1
        /\ \A m : Cardinality(Reverts(events, m)) <= 1
    BY <1>1, <2>2, <2>3, <2>4
  <2> QED  BY <2>1, <2>5 DEF OnceInv, ReviewedOnce
<1> QED  BY <1>2, SerialHolds, PTL

(* Of operations that run one after another, a merge moves exactly the     *)
(* cluster of the absorbed entity, a reversal gives it its own cluster     *)
(* back, and no other step changes what any entity stands for.             *)
THEOREM SerialStepsMoveOneCluster ==
  ASSUME NEW CONSTANT caller, Callers = {caller}
  PROVE  Spec => StepsMoveOneCluster
<1> DEFINE Moves == \A i \in EventIds : events'[i] # events[i] => \A x \in Entities : Moved(i, x)
<1>1. ReviewInv /\ SerialInv /\ [Next]_vars => [Moves]_events
  <2> SUFFICES ASSUME ReviewInv, SerialInv, [Next]_vars, events' # events,
                      NEW k \in EventIds, events'[k] # events[k], NEW x \in Entities
               PROVE  Moved(k, x)
    OBVIOUS
  <2>1. PICK p \in Callers : Start(p) \/ Continue(p)
    BY DEF Next, vars
  <2>2. PICK i \in EventIds : Write(p, i)
    BY <2>1, StartHolds, ContinueHolds
  <2> DEFINE event == call[p]
  <2>3. /\ i \in Free(events) /\ event \in Event /\ events' = Grown(events, i, event)
        /\ events \in Log /\ LogInv(events) /\ OnceInv(events) /\ ForestInv(events)
        /\ Ready(events, event)
        /\ event \in MergedEvent => event.absorbed # event.surviving
        /\ event \in RevertedEvent => event.merge \in Merges(events)
    BY <2>2, SerialWrite
  <2> HIDE DEF event
  <2>4. ForestInv(Grown(events, i, event))
    BY <2>3, GrownForest
  <2>5. k = i /\ events'[k] = event
    BY <2>3 DEF Grown, Log
  <2>6. /\ event \in MergedEvent =>
             Canonical(events', x) = IF Canonical(events, x) = event.absorbed
                                     THEN event.surviving ELSE Canonical(events, x)
        /\ event \in RevertedEvent =>
             LET restored == events[event.merge].absorbed
             IN  /\ Canonical(events', restored) = restored
                 /\ Canonical(events', x) \in {restored, Canonical(events, x)}
        /\ event \notin MergedEvent \cup RevertedEvent =>
             Canonical(events', x) = Canonical(events, x)
    BY <2>3, <2>4, GrownMoves
  <2> QED  BY <2>5, <2>6, KindsDiffer DEF Moved
<1>2. Spec => [][Moves]_events
  BY <1>1, SerialHolds, PTL DEF Spec
<1> QED  BY <1>2 DEF StepsMoveOneCluster
=============================================================================
