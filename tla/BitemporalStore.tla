--------------------------- MODULE BitemporalStore ---------------------------
(***************************************************************************)
(* The claims of a canonical store with their history. A write archives    *)
(* the current version of a claim and puts the new one in its place; a     *)
(* read as of a time takes the version that was recorded last until then.  *)
(*                                                                         *)
(* recordedAt is set when a version is built, which is before it is        *)
(* written: versions may be committed in another order than their times.   *)
(* In PostgreSQL every statement is a step, outside a transaction also for *)
(* others; SQLite and the memory store do a write or a read in one go.     *)
(***************************************************************************)
EXTENDS Naturals, Sequences, FiniteSets

CONSTANTS
  Claims,
  Recorded,    \* those that are in the store at the start
  Validity(_), \* the time [from, to) in which a claim is valid
  Writers,     \* each writes once
  Readers,     \* each lists the claims once, as of some time
  Stores,      \* "postgres", "sqlite", "memory"
  MaxTime,
  None

ASSUME BitemporalAssumption ==
  /\ Recorded \subseteq Claims
  /\ Writers \cap Readers = {} /\ Writers \cap Claims = {}
  /\ MaxTime \in Nat /\ None \notin 0..MaxTime
  /\ Stores \subseteq {"postgres", "sqlite", "memory"}
  /\ None \notin [recordedAt : 0..MaxTime, status : {"asserted", "retracted"}, by : Writers \cup Claims]

VARIABLES
  store,      \* which store it is
  now,        \* the clock, in milliseconds
  rows,       \* the current version of each claim, or None
  history,    \* its archived versions, in the order in which they were inserted
  writer,     \* what each writer does
  reader,     \* what each reader does
  commits,    \* every version that became current, in that order
  overrun     \* versions that were overwritten by a writer that had not read them

records == <<rows, history, commits, overrun>>
storeVars == <<store, now, records, writer, reader>>

Times == 0..MaxTime
Perspectives == [validAt : Times \cup {None}, knownAt : Times \cup {None}]

Version(time, status, by) == [recordedAt |-> time, status |-> status, by |-> by]

Idle == [pc |-> "idle"]

StoreInit ==
  /\ store \in Stores
  /\ now = 0
  /\ rows = [c \in Claims |-> IF c \in Recorded THEN Version(0, "asserted", c) ELSE None]
  /\ history = [c \in Claims |-> <<>>]
  /\ writer = [w \in Writers |-> Idle]
  /\ reader = [r \in Readers |-> Idle]
  /\ commits = <<>>
  /\ overrun = {}

-----------------------------------------------------------------------------
(* Reading as of a time. A perspective has a time at which claims are      *)
(* valid and one until which they are known; either may be None.           *)

ValidAt(c, time) == time = None \/ (Validity(c).from <= time /\ time < Validity(c).to)

(* Mutant of KnownAt: every version is known.                              *)
KnownAlways(version, time) == TRUE

KnownAt(version, time) == time = None \/ version.recordedAt <= time

VisibleAt(c, version, temporal) ==
  /\ version # None
  /\ version.status # "retracted"
  /\ ValidAt(c, temporal.validAt)
  /\ KnownAt(version, temporal.knownAt)

(* Mutant of LatestKnownAt: the last in the list of those known.           *)
LastWritten(versions, time) ==
  LET known == SelectSeq(versions, LAMBDA version : KnownAt(version, time))
  IN  IF known = <<>> THEN None ELSE known[Len(known)]

(* Of the versions that were known, the last one in the stable order of    *)
(* their times.                                                            *)
LatestKnownAt(versions, time) ==
  IF time = None THEN versions[Len(versions)]
  ELSE LET known == {n \in DOMAIN versions : KnownAt(versions[n], time)}
           After(m, n) == \/ versions[m].recordedAt < versions[n].recordedAt
                          \/ versions[m].recordedAt = versions[n].recordedAt /\ m <= n
       IN  IF known = {} THEN None
           ELSE versions[CHOOSE n \in known : \A m \in known : After(m, n)]

Versions(row, past) == IF row = None THEN past ELSE Append(past, row)

(* What a listing holds of a claim with this row and these old versions.   *)
Answer(c, row, past, temporal) ==
  LET versions == Versions(row, past)
      version == IF versions = <<>> THEN None ELSE LatestKnownAt(versions, temporal.knownAt)
  IN  IF VisibleAt(c, version, temporal) THEN version ELSE None

AsOf(c, temporal) == Answer(c, rows[c], history[c], temporal)

BeginList(r, temporal) ==
  reader' = [reader EXCEPT ![r] =
    [pc |-> "current", temporal |-> temporal, since |-> Len(commits)]]

EndList(r, answer) ==
  reader' = [reader EXCEPT ![r] =
    [pc |-> "listed", temporal |-> @.temporal, since |-> @.since, until |-> Len(commits),
     answer |-> answer]]

(* The present needs no history, and SQLite and the memory store read both *)
(* in one go.                                                              *)
ListAtOnce(r) ==
  /\ reader[r].pc = "current"
  /\ store # "postgres" \/ reader[r].temporal.knownAt = None
  /\ EndList(r, [c \in Claims |-> AsOf(c, reader[r].temporal)])
  /\ UNCHANGED <<store, now, records, writer>>

(* PostgreSQL is asked for the current versions, then for the old ones.    *)
ListCurrent(r) ==
  /\ reader[r].pc = "current"
  /\ store = "postgres" /\ reader[r].temporal.knownAt # None
  /\ reader' = [reader EXCEPT ![r] =
       [pc |-> "history", temporal |-> @.temporal, since |-> @.since, seen |-> rows]]
  /\ UNCHANGED <<store, now, records, writer>>

ListHistory(r) ==
  /\ reader[r].pc = "history"
  /\ EndList(r, [c \in Claims |-> Answer(c, reader[r].seen[c], history[c], reader[r].temporal)])
  /\ UNCHANGED <<store, now, records, writer>>

List(r) == ListAtOnce(r) \/ ListCurrent(r) \/ ListHistory(r)

-----------------------------------------------------------------------------
(* Writing.                                                                *)

Build(w, c, status) ==
  writer' = [writer EXCEPT ![w] = [pc |-> "built", claim |-> c, version |-> Version(now, status, w)]]

(* A claim is built and asserted, a new one by an ingestion or an existing *)
(* one again by a program that uses the port.                              *)
BuildAsserted(w) ==
  /\ writer[w].pc = "idle"
  /\ \E c \in Claims : Build(w, c, "asserted")
  /\ UNCHANGED <<store, now, records, reader>>

(* A claim is read and a retraction of it built; one that is retracted     *)
(* already throws.                                                         *)
BuildRetracted(w) ==
  /\ writer[w].pc = "idle"
  /\ \E c \in Claims :
       /\ rows[c] # None /\ rows[c].status # "retracted"
       /\ Build(w, c, "retracted")
  /\ UNCHANGED <<store, now, records, reader>>

(* putRecord reads the current version.                                    *)
PutRead(w) ==
  /\ writer[w].pc = "built"
  /\ store = "postgres"
  /\ \E inTransaction \in BOOLEAN :
       writer' = [writer EXCEPT ![w] =
         [pc |-> IF inTransaction THEN "transaction" ELSE "archive", claim |-> @.claim,
          version |-> @.version, read |-> rows[@.claim]]]
  /\ UNCHANGED <<store, now, records, reader>>

(* Mutant of Archived: the old version is not archived.                    *)
NotArchived(c, version) == history

Archived(c, version) ==
  IF version = None THEN history ELSE [history EXCEPT ![c] = Append(@, version)]

(* It is archived if there was one,                                        *)
PutArchive(w) ==
  /\ writer[w].pc = "archive"
  /\ history' = Archived(writer[w].claim, writer[w].read)
  /\ writer' = [writer EXCEPT ![w].pc = "upsert"]
  /\ UNCHANGED <<store, now, rows, commits, overrun, reader>>

Upsert(w) ==
  LET c == writer[w].claim
  IN  /\ rows' = [rows EXCEPT ![c] = writer[w].version]
      /\ commits' = Append(commits, [claim |-> c, version |-> writer[w].version])
      /\ writer' = [writer EXCEPT ![w] = [pc |-> "done"]]

(* and then overwritten, whichever it is by now.                           *)
PutUpsert(w) ==
  /\ writer[w].pc = "upsert"
  /\ Upsert(w)
  /\ overrun' = overrun \cup ({rows[writer[w].claim]} \ {writer[w].read, None})
  /\ UNCHANGED <<store, now, history, reader>>

(* In a transaction nobody sees the one without the other, yet the version *)
(* was read before.                                                        *)
PutCommit(w) ==
  /\ writer[w].pc = "transaction"
  /\ history' = Archived(writer[w].claim, writer[w].read)
  /\ Upsert(w)
  /\ overrun' = overrun \cup ({rows[writer[w].claim]} \ {writer[w].read, None})
  /\ UNCHANGED <<store, now, reader>>

(* SQLite and the memory store do it all in one go.                        *)
PutAtOnce(w) ==
  /\ writer[w].pc = "built"
  /\ store # "postgres"
  /\ history' = Archived(writer[w].claim, rows[writer[w].claim])
  /\ Upsert(w)
  /\ UNCHANGED <<store, now, overrun, reader>>

(* A statement fails, or the process of the writer dies.                   *)
WriterFails(w) ==
  /\ writer[w].pc \in {"built", "archive", "upsert", "transaction"}
  /\ writer' = [writer EXCEPT ![w] = [pc |-> "done"]]
  /\ UNCHANGED <<store, now, records, reader>>

Write(w) ==
  \/ BuildAsserted(w)
  \/ BuildRetracted(w)
  \/ PutRead(w)
  \/ PutArchive(w)
  \/ PutUpsert(w)
  \/ PutCommit(w)
  \/ PutAtOnce(w)
  \/ WriterFails(w)

Tick ==
  /\ now < MaxTime
  /\ now' = now + 1
  /\ UNCHANGED <<store, records, writer, reader>>

BeginAny(r) ==
  /\ reader[r].pc = "idle"
  /\ \E temporal \in Perspectives : BeginList(r, temporal)
  /\ UNCHANGED <<store, now, records, writer>>

StoreNext ==
  \/ \E w \in Writers : Write(w)
  \/ \E r \in Readers : BeginAny(r) \/ List(r)
  \/ Tick

StoreSpec == StoreInit /\ [][StoreNext]_storeVars

-----------------------------------------------------------------------------
(* What the history promises: one answer for every time.                   *)

(* A version that was committed is current or archived, unless a writer    *)
(* that read before it was there wrote over it.                            *)
VersionsAreKept ==
  \A n \in DOMAIN commits :
    LET c == commits[n].claim
        version == commits[n].version
    IN  \/ version \in overrun \cup {rows[c]}
        \/ \E m \in DOMAIN history[c] : history[c][m] = version

(* The first n commits that are of a claim, 0 standing for what was there  *)
(* at the start, and their versions.                                       *)
Commits(c, n) == {m \in 0..n : IF m = 0 THEN c \in Recorded ELSE commits[m].claim = c}

Committed(c, m) == IF m = 0 THEN Version(0, "asserted", c) ELSE commits[m].version

(* Of those, the version of a claim that was recorded last until a time,   *)
(* of several the last one committed.                                      *)
Truth(c, n, temporal) ==
  LET known == {m \in Commits(c, n) :
                  temporal.knownAt = None \/ Committed(c, m).recordedAt <= temporal.knownAt}
      time(m) == IF temporal.knownAt = None THEN 0 ELSE Committed(c, m).recordedAt
      later(k, m) == time(k) > time(m) \/ (time(k) = time(m) /\ k > m)
  IN  {Committed(c, m) : m \in {l \in known : \A k \in known : ~later(k, l)}}

Right(c, answer, n, temporal) ==
  LET said == {version \in Truth(c, n, temporal) : VisibleAt(c, version, temporal)}
  IN  IF answer = None THEN said = {} ELSE answer \in said

Lost(c) == \E n \in DOMAIN commits : commits[n].claim = c /\ commits[n].version \in overrun

(* Two versions of one millisecond are archived in another order than they *)
(* were committed: a writer archived the one it had read so late that      *)
(* others had archived newer ones.                                         *)
ArchivedLate(c) ==
  \E m, n \in DOMAIN history[c] :
    /\ m < n
    /\ history[c][m].recordedAt = history[c][n].recordedAt
    /\ \E k, l \in Commits(c, Len(commits)) :
         k < l /\ history[c][n] = Committed(c, k) /\ history[c][m] = Committed(c, l)

(* What a listing says of a claim was so at some moment while it was made, *)
(* although PostgreSQL is asked twice and others write in between; except  *)
(* that a version was overrun or archived late.                            *)
AnswersAreTrue ==
  \A r \in Readers : reader[r].pc = "listed" =>
    \A c \in Claims :
      \/ Lost(c) \/ ArchivedLate(c)
      \/ \E n \in reader[r].since .. reader[r].until :
           Right(c, reader[r].answer[c], n, reader[r].temporal)

(* An answer as of a time stands for ever. It changes only for a version   *)
(* that is committed afterwards although it was recorded until then, or if *)
(* a version was overrun or archived late.                                 *)
AnswersStand ==
  \A r \in Readers : reader[r].pc = "listed" /\ reader[r].temporal.knownAt # None =>
    \A c \in Claims :
      \/ reader[r].answer[c] = AsOf(c, reader[r].temporal)
      \/ Lost(c) \/ ArchivedLate(c)
      \/ \E n \in DOMAIN commits :
           /\ n > reader[r].since
           /\ commits[n].claim = c
           /\ commits[n].version.recordedAt <= reader[r].temporal.knownAt

(* A version was committed after one that was recorded later.              *)
Overtaken(c) ==
  \E m, n \in DOMAIN commits :
    /\ m < n /\ commits[m].claim = c /\ commits[n].claim = c
    /\ commits[m].version.recordedAt > commits[n].version.recordedAt
=============================================================================
