------------------------ MODULE MCIngestionPipeline ------------------------
(* The ingestion pipeline on a small instance, for TLC.                    *)
EXTENDS IngestionPipeline

CONSTANT alice

Draft(label, predicate, object) == [label |-> label, predicate |-> predicate, object |-> object]

(* A memo contradicts the note and spells the names another way; a report  *)
(* contradicts itself. Of a file that is not text only the name is read.   *)
MCDrafts(blob, mime) ==
  IF mime # "text" THEN <<>>
  ELSE
    CASE blob = "note" -> <<Draft("Vendor", "status", "active")>>
      [] blob = "memo" -> <<Draft("vendor", "Status", "closed")>>
      [] blob = "report" -> <<Draft("vendor", "Status", "closed"), Draft("Vendor", "status", "active")>>

MCKeyOf(label) == IF label = "Vendor" THEN "vendor" ELSE label
MCNormalized(predicate) == IF predicate = "Status" THEN "status" ELSE predicate

Text(blob) == [blob |-> blob, mime |-> "text"]
File(blob) == [blob |-> blob, mime |-> "other"]

MCRequests == {<<Text("note"), Text("memo")>>, <<File("note"), Text("without text"), Text("report")>>}

(* The second document is extracted again, or a path is to be ingested.    *)
MCOperatorJobs ==
  {[kind |-> "ingest.extract", of |-> << << <<alice, 0>>, 1>> >>],
   [kind |-> "ingest.path", of |-> <<>>]}
=============================================================================
