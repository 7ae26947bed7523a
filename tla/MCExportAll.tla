----------------------------- MODULE MCExportAll ------------------------------
(***************************************************************************)
(* A request that exports generated code: three tables of two classes, so  *)
(* that some share one, in every order.  The statement it queries the      *)
(* database with comes first, for any query.                               *)
(***************************************************************************)
EXTENDS ExportAll, NamedParameter

VARIABLE querying       \* is the statement still open?

requestVars == <<querying, vars, statementVars>>

MCInit == querying = TRUE /\ Init /\ StatementInit

Query ==
  /\ querying /\ StatementNext
  /\ UNCHANGED <<querying, vars>>

Queried ==
  /\ querying /\ querying' = FALSE
  /\ query' = <<>> /\ wrapped' = NothingParsed /\ bound' = <<>>
  /\ UNCHANGED vars

Export ==
  /\ ~querying /\ Next
  /\ UNCHANGED <<querying, statementVars>>

MCNext == Query \/ Queried \/ Export

\* A query ends, as does whatever its thread does next.
MCSpec == MCInit /\ [][MCNext]_requestVars /\ WF_requestVars(Queried) /\ WF_requestVars(Export)
===============================================================================
