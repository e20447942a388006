------------------------------- MODULE MCAccess -------------------------------
(* Who may do and see what, on small instances: accounts, organizations, rate limits and the   *)
(* queries of a caller.  They share no variable, so that a behaviour of all of them is an      *)
(* interleaving of one of each: in a behaviour of this module one of them is at work and the   *)
(* others rest as they began.                                                                  *)
EXTENDS Accounts, Organizations, RateLimit, Queries, TLC

CONSTANTS a1, a2, mail, internal, d1, b1, b2

VARIABLE part

MCEmail == (a1 :> mail) @@ (a2 :> mail)
MCChanges ==
  {[remove |-> TRUE, role |-> "none", level |-> "none"],
   [remove |-> FALSE, role |-> "owner", level |-> "none"],
   [remove |-> FALSE, role |-> "admin", level |-> internal],
   [remove |-> FALSE, role |-> "none", level |-> internal]}

MCCorpusKind == (d1 :> "document") @@ (b1 :> "database") @@ (b2 :> "database")
MCFusions == {{"vector", "window", "lexical"}, {"graph", "lexical"}}

\* Without a key for the generation of SQL there is no retriever for databases.
MCConfigured == [s \in Settings |-> IF s = "pinecone" THEN Retrievers \ {"sql"} ELSE Retrievers]

\* A deployment without databases and graph, one without databases, and one with two of them.
SmallCorpus ==
  /\ chart.there <=> setting # "pinecone"
  /\ \A b \in {b1, b2} : entry[b].label = IF setting = "hosted" THEN 1 ELSE 0

\* Where the queries rest.
QuietCorpus == setting = "local" /\ entry = [s \in Corpus |-> NoEntry] /\ SmallCorpus

Symmetry == Permutations(OrgCalls) \cup Permutations(Users)

AccessInit ==
  /\ part \in {"accounts", "organizations", "limits", "queries"}
  /\ AccountInit
  /\ OrgInit
  /\ LimitInit
  /\ part # "limits" => backend = "memory"
  /\ QueryInit
  /\ IF part = "queries" THEN SmallCorpus ELSE QuietCorpus

AccessNext ==
  \/ part = "accounts" /\ AccountNext /\ UNCHANGED <<orgVars, limitVars, queryVars, part>>
  \/ part = "organizations" /\ OrgNext /\ UNCHANGED <<accountVars, limitVars, queryVars, part>>
  \/ part = "limits" /\ LimitNext /\ UNCHANGED <<accountVars, orgVars, queryVars, part>>
  \/ part = "queries" /\ QueryNext /\ UNCHANGED <<accountVars, orgVars, limitVars, part>>

AccessSpec == AccessInit /\ [][AccessNext]_<<accountVars, orgVars, limitVars, queryVars, part>>

\* Every variable of each keeps its type.
AccessTypeOK == AccountTypeOK /\ OrgTypeOK /\ LimitTypeOK /\ QueryTypeOK
=============================================================================
