------------------------------- MODULE Migration -------------------------------
(* The migration of a local workspace to the hosted stores (src/app/persistence/migration.py): *)
(* "migrate" copies sources and active generations, "verify" compares, "cutover" publishes.    *)
(* A command may die between any two steps and be given again.  Meanwhile the local application *)
(* (src/app/ingestion, src/app/retrieval/indexing.py), whose registry is in memory, goes on     *)
(* ingesting, indexing and removing.  The target is written through                            *)
(* PostgresPersistenceRepository (src/app/persistence/metadata.py), and nobody else writes it.  *)
EXTENDS Naturals, FiniteSets

CONSTANTS Items,           \* sources of the workspace
          MaxBuilds,       \* bound on the local generations of each kind
          MaxTurns         \* bound on the commands given and on what is asked of the local
                           \* application beside ingestion: indexing, removal, a graph

ASSUME MigrationAssumption ==
  /\ MaxBuilds \in Nat /\ MaxTurns \in Nat
  /\ Items \cap {"none", "request", "done"} = {}

VARIABLES
  here,        \* source.json of each source: its status, or "none"
  papers,      \* sources whose documents are stored locally
  registry,    \* sources in the local registry
  ingest,      \* how far the ingestion of each source has come
  current,     \* the local generation of each kind, 0 for none
  holds,       \* the sources in each local retrieval generation
  builder,     \* who is to activate it: the ingestion of a source, a "request", or nobody ("done")
  rebuilt,     \* history: sources that a request had indexed before they were READY
  there,       \* the rows of the target
  copied,      \* sources whose documents are stored at the target
  checkpoint,  \* the checksum of source.json under which a source was completed, or "none"
  begun,       \* target operations: generations of each kind
  prepared,    \* the stores that are prepared, for each kind and generation
  active,      \* the generation the target has published for each kind
  command,     \* the command at work
  turns,       \* how much of that bound is used
  cut,         \* history: sources whose row was created when the command died
  early        \* history: sources copied before their ingestion was over

filesVars == <<here, papers>>
buildVars == <<current, holds, builder, rebuilt>>
localVars == <<filesVars, registry, ingest, buildVars>>
targetVars == <<there, copied, checkpoint, begun, prepared, active>>
commandVars == <<targetVars, command, cut, early>>
migrationVars == <<localVars, commandVars, turns>>

GenerationKinds == {"retrieval", "graph"}
Lifecycle == {"REGISTERED", "INDEXING", "READY", "FAILED"}
Saved == Lifecycle \ {"REGISTERED"}   \* what source.json may say
Builds == 1 .. MaxBuilds
Stages == {"none", "begun", "stored", "built", "saved", "over"}
Stores(k) == IF k = "retrieval" THEN {"vector", "lexical"} ELSE {"graph"}

NoCommand == [name |-> "none", at |-> "off", todo |-> {}, item |-> "none",
              seen |-> [s \in Items |-> "none"], found |-> [k \in GenerationKinds |-> 0], kinds |-> {}]

MigrationInit ==
  /\ here = [s \in Items |-> "none"]
  /\ papers = {} /\ registry = {} /\ rebuilt = {}
  /\ ingest = [s \in Items |-> "none"]
  /\ current = [k \in GenerationKinds |-> 0]
  /\ holds = [g \in Builds |-> {}]
  /\ builder = [g \in Builds |-> "none"]
  /\ there = [s \in Items |-> "none"]
  /\ copied = {}
  /\ checkpoint = [s \in Items |-> "none"]
  /\ begun = [k \in GenerationKinds |-> {}]
  /\ prepared = [k \in GenerationKinds |-> [g \in Builds |-> {}]]
  /\ active = [k \in GenerationKinds |-> 0]
  /\ command = NoCommand
  /\ turns = 0
  /\ cut = {} /\ early = {}

Spends == turns < MaxTurns /\ turns' = turns + 1

Known == {s \in Items : here[s] # "none"}
-----------------------------------------------------------------------------
(* The local application: ingestion *)

Reaches(s, step) == ingest' = [ingest EXCEPT ![s] = step]
Says(s, status) == here' = [here EXCEPT ![s] = status]

Appear(s) ==
  /\ ingest[s] = "none" /\ Reaches(s, "begun")
  /\ registry' = registry \cup {s}
  /\ Says(s, "INDEXING")
  /\ UNCHANGED <<papers, buildVars, commandVars, turns>>

\* Saving makes the directory of a source that was removed meanwhile again.
Store(s) ==
  /\ ingest[s] = "begun" /\ Reaches(s, "stored")
  /\ papers' = papers \cup {s}
  /\ UNCHANGED <<here, registry, buildVars, commandVars, turns>>

\* A generation is built of the sources that say READY and of one more; all have documents.
Gathered(s) == {x \in Items : here[x] = "READY"} \cup {s}

Build(s, by) ==
  /\ s \in registry /\ Gathered(s) \subseteq papers
  /\ \E g \in Builds :
       /\ builder[g] = "none" /\ \A b \in 1 .. (g - 1) : builder[b] # "none"
       /\ holds' = [holds EXCEPT ![g] = Gathered(s)]
       /\ builder' = [builder EXCEPT ![g] = by]
  /\ UNCHANGED <<filesVars, registry, current, commandVars>>

BuildOwn(s) ==
  /\ ingest[s] = "stored" /\ Reaches(s, "built")
  /\ Build(s, s)
  /\ UNCHANGED <<rebuilt, turns>>

\* source.json says READY first, then the registry, which raises if the row is gone.
SaveReady(s) ==
  /\ ingest[s] = "built" /\ Reaches(s, IF s \in registry THEN "saved" ELSE "over")
  /\ Says(s, "READY")
  /\ UNCHANGED <<papers, registry, buildVars, commandVars, turns>>

\* The pointer moves last.
Activate(g) ==
  /\ \/ builder[g] = "request" /\ UNCHANGED ingest
     \/ \E s \in Items : builder[g] = s /\ ingest[s] = "saved" /\ Reaches(s, "over")
  /\ current' = [current EXCEPT !["retrieval"] = g]
  /\ builder' = [builder EXCEPT ![g] = "done"]
  /\ UNCHANGED <<filesVars, registry, holds, rebuilt, commandVars, turns>>

\* Any step may fail, the activation too, and so may the record of the failure, or the process ends.
Fail(s) ==
  /\ ingest[s] \in {"begun", "stored", "built", "saved"} /\ Reaches(s, "over")
  /\ Says(s, "FAILED") \/ UNCHANGED here
  /\ UNCHANGED <<papers, registry, buildVars, commandVars, turns>>

-----------------------------------------------------------------------------
(* The local application: indexing and removal on request, graphs *)

Rebuild(s) ==
  /\ Spends
  /\ Build(s, "request")
  /\ rebuilt' = IF here[s] = "READY" THEN rebuilt ELSE rebuilt \cup {s}
  /\ UNCHANGED ingest

\* The row goes, then the files: in between the files are seen as they were before, and a step of
\* the ingestion that needs the row fails.  No generation is changed.
RemoveSource(s) ==
  /\ Spends
  /\ s \in registry /\ registry' = registry \ {s}
  /\ Says(s, "none") /\ papers' = papers \ {s}
  /\ UNCHANGED <<ingest, buildVars, commandVars>>

BuildGraph ==
  /\ Spends
  /\ current["graph"] + 1 \in Builds /\ \E s \in Items : here[s] = "READY"
  /\ current' = [current EXCEPT !["graph"] = @ + 1]
  /\ UNCHANGED <<filesVars, registry, ingest, holds, builder, rebuilt, commandVars>>

-----------------------------------------------------------------------------
(* Commands *)

Goes(at) == command' = [command EXCEPT !.at = at]
Stops == command' = NoCommand
OnlyCommand == UNCHANGED <<localVars, targetVars, turns, cut, early>>

\* Every command takes an inventory first, which loads the documents of every source listed.
Inventory ==
  [NoCommand EXCEPT !.found = current, !.kinds = {k \in GenerationKinds : current[k] # 0}]

Countable == Known \subseteq papers

Give(name) ==
  /\ command = NoCommand /\ Spends
  /\ command' = IF Countable
                THEN [Inventory EXCEPT !.name = name,
                                       !.at = IF name = "migrate" THEN "list" ELSE "verify"]
                ELSE NoCommand
  /\ UNCHANGED <<localVars, targetVars, cut, early>>

\* The process dies; a row that was created and not yet brought to its status stays so.
Die ==
  /\ command # NoCommand
  /\ Stops
  /\ cut' = IF command.at \in {"created", "indexing"} THEN cut \cup {command.item} ELSE cut
  /\ UNCHANGED <<localVars, targetVars, turns, early>>

-----------------------------------------------------------------------------
(* migrate: the sources, one after the other *)

DoneIfThere(s) == there[s] # "none"
Done(s) == checkpoint[s] = command.seen[s]

\* The records are read at once; the status stands for the checksum of a record.
ListSources ==
  /\ command.at = "list"
  /\ command' = [command EXCEPT !.at = "sources", !.todo = Known, !.seen = here]
  /\ OnlyCommand

Skip(s) ==
  /\ command.at = "sources" /\ s \in command.todo /\ Done(s)
  /\ command' = [command EXCEPT !.todo = @ \ {s}]
  /\ OnlyCommand

Takes(s, at) == command' = [command EXCEPT !.todo = @ \ {s}, !.item = s, !.at = at]

SameLifecycle(s) == there[s] = command.seen[s]

FindRecord(s) ==
  /\ command.at = "sources" /\ s \in command.todo /\ ~Done(s)
  /\ there[s] # "none"
  /\ IF SameLifecycle(s) THEN Takes(s, "documents") ELSE Stops
  /\ OnlyCommand

\* The ingestion is over, and what the listing saw is what it came to.
Over(s) == ingest[s] = "over"
OverAsSeen(s) == Over(s) /\ here[s] = command.seen[s]

\* The row is created REGISTERED and brought to its status by transitions.
CreateRecord(s) ==
  /\ command.at = "sources" /\ s \in command.todo /\ ~Done(s)
  /\ there[s] = "none"
  /\ there' = [there EXCEPT ![s] = "REGISTERED"]
  /\ Takes(s, "created")
  /\ early' = IF OverAsSeen(s) THEN early ELSE early \cup {s}
  /\ UNCHANGED <<localVars, copied, checkpoint, begun, prepared, active, turns, cut>>

Status == command.seen[command.item]

FirstStatusAlways == "INDEXING"
FirstStatus == IF Status = "FAILED" THEN "FAILED" ELSE "INDEXING"

FirstTransition ==
  /\ command.at = "created"
  /\ there' = [there EXCEPT ![command.item] = FirstStatus]
  /\ Goes(IF Status = "READY" THEN "indexing" ELSE "documents")
  /\ UNCHANGED <<localVars, copied, checkpoint, begun, prepared, active, turns, cut, early>>

SecondTransition ==
  /\ command.at = "indexing"
  /\ there' = [there EXCEPT ![command.item] = "READY"]
  /\ Goes("documents")
  /\ UNCHANGED <<localVars, copied, checkpoint, begun, prepared, active, turns, cut, early>>

CopyDocuments ==
  /\ command.at = "documents"
  /\ IF command.item \in papers
     THEN copied' = copied \cup {command.item} /\ Goes("checkpoint")
     ELSE Stops /\ UNCHANGED copied
  /\ UNCHANGED <<localVars, there, checkpoint, begun, prepared, active, turns, cut, early>>

\* A checkpoint under another checksum is refused.
Checkpoint ==
  /\ command.at = "checkpoint"
  /\ IF checkpoint[command.item] \in {"none", Status}
     THEN /\ checkpoint' = [checkpoint EXCEPT ![command.item] = Status]
          /\ command' = [command EXCEPT !.at = "sources", !.item = "none"]
     ELSE Stops /\ UNCHANGED checkpoint
  /\ UNCHANGED <<localVars, there, copied, begun, prepared, active, turns, cut, early>>

-----------------------------------------------------------------------------
(* migrate: the active generations *)

SourcesDone ==
  /\ command.at = "sources" /\ command.todo = {}
  /\ command' = [command EXCEPT !.at = "generations", !.seen = NoCommand.seen]
  /\ OnlyCommand

\* The operation of a generation is found or begun.
Operation(k) ==
  /\ command.at = "generations" /\ k \in command.kinds
  /\ k = "graph" => "retrieval" \notin command.kinds
  /\ begun' = [begun EXCEPT ![k] = @ \cup {command.found[k]}]
  /\ Goes(IF k = "retrieval" THEN "vector" ELSE "graph")
  /\ UNCHANGED <<localVars, there, copied, checkpoint, prepared, active, turns, cut, early>>

\* The graph is loaded through its pointer, which must not have moved.
PrepareStore(k, store) ==
  LET g == command.found[k] IN
  /\ command.at = store /\ store \in Stores(k)
  /\ IF store = "graph" /\ current["graph"] # g
     THEN Stops /\ UNCHANGED prepared
     ELSE /\ prepared' = [prepared EXCEPT ![k][g] = @ \cup {store}]
          /\ command' = IF store = "vector" THEN [command EXCEPT !.at = "lexical"]
                        ELSE [command EXCEPT !.at = "generations", !.kinds = @ \ {k}]
  /\ UNCHANGED <<localVars, there, copied, checkpoint, begun, active, turns, cut, early>>

\* migrate ends with a verification of its own, which changes nothing.
GenerationsDone ==
  /\ command.at = "generations" /\ command.kinds = {}
  /\ Stops
  /\ OnlyCommand

-----------------------------------------------------------------------------
(* verify and cutover *)

\* The documents of every local source are compared; a missing copy is an error.
Equal(S) == S = {s \in Items : there[s] # "none"} /\ S \subseteq copied

Verify ==
  /\ command.at = "verify"
  /\ IF command.name = "cutover" /\ Countable /\ Equal(Known)
     THEN Goes("publish")
     ELSE Stops
  /\ OnlyCommand

\* Each store is asked for the generation of the inventory, then the operation is published.
Whole(k, g) == Stores(k) \subseteq prepared[k][g]

PublishKind(k) ==
  LET g == command.found[k] IN
  /\ command.at = "publish" /\ k \in command.kinds
  /\ k = "graph" => "retrieval" \notin command.kinds
  /\ IF Whole(k, g) /\ g \in begun[k]
     THEN /\ active' = [active EXCEPT ![k] = g]
          /\ command' = [command EXCEPT !.kinds = @ \ {k}]
     ELSE Stops /\ UNCHANGED active
  /\ UNCHANGED <<localVars, there, copied, checkpoint, begun, prepared, turns, cut, early>>

Published ==
  /\ command.at = "publish" /\ command.kinds = {}
  /\ Stops
  /\ OnlyCommand

MigrationNext ==
  \/ \E s \in Items : Appear(s) \/ Store(s) \/ BuildOwn(s) \/ SaveReady(s) \/ Fail(s)
  \/ \E s \in Items : Rebuild(s) \/ RemoveSource(s)
  \/ (\E g \in Builds : Activate(g)) \/ BuildGraph
  \/ \E s \in Items : Skip(s) \/ FindRecord(s) \/ CreateRecord(s)
  \/ \E name \in {"migrate", "cutover"} : Give(name)
  \/ Die
  \/ ListSources \/ FirstTransition \/ SecondTransition
  \/ CopyDocuments \/ Checkpoint \/ SourcesDone
  \/ \E k \in GenerationKinds :
       Operation(k) \/ (\E store \in Stores(k) : PrepareStore(k, store)) \/ PublishKind(k)
  \/ GenerationsDone \/ Verify \/ Published

MigrationSpec == MigrationInit /\ [][MigrationNext]_migrationVars
-----------------------------------------------------------------------------
(* Properties *)

\* Every variable keeps its type.
MigrationTypeOK ==
  /\ here \in [Items -> Saved \cup {"none"}] /\ there \in [Items -> Lifecycle \cup {"none"}]
  /\ registry \subseteq Items /\ rebuilt \subseteq Items
  /\ ingest \in [Items -> Stages] /\ builder \in [Builds -> Items \cup {"none", "request", "done"}]
  /\ papers \subseteq Items /\ copied \subseteq Items /\ cut \subseteq Items /\ early \subseteq Items
  /\ current \in [GenerationKinds -> 0 .. MaxBuilds] /\ active \in [GenerationKinds -> 0 .. MaxBuilds]
  /\ holds \in [Builds -> SUBSET Items]
  /\ checkpoint \in [Items -> Saved \cup {"none"}]
  /\ begun \in [GenerationKinds -> SUBSET Builds]
  /\ prepared \in [GenerationKinds -> [Builds -> SUBSET {"vector", "lexical", "graph"}]]
  /\ command \in [name : {"none", "migrate", "cutover"},
       at : {"off", "list", "sources", "created", "indexing", "documents", "checkpoint",
             "generations", "vector", "lexical", "graph", "verify", "publish"},
       todo : SUBSET Items, item : Items \cup {"none"}, seen : [Items -> Saved \cup {"none"}],
       found : [GenerationKinds -> 0 .. MaxBuilds], kinds : SUBSET GenerationKinds]
  /\ turns \in 0 .. MaxTurns

\* "The migration is explicit and resumable": a row of the target whose status is not that of the
\* local source makes every later migrate refuse it.  That is so only for a source whose row was
\* just created when a command died, or that was copied before its ingestion was over: source.json
\* says READY before the pointers move, and FAILED if they do not.
ResumesUnlessCut ==
  \A s \in Known :
    there[s] \notin {"none", here[s]} =>
      s \in cut \cup early \/ (command.item = s /\ command.at \in {"created", "indexing"})

\* The generation a cutover publishes is prepared in every store, and no command that died half
\* way lacks it a source: each one in it that the local workspace has READY is READY at the target
\* with its documents, unless it was indexed by request before it was READY.  Nothing is said of
\* the sources in it that failed or were removed locally, which no command compares.
CutoverWhole ==
  \A k \in GenerationKinds :
    active[k] # 0 =>
      /\ Whole(k, active[k])
      /\ k = "retrieval" =>
           \A s \in holds[active[k]] \ rebuilt :
             here[s] = "READY" => s \in copied /\ there[s] = "READY"
=============================================================================
