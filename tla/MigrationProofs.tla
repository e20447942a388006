---------------------------- MODULE MigrationProofs ----------------------------
(* Theorems about Migration, for any sources, generations and number of commands. *)
EXTENDS Migration, TLAPS

(* The inductive invariant *)

\* The source is READY at the target, with its documents.
Settled(s) == there[s] = "READY" /\ s \in copied

AtItem == {"created", "indexing", "documents", "checkpoint"}
AtGenerations == {"generations", "vector", "lexical", "graph"}
Listing == {"sources"} \cup AtItem \cup AtGenerations

\* The source has become READY or failed: it may cease to be READY, and never becomes it again.
Past(s) == ingest[s] \in {"saved", "over"}

\* A generation that exists, and whose sources are past, but for those indexed by request.
Fixed(g) == builder[g] # "none" /\ \A s \in holds[g] \ rebuilt : Past(s)

\* A generation is activated when its sources are past, or awaits the one that builds it.
BuildsTrue ==
  /\ \A s \in Items : here[s] = "READY" => Past(s)
  /\ \A g \in Builds : builder[g] # "none" => \A s \in holds[g] \ rebuilt : Past(s) \/ builder[g] = s
  /\ current["retrieval"] # 0 => Fixed(current["retrieval"])

\* A command works on generations its inventory has found.
FoundExist ==
  /\ command.found["retrieval"] # 0 => Fixed(command.found["retrieval"])
  /\ \A k \in command.kinds : command.found[k] # 0
  /\ command.at \in {"vector", "lexical"} => "retrieval" \in command.kinds
  /\ command.at = "graph" => "graph" \in command.kinds

\* A source that must be settled is, or a listing that saw it READY has not been through it.
Awaited(s) ==
  /\ command.at \notin AtGenerations /\ command.seen[s] = "READY"
  /\ s \in command.todo \/ (s = command.item /\ command.at \in AtItem)

ListingTrue ==
  command.at \in Listing /\ command.found["retrieval"] # 0 =>
    \A s \in holds[command.found["retrieval"]] \ rebuilt :
      here[s] = "READY" => Settled(s) \/ Awaited(s)

CheckpointsTrue == \A s \in Items : checkpoint[s] = "READY" => Settled(s)

\* A generation is prepared when its sources that are still READY are settled.
PreparedSettled ==
  \A g \in Builds :
    prepared["retrieval"][g] # {} =>
      Fixed(g) /\ \A s \in holds[g] \ rebuilt : here[s] = "READY" => Settled(s)

ActiveWhole == \A k \in GenerationKinds : active[k] # 0 => Whole(k, active[k])

\* What the listing saw of the source at work is what it will stay, or it was copied early.
Agreed ==
  \/ command.item \in early
  \/ Over(command.item) /\ here[command.item] \in {Status, "none"}

\* How far the row of the source at work has come.
ItemState ==
  /\ \A s \in command.todo : command.seen[s] # "none"
  /\ command.at \in AtItem => command.item \in Items
  /\ command.at = "created" => there[command.item] = "REGISTERED" /\ Status # "none" /\ Agreed
  /\ command.at = "indexing" => there[command.item] = "INDEXING" /\ Status = "READY" /\ Agreed
  /\ command.at \in {"documents", "checkpoint"} /\ Status = "READY" => there[command.item] = "READY"
  /\ command.at = "checkpoint" => command.item \in copied

InWork(s) == command.item = s /\ command.at \in {"created", "indexing"}

\* The rows of the target that nothing excuses agree with what the local source came to, or it is
\* removed.
RowsAgree ==
  \A s \in Items :
    there[s] # "none" =>
      \/ s \in cut \cup early \/ InWork(s)
      \/ Over(s) /\ here[s] \in {there[s], "none"}

MigrationInv ==
  /\ MigrationTypeOK
  /\ BuildsTrue /\ FoundExist /\ ListingTrue /\ CheckpointsTrue
  /\ PreparedSettled /\ ActiveWhole /\ ItemState /\ RowsAgree
-----------------------------------------------------------------------------
\* The fields of the command have their types.
CommandTyped ==
  /\ command.name \in {"none", "migrate", "cutover"}
  /\ command.todo \subseteq Items /\ command.item \in Items \cup {"none"}
  /\ command.seen \in [Items -> Saved \cup {"none"}]
  /\ command.found \in [GenerationKinds -> 0 .. MaxBuilds]
  /\ command.kinds \subseteq GenerationKinds

LEMMA CommandFields == MigrationTypeOK => CommandTyped
BY DEF MigrationTypeOK, CommandTyped

LEMMA InitInv == MigrationInit => MigrationInv
<1> SUFFICES ASSUME MigrationInit
             PROVE  MigrationInv
  OBVIOUS
<1> USE MigrationAssumption DEF MigrationInit, NoCommand
<1>1. MigrationTypeOK
  BY DEF MigrationTypeOK, Saved, Lifecycle, Builds, GenerationKinds, Stages
<1>2. BuildsTrue /\ FoundExist /\ ListingTrue
  BY DEF BuildsTrue, FoundExist, ListingTrue, Listing, AtItem, AtGenerations, GenerationKinds
<1>3. CheckpointsTrue /\ PreparedSettled /\ ActiveWhole
  BY DEF CheckpointsTrue, PreparedSettled, ActiveWhole, GenerationKinds
<1>4. ItemState /\ RowsAgree
  BY DEF ItemState, AtItem, RowsAgree
<1> QED
  BY <1>1, <1>2, <1>3, <1>4 DEF MigrationInv

\* What is prepared, published and checked off stays in order while rows and copies only get
\* nearer to what they should be, and nothing changes locally.
LEMMA StoresStay ==
  ASSUME MigrationInv, \A s \in Items : Settled(s) => Settled(s)',
         UNCHANGED <<localVars, prepared, active>>
  PROVE  PreparedSettled' /\ ActiveWhole'
<1>1. holds \in [Builds -> SUBSET Items]
  BY DEF MigrationInv, MigrationTypeOK
<1>2. PreparedSettled'
  BY <1>1 DEF MigrationInv, PreparedSettled, Fixed, Past, localVars, filesVars, buildVars
<1> QED
  BY <1>2 DEF MigrationInv, ActiveWhole, Whole
-----------------------------------------------------------------------------
(* The local application *)

\* A source that is past stays past, and what is over changes no more, but for a removal.
SourcesAge ==
  \A s \in Items :
    /\ Past(s) => Past(s)' /\ (here'[s] = "READY" => here[s] = "READY")
    /\ Over(s) => Over(s)' /\ here'[s] \in {here[s], "none"}

\* A generation that exists stays what it is.
BuildsStay ==
  /\ rebuilt \subseteq rebuilt'
  /\ \A g \in Builds : builder[g] # "none" => builder'[g] # "none" /\ holds'[g] = holds[g]

LocalTyped ==
  /\ here \in [Items -> Saved \cup {"none"}] /\ papers \subseteq Items
  /\ registry \subseteq Items /\ ingest \in [Items -> Stages]
  /\ current \in [GenerationKinds -> 0 .. MaxBuilds] /\ holds \in [Builds -> SUBSET Items]
  /\ builder \in [Builds -> Items \cup {"none", "request", "done"}] /\ rebuilt \subseteq Items

\* The target and the command rest, and every local step is of this form.
LEMMA LocalStep ==
  ASSUME MigrationInv, UNCHANGED commandVars, turns' \in 0 .. MaxTurns,
         LocalTyped', SourcesAge, BuildsStay, BuildsTrue'
  PROVE  MigrationInv'
<1>1. UNCHANGED <<there, copied, checkpoint, begun, prepared, active, command, cut, early>>
  BY DEF commandVars, targetVars
<1>2. /\ MigrationTypeOK /\ CommandTyped /\ holds \in [Builds -> SUBSET Items]
  BY CommandFields DEF MigrationInv, MigrationTypeOK
<1>3. MigrationTypeOK'
  BY <1>1, <1>2 DEF MigrationTypeOK, LocalTyped
<1>4. ASSUME NEW g \in Builds, Fixed(g)
      PROVE  /\ Fixed(g)' /\ holds[g] \subseteq Items
             /\ \A s \in holds'[g] \ rebuilt' :
                  s \in holds[g] \ rebuilt /\ (here'[s] = "READY" => here[s] = "READY")
  BY <1>2, <1>4 DEF Fixed, BuildsStay, SourcesAge
<1>5. command.found["retrieval"] # 0 =>
        command.found["retrieval"] \in Builds /\ Fixed(command.found["retrieval"])
  BY <1>2, MigrationAssumption DEF MigrationInv, FoundExist, CommandTyped, GenerationKinds, Builds
<1>6. FoundExist'
  BY <1>1, <1>4, <1>5 DEF MigrationInv, FoundExist
<1>7. ListingTrue'
  BY <1>1, <1>4, <1>5 DEF MigrationInv, ListingTrue, Settled, Awaited
<1>8. CheckpointsTrue' /\ ActiveWhole'
  BY <1>1 DEF MigrationInv, CheckpointsTrue, ActiveWhole, Settled, Whole
<1>9. PreparedSettled'
  BY <1>1, <1>4 DEF MigrationInv, PreparedSettled, Settled
<1>10. ItemState'
  BY <1>1 DEF MigrationInv, ItemState, Status, Agreed, SourcesAge, AtItem
<1>11. RowsAgree'
  BY <1>1 DEF MigrationInv, RowsAgree, InWork, SourcesAge
<1> QED
  BY <1>3, <1>6, <1>7, <1>8, <1>9, <1>10, <1>11 DEF MigrationInv

LEMMA LocalFacts ==
  ASSUME MigrationInv
  PROVE  LocalTyped /\ BuildsTrue /\ turns \in 0 .. MaxTurns
BY DEF MigrationInv, MigrationTypeOK, LocalTyped

LEMMA SpendsTyped == ASSUME MigrationInv, Spends PROVE turns' \in 0 .. MaxTurns
BY LocalFacts, MigrationAssumption DEF Spends

\* A step of an ingestion that builds and activates nothing.
LEMMA IngestStep ==
  ASSUME MigrationInv, NEW s \in Items, NEW step \in Stages, NEW status \in Saved,
         ~Over(s), Past(s) => step = "over", Reaches(s, step),
         here' = here \/ Says(s, status),
         Past(s) => status # "READY", status = "READY" => step \in {"saved", "over"},
         papers' \subseteq Items, registry' \subseteq Items,
         UNCHANGED <<buildVars, commandVars, turns>>
  PROVE  MigrationInv'
<1>1. LocalTyped /\ BuildsTrue
  BY LocalFacts
<1>2. /\ LocalTyped' /\ turns' \in 0 .. MaxTurns
  BY <1>1, LocalFacts DEF LocalTyped, Reaches, Says, buildVars
<1>3. SourcesAge
  BY <1>1 DEF SourcesAge, LocalTyped, Past, Over, Reaches, Says
<1>4. BuildsStay
  BY DEF BuildsStay, buildVars
<1>5. BuildsTrue'
  <2>1. \A x \in Items : Past(x) => Past(x)'
    BY <1>3 DEF SourcesAge
  <2>2. ASSUME NEW x \in Items, here'[x] = "READY"
        PROVE  Past(x)'
    BY <1>1, <2>1, <2>2 DEF LocalTyped, BuildsTrue, Past, Reaches, Says
  <2>3. \A g \in Builds : builder[g] # "none" =>
          \A x \in holds[g] \ rebuilt : Past(x)' \/ builder[g] = x
    BY <1>1, <2>1 DEF LocalTyped, BuildsTrue
  <2>4. current["retrieval"] # 0 => current["retrieval"] \in Builds
    BY <1>1, MigrationAssumption DEF LocalTyped, Builds, GenerationKinds
  <2>5. current["retrieval"] # 0 => \A x \in holds[current["retrieval"]] : x \in Items
    BY <1>1, <2>4 DEF LocalTyped
  <2> QED
    BY <1>1, <2>1, <2>2, <2>3, <2>5 DEF BuildsTrue, Fixed, buildVars
<1> QED
  BY <1>2, <1>3, <1>4, <1>5, LocalStep

LEMMA IngestionSteps ==
  ASSUME MigrationInv, NEW s \in Items, Appear(s) \/ Store(s) \/ SaveReady(s) \/ Fail(s)
  PROVE  MigrationInv'
<1>1. LocalTyped /\ UNCHANGED <<buildVars, commandVars, turns>>
  BY LocalFacts DEF Appear, Store, SaveReady, Fail
<1>2. /\ "begun" \in Stages /\ "stored" \in Stages /\ "saved" \in Stages /\ "over" \in Stages
      /\ Saved = {"INDEXING", "READY", "FAILED"}
  BY DEF Stages, Saved, Lifecycle
<1>3. CASE Appear(s)
  BY <1>1, <1>2, <1>3, IngestStep DEF Appear, LocalTyped, Over, Past
<1>4. CASE Store(s)
  BY <1>1, <1>2, <1>4, IngestStep DEF Store, LocalTyped, Over, Past
<1>5. CASE SaveReady(s)
  <2> DEFINE step == IF s \in registry THEN "saved" ELSE "over"
  <2>1. /\ ingest[s] = "built" /\ Reaches(s, step) /\ Says(s, "READY") /\ UNCHANGED <<papers, registry>>
        /\ step \in {"saved", "over"}
    BY <1>5 DEF SaveReady
  <2> HIDE DEF step
  <2> QED
    BY <1>1, <1>2, <2>1, IngestStep DEF LocalTyped, Over, Past
<1>6. CASE Fail(s)
  BY <1>1, <1>2, <1>6, IngestStep DEF Fail, LocalTyped, Over, Past
<1> QED
  BY <1>3, <1>4, <1>5, <1>6

\* A new generation holds sources that are past, and the one it is built for.
LEMMA BuildStep ==
  ASSUME MigrationInv, NEW s \in Items, NEW by \in Items \cup {"request"}, Build(s, by),
         SourcesAge, ingest' \in [Items -> Stages], rebuilt \subseteq rebuilt', rebuilt' \subseteq Items,
         by = s \/ s \in rebuilt' \/ Past(s)', turns' \in 0 .. MaxTurns
  PROVE  MigrationInv'
<1>1. LocalTyped /\ BuildsTrue
  BY LocalFacts
<1>2. PICK g \in Builds :
        /\ builder[g] = "none" /\ holds' = [holds EXCEPT ![g] = Gathered(s)]
        /\ builder' = [builder EXCEPT ![g] = by]
  BY DEF Build
<1>3. UNCHANGED <<here, papers, registry, current, commandVars>> /\ Gathered(s) \subseteq Items
  BY DEF Build, filesVars, Gathered
<1>4. LocalTyped'
  BY <1>1, <1>2, <1>3 DEF LocalTyped
<1>5. BuildsStay
  BY <1>1, <1>2, MigrationAssumption DEF BuildsStay, LocalTyped
<1>6. BuildsTrue'
  <2>1. \A x \in Items : Past(x) => Past(x)'
    BY DEF SourcesAge
  <2>2. ASSUME NEW b \in Builds, builder'[b] # "none", NEW x \in holds'[b] \ rebuilt'
        PROVE  Past(x)' \/ builder'[b] = x
    <3>1. CASE b = g
      <4>1. x \in Gathered(s) /\ builder'[b] = by
        BY <1>1, <1>2, <2>2, <3>1 DEF LocalTyped
      <4>2. CASE x = s
        BY <2>2, <4>1, <4>2
      <4>3. CASE x # s
        BY <1>1, <2>1, <4>1, <4>3 DEF BuildsTrue, Gathered
      <4> QED
        BY <4>2, <4>3
    <3>2. CASE b # g
      <4>1. builder'[b] = builder[b] /\ x \in holds[b] \ rebuilt /\ x \in Items
        BY <1>1, <1>2, <2>2, <3>2 DEF LocalTyped
      <4> QED
        BY <1>1, <2>1, <2>2, <4>1 DEF BuildsTrue
    <3> QED
      BY <3>1, <3>2
  <2>3. ASSUME current["retrieval"] # 0
        PROVE  Fixed(current["retrieval"])'
    <3>1. current["retrieval"] \in Builds /\ Fixed(current["retrieval"])
      BY <1>1, <2>3, MigrationAssumption DEF LocalTyped, BuildsTrue, Builds, GenerationKinds
    <3>2. /\ builder'[current["retrieval"]] # "none"
          /\ holds'[current["retrieval"]] = holds[current["retrieval"]]
          /\ holds[current["retrieval"]] \subseteq Items
      BY <1>1, <1>5, <3>1 DEF LocalTyped, BuildsStay, Fixed
    <3> QED
      BY <1>3, <2>1, <3>1, <3>2 DEF Fixed
  <2> QED
    BY <1>1, <1>3, <2>1, <2>2, <2>3 DEF BuildsTrue
<1> QED
  BY <1>3, <1>4, <1>5, <1>6, LocalStep

LEMMA BuildSteps ==
  ASSUME MigrationInv, NEW s \in Items, BuildOwn(s) \/ Rebuild(s)
  PROVE  MigrationInv'
<1>1. LocalTyped /\ BuildsTrue
  BY LocalFacts
<1>2. here' = here
  BY DEF BuildOwn, Rebuild, Build, filesVars
<1>3. CASE BuildOwn(s)
  <2>1. /\ ingest[s] = "stored" /\ ingest' = [ingest EXCEPT ![s] = "built"] /\ Build(s, s)
        /\ UNCHANGED <<rebuilt, turns>>
    BY <1>3 DEF BuildOwn, Reaches
  <2>2. SourcesAge
    BY <1>1, <1>2, <2>1 DEF SourcesAge, Past, Over, LocalTyped
  <2>3. ingest' \in [Items -> Stages]
    BY <1>1, <2>1 DEF LocalTyped, Stages
  <2> QED
    BY <1>1, <2>1, <2>2, <2>3, BuildStep, LocalFacts DEF LocalTyped
<1>4. CASE Rebuild(s)
  <2>1. /\ Spends /\ Build(s, "request") /\ ingest' = ingest
        /\ rebuilt' = IF here[s] = "READY" THEN rebuilt ELSE rebuilt \cup {s}
    BY <1>4 DEF Rebuild
  <2>2. SourcesAge
    BY <1>2, <2>1 DEF SourcesAge, Past, Over
  <2>3. s \in rebuilt' \/ Past(s)'
    BY <1>1, <2>1 DEF BuildsTrue, Past
  <2>4. rebuilt \subseteq rebuilt' /\ rebuilt' \subseteq Items
    BY <1>1, <2>1 DEF LocalTyped
  <2> QED
    BY <1>1, <2>1, <2>2, <2>3, <2>4, SpendsTyped, BuildStep DEF LocalTyped
<1> QED
  BY <1>3, <1>4

LEMMA ActivateStep ==
  ASSUME MigrationInv, NEW g \in Builds, Activate(g)
  PROVE  MigrationInv'
<1>1. LocalTyped /\ BuildsTrue
  BY LocalFacts
<1>2. /\ current' = [current EXCEPT !["retrieval"] = g] /\ builder' = [builder EXCEPT ![g] = "done"]
      /\ UNCHANGED <<here, papers, registry, holds, rebuilt, commandVars, turns>>
  BY DEF Activate, filesVars
<1>3. /\ ingest' \in [Items -> Stages]
      /\ \A x \in Items : (Past(x) => Past(x)') /\ (Over(x) => Over(x)')
  BY <1>1 DEF Activate, Reaches, LocalTyped, Past, Over, Stages
<1>4. builder[g] # "none" /\ \A x \in holds[g] \ rebuilt : Past(x)'
  <2>1. holds[g] \subseteq Items
    BY <1>1 DEF LocalTyped
  <2>2. CASE builder[g] = "request"
    BY <1>1, <1>3, <2>1, <2>2, MigrationAssumption DEF BuildsTrue
  <2>3. CASE \E s \in Items : builder[g] = s /\ ingest[s] = "saved" /\ Reaches(s, "over")
    BY <1>1, <1>3, <2>1, <2>3, MigrationAssumption DEF BuildsTrue, Past
  <2> QED
    BY <2>2, <2>3 DEF Activate
<1>5. LocalTyped' /\ turns' \in 0 .. MaxTurns
  <2>1. current' \in [GenerationKinds -> 0 .. MaxBuilds]
    <3>1. g \in 0 .. MaxBuilds
      BY MigrationAssumption DEF Builds
    <3> QED
      BY <1>1, <1>2, <3>1 DEF LocalTyped
  <2>2. builder' \in [Builds -> Items \cup {"none", "request", "done"}]
    BY <1>1, <1>2 DEF LocalTyped
  <2> QED
    BY <1>1, <1>2, <1>3, <2>1, <2>2, LocalFacts DEF LocalTyped
<1>6. SourcesAge /\ BuildsStay
  BY <1>1, <1>2, <1>3 DEF SourcesAge, BuildsStay, LocalTyped
<1>7. BuildsTrue'
  <2>1. \A x \in Items : here[x] = "READY" => Past(x)'
    BY <1>1, <1>3 DEF BuildsTrue
  <2>2. ASSUME NEW b \in Builds, builder'[b] # "none", NEW x \in holds[b] \ rebuilt
        PROVE  Past(x)' \/ builder'[b] = x
    <3>1. CASE b = g
      BY <1>4, <2>2, <3>1
    <3>2. CASE b # g
      <4>1. builder'[b] = builder[b] /\ x \in Items
        BY <1>1, <1>2, <2>2, <3>2 DEF LocalTyped
      <4> QED
        BY <1>1, <1>3, <2>2, <4>1 DEF BuildsTrue
    <3> QED
      BY <3>1, <3>2
  <2>3. current'["retrieval"] = g /\ builder'[g] # "none"
    BY <1>1, <1>2 DEF LocalTyped, GenerationKinds
  <2> QED
    BY <1>2, <1>4, <2>1, <2>2, <2>3 DEF BuildsTrue, Fixed
<1> QED
  BY <1>2, <1>5, <1>6, <1>7, LocalStep

\* A removal takes the files of a source, and a graph reads none of the generations.
LEMMA OtherLocalSteps ==
  ASSUME MigrationInv, BuildGraph \/ \E s \in Items : RemoveSource(s)
  PROVE  MigrationInv'
<1>1. LocalTyped /\ BuildsTrue
  BY LocalFacts
<1>2. /\ UNCHANGED <<ingest, holds, builder, rebuilt, commandVars>> /\ turns' \in 0 .. MaxTurns
  BY SpendsTyped DEF BuildGraph, RemoveSource, buildVars
<1>3. /\ here' \in [Items -> Saved \cup {"none"}] /\ papers' \subseteq Items /\ registry' \subseteq Items
      /\ \A x \in Items : here'[x] \in {here[x], "none"}
  BY <1>1 DEF BuildGraph, RemoveSource, LocalTyped, filesVars, Says
<1>4. current' \in [GenerationKinds -> 0 .. MaxBuilds] /\ current'["retrieval"] = current["retrieval"]
  <2>1. CASE BuildGraph
    BY <1>1, <2>1, MigrationAssumption DEF BuildGraph, LocalTyped, GenerationKinds, Builds
  <2>2. CASE \E s \in Items : RemoveSource(s)
    BY <1>1, <2>2 DEF RemoveSource, buildVars, LocalTyped
  <2> QED
    BY <2>1, <2>2
<1>5. LocalTyped' /\ BuildsStay
  BY <1>1, <1>2, <1>3, <1>4 DEF LocalTyped, BuildsStay
<1>6. SourcesAge
  BY <1>2, <1>3 DEF SourcesAge, Past, Over
<1>7. BuildsTrue'
  BY <1>1, <1>2, <1>3, <1>4 DEF BuildsTrue, Fixed, Past
<1> QED
  BY <1>2, <1>5, <1>6, <1>7, LocalStep
-----------------------------------------------------------------------------
(* Commands *)

\* A command that writes nothing needs only to be where it may be.
LEMMA CommandStep ==
  ASSUME MigrationInv, UNCHANGED <<localVars, targetVars, early>>,
         (MigrationTypeOK /\ FoundExist /\ ListingTrue /\ ItemState /\ RowsAgree)'
  PROVE  MigrationInv'
<1>1. BuildsTrue' /\ CheckpointsTrue' /\ PreparedSettled' /\ ActiveWhole'
  BY DEF MigrationInv, localVars, filesVars, buildVars, targetVars, BuildsTrue, CheckpointsTrue,
         PreparedSettled, ActiveWhole, Settled, Whole, Fixed, Past
<1> QED
  BY <1>1 DEF MigrationInv

LEMMA StopStep ==
  ASSUME MigrationInv, Stops, UNCHANGED <<localVars, targetVars, early>>, turns' \in 0 .. MaxTurns,
         cut' \subseteq Items, cut \subseteq cut', \A s \in Items : InWork(s) => s \in cut'
  PROVE  MigrationInv'
<1> USE DEF MigrationInv, Stops, NoCommand, localVars, filesVars, buildVars, targetVars
<1>1. MigrationTypeOK'
  BY MigrationAssumption DEF MigrationTypeOK, GenerationKinds, Lifecycle, Saved
<1>2. FoundExist'
  BY DEF FoundExist, GenerationKinds
<1>3. ListingTrue' /\ ItemState'
  BY DEF ListingTrue, Listing, AtItem, AtGenerations, ItemState
<1>4. RowsAgree'
  BY DEF RowsAgree, InWork, Over
<1> QED
  BY <1>1, <1>2, <1>3, <1>4, CommandStep

\* A command that is not at a row it has just created stops without a trace.
LEMMA QuietStop ==
  ASSUME MigrationInv, Stops, UNCHANGED <<localVars, targetVars, turns, cut, early>>,
         command.at \notin {"created", "indexing"}
  PROVE  MigrationInv'
<1>1. turns' \in 0 .. MaxTurns /\ cut' \subseteq Items
  BY DEF MigrationInv, MigrationTypeOK
<1> QED
  BY <1>1, StopStep DEF InWork

LEMMA GiveStep ==
  ASSUME MigrationInv, NEW name \in {"migrate", "cutover"}, Give(name)
  PROVE  MigrationInv'
<1>1. /\ command = NoCommand /\ turns' \in 0 .. MaxTurns
      /\ UNCHANGED <<localVars, targetVars, cut, early>>
  BY SpendsTyped DEF Give
<1>2. \A s \in Items : ~InWork(s)
  BY <1>1 DEF InWork, NoCommand
<1>3. CASE Countable
  <2> DEFINE at == IF name = "migrate" THEN "list" ELSE "verify"
             kinds == {k \in GenerationKinds : current[k] # 0}
  <2>1. command' = [name |-> name, at |-> at, todo |-> {}, item |-> "none",
                    seen |-> [s \in Items |-> "none"], found |-> current, kinds |-> kinds]
    BY <1>3 DEF Give, Inventory, NoCommand
  <2>2. /\ current \in [GenerationKinds -> 0 .. MaxBuilds]
        /\ UNCHANGED <<current, holds, builder, rebuilt, ingest, there, here>>
    BY <1>1 DEF MigrationInv, MigrationTypeOK, localVars, filesVars, buildVars, targetVars
  <2>3. MigrationTypeOK'
    BY <1>1, <2>1, <2>2 DEF MigrationInv, MigrationTypeOK, localVars, filesVars, buildVars, targetVars
  <2>4. FoundExist'
    BY <2>1, <2>2 DEF MigrationInv, BuildsTrue, FoundExist, Fixed, Past
  <2>5. ListingTrue' /\ ItemState'
    BY <2>1 DEF ListingTrue, Listing, AtItem, AtGenerations, ItemState
  <2>6. RowsAgree'
    BY <1>1, <1>2, <2>1, <2>2 DEF MigrationInv, RowsAgree, InWork, Over
  <2> QED
    BY <1>1, <2>3, <2>4, <2>5, <2>6, CommandStep
<1>4. CASE ~Countable
  <2>1. Stops
    BY <1>4 DEF Give, Stops
  <2>2. cut' \subseteq Items
    BY <1>1 DEF MigrationInv, MigrationTypeOK
  <2> QED
    BY <1>1, <1>2, <2>1, <2>2, StopStep
<1> QED
  BY <1>3, <1>4

LEMMA DieStep ==
  ASSUME MigrationInv, Die
  PROVE  MigrationInv'
<1>1. /\ Stops /\ UNCHANGED <<localVars, targetVars, turns, early>>
      /\ cut' = IF command.at \in {"created", "indexing"} THEN cut \cup {command.item} ELSE cut
  BY DEF Die
<1>2. turns' \in 0 .. MaxTurns /\ cut \subseteq Items
  BY <1>1 DEF MigrationInv, MigrationTypeOK
<1>3. command.at \in {"created", "indexing"} => command.item \in Items
  BY DEF MigrationInv, ItemState, AtItem
<1>4. cut' \subseteq Items /\ cut \subseteq cut' /\ \A s \in Items : InWork(s) => s \in cut'
  BY <1>1, <1>2, <1>3 DEF InWork
<1> QED
  BY <1>1, <1>2, <1>4, StopStep

\* The generation found exists.
LEMMA FoundHeld ==
  ASSUME MigrationInv, command.found["retrieval"] # 0
  PROVE  /\ command.found["retrieval"] \in Builds
         /\ holds[command.found["retrieval"]] \subseteq Items
         /\ Fixed(command.found["retrieval"])
<1>1. CommandTyped /\ holds \in [Builds -> SUBSET Items]
  BY CommandFields DEF MigrationInv, MigrationTypeOK
<1>2. command.found["retrieval"] \in Builds
  BY <1>1, MigrationAssumption DEF CommandTyped, GenerationKinds, Builds
<1> QED
  BY <1>1, <1>2 DEF MigrationInv, FoundExist

\* A step that moves the command only, to a place where it need not be in the middle of a row.
LEMMA MoveStep ==
  ASSUME MigrationInv, UNCHANGED <<localVars, targetVars, turns, cut, early>>,
         command.at \in {"list", "sources", "verify"},
         command'.at \in {"sources", "documents", "generations", "publish"},
         UNCHANGED <<command.found, command.kinds>>,
         MigrationTypeOK', ListingTrue', ItemState'
  PROVE  MigrationInv'
<1>1. FoundExist'
  BY DEF MigrationInv, FoundExist, localVars, filesVars, buildVars, Fixed, Past
<1>2. RowsAgree'
  BY DEF MigrationInv, RowsAgree, InWork, Over, localVars, filesVars, targetVars
<1> QED
  BY <1>1, <1>2, CommandStep
-----------------------------------------------------------------------------
(* migrate: the sources *)

\* The record of fields a step of the listing starts from.
LEMMA ListingFields ==
  ASSUME MigrationInv
  PROVE  /\ command.at \in {"off", "list", "sources", "created", "indexing", "documents",
              "checkpoint", "generations", "vector", "lexical", "graph", "verify", "publish"}
         /\ CommandTyped
         /\ command = [name |-> command.name, at |-> command.at, todo |-> command.todo,
                       item |-> command.item, seen |-> command.seen, found |-> command.found,
                       kinds |-> command.kinds]
BY CommandFields DEF MigrationInv, MigrationTypeOK

LEMMA ListSourcesStep ==
  ASSUME MigrationInv, ListSources
  PROVE  MigrationInv'
<1>1. /\ command.at = "list" /\ UNCHANGED <<localVars, targetVars, turns, cut, early>>
      /\ command' = [command EXCEPT !.at = "sources", !.todo = Known, !.seen = here]
  BY DEF ListSources, OnlyCommand
<1>2. CommandTyped /\ here \in [Items -> Saved \cup {"none"}] /\ Known \in SUBSET Items
  BY ListingFields DEF MigrationInv, MigrationTypeOK, Known
<1>3. MigrationTypeOK'
  <2> DEFINE known == Known
  <2>1. command' = [command EXCEPT !.at = "sources", !.todo = known, !.seen = here]
    BY <1>1
  <2>2. known \in SUBSET Items
    BY <1>2
  <2> HIDE DEF known
  <2> QED
    BY <1>1, <1>2, <2>1, <2>2
       DEF MigrationInv, MigrationTypeOK, localVars, filesVars, buildVars, targetVars
<1>4. /\ command'.at = "sources" /\ command'.todo = Known /\ command'.seen = here
      /\ UNCHANGED <<command.found, command.kinds>>
  BY <1>1, ListingFields
<1>5. UNCHANGED <<here, holds, rebuilt>>
  BY <1>1 DEF localVars, filesVars, buildVars
<1>6. ListingTrue'
  <2>1. ASSUME command.found["retrieval"] # 0, NEW s \in holds[command.found["retrieval"]],
               here[s] = "READY"
        PROVE  s \in Known
    BY <2>1, FoundHeld DEF Known
  <2> QED
    BY <1>4, <1>5, <2>1 DEF ListingTrue, Awaited, AtGenerations
<1>7. ItemState'
  BY <1>4 DEF ItemState, AtItem, Known
<1> QED
  BY <1>1, <1>3, <1>4, <1>6, <1>7, MoveStep

\* A source still to do was there when the command listed the sources.
LEMMA TodoSeen ==
  ASSUME MigrationInv, command'.todo \subseteq command.todo, command'.seen = command.seen
  PROVE  \A s \in command'.todo : command'.seen[s] # "none"
BY DEF MigrationInv, ItemState

\* While it goes through the list, the command is at no source.
LEMMA ListingAtSources ==
  ASSUME MigrationInv, command.at = "sources", command.found["retrieval"] # 0,
         NEW s \in holds[command.found["retrieval"]] \ rebuilt, here[s] = "READY"
  PROVE  Settled(s) \/ (command.seen[s] = "READY" /\ s \in command.todo)
BY DEF MigrationInv, ListingTrue, Listing, AtItem, Awaited

LEMMA SkipStep ==
  ASSUME MigrationInv, NEW s \in Items, Skip(s)
  PROVE  MigrationInv'
<1>1. /\ command.at = "sources" /\ s \in command.todo /\ Done(s)
      /\ command' = [command EXCEPT !.todo = command.todo \ {s}]
      /\ UNCHANGED <<localVars, targetVars, turns, cut, early>>
  BY DEF Skip, OnlyCommand
<1>2. /\ command'.at = "sources" /\ command'.todo = command.todo \ {s}
      /\ UNCHANGED <<command.seen, command.found, command.kinds>>
  BY <1>1, ListingFields
<1>3. MigrationTypeOK'
  <2> DEFINE todo == command.todo \ {s}
  <2>1. todo \in SUBSET Items
    BY ListingFields DEF CommandTyped
  <2>2. command' = [command EXCEPT !.todo = todo]
    BY <1>1
  <2> HIDE DEF todo
  <2> QED
    BY <1>1, <2>1, <2>2 DEF MigrationInv, MigrationTypeOK, localVars, filesVars, buildVars, targetVars
<1>4. command.seen[s] = "READY" => Settled(s)
  BY <1>1 DEF MigrationInv, CheckpointsTrue, Done
<1>5. UNCHANGED <<here, holds, rebuilt, there, copied>>
  BY <1>1 DEF localVars, filesVars, buildVars, targetVars
<1>6. ListingTrue'
  BY <1>1, <1>2, <1>4, <1>5, ListingAtSources DEF ListingTrue, Awaited, AtGenerations, Settled
<1>7. ItemState'
  BY <1>2, TodoSeen DEF ItemState, AtItem
<1> QED
  BY <1>1, <1>2, <1>3, <1>6, <1>7, MoveStep

\* The command turns to a source of its list.
LEMMA TakesFields ==
  ASSUME MigrationInv, NEW s \in Items, NEW at \in {"created", "documents"}, Takes(s, at)
  PROVE  /\ command'.at = at /\ command'.todo = command.todo \ {s} /\ command'.item = s
         /\ UNCHANGED <<command.seen, command.found, command.kinds>>
         /\ command' \in [name : {"none", "migrate", "cutover"}, at : {at}, todo : SUBSET Items,
              item : Items \cup {"none"}, seen : [Items -> Saved \cup {"none"}],
              found : [GenerationKinds -> 0 .. MaxBuilds], kinds : SUBSET GenerationKinds]
<1> DEFINE todo == command.todo \ {s}
<1>1. todo \in SUBSET Items /\ CommandTyped
  BY ListingFields DEF CommandTyped
<1>2. command' = [command EXCEPT !.todo = todo, !.item = s, !.at = at]
  BY DEF Takes
<1> HIDE DEF todo
<1>3. /\ command'.at = at /\ command'.todo = todo /\ command'.item = s
      /\ UNCHANGED <<command.seen, command.found, command.kinds>>
  BY <1>2, ListingFields
<1>4. command' = [name |-> command.name, at |-> at, todo |-> todo, item |-> s, seen |-> command.seen,
                  found |-> command.found, kinds |-> command.kinds]
  BY <1>2, ListingFields
<1> QED
  BY <1>1, <1>3, <1>4 DEF todo, CommandTyped

LEMMA FindRecordStep ==
  ASSUME MigrationInv, NEW s \in Items, FindRecord(s)
  PROVE  MigrationInv'
<1>1. /\ command.at = "sources" /\ UNCHANGED <<localVars, targetVars, turns, cut, early>>
  BY DEF FindRecord, OnlyCommand
<1>2. CASE ~SameLifecycle(s)
  <2>1. Stops
    BY <1>2 DEF FindRecord
  <2> QED
    BY <1>1, <2>1, QuietStop
<1>3. CASE SameLifecycle(s)
  <2>1. /\ command'.at = "documents" /\ command'.todo = command.todo \ {s} /\ command'.item = s
        /\ UNCHANGED <<command.seen, command.found, command.kinds>>
        /\ MigrationTypeOK'
    <3>1. Takes(s, "documents")
      BY <1>3 DEF FindRecord
    <3> QED
      BY <1>1, <3>1, TakesFields DEF MigrationInv, MigrationTypeOK, localVars, filesVars, buildVars, targetVars
  <2>2. UNCHANGED <<here, holds, rebuilt, there, copied>>
    BY <1>1 DEF localVars, filesVars, buildVars, targetVars
  <2>3. ListingTrue'
    BY <1>1, <2>1, <2>2, ListingAtSources DEF ListingTrue, Awaited, AtItem, AtGenerations, Settled
  <2>4. ItemState'
    BY <1>1, <1>3, <2>1, <2>2, TodoSeen DEF ItemState, AtItem, Status, SameLifecycle
  <2> QED
    BY <1>1, <2>1, <2>3, <2>4, MoveStep
<1> QED
  BY <1>2, <1>3
-----------------------------------------------------------------------------
(* migrate: rows, documents and checkpoints *)

\* What a step at a row changes: the place of the command, and something of the row.
LEMMA RowStep ==
  ASSUME MigrationInv, UNCHANGED <<localVars, checkpoint, begun, prepared, active, turns, cut>>,
         command.at \in {"created", "indexing", "documents"},
         NEW at \in {"indexing", "documents", "checkpoint"},
         command' = [command EXCEPT !.at = at],
         there' \in [Items -> Lifecycle \cup {"none"}], copied' \subseteq Items,
         early' \subseteq Items,
         \A s \in Items : Settled(s) => Settled(s)', ItemState', RowsAgree'
  PROVE  MigrationInv'
<1>1. /\ command'.at = at /\ command'.todo = command.todo /\ command'.item = command.item
      /\ command'.seen = command.seen /\ command'.found = command.found
      /\ command'.kinds = command.kinds
  BY ListingFields
<1>2. UNCHANGED <<here, papers, registry, ingest, current, holds, builder, rebuilt>>
  BY DEF localVars, filesVars, buildVars
<1>3. MigrationTypeOK'
  BY <1>2 DEF MigrationInv, MigrationTypeOK
<1>4. FoundExist'
  BY <1>1, <1>2 DEF MigrationInv, FoundExist, Fixed, Past
<1>5. BuildsTrue'
  BY <1>2 DEF MigrationInv, BuildsTrue, Fixed, Past
<1>6. ListingTrue'
  <2>1. command.found["retrieval"] # 0 =>
          /\ holds[command.found["retrieval"]] \subseteq Items
          /\ \A s \in holds[command.found["retrieval"]] \ rebuilt :
               here[s] = "READY" =>
                 \/ Settled(s)
                 \/ command.seen[s] = "READY" /\ (s \in command.todo \/ s = command.item)
    BY FoundHeld DEF MigrationInv, ListingTrue, Listing, AtItem, Awaited
  <2> QED
    BY <1>1, <1>2, <2>1 DEF ListingTrue, AtItem, AtGenerations, Awaited
<1>7. CheckpointsTrue'
  BY DEF MigrationInv, CheckpointsTrue
<1>8. PreparedSettled' /\ ActiveWhole'
  BY <1>2, StoresStay
<1> QED
  BY <1>3, <1>4, <1>5, <1>6, <1>7, <1>8 DEF MigrationInv

\* The row of a source changes before it is settled.
LEMMA RowWritten ==
  ASSUME MigrationInv, NEW x \in Items, there[x] # "READY",
         NEW st \in Lifecycle, there' = [there EXCEPT ![x] = st], copied' = copied
  PROVE  /\ there' \in [Items -> Lifecycle \cup {"none"}]
         /\ \A s \in Items : Settled(s) => Settled(s)'
         /\ there'[x] = st
         /\ \A s \in Items : s # x => there'[s] = there[s]
<1>1. there \in [Items -> Lifecycle \cup {"none"}]
  BY DEF MigrationInv, MigrationTypeOK
<1> QED
  BY <1>1 DEF Settled

LEMMA CreateStep ==
  ASSUME MigrationInv, NEW x \in Items, CreateRecord(x)
  PROVE  MigrationInv'
<1>1. /\ command.at = "sources" /\ there[x] = "none"
      /\ there' = [there EXCEPT ![x] = "REGISTERED"]
      /\ Takes(x, "created")
      /\ early' = IF OverAsSeen(x) THEN early ELSE early \cup {x}
      /\ UNCHANGED <<localVars, copied, checkpoint, begun, prepared, active, turns, cut>>
  BY DEF CreateRecord
<1>2. /\ command'.at = "created" /\ command'.todo = command.todo \ {x} /\ command'.item = x
      /\ UNCHANGED <<command.seen, command.found, command.kinds>>
  BY <1>1, TakesFields
<1>3. early' \subseteq Items /\ early \subseteq early' /\ (x \in early' \/ OverAsSeen(x))
  BY <1>1 DEF MigrationInv, MigrationTypeOK
<1>4. /\ there' \in [Items -> Lifecycle \cup {"none"}]
      /\ \A s \in Items : Settled(s) => Settled(s)'
      /\ there'[x] = "REGISTERED"
      /\ \A s \in Items : s # x => there'[s] = there[s]
  BY <1>1, RowWritten DEF Lifecycle
<1>5. UNCHANGED <<here, papers, registry, ingest, current, holds, builder, rebuilt>>
  BY <1>1 DEF localVars, filesVars, buildVars
<1>6. MigrationTypeOK'
  BY <1>1, <1>3, <1>4, <1>5, TakesFields DEF MigrationInv, MigrationTypeOK
<1>7. FoundExist' /\ BuildsTrue'
  BY <1>1, <1>2, <1>5 DEF MigrationInv, FoundExist, BuildsTrue, Fixed, Past
<1>8. ListingTrue'
  <2>1. command.found["retrieval"] # 0 => holds[command.found["retrieval"]] \subseteq Items
    BY FoundHeld
  <2> QED
    BY <1>1, <1>2, <1>4, <1>5, <2>1, ListingAtSources DEF ListingTrue, Awaited, AtItem, AtGenerations
<1>9. CheckpointsTrue' /\ PreparedSettled' /\ ActiveWhole'
  BY <1>1, <1>4, StoresStay DEF MigrationInv, CheckpointsTrue
<1>10. ItemState'
  <2>1. x \in command.todo
    BY DEF CreateRecord
  <2>2. Status' # "none"
    BY <1>2, <2>1 DEF MigrationInv, ItemState, Status
  <2>3. Agreed'
    BY <1>1, <1>2, <1>3 DEF Agreed, OverAsSeen, Over, Status, localVars, filesVars
  <2> QED
    BY <1>2, <1>4, <2>2, <2>3, TodoSeen DEF ItemState
<1>11. RowsAgree'
  BY <1>1, <1>2, <1>3, <1>4, <1>5 DEF MigrationInv, RowsAgree, InWork, Over
<1> QED
  BY <1>6, <1>7, <1>8, <1>9, <1>10, <1>11 DEF MigrationInv

LEMMA FirstStep ==
  ASSUME MigrationInv, FirstTransition
  PROVE  MigrationInv'
<1> DEFINE at == IF Status = "READY" THEN "indexing" ELSE "documents"
<1>1. /\ command.at = "created" /\ there' = [there EXCEPT ![command.item] = FirstStatus]
      /\ command' = [command EXCEPT !.at = at]
      /\ UNCHANGED <<localVars, copied, checkpoint, begun, prepared, active, turns, cut, early>>
  BY DEF FirstTransition, Goes
<1>2. command.item \in Items /\ there[command.item] = "REGISTERED"
  BY <1>1 DEF MigrationInv, ItemState, AtItem
<1>3. copied' \subseteq Items /\ early' \subseteq Items
  BY <1>1 DEF MigrationInv, MigrationTypeOK
<1>4. FirstStatus \in Lifecycle
  BY DEF FirstStatus, Lifecycle
<1>5. /\ there' \in [Items -> Lifecycle \cup {"none"}]
      /\ \A s \in Items : Settled(s) => Settled(s)'
      /\ there'[command.item] = FirstStatus
      /\ \A s \in Items : s # command.item => there'[s] = there[s]
  BY <1>1, <1>2, <1>4, RowWritten
<1>6. /\ command'.at = at /\ command'.item = command.item /\ Status' = Status
      /\ command'.todo = command.todo /\ command'.seen = command.seen
  BY <1>1, ListingFields DEF Status
<1>7. UNCHANGED <<here, ingest, cut, early>> /\ Agreed
  BY <1>1 DEF MigrationInv, ItemState, localVars, filesVars
<1>8. Agreed' /\ (Agreed <=> command.item \in early \/ (Over(command.item) /\ here[command.item] \in {Status, "none"}))
  BY <1>6, <1>7 DEF Agreed, Over
<1>9. ItemState'
  BY <1>2, <1>5, <1>6, <1>8, TodoSeen DEF ItemState, FirstStatus
<1>10. RowsAgree'
  <2>1. Status \in {"INDEXING", "READY", "FAILED"}
    BY <1>1, <1>2, ListingFields DEF MigrationInv, ItemState, Status, CommandTyped, Saved, Lifecycle
  <2> QED
    BY <1>1, <1>5, <1>6, <1>7, <1>8, <2>1 DEF MigrationInv, RowsAgree, InWork, Over, FirstStatus
<1> QED
  BY <1>1, <1>3, <1>5, <1>9, <1>10, RowStep

LEMMA SecondStep ==
  ASSUME MigrationInv, SecondTransition
  PROVE  MigrationInv'
<1>1. /\ command.at = "indexing" /\ there' = [there EXCEPT ![command.item] = "READY"]
      /\ command' = [command EXCEPT !.at = "documents"]
      /\ UNCHANGED <<localVars, copied, checkpoint, begun, prepared, active, turns, cut, early>>
  BY DEF SecondTransition, Goes
<1>2. /\ command.item \in Items /\ there[command.item] = "INDEXING" /\ Status = "READY"
  BY <1>1 DEF MigrationInv, ItemState, AtItem
<1>3. copied' \subseteq Items /\ early' \subseteq Items
  BY <1>1 DEF MigrationInv, MigrationTypeOK
<1>4. "READY" \in Lifecycle
  BY DEF Lifecycle
<1>5. /\ there' \in [Items -> Lifecycle \cup {"none"}]
      /\ \A s \in Items : Settled(s) => Settled(s)'
      /\ there'[command.item] = "READY"
      /\ \A s \in Items : s # command.item => there'[s] = there[s]
  BY <1>1, <1>2, <1>4, RowWritten
<1>6. /\ command'.at = "documents" /\ command'.item = command.item /\ Status' = Status
      /\ command'.todo = command.todo /\ command'.seen = command.seen
  BY <1>1, ListingFields DEF Status
<1>7. UNCHANGED <<here, ingest, cut, early>> /\ Agreed
  BY <1>1 DEF MigrationInv, ItemState, localVars, filesVars
<1>8. ItemState'
  BY <1>2, <1>5, <1>6, TodoSeen DEF ItemState
<1>9. RowsAgree'
  BY <1>1, <1>2, <1>5, <1>6, <1>7 DEF MigrationInv, RowsAgree, InWork, Over, Agreed
<1> QED
  BY <1>1, <1>3, <1>5, <1>8, <1>9, RowStep

LEMMA CopyStep ==
  ASSUME MigrationInv, CopyDocuments
  PROVE  MigrationInv'
<1>1. /\ command.at = "documents"
      /\ UNCHANGED <<localVars, there, checkpoint, begun, prepared, active, turns, cut, early>>
  BY DEF CopyDocuments
<1>2. CASE command.item \in papers
  <2>1. copied' = copied \cup {command.item} /\ command' = [command EXCEPT !.at = "checkpoint"]
    BY <1>2 DEF CopyDocuments, Goes
  <2>2. command.item \in Items
    BY <1>1 DEF MigrationInv, ItemState, AtItem
  <2>3. /\ there' \in [Items -> Lifecycle \cup {"none"}] /\ copied' \subseteq Items
        /\ early' \subseteq Items
    BY <1>1, <2>1, <2>2 DEF MigrationInv, MigrationTypeOK
  <2>4. \A s \in Items : Settled(s) => Settled(s)'
    BY <1>1, <2>1 DEF Settled
  <2>5. command'.at = "checkpoint" /\ command'.item = command.item /\ Status' = Status
    BY <2>1, ListingFields DEF Status
  <2>6. ItemState'
    BY <1>1, <2>1, <2>2, <2>5 DEF MigrationInv, ItemState, AtItem
  <2>7. RowsAgree'
    BY <1>1, <2>5 DEF MigrationInv, RowsAgree, InWork, Over, localVars, filesVars
  <2> QED
    BY <1>1, <2>1, <2>3, <2>4, <2>6, <2>7, RowStep
<1>3. CASE command.item \notin papers
  <2>1. Stops /\ UNCHANGED <<localVars, targetVars, turns, cut, early>>
    BY <1>1, <1>3 DEF CopyDocuments, targetVars
  <2> QED
    BY <1>1, <2>1, QuietStop
<1> QED
  BY <1>2, <1>3

LEMMA CheckpointStep ==
  ASSUME MigrationInv, Checkpoint
  PROVE  MigrationInv'
<1>1. /\ command.at = "checkpoint"
      /\ UNCHANGED <<localVars, there, copied, begun, prepared, active, turns, cut, early>>
  BY DEF Checkpoint
<1>2. CASE checkpoint[command.item] \notin {"none", Status}
  <2>1. Stops /\ UNCHANGED <<localVars, targetVars, turns, cut, early>>
    BY <1>1, <1>2 DEF Checkpoint, targetVars
  <2> QED
    BY <1>1, <2>1, QuietStop
<1>3. CASE checkpoint[command.item] \in {"none", Status}
  <2>1. /\ checkpoint' = [checkpoint EXCEPT ![command.item] = Status]
        /\ command' = [command EXCEPT !.at = "sources", !.item = "none"]
    BY <1>3 DEF Checkpoint
  <2>2. /\ command.item \in Items /\ command.item \in copied
        /\ Status = "READY" => there[command.item] = "READY"
    BY <1>1 DEF MigrationInv, ItemState, AtItem
  <2>3. UNCHANGED <<here, papers, registry, ingest, current, holds, builder, rebuilt>>
    BY <1>1 DEF localVars, filesVars, buildVars
  <2>4. /\ command'.at = "sources"
        /\ UNCHANGED <<command.todo, command.seen, command.found, command.kinds>>
    BY <2>1, ListingFields
  <2>5. Status \in Saved \cup {"none"}
    BY <2>2, ListingFields DEF Status, CommandTyped
  <2>6. checkpoint \in [Items -> Saved \cup {"none"}]
    BY DEF MigrationInv, MigrationTypeOK
  <2>7. checkpoint' \in [Items -> Saved \cup {"none"}]
    BY <2>1, <2>5, <2>6
  <2>8. MigrationTypeOK'
    BY <1>1, <2>1, <2>3, <2>7 DEF MigrationInv, MigrationTypeOK
  <2>9. FoundExist' /\ BuildsTrue'
    BY <2>3, <2>4 DEF MigrationInv, FoundExist, BuildsTrue, Fixed, Past
  <2>10. Status = "READY" => Settled(command.item)
    BY <2>2 DEF Settled
  <2>11. ListingTrue'
    <3>1. command.found["retrieval"] # 0 =>
            \A s \in holds[command.found["retrieval"]] \ rebuilt :
              here[s] = "READY" =>
                Settled(s) \/ (command.seen[s] = "READY" /\ s \in command.todo)
      BY <1>1, <2>10 DEF MigrationInv, ListingTrue, Listing, AtItem, AtGenerations, Awaited, Status
    <3> QED
      BY <1>1, <2>3, <2>4, <3>1 DEF ListingTrue, AtGenerations, Settled, Awaited
  <2>12. CheckpointsTrue'
    <3>1. ASSUME NEW s \in Items, checkpoint'[s] = "READY"
          PROVE  Settled(s)
      <4>1. CASE s = command.item
        BY <3>1, <4>1, <2>1, <2>6, <2>10
      <4>2. CASE s # command.item
        <5>1. checkpoint[s] = "READY"
          BY <3>1, <4>2, <2>1, <2>6
        <5> QED
          BY <5>1 DEF MigrationInv, CheckpointsTrue
      <4> QED
        BY <4>1, <4>2
    <3> QED
      BY <1>1, <3>1 DEF CheckpointsTrue, Settled
  <2>13. PreparedSettled' /\ ActiveWhole'
    BY <1>1, <2>3, StoresStay DEF Settled
  <2>14. ItemState'
    BY <2>4 DEF MigrationInv, ItemState, AtItem
  <2>15. RowsAgree'
    BY <1>1, <2>3, <2>4 DEF MigrationInv, RowsAgree, InWork, Over
  <2> QED
    BY <2>8, <2>9, <2>11, <2>12, <2>13, <2>14, <2>15 DEF MigrationInv
<1> QED
  BY <1>2, <1>3
-----------------------------------------------------------------------------
(* migrate: the generations *)

LEMMA SourcesDoneStep ==
  ASSUME MigrationInv, SourcesDone
  PROVE  MigrationInv'
<1>1. /\ command.at = "sources" /\ command.todo = {}
      /\ command' = [command EXCEPT !.at = "generations", !.seen = NoCommand.seen]
      /\ UNCHANGED <<localVars, targetVars, turns, cut, early>>
  BY DEF SourcesDone, OnlyCommand
<1>2. /\ command'.at = "generations"
      /\ UNCHANGED <<command.todo, command.found, command.kinds>>
  BY <1>1, ListingFields
<1>3. MigrationTypeOK'
  <2>1. NoCommand.seen \in [Items -> Saved \cup {"none"}]
    BY DEF NoCommand
  <2> QED
    BY <1>1, <2>1 DEF MigrationInv, MigrationTypeOK, localVars, filesVars, buildVars, targetVars
<1>4. UNCHANGED <<here, holds, rebuilt, there, copied>>
  BY <1>1 DEF localVars, filesVars, buildVars, targetVars
<1>5. ListingTrue'
  BY <1>1, <1>2, <1>4, ListingAtSources DEF ListingTrue, Settled
<1>6. ItemState'
  BY <1>1, <1>2 DEF ItemState, AtItem
<1> QED
  BY <1>1, <1>2, <1>3, <1>5, <1>6, MoveStep

\* While generations are copied, the sources of the retrieval generation found are settled.
LEMMA FoundSettled ==
  ASSUME MigrationInv, command.at \in AtGenerations, command.found["retrieval"] # 0
  PROVE  \A s \in holds[command.found["retrieval"]] \ rebuilt : here[s] = "READY" => Settled(s)
BY DEF MigrationInv, ListingTrue, Listing, Awaited

\* A step among the generations.
LEMMA GenerationStep ==
  ASSUME MigrationInv, UNCHANGED <<localVars, there, copied, checkpoint, active, turns, cut, early>>,
         command.at \in AtGenerations, command'.at \in AtGenerations,
         UNCHANGED <<command.todo, command.item, command.seen, command.found>>,
         MigrationTypeOK', FoundExist', PreparedSettled', ActiveWhole'
  PROVE  MigrationInv'
<1>1. UNCHANGED <<here, papers, ingest, current, holds, builder, rebuilt>>
  BY DEF localVars, filesVars, buildVars
<1>2. BuildsTrue' /\ CheckpointsTrue'
  BY <1>1 DEF MigrationInv, BuildsTrue, Fixed, Past, CheckpointsTrue, Settled
<1>3. ListingTrue'
  BY <1>1, FoundSettled DEF ListingTrue, Settled
<1>4. ItemState' /\ RowsAgree'
  BY <1>1 DEF MigrationInv, ItemState, RowsAgree, InWork, Over, AtItem, AtGenerations
<1> QED
  BY <1>2, <1>3, <1>4 DEF MigrationInv

LEMMA OperationStep ==
  ASSUME MigrationInv, NEW k \in GenerationKinds, Operation(k)
  PROVE  MigrationInv'
<1> DEFINE at == IF k = "retrieval" THEN "vector" ELSE "graph"
<1>1. /\ command.at = "generations" /\ k \in command.kinds
      /\ begun' = [begun EXCEPT ![k] = @ \cup {command.found[k]}]
      /\ command' = [command EXCEPT !.at = at]
      /\ UNCHANGED <<localVars, there, copied, checkpoint, prepared, active, turns, cut, early>>
  BY DEF Operation, Goes
<1>2. /\ command'.at = at
      /\ UNCHANGED <<command.todo, command.item, command.seen, command.found, command.kinds>>
  BY <1>1, ListingFields
<1>3. k = "retrieval" \/ k = "graph"
  BY DEF GenerationKinds
<1>4. command.found[k] \in Builds
  <2>1. command.found[k] \in 0 .. MaxBuilds /\ command.found[k] # 0
    BY <1>1, ListingFields DEF CommandTyped, MigrationInv, FoundExist
  <2> QED
    BY <2>1, MigrationAssumption DEF Builds
<1>5. begun' \in [GenerationKinds -> SUBSET Builds]
  BY <1>1, <1>4 DEF MigrationInv, MigrationTypeOK
<1>6. MigrationTypeOK'
  BY <1>1, <1>3, <1>5 DEF MigrationInv, MigrationTypeOK, localVars, filesVars, buildVars
<1>7. UNCHANGED <<ingest, holds, builder, rebuilt>>
  BY <1>1 DEF localVars, buildVars
<1>8. FoundExist'
  BY <1>1, <1>2, <1>3, <1>7 DEF MigrationInv, FoundExist, Fixed, Past
<1>9. PreparedSettled' /\ ActiveWhole'
  BY <1>1, StoresStay DEF Settled
<1>10. command.at \in AtGenerations /\ command'.at \in AtGenerations
  BY <1>1, <1>2 DEF AtGenerations
<1> QED
  BY <1>1, <1>2, <1>6, <1>8, <1>9, <1>10, GenerationStep

LEMMA PrepareStep ==
  ASSUME MigrationInv, NEW k \in GenerationKinds, NEW store \in Stores(k), PrepareStore(k, store)
  PROVE  MigrationInv'
<1> DEFINE g == command.found[k]
<1>1. /\ command.at = store
      /\ UNCHANGED <<localVars, there, copied, checkpoint, begun, active, turns, cut, early>>
  BY DEF PrepareStore
<1>2. /\ store \in {"vector", "lexical", "graph"}
      /\ store = "graph" <=> k = "graph"
      /\ k = "retrieval" \/ k = "graph"
  BY DEF Stores, GenerationKinds
<1>3. CASE store = "graph" /\ current["graph"] # g
  <2>1. Stops /\ UNCHANGED <<localVars, targetVars, turns, cut, early>>
    BY <1>1, <1>3 DEF PrepareStore, targetVars
  <2> QED
    BY <1>1, <1>2, <2>1, QuietStop
<1>4. CASE ~(store = "graph" /\ current["graph"] # g)
  <2>1. /\ prepared' = [prepared EXCEPT ![k][g] = @ \cup {store}]
        /\ command' = IF store = "vector" THEN [command EXCEPT !.at = "lexical"]
                       ELSE [command EXCEPT !.at = "generations", !.kinds = @ \ {k}]
    BY <1>4 DEF PrepareStore
  <2>2. k \in command.kinds /\ g \in Builds
    <3>1. k \in command.kinds /\ g # 0
      BY <1>1, <1>2 DEF MigrationInv, FoundExist
    <3>2. g \in 0 .. MaxBuilds
      BY ListingFields DEF CommandTyped
    <3> QED
      BY <3>1, <3>2, MigrationAssumption DEF Builds
  <2>3. /\ command'.at \in {"lexical", "generations"}
        /\ command'.at = "lexical" => store = "vector"
        /\ UNCHANGED <<command.todo, command.item, command.seen, command.found>>
        /\ command'.kinds \subseteq command.kinds
        /\ store = "vector" => command'.kinds = command.kinds
    BY <2>1, ListingFields
  <2>4. UNCHANGED <<here, papers, registry, ingest, current, holds, builder, rebuilt>>
    BY <1>1 DEF localVars, filesVars, buildVars
  <2>5. prepared \in [GenerationKinds -> [Builds -> SUBSET {"vector", "lexical", "graph"}]]
    BY DEF MigrationInv, MigrationTypeOK
  <2> HIDE DEF g
  <2>6. /\ prepared' \in [GenerationKinds -> [Builds -> SUBSET {"vector", "lexical", "graph"}]]
        /\ \A kk \in GenerationKinds, b \in Builds : prepared[kk][b] \subseteq prepared'[kk][b]
        /\ \A kk \in GenerationKinds, b \in Builds :
              kk # k \/ b # g => prepared'[kk][b] = prepared[kk][b]
    BY <1>2, <2>1, <2>2, <2>5
  <2>7. MigrationTypeOK'
    <3> DEFINE kinds == command.kinds \ {k}
    <3>1. kinds \in SUBSET GenerationKinds
      BY ListingFields DEF CommandTyped
    <3>2. \/ command' = [command EXCEPT !.at = "lexical"]
          \/ command' = [command EXCEPT !.at = "generations", !.kinds = kinds]
      BY <2>1
    <3> HIDE DEF kinds
    <3>3. CASE command' = [command EXCEPT !.at = "lexical"]
      BY <1>1, <2>4, <2>6, <3>3 DEF MigrationInv, MigrationTypeOK
    <3>4. CASE command' = [command EXCEPT !.at = "generations", !.kinds = kinds]
      BY <1>1, <2>4, <2>6, <3>1, <3>4 DEF MigrationInv, MigrationTypeOK
    <3> QED
      BY <3>2, <3>3, <3>4
  <2>8. FoundExist'
    BY <1>1, <1>2, <2>2, <2>3, <2>4 DEF MigrationInv, FoundExist, Fixed, Past
  <2>9. PreparedSettled'
    <3> SUFFICES ASSUME NEW b \in Builds, prepared'["retrieval"][b] # {}
                 PROVE  Fixed(b) /\ \A s \in holds[b] \ rebuilt : here[s] = "READY" => Settled(s)
      BY <1>1, <2>4 DEF PreparedSettled, Settled, Fixed, Past
    <3>1. CASE prepared["retrieval"][b] # {}
      BY <3>1 DEF MigrationInv, PreparedSettled
    <3>2. CASE prepared["retrieval"][b] = {}
      <4>1. k = "retrieval" /\ b = g
        BY <2>6, <3>2 DEF GenerationKinds
      <4>2. command.found["retrieval"] = b /\ b # 0
        BY <4>1 DEF g, Builds
      <4>3. command.at \in AtGenerations
        BY <1>1, <1>2 DEF AtGenerations
      <4> QED
        BY <4>2, <4>3, FoundSettled, FoundHeld
    <3> QED
      BY <3>1, <3>2
  <2>10. ActiveWhole'
    <3> SUFFICES ASSUME NEW kk \in GenerationKinds, active[kk] # 0
                 PROVE  Stores(kk) \subseteq prepared'[kk][active[kk]]
      BY <1>1 DEF ActiveWhole, Whole
    <3>1. active[kk] \in Builds
      BY MigrationAssumption DEF MigrationInv, MigrationTypeOK, Builds
    <3>2. Stores(kk) \subseteq prepared[kk][active[kk]]
      BY DEF MigrationInv, ActiveWhole, Whole
    <3> QED
      BY <2>6, <3>1, <3>2
  <2>11. command.at \in AtGenerations /\ command'.at \in AtGenerations
    BY <1>1, <1>2, <2>3 DEF AtGenerations
  <2> QED
    BY <1>1, <2>3, <2>7, <2>8, <2>9, <2>10, <2>11, GenerationStep
<1> QED
  BY <1>3, <1>4
-----------------------------------------------------------------------------
(* verify and cutover *)

LEMMA VerifyStep ==
  ASSUME MigrationInv, Verify
  PROVE  MigrationInv'
<1>1. /\ command.at = "verify" /\ UNCHANGED <<localVars, targetVars, turns, cut, early>>
      /\ Stops \/ command' = [command EXCEPT !.at = "publish"]
  BY DEF Verify, OnlyCommand, Goes
<1>2. CASE Stops
  BY <1>1, <1>2, QuietStop
<1>3. CASE command' = [command EXCEPT !.at = "publish"]
  <2>1. command'.at = "publish" /\ UNCHANGED <<command.todo, command.seen, command.found, command.kinds>>
    BY <1>3, ListingFields
  <2>2. MigrationTypeOK'
    BY <1>1, <1>3 DEF MigrationInv, MigrationTypeOK, localVars, filesVars, buildVars, targetVars
  <2>3. ListingTrue' /\ ItemState'
    BY <2>1 DEF MigrationInv, ListingTrue, ItemState, Listing, AtItem, AtGenerations
  <2> QED
    BY <1>1, <2>1, <2>2, <2>3, MoveStep
<1> QED
  BY <1>1, <1>2, <1>3

LEMMA PublishStep ==
  ASSUME MigrationInv, NEW k \in GenerationKinds, PublishKind(k)
  PROVE  MigrationInv'
<1> DEFINE g == command.found[k]
           kinds == command.kinds \ {k}
<1>1. /\ command.at = "publish" /\ k \in command.kinds
      /\ UNCHANGED <<localVars, there, copied, checkpoint, begun, prepared, turns, cut, early>>
  BY DEF PublishKind
<1>2. CASE ~(Whole(k, g) /\ g \in begun[k])
  <2>1. Stops /\ UNCHANGED <<localVars, targetVars, turns, cut, early>>
    BY <1>1, <1>2 DEF PublishKind, targetVars
  <2> QED
    BY <1>1, <2>1, QuietStop
<1>3. CASE Whole(k, g) /\ g \in begun[k]
  <2>1. active' = [active EXCEPT ![k] = g] /\ command' = [command EXCEPT !.kinds = kinds]
    BY <1>3 DEF PublishKind
  <2>2. kinds \in SUBSET GenerationKinds /\ kinds \subseteq command.kinds /\ g \in 0 .. MaxBuilds
    BY ListingFields DEF CommandTyped
  <2>3. UNCHANGED <<here, papers, registry, ingest, current, holds, builder, rebuilt>>
    BY <1>1 DEF localVars, filesVars, buildVars
  <2> HIDE DEF g, kinds
  <2>4. /\ command'.at = "publish" /\ command'.kinds = kinds
        /\ UNCHANGED <<command.todo, command.seen, command.found>>
    BY <1>1, <2>1, ListingFields
  <2>5. active \in [GenerationKinds -> 0 .. MaxBuilds]
    BY DEF MigrationInv, MigrationTypeOK
  <2>6. MigrationTypeOK'
    BY <1>1, <2>1, <2>2, <2>3, <2>5 DEF MigrationInv, MigrationTypeOK
  <2>7. FoundExist' /\ BuildsTrue'
    BY <2>2, <2>3, <2>4 DEF MigrationInv, FoundExist, BuildsTrue, Fixed, Past
  <2>8. ListingTrue' /\ ItemState'
    BY <2>4 DEF MigrationInv, ListingTrue, ItemState, Listing, AtItem, AtGenerations
  <2>9. CheckpointsTrue' /\ PreparedSettled'
    BY <1>1, <2>3 DEF MigrationInv, CheckpointsTrue, PreparedSettled, Settled, Fixed, Past
  <2>10. ActiveWhole'
    BY <1>1, <1>3, <2>1, <2>5 DEF MigrationInv, ActiveWhole, Whole, g
  <2>11. RowsAgree'
    BY <1>1, <2>3, <2>4 DEF MigrationInv, RowsAgree, InWork, Over
  <2> QED
    BY <2>6, <2>7, <2>8, <2>9, <2>10, <2>11 DEF MigrationInv
<1> QED
  BY <1>2, <1>3

LEMMA EndStep ==
  ASSUME MigrationInv, GenerationsDone \/ Published
  PROVE  MigrationInv'
BY QuietStop DEF GenerationsDone, Published, OnlyCommand
-----------------------------------------------------------------------------
LEMMA StutterStep ==
  ASSUME MigrationInv, UNCHANGED migrationVars
  PROVE  MigrationInv'
<1>1. UNCHANGED <<localVars, targetVars, early, command, turns, cut>>
  BY DEF migrationVars, commandVars
<1>2. MigrationTypeOK' /\ FoundExist' /\ ListingTrue' /\ ItemState' /\ RowsAgree'
  BY <1>1 DEF MigrationInv, MigrationTypeOK, FoundExist, ListingTrue, ItemState, RowsAgree, InWork, Status,
              Settled, Fixed, Past, Over, Awaited, Agreed, localVars, filesVars, buildVars, commandVars, targetVars
<1> QED
  BY <1>1, <1>2, CommandStep

LEMMA NextInv == MigrationInv /\ [MigrationNext]_migrationVars => MigrationInv'
<1> SUFFICES ASSUME MigrationInv, [MigrationNext]_migrationVars
             PROVE  MigrationInv'
  OBVIOUS
<1>1. ASSUME NEW s \in Items,
             \/ Appear(s) \/ Store(s) \/ BuildOwn(s) \/ SaveReady(s) \/ Fail(s)
             \/ Rebuild(s) \/ RemoveSource(s)
      PROVE  MigrationInv'
  BY <1>1, IngestionSteps, BuildSteps, OtherLocalSteps
<1>2. ASSUME BuildGraph \/ \E g \in Builds : Activate(g)
      PROVE  MigrationInv'
  BY <1>2, OtherLocalSteps, ActivateStep
<1>3. ASSUME NEW k \in GenerationKinds,
             Operation(k) \/ (\E store \in Stores(k) : PrepareStore(k, store)) \/ PublishKind(k)
      PROVE  MigrationInv'
  BY <1>3, OperationStep, PrepareStep, PublishStep
<1> QED
  BY <1>1, <1>2, <1>3, StutterStep, SkipStep, GiveStep, DieStep, ListSourcesStep, FindRecordStep,
     CreateStep, FirstStep, SecondStep, CopyStep, CheckpointStep, SourcesDoneStep, EndStep,
     VerifyStep DEF MigrationNext

\* The inductive invariant holds in every reachable state: rows, copies and checkpoints tell the
\* truth at every point a command may die, while the local application goes on ingesting,
\* indexing and removing.
THEOREM MigrationInvariance == MigrationSpec => []MigrationInv
BY InitInv, NextInv, PTL DEF MigrationSpec

\* The rows of both sides, the checkpoints, the operations and the command keep their types.
THEOREM MigrationTypes == MigrationSpec => []MigrationTypeOK
<1>1. MigrationInv => MigrationTypeOK
  BY DEF MigrationInv
<1> QED
  BY <1>1, MigrationInvariance, PTL

\* For any sources and generations and any number of commands that die anywhere: what a cutover
\* publishes is prepared in every store, and a source in it that is READY locally is READY at the
\* target with its documents, unless a request had it indexed before it was READY.
THEOREM CutoversAreWhole == MigrationSpec => []CutoverWhole
<1>1. MigrationInv => CutoverWhole
  <2> SUFFICES ASSUME MigrationInv, NEW k \in GenerationKinds, active[k] # 0
               PROVE  /\ Whole(k, active[k])
                      /\ k = "retrieval" =>
                           \A s \in holds[active[k]] \ rebuilt :
                             here[s] = "READY" => s \in copied /\ there[s] = "READY"
    BY DEF CutoverWhole
  <2>1. Whole(k, active[k]) /\ active[k] \in Builds
    BY MigrationAssumption DEF MigrationInv, ActiveWhole, MigrationTypeOK, Builds
  <2>2. k = "retrieval" => prepared["retrieval"][active[k]] # {}
    BY <2>1 DEF Whole, Stores
  <2> QED
    BY <2>1, <2>2 DEF MigrationInv, PreparedSettled, Settled
<1> QED
  BY <1>1, MigrationInvariance, PTL

\* A later migrate is refused the row of a source the workspace has only if a command died over it,
\* or copied it before its ingestion was over, though source.json may have said READY by then.
THEOREM MigrationResumes == MigrationSpec => []ResumesUnlessCut
<1>1. MigrationInv => ResumesUnlessCut
  BY DEF MigrationInv, RowsAgree, ResumesUnlessCut, InWork, Known
<1> QED
  BY <1>1, MigrationInvariance, PTL
=============================================================================
