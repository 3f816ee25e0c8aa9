--------------------------- MODULE StageCommands ---------------------------
(***************************************************************************)
(* One video's way from transcript to archive, stage by stage: the         *)
(* commands that enqueue work (application/transcripts/commands.py,        *)
(* application/processing/commands.py, application/workflows/publish.py),  *)
(* which find out what to work from when they are called, and the workers  *)
(* that carry the work out.  An agent repeats the commands of all stages   *)
(* in turn, as the runbook has it; another client calls any of them.       *)
(*                                                                         *)
(* A command is one transaction per batch, read here as two steps per      *)
(* video: what it looks up, and what it writes on the strength of it.  It  *)
(* writes its batch row before either, and SQLite lets one transaction     *)
(* write at a time: two commands come between each other's steps here and  *)
(* not in the code.  Attempts, leases and the engine's own races are       *)
(* WorkExecution's.                                                        *)
(***************************************************************************)
EXTENDS Naturals, Sequences, FiniteSetsExt

CONSTANTS
  Languages,     \* what transcripts are asked for: languages and formatting
  Models,        \* the choices a timeline can be composed with
  Flags,         \* the flags the other client uses
  Wanted,        \* the language and the model that the agent asks for
  Refusals,      \* which tasks' executors may refuse the input of their items
  Slots,         \* worker slots
  Serves,        \* the task type of each of them
  None,          \* no row, no value
  MaxFaults,     \* bound: executions that fail, processes that die
  MaxSurprises   \* bound: commands of the other client, cancellations

Stages == <<"collect", "cue", "micro", "timeline", "archive">>
Clients == {"agent", "other"}
FlagSet == [retry : BOOLEAN, rerun : BOOLEAN, recheck : BOOLEAN]

ASSUME StageAssumption ==
  /\ Wanted.language \in Languages /\ Wanted.model \in Models
  /\ Flags \subseteq FlagSet
  /\ Refusals \subseteq SUBSET {"timeline", "archive"}
  /\ Serves \in [Slots -> {Stages[n] : n \in 1..4}]
  /\ MaxFaults \in Nat /\ MaxSurprises \in Nat

(* A worker is not an API client, and NULL is not an outcome. *)
ASSUME NameAssumption ==
  /\ Slots \cap Clients = {}
  /\ None \notin {"no_transcript", "dependency_failed", "canceled"}

VARIABLES
  items,         \* the video's work items, in the order of their ids
  needs,         \* work_item_dependencies
  available,     \* languages that YouTube has a transcript for
  stored,        \* languages whose transcript is stored
  composed,      \* timeline items with a stored composition
  refused,       \* the tasks whose executors do refuse it
  doing,         \* the item that each slot or client executes, or 0
  calls,         \* each client's command under way
  turn,          \* the stage that the agent comes to next
  faults, surprises
world == <<available, stored, composed, refused>>
vars == <<items, needs, world, doing, calls, turn, faults, surprises>>

Ids == DOMAIN items
Idle == [phase |-> "idle", order |-> None, flags |-> None, seen |-> None, item |-> 0]

Init ==
  /\ items = <<>> /\ needs = {} /\ stored = {} /\ composed = {}
  /\ available \in SUBSET Languages /\ refused \in Refusals
  /\ doing = [w \in Slots \cup Clients |-> 0]
  /\ calls = [p \in Clients |-> Idle]
  /\ turn = 1 /\ faults = 0 /\ surprises = 0

----------------------------------------------------------------------------
(* What a command finds *)

(* find_latest: the highest id among the succeeded items of a task. *)
Latest(task) ==
  Max({0} \cup {i \in Ids : items[i].task = task /\ items[i].status = "succeeded"})

Usable(i) == i # 0 /\ items[i].outcome = None
Upstream == [cue |-> "collect", micro |-> "cue", timeline |-> "micro", archive |-> "timeline"]

Order(task, choice, source, need) ==
  [task |-> task, choice |-> choice, source |-> source, need |-> need]

(* What a command would have done.  A cue item's input names the transcript; *)
(* the other inputs name the item they are made from.                        *)
TranscriptOrder(language)  == Order("collect", language, 0, 0)
CueOrder(source)           == Order("cue", items[source].output, 0, source)
MicroEventOrder(source)    == Order("micro", None, source, source)
TimelineOrder(source, m)   == Order("timeline", m, source, source)
ArchiveOrder(source)       == Order("archive", None, source, source)

(* None, if what it depends on is not ready. *)
Orders(task, choice) ==
  IF task = "collect" THEN {TranscriptOrder(choice)}
  ELSE LET source == Latest(Upstream[task])
       IN IF ~Usable(source) THEN {}
          ELSE CASE task = "cue" -> {CueOrder(source)}
                 [] task = "micro" -> {MicroEventOrder(source)}
                 [] task = "timeline" -> {TimelineOrder(source, choice)}
                 [] task = "archive" -> {ArchiveOrder(source)}

(* The row with the idempotency key of an order, if there is one. *)
Same(item, order) ==
  item.task = order.task /\ item.choice = order.choice /\ item.source = order.source
IdOf(order) == Max({0} \cup {i \in Ids : Same(items[i], order)})

(* A collect command ends early if the newest result is the transcript that *)
(* is stored for the request.                                               *)
AlreadyCollected(task, choice, flags) ==
  /\ task = "collect" /\ ~flags.rerun
  /\ Usable(Latest("collect"))
  /\ choice \in stored /\ items[Latest("collect")].output = choice

(* Mutant of ShouldReset: an item that was blocked is not reset. *)
ShouldResetFailed(row, flags) ==
  \/ row.status = "failed" /\ flags.retry
  \/ /\ row.status = "succeeded"
     /\ IF row.outcome = "no_transcript" THEN flags.recheck ELSE flags.rerun

(* _should_reset and _should_reset_transcript *)
ShouldReset(row, flags) ==
  \/ row.status \in {"failed", "blocked"} /\ flags.retry
  \/ /\ row.status = "succeeded"
     /\ IF row.outcome = "no_transcript" THEN flags.recheck ELSE flags.rerun

----------------------------------------------------------------------------
(* Commands *)

Pending(order) ==
  [task |-> order.task, choice |-> order.choice, source |-> order.source,
   status |-> "pending", outcome |-> None, output |-> None]

Ready(task, choice, flags) ==
  Orders(task, choice) # {} /\ ~AlreadyCollected(task, choice, flags)

Looks(p, task, choice, flags) ==
  /\ calls[p].phase = "idle"
  /\ Ready(task, choice, flags)
  /\ \E order \in Orders(task, choice) :
       calls' = [calls EXCEPT ![p] =
         [phase |-> "looked", order |-> order, flags |-> flags, item |-> 0,
          seen |-> IF IdOf(order) = 0 THEN None ELSE items[IdOf(order)]]]
  /\ UNCHANGED <<items, needs, world, doing, faults>>

(* The row as the command's session holds it: what it saw, or, when another  *)
(* command's insert came first, the row that the unique index pointed it to. *)
Held(p) ==
  IF calls[p].seen # None THEN calls[p].seen ELSE items[IdOf(calls[p].order)]

(* Mutant of RowFor: the row is inserted if the command has seen none. *)
RowSeen(p) == IF calls[p].seen = None THEN 0 ELSE IdOf(calls[p].order)

(* The insert does nothing on a conflict, and reads the row that was there. *)
RowFor(p) == IdOf(calls[p].order)

Resets(p) == RowFor(p) # 0 /\ ShouldReset(Held(p), calls[p].flags)

(* Mutant of Scheduled: an archive is run only by the command that orders it. *)
ScheduledNow(p) == RowFor(p) = 0 \/ Resets(p)

(* An archive that was left pending is run as well. *)
Scheduled(p) == RowFor(p) = 0 \/ Resets(p) \/ Held(p).status = "pending"

(* get_or_create, add_dependency, reset_for_retry; one commit *)
Writes(p) ==
  LET order == calls[p].order
      id    == RowFor(p)
      here  == IF id = 0 THEN Len(items) + 1 ELSE id
  IN /\ calls[p].phase = "looked"
     /\ items' = IF id = 0 THEN Append(items, Pending(order))
                 ELSE IF Resets(p) THEN [items EXCEPT ![id] = Pending(order)]
                 ELSE items
     /\ needs' = IF order.need = 0 THEN needs ELSE needs \cup {<<here, order.need>>}
     /\ calls' = [calls EXCEPT ![p] =
          IF order.task = "archive" /\ Scheduled(p)
          THEN [Idle EXCEPT !.phase = "scheduled", !.item = here] ELSE Idle]
     /\ UNCHANGED <<world, doing, turn, faults, surprises>>

(* PublishArchivesUseCase runs what it scheduled; start_inline does not look *)
(* at dependencies.                                                          *)
RunsInline(p) ==
  /\ calls[p].phase = "scheduled"
  /\ IF items[calls[p].item].status = "pending"
     THEN /\ items' = [items EXCEPT ![calls[p].item].status = "running"]
          /\ doing' = [doing EXCEPT ![p] = calls[p].item]
          /\ calls' = [calls EXCEPT ![p].phase = "publishing"]
     ELSE /\ calls' = [calls EXCEPT ![p] = Idle]
          /\ UNCHANGED <<items, doing>>
  /\ UNCHANGED <<needs, world, turn, faults, surprises>>

Returns(p) ==
  /\ calls[p].phase = "publishing" /\ doing[p] = 0
  /\ calls' = [calls EXCEPT ![p] = Idle]
  /\ UNCHANGED <<items, needs, world, doing, turn, faults, surprises>>

(* The API process dies: an open transaction is rolled back, an item that    *)
(* still runs is failed by the start-up recovery.                            *)
Dies(p) ==
  /\ faults < MaxFaults /\ calls[p].phase # "idle"
  /\ faults' = faults + 1
  /\ calls' = [calls EXCEPT ![p] = Idle]
  /\ doing' = [doing EXCEPT ![p] = 0]
  /\ items' = IF doing[p] # 0 /\ items[doing[p]].status = "running"
              THEN [items EXCEPT ![doing[p]].status = "failed"]
              ELSE items
  /\ UNCHANGED <<needs, world, turn, surprises>>

(* The agent: every stage in turn, with retryFailed and recheckNoTranscript. *)
Diligent == [retry |-> TRUE, rerun |-> FALSE, recheck |-> TRUE]
AgentChoice(task) ==
  IF task = "collect" THEN Wanted.language
  ELSE IF task = "timeline" THEN Wanted.model ELSE None

AgentCalls ==
  /\ calls["agent"].phase = "idle"
  /\ turn' = (turn % 5) + 1
  /\ surprises' = surprises
  /\ LET task == Stages[turn]
     IN IF Ready(task, AgentChoice(task), Diligent)
        THEN Looks("agent", task, AgentChoice(task), Diligent)
        ELSE UNCHANGED <<items, needs, world, doing, calls, faults>>

CollectTranscripts(p, flags)  == \E l \in Languages : Looks(p, "collect", l, flags)
GenerateCues(p, flags)        == Looks(p, "cue", None, flags)
ExtractMicroEvents(p, flags)  == Looks(p, "micro", None, flags)
ComposeTimelines(p, flags)    == \E m \in Models : Looks(p, "timeline", m, flags)
PublishArchives(p, flags)     == Looks(p, "archive", None, flags)

OtherCalls ==
  /\ surprises < MaxSurprises
  /\ surprises' = surprises + 1 /\ turn' = turn
  /\ \E flags \in Flags :
       \/ CollectTranscripts("other", flags) \/ GenerateCues("other", flags)
       \/ ExtractMicroEvents("other", flags) \/ ComposeTimelines("other", flags)
       \/ PublishArchives("other", flags)

Cancels(i) ==
  /\ surprises < MaxSurprises /\ items[i].status \in {"pending", "running"}
  /\ surprises' = surprises + 1
  /\ items' = [items EXCEPT ![i].status = "canceled", ![i].outcome = "canceled"]
  /\ UNCHANGED <<needs, world, doing, calls, turn, faults>>

----------------------------------------------------------------------------
(* Workers *)

Broken(i) ==
  \/ items[i].status \in {"failed", "blocked", "canceled"}
  \/ items[i].status = "succeeded" /\ items[i].outcome # None

(* mark_dependency_blocked, at the start of every poll *)
AfterBlocking ==
  [i \in Ids |->
    IF items[i].status = "pending" /\ \E u \in Ids : <<i, u>> \in needs /\ Broken(u)
    THEN [items[i] EXCEPT !.status = "blocked", !.outcome = "dependency_failed"]
    ELSE items[i]]

(* Mutant of Satisfied: only a dependency that failed keeps an item back. *)
NotRefused(i) == \A u \in Ids : <<i, u>> \in needs => ~Broken(u)

Satisfied(i) ==
  \A u \in Ids : <<i, u>> \in needs => items[u].status = "succeeded" /\ items[u].outcome = None

Claimable(w) ==
  {i \in Ids : AfterBlocking[i].status = "pending" /\ items[i].task = Serves[w] /\ Satisfied(i)}

(* _claim.  The timeline executor first deletes what an earlier attempt stored. *)
Polls(w) ==
  /\ doing[w] = 0
  /\ \/ /\ Claimable(w) = {} /\ items' = AfterBlocking
        /\ UNCHANGED <<doing, composed>>
     \/ \E i \in Claimable(w) :
          /\ items' = [AfterBlocking EXCEPT ![i].status = "running"]
          /\ doing' = [doing EXCEPT ![w] = i]
          /\ composed' = composed \ {i}
  /\ UNCHANGED <<needs, available, stored, refused, calls, turn, faults, surprises>>

(* Micro-event, timeline and archive executors write the item themselves, *)
(* whatever it is by then, unless they have refused its input; the engine *)
(* completes and fails only a running item.                               *)
Accepted(i) ==
  \/ items[i].task \in {"micro", "timeline", "archive"} \ refused
  \/ items[i].status = "running"

Recorded(i, status, outcome, output) ==
  IF Accepted(i)
  THEN [items EXCEPT ![i].status = status, ![i].outcome = outcome, ![i].output = output]
  ELSE items

RecordedFailure(i) ==
  IF Accepted(i) THEN [items EXCEPT ![i].status = "failed"] ELSE items

(* The executors.  A stored transcript is reused; the archive is built from *)
(* the stored composition.                                                   *)
FetchesTranscript(i) ==
  LET language == items[i].choice IN
  /\ items[i].task = "collect"
  /\ IF language \in stored \cup available
     THEN /\ items' = Recorded(i, "succeeded", None, language)
          /\ stored' = stored \cup {language}
     ELSE /\ items' = Recorded(i, "succeeded", "no_transcript", None)
          /\ stored' = stored
  /\ composed' = composed

StoresCues(i) ==
  /\ items[i].task = "cue"
  /\ items' = Recorded(i, "succeeded", None, items[i].choice)
  /\ UNCHANGED <<stored, composed>>

StoresMicroEvents(i) ==
  /\ items[i].task = "micro"
  /\ items' = Recorded(i, "succeeded", None, None)
  /\ UNCHANGED <<stored, composed>>

StoresComposition(i) ==
  /\ items[i].task = "timeline" /\ "timeline" \notin refused
  /\ items' = Recorded(i, "succeeded", None, None)
  /\ composed' = composed \cup {i}
  /\ stored' = stored

BuildsArchive(i) ==
  /\ items[i].task = "archive" /\ "archive" \notin refused
  /\ items[i].source \in composed
  /\ items' = Recorded(i, "succeeded", None, None)
  /\ UNCHANGED <<stored, composed>>

Executes(w) ==
  LET i == doing[w] IN
  /\ i # 0
  /\ \/ FetchesTranscript(i) \/ StoresCues(i) \/ StoresMicroEvents(i)
     \/ StoresComposition(i) \/ BuildsArchive(i)
  /\ doing' = [doing EXCEPT ![w] = 0]
  /\ UNCHANGED <<needs, available, refused, calls, turn, faults, surprises>>

(* An execution fails for certain when its input is refused, and an archive *)
(* when there is no composition.                                            *)
Fated(i) ==
  \/ items[i].task \in refused
  \/ items[i].task = "archive" /\ items[i].source \notin composed

(* An execution fails or times out, or its lease is recovered. *)
Fails(w) ==
  LET i == doing[w]
  IN /\ i # 0
     /\ Fated(i) \/ faults < MaxFaults
     /\ faults' = IF Fated(i) THEN faults ELSE faults + 1
     /\ items' = RecordedFailure(i)
     /\ doing' = [doing EXCEPT ![w] = 0]
     /\ UNCHANGED <<needs, world, calls, turn, surprises>>

TranscriptAppears(l) ==
  /\ l \notin available
  /\ available' = available \cup {l}
  /\ UNCHANGED <<items, needs, stored, composed, refused, doing, calls, turn, faults, surprises>>

Next ==
  \/ AgentCalls \/ OtherCalls
  \/ \E p \in Clients : Writes(p) \/ RunsInline(p) \/ Returns(p) \/ Dies(p)
  \/ \E w \in Slots : Polls(w)
  \/ \E w \in Slots \cup Clients : Executes(w) \/ Fails(w)
  \/ \E i \in Ids : Cancels(i)
  \/ \E l \in Languages : TranscriptAppears(l)

Spec == Init /\ [][Next]_vars

(* The agent goes on, a call under way ends, workers poll, executions end.  *)
(* A slot claims the oldest item first, and only finitely many items of its *)
(* type are ever asked for, so that none is passed over for ever.           *)
FairSpec ==
  /\ Spec
  /\ WF_vars(AgentCalls)
  /\ \A p \in Clients : WF_vars(Writes(p) \/ RunsInline(p) \/ Returns(p))
  /\ \A w \in Slots : WF_vars(Polls(w))
  /\ \A w \in Slots \cup Clients : WF_vars(Executes(w) \/ Fails(w))

----------------------------------------------------------------------------
(* Properties *)

Statuses == {"pending", "running", "succeeded", "failed", "blocked", "canceled"}
Rows ==
  [task : {Stages[n] : n \in DOMAIN Stages}, choice : Languages \cup Models \cup {None},
   source : Nat, status : Statuses,
   outcome : {None, "no_transcript", "dependency_failed", "canceled"},
   output : Languages \cup {None}]

(* The variables have the types of the rows; no two items share an            *)
(* idempotency key, whichever commands race; a result that can be worked from *)
(* has its output, and only a stored transcript is an output.                 *)
TypeOK ==
  /\ items \in Seq(Rows)
  /\ needs \subseteq Ids \X Ids /\ composed \subseteq Ids
  /\ available \subseteq Languages /\ stored \subseteq Languages
  /\ doing \in [Slots \cup Clients -> Ids \cup {0}]
  /\ turn \in 1..5
  /\ \A i, j \in Ids : Same(items[i], items[j]) => i = j
  /\ \A i \in Ids : items[i].output # None => items[i].output \in stored

(* "A timeline cannot run against a guessed micro-event result": whatever the *)
(* commands and cancellations that come between, a worker starts an item only *)
(* while the item it was ordered for has a usable result.                     *)
StartsAfterItsSource ==
  [][\A w \in Slots :
       (doing[w] = 0 /\ doing'[w] # 0) =>
         LET i == doing'[w]
         IN /\ items[i].source # 0 =>
                 items[items[i].source].status = "succeeded" /\ Usable(items[i].source)
            /\ items[i].task = "cue" =>
                 \E c \in Ids : /\ items[c].task = "collect" /\ items[c].status = "succeeded"
                                /\ items[c].output = items[i].choice]_vars

(* The first stages agree: the newest micro-events were made from the newest  *)
(* cues, and these from the newest transcript.                                *)
EventsInStep ==
  LET c == Latest("collect") u == Latest("cue") m == Latest("micro")
  IN /\ Usable(c) /\ u # 0 /\ m # 0
     /\ items[u].choice = items[c].output /\ items[m].source = u

(* As far as executors accept what is ordered, all agree: the newest timeline *)
(* was made from these micro-events, and it is published.                     *)
InStep ==
  LET m == Latest("micro") t == Latest("timeline")
  IN /\ EventsInStep
     /\ "timeline" \notin refused => t # 0 /\ items[t].source = m
     /\ refused = {} =>
          \E a \in Ids : items[a].task = "archive" /\ items[a].source = t
                         /\ items[a].status = "succeeded"

(* An older item is what a stage would order now, but a newer one of another *)
(* order is the stage's newest result: find_latest goes by id.               *)
Overtaken ==
  \E task \in {"cue", "micro", "timeline"} :
    \E i \in 1..(Latest(task) - 1) :
      /\ items[i].task = task /\ items[i].status = "succeeded"
      /\ \E m \in Models : \E order \in Orders(task, m) : Same(items[i], order)
      /\ \A m \in Models : \A order \in Orders(task, m) : ~Same(items[Latest(task)], order)

(* The reasons for which the stages may never agree: YouTube has no transcript *)
(* as wanted; the newest transcript request found none, which hides an older   *)
(* one; an item was canceled, which no command undoes; or an older item is     *)
(* overtaken.                                                                  *)
Excused ==
  \/ Wanted.language \notin available
  \/ Latest("collect") # 0 /\ ~Usable(Latest("collect"))
  \/ \E i \in Ids : items[i].status = "canceled"
  \/ Overtaken

(* An agent that keeps calling the stages in turn gets micro-events that      *)
(* agree with the cues and the transcript, through failures, restarts and     *)
(* other clients' commands, also while the executors of the last two stages   *)
(* refuse every item that the commands order; and where these accept what is  *)
(* ordered, it gets the video published from results that agree.              *)
StagesGetInStep == <>[](InStep \/ Excused)
=============================================================================
