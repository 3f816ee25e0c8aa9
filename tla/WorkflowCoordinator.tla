------------------------- MODULE WorkflowCoordinator -------------------------
(***************************************************************************)
(* A process_to_publish workflow (application/workflows/coordinator.py,    *)
(* infra/work/workflow_repository.py): coordinators claim workflows under  *)
(* a lease, create the work item of each stage once the stage before it    *)
(* has succeeded, wait for the workers, and run the last stage inline.     *)
(*                                                                         *)
(* Work items appear as WorkExecution's tables show them to a reader:      *)
(* status, outcome and number of attempts; the lease of any running item   *)
(* may have run out.  An execution goes on after its item was recovered,   *)
(* retried or canceled, and some executors write the item whatever has     *)
(* become of it.                                                           *)
(*                                                                         *)
(* One iteration of _advance is one unit of work: everything it reads it   *)
(* reads before its first write, so it is two steps, AdvanceRead and a     *)
(* write.                                                                  *)
(*                                                                         *)
(* A definition that says what a plausible bug would do instead is used by *)
(* no action: the README's table of mutations puts it in the place of the  *)
(* one after it.                                                           *)
(***************************************************************************)
EXTENDS Integers, FiniteSets

CONSTANTS
  Workflows,     \* workflow runs that may be requested
  N,             \* number of stages; the last one is published inline
  ItemOf,        \* ItemOf[w][s]: the work item that stage s of w maps to, by
                 \* idempotency key; equal options give equal items
  RetryFailed,   \* workflows requested with retry_failed
  Coordinators,  \* coordinator processes
  None,          \* NULL
  Recording,     \* stages whose executor records its own result
  Refused,       \* stages whose executor refuses the input it is given
  Verdicts,      \* how an executor that accepts its input may end
  MaxCommands,   \* bound: items retried, rerun or cancelled by operators
  MaxCrashes     \* bound: crashes of coordinators and workers

Stages == 1..N
Items == {ItemOf[w][s] : w \in Workflows, s \in Stages}

ASSUME StageAssumption == N \in Nat \ {0}
ASSUME ItemAssumption ==
  \A v, w \in Workflows, s, t \in Stages :
    ItemOf[v][s] = ItemOf[w][t] =>
      s = t /\ \A u \in Stages : u < s => ItemOf[v][u] = ItemOf[w][u]
ASSUME OwnerAssumption == None \notin Coordinators
ASSUME OptionAssumption ==
  /\ RetryFailed \subseteq Workflows /\ Recording \subseteq Stages /\ Refused \subseteq Stages
  /\ Verdicts \subseteq {"succeeded", "failed", "timed_out"}
  /\ MaxCommands \in Nat /\ MaxCrashes \in Nat

VARIABLES
  run,       \* workflow_runs: status, lease_owner, lease_expires_at
  step,      \* workflow_steps: the status last recorded of each stage
  item,      \* work_items: status, outcome_code, attempts made
  doing,     \* executions of an item that workers have under way
  coord,     \* what each coordinator is doing, and what it has read
  produced,  \* history: items that have committed a usable result
  commands,  \* operator commands so far
  crashes    \* crashes so far
vars == <<run, step, item, doing, coord, produced, commands, crashes>>

----------------------------------------------------------------------------
(* Rows *)

Failures == {"failed", "timed_out", "blocked", "canceled"}
Ended == {"succeeded", "failed", "blocked"}
Leases == {"none", "live", "expired"}

Run == [status: {"absent", "pending", "running", "waiting"} \cup Ended,
        owner: Coordinators \cup {None}, lease: Leases]
Item == [status: {"absent", "pending", "running", "succeeded"} \cup Failures,
         outcome: {"null", "no_transcript"}, tries: Nat]
StepStatus == {"none", "pending", "running", "succeeded"} \cup Failures

NoRun == [status |-> "absent", owner |-> None, lease |-> "none"]
NoItem == [status |-> "absent", outcome |-> "null", tries |-> 0]
NewItem == [NoItem EXCEPT !.status = "pending"]

(* A unit of work's ORM flush: the columns that differ from the row it read. *)
OrmWrite(row, seen, new) ==
  [status |-> IF new.status # seen.status THEN new.status ELSE row.status,
   owner |-> IF new.owner # seen.owner THEN new.owner ELSE row.owner,
   lease |-> IF new.lease # seen.lease THEN new.lease ELSE row.lease]

(* reset_for_retry; attempts stay *)
Reset(row) == [row EXCEPT !.status = "pending", !.outcome = "null"]

(* mark_succeeded, mark_failed, cancel, and the UPDATE of lease recovery; of *)
(* outcomes only no_transcript is kept apart from null.                      *)
Ends(row, v, o) == [row EXCEPT !.status = v, !.outcome = IF v = "succeeded" THEN o ELSE @]

Starts(row) == [row EXCEPT !.status = "running", !.tries = @ + 1]

(* The item that i depends on, in a set; empty for a first stage. *)
Before(i) ==
  {j \in Items : \E w \in Workflows, s \in 2..N : ItemOf[w][s] = i /\ ItemOf[w][s - 1] = j}
Usable(row) == row.status = "succeeded" /\ row.outcome = "null"
StageOf(i) == CHOOSE s \in Stages : \E w \in Workflows : ItemOf[w][s] = i
Inline(i) == StageOf(i) = N

----------------------------------------------------------------------------
(* Coordinators *)

At(where) ==
  [pc |-> where, run |-> None, left |-> 0, stage |-> 0,
   row |-> NoRun, step |-> "none", item |-> NoItem, ready |-> TRUE]

Init ==
  /\ run = [w \in Workflows |-> NoRun]
  /\ step = [w \in Workflows |-> [s \in Stages |-> "none"]]
  /\ item = [i \in Items |-> NoItem]
  /\ doing = [i \in Items |-> 0]
  /\ coord = [c \in Coordinators |-> At("starting")]
  /\ produced = {}
  /\ commands = 0
  /\ crashes = 0

Dies(c) == coord' = [coord EXCEPT ![c] = At("down")]
Result(i, v, o) == produced' = IF v = "succeeded" /\ o = "null" THEN produced \cup {i} ELSE produced

(* StartProcessToPublish, create_or_get: a workflow of the same input is     *)
(* returned whatever its status.                                             *)
Start(w) ==
  /\ run[w].status = "absent"
  /\ run' = [run EXCEPT ![w].status = "pending"]
  /\ UNCHANGED <<step, item, doing, coord, produced, commands, crashes>>

RunLeaseExpires(w) ==
  /\ run[w].lease = "live"
  /\ run' = [run EXCEPT ![w].lease = "expired"]
  /\ UNCHANGED <<step, item, doing, coord, produced, commands, crashes>>

Crash(c) ==
  /\ crashes < MaxCrashes /\ coord[c].pc # "down"
  /\ Dies(c)
  /\ crashes' = crashes + 1
  /\ UNCHANGED <<run, step, item, doing, produced, commands>>

Restart(c) ==
  /\ coord[c].pc = "down"
  /\ coord' = [coord EXCEPT ![c] = At("starting")]
  /\ UNCHANGED <<run, step, item, doing, produced, commands, crashes>>

Expired(row) == row.status = "running" /\ row.lease = "expired"
RecoveredRun(row) == [status |-> "waiting", owner |-> None, lease |-> "none"]

(* recover_expired, once, when a coordinator starts: items whose lease has   *)
(* run out and workflows whose lease has, in one transaction.                *)
RecoverExpired(c) ==
  /\ coord[c].pc = "starting"
  /\ \E lost \in SUBSET {i \in Items : item[i].status = "running"} :
       item' = [i \in Items |-> IF i \in lost THEN Ends(item[i], "timed_out", "null") ELSE item[i]]
  /\ run' = [w \in Workflows |-> IF Expired(run[w]) THEN RecoveredRun(run[w]) ELSE run[w]]
  /\ coord' = [coord EXCEPT ![c] = At("idle")]
  /\ UNCHANGED <<step, doing, produced, commands, crashes>>

ClaimableAgain(row) == row.status \in {"pending", "waiting", "failed"}
ClaimableOnce(row) == row.status = "pending"
(* claim_next, its WHERE clause: waiting workflows are polled *)
Claimable(row) ==
  row.status \in {"pending", "waiting"} /\ row.lease \in {"none", "expired"}

Claim(c, w) ==
  /\ coord[c].pc = "idle" /\ Claimable(run[w])
  /\ run' = [run EXCEPT ![w] = [status |-> "running", owner |-> c, lease |-> "live"]]
  /\ coord' = [coord EXCEPT ![c] = [At("advance") EXCEPT !.run = w, !.left = N]]
  /\ UNCHANGED <<step, item, doing, produced, commands, crashes>>

(* s is the first stage that is not recorded as succeeded; N + 1 when all are *)
NextStage(recorded, s) ==
  /\ \A t \in 1..(s - 1) : recorded[t] = "succeeded"
  /\ s <= N => recorded[s] # "succeeded"

DependencyKnown(w, s) == item[ItemOf[w][s - 1]].status # "absent"
(* _dependency_item and _stage_input: the stage before has succeeded, and    *)
(* its output has the keys that this stage's input is made of.               *)
DependencyReady(w, s) == Usable(item[ItemOf[w][s - 1]])

(* An iteration of _advance, what it reads *)
AdvanceRead(c) ==
  /\ coord[c].pc = "advance" /\ coord[c].left > 0
  /\ LET w == coord[c].run
     IN \E s \in 1..(N + 1) :
          /\ NextStage(step[w], s)
          /\ coord' = [coord EXCEPT ![c] =
               [pc |-> "write", run |-> w, left |-> coord[c].left - 1, stage |-> s, row |-> run[w],
                step |-> IF s <= N THEN step[w][s] ELSE "none",
                item |-> IF s <= N THEN item[ItemOf[w][s]] ELSE NoItem,
                ready |-> s = 1 \/ s > N \/ step[w][s] # "none" \/ DependencyReady(w, s)]]
  /\ UNCHANGED <<run, step, item, doing, produced, commands, crashes>>

(* The loop has used as many iterations as there are stages. *)
AdvanceExceeded(c) ==
  /\ coord[c].pc = "advance" /\ coord[c].left = 0
  /\ Dies(c)
  /\ UNCHANGED <<run, step, item, doing, produced, commands, crashes>>

----------------------------------------------------------------------------
(* An iteration of _advance, what it writes *)

RetriesTwice(c) == coord[c].item.tries <= 2
RetriesLeft(c) == coord[c].item.tries < 2
(* _ensure_stage_item resets the item of a step that failed. *)
Retries(c) ==
  /\ coord[c].step # "none" /\ coord[c].run \in RetryFailed
  /\ coord[c].item.status \in {"failed", "timed_out", "blocked"}
  /\ RetriesLeft(c)

(* _dependency_item or _stage_input raises; or add_step inserts a step that  *)
(* another coordinator has inserted since.  Nothing catches either.          *)
AdvanceRaises(c) ==
  LET s == coord[c].stage
  IN /\ coord[c].pc = "write" /\ s <= N /\ coord[c].step = "none"
     /\ \/ ~ coord[c].ready
        \/ step[coord[c].run][s] # "none"
     /\ Dies(c)
     /\ UNCHANGED <<run, step, item, doing, produced, commands, crashes>>

ItemAsRead(c) == coord[c].item
(* The item of the stage, as _ensure_stage_item returns it: reset, created,  *)
(* or as it was read.  get_or_create looks again when its INSERT fails.      *)
StageItem(c) ==
  LET i == ItemOf[coord[c].run][coord[c].stage]
      seen == coord[c].item
  IN CASE Retries(c) -> Reset(seen)
       [] seen.status = "absent" /\ item[i].status = "absent" -> NewItem
       [] seen.status = "absent" /\ item[i].status # "absent" -> item[i]
       [] OTHER -> seen

(* The row of work_items after that: reset_for_retry flushes the columns     *)
(* that differ from the row that was read; the outcome does if it was        *)
(* dependency_failed.                                                        *)
StageRow(c) ==
  LET i == ItemOf[coord[c].run][coord[c].stage]
  IN CASE Retries(c) -> IF coord[c].item.status = "blocked" THEN Reset(item[i])
                        ELSE [item[i] EXCEPT !.status = "pending"]
       [] coord[c].item.status = "absent" /\ item[i].status = "absent" -> NewItem
       [] OTHER -> item[i]

HastyOutcome(s, got) ==
  CASE got.status = "succeeded" /\ got.outcome # "null" -> "blocked"
    [] Usable(got) /\ s < N -> "advance"
    [] got.status \in {"running", "succeeded"} /\ s = N -> "succeeded"
    [] got.status \in {"blocked", "canceled"} -> "blocked"
    [] got.status \in {"failed", "timed_out"} -> "failed"
    [] s = N /\ got.status = "pending" -> "inline"
    [] OTHER -> "waiting"
PatientOutcome(s, got) ==
  CASE got.status = "succeeded" /\ got.outcome # "null" -> "blocked"
    [] Usable(got) -> IF s = N THEN "succeeded" ELSE "advance"
    [] got.status \in {"blocked", "canceled"} -> "blocked"
    [] s = N /\ got.status = "pending" -> "inline"
    [] OTHER -> "waiting"
(* Where the workflow goes from the stage's item: an iteration more, the     *)
(* inline run, or a status.                                                  *)
Outcome(s, got) ==
  CASE got.status = "succeeded" /\ got.outcome # "null" -> "blocked"
    [] Usable(got) -> IF s = N THEN "succeeded" ELSE "advance"
    [] got.status \in {"blocked", "canceled"} -> "blocked"
    [] got.status \in {"failed", "timed_out"} -> "failed"
    [] s = N /\ got.status = "pending" -> "inline"
    [] OTHER -> "waiting"

(* set_waiting, mark_succeeded, mark_failed: neither the owner nor the       *)
(* status is looked at, and the lease is cleared.                            *)
Finish(c, status) ==
  LET w == coord[c].run
  IN /\ run' = [run EXCEPT ![w] = OrmWrite(@, coord[c].row,
                   [status |-> status, owner |-> None, lease |-> "none"])]
     /\ coord' = [coord EXCEPT ![c] = At("idle")]

(* _ensure_stage_item, add_step and what follows, one commit *)
AdvanceWrite(c) ==
  LET w == coord[c].run
      s == coord[c].stage
      got == StageItem(c)
      next == Outcome(s, got)
  IN /\ coord[c].pc = "write" /\ s <= N
     /\ coord[c].step = "none" => coord[c].ready /\ step[w][s] = "none"
     /\ item' = [item EXCEPT ![ItemOf[w][s]] = StageRow(c)]
     /\ step' = [step EXCEPT ![w][s] = IF got.status = coord[c].step THEN @ ELSE got.status]
     /\ IF next \in {"advance", "inline"}
        THEN /\ coord' = [coord EXCEPT ![c] =
                  [At(next) EXCEPT !.run = w, !.left = coord[c].left]]
             /\ UNCHANGED run
        ELSE Finish(c, next)
     /\ UNCHANGED <<doing, produced, commands, crashes>>

(* every stage is recorded as succeeded *)
AdvanceCompletes(c) ==
  /\ coord[c].pc = "write" /\ coord[c].stage > N
  /\ Finish(c, "succeeded")
  /\ UNCHANGED <<step, item, doing, produced, commands, crashes>>

----------------------------------------------------------------------------
(* The inline run of the last stage, with a heartbeat on the workflow *)

LastItem(c) == ItemOf[coord[c].run][N]
Continue(c) == coord' = [coord EXCEPT ![c].pc = "advance"]

InlineStarts(c) ==
  /\ coord[c].pc = "inline"
  /\ IF item[LastItem(c)].status = "pending"
     THEN /\ item' = [item EXCEPT ![LastItem(c)] = Starts(@)]
          /\ coord' = [coord EXCEPT ![c].pc = "publishing"]
     ELSE Continue(c) /\ UNCHANGED item
  /\ UNCHANGED <<run, step, doing, produced, commands, crashes>>

RunHeartbeat(c) ==
  /\ coord[c].pc = "publishing"
  /\ run[coord[c].run].status = "running" /\ run[coord[c].run].owner = c
  /\ run' = [run EXCEPT ![coord[c].run].lease = "live"]
  /\ UNCHANGED <<step, item, doing, coord, produced, commands, crashes>>

Ending(s, v) == v \in IF s \in Refused THEN {"failed"} ELSE Verdicts

(* An executor that refuses its input raises before it records anything.     *)
SelfRecorded(i) == StageOf(i) \in Recording \ Refused

(* The engine records how the execution ended; that of a self-recording      *)
(* executor, when it was ended before it could.                              *)
InlineEnds(c, v) ==
  /\ coord[c].pc = "publishing" /\ Ending(N, v)
  /\ item[LastItem(c)].status = "running"
  /\ SelfRecorded(LastItem(c)) => v # "succeeded"
  /\ item' = [item EXCEPT ![LastItem(c)] = Ends(@, v, "null")]
  /\ Result(LastItem(c), v, "null")
  /\ Continue(c)
  /\ UNCHANGED <<run, step, doing, commands, crashes>>

(* The executor has recorded its result, whatever the item's status was, or  *)
(* the item is no longer running: the engine's completion raises, and the    *)
(* process ends.                                                             *)
InlineRejected(c, v) ==
  /\ coord[c].pc = "publishing" /\ v \in Verdicts
  /\ \/ /\ SelfRecorded(LastItem(c))
        /\ item' = [item EXCEPT ![LastItem(c)] = Ends(@, v, "null")]
        /\ Result(LastItem(c), v, "null")
     \/ /\ item[LastItem(c)].status # "running"
        /\ UNCHANGED <<item, produced>>
  /\ Dies(c)
  /\ UNCHANGED <<run, step, doing, commands, crashes>>

----------------------------------------------------------------------------
(* Workers and operators, as WorkExecution has them *)

WorkerStarts(i) ==
  /\ ~ Inline(i) /\ item[i].status = "pending" /\ \A j \in Before(i) : Usable(item[j])
  /\ item' = [item EXCEPT ![i] = Starts(@)]
  /\ doing' = [doing EXCEPT ![i] = @ + 1]
  /\ UNCHANGED <<run, step, coord, produced, commands, crashes>>

(* mark_dependency_blocked, by any worker that polls *)
WorkerBlocks(i) ==
  /\ item[i].status = "pending"
  /\ \E j \in Before(i) :
       item[j].status \in Failures \cup {"succeeded"} /\ ~ Usable(item[j])
  /\ item' = [item EXCEPT ![i].status = "blocked"]
  /\ UNCHANGED <<run, step, doing, coord, produced, commands, crashes>>

(* An executor's own record (_complete, _fail) looks at no status. *)
Records(i) == item[i].status = "running" \/ SelfRecorded(i)

(* The engine's completion raises unless the item is running, and is all     *)
(* there is of a failure before the executor's own record begins.            *)
Drops(i, v) == item[i].status # "running" /\ (SelfRecorded(i) => v # "succeeded")

(* An execution ends, be it the item's current one or an earlier one that    *)
(* outlived its lease.                                                       *)
WorkerEnds(i, v, o) ==
  /\ doing[i] > 0 /\ Ending(StageOf(i), v)
  /\ o = "no_transcript" => v = "succeeded" /\ StageOf(i) = 1
  /\ doing' = [doing EXCEPT ![i] = @ - 1]
  /\ \/ Records(i) /\ item' = [item EXCEPT ![i] = Ends(@, v, o)] /\ Result(i, v, o)
     \/ Drops(i, v) /\ UNCHANGED <<item, produced>>
  /\ UNCHANGED <<run, step, coord, commands, crashes>>

(* the process of an execution dies: the item is left as it is *)
WorkerDies(i) ==
  /\ doing[i] > 0 /\ crashes < MaxCrashes
  /\ doing' = [doing EXCEPT ![i] = @ - 1]
  /\ crashes' = crashes + 1
  /\ UNCHANGED <<run, step, item, coord, produced, commands>>

(* some other process starts and finds that the lease has run out, of an     *)
(* execution that died or of one whose heartbeat does not get through        *)
ItemRecovered(i) ==
  /\ item[i].status = "running"
  /\ item' = [item EXCEPT ![i] = Ends(@, "timed_out", "null")]
  /\ UNCHANGED <<run, step, doing, coord, produced, commands, crashes>>

OperatorResets(i) ==
  /\ commands < MaxCommands
  /\ item[i].status \in {"failed", "timed_out", "blocked", "succeeded"}
  /\ commands' = commands + 1
  /\ item' = [item EXCEPT ![i] = Reset(@)]
  /\ UNCHANGED <<run, step, doing, coord, produced, crashes>>

OperatorCancels(i) ==
  /\ commands < MaxCommands /\ item[i].status \in {"pending", "running"}
  /\ commands' = commands + 1
  /\ item' = [item EXCEPT ![i] = Ends(@, "canceled", "null")]
  /\ UNCHANGED <<run, step, doing, coord, produced, crashes>>

----------------------------------------------------------------------------
Next ==
  \/ \E w \in Workflows : Start(w) \/ RunLeaseExpires(w)
  \/ \E c \in Coordinators :
       \/ Crash(c) \/ Restart(c) \/ RecoverExpired(c)
       \/ \E w \in Workflows : Claim(c, w)
       \/ AdvanceRead(c) \/ AdvanceExceeded(c) \/ AdvanceRaises(c)
       \/ AdvanceWrite(c) \/ AdvanceCompletes(c)
       \/ InlineStarts(c) \/ RunHeartbeat(c)
       \/ \E v \in Verdicts \cup {"failed"} : InlineEnds(c, v) \/ InlineRejected(c, v)
  \/ \E i \in Items :
       \/ WorkerStarts(i) \/ WorkerBlocks(i) \/ WorkerDies(i) \/ ItemRecovered(i)
       \/ \E v \in Verdicts \cup {"failed"}, o \in {"null", "no_transcript"} : WorkerEnds(i, v, o)
       \/ OperatorResets(i) \/ OperatorCancels(i)

Spec == Init /\ [][Next]_vars

(* The scheduled task starts the coordinator, whose loop claims, in the      *)
(* order of updated_at, and advances; workers poll, and the item's timeout   *)
(* ends every execution.  A requested workflow has been requested.           *)
Fairness ==
  /\ \A c \in Coordinators :
       /\ WF_vars(Restart(c)) /\ WF_vars(RecoverExpired(c))
       /\ \A w \in Workflows : SF_vars(Claim(c, w))
       /\ WF_vars(AdvanceRead(c)) /\ WF_vars(AdvanceExceeded(c)) /\ WF_vars(AdvanceRaises(c))
       /\ WF_vars(AdvanceWrite(c)) /\ WF_vars(AdvanceCompletes(c)) /\ WF_vars(InlineStarts(c))
       /\ WF_vars(\E v \in Verdicts \cup {"failed"} : InlineEnds(c, v) \/ InlineRejected(c, v))
  /\ \A i \in Items :
       /\ WF_vars(WorkerStarts(i)) /\ WF_vars(WorkerBlocks(i))
       /\ WF_vars(\E v \in Verdicts \cup {"failed"}, o \in {"null", "no_transcript"} : WorkerEnds(i, v, o))

FairSpec == Spec /\ Fairness

----------------------------------------------------------------------------
(* Safety *)

Coordinator ==
  [pc: {"down", "starting", "idle", "advance", "write", "inline", "publishing"},
   run: Workflows \cup {None}, left: 0..N, stage: 0..(N + 1), row: Run,
   step: StepStatus, item: Item, ready: BOOLEAN]

(* The variables have the types of the columns they stand for. *)
TypeOK ==
  /\ run \in [Workflows -> Run]
  /\ step \in [Workflows -> [Stages -> StepStatus]]
  /\ item \in [Items -> Item]
  /\ doing \in [Items -> Nat]
  /\ coord \in [Coordinators -> Coordinator]
  /\ produced \in SUBSET Items
  /\ commands \in Nat /\ crashes \in Nat

(* "The coordinator creates the next stage only after the actual upstream    *)
(* output is known": no interleaving of coordinators, workers and reruns     *)
(* creates a stage's item before every stage before it has had a result.     *)
CreatedAfterUpstream ==
  \A w \in Workflows, s, t \in Stages :
    t < s /\ item[ItemOf[w][s]].status # "absent" => ItemOf[w][t] \in produced

(* A succeeded workflow has published: each of its stages has had a result,  *)
(* although it is concluded from steps that remember earlier statuses.       *)
SucceededIsPublished ==
  \A w \in Workflows : run[w].status = "succeeded" =>
    \A s \in Stages : ItemOf[w][s] \in produced

(* The parts of the invariant that those two are proved from.                *)
(* Items: a usable result was produced, by an item; the last has no outcome. *)
ItemFacts ==
  /\ \A i \in Items : Usable(item[i]) => i \in produced
  /\ \A i \in produced : item[i].status # "absent"
  /\ \A w \in Workflows : item[ItemOf[w][N]].outcome = "null"
(* Steps: a recorded stage has an item, a recorded publication a result. *)
StepFacts ==
  \A w \in Workflows :
    /\ \A s \in Stages : step[w][s] # "none" => item[ItemOf[w][s]].status # "absent"
    /\ step[w][N] = "succeeded" => ItemOf[w][N] \in produced
RunFacts ==
  \A w \in Workflows : run[w].status = "succeeded" => ItemOf[w][N] \in produced
(* What workers execute exists, and is no inline item: an execution may      *)
(* write its row at any time.                                                *)
DoingFacts == \A i \in Items : doing[i] > 0 => item[i].status # "absent" /\ ~ Inline(i)
(* What a coordinator read for the stage it is about to write still binds    *)
(* it, whatever was done to the row since.                                   *)
SeenFacts(seen) ==
  LET i == ItemOf[seen.run][seen.stage]
  IN /\ seen.step # "none" => seen.item.status # "absent"
     /\ seen.item.status # "absent" => item[i].status # "absent"
     /\ seen.step = "none" /\ seen.ready /\ seen.stage > 1 =>
          ItemOf[seen.run][seen.stage - 1] \in produced
     /\ Usable(seen.item) => i \in produced
     /\ seen.stage = N => seen.item.outcome = "null"
CoordFacts(c) ==
  /\ coord[c].pc \in {"advance", "write", "inline", "publishing"} => coord[c].run \in Workflows
  /\ coord[c].pc \in {"inline", "publishing"} => item[LastItem(c)].status # "absent"
  /\ coord[c].pc = "write" =>
       /\ coord[c].stage \in 1..(N + 1)
       /\ coord[c].stage \in Stages => SeenFacts(coord[c])
       /\ coord[c].stage = N + 1 => LastItem(c) \in produced

(* What any number of coordinators keep, without a fence on their writes. *)
FlowInv ==
  /\ TypeOK /\ ItemFacts /\ StepFacts /\ RunFacts /\ DoingFacts /\ CreatedAfterUpstream
  /\ \A c \in Coordinators : CoordFacts(c)

(* A failed stage is retried once and no more, across crashes between the    *)
(* reset and its record; each command of an operator adds at most one try    *)
(* (one coordinator).                                                        *)
RetriedOnce ==
  \A w \in Workflows, s \in Stages :
    item[ItemOf[w][s]].tries <=
      (IF \E v \in RetryFailed : ItemOf[v][s] = ItemOf[w][s] THEN 2 ELSE 1) + commands

(* A workflow that has ended stays as it ended (one coordinator at a time:   *)
(* _finish_transition looks at neither status nor owner).                    *)
EndedStaysEnded ==
  [][\A w \in Workflows : run[w].status \in Ended => run'[w].status = run[w].status]_vars

----------------------------------------------------------------------------
(* Liveness *)

(* A claim or an execution that nobody works on any more: its process was    *)
(* restarted before the lease ran out, and leases are recovered only when a  *)
(* process starts.                                                           *)
Executing(i) == doing[i] > 0 \/ \E c \in Coordinators : coord[c].pc = "publishing" /\ LastItem(c) = i
Orphaned(w) ==
  \/ run[w].status = "running" /\ \A c \in Coordinators : coord[c].run # w
  \/ \E s \in Stages : item[ItemOf[w][s]].status = "running" /\ ~ Executing(ItemOf[w][s])

(* A stage recorded as succeeded whose result was taken back, by a late      *)
(* execution's failure or an operator's rerun.  No coordinator looks at it   *)
(* again.  Before the next stage has a step, each claim of the workflow ends *)
(* its coordinator; and once it has, a coordinator with retry_failed resets  *)
(* the blocked item at each poll, and a worker blocks it again.              *)
TakenBack(w) ==
  \E s \in 1..(N - 1) :
    /\ step[w][s] = "succeeded" /\ ~ Usable(item[ItemOf[w][s]])
    /\ \/ step[w][s + 1] = "none"
       \/ \E v \in RetryFailed : ItemOf[v][s + 1] = ItemOf[w][s + 1]

(* Every workflow comes to rest: it ends, whatever its executors return,     *)
(* unless it is left orphaned, or a result that it has recorded stays taken  *)
(* back where nobody can pass it.                                            *)
WorkflowSettles ==
  \A w \in Workflows :
    <>[](run[w].status \in Ended \cup {"absent"} \/ Orphaned(w) \/ TakenBack(w))

(* A requested workflow is published, unless it is left orphaned or an item  *)
(* of it was failed by an executor that had not refused the coordinator's    *)
(* input, lost its lease, was canceled, or found no transcript.              *)
WorkflowPublishes ==
  \A w \in Workflows :
    \/ <>[]Orphaned(w)
    \/ run[w].status = "pending" ~>
         \/ run[w].status = "succeeded"
         \/ \E s \in Stages \ Refused :
              \/ item[ItemOf[w][s]].status \in {"failed", "timed_out", "canceled"}
              \/ item[ItemOf[w][s]].outcome # "null"

=============================================================================
