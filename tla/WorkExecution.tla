---------------------------- MODULE WorkExecution ----------------------------
(***************************************************************************)
(* The durable work tables and everything that writes them while work is   *)
(* executed: the leased engine (application/work/execution.py), its SQL    *)
(* repository (infra/work/item_repository.py), the executors that record   *)
(* their own result (infra/work/execution_repositories.py), the start-up   *)
(* recovery of every process, and the operator commands retry and cancel.  *)
(*                                                                         *)
(* One database transaction is one step, with one exception that the code  *)
(* really has: a SELECT issued before the first write of a transaction is  *)
(* not part of it (SQLite takes its lock at the first write), so a unit of *)
(* work that reads and then writes is two steps, ...Read and ...Write.     *)
(*                                                                         *)
(* A definition that says what a plausible bug would write instead         *)
(* (OpenPending, CloseOf, ...) is used by no action: the README's table    *)
(* of mutations puts it in the place of the one after it.                  *)
(***************************************************************************)
EXTENDS Integers, Sequences, FiniteSets

CONSTANTS
  Items,          \* work items, all enqueued
  InlineItems,    \* execution_mode inline: never claimed by a worker
  TaskRecorders,  \* items whose executor records through WorkVideoTaskRepository
  JobRecorders,   \* items whose executor records through WorkPipelineJobRepository
  Upstream,       \* Upstream[i]: the items that i depends on
  Workers,        \* worker slots: poll, claim, execute
  Coordinators,   \* run archive items inline, recover leases when they start
  ApiRunners,     \* API requests that run inline items, worker ids *:manual-api
  ProcessOf,      \* the operating system process of a runner
  Operators,      \* concurrent retry and cancel requests
  None,           \* NULL in a column
  Relabel,        \* ARCHIVE_PUBLISH_RUNNER_ID
  MaxAttempts,    \* bound: nobody asks to retry an item with this many attempts
  MaxCrashes      \* bound: crashes of a process

Runners == Workers \cup Coordinators \cup ApiRunners
Processes == {ProcessOf[r] : r \in Runners}
SelfRecording == TaskRecorders \cup JobRecorders

ASSUME PartitionAssumption ==
  /\ Workers \cap Coordinators = {} /\ Workers \cap ApiRunners = {}
  /\ Coordinators \cap ApiRunners = {}
  /\ InlineItems \subseteq Items /\ TaskRecorders \subseteq Items
  /\ JobRecorders \subseteq Items /\ TaskRecorders \cap JobRecorders = {}
ASSUME NullAssumption ==
  None \notin Items /\ None \notin Runners /\ Relabel \notin Runners /\ Relabel # None
ASSUME UpstreamAssumption == Upstream \in [Items -> SUBSET Items]
(* The API is one process; its requests share it with nobody else. *)
ASSUME ApiAssumption ==
  \A a \in ApiRunners : \A r \in Runners : ProcessOf[r] = ProcessOf[a] <=> r \in ApiRunners
ASSUME BoundAssumption == MaxAttempts \in Nat /\ MaxCrashes \in Nat

VARIABLES
  item,      \* work_items: the row of each item
  attempts,  \* work_attempts: the attempts of each item, in attempt_no order
  runner,    \* what each runner is doing
  found,     \* ids selected by a recovery that has not written yet
  request,   \* operator requests between their read and their write
  crashes    \* crashes so far
vars == <<item, attempts, runner, found, request, crashes>>

----------------------------------------------------------------------------
(* Rows *)

Failures == {"failed", "timed_out", "blocked", "canceled"}
Terminal == Failures \cup {"succeeded"}
Status == Terminal \cup {"pending", "running"}
Outcomes == {"null", "no_transcript", "dependency_failed", "canceled"}
Verdicts == {"succeeded", "failed", "timed_out"}

Row == [status: Status, outcome: Outcomes,
        owner: Runners \cup {None, Relabel}, lease: {"none", "live", "expired"}]
Attempt == [worker: Runners, status: {"running"} \cup Verdicts]

(* A row as created, and as reset_for_retry leaves it. *)
NewRow == [status |-> "pending", outcome |-> "null", owner |-> None, lease |-> "none"]

(* The columns a claim sets. *)
Leased(row, r) == [row EXCEPT !.status = "running", !.owner = r, !.lease = "live"]

(* The columns every completion sets: _finish clears the lease. *)
Finished(status, outcome) ==
  [status |-> status, outcome |-> outcome, owner |-> None, lease |-> "none"]

(* What the ORM flushes: UPDATE ... WHERE id = ? with the columns that       *)
(* differ from the row as it was loaded, whatever the row holds by now.      *)
OrmWrite(row, seen, new) ==
  [status  |-> IF new.status # seen.status THEN new.status ELSE row.status,
   outcome |-> IF new.outcome # seen.outcome THEN new.outcome ELSE row.outcome,
   owner   |-> IF new.owner # seen.owner THEN new.owner ELSE row.owner,
   lease   |-> IF new.lease # seen.lease THEN new.lease ELSE row.lease]

OpenFirst(list, r) == IF list = << >> THEN <<[worker |-> r, status |-> "running"]>> ELSE list
OpenPending(list, r) == Append(list, [worker |-> r, status |-> "pending"])
OpenAttempt(list, r) == Append(list, [worker |-> r, status |-> "running"])
CloseOpen(list, k, status) ==
  IF list[k].status = "running" THEN [list EXCEPT ![k].status = status] ELSE list
CloseAttempt(list, k, status) == [list EXCEPT ![k] = [@ EXCEPT !.status = status]]
CloseOf(list, W, status) ==
  [k \in DOMAIN list |->
    IF list[k].worker \in W THEN [list[k] EXCEPT !.status = status] ELSE list[k]]
(* UPDATE work_attempts SET status WHERE status = 'running' AND worker in W  *)
CloseRunning(list, W, status) ==
  [k \in DOMAIN list |->
    IF list[k].status = "running" /\ list[k].worker \in W
    THEN [list[k] EXCEPT !.status = status] ELSE list[k]]

----------------------------------------------------------------------------
(* Runners.  A runner is down with its process, recovers while it starts,    *)
(* and then holds at most one claim: the item, the attempt it opened, the    *)
(* row its executor loaded, the executor's verdict, its heartbeat task.      *)

At(where) == [pc |-> where, item |-> None, attempt |-> 0, loaded |-> NewRow,
              verdict |-> "failed", beat |-> "off"]
Holding(i, k) == [At("claimed") EXCEPT !.item = i, !.attempt = k, !.beat = "on"]

Holds(r) == runner[r].pc \in {"claimed", "loaded", "recorded", "returned"}
Executes(r) == runner[r].pc \in {"claimed", "loaded", "recorded"}

Move(R, where) == runner' = [r \in Runners |-> IF r \in R THEN At(where) ELSE runner[r]]
Siblings(r) == {s \in Runners : ProcessOf[s] = ProcessOf[r]}

NoRequest == [op |-> "none", item |-> None, loaded |-> NewRow]

Init ==
  /\ item = [i \in Items |-> NewRow]
  /\ attempts = [i \in Items |-> << >>]
  /\ runner = [r \in Runners |-> At("starting")]
  /\ found = [r \in Runners |-> {}]
  /\ request = [c \in Operators |-> NoRequest]
  /\ crashes = 0

----------------------------------------------------------------------------
(* Time and processes *)

(* The lease of a running item runs out: lease_expires_at <= now.  Nothing   *)
(* ties this to the owner's health: a suspended host or a locked database    *)
(* delays the heartbeat of a live owner.                                     *)
LeaseExpires(i) ==
  /\ item[i].status = "running" /\ item[i].lease = "live"
  /\ item' = [item EXCEPT ![i].lease = "expired"]
  /\ UNCHANGED <<attempts, runner, found, request, crashes>>

Crash(p) ==
  /\ crashes < MaxCrashes
  /\ \E r \in Runners : ProcessOf[r] = p /\ runner[r].pc # "down"
  /\ Move({r \in Runners : ProcessOf[r] = p}, "down")
  /\ found' = [r \in Runners |-> IF ProcessOf[r] = p THEN {} ELSE found[r]]
  /\ crashes' = crashes + 1
  /\ UNCHANGED <<item, attempts, request>>

(* The scheduled task starts the processes that are missing.                 *)
Restart(p) ==
  /\ \E r \in Runners : ProcessOf[r] = p /\ runner[r].pc = "down"
  /\ Move({r \in Runners : ProcessOf[r] = p /\ runner[r].pc = "down"}, "starting")
  /\ UNCHANGED <<item, attempts, found, request, crashes>>

----------------------------------------------------------------------------
(* Recovery, once, when a runner starts *)

ExpiredItems == {i \in Items : item[i].status = "running" /\ item[i].lease = "expired"}

(* recover_expired_leases, its SELECT *)
RecoverRead(r) ==
  /\ r \in Workers \cup Coordinators /\ runner[r].pc = "starting"
  /\ Move({r}, IF ExpiredItems = {} THEN "idle" ELSE "recovering")
  /\ found' = [found EXCEPT ![r] = ExpiredItems]
  /\ UNCHANGED <<item, attempts, request, crashes>>

LeftRunning(row) == row
(* the columns the second UPDATE of recover_expired_leases sets *)
Recovered(row) == [row EXCEPT !.status = "timed_out", !.owner = None, !.lease = "none"]

(* the attempts the first UPDATE of recover_expired_leases closes *)
RecoveredAttempts(list) == CloseRunning(list, Runners, "timed_out")

(* recover_expired_leases, its two UPDATEs: neither looks at the status or   *)
(* the lease of the items again.                                             *)
RecoverWrite(r) ==
  /\ r \in Workers \cup Coordinators /\ runner[r].pc = "recovering"
  /\ item' = [i \in Items |-> IF i \in found[r] THEN Recovered(item[i]) ELSE item[i]]
  /\ attempts' = [i \in Items |->
       IF i \in found[r] THEN RecoveredAttempts(attempts[i]) ELSE attempts[i]]
  /\ Move({r}, "idle")
  /\ found' = [found EXCEPT ![r] = {}]
  /\ UNCHANGED <<request, crashes>>

RunsForApi(list) ==
  \E k \in DOMAIN list : list[k].status = "running" /\ list[k].worker \in ApiRunners

(* recover_interrupted_running_work, its SELECT, when the API process starts, *)
(* before it serves a request                                                *)
ApiRecoverRead ==
  /\ ApiRunners # {} /\ \A r \in ApiRunners : runner[r].pc = "starting"
  /\ found' = [r \in Runners |->
       IF r \in ApiRunners THEN {i \in Items : RunsForApi(attempts[i])} ELSE found[r]]
  /\ Move(ApiRunners, "recovering")
  /\ UNCHANGED <<item, attempts, request, crashes>>

(* its UPDATEs: the attempts by worker id, the items by id if still running  *)
ApiRecoverWrite ==
  /\ ApiRunners # {} /\ \A r \in ApiRunners : runner[r].pc = "recovering"
  /\ attempts' = [i \in Items |-> CloseRunning(attempts[i], ApiRunners, "failed")]
  /\ item' = [i \in Items |->
       IF /\ i \in InlineItems /\ item[i].status = "running"
          /\ \E r \in ApiRunners : i \in found[r]
       THEN [item[i] EXCEPT !.status = "failed", !.owner = None, !.lease = "none"]
       ELSE item[i]]
  /\ Move(ApiRunners, "idle")
  /\ found' = [r \in Runners |-> IF r \in ApiRunners THEN {} ELSE found[r]]
  /\ UNCHANGED <<request, crashes>>

----------------------------------------------------------------------------
(* Claims *)

FailedByStatus(i, table) == \E u \in Upstream[i] : table[u].status \in Failures
(* an upstream failed, or succeeded without a usable result *)
FailedDependency(i, table) ==
  \E u \in Upstream[i] : \/ table[u].status \in Failures
                         \/ table[u].status = "succeeded" /\ table[u].outcome # "null"

NotFailedDependency(i, table) == \A u \in Upstream[i] : table[u].status \notin Failures
DependenciesSatisfied(i, table) ==
  \A u \in Upstream[i] : table[u].status = "succeeded" /\ table[u].outcome = "null"

(* mark_dependency_blocked: every pending item, of any mode and task type *)
Blocked(table) ==
  [i \in Items |->
    IF table[i].status = "pending" /\ FailedDependency(i, table)
    THEN [table[i] EXCEPT !.status = "blocked", !.outcome = "dependency_failed"]
    ELSE table[i]]

(* claim_next, its WHERE clause.  Every item is created with the same        *)
(* priority and available at once, so the FIFO order is left open.           *)
Claimable(table) ==
  {i \in Items \ InlineItems :
    table[i].status = "pending" /\ DependenciesSatisfied(i, table)}

(* The engine's claim: block, claim, open the attempt, one commit. *)
ClaimOver(r, table) ==
  \E i \in Claimable(table) :
    /\ item' = [table EXCEPT ![i] = Leased(table[i], r)]
    /\ attempts' = [attempts EXCEPT ![i] = OpenAttempt(attempts[i], r)]
    /\ runner' = [runner EXCEPT ![r] = Holding(i, Len(attempts[i]) + 1)]

Claim(r) ==
  /\ r \in Workers /\ runner[r].pc = "idle"
  /\ ClaimOver(r, Blocked(item))
  /\ UNCHANGED <<found, request, crashes>>

(* A poll that finds nothing to claim still commits what it blocked. *)
PollBlocks(r) ==
  /\ r \in Workers /\ runner[r].pc = "idle"
  /\ Claimable(Blocked(item)) = {} /\ Blocked(item) # item
  /\ item' = Blocked(item)
  /\ UNCHANGED <<attempts, runner, found, request, crashes>>

StartInlineAnyStatus(i) == i \in InlineItems
Startable(i) == i \in InlineItems /\ item[i].status = "pending"

(* run_inline: start_inline looks at the status and the mode only *)
StartInline(r, i) ==
  /\ r \in Coordinators \cup ApiRunners /\ runner[r].pc = "idle"
  /\ Startable(i)
  /\ item' = [item EXCEPT ![i] = Leased(item[i], r)]
  /\ attempts' = [attempts EXCEPT ![i] = OpenAttempt(attempts[i], r)]
  /\ runner' = [runner EXCEPT ![r] = Holding(i, Len(attempts[i]) + 1)]
  /\ UNCHANGED <<found, request, crashes>>

----------------------------------------------------------------------------
(* Execution *)

(* _heartbeat_loop: renew while the item runs under this worker's id, else   *)
(* stop; the executor goes on either way.                                    *)
Heartbeat(r) ==
  /\ Executes(r) /\ runner[r].beat = "on"
  /\ LET i == runner[r].item
     IN IF item[i].status = "running" /\ item[i].owner = r
        THEN item' = [item EXCEPT ![i].lease = "live"] /\ UNCHANGED runner
        ELSE runner' = [runner EXCEPT ![r].beat = "off"] /\ UNCHANGED item
  /\ UNCHANGED <<attempts, found, request, crashes>>

(* The heartbeat's database error ends its task and is raised again when the *)
(* execution ends, in place of its result.                                   *)
HeartbeatFails(r) ==
  /\ Executes(r) /\ runner[r].beat = "on"
  /\ runner' = [runner EXCEPT ![r].beat = "error"]
  /\ UNCHANGED <<item, attempts, found, request, crashes>>

(* An executor that records its own result loads the row first; a task       *)
(* executor insists that it is running.                                      *)
LoadRow(r) ==
  /\ runner[r].pc = "claimed" /\ runner[r].item \in SelfRecording
  /\ LET row == item[runner[r].item]
     IN /\ runner[r].item \in TaskRecorders => row.status = "running"
        /\ runner' = [runner EXCEPT ![r].pc = "loaded", ![r].loaded = row]
  /\ UNCHANGED <<item, attempts, found, request, crashes>>

(* mark_task_running: the archive executor puts its own id into lease_owner, *)
(* under which the heartbeat no longer finds the item.  The row was loaded   *)
(* as running, so that the ORM writes no status.                             *)
Relabels(r) ==
  /\ runner[r].pc = "loaded" /\ runner[r].item \in TaskRecorders \cap InlineItems
  /\ runner[r].loaded.owner # Relabel
  /\ item' = [item EXCEPT ![runner[r].item].owner = Relabel]
  /\ runner' = [runner EXCEPT ![r].loaded.owner = Relabel]
  /\ UNCHANGED <<attempts, found, request, crashes>>

(* The row as the executor leaves it: mark_task_* also clears the lease, and *)
(* on success the outcome; mark_job_* writes the status alone.               *)
Recorded(i, seen, v) ==
  IF i \in TaskRecorders
  THEN Finished(v, IF v = "succeeded" THEN "null" ELSE seen.outcome)
  ELSE [seen EXCEPT !.status = v]

(* The executor records attempt and item in its own session and commits.  A  *)
(* timeout that the executor sees is timed_out on the item of a task only,   *)
(* and failed on the attempt.                                                *)
ExecutorRecords(r, v) ==
  /\ runner[r].pc = "loaded"
  /\ LET i == runner[r].item
         k == runner[r].attempt
     IN /\ v = "timed_out" => i \in TaskRecorders
        /\ i \in TaskRecorders \cap InlineItems => runner[r].loaded.owner = Relabel
        /\ item' = [item EXCEPT ![i] =
             OrmWrite(item[i], runner[r].loaded, Recorded(i, runner[r].loaded, v))]
        /\ attempts' = [attempts EXCEPT ![i] =
             CloseAttempt(attempts[i], k, IF v = "timed_out" THEN "failed" ELSE v)]
  /\ runner' = [runner EXCEPT ![r].pc = "recorded", ![r].verdict = v]
  /\ UNCHANGED <<found, request, crashes>>

(* Verdicts the engine can see: any, from an executor that leaves recording  *)
(* to the engine; a failure, from one that has not recorded; and from one    *)
(* that has, success only if it recorded success.                            *)
Returnable(r) ==
  CASE runner[r].pc = "claimed" ->
         IF runner[r].item \in SelfRecording THEN {"failed", "timed_out"} ELSE Verdicts
    [] runner[r].pc = "loaded" -> {"failed", "timed_out"}
    [] runner[r].pc = "recorded" ->
         {"failed", "timed_out"} \cup {runner[r].verdict}
    [] OTHER -> {}

(* The execution ends, by result, by exception or by the item's timeout. *)
ExecutorReturns(r, v) ==
  /\ Executes(r)
  /\ v \in IF runner[r].beat = "error" THEN {"failed"} ELSE Returnable(r)
  /\ runner' = [runner EXCEPT ![r].pc = "returned", ![r].verdict = v, ![r].beat = "off"]
  /\ UNCHANGED <<item, attempts, found, request, crashes>>

(* _require_status(model, {RUNNING}): no look at the owner or the attempt *)
Completable(i) == item[i].status = "running"

(* _mark_succeeded, _mark_failed: attempt first, then item, one commit.  A   *)
(* transcript may succeed with the outcome no_transcript.                    *)
MarkFinished(r, outcome) ==
  /\ runner[r].pc = "returned" /\ Completable(runner[r].item)
  /\ LET i == runner[r].item
         v == runner[r].verdict
     IN /\ IF v = "succeeded"
           THEN outcome = "null" \/ (outcome = "no_transcript" /\ i \notin SelfRecording)
           ELSE outcome = item[i].outcome
        /\ item' = [item EXCEPT ![i] = Finished(v, outcome)]
        /\ attempts' = [attempts EXCEPT ![i] =
             CloseAttempt(attempts[i], runner[r].attempt, v)]
  /\ Move({r}, "idle")
  /\ UNCHANGED <<found, request, crashes>>

(* The completion raises and is rolled back.  Nothing in a worker or in the  *)
(* coordinator catches it: the process ends, with its sibling slots.  An API *)
(* request answers 409.                                                      *)
CompletionRejected(r) ==
  /\ runner[r].pc = "returned" /\ ~ Completable(runner[r].item)
  /\ IF r \in ApiRunners
     THEN Move({r}, "idle") /\ UNCHANGED found
     ELSE /\ Move(Siblings(r), "down")
          /\ found' = [s \in Runners |-> IF s \in Siblings(r) THEN {} ELSE found[s]]
  /\ UNCHANGED <<item, attempts, request, crashes>>

----------------------------------------------------------------------------
(* Operator commands *)

Allowed(op) ==
  CASE op = "retry"  -> {"failed", "timed_out", "blocked"}
    [] op = "rerun"  -> {"failed", "timed_out", "blocked", "succeeded"}
    [] op = "cancel" -> {"pending", "running"}

CommandRead(c, op, i) ==
  /\ request[c].op = "none"
  /\ item[i].status \in Allowed(op)
  /\ op # "cancel" => Len(attempts[i]) < MaxAttempts
  /\ request' = [request EXCEPT ![c] = [op |-> op, item |-> i, loaded |-> item[i]]]
  /\ UNCHANGED <<item, attempts, runner, found, crashes>>

CommandWrite(c) ==
  /\ request[c].op # "none"
  /\ LET i == request[c].item
         seen == request[c].loaded
         new == IF request[c].op = "cancel"
                THEN Finished("canceled", "canceled") ELSE NewRow
     IN item' = [item EXCEPT ![i] = OrmWrite(item[i], seen, new)]
  /\ request' = [request EXCEPT ![c] = NoRequest]
  /\ UNCHANGED <<attempts, runner, found, crashes>>

(* cancel_pending_for_subject: one UPDATE over pending rows *)
CancelPending(i) ==
  /\ Operators # {} /\ item[i].status = "pending"
  /\ item' = [item EXCEPT ![i].status = "canceled", ![i].outcome = "canceled"]
  /\ UNCHANGED <<attempts, runner, found, request, crashes>>

----------------------------------------------------------------------------
Next ==
  \/ \E i \in Items : LeaseExpires(i) \/ CancelPending(i)
  \/ \E p \in Processes : Crash(p) \/ Restart(p)
  \/ \E r \in Runners :
       \/ RecoverRead(r) \/ RecoverWrite(r)
       \/ Claim(r) \/ PollBlocks(r)
       \/ \E i \in Items : StartInline(r, i)
       \/ Heartbeat(r) \/ HeartbeatFails(r) \/ LoadRow(r) \/ Relabels(r)
       \/ \E v \in Verdicts : ExecutorRecords(r, v) \/ ExecutorReturns(r, v)
       \/ \E o \in Outcomes : MarkFinished(r, o)
       \/ CompletionRejected(r)
  \/ ApiRecoverRead \/ ApiRecoverWrite
  \/ \E c \in Operators :
       \/ \E op \in {"retry", "rerun", "cancel"}, i \in Items : CommandRead(c, op, i)
       \/ CommandWrite(c)

Spec == Init /\ [][Next]_vars

(* The scheduled task restarts processes, a started runner recovers and then *)
(* polls, the item's timeout ends every execution, and the engine completes  *)
(* it.  Nothing makes a host suspend, crash or cancel.                       *)
Fairness ==
  /\ \A p \in Processes : WF_vars(Restart(p))
  /\ WF_vars(ApiRecoverRead) /\ WF_vars(ApiRecoverWrite)
  /\ \A r \in Runners :
       /\ WF_vars(RecoverRead(r)) /\ WF_vars(RecoverWrite(r))
       /\ WF_vars(Claim(r)) /\ WF_vars(PollBlocks(r))
       /\ WF_vars(\E v \in Verdicts : ExecutorReturns(r, v))
       /\ WF_vars(\E o \in Outcomes : MarkFinished(r, o))
       /\ WF_vars(CompletionRejected(r))

FairSpec == Spec /\ Fairness

----------------------------------------------------------------------------
(* Safety *)

RunnerState ==
  [pc: {"down", "starting", "recovering", "idle", "claimed", "loaded", "recorded", "returned"},
   item: Items \cup {None}, attempt: Nat, loaded: Row, verdict: Verdicts,
   beat: {"on", "off", "error"}]
Request ==
  [op: {"none", "retry", "rerun", "cancel"}, item: Items \cup {None}, loaded: Row]

(* The variables have the types of the columns they stand for. *)
TypeOK ==
  /\ item \in [Items -> Row]
  /\ attempts \in [Items -> Seq(Attempt)]
  /\ runner \in [Runners -> RunnerState]
  /\ found \in [Runners -> SUBSET Items]
  /\ request \in [Operators -> Request]
  /\ crashes \in Nat

(* "running: owned by a worker lease" - no interleaving of stale writers     *)
(* leaves a running row without an owner and an expiry, which is where lease *)
(* recovery (status = running AND lease_expires_at IS NOT NULL) would never  *)
(* find it again.                                                            *)
RunningHoldsLease ==
  \A i \in Items : item[i].status = "running" => item[i].owner # None /\ item[i].lease # "none"

Last(list) == list[Len(list)]

(* "Claim is atomic, creates an attempt, and grants a lease": a running item *)
(* runs under its newest attempt, that attempt is open, and the lease is its *)
(* worker's, or the archive executor's label.                                *)
RunningIsClaimed ==
  \A i \in Items : item[i].status = "running" =>
    /\ attempts[i] # << >>
    /\ Last(attempts[i]).status = "running"
    /\ \/ item[i].owner = Last(attempts[i]).worker
       \/ i \in TaskRecorders \cap InlineItems /\ item[i].owner = Relabel

(* An item is succeeded only on the word of an attempt that is recorded as   *)
(* succeeded, although late workers, recoveries and the API's restart write  *)
(* the two tables independently.                                             *)
SucceededHasAttempt ==
  \A i \in Items : item[i].status = "succeeded" =>
    \E k \in DOMAIN attempts[i] : attempts[i][k].status = "succeeded"

(* Where the engine alone records, a succeeded attempt stays succeeded: no   *)
(* recovery and no late or second completion rewrites it.                    *)
SucceededAttemptIsFinal ==
  [][\A i \in Items \ SelfRecording : \A k \in DOMAIN attempts[i] :
       attempts[i][k].status = "succeeded" => attempts'[i][k].status = "succeeded"]_vars

(* Worker stages start in order: once an item has an attempt, every item it  *)
(* depends on has a succeeded attempt, however often any of them was retried *)
(* or cancelled since (for upstream items that the engine alone records).    *)
StartedAfterUpstream ==
  \A i \in Items \ InlineItems : attempts[i] # << >> =>
    \A u \in Upstream[i] \ SelfRecording :
      \E k \in DOMAIN attempts[u] : attempts[u][k].status = "succeeded"

(* The claims recorded in the two tables implement the abstract claim board: *)
(* the holder of a running item is the worker of its newest attempt.         *)
Board == INSTANCE ClaimBoard WITH
  Items <- Items, Holders <- Runners, Nobody <- None,
  holder <- [i \in Items |->
    IF item[i].status = "running" THEN Last(attempts[i]).worker ELSE None],
  grants <- [i \in Items |-> Len(attempts[i])]
ClaimsAreExclusive == Board!Spec

----------------------------------------------------------------------------
(* What an inductive proof of the above rests on *)

(* A claim in hand names an attempt that its runner opened, and nobody else  *)
(* records that attempt as succeeded.                                        *)
OwnsAttempt(r) ==
  LET i == runner[r].item
      k == runner[r].attempt
  IN /\ i \in Items /\ k \in 1..Len(attempts[i])
     /\ attempts[i][k].worker = r
     /\ runner[r].pc \in {"claimed", "loaded"} => attempts[i][k].status # "succeeded"
     /\ i \notin SelfRecording => attempts[i][k].status # "succeeded"
     /\ runner[r].pc \in {"loaded", "recorded"} => i \in SelfRecording
HoldersOwnAttempts == \A r \in Runners : Holds(r) => OwnsAttempt(r)

(* The row a task executor loaded was running; any row was that is running   *)
(* under the attempt of the executor that loaded it.                         *)
LoadedRunning ==
  \A r \in Runners : runner[r].pc = "loaded" =>
    LET i == runner[r].item
    IN \/ runner[r].loaded.status = "running"
       \/ i \notin TaskRecorders /\ item[i].status # "running"
       \/ i \notin TaskRecorders /\ runner[r].attempt # Len(attempts[i])

(* A request that has read still has to write a status the row did not have. *)
RequestsPending ==
  \A c \in Operators : request[c].op # "none" =>
    request[c].item \in Items /\ request[c].loaded.status \in Allowed(request[c].op)

(* API requests run inline items, and none before the API has recovered what *)
(* the last API process left open.                                           *)
ApiRecoversFirst ==
  /\ \A a, b \in ApiRunners : runner[a].pc \in {"down", "starting", "recovering"}
                              => runner[b].pc = runner[a].pc
  /\ \A i \in Items : \A k \in DOMAIN attempts[i] :
       attempts[i][k].worker \in ApiRunners => i \in InlineItems
  /\ \A a \in ApiRunners : runner[a].pc = "recovering" =>
       \A i \in Items : item[i].status = "running" /\ Last(attempts[i]).worker \in ApiRunners
                        => i \in found[a]

(* The inductive invariant: the safety invariants and what they rest on.     *)
WorkInv ==
  /\ TypeOK /\ HoldersOwnAttempts /\ LoadedRunning /\ RequestsPending /\ ApiRecoversFirst
  /\ RunningHoldsLease /\ RunningIsClaimed /\ SucceededHasAttempt /\ StartedAfterUpstream

----------------------------------------------------------------------------
(* Liveness *)

(* A pending worker item whose upstream items have all ended is claimed,     *)
(* blocked or cancelled, or an upstream item is started again.               *)
PendingIsServed ==
  \A i \in Items \ InlineItems :
    (item[i].status = "pending" /\ \A u \in Upstream[i] : item[u].status \in Terminal)
    ~> ~ (item[i].status = "pending" /\ \A u \in Upstream[i] : item[u].status \in Terminal)

(* An expired claim is closed, if it expires while some runner that recovers *)
(* leases is still down.                                                     *)
ExpiredBeforeRestartIsRecovered ==
  \A i \in Items :
    (i \in ExpiredItems /\ \E r \in Workers \cup Coordinators : runner[r].pc = "down")
    ~> i \notin ExpiredItems

=============================================================================
