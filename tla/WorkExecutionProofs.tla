------------------------- MODULE WorkExecutionProofs -------------------------
(***************************************************************************)
(* Proofs about WorkExecution for any items, runners and operators.        *)
(***************************************************************************)
EXTENDS WorkExecution, TLAPS

----------------------------------------------------------------------------
(* Attempt lists *)

(* Opening an attempt appends it and leaves the others alone. *)
LEMMA OpenAttemptFacts ==
  ASSUME NEW list \in Seq(Attempt), NEW r \in Runners
  PROVE  /\ OpenAttempt(list, r) \in Seq(Attempt)
         /\ Len(OpenAttempt(list, r)) = Len(list) + 1
         /\ \A k \in 1..Len(list) : OpenAttempt(list, r)[k] = list[k]
         /\ OpenAttempt(list, r)[Len(list) + 1] = [worker |-> r, status |-> "running"]
  BY DEF OpenAttempt, Attempt, Verdicts

(* Closing one attempt sets its status and nothing else. *)
LEMMA CloseAttemptFacts ==
  ASSUME NEW list \in Seq(Attempt), NEW k, NEW status \in Verdicts
  PROVE  LET closed == CloseAttempt(list, k, status)
         IN /\ closed \in Seq(Attempt)
            /\ Len(closed) = Len(list)
            /\ \A j \in 1..Len(list) :
                 /\ closed[j].worker = list[j].worker
                 /\ closed[j].status = IF j = k THEN status ELSE list[j].status
  <1>1. CASE k \in 1..Len(list)
    <2>1. \A j \in 1..Len(list) : list[j] \in Attempt
      OBVIOUS
    <2>2. [list[k] EXCEPT !.status = status] \in Attempt
      BY <1>1, <2>1 DEF Attempt
    <2> QED
      BY <1>1, <2>1, <2>2 DEF CloseAttempt, Attempt
  <1>2. CASE k \notin 1..Len(list)
    <2>1. CloseAttempt(list, k, status) = list
      BY <1>2 DEF CloseAttempt
    <2> QED
      BY <1>2, <2>1
  <1> QED
    BY <1>1, <1>2

(* Closing the open attempts of some workers changes only those. *)
LEMMA CloseRunningFacts ==
  ASSUME NEW list \in Seq(Attempt), NEW W, NEW status \in Verdicts
  PROVE  LET closed == CloseRunning(list, W, status)
         IN /\ closed \in Seq(Attempt)
            /\ Len(closed) = Len(list)
            /\ \A j \in 1..Len(list) :
                 /\ closed[j].worker = list[j].worker
                 /\ closed[j].status =
                      IF list[j].status = "running" /\ list[j].worker \in W
                      THEN status ELSE list[j].status
  <1> DEFINE closed == CloseRunning(list, W, status)
  <1>1. DOMAIN list = 1..Len(list) /\ Len(list) \in Nat /\ \A j \in 1..Len(list) : list[j] \in Attempt
    OBVIOUS
  <1>2. \A j \in 1..Len(list) :
          /\ closed[j] \in Attempt
          /\ closed[j].worker = list[j].worker
          /\ closed[j].status = IF list[j].status = "running" /\ list[j].worker \in W
                                THEN status ELSE list[j].status
    BY <1>1 DEF CloseRunning, Attempt
  <1>3. closed \in [1..Len(list) -> Attempt]
    BY <1>1, <1>2 DEF CloseRunning
  <1>4. closed \in Seq(Attempt) /\ Len(closed) = Len(list)
    BY <1>1, <1>3
  <1> QED
    BY <1>2, <1>4

----------------------------------------------------------------------------
(* Rows and runners *)

(* Every row a step computes is a row. *)
LEMMA RowFacts ==
  /\ NewRow \in Row
  /\ \A row \in Row, r \in Runners : Leased(row, r) \in Row
  /\ \A s \in Status, o \in Outcomes : Finished(s, o) \in Row
  /\ \A row \in Row : Recovered(row) \in Row
  /\ \A row, seen, new \in Row : OrmWrite(row, seen, new) \in Row
  /\ \A i \in Items, seen \in Row, v \in Verdicts : Recorded(i, seen, v) \in Row
  <1>1. /\ {"pending", "running", "timed_out"} \subseteq Status /\ Verdicts \subseteq Status
        /\ "null" \in Outcomes
    BY DEF Status, Terminal, Failures, Outcomes, Verdicts
  <1>2. NewRow \in Row
    BY <1>1 DEF NewRow, Row
  <1>3. \A row \in Row, r \in Runners : Leased(row, r) \in Row
    BY <1>1 DEF Leased, Row
  <1>4. \A s \in Status, o \in Outcomes : Finished(s, o) \in Row
    BY DEF Finished, Row
  <1>5. \A row \in Row : Recovered(row) \in Row
    BY <1>1 DEF Recovered, Row
  <1>6. \A row, seen, new \in Row : OrmWrite(row, seen, new) \in Row
    BY DEF OrmWrite, Row
  <1>7. ASSUME NEW i \in Items, NEW seen \in Row, NEW v \in Verdicts
        PROVE  Recorded(i, seen, v) \in Row
    <2>1. v \in Status /\ seen.outcome \in Outcomes
      BY <1>1 DEF Row
    <2>2. CASE i \in TaskRecorders
      <3>1. (IF v = "succeeded" THEN "null" ELSE seen.outcome) \in Outcomes
        BY <1>1, <2>1
      <3> QED BY <1>4, <2>1, <2>2, <3>1 DEF Recorded
    <2>3. CASE i \notin TaskRecorders
      BY <2>1, <2>3 DEF Recorded, Row
    <2> QED BY <2>2, <2>3
  <1> QED BY <1>2, <1>3, <1>4, <1>5, <1>6, <1>7

(* So is a row with some columns set, and a runner with some fields set. *)
LEMMA ColumnFacts ==
  ASSUME NEW row \in Row
  PROVE  /\ [row EXCEPT !.lease = "expired"] \in Row
         /\ [row EXCEPT !.lease = "live"] \in Row
         /\ [row EXCEPT !.owner = Relabel] \in Row
         /\ [row EXCEPT !.status = "canceled", !.outcome = "canceled"] \in Row
         /\ [row EXCEPT !.status = "failed", !.owner = None, !.lease = "none"] \in Row
  BY DEF Row, Status, Terminal, Failures, Outcomes

(* The states of a runner that the actions build have their types. *)
LEMMA RunnerFacts ==
  ASSUME NEW s \in RunnerState
  PROVE  /\ \A b \in {"on", "off", "error"} : [s EXCEPT !.beat = b] \in RunnerState
         /\ \A row \in Row : [s EXCEPT !.pc = "loaded", !.loaded = row] \in RunnerState
         /\ \A v \in Verdicts :
              /\ [s EXCEPT !.pc = "recorded", !.verdict = v] \in RunnerState
              /\ [s EXCEPT !.pc = "returned", !.verdict = v, !.beat = "off"] \in RunnerState
  BY DEF RunnerState

(* A runner that lets go of its claim has the type of a runner. *)
LEMMA MoveFacts ==
  ASSUME NEW R, NEW where \in {"down", "starting", "recovering", "idle"},
         runner \in [Runners -> RunnerState], Move(R, where)
  PROVE  /\ runner' \in [Runners -> RunnerState]
         /\ \A r \in Runners : r \notin R => runner'[r] = runner[r]
         /\ \A r \in R \cap Runners : runner'[r].pc = where
  <1>1. At(where) \in RunnerState
    BY RowFacts DEF At, RunnerState, Verdicts
  <1>2. At(where).pc = where
    BY DEF At
  <1> QED
    BY <1>1, <1>2 DEF Move

(* A new claim has the type of a runner. *)
LEMMA HoldingFacts ==
  ASSUME NEW i \in Items, NEW k \in Nat
  PROVE  /\ Holding(i, k) \in RunnerState
         /\ Holding(i, k).pc = "claimed" /\ Holding(i, k).item = i
         /\ Holding(i, k).attempt = k
  BY RowFacts DEF Holding, At, RunnerState, Verdicts

(* Blocking changes pending rows into blocked ones. *)
LEMMA BlockedFacts ==
  ASSUME NEW table \in [Items -> Row]
  PROVE  /\ Blocked(table) \in [Items -> Row]
         /\ \A i \in Items : Blocked(table)[i] # table[i] =>
              table[i].status = "pending" /\ Blocked(table)[i].status = "blocked"
  BY DEF Blocked, Row, Status, Terminal, Failures, Outcomes

----------------------------------------------------------------------------
(* Types *)

(* The initial state has the types of the columns. *)
LEMMA TypeInit == Init => TypeOK
  <1> SUFFICES ASSUME Init PROVE TypeOK
    OBVIOUS
  <1>1. runner \in [Runners -> RunnerState]
    BY RowFacts DEF Init, At, RunnerState, Verdicts
  <1>2. item \in [Items -> Row] /\ request \in [Operators -> Request]
    BY RowFacts DEF Init, Request, NoRequest
  <1> QED
    BY <1>1, <1>2 DEF Init, TypeOK

(* Every step keeps the types of the columns. *)
LEMMA TypeStep == WorkInv /\ [Next]_vars => TypeOK'
  <1> SUFFICES ASSUME WorkInv, [Next]_vars PROVE TypeOK'
    OBVIOUS
  <1>0. TypeOK
    BY DEF WorkInv
  <1>a. CASE UNCHANGED vars
    BY <1>0, <1>a DEF TypeOK, vars
  <1>1. ASSUME NEW i \in Items, LeaseExpires(i) \/ CancelPending(i) PROVE TypeOK'
    <2>1. PICK row \in Row : item' = [item EXCEPT ![i] = row]
      BY <1>0, <1>1, ColumnFacts DEF TypeOK, LeaseExpires, CancelPending
    <2> QED
      BY <1>0, <1>1, <2>1 DEF TypeOK, LeaseExpires, CancelPending
  <1>2. ASSUME NEW p \in Processes, Crash(p) \/ Restart(p) PROVE TypeOK'
    <2>1. runner' \in [Runners -> RunnerState]
      BY <1>0, <1>2, MoveFacts DEF TypeOK, Crash, Restart
    <2> QED
      BY <1>0, <1>2, <2>1 DEF TypeOK, Crash, Restart
  <1>3. ASSUME NEW r \in Runners, RecoverRead(r) PROVE TypeOK'
    <2>1. runner' \in [Runners -> RunnerState]
      BY <1>0, <1>3, MoveFacts DEF TypeOK, RecoverRead
    <2> QED
      BY <1>0, <1>3, <2>1 DEF TypeOK, RecoverRead, ExpiredItems
  <1>4. ASSUME NEW r \in Runners, RecoverWrite(r) PROVE TypeOK'
    <2>1. runner' \in [Runners -> RunnerState]
      BY <1>0, <1>4, MoveFacts DEF TypeOK, RecoverWrite
    <2>2. item' \in [Items -> Row]
      BY <1>0, <1>4, RowFacts DEF TypeOK, RecoverWrite
    <2>3. attempts' \in [Items -> Seq(Attempt)]
      BY <1>0, <1>4, CloseRunningFacts DEF TypeOK, RecoverWrite, RecoveredAttempts, Verdicts
    <2> QED
      BY <1>0, <1>4, <2>1, <2>2, <2>3 DEF TypeOK, RecoverWrite
  <1>5. ASSUME ApiRecoverRead PROVE TypeOK'
    <2>1. runner' \in [Runners -> RunnerState]
      BY <1>0, <1>5, MoveFacts DEF TypeOK, ApiRecoverRead
    <2> QED
      BY <1>0, <1>5, <2>1 DEF TypeOK, ApiRecoverRead
  <1>6. ASSUME ApiRecoverWrite PROVE TypeOK'
    <2>1. runner' \in [Runners -> RunnerState]
      BY <1>0, <1>6, MoveFacts DEF TypeOK, ApiRecoverWrite
    <2>2. item' \in [Items -> Row]
      BY <1>0, <1>6, ColumnFacts DEF TypeOK, ApiRecoverWrite
    <2>3. attempts' \in [Items -> Seq(Attempt)]
      <3>1. "failed" \in Verdicts
        BY DEF Verdicts
      <3> QED
        BY <1>0, <1>6, <3>1, CloseRunningFacts DEF TypeOK, ApiRecoverWrite
    <2> QED
      BY <1>0, <1>6, <2>1, <2>2, <2>3 DEF TypeOK, ApiRecoverWrite
  <1>7. ASSUME NEW r \in Runners, Claim(r) PROVE TypeOK'
    <2>1. PICK i \in Claimable(Blocked(item)) :
            /\ item' = [Blocked(item) EXCEPT ![i] = Leased(Blocked(item)[i], r)]
            /\ attempts' = [attempts EXCEPT ![i] = OpenAttempt(attempts[i], r)]
            /\ runner' = [runner EXCEPT ![r] = Holding(i, Len(attempts[i]) + 1)]
      BY <1>7 DEF Claim, ClaimOver
    <2>2. i \in Items
      BY DEF Claimable
    <2>3. Blocked(item) \in [Items -> Row]
      BY <1>0, BlockedFacts DEF TypeOK
    <2>4. item' \in [Items -> Row]
      BY <2>1, <2>2, <2>3, RowFacts
    <2>5. attempts[i] \in Seq(Attempt) /\ Len(attempts[i]) + 1 \in Nat
      BY <1>0, <2>2 DEF TypeOK
    <2>6. attempts' \in [Items -> Seq(Attempt)]
      BY <1>0, <2>1, <2>2, <2>5, OpenAttemptFacts DEF TypeOK
    <2>7. runner' \in [Runners -> RunnerState]
      BY <1>0, <2>1, <2>2, <2>5, HoldingFacts DEF TypeOK
    <2> QED
      BY <1>0, <1>7, <2>4, <2>6, <2>7 DEF TypeOK, Claim
  <1>8. ASSUME NEW r \in Runners, PollBlocks(r) PROVE TypeOK'
    BY <1>0, <1>8, BlockedFacts DEF TypeOK, PollBlocks
  <1>9. ASSUME NEW r \in Runners, NEW i \in Items, StartInline(r, i) PROVE TypeOK'
    <2>1. item' \in [Items -> Row]
      BY <1>0, <1>9, RowFacts DEF TypeOK, StartInline
    <2>2. attempts[i] \in Seq(Attempt) /\ Len(attempts[i]) + 1 \in Nat
      BY <1>0 DEF TypeOK
    <2>3. attempts' \in [Items -> Seq(Attempt)]
      BY <1>0, <1>9, <2>2, OpenAttemptFacts DEF TypeOK, StartInline
    <2>4. runner' \in [Runners -> RunnerState]
      BY <1>0, <1>9, <2>2, HoldingFacts DEF TypeOK, StartInline
    <2> QED
      BY <1>0, <1>9, <2>1, <2>3, <2>4 DEF TypeOK, StartInline
  <1>10. ASSUME NEW r \in Runners, Heartbeat(r) \/ HeartbeatFails(r) PROVE TypeOK'
    <2>1. runner[r] \in RunnerState /\ runner[r].item \in Items
      BY <1>0, <1>10
      DEF WorkInv, HoldersOwnAttempts, OwnsAttempt, Heartbeat, HeartbeatFails, Executes, Holds, TypeOK
    <2>2. runner' = runner \/ \E b \in {"off", "error"} :
            runner' = [runner EXCEPT ![r] = [runner[r] EXCEPT !.beat = b]]
      BY <1>0, <1>10 DEF Heartbeat, HeartbeatFails, TypeOK
    <2>3. item' = item \/ \E row \in Row : item' = [item EXCEPT ![runner[r].item] = row]
      BY <1>0, <1>10, <2>1, ColumnFacts DEF Heartbeat, HeartbeatFails, TypeOK
    <2>4. runner' \in [Runners -> RunnerState]
      BY <1>0, <2>1, <2>2, RunnerFacts DEF TypeOK
    <2> QED
      BY <1>0, <1>10, <2>3, <2>4 DEF TypeOK, Heartbeat, HeartbeatFails
  <1>11. ASSUME NEW r \in Runners, LoadRow(r) \/ Relabels(r) PROVE TypeOK'
    <2>1. runner[r].item \in Items
      BY <1>11 DEF WorkInv, HoldersOwnAttempts, OwnsAttempt, LoadRow, Relabels, Holds
    <2>2. item[runner[r].item] \in Row /\ runner[r].loaded \in Row /\ runner[r] \in RunnerState
      BY <1>0, <2>1 DEF TypeOK, RunnerState
    <2>3. CASE LoadRow(r)
      <3>1. runner' = [runner EXCEPT ![r] =
              [runner[r] EXCEPT !.pc = "loaded", !.loaded = item[runner[r].item]]]
        BY <1>0, <2>3 DEF LoadRow, TypeOK
      <3>2. runner' \in [Runners -> RunnerState]
        BY <1>0, <2>2, <3>1, RunnerFacts DEF TypeOK
      <3> QED
        BY <1>0, <2>3, <3>2 DEF TypeOK, LoadRow
    <2>4. CASE Relabels(r)
      <3> DEFINE row == [item[runner[r].item] EXCEPT !.owner = Relabel]
                 seen == [runner[r].loaded EXCEPT !.owner = Relabel]
      <3>1. row \in Row /\ seen \in Row
        BY <2>2 DEF Row
      <3>2. /\ item' = [item EXCEPT ![runner[r].item] = row]
            /\ runner' = [runner EXCEPT ![r] = [runner[r] EXCEPT !.loaded = seen]]
        BY <1>0, <2>1, <2>2, <2>4 DEF Relabels, TypeOK
      <3> HIDE DEF row, seen
      <3>3. [runner[r] EXCEPT !.loaded = seen] \in RunnerState
        BY <2>2, <3>1 DEF RunnerState
      <3>4. item' \in [Items -> Row] /\ runner' \in [Runners -> RunnerState]
        BY <1>0, <2>1, <3>1, <3>2, <3>3 DEF TypeOK
      <3> QED
        BY <1>0, <2>4, <3>4 DEF TypeOK, Relabels
    <2> QED
      BY <1>11, <2>3, <2>4
  <1>12. ASSUME NEW r \in Runners, NEW v \in Verdicts, ExecutorRecords(r, v) PROVE TypeOK'
    <2>1. runner[r].item \in Items /\ runner[r].loaded \in Row /\ runner[r].attempt \in Nat
      BY <1>0, <1>12 DEF WorkInv, HoldersOwnAttempts, OwnsAttempt, ExecutorRecords, Holds, TypeOK, RunnerState
    <2>2. item' \in [Items -> Row]
      BY <1>0, <1>12, <2>1, RowFacts DEF TypeOK, ExecutorRecords
    <2>3. (IF v = "timed_out" THEN "failed" ELSE v) \in Verdicts
      BY DEF Verdicts
    <2>4. attempts' \in [Items -> Seq(Attempt)]
      BY <1>0, <1>12, <2>1, <2>3, CloseAttemptFacts DEF TypeOK, ExecutorRecords
    <2>5. runner' \in [Runners -> RunnerState]
      BY <1>0, <1>12, RunnerFacts DEF TypeOK, ExecutorRecords
    <2> QED
      BY <1>0, <1>12, <2>2, <2>4, <2>5 DEF TypeOK, ExecutorRecords
  <1>13. ASSUME NEW r \in Runners, NEW v \in Verdicts, ExecutorReturns(r, v) PROVE TypeOK'
    BY <1>0, <1>13, RunnerFacts DEF TypeOK, ExecutorReturns
  <1>14. ASSUME NEW r \in Runners, NEW o \in Outcomes, MarkFinished(r, o) PROVE TypeOK'
    <2>1. /\ runner[r].item \in Items /\ runner[r].attempt \in Nat
          /\ runner[r].verdict \in Verdicts /\ runner[r].verdict \in Status
      BY <1>0, <1>14
      DEF WorkInv, HoldersOwnAttempts, OwnsAttempt, MarkFinished, Holds, TypeOK, RunnerState, Verdicts,
          Status, Terminal, Failures
    <2>2. item' \in [Items -> Row]
      BY <1>0, <1>14, <2>1, RowFacts DEF TypeOK, MarkFinished
    <2>3. attempts' \in [Items -> Seq(Attempt)]
      BY <1>0, <1>14, <2>1, CloseAttemptFacts DEF TypeOK, MarkFinished
    <2>4. runner' \in [Runners -> RunnerState]
      BY <1>0, <1>14, MoveFacts DEF TypeOK, MarkFinished
    <2> QED
      BY <1>0, <1>14, <2>2, <2>3, <2>4 DEF TypeOK, MarkFinished
  <1>15. ASSUME NEW r \in Runners, CompletionRejected(r) PROVE TypeOK'
    <2>1. runner' \in [Runners -> RunnerState]
      BY <1>0, <1>15, MoveFacts DEF TypeOK, CompletionRejected
    <2> QED
      BY <1>0, <1>15, <2>1 DEF TypeOK, CompletionRejected
  <1>16. ASSUME NEW c \in Operators, NEW op \in {"retry", "rerun", "cancel"}, NEW i \in Items,
                CommandRead(c, op, i)
         PROVE TypeOK'
    BY <1>0, <1>16 DEF TypeOK, CommandRead, Request
  <1>17. ASSUME NEW c \in Operators, CommandWrite(c) PROVE TypeOK'
    <2>1. request[c].item \in Items /\ request[c].loaded \in Row
      BY <1>0, <1>17 DEF WorkInv, RequestsPending, CommandWrite, TypeOK, Request
    <2>2. Finished("canceled", "canceled") \in Row /\ NewRow \in Row
      BY RowFacts DEF Status, Terminal, Failures, Outcomes
    <2>3. item' \in [Items -> Row]
      BY <1>0, <1>17, <2>1, <2>2, RowFacts DEF TypeOK, CommandWrite
    <2> QED
      BY <1>0, <1>17, <2>3, RowFacts DEF TypeOK, CommandWrite, Request, NoRequest
  <1> QED
    BY <1>a, <1>1, <1>2, <1>3, <1>4, <1>5, <1>6, <1>7, <1>8, <1>9, <1>10, <1>11, <1>12,
       <1>13, <1>14, <1>15, <1>16, <1>17 DEF Next

----------------------------------------------------------------------------
(* What a step does to claims *)

(* A claim: a pending row is leased under a new attempt; other rows stay, or *)
(* are blocked.  Workers claim after the dependencies, the API only inline   *)
(* items.                                                                    *)
Claims(r, i) ==
  /\ i \in Items /\ runner[r].pc = "idle"
  /\ item[i].status = "pending"
  /\ r \in ApiRunners => i \in InlineItems
  /\ i \notin InlineItems => DependenciesSatisfied(i, item)
  /\ item'[i].status = "running" /\ item'[i].owner = r /\ item'[i].lease = "live"
  /\ \A j \in Items \ {i} :
       \/ item'[j] = item[j]
       \/ item[j].status = "pending" /\ item'[j].status = "blocked"
  /\ attempts' = [attempts EXCEPT ![i] = OpenAttempt(attempts[i], r)]
  /\ runner' = [runner EXCEPT ![r] = Holding(i, Len(attempts[i]) + 1)]
  /\ UNCHANGED <<found, request, crashes>>

(* A worker's claim is a claim: it opens the newest attempt of an item that did not run. *)
LEMMA ClaimFacts ==
  ASSUME TypeOK, NEW r \in Runners, Claim(r)
  PROVE  \E i \in Items : Claims(r, i)
  <1>1. PICK i \in Claimable(Blocked(item)) :
          /\ item' = [Blocked(item) EXCEPT ![i] = Leased(Blocked(item)[i], r)]
          /\ attempts' = [attempts EXCEPT ![i] = OpenAttempt(attempts[i], r)]
          /\ runner' = [runner EXCEPT ![r] = Holding(i, Len(attempts[i]) + 1)]
    BY DEF Claim, ClaimOver
  <1>2. /\ Blocked(item) \in [Items -> Row]
        /\ \A j \in Items : Blocked(item)[j] # item[j] =>
             item[j].status = "pending" /\ Blocked(item)[j].status = "blocked"
    BY BlockedFacts DEF TypeOK
  <1>3. i \in Items \ InlineItems /\ Blocked(item)[i].status = "pending"
    BY DEF Claimable
  <1>4. DependenciesSatisfied(i, item)
    <2>1. \A u \in Upstream[i] : u \in Items
      BY <1>3, UpstreamAssumption
    <2>2. \A u \in Upstream[i] : Blocked(item)[u].status = "succeeded"
                                 /\ Blocked(item)[u].outcome = "null"
      BY DEF Claimable, DependenciesSatisfied
    <2> QED
      BY <1>2, <2>1, <2>2 DEF DependenciesSatisfied
  <1>5. item'[i] = Leased(Blocked(item)[i], r) /\ Blocked(item)[i] \in Row
    BY <1>1, <1>2, <1>3
  <1>6. item'[i].status = "running" /\ item'[i].owner = r /\ item'[i].lease = "live"
    BY <1>5 DEF Leased, Row
  <1>7. \A j \in Items \ {i} :
          \/ item'[j] = item[j]
          \/ item[j].status = "pending" /\ item'[j].status = "blocked"
    BY <1>1, <1>2
  <1>8. item[i].status = "pending"
    BY <1>2, <1>3
  <1>9. r \notin ApiRunners
    BY PartitionAssumption DEF Claim
  <1> QED
    BY <1>1, <1>3, <1>4, <1>6, <1>7, <1>8, <1>9 DEF Claims, Claim

(* So is the start of an inline item by the coordinator or by an API request. *)
LEMMA StartInlineFacts ==
  ASSUME TypeOK, NEW r \in Runners, NEW i \in Items, StartInline(r, i)
  PROVE  Claims(r, i)
  <1>1. item[i] \in Row
    BY DEF TypeOK
  <1>2. item'[i].status = "running" /\ item'[i].owner = r /\ item'[i].lease = "live"
    BY <1>1 DEF StartInline, Leased, TypeOK, Row
  <1> QED
    BY <1>2 DEF StartInline, Startable, Claims, TypeOK

(* A stale write of the ORM puts an item into the status it means, unless    *)
(* that is the status it has seen.                                           *)
LEMMA OrmWriteFacts ==
  ASSUME NEW row \in Row, NEW seen \in Row, NEW new \in Row
  PROVE  LET written == OrmWrite(row, seen, new)
         IN /\ new.status # seen.status => written.status = new.status
            /\ new.status = seen.status => written.status = row.status
            /\ new.owner = seen.owner /\ new.lease = seen.lease
               => written.owner = row.owner /\ written.lease = row.lease
  BY DEF OrmWrite

(* An operator's write leaves its item pending or canceled, however stale.   *)
LEMMA CommandFacts ==
  ASSUME TypeOK, RequestsPending, NEW c \in Operators, CommandWrite(c), NEW j \in Items
  PROVE  item'[j] = item[j] \/ item'[j].status \in {"pending", "canceled"}
  <1> DEFINE seen == request[c].loaded
             new == IF request[c].op = "cancel" THEN Finished("canceled", "canceled") ELSE NewRow
  <1>1. /\ request[c].op \in {"retry", "rerun", "cancel"} /\ seen \in Row
        /\ seen.status \in Allowed(request[c].op)
    BY DEF TypeOK, Request, RequestsPending, CommandWrite
  <1>2. new \in Row /\ new.status \in {"pending", "canceled"} /\ new.status # seen.status
    BY <1>1, RowFacts DEF Finished, NewRow, Allowed, Status, Terminal, Failures, Outcomes
  <1>3. item'[j] = item[j] \/ item'[j] = OrmWrite(item[j], seen, new)
    BY DEF CommandWrite, TypeOK
  <1>4. item[j] \in Row
    BY DEF TypeOK
  <1> QED
    BY <1>1, <1>2, <1>3, <1>4, OrmWriteFacts

----------------------------------------------------------------------------
(* The four kinds of steps *)

(* Attempts stay, and no item starts to run or succeeds. *)
NoNewStatus ==
  \A i \in Items : item'[i].status \in {"running", "succeeded"} => item'[i].status = item[i].status
Quiet == attempts' = attempts /\ NoNewStatus

(* Open attempts of the workers W are closed, and no item goes on running    *)
(* whose newest attempt was one of them.                                     *)
ClosesRunningOf(W, status) ==
  /\ status \in {"failed", "timed_out"} /\ NoNewStatus
  /\ \A i \in Items :
       \/ attempts'[i] = attempts[i]
       \/ /\ attempts'[i] = CloseRunning(attempts[i], W, status)
          /\ item'[i].status = "running" => Last(attempts[i]).worker \notin W
Recovers == \E W : \E status \in {"failed", "timed_out"} : ClosesRunningOf(W, status)

(* A holder closes its attempt, in the executor or in the engine.            *)
Closes(r, status) ==
  LET i == runner[r].item
      k == runner[r].attempt
  IN /\ Holds(r)
     /\ attempts' = [attempts EXCEPT ![i] = CloseAttempt(attempts[i], k, status)]
     /\ \A j \in Items \ {i} : item'[j] = item[j]
     /\ item'[i].status \in {"running", "succeeded"} =>
          item'[i].status = item[i].status \/ item'[i].status = status
     /\ \/ /\ runner[r].pc = "loaded" /\ runner'[r].pc = "recorded"
           /\ runner[r].loaded.status = "running" => item'[i].status # "running"
        \/ /\ runner[r].pc = "returned" /\ runner'[r].pc = "idle"
           /\ item'[i].status = status

StepKind ==
  \/ Quiet \/ Recovers
  \/ \E r \in Runners, i \in Items : Claims(r, i)
  \/ \E r \in Runners, status \in Verdicts : Closes(r, status)

(* Lease recovery closes the attempts of the items it times out, and of no others. *)
LEMMA RecoverWriteKind ==
  ASSUME WorkInv, NEW r \in Runners, RecoverWrite(r)
  PROVE  Recovers
  <1>1. \A i \in Items : i \notin found[r] => item'[i] = item[i] /\ attempts'[i] = attempts[i]
    BY DEF RecoverWrite
  <1>2. \A i \in Items : i \in found[r] =>
          /\ item'[i].status = "timed_out"
          /\ attempts'[i] = CloseRunning(attempts[i], Runners, "timed_out")
    BY DEF RecoverWrite, Recovered, RecoveredAttempts, WorkInv, TypeOK, Row
  <1>3. ClosesRunningOf(Runners, "timed_out")
    BY <1>1, <1>2 DEF ClosesRunningOf, NoNewStatus
  <1> QED
    BY <1>3 DEF Recovers

(* Recovery at the start of the API closes API attempts, and no running item keeps one. *)
LEMMA ApiRecoverWriteKind ==
  ASSUME WorkInv, ApiRecoverWrite
  PROVE  Recovers
  <1>1. PICK a \in ApiRunners : a \in Runners /\ runner[a].pc = "recovering"
    BY DEF ApiRecoverWrite, Runners
  <1>2. \A i \in Items : attempts'[i] = CloseRunning(attempts[i], ApiRunners, "failed")
    BY DEF ApiRecoverWrite
  <1>3. \A i \in Items : item'[i] = item[i] \/ item'[i].status = "failed"
    BY DEF ApiRecoverWrite, WorkInv, TypeOK, Row
  <1>4. ASSUME NEW i \in Items, item'[i].status = "running",
               Last(attempts[i]).worker \in ApiRunners
        PROVE FALSE
    <2>1. item[i].status = "running"
      BY <1>3, <1>4
    <2>2. i \in found[a]
      BY <1>1, <1>4, <2>1 DEF WorkInv, ApiRecoversFirst
    <2>3. attempts[i] \in Seq(Attempt) /\ attempts[i] # << >>
      BY <2>1 DEF WorkInv, TypeOK, RunningIsClaimed
    <2>4. Len(attempts[i]) \in DOMAIN attempts[i]
      BY <2>3
    <2>5. i \in InlineItems
      BY <1>4, <2>4 DEF WorkInv, ApiRecoversFirst, Last
    <2>6. item'[i] = [item[i] EXCEPT !.status = "failed", !.owner = None, !.lease = "none"]
      BY <2>1, <2>2, <2>5 DEF ApiRecoverWrite
    <2> QED
      BY <1>4, <2>6 DEF WorkInv, TypeOK, Row
  <1>5. ClosesRunningOf(ApiRunners, "failed")
    BY <1>2, <1>3, <1>4 DEF ClosesRunningOf, NoNewStatus
  <1> QED
    BY <1>5 DEF Recovers

(* An executor that records its own result closes the attempt of its claim. *)
LEMMA ExecutorRecordsKind ==
  ASSUME WorkInv, NEW r \in Runners, NEW v \in Verdicts, ExecutorRecords(r, v)
  PROVE  \E status \in Verdicts : Closes(r, status)
  <1> DEFINE i == runner[r].item
             seen == runner[r].loaded
             st == IF v = "timed_out" THEN "failed" ELSE v
  <1>0. TypeOK
    BY DEF WorkInv
  <1>1. Holds(r) /\ i \in Items /\ seen \in Row /\ item[i] \in Row
    BY <1>0 DEF WorkInv, HoldersOwnAttempts, OwnsAttempt, ExecutorRecords, Holds, TypeOK, RunnerState
  <1>2. Recorded(i, seen, v) \in Row /\ Recorded(i, seen, v).status = v
    BY <1>1, RowFacts DEF Recorded, Finished, Row
  <1>3. item'[i] = OrmWrite(item[i], seen, Recorded(i, seen, v))
    BY <1>0, <1>1 DEF ExecutorRecords, TypeOK
  <1>4. /\ v # seen.status => item'[i].status = v
        /\ v = seen.status => item'[i].status = item[i].status
    BY <1>1, <1>2, <1>3, OrmWriteFacts
  <1>5. v # "running" /\ st \in Verdicts /\ (v = "succeeded" => st = v)
    BY DEF Verdicts
  <1>6. item'[i].status \in {"running", "succeeded"} =>
          item'[i].status = item[i].status \/ item'[i].status = st
    BY <1>4, <1>5
  <1>7. runner[r].pc = "loaded" /\ runner'[r].pc = "recorded"
    BY <1>0 DEF ExecutorRecords, TypeOK, RunnerState
  <1>8. \A j \in Items \ {i} : item'[j] = item[j]
    BY <1>0 DEF ExecutorRecords, TypeOK
  <1>9. attempts' = [attempts EXCEPT ![i] = CloseAttempt(attempts[i], runner[r].attempt, st)]
    BY DEF ExecutorRecords
  <1>10. seen.status = "running" => item'[i].status # "running"
    BY <1>4, <1>5
  <1>11. Closes(r, st)
    BY <1>1, <1>6, <1>7, <1>8, <1>9, <1>10 DEF Closes
  <1> QED
    BY <1>5, <1>11

(* The engine's completion closes the attempt of its claim. *)
LEMMA MarkFinishedKind ==
  ASSUME WorkInv, NEW r \in Runners, NEW o \in Outcomes, MarkFinished(r, o)
  PROVE  \E status \in Verdicts : Closes(r, status)
  <1> DEFINE i == runner[r].item
             v == runner[r].verdict
  <1>0. TypeOK
    BY DEF WorkInv
  <1>1. Holds(r) /\ i \in Items /\ v \in Verdicts /\ runner[r].pc = "returned"
    BY <1>0 DEF WorkInv, HoldersOwnAttempts, OwnsAttempt, MarkFinished, Holds, TypeOK, RunnerState
  <1>2. item'[i].status = v
    BY <1>0, <1>1 DEF MarkFinished, TypeOK, Finished
  <1>3. runner'[r].pc = "idle"
    BY <1>0, MoveFacts DEF MarkFinished, TypeOK
  <1>4. \A j \in Items \ {i} : item'[j] = item[j]
    BY <1>0 DEF MarkFinished, TypeOK
  <1>5. attempts' = [attempts EXCEPT ![i] = CloseAttempt(attempts[i], runner[r].attempt, v)]
    BY DEF MarkFinished
  <1>6. Closes(r, v)
    BY <1>1, <1>2, <1>3, <1>4, <1>5 DEF Closes
  <1> QED
    BY <1>1, <1>6

(* Every step claims one item, closes the attempt of one claim, recovers, or leaves attempts alone. *)
LEMMA StepKinds == WorkInv /\ [Next]_vars => StepKind
  <1> SUFFICES ASSUME WorkInv, [Next]_vars PROVE StepKind
    OBVIOUS
  <1>0. TypeOK /\ RequestsPending
    BY DEF WorkInv
  <1>a. CASE UNCHANGED vars
    BY <1>a DEF StepKind, Quiet, NoNewStatus, vars
  <1>1. ASSUME NEW i \in Items, LeaseExpires(i) \/ CancelPending(i) PROVE Quiet
    BY <1>0, <1>1 DEF TypeOK, LeaseExpires, CancelPending, Quiet, NoNewStatus, Row
  <1>2. ASSUME NEW p \in Processes, Crash(p) \/ Restart(p) PROVE Quiet
    BY <1>2 DEF Crash, Restart, Quiet, NoNewStatus
  <1>3. ASSUME NEW r \in Runners, RecoverRead(r) PROVE Quiet
    BY <1>3 DEF RecoverRead, Quiet, NoNewStatus
  <1>4. ASSUME ApiRecoverRead PROVE Quiet
    BY <1>4 DEF ApiRecoverRead, Quiet, NoNewStatus
  <1>5. ASSUME NEW r \in Runners, PollBlocks(r) PROVE Quiet
    BY <1>0, <1>5, BlockedFacts DEF TypeOK, PollBlocks, Quiet, NoNewStatus
  <1>6. ASSUME NEW r \in Runners, Heartbeat(r) \/ HeartbeatFails(r) PROVE Quiet
    BY <1>0, <1>6 DEF TypeOK, Heartbeat, HeartbeatFails, Quiet, NoNewStatus, Row
  <1>7. ASSUME NEW r \in Runners, LoadRow(r) \/ Relabels(r) PROVE Quiet
    <2>1. CASE LoadRow(r)
      BY <2>1 DEF LoadRow, Quiet, NoNewStatus
    <2>2. CASE Relabels(r)
      BY <1>0, <2>2 DEF TypeOK, Relabels, Quiet, NoNewStatus, Row
    <2> QED
      BY <1>7, <2>1, <2>2
  <1>8. ASSUME NEW r \in Runners, NEW v \in Verdicts, ExecutorReturns(r, v) PROVE Quiet
    BY <1>8 DEF ExecutorReturns, Quiet, NoNewStatus
  <1>9. ASSUME NEW r \in Runners, CompletionRejected(r) PROVE Quiet
    BY <1>9 DEF CompletionRejected, Quiet, NoNewStatus
  <1>10. ASSUME NEW c \in Operators, NEW op \in {"retry", "rerun", "cancel"}, NEW i \in Items,
                CommandRead(c, op, i)
         PROVE Quiet
    BY <1>10 DEF CommandRead, Quiet, NoNewStatus
  <1>11. ASSUME NEW c \in Operators, CommandWrite(c) PROVE Quiet
    <2>1. \A j \in Items : item'[j] = item[j] \/ item'[j].status \in {"pending", "canceled"}
      BY <1>0, <1>11, CommandFacts
    <2> QED
      BY <1>11, <2>1 DEF CommandWrite, Quiet, NoNewStatus
  <1>12. ASSUME NEW r \in Runners, Claim(r) PROVE \E i \in Items : Claims(r, i)
    BY <1>0, <1>12, ClaimFacts
  <1>13. ASSUME NEW r \in Runners, NEW i \in Items, StartInline(r, i) PROVE Claims(r, i)
    BY <1>0, <1>13, StartInlineFacts
  <1> QED
    BY <1>a, <1>1, <1>2, <1>3, <1>4, <1>5, <1>6, <1>7, <1>8, <1>9, <1>10, <1>11, <1>12,
       <1>13, RecoverWriteKind, ApiRecoverWriteKind, ExecutorRecordsKind, MarkFinishedKind
    DEF Next, StepKind

----------------------------------------------------------------------------
(* What follows from the kinds *)

(* A step starts an item exactly when it appends an attempt, and it keeps    *)
(* the workers of the attempts that there are.                               *)
ClaimsOrNot(i) ==
  /\ \/ /\ Len(attempts'[i]) = Len(attempts[i]) + 1
        /\ item[i].status # "running" /\ item'[i].status = "running"
     \/ /\ Len(attempts'[i]) = Len(attempts[i])
        /\ item'[i].status = "running" => item[i].status = "running"
  /\ \A k \in 1..Len(attempts[i]) : attempts'[i][k].worker = attempts[i][k].worker

(* An item that starts to run has one more attempt; no other step adds one or changes its worker. *)
LEMMA ClaimsOrNotStep == WorkInv /\ [Next]_vars => \A i \in Items : ClaimsOrNot(i)
  <1> SUFFICES ASSUME WorkInv, [Next]_vars, NEW j \in Items PROVE ClaimsOrNot(j)
    OBVIOUS
  <1>0. TypeOK /\ attempts[j] \in Seq(Attempt)
    BY DEF WorkInv, TypeOK
  <1>1. CASE Quiet
    BY <1>1 DEF Quiet, NoNewStatus, ClaimsOrNot
  <1>2. CASE Recovers
    <2>0. PICK W : \E status \in {"failed", "timed_out"} : ClosesRunningOf(W, status)
      BY <1>2 DEF Recovers
    <2>1. PICK status \in {"failed", "timed_out"} : ClosesRunningOf(W, status)
      BY <2>0
    <2>2. attempts'[j] = attempts[j] \/ attempts'[j] = CloseRunning(attempts[j], W, status)
      BY <2>1 DEF ClosesRunningOf
    <2>3. item'[j].status = "running" => item[j].status = "running"
      BY <2>1 DEF ClosesRunningOf, NoNewStatus
    <2>4. LET closed == CloseRunning(attempts[j], W, status)
          IN /\ Len(closed) = Len(attempts[j])
             /\ \A k \in 1..Len(attempts[j]) : closed[k].worker = attempts[j][k].worker
      BY <1>0, <2>1, CloseRunningFacts DEF Verdicts
    <2> QED
      BY <2>2, <2>3, <2>4 DEF ClaimsOrNot
  <1>3. ASSUME NEW r \in Runners, NEW i \in Items, Claims(r, i) PROVE ClaimsOrNot(j)
    <2>1. CASE j = i
      <3>1. attempts'[i] = OpenAttempt(attempts[i], r)
        BY <1>0, <1>3 DEF Claims, TypeOK
      <3>2. attempts[i] \in Seq(Attempt)
        BY <1>0 DEF TypeOK
      <3>3. /\ Len(OpenAttempt(attempts[i], r)) = Len(attempts[i]) + 1
            /\ \A k \in 1..Len(attempts[i]) : OpenAttempt(attempts[i], r)[k] = attempts[i][k]
        BY <3>2, OpenAttemptFacts
      <3> QED
        BY <1>3, <2>1, <3>1, <3>3 DEF Claims, ClaimsOrNot
    <2>2. CASE j # i
      BY <1>0, <1>3, <2>2 DEF Claims, ClaimsOrNot, TypeOK
    <2> QED
      BY <2>1, <2>2
  <1>4. ASSUME NEW r \in Runners, NEW status \in Verdicts, Closes(r, status)
        PROVE  ClaimsOrNot(j)
    <2>1. attempts'[j] = attempts[j]
          \/ attempts'[j] = CloseAttempt(attempts[j], runner[r].attempt, status)
      BY <1>0, <1>4 DEF Closes, TypeOK
    <2>2. item'[j].status = "running" => item[j].status = "running"
      <3>1. status # "running"
        BY DEF Verdicts
      <3> QED
        BY <1>4, <3>1 DEF Closes
    <2>3. LET closed == CloseAttempt(attempts[j], runner[r].attempt, status)
          IN /\ Len(closed) = Len(attempts[j])
             /\ \A k \in 1..Len(attempts[j]) : closed[k].worker = attempts[j][k].worker
      BY <1>0, CloseAttemptFacts
    <2> QED
      BY <2>1, <2>2, <2>3 DEF ClaimsOrNot
  <1> QED
    BY <1>1, <1>2, <1>3, <1>4, StepKinds DEF StepKind

(* Only a claim starts an item.                                              *)
LEMMA ClaimedBy ==
  ASSUME WorkInv, [Next]_vars, NEW i \in Items,
         item'[i].status = "running", item[i].status # "running"
  PROVE  \E r \in Runners : Claims(r, i)
  <1>1. ~ Quiet /\ ~ Recovers
    BY DEF Quiet, NoNewStatus, Recovers, ClosesRunningOf
  <1>2. ASSUME NEW r \in Runners, NEW status \in Verdicts, Closes(r, status) PROVE FALSE
    <2>1. status # "running"
      BY DEF Verdicts
    <2> QED
      BY <1>2, <2>1 DEF Closes
  <1>3. PICK r \in Runners, j \in Items : Claims(r, j)
    BY <1>1, <1>2, StepKinds DEF StepKind
  <1> QED
    BY <1>3 DEF Claims

(* An attempt succeeds, or ceases to, only by the hand of its holder; and if *)
(* it is the engine's hand, the item gets the same status.                   *)
VerdictKept(i, k) ==
  \/ attempts'[i][k].status = "succeeded" <=> attempts[i][k].status = "succeeded"
  \/ \E r \in Runners :
       /\ Holds(r) /\ runner[r].item = i /\ runner[r].attempt = k
       /\ \/ runner[r].pc = "loaded" /\ runner'[r].pc = "recorded"
          \/ /\ runner[r].pc = "returned" /\ runner'[r].pc = "idle"
             /\ item'[i].status = attempts'[i][k].status

(* Whether an attempt is succeeded changes only when the holder of its claim records a verdict. *)
LEMMA VerdictStep ==
  WorkInv /\ [Next]_vars => \A i \in Items : \A k \in 1..Len(attempts[i]) : VerdictKept(i, k)
  <1> SUFFICES ASSUME WorkInv, [Next]_vars, NEW j \in Items, NEW k \in 1..Len(attempts[j])
               PROVE VerdictKept(j, k)
    OBVIOUS
  <1>0. TypeOK /\ attempts[j] \in Seq(Attempt)
    BY DEF WorkInv, TypeOK
  <1>1. CASE Quiet
    BY <1>1 DEF Quiet, VerdictKept
  <1>2. CASE Recovers
    <2>0. PICK W : \E status \in {"failed", "timed_out"} : ClosesRunningOf(W, status)
      BY <1>2 DEF Recovers
    <2>1. PICK status \in {"failed", "timed_out"} : ClosesRunningOf(W, status)
      BY <2>0
    <2>2. attempts'[j] = attempts[j] \/ attempts'[j] = CloseRunning(attempts[j], W, status)
      BY <2>1 DEF ClosesRunningOf
    <2>3. LET closed == CloseRunning(attempts[j], W, status)
          IN closed[k].status = IF attempts[j][k].status = "running" /\ attempts[j][k].worker \in W
                                THEN status ELSE attempts[j][k].status
      BY <1>0, <2>1, CloseRunningFacts DEF Verdicts
    <2> QED
      BY <2>1, <2>2, <2>3 DEF VerdictKept
  <1>3. ASSUME NEW r \in Runners, NEW i \in Items, Claims(r, i) PROVE VerdictKept(j, k)
    <2>1. OpenAttempt(attempts[j], r)[k] = attempts[j][k]
      BY <1>0, OpenAttemptFacts
    <2>2. attempts'[j] = attempts[j] \/ attempts'[j] = OpenAttempt(attempts[j], r)
      BY <1>0, <1>3 DEF Claims, TypeOK
    <2> QED
      BY <2>1, <2>2 DEF VerdictKept
  <1>4. ASSUME NEW r \in Runners, NEW status \in Verdicts, Closes(r, status)
        PROVE  VerdictKept(j, k)
    <2> DEFINE closed == CloseAttempt(attempts[j], runner[r].attempt, status)
    <2>1. closed[k].status = IF k = runner[r].attempt THEN status ELSE attempts[j][k].status
      BY <1>0, CloseAttemptFacts
    <2>2. attempts'[j] = IF j = runner[r].item THEN closed ELSE attempts[j]
      BY <1>0, <1>4 DEF Closes, TypeOK
    <2>3. CASE j = runner[r].item /\ k = runner[r].attempt
      <3>1. attempts'[j][k].status = status
        BY <2>1, <2>2, <2>3
      <3>2. \/ runner[r].pc = "loaded" /\ runner'[r].pc = "recorded"
            \/ runner[r].pc = "returned" /\ runner'[r].pc = "idle" /\ item'[j].status = status
        BY <1>4, <2>3 DEF Closes
      <3> QED
        BY <1>4, <2>3, <3>1, <3>2 DEF Closes, VerdictKept
    <2>4. CASE j # runner[r].item \/ k # runner[r].attempt
      BY <2>1, <2>2, <2>4 DEF VerdictKept
    <2> QED
      BY <2>3, <2>4
  <1> QED
    BY <1>1, <1>2, <1>3, <1>4, StepKinds DEF StepKind

(* An item that a step makes succeed has a succeeded attempt.                *)
LEMMA SucceedsStep ==
  ASSUME WorkInv, [Next]_vars, NEW j \in Items,
         item'[j].status = "succeeded", item[j].status # "succeeded"
  PROVE  \E k \in 1..Len(attempts[j]) : attempts'[j][k].status = "succeeded"
  <1>0. TypeOK /\ attempts[j] \in Seq(Attempt)
    BY DEF WorkInv, TypeOK
  <1>1. ~ Quiet /\ ~ Recovers
    BY DEF Quiet, NoNewStatus, Recovers, ClosesRunningOf
  <1>2. ASSUME NEW r \in Runners, NEW i \in Items, Claims(r, i) PROVE FALSE
    BY <1>2 DEF Claims
  <1>3. PICK r \in Runners, status \in Verdicts : Closes(r, status)
    BY <1>1, <1>2, StepKinds DEF StepKind
  <1>4. j = runner[r].item /\ status = "succeeded"
    BY <1>3 DEF Closes
  <1>5. attempts'[j] = CloseAttempt(attempts[j], runner[r].attempt, status)
    BY <1>0, <1>3, <1>4 DEF Closes, TypeOK
  <1>6. runner[r].attempt \in 1..Len(attempts[j])
    BY <1>3, <1>4 DEF WorkInv, HoldersOwnAttempts, OwnsAttempt, Closes
  <1>7. CloseAttempt(attempts[j], runner[r].attempt, status)[runner[r].attempt].status = status
    BY <1>0, <1>6, CloseAttemptFacts
  <1> QED
    BY <1>4, <1>5, <1>6, <1>7

----------------------------------------------------------------------------
(* What a step does to a runner *)

(* A runner that goes on holding its claim advances; it loads a row as the   *)
(* row is, and a task executor one that runs.                                *)
Advances(s) ==
  /\ Holds(s)
  /\ runner'[s].item = runner[s].item /\ runner'[s].attempt = runner[s].attempt
  /\ runner'[s].pc \in {"claimed", "loaded"} => runner[s].pc \in {"claimed", "loaded"}
  /\ runner'[s].pc \in {"loaded", "recorded"} =>
       runner[s].pc \in {"loaded", "recorded"} \/ runner[s].item \in SelfRecording
  /\ runner'[s].pc = "loaded" =>
       \/ runner[s].pc = "loaded" /\ runner'[s].loaded.status = runner[s].loaded.status
       \/ /\ runner'[s].loaded.status = item'[runner[s].item].status
          /\ runner[s].item \in TaskRecorders => runner'[s].loaded.status = "running"

(* A runner's step keeps its claim, ends it, or begins one. *)
LEMMA AdvancesStep ==
  ASSUME WorkInv, [Next]_vars, NEW s \in Runners, Holds(s)'
  PROVE  Advances(s) \/ \E i \in Items : Claims(s, i)
  <1>0. TypeOK /\ runner[s] \in RunnerState /\ (Holds(s) => runner[s].item \in Items)
    BY DEF WorkInv, TypeOK, HoldersOwnAttempts, OwnsAttempt
  <1>u. ASSUME runner'[s] = runner[s] PROVE Advances(s)
    BY <1>u DEF Advances, Holds
  <1>m. ASSUME NEW R, NEW where \in {"down", "starting", "recovering", "idle"}, Move(R, where)
        PROVE  runner'[s] = runner[s]
    BY <1>0, <1>m, MoveFacts DEF TypeOK, Holds
  <1>a. CASE UNCHANGED vars
    BY <1>u, <1>a DEF vars
  <1>1. ASSUME NEW i \in Items, LeaseExpires(i) \/ CancelPending(i) PROVE runner'[s] = runner[s]
    BY <1>1 DEF LeaseExpires, CancelPending
  <1>2. ASSUME NEW p \in Processes, Crash(p) \/ Restart(p) PROVE runner'[s] = runner[s]
    BY <1>m, <1>2 DEF Crash, Restart
  <1>3. ASSUME NEW r \in Runners, RecoverRead(r) \/ RecoverWrite(r) PROVE runner'[s] = runner[s]
    BY <1>m, <1>3 DEF RecoverRead, RecoverWrite
  <1>4. ASSUME ApiRecoverRead \/ ApiRecoverWrite PROVE runner'[s] = runner[s]
    BY <1>m, <1>4 DEF ApiRecoverRead, ApiRecoverWrite
  <1>5. ASSUME NEW r \in Runners, NEW i \in Items, Claims(r, i)
        PROVE  runner'[s] = runner[s] \/ Claims(s, i)
    BY <1>0, <1>5 DEF TypeOK, Claims
  <1>6. ASSUME NEW r \in Runners, PollBlocks(r) PROVE runner'[s] = runner[s]
    BY <1>6 DEF PollBlocks
  <1>7. ASSUME NEW r \in Runners, Heartbeat(r) \/ HeartbeatFails(r) PROVE Advances(s)
    <2>1. runner'[s] = runner[s] \/ \E b \in {"off", "error"} :
            runner'[s] = [runner[s] EXCEPT !.beat = b]
      BY <1>0, <1>7 DEF TypeOK, Heartbeat, HeartbeatFails
    <2>2. /\ runner'[s].pc = runner[s].pc /\ runner'[s].item = runner[s].item
          /\ runner'[s].attempt = runner[s].attempt /\ runner'[s].loaded = runner[s].loaded
      BY <1>0, <2>1 DEF RunnerState
    <2> QED
      BY <2>2 DEF Advances, Holds
  <1>8. ASSUME NEW r \in Runners, LoadRow(r) \/ Relabels(r) PROVE Advances(s)
    <2>1. CASE r = s /\ LoadRow(r)
      <3> DEFINE i == runner[s].item
      <3>a. runner[s].pc = "claimed" /\ i \in SelfRecording /\ Holds(s)
        BY <2>1 DEF LoadRow, Holds
      <3>b. /\ runner'[s] = [runner[s] EXCEPT !.pc = "loaded", !.loaded = item[i]]
            /\ i \in TaskRecorders => item[i].status = "running"
            /\ item' = item
        BY <1>0, <2>1 DEF LoadRow, TypeOK
      <3>c. /\ runner'[s].pc = "loaded" /\ runner'[s].item = i
            /\ runner'[s].attempt = runner[s].attempt /\ runner'[s].loaded = item'[i]
        BY <1>0, <3>b DEF RunnerState
      <3> QED
        BY <3>a, <3>b, <3>c DEF Advances
    <2>2. CASE r = s /\ Relabels(r)
      <3>a. runner[s].pc = "loaded" /\ Holds(s) /\ runner[s].loaded \in Row
        BY <1>0, <2>2 DEF Relabels, Holds, RunnerState
      <3>b. runner'[s] = [runner[s] EXCEPT !.loaded = [runner[s].loaded EXCEPT !.owner = Relabel]]
        BY <1>0, <2>2 DEF Relabels, TypeOK
      <3>c. /\ runner'[s].pc = "loaded" /\ runner'[s].item = runner[s].item
            /\ runner'[s].attempt = runner[s].attempt
            /\ runner'[s].loaded.status = runner[s].loaded.status
        BY <1>0, <3>a, <3>b DEF RunnerState, Row
      <3> QED
        BY <3>a, <3>c DEF Advances
    <2>3. CASE r # s
      <3>1. runner'[s] = runner[s]
        BY <1>0, <1>8, <2>3 DEF LoadRow, Relabels, TypeOK
      <3> QED
        BY <1>u, <3>1
    <2> QED
      BY <1>8, <2>1, <2>2, <2>3
  <1>9. ASSUME NEW r \in Runners, NEW v \in Verdicts, ExecutorRecords(r, v) \/ ExecutorReturns(r, v)
        PROVE  Advances(s)
    <2>1. CASE r = s
      <3>1. \/ runner'[s] = [runner[s] EXCEPT !.pc = "recorded", !.verdict = v]
            \/ runner'[s] = [runner[s] EXCEPT !.pc = "returned", !.verdict = v, !.beat = "off"]
        BY <1>0, <1>9, <2>1 DEF ExecutorRecords, ExecutorReturns, TypeOK
      <3>2. runner'[s].pc = "recorded" => runner[s].pc = "loaded"
        BY <1>0, <1>9, <2>1 DEF ExecutorRecords, ExecutorReturns, TypeOK, RunnerState
      <3>3. Holds(s)
        BY <1>9, <2>1 DEF ExecutorRecords, ExecutorReturns, Executes, Holds
      <3> QED
        BY <1>0, <3>1, <3>2, <3>3 DEF Advances, RunnerState
    <2>2. CASE r # s
      <3>1. runner'[s] = runner[s]
        BY <1>0, <1>9, <2>2 DEF ExecutorRecords, ExecutorReturns, TypeOK
      <3> QED
        BY <1>u, <3>1
    <2> QED
      BY <2>1, <2>2
  <1>10. ASSUME NEW r \in Runners, NEW o \in Outcomes, MarkFinished(r, o)
         PROVE  runner'[s] = runner[s]
    BY <1>m, <1>10 DEF MarkFinished
  <1>11. ASSUME NEW r \in Runners, CompletionRejected(r) PROVE runner'[s] = runner[s]
    BY <1>m, <1>11 DEF CompletionRejected
  <1>12. ASSUME NEW c \in Operators, NEW op \in {"retry", "rerun", "cancel"}, NEW i \in Items,
                CommandRead(c, op, i) \/ CommandWrite(c)
         PROVE  runner'[s] = runner[s]
    BY <1>12 DEF CommandRead, CommandWrite
  <1>13. ASSUME NEW r \in Runners, Claim(r) PROVE \E i \in Items : Claims(r, i)
    BY <1>0, <1>13, ClaimFacts
  <1>14. ASSUME NEW r \in Runners, NEW i \in Items, StartInline(r, i) PROVE Claims(r, i)
    BY <1>0, <1>14, StartInlineFacts
  <1>15. ASSUME NEW c \in Operators, CommandWrite(c) PROVE runner'[s] = runner[s]
    BY <1>15 DEF CommandWrite
  <1> QED
    BY <1>u, <1>a, <1>1, <1>2, <1>3, <1>4, <1>5, <1>6, <1>7, <1>8, <1>9, <1>10, <1>11, <1>12,
       <1>13, <1>14, <1>15 DEF Next

(* Nobody but its holder closes an attempt, so a holder's attempt keeps its  *)
(* worker and its verdict.                                                   *)
LEMMA HoldersStep == WorkInv /\ [Next]_vars => HoldersOwnAttempts'
  <1> SUFFICES ASSUME WorkInv, [Next]_vars, NEW s \in Runners, Holds(s)'
               PROVE  OwnsAttempt(s)'
    BY DEF HoldersOwnAttempts
  <1>0. TypeOK
    BY DEF WorkInv
  <1>1. ASSUME NEW i \in Items, Claims(s, i) PROVE OwnsAttempt(s)'
    <2>1. attempts[i] \in Seq(Attempt) /\ Len(attempts[i]) + 1 \in Nat
      BY <1>0 DEF TypeOK
    <2>2. runner'[s] = Holding(i, Len(attempts[i]) + 1)
      BY <1>0, <1>1 DEF Claims, TypeOK
    <2>3. /\ runner'[s].pc = "claimed" /\ runner'[s].item = i
          /\ runner'[s].attempt = Len(attempts[i]) + 1
      BY <2>1, <2>2, HoldingFacts
    <2>4. attempts'[i] = OpenAttempt(attempts[i], s)
      BY <1>0, <1>1 DEF Claims, TypeOK
    <2>5. /\ Len(attempts'[i]) = Len(attempts[i]) + 1
          /\ attempts'[i][Len(attempts[i]) + 1] = [worker |-> s, status |-> "running"]
      BY <2>1, <2>4, OpenAttemptFacts
    <2>6. Len(attempts[i]) + 1 \in 1..Len(attempts'[i])
      BY <2>1, <2>5
    <2> QED
      BY <2>3, <2>5, <2>6 DEF OwnsAttempt
  <1>2. CASE Advances(s)
    <2> DEFINE i == runner[s].item
               k == runner[s].attempt
    <2>1. OwnsAttempt(s) /\ Holds(s)
      BY <1>2 DEF Advances, WorkInv, HoldersOwnAttempts
    <2>2. i \in Items /\ k \in 1..Len(attempts[i]) /\ attempts[i][k].worker = s
      BY <2>1 DEF OwnsAttempt
    <2>3. k \in 1..Len(attempts'[i]) /\ attempts'[i][k].worker = s
      <3>1. attempts[i] \in Seq(Attempt)
        BY <1>0, <2>2 DEF TypeOK
      <3>2. ClaimsOrNot(i)
        BY <2>2, ClaimsOrNotStep
      <3> QED
        BY <2>2, <3>1, <3>2, SMTT(20) DEF ClaimsOrNot
    <2>4. ASSUME attempts'[i][k].status = "succeeded", attempts[i][k].status # "succeeded"
          PROVE  runner'[s].pc = "recorded" /\ i \in SelfRecording
      <3>1. PICK r \in Runners :
              /\ Holds(r) /\ runner[r].item = i /\ runner[r].attempt = k
              /\ \/ runner[r].pc = "loaded" /\ runner'[r].pc = "recorded"
                 \/ runner'[r].pc = "idle"
        BY <2>2, <2>4, VerdictStep DEF VerdictKept
      <3>2. OwnsAttempt(r)
        BY <3>1 DEF WorkInv, HoldersOwnAttempts
      <3>3. r = s
        BY <2>2, <3>1, <3>2 DEF OwnsAttempt
      <3>4. runner'[s].pc # "idle"
        BY DEF Holds
      <3> QED
        BY <3>1, <3>2, <3>3, <3>4 DEF OwnsAttempt
    <2>5. runner'[s].item = i /\ runner'[s].attempt = k
      BY <1>2 DEF Advances
    <2>6. runner'[s].pc \in {"claimed", "loaded"} => attempts'[i][k].status # "succeeded"
      BY <1>2, <2>1, <2>4 DEF Advances, OwnsAttempt
    <2>7. i \notin SelfRecording => attempts'[i][k].status # "succeeded"
      BY <2>1, <2>4 DEF OwnsAttempt
    <2>8. runner'[s].pc \in {"loaded", "recorded"} => i \in SelfRecording
      BY <1>2, <2>1 DEF Advances, OwnsAttempt
    <2> QED
      BY <2>2, <2>3, <2>5, <2>6, <2>7, <2>8 DEF OwnsAttempt
  <1> QED
    BY <1>1, <1>2, AdvancesStep

(* Every step keeps LoadedRunning: an executor loads running rows. *)
LEMMA LoadedStep == WorkInv /\ [Next]_vars => LoadedRunning'
  <1> SUFFICES ASSUME WorkInv, [Next]_vars, NEW s \in Runners, runner'[s].pc = "loaded"
               PROVE  LET i == runner'[s].item
                      IN \/ runner'[s].loaded.status = "running"
                         \/ i \notin TaskRecorders /\ item'[i].status # "running"
                         \/ i \notin TaskRecorders /\ runner'[s].attempt # Len(attempts'[i])
    BY DEF LoadedRunning
  <1>0. TypeOK
    BY DEF WorkInv
  <1>1. ASSUME NEW i \in Items, Claims(s, i) PROVE FALSE
    <2>1. runner'[s] = Holding(i, Len(attempts[i]) + 1)
      BY <1>0, <1>1 DEF Claims, TypeOK
    <2> QED
      BY <2>1 DEF Holding, At
  <1>2. Advances(s)
    BY <1>1, AdvancesStep DEF Holds
  <1> DEFINE i == runner[s].item
             k == runner[s].attempt
  <1>3. runner'[s].item = i /\ runner'[s].attempt = k
    BY <1>2 DEF Advances
  <1>4. CASE runner[s].pc = "loaded" /\ runner'[s].loaded.status = runner[s].loaded.status
    <2>1. /\ i \in Items /\ k \in 1..Len(attempts[i]) /\ attempts[i] \in Seq(Attempt)
      BY <1>0, <1>2 DEF WorkInv, HoldersOwnAttempts, OwnsAttempt, Advances, TypeOK
    <2>2. ClaimsOrNot(i)
      BY <2>1, ClaimsOrNotStep
    <2>3. \/ runner[s].loaded.status = "running"
          \/ i \notin TaskRecorders /\ item[i].status # "running"
          \/ i \notin TaskRecorders /\ k # Len(attempts[i])
      BY <1>4 DEF WorkInv, LoadedRunning
    <2> QED
      BY <1>3, <1>4, <2>1, <2>2, <2>3 DEF ClaimsOrNot
  <1>5. CASE /\ runner'[s].loaded.status = item'[i].status
             /\ i \in TaskRecorders => runner'[s].loaded.status = "running"
    BY <1>3, <1>5
  <1> QED
    BY <1>2, <1>4, <1>5 DEF Advances

----------------------------------------------------------------------------
(* Requests and the API *)

(* Every step keeps RequestsPending: a command writes over a row it was allowed to read. *)
LEMMA RequestsStep == WorkInv /\ [Next]_vars => RequestsPending'
  <1> SUFFICES ASSUME WorkInv, [Next]_vars PROVE RequestsPending'
    OBVIOUS
  <1>0. TypeOK /\ RequestsPending
    BY DEF WorkInv
  <1>1. CASE request' = request
    BY <1>0, <1>1 DEF RequestsPending
  <1>2. ASSUME NEW c \in Operators, NEW op \in {"retry", "rerun", "cancel"}, NEW i \in Items,
               CommandRead(c, op, i)
        PROVE  RequestsPending'
    BY <1>0, <1>2 DEF RequestsPending, CommandRead, TypeOK
  <1>3. ASSUME NEW c \in Operators, CommandWrite(c) PROVE RequestsPending'
    BY <1>0, <1>3 DEF RequestsPending, CommandWrite, NoRequest, TypeOK
  <1> QED
    BY <1>1, <1>2, <1>3
    DEF Next, vars, LeaseExpires, CancelPending, Crash, Restart, RecoverRead, RecoverWrite,
        ApiRecoverRead, ApiRecoverWrite, Claim, PollBlocks, StartInline, Heartbeat,
        HeartbeatFails, LoadRow, Relabels, ExecutorRecords, ExecutorReturns, MarkFinished,
        CompletionRejected

(* The API's requests are down, starting or recovering all together.         *)
Waits == {"down", "starting", "recovering"}
ApiKept ==
  \A a \in ApiRunners :
    /\ found'[a] = found[a]
    /\ runner'[a].pc = runner[a].pc \/ {runner'[a].pc, runner[a].pc} \cap Waits = {}
ApiMoves(where) == \A a \in ApiRunners : runner'[a].pc = where

(* A step leaves all API requests alone, serves one of them, or moves them all together. *)
LEMMA ApiStep ==
  ASSUME WorkInv, [Next]_vars
  PROVE  \/ ApiKept \/ ApiMoves("down") \/ ApiMoves("starting") \/ ApiMoves("idle")
         \/ ApiRecoverRead /\ ApiMoves("recovering")
  <1>0. TypeOK /\ ApiRunners \subseteq Runners /\ ApiRecoversFirst
    BY DEF WorkInv, Runners
  <1>a. CASE UNCHANGED vars
    BY <1>a DEF vars, ApiKept
  <1>k. ASSUME NEW r \in Runners, NEW S, runner' = [runner EXCEPT ![r] = S],
               found' = found, runner[r].pc \notin Waits, S.pc \notin Waits
        PROVE  ApiKept
    BY <1>0, <1>k DEF ApiKept, TypeOK
  <1>o. ASSUME NEW r \in Runners \ ApiRunners, NEW where \in {"down", "starting", "recovering", "idle"},
               Move({r}, where), \A a \in ApiRunners : found'[a] = found[a]
        PROVE  ApiKept
    <2>1. \A a \in Runners : a \notin {r} => runner'[a] = runner[a]
      BY <1>0, <1>o, MoveFacts DEF TypeOK
    <2> QED
      BY <1>0, <1>o, <2>1 DEF ApiKept
  <1>v. "failed" \in Verdicts
    BY DEF Verdicts
  <1>1. ASSUME NEW i \in Items, LeaseExpires(i) \/ CancelPending(i) PROVE ApiKept
    BY <1>1 DEF LeaseExpires, CancelPending, ApiKept
  <1>2. ASSUME NEW p \in Processes, Crash(p) PROVE ApiKept \/ ApiMoves("down")
    <2> DEFINE R == {r \in Runners : ProcessOf[r] = p}
    <2>1. ApiRunners \subseteq R \/ ApiRunners \cap R = {}
      BY <1>0, ApiAssumption
    <2>2. /\ \A r \in Runners : r \notin R => runner'[r] = runner[r] /\ found'[r] = found[r]
          /\ \A r \in R \cap Runners : runner'[r].pc = "down"
      BY <1>0, <1>2, MoveFacts DEF Crash, TypeOK
    <2> HIDE DEF R
    <2> QED
      BY <1>0, <2>1, <2>2 DEF ApiKept, ApiMoves
  <1>3. ASSUME NEW p \in Processes, Restart(p) PROVE ApiKept \/ ApiMoves("starting")
    <2> DEFINE R == {r \in Runners : ProcessOf[r] = p /\ runner[r].pc = "down"}
    <2>1. ApiRunners \subseteq R \/ ApiRunners \cap R = {}
      BY <1>0, ApiAssumption DEF ApiRecoversFirst
    <2>2. /\ \A r \in Runners : r \notin R => runner'[r] = runner[r]
          /\ \A r \in R \cap Runners : runner'[r].pc = "starting"
          /\ found' = found
      BY <1>0, <1>3, MoveFacts DEF Restart, TypeOK
    <2> HIDE DEF R
    <2> QED
      BY <1>0, <2>1, <2>2 DEF ApiKept, ApiMoves
  <1>4. ASSUME NEW r \in Runners, RecoverRead(r) \/ RecoverWrite(r) PROVE ApiKept
    <2>1. r \notin ApiRunners
      BY <1>4, PartitionAssumption DEF RecoverRead, RecoverWrite
    <2>2. \A a \in ApiRunners : found'[a] = found[a]
      BY <1>0, <1>4, <2>1 DEF RecoverRead, RecoverWrite, TypeOK
    <2> QED
      BY <1>4, <1>o, <2>1, <2>2 DEF RecoverRead, RecoverWrite
  <1>5. ASSUME ApiRecoverRead PROVE ApiMoves("recovering")
    <2>1. runner \in [Runners -> RunnerState]
      BY <1>0 DEF TypeOK
    <2>2. Move(ApiRunners, "recovering")
      BY <1>5 DEF ApiRecoverRead
    <2>3. \A a \in ApiRunners \cap Runners : runner'[a].pc = "recovering"
      BY <2>1, <2>2, MoveFacts
    <2> QED BY <1>0, <2>3 DEF ApiMoves
  <1>6. ASSUME ApiRecoverWrite PROVE ApiMoves("idle")
    <2>1. runner \in [Runners -> RunnerState]
      BY <1>0 DEF TypeOK
    <2>2. Move(ApiRunners, "idle")
      BY <1>6 DEF ApiRecoverWrite
    <2>3. \A a \in ApiRunners \cap Runners : runner'[a].pc = "idle"
      BY <2>1, <2>2, MoveFacts
    <2> QED BY <1>0, <2>3 DEF ApiMoves
  <1>7. ASSUME NEW r \in Runners, NEW i \in Items, Claims(r, i) PROVE ApiKept
    <2>1. Holding(i, Len(attempts[i]) + 1).pc \notin Waits
      BY DEF Holding, At, Waits
    <2> QED
      BY <1>7, <1>k, <2>1 DEF Claims, Waits
  <1>8. ASSUME NEW r \in Runners, PollBlocks(r) PROVE ApiKept
    BY <1>8 DEF PollBlocks, ApiKept
  <1>9. ASSUME NEW r \in Runners, NEW v \in Verdicts,
               \/ Heartbeat(r) \/ HeartbeatFails(r) \/ LoadRow(r) \/ Relabels(r)
               \/ ExecutorRecords(r, v) \/ ExecutorReturns(r, v)
        PROVE  ApiKept
    <2>1. found' = found /\ \A a \in ApiRunners : a # r => runner'[a] = runner[a]
      BY <1>0, <1>9 DEF Heartbeat, HeartbeatFails, LoadRow, Relabels, ExecutorRecords, ExecutorReturns, TypeOK
    <2>2. runner[r].pc \notin Waits /\ runner'[r].pc \notin Waits
      BY <1>0, <1>9
      DEF Heartbeat, HeartbeatFails, LoadRow, Relabels, ExecutorRecords, ExecutorReturns, TypeOK, Executes,
          Waits, RunnerState
    <2> QED
      BY <2>1, <2>2 DEF ApiKept
  <1>10. ASSUME NEW r \in Runners, NEW o \in Outcomes, MarkFinished(r, o) PROVE ApiKept
    <2>1. found' = found /\ \A a \in ApiRunners : a # r => runner'[a] = runner[a]
      BY <1>0, <1>10, MoveFacts DEF MarkFinished, TypeOK
    <2>2. runner[r].pc \notin Waits /\ runner'[r].pc \notin Waits
      BY <1>0, <1>10, MoveFacts DEF MarkFinished, TypeOK, Waits
    <2> QED
      BY <2>1, <2>2 DEF ApiKept
  <1>11. ASSUME NEW r \in Runners, CompletionRejected(r) PROVE ApiKept
    <2>1. CASE r \in ApiRunners
      <3>1. found' = found /\ \A a \in ApiRunners : a # r => runner'[a] = runner[a]
        BY <1>0, <1>11, <2>1, MoveFacts DEF CompletionRejected, TypeOK
      <3>2. runner[r].pc \notin Waits /\ runner'[r].pc \notin Waits
        BY <1>0, <1>11, <2>1, MoveFacts DEF CompletionRejected, TypeOK, Waits
      <3> QED
        BY <3>1, <3>2 DEF ApiKept
    <2>2. CASE r \notin ApiRunners
      <3>1. ApiRunners \cap Siblings(r) = {}
        BY <1>0, <2>2, ApiAssumption DEF Siblings
      <3> QED
        BY <1>0, <1>11, <2>2, <3>1, MoveFacts DEF CompletionRejected, TypeOK, ApiKept
    <2> QED
      BY <2>1, <2>2
  <1>12. ASSUME NEW c \in Operators, NEW op \in {"retry", "rerun", "cancel"}, NEW i \in Items,
                CommandRead(c, op, i)
         PROVE ApiKept
    BY <1>12 DEF CommandRead, ApiKept
  <1>13. ASSUME NEW c \in Operators, CommandWrite(c) PROVE ApiKept
    BY <1>13 DEF CommandWrite, ApiKept
  <1>14. ASSUME NEW r \in Runners, Claim(r) PROVE \E i \in Items : Claims(r, i)
    BY <1>0, <1>14, ClaimFacts
  <1>15. ASSUME NEW r \in Runners, NEW i \in Items, StartInline(r, i) PROVE Claims(r, i)
    BY <1>0, <1>15, StartInlineFacts
  <1> QED
    BY <1>a, <1>1, <1>2, <1>3, <1>4, <1>5, <1>6, <1>7, <1>8, <1>9, <1>10, <1>11, <1>12,
       <1>13, <1>14, <1>15, <1>v DEF Next

(* Every step keeps ApiRecoversFirst. *)
LEMMA ApiRecoversFirstStep == WorkInv /\ [Next]_vars => ApiRecoversFirst'
  <1> SUFFICES ASSUME WorkInv, [Next]_vars PROVE ApiRecoversFirst'
    OBVIOUS
  <1>0. TypeOK /\ ApiRecoversFirst /\ ApiRunners \subseteq Runners
    BY DEF WorkInv, Runners
  <1>1. \A a, b \in ApiRunners : runner'[a].pc \in Waits => runner'[b].pc = runner'[a].pc
    <2>1. CASE ApiKept
      BY <1>0, <2>1 DEF ApiKept, ApiRecoversFirst, Waits
    <2> QED
      BY <2>1, ApiStep DEF ApiMoves
  <1>2. ASSUME NEW i \in Items, NEW k \in DOMAIN attempts'[i], attempts'[i][k].worker \in ApiRunners
        PROVE  i \in InlineItems
    <2>1. /\ attempts[i] \in Seq(Attempt) /\ attempts'[i] \in Seq(Attempt)
          /\ ClaimsOrNot(i) /\ k \in 1..Len(attempts'[i])
      BY <1>0, <1>2, ClaimsOrNotStep, TypeStep DEF TypeOK
    <2>2. CASE k \in 1..Len(attempts[i])
      BY <1>0, <1>2, <2>1, <2>2 DEF ClaimsOrNot, ApiRecoversFirst
    <2>3. CASE k \notin 1..Len(attempts[i])
      <3>1. k = Len(attempts[i]) + 1 /\ item[i].status # "running" /\ item'[i].status = "running"
        BY <2>1, <2>3 DEF ClaimsOrNot
      <3>2. PICK r \in Runners : Claims(r, i)
        BY <3>1, ClaimedBy
      <3>3. attempts'[i] = OpenAttempt(attempts[i], r)
        BY <1>0, <3>2 DEF Claims, TypeOK
      <3>4. OpenAttempt(attempts[i], r)[Len(attempts[i]) + 1] = [worker |-> r, status |-> "running"]
        BY <2>1, OpenAttemptFacts
      <3>5. attempts'[i][k].worker = r
        BY <3>1, <3>3, <3>4
      <3> QED
        BY <1>2, <3>2, <3>5 DEF Claims
    <2> QED
      BY <2>2, <2>3
  <1>3. ASSUME NEW a \in ApiRunners, runner'[a].pc = "recovering", NEW i \in Items,
               item'[i].status = "running", Last(attempts'[i]).worker \in ApiRunners
        PROVE  i \in found'[a]
    <2>1. attempts[i] \in Seq(Attempt) /\ ClaimsOrNot(i)
      BY <1>0, ClaimsOrNotStep DEF TypeOK
    <2>2. CASE ApiKept
      <3>1. runner[a].pc = "recovering" /\ found'[a] = found[a]
        BY <1>3, <2>2 DEF ApiKept, Waits
      <3>2. CASE item[i].status = "running"
        <4>1. Len(attempts'[i]) = Len(attempts[i]) /\ Len(attempts[i]) \in 1..Len(attempts[i])
          BY <2>1, <3>2 DEF ClaimsOrNot, WorkInv, RunningIsClaimed
        <4>2. Last(attempts'[i]).worker = Last(attempts[i]).worker
          BY <2>1, <4>1 DEF ClaimsOrNot, Last
        <4> QED
          BY <1>0, <1>3, <3>1, <3>2, <4>2 DEF ApiRecoversFirst
      <3>3. CASE item[i].status # "running"
        <4>1. PICK r \in Runners : Claims(r, i)
          BY <1>3, <3>3, ClaimedBy
        <4>2. attempts'[i] = OpenAttempt(attempts[i], r)
          BY <1>0, <4>1 DEF Claims, TypeOK
        <4>3. /\ Len(OpenAttempt(attempts[i], r)) = Len(attempts[i]) + 1
              /\ OpenAttempt(attempts[i], r)[Len(attempts[i]) + 1] = [worker |-> r, status |-> "running"]
          BY <2>1, OpenAttemptFacts
        <4>4. Last(attempts'[i]).worker = r
          BY <4>2, <4>3 DEF Last
        <4>5. runner[r].pc = "recovering"
          BY <1>0, <1>3, <3>1, <4>4 DEF ApiRecoversFirst
        <4> QED
          BY <4>1, <4>5 DEF Claims
      <3> QED
        BY <3>2, <3>3
    <2>3. CASE ApiRecoverRead
      <3>1. item[i].status = "running" /\ attempts'[i] = attempts[i]
        BY <1>3, <2>3 DEF ApiRecoverRead
      <3>2. attempts[i] # << >> /\ Last(attempts[i]).status = "running"
        BY <3>1 DEF WorkInv, RunningIsClaimed
      <3>3. Len(attempts[i]) \in DOMAIN attempts[i]
        BY <2>1, <3>2
      <3>4. RunsForApi(attempts[i])
        BY <1>3, <3>1, <3>2, <3>3 DEF RunsForApi, Last
      <3> QED
        BY <1>0, <2>3, <3>4 DEF ApiRecoverRead
    <2> QED
      BY <1>3, <2>2, <2>3, ApiStep DEF ApiMoves
  <1> QED
    BY <1>1, <1>2, <1>3 DEF ApiRecoversFirst, Waits

----------------------------------------------------------------------------
(* Running rows *)

(* A row that runs on keeps an expiry, and its owner unless the archive      *)
(* executor relabels it.                                                     *)
RunsOn(i) ==
  item[i].status = "running" /\ item'[i].status = "running" =>
    /\ item[i].lease # "none" => item'[i].lease # "none"
    /\ \/ item'[i].owner = item[i].owner
       \/ i \in TaskRecorders \cap InlineItems /\ item'[i].owner = Relabel

(* An item that runs on keeps its newest attempt open and its owner, or gets the archive label. *)
LEMMA RunsOnStep == WorkInv /\ [Next]_vars => \A i \in Items : RunsOn(i)
  <1> SUFFICES ASSUME WorkInv, [Next]_vars, NEW j \in Items PROVE RunsOn(j)
    OBVIOUS
  <1>0. TypeOK /\ item[j] \in Row
    BY DEF WorkInv, TypeOK
  <1>s. ASSUME item'[j] = item[j] \/ item'[j].status # "running" PROVE RunsOn(j)
    BY <1>s DEF RunsOn
  <1>a. CASE UNCHANGED vars
    BY <1>a, <1>s DEF vars
  <1>1. ASSUME NEW i \in Items, LeaseExpires(i) \/ CancelPending(i) PROVE RunsOn(j)
    <2>1. item'[j] = item[j] \/ item'[j] = [item[j] EXCEPT !.lease = "expired"]
          \/ item'[j] = [item[j] EXCEPT !.status = "canceled", !.outcome = "canceled"]
      BY <1>0, <1>1 DEF LeaseExpires, CancelPending, TypeOK
    <2> QED
      BY <1>0, <2>1 DEF RunsOn, Row
  <1>2. ASSUME NEW p \in Processes, Crash(p) \/ Restart(p) PROVE RunsOn(j)
    BY <1>2, <1>s DEF Crash, Restart
  <1>3. ASSUME NEW r \in Runners, RecoverRead(r) PROVE RunsOn(j)
    BY <1>3, <1>s DEF RecoverRead
  <1>4. ASSUME NEW r \in Runners, RecoverWrite(r) PROVE RunsOn(j)
    BY <1>0, <1>4, <1>s DEF RecoverWrite, Recovered, Row
  <1>5. ASSUME ApiRecoverRead PROVE RunsOn(j)
    BY <1>5, <1>s DEF ApiRecoverRead
  <1>6. ASSUME ApiRecoverWrite PROVE RunsOn(j)
    BY <1>0, <1>6, <1>s DEF ApiRecoverWrite, Row
  <1>7. ASSUME NEW r \in Runners, NEW i \in Items, Claims(r, i) PROVE RunsOn(j)
    BY <1>7 DEF Claims, RunsOn
  <1>8. ASSUME NEW r \in Runners, PollBlocks(r) PROVE RunsOn(j)
    BY <1>0, <1>8, <1>s, BlockedFacts DEF TypeOK, PollBlocks
  <1>9. ASSUME NEW r \in Runners, Heartbeat(r) \/ HeartbeatFails(r) PROVE RunsOn(j)
    <2>1. item'[j] = item[j] \/ item'[j] = [item[j] EXCEPT !.lease = "live"]
      BY <1>0, <1>9 DEF TypeOK, Heartbeat, HeartbeatFails
    <2> QED
      BY <1>0, <2>1 DEF RunsOn, Row
  <1>10. ASSUME NEW r \in Runners, LoadRow(r) \/ Relabels(r) PROVE RunsOn(j)
    <2>1. \/ item'[j] = item[j]
          \/ j \in TaskRecorders \cap InlineItems /\ item'[j] = [item[j] EXCEPT !.owner = Relabel]
      BY <1>0, <1>10 DEF TypeOK, LoadRow, Relabels
    <2> QED
      BY <1>0, <2>1 DEF RunsOn, Row
  <1>11. ASSUME NEW r \in Runners, NEW v \in Verdicts, ExecutorRecords(r, v) PROVE RunsOn(j)
    <2> DEFINE i == runner[r].item
               seen == runner[r].loaded
               new == Recorded(i, seen, v)
    <2>1. CASE j # i
      BY <1>0, <1>11, <1>s, <2>1 DEF ExecutorRecords, TypeOK
    <2>2. CASE j = i
      <3>0. seen \in Row /\ v # "running"
        BY <1>0, <1>11 DEF TypeOK, RunnerState, Verdicts
      <3>1. new \in Row /\ new.status = v /\ seen \in Row /\ v # "running"
        BY <2>2, <3>0, RowFacts DEF Recorded, Finished, Row
      <3>2. item'[j] = OrmWrite(item[j], seen, new)
        BY <1>0, <1>11, <2>2 DEF ExecutorRecords, TypeOK
      <3>3. CASE seen.status = "running"
        BY <1>0, <1>s, <3>1, <3>2, <3>3, OrmWriteFacts
      <3>4. CASE i \notin TaskRecorders
        <4>1. new.owner = seen.owner /\ new.lease = seen.lease
          BY <3>1, <3>4 DEF Recorded, Row
        <4>2. item'[j].owner = item[j].owner /\ item'[j].lease = item[j].lease
          BY <1>0, <3>1, <3>2, <4>1, OrmWriteFacts
        <4> QED
          BY <4>2 DEF RunsOn
      <3> QED
        BY <1>11, <3>3, <3>4 DEF ExecutorRecords, WorkInv, LoadedRunning
    <2> QED
      BY <2>1, <2>2
  <1>12. ASSUME NEW r \in Runners, NEW v \in Verdicts, ExecutorReturns(r, v) PROVE RunsOn(j)
    BY <1>12, <1>s DEF ExecutorReturns
  <1>13. ASSUME NEW r \in Runners, NEW o \in Outcomes, MarkFinished(r, o) PROVE RunsOn(j)
    <2>1. runner[r].verdict # "running"
      BY <1>0, <1>13 DEF TypeOK, RunnerState, Verdicts
    <2> QED
      BY <1>0, <1>13, <1>s, <2>1 DEF MarkFinished, TypeOK, Finished
  <1>14. ASSUME NEW r \in Runners, CompletionRejected(r) PROVE RunsOn(j)
    BY <1>14, <1>s DEF CompletionRejected
  <1>15. ASSUME NEW c \in Operators, NEW op \in {"retry", "rerun", "cancel"}, NEW i \in Items,
                CommandRead(c, op, i)
         PROVE  RunsOn(j)
    BY <1>15, <1>s DEF CommandRead
  <1>16. ASSUME NEW c \in Operators, CommandWrite(c) PROVE RunsOn(j)
    BY <1>0, <1>16, <1>s, CommandFacts DEF WorkInv
  <1>17. ASSUME NEW r \in Runners, Claim(r) PROVE \E i \in Items : Claims(r, i)
    BY <1>0, <1>17, ClaimFacts
  <1>18. ASSUME NEW r \in Runners, NEW i \in Items, StartInline(r, i) PROVE Claims(r, i)
    BY <1>0, <1>18, StartInlineFacts
  <1> QED
    BY <1>a, <1>1, <1>2, <1>3, <1>4, <1>5, <1>6, <1>7, <1>8, <1>9, <1>10, <1>11, <1>12,
       <1>13, <1>14, <1>15, <1>16, <1>17, <1>18 DEF Next

----------------------------------------------------------------------------
(* The safety invariants *)

(* Every step keeps RunningHoldsLease. *)
LEMMA RunningHoldsLeaseStep == WorkInv /\ [Next]_vars => RunningHoldsLease'
  <1> SUFFICES ASSUME WorkInv, [Next]_vars, NEW i \in Items, item'[i].status = "running"
               PROVE  item'[i].owner # None /\ item'[i].lease # "none"
    BY DEF RunningHoldsLease
  <1>1. CASE item[i].status = "running"
    <2>1. item[i].owner # None /\ item[i].lease # "none"
      BY <1>1 DEF WorkInv, RunningHoldsLease
    <2>2. RunsOn(i)
      BY RunsOnStep
    <2> QED
      BY <1>1, <2>1, <2>2, NullAssumption DEF RunsOn
  <1>2. CASE item[i].status # "running"
    <2>1. PICK r \in Runners : Claims(r, i)
      BY <1>2, ClaimedBy
    <2> QED
      BY <2>1, NullAssumption DEF Claims
  <1> QED
    BY <1>1, <1>2

(* Every step keeps RunningIsClaimed. *)
LEMMA RunningIsClaimedStep == WorkInv /\ [Next]_vars => RunningIsClaimed'
  <1> SUFFICES ASSUME WorkInv, [Next]_vars, NEW i \in Items, item'[i].status = "running"
               PROVE  /\ attempts'[i] # << >>
                      /\ Last(attempts'[i]).status = "running"
                      /\ \/ item'[i].owner = Last(attempts'[i]).worker
                         \/ i \in TaskRecorders \cap InlineItems /\ item'[i].owner = Relabel
    BY DEF RunningIsClaimed
  <1>0. TypeOK /\ attempts[i] \in Seq(Attempt) /\ attempts'[i] \in Seq(Attempt)
    BY TypeStep DEF WorkInv, TypeOK
  <1>1. CASE item[i].status # "running"
    <2>1. PICK r \in Runners : Claims(r, i)
      BY <1>1, ClaimedBy
    <2>2. attempts'[i] = OpenAttempt(attempts[i], r)
      BY <1>0, <2>1 DEF Claims, TypeOK
    <2>3. /\ Len(OpenAttempt(attempts[i], r)) = Len(attempts[i]) + 1
          /\ OpenAttempt(attempts[i], r)[Len(attempts[i]) + 1] = [worker |-> r, status |-> "running"]
      BY <1>0, OpenAttemptFacts
    <2>4. Last(attempts'[i]) = [worker |-> r, status |-> "running"] /\ attempts'[i] # << >>
      BY <1>0, <2>2, <2>3 DEF Last
    <2> QED
      BY <2>1, <2>4 DEF Claims
  <1>2. CASE item[i].status = "running"
    <2>1. /\ attempts[i] # << >>
          /\ Last(attempts[i]).status = "running"
          /\ \/ item[i].owner = Last(attempts[i]).worker
             \/ i \in TaskRecorders \cap InlineItems /\ item[i].owner = Relabel
      BY <1>2 DEF WorkInv, RunningIsClaimed
    <2>2. ClaimsOrNot(i) /\ RunsOn(i)
      BY ClaimsOrNotStep, RunsOnStep
    <2>3. Len(attempts[i]) \in 1..Len(attempts[i]) /\ Len(attempts'[i]) = Len(attempts[i])
      BY <1>0, <1>2, <2>1, <2>2 DEF ClaimsOrNot
    <2>4. Last(attempts'[i]).worker = Last(attempts[i]).worker
      BY <2>2, <2>3 DEF ClaimsOrNot, Last
    <2>5. attempts'[i] # << >>
      BY <1>0, <2>3
    <2>6. Last(attempts'[i]).status = "running"
      <3>1. CASE attempts'[i] = attempts[i]
        BY <2>1, <3>1
      <3>2. ASSUME NEW W, NEW status \in {"failed", "timed_out"}, ClosesRunningOf(W, status)
            PROVE  Last(attempts'[i]).status = "running"
        <4>1. \/ attempts'[i] = attempts[i]
              \/ /\ attempts'[i] = CloseRunning(attempts[i], W, status)
                 /\ Last(attempts[i]).worker \notin W
          BY <3>2 DEF ClosesRunningOf
        <4>2. LET closed == CloseRunning(attempts[i], W, status)
              IN closed[Len(attempts[i])].status =
                   IF /\ attempts[i][Len(attempts[i])].status = "running"
                      /\ attempts[i][Len(attempts[i])].worker \in W
                   THEN status ELSE attempts[i][Len(attempts[i])].status
          BY <1>0, <2>3, CloseRunningFacts DEF Verdicts
        <4> QED
          BY <2>1, <2>3, <3>1, <4>1, <4>2 DEF Last
      <3>3. ASSUME NEW r \in Runners, NEW status \in Verdicts, Closes(r, status)
            PROVE  Last(attempts'[i]).status = "running"
        <4>1. CASE i # runner[r].item
          BY <1>0, <3>1, <3>3, <4>1 DEF Closes, TypeOK
        <4>2. CASE i = runner[r].item
          <5>1. runner[r].attempt # Len(attempts[i])
            <6>1. status # "running"
              BY DEF Verdicts
            <6> QED
              BY <1>2, <3>3, <4>2, <6>1 DEF Closes, WorkInv, LoadedRunning
          <5>2. attempts'[i] = CloseAttempt(attempts[i], runner[r].attempt, status)
            BY <1>0, <3>3, <4>2 DEF Closes, TypeOK
          <5>3. CloseAttempt(attempts[i], runner[r].attempt, status)[Len(attempts[i])].status
                = attempts[i][Len(attempts[i])].status
            BY <1>0, <2>3, <5>1, CloseAttemptFacts
          <5> QED
            BY <2>1, <2>3, <5>2, <5>3 DEF Last
        <4> QED
          BY <4>1, <4>2
      <3>4. ASSUME NEW r \in Runners, NEW j \in Items, Claims(r, j) PROVE attempts'[i] = attempts[i]
        BY <1>0, <1>2, <3>4 DEF Claims, TypeOK
      <3> QED
        BY <3>1, <3>2, <3>3, <3>4, StepKinds DEF StepKind, Quiet, Recovers
    <2> QED
      BY <1>2, <2>1, <2>2, <2>4, <2>5, <2>6 DEF RunsOn
  <1> QED
    BY <1>1, <1>2

(* Which attempts are succeeded, of an item that nobody records but the      *)
(* engine: those that were.                                                  *)
LEMMA SucceededKept ==
  ASSUME WorkInv, [Next]_vars, NEW i \in Items, NEW k \in 1..Len(attempts[i]),
         attempts[i][k].status = "succeeded"
  PROVE  \/ attempts'[i][k].status = "succeeded"
         \/ i \in SelfRecording /\ item'[i].status = attempts'[i][k].status
  <1>1. VerdictKept(i, k)
    BY VerdictStep
  <1>2. ASSUME NEW r \in Runners, Holds(r), runner[r].item = i, runner[r].attempt = k
        PROVE  runner[r].pc # "loaded" /\ i \in SelfRecording
    BY <1>2 DEF WorkInv, HoldersOwnAttempts, OwnsAttempt
  <1> QED
    BY <1>1, <1>2 DEF VerdictKept

(* Every step keeps SucceededHasAttempt. *)
LEMMA SucceededHasAttemptStep == WorkInv /\ [Next]_vars => SucceededHasAttempt'
  <1> SUFFICES ASSUME WorkInv, [Next]_vars, NEW i \in Items, item'[i].status = "succeeded"
               PROVE  \E k \in DOMAIN attempts'[i] : attempts'[i][k].status = "succeeded"
    BY DEF SucceededHasAttempt
  <1>1. /\ attempts[i] \in Seq(Attempt) /\ attempts'[i] \in Seq(Attempt) /\ ClaimsOrNot(i)
    BY TypeStep, ClaimsOrNotStep DEF WorkInv, TypeOK
  <1>2. \A k \in 1..Len(attempts[i]) : k \in DOMAIN attempts'[i]
    BY <1>1 DEF ClaimsOrNot
  <1>3. \E k \in 1..Len(attempts[i]) : attempts'[i][k].status = "succeeded"
    <2>1. CASE item[i].status = "succeeded"
      <3>1. PICK k \in 1..Len(attempts[i]) : attempts[i][k].status = "succeeded"
        BY <1>1, <2>1 DEF WorkInv, SucceededHasAttempt
      <3> QED
        BY <3>1, SucceededKept
    <2>2. CASE item[i].status # "succeeded"
      BY <2>2, SucceedsStep
    <2> QED
      BY <2>1, <2>2
  <1> QED
    BY <1>2, <1>3

(* Every step keeps StartedAfterUpstream. *)
LEMMA StartedAfterUpstreamStep == WorkInv /\ [Next]_vars => StartedAfterUpstream'
  <1> SUFFICES ASSUME WorkInv, [Next]_vars, NEW i \in Items \ InlineItems, attempts'[i] # << >>,
                      NEW u \in Upstream[i] \ SelfRecording
               PROVE  \E k \in DOMAIN attempts'[u] : attempts'[u][k].status = "succeeded"
    BY DEF StartedAfterUpstream
  <1>0. TypeOK /\ u \in Items
    BY UpstreamAssumption DEF WorkInv
  <1>1. \E k \in DOMAIN attempts[u] : attempts[u][k].status = "succeeded"
    <2>1. CASE attempts[i] # << >>
      BY <2>1 DEF WorkInv, StartedAfterUpstream
    <2>2. CASE attempts[i] = << >>
      <3>1. attempts'[i] \in Seq(Attempt) /\ ClaimsOrNot(i)
        BY TypeStep, ClaimsOrNotStep DEF WorkInv, TypeOK
      <3>2. item'[i].status = "running" /\ item[i].status # "running"
        BY <2>2, <3>1 DEF ClaimsOrNot
      <3>3. PICK r \in Runners : Claims(r, i)
        BY <3>2, ClaimedBy
      <3>4. item[u].status = "succeeded"
        BY <3>3 DEF Claims, DependenciesSatisfied
      <3> QED
        BY <1>0, <3>4 DEF WorkInv, SucceededHasAttempt
    <2> QED
      BY <2>1, <2>2
  <1>2. /\ attempts[u] \in Seq(Attempt) /\ attempts'[u] \in Seq(Attempt) /\ ClaimsOrNot(u)
    BY <1>0, TypeStep, ClaimsOrNotStep DEF WorkInv, TypeOK
  <1>3. PICK k \in 1..Len(attempts[u]) : attempts[u][k].status = "succeeded"
    BY <1>1, <1>2
  <1>4. attempts'[u][k].status = "succeeded"
    BY <1>0, <1>3, SucceededKept
  <1>5. k \in DOMAIN attempts'[u]
    BY <1>2, <1>3 DEF ClaimsOrNot
  <1> QED
    BY <1>4, <1>5

(* The strengthened invariant holds initially. *)
LEMMA WorkInvInit == Init => WorkInv
  <1> SUFFICES ASSUME Init PROVE WorkInv
    OBVIOUS
  <1>1. \A r \in Runners : runner[r].pc = "starting"
    BY DEF Init, At
  <1>2. \A i \in Items : item[i].status = "pending" /\ attempts[i] = << >>
    BY DEF Init, NewRow
  <1>3. \A c \in Operators : request[c].op = "none"
    BY DEF Init, NoRequest
  <1>4. ApiRecoversFirst
    BY <1>1, <1>2 DEF ApiRecoversFirst, Runners
  <1>5. HoldersOwnAttempts /\ LoadedRunning /\ RequestsPending
    BY <1>1, <1>3 DEF HoldersOwnAttempts, LoadedRunning, RequestsPending, Holds
  <1>6. RunningHoldsLease /\ RunningIsClaimed /\ SucceededHasAttempt /\ StartedAfterUpstream
    BY <1>2 DEF RunningHoldsLease, RunningIsClaimed, SucceededHasAttempt, StartedAfterUpstream
  <1> QED
    BY <1>4, <1>5, <1>6, TypeInit DEF WorkInv

(* The strengthened invariant is inductive. *)
LEMMA WorkInvStep == WorkInv /\ [Next]_vars => WorkInv'
  BY TypeStep, HoldersStep, LoadedStep, RequestsStep, ApiRecoversFirstStep,
     RunningHoldsLeaseStep, RunningIsClaimedStep, SucceededHasAttemptStep,
     StartedAfterUpstreamStep
  DEF WorkInv

----------------------------------------------------------------------------
(* Theorems *)

(* The inductive invariant holds in every reachable state.                   *)
THEOREM Invariance == Spec => []WorkInv
  BY WorkInvInit, WorkInvStep, PTL DEF Spec

(* The tables keep the types of their columns.                               *)
THEOREM TypeCorrect == Spec => []TypeOK
  <1>1. WorkInv => TypeOK
    BY DEF WorkInv
  <1> QED
    BY <1>1, Invariance, PTL

(* No interleaving of stale writers leaves a running item without an owner   *)
(* or an expiry, out of the reach of lease recovery.                         *)
THEOREM RunningHoldsLeaseAlways == Spec => []RunningHoldsLease
  <1>1. WorkInv => RunningHoldsLease
    BY DEF WorkInv
  <1> QED
    BY <1>1, Invariance, PTL

(* A running item always runs under its newest attempt, which is open and    *)
(* belongs to the lease's owner.                                             *)
THEOREM RunningIsClaimedAlways == Spec => []RunningIsClaimed
  <1>1. WorkInv => RunningIsClaimed
    BY DEF WorkInv
  <1> QED
    BY <1>1, Invariance, PTL

(* An item is never succeeded without an attempt that is.                    *)
THEOREM SucceededHasAttemptAlways == Spec => []SucceededHasAttempt
  <1>1. WorkInv => SucceededHasAttempt
    BY DEF WorkInv
  <1> QED
    BY <1>1, Invariance, PTL

(* No worker item starts before what it depends on has succeeded once.       *)
THEOREM StartedAfterUpstreamAlways == Spec => []StartedAfterUpstream
  <1>1. WorkInv => StartedAfterUpstream
    BY DEF WorkInv
  <1> QED
    BY <1>1, Invariance, PTL

(* What the engine alone records, no recovery and no late or second          *)
(* completion rewrites.                                                      *)
THEOREM SucceededAttemptIsFinalAlways == Spec => SucceededAttemptIsFinal
  <1> DEFINE Final == \A i \in Items \ SelfRecording : \A k \in DOMAIN attempts[i] :
               attempts[i][k].status = "succeeded" => attempts'[i][k].status = "succeeded"
  <1>1. WorkInv /\ [Next]_vars => [Final]_vars
    <2> SUFFICES ASSUME WorkInv, [Next]_vars, NEW i \in Items \ SelfRecording,
                        NEW k \in DOMAIN attempts[i], attempts[i][k].status = "succeeded"
                 PROVE  attempts'[i][k].status = "succeeded"
      OBVIOUS
    <2>1. k \in 1..Len(attempts[i])
      BY DEF WorkInv, TypeOK
    <2> QED
      BY <2>1, SucceededKept
  <1>2. Spec => [][Final]_vars
    BY <1>1, Invariance, PTL DEF Spec
  <1> QED
    BY <1>2 DEF SucceededAttemptIsFinal

----------------------------------------------------------------------------
(* The work tables implement the claim board *)

holderOf == [i \in Items |->
  IF item[i].status = "running" THEN Last(attempts[i]).worker ELSE None]
grantsOf == [i \in Items |-> Len(attempts[i])]

(* A claim is a grant of the claim board. *)
LEMMA GrantStep ==
  ASSUME WorkInv, [Next]_vars, NEW r \in Runners, NEW i \in Items, Claims(r, i)
  PROVE  Board!Grant(i, r)
  <1>0. TypeOK /\ attempts[i] \in Seq(Attempt)
    BY DEF WorkInv, TypeOK
  <1>1. attempts' = [attempts EXCEPT ![i] = OpenAttempt(attempts[i], r)]
    BY DEF Claims
  <1>2. /\ Len(OpenAttempt(attempts[i], r)) = Len(attempts[i]) + 1
        /\ OpenAttempt(attempts[i], r)[Len(attempts[i]) + 1] = [worker |-> r, status |-> "running"]
    BY <1>0, OpenAttemptFacts
  <1>3. Len(attempts'[i]) = Len(attempts[i]) + 1 /\ Last(attempts'[i]).worker = r
    BY <1>0, <1>1, <1>2 DEF TypeOK, Last
  <1>4. holderOf[i] = None
    BY DEF holderOf, Claims
  <1>5. holderOf'[i] = r /\ grantsOf'[i] = grantsOf[i] + 1
    BY <1>3 DEF holderOf, grantsOf, Claims
  <1>6. ASSUME NEW j \in Items, j # i PROVE holderOf'[j] = holderOf[j] /\ grantsOf'[j] = grantsOf[j]
    <2>1. attempts'[j] = attempts[j]
      BY <1>0, <1>1, <1>6 DEF TypeOK
    <2>2. item'[j].status = "running" <=> item[j].status = "running"
      BY <1>6 DEF Claims
    <2> QED
      BY <2>1, <2>2 DEF holderOf, grantsOf
  <1>7. holderOf' = [holderOf EXCEPT ![i] = r]
    BY <1>5, <1>6 DEF holderOf
  <1>8. grantsOf' = [grantsOf EXCEPT ![i] = grantsOf[i] + 1]
    BY <1>5, <1>6 DEF grantsOf
  <1> QED
    BY <1>4, <1>7, <1>8 DEF Board!Grant, holderOf, grantsOf

Stopped == {i \in Items : item[i].status = "running" /\ item'[i].status # "running"}

(* A step that claims nothing releases the items that stop running, and no other. *)
LEMMA ReleaseStep ==
  ASSUME WorkInv, [Next]_vars, \A r \in Runners, i \in Items : ~ Claims(r, i)
  PROVE  Board!Release(Stopped)
  <1>0. TypeOK
    BY DEF WorkInv
  <1>1. ASSUME NEW i \in Items PROVE Len(attempts'[i]) = Len(attempts[i])
    BY ClaimsOrNotStep, ClaimedBy DEF ClaimsOrNot
  <1>2. ASSUME NEW i \in Items, item'[i].status = "running"
        PROVE  item[i].status = "running" /\ Last(attempts'[i]).worker = Last(attempts[i]).worker
    <2>1. item[i].status = "running"
      BY <1>2, ClaimedBy
    <2>2. attempts[i] \in Seq(Attempt) /\ attempts[i] # << >> /\ ClaimsOrNot(i)
      BY <1>0, <2>1, ClaimsOrNotStep DEF WorkInv, RunningIsClaimed, TypeOK
    <2>3. Len(attempts[i]) \in 1..Len(attempts[i])
      BY <2>2
    <2> QED
      BY <1>1, <2>1, <2>2, <2>3 DEF ClaimsOrNot, Last
  <1>3. ASSUME NEW i \in Stopped PROVE holderOf[i] # None
    <2>1. i \in Items /\ item[i].status = "running"
      BY DEF Stopped
    <2>2. attempts[i] \in Seq(Attempt) /\ attempts[i] # << >>
      BY <1>0, <2>1 DEF WorkInv, RunningIsClaimed, TypeOK
    <2>3. Last(attempts[i]) \in Attempt
      BY <2>2 DEF Last
    <2> QED
      BY <2>1, <2>3, NullAssumption DEF holderOf, Attempt
  <1>4. holderOf' = [i \in Items |-> IF i \in Stopped THEN None ELSE holderOf[i]]
    BY <1>2 DEF holderOf, Stopped
  <1>5. grantsOf' = grantsOf
    BY <1>1 DEF grantsOf
  <1> QED
    BY <1>3, <1>4, <1>5 DEF Board!Release, holderOf, grantsOf

(* Whoever writes the two tables, and however stale, a claim is granted only *)
(* to an item nobody holds, and by exactly one new attempt.                  *)
THEOREM ClaimsImplementBoard == Spec => ClaimsAreExclusive
  <1>1. Init => Board!Init
    BY DEF Init, NewRow, Board!Init
  <1>2. WorkInv /\ [Next]_vars => [Board!Next]_(Board!boardVars)
    <2> SUFFICES ASSUME WorkInv, [Next]_vars PROVE Board!Next
      OBVIOUS
    <2>1. CASE \E r \in Runners, i \in Items : Claims(r, i)
      BY <2>1, GrantStep DEF Board!Next
    <2>2. CASE \A r \in Runners, i \in Items : ~ Claims(r, i)
      <3>1. PICK S : S = Stopped
        OBVIOUS
      <3>2. S \in SUBSET Items
        BY <3>1 DEF Stopped
      <3>3. Board!Release(Stopped)
        BY <2>2, ReleaseStep
      <3>4. Board!Release(S)
        BY <3>1, <3>3 DEF Board!Release
      <3> QED
        BY <3>2, <3>4 DEF Board!Next
    <2> QED
      BY <2>1, <2>2
  <1> QED
    BY <1>1, <1>2, Invariance, PTL DEF Spec, ClaimsAreExclusive, Board!Spec
=============================================================================
