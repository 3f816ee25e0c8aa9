---------------------- MODULE WorkflowCoordinatorProofs ----------------------
(***************************************************************************)
(* Proofs about WorkflowCoordinator: what any number of coordinators keep  *)
(* although no write of theirs is fenced.  A step may rerun, fail or       *)
(* cancel an item, but it never deletes one and never takes back a result, *)
(* so that whatever a coordinator has read binds it still when it writes.  *)
(***************************************************************************)
EXTENDS WorkflowCoordinator, TLAPS

(* N is a stage, and every stage of every workflow has an item. *)
LEMMA StageItems ==
  /\ N \in Stages
  /\ \A w \in Workflows, s \in Stages : ItemOf[w][s] \in Items
BY StageAssumption DEF Stages, Items

(* An item belongs to one stage. *)
LEMMA StageOfItem ==
  ASSUME NEW w \in Workflows, NEW s \in Stages
  PROVE  StageOf(ItemOf[w][s]) = s
<1> DEFINE i == ItemOf[w][s]
           P(u) == \E v \in Workflows : ItemOf[v][u] = i
<1>1. P(s)
  OBVIOUS
<1>2. \A u \in Stages : P(u) => u = s
  BY ItemAssumption
<1>3. (CHOOSE u \in Stages : P(u)) \in Stages /\ P(CHOOSE u \in Stages : P(u))
  BY <1>1
<1> QED BY <1>2, <1>3 DEF StageOf

(* Items are never deleted, results never taken back. *)
Grows ==
  /\ produced \subseteq produced'
  /\ \A i \in Items : item[i].status # "absent" => item'[i].status # "absent"

(* A step that touches no item keeps the facts about items. *)
LEMMA KeptItems ==
  ASSUME FlowInv, UNCHANGED <<item, produced>>
  PROVE  ItemFacts' /\ CreatedAfterUpstream' /\ Grows
BY DEF FlowInv, ItemFacts, CreatedAfterUpstream, Grows, Usable

(* A step that writes one row of work_items keeps them, if the row has a     *)
(* usable result only with produced, an outcome only before the last stage,  *)
(* and is created only after the stages before it.                           *)
LEMMA KeptItem ==
  ASSUME FlowInv, NEW i \in Items, NEW row \in Item,
         item' = [item EXCEPT ![i] = row],
         produced \subseteq produced', produced' \subseteq produced \cup {i},
         row.status # "absent",
         Usable(row) => i \in produced',
         \A w \in Workflows : ItemOf[w][N] = i => row.outcome = "null",
         item[i].status = "absent" =>
           \A w \in Workflows, s, t \in Stages :
             ItemOf[w][s] = i /\ t < s => ItemOf[w][t] \in produced'
  PROVE  ItemFacts' /\ CreatedAfterUpstream' /\ Grows /\ item' \in [Items -> Item]
<1>1. item \in [Items -> Item] /\ item' \in [Items -> Item] /\ item'[i] = row
      /\ \A j \in Items \ {i} : item'[j] = item[j]
  BY DEF FlowInv, TypeOK
<1>2. Grows
  BY <1>1 DEF Grows
<1>3. ItemFacts'
  <2>1. \A j \in Items : Usable(item[j])' => j \in produced'
    BY <1>1 DEF FlowInv, ItemFacts, Usable
  <2>2. \A j \in produced' : item'[j].status # "absent"
    BY <1>1 DEF FlowInv, TypeOK, ItemFacts
  <2>3. \A w \in Workflows : item'[ItemOf[w][N]].outcome = "null"
    BY <1>1, StageItems DEF FlowInv, ItemFacts
  <2> QED BY <2>1, <2>2, <2>3 DEF ItemFacts
<1>4. CreatedAfterUpstream'
  <2> SUFFICES ASSUME NEW w \in Workflows, NEW s \in Stages, NEW t \in Stages,
                      t < s, item'[ItemOf[w][s]].status # "absent"
               PROVE  ItemOf[w][t] \in produced'
    BY DEF CreatedAfterUpstream
  <2>1. CASE item[ItemOf[w][s]].status # "absent"
    BY <2>1 DEF FlowInv, CreatedAfterUpstream
  <2>2. CASE item[ItemOf[w][s]].status = "absent"
    <3>1. ItemOf[w][s] = i
      BY <1>1, <2>2, StageItems
    <3> QED BY <2>2, <3>1
  <2> QED BY <2>1, <2>2
<1> QED BY <1>1, <1>2, <1>3, <1>4

(* What a coordinator knows stays true while it does nothing. *)
LEMMA KeptCoord ==
  ASSUME FlowInv, Grows, NEW c \in Coordinators, coord'[c] = coord[c]
  PROVE  CoordFacts(c)'
<1>1. CoordFacts(c)
  BY DEF FlowInv
<1>2. coord[c].run \in Workflows => LastItem(c) \in Items /\ LastItem(c)' = LastItem(c)
  BY StageItems DEF LastItem
<1>3. coord[c].run \in Workflows /\ coord[c].stage \in Stages /\ SeenFacts(coord[c])
        => SeenFacts(coord[c])'
  BY StageItems DEF SeenFacts, Grows
<1> QED BY <1>1, <1>2, <1>3 DEF CoordFacts, Grows

(* A coordinator that has let go of its workflow knows nothing. *)
LEMMA FreeCoord ==
  ASSUME NEW c \in Coordinators, coord'[c].pc \in {"down", "starting", "idle"}
  PROVE  CoordFacts(c)'
BY DEF CoordFacts

(* Steps that record nothing. *)
LEMMA KeptSteps ==
  ASSUME FlowInv, Grows, step' = step
  PROVE  StepFacts'
BY StageItems DEF FlowInv, StepFacts, Grows

(* Executions of items that exist. *)
LEMMA KeptDoing ==
  ASSUME FlowInv, Grows,
         \A i \in Items : doing'[i] > 0 => doing[i] > 0 \/ (item'[i].status # "absent" /\ ~ Inline(i))
  PROVE  DoingFacts'
BY DEF FlowInv, DoingFacts, Grows

(* Steps that conclude nothing. *)
LEMMA KeptRuns ==
  ASSUME FlowInv, Grows,
         \A w \in Workflows : run'[w].status = "succeeded" =>
           run[w].status = "succeeded" \/ ItemOf[w][N] \in produced'
  PROVE  RunFacts'
BY DEF FlowInv, RunFacts, Grows
----------------------------------------------------------------------------
(* Types of what the actions write *)

(* The rows that the repositories write are rows. *)
LEMMA RowTypes ==
  /\ \A row \in Item : Reset(row) \in Item /\ Starts(row) \in Item
  /\ \A row \in Item, v \in {"succeeded"} \cup Failures, o \in {"null", "no_transcript"} :
       Ends(row, v, o) \in Item
  /\ NewItem \in Item /\ NoItem \in Item
  /\ \A row \in Run, seen \in Run, new \in Run : OrmWrite(row, seen, new) \in Run
  /\ NoRun \in Run /\ RecoveredRun(NoRun) \in Run
<1>1. \A row \in Item : Reset(row) \in Item /\ Starts(row) \in Item
  <2>1. \A row \in Item : Reset(row) \in Item
    BY DEF Item, Reset, Failures
  <2>2. \A row \in Item : Starts(row) \in Item
    <3> TAKE row \in Item
    <3>1. row.tries + 1 \in Nat
      BY DEF Item
    <3>2. \A k \in Nat : [row EXCEPT !.status = "running", !.tries = k] \in Item
      BY DEF Item
    <3> QED BY <3>1, <3>2 DEF Starts
  <2> QED BY <2>1, <2>2
<1>2. \A row \in Item, v \in {"succeeded"} \cup Failures, o \in {"null", "no_transcript"} :
        Ends(row, v, o) \in Item
  BY DEF Item, Ends, Failures
<1>3. NewItem \in Item /\ NoItem \in Item
  BY DEF NewItem, NoItem, Item
<1>4. \A row \in Run, seen \in Run, new \in Run : OrmWrite(row, seen, new) \in Run
  BY DEF OrmWrite, Run
<1>5. NoRun \in Run /\ RecoveredRun(NoRun) \in Run
  BY DEF NoRun, RecoveredRun, Run, Leases
<1> QED BY <1>1, <1>2, <1>3, <1>4, <1>5

(* So is the state of a coordinator that starts over. *)
LEMMA AtType ==
  ASSUME NEW pc \in {"down", "starting", "idle", "advance", "inline", "publishing"}
  PROVE  At(pc) \in Coordinator
BY RowTypes, StageAssumption DEF At, Coordinator, StepStatus

(* And of one that is given a workflow. *)
LEMMA GivenRun ==
  ASSUME NEW k \in Coordinator, NEW w \in Workflows, NEW n \in 0..N
  PROVE  LET g == [k EXCEPT !.run = w, !.left = n]
         IN g \in Coordinator /\ g.pc = k.pc /\ g.run = w
BY DEF Coordinator

(* How an execution may end. *)
LEMMA EndingType ==
  ASSUME NEW s, NEW v, Ending(s, v)
  PROVE  v \in {"succeeded", "failed", "timed_out"}
BY OptionAssumption DEF Ending

(* What _ensure_stage_item returns for a stage, and what it leaves in the    *)
(* table, when it does not raise.                                            *)
LEMMA StageWrite ==
  ASSUME FlowInv, NEW c \in Coordinators, coord[c].pc = "write", coord[c].stage \in Stages,
         coord[c].step = "none" => coord[c].ready
  PROVE  LET w == coord[c].run
             s == coord[c].stage
             i == ItemOf[w][s]
             got == StageItem(c)
             row == StageRow(c)
         IN /\ w \in Workflows /\ i \in Items
            /\ got \in Item /\ row \in Item
            /\ got.status # "absent" /\ row.status # "absent"
            /\ Usable(got) => i \in produced
            /\ Usable(row) => i \in produced
            /\ s = N => got.outcome = "null" /\ row.outcome = "null"
            /\ item[i].status = "absent" /\ s > 1 => ItemOf[w][s - 1] \in produced
<1> DEFINE w == coord[c].run
           s == coord[c].stage
           i == ItemOf[w][s]
           seen == coord[c].item
           got == StageItem(c)
           row == StageRow(c)
<1>1. w \in Workflows /\ i \in Items /\ SeenFacts(coord[c])
  BY StageItems DEF FlowInv, CoordFacts
<1>2. seen \in Item /\ item[i] \in Item
  BY <1>1 DEF FlowInv, TypeOK, Coordinator
<1>3. Usable(item[i]) => i \in produced
  BY <1>1 DEF FlowInv, ItemFacts
<1>4. s = N => item[i].outcome = "null" /\ seen.outcome = "null"
  BY <1>1 DEF FlowInv, ItemFacts, SeenFacts
<1>5. /\ seen.status # "absent" => item[i].status # "absent"
      /\ Usable(seen) => i \in produced
      /\ item[i].status = "absent" /\ s > 1 => ItemOf[w][s - 1] \in produced
  BY <1>1 DEF SeenFacts
<1> HIDE DEF w, s, i, seen
<1>6. CASE Retries(c)
  <2>1. seen.status \in {"failed", "timed_out", "blocked"}
    BY <1>6 DEF Retries, seen
  <2>2. got = Reset(seen)
    BY <1>6, <2>1 DEF StageItem, seen
  <2>3. row = IF seen.status = "blocked" THEN Reset(item[i]) ELSE [item[i] EXCEPT !.status = "pending"]
    BY <1>6, <2>1 DEF StageRow, seen, i, w, s
  <2>4. got \in Item /\ got.status = "pending" /\ got.outcome = "null"
    BY <1>2, <2>2 DEF Reset, Item
  <2>5. row \in Item /\ row.status = "pending" /\ row.outcome \in {"null", item[i].outcome}
    BY <1>2, <2>3 DEF Reset, Item
  <2> QED BY <1>1, <1>4, <1>5, <2>4, <2>5 DEF Usable, w, s, i
<1>7. CASE ~ Retries(c) /\ seen.status = "absent" /\ item[i].status = "absent"
  <2>1. got = NewItem /\ row = NewItem
    BY <1>7 DEF StageItem, StageRow, seen, i, w, s
  <2>2. NewItem \in Item /\ NewItem.status = "pending" /\ NewItem.outcome = "null"
    BY RowTypes DEF NewItem, NoItem
  <2> QED BY <1>1, <1>5, <2>1, <2>2 DEF Usable, w, s, i
<1>8. CASE ~ Retries(c) /\ seen.status = "absent" /\ item[i].status # "absent"
  <2>1. got = item[i] /\ row = item[i]
    BY <1>8 DEF StageItem, StageRow, seen, i, w, s
  <2> QED BY <1>1, <1>2, <1>3, <1>4, <1>8, <2>1 DEF w, s, i
<1>9. CASE ~ Retries(c) /\ seen.status # "absent"
  <2>1. got = seen /\ row = item[i]
    BY <1>9 DEF StageItem, StageRow, seen, i, w, s
  <2> QED BY <1>1, <1>2, <1>3, <1>4, <1>5, <1>9, <2>1 DEF w, s, i
<1> QED BY <1>6, <1>7, <1>8, <1>9
----------------------------------------------------------------------------
(* The steps *)

(* Steps of a workflow's row that claim or release it. *)
LEMMA RunSteps ==
  ASSUME FlowInv, NEW w \in Workflows, Start(w) \/ RunLeaseExpires(w)
  PROVE  FlowInv'
<1>1. UNCHANGED <<step, item, doing, coord, produced, commands, crashes>>
  BY DEF Start, RunLeaseExpires
<1>2. ItemFacts' /\ CreatedAfterUpstream' /\ Grows
  BY <1>1, KeptItems
<1>3. run' \in [Workflows -> Run]
  <2>1. run[w] \in Run /\ run \in [Workflows -> Run]
    BY DEF FlowInv, TypeOK
  <2>2. CASE Start(w)
    <3>1. [run[w] EXCEPT !.status = "pending"] \in Run
      BY <2>1 DEF Run
    <3>2. run' = [run EXCEPT ![w] = [run[w] EXCEPT !.status = "pending"]]
      BY <2>2 DEF Start
    <3> QED BY <2>1, <3>1, <3>2
  <2>3. CASE RunLeaseExpires(w)
    <3>1. [run[w] EXCEPT !.lease = "expired"] \in Run
      BY <2>1 DEF Run, Leases
    <3>2. run' = [run EXCEPT ![w] = [run[w] EXCEPT !.lease = "expired"]]
      BY <2>3 DEF RunLeaseExpires
    <3> QED BY <2>1, <3>1, <3>2
  <2> QED BY <2>2, <2>3
<1>4. RunFacts'
  <2>1. /\ run[w] \in Run /\ run'[w].status \in {run[w].status, "pending"}
        /\ \A v \in Workflows \ {w} : run'[v] = run[v]
    BY DEF FlowInv, TypeOK, Start, RunLeaseExpires, Run
  <2> QED BY <1>2, <2>1, KeptRuns
<1>5. StepFacts' /\ DoingFacts' /\ \A c \in Coordinators : CoordFacts(c)'
  BY <1>1, <1>2, KeptSteps, KeptDoing, KeptCoord
<1>6. TypeOK'
  BY <1>1, <1>3 DEF FlowInv, TypeOK
<1> QED BY <1>2, <1>4, <1>5, <1>6 DEF FlowInv

(* Steps that only change what one coordinator is doing. *)
LEMMA CoordStep ==
  ASSUME FlowInv, NEW c \in Coordinators, NEW k \in Coordinator,
         coord' = [coord EXCEPT ![c] = k], CoordFacts(c)',
         UNCHANGED <<run, step, item, doing, produced, commands>>, crashes' \in Nat
  PROVE  FlowInv'
<1>1. ItemFacts' /\ CreatedAfterUpstream' /\ Grows
  BY KeptItems
<1>2. StepFacts' /\ RunFacts' /\ DoingFacts'
  BY <1>1, KeptSteps, KeptRuns, KeptDoing
<1>3. \A d \in Coordinators : CoordFacts(d)'
  <2> TAKE d \in Coordinators
  <2>1. d # c => coord'[d] = coord[d]
    BY DEF FlowInv, TypeOK
  <2> QED BY <1>1, <2>1, KeptCoord
<1>4. TypeOK'
  BY DEF FlowInv, TypeOK
<1> QED BY <1>1, <1>2, <1>3, <1>4 DEF FlowInv

(* A coordinator ends, starts, or gives up. *)
LEMMA FreeSteps ==
  ASSUME FlowInv, NEW c \in Coordinators,
         Crash(c) \/ Restart(c) \/ AdvanceExceeded(c) \/ AdvanceRaises(c)
  PROVE  FlowInv'
<1>1. UNCHANGED <<run, step, item, doing, produced, commands>>
      /\ crashes' \in Nat
  BY DEF FlowInv, TypeOK, Crash, Restart, AdvanceExceeded, AdvanceRaises
<1>2. PICK pc \in {"down", "starting"} : coord' = [coord EXCEPT ![c] = At(pc)]
  BY DEF Crash, Restart, AdvanceExceeded, AdvanceRaises, Dies
<1>3. At(pc) \in Coordinator /\ At(pc).pc = pc
  BY AtType DEF At
<1>4. coord'[c].pc \in {"down", "starting", "idle"}
  BY <1>2, <1>3 DEF FlowInv, TypeOK
<1>5. CoordFacts(c)'
  BY <1>4, FreeCoord
<1> QED BY <1>1, <1>2, <1>3, <1>5, CoordStep

(* recover_expired: running items may time out, running workflows wait. *)
LEMMA RecoverStep ==
  ASSUME FlowInv, NEW c \in Coordinators, RecoverExpired(c)
  PROVE  FlowInv'
<1>1. PICK lost \in SUBSET {i \in Items : item[i].status = "running"} :
        item' = [i \in Items |-> IF i \in lost THEN Ends(item[i], "timed_out", "null") ELSE item[i]]
  BY DEF RecoverExpired
<1>2. UNCHANGED <<step, doing, produced, commands, crashes>> /\ coord' = [coord EXCEPT ![c] = At("idle")]
      /\ run' = [w \in Workflows |-> IF Expired(run[w]) THEN RecoveredRun(run[w]) ELSE run[w]]
  BY DEF RecoverExpired
<1>3. \A i \in Items : item[i] \in Item
  BY DEF FlowInv, TypeOK
<1>4. \A i \in Items :
        /\ item'[i] \in Item /\ item'[i].outcome = item[i].outcome
        /\ item'[i].status \in {item[i].status, "timed_out"}
        /\ item[i].status = "absent" => item'[i].status = "absent"
  BY <1>1, <1>3 DEF Ends, Item, Failures
<1>5. Grows
  BY <1>2, <1>4 DEF Grows
<1>6. ItemFacts'
  <2>1. \A i \in Items : Usable(item[i])' => Usable(item[i])
    BY <1>4 DEF Usable
  <2>2. produced \subseteq Items /\ produced' = produced
    BY <1>2 DEF FlowInv, TypeOK
  <2>3. \A w \in Workflows : item'[ItemOf[w][N]].outcome = "null"
    BY <1>4, StageItems DEF FlowInv, ItemFacts
  <2> QED BY <1>5, <2>1, <2>2, <2>3 DEF FlowInv, ItemFacts, Grows
<1>7. CreatedAfterUpstream'
  BY <1>2, <1>4, StageItems DEF FlowInv, CreatedAfterUpstream
<1>8. StepFacts' /\ DoingFacts'
  BY <1>2, <1>5, KeptSteps, KeptDoing
<1>9. \A w \in Workflows : run[w] \in Run /\ run'[w] \in Run
        /\ (run'[w].status = "succeeded" => run[w].status = "succeeded")
  BY <1>2, RowTypes DEF FlowInv, TypeOK, RecoveredRun
<1>10. RunFacts'
  BY <1>5, <1>9, KeptRuns
<1>11. coord' \in [Coordinators -> Coordinator] /\ coord'[c].pc = "idle"
       /\ \A d \in Coordinators \ {c} : coord'[d] = coord[d]
  <2>1. At("idle") \in Coordinator /\ At("idle").pc = "idle"
    BY AtType DEF At
  <2> QED BY <1>2, <2>1 DEF FlowInv, TypeOK
<1>12. \A d \in Coordinators : CoordFacts(d)'
  BY <1>5, <1>11, KeptCoord, FreeCoord
<1>13. TypeOK'
  <2>1. item' \in [Items -> Item]
    BY <1>1, <1>4
  <2>2. run' \in [Workflows -> Run]
    BY <1>2, <1>9
  <2> QED BY <1>2, <1>11, <2>1, <2>2 DEF FlowInv, TypeOK
<1> QED BY <1>6, <1>7, <1>8, <1>10, <1>12, <1>13 DEF FlowInv

(* Claiming takes a workflow that has not ended. *)
LEMMA ClaimStep ==
  ASSUME FlowInv, NEW c \in Coordinators, NEW w \in Workflows, Claim(c, w)
  PROVE  FlowInv'
<1> DEFINE k == [At("advance") EXCEPT !.run = w, !.left = N]
<1>1. UNCHANGED <<step, item, doing, produced, commands, crashes>> /\ coord' = [coord EXCEPT ![c] = k]
      /\ run' = [run EXCEPT ![w] = [status |-> "running", owner |-> c, lease |-> "live"]]
  BY DEF Claim
<1>2. ItemFacts' /\ CreatedAfterUpstream' /\ Grows
  BY <1>1, KeptItems
<1>3. run' \in [Workflows -> Run]
      /\ \A v \in Workflows : run'[v].status = "succeeded" => run[v].status = "succeeded"
  <2>1. [status |-> "running", owner |-> c, lease |-> "live"] \in Run
    BY DEF Run, Leases
  <2> QED BY <1>1, <2>1 DEF FlowInv, TypeOK
<1>4. k \in Coordinator /\ k.pc = "advance" /\ k.run = w
  <2>1. N \in 0..N
    BY StageAssumption
  <2>2. At("advance") \in Coordinator /\ At("advance").pc = "advance"
    BY AtType DEF At
  <2> QED BY <2>1, <2>2 DEF Coordinator
<1>5. coord' \in [Coordinators -> Coordinator] /\ coord'[c] = k
      /\ \A d \in Coordinators \ {c} : coord'[d] = coord[d]
  BY <1>1, <1>4 DEF FlowInv, TypeOK
<1>6. \A d \in Coordinators : CoordFacts(d)'
  <2>1. CoordFacts(c)'
    BY <1>4, <1>5 DEF CoordFacts
  <2> QED BY <1>2, <1>5, <2>1, KeptCoord
<1>7. StepFacts' /\ RunFacts' /\ DoingFacts'
  BY <1>1, <1>2, <1>3, KeptSteps, KeptRuns, KeptDoing
<1>8. TypeOK'
  BY <1>1, <1>3, <1>5 DEF FlowInv, TypeOK
<1> QED BY <1>2, <1>6, <1>7, <1>8 DEF FlowInv

(* What an iteration reads about the stage it is to write. *)
LEMMA AdvanceReadStep ==
  ASSUME FlowInv, NEW c \in Coordinators, AdvanceRead(c)
  PROVE  FlowInv'
<1> DEFINE w == coord[c].run
<1>1. PICK s \in 1..(N + 1) :
        /\ NextStage(step[w], s)
        /\ coord' = [coord EXCEPT ![c] =
             [pc |-> "write", run |-> w, left |-> coord[c].left - 1, stage |-> s, row |-> run[w],
              step |-> IF s <= N THEN step[w][s] ELSE "none",
              item |-> IF s <= N THEN item[ItemOf[w][s]] ELSE NoItem,
              ready |-> s = 1 \/ s > N \/ step[w][s] # "none" \/ DependencyReady(w, s)]]
  BY DEF AdvanceRead
<1> DEFINE k == [pc |-> "write", run |-> w, left |-> coord[c].left - 1, stage |-> s, row |-> run[w],
                 step |-> IF s <= N THEN step[w][s] ELSE "none",
                 item |-> IF s <= N THEN item[ItemOf[w][s]] ELSE NoItem,
                 ready |-> s = 1 \/ s > N \/ step[w][s] # "none" \/ DependencyReady(w, s)]
<1>2. UNCHANGED <<run, step, item, doing, produced, commands, crashes>>
      /\ coord[c].pc = "advance" /\ coord[c].left > 0
  BY DEF AdvanceRead
<1>3. w \in Workflows /\ N \in Nat
  BY <1>2, StageAssumption DEF FlowInv, CoordFacts
<1>4. s \in Stages <=> s <= N
  BY <1>3 DEF Stages
<1>5. coord[c] \in Coordinator /\ run[w] \in Run
      /\ (s \in Stages => step[w][s] \in StepStatus /\ item[ItemOf[w][s]] \in Item)
  BY <1>3, StageItems DEF FlowInv, TypeOK
<1>6. k \in Coordinator
  <2>1. coord[c].left - 1 \in 0..N
    BY <1>2, <1>3, <1>5 DEF Coordinator
  <2>2. k.step \in StepStatus /\ k.item \in Item /\ k.ready \in BOOLEAN
    BY <1>4, <1>5, RowTypes DEF StepStatus
  <2>3. s \in 0..(N + 1)
    BY <1>3
  <2> QED BY <1>3, <1>5, <2>1, <2>2, <2>3 DEF Coordinator
<1>7. coord'[c] = k
  BY <1>1 DEF FlowInv, TypeOK
<1>8. s \in Stages => SeenFacts(k)
  <2> SUFFICES ASSUME s \in Stages PROVE SeenFacts(k)
    OBVIOUS
  <2> DEFINE i == ItemOf[w][s]
  <2>1. i \in Items /\ k.step = step[w][s] /\ k.item = item[i] /\ k.run = w /\ k.stage = s
        /\ (k.ready => s = 1 \/ s > N \/ step[w][s] # "none" \/ DependencyReady(w, s))
    BY <1>3, <1>4, StageItems
  <2>2. k.step # "none" => k.item.status # "absent"
    BY <1>3, <2>1 DEF FlowInv, StepFacts
  <2>3. Usable(item[i]) => i \in produced
    BY <2>1 DEF FlowInv, ItemFacts
  <2>4. s = N => item[i].outcome = "null"
    BY <1>3 DEF FlowInv, ItemFacts
  <2>5. k.step = "none" /\ k.ready /\ s > 1 => ItemOf[w][s - 1] \in produced
    <3>1. s > 1 => s - 1 \in Stages
      BY <1>3 DEF Stages
    <3>2. s > 1 => ItemOf[w][s - 1] \in Items
      BY <1>3, <3>1, StageItems
    <3>3. s > 1 /\ DependencyReady(w, s) => ItemOf[w][s - 1] \in produced
      BY <3>2 DEF DependencyReady, FlowInv, ItemFacts
    <3> HIDE DEF k
    <3> QED BY <1>3, <1>4, <2>1, <3>3
  <2> HIDE DEF k, i, w
  <2> QED BY <2>1, <2>2, <2>3, <2>4, <2>5 DEF SeenFacts, i
<1>9. s = N + 1 => ItemOf[w][N] \in produced
  <2>1. s = N + 1 => step[w][N] = "succeeded"
    BY <1>1, <1>3, StageItems DEF NextStage, Stages
  <2> QED BY <1>3, <2>1 DEF FlowInv, StepFacts
<1>10. CoordFacts(c)'
  <2>1. k.pc = "write" /\ k.run = w /\ k.stage = s
    OBVIOUS
  <2> HIDE DEF k
  <2>2. s \in Stages => SeenFacts(coord[c])'
    BY <1>2, <1>7, <1>8 DEF SeenFacts
  <2> QED BY <1>1, <1>2, <1>3, <1>7, <1>9, <2>1, <2>2 DEF CoordFacts, LastItem
<1> QED BY <1>1, <1>2, <1>6, <1>10, CoordStep DEF FlowInv, TypeOK

(* A workflow is concluded, by a coordinator that may have lost it; it may   *)
(* succeed only if it is published.                                          *)
LEMMA Finishes ==
  ASSUME FlowInv, Grows, NEW c \in Coordinators, coord[c].run \in Workflows,
         NEW status \in Ended \cup {"waiting"}, Finish(c, status),
         status = "succeeded" => LastItem(c) \in produced'
  PROVE  /\ run' \in [Workflows -> Run] /\ RunFacts'
         /\ coord' \in [Coordinators -> Coordinator]
         /\ \A d \in Coordinators : CoordFacts(d)'
<1> DEFINE w == coord[c].run
           new == [status |-> status, owner |-> None, lease |-> "none"]
           row == OrmWrite(run[w], coord[c].row, new)
<1>1. run' = [run EXCEPT ![w] = row] /\ coord' = [coord EXCEPT ![c] = At("idle")]
  BY DEF Finish
<1>2. run[w] \in Run /\ coord[c].row \in Run /\ new \in Run
  BY DEF FlowInv, TypeOK, Coordinator, Run, Ended, Leases
<1>3. row \in Run /\ row.status \in {run[w].status, status}
  <2>1. row \in Run
    BY <1>2, RowTypes
  <2> QED BY <2>1 DEF OrmWrite
<1>4. run' \in [Workflows -> Run] /\ run'[w] = row
      /\ \A v \in Workflows \ {w} : run'[v] = run[v]
  <2> HIDE DEF row
  <2> QED BY <1>1, <1>3 DEF FlowInv, TypeOK
<1>5. RunFacts'
  <2> HIDE DEF row
  <2>1. \A v \in Workflows : run'[v].status = "succeeded" =>
          run[v].status = "succeeded" \/ ItemOf[v][N] \in produced'
    BY <1>3, <1>4 DEF LastItem
  <2> QED BY <2>1, KeptRuns
<1>6. coord' \in [Coordinators -> Coordinator] /\ coord'[c].pc = "idle"
      /\ \A d \in Coordinators \ {c} : coord'[d] = coord[d]
  <2>1. At("idle") \in Coordinator /\ At("idle").pc = "idle"
    BY AtType DEF At
  <2> QED BY <1>1, <2>1 DEF FlowInv, TypeOK
<1>7. \A d \in Coordinators : CoordFacts(d)'
  BY <1>6, KeptCoord, FreeCoord
<1> QED BY <1>4, <1>5, <1>6, <1>7

(* An iteration creates, resets or finds the item of a stage, records it,    *)
(* and goes on or concludes.                                                 *)
LEMMA AdvanceWriteStep ==
  ASSUME FlowInv, NEW c \in Coordinators, AdvanceWrite(c)
  PROVE  FlowInv'
<1> DEFINE w == coord[c].run
           s == coord[c].stage
           i == ItemOf[w][s]
           got == StageItem(c)
           row == StageRow(c)
           next == Outcome(s, got)
           k == [At(next) EXCEPT !.run = w, !.left = coord[c].left]
<1>1. /\ coord[c].pc = "write" /\ s <= N
      /\ coord[c].step = "none" => coord[c].ready
      /\ item' = [item EXCEPT ![i] = row]
      /\ step' = [step EXCEPT ![w][s] = IF got.status = coord[c].step THEN @ ELSE got.status]
      /\ IF next \in {"advance", "inline"}
         THEN coord' = [coord EXCEPT ![c] = k] /\ UNCHANGED run
         ELSE Finish(c, next)
      /\ UNCHANGED <<doing, produced, commands, crashes>>
  BY DEF AdvanceWrite
<1>2. s \in Stages /\ N \in Nat /\ coord[c].left \in 0..N
  BY <1>1, StageAssumption DEF FlowInv, TypeOK, CoordFacts, Coordinator, Stages
<1>3. /\ w \in Workflows /\ i \in Items
      /\ got \in Item /\ row \in Item
      /\ got.status # "absent" /\ row.status # "absent"
      /\ Usable(got) => i \in produced
      /\ Usable(row) => i \in produced
      /\ s = N => got.outcome = "null" /\ row.outcome = "null"
      /\ item[i].status = "absent" /\ s > 1 => ItemOf[w][s - 1] \in produced
  BY <1>1, <1>2, StageWrite
<1> HIDE DEF got, row
<1>4. \A v \in Workflows : ItemOf[v][N] = i => row.outcome = "null"
  <2>1. StageOf(i) = s /\ \A v \in Workflows : StageOf(ItemOf[v][N]) = N
    BY <1>2, <1>3, StageItems, StageOfItem
  <2> QED BY <1>3, <2>1
<1>5. ASSUME item[i].status = "absent", NEW v \in Workflows, NEW u \in Stages, NEW t \in Stages,
             ItemOf[v][u] = i, t < u
      PROVE  ItemOf[v][t] \in produced'
  <2>1. u = s /\ ItemOf[v][t] = ItemOf[w][t]
    BY <1>2, <1>3, <1>5, ItemAssumption
  <2>2. s > 1 /\ s - 1 \in Stages /\ ItemOf[w][s - 1] \in produced
    BY <1>2, <1>3, <1>5, <2>1 DEF Stages
  <2>3. item[ItemOf[w][s - 1]].status # "absent"
    BY <2>2 DEF FlowInv, ItemFacts
  <2>4. t = s - 1 \/ t < s - 1
    BY <1>5, <2>1, <1>2 DEF Stages
  <2>5. t < s - 1 => ItemOf[w][t] \in produced
    BY <1>3, <2>2, <2>3 DEF FlowInv, CreatedAfterUpstream
  <2> QED BY <1>1, <2>1, <2>2, <2>4, <2>5
<1>6. ItemFacts' /\ CreatedAfterUpstream' /\ Grows /\ item' \in [Items -> Item]
  BY <1>1, <1>3, <1>4, <1>5, KeptItem
<1>7. step' \in [Workflows -> [Stages -> StepStatus]]
      /\ step'[w][s] \in {step[w][s], got.status}
      /\ \A v \in Workflows, u \in Stages : v # w \/ u # s => step'[v][u] = step[v][u]
  <2>1. got.status \in StepStatus
    BY <1>3 DEF Item, StepStatus
  <2>2. step \in [Workflows -> [Stages -> StepStatus]]
    BY DEF FlowInv, TypeOK
  <2> QED BY <1>1, <1>2, <1>3, <2>1, <2>2
<1>8. StepFacts'
  <2>1. item'[i] = row
    BY <1>1, <1>3 DEF FlowInv, TypeOK
  <2>2. \A v \in Workflows, u \in Stages :
          step'[v][u] # "none" => item'[ItemOf[v][u]].status # "absent"
    <3> TAKE v \in Workflows, u \in Stages
    <3>1. CASE v = w /\ u = s
      BY <3>1, <2>1, <1>3
    <3>2. CASE ~ (v = w /\ u = s)
      BY <3>2, <1>6, <1>7, StageItems DEF FlowInv, StepFacts, Grows
    <3> QED BY <3>1, <3>2
  <2>3. \A v \in Workflows : step'[v][N] = "succeeded" => ItemOf[v][N] \in produced'
    <3> TAKE v \in Workflows
    <3>1. CASE v = w /\ N = s /\ step'[w][s] = got.status
      BY <3>1, <1>1, <1>3 DEF Usable
    <3>2. CASE step'[v][N] = step[v][N]
      BY <3>2, <1>1 DEF FlowInv, StepFacts
    <3> QED BY <3>1, <3>2, <1>7, StageItems
  <2> QED BY <2>2, <2>3 DEF StepFacts
<1>9. /\ next \in {"advance", "inline", "waiting"} \cup Ended
      /\ next = "inline" => s = N
      /\ next = "succeeded" => s = N /\ Usable(got)
  BY DEF Outcome, Ended
<1> DoingFacts'
  BY <1>1, <1>6, KeptDoing
<1>10. CASE next \in {"advance", "inline"}
  <2> HIDE DEF next
  <2>1. coord' = [coord EXCEPT ![c] = k] /\ run' = run
    BY <1>1, <1>10
  <2>2. k \in Coordinator /\ k.pc = next /\ k.run = w
    <3>1. next \in {"advance", "inline", "publishing"}
      BY <1>10
    <3>2. At(next) \in Coordinator
      BY <3>1, AtType
    <3>3. At(next).pc = next
      BY DEF At
    <3>4. PICK n \in 0..N : n = coord[c].left
      BY <1>2
    <3>5. LET g == [At(next) EXCEPT !.run = w, !.left = n]
          IN  g \in Coordinator /\ g.pc = At(next).pc /\ g.run = w
      BY <1>3, <3>2, GivenRun
    <3> QED BY <3>3, <3>4, <3>5
  <2> HIDE DEF k
  <2>3. coord' \in [Coordinators -> Coordinator] /\ coord'[c] = k
        /\ \A d \in Coordinators \ {c} : coord'[d] = coord[d]
    BY <2>1, <2>2 DEF FlowInv, TypeOK
  <2>4. next = "inline" => item'[ItemOf[w][N]].status # "absent"
    BY <1>1, <1>3, <1>9 DEF FlowInv, TypeOK
  <2>5. CoordFacts(c)'
    BY <1>3, <1>10, <2>2, <2>3, <2>4 DEF CoordFacts, LastItem
  <2>6. \A d \in Coordinators : CoordFacts(d)'
    BY <1>6, <2>3, <2>5, KeptCoord
  <2>7. RunFacts'
    BY <1>6, <2>1, KeptRuns
  <2>8. TypeOK'
    BY <1>1, <1>6, <1>7, <2>1, <2>3 DEF FlowInv, TypeOK
  <2> QED BY <1>6, <1>8, <2>6, <2>7, <2>8 DEF FlowInv
<1>11. CASE next \notin {"advance", "inline"}
  <2> HIDE DEF next
  <2>1. next \in Ended \cup {"waiting"} /\ Finish(c, next)
    BY <1>1, <1>9, <1>11
  <2>2. next = "succeeded" => LastItem(c) \in produced'
    BY <1>1, <1>3, <1>9 DEF LastItem
  <2>3. /\ run' \in [Workflows -> Run] /\ RunFacts'
        /\ coord' \in [Coordinators -> Coordinator]
        /\ \A d \in Coordinators : CoordFacts(d)'
    BY <1>3, <1>6, <2>1, <2>2, Finishes
  <2>4. TypeOK'
    BY <1>1, <1>6, <1>7, <2>3 DEF FlowInv, TypeOK
  <2> QED BY <1>6, <1>8, <2>3, <2>4 DEF FlowInv
<1> QED BY <1>10, <1>11

(* All stages are recorded as succeeded. *)
LEMMA AdvanceCompletesStep ==
  ASSUME FlowInv, NEW c \in Coordinators, AdvanceCompletes(c)
  PROVE  FlowInv'
<1>1. UNCHANGED <<step, item, doing, produced, commands, crashes>> /\ Finish(c, "succeeded")
  BY DEF AdvanceCompletes
<1>2. ItemFacts' /\ CreatedAfterUpstream' /\ Grows
  BY <1>1, KeptItems
<1>3. coord[c].run \in Workflows /\ LastItem(c) \in produced
  BY StageAssumption DEF FlowInv, CoordFacts, AdvanceCompletes
<1>4. /\ run' \in [Workflows -> Run] /\ RunFacts'
      /\ coord' \in [Coordinators -> Coordinator]
      /\ \A d \in Coordinators : CoordFacts(d)'
  BY <1>1, <1>2, <1>3, Finishes DEF Ended
<1>5. StepFacts' /\ DoingFacts'
  BY <1>1, <1>2, KeptSteps, KeptDoing
<1>6. TypeOK'
  BY <1>1, <1>4 DEF FlowInv, TypeOK
<1> QED BY <1>2, <1>4, <1>5, <1>6 DEF FlowInv

(* A heartbeat changes the lease of a running workflow. *)
LEMMA HeartbeatStep ==
  ASSUME FlowInv, NEW c \in Coordinators, RunHeartbeat(c)
  PROVE  FlowInv'
<1>1. UNCHANGED <<step, item, doing, coord, produced, commands, crashes>>
      /\ run' = [run EXCEPT ![coord[c].run].lease = "live"]
  BY DEF RunHeartbeat
<1>2. ItemFacts' /\ CreatedAfterUpstream' /\ Grows
  BY <1>1, KeptItems
<1>3. coord[c].run \in Workflows
  BY DEF FlowInv, CoordFacts, RunHeartbeat
<1>4. run' \in [Workflows -> Run]
      /\ \A w \in Workflows : run'[w].status = run[w].status
  BY <1>1, <1>3 DEF FlowInv, TypeOK, Run, Leases
<1>5. StepFacts' /\ RunFacts' /\ DoingFacts' /\ \A d \in Coordinators : CoordFacts(d)'
  BY <1>1, <1>2, <1>4, KeptSteps, KeptRuns, KeptDoing, KeptCoord
<1>6. TypeOK'
  BY <1>1, <1>4 DEF FlowInv, TypeOK
<1> QED BY <1>2, <1>5, <1>6 DEF FlowInv

(* A step that writes the row of an item that exists, and may change what    *)
(* one coordinator is doing.                                                 *)
LEMMA RowStep ==
  ASSUME FlowInv, NEW i \in Items, NEW row \in Item,
         item' = [item EXCEPT ![i] = row], item[i].status # "absent", row.status # "absent",
         produced' = IF Usable(row) THEN produced \cup {i} ELSE produced,
         \A w \in Workflows : ItemOf[w][N] = i => row.outcome = "null",
         UNCHANGED <<run, step, crashes>>, commands' \in Nat, doing' \in [Items -> Nat],
         \A j \in Items : doing'[j] > 0 => doing[j] > 0 \/ (j = i /\ ~ Inline(i)),
         coord' \in [Coordinators -> Coordinator],
         \A c \in Coordinators : coord'[c] = coord[c] \/ CoordFacts(c)'
  PROVE  FlowInv'
<1>1. produced \subseteq produced' /\ produced' \subseteq produced \cup {i}
      /\ (Usable(row) => i \in produced') /\ produced' \subseteq Items
  BY DEF FlowInv, TypeOK
<1>2. ItemFacts' /\ CreatedAfterUpstream' /\ Grows /\ item' \in [Items -> Item]
  BY <1>1, KeptItem
<1>3. StepFacts' /\ RunFacts' /\ \A c \in Coordinators : CoordFacts(c)'
  BY <1>2, KeptSteps, KeptRuns, KeptCoord
<1>4. DoingFacts'
  <2>1. item'[i].status # "absent"
    BY DEF FlowInv, TypeOK
  <2> QED BY <1>2, <2>1, KeptDoing
<1>5. TypeOK'
  BY <1>1, <1>2 DEF FlowInv, TypeOK
<1> QED BY <1>2, <1>3, <1>4, <1>5 DEF FlowInv

(* A step that only ends an execution, and writes nothing. *)
LEMMA DropStep ==
  ASSUME FlowInv, NEW i \in Items, doing[i] > 0, doing' = [doing EXCEPT ![i] = @ - 1],
         UNCHANGED <<run, step, item, coord, produced, commands>>, crashes' \in Nat
  PROVE  FlowInv'
<1>1. ItemFacts' /\ CreatedAfterUpstream' /\ Grows
  BY KeptItems
<1>2. doing' \in [Items -> Nat] /\ \A j \in Items : doing'[j] > 0 => doing[j] > 0
  BY DEF FlowInv, TypeOK
<1>3. StepFacts' /\ RunFacts' /\ DoingFacts' /\ \A c \in Coordinators : CoordFacts(c)'
  BY <1>1, <1>2, KeptSteps, KeptRuns, KeptDoing, KeptCoord
<1>4. TypeOK'
  BY <1>2 DEF FlowInv, TypeOK
<1> QED BY <1>1, <1>3, <1>4 DEF FlowInv

(* What a running item may become. *)
LEMMA EndedRow ==
  ASSUME NEW r \in Item, NEW v \in {"succeeded"} \cup Failures, NEW o \in {"null", "no_transcript"}
  PROVE  /\ Ends(r, v, o) \in Item /\ Ends(r, v, o).status = v
         /\ Ends(r, v, o).outcome \in {r.outcome, o}
         /\ (Usable(Ends(r, v, o)) <=> v = "succeeded" /\ (o = "null"))
BY DEF Ends, Item, Failures, Usable

(* Workers and operators *)
LEMMA ItemSteps ==
  ASSUME FlowInv, NEW i \in Items,
         \/ WorkerStarts(i) \/ WorkerBlocks(i) \/ ItemRecovered(i)
         \/ OperatorResets(i) \/ OperatorCancels(i)
  PROVE  FlowInv'
<1>1. item[i] \in Item /\ item \in [Items -> Item] /\ commands \in Nat
  BY DEF FlowInv, TypeOK
<1>2. UNCHANGED <<run, step, coord, produced, crashes>> /\ commands' \in Nat
      /\ doing' \in [Items -> Nat] /\ \A j \in Items : doing'[j] > 0 => doing[j] > 0 \/ (j = i /\ ~ Inline(i))
  BY <1>1 DEF FlowInv, TypeOK, WorkerStarts, WorkerBlocks, ItemRecovered, OperatorResets, OperatorCancels
<1>3. item[i].status # "absent"
  BY DEF WorkerStarts, WorkerBlocks, ItemRecovered, OperatorResets, OperatorCancels, Failures
<1>4. PICK row :
        /\ row \in {Starts(item[i]), [item[i] EXCEPT !.status = "blocked"],
                    Ends(item[i], "timed_out", "null"), Reset(item[i]),
                    Ends(item[i], "canceled", "null")}
        /\ item' = [item EXCEPT ![i] = row]
  BY DEF WorkerStarts, WorkerBlocks, ItemRecovered, OperatorResets, OperatorCancels
<1>5. row \in Item /\ row.status \notin {"absent", "succeeded"}
      /\ row.outcome \in {"null", item[i].outcome}
  <2>1. CASE row = Starts(item[i])
    BY <1>1, <2>1, RowTypes DEF Starts, Item
  <2>2. CASE row = [item[i] EXCEPT !.status = "blocked"]
    BY <1>1, <2>2 DEF Item, Failures
  <2>3. CASE row = Ends(item[i], "timed_out", "null") \/ row = Ends(item[i], "canceled", "null")
    BY <1>1, <2>3 DEF Ends, Item, Failures
  <2>4. CASE row = Reset(item[i])
    BY <1>1, <2>4, RowTypes DEF Reset, Item
  <2> QED BY <1>4, <2>1, <2>2, <2>3, <2>4
<1>6. \A w \in Workflows : ItemOf[w][N] = i => row.outcome = "null"
  BY <1>5 DEF FlowInv, ItemFacts
<1>7. ~ Usable(row) /\ coord \in [Coordinators -> Coordinator]
  BY <1>5 DEF Usable, FlowInv, TypeOK
<1> QED BY <1>2, <1>3, <1>4, <1>5, <1>6, <1>7, RowStep

(* An execution ends; a result is usable unless it is an outcome of the      *)
(* first stage, which is not the last.                                       *)
LEMMA WorkerEndsStep ==
  ASSUME FlowInv, NEW i \in Items, NEW v, NEW o \in {"null", "no_transcript"}, WorkerEnds(i, v, o)
  PROVE  FlowInv'
<1> DEFINE row == Ends(item[i], v, o)
<1>1. /\ doing[i] > 0 /\ doing' = [doing EXCEPT ![i] = @ - 1]
      /\ o = "no_transcript" => v = "succeeded" /\ StageOf(i) = 1
      /\ UNCHANGED <<run, step, coord, commands, crashes>>
  BY DEF WorkerEnds
<1>2. item[i] \in Item /\ item[i].status # "absent" /\ ~ Inline(i)
      /\ commands \in Nat /\ crashes \in Nat /\ coord \in [Coordinators -> Coordinator]
      /\ doing' \in [Items -> Nat] /\ \A j \in Items : doing'[j] > 0 => doing[j] > 0
  BY <1>1 DEF FlowInv, TypeOK, DoingFacts
<1>3. v \in {"succeeded"} \cup Failures
  BY EndingType DEF WorkerEnds, Failures
<1>4. CASE item' = [item EXCEPT ![i] = row] /\ Result(i, v, o)
  <2>1. row \in Item /\ row.status = v
        /\ (Usable(row) <=> v = "succeeded" /\ (o = "null"))
    BY <1>2, <1>3, EndedRow
  <2>2. \A w \in Workflows : ItemOf[w][N] # i
    BY <1>2, StageItems, StageOfItem DEF Inline
  <2>3. produced' = IF Usable(row) THEN produced \cup {i} ELSE produced
    BY <1>4, <2>1 DEF Result
  <2>4. v # "absent"
    BY <1>3 DEF Failures
  <2> HIDE DEF row
  <2> QED BY <1>1, <1>2, <1>4, <2>1, <2>2, <2>3, <2>4, RowStep
<1>5. CASE UNCHANGED <<item, produced>>
  BY <1>1, <1>2, <1>5, DropStep
<1> QED BY <1>4, <1>5 DEF WorkerEnds

(* The process of an execution dies.                                         *)
LEMMA WorkerDiesStep ==
  ASSUME FlowInv, NEW i \in Items, WorkerDies(i)
  PROVE  FlowInv'
<1>1. crashes' \in Nat
  BY DEF WorkerDies, FlowInv, TypeOK
<1> QED BY <1>1, DropStep DEF WorkerDies

(* The inline run of the last stage: it starts, or finds the item taken.     *)
LEMMA InlineStartsStep ==
  ASSUME FlowInv, NEW c \in Coordinators, InlineStarts(c)
  PROVE  FlowInv'
<1> DEFINE i == LastItem(c)
<1>1. coord[c].pc = "inline" /\ UNCHANGED <<run, step, doing, produced, commands, crashes>>
  BY DEF InlineStarts
<1>2. coord[c].run \in Workflows /\ i \in Items /\ item[i].status # "absent"
  BY <1>1, StageItems DEF FlowInv, CoordFacts, LastItem
<1>3. coord[c] \in Coordinator /\ coord \in [Coordinators -> Coordinator]
      /\ item[i] \in Item /\ item \in [Items -> Item] /\ commands \in Nat /\ crashes \in Nat
      /\ doing \in [Items -> Nat]
  BY <1>2 DEF FlowInv, TypeOK
<1>4. CASE item[i].status = "pending"
  <2> DEFINE k == [coord[c] EXCEPT !.pc = "publishing"]
             row == Starts(item[i])
  <2>1. item' = [item EXCEPT ![i] = row] /\ coord' = [coord EXCEPT ![c] = k]
    BY <1>4 DEF InlineStarts
  <2>2. row \in Item /\ row.status = "running" /\ row.outcome = item[i].outcome
    BY <1>3, RowTypes DEF Starts, Item
  <2>3. k \in Coordinator /\ k.pc = "publishing" /\ k.run = coord[c].run
    BY <1>3 DEF Coordinator
  <2> HIDE DEF k, row
  <2>4. coord' \in [Coordinators -> Coordinator] /\ coord'[c] = k
        /\ \A d \in Coordinators \ {c} : coord'[d] = coord[d]
    BY <1>3, <2>1, <2>3
  <2>5. item'[i] = row
    BY <1>2, <1>3, <2>1
  <2>6. CoordFacts(c)'
    BY <1>2, <2>2, <2>3, <2>4, <2>5 DEF CoordFacts, LastItem
  <2>7. \A w \in Workflows : ItemOf[w][N] = i => row.outcome = "null"
    BY <2>2 DEF FlowInv, ItemFacts
  <2>8. ~ Usable(row)
    BY <2>2 DEF Usable
  <2> QED BY <1>1, <1>2, <1>3, <2>1, <2>2, <2>4, <2>6, <2>7, <2>8, RowStep
<1>5. CASE item[i].status # "pending"
  <2> DEFINE k == [coord[c] EXCEPT !.pc = "advance"]
  <2>1. UNCHANGED item /\ coord' = [coord EXCEPT ![c] = k]
    BY <1>5 DEF InlineStarts, Continue
  <2>2. k \in Coordinator /\ k.pc = "advance" /\ k.run = coord[c].run
    BY <1>3 DEF Coordinator
  <2> HIDE DEF k
  <2>3. coord'[c] = k
    BY <1>3, <2>1, <2>2
  <2>4. CoordFacts(c)'
    BY <1>2, <2>2, <2>3 DEF CoordFacts
  <2> QED BY <1>1, <1>3, <2>1, <2>2, <2>4, CoordStep
<1> QED BY <1>4, <1>5

(* The engine or the executor records how it ended, or neither can; the      *)
(* coordinator goes on or ends.                                              *)
LEMMA InlineEndSteps ==
  ASSUME FlowInv, NEW c \in Coordinators, NEW v, InlineEnds(c, v) \/ InlineRejected(c, v)
  PROVE  FlowInv'
<1> DEFINE i == LastItem(c)
           row == Ends(item[i], v, "null")
           written == v \in {"succeeded"} \cup Failures
                      /\ item' = [item EXCEPT ![i] = row] /\ Result(i, v, "null")
<1>1. coord[c].pc = "publishing" /\ UNCHANGED <<run, step, doing, commands, crashes>>
  BY DEF InlineEnds, InlineRejected
<1>2. coord[c].run \in Workflows /\ i \in Items /\ item[i].status # "absent"
  BY <1>1, StageItems DEF FlowInv, CoordFacts, LastItem
<1>3. coord[c] \in Coordinator /\ coord \in [Coordinators -> Coordinator]
      /\ item[i] \in Item /\ item \in [Items -> Item] /\ commands \in Nat /\ crashes \in Nat
      /\ doing \in [Items -> Nat]
  BY <1>2 DEF FlowInv, TypeOK
<1>4. PICK k : /\ coord' = [coord EXCEPT ![c] = k]
               /\ k = [coord[c] EXCEPT !.pc = "advance"] \/ k = At("down")
  BY DEF InlineEnds, InlineRejected, Continue, Dies
<1>5. k \in Coordinator
      /\ (k.pc = "advance" \/ k.pc = "down") /\ (k.pc = "advance" => k.run = coord[c].run)
  <2>1. CASE k = [coord[c] EXCEPT !.pc = "advance"]
    BY <1>3, <2>1 DEF Coordinator
  <2>2. CASE k = At("down")
    BY <2>2, AtType DEF At
  <2> QED BY <1>4, <2>1, <2>2
<1>6. coord' \in [Coordinators -> Coordinator] /\ coord'[c] = k
      /\ \A d \in Coordinators \ {c} : coord'[d] = coord[d]
  BY <1>3, <1>4, <1>5
<1>7. CoordFacts(c)'
  BY <1>2, <1>5, <1>6 DEF CoordFacts
<1>8. written \/ UNCHANGED <<item, produced>>
  <2>1. CASE InlineEnds(c, v)
    BY <2>1, EndingType DEF InlineEnds, Failures
  <2>2. CASE InlineRejected(c, v)
    BY <2>2, OptionAssumption DEF InlineRejected, Failures
  <2> QED BY <2>1, <2>2
<1>9. CASE written
  <2>1. row \in Item /\ row.status = v /\ row.outcome \in {item[i].outcome, "null"}
        /\ (Usable(row) <=> v = "succeeded")
    BY <1>3, <1>9, EndedRow
  <2>2. \A w \in Workflows : ItemOf[w][N] = i => row.outcome = "null"
    BY <2>1 DEF FlowInv, ItemFacts
  <2>3. produced' = IF Usable(row) THEN produced \cup {i} ELSE produced
    BY <1>9, <2>1 DEF Result
  <2>4. v # "absent" /\ item' = [item EXCEPT ![i] = row]
    BY <1>9 DEF Failures
  <2> HIDE DEF row
  <2> QED BY <1>1, <1>2, <1>3, <1>6, <1>7, <2>1, <2>2, <2>3, <2>4, RowStep
<1>10. CASE UNCHANGED <<item, produced>>
  BY <1>1, <1>3, <1>4, <1>5, <1>7, <1>10, CoordStep
<1> QED BY <1>8, <1>9, <1>10
----------------------------------------------------------------------------
(* Theorems *)

(* The invariant holds before anything is requested.                         *)
LEMMA FlowInit == Init => FlowInv
<1> SUFFICES ASSUME Init PROVE FlowInv
  OBVIOUS
<1>1. \A i \in Items : item[i] = NoItem
  BY DEF Init
<1>2. \A c \in Coordinators : coord[c] = At("starting")
  BY DEF Init
<1>3. At("starting") \in Coordinator /\ At("starting").pc = "starting"
  BY AtType DEF At
<1>4. TypeOK
  <2>1. NoRun \in Run /\ NoItem \in Item /\ "none" \in StepStatus
    BY RowTypes DEF StepStatus
  <2> QED BY <1>3, <2>1 DEF Init, TypeOK
<1>5. ItemFacts /\ CreatedAfterUpstream
  BY <1>1, StageItems DEF ItemFacts, CreatedAfterUpstream, Usable, NoItem, Init
<1>6. StepFacts /\ RunFacts
  BY StageItems DEF Init, StepFacts, RunFacts, NoRun
<1> DoingFacts
  BY DEF Init, DoingFacts
<1>7. \A c \in Coordinators : CoordFacts(c)
  BY <1>2, <1>3 DEF CoordFacts
<1> QED BY <1>4, <1>5, <1>6, <1>7 DEF FlowInv

(* Every step preserves the invariant.                                       *)
LEMMA FlowNext == FlowInv /\ [Next]_vars => FlowInv'
<1> SUFFICES ASSUME FlowInv, [Next]_vars PROVE FlowInv'
  OBVIOUS
<1>1. ASSUME NEW w \in Workflows, Start(w) \/ RunLeaseExpires(w) PROVE FlowInv'
  BY <1>1, RunSteps
<1>2. ASSUME NEW c \in Coordinators,
             \/ Crash(c) \/ Restart(c) \/ RecoverExpired(c)
             \/ \E w \in Workflows : Claim(c, w)
             \/ AdvanceRead(c) \/ AdvanceExceeded(c) \/ AdvanceRaises(c)
             \/ AdvanceWrite(c) \/ AdvanceCompletes(c)
             \/ InlineStarts(c) \/ RunHeartbeat(c)
             \/ \E v \in Verdicts \cup {"failed"} : InlineEnds(c, v) \/ InlineRejected(c, v)
      PROVE  FlowInv'
  BY <1>2, FreeSteps, RecoverStep, ClaimStep, AdvanceReadStep, AdvanceWriteStep,
     AdvanceCompletesStep, InlineStartsStep, HeartbeatStep, InlineEndSteps
<1>3. ASSUME NEW i \in Items,
             \/ WorkerStarts(i) \/ WorkerBlocks(i) \/ WorkerDies(i) \/ ItemRecovered(i)
             \/ \E v \in Verdicts \cup {"failed"}, o \in {"null", "no_transcript"} : WorkerEnds(i, v, o)
             \/ OperatorResets(i) \/ OperatorCancels(i)
      PROVE  FlowInv'
  BY <1>3, ItemSteps, WorkerEndsStep, WorkerDiesStep
<1>4. CASE UNCHANGED vars
  <2>1. ItemFacts' /\ CreatedAfterUpstream' /\ Grows
    BY <1>4, KeptItems DEF vars
  <2>2. StepFacts' /\ RunFacts' /\ DoingFacts' /\ \A c \in Coordinators : CoordFacts(c)'
    BY <1>4, <2>1, KeptSteps, KeptRuns, KeptDoing, KeptCoord DEF vars
  <2>3. TypeOK'
    BY <1>4 DEF FlowInv, TypeOK, vars
  <2> QED BY <2>1, <2>2, <2>3 DEF FlowInv
<1> QED BY <1>1, <1>2, <1>3, <1>4 DEF Next

(* Whatever number of coordinators advance a workflow, and however often     *)
(* their leases run out, they crash, and operators rerun or cancel items:    *)
(* the facts that their unfenced writes rest on hold.                        *)
THEOREM FlowInvariant == Spec => []FlowInv
<1>1. Init => FlowInv
  BY FlowInit
<1>2. FlowInv /\ [Next]_vars => FlowInv'
  BY FlowNext
<1> QED BY <1>1, <1>2, PTL DEF Spec

(* No stage has an item before every stage before it has had a usable        *)
(* result.                                                                   *)
THEOREM StagesFollowUpstream == Spec => []CreatedAfterUpstream
<1>1. FlowInv => CreatedAfterUpstream
  BY DEF FlowInv
<1> QED BY <1>1, FlowInvariant, PTL

(* A workflow recorded as succeeded is published, and every stage before the *)
(* publication has had a usable result.                                      *)
THEOREM SuccessIsPublished == Spec => []SucceededIsPublished
<1>1. FlowInv => SucceededIsPublished
  <2> SUFFICES ASSUME FlowInv, NEW w \in Workflows, run[w].status = "succeeded", NEW s \in Stages
               PROVE  ItemOf[w][s] \in produced
    BY DEF SucceededIsPublished
  <2>1. ItemOf[w][N] \in produced /\ item[ItemOf[w][N]].status # "absent"
    BY DEF FlowInv, RunFacts, ItemFacts
  <2>2. s = N \/ s < N
    BY StageAssumption DEF Stages
  <2>3. s < N => ItemOf[w][s] \in produced
    BY <2>1, StageItems DEF FlowInv, CreatedAfterUpstream
  <2> QED BY <2>1, <2>2, <2>3
<1> QED BY <1>1, FlowInvariant, PTL
----------------------------------------------------------------------------
(* One coordinator.  A scheduled task keeps a single one running; what follows *)
(* rests on that, because its writes look neither at owner nor at status.      *)

(* What it works on has not ended. *)
Working(c) ==
  coord[c].pc \in {"advance", "write", "inline", "publishing"} => run[coord[c].run].status = "running"

(* How a step changes the statuses of workflows. *)
LEMMA RunStatuses ==
  ASSUME FlowInv, NEW c, Coordinators = {c}, Working(c), Next
  PROVE  /\ \A w \in Workflows : run[w].status \in Ended => run'[w].status = run[w].status
         /\ Working(c)'
<1>0. /\ run \in [Workflows -> Run] /\ coord \in [Coordinators -> Coordinator]
      /\ c \in Coordinators /\ \A d \in Coordinators : d = c
  BY DEF FlowInv, TypeOK
<1>1. coord[c].pc \in {"advance", "write", "inline", "publishing"} => coord[c].run \in Workflows
  BY <1>0 DEF FlowInv, CoordFacts
<1>2. ASSUME NEW w \in Workflows, Start(w) \/ RunLeaseExpires(w)
      PROVE  /\ \A v \in Workflows : run[v].status \in Ended => run'[v].status = run[v].status
             /\ Working(c)'
  <2>1. UNCHANGED coord /\ run[w] \in Run
    BY <1>0, <1>2 DEF Start, RunLeaseExpires
  <2>2. \A v \in Workflows : run[v].status \in Ended \cup {"running"} => run'[v].status = run[v].status
    BY <1>0, <1>2, <2>1 DEF Start, RunLeaseExpires, Run, Ended
  <2> QED BY <1>1, <2>1, <2>2 DEF Working
<1>3. CASE \/ Crash(c) \/ Restart(c) \/ AdvanceExceeded(c) \/ AdvanceRaises(c)
  <2>1. UNCHANGED run
    BY <1>3 DEF Crash, Restart, AdvanceExceeded, AdvanceRaises
  <2>2. PICK pc \in {"down", "starting"} : coord' = [coord EXCEPT ![c] = At(pc)]
    BY <1>3 DEF Crash, Restart, AdvanceExceeded, AdvanceRaises, Dies
  <2>3. coord'[c].pc \in {"down", "starting"}
    BY <1>0, <2>2 DEF At
  <2> QED BY <2>1, <2>3 DEF Working
<1>4. CASE RecoverExpired(c)
  <2>1. coord'[c].pc = "idle"
    BY <1>0, <1>4 DEF RecoverExpired, At
  <2>2. \A v \in Workflows : run[v].status \in Ended => run'[v].status = run[v].status
    BY <1>0, <1>4 DEF RecoverExpired, Expired, Ended
  <2> QED BY <2>1, <2>2 DEF Working
<1>5. ASSUME NEW w \in Workflows, Claim(c, w)
      PROVE  /\ \A v \in Workflows : run[v].status \in Ended => run'[v].status = run[v].status
             /\ Working(c)'
  <2>1. coord'[c].run = w
    BY <1>0, <1>5 DEF Claim, At
  <2>2. run'[w].status = "running" /\ \A v \in Workflows : v # w => run'[v] = run[v]
    BY <1>0, <1>5 DEF Claim
  <2>3. run[w].status \notin Ended
    BY <1>5 DEF Claim, Claimable, Ended
  <2> QED BY <2>1, <2>2, <2>3 DEF Working
<1>6. CASE AdvanceRead(c)
  <2>1. UNCHANGED run /\ coord[c].pc = "advance" /\ coord'[c].run = coord[c].run
    BY <1>0, <1>6 DEF AdvanceRead
  <2> QED BY <2>1 DEF Working
<1>7. ASSUME NEW status, Finish(c, status), coord[c].pc = "write"
      PROVE  /\ \A v \in Workflows : run[v].status \in Ended => run'[v].status = run[v].status
             /\ Working(c)'
  <2>1. run[coord[c].run].status = "running" /\ coord[c].run \in Workflows
    BY <1>1, <1>7 DEF Working
  <2>2. \A v \in Workflows : v # coord[c].run => run'[v] = run[v]
    BY <1>0, <1>7 DEF Finish
  <2>3. coord'[c].pc = "idle"
    BY <1>0, <1>7 DEF Finish, At
  <2> QED BY <2>1, <2>2, <2>3 DEF Working, Ended
<1>8. CASE AdvanceWrite(c)
  <2>1. CASE \E status : Finish(c, status)
    BY <1>7, <1>8, <2>1 DEF AdvanceWrite
  <2>2. CASE ~\E status : Finish(c, status)
    <3>1. coord[c].pc = "write" /\ UNCHANGED run
      BY <1>8, <2>2 DEF AdvanceWrite
    <3>2. PICK next : coord' = [coord EXCEPT ![c] = [At(next) EXCEPT !.run = coord[c].run, !.left = coord[c].left]]
      BY <1>8, <2>2 DEF AdvanceWrite
    <3>3. coord'[c].run = coord[c].run
      BY <1>0, <3>2 DEF At
    <3> QED BY <3>1, <3>3 DEF Working
  <2> QED BY <2>1, <2>2
<1>9. CASE AdvanceCompletes(c)
  BY <1>7, <1>9 DEF AdvanceCompletes
<1>10. CASE RunHeartbeat(c)
  <2>1. UNCHANGED coord /\ \A v \in Workflows : run'[v].status = run[v].status
    BY <1>0, <1>1, <1>10 DEF RunHeartbeat, Run
  <2> QED BY <1>1, <2>1 DEF Working
<1>11. CASE InlineStarts(c) \/ \E v \in Verdicts \cup {"failed"} : InlineEnds(c, v) \/ InlineRejected(c, v)
  <2>1. UNCHANGED run /\ coord[c].pc \in {"inline", "publishing"}
    BY <1>11 DEF InlineStarts, InlineEnds, InlineRejected
  <2>2. coord[c] \in Coordinator
    BY <1>0
  <2>3. coord'[c].pc = "down" \/ coord'[c].run = coord[c].run
    BY <1>0, <1>11, <2>2 DEF InlineStarts, InlineEnds, InlineRejected, Continue, Dies, At, Coordinator
  <2> QED BY <2>1, <2>3 DEF Working
<1>12. ASSUME NEW i \in Items,
              \/ WorkerStarts(i) \/ WorkerBlocks(i) \/ WorkerDies(i) \/ ItemRecovered(i)
              \/ \E v \in Verdicts \cup {"failed"}, o \in {"null", "no_transcript"} : WorkerEnds(i, v, o)
              \/ OperatorResets(i) \/ OperatorCancels(i)
       PROVE  /\ \A v \in Workflows : run[v].status \in Ended => run'[v].status = run[v].status
              /\ Working(c)'
  <2>1. UNCHANGED <<run, coord>>
    BY <1>12 DEF WorkerStarts, WorkerBlocks, WorkerDies, ItemRecovered, WorkerEnds, OperatorResets, OperatorCancels
  <2> QED BY <2>1 DEF Working
<1> QED BY <1>0, <1>2, <1>3, <1>4, <1>5, <1>6, <1>8, <1>9, <1>10, <1>11, <1>12 DEF Next

(* Initially the one coordinator writes nothing.                             *)
LEMMA WorkingInit ==
  ASSUME NEW c, Coordinators = {c}
  PROVE  Init => Working(c)
<1> SUFFICES ASSUME Init PROVE Working(c)
  OBVIOUS
<1>1. coord[c] = At("starting")
  BY DEF Init
<1> QED BY <1>1 DEF Working, At

(* With one coordinator a workflow that has succeeded, failed or been        *)
(* blocked keeps that status for ever: _finish_transition, which checks      *)
(* neither owner nor status, never reaches it again.                         *)
THEOREM EndedStays ==
  ASSUME NEW c, Coordinators = {c}
  PROVE  Spec => EndedStaysEnded
<1> DEFINE Kept == \A w \in Workflows : run[w].status \in Ended => run'[w].status = run[w].status
<1>1. Init => Working(c)
  BY WorkingInit
<1>2. FlowInv /\ Working(c) /\ [Next]_vars => Working(c)' /\ [Kept]_vars
  <2> SUFFICES ASSUME FlowInv, Working(c), [Next]_vars PROVE Working(c)' /\ [Kept]_vars
    OBVIOUS
  <2>1. CASE Next
    BY <2>1, RunStatuses
  <2>2. CASE UNCHANGED vars
    BY <2>2 DEF Working, vars
  <2> QED BY <2>1, <2>2
<1> QED BY <1>1, <1>2, FlowInvariant, PTL DEF Spec, EndedStaysEnded
----------------------------------------------------------------------------
(* One coordinator: how often a stage is tried. *)

(* An item may be tried once more when a workflow that it belongs to was     *)
(* requested with retry_failed, and once more for each operator command; and *)
(* a pending item has a try left.                                            *)
Cap(i) == IF \E v \in RetryFailed, s \in Stages : ItemOf[v][s] = i THEN 2 ELSE 1
Bounded(row, n) == row.tries <= n /\ (row.status = "pending" => row.tries < n)
Within(i) == Bounded(item[i], Cap(i) + commands)

(* Between its read and its write others may end the row of a failure again, *)
(* but only an operator has it started.                                      *)
SeenRow(c) ==
  coord[c].pc = "write" /\ coord[c].stage \in Stages
    /\ coord[c].item.status \in {"failed", "timed_out", "blocked"} =>
       Bounded(item[ItemOf[coord[c].run][coord[c].stage]], coord[c].item.tries + commands)

RetryInv(c) == SeenRow(c) /\ \A i \in Items : Within(i)

(* What anyone but coordinators and operators does to an item: it ends it, be it for the  *)
(* second time, or starts a pending one.                                     *)
Moves(i) ==
  \/ item'[i] = item[i]
  \/ item'[i].status # "pending" /\ item'[i].tries = item[i].tries
  \/ /\ item[i].status = "pending" /\ item'[i].status = "running"
     /\ item'[i].tries = item[i].tries + 1
OthersMove == UNCHANGED commands /\ \A i \in Items : Moves(i)

(* What an operator does to items makes no try, and is counted.              *)
Commanded == commands' = commands + 1 /\ \A i \in Items : item'[i].tries = item[i].tries

(* An item is tried once, or twice if a workflow asked for retries.          *)
LEMMA CapIsOneOrTwo == \A i : Cap(i) \in {1, 2}
BY DEF Cap

(* What Ends and Starts write is such a move. *)
LEMMA MovedRows ==
  ASSUME FlowInv, NEW i \in Items, NEW v \in {"succeeded", "failed", "timed_out", "canceled"}, NEW o,
         \/ item' = [item EXCEPT ![i] = Ends(@, v, o)]
         \/ item[i].status = "pending" /\ item' = [item EXCEPT ![i] = Starts(@)]
         \/ item' = [item EXCEPT ![i].status = "blocked"]
  PROVE  \A j \in Items : Moves(j)
<1>1. item \in [Items -> Item] /\ item[i] \in Item
  BY DEF FlowInv, TypeOK
<1>2. \A j \in Items : j # i => item'[j] = item[j]
  BY <1>1
<1>3. Moves(i)
  <2>1. CASE item' = [item EXCEPT ![i] = Ends(@, v, o)]
    <3>1. item'[i] = Ends(item[i], v, o)
      BY <1>1, <2>1
    <3>2. item'[i].status = v /\ item'[i].tries = item[i].tries
      BY <1>1, <3>1 DEF Ends, Item
    <3> QED BY <2>1, <3>2 DEF Moves
  <2>2. CASE item[i].status = "pending" /\ item' = [item EXCEPT ![i] = Starts(@)]
    <3>1. item'[i] = Starts(item[i])
      BY <1>1, <2>2
    <3>2. item'[i].status = "running" /\ item'[i].tries = item[i].tries + 1
      BY <1>1, <3>1 DEF Starts, Item
    <3> QED BY <2>2, <3>2 DEF Moves
  <2>3. CASE item' = [item EXCEPT ![i].status = "blocked"]
    <3>1. item'[i].status = "blocked" /\ item'[i].tries = item[i].tries
      BY <1>1, <2>3 DEF Item
    <3> QED BY <2>3, <3>1 DEF Moves
  <2> QED BY <2>1, <2>2, <2>3
<1> QED BY <1>2, <1>3 DEF Moves

(* Every step but the coordinator's write is one, or an operator's command.  *)
LEMMA OtherMoves ==
  ASSUME FlowInv, NEW c, Coordinators = {c}, Next
  PROVE  AdvanceWrite(c) \/ OthersMove \/ Commanded
<1>1. item \in [Items -> Item] /\ commands \in Nat /\ c \in Coordinators
  BY DEF FlowInv, TypeOK
<1>2. ASSUME UNCHANGED item PROVE \A i \in Items : Moves(i)
  BY <1>2 DEF Moves
<1>3. CASE RecoverExpired(c)
  <2>1. PICK lost \in SUBSET {i \in Items : item[i].status = "running"} :
          item' = [i \in Items |-> IF i \in lost THEN Ends(item[i], "timed_out", "null") ELSE item[i]]
    BY <1>3 DEF RecoverExpired
  <2>2. \A i \in Items : i \in lost =>
          item[i].status = "running" /\ item'[i].status = "timed_out" /\ item'[i].tries = item[i].tries
    BY <1>1, <2>1 DEF Ends, Item
  <2>3. \A i \in Items : i \notin lost => item'[i] = item[i]
    BY <2>1
  <2>4. \A i \in Items : Moves(i)
    BY <2>2, <2>3 DEF Moves
  <2> QED BY <1>3, <2>4 DEF OthersMove, RecoverExpired
<1>4. ASSUME coord[c].pc \in {"inline", "publishing"} PROVE LastItem(c) \in Items
  BY <1>1, <1>4, StageItems DEF FlowInv, CoordFacts, LastItem
<1>5. CASE InlineStarts(c)
  <2>1. CASE item[LastItem(c)].status = "pending"
    BY <1>4, <1>5, <2>1, MovedRows DEF InlineStarts, OthersMove
  <2>2. CASE item[LastItem(c)].status # "pending"
    BY <1>2, <1>5, <2>2 DEF InlineStarts, OthersMove
  <2> QED BY <2>1, <2>2
<1>6. ASSUME NEW v \in Verdicts \cup {"failed"}, InlineEnds(c, v) \/ InlineRejected(c, v)
      PROVE  OthersMove
  <2>1. v \in {"succeeded", "failed", "timed_out", "canceled"}
    BY OptionAssumption
  <2>2. LastItem(c) \in Items /\ UNCHANGED commands
    BY <1>4, <1>6 DEF InlineEnds, InlineRejected
  <2>3. item' = [item EXCEPT ![LastItem(c)] = Ends(@, v, "null")] \/ UNCHANGED item
    BY <1>6 DEF InlineEnds, InlineRejected
  <2> QED BY <1>2, <2>1, <2>2, <2>3, MovedRows DEF OthersMove
<1>7. ASSUME NEW i \in Items,
             \/ WorkerStarts(i) \/ WorkerBlocks(i) \/ WorkerDies(i) \/ ItemRecovered(i)
             \/ \E v \in Verdicts \cup {"failed"}, o \in {"null", "no_transcript"} : WorkerEnds(i, v, o)
      PROVE  OthersMove
  <2>1. UNCHANGED commands
    BY <1>7 DEF WorkerStarts, WorkerBlocks, WorkerDies, ItemRecovered, WorkerEnds
  <2>2. CASE WorkerStarts(i) \/ WorkerBlocks(i)
    BY <2>1, <2>2, MovedRows DEF WorkerStarts, WorkerBlocks, OthersMove
  <2>3. CASE ItemRecovered(i)
    BY <2>1, <2>3, MovedRows DEF ItemRecovered, OthersMove
  <2>4. ASSUME NEW v \in Verdicts \cup {"failed"}, NEW o, WorkerEnds(i, v, o)
        PROVE  OthersMove
    <3>1. v \in {"succeeded", "failed", "timed_out", "canceled"}
      BY OptionAssumption
    <3>2. item' = [item EXCEPT ![i] = Ends(@, v, o)] \/ UNCHANGED item
      BY <2>4 DEF WorkerEnds
    <3> QED BY <1>2, <2>1, <3>1, <3>2, MovedRows DEF OthersMove
  <2>5. CASE WorkerDies(i)
    BY <1>2, <2>1, <2>5 DEF WorkerDies, OthersMove
  <2> QED BY <1>7, <2>2, <2>3, <2>4, <2>5
<1>8. CASE \/ Crash(c) \/ Restart(c) \/ AdvanceRead(c) \/ AdvanceExceeded(c) \/ AdvanceRaises(c)
           \/ AdvanceCompletes(c) \/ RunHeartbeat(c) \/ \E w \in Workflows : Claim(c, w)
  BY <1>2, <1>8 DEF Crash, Restart, AdvanceRead, AdvanceExceeded, AdvanceRaises, AdvanceCompletes,
     RunHeartbeat, Claim, OthersMove
<1>9. CASE \E w \in Workflows : Start(w) \/ RunLeaseExpires(w)
  BY <1>2, <1>9 DEF Start, RunLeaseExpires, OthersMove
<1>10. ASSUME NEW i \in Items, OperatorResets(i) \/ OperatorCancels(i)
       PROVE  Commanded
  <2>1. item[i] \in Item
    BY <1>1
  <2>2. commands' = commands + 1 /\ (item' = [item EXCEPT ![i] = Reset(@)]
                                     \/ item' = [item EXCEPT ![i] = Ends(@, "canceled", "null")])
    BY <1>10 DEF OperatorResets, OperatorCancels
  <2>3. Reset(item[i]).tries = item[i].tries /\ Ends(item[i], "canceled", "null").tries = item[i].tries
    BY <2>1 DEF Reset, Ends, Item
  <2>4. item'[i].tries = item[i].tries /\ \A j \in Items \ {i} : item'[j] = item[j]
    BY <1>1, <2>2, <2>3
  <2> QED BY <2>2, <2>4 DEF Commanded
<1> QED BY <1>1, <1>3, <1>5, <1>6, <1>7, <1>8, <1>9, <1>10 DEF Next

(* Such a step keeps a row as tightly bounded as it was.                     *)
LEMMA BoundKept ==
  ASSUME FlowInv, NEW i \in Items, NEW n \in Nat, Bounded(item[i], n + commands),
         OthersMove \/ Commanded
  PROVE  Bounded(item'[i], n + commands')
<1>1. item[i].tries \in Nat /\ commands \in Nat
  BY DEF FlowInv, TypeOK, Item
<1>2. CASE OthersMove
  <2>1. commands' = commands /\ Moves(i)
    BY <1>2 DEF OthersMove
  <2> QED BY <1>1, <2>1 DEF Bounded, Moves
<1>3. CASE Commanded
  <2>1. commands' = commands + 1 /\ item'[i].tries = item[i].tries
    BY <1>3 DEF Commanded
  <2> QED BY <1>1, <2>1 DEF Bounded
<1> QED BY <1>2, <1>3

(* So does the coordinator's write: it tries a failed stage again only when  *)
(* the row it read had been tried once, and no one has tried it since unless *)
(* an operator had it tried.                                                 *)
LEMMA WriteIsWithin ==
  ASSUME FlowInv, NEW c \in Coordinators, RetryInv(c), AdvanceWrite(c)
  PROVE  (\A i \in Items : Within(i)') /\ coord'[c].pc # "write"
<1> DEFINE i == ItemOf[coord[c].run][coord[c].stage]
           row == StageRow(c)
<1>1. coord[c].pc = "write" /\ coord[c].stage \in Stages /\ item' = [item EXCEPT ![i] = row]
      /\ (coord[c].step = "none" => coord[c].ready)
  BY DEF AdvanceWrite, FlowInv, CoordFacts, Stages
<1>2. coord[c].run \in Workflows /\ i \in Items /\ row \in Item
  BY <1>1, StageWrite
<1>3. /\ item \in [Items -> Item] /\ item[i] \in Item /\ coord \in [Coordinators -> Coordinator]
      /\ Cap(i) \in {1, 2} /\ \A j \in Items : Cap(j)' = Cap(j)
      /\ commands \in Nat /\ commands' = commands
  BY <1>1, <1>2, CapIsOneOrTwo DEF FlowInv, TypeOK, Cap, AdvanceWrite
<1>4. Bounded(row, Cap(i) + commands)
  <2>1. CASE Retries(c)
    <3>1. /\ coord[c].run \in RetryFailed /\ coord[c].item.tries < 2
          /\ coord[c].item.status \in {"failed", "timed_out", "blocked"}
      BY <2>1 DEF Retries, RetriesLeft
    <3>2. item[i].tries <= coord[c].item.tries + commands
      BY <1>1, <3>1 DEF RetryInv, SeenRow, Bounded
    <3>3. Cap(i) = 2
      BY <1>1, <3>1 DEF Cap
    <3>4. row = Reset(item[i]) \/ row = [item[i] EXCEPT !.status = "pending"]
      BY <2>1, <3>1 DEF StageRow
    <3>5. row.tries = item[i].tries
      BY <1>3, <3>4 DEF Reset, Item
    <3>6. item[i].tries \in Nat /\ coord[c].item.tries \in Nat
      BY <1>3 DEF Item, Coordinator
    <3>7. item[i].tries < 2 + commands
      BY <1>3, <3>1, <3>2, <3>6
    <3> QED BY <1>3, <3>3, <3>5, <3>6, <3>7 DEF Bounded
  <2>2. CASE ~ Retries(c) /\ coord[c].item.status = "absent" /\ item[i].status = "absent"
    <3>1. row.tries = 0
      BY <2>2 DEF StageRow, NewItem, NoItem
    <3> QED BY <1>3, <3>1 DEF Bounded
  <2>3. CASE ~ Retries(c) /\ ~ (coord[c].item.status = "absent" /\ item[i].status = "absent")
    <3>1. row = item[i]
      BY <2>3 DEF StageRow
    <3> QED BY <1>2, <3>1 DEF RetryInv, Within
  <2> QED BY <2>1, <2>2, <2>3
<1>5. \A j \in Items : Within(j)'
  <2> HIDE DEF i, row
  <2>1. item'[i] = row /\ \A j \in Items : j # i => item'[j] = item[j]
    BY <1>1, <1>2, <1>3
  <2> QED BY <1>2, <1>3, <1>4, <2>1 DEF RetryInv, Within
<1>6. coord'[c].pc # "write"
  <2>1. ASSUME NEW status, Finish(c, status) PROVE coord'[c].pc = "idle"
    BY <1>3, <2>1 DEF Finish, At
  <2>2. ASSUME NEW next \in {"advance", "inline"},
               coord' = [coord EXCEPT ![c] = [At(next) EXCEPT !.run = coord[c].run, !.left = coord[c].left]]
        PROVE  coord'[c].pc = next
    BY <1>3, <2>2 DEF At
  <2> QED BY <2>1, <2>2 DEF AdvanceWrite
<1> QED BY <1>5, <1>6

(* A coordinator that goes on to write has read the row, or had read it.     *)
LEMMA ReadsTheRow ==
  ASSUME FlowInv, NEW c, Coordinators = {c}, Next, ~ AdvanceWrite(c), coord'[c].pc = "write"
  PROVE  coord'[c] = coord[c] \/ AdvanceRead(c)
<1>1. coord \in [Coordinators -> Coordinator] /\ c \in Coordinators
  BY DEF FlowInv, TypeOK
<1>2. CASE UNCHANGED coord
  BY <1>2
<1>3. CASE \/ Crash(c) \/ Restart(c) \/ RecoverExpired(c) \/ \E w \in Workflows : Claim(c, w)
           \/ AdvanceExceeded(c) \/ AdvanceRaises(c) \/ AdvanceCompletes(c)
  <2>1. CASE Crash(c) \/ Restart(c) \/ RecoverExpired(c) \/ AdvanceExceeded(c) \/ AdvanceRaises(c)
    BY <1>1, <2>1 DEF Crash, Restart, RecoverExpired, AdvanceExceeded, AdvanceRaises, Dies, At
  <2>2. CASE \E w \in Workflows : Claim(c, w)
    BY <1>1, <2>2 DEF Claim, At
  <2>3. CASE AdvanceCompletes(c)
    BY <1>1, <2>3 DEF AdvanceCompletes, Finish, At
  <2> QED BY <1>3, <2>1, <2>2, <2>3
<1>4. CASE InlineStarts(c) \/ \E v \in Verdicts \cup {"failed"} : InlineEnds(c, v) \/ InlineRejected(c, v)
  <2>1. coord[c] \in Coordinator /\ coord[c].pc # "write"
    BY <1>1, <1>4 DEF InlineStarts, InlineEnds, InlineRejected
  <2>2. coord'[c].pc \in {"down", "advance", "publishing"}
    BY <1>1, <1>4, <2>1 DEF InlineStarts, InlineEnds, InlineRejected, Continue, Dies, At, Coordinator
  <2> QED BY <2>2
<1>5. CASE RunHeartbeat(c) \/ \E w \in Workflows : Start(w) \/ RunLeaseExpires(w)
  BY <1>2, <1>5 DEF RunHeartbeat, Start, RunLeaseExpires
<1>6. ASSUME NEW i \in Items,
             \/ WorkerStarts(i) \/ WorkerBlocks(i) \/ WorkerDies(i) \/ ItemRecovered(i)
             \/ \E v \in Verdicts \cup {"failed"}, o \in {"null", "no_transcript"} : WorkerEnds(i, v, o)
             \/ OperatorResets(i) \/ OperatorCancels(i)
      PROVE  UNCHANGED coord
  BY <1>6 DEF WorkerStarts, WorkerBlocks, WorkerDies, ItemRecovered, WorkerEnds, OperatorResets, OperatorCancels
<1> QED BY <1>1, <1>2, <1>3, <1>4, <1>5, <1>6 DEF Next

(* The invariant of retries holds initially.                                 *)
LEMMA RetryInit == ASSUME NEW c \in Coordinators PROVE Init => RetryInv(c)
<1> SUFFICES ASSUME Init PROVE RetryInv(c)
  OBVIOUS
<1>1. coord[c] = At("starting") /\ \A i \in Items : item[i] = NoItem
  BY DEF Init
<1>2. \A i : Cap(i) \in {1, 2}
  BY CapIsOneOrTwo
<1>3. SeenRow(c)
  BY <1>1 DEF SeenRow, At
<1>4. \A i \in Items : Within(i)
  BY <1>1, <1>2 DEF Within, Bounded, NoItem, Init
<1> QED BY <1>3, <1>4 DEF RetryInv

(* Every step preserves the invariant of retries.                            *)
LEMMA RetryNext ==
  ASSUME FlowInv, NEW c, Coordinators = {c}, RetryInv(c), [Next]_vars
  PROVE  RetryInv(c)'
<1>0. /\ coord \in [Coordinators -> Coordinator] /\ c \in Coordinators
      /\ \A i : Cap(i)' = Cap(i)
  BY DEF FlowInv, TypeOK, Cap
<1>1. CASE Next /\ AdvanceWrite(c)
  BY <1>0, <1>1, WriteIsWithin DEF RetryInv, SeenRow
<1>2. CASE Next /\ ~ AdvanceWrite(c)
  <2>1. OthersMove \/ Commanded
    BY <1>2, OtherMoves
  <2>2. \A i \in Items : Within(i)'
    <3> SUFFICES ASSUME NEW i \in Items PROVE Within(i)'
      OBVIOUS
    <3>1. Cap(i) \in Nat /\ Cap(i)' = Cap(i) /\ Bounded(item[i], Cap(i) + commands)
      BY <1>0, CapIsOneOrTwo DEF RetryInv, Within
    <3>2. Bounded(item'[i], Cap(i) + commands')
      BY <2>1, <3>1, BoundKept
    <3> QED BY <3>1, <3>2 DEF Within, Bounded
  <2>3. SeenRow(c)'
    <3> SUFFICES ASSUME coord'[c].pc = "write", coord'[c].stage \in Stages,
                        coord'[c].item.status \in {"failed", "timed_out", "blocked"}
                 PROVE  Bounded(item'[ItemOf[coord'[c].run][coord'[c].stage]],
                                coord'[c].item.tries + commands')
      BY DEF SeenRow, Bounded
    <3>1. CASE coord'[c] = coord[c]
      <4> DEFINE i == ItemOf[coord[c].run][coord[c].stage]
                 n == coord[c].item.tries
      <4>1. coord[c].run \in Workflows /\ i \in Items /\ n \in Nat
        BY <1>0, <3>1, StageItems DEF FlowInv, CoordFacts, Coordinator, Item
      <4>2. Bounded(item[i], n + commands)
        BY <3>1 DEF RetryInv, SeenRow
      <4>3. Bounded(item'[i], n + commands')
        <5> HIDE DEF i, n
        <5> QED BY <2>1, <4>1, <4>2, BoundKept
      <4> QED BY <3>1, <4>3
    <3>2. CASE AdvanceRead(c)
      <4>1. UNCHANGED <<item, commands>> /\ commands \in Nat /\ item \in [Items -> Item]
        BY <3>2 DEF AdvanceRead, FlowInv, TypeOK
      <4>2. PICK s \in 1..(N + 1) :
              coord' = [coord EXCEPT ![c] =
                [pc |-> "write", run |-> coord[c].run, left |-> coord[c].left - 1, stage |-> s,
                 row |-> run[coord[c].run],
                 step |-> IF s <= N THEN step[coord[c].run][s] ELSE "none",
                 item |-> IF s <= N THEN item[ItemOf[coord[c].run][s]] ELSE NoItem,
                 ready |-> s = 1 \/ s > N \/ step[coord[c].run][s] # "none"
                             \/ DependencyReady(coord[c].run, s)]]
        BY <3>2 DEF AdvanceRead
      <4>3. /\ coord'[c].run = coord[c].run /\ coord'[c].stage = s
            /\ coord'[c].item = IF s <= N THEN item[ItemOf[coord[c].run][s]] ELSE NoItem
        BY <1>0, <4>2
      <4>4. s <= N
        BY <4>3, StageAssumption DEF Stages
      <4>5. /\ coord'[c].item = item[ItemOf[coord[c].run][s]] /\ item[ItemOf[coord[c].run][s]] \in Item
            /\ coord'[c].item = item'[ItemOf[coord'[c].run][coord'[c].stage]]
        <5>1. coord[c].run \in Workflows /\ s \in Stages
          BY <1>0, <3>2, <4>3 DEF AdvanceRead, FlowInv, CoordFacts
        <5> QED BY <4>1, <4>3, <4>4, <5>1, StageItems
      <4>6. coord'[c].item.tries \in Nat
        BY <4>5 DEF Item
      <4> QED BY <4>1, <4>5, <4>6 DEF Bounded
    <3> QED BY <1>2, <3>1, <3>2, ReadsTheRow
  <2> QED BY <2>2, <2>3 DEF RetryInv
<1>3. CASE UNCHANGED vars
  BY <1>0, <1>3 DEF RetryInv, SeenRow, Within, Bounded, vars
<1> QED BY <1>1, <1>2, <1>3

(* A stage is tried at most twice, at most once where no workflow asked for a *)
(* retry, and once more for each command of an operator, although the reset   *)
(* and the step that records it are read and written in separate              *)
(* transactions: with one coordinator.                                        *)
THEOREM RetriedOnceAtMost ==
  ASSUME NEW c, Coordinators = {c}
  PROVE  Spec => []RetriedOnce
<1>1. Init => RetryInv(c)
  BY RetryInit
<1>2. FlowInv /\ RetryInv(c) /\ [Next]_vars => RetryInv(c)'
  BY RetryNext
<1>3. FlowInv /\ RetryInv(c) => RetriedOnce
  <2> SUFFICES ASSUME RetryInv(c), NEW w \in Workflows, NEW s \in Stages
               PROVE  item[ItemOf[w][s]].tries <=
                        (IF \E v \in RetryFailed : ItemOf[v][s] = ItemOf[w][s] THEN 2 ELSE 1) + commands
    BY DEF RetriedOnce
  <2>1. item[ItemOf[w][s]].tries <= Cap(ItemOf[w][s]) + commands
    BY StageItems DEF RetryInv, Within, Bounded
  <2>2. ASSUME NEW v \in RetryFailed, NEW t \in Stages, ItemOf[v][t] = ItemOf[w][s]
        PROVE  ItemOf[v][s] = ItemOf[w][s]
    BY <2>2, ItemAssumption, OptionAssumption
  <2> QED BY <2>1, <2>2 DEF Cap
<1> QED BY <1>1, <1>2, <1>3, FlowInvariant, PTL DEF Spec
=============================================================================
