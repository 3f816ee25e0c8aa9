------------------------- MODULE StageCommandsProofs -------------------------
(***************************************************************************)
(* Proofs about StageCommands.  What a command has looked up may be reset, *)
(* canceled or rerun before it writes; but a row keeps its key and its     *)
(* dependencies (Grows), and that is what the orders rest on.              *)
(***************************************************************************)
EXTENDS StageCommands, SequenceTheorems, WellFoundedInduction, TLAPS

Tasks == {Stages[n] : n \in DOMAIN Stages}

(* What the commands of a client hold. *)
OrderSet == [task : Tasks, choice : Languages \cup Models \cup {None}, source : Nat, need : Nat]
Calls ==
  [phase : {"idle", "looked", "scheduled", "publishing"}, order : OrderSet \cup {None},
   flags : FlagSet \cup {None}, seen : Rows \cup {None}, item : Nat]

(* What a command may order: a transcript in a language asked for; cues of a *)
(* stored transcript, with the collect item for that language as dependency; *)
(* anything else from an item, which is its dependency.                      *)
OrderFacts(o) ==
  /\ o \in OrderSet
  /\ o.task = "collect" => o.choice \in Languages /\ o.source = 0 /\ o.need = 0
  /\ o.task = "cue" => /\ o.source = 0 /\ o.need \in Ids /\ o.choice \in stored
                       /\ items[o.need].task = "collect" /\ items[o.need].choice = o.choice
  /\ o.task \notin {"collect", "cue"} => o.source \in Ids /\ o.need = o.source

CallFacts(p) ==
  /\ calls[p].phase = "looked" => OrderFacts(calls[p].order)
  /\ calls[p].phase \in {"scheduled", "publishing"} => calls[p].item \in Ids

(* What a row was ordered for is among its dependencies. *)
Ordered(i) ==
  /\ items[i].task = "collect" => items[i].choice \in Languages
  /\ items[i].task = "cue" =>
       /\ items[i].choice \in stored
       /\ \E u \in Ids : /\ <<i, u>> \in needs
                         /\ items[u].task = "collect" /\ items[u].choice = items[i].choice
  /\ items[i].source # 0 => items[i].source \in Ids /\ <<i, items[i].source>> \in needs

(* A transcript that was found is the one that was asked for. *)
Resulted(i) ==
  /\ items[i].task = "collect" /\ items[i].status = "succeeded" /\ items[i].outcome = None =>
       items[i].output = items[i].choice /\ items[i].output \in stored
  /\ items[i].output # None => items[i].output \in stored

RowFacts ==
  /\ items \in Seq(Rows)
  /\ \A i, j \in Ids : Same(items[i], items[j]) => i = j
  /\ \A i \in Ids : Ordered(i) /\ Resulted(i)

StageInv ==
  /\ TypeOK /\ RowFacts
  /\ calls \in [Clients -> Calls]
  /\ \A p \in Clients : CallFacts(p)

(* No row is deleted, none loses its key or a dependency. *)
Grows ==
  /\ \A i \in Ids : i \in Ids' /\ Same(items'[i], items[i])
  /\ needs \subseteq needs' /\ stored \subseteq stored'
----------------------------------------------------------------------------
(* The tasks, one by one. *)
LEMMA TaskNames == Tasks = {"collect", "cue", "micro", "timeline", "archive"}
BY DEF Tasks, Stages

(* A bounded set of natural numbers has a largest one. *)
LEMMA MaxOfBounded ==
  ASSUME NEW S, S \subseteq Nat, S # {}, NEW n \in Nat, \A x \in S : x <= n
  PROVE  Max(S) \in S /\ \A x \in S : x <= Max(S)
<1> DEFINE Bounds == {b \in Nat : \A x \in S : x <= b}
           R == {ss \in Nat \X Nat : ss[1] < ss[2]}
<1>1. IsWellFoundedOn(R, Nat)
  BY NatLessThanWellFounded DEF OpToRel
<1>2. Bounds \subseteq Nat /\ Bounds # {}
  OBVIOUS
<1> HIDE DEF R
<1>3. PICK b \in Bounds : \A c \in Bounds : ~(<<c, b>> \in R)
  <2> HIDE DEF Bounds
  <2> QED BY <1>1, <1>2, WFMin
<1>4. \A c \in Bounds : ~(c < b)
  BY <1>3 DEF R
<1>5. b \in S
  <2> SUFFICES ASSUME b \notin S PROVE FALSE
    OBVIOUS
  <2>1. \A x \in S : x <= b /\ x # b
    OBVIOUS
  <2>2. PICK x \in S : TRUE
    OBVIOUS
  <2>3. b - 1 \in Nat /\ b - 1 < b
    BY <2>1, <2>2
  <2>4. \A y \in S : y <= b - 1
    BY <2>1
  <2> QED BY <2>3, <2>4, <1>4
<1>6. \E x \in S : \A y \in S : x >= y
  BY <1>5
<1>7. Max(S) \in S /\ \A y \in S : Max(S) >= y
  BY <1>6 DEF Max
<1> QED BY <1>7

(* The largest id with a property, or 0. *)
LEMMA MaxId ==
  ASSUME items \in Seq(Rows), NEW S, S \subseteq Ids
  PROVE  /\ Max({0} \cup S) \in {0} \cup S
         /\ Max({0} \cup S) = 0 => S = {}
<1>1. Ids = 1..Len(items) /\ Len(items) \in Nat
  BY LenProperties DEF Ids
<1>2. {0} \cup S \subseteq Nat /\ {0} \cup S # {} /\ \A x \in {0} \cup S : x <= Len(items)
  BY <1>1
<1>3. Max({0} \cup S) \in {0} \cup S /\ \A x \in {0} \cup S : x <= Max({0} \cup S)
  BY <1>1, <1>2, MaxOfBounded
<1>4. Max({0} \cup S) = 0 => S = {}
  <2> SUFFICES ASSUME NEW x \in S, Max({0} \cup S) = 0 PROVE FALSE
    OBVIOUS
  <2>1. x \in 1..Len(items)
    BY <1>1
  <2>2. x <= 0
    BY <1>3
  <2> QED BY <1>1, <2>1, <2>2
<1> QED BY <1>3, <1>4

(* find_latest returns a succeeded item of the task, or nothing. *)
LEMMA LatestFound ==
  ASSUME items \in Seq(Rows), NEW task, Latest(task) # 0
  PROVE  /\ Latest(task) \in Ids
         /\ items[Latest(task)].task = task /\ items[Latest(task)].status = "succeeded"
<1> DEFINE S == {i \in Ids : items[i].task = task /\ items[i].status = "succeeded"}
<1>1. Latest(task) \in {0} \cup S
  <2> S \subseteq Ids
    OBVIOUS
  <2> HIDE DEF S
  <2>1. Max({0} \cup S) \in {0} \cup S
    BY MaxId
  <2> QED BY <2>1 DEF Latest, S
<1> QED BY <1>1

(* The row with the key of an order, or nothing if there is none. *)
LEMMA IdFound ==
  ASSUME items \in Seq(Rows), NEW o
  PROVE  /\ IdOf(o) # 0 => IdOf(o) \in Ids /\ Same(items[IdOf(o)], o)
         /\ IdOf(o) = 0 => \A i \in Ids : ~Same(items[i], o)
<1> DEFINE S == {i \in Ids : Same(items[i], o)}
<1>1. IdOf(o) \in {0} \cup S /\ (IdOf(o) = 0 => S = {})
  <2> S \subseteq Ids
    OBVIOUS
  <2> HIDE DEF S
  <2>1. Max({0} \cup S) \in {0} \cup S /\ (Max({0} \cup S) = 0 => S = {})
    BY MaxId
  <2> QED BY <2>1 DEF IdOf, S
<1> QED BY <1>1

(* The fields of a row. *)
LEMMA RowFields ==
  ASSUME NEW r \in Rows
  PROVE  /\ r.task \in Tasks /\ r.choice \in Languages \cup Models \cup {None}
         /\ r.source \in Nat /\ r.status \in Statuses
         /\ r.outcome \in {None, "no_transcript", "dependency_failed", "canceled"}
         /\ r.output \in Languages \cup {None}
BY DEF Rows, Tasks
----------------------------------------------------------------------------
(* What was ordered, and what a command has looked up, stays true of every   *)
(* step that keeps the keys.                                                 *)
LEMMA KeptOrders ==
  ASSUME StageInv, Grows
  PROVE  /\ \A i \in Ids : Ordered(i)'
         /\ \A o : OrderFacts(o) => OrderFacts(o)'
<1>1. \A i \in Ids : i \in Ids' /\ items'[i].task = items[i].task
                     /\ items'[i].choice = items[i].choice /\ items'[i].source = items[i].source
  BY DEF Grows, Same
<1>2. needs \subseteq needs' /\ stored \subseteq stored'
  BY DEF Grows
<1>3. ASSUME NEW i \in Ids PROVE Ordered(i)'
  <2>1. Ordered(i)
    BY DEF StageInv, RowFacts
  <2> QED BY <1>1, <1>2, <2>1 DEF Ordered
<1>4. ASSUME NEW o, OrderFacts(o) PROVE OrderFacts(o)'
  BY <1>1, <1>2, <1>4 DEF OrderFacts
<1> QED BY <1>3, <1>4

(* What is known of a command that does not move stays known.                *)
LEMMA KeptCall ==
  ASSUME StageInv, Grows, NEW p \in Clients, calls'[p] = calls[p]
  PROVE  CallFacts(p)'
<1>1. CallFacts(p)
  BY DEF StageInv
<1>2. \A i \in Ids : i \in Ids'
  BY DEF Grows
<1>3. PICK o : o = calls[p].order
  OBVIOUS
<1>4. calls[p].phase = "looked" => OrderFacts(o)
  BY <1>1, <1>3 DEF CallFacts
<1>5. calls[p].phase = "looked" => OrderFacts(o)'
  BY <1>4, KeptOrders
<1>6. calls'[p].phase = "looked" => OrderFacts(calls[p].order)'
  BY <1>3, <1>5 DEF OrderFacts
<1> QED BY <1>1, <1>2, <1>6 DEF CallFacts

(* A step that touches no row. *)
LEMMA KeptRows ==
  ASSUME StageInv, items' = items, needs \subseteq needs', stored \subseteq stored'
  PROVE  Grows /\ RowFacts' /\ Ids' = Ids
<1>1. Grows /\ Ids' = Ids
  BY DEF Grows, Same, Ids
<1>2. \A i \in Ids : Ordered(i)'
  BY <1>1, KeptOrders
<1>3. \A i \in Ids : Resulted(i)'
  BY DEF StageInv, RowFacts, Resulted
<1> QED BY <1>1, <1>2, <1>3 DEF StageInv, RowFacts, Same

(* A step that writes one row, with its key, and with an output that is       *)
(* stored.                                                                    *)
LEMMA KeptRow ==
  ASSUME StageInv, NEW i \in Ids, NEW r \in Rows, Same(r, items[i]),
         items' = [items EXCEPT ![i] = r], needs \subseteq needs', stored \subseteq stored',
         r.task = "collect" /\ r.status = "succeeded" /\ r.outcome = None =>
           r.output = r.choice /\ r.output \in stored',
         r.output # None => r.output \in stored'
  PROVE  Grows /\ RowFacts' /\ Ids' = Ids
<1>1. items \in Seq(Rows) /\ Ids = 1..Len(items)
  BY LenProperties DEF StageInv, RowFacts, Ids
<1>2. /\ items' \in Seq(Rows) /\ Ids' = Ids
      /\ items'[i] = r /\ \A j \in Ids \ {i} : items'[j] = items[j]
  <2>1. [items EXCEPT ![i] = r] \in Seq(Rows) /\ Len([items EXCEPT ![i] = r]) = Len(items)
        /\ \A j \in 1..Len(items) : [items EXCEPT ![i] = r][j] = IF j = i THEN r ELSE items[j]
    BY <1>1, ExceptSeq
  <2>2. Ids' = 1..Len(items')
    BY <2>1, LenProperties DEF Ids
  <2> QED BY <1>1, <2>1, <2>2
<1>3. \A j \in Ids : Same(items'[j], items[j])
  BY <1>2 DEF Same
<1>4. Grows
  BY <1>2, <1>3 DEF Grows
<1>5. \A j \in Ids : Ordered(j)'
  BY <1>4, KeptOrders
<1>6. \A j \in Ids : Resulted(j)'
  <2> TAKE j \in Ids
  <2>1. CASE j = i
    BY <1>2, <2>1 DEF Resulted
  <2>2. CASE j # i
    BY <1>2, <2>2 DEF StageInv, RowFacts, Resulted
  <2> QED BY <2>1, <2>2
<1>7. \A j, k \in Ids : Same(items'[j], items'[k]) => j = k
  BY <1>3 DEF StageInv, RowFacts, Same
<1> QED BY <1>2, <1>4, <1>5, <1>6, <1>7 DEF RowFacts
(* A step that leaves the rows alone, or has written one, and is in type.    *)
LEMMA KeptTypes ==
  ASSUME StageInv, RowFacts', \A i \in Ids : i \in Ids',
         needs' \subseteq Ids' \X Ids', composed' \subseteq Ids',
         available' \subseteq Languages, stored' \subseteq Languages,
         doing' \in [Slots \cup Clients -> Ids' \cup {0}], turn' \in 1..5,
         calls' \in [Clients -> Calls], \A p \in Clients : CallFacts(p)'
  PROVE  StageInv'
BY DEF StageInv, TypeOK, RowFacts, Resulted

(* The same, of a step that no more than a row or a call is changed by.      *)
LEMMA KeptWorld ==
  ASSUME StageInv, RowFacts', Ids' = Ids, UNCHANGED <<needs, world>>,
         doing' \in [Slots \cup Clients -> Ids \cup {0}], turn' \in 1..5,
         calls' \in [Clients -> Calls], \A p \in Clients : CallFacts(p)'
  PROVE  StageInv'
<1>1. TypeOK
  BY DEF StageInv
<1>2. /\ needs' \subseteq Ids' \X Ids' /\ composed' \subseteq Ids'
      /\ available' \subseteq Languages /\ stored' \subseteq Languages
  BY <1>1 DEF TypeOK, world
<1> QED BY <1>2, KeptTypes
----------------------------------------------------------------------------
(* Initially nothing is ordered. *)
LEMMA StageInit == Init => StageInv
<1> SUFFICES ASSUME Init PROVE StageInv
  OBVIOUS
<1>1. items = <<>> /\ Ids = {} /\ items \in Seq(Rows)
  BY EmptySeq DEF Init, Ids
<1>2. RowFacts
  BY <1>1 DEF RowFacts
<1>3. Idle \in Calls
  BY DEF Idle, Calls
<1>4. calls \in [Clients -> Calls] /\ \A p \in Clients : calls[p] = Idle
  BY <1>3 DEF Init
<1>5. \A p \in Clients : CallFacts(p)
  BY <1>4 DEF CallFacts, Idle
<1>6. TypeOK
  BY <1>1 DEF Init, TypeOK
<1> QED BY <1>2, <1>4, <1>5, <1>6 DEF StageInv

(* A command orders what depends on a result that is there. *)
LEMMA OrderFound ==
  ASSUME StageInv, NEW task \in Tasks, NEW choice, NEW o \in Orders(task, choice),
         task = "collect" => choice \in Languages, task = "timeline" => choice \in Models
  PROVE  OrderFacts(o)
<1> DEFINE source == Latest(Upstream[task])
<1>1. CASE task = "collect"
  <2>1. o = Order("collect", choice, 0, 0)
    BY <1>1 DEF Orders, TranscriptOrder
  <2>2. o \in OrderSet
    BY <1>1, <2>1, TaskNames DEF Order, OrderSet
  <2> QED BY <1>1, <2>1, <2>2 DEF Order, OrderFacts
<1>2. CASE task # "collect"
  <2>1. Usable(source)
    BY <1>2 DEF Orders
  <2>2. /\ source \in Ids /\ source \in Nat /\ items[source].outcome = None
        /\ items[source].task = Upstream[task] /\ items[source].status = "succeeded"
    <3>1. items \in Seq(Rows)
      BY DEF StageInv, RowFacts
    <3>2. source # 0 /\ items[source].outcome = None
      BY <2>1 DEF Usable
    <3>3. source \in Ids /\ items[source].task = Upstream[task] /\ items[source].status = "succeeded"
      BY <3>1, <3>2, LatestFound
    <3>4. \A i \in Ids : i \in Nat
      BY <3>1, LenProperties DEF Ids
    <3> QED BY <3>2, <3>3, <3>4
  <2>3. CASE task = "cue"
    <3>1. o = Order("cue", items[source].output, 0, source)
      BY <2>1, <2>3 DEF Orders, CueOrder
    <3>2. items[source].task = "collect"
      BY <2>2, <2>3 DEF Upstream
    <3>3. Resulted(source) /\ Ordered(source)
      BY <2>2 DEF StageInv, RowFacts
    <3>4. /\ items[source].output = items[source].choice /\ items[source].output \in stored
          /\ items[source].output \in Languages
      BY <2>2, <3>2, <3>3 DEF Resulted, Ordered
    <3> QED BY <2>2, <3>1, <3>2, <3>4, TaskNames DEF Order, OrderSet, OrderFacts
  <2>4. CASE task = "micro"
    <3>1. o = Order("micro", None, source, source)
      BY <2>1, <2>4 DEF Orders, MicroEventOrder
    <3> QED BY <2>2, <3>1, TaskNames DEF Order, OrderSet, OrderFacts
  <2>5. CASE task = "timeline"
    <3>1. o = Order("timeline", choice, source, source)
      BY <2>1, <2>5 DEF Orders, TimelineOrder
    <3> QED BY <2>2, <2>5, <3>1, TaskNames DEF Order, OrderSet, OrderFacts
  <2>6. CASE task = "archive"
    <3>1. o = Order("archive", None, source, source)
      BY <2>1, <2>6 DEF Orders, ArchiveOrder
    <3> QED BY <2>2, <3>1, TaskNames DEF Order, OrderSet, OrderFacts
  <2> QED BY <1>2, <2>3, <2>4, <2>5, <2>6, TaskNames
<1> QED BY <1>1, <1>2

(* What it looks up is a row, or nothing, and what it orders is founded. *)
LEMMA LooksStep ==
  ASSUME StageInv, NEW p \in Clients, NEW task \in Tasks, NEW choice, NEW flags \in FlagSet,
         task = "collect" => choice \in Languages, task = "timeline" => choice \in Models,
         Looks(p, task, choice, flags), turn' \in 1..5
  PROVE  StageInv'
<1>1. PICK o \in Orders(task, choice) :
        calls' = [calls EXCEPT ![p] =
          [phase |-> "looked", order |-> o, flags |-> flags, item |-> 0,
           seen |-> IF IdOf(o) = 0 THEN None ELSE items[IdOf(o)]]]
  BY DEF Looks
<1>2. UNCHANGED <<items, needs, world, doing>> /\ stored' = stored
  BY DEF Looks, world
<1>3. Grows /\ RowFacts' /\ Ids' = Ids
  BY <1>2, KeptRows
<1>4. OrderFacts(o)
  BY OrderFound
<1>5. calls' \in [Clients -> Calls]
  <2>1. items \in Seq(Rows) /\ Ids = 1..Len(items)
    BY LenProperties DEF StageInv, RowFacts, Ids
  <2>2. IdOf(o) # 0 => items[IdOf(o)] \in Rows
    BY <2>1, IdFound, ElementOfSeq
  <2>3. o \in OrderSet
    BY <1>4 DEF OrderFacts
  <2>4. \A r \in Rows \cup {None} :
          [phase |-> "looked", order |-> o, flags |-> flags, item |-> 0, seen |-> r] \in Calls
    BY <2>3 DEF Calls
  <2> QED BY <1>1, <2>2, <2>4 DEF StageInv
<1>6. ASSUME NEW q \in Clients PROVE CallFacts(q)'
  <2>1. CASE q # p
    BY <1>1, <1>3, <2>1, KeptCall DEF StageInv
  <2>2. CASE q = p
    <3>1. calls'[p].phase = "looked" /\ calls'[p].order = o
      BY <1>1 DEF StageInv
    <3>2. OrderFacts(o)'
      BY <1>3, <1>4, KeptOrders
    <3>3. OrderFacts(calls[p].order)'
      BY <3>1, <3>2 DEF OrderFacts
    <3> QED BY <2>2, <3>1, <3>3 DEF CallFacts
  <2> QED BY <2>1, <2>2
<1>7. doing' \in [Slots \cup Clients -> Ids \cup {0}]
  BY <1>2 DEF StageInv, TypeOK
<1> QED BY <1>2, <1>3, <1>5, <1>6, <1>7, KeptWorld
(* A row is appended only for an order whose key no row has. *)
LEMMA AppendedRow ==
  ASSUME StageInv, NEW o, OrderFacts(o), \A i \in Ids : ~Same(items[i], o),
         items' = Append(items, Pending(o)), stored' = stored,
         needs' = IF o.need = 0 THEN needs ELSE needs \cup {<<Len(items) + 1, o.need>>}
  PROVE  Grows /\ RowFacts' /\ Ids' = Ids \cup {Len(items) + 1}
<1>1. items \in Seq(Rows) /\ Ids = 1..Len(items) /\ Len(items) \in Nat
  BY LenProperties DEF StageInv, RowFacts, Ids
<1>0. PICK here : here = Len(items) + 1
  OBVIOUS
<1>2. Pending(o) \in Rows /\ Same(Pending(o), o) /\ Pending(o).status = "pending"
      /\ Pending(o).output = None
  BY DEF OrderFacts, OrderSet, Pending, Rows, Same, Statuses, Tasks
<1>3. /\ items' \in Seq(Rows) /\ Ids' = 1..here /\ here \in Nat
      /\ \A i \in Ids : items'[i] = items[i]
      /\ items'[here] = Pending(o)
  <2>1. /\ Append(items, Pending(o)) \in Seq(Rows)
        /\ Len(Append(items, Pending(o))) = Len(items) + 1
        /\ \A i \in 1..Len(items) : Append(items, Pending(o))[i] = items[i]
        /\ Append(items, Pending(o))[Len(items) + 1] = Pending(o)
    BY <1>1, <1>2, AppendProperties
  <2>2. Ids' = 1..Len(items')
    BY <2>1, LenProperties DEF Ids
  <2> QED BY <1>0, <1>1, <2>1, <2>2
<1>4. Ids' = Ids \cup {here} /\ here \notin Ids
  BY <1>0, <1>1, <1>3
<1>5. Grows
  BY <1>3, <1>4 DEF Grows, Same
<1>6. \A i \in Ids : Ordered(i)' /\ Resulted(i)'
  <2>1. \A i \in Ids : Resulted(i)'
    BY <1>3 DEF StageInv, RowFacts, Resulted
  <2> QED BY <1>5, <2>1, KeptOrders
<1>7. Ordered(here)'
  <2>1. OrderFacts(o)'
    BY <1>5, KeptOrders
  <2>2. items'[here].task = o.task /\ items'[here].choice = o.choice /\ items'[here].source = o.source
    BY <1>2, <1>3 DEF Same
  <2>3. o.need # 0 => <<here, o.need>> \in needs'
    BY <1>0
  <2>4. \A i \in Ids : i # 0
    BY <1>1
  <2>5. o.task = "collect" => Ordered(here)'
    BY <2>1, <2>2 DEF OrderFacts, Ordered
  <2>6. o.task = "cue" => Ordered(here)'
    <3> HAVE o.task = "cue"
    <3>1. o.need \in Ids
      BY DEF OrderFacts
    <3> QED BY <2>1, <2>2, <2>3, <2>4, <3>1 DEF OrderFacts, Ordered
  <2>7. o.task \notin {"collect", "cue"} => Ordered(here)'
    <3> HAVE o.task \notin {"collect", "cue"}
    <3>1. o.need \in Ids /\ o.need = o.source
      BY DEF OrderFacts
    <3> QED BY <2>1, <2>2, <2>3, <2>4, <3>1 DEF OrderFacts, Ordered
  <2> QED BY <2>5, <2>6, <2>7
<1>8. Resulted(here)'
  BY <1>2, <1>3 DEF Resulted
<1>9. \A i, j \in Ids' : Same(items'[i], items'[j]) => i = j
  <2>1. \A i \in Ids : ~Same(items'[i], items'[here]) /\ ~Same(items'[here], items'[i])
    <3> TAKE i \in Ids
    <3>1. ~Same(items[i], o)
      OBVIOUS
    <3>2. items'[i] = items[i] /\ items'[here] = Pending(o)
      BY <1>3
    <3>3. Same(Pending(o), o)
      BY <1>2
    <3> QED BY <3>1, <3>2, <3>3 DEF Same
  <2>2. \A i, j \in Ids : Same(items'[i], items'[j]) => i = j
    BY <1>3 DEF StageInv, RowFacts
  <2> QED BY <1>4, <2>1, <2>2
<1> QED BY <1>0, <1>3, <1>4, <1>5, <1>6, <1>7, <1>8, <1>9 DEF RowFacts

(* The insert finds the row with the order's key, if there is one, and a     *)
(* reset leaves it its key.                                                  *)
LEMMA WritesStep ==
  ASSUME StageInv, NEW p \in Clients, Writes(p)
  PROVE  StageInv'
<1> DEFINE o == calls[p].order
           id == RowFor(p)
           here == IF id = 0 THEN Len(items) + 1 ELSE id
<1>1. OrderFacts(o)
  BY DEF Writes, StageInv, CallFacts
<1>2. items \in Seq(Rows) /\ Ids = 1..Len(items) /\ Len(items) \in Nat
  BY LenProperties DEF StageInv, RowFacts, Ids
<1>3. /\ id # 0 => id \in Ids /\ Same(items[id], o)
      /\ id = 0 => \A i \in Ids : ~Same(items[i], o)
  BY <1>2, IdFound DEF RowFor
<1>4. needs' = IF o.need = 0 THEN needs ELSE needs \cup {<<here, o.need>>}
  BY DEF Writes
<1>5. stored' = stored /\ UNCHANGED <<world, doing, turn>>
  BY DEF Writes, world
<1>6. Grows /\ RowFacts' /\ Ids \subseteq Ids' /\ here \in Ids'
  <2>1. CASE id = 0
    <3>1. items' = Append(items, Pending(o))
      BY <2>1 DEF Writes
    <3>2. Grows /\ RowFacts' /\ Ids' = Ids \cup {Len(items) + 1}
      BY <1>1, <1>3, <1>4, <1>5, <2>1, <3>1, AppendedRow
    <3> QED BY <2>1, <3>2
  <2>2. CASE id # 0 /\ items' = [items EXCEPT ![id] = Pending(o)]
    <3>1. Pending(o) \in Rows /\ Same(Pending(o), items[id]) /\ Pending(o).status = "pending"
          /\ Pending(o).output = None
      BY <1>1, <1>3, <2>2 DEF OrderFacts, OrderSet, Pending, Rows, Same, Statuses, Tasks
    <3>2. needs \subseteq needs' /\ stored \subseteq stored'
      BY <1>4, <1>5
    <3>3. Grows /\ RowFacts' /\ Ids' = Ids
      BY <1>3, <2>2, <3>1, <3>2, KeptRow
    <3> QED BY <1>3, <2>2, <3>3
  <2>3. CASE id # 0 /\ items' = items
    <3>1. needs \subseteq needs' /\ stored \subseteq stored'
      BY <1>4, <1>5
    <3>2. Grows /\ RowFacts' /\ Ids' = Ids
      BY <2>3, <3>1, KeptRows
    <3> QED BY <1>3, <2>3, <3>2
  <2> QED BY <2>1, <2>2, <2>3 DEF Writes
<1>7. needs' \subseteq Ids' \X Ids'
  <2>1. needs \subseteq Ids \X Ids
    BY DEF StageInv, TypeOK
  <2>2. o.need # 0 => o.need \in Ids
    BY <1>1, TaskNames DEF OrderFacts, OrderSet
  <2> QED BY <1>4, <1>6, <2>1, <2>2
<1>8. calls' = [calls EXCEPT ![p] = Idle]
      \/ calls' = [calls EXCEPT ![p] = [Idle EXCEPT !.phase = "scheduled", !.item = here]]
  BY DEF Writes
<1>9. calls' \in [Clients -> Calls]
  <2>1. here \in Nat
    BY <1>2, <1>3
  <2>2. Idle \in Calls /\ [Idle EXCEPT !.phase = "scheduled", !.item = here] \in Calls
    BY <2>1 DEF Idle, Calls
  <2> QED BY <1>8, <2>2 DEF StageInv
<1>10. ASSUME NEW q \in Clients PROVE CallFacts(q)'
  <2>1. CASE q # p
    <3>1. calls'[q] = calls[q]
      BY <1>8, <2>1 DEF StageInv
    <3> QED BY <1>6, <3>1, KeptCall
  <2>2. CASE q = p
    <3>1. calls'[p] = Idle \/ calls'[p] = [Idle EXCEPT !.phase = "scheduled", !.item = here]
      BY <1>8 DEF StageInv
    <3>2. calls'[p] = Idle => CallFacts(p)'
      BY DEF Idle, CallFacts
    <3>3. ASSUME calls'[p] = [Idle EXCEPT !.phase = "scheduled", !.item = here]
          PROVE  calls'[p].phase = "scheduled" /\ calls'[p].item = here
      BY <3>3 DEF Idle
    <3> QED BY <1>6, <2>2, <3>1, <3>2, <3>3 DEF CallFacts
  <2> QED BY <2>1, <2>2
<1>11. /\ composed' \subseteq Ids' /\ available' \subseteq Languages /\ stored' \subseteq Languages
       /\ doing' \in [Slots \cup Clients -> Ids' \cup {0}] /\ turn' \in 1..5
  BY <1>5, <1>6 DEF StageInv, TypeOK, world
<1> QED BY <1>6, <1>7, <1>9, <1>10, <1>11, KeptTypes
----------------------------------------------------------------------------
(* Executions *)

Verdict(i, s, o, v) == [items EXCEPT ![i].status = s, ![i].outcome = o, ![i].output = v]

(* Writing the verdict of a row leaves it its key. *)
LEMMA VerdictRow ==
  ASSUME StageInv, NEW i \in Ids, NEW s \in Statuses, NEW v \in Languages \cup {None},
         NEW o \in {None, "no_transcript", "dependency_failed", "canceled"}
  PROVE  \E r \in Rows :
           /\ Same(r, items[i]) /\ r.task = items[i].task /\ r.choice = items[i].choice
           /\ r.status = s /\ r.outcome = o /\ r.output = v
           /\ Verdict(i, s, o, v) = [items EXCEPT ![i] = r]
<1> DEFINE r == [items[i] EXCEPT !.status = s, !.outcome = o, !.output = v]
<1>1. items \in Seq(Rows) /\ Ids = 1..Len(items)
  BY LenProperties DEF StageInv, RowFacts, Ids
<1>2. items[i] \in Rows
  BY <1>1, ElementOfSeq
<1>3. /\ r \in Rows /\ Same(r, items[i]) /\ r.task = items[i].task /\ r.choice = items[i].choice
      /\ r.status = s /\ r.outcome = o /\ r.output = v
  BY <1>2 DEF Rows, Same
<1>4. Verdict(i, s, o, v) = [items EXCEPT ![i] = r]
  BY <1>1, <1>2 DEF Rows, Ids, Verdict
<1> QED BY <1>3, <1>4

(* What an execution records of its item, or does not, by Accepted: a result  *)
(* without a transcript that is stored is not recorded for a collect item.    *)
LEMMA RecordedRow ==
  ASSUME StageInv, NEW i \in Ids, NEW s \in Statuses, NEW v \in Languages \cup {None},
         NEW o \in {None, "no_transcript", "dependency_failed", "canceled"},
         items' = Recorded(i, s, o, v), needs' = needs, stored \subseteq stored',
         items[i].task = "collect" /\ s = "succeeded" /\ o = None => v = items[i].choice /\ v \in stored',
         v # None => v \in stored'
  PROVE  Grows /\ RowFacts' /\ Ids' = Ids
<1>1. PICK r \in Rows :
        /\ Same(r, items[i]) /\ r.task = items[i].task /\ r.choice = items[i].choice
        /\ r.status = s /\ r.outcome = o /\ r.output = v
        /\ Verdict(i, s, o, v) = [items EXCEPT ![i] = r]
  BY VerdictRow
<1>2. CASE items' = items
  BY <1>2, KeptRows
<1>3. CASE items' = [items EXCEPT ![i] = r]
  BY <1>1, <1>3, KeptRow
<1>4. Recorded(i, s, o, v) = IF Accepted(i) THEN Verdict(i, s, o, v) ELSE items
  BY DEF Recorded, Verdict
<1> QED BY <1>1, <1>2, <1>3, <1>4

Marked(i, s) == [items EXCEPT ![i].status = s]
Canceled(i) == [items EXCEPT ![i].status = "canceled", ![i].outcome = "canceled"]

(* So does writing its status, or canceling it. *)
LEMMA StatusRow ==
  ASSUME StageInv, NEW i \in Ids, NEW s \in Statuses \ {"succeeded"}
  PROVE  /\ \E r \in Rows : /\ Same(r, items[i]) /\ r.status = s /\ r.output = items[i].output
                            /\ Marked(i, s) = [items EXCEPT ![i] = r]
         /\ \E r \in Rows : /\ Same(r, items[i]) /\ r.status = "canceled" /\ r.output = items[i].output
                            /\ Canceled(i) = [items EXCEPT ![i] = r]
<1> DEFINE r == [items[i] EXCEPT !.status = s]
           q == [items[i] EXCEPT !.status = "canceled", !.outcome = "canceled"]
<1>1. items \in Seq(Rows) /\ Ids = 1..Len(items)
  BY LenProperties DEF StageInv, RowFacts, Ids
<1>2. items[i] \in Rows
  BY <1>1, ElementOfSeq
<1>3. r \in Rows /\ Same(r, items[i]) /\ r.status = s /\ r.output = items[i].output
  BY <1>2 DEF Rows, Same
<1>4. q \in Rows /\ Same(q, items[i]) /\ q.status = "canceled" /\ q.output = items[i].output
  BY <1>2 DEF Rows, Same, Statuses
<1>5. Marked(i, s) = [items EXCEPT ![i] = r]
  BY <1>1, <1>2 DEF Rows, Ids, Marked
<1>6. Canceled(i) = [items EXCEPT ![i] = q]
  BY <1>1, <1>2 DEF Rows, Ids, Canceled
<1> HIDE DEF r, q
<1> QED BY <1>3, <1>4, <1>5, <1>6

(* A row that has no result, or none any more, breaks no fact about results. *)
LEMMA KeptStatus ==
  ASSUME StageInv, NEW i \in Ids, NEW s \in Statuses \ {"succeeded"},
         needs' = needs, stored' = stored, items' = Marked(i, s) \/ items' = Canceled(i)
  PROVE  Grows /\ RowFacts' /\ Ids' = Ids
<1>1. PICK r \in Rows : /\ Same(r, items[i]) /\ r.status # "succeeded" /\ r.output = items[i].output
                        /\ items' = [items EXCEPT ![i] = r]
  BY StatusRow
<1>2. r.output # None => r.output \in stored'
  BY <1>1 DEF StageInv, RowFacts, Resulted
<1> QED BY <1>1, <1>2, KeptRow

(* Calls that go on, and calls that are done looking. *)
LEMMA KeptCalls ==
  ASSUME StageInv, Grows, calls' = calls
  PROVE  calls' \in [Clients -> Calls] /\ \A p \in Clients : CallFacts(p)'
BY KeptCall DEF StageInv

(* A command that moves to a step without an order has nothing to be known   *)
(* of it.                                                                    *)
LEMMA NewCall ==
  ASSUME StageInv, Grows, NEW p \in Clients, NEW c \in Calls, calls' = [calls EXCEPT ![p] = c],
         c.phase # "looked", c.phase \in {"scheduled", "publishing"} => c.item \in Ids'
  PROVE  calls' \in [Clients -> Calls] /\ \A q \in Clients : CallFacts(q)'
<1>1. calls \in [Clients -> Calls]
  BY DEF StageInv
<1>2. calls' \in [Clients -> Calls] /\ calls'[p] = c /\ \A q \in Clients \ {p} : calls'[q] = calls[q]
  BY <1>1
<1>3. \A q \in Clients \ {p} : CallFacts(q)'
  BY <1>2, KeptCall
<1>4. CallFacts(p)'
  BY <1>2 DEF CallFacts
<1> QED BY <1>2, <1>3, <1>4

(* A client without a command.                                               *)
LEMMA IdleCall == Idle \in Calls /\ Idle.phase = "idle"
BY DEF Idle, Calls

(* mark_dependency_blocked and a claim take no result away. *)
LEMMA KeptResults ==
  ASSUME StageInv, items' \in Seq(Rows), Ids' = Ids, needs' = needs, stored' = stored,
         \A i \in Ids : /\ Same(items'[i], items[i]) /\ items'[i].output = items[i].output
                        /\ items'[i].status = "succeeded" => items'[i] = items[i]
  PROVE  Grows /\ RowFacts'
<1>1. Grows
  BY DEF Grows
<1>2. \A i \in Ids : Ordered(i)'
  BY <1>1, KeptOrders
<1>3. \A i \in Ids : Resulted(i)'
  BY DEF StageInv, RowFacts, Resulted, Same
<1>4. \A i, j \in Ids : Same(items'[i], items'[j]) => i = j
  BY DEF StageInv, RowFacts, Same
<1> QED BY <1>1, <1>2, <1>3, <1>4 DEF RowFacts

(* Blocking changes the status of pending items and nothing else.            *)
LEMMA Blocked ==
  ASSUME StageInv
  PROVE  /\ AfterBlocking \in Seq(Rows) /\ DOMAIN AfterBlocking = Ids
         /\ \A i \in Ids : /\ Same(AfterBlocking[i], items[i])
                           /\ AfterBlocking[i].output = items[i].output
                           /\ AfterBlocking[i].status = "succeeded" => AfterBlocking[i] = items[i]
                           /\ AfterBlocking[i].status = "pending" => AfterBlocking[i] = items[i]
<1>1. items \in Seq(Rows) /\ Ids = 1..Len(items) /\ Len(items) \in Nat
  BY LenProperties DEF StageInv, RowFacts, Ids
<1>2. \A i \in Ids : items[i] \in Rows
  BY <1>1, ElementOfSeq
<1>3. ASSUME NEW i \in Ids
      PROVE  LET r == [items[i] EXCEPT !.status = "blocked", !.outcome = "dependency_failed"]
             IN r \in Rows /\ Same(r, items[i]) /\ r.output = items[i].output /\ r.status = "blocked"
  BY <1>2 DEF Rows, Statuses, Same
<1>4. \A i \in Ids : /\ AfterBlocking[i] \in Rows
                     /\ Same(AfterBlocking[i], items[i])
                     /\ AfterBlocking[i].output = items[i].output
                     /\ AfterBlocking[i].status = "succeeded" => AfterBlocking[i] = items[i]
                     /\ AfterBlocking[i].status = "pending" => AfterBlocking[i] = items[i]
  BY <1>2, <1>3 DEF AfterBlocking, Same
<1>5. DOMAIN AfterBlocking = 1..Len(items) /\ AfterBlocking \in [1..Len(items) -> Rows]
  <2>1. AfterBlocking = [i \in 1..Len(items) |-> AfterBlocking[i]]
    BY <1>1 DEF AfterBlocking
  <2> QED BY <1>1, <1>4, <2>1
<1>6. AfterBlocking \in Seq(Rows)
  BY <1>1, <1>5, SeqDef
<1> QED BY <1>1, <1>4, <1>5, <1>6

(* A poll blocks rows and claims at most one that is pending. *)
LEMMA PollsStep ==
  ASSUME StageInv, NEW w \in Slots, Polls(w)
  PROVE  StageInv'
<1>1. UNCHANGED <<needs, stored, available, calls, turn>>
  BY DEF Polls
<1>2. Ids = 1..Len(items) /\ Ids = DOMAIN items /\ 0 \notin Ids
  BY LenProperties DEF StageInv, RowFacts, Ids
<1>3. /\ Grows /\ RowFacts' /\ Ids' = Ids
      /\ doing' \in [Slots \cup Clients -> Ids \cup {0}] /\ composed' \subseteq composed
  <2>1. CASE items' = AfterBlocking /\ UNCHANGED <<doing, composed>>
    <3>1. Ids' = Ids
      BY <2>1, Blocked DEF Ids
    <3>2. /\ items' \in Seq(Rows)
          /\ \A j \in Ids : /\ Same(items'[j], items[j]) /\ items'[j].output = items[j].output
                            /\ items'[j].status = "succeeded" => items'[j] = items[j]
      BY <2>1, Blocked
    <3>3. Grows /\ RowFacts'
      BY <1>1, <3>1, <3>2, KeptResults
    <3> QED BY <2>1, <3>1, <3>3 DEF StageInv, TypeOK
  <2>2. ASSUME NEW i \in Claimable(w),
               items' = [AfterBlocking EXCEPT ![i].status = "running"],
               doing' = [doing EXCEPT ![w] = i], composed' = composed \ {i}
        PROVE  /\ Grows /\ RowFacts' /\ Ids' = Ids
               /\ doing' \in [Slots \cup Clients -> Ids \cup {0}] /\ composed' \subseteq composed
    <3> DEFINE r == [AfterBlocking[i] EXCEPT !.status = "running"]
    <3>1. i \in Ids
      BY <2>2 DEF Claimable
    <3>2. AfterBlocking \in Seq(Rows) /\ i \in 1..Len(AfterBlocking) /\ DOMAIN AfterBlocking = Ids
          /\ Ids = 1..Len(AfterBlocking)
      BY <3>1, Blocked, LenProperties
    <3>3. AfterBlocking[i] \in Rows
      BY <3>2, ElementOfSeq
    <3>4. /\ r \in Rows /\ Same(r, AfterBlocking[i]) /\ r.output = AfterBlocking[i].output
          /\ r.status = "running"
      BY <3>3 DEF Rows, Same, Statuses
    <3>5. items' = [AfterBlocking EXCEPT ![i] = r]
      BY <2>2, <3>2
    <3> HIDE DEF r
    <3>6. /\ items' \in Seq(Rows) /\ Len(items') = Len(AfterBlocking)
          /\ \A j \in Ids : items'[j] = IF j = i THEN r ELSE AfterBlocking[j]
      BY <3>2, <3>4, <3>5, ExceptSeq
    <3>7. Ids' = Ids
      BY <3>2, <3>6, LenProperties DEF Ids
    <3>8. \A j \in Ids : /\ Same(items'[j], items[j]) /\ items'[j].output = items[j].output
                         /\ items'[j].status = "succeeded" => items'[j] = items[j]
      <4> TAKE j \in Ids
      <4>1. /\ Same(AfterBlocking[j], items[j]) /\ AfterBlocking[j].output = items[j].output
            /\ AfterBlocking[j].status = "succeeded" => AfterBlocking[j] = items[j]
        BY Blocked
      <4>2. CASE j = i
        <5>1. items'[j] = r
          BY <3>6, <4>2
        <5>2. Same(r, items[j])
          BY <3>4, <4>1, <4>2 DEF Same
        <5> QED BY <3>4, <4>1, <4>2, <5>1, <5>2
      <4>3. CASE j # i
        BY <3>6, <4>1, <4>3
      <4> QED BY <4>2, <4>3
    <3>9. Grows /\ RowFacts'
      BY <1>1, <3>6, <3>7, <3>8, KeptResults
    <3> QED BY <2>2, <3>1, <3>7, <3>9 DEF StageInv, TypeOK
  <2> QED BY <2>1, <2>2 DEF Polls
<1>4. calls' \in [Clients -> Calls] /\ \A p \in Clients : CallFacts(p)'
  BY <1>1, <1>3, KeptCalls
<1>5. /\ needs' \subseteq Ids' \X Ids' /\ composed' \subseteq Ids'
      /\ available' \subseteq Languages /\ stored' \subseteq Languages /\ turn' \in 1..5
  BY <1>1, <1>3 DEF StageInv, TypeOK
<1> QED BY <1>3, <1>4, <1>5, KeptTypes

(* What a slot or a client executes is a row. *)
LEMMA DoneType ==
  ASSUME StageInv, NEW w \in Slots \cup Clients, doing' = [doing EXCEPT ![w] = 0]
  PROVE  /\ doing' \in [Slots \cup Clients -> Ids \cup {0}]
         /\ doing[w] # 0 => doing[w] \in Ids
BY DEF StageInv, TypeOK

(* An executor records a transcript only once it is stored. *)
LEMMA ExecutesStep ==
  ASSUME StageInv, NEW w \in Slots \cup Clients, Executes(w)
  PROVE  StageInv'
<1> DEFINE i == doing[w]
<1>1. /\ UNCHANGED <<needs, available, calls, turn>>
      /\ i \in Ids /\ doing' \in [Slots \cup Clients -> Ids \cup {0}]
  BY DoneType DEF Executes
<1>2. Ordered(i)
  BY <1>1 DEF StageInv, RowFacts
<1>3. \A s \in {"succeeded", "failed"} : s \in Statuses
  BY DEF Statuses
<1>4. /\ Grows /\ RowFacts' /\ Ids' = Ids
      /\ stored' \subseteq Languages /\ composed' \subseteq composed \cup {i}
  <2>1. CASE FetchesTranscript(i)
    <3> DEFINE l == items[i].choice
    <3>1. l \in Languages
      BY <1>2, <2>1 DEF FetchesTranscript, Ordered
    <3>2. CASE items' = Recorded(i, "succeeded", None, l) /\ stored' = stored \cup {l}
      <4>1. Grows /\ RowFacts' /\ Ids' = Ids
        BY <1>1, <1>3, <3>1, <3>2, RecordedRow
      <4> QED BY <2>1, <3>1, <3>2, <4>1 DEF FetchesTranscript, StageInv, TypeOK
    <3>3. CASE items' = Recorded(i, "succeeded", "no_transcript", None) /\ stored' = stored
      <4>1. None # "no_transcript"
        BY NameAssumption
      <4>2. Grows /\ RowFacts' /\ Ids' = Ids
        BY <1>1, <1>3, <3>3, <4>1, RecordedRow
      <4> QED BY <2>1, <3>3, <4>2 DEF FetchesTranscript, StageInv, TypeOK
    <3> QED BY <2>1, <3>2, <3>3 DEF FetchesTranscript
  <2>2. CASE StoresCues(i)
    <3>1. /\ items[i].task = "cue" /\ items' = Recorded(i, "succeeded", None, items[i].choice)
          /\ UNCHANGED <<stored, composed>>
      BY <2>2 DEF StoresCues
    <3>2. items[i].choice \in stored /\ stored \subseteq Languages
      BY <1>2, <3>1 DEF Ordered, StageInv, TypeOK
    <3>3. Grows /\ RowFacts' /\ Ids' = Ids
      BY <1>1, <1>3, <3>1, <3>2, RecordedRow
    <3> QED BY <3>1, <3>2, <3>3
  <2>3. CASE StoresMicroEvents(i) \/ StoresComposition(i) \/ BuildsArchive(i)
    <3>1. /\ items[i].task # "collect" /\ items' = Recorded(i, "succeeded", None, None)
          /\ stored' = stored /\ composed' \subseteq composed \cup {i}
      BY <2>3 DEF StoresMicroEvents, StoresComposition, BuildsArchive
    <3>2. Grows /\ RowFacts' /\ Ids' = Ids
      BY <1>1, <1>3, <3>1, RecordedRow
    <3> QED BY <3>1, <3>2 DEF StageInv, TypeOK
  <2> QED BY <2>1, <2>2, <2>3 DEF Executes
<1>5. calls' \in [Clients -> Calls] /\ \A p \in Clients : CallFacts(p)'
  BY <1>1, <1>4, KeptCalls
<1>6. needs' \subseteq Ids' \X Ids' /\ composed' \subseteq Ids' /\ available' \subseteq Languages
      /\ turn' \in 1..5
  BY <1>1, <1>4 DEF StageInv, TypeOK
<1> QED BY <1>1, <1>4, <1>5, <1>6, KeptTypes

(* A failed execution preserves the invariant.                               *)
LEMMA FailsStep ==
  ASSUME StageInv, NEW w \in Slots \cup Clients, Fails(w)
  PROVE  StageInv'
<1> DEFINE i == doing[w]
<1>1. /\ UNCHANGED <<needs, world, calls, turn>> /\ stored' = stored
      /\ i \in Ids /\ doing' \in [Slots \cup Clients -> Ids \cup {0}]
      /\ items' = items \/ items' = Marked(i, "failed")
  BY DoneType DEF Fails, RecordedFailure, Marked, world
<1>2. Grows /\ RowFacts' /\ Ids' = Ids
  <2>1. "failed" \in Statuses \ {"succeeded"}
    BY DEF Statuses
  <2> QED BY <1>1, <2>1, KeptStatus, KeptRows
<1>3. calls' \in [Clients -> Calls] /\ \A p \in Clients : CallFacts(p)'
  BY <1>1, <1>2, KeptCalls
<1>4. turn' \in 1..5
  BY <1>1 DEF StageInv, TypeOK
<1> QED BY <1>1, <1>2, <1>3, <1>4, KeptWorld

(* So does a cancellation.                                                   *)
LEMMA CancelsStep ==
  ASSUME StageInv, NEW i \in Ids, Cancels(i)
  PROVE  StageInv'
<1>1. /\ UNCHANGED <<needs, world, doing, calls, turn>> /\ stored' = stored
      /\ items' = Canceled(i)
  BY DEF Cancels, world, Canceled
<1>2. Grows /\ RowFacts' /\ Ids' = Ids
  <2>1. "failed" \in Statuses \ {"succeeded"}
    BY DEF Statuses
  <2> QED BY <1>1, <2>1, KeptStatus
<1>3. calls' \in [Clients -> Calls] /\ \A p \in Clients : CallFacts(p)'
  BY <1>1, <1>2, KeptCalls
<1>4. turn' \in 1..5 /\ doing' \in [Slots \cup Clients -> Ids \cup {0}]
  BY <1>1 DEF StageInv, TypeOK
<1> QED BY <1>1, <1>2, <1>3, <1>4, KeptWorld

(* PublishArchivesUseCase starts the item it has scheduled. *)
LEMMA RunsInlineStep ==
  ASSUME StageInv, NEW p \in Clients, RunsInline(p)
  PROVE  StageInv'
<1> DEFINE i == calls[p].item
<1>1. i \in Ids /\ calls[p].phase = "scheduled"
  BY DEF RunsInline, StageInv, CallFacts
<1>2. UNCHANGED <<needs, world, turn>> /\ stored' = stored
  BY DEF RunsInline, world
<1>3. turn' \in 1..5
  BY <1>2 DEF StageInv, TypeOK
<1>4. CASE /\ items' = Marked(i, "running") /\ doing' = [doing EXCEPT ![p] = i]
           /\ calls' = [calls EXCEPT ![p].phase = "publishing"]
  <2>1. Grows /\ RowFacts' /\ Ids' = Ids
    <3>1. "running" \in Statuses \ {"succeeded"}
      BY DEF Statuses
    <3> QED BY <1>1, <1>2, <1>4, <3>1, KeptStatus
  <2>2. doing' \in [Slots \cup Clients -> Ids \cup {0}]
    BY <1>1, <1>4 DEF StageInv, TypeOK
  <2>3. PICK c \in Calls : /\ calls' = [calls EXCEPT ![p] = c]
                           /\ c.phase = "publishing" /\ c.item = i
    <3>1. calls[p] \in Calls
      BY DEF StageInv
    <3>2. /\ [calls[p] EXCEPT !.phase = "publishing"] \in Calls
          /\ [calls[p] EXCEPT !.phase = "publishing"].phase = "publishing"
          /\ [calls[p] EXCEPT !.phase = "publishing"].item = i
      BY <3>1 DEF Calls
    <3>3. calls' = [calls EXCEPT ![p] = [calls[p] EXCEPT !.phase = "publishing"]]
      BY <1>4
    <3> QED BY <3>2, <3>3
  <2>4. calls' \in [Clients -> Calls] /\ \A q \in Clients : CallFacts(q)'
    BY <1>1, <2>1, <2>3, NewCall
  <2> QED BY <1>2, <1>3, <2>1, <2>2, <2>4, KeptWorld
<1>5. CASE calls' = [calls EXCEPT ![p] = Idle] /\ UNCHANGED <<items, doing>>
  <2>1. Grows /\ RowFacts' /\ Ids' = Ids
    BY <1>2, <1>5, KeptRows
  <2>2. calls' \in [Clients -> Calls] /\ \A q \in Clients : CallFacts(q)'
    BY <1>5, <2>1, IdleCall, NewCall
  <2>3. doing' \in [Slots \cup Clients -> Ids \cup {0}]
    BY <1>5 DEF StageInv, TypeOK
  <2> QED BY <1>2, <1>3, <2>1, <2>2, <2>3, KeptWorld
<1> QED BY <1>4, <1>5 DEF RunsInline, Marked

(* So does the return of a command.                                          *)
LEMMA ReturnsStep ==
  ASSUME StageInv, NEW p \in Clients, Returns(p)
  PROVE  StageInv'
<1>1. /\ UNCHANGED <<items, needs, world, doing, turn>> /\ stored' = stored
      /\ calls' = [calls EXCEPT ![p] = Idle]
  BY DEF Returns, world
<1>2. Grows /\ RowFacts' /\ Ids' = Ids
  BY <1>1, KeptRows
<1>3. calls' \in [Clients -> Calls] /\ \A q \in Clients : CallFacts(q)'
  BY <1>1, <1>2, IdleCall, NewCall
<1>4. turn' \in 1..5 /\ doing' \in [Slots \cup Clients -> Ids \cup {0}]
  BY <1>1 DEF StageInv, TypeOK
<1> QED BY <1>1, <1>2, <1>3, <1>4, KeptWorld

(* A process that dies loses its call; the item it ran is failed. *)
LEMMA DiesStep ==
  ASSUME StageInv, NEW p \in Clients, Dies(p)
  PROVE  StageInv'
<1>1. /\ UNCHANGED <<needs, world, turn>> /\ stored' = stored
      /\ calls' = [calls EXCEPT ![p] = Idle] /\ doing' = [doing EXCEPT ![p] = 0]
  BY DEF Dies, world
<1>2. doing' \in [Slots \cup Clients -> Ids \cup {0}] /\ (doing[p] # 0 => doing[p] \in Ids)
  BY <1>1, DoneType
<1>3. Grows /\ RowFacts' /\ Ids' = Ids
  <2>1. CASE doing[p] # 0 /\ items' = Marked(doing[p], "failed")
    <3>1. "failed" \in Statuses \ {"succeeded"}
      BY DEF Statuses
    <3> QED BY <1>1, <1>2, <2>1, <3>1, KeptStatus
  <2>2. CASE items' = items
    BY <1>1, <2>2, KeptRows
  <2> QED BY <2>1, <2>2 DEF Dies, Marked
<1>4. calls' \in [Clients -> Calls] /\ \A q \in Clients : CallFacts(q)'
  BY <1>1, <1>3, IdleCall, NewCall
<1>5. turn' \in 1..5
  BY <1>1 DEF StageInv, TypeOK
<1> QED BY <1>1, <1>2, <1>3, <1>4, <1>5, KeptWorld

(* So does a transcript that appears.                                        *)
LEMMA AppearsStep ==
  ASSUME StageInv, NEW l \in Languages, TranscriptAppears(l)
  PROVE  StageInv'
<1>1. /\ UNCHANGED <<items, needs, stored, composed, doing, calls, turn>>
      /\ available' = available \cup {l}
  BY DEF TranscriptAppears
<1>2. Grows /\ RowFacts' /\ Ids' = Ids
  BY <1>1, KeptRows
<1>3. calls' \in [Clients -> Calls] /\ \A p \in Clients : CallFacts(p)'
  BY <1>1, <1>2, KeptCalls
<1>4. /\ needs' \subseteq Ids' \X Ids' /\ composed' \subseteq Ids'
      /\ available' \subseteq Languages /\ stored' \subseteq Languages
      /\ doing' \in [Slots \cup Clients -> Ids' \cup {0}] /\ turn' \in 1..5
  BY <1>1, <1>2 DEF StageInv, TypeOK
<1> QED BY <1>2, <1>3, <1>4, KeptTypes

(* A step of nothing but the agent's turn. *)
LEMMA IdleStep ==
  ASSUME StageInv, UNCHANGED <<items, needs, world, doing, calls>>, turn' \in 1..5
  PROVE  StageInv'
<1>1. stored' = stored
  BY DEF world
<1>2. Grows /\ RowFacts' /\ Ids' = Ids
  BY <1>1, KeptRows
<1>3. calls' \in [Clients -> Calls] /\ \A p \in Clients : CallFacts(p)'
  BY <1>2, KeptCalls
<1>4. doing' \in [Slots \cup Clients -> Ids \cup {0}]
  BY DEF StageInv, TypeOK
<1> QED BY <1>2, <1>3, <1>4, KeptWorld

(* The agent asks for what it wants, stage by stage. *)
LEMMA AgentStep ==
  ASSUME StageInv, AgentCalls
  PROVE  StageInv'
<1> DEFINE task == Stages[turn]
<1>1. turn \in 1..5
  BY DEF StageInv, TypeOK
<1>2. turn' \in 1..5
  BY <1>1 DEF AgentCalls
<1>3. task \in Tasks /\ "agent" \in Clients /\ Diligent \in FlagSet
  BY <1>1 DEF Tasks, Stages, Clients, Diligent, FlagSet
<1>4. /\ task = "collect" => AgentChoice(task) \in Languages
      /\ task = "timeline" => AgentChoice(task) \in Models
  BY StageAssumption DEF AgentChoice
<1>5. CASE Looks("agent", task, AgentChoice(task), Diligent)
  BY <1>2, <1>3, <1>4, <1>5, LooksStep
<1>6. CASE UNCHANGED <<items, needs, world, doing, calls>>
  BY <1>2, <1>6, IdleStep
<1> QED BY <1>5, <1>6 DEF AgentCalls

(* So does another client's command.                                         *)
LEMMA OtherStep ==
  ASSUME StageInv, OtherCalls
  PROVE  StageInv'
<1>1. turn' \in 1..5
  BY DEF OtherCalls, StageInv, TypeOK
<1>2. PICK flags \in Flags :
        \/ CollectTranscripts("other", flags) \/ GenerateCues("other", flags)
        \/ ExtractMicroEvents("other", flags) \/ ComposeTimelines("other", flags)
        \/ PublishArchives("other", flags)
  BY DEF OtherCalls
<1>3. "other" \in Clients /\ flags \in FlagSet
  BY StageAssumption DEF Clients
<1>4. CASE CollectTranscripts("other", flags)
  <2>1. PICK l \in Languages : Looks("other", "collect", l, flags)
    BY <1>4 DEF CollectTranscripts
  <2> QED BY <1>1, <1>3, <2>1, LooksStep, TaskNames
<1>5. CASE GenerateCues("other", flags)
  BY <1>1, <1>3, <1>5, LooksStep, TaskNames DEF GenerateCues
<1>6. CASE ExtractMicroEvents("other", flags)
  BY <1>1, <1>3, <1>6, LooksStep, TaskNames DEF ExtractMicroEvents
<1>7. CASE ComposeTimelines("other", flags)
  <2>1. PICK m \in Models : Looks("other", "timeline", m, flags)
    BY <1>7 DEF ComposeTimelines
  <2> QED BY <1>1, <1>3, <2>1, LooksStep, TaskNames
<1>8. CASE PublishArchives("other", flags)
  BY <1>1, <1>3, <1>8, LooksStep, TaskNames DEF PublishArchives
<1> QED BY <1>2, <1>4, <1>5, <1>6, <1>7, <1>8

(* Every step preserves the invariant.                                       *)
LEMMA StageNext == StageInv /\ [Next]_vars => StageInv'
<1> SUFFICES ASSUME StageInv, [Next]_vars PROVE StageInv'
  OBVIOUS
<1>1. CASE AgentCalls
  BY <1>1, AgentStep
<1>2. CASE OtherCalls
  BY <1>2, OtherStep
<1>3. ASSUME NEW p \in Clients, Writes(p) \/ RunsInline(p) \/ Returns(p) \/ Dies(p)
      PROVE  StageInv'
  BY <1>3, WritesStep, RunsInlineStep, ReturnsStep, DiesStep
<1>4. ASSUME NEW w \in Slots, Polls(w) PROVE StageInv'
  BY <1>4, PollsStep
<1>5. ASSUME NEW w \in Slots \cup Clients, Executes(w) \/ Fails(w) PROVE StageInv'
  BY <1>5, ExecutesStep, FailsStep
<1>6. ASSUME NEW i \in Ids, Cancels(i) PROVE StageInv'
  BY <1>6, CancelsStep
<1>7. ASSUME NEW l \in Languages, TranscriptAppears(l) PROVE StageInv'
  BY <1>7, AppearsStep
<1>8. CASE UNCHANGED vars
  <2>1. UNCHANGED <<items, needs, world, doing, calls>> /\ turn' \in 1..5
    BY <1>8 DEF vars, StageInv, TypeOK
  <2> QED BY <2>1, IdleStep
<1> QED BY <1>1, <1>2, <1>3, <1>4, <1>5, <1>6, <1>7, <1>8 DEF Next

(* Whatever commands, cancellations and failures come between what a command  *)
(* has looked up and what it writes, rows and calls are founded: an order     *)
(* names a row that is its dependency, a cue item names a stored transcript   *)
(* and depends on a collect item for that transcript.                         *)
THEOREM StageInvariant == Spec => []StageInv
BY StageInit, StageNext, PTL DEF Spec

(* The rows have their types, no two share an idempotency key whichever       *)
(* commands race to insert them, and only a stored transcript is an output.   *)
THEOREM StageTypes == Spec => []TypeOK
<1>1. StageInv => TypeOK
  BY DEF StageInv
<1> QED BY <1>1, StageInvariant, PTL

(* A worker starts an item only while what it was ordered for has a usable    *)
(* result: the micro-event, timeline or archive item's source, or a collect   *)
(* item whose output is the transcript that the cue item names.               *)
THEOREM StartsAfterSource == Spec => StartsAfterItsSource
<1> DEFINE Founded(w) ==
      (doing[w] = 0 /\ doing'[w] # 0) =>
         LET i == doing'[w]
         IN /\ items[i].source # 0 =>
                 items[items[i].source].status = "succeeded" /\ Usable(items[i].source)
            /\ items[i].task = "cue" =>
                 \E c \in Ids : /\ items[c].task = "collect" /\ items[c].status = "succeeded"
                                /\ items[c].output = items[i].choice
<1>1. ASSUME StageInv, NEW w \in Slots, NEW v \in Slots, Polls(v) PROVE Founded(w)
  <2>1. CASE doing'[w] = doing[w]
    BY <2>1
  <2>2. CASE doing'[w] # doing[w]
    <3>1. doing \in [Slots \cup Clients -> Ids \cup {0}]
      BY <1>1 DEF StageInv, TypeOK
    <3>2. PICK i \in Claimable(v) : doing' = [doing EXCEPT ![v] = i]
      BY <1>1, <2>2 DEF Polls
    <3>3. w = v /\ doing'[w] = i
      BY <2>2, <3>1, <3>2
    <3>4. i \in Ids /\ Satisfied(i) /\ Ordered(i)
      BY <1>1, <3>2 DEF Claimable, StageInv, RowFacts
    <3>5. items[i].source # 0 => items[items[i].source].status = "succeeded" /\ Usable(items[i].source)
      BY <3>4 DEF Ordered, Satisfied, Usable
    <3>6. ASSUME items[i].task = "cue"
          PROVE  \E c \in Ids : /\ items[c].task = "collect" /\ items[c].status = "succeeded"
                                /\ items[c].output = items[i].choice
      <4>1. PICK c \in Ids : /\ <<i, c>> \in needs /\ items[c].task = "collect"
                             /\ items[c].choice = items[i].choice
        BY <3>4, <3>6 DEF Ordered
      <4>2. items[c].status = "succeeded" /\ items[c].outcome = None
        BY <3>4, <4>1 DEF Satisfied
      <4>3. Resulted(c)
        BY <1>1 DEF StageInv, RowFacts
      <4> QED BY <4>1, <4>2, <4>3 DEF Resulted
    <3> QED BY <3>3, <3>5, <3>6
  <2> QED BY <2>1, <2>2
<1>2. ASSUME StageInv, [Next]_vars, \A v \in Slots : ~Polls(v), NEW w \in Slots
      PROVE  doing'[w] = doing[w] \/ doing'[w] = 0
  <2>1. w \notin Clients /\ w \in Slots \cup Clients /\ doing \in [Slots \cup Clients -> Ids \cup {0}]
    BY <1>2, NameAssumption DEF StageInv, TypeOK
  <2>2. ASSUME NEW p, NEW task, NEW choice, NEW flags, Looks(p, task, choice, flags)
        PROVE  doing' = doing
    BY <2>2 DEF Looks
  <2>3. CASE AgentCalls
    BY <2>2, <2>3 DEF AgentCalls
  <2>4. CASE OtherCalls
    BY <2>2, <2>4 DEF OtherCalls, CollectTranscripts, GenerateCues, ExtractMicroEvents,
                      ComposeTimelines, PublishArchives
  <2>5. ASSUME NEW p \in Clients, Writes(p) \/ RunsInline(p) \/ Returns(p) \/ Dies(p)
        PROVE  doing'[w] = doing[w]
    BY <2>1, <2>5 DEF Writes, RunsInline, Returns, Dies
  <2>6. ASSUME NEW v \in Slots \cup Clients, Executes(v) \/ Fails(v)
        PROVE  doing'[w] = doing[w] \/ doing'[w] = 0
    <3>1. doing' = [doing EXCEPT ![v] = 0]
      BY <2>6 DEF Executes, Fails
    <3> QED BY <2>1, <3>1
  <2>7. CASE (\E i \in Ids : Cancels(i)) \/ (\E l \in Languages : TranscriptAppears(l)) \/ UNCHANGED vars
    BY <2>7 DEF Cancels, TranscriptAppears, vars
  <2> QED BY <1>2, <2>3, <2>4, <2>5, <2>6, <2>7 DEF Next
<1>3. StageInv /\ [Next]_vars => [\A w \in Slots : Founded(w)]_vars
  <2> SUFFICES ASSUME StageInv, [Next]_vars, NEW w \in Slots PROVE Founded(w)
    OBVIOUS
  <2>1. CASE \E v \in Slots : Polls(v)
    BY <1>1, <2>1
  <2>2. CASE \A v \in Slots : ~Polls(v)
    BY <1>2, <2>2
  <2> QED BY <2>1, <2>2
<1> QED BY <1>3, StageInvariant, PTL DEF Spec, StartsAfterItsSource
=============================================================================
