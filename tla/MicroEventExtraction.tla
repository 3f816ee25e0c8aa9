-------------------------- MODULE MicroEventExtraction --------------------------
(* The extraction of the micro-events of one video: a work item, its attempts,   *)
(* and the rows of its windows.  An attempt reads the cues, resumes the windows  *)
(* an earlier attempt stored or starts over, asks the model for the others with  *)
(* a few workers, repairs or retries, and replaces the rows by what it found.    *)
(* The engine around it is reduced to starting an attempt, losing its lease and  *)
(* asking for another one; WorkExecution is the detailed model of that.          *)
EXTENDS WindowValidation

CONSTANTS CueLists,      \* the cue lists the transcript may have
          Answers,       \* the answers the model may give for a window
          Concurrency,   \* concurrency_limit of the workers of an attempt
          MaxRetries,    \* _MICRO_EVENT_WINDOW_MAX_RETRY_ATTEMPTS
          MaxAttempts,   \* bound on the attempts of the item
          MaxFaults      \* bound on crashes, timeouts, lost leases and new cues

ASSUME ConcurrencyAssumption == Concurrency \in Nat \ {0}
ASSUME BoundsAssumption == {MaxRetries, MaxAttempts, MaxFaults} \subseteq Nat
ASSUME CueAssumption == CueLists \subseteq Seq(Cues) \ {<<>>}
ASSUME AnswerAssumption == Answers \subseteq AnswerType

VARIABLES cues,          \* the cues stored for the transcript
          item,          \* status of the work item
          rows,          \* stored windows, by window index
          attempts,      \* the attempts begun, oldest first
          faults,        \* how many faults happened
          overlapped     \* an attempt began while an earlier one was alive

vars == <<cues, item, rows, attempts, faults, overlapped>>

Pcs == {"planning", "extracting", "storing", "recording", "ended"}

Alive(a) == attempts[a].pc # "ended"

-----------------------------------------------------------------------------
(* Rows.                                                                        *)

(* Windows and judged answers, as functions of their constant inputs.           *)
WindowsFor == [list \in CueLists |-> Windows(list)]

Judged(answer, owned) ==
  LET verdict == Verdict(answer, owned)
  IN  [verdict |-> verdict,
       ranges |-> IF verdict = "valid" THEN ToSet(Ranges(answer, owned)) ELSE {}]

MayAnswer ==
  [owned \in UNION {ToSet(WindowsFor[list]) : list \in CueLists} |->
     {Judged(answer, owned) : answer \in Answers}]

SucceededRow(judged, owned) ==
  [status |-> "succeeded", shape |-> ShapeOf(owned), ranges |-> judged.ranges]

FailedRow(owned) == [status |-> "failed", shape |-> ShapeOf(owned), ranges |-> {}]

(* upsert_window and replace_extraction each delete and insert in one           *)
(* transaction.                                                                 *)
Upserted(table, w, row) ==
  [i \in DOMAIN table \cup {w} |-> IF i = w THEN row ELSE table[i]]

WindowsOf(a) == WindowsFor[attempts[a].cues]

ResumableWhenComplete(a) ==
  DOMAIN rows = DOMAIN WindowsOf(a) /\ \A w \in DOMAIN rows : rows[w].status = "succeeded"

ResumableByIndex(a) == \A w \in DOMAIN rows : w \in DOMAIN WindowsOf(a)

(* The rows fit the windows of this attempt: none too many, none of another     *)
(* shape.  Only then are the succeeded ones resumed.                            *)
Resumable(a) ==
  \A w \in DOMAIN rows : w \in DOMAIN WindowsOf(a) /\ rows[w].shape = ShapeOf(WindowsOf(a)[w])

Succeeded(table) == {w \in DOMAIN table : table[w].status = "succeeded"}

-----------------------------------------------------------------------------
NewAttempt ==
  [pc |-> "planning", cues |-> cues, resume |-> rows # <<>>, results |-> <<>>,
   todo |-> {}, calling |-> {}, repairing |-> {}, again |-> {}, invalid |-> {},
   round |-> 0, outcome |-> "none"]

Init ==
  /\ cues \in CueLists
  /\ item = "pending"
  /\ rows = <<>>
  /\ attempts = <<>>
  /\ faults = 0
  /\ overlapped = FALSE

Become(a, at) == attempts' = [attempts EXCEPT ![a] = at]

(* The item is claimed: the cues are read, and whether windows are stored.      *)
Begin ==
  /\ item = "pending"
  /\ Len(attempts) < MaxAttempts
  /\ item' = "running"
  /\ attempts' = Append(attempts, NewAttempt)
  /\ overlapped' = (overlapped \/ \E a \in DOMAIN attempts : Alive(a))
  /\ UNCHANGED <<cues, rows, faults>>

(* The plan keeps the succeeded rows of an earlier attempt, or deletes all rows *)
(* and takes every window.                                                      *)
Plan(a) ==
  /\ attempts[a].pc = "planning"
  /\ LET windows == DOMAIN WindowsOf(a)
         resumed == attempts[a].resume /\ Resumable(a)
         keep == IF resumed THEN Succeeded(rows) ELSE {}
         through == windows \subseteq keep
     IN  /\ rows' = IF windows = {} \/ resumed THEN rows ELSE <<>>
         /\ Become(a, [attempts[a] EXCEPT !.pc = IF through THEN "storing" ELSE "extracting",
                                         !.outcome = IF through THEN "succeeded" ELSE "none",
                                         !.results = [w \in keep |-> rows[w]],
                                         !.todo = windows \ keep])
  /\ UNCHANGED <<cues, item, faults, overlapped>>

(* A free worker takes a window of the batch and calls the model.               *)
Call(a, w) ==
  /\ attempts[a].pc = "extracting"
  /\ w \in attempts[a].todo
  /\ Cardinality(attempts[a].calling \cup attempts[a].repairing) < Concurrency
  /\ Become(a, [attempts[a] EXCEPT !.todo = @ \ {w}, !.calling = @ \cup {w}])
  /\ UNCHANGED <<cues, item, rows, faults, overlapped>>

WorksOn(a, w) ==
  attempts[a].pc = "extracting" /\ w \in attempts[a].calling \cup attempts[a].repairing

ReleasedCall(a, w) == [attempts[a] EXCEPT !.calling = @ \ {w}]

Released(a, w) == [attempts[a] EXCEPT !.calling = @ \ {w}, !.repairing = @ \ {w}]

(* The first answer or its repair is valid: the window is stored at once.       *)
Accept(a, w, judged) ==
  LET row == SucceededRow(judged, WindowsOf(a)[w])
  IN  /\ WorksOn(a, w)
      /\ judged.verdict = "valid"
      /\ rows' = Upserted(rows, w, row)
      /\ Become(a, [Released(a, w) EXCEPT !.results = Upserted(@, w, row)])
      /\ UNCHANGED <<cues, item, faults, overlapped>>

(* A recoverable first answer is sent back once for repair.                     *)
AskRepair(a, w, judged) ==
  /\ attempts[a].pc = "extracting"
  /\ w \in attempts[a].calling
  /\ judged.verdict = "recoverable"
  /\ Become(a, [attempts[a] EXCEPT !.calling = @ \ {w}, !.repairing = @ \cup {w}])
  /\ UNCHANGED <<cues, item, rows, faults, overlapped>>

(* An answer beyond repair, a repair that is not valid or a repair call that    *)
(* raises: the window has failed for this attempt.                              *)
Reject(a, w) ==
  /\ WorksOn(a, w)
  /\ \/ w \in attempts[a].repairing
     \/ \E judged \in MayAnswer[WindowsOf(a)[w]] : judged.verdict = "final"
  /\ rows' = Upserted(rows, w, FailedRow(WindowsOf(a)[w]))
  /\ Become(a, [Released(a, w) EXCEPT !.invalid = @ \cup {w}])
  /\ UNCHANGED <<cues, item, faults, overlapped>>

(* The call raises, or its result cannot be stored: a failed row now, and       *)
(* another call when the batch is through.                                      *)
CallFails(a, w) ==
  /\ WorksOn(a, w)
  /\ rows' = Upserted(rows, w, FailedRow(WindowsOf(a)[w]))
  /\ Become(a, [Released(a, w) EXCEPT !.again = @ \cup {w}])
  /\ UNCHANGED <<cues, item, faults, overlapped>>

Drained(a) ==
  /\ attempts[a].pc = "extracting"
  /\ attempts[a].todo \cup attempts[a].calling \cup attempts[a].repairing = {}

RoundUncounted(a) ==
  /\ Drained(a)
  /\ attempts[a].again # {}
  /\ attempts[a].round < MaxRetries
  /\ Become(a, [attempts[a] EXCEPT !.todo = attempts[a].again, !.again = {}])
  /\ UNCHANGED <<cues, item, rows, faults, overlapped>>

(* Every window of the batch is through: the ones whose call raised are called  *)
(* again while rounds are left.                                                 *)
NextRound(a) ==
  /\ Drained(a)
  /\ attempts[a].again # {}
  /\ attempts[a].round < MaxRetries
  /\ Become(a, [attempts[a] EXCEPT !.todo = attempts[a].again, !.again = {}, !.round = @ + 1])
  /\ UNCHANGED <<cues, item, rows, faults, overlapped>>

Failed(a) == attempts[a].again \cup attempts[a].invalid

BatchesEnd(a) ==
  /\ Drained(a)
  /\ attempts[a].again = {} \/ attempts[a].round = MaxRetries
  /\ Become(a, [attempts[a] EXCEPT !.pc = "storing",
                   !.outcome = IF Failed(a) = {} THEN "succeeded" ELSE "failed"])
  /\ UNCHANGED <<cues, item, rows, faults, overlapped>>

(* replace_extraction: the results of this attempt and its failures are all     *)
(* that is left of the windows.                                                 *)
Store(a) ==
  /\ attempts[a].pc = "storing"
  /\ rows' = [w \in DOMAIN attempts[a].results \cup Failed(a) |->
               IF w \in Failed(a) THEN FailedRow(WindowsOf(a)[w])
               ELSE attempts[a].results[w]]
  /\ Become(a, [attempts[a] EXCEPT !.pc = "recording"])
  /\ UNCHANGED <<cues, item, faults, overlapped>>

(* The item's status is written whatever it is by now.  What an attempt knew is *)
(* gone when it has ended.                                                      *)
Ended(a) ==
  [attempts[a] EXCEPT !.pc = "ended", !.results = <<>>, !.todo = {}, !.calling = {},
                      !.repairing = {}, !.again = {}, !.invalid = {}]

Record(a) ==
  /\ attempts[a].pc = "recording"
  /\ item' = attempts[a].outcome
  /\ Become(a, Ended(a))
  /\ UNCHANGED <<cues, rows, faults, overlapped>>

-----------------------------------------------------------------------------
(* What may go wrong around an attempt.                                         *)

Fault == faults < MaxFaults /\ faults' = faults + 1

(* wait_for cancels the workers; what they stored stays.  The store of a        *)
(* successful extraction is outside of it.                                      *)
TimesOut(a) ==
  /\ Fault
  /\ \/ attempts[a].pc \in {"planning", "extracting"}
     \/ attempts[a].pc = "storing" /\ attempts[a].outcome = "failed"
  /\ Become(a, [Ended(a) EXCEPT !.pc = "recording", !.outcome = "timed_out"])
  /\ UNCHANGED <<cues, item, rows, overlapped>>

(* A failed row that cannot be stored ends the extraction as it stands.         *)
Breaks(a) ==
  /\ Fault
  /\ attempts[a].pc = "extracting"
  /\ attempts[a].calling \cup attempts[a].repairing # {}
  /\ Become(a, [Ended(a) EXCEPT !.pc = "recording", !.outcome = "failed"])
  /\ UNCHANGED <<cues, item, rows, overlapped>>

Crash(a) ==
  /\ Fault
  /\ Alive(a)
  /\ Become(a, Ended(a))
  /\ UNCHANGED <<cues, item, rows, overlapped>>

(* The lease of a running item expires; the attempt that held it may live on.   *)
LosesLease ==
  /\ Fault
  /\ item = "running"
  /\ item' = "timed_out"
  /\ UNCHANGED <<cues, rows, attempts, overlapped>>

(* The engine, or an operator, asks for another attempt; an operator also after *)
(* a success (rerunSucceeded).                                                  *)
AskAgain ==
  /\ item \in {"failed", "timed_out", "succeeded"}
  /\ Len(attempts) < MaxAttempts
  /\ item' = "pending"
  /\ UNCHANGED <<cues, rows, attempts, faults, overlapped>>

(* The cues of the transcript are generated anew.                               *)
Recue ==
  /\ Fault
  /\ cues' \in CueLists \ {cues}
  /\ UNCHANGED <<item, rows, attempts, overlapped>>

-----------------------------------------------------------------------------
Progress(a) ==
  \/ Plan(a)
  \/ \E w \in DOMAIN WindowsOf(a) :
       \/ Call(a, w)
       \/ \E judged \in MayAnswer[WindowsOf(a)[w]] :
            Accept(a, w, judged) \/ AskRepair(a, w, judged)
       \/ Reject(a, w)
       \/ CallFails(a, w)
  \/ NextRound(a)
  \/ BatchesEnd(a)
  \/ Store(a)
  \/ Record(a)

Next ==
  \/ Begin
  \/ AskAgain
  \/ LosesLease
  \/ Recue
  \/ \E a \in DOMAIN attempts : Progress(a) \/ TimesOut(a) \/ Breaks(a) \/ Crash(a)

Spec == Init /\ [][Next]_vars

(* A model call returns or raises, and an attempt that is not interrupted goes  *)
(* on; no fairness on faults, on claims or on operators.                        *)
FairSpec ==
  /\ Spec
  /\ \A a \in 1 .. MaxAttempts : WF_vars(a \in DOMAIN attempts /\ Progress(a))

-----------------------------------------------------------------------------
(* The state is well formed: rows only of windows some cue list has, an attempt *)
(* works on at most Concurrency windows, each of them in one place.             *)
TypeOK ==
  /\ cues \in CueLists
  /\ item \in {"pending", "running", "succeeded", "failed", "timed_out"}
  /\ \A w \in DOMAIN rows : \E list \in CueLists :
       w \in DOMAIN WindowsFor[list] /\ rows[w].shape = ShapeOf(WindowsFor[list][w])
  /\ faults \in 0 .. MaxFaults
  /\ overlapped \in BOOLEAN
  /\ \A a \in DOMAIN attempts :
       LET at == attempts[a]
       IN  /\ at.pc \in Pcs /\ at.cues \in CueLists /\ at.round \in 0 .. MaxRetries
           /\ Cardinality(at.calling \cup at.repairing) <= Concurrency
           /\ at.pc = "extracting" =>
                Cardinality(DOMAIN WindowsFor[at.cues]) =
                  Cardinality(at.todo) + Cardinality(at.calling) + Cardinality(at.repairing)
                  + Cardinality(at.again) + Cardinality(at.invalid) + Cardinality(DOMAIN at.results)

(* Every cue that lasts is owned by some window, however the cues lie, so the   *)
(* model reads the whole transcript (_cue_windows).                             *)
NoCueIsLost ==
  \A i \in DOMAIN cues : cues[i].end > cues[i].start =>
    \E w \in DOMAIN WindowsFor[cues] : i \in ToSet(WindowsFor[cues][w])

(* A window stored as succeeded covers each cue it owns exactly once, by events *)
(* or excluded ranges, and each of its events keeps evidence inside its range   *)
(* (_validated_window), whichever of the misspelled, repaired or rearranged     *)
(* answers was taken.                                                           *)
WindowsPartitionTheirCues ==
  \A w \in Succeeded(rows) :
    /\ \A p \in 1 .. rows[w].shape.count :
         Cardinality({r \in rows[w].ranges : r.first <= p /\ p <= r.last}) = 1
    /\ \A r \in rows[w].ranges :
         /\ 1 <= r.first /\ r.last <= rows[w].shape.count
         /\ r.kind = "event" => \E p \in r.evidence : r.first <= p /\ p <= r.last

(* When the item succeeded and no two attempts overlapped, the stored windows   *)
(* are exactly those of the cues the last attempt that recorded a result read,  *)
(* and all of them succeeded, whatever failed, crashed or was resumed before.   *)
SuccessIsComplete ==
  (item = "succeeded" /\ ~overlapped) =>
    LET done == Last(attempts)
    IN  Succeeded(rows) = DOMAIN WindowsFor[done.cues] /\ DOMAIN rows = Succeeded(rows)
        /\ \A w \in DOMAIN rows : rows[w].shape = ShapeOf(WindowsFor[done.cues][w])

(* The stored rows are not rows of this attempt's windows.                      *)
Misfit(a) ==
  \E v \in DOMAIN rows :
    v \notin DOMAIN WindowsOf(a) \/ rows[v].shape # ShapeOf(WindowsOf(a)[v])

(* A stored success is never lost to a later failure, retry or restart: unless  *)
(* two attempts overlap, only an attempt whose windows no longer fit the stored *)
(* ones removes it (docs/AGENT_WORK_RUNBOOKS.md: window retries preserve        *)
(* successful windows), when it plans or, without a window, when it stores.     *)
SuccessfulWindowsAreKept ==
  [][\A w \in Succeeded(rows) :
       \/ w \in DOMAIN rows' /\ rows'[w] = rows[w]
       \/ overlapped
       \/ \E a \in DOMAIN attempts : Misfit(a) /\
            \/ attempts[a].pc = "planning"
            \/ attempts[a].pc = "storing" /\ WindowsOf(a) = <<>>]_vars

(* An attempt ends, whatever the model answers and however often its calls      *)
(* raise: the rounds are bounded for all windows together.                      *)
ExtractionEnds == \A a \in 1 .. MaxAttempts : []<>(a \in DOMAIN attempts => ~Alive(a))
=============================================================================
