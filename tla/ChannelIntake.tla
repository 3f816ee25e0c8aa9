--------------------------- MODULE ChannelIntake ---------------------------
(***************************************************************************)
(* How videos of a channel come into the database: the scheduler's tick    *)
(* (application/scheduler/use_cases.py, workers/pipeline_scheduler.py),    *)
(* the operator's video-collect command (application/videos/commands.py)   *)
(* and the collection itself (domains/videos/use_cases.py), which pages    *)
(* through a channel's uploads, newest first, up to the first stored one.  *)
(*                                                                         *)
(* The scheduler and the command run the same collection inline, under     *)
(* work items with different idempotency keys.  The collection records its *)
(* item's result in its own session, so that the engine, which completes   *)
(* only a running item, raises afterwards; the engine records the result   *)
(* itself only when the collection's own record was lost (its event insert *)
(* failed and rolled it back) or never made (a timeout).                   *)
(***************************************************************************)
EXTENDS Integers, FiniteSets

CONSTANTS
  NC,              \* number of channels with a YouTube id, in the order of id
  PageSize,        \* videos on a listing page (50)
  PageLimit,       \* LISTING_PAGE_LIMIT
  CandidateLimit,  \* LISTING_CANDIDATE_LIMIT
  TranscriptLimit, \* transcript_limit
  None,            \* no row
  Selections,      \* bound: the sets of channels that an operator selects
  MaxUploads,      \* bound: uploads of each channel
  Unstable,        \* bound: the videos that become unavailable or available
  MaxSurprises     \* bound: changes of availability, collections that fail,
                   \* crashes, lost records, commands

Channels == 1..NC
Videos == UNION {{c} \X (1..MaxUploads[c]) : c \in Channels}

ASSUME IntakeBounds ==
  /\ NC \in Nat \ {0} /\ PageSize \in Nat \ {0} /\ PageLimit \in Nat \ {0}
  /\ CandidateLimit \in Nat \ {0} /\ TranscriptLimit \in Nat /\ MaxUploads \in [Channels -> Nat \ {0}]
  /\ MaxSurprises \in Nat /\ Selections \subseteq SUBSET Channels
  /\ Unstable \subseteq Videos

ASSUME NoKey == None \notin {"tick", "command"}

VARIABLES
  uploads,      \* uploads[c]: videos on c's uploads playlist, 1 is the oldest
  hidden,       \* videos that are listed but that videos.list does not return
  stored,       \* rows of videos
  passed,       \* history: videos that a collection left out for ever
  item,         \* item[c][k]: status of c's video_collect item with key k
  latest,       \* latest[c]: the key of c's item with the highest id
  fresh,        \* items completed within channel_interval_seconds
  transcripts,  \* videos with a transcript_collect item
  proc,         \* what the scheduler and the operator's request are doing
  batch,        \* status of the operator's batch
  surprises     \* how many of them there were
world == <<uploads, hidden>>
rows == <<stored, passed, transcripts>>
work == <<item, latest, fresh>>
vars == <<world, rows, work, proc, batch, surprises>>

----------------------------------------------------------------------------
(* Rows *)

Keys == {"tick", "command"}
Statuses == {"absent", "pending", "running", "succeeded", "failed", "timed_out", "canceled"}
Resettable == {"failed", "timed_out", "succeeded"}
Callers == {"scheduler", "request"}
Steps == {"idle", "next", "chosen", "paging", "listed", "detailed", "recorded", "collected",
          "closing"}

Idle == [pc |-> "idle", todo |-> {}, channel |-> 0, offset |-> 0, pages |-> 0,
         found |-> {}, details |-> {}]

(* Channels are visited in the order of their ids. *)
First(todo) == CHOOSE c \in todo : \A d \in todo : c <= d

(* The item a process runs: the scheduler takes whichever is the latest. *)
Mine(p) == <<proc[p].channel,
             IF p = "scheduler" THEN latest[proc[p].channel] ELSE "command">>
Working == {"paging", "listed", "detailed", "recorded"}
StatusOf(i) == item[i[1]][i[2]]

Init ==
  /\ uploads = [c \in Channels |-> 1]
  /\ hidden = {} /\ stored = {} /\ passed = {} /\ transcripts = {} /\ fresh = {}
  /\ item = [c \in Channels |-> [k \in Keys |-> "absent"]]
  /\ latest = [c \in Channels |-> None]
  /\ proc = [p \in Callers |-> Idle]
  /\ batch = "none"
  /\ surprises = 0

(* Mutant of Skipped: a failed collection is not tried again. *)
SkippedAfterFailure(c) ==
  /\ latest[c] # None
  /\ \/ item[c][latest[c]] \in {"pending", "running", "failed", "timed_out"}
     \/ item[c][latest[c]] = "succeeded" /\ <<c, latest[c]>> \in fresh

(* _video_collect_skip_reason *)
Skipped(c) ==
  /\ latest[c] # None
  /\ \/ item[c][latest[c]] \in {"pending", "running"}
     \/ item[c][latest[c]] = "succeeded" /\ <<c, latest[c]>> \in fresh

Canceled(c) == latest[c] # None /\ item[c][latest[c]] = "canceled"

----------------------------------------------------------------------------
(* The world *)

(* Bound: a listing sees its pages move on, but not so far that the next one  *)
(* starts above everything listed; the code asks for 50 videos at a time.     *)
Uploaded(c) ==
  /\ uploads[c] < MaxUploads[c]
  /\ \A p \in Callers :
       (proc[p].pc = "paging" /\ proc[p].channel = c /\ proc[p].found # {}) =>
         \E v \in proc[p].found : uploads[c] < v[2] + proc[p].offset
  /\ uploads' = [uploads EXCEPT ![c] = @ + 1]
  /\ UNCHANGED <<hidden, rows, work, proc, batch, surprises>>

(* A video is made private or public, or a premiere starts. *)
AvailabilityChanges(v) ==
  /\ surprises < MaxSurprises
  /\ v[2] <= uploads[v[1]]
  /\ surprises' = surprises + 1
  /\ hidden' = IF v \in hidden THEN hidden \ {v} ELSE hidden \cup {v}
  /\ UNCHANGED <<uploads, rows, work, proc, batch>>

(* channel_interval_seconds go by.  It is longer than the ticks that it takes *)
(* to visit every channel that is due.                                        *)
IntervalElapses(c) ==
  /\ fresh \cap ({c} \X Keys) # {}
  /\ \A d \in Channels : Skipped(d) \/ Canceled(d)
  /\ fresh' = fresh \ ({c} \X Keys)
  /\ UNCHANGED <<world, rows, item, latest, proc, batch, surprises>>

----------------------------------------------------------------------------
(* The scheduler *)

TickStarts ==
  /\ proc["scheduler"].pc = "idle"
  /\ proc' = [proc EXCEPT !["scheduler"] =
       [Idle EXCEPT !.pc = "next", !.todo = Channels]]
  /\ UNCHANGED <<world, rows, work, batch, surprises>>

TickEnds ==
  /\ proc["scheduler"].pc = "next" /\ proc["scheduler"].todo = {}
  /\ proc' = [proc EXCEPT !["scheduler"] = Idle]
  /\ UNCHANGED <<world, rows, work, batch, surprises>>

ChannelIsSkipped ==
  /\ proc["scheduler"].pc = "next" /\ proc["scheduler"].todo # {}
  /\ Skipped(First(proc["scheduler"].todo))
  /\ proc' = [proc EXCEPT !["scheduler"].todo = @ \ {First(@)}]
  /\ UNCHANGED <<world, rows, work, batch, surprises>>

(* _prepare_video_collect: a new item, or the latest one reset.  A canceled  *)
(* item is not skipped and cannot be reset: the tick fails.                  *)
ChannelIsDue ==
  /\ proc["scheduler"].pc = "next" /\ proc["scheduler"].todo # {}
  /\ LET c == First(proc["scheduler"].todo)
         k == IF latest[c] = None THEN "tick" ELSE latest[c]
     IN /\ ~Skipped(c) /\ item[c][k] # "canceled"
        /\ item' = [item EXCEPT ![c][k] = "pending"]
        /\ latest' = [latest EXCEPT ![c] = k]
        /\ fresh' = fresh \ {<<c, k>>}
        /\ proc' = [proc EXCEPT !["scheduler"] =
             [Idle EXCEPT !.pc = "chosen", !.todo = proc["scheduler"].todo \ {c}, !.channel = c]]
  /\ UNCHANGED <<world, rows, batch, surprises>>

TickFails ==
  /\ proc["scheduler"].pc = "next" /\ proc["scheduler"].todo # {}
  /\ Canceled(First(proc["scheduler"].todo))
  /\ proc' = [proc EXCEPT !["scheduler"] = Idle]
  /\ UNCHANGED <<world, rows, work, batch, surprises>>

(* The newest of some videos of a channel. *)
NewestOf(videos, limit) ==
  {v \in videos : Cardinality({w \in videos : v[2] <= w[2]}) <= limit}

(* Mutant of EnqueueTranscripts: what the channel lists, stored or not. *)
EnqueueListed ==
  /\ proc["scheduler"].pc = "collected"
  /\ transcripts' = transcripts \cup
       NewestOf({v \in Videos : v[1] = proc["scheduler"].channel /\ v[2] <= uploads[v[1]]},
                TranscriptLimit)
  /\ proc' = [proc EXCEPT !["scheduler"].pc = "next"]
  /\ UNCHANGED <<world, stored, passed, work, batch, surprises>>

(* CollectTranscripts for the newest videos of the channel, after a          *)
(* collection that the engine reported as a success.                         *)
EnqueueTranscripts ==
  /\ proc["scheduler"].pc = "collected"
  /\ transcripts' = transcripts \cup
       NewestOf({v \in stored : v[1] = proc["scheduler"].channel}, TranscriptLimit)
  /\ proc' = [proc EXCEPT !["scheduler"].pc = "next"]
  /\ UNCHANGED <<world, stored, passed, work, batch, surprises>>

----------------------------------------------------------------------------
(* The operator's command *)

(* One unit of work: an item for every selected channel, reset as asked. *)
Asks(cs, retry, rerun) ==
  LET after(c) ==
        CASE item[c]["command"] = "absent" -> "pending"
          [] item[c]["command"] \in {"failed", "timed_out"} /\ retry -> "pending"
          [] item[c]["command"] = "succeeded" /\ rerun -> "pending"
          [] OTHER -> item[c]["command"]
      chosen(c) == c \in cs /\ after(c) = "pending"
  IN /\ surprises < MaxSurprises /\ proc["request"].pc = "idle"
     /\ surprises' = surprises + 1
     /\ item' = [c \in Channels |->
          IF c \in cs THEN [item[c] EXCEPT !["command"] = after(c)] ELSE item[c]]
     /\ latest' = [c \in Channels |->
          IF c \in cs /\ item[c]["command"] = "absent" THEN "command" ELSE latest[c]]
     /\ fresh' = {i \in fresh : ~(i[1] \in cs /\ i[2] = "command" /\ chosen(i[1]))}
     /\ batch' = "pending"
     /\ proc' = [proc EXCEPT !["request"] = [Idle EXCEPT !.pc = "next",
          !.todo = {c \in Channels : chosen(c)}]]
     /\ UNCHANGED <<world, rows>>

NextRequested ==
  /\ proc["request"].pc \in {"next", "collected"} /\ proc["request"].todo # {}
  /\ proc' = [proc EXCEPT !["request"] =
       [Idle EXCEPT !.pc = "chosen", !.todo = proc["request"].todo \ {First(proc["request"].todo)},
                    !.channel = First(proc["request"].todo)]]
  /\ UNCHANGED <<world, rows, work, batch, surprises>>

(* The second unit of work reads the items again and completes the batch. *)
ClosesBatch ==
  /\ proc["request"].pc \in {"next", "collected"} /\ proc["request"].todo = {}
  /\ batch' = "completed"
  /\ proc' = [proc EXCEPT !["request"] = Idle]
  /\ UNCHANGED <<world, rows, work, surprises>>

(* Other commands on one item: cancel it, or reset it for the next tick. *)
Cancels(c, k) ==
  /\ surprises < MaxSurprises
  /\ item[c][k] \in {"pending", "running"}
  /\ surprises' = surprises + 1
  /\ item' = [item EXCEPT ![c][k] = "canceled"]
  /\ UNCHANGED <<world, rows, latest, fresh, proc, batch>>

Retries(c, k) ==
  /\ surprises < MaxSurprises
  /\ item[c][k] \in Resettable
  /\ surprises' = surprises + 1
  /\ item' = [item EXCEPT ![c][k] = "pending"]
  /\ fresh' = fresh \ {<<c, k>>}
  /\ UNCHANGED <<world, rows, latest, proc, batch>>

----------------------------------------------------------------------------
(* One collection *)

Rest == UNCHANGED <<world, batch>>

(* The listing is over: what it has found is forgotten. *)
Forgets(p, where) ==
  [Idle EXCEPT !.pc = where, !.todo = proc[p].todo, !.channel = proc[p].channel]

(* start_inline *)
StartInline(p) ==
  /\ proc[p].pc = "chosen" /\ StatusOf(Mine(p)) = "pending"
  /\ item' = [item EXCEPT ![Mine(p)[1]][Mine(p)[2]] = "running"]
  /\ proc' = [proc EXCEPT ![p].pc = "paging"]
  /\ Rest /\ UNCHANGED <<rows, latest, fresh, surprises>>

(* The item is no longer pending: the scheduler reports a failed channel,    *)
(* the request goes on to its next one.                                      *)
NotStarted(p) ==
  /\ proc[p].pc = "chosen" /\ StatusOf(Mine(p)) # "pending"
  /\ proc' = [proc EXCEPT ![p].pc = "next"]
  /\ Rest /\ UNCHANGED <<rows, work, surprises>>

(* The page at the offset that the page token stands for, newest first. *)
Page(c, offset) ==
  {v \in Videos : v[1] = c /\ uploads[c] - offset - PageSize < v[2] /\ v[2] <= uploads[c] - offset}

(* The videos of a page before the first one that is stored. *)
BeforeStored(page) == {v \in page : \A w \in page : v[2] <= w[2] => w \notin stored}

(* Candidates not seen before, up to the limit. *)
Extend(found, videos) ==
  found \cup NewestOf(videos \ found, CandidateLimit - Cardinality(found))

ListPage(p) ==
  /\ proc[p].pc = "paging"
  /\ LET page == Page(proc[p].channel, proc[p].offset)
         next == proc[p].offset + PageSize
         found == Extend(proc[p].found, BeforeStored(page))
         done == \/ page \cap stored # {} \/ next >= uploads[proc[p].channel]
                 \/ proc[p].pages + 1 >= PageLimit \/ Cardinality(found) >= CandidateLimit
     IN proc' = [proc EXCEPT ![p].found = found, ![p].offset = next, ![p].pages = @ + 1,
                             ![p].pc = IF done THEN "listed" ELSE "paging"]
  /\ Rest /\ UNCHANGED <<rows, work, surprises>>

(* videos.list answers for the candidates that are available. *)
GetDetails(p) ==
  /\ proc[p].pc = "listed"
  /\ proc' = [proc EXCEPT ![p].pc = "detailed", ![p].details = proc[p].found \ hidden]
  /\ Rest /\ UNCHANGED <<rows, work, surprises>>

(* Older uploads that a listing stopped by a limit did not reach. *)
Beyond(p) ==
  {v \in Videos : /\ proc[p].pages >= PageLimit \/ Cardinality(proc[p].found) >= CandidateLimit
                  /\ v[1] = proc[p].channel
                  /\ \A w \in proc[p].found : v[2] < w[2]}

(* What this collection leaves out for ever, because it stores newer videos:  *)
(* videos whose details are missing, and everything beyond the limits.        *)
PassedOver(p) ==
  {v \in Beyond(p) \cup (proc[p].found \ proc[p].details) :
     \E w \in proc[p].details : v[2] < w[2]}

(* Mutant of CreateRows: one row is committed before the next is inserted. *)
CreateNewestRow(p) ==
  /\ proc[p].pc = "detailed" /\ proc[p].details \cap stored = {}
  /\ stored' = stored \cup {v \in proc[p].details : \A w \in proc[p].details : w[2] <= v[2]}
  /\ passed' = passed \cup PassedOver(p)
  /\ proc' = [proc EXCEPT ![p] = Forgets(p, "recorded")]
  /\ Rest /\ UNCHANGED <<transcripts, work, surprises>>

(* create_videos inserts all rows in one transaction. *)
CreateRows(p) ==
  /\ proc[p].pc = "detailed" /\ proc[p].details \cap stored = {}
  /\ stored' = stored \cup proc[p].details
  /\ passed' = passed \cup PassedOver(p)
  /\ proc' = [proc EXCEPT ![p] = Forgets(p, "recorded")]
  /\ Rest /\ UNCHANGED <<transcripts, work, surprises>>

Ends(p, status, where) ==
  /\ item' = [item EXCEPT ![Mine(p)[1]][Mine(p)[2]] = status]
  /\ fresh' = IF status = "succeeded" THEN fresh \cup {Mine(p)} ELSE fresh \ {Mine(p)}
  /\ proc' = [proc EXCEPT ![p] = IF where = "idle" THEN Idle ELSE Forgets(p, where)]
  /\ Rest /\ UNCHANGED <<rows, latest>>

(* mark_job_succeeded is committed, whatever the row says by now, and the    *)
(* engine raises: the tick fails, the request fails with its batch open.     *)
RecordsSuccess(p) ==
  /\ proc[p].pc = "recorded"
  /\ Ends(p, "succeeded", "idle")
  /\ UNCHANGED surprises

(* A collection that cannot go on commits mark_job_failed, and the engine    *)
(* raises: its rows conflict with those of another collection of the         *)
(* channel, or a page or the details cannot be had.                          *)
RowsConflict(p) ==
  /\ proc[p].pc = "detailed" /\ proc[p].details \cap stored # {}
  /\ Ends(p, "failed", "idle")
  /\ UNCHANGED surprises

Fails(p) ==
  /\ proc[p].pc \in {"paging", "listed"} /\ surprises < MaxSurprises
  /\ surprises' = surprises + 1
  /\ Ends(p, "failed", "idle")

(* The event insert that follows the record fails and rolls it back: the     *)
(* engine records the success itself, unless the item is no longer running.  *)
EngineRecordsSuccess(p) ==
  /\ proc[p].pc = "recorded" /\ surprises < MaxSurprises
  /\ surprises' = surprises + 1
  /\ IF StatusOf(Mine(p)) = "running"
     THEN Ends(p, "succeeded", "collected")
     ELSE /\ proc' = [proc EXCEPT ![p] = Idle]
          /\ Rest /\ UNCHANGED <<rows, work>>

(* The engine's timeout cancels the collection before it records anything. *)
TimesOut(p) ==
  /\ proc[p].pc \in Working \ {"recorded"} /\ surprises < MaxSurprises
  /\ surprises' = surprises + 1
  /\ IF StatusOf(Mine(p)) = "running"
     THEN Ends(p, "timed_out", "next")
     ELSE /\ proc' = [proc EXCEPT ![p] = Idle]
          /\ Rest /\ UNCHANGED <<rows, work>>

Crashes(p) ==
  /\ proc[p].pc # "idle" /\ surprises < MaxSurprises
  /\ surprises' = surprises + 1
  /\ proc' = [proc EXCEPT ![p] = Idle]
  /\ Rest /\ UNCHANGED <<rows, work>>

(* A worker or the API starts and recovers an item that nobody runs. *)
Recovers(c, k) ==
  /\ item[c][k] = "running"
  /\ \A p \in Callers : proc[p].pc \in Working => Mine(p) # <<c, k>>
  /\ item' = [item EXCEPT ![c][k] = "timed_out"]
  /\ UNCHANGED <<world, rows, latest, fresh, proc, batch, surprises>>

Collects(p) ==
  \/ StartInline(p) \/ NotStarted(p) \/ ListPage(p) \/ GetDetails(p) \/ CreateRows(p)
  \/ RowsConflict(p) \/ RecordsSuccess(p)
Tick == TickStarts \/ TickEnds \/ ChannelIsSkipped \/ ChannelIsDue \/ TickFails
        \/ EnqueueTranscripts \/ Collects("scheduler")
Request == NextRequested \/ ClosesBatch \/ Collects("request")
Misfortune(p) ==
  Fails(p) \/ EngineRecordsSuccess(p) \/ TimesOut(p) \/ Crashes(p)

Next ==
  \/ \E c \in Channels : Uploaded(c) \/ IntervalElapses(c)
  \/ \E v \in Unstable : AvailabilityChanges(v)
  \/ Tick
  \/ \E cs \in Selections, retry, rerun \in BOOLEAN : Asks(cs, retry, rerun)
  \/ Request
  \/ \E c \in Channels, k \in Keys : Cancels(c, k) \/ Retries(c, k) \/ Recovers(c, k)
  \/ \E p \in Callers : Misfortune(p)

Spec == Init /\ [][Next]_vars

(* The scheduler process polls for ever, a request is carried on by the      *)
(* event loop, and time passes.                                              *)
FairSpec ==
  /\ Spec
  /\ WF_vars(Tick) /\ WF_vars(Request)
  /\ \A c \in Channels : SF_vars(IntervalElapses(c))

----------------------------------------------------------------------------
(* Properties *)

(* Every variable has a value that its column or the process can hold. *)
TypeOK ==
  /\ \A c \in Channels : uploads[c] \in 1..MaxUploads[c]
  /\ hidden \subseteq Videos /\ stored \subseteq Videos /\ passed \subseteq Videos
  /\ transcripts \subseteq stored
  /\ item \in [Channels -> [Keys -> Statuses]]
  /\ latest \in [Channels -> Keys \cup {None}]
  /\ fresh \subseteq Channels \X Keys
  /\ \A p \in Callers :
       /\ proc[p].pc \in Steps
       /\ proc[p].channel \in Channels \cup {0}
       /\ proc[p].todo \subseteq Channels
       /\ proc[p].details \subseteq proc[p].found /\ proc[p].found \subseteq Videos
       /\ Cardinality(proc[p].found) <= CandidateLimit
  /\ batch \in {"none", "pending", "completed"}
  /\ surprises \in 0..MaxSurprises

(* A collection stops at the first stored video, so that whatever is older   *)
(* than a stored video is never asked for again.  Such a hole is made only   *)
(* by a listing limit or by a video that videos.list did not return, never   *)
(* by two collections at once, a crash, a failure, or a shifted page.        *)
HolesAreExplained ==
  \A v \in Videos :
    (v[2] <= uploads[v[1]] /\ \E w \in stored : w[1] = v[1] /\ v[2] < w[2])
      => v \in stored \cup passed

(* No tick and no request will run the latest item of c: it was left pending *)
(* or running by a process that died or was reset for a worker, which does   *)
(* not claim inline items, or it or an item of an earlier channel is         *)
(* canceled, and every tick fails there.                                     *)
Abandoned(c) ==
  \/ /\ latest[c] # None /\ item[c][latest[c]] \in {"pending", "running"}
     /\ \A p \in Callers :
          ~(proc[p].pc \in Working \cup {"chosen"} /\ Mine(p) = <<c, latest[c]>>)
  \/ \E d \in 1..c : Canceled(d)

(* Newer uploads without details are all that a listing can take. *)
Shaded(v) ==
  LET above == {w \in hidden \ stored : w[1] = v[1] /\ v[2] < w[2]}
  IN Cardinality(above) >= CandidateLimit \/ Cardinality(above) >= PageSize * PageLimit

(* Every upload is stored in the end, although most ticks fail: one that     *)
(* is listed and visible stays out only if a listing passed it over, every   *)
(* listing is full of videos without details, or nothing collects its        *)
(* channel any more.                                                         *)
EveryUploadIsStored ==
  \A c \in Channels :
    []<>(\/ \A n \in 1..uploads[c] :
              <<c, n>> \in stored \cup passed \cup hidden \/ Shaded(<<c, n>>)
         \/ Abandoned(c))

(* docs/YOUTUBE_DATA_PIPELINE.md: the scheduler "collects channel videos when*)
(* the channel interval is due" and "enqueues bounded transcript work for    *)
(* new videos".                                                              *)
NewVideosGetTranscripts ==
  \A c \in Channels :
    (proc["scheduler"].pc = "recorded" /\ proc["scheduler"].channel = c
       /\ \E v \in stored : v[1] = c)
      ~> \E v \in transcripts : v[1] = c
=============================================================================
