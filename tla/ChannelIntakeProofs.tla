-------------------------- MODULE ChannelIntakeProofs --------------------------
(***************************************************************************)
(* Proofs about ChannelIntake: the videos that collections of a channel    *)
(* leave out are the ones whose details were missing and the ones beyond   *)
(* the limits of a listing, for any number of channels, uploads, callers'  *)
(* steps and failures.  The argument is about what one listing has found:  *)
(* an unbroken stretch of the channel, however its pages shift, and        *)
(* nothing unstored below it unless a limit stopped it.                    *)
(***************************************************************************)
EXTENDS ChannelIntake, FiniteSetTheorems, WellFoundedInduction, TLAPS

Processes ==
  [pc : Steps, todo : SUBSET Channels, channel : Channels \cup {0}, offset : Nat, pages : Nat,
   found : SUBSET Videos, details : SUBSET Videos]

Types ==
  /\ uploads \in [Channels -> Nat] /\ \A c \in Channels : uploads[c] \in 1..MaxUploads[c]
  /\ hidden \subseteq Videos /\ stored \subseteq Videos /\ passed \subseteq Videos
  /\ transcripts \subseteq stored
  /\ item \in [Channels -> [Keys -> Statuses]]
  /\ latest \in [Channels -> Keys \cup {None}]
  /\ fresh \subseteq Channels \X Keys
  /\ proc \in [Callers -> Processes]
  /\ batch \in {"none", "pending", "completed"}
  /\ surprises \in 0..MaxSurprises

(* A process that runs an item knows which, and begins with nothing. *)
Chosen(p) ==
  proc[p].pc \in Working \cup {"chosen"} =>
    /\ proc[p].channel \in Channels /\ (p = "scheduler" => latest[proc[p].channel] \in Keys)
    /\ proc[p].pc = "chosen" => proc[p].found = {} /\ proc[p].offset = 0

(* Only uploads are stored. *)
StoredAreUploads == \A v \in stored : v[2] <= uploads[v[1]]

Few(p) ==
  /\ IsFiniteSet(proc[p].found) /\ Cardinality(proc[p].found) <= CandidateLimit
  /\ proc[p].details \subseteq proc[p].found

(* Nothing is missing between two videos that were found. *)
Unbroken(c, found) ==
  \A u, w \in found, v \in Videos : v[1] = c /\ u[2] < v[2] /\ v[2] < w[2] => v \in found

(* The next page begins where the videos found end, or among them. *)
Adjoins(found, top) ==
  /\ \E v \in found : v[2] <= top + 1
  /\ \E v \in found : top <= v[2]

Paging(p) ==
  proc[p].pc = "paging" =>
    \/ proc[p].found = {} /\ proc[p].offset = 0
    \/ /\ Unbroken(proc[p].channel, proc[p].found)
       /\ Adjoins(proc[p].found, uploads[proc[p].channel] - proc[p].offset)

(* A limit stopped the listing. *)
Limited(p) ==
  proc[p].pages >= PageLimit \/ Cardinality(proc[p].found) >= CandidateLimit

(* Older than everything found. *)
Below(c, found) ==
  {v \in Videos : v[1] = c /\ found # {} /\ \A w \in found : v[2] < w[2]}

Listed(p) ==
  proc[p].pc \in {"listed", "detailed"} =>
    /\ Unbroken(proc[p].channel, proc[p].found)
    /\ Limited(p) \/ \A v \in Below(proc[p].channel, proc[p].found) :
                       \E w \in stored : w[1] = v[1] /\ v[2] <= w[2]

(* What the invariant says of one process. *)
Sound(p) ==
  /\ \A v \in proc[p].found : v[1] = proc[p].channel /\ v[2] <= uploads[v[1]]
  /\ Chosen(p) /\ Few(p) /\ Paging(p) /\ Listed(p)

IntakeInv ==
  /\ Types /\ StoredAreUploads /\ HolesAreExplained
  /\ \A p \in Callers : Sound(p)
----------------------------------------------------------------------------
(* A process that does not move stays sound while rows are added. *)
LEMMA Unmoved ==
  ASSUME Types, NEW p \in Callers, Sound(p), proc'[p] = proc[p], uploads' = uploads,
         stored \subseteq stored', \A c \in Channels : latest[c] \in Keys => latest'[c] \in Keys
  PROVE  Sound(p)'
<1>1. Chosen(p)' /\ Few(p)'
  BY DEF Sound, Chosen, Few
<1>2. Paging(p)' /\ Listed(p)'
  BY DEF Sound, Paging, Listed, Limited
<1> QED BY <1>1, <1>2 DEF Sound

(* A process that holds no videos, or the ones it held but does not list.  *)
LEMMA AtRest ==
  ASSUME Types, NEW p \in Callers, Sound(p), uploads' = uploads,
         proc'[p].pc \in {"idle", "next", "collected"},
         \/ proc'[p].found = {} /\ proc'[p].details = {}
         \/ /\ proc'[p].found = proc[p].found /\ proc'[p].details = proc[p].details
            /\ proc'[p].channel = proc[p].channel
  PROVE  Sound(p)'
<1>1. CandidateLimit \in Nat \ {0}
  BY IntakeBounds
<1>2. Chosen(p)' /\ Paging(p)' /\ Listed(p)'
  BY DEF Chosen, Paging, Listed, Working
<1>3. Few(p)'
  <2>1. CASE proc'[p].found = {} /\ proc'[p].details = {}
    BY <1>1, <2>1, FS_EmptySet DEF Few
  <2>2. CASE proc'[p].found = proc[p].found /\ proc'[p].details = proc[p].details
    BY <2>2 DEF Sound, Few
  <2> QED BY <2>1, <2>2
<1>4. \A v \in proc'[p].found : v[1] = proc'[p].channel /\ v[2] <= uploads[v[1]]
  BY DEF Sound
<1> QED BY <1>2, <1>3, <1>4 DEF Sound

----------------------------------------------------------------------------
(* Types *)

(* A set of natural numbers has a smallest one. *)
LEMMA SmallestNumber ==
  ASSUME NEW S, S \subseteq Nat, S # {}
  PROVE  \E x \in S : \A y \in S : x <= y
<1> DEFINE R == {ss \in Nat \X Nat : ss[1] < ss[2]}
<1>1. IsWellFoundedOn(R, Nat)
  BY NatLessThanWellFounded DEF OpToRel
<1>2. PICK x \in S : \A y \in S : ~(<<y, x>> \in R)
  <2> HIDE DEF R
  <2> QED BY <1>1, WFMin
<1>3. \A y \in S : ~(y < x)
  BY <1>2
<1>4. \A y \in S : x <= y
  BY <1>3
<1> QED BY <1>4

(* The channel that is visited next is one that is left. *)
LEMMA FirstIsLeft ==
  ASSUME NEW todo, todo \subseteq Channels, todo # {}
  PROVE  First(todo) \in todo /\ First(todo) \in Channels
<1>1. todo \subseteq Nat
  BY IntakeBounds DEF Channels
<1>2. \E c \in todo : \A d \in todo : c <= d
  BY <1>1, SmallestNumber
<1> QED BY <1>2 DEF First

(* The fields of the process that does nothing. *)
LEMMA IdleFields ==
  /\ Idle \in Processes
  /\ Idle.pc = "idle" /\ Idle.found = {} /\ Idle.details = {}
BY DEF Idle, Processes, Steps

(* A process that has taken a channel. *)
LEMMA ChosenFields ==
  ASSUME NEW c \in Channels, NEW rest \in SUBSET Channels
  PROVE  LET r == [Idle EXCEPT !.pc = "chosen", !.todo = rest, !.channel = c]
         IN /\ r \in Processes /\ r.pc = "chosen" /\ r.channel = c
            /\ r.found = {} /\ r.details = {} /\ r.offset = 0
BY DEF Idle, Processes, Steps

(* A video is a channel and a number. *)
LEMMA VideoFields ==
  ASSUME NEW v \in Videos
  PROVE  v = <<v[1], v[2]>> /\ v[1] \in Channels /\ v[2] \in 1..MaxUploads[v[1]] /\ v[2] \in Nat
BY IntakeBounds DEF Videos

(* An upload is one of the videos.                                           *)
LEMMA VideoOf ==
  ASSUME NEW c \in Channels, NEW n \in 1..MaxUploads[c]
  PROVE  <<c, n>> \in Videos
BY DEF Videos

(* The scheduler's steps. *)
LEMMA TickTypes ==
  ASSUME Types, \/ TickStarts \/ TickEnds \/ ChannelIsSkipped \/ ChannelIsDue \/ TickFails
                \/ EnqueueTranscripts
  PROVE  Types'
<1> USE DEF Types
<1> DEFINE todo == proc["scheduler"].todo
<1>0. "scheduler" \in Callers /\ todo \subseteq Channels /\ proc["scheduler"] \in Processes
  BY DEF Callers, Processes
<1>1. CASE TickStarts
  <2>1. [Idle EXCEPT !.pc = "next", !.todo = Channels] \in Processes
    BY DEF Idle, Processes, Steps
  <2> QED BY <1>0, <1>1, <2>1 DEF TickStarts, world, rows, work
<1>2. CASE TickEnds \/ TickFails
  BY <1>0, <1>2, IdleFields DEF TickEnds, TickFails, world, rows, work
<1>3. CASE ChannelIsSkipped
  BY <1>0, <1>3 DEF ChannelIsSkipped, Processes, world, rows, work
<1>4. CASE ChannelIsDue
  <2> DEFINE c == First(todo)
             k == IF latest[c] = None THEN "tick" ELSE latest[c]
  <2>1. c \in Channels /\ k \in Keys
    BY <1>0, <1>4, FirstIsLeft DEF ChannelIsDue, Keys
  <2>2. proc' \in [Callers -> Processes]
    BY <1>0, <1>4, <2>1, ChosenFields DEF ChannelIsDue
  <2>3. item' \in [Channels -> [Keys -> Statuses]] /\ latest' \in [Channels -> Keys \cup {None}]
    BY <1>4, <2>1 DEF ChannelIsDue, Statuses
  <2> QED BY <1>4, <2>2, <2>3 DEF ChannelIsDue, world, rows
<1>5. CASE EnqueueTranscripts
  <2>1. transcripts' \subseteq stored
    BY <1>5 DEF EnqueueTranscripts, NewestOf
  <2> QED BY <1>0, <1>5, <2>1 DEF EnqueueTranscripts, world, work, Processes, Steps
<1> QED BY <1>1, <1>2, <1>3, <1>4, <1>5

(* The operator's steps, the world's and recovery. *)
LEMMA RequestTypes ==
  ASSUME Types,
         \/ \E c \in Channels : Uploaded(c) \/ IntervalElapses(c)
         \/ \E v \in Unstable : AvailabilityChanges(v)
         \/ \E cs \in Selections, retry, rerun \in BOOLEAN : Asks(cs, retry, rerun)
         \/ NextRequested \/ ClosesBatch
         \/ \E c \in Channels, k \in Keys : Cancels(c, k) \/ Retries(c, k) \/ Recovers(c, k)
  PROVE  Types'
<1> USE DEF Types
<1> DEFINE todo == proc["request"].todo
<1>0. /\ "request" \in Callers /\ todo \subseteq Channels /\ proc["request"] \in Processes
      /\ MaxSurprises \in Nat /\ Unstable \subseteq Videos /\ MaxUploads \in [Channels -> Nat]
  BY IntakeBounds DEF Callers, Processes
<1>1. CASE \E c \in Channels : Uploaded(c)
  BY <1>0, <1>1 DEF Uploaded, rows, work
<1>2. CASE \E c \in Channels : IntervalElapses(c)
  BY <1>2 DEF IntervalElapses, world, rows
<1>3. CASE \E v \in Unstable : AvailabilityChanges(v)
  BY <1>0, <1>3 DEF AvailabilityChanges, rows, work
<1>4. ASSUME NEW cs \in Selections, NEW retry \in BOOLEAN, NEW rerun \in BOOLEAN, Asks(cs, retry, rerun)
      PROVE  Types'
  <2>1. \A D \in SUBSET Channels : [Idle EXCEPT !.pc = "next", !.todo = D] \in Processes
    BY DEF Idle, Processes, Steps
  <2>2. proc' \in [Callers -> Processes]
    BY <1>0, <1>4, <2>1 DEF Asks
  <2>3. item' \in [Channels -> [Keys -> Statuses]]
    BY <1>4 DEF Asks, Keys, Statuses
  <2>4. latest' \in [Channels -> Keys \cup {None}]
    BY <1>4 DEF Asks, Keys
  <2>5. fresh' \subseteq fresh
    BY <1>4 DEF Asks
  <2>6. surprises < MaxSurprises /\ surprises' = surprises + 1 /\ batch' = "pending"
    BY <1>4 DEF Asks
  <2>7. UNCHANGED <<world, rows>>
    BY <1>4 DEF Asks
  <2>8. surprises' \in 0..MaxSurprises
    BY <1>0, <2>6
  <2> QED BY <2>2, <2>3, <2>4, <2>5, <2>6, <2>7, <2>8 DEF world, rows
<1>5. CASE NextRequested
  <2>1. First(todo) \in Channels /\ todo \ {First(todo)} \in SUBSET Channels
    BY <1>0, <1>5, FirstIsLeft DEF NextRequested
  <2> QED BY <1>0, <1>5, <2>1, ChosenFields DEF NextRequested, world, rows, work
<1>6. CASE ClosesBatch
  BY <1>0, <1>6, IdleFields DEF ClosesBatch, world, rows, work
<1>7. ASSUME NEW c \in Channels, NEW k \in Keys, Cancels(c, k) \/ Retries(c, k) \/ Recovers(c, k)
      PROVE  Types'
  <2>1. item' \in [Channels -> [Keys -> Statuses]]
    <3>1. \E status \in Statuses : item' = [item EXCEPT ![c][k] = status]
      BY <1>7 DEF Cancels, Retries, Recovers, Statuses
    <3> QED BY <3>1
  <2> QED BY <1>0, <1>7, <2>1 DEF Cancels, Retries, Recovers, world, rows
<1> QED BY <1>1, <1>2, <1>3, <1>4, <1>5, <1>6, <1>7

(* The item that a process runs. *)
LEMMA MineIsAnItem ==
  ASSUME Types, NEW p \in Callers, Chosen(p), proc[p].pc \in Working \cup {"chosen"}
  PROVE  /\ Mine(p) \in Channels \X Keys
         /\ Mine(p)[1] \in Channels /\ Mine(p)[2] \in Keys
BY DEF Types, Chosen, Mine, Keys

(* A process whose listing is over. *)
LEMMA ForgetsFields ==
  ASSUME Types, NEW p \in Callers, NEW where \in Steps
  PROVE  /\ Forgets(p, where) \in Processes
         /\ Forgets(p, where).pc = where /\ Forgets(p, where).channel = proc[p].channel
         /\ Forgets(p, where).found = {} /\ Forgets(p, where).details = {}
<1>1. proc[p] \in Processes
  BY DEF Types
<1> QED BY <1>1 DEF Forgets, Idle, Processes

(* A collection that ends leaves everything but its item and its process. *)
LEMMA EndsTypes ==
  ASSUME Types, NEW p \in Callers, Chosen(p), proc[p].pc \in Working,
         NEW status \in Statuses, NEW where \in {"idle", "next", "collected"}, Ends(p, status, where)
  PROVE  /\ item' \in [Channels -> [Keys -> Statuses]] /\ fresh' \subseteq Channels \X Keys
         /\ proc' \in [Callers -> Processes]
         /\ UNCHANGED <<uploads, hidden, stored, passed, transcripts, batch, latest>>
         /\ \A q \in Callers : q # p => proc'[q] = proc[q]
         /\ proc'[p].pc = where
         /\ proc'[p].found = {} /\ proc'[p].details = {}
<1> USE DEF Types
<1>1. /\ Mine(p) \in Channels \X Keys
      /\ Mine(p)[1] \in Channels /\ Mine(p)[2] \in Keys
  BY MineIsAnItem
<1>2. item' \in [Channels -> [Keys -> Statuses]]
  BY <1>1 DEF Ends
<1>3. fresh' \subseteq Channels \X Keys
  BY <1>1 DEF Ends
<1>4. PICK r \in Processes :
        proc' = [proc EXCEPT ![p] = r] /\ r.pc = where /\ r.found = {} /\ r.details = {}
  <2>1. CASE where = "idle"
    BY <2>1, IdleFields DEF Ends
  <2>2. CASE where # "idle"
    <3>1. where \in Steps
      BY DEF Steps
    <3>2. proc' = [proc EXCEPT ![p] = Forgets(p, where)]
      BY <2>2 DEF Ends
    <3>3. /\ Forgets(p, where) \in Processes /\ Forgets(p, where).pc = where
          /\ Forgets(p, where).found = {} /\ Forgets(p, where).details = {}
      BY <3>1, ForgetsFields
    <3> QED BY <3>2, <3>3
  <2> QED BY <2>1, <2>2
<1>5. /\ proc' \in [Callers -> Processes] /\ proc'[p] = r
      /\ \A q \in Callers : q # p => proc'[q] = proc[q]
  BY <1>4
<1>6. UNCHANGED <<uploads, hidden, stored, passed, transcripts, batch, latest>>
  BY DEF Ends, Rest, rows, world
<1> QED BY <1>2, <1>3, <1>4, <1>5, <1>6

(* What a page adds to what was found. *)
Added(p) == Extend(proc[p].found, BeforeStored(Page(proc[p].channel, proc[p].offset)))

(* After this page the listing is over. *)
Over(p) ==
  \/ Page(proc[p].channel, proc[p].offset) \cap stored # {}
  \/ proc[p].offset + PageSize >= uploads[proc[p].channel]
  \/ proc[p].pages + 1 >= PageLimit \/ Cardinality(Added(p)) >= CandidateLimit

(* What a page adds to what a listing has found.                             *)
LEMMA ListPageFields ==
  ASSUME Types, NEW p \in Callers, ListPage(p)
  PROVE  /\ proc' \in [Callers -> Processes] /\ \A q \in Callers : q # p => proc'[q] = proc[q]
         /\ proc'[p].found = Added(p) /\ proc'[p].channel = proc[p].channel
         /\ proc'[p].offset = proc[p].offset + PageSize /\ proc'[p].pages = proc[p].pages + 1
         /\ proc'[p].details = proc[p].details
         /\ proc'[p].pc = IF Over(p) THEN "listed" ELSE "paging"
<1>0. /\ proc \in [Callers -> Processes] /\ proc[p] \in Processes /\ PageSize \in Nat
      /\ proc[p].offset \in Nat /\ proc[p].pages \in Nat
  BY IntakeBounds DEF Types, Processes
<1>1. PICK found : found = Added(p)
  OBVIOUS
<1>2. PICK step : step = IF Over(p) THEN "listed" ELSE "paging"
  OBVIOUS
<1>3. found \in SUBSET Videos /\ step \in Steps
  <2>1. proc[p].found \in SUBSET Videos
    BY <1>0 DEF Processes
  <2> QED BY <1>1, <1>2, <2>1 DEF Added, Extend, NewestOf, BeforeStored, Page, Steps
<1>4. PICK offset \in Nat, pages \in Nat : offset = proc[p].offset + PageSize /\ pages = proc[p].pages + 1
  BY <1>0
<1>5. proc' = [proc EXCEPT ![p].found = found, ![p].offset = offset, ![p].pages = pages, ![p].pc = step]
  BY <1>0, <1>1, <1>2, <1>4 DEF ListPage, Added, Over
<1>6. /\ DOMAIN proc' = Callers /\ \A q \in Callers : q # p => proc'[q] = proc[q]
      /\ proc'[p] = [proc[p] EXCEPT !.found = found, !.offset = offset, !.pages = pages, !.pc = step]
  BY <1>0, <1>5
<1>7. /\ proc'[p] \in Processes
      /\ proc'[p].found = found /\ proc'[p].channel = proc[p].channel /\ proc'[p].pc = step
      /\ proc'[p].offset = offset /\ proc'[p].pages = pages
      /\ proc'[p].details = proc[p].details
  BY <1>0, <1>3, <1>6 DEF Processes
<1>8. proc' \in [Callers -> Processes]
  <2>1. \A q \in Callers : proc'[q] \in Processes
    BY <1>0, <1>6, <1>7
  <2>2. proc' = [q \in Callers |-> proc'[q]]
    BY <1>0, <1>5
  <2> QED BY <2>1, <2>2
<1> QED BY <1>1, <1>2, <1>4, <1>6, <1>7, <1>8

(* The steps of a collection. *)
LEMMA CollectTypes ==
  ASSUME Types, NEW p \in Callers, Chosen(p), Few(p), Collects(p) \/ Misfortune(p)
  PROVE  Types'
<1> USE DEF Types
<1>0. /\ proc[p] \in Processes /\ PageSize \in Nat /\ MaxSurprises \in Nat
      /\ {"failed", "timed_out", "succeeded", "running"} \subseteq Statuses
  BY IntakeBounds DEF Statuses
<1>1. CASE StartInline(p)
  <2>1. Mine(p)[1] \in Channels /\ Mine(p)[2] \in Keys
    BY <1>1, MineIsAnItem DEF StartInline
  <2>2. item' \in [Channels -> [Keys -> Statuses]]
    BY <1>0, <1>1, <2>1 DEF StartInline
  <2> QED BY <1>0, <1>1, <2>2 DEF StartInline, Rest, rows, world, Processes, Steps
<1>2. CASE NotStarted(p)
  BY <1>0, <1>2 DEF NotStarted, Rest, rows, world, work, Processes, Steps
<1>3. CASE ListPage(p)
  <2>2. proc' \in [Callers -> Processes]
    BY <1>3, ListPageFields
  <2> QED BY <1>3, <2>2 DEF ListPage, Rest, rows, world, work
<1>4. CASE GetDetails(p)
  BY <1>0, <1>4 DEF GetDetails, Rest, rows, world, work, Processes, Steps
<1>5. CASE CreateRows(p)
  <2>1. PassedOver(p) \subseteq Videos /\ proc[p].details \subseteq Videos
    BY <1>0 DEF PassedOver, Beyond, Processes
  <2>2. proc' \in [Callers -> Processes]
    BY <1>0, <1>5, ForgetsFields DEF CreateRows, Steps
  <2> QED BY <1>5, <2>1, <2>2 DEF CreateRows, Rest, world, work
<1>6. CASE RowsConflict(p)
  <2>1. proc[p].pc \in Working /\ Ends(p, "failed", "idle") /\ UNCHANGED surprises
    BY <1>6 DEF RowsConflict, Working
  <2> QED BY <1>0, <2>1, EndsTypes
<1>7. CASE RecordsSuccess(p)
  <2>1. proc[p].pc \in Working /\ Ends(p, "succeeded", "idle") /\ UNCHANGED surprises
    BY <1>7 DEF RecordsSuccess, Working
  <2> QED BY <1>0, <2>1, EndsTypes
<1>8. CASE Misfortune(p)
  <2>1. surprises' \in 0..MaxSurprises
    BY <1>0, <1>8 DEF Misfortune, Fails, EngineRecordsSuccess, TimesOut, Crashes
  <2>2. CASE \E status \in {"failed", "succeeded", "timed_out"}, where \in {"idle", "next", "collected"} :
               proc[p].pc \in Working /\ Ends(p, status, where)
    BY <1>0, <2>1, <2>2, EndsTypes
  <2>3. CASE proc' = [proc EXCEPT ![p] = Idle] /\ UNCHANGED <<world, batch, rows, work>>
    BY <2>1, <2>3, IdleFields DEF world, rows, work
  <2> QED BY <1>8, <2>2, <2>3 DEF Misfortune, Fails, EngineRecordsSuccess, TimesOut, Crashes, Working, Rest
<1> QED BY <1>1, <1>2, <1>3, <1>4, <1>5, <1>6, <1>7, <1>8 DEF Collects

----------------------------------------------------------------------------
(* Pages *)

(* The newest videos of a set: as many as the limit allows, and all of them   *)
(* if there are no more.                                                      *)
LEMMA NewestProperties ==
  ASSUME NEW c \in Channels, NEW S \in SUBSET Videos, IsFiniteSet(S), \A v \in S : v[1] = c,
         NEW m \in Nat
  PROVE  /\ NewestOf(S, m) \subseteq S /\ IsFiniteSet(NewestOf(S, m))
         /\ \A x \in NewestOf(S, m), y \in S : x[2] <= y[2] => y \in NewestOf(S, m)
         /\ Cardinality(NewestOf(S, m)) \in Nat /\ Cardinality(NewestOf(S, m)) <= m
         /\ NewestOf(S, m) # S => Cardinality(NewestOf(S, m)) >= m
<1> DEFINE T == NewestOf(S, m)
           From(v) == {w \in S : v[2] <= w[2]}
           M == MaxUploads[c]
<1>1. \A v \in S : v[2] \in Nat /\ v[2] <= M /\ M \in Nat /\ v = <<c, v[2]>>
  BY VideoFields, IntakeBounds
<1>2. \A v \in S : /\ From(v) \subseteq S /\ IsFiniteSet(From(v)) /\ Cardinality(From(v)) \in Nat
                   /\ (v \in T <=> Cardinality(From(v)) <= m)
  <2> TAKE v \in S
  <2>1. From(v) \in SUBSET S
    OBVIOUS
  <2>2. IsFiniteSet(From(v))
    BY <2>1, FS_Subset
  <2>3. Cardinality(From(v)) \in Nat
    BY <2>2, FS_CardinalityType
  <2> QED BY <2>1, <2>2, <2>3 DEF NewestOf
<1>3. T \in SUBSET S /\ IsFiniteSet(T) /\ Cardinality(T) \in Nat
  <2>1. T \in SUBSET S
    BY DEF NewestOf
  <2>2. IsFiniteSet(T)
    BY <2>1, FS_Subset
  <2> QED BY <2>1, <2>2, FS_CardinalityType
<1> HIDE DEF From, T
<1>4. \A x \in T, y \in S : x[2] <= y[2] => y \in T
  <2> SUFFICES ASSUME NEW x \in T, NEW y \in S, x[2] <= y[2] PROVE y \in T
    OBVIOUS
  <2>0. x \in S
    BY <1>3
  <2>1. \A w \in S : y[2] <= w[2] => x[2] <= w[2]
    BY <2>0, <1>1
  <2>2. From(y) \in SUBSET From(x)
    BY <2>1 DEF From
  <2>3. Cardinality(From(y)) <= Cardinality(From(x))
    <3>1. IsFiniteSet(From(x))
      BY <2>0, <1>2
    <3> QED BY <2>2, <3>1, FS_Subset
  <2>4. Cardinality(From(x)) <= m
    BY <2>0, <1>2
  <2>5. Cardinality(From(y)) \in Nat /\ Cardinality(From(x)) \in Nat
    BY <2>0, <1>2
  <2>6. Cardinality(From(y)) <= m
    BY <2>3, <2>4, <2>5
  <2> QED BY <2>6, <1>2
<1>5. Cardinality(T) <= m
  <2>1. CASE T = {}
    BY <2>1, FS_EmptySet
  <2>2. CASE T # {}
    <3> DEFINE numbers == {v[2] : v \in T}
    <3>1. numbers \subseteq Nat /\ numbers # {}
      BY <2>2, <1>1, <1>3
    <3>2. PICK n \in numbers : \A k \in numbers : n <= k
      BY <3>1, SmallestNumber
    <3>3. PICK x \in T : x[2] = n
      BY <3>2
    <3>4. \A y \in T : x[2] <= y[2]
      BY <3>2, <3>3
    <3>5. T \in SUBSET From(x) /\ x \in S
      BY <3>4, <1>3 DEF From
    <3>6. IsFiniteSet(From(x)) /\ Cardinality(From(x)) <= m /\ Cardinality(From(x)) \in Nat
      BY <3>5, <1>2
    <3>7. Cardinality(T) <= Cardinality(From(x))
      BY <3>5, <3>6, FS_Subset
    <3> QED BY <3>6, <3>7, <1>3
  <2> QED BY <2>1, <2>2
<1>6. ASSUME T # S PROVE Cardinality(T) >= m
  <2> DEFINE rest == S \ T
             gaps == {M - v[2] : v \in rest}
  <2>1. gaps \subseteq Nat /\ gaps # {}
    BY <1>1, <1>3, <1>6
  <2>2. PICK n \in gaps : \A k \in gaps : n <= k
    BY <2>1, SmallestNumber
  <2>3. PICK x \in rest : M - x[2] = n
    BY <2>2
  <2>4. \A y \in rest : M - x[2] <= M - y[2]
    BY <2>2, <2>3
  <2>5. \A y \in rest : y[2] <= x[2]
    BY <2>4, <1>1
  <2>6. From(x) \in SUBSET (T \cup {x})
    <3> SUFFICES ASSUME NEW y \in S, x[2] <= y[2], y \notin T PROVE y = x
      BY DEF From
    <3>1. y[2] = x[2]
      BY <2>5, <1>1
    <3> QED BY <3>1, <1>1
  <2>7. IsFiniteSet(T \cup {x}) /\ Cardinality(T \cup {x}) = Cardinality(T) + 1
    BY <1>3, <2>3, FS_AddElement
  <2>8. Cardinality(From(x)) <= Cardinality(T) + 1
    BY <2>6, <2>7, FS_Subset
  <2>9. x \in S /\ x \notin T
    OBVIOUS
  <2>10. Cardinality(From(x)) \in Nat /\ ~(Cardinality(From(x)) <= m)
    BY <1>2, <2>9
  <2> QED BY <2>8, <2>10, <1>3
<1> QED BY <1>3, <1>4, <1>5, <1>6 DEF T

(* The videos of a page are the uploads in its range. *)
LEMMA PageVideos ==
  ASSUME Types, NEW c \in Channels, NEW offset \in Nat
  PROVE  /\ Page(c, offset) \in SUBSET Videos /\ IsFiniteSet(Page(c, offset))
         /\ \A v \in Page(c, offset) : v[1] = c /\ v[2] <= uploads[c] /\ v[2] <= uploads[c] - offset
                                       /\ uploads[c] - offset - PageSize < v[2]
         /\ \A v \in Videos : v[1] = c /\ v[2] <= uploads[c] - offset /\ uploads[c] - offset - PageSize < v[2]
                               => v \in Page(c, offset)
<1>1. uploads[c] \in Nat /\ MaxUploads[c] \in Nat /\ PageSize \in Nat
  BY IntakeBounds DEF Types
<1>2. Page(c, offset) \in SUBSET ({c} \X (1..MaxUploads[c]))
  <2> SUFFICES ASSUME NEW v \in Page(c, offset) PROVE v \in {c} \X (1..MaxUploads[c])
    OBVIOUS
  <2>1. v \in Videos /\ v[1] = c
    BY DEF Page
  <2> QED BY <2>1, VideoFields
<1>3. IsFiniteSet({c} \X (1..MaxUploads[c]))
  <2>1. IsFiniteSet(1..MaxUploads[c])
    BY <1>1, FS_Interval
  <2>2. IsFiniteSet({c})
    BY FS_Singleton
  <2> QED BY <2>1, <2>2, FS_Product
<1>4. IsFiniteSet(Page(c, offset))
  BY <1>2, <1>3, FS_Subset
<1>5. \A v \in Videos : v[2] \in Nat
  BY VideoFields
<1> QED BY <1>1, <1>4, <1>5 DEF Page

(* What was found after a page: an unbroken stretch, within the limit, of    *)
(* uploads of the channel; all of the page above its first stored video,     *)
(* unless the limit is reached.                                              *)
LEMMA AddedStretch ==
  ASSUME Types, NEW p \in Callers, Sound(p), proc[p].pc = "paging"
  PROVE  LET c == proc[p].channel
             top == uploads[c] - proc[p].offset
             page == Page(c, proc[p].offset)
         IN /\ c \in Channels /\ proc[p].found \subseteq Added(p)
            /\ \A v \in Added(p) : v \in Videos /\ v[1] = c /\ v[2] <= uploads[c]
            /\ IsFiniteSet(Added(p)) /\ Cardinality(Added(p)) \in Nat
            /\ Cardinality(Added(p)) <= CandidateLimit
            /\ Cardinality(Added(p)) < CandidateLimit => BeforeStored(page) \subseteq Added(p)
            /\ Unbroken(c, Added(p))
            /\ \A v \in Below(c, Added(p)) : v[2] <= top
<1> DEFINE c == proc[p].channel
           F == proc[p].found
           page == Page(c, proc[p].offset)
           T == BeforeStored(page)
           room == CandidateLimit - Cardinality(F)
           N == NewestOf(T \ F, room)
           top == uploads[c] - proc[p].offset
<1>1. /\ c \in Channels /\ F \in SUBSET Videos /\ IsFiniteSet(F) /\ proc[p].offset \in Nat
      /\ Cardinality(F) \in Nat /\ room \in Nat /\ CandidateLimit \in Nat
      /\ \A v \in F : v[1] = c /\ v[2] <= uploads[c] /\ v[2] \in Nat
      /\ uploads[c] \in Nat /\ top \in Int /\ PageSize \in Nat \ {0}
  <2>1. c \in Channels /\ IsFiniteSet(F) /\ Cardinality(F) <= CandidateLimit
    BY DEF Sound, Chosen, Few, Working
  <2>2. Cardinality(F) \in Nat
    BY <2>1, FS_CardinalityType
  <2>3. CandidateLimit \in Nat /\ PageSize \in Nat \ {0}
    BY IntakeBounds
  <2>4. F \in SUBSET Videos /\ proc[p].offset \in Nat /\ uploads[c] \in Nat
    BY <2>1 DEF Types, Processes
  <2>5. \A v \in F : v[1] = c /\ v[2] <= uploads[c] /\ v[2] \in Nat
    BY <2>4, VideoFields DEF Sound
  <2>6. room \in Nat
    BY <2>1, <2>2, <2>3
  <2> QED BY <2>1, <2>2, <2>3, <2>4, <2>5, <2>6
<1>2. /\ page \in SUBSET Videos /\ IsFiniteSet(page)
      /\ \A v \in page : v[1] = c /\ v[2] <= uploads[c] /\ v[2] <= top /\ top - PageSize < v[2]
      /\ \A v \in Videos : v[1] = c /\ v[2] <= top /\ top - PageSize < v[2] => v \in page
  BY <1>1, PageVideos
<1> HIDE DEF page
<1>3. T \in SUBSET page /\ T \ F \in SUBSET Videos /\ IsFiniteSet(T \ F) /\ \A v \in T \ F : v[1] = c
  <2>1. T \in SUBSET page
    BY DEF BeforeStored
  <2>2. T \ F \in SUBSET page
    BY <2>1
  <2> QED BY <1>2, <2>1, <2>2, FS_Subset
<1>4. /\ N \subseteq T \ F /\ IsFiniteSet(N)
      /\ \A x \in N, y \in T \ F : x[2] <= y[2] => y \in N
      /\ Cardinality(N) \in Nat /\ Cardinality(N) <= room
      /\ N # T \ F => Cardinality(N) >= room
  <2> HIDE DEF T, F, room, c
  <2> QED BY <1>1, <1>3, NewestProperties
<1>5. Added(p) = F \cup N
  BY DEF Added, Extend, page
<1>6. IsFiniteSet(F \cup N) /\ Cardinality(F \cup N) = Cardinality(F) + Cardinality(N)
  <2>1. F \cap N = {}
    BY <1>4
  <2>2. Cardinality(F \cap N) = 0
    BY <2>1, FS_EmptySet
  <2>3. IsFiniteSet(F) /\ IsFiniteSet(N)
    BY <1>1, <1>4
  <2> HIDE DEF F, N
  <2>4. IsFiniteSet(F \cup N)
    BY <2>3, FS_Union
  <2>5. Cardinality(F \cup N) = Cardinality(F) + Cardinality(N) - Cardinality(F \cap N)
    BY <2>3, FS_Union
  <2> QED BY <1>1, <1>4, <2>2, <2>4, <2>5
<1>7. /\ Cardinality(Added(p)) \in Nat /\ Cardinality(Added(p)) <= CandidateLimit
      /\ Cardinality(Added(p)) < CandidateLimit => T \subseteq Added(p)
  <2> HIDE DEF F, N, T
  <2>1. Cardinality(F \cup N) \in Nat /\ Cardinality(F \cup N) <= CandidateLimit
    BY <1>1, <1>4, <1>6
  <2>2. Cardinality(F \cup N) < CandidateLimit => N = T \ F
    BY <1>1, <1>4, <1>6
  <2> QED BY <1>5, <2>1, <2>2
<1>8. \A v \in Added(p) : v \in Videos /\ v[1] = c /\ v[2] <= uploads[c] /\ v[2] \in Nat
  <2>1. \A v \in N : v \in page
    BY <1>3, <1>4
  <2> HIDE DEF F, N, T, c
  <2> QED BY <1>1, <1>2, <1>5, <2>1, VideoFields
<1>9. /\ F = {} => top = uploads[c]
      /\ F # {} => Unbroken(c, F) /\ Adjoins(F, top)
  <2>1. \/ F = {} /\ proc[p].offset = 0
        \/ Unbroken(c, F) /\ Adjoins(F, top)
    BY DEF Sound, Paging
  <2>2. Adjoins(F, top) => F # {}
    BY DEF Adjoins
  <2> QED BY <1>1, <2>1, <2>2
<1>10. \A v \in Videos : v[2] \in Nat
  BY VideoFields
<1> HIDE DEF F, T, N, c, top
(* A video between two that were found is found or is on this page or below. *)
<1>11. ASSUME NEW u \in Added(p), NEW w \in Added(p), NEW v \in Videos,
              v[1] = c, u[2] < v[2], v[2] < w[2]
       PROVE  v \in Added(p)
  <2> SUFFICES ASSUME v \notin F PROVE v \in Added(p)
    BY <1>5
  <2>0. u[2] \in Nat /\ v[2] \in Nat /\ w[2] \in Nat /\ w[2] <= uploads[c]
    BY <1>8, <1>10
  <2>1. v[2] <= top
    <3>1. CASE F = {}
      BY <3>1, <1>1, <1>9, <1>11, <2>0
    <3>2. CASE F # {}
      <4>1. PICK f \in F : f[2] <= top + 1
        BY <3>2, <1>9 DEF Adjoins
      <4> SUFFICES ASSUME ~(v[2] <= top) PROVE FALSE
        OBVIOUS
      <4>2. f[2] <= v[2] /\ f[2] \in Nat
        BY <4>1, <1>1, <2>0
      <4>3. f[2] # v[2]
        <5> SUFFICES ASSUME f[2] = v[2] PROVE FALSE
          OBVIOUS
        <5>1. f = v
          <6>1. f \in Videos /\ f[1] = c
            BY <1>1
          <6> QED BY <1>11, <6>1, VideoFields
        <5> QED BY <5>1
      <4>4. w \in F
        <5>1. w \in N => w[2] <= top
          BY <1>2, <1>3, <1>4
        <5> QED BY <5>1, <1>1, <1>5, <2>0, <1>11
      <4> QED BY <3>2, <4>2, <4>3, <4>4, <1>9, <1>11, <2>0 DEF Unbroken
    <3> QED BY <3>1, <3>2
  <2>2. CASE u \in F
    <3>1. F # {}
      BY <2>2
    <3>2. PICK f \in F : v[2] < f[2]
      <4>1. CASE w \in F
        BY <4>1, <1>11
      <4>2. CASE w \in N
        <5>1. w[2] <= top
          BY <4>2, <1>2, <1>3, <1>4
        <5>2. PICK g \in F : top <= g[2]
          BY <3>1, <1>9 DEF Adjoins
        <5>3. v[2] < g[2]
          BY <5>1, <5>2, <1>1, <1>11, <2>0
        <5> QED BY <5>3
      <4> QED BY <4>1, <4>2, <1>5
    <3> QED BY <2>2, <3>1, <3>2, <1>9, <1>11 DEF Unbroken
  <2>3. CASE u \in N
    <3>1. u \in T /\ u \in page /\ top - PageSize < u[2]
      BY <2>3, <1>2, <1>3, <1>4
    <3>2. v \in page
      BY <3>1, <2>0, <2>1, <1>1, <1>2, <1>11
    <3>3. \A x \in page : v[2] <= x[2] => x \notin stored
      <4>1. \A x \in page : u[2] <= x[2] => x \notin stored
        BY <3>1 DEF T, BeforeStored
      <4>2. \A x \in page : x[2] \in Nat
        BY <1>2, <1>10
      <4> QED BY <4>1, <4>2, <2>0, <1>11
    <3>4. v \in T \ F
      BY <3>2, <3>3 DEF T, BeforeStored
    <3> QED BY <2>3, <3>4, <1>4, <1>5, <1>11, <2>0
  <2> QED BY <2>2, <2>3, <1>5
<1>12. Unbroken(c, Added(p))
  BY <1>11 DEF Unbroken
<1>13. ASSUME NEW v \in Below(c, Added(p)) PROVE v[2] <= top
  <2>0. v \in Videos /\ v[2] \in Nat /\ Added(p) # {} /\ \A w \in Added(p) : v[2] < w[2] /\ w[2] \in Nat
    BY <1>8, <1>10 DEF Below
  <2>1. CASE F = {}
    <3>1. PICK w \in Added(p) : TRUE
      BY <2>0
    <3> QED BY <3>1, <2>0, <2>1, <1>8, <1>9, <1>1
  <2>2. CASE F # {}
    <3>1. PICK f \in F : f[2] <= top + 1
      BY <2>2, <1>9 DEF Adjoins
    <3>2. f \in Added(p)
      BY <1>5
    <3> QED BY <3>1, <3>2, <2>0, <1>1
  <2> QED BY <2>1, <2>2
<1> QED BY <1>1, <1>5, <1>6, <1>7, <1>8, <1>12, <1>13 DEF F, T, c, top, page

(* A page adjoins what the listing has found, however uploads shifted it.    *)
LEMMA ListPageSound ==
  ASSUME Types, NEW p \in Callers, Sound(p), ListPage(p)
  PROVE  Sound(p)'
<1> DEFINE c == proc[p].channel
           top == uploads[c] - proc[p].offset
           page == Page(c, proc[p].offset)
           T == BeforeStored(page)
           E == Added(p)
<1>1. proc[p].pc = "paging" /\ UNCHANGED <<uploads, stored, latest>>
  BY DEF ListPage, Rest, world, rows, work
<1>2. /\ c \in Channels /\ proc[p].found \subseteq E
      /\ \A v \in E : v \in Videos /\ v[1] = c /\ v[2] <= uploads[c]
      /\ IsFiniteSet(E) /\ Cardinality(E) \in Nat /\ Cardinality(E) <= CandidateLimit
      /\ Cardinality(E) < CandidateLimit => T \subseteq E
      /\ Unbroken(c, E) /\ \A v \in Below(c, E) : v[2] <= top
  BY <1>1, AddedStretch
<1>3. /\ proc'[p].found = E /\ proc'[p].channel = c
      /\ proc'[p].offset = proc[p].offset + PageSize /\ proc'[p].pages = proc[p].pages + 1
      /\ proc'[p].details = proc[p].details
      /\ proc'[p].pc = IF Over(p) THEN "listed" ELSE "paging"
  BY ListPageFields
<1>4. /\ proc[p].offset \in Nat /\ proc[p].pages \in Nat /\ uploads[c] \in Nat /\ uploads[c] <= MaxUploads[c]
      /\ MaxUploads[c] \in Nat
      /\ PageSize \in Nat \ {0} /\ PageLimit \in Nat /\ CandidateLimit \in Nat
  BY <1>2, IntakeBounds DEF Types, Processes
<1>5. /\ \A v \in page : v \in Videos /\ v[1] = c /\ v[2] <= top /\ top - PageSize < v[2]
      /\ \A v \in Videos : v[1] = c /\ v[2] <= top /\ top - PageSize < v[2] => v \in page
  BY <1>2, <1>4, PageVideos
<1>6. page \cap stored = {} => T = page
  BY DEF BeforeStored
<1>7. Over(p) <=> \/ page \cap stored # {} \/ proc[p].offset + PageSize >= uploads[c]
                  \/ proc[p].pages + 1 >= PageLimit \/ Cardinality(E) >= CandidateLimit
  BY DEF Over
<1>8. \A v \in Videos : v[2] \in Nat
  BY VideoFields
<1> HIDE DEF page, T, E, c
<1>9. Chosen(p)' /\ Few(p)'
  BY <1>1, <1>2, <1>3 DEF Sound, Chosen, Few, Working, c
(* Another page follows: this one was full, and all of it was taken. *)
<1>10. Paging(p)'
  <2> SUFFICES ASSUME ~Over(p) PROVE Unbroken(c, E) /\ Adjoins(E, uploads[c] - (proc[p].offset + PageSize))
    BY <1>1, <1>3 DEF Paging
  <2>1. top - PageSize \in Nat /\ T = page /\ T \subseteq E
    BY <1>2, <1>4, <1>6, <1>7
  <2>2. PICK n \in Nat : n = top - PageSize + 1
    BY <2>1
  <2>3. n \in 1..MaxUploads[c] /\ n <= top /\ top - PageSize < n
    BY <1>4, <2>1, <2>2
  <2>4. <<c, n>> \in Videos /\ <<c, n>>[1] = c /\ <<c, n>>[2] = n
    BY <1>2, <2>3, VideoOf
  <2>5. <<c, n>> \in E
    BY <1>5, <2>1, <2>3, <2>4
  <2>6. n <= uploads[c] - (proc[p].offset + PageSize) + 1 /\ uploads[c] - (proc[p].offset + PageSize) <= n
    BY <1>4, <2>2
  <2> QED BY <1>2, <2>4, <2>5, <2>6 DEF Adjoins
(* The listing is over, and nothing below was left out, or a limit is reached. *)
<1>11. Listed(p)'
  <2> SUFFICES ASSUME Over(p), Cardinality(E) < CandidateLimit, proc[p].pages + 1 < PageLimit,
                      NEW v \in Below(c, E)
               PROVE  \E w \in stored : w[1] = v[1] /\ v[2] <= w[2]
    BY <1>1, <1>2, <1>3, <1>4 DEF Listed, Limited
  <2>1. v \in Videos /\ v[1] = c /\ v[2] <= top /\ v \notin E /\ v[2] \in Nat \ {0}
    <3>1. v \in Videos /\ v[1] = c /\ v[2] <= top /\ v[2] \in Nat
      BY <1>2, <1>8 DEF Below
    <3>2. v[2] \in 1..MaxUploads[c]
      BY <3>1, VideoFields
    <3>3. v \notin E
      <4> SUFFICES ASSUME v \in E PROVE FALSE
        OBVIOUS
      <4>1. v[2] < v[2]
        BY DEF Below
      <4> QED BY <3>1, <4>1
    <3> QED BY <1>4, <3>1, <3>2, <3>3
  <2>2. T \subseteq E
    BY <1>2
  <2>3. page \cap stored # {}
    <3> SUFFICES ASSUME page \cap stored = {} PROVE FALSE
      OBVIOUS
    <3>1. proc[p].offset + PageSize >= uploads[c]
      BY <1>7, <1>4, <1>2
    <3>2. v \in page
      BY <1>4, <1>5, <2>1, <3>1
    <3> QED BY <1>6, <2>1, <2>2, <3>2
  <2>4. PICK x \in page : x \in stored
    BY <2>3
  <2>5. x[1] = c /\ x[2] \in Nat /\ top - PageSize < x[2]
    BY <1>5, <1>8, <2>4
  <2>6. CASE v[2] <= x[2]
    BY <2>1, <2>4, <2>5, <2>6
  <2>7. CASE ~(v[2] <= x[2])
    <3>1. v \in page
      BY <1>4, <1>5, <2>1, <2>5, <2>7
    <3>2. v \notin T
      BY <2>1, <2>2
    <3>3. PICK w \in page : v[2] <= w[2] /\ w \in stored
      BY <3>1, <3>2 DEF T, BeforeStored
    <3> QED BY <1>5, <2>1, <3>3
  <2> QED BY <2>6, <2>7
<1>12. \A v \in proc'[p].found : v[1] = proc'[p].channel /\ v[2] <= uploads'[v[1]]
  BY <1>1, <1>2, <1>3
<1> QED BY <1>9, <1>10, <1>11, <1>12 DEF Sound

(* Details change nothing of what was listed.                                *)
LEMMA GetDetailsSound ==
  ASSUME Types, NEW p \in Callers, Sound(p), GetDetails(p)
  PROVE  Sound(p)' /\ \A q \in Callers : q # p => proc'[q] = proc[q]
<1>0. proc[p] \in Processes
  BY DEF Types
<1>1. /\ proc'[p].pc = "detailed" /\ proc[p].pc = "listed"
      /\ proc'[p].found = proc[p].found /\ proc'[p].details = proc[p].found \ hidden
      /\ proc'[p].channel = proc[p].channel /\ proc'[p].pages = proc[p].pages
      /\ UNCHANGED <<uploads, stored, latest>> /\ \A q \in Callers : q # p => proc'[q] = proc[q]
  BY <1>0 DEF GetDetails, Types, Processes, Rest, world, rows, work
<1>2. Chosen(p)' /\ Few(p)' /\ Paging(p)'
  BY <1>1 DEF Sound, Chosen, Few, Paging, Working
<1>3. Listed(p)'
  BY <1>1 DEF Sound, Listed, Limited
<1> QED BY <1>1, <1>2, <1>3 DEF Sound

(* A collection starts with nothing found, or does not start.                *)
LEMMA StartSound ==
  ASSUME Types, NEW p \in Callers, Sound(p), StartInline(p) \/ NotStarted(p)
  PROVE  Sound(p)' /\ \A q \in Callers : q # p => proc'[q] = proc[q]
<1>0. proc[p] \in Processes
  BY DEF Types
<1>1. /\ proc[p].pc = "chosen" /\ proc'[p].pc \in {"paging", "next"}
      /\ proc'[p].found = proc[p].found /\ proc'[p].details = proc[p].details
      /\ proc'[p].channel = proc[p].channel /\ proc'[p].offset = proc[p].offset
      /\ UNCHANGED <<uploads, latest>> /\ \A q \in Callers : q # p => proc'[q] = proc[q]
  BY <1>0 DEF StartInline, NotStarted, Types, Processes, Rest, world, rows, work
<1>2. Chosen(p)' /\ Few(p)'
  BY <1>1 DEF Sound, Chosen, Few, Working
<1>3. Paging(p)' /\ Listed(p)'
  BY <1>1 DEF Sound, Chosen, Paging, Listed
<1> QED BY <1>1, <1>2, <1>3 DEF Sound

(* A process that takes a channel. *)
LEMMA TakenSound ==
  ASSUME NEW p \in Callers, proc'[p].pc = "chosen", proc'[p].found = {}, proc'[p].details = {},
         proc'[p].offset = 0, proc'[p].channel \in Channels,
         p = "scheduler" => latest'[proc'[p].channel] \in Keys
  PROVE  Sound(p)'
<1>1. Chosen(p)' /\ Paging(p)' /\ Listed(p)'
  BY DEF Chosen, Paging, Listed
<1>2. Few(p)'
  BY FS_EmptySet, IntakeBounds DEF Few
<1> QED BY <1>1, <1>2 DEF Sound

(* Uploads shift the pages of a listing, but its next page still adjoins.    *)
LEMMA UploadedSound ==
  ASSUME Types, NEW p \in Callers, Sound(p), NEW c \in Channels, Uploaded(c)
  PROVE  Sound(p)'
<1>1. UNCHANGED <<stored, latest, proc>>
  BY DEF Uploaded, rows, work
<1>2. /\ \A d \in Channels : uploads[d] \in Nat /\ uploads[d] <= uploads'[d] /\ uploads'[d] \in Nat
      /\ \A d \in Channels : d # c => uploads'[d] = uploads[d]
      /\ uploads'[c] = uploads[c] + 1
  BY DEF Uploaded, Types
<1>3. Chosen(p)' /\ Few(p)' /\ Listed(p)'
  BY <1>1 DEF Sound, Chosen, Few, Listed, Limited
<1>4. proc[p].found \subseteq Videos /\ proc[p].offset \in Nat
  BY DEF Types, Processes
<1>5. \A v \in proc[p].found : v[1] = proc[p].channel /\ v[2] <= uploads'[v[1]]
  <2> TAKE v \in proc[p].found
  <2>1. v[1] \in Channels /\ v[2] \in Nat /\ v[1] = proc[p].channel /\ v[2] <= uploads[v[1]]
    BY <1>4, VideoFields DEF Sound
  <2> QED BY <1>2, <2>1
<1>6. Paging(p)'
  <2> SUFFICES ASSUME proc[p].pc = "paging", proc[p].found # {} \/ proc[p].offset # 0
               PROVE  /\ Unbroken(proc[p].channel, proc[p].found)
                      /\ Adjoins(proc[p].found, uploads'[proc[p].channel] - proc[p].offset)
    BY <1>1 DEF Paging
  <2>1. /\ Unbroken(proc[p].channel, proc[p].found)
        /\ Adjoins(proc[p].found, uploads[proc[p].channel] - proc[p].offset)
    BY DEF Sound, Paging
  <2>2. proc[p].channel \in Channels
    BY DEF Sound, Chosen, Working
  <2>3. CASE proc[p].channel # c
    BY <1>2, <2>1, <2>2, <2>3
  <2>4. CASE proc[p].channel = c
    <3>1. PICK v \in proc[p].found : v[2] <= uploads[c] - proc[p].offset + 1
      BY <2>1, <2>4 DEF Adjoins
    <3>2. PICK w \in proc[p].found : uploads[c] < w[2] + proc[p].offset
      BY <2>4, <3>1 DEF Uploaded
    <3>3. v[2] \in Nat /\ w[2] \in Nat
      BY <1>4, VideoFields
    <3>4. v[2] <= uploads'[c] - proc[p].offset + 1 /\ uploads'[c] - proc[p].offset <= w[2]
      BY <1>2, <1>4, <3>1, <3>2, <3>3
    <3> QED BY <2>1, <2>4, <3>4 DEF Adjoins
  <2> QED BY <2>3, <2>4
<1> QED BY <1>1, <1>3, <1>5, <1>6 DEF Sound

(* Rows are added: those of the candidates with details, all at once.        *)
LEMMA CreateRowsSound ==
  ASSUME Types, NEW p \in Callers, Sound(p), StoredAreUploads, HolesAreExplained, CreateRows(p)
  PROVE  /\ Sound(p)' /\ StoredAreUploads' /\ HolesAreExplained'
         /\ UNCHANGED <<uploads, latest>> /\ stored \subseteq stored'
         /\ \A q \in Callers : q # p => proc'[q] = proc[q]
<1> DEFINE c == proc[p].channel
           found == proc[p].found
           details == proc[p].details
<1>0. proc[p] \in Processes /\ found \subseteq Videos /\ details \subseteq found
  BY DEF Types, Processes, Sound, Few
<1>1. /\ proc[p].pc = "detailed" /\ proc'[p].pc = "recorded"
      /\ proc'[p].found = {} /\ proc'[p].details = {} /\ proc'[p].channel = c
      /\ UNCHANGED <<uploads, latest>>
      /\ \A q \in Callers : q # p => proc'[q] = proc[q]
      /\ stored' = stored \cup details /\ passed' = passed \cup PassedOver(p)
  <2>1. "recorded" \in Steps
    BY DEF Steps
  <2>2. proc' = [proc EXCEPT ![p] = Forgets(p, "recorded")]
    BY DEF CreateRows
  <2>3. /\ proc' = [proc EXCEPT ![p] = Forgets(p, "recorded")]
        /\ \A q \in Callers : q # p => proc'[q] = proc[q]
        /\ proc'[p] = Forgets(p, "recorded")
    BY <2>2 DEF Types
  <2> QED BY <2>1, <2>3, ForgetsFields DEF CreateRows, Rest, world, work
<1>2. Sound(p)'
  <2>1. Chosen(p)' /\ Paging(p)' /\ Listed(p)'
    BY <1>1 DEF Sound, Chosen, Paging, Listed, Working
  <2>2. Few(p)'
    BY <1>1, IntakeBounds, FS_EmptySet DEF Few
  <2> QED BY <1>1, <2>1, <2>2 DEF Sound
<1>3. StoredAreUploads'
  BY <1>0, <1>1 DEF Sound, StoredAreUploads
<1>4. ASSUME NEW v \in Videos, v[2] <= uploads[v[1]],
             NEW w \in stored', w[1] = v[1], v[2] < w[2]
      PROVE  v \in stored' \cup passed'
  <2>0. v[2] \in Nat /\ \A u \in Videos : u[2] \in Nat
    BY VideoFields
  <2>1. CASE \E u \in stored : u[1] = v[1] /\ v[2] <= u[2]
    <3>1. PICK u \in stored : u[1] = v[1] /\ v[2] <= u[2]
      BY <2>1
    <3>2. u \in Videos
      BY DEF Types
    <3>3. CASE v[2] < u[2]
      BY <1>1, <1>4, <3>1, <3>3 DEF HolesAreExplained
    <3>4. CASE ~(v[2] < u[2])
      <4>1. v = u
        BY <2>0, <3>1, <3>2, <3>4, VideoFields
      <4> QED BY <1>1, <4>1
    <3> QED BY <3>3, <3>4
  <2>2. CASE ~\E u \in stored : u[1] = v[1] /\ v[2] <= u[2]
    <3>1. w \in details /\ w \in found /\ w \in Videos /\ w[1] = c /\ v[1] = c
      <4>1. w \notin stored
        BY <1>4, <2>0, <2>2 DEF Types
      <4>2. w \in details /\ w \in found
        BY <1>0, <1>1, <4>1
      <4> QED BY <1>0, <1>4, <4>2 DEF Sound
    <3>2. CASE v \in details
      BY <1>1, <3>2
    <3>3. CASE v \in found \ details
      BY <1>1, <1>4, <3>1, <3>3 DEF PassedOver
    <3>4. CASE v \notin found
      <4>1. Unbroken(c, found)
        BY <1>1 DEF Sound, Listed
      <4>2. \A u \in found : v[2] < u[2]
        <5> SUFFICES ASSUME NEW u \in found, ~(v[2] < u[2]) PROVE FALSE
          OBVIOUS
        <5>1. u \in Videos /\ u[1] = c /\ u[2] \in Nat
          BY <1>0, <2>0 DEF Sound
        <5>2. u[2] # v[2]
          BY <3>1, <3>4, <5>1, VideoFields
        <5>3. u[2] < v[2]
          BY <2>0, <5>1, <5>2
        <5> QED BY <1>4, <3>1, <3>4, <4>1, <5>3 DEF Unbroken
      <4>3. v \in Below(c, found)
        BY <3>1, <4>2 DEF Below
      <4>4. Limited(p)
        BY <1>1, <2>2, <4>3 DEF Sound, Listed
      <4>5. v \in Beyond(p)
        BY <3>1, <4>2, <4>4 DEF Beyond, Limited
      <4> QED BY <1>1, <1>4, <3>1, <4>5 DEF PassedOver
    <3> QED BY <3>2, <3>3, <3>4
  <2> QED BY <2>1, <2>2
<1> QED BY <1>1, <1>2, <1>3, <1>4 DEF HolesAreExplained

----------------------------------------------------------------------------
(* The invariant *)

(* The invariant holds before the first tick.                                *)
LEMMA InitSound == Init => IntakeInv
<1> SUFFICES ASSUME Init PROVE IntakeInv
  OBVIOUS
<1>1. Types
  <2>1. \A c \in Channels : uploads[c] \in 1..MaxUploads[c]
    BY IntakeBounds DEF Init
  <2> QED BY <2>1, IdleFields, IntakeBounds DEF Init, Types, Statuses
<1>2. \A p \in Callers : Sound(p)
  <2> SUFFICES ASSUME NEW p \in Callers PROVE Sound(p)
    OBVIOUS
  <2>1. proc[p].pc = "idle" /\ proc[p].found = {} /\ proc[p].details = {}
    BY IdleFields DEF Init
  <2>2. Chosen(p) /\ Paging(p) /\ Listed(p)
    BY <2>1 DEF Chosen, Paging, Listed, Working
  <2>3. Few(p)
    BY <2>1, FS_EmptySet, IntakeBounds DEF Few
  <2> QED BY <2>1, <2>2, <2>3 DEF Sound
<1> QED BY <1>1, <1>2 DEF Init, IntakeInv, StoredAreUploads, HolesAreExplained

(* Steps of the scheduler, the operator and the world that list nothing. *)
LEMMA OtherSteps ==
  ASSUME Types, \A p \in Callers : Sound(p),
         \/ TickStarts \/ TickEnds \/ ChannelIsSkipped \/ ChannelIsDue \/ TickFails
         \/ EnqueueTranscripts
         \/ \E cs \in Selections, retry, rerun \in BOOLEAN : Asks(cs, retry, rerun)
         \/ NextRequested \/ ClosesBatch
         \/ \E c \in Channels : IntervalElapses(c)
         \/ \E v \in Unstable : AvailabilityChanges(v)
         \/ \E c \in Channels, k \in Keys : Cancels(c, k) \/ Retries(c, k) \/ Recovers(c, k)
  PROVE  UNCHANGED <<uploads, stored, passed>> /\ \A p \in Callers : Sound(p)'
<1> DEFINE chosen(c) == c \in Channels => (latest[c] \in Keys => latest'[c] \in Keys)
<1>0. /\ Callers = {"scheduler", "request"} /\ "scheduler" # "request"
      /\ proc \in [Callers -> Processes]
      /\ \A p \in Callers : proc[p].todo \subseteq Channels
  BY DEF Types, Callers, Processes
<1>1. CASE TickStarts \/ TickEnds \/ ChannelIsSkipped \/ TickFails \/ EnqueueTranscripts
  <2>1. /\ UNCHANGED <<uploads, stored, passed, latest>> /\ proc'["request"] = proc["request"]
        /\ proc'["scheduler"].pc \in {"idle", "next"}
        /\ \/ proc'["scheduler"].found = {} /\ proc'["scheduler"].details = {}
           \/ /\ proc'["scheduler"].found = proc["scheduler"].found
              /\ proc'["scheduler"].details = proc["scheduler"].details
              /\ proc'["scheduler"].channel = proc["scheduler"].channel
    <3>1. CASE TickStarts
      <4>1. UNCHANGED <<uploads, stored, passed, latest>>
        BY <3>1 DEF TickStarts, world, rows, work
      <4>2. proc' = [proc EXCEPT !["scheduler"] = [Idle EXCEPT !.pc = "next", !.todo = Channels]]
        BY <3>1 DEF TickStarts
      <4> QED BY <1>0, <4>1, <4>2 DEF Idle
    <3>2. CASE TickEnds \/ TickFails
      BY <1>0, <3>2, IdleFields DEF TickEnds, TickFails, world, rows, work
    <3>3. CASE ChannelIsSkipped
      BY <1>0, <3>3 DEF ChannelIsSkipped, Processes, world, rows, work
    <3>4. CASE EnqueueTranscripts
      BY <1>0, <3>4 DEF EnqueueTranscripts, Processes, world, work
    <3> QED BY <1>1, <3>1, <3>2, <3>3, <3>4
  <2>2. Sound("scheduler")'
    BY <1>0, <2>1, AtRest
  <2>3. Sound("request")'
    BY <1>0, <2>1, Unmoved
  <2> QED BY <1>0, <2>1, <2>2, <2>3
<1>2. CASE ChannelIsDue
  <2> DEFINE c == First(proc["scheduler"].todo)
             k == IF latest[c] = None THEN "tick" ELSE latest[c]
  <2>1. c \in Channels /\ k \in Keys
    BY <1>0, <1>2, FirstIsLeft DEF ChannelIsDue, Keys, Types
  <2>2. /\ proc'["scheduler"].pc = "chosen" /\ proc'["scheduler"].found = {}
        /\ proc'["scheduler"].details = {} /\ proc'["scheduler"].offset = 0
        /\ proc'["scheduler"].channel = c
        /\ proc'["request"] = proc["request"]
    BY <1>0, <1>2, <2>1, ChosenFields DEF ChannelIsDue
  <2>3. UNCHANGED <<uploads, stored, passed>> /\ latest' = [latest EXCEPT ![c] = k]
    BY <1>2 DEF ChannelIsDue, world, rows
  <2>4. latest'[c] \in Keys /\ \A d \in Channels : latest[d] \in Keys => latest'[d] \in Keys
    BY <2>1, <2>3 DEF Types
  <2>5. Sound("scheduler")'
    BY <1>0, <2>1, <2>2, <2>4, TakenSound
  <2>6. Sound("request")'
    BY <1>0, <2>2, <2>3, <2>4, Unmoved
  <2> QED BY <1>0, <2>3, <2>5, <2>6
<1>3. ASSUME NEW cs \in Selections, NEW retry \in BOOLEAN, NEW rerun \in BOOLEAN, Asks(cs, retry, rerun)
      PROVE  UNCHANGED <<uploads, stored, passed>> /\ \A p \in Callers : Sound(p)'
  <2>1. /\ proc'["request"].pc = "next" /\ proc'["request"].found = {} /\ proc'["request"].details = {}
        /\ proc'["scheduler"] = proc["scheduler"]
    <3>1. PICK D : proc' = [proc EXCEPT !["request"] = [Idle EXCEPT !.pc = "next", !.todo = D]]
      BY <1>3 DEF Asks
    <3> QED BY <1>0, <3>1 DEF Idle
  <2>2. UNCHANGED <<uploads, stored, passed>>
    <3>1. UNCHANGED <<world, rows>>
      BY <1>3 DEF Asks
    <3> QED BY <3>1 DEF world, rows
  <2>3. \A c \in Channels : latest[c] \in Keys => latest'[c] \in Keys
    BY <1>3 DEF Asks, Keys
  <2>4. Sound("request")'
    BY <1>0, <2>1, <2>2, AtRest
  <2>5. Sound("scheduler")'
    BY <1>0, <2>1, <2>2, <2>3, Unmoved
  <2> QED BY <1>0, <2>2, <2>4, <2>5
<1>4. CASE NextRequested
  <2>1. First(proc["request"].todo) \in Channels
    BY <1>0, <1>4, FirstIsLeft DEF NextRequested
  <2>2. /\ proc'["request"].pc = "chosen" /\ proc'["request"].found = {}
        /\ proc'["request"].details = {} /\ proc'["request"].offset = 0
        /\ proc'["request"].channel \in Channels
        /\ proc'["scheduler"] = proc["scheduler"]
    <3> DEFINE r == [Idle EXCEPT !.pc = "chosen", !.todo = proc["request"].todo \ {First(proc["request"].todo)},
                                 !.channel = First(proc["request"].todo)]
    <3>1. proc["request"].todo \ {First(proc["request"].todo)} \in SUBSET Channels
      BY <1>0
    <3>2. r.pc = "chosen" /\ r.found = {} /\ r.details = {} /\ r.offset = 0 /\ r.channel \in Channels
      BY <2>1, <3>1, ChosenFields
    <3>3. proc' = [proc EXCEPT !["request"] = r]
      BY <1>4 DEF NextRequested
    <3> HIDE DEF r
    <3> QED BY <1>0, <3>2, <3>3
  <2>3. UNCHANGED <<uploads, stored, passed, latest>>
    BY <1>4 DEF NextRequested, world, rows, work
  <2>4. Sound("request")'
    BY <1>0, <2>2, TakenSound
  <2>5. Sound("scheduler")'
    BY <1>0, <2>2, <2>3, Unmoved
  <2> QED BY <1>0, <2>3, <2>4, <2>5
<1>5. CASE ClosesBatch
  <2>1. /\ UNCHANGED <<uploads, stored, passed, latest>> /\ proc'["scheduler"] = proc["scheduler"]
        /\ proc'["request"] = Idle
    BY <1>0, <1>5 DEF ClosesBatch, world, rows, work
  <2>2. Sound("request")'
    BY <1>0, <2>1, AtRest, IdleFields
  <2>3. Sound("scheduler")'
    BY <1>0, <2>1, Unmoved
  <2> QED BY <1>0, <2>1, <2>2, <2>3
<1>6. CASE \/ \E c \in Channels : IntervalElapses(c)
           \/ \E v \in Unstable : AvailabilityChanges(v)
           \/ \E c \in Channels, k \in Keys : Cancels(c, k) \/ Retries(c, k) \/ Recovers(c, k)
  <2>1. UNCHANGED <<uploads, stored, passed, latest, proc>>
    BY <1>6 DEF IntervalElapses, AvailabilityChanges, Cancels, Retries, Recovers, world, rows, work
  <2> QED BY <2>1, Unmoved
<1> QED BY <1>1, <1>2, <1>3, <1>4, <1>5, <1>6

(* A collection that ends without rows. *)
LEMMA EndingSteps ==
  ASSUME Types, \A q \in Callers : Sound(q), NEW p \in Callers,
         RowsConflict(p) \/ RecordsSuccess(p) \/ Misfortune(p)
  PROVE  UNCHANGED <<uploads, stored, passed>> /\ \A q \in Callers : Sound(q)'
<1>0. proc \in [Callers -> Processes] /\ Chosen(p)
  BY DEF Types, Sound
<1>1. /\ UNCHANGED <<uploads, stored, passed, latest>>
      /\ \A q \in Callers : q # p => proc'[q] = proc[q]
      /\ proc'[p].pc \in {"idle", "next", "collected"}
      /\ \/ proc'[p].found = {} /\ proc'[p].details = {}
         \/ /\ proc'[p].found = proc[p].found /\ proc'[p].details = proc[p].details
            /\ proc'[p].channel = proc[p].channel
  <2>1. CASE \E status \in {"failed", "succeeded", "timed_out"}, where \in {"idle", "next", "collected"} :
               proc[p].pc \in Working /\ Ends(p, status, where)
    <3>1. {"failed", "succeeded", "timed_out"} \subseteq Statuses
      BY DEF Statuses
    <3> QED BY <1>0, <2>1, <3>1, EndsTypes
  <2>2. CASE proc' = [proc EXCEPT ![p] = Idle] /\ UNCHANGED <<world, batch, rows, work>>
    BY <1>0, <2>2, IdleFields DEF world, rows, work
  <2> QED BY <2>1, <2>2 DEF RowsConflict, RecordsSuccess, Misfortune, Fails, EngineRecordsSuccess,
                            TimesOut, Crashes, Working, Rest
<1>2. Sound(p)'
  BY <1>1, AtRest
<1>3. ASSUME NEW q \in Callers, q # p PROVE Sound(q)'
  BY <1>1, <1>3, Unmoved
<1> QED BY <1>1, <1>2, <1>3

(* Every step preserves the invariant.                                       *)
LEMMA NextSound == IntakeInv /\ [Next]_vars => IntakeInv'
<1> SUFFICES ASSUME IntakeInv, [Next]_vars PROVE IntakeInv'
  OBVIOUS
<1>0. Types /\ StoredAreUploads /\ HolesAreExplained /\ \A p \in Callers : Sound(p) /\ Chosen(p) /\ Few(p)
  BY DEF IntakeInv, Sound
<1>1. CASE UNCHANGED vars
  BY <1>0, <1>1 DEF IntakeInv, Types, StoredAreUploads, HolesAreExplained, Sound, Chosen, Few, Paging,
                    Listed, Limited, Mine, vars, world, rows, work
<1>2. CASE Next
  <2>1. Types'
    BY <1>0, <1>2, TickTypes, RequestTypes, CollectTypes DEF Next, Tick, Request, Callers
  <2>2. ASSUME UNCHANGED <<uploads, stored, passed>> /\ \A p \in Callers : Sound(p)' PROVE IntakeInv'
    BY <1>0, <2>1, <2>2 DEF IntakeInv, StoredAreUploads, HolesAreExplained
  <2>3. ASSUME NEW c \in Channels, Uploaded(c) PROVE IntakeInv'
    <3>1. \A p \in Callers : Sound(p)'
      BY <1>0, <2>3, UploadedSound
    <3>2. /\ UNCHANGED <<stored, passed>> /\ \A d \in Channels : uploads[d] \in Nat
          /\ uploads' = [uploads EXCEPT ![c] = @ + 1]
      BY <1>0, <2>3 DEF Uploaded, rows, Types
    <3>3. \A d \in Channels : uploads[d] <= uploads'[d] /\ uploads'[d] \in Nat
      BY <1>0, <3>2 DEF Types
    <3>4. \A v \in Videos : v[1] \in Channels /\ v[2] \in Nat
      BY VideoFields
    <3>5. stored \subseteq Videos
      BY <1>0 DEF Types
    <3>6. \A v \in stored : v[2] <= uploads[v[1]]
      BY <1>0 DEF StoredAreUploads
    <3>7. StoredAreUploads'
      BY <3>2, <3>3, <3>4, <3>5, <3>6 DEF StoredAreUploads
    <3>8. ASSUME NEW v \in Videos, NEW w \in stored, w[1] = v[1], v[2] < w[2]
          PROVE  v \in stored \cup passed
      <4>1. v[2] <= uploads[v[1]]
        BY <3>2, <3>4, <3>5, <3>6, <3>8
      <4> QED BY <1>0, <3>8, <4>1 DEF HolesAreExplained
    <3>9. HolesAreExplained'
      BY <3>2, <3>8 DEF HolesAreExplained
    <3> QED BY <2>1, <3>1, <3>7, <3>9 DEF IntakeInv
  <2>4. ASSUME NEW p \in Callers, Collects(p) PROVE IntakeInv'
    <3>1. CASE StartInline(p) \/ NotStarted(p)
      <4>1. UNCHANGED <<uploads, stored, passed, latest>>
        BY <3>1 DEF StartInline, NotStarted, Rest, world, rows, work
      <4>2. Sound(p)' /\ \A q \in Callers : q # p => proc'[q] = proc[q]
        BY <1>0, <3>1, StartSound
      <4>3. ASSUME NEW q \in Callers, q # p PROVE Sound(q)'
        BY <1>0, <4>1, <4>2, <4>3, Unmoved
      <4> QED BY <2>2, <4>1, <4>2, <4>3
    <3>2. CASE ListPage(p)
      <4>1. UNCHANGED <<uploads, stored, passed, latest>>
        BY <3>2 DEF ListPage, Rest, world, rows, work
      <4>2. Sound(p)' /\ \A q \in Callers : q # p => proc'[q] = proc[q]
        BY <1>0, <3>2, ListPageSound, ListPageFields
      <4>3. ASSUME NEW q \in Callers, q # p PROVE Sound(q)'
        BY <1>0, <4>1, <4>2, <4>3, Unmoved
      <4> QED BY <2>2, <4>1, <4>2, <4>3
    <3>3. CASE GetDetails(p)
      <4>1. UNCHANGED <<uploads, stored, passed, latest>>
        BY <3>3 DEF GetDetails, Rest, world, rows, work
      <4>2. Sound(p)' /\ \A q \in Callers : q # p => proc'[q] = proc[q]
        BY <1>0, <3>3, GetDetailsSound
      <4>3. ASSUME NEW q \in Callers, q # p PROVE Sound(q)'
        BY <1>0, <4>1, <4>2, <4>3, Unmoved
      <4> QED BY <2>2, <4>1, <4>2, <4>3
    <3>4. CASE CreateRows(p)
      <4>1. /\ Sound(p)' /\ StoredAreUploads' /\ HolesAreExplained'
            /\ UNCHANGED <<uploads, latest>> /\ stored \subseteq stored'
            /\ \A q \in Callers : q # p => proc'[q] = proc[q]
        BY <1>0, <3>4, CreateRowsSound
      <4>2. ASSUME NEW q \in Callers, q # p PROVE Sound(q)'
        BY <1>0, <4>1, <4>2, Unmoved
      <4> QED BY <2>1, <4>1, <4>2 DEF IntakeInv
    <3>5. CASE RowsConflict(p) \/ RecordsSuccess(p)
      BY <1>0, <2>2, <3>5, EndingSteps
    <3> QED BY <2>4, <3>1, <3>2, <3>3, <3>4, <3>5 DEF Collects
  <2>5. ASSUME NEW p \in Callers, Misfortune(p) PROVE IntakeInv'
    BY <1>0, <2>2, <2>5, EndingSteps
  <2>6. ASSUME ~\E c \in Channels : Uploaded(c), ~\E p \in Callers : Collects(p) \/ Misfortune(p)
        PROVE  IntakeInv'
    BY <1>0, <1>2, <2>2, <2>6, OtherSteps DEF Next, Tick, Request, Callers
  <2> QED BY <2>3, <2>4, <2>5, <2>6
<1> QED BY <1>1, <1>2

(* What a listing has found stays an unbroken stretch, in any interleaving   *)
(* of uploads, ticks, requests, failures and crashes.                        *)
THEOREM IntakeInvariant == Spec => []IntakeInv
BY InitSound, NextSound, PTL DEF Spec

(* Every variable has a value that its column or the process can hold; the   *)
(* transcripts that the scheduler orders are of stored videos.               *)
THEOREM IntakeTypes == Spec => []TypeOK
<1>1. IntakeInv => TypeOK
  <2> SUFFICES ASSUME IntakeInv PROVE TypeOK
    OBVIOUS
  <2>1. Types /\ \A p \in Callers : Few(p)
    BY DEF IntakeInv, Sound
  <2>2. \A p \in Callers : proc[p] \in Processes
    BY <2>1 DEF Types
  <2> QED BY <2>1, <2>2 DEF TypeOK, Types, Processes, Few
<1> QED BY <1>1, IntakeInvariant, PTL

(* A video older than a stored one is stored, or a listing limit or missing  *)
(* details kept it out: neither two collections at once, nor a crash, a      *)
(* failure or a shifted page leaves a hole (_list_new_videos, create_videos).*)
THEOREM ExplainedHoles == Spec => []HolesAreExplained
<1>1. IntakeInv => HolesAreExplained
  BY DEF IntakeInv
<1> QED BY <1>1, IntakeInvariant, PTL
=============================================================================
