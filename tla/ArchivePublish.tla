--------------------------- MODULE ArchivePublish ---------------------------
(***************************************************************************)
(* Publication of a video's timeline to the public archive                 *)
(* (domains/archive_publish/use_cases.py, infra/archive_publish).          *)
(*                                                                         *)
(* A publisher is a process or request that executes a claimed archive     *)
(* item.  It writes to four places that no transaction spans, in a fixed   *)
(* order: the timeline object, the artifact row, the public catalog, the   *)
(* index object, the publication row and the pointer object.  Each await   *)
(* is a step, and any step may be its last: Fails is a storage, catalog or *)
(* database error as well as a crash.  A timeout cancels the await of an   *)
(* object's put and not the thread that makes it (run_in_threadpool): the  *)
(* put goes on and may land at any later time.                             *)
(*                                                                         *)
(* What is published is a target: a profile, which is a bucket and prefix, *)
(* and an environment.  A request names both, so that an environment may   *)
(* be published under several profiles and a profile hold several          *)
(* environments.                                                           *)
(*                                                                         *)
(* Objects are named by the second in which they are built (_version).     *)
(* What an object holds is the number of the execution that wrote it; a    *)
(* video stands for a pair of video and variant of one schema version.     *)
(***************************************************************************)
EXTENDS Integers, Sequences

CONSTANTS
  Videos,          \* videos with a succeeded timeline
  Environments,    \* environments that are published
  Profiles,        \* publish modes, each with a bucket and prefix of its own
  Targets,         \* pairs of a profile and an environment that requests name
  Publishers,      \* processes and requests that may execute archive items
  None,            \* no video, no target
  MaxExecutions,   \* bound: executions that build an artifact
  MaxClock,        \* bound: seconds
  MaxChecks        \* bound: changes of a video's embed status

Seconds == 0..MaxClock
Executions == 1..MaxExecutions

ASSUME PublishBounds == MaxExecutions \in Nat /\ MaxClock \in Nat /\ MaxChecks \in Nat
ASSUME TargetAssumption == Targets \subseteq [profile: Profiles, env: Environments]
ASSUME PublishNull == None \notin Videos /\ None \notin Targets

VARIABLES
  active,        \* publishers that run in this behaviour
  catalogOn,     \* public_catalog_sync_enabled
  clock,         \* seconds
  embeddable,    \* videos whose is_embeddable is not False
  artifacts,     \* archive_video_artifacts, in the order of id
  publications,  \* archive_index_publications, in the order of id
  timelines,     \* timelines[x][v][s]: the timeline object, 0 when there is none
  indexes,       \* indexes[x][s]: the index object
  pointers,      \* pointers[t]: the second that names the current index
  catalog,       \* catalog[e][v]: the artifact the public catalog shows, 0 for none
  pub,           \* what each publisher is doing, and what it has read
  late,          \* executions that timed out in a put that goes on
  built,         \* executions that have built an artifact
  checks,        \* changes of embed status so far
  blocked,       \* history: videos that were once not embeddable
  cut            \* history: profiles with a put that a timeout left behind, of an
                 \* index or pointer, since rows were last read without one
rows == <<artifacts, publications>>
public == <<timelines, indexes, pointers, catalog>>
history == <<blocked, cut>>
vars == <<active, catalogOn, clock, embeddable, rows, public, pub, late, built, checks, history>>

----------------------------------------------------------------------------
(* Rows and objects *)

Artifact == [video: Videos, target: Targets, version: Seconds, content: Executions,
             sync: {"no", "synced", "failed"}]
Publication == [env: Environments, version: Seconds]

(* An index object: the rows it lists, each with its URL and version. *)
Index == [exists: BOOLEAN, lists: SUBSET Nat]
NoIndex == [exists |-> FALSE, lists |-> {}]
NoSecond == -1

Idle == [pc |-> "idle", video |-> None, target |-> None, version |-> NoSecond,
         content |-> 0, artifact |-> 0, index |-> NoIndex]
Steps == {"idle", "built", "saved", "inserted", "cataloged", "synced", "listed", "indexed",
          "recorded", "published"}
Work == [pc: Steps, video: Videos \cup {None}, target: Targets \cup {None},
         version: Seconds \cup {NoSecond}, content: Executions \cup {0},
         artifact: Nat, index: Index]

(* An artifact's object: the key of its row, under the prefix it was saved with. *)
Object(a) == timelines[artifacts[a].target.profile][artifacts[a].video][artifacts[a].version]
InEnv(a, e) == artifacts[a].target.env = e

(* Mutant: the newest of the rows whose catalog synchronisation is done. *)
NewestSynced(e, v) == {a \in DOMAIN artifacts :
                         /\ InEnv(a, e) /\ artifacts[a].video = v
                         /\ artifacts[a].sync = "synced"
                         /\ \A b \in DOMAIN artifacts :
                              InEnv(b, e) /\ artifacts[b].video = v => b <= a}

(* list_latest_video_artifacts: the newest row of each video that may be     *)
(* embedded.                                                                 *)
Newest(e, v) == {a \in DOMAIN artifacts :
                   /\ InEnv(a, e) /\ artifacts[a].video = v
                   /\ \A b \in DOMAIN artifacts :
                        InEnv(b, e) /\ artifacts[b].video = v => b <= a}
Latest(e) == UNION {Newest(e, v) : v \in embeddable}

Init ==
  /\ active \in SUBSET Publishers \ {{}}
  /\ catalogOn \in BOOLEAN
  /\ clock = 0
  /\ embeddable = Videos
  /\ artifacts = <<>>
  /\ publications = <<>>
  /\ timelines = [x \in Profiles |-> [v \in Videos |-> [s \in Seconds |-> 0]]]
  /\ indexes = [x \in Profiles |-> [s \in Seconds |-> NoIndex]]
  /\ pointers = [t \in Targets |-> NoSecond]
  /\ catalog = [e \in Environments |-> [v \in Videos |-> 0]]
  /\ pub = [p \in Publishers |-> Idle]
  /\ late = {}
  /\ built = 0
  /\ checks = 0
  /\ blocked = {} /\ cut = {}

----------------------------------------------------------------------------
(* The world around a publication *)

Tick ==
  /\ clock < MaxClock
  /\ clock' = clock + 1
  /\ UNCHANGED <<active, catalogOn, embeddable, rows, public, pub, late, built, checks, history>>

(* A video's embed status is checked again (collection, scheduler). *)
EmbedStatusChanges(v) ==
  /\ checks < MaxChecks
  /\ checks' = checks + 1
  /\ embeddable' = IF v \in embeddable THEN embeddable \ {v} ELSE embeddable \cup {v}
  /\ blocked' = IF v \in embeddable THEN blocked \cup {v} ELSE blocked
  /\ UNCHANGED <<active, catalogOn, clock, rows, public, pub, late, built, cut>>

----------------------------------------------------------------------------
(* One execution *)

(* Only the publisher's own record changes, besides what the action names. *)
Moves(p, where) == pub' = [pub EXCEPT ![p].pc = where]
World == UNCHANGED <<active, catalogOn, clock, embeddable, checks, blocked>>
Rest == World /\ UNCHANGED <<late, cut>>

(* The put that execution w has come to: the object it writes, and no other. *)
PutTimeline(w) ==
  /\ timelines' = [timelines EXCEPT ![w.target.profile][w.video][w.version] = w.content]
  /\ UNCHANGED <<indexes, pointers>>
PutIndex(w) ==
  /\ indexes' = [indexes EXCEPT ![w.target.profile][w.version] = w.index]
  /\ UNCHANGED <<timelines, pointers>>
PutPointer(w) ==
  /\ pointers' = [pointers EXCEPT ![w.target] = w.version]
  /\ UNCHANGED <<timelines, indexes>>

(* get_publish_candidate, get_composition, get_extraction and                *)
(* _timeline_artifact; a video that may not be embedded is refused.          *)
Build(p, v, t) ==
  /\ p \in active /\ pub[p].pc = "idle" /\ built < MaxExecutions
  /\ v \in embeddable
  /\ built' = built + 1
  /\ pub' = [pub EXCEPT ![p] = [Idle EXCEPT !.pc = "built", !.video = v, !.target = t,
                                            !.version = clock, !.content = built + 1]]
  /\ Rest /\ UNCHANGED <<rows, public>>

SaveTimeline(p) ==
  /\ pub[p].pc = "built"
  /\ PutTimeline(pub[p])
  /\ Moves(p, "saved")
  /\ Rest /\ UNCHANGED <<rows, catalog, built>>

NewRow(w) ==
  [video |-> w.video, target |-> w.target, version |-> w.version,
   content |-> w.content, sync |-> "no"]

(* Mutant: the row first, so that the object's key is on record. *)
RowBeforeObject(p) ==
  /\ pub[p].pc \in {"built", "saved"}
  /\ artifacts' = Append(artifacts, NewRow(pub[p]))
  /\ pub' = [pub EXCEPT ![p].pc = IF catalogOn THEN "inserted" ELSE "synced",
                        ![p].artifact = Len(artifacts) + 1]
  /\ Rest /\ UNCHANGED <<publications, public, built>>

(* create_video_artifact commits: whatever happens next, the row stays. *)
InsertArtifact(p) ==
  /\ pub[p].pc = "saved"
  /\ artifacts' = Append(artifacts, NewRow(pub[p]))
  /\ pub' = [pub EXCEPT ![p].pc = IF catalogOn THEN "inserted" ELSE "synced",
                        ![p].artifact = Len(artifacts) + 1]
  /\ Rest /\ UNCHANGED <<publications, public, built>>

(* _sync_public_catalog: the request, *)
UpsertCatalog(p) ==
  /\ pub[p].pc = "inserted"
  /\ catalog' = [catalog EXCEPT ![pub[p].target.env][pub[p].video] = pub[p].artifact]
  /\ Moves(p, "cataloged")
  /\ Rest /\ UNCHANGED <<rows, timelines, indexes, pointers, built>>

(* Mutant: marked before the request is answered. *)
MarkSyncedEarly(p) ==
  /\ pub[p].pc \in {"inserted", "cataloged"}
  /\ artifacts' = [artifacts EXCEPT ![pub[p].artifact].sync = "synced"]
  /\ pub' = [pub EXCEPT ![p].pc = IF @ = "inserted" THEN "inserted" ELSE "synced"]
  /\ Rest /\ UNCHANGED <<publications, public, built>>

(* then mark_video_artifact_catalog_synced, *)
MarkSynced(p) ==
  /\ pub[p].pc = "cataloged"
  /\ artifacts' = [artifacts EXCEPT ![pub[p].artifact].sync = "synced"]
  /\ Moves(p, "synced")
  /\ Rest /\ UNCHANGED <<publications, public, built>>

(* Mutant: the error text in the place of the status. *)
MarkSyncError(p) ==
  /\ pub[p].pc \in {"inserted", "cataloged"}
  /\ artifacts' = [artifacts EXCEPT ![pub[p].artifact].sync = "error"]
  /\ pub' = [pub EXCEPT ![p] = Idle]
  /\ Rest /\ UNCHANGED <<publications, public, built>>

(* or mark_video_artifact_catalog_sync_failed when the request raised,       *)
(* whether or not the catalog applied it.                                    *)
MarkSyncFailed(p) ==
  /\ pub[p].pc \in {"inserted", "cataloged"}
  /\ artifacts' = [artifacts EXCEPT ![pub[p].artifact].sync = "failed"]
  /\ pub' = [pub EXCEPT ![p] = Idle]
  /\ Rest /\ UNCHANGED <<publications, public, built>>

(* History: an index is read, and no put of an earlier one goes on.          *)
LateTo(x) == {w \in late : w.target.profile = x /\ w.pc \in {"listed", "recorded"}}
ClearCut(x) == cut' = IF LateTo(x) = {} THEN cut \ {x} ELSE cut

(* Mutant: an index of what this execution has published. *)
ReadOwnOnly(p) ==
  /\ pub[p].pc = "synced"
  /\ pub' = [pub EXCEPT ![p].pc = "listed", ![p].version = clock,
               ![p].index = [exists |-> TRUE, lists |-> {Len(artifacts)}]]
  /\ ClearCut(pub[p].target.profile)
  /\ World /\ UNCHANGED <<rows, public, late, built>>

(* list_latest_video_artifacts, of every profile the environment was         *)
(* published under, and _index_artifact, with a version of its own.          *)
ReadIndex(p) ==
  /\ pub[p].pc = "synced"
  /\ pub' = [pub EXCEPT ![p].pc = "listed", ![p].version = clock,
               ![p].index = [exists |-> TRUE, lists |-> Latest(pub[p].target.env)]]
  /\ ClearCut(pub[p].target.profile)
  /\ World /\ UNCHANGED <<rows, public, late, built>>

SaveIndex(p) ==
  /\ pub[p].pc = "listed"
  /\ PutIndex(pub[p])
  /\ Moves(p, "indexed")
  /\ Rest /\ UNCHANGED <<rows, catalog, built>>

(* create_index_publication *)
RecordPublication(p) ==
  /\ pub[p].pc = "indexed"
  /\ publications' = Append(publications,
                            [env |-> pub[p].target.env, version |-> pub[p].version])
  /\ Moves(p, "recorded")
  /\ Rest /\ UNCHANGED <<artifacts, public, built>>

SavePointer(p) ==
  /\ pub[p].pc = "recorded"
  /\ PutPointer(pub[p])
  /\ Moves(p, "published")
  /\ Rest /\ UNCHANGED <<rows, catalog, built>>

(* mark_attempt_succeeded, mark_task_succeeded, and the artifact's work ids. *)
RecordSuccess(p) ==
  /\ pub[p].pc = "published"
  /\ pub' = [pub EXCEPT ![p] = Idle]
  /\ Rest /\ UNCHANGED <<rows, public, built>>

(* An error, recorded as a failure of the attempt and the item, or a crash. *)
Fails(p) ==
  /\ pub[p].pc # "idle"
  /\ pub' = [pub EXCEPT ![p] = Idle]
  /\ Rest /\ UNCHANGED <<rows, public, built>>

(* The item's timeout cancels the await of save_json: the engine goes on,    *)
(* and so does the thread that runs _save_sync, with the client's retries.   *)
TimesOut(p) ==
  /\ pub[p].pc \in {"built", "listed", "recorded"}
  /\ late' = late \cup {pub[p]}
  /\ cut' = IF pub[p].pc = "built" THEN cut ELSE cut \cup {pub[p].target.profile}
  /\ pub' = [pub EXCEPT ![p] = Idle]
  /\ World /\ UNCHANGED <<rows, public, built>>

Executes(p) ==
  \/ \E v \in Videos, t \in Targets : Build(p, v, t)
  \/ SaveTimeline(p) \/ InsertArtifact(p)
  \/ UpsertCatalog(p) \/ MarkSynced(p) \/ MarkSyncFailed(p)
  \/ ReadIndex(p) \/ SaveIndex(p) \/ RecordPublication(p) \/ SavePointer(p)
  \/ RecordSuccess(p) \/ Fails(p) \/ TimesOut(p)

(* The put that w's thread was making lands, *)
Lands(w) ==
  /\ late' = late \ {w}
  /\ \/ w.pc = "built" /\ PutTimeline(w)
     \/ w.pc = "listed" /\ PutIndex(w)
     \/ w.pc = "recorded" /\ PutPointer(w)
  /\ World /\ UNCHANGED <<rows, catalog, pub, built, cut>>

(* or fails in the end, or dies with its process. *)
IsLost(w) ==
  /\ late' = late \ {w}
  /\ World /\ UNCHANGED <<rows, public, pub, built, cut>>

Next ==
  \/ Tick
  \/ \E v \in Videos : EmbedStatusChanges(v)
  \/ \E p \in Publishers : Executes(p)
  \/ \E w \in late : Lands(w) \/ IsLost(w)

Spec == Init /\ [][Next]_vars

----------------------------------------------------------------------------
(* Properties *)

(* Every row, object and publisher record has its type, and a put that goes  *)
(* on was left behind by an execution that had come to it.                   *)
TypeOK ==
  /\ active \in SUBSET Publishers /\ catalogOn \in BOOLEAN
  /\ clock \in Seconds /\ embeddable \in SUBSET Videos
  /\ artifacts \in Seq(Artifact) /\ publications \in Seq(Publication)
  /\ timelines \in [Profiles -> [Videos -> [Seconds -> Executions \cup {0}]]]
  /\ indexes \in [Profiles -> [Seconds -> Index]]
  /\ pointers \in [Targets -> Seconds \cup {NoSecond}]
  /\ catalog \in [Environments -> [Videos -> Nat]]
  /\ pub \in [Publishers -> Work]
  /\ late \in SUBSET Work /\ \A w \in late : w.pc \in {"built", "listed", "recorded"}
  /\ built \in 0..MaxExecutions /\ checks \in 0..MaxChecks
  /\ blocked \in SUBSET Videos /\ cut \in SUBSET Profiles

(* What a visitor of target t can see in the index behind the pointer. *)
Shown(t) ==
  IF pointers[t] = NoSecond THEN {} ELSE indexes[t.profile][pointers[t]].lists

(* Whatever a visitor is given by the pointer or by the public catalog can   *)
(* be fetched: the index exists, and so does the timeline object of every    *)
(* artifact that the index or the catalog refers to, however publications    *)
(* interleave, fail, time out with a put under way, or share a second.       *)
ReadersResolve ==
  /\ \A t \in Targets :
       pointers[t] # NoSecond => indexes[t.profile][pointers[t]].exists
  /\ \A t \in Targets : \A a \in Shown(t) :
       a \in DOMAIN artifacts /\ Object(a) # 0
  /\ \A e \in Environments, v \in Videos :
       catalog[e][v] # 0 => catalog[e][v] \in DOMAIN artifacts /\ Object(catalog[e][v]) # 0

(* Publishers that run alone are what a single process is. *)
Alone == \A p, q \in active : p = q

(* A publication that succeeds shows every video's newest artifact, those of *)
(* earlier executions that failed after their row was committed included:    *)
(* a failed index or pointer write is made up for by the next publication,   *)
(* and so is one that a timeout cut off, if its put was over when the next   *)
(* publication read its rows.                                                *)
SuccessShowsAll ==
  Alone => \A p \in active :
    pub[p].pc = "published" /\ pub[p].target.profile \notin cut =>
      \A a \in DOMAIN artifacts :
        InEnv(a, pub[p].target.env) /\ artifacts[a].video \notin blocked =>
          \E b \in Shown(pub[p].target) : b >= a /\ artifacts[b].video = artifacts[a].video

(* The catalog never shows an older artifact than the newest row marked as   *)
(* synced, so that catalog and database agree on what is public.             *)
CatalogIsCurrent ==
  Alone => \A a \in DOMAIN artifacts :
    artifacts[a].sync = "synced" => catalog[artifacts[a].target.env][artifacts[a].video] >= a

(* The archive moves forward: no step of a single publisher makes the        *)
(* pointer's index show an older artifact of a video than it did, or lose a  *)
(* video that has always been embeddable.  It can be taken back by a put of  *)
(* an index or pointer that outlived its timeout, from then until rows are   *)
(* read with no such put under way; and by a publication of another          *)
(* environment, where one profile holds several.                             *)
ShownOf(t, v) == {a \in Shown(t) : artifacts[a].video = v}
Own(t) == \A u \in Targets : u.profile = t.profile => u = t
ShownMovesForward ==
  [][Alone => \A t \in Targets, v \in Videos \ blocked' :
       Own(t) /\ t.profile \notin cut =>
         \A a \in ShownOf(t, v) : \E b \in (ShownOf(t, v))' : b >= a]_vars
=============================================================================
