------------------------ MODULE ArchivePublishProofs ------------------------
(***************************************************************************)
(* Proofs about ArchivePublish: whatever publishers do at the same time,   *)
(* fail at, time out in, or write in the same second, a reader can fetch   *)
(* what the pointer and the catalog refer to; and what a publisher that    *)
(* runs alone achieves.  The order of the writes carries the argument: an  *)
(* object is written before the row, the index or the pointer that names   *)
(* it, also when a put outlives its timeout, and neither objects nor rows  *)
(* are ever deleted.                                                       *)
(***************************************************************************)
EXTENDS ArchivePublish, TLAPS

(* The row's environment is published under profile x.                       *)
OfProfile(a, x) == \E u \in Targets : u.profile = x /\ InEnv(a, u.env)

(* Rows have their timeline objects; indexes, pointers and the catalog name  *)
(* rows and indexes that exist.                                              *)
PublicFacts ==
  /\ \A a \in DOMAIN artifacts : Object(a) # 0
  /\ \A x \in Profiles, s \in Seconds : \A a \in indexes[x][s].lists :
       a \in DOMAIN artifacts /\ OfProfile(a, x)
  /\ \A t \in Targets :
       pointers[t] # NoSecond => indexes[t.profile][pointers[t]].exists
  /\ \A e \in Environments, v \in Videos :
       catalog[e][v] # 0 => catalog[e][v] \in DOMAIN artifacts

(* An index that is built lists rows of its environment.                     *)
Listed(w) ==
  /\ w.index.exists
  /\ \A a \in w.index.lists : a \in DOMAIN artifacts /\ InEnv(a, w.target.env)

(* What a publisher remembers of what it has written.                        *)
OwnFacts(p) ==
  /\ pub[p].pc # "idle" =>
       /\ p \in active
       /\ pub[p].video \in Videos /\ pub[p].target \in Targets
       /\ pub[p].version \in Seconds /\ pub[p].content \in Executions
  /\ pub[p].pc = "saved" =>
       timelines[pub[p].target.profile][pub[p].video][pub[p].version] # 0
  /\ pub[p].pc \in {"inserted", "cataloged"} => pub[p].artifact \in DOMAIN artifacts
  /\ pub[p].pc = "listed" => Listed(pub[p])
  /\ pub[p].pc \in {"indexed", "recorded"} =>
       indexes[pub[p].target.profile][pub[p].version].exists

(* A put that goes on is what its execution had come to, and the history     *)
(* knows of it when it is one of an index or a pointer.                      *)
LateFacts(w) ==
  /\ w.video \in Videos /\ w.target \in Targets
  /\ w.version \in Seconds /\ w.content \in Executions
  /\ w.pc = "listed" => Listed(w)
  /\ w.pc = "recorded" => indexes[w.target.profile][w.version].exists
  /\ w.pc \in {"listed", "recorded"} => w.target.profile \in cut

(* Every video that was always embeddable has its newest row in lists.       *)
Complete(lists, e) ==
  \A a \in DOMAIN artifacts :
    InEnv(a, e) /\ artifacts[a].video \notin blocked =>
      \E b \in lists : b >= a /\ b \in DOMAIN artifacts
                       /\ artifacts[b].video = artifacts[a].video

(* What a publisher that runs alone remembers stays true of rows and objects, *)
(* of index and pointer while no put of its profile was cut off.              *)
AloneFacts(p) ==
  /\ pub[p].pc \in {"inserted", "cataloged"} =>
       /\ pub[p].artifact = Len(artifacts)
       /\ artifacts[pub[p].artifact].video = pub[p].video
       /\ artifacts[pub[p].artifact].target = pub[p].target
  /\ pub[p].pc = "cataloged" => catalog[pub[p].target.env][pub[p].video] = pub[p].artifact
  /\ pub[p].pc \in {"listed", "indexed", "recorded", "published"} =>
       Complete(pub[p].index.lists, pub[p].target.env)
  /\ pub[p].target.profile \notin cut =>
       /\ pub[p].pc \in {"indexed", "recorded", "published"} =>
            indexes[pub[p].target.profile][pub[p].version].lists = pub[p].index.lists
       /\ pub[p].pc = "published" => pointers[pub[p].target] = pub[p].version

(* Every pair with a row has a newest row; a video that is not embeddable    *)
(* was blocked.                                                              *)
NewestFacts ==
  /\ \A a \in DOMAIN artifacts : Newest(artifacts[a].target.env, artifacts[a].video) # {}
  /\ Videos \ embeddable \subseteq blocked

PublishInv ==
  /\ TypeOK
  /\ PublicFacts
  /\ NewestFacts
  /\ \A p \in Publishers : OwnFacts(p)
  /\ \A w \in late : LateFacts(w)
  /\ Alone => \A p \in Publishers : AloneFacts(p)
  /\ CatalogIsCurrent

----------------------------------------------------------------------------
(* What one publisher's step leaves alone *)

(* Objects and rows are never deleted.                                       *)
Grows ==
  /\ DOMAIN artifacts \subseteq DOMAIN artifacts'
  /\ \A a \in DOMAIN artifacts : artifacts'[a].target = artifacts[a].target
                               /\ artifacts'[a].video = artifacts[a].video
  /\ \A x \in Profiles, v \in Videos, s \in Seconds :
       timelines[x][v][s] # 0 => timelines'[x][v][s] # 0
  /\ \A x \in Profiles, s \in Seconds : indexes[x][s].exists => indexes'[x][s].exists

Others(p) == \A q \in Publishers \ {p} : pub'[q] = pub[q]

(* The history forgets no put that goes on.                                  *)
CutKept == \A w \in late : w.pc \in {"listed", "recorded"} /\ w.target.profile \in cut
                             => w.target.profile \in cut'

(* A target is a profile and an environment.                                 *)
LEMMA TargetParts ==
  ASSUME NEW t \in Targets
  PROVE  t.profile \in Profiles /\ t.env \in Environments
BY TargetAssumption

(* A change of the step a publisher is at changes nothing else of it.        *)
LEMMA Moved ==
  ASSUME TypeOK, NEW p \in Publishers, NEW where \in Steps, Moves(p, where)
  PROVE  /\ pub' \in [Publishers -> Work] /\ Others(p)
         /\ pub'[p].pc = where /\ pub'[p].video = pub[p].video
         /\ pub'[p].target = pub[p].target /\ pub'[p].version = pub[p].version
         /\ pub'[p].content = pub[p].content /\ pub'[p].artifact = pub[p].artifact
         /\ pub'[p].index = pub[p].index
<1>1. pub \in [Publishers -> Work] /\ pub[p] \in Work
  BY DEF TypeOK
<1>2. pub' = [pub EXCEPT ![p] = [pub[p] EXCEPT !.pc = where]]
  BY DEF Moves
<1>3. [pub[p] EXCEPT !.pc = where] \in Work
  BY <1>1 DEF Work
<1> QED BY <1>1, <1>2, <1>3 DEF Work, Others

(* A publication at work has a target, a video and a version.                *)
LEMMA AtWork ==
  ASSUME PublishInv, NEW p \in Publishers, pub[p].pc # "idle"
  PROVE  /\ p \in active
         /\ pub[p] \in Work /\ pub \in [Publishers -> Work]
         /\ pub[p].video \in Videos /\ pub[p].target \in Targets
         /\ pub[p].version \in Seconds /\ pub[p].content \in Executions
         /\ pub[p].target.profile \in Profiles /\ pub[p].target.env \in Environments
<1>1. OwnFacts(p) /\ TypeOK
  BY DEF PublishInv
<1> QED BY <1>1, TargetParts DEF OwnFacts, TypeOK

(* What an index lists stays listed.                                         *)
LEMMA ListedKept ==
  ASSUME Grows, NEW w, Listed(w)
  PROVE  Listed(w)'
BY DEF Listed, InEnv, Grows

(* The facts a publisher remembers survive the steps of others.              *)
LEMMA Remembered ==
  ASSUME PublishInv, NEW q \in Publishers, Grows, pub'[q] = pub[q], active' = active
  PROVE  OwnFacts(q)'
<1>1. OwnFacts(q)
  BY DEF PublishInv
<1>2. CASE pub[q].pc = "idle"
  BY <1>2 DEF OwnFacts
<1>3. CASE pub[q].pc # "idle"
  <2>1. /\ pub[q].video \in Videos /\ pub[q].target \in Targets
        /\ pub[q].version \in Seconds /\ pub[q].target.profile \in Profiles
    BY <1>3, AtWork
  <2>2. pub[q].pc = "listed" => Listed(pub[q])'
    BY <1>1 DEF OwnFacts, Listed, InEnv, Grows
  <2> QED BY <1>1, <2>1, <2>2 DEF OwnFacts, Grows
<1> QED BY <1>2, <1>3

(* So do those of the puts that go on.                                       *)
LEMMA StillLate ==
  ASSUME PublishInv, NEW w \in late, Grows, CutKept
  PROVE  LateFacts(w)'
<1>1. LateFacts(w)
  BY DEF PublishInv
<1>2. w.target.profile \in Profiles
  BY <1>1, TargetParts DEF LateFacts
<1>3. w.pc = "listed" => Listed(w)'
  BY <1>1, ListedKept DEF LateFacts
<1> QED BY <1>1, <1>2, <1>3 DEF LateFacts, Grows, CutKept

(* A step of p keeps the invariant when it keeps what is not about other     *)
(* publishers or puts that go on: alone, the others are idle.                *)
LEMMA StepOf ==
  ASSUME PublishInv, NEW p \in active, p \in Publishers, Others(p), Grows, CutKept,
         \A w \in late' \ late : LateFacts(w)',
         active' = active, TypeOK', PublicFacts', NewestFacts', OwnFacts(p)',
         Alone => AloneFacts(p)', CatalogIsCurrent'
  PROVE  PublishInv'
<1>1. \A q \in Publishers : OwnFacts(q)'
  BY Remembered DEF Others
<1>2. ASSUME Alone, NEW q \in Publishers \ {p}
      PROVE  AloneFacts(q)'
  <2>1. pub[q].pc = "idle"
    BY <1>2 DEF PublishInv, OwnFacts, Alone
  <2> QED BY <2>1 DEF Others, AloneFacts
<1>3. Alone' <=> Alone
  BY DEF Alone
<1>4. \A w \in late' : LateFacts(w)'
  BY StillLate
<1> QED BY <1>1, <1>2, <1>3, <1>4 DEF PublishInv

(* The step leaves no put behind.                                            *)
LEMMA QuietStepOf ==
  ASSUME PublishInv, NEW p \in active, p \in Publishers, Others(p), Grows,
         UNCHANGED <<late, cut>>,
         active' = active, TypeOK', PublicFacts', NewestFacts', OwnFacts(p)',
         Alone => AloneFacts(p)', CatalogIsCurrent'
  PROVE  PublishInv'
BY StepOf DEF CutKept

(* What the type of a row says.                                              *)
LEMMA RowType ==
  ASSUME TypeOK, NEW a \in DOMAIN artifacts
  PROVE  /\ a \in Nat /\ a \in 1 .. Len(artifacts)
         /\ artifacts[a] \in Artifact
         /\ artifacts[a].target \in Targets /\ artifacts[a].video \in Videos
         /\ artifacts[a].version \in Seconds /\ artifacts[a].content \in Executions
         /\ artifacts[a].target.profile \in Profiles
         /\ artifacts[a].target.env \in Environments
<1>1. artifacts \in Seq(Artifact)
  BY DEF TypeOK
<1>2. a \in 1 .. Len(artifacts) /\ artifacts[a] \in Artifact
  BY <1>1
<1>3. /\ artifacts[a].target \in Targets /\ artifacts[a].video \in Videos
      /\ artifacts[a].version \in Seconds /\ artifacts[a].content \in Executions
  BY <1>2 DEF Artifact
<1> QED BY <1>2, <1>3, TargetParts

(* A row keeps its object.                                                   *)
LEMMA ObjectKept ==
  ASSUME PublishInv, Grows, NEW a \in DOMAIN artifacts,
         artifacts'[a].version = artifacts[a].version
  PROVE  Object(a)' # 0
<1>1. /\ artifacts[a].video \in Videos /\ artifacts[a].version \in Seconds
      /\ artifacts[a].target.profile \in Profiles
  BY RowType DEF PublishInv
<1>2. timelines[artifacts[a].target.profile][artifacts[a].video][artifacts[a].version] # 0
  BY DEF PublishInv, PublicFacts, Object
<1>3. Object(a)' = timelines'[artifacts[a].target.profile][artifacts[a].video][artifacts[a].version]
  BY DEF Object, Grows
<1> QED BY <1>1, <1>2, <1>3 DEF Grows

(* Rows that keep their video and target keep their order.                   *)
LEMMA NewestKept ==
  ASSUME DOMAIN artifacts' = DOMAIN artifacts,
         \A a \in DOMAIN artifacts : artifacts'[a].target = artifacts[a].target
                                  /\ artifacts'[a].video = artifacts[a].video,
         UNCHANGED <<embeddable, blocked>>, NewestFacts
  PROVE  NewestFacts'
<1>1. ASSUME NEW a \in DOMAIN artifacts
      PROVE  Newest(artifacts[a].target.env, artifacts[a].video)' # {}
  <2>1. PICK b \in Newest(artifacts[a].target.env, artifacts[a].video) : TRUE
    BY DEF NewestFacts
  <2>2. b \in Newest(artifacts[a].target.env, artifacts[a].video)'
    BY <2>1 DEF Newest, InEnv
  <2> QED BY <2>2
<1> QED BY <1>1 DEF NewestFacts

(* Nothing public but objects changes.                                       *)
LEMMA RowsKept ==
  ASSUME PublishInv, UNCHANGED <<active, artifacts, embeddable, blocked, catalog>>
  PROVE  NewestFacts' /\ CatalogIsCurrent'
<1>1. NewestFacts'
  BY NewestKept DEF PublishInv
<1>2. CatalogIsCurrent'
  BY DEF PublishInv, CatalogIsCurrent, Alone
<1> QED BY <1>1, <1>2

----------------------------------------------------------------------------
(* One lemma for each step of a publication *)

(* Building an artifact in memory preserves the invariant.                   *)
LEMMA BuildKeeps ==
  ASSUME PublishInv, NEW p \in Publishers, NEW v \in Videos, NEW t \in Targets,
         Build(p, v, t)
  PROVE  PublishInv'
<1> DEFINE w == [Idle EXCEPT !.pc = "built", !.video = v, !.target = t,
                             !.version = clock, !.content = built + 1]
<1>1. /\ p \in active /\ pub' = [pub EXCEPT ![p] = w] /\ built' = built + 1
      /\ built < MaxExecutions
      /\ UNCHANGED <<active, catalogOn, clock, embeddable, checks, blocked, late, cut, artifacts,
                     publications, timelines, indexes, pointers, catalog>>
  BY DEF Build, Rest, World, rows, public
<1>2. TypeOK /\ clock \in Seconds /\ built \in 0 .. MaxExecutions
  BY DEF PublishInv, TypeOK
<1>3. built + 1 \in Executions /\ built + 1 \in 0 .. MaxExecutions
  BY <1>1, <1>2, PublishBounds DEF Executions
<1>4. /\ w.pc = "built" /\ w.video = v /\ w.target = t /\ w.version = clock
      /\ w.content = built + 1 /\ w \in Work
  BY <1>2, <1>3 DEF Idle, Work, Steps, NoIndex, Index
<1> HIDE DEF w
<1>5. pub' \in [Publishers -> Work] /\ pub'[p] = w /\ Others(p)
  BY <1>1, <1>2, <1>4 DEF TypeOK, Others
<1>6. TypeOK'
  BY <1>1, <1>2, <1>3, <1>5 DEF TypeOK
<1>7. Grows
  BY <1>1 DEF Grows
<1>8. OwnFacts(p)'
  BY <1>1, <1>2, <1>3, <1>4, <1>5 DEF OwnFacts
<1>9. AloneFacts(p)'
  BY <1>4, <1>5 DEF AloneFacts
<1>10. PublicFacts' /\ CatalogIsCurrent'
  BY <1>1 DEF PublishInv, PublicFacts, CatalogIsCurrent, Alone, Object, OfProfile, InEnv
<1>11. NewestFacts'
  BY <1>1, NewestKept DEF PublishInv
<1> QED BY <1>1, <1>5, <1>6, <1>7, <1>8, <1>9, <1>10, <1>11, QuietStepOf

(* A put of an object changes that object and no other.                      *)
LEMMA ObjectPut ==
  ASSUME NEW T, NEW f \in [Profiles -> [Videos -> [Seconds -> T]]],
         NEW x \in Profiles, NEW u \in Videos, NEW n \in Seconds, NEW c \in T, NEW f2,
         f2 = [f EXCEPT ![x][u][n] = c]
  PROVE  /\ f2 \in [Profiles -> [Videos -> [Seconds -> T]]] /\ f2[x][u][n] = c
         /\ \A y \in Profiles, v \in Videos, s \in Seconds : f2[y][v][s] \in {f[y][v][s], c}
<1> DEFINE g == [f[x][u] EXCEPT ![n] = c]
           h == [f[x] EXCEPT ![u] = g]
<1>1. f2 = [f EXCEPT ![x] = h]
  OBVIOUS
<1>2. g \in [Seconds -> T] /\ g[n] = c /\ \A s \in Seconds : g[s] \in {f[x][u][s], c}
  OBVIOUS
<1> HIDE DEF g
<1>3. h \in [Videos -> [Seconds -> T]] /\ h[u] = g /\ \A v \in Videos \ {u} : h[v] = f[x][v]
  BY <1>2
<1> HIDE DEF h
<1>4. /\ f2 \in [Profiles -> [Videos -> [Seconds -> T]]] /\ f2[x] = h
      /\ \A y \in Profiles \ {x} : f2[y] = f[y]
  BY <1>1, <1>3
<1> QED BY <1>2, <1>3, <1>4

(* Saving the object preserves it: no row names the object's key before.     *)
LEMMA SaveTimelineKeeps ==
  ASSUME PublishInv, NEW p \in Publishers, SaveTimeline(p)
  PROVE  PublishInv'
<1> DEFINE x == pub[p].target.profile
           u == pub[p].video
           n == pub[p].version
<1>1. /\ pub[p].pc = "built"
      /\ timelines' = [timelines EXCEPT ![x][u][n] = pub[p].content]
      /\ Moves(p, "saved")
      /\ UNCHANGED <<active, catalogOn, clock, embeddable, checks, blocked, late, cut, artifacts,
                     publications, indexes, pointers, catalog, built>>
  BY DEF SaveTimeline, PutTimeline, Rest, World, rows
<1>2. /\ p \in active /\ x \in Profiles /\ u \in Videos /\ n \in Seconds
      /\ pub[p].target \in Targets /\ pub[p].content \in Executions
  BY <1>1, AtWork
<1>3. /\ pub' \in [Publishers -> Work] /\ Others(p) /\ pub'[p].pc = "saved"
      /\ pub'[p].video = u /\ pub'[p].target = pub[p].target /\ pub'[p].version = n
      /\ pub'[p].content = pub[p].content
  BY <1>1, Moved DEF PublishInv, Steps
<1>4. timelines \in [Profiles -> [Videos -> [Seconds -> Executions \cup {0}]]]
  BY DEF PublishInv, TypeOK
<1>5. /\ timelines' \in [Profiles -> [Videos -> [Seconds -> Executions \cup {0}]]]
      /\ timelines'[x][u][n] = pub[p].content
      /\ \A y \in Profiles, v \in Videos, s \in Seconds :
           timelines'[y][v][s] \in {timelines[y][v][s], pub[p].content}
  <2>1. pub[p].content \in Executions \cup {0}
    BY <1>2
  <2>2. timelines' = [timelines EXCEPT ![x][u][n] = pub[p].content]
    BY <1>1
  <2> HIDE DEF x, u, n
  <2> QED BY <1>2, <1>4, <2>1, <2>2, ObjectPut
<1>6. pub[p].content # 0
  BY <1>2 DEF Executions
<1>7. TypeOK'
  BY <1>1, <1>3, <1>5 DEF PublishInv, TypeOK
<1>8. Grows
  BY <1>1, <1>5, <1>6 DEF Grows
<1>9. OwnFacts(p)'
  BY <1>1, <1>2, <1>3, <1>5, <1>6 DEF OwnFacts
<1>10. AloneFacts(p)'
  BY <1>3 DEF AloneFacts
<1>11. PublicFacts'
  <2>2. \A a \in DOMAIN artifacts' : Object(a)' # 0
    BY <1>1, <1>8, ObjectKept
  <2> QED BY <1>1, <2>2 DEF PublishInv, PublicFacts, OfProfile, InEnv
<1>12. CatalogIsCurrent'
  BY <1>1 DEF PublishInv, CatalogIsCurrent, Alone
<1>13. NewestFacts'
  BY <1>1, NewestKept DEF PublishInv
<1> QED BY <1>1, <1>2, <1>3, <1>7, <1>8, <1>9, <1>10, <1>11, <1>12, <1>13, QuietStepOf

(* The new row names the object just saved.                                  *)
LEMMA InsertArtifactKeeps ==
  ASSUME PublishInv, NEW p \in Publishers, InsertArtifact(p)
  PROVE  PublishInv'
<1>0. PICK k \in Nat : k = Len(artifacts) + 1
  BY DEF PublishInv, TypeOK
<1> DEFINE row == NewRow(pub[p])
           next == IF catalogOn THEN "inserted" ELSE "synced"
           w == [pub[p] EXCEPT !.pc = next, !.artifact = k]
<1>1. /\ pub[p].pc = "saved"
      /\ artifacts' = Append(artifacts, row)
      /\ pub' = [pub EXCEPT ![p] = w]
      /\ UNCHANGED <<active, catalogOn, clock, embeddable, checks, blocked, late, cut, publications,
                     timelines, indexes, pointers, catalog, built>>
  BY <1>0 DEF InsertArtifact, Rest, World, public
<1>2. /\ p \in active /\ pub[p].target \in Targets /\ pub[p].video \in Videos
      /\ pub[p].version \in Seconds /\ pub[p].content \in Executions /\ pub[p] \in Work
      /\ pub \in [Publishers -> Work] /\ pub[p].target.profile \in Profiles
  BY <1>1, AtWork
<1>3. row \in Artifact
  BY <1>2 DEF Artifact, NewRow
<1>4. artifacts \in Seq(Artifact) /\ TypeOK
  BY DEF PublishInv, TypeOK
<1>5. /\ k \in Nat /\ k # 0 /\ artifacts' \in Seq(Artifact) /\ Len(artifacts') = k
      /\ DOMAIN artifacts' = DOMAIN artifacts \cup {k} /\ artifacts'[k] = row
      /\ \A a \in DOMAIN artifacts : a \in Nat /\ a < k /\ artifacts'[a] = artifacts[a]
  BY <1>0, <1>1, <1>3, <1>4
<1>6. /\ w.pc = next /\ w.artifact = k /\ w.video = pub[p].video /\ w.target = pub[p].target
      /\ w.version = pub[p].version /\ w.content = pub[p].content /\ w \in Work
  BY <1>2, <1>5 DEF Work, Steps
<1> HIDE DEF w
<1>7. pub' \in [Publishers -> Work] /\ pub'[p] = w /\ Others(p)
  BY <1>1, <1>2, <1>6 DEF Others
<1>8. next \in {"inserted", "synced"}
  OBVIOUS
<1>9. row.video = pub[p].video /\ row.target = pub[p].target /\ row.version = pub[p].version
      /\ row.sync = "no"
  BY DEF NewRow
<1> HIDE DEF row, next
<1>10. TypeOK'
  BY <1>1, <1>4, <1>5, <1>7 DEF TypeOK
<1>11. Grows
  BY <1>1, <1>5 DEF Grows
<1>12. OwnFacts(p)'
  BY <1>1, <1>2, <1>5, <1>6, <1>7, <1>8 DEF OwnFacts
<1>13. AloneFacts(p)'
  BY <1>5, <1>6, <1>7, <1>8, <1>9 DEF AloneFacts
<1>14. PublicFacts'
  <2>1. Object(k)' # 0
    <3>1. Object(k)' = timelines[pub[p].target.profile][pub[p].video][pub[p].version]
      BY <1>1, <1>5, <1>9 DEF Object
    <3> QED BY <1>1, <3>1 DEF PublishInv, OwnFacts
  <2>2. \A a \in DOMAIN artifacts' : Object(a)' # 0
    BY <1>5, <1>11, <2>1, ObjectKept
  <2> QED BY <1>1, <1>5, <2>2 DEF PublishInv, PublicFacts, OfProfile, InEnv
<1>15. CatalogIsCurrent'
  BY <1>1, <1>5, <1>9 DEF PublishInv, CatalogIsCurrent, Alone
<1>16. NewestFacts'
  <2>1. ASSUME NEW a \in DOMAIN artifacts'
        PROVE  Newest(artifacts[a].target.env, artifacts[a].video)' # {}
    <3>1. CASE artifacts'[a].target.env = row.target.env /\ artifacts'[a].video = row.video
      <4>1. k \in Newest(artifacts[a].target.env, artifacts[a].video)'
        BY <1>5, <3>1 DEF Newest, InEnv
      <4> QED BY <4>1
    <3>2. CASE ~(artifacts'[a].target.env = row.target.env /\ artifacts'[a].video = row.video)
      <4>1. a \in DOMAIN artifacts /\ artifacts'[a] = artifacts[a]
        BY <1>5, <3>2
      <4>2. PICK b \in Newest(artifacts[a].target.env, artifacts[a].video) : TRUE
        BY <4>1 DEF PublishInv, NewestFacts
      <4>3. b \in Newest(artifacts[a].target.env, artifacts[a].video)'
        BY <1>5, <3>2, <4>1, <4>2 DEF Newest, InEnv
      <4> QED BY <4>3
    <3> QED BY <3>1, <3>2
  <2> QED BY <1>1, <2>1 DEF PublishInv, NewestFacts
<1> QED BY <1>1, <1>2, <1>7, <1>10, <1>11, <1>12, <1>13, <1>14, <1>15, <1>16, QuietStepOf

(* The catalog gets what the row names.                                      *)
LEMMA UpsertCatalogKeeps ==
  ASSUME PublishInv, NEW p \in Publishers, UpsertCatalog(p)
  PROVE  PublishInv'
<1> DEFINE t == pub[p].target
           e == t.env
           u == pub[p].video
           k == pub[p].artifact
<1>1. /\ pub[p].pc = "inserted"
      /\ catalog' = [catalog EXCEPT ![e][u] = k]
      /\ Moves(p, "cataloged")
      /\ UNCHANGED <<active, catalogOn, clock, embeddable, checks, blocked, late, cut, artifacts,
                     publications, timelines, indexes, pointers, built>>
  BY DEF UpsertCatalog, Rest, World, rows
<1>2. /\ p \in active /\ e \in Environments /\ t \in Targets /\ u \in Videos /\ pub[p].version \in Seconds
      /\ pub[p].content \in Executions /\ k \in DOMAIN artifacts /\ k \in Nat
  BY <1>1, AtWork, RowType DEF PublishInv, OwnFacts
<1>3. /\ pub' \in [Publishers -> Work] /\ Others(p) /\ pub'[p].pc = "cataloged"
      /\ pub'[p].video = u /\ pub'[p].target = t /\ pub'[p].version = pub[p].version
      /\ pub'[p].content = pub[p].content /\ pub'[p].artifact = k
  BY <1>1, Moved DEF PublishInv, Steps
<1>4. catalog \in [Environments -> [Videos -> Nat]] /\ TypeOK
  BY DEF PublishInv, TypeOK
<1>5. /\ catalog' \in [Environments -> [Videos -> Nat]] /\ catalog'[e][u] = k
      /\ \A f \in Environments, v \in Videos :
           ~(f = e /\ v = u) => catalog'[f][v] = catalog[f][v]
  BY <1>1, <1>2, <1>4
<1>6. TypeOK' /\ Grows
  BY <1>1, <1>3, <1>4, <1>5 DEF TypeOK, Grows
<1>7. OwnFacts(p)'
  BY <1>1, <1>2, <1>3 DEF OwnFacts
<1>8. ASSUME Alone PROVE AloneFacts(p)'
  BY <1>1, <1>3, <1>5, <1>8 DEF PublishInv, AloneFacts
<1>9. PublicFacts'
  <2>1. \A f \in Environments, v \in Videos : catalog'[f][v] # 0 => catalog'[f][v] \in DOMAIN artifacts
    BY <1>2, <1>5 DEF PublishInv, PublicFacts, OfProfile, InEnv
  <2> QED BY <1>1, <2>1 DEF PublishInv, PublicFacts, Object, OfProfile, InEnv
<1>10. CatalogIsCurrent'
  <2> SUFFICES ASSUME Alone, NEW a \in DOMAIN artifacts, artifacts[a].sync = "synced"
               PROVE  catalog'[artifacts[a].target.env][artifacts[a].video] >= a
    BY <1>1 DEF CatalogIsCurrent, Alone
  <2>1. /\ a \in 1 .. Len(artifacts) /\ artifacts[a].target.env \in Environments
        /\ artifacts[a].video \in Videos
    BY <1>4, RowType
  <2>2. k = Len(artifacts)
    BY <1>1 DEF PublishInv, AloneFacts
  <2>3. catalog[artifacts[a].target.env][artifacts[a].video] >= a
    BY DEF PublishInv, CatalogIsCurrent
  <2> QED BY <1>5, <2>1, <2>2, <2>3
<1>11. NewestFacts'
  BY <1>1, NewestKept DEF PublishInv
<1> QED BY <1>1, <1>2, <1>3, <1>6, <1>7, <1>8, <1>9, <1>10, <1>11, QuietStepOf

(* A change of the synchronisation status of row k, of p.                    *)
LEMMA MarkKeeps ==
  ASSUME PublishInv, NEW p \in Publishers, pub[p].pc \in {"inserted", "cataloged"},
         NEW status \in {"synced", "failed"},
         artifacts' = [artifacts EXCEPT ![pub[p].artifact].sync = status],
         Rest, UNCHANGED <<publications, public, built>>,
         pub' \in [Publishers -> Work], Others(p), OwnFacts(p)', AloneFacts(p)',
         status = "synced" => pub[p].pc = "cataloged"
  PROVE  PublishInv'
<1>1. /\ p \in active /\ pub[p].target \in Targets /\ pub[p].video \in Videos
  BY AtWork
<1>2. UNCHANGED <<active, catalogOn, clock, embeddable, checks, blocked, late, cut, publications,
                  timelines, indexes, pointers, catalog, built>>
  BY DEF Rest, World, public
<1>3. PICK k \in DOMAIN artifacts : k = pub[p].artifact /\ k \in 1 .. Len(artifacts)
  BY RowType DEF PublishInv, OwnFacts
<1> DEFINE row == [artifacts[k] EXCEPT !.sync = status]
<1>4. artifacts \in Seq(Artifact) /\ artifacts[k] \in Artifact /\ TypeOK
  BY RowType DEF PublishInv, TypeOK
<1>5. /\ row \in Artifact /\ row.sync = status /\ row.target = artifacts[k].target
      /\ row.video = artifacts[k].video /\ row.version = artifacts[k].version
  BY <1>4 DEF Artifact
<1>6. artifacts' = [artifacts EXCEPT ![k] = row]
  BY <1>3
<1> HIDE DEF row
<1>7. /\ artifacts' \in Seq(Artifact) /\ DOMAIN artifacts' = DOMAIN artifacts
      /\ artifacts'[k] = row
      /\ \A a \in DOMAIN artifacts \ {k} : artifacts'[a] = artifacts[a]
  BY <1>3, <1>4, <1>5, <1>6
<1>8. \A a \in DOMAIN artifacts : artifacts'[a].target = artifacts[a].target
        /\ artifacts'[a].video = artifacts[a].video
        /\ artifacts'[a].version = artifacts[a].version
  BY <1>5, <1>7
<1>9. TypeOK' /\ Grows
  BY <1>2, <1>4, <1>7, <1>8 DEF TypeOK, Grows
<1>10. PublicFacts'
  <2>1. \A a \in DOMAIN artifacts' : Object(a)' # 0
    BY <1>7, <1>8, <1>9, ObjectKept
  <2> QED BY <1>2, <1>7, <1>8, <2>1 DEF PublishInv, PublicFacts, OfProfile, InEnv
<1>11. CatalogIsCurrent'
  <2> SUFFICES ASSUME Alone, NEW a \in DOMAIN artifacts, artifacts'[a].sync = "synced"
               PROVE  catalog[artifacts[a].target.env][artifacts[a].video] >= a
    BY <1>2, <1>7, <1>8 DEF CatalogIsCurrent, Alone
  <2>1. CASE a = k
    <3>1. pub[p].pc = "cataloged"
      BY <1>5, <1>7, <2>1
    <3>2. catalog[artifacts[k].target.env][artifacts[k].video] = k
      BY <1>3, <3>1 DEF PublishInv, AloneFacts
    <3> QED BY <1>3, <2>1, <3>2
  <2>2. CASE a # k
    BY <1>7, <2>2 DEF PublishInv, CatalogIsCurrent
  <2> QED BY <2>1, <2>2
<1>12. NewestFacts'
  BY <1>2, <1>7, <1>8, NewestKept DEF PublishInv
<1> QED BY <1>1, <1>2, <1>9, <1>10, <1>11, <1>12, QuietStepOf

(* A row is marked once the catalog has it.                                  *)
LEMMA MarkSyncedKeeps ==
  ASSUME PublishInv, NEW p \in Publishers, MarkSynced(p)
  PROVE  PublishInv'
<1>1. /\ pub[p].pc = "cataloged" /\ Moves(p, "synced") /\ active' = active
  BY DEF MarkSynced, Rest, World
<1>2. /\ pub' \in [Publishers -> Work] /\ Others(p) /\ pub'[p].pc = "synced"
      /\ pub'[p].video = pub[p].video /\ pub'[p].target = pub[p].target
      /\ pub'[p].version = pub[p].version /\ pub'[p].content = pub[p].content
  BY <1>1, Moved DEF PublishInv, Steps
<1>3. OwnFacts(p)' /\ AloneFacts(p)'
  BY <1>1, <1>2, AtWork DEF OwnFacts, AloneFacts
<1> QED BY <1>1, <1>2, <1>3, MarkKeeps DEF MarkSynced

(* A publisher that ends is idle.                                            *)
LEMMA BecomesIdle ==
  ASSUME TypeOK, NEW p \in Publishers, pub' = [pub EXCEPT ![p] = Idle]
  PROVE  /\ pub' \in [Publishers -> Work] /\ Others(p)
         /\ OwnFacts(p)' /\ AloneFacts(p)'
<1>1. Idle \in Work /\ Idle.pc = "idle"
  BY DEF Idle, Work, Steps, NoIndex, Index
<1>2. pub' \in [Publishers -> Work] /\ Others(p) /\ pub'[p] = Idle
  BY <1>1 DEF TypeOK, Others
<1> QED BY <1>1, <1>2 DEF OwnFacts, AloneFacts

(* A failed synchronisation is marked without touching the catalog.          *)
LEMMA MarkSyncFailedKeeps ==
  ASSUME PublishInv, NEW p \in Publishers, MarkSyncFailed(p)
  PROVE  PublishInv'
BY BecomesIdle, MarkKeeps DEF MarkSyncFailed, PublishInv

(* Success, failure and crash leave what was written.                        *)
LEMMA EndKeeps ==
  ASSUME PublishInv, NEW p \in Publishers, RecordSuccess(p) \/ Fails(p)
  PROVE  PublishInv'
<1>1. /\ pub[p].pc # "idle" /\ pub' = [pub EXCEPT ![p] = Idle]
      /\ UNCHANGED <<active, catalogOn, clock, embeddable, checks, blocked, late, cut, artifacts,
                     publications, timelines, indexes, pointers, catalog, built>>
  BY DEF RecordSuccess, Fails, Rest, World, rows, public
<1>2. TypeOK
  BY DEF PublishInv
<1>3. p \in active /\ Others(p) /\ OwnFacts(p)' /\ AloneFacts(p)'
  BY <1>1, <1>2, AtWork, BecomesIdle
<1>4. TypeOK' /\ Grows
  BY <1>1, <1>2, BecomesIdle DEF TypeOK, Grows
<1>5. PublicFacts' /\ CatalogIsCurrent'
  BY <1>1 DEF PublishInv, PublicFacts, CatalogIsCurrent, Alone, Object, OfProfile, InEnv
<1>6. NewestFacts'
  BY <1>1, NewestKept DEF PublishInv
<1> QED BY <1>1, <1>3, <1>4, <1>5, <1>6, QuietStepOf

(* The index is built from rows that are there.                              *)
LEMMA ReadIndexKeeps ==
  ASSUME PublishInv, NEW p \in Publishers, ReadIndex(p)
  PROVE  PublishInv'
<1> DEFINE t == pub[p].target
           e == t.env
           list == [exists |-> TRUE, lists |-> Latest(e)]
           w == [pub[p] EXCEPT !.pc = "listed", !.version = clock, !.index = list]
<1>1. /\ pub[p].pc = "synced" /\ pub' = [pub EXCEPT ![p] = w] /\ ClearCut(t.profile)
      /\ UNCHANGED <<active, catalogOn, clock, embeddable, checks, blocked, late, artifacts,
                     publications, timelines, indexes, pointers, catalog, built>>
  BY DEF ReadIndex, World, rows, public
<1>2. /\ p \in active /\ t \in Targets /\ pub[p] \in Work /\ pub \in [Publishers -> Work]
      /\ pub[p].video \in Videos /\ pub[p].content \in Executions
  BY <1>1, AtWork
<1>3. TypeOK /\ clock \in Seconds
  BY DEF PublishInv, TypeOK
<1>4. \A a \in Latest(e) : a \in Nat /\ a \in DOMAIN artifacts /\ InEnv(a, e)
  BY <1>3, RowType DEF Latest, Newest
<1>5. list \in Index
  BY <1>2, <1>4 DEF Index
<1>6. /\ w.pc = "listed" /\ w.version = clock /\ w.index = list /\ w.target = t
      /\ w.video = pub[p].video /\ w.content = pub[p].content /\ w \in Work
  BY <1>2, <1>3, <1>5 DEF Work, Steps
<1>7. list.exists /\ list.lists = Latest(e)
  OBVIOUS
<1> HIDE DEF w, list
<1>8. pub' \in [Publishers -> Work] /\ pub'[p] = w /\ Others(p)
  BY <1>1, <1>2, <1>6 DEF Others
<1>9. TypeOK' /\ Grows /\ CutKept
  BY <1>1, <1>3, <1>8 DEF TypeOK, Grows, CutKept, ClearCut, LateTo
<1>10. OwnFacts(p)'
  BY <1>1, <1>2, <1>3, <1>4, <1>6, <1>7, <1>8 DEF OwnFacts, Listed, InEnv
<1>11. Complete(Latest(e), e)
  <2> SUFFICES ASSUME NEW a \in DOMAIN artifacts, InEnv(a, e),
                      artifacts[a].video \notin blocked
               PROVE  \E b \in Latest(e) : b >= a /\ b \in DOMAIN artifacts
                                           /\ artifacts[b].video = artifacts[a].video
    BY DEF Complete, InEnv
  <2>1. artifacts[a].video \in embeddable
    BY <1>3, RowType DEF PublishInv, NewestFacts
  <2>2. PICK b \in Newest(e, artifacts[a].video) : TRUE
    BY DEF PublishInv, NewestFacts, InEnv
  <2>3. b \in DOMAIN artifacts /\ b \in Latest(e) /\ artifacts[b].video = artifacts[a].video
    BY <2>1, <2>2 DEF Latest, Newest
  <2>4. a <= b /\ a \in Nat /\ b \in Nat
    BY <1>3, <2>2, <2>3, RowType DEF Newest
  <2> QED BY <2>3, <2>4
<1>12. AloneFacts(p)'
  BY <1>1, <1>6, <1>7, <1>8, <1>11 DEF AloneFacts, Complete, InEnv
<1>13. PublicFacts' /\ CatalogIsCurrent'
  BY <1>1 DEF PublishInv, PublicFacts, CatalogIsCurrent, Alone, Object, OfProfile, InEnv
<1>14. NewestFacts'
  BY <1>1, NewestKept DEF PublishInv
<1> QED BY <1>1, <1>2, <1>8, <1>9, <1>10, <1>12, <1>13, <1>14, StepOf

(* The saved index names saved objects.                                      *)
LEMMA SaveIndexKeeps ==
  ASSUME PublishInv, NEW p \in Publishers, SaveIndex(p)
  PROVE  PublishInv'
<1> DEFINE t == pub[p].target
           e == t.env
           x == t.profile
           n == pub[p].version
           list == pub[p].index
<1>1. /\ pub[p].pc = "listed" /\ indexes' = [indexes EXCEPT ![x][n] = list]
      /\ Moves(p, "indexed")
      /\ UNCHANGED <<active, catalogOn, clock, embeddable, checks, blocked, late, cut, artifacts,
                     publications, timelines, pointers, catalog, built>>
  BY DEF SaveIndex, PutIndex, Rest, World, rows
<1>2. /\ p \in active /\ t \in Targets /\ x \in Profiles /\ n \in Seconds
      /\ pub[p].video \in Videos /\ pub[p].content \in Executions /\ list \in Index
  BY <1>1, AtWork DEF Work
<1>3. /\ pub' \in [Publishers -> Work] /\ Others(p) /\ pub'[p].pc = "indexed"
      /\ pub'[p].video = pub[p].video /\ pub'[p].target = t /\ pub'[p].version = n
      /\ pub'[p].content = pub[p].content /\ pub'[p].index = list
  BY <1>1, Moved DEF PublishInv, Steps
<1>4. indexes \in [Profiles -> [Seconds -> Index]] /\ TypeOK
  BY DEF PublishInv, TypeOK
<1>5. /\ indexes' \in [Profiles -> [Seconds -> Index]] /\ indexes'[x][n] = list
      /\ \A y \in Profiles, s \in Seconds :
           ~(y = x /\ s = n) => indexes'[y][s] = indexes[y][s]
  BY <1>1, <1>2, <1>4
<1>6. /\ list.exists
      /\ \A a \in list.lists : a \in DOMAIN artifacts /\ InEnv(a, e)
  BY <1>1 DEF PublishInv, OwnFacts, Listed
<1>7. TypeOK'
  BY <1>1, <1>3, <1>4, <1>5 DEF TypeOK
<1>8. \A y \in Profiles, s \in Seconds : indexes[y][s].exists => indexes'[y][s].exists
  BY <1>5, <1>6
<1>9. Grows
  BY <1>1, <1>8 DEF Grows
<1>10. OwnFacts(p)'
  BY <1>1, <1>2, <1>3, <1>5, <1>6 DEF OwnFacts
<1>11. ASSUME Alone PROVE AloneFacts(p)'
  <2>1. AloneFacts(p)
    BY <1>11 DEF PublishInv
  <2>2. Complete(list.lists, e)
    BY <1>1, <2>1 DEF AloneFacts
  <2>3. Complete(list.lists, e)'
    BY <1>1, <1>3, <2>2 DEF Complete, InEnv
  <2>4. indexes'[x][n].lists = list.lists
    BY <1>5
  <2> QED BY <1>3, <2>3, <2>4 DEF AloneFacts
<1>12. PublicFacts'
  <2>1. \A y \in Profiles, s \in Seconds : \A a \in indexes'[y][s].lists :
          a \in DOMAIN artifacts /\ OfProfile(a, y)
    BY <1>2, <1>5, <1>6 DEF PublishInv, PublicFacts, OfProfile
  <2>2. \A f \in Targets : f.profile \in Profiles /\ pointers[f] \in Seconds \cup {NoSecond}
    BY <1>4, TargetParts DEF TypeOK
  <2>3. \A f \in Targets :
          pointers[f] # NoSecond => indexes'[f.profile][pointers[f]].exists
    BY <1>8, <2>2 DEF PublishInv, PublicFacts, OfProfile, InEnv
  <2>4. \A a \in DOMAIN artifacts : Object(a)' # 0
    BY <1>1 DEF PublishInv, PublicFacts, Object, OfProfile, InEnv
  <2>5. \A f \in Environments, v \in Videos : catalog[f][v] # 0 => catalog[f][v] \in DOMAIN artifacts
    BY DEF PublishInv, PublicFacts, OfProfile, InEnv
  <2> QED BY <1>1, <2>1, <2>3, <2>4, <2>5 DEF PublicFacts, OfProfile, InEnv
<1>13. CatalogIsCurrent'
  BY <1>1 DEF PublishInv, CatalogIsCurrent, Alone
<1>14. NewestFacts'
  BY <1>1, NewestKept DEF PublishInv
<1> QED BY <1>1, <1>2, <1>3, <1>7, <1>9, <1>10, <1>11, <1>12, <1>13, <1>14, QuietStepOf

(* The publication's row names the index just saved.                         *)
LEMMA RecordPublicationKeeps ==
  ASSUME PublishInv, NEW p \in Publishers, RecordPublication(p)
  PROVE  PublishInv'
<1>1. /\ pub[p].pc = "indexed" /\ Moves(p, "recorded")
      /\ publications' = Append(publications, [env |-> pub[p].target.env, version |-> pub[p].version])
      /\ UNCHANGED <<active, catalogOn, clock, embeddable, checks, blocked, late, cut, artifacts,
                     timelines, indexes, pointers, catalog, built>>
  BY DEF RecordPublication, Rest, World, public
<1>2. /\ p \in active /\ pub[p].target \in Targets /\ pub[p].version \in Seconds
      /\ pub[p].video \in Videos /\ pub[p].content \in Executions
  BY <1>1, AtWork
<1>3. /\ pub' \in [Publishers -> Work] /\ Others(p) /\ pub'[p].pc = "recorded"
      /\ pub'[p].video = pub[p].video /\ pub'[p].target = pub[p].target
      /\ pub'[p].version = pub[p].version /\ pub'[p].content = pub[p].content
      /\ pub'[p].index = pub[p].index
  BY <1>1, Moved DEF PublishInv, Steps
<1>4. publications \in Seq(Publication) /\ TypeOK
  BY DEF PublishInv, TypeOK
<1>5. publications' \in Seq(Publication)
  BY <1>1, <1>2, <1>4, TargetParts DEF Publication
<1>6. TypeOK' /\ Grows
  BY <1>1, <1>3, <1>4, <1>5 DEF TypeOK, Grows
<1>7. OwnFacts(p)'
  BY <1>1, <1>2, <1>3 DEF PublishInv, OwnFacts
<1>8. ASSUME Alone PROVE AloneFacts(p)'
  BY <1>1, <1>3, <1>8 DEF PublishInv, AloneFacts, Complete, InEnv
<1>9. PublicFacts' /\ CatalogIsCurrent'
  BY <1>1 DEF PublishInv, PublicFacts, CatalogIsCurrent, Alone, Object, OfProfile, InEnv
<1>10. NewestFacts'
  BY <1>1, NewestKept DEF PublishInv
<1> QED BY <1>1, <1>2, <1>3, <1>6, <1>7, <1>8, <1>9, <1>10, QuietStepOf

(* The pointer names an index that is saved.                                 *)
LEMMA SavePointerKeeps ==
  ASSUME PublishInv, NEW p \in Publishers, SavePointer(p)
  PROVE  PublishInv'
<1> DEFINE t == pub[p].target
           n == pub[p].version
<1>1. /\ pub[p].pc = "recorded" /\ pointers' = [pointers EXCEPT ![t] = n]
      /\ Moves(p, "published")
      /\ UNCHANGED <<active, catalogOn, clock, embeddable, checks, blocked, late, cut, artifacts,
                     publications, timelines, indexes, catalog, built>>
  BY DEF SavePointer, PutPointer, Rest, World, rows
<1>2. /\ p \in active /\ t \in Targets /\ n \in Seconds
      /\ pub[p].video \in Videos /\ pub[p].content \in Executions
  BY <1>1, AtWork
<1>3. /\ pub' \in [Publishers -> Work] /\ Others(p) /\ pub'[p].pc = "published"
      /\ pub'[p].video = pub[p].video /\ pub'[p].target = t /\ pub'[p].version = n
      /\ pub'[p].content = pub[p].content /\ pub'[p].index = pub[p].index
  BY <1>1, Moved DEF PublishInv, Steps
<1>4. pointers \in [Targets -> Seconds \cup {NoSecond}] /\ TypeOK
  BY DEF PublishInv, TypeOK
<1>5. /\ pointers' \in [Targets -> Seconds \cup {NoSecond}] /\ pointers'[t] = n
      /\ \A f \in Targets \ {t} : pointers'[f] = pointers[f]
  BY <1>1, <1>2, <1>4
<1>6. indexes[t.profile][n].exists
  BY <1>1 DEF PublishInv, OwnFacts
<1>7. TypeOK' /\ Grows
  BY <1>1, <1>3, <1>4, <1>5 DEF TypeOK, Grows
<1>8. OwnFacts(p)'
  BY <1>1, <1>2, <1>3 DEF OwnFacts
<1>9. ASSUME Alone PROVE AloneFacts(p)'
  BY <1>1, <1>3, <1>5, <1>9 DEF PublishInv, AloneFacts, Complete, InEnv
<1>10. PublicFacts'
  BY <1>1, <1>5, <1>6 DEF PublishInv, PublicFacts, Object, OfProfile, InEnv
<1>11. CatalogIsCurrent'
  BY <1>1 DEF PublishInv, CatalogIsCurrent, Alone
<1>12. NewestFacts'
  BY <1>1, NewestKept DEF PublishInv
<1> QED BY <1>1, <1>2, <1>3, <1>7, <1>8, <1>9, <1>10, <1>11, <1>12, QuietStepOf

(* A put cut off by a timeout goes on as what it was.                        *)
LEMMA TimesOutKeeps ==
  ASSUME PublishInv, NEW p \in Publishers, TimesOut(p)
  PROVE  PublishInv'
<1>1. /\ pub[p].pc \in {"built", "listed", "recorded"} /\ late' = late \cup {pub[p]}
      /\ cut' = IF pub[p].pc = "built" THEN cut ELSE cut \cup {pub[p].target.profile}
      /\ pub' = [pub EXCEPT ![p] = Idle]
      /\ UNCHANGED <<active, catalogOn, clock, embeddable, checks, blocked, artifacts,
                     publications, timelines, indexes, pointers, catalog, built>>
  BY DEF TimesOut, World, rows, public
<1>2. /\ TypeOK /\ p \in active /\ pub[p] \in Work /\ pub[p].video \in Videos
      /\ pub[p].target \in Targets /\ pub[p].target.profile \in Profiles
      /\ pub[p].version \in Seconds /\ pub[p].content \in Executions
  BY <1>1, AtWork DEF PublishInv
<1>3. Others(p) /\ OwnFacts(p)' /\ AloneFacts(p)' /\ pub' \in [Publishers -> Work]
  BY <1>1, <1>2, BecomesIdle
<1>4. cut \subseteq cut' /\ cut' \in SUBSET Profiles
  BY <1>1, <1>2 DEF TypeOK
<1>5. TypeOK' /\ Grows /\ CutKept
  BY <1>1, <1>2, <1>3, <1>4 DEF TypeOK, Grows, CutKept
<1>6. \A w \in late' \ late : LateFacts(w)'
  <2>1. PICK w \in Work : w = pub[p]
    BY <1>2
  <2>2. OwnFacts(p) /\ w.pc \in {"built", "listed", "recorded"}
    BY <1>1, <2>1 DEF PublishInv
  <2>3. w.pc \in {"listed", "recorded"} => w.target.profile \in cut'
    BY <1>1, <2>1
  <2>4. (w.pc = "listed" => Listed(w)) /\ UNCHANGED <<artifacts, indexes>>
    BY <1>1, <2>1, <2>2 DEF OwnFacts
  <2>5. w.pc = "listed" => Listed(w)'
    BY <2>4 DEF Listed, InEnv
  <2>6. w.pc = "recorded" => indexes'[w.target.profile][w.version].exists
    BY <1>1, <2>1, <2>2 DEF OwnFacts
  <2>7. LateFacts(w)'
    BY <1>2, <2>1, <2>3, <2>5, <2>6 DEF LateFacts
  <2> QED BY <1>1, <2>1, <2>7
<1>7. PublicFacts'
  BY <1>1 DEF PublishInv, PublicFacts, Object, OfProfile, InEnv
<1>8. NewestFacts' /\ CatalogIsCurrent'
  BY <1>1, RowsKept
<1> QED BY <1>1, <1>2, <1>3, <1>5, <1>6, <1>7, <1>8, StepOf

(* The state around a put that lands or is lost.                             *)
LEMMA LateStep ==
  ASSUME PublishInv, NEW w \in late, late' = late \ {w}, World,
         UNCHANGED <<rows, catalog, pub, built, cut>>, Grows, PublicFacts',
         timelines' \in [Profiles -> [Videos -> [Seconds -> Executions \cup {0}]]],
         indexes' \in [Profiles -> [Seconds -> Index]],
         pointers' \in [Targets -> Seconds \cup {NoSecond}],
         \A x \in Profiles \ cut, s \in Seconds : indexes'[x][s] = indexes[x][s],
         \A t \in Targets : t.profile \notin cut => pointers'[t] = pointers[t]
  PROVE  PublishInv'
<1>1. /\ UNCHANGED <<active, catalogOn, clock, embeddable, checks, blocked, cut, artifacts,
                     publications, catalog, pub, built>>
  BY DEF World, rows
<1>2. TypeOK'
  BY <1>1 DEF PublishInv, TypeOK
<1>3. NewestFacts' /\ CatalogIsCurrent'
  BY <1>1, RowsKept
<1>4. \A p \in Publishers : OwnFacts(p)'
  BY <1>1, Remembered
<1>5. \A u \in late' : LateFacts(u)'
  BY <1>1, StillLate DEF CutKept
<1>6. ASSUME Alone, NEW p \in Publishers
      PROVE  AloneFacts(p)'
  <2>1. AloneFacts(p)
    BY <1>6 DEF PublishInv
  <2>2. CASE pub[p].pc = "idle"
    BY <1>1, <2>2 DEF AloneFacts
  <2>3. CASE pub[p].pc # "idle"
    <3>1. /\ pub[p].target \in Targets /\ pub[p].target.profile \in Profiles
          /\ pub[p].version \in Seconds
      BY <2>3, AtWork
    <3>2. Complete(pub[p].index.lists, pub[p].target.env)
            => Complete(pub[p].index.lists, pub[p].target.env)'
      BY <1>1 DEF Complete, InEnv
    <3>3. pub[p].target.profile \notin cut =>
            /\ pub[p].pc \in {"indexed", "recorded", "published"} =>
                 indexes'[pub[p].target.profile][pub[p].version].lists = pub[p].index.lists
            /\ pub[p].pc = "published" => pointers'[pub[p].target] = pub[p].version
      BY <2>1, <3>1 DEF AloneFacts
    <3> QED BY <1>1, <2>1, <3>2, <3>3 DEF AloneFacts, Complete, InEnv
  <2> QED BY <2>2, <2>3
<1> QED BY <1>1, <1>2, <1>3, <1>4, <1>5, <1>6, PublicFacts' DEF PublishInv, Alone

(* A timeline that lands late is an object more, or another's content.       *)
LEMMA TimelineLands ==
  ASSUME PublishInv, NEW w \in late, w.pc = "built", PutTimeline(w),
         late' = late \ {w}, World, UNCHANGED <<rows, catalog, pub, built, cut>>
  PROVE  PublishInv'
<1>1. /\ w.target.profile \in Profiles /\ w.video \in Videos /\ w.version \in Seconds
      /\ w.content \in Executions /\ w.content # 0
  BY TargetParts DEF PublishInv, LateFacts, Executions
<1>2. TypeOK /\ UNCHANGED <<indexes, pointers, artifacts, catalog>>
  BY DEF PublishInv, PutTimeline, rows
<1>3. /\ timelines' \in [Profiles -> [Videos -> [Seconds -> Executions \cup {0}]]]
      /\ \A y \in Profiles, v \in Videos, s \in Seconds :
           timelines'[y][v][s] \in {timelines[y][v][s], w.content}
  BY <1>1, <1>2, ObjectPut DEF PutTimeline, TypeOK
<1>4. Grows
  BY <1>1, <1>2, <1>3 DEF Grows
<1>5. PublicFacts'
  <2>1. \A a \in DOMAIN artifacts' : Object(a)' # 0
    BY <1>2, <1>4, ObjectKept
  <2> QED BY <1>2, <2>1 DEF PublishInv, PublicFacts, OfProfile, InEnv
<1> QED BY <1>2, <1>3, <1>4, <1>5, LateStep DEF TypeOK

(* An index that lands late lists rows that are there.                       *)
LEMMA IndexLands ==
  ASSUME PublishInv, NEW w \in late, w.pc = "listed", PutIndex(w),
         late' = late \ {w}, World, UNCHANGED <<rows, catalog, pub, built, cut>>
  PROVE  PublishInv'
<1> DEFINE x == w.target.profile
<1>1. /\ TypeOK /\ w \in Work /\ x \in Profiles /\ w.target \in Targets /\ w.version \in Seconds
      /\ w.index \in Index /\ Listed(w) /\ x \in cut
  BY TargetParts DEF PublishInv, LateFacts, TypeOK, Work
<1>2. /\ indexes' = [indexes EXCEPT ![x][w.version] = w.index]
      /\ UNCHANGED <<timelines, pointers, artifacts, catalog>>
  BY DEF PutIndex, rows
<1>3. /\ indexes' \in [Profiles -> [Seconds -> Index]] /\ indexes'[x][w.version] = w.index
      /\ \A y \in Profiles, s \in Seconds :
           ~(y = x /\ s = w.version) => indexes'[y][s] = indexes[y][s]
  BY <1>1, <1>2 DEF TypeOK
<1>4. Grows
  BY <1>1, <1>2, <1>3 DEF Grows, Listed
<1>5. PublicFacts'
  <2>1. \A a \in w.index.lists : a \in DOMAIN artifacts /\ OfProfile(a, x)
    BY <1>1 DEF Listed, OfProfile
  <2>2. \A y \in Profiles, s \in Seconds : \A a \in indexes'[y][s].lists :
          a \in DOMAIN artifacts /\ OfProfile(a, y)
    BY <1>3, <2>1 DEF PublishInv, PublicFacts
  <2>3. \A t \in Targets : t.profile \in Profiles /\ pointers[t] \in Seconds \cup {NoSecond}
    BY <1>1, TargetParts DEF TypeOK
  <2>4. \A t \in Targets : pointers[t] # NoSecond => indexes'[t.profile][pointers[t]].exists
    BY <1>4, <2>3 DEF PublishInv, PublicFacts, Grows
  <2> QED BY <1>2, <2>2, <2>4 DEF PublishInv, PublicFacts, Object, OfProfile, InEnv
<1>6. \A y \in Profiles \ cut, s \in Seconds : indexes'[y][s] = indexes[y][s]
  BY <1>1, <1>3
<1>7. /\ timelines' \in [Profiles -> [Videos -> [Seconds -> Executions \cup {0}]]]
      /\ pointers' \in [Targets -> Seconds \cup {NoSecond}]
      /\ \A t \in Targets : t.profile \notin cut => pointers'[t] = pointers[t]
  BY <1>1, <1>2 DEF TypeOK
<1> QED BY <1>3, <1>4, <1>5, <1>6, <1>7, LateStep

(* A pointer that lands late names an index that is there.                   *)
LEMMA PointerLands ==
  ASSUME PublishInv, NEW w \in late, w.pc = "recorded", PutPointer(w),
         late' = late \ {w}, World, UNCHANGED <<rows, catalog, pub, built, cut>>
  PROVE  PublishInv'
<1>1. /\ TypeOK /\ w.target \in Targets /\ w.version \in Seconds /\ w.target.profile \in cut
      /\ indexes[w.target.profile][w.version].exists
  BY DEF PublishInv, LateFacts
<1>2. /\ pointers' = [pointers EXCEPT ![w.target] = w.version]
      /\ UNCHANGED <<timelines, indexes, artifacts, catalog>>
  BY DEF PutPointer, rows
<1>3. /\ pointers' \in [Targets -> Seconds \cup {NoSecond}] /\ pointers'[w.target] = w.version
      /\ \A t \in Targets \ {w.target} : pointers'[t] = pointers[t]
  BY <1>1, <1>2 DEF TypeOK
<1>4. Grows
  BY <1>2 DEF Grows
<1>5. PublicFacts'
  BY <1>1, <1>2, <1>3 DEF PublishInv, PublicFacts, Object, OfProfile, InEnv
<1> QED BY <1>1, <1>2, <1>3, <1>4, <1>5, LateStep DEF TypeOK

(* A put that fails in the end changes nothing.                              *)
LEMMA IsLostKeeps ==
  ASSUME PublishInv, NEW w \in late, IsLost(w)
  PROVE  PublishInv'
<1>1. /\ late' = late \ {w} /\ World /\ UNCHANGED <<rows, catalog, pub, built, cut>>
      /\ UNCHANGED <<artifacts, timelines, indexes, pointers, catalog>>
  BY DEF IsLost, rows, public
<1>2. Grows
  BY <1>1 DEF Grows
<1>3. PublicFacts' /\ TypeOK
  BY <1>1 DEF PublishInv, PublicFacts, Object, OfProfile, InEnv
<1> QED BY <1>1, <1>2, <1>3, LateStep DEF TypeOK

(* Time and the embed status of videos.                                      *)
LEMMA WorldKeeps ==
  ASSUME PublishInv, Tick \/ \E v \in Videos : EmbedStatusChanges(v)
  PROVE  PublishInv'
<1>1. UNCHANGED <<active, catalogOn, artifacts, publications, timelines, indexes, pointers,
                  catalog, pub, late, cut, built>>
  BY DEF Tick, EmbedStatusChanges, rows, public, history
<1>2. /\ clock' \in Seconds /\ embeddable' \in SUBSET Videos /\ checks' \in 0 .. MaxChecks
      /\ blocked \subseteq blocked' /\ blocked' \in SUBSET Videos
      /\ Videos \ embeddable' \subseteq blocked'
  <2>1. CASE Tick
    BY <2>1, PublishBounds DEF PublishInv, TypeOK, NewestFacts, Tick, Seconds, history
  <2>2. CASE \E v \in Videos : EmbedStatusChanges(v)
    BY <2>2, PublishBounds DEF PublishInv, TypeOK, NewestFacts, EmbedStatusChanges
  <2> QED BY <2>1, <2>2
<1>3. TypeOK'
  BY <1>1, <1>2 DEF PublishInv, TypeOK
<1>4. PublicFacts' /\ CatalogIsCurrent'
  BY <1>1 DEF PublishInv, PublicFacts, CatalogIsCurrent, Alone, Object, OfProfile, InEnv
<1>5. NewestFacts'
  BY <1>1, <1>2 DEF PublishInv, NewestFacts, Newest, InEnv
<1>6. \A p \in Publishers : OwnFacts(p)'
  BY <1>1 DEF PublishInv, OwnFacts, Listed, InEnv
<1>7. ASSUME Alone, NEW p \in Publishers PROVE AloneFacts(p)'
  BY <1>1, <1>2, <1>7 DEF PublishInv, AloneFacts, Complete, InEnv
<1>8. \A w \in late' : LateFacts(w)'
  BY <1>1 DEF PublishInv, LateFacts, Listed, InEnv
<1> QED BY <1>1, <1>3, <1>4, <1>5, <1>6, <1>7, <1>8 DEF PublishInv, Alone

----------------------------------------------------------------------------
(* The invariant *)

(* The invariant holds of an empty archive.                                  *)
LEMMA InitEstablishes ==
  ASSUME Init
  PROVE  PublishInv
<1>1. Idle \in Work /\ Idle.pc = "idle" /\ NoIndex \in Index /\ NoIndex.lists = {}
  BY DEF Idle, Work, Steps, NoIndex, Index
<1>2. 0 \in Seconds /\ 0 \in 0 .. MaxExecutions /\ 0 \in 0 .. MaxChecks
  BY PublishBounds DEF Seconds
<1>3. TypeOK
  <2>1. artifacts \in Seq(Artifact) /\ publications \in Seq(Publication)
    BY DEF Init
  <2>2. timelines \in [Profiles -> [Videos -> [Seconds -> Executions \cup {0}]]]
    BY DEF Init
  <2>3. indexes \in [Profiles -> [Seconds -> Index]]
    BY <1>1 DEF Init
  <2>4. /\ pointers \in [Targets -> Seconds \cup {NoSecond}]
        /\ catalog \in [Environments -> [Videos -> Nat]]
        /\ pub \in [Publishers -> Work]
    BY <1>1 DEF Init
  <2>5. /\ active \in SUBSET Publishers /\ catalogOn \in BOOLEAN /\ clock \in Seconds
        /\ embeddable \in SUBSET Videos /\ built \in 0 .. MaxExecutions
        /\ checks \in 0 .. MaxChecks /\ blocked \in SUBSET Videos
        /\ late = {} /\ cut = {}
    BY <1>2 DEF Init
  <2> QED BY <2>1, <2>2, <2>3, <2>4, <2>5 DEF TypeOK
<1>4. DOMAIN artifacts = {}
  BY DEF Init
<1>5. PublicFacts
  <2>1. \A x \in Profiles, s \in Seconds : indexes[x][s].lists = {}
    BY <1>1 DEF Init
  <2>2. \A t \in Targets : pointers[t] = NoSecond
    BY DEF Init
  <2>3. \A e \in Environments, v \in Videos : catalog[e][v] = 0
    BY DEF Init
  <2> QED BY <1>4, <2>1, <2>2, <2>3 DEF PublicFacts
<1>6. NewestFacts /\ CatalogIsCurrent
  BY <1>4 DEF NewestFacts, CatalogIsCurrent, Init
<1>7. \A p \in Publishers : OwnFacts(p) /\ AloneFacts(p)
  BY <1>1 DEF Init, OwnFacts, AloneFacts
<1>8. late = {}
  BY DEF Init
<1> QED BY <1>3, <1>5, <1>6, <1>7, <1>8 DEF PublishInv

(* Every step preserves the invariant.                                       *)
LEMMA NextKeeps ==
  ASSUME PublishInv, [Next]_vars
  PROVE  PublishInv'
<1>1. CASE Tick \/ \E v \in Videos : EmbedStatusChanges(v)
  BY <1>1, WorldKeeps
<1>2. ASSUME NEW p \in Publishers, Executes(p)
      PROVE  PublishInv'
  BY <1>2, BuildKeeps, SaveTimelineKeeps, InsertArtifactKeeps, UpsertCatalogKeeps,
     MarkSyncedKeeps, MarkSyncFailedKeeps, ReadIndexKeeps, SaveIndexKeeps,
     RecordPublicationKeeps, SavePointerKeeps, EndKeeps, TimesOutKeeps
  DEF Executes
<1>3. ASSUME NEW w \in late, Lands(w) \/ IsLost(w)
      PROVE  PublishInv'
  BY <1>3, TimelineLands, IndexLands, PointerLands, IsLostKeeps DEF Lands
<1>4. CASE UNCHANGED vars
  <2>0. /\ UNCHANGED <<active, catalogOn, clock, embeddable, artifacts, publications, timelines,
                       indexes, pointers, catalog, pub, late, built, checks, blocked, cut>>
    BY <1>4 DEF vars, rows, public, history
  <2>1. TypeOK'
    BY <2>0 DEF PublishInv, TypeOK
  <2>2. PublicFacts'
    BY <2>0 DEF PublishInv, PublicFacts, Object, OfProfile, InEnv
  <2>3. NewestFacts' /\ CatalogIsCurrent'
    BY <2>0, RowsKept
  <2>4. \A p \in Publishers : OwnFacts(p)'
    BY <2>0 DEF PublishInv, OwnFacts, Listed, InEnv
  <2>5. \A w \in late' : LateFacts(w)'
    BY <2>0 DEF PublishInv, LateFacts, Listed, InEnv
  <2>6. Alone' => \A p \in Publishers : AloneFacts(p)'
    BY <2>0 DEF PublishInv, AloneFacts, Complete, Alone, InEnv
  <2> QED BY <2>1, <2>2, <2>3, <2>4, <2>5, <2>6 DEF PublishInv
<1> QED BY <1>1, <1>2, <1>3, <1>4 DEF Next

----------------------------------------------------------------------------
(* Theorems *)

(* The inductive invariant of the publication.                               *)
THEOREM PublishInvariant == Spec => []PublishInv
<1>1. Init => PublishInv
  BY InitEstablishes
<1>2. PublishInv /\ [Next]_vars => PublishInv'
  BY NextKeeps
<1> QED BY <1>1, <1>2, PTL DEF Spec

(* Rows, objects and what publishers remember have their types, whatever the *)
(* number of publishers, videos and environments.                            *)
THEOREM PublishTypes == Spec => []TypeOK
<1>1. PublishInv => TypeOK
  BY DEF PublishInv
<1> QED BY <1>1, PublishInvariant, PTL

(* However many publishers interleave, fail or share a second, whatever the  *)
(* pointer or the catalog leads to can be fetched.                           *)
THEOREM ReadersAlwaysResolve == Spec => []ReadersResolve
<1>1. ASSUME PublishInv
      PROVE  ReadersResolve
  <2>1. ASSUME NEW t \in Targets, NEW a \in Shown(t)
        PROVE  a \in DOMAIN artifacts /\ Object(a) # 0
    <3>1. pointers[t] \in Seconds /\ t.profile \in Profiles
      BY <1>1, <2>1, TargetParts DEF PublishInv, TypeOK, Shown
    <3>2. a \in indexes[t.profile][pointers[t]].lists
      BY <2>1 DEF Shown
    <3> QED BY <1>1, <3>1, <3>2 DEF PublishInv, PublicFacts
  <2> QED BY <1>1, <2>1 DEF PublishInv, PublicFacts, ReadersResolve
<1> QED BY <1>1, PublishInvariant, PTL

(* What a publisher that runs alone shows at its end has the newest row of   *)
(* every video that was always embeddable, whatever failed before.           *)
THEOREM SuccessAlwaysShowsAll == Spec => []SuccessShowsAll
<1>1. ASSUME PublishInv
      PROVE  SuccessShowsAll
  <2> SUFFICES ASSUME Alone, NEW p \in active, pub[p].pc = "published",
                      pub[p].target.profile \notin cut,
                      NEW a \in DOMAIN artifacts, InEnv(a, pub[p].target.env),
                      artifacts[a].video \notin blocked
               PROVE  \E b \in Shown(pub[p].target) :
                        b >= a /\ artifacts[b].video = artifacts[a].video
    BY DEF SuccessShowsAll
  <2>1. p \in Publishers
    BY <1>1 DEF PublishInv, TypeOK
  <2>2. AloneFacts(p) /\ pub[p].version \in Seconds
    BY <1>1, <2>1, AtWork DEF PublishInv
  <2>3. pub[p].version # NoSecond
    BY <2>2, PublishBounds DEF Seconds, NoSecond
  <2>4. Shown(pub[p].target) = pub[p].index.lists
    BY <2>2, <2>3 DEF AloneFacts, Shown
  <2> QED BY <2>2, <2>4 DEF AloneFacts, Complete
<1> QED BY <1>1, PublishInvariant, PTL

(* With one publisher the public catalog never falls behind a row that is    *)
(* marked as synchronised.                                                   *)
THEOREM CatalogAlwaysCurrent == Spec => []CatalogIsCurrent
<1>1. PublishInv => CatalogIsCurrent
  BY DEF PublishInv
<1> QED BY <1>1, PublishInvariant, PTL

(* With one publisher, no step shows an older artifact than before, or loses *)
(* a video, where a profile holds one environment and as long as no put of   *)
(* an index or pointer was cut off by a timeout; every action is covered,    *)
(* the late landing of such a put included.                                  *)
THEOREM ShownAlwaysMovesForward == Spec => ShownMovesForward
<1> DEFINE Forward == Alone => \A t \in Targets, v \in Videos \ blocked' :
             Own(t) /\ t.profile \notin cut =>
               \A a \in ShownOf(t, v) : \E b \in (ShownOf(t, v))' : b >= a
<1>1. ASSUME PublishInv, [Next]_vars
      PROVE  Forward
  <2> SUFFICES ASSUME Alone, NEW t \in Targets, NEW v \in Videos \ blocked',
                      Own(t), t.profile \notin cut, NEW a \in ShownOf(t, v)
               PROVE  \E b \in (ShownOf(t, v))' : b >= a
    OBVIOUS
  <2>1. /\ pointers[t] \in Seconds /\ t.profile \in Profiles
        /\ a \in indexes[t.profile][pointers[t]].lists
        /\ artifacts[a].video = v
    BY <1>1, TargetParts DEF PublishInv, TypeOK, ShownOf, Shown
  <2>2. /\ a \in DOMAIN artifacts /\ a \in Nat /\ OfProfile(a, t.profile)
    BY <1>1, <2>1, RowType DEF PublishInv, PublicFacts
  <2>3. InEnv(a, t.env)
    BY <2>2 DEF OfProfile, Own
  <2>4. a >= a
    BY <2>2
  <2>5. ASSUME pointers'[t] = pointers[t],
               indexes'[t.profile][pointers[t]] = indexes[t.profile][pointers[t]],
               a \in DOMAIN artifacts', artifacts'[a].video = artifacts[a].video
        PROVE  \E b \in (ShownOf(t, v))' : b >= a
    <3>1. a \in (ShownOf(t, v))'
      BY <2>1, <2>5 DEF ShownOf, Shown
    <3> QED BY <2>4, <3>1
  <2>6. ASSUME NEW p \in Publishers, pub[p].target = t,
               pub[p].pc \in {"listed", "recorded"}, UNCHANGED <<artifacts, blocked>>,
               pointers'[t] \in Seconds,
               indexes'[t.profile][pointers'[t]].lists = pub[p].index.lists
        PROVE  \E b \in (ShownOf(t, v))' : b >= a
    <3>1. Complete(pub[p].index.lists, t.env)
      BY <1>1, <2>6 DEF PublishInv, AloneFacts
    <3>2. PICK b \in pub[p].index.lists : b >= a /\ artifacts[b].video = v
      BY <2>1, <2>2, <2>3, <2>6, <3>1 DEF Complete
    <3>3. pointers'[t] # NoSecond
      BY <2>6, PublishBounds DEF Seconds, NoSecond
    <3>4. b \in (ShownOf(t, v))'
      BY <2>6, <3>2, <3>3 DEF ShownOf, Shown
    <3> QED BY <3>2, <3>4
  <2>7. ASSUME NEW p \in Publishers, SaveIndex(p)
        PROVE  \E b \in (ShownOf(t, v))' : b >= a
    <3>1. /\ pub[p].pc = "listed" /\ UNCHANGED <<artifacts, blocked, pointers>>
          /\ indexes' = [indexes EXCEPT ![pub[p].target.profile][pub[p].version] = pub[p].index]
      BY <2>7 DEF SaveIndex, PutIndex, Rest, World, rows
    <3>2. /\ pub[p].target \in Targets /\ pub[p].version \in Seconds
          /\ pub[p].target.profile \in Profiles
      BY <1>1, <3>1, AtWork
    <3>3. indexes \in [Profiles -> [Seconds -> Index]]
      BY <1>1 DEF PublishInv, TypeOK
    <3>4. CASE pub[p].target.profile = t.profile /\ pub[p].version = pointers[t]
      <4>1. pub[p].target = t
        BY <3>2, <3>4 DEF Own
      <4>2. indexes'[t.profile][pointers'[t]].lists = pub[p].index.lists
        BY <2>1, <3>1, <3>3, <3>4
      <4> QED BY <2>1, <2>6, <3>1, <4>1, <4>2
    <3>5. CASE ~(pub[p].target.profile = t.profile /\ pub[p].version = pointers[t])
      <4>1. indexes'[t.profile][pointers[t]] = indexes[t.profile][pointers[t]]
        BY <2>1, <3>1, <3>2, <3>3, <3>5
      <4> QED BY <2>2, <2>5, <3>1, <4>1
    <3> QED BY <3>4, <3>5
  <2>8. ASSUME NEW p \in Publishers, SavePointer(p)
        PROVE  \E b \in (ShownOf(t, v))' : b >= a
    <3>1. /\ pub[p].pc = "recorded" /\ UNCHANGED <<artifacts, blocked, indexes>>
          /\ pointers' = [pointers EXCEPT ![pub[p].target] = pub[p].version]
      BY <2>8 DEF SavePointer, PutPointer, Rest, World, rows
    <3>2. pub[p].version \in Seconds
      BY <1>1, <3>1, AtWork
    <3>3. pointers \in [Targets -> Seconds \cup {NoSecond}]
      BY <1>1 DEF PublishInv, TypeOK
    <3>4. CASE pub[p].target = t
      <4>1. pointers'[t] = pub[p].version
        BY <3>1, <3>3, <3>4
      <4>2. indexes[t.profile][pub[p].version].lists = pub[p].index.lists
        BY <1>1, <3>1, <3>4 DEF PublishInv, AloneFacts
      <4> QED BY <2>6, <3>1, <3>2, <3>4, <4>1, <4>2
    <3>5. CASE pub[p].target # t
      <4>1. pointers'[t] = pointers[t]
        BY <3>1, <3>3, <3>5
      <4> QED BY <2>2, <2>5, <3>1, <4>1
    <3> QED BY <3>4, <3>5
  <2>9. ASSUME NEW w \in late, Lands(w)
        PROVE  \E b \in (ShownOf(t, v))' : b >= a
    <3>1. /\ w.target \in Targets /\ w.target.profile \in Profiles /\ w.version \in Seconds
          /\ w.pc \in {"listed", "recorded"} => w.target # t /\ w.target.profile # t.profile
      BY <1>1, TargetParts DEF PublishInv, LateFacts
    <3>2. UNCHANGED artifacts
      BY <2>9 DEF Lands, rows
    <3>3. /\ indexes \in [Profiles -> [Seconds -> Index]]
          /\ pointers \in [Targets -> Seconds \cup {NoSecond}]
      BY <1>1 DEF PublishInv, TypeOK
    <3>4. CASE w.pc = "built" /\ PutTimeline(w)
      BY <2>2, <2>5, <3>2, <3>4 DEF PutTimeline
    <3>5. CASE w.pc = "listed" /\ PutIndex(w)
      <4>1. indexes'[t.profile][pointers[t]] = indexes[t.profile][pointers[t]]
        BY <2>1, <3>1, <3>3, <3>5 DEF PutIndex
      <4> QED BY <2>2, <2>5, <3>2, <3>5, <4>1 DEF PutIndex
    <3>6. CASE w.pc = "recorded" /\ PutPointer(w)
      <4>1. pointers'[t] = pointers[t]
        BY <3>1, <3>3, <3>6 DEF PutPointer
      <4> QED BY <2>2, <2>5, <3>2, <3>6, <4>1 DEF PutPointer
    <3> QED BY <2>9, <3>4, <3>5, <3>6 DEF Lands
  <2>10. ASSUME NEW p \in Publishers,
                \/ InsertArtifact(p) \/ MarkSynced(p) \/ MarkSyncFailed(p)
         PROVE  \E b \in (ShownOf(t, v))' : b >= a
    <3>1. UNCHANGED <<indexes, pointers>>
      BY <2>10 DEF InsertArtifact, MarkSynced, MarkSyncFailed, public
    <3>2. artifacts \in Seq(Artifact) /\ a \in 1 .. Len(artifacts) /\ artifacts[a] \in Artifact
      BY <1>1, <2>2, RowType DEF PublishInv, TypeOK
    <3>3. CASE InsertArtifact(p)
      <4>1. artifacts' = Append(artifacts, NewRow(pub[p]))
        BY <3>3 DEF InsertArtifact
      <4>2. a \in DOMAIN artifacts' /\ artifacts'[a] = artifacts[a]
        BY <3>2, <4>1
      <4> QED BY <2>5, <3>1, <4>2
    <3>4. CASE MarkSynced(p) \/ MarkSyncFailed(p)
      <4>1. PICK status \in {"synced", "failed"} :
              artifacts' = [artifacts EXCEPT ![pub[p].artifact].sync = status]
        BY <3>4 DEF MarkSynced, MarkSyncFailed
      <4>2. a \in DOMAIN artifacts' /\ artifacts'[a].video = artifacts[a].video
        BY <3>2, <4>1 DEF Artifact
      <4> QED BY <2>5, <3>1, <4>2
    <3> QED BY <2>10, <3>3, <3>4
  <2>11. ASSUME NEW p \in Publishers,
                \/ \E u \in Videos, f \in Targets : Build(p, u, f)
                \/ SaveTimeline(p) \/ UpsertCatalog(p) \/ ReadIndex(p)
                \/ RecordPublication(p) \/ RecordSuccess(p) \/ Fails(p) \/ TimesOut(p)
         PROVE  \E b \in (ShownOf(t, v))' : b >= a
    <3>1. UNCHANGED <<artifacts, indexes, pointers>>
      BY <2>11 DEF Build, SaveTimeline, PutTimeline, UpsertCatalog, ReadIndex,
         RecordPublication, RecordSuccess, Fails, TimesOut, rows, public
    <3> QED BY <2>2, <2>5, <3>1
  <2>12. CASE \/ Tick \/ \E u \in Videos : EmbedStatusChanges(u)
              \/ \E w \in late : IsLost(w)
              \/ UNCHANGED vars
    <3>1. UNCHANGED <<artifacts, indexes, pointers>>
      BY <2>12 DEF Tick, EmbedStatusChanges, IsLost, vars, rows, public
    <3> QED BY <2>2, <2>5, <3>1
  <2> QED BY <1>1, <2>7, <2>8, <2>9, <2>10, <2>11, <2>12 DEF Next, Executes
<1>2. PublishInv /\ [Next]_vars => [Forward]_vars
  BY <1>1
<1> QED BY <1>2, PublishInvariant, PTL DEF Spec, ShownMovesForward
=============================================================================
