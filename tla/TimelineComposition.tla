-------------------------- MODULE TimelineComposition --------------------------
(* Attempts to compose the timeline of a video, and the patches applied to what  *)
(* they stored.  An attempt deletes what is stored; the model drafts a timeline; *)
(* the draft is normalised, broad episodes are split by the model, defects of    *)
(* the coverage are repaired by the model and then without it, the blocks are    *)
(* arranged by meaning, coverage and arrangement are gone through once more, and *)
(* the result is validated and stored.  The calls for repairs may return         *)
(* anything, raise or time out.                                                  *)
EXTENDS ArchiveContents

CONSTANTS Drafts,             \* the drafts the model may answer
          Redrafts,           \* the drafts it may answer when it is asked again
          Looks,              \* what the parts of a repair may look like
          MaxEpisodeRepairs,  \* TIMELINE_COMPOSE_MAX_EPISODE_REPAIRS (3)
          MaxCoverageRepairs, \* TIMELINE_COMPOSE_MAX_COVERAGE_REPAIRS (8)
          FallbackLimit,      \* _DETERMINISTIC_COVERAGE_REPAIR_LIMIT (32)
          Patchers,           \* requests that patch the stored timeline
          MaxChanges          \* bound on the patches written and the attempts repeated

ASSUME LimitsAssumption ==
  {MaxEpisodeRepairs, MaxCoverageRepairs, FallbackLimit, MaxChanges} \subseteq Nat

(* An answer without episodes or blocks is rejected (normalization.py).          *)
ASSUME AnswersAssumption ==
  /\ \A raw \in Drafts \cup Redrafts :
       raw \in CompositionType /\ raw.episodes # <<>> /\ raw.blocks # <<>>
  /\ Looks \subseteq Looking

VARIABLES stage,        \* where the attempt is
          composition,  \* the episodes, blocks and topics so far
          targets,      \* the broad episodes of the draft still to be split
          repairs,      \* coverage repairs of this round, by the model or without it
          given,        \* the draft as it was normalised, for the properties
          stored,       \* what is read of the stored composition
          newest,       \* whether its row is the last of timeline_compositions
          orphans,      \* blocks, episodes and topics left under the id of the next row
          patching,     \* per request, the composition it read
          patches,      \* how many patches were written
          reruns        \* how many attempts followed the first

vars == <<stage, composition, targets, repairs, given, stored, newest, orphans, patching,
          patches, reruns>>

Stages == {"composing", "splitting", "covering", "chunking", "arranging",
           "recovering", "rechunking", "rearranging", "validating", "stored", "failed"}

Nothing == [episodes |-> <<>>, blocks |-> <<>>, topics |-> <<>>]

Init ==
  /\ stage = "composing"
  /\ composition = Nothing
  /\ targets = <<>>
  /\ repairs = 0
  /\ given = Nothing
  /\ stored = Nothing
  /\ newest = FALSE
  /\ orphans = Nothing
  /\ patching = [p \in Patchers |-> Nothing]
  /\ patches = 0
  /\ reruns = 0

tables == <<stored, newest, orphans>>
requests == <<patching, patches>>
patchVars == <<tables, requests, reruns>>

-----------------------------------------------------------------------------
(* The first MaxEpisodeRepairs broad episodes of the normalised draft.          *)
BroadEpisodes(eps) ==
  LET broad == Chosen(eps, {k \in DOMAIN eps : Overbroad(eps[k])})
  IN  SubSeq(broad, 1, Min({Len(broad), MaxEpisodeRepairs}))

(* The model answers a draft with at least one episode and one block.           *)
Compose ==
  /\ stage = "composing"
  /\ \E raw \in IF reruns = 0 THEN Drafts ELSE Redrafts :
       /\ composition' = Normalized(raw)
       /\ given' = composition'
       /\ targets' = BroadEpisodes(composition'.episodes)
  /\ stage' = "splitting"
  /\ UNCHANGED repairs /\ UNCHANGED patchVars

(* An attempt that ends without a composition forgets what it had.              *)
GivesUp ==
  /\ stage' = "failed"
  /\ composition' = Nothing
  /\ targets' = <<>>
  /\ repairs' = 0
  /\ given' = Nothing

(* The call raises or times out, or the answer is not a timeline.               *)
ComposeFails ==
  /\ stage = "composing"
  /\ GivesUp
  /\ UNCHANGED patchVars

(* An answer says of each of its parts what it looks like.                      *)
LooksOf(target, cuts) == [DOMAIN Stretches(target, cuts) -> Looks]

(* A split of a broad episode into two or more episodes that cover it exactly.  *)
SplitBroad ==
  /\ stage = "splitting"
  /\ targets # <<>>
  /\ \E cuts \in Cuts(Head(targets)) \ {{}} : \E looks \in LooksOf(Head(targets), cuts) :
       composition' = SplitEpisode(PartsOf(Head(targets), cuts, looks), composition)
  /\ targets' = Tail(targets)
  /\ UNCHANGED <<stage, repairs, given>> /\ UNCHANGED patchVars

(* Any other answer, an error or a timeout: the episode stays as it is.         *)
KeepBroad ==
  /\ stage = "splitting"
  /\ targets # <<>>
  /\ targets' = Tail(targets)
  /\ UNCHANGED <<stage, composition, repairs, given>> /\ UNCHANGED patchVars

SplittingEnds ==
  /\ stage = "splitting"
  /\ targets = <<>>
  /\ stage' = "covering"
  /\ UNCHANGED <<composition, targets, repairs, given>> /\ UNCHANGED patchVars

-----------------------------------------------------------------------------
(* Coverage repair, gone through twice.                                         *)
After(round) == IF round = "covering" THEN "chunking" ELSE "rechunking"
Target(index) == TargetEpisode(composition.episodes, RepairTarget(composition.episodes), index)
Repaired(parts) == ApplyCoverage(composition, RepairTarget(composition.episodes), parts)

(* The model covers the target exactly, by one or more episodes.                *)
CoverByModel ==
  /\ stage \in {"covering", "recovering"}
  /\ ~Covered(composition.episodes)
  /\ repairs < MaxCoverageRepairs
  /\ \E cuts \in Cuts(Target(repairs + 1)) : \E looks \in LooksOf(Target(repairs + 1), cuts) :
       composition' = Repaired(PartsOf(Target(repairs + 1), cuts, looks))
  /\ repairs' = repairs + 1
  /\ UNCHANGED <<stage, targets, given>> /\ UNCHANGED patchVars

(* Nothing to repair, no repair left, or a repair that failed: on to chunks.    *)
CoverByModelEnds ==
  /\ stage \in {"covering", "recovering"}
  /\ stage' = After(stage)
  /\ repairs' = 0
  /\ UNCHANGED <<composition, targets, given>> /\ UNCHANGED patchVars

CoverByChunks ==
  /\ stage \in {"chunking", "rechunking"}
  /\ ~Covered(composition.episodes)
  /\ repairs < FallbackLimit
  /\ composition' =
       Repaired(ChunksOf(Target(MaxCoverageRepairs + repairs + 1), repairs + 1))
  /\ repairs' = repairs + 1
  /\ UNCHANGED <<stage, targets, given>> /\ UNCHANGED patchVars

(* Mutant: what the second round of repairs leaves is not arranged again.       *)
ArrangedOnlyOnce ==
  /\ stage \in {"chunking", "rechunking"}
  /\ Covered(composition.episodes) \/ repairs = FallbackLimit
  /\ stage' = IF stage = "chunking" THEN "arranging" ELSE "validating"
  /\ repairs' = 0
  /\ UNCHANGED <<composition, targets, given>> /\ UNCHANGED patchVars

CoverByChunksEnds ==
  /\ stage \in {"chunking", "rechunking"}
  /\ Covered(composition.episodes) \/ repairs = FallbackLimit
  /\ stage' = IF stage = "chunking" THEN "arranging" ELSE "rearranging"
  /\ repairs' = 0
  /\ UNCHANGED <<composition, targets, given>> /\ UNCHANGED patchVars

Arrange ==
  /\ stage \in {"arranging", "rearranging"}
  /\ composition' = Arranged(composition)
  /\ stage' = IF stage = "arranging" THEN "recovering" ELSE "validating"
  /\ UNCHANGED <<targets, repairs, given>> /\ UNCHANGED patchVars

-----------------------------------------------------------------------------
(* The tables.  No connection switches foreign keys on, so that a deleted row   *)
(* leaves its blocks, episodes and topics behind; SQLite gives the next row the *)
(* id after the greatest, which is the deleted one's if that was the last.      *)

Collides(comp, left) ==
  \/ ToSet(Ids(comp.blocks)) \cap ToSet(Ids(left.blocks)) # {}
  \/ ToSet(Ids(comp.episodes)) \cap ToSet(Ids(left.episodes)) # {}

(* Children of one id are read in the order of their index.                     *)
ByIndex(own, left) ==
  LET at(items, k) == IF k \in DOMAIN items THEN <<items[k]>> ELSE <<>>
  IN  FlattenSeq([k \in 1 .. Len(own) + Len(left) |-> at(own, k) \o at(left, k)])

ReadBack(comp, left) ==
  [episodes |-> ByIndex(comp.episodes, left.episodes), blocks |-> ByIndex(comp.blocks, left.blocks),
   topics |-> ByIndex(comp.topics, left.topics)]

(* replace_composition: the children of an existing row are deleted first; a    *)
(* new row may find others, whose names must not be among its own.              *)
CanReplace(comp) == stored # Nothing \/ ~Collides(comp, orphans)

Replace(comp) ==
  IF stored # Nothing
  THEN stored' = comp /\ UNCHANGED <<newest, orphans>>
  ELSE stored' = ReadBack(comp, orphans) /\ newest' = TRUE /\ orphans' = Nothing

(* Mutant: the composition is stored as it is.                                  *)
StoreUnvalidated ==
  /\ stage = "validating"
  /\ CanReplace(composition)
  /\ Replace(composition)
  /\ stage' = "stored"
  /\ composition' = Nothing
  /\ given' = Nothing
  /\ UNCHANGED <<targets, repairs, reruns>> /\ UNCHANGED requests

Store ==
  /\ stage = "validating"
  /\ Storable(composition)
  /\ CanReplace(composition)
  /\ Replace(composition)
  /\ stage' = "stored"
  /\ composition' = Nothing
  /\ given' = Nothing
  /\ UNCHANGED <<targets, repairs, reruns>> /\ UNCHANGED requests

(* The insert violates a unique constraint and is rolled back.                  *)
StoreCollides ==
  /\ stage = "validating"
  /\ Storable(composition) /\ ~CanReplace(composition)
  /\ GivesUp
  /\ UNCHANGED patchVars

RejectComposition ==
  /\ stage = "validating"
  /\ ~Storable(composition)
  /\ GivesUp
  /\ UNCHANGED patchVars

(* The item is retried or rerun: delete_composition, committed at once.         *)
AttemptStartsAgain ==
  /\ stage \in {"stored", "failed"}
  /\ patches + reruns < MaxChanges
  /\ reruns' = reruns + 1
  /\ stage' = "composing"
  /\ stored' = Nothing
  /\ newest' = FALSE
  /\ orphans' = IF stored # Nothing /\ newest THEN stored ELSE orphans
  /\ UNCHANGED <<composition, targets, repairs, given>> /\ UNCHANGED requests

(* The composition of another video is stored under the next id, or, because    *)
(* blocks are numbered from one, collides with what is left there.              *)
OtherIsStored ==
  /\ stored # Nothing /\ newest
  /\ newest' = FALSE
  /\ UNCHANGED <<stage, composition, targets, repairs, given, stored, orphans, reruns>>
  /\ UNCHANGED requests

-----------------------------------------------------------------------------
(* Patches.  A request reads the stored composition, applies all its operations *)
(* and writes the result back without looking again; edits of texts do not      *)
(* change what is modelled.                                                     *)
PatchReads(p) ==
  /\ stored # Nothing
  /\ patching[p] = Nothing
  /\ patches + reruns < MaxChanges
  /\ patching' = [patching EXCEPT ![p] = stored]
  /\ UNCHANGED <<stage, composition, targets, repairs, given, patches, reruns>>
  /\ UNCHANGED tables

Patchable(comp) ==
  BlocksHold(comp) /\ UniqueIds(comp.episodes) /\ UniqueIds(comp.blocks)

(* One split, or two in one request.                                            *)
Patched(comp) ==
  LET once == {SplitBlockAfter(id, comp) : id \in {e \in ToSet(Ids(comp.episodes)) :
                                                   CanSplitAfter(e, comp)}}
      twice == UNION {{SplitBlockAfter(id, c) : id \in {e \in ToSet(Ids(c.episodes)) :
                                                        CanSplitAfter(e, c)}} : c \in once}
  IN  {c \in once \cup twice : Patchable(c)}

PatchWrites(p) ==
  /\ patching[p] # Nothing
  /\ patches + reruns < MaxChanges
  /\ \E comp \in Patched(patching[p]) : CanReplace(comp) /\ Replace(comp)
  /\ patching' = [patching EXCEPT ![p] = Nothing]
  /\ patches' = patches + 1
  /\ UNCHANGED <<stage, composition, targets, repairs, given, reruns>>

(* An operation that cannot be applied, a dry run, or a write that collides     *)
(* with what a deleted composition left: nothing is written.                    *)
PatchEnds(p) ==
  /\ patching[p] # Nothing
  /\ patching' = [patching EXCEPT ![p] = Nothing]
  /\ UNCHANGED <<stage, composition, targets, repairs, given, patches, reruns>>
  /\ UNCHANGED tables

-----------------------------------------------------------------------------
Next ==
  \/ Compose \/ ComposeFails
  \/ SplitBroad \/ KeepBroad \/ SplittingEnds
  \/ CoverByModel \/ CoverByModelEnds \/ CoverByChunks \/ CoverByChunksEnds
  \/ Arrange \/ Store \/ StoreCollides \/ RejectComposition
  \/ AttemptStartsAgain \/ OtherIsStored
  \/ \E p \in Patchers : PatchReads(p) \/ PatchWrites(p) \/ PatchEnds(p)

Spec == Init /\ [][Next]_vars

-----------------------------------------------------------------------------
TypeOK ==
  /\ stage \in Stages
  /\ repairs \in 0 .. MaxCoverageRepairs + FallbackLimit
  /\ patches \in 0 .. MaxChanges /\ reruns \in 0 .. MaxChanges
  /\ composition \in CompositionType /\ given \in CompositionType
  /\ stored \in CompositionType /\ orphans \in CompositionType
  /\ targets \in Seq(EpisodeType) /\ newest \in BOOLEAN
  /\ patching \in [Patchers -> CompositionType]

(* How many repairs a draft may need.  The first episode out of place and those *)
(* behind it take one each, where they begin; two if the range is unknown or    *)
(* reversed (put at the end of the stream it may become an overlap); as many as *)
(* it may be split into if it is broad; and the end may take one more.          *)
Behind(eps) == {k \in DOMAIN eps : \E j \in 1 .. k : j \in Misplaced(eps)}
RepairsOf(e) ==
  IF Overbroad(e) THEN RangeOf(e) ELSE IF Valid(e) THEN {e.first} ELSE {0, N}
RepairsNeeded(eps) ==
  IF Covered(eps) THEN 0
  ELSE Cardinality(UNION {{k} \X RepairsOf(eps[k]) : k \in Behind(eps)}) + 1

(* The ids of the draft are ids as the model gives them, none that only repairs *)
(* make up.                                                                     *)
IsGiven(id) == Len(id) = 2 /\ id[1] = 0
IdsAreGiven == \A e \in ToSet(given.episodes) : IsGiven(e.id)

(* A draft that needs no more repairs than both rounds may make becomes         *)
(* storable, whatever the model answers: every micro-event in exactly one       *)
(* episode, in order, every episode in exactly one block, its parent, and under *)
(* an id of its own, unless the draft used such an id as repairs make up.       *)
RepairedIsStorable ==
  (/\ stage = "validating"
   /\ RepairsNeeded(given.episodes) <= FallbackLimit + FallbackLimit
   /\ IdsAreGiven) => Storable(composition)

(* Repairs never leave a topic without references, or with a reference to an    *)
(* episode they replaced; nor with less than two, if no topic of the draft      *)
(* names one episode only (the draft may name it twice, and a split of another  *)
(* episode drops the repetition without counting again).                        *)
TopicsResolve ==
  /\ \A comp \in {composition, stored} : \A t \in DOMAIN comp.topics :
       comp.topics[t] # <<>> /\ ToSet(comp.topics[t]) \subseteq ToSet(Ids(comp.episodes))
  /\ (\A t \in DOMAIN given.topics : Cardinality(ToSet(given.topics[t])) >= 2) =>
       \A t \in DOMAIN composition.topics : Len(composition.topics[t]) >= 2

(* The arrangement of what is stored has settled, if the first round sufficed   *)
(* to repair it: arranging it again would change nothing, so no merge brought a *)
(* run of daily chat into a game block.  (If the second round repaired it, it   *)
(* may have removed the block between two others, which are then merged.)       *)
ArrangementSettles ==
  (stage = "validating" /\ RepairsNeeded(given.episodes) <= FallbackLimit
                        /\ Storable(composition)) => Arranged(composition) = composition

(* An episode of the draft that is in order, not broad and shares no            *)
(* micro-event with another one is still there, unless the draft had an episode *)
(* with an unknown or reversed range (its repair may take a neighbour along) or *)
(* an id that a split makes up (what the split replaces is then doubled).       *)
SoundEpisodesAreKept ==
  (stage = "validating" /\ IdsAreGiven /\ \A e \in ToSet(given.episodes) : Valid(e)) =>
    \A e \in ToSet(given.episodes) :
      (~Overbroad(e) /\ \A f \in ToSet(given.episodes) \ {e} : RangeOf(e) \cap RangeOf(f) = {})
        => \E g \in ToSet(composition.episodes) :
             g.id = e.id /\ g.first = e.first /\ g.last = e.last

(* What is stored covers every micro-event once and its blocks hold its         *)
(* episodes, however patches and reruns interleave: patches check only the      *)
(* blocks and may bring a deleted composition back, and a new row may find what *)
(* a deleted one left behind.                                                   *)
StoredIsWhole == stored # Nothing => Storable(stored) /\ UniqueIds(stored.blocks)

(* What is published of a stored composition can be built at any time, and the  *)
(* public catalog divides the stream as the timeline does.                      *)
CatalogFollowsTimeline ==
  stored # Nothing => Publishable(stored) /\ DividesTheStream(TimelineIndex(Artifact(stored)))
=============================================================================
