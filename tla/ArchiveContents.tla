----------------------------- MODULE ArchiveContents -----------------------------
(* What a publication makes of a stored composition                              *)
(* (domains/archive_publish/use_cases.py): the timeline artifact that visitors   *)
(* fetch, and the rows of the public catalog that are searched.  Both are built  *)
(* from the same reading of the composition.  A micro-event's times are those of *)
(* its first and last cue; here they are its place in the stream.                *)
EXTENDS TimelineRepair

(* An episode of the artifact lists the micro-events from its first to its last *)
(* one under names of its own.                                                  *)
MicroEventJsons(e) ==
  [k \in 1 .. e.last - e.first + 1 |-> [id |-> <<e.id, k>>, event |-> e.first + k - 1]]

EpisodeJson(e) ==
  [id |-> e.id, block |-> e.block, start |-> e.first, end |-> e.last,
   events |-> MicroEventJsons(e)]

(* A block holds copies of the episodes it refers to; of two episodes of one id *)
(* the later one counts.                                                        *)
BlockEpisodes(refs, jsons) ==
  LET named(id) == {n \in DOMAIN jsons : jsons[n].id = id}
  IN  [k \in DOMAIN refs |-> jsons[Max(named(refs[k]))]]

(* Otherwise an error is raised, and nothing is published.                      *)
Publishable(comp) ==
  /\ \A k \in DOMAIN comp.episodes : Valid(comp.episodes[k])
  /\ \A b \in DOMAIN comp.blocks : ToSet(comp.blocks[b].episodes) \subseteq ToSet(Ids(comp.episodes))

Artifact(comp) ==
  LET jsons == [k \in DOMAIN comp.episodes |-> EpisodeJson(comp.episodes[k])]
      block(b) == [id |-> b.id, refs |-> b.episodes, episodes |-> BlockEpisodes(b.episodes, jsons)]
  IN  [episodes |-> jsons,
       blocks |-> [k \in DOMAIN comp.blocks |-> block(comp.blocks[k])],
       topics |-> comp.topics]

-----------------------------------------------------------------------------
(* The rows of the public catalog: a block spans from its first to its last     *)
(* episode.                                                                     *)

(* Mutant: a block ends with its first episode.                                 *)
BlockIndexOfFirst(block) ==
  LET eps == block.episodes
  IN  [id |-> block.id, start |-> IF eps = <<>> THEN 0 ELSE Head(eps).start,
       end |-> IF eps = <<>> THEN 0 ELSE Head(eps).end, count |-> Len(eps)]

BlockIndex(block) ==
  LET eps == block.episodes
  IN  [id |-> block.id, start |-> IF eps = <<>> THEN 0 ELSE Head(eps).start,
       end |-> IF eps = <<>> THEN 0 ELSE Last(eps).end, count |-> Len(eps)]

EpisodeIndex(json) ==
  [id |-> json.id, block |-> json.block, start |-> json.start, end |-> json.end,
   count |-> Len(json.events)]

MicroEventIndexes(json) ==
  [k \in DOMAIN json.events |->
    [id |-> json.events[k].id, episode |-> json.id, event |-> json.events[k].event]]

TimelineIndex(artifact) ==
  [blocks |-> [b \in DOMAIN artifact.blocks |-> BlockIndex(artifact.blocks[b])],
   episodes |-> [k \in DOMAIN artifact.episodes |-> EpisodeIndex(artifact.episodes[k])],
   events |-> FlattenSeq([k \in DOMAIN artifact.episodes |->
                            MicroEventIndexes(artifact.episodes[k])]),
   topics |-> artifact.topics]

-----------------------------------------------------------------------------
(* What a search of the catalog relies on: the blocks divide the stream without *)
(* gap or overlap, every micro-event is listed once, in order and under a name  *)
(* of its own, and every episode lies within the block it names.                *)
DividesTheStream(index) ==
  /\ \A b \in DOMAIN index.blocks :
       index.blocks[b].start = IF b = 1 THEN 1 ELSE index.blocks[b - 1].end + 1
  /\ Last(index.blocks).end = N
  /\ [k \in DOMAIN index.events |-> index.events[k].event] = [m \in 1 .. N |-> m]
  /\ UniqueIds(index.events)
  /\ \A k \in DOMAIN index.episodes : \E b \in DOMAIN index.blocks :
       /\ index.blocks[b].id = index.episodes[k].block
       /\ index.blocks[b].start <= index.episodes[k].start
       /\ index.episodes[k].end <= index.blocks[b].end
=============================================================================
