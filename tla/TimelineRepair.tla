----------------------------- MODULE TimelineRepair -----------------------------
(* The pure part of the timeline composition: what a model's draft is            *)
(* normalised to, where its episodes fail to cover the micro-events and what     *)
(* range a repair replaces, how blocks and topics follow the episodes, and how   *)
(* the blocks are rearranged by meaning.                                         *)
(*                                                                               *)
(* Micro-events are 1 .. N in the order of the source extraction; 0 stands for a *)
(* reference that names none of them.  An id is the sequence of its parts, so    *)
(* that generated ids are told from given ones: <<0, n>> is given by the model,  *)
(* <<1, k>> is episode_recovery_k, and a part 2, k or 3, f, k appended to an id  *)
(* is its suffix _split_k or _coverage_f_k.  Block ids are numbers.              *)
EXTENDS Subsequences, SequencesExt

CONSTANTS Micro,           \* the micro-events: mode, kind and marks of each
          OverbroadCount,  \* _OVERBROAD_MICRO_EVENT_COUNT (9)
          LargeCount,      \* _OVERBROAD_LARGE_MICRO_EVENT_COUNT (12)
          ManyKinds,       \* distinct modes or kinds that make an episode broad (3)
          ChunkSize,       \* _DETERMINISTIC_COVERAGE_REPAIR_CHUNK_SIZE (4)
          ShortBreak,      \* _SHORT_BREAK_EPISODE_COUNT (2)
          DailyKinds       \* _POST_GAME_DAILY_CONTENT_KINDS

BlockTypes ==
  {"PRE_ROLL", "OPENING", "JUST_CHATTING", "COMMUNITY_REVIEW", "MEDIA_REVIEW", "GAME_SETUP",
   "GAMEPLAY", "BREAK", "POST_GAME", "CLOSING", "MIXED"}
ContentKinds ==
  {"ANNOUNCEMENT", "PERSONAL_STORY", "OPINION", "QNA", "REACTION", "TECHNICAL_SETUP",
   "GAME_PROGRESS", "GAME_DISCUSSION", "COMMUNITY_REVIEW", "MEDIA_REVIEW", "META_CHAT",
   "BREAK_TIME", "OTHER"}

(* marks says what the text of an episode is about ("closing", "game") and      *)
(* whether its list of topics is full ("topics").  A micro-event may have no    *)
(* mode or kind, or a mode that no block has.                                   *)
Marks == {"closing", "game", "topics"}
Looking == [mode : BlockTypes, kind : ContentKinds, marks : SUBSET Marks]
MicroEvents == [mode : BlockTypes \cup {"UNKNOWN", "NONE"}, kind : ContentKinds \cup {"NONE"},
                marks : SUBSET Marks]

ASSUME MicroAssumption == Micro \in Seq(MicroEvents) /\ Micro # <<>>
ASSUME ChunkAssumption == ChunkSize \in Nat \ {0}

N == Len(Micro)

(* A reference names an episode, and an episode its block, even if there is none.*)
Refs == Seq(Seq(Nat))
EpisodeType == [id : Seq(Nat), block : Nat, first : 0 .. N, last : 0 .. N,
                mode : BlockTypes, kind : ContentKinds, marks : SUBSET Marks]
BlockType == [id : Nat, type : BlockTypes, episodes : Refs]
CompositionType == [episodes : Seq(EpisodeType), blocks : Seq(BlockType), topics : Seq(Refs)]

Valid(e) == e.first \in 1 .. N /\ e.last \in 1 .. N /\ e.first <= e.last
RangeOf(e) == e.first .. e.last
Ids(eps) == [k \in DOMAIN eps |-> eps[k].id]

-----------------------------------------------------------------------------
(* Normalising a draft: the first of the episodes or blocks of one id stays,    *)
(* episodes are sorted by where they start (an unknown start is last), unknown  *)
(* references are dropped from blocks and topics, and so are topics with fewer  *)
(* than two.                                                                    *)

FirstOfEachId(items) ==
  Chosen(items, {k \in DOMAIN items : \A j \in 1 .. k - 1 : items[j].id # items[k].id})

StartingAt(eps, m) == Chosen(eps, {k \in DOMAIN eps : eps[k].first = m})
SortedByStart(eps) == FlattenSeq([m \in 1 .. N |-> StartingAt(eps, m)]) \o StartingAt(eps, 0)

Known(refs, eps) == Chosen(refs, {k \in DOMAIN refs : refs[k] \in ToSet(Ids(eps))})

SanitizedBlocks(bks, eps) ==
  LET unique == FirstOfEachId(bks)
  IN  [k \in DOMAIN unique |-> [unique[k] EXCEPT !.episodes = Known(@, eps)]]

WithTwo(tps) == Chosen(tps, {t \in DOMAIN tps : Len(tps[t]) >= 2})
NormalizedTopics(tps, eps) == WithTwo([t \in DOMAIN tps |-> Known(tps[t], eps)])

Normalized(raw) ==
  LET eps == SortedByStart(FirstOfEachId(raw.episodes))
  IN  [episodes |-> eps, blocks |-> SanitizedBlocks(raw.blocks, eps),
       topics |-> NormalizedTopics(raw.topics, eps)]

-----------------------------------------------------------------------------
(* Replacing an id by the ids of its parts.                                     *)

Deduped(refs) == Chosen(refs, {k \in DOMAIN refs : \A j \in 1 .. k - 1 : refs[j] # refs[k]})

Replaced(refs, id, ids) ==
  FlattenSeq([k \in DOMAIN refs |-> IF refs[k] = id THEN ids ELSE <<refs[k]>>])

Without(refs, removed) == Chosen(refs, {k \in DOMAIN refs : refs[k] \notin removed})

(* The parts of a range cut after some of its micro-events, each looking as said.*)
SplitId(id, k) == IF k = 1 THEN id ELSE id \o <<2, k>>

Stretches(target, cuts) ==
  LET ends == InOrder(cuts \cup {target.last})
  IN  [k \in DOMAIN ends |->
        [first |-> IF k = 1 THEN target.first ELSE ends[k - 1] + 1, last |-> ends[k]]]

PartsOf(target, cuts, looks) ==
  LET of == Stretches(target, cuts)
  IN  [k \in DOMAIN of |->
        [id |-> SplitId(target.id, k), block |-> target.block,
         first |-> of[k].first, last |-> of[k].last,
         mode |-> looks[k].mode, kind |-> looks[k].kind, marks |-> looks[k].marks]]

Cuts(target) == SUBSET (target.first .. target.last - 1)

Overbroad(e) ==
  LET modes == {Micro[m].mode : m \in RangeOf(e)} \ {"NONE"}
      kinds == {Micro[m].kind : m \in RangeOf(e)} \ {"NONE"}
      size == Cardinality(RangeOf(e))
  IN  /\ Valid(e)
      /\ \/ /\ size >= OverbroadCount
            /\ "topics" \in e.marks \/ Cardinality(modes) >= ManyKinds
                 \/ Cardinality(kinds) >= ManyKinds
         \/ size >= LargeCount /\ Cardinality(kinds) >= 2

SplitEpisode(parts, comp) ==
  LET id == parts[1].id
      at(e) == IF e.id = id THEN parts ELSE <<e>>
  IN  [episodes |-> FlattenSeq([k \in DOMAIN comp.episodes |-> at(comp.episodes[k])]),
       blocks |-> [b \in DOMAIN comp.blocks |->
                     [comp.blocks[b] EXCEPT !.episodes = Replaced(@, id, Ids(parts))]],
       topics |-> [t \in DOMAIN comp.topics |->
                     Deduped(Replaced(comp.topics[t], id, Ids(parts)))]]

-----------------------------------------------------------------------------
(* Coverage.  An episode is in place when it is valid and starts where the ones *)
(* before it ended; the first one that is not decides what a repair replaces:   *)
(* from and to are micro-events, removed are positions of episodes.             *)

StartOf(eps, k) == IF k = 1 THEN 1 ELSE eps[k - 1].last + 1
InPlace(eps, k) == Valid(eps[k]) /\ eps[k].first = StartOf(eps, k)
Misplaced(eps) == {k \in DOMAIN eps : ~InPlace(eps, k)}

Covered(eps) == Misplaced(eps) = {} /\ StartOf(eps, Len(eps) + 1) = N + 1

(* Mutant: a start behind the last micro-event is not moved back to it.         *)
InvalidTargetUnclipped(eps, k) ==
  [from |-> StartOf(eps, k), to |-> N, start |-> k, stop |-> k]

InvalidTarget(eps, k) ==
  LET from == Min({StartOf(eps, k), N})
      later == {j \in k + 1 .. Len(eps) : Valid(eps[j])}
      to == IF later = {} THEN N ELSE Max({from, eps[Min(later)].first - 1})
  IN  [from |-> from, to |-> to, start |-> k, stop |-> k]

(* Mutant: an overlap is repaired from the first episode on.                    *)
FromTheFirst(eps, k) == 1

FirstOverlapping(eps, k) == Min({j \in 1 .. k - 1 : eps[j].last >= eps[k].first})

(* Mutant: only the later of the two overlapping episodes is replaced.          *)
OverlapTargetOfLater(eps, k) ==
  [from |-> eps[k].first, to |-> eps[k].last, start |-> k, stop |-> k]

OverlapTarget(eps, k) ==
  LET j == FirstOverlapping(eps, k)
  IN  [from |-> eps[j].first, to |-> Max({eps[j].last, eps[k].last}), start |-> j, stop |-> k]

GapTarget(eps, k, to) == [from |-> StartOf(eps, k), to |-> to, start |-> k, stop |-> k - 1]

RepairTarget(eps) ==
  LET k == Min(Misplaced(eps))
  IN  IF Misplaced(eps) = {} THEN GapTarget(eps, Len(eps) + 1, N)
      ELSE IF ~Valid(eps[k]) THEN InvalidTarget(eps, k)
      ELSE IF eps[k].first > StartOf(eps, k) THEN GapTarget(eps, k, eps[k].first - 1)
      ELSE OverlapTarget(eps, k)

Inserts(range) == range.stop < range.start

RecoveryId(eps, index) ==
  <<1, Min({k \in index .. index + Len(eps) : <<1, k>> \notin ToSet(Ids(eps))})>>

ParentOf(eps, range) ==
  IF range.start \in DOMAIN eps THEN eps[range.start].block ELSE Last(eps).block

TargetEpisode(eps, range, index) ==
  [id |-> IF Inserts(range) THEN RecoveryId(eps, index) ELSE eps[range.start].id,
   block |-> ParentOf(eps, range), first |-> range.from, last |-> range.to]

(* Without an answer of the model the range is cut into chunks that take over   *)
(* what their micro-events have in common, and the topics of all of them.       *)
Common(values, known, default) ==
  IF Cardinality(values) = 1 /\ values \subseteq known THEN CHOOSE v \in values : TRUE ELSE default

ChunkOf(target, index, k, of) ==
  [id |-> IF k = 1 THEN target.id ELSE target.id \o <<3, index, k>>,
   block |-> target.block, first |-> of.first, last |-> of.last,
   mode |-> Common({Micro[m].mode : m \in of.first .. of.last}, BlockTypes, "MIXED"),
   kind |-> Common({Micro[m].kind : m \in of.first .. of.last}, ContentKinds, "OTHER"),
   marks |-> UNION {Micro[m].marks : m \in of.first .. of.last}]

ChunksOf(target, index) ==
  LET full == {m \in target.first .. target.last - 1 : (m - target.first + 1) % ChunkSize = 0}
      of == Stretches(target, full)
  IN  [k \in DOMAIN of |-> ChunkOf(target, index, k, of[k])]

(* References to the first of the removed ids become the replacement, those to  *)
(* the others are left out.                                                     *)
RefsExchanged(refs, removed, ids) ==
  Replaced(Without(refs, ToSet(Tail(removed)) \ {Head(removed)}), Head(removed), ids)

(* The blocks take the replacement where the first replaced episode stood, or   *)
(* before the episode it is inserted before, or at the end of the parent block; *)
(* where there is no such place, at the end of the last block.                  *)
CoveredBlocks(bks, eps, range, parent, ids) ==
  LET removed == [k \in 1 .. range.stop - range.start + 1 |-> eps[range.start + k - 1].id]
      before == IF range.start \in DOMAIN eps THEN eps[range.start].id ELSE <<>>
      place(refs) ==
        IF Inserts(range) THEN Replaced(refs, before, ids \o <<before>>)
        ELSE RefsExchanged(refs, removed, ids)
      anchor == IF Inserts(range) THEN before ELSE Head(removed)
      placed == \E b \in DOMAIN bks : anchor \in ToSet(bks[b].episodes)
      atEnd == {b \in DOMAIN bks : Inserts(range) /\ before = <<>> /\ bks[b].id = parent}
      fallback == IF atEnd # {} THEN Min(atEnd) ELSE Len(bks)
  IN  [b \in DOMAIN bks |->
        [bks[b] EXCEPT !.episodes = place(@) \o IF ~placed /\ b = fallback THEN ids ELSE <<>>]]

(* Mutant: only the first of the replaced episodes is replaced in topics.       *)
TopicsOfFirst(tps, eps, range, ids) ==
  IF Inserts(range) THEN tps
  ELSE [t \in DOMAIN tps |-> Deduped(Replaced(tps[t], eps[range.start].id, ids))]

CoveredTopics(tps, eps, range, ids) ==
  LET removed == [k \in 1 .. range.stop - range.start + 1 |-> eps[range.start + k - 1].id]
      at(refs) == Deduped(RefsExchanged(refs, removed, ids))
  IN  IF Inserts(range) THEN tps ELSE WithTwo([t \in DOMAIN tps |-> at(tps[t])])

ApplyCoverage(comp, range, parts) ==
  LET eps == comp.episodes
  IN  [episodes |-> SubSeq(eps, 1, range.start - 1) \o parts
                      \o SubSeq(eps, range.stop + 1, Len(eps)),
       blocks |-> CoveredBlocks(comp.blocks, eps, range, parts[1].block, Ids(parts)),
       topics |-> CoveredTopics(comp.topics, eps, range, Ids(parts))]

-----------------------------------------------------------------------------
(* Blocks by meaning.  An episode belongs to the first block that lists it, or  *)
(* else to its parent block, or else to none (0); consecutive episodes of one   *)
(* block are a segment.                                                         *)

HomeOf(e, bks) ==
  LET listing == {b \in DOMAIN bks : e.id \in ToSet(bks[b].episodes)}
      parent == {b \in DOMAIN bks : bks[b].id = e.block}
  IN  IF listing # {} THEN Min(listing) ELSE IF parent # {} THEN Max(parent) ELSE 0

Segments(comp) ==
  LET eps == comp.episodes
      home == [k \in DOMAIN eps |-> HomeOf(eps[k], comp.blocks)]
      starts == {k \in DOMAIN eps : k = 1 \/ home[k] = 0 \/ home[k] # home[k - 1]}
      at == InOrder(starts)
      pieces == Pieces(eps, starts)
  IN  [n \in DOMAIN pieces |->
        [type |-> IF home[at[n]] = 0 THEN eps[at[n]].mode ELSE comp.blocks[home[at[n]]].type,
         episodes |-> pieces[n]]]

(* Segments that become one: it has the type of the first.                      *)
Joined(segs) ==
  [type |-> Head(segs).type, episodes |-> FlattenSeq([k \in DOMAIN segs |-> segs[k].episodes])]

JoinedFrom(segs, starts) ==
  LET pieces == Pieces(segs, starts)
  IN  [n \in DOMAIN pieces |-> Joined(pieces[n])]

IsShortBreak(segs, k) ==
  segs[k].type = "BREAK" /\ Len(segs[k].episodes) <= ShortBreak /\ k > 1 /\ k < Len(segs)

(* A short break inside joins the segment before it; there always is one.       *)
MergedBreaks(segs) ==
  LET short == {k \in DOMAIN segs : IsShortBreak(segs, k)}
      rest(eps) == [k \in DOMAIN eps |-> [eps[k] EXCEPT !.mode = "BREAK", !.kind = "BREAK_TIME"]]
      looks == [k \in DOMAIN segs |->
                 IF k \in short THEN [segs[k] EXCEPT !.episodes = rest(@)] ELSE segs[k]]
  IN  JoinedFrom(looks, DOMAIN segs \ short)

AllWith(eps, mode) == [k \in DOMAIN eps |-> [eps[k] EXCEPT !.mode = mode]]

Daily(e) ==
  /\ e.kind \in DailyKinds
  /\ e.mode \notin {"GAMEPLAY", "GAME_SETUP"}
  /\ "game" \notin e.marks

DailyRuns(eps) == {k \in 1 .. Len(eps) - 1 : Daily(eps[k]) /\ Daily(eps[k + 1])}

CutAt(seg, k, before, after) ==
  LET left == SubSeq(seg.episodes, 1, k - 1)
      right == SubSeq(seg.episodes, k, Len(seg.episodes))
      part(eps, type) ==
        [type |-> type, episodes |-> IF type = seg.type THEN eps ELSE AllWith(eps, type)]
      parts == <<part(left, before), part(right, after)>>
  IN  Chosen(parts, {n \in DOMAIN parts : parts[n].episodes # <<>>})

SplitPostGame(seg) ==
  IF seg.type # "POST_GAME" \/ DailyRuns(seg.episodes) = {} THEN <<seg>>
  ELSE CutAt(seg, Min(DailyRuns(seg.episodes)), "POST_GAME", "JUST_CHATTING")

Closings(eps) == {k \in DOMAIN eps : "closing" \in eps[k].marks}

SplitClosing(seg) ==
  IF seg.type # "CLOSING" THEN <<seg>>
  ELSE CutAt(seg, IF Closings(seg.episodes) = {} THEN Len(seg.episodes) + 1
                  ELSE Min(Closings(seg.episodes)), "JUST_CHATTING", "CLOSING")

MergedTypes(segs) ==
  JoinedFrom(segs, {k \in DOMAIN segs : k = 1 \/ segs[k].type # segs[k - 1].type})

Arranged(comp) ==
  LET breaks == MergedBreaks(Segments(comp))
      played == FlattenSeq([k \in DOMAIN breaks |-> SplitPostGame(breaks[k])])
      closed == FlattenSeq([k \in DOMAIN played |-> SplitClosing(played[k])])
      segs == MergedTypes(closed)
      housed(k) == [j \in DOMAIN segs[k].episodes |-> [segs[k].episodes[j] EXCEPT !.block = k]]
  IN  [episodes |-> FlattenSeq([k \in DOMAIN segs |-> housed(k)]),
       blocks |-> [k \in DOMAIN segs |->
                     [id |-> k, type |-> segs[k].type, episodes |-> Ids(segs[k].episodes)]],
       topics |-> comp.topics]

-----------------------------------------------------------------------------
(* What a composition must satisfy to be stored, and to be patched.             *)

BlocksHold(comp) ==
  /\ FlattenSeq([b \in DOMAIN comp.blocks |-> comp.blocks[b].episodes]) = Ids(comp.episodes)
  /\ \A b \in DOMAIN comp.blocks :
       /\ comp.blocks[b].episodes # <<>>
       /\ \A k \in DOMAIN comp.episodes :
            comp.episodes[k].id \in ToSet(comp.blocks[b].episodes)
              => comp.episodes[k].block = comp.blocks[b].id

UniqueIds(items) == Cardinality(ToSet(Ids(items))) = Len(items)

Storable(comp) == Covered(comp.episodes) /\ BlocksHold(comp) /\ UniqueIds(comp.episodes)

(* Splitting the block of an episode behind it; the new block's number is one   *)
(* more than any.                                                               *)
PositionIn(id, items) == CHOOSE k \in DOMAIN items : items[k].id = id

CanSplitAfter(id, comp) ==
  /\ id \in ToSet(Ids(comp.episodes))
  /\ id # Last(comp.blocks[PositionIn(comp.episodes[PositionIn(id, comp.episodes)].block,
                                      comp.blocks)].episodes)

NextBlockId(bks) == Max(ToSet(Ids(bks))) + 1

SplitBlockAfter(id, comp) ==
  LET b == PositionIn(comp.episodes[PositionIn(id, comp.episodes)].block, comp.blocks)
      refs == comp.blocks[b].episodes
      at == CHOOSE k \in DOMAIN refs : refs[k] = id
      moved == SubSeq(refs, at + 1, Len(refs))
      new == [id |-> NextBlockId(comp.blocks), episodes |-> moved,
              type |-> comp.episodes[PositionIn(Head(moved), comp.episodes)].mode]
  IN  [comp EXCEPT
        !.blocks = InsertAt([@ EXCEPT ![b].episodes = SubSeq(refs, 1, at)], b + 1, new),
        !.episodes = [k \in DOMAIN @ |-> IF @[k].id \in ToSet(moved)
                                         THEN [@[k] EXCEPT !.block = new.id] ELSE @[k]]]
=============================================================================
