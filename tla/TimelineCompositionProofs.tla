----------------------- MODULE TimelineCompositionProofs -----------------------
(***************************************************************************)
(* Proofs about TimelineComposition: first what the operators on episodes,  *)
(* blocks and topics return, then the inductive invariant.                  *)
(***************************************************************************)
EXTENDS TimelineComposition, SubsequencesProofs

(* There is at least one micro-event, and each has a mode, a kind and        *)
(* marks.                                                                    *)
LEMMA MicroEventAt == N \in Nat \ {0} /\ \A m \in 1 .. N : Micro[m] \in MicroEvents
<1>1. N \in Nat \ {0}
  BY MicroAssumption, EmptySeq DEF N
<1> QED BY <1>1, MicroAssumption, ElementOfSeq DEF N

-----------------------------------------------------------------------------
(* Sequences of references.                                                    *)

(* The ids of a sequence of episodes, in their order.                        *)
LEMMA IdsOf ==
  ASSUME NEW eps \in Seq(EpisodeType)
  PROVE  /\ Ids(eps) \in Refs /\ Len(Ids(eps)) = Len(eps)
         /\ \A k \in 1 .. Len(eps) : Ids(eps)[k] = eps[k].id
         /\ ToSet(Ids(eps)) = {eps[k].id : k \in 1 .. Len(eps)}
<1>1. DOMAIN eps = 1 .. Len(eps) /\ Len(eps) \in Nat
  BY LenProperties
<1>2. \A k \in 1 .. Len(eps) : eps[k].id \in Seq(Nat)
  <2>1. \A k \in 1 .. Len(eps) : eps[k] \in EpisodeType
    BY ElementOfSeq
  <2> QED BY <2>1 DEF EpisodeType
<1>3. Ids(eps) = [k \in 1 .. Len(eps) |-> eps[k].id]
  BY <1>1 DEF Ids
<1>4. Ids(eps) \in [1 .. Len(eps) -> Seq(Nat)]
  BY <1>2, <1>3
<1>5. Ids(eps) \in Seq(Seq(Nat))
  BY <1>1, <1>4, SeqDef
<1>6. Len(Ids(eps)) = Len(eps)
  BY <1>1, <1>4, <1>5, LenProperties
<1>7. \A k \in 1 .. Len(eps) : Ids(eps)[k] = eps[k].id
  BY <1>3
<1>8. ToSet(Ids(eps)) = {Ids(eps)[k] : k \in 1 .. Len(eps)}
  BY <1>5, <1>6, ToSetOf
<1> QED BY <1>5, <1>6, <1>7, <1>8 DEF Refs

(* Known keeps references to episodes that are there.                        *)
LEMMA KnownRefs ==
  ASSUME NEW refs \in Refs, NEW eps \in Seq(EpisodeType)
  PROVE  Known(refs, eps) \in Refs /\ ToSet(Known(refs, eps)) \subseteq ToSet(Ids(eps))
<1> DEFINE S == {k \in DOMAIN refs : refs[k] \in ToSet(Ids(eps))}
<1>1. S \subseteq 1 .. Len(refs)
  BY LenProperties DEF Refs
<1>2. Known(refs, eps) = Chosen(refs, S)
  BY DEF Known
<1>3. Chosen(refs, S) \in Refs /\ ToSet(Chosen(refs, S)) = {refs[k] : k \in S}
  <2> HIDE DEF S
  <2> QED BY <1>1, ChosenMembers DEF Refs
<1> QED BY <1>2, <1>3

(* Without takes the removed references away and no other.                   *)
LEMMA WithoutRefs ==
  ASSUME NEW refs \in Refs, NEW removed
  PROVE  Without(refs, removed) \in Refs /\ ToSet(Without(refs, removed)) = ToSet(refs) \ removed
<1> DEFINE S == {k \in DOMAIN refs : refs[k] \notin removed}
<1>1. S \subseteq 1 .. Len(refs) /\ DOMAIN refs = 1 .. Len(refs)
  BY LenProperties DEF Refs
<1>2. Without(refs, removed) = Chosen(refs, S)
  BY DEF Without
<1>3. Chosen(refs, S) \in Refs /\ ToSet(Chosen(refs, S)) = {refs[k] : k \in S}
  <2> HIDE DEF S
  <2> QED BY <1>1, ChosenMembers DEF Refs
<1> QED BY <1>2, <1>3 DEF ToSet

(* Deduped keeps the first of each reference, and so all of them. *)
LEMMA DedupedRefs ==
  ASSUME NEW refs \in Refs
  PROVE  /\ Deduped(refs) \in Refs /\ ToSet(Deduped(refs)) = ToSet(refs)
         /\ \A i, j \in 1 .. Len(Deduped(refs)) : i # j => Deduped(refs)[i] # Deduped(refs)[j]
<1> DEFINE S == {k \in DOMAIN refs : \A j \in 1 .. k - 1 : refs[j] # refs[k]}
<1>1. S \subseteq 1 .. Len(refs) /\ DOMAIN refs = 1 .. Len(refs) /\ Len(refs) \in Nat
  BY LenProperties DEF Refs
<1>2. Deduped(refs) = Chosen(refs, S)
  BY DEF Deduped
<1>3. ASSUME NEW i \in 1 .. Len(refs) PROVE \E k \in S : refs[k] = refs[i]
  <2> DEFINE E == {k \in 1 .. Len(refs) : refs[k] = refs[i]}
  <2>1. E \subseteq Nat /\ i \in E
    OBVIOUS
  <2>2. PICK k \in E : \A j \in E : k <= j
    <3> HIDE DEF E
    <3> QED BY <2>1, SmallestOf
  <2>3. \A j \in 1 .. k - 1 : j \in 1 .. Len(refs) /\ ~(k <= j)
    BY <1>1
  <2>4. k \in S
    BY <1>1, <2>2, <2>3
  <2> QED BY <2>4
<1>4. ASSUME NEW i \in S, NEW j \in S, i < j PROVE refs[i] # refs[j]
  <2>1. i \in 1 .. j - 1
    BY <1>1, <1>4
  <2> QED BY <2>1
<1> HIDE DEF S
<1>5. Chosen(refs, S) \in Refs /\ ToSet(Chosen(refs, S)) = {refs[k] : k \in S}
  BY <1>1, ChosenMembers DEF Refs
<1>6. Picks(refs, S)
  BY <1>1, ChosenEntries DEF Refs
<1>7. ASSUME NEW i \in 1 .. Cardinality(S), NEW j \in 1 .. Cardinality(S), i < j
      PROVE  Chosen(refs, S)[i] # Chosen(refs, S)[j]
  BY <1>4, <1>6, <1>7 DEF Picks
<1>8. ASSUME NEW i \in 1 .. Cardinality(S), NEW j \in 1 .. Cardinality(S), i # j
      PROVE  Chosen(refs, S)[i] # Chosen(refs, S)[j]
  <2>1. i < j \/ j < i
    BY <1>6, <1>8 DEF Picks
  <2> QED BY <1>7, <2>1
<1>9. {refs[k] : k \in S} = {refs[k] : k \in 1 .. Len(refs)}
  BY <1>1, <1>3
<1>10. ToSet(Deduped(refs)) = ToSet(refs)
  BY <1>1, <1>2, <1>5, <1>9 DEF ToSet
<1>11. Len(Deduped(refs)) = Cardinality(S)
  BY <1>2, <1>6 DEF Picks
<1> QED BY <1>2, <1>5, <1>8, <1>10, <1>11

(* Replaced puts ids where id stood. *)
LEMMA ReplacedRefs ==
  ASSUME NEW refs \in Refs, NEW id \in Seq(Nat), NEW ids \in Refs
  PROVE  /\ Replaced(refs, id, ids) \in Refs
         /\ ToSet(Replaced(refs, id, ids)) =
              (ToSet(refs) \ {id}) \cup (IF id \in ToSet(refs) THEN ToSet(ids) ELSE {})
<1> DEFINE ss == [k \in DOMAIN refs |-> IF refs[k] = id THEN ids ELSE <<refs[k]>>]
           F == FlattenSeq(ss)
<1>1. /\ DOMAIN refs = 1 .. Len(refs) /\ Len(refs) \in Nat /\ ids \in Seq(Seq(Nat))
      /\ \A k \in 1 .. Len(refs) : refs[k] \in Seq(Nat)
  BY LenProperties, ElementOfSeq DEF Refs
<1>2. ss \in [1 .. Len(refs) -> Seq(Seq(Nat))]
  <2>1. \A k \in 1 .. Len(refs) : <<refs[k]>> \in Seq(Seq(Nat))
    BY <1>1
  <2> QED BY <1>1, <2>1
<1>3. ss \in Seq(Seq(Seq(Nat))) /\ Len(ss) = Len(refs)
  <2>1. ss \in Seq(Seq(Seq(Nat)))
    BY <1>1, <1>2, SeqDef
  <2> QED BY <1>1, <1>2, <2>1, LenProperties
<1>4. \A k \in 1 .. Len(refs) : ss[k] = IF refs[k] = id THEN ids ELSE <<refs[k]>>
  BY <1>1
<1>5. Replaced(refs, id, ids) = F
  BY DEF Replaced
<1> HIDE DEF ss
<1>6. F \in Seq(Seq(Nat)) /\ ToSet(F) = UNION {ToSet(ss[i]) : i \in 1 .. Len(refs)}
  BY <1>3, FlattenMembers
<1> HIDE DEF F
<1>7. \A k \in 1 .. Len(refs) :
        ToSet(ss[k]) = IF refs[k] = id THEN ToSet(ids) ELSE {refs[k]}
  <2>1. \A x : ToSet(<<x>>) = {x}
    BY DEF ToSet
  <2> QED BY <1>4, <2>1
<1>8. ToSet(refs) = {refs[k] : k \in 1 .. Len(refs)}
  BY <1>1 DEF ToSet
<1> DEFINE U == (ToSet(refs) \ {id}) \cup (IF id \in ToSet(refs) THEN ToSet(ids) ELSE {})
<1>9. ToSet(F) \subseteq U
  <2>1. \A i \in 1 .. Len(refs) : ToSet(ss[i]) \subseteq U
    BY <1>7, <1>8
  <2> HIDE DEF F, U
  <2> QED BY <1>6, <2>1
<1>10. U \subseteq ToSet(F)
  BY <1>6, <1>7, <1>8
<1>11. ToSet(F) = U
  BY <1>9, <1>10
<1>14. Replaced(refs, id, ids) \in Refs
  BY <1>5, <1>6 DEF Refs
<1> QED BY <1>5, <1>11, <1>14

-----------------------------------------------------------------------------
(* Normalising a draft.                                                        *)

(* The fields of an episode.                                                 *)
LEMMA EpisodeAt ==
  ASSUME NEW eps \in Seq(EpisodeType), NEW k \in 1 .. Len(eps)
  PROVE  /\ eps[k] \in EpisodeType /\ eps[k].id \in Seq(Nat) /\ eps[k].block \in Nat
         /\ eps[k].first \in 0 .. N /\ eps[k].last \in 0 .. N
         /\ eps[k].mode \in BlockTypes /\ eps[k].kind \in ContentKinds
         /\ eps[k].marks \in SUBSET Marks
<1>1. eps[k] \in EpisodeType
  BY ElementOfSeq
<1> QED BY <1>1 DEF EpisodeType

(* The fields of a block.                                                    *)
LEMMA BlockAt ==
  ASSUME NEW bks \in Seq(BlockType), NEW b \in 1 .. Len(bks)
  PROVE  /\ bks[b] \in BlockType /\ bks[b].id \in Nat
         /\ bks[b].type \in BlockTypes /\ bks[b].episodes \in Refs
<1>1. bks[b] \in BlockType
  BY ElementOfSeq
<1> QED BY <1>1 DEF BlockType

(* Dropping repeated ids leaves something of what was not empty.             *)
LEMMA FirstOfEachIdKeeps ==
  ASSUME NEW T, NEW items \in Seq(T)
  PROVE  /\ FirstOfEachId(items) \in Seq(T)
         /\ items # <<>> => FirstOfEachId(items) # <<>>
<1> DEFINE S == {k \in DOMAIN items : \A j \in 1 .. k - 1 : items[j].id # items[k].id}
<1>1. S \subseteq 1 .. Len(items) /\ DOMAIN items = 1 .. Len(items) /\ Len(items) \in Nat
  BY LenProperties
<1>2. FirstOfEachId(items) = Chosen(items, S)
  BY DEF FirstOfEachId
<1>3. items # <<>> => 1 \in S
  <2>1. items # <<>> => 1 \in DOMAIN items
    BY <1>1, EmptySeq
  <2> QED BY <2>1
<1> HIDE DEF S
<1>4. Chosen(items, S) \in Seq(T) /\ ToSet(Chosen(items, S)) = {items[k] : k \in S}
  BY <1>1, ChosenMembers
<1>5. items # <<>> => ToSet(Chosen(items, S)) # {}
  BY <1>3, <1>4
<1>6. ToSet(<<>>) = {}
  BY DEF ToSet
<1> QED BY <1>2, <1>4, <1>5, <1>6

(* Sorting loses no episode and adds none.                                   *)
LEMMA SortedByStartKeeps ==
  ASSUME NEW eps \in Seq(EpisodeType)
  PROVE  SortedByStart(eps) \in Seq(EpisodeType) /\ ToSet(SortedByStart(eps)) = ToSet(eps)
<1> DEFINE At(m) == {k \in DOMAIN eps : eps[k].first = m}
           ss == [m \in 1 .. N |-> StartingAt(eps, m)]
<1>0. DOMAIN eps = 1 .. Len(eps) /\ ToSet(eps) = {eps[k] : k \in 1 .. Len(eps)} /\ N \in Nat
  BY LenProperties, ToSetOf, MicroEventAt
<1>1. ASSUME NEW m
      PROVE  /\ StartingAt(eps, m) \in Seq(EpisodeType)
             /\ ToSet(StartingAt(eps, m)) = {eps[k] : k \in At(m)}
  <2>1. At(m) \subseteq 1 .. Len(eps)
    BY <1>0
  <2> HIDE DEF At
  <2>2. Chosen(eps, At(m)) \in Seq(EpisodeType) /\ ToSet(Chosen(eps, At(m))) = {eps[k] : k \in At(m)}
    BY <2>1, ChosenMembers
  <2> QED BY <2>2 DEF StartingAt, At
<1>2. ss \in Seq(Seq(EpisodeType)) /\ Len(ss) = N
  <2>1. ss \in [1 .. N -> Seq(EpisodeType)]
    BY <1>1
  <2> QED BY <1>0, <2>1, SequenceOf
<1>3. \A m \in 1 .. N : ss[m] = StartingAt(eps, m)
  OBVIOUS
<1> DEFINE F == FlattenSeq(ss)
           Z == StartingAt(eps, 0)
<1> HIDE DEF ss
<1>4. F \in Seq(EpisodeType) /\ ToSet(F) = UNION {ToSet(ss[m]) : m \in 1 .. N}
  BY <1>2, FlattenMembers
<1>5. Z \in Seq(EpisodeType) /\ ToSet(Z) = {eps[k] : k \in At(0)}
  BY <1>1
<1>6. SortedByStart(eps) = F \o Z
  BY DEF SortedByStart, ss
<1> HIDE DEF F, Z
<1>7. F \o Z \in Seq(EpisodeType) /\ ToSet(F \o Z) = ToSet(F) \cup ToSet(Z)
  BY <1>4, <1>5, ConcatMembers
<1>8. ASSUME NEW k \in 1 .. Len(eps) PROVE eps[k] \in ToSet(F) \cup ToSet(Z)
  <2>1. eps[k].first \in 0 .. N
    BY EpisodeAt
  <2>2. CASE eps[k].first = 0
    BY <1>0, <1>5, <2>2
  <2>3. CASE eps[k].first # 0
    <3>1. PICK m \in 1 .. N : m = eps[k].first
      BY <1>0, <2>1, <2>3
    <3>2. eps[k] \in ToSet(ss[m])
      BY <1>0, <1>1, <1>3, <3>1
    <3> QED BY <1>4, <3>2
  <2> QED BY <2>2, <2>3
<1>9. ToSet(F) \subseteq ToSet(eps)
  <2>1. \A m \in 1 .. N : ToSet(ss[m]) \subseteq ToSet(eps)
    BY <1>0, <1>1, <1>3
  <2> QED BY <1>4, <2>1
<1>10. ToSet(Z) \subseteq ToSet(eps)
  BY <1>0, <1>5
<1>11. ToSet(eps) \subseteq ToSet(F) \cup ToSet(Z)
  BY <1>0, <1>8
<1> QED BY <1>6, <1>7, <1>9, <1>10, <1>11

(* Sanitised blocks are blocks.                                              *)
LEMMA SanitizedBlocksType ==
  ASSUME NEW bks \in Seq(BlockType), NEW eps \in Seq(EpisodeType)
  PROVE  SanitizedBlocks(bks, eps) \in Seq(BlockType)
<1> DEFINE unique == FirstOfEachId(bks)
<1>1. unique \in Seq(BlockType)
  BY FirstOfEachIdKeeps
<1>2. SanitizedBlocks(bks, eps) = [k \in DOMAIN unique |->
                                    [unique[k] EXCEPT !.episodes = Known(@, eps)]]
  BY DEF SanitizedBlocks
<1> HIDE DEF unique
<1>3. DOMAIN unique = 1 .. Len(unique) /\ Len(unique) \in Nat
  BY <1>1, LenProperties
<1>4. ASSUME NEW k \in 1 .. Len(unique)
      PROVE  [unique[k] EXCEPT !.episodes = Known(@, eps)] \in BlockType
  <2>1. unique[k] \in BlockType /\ unique[k].episodes \in Refs
    BY <1>1, BlockAt
  <2>2. Known(unique[k].episodes, eps) \in Refs
    BY <2>1, KnownRefs
  <2> QED BY <2>1, <2>2 DEF BlockType
<1>5. SanitizedBlocks(bks, eps) \in [1 .. Len(unique) -> BlockType]
  BY <1>2, <1>3, <1>4
<1> QED BY <1>3, <1>5, SequenceOf

(* What a topic must be like: its references name episodes of the composition,  *)
(* and there is one at least; or there are two different ones.                  *)
Resolves(tps, ids) == \A t \in 1 .. Len(tps) : tps[t] # <<>> /\ ToSet(tps[t]) \subseteq ids
Plural(tps) == \A t \in 1 .. Len(tps) : \E a, b \in ToSet(tps[t]) : a # b

(* WithTwo keeps the lists of two references or more, and those only.        *)
LEMMA WithTwoKeeps ==
  ASSUME NEW tps \in Seq(Refs)
  PROVE  /\ WithTwo(tps) \in Seq(Refs)
         /\ \A t \in 1 .. Len(WithTwo(tps)) :
              Len(WithTwo(tps)[t]) >= 2 /\ \E k \in 1 .. Len(tps) : WithTwo(tps)[t] = tps[k]
<1> DEFINE S == {t \in DOMAIN tps : Len(tps[t]) >= 2}
<1>1. S \subseteq 1 .. Len(tps) /\ \A k \in S : Len(tps[k]) >= 2
  BY LenProperties
<1>2. WithTwo(tps) = Chosen(tps, S)
  BY DEF WithTwo
<1> HIDE DEF S
<1>3. Chosen(tps, S) \in Seq(Refs) /\ ToSet(Chosen(tps, S)) = {tps[k] : k \in S}
  BY <1>1, ChosenMembers
<1>4. \A t \in 1 .. Len(WithTwo(tps)) : WithTwo(tps)[t] \in ToSet(WithTwo(tps))
  <2>1. WithTwo(tps) \in Seq(Refs)
    BY <1>2, <1>3
  <2>2. ToSet(WithTwo(tps)) = {WithTwo(tps)[t] : t \in 1 .. Len(WithTwo(tps))}
    BY <2>1, ToSetOf
  <2> QED BY <2>2
<1> QED BY <1>1, <1>2, <1>3, <1>4

(* Normalised topics name episodes that are there, at least two.             *)
LEMMA NormalizedTopicsResolve ==
  ASSUME NEW tps \in Seq(Refs), NEW eps \in Seq(EpisodeType)
  PROVE  /\ NormalizedTopics(tps, eps) \in Seq(Refs)
         /\ Resolves(NormalizedTopics(tps, eps), ToSet(Ids(eps)))
<1> DEFINE known == [t \in DOMAIN tps |-> Known(tps[t], eps)]
<1>1. DOMAIN tps = 1 .. Len(tps) /\ Len(tps) \in Nat /\ \A t \in 1 .. Len(tps) : tps[t] \in Refs
  BY LenProperties, ElementOfSeq
<1>2. \A t \in 1 .. Len(tps) :
        Known(tps[t], eps) \in Refs /\ ToSet(Known(tps[t], eps)) \subseteq ToSet(Ids(eps))
  BY <1>1, KnownRefs
<1>3. known \in [1 .. Len(tps) -> Refs] /\ \A t \in 1 .. Len(tps) : known[t] = Known(tps[t], eps)
  BY <1>1, <1>2
<1>4. NormalizedTopics(tps, eps) = WithTwo(known)
  BY DEF NormalizedTopics
<1> HIDE DEF known
<1>5. known \in Seq(Refs) /\ Len(known) = Len(tps)
  BY <1>1, <1>3, SequenceOf
<1>6. /\ WithTwo(known) \in Seq(Refs)
      /\ \A t \in 1 .. Len(WithTwo(known)) :
           Len(WithTwo(known)[t]) >= 2 /\ \E k \in 1 .. Len(known) : WithTwo(known)[t] = known[k]
  BY <1>5, WithTwoKeeps
<1>7. ASSUME NEW t \in 1 .. Len(WithTwo(known))
      PROVE  WithTwo(known)[t] # <<>> /\ ToSet(WithTwo(known)[t]) \subseteq ToSet(Ids(eps))
  <2>1. Len(WithTwo(known)[t]) >= 2
    BY <1>6
  <2>2. WithTwo(known)[t] # <<>>
    BY <2>1
  <2>3. PICK k \in 1 .. Len(known) : WithTwo(known)[t] = known[k]
    BY <1>6
  <2> QED BY <1>2, <1>3, <1>5, <2>2, <2>3
<1> QED BY <1>4, <1>6, <1>7 DEF Resolves

(* The fields of a composition, and the positions of each.                   *)
LEMMA CompositionFields ==
  ASSUME NEW comp \in CompositionType
  PROVE  /\ comp.episodes \in Seq(EpisodeType) /\ comp.blocks \in Seq(BlockType)
         /\ comp.topics \in Seq(Refs)
         /\ DOMAIN comp.episodes = 1 .. Len(comp.episodes) /\ Len(comp.episodes) \in Nat
         /\ DOMAIN comp.blocks = 1 .. Len(comp.blocks) /\ Len(comp.blocks) \in Nat
         /\ DOMAIN comp.topics = 1 .. Len(comp.topics) /\ Len(comp.topics) \in Nat
<1>1. comp.episodes \in Seq(EpisodeType) /\ comp.blocks \in Seq(BlockType) /\ comp.topics \in Seq(Refs)
  BY DEF CompositionType
<1> QED BY <1>1, LenProperties

(* A normalised draft has an episode, and its topics resolve.                *)
LEMMA NormalizedDraft ==
  ASSUME NEW raw \in CompositionType, raw.episodes # <<>>
  PROVE  /\ Normalized(raw) \in CompositionType /\ Normalized(raw).episodes # <<>>
         /\ Resolves(Normalized(raw).topics, ToSet(Ids(Normalized(raw).episodes)))
<1> DEFINE first == FirstOfEachId(raw.episodes)
           eps == SortedByStart(first)
<1>1. raw.episodes \in Seq(EpisodeType) /\ raw.blocks \in Seq(BlockType) /\ raw.topics \in Seq(Refs)
  BY CompositionFields
<1>2. first \in Seq(EpisodeType) /\ first # <<>>
  BY <1>1, FirstOfEachIdKeeps
<1> HIDE DEF first
<1>3. eps \in Seq(EpisodeType) /\ ToSet(eps) = ToSet(first)
  BY <1>2, SortedByStartKeeps
<1>4. Normalized(raw) = [episodes |-> eps, blocks |-> SanitizedBlocks(raw.blocks, eps),
                         topics |-> NormalizedTopics(raw.topics, eps)]
  BY DEF Normalized, first
<1> HIDE DEF eps
<1>5. eps # <<>>
  <2>1. ToSet(first) # {} /\ ToSet(<<>>) = {}
    BY <1>2, ToSetOf DEF ToSet
  <2> QED BY <1>3, <2>1
<1>6. SanitizedBlocks(raw.blocks, eps) \in Seq(BlockType)
  BY <1>1, <1>3, SanitizedBlocksType
<1>7. /\ NormalizedTopics(raw.topics, eps) \in Seq(Refs)
      /\ Resolves(NormalizedTopics(raw.topics, eps), ToSet(Ids(eps)))
  BY <1>1, <1>3, NormalizedTopicsResolve
<1> QED BY <1>3, <1>4, <1>5, <1>6, <1>7 DEF CompositionType

-----------------------------------------------------------------------------
(* Cutting a range into parts.                                                 *)

(* A range of micro-events with the id and the block its parts take over. *)
Repairable(target) ==
  /\ target.id \in Seq(Nat) /\ target.block \in Nat
  /\ target.first \in 1 .. N /\ target.last \in 1 .. N /\ target.first <= target.last

(* The stretches of a target lie among the micro-events and are not          *)
(* reversed.                                                                 *)
LEMMA StretchesOf ==
  ASSUME NEW target, Repairable(target), NEW cuts, cuts \subseteq target.first .. target.last - 1
  PROVE  \E n \in Nat \ {0} :
           /\ DOMAIN Stretches(target, cuts) = 1 .. n
           /\ \A k \in 1 .. n :
                /\ Stretches(target, cuts)[k].first \in 1 .. N
                /\ Stretches(target, cuts)[k].last \in 1 .. N
                /\ Stretches(target, cuts)[k].first <= Stretches(target, cuts)[k].last
<1> DEFINE S == cuts \cup {target.last}
           n == Cardinality(S)
           ends == InOrder(S)
           from == target.first
           to == target.last
<1>1. N \in Nat /\ from \in 1 .. N /\ to \in 1 .. N /\ from <= to
  BY MicroEventAt DEF Repairable
<1> HIDE DEF from, to
<1>2. S \subseteq from .. to
  <2>1. cuts \subseteq from .. to - 1
    BY DEF from, to
  <2>2. S = cuts \cup {to}
    BY DEF to
  <2> HIDE DEF S
  <2> QED BY <1>1, <2>1, <2>2
<1>3. S \subseteq Nat /\ IsFiniteSet(S) /\ S # {}
  <2>1. IsFiniteSet(from .. to)
    BY <1>1, FS_Interval
  <2>2. S # {}
    OBVIOUS
  <2> HIDE DEF S
  <2>3. IsFiniteSet(S)
    BY <1>2, <2>1, FS_Subset
  <2> QED BY <1>1, <1>2, <2>2, <2>3
<1> HIDE DEF S
<1>4. /\ n \in Nat /\ DOMAIN ends = 1 .. n /\ \A k \in 1 .. n : ends[k] \in S
      /\ \A k, m \in 1 .. n : k < m => ends[k] < ends[m]
  BY <1>3, InOrderLists
<1>5. n # 0
  BY <1>3, FS_EmptySet
<1>6. Stretches(target, cuts) =
        [k \in DOMAIN ends |-> [first |-> IF k = 1 THEN from ELSE ends[k - 1] + 1, last |-> ends[k]]]
  BY DEF Stretches, from, S
<1> HIDE DEF n, ends
<1>7. ASSUME NEW k \in 1 .. n
      PROVE  LET first == IF k = 1 THEN from ELSE ends[k - 1] + 1
             IN  first \in 1 .. N /\ ends[k] \in 1 .. N /\ first <= ends[k]
  <2>1. ends[k] \in from .. to
    BY <1>2, <1>4
  <2>2. CASE k = 1
    BY <1>1, <2>1, <2>2
  <2>3. CASE k # 1
    <3>1. PICK m \in 1 .. n : m = k - 1
      BY <1>4, <2>3
    <3>2. ends[m] \in from .. to /\ ends[m] < ends[k]
      <4>1. m < k
        BY <3>1
      <4> QED BY <1>2, <1>4, <4>1
    <3> QED BY <1>1, <2>1, <2>3, <3>1, <3>2
  <2> QED BY <2>2, <2>3
<1>8. DOMAIN Stretches(target, cuts) = 1 .. n
  BY <1>4, <1>6
<1>9. ASSUME NEW k \in 1 .. n
      PROVE  /\ Stretches(target, cuts)[k].first \in 1 .. N
             /\ Stretches(target, cuts)[k].last \in 1 .. N
             /\ Stretches(target, cuts)[k].first <= Stretches(target, cuts)[k].last
  BY <1>4, <1>6, <1>7
<1> QED BY <1>4, <1>5, <1>8, <1>9

(* The parts that replace an episode: they are valid, and the first one keeps   *)
(* its id.                                                                      *)
Replacement(parts, id) ==
  /\ parts \in Seq(EpisodeType) /\ parts # <<>> /\ parts[1].id = id
  /\ \A k \in 1 .. Len(parts) : Valid(parts[k])

(* The parts of a split replace its target: the first takes over the id.     *)
LEMMA PartsOfTarget ==
  ASSUME NEW target, Repairable(target), NEW cuts \in Cuts(target),
         NEW looks \in [DOMAIN Stretches(target, cuts) -> Looking]
  PROVE  Replacement(PartsOf(target, cuts, looks), target.id)
<1> DEFINE of == Stretches(target, cuts)
           part(k) == [id |-> SplitId(target.id, k), block |-> target.block,
                       first |-> of[k].first, last |-> of[k].last,
                       mode |-> looks[k].mode, kind |-> looks[k].kind, marks |-> looks[k].marks]
<1>1. PICK n \in Nat \ {0} :
        /\ DOMAIN of = 1 .. n
        /\ \A k \in 1 .. n :
             of[k].first \in 1 .. N /\ of[k].last \in 1 .. N /\ of[k].first <= of[k].last
  <2>1. cuts \subseteq target.first .. target.last - 1
    BY DEF Cuts
  <2> QED BY <2>1, StretchesOf
<1>2. PartsOf(target, cuts, looks) = [k \in DOMAIN of |-> part(k)]
  BY DEF PartsOf
<1>3. \A k \in 1 .. n : looks[k] \in Looking
  BY <1>1
<1> HIDE DEF of
<1>4. ASSUME NEW k \in 1 .. n PROVE SplitId(target.id, k) \in Seq(Nat)
  <2>1. target.id \in Seq(Nat) /\ <<2, k>> \in Seq(Nat)
    BY DEF Repairable
  <2>2. target.id \o <<2, k>> \in Seq(Nat)
    BY <2>1, ConcatProperties
  <2> QED BY <2>1, <2>2 DEF SplitId
<1>5. ASSUME NEW k \in 1 .. n PROVE part(k) \in EpisodeType /\ Valid(part(k))
  <2>1. of[k].first \in 1 .. N /\ of[k].last \in 1 .. N /\ of[k].first <= of[k].last /\ N \in Nat
    BY <1>1, MicroEventAt
  <2>2. of[k].first \in 0 .. N /\ of[k].last \in 0 .. N
    BY <2>1
  <2>3. target.block \in Nat
    BY DEF Repairable
  <2>4. looks[k].mode \in BlockTypes /\ looks[k].kind \in ContentKinds /\ looks[k].marks \in SUBSET Marks
    BY <1>3 DEF Looking
  <2> QED BY <1>4, <2>1, <2>2, <2>3, <2>4 DEF EpisodeType, Valid
<1>6. [k \in DOMAIN of |-> part(k)] \in [1 .. n -> EpisodeType]
  BY <1>1, <1>5
<1>7. PartsOf(target, cuts, looks) \in Seq(EpisodeType) /\ Len(PartsOf(target, cuts, looks)) = n
  BY <1>2, <1>6, SequenceOf
<1>8. \A k \in 1 .. n : PartsOf(target, cuts, looks)[k] = part(k)
  BY <1>1, <1>2
<1>9. part(1).id = target.id
  BY DEF SplitId
<1>10. PartsOf(target, cuts, looks)[1].id = target.id
  <2> HIDE DEF part
  <2> QED BY <1>8, <1>9
<1>11. PartsOf(target, cuts, looks) # <<>>
  BY <1>7, EmptySeq
<1> QED BY <1>5, <1>7, <1>8, <1>10, <1>11 DEF Replacement

(* The chunks of the repair without the model replace its target.            *)
LEMMA ChunksOfTarget ==
  ASSUME NEW target, Repairable(target), NEW index \in Nat
  PROVE  Replacement(ChunksOf(target, index), target.id)
<1> DEFINE full == {m \in target.first .. target.last - 1 : (m - target.first + 1) % ChunkSize = 0}
           of == Stretches(target, full)
           part(k) == ChunkOf(target, index, k, of[k])
<1>1. PICK n \in Nat \ {0} :
        /\ DOMAIN of = 1 .. n
        /\ \A k \in 1 .. n :
             of[k].first \in 1 .. N /\ of[k].last \in 1 .. N /\ of[k].first <= of[k].last
  <2>1. full \subseteq target.first .. target.last - 1
    OBVIOUS
  <2> HIDE DEF full
  <2> QED BY <2>1, StretchesOf
<1>2. ChunksOf(target, index) = [k \in DOMAIN of |-> part(k)]
  BY DEF ChunksOf
<1> HIDE DEF of
<1>3. N \in Nat /\ \A m \in 1 .. N : Micro[m].marks \in SUBSET Marks
  BY MicroEventAt DEF MicroEvents
<1>4. ASSUME NEW S, NEW known, NEW d \in known PROVE Common(S, known, d) \in known
  <2>1. CASE Cardinality(S) = 1 /\ S \subseteq known
    <3>1. S # {}
      BY <2>1, FS_EmptySet
    <3>2. (CHOOSE v \in S : TRUE) \in S
      BY <3>1
    <3> QED BY <2>1, <3>2 DEF Common
  <2>2. CASE ~(Cardinality(S) = 1 /\ S \subseteq known)
    BY <2>2 DEF Common
  <2> QED BY <2>1, <2>2
<1>5. ASSUME NEW k \in 1 .. n PROVE part(k) \in EpisodeType /\ Valid(part(k))
  <2> DEFINE id == IF k = 1 THEN target.id ELSE target.id \o <<3, index, k>>
             modes == {Micro[m].mode : m \in of[k].first .. of[k].last}
             kinds == {Micro[m].kind : m \in of[k].first .. of[k].last}
             marks == UNION {Micro[m].marks : m \in of[k].first .. of[k].last}
  <2>1. of[k].first \in 1 .. N /\ of[k].last \in 1 .. N /\ of[k].first <= of[k].last
    BY <1>1
  <2>2. of[k].first \in 0 .. N /\ of[k].last \in 0 .. N
    BY <1>3, <2>1
  <2>4. marks \in SUBSET Marks
    BY <1>3, <2>1
  <2>5. id \in Seq(Nat)
    <3>1. target.id \in Seq(Nat) /\ <<3, index, k>> \in Seq(Nat)
      BY DEF Repairable
    <3>2. target.id \o <<3, index, k>> \in Seq(Nat)
      BY <3>1, ConcatProperties
    <3> QED BY <3>1, <3>2
  <2>6. target.block \in Nat
    BY DEF Repairable
  <2>7. part(k) = [id |-> id, block |-> target.block, first |-> of[k].first, last |-> of[k].last,
                   mode |-> Common(modes, BlockTypes, "MIXED"),
                   kind |-> Common(kinds, ContentKinds, "OTHER"), marks |-> marks]
    BY DEF ChunkOf
  <2> HIDE DEF id, modes, kinds, marks, part
  <2>8. Common(modes, BlockTypes, "MIXED") \in BlockTypes
    <3>1. "MIXED" \in BlockTypes
      BY DEF BlockTypes
    <3> QED BY ONLY <1>4, <3>1
  <2>9. Common(kinds, ContentKinds, "OTHER") \in ContentKinds
    <3>1. "OTHER" \in ContentKinds
      BY DEF ContentKinds
    <3> QED BY ONLY <1>4, <3>1
  <2> QED BY <2>1, <2>2, <2>4, <2>5, <2>6, <2>7, <2>8, <2>9 DEF EpisodeType, Valid
<1>6. part(1).id = target.id
  BY DEF ChunkOf
<1> HIDE DEF part
<1>7. [k \in DOMAIN of |-> part(k)] \in [1 .. n -> EpisodeType]
  BY <1>1, <1>5
<1>8. ChunksOf(target, index) \in Seq(EpisodeType) /\ Len(ChunksOf(target, index)) = n
  BY <1>2, <1>7, SequenceOf
<1>9. \A k \in 1 .. n : ChunksOf(target, index)[k] = part(k)
  BY <1>1, <1>2
<1>10. ChunksOf(target, index)[1].id = target.id
  BY <1>6, <1>9
<1>11. ChunksOf(target, index) # <<>>
  BY <1>8, EmptySeq
<1> QED BY <1>5, <1>8, <1>9, <1>10, <1>11 DEF Replacement

-----------------------------------------------------------------------------
(* Replacing an episode by its parts.                                          *)

(* Blocks whose lists of episodes are exchanged are blocks.                  *)
LEMMA BlocksWith ==
  ASSUME NEW bks \in Seq(BlockType), NEW f \in [1 .. Len(bks) -> Refs]
  PROVE  [b \in DOMAIN bks |-> [bks[b] EXCEPT !.episodes = f[b]]] \in Seq(BlockType)
<1>1. DOMAIN bks = 1 .. Len(bks) /\ Len(bks) \in Nat
  BY LenProperties
<1>2. ASSUME NEW b \in 1 .. Len(bks) PROVE [bks[b] EXCEPT !.episodes = f[b]] \in BlockType
  <2>1. bks[b] \in BlockType /\ f[b] \in Refs
    BY BlockAt
  <2> QED BY <2>1 DEF BlockType
<1>3. [b \in DOMAIN bks |-> [bks[b] EXCEPT !.episodes = f[b]]] \in [1 .. Len(bks) -> BlockType]
  BY <1>1, <1>2
<1> QED BY <1>1, <1>3, SequenceOf

(* The parts of an episode keep its id, so a topic loses nothing. *)
LEMMA ReplacedTopic ==
  ASSUME NEW refs \in Refs, refs # <<>>, NEW id \in Seq(Nat), NEW ids \in Refs,
         ids # <<>>, ids[1] = id
  PROVE  LET new == Deduped(Replaced(refs, id, ids))
         IN  /\ new \in Refs /\ new # <<>> /\ ToSet(refs) \subseteq ToSet(new)
             /\ ToSet(new) \subseteq ToSet(refs) \cup (IF id \in ToSet(refs) THEN ToSet(ids) ELSE {})
<1> DEFINE r == Replaced(refs, id, ids)
           new == Deduped(r)
<1>1. /\ r \in Refs
      /\ ToSet(r) = (ToSet(refs) \ {id}) \cup (IF id \in ToSet(refs) THEN ToSet(ids) ELSE {})
  BY ReplacedRefs
<1> HIDE DEF r
<1>2. new \in Refs /\ ToSet(new) = ToSet(r)
  BY <1>1, DedupedRefs
<1>3. id \in ToSet(ids) /\ ToSet(refs) # {} /\ ToSet(<<>>) = {}
  <2>1. refs[1] \in ToSet(refs) /\ ids[1] \in ToSet(ids)
    BY ToSetOf DEF Refs
  <2>2. ToSet(<<>>) = {}
    BY DEF ToSet
  <2> QED BY <2>1, <2>2
<1> HIDE DEF new
<1>4. ToSet(refs) \subseteq ToSet(new)
  BY <1>1, <1>2, <1>3
<1>5. new # <<>>
  BY <1>3, <1>4
<1> QED BY <1>1, <1>2, <1>4, <1>5 DEF new, r

(* Splitting an episode keeps types and topics: what named it names a part.  *)
LEMMA SplitEpisodeKeeps ==
  ASSUME NEW comp \in CompositionType, comp.episodes # <<>>,
         NEW id \in Seq(Nat), NEW parts, Replacement(parts, id),
         Resolves(comp.topics, ToSet(Ids(comp.episodes)))
  PROVE  LET new == SplitEpisode(parts, comp)
         IN  /\ new \in CompositionType /\ new.episodes # <<>>
             /\ Resolves(new.topics, ToSet(Ids(new.episodes)))
             /\ Plural(comp.topics) => Plural(new.topics)
<1> DEFINE eps == comp.episodes
           bks == comp.blocks
           tps == comp.topics
           ids == Ids(parts)
           at(e) == IF e.id = id THEN parts ELSE <<e>>
           ss == [k \in DOMAIN eps |-> at(eps[k])]
           newEps == FlattenSeq(ss)
           newRefs == [b \in 1 .. Len(bks) |-> Replaced(bks[b].episodes, id, ids)]
           newBks == [b \in DOMAIN bks |-> [bks[b] EXCEPT !.episodes = Replaced(@, id, ids)]]
           newTps == [t \in DOMAIN tps |-> Deduped(Replaced(tps[t], id, ids))]
<1>1. /\ eps \in Seq(EpisodeType) /\ bks \in Seq(BlockType) /\ tps \in Seq(Refs)
      /\ DOMAIN eps = 1 .. Len(eps) /\ Len(eps) \in Nat
      /\ DOMAIN bks = 1 .. Len(bks) /\ Len(bks) \in Nat
      /\ DOMAIN tps = 1 .. Len(tps) /\ Len(tps) \in Nat
  BY CompositionFields
<1>2. parts \in Seq(EpisodeType) /\ parts # <<>> /\ parts[1].id = id
  BY DEF Replacement
<1>3. Len(parts) \in Nat \ {0} /\ eps # <<>>
  BY <1>2, EmptySeq
<1>4. /\ ids \in Refs /\ Len(ids) = Len(parts)
      /\ \A k \in 1 .. Len(parts) : ids[k] = parts[k].id
      /\ ToSet(ids) = {parts[k].id : k \in 1 .. Len(parts)}
  BY <1>2, IdsOf
<1>5. ids # <<>> /\ ids[1] = id
  <2>1. Len(ids) # 0 /\ 1 \in 1 .. Len(parts)
    BY <1>3, <1>4
  <2>2. ids # <<>>
    BY <2>1
  <2> QED BY <1>2, <1>4, <2>1, <2>2
<1>6. SplitEpisode(parts, comp) = [episodes |-> newEps, blocks |-> newBks, topics |-> newTps]
  <2>1. \A e : (IF e.id = parts[1].id THEN parts ELSE <<e>>) = at(e)
    BY <1>2
  <2> QED BY <1>2, <2>1 DEF SplitEpisode
<1> HIDE DEF eps, bks, tps, ids
<1>7. ss \in Seq(Seq(EpisodeType)) /\ Len(ss) = Len(eps)
  <2>1. ASSUME NEW k \in 1 .. Len(eps) PROVE at(eps[k]) \in Seq(EpisodeType)
    <3>1. eps[k] \in EpisodeType
      BY <1>1, EpisodeAt
    <3>2. <<eps[k]>> \in Seq(EpisodeType)
      BY <3>1
    <3> QED BY <1>2, <3>2
  <2>2. ss \in [1 .. Len(eps) -> Seq(EpisodeType)]
    BY <1>1, <2>1
  <2> QED BY <1>1, <2>2, SequenceOf
<1>8. \A k \in 1 .. Len(eps) : ss[k] = at(eps[k])
  BY <1>1
<1> HIDE DEF ss
<1>9. newEps \in Seq(EpisodeType) /\ ToSet(newEps) = UNION {ToSet(ss[k]) : k \in 1 .. Len(eps)}
  BY <1>7, FlattenMembers
<1> HIDE DEF newEps
<1>10. /\ ToSet(Ids(newEps)) = {newEps[k].id : k \in 1 .. Len(newEps)}
       /\ ToSet(newEps) = {newEps[k] : k \in 1 .. Len(newEps)}
       /\ ToSet(Ids(eps)) = {eps[k].id : k \in 1 .. Len(eps)}
       /\ ToSet(parts) = {parts[k] : k \in 1 .. Len(parts)}
  BY <1>1, <1>2, <1>9, IdsOf, ToSetOf
<1>11. \A e \in ToSet(newEps) : e.id \in ToSet(Ids(newEps))
  BY <1>10
<1>12. ASSUME NEW k \in 1 .. Len(eps)
       PROVE  IF eps[k].id = id THEN ToSet(parts) \subseteq ToSet(newEps) ELSE eps[k] \in ToSet(newEps)
  <2>1. ToSet(ss[k]) \subseteq ToSet(newEps)
    BY <1>9
  <2>2. \A x : x \in ToSet(<<x>>)
    BY DEF ToSet
  <2> QED BY <1>8, <2>1, <2>2
<1>13. newEps # <<>>
  <2>1. 1 \in 1 .. Len(eps) /\ parts[1] \in ToSet(parts)
    BY <1>1, <1>2, <1>3, EmptySeq, ToSetOf
  <2>2. ToSet(newEps) # {}
    BY <1>12, <2>1
  <2>3. ToSet(<<>>) = {}
    BY DEF ToSet
  <2> QED BY <2>2, <2>3
<1>14. newBks \in Seq(BlockType)
  <2>1. ASSUME NEW b \in 1 .. Len(bks) PROVE Replaced(bks[b].episodes, id, ids) \in Refs
    <3>1. bks[b].episodes \in Refs
      BY <1>1, BlockAt
    <3> QED BY <1>4, <3>1, ReplacedRefs
  <2>2. newRefs \in [1 .. Len(bks) -> Refs]
    BY <2>1
  <2>3. newBks = [b \in DOMAIN bks |-> [bks[b] EXCEPT !.episodes = newRefs[b]]]
    BY <1>1
  <2> HIDE DEF newRefs, newBks
  <2> QED BY <1>1, <2>2, <2>3, BlocksWith
<1>15. ASSUME NEW t \in 1 .. Len(tps)
       PROVE  /\ newTps[t] \in Refs /\ newTps[t] # <<>> /\ ToSet(tps[t]) \subseteq ToSet(newTps[t])
              /\ ToSet(newTps[t]) \subseteq ToSet(Ids(newEps))
  <2>1. tps[t] \in Refs /\ tps[t] # <<>> /\ ToSet(tps[t]) \subseteq ToSet(Ids(eps))
    BY <1>1, ElementOfSeq DEF Resolves, tps, eps
  <2>2. newTps[t] = Deduped(Replaced(tps[t], id, ids))
    BY <1>1
  <2> HIDE DEF newTps
  <2>3. /\ newTps[t] \in Refs /\ newTps[t] # <<>> /\ ToSet(tps[t]) \subseteq ToSet(newTps[t])
        /\ ToSet(newTps[t]) \subseteq
             ToSet(tps[t]) \cup (IF id \in ToSet(tps[t]) THEN ToSet(ids) ELSE {})
    BY <1>4, <1>5, <2>1, <2>2, ReplacedTopic
  <2>4. id \in ToSet(tps[t]) => ToSet(ids) \subseteq ToSet(Ids(newEps))
    <3>1. SUFFICES ASSUME id \in ToSet(tps[t]) PROVE ToSet(ids) \subseteq ToSet(Ids(newEps))
      OBVIOUS
    <3>2. PICK k \in 1 .. Len(eps) : eps[k].id = id
      BY <1>10, <2>1, <3>1
    <3>3. ToSet(parts) \subseteq ToSet(newEps)
      BY <1>12, <3>2
    <3> QED BY <1>4, <1>10, <1>11, <3>3
  <2>5. ASSUME NEW x \in ToSet(tps[t]), x # id PROVE x \in ToSet(Ids(newEps))
    <3>1. PICK k \in 1 .. Len(eps) : eps[k].id = x
      BY <1>10, <2>1
    <3>2. eps[k] \in ToSet(newEps)
      BY <1>12, <2>5, <3>1
    <3> QED BY <1>11, <3>1, <3>2
  <2>6. id \in ToSet(ids)
    BY <1>4, <1>5, ToSetOf DEF Refs
  <2>7. ToSet(newTps[t]) \subseteq ToSet(Ids(newEps))
    BY <2>3, <2>4, <2>5, <2>6
  <2> QED BY <2>3, <2>7
<1>16. newTps \in Seq(Refs) /\ Len(newTps) = Len(tps)
  <2>1. newTps \in [1 .. Len(tps) -> Refs]
    BY <1>1, <1>15
  <2> HIDE DEF newTps
  <2> QED BY <1>1, <2>1, SequenceOf
<1> HIDE DEF newBks, newTps
<1>17. Resolves(newTps, ToSet(Ids(newEps)))
  BY <1>15, <1>16 DEF Resolves
<1>18. Plural(tps) => Plural(newTps)
  BY <1>15, <1>16 DEF Plural
<1>19. [episodes |-> newEps, blocks |-> newBks, topics |-> newTps] \in CompositionType
  BY <1>9, <1>14, <1>16 DEF CompositionType
<1> QED BY <1>6, <1>13, <1>17, <1>18, <1>19 DEF tps

-----------------------------------------------------------------------------
(* Covering a gap, an overlap or an invalid episode.                           *)

(* The smallest and the largest member of a set of numbers. *)
LEMMA MinOf ==
  ASSUME NEW S, S \subseteq Nat, S # {}
  PROVE  Min(S) \in S /\ \A y \in S : Min(S) <= y
<1>1. \E x \in S : \A y \in S : x <= y
  BY SmallestOf
<1> QED BY <1>1 DEF Min

(* The largest of some of the first n numbers.                               *)
LEMMA MaxOfInterval ==
  ASSUME NEW n \in Nat, NEW S, S \subseteq 1 .. n, S # {}
  PROVE  Max(S) \in S /\ \A y \in S : y <= Max(S)
<1> DEFINE T == {k \in Nat : \E x \in S : k = n - x}
<1>1. T \subseteq Nat /\ T # {}
  <2>1. PICK x \in S : TRUE
    OBVIOUS
  <2>2. n - x \in T
    BY <2>1
  <2> QED BY <2>2
<1> HIDE DEF T
<1>2. PICK k \in T : \A m \in T : k <= m
  BY <1>1, SmallestOf
<1>3. PICK x \in S : k = n - x
  BY <1>2 DEF T
<1>4. \A y \in S : y <= x
  <2> TAKE y \in S
  <2>1. n - y \in T
    BY DEF T
  <2> QED BY <1>2, <1>3, <2>1
<1>5. \E z \in S : \A y \in S : y <= z
  BY <1>4
<1>6. Max(S) = CHOOSE z \in S : \A y \in S : z >= y
  BY DEF Max
<1>7. \E z \in S : \A y \in S : z >= y
  <2>1. \A y \in S : x >= y
    BY <1>4
  <2> QED BY <2>1
<1>8. Max(S) \in S /\ \A y \in S : Max(S) >= y
  BY <1>6, <1>7
<1> QED BY <1>8

(* The larger of two numbers.                                                *)
LEMMA MaxOfTwo ==
  ASSUME NEW a \in Nat, NEW b \in Int
  PROVE  Max({a, b}) = IF a >= b THEN a ELSE b
<1> DEFINE S == {a, b}
           m == IF a >= b THEN a ELSE b
<1>1. m \in S /\ \A y \in S : m >= y
  OBVIOUS
<1>2. \A x \in S : (\A y \in S : x >= y) => x = m
  OBVIOUS
<1> HIDE DEF S, m
<1> QED BY <1>1, <1>2 DEF Max, S, m

(* Where episode k should start lies in 1 .. N + 1 if the ones before are in    *)
(* place.                                                                       *)
LEMMA StartInRange ==
  ASSUME NEW eps \in Seq(EpisodeType), NEW k \in 1 .. Len(eps) + 1,
         \A j \in 1 .. k - 1 : InPlace(eps, j)
  PROVE  StartOf(eps, k) \in 1 .. N + 1
<1>1. Len(eps) \in Nat /\ N \in Nat
  BY LenProperties, MicroEventAt
<1>2. CASE k = 1
  BY <1>1, <1>2 DEF StartOf
<1>3. CASE k # 1
  <2>1. k - 1 \in 1 .. k - 1
    BY <1>1, <1>3
  <2>2. eps[k - 1].last \in 1 .. N
    BY <2>1 DEF InPlace, Valid
  <2>3. StartOf(eps, k) = eps[k - 1].last + 1
    BY <1>3 DEF StartOf
  <2> QED BY <1>1, <2>2, <2>3
<1> QED BY <1>2, <1>3

(* A range of micro-events, and the episodes it replaces or is inserted before. *)
GoodRange(eps, range) ==
  /\ range.from \in 1 .. N /\ range.to \in 1 .. N /\ range.from <= range.to
  /\ \/ range.start \in 1 .. Len(eps) + 1 /\ range.stop = range.start - 1
     \/ range.start \in 1 .. Len(eps) /\ range.stop \in range.start .. Len(eps)

(* The three kinds of repair, at the first episode out of place (or the end): a *)
(* gap before it, an unknown range, which behind the end is put on the last     *)
(* micro-event, or an overlap with the episodes from the first one it reaches   *)
(* back to.                                                                     *)
AtGap(eps, k, range) ==
  /\ range.start = k /\ range.stop = k - 1 /\ range.from = StartOf(eps, k)
  /\ IF k = Len(eps) + 1 THEN range.to = N
     ELSE Valid(eps[k]) /\ range.to = eps[k].first - 1

AtUnknown(eps, k, range) ==
  /\ k \in 1 .. Len(eps) /\ ~Valid(eps[k])
  /\ range.start = k /\ range.stop = k
  /\ \/ range.from = StartOf(eps, k)
     \/ range.from = N /\ range.to = N /\ StartOf(eps, k) = N + 1

AtOverlap(eps, k, range) ==
  /\ k \in 1 .. Len(eps) /\ Valid(eps[k]) /\ eps[k].first < StartOf(eps, k)
  /\ range.start \in 1 .. k - 1 /\ range.stop = k /\ range.from = eps[range.start].first
  /\ range.to = IF eps[range.start].last >= eps[k].last THEN eps[range.start].last ELSE eps[k].last
  /\ eps[range.start].last >= eps[k].first
  /\ \A i \in 1 .. range.start - 1 : eps[i].last < eps[k].first

RepairCase(eps, k, range) ==
  /\ k \in 1 .. Len(eps) + 1
  /\ \A m \in 1 .. k - 1 : InPlace(eps, m)
  /\ k \in 1 .. Len(eps) => ~InPlace(eps, k)
  /\ AtGap(eps, k, range) \/ AtUnknown(eps, k, range) \/ AtOverlap(eps, k, range)

(* Unless all is covered, the range to repair is one of the three, and lies     *)
(* among the micro-events.                                                      *)
LEMMA RepairTargetIs ==
  ASSUME NEW eps \in Seq(EpisodeType), ~Covered(eps)
  PROVE  /\ GoodRange(eps, RepairTarget(eps))
         /\ \E k \in 1 .. Len(eps) + 1 : RepairCase(eps, k, RepairTarget(eps))
<1> DEFINE M == Misplaced(eps)
           k == Min(M)
           r == RepairTarget(eps)
<1>1. /\ DOMAIN eps = 1 .. Len(eps) /\ Len(eps) \in Nat /\ N \in Nat \ {0}
      /\ \A j \in 1 .. Len(eps) : eps[j].first \in 0 .. N /\ eps[j].last \in 0 .. N
  BY LenProperties, MicroEventAt, EpisodeAt
<1>2. CASE M = {}
  <2>1. \A j \in 1 .. Len(eps) : InPlace(eps, j)
    BY <1>1, <1>2 DEF Misplaced
  <2> DEFINE e == Len(eps) + 1
  <2>2. StartOf(eps, e) \in 1 .. N + 1 /\ e \in 1 .. Len(eps) + 1 /\ e - 1 = Len(eps)
    <3>1. Len(eps) + 1 \in 1 .. Len(eps) + 1 /\ Len(eps) + 1 - 1 = Len(eps)
      BY <1>1
    <3> QED BY <2>1, <3>1, StartInRange
  <2>3. StartOf(eps, e) # N + 1
    BY <1>2 DEF Covered
  <2>4. r = [from |-> StartOf(eps, e), to |-> N, start |-> e, stop |-> e - 1]
    BY <1>2 DEF RepairTarget, GapTarget
  <2>5. GoodRange(eps, r)
    BY <1>1, <2>2, <2>3, <2>4 DEF GoodRange
  <2>6. AtGap(eps, e, r)
    BY <2>4 DEF AtGap
  <2>7. e \notin 1 .. Len(eps)
    BY <1>1
  <2> HIDE DEF r, e
  <2>8. RepairCase(eps, e, r)
    BY <2>1, <2>2, <2>6, <2>7 DEF RepairCase, e
  <2> QED BY <2>2, <2>5, <2>8 DEF r
<1>3. CASE M # {}
  <2>1. M \subseteq 1 .. Len(eps) /\ M \subseteq Nat
    BY <1>1 DEF Misplaced
  <2>2. k \in M /\ \A j \in M : k <= j
    BY <1>3, <2>1, MinOf
  <2>3. k \in 1 .. Len(eps) /\ k \in 1 .. Len(eps) + 1 /\ k # Len(eps) + 1 /\ ~InPlace(eps, k)
    BY <1>1, <2>1, <2>2 DEF Misplaced
  <2>4. \A j \in 1 .. k - 1 : InPlace(eps, j)
    <3>1. \A j \in 1 .. k - 1 : j \in DOMAIN eps /\ ~(k <= j)
      BY <1>1, <2>3
    <3> QED BY <2>2, <3>1 DEF Misplaced
  <2> DEFINE from == StartOf(eps, k)
  <2>5. from \in 1 .. N + 1
    BY <2>3, <2>4, StartInRange
  <2>6. r = IF ~Valid(eps[k]) THEN InvalidTarget(eps, k)
            ELSE IF eps[k].first > from THEN GapTarget(eps, k, eps[k].first - 1)
            ELSE OverlapTarget(eps, k)
    BY <1>3 DEF RepairTarget
  <2> HIDE DEF k, r, M, from
  <2>7. CASE ~Valid(eps[k])
    <3> DEFINE low == Min({from, N})
               later == {j \in k + 1 .. Len(eps) : Valid(eps[j])}
               up == IF later = {} THEN N ELSE Max({low, eps[Min(later)].first - 1})
    <3>1. r = [from |-> low, to |-> up, start |-> k, stop |-> k]
      BY <2>6, <2>7 DEF InvalidTarget, from
    <3>2. low \in 1 .. N /\ (low = from \/ (low = N /\ from = N + 1))
      <4>1. {from, N} \subseteq Nat /\ {from, N} # {}
        BY <1>1, <2>5
      <4>2. Min({from, N}) \in {from, N} /\ Min({from, N}) <= N /\ Min({from, N}) <= from
        BY <4>1, MinOf
      <4> HIDE DEF low
      <4>3. low \in {from, N} /\ low <= N /\ low <= from
        BY <4>2 DEF low
      <4> QED BY <1>1, <2>5, <4>3
    <3>3. up \in low .. N
      <4>1. CASE later = {}
        BY <1>1, <3>2, <4>1
      <4>2. CASE later # {}
        <5>1. later \subseteq Nat
          BY <2>3
        <5> HIDE DEF low
        <5>2. Min(later) \in later
          BY <4>2, <5>1, MinOf
        <5>3. eps[Min(later)].first \in 1 .. N
          BY <5>2 DEF Valid
        <5>4. up = Max({low, eps[Min(later)].first - 1})
          BY <4>2
        <5> HIDE DEF up
        <5> DEFINE x == eps[Min(later)].first - 1
        <5>5. x \in Int /\ low \in Nat /\ x < N
          BY <1>1, <3>2, <5>3
        <5>6. up = IF low >= x THEN low ELSE x
          BY <5>4, <5>5, MaxOfTwo
        <5> HIDE DEF x
        <5> QED BY <1>1, <3>2, <5>5, <5>6
      <4> QED BY <4>1, <4>2
    <3> HIDE DEF low, up
    <3>4. GoodRange(eps, r)
      BY <1>1, <2>3, <3>1, <3>2, <3>3 DEF GoodRange
    <3>5. low = N => up = N
      BY <1>1, <3>2, <3>3
    <3>6. AtUnknown(eps, k, r)
      BY <2>3, <2>7, <3>1, <3>2, <3>5 DEF AtUnknown, from
    <3>7. RepairCase(eps, k, r)
      BY <2>3, <2>4, <3>6 DEF RepairCase
    <3> QED BY <2>3, <3>4, <3>7 DEF r
  <2>8. CASE Valid(eps[k]) /\ eps[k].first > from
    <3>1. r = [from |-> from, to |-> eps[k].first - 1, start |-> k, stop |-> k - 1]
      BY <2>6, <2>8 DEF GapTarget, from
    <3>2. eps[k].first \in 1 .. N
      BY <2>8 DEF Valid
    <3>3. GoodRange(eps, r)
      BY <1>1, <2>3, <2>5, <2>8, <3>1, <3>2 DEF GoodRange
    <3>4. AtGap(eps, k, r)
      BY <2>3, <2>8, <3>1 DEF AtGap, from
    <3>5. RepairCase(eps, k, r)
      BY <2>3, <2>4, <3>4 DEF RepairCase
    <3> QED BY <2>3, <3>3, <3>5 DEF r
  <2>9. CASE Valid(eps[k]) /\ ~(eps[k].first > from)
    <3> DEFINE O == {j \in 1 .. k - 1 : eps[j].last >= eps[k].first}
               f == FirstOverlapping(eps, k)
    <3>1. eps[k].first \in 1 .. N /\ eps[k].last \in 1 .. N /\ eps[k].first < from
      BY <1>1, <2>3, <2>5, <2>9 DEF InPlace, Valid, from
    <3>2. k # 1 /\ from = eps[k - 1].last + 1
      BY <2>3, <3>1 DEF from, StartOf
    <3>3. k - 1 \in O
      <4>1. k - 1 \in 1 .. Len(eps) /\ k - 1 \in 1 .. k - 1
        BY <1>1, <2>3, <3>2
      <4>2. eps[k - 1].last \in 0 .. N
        BY <1>1, <4>1
      <4> QED BY <1>1, <3>1, <3>2, <4>1, <4>2
    <3>4. f \in O /\ \A i \in O : f <= i
      <4>1. O \subseteq Nat
        BY <1>1, <2>3
      <4>2. Min(O) \in O /\ \A i \in O : Min(O) <= i
        BY <3>3, <4>1, MinOf
      <4> QED BY <4>2 DEF FirstOverlapping
    <3>5. f \in 1 .. k - 1 /\ eps[f].last >= eps[k].first
      BY <3>4
    <3>6. eps[f].first \in 1 .. N /\ eps[f].last \in 1 .. N /\ eps[f].first <= eps[f].last
      BY <2>4, <3>5 DEF InPlace, Valid
    <3>7. r = [from |-> eps[f].first, to |-> Max({eps[f].last, eps[k].last}), start |-> f, stop |-> k]
      BY <2>6, <2>9 DEF OverlapTarget
    <3>8. \A i \in 1 .. f - 1 : eps[i].last < eps[k].first
      <4> HIDE DEF f
      <4> TAKE i \in 1 .. f - 1
      <4>1. i \in 1 .. k - 1 /\ i \in 1 .. Len(eps) /\ ~(f <= i)
        BY <1>1, <2>3, <3>5
      <4>2. ~(eps[i].last >= eps[k].first)
        BY <3>4, <4>1
      <4> QED BY <1>1, <2>3, <4>1, <4>2
    <3> HIDE DEF f, O
    <3>9. Max({eps[f].last, eps[k].last}) =
            IF eps[f].last >= eps[k].last THEN eps[f].last ELSE eps[k].last
      BY <1>1, <3>1, <3>6, MaxOfTwo, SMTT(30)
    <3>10. /\ Max({eps[f].last, eps[k].last}) \in 1 .. N
          /\ eps[f].first <= Max({eps[f].last, eps[k].last})
      BY <1>1, <3>1, <3>6, <3>9
    <3>11. f \in 1 .. Len(eps) /\ k \in f .. Len(eps)
      BY <1>1, <2>3, <3>5
    <3>12. GoodRange(eps, r)
      BY <3>6, <3>7, <3>10, <3>11 DEF GoodRange
    <3>13. AtOverlap(eps, k, r)
      BY <2>3, <2>9, <3>1, <3>5, <3>7, <3>8, <3>9 DEF AtOverlap, from
    <3>14. RepairCase(eps, k, r)
      BY <2>3, <2>4, <3>13 DEF RepairCase
    <3> QED BY <2>3, <3>12, <3>14 DEF r
  <2> QED BY <2>7, <2>8, <2>9
<1> QED BY <1>2, <1>3

(* An id that a repair makes up is no episode's.                                *)
LEMMA RecoveryIdIsNew ==
  ASSUME NEW eps \in Seq(EpisodeType), NEW index \in Nat
  PROVE  /\ RecoveryId(eps, index) \in Seq(Nat) /\ Len(RecoveryId(eps, index)) = 2
         /\ RecoveryId(eps, index)[1] = 1
         /\ RecoveryId(eps, index) = <<1, RecoveryId(eps, index)[2]>>
         /\ \A q \in 1 .. Len(eps) : eps[q].id # RecoveryId(eps, index)
<1> DEFINE A == {k \in index .. index + Len(eps) : <<1, k>> \notin ToSet(Ids(eps))}
<1>1. Len(eps) \in Nat /\ ToSet(Ids(eps)) = {eps[k].id : k \in 1 .. Len(eps)}
  BY LenProperties, IdsOf
<1>2. A # {}
  <2> SUFFICES ASSUME A = {} PROVE FALSE
    OBVIOUS
  <2> DEFINE S == index .. index + Len(eps)
             P == 1 .. Len(eps)
             f == [k \in S |-> CHOOSE p \in P : eps[p].id = <<1, k>>]
  <2>1. ASSUME NEW k \in S PROVE f[k] \in P /\ eps[f[k]].id = <<1, k>>
    <3>1. <<1, k>> \in ToSet(Ids(eps))
      OBVIOUS
    <3>2. \E p \in P : eps[p].id = <<1, k>>
      BY <1>1, <3>1
    <3> QED BY <3>2
  <2>2. f \in [S -> P]
    BY <2>1
  <2>3. /\ IsFiniteSet(S) /\ IsFiniteSet(P)
        /\ Cardinality(S) = Len(eps) + 1 /\ Cardinality(P) = Len(eps)
    <3>1. index \in Int /\ index + Len(eps) \in Int /\ 1 \in Int /\ Len(eps) \in Int
      BY <1>1
    <3>2. IsFiniteSet(S) /\ Cardinality(S) = index + Len(eps) - index + 1
      BY <1>1, <3>1, FS_Interval
    <3>3. IsFiniteSet(P) /\ Cardinality(P) = Len(eps)
      <4>1. IsFiniteSet(P) /\ Cardinality(P) = IF 1 > Len(eps) THEN 0 ELSE Len(eps) - 1 + 1
        BY <3>1, FS_Interval
      <4> QED BY <1>1, <4>1
    <3> QED BY <1>1, <3>2, <3>3
  <2> HIDE DEF f, S, P
  <2>4. Cardinality(P) < Cardinality(S)
    BY <1>1, <2>3
  <2>5. PICK x, y \in S : x # y /\ f[x] = f[y]
    BY <2>2, <2>3, <2>4, FS_PigeonHole
  <2>6. <<1, x>> = <<1, y>>
    BY <2>1, <2>5
  <2> QED BY <2>5, <2>6
<1>3. A \subseteq Nat
  BY <1>1
<1>4. RecoveryId(eps, index) = <<1, Min(A)>>
  BY DEF RecoveryId
<1>5. \A k \in A : \A q \in 1 .. Len(eps) : eps[q].id # <<1, k>>
  BY <1>1
<1> HIDE DEF A
<1>6. Min(A) \in Nat /\ Min(A) \in A
  BY <1>2, <1>3, MinOf
<1>7. \A q \in 1 .. Len(eps) : eps[q].id # RecoveryId(eps, index)
  BY <1>4, <1>5, <1>6
<1> QED BY <1>4, <1>6, <1>7

(* The episode made up for such a range has an id, a block and valid ends.   *)
LEMMA TargetIsRepairable ==
  ASSUME NEW eps \in Seq(EpisodeType), eps # <<>>, NEW range, GoodRange(eps, range), NEW index \in Nat
  PROVE  Repairable(TargetEpisode(eps, range, index))
<1> DEFINE t == TargetEpisode(eps, range, index)
<1>1. DOMAIN eps = 1 .. Len(eps) /\ Len(eps) \in Nat \ {0}
  BY LenProperties, EmptySeq
<1>2. ParentOf(eps, range) \in Nat
  <2>1. Len(eps) \in 1 .. Len(eps)
    BY <1>1
  <2>2. eps[Len(eps)].block \in Nat
    BY <2>1, EpisodeAt
  <2>3. range.start \in DOMAIN eps => eps[range.start].block \in Nat
    BY <1>1, EpisodeAt
  <2> QED BY <2>2, <2>3 DEF ParentOf, Last
<1>3. Inserts(range) => RecoveryId(eps, index) \in Seq(Nat)
  BY RecoveryIdIsNew
<1>4. ~Inserts(range) => eps[range.start].id \in Seq(Nat)
  <2>1. ~Inserts(range) => range.start \in 1 .. Len(eps)
    BY <1>1 DEF GoodRange, Inserts
  <2> QED BY <2>1, EpisodeAt
<1>5. t = [id |-> IF Inserts(range) THEN RecoveryId(eps, index) ELSE eps[range.start].id,
           block |-> ParentOf(eps, range), first |-> range.from, last |-> range.to]
  BY DEF TargetEpisode
<1> HIDE DEF t
<1>6. t.id \in Seq(Nat) /\ t.block \in Nat /\ t.first = range.from /\ t.last = range.to
  BY <1>2, <1>3, <1>4, <1>5
<1>7. Repairable(t)
  BY <1>6 DEF GoodRange, Repairable
<1> QED BY <1>7 DEF t

(* The ids of the episodes a range replaces. *)
LEMMA RemovedIds ==
  ASSUME NEW eps \in Seq(EpisodeType), NEW range, GoodRange(eps, range), ~Inserts(range)
  PROVE  LET removed == [k \in 1 .. range.stop - range.start + 1 |-> eps[range.start + k - 1].id]
         IN  /\ removed \in Refs /\ removed # <<>> /\ Head(removed) \in Seq(Nat)
             /\ ToSet(Tail(removed)) \cup {Head(removed)} =
                  {eps[k].id : k \in range.start .. range.stop}
<1> DEFINE from == range.start
           to == range.stop
           n == to - from + 1
           removed == [k \in 1 .. n |-> eps[from + k - 1].id]
<1>1. /\ Len(eps) \in Nat /\ from \in 1 .. Len(eps) /\ to \in from .. Len(eps)
  BY LenProperties DEF GoodRange, Inserts
<1> HIDE DEF from, to
<1>2. n \in Nat \ {0} /\ \A k \in 1 .. n : from + k - 1 \in 1 .. Len(eps) /\ from + k - 1 \in from .. to
  BY <1>1
<1>3. removed \in [1 .. n -> Seq(Nat)]
  <2>1. \A k \in 1 .. n : eps[from + k - 1].id \in Seq(Nat)
    BY <1>2, EpisodeAt
  <2> QED BY <2>1
<1>4. \A k \in 1 .. n : removed[k] = eps[from + k - 1].id
  OBVIOUS
<1> HIDE DEF removed, n
<1>5. removed \in Seq(Seq(Nat)) /\ Len(removed) = n
  BY <1>2, <1>3, SequenceOf
<1>6. removed # <<>>
  BY <1>2, <1>5, EmptySeq
<1>7. /\ Head(removed) \in Seq(Nat) /\ Tail(removed) \in Seq(Seq(Nat)) /\ Len(Tail(removed)) = n - 1
      /\ \A i \in 1 .. Len(Tail(removed)) : Tail(removed)[i] = removed[i + 1]
  BY <1>5, <1>6, HeadTailProperties
<1>8. Head(removed) = removed[1]
  BY <1>6
<1>9. ToSet(Tail(removed)) = {Tail(removed)[i] : i \in 1 .. n - 1}
  BY <1>7, ToSetOf
<1>10. ToSet(Tail(removed)) \cup {Head(removed)} = {removed[k] : k \in 1 .. n}
  <2>1. \A i \in 1 .. n - 1 : i + 1 \in 1 .. n /\ Tail(removed)[i] = removed[i + 1]
    BY <1>2, <1>7
  <2>2. ASSUME NEW k \in 1 .. n PROVE removed[k] \in ToSet(Tail(removed)) \cup {Head(removed)}
    <3>1. CASE k = 1
      BY <1>8, <3>1
    <3>2. CASE k # 1
      <4>1. PICK i \in 1 .. n - 1 : i + 1 = k
        BY <1>2, <3>2
      <4>2. Tail(removed)[i] = removed[k]
        BY <2>1, <4>1
      <4> QED BY <1>9, <4>2
    <3> QED BY <3>1, <3>2
  <2>3. 1 \in 1 .. n
    BY <1>2
  <2>4. ToSet(Tail(removed)) \cup {Head(removed)} \subseteq {removed[k] : k \in 1 .. n}
    <3>1. ToSet(Tail(removed)) \subseteq {removed[k] : k \in 1 .. n}
      BY <1>9, <2>1
    <3>2. {Head(removed)} \subseteq {removed[k] : k \in 1 .. n}
      BY <1>8, <2>3
    <3> QED BY <3>1, <3>2
  <2> QED BY <2>2, <2>4
<1>11. {removed[k] : k \in 1 .. n} = {eps[k].id : k \in from .. to}
  <2>1. ASSUME NEW k \in from .. to PROVE \E i \in 1 .. n : removed[i] = eps[k].id
    <3>1. PICK i \in 1 .. n : from + i - 1 = k
      <4>1. k - from + 1 \in 1 .. n /\ from + (k - from + 1) - 1 = k
        BY <1>1 DEF n
      <4> QED BY <4>1
    <3> QED BY <1>4, <3>1
  <2>2. \A k \in 1 .. n : removed[k] \in {eps[j].id : j \in from .. to}
    BY <1>2, <1>4
  <2> QED BY <2>1, <2>2
<1>12. removed \in Refs
  BY <1>5 DEF Refs
<1> QED BY <1>6, <1>7, <1>10, <1>11, <1>12 DEF removed, n, from, to

(* The episodes outside the range stay, and the parts are added. *)
LEMMA ExchangedEpisodes ==
  ASSUME NEW eps \in Seq(EpisodeType), NEW range, GoodRange(eps, range),
         NEW parts \in Seq(EpisodeType), parts # <<>>
  PROVE  LET new == SubSeq(eps, 1, range.start - 1) \o parts \o SubSeq(eps, range.stop + 1, Len(eps))
         IN  /\ new \in Seq(EpisodeType) /\ new # <<>>
             /\ ToSet(Ids(parts)) \subseteq ToSet(Ids(new))
             /\ \A k \in 1 .. Len(eps) :
                  k \notin range.start .. range.stop => eps[k].id \in ToSet(Ids(new))
<1> DEFINE a == range.start
           b == range.stop
           left == SubSeq(eps, 1, a - 1)
           right == SubSeq(eps, b + 1, Len(eps))
           new == left \o parts \o right
<1>1. /\ Len(eps) \in Nat /\ a \in 1 .. Len(eps) + 1 /\ b \in 0 .. Len(eps)
      /\ a - 1 <= b
  BY LenProperties DEF GoodRange
<1> HIDE DEF a, b
<1>2. left \in Seq(EpisodeType) /\ ToSet(left) = {eps[k] : k \in 1 .. a - 1}
  <2>1. 1 \in 1 .. Len(eps) + 1 /\ a - 1 \in 0 .. Len(eps)
    BY <1>1
  <2> QED BY <2>1, SubSeqMembers
<1>3. right \in Seq(EpisodeType) /\ ToSet(right) = {eps[k] : k \in b + 1 .. Len(eps)}
  <2>1. b + 1 \in 1 .. Len(eps) + 1 /\ Len(eps) \in 0 .. Len(eps)
    BY <1>1
  <2> QED BY <2>1, SubSeqMembers
<1> HIDE DEF left, right
<1>4. left \o parts \in Seq(EpisodeType) /\ ToSet(left \o parts) = ToSet(left) \cup ToSet(parts)
  BY <1>2, ConcatMembers
<1>5. new \in Seq(EpisodeType) /\ ToSet(new) = ToSet(left) \cup ToSet(parts) \cup ToSet(right)
  <2> DEFINE p == left \o parts
  <2>1. p \in Seq(EpisodeType) /\ ToSet(p) = ToSet(left) \cup ToSet(parts)
    BY <1>4
  <2> HIDE DEF p
  <2>2. p \o right \in Seq(EpisodeType) /\ ToSet(p \o right) = ToSet(p) \cup ToSet(right)
    BY <1>3, <2>1, ConcatMembers
  <2> QED BY <2>1, <2>2 DEF p
<1> HIDE DEF new
<1>6. /\ ToSet(Ids(new)) = {new[k].id : k \in 1 .. Len(new)}
      /\ ToSet(new) = {new[k] : k \in 1 .. Len(new)}
  BY <1>5, IdsOf, ToSetOf
<1>7. \A e \in ToSet(new) : e.id \in ToSet(Ids(new))
  BY <1>6
<1>8. /\ ToSet(Ids(parts)) = {parts[k].id : k \in 1 .. Len(parts)}
      /\ ToSet(parts) = {parts[k] : k \in 1 .. Len(parts)} /\ parts[1] \in ToSet(parts)
  BY IdsOf, ToSetOf
<1>9. ToSet(Ids(parts)) \subseteq ToSet(Ids(new))
  BY <1>5, <1>7, <1>8
<1>10. new # <<>>
  <2>1. ToSet(<<>>) = {}
    BY DEF ToSet
  <2> QED BY <1>5, <1>8, <2>1
<1>11. ASSUME NEW k \in 1 .. Len(eps), k \notin a .. b PROVE eps[k].id \in ToSet(Ids(new))
  <2>1. k \in 1 .. a - 1 \/ k \in b + 1 .. Len(eps)
    BY <1>1, <1>11
  <2>2. eps[k] \in ToSet(left) \/ eps[k] \in ToSet(right)
    BY <1>2, <1>3, <2>1
  <2> QED BY <1>5, <1>7, <2>2
<1> QED BY <1>5, <1>9, <1>10, <1>11 DEF new, left, right, a, b

(* A coverage repair leaves blocks that are blocks.                          *)
LEMMA CoveredBlocksType ==
  ASSUME NEW bks \in Seq(BlockType), NEW eps \in Seq(EpisodeType), NEW range, GoodRange(eps, range),
         NEW parent, NEW ids \in Refs
  PROVE  CoveredBlocks(bks, eps, range, parent, ids) \in Seq(BlockType)
<1> DEFINE removed == [k \in 1 .. range.stop - range.start + 1 |-> eps[range.start + k - 1].id]
           before == IF range.start \in DOMAIN eps THEN eps[range.start].id ELSE <<>>
           place(refs) ==
             IF Inserts(range) THEN Replaced(refs, before, ids \o <<before>>)
             ELSE RefsExchanged(refs, removed, ids)
           anchor == IF Inserts(range) THEN before ELSE Head(removed)
           placed == \E b \in DOMAIN bks : anchor \in ToSet(bks[b].episodes)
           atEnd == {b \in DOMAIN bks : Inserts(range) /\ before = <<>> /\ bks[b].id = parent}
           fallback == IF atEnd # {} THEN Min(atEnd) ELSE Len(bks)
           rest(b) == IF ~placed /\ b = fallback THEN ids ELSE <<>>
           f == [b \in 1 .. Len(bks) |-> place(bks[b].episodes) \o rest(b)]
<1>1. /\ DOMAIN bks = 1 .. Len(bks) /\ DOMAIN eps = 1 .. Len(eps)
      /\ ids \in Seq(Seq(Nat)) /\ <<>> \in Seq(Seq(Nat)) /\ <<>> \in Seq(Nat)
  BY LenProperties, EmptySeq DEF Refs
<1>2. before \in Seq(Nat) /\ ids \o <<before>> \in Refs
  <2>1. before \in Seq(Nat)
    BY <1>1, EpisodeAt
  <2> HIDE DEF before
  <2>2. <<before>> \in Seq(Seq(Nat))
    BY <2>1
  <2> QED BY <1>1, <2>1, <2>2, ConcatProperties DEF Refs
<1>3. ~Inserts(range) => Head(removed) \in Seq(Nat)
  BY RemovedIds
<1> HIDE DEF removed, before
<1>4. ASSUME NEW refs \in Refs PROVE place(refs) \in Refs
  <2>1. CASE Inserts(range)
    BY <1>2, <2>1, ReplacedRefs
  <2>2. CASE ~Inserts(range)
    <3>1. Without(refs, ToSet(Tail(removed)) \ {Head(removed)}) \in Refs
      BY WithoutRefs
    <3> QED BY <1>3, <2>2, <3>1, ReplacedRefs DEF RefsExchanged
  <2> QED BY <2>1, <2>2
<1> HIDE DEF place
<1>5. ASSUME NEW b \in 1 .. Len(bks) PROVE place(bks[b].episodes) \o rest(b) \in Refs
  <2>1. bks[b].episodes \in Refs
    BY BlockAt
  <2>2. place(bks[b].episodes) \in Seq(Seq(Nat)) /\ rest(b) \in Seq(Seq(Nat))
    BY <1>1, <1>4, <2>1 DEF Refs
  <2> HIDE DEF rest
  <2> QED BY <2>2, ConcatProperties DEF Refs
<1>6. CoveredBlocks(bks, eps, range, parent, ids) =
        [b \in DOMAIN bks |-> [bks[b] EXCEPT !.episodes = place(@) \o rest(b)]]
  BY DEF CoveredBlocks, place, removed, before
<1> HIDE DEF rest
<1>7. f \in [1 .. Len(bks) -> Refs]
  BY <1>5
<1>8. CoveredBlocks(bks, eps, range, parent, ids) =
        [b \in DOMAIN bks |-> [bks[b] EXCEPT !.episodes = f[b]]]
  BY <1>1, <1>6
<1> HIDE DEF f
<1> QED BY <1>7, <1>8, BlocksWith

(* It leaves topics that resolve, if their names that stay are still there.  *)
LEMMA CoveredTopicsResolve ==
  ASSUME NEW tps \in Seq(Refs), NEW eps \in Seq(EpisodeType), NEW range, GoodRange(eps, range),
         NEW ids \in Refs, NEW names, Resolves(tps, ToSet(Ids(eps))), ToSet(ids) \subseteq names,
         \A k \in 1 .. Len(eps) : k \notin range.start .. range.stop => eps[k].id \in names
  PROVE  LET new == CoveredTopics(tps, eps, range, ids)
         IN  new \in Seq(Refs) /\ Resolves(new, names) /\ (Plural(tps) => Plural(new))
<1> DEFINE new == CoveredTopics(tps, eps, range, ids)
<1>0. /\ DOMAIN tps = 1 .. Len(tps) /\ Len(tps) \in Nat /\ \A t \in 1 .. Len(tps) : tps[t] \in Refs
      /\ DOMAIN eps = 1 .. Len(eps) /\ ToSet(Ids(eps)) = {eps[k].id : k \in 1 .. Len(eps)}
  BY LenProperties, ElementOfSeq, IdsOf
<1>1. CASE Inserts(range)
  <2>1. new = tps
    BY <1>1 DEF CoveredTopics
  <2>2. \A k \in 1 .. Len(eps) : k \notin range.start .. range.stop
    BY <1>1 DEF Inserts, GoodRange
  <2>3. ToSet(Ids(eps)) \subseteq names
    BY <1>0, <2>2
  <2>4. Resolves(tps, names)
    BY <2>3 DEF Resolves
  <2> QED BY <2>1, <2>4
<1>2. CASE ~Inserts(range)
  <2> DEFINE removed == [k \in 1 .. range.stop - range.start + 1 |-> eps[range.start + k - 1].id]
             at(refs) == Deduped(RefsExchanged(refs, removed, ids))
             mapped == [t \in DOMAIN tps |-> at(tps[t])]
  <2>1. /\ Head(removed) \in Seq(Nat)
        /\ ToSet(Tail(removed)) \cup {Head(removed)} = {eps[k].id : k \in range.start .. range.stop}
    BY <1>2, RemovedIds
  <2>2. new = WithTwo(mapped)
    BY <1>2 DEF CoveredTopics
  <2> HIDE DEF removed, new
  <2>3. ASSUME NEW t \in 1 .. Len(tps)
        PROVE  /\ at(tps[t]) \in Refs /\ ToSet(at(tps[t])) \subseteq names
               /\ \A i, j \in 1 .. Len(at(tps[t])) : i # j => at(tps[t])[i] # at(tps[t])[j]
    <3> DEFINE refs == tps[t]
               w == Without(refs, ToSet(Tail(removed)) \ {Head(removed)})
               r == Replaced(w, Head(removed), ids)
    <3>1. refs \in Refs /\ ToSet(refs) \subseteq ToSet(Ids(eps))
      BY <1>0 DEF Resolves
    <3> HIDE DEF refs
    <3>2. w \in Refs /\ ToSet(w) = ToSet(refs) \ (ToSet(Tail(removed)) \ {Head(removed)})
      BY <3>1, WithoutRefs
    <3> HIDE DEF w
    <3>3. /\ r \in Refs
          /\ ToSet(r) = (ToSet(w) \ {Head(removed)})
               \cup (IF Head(removed) \in ToSet(w) THEN ToSet(ids) ELSE {})
      BY <2>1, <3>2, ReplacedRefs
    <3> HIDE DEF r
    <3>4. /\ Deduped(r) \in Refs /\ ToSet(Deduped(r)) = ToSet(r)
          /\ \A i, j \in 1 .. Len(Deduped(r)) : i # j => Deduped(r)[i] # Deduped(r)[j]
      BY <3>3, DedupedRefs
    <3>5. ASSUME NEW x \in ToSet(w), x # Head(removed) PROVE x \in names
      <4>1. x \in ToSet(refs) /\ x \notin ToSet(Tail(removed))
        BY <3>2, <3>5
      <4>2. PICK k \in 1 .. Len(eps) : eps[k].id = x
        BY <1>0, <3>1, <4>1
      <4>3. k \notin range.start .. range.stop
        BY <2>1, <3>5, <4>1, <4>2
      <4> QED BY <4>2, <4>3
    <3>6. ToSet(r) \subseteq names
      BY <3>3, <3>5
    <3> QED BY <3>4, <3>6 DEF r, w, refs, RefsExchanged
  <2> HIDE DEF at
  <2>4. mapped \in Seq(Refs) /\ Len(mapped) = Len(tps)
    <3>1. mapped \in [1 .. Len(tps) -> Refs]
      BY <1>0, <2>3
    <3> HIDE DEF mapped
    <3> QED BY <1>0, <3>1, SequenceOf
  <2>5. \A t \in 1 .. Len(tps) : mapped[t] = at(tps[t])
    BY <1>0
  <2> HIDE DEF mapped
  <2>6. /\ new \in Seq(Refs)
        /\ \A t \in 1 .. Len(new) :
             Len(new[t]) >= 2 /\ \E k \in 1 .. Len(mapped) : new[t] = mapped[k]
    BY <2>2, <2>4, WithTwoKeeps
  <2>7. ASSUME NEW t \in 1 .. Len(new)
        PROVE  /\ new[t] # <<>> /\ ToSet(new[t]) \subseteq names
               /\ \E a, b \in ToSet(new[t]) : a # b
    <3>1. PICK k \in 1 .. Len(tps) : new[t] = at(tps[k])
      BY <2>4, <2>5, <2>6
    <3>2. /\ new[t] \in Refs /\ ToSet(new[t]) \subseteq names
          /\ \A i, j \in 1 .. Len(new[t]) : i # j => new[t][i] # new[t][j]
      BY <2>3, <3>1
    <3>3. Len(new[t]) >= 2
      BY <2>6
    <3>4. /\ Len(new[t]) \in Nat /\ (new[t] = <<>> <=> Len(new[t]) = 0)
          /\ ToSet(new[t]) = {new[t][i] : i \in 1 .. Len(new[t])}
      BY <3>2, ToSetOf DEF Refs
    <3>5. new[t][1] \in ToSet(new[t]) /\ new[t][2] \in ToSet(new[t]) /\ new[t][1] # new[t][2]
      <4>1. 1 \in 1 .. Len(new[t]) /\ 2 \in 1 .. Len(new[t])
        BY <3>3, <3>4
      <4> QED BY <3>2, <3>4, <4>1
    <3>6. new[t] # <<>>
      BY <3>3, <3>4
    <3> QED BY <3>2, <3>5, <3>6
  <2> QED BY <2>6, <2>7 DEF Resolves, Plural, new
<1> QED BY <1>1, <1>2

(* A coverage repair keeps types, topics, and an episode at least.           *)
LEMMA ApplyCoverageKeeps ==
  ASSUME NEW comp \in CompositionType, comp.episodes # <<>>,
         NEW range, GoodRange(comp.episodes, range), NEW id, NEW parts, Replacement(parts, id),
         Resolves(comp.topics, ToSet(Ids(comp.episodes)))
  PROVE  LET new == ApplyCoverage(comp, range, parts)
         IN  /\ new \in CompositionType /\ new.episodes # <<>>
             /\ Resolves(new.topics, ToSet(Ids(new.episodes)))
             /\ Plural(comp.topics) => Plural(new.topics)
<1> DEFINE eps == comp.episodes
           newEps == SubSeq(eps, 1, range.start - 1) \o parts \o SubSeq(eps, range.stop + 1, Len(eps))
           newBks == CoveredBlocks(comp.blocks, eps, range, parts[1].block, Ids(parts))
           newTps == CoveredTopics(comp.topics, eps, range, Ids(parts))
<1>1. eps \in Seq(EpisodeType) /\ comp.blocks \in Seq(BlockType) /\ comp.topics \in Seq(Refs)
  BY CompositionFields
<1>2. parts \in Seq(EpisodeType) /\ parts # <<>> /\ Ids(parts) \in Refs
  BY IdsOf DEF Replacement
<1>3. ApplyCoverage(comp, range, parts) = [episodes |-> newEps, blocks |-> newBks, topics |-> newTps]
  BY DEF ApplyCoverage
<1>4. GoodRange(eps, range) /\ Resolves(comp.topics, ToSet(Ids(eps)))
  OBVIOUS
<1> HIDE DEF eps
<1>5. /\ newEps \in Seq(EpisodeType) /\ newEps # <<>> /\ ToSet(Ids(parts)) \subseteq ToSet(Ids(newEps))
      /\ \A k \in 1 .. Len(eps) :
           k \notin range.start .. range.stop => eps[k].id \in ToSet(Ids(newEps))
  BY <1>1, <1>2, <1>4, ExchangedEpisodes
<1>6. newBks \in Seq(BlockType)
  BY <1>1, <1>2, <1>4, CoveredBlocksType
<1> HIDE DEF newEps, newBks
<1>7. /\ newTps \in Seq(Refs) /\ Resolves(newTps, ToSet(Ids(newEps)))
      /\ Plural(comp.topics) => Plural(newTps)
  BY <1>1, <1>2, <1>4, <1>5, CoveredTopicsResolve
<1> HIDE DEF newTps
<1> QED BY <1>3, <1>5, <1>6, <1>7 DEF CompositionType

-----------------------------------------------------------------------------
(* Arranging the blocks.  Segments are what the blocks are made of; the names  *)
(* in them are the ids of their episodes.                                      *)
SegmentType == [type : BlockTypes, episodes : Seq(EpisodeType)]
NamesIn(segs) == UNION {ToSet(Ids(segs[k].episodes)) : k \in 1 .. Len(segs)}

(* The fields of a segment.                                                  *)
LEMMA SegmentAt ==
  ASSUME NEW segs \in Seq(SegmentType), NEW k \in 1 .. Len(segs)
  PROVE  /\ segs[k] \in SegmentType /\ segs[k].type \in BlockTypes
         /\ segs[k].episodes \in Seq(EpisodeType)
<1>1. segs[k] \in SegmentType
  BY ElementOfSeq
<1> QED BY <1>1 DEF SegmentType

(* The ids of episodes put together are those of the parts. *)
LEMMA FlattenedIds ==
  ASSUME NEW ss \in Seq(Seq(EpisodeType))
  PROVE  /\ FlattenSeq(ss) \in Seq(EpisodeType)
         /\ ToSet(Ids(FlattenSeq(ss))) = UNION {ToSet(Ids(ss[i])) : i \in 1 .. Len(ss)}
<1> DEFINE all == FlattenSeq(ss)
<1>1. all \in Seq(EpisodeType) /\ ToSet(all) = UNION {ToSet(ss[i]) : i \in 1 .. Len(ss)}
  BY FlattenMembers
<1> HIDE DEF all
<1>2. \A i \in 1 .. Len(ss) : ss[i] \in Seq(EpisodeType)
  BY ElementOfSeq
<1>3. \A eps \in Seq(EpisodeType) : ToSet(Ids(eps)) = {e.id : e \in ToSet(eps)}
  <2> TAKE eps \in Seq(EpisodeType)
  <2>1. ToSet(eps) = {eps[k] : k \in 1 .. Len(eps)}
    BY ToSetOf
  <2>2. ToSet(Ids(eps)) = {eps[k].id : k \in 1 .. Len(eps)}
    BY IdsOf
  <2> QED BY <2>1, <2>2
<1>4. ToSet(Ids(all)) = {e.id : e \in ToSet(all)}
  BY <1>1, <1>3
<1>5. ASSUME NEW i \in 1 .. Len(ss) PROVE ToSet(Ids(ss[i])) = {e.id : e \in ToSet(ss[i])}
  BY <1>2, <1>3
<1>6. ToSet(Ids(all)) \subseteq UNION {ToSet(Ids(ss[i])) : i \in 1 .. Len(ss)}
  <2> SUFFICES ASSUME NEW e \in ToSet(all)
               PROVE  \E i \in 1 .. Len(ss) : e.id \in ToSet(Ids(ss[i]))
    BY <1>4
  <2>1. PICK i \in 1 .. Len(ss) : e \in ToSet(ss[i])
    BY <1>1
  <2> QED BY <1>5, <2>1
<1>7. ASSUME NEW i \in 1 .. Len(ss) PROVE ToSet(Ids(ss[i])) \subseteq ToSet(Ids(all))
  <2>1. ToSet(ss[i]) \subseteq ToSet(all)
    BY <1>1
  <2> QED BY <1>4, <1>5, <2>1
<1> QED BY <1>1, <1>6, <1>7 DEF all

(* The names in segments put together are those in the parts. *)
LEMMA FlattenedNames ==
  ASSUME NEW ss \in Seq(Seq(SegmentType))
  PROVE  /\ FlattenSeq(ss) \in Seq(SegmentType)
         /\ NamesIn(FlattenSeq(ss)) = UNION {NamesIn(ss[i]) : i \in 1 .. Len(ss)}
<1> DEFINE all == FlattenSeq(ss)
<1>1. all \in Seq(SegmentType) /\ ToSet(all) = UNION {ToSet(ss[i]) : i \in 1 .. Len(ss)}
  BY FlattenMembers
<1> HIDE DEF all
<1>2. \A i \in 1 .. Len(ss) : ss[i] \in Seq(SegmentType)
  BY ElementOfSeq
<1>3. ASSUME NEW segs \in Seq(SegmentType)
      PROVE  NamesIn(segs) = UNION {ToSet(Ids(g.episodes)) : g \in ToSet(segs)}
  <2>1. ToSet(segs) = {segs[k] : k \in 1 .. Len(segs)}
    BY ToSetOf
  <2> QED BY <2>1 DEF NamesIn
<1>4. NamesIn(all) = UNION {ToSet(Ids(g.episodes)) : g \in ToSet(all)}
  BY <1>1, <1>3
<1>5. ASSUME NEW i \in 1 .. Len(ss)
      PROVE  NamesIn(ss[i]) = UNION {ToSet(Ids(g.episodes)) : g \in ToSet(ss[i])}
  BY <1>2, <1>3
<1>6. NamesIn(all) \subseteq UNION {NamesIn(ss[i]) : i \in 1 .. Len(ss)}
  <2> SUFFICES ASSUME NEW g \in ToSet(all)
               PROVE  \E i \in 1 .. Len(ss) : ToSet(Ids(g.episodes)) \subseteq NamesIn(ss[i])
    BY <1>4
  <2>1. PICK i \in 1 .. Len(ss) : g \in ToSet(ss[i])
    BY <1>1
  <2> QED BY <1>5, <2>1
<1>7. ASSUME NEW i \in 1 .. Len(ss) PROVE NamesIn(ss[i]) \subseteq NamesIn(all)
  <2>1. ToSet(ss[i]) \subseteq ToSet(all)
    BY <1>1
  <2> QED BY <1>4, <1>5, <2>1
<1> QED BY <1>1, <1>6, <1>7 DEF all

(* The names in segments are those of their episodes put together. *)
LEMMA EpisodesOfSegments ==
  ASSUME NEW segs \in Seq(SegmentType)
  PROVE  LET all == FlattenSeq([k \in DOMAIN segs |-> segs[k].episodes])
         IN  all \in Seq(EpisodeType) /\ ToSet(Ids(all)) = NamesIn(segs)
<1> DEFINE ss == [k \in DOMAIN segs |-> segs[k].episodes]
<1>1. DOMAIN segs = 1 .. Len(segs) /\ Len(segs) \in Nat
  BY LenProperties
<1>2. ss \in [1 .. Len(segs) -> Seq(EpisodeType)]
  BY <1>1, SegmentAt
<1>3. \A k \in 1 .. Len(segs) : ss[k] = segs[k].episodes
  BY <1>1
<1> HIDE DEF ss
<1>4. ss \in Seq(Seq(EpisodeType)) /\ Len(ss) = Len(segs)
  BY <1>1, <1>2, SequenceOf
<1>5. FlattenSeq(ss) \in Seq(EpisodeType)
      /\ ToSet(Ids(FlattenSeq(ss))) = UNION {ToSet(Ids(ss[i])) : i \in 1 .. Len(ss)}
  BY <1>4, FlattenedIds
<1>6. UNION {ToSet(Ids(ss[i])) : i \in 1 .. Len(ss)} = NamesIn(segs)
  BY <1>3, <1>4 DEF NamesIn
<1> QED BY <1>5, <1>6 DEF ss

(* Joining consecutive segments keeps the names in them. *)
LEMMA JoinedFromKeeps ==
  ASSUME NEW segs \in Seq(SegmentType), NEW starts, starts \subseteq 1 .. Len(segs),
         segs # <<>> => 1 \in starts
  PROVE  /\ JoinedFrom(segs, starts) \in Seq(SegmentType)
         /\ NamesIn(JoinedFrom(segs, starts)) = NamesIn(segs)
<1> DEFINE ps == Pieces(segs, starts)
           new == JoinedFrom(segs, starts)
           c == Cardinality(starts)
<1>1. ps \in Seq(Seq(SegmentType)) /\ Divides(segs, starts)
  BY PiecesEntries
<1>2. Len(ps) = c /\ c \in Nat /\ \A n \in 1 .. c : ps[n] # <<>>
  BY <1>1 DEF Divides
<1>3. new = [n \in 1 .. c |-> Joined(ps[n])]
  <2>1. DOMAIN ps = 1 .. c
    BY <1>1, <1>2, LenProperties
  <2> QED BY <2>1 DEF JoinedFrom
<1>4. \A n \in 1 .. c : \A j \in 1 .. Len(ps[n]) :
        /\ InOrder(starts)[n] + j - 1 \in 1 .. Len(segs)
        /\ ps[n][j] = segs[InOrder(starts)[n] + j - 1]
  BY <1>1 DEF Divides
<1>5. \A k \in 1 .. Len(segs) : \E n \in 1 .. c : \E j \in 1 .. Len(ps[n]) :
        k = InOrder(starts)[n] + j - 1
  <2>1. ASSUME NEW k \in 1 .. Len(segs) PROVE 1 \in starts
    BY EmptySeq, LenProperties
  <2> QED BY <1>1, <2>1 DEF Divides
<1> HIDE DEF ps, new, c
<1>6. ASSUME NEW n \in 1 .. c
      PROVE  Joined(ps[n]) \in SegmentType /\ ToSet(Ids(Joined(ps[n]).episodes)) = NamesIn(ps[n])
  <2>1. ps[n] \in Seq(SegmentType) /\ ps[n] # <<>>
    BY <1>1, <1>2, ElementOfSeq
  <2>2. 1 \in 1 .. Len(ps[n]) /\ Head(ps[n]) = ps[n][1]
    BY <2>1, LenProperties, EmptySeq
  <2>3. Head(ps[n]).type \in BlockTypes
    BY <2>1, <2>2, SegmentAt
  <2> DEFINE all == FlattenSeq([k \in DOMAIN ps[n] |-> ps[n][k].episodes])
  <2>4. all \in Seq(EpisodeType) /\ ToSet(Ids(all)) = NamesIn(ps[n])
    BY <2>1, EpisodesOfSegments
  <2>5. Joined(ps[n]) = [type |-> Head(ps[n]).type, episodes |-> all]
    BY DEF Joined
  <2> HIDE DEF all
  <2> QED BY <2>3, <2>4, <2>5 DEF SegmentType
<1>7. new \in Seq(SegmentType) /\ Len(new) = c
  <2>1. new \in [1 .. c -> SegmentType]
    BY <1>3, <1>6
  <2> QED BY <1>2, <2>1, SequenceOf
<1>8. \A n \in 1 .. c : ToSet(Ids(new[n].episodes)) = NamesIn(ps[n])
  BY <1>3, <1>6
<1>9. NamesIn(new) \subseteq NamesIn(segs)
  <2> SUFFICES ASSUME NEW n \in 1 .. c PROVE NamesIn(ps[n]) \subseteq NamesIn(segs)
    BY <1>7, <1>8 DEF NamesIn
  <2> QED BY <1>4 DEF NamesIn
<1>10. NamesIn(segs) \subseteq NamesIn(new)
  <2> SUFFICES ASSUME NEW k \in 1 .. Len(segs) PROVE ToSet(Ids(segs[k].episodes)) \subseteq NamesIn(new)
    BY DEF NamesIn
  <2>1. PICK n \in 1 .. c : \E j \in 1 .. Len(ps[n]) : k = InOrder(starts)[n] + j - 1
    BY <1>5
  <2>2. PICK j \in 1 .. Len(ps[n]) : k = InOrder(starts)[n] + j - 1
    BY <2>1
  <2>3. ps[n][j] = segs[k]
    BY <1>4, <2>2
  <2>4. ToSet(Ids(segs[k].episodes)) \subseteq NamesIn(ps[n])
    BY <2>3 DEF NamesIn
  <2>5. NamesIn(ps[n]) \subseteq NamesIn(new)
    BY <1>7, <1>8 DEF NamesIn
  <2> QED BY <2>4, <2>5
<1> QED BY <1>7, <1>9, <1>10 DEF new

(* Episodes that only change their looks or their block keep their ids. *)
LEMMA SameIds ==
  ASSUME NEW eps \in Seq(EpisodeType), NEW new \in [1 .. Len(eps) -> EpisodeType],
         \A k \in 1 .. Len(eps) : new[k].id = eps[k].id
  PROVE  new \in Seq(EpisodeType) /\ Len(new) = Len(eps) /\ Ids(new) = Ids(eps)
<1>1. Len(eps) \in Nat /\ DOMAIN eps = 1 .. Len(eps)
  BY LenProperties
<1>2. new \in Seq(EpisodeType) /\ Len(new) = Len(eps)
  BY <1>1, SequenceOf
<1>3. DOMAIN new = 1 .. Len(eps)
  OBVIOUS
<1> QED BY <1>1, <1>2, <1>3 DEF Ids

(* Merging short breaks loses no episode and adds none.                      *)
LEMMA MergedBreaksKeeps ==
  ASSUME NEW segs \in Seq(SegmentType)
  PROVE  MergedBreaks(segs) \in Seq(SegmentType) /\ NamesIn(MergedBreaks(segs)) = NamesIn(segs)
<1> DEFINE short == {k \in DOMAIN segs : IsShortBreak(segs, k)}
           rest(eps) == [k \in DOMAIN eps |-> [eps[k] EXCEPT !.mode = "BREAK", !.kind = "BREAK_TIME"]]
           looks == [k \in DOMAIN segs |->
                      IF k \in short THEN [segs[k] EXCEPT !.episodes = rest(@)] ELSE segs[k]]
<1>1. DOMAIN segs = 1 .. Len(segs) /\ Len(segs) \in Nat
  BY LenProperties
<1>2. ASSUME NEW k \in 1 .. Len(segs)
      PROVE  looks[k] \in SegmentType /\ Ids(looks[k].episodes) = Ids(segs[k].episodes)
  <2> DEFINE eps == segs[k].episodes
  <2>1. segs[k] \in SegmentType /\ segs[k].type \in BlockTypes /\ eps \in Seq(EpisodeType)
    BY SegmentAt
  <2> HIDE DEF eps
  <2>2. DOMAIN eps = 1 .. Len(eps)
    BY <2>1, LenProperties
  <2>3. ASSUME NEW j \in 1 .. Len(eps)
        PROVE  rest(eps)[j] \in EpisodeType /\ rest(eps)[j].id = eps[j].id
    <3>1. eps[j] \in EpisodeType
      BY <2>1, EpisodeAt
    <3>2. rest(eps)[j] = [eps[j] EXCEPT !.mode = "BREAK", !.kind = "BREAK_TIME"]
      BY <2>2
    <3>3. "BREAK" \in BlockTypes /\ "BREAK_TIME" \in ContentKinds
      BY DEF BlockTypes, ContentKinds
    <3> QED BY <3>1, <3>2, <3>3 DEF EpisodeType
  <2>4. rest(eps) \in [1 .. Len(eps) -> EpisodeType]
    BY <2>2, <2>3
  <2> HIDE DEF rest
  <2>5. rest(eps) \in Seq(EpisodeType) /\ Ids(rest(eps)) = Ids(eps)
    BY <2>1, <2>3, <2>4, SameIds
  <2>6. looks[k] = IF k \in short THEN [segs[k] EXCEPT !.episodes = rest(eps)] ELSE segs[k]
    BY <1>1 DEF eps
  <2> QED BY <2>1, <2>5, <2>6 DEF SegmentType, eps
<1>3. looks \in [1 .. Len(segs) -> SegmentType]
  BY <1>1, <1>2
<1> HIDE DEF looks
<1>4. looks \in Seq(SegmentType) /\ Len(looks) = Len(segs)
  BY <1>1, <1>3, SequenceOf
<1>5. NamesIn(looks) = NamesIn(segs)
  BY <1>2, <1>4 DEF NamesIn
<1>6. /\ DOMAIN segs \ short \subseteq 1 .. Len(looks)
      /\ looks # <<>> => 1 \in DOMAIN segs \ short
  <2>1. 1 \notin short
    BY DEF IsShortBreak
  <2>2. looks # <<>> => 1 \in DOMAIN segs
    BY <1>1, <1>4, EmptySeq
  <2> QED BY <1>1, <1>4, <2>1, <2>2
<1>7. MergedBreaks(segs) = JoinedFrom(looks, DOMAIN segs \ short)
  BY DEF MergedBreaks, looks
<1> HIDE DEF short
<1> QED BY <1>4, <1>5, <1>6, <1>7, JoinedFromKeeps

(* Giving episodes another mode leaves their ids alone.                      *)
LEMMA AllWithKeeps ==
  ASSUME NEW eps \in Seq(EpisodeType), NEW mode \in BlockTypes
  PROVE  AllWith(eps, mode) \in Seq(EpisodeType) /\ Ids(AllWith(eps, mode)) = Ids(eps)
<1> DEFINE new == AllWith(eps, mode)
<1>1. DOMAIN eps = 1 .. Len(eps)
  BY LenProperties
<1>2. ASSUME NEW j \in 1 .. Len(eps) PROVE new[j] \in EpisodeType /\ new[j].id = eps[j].id
  <2>1. eps[j] \in EpisodeType
    BY EpisodeAt
  <2>2. new[j] = [eps[j] EXCEPT !.mode = mode]
    BY <1>1 DEF AllWith
  <2> QED BY <2>1, <2>2 DEF EpisodeType
<1>3. new \in [1 .. Len(eps) -> EpisodeType]
  BY <1>1, <1>2 DEF AllWith
<1> HIDE DEF new
<1>4. new \in Seq(EpisodeType) /\ Ids(new) = Ids(eps)
  BY <1>2, <1>3, SameIds
<1> QED BY <1>4 DEF new

(* A segment cut in two is two segments with the same names in them, or one.   *)
LEMMA CutAtKeeps ==
  ASSUME NEW seg \in SegmentType, NEW k \in 1 .. Len(seg.episodes) + 1,
         NEW before \in BlockTypes, NEW after \in BlockTypes
  PROVE  /\ CutAt(seg, k, before, after) \in Seq(SegmentType)
         /\ NamesIn(CutAt(seg, k, before, after)) = ToSet(Ids(seg.episodes))
<1> DEFINE eps == seg.episodes
           left == SubSeq(eps, 1, k - 1)
           right == SubSeq(eps, k, Len(eps))
           part(es, type) == [type |-> type, episodes |-> IF type = seg.type THEN es ELSE AllWith(es, type)]
           parts == <<part(left, before), part(right, after)>>
           S == {n \in DOMAIN parts : parts[n].episodes # <<>>}
           new == CutAt(seg, k, before, after)
<1>1. eps \in Seq(EpisodeType) /\ Len(eps) \in Nat /\ k \in 1 .. Len(eps) + 1
  BY LenProperties DEF SegmentType
<1> HIDE DEF eps
<1>2. left \in Seq(EpisodeType) /\ ToSet(left) = {eps[j] : j \in 1 .. k - 1}
  <2>1. 1 \in 1 .. Len(eps) + 1 /\ k - 1 \in 0 .. Len(eps)
    BY <1>1
  <2> QED BY <1>1, <2>1, SubSeqMembers
<1>3. right \in Seq(EpisodeType) /\ ToSet(right) = {eps[j] : j \in k .. Len(eps)}
  <2>1. k \in 1 .. Len(eps) + 1 /\ Len(eps) \in 0 .. Len(eps)
    BY <1>1
  <2> QED BY <1>1, <2>1, SubSeqMembers
<1> HIDE DEF left, right
<1>4. ASSUME NEW es \in Seq(EpisodeType), NEW type \in BlockTypes
      PROVE  part(es, type) \in SegmentType /\ Ids(part(es, type).episodes) = Ids(es)
  BY AllWithKeeps DEF SegmentType
<1>5. /\ parts[1] \in SegmentType /\ Ids(parts[1].episodes) = Ids(left)
      /\ parts[2] \in SegmentType /\ Ids(parts[2].episodes) = Ids(right)
  BY <1>2, <1>3, <1>4
<1> HIDE DEF part
<1>6. parts \in Seq(SegmentType) /\ Len(parts) = 2 /\ DOMAIN parts = 1 .. 2
  BY <1>5
<1>7. new = Chosen(parts, S)
  BY DEF CutAt, eps, left, right, part
<1>8. S \subseteq 1 .. 2
  BY <1>6
<1> HIDE DEF parts, new
<1>9. new \in Seq(SegmentType) /\ ToSet(new) = {parts[n] : n \in S}
  <2> HIDE DEF S
  <2> QED BY <1>6, <1>7, <1>8, ChosenMembers
<1>10. ToSet(Ids(eps)) = ToSet(Ids(left)) \cup ToSet(Ids(right))
  <2>1. \A es \in Seq(EpisodeType) : ToSet(Ids(es)) = {e.id : e \in ToSet(es)}
    <3> TAKE es \in Seq(EpisodeType)
    <3>1. ToSet(es) = {es[j] : j \in 1 .. Len(es)} /\ ToSet(Ids(es)) = {es[j].id : j \in 1 .. Len(es)}
      BY ToSetOf, IdsOf
    <3> QED BY <3>1
  <2>2. ToSet(eps) = ToSet(left) \cup ToSet(right)
    <3>1. ToSet(eps) = {eps[j] : j \in 1 .. Len(eps)}
      BY <1>1, ToSetOf
    <3>2. 1 .. Len(eps) = (1 .. k - 1) \cup (k .. Len(eps))
      BY <1>1
    <3> QED BY <1>2, <1>3, <3>1, <3>2
  <2> QED BY <1>1, <1>2, <1>3, <2>1, <2>2
<1>11. NamesIn(new) = UNION {ToSet(Ids(g.episodes)) : g \in ToSet(new)}
  <2>1. ToSet(new) = {new[j] : j \in 1 .. Len(new)}
    BY <1>9, ToSetOf
  <2> QED BY <2>1 DEF NamesIn
<1>12. \A n \in 1 .. 2 : n \notin S => ToSet(Ids(parts[n].episodes)) = {}
  <2>1. ToSet(Ids(<<>>)) = {}
    BY DEF Ids, ToSet
  <2> QED BY <1>6, <2>1
<1>13. UNION {ToSet(Ids(g.episodes)) : g \in ToSet(new)} =
         ToSet(Ids(parts[1].episodes)) \cup ToSet(Ids(parts[2].episodes))
  <2> HIDE DEF S
  <2>1. UNION {ToSet(Ids(g.episodes)) : g \in ToSet(new)} = UNION {ToSet(Ids(parts[n].episodes)) : n \in S}
    BY <1>9
  <2>2. UNION {ToSet(Ids(parts[n].episodes)) : n \in S} =
          UNION {ToSet(Ids(parts[n].episodes)) : n \in 1 .. 2}
    BY <1>8, <1>12
  <2> QED BY <2>1, <2>2
<1> QED BY <1>5, <1>9, <1>10, <1>11, <1>13 DEF new, eps

(* Cutting daily chat off a game block loses no episode and adds none.       *)
LEMMA SplitPostGameKeeps ==
  ASSUME NEW seg \in SegmentType
  PROVE  SplitPostGame(seg) \in Seq(SegmentType) /\ NamesIn(SplitPostGame(seg)) = ToSet(Ids(seg.episodes))
<1> DEFINE eps == seg.episodes
           D == DailyRuns(eps)
<1>1. eps \in Seq(EpisodeType) /\ Len(eps) \in Nat
  BY LenProperties DEF SegmentType
<1>2. CASE seg.type # "POST_GAME" \/ D = {}
  <2>1. SplitPostGame(seg) = <<seg>>
    BY <1>2 DEF SplitPostGame
  <2>2. <<seg>> \in Seq(SegmentType) /\ NamesIn(<<seg>>) = ToSet(Ids(eps))
    BY DEF NamesIn
  <2> QED BY <2>1, <2>2
<1>3. CASE ~(seg.type # "POST_GAME" \/ D = {})
  <2>1. SplitPostGame(seg) = CutAt(seg, Min(D), "POST_GAME", "JUST_CHATTING")
    BY <1>3 DEF SplitPostGame
  <2>2. D \subseteq 1 .. Len(eps) + 1
    BY <1>1 DEF DailyRuns
  <2> HIDE DEF D
  <2>3. Min(D) \in D
    <3>1. D \subseteq Nat
      BY <1>1, <2>2
    <3> QED BY <1>3, <3>1, MinOf
  <2>4. Min(D) \in 1 .. Len(seg.episodes) + 1
    BY <2>2, <2>3
  <2>5. "POST_GAME" \in BlockTypes /\ "JUST_CHATTING" \in BlockTypes
    BY DEF BlockTypes
  <2> QED BY <2>1, <2>4, <2>5, CutAtKeeps
<1> QED BY <1>2, <1>3

(* Cutting a closing off loses no episode and adds none.                     *)
LEMMA SplitClosingKeeps ==
  ASSUME NEW seg \in SegmentType
  PROVE  SplitClosing(seg) \in Seq(SegmentType) /\ NamesIn(SplitClosing(seg)) = ToSet(Ids(seg.episodes))
<1> DEFINE eps == seg.episodes
           C == Closings(eps)
           at == IF C = {} THEN Len(eps) + 1 ELSE Min(C)
<1>1. eps \in Seq(EpisodeType) /\ Len(eps) \in Nat /\ DOMAIN eps = 1 .. Len(eps)
  BY LenProperties DEF SegmentType
<1>2. CASE seg.type # "CLOSING"
  <2>1. SplitClosing(seg) = <<seg>>
    BY <1>2 DEF SplitClosing
  <2>2. <<seg>> \in Seq(SegmentType) /\ NamesIn(<<seg>>) = ToSet(Ids(eps))
    BY DEF NamesIn
  <2> QED BY <2>1, <2>2
<1>3. CASE seg.type = "CLOSING"
  <2>1. SplitClosing(seg) = CutAt(seg, at, "JUST_CHATTING", "CLOSING")
    BY <1>3 DEF SplitClosing
  <2>2. C \subseteq 1 .. Len(eps)
    BY <1>1 DEF Closings
  <2> HIDE DEF C
  <2>3. C # {} => Min(C) \in C
    <3>1. C \subseteq Nat
      BY <1>1, <2>2
    <3> QED BY <3>1, MinOf
  <2>4. at \in 1 .. Len(seg.episodes) + 1
    <3>1. CASE C = {}
      BY <1>1, <3>1
    <3>2. CASE C # {}
      <4>1. Min(C) \in 1 .. Len(eps)
        BY <2>2, <2>3, <3>2
      <4> QED BY <1>1, <3>2, <4>1
    <3> QED BY <3>1, <3>2
  <2>5. "JUST_CHATTING" \in BlockTypes /\ "CLOSING" \in BlockTypes
    BY DEF BlockTypes
  <2> HIDE DEF at
  <2> QED BY <2>1, <2>4, <2>5, CutAtKeeps
<1> QED BY <1>2, <1>3

(* Splitting every segment keeps the names in them. *)
LEMMA SplitSegments ==
  ASSUME NEW segs \in Seq(SegmentType), NEW f \in [1 .. Len(segs) -> Seq(SegmentType)],
         \A k \in 1 .. Len(segs) : NamesIn(f[k]) = ToSet(Ids(segs[k].episodes))
  PROVE  FlattenSeq(f) \in Seq(SegmentType) /\ NamesIn(FlattenSeq(f)) = NamesIn(segs)
<1>1. Len(segs) \in Nat
  BY LenProperties
<1>2. f \in Seq(Seq(SegmentType)) /\ Len(f) = Len(segs)
  BY <1>1, SequenceOf
<1>3. FlattenSeq(f) \in Seq(SegmentType) /\ NamesIn(FlattenSeq(f)) = UNION {NamesIn(f[i]) : i \in 1 .. Len(f)}
  BY <1>2, FlattenedNames
<1>4. UNION {NamesIn(f[i]) : i \in 1 .. Len(f)} = NamesIn(segs)
  <2>1. NamesIn(segs) = UNION {ToSet(Ids(segs[k].episodes)) : k \in 1 .. Len(segs)}
    BY DEF NamesIn
  <2> QED BY <1>2, <2>1
<1> QED BY <1>3, <1>4

(* An episode's home is a position of a block, or none.                      *)
LEMMA HomeIsBlockOrNone ==
  ASSUME NEW e, NEW bks \in Seq(BlockType)
  PROVE  HomeOf(e, bks) \in 0 .. Len(bks)
<1> DEFINE listing == {b \in DOMAIN bks : e.id \in ToSet(bks[b].episodes)}
           parent == {b \in DOMAIN bks : bks[b].id = e.block}
<1>1. DOMAIN bks = 1 .. Len(bks) /\ Len(bks) \in Nat
  BY LenProperties
<1>2. listing \subseteq 1 .. Len(bks) /\ parent \subseteq 1 .. Len(bks)
  BY <1>1
<1>3. HomeOf(e, bks) = IF listing # {} THEN Min(listing) ELSE IF parent # {} THEN Max(parent) ELSE 0
  BY DEF HomeOf
<1> HIDE DEF listing, parent
<1>4. listing # {} => Min(listing) \in listing
  <2>1. listing \subseteq Nat
    BY <1>1, <1>2
  <2> QED BY <2>1, MinOf
<1>5. parent # {} => Max(parent) \in parent
  BY <1>1, <1>2, MaxOfInterval
<1>6. CASE listing # {}
  <2>1. Min(listing) \in 1 .. Len(bks)
    BY <1>2, <1>4, <1>6
  <2> QED BY <1>1, <1>3, <1>6, <2>1
<1>7. CASE listing = {} /\ parent # {}
  <2>1. Max(parent) \in 1 .. Len(bks)
    BY <1>2, <1>5, <1>7
  <2> QED BY <1>1, <1>3, <1>7, <2>1
<1>8. CASE listing = {} /\ parent = {}
  BY <1>1, <1>3, <1>8
<1> QED BY <1>6, <1>7, <1>8

(* The segments hold the episodes of the composition, homeless ones too.     *)
LEMMA SegmentsHoldEpisodes ==
  ASSUME NEW comp \in CompositionType
  PROVE  /\ Segments(comp) \in Seq(SegmentType)
         /\ NamesIn(Segments(comp)) = ToSet(Ids(comp.episodes))
<1> DEFINE eps == comp.episodes
           home == [k \in DOMAIN eps |-> HomeOf(eps[k], comp.blocks)]
           starts == {k \in DOMAIN eps : k = 1 \/ home[k] = 0 \/ home[k] # home[k - 1]}
           at == InOrder(starts)
           ps == Pieces(eps, starts)
           c == Cardinality(starts)
           new == Segments(comp)
           type(n) == IF home[at[n]] = 0 THEN eps[at[n]].mode ELSE comp.blocks[home[at[n]]].type
<1>1. /\ eps \in Seq(EpisodeType) /\ comp.blocks \in Seq(BlockType)
      /\ DOMAIN eps = 1 .. Len(eps) /\ Len(eps) \in Nat
  BY CompositionFields
<1>2. starts \subseteq 1 .. Len(eps) /\ (Len(eps) # 0 => 1 \in starts)
  BY <1>1
<1>3. \A k \in 1 .. Len(eps) : home[k] \in 0 .. Len(comp.blocks)
  BY <1>1, HomeIsBlockOrNone
<1>4. new = [n \in DOMAIN ps |-> [type |-> type(n), episodes |-> ps[n]]]
  BY DEF Segments
<1> HIDE DEF eps, home, starts
<1>5. ps \in Seq(Seq(EpisodeType)) /\ Divides(eps, starts)
  BY <1>1, <1>2, PiecesEntries
<1>6. /\ Len(ps) = c /\ c \in Nat /\ \A n \in 1 .. c : at[n] \in starts
  BY <1>5 DEF Divides
<1>7. /\ \A n \in 1 .. c : \A j \in 1 .. Len(ps[n]) :
           at[n] + j - 1 \in 1 .. Len(eps) /\ ps[n][j] = eps[at[n] + j - 1]
      /\ \A k \in 1 .. Len(eps) : \E n \in 1 .. c : \E j \in 1 .. Len(ps[n]) : k = at[n] + j - 1
  <2>1. ASSUME NEW k \in 1 .. Len(eps) PROVE 1 \in starts
    BY <1>1, <1>2
  <2> QED BY <1>5, <2>1 DEF Divides
<1> HIDE DEF ps, at, c, new
<1>8. ASSUME NEW n \in 1 .. c PROVE ps[n] \in Seq(EpisodeType) /\ type(n) \in BlockTypes
  <2>1. at[n] \in 1 .. Len(eps)
    BY <1>2, <1>6
  <2>2. eps[at[n]].mode \in BlockTypes
    BY <1>1, <2>1, EpisodeAt
  <2>3. home[at[n]] \in 0 .. Len(comp.blocks)
    BY <1>3, <2>1
  <2>4. home[at[n]] # 0 => comp.blocks[home[at[n]]].type \in BlockTypes
    <3>1. home[at[n]] # 0 => home[at[n]] \in 1 .. Len(comp.blocks)
      BY <2>3
    <3> QED BY <1>1, <3>1, BlockAt
  <2>5. ps[n] \in Seq(EpisodeType)
    BY <1>5, <1>6, ElementOfSeq
  <2> QED BY <2>2, <2>4, <2>5
<1> HIDE DEF type
<1>9. new \in Seq(SegmentType) /\ Len(new) = c
  <2>1. DOMAIN ps = 1 .. c
    BY <1>5, <1>6, LenProperties
  <2>2. new \in [1 .. c -> SegmentType]
    BY <1>4, <1>8, <2>1 DEF SegmentType
  <2> QED BY <1>6, <2>2, SequenceOf
<1>10. \A n \in 1 .. c : new[n].episodes = ps[n]
  <2>1. DOMAIN ps = 1 .. c
    BY <1>5, <1>6, LenProperties
  <2> QED BY <1>4, <2>1
<1>11. ASSUME NEW n \in 1 .. c
       PROVE  ToSet(Ids(new[n].episodes)) = {ps[n][j].id : j \in 1 .. Len(ps[n])}
  BY <1>8, <1>10, IdsOf
<1>12. ToSet(Ids(eps)) = {eps[k].id : k \in 1 .. Len(eps)}
  BY <1>1, IdsOf
<1>13. NamesIn(new) \subseteq ToSet(Ids(eps))
  <2> SUFFICES ASSUME NEW n \in 1 .. c PROVE ToSet(Ids(new[n].episodes)) \subseteq ToSet(Ids(eps))
    BY <1>9 DEF NamesIn
  <2>0. ToSet(Ids(new[n].episodes)) = {ps[n][j].id : j \in 1 .. Len(ps[n])}
    BY <1>11
  <2> SUFFICES ASSUME NEW j \in 1 .. Len(ps[n]) PROVE ps[n][j].id \in ToSet(Ids(eps))
    BY <2>0
  <2>1. at[n] + j - 1 \in 1 .. Len(eps) /\ ps[n][j] = eps[at[n] + j - 1]
    BY <1>7
  <2> HIDE DEF NamesIn
  <2> QED BY <1>12, <2>1
<1>14. ToSet(Ids(eps)) \subseteq NamesIn(new)
  <2> SUFFICES ASSUME NEW k \in 1 .. Len(eps) PROVE eps[k].id \in NamesIn(new)
    BY <1>12
  <2>1. PICK n \in 1 .. c : \E j \in 1 .. Len(ps[n]) : k = at[n] + j - 1
    BY <1>7
  <2>2. PICK j \in 1 .. Len(ps[n]) : k = at[n] + j - 1
    BY <2>1
  <2>3. ps[n][j].id = eps[k].id
    BY <1>7, <2>2
  <2>4. eps[k].id \in ToSet(Ids(new[n].episodes))
    BY <1>11, <2>3
  <2> QED BY <1>9, <2>4 DEF NamesIn
<1> QED BY <1>9, <1>13, <1>14 DEF new, eps

(* The blocks are numbered from one. *)
Numbered(bks) == \A k \in 1 .. Len(bks) : bks[k].id = k

(* The arrangement numbers the blocks from one and leaves the names of the   *)
(* episodes and the topics as they are.                                      *)
LEMMA ArrangedKeeps ==
  ASSUME NEW comp \in CompositionType
  PROVE  /\ Arranged(comp) \in CompositionType /\ Numbered(Arranged(comp).blocks)
         /\ ToSet(Ids(Arranged(comp).episodes)) = ToSet(Ids(comp.episodes))
         /\ Arranged(comp).topics = comp.topics
<1> DEFINE breaks == MergedBreaks(Segments(comp))
           f == [k \in DOMAIN breaks |-> SplitPostGame(breaks[k])]
           played == FlattenSeq(f)
           g == [k \in DOMAIN played |-> SplitClosing(played[k])]
           closed == FlattenSeq(g)
           starts == {k \in DOMAIN closed : k = 1 \/ closed[k].type # closed[k - 1].type}
           segs == MergedTypes(closed)
           housed(k) == [j \in DOMAIN segs[k].episodes |-> [segs[k].episodes[j] EXCEPT !.block = k]]
           ss == [k \in DOMAIN segs |-> housed(k)]
           names == ToSet(Ids(comp.episodes))
           newEps == FlattenSeq(ss)
           newBks == [k \in DOMAIN segs |->
                       [id |-> k, type |-> segs[k].type, episodes |-> Ids(segs[k].episodes)]]
<1>1. Arranged(comp) = [episodes |-> newEps, blocks |-> newBks, topics |-> comp.topics]
  BY DEF Arranged
<1>2. breaks \in Seq(SegmentType) /\ NamesIn(breaks) = names
  BY SegmentsHoldEpisodes, MergedBreaksKeeps
<1> HIDE DEF breaks
<1>3. played \in Seq(SegmentType) /\ NamesIn(played) = names
  <2>1. DOMAIN breaks = 1 .. Len(breaks)
    BY <1>2, LenProperties
  <2>2. ASSUME NEW k \in 1 .. Len(breaks)
        PROVE  f[k] \in Seq(SegmentType) /\ NamesIn(f[k]) = ToSet(Ids(breaks[k].episodes))
    <3>1. breaks[k] \in SegmentType
      BY <1>2, SegmentAt
    <3> QED BY <2>1, <3>1, SplitPostGameKeeps
  <2>3. f \in [1 .. Len(breaks) -> Seq(SegmentType)]
    BY <2>1, <2>2
  <2> HIDE DEF f
  <2> QED BY <1>2, <2>2, <2>3, SplitSegments
<1> HIDE DEF played
<1>4. closed \in Seq(SegmentType) /\ NamesIn(closed) = names
  <2>1. DOMAIN played = 1 .. Len(played)
    BY <1>3, LenProperties
  <2>2. ASSUME NEW k \in 1 .. Len(played)
        PROVE  g[k] \in Seq(SegmentType) /\ NamesIn(g[k]) = ToSet(Ids(played[k].episodes))
    <3>1. played[k] \in SegmentType
      BY <1>3, SegmentAt
    <3> QED BY <2>1, <3>1, SplitClosingKeeps
  <2>3. g \in [1 .. Len(played) -> Seq(SegmentType)]
    BY <2>1, <2>2
  <2> HIDE DEF g
  <2> QED BY <1>3, <2>2, <2>3, SplitSegments
<1> HIDE DEF closed
<1>5. segs \in Seq(SegmentType) /\ NamesIn(segs) = names
  <2>1. segs = JoinedFrom(closed, starts)
    BY DEF MergedTypes
  <2>2. starts \subseteq 1 .. Len(closed) /\ (closed # <<>> => 1 \in starts)
    BY <1>4, LenProperties, EmptySeq
  <2> HIDE DEF starts, segs
  <2> QED BY <1>4, <2>1, <2>2, JoinedFromKeeps
<1> HIDE DEF segs
<1>6. DOMAIN segs = 1 .. Len(segs) /\ Len(segs) \in Nat
  BY <1>5, LenProperties
<1>7. ASSUME NEW k \in 1 .. Len(segs)
      PROVE  housed(k) \in Seq(EpisodeType) /\ Ids(housed(k)) = Ids(segs[k].episodes)
  <2> DEFINE eps == segs[k].episodes
  <2>1. eps \in Seq(EpisodeType) /\ DOMAIN eps = 1 .. Len(eps)
    BY <1>5, SegmentAt, LenProperties
  <2>2. ASSUME NEW j \in 1 .. Len(eps)
        PROVE  housed(k)[j] \in EpisodeType /\ housed(k)[j].id = eps[j].id
    <3>1. eps[j] \in EpisodeType
      BY <2>1, EpisodeAt
    <3>2. housed(k)[j] = [eps[j] EXCEPT !.block = k]
      BY <2>1
    <3>3. k \in Nat
      BY <1>6
    <3> QED BY <3>1, <3>2, <3>3 DEF EpisodeType
  <2>3. housed(k) \in [1 .. Len(eps) -> EpisodeType]
    BY <2>1, <2>2
  <2> HIDE DEF housed
  <2> QED BY <2>1, <2>2, <2>3, SameIds
<1> HIDE DEF housed
<1>8. newEps \in Seq(EpisodeType) /\ ToSet(Ids(newEps)) = names
  <2>1. ss \in Seq(Seq(EpisodeType)) /\ Len(ss) = Len(segs)
    <3>1. ss \in [1 .. Len(segs) -> Seq(EpisodeType)]
      BY <1>6, <1>7
    <3> HIDE DEF ss
    <3> QED BY <1>6, <3>1, SequenceOf
  <2>2. \A k \in 1 .. Len(segs) : Ids(ss[k]) = Ids(segs[k].episodes)
    BY <1>6, <1>7
  <2> HIDE DEF ss
  <2>3. newEps \in Seq(EpisodeType) /\ ToSet(Ids(newEps)) = UNION {ToSet(Ids(ss[i])) : i \in 1 .. Len(ss)}
    BY <2>1, FlattenedIds
  <2>4. NamesIn(segs) = UNION {ToSet(Ids(segs[k].episodes)) : k \in 1 .. Len(segs)}
    BY DEF NamesIn
  <2> QED BY <1>5, <2>1, <2>2, <2>3, <2>4
<1>9. newBks \in Seq(BlockType) /\ Numbered(newBks)
  <2>1. ASSUME NEW k \in 1 .. Len(segs)
        PROVE  [id |-> k, type |-> segs[k].type, episodes |-> Ids(segs[k].episodes)] \in BlockType
    <3>1. segs[k].type \in BlockTypes /\ segs[k].episodes \in Seq(EpisodeType)
      BY <1>5, SegmentAt
    <3>2. Ids(segs[k].episodes) \in Refs
      BY <3>1, IdsOf
    <3> QED BY <1>6, <3>1, <3>2 DEF BlockType
  <2>2. newBks \in [1 .. Len(segs) -> BlockType]
    BY <1>6, <2>1
  <2>3. \A k \in 1 .. Len(segs) : newBks[k].id = k
    BY <1>6
  <2> HIDE DEF newBks
  <2>4. newBks \in Seq(BlockType) /\ Len(newBks) = Len(segs)
    BY <1>6, <2>2, SequenceOf
  <2> QED BY <2>3, <2>4 DEF Numbered
<1>10. comp.topics \in Seq(Refs)
  BY CompositionFields
<1> HIDE DEF newEps, newBks, names
<1> QED BY <1>1, <1>8, <1>9, <1>10 DEF CompositionType, names

-----------------------------------------------------------------------------
(* What is stored, left behind or being patched is whole: storable, its blocks *)
(* have numbers of their own, one of them the number one, and its topics name  *)
(* its episodes.  Because blocks are numbered from one, no whole composition   *)
(* can be stored over the rest of another one.                                 *)
Whole(comp) ==
  /\ Storable(comp) /\ UniqueIds(comp.blocks)
  /\ 1 \in ToSet(Ids(comp.blocks))
  /\ Resolves(comp.topics, ToSet(Ids(comp.episodes)))
WholeOrNothing(comp) == comp = Nothing \/ Whole(comp)

Busy == Stages \ {"composing", "stored", "failed"}

(* The inductive invariant.  The ranges that are repaired begin and end at     *)
(* episodes, so an attempt at work has one; a broad episode is valid.          *)
TimelineInvariant ==
  /\ TypeOK
  /\ stage \in Busy => composition.episodes # <<>>
  /\ Resolves(composition.topics, ToSet(Ids(composition.episodes)))
  /\ Plural(given.topics) => Plural(composition.topics)
  /\ stage = "validating" => Numbered(composition.blocks)
  /\ \A i \in 1 .. Len(targets) : Valid(targets[i])
  /\ WholeOrNothing(stored) /\ WholeOrNothing(orphans)
  /\ \A p \in Patchers : WholeOrNothing(patching[p])

(* Ids are unique when different positions have different ids. *)
LEMMA UniqueIdsAre ==
  ASSUME NEW T, NEW items \in Seq(T)
  PROVE  UniqueIds(items) <=>
           \A j, k \in 1 .. Len(items) : items[j].id = items[k].id => j = k
<1> DEFINE n == Len(items)
           I == {items[k].id : k \in 1 .. n}
           f == [k \in 1 .. n |-> items[k].id]
<1>1. n \in Nat /\ DOMAIN items = 1 .. n
  BY LenProperties
<1>2. ToSet(Ids(items)) = I
  <2>1. Ids(items) = f
    BY <1>1 DEF Ids
  <2> QED BY <2>1 DEF ToSet
<1>3. IsFiniteSet(1 .. n) /\ Cardinality(1 .. n) = n
  <2>1. IsFiniteSet(1 .. n) /\ Cardinality(1 .. n) = IF 1 > n THEN 0 ELSE n - 1 + 1
    BY <1>1, FS_Interval
  <2> QED BY <1>1, <2>1
<1>4. f \in Surjection(1 .. n, I)
  BY DEF Surjection
<1>5. Cardinality(I) = Cardinality(1 .. n) <=> f \in Injection(1 .. n, I)
  <2> HIDE DEF f, I
  <2> QED BY <1>3, <1>4, FS_Surjection
<1>6. f \in [1 .. n -> I]
  OBVIOUS
<1>7. f \in Injection(1 .. n, I) <=> \A j, k \in 1 .. n : f[j] = f[k] => j = k
  <2> HIDE DEF f, I
  <2> QED BY <1>6 DEF Injection, IsInjective
<1>8. \A k \in 1 .. n : f[k] = items[k].id
  OBVIOUS
<1>9. UniqueIds(items) <=> Cardinality(I) = n
  BY <1>2 DEF UniqueIds
<1> HIDE DEF f, I, n
<1>10. UniqueIds(items) <=> \A j, k \in 1 .. n : f[j] = f[k] => j = k
  BY <1>3, <1>5, <1>7, <1>9
<1> QED BY <1>8, <1>10 DEF n

(* The absence of a composition is of the type, but is not whole.            *)
LEMMA NothingIs ==
  /\ Nothing \in CompositionType /\ Nothing.episodes = <<>> /\ Nothing.blocks = <<>>
  /\ Nothing.topics = <<>> /\ ~Whole(Nothing)
  /\ Resolves(Nothing.topics, ToSet(Ids(Nothing.episodes))) /\ Plural(Nothing.topics)
<1>1. Nothing.episodes = <<>> /\ Nothing.blocks = <<>> /\ Nothing.topics = <<>>
  BY DEF Nothing
<1>2. Nothing \in CompositionType
  <2>1. <<>> \in Seq(EpisodeType) /\ <<>> \in Seq(BlockType) /\ <<>> \in Seq(Refs)
    BY EmptySeq
  <2> QED BY <2>1 DEF Nothing, CompositionType
<1>3. ~Covered(Nothing.episodes)
  <2>1. Len(<<>>) = 0
    BY EmptySeq
  <2>2. StartOf(<<>>, 1) = 1
    BY DEF StartOf
  <2> QED BY <1>1, <2>1, <2>2, MicroEventAt DEF Covered
<1>4. Resolves(<<>>, ToSet(Ids(Nothing.episodes))) /\ Plural(<<>>)
  BY DEF Resolves, Plural
<1> QED BY <1>1, <1>2, <1>3, <1>4 DEF Whole, Storable

(* What a whole composition's episodes and blocks say of each other. *)
Housed(comp) ==
  /\ \A a, b \in 1 .. Len(comp.blocks) : comp.blocks[a].id = comp.blocks[b].id => a = b
  /\ \A k \in 1 .. Len(comp.episodes) : \E b \in 1 .. Len(comp.blocks) :
       /\ comp.blocks[b].id = comp.episodes[k].block
       /\ comp.episodes[k].id \in ToSet(comp.blocks[b].episodes)
  /\ \A b \in 1 .. Len(comp.blocks) : ToSet(comp.blocks[b].episodes) \subseteq ToSet(Ids(comp.episodes))
  /\ 1 \in ToSet(Ids(comp.blocks))

(* The ids of blocks.                                                        *)
LEMMA BlockIds ==
  ASSUME NEW bks \in Seq(BlockType)
  PROVE  /\ Len(bks) \in Nat /\ DOMAIN bks = 1 .. Len(bks)
         /\ ToSet(Ids(bks)) = {bks[b].id : b \in 1 .. Len(bks)}
<1>1. Len(bks) \in Nat /\ DOMAIN bks = 1 .. Len(bks)
  BY LenProperties
<1>2. Ids(bks) = [b \in 1 .. Len(bks) |-> bks[b].id]
  BY <1>1 DEF Ids
<1> QED BY <1>1, <1>2 DEF ToSet

(* When blocks hold their episodes, each episode is listed by the block it   *)
(* names.                                                                    *)
LEMMA ListedOnce ==
  ASSUME NEW comp \in CompositionType, BlocksHold(comp)
  PROVE  /\ \A k \in 1 .. Len(comp.episodes) : \E b \in 1 .. Len(comp.blocks) :
              /\ comp.blocks[b].id = comp.episodes[k].block
              /\ comp.episodes[k].id \in ToSet(comp.blocks[b].episodes)
         /\ \A b \in 1 .. Len(comp.blocks) :
              ToSet(comp.blocks[b].episodes) \subseteq ToSet(Ids(comp.episodes))
<1> DEFINE eps == comp.episodes
           bks == comp.blocks
           ss == [b \in DOMAIN bks |-> bks[b].episodes]
<1>1. eps \in Seq(EpisodeType) /\ bks \in Seq(BlockType) /\ DOMAIN eps = 1 .. Len(eps)
      /\ DOMAIN bks = 1 .. Len(bks) /\ Len(bks) \in Nat
  BY CompositionFields
<1>2. FlattenSeq(ss) = Ids(eps)
  BY DEF BlocksHold
<1>3. \A b \in 1 .. Len(bks) : \A k \in 1 .. Len(eps) :
        eps[k].id \in ToSet(bks[b].episodes) => eps[k].block = bks[b].id
  BY <1>1 DEF BlocksHold
<1> HIDE DEF eps, bks
<1>4. ss \in Seq(Refs) /\ Len(ss) = Len(bks)
  <2>1. ss \in [1 .. Len(bks) -> Refs]
    BY <1>1, BlockAt
  <2> HIDE DEF ss
  <2> QED BY <1>1, <2>1, SequenceOf
<1>5. \A b \in 1 .. Len(bks) : ss[b] = bks[b].episodes
  BY <1>1
<1> HIDE DEF ss
<1>6. ToSet(Ids(eps)) = UNION {ToSet(ss[b]) : b \in 1 .. Len(ss)}
  BY <1>2, <1>4, FlattenMembers DEF Refs
<1>7. \A b \in 1 .. Len(bks) : ToSet(bks[b].episodes) \subseteq ToSet(Ids(eps))
  BY <1>4, <1>5, <1>6
<1>8. ASSUME NEW k \in 1 .. Len(eps)
      PROVE  \E b \in 1 .. Len(bks) : bks[b].id = eps[k].block /\ eps[k].id \in ToSet(bks[b].episodes)
  <2>1. eps[k].id \in ToSet(Ids(eps))
    BY <1>1, IdsOf
  <2>2. PICK b \in 1 .. Len(bks) : eps[k].id \in ToSet(ss[b])
    BY <1>4, <1>6, <2>1
  <2> QED BY <1>3, <1>5, <2>2
<1> QED BY <1>7, <1>8 DEF eps, bks

(* In a whole composition every episode is in the block it names.            *)
LEMMA WholeIsHoused ==
  ASSUME NEW comp \in CompositionType, Whole(comp)
  PROVE  Housed(comp) /\ comp # Nothing
<1>1. comp.blocks \in Seq(BlockType)
  BY CompositionFields
<1>2. \A a, b \in 1 .. Len(comp.blocks) : comp.blocks[a].id = comp.blocks[b].id => a = b
  BY <1>1, UniqueIdsAre DEF Whole
<1>3. BlocksHold(comp) /\ 1 \in ToSet(Ids(comp.blocks))
  BY DEF Whole, Storable
<1>4. comp # Nothing
  BY NothingIs
<1> QED BY <1>2, <1>3, <1>4, ListedOnce DEF Housed

(* A finite set of numbers has a largest one.                                *)
LEMMA MaxOfFinite ==
  ASSUME NEW S, S \subseteq Nat, IsFiniteSet(S), S # {}
  PROVE  Max(S) \in S /\ \A y \in S : y <= Max(S)
<1> DEFINE c == Cardinality(S)
           m == InOrder(S)[c]
<1>1. /\ c \in Nat /\ \A n \in 1 .. c : InOrder(S)[n] \in S
      /\ \A k \in S : \E n \in 1 .. c : InOrder(S)[n] = k
      /\ \A i, n \in 1 .. c : i < n => InOrder(S)[i] < InOrder(S)[n]
  BY InOrderLists
<1> HIDE DEF c
<1>2. c \in 1 .. c
  <2>1. PICK n \in 1 .. c : TRUE
    BY <1>1
  <2> QED BY <1>1, <2>1
<1>3. m \in S /\ m \in Nat
  BY <1>1, <1>2
<1>4. ASSUME NEW y \in S PROVE y <= m
  <2>1. PICK n \in 1 .. c : InOrder(S)[n] = y
    BY <1>1
  <2>2. CASE n = c
    <3>1. y = m
      BY <2>1, <2>2
    <3> QED BY <1>3, <3>1
  <2>3. CASE n # c
    <3>1. n < c
      BY <1>1, <2>3
    <3>2. y < m
      BY <1>1, <1>2, <2>1, <3>1
    <3> QED BY <1>3, <3>2
  <2> QED BY <2>2, <2>3
<1>5. \E z \in S : \A y \in S : z >= y
  <2>1. \A y \in S : m >= y
    BY <1>3, <1>4
  <2> QED BY <1>3, <2>1
<1>6. Max(S) = CHOOSE z \in S : \A y \in S : z >= y
  BY DEF Max
<1>7. Max(S) \in S /\ \A y \in S : Max(S) >= y
  BY <1>5, <1>6
<1> QED BY <1>7

(* What comes of an insertion: e is at i, what followed is one further on. *)
OneFurther(s, i, e, new) ==
  /\ Len(new) = Len(s) + 1
  /\ \A j \in 1 .. Len(s) + 1 : new[j] = IF j < i THEN s[j] ELSE IF j = i THEN e ELSE s[j - 1]

(* Inserting moves what follows one further on.                              *)
LEMMA InsertAtEntries ==
  ASSUME NEW T, NEW s \in Seq(T), NEW i \in 1 .. Len(s) + 1, NEW e \in T
  PROVE  InsertAt(s, i, e) \in Seq(T) /\ OneFurther(s, i, e, InsertAt(s, i, e))
<1> DEFINE left == SubSeq(s, 1, i - 1)
           right == SubSeq(s, i, Len(s))
           first == left \o <<e>>
<1>1. Len(s) \in Nat /\ \A k \in 1 .. Len(s) : s[k] \in T
  BY LenProperties, ElementOfSeq
<1>2. left \in Seq(T) /\ Len(left) = i - 1 /\ \A k \in 1 .. i - 1 : left[k] = s[k]
  <2>1. 1 \in Int /\ i - 1 \in Int /\ \A k \in 1 .. i - 1 : s[k] \in T
    BY <1>1
  <2>2. /\ left \in Seq(T) /\ Len(left) = IF 1 <= i - 1 THEN i - 1 - 1 + 1 ELSE 0
        /\ \A k \in 1 .. i - 1 - 1 + 1 : left[k] = s[1 + k - 1]
    BY <2>1, SubSeqProperties
  <2>3. \A k \in 1 .. i - 1 : k \in 1 .. i - 1 - 1 + 1 /\ 1 + k - 1 = k
    BY <1>1
  <2> QED BY <1>1, <2>2, <2>3
<1>3. /\ right \in Seq(T) /\ Len(right) = Len(s) - i + 1
      /\ \A k \in 1 .. Len(s) - i + 1 : right[k] = s[i + k - 1]
  <2>1. i \in Int /\ Len(s) \in Int /\ \A k \in i .. Len(s) : s[k] \in T
    BY <1>1
  <2>2. /\ right \in Seq(T) /\ Len(right) = IF i <= Len(s) THEN Len(s) - i + 1 ELSE 0
        /\ \A k \in 1 .. Len(s) - i + 1 : right[k] = s[i + k - 1]
    BY <2>1, SubSeqProperties
  <2> QED BY <1>1, <2>2
<1>4. InsertAt(s, i, e) = first \o right
  BY DEF InsertAt
<1> HIDE DEF left, right
<1>5. <<e>> \in Seq(T) /\ Len(<<e>>) = 1 /\ <<e>>[1] = e
  OBVIOUS
<1>6. /\ first \in Seq(T) /\ Len(first) = i
      /\ \A k \in 1 .. i : first[k] = IF k < i THEN s[k] ELSE e
  <2>1. /\ first \in Seq(T) /\ Len(first) = i - 1 + 1
        /\ \A k \in 1 .. i - 1 + 1 : first[k] = IF k <= i - 1 THEN left[k] ELSE <<e>>[k - (i - 1)]
    BY <1>2, <1>5, ConcatProperties
  <2>2. ASSUME NEW k \in 1 .. i PROVE first[k] = IF k < i THEN s[k] ELSE e
    <3>1. k \in 1 .. i - 1 + 1
      BY <1>1
    <3>2. CASE k < i
      <4>1. k <= i - 1 /\ k \in 1 .. i - 1
        BY <1>1, <3>2
      <4> QED BY <1>2, <2>1, <3>1, <3>2, <4>1
    <3>3. CASE ~(k < i)
      <4>1. ~(k <= i - 1) /\ k - (i - 1) = 1
        BY <1>1, <3>3
      <4> QED BY <1>5, <2>1, <3>1, <3>3, <4>1
    <3> QED BY <3>2, <3>3
  <2>3. Len(first) = i
    BY <1>1, <2>1
  <2> QED BY <2>1, <2>2, <2>3
<1> HIDE DEF first
<1>7. /\ first \o right \in Seq(T) /\ Len(first \o right) = i + (Len(s) - i + 1)
      /\ \A j \in 1 .. i + (Len(s) - i + 1) :
           (first \o right)[j] = IF j <= i THEN first[j] ELSE right[j - i]
  <2>1. /\ first \o right \in Seq(T) /\ Len(first \o right) = Len(first) + Len(right)
        /\ \A j \in 1 .. Len(first) + Len(right) :
             (first \o right)[j] = IF j <= Len(first) THEN first[j] ELSE right[j - Len(first)]
    <3>1. first \in Seq(T) /\ right \in Seq(T)
      BY <1>3, <1>6
    <3> QED BY <3>1, ConcatProperties
  <2>2. Len(first) = i /\ Len(right) = Len(s) - i + 1
    BY <1>3, <1>6
  <2> QED BY <2>1, <2>2
<1>8. ASSUME NEW j \in 1 .. Len(s) + 1
      PROVE  (first \o right)[j] = IF j < i THEN s[j] ELSE IF j = i THEN e ELSE s[j - 1]
  <2>1. j \in 1 .. i + (Len(s) - i + 1)
    BY <1>1
  <2>2. CASE j <= i
    <3>1. j \in 1 .. i
      BY <1>1, <2>2
    <3>2. (first \o right)[j] = first[j]
      BY <1>7, <2>1, <2>2
    <3> QED BY <1>1, <1>6, <2>2, <3>1, <3>2
  <2>3. CASE ~(j <= i)
    <3>1. j - i \in 1 .. Len(s) - i + 1 /\ i + (j - i) - 1 = j - 1 /\ ~(j < i) /\ j # i
      BY <1>1, <2>3
    <3>2. (first \o right)[j] = right[j - i]
      BY <1>7, <2>1, <2>3
    <3>3. right[j - i] = s[i + (j - i) - 1]
      BY <1>3, <3>1
    <3> QED BY <3>1, <3>2, <3>3
  <2> QED BY <2>2, <2>3
<1>9. Len(first \o right) = Len(s) + 1
  BY <1>1, <1>7
<1> QED BY <1>4, <1>7, <1>8, <1>9 DEF OneFurther

(* The number of a new block is that of no other. *)
LEMMA NextBlockIdIsFree ==
  ASSUME NEW bks \in Seq(BlockType), bks # <<>>
  PROVE  NextBlockId(bks) \in Nat /\ \A b \in 1 .. Len(bks) : bks[b].id # NextBlockId(bks)
<1> DEFINE I == ToSet(Ids(bks))
<1>1. Len(bks) \in Nat \ {0} /\ I = {bks[b].id : b \in 1 .. Len(bks)}
  BY BlockIds, EmptySeq
<1>2. I \subseteq Nat
  BY <1>1, BlockAt
<1>3. I # {}
  <2>1. 1 \in 1 .. Len(bks)
    BY <1>1
  <2> QED BY <1>1, <2>1
<1>4. IsFiniteSet(I)
  <2> DEFINE f == [b \in 1 .. Len(bks) |-> bks[b].id]
  <2>1. IsFiniteSet(1 .. Len(bks))
    BY <1>1, FS_Interval
  <2>2. f \in Surjection(1 .. Len(bks), I)
    BY <1>1 DEF Surjection
  <2> HIDE DEF f, I
  <2> QED BY <2>1, <2>2, FS_Surjection
<1>5. NextBlockId(bks) = Max(I) + 1
  BY DEF NextBlockId
<1> HIDE DEF I
<1>6. Max(I) \in Nat /\ \A y \in I : y \in Nat /\ y <= Max(I)
  BY <1>2, <1>3, <1>4, MaxOfFinite
<1>7. ASSUME NEW b \in 1 .. Len(bks) PROVE bks[b].id # Max(I) + 1
  <2>1. bks[b].id \in I
    BY <1>1
  <2> QED BY <1>6, <2>1
<1> QED BY <1>5, <1>6, <1>7

(* The position that is looked up by id has that id.                         *)
LEMMA PositionOf ==
  ASSUME NEW T, NEW items \in Seq(T), NEW id, \E k \in 1 .. Len(items) : items[k].id = id
  PROVE  PositionIn(id, items) \in 1 .. Len(items) /\ items[PositionIn(id, items)].id = id
<1>1. DOMAIN items = 1 .. Len(items)
  BY LenProperties
<1> QED BY <1>1 DEF PositionIn

(* Splitting a block keeps the episodes but for their block, and the blocks    *)
(* keep holding them.                                                          *)
SplitOf(comp, new) ==
  /\ new \in CompositionType /\ Housed(new) /\ new.topics = comp.topics
  /\ Len(new.episodes) = Len(comp.episodes) /\ Ids(new.episodes) = Ids(comp.episodes)
  /\ \A k \in 1 .. Len(comp.episodes) :
       /\ new.episodes[k].first = comp.episodes[k].first
       /\ new.episodes[k].last = comp.episodes[k].last

(* A patch that splits a block after an episode changes blocks only:         *)
(* episodes keep id and range, and each is in the block that it now names.   *)
LEMMA SplitBlockAfterKeeps ==
  ASSUME NEW comp \in CompositionType, Housed(comp), NEW id, CanSplitAfter(id, comp)
  PROVE  SplitOf(comp, SplitBlockAfter(id, comp))
<1> DEFINE eps == comp.episodes
           bks == comp.blocks
           p == PositionIn(id, eps)
           b == PositionIn(eps[p].block, bks)
           refs == bks[b].episodes
           at == CHOOSE k \in DOMAIN refs : refs[k] = id
           moved == SubSeq(refs, at + 1, Len(refs))
           number == NextBlockId(bks)
           new == [id |-> number, episodes |-> moved, type |-> eps[PositionIn(Head(moved), eps)].mode]
           cut == [bks EXCEPT ![b].episodes = SubSeq(refs, 1, at)]
           newBks == InsertAt(cut, b + 1, new)
           newEps == [k \in DOMAIN eps |-> IF eps[k].id \in ToSet(moved)
                                           THEN [eps[k] EXCEPT !.block = number] ELSE eps[k]]
<1>1. /\ eps \in Seq(EpisodeType) /\ bks \in Seq(BlockType) /\ comp.topics \in Seq(Refs)
      /\ DOMAIN eps = 1 .. Len(eps) /\ Len(eps) \in Nat
      /\ DOMAIN bks = 1 .. Len(bks) /\ Len(bks) \in Nat
  BY CompositionFields, SMTT(30)
<1>2. id \in ToSet(Ids(eps)) /\ id # Last(refs)
  BY DEF CanSplitAfter
<1>3. SplitBlockAfter(id, comp) = [comp EXCEPT !.blocks = newBks, !.episodes = newEps]
  BY DEF SplitBlockAfter
<1>4. /\ \A a, c \in 1 .. Len(bks) : bks[a].id = bks[c].id => a = c
      /\ \A k \in 1 .. Len(eps) : \E c \in 1 .. Len(bks) :
           bks[c].id = eps[k].block /\ eps[k].id \in ToSet(bks[c].episodes)
      /\ \A c \in 1 .. Len(bks) : ToSet(bks[c].episodes) \subseteq ToSet(Ids(eps))
      /\ 1 \in ToSet(Ids(bks))
  BY DEF Housed
<1> HIDE DEF eps, bks
<1>5. p \in 1 .. Len(eps) /\ eps[p].id = id
  <2>1. \E k \in 1 .. Len(eps) : eps[k].id = id
    BY <1>1, <1>2, IdsOf
  <2> QED BY <1>1, <2>1, PositionOf
<1> HIDE DEF p
<1>6. b \in 1 .. Len(bks) /\ bks[b].id = eps[p].block /\ id \in ToSet(refs)
  <2>1. PICK c \in 1 .. Len(bks) : bks[c].id = eps[p].block /\ id \in ToSet(bks[c].episodes)
    BY <1>4, <1>5
  <2>2. b \in 1 .. Len(bks) /\ bks[b].id = eps[p].block
    BY <1>1, <2>1, PositionOf
  <2>3. b = c
    BY <1>4, <2>1, <2>2
  <2> QED BY <2>1, <2>2, <2>3
<1>7. refs \in Seq(Seq(Nat)) /\ refs \in Refs /\ ToSet(refs) \subseteq ToSet(Ids(eps))
  BY <1>1, <1>4, <1>6, BlockAt DEF Refs
<1> HIDE DEF b, refs
<1>8. /\ DOMAIN refs = 1 .. Len(refs) /\ Len(refs) \in Nat
      /\ ToSet(refs) = {refs[k] : k \in 1 .. Len(refs)}
  BY <1>7, LenProperties, ToSetOf DEF Refs
<1>9. at \in 1 .. Len(refs) /\ refs[at] = id
  BY <1>6, <1>8
<1>10. at < Len(refs)
  <2>1. refs[Len(refs)] # id
    BY <1>2 DEF Last
  <2> QED BY <1>8, <1>9, <2>1
<1> HIDE DEF at
<1>11. moved \in Seq(Seq(Nat)) /\ ToSet(moved) = {refs[k] : k \in at + 1 .. Len(refs)}
  <2>1. PICK m \in 1 .. Len(refs) + 1 : m = at + 1
    <3>1. at + 1 \in 1 .. Len(refs) + 1
      BY <1>8, <1>9
    <3> QED BY <3>1
  <2>2. Len(refs) \in 0 .. Len(refs)
    BY <1>8
  <2>3. /\ SubSeq(refs, m, Len(refs)) \in Seq(Seq(Nat))
        /\ ToSet(SubSeq(refs, m, Len(refs))) = {refs[k] : k \in m .. Len(refs)}
    BY <1>7, <2>2, SubSeqMembers
  <2> QED BY <2>1, <2>3
<1>12. SubSeq(refs, 1, at) \in Seq(Seq(Nat)) /\ ToSet(SubSeq(refs, 1, at)) = {refs[k] : k \in 1 .. at}
  <2>1. 1 \in 1 .. Len(refs) + 1 /\ at \in 0 .. Len(refs)
    BY <1>8, <1>9
  <2> QED BY <1>7, <2>1, SubSeqMembers
<1>13. ToSet(refs) = ToSet(SubSeq(refs, 1, at)) \cup ToSet(moved)
  <2>1. 1 .. Len(refs) = (1 .. at) \cup (at + 1 .. Len(refs))
    BY <1>8, <1>9
  <2> QED BY <1>8, <1>11, <1>12, <2>1
<1> HIDE DEF moved
<1>14. Head(moved) \in ToSet(moved)
  <2>1. at + 1 \in at + 1 .. Len(refs)
    BY <1>8, <1>9, <1>10
  <2>2. ToSet(moved) # {}
    BY <1>11, <2>1
  <2>3. moved # <<>>
    <3>1. ToSet(<<>>) = {}
      BY DEF ToSet
    <3> QED BY <2>2, <3>1
  <2>4. moved[1] \in ToSet(moved)
    BY <1>11, <2>3, ToSetOf
  <2> QED BY <2>3, <2>4
<1>15. number \in Nat /\ \A c \in 1 .. Len(bks) : bks[c].id # number
  <2>1. bks # <<>>
    BY <1>1, <1>6, EmptySeq
  <2> QED BY <1>1, <2>1, NextBlockIdIsFree
<1> HIDE DEF number
<1>16. new \in BlockType
  <2>1. Head(moved) \in ToSet(Ids(eps))
    BY <1>7, <1>13, <1>14
  <2>2. \E k \in 1 .. Len(eps) : eps[k].id = Head(moved)
    <3>1. ToSet(Ids(eps)) = {eps[k].id : k \in 1 .. Len(eps)}
      BY <1>1, IdsOf
    <3> QED BY <2>1, <3>1
  <2>3. PositionIn(Head(moved), eps) \in 1 .. Len(eps)
    BY <1>1, <2>2, PositionOf
  <2>4. eps[PositionIn(Head(moved), eps)].mode \in BlockTypes
    BY <1>1, <2>3, EpisodeAt
  <2> QED BY <1>11, <1>15, <2>4 DEF BlockType, Refs
<1>17. cut \in Seq(BlockType) /\ Len(cut) = Len(bks)
  <2>1. ASSUME NEW c \in 1 .. Len(bks) PROVE cut[c] \in BlockType
    <3>1. bks[c] \in BlockType
      BY <1>1, BlockAt
    <3> QED BY <1>1, <1>12, <3>1 DEF BlockType, Refs
  <2>2. cut \in [1 .. Len(bks) -> BlockType]
    <3>1. DOMAIN cut = 1 .. Len(bks) /\ cut = [c \in DOMAIN cut |-> cut[c]]
      BY <1>1
    <3> QED BY <2>1, <3>1
  <2> HIDE DEF cut
  <2> QED BY <1>1, <2>2, SequenceOf
<1>18. \A c \in 1 .. Len(bks) :
         cut[c].id = bks[c].id
           /\ cut[c].episodes = IF c = b THEN SubSeq(refs, 1, at) ELSE bks[c].episodes
  <2> TAKE c \in 1 .. Len(bks)
  <2>1. bks[c] \in BlockType
    BY <1>1, BlockAt
  <2> QED BY <1>1, <2>1 DEF BlockType
<1>19. new.id = number /\ new.episodes = moved
  OBVIOUS
<1> HIDE DEF cut, new
<1>20. /\ newBks \in Seq(BlockType) /\ Len(newBks) = Len(bks) + 1
       /\ \A j \in 1 .. Len(bks) + 1 :
            newBks[j] = IF j < b + 1 THEN cut[j] ELSE IF j = b + 1 THEN new ELSE cut[j - 1]
  <2>1. PICK m \in 1 .. Len(cut) + 1 : m = b + 1
    <3>1. b + 1 \in 1 .. Len(cut) + 1
      BY <1>1, <1>6, <1>17
    <3> QED BY <3>1
  <2>2. newBks \in Seq(BlockType) /\ OneFurther(cut, m, new, newBks)
    BY <1>16, <1>17, <2>1, InsertAtEntries
  <2> QED BY <1>17, <2>1, <2>2 DEF OneFurther
<1> HIDE DEF newBks
<1>21. /\ newEps \in Seq(EpisodeType) /\ Len(newEps) = Len(eps) /\ Ids(newEps) = Ids(eps)
       /\ \A k \in 1 .. Len(eps) :
            /\ newEps[k].first = eps[k].first /\ newEps[k].last = eps[k].last
            /\ newEps[k].id = eps[k].id
            /\ newEps[k].block = IF eps[k].id \in ToSet(moved) THEN number ELSE eps[k].block
  <2>1. ASSUME NEW k \in 1 .. Len(eps)
        PROVE  /\ newEps[k] \in EpisodeType
               /\ newEps[k].first = eps[k].first /\ newEps[k].last = eps[k].last
               /\ newEps[k].id = eps[k].id
               /\ newEps[k].block = IF eps[k].id \in ToSet(moved) THEN number ELSE eps[k].block
    <3>1. eps[k] \in EpisodeType
      BY <1>1, EpisodeAt
    <3>2. newEps[k] = IF eps[k].id \in ToSet(moved) THEN [eps[k] EXCEPT !.block = number] ELSE eps[k]
      BY <1>1
    <3> HIDE DEF newEps
    <3> QED BY <1>15, <3>1, <3>2 DEF EpisodeType
  <2>2. newEps \in [1 .. Len(eps) -> EpisodeType]
    BY <1>1, <2>1
  <2> HIDE DEF newEps
  <2> QED BY <1>1, <2>1, <2>2, SameIds
<1> HIDE DEF newEps
<1> DEFINE moves(c) == IF c < b + 1 THEN c ELSE c + 1
<1>22. ASSUME NEW c \in 1 .. Len(bks)
       PROVE  moves(c) \in 1 .. Len(newBks) /\ newBks[moves(c)] = cut[c]
  <2>1. CASE c < b + 1
    <3>1. c \in 1 .. Len(bks) + 1
      BY <1>1
    <3> QED BY <1>20, <2>1, <3>1
  <2>2. CASE ~(c < b + 1)
    <3>1. c + 1 \in 1 .. Len(bks) + 1 /\ ~(c + 1 < b + 1) /\ c + 1 # b + 1 /\ c + 1 - 1 = c
      BY <1>1, <1>6, <2>2
    <3> QED BY <1>20, <2>2, <3>1
  <2> QED BY <2>1, <2>2
<1>23. b + 1 \in 1 .. Len(newBks) /\ newBks[b + 1] = new
  <2>1. b + 1 \in 1 .. Len(bks) + 1 /\ ~(b + 1 < b + 1)
    BY <1>1, <1>6
  <2> QED BY <1>20, <2>1
<1>24. ASSUME NEW j \in 1 .. Len(newBks)
       PROVE  j = b + 1 \/ \E c \in 1 .. Len(bks) : j = moves(c)
  <2>1. CASE j < b + 1
    <3>1. j \in 1 .. Len(bks)
      BY <1>1, <1>6, <1>20, <2>1
    <3> QED BY <2>1, <3>1
  <2>2. CASE j > b + 1
    <3>1. PICK c \in 1 .. Len(bks) : c + 1 = j
      <4>1. j - 1 \in 1 .. Len(bks) /\ j - 1 + 1 = j
        BY <1>1, <1>6, <1>20, <2>2
      <4> QED BY <4>1
    <3>2. ~(c < b + 1)
      BY <1>1, <1>6, <2>2, <3>1
    <3> QED BY <3>1, <3>2
  <2> QED BY <1>1, <1>6, <1>20, <2>1, <2>2
<1> HIDE DEF moves
<1>25. \A c \in 1 .. Len(bks) :
         newBks[moves(c)].id = bks[c].id
           /\ newBks[moves(c)].episodes = IF c = b THEN SubSeq(refs, 1, at) ELSE bks[c].episodes
  BY <1>18, <1>22
<1> DEFINE result == [episodes |-> newEps, blocks |-> newBks, topics |-> comp.topics]
<1>26. SplitBlockAfter(id, comp) = result
  BY <1>3 DEF CompositionType
<1>27. \A a, c \in 1 .. Len(newBks) : newBks[a].id = newBks[c].id => a = c
  <2> SUFFICES ASSUME NEW a \in 1 .. Len(newBks), NEW c \in 1 .. Len(newBks),
                      newBks[a].id = newBks[c].id
               PROVE  a = c
    OBVIOUS
  <2>1. CASE a = b + 1 /\ c = b + 1
    BY <2>1
  <2>2. CASE a = b + 1 /\ c # b + 1
    <3>1. PICK d \in 1 .. Len(bks) : c = moves(d)
      BY <1>24, <2>2
    <3> QED BY <1>15, <1>19, <1>23, <1>25, <2>2, <3>1
  <2>3. CASE a # b + 1 /\ c = b + 1
    <3>1. PICK d \in 1 .. Len(bks) : a = moves(d)
      BY <1>24, <2>3
    <3> QED BY <1>15, <1>19, <1>23, <1>25, <2>3, <3>1
  <2>4. CASE a # b + 1 /\ c # b + 1
    <3>1. PICK d \in 1 .. Len(bks) : a = moves(d)
      BY <1>24, <2>4
    <3>2. PICK h \in 1 .. Len(bks) : c = moves(h)
      BY <1>24, <2>4
    <3> QED BY <1>4, <1>25, <3>1, <3>2
  <2> QED BY <2>1, <2>2, <2>3, <2>4
<1>28. ASSUME NEW k \in 1 .. Len(newEps)
       PROVE  \E j \in 1 .. Len(newBks) :
                newBks[j].id = newEps[k].block /\ newEps[k].id \in ToSet(newBks[j].episodes)
  <2>1. k \in 1 .. Len(eps)
    BY <1>21
  <2>2. CASE eps[k].id \in ToSet(moved)
    <3>1. newEps[k].block = number /\ newEps[k].id \in ToSet(moved)
      BY <1>21, <2>1, <2>2
    <3> QED BY <1>19, <1>23, <3>1
  <2>3. CASE eps[k].id \notin ToSet(moved)
    <3>1. PICK c \in 1 .. Len(bks) : bks[c].id = eps[k].block /\ eps[k].id \in ToSet(bks[c].episodes)
      BY <1>4, <2>1
    <3>2. newEps[k].block = eps[k].block /\ newEps[k].id = eps[k].id
      BY <1>21, <2>1, <2>3
    <3>3. eps[k].id \in ToSet(newBks[moves(c)].episodes)
      <4>1. CASE c = b
        BY <1>13, <1>25, <2>3, <3>1, <4>1 DEF refs
      <4>2. CASE c # b
        BY <1>25, <3>1, <4>2
      <4> QED BY <4>1, <4>2
    <3> QED BY <1>22, <1>25, <3>1, <3>2, <3>3
  <2> QED BY <2>2, <2>3
<1>29. ASSUME NEW j \in 1 .. Len(newBks)
       PROVE  ToSet(newBks[j].episodes) \subseteq ToSet(Ids(newEps))
  <2>1. CASE j = b + 1
    BY <1>7, <1>13, <1>19, <1>21, <1>23, <2>1
  <2>2. CASE j # b + 1
    <3>1. PICK c \in 1 .. Len(bks) : j = moves(c)
      BY <1>24, <2>2
    <3>2. ToSet(newBks[j].episodes) \subseteq ToSet(bks[c].episodes)
      BY <1>13, <1>25, <3>1 DEF refs
    <3> QED BY <1>4, <1>21, <3>2
  <2> QED BY <2>1, <2>2
<1>30. 1 \in ToSet(Ids(newBks))
  <2>1. PICK c \in 1 .. Len(bks) : bks[c].id = 1
    BY <1>1, <1>4, BlockIds
  <2>2. newBks[moves(c)].id = 1 /\ moves(c) \in 1 .. Len(newBks)
    BY <1>22, <1>25, <2>1
  <2> QED BY <1>20, <2>2, BlockIds
<1>31. Housed(result)
  BY <1>27, <1>28, <1>29, <1>30 DEF Housed
<1>32. result \in CompositionType
  BY <1>1, <1>20, <1>21 DEF CompositionType
<1>33. SplitOf(comp, result)
  BY <1>21, <1>31, <1>32 DEF SplitOf, eps
<1> QED BY <1>26, <1>33

(* Coverage depends on the ranges alone.                                     *)
LEMMA CoveredBySameRanges ==
  ASSUME NEW eps \in Seq(EpisodeType), NEW new \in Seq(EpisodeType), Len(new) = Len(eps),
         \A k \in 1 .. Len(eps) : new[k].first = eps[k].first /\ new[k].last = eps[k].last,
         Covered(eps)
  PROVE  Covered(new)
<1>1. /\ DOMAIN eps = 1 .. Len(eps) /\ DOMAIN new = 1 .. Len(eps) /\ Len(eps) \in Nat
  BY LenProperties
<1>2. ASSUME NEW k \in 1 .. Len(eps) + 1 PROVE StartOf(new, k) = StartOf(eps, k)
  <2>1. CASE k = 1
    BY <2>1 DEF StartOf
  <2>2. CASE k # 1
    <3>1. k - 1 \in 1 .. Len(eps)
      BY <1>1, <2>2
    <3> QED BY <2>2, <3>1 DEF StartOf
  <2> QED BY <2>1, <2>2
<1>3. ASSUME NEW k \in 1 .. Len(eps) PROVE InPlace(new, k)
  <2>1. InPlace(eps, k)
    BY <1>1 DEF Covered, Misplaced
  <2>2. StartOf(new, k) = StartOf(eps, k)
    <3>1. k \in 1 .. Len(eps) + 1
      BY <1>1
    <3> QED BY <1>2, <3>1
  <2> QED BY <2>1, <2>2 DEF InPlace, Valid
<1>4. Misplaced(new) = {}
  BY <1>1, <1>3 DEF Misplaced
<1>5. StartOf(new, Len(new) + 1) = StartOf(eps, Len(eps) + 1)
  <2>1. Len(eps) + 1 \in 1 .. Len(eps) + 1
    BY <1>1
  <2> QED BY <1>2, <2>1
<1> QED BY <1>4, <1>5 DEF Covered

(* A patch that is written keeps the composition whole. *)
LEMMA PatchedIsWhole ==
  ASSUME NEW comp \in CompositionType, Whole(comp), NEW new \in Patched(comp)
  PROVE  new \in CompositionType /\ Whole(new)
<1> DEFINE once == {SplitBlockAfter(id, comp) : id \in {e \in ToSet(Ids(comp.episodes)) :
                                                        CanSplitAfter(e, comp)}}
           of(c) == {SplitBlockAfter(id, c) : id \in {e \in ToSet(Ids(c.episodes)) : CanSplitAfter(e, c)}}
<1>1. Housed(comp)
  BY WholeIsHoused
<1>2. ASSUME NEW c \in once PROVE SplitOf(comp, c)
  <2>1. PICK id : CanSplitAfter(id, comp) /\ c = SplitBlockAfter(id, comp)
    OBVIOUS
  <2> QED BY <1>1, <2>1, SplitBlockAfterKeeps
<1>3. ASSUME NEW c \in once, NEW d \in of(c) PROVE SplitOf(comp, d)
  <2>1. PICK id : CanSplitAfter(id, c) /\ d = SplitBlockAfter(id, c)
    OBVIOUS
  <2>2. SplitOf(comp, c)
    BY <1>2
  <2>3. SplitOf(c, d)
    BY <2>1, <2>2, SplitBlockAfterKeeps DEF SplitOf
  <2> QED BY <2>2, <2>3 DEF SplitOf
<1>4. Patchable(new) /\ (new \in once \/ \E c \in once : new \in of(c))
  BY DEF Patched
<1> HIDE DEF once, of
<1>5. SplitOf(comp, new)
  BY <1>2, <1>3, <1>4
<1>6. new \in CompositionType /\ Housed(new)
  BY <1>5 DEF SplitOf
<1>7. Covered(new.episodes)
  <2>1. comp.episodes \in Seq(EpisodeType) /\ new.episodes \in Seq(EpisodeType)
    BY <1>6, CompositionFields
  <2>2. Covered(comp.episodes)
    BY DEF Whole, Storable
  <2> QED BY <1>5, <2>1, <2>2, CoveredBySameRanges DEF SplitOf
<1>8. Resolves(new.topics, ToSet(Ids(new.episodes)))
  BY <1>5 DEF SplitOf, Whole
<1> QED BY <1>4, <1>6, <1>7, <1>8 DEF Whole, Storable, Patchable, Housed

(* Nothing that was left behind means that a composition is read as it was     *)
(* stored.                                                                     *)
LEMMA ByIndexAlone ==
  ASSUME NEW T, NEW own \in Seq(T)
  PROVE  ByIndex(own, <<>>) = own
<1> DEFINE at(items, k) == IF k \in DOMAIN items THEN <<items[k]>> ELSE <<>>
           ss == [k \in 1 .. Len(own) + Len(<<>>) |-> at(own, k) \o at(<<>>, k)]
<1>1. Len(own) \in Nat /\ DOMAIN own = 1 .. Len(own) /\ \A k \in 1 .. Len(own) : own[k] \in T
  BY LenProperties, ElementOfSeq
<1>2. Len(own) + Len(<<>>) = Len(own) /\ DOMAIN <<>> = {}
  BY <1>1, EmptySeq
<1>3. ASSUME NEW k \in 1 .. Len(own) PROVE ss[k] = <<own[k]>> /\ <<own[k]>> \in Seq(T)
  <2>1. at(own, k) = <<own[k]>> /\ at(<<>>, k) = <<>>
    BY <1>1, <1>2
  <2>2. <<own[k]>> \in Seq(T)
    BY <1>1
  <2> HIDE DEF at
  <2>3. ss[k] = at(own, k) \o at(<<>>, k)
    BY <1>2
  <2> QED BY <2>1, <2>2, <2>3, ConcatEmptySeq
<1>4. ss \in [1 .. Len(own) -> Seq(T)]
  <2>1. DOMAIN ss = 1 .. Len(own) /\ ss = [k \in DOMAIN ss |-> ss[k]]
    BY <1>2
  <2> HIDE DEF ss
  <2> QED BY <1>3, <2>1
<1>5. ByIndex(own, <<>>) = FlattenSeq(ss)
  BY DEF ByIndex
<1> HIDE DEF ss
<1>6. ss \in Seq(Seq(T)) /\ Len(ss) = Len(own)
  BY <1>1, <1>4, SequenceOf
<1> QED BY <1>3, <1>5, <1>6, FlattenSingletons

(* What finds no orphans is read back as it is.                              *)
LEMMA ReadBackAlone ==
  ASSUME NEW comp \in CompositionType
  PROVE  ReadBack(comp, Nothing) = comp
<1>1. /\ comp.episodes \in Seq(EpisodeType) /\ comp.blocks \in Seq(BlockType)
      /\ comp.topics \in Seq(Refs)
  BY CompositionFields
<1>2. ReadBack(comp, Nothing) =
        [episodes |-> comp.episodes, blocks |-> comp.blocks, topics |-> comp.topics]
  BY <1>1, ByIndexAlone, NothingIs DEF ReadBack
<1> QED BY <1>2 DEF CompositionType

(* Whatever was deleted before, a whole composition that can be stored is      *)
(* stored as it is.                                                            *)
LEMMA StoredAsItIs ==
  ASSUME NEW comp \in CompositionType, Whole(comp), WholeOrNothing(orphans), orphans \in CompositionType,
         CanReplace(comp), Replace(comp)
  PROVE  stored' = comp /\ (orphans' = orphans \/ orphans' = Nothing)
         /\ (newest' = newest \/ newest' = TRUE)
<1>1. CASE stored # Nothing
  BY <1>1 DEF Replace
<1>2. CASE stored = Nothing
  <2>1. ~Collides(comp, orphans)
    BY <1>2 DEF CanReplace
  <2>2. orphans = Nothing
    <3>1. ~Whole(orphans)
      BY <2>1 DEF Whole, Collides
    <3> QED BY <3>1 DEF WholeOrNothing
  <2>3. stored' = ReadBack(comp, Nothing) /\ newest' = TRUE /\ orphans' = Nothing
    BY <1>2, <2>2 DEF Replace
  <2> QED BY <2>3, ReadBackAlone
<1> QED BY <1>1, <1>2

(* The bounds are natural numbers.                                           *)
LEMMA LimitsAreNumbers ==
  /\ MaxEpisodeRepairs \in Nat /\ MaxCoverageRepairs \in Nat
  /\ FallbackLimit \in Nat /\ MaxChanges \in Nat
BY LimitsAssumption

(* Only an episode with a valid range is split for its breadth.              *)
LEMMA BroadEpisodesAreValid ==
  ASSUME NEW eps \in Seq(EpisodeType)
  PROVE  /\ BroadEpisodes(eps) \in Seq(EpisodeType)
         /\ \A i \in 1 .. Len(BroadEpisodes(eps)) : Valid(BroadEpisodes(eps)[i])
<1> DEFINE S == {k \in DOMAIN eps : Overbroad(eps[k])}
           broad == Chosen(eps, S)
           m == Min({Len(broad), MaxEpisodeRepairs})
           new == BroadEpisodes(eps)
<1>1. DOMAIN eps = 1 .. Len(eps) /\ S \subseteq 1 .. Len(eps)
  BY LenProperties
<1>2. broad \in Seq(EpisodeType) /\ ToSet(broad) = {eps[k] : k \in S}
  <2> HIDE DEF S
  <2> QED BY <1>1, ChosenMembers
<1>3. new = SubSeq(broad, 1, m)
  BY DEF BroadEpisodes
<1>4. \A e \in ToSet(broad) : Valid(e)
  BY <1>2 DEF Overbroad
<1> HIDE DEF broad, new
<1>5. m \in 0 .. Len(broad)
  <2>1. Len(broad) \in Nat
    BY <1>2, LenProperties
  <2>2. {Len(broad), MaxEpisodeRepairs} \subseteq Nat /\ {Len(broad), MaxEpisodeRepairs} # {}
    BY <2>1, LimitsAreNumbers
  <2>3. m \in {Len(broad), MaxEpisodeRepairs} /\ \A y \in {Len(broad), MaxEpisodeRepairs} : m <= y
    BY <2>2, MinOf
  <2> HIDE DEF m
  <2> QED BY <2>1, <2>2, <2>3
<1> HIDE DEF m
<1>6. new \in Seq(EpisodeType) /\ ToSet(new) = {broad[k] : k \in 1 .. m}
  <2>1. 1 \in 1 .. Len(broad) + 1
    BY <1>2, LenProperties
  <2> QED BY <1>2, <1>3, <1>5, <2>1, SubSeqMembers
<1>7. ToSet(new) \subseteq ToSet(broad)
  <2>1. ToSet(broad) = {broad[k] : k \in 1 .. Len(broad)} /\ Len(broad) \in Nat
    BY <1>2, ToSetOf
  <2> QED BY <1>5, <1>6, <2>1
<1>8. \A i \in 1 .. Len(new) : new[i] \in ToSet(new)
  <2>1. ToSet(new) = {new[i] : i \in 1 .. Len(new)}
    BY <1>6, ToSetOf
  <2> QED BY <2>1
<1> QED BY <1>4, <1>6, <1>7, <1>8 DEF new

-----------------------------------------------------------------------------
(* What the parts of a target are, in order: they divide its range, and the ids *)
(* of all but the first extend its id.                                          *)
Extends(y, x) == Len(y) > Len(x) /\ \A i \in 1 .. Len(x) : y[i] = x[i]

Divided(parts, target) ==
  /\ parts[1].first = target.first /\ parts[Len(parts)].last = target.last
  /\ \A j, k \in 1 .. Len(parts) : k = j + 1 => parts[k].first = parts[j].last + 1

Family(parts, id) ==
  /\ \A j, k \in 1 .. Len(parts) : parts[j].id = parts[k].id => j = k
  /\ \A k \in 1 .. Len(parts) : k # 1 => Extends(parts[k].id, id)
  /\ \A j, k \in 1 .. Len(parts) : Extends(parts[k].id, parts[j].id) => j = 1

Follows(ss, target, n) ==
  /\ DOMAIN ss = 1 .. n /\ ss[1].first = target.first /\ ss[n].last = target.last
  /\ \A j, k \in 1 .. n : k = j + 1 => ss[k].first = ss[j].last + 1

(* The stretches of a target follow one another from its first micro-event to   *)
(* its last.                                                                    *)
LEMMA StretchesFollow ==
  ASSUME NEW target, Repairable(target), NEW cuts, cuts \subseteq target.first .. target.last - 1
  PROVE  \E n \in Nat \ {0} : Follows(Stretches(target, cuts), target, n)
<1> DEFINE S == cuts \cup {target.last}
           n == Cardinality(S)
           ends == InOrder(S)
           from == target.first
           to == target.last
<1>1. N \in Nat /\ from \in 1 .. N /\ to \in 1 .. N /\ from <= to
  BY MicroEventAt DEF Repairable
<1>2. cuts \subseteq from .. to - 1 /\ S = cuts \cup {to}
  OBVIOUS
<1> HIDE DEF from, to, S
<1>3. S \subseteq from .. to /\ to \in S
  BY <1>1, <1>2
<1>4. S \subseteq Nat /\ IsFiniteSet(S) /\ S # {}
  <2>1. IsFiniteSet(from .. to)
    BY <1>1, FS_Interval
  <2>2. IsFiniteSet(S)
    BY <1>3, <2>1, FS_Subset
  <2> QED BY <1>1, <1>3, <2>2
<1>5. /\ n \in Nat /\ DOMAIN ends = 1 .. n /\ \A k \in 1 .. n : ends[k] \in S
      /\ \A k, m \in 1 .. n : k < m => ends[k] < ends[m]
      /\ \A k \in S : \E m \in 1 .. n : ends[m] = k
  BY <1>4, InOrderLists
<1>6. n # 0
  BY <1>4, FS_EmptySet
<1>7. Stretches(target, cuts) =
        [k \in DOMAIN ends |-> [first |-> IF k = 1 THEN from ELSE ends[k - 1] + 1, last |-> ends[k]]]
  BY DEF Stretches, from, S
<1> HIDE DEF n, ends
<1>8. ends[n] = to
  <2>1. PICK m \in 1 .. n : ends[m] = to
    BY <1>3, <1>5
  <2>2. n \in 1 .. n /\ ends[n] \in from .. to
    <3>1. n \in 1 .. n
      BY <1>5, <1>6
    <3>2. ends[n] \in S
      BY <1>5, <3>1
    <3> QED BY <1>3, <3>1, <3>2
  <2>3. m # n => ends[m] < ends[n]
    BY <1>5, <2>2
  <2> QED BY <1>1, <2>1, <2>2, <2>3
<1>9. DOMAIN Stretches(target, cuts) = 1 .. n
  BY <1>5, <1>7
<1>10. 1 \in 1 .. n /\ n \in 1 .. n
  BY <1>5, <1>6
<1>11. ASSUME NEW j \in 1 .. n, NEW k \in 1 .. n, k = j + 1
       PROVE  Stretches(target, cuts)[k].first = Stretches(target, cuts)[j].last + 1
  <2>1. k # 1 /\ k - 1 = j
    BY <1>11
  <2> QED BY <1>5, <1>7, <2>1
<1>12. Stretches(target, cuts)[1].first = from /\ Stretches(target, cuts)[n].last = to
  BY <1>5, <1>7, <1>8, <1>10
<1>13. Follows(Stretches(target, cuts), target, n)
  BY <1>9, <1>11, <1>12 DEF Follows, from, to
<1> QED BY <1>5, <1>6, <1>13

(* An id with a suffix extends the id; two suffixes of one length that differ   *)
(* at the end make different ids.                                               *)
LEMMA SuffixedId ==
  ASSUME NEW id \in Seq(Nat), NEW s \in Seq(Nat), NEW t \in Seq(Nat),
         Len(s) = Len(t), s # <<>>, s[Len(s)] # t[Len(s)]
  PROVE  /\ Extends(id \o s, id) /\ Len(id \o s) = Len(id \o t) /\ id \o s # id \o t
         /\ Len(id \o s) \in Nat
<1>1. Len(id) \in Nat /\ Len(s) \in Nat \ {0}
  BY LenProperties, EmptySeq
<1>2. /\ Len(id \o s) = Len(id) + Len(s) /\ Len(id \o t) = Len(id) + Len(s)
      /\ \A i \in 1 .. Len(id) + Len(s) :
           /\ (id \o s)[i] = IF i <= Len(id) THEN id[i] ELSE s[i - Len(id)]
           /\ (id \o t)[i] = IF i <= Len(id) THEN id[i] ELSE t[i - Len(id)]
  <2>1. /\ Len(id \o s) = Len(id) + Len(s)
        /\ \A i \in 1 .. Len(id) + Len(s) :
             (id \o s)[i] = IF i <= Len(id) THEN id[i] ELSE s[i - Len(id)]
    BY ConcatProperties, ZenonT(30)
  <2>2. /\ Len(id \o t) = Len(id) + Len(t)
        /\ \A i \in 1 .. Len(id) + Len(t) :
             (id \o t)[i] = IF i <= Len(id) THEN id[i] ELSE t[i - Len(id)]
    BY ConcatProperties, ZenonT(30)
  <2> QED BY <2>1, <2>2
<1>3. Extends(id \o s, id)
  BY <1>1, <1>2 DEF Extends
<1>4. /\ (id \o s)[Len(id) + Len(s)] = s[Len(s)]
      /\ (id \o t)[Len(id) + Len(s)] = t[Len(s)]
  <2>1. Len(id) + Len(s) \in 1 .. Len(id) + Len(s) /\ ~(Len(id) + Len(s) <= Len(id))
    BY <1>1
  <2>2. Len(id) + Len(s) - Len(id) = Len(s)
    BY <1>1
  <2> QED BY <1>2, <2>1, <2>2
<1> QED BY <1>1, <1>2, <1>3, <1>4

(* So the ids of the parts form a family.                                       *)
LEMMA SuffixedFamily ==
  ASSUME NEW parts \in Seq(EpisodeType), NEW id \in Seq(Nat), NEW n \in Nat, Len(parts) = n,
         NEW suffix \in [1 .. n -> Seq(Nat)], NEW l \in Nat \ {0},
         \A k \in 1 .. n : Len(suffix[k]) = l /\ suffix[k][l] = k,
         \A k \in 1 .. n : parts[k].id = IF k = 1 THEN id ELSE id \o suffix[k]
  PROVE  Family(parts, id)
<1>1. \A k \in 1 .. n : suffix[k] # <<>>
  BY EmptySeq
<1>2. ASSUME NEW j \in 1 .. n, NEW k \in 1 .. n, j # k
      PROVE  /\ Extends(id \o suffix[k], id) /\ Len(id \o suffix[k]) = Len(id \o suffix[j])
             /\ id \o suffix[k] # id \o suffix[j] /\ Len(id \o suffix[k]) \in Nat
  <2>1. suffix[j] \in Seq(Nat) /\ suffix[k] \in Seq(Nat) /\ suffix[k] # <<>>
    BY <1>1
  <2>2. Len(suffix[k]) = Len(suffix[j]) /\ suffix[k][Len(suffix[k])] # suffix[j][Len(suffix[k])]
    BY <1>2
  <2> QED BY <2>1, <2>2, SuffixedId, ZenonT(30)
<1>3. ASSUME NEW k \in 1 .. n, k # 1 PROVE Extends(parts[k].id, id)
  <2>1. 1 \in 1 .. n
    BY <1>3
  <2> QED BY <1>2, <1>3, <2>1
<1>4. Len(id) \in Nat
  BY LenProperties
<1>5. ASSUME NEW j \in 1 .. n, NEW k \in 1 .. n, parts[j].id = parts[k].id PROVE j = k
  <2> SUFFICES ASSUME j # k PROVE FALSE
    OBVIOUS
  <2>1. CASE j = 1
    BY <1>3, <1>4, <1>5, <2>1 DEF Extends
  <2>2. CASE k = 1
    BY <1>3, <1>4, <1>5, <2>2 DEF Extends
  <2>3. CASE j # 1 /\ k # 1
    <3>1. id \o suffix[k] # id \o suffix[j]
      BY <1>2
    <3>2. parts[j].id = id \o suffix[j] /\ parts[k].id = id \o suffix[k]
      BY <2>3
    <3> QED BY <1>5, <3>1, <3>2
  <2> QED BY <2>1, <2>2, <2>3
<1>6. ASSUME NEW j \in 1 .. n, NEW k \in 1 .. n, Extends(parts[k].id, parts[j].id) PROVE j = 1
  <2> SUFFICES ASSUME j # 1 PROVE FALSE
    OBVIOUS
  <2>1. CASE k = 1
    <3>1. Len(parts[j].id) > Len(id)
      BY <1>3 DEF Extends
    <3>2. Len(id) > Len(parts[j].id)
      BY <1>6, <2>1 DEF Extends
    <3>3. Len(parts[j].id) \in Nat
      <4>1. 1 \in 1 .. n
        BY <2>1
      <4> QED BY <1>2, <4>1
    <3> QED BY <1>4, <3>1, <3>2, <3>3
  <2>2. CASE k # 1
    <3>1. j # k => Len(parts[k].id) = Len(parts[j].id) /\ Len(parts[k].id) \in Nat
      <4>1. parts[j].id = id \o suffix[j] /\ parts[k].id = id \o suffix[k]
        BY <2>2
      <4> QED BY <1>2, <4>1
    <3>2. j = k => Len(parts[k].id) \in Nat
      <4>1. 1 \in 1 .. n /\ 1 # k
        BY <2>2
      <4> QED BY <1>2, <2>2, <4>1
    <3> QED BY <1>6, <3>1, <3>2 DEF Extends
  <2> QED BY <2>1, <2>2
<1> QED BY <1>3, <1>5, <1>6 DEF Family

(* A split divides its target, under ids of one family.                         *)
LEMMA PartsInOrder ==
  ASSUME NEW target, Repairable(target), NEW cuts \in Cuts(target),
         NEW looks \in [DOMAIN Stretches(target, cuts) -> Looking]
  PROVE  LET parts == PartsOf(target, cuts, looks)
         IN  Divided(parts, target) /\ Family(parts, target.id)
<1> DEFINE of == Stretches(target, cuts)
           parts == PartsOf(target, cuts, looks)
           part(k) == [id |-> SplitId(target.id, k), block |-> target.block,
                       first |-> of[k].first, last |-> of[k].last,
                       mode |-> looks[k].mode, kind |-> looks[k].kind, marks |-> looks[k].marks]
<1>1. PICK n \in Nat \ {0} : Follows(of, target, n)
  <2>1. cuts \subseteq target.first .. target.last - 1
    BY DEF Cuts
  <2> QED BY <2>1, StretchesFollow
<1>2. parts = [k \in 1 .. n |-> part(k)]
  BY <1>1 DEF PartsOf, Follows
<1>3. parts \in Seq(EpisodeType)
  BY PartsOfTarget DEF Replacement
<1>4. Len(parts) = n
  <2>1. DOMAIN parts = 1 .. n /\ DOMAIN parts = 1 .. Len(parts) /\ Len(parts) \in Nat
    <3>1. DOMAIN parts = 1 .. n
      BY <1>2
    <3> HIDE DEF parts
    <3> QED BY <1>3, <3>1, LenProperties
  <2> HIDE DEF parts
  <2> QED BY <1>1, <2>1
<1>5. \A k \in 1 .. n : /\ parts[k].first = of[k].first /\ parts[k].last = of[k].last
                        /\ parts[k].id = SplitId(target.id, k)
  BY <1>2
<1> HIDE DEF of, parts, part
<1>6. Divided(parts, target)
  <2>1. 1 \in 1 .. n /\ n \in 1 .. n
    BY <1>1
  <2>2. ASSUME NEW j \in 1 .. n, NEW k \in 1 .. n, k = j + 1
        PROVE  parts[k].first = parts[j].last + 1
    <3>1. of[k].first = of[j].last + 1
      BY <1>1, <2>2 DEF Follows
    <3>2. parts[k].first = of[k].first /\ parts[j].last = of[j].last
      BY <1>5
    <3> QED BY <3>1, <3>2
  <2>3. parts[1].first = target.first /\ parts[n].last = target.last
    BY <1>1, <1>5, <2>1 DEF Follows
  <2> QED BY <1>4, <2>2, <2>3 DEF Divided
<1>7. Family(parts, target.id)
  <2> DEFINE suffix == [k \in 1 .. n |-> <<2, k>>]
  <2>1. suffix \in [1 .. n -> Seq(Nat)]
    OBVIOUS
  <2>2. \A k \in 1 .. n : Len(suffix[k]) = 2 /\ suffix[k][2] = k
    OBVIOUS
  <2>3. \A k \in 1 .. n : parts[k].id = IF k = 1 THEN target.id ELSE target.id \o suffix[k]
    BY <1>5 DEF SplitId
  <2>4. target.id \in Seq(Nat) /\ 2 \in Nat \ {0} /\ n \in Nat
    BY <1>1 DEF Repairable
  <2> HIDE DEF suffix
  <2> QED BY <1>3, <1>4, <2>1, <2>2, <2>3, <2>4, SuffixedFamily
<1> QED BY <1>6, <1>7 DEF parts

(* So do chunks.                                                                *)
LEMMA ChunksInOrder ==
  ASSUME NEW target, Repairable(target), NEW index \in Nat
  PROVE  LET parts == ChunksOf(target, index)
         IN  Divided(parts, target) /\ Family(parts, target.id)
<1> DEFINE full == {m \in target.first .. target.last - 1 : (m - target.first + 1) % ChunkSize = 0}
           of == Stretches(target, full)
           parts == ChunksOf(target, index)
<1>1. PICK n \in Nat \ {0} : Follows(of, target, n)
  <2>1. full \subseteq target.first .. target.last - 1
    OBVIOUS
  <2> HIDE DEF full
  <2> QED BY <2>1, StretchesFollow
<1>2. parts = [k \in 1 .. n |-> ChunkOf(target, index, k, of[k])]
  BY <1>1 DEF ChunksOf, Follows
<1>3. parts \in Seq(EpisodeType)
  BY ChunksOfTarget DEF Replacement
<1>4. Len(parts) = n
  <2>1. DOMAIN parts = 1 .. n /\ DOMAIN parts = 1 .. Len(parts) /\ Len(parts) \in Nat
    <3>1. DOMAIN parts = 1 .. n
      BY <1>2
    <3> HIDE DEF parts
    <3> QED BY <1>3, <3>1, LenProperties
  <2> HIDE DEF parts
  <2> QED BY <1>1, <2>1
<1>5. \A k \in 1 .. n :
        /\ parts[k].first = of[k].first /\ parts[k].last = of[k].last
        /\ parts[k].id = IF k = 1 THEN target.id ELSE target.id \o <<3, index, k>>
  <2> SUFFICES ASSUME NEW k \in 1 .. n
               PROVE  /\ parts[k].first = of[k].first /\ parts[k].last = of[k].last
                      /\ parts[k].id = IF k = 1 THEN target.id ELSE target.id \o <<3, index, k>>
    OBVIOUS
  <2>1. parts[k] = ChunkOf(target, index, k, of[k])
    BY <1>2
  <2> HIDE DEF parts, of
  <2>2. /\ ChunkOf(target, index, k, of[k]).first = of[k].first
        /\ ChunkOf(target, index, k, of[k]).last = of[k].last
        /\ ChunkOf(target, index, k, of[k]).id =
             IF k = 1 THEN target.id ELSE target.id \o <<3, index, k>>
    BY DEF ChunkOf
  <2> QED BY <2>1, <2>2
<1> HIDE DEF of, parts
<1>6. Divided(parts, target)
  <2>1. 1 \in 1 .. n /\ n \in 1 .. n
    BY <1>1
  <2>2. ASSUME NEW j \in 1 .. n, NEW k \in 1 .. n, k = j + 1
        PROVE  parts[k].first = parts[j].last + 1
    <3>1. of[k].first = of[j].last + 1
      BY <1>1, <2>2 DEF Follows
    <3>2. parts[k].first = of[k].first /\ parts[j].last = of[j].last
      BY <1>5
    <3> QED BY <3>1, <3>2
  <2>3. parts[1].first = target.first /\ parts[n].last = target.last
    BY <1>1, <1>5, <2>1 DEF Follows
  <2> QED BY <1>4, <2>2, <2>3 DEF Divided
<1>7. Family(parts, target.id)
  <2> DEFINE suffix == [k \in 1 .. n |-> <<3, index, k>>]
  <2>1. suffix \in [1 .. n -> Seq(Nat)]
    OBVIOUS
  <2>2. \A k \in 1 .. n : Len(suffix[k]) = 3 /\ suffix[k][3] = k
    OBVIOUS
  <2>3. \A k \in 1 .. n : parts[k].id = IF k = 1 THEN target.id ELSE target.id \o suffix[k]
    BY <1>5
  <2>4. target.id \in Seq(Nat) /\ 3 \in Nat \ {0} /\ n \in Nat
    BY <1>1 DEF Repairable
  <2> HIDE DEF suffix
  <2> QED BY <1>3, <1>4, <2>1, <2>2, <2>3, <2>4, SuffixedFamily
<1> QED BY <1>6, <1>7 DEF parts

(* The episodes after an exchange: those before, the parts, and those behind.   *)
Exchange(eps, a, b, parts, new) ==
  /\ new \in Seq(EpisodeType) /\ Len(new) = a - 1 + Len(parts) + Len(eps) - b
  /\ \A k \in 1 .. a - 1 : new[k] = eps[k]
  /\ \A k \in 1 .. Len(parts), p \in 1 .. Len(new) : p = a - 1 + k => new[p] = parts[k]
  /\ \A k \in b + 1 .. Len(eps), p \in 1 .. Len(new) :
       p = k - b + a - 1 + Len(parts) => new[p] = eps[k]

(* Taking episodes out and putting parts in is such an exchange.                *)
LEMMA ExchangeEntries ==
  ASSUME NEW eps \in Seq(EpisodeType), NEW a \in 1 .. Len(eps) + 1, NEW b \in a - 1 .. Len(eps),
         NEW parts \in Seq(EpisodeType)
  PROVE  Exchange(eps, a, b, parts, SubSeq(eps, 1, a - 1) \o parts \o SubSeq(eps, b + 1, Len(eps)))
<1> DEFINE left == SubSeq(eps, 1, a - 1)
           right == SubSeq(eps, b + 1, Len(eps))
           both == left \o parts
           new == both \o right
           n == Len(parts)
           L == Len(eps)
<1>1. L \in Nat /\ n \in Nat /\ a \in Nat \ {0} /\ b \in Nat /\ a - 1 <= b /\ b <= L
  BY LenProperties
<1>2. \A k \in 1 .. L : eps[k] \in EpisodeType
  BY ElementOfSeq
<1>3. /\ left \in Seq(EpisodeType) /\ Len(left) = a - 1
      /\ \A k \in 1 .. a - 1 : left[k] = eps[k]
  <2>1. \A k \in 1 .. a - 1 : eps[k] \in EpisodeType
    BY <1>1, <1>2
  <2>2. 1 \in Int /\ a - 1 \in Int
    BY <1>1
  <2>3. /\ left \in Seq(EpisodeType) /\ Len(left) = IF 1 <= a - 1 THEN a - 1 - 1 + 1 ELSE 0
        /\ \A k \in 1 .. a - 1 - 1 + 1 : left[k] = eps[1 + k - 1]
    BY <2>1, <2>2, SubSeqProperties
  <2> HIDE DEF left
  <2> QED BY <1>1, <2>3
<1>4. /\ right \in Seq(EpisodeType) /\ Len(right) = L - b
      /\ \A k \in 1 .. L - b : right[k] = eps[b + k]
  <2>1. \A k \in b + 1 .. L : eps[k] \in EpisodeType
    BY <1>1, <1>2
  <2>2. b + 1 \in Int /\ L \in Int
    BY <1>1
  <2>3. /\ right \in Seq(EpisodeType) /\ Len(right) = IF b + 1 <= L THEN L - (b + 1) + 1 ELSE 0
        /\ \A k \in 1 .. L - (b + 1) + 1 : right[k] = eps[b + 1 + k - 1]
    BY <2>1, <2>2, SubSeqProperties
  <2> HIDE DEF right
  <2> QED BY <1>1, <2>3
<1> HIDE DEF left, right, L, n
<1>5. /\ both \in Seq(EpisodeType) /\ Len(both) = a - 1 + n
      /\ \A k \in 1 .. a - 1 + n : both[k] = IF k <= a - 1 THEN left[k] ELSE parts[k - (a - 1)]
  <2>1. /\ left \o parts \in Seq(EpisodeType) /\ Len(left \o parts) = Len(left) + Len(parts)
        /\ \A k \in 1 .. Len(left) + Len(parts) :
             (left \o parts)[k] = IF k <= Len(left) THEN left[k] ELSE parts[k - Len(left)]
    BY <1>3, ConcatProperties
  <2> QED BY <1>3, <2>1 DEF n
<1> HIDE DEF both
<1>6. /\ new \in Seq(EpisodeType) /\ Len(new) = a - 1 + n + (L - b)
      /\ \A k \in 1 .. a - 1 + n + (L - b) :
           new[k] = IF k <= a - 1 + n THEN both[k] ELSE right[k - (a - 1 + n)]
  <2>1. /\ both \o right \in Seq(EpisodeType) /\ Len(both \o right) = Len(both) + Len(right)
        /\ \A k \in 1 .. Len(both) + Len(right) :
             (both \o right)[k] = IF k <= Len(both) THEN both[k] ELSE right[k - Len(both)]
    BY <1>4, <1>5, ConcatProperties
  <2> QED BY <1>4, <1>5, <2>1
<1> HIDE DEF new
<1>7. Len(new) = a - 1 + n + L - b
  BY <1>1, <1>6
<1>8. ASSUME NEW k \in 1 .. a - 1 PROVE new[k] = eps[k]
  <2>1. k \in 1 .. a - 1 + n /\ k \in 1 .. a - 1 + n + (L - b) /\ k <= a - 1 + n /\ k <= a - 1
    BY <1>1
  <2> QED BY <1>3, <1>5, <1>6, <2>1
<1>9. ASSUME NEW k \in 1 .. n, NEW p \in 1 .. Len(new), p = a - 1 + k PROVE new[p] = parts[k]
  <2>1. /\ p \in 1 .. a - 1 + n /\ p \in 1 .. a - 1 + n + (L - b)
        /\ p <= a - 1 + n /\ ~(p <= a - 1) /\ p - (a - 1) = k
    BY <1>1, <1>9
  <2> QED BY <1>5, <1>6, <2>1
<1>10. ASSUME NEW k \in b + 1 .. L, NEW p \in 1 .. Len(new), p = k - b + a - 1 + n
       PROVE  new[p] = eps[k]
  <2>1. /\ p \in 1 .. a - 1 + n + (L - b) /\ ~(p <= a - 1 + n)
        /\ p - (a - 1 + n) = k - b /\ k - b \in 1 .. L - b /\ b + (k - b) = k
    BY <1>1, <1>10
  <2>2. new[p] = right[k - b]
    BY <1>6, <2>1
  <2> QED BY <1>4, <2>1, <2>2
<1> QED BY <1>6, <1>7, <1>8, <1>9, <1>10 DEF Exchange, new, both, left, right, L, n

-----------------------------------------------------------------------------
(* Episodes a .. b are exchanged for the parts of a target.                     *)
Exchanged(eps, a, b, parts, target, new) ==
  /\ eps \in Seq(EpisodeType) /\ a \in 1 .. Len(eps) + 1 /\ b \in a - 1 .. Len(eps)
  /\ Replacement(parts, target.id) /\ Repairable(target)
  /\ Divided(parts, target) /\ Family(parts, target.id)
  /\ Exchange(eps, a, b, parts, new)

(* Ids are ordered by extension.                                                *)
LEMMA ExtendsFurther ==
  ASSUME NEW x \in Seq(Nat), NEW y \in Seq(Nat), NEW z \in Seq(Nat), Extends(z, y),
         y = x \/ Extends(y, x)
  PROVE  Extends(z, x)
<1>1. Len(x) \in Nat /\ Len(y) \in Nat /\ Len(z) \in Nat
  BY LenProperties
<1> QED BY <1>1 DEF Extends

(* Of two ids that a third extends, one extends the other.                      *)
LEMMA ExtendsBoth ==
  ASSUME NEW x \in Seq(Nat), NEW y \in Seq(Nat), NEW z \in Seq(Nat),
         z = y \/ Extends(z, y), Extends(z, x)
  PROVE  x = y \/ Extends(x, y) \/ Extends(y, x)
<1>1. Len(x) \in Nat /\ Len(y) \in Nat /\ Len(z) \in Nat
  BY LenProperties
<1>2. \A i \in 1 .. Len(x) : z[i] = x[i]
  BY DEF Extends
<1>3. \A i \in 1 .. Len(y) : z[i] = y[i]
  BY DEF Extends
<1>4. CASE Len(x) = Len(y)
  <2>1. \A i \in 1 .. Len(x) : x[i] = y[i]
    BY <1>2, <1>3, <1>4
  <2> QED BY <1>4, <2>1, SeqEqual
<1>5. CASE Len(x) > Len(y)
  BY <1>1, <1>2, <1>3, <1>5 DEF Extends
<1>6. CASE Len(y) > Len(x)
  BY <1>1, <1>2, <1>3, <1>6 DEF Extends
<1> QED BY <1>1, <1>4, <1>5, <1>6

(* What the positions after an exchange hold.                                   *)
LEMMA ExchangeAt ==
  ASSUME NEW eps, NEW a, NEW b, NEW parts, NEW target, NEW new,
         Exchanged(eps, a, b, parts, target, new), NEW p \in 1 .. Len(new)
  PROVE  \/ p \in 1 .. a - 1 /\ p \in 1 .. Len(eps) /\ new[p] = eps[p]
         \/ \E k \in 1 .. Len(parts) : p = a - 1 + k /\ new[p] = parts[k]
         \/ \E o \in b + 1 .. Len(eps) :
              p = o - b + a - 1 + Len(parts) /\ o \in 1 .. Len(eps) /\ new[p] = eps[o]
<1>1. /\ a \in Nat \ {0} /\ b \in Nat /\ a - 1 <= b /\ b <= Len(eps)
      /\ Len(eps) \in Nat /\ Len(parts) \in Nat
      /\ Len(new) = a - 1 + Len(parts) + Len(eps) - b
  BY LenProperties DEF Exchanged, Exchange, Replacement
<1>2. CASE p \in 1 .. a - 1
  BY <1>1, <1>2 DEF Exchanged, Exchange
<1>3. CASE p \in a .. a - 1 + Len(parts)
  <2> DEFINE k == p - (a - 1)
  <2>1. k \in 1 .. Len(parts) /\ p = a - 1 + k
    BY <1>1, <1>3
  <2> HIDE DEF k
  <2>2. new[p] = parts[k]
    BY <2>1 DEF Exchanged, Exchange
  <2> QED BY <2>1, <2>2
<1>4. CASE p > a - 1 + Len(parts)
  <2> DEFINE o == p - (a - 1 + Len(parts)) + b
  <2>1. o \in b + 1 .. Len(eps) /\ o \in 1 .. Len(eps) /\ p = o - b + a - 1 + Len(parts)
    BY <1>1, <1>4
  <2> HIDE DEF o
  <2>2. new[p] = eps[o]
    BY <2>1 DEF Exchanged, Exchange
  <2> QED BY <2>1, <2>2
<1> QED BY <1>1, <1>2, <1>3, <1>4

(* Being in place, told from the position before.                               *)
LEMMA InPlaceAfter ==
  ASSUME NEW eps, NEW q \in Nat \ {0}, NEW p \in Nat, p = q + 1
  PROVE  /\ StartOf(eps, p) = eps[q].last + 1
         /\ InPlace(eps, p) <=> Valid(eps[p]) /\ eps[p].first = eps[q].last + 1
<1>1. p # 1 /\ p - 1 = q
  OBVIOUS
<1> QED BY <1>1 DEF InPlace, StartOf

(* Which positions are in place after an exchange.                              *)
LEMMA ExchangeInPlace ==
  ASSUME NEW eps, NEW a, NEW b, NEW parts, NEW target, NEW new,
         Exchanged(eps, a, b, parts, target, new), NEW p \in 1 .. Len(new)
  PROVE  /\ p < a => (InPlace(new, p) <=> InPlace(eps, p))
         /\ p = a => (InPlace(new, p) <=> target.first = StartOf(eps, a))
         /\ a < p /\ p < a + Len(parts) => InPlace(new, p)
         /\ p = a + Len(parts) =>
              \A o \in 1 .. Len(eps) : o = b + 1 =>
                (InPlace(new, p) <=> Valid(eps[o]) /\ eps[o].first = target.last + 1)
         /\ \A o \in b + 2 .. Len(eps) : p = o - b + a - 1 + Len(parts) =>
              (InPlace(new, p) <=> InPlace(eps, o))
<1> DEFINE n == Len(parts)
           L == Len(eps)
<1>1. /\ a \in Nat \ {0} /\ b \in Nat /\ a - 1 <= b /\ b <= L /\ L \in Nat /\ n \in Nat \ {0}
      /\ Len(new) = a - 1 + n + L - b
  <2>1. Len(parts) # 0
    BY EmptySeq DEF Exchanged, Replacement
  <2> QED BY <2>1, LenProperties DEF Exchanged, Exchange, Replacement
<1>2. /\ \A k \in 1 .. a - 1 : new[k] = eps[k]
      /\ \A k \in 1 .. n, i \in 1 .. Len(new) : i = a - 1 + k => new[i] = parts[k]
      /\ \A k \in b + 1 .. L, i \in 1 .. Len(new) : i = k - b + a - 1 + n => new[i] = eps[k]
  BY DEF Exchanged, Exchange
<1>3. /\ parts[1].first = target.first /\ parts[n].last = target.last
      /\ \A j, k \in 1 .. n : k = j + 1 => parts[k].first = parts[j].last + 1
      /\ \A k \in 1 .. n : Valid(parts[k])
  BY DEF Exchanged, Divided, Replacement
<1> DEFINE r == p - 1
<1>4. r \in Nat /\ p \in Nat /\ p = r + 1 /\ (p # 1 => r \in 1 .. Len(new) /\ r \in Nat \ {0})
  BY <1>1
<1> HIDE DEF n, L, r
<1>5. ASSUME p # 1 PROVE InPlace(new, p) <=> Valid(new[p]) /\ new[p].first = new[r].last + 1
  BY <1>4, <1>5, InPlaceAfter
<1>6. ASSUME p # 1 PROVE InPlace(eps, p) <=> Valid(eps[p]) /\ eps[p].first = eps[r].last + 1
  BY <1>4, <1>6, InPlaceAfter
<1>7. ASSUME p < a PROVE InPlace(new, p) <=> InPlace(eps, p)
  <2>1. new[p] = eps[p]
    BY <1>1, <1>2, <1>7
  <2>2. p # 1 => new[r] = eps[r]
    BY <1>1, <1>2, <1>4, <1>7
  <2>3. p = 1 => (InPlace(new, p) <=> InPlace(eps, p))
    BY <2>1 DEF InPlace, StartOf
  <2> QED BY <1>5, <1>6, <2>1, <2>2, <2>3
<1>8. ASSUME p = a PROVE InPlace(new, p) <=> target.first = StartOf(eps, a)
  <2>1. 1 \in 1 .. n /\ p = a - 1 + 1
    BY <1>1, <1>8
  <2>2. new[p] = parts[1]
    BY <1>2, <2>1
  <2>3. CASE p = 1
    BY <1>3, <1>8, <2>1, <2>2, <2>3 DEF InPlace, StartOf
  <2>4. CASE p # 1
    <3>1. new[r] = eps[r]
      BY <1>1, <1>2, <1>4, <1>8, <2>4
    <3>2. StartOf(eps, a) = eps[r].last + 1
      BY <1>4, <1>8, <2>4, InPlaceAfter
    <3> QED BY <1>3, <1>5, <2>1, <2>2, <2>4, <3>1, <3>2
  <2> QED BY <2>3, <2>4
<1>9. ASSUME a < p, p < a + n PROVE InPlace(new, p)
  <2> DEFINE k == p - (a - 1)
             j == r - (a - 1)
  <2>1. k \in 1 .. n /\ j \in 1 .. n /\ k = j + 1 /\ p = a - 1 + k /\ r = a - 1 + j /\ p # 1
    BY <1>1, <1>4, <1>9
  <2> HIDE DEF k, j
  <2>2. new[p] = parts[k] /\ new[r] = parts[j]
    BY <1>2, <1>4, <2>1
  <2> QED BY <1>3, <1>5, <2>1, <2>2
<1>10. ASSUME p = a + n, NEW o \in 1 .. L, o = b + 1
       PROVE  InPlace(new, p) <=> Valid(eps[o]) /\ eps[o].first = target.last + 1
  <2>1. o \in b + 1 .. L /\ p = o - b + a - 1 + n /\ p # 1 /\ n \in 1 .. n /\ r = a - 1 + n
    BY <1>1, <1>4, <1>10
  <2>2. new[p] = eps[o] /\ new[r] = parts[n]
    BY <1>2, <1>4, <2>1
  <2> QED BY <1>3, <1>5, <2>1, <2>2
<1>11. ASSUME NEW o \in b + 2 .. L, p = o - b + a - 1 + n
       PROVE  InPlace(new, p) <=> InPlace(eps, o)
  <2> DEFINE q == o - 1
  <2>1. /\ o \in b + 1 .. L /\ q \in b + 1 .. L /\ o = q + 1 /\ p # 1 /\ r = q - b + a - 1 + n
        /\ q \in Nat \ {0} /\ o \in Nat
    BY <1>1, <1>4, <1>11
  <2> HIDE DEF q
  <2>2. new[p] = eps[o] /\ new[r] = eps[q]
    BY <1>2, <1>4, <1>11, <2>1
  <2>3. InPlace(eps, o) <=> Valid(eps[o]) /\ eps[o].first = eps[q].last + 1
    BY <2>1, InPlaceAfter
  <2> QED BY <1>5, <2>1, <2>2, <2>3
<1> QED BY <1>7, <1>8, <1>9, <1>10, <1>11 DEF n, L

(* Where the episodes end after an exchange.                                    *)
LEMMA ExchangeEnd ==
  ASSUME NEW eps, NEW a, NEW b, NEW parts, NEW target, NEW new,
         Exchanged(eps, a, b, parts, target, new)
  PROVE  StartOf(new, Len(new) + 1) =
           IF b = Len(eps) THEN target.last + 1 ELSE StartOf(eps, Len(eps) + 1)
<1> DEFINE n == Len(parts)
           L == Len(eps)
           M == Len(new)
<1>1. /\ a \in Nat \ {0} /\ b \in Nat /\ a - 1 <= b /\ b <= L /\ L \in Nat /\ n \in Nat \ {0}
      /\ M = a - 1 + n + L - b
  <2>1. Len(parts) # 0
    BY EmptySeq DEF Exchanged, Replacement
  <2> QED BY <2>1, LenProperties DEF Exchanged, Exchange, Replacement
<1>2. /\ \A k \in 1 .. n, i \in 1 .. M : i = a - 1 + k => new[i] = parts[k]
      /\ \A k \in b + 1 .. L, i \in 1 .. M : i = k - b + a - 1 + n => new[i] = eps[k]
      /\ parts[n].last = target.last
  BY DEF Exchanged, Exchange, Divided
<1> HIDE DEF n, L, M
<1>3. M \in Nat \ {0} /\ M \in 1 .. M
  BY <1>1
<1>4. StartOf(new, M + 1) = new[M].last + 1
  BY <1>3, InPlaceAfter
<1>5. CASE b = L
  <2>1. n \in 1 .. n /\ M = a - 1 + n
    BY <1>1, <1>5
  <2>2. new[M] = parts[n]
    BY <1>2, <1>3, <2>1
  <2> QED BY <1>2, <1>4, <1>5, <2>2 DEF n, L, M
<1>6. CASE b # L
  <2>1. L \in b + 1 .. L /\ M = L - b + a - 1 + n /\ L \in Nat \ {0} /\ L + 1 \in Nat
    BY <1>1, <1>6
  <2>2. new[M] = eps[L]
    BY <1>2, <1>3, <2>1
  <2>3. StartOf(eps, L + 1) = eps[L].last + 1
    BY <2>1, InPlaceAfter
  <2> QED BY <1>4, <1>6, <2>2, <2>3 DEF n, L, M
<1> QED BY <1>5, <1>6

-----------------------------------------------------------------------------
(* Ids are distinct, and an id that extends another stands behind it in one run *)
(* of episodes that are in place and all extend it.                             *)
Families(eps) ==
  /\ \A j, k \in 1 .. Len(eps) : eps[j].id = eps[k].id => j = k
  /\ \A i, q \in 1 .. Len(eps) : Extends(eps[q].id, eps[i].id) =>
       /\ i < q /\ Valid(eps[i])
       /\ \A m \in i + 1 .. q : InPlace(eps, m) /\ Extends(eps[m].id, eps[i].id)

(* An id that a repair made up belongs to the episodes in place at the front,   *)
(* among them the one with the id it was derived from.                          *)
Recoveries(eps) ==
  \A q \in 1 .. Len(eps) :
    /\ Len(eps[q].id) >= 2
    /\ eps[q].id[1] = 1 => /\ \A m \in 1 .. q : InPlace(eps, m)
                           /\ \E i \in 1 .. q : eps[i].id = <<1, eps[q].id[2]>>

(* What an exchange needs to keep the families.                                 *)
Detached(eps, a, b, target) ==
  /\ \A i \in 1 .. a - 1, q \in b + 1 .. Len(eps) : ~Extends(eps[q].id, eps[i].id)
  /\ \A q \in 1 .. Len(eps) : q \notin a .. b =>
       eps[q].id # target.id /\ ~Extends(eps[q].id, target.id)
  /\ \A i \in 1 .. Len(eps) : i \notin a .. b /\ Extends(target.id, eps[i].id) =>
       a \in 1 .. Len(eps) /\ target.id = eps[a].id /\ target.first = eps[a].first

(* The id of a part is the target's or extends it.                              *)
LEMMA PartId ==
  ASSUME NEW eps, NEW a, NEW b, NEW parts, NEW target, NEW new,
         Exchanged(eps, a, b, parts, target, new), NEW k \in 1 .. Len(parts)
  PROVE  /\ parts[k].id \in Seq(Nat) /\ target.id \in Seq(Nat) /\ Valid(parts[k])
         /\ parts[k].id = target.id \/ Extends(parts[k].id, target.id)
         /\ k # 1 => Extends(parts[k].id, target.id)
         /\ k = 1 => parts[k].id = target.id
<1>1. parts[k].id \in Seq(Nat)
  BY EpisodeAt DEF Exchanged, Replacement
<1>2. k # 1 => Extends(parts[k].id, target.id)
  BY DEF Exchanged, Family
<1>3. k = 1 => parts[k].id = target.id
  BY DEF Exchanged, Replacement
<1>4. target.id \in Seq(Nat) /\ Valid(parts[k])
  BY DEF Exchanged, Replacement, Repairable
<1> QED BY <1>1, <1>2, <1>3, <1>4

(* An episode that stays and a part: their ids are unrelated, unless the id of  *)
(* the target extends that of the episode.                                      *)
LEMMA PartUnrelated ==
  ASSUME NEW eps, NEW a, NEW b, NEW parts, NEW target, NEW new,
         Exchanged(eps, a, b, parts, target, new), Detached(eps, a, b, target),
         NEW q \in 1 .. Len(eps), q \notin a .. b, NEW k \in 1 .. Len(parts)
  PROVE  /\ eps[q].id # parts[k].id /\ ~Extends(eps[q].id, parts[k].id)
         /\ Extends(parts[k].id, eps[q].id) => Extends(target.id, eps[q].id)
<1>1. eps[q].id \in Seq(Nat)
  BY EpisodeAt DEF Exchanged
<1>2. /\ parts[k].id \in Seq(Nat) /\ target.id \in Seq(Nat)
      /\ parts[k].id = target.id \/ Extends(parts[k].id, target.id)
  BY PartId
<1>3. eps[q].id # target.id /\ ~Extends(eps[q].id, target.id)
  BY DEF Detached
<1>4. ~Extends(eps[q].id, parts[k].id)
  BY <1>1, <1>2, <1>3, ExtendsFurther
<1>5. ASSUME Extends(parts[k].id, eps[q].id) PROVE Extends(target.id, eps[q].id)
  BY <1>1, <1>2, <1>3, <1>5, ExtendsBoth
<1> QED BY <1>2, <1>3, <1>4, <1>5

(* An exchange of a range for a target that is detached keeps the families.     *)
LEMMA FamiliesKept ==
  ASSUME NEW eps, NEW a, NEW b, NEW parts, NEW target, NEW new,
         Exchanged(eps, a, b, parts, target, new), Detached(eps, a, b, target), Families(eps)
  PROVE  Families(new)
<1> DEFINE n == Len(parts)
           L == Len(eps)
<1>1. /\ a \in Nat \ {0} /\ b \in Nat /\ a - 1 <= b /\ b <= L /\ L \in Nat /\ n \in Nat \ {0}
      /\ Len(new) = a - 1 + n + L - b /\ Len(new) \in Nat
  <2>1. Len(parts) # 0
    BY EmptySeq DEF Exchanged, Replacement
  <2> QED BY <2>1, LenProperties DEF Exchanged, Exchange, Replacement
<1> DEFINE Left(p) == p \in 1 .. a - 1 /\ p \in 1 .. L /\ p \notin a .. b /\ new[p] = eps[p]
           Part(p, k) == k \in 1 .. n /\ p = a - 1 + k /\ new[p] = parts[k]
           Right(p, o) == /\ o \in b + 1 .. L /\ o \in 1 .. L /\ o \notin a .. b
                          /\ p = o - b + a - 1 + n /\ new[p] = eps[o]
<1>2. ASSUME NEW p \in 1 .. Len(new)
      PROVE  Left(p) \/ (\E k \in Nat : Part(p, k)) \/ (\E o \in Nat : Right(p, o))
  <2>1. CASE p \in 1 .. a - 1 /\ p \in 1 .. L /\ new[p] = eps[p]
    <3>1. p \notin a .. b
      BY <1>1, <2>1
    <3> QED BY <2>1, <3>1
  <2>2. ASSUME NEW k \in 1 .. n, p = a - 1 + k, new[p] = parts[k] PROVE Part(p, k) /\ k \in Nat
    BY <2>2
  <2>3. ASSUME NEW o \in b + 1 .. L, p = o - b + a - 1 + n, o \in 1 .. L, new[p] = eps[o]
        PROVE  Right(p, o) /\ o \in Nat
    <3>1. o \notin a .. b
      BY <1>1
    <3> QED BY <2>3, <3>1
  <2>4. \/ p \in 1 .. a - 1 /\ p \in 1 .. L /\ new[p] = eps[p]
        \/ \E k \in 1 .. n : p = a - 1 + k /\ new[p] = parts[k]
        \/ \E o \in b + 1 .. L : p = o - b + a - 1 + n /\ o \in 1 .. L /\ new[p] = eps[o]
    BY ExchangeAt
  <2> HIDE DEF Part, Right, L, n
  <2> QED BY <2>1, <2>2, <2>3, <2>4
<1>3. ASSUME NEW p \in 1 .. Len(new), NEW q \in 1 .. Len(new), new[p].id = new[q].id
      PROVE  p = q
  <2>1. CASE Left(p) /\ Left(q)
    BY <1>3, <2>1 DEF Families
  <2>2. ASSUME Left(p), NEW k \in Nat, Part(q, k) PROVE FALSE
    BY <1>3, <2>2, PartUnrelated
  <2>3. ASSUME Left(p), NEW o \in Nat, Right(q, o) PROVE FALSE
    <3>1. p = o
      BY <1>3, <2>3 DEF Families
    <3> QED BY <1>1, <2>3, <3>1
  <2>4. ASSUME NEW j \in Nat, NEW k \in Nat, Part(p, j), Part(q, k) PROVE p = q
    <3>1. parts[j].id = parts[k].id /\ j \in 1 .. Len(parts) /\ k \in 1 .. Len(parts)
      BY <1>3, <2>4
    <3>2. j = k
      BY <3>1 DEF Exchanged, Family
    <3> QED BY <2>4, <3>2
  <2>5. ASSUME NEW k \in Nat, Part(p, k), Left(q) PROVE FALSE
    BY <1>3, <2>5, PartUnrelated
  <2>6. ASSUME NEW k \in Nat, Part(p, k), NEW o \in Nat, Right(q, o) PROVE FALSE
    BY <1>3, <2>6, PartUnrelated
  <2>7. ASSUME NEW o \in Nat, Right(p, o), Left(q) PROVE FALSE
    BY <1>1, <1>3, <2>7 DEF Families
  <2>8. ASSUME NEW o \in Nat, Right(p, o), NEW k \in Nat, Part(q, k) PROVE FALSE
    BY <1>3, <2>8, PartUnrelated
  <2>9. ASSUME NEW i \in Nat, NEW o \in Nat, Right(p, i), Right(q, o) PROVE p = q
    BY <1>3, <2>9 DEF Families
  <2> HIDE DEF Left, Part, Right
  <2> QED BY <1>2, <2>1, <2>2, <2>3, <2>4, <2>5, <2>6, <2>7, <2>8, <2>9
<1>4. ASSUME NEW i \in 1 .. Len(new), NEW q \in 1 .. Len(new), Extends(new[q].id, new[i].id)
      PROVE  /\ i < q /\ Valid(new[i])
             /\ \A m \in i + 1 .. q : InPlace(new, m) /\ Extends(new[m].id, new[i].id)
  <2> DEFINE Goal == /\ i < q /\ Valid(new[i])
                     /\ \A m \in i + 1 .. q : InPlace(new, m) /\ Extends(new[m].id, new[i].id)
  <2>1. ASSUME Left(i), Left(q) PROVE Goal
    <3>1. /\ i < q /\ Valid(eps[i])
          /\ \A m \in i + 1 .. q : InPlace(eps, m) /\ Extends(eps[m].id, eps[i].id)
      BY <1>4, <2>1 DEF Families
    <3>2. ASSUME NEW m \in i + 1 .. q PROVE InPlace(new, m) /\ Extends(new[m].id, new[i].id)
      <4>1. m \in 1 .. Len(new) /\ m < a /\ m \in 1 .. a - 1
        BY <1>1, <2>1
      <4>2. new[m] = eps[m]
        BY <4>1 DEF Exchanged, Exchange
      <4>3. InPlace(new, m) <=> InPlace(eps, m)
        BY <4>1, ExchangeInPlace
      <4> QED BY <2>1, <3>1, <4>2, <4>3
    <3> QED BY <2>1, <3>1, <3>2
  <2>2. ASSUME Left(i), NEW k \in Nat, Part(q, k) PROVE Goal
    <3>1. Extends(target.id, eps[i].id)
      BY <1>4, <2>2, PartUnrelated
    <3>2. a \in 1 .. L /\ target.id = eps[a].id /\ target.first = eps[a].first
      BY <2>2, <3>1 DEF Detached
    <3>3. /\ i < a /\ Valid(eps[i])
          /\ \A m \in i + 1 .. a : InPlace(eps, m) /\ Extends(eps[m].id, eps[i].id)
      BY <2>2, <3>1, <3>2 DEF Families
    <3>4. ASSUME NEW m \in i + 1 .. q PROVE InPlace(new, m) /\ Extends(new[m].id, new[i].id)
      <4>1. CASE m < a
        <5>1. m \in 1 .. Len(new) /\ m \in 1 .. a - 1 /\ m \in i + 1 .. a
          BY <1>1, <4>1
        <5>2. new[m] = eps[m]
          BY <5>1 DEF Exchanged, Exchange
        <5>3. InPlace(new, m) <=> InPlace(eps, m)
          BY <4>1, <5>1, ExchangeInPlace
        <5> QED BY <2>2, <3>3, <5>1, <5>2, <5>3
      <4>2. CASE m >= a
        <5> DEFINE j == m - (a - 1)
        <5>1. j \in 1 .. n /\ m = a - 1 + j /\ m \in 1 .. Len(new) /\ m < a + n
          BY <1>1, <2>2, <4>2
        <5> HIDE DEF j
        <5>2. new[m] = parts[j]
          BY <5>1 DEF Exchanged, Exchange
        <5>3. parts[j].id = target.id \/ Extends(parts[j].id, target.id)
          BY <5>1, PartId
        <5>4. parts[j].id \in Seq(Nat) /\ target.id \in Seq(Nat) /\ eps[i].id \in Seq(Nat)
          <6>1. parts[j].id \in Seq(Nat) /\ target.id \in Seq(Nat)
            BY <5>1, PartId
          <6> QED BY <2>2, <6>1, EpisodeAt DEF Exchanged
        <5>5. Extends(parts[j].id, eps[i].id)
          BY <3>1, <5>3, <5>4, ExtendsFurther
        <5>6. m = a => InPlace(new, m)
          <6>1. a \in i + 1 .. a
            BY <1>1, <3>3
          <6>2. target.first = StartOf(eps, a)
            BY <3>2, <3>3, <6>1 DEF InPlace
          <6> QED BY <5>1, <6>2, ExchangeInPlace
        <5>7. m # a => InPlace(new, m)
          <6>1. m # a => a < m
            BY <1>1, <4>2
          <6> QED BY <5>1, <6>1, ExchangeInPlace
        <5> QED BY <2>2, <5>2, <5>5, <5>6, <5>7
      <4> QED BY <1>1, <4>1, <4>2
    <3>5. i < q
      BY <1>1, <2>2
    <3> QED BY <2>2, <3>3, <3>4, <3>5
  <2>3. ASSUME Left(i), NEW o \in Nat, Right(q, o) PROVE FALSE
    BY <1>4, <2>3 DEF Detached
  <2>4. ASSUME NEW k \in Nat, Part(i, k), Left(q) PROVE FALSE
    BY <1>4, <2>4, PartUnrelated
  <2>5. ASSUME NEW j \in Nat, NEW k \in Nat, Part(i, j), Part(q, k) PROVE Goal
    <3>1. j = 1 /\ 1 \in 1 .. n
      BY <1>1, <1>4, <2>5 DEF Exchanged, Family
    <3>2. Valid(parts[j]) /\ parts[j].id = target.id
      BY <2>5, <3>1, PartId
    <3>3. k # 1
      BY <1>4, <2>5, <3>1 DEF Extends
    <3>4. i = a /\ i < q /\ q < a + n
      BY <1>1, <2>5, <3>1, <3>3
    <3>5. ASSUME NEW m \in i + 1 .. q PROVE InPlace(new, m) /\ Extends(new[m].id, new[i].id)
      <4> DEFINE l == m - (a - 1)
      <4>1. l \in 1 .. n /\ l # 1 /\ m = a - 1 + l /\ m \in 1 .. Len(new) /\ a < m /\ m < a + n
        BY <1>1, <3>4
      <4> HIDE DEF l
      <4>2. new[m] = parts[l]
        BY <4>1 DEF Exchanged, Exchange
      <4>3. InPlace(new, m)
        BY <4>1, ExchangeInPlace
      <4>4. Extends(parts[l].id, target.id)
        BY <4>1, PartId
      <4> QED BY <2>5, <3>2, <4>2, <4>3, <4>4
    <3> QED BY <2>5, <3>2, <3>4, <3>5
  <2>6. ASSUME NEW k \in Nat, Part(i, k), NEW o \in Nat, Right(q, o) PROVE FALSE
    BY <1>4, <2>6, PartUnrelated
  <2>7. ASSUME NEW o \in Nat, Right(i, o), Left(q) PROVE FALSE
    <3>1. o < q
      BY <1>4, <2>7 DEF Families
    <3> QED BY <1>1, <2>7, <3>1
  <2>8. ASSUME NEW o \in Nat, Right(i, o), NEW k \in Nat, Part(q, k) PROVE FALSE
    <3>1. Extends(target.id, eps[o].id)
      BY <1>4, <2>8, PartUnrelated
    <3>2. a \in 1 .. L /\ target.id = eps[a].id
      BY <2>8, <3>1 DEF Detached
    <3>3. o < a
      BY <2>8, <3>1, <3>2 DEF Families
    <3> QED BY <1>1, <2>8, <3>3
  <2>9. ASSUME NEW o \in Nat, NEW u \in Nat, Right(i, o), Right(q, u) PROVE Goal
    <3>0. /\ i = o - b + a - 1 + n /\ q = u - b + a - 1 + n /\ b < o /\ b < u /\ u <= L
          /\ i \in Nat /\ q \in Nat /\ q <= Len(new)
      BY <1>1, <2>9
    <3>1. /\ o < u /\ Valid(eps[o])
          /\ \A m \in o + 1 .. u : InPlace(eps, m) /\ Extends(eps[m].id, eps[o].id)
      BY <1>4, <2>9 DEF Families
    <3>2. ASSUME NEW m \in i + 1 .. q PROVE InPlace(new, m) /\ Extends(new[m].id, new[i].id)
      <4> DEFINE v == m - (a - 1 + n) + b
      <4> HIDE DEF n, L
      <4>1. /\ v \in o + 1 .. u /\ v \in b + 2 .. L /\ v \in b + 1 .. L
            /\ m = v - b + a - 1 + n /\ m \in 1 .. Len(new)
        <5>1. m \in Int /\ i + 1 <= m /\ m <= q
          BY <3>0
        <5> QED BY <1>1, <3>0, <3>1, <5>1
      <4> HIDE DEF v
      <4>2. new[m] = eps[v]
        BY <4>1 DEF Exchanged, Exchange, n, L
      <4>3. InPlace(new, m) <=> InPlace(eps, v)
        BY <4>1, ExchangeInPlace DEF n, L
      <4> QED BY <2>9, <3>1, <4>1, <4>2, <4>3
    <3>3. i < q
      <4> HIDE DEF n, L
      <4> QED BY <1>1, <3>0, <3>1
    <3> QED BY <2>9, <3>1, <3>2, <3>3
  <2> HIDE DEF Left, Part, Right, Goal
  <2>10. Goal
    BY <1>2, <2>1, <2>2, <2>3, <2>4, <2>5, <2>6, <2>7, <2>8, <2>9
  <2> QED BY <2>10 DEF Goal
<1> QED BY <1>3, <1>4 DEF Families

(* What an exchange needs to keep the recoveries.                               *)
Derived(eps, a, b, target) ==
  /\ Len(target.id) >= 2
  /\ \A q \in b + 1 .. Len(eps) : eps[q].id[1] # 1
  /\ target.id[1] = 1 =>
       /\ \A m \in 1 .. a - 1 : InPlace(eps, m)
       /\ target.first = StartOf(eps, a)
       /\ \/ target.id = <<1, target.id[2]>>
          \/ \E i \in 1 .. a - 1 : eps[i].id = <<1, target.id[2]>>

(* Then the recoveries are kept.                                                *)
LEMMA RecoveriesKept ==
  ASSUME NEW eps, NEW a, NEW b, NEW parts, NEW target, NEW new,
         Exchanged(eps, a, b, parts, target, new), Derived(eps, a, b, target), Recoveries(eps)
  PROVE  Recoveries(new)
<1>1. /\ a \in Nat \ {0} /\ b \in Nat /\ a - 1 <= b /\ b <= Len(eps) /\ Len(eps) \in Nat
      /\ Len(parts) \in Nat \ {0} /\ Len(new) = a - 1 + Len(parts) + Len(eps) - b /\ Len(new) \in Nat
  <2>1. Len(parts) # 0
    BY EmptySeq DEF Exchanged, Replacement
  <2> QED BY <2>1, LenProperties DEF Exchanged, Exchange, Replacement
<1>2. ASSUME NEW q \in 1 .. Len(new)
      PROVE  /\ Len(new[q].id) >= 2
             /\ new[q].id[1] = 1 => /\ \A m \in 1 .. q : InPlace(new, m)
                                    /\ \E i \in 1 .. q : new[i].id = <<1, new[q].id[2]>>
  <2>1. CASE q \in 1 .. a - 1 /\ q \in 1 .. Len(eps) /\ new[q] = eps[q]
    <3>1. ASSUME NEW m \in 1 .. q PROVE new[m] = eps[m] /\ (InPlace(new, m) <=> InPlace(eps, m))
      <4>1. m \in 1 .. a - 1 /\ m \in 1 .. Len(new) /\ m < a
        BY <1>1, <2>1
      <4>2. new[m] = eps[m]
        BY <4>1 DEF Exchanged, Exchange
      <4> QED BY <4>1, <4>2, ExchangeInPlace
    <3>2. /\ Len(eps[q].id) >= 2
          /\ eps[q].id[1] = 1 => /\ \A m \in 1 .. q : InPlace(eps, m)
                                 /\ \E i \in 1 .. q : eps[i].id = <<1, eps[q].id[2]>>
      BY <2>1 DEF Recoveries
    <3> QED BY <2>1, <3>1, <3>2
  <2>2. ASSUME NEW k \in 1 .. Len(parts), q = a - 1 + k, new[q] = parts[k]
        PROVE  /\ Len(new[q].id) >= 2
               /\ new[q].id[1] = 1 => /\ \A m \in 1 .. q : InPlace(new, m)
                                      /\ \E i \in 1 .. q : new[i].id = <<1, new[q].id[2]>>
    <3>1. /\ parts[k].id \in Seq(Nat) /\ target.id \in Seq(Nat)
          /\ parts[k].id = target.id \/ Extends(parts[k].id, target.id)
      BY PartId
    <3>2. Len(target.id) \in Nat /\ Len(parts[k].id) \in Nat /\ Len(target.id) >= 2
      BY <3>1, LenProperties DEF Derived
    <3>3. /\ Len(parts[k].id) >= 2 /\ parts[k].id[1] = target.id[1]
          /\ parts[k].id[2] = target.id[2]
      <4>1. 1 \in 1 .. Len(target.id) /\ 2 \in 1 .. Len(target.id)
        BY <3>2
      <4>2. Extends(parts[k].id, target.id) =>
              /\ Len(parts[k].id) > Len(target.id)
              /\ parts[k].id[1] = target.id[1] /\ parts[k].id[2] = target.id[2]
        BY <4>1 DEF Extends
      <4> QED BY <3>1, <3>2, <4>2
    <3>4. ASSUME target.id[1] = 1, NEW m \in 1 .. q PROVE InPlace(new, m)
      <4>1. m \in 1 .. Len(new) /\ m < a + Len(parts)
        BY <1>1, <2>2
      <4>2. /\ \A i \in 1 .. a - 1 : InPlace(eps, i)
            /\ target.first = StartOf(eps, a)
        BY <3>4 DEF Derived
      <4>3. m < a => m \in 1 .. a - 1
        BY <1>1
      <4> QED BY <1>1, <4>1, <4>2, <4>3, ExchangeInPlace
    <3>5. ASSUME target.id[1] = 1 PROVE \E i \in 1 .. q : new[i].id = <<1, target.id[2]>>
      <4>1. CASE target.id = <<1, target.id[2]>>
        <5>1. 1 \in 1 .. Len(parts) /\ a \in 1 .. Len(new) /\ a = a - 1 + 1 /\ a \in 1 .. q
          BY <1>1, <2>2
        <5>2. new[a] = parts[1]
          BY <5>1 DEF Exchanged, Exchange
        <5>3. parts[1].id = target.id
          BY <5>1, PartId
        <5> QED BY <4>1, <5>1, <5>2, <5>3
      <4>2. ASSUME NEW i \in 1 .. a - 1, eps[i].id = <<1, target.id[2]>>
            PROVE  \E j \in 1 .. q : new[j].id = <<1, target.id[2]>>
        <5>1. i \in 1 .. q /\ new[i] = eps[i]
          BY <1>1, <2>2 DEF Exchanged, Exchange
        <5> QED BY <4>2, <5>1
      <4> QED BY <3>5, <4>1, <4>2 DEF Derived
    <3> QED BY <2>2, <3>3, <3>4, <3>5
  <2>3. ASSUME NEW o \in b + 1 .. Len(eps), o \in 1 .. Len(eps), new[q] = eps[o]
        PROVE  Len(new[q].id) >= 2 /\ new[q].id[1] # 1
    BY <2>3 DEF Derived, Recoveries
  <2>4. \/ q \in 1 .. a - 1 /\ q \in 1 .. Len(eps) /\ new[q] = eps[q]
        \/ \E k \in 1 .. Len(parts) : q = a - 1 + k /\ new[q] = parts[k]
        \/ \E o \in b + 1 .. Len(eps) : o \in 1 .. Len(eps) /\ new[q] = eps[o]
    BY ExchangeAt
  <2>5. CASE \E k \in 1 .. Len(parts) : q = a - 1 + k /\ new[q] = parts[k]
    BY <2>2, <2>5
  <2>6. CASE \E o \in b + 1 .. Len(eps) : o \in 1 .. Len(eps) /\ new[q] = eps[o]
    BY <2>3, <2>6
  <2> QED BY <2>1, <2>4, <2>5, <2>6
<1> QED BY <1>2 DEF Recoveries

-----------------------------------------------------------------------------
(* What a repair of such a range exchanges.                                     *)
LEMMA RepairExchanges ==
  ASSUME NEW comp \in CompositionType, comp.episodes # <<>>, ~Covered(comp.episodes),
         NEW index \in Nat, NEW parts,
         LET range == RepairTarget(comp.episodes)
             target == TargetEpisode(comp.episodes, range, index)
         IN  Replacement(parts, target.id) /\ Divided(parts, target) /\ Family(parts, target.id)
  PROVE  LET range == RepairTarget(comp.episodes)
             target == TargetEpisode(comp.episodes, range, index)
         IN  /\ Exchanged(comp.episodes, range.start, range.stop, parts, target,
                          ApplyCoverage(comp, range, parts).episodes)
             /\ target.first = range.from /\ target.last = range.to
             /\ target.id = IF Inserts(range) THEN RecoveryId(comp.episodes, index)
                            ELSE comp.episodes[range.start].id
<1> DEFINE eps == comp.episodes
           range == RepairTarget(eps)
           target == TargetEpisode(eps, range, index)
<1>1. eps \in Seq(EpisodeType) /\ Len(eps) \in Nat
  BY CompositionFields
<1>2. GoodRange(eps, range)
  BY <1>1, RepairTargetIs
<1>3. Repairable(target)
  BY <1>1, <1>2, TargetIsRepairable
<1>4. /\ target.first = range.from /\ target.last = range.to
      /\ target.id = IF Inserts(range) THEN RecoveryId(eps, index) ELSE eps[range.start].id
  BY DEF TargetEpisode
<1>5. Replacement(parts, target.id) /\ Divided(parts, target) /\ Family(parts, target.id)
  OBVIOUS
<1> HIDE DEF eps, range, target
<1>6. range.start \in 1 .. Len(eps) + 1 /\ range.stop \in range.start - 1 .. Len(eps)
  BY <1>1, <1>2 DEF GoodRange
<1>7. parts \in Seq(EpisodeType)
  BY <1>5 DEF Replacement
<1>8. Exchange(eps, range.start, range.stop, parts, ApplyCoverage(comp, range, parts).episodes)
  <2>1. ApplyCoverage(comp, range, parts).episodes =
          SubSeq(eps, 1, range.start - 1) \o parts \o SubSeq(eps, range.stop + 1, Len(eps))
    BY DEF ApplyCoverage, eps
  <2> QED BY <1>1, <1>6, <1>7, <2>1, ExchangeEntries
<1>9. Exchanged(eps, range.start, range.stop, parts, target,
                ApplyCoverage(comp, range, parts).episodes)
  BY <1>1, <1>3, <1>5, <1>6, <1>8 DEF Exchanged
<1> QED BY <1>4, <1>9 DEF eps, range, target

(* A repair keeps the families and the recoveries.                              *)
LEMMA RepairDetaches ==
  ASSUME NEW eps \in Seq(EpisodeType), Families(eps), Recoveries(eps),
         NEW range, NEW k \in 1 .. Len(eps) + 1, RepairCase(eps, k, range), NEW index \in Nat,
         NEW target, target.first = range.from,
         target.id = IF Inserts(range) THEN RecoveryId(eps, index) ELSE eps[range.start].id
  PROVE  /\ Detached(eps, range.start, range.stop, target)
         /\ Derived(eps, range.start, range.stop, target)
<1> DEFINE L == Len(eps)
           a == range.start
           b == range.stop
<1>1. /\ L \in Nat /\ k \in Nat \ {0} /\ k <= L + 1
      /\ \A q \in 1 .. L : eps[q].id \in Seq(Nat) /\ Len(eps[q].id) \in Nat /\ Len(eps[q].id) >= 2
  <2>1. \A q \in 1 .. L : eps[q].id \in Seq(Nat)
    BY EpisodeAt
  <2> QED BY <2>1, LenProperties DEF Recoveries
<1>2. /\ \A m \in 1 .. k - 1 : InPlace(eps, m)
      /\ k \in 1 .. L => ~InPlace(eps, k)
  BY DEF RepairCase
<1>3. /\ \A i, q \in 1 .. L : eps[i].id = eps[q].id => i = q
      /\ \A i, q \in 1 .. L : Extends(eps[q].id, eps[i].id) =>
           i < q /\ Valid(eps[i]) /\ \A m \in i + 1 .. q : InPlace(eps, m)
  BY DEF Families
<1>4. ASSUME NEW i \in 1 .. L, NEW q \in 1 .. L, Extends(eps[q].id, eps[i].id)
      PROVE  i < q /\ (q < k \/ i >= k) /\ Valid(eps[i])
  <2>1. i < q /\ Valid(eps[i]) /\ \A m \in i + 1 .. q : InPlace(eps, m)
    BY <1>3, <1>4
  <2>2. SUFFICES ASSUME q >= k, i < k PROVE FALSE
    BY <1>1, <2>1
  <2>3. k \in i + 1 .. q /\ k \in 1 .. L
    BY <1>1, <2>2
  <2> QED BY <1>2, <2>1, <2>3
<1>5. ASSUME NEW q \in 1 .. L, eps[q].id[1] = 1 PROVE q < k
  <2>1. \A m \in 1 .. q : InPlace(eps, m)
    BY <1>5 DEF Recoveries
  <2>2. SUFFICES ASSUME q >= k PROVE FALSE
    BY <1>1
  <2>3. k \in 1 .. q /\ k \in 1 .. L
    BY <1>1, <2>2
  <2> QED BY <1>2, <2>1, <2>3
<1>6. b \in Nat /\ b + 1 >= k
  <2>1. b = k \/ b = k - 1
    BY DEF RepairCase, AtGap, AtUnknown, AtOverlap
  <2> QED BY <1>1, <2>1
<1>7. \A q \in b + 1 .. L : eps[q].id[1] # 1
  <2> SUFFICES ASSUME NEW q \in b + 1 .. L, eps[q].id[1] = 1 PROVE FALSE
    OBVIOUS
  <2>1. q \in 1 .. L /\ ~(q < k)
    BY <1>1, <1>6
  <2> QED BY <1>5, <2>1
<1>8. CASE AtGap(eps, k, range)
  <2>1. a = k /\ b = k - 1 /\ range.from = StartOf(eps, k)
    BY <1>8 DEF AtGap
  <2>2. target.id = RecoveryId(eps, index)
    BY <1>1, <2>1 DEF Inserts
  <2>3. /\ target.id \in Seq(Nat) /\ Len(target.id) = 2 /\ target.id[1] = 1
        /\ target.id = <<1, target.id[2]>> /\ \A q \in 1 .. L : eps[q].id # target.id
    BY <2>2, RecoveryIdIsNew
  <2>4. ASSUME NEW i \in 1 .. L PROVE ~Extends(target.id, eps[i].id)
    <3>1. PICK n \in Nat : n = Len(eps[i].id) /\ n >= 2
      BY <1>1
    <3>2. PICK l \in Nat : l = Len(target.id) /\ l = 2
      BY <2>3
    <3>3. l <= n
      BY <3>1, <3>2
    <3>4. Len(target.id) <= Len(eps[i].id)
      BY <3>1, <3>2, <3>3
    <3> QED BY <3>1, <3>2, <3>4 DEF Extends
  <2>5. ASSUME NEW q \in 1 .. L, Extends(eps[q].id, target.id) PROVE FALSE
    <3>1. 1 \in 1 .. Len(target.id) /\ 2 \in 1 .. Len(target.id)
      BY <2>3
    <3>2. eps[q].id[1] = 1 /\ eps[q].id[2] = target.id[2]
      BY <2>3, <2>5, <3>1 DEF Extends
    <3>3. PICK i \in 1 .. q : eps[i].id = <<1, eps[q].id[2]>>
      BY <3>2 DEF Recoveries
    <3>4. i \in 1 .. L
      BY <1>1
    <3> QED BY <2>3, <3>2, <3>3, <3>4
  <2>6. ASSUME NEW i \in 1 .. a - 1, NEW q \in b + 1 .. L PROVE ~Extends(eps[q].id, eps[i].id)
    <3>1. i \in 1 .. L /\ q \in 1 .. L /\ ~(q < k) /\ ~(i >= k)
      BY <1>1, <2>1
    <3> QED BY <1>4, <3>1
  <2>7. Detached(eps, a, b, target)
    BY <2>3, <2>4, <2>5, <2>6 DEF Detached
  <2>8. Derived(eps, a, b, target)
    BY <1>2, <1>7, <2>1, <2>3 DEF Derived
  <2> QED BY <2>7, <2>8
<1>9. ASSUME NEW f \in 1 .. L, f <= k, a = f, b = k, k \in 1 .. L, ~Inserts(range),
             range.from = eps[f].first \/ f = k,
             Valid(eps[k]) => f < k, ~Valid(eps[k]) => f = k
      PROVE  Detached(eps, a, b, target) /\ Derived(eps, a, b, target)
  <2>1. target.id = eps[f].id
    BY <1>9
  <2>2. ASSUME NEW q \in 1 .. L, q \notin a .. b
        PROVE  eps[q].id # target.id /\ ~Extends(eps[q].id, target.id)
    <3>1. q # f
      BY <1>1, <1>9, <2>2
    <3>2. ASSUME Extends(eps[q].id, eps[f].id) PROVE FALSE
      <4>1. f < q /\ (q < k \/ f >= k) /\ Valid(eps[f])
        BY <1>4, <3>2
      <4> QED BY <1>1, <1>9, <2>2, <4>1
    <3> QED BY <1>3, <2>1, <3>1, <3>2
  <2>3. ASSUME NEW i \in 1 .. a - 1, NEW q \in b + 1 .. L PROVE ~Extends(eps[q].id, eps[i].id)
    <3>1. i \in 1 .. L /\ q \in 1 .. L /\ ~(q < k) /\ ~(i >= k)
      BY <1>1, <1>9
    <3> QED BY <1>4, <3>1
  <2>4. ASSUME NEW i \in 1 .. L, Extends(target.id, eps[i].id)
        PROVE  target.first = eps[f].first
    <3>1. i < f /\ (f < k \/ i >= k)
      BY <1>4, <2>1, <2>4
    <3>2. f # k
      BY <1>1, <1>9, <3>1
    <3> QED BY <1>9, <3>2
  <2>5. Detached(eps, a, b, target)
    BY <1>9, <2>1, <2>2, <2>3, <2>4 DEF Detached
  <2>6. ASSUME target.id[1] = 1
        PROVE  /\ \A m \in 1 .. a - 1 : InPlace(eps, m)
               /\ target.first = StartOf(eps, a)
               /\ \/ target.id = <<1, target.id[2]>>
                  \/ \E i \in 1 .. a - 1 : eps[i].id = <<1, target.id[2]>>
    <3>1. f < k
      BY <1>5, <2>1, <2>6
    <3>2. f \in 1 .. k - 1 /\ \A m \in 1 .. a - 1 : m \in 1 .. k - 1
      BY <1>1, <1>9, <3>1
    <3>3. range.from = eps[f].first /\ InPlace(eps, f)
      BY <1>1, <1>2, <1>9, <3>1, <3>2
    <3>4. target.first = StartOf(eps, a)
      BY <1>9, <3>3 DEF InPlace
    <3>5. PICK i \in 1 .. f : eps[i].id = <<1, eps[f].id[2]>>
      BY <2>1, <2>6 DEF Recoveries
    <3>6. i = f \/ i \in 1 .. a - 1
      BY <1>1, <1>9
    <3> QED BY <1>2, <2>1, <3>2, <3>4, <3>5, <3>6
  <2>7. Len(target.id) >= 2
    BY <1>1, <2>1
  <2>8. Derived(eps, a, b, target)
    BY <1>7, <2>6, <2>7 DEF Derived
  <2> QED BY <2>5, <2>8
<1>10. CASE AtUnknown(eps, k, range)
  <2>1. a = k /\ b = k /\ k \in 1 .. L /\ ~Valid(eps[k])
    BY <1>10 DEF AtUnknown
  <2>2. ~Inserts(range) /\ k <= k
    BY <1>1, <2>1 DEF Inserts
  <2> QED BY <1>9, <2>1, <2>2
<1>11. CASE AtOverlap(eps, k, range)
  <2>1. /\ a \in 1 .. k - 1 /\ b = k /\ k \in 1 .. L /\ Valid(eps[k])
        /\ range.from = eps[a].first
    BY <1>11 DEF AtOverlap
  <2>2. PICK f \in Nat : f = a
    BY <2>1
  <2>3. ~Inserts(range) /\ f < k /\ f <= k /\ f \in 1 .. L
    BY <1>1, <2>1, <2>2 DEF Inserts
  <2>4. range.from = eps[f].first
    BY <2>1, <2>2
  <2> QED BY <1>9, <2>1, <2>2, <2>3, <2>4
<1>12. AtGap(eps, k, range) \/ AtUnknown(eps, k, range) \/ AtOverlap(eps, k, range)
  BY DEF RepairCase
<1> QED BY <1>8, <1>10, <1>11, <1>12

-----------------------------------------------------------------------------
(* What an arrangement leaves alone: the ids and ranges of the episodes.  The  *)
(* outline of segments is that of their episodes put together.                 *)
Lines == Seq(Nat) \X (0 .. N) \X (0 .. N)
LineOf == [e \in EpisodeType |-> <<e.id, e.first, e.last>>]
Outline(eps) == Mapped(eps, LineOf)

OutlineIn == [g \in SegmentType |-> Outline(g.episodes)]
OutlineOf(segs) == FlattenSeq(Mapped(segs, OutlineIn))

Holds(segs, outline) ==
  /\ segs \in Seq(SegmentType) /\ OutlineOf(segs) = outline
  /\ \A k \in 1 .. Len(segs) : segs[k].episodes # <<>>

(* The lines of an outline.                                                    *)
LEMMA OutlineLines ==
  ASSUME NEW eps \in Seq(EpisodeType)
  PROVE  /\ LineOf \in [EpisodeType -> Lines] /\ Outline(eps) \in Seq(Lines)
         /\ Len(Outline(eps)) = Len(eps) /\ Len(eps) \in Nat
         /\ \A k \in 1 .. Len(eps) : Outline(eps)[k] = <<eps[k].id, eps[k].first, eps[k].last>>
<1>1. LineOf \in [EpisodeType -> Lines]
  BY DEF LineOf, Lines, EpisodeType
<1>2. \A k \in 1 .. Len(eps) : LineOf[eps[k]] = <<eps[k].id, eps[k].first, eps[k].last>>
  <2>1. \A k \in 1 .. Len(eps) : eps[k] \in EpisodeType
    BY ElementOfSeq
  <2> QED BY <2>1 DEF LineOf
<1>3. Maps(eps, LineOf, Lines)
  BY <1>1, MappedEntries
<1>4. Len(eps) \in Nat
  BY LenProperties
<1> QED BY <1>1, <1>2, <1>3, <1>4 DEF Maps, Outline

(* Outlines are equal if the lines are.                                        *)
LEMMA SameOutline ==
  ASSUME NEW eps \in Seq(EpisodeType), NEW new \in Seq(EpisodeType)
  PROVE  Outline(new) = Outline(eps) <=>
           /\ Len(new) = Len(eps)
           /\ \A k \in 1 .. Len(eps) :
                new[k].id = eps[k].id /\ new[k].first = eps[k].first /\ new[k].last = eps[k].last
<1>1. /\ Outline(eps) \in Seq(Lines) /\ Len(Outline(eps)) = Len(eps)
      /\ \A k \in 1 .. Len(eps) : Outline(eps)[k] = <<eps[k].id, eps[k].first, eps[k].last>>
  BY OutlineLines
<1>2. /\ Outline(new) \in Seq(Lines) /\ Len(Outline(new)) = Len(new)
      /\ \A k \in 1 .. Len(new) : Outline(new)[k] = <<new[k].id, new[k].first, new[k].last>>
  BY OutlineLines
<1>3. ASSUME Outline(new) = Outline(eps)
      PROVE  /\ Len(new) = Len(eps)
             /\ \A k \in 1 .. Len(eps) :
                  new[k].id = eps[k].id /\ new[k].first = eps[k].first /\ new[k].last = eps[k].last
  <2>1. Len(new) = Len(eps)
    BY <1>1, <1>2, <1>3
  <2>2. ASSUME NEW k \in 1 .. Len(eps)
        PROVE  new[k].id = eps[k].id /\ new[k].first = eps[k].first /\ new[k].last = eps[k].last
    <3>1. <<new[k].id, new[k].first, new[k].last>> = <<eps[k].id, eps[k].first, eps[k].last>>
      BY <1>1, <1>2, <1>3, <2>1
    <3> QED BY <3>1
  <2> QED BY <2>1, <2>2
<1>4. ASSUME Len(new) = Len(eps),
             \A k \in 1 .. Len(eps) :
               new[k].id = eps[k].id /\ new[k].first = eps[k].first /\ new[k].last = eps[k].last
      PROVE  Outline(new) = Outline(eps)
  <2>1. \A k \in 1 .. Len(Outline(new)) : Outline(new)[k] = Outline(eps)[k]
    BY <1>1, <1>2, <1>4
  <2> QED BY <1>1, <1>2, <1>4, <2>1, SeqEqual
<1> QED BY <1>3, <1>4

(* The outline of parts put together.                                          *)
LEMMA OutlineConcat ==
  ASSUME NEW eps \in Seq(EpisodeType), NEW new \in Seq(EpisodeType)
  PROVE  Outline(eps \o new) = Outline(eps) \o Outline(new)
<1>1. LineOf \in [EpisodeType -> Lines]
  BY OutlineLines
<1> QED BY <1>1, MappedConcat DEF Outline

(* The same of any number of parts.                                            *)
LEMMA OutlineFlatten ==
  ASSUME NEW ss \in Seq(Seq(EpisodeType))
  PROVE  Outline(FlattenSeq(ss)) = FlattenSeq([n \in DOMAIN ss |-> Outline(ss[n])])
<1>1. LineOf \in [EpisodeType -> Lines]
  <2>1. <<>> \in Seq(EpisodeType)
    BY EmptySeq
  <2> QED BY <2>1, OutlineLines
<1>2. Mapped(FlattenSeq(ss), LineOf) = FlattenSeq(MappedEach(ss, LineOf))
  BY <1>1, MappedFlatten
<1>3. MappedEach(ss, LineOf) = [n \in DOMAIN ss |-> Outline(ss[n])]
  BY DEF MappedEach, Outline
<1> QED BY <1>2, <1>3 DEF Outline

(* The outlines of segments.                                                   *)
LEMMA SegmentOutlines ==
  ASSUME NEW segs \in Seq(SegmentType)
  PROVE  /\ OutlineIn \in [SegmentType -> Seq(Lines)]
         /\ Mapped(segs, OutlineIn) \in Seq(Seq(Lines)) /\ Len(Mapped(segs, OutlineIn)) = Len(segs)
         /\ \A k \in 1 .. Len(segs) : Mapped(segs, OutlineIn)[k] = Outline(segs[k].episodes)
         /\ Mapped(segs, OutlineIn) = [k \in DOMAIN segs |-> Outline(segs[k].episodes)]
<1>1. ASSUME NEW g \in SegmentType PROVE Outline(g.episodes) \in Seq(Lines)
  <2>1. g.episodes \in Seq(EpisodeType)
    BY DEF SegmentType
  <2> QED BY <2>1, OutlineLines
<1>2. OutlineIn \in [SegmentType -> Seq(Lines)]
  BY <1>1 DEF OutlineIn
<1>3. Maps(segs, OutlineIn, Seq(Lines))
  BY <1>2, MappedEntries
<1>4. \A k \in 1 .. Len(segs) : OutlineIn[segs[k]] = Outline(segs[k].episodes)
  BY SegmentAt DEF OutlineIn
<1>5. DOMAIN segs = 1 .. Len(segs)
  BY LenProperties
<1>6. Mapped(segs, OutlineIn) = [k \in DOMAIN segs |-> OutlineIn[segs[k]]]
  BY DEF Mapped
<1>7. [k \in DOMAIN segs |-> OutlineIn[segs[k]]] = [k \in DOMAIN segs |-> Outline(segs[k].episodes)]
  BY <1>4, <1>5
<1>8. /\ Mapped(segs, OutlineIn) \in Seq(Seq(Lines)) /\ Len(Mapped(segs, OutlineIn)) = Len(segs)
      /\ \A k \in 1 .. Len(segs) : Mapped(segs, OutlineIn)[k] = OutlineIn[segs[k]]
  BY <1>3 DEF Maps
<1> QED BY <1>2, <1>4, <1>6, <1>7, <1>8

(* Segments put together have the outline of the parts put together.           *)
LEMMA SegmentsFlatten ==
  ASSUME NEW ss \in Seq(Seq(SegmentType))
  PROVE  /\ FlattenSeq(ss) \in Seq(SegmentType)
         /\ OutlineOf(FlattenSeq(ss)) = FlattenSeq([n \in DOMAIN ss |-> OutlineOf(ss[n])])
<1> DEFINE mm == MappedEach(ss, OutlineIn)
<1>1. OutlineIn \in [SegmentType -> Seq(Lines)]
  <2>1. <<>> \in Seq(SegmentType)
    BY EmptySeq
  <2> QED BY <2>1, SegmentOutlines
<1>2. FlattenSeq(ss) \in Seq(SegmentType)
  BY FlattenMembers
<1>3. mm \in Seq(Seq(Seq(Lines))) /\ Mapped(FlattenSeq(ss), OutlineIn) = FlattenSeq(mm)
  BY <1>1, MappedFlatten
<1>4. FlattenSeq(FlattenSeq(mm)) = FlattenSeq([n \in DOMAIN mm |-> FlattenSeq(mm[n])])
  <2> HIDE DEF mm
  <2> QED BY <1>3, FlattenTwice
<1>5. DOMAIN mm = DOMAIN ss /\ \A n \in DOMAIN ss : mm[n] = Mapped(ss[n], OutlineIn)
  BY DEF MappedEach
<1> HIDE DEF mm
<1>6. [n \in DOMAIN mm |-> FlattenSeq(mm[n])] = [n \in DOMAIN ss |-> OutlineOf(ss[n])]
  BY <1>5 DEF OutlineOf
<1> QED BY <1>2, <1>3, <1>4, <1>6 DEF OutlineOf

(* One segment, and one that replaces segments, have the outline of their      *)
(* episodes.                                                                   *)
LEMMA JoinedOutline ==
  ASSUME NEW segs \in Seq(SegmentType), segs # <<>>,
         \A k \in 1 .. Len(segs) : segs[k].episodes # <<>>
  PROVE  /\ Joined(segs) \in SegmentType /\ Joined(segs).episodes # <<>>
         /\ Outline(Joined(segs).episodes) = OutlineOf(segs)
<1> DEFINE ss == [k \in DOMAIN segs |-> segs[k].episodes]
           all == FlattenSeq(ss)
<1>1. Len(segs) \in Nat /\ DOMAIN segs = 1 .. Len(segs) /\ 1 \in 1 .. Len(segs)
  <2>1. Len(segs) \in Nat \ {0}
    BY EmptySeq
  <2> QED BY <2>1, LenProperties
<1>2. ss \in Seq(Seq(EpisodeType)) /\ Len(ss) = Len(segs) /\ DOMAIN ss = DOMAIN segs
      /\ \A k \in 1 .. Len(segs) : ss[k] = segs[k].episodes
  <2>1. ss \in [1 .. Len(segs) -> Seq(EpisodeType)]
    BY <1>1, SegmentAt
  <2>2. \A k \in 1 .. Len(segs) : ss[k] = segs[k].episodes
    BY <1>1
  <2>3. DOMAIN ss = DOMAIN segs
    OBVIOUS
  <2> HIDE DEF ss
  <2>4. ss \in Seq(Seq(EpisodeType)) /\ Len(ss) = Len(segs)
    BY <1>1, <2>1, SequenceOf
  <2> QED BY <2>2, <2>3, <2>4
<1>3. Joined(segs) = [type |-> Head(segs).type, episodes |-> all]
  BY DEF Joined
<1> HIDE DEF ss
<1>4. all \in Seq(EpisodeType) /\ ToSet(all) = UNION {ToSet(ss[i]) : i \in 1 .. Len(ss)}
  BY <1>2, FlattenMembers
<1>5. all # <<>>
  <2>1. ss[1] \in Seq(EpisodeType) /\ ss[1] # <<>>
    BY <1>1, <1>2, ElementOfSeq
  <2>2. ss[1][1] \in ToSet(ss[1])
    BY <2>1, ToSetOf
  <2>3. ss[1][1] \in ToSet(all)
    BY <1>1, <1>2, <1>4, <2>2
  <2>4. ToSet(<<>>) = {}
    BY DEF ToSet
  <2> HIDE DEF all
  <2> QED BY <2>3, <2>4
<1>6. Outline(all) = FlattenSeq([n \in DOMAIN ss |-> Outline(ss[n])])
  BY <1>2, OutlineFlatten
<1>7. [n \in DOMAIN ss |-> Outline(ss[n])] = [n \in DOMAIN segs |-> Outline(segs[n].episodes)]
  BY <1>1, <1>2
<1>8. Mapped(segs, OutlineIn) = [k \in DOMAIN segs |-> Outline(segs[k].episodes)]
  BY SegmentOutlines
<1>9. Outline(all) = OutlineOf(segs)
  BY <1>6, <1>7, <1>8 DEF OutlineOf
<1>10. Head(segs).type \in BlockTypes
  <2>1. Head(segs) = segs[1]
    BY <1>1
  <2> QED BY <1>1, <2>1, SegmentAt
<1> HIDE DEF all
<1> QED BY <1>3, <1>4, <1>5, <1>9, <1>10 DEF SegmentType

(* Joining consecutive segments keeps the outline.                             *)
LEMMA JoinedFromHolds ==
  ASSUME NEW outline, NEW segs, Holds(segs, outline), NEW starts, starts \subseteq 1 .. Len(segs),
         segs # <<>> => 1 \in starts
  PROVE  Holds(JoinedFrom(segs, starts), outline)
<1> DEFINE ps == Pieces(segs, starts)
           new == JoinedFrom(segs, starts)
<1>1. segs \in Seq(SegmentType) /\ OutlineOf(segs) = outline
      /\ \A k \in 1 .. Len(segs) : segs[k].episodes # <<>>
  BY DEF Holds
<1>2. ps \in Seq(Seq(SegmentType)) /\ Divides(segs, starts)
  BY <1>1, PiecesEntries
<1>3. FlattenSeq(ps) = segs
  BY <1>1, FlattenPieces
<1>4. Len(ps) \in Nat /\ DOMAIN ps = 1 .. Len(ps)
  BY <1>2, LenProperties
<1>5. ASSUME NEW n \in 1 .. Len(ps)
      PROVE  /\ Joined(ps[n]) \in SegmentType /\ Joined(ps[n]).episodes # <<>>
             /\ Outline(Joined(ps[n]).episodes) = OutlineOf(ps[n])
  <2>1. ps[n] \in Seq(SegmentType) /\ ps[n] # <<>>
    <3>1. ps[n] \in Seq(SegmentType)
      BY <1>2, ElementOfSeq
    <3> QED BY <1>2, <3>1 DEF Divides
  <2>2. \A j \in 1 .. Len(ps[n]) : ps[n][j].episodes # <<>>
    <3>1. n \in 1 .. Cardinality(starts)
      BY <1>2 DEF Divides
    <3>2. ASSUME NEW j \in 1 .. Len(ps[n]) PROVE \E i \in 1 .. Len(segs) : ps[n][j] = segs[i]
      BY <1>2, <3>1 DEF Divides
    <3> QED BY <1>1, <3>2
  <2> QED BY <2>1, <2>2, JoinedOutline
<1>6. new = [n \in 1 .. Len(ps) |-> Joined(ps[n])]
  BY <1>4 DEF JoinedFrom
<1> HIDE DEF new, ps
<1>7. new \in Seq(SegmentType) /\ Len(new) = Len(ps)
  <2>1. new \in [1 .. Len(ps) -> SegmentType]
    BY <1>5, <1>6
  <2> QED BY <1>4, <2>1, SequenceOf
<1>8. \A n \in 1 .. Len(new) : new[n].episodes # <<>>
  BY <1>5, <1>6, <1>7
<1>9. OutlineOf(new) = OutlineOf(segs)
  <2>1. Mapped(new, OutlineIn) = [n \in DOMAIN new |-> Outline(new[n].episodes)]
    BY <1>7, SegmentOutlines
  <2>2. DOMAIN new = DOMAIN ps
    BY <1>4, <1>6
  <2>3. \A n \in DOMAIN ps : Outline(new[n].episodes) = OutlineOf(ps[n])
    BY <1>4, <1>5, <1>6
  <2>4. [n \in DOMAIN new |-> Outline(new[n].episodes)] = [n \in DOMAIN ps |-> OutlineOf(ps[n])]
    BY <2>2, <2>3
  <2>5. OutlineOf(FlattenSeq(ps)) = FlattenSeq([n \in DOMAIN ps |-> OutlineOf(ps[n])])
    BY <1>2, SegmentsFlatten
  <2> QED BY <1>3, <2>1, <2>4, <2>5 DEF OutlineOf
<1> QED BY <1>1, <1>7, <1>8, <1>9 DEF Holds, new

(* Merging short breaks keeps it.                                              *)
LEMMA MergedBreaksHolds ==
  ASSUME NEW outline, NEW segs, Holds(segs, outline)
  PROVE  Holds(MergedBreaks(segs), outline)
<1> DEFINE short == {k \in DOMAIN segs : IsShortBreak(segs, k)}
           rest(eps) == [k \in DOMAIN eps |-> [eps[k] EXCEPT !.mode = "BREAK", !.kind = "BREAK_TIME"]]
           looks == [k \in DOMAIN segs |->
                      IF k \in short THEN [segs[k] EXCEPT !.episodes = rest(@)] ELSE segs[k]]
<1>0. segs \in Seq(SegmentType) /\ OutlineOf(segs) = outline
      /\ \A k \in 1 .. Len(segs) : segs[k].episodes # <<>>
  BY DEF Holds
<1>1. DOMAIN segs = 1 .. Len(segs) /\ Len(segs) \in Nat
  BY <1>0, LenProperties
<1>2. ASSUME NEW k \in 1 .. Len(segs)
      PROVE  /\ looks[k] \in SegmentType /\ Outline(looks[k].episodes) = Outline(segs[k].episodes)
             /\ looks[k].episodes # <<>>
  <2> DEFINE eps == segs[k].episodes
  <2>1. segs[k] \in SegmentType /\ segs[k].type \in BlockTypes /\ eps \in Seq(EpisodeType)
        /\ eps # <<>>
    BY <1>0, SegmentAt
  <2> HIDE DEF eps
  <2>2. DOMAIN eps = 1 .. Len(eps) /\ Len(eps) \in Nat \ {0}
    BY <2>1, LenProperties, EmptySeq
  <2>3. ASSUME NEW j \in 1 .. Len(eps)
        PROVE  /\ rest(eps)[j] \in EpisodeType /\ rest(eps)[j].id = eps[j].id
               /\ rest(eps)[j].first = eps[j].first /\ rest(eps)[j].last = eps[j].last
    <3>1. eps[j] \in EpisodeType
      BY <2>1, EpisodeAt
    <3>2. rest(eps)[j] = [eps[j] EXCEPT !.mode = "BREAK", !.kind = "BREAK_TIME"]
      BY <2>2
    <3>3. "BREAK" \in BlockTypes /\ "BREAK_TIME" \in ContentKinds
      BY DEF BlockTypes, ContentKinds
    <3> QED BY <3>1, <3>2, <3>3 DEF EpisodeType
  <2>4. rest(eps) \in [1 .. Len(eps) -> EpisodeType]
    BY <2>2, <2>3
  <2> HIDE DEF rest
  <2>5. rest(eps) \in Seq(EpisodeType) /\ Len(rest(eps)) = Len(eps)
    BY <2>2, <2>4, SequenceOf
  <2>6. rest(eps) # <<>>
    BY <2>2, <2>5, EmptySeq
  <2>7. Outline(rest(eps)) = Outline(eps)
    BY <2>1, <2>3, <2>5, SameOutline
  <2>8. looks[k] = IF k \in short THEN [segs[k] EXCEPT !.episodes = rest(eps)] ELSE segs[k]
    BY <1>1 DEF eps
  <2> QED BY <2>1, <2>5, <2>6, <2>7, <2>8 DEF SegmentType, eps
<1>3. looks \in [1 .. Len(segs) -> SegmentType] /\ DOMAIN looks = DOMAIN segs
  BY <1>1, <1>2
<1> HIDE DEF looks
<1>4. looks \in Seq(SegmentType) /\ Len(looks) = Len(segs)
  BY <1>1, <1>3, SequenceOf
<1>5. OutlineOf(looks) = OutlineOf(segs)
  <2>1. Mapped(looks, OutlineIn) = [k \in DOMAIN looks |-> Outline(looks[k].episodes)]
    BY <1>4, SegmentOutlines
  <2>2. Mapped(segs, OutlineIn) = [k \in DOMAIN segs |-> Outline(segs[k].episodes)]
    BY <1>0, SegmentOutlines
  <2>3. [k \in DOMAIN looks |-> Outline(looks[k].episodes)] = [k \in DOMAIN segs |-> Outline(segs[k].episodes)]
    BY <1>1, <1>2, <1>3
  <2> QED BY <2>1, <2>2, <2>3 DEF OutlineOf
<1>6. Holds(looks, outline)
  BY <1>0, <1>2, <1>4, <1>5 DEF Holds
<1>7. /\ DOMAIN segs \ short \subseteq 1 .. Len(looks)
      /\ looks # <<>> => 1 \in DOMAIN segs \ short
  <2>1. 1 \notin short
    BY DEF IsShortBreak
  <2>2. looks # <<>> => 1 \in DOMAIN segs
    BY <1>1, <1>4, EmptySeq
  <2> QED BY <1>1, <1>4, <2>1, <2>2
<1>8. MergedBreaks(segs) = JoinedFrom(looks, DOMAIN segs \ short)
  BY DEF MergedBreaks, looks
<1> HIDE DEF short
<1> QED BY <1>6, <1>7, <1>8, JoinedFromHolds

(* Giving episodes another mode keeps it.                                      *)
LEMMA AllWithHolds ==
  ASSUME NEW eps \in Seq(EpisodeType), NEW mode \in BlockTypes
  PROVE  /\ AllWith(eps, mode) \in Seq(EpisodeType)
         /\ Outline(AllWith(eps, mode)) = Outline(eps) /\ (AllWith(eps, mode) = <<>> <=> eps = <<>>)
<1> DEFINE new == AllWith(eps, mode)
<1>1. DOMAIN eps = 1 .. Len(eps) /\ Len(eps) \in Nat
  BY LenProperties
<1>2. ASSUME NEW j \in 1 .. Len(eps)
      PROVE  /\ new[j] \in EpisodeType /\ new[j].id = eps[j].id
             /\ new[j].first = eps[j].first /\ new[j].last = eps[j].last
  <2>1. eps[j] \in EpisodeType
    BY EpisodeAt
  <2>2. new[j] = [eps[j] EXCEPT !.mode = mode]
    BY <1>1 DEF AllWith
  <2> QED BY <2>1, <2>2 DEF EpisodeType
<1>3. new \in [1 .. Len(eps) -> EpisodeType]
  BY <1>1, <1>2 DEF AllWith
<1> HIDE DEF new
<1>4. new \in Seq(EpisodeType) /\ Len(new) = Len(eps)
  BY <1>1, <1>3, SequenceOf
<1>5. Outline(new) = Outline(eps)
  BY <1>2, <1>4, SameOutline
<1>6. new = <<>> <=> eps = <<>>
  BY <1>1, <1>4, EmptySeq
<1> QED BY <1>4, <1>5, <1>6 DEF new

(* So does a segment by itself, and two instead of one.                        *)
LEMMA OneOrTwoHold ==
  ASSUME NEW one \in SegmentType, NEW two \in SegmentType
  PROVE  /\ one.episodes # <<>> => Holds(<<one>>, Outline(one.episodes))
         /\ one.episodes # <<>> /\ two.episodes # <<>> =>
              Holds(<<one, two>>, Outline(one.episodes) \o Outline(two.episodes))
         /\ Holds(<<>>, <<>>)
<1> DEFINE o == Outline(one.episodes)
           t == Outline(two.episodes)
<1>1. o \in Seq(Lines) /\ t \in Seq(Lines)
  <2>1. one.episodes \in Seq(EpisodeType) /\ two.episodes \in Seq(EpisodeType)
    BY DEF SegmentType
  <2> QED BY <2>1, OutlineLines
<1>2. FlattenSeq(<<>>) = <<>>
  <2>1. Len(<<>>) = 0
    BY EmptySeq
  <2> QED BY <2>1 DEF FlattenSeq
<1>3. ASSUME NEW x \in Seq(Lines) PROVE FlattenSeq(<<x>>) = x
  <2> DEFINE g == [i \in 0 .. 1 |-> IF i = 0 THEN <<>> ELSE x]
  <2>1. <<x>> \in Seq(Seq(Lines)) /\ Len(<<x>>) = 1 /\ <<>> \in Seq(Lines) /\ <<>> \o x = x
    BY EmptySeq, ConcatEmptySeq
  <2>2. g \in [0 .. 1 -> Seq(Lines)] /\ g[0] = <<>> /\ g[1] = x
    BY <2>1
  <2> HIDE DEF g
  <2>3. \A i \in 1 .. 1 : i = 1 /\ i - 1 = 0 /\ <<x>>[i] = x
    OBVIOUS
  <2>4. Gathers(Lines, <<x>>, g)
    BY <2>1, <2>2, <2>3 DEF Gathers
  <2> QED BY <2>1, <2>2, <2>4, FlattenGathered
<1>4. FlattenSeq(<<o, t>>) = o \o t
  <2>1. <<o>> \in Seq(Seq(Lines)) /\ <<t>> \in Seq(Seq(Lines)) /\ <<o, t>> = <<o>> \o <<t>>
    BY <1>1
  <2>2. FlattenSeq(<<o>> \o <<t>>) = FlattenSeq(<<o>>) \o FlattenSeq(<<t>>)
    BY <2>1, FlattenConcat
  <2> HIDE DEF o, t
  <2> QED BY <1>1, <1>3, <2>1, <2>2
<1>5. OutlineOf(<<one>>) = o
  <2>1. <<one>> \in Seq(SegmentType)
    OBVIOUS
  <2>2. Mapped(<<one>>, OutlineIn) = <<o>>
    <3>1. OutlineIn[one] = o
      BY DEF OutlineIn
    <3>2. DOMAIN <<one>> = 1 .. 1
      OBVIOUS
    <3> QED BY <3>1, <3>2 DEF Mapped
  <2> QED BY <1>1, <1>3, <2>2 DEF OutlineOf
<1>6. OutlineOf(<<one, two>>) = o \o t
  <2>1. Mapped(<<one, two>>, OutlineIn) = <<o, t>>
    <3>1. OutlineIn[one] = o /\ OutlineIn[two] = t
      BY DEF OutlineIn
    <3>2. DOMAIN <<one, two>> = 1 .. 2
      OBVIOUS
    <3> QED BY <3>1, <3>2 DEF Mapped
  <2> QED BY <1>4, <2>1 DEF OutlineOf
<1>7. OutlineOf(<<>>) = <<>>
  <2>1. Mapped(<<>>, OutlineIn) = <<>>
    BY DEF Mapped
  <2> QED BY <1>2, <2>1 DEF OutlineOf
<1>8. /\ <<one>> \in Seq(SegmentType) /\ Len(<<one>>) = 1 /\ <<one>>[1] = one
      /\ <<one, two>> \in Seq(SegmentType) /\ Len(<<one, two>>) = 2
      /\ <<one, two>>[1] = one /\ <<one, two>>[2] = two
      /\ <<>> \in Seq(SegmentType) /\ Len(<<>>) = 0
  BY EmptySeq
<1>9. Holds(<<>>, <<>>)
  BY <1>7, <1>8 DEF Holds
<1>10. one.episodes # <<>> => Holds(<<one>>, o)
  BY <1>5, <1>8 DEF Holds
<1>11. one.episodes # <<>> /\ two.episodes # <<>> => Holds(<<one, two>>, o \o t)
  <2>1. 1 .. 2 = {1, 2}
    OBVIOUS
  <2> QED BY <1>6, <1>8, <2>1 DEF Holds
<1> QED BY <1>9, <1>10, <1>11

(* So does a segment cut in two, of which one may be empty.                    *)
LEMMA CutAtHolds ==
  ASSUME NEW seg \in SegmentType, seg.episodes # <<>>, NEW k \in 1 .. Len(seg.episodes) + 1,
         NEW before \in BlockTypes, NEW after \in BlockTypes
  PROVE  Holds(CutAt(seg, k, before, after), Outline(seg.episodes))
<1> DEFINE eps == seg.episodes
           left == SubSeq(eps, 1, k - 1)
           right == SubSeq(eps, k, Len(eps))
           part(es, type) == [type |-> type, episodes |-> IF type = seg.type THEN es ELSE AllWith(es, type)]
           parts == <<part(left, before), part(right, after)>>
           S == {n \in DOMAIN parts : parts[n].episodes # <<>>}
           new == CutAt(seg, k, before, after)
<1>1. eps \in Seq(EpisodeType) /\ Len(eps) \in Nat /\ k \in 1 .. Len(eps) + 1 /\ eps # <<>>
  BY LenProperties DEF SegmentType
<1> HIDE DEF eps
<1>2. left \in Seq(EpisodeType) /\ right \in Seq(EpisodeType)
  <2>1. 1 \in 1 .. Len(eps) + 1 /\ k - 1 \in 0 .. Len(eps) /\ k \in 1 .. Len(eps) + 1
        /\ Len(eps) \in 0 .. Len(eps)
    BY <1>1
  <2> QED BY <1>1, <2>1, SubSeqMembers, SMTT(30)
<1>3. left \o right = eps
  <2>1. PICK i \in 0 .. Len(eps) : i = k - 1 /\ i + 1 = k
    BY <1>1
  <2>2. 1 \in 1 .. Len(eps) + 1 /\ i \in 1 - 1 .. Len(eps) /\ Len(eps) \in i .. Len(eps)
    BY <1>1, <2>1
  <2>3. SubSeq(eps, 1, i) \o SubSeq(eps, i + 1, Len(eps)) = SubSeq(eps, 1, Len(eps))
    BY <1>1, <2>2, ConcatAdjacentSubSeq
  <2>4. SubSeq(eps, 1, Len(eps)) = eps
    BY <1>1, SubSeqFull
  <2> QED BY <2>1, <2>3, <2>4
<1> HIDE DEF left, right
<1>4. ASSUME NEW es \in Seq(EpisodeType), NEW type \in BlockTypes
      PROVE  /\ part(es, type) \in SegmentType /\ Outline(part(es, type).episodes) = Outline(es)
             /\ (part(es, type).episodes = <<>> <=> es = <<>>)
  BY AllWithHolds DEF SegmentType
<1> DEFINE one == part(left, before)
           two == part(right, after)
<1>5. /\ one \in SegmentType /\ Outline(one.episodes) = Outline(left)
      /\ two \in SegmentType /\ Outline(two.episodes) = Outline(right)
      /\ (one.episodes = <<>> <=> left = <<>>) /\ (two.episodes = <<>> <=> right = <<>>)
  BY <1>2, <1>4
<1>6. parts = <<one, two>>
  OBVIOUS
<1>7. new = Chosen(parts, S)
  BY DEF CutAt, eps, left, right
<1> HIDE DEF parts, part, one, two, new
<1>8. parts \in Seq(SegmentType) /\ Len(parts) = 2 /\ DOMAIN parts = 1 .. 2 /\ 1 .. 2 = {1, 2}
      /\ parts[1] = one /\ parts[2] = two
  BY <1>5, <1>6
<1>9. S \subseteq 1 .. Len(parts) /\ \A n \in 1 .. 2 : n \in S <=> parts[n].episodes # <<>>
  BY <1>8
<1> HIDE DEF S
<1>10. new \in Seq(SegmentType) /\ Picks(parts, S)
  BY <1>7, <1>8, <1>9, ChosenEntries
<1>11. Outline(eps) = Outline(left) \o Outline(right)
  BY <1>2, <1>3, OutlineConcat
<1>12. \A x \in Seq(Lines) : x \o <<>> = x /\ <<>> \o x = x
  BY ConcatEmptySeq
<1>13. Outline(left) \in Seq(Lines) /\ Outline(right) \in Seq(Lines) /\ Outline(<<>>) = <<>>
  <2>1. <<>> \in Seq(EpisodeType)
    BY EmptySeq
  <2>2. Outline(<<>>) \in Seq(Lines) /\ Len(Outline(<<>>)) = 0
    BY <2>1, OutlineLines, EmptySeq
  <2>3. Outline(<<>>) = <<>>
    BY <2>2, EmptySeq
  <2> QED BY <1>2, <2>3, OutlineLines
<1>14. CASE left # <<>> /\ right # <<>>
  <2>1. S = 1 .. 2
    BY <1>5, <1>8, <1>9, <1>14
  <2>2. new = <<one, two>>
    <3>1. Cardinality(S) = 2
      <4>1. IsFiniteSet({1}) /\ Cardinality({1}) = 1
        BY FS_Singleton
      <4>2. Cardinality({1} \cup {2}) = 2
        <5>1. 2 \notin {1}
          OBVIOUS
        <5>2. Cardinality({1} \cup {2}) = Cardinality({1}) + 1
          BY <4>1, <5>1, FS_AddElement, Zenon
        <5>3. Cardinality({1}) = 1
          BY <4>1
        <5>4. 1 + 1 = 2
          OBVIOUS
        <5> QED BY <5>2, <5>3, <5>4, Zenon
      <4>3. 1 .. 2 = {1} \cup {2}
        OBVIOUS
      <4> HIDE DEF S
      <4> QED BY <2>1, <4>2, <4>3
    <3>2. InOrder(S)[1] \in 1 .. 2 /\ InOrder(S)[2] \in 1 .. 2 /\ InOrder(S)[1] < InOrder(S)[2]
          /\ Len(new) = 2 /\ new[1] = parts[InOrder(S)[1]] /\ new[2] = parts[InOrder(S)[2]]
      BY <1>7, <1>10, <2>1, <3>1 DEF Picks
    <3>3. InOrder(S)[1] = 1 /\ InOrder(S)[2] = 2
      BY <3>2
    <3>4. Len(new) = Len(parts) /\ \A i \in 1 .. Len(new) : new[i] = parts[i]
      BY <1>8, <3>2, <3>3
    <3>5. new = parts
      BY <1>8, <1>10, <3>4, SeqEqual
    <3> QED BY <1>6, <3>5
  <2>3. one.episodes # <<>> /\ two.episodes # <<>>
    BY <1>5, <1>14
  <2>4. Holds(<<one, two>>, Outline(one.episodes) \o Outline(two.episodes))
    BY <1>5, <2>3, OneOrTwoHold
  <2> QED BY <1>5, <1>11, <2>2, <2>4 DEF new, eps
<1>15. ASSUME NEW n \in 1 .. 2, S = {n} PROVE new = <<parts[n]>>
  <2>1. Cardinality(S) = 1
    BY <1>15, FS_Singleton, ZenonT(30)
  <2>2. 1 \in 1 .. 1
    OBVIOUS
  <2>3. Len(new) = 1 /\ new[1] = parts[n]
    BY <1>7, <1>10, <1>15, <2>1, <2>2 DEF Picks
  <2>4. parts[n] \in SegmentType
    BY <1>8, ElementOfSeq
  <2>5. <<parts[n]>> \in Seq(SegmentType) /\ Len(<<parts[n]>>) = 1 /\ <<parts[n]>>[1] = parts[n]
    BY <2>4
  <2>6. \A i \in 1 .. Len(new) : new[i] = <<parts[n]>>[i]
    BY <2>3, <2>5
  <2> QED BY <1>10, <2>3, <2>5, <2>6, SeqEqual
<1>16. CASE left # <<>> /\ right = <<>>
  <2>1. S = {1}
    BY <1>5, <1>8, <1>9, <1>16
  <2>2. new = <<one>>
    BY <1>8, <1>15, <2>1
  <2>3. Outline(eps) = Outline(left)
    BY <1>11, <1>12, <1>13, <1>16
  <2>4. Holds(<<one>>, Outline(one.episodes))
    BY <1>5, <1>16, OneOrTwoHold
  <2> QED BY <1>5, <2>2, <2>3, <2>4 DEF new, eps
<1>17. CASE left = <<>> /\ right # <<>>
  <2>1. S = {2}
    BY <1>5, <1>8, <1>9, <1>17
  <2>2. new = <<two>>
    BY <1>8, <1>15, <2>1
  <2>3. Outline(eps) = Outline(right)
    BY <1>11, <1>12, <1>13, <1>17
  <2>4. Holds(<<two>>, Outline(two.episodes))
    BY <1>5, <1>17, OneOrTwoHold
  <2> QED BY <1>5, <2>2, <2>3, <2>4 DEF new, eps
<1>18. CASE left = <<>> /\ right = <<>>
  <2>1. <<>> \o <<>> = <<>>
    OBVIOUS
  <2> QED BY <1>1, <1>3, <1>18, <2>1
<1> QED BY <1>14, <1>16, <1>17, <1>18

(* So does cutting daily chat off a game block.                                *)
LEMMA SplitPostGameHolds ==
  ASSUME NEW seg \in SegmentType, seg.episodes # <<>>
  PROVE  Holds(SplitPostGame(seg), Outline(seg.episodes))
<1> DEFINE eps == seg.episodes
           D == DailyRuns(eps)
<1>1. eps \in Seq(EpisodeType) /\ Len(eps) \in Nat
  BY LenProperties DEF SegmentType
<1>2. CASE seg.type # "POST_GAME" \/ D = {}
  <2>1. SplitPostGame(seg) = <<seg>>
    BY <1>2 DEF SplitPostGame
  <2>2. Holds(<<seg>>, Outline(seg.episodes))
    BY OneOrTwoHold
  <2> QED BY <2>1, <2>2
<1>3. CASE ~(seg.type # "POST_GAME" \/ D = {})
  <2>1. SplitPostGame(seg) = CutAt(seg, Min(D), "POST_GAME", "JUST_CHATTING")
    BY <1>3 DEF SplitPostGame
  <2>2. D \subseteq 1 .. Len(eps) + 1
    BY <1>1 DEF DailyRuns
  <2> HIDE DEF D
  <2>3. Min(D) \in D
    <3>1. D \subseteq Nat
      BY <1>1, <2>2
    <3> QED BY <1>3, <3>1, MinOf
  <2>4. Min(D) \in 1 .. Len(seg.episodes) + 1
    BY <2>2, <2>3
  <2>5. "POST_GAME" \in BlockTypes /\ "JUST_CHATTING" \in BlockTypes
    BY DEF BlockTypes
  <2> QED BY <2>1, <2>4, <2>5, CutAtHolds
<1> QED BY <1>2, <1>3

(* So does cutting a closing off.                                              *)
LEMMA SplitClosingHolds ==
  ASSUME NEW seg \in SegmentType, seg.episodes # <<>>
  PROVE  Holds(SplitClosing(seg), Outline(seg.episodes))
<1> DEFINE eps == seg.episodes
           C == Closings(eps)
           at == IF C = {} THEN Len(eps) + 1 ELSE Min(C)
<1>1. eps \in Seq(EpisodeType) /\ Len(eps) \in Nat /\ DOMAIN eps = 1 .. Len(eps)
  BY LenProperties DEF SegmentType
<1>2. CASE seg.type # "CLOSING"
  <2>1. SplitClosing(seg) = <<seg>>
    BY <1>2 DEF SplitClosing
  <2>2. Holds(<<seg>>, Outline(seg.episodes))
    BY OneOrTwoHold
  <2> QED BY <2>1, <2>2
<1>3. CASE seg.type = "CLOSING"
  <2>1. SplitClosing(seg) = CutAt(seg, at, "JUST_CHATTING", "CLOSING")
    BY <1>3 DEF SplitClosing
  <2>2. C \subseteq 1 .. Len(eps)
    BY <1>1 DEF Closings
  <2> HIDE DEF C
  <2>3. C # {} => Min(C) \in C
    <3>1. C \subseteq Nat
      BY <1>1, <2>2
    <3> QED BY <3>1, MinOf
  <2>4. at \in 1 .. Len(seg.episodes) + 1
    <3>1. CASE C = {}
      BY <1>1, <3>1
    <3>2. CASE C # {}
      <4>1. Min(C) \in 1 .. Len(eps)
        BY <2>2, <2>3, <3>2
      <4> QED BY <1>1, <3>2, <4>1
    <3> QED BY <3>1, <3>2
  <2>5. "JUST_CHATTING" \in BlockTypes /\ "CLOSING" \in BlockTypes
    BY DEF BlockTypes
  <2> HIDE DEF at
  <2> QED BY <2>1, <2>4, <2>5, CutAtHolds
<1> QED BY <1>2, <1>3

(* So does splitting every segment.                                            *)
LEMMA SplitSegmentsHold ==
  ASSUME NEW outline, NEW segs, Holds(segs, outline),
         NEW f, DOMAIN f = DOMAIN segs,
         \A k \in 1 .. Len(segs) : Holds(f[k], Outline(segs[k].episodes)), f \in [DOMAIN f -> Seq(SegmentType)]
  PROVE  Holds(FlattenSeq(f), outline)
<1>0. segs \in Seq(SegmentType) /\ OutlineOf(segs) = outline
      /\ \A k \in 1 .. Len(segs) : segs[k].episodes # <<>>
  BY DEF Holds
<1>1. Len(segs) \in Nat /\ DOMAIN segs = 1 .. Len(segs)
  BY <1>0, LenProperties
<1>2. f \in Seq(Seq(SegmentType)) /\ Len(f) = Len(segs)
  BY <1>1, SequenceOf
<1>3. /\ FlattenSeq(f) \in Seq(SegmentType)
      /\ OutlineOf(FlattenSeq(f)) = FlattenSeq([n \in DOMAIN f |-> OutlineOf(f[n])])
  BY <1>2, SegmentsFlatten
<1>4. [n \in DOMAIN f |-> OutlineOf(f[n])] = [n \in DOMAIN segs |-> Outline(segs[n].episodes)]
  BY <1>1 DEF Holds
<1>5. Mapped(segs, OutlineIn) = [k \in DOMAIN segs |-> Outline(segs[k].episodes)]
  BY <1>0, SegmentOutlines
<1>6. ASSUME NEW k \in 1 .. Len(FlattenSeq(f)) PROVE FlattenSeq(f)[k].episodes # <<>>
  <2>1. /\ ToSet(FlattenSeq(f)) = UNION {ToSet(f[i]) : i \in 1 .. Len(f)}
        /\ ToSet(FlattenSeq(f)) = {FlattenSeq(f)[i] : i \in 1 .. Len(FlattenSeq(f))}
    <3>1. ToSet(FlattenSeq(f)) = UNION {ToSet(f[i]) : i \in 1 .. Len(f)}
      BY <1>2, FlattenMembers
    <3>2. ToSet(FlattenSeq(f)) = {FlattenSeq(f)[i] : i \in 1 .. Len(FlattenSeq(f))}
      BY <1>3, ToSetOf
    <3> QED BY <3>1, <3>2
  <2>2. PICK i \in 1 .. Len(f) : FlattenSeq(f)[k] \in ToSet(f[i])
    BY <2>1
  <2>3. f[i] \in Seq(SegmentType) /\ \A j \in 1 .. Len(f[i]) : f[i][j].episodes # <<>>
    BY <1>2 DEF Holds
  <2>4. ToSet(f[i]) = {f[i][j] : j \in 1 .. Len(f[i])}
    BY <2>3, ToSetOf
  <2> QED BY <2>2, <2>3, <2>4
<1> QED BY <1>0, <1>3, <1>4, <1>5, <1>6 DEF Holds, OutlineOf

(* The segments of a composition hold its episodes, homeless ones too.         *)
LEMMA SegmentsHold ==
  ASSUME NEW comp \in CompositionType
  PROVE  Holds(Segments(comp), Outline(comp.episodes))
<1> DEFINE eps == comp.episodes
           home == [k \in DOMAIN eps |-> HomeOf(eps[k], comp.blocks)]
           starts == {k \in DOMAIN eps : k = 1 \/ home[k] = 0 \/ home[k] # home[k - 1]}
           at == InOrder(starts)
           ps == Pieces(eps, starts)
           c == Cardinality(starts)
           new == Segments(comp)
           type(n) == IF home[at[n]] = 0 THEN eps[at[n]].mode ELSE comp.blocks[home[at[n]]].type
<1>1. /\ eps \in Seq(EpisodeType) /\ comp.blocks \in Seq(BlockType)
      /\ DOMAIN eps = 1 .. Len(eps) /\ Len(eps) \in Nat
  BY CompositionFields
<1>2. starts \subseteq 1 .. Len(eps) /\ (eps # <<>> => 1 \in starts)
  <2>1. eps # <<>> => Len(eps) # 0
    BY <1>1, EmptySeq
  <2> QED BY <1>1, <2>1
<1>3. \A k \in 1 .. Len(eps) : home[k] \in 0 .. Len(comp.blocks)
  BY <1>1, HomeIsBlockOrNone
<1>4. new = [n \in DOMAIN ps |-> [type |-> type(n), episodes |-> ps[n]]]
  BY DEF Segments
<1> HIDE DEF eps, home, starts
<1>5. ps \in Seq(Seq(EpisodeType)) /\ Divides(eps, starts) /\ FlattenSeq(ps) = eps
  BY <1>1, <1>2, PiecesEntries, FlattenPieces
<1>6. /\ Len(ps) = c /\ c \in Nat /\ \A n \in 1 .. c : at[n] \in starts /\ ps[n] # <<>>
  BY <1>5 DEF Divides
<1> HIDE DEF ps, at, c, new
<1>7. ASSUME NEW n \in 1 .. c PROVE ps[n] \in Seq(EpisodeType) /\ type(n) \in BlockTypes
  <2>1. at[n] \in 1 .. Len(eps)
    BY <1>2, <1>6
  <2>2. eps[at[n]].mode \in BlockTypes
    BY <1>1, <2>1, EpisodeAt
  <2>3. home[at[n]] \in 0 .. Len(comp.blocks)
    BY <1>3, <2>1
  <2>4. home[at[n]] # 0 => comp.blocks[home[at[n]]].type \in BlockTypes
    <3>1. home[at[n]] # 0 => home[at[n]] \in 1 .. Len(comp.blocks)
      BY <2>3
    <3> QED BY <1>1, <3>1, BlockAt
  <2>5. ps[n] \in Seq(EpisodeType)
    BY <1>5, <1>6, ElementOfSeq
  <2> QED BY <2>2, <2>4, <2>5
<1> HIDE DEF type
<1>8. DOMAIN ps = 1 .. c
  BY <1>5, <1>6, LenProperties
<1>9. /\ new \in Seq(SegmentType) /\ Len(new) = c /\ DOMAIN new = DOMAIN ps
      /\ \A n \in 1 .. c : new[n].episodes = ps[n]
  <2>1. new \in [1 .. c -> SegmentType]
    BY <1>4, <1>7, <1>8 DEF SegmentType
  <2>2. DOMAIN new = DOMAIN ps /\ \A n \in 1 .. c : new[n].episodes = ps[n]
    BY <1>4, <1>8
  <2> QED BY <1>6, <2>1, <2>2, SequenceOf
<1>10. OutlineOf(new) = Outline(eps)
  <2>1. Mapped(new, OutlineIn) = [n \in DOMAIN new |-> Outline(new[n].episodes)]
    BY <1>9, SegmentOutlines
  <2>2. Outline(FlattenSeq(ps)) = FlattenSeq([n \in DOMAIN ps |-> Outline(ps[n])])
    BY <1>5, OutlineFlatten
  <2>3. [n \in DOMAIN new |-> Outline(new[n].episodes)] = [n \in DOMAIN ps |-> Outline(ps[n])]
    BY <1>8, <1>9
  <2> QED BY <1>5, <2>1, <2>2, <2>3 DEF OutlineOf
<1> QED BY <1>6, <1>9, <1>10 DEF Holds, new, eps

(* The episodes and the blocks that an arrangement makes of segments.          *)
HousedIn(segs, k) == [j \in DOMAIN segs[k].episodes |-> [segs[k].episodes[j] EXCEPT !.block = k]]
Housing(segs) == [k \in DOMAIN segs |-> HousedIn(segs, k)]
BlocksOf(segs) ==
  [k \in DOMAIN segs |-> [id |-> k, type |-> segs[k].type, episodes |-> Ids(segs[k].episodes)]]
IdIn == [e \in EpisodeType |-> e.id]

(* It makes them of segments that hold the outline.                            *)
LEMMA ArrangedFrom ==
  ASSUME NEW comp \in CompositionType
  PROVE  \E segs : /\ Holds(segs, Outline(comp.episodes))
                   /\ Arranged(comp).episodes = FlattenSeq(Housing(segs))
                   /\ Arranged(comp).blocks = BlocksOf(segs)
<1> DEFINE outline == Outline(comp.episodes)
           breaks == MergedBreaks(Segments(comp))
           f == [k \in DOMAIN breaks |-> SplitPostGame(breaks[k])]
           played == FlattenSeq(f)
           g == [k \in DOMAIN played |-> SplitClosing(played[k])]
           closed == FlattenSeq(g)
           starts == {k \in DOMAIN closed : k = 1 \/ closed[k].type # closed[k - 1].type}
           segs == MergedTypes(closed)
<1>1. /\ Arranged(comp).episodes = FlattenSeq(Housing(segs))
      /\ Arranged(comp).blocks = BlocksOf(segs)
  BY DEF Arranged, Housing, HousedIn, BlocksOf
<1> HIDE DEF outline
<1>2. Holds(breaks, outline)
  BY SegmentsHold, MergedBreaksHolds DEF outline
<1> HIDE DEF breaks
<1>3. Holds(played, outline)
  <2>0. breaks \in Seq(SegmentType) /\ \A k \in 1 .. Len(breaks) : breaks[k].episodes # <<>>
    BY <1>2 DEF Holds
  <2>1. DOMAIN breaks = 1 .. Len(breaks)
    BY <2>0, LenProperties
  <2>2. ASSUME NEW k \in 1 .. Len(breaks)
        PROVE  Holds(f[k], Outline(breaks[k].episodes)) /\ f[k] \in Seq(SegmentType)
    <3>1. breaks[k] \in SegmentType
      BY <2>0, SegmentAt
    <3>2. Holds(f[k], Outline(breaks[k].episodes))
      BY <2>0, <2>1, <3>1, SplitPostGameHolds
    <3> QED BY <3>2 DEF Holds
  <2>3. f \in [DOMAIN f -> Seq(SegmentType)] /\ DOMAIN f = DOMAIN breaks
    BY <2>1, <2>2
  <2> HIDE DEF f
  <2> QED BY <1>2, <2>2, <2>3, SplitSegmentsHold
<1> HIDE DEF played
<1>4. Holds(closed, outline)
  <2>0. played \in Seq(SegmentType) /\ \A k \in 1 .. Len(played) : played[k].episodes # <<>>
    BY <1>3 DEF Holds
  <2>1. DOMAIN played = 1 .. Len(played)
    BY <2>0, LenProperties
  <2>2. ASSUME NEW k \in 1 .. Len(played)
        PROVE  Holds(g[k], Outline(played[k].episodes)) /\ g[k] \in Seq(SegmentType)
    <3>1. played[k] \in SegmentType
      BY <2>0, SegmentAt
    <3>2. Holds(g[k], Outline(played[k].episodes))
      BY <2>0, <2>1, <3>1, SplitClosingHolds
    <3> QED BY <3>2 DEF Holds
  <2>3. g \in [DOMAIN g -> Seq(SegmentType)] /\ DOMAIN g = DOMAIN played
    BY <2>1, <2>2
  <2> HIDE DEF g
  <2> QED BY <1>3, <2>2, <2>3, SplitSegmentsHold
<1> HIDE DEF closed
<1>5. Holds(segs, outline)
  <2>1. segs = JoinedFrom(closed, starts)
    BY DEF MergedTypes
  <2>2. starts \subseteq 1 .. Len(closed) /\ (closed # <<>> => 1 \in starts)
    <3>1. closed \in Seq(SegmentType)
      BY <1>4 DEF Holds
    <3> QED BY <3>1, LenProperties, EmptySeq
  <2> HIDE DEF starts, segs
  <2> QED BY <1>4, <2>1, <2>2, JoinedFromHolds
<1> HIDE DEF segs
<1> QED BY <1>1, <1>5 DEF outline

(* The episodes of a segment in a block of their own keep their outline.       *)
LEMMA HousedEpisodes ==
  ASSUME NEW segs \in Seq(SegmentType), NEW k \in 1 .. Len(segs)
  PROVE  /\ HousedIn(segs, k) \in Seq(EpisodeType) /\ segs[k].episodes \in Seq(EpisodeType)
         /\ Len(HousedIn(segs, k)) = Len(segs[k].episodes)
         /\ Outline(HousedIn(segs, k)) = Outline(segs[k].episodes)
         /\ \A j \in 1 .. Len(HousedIn(segs, k)) :
              HousedIn(segs, k)[j].id = segs[k].episodes[j].id /\ HousedIn(segs, k)[j].block = k
<1> DEFINE eps == segs[k].episodes
           new == HousedIn(segs, k)
<1>1. eps \in Seq(EpisodeType) /\ DOMAIN eps = 1 .. Len(eps) /\ Len(eps) \in Nat
  BY SegmentAt, LenProperties
<1>2. k \in Nat
  BY LenProperties
<1>3. ASSUME NEW j \in 1 .. Len(eps)
      PROVE  /\ new[j] \in EpisodeType /\ new[j].id = eps[j].id /\ new[j].block = k
             /\ new[j].first = eps[j].first /\ new[j].last = eps[j].last
  <2>1. eps[j] \in EpisodeType
    BY <1>1, EpisodeAt
  <2>2. new[j] = [eps[j] EXCEPT !.block = k]
    BY <1>1 DEF HousedIn
  <2> QED BY <1>2, <2>1, <2>2 DEF EpisodeType
<1>4. new \in [1 .. Len(eps) -> EpisodeType]
  <2>1. new = [j \in 1 .. Len(eps) |-> [eps[j] EXCEPT !.block = k]]
    BY <1>1 DEF HousedIn
  <2> HIDE DEF new
  <2> QED BY <1>3, <2>1
<1> HIDE DEF new
<1>5. new \in Seq(EpisodeType) /\ Len(new) = Len(eps)
  BY <1>1, <1>4, SequenceOf
<1>6. Outline(new) = Outline(eps)
  BY <1>1, <1>3, <1>5, SameOutline
<1> QED BY <1>1, <1>3, <1>5, <1>6 DEF new

(* So do those of all segments put together.                                   *)
LEMMA HousingKeeps ==
  ASSUME NEW outline, NEW segs, Holds(segs, outline)
  PROVE  /\ Housing(segs) \in Seq(Seq(EpisodeType)) /\ Len(Housing(segs)) = Len(segs)
         /\ \A k \in 1 .. Len(segs) : Housing(segs)[k] = HousedIn(segs, k)
         /\ FlattenSeq(Housing(segs)) \in Seq(EpisodeType)
         /\ Outline(FlattenSeq(Housing(segs))) = outline
<1> DEFINE ss == Housing(segs)
<1>1. segs \in Seq(SegmentType) /\ OutlineOf(segs) = outline
  BY DEF Holds
<1>2. Len(segs) \in Nat /\ DOMAIN segs = 1 .. Len(segs)
  BY <1>1, LenProperties
<1>3. \A k \in 1 .. Len(segs) : ss[k] = HousedIn(segs, k) /\ ss[k] \in Seq(EpisodeType)
                                /\ Outline(ss[k]) = Outline(segs[k].episodes)
  <2>1. \A k \in 1 .. Len(segs) : ss[k] = HousedIn(segs, k)
    BY <1>2 DEF Housing
  <2> QED BY <1>1, <2>1, HousedEpisodes
<1>4. ss \in Seq(Seq(EpisodeType)) /\ Len(ss) = Len(segs) /\ DOMAIN ss = 1 .. Len(segs)
  <2>1. ss \in [1 .. Len(segs) -> Seq(EpisodeType)]
    <3>1. ss = [k \in 1 .. Len(segs) |-> HousedIn(segs, k)]
      BY <1>2 DEF Housing
    <3>2. \A k \in 1 .. Len(segs) : HousedIn(segs, k) \in Seq(EpisodeType)
      BY <1>1, HousedEpisodes
    <3> QED BY <3>1, <3>2
  <2> QED BY <1>2, <2>1, SequenceOf
<1>5. FlattenSeq(ss) \in Seq(EpisodeType)
  BY <1>4, FlattenMembers
<1>6. Outline(FlattenSeq(ss)) = FlattenSeq([n \in DOMAIN ss |-> Outline(ss[n])])
  BY <1>4, OutlineFlatten
<1>7. [n \in DOMAIN ss |-> Outline(ss[n])] = [n \in DOMAIN segs |-> Outline(segs[n].episodes)]
  BY <1>2, <1>3, <1>4
<1>8. Mapped(segs, OutlineIn) = [k \in DOMAIN segs |-> Outline(segs[k].episodes)]
  BY <1>1, SegmentOutlines
<1> QED BY <1>1, <1>3, <1>4, <1>5, <1>6, <1>7, <1>8 DEF OutlineOf

(* An arrangement leaves the ids and the ranges of the episodes alone.          *)
LEMMA ArrangedOutline ==
  ASSUME NEW comp \in CompositionType
  PROVE  /\ Arranged(comp).episodes \in Seq(EpisodeType)
         /\ Outline(Arranged(comp).episodes) = Outline(comp.episodes)
<1>1. PICK segs : /\ Holds(segs, Outline(comp.episodes))
                  /\ Arranged(comp).episodes = FlattenSeq(Housing(segs))
  BY ArrangedFrom
<1> QED BY <1>1, HousingKeeps

(* The ids of episodes, as entries changed by IdIn.                            *)
LEMMA IdsMapped ==
  ASSUME NEW eps \in Seq(EpisodeType)
  PROVE  Ids(eps) = Mapped(eps, IdIn) /\ IdIn \in [EpisodeType -> Seq(Nat)]
<1>1. IdIn \in [EpisodeType -> Seq(Nat)]
  BY DEF IdIn, EpisodeType
<1>2. DOMAIN eps = 1 .. Len(eps) /\ \A k \in 1 .. Len(eps) : eps[k] \in EpisodeType
  BY LenProperties, ElementOfSeq
<1>3. \A k \in DOMAIN eps : IdIn[eps[k]] = eps[k].id
  BY <1>2 DEF IdIn
<1> QED BY <1>1, <1>3 DEF Ids, Mapped

(* If ids are unique, what is arranged has its episodes in their blocks.       *)
LEMMA ArrangedBlocksHold ==
  ASSUME NEW comp \in CompositionType,
         \A j, k \in 1 .. Len(comp.episodes) : comp.episodes[j].id = comp.episodes[k].id => j = k
  PROVE  BlocksHold(Arranged(comp))
<1> DEFINE eps == Arranged(comp).episodes
           bks == Arranged(comp).blocks
<1>1. PICK segs : /\ Holds(segs, Outline(comp.episodes))
                  /\ eps = FlattenSeq(Housing(segs)) /\ bks = BlocksOf(segs)
  BY ArrangedFrom
<1> DEFINE ss == Housing(segs)
<1> HIDE DEF eps, bks, ss
<1>2. /\ ss \in Seq(Seq(EpisodeType)) /\ Len(ss) = Len(segs)
      /\ \A k \in 1 .. Len(segs) : ss[k] = HousedIn(segs, k)
      /\ eps \in Seq(EpisodeType) /\ Outline(eps) = Outline(comp.episodes)
  BY <1>1, HousingKeeps DEF ss
<1>3. /\ segs \in Seq(SegmentType) /\ Len(segs) \in Nat /\ DOMAIN segs = 1 .. Len(segs)
      /\ \A k \in 1 .. Len(segs) : segs[k].episodes # <<>>
  BY <1>1, LenProperties DEF Holds
<1>4. ASSUME NEW k \in 1 .. Len(segs)
      PROVE  /\ ss[k] \in Seq(EpisodeType) /\ Len(ss[k]) = Len(segs[k].episodes)
             /\ segs[k].episodes \in Seq(EpisodeType)
             /\ \A j \in 1 .. Len(ss[k]) : ss[k][j].id = segs[k].episodes[j].id /\ ss[k][j].block = k
             /\ Ids(segs[k].episodes) = Mapped(ss[k], IdIn)
  <2>1. /\ ss[k] \in Seq(EpisodeType) /\ Len(ss[k]) = Len(segs[k].episodes)
        /\ segs[k].episodes \in Seq(EpisodeType)
        /\ \A j \in 1 .. Len(ss[k]) : ss[k][j].id = segs[k].episodes[j].id /\ ss[k][j].block = k
    BY <1>2, <1>3, HousedEpisodes
  <2>2. Ids(ss[k]) = Ids(segs[k].episodes)
    <3>1. DOMAIN ss[k] = 1 .. Len(ss[k]) /\ DOMAIN segs[k].episodes = 1 .. Len(ss[k])
      BY <2>1, LenProperties
    <3> QED BY <2>1, <3>1 DEF Ids
  <2>3. Ids(ss[k]) = Mapped(ss[k], IdIn)
    BY <2>1, IdsMapped
  <2> QED BY <2>1, <2>2, <2>3
<1>5. bks = [k \in 1 .. Len(segs) |->
               [id |-> k, type |-> segs[k].type, episodes |-> Ids(segs[k].episodes)]]
  BY <1>1, <1>3 DEF BlocksOf
<1>6. FlattenSeq([b \in DOMAIN bks |-> bks[b].episodes]) = Ids(eps)
  <2>1. [b \in DOMAIN bks |-> bks[b].episodes] = [k \in 1 .. Len(segs) |-> Ids(segs[k].episodes)]
    BY <1>5
  <2>2. DOMAIN ss = 1 .. Len(segs)
    BY <1>2, LenProperties
  <2>3. MappedEach(ss, IdIn) = [k \in 1 .. Len(segs) |-> Ids(segs[k].episodes)]
    BY <1>4, <2>2 DEF MappedEach
  <2>4. IdIn \in [EpisodeType -> Seq(Nat)] /\ Ids(eps) = Mapped(eps, IdIn)
    BY <1>2, IdsMapped
  <2>5. Mapped(FlattenSeq(ss), IdIn) = FlattenSeq(MappedEach(ss, IdIn))
    BY <1>2, <2>4, MappedFlatten
  <2> QED BY <1>1, <2>1, <2>3, <2>4, <2>5 DEF ss
<1>7. \A j, k \in 1 .. Len(eps) : eps[j].id = eps[k].id => j = k
  <2>1. comp.episodes \in Seq(EpisodeType)
    BY CompositionFields
  <2>2. /\ Len(eps) = Len(comp.episodes)
        /\ \A k \in 1 .. Len(comp.episodes) : eps[k].id = comp.episodes[k].id
    BY <1>2, <2>1, SameOutline
  <2> QED BY <2>2
<1>8. ASSUME NEW b \in 1 .. Len(segs) PROVE bks[b].episodes # <<>> /\ bks[b].id = b
  <2>1. bks[b].id = b /\ bks[b].episodes = Ids(segs[b].episodes)
    BY <1>5
  <2>2. Len(Ids(segs[b].episodes)) = Len(segs[b].episodes) /\ Ids(segs[b].episodes) \in Refs
    BY <1>4, IdsOf
  <2>3. Len(segs[b].episodes) # 0
    BY <1>3, <1>4, EmptySeq
  <2> QED BY <2>1, <2>2, <2>3, EmptySeq
<1>9. ASSUME NEW b \in 1 .. Len(segs), NEW k \in 1 .. Len(eps),
             eps[k].id \in ToSet(bks[b].episodes)
      PROVE  eps[k].block = b
  <2>1. bks[b].episodes = Ids(segs[b].episodes)
    BY <1>5
  <2>2. ToSet(Ids(segs[b].episodes)) = {segs[b].episodes[j].id : j \in 1 .. Len(segs[b].episodes)}
    BY <1>4, IdsOf
  <2>3. PICK j \in 1 .. Len(segs[b].episodes) : eps[k].id = segs[b].episodes[j].id
    BY <1>9, <2>1, <2>2
  <2>4. j \in 1 .. Len(ss[b]) /\ ss[b][j].id = eps[k].id /\ ss[b][j].block = b
    BY <1>4, <2>3
  <2>5. ss[b][j] \in ToSet(ss[b])
    BY <1>4, <2>4, ToSetOf
  <2>6. ToSet(eps) = UNION {ToSet(ss[i]) : i \in 1 .. Len(ss)}
    BY <1>1, <1>2, FlattenMembers DEF ss
  <2>7. ss[b][j] \in ToSet(eps)
    BY <1>2, <2>5, <2>6
  <2>8. ToSet(eps) = {eps[m] : m \in 1 .. Len(eps)}
    BY <1>2, ToSetOf
  <2>9. PICK m \in 1 .. Len(eps) : eps[m] = ss[b][j]
    BY <2>7, <2>8
  <2>10. m = k
    BY <1>7, <2>4, <2>9
  <2> QED BY <2>4, <2>9, <2>10
<1>10. DOMAIN bks = 1 .. Len(segs) /\ DOMAIN eps = 1 .. Len(eps)
  BY <1>2, <1>5, LenProperties
<1>11. \A b \in 1 .. Len(segs) :
         /\ bks[b].episodes # <<>>
         /\ \A k \in 1 .. Len(eps) : eps[k].id \in ToSet(bks[b].episodes) => eps[k].block = bks[b].id
  BY <1>8, <1>9
<1> QED BY <1>6, <1>10, <1>11 DEF BlocksHold, eps, bks

-----------------------------------------------------------------------------
(* The repairs that episodes may still need, of which those with the ids in T   *)
(* may be split before: a slot is a position and a micro-event at which a       *)
(* repair of that episode may begin.                                            *)
SlotOf(e, T) == IF e.id \in T THEN RangeOf(e) ELSE IF Valid(e) THEN {e.first} ELSE {0, N}
Slots(eps, T) ==
  {s \in (1 .. Len(eps)) \X (0 .. N) : s[1] \in Behind(eps) /\ s[2] \in SlotOf(eps[s[1]], T)}
Work(eps, T) == IF Covered(eps) THEN 0 ELSE Cardinality(Slots(eps, T)) + 1

(* There are finitely many.                                                     *)
LEMMA SlotsAreFinite ==
  ASSUME NEW eps \in Seq(EpisodeType), NEW T
  PROVE  IsFiniteSet(Slots(eps, T)) /\ Cardinality(Slots(eps, T)) \in Nat /\ Work(eps, T) \in Nat
<1>1. IsFiniteSet(1 .. Len(eps)) /\ IsFiniteSet(0 .. N)
  <2>1. Len(eps) \in Int /\ N \in Int /\ 0 \in Int /\ 1 \in Int
    BY LenProperties, MicroEventAt
  <2> QED BY <2>1, FS_Interval
<1>2. IsFiniteSet((1 .. Len(eps)) \X (0 .. N))
  BY <1>1, FS_Product
<1>3. Slots(eps, T) \in SUBSET ((1 .. Len(eps)) \X (0 .. N))
  BY DEF Slots
<1>4. IsFiniteSet(Slots(eps, T)) /\ Cardinality(Slots(eps, T)) \in Nat
  BY <1>2, <1>3, FS_Subset, FS_CardinalityType
<1>5. Work(eps, T) \in Nat
  BY <1>4 DEF Work
<1> QED BY <1>4, <1>5

(* Episodes whose slots fit into those of others need no more repairs.          *)
LEMMA FewerSlots ==
  ASSUME NEW eps \in Seq(EpisodeType), NEW new \in Seq(EpisodeType), NEW T, NEW U,
         NEW f \in [Slots(new, U) -> Slots(eps, T)],
         \A s, t \in Slots(new, U) : f[s] = f[t] => s = t,
         Covered(eps) => Covered(new)
  PROVE  Work(new, U) <= Work(eps, T)
<1>1. f \in Injection(Slots(new, U), Slots(eps, T))
  BY DEF Injection, IsInjective
<1>2. IsFiniteSet(Slots(eps, T)) /\ Cardinality(Slots(new, U)) \in Nat
      /\ Cardinality(Slots(eps, T)) \in Nat
  BY SlotsAreFinite
<1>3. Cardinality(Slots(new, U)) <= Cardinality(Slots(eps, T))
  BY <1>1, <1>2, FS_Injection
<1> QED BY <1>2, <1>3 DEF Work

(* One less, if they leave a slot free.                                         *)
LEMMA OneSlotLess ==
  ASSUME NEW eps \in Seq(EpisodeType), NEW new \in Seq(EpisodeType), NEW T, NEW U,
         NEW w \in Slots(eps, T), NEW f \in [Slots(new, U) -> Slots(eps, T) \ {w}],
         \A s, t \in Slots(new, U) : f[s] = f[t] => s = t, ~Covered(eps)
  PROVE  Work(new, U) + 1 <= Work(eps, T)
<1>1. f \in Injection(Slots(new, U), Slots(eps, T) \ {w})
  BY DEF Injection, IsInjective
<1>2. /\ IsFiniteSet(Slots(eps, T) \ {w}) /\ Cardinality(Slots(new, U)) \in Nat
      /\ IsFiniteSet(Slots(eps, T)) /\ Cardinality(Slots(eps, T)) \in Nat
  BY SlotsAreFinite, FS_RemoveElement
<1>3. Cardinality(Slots(new, U)) <= Cardinality(Slots(eps, T) \ {w})
  BY <1>1, <1>2, FS_Injection
<1>4. Cardinality(Slots(eps, T) \ {w}) = Cardinality(Slots(eps, T)) - 1
  BY <1>2, FS_RemoveElement
<1> QED BY <1>2, <1>3, <1>4 DEF Work

(* A draft needs no more repairs than it was said to, if only broad episodes    *)
(* are still to be split.                                                       *)
LEMMA WorkOfDraft ==
  ASSUME NEW eps \in Seq(EpisodeType), NEW T,
         \A k \in 1 .. Len(eps) : eps[k].id \in T => Overbroad(eps[k])
  PROVE  Work(eps, T) <= RepairsNeeded(eps) /\ RepairsNeeded(eps) \in Nat
<1> DEFINE all == UNION {{k} \X RepairsOf(eps[k]) : k \in Behind(eps)}
<1>1. Len(eps) \in Nat /\ DOMAIN eps = 1 .. Len(eps) /\ N \in Nat
  BY LenProperties, MicroEventAt
<1>2. ASSUME NEW k \in 1 .. Len(eps)
      PROVE  SlotOf(eps[k], T) \subseteq RepairsOf(eps[k]) /\ RepairsOf(eps[k]) \subseteq 0 .. N
  <2>1. eps[k].first \in 0 .. N /\ eps[k].last \in 0 .. N
    BY EpisodeAt
  <2>2. Overbroad(eps[k]) => Valid(eps[k])
    BY DEF Overbroad
  <2> QED BY <1>1, <2>1, <2>2 DEF SlotOf, RepairsOf, Valid, RangeOf
<1>3. Behind(eps) \subseteq 1 .. Len(eps)
  BY <1>1 DEF Behind
<1>4. all \in SUBSET ((1 .. Len(eps)) \X (0 .. N))
  BY <1>2, <1>3
<1>5. IsFiniteSet(all) /\ Cardinality(all) \in Nat
  <2>1. IsFiniteSet(1 .. Len(eps)) /\ IsFiniteSet(0 .. N)
    <3>1. Len(eps) \in Int /\ N \in Int /\ 0 \in Int /\ 1 \in Int
      BY <1>1
    <3> QED BY <3>1, FS_Interval
  <2>2. IsFiniteSet((1 .. Len(eps)) \X (0 .. N))
    BY <2>1, FS_Product
  <2> HIDE DEF all
  <2> QED BY <1>4, <2>2, FS_Subset, FS_CardinalityType
<1>6. Slots(eps, T) \in SUBSET all
  <2>1. ASSUME NEW s \in Slots(eps, T) PROVE s \in all
    <3>1. /\ s \in (1 .. Len(eps)) \X (0 .. N) /\ s[1] \in Behind(eps)
          /\ s[2] \in SlotOf(eps[s[1]], T)
      BY DEF Slots
    <3>2. s[2] \in RepairsOf(eps[s[1]]) /\ s = <<s[1], s[2]>>
      <4>1. s[1] \in 1 .. Len(eps) /\ s = <<s[1], s[2]>>
        BY <3>1
      <4> QED BY <1>2, <3>1, <4>1
    <3>3. s \in {s[1]} \X RepairsOf(eps[s[1]])
      BY <3>2
    <3> QED BY <3>1, <3>3
  <2> QED BY <2>1
<1>7. Cardinality(Slots(eps, T)) <= Cardinality(all)
  <2> HIDE DEF all
  <2> QED BY <1>5, <1>6, FS_Subset
<1>8. Cardinality(Slots(eps, T)) \in Nat
  BY SlotsAreFinite
<1>9. RepairsNeeded(eps) = IF Covered(eps) THEN 0 ELSE Cardinality(all) + 1
  BY DEF RepairsNeeded
<1> HIDE DEF all
<1> QED BY <1>5, <1>7, <1>8, <1>9 DEF Work

(* An episode out of place is behind, and so is every one after it.             *)
LEMMA BehindFrom ==
  ASSUME NEW eps \in Seq(EpisodeType), NEW k \in 1 .. Len(eps), ~InPlace(eps, k),
         NEW o \in k .. Len(eps)
  PROVE  o \in Behind(eps)
<1>1. DOMAIN eps = 1 .. Len(eps) /\ Len(eps) \in Nat
  BY LenProperties
<1>2. k \in Misplaced(eps) /\ o \in DOMAIN eps /\ k \in 1 .. o
  BY <1>1 DEF Misplaced
<1> QED BY <1>2 DEF Behind

(* Each that is behind has one out of place before it.                          *)
LEMMA BehindSome ==
  ASSUME NEW eps \in Seq(EpisodeType), NEW p \in Behind(eps)
  PROVE  p \in 1 .. Len(eps) /\ \E j \in 1 .. p : j \in 1 .. Len(eps) /\ ~InPlace(eps, j)
<1>1. DOMAIN eps = 1 .. Len(eps) /\ Len(eps) \in Nat
  BY LenProperties
<1> QED BY <1>1 DEF Behind, Misplaced

(* A repair takes one from the work.                                            *)
LEMMA RepairWorks ==
  ASSUME NEW eps, NEW range, NEW k \in 1 .. Len(eps) + 1, RepairCase(eps, k, range),
         NEW parts, NEW target, NEW new,
         Exchanged(eps, range.start, range.stop, parts, target, new),
         target.first = range.from, target.last = range.to, ~Covered(eps)
  PROVE  Work(new, {}) + 1 <= Work(eps, {})
<1> DEFINE a == range.start
           b == range.stop
           n == Len(parts)
           L == Len(eps)
           M == Len(new)
<1>1. /\ eps \in Seq(EpisodeType) /\ new \in Seq(EpisodeType) /\ parts \in Seq(EpisodeType)
      /\ a \in 1 .. L + 1 /\ b \in a - 1 .. L /\ M = a - 1 + n + L - b
  BY DEF Exchanged, Exchange, Replacement
<1>2. L \in Nat /\ M \in Nat /\ n \in Nat \ {0} /\ N \in Nat \ {0} /\ a \in Nat \ {0} /\ b \in Nat
      /\ a - 1 <= b /\ b <= L
  <2>1. parts # <<>>
    BY DEF Exchanged, Replacement
  <2> QED BY <1>1, <2>1, LenProperties, EmptySeq, MicroEventAt
<1>3. \A m \in 1 .. k - 1 : InPlace(eps, m)
  BY DEF RepairCase
<1>4. a <= k /\ (b = k \/ (b = k - 1 /\ a = k)) /\ (k = L + 1 => a = k /\ b = L)
  BY <1>2 DEF RepairCase, AtGap, AtUnknown, AtOverlap
<1>5. ASSUME target.first = StartOf(eps, a), NEW p \in 1 .. M, p <= a - 1 + n
      PROVE  InPlace(new, p)
  <2>1. CASE p < a
    <3>1. p \in 1 .. k - 1
      BY <1>2, <1>4, <2>1
    <3> QED BY <1>3, <2>1, <3>1, ExchangeInPlace
  <2>2. CASE p = a
    BY <1>5, <2>2, ExchangeInPlace
  <2>3. CASE a < p
    <3>1. p < a + n
      BY <1>2, <1>5
    <3> QED BY <2>3, <3>1, ExchangeInPlace
  <2> QED BY <1>2, <2>1, <2>2, <2>3
<1>6. CASE k = L + 1
  <2>1. AtGap(eps, k, range) /\ range.to = N /\ range.from = StartOf(eps, k) /\ a = k /\ b = L
    BY <1>2, <1>6 DEF RepairCase, AtGap, AtUnknown, AtOverlap
  <2>2. \A p \in 1 .. M : InPlace(new, p)
    <3>1. M = a - 1 + n
      BY <1>1, <1>2, <2>1
    <3> QED BY <1>2, <1>5, <2>1, <3>1
  <2>3. StartOf(new, M + 1) = N + 1
    BY <2>1, ExchangeEnd
  <2>4. Covered(new)
    <3>1. DOMAIN new = 1 .. M
      BY <1>1, LenProperties
    <3>2. Misplaced(new) = {}
      BY <2>2, <3>1 DEF Misplaced
    <3> QED BY <2>3, <3>2 DEF Covered
  <2>5. Cardinality(Slots(eps, {})) \in Nat
    BY <1>1, SlotsAreFinite
  <2> QED BY <2>4, <2>5 DEF Work
<1>7. CASE k \in 1 .. L
  <2> DEFINE c == b - (a - 1 + n)
             w == <<k, IF Valid(eps[k]) THEN eps[k].first ELSE 0>>
             f == [s \in Slots(new, {}) |-> <<s[1] + c, s[2]>>]
  <2>1. ~InPlace(eps, k) /\ c \in Int
    BY <1>2, <1>7 DEF RepairCase
  <2>2. eps[k].first \in 0 .. N
    BY <1>1, <1>7, EpisodeAt
  <2>3. \A o \in k .. L : o \in Behind(eps)
    BY <1>1, <1>7, <2>1, BehindFrom
  <2>4. w \in Slots(eps, {})
    <3>1. k \in Behind(eps)
      BY <1>2, <1>7, <2>3
    <3>2. (IF Valid(eps[k]) THEN eps[k].first ELSE 0) \in SlotOf(eps[k], {})
      BY DEF SlotOf
    <3>3. (IF Valid(eps[k]) THEN eps[k].first ELSE 0) \in 0 .. N
      BY <1>2, <2>2
    <3> QED BY <1>7, <3>1, <3>2, <3>3 DEF Slots
  <2>5. ASSUME NEW s \in Slots(new, {})
        PROVE  <<s[1] + c, s[2]>> \in Slots(eps, {}) \ {w}
    <3>1. PICK p \in 1 .. M, x \in 0 .. N : /\ s = <<p, x>> /\ p \in Behind(new)
                                            /\ x \in SlotOf(new[p], {})
      BY DEF Slots
    <3>2. PICK j \in 1 .. p : j \in 1 .. M /\ ~InPlace(new, j)
      BY <1>1, <3>1, BehindSome
    <3>3. s[1] = p /\ s[2] = x
      BY <3>1
    <3> DEFINE o == p + c
    <3>4. ASSUME o \in k + 1 .. L, new[p] = eps[o]
          PROVE  <<s[1] + c, s[2]>> \in Slots(eps, {}) \ {w}
      <4>1. o \in Behind(eps) /\ o \in 1 .. L /\ o # k
        BY <1>2, <1>7, <2>3, <3>4
      <4> HIDE DEF o
      <4>2. x \in SlotOf(eps[o], {})
        BY <3>1, <3>4
      <4>3. <<o, x>> \in Slots(eps, {}) /\ <<o, x>> # w
        BY <4>1, <4>2 DEF Slots
      <4> QED BY <3>3, <4>3 DEF o
    <3>5. ASSUME p > a - 1 + n, o > k PROVE o \in k + 1 .. L /\ new[p] = eps[o]
      <4>1. o \in k + 1 .. L /\ o \in b + 1 .. L /\ p = o - b + a - 1 + n
        <5>1. o = p + c /\ c = b - (a - 1 + n)
          OBVIOUS
        <5> HIDE DEF o, c, n, L, M, a, b
        <5> QED BY <1>1, <1>2, <1>4, <1>7, <2>1, <3>5, <5>1
      <4> HIDE DEF o
      <4> QED BY <4>1 DEF Exchanged, Exchange
    <3>6. CASE target.first = StartOf(eps, a)
      <4>1. j > a - 1 + n
        BY <1>2, <1>5, <3>2, <3>6
      <4>2. CASE b = k
        BY <1>2, <1>7, <3>2, <3>4, <3>5, <4>1, <4>2
      <4>3. CASE b = k - 1 /\ a = k
        <5>1. AtGap(eps, k, range)
          BY <1>2, <1>7, <4>3 DEF RepairCase, AtUnknown, AtOverlap
        <5>2. Valid(eps[k]) /\ eps[k].first = target.last + 1
          <6>1. Valid(eps[k]) /\ range.to = eps[k].first - 1
            BY <1>2, <1>7, <5>1 DEF AtGap
          <6> QED BY <2>2, <6>1
        <5>3. j # a + n
          <6>1. k = b + 1
            BY <1>2, <4>3
          <6> QED BY <1>7, <3>2, <5>2, <6>1, ExchangeInPlace
        <5> QED BY <1>2, <1>7, <3>2, <3>4, <3>5, <4>1, <4>3, <5>3
      <4> QED BY <1>4, <4>2, <4>3
    <3>7. CASE target.first # StartOf(eps, a)
      <4>1. /\ a = k /\ b = k /\ ~Valid(eps[k]) /\ target.first = N /\ target.last = N
        <5>1. ~AtGap(eps, k, range)
          BY <3>7 DEF AtGap
        <5>2. ~AtOverlap(eps, k, range)
          <6>1. ASSUME AtOverlap(eps, k, range) PROVE FALSE
            <7>1. a \in 1 .. k - 1 /\ target.first = eps[a].first
              BY <6>1 DEF AtOverlap
            <7> QED BY <1>3, <3>7, <7>1 DEF InPlace
          <6> QED BY <6>1
        <5> QED BY <3>7, <5>1, <5>2 DEF RepairCase, AtUnknown
      <4>2. n = 1
        <5>1. /\ parts[1].first = N /\ \A i \in 1 .. n : Valid(parts[i])
              /\ \A i, m \in 1 .. n : m = i + 1 => parts[m].first = parts[i].last + 1
          BY <4>1 DEF Exchanged, Divided, Replacement
        <5>2. ASSUME 2 \in 1 .. n PROVE FALSE
          <6>1. parts[2].first = parts[1].last + 1 /\ Valid(parts[1]) /\ Valid(parts[2])
            BY <1>2, <5>1, <5>2
          <6> QED BY <1>2, <5>1, <6>1 DEF Valid
        <5> HIDE DEF n
        <5> QED BY <1>2, <5>2
      <4>3. c = 0
        BY <1>2, <4>1, <4>2
      <4>4. p >= k
        <5>1. j >= k
          <6>1. ASSUME j < a PROVE FALSE
            <7>1. j \in 1 .. k - 1
              BY <1>2, <4>1, <6>1
            <7> QED BY <1>3, <3>2, <6>1, <7>1, ExchangeInPlace
          <6> QED BY <1>2, <4>1, <6>1
        <5> QED BY <1>2, <3>2, <5>1
      <4>5. CASE p > k
        BY <1>2, <3>4, <3>5, <4>1, <4>2, <4>3, <4>5
      <4>6. CASE p = k
        <5>1. 1 \in 1 .. n /\ p = a - 1 + 1
          BY <1>2, <4>1, <4>6
        <5>2. new[p] = parts[1]
          BY <3>1, <5>1 DEF Exchanged, Exchange
        <5>3. parts[1].first = N /\ Valid(parts[1])
          BY <4>1, <5>1 DEF Exchanged, Divided, Replacement
        <5>4. x = N
          BY <3>1, <5>2, <5>3 DEF SlotOf
        <5>5. <<k, N>> \in Slots(eps, {})
          <6>1. k \in Behind(eps) /\ N \in 0 .. N
            BY <1>2, <1>7, <2>3
          <6>2. N \in SlotOf(eps[k], {})
            BY <4>1 DEF SlotOf
          <6> QED BY <1>7, <6>1, <6>2 DEF Slots
        <5>6. <<k, N>> # w
          BY <1>2, <4>1
        <5>7. <<s[1] + c, s[2]>> = <<k, N>>
          BY <1>2, <1>7, <3>3, <4>3, <4>6, <5>4
        <5> HIDE DEF w
        <5> QED BY <5>5, <5>6, <5>7
      <4> QED BY <1>2, <4>4, <4>5, <4>6
    <3> QED BY <3>6, <3>7
  <2>6. f \in [Slots(new, {}) -> Slots(eps, {}) \ {w}]
    BY <2>5
  <2>7. ASSUME NEW s \in Slots(new, {}), NEW t \in Slots(new, {}), f[s] = f[t] PROVE s = t
    <3>1. f[s] = <<s[1] + c, s[2]>> /\ f[t] = <<t[1] + c, t[2]>>
      OBVIOUS
    <3>2. PICK p \in 1 .. M, x \in 0 .. N : s = <<p, x>>
      BY DEF Slots
    <3>3. PICK q \in 1 .. M, y \in 0 .. N : t = <<q, y>>
      BY DEF Slots
    <3>4. p + c = q + c /\ x = y
      BY <2>7, <3>1, <3>2, <3>3
    <3>5. p = q
      <4> HIDE DEF c, f
      <4> QED BY <1>2, <2>1, <3>4
    <3> QED BY <3>2, <3>3, <3>4, <3>5
  <2> HIDE DEF f, w
  <2> QED BY <1>1, <2>4, <2>6, <2>7, OneSlotLess
<1> QED BY <1>2, <1>6, <1>7

(* The parts of a target lie in its range, one after the other.                 *)
LEMMA PartsInside ==
  ASSUME NEW parts, NEW target, Replacement(parts, target.id), Divided(parts, target)
  PROVE  /\ \A i, j \in 1 .. Len(parts) : i < j => parts[i].last < parts[j].first
         /\ \A i \in 1 .. Len(parts) :
              target.first <= parts[i].first /\ parts[i].last <= target.last
<1> DEFINE M == Len(parts)
           S == {n \in Nat : n \in 1 .. M => \A j \in 1 .. n : j # n => parts[j].last < parts[n].first}
<1>1. /\ M \in Nat \ {0} /\ N \in Nat
      /\ \A n \in 1 .. M :
           parts[n].first \in 1 .. N /\ parts[n].last \in 1 .. N /\ parts[n].first <= parts[n].last
      /\ \A j, n \in 1 .. M : n = j + 1 => parts[n].first = parts[j].last + 1
  <2>1. parts \in Seq(EpisodeType) /\ parts # <<>>
    BY DEF Replacement
  <2> QED BY <2>1, LenProperties, EmptySeq, MicroEventAt DEF Replacement, Divided, Valid
<1> HIDE DEF M
<1>2. 0 \in S
  OBVIOUS
<1>3. ASSUME NEW n \in Nat, n \in S PROVE n + 1 \in S
  <2> SUFFICES ASSUME NEW m \in 1 .. M, m = n + 1, NEW j \in 1 .. m, j # m
               PROVE  parts[j].last < parts[m].first
    OBVIOUS
  <2>1. j \in 1 .. n /\ n \in 1 .. M /\ j \in 1 .. M
    BY <1>1
  <2>2. parts[m].first = parts[n].last + 1
    BY <1>1, <2>1
  <2>3. /\ parts[j].last \in Int /\ parts[n].first \in Int /\ parts[n].last \in Int
        /\ parts[n].first <= parts[n].last
    BY <1>1, <2>1
  <2>4. CASE j = n
    BY <2>2, <2>3, <2>4
  <2>5. CASE j # n
    <3>1. parts[j].last < parts[n].first
      BY <1>3, <2>1, <2>5
    <3> QED BY <2>2, <2>3, <3>1
  <2> QED BY <2>4, <2>5
<1> HIDE DEF S
<1>4. Nat \subseteq S
  BY <1>2, <1>3, InductionOf
<1>5. ASSUME NEW i \in 1 .. M, NEW j \in 1 .. M, i < j PROVE parts[i].last < parts[j].first
  <2>1. j \in S /\ i \in 1 .. j /\ i # j
    BY <1>1, <1>4, <1>5
  <2> QED BY <2>1 DEF S
<1>6. parts[1].first = target.first /\ parts[M].last = target.last
  BY DEF Divided, M
<1>7. ASSUME NEW i \in 1 .. M
      PROVE  target.first <= parts[i].first /\ parts[i].last <= target.last
  <2>0. 1 \in 1 .. M /\ M \in 1 .. M
    BY <1>1
  <2>1. /\ parts[1].first \in Int /\ parts[1].last \in Int /\ parts[1].first <= parts[1].last
        /\ parts[i].first \in Int /\ parts[i].last \in Int
        /\ parts[M].first \in Int /\ parts[M].last \in Int /\ parts[M].first <= parts[M].last
    BY <1>1, <2>0
  <2>2. i = 1 \/ parts[1].last < parts[i].first
    <3>1. i = 1 \/ 1 < i
      BY <1>1
    <3> QED BY <1>5, <2>0, <3>1
  <2>3. i = M \/ parts[i].last < parts[M].first
    <3>1. i = M \/ i < M
      BY <1>1
    <3> QED BY <1>5, <2>0, <3>1
  <2>4. parts[1].first <= parts[i].first
    BY <2>1, <2>2
  <2>5. parts[i].last <= parts[M].last
    BY <2>1, <2>3
  <2> QED BY <1>6, <2>4, <2>5
<1> QED BY <1>5, <1>7 DEF M

(* What depends on the outline alone.                                           *)
LEMMA SameOutlineSame ==
  ASSUME NEW eps \in Seq(EpisodeType), NEW new \in Seq(EpisodeType), Outline(new) = Outline(eps)
  PROVE  /\ Len(new) = Len(eps)
         /\ \A k \in 1 .. Len(eps) :
              /\ new[k].id = eps[k].id /\ new[k].first = eps[k].first /\ new[k].last = eps[k].last
              /\ Valid(new[k]) <=> Valid(eps[k])
              /\ InPlace(new, k) <=> InPlace(eps, k)
         /\ Covered(new) <=> Covered(eps)
<1>1. /\ Len(new) = Len(eps)
      /\ \A k \in 1 .. Len(eps) :
           new[k].id = eps[k].id /\ new[k].first = eps[k].first /\ new[k].last = eps[k].last
  BY SameOutline
<1>2. DOMAIN eps = 1 .. Len(eps) /\ DOMAIN new = 1 .. Len(eps) /\ Len(eps) \in Nat
  BY <1>1, LenProperties
<1>3. \A k \in 1 .. Len(eps) : Valid(new[k]) <=> Valid(eps[k])
  BY <1>1 DEF Valid
<1>4. ASSUME NEW k \in 1 .. Len(eps) PROVE InPlace(new, k) <=> InPlace(eps, k)
  <2>1. StartOf(new, k) = StartOf(eps, k)
    <3>1. CASE k = 1
      BY <3>1 DEF StartOf
    <3>2. CASE k # 1
      <4>1. k - 1 \in 1 .. Len(eps)
        BY <1>2, <3>2
      <4> QED BY <1>1, <3>2, <4>1 DEF StartOf
    <3> QED BY <3>1, <3>2
  <2> QED BY <1>1, <1>3, <2>1 DEF InPlace
<1>5. (Covered(eps) => Covered(new)) /\ (Covered(new) => Covered(eps))
  BY <1>1, CoveredBySameRanges
<1> QED BY <1>1, <1>3, <1>4, <1>5

(* An outline determines the work, if nothing is still to be split.             *)
LEMMA SameOutlineWorks ==
  ASSUME NEW eps \in Seq(EpisodeType), NEW new \in Seq(EpisodeType), Outline(new) = Outline(eps),
         NEW T
  PROVE  Work(new, T) = Work(eps, T)
<1>1. /\ Len(new) = Len(eps)
      /\ \A k \in 1 .. Len(eps) :
           /\ new[k].id = eps[k].id /\ new[k].first = eps[k].first /\ new[k].last = eps[k].last
           /\ Valid(new[k]) <=> Valid(eps[k])
           /\ InPlace(new, k) <=> InPlace(eps, k)
      /\ Covered(new) <=> Covered(eps)
  BY SameOutlineSame
<1>2. DOMAIN eps = 1 .. Len(eps) /\ DOMAIN new = 1 .. Len(eps)
  BY <1>1, LenProperties
<1>3. Misplaced(new) = Misplaced(eps)
  BY <1>1, <1>2 DEF Misplaced
<1>4. Behind(new) = Behind(eps)
  BY <1>2, <1>3 DEF Behind
<1>5. \A k \in 1 .. Len(eps) : SlotOf(new[k], T) = SlotOf(eps[k], T)
  BY <1>1 DEF SlotOf, RangeOf
<1>6. Slots(new, T) = Slots(eps, T)
  <2>1. ASSUME NEW s \in (1 .. Len(eps)) \X (0 .. N)
        PROVE  SlotOf(new[s[1]], T) = SlotOf(eps[s[1]], T)
    <3>1. s[1] \in 1 .. Len(eps)
      OBVIOUS
    <3> QED BY <1>5, <3>1
  <2> QED BY <1>1, <1>4, <2>1 DEF Slots
<1> QED BY <1>1, <1>6 DEF Work

(* It determines the families and recoveries, too.                              *)
LEMMA SameOutlineFamilies ==
  ASSUME NEW eps \in Seq(EpisodeType), NEW new \in Seq(EpisodeType), Outline(new) = Outline(eps),
         Families(eps), Recoveries(eps)
  PROVE  Families(new) /\ Recoveries(new)
<1>1. /\ Len(new) = Len(eps)
      /\ \A k \in 1 .. Len(eps) :
           /\ new[k].id = eps[k].id
           /\ Valid(new[k]) <=> Valid(eps[k])
           /\ InPlace(new, k) <=> InPlace(eps, k)
  BY SameOutlineSame
<1>2. Len(eps) \in Nat
  BY LenProperties
<1>3. Families(new)
  <2>1. \A i, q \in 1 .. Len(eps) : \A m \in i + 1 .. q : m \in 1 .. Len(eps)
    BY <1>2
  <2> QED BY <1>1, <2>1 DEF Families
<1>4. Recoveries(new)
  <2>1. \A q \in 1 .. Len(eps) : \A m \in 1 .. q : m \in 1 .. Len(eps)
    BY <1>2
  <2> QED BY <1>1, <2>1 DEF Recoveries
<1> QED BY <1>3, <1>4

(* Fewer episodes to split are no more work.                                    *)
LEMMA FewerTargets ==
  ASSUME NEW eps \in Seq(EpisodeType), NEW T, NEW U \in SUBSET T,
         \A k \in 1 .. Len(eps) : eps[k].id \in T => Valid(eps[k])
  PROVE  Work(eps, U) <= Work(eps, T)
<1> DEFINE f == [s \in Slots(eps, U) |-> s]
<1>1. ASSUME NEW k \in 1 .. Len(eps) PROVE SlotOf(eps[k], U) \subseteq SlotOf(eps[k], T)
  <2>1. eps[k].first \in 0 .. N /\ eps[k].last \in 0 .. N /\ N \in Nat
    BY EpisodeAt, MicroEventAt
  <2>2. Valid(eps[k]) => eps[k].first \in RangeOf(eps[k])
    BY <2>1 DEF Valid, RangeOf
  <2> QED BY <2>2 DEF SlotOf
<1>2. ASSUME NEW s \in Slots(eps, U) PROVE s \in Slots(eps, T)
  <2>1. /\ s \in (1 .. Len(eps)) \X (0 .. N) /\ s[1] \in Behind(eps) /\ s[2] \in SlotOf(eps[s[1]], U)
    BY DEF Slots
  <2>2. s[1] \in 1 .. Len(eps)
    BY <2>1
  <2>3. s[2] \in SlotOf(eps[s[1]], T)
    BY <1>1, <2>1, <2>2
  <2> QED BY <2>1, <2>3 DEF Slots
<1>3. f \in [Slots(eps, U) -> Slots(eps, T)]
  BY <1>2
<1>4. \A s, t \in Slots(eps, U) : f[s] = f[t] => s = t
  OBVIOUS
<1> HIDE DEF f
<1> QED BY <1>3, <1>4, FewerSlots

(* A split puts the parts in the place of the one episode with their id.        *)
LEMMA SplitEntries ==
  ASSUME NEW comp \in CompositionType, NEW p \in 1 .. Len(comp.episodes),
         \A j, k \in 1 .. Len(comp.episodes) : comp.episodes[j].id = comp.episodes[k].id => j = k,
         NEW parts, Replacement(parts, comp.episodes[p].id)
  PROVE  Exchange(comp.episodes, p, p, parts, SplitEpisode(parts, comp).episodes)
<1> DEFINE eps == comp.episodes
           L == Len(eps)
           before == SubSeq(eps, 1, p - 1)
           after == SubSeq(eps, p + 1, L)
           ss == [k \in DOMAIN eps |-> IF eps[k].id = parts[1].id THEN parts ELSE <<eps[k]>>]
           left == [k \in 1 .. p - 1 |-> <<eps[k]>>]
           right == [k \in 1 .. L - p |-> <<eps[p + k]>>]
           all == (left \o <<parts>>) \o right
<1>1. eps \in Seq(EpisodeType) /\ L \in Nat /\ DOMAIN eps = 1 .. L /\ p \in 1 .. L
  BY CompositionFields
<1>2. parts \in Seq(EpisodeType) /\ parts[1].id = eps[p].id
  BY DEF Replacement
<1>3. SplitEpisode(parts, comp).episodes = FlattenSeq(ss)
  BY DEF SplitEpisode
<1>4. \A j, k \in 1 .. L : eps[j].id = eps[k].id => j = k
  OBVIOUS
<1> HIDE DEF eps, L
<1>5. /\ before \in Seq(EpisodeType) /\ Len(before) = p - 1
      /\ \A k \in 1 .. p - 1 : before[k] = eps[k]
  <2>1. \A k \in 1 .. p - 1 : eps[k] \in EpisodeType
    BY <1>1, ElementOfSeq
  <2>2. 1 \in Int /\ p - 1 \in Int
    BY <1>1
  <2>3. /\ before \in Seq(EpisodeType) /\ Len(before) = IF 1 <= p - 1 THEN p - 1 - 1 + 1 ELSE 0
        /\ \A k \in 1 .. p - 1 - 1 + 1 : before[k] = eps[1 + k - 1]
    BY <2>1, <2>2, SubSeqProperties
  <2> HIDE DEF before
  <2> QED BY <1>1, <2>3
<1>6. /\ after \in Seq(EpisodeType) /\ Len(after) = L - p
      /\ \A k \in 1 .. L - p : after[k] = eps[p + k]
  <2>1. \A k \in p + 1 .. L : eps[k] \in EpisodeType
    BY <1>1, ElementOfSeq
  <2>2. p + 1 \in Int /\ L \in Int
    BY <1>1
  <2>3. /\ after \in Seq(EpisodeType) /\ Len(after) = IF p + 1 <= L THEN L - (p + 1) + 1 ELSE 0
        /\ \A k \in 1 .. L - (p + 1) + 1 : after[k] = eps[p + 1 + k - 1]
    BY <2>1, <2>2, SubSeqProperties
  <2> HIDE DEF after
  <2> QED BY <1>1, <2>3
<1> HIDE DEF before, after
<1>7. left \in Seq(Seq(EpisodeType)) /\ Len(left) = p - 1 /\ FlattenSeq(left) = before
  <2>1. left \in [1 .. p - 1 -> Seq(EpisodeType)] /\ p - 1 \in Nat
    <3>1. \A k \in 1 .. p - 1 : eps[k] \in EpisodeType
      BY <1>1, ElementOfSeq
    <3> QED BY <1>1, <3>1
  <2>2. \A k \in 1 .. p - 1 : left[k] = <<before[k]>>
    BY <1>5
  <2> HIDE DEF left
  <2>3. left \in Seq(Seq(EpisodeType)) /\ Len(left) = p - 1
    BY <2>1, SequenceOf
  <2> QED BY <1>5, <2>2, <2>3, FlattenSingletons
<1>8. right \in Seq(Seq(EpisodeType)) /\ Len(right) = L - p /\ FlattenSeq(right) = after
  <2>1. right \in [1 .. L - p -> Seq(EpisodeType)] /\ L - p \in Nat
    <3>1. \A k \in 1 .. L - p : eps[p + k] \in EpisodeType
      <4>1. \A k \in 1 .. L - p : after[k] \in EpisodeType
        BY <1>6, ElementOfSeq
      <4> QED BY <1>6, <4>1
    <3> QED BY <1>1, <3>1
  <2>2. \A k \in 1 .. L - p : right[k] = <<after[k]>>
    BY <1>6
  <2> HIDE DEF right
  <2>3. PICK m \in Nat : m = L - p
    BY <2>1
  <2>4. right \in [1 .. m -> Seq(EpisodeType)]
    BY <2>1, <2>3
  <2>5. right \in Seq(Seq(EpisodeType)) /\ Len(right) = m
    BY <2>4, SequenceOf
  <2>6. Len(after) = m /\ Len(right) = Len(after) /\ \A k \in 1 .. Len(after) : right[k] = <<after[k]>>
    BY <1>6, <2>2, <2>3, <2>5
  <2>7. FlattenSeq(right) = after
    BY <1>6, <2>5, <2>6, FlattenSingletons
  <2> QED BY <2>3, <2>5, <2>7
<1>9. ss \in Seq(Seq(EpisodeType)) /\ Len(ss) = L
      /\ \A k \in 1 .. L : ss[k] = IF k = p THEN parts ELSE <<eps[k]>>
  <2>1. \A k \in 1 .. L : eps[k].id = parts[1].id <=> k = p
    BY <1>1, <1>2, <1>4
  <2>2. \A k \in 1 .. L : eps[k] \in EpisodeType
    BY <1>1, ElementOfSeq
  <2>3. ss \in [1 .. L -> Seq(EpisodeType)] /\ \A k \in 1 .. L : ss[k] = IF k = p THEN parts ELSE <<eps[k]>>
    BY <1>1, <1>2, <2>1, <2>2
  <2> HIDE DEF ss
  <2> QED BY <1>1, <2>3, SequenceOf
<1>10. <<parts>> \in Seq(Seq(EpisodeType)) /\ FlattenSeq(<<parts>>) = parts /\ Len(<<parts>>) = 1
       /\ <<parts>>[1] = parts
  BY <1>2, FlattenOne
<1>11. /\ \A k \in 1 .. p - 1 : left[k] = <<eps[k]>>
       /\ \A k \in 1 .. L - p : right[k] = <<eps[p + k]>>
  OBVIOUS
<1> DEFINE mid == left \o <<parts>>
<1> HIDE DEF left, right, ss
<1>12. /\ mid \in Seq(Seq(EpisodeType)) /\ Len(mid) = p
       /\ \A k \in 1 .. p : mid[k] = IF k = p THEN parts ELSE <<eps[k]>>
  <2> DEFINE one == <<parts>>
  <2>0. one \in Seq(Seq(EpisodeType)) /\ Len(one) = 1 /\ one[1] = parts /\ mid = left \o one
    BY <1>10
  <2> HIDE DEF one, mid
  <2>1. /\ left \o one \in Seq(Seq(EpisodeType)) /\ Len(left \o one) = Len(left) + Len(one)
        /\ \A k \in 1 .. Len(left) + Len(one) :
             (left \o one)[k] = IF k <= Len(left) THEN left[k] ELSE one[k - Len(left)]
    <3>0. PICK x, y \in Seq(Seq(EpisodeType)) : x = left /\ y = one
      BY <1>7, <2>0
    <3>1. /\ x \o y \in Seq(Seq(EpisodeType)) /\ Len(x \o y) = Len(x) + Len(y)
          /\ \A k \in 1 .. Len(x) + Len(y) :
               (x \o y)[k] = IF k <= Len(x) THEN x[k] ELSE y[k - Len(x)]
      BY ConcatProperties
    <3> QED BY <3>0, <3>1
  <2>2. Len(mid) = p /\ mid \in Seq(Seq(EpisodeType))
    BY <1>1, <1>7, <2>0, <2>1
  <2>3. ASSUME NEW k \in 1 .. p PROVE mid[k] = IF k = p THEN parts ELSE <<eps[k]>>
    <3>1. CASE k = p
      <4>0. p \in Nat \ {0} /\ Len(left) = p - 1 /\ Len(one) = 1
        BY <1>1, <1>7, <2>0
      <4>1. k \in 1 .. Len(left) + Len(one) /\ ~(k <= Len(left)) /\ k - Len(left) = 1
        BY <3>1, <4>0
      <4> QED BY <2>0, <2>1, <3>1, <4>1
    <3>2. CASE k # p
      <4>1. k \in 1 .. Len(left) + Len(one) /\ k <= Len(left) /\ k \in 1 .. p - 1
        BY <1>1, <1>7, <2>0, <3>2
      <4> QED BY <1>11, <2>0, <2>1, <3>2, <4>1
    <3> QED BY <3>1, <3>2
  <2> QED BY <2>2, <2>3
<1>13. FlattenSeq(mid) = before \o parts
  BY <1>7, <1>10, FlattenConcat, ZenonT(30)
<1> HIDE DEF mid
<1>14. all = ss
  <2> DEFINE a == mid \o right
  <2>1. /\ a \in Seq(Seq(EpisodeType)) /\ Len(a) = Len(mid) + Len(right)
        /\ \A k \in 1 .. Len(mid) + Len(right) :
             a[k] = IF k <= Len(mid) THEN mid[k] ELSE right[k - Len(mid)]
    BY <1>8, <1>12, ConcatProperties
  <2>2. all = a
    BY DEF mid
  <2> HIDE DEF a, all
  <2>3. Len(a) = L
    BY <1>1, <1>8, <1>12, <2>1
  <2>4. ASSUME NEW k \in 1 .. L PROVE a[k] = ss[k]
    <3>1. CASE k <= p
      <4>1. k \in 1 .. p /\ k \in 1 .. Len(mid) + Len(right)
        BY <1>1, <1>8, <1>12, <3>1
      <4> QED BY <1>9, <1>12, <2>1, <3>1, <4>1
    <3>2. CASE ~(k <= p)
      <4>1. PICK i \in 1 .. L - p : p + i = k
        <5>1. k - p \in 1 .. L - p /\ p + (k - p) = k
          BY <1>1, <3>2
        <5> QED BY <5>1
      <4>2. k \in 1 .. Len(mid) + Len(right) /\ ~(k <= Len(mid)) /\ k - Len(mid) = i /\ k # p
        BY <1>1, <1>8, <1>12, <3>2, <4>1
      <4>3. a[k] = right[i] /\ right[i] = <<eps[p + i]>>
        BY <1>11, <2>1, <4>2
      <4> QED BY <1>9, <4>1, <4>2, <4>3
    <3> QED BY <1>1, <3>1, <3>2
  <2>5. a = ss
    <3>1. Len(a) = Len(ss) /\ \A i \in 1 .. Len(a) : a[i] = ss[i]
      BY <1>9, <2>3, <2>4
    <3>2. a \in Seq(Seq(EpisodeType)) /\ ss \in Seq(Seq(EpisodeType))
      BY <1>9, <2>1
    <3> QED BY <3>1, <3>2, SeqEqual
  <2> QED BY <2>2, <2>5
<1>15. FlattenSeq(ss) = (before \o parts) \o after
  <2>1. FlattenSeq(mid \o right) = FlattenSeq(mid) \o FlattenSeq(right)
    BY <1>8, <1>12, FlattenConcat
  <2> QED BY <1>8, <1>13, <1>14, <2>1 DEF mid
<1>16. Exchange(eps, p, p, parts, SubSeq(eps, 1, p - 1) \o parts \o SubSeq(eps, p + 1, Len(eps)))
  <2>1. p \in 1 .. Len(eps) + 1 /\ p \in p - 1 .. Len(eps)
    BY <1>1 DEF L
  <2> QED BY <1>1, <1>2, <2>1, ExchangeEntries
<1> QED BY <1>3, <1>15, <1>16 DEF before, after, L, eps

(* The episode that stood where position o is, after the one at p became n.     *)
Origin(o, p, n) == IF o < p THEN o ELSE IF o < p + n THEN p ELSE o - n + 1

(* Where it stood, in order: others as they are, the parts at the one place.    *)
LEMMA OriginIs ==
  ASSUME NEW eps, NEW p \in 1 .. Len(eps), NEW parts, NEW target, NEW new,
         Exchanged(eps, p, p, parts, target, new), NEW o \in 1 .. Len(new)
  PROVE  LET q == Origin(o, p, Len(parts))
         IN  /\ q \in 1 .. Len(eps)
             /\ \A i \in 1 .. o : Origin(i, p, Len(parts)) <= q
             /\ \/ q # p /\ new[o] = eps[q] /\ \A i \in 1 .. Len(new) :
                     Origin(i, p, Len(parts)) = q => i = o
                \/ q = p /\ \E k \in 1 .. Len(parts) : o = p - 1 + k /\ new[o] = parts[k]
<1> DEFINE n == Len(parts)
           L == Len(eps)
           M == Len(new)
           q == Origin(o, p, n)
<1>1. /\ p \in Nat \ {0} /\ p <= L /\ L \in Nat /\ n \in Nat \ {0} /\ M = p - 1 + n + L - p
  <2>1. eps \in Seq(EpisodeType) /\ parts \in Seq(EpisodeType) /\ parts # <<>>
    BY DEF Exchanged, Replacement
  <2>2. Len(new) = p - 1 + n + Len(eps) - p
    BY DEF Exchanged, Exchange
  <2> QED BY <2>1, <2>2, LenProperties, EmptySeq
<1>2. \/ o \in 1 .. p - 1 /\ o \in 1 .. L /\ new[o] = eps[o]
      \/ \E k \in 1 .. n : o = p - 1 + k /\ new[o] = parts[k]
      \/ \E r \in p + 1 .. L : o = r - p + p - 1 + n /\ r \in 1 .. L /\ new[o] = eps[r]
  <2>1. PICK a, b : a = p /\ b = p
    OBVIOUS
  <2>2. Exchanged(eps, a, b, parts, target, new)
    BY <2>1
  <2>3. \/ o \in 1 .. a - 1 /\ o \in 1 .. Len(eps) /\ new[o] = eps[o]
        \/ \E k \in 1 .. Len(parts) : o = a - 1 + k /\ new[o] = parts[k]
        \/ \E r \in b + 1 .. Len(eps) :
             o = r - b + a - 1 + Len(parts) /\ r \in 1 .. Len(eps) /\ new[o] = eps[r]
    BY <2>2, ExchangeAt
  <2> QED BY <2>1, <2>3
<1>3. o \in 1 .. M
  OBVIOUS
<1> HIDE DEF n, L, M, q
<1>4. \A i \in 1 .. o : Origin(i, p, n) <= q
  BY <1>1, <1>3 DEF Origin, q
<1>5. CASE o \in 1 .. p - 1 /\ new[o] = eps[o]
  <2>1. q = o /\ q \in 1 .. L /\ q # p
    BY <1>1, <1>3, <1>5 DEF Origin, q
  <2>2. \A i \in 1 .. M : Origin(i, p, n) = q => i = o
    BY <1>1, <1>3, <1>5 DEF Origin, q
  <2> QED BY <1>4, <1>5, <2>1, <2>2 DEF n, L, M, q
<1>6. ASSUME NEW k \in 1 .. n, o = p - 1 + k, new[o] = parts[k]
      PROVE  q \in 1 .. L /\ q = p
  BY <1>1, <1>3, <1>6 DEF Origin, q
<1>7. ASSUME NEW r \in p + 1 .. L, o = r - p + p - 1 + n, new[o] = eps[r]
      PROVE  /\ q \in 1 .. L /\ q # p /\ new[o] = eps[q]
             /\ \A i \in 1 .. M : Origin(i, p, n) = q => i = o
  <2>1. q = r
    BY <1>1, <1>3, <1>7 DEF Origin, q
  <2>2. \A i \in 1 .. M : Origin(i, p, n) = r => i = o
    BY <1>1, <1>3, <1>7 DEF Origin
  <2>3. r \in 1 .. L /\ r # p
    BY <1>1
  <2> QED BY <1>7, <2>1, <2>2, <2>3
<1>8. CASE \E k \in 1 .. n : o = p - 1 + k /\ new[o] = parts[k]
  BY <1>4, <1>6, <1>8 DEF n, L, M, q
<1>9. CASE \E r \in p + 1 .. L : o = r - p + p - 1 + n /\ r \in 1 .. L /\ new[o] = eps[r]
  BY <1>4, <1>7, <1>9 DEF n, L, M, q
<1> QED BY <1>2, <1>5, <1>8, <1>9

(* A split puts nothing out of place.                                           *)
LEMMA SplitInPlace ==
  ASSUME NEW eps, NEW p \in 1 .. Len(eps), NEW parts, NEW new, Valid(eps[p]),
         Exchanged(eps, p, p, parts, eps[p], new), NEW o \in 1 .. Len(new), ~InPlace(new, o)
  PROVE  ~InPlace(eps, Origin(o, p, Len(parts)))
<1> DEFINE n == Len(parts)
           L == Len(eps)
           M == Len(new)
           q == Origin(o, p, n)
<1>1. /\ p \in Nat \ {0} /\ p <= L /\ L \in Nat /\ n \in Nat \ {0} /\ M = p - 1 + n + L - p
  <2>1. eps \in Seq(EpisodeType) /\ parts \in Seq(EpisodeType) /\ parts # <<>>
    BY DEF Exchanged, Replacement
  <2>2. Len(new) = p - 1 + n + Len(eps) - p
    BY DEF Exchanged, Exchange
  <2> QED BY <2>1, <2>2, LenProperties, EmptySeq
<1>2. o \in 1 .. M
  OBVIOUS
<1> HIDE DEF n, L, M, q
<1>3. CASE o < p
  <2>1. q = o
    BY <1>1, <1>2, <1>3 DEF Origin, q
  <2>2. ~InPlace(eps, o)
    BY <1>3, ExchangeInPlace
  <2> QED BY <2>1, <2>2 DEF q, n
<1>4. CASE o = p
  <2>1. q = p
    BY <1>1, <1>2, <1>4 DEF Origin, q
  <2>2. eps[p].first # StartOf(eps, p)
    BY <1>4, ExchangeInPlace
  <2> QED BY <2>1, <2>2 DEF InPlace, q, n
<1>5. CASE p < o /\ o < p + n
  BY <1>5, ExchangeInPlace DEF n
<1>6. CASE o = p + n
  <2>1. q = p + 1 /\ q \in 1 .. L /\ q \in Nat
    BY <1>1, <1>2, <1>6 DEF Origin, q
  <2>2. ~(Valid(eps[q]) /\ eps[q].first = eps[p].last + 1)
    <3>1. \A r \in 1 .. Len(eps) : r = p + 1 =>
            (InPlace(new, o) <=> Valid(eps[r]) /\ eps[r].first = eps[p].last + 1)
      <4>1. PICK a, b : a = p /\ b = p
        OBVIOUS
      <4>2. Exchanged(eps, a, b, parts, eps[p], new) /\ o = a + Len(parts)
        BY <1>6, <4>1 DEF n
      <4>3. \A r \in 1 .. Len(eps) : r = b + 1 =>
              (InPlace(new, o) <=> Valid(eps[r]) /\ eps[r].first = eps[p].last + 1)
        BY <4>2, ExchangeInPlace
      <4> QED BY <4>1, <4>3
    <3> QED BY <2>1, <3>1 DEF L
  <2>3. ~InPlace(eps, q)
    BY <1>1, <2>1, <2>2, InPlaceAfter
  <2> QED BY <2>3 DEF q, n
<1>7. CASE o > p + n
  <2>1. q \in p + 2 .. L /\ o = q - p + p - 1 + n
    BY <1>1, <1>2, <1>7 DEF Origin, q
  <2>2. ~InPlace(eps, q)
    <3>1. \A r \in p + 2 .. Len(eps) : o = r - p + p - 1 + Len(parts) =>
            (InPlace(new, o) <=> InPlace(eps, r))
      <4>1. PICK a, b : a = p /\ b = p
        OBVIOUS
      <4>2. Exchanged(eps, a, b, parts, eps[p], new)
        BY <4>1
      <4>3. \A r \in b + 2 .. Len(eps) : o = r - b + a - 1 + Len(parts) =>
              (InPlace(new, o) <=> InPlace(eps, r))
        BY <4>2, ExchangeInPlace
      <4> QED BY <4>1, <4>3
    <3> QED BY <2>1, <3>1 DEF L, n
  <2> QED BY <2>2 DEF q, n
<1> QED BY <1>1, <1>2, <1>3, <1>4, <1>5, <1>6, <1>7

(* So a split of an episode still to be split is no more work.                  *)
LEMMA SplitWorks ==
  ASSUME NEW eps, NEW p \in 1 .. Len(eps), NEW parts, NEW new, Valid(eps[p]),
         Exchanged(eps, p, p, parts, eps[p], new), NEW T, NEW U \in SUBSET T, eps[p].id \in T,
         \A k \in 1 .. Len(eps) : eps[k].id \in T => Valid(eps[k]),
         \A i \in 1 .. Len(parts) : parts[i].id \notin U
  PROVE  Work(new, U) <= Work(eps, T)
<1> DEFINE n == Len(parts)
           L == Len(eps)
           M == Len(new)
           at(o) == Origin(o, p, n)
           f == [s \in Slots(new, U) |-> <<at(s[1]), s[2]>>]
<1>1. eps \in Seq(EpisodeType) /\ new \in Seq(EpisodeType)
  BY DEF Exchanged, Exchange
<1>2. \A o \in 1 .. M : /\ at(o) \in 1 .. L /\ \A i \in 1 .. o : at(i) <= at(o)
                        /\ \/ at(o) # p /\ new[o] = eps[at(o)]
                              /\ \A i \in 1 .. M : at(i) = at(o) => i = o
                           \/ at(o) = p /\ \E k \in 1 .. n : o = p - 1 + k /\ new[o] = parts[k]
  BY OriginIs
<1>3. \A o \in 1 .. M : ~InPlace(new, o) => ~InPlace(eps, at(o))
  BY SplitInPlace
<1>4. /\ \A i, j \in 1 .. n : i < j => parts[i].last < parts[j].first
      /\ \A i \in 1 .. n : eps[p].first <= parts[i].first /\ parts[i].last <= eps[p].last
      /\ \A i \in 1 .. n : Valid(parts[i])
  BY PartsInside DEF Exchanged, Replacement
<1>5. N \in Nat /\ L \in Nat /\ n \in Nat /\ M \in Nat /\ DOMAIN eps = 1 .. L /\ DOMAIN new = 1 .. M
      /\ p \in 1 .. L
  <2>1. parts \in Seq(EpisodeType)
    BY DEF Exchanged, Replacement
  <2> QED BY <1>1, <2>1, LenProperties, MicroEventAt
<1>6. \A i \in 1 .. n : SlotOf(parts[i], U) = {parts[i].first} /\ parts[i].first \in RangeOf(eps[p])
  <2>1. ASSUME NEW i \in 1 .. n PROVE parts[i].first \in RangeOf(eps[p])
    <3>1. /\ Valid(parts[i]) /\ eps[p].first <= parts[i].first /\ parts[i].last <= eps[p].last
      BY <1>4
    <3> QED BY <1>5, <3>1 DEF Valid, RangeOf
  <2>2. ASSUME NEW i \in 1 .. n PROVE SlotOf(parts[i], U) = {parts[i].first}
    <3>1. Valid(parts[i]) /\ parts[i].id \notin U
      BY <1>4
    <3> QED BY <3>1 DEF SlotOf
  <2> QED BY <2>1, <2>2
<1>7. \A k \in 1 .. L : SlotOf(eps[k], U) \subseteq SlotOf(eps[k], T)
  <2>1. ASSUME NEW k \in 1 .. L, eps[k].id \in T PROVE eps[k].first \in RangeOf(eps[k])
    <3>1. Valid(eps[k])
      BY <2>1
    <3> QED BY <1>5, <3>1 DEF Valid, RangeOf
  <2> QED BY <2>1 DEF SlotOf
<1>8. \A k \in 1 .. L : \A o \in k .. L : ~InPlace(eps, k) => o \in Behind(eps)
  BY <1>1, BehindFrom
<1>9. \A o \in Behind(new) : o \in 1 .. M /\ \E j \in 1 .. o : j \in 1 .. M /\ ~InPlace(new, j)
  BY <1>1, BehindSome
<1>10. SlotOf(eps[p], T) = RangeOf(eps[p])
  BY DEF SlotOf
<1>11. \A s \in Slots(new, U) : \E o \in 1 .. M, x \in 0 .. N :
         s = <<o, x>> /\ o \in Behind(new) /\ x \in SlotOf(new[o], U)
  BY DEF Slots
<1> HIDE DEF n, L, M, at
<1>12. ASSUME NEW s \in Slots(new, U) PROVE <<at(s[1]), s[2]>> \in Slots(eps, T)
  <2>1. PICK o \in 1 .. M, x \in 0 .. N :
          s = <<o, x>> /\ o \in Behind(new) /\ x \in SlotOf(new[o], U)
    BY <1>11
  <2>2. PICK q \in 1 .. L : q = at(o)
    BY <1>2
  <2>3. q \in Behind(eps)
    <3>1. PICK j \in 1 .. o : j \in 1 .. M /\ ~InPlace(new, j)
      BY <1>9, <2>1
    <3>2. PICK k \in 1 .. L : k = at(j) /\ ~InPlace(eps, k) /\ k <= q
      BY <1>2, <1>3, <2>2, <3>1
    <3>3. q \in k .. L
      BY <1>5, <3>2
    <3> QED BY <1>8, <3>2, <3>3
  <2>4. x \in SlotOf(eps[q], T)
    <3>1. CASE q # p
      <4>1. new[o] = eps[q]
        BY <1>2, <2>2, <3>1
      <4> QED BY <1>7, <2>1, <4>1
    <3>2. CASE q = p
      <4>1. PICK i \in 1 .. n : new[o] = parts[i]
        BY <1>2, <2>2, <3>2
      <4>2. x \in RangeOf(eps[p])
        BY <1>6, <2>1, <4>1
      <4> QED BY <1>10, <3>2, <4>2
    <3> QED BY <3>1, <3>2
  <2>5. <<q, x>> \in Slots(eps, T)
    BY <2>3, <2>4 DEF Slots, L
  <2> QED BY <2>1, <2>2, <2>5
<1>13. f \in [Slots(new, U) -> Slots(eps, T)]
  BY <1>12
<1>14. ASSUME NEW s \in Slots(new, U), NEW t \in Slots(new, U), f[s] = f[t] PROVE s = t
  <2>1. PICK o \in 1 .. M, x \in 0 .. N : s = <<o, x>> /\ x \in SlotOf(new[o], U)
    BY <1>11
  <2>2. PICK r \in 1 .. M, y \in 0 .. N : t = <<r, y>> /\ y \in SlotOf(new[r], U)
    BY <1>11
  <2>3. at(o) = at(r) /\ x = y
    <3>1. f[s] = <<at(o), x>> /\ f[t] = <<at(r), y>>
      BY <2>1, <2>2
    <3> QED BY <1>14, <3>1
  <2>4. CASE at(o) # p
    BY <1>2, <2>1, <2>2, <2>3, <2>4
  <2>5. CASE at(o) = p
    <3>1. PICK i \in 1 .. n : o = p - 1 + i /\ new[o] = parts[i]
      BY <1>2, <2>5
    <3>2. PICK j \in 1 .. n : r = p - 1 + j /\ new[r] = parts[j]
      BY <1>2, <2>3, <2>5
    <3>3. parts[i].first = parts[j].first
      <4>1. x = parts[i].first /\ y = parts[j].first
        BY <1>6, <2>1, <2>2, <3>1, <3>2
      <4> QED BY <2>3, <4>1
    <3>4. Valid(parts[i]) /\ Valid(parts[j])
      BY <1>4
    <3>5. ~(i < j) /\ ~(j < i)
      BY <1>4, <1>5, <3>3, <3>4 DEF Valid
    <3>6. i = j
      BY <1>5, <3>5
    <3> QED BY <2>1, <2>2, <2>3, <3>1, <3>2, <3>6
  <2> QED BY <2>4, <2>5
<1>15. Covered(eps) => Covered(new)
  <2> SUFFICES ASSUME Covered(eps) PROVE Covered(new)
    OBVIOUS
  <2>1. \A k \in 1 .. L : InPlace(eps, k)
    BY <1>5 DEF Covered, Misplaced
  <2>2. Misplaced(new) = {}
    BY <1>2, <1>3, <1>5, <2>1 DEF Misplaced
  <2>3. StartOf(new, M + 1) = N + 1
    <3>1. StartOf(new, M + 1) = IF p = L THEN eps[p].last + 1 ELSE StartOf(eps, L + 1)
      BY ExchangeEnd DEF L, M
    <3>2. p = L => StartOf(eps, L + 1) = eps[p].last + 1
      <4>1. L \in Nat \ {0} /\ L + 1 \in Nat
        BY <1>5
      <4> QED BY <4>1, InPlaceAfter
    <3>3. StartOf(eps, L + 1) = N + 1
      BY DEF Covered, L
    <3> QED BY <3>1, <3>2, <3>3
  <2> QED BY <2>2, <2>3 DEF Covered, M
<1> HIDE DEF f
<1> QED BY <1>1, <1>13, <1>14, <1>15, FewerSlots

-----------------------------------------------------------------------------
(* Ids are given once; episodes are ordered by where they start, those with an  *)
(* unknown start behind.                                                        *)
Once(eps) == \A j, k \in 1 .. Len(eps) : eps[j].id = eps[k].id => j = k
StartKey(e) == IF e.first = 0 THEN N + 1 ELSE e.first
ByStart(eps) == \A k \in 1 .. Len(eps) : \A j \in 1 .. k : StartKey(eps[j]) <= StartKey(eps[k])

(* The first of each id is the only one.                                        *)
LEMMA FirstOfEachIdOnce ==
  ASSUME NEW eps \in Seq(EpisodeType)
  PROVE  Once(FirstOfEachId(eps))
<1> DEFINE S == {k \in DOMAIN eps : \A j \in 1 .. k - 1 : eps[j].id # eps[k].id}
           new == Chosen(eps, S)
<1>1. S \subseteq 1 .. Len(eps) /\ DOMAIN eps = 1 .. Len(eps) /\ Len(eps) \in Nat
  BY LenProperties
<1>2. FirstOfEachId(eps) = new
  BY DEF FirstOfEachId
<1>3. ASSUME NEW i \in S, NEW j \in S, i < j PROVE eps[i].id # eps[j].id
  <2>1. i \in 1 .. j - 1
    BY <1>1, <1>3
  <2> QED BY <2>1
<1> HIDE DEF S
<1>4. Picks(eps, S)
  BY <1>1, ChosenEntries
<1>5. ASSUME NEW i \in 1 .. Cardinality(S), NEW j \in 1 .. Cardinality(S), i < j
      PROVE  new[i].id # new[j].id
  BY <1>3, <1>4, <1>5 DEF Picks
<1>6. Len(new) = Cardinality(S) /\ Cardinality(S) \in Nat
  BY <1>4 DEF Picks
<1> HIDE DEF new
<1>7. ASSUME NEW i \in 1 .. Len(new), NEW j \in 1 .. Len(new), new[i].id = new[j].id PROVE i = j
  <2>1. ~(i < j) /\ ~(j < i)
    BY <1>5, <1>6, <1>7
  <2> QED BY <1>6, <2>1
<1> QED BY <1>2, <1>7 DEF Once

(* Those that start at one place.                                               *)
LEMMA StartingAtEntries ==
  ASSUME NEW eps \in Seq(EpisodeType), Once(eps), NEW m
  PROVE  /\ StartingAt(eps, m) \in Seq(EpisodeType) /\ Once(StartingAt(eps, m))
         /\ \A i \in 1 .. Len(StartingAt(eps, m)) :
              /\ StartingAt(eps, m)[i].first = m
              /\ \E k \in 1 .. Len(eps) : StartingAt(eps, m)[i] = eps[k]
<1> DEFINE S == {k \in DOMAIN eps : eps[k].first = m}
           new == Chosen(eps, S)
<1>1. S \subseteq 1 .. Len(eps) /\ DOMAIN eps = 1 .. Len(eps) /\ Len(eps) \in Nat
  BY LenProperties
<1>2. StartingAt(eps, m) = new
  BY DEF StartingAt
<1>3. \A k \in S : k \in 1 .. Len(eps) /\ k \in Nat /\ eps[k].first = m
  BY <1>1
<1> HIDE DEF S
<1>4. Picks(eps, S) /\ new \in Seq(EpisodeType)
  BY <1>1, ChosenEntries
<1>5. ASSUME NEW i \in 1 .. Cardinality(S)
      PROVE  InOrder(S)[i] \in S /\ new[i] = eps[InOrder(S)[i]]
  BY <1>4 DEF Picks
<1>6. Len(new) = Cardinality(S) /\ Cardinality(S) \in Nat
  BY <1>4 DEF Picks
<1>7. \A i, j \in 1 .. Cardinality(S) : i < j => InOrder(S)[i] < InOrder(S)[j]
  BY <1>4 DEF Picks
<1> HIDE DEF new
<1>8. ASSUME NEW i \in 1 .. Len(new), NEW j \in 1 .. Len(new), new[i].id = new[j].id PROVE i = j
  <2>1. PICK a \in S, b \in S : a = InOrder(S)[i] /\ b = InOrder(S)[j] /\ new[i] = eps[a] /\ new[j] = eps[b]
    BY <1>5, <1>6
  <2>2. a = b /\ a \in Nat
    BY <1>3, <1>8, <2>1 DEF Once
  <2>3. i \in 1 .. Cardinality(S) /\ j \in 1 .. Cardinality(S)
    BY <1>6
  <2>4. ~(i < j)
    <3>1. i < j => a < b
      BY <1>7, <2>1, <2>3
    <3> QED BY <2>2, <3>1
  <2>5. ~(j < i)
    <3>1. j < i => b < a
      BY <1>7, <2>1, <2>3
    <3> QED BY <2>2, <3>1
  <2> QED BY <1>6, <2>3, <2>4, <2>5
<1>9. ASSUME NEW i \in 1 .. Len(new)
      PROVE  new[i].first = m /\ \E k \in 1 .. Len(eps) : new[i] = eps[k]
  BY <1>3, <1>5, <1>6
<1> QED BY <1>2, <1>4, <1>8, <1>9 DEF Once

(* Sorting keeps the ids apart.                                                 *)
LEMMA SortedOnce ==
  ASSUME NEW eps \in Seq(EpisodeType), Once(eps)
  PROVE  Once(SortedByStart(eps)) /\ ByStart(SortedByStart(eps))
<1> DEFINE ss == [m \in 1 .. N |-> StartingAt(eps, m)]
           F == FlattenSeq(ss)
           Z == StartingAt(eps, 0)
           new == SortedByStart(eps)
           L == Len(eps)
<1>1. N \in Nat \ {0} /\ L \in Nat
  BY LenProperties, MicroEventAt
<1>2. /\ Z \in Seq(EpisodeType) /\ Once(Z) /\ Len(Z) \in Nat
      /\ \A i \in 1 .. Len(Z) : Z[i].first = 0 /\ \E k \in 1 .. L : Z[i] = eps[k]
  BY StartingAtEntries, LenProperties
<1>3. ss \in Seq(Seq(EpisodeType)) /\ Len(ss) = N /\ ss # <<>>
  <2>1. ss \in [1 .. N -> Seq(EpisodeType)]
    BY StartingAtEntries
  <2> HIDE DEF ss
  <2>2. ss \in Seq(Seq(EpisodeType)) /\ Len(ss) = N
    BY <1>1, <2>1, SequenceOf
  <2> QED BY <1>1, <2>2, EmptySeq
<1>4. ASSUME NEW m \in 1 .. N
      PROVE  /\ ss[m] \in Seq(EpisodeType) /\ Once(ss[m]) /\ Len(ss[m]) \in Nat
             /\ \A i \in 1 .. Len(ss[m]) : ss[m][i].first = m /\ \E k \in 1 .. L : ss[m][i] = eps[k]
  BY StartingAtEntries, LenProperties
<1>5. new = F \o Z
  BY DEF SortedByStart
<1> HIDE DEF ss, F, Z, new, L
<1>6. F \in Seq(EpisodeType) /\ \E off : Places(ss, F, off)
  BY <1>3, FlattenPlaces DEF F
<1>7. PICK off : Places(ss, F, off)
  BY <1>6
<1>8. off \in [0 .. N -> Nat] /\ \A i \in 1 .. N : off[i] = off[i - 1] + Len(ss[i])
  BY <1>3, <1>7 DEF Places
<1>9. \A j \in 0 .. N : \A i \in 0 .. j : off[i] <= off[j]
  <2>1. \A i \in 1 .. N : i - 1 \in 0 .. N /\ i \in 0 .. N
    BY <1>1
  <2>2. \A i \in 1 .. N : off[i - 1] <= off[i]
    BY <1>4, <1>8, <2>1
  <2> QED BY <1>1, <1>8, <2>2, NeverFalls
<1>10. ASSUME NEW k \in 1 .. Len(F)
       PROVE  \E i \in 1 .. N : \E j \in 1 .. Len(ss[i]) :
                k = off[i - 1] + j /\ F[k] = ss[i][j]
  <2>1. PICK i \in 1 .. N : \E j \in 1 .. Len(ss[i]) : k = off[i - 1] + j
    BY <1>3, <1>7 DEF Places
  <2>2. PICK j \in 1 .. Len(ss[i]) : k = off[i - 1] + j
    BY <2>1
  <2>3. F[off[i - 1] + j] = ss[i][j]
    BY <1>3, <1>7 DEF Places
  <2> QED BY <2>2, <2>3
<1>11. ASSUME NEW k \in 1 .. Len(F)
       PROVE  F[k].first \in 1 .. N /\ \E m \in 1 .. L : F[k] = eps[m]
  <2>1. PICK i \in 1 .. N : \E j \in 1 .. Len(ss[i]) : F[k] = ss[i][j]
    BY <1>10
  <2>2. PICK j \in 1 .. Len(ss[i]) : F[k] = ss[i][j]
    BY <2>1
  <2>3. ss[i][j].first = i /\ \E m \in 1 .. L : ss[i][j] = eps[m]
    BY <1>4
  <2> QED BY <2>2, <2>3
<1>12. ASSUME NEW k \in 1 .. Len(F), NEW q \in 1 .. k PROVE F[q].first <= F[k].first
  <2>0. q \in 1 .. Len(F) /\ Len(F) \in Nat
    BY <1>6, LenProperties
  <2>1. PICK i \in 1 .. N : \E j \in 1 .. Len(ss[i]) : k = off[i - 1] + j /\ F[k] = ss[i][j]
    BY <1>10
  <2>2. PICK j \in 1 .. Len(ss[i]) : k = off[i - 1] + j /\ F[k] = ss[i][j]
    BY <2>1
  <2>3. PICK a \in 1 .. N : \E b \in 1 .. Len(ss[a]) : q = off[a - 1] + b /\ F[q] = ss[a][b]
    BY <1>10, <2>0
  <2>4. PICK b \in 1 .. Len(ss[a]) : q = off[a - 1] + b /\ F[q] = ss[a][b]
    BY <2>3
  <2>5. F[k].first = i /\ F[q].first = a
    BY <1>4, <2>2, <2>4
  <2>6. ASSUME i < a PROVE FALSE
    <3>1. PICK c \in 0 .. N : c = a - 1
      BY <1>1
    <3>2. i \in 0 .. c
      BY <2>6, <3>1
    <3>3. off[i] <= off[c]
      BY <1>9, <3>2
    <3>4. PICK d \in 0 .. N : d = i - 1
      BY <1>1
    <3>5. off[i] = off[d] + Len(ss[i]) /\ k = off[d] + j /\ q = off[c] + b
      BY <1>8, <2>2, <2>4, <3>1, <3>4
    <3>6. off[i] \in Nat /\ off[c] \in Nat /\ off[d] \in Nat
      <4>1. i \in 0 .. N
        BY <1>1
      <4> QED BY <1>8, <4>1
    <3>7. Len(ss[i]) \in Nat /\ Len(ss[a]) \in Nat
      BY <1>4
    <3>8. j \in Nat /\ b \in Nat \ {0} /\ j <= Len(ss[i])
      BY <3>7
    <3>9. q > k
      <4>1. PICK x, y, z \in Nat : x = off[i] /\ y = off[c] /\ z = off[d]
        BY <3>6
      <4>2. PICK l \in Nat : l = Len(ss[i])
        BY <3>7
      <4>3. x <= y /\ x = z + l /\ k = z + j /\ q = y + b /\ j <= l
        BY <3>3, <3>5, <3>8, <4>1, <4>2
      <4> QED BY <3>8, <4>3
    <3> QED BY <3>9
  <2> QED BY <1>1, <2>5, <2>6
<1>13. ASSUME NEW k \in 1 .. Len(F), NEW q \in 1 .. Len(F), F[q].id = F[k].id PROVE q = k
  <2>1. PICK i \in 1 .. N : \E j \in 1 .. Len(ss[i]) : k = off[i - 1] + j /\ F[k] = ss[i][j]
    BY <1>10
  <2>2. PICK j \in 1 .. Len(ss[i]) : k = off[i - 1] + j /\ F[k] = ss[i][j]
    BY <2>1
  <2>3. PICK a \in 1 .. N : \E b \in 1 .. Len(ss[a]) : q = off[a - 1] + b /\ F[q] = ss[a][b]
    BY <1>10
  <2>4. PICK b \in 1 .. Len(ss[a]) : q = off[a - 1] + b /\ F[q] = ss[a][b]
    BY <2>3
  <2>5. F[k] = F[q]
    BY <1>11, <1>13 DEF Once, L
  <2>6. i = a
    <3>1. ss[i][j].first = i
      BY <1>4
    <3>2. ss[a][b].first = a
      BY <1>4
    <3> QED BY <2>2, <2>4, <2>5, <3>1, <3>2
  <2>7. j = b
    <3>1. b \in 1 .. Len(ss[i]) /\ ss[i][j].id = ss[i][b].id
      BY <2>2, <2>4, <2>5, <2>6
    <3>2. Once(ss[i])
      BY <1>4
    <3> QED BY <3>1, <3>2 DEF Once
  <2> QED BY <2>2, <2>4, <2>6, <2>7
<1>14. /\ Len(new) = Len(F) + Len(Z) /\ Len(F) \in Nat
       /\ \A k \in 1 .. Len(F) + Len(Z) : new[k] = IF k <= Len(F) THEN F[k] ELSE Z[k - Len(F)]
  <2>1. PICK x, y \in Seq(EpisodeType) : x = F /\ y = Z
    BY <1>2, <1>6
  <2>2. /\ Len(x \o y) = Len(x) + Len(y)
        /\ \A k \in 1 .. Len(x) + Len(y) : (x \o y)[k] = IF k <= Len(x) THEN x[k] ELSE y[k - Len(x)]
    BY ConcatProperties
  <2> QED BY <1>5, <1>6, <2>1, <2>2, LenProperties
<1>15. ASSUME NEW k \in 1 .. Len(new)
       PROVE  \/ k \in 1 .. Len(F) /\ new[k] = F[k]
              \/ \E i \in 1 .. Len(Z) : k = Len(F) + i /\ new[k] = Z[i]
  <2>1. CASE k <= Len(F)
    BY <1>2, <1>14, <2>1
  <2>2. CASE ~(k <= Len(F))
    <3>1. PICK i \in 1 .. Len(Z) : k = Len(F) + i /\ k - Len(F) = i
      <4>1. k - Len(F) \in 1 .. Len(Z) /\ k = Len(F) + (k - Len(F))
        BY <1>2, <1>14, <2>2
      <4> QED BY <4>1
    <3> QED BY <1>2, <1>14, <2>2, <3>1
  <2> QED BY <2>1, <2>2
<1>16. Once(new)
  <2> SUFFICES ASSUME NEW j \in 1 .. Len(new), NEW k \in 1 .. Len(new), new[j].id = new[k].id
               PROVE  j = k
    BY DEF Once
  <2>0. ASSUME NEW i \in 1 .. Len(F), NEW m \in 1 .. Len(Z), F[i].id = Z[m].id PROVE FALSE
    <3>1. PICK a \in 1 .. L : F[i] = eps[a]
      BY <1>11
    <3>2. PICK b \in 1 .. L : Z[m] = eps[b]
      BY <1>2
    <3>3. F[i] = Z[m]
      BY <2>0, <3>1, <3>2 DEF Once, L
    <3>4. F[i].first # 0
      BY <1>1, <1>11
    <3> QED BY <1>2, <3>3, <3>4
  <2>1. CASE j \in 1 .. Len(F) /\ new[j] = F[j]
    <3>1. k \in 1 .. Len(F) /\ new[k] = F[k]
      BY <1>15, <2>0, <2>1
    <3> QED BY <1>13, <2>1, <3>1
  <2>2. CASE \E i \in 1 .. Len(Z) : j = Len(F) + i /\ new[j] = Z[i]
    <3>1. PICK i \in 1 .. Len(Z) : j = Len(F) + i /\ new[j] = Z[i]
      BY <2>2
    <3>2. PICK m \in 1 .. Len(Z) : k = Len(F) + m /\ new[k] = Z[m]
      BY <1>15, <2>0, <3>1
    <3>3. i = m
      BY <1>2, <3>1, <3>2 DEF Once
    <3> QED BY <3>1, <3>2, <3>3
  <2> QED BY <1>15, <2>1, <2>2
<1>17. ByStart(new)
  <2> SUFFICES ASSUME NEW k \in 1 .. Len(new), NEW j \in 1 .. k
               PROVE  StartKey(new[j]) <= StartKey(new[k])
    BY DEF ByStart
  <2>0. j \in 1 .. Len(new) /\ k \in Nat /\ j \in Nat
    BY <1>2, <1>14
  <2>1. \A i \in 1 .. Len(F) : StartKey(F[i]) = F[i].first /\ F[i].first \in 1 .. N
    BY <1>1, <1>11 DEF StartKey
  <2>2. \A i \in 1 .. Len(Z) : StartKey(Z[i]) = N + 1
    BY <1>2 DEF StartKey
  <2>3. CASE k \in 1 .. Len(F) /\ new[k] = F[k]
    <3>1. j \in 1 .. Len(F) /\ new[j] = F[j]
      <4>1. j <= Len(F)
        BY <1>14, <2>0, <2>3
      <4> QED BY <1>2, <1>14, <2>0, <4>1
    <3>2. F[j].first <= F[k].first
      BY <1>12, <2>3
    <3> QED BY <2>1, <2>3, <3>1, <3>2
  <2>4. CASE \E i \in 1 .. Len(Z) : k = Len(F) + i /\ new[k] = Z[i]
    <3>1. StartKey(new[k]) = N + 1
      BY <2>2, <2>4
    <3>2. StartKey(new[j]) \in 1 .. N + 1
      <4>1. CASE j \in 1 .. Len(F) /\ new[j] = F[j]
        BY <1>1, <2>1, <4>1
      <4>2. CASE \E i \in 1 .. Len(Z) : j = Len(F) + i /\ new[j] = Z[i]
        BY <1>1, <2>2, <4>2
      <4> QED BY <1>15, <2>0, <4>1, <4>2
    <3> QED BY <1>1, <3>1, <3>2
  <2> QED BY <1>15, <2>3, <2>4
<1> QED BY <1>16, <1>17 DEF new

-----------------------------------------------------------------------------
(* An episode that shares no micro-event with another one, and is not broad;    *)
(* and where such an episode stands: behind all that end before it, and before  *)
(* all that begin behind it.                                                    *)
Alone(x, eps) == ~Overbroad(x) /\ \A f \in ToSet(eps) \ {x} : RangeOf(x) \cap RangeOf(f) = {}
StandsAt(eps, x, p) ==
  /\ p \in 1 .. Len(eps) /\ eps[p].id = x.id /\ eps[p].first = x.first /\ eps[p].last = x.last
  /\ \A q \in 1 .. Len(eps) : /\ q < p => eps[q].last < x.first
                              /\ p < q => x.last < eps[q].first
Apart(eps, x) == \E p \in 1 .. Len(eps) : StandsAt(eps, x, p)
AllValid(eps) == \A k \in 1 .. Len(eps) : Valid(eps[k])

(* In a sorted draft without unknown ranges it stands so.                       *)
LEMMA SortedApart ==
  ASSUME NEW eps \in Seq(EpisodeType), Once(eps), ByStart(eps), AllValid(eps),
         NEW x \in ToSet(eps), Alone(x, eps)
  PROVE  Apart(eps, x)
<1>1. N \in Nat /\ Len(eps) \in Nat /\ ToSet(eps) = {eps[k] : k \in 1 .. Len(eps)}
  BY MicroEventAt, ToSetOf
<1>2. PICK p \in 1 .. Len(eps) : eps[p] = x
  BY <1>1
<1>3. ASSUME NEW q \in 1 .. Len(eps)
      PROVE  /\ eps[q].first \in 1 .. N /\ eps[q].last \in 1 .. N /\ eps[q].first <= eps[q].last
             /\ StartKey(eps[q]) = eps[q].first
  BY <1>1 DEF AllValid, Valid, StartKey
<1>4. ASSUME NEW q \in 1 .. Len(eps), q # p PROVE eps[q].last < x.first \/ x.last < eps[q].first
  <2>1. eps[q] \in ToSet(eps) \ {x}
    BY <1>1, <1>2, <1>4 DEF Once
  <2>2. (x.first .. x.last) \cap (eps[q].first .. eps[q].last) = {}
    BY <2>1 DEF Alone, RangeOf
  <2>3. /\ x.first \in Int /\ x.last \in Int /\ x.first <= x.last
        /\ eps[q].first \in Int /\ eps[q].last \in Int /\ eps[q].first <= eps[q].last
    BY <1>1, <1>2, <1>3
  <2>4. ASSUME ~(eps[q].last < x.first), ~(x.last < eps[q].first) PROVE FALSE
    <3>1. CASE x.first <= eps[q].first
      <4>1. eps[q].first \in (x.first .. x.last) \cap (eps[q].first .. eps[q].last)
        BY <2>3, <2>4, <3>1
      <4> QED BY <2>2, <4>1
    <3>2. CASE ~(x.first <= eps[q].first)
      <4>1. x.first \in (x.first .. x.last) \cap (eps[q].first .. eps[q].last)
        BY <2>3, <2>4, <3>2
      <4> QED BY <2>2, <4>1
    <3> QED BY <3>1, <3>2
  <2> QED BY <2>4
<1>5. ASSUME NEW q \in 1 .. Len(eps), q < p PROVE eps[q].last < x.first
  <2>1. q \in 1 .. p /\ q # p
    BY <1>1, <1>5
  <2>2. eps[q].first <= x.first
    BY <1>2, <1>3, <2>1 DEF ByStart
  <2>3. /\ x.first \in Int /\ x.last \in Int /\ x.first <= x.last /\ eps[q].first \in Int
    BY <1>2, <1>3
  <2> QED BY <1>4, <2>1, <2>2, <2>3
<1>6. ASSUME NEW q \in 1 .. Len(eps), p < q PROVE x.last < eps[q].first
  <2>1. p \in 1 .. q /\ q # p
    BY <1>1, <1>6
  <2>2. x.first <= eps[q].first
    BY <1>2, <1>3, <2>1 DEF ByStart
  <2>3. /\ x.first \in Int /\ x.last \in Int /\ eps[q].first <= eps[q].last
        /\ eps[q].first \in Int /\ eps[q].last \in Int
    BY <1>2, <1>3
  <2> QED BY <1>4, <2>1, <2>2, <2>3
<1> QED BY <1>2, <1>5, <1>6 DEF Apart, StandsAt

(* An exchange beside it leaves it there.                                       *)
LEMMA ApartKept ==
  ASSUME NEW eps, NEW a, NEW b, NEW parts, NEW target, NEW new,
         Exchanged(eps, a, b, parts, target, new), NEW x \in EpisodeType, NEW p, StandsAt(eps, x, p),
         p \notin a .. b, p < a => x.last < target.first, p > b => target.last < x.first
  PROVE  Apart(new, x)
<1> DEFINE n == Len(parts)
           L == Len(eps)
           M == Len(new)
<1>1. /\ a \in Nat \ {0} /\ b \in Nat /\ a - 1 <= b /\ b <= L /\ L \in Nat /\ n \in Nat \ {0}
      /\ M = a - 1 + n + L - b /\ p \in 1 .. L
  <2>1. parts # <<>> /\ Len(new) = a - 1 + Len(parts) + Len(eps) - b
    BY DEF Exchanged, Exchange, Replacement
  <2> QED BY <2>1, LenProperties, EmptySeq DEF Exchanged, Replacement, StandsAt
<1>2. /\ \A k \in 1 .. a - 1 : new[k] = eps[k]
      /\ \A k \in b + 1 .. L, i \in 1 .. M : i = k - b + a - 1 + n => new[i] = eps[k]
  BY DEF Exchanged, Exchange
<1>3. \A i \in 1 .. n : /\ target.first <= parts[i].first /\ parts[i].last <= target.last
                        /\ Valid(parts[i])
  BY PartsInside DEF Exchanged, Replacement
<1>4. /\ target.first \in Int /\ target.last \in Int /\ x.first \in Int /\ x.last \in Int /\ N \in Nat
  <2>1. x.first \in 0 .. N /\ x.last \in 0 .. N
    BY DEF EpisodeType
  <2>2. target.first \in 1 .. N /\ target.last \in 1 .. N
    BY DEF Exchanged, Repairable
  <2> QED BY <2>1, <2>2, MicroEventAt
<1>5. \A q \in 1 .. L : (q < p => eps[q].last < x.first) /\ (p < q => x.last < eps[q].first)
  BY DEF StandsAt
<1>6. \A q \in 1 .. M :
        \/ q \in 1 .. a - 1 /\ q \in 1 .. L /\ new[q] = eps[q]
        \/ \E k \in 1 .. n : q = a - 1 + k /\ new[q] = parts[k]
        \/ \E o \in b + 1 .. L : q = o - b + a - 1 + n /\ o \in 1 .. L /\ new[q] = eps[o]
  BY ExchangeAt
<1> HIDE DEF n, L, M
<1>7. PICK r \in 1 .. M : /\ new[r] = eps[p] /\ r \in Nat
                          /\ p < a => r = p
                          /\ p > b => r = p - b + a - 1 + n
  <2>1. CASE p < a
    <3>1. p \in 1 .. a - 1 /\ p \in 1 .. M /\ ~(p > b)
      BY <1>1, <2>1
    <3> QED BY <1>1, <1>2, <3>1
  <2>2. CASE ~(p < a)
    <3>1. PICK r \in Nat : r = p - b + a - 1 + n
      <4>1. p - b + a - 1 + n \in Nat
        BY <1>1, <2>2
      <4> QED BY <4>1
    <3>2. r \in 1 .. M /\ p \in b + 1 .. L
      BY <1>1, <2>2, <3>1
    <3> QED BY <1>2, <2>2, <3>1, <3>2
  <2> QED BY <2>1, <2>2
<1>8. ASSUME NEW q \in 1 .. M
      PROVE  (q < r => new[q].last < x.first) /\ (r < q => x.last < new[q].first)
  <2>1. CASE q \in 1 .. a - 1 /\ q \in 1 .. L /\ new[q] = eps[q]
    <3>1. (q < r => q < p) /\ (r < q => p < q)
      BY <1>1, <1>7, <2>1
    <3> QED BY <1>5, <2>1, <3>1
  <2>2. ASSUME NEW k \in 1 .. n, q = a - 1 + k, new[q] = parts[k]
        PROVE  (q < r => new[q].last < x.first) /\ (r < q => x.last < new[q].first)
    <3>1. (q < r => p > b) /\ (r < q => p < a)
      BY <1>1, <1>7, <2>2
    <3>2. /\ target.first <= parts[k].first /\ parts[k].last <= target.last
          /\ parts[k].first \in Int /\ parts[k].last \in Int
      BY <1>3, <1>4 DEF Valid
    <3> QED BY <1>4, <2>2, <3>1, <3>2
  <2>3. ASSUME NEW o \in b + 1 .. L, q = o - b + a - 1 + n, o \in 1 .. L, new[q] = eps[o]
        PROVE  (q < r => new[q].last < x.first) /\ (r < q => x.last < new[q].first)
    <3>1. (q < r => o < p) /\ (r < q => p < o)
      BY <1>1, <1>7, <2>3
    <3> QED BY <1>5, <2>3, <3>1
  <2> QED BY <1>6, <2>1, <2>2, <2>3
<1>9. new[r].id = x.id /\ new[r].first = x.first /\ new[r].last = x.last
  BY <1>7 DEF StandsAt
<1> QED BY <1>7, <1>8, <1>9 DEF Apart, StandsAt, M

(* An exchange puts in valid episodes.                                          *)
LEMMA ValidKept ==
  ASSUME NEW eps, NEW a, NEW b, NEW parts, NEW target, NEW new,
         Exchanged(eps, a, b, parts, target, new), AllValid(eps)
  PROVE  AllValid(new)
<1> SUFFICES ASSUME NEW q \in 1 .. Len(new) PROVE Valid(new[q])
  BY DEF AllValid
<1>1. \/ q \in 1 .. a - 1 /\ q \in 1 .. Len(eps) /\ new[q] = eps[q]
      \/ \E k \in 1 .. Len(parts) : q = a - 1 + k /\ new[q] = parts[k]
      \/ \E o \in b + 1 .. Len(eps) :
           q = o - b + a - 1 + Len(parts) /\ o \in 1 .. Len(eps) /\ new[q] = eps[o]
  BY ExchangeAt
<1>2. \A k \in 1 .. Len(parts) : Valid(parts[k])
  BY DEF Exchanged, Replacement
<1> QED BY <1>1, <1>2 DEF AllValid

(* A repair leaves it where it stands, if all ranges are known.                 *)
LEMMA ApartRepaired ==
  ASSUME NEW eps, NEW range, NEW k, RepairCase(eps, k, range), NEW parts, NEW target, NEW new,
         Exchanged(eps, range.start, range.stop, parts, target, new),
         target.first = range.from, target.last = range.to,
         AllValid(eps), NEW x \in EpisodeType, Valid(x), Apart(eps, x)
  PROVE  Apart(new, x)
<1> DEFINE a == range.start
           b == range.stop
           L == Len(eps)
<1>1. PICK p \in 1 .. L : StandsAt(eps, x, p)
  BY DEF Apart
<1>2. /\ k \in 1 .. L + 1 /\ L \in Nat /\ N \in Nat /\ x.first \in 1 .. N /\ x.last \in 1 .. N
      /\ x.first <= x.last
  BY LenProperties, MicroEventAt DEF RepairCase, Exchanged, Valid
<1>3. /\ \A q \in 1 .. L : /\ eps[q].first \in 1 .. N /\ eps[q].last \in 1 .. N
                           /\ eps[q].first <= eps[q].last
      /\ \A q \in 1 .. L : (q < p => eps[q].last < x.first) /\ (p < q => x.last < eps[q].first)
      /\ eps[p].first = x.first /\ eps[p].last = x.last
  BY <1>1 DEF AllValid, Valid, StandsAt
<1> HIDE DEF L
<1>4. CASE AtGap(eps, k, range)
  <2>1. a = k /\ b = k - 1 /\ target.first = StartOf(eps, k)
        /\ (k \in 1 .. L => target.last = eps[k].first - 1)
    BY <1>2, <1>4 DEF AtGap, L
  <2>2. p \notin a .. b
    BY <1>2, <2>1
  <2>3. ASSUME p < a PROVE x.last < target.first
    <3>1. PICK j \in 1 .. L : k = j + 1
      <4>1. k - 1 \in 1 .. L /\ k = (k - 1) + 1
        BY <1>2, <2>1, <2>3
      <4> QED BY <4>1
    <3>2. StartOf(eps, k) = eps[j].last + 1
      <4>1. j \in Nat \ {0} /\ k \in Nat
        BY <1>2, <3>1
      <4> QED BY <3>1, <4>1, InPlaceAfter
    <3>3. p = j \/ p < j
      BY <1>2, <2>1, <2>3, <3>1
    <3>4. eps[j].last >= x.last
      BY <1>2, <1>3, <3>3
    <3> QED BY <1>2, <1>3, <2>1, <3>2, <3>4
  <2>4. ASSUME p > b PROVE target.last < x.first
    <3>1. k \in 1 .. L /\ (p = k \/ k < p)
      BY <1>2, <2>1, <2>4
    <3>2. eps[k].first <= x.first
      BY <1>2, <1>3, <3>1
    <3> QED BY <1>2, <1>3, <2>1, <3>1, <3>2
  <2> QED BY <1>1, <2>2, <2>3, <2>4, ApartKept
<1>5. CASE AtOverlap(eps, k, range)
  <2>1. /\ k \in 1 .. L /\ a \in 1 .. k - 1 /\ a \in 1 .. L /\ b = k /\ target.first = eps[a].first
        /\ target.last = (IF eps[a].last >= eps[k].last THEN eps[a].last ELSE eps[k].last)
        /\ eps[a].last >= eps[k].first
    BY <1>2, <1>5 DEF AtOverlap, L
  <2>2. p \notin a .. b
    <3>1. ASSUME p \in a .. b PROVE FALSE
      <4>1. p = a \/ a < p
        BY <1>2, <2>1, <3>1
      <4>2. p = k \/ p < k
        BY <1>2, <2>1, <3>1
      <4>3. CASE p = a
        <5>1. x.last < eps[k].first
          BY <1>2, <1>3, <2>1, <4>3
        <5> QED BY <1>2, <1>3, <2>1, <4>3, <5>1
      <4>4. CASE a < p
        <5>1. eps[a].last < x.first
          BY <1>3, <2>1, <4>4
        <5>2. x.first <= eps[k].first
          BY <1>2, <1>3, <2>1, <4>2
        <5> QED BY <1>2, <1>3, <2>1, <5>1, <5>2
      <4> QED BY <4>1, <4>3, <4>4
    <3> QED BY <3>1
  <2>3. ASSUME p < a PROVE x.last < target.first
    BY <1>3, <2>1, <2>3
  <2>4. ASSUME p > b PROVE target.last < x.first
    <3>1. a < p /\ k < p
      BY <1>2, <2>1, <2>4
    <3> QED BY <1>3, <2>1, <3>1
  <2> QED BY <1>1, <2>2, <2>3, <2>4, ApartKept
<1>6. ~AtUnknown(eps, k, range)
  BY DEF AtUnknown, AllValid
<1> QED BY <1>4, <1>5, <1>6 DEF RepairCase

(* So does an arrangement.                                                      *)
LEMMA ApartArranged ==
  ASSUME NEW eps \in Seq(EpisodeType), NEW new \in Seq(EpisodeType), Outline(new) = Outline(eps)
  PROVE  /\ AllValid(eps) => AllValid(new)
         /\ \A x : Apart(eps, x) => Apart(new, x)
<1>1. /\ Len(new) = Len(eps)
      /\ \A k \in 1 .. Len(eps) :
           /\ new[k].id = eps[k].id /\ new[k].first = eps[k].first /\ new[k].last = eps[k].last
           /\ Valid(new[k]) <=> Valid(eps[k])
  BY SameOutlineSame
<1>2. AllValid(eps) => AllValid(new)
  BY <1>1 DEF AllValid
<1>3. ASSUME NEW x, NEW p \in 1 .. Len(eps), StandsAt(eps, x, p) PROVE StandsAt(new, x, p)
  BY <1>1, <1>3 DEF StandsAt
<1> QED BY <1>1, <1>2, <1>3 DEF Apart

-----------------------------------------------------------------------------
(* The episodes still to be split are episodes of the draft that still stand as *)
(* they were given.                                                             *)
Open(tgts) == {tgts[i].id : i \in 1 .. Len(tgts)}
Standing(tgts, eps, from) ==
  /\ \A i \in 1 .. Len(tgts) :
       /\ \E p \in 1 .. Len(eps) : eps[p] = tgts[i]
       /\ tgts[i] \in ToSet(from) /\ Overbroad(tgts[i]) /\ Len(tgts[i].id) = 2
       /\ \A k \in 1 .. Len(eps) : ~Extends(eps[k].id, tgts[i].id)
  /\ Once(tgts)
AllGiven(eps) == \A k \in 1 .. Len(eps) : eps[k].id[1] = 0
Kept(eps, from) ==
  (\A x \in ToSet(from) : Valid(x)) =>
    /\ AllValid(eps)
    /\ \A x \in ToSet(from) : Alone(x, from) => Apart(eps, x)

(* The broad episodes of a draft, in its order.                                 *)
LEMMA BroadEpisodesAre ==
  ASSUME NEW eps \in Seq(EpisodeType), Once(eps)
  PROVE  LET tgts == BroadEpisodes(eps)
         IN  /\ tgts \in Seq(EpisodeType) /\ Once(tgts)
             /\ \A i \in 1 .. Len(tgts) : Overbroad(tgts[i]) /\ \E p \in 1 .. Len(eps) : eps[p] = tgts[i]
<1> DEFINE S == {k \in DOMAIN eps : Overbroad(eps[k])}
           broad == Chosen(eps, S)
           m == Min({Len(broad), MaxEpisodeRepairs})
           new == BroadEpisodes(eps)
<1>1. DOMAIN eps = 1 .. Len(eps) /\ S \subseteq 1 .. Len(eps) /\ Len(eps) \in Nat
  BY LenProperties
<1>2. \A k \in S : Overbroad(eps[k]) /\ k \in 1 .. Len(eps) /\ k \in Nat
  BY <1>1
<1>3. new = SubSeq(broad, 1, m)
  BY DEF BroadEpisodes
<1> HIDE DEF S, new
<1>4. broad \in Seq(EpisodeType) /\ Picks(eps, S)
  BY <1>1, ChosenEntries
<1> HIDE DEF broad
<1>5. m \in 0 .. Len(broad) /\ m \in Nat
  <2>1. Len(broad) \in Nat
    BY <1>4, LenProperties
  <2>2. {Len(broad), MaxEpisodeRepairs} \subseteq Nat /\ {Len(broad), MaxEpisodeRepairs} # {}
    BY <2>1, LimitsAreNumbers
  <2>3. m \in {Len(broad), MaxEpisodeRepairs} /\ \A y \in {Len(broad), MaxEpisodeRepairs} : m <= y
    BY <2>2, MinOf
  <2> HIDE DEF m
  <2> QED BY <2>1, <2>2, <2>3
<1> HIDE DEF m
<1>6. new \in Seq(EpisodeType) /\ Len(new) = m /\ \A i \in 1 .. m : new[i] = broad[i]
  <2>1. \A k \in 1 .. m : broad[k] \in EpisodeType
    BY <1>4, <1>5, ElementOfSeq
  <2>2. 1 \in Int /\ m \in Int
    BY <1>5
  <2>3. /\ SubSeq(broad, 1, m) \in Seq(EpisodeType)
        /\ Len(SubSeq(broad, 1, m)) = IF 1 <= m THEN m - 1 + 1 ELSE 0
        /\ \A i \in 1 .. m - 1 + 1 : SubSeq(broad, 1, m)[i] = broad[1 + i - 1]
    BY <2>1, <2>2, SubSeqProperties
  <2> QED BY <1>3, <1>5, <2>3
<1>7. Len(broad) = Cardinality(S) /\ Cardinality(S) \in Nat
  BY <1>4 DEF Picks, broad
<1>8. ASSUME NEW i \in 1 .. m
      PROVE  /\ i \in 1 .. Cardinality(S) /\ i \in Nat
             /\ InOrder(S)[i] \in S /\ new[i] = eps[InOrder(S)[i]]
  <2>1. i \in 1 .. Cardinality(S) /\ i \in Nat
    BY <1>5, <1>7
  <2>2. InOrder(S)[i] \in S /\ broad[i] = eps[InOrder(S)[i]]
    BY <1>4, <2>1 DEF Picks, broad
  <2> QED BY <1>6, <2>1, <2>2
<1>9. \A i, j \in 1 .. Cardinality(S) : i < j => InOrder(S)[i] < InOrder(S)[j]
  BY <1>4 DEF Picks
<1>10. ASSUME NEW i \in 1 .. m, NEW j \in 1 .. m, new[i].id = new[j].id PROVE i = j
  <2>1. PICK a \in S, b \in S : a = InOrder(S)[i] /\ b = InOrder(S)[j] /\ new[i] = eps[a] /\ new[j] = eps[b]
    BY <1>8
  <2>2. a = b /\ a \in Nat
    BY <1>2, <1>10, <2>1 DEF Once
  <2>3. ~(i < j)
    <3>1. i < j => a < b
      BY <1>8, <1>9, <2>1
    <3> QED BY <2>2, <3>1
  <2>4. ~(j < i)
    <3>1. j < i => b < a
      BY <1>8, <1>9, <2>1
    <3> QED BY <2>2, <3>1
  <2> QED BY <1>8, <2>3, <2>4
<1>11. \A i \in 1 .. m : Overbroad(new[i]) /\ \E p \in 1 .. Len(eps) : eps[p] = new[i]
  BY <1>2, <1>8
<1> QED BY <1>6, <1>10, <1>11 DEF Once, new

(* A draft under ids that the model gives.                                      *)
LEMMA DraftSound ==
  ASSUME NEW raw \in CompositionType, raw.episodes # <<>>, NEW eps,
         eps = Normalized(raw).episodes, \A x \in ToSet(eps) : IsGiven(x.id)
  PROVE  /\ Once(eps) /\ Families(eps) /\ Recoveries(eps) /\ AllGiven(eps)
         /\ Standing(BroadEpisodes(eps), eps, eps)
         /\ Work(eps, Open(BroadEpisodes(eps))) <= RepairsNeeded(eps)
         /\ Kept(eps, eps)
<1> DEFINE first == FirstOfEachId(raw.episodes)
           tgts == BroadEpisodes(eps)
<1>1. eps \in Seq(EpisodeType)
  BY NormalizedDraft, CompositionFields
<1>2. raw.episodes \in Seq(EpisodeType)
  BY CompositionFields
<1>3. first \in Seq(EpisodeType) /\ Once(first)
  BY <1>2, FirstOfEachIdKeeps, FirstOfEachIdOnce
<1>4. eps = SortedByStart(first)
  BY DEF Normalized
<1> HIDE DEF first
<1>5. Once(eps) /\ ByStart(eps)
  BY <1>3, <1>4, SortedOnce
<1>6. ToSet(eps) = {eps[k] : k \in 1 .. Len(eps)}
  BY <1>1, ToSetOf
<1>7. \A k \in 1 .. Len(eps) : Len(eps[k].id) = 2 /\ eps[k].id[1] = 0
  BY <1>6 DEF IsGiven
<1>8. \A j, k \in 1 .. Len(eps) : ~Extends(eps[k].id, eps[j].id)
  BY <1>7 DEF Extends
<1>9. Families(eps)
  BY <1>5, <1>8 DEF Once, Families
<1>10. Recoveries(eps)
  <2>1. \A q \in 1 .. Len(eps) : Len(eps[q].id) >= 2 /\ ~(eps[q].id[1] = 1)
    BY <1>7
  <2> QED BY <2>1 DEF Recoveries
<1>11. /\ Once(tgts) /\ tgts \in Seq(EpisodeType)
       /\ \A i \in 1 .. Len(tgts) : Overbroad(tgts[i]) /\ \E p \in 1 .. Len(eps) : eps[p] = tgts[i]
  BY <1>1, <1>5, BroadEpisodesAre
<1> HIDE DEF tgts
<1>12. Standing(tgts, eps, eps)
  BY <1>6, <1>7, <1>8, <1>11 DEF Standing
<1>13. ASSUME NEW k \in 1 .. Len(eps), eps[k].id \in Open(tgts) PROVE Overbroad(eps[k])
  <2>1. PICK i \in 1 .. Len(tgts) : eps[k].id = tgts[i].id
    BY <1>13 DEF Open
  <2>2. PICK p \in 1 .. Len(eps) : eps[p] = tgts[i]
    BY <1>11
  <2>3. p = k
    BY <1>5, <2>1, <2>2 DEF Once
  <2> QED BY <1>11, <2>2, <2>3
<1>14. Work(eps, Open(tgts)) <= RepairsNeeded(eps)
  BY <1>1, <1>13, WorkOfDraft
<1>15. Kept(eps, eps)
  <2> SUFFICES ASSUME \A x \in ToSet(eps) : Valid(x)
               PROVE  AllValid(eps) /\ \A x \in ToSet(eps) : Alone(x, eps) => Apart(eps, x)
    BY DEF Kept
  <2>1. AllValid(eps)
    BY <1>6 DEF AllValid
  <2> QED BY <1>1, <1>5, <2>1, SortedApart
<1> QED BY <1>5, <1>7, <1>9, <1>10, <1>12, <1>14, <1>15 DEF AllGiven, tgts

(* The first of the episodes still to be split, and the others.                 *)
LEMMA HeadOfStanding ==
  ASSUME NEW tgts \in Seq(EpisodeType), tgts # <<>>, NEW eps, NEW from, Standing(tgts, eps, from)
  PROVE  /\ Standing(Tail(tgts), eps, from) /\ Tail(tgts) \in Seq(EpisodeType)
         /\ \E p \in 1 .. Len(eps) : eps[p] = Head(tgts)
         /\ Head(tgts) \in ToSet(from) /\ Overbroad(Head(tgts)) /\ Len(Head(tgts).id) = 2
         /\ \A k \in 1 .. Len(eps) : ~Extends(eps[k].id, Head(tgts).id)
         /\ Open(Tail(tgts)) \subseteq Open(tgts) /\ Head(tgts).id \in Open(tgts)
         /\ Head(tgts).id \notin Open(Tail(tgts))
<1> DEFINE rest == Tail(tgts)
<1>1. /\ rest \in Seq(EpisodeType) /\ Len(rest) = Len(tgts) - 1
      /\ \A i \in 1 .. Len(rest) : rest[i] = tgts[i + 1]
  BY HeadTailProperties
<1>2. Len(tgts) \in Nat \ {0}
  BY LenProperties, EmptySeq
<1>3. 1 \in 1 .. Len(tgts) /\ Head(tgts) = tgts[1]
  BY <1>2
<1> HIDE DEF rest
<1>4. ASSUME NEW i \in 1 .. Len(rest)
      PROVE  \E j \in 1 .. Len(tgts) : j # 1 /\ j = i + 1 /\ rest[i] = tgts[j]
  BY <1>1, <1>2
<1>5. Once(rest)
  <2> SUFFICES ASSUME NEW i \in 1 .. Len(rest), NEW j \in 1 .. Len(rest), rest[i].id = rest[j].id
               PROVE  i = j
    BY DEF Once
  <2>1. PICK a \in 1 .. Len(tgts) : a = i + 1 /\ rest[i] = tgts[a]
    BY <1>4
  <2>2. PICK b \in 1 .. Len(tgts) : b = j + 1 /\ rest[j] = tgts[b]
    BY <1>4
  <2>3. a = b
    BY <2>1, <2>2 DEF Standing, Once
  <2> QED BY <1>1, <1>2, <2>1, <2>2, <2>3
<1>6. Standing(rest, eps, from)
  BY <1>4, <1>5 DEF Standing
<1>7. Open(rest) \subseteq Open(tgts) /\ tgts[1].id \in Open(tgts)
  BY <1>3, <1>4 DEF Open
<1>8. tgts[1].id \notin Open(rest)
  <2>1. ASSUME NEW i \in 1 .. Len(rest), tgts[1].id = rest[i].id PROVE FALSE
    <3>1. PICK j \in 1 .. Len(tgts) : j # 1 /\ rest[i] = tgts[j]
      BY <1>4
    <3>2. Once(tgts)
      BY DEF Standing
    <3> QED BY <1>3, <2>1, <3>1, <3>2 DEF Once
  <2> QED BY <2>1 DEF Open
<1> QED BY <1>1, <1>3, <1>6, <1>7, <1>8 DEF Standing, rest

(* The ids still to be split are those of valid episodes.                       *)
LEMMA OpenAreValid ==
  ASSUME NEW eps, NEW tgts, NEW from, Once(eps), Standing(tgts, eps, from)
  PROVE  \A k \in 1 .. Len(eps) : eps[k].id \in Open(tgts) => Valid(eps[k])
<1> SUFFICES ASSUME NEW k \in 1 .. Len(eps), eps[k].id \in Open(tgts) PROVE Valid(eps[k])
  OBVIOUS
<1>1. PICK i \in 1 .. Len(tgts) : eps[k].id = tgts[i].id
  BY DEF Open
<1>2. PICK p \in 1 .. Len(eps) : eps[p] = tgts[i]
  BY DEF Standing
<1>3. p = k
  BY <1>1, <1>2 DEF Once
<1> QED BY <1>2, <1>3 DEF Standing, Overbroad

(* An episode that stays as it is.                                              *)
LEMMA KeepSound ==
  ASSUME NEW eps \in Seq(EpisodeType), NEW tgts \in Seq(EpisodeType), tgts # <<>>, NEW from,
         Families(eps), Standing(tgts, eps, from)
  PROVE  /\ Standing(Tail(tgts), eps, from)
         /\ Work(eps, Open(Tail(tgts))) <= Work(eps, Open(tgts))
<1>1. Standing(Tail(tgts), eps, from) /\ Open(Tail(tgts)) \in SUBSET Open(tgts)
  BY HeadOfStanding
<1>2. Once(eps)
  BY DEF Families, Once
<1>3. \A k \in 1 .. Len(eps) : eps[k].id \in Open(tgts) => Valid(eps[k])
  BY <1>2, OpenAreValid
<1> QED BY <1>1, <1>3, FewerTargets

-----------------------------------------------------------------------------
(* An exchange has only what was there, and the parts.                          *)
Mixes(new, eps, parts) ==
  \A q \in 1 .. Len(new) : \/ \E k \in 1 .. Len(eps) : new[q] = eps[k]
                           \/ \E k \in 1 .. Len(parts) : new[q] = parts[k]

(* Whatever stands somewhere after an exchange, and where, is one or the other. *)
LEMMA ExchangeMembers ==
  ASSUME NEW eps, NEW a, NEW b, NEW parts, NEW target, NEW new,
         Exchanged(eps, a, b, parts, target, new)
  PROVE  Mixes(new, eps, parts)
<1> SUFFICES ASSUME NEW q \in 1 .. Len(new)
             PROVE  \/ \E k \in 1 .. Len(eps) : new[q] = eps[k]
                    \/ \E k \in 1 .. Len(parts) : new[q] = parts[k]
  BY DEF Mixes
<1>1. \/ q \in 1 .. a - 1 /\ q \in 1 .. Len(eps) /\ new[q] = eps[q]
      \/ \E k \in 1 .. Len(parts) : q = a - 1 + k /\ new[q] = parts[k]
      \/ \E o \in b + 1 .. Len(eps) :
           q = o - b + a - 1 + Len(parts) /\ o \in 1 .. Len(eps) /\ new[q] = eps[o]
  BY ExchangeAt
<1> QED BY <1>1

(* A split leaves every other one where it stands. *)
LEMMA ApartSplitAt ==
  ASSUME NEW eps, NEW a, NEW b, NEW parts, NEW e, NEW new, Exchanged(eps, a, b, parts, e, new),
         a = b, a \in 1 .. Len(eps), e = eps[a], NEW x, x \in EpisodeType, Apart(eps, x),
         x.id # e.id
  PROVE  Apart(new, x)
<1>1. PICK p \in 1 .. Len(eps) : StandsAt(eps, x, p)
  BY DEF Apart
<1>2. p \notin a .. b
  <2>1. p # a
    BY <1>1 DEF StandsAt
  <2> QED BY <2>1
<1>3. (p < a => x.last < e.first) /\ (p > b => e.last < x.first)
  BY <1>1 DEF StandsAt
<1> QED BY <1>1, <1>2, <1>3, ApartKept

(* Episode e is replaced by its parts.                                          *)
SplitsAt(eps, parts, e, new) ==
  \E a \in 1 .. Len(eps) : Exchanged(eps, a, a, parts, e, new) /\ e = eps[a]

(* A split of a broad episode keeps those of the draft that stand alone.        *)
LEMMA KeptSplit ==
  ASSUME NEW eps, NEW parts, NEW e, NEW new, SplitsAt(eps, parts, e, new),
         NEW from, from \in Seq(EpisodeType), Once(from),
         e \in ToSet(from), Overbroad(e), Kept(eps, from)
  PROVE  Kept(new, from)
<1> PICK a \in 1 .. Len(eps) : Exchanged(eps, a, a, parts, e, new) /\ e = eps[a]
  BY DEF SplitsAt
<1> SUFFICES ASSUME \A x \in ToSet(from) : Valid(x)
             PROVE  AllValid(new) /\ \A x \in ToSet(from) : Alone(x, from) => Apart(new, x)
  BY DEF Kept
<1>1. AllValid(eps) /\ \A x \in ToSet(from) : Alone(x, from) => Apart(eps, x)
  BY DEF Kept
<1>2. AllValid(new)
  BY <1>1, ValidKept
<1>3. ToSet(from) = {from[k] : k \in 1 .. Len(from)} /\ ToSet(from) \subseteq EpisodeType
  BY ToSetOf
<1>4. ASSUME NEW x \in ToSet(from), Alone(x, from) PROVE Apart(new, x)
  <2>1. x # e
    BY <1>4 DEF Alone
  <2>2. x.id # e.id
    BY <1>3, <2>1 DEF Once
  <2> QED BY <1>1, <1>3, <1>4, <2>2, ApartSplitAt
<1> QED BY <1>2, <1>4

(* A split of the first of the episodes still to be split.                      *)
LEMMA SplitSound ==
  ASSUME NEW comp \in CompositionType, NEW from \in Seq(EpisodeType), Once(from),
         NEW tgts \in Seq(EpisodeType), tgts # <<>>, Standing(tgts, comp.episodes, from),
         Families(comp.episodes), Recoveries(comp.episodes), AllGiven(comp.episodes),
         Kept(comp.episodes, from),
         NEW cuts \in Cuts(Head(tgts)), NEW looks \in [DOMAIN Stretches(Head(tgts), cuts) -> Looking], NEW new,
         new = SplitEpisode(PartsOf(Head(tgts), cuts, looks), comp).episodes
  PROVE  /\ Families(new) /\ Recoveries(new) /\ AllGiven(new)
         /\ Standing(Tail(tgts), new, from) /\ Kept(new, from)
         /\ Work(new, Open(Tail(tgts))) <= Work(comp.episodes, Open(tgts))
<1> DEFINE eps == comp.episodes
           h == Head(tgts)
           parts == PartsOf(h, cuts, looks)
<1>1. eps \in Seq(EpisodeType) /\ Len(eps) \in Nat
  BY CompositionFields
<1>2. /\ Standing(Tail(tgts), eps, from) /\ Tail(tgts) \in Seq(EpisodeType)
      /\ h \in ToSet(from) /\ Overbroad(h) /\ Len(h.id) = 2
      /\ \A k \in 1 .. Len(eps) : ~Extends(eps[k].id, h.id)
      /\ Open(Tail(tgts)) \in SUBSET Open(tgts) /\ h.id \in Open(tgts) /\ h.id \notin Open(Tail(tgts))
  BY HeadOfStanding
<1>3. PICK p \in 1 .. Len(eps) : eps[p] = h
  BY HeadOfStanding
<1>4. Valid(h) /\ Repairable(h) /\ h.id \in Seq(Nat)
  <2>1. Valid(h)
    BY <1>2 DEF Overbroad
  <2> QED BY <1>1, <1>3, <2>1, EpisodeAt DEF Repairable, Valid
<1>5. Replacement(parts, h.id) /\ Divided(parts, h) /\ Family(parts, h.id)
  BY <1>4, PartsOfTarget, PartsInOrder
<1>6. new = SplitEpisode(parts, comp).episodes
  OBVIOUS
<1>7. \A j, k \in 1 .. Len(eps) : eps[j].id = eps[k].id => j = k
  BY DEF Families
<1> HIDE DEF parts
<1>8. Exchange(eps, p, p, parts, new)
  BY <1>3, <1>5, <1>6, <1>7, SplitEntries
<1> HIDE DEF eps, h
<1>9. Exchanged(eps, p, p, parts, h, new)
  <2>1. p \in 1 .. Len(eps) + 1 /\ p \in p - 1 .. Len(eps)
    BY <1>1
  <2> QED BY <1>1, <1>4, <1>5, <1>8, <2>1 DEF Exchanged
<1>10. \A k \in 1 .. Len(eps) : eps[k].id \in Seq(Nat) /\ Len(eps[k].id) >= 2 /\ eps[k].id[1] = 0
                               /\ Len(eps[k].id) \in Nat
  BY <1>1, EpisodeAt, LenProperties DEF Recoveries, AllGiven, eps
<1>11. \A k \in 1 .. Len(eps) : ~Extends(h.id, eps[k].id)
  BY <1>2, <1>10 DEF Extends
<1>12. \A q \in 1 .. Len(eps) : q \notin p .. p => q # p
  BY <1>3
<1>13. Detached(eps, p, p, h)
  <2>1. ASSUME NEW i \in 1 .. p - 1, NEW q \in p + 1 .. Len(eps), Extends(eps[q].id, eps[i].id)
        PROVE  FALSE
    <3>1. i \in 1 .. Len(eps) /\ q \in 1 .. Len(eps) /\ p \in i + 1 .. q
      BY <1>1, <1>3
    <3>2. Extends(eps[p].id, eps[i].id)
      BY <2>1, <3>1 DEF Families, eps
    <3> QED BY <1>3, <1>11, <3>1, <3>2
  <2>2. ASSUME NEW q \in 1 .. Len(eps), q \notin p .. p
        PROVE  eps[q].id # h.id /\ ~Extends(eps[q].id, h.id)
    BY <1>2, <1>3, <1>7, <1>12, <2>2 DEF eps
  <2> QED BY <1>11, <2>1, <2>2 DEF Detached
<1>14. h.id[1] = 0
  BY <1>3, <1>10
<1>15. Derived(eps, p, p, h)
  <2>1. \A q \in p + 1 .. Len(eps) : q \in 1 .. Len(eps)
    BY <1>1, <1>3
  <2>2. \A q \in p + 1 .. Len(eps) : ~(eps[q].id[1] = 1)
    BY <1>10, <2>1
  <2>3. Len(h.id) >= 2 /\ ~(h.id[1] = 1)
    BY <1>2, <1>14
  <2> QED BY <2>2, <2>3 DEF Derived
<1>16. Families(new)
  BY <1>9, <1>13, FamiliesKept DEF eps
<1>17. Recoveries(new)
  BY <1>9, <1>15, RecoveriesKept DEF eps
<1>18. \A k \in 1 .. Len(parts) : /\ parts[k].id \in Seq(Nat) /\ h.id \in Seq(Nat)
                                  /\ parts[k].id = h.id \/ Extends(parts[k].id, h.id)
  BY <1>9, PartId
<1>19. /\ new \in Seq(EpisodeType)
       /\ \A q \in 1 .. Len(new) : \/ \E k \in 1 .. Len(eps) : new[q] = eps[k]
                                   \/ \E k \in 1 .. Len(parts) : new[q] = parts[k]
  <2>1. new \in Seq(EpisodeType)
    BY <1>8 DEF Exchange
  <2>2. Mixes(new, eps, parts)
    BY <1>9, ExchangeMembers
  <2> QED BY <2>1, <2>2 DEF Mixes
<1>20. AllGiven(new)
  <2>1. ASSUME NEW k \in 1 .. Len(parts) PROVE parts[k].id[1] = 0
    <3>1. CASE parts[k].id = h.id
      BY <1>14, <3>1
    <3>2. CASE Extends(parts[k].id, h.id)
      <4>1. 1 \in 1 .. Len(h.id)
        BY <1>2
      <4> QED BY <1>14, <3>2, <4>1 DEF Extends
    <3> QED BY <1>18, <3>1, <3>2
  <2>2. \A k \in 1 .. Len(eps) : eps[k].id[1] = 0
    BY <1>10
  <2>3. ASSUME NEW q \in 1 .. Len(new) PROVE new[q].id[1] = 0
    <3>1. CASE \E k \in 1 .. Len(eps) : new[q] = eps[k]
      <4> PICK k \in 1 .. Len(eps) : new[q] = eps[k]
        BY <3>1
      <4> QED BY <2>2, Zenon
    <3>2. CASE \E k \in 1 .. Len(parts) : new[q] = parts[k]
      <4> PICK k \in 1 .. Len(parts) : new[q] = parts[k]
        BY <3>2
      <4> QED BY <2>1, Zenon
    <3> QED BY <1>19, <3>1, <3>2, Zenon
  <2> QED BY <2>3, Zenon DEF AllGiven
<1>21. Standing(Tail(tgts), new, from)
  <2> DEFINE rest == Tail(tgts)
  <2> SUFFICES ASSUME NEW i \in 1 .. Len(rest)
               PROVE  /\ \E r \in 1 .. Len(new) : new[r] = rest[i]
                      /\ \A k \in 1 .. Len(new) : ~Extends(new[k].id, rest[i].id)
    BY <1>2 DEF Standing
  <2>1. PICK o \in 1 .. Len(eps) : eps[o] = rest[i]
    BY <1>2 DEF Standing
  <2>2. /\ Len(rest[i].id) = 2 /\ rest[i].id \in Seq(Nat)
        /\ \A k \in 1 .. Len(eps) : ~Extends(eps[k].id, rest[i].id)
    BY <1>2, <1>10, <2>1 DEF Standing
  <2>3. rest[i].id # h.id
    BY <1>2 DEF Open
  <2>4. o # p
    BY <1>3, <2>1, <2>3
  <2>5. \E r \in 1 .. Len(new) : new[r] = eps[o]
    <3>1. /\ Len(new) = p - 1 + Len(parts) + Len(eps) - p /\ Len(parts) \in Nat
          /\ \A k \in 1 .. p - 1 : new[k] = eps[k]
          /\ \A k \in p + 1 .. Len(eps), r \in 1 .. Len(new) :
               r = k - p + p - 1 + Len(parts) => new[r] = eps[k]
      BY <1>5, <1>8, LenProperties DEF Exchange, Replacement
    <3>2. CASE o < p
      <4>1. o \in 1 .. p - 1 /\ o \in 1 .. Len(new)
        BY <1>1, <1>3, <3>1, <3>2
      <4> QED BY <3>1, <4>1
    <3>3. CASE o > p
      <4>1. PICK r \in 1 .. Len(new) : r = o - p + p - 1 + Len(parts)
        <5>1. o - p + p - 1 + Len(parts) \in 1 .. Len(new)
          BY <1>1, <1>3, <3>1, <3>3
        <5> QED BY <5>1
      <4>2. o \in p + 1 .. Len(eps)
        BY <1>1, <1>3, <3>3
      <4> QED BY <3>1, <4>1, <4>2
    <3> QED BY <1>1, <2>4, <3>2, <3>3
  <2>6. ASSUME NEW k \in 1 .. Len(parts), Extends(parts[k].id, rest[i].id) PROVE FALSE
    <3>1. rest[i].id = h.id \/ Extends(rest[i].id, h.id) \/ Extends(h.id, rest[i].id)
      BY <1>18, <2>2, <2>6, ExtendsBoth
    <3>2. ~(2 > 2)
      OBVIOUS
    <3>3. ~Extends(rest[i].id, h.id) /\ ~Extends(h.id, rest[i].id)
      BY <1>2, <2>2, <3>2 DEF Extends
    <3> QED BY <2>3, <3>1, <3>3
  <2> QED BY <1>19, <2>1, <2>2, <2>5, <2>6
<1>22. \A k \in 1 .. Len(parts) : parts[k].id \notin Open(Tail(tgts))
  <2> SUFFICES ASSUME NEW k \in 1 .. Len(parts), NEW i \in 1 .. Len(Tail(tgts)),
                      parts[k].id = Tail(tgts)[i].id
               PROVE  FALSE
    BY DEF Open
  <2>1. Len(Tail(tgts)[i].id) = 2
    BY <1>2 DEF Standing
  <2>2. parts[k].id # h.id
    BY <1>2 DEF Open
  <2>3. Extends(parts[k].id, h.id)
    BY <1>18, <2>2
  <2>4. Len(parts[k].id) = 2 /\ Len(h.id) = 2 /\ ~(2 > 2)
    BY <1>2, <2>1
  <2> QED BY <2>3, <2>4 DEF Extends
<1>23. Work(new, Open(Tail(tgts))) <= Work(eps, Open(tgts))
  <2>1. \A k \in 1 .. Len(eps) : eps[k].id \in Open(tgts) => Valid(eps[k])
    BY <1>7, OpenAreValid DEF Once, eps
  <2> QED BY <1>2, <1>3, <1>4, <1>9, <1>22, <2>1, SplitWorks
<1>24. Kept(new, from)
  <2>1. SplitsAt(eps, parts, h, new)
    <3>1. p \in 1 .. Len(eps) /\ h = eps[p]
      BY <1>3
    <3> QED BY <1>9, <3>1 DEF SplitsAt
  <2>2. h \in ToSet(from) /\ Overbroad(h) /\ Once(from) /\ from \in Seq(EpisodeType)
    BY <1>2
  <2>3. Kept(eps, from)
    BY DEF eps
  <2> QED BY <2>1, <2>2, <2>3, KeptSplit
<1> QED BY <1>16, <1>17, <1>20, <1>21, <1>23, <1>24 DEF eps

(* The episodes of a range are replaced by the parts of a target.               *)
RepairsAt(eps, range, parts, target, new) ==
  /\ \E k \in 1 .. Len(eps) + 1 : RepairCase(eps, k, range)
  /\ Exchanged(eps, range.start, range.stop, parts, target, new)
  /\ target.first = range.from /\ target.last = range.to

(* A repair keeps the episodes of the draft that stand alone.                   *)
LEMMA KeptRepaired ==
  ASSUME NEW eps, NEW range, NEW parts, NEW target, NEW new,
         RepairsAt(eps, range, parts, target, new), NEW from, from \in Seq(EpisodeType),
         Kept(eps, from)
  PROVE  Kept(new, from)
<1> SUFFICES ASSUME \A x \in ToSet(from) : Valid(x)
             PROVE  AllValid(new) /\ \A x \in ToSet(from) : Alone(x, from) => Apart(new, x)
  BY DEF Kept
<1>1. AllValid(eps) /\ \A x \in ToSet(from) : Alone(x, from) => Apart(eps, x)
  BY DEF Kept
<1>2. PICK k \in 1 .. Len(eps) + 1 : RepairCase(eps, k, range)
  BY DEF RepairsAt
<1>3. /\ Exchanged(eps, range.start, range.stop, parts, target, new)
      /\ target.first = range.from /\ target.last = range.to
  BY DEF RepairsAt
<1>4. AllValid(new)
  BY <1>1, <1>3, ValidKept
<1>5. ToSet(from) \subseteq EpisodeType
  BY ToSetOf
<1>6. ASSUME NEW x \in ToSet(from), Alone(x, from) PROVE Apart(new, x)
  <2>1. x \in EpisodeType /\ Valid(x) /\ Apart(eps, x)
    BY <1>1, <1>5, <1>6
  <2> QED BY <1>1, <1>2, <1>3, <2>1, ApartRepaired
<1> QED BY <1>4, <1>6

(* A repair, by the model or without it.                                        *)
LEMMA RepairSound ==
  ASSUME NEW comp \in CompositionType, comp.episodes # <<>>, ~Covered(comp.episodes),
         NEW index \in Nat, NEW parts, NEW from \in Seq(EpisodeType),
         Families(comp.episodes), Recoveries(comp.episodes), Kept(comp.episodes, from),
         LET target == TargetEpisode(comp.episodes, RepairTarget(comp.episodes), index)
         IN  Replacement(parts, target.id) /\ Divided(parts, target) /\ Family(parts, target.id),
         NEW new, new = ApplyCoverage(comp, RepairTarget(comp.episodes), parts).episodes
  PROVE  /\ Families(new) /\ Recoveries(new) /\ Kept(new, from)
         /\ Work(new, {}) + 1 <= Work(comp.episodes, {})
<1> DEFINE eps == comp.episodes
           range == RepairTarget(eps)
           target == TargetEpisode(eps, range, index)
<1>1. eps \in Seq(EpisodeType) /\ Len(eps) \in Nat
  BY CompositionFields
<1>2. PICK k \in 1 .. Len(eps) + 1 : RepairCase(eps, k, range)
  BY <1>1, RepairTargetIs
<1>3. /\ Exchanged(eps, range.start, range.stop, parts, target, new)
      /\ target.first = range.from /\ target.last = range.to
      /\ target.id = IF Inserts(range) THEN RecoveryId(eps, index) ELSE eps[range.start].id
  BY RepairExchanges
<1>4. Families(eps) /\ Recoveries(eps) /\ Kept(eps, from) /\ ~Covered(eps)
  OBVIOUS
<1> HIDE DEF eps, range, target
<1>5. Detached(eps, range.start, range.stop, target) /\ Derived(eps, range.start, range.stop, target)
  BY <1>1, <1>2, <1>3, <1>4, RepairDetaches
<1>6. Families(new) /\ Recoveries(new)
  BY <1>3, <1>4, <1>5, FamiliesKept, RecoveriesKept
<1>7. Work(new, {}) + 1 <= Work(eps, {})
  BY <1>2, <1>3, <1>4, RepairWorks
<1>8. Kept(new, from)
  <2>1. RepairsAt(eps, range, parts, target, new)
    BY <1>2, <1>3 DEF RepairsAt
  <2> QED BY <1>4, <2>1, KeptRepaired
<1> QED BY <1>6, <1>7, <1>8 DEF eps

(* An arrangement.                                                              *)
LEMMA ArrangeSound ==
  ASSUME NEW comp \in CompositionType, NEW from, Families(comp.episodes), Recoveries(comp.episodes),
         Kept(comp.episodes, from), NEW new, new = Arranged(comp)
  PROVE  /\ Families(new.episodes) /\ Recoveries(new.episodes) /\ Kept(new.episodes, from)
         /\ \A T : Work(new.episodes, T) = Work(comp.episodes, T)
         /\ BlocksHold(new)
<1>1. comp.episodes \in Seq(EpisodeType)
  BY CompositionFields
<1>2. new.episodes \in Seq(EpisodeType) /\ Outline(new.episodes) = Outline(comp.episodes)
  BY ArrangedOutline
<1>3. Families(new.episodes) /\ Recoveries(new.episodes)
  BY <1>1, <1>2, SameOutlineFamilies
<1>4. \A T : Work(new.episodes, T) = Work(comp.episodes, T)
  BY <1>1, <1>2, SameOutlineWorks
<1>5. /\ AllValid(comp.episodes) => AllValid(new.episodes)
      /\ \A x : Apart(comp.episodes, x) => Apart(new.episodes, x)
  BY <1>1, <1>2, ApartArranged
<1>6. Kept(new.episodes, from)
  BY <1>5 DEF Kept
<1>7. BlocksHold(new)
  BY ArrangedBlocksHold DEF Families
<1> QED BY <1>3, <1>4, <1>6, <1>7

-----------------------------------------------------------------------------
(* The inductive invariant.                                                    *)

(* The invariant holds before the first attempt.                             *)
LEMMA InitiallyTimeline == Init => TimelineInvariant
<1> SUFFICES ASSUME Init PROVE TimelineInvariant
  OBVIOUS
<1>1. stage = "composing" /\ stage \in Stages /\ stage \notin Busy
  BY DEF Init, Stages, Busy
<1>2. TypeOK
  <2>1. patching \in [Patchers -> CompositionType]
    BY NothingIs DEF Init
  <2>2. targets \in Seq(EpisodeType)
    BY EmptySeq DEF Init
  <2>3. 0 \in 0 .. MaxCoverageRepairs + FallbackLimit /\ 0 \in 0 .. MaxChanges
    BY LimitsAreNumbers
  <2> QED BY <1>1, <2>1, <2>2, <2>3, NothingIs DEF Init, TypeOK
<1>3. Len(<<>>) = 0
  BY EmptySeq
<1>4. \A i \in 1 .. Len(targets) : Valid(targets[i])
  BY <1>3 DEF Init
<1>5. /\ Resolves(composition.topics, ToSet(Ids(composition.episodes)))
      /\ Plural(given.topics) => Plural(composition.topics)
  BY NothingIs DEF Init
<1>6. WholeOrNothing(stored) /\ WholeOrNothing(orphans) /\ \A p \in Patchers : WholeOrNothing(patching[p])
  BY DEF Init, WholeOrNothing
<1> QED BY <1>1, <1>2, <1>4, <1>5, <1>6 DEF TimelineInvariant

(* What the steps of an attempt have to show: they leave the tables and the    *)
(* requests alone.                                                             *)
AttemptOK ==
  /\ stage \in Stages /\ repairs \in 0 .. MaxCoverageRepairs + FallbackLimit
  /\ composition \in CompositionType /\ given \in CompositionType /\ targets \in Seq(EpisodeType)
  /\ stage \in Busy => composition.episodes # <<>>
  /\ Resolves(composition.topics, ToSet(Ids(composition.episodes)))
  /\ Plural(given.topics) => Plural(composition.topics)
  /\ stage = "validating" => Numbered(composition.blocks)
  /\ \A i \in 1 .. Len(targets) : Valid(targets[i])

TablesOK ==
  /\ stored \in CompositionType /\ orphans \in CompositionType /\ newest \in BOOLEAN
  /\ WholeOrNothing(stored) /\ WholeOrNothing(orphans)

RequestsOK ==
  /\ patches \in 0 .. MaxChanges
  /\ patching \in [Patchers -> CompositionType]
  /\ \A p \in Patchers : WholeOrNothing(patching[p])

(* The invariant, by who changes what: the attempt, the tables, the          *)
(* patches.                                                                  *)
LEMMA PartsOfTheInvariant ==
  TimelineInvariant <=> AttemptOK /\ TablesOK /\ RequestsOK /\ reruns \in 0 .. MaxChanges
BY DEF TimelineInvariant, TypeOK, AttemptOK, TablesOK, RequestsOK

(* The same of the next state.                                               *)
LEMMA PartsOfTheNextInvariant ==
  TimelineInvariant' <=> AttemptOK' /\ TablesOK' /\ RequestsOK' /\ reruns' \in 0 .. MaxChanges
BY DEF TimelineInvariant, TypeOK, AttemptOK, TablesOK, RequestsOK

(* A step that leaves the tables alone keeps what is known of them.          *)
LEMMA UntouchedTables == TablesOK /\ UNCHANGED tables => TablesOK'
BY DEF TablesOK, tables, WholeOrNothing, Nothing

(* A step that leaves the requests alone keeps what is known of them.        *)
LEMMA UntouchedRequests == RequestsOK /\ UNCHANGED requests => RequestsOK'
BY DEF RequestsOK, requests

(* An attempt that gives up is over.                                         *)
LEMMA GivingUp == GivesUp => AttemptOK'
<1> SUFFICES ASSUME GivesUp PROVE AttemptOK'
  OBVIOUS
<1>1. stage' = "failed" /\ composition' = Nothing /\ targets' = <<>> /\ repairs' = 0 /\ given' = Nothing
  BY DEF GivesUp
<1>2. "failed" \in Stages /\ "failed" \notin Busy
  BY DEF Stages, Busy
<1>3. <<>> \in Seq(EpisodeType) /\ Len(<<>>) = 0
  BY EmptySeq
<1>4. 0 \in 0 .. MaxCoverageRepairs + FallbackLimit
  BY LimitsAreNumbers
<1>5. \A i \in 1 .. Len(targets') : Valid(targets'[i])
  BY <1>1, <1>3
<1> QED BY <1>1, <1>2, <1>3, <1>4, <1>5, NothingIs DEF AttemptOK

(* A draft is normalised, and its broad episodes are listed.                 *)
LEMMA ComposeStep == AttemptOK /\ Compose => AttemptOK'
<1> SUFFICES ASSUME AttemptOK, Compose PROVE AttemptOK'
  OBVIOUS
<1>1. PICK raw \in Drafts \cup Redrafts :
        /\ composition' = Normalized(raw) /\ given' = composition'
        /\ targets' = BroadEpisodes(composition'.episodes)
  BY DEF Compose
<1>2. raw \in CompositionType /\ raw.episodes # <<>>
  BY AnswersAssumption
<1>3. /\ composition' \in CompositionType /\ composition'.episodes # <<>>
      /\ Resolves(composition'.topics, ToSet(Ids(composition'.episodes)))
  BY <1>1, <1>2, NormalizedDraft
<1>4. targets' \in Seq(EpisodeType) /\ \A i \in 1 .. Len(targets') : Valid(targets'[i])
  <2>1. composition'.episodes \in Seq(EpisodeType)
    BY <1>3, CompositionFields
  <2> QED BY <1>1, <2>1, BroadEpisodesAreValid
<1>5. stage' = "splitting" /\ repairs' = repairs
  BY DEF Compose
<1>6. "splitting" \in Stages
  BY DEF Stages
<1> QED BY <1>1, <1>3, <1>4, <1>5, <1>6 DEF AttemptOK

(* The next broad episode can be split.                                      *)
LEMMA HeadOfTargets ==
  ASSUME AttemptOK, targets # <<>>
  PROVE  /\ Repairable(Head(targets)) /\ Tail(targets) \in Seq(EpisodeType)
         /\ \A i \in 1 .. Len(Tail(targets)) : Valid(Tail(targets)[i])
<1>1. targets \in Seq(EpisodeType) /\ \A i \in 1 .. Len(targets) : Valid(targets[i])
  BY DEF AttemptOK
<1>2. /\ Tail(targets) \in Seq(EpisodeType) /\ Len(Tail(targets)) = Len(targets) - 1
      /\ \A i \in 1 .. Len(Tail(targets)) : Tail(targets)[i] = targets[i + 1]
  BY <1>1, HeadTailProperties
<1>3. Len(targets) \in Nat \ {0}
  BY <1>1, LenProperties, EmptySeq
<1>4. 1 \in 1 .. Len(targets) /\ Head(targets) = targets[1]
  BY <1>3
<1>5. Repairable(Head(targets))
  BY <1>1, <1>4, EpisodeAt DEF Repairable, Valid
<1>6. \A i \in 1 .. Len(Tail(targets)) : i + 1 \in 1 .. Len(targets)
  BY <1>2, <1>3
<1> QED BY <1>1, <1>2, <1>5, <1>6

(* Splitting or keeping a broad episode preserves the attempt's part.        *)
LEMMA SplittingSteps == AttemptOK /\ (SplitBroad \/ KeepBroad \/ SplittingEnds) => AttemptOK'
<1> SUFFICES ASSUME AttemptOK, SplitBroad \/ KeepBroad \/ SplittingEnds PROVE AttemptOK'
  OBVIOUS
<1>1. stage = "splitting" /\ "splitting" \in Busy /\ composition.episodes # <<>>
  BY DEF SplitBroad, KeepBroad, SplittingEnds, Busy, Stages, AttemptOK
<1>2. CASE SplitBroad
  <2>1. PICK cuts, looks :
          /\ cuts \in Cuts(Head(targets)) /\ looks \in LooksOf(Head(targets), cuts)
          /\ composition' = SplitEpisode(PartsOf(Head(targets), cuts, looks), composition)
    BY <1>2 DEF SplitBroad
  <2>2. targets # <<>> /\ targets' = Tail(targets) /\ UNCHANGED <<stage, repairs, given>>
    BY <1>2 DEF SplitBroad
  <2>3. /\ Repairable(Head(targets)) /\ targets' \in Seq(EpisodeType)
        /\ \A i \in 1 .. Len(targets') : Valid(targets'[i])
    BY <2>2, HeadOfTargets
  <2>4. looks \in [DOMAIN Stretches(Head(targets), cuts) -> Looking]
    BY <2>1, AnswersAssumption DEF LooksOf
  <2>5. Replacement(PartsOf(Head(targets), cuts, looks), Head(targets).id)
    BY <2>1, <2>3, <2>4, PartsOfTarget
  <2>6. Head(targets).id \in Seq(Nat)
    BY <2>3 DEF Repairable
  <2>7. composition \in CompositionType /\ Resolves(composition.topics, ToSet(Ids(composition.episodes)))
    BY DEF AttemptOK
  <2>8. /\ composition' \in CompositionType /\ composition'.episodes # <<>>
        /\ Resolves(composition'.topics, ToSet(Ids(composition'.episodes)))
        /\ Plural(composition.topics) => Plural(composition'.topics)
    BY <1>1, <2>1, <2>5, <2>6, <2>7, SplitEpisodeKeeps
  <2> QED BY <1>1, <2>2, <2>3, <2>8 DEF AttemptOK
<1>3. CASE KeepBroad
  <2>1. targets # <<>> /\ targets' = Tail(targets) /\ UNCHANGED <<stage, composition, repairs, given>>
    BY <1>3 DEF KeepBroad
  <2>2. targets' \in Seq(EpisodeType) /\ \A i \in 1 .. Len(targets') : Valid(targets'[i])
    BY <2>1, HeadOfTargets
  <2> QED BY <1>1, <2>1, <2>2 DEF AttemptOK
<1>4. CASE SplittingEnds
  <2>1. stage' = "covering" /\ UNCHANGED <<composition, targets, repairs, given>>
    BY <1>4 DEF SplittingEnds
  <2>2. "covering" \in Stages
    BY DEF Stages
  <2> QED BY <1>1, <2>1, <2>2 DEF AttemptOK
<1> QED BY <1>2, <1>3, <1>4

(* A repair, by the model or without it. *)
LEMMA RepairStep ==
  ASSUME AttemptOK, ~Covered(composition.episodes), stage \in Busy, stage # "validating",
         NEW index \in Nat, NEW parts, Replacement(parts, Target(index).id),
         composition' = Repaired(parts), repairs' = repairs + 1,
         repairs < MaxCoverageRepairs \/ repairs < FallbackLimit,
         UNCHANGED <<stage, targets, given>>
  PROVE  AttemptOK'
<1> DEFINE range == RepairTarget(composition.episodes)
<1>1. /\ composition \in CompositionType /\ composition.episodes # <<>>
      /\ Resolves(composition.topics, ToSet(Ids(composition.episodes)))
  BY DEF AttemptOK
<1>2. GoodRange(composition.episodes, range)
  BY <1>1, CompositionFields, RepairTargetIs
<1>3. composition' = ApplyCoverage(composition, range, parts)
  BY DEF Repaired
<1> HIDE DEF range
<1>4. /\ composition' \in CompositionType /\ composition'.episodes # <<>>
      /\ Resolves(composition'.topics, ToSet(Ids(composition'.episodes)))
      /\ Plural(composition.topics) => Plural(composition'.topics)
  BY <1>1, <1>2, <1>3, ApplyCoverageKeeps
<1>5. repairs' \in 0 .. MaxCoverageRepairs + FallbackLimit
  BY LimitsAreNumbers DEF AttemptOK
<1> QED BY <1>4, <1>5 DEF AttemptOK

(* While something is not covered, the next target can be repaired.          *)
LEMMA TargetsAreRepairable ==
  ASSUME AttemptOK, ~Covered(composition.episodes), stage \in Busy, NEW index \in Nat
  PROVE  Repairable(Target(index))
<1>1. composition.episodes \in Seq(EpisodeType) /\ composition.episodes # <<>>
  BY CompositionFields DEF AttemptOK
<1>2. GoodRange(composition.episodes, RepairTarget(composition.episodes))
  BY <1>1, RepairTargetIs
<1> QED BY <1>1, <1>2, TargetIsRepairable DEF Target

(* A coverage repair by the model or without it preserves the attempt's      *)
(* part.                                                                     *)
LEMMA RepairSteps == AttemptOK /\ (CoverByModel \/ CoverByChunks) => AttemptOK'
<1> SUFFICES ASSUME AttemptOK, CoverByModel \/ CoverByChunks PROVE AttemptOK'
  OBVIOUS
<1>1. stage \in Busy /\ stage # "validating" /\ ~Covered(composition.episodes)
  BY DEF CoverByModel, CoverByChunks, Busy, Stages
<1>2. repairs \in Nat
  BY LimitsAreNumbers DEF AttemptOK
<1>3. CASE CoverByModel
  <2>1. PICK index \in Nat : index = repairs + 1
    BY <1>2
  <2>2. PICK cuts, looks :
          /\ cuts \in Cuts(Target(index)) /\ looks \in LooksOf(Target(index), cuts)
          /\ composition' = Repaired(PartsOf(Target(index), cuts, looks))
    BY <1>3, <2>1 DEF CoverByModel
  <2>3. looks \in [DOMAIN Stretches(Target(index), cuts) -> Looking]
    BY <2>2, AnswersAssumption DEF LooksOf
  <2>4. Replacement(PartsOf(Target(index), cuts, looks), Target(index).id)
    BY <1>1, <2>2, <2>3, TargetsAreRepairable, PartsOfTarget
  <2>5. repairs < MaxCoverageRepairs /\ repairs' = repairs + 1 /\ UNCHANGED <<stage, targets, given>>
    BY <1>3 DEF CoverByModel
  <2> QED BY <1>1, <2>2, <2>4, <2>5, RepairStep
<1>4. CASE CoverByChunks
  <2>1. PICK index \in Nat : index = MaxCoverageRepairs + repairs + 1
    BY <1>2, LimitsAreNumbers
  <2>2. PICK round \in Nat : round = repairs + 1
    BY <1>2
  <2>3. composition' = Repaired(ChunksOf(Target(index), round))
    BY <1>4, <2>1, <2>2 DEF CoverByChunks
  <2>4. Replacement(ChunksOf(Target(index), round), Target(index).id)
    BY <1>1, TargetsAreRepairable, ChunksOfTarget
  <2>5. repairs < FallbackLimit /\ repairs' = repairs + 1 /\ UNCHANGED <<stage, targets, given>>
    BY <1>4 DEF CoverByChunks
  <2> QED BY <1>1, <2>3, <2>4, <2>5, RepairStep
<1> QED BY <1>3, <1>4

(* So does the end of a round of repairs.                                    *)
LEMMA RoundsEnd == AttemptOK /\ (CoverByModelEnds \/ CoverByChunksEnds) => AttemptOK'
<1> SUFFICES ASSUME AttemptOK, CoverByModelEnds \/ CoverByChunksEnds PROVE AttemptOK'
  OBVIOUS
<1>1. stage \in Busy
  BY DEF CoverByModelEnds, CoverByChunksEnds, Busy, Stages
<1>2. stage' \in Stages /\ stage' # "validating" /\ repairs' = 0 /\ UNCHANGED <<composition, targets, given>>
  BY DEF CoverByModelEnds, CoverByChunksEnds, After, Stages
<1>3. 0 \in 0 .. MaxCoverageRepairs + FallbackLimit
  BY LimitsAreNumbers
<1> QED BY <1>1, <1>2, <1>3 DEF AttemptOK

(* So does the arrangement.                                                  *)
LEMMA ArrangeStep == AttemptOK /\ Arrange => AttemptOK'
<1> SUFFICES ASSUME AttemptOK, Arrange PROVE AttemptOK'
  OBVIOUS
<1>1. stage \in Busy
  BY DEF Arrange, Busy, Stages
<1>2. composition' = Arranged(composition) /\ UNCHANGED <<targets, repairs, given>>
  BY DEF Arrange
<1>3. stage' \in Stages
  BY DEF Arrange, Stages
<1>4. composition \in CompositionType /\ composition.episodes # <<>>
  BY <1>1 DEF AttemptOK
<1>5. /\ composition' \in CompositionType /\ Numbered(composition'.blocks)
      /\ ToSet(Ids(composition'.episodes)) = ToSet(Ids(composition.episodes))
      /\ composition'.topics = composition.topics
  BY <1>2, <1>4, ArrangedKeeps
<1>6. composition'.episodes # <<>>
  <2>1. composition.episodes \in Seq(EpisodeType) /\ composition'.episodes \in Seq(EpisodeType)
    BY <1>4, <1>5, CompositionFields
  <2>2. ToSet(Ids(composition.episodes)) # {}
    <3>1. ToSet(Ids(composition.episodes)) =
            {composition.episodes[k].id : k \in 1 .. Len(composition.episodes)}
      BY <2>1, IdsOf
    <3>2. 1 \in 1 .. Len(composition.episodes)
      BY <1>4, <2>1, LenProperties, EmptySeq
    <3> QED BY <3>1, <3>2
  <2>3. ToSet(Ids(<<>>)) = {}
    BY DEF Ids, ToSet
  <2> QED BY <1>5, <2>2, <2>3
<1> QED BY <1>2, <1>3, <1>5, <1>6 DEF AttemptOK

(* What passes the validation is whole: the arrangement numbered the blocks.   *)
LEMMA ValidatedIsWhole ==
  ASSUME AttemptOK, stage = "validating", Storable(composition)
  PROVE  Whole(composition)
<1> DEFINE bks == composition.blocks
<1>1. /\ composition \in CompositionType /\ composition.episodes # <<>>
      /\ Resolves(composition.topics, ToSet(Ids(composition.episodes))) /\ Numbered(bks)
  BY DEF AttemptOK, Busy, Stages
<1>2. bks \in Seq(BlockType) /\ Len(bks) \in Nat
  BY <1>1, CompositionFields
<1>3. Len(bks) # 0
  <2>1. 1 \in 1 .. Len(composition.episodes)
    <3>1. composition.episodes \in Seq(EpisodeType)
      BY <1>1, CompositionFields
    <3> QED BY <1>1, <3>1, LenProperties, EmptySeq
  <2>2. \E b \in 1 .. Len(bks) : TRUE
    BY <1>1, <2>1, ListedOnce DEF Storable
  <2> QED BY <2>2
<1>4. \A k \in 1 .. Len(bks) : bks[k].id = k
  BY <1>1 DEF Numbered
<1> HIDE DEF bks
<1>5. UniqueIds(bks)
  BY <1>2, <1>4, UniqueIdsAre
<1>6. 1 \in ToSet(Ids(bks))
  <2>1. 1 \in 1 .. Len(bks)
    BY <1>2, <1>3
  <2> QED BY <1>2, <1>4, <2>1, BlockIds
<1> QED BY <1>1, <1>5, <1>6 DEF Whole, bks

(* Storing a whole composition leaves a whole one, and whole orphans if      *)
(* any.                                                                      *)
LEMMA ReplacedTables ==
  ASSUME NEW comp \in CompositionType, Whole(comp), TablesOK, CanReplace(comp), Replace(comp)
  PROVE  TablesOK'
<1>1. /\ stored' = comp /\ (orphans' = orphans \/ orphans' = Nothing)
      /\ (newest' = newest \/ newest' = TRUE)
  BY StoredAsItIs DEF TablesOK
<1>2. WholeOrNothing(stored)' /\ WholeOrNothing(orphans)'
  BY <1>1 DEF WholeOrNothing, TablesOK, Nothing
<1> QED BY <1>1, <1>2, NothingIs DEF TablesOK

(* An attempt stores only what is whole, or collides.                        *)
LEMMA StoreStep == AttemptOK /\ TablesOK /\ Store => AttemptOK' /\ TablesOK'
<1> SUFFICES ASSUME AttemptOK, TablesOK, Store PROVE AttemptOK' /\ TablesOK'
  OBVIOUS
<1>1. Whole(composition) /\ composition \in CompositionType
  BY ValidatedIsWhole DEF Store, AttemptOK
<1>2. CanReplace(composition) /\ Replace(composition)
  BY DEF Store
<1>3. TablesOK'
  BY <1>1, <1>2, ReplacedTables
<1>4. /\ stage' = "stored" /\ composition' = Nothing /\ given' = Nothing
      /\ UNCHANGED <<targets, repairs>>
  BY DEF Store
<1>5. "stored" \in Stages /\ "stored" \notin Busy
  BY DEF Stages, Busy
<1>6. AttemptOK'
  BY <1>4, <1>5, NothingIs DEF AttemptOK
<1> QED BY <1>3, <1>6

(* A deleted composition that was the last is left under the next id. *)
LEMMA StartsAgainStep ==
  ASSUME AttemptOK, TablesOK, reruns \in 0 .. MaxChanges, patches \in 0 .. MaxChanges,
         AttemptStartsAgain
  PROVE  AttemptOK' /\ TablesOK' /\ reruns' \in 0 .. MaxChanges
<1>1. /\ stage' = "composing" /\ stored' = Nothing /\ newest' = FALSE
      /\ orphans' = stored \/ orphans' = orphans
      /\ UNCHANGED <<composition, targets, repairs, given>>
  BY DEF AttemptStartsAgain
<1>2. "composing" \in Stages /\ "composing" \notin Busy
  BY DEF Stages, Busy
<1>3. AttemptOK'
  BY <1>1, <1>2 DEF AttemptOK
<1>4. WholeOrNothing(stored)' /\ WholeOrNothing(orphans)'
  BY <1>1 DEF WholeOrNothing, TablesOK, Nothing
<1>5. TablesOK'
  BY <1>1, <1>4, NothingIs DEF TablesOK
<1>6. patches + reruns < MaxChanges /\ reruns' = reruns + 1
  BY DEF AttemptStartsAgain
<1>7. reruns' \in 0 .. MaxChanges
  BY <1>6, LimitsAreNumbers
<1> QED BY <1>3, <1>5, <1>7

(* What a patch reads and writes is whole or nothing.                        *)
LEMMA PatchSteps ==
  ASSUME TablesOK, RequestsOK, reruns \in 0 .. MaxChanges, NEW p \in Patchers,
         PatchReads(p) \/ PatchWrites(p) \/ PatchEnds(p)
  PROVE  TablesOK' /\ RequestsOK'
<1>1. /\ patches \in 0 .. MaxChanges /\ patching \in [Patchers -> CompositionType]
      /\ \A q \in Patchers : WholeOrNothing(patching[q])
  BY DEF RequestsOK
<1>2. CASE PatchReads(p)
  <2>1. patching' = [patching EXCEPT ![p] = stored] /\ UNCHANGED patches /\ UNCHANGED tables
    BY <1>2 DEF PatchReads
  <2>2. TablesOK'
    BY <2>1, UntouchedTables
  <2>3. patching' \in [Patchers -> CompositionType]
    BY <1>1, <2>1 DEF TablesOK
  <2>4. \A q \in Patchers : WholeOrNothing(patching'[q])
    BY <1>1, <2>1 DEF TablesOK
  <2> QED BY <1>1, <2>1, <2>2, <2>3, <2>4 DEF RequestsOK, WholeOrNothing, Nothing
<1>3. ASSUME patching' = [patching EXCEPT ![p] = Nothing], patches' \in 0 .. MaxChanges
      PROVE  RequestsOK'
  <2>1. patching' \in [Patchers -> CompositionType]
    BY <1>1, <1>3, NothingIs
  <2>2. \A q \in Patchers : WholeOrNothing(patching'[q])
    BY <1>1, <1>3 DEF WholeOrNothing
  <2> QED BY <1>3, <2>1, <2>2 DEF RequestsOK, WholeOrNothing, Nothing
<1>4. CASE PatchWrites(p)
  <2>1. PICK comp \in Patched(patching[p]) : CanReplace(comp) /\ Replace(comp)
    BY <1>4 DEF PatchWrites
  <2>2. patching[p] \in CompositionType /\ Whole(patching[p])
    BY <1>1, <1>4 DEF PatchWrites, WholeOrNothing
  <2>3. comp \in CompositionType /\ Whole(comp)
    BY <2>2, PatchedIsWhole
  <2>4. TablesOK'
    BY <2>1, <2>3, ReplacedTables
  <2>5. /\ patches + reruns < MaxChanges /\ patches' = patches + 1
        /\ patching' = [patching EXCEPT ![p] = Nothing]
    BY <1>4 DEF PatchWrites
  <2>6. patches' \in 0 .. MaxChanges
    BY <1>1, <2>5, LimitsAreNumbers
  <2> QED BY <1>3, <2>4, <2>5, <2>6
<1>5. CASE PatchEnds(p)
  <2>1. patching' = [patching EXCEPT ![p] = Nothing] /\ UNCHANGED patches /\ UNCHANGED tables
    BY <1>5 DEF PatchEnds
  <2>2. TablesOK'
    BY <2>1, UntouchedTables
  <2> QED BY <1>1, <1>3, <2>1, <2>2
<1> QED BY <1>2, <1>4, <1>5

(* Every step preserves the invariant.                                       *)
LEMMA TimelineStep == TimelineInvariant /\ [Next]_vars => TimelineInvariant'
<1> SUFFICES ASSUME TimelineInvariant, [Next]_vars PROVE TimelineInvariant'
  OBVIOUS
<1>1. AttemptOK /\ TablesOK /\ RequestsOK /\ reruns \in 0 .. MaxChanges
  BY PartsOfTheInvariant
<1>2. SUFFICES AttemptOK' /\ TablesOK' /\ RequestsOK' /\ reruns' \in 0 .. MaxChanges
  BY PartsOfTheNextInvariant
<1>3. CASE Compose \/ ComposeFails \/ SplitBroad \/ KeepBroad \/ SplittingEnds \/ CoverByModel
             \/ CoverByModelEnds \/ CoverByChunks \/ CoverByChunksEnds \/ Arrange
             \/ StoreCollides \/ RejectComposition
  <2>1. AttemptOK'
    <3>1. CASE Compose
      BY <1>1, <3>1, ComposeStep
    <3>2. CASE ComposeFails \/ StoreCollides \/ RejectComposition
      BY <3>2, GivingUp DEF ComposeFails, StoreCollides, RejectComposition
    <3>3. CASE SplitBroad \/ KeepBroad \/ SplittingEnds
      BY <1>1, <3>3, SplittingSteps
    <3>4. CASE CoverByModel \/ CoverByChunks
      BY <1>1, <3>4, RepairSteps
    <3>5. CASE CoverByModelEnds \/ CoverByChunksEnds
      BY <1>1, <3>5, RoundsEnd
    <3>6. CASE Arrange
      BY <1>1, <3>6, ArrangeStep
    <3> QED BY <1>3, <3>1, <3>2, <3>3, <3>4, <3>5, <3>6
  <2>2. UNCHANGED patchVars
    BY <1>3 DEF Compose, ComposeFails, SplitBroad, KeepBroad, SplittingEnds, CoverByModel,
         CoverByModelEnds, CoverByChunks, CoverByChunksEnds, Arrange, StoreCollides,
         RejectComposition
  <2>3. UNCHANGED tables /\ UNCHANGED requests /\ UNCHANGED reruns
    BY <2>2 DEF patchVars
  <2> QED BY <1>1, <2>1, <2>3, UntouchedTables, UntouchedRequests
<1>4. CASE Store
  <2>1. UNCHANGED requests /\ UNCHANGED reruns
    BY <1>4 DEF Store
  <2> QED BY <1>1, <1>4, <2>1, StoreStep, UntouchedRequests
<1>5. CASE AttemptStartsAgain
  <2>1. UNCHANGED requests
    BY <1>5 DEF AttemptStartsAgain
  <2> QED BY <1>1, <1>5, <2>1, StartsAgainStep, UntouchedRequests DEF RequestsOK
<1>6. CASE OtherIsStored
  <2>1. /\ newest' = FALSE /\ UNCHANGED requests
        /\ UNCHANGED <<stage, composition, targets, repairs, given, stored, orphans, reruns>>
    BY <1>6 DEF OtherIsStored
  <2>2. AttemptOK'
    BY <1>1, <2>1 DEF AttemptOK
  <2>3. TablesOK'
    BY <1>1, <2>1 DEF TablesOK, WholeOrNothing, Nothing
  <2> QED BY <1>1, <2>1, <2>2, <2>3, UntouchedRequests
<1>7. ASSUME NEW p \in Patchers, PatchReads(p) \/ PatchWrites(p) \/ PatchEnds(p)
      PROVE  AttemptOK' /\ TablesOK' /\ RequestsOK' /\ reruns' \in 0 .. MaxChanges
  <2>1. UNCHANGED <<stage, composition, targets, repairs, given, reruns>>
    BY <1>7 DEF PatchReads, PatchWrites, PatchEnds
  <2>2. AttemptOK'
    BY <1>1, <2>1 DEF AttemptOK
  <2> QED BY <1>1, <1>7, <2>1, <2>2, PatchSteps
<1>8. CASE UNCHANGED vars
  <2>1. UNCHANGED tables /\ UNCHANGED requests
        /\ UNCHANGED <<stage, composition, targets, repairs, given, reruns>>
    BY <1>8 DEF vars, tables, requests
  <2>2. AttemptOK'
    BY <1>1, <2>1 DEF AttemptOK
  <2> QED BY <1>1, <2>1, <2>2, UntouchedTables, UntouchedRequests
<1> QED BY <1>3, <1>4, <1>5, <1>6, <1>7, <1>8 DEF Next

(* An attempt always has what its next step needs, and what is stored, left    *)
(* behind or being patched is always whole.                                    *)
THEOREM TimelineIsInvariant == Spec => []TimelineInvariant
BY InitiallyTimeline, TimelineStep, PTL DEF Spec

-----------------------------------------------------------------------------
(* The second inductive invariant: what an attempt has of a draft under ids as  *)
(* the model gives them.  The repairs still needed and those already tried      *)
(* without the model are together no more than the draft needs, unless nothing  *)
(* is left to repair.                                                           *)
Effort ==
  CASE stage = "chunking" -> repairs
    [] stage \in {"arranging", "recovering"} -> FallbackLimit
    [] stage = "rechunking" -> FallbackLimit + repairs
    [] stage \in {"rearranging", "validating"} -> FallbackLimit + FallbackLimit
    [] OTHER -> 0

(* Ids, order and what is kept of the draft.                                    *)
Sound(comp, tgts, from) ==
  /\ Once(from.episodes) /\ Families(comp.episodes) /\ Recoveries(comp.episodes)
  /\ Standing(tgts, comp.episodes, from.episodes) /\ Kept(comp.episodes, from.episodes)

(* What is left to do, and what was done, fits into what the draft needs.       *)
Within(comp, tgts, from, spent) ==
  \/ Work(comp.episodes, Open(tgts)) = 0
  \/ Work(comp.episodes, Open(tgts)) + spent <= RepairsNeeded(from.episodes)

(* The invariant.                                                               *)
AttemptSound ==
  (IdsAreGiven /\ stage \in Busy) =>
    /\ Sound(composition, targets, given)
    /\ Within(composition, targets, given, Effort)
    /\ stage # "splitting" => targets = <<>>
    /\ stage = "splitting" => AllGiven(composition.episodes)
    /\ stage = "validating" => BlocksHold(composition)

(* What an attempt at work on such a draft has.                                 *)
LEMMA SoundAtWork ==
  ASSUME AttemptOK, AttemptSound, IdsAreGiven, stage \in Busy
  PROVE  /\ composition \in CompositionType /\ composition.episodes # <<>>
         /\ composition.episodes \in Seq(EpisodeType)
         /\ given.episodes \in Seq(EpisodeType) /\ targets \in Seq(EpisodeType)
         /\ Sound(composition, targets, given)
         /\ Within(composition, targets, given, Effort)
         /\ stage # "splitting" => targets = <<>>
         /\ stage = "splitting" => AllGiven(composition.episodes)
         /\ repairs \in Nat /\ FallbackLimit \in Nat
         /\ Work(composition.episodes, Open(targets)) \in Nat
<1>1. composition \in CompositionType /\ given \in CompositionType /\ targets \in Seq(EpisodeType)
  BY DEF AttemptOK
<1>2. composition.episodes \in Seq(EpisodeType) /\ given.episodes \in Seq(EpisodeType)
  BY <1>1, CompositionFields
<1>3. repairs \in Nat /\ FallbackLimit \in Nat
  BY LimitsAreNumbers DEF AttemptOK
<1>4. Work(composition.episodes, Open(targets)) \in Nat
  BY <1>2, SlotsAreFinite
<1> QED BY <1>1, <1>2, <1>3, <1>4 DEF AttemptOK, AttemptSound

(* No episode is still to be split when splitting is over.                      *)
LEMMA NoneOpen ==
  /\ Open(<<>>) = {}
  /\ \A eps, from : Standing(<<>>, eps, from)
<1>1. Len(<<>>) = 0
  BY EmptySeq
<1>2. \A i \in 1 .. Len(<<>>) : FALSE
  BY <1>1
<1>3. Open(<<>>) = {}
  BY <1>2 DEF Open
<1>4. ASSUME NEW eps, NEW from PROVE Standing(<<>>, eps, from)
  BY <1>2 DEF Standing, Once
<1> QED BY <1>3, <1>4

(* A draft.                                                                     *)
LEMMA SoundDraft == AttemptOK /\ Compose => AttemptSound'
<1> SUFFICES ASSUME Compose, IdsAreGiven' PROVE AttemptSound'
  BY DEF AttemptSound
<1>1. PICK raw \in Drafts \cup Redrafts :
        /\ composition' = Normalized(raw) /\ given' = composition'
        /\ targets' = BroadEpisodes(composition'.episodes)
  BY DEF Compose
<1>2. raw \in CompositionType /\ raw.episodes # <<>>
  BY AnswersAssumption
<1>3. \A x \in ToSet(given'.episodes) : IsGiven(x.id)
  BY DEF IdsAreGiven
<1>4. PICK eps : eps = Normalized(raw).episodes
  OBVIOUS
<1>5. composition'.episodes = eps /\ given'.episodes = eps /\ targets' = BroadEpisodes(eps)
  BY <1>1, <1>4
<1>6. /\ Once(eps) /\ Families(eps) /\ Recoveries(eps) /\ AllGiven(eps)
      /\ Standing(BroadEpisodes(eps), eps, eps)
      /\ Work(eps, Open(BroadEpisodes(eps))) <= RepairsNeeded(eps)
      /\ Kept(eps, eps)
  BY <1>2, <1>3, <1>4, <1>5, DraftSound
<1>7. stage' = "splitting"
  BY DEF Compose
<1>8. Effort' = 0
  BY <1>7 DEF Effort
<1>9. Sound(composition', targets', given')
  BY <1>5, <1>6 DEF Sound
<1>10. Work(eps, Open(BroadEpisodes(eps))) \in Nat
  <2>1. eps \in Seq(EpisodeType)
    BY <1>2, <1>4, NormalizedDraft, CompositionFields
  <2> QED BY <2>1, SlotsAreFinite
<1>11. Within(composition', targets', given', Effort')
  <2>1. Work(eps, Open(BroadEpisodes(eps))) + 0 <= RepairsNeeded(eps)
    BY <1>6, <1>10
  <2> QED BY <1>5, <1>8, <2>1 DEF Within
<1> QED BY <1>5, <1>6, <1>7, <1>9, <1>11 DEF AttemptSound

(* A draft needs so many repairs.                                               *)
LEMMA NeededIsNatural ==
  ASSUME NEW eps, eps \in Seq(EpisodeType)
  PROVE  RepairsNeeded(eps) \in Nat
<1>1. PICK T : T = {}
  OBVIOUS
<1>2. \A k \in 1 .. Len(eps) : eps[k].id \in T => Overbroad(eps[k])
  BY <1>1
<1> QED BY <1>2, WorkOfDraft

(* Less work is still within the budget.                                        *)
LEMMA StillWithin ==
  ASSUME NEW comp, NEW tgts, NEW from, NEW spent \in Nat, NEW comp2, NEW tgts2,
         comp.episodes \in Seq(EpisodeType), comp2.episodes \in Seq(EpisodeType),
         from.episodes \in Seq(EpisodeType),
         Within(comp, tgts, from, spent),
         Work(comp2.episodes, Open(tgts2)) <= Work(comp.episodes, Open(tgts))
  PROVE  Within(comp2, tgts2, from, spent)
<1>1. /\ Work(comp2.episodes, Open(tgts2)) \in Nat /\ Work(comp.episodes, Open(tgts)) \in Nat
  BY SlotsAreFinite
<1>2. RepairsNeeded(from.episodes) \in Nat
  BY NeededIsNatural
<1> QED BY <1>1, <1>2 DEF Within

(* Splitting broad episodes.                                                    *)
LEMMA SoundSplits == AttemptOK /\ AttemptSound /\ (SplitBroad \/ KeepBroad \/ SplittingEnds)
                       => AttemptSound'
<1> SUFFICES ASSUME AttemptOK, AttemptSound, SplitBroad \/ KeepBroad \/ SplittingEnds, IdsAreGiven'
             PROVE  AttemptSound'
  BY DEF AttemptSound
<1>1. stage = "splitting" /\ "splitting" \in Busy /\ given' = given /\ repairs' = repairs
  BY DEF SplitBroad, KeepBroad, SplittingEnds, Busy, Stages
<1>2. IdsAreGiven
  BY <1>1 DEF IdsAreGiven
<1>3. /\ composition \in CompositionType /\ composition.episodes \in Seq(EpisodeType)
      /\ given.episodes \in Seq(EpisodeType) /\ targets \in Seq(EpisodeType)
      /\ Sound(composition, targets, given) /\ Within(composition, targets, given, Effort)
      /\ AllGiven(composition.episodes)
  BY <1>1, <1>2, SoundAtWork
<1>4. Effort = 0 /\ (stage' \in {"splitting", "covering"} => Effort' = 0)
  BY <1>1 DEF Effort
<1>5. /\ Once(given.episodes) /\ Families(composition.episodes) /\ Recoveries(composition.episodes)
      /\ Standing(targets, composition.episodes, given.episodes)
      /\ Kept(composition.episodes, given.episodes)
  BY <1>3 DEF Sound
<1>6. CASE SplitBroad
  <2>1. PICK cuts, looks :
          /\ cuts \in Cuts(Head(targets)) /\ looks \in LooksOf(Head(targets), cuts)
          /\ composition' = SplitEpisode(PartsOf(Head(targets), cuts, looks), composition)
    BY <1>6 DEF SplitBroad
  <2>2. targets # <<>> /\ targets' = Tail(targets) /\ stage' = stage
    BY <1>6 DEF SplitBroad
  <2>3. looks \in [DOMAIN Stretches(Head(targets), cuts) -> Looking]
    BY <2>1, AnswersAssumption DEF LooksOf
  <2>4. PICK new : new = composition'.episodes
    OBVIOUS
  <2>5. /\ Families(new) /\ Recoveries(new) /\ AllGiven(new)
        /\ Standing(Tail(targets), new, given.episodes) /\ Kept(new, given.episodes)
        /\ Work(new, Open(Tail(targets))) <= Work(composition.episodes, Open(targets))
    <3>1. new = SplitEpisode(PartsOf(Head(targets), cuts, looks), composition).episodes
      BY <2>1, <2>4
    <3> QED BY <1>3, <1>5, <2>1, <2>2, <2>3, <3>1, SplitSound
  <2>6. composition'.episodes \in Seq(EpisodeType)
    <3>1. AttemptOK'
      BY <1>6, SplittingSteps
    <3> QED BY <3>1, CompositionFields DEF AttemptOK
  <2>7. Within(composition', targets', given, 0)
    BY <1>3, <1>4, <2>2, <2>4, <2>5, <2>6, StillWithin
  <2>8. Sound(composition', targets', given)
    BY <1>5, <2>2, <2>4, <2>5 DEF Sound
  <2> QED BY <1>1, <1>4, <2>2, <2>4, <2>5, <2>7, <2>8 DEF AttemptSound
<1>7. CASE KeepBroad
  <2>1. targets # <<>> /\ targets' = Tail(targets) /\ stage' = stage /\ composition' = composition
    BY <1>7 DEF KeepBroad
  <2>2. /\ Standing(Tail(targets), composition.episodes, given.episodes)
        /\ Work(composition.episodes, Open(Tail(targets))) <= Work(composition.episodes, Open(targets))
    BY <1>3, <1>5, <2>1, KeepSound
  <2>3. Within(composition, Tail(targets), given, 0)
    BY <1>3, <1>4, <2>2, StillWithin
  <2>4. Sound(composition, Tail(targets), given)
    BY <1>5, <2>2 DEF Sound
  <2> QED BY <1>1, <1>3, <1>4, <2>1, <2>3, <2>4 DEF AttemptSound
<1>8. CASE SplittingEnds
  <2>1. targets = <<>> /\ stage' = "covering" /\ UNCHANGED <<composition, targets>>
    BY <1>8 DEF SplittingEnds
  <2> QED BY <1>1, <1>3, <1>4, <2>1 DEF AttemptSound
<1> QED BY <1>6, <1>7, <1>8

(* A repair, by the model or without it.                                        *)
LEMMA SoundRepair ==
  ASSUME AttemptOK, AttemptSound, ~Covered(composition.episodes),
         stage \in {"covering", "recovering", "chunking", "rechunking"},
         NEW index \in Nat, NEW parts, Replacement(parts, Target(index).id),
         Divided(parts, Target(index)), Family(parts, Target(index).id),
         composition' = Repaired(parts), repairs' = repairs + 1,
         UNCHANGED <<stage, targets, given>>
  PROVE  AttemptSound'
<1> SUFFICES ASSUME IdsAreGiven' PROVE AttemptSound'
  BY DEF AttemptSound
<1>1. IdsAreGiven /\ stage \in Busy /\ stage # "splitting" /\ stage # "validating"
  BY DEF IdsAreGiven, Busy, Stages
<1>2. /\ composition \in CompositionType /\ composition.episodes # <<>>
      /\ composition.episodes \in Seq(EpisodeType) /\ given.episodes \in Seq(EpisodeType)
      /\ Sound(composition, targets, given) /\ Within(composition, targets, given, Effort)
      /\ targets = <<>> /\ repairs \in Nat /\ FallbackLimit \in Nat
      /\ Work(composition.episodes, Open(targets)) \in Nat
  BY <1>1, SoundAtWork
<1>3. /\ Once(given.episodes) /\ Families(composition.episodes) /\ Recoveries(composition.episodes)
      /\ Kept(composition.episodes, given.episodes)
  BY <1>2 DEF Sound
<1>4. PICK new : new = composition'.episodes
  OBVIOUS
<1>5. /\ Families(new) /\ Recoveries(new) /\ Kept(new, given.episodes)
      /\ Work(new, {}) + 1 <= Work(composition.episodes, {})
  <2>1. new = ApplyCoverage(composition, RepairTarget(composition.episodes), parts).episodes
    BY <1>4 DEF Repaired
  <2>2. LET target == TargetEpisode(composition.episodes, RepairTarget(composition.episodes), index)
        IN  Replacement(parts, target.id) /\ Divided(parts, target) /\ Family(parts, target.id)
    BY DEF Target
  <2> QED BY <1>2, <1>3, <2>1, <2>2, RepairSound
<1>6. Sound(composition', targets', given')
  BY <1>2, <1>3, <1>4, <1>5, NoneOpen DEF Sound
<1>7. Effort \in Nat /\ Effort' \in Nat /\ Effort' <= Effort + 1
  <2>1. CASE stage \in {"covering", "recovering"}
    <3>1. Effort' = Effort /\ (Effort = 0 \/ Effort = FallbackLimit)
      BY <2>1 DEF Effort
    <3> QED BY <1>2, <3>1
  <2>2. CASE stage = "chunking"
    <3>1. Effort = repairs /\ Effort' = repairs + 1
      BY <2>2 DEF Effort
    <3> QED BY <1>2, <3>1
  <2>3. CASE stage = "rechunking"
    <3>1. Effort = FallbackLimit + repairs /\ Effort' = FallbackLimit + (repairs + 1)
      BY <2>3 DEF Effort
    <3> QED BY <1>2, <3>1
  <2> QED BY <2>1, <2>2, <2>3
<1>8. Within(composition', targets', given', Effort')
  <2>1. /\ Open(targets) = {} /\ targets' = targets /\ given' = given
        /\ composition'.episodes = new
    BY <1>2, <1>4, NoneOpen
  <2>2. Work(new, {}) \in Nat /\ Work(composition.episodes, {}) \in Nat
    <3>1. composition'.episodes \in Seq(EpisodeType)
      <4>1. GoodRange(composition.episodes, RepairTarget(composition.episodes))
        BY <1>2, RepairTargetIs
      <4>2. Resolves(composition.topics, ToSet(Ids(composition.episodes)))
        BY DEF AttemptOK
      <4>3. /\ Replacement(parts, TargetEpisode(composition.episodes,
                                   RepairTarget(composition.episodes), index).id)
            /\ composition' = ApplyCoverage(composition, RepairTarget(composition.episodes), parts)
        BY DEF Target, Repaired
      <4>4. composition' \in CompositionType
        BY <1>2, <4>1, <4>2, <4>3, ApplyCoverageKeeps
      <4> QED BY <4>4, CompositionFields
    <3> QED BY <1>2, <1>4, <2>1, <3>1, SlotsAreFinite
  <2>3. Work(composition.episodes, {}) + Effort <= RepairsNeeded(given.episodes)
    <3>1. Work(composition.episodes, {}) # 0
      BY <1>5, <2>2
    <3> QED BY <1>2, <2>1, <3>1 DEF Within
  <2>4. RepairsNeeded(given.episodes) \in Nat
    BY <1>2, NeededIsNatural
  <2>5. Work(new, {}) + Effort' <= RepairsNeeded(given.episodes)
    BY <1>5, <1>7, <2>2, <2>3, <2>4
  <2> QED BY <2>1, <2>5 DEF Within
<1> QED BY <1>1, <1>2, <1>6, <1>8 DEF AttemptSound

(* The repairs.                                                                 *)
LEMMA SoundRepairs == AttemptOK /\ AttemptSound /\ (CoverByModel \/ CoverByChunks) => AttemptSound'
<1> SUFFICES ASSUME AttemptOK, AttemptSound, CoverByModel \/ CoverByChunks PROVE AttemptSound'
  OBVIOUS
<1>1. /\ stage \in {"covering", "recovering", "chunking", "rechunking"}
      /\ ~Covered(composition.episodes) /\ stage \in Busy
  BY DEF CoverByModel, CoverByChunks, Busy, Stages
<1>2. repairs \in Nat
  BY LimitsAreNumbers DEF AttemptOK
<1>3. CASE CoverByModel
  <2>1. PICK index \in Nat : index = repairs + 1
    BY <1>2
  <2>2. PICK cuts, looks :
          /\ cuts \in Cuts(Target(index)) /\ looks \in LooksOf(Target(index), cuts)
          /\ composition' = Repaired(PartsOf(Target(index), cuts, looks))
    BY <1>3, <2>1 DEF CoverByModel
  <2>3. looks \in [DOMAIN Stretches(Target(index), cuts) -> Looking]
    BY <2>2, AnswersAssumption DEF LooksOf
  <2>4. PICK parts : parts = PartsOf(Target(index), cuts, looks)
    OBVIOUS
  <2>5. Repairable(Target(index))
    BY <1>1, TargetsAreRepairable
  <2>6. /\ Replacement(parts, Target(index).id)
        /\ Divided(parts, Target(index)) /\ Family(parts, Target(index).id)
    BY <2>2, <2>3, <2>4, <2>5, PartsOfTarget, PartsInOrder
  <2>7. /\ repairs' = repairs + 1 /\ UNCHANGED <<stage, targets, given>>
        /\ composition' = Repaired(parts)
    BY <1>3, <2>2, <2>4 DEF CoverByModel
  <2> QED BY <1>1, <2>6, <2>7, SoundRepair
<1>4. CASE CoverByChunks
  <2>1. PICK index \in Nat : index = MaxCoverageRepairs + repairs + 1
    BY <1>2, LimitsAreNumbers
  <2>2. PICK round \in Nat : round = repairs + 1
    BY <1>2
  <2>3. composition' = Repaired(ChunksOf(Target(index), round))
    BY <1>4, <2>1, <2>2 DEF CoverByChunks
  <2>4. PICK parts : parts = ChunksOf(Target(index), round)
    OBVIOUS
  <2>5. Repairable(Target(index))
    BY <1>1, TargetsAreRepairable
  <2>6. /\ Replacement(parts, Target(index).id)
        /\ Divided(parts, Target(index)) /\ Family(parts, Target(index).id)
    BY <2>4, <2>5, ChunksOfTarget, ChunksInOrder
  <2>7. /\ repairs' = repairs + 1 /\ UNCHANGED <<stage, targets, given>>
        /\ composition' = Repaired(parts)
    BY <1>4, <2>3, <2>4 DEF CoverByChunks
  <2> QED BY <1>1, <2>6, <2>7, SoundRepair
<1> QED BY <1>3, <1>4

(* The end of a round: either all is covered, or all its repairs were tried.    *)
LEMMA SoundRounds == AttemptOK /\ AttemptSound /\ (CoverByModelEnds \/ CoverByChunksEnds)
                       => AttemptSound'
<1> SUFFICES ASSUME AttemptOK, AttemptSound, CoverByModelEnds \/ CoverByChunksEnds, IdsAreGiven'
             PROVE  AttemptSound'
  BY DEF AttemptSound
<1>1. /\ stage \in Busy /\ stage # "splitting" /\ stage' # "splitting" /\ stage' # "validating"
      /\ UNCHANGED <<composition, targets, given>> /\ repairs' = 0
  BY DEF CoverByModelEnds, CoverByChunksEnds, After, Busy, Stages
<1>2. IdsAreGiven
  BY <1>1 DEF IdsAreGiven
<1>3. /\ Sound(composition, targets, given) /\ Within(composition, targets, given, Effort)
      /\ targets = <<>> /\ repairs \in Nat /\ FallbackLimit \in Nat
  BY <1>1, <1>2, SoundAtWork
<1>4. Covered(composition.episodes) \/ Effort' = Effort
  <2>1. CASE CoverByModelEnds
    <3>1. CASE stage = "covering"
      <4>1. stage' = "chunking"
        BY <2>1, <3>1 DEF CoverByModelEnds, After
      <4> QED BY <1>1, <3>1, <4>1 DEF Effort
    <3>2. CASE stage = "recovering"
      <4>1. stage' = "rechunking"
        BY <2>1, <3>2 DEF CoverByModelEnds, After
      <4>2. Effort = FallbackLimit /\ Effort' = FallbackLimit + 0
        BY <1>1, <3>2, <4>1 DEF Effort
      <4> QED BY <1>3, <4>2
    <3> QED BY <2>1, <3>1, <3>2 DEF CoverByModelEnds
  <2>2. CASE CoverByChunksEnds /\ repairs = FallbackLimit
    <3>1. CASE stage = "chunking"
      <4>1. stage' = "arranging"
        BY <2>2, <3>1 DEF CoverByChunksEnds
      <4> QED BY <2>2, <3>1, <4>1 DEF Effort
    <3>2. CASE stage = "rechunking"
      <4>1. stage' = "rearranging"
        BY <2>2, <3>2 DEF CoverByChunksEnds
      <4> QED BY <2>2, <3>2, <4>1 DEF Effort
    <3> QED BY <2>2, <3>1, <3>2 DEF CoverByChunksEnds
  <2> QED BY <2>1, <2>2 DEF CoverByChunksEnds
<1>5. Within(composition, targets, given, Effort')
  <2>1. CASE Covered(composition.episodes)
    BY <2>1 DEF Within, Work
  <2>2. CASE Effort' = Effort
    BY <1>3, <2>2
  <2> QED BY <1>4, <2>1, <2>2
<1> QED BY <1>1, <1>3, <1>5 DEF AttemptSound

(* The arrangement.                                                             *)
LEMMA SoundArrangement == AttemptOK /\ AttemptSound /\ Arrange => AttemptSound'
<1> SUFFICES ASSUME AttemptOK, AttemptSound, Arrange, IdsAreGiven' PROVE AttemptSound'
  BY DEF AttemptSound
<1>1. /\ stage \in Busy /\ stage # "splitting" /\ stage' # "splitting"
      /\ composition' = Arranged(composition) /\ UNCHANGED <<targets, repairs, given>>
  BY DEF Arrange, Busy, Stages
<1>2. IdsAreGiven
  BY <1>1 DEF IdsAreGiven
<1>3. /\ composition \in CompositionType
      /\ Sound(composition, targets, given) /\ Within(composition, targets, given, Effort)
      /\ targets = <<>>
  BY <1>1, <1>2, SoundAtWork
<1>4. Effort' = Effort
  <2>1. /\ stage = "arranging" \/ stage = "rearranging"
        /\ stage' = IF stage = "arranging" THEN "recovering" ELSE "validating"
    BY DEF Arrange
  <2>2. CASE stage = "arranging"
    <3>1. stage' = "recovering"
      BY <2>1, <2>2
    <3>2. Effort = FallbackLimit
      BY <2>2 DEF Effort
    <3>3. Effort' = FallbackLimit
      BY <3>1 DEF Effort
    <3> QED BY <3>2, <3>3
  <2>3. CASE stage = "rearranging"
    <3>1. stage # "arranging"
      BY <2>3
    <3>2. stage' = "validating"
      BY <2>1, <3>1
    <3>3. Effort = FallbackLimit + FallbackLimit
      BY <2>3 DEF Effort
    <3>4. Effort' = FallbackLimit + FallbackLimit
      BY <3>2 DEF Effort
    <3> QED BY <3>3, <3>4
  <2> QED BY <2>1, <2>2, <2>3
<1>5. /\ Once(given.episodes) /\ Families(composition.episodes) /\ Recoveries(composition.episodes)
      /\ Kept(composition.episodes, given.episodes)
  BY <1>3 DEF Sound
<1>6. PICK new : new = Arranged(composition)
  OBVIOUS
<1>7. /\ Families(new.episodes) /\ Recoveries(new.episodes) /\ Kept(new.episodes, given.episodes)
      /\ \A T : Work(new.episodes, T) = Work(composition.episodes, T)
      /\ BlocksHold(new)
  BY <1>3, <1>5, <1>6, ArrangeSound
<1>8. Sound(new, targets, given)
  BY <1>3, <1>5, <1>7, NoneOpen DEF Sound
<1>9. Within(new, targets, given, Effort)
  BY <1>3, <1>7 DEF Within
<1>10. composition' = new /\ targets' = targets /\ given' = given
  BY <1>1, <1>6
<1> QED BY <1>1, <1>3, <1>4, <1>7, <1>8, <1>9, <1>10 DEF AttemptSound

(* Every step preserves it.                                                     *)
LEMMA SoundStep == TimelineInvariant /\ AttemptSound /\ [Next]_vars => AttemptSound'
<1> SUFFICES ASSUME TimelineInvariant, AttemptSound, [Next]_vars PROVE AttemptSound'
  OBVIOUS
<1>1. AttemptOK
  BY PartsOfTheInvariant
<1>2. ASSUME stage' \in {"failed", "stored", "composing"} PROVE AttemptSound'
  <2>1. stage' \notin Busy
    BY <1>2 DEF Busy
  <2> QED BY <2>1 DEF AttemptSound
<1>3. ASSUME UNCHANGED <<stage, composition, targets, repairs, given>> PROVE AttemptSound'
  <2>1. Effort' = Effort /\ (IdsAreGiven' <=> IdsAreGiven)
    BY <1>3 DEF Effort, IdsAreGiven
  <2> QED BY <1>3, <2>1 DEF AttemptSound
<1>4. CASE Compose
  BY <1>1, <1>4, SoundDraft
<1>5. CASE ComposeFails \/ StoreCollides \/ RejectComposition \/ Store \/ AttemptStartsAgain
  BY <1>2, <1>5 DEF ComposeFails, StoreCollides, RejectComposition, GivesUp, Store,
       AttemptStartsAgain
<1>6. CASE SplitBroad \/ KeepBroad \/ SplittingEnds
  BY <1>1, <1>6, SoundSplits
<1>7. CASE CoverByModel \/ CoverByChunks
  BY <1>1, <1>7, SoundRepairs
<1>8. CASE CoverByModelEnds \/ CoverByChunksEnds
  BY <1>1, <1>8, SoundRounds
<1>9. CASE Arrange
  BY <1>1, <1>9, SoundArrangement
<1>10. CASE OtherIsStored
  BY <1>3, <1>10 DEF OtherIsStored
<1>11. ASSUME NEW p \in Patchers, PatchReads(p) \/ PatchWrites(p) \/ PatchEnds(p)
       PROVE  AttemptSound'
  BY <1>3, <1>11 DEF PatchReads, PatchWrites, PatchEnds
<1>12. CASE UNCHANGED vars
  BY <1>3, <1>12 DEF vars
<1> QED BY <1>4, <1>5, <1>6, <1>7, <1>8, <1>9, <1>10, <1>11, <1>12 DEF Next

(* An attempt on a draft under ids as the model gives them keeps them apart,    *)
(* keeps within its repairs and keeps the sound episodes of the draft.          *)
THEOREM AttemptsStaySound == Spec => []AttemptSound
<1>1. Init => AttemptSound
  BY DEF Init, AttemptSound, Busy
<1> QED BY <1>1, SoundStep, TimelineIsInvariant, PTL DEF Spec

-----------------------------------------------------------------------------
(* What is published of a whole composition.                                   *)

Contiguous(eps) ==
  /\ Len(eps) \in Nat \ {0}
  /\ \A k \in 1 .. Len(eps) :
       eps[k].first \in 1 .. N /\ eps[k].last \in 1 .. N /\ eps[k].first <= eps[k].last
  /\ eps[1].first = 1 /\ eps[Len(eps)].last = N
  /\ \A j, k \in 1 .. Len(eps) : k = j + 1 => eps[k].first = eps[j].last + 1

(* Covered, said of pairs of neighbours instead of the ones before.          *)
LEMMA CoveredIsContiguous ==
  ASSUME NEW eps \in Seq(EpisodeType), Covered(eps)
  PROVE  Contiguous(eps)
<1>1. DOMAIN eps = 1 .. Len(eps) /\ Len(eps) \in Nat /\ N \in Nat \ {0}
  BY LenProperties, MicroEventAt
<1>2. \A k \in 1 .. Len(eps) : Valid(eps[k]) /\ eps[k].first = StartOf(eps, k)
  BY <1>1 DEF Covered, Misplaced, InPlace
<1>3. StartOf(eps, Len(eps) + 1) = N + 1
  BY DEF Covered
<1>4. Len(eps) # 0
  <2>1. StartOf(eps, 1) = 1
    BY DEF StartOf
  <2> QED BY <1>1, <1>3, <2>1
<1>5. eps[Len(eps)].last = N
  <2>1. Len(eps) + 1 # 1 /\ Len(eps) + 1 - 1 = Len(eps) /\ Len(eps) \in 1 .. Len(eps)
    BY <1>1, <1>4
  <2>2. eps[Len(eps)].last + 1 = N + 1
    BY <1>3, <2>1 DEF StartOf
  <2>3. eps[Len(eps)].last \in 1 .. N
    BY <1>2, <2>1 DEF Valid
  <2> QED BY <1>1, <2>2, <2>3
<1>6. eps[1].first = 1
  BY <1>1, <1>2, <1>4 DEF StartOf
<1>7. ASSUME NEW j \in 1 .. Len(eps), NEW k \in 1 .. Len(eps), k = j + 1
      PROVE  eps[k].first = eps[j].last + 1
  <2>1. k # 1 /\ k - 1 = j
    BY <1>7
  <2> QED BY <1>2, <2>1 DEF StartOf
<1> QED BY <1>1, <1>2, <1>4, <1>5, <1>6, <1>7 DEF Contiguous, Valid

(* Later episodes neither start nor end earlier.                             *)
LEMMA ContiguousGrows ==
  ASSUME NEW eps, Contiguous(eps), NEW k \in 1 .. Len(eps), NEW i \in 1 .. k
  PROVE  eps[i].first <= eps[k].first /\ eps[i].last <= eps[k].last
<1> DEFINE S == {n \in Nat : n \in 1 .. Len(eps) =>
                   \A j \in 1 .. n : eps[j].first <= eps[n].first /\ eps[j].last <= eps[n].last}
<1>1. /\ Len(eps) \in Nat \ {0} /\ N \in Nat
      /\ \A n \in 1 .. Len(eps) :
           eps[n].first \in 1 .. N /\ eps[n].last \in 1 .. N /\ eps[n].first <= eps[n].last
      /\ \A j, n \in 1 .. Len(eps) : n = j + 1 => eps[n].first = eps[j].last + 1
  BY MicroEventAt DEF Contiguous
<1>2. 0 \in S
  OBVIOUS
<1>3. ASSUME NEW n \in Nat, n \in S PROVE n + 1 \in S
  <2> SUFFICES ASSUME n + 1 \in 1 .. Len(eps), NEW j \in 1 .. n + 1
               PROVE  eps[j].first <= eps[n + 1].first /\ eps[j].last <= eps[n + 1].last
    OBVIOUS
  <2>1. PICK m \in 1 .. Len(eps) : m = n + 1
    OBVIOUS
  <2>2. CASE j = m
    BY <1>1, <2>1, <2>2
  <2>3. CASE j # m
    <3>1. j \in 1 .. n /\ n \in 1 .. Len(eps)
      BY <1>1, <2>1, <2>3
    <3>2. eps[j].first <= eps[n].first /\ eps[j].last <= eps[n].last
      BY <1>3, <3>1
    <3>3. eps[m].first = eps[n].last + 1
      BY <1>1, <2>1, <3>1
    <3>4. j \in 1 .. Len(eps)
      BY <1>1, <3>1
    <3>5. /\ eps[j].first \in Int /\ eps[j].last \in Int /\ eps[n].first \in Int /\ eps[n].last \in Int
          /\ eps[m].first \in Int /\ eps[m].last \in Int /\ eps[n].first <= eps[n].last
          /\ eps[m].first <= eps[m].last
      BY <1>1, <2>1, <3>1, <3>4, SMTT(30)
    <3>6. eps[j].first <= eps[m].first /\ eps[j].last <= eps[m].last
      <4> DEFINE jf == eps[j].first
                 jl == eps[j].last
                 nf == eps[n].first
                 nl == eps[n].last
                 mf == eps[m].first
                 ml == eps[m].last
      <4>1. /\ jf \in Int /\ jl \in Int /\ nf \in Int /\ nl \in Int /\ mf \in Int /\ ml \in Int
            /\ jf <= nf /\ jl <= nl /\ nf <= nl /\ mf = nl + 1 /\ mf <= ml
        BY <3>2, <3>3, <3>5
      <4> HIDE DEF jf, jl, nf, nl, mf, ml
      <4>2. jf <= mf /\ jl <= ml
        BY <4>1
      <4> QED BY <4>2 DEF jf, jl, mf, ml
    <3> QED BY <2>1, <3>6
  <2> QED BY <2>2, <2>3
<1> HIDE DEF S
<1>4. Nat \subseteq S
  BY <1>2, <1>3, InductionOf
<1>5. k \in S
  BY <1>1, <1>4
<1> QED BY <1>5 DEF S

(* The episodes of block b are those behind the off[b - 1]-th, up to the       *)
(* off[b]-th.                                                                  *)
Spans(comp, off) ==
  LET eps == comp.episodes
      bks == comp.blocks
  IN  /\ Len(bks) \in Nat \ {0} /\ off \in [0 .. Len(bks) -> 0 .. Len(eps)]
      /\ off[0] = 0 /\ off[Len(bks)] = Len(eps)
      /\ \A a, b \in 0 .. Len(bks) : b = a + 1 =>
           /\ off[a] < off[b] /\ Len(bks[b].episodes) = off[b] - off[a]
           /\ \A j \in 1 .. Len(bks[b].episodes) :
                bks[b].episodes[j] = eps[off[a] + j].id
      /\ \A k \in 1 .. Len(eps) : \E b \in 1 .. Len(bks) :
           off[b - 1] < k /\ k <= off[b] /\ eps[k].block = bks[b].id

(* The blocks of a storable composition are consecutive stretches of its     *)
(* episodes.                                                                 *)
LEMMA BlocksSpan ==
  ASSUME NEW comp \in CompositionType, Storable(comp)
  PROVE  \E off : Spans(comp, off)
<1> DEFINE eps == comp.episodes
           bks == comp.blocks
           ss == [b \in DOMAIN bks |-> bks[b].episodes]
<1>1. /\ eps \in Seq(EpisodeType) /\ bks \in Seq(BlockType) /\ DOMAIN eps = 1 .. Len(eps)
      /\ DOMAIN bks = 1 .. Len(bks) /\ Len(bks) \in Nat
  BY CompositionFields
<1>2. /\ FlattenSeq(ss) = Ids(eps) /\ Covered(eps)
      /\ \A b \in 1 .. Len(bks) : bks[b].episodes # <<>>
      /\ \A b \in 1 .. Len(bks) : \A k \in 1 .. Len(eps) :
           eps[k].id \in ToSet(bks[b].episodes) => eps[k].block = bks[b].id
  BY <1>1 DEF Storable, BlocksHold
<1>3. \E k \in 1 .. Len(bks) : TRUE
  <2>1. 1 \in 1 .. Len(eps)
    BY <1>1, <1>2, CoveredIsContiguous DEF Contiguous
  <2> QED BY <2>1, ListedOnce DEF Storable
<1> HIDE DEF eps, bks
<1>4. ss \in Seq(Seq(Seq(Nat))) /\ Len(ss) = Len(bks)
  <2>1. ss \in [1 .. Len(bks) -> Seq(Seq(Nat))]
    BY <1>1, BlockAt DEF Refs
  <2> HIDE DEF ss
  <2> QED BY <1>1, <2>1, SequenceOf
<1>5. \A b \in 1 .. Len(bks) : ss[b] = bks[b].episodes
  BY <1>1
<1> HIDE DEF ss
<1>6. ss # <<>> /\ Len(bks) \in Nat \ {0}
  BY <1>1, <1>3, <1>4, EmptySeq
<1>7. PICK off : Places(ss, Ids(eps), off)
  BY <1>2, <1>4, <1>6, FlattenPlaces
<1>8. Len(Ids(eps)) = Len(eps) /\ \A k \in 1 .. Len(eps) : Ids(eps)[k] = eps[k].id
  BY <1>1, IdsOf
<1>9. /\ off \in [0 .. Len(bks) -> Nat] /\ off[0] = 0 /\ off[Len(bks)] = Len(eps)
      /\ \A i \in 1 .. Len(bks) : off[i] = off[i - 1] + Len(ss[i])
      /\ \A i \in 1 .. Len(bks) : \A j \in 1 .. Len(ss[i]) :
           off[i - 1] + j \in 1 .. Len(eps) /\ Ids(eps)[off[i - 1] + j] = ss[i][j]
      /\ \A k \in 1 .. Len(eps) : \E i \in 1 .. Len(bks) : \E j \in 1 .. Len(ss[i]) : k = off[i - 1] + j
  BY <1>4, <1>7, <1>8 DEF Places
<1>10. \A b \in 1 .. Len(bks) : /\ Len(ss[b]) \in Nat \ {0}
                                /\ ToSet(ss[b]) = {ss[b][j] : j \in 1 .. Len(ss[b])}
  <2> TAKE b \in 1 .. Len(bks)
  <2>1. ss[b] \in Seq(Seq(Nat)) /\ ss[b] # <<>>
    BY <1>2, <1>4, <1>5, ElementOfSeq
  <2> QED BY <2>1, ToSetOf
<1>11. ASSUME NEW a \in 0 .. Len(bks), NEW b \in 0 .. Len(bks), b = a + 1
       PROVE  /\ off[a] < off[b] /\ Len(bks[b].episodes) = off[b] - off[a]
              /\ off[a] \in Nat /\ off[b] \in Nat /\ off[b] <= Len(eps)
              /\ \A j \in 1 .. Len(bks[b].episodes) : bks[b].episodes[j] = eps[off[a] + j].id
  <2>1. b \in 1 .. Len(bks) /\ b - 1 = a
    BY <1>6, <1>11
  <2>2. off[b] = off[a] + Len(ss[b]) /\ off[a] \in Nat /\ Len(ss[b]) \in Nat \ {0} /\ ss[b] = bks[b].episodes
    BY <1>5, <1>9, <1>10, <2>1
  <2>3. \A j \in 1 .. Len(ss[b]) : off[a] + j \in 1 .. Len(eps) /\ ss[b][j] = eps[off[a] + j].id
    BY <1>8, <1>9, <2>1
  <2>4. off[b] <= Len(eps)
    <3>1. Len(ss[b]) \in 1 .. Len(ss[b])
      BY <2>2
    <3>2. off[a] + Len(ss[b]) \in 1 .. Len(eps)
      BY <2>3, <3>1
    <3> QED BY <1>1, <2>2, <3>2
  <2> QED BY <2>2, <2>3, <2>4, SMTT(30)
<1>12. off \in [0 .. Len(bks) -> 0 .. Len(eps)]
  <2>1. ASSUME NEW b \in 0 .. Len(bks) PROVE off[b] \in 0 .. Len(eps)
    <3>1. Len(eps) \in Nat
      BY <1>1, LenProperties
    <3>2. CASE b = 0
      BY <1>9, <3>1, <3>2
    <3>3. CASE b # 0
      <4>1. PICK a \in 0 .. Len(bks) : b = a + 1
        <5>1. b - 1 \in 0 .. Len(bks) /\ b = b - 1 + 1
          BY <1>6, <3>3
        <5> QED BY <5>1
      <4>2. off[b] \in Nat /\ off[b] <= Len(eps)
        BY <1>11, <4>1
      <4> QED BY <3>1, <4>2
    <3> QED BY <3>2, <3>3
  <2> QED BY <1>9, <2>1
<1>13. ASSUME NEW k \in 1 .. Len(eps)
       PROVE  \E b \in 1 .. Len(bks) : off[b - 1] < k /\ k <= off[b] /\ eps[k].block = bks[b].id
  <2>1. PICK b \in 1 .. Len(bks) : \E j \in 1 .. Len(ss[b]) : k = off[b - 1] + j
    BY <1>9
  <2>2. PICK j \in 1 .. Len(ss[b]) : k = off[b - 1] + j
    BY <2>1
  <2>3. off[b - 1] \in Nat /\ off[b] = off[b - 1] + Len(ss[b])
    <3>1. b - 1 \in 0 .. Len(bks)
      BY <1>6
    <3> QED BY <1>9, <3>1
  <2>4. off[b - 1] < k /\ k <= off[b]
    <3>1. Len(ss[b]) \in Nat /\ j \in Nat /\ 1 <= j /\ j <= Len(ss[b])
      BY <1>10
    <3> QED BY <2>2, <2>3, <3>1
  <2>5. eps[k].id \in ToSet(bks[b].episodes)
    <3>1. ss[b][j] = eps[k].id
      BY <1>8, <1>9, <2>2
    <3>2. ss[b][j] \in ToSet(ss[b])
      BY <1>10
    <3> QED BY <1>5, <3>1, <3>2
  <2> QED BY <1>2, <2>4, <2>5
<1>14. Spans(comp, off)
  BY <1>6, <1>9, <1>11, <1>12, <1>13 DEF Spans, eps, bks
<1> QED BY <1>14

EventRow == [id : Seq(Nat) \X Nat, episode : Seq(Nat), event : Nat]
EventRows(e) ==
  [j \in 1 .. e.last - e.first + 1 |->
    [id |-> <<e.id, j>>, episode |-> e.id, event |-> e.first + j - 1]]

(* The catalog rows of an episode are its micro-events, in order.            *)
LEMMA EventRowsOf ==
  ASSUME NEW e \in EpisodeType, Valid(e)
  PROVE  /\ MicroEventIndexes(EpisodeJson(e)) = EventRows(e)
         /\ EventRows(e) \in Seq(EventRow) /\ Len(EventRows(e)) = e.last - e.first + 1
         /\ e.last - e.first + 1 \in Nat
<1> DEFINE n == e.last - e.first + 1
           evs == MicroEventJsons(e)
<1>1. e.id \in Seq(Nat) /\ e.first \in 1 .. N /\ e.last \in 1 .. N /\ e.first <= e.last /\ N \in Nat
  BY MicroEventAt DEF EpisodeType, Valid
<1>2. n \in Nat
  BY <1>1
<1>3. evs = [j \in 1 .. n |-> [id |-> <<e.id, j>>, event |-> e.first + j - 1]]
  BY DEF MicroEventJsons
<1>4. EpisodeJson(e).events = evs /\ EpisodeJson(e).id = e.id
  BY DEF EpisodeJson
<1> HIDE DEF n
<1>5. DOMAIN evs = 1 .. n /\ \A j \in 1 .. n : evs[j].id = <<e.id, j>> /\ evs[j].event = e.first + j - 1
  BY <1>3
<1> HIDE DEF evs
<1>6. MicroEventIndexes(EpisodeJson(e)) =
        [j \in 1 .. n |-> [id |-> <<e.id, j>>, episode |-> e.id, event |-> e.first + j - 1]]
  <2>1. MicroEventIndexes(EpisodeJson(e)) =
          [j \in DOMAIN evs |-> [id |-> evs[j].id, episode |-> e.id, event |-> evs[j].event]]
    BY <1>4 DEF MicroEventIndexes
  <2> QED BY <1>5, <2>1
<1>7. EventRows(e) = [j \in 1 .. n |-> [id |-> <<e.id, j>>, episode |-> e.id, event |-> e.first + j - 1]]
  BY DEF EventRows, n
<1>8. EventRows(e) \in [1 .. n -> EventRow]
  <2>1. ASSUME NEW j \in 1 .. n
        PROVE  [id |-> <<e.id, j>>, episode |-> e.id, event |-> e.first + j - 1] \in EventRow
    <3>1. j \in Nat /\ e.first + j - 1 \in Nat
      BY <1>1, <1>2
    <3> QED BY <1>1, <3>1 DEF EventRow
  <2> QED BY <1>7, <2>1
<1>9. EventRows(e) \in Seq(EventRow) /\ Len(EventRows(e)) = n
  BY <1>2, <1>8, SequenceOf
<1> QED BY <1>2, <1>6, <1>7, <1>9 DEF n

(* Every micro-event is listed once, in order, under a name of its own.        *)
LEMMA EventsAreListed ==
  ASSUME NEW eps \in Seq(EpisodeType), Contiguous(eps), UniqueIds(eps)
  PROVE  LET events == FlattenSeq([k \in DOMAIN eps |-> EventRows(eps[k])])
         IN  /\ [m \in DOMAIN events |-> events[m].event] = [m \in 1 .. N |-> m]
             /\ UniqueIds(events)
<1> DEFINE L == Len(eps)
           ss == [k \in DOMAIN eps |-> EventRows(eps[k])]
           events == FlattenSeq(ss)
<1>1. /\ L \in Nat \ {0} /\ DOMAIN eps = 1 .. L /\ N \in Nat
      /\ \A k \in 1 .. L : /\ eps[k] \in EpisodeType /\ Valid(eps[k])
                           /\ eps[k].first \in 1 .. N /\ eps[k].last \in 1 .. N
      /\ \A j, k \in 1 .. L : k = j + 1 => eps[k].first = eps[j].last + 1
      /\ eps[1].first = 1 /\ eps[L].last = N
  BY LenProperties, MicroEventAt, EpisodeAt DEF Contiguous, Valid
<1>2. \A i, k \in 1 .. L : eps[i].id = eps[k].id => i = k
  BY UniqueIdsAre
<1> HIDE DEF L
<1>3. \A k \in 1 .. L : ss[k] = EventRows(eps[k])
  BY <1>1
<1>4. ss \in Seq(Seq(EventRow)) /\ Len(ss) = L /\ ss # <<>>
  <2>1. ss \in [1 .. L -> Seq(EventRow)]
    BY <1>1, EventRowsOf
  <2> HIDE DEF ss
  <2>2. ss \in Seq(Seq(EventRow)) /\ Len(ss) = L
    BY <1>1, <2>1, SequenceOf
  <2> QED BY <1>1, <2>2, EmptySeq
<1> HIDE DEF ss
<1>5. events \in Seq(EventRow) /\ \E off : Places(ss, events, off)
  BY <1>4, FlattenPlaces
<1> HIDE DEF events
<1>6. PICK off : Places(ss, events, off)
  BY <1>5
<1>7. \A k \in 1 .. L : Len(ss[k]) = eps[k].last - eps[k].first + 1
  BY <1>1, <1>3, EventRowsOf
<1>8. /\ off \in [0 .. L -> Nat] /\ off[0] = 0 /\ off[L] = Len(events)
      /\ \A k \in 1 .. L : off[k] = off[k - 1] + (eps[k].last - eps[k].first + 1)
      /\ \A k \in 1 .. L : \A j \in 1 .. Len(ss[k]) :
           off[k - 1] + j \in 1 .. Len(events) /\ events[off[k - 1] + j] = ss[k][j]
      /\ \A m \in 1 .. Len(events) : \E k \in 1 .. L : \E j \in 1 .. Len(ss[k]) : m = off[k - 1] + j
  BY <1>4, <1>6, <1>7 DEF Places
<1>9. \A k \in 1 .. L : off[k] = eps[k].last
  <2> DEFINE S == {n \in Nat : n \in 1 .. L => off[n] = eps[n].last}
  <2>1. 0 \in S
    OBVIOUS
  <2>2. ASSUME NEW n \in Nat, n \in S PROVE n + 1 \in S
    <3> SUFFICES ASSUME n + 1 \in 1 .. L PROVE off[n + 1] = eps[n + 1].last
      OBVIOUS
    <3>1. PICK m \in 1 .. L : m = n + 1
      OBVIOUS
    <3>2. off[m] = off[n] + (eps[m].last - eps[m].first + 1)
      BY <1>8, <3>1
    <3>3. off[n] + 1 = eps[m].first
      <4>1. CASE n = 0
        <5>1. off[n] = 0 /\ m = 1
          BY <1>8, <3>1, <4>1
        <5> QED BY <1>1, <5>1
      <4>2. CASE n # 0
        <5>1. n \in 1 .. L
          BY <1>1, <3>1, <4>2
        <5>2. off[n] = eps[n].last
          BY <2>2, <5>1
        <5> QED BY <1>1, <3>1, <5>1, <5>2
      <4> QED BY <4>1, <4>2
    <3>4. eps[m].first \in Int /\ eps[m].last \in Int /\ off[n] \in Int
      <4>1. n \in 0 .. L
        BY <1>1, <3>1
      <4>2. off[n] \in Nat
        BY <1>8, <4>1
      <4>3. eps[m].first \in 1 .. N /\ eps[m].last \in 1 .. N
        BY <1>1
      <4> QED BY <4>2, <4>3
    <3>5. off[m] = eps[m].last
      <4> DEFINE f == eps[m].first
                 l == eps[m].last
                 o == off[n]
      <4>1. f \in Int /\ l \in Int /\ o \in Int /\ off[m] = o + (l - f + 1) /\ o + 1 = f
        BY <3>2, <3>3, <3>4
      <4> HIDE DEF f, l, o
      <4>2. off[m] = l
        BY <4>1
      <4> QED BY <4>2 DEF l
    <3> QED BY <3>1, <3>5
  <2> HIDE DEF S
  <2>3. Nat \subseteq S
    BY <2>1, <2>2, InductionOf
  <2>4. ASSUME NEW k \in 1 .. L PROVE off[k] = eps[k].last
    <3>1. k \in S
      BY <1>1, <2>3
    <3> QED BY <3>1 DEF S
  <2> QED BY <2>4
<1>10. Len(events) = N
  <2>1. L \in 1 .. L
    BY <1>1
  <2> QED BY <1>1, <1>8, <1>9, <2>1
<1>11. ASSUME NEW m \in 1 .. N
       PROVE  \E k \in 1 .. L : \E j \in Nat :
                /\ m = off[k - 1] + j /\ events[m].id = <<eps[k].id, j>> /\ events[m].event = m
  <2>1. PICK k \in 1 .. L : \E j \in 1 .. Len(ss[k]) : m = off[k - 1] + j
    BY <1>8, <1>10
  <2>2. PICK j \in 1 .. Len(ss[k]) : m = off[k - 1] + j
    BY <2>1
  <2>3. events[m] = ss[k][j]
    BY <1>8, <2>2
  <2>4. j \in 1 .. eps[k].last - eps[k].first + 1 /\ j \in Nat
    BY <1>7
  <2>5. events[m] = [id |-> <<eps[k].id, j>>, episode |-> eps[k].id, event |-> eps[k].first + j - 1]
    BY <1>3, <2>3, <2>4 DEF EventRows
  <2>6. off[k - 1] + 1 = eps[k].first
    <3>1. CASE k = 1
      BY <1>1, <1>8, <3>1
    <3>2. CASE k # 1
      <4>1. PICK i \in 1 .. L : k = i + 1
        <5>1. k - 1 \in 1 .. L /\ k = k - 1 + 1
          BY <1>1, <3>2
        <5> QED BY <5>1
      <4>2. k - 1 = i
        BY <1>1, <4>1
      <4> QED BY <1>1, <1>9, <4>1, <4>2
    <3> QED BY <3>1, <3>2
  <2>7. off[k - 1] \in Nat
    <3>1. k - 1 \in 0 .. L
      BY <1>1
    <3> QED BY <1>8, <3>1
  <2>8. eps[k].first + j - 1 = m
    <3> DEFINE f == eps[k].first
               o == off[k - 1]
    <3>1. f = o + 1 /\ o \in Nat /\ m = o + j
      BY <2>2, <2>6, <2>7
    <3> HIDE DEF f, o
    <3>2. f + j - 1 = m
      BY <2>4, <3>1
    <3> QED BY <3>2 DEF f
  <2> QED BY <2>2, <2>4, <2>5, <2>8
<1>12. DOMAIN events = 1 .. N
  BY <1>5, <1>10, LenProperties
<1>13. [m \in DOMAIN events |-> events[m].event] = [m \in 1 .. N |-> m]
  BY <1>11, <1>12
<1>14. ASSUME NEW m \in 1 .. N, NEW q \in 1 .. N, events[m].id = events[q].id PROVE m = q
  <2>1. PICK k \in 1 .. L : \E j \in Nat : m = off[k - 1] + j /\ events[m].id = <<eps[k].id, j>>
    BY <1>11
  <2>2. PICK j \in Nat : m = off[k - 1] + j /\ events[m].id = <<eps[k].id, j>>
    BY <2>1
  <2>3. PICK i \in 1 .. L : \E h \in Nat : q = off[i - 1] + h /\ events[q].id = <<eps[i].id, h>>
    BY <1>11
  <2>4. PICK h \in Nat : q = off[i - 1] + h /\ events[q].id = <<eps[i].id, h>>
    BY <2>3
  <2>5. eps[k].id = eps[i].id /\ j = h
    BY <1>14, <2>2, <2>4
  <2>6. k = i
    BY <1>2, <2>5
  <2> QED BY <2>2, <2>4, <2>5, <2>6
<1>15. UniqueIds(events)
  BY <1>5, <1>10, <1>14, UniqueIdsAre
<1> QED BY <1>13, <1>15 DEF events, ss

(* A block lists its own episodes, and spans from the first to the last.       *)
LEMMA BlockRow ==
  ASSUME NEW comp \in CompositionType, Storable(comp), NEW off, Spans(comp, off),
         NEW a \in 0 .. Len(comp.blocks), NEW b \in 0 .. Len(comp.blocks), b = a + 1
  PROVE  LET index == TimelineIndex(Artifact(comp))
         IN  /\ index.blocks[b].id = comp.blocks[b].id
             /\ index.blocks[b].start = comp.episodes[off[a] + 1].first
             /\ index.blocks[b].end = comp.episodes[off[b]].last
<1> DEFINE eps == comp.episodes
           bks == comp.blocks
           L == Len(eps)
           jsons == [k \in DOMAIN eps |-> EpisodeJson(eps[k])]
           refs == bks[b].episodes
           own == BlockEpisodes(refs, jsons)
           block == [id |-> bks[b].id, refs |-> refs, episodes |-> own]
           index == TimelineIndex(Artifact(comp))
           n == off[b] - off[a]
<1>1. /\ eps \in Seq(EpisodeType) /\ bks \in Seq(BlockType) /\ DOMAIN eps = 1 .. L
      /\ DOMAIN bks = 1 .. Len(bks) /\ L \in Nat
  BY CompositionFields
<1>2. b \in 1 .. Len(bks) /\ b \in DOMAIN bks
  <2>1. Len(bks) \in Nat
    BY LenProperties, <1>1
  <2> QED BY <1>1, <2>1
<1>3. /\ off[a] \in 0 .. L /\ off[b] \in 0 .. L /\ off[a] < off[b]
      /\ Len(refs) = n /\ \A j \in 1 .. n : refs[j] = eps[off[a] + j].id
  <2>1. /\ off \in [0 .. Len(bks) -> 0 .. L]
        /\ \A x, y \in 0 .. Len(bks) : y = x + 1 =>
             /\ off[x] < off[y] /\ Len(bks[y].episodes) = off[y] - off[x]
             /\ \A j \in 1 .. Len(bks[y].episodes) : bks[y].episodes[j] = eps[off[x] + j].id
    BY DEF Spans
  <2> HIDE DEF eps, L, jsons, own, index
  <2>2. /\ off[a] \in 0 .. L /\ off[b] \in 0 .. L /\ off[a] < off[b] /\ Len(refs) = n
    BY <2>1
  <2> QED BY <2>1, <2>2
<1>4. \A j, k \in 1 .. L : eps[j].id = eps[k].id => j = k
  BY <1>1, UniqueIdsAre DEF Storable
<1>5. index.blocks[b] = BlockIndex(block)
  <2> DEFINE made(c) == [id |-> c.id, refs |-> c.episodes, episodes |-> BlockEpisodes(c.episodes, jsons)]
  <2>1. Artifact(comp).blocks = [k \in DOMAIN bks |-> made(bks[k])]
    BY DEF Artifact
  <2>2. index.blocks = [c \in DOMAIN Artifact(comp).blocks |-> BlockIndex(Artifact(comp).blocks[c])]
    BY DEF TimelineIndex
  <2> HIDE DEF index, made, bks
  <2>3. index.blocks[b] = BlockIndex(made(bks[b]))
    BY <1>2, <2>1, <2>2
  <2> QED BY <2>3 DEF made
<1> HIDE DEF index
<1>6. DOMAIN jsons = 1 .. L
      /\ \A k \in 1 .. L : jsons[k].id = eps[k].id /\ jsons[k].start = eps[k].first /\ jsons[k].end = eps[k].last
  BY <1>1 DEF EpisodeJson
<1> HIDE DEF jsons, eps, bks, L
<1>7. DOMAIN refs = 1 .. n /\ n \in Nat
  <2>1. refs \in Refs
    BY <1>1, <1>2, BlockAt
  <2> QED BY <1>3, <2>1, LenProperties DEF Refs
<1> HIDE DEF refs
<1>8. n # 0 /\ \A j \in 1 .. n : off[a] + j \in 1 .. L
  BY <1>1, <1>3
<1> HIDE DEF n
<1>9. ASSUME NEW j \in 1 .. n PROVE own[j] = jsons[off[a] + j]
  <2> DEFINE named == {m \in DOMAIN jsons : jsons[m].id = refs[j]}
  <2>1. PICK k \in 1 .. L : k = off[a] + j
    BY <1>8
  <2>2. named = {k}
    BY <1>3, <1>4, <1>6, <2>1, SMTT(30)
  <2>3. own[j] = jsons[Max(named)]
    BY <1>7 DEF BlockEpisodes
  <2> HIDE DEF named
  <2>4. Max({k}) = k
    <3>1. {k} \subseteq 1 .. L /\ {k} # {} /\ L \in Nat
      BY <1>1
    <3>2. Max({k}) \in {k}
      BY <3>1, MaxOfInterval
    <3> QED BY <3>2
  <2> QED BY <2>1, <2>2, <2>3, <2>4
<1>10. own \in Seq({jsons[k] : k \in 1 .. L}) /\ Len(own) = n
  <2>1. own = [j \in 1 .. n |-> own[j]]
    BY <1>7 DEF BlockEpisodes
  <2>2. \A j \in 1 .. n : own[j] \in {jsons[k] : k \in 1 .. L}
    BY <1>8, <1>9
  <2> HIDE DEF own
  <2>3. own \in [1 .. n -> {jsons[k] : k \in 1 .. L}]
    BY <2>1, <2>2
  <2> QED BY <1>7, <2>3, SequenceOf
<1> HIDE DEF own
<1>11. own # <<>> /\ Head(own) = own[1] /\ Last(own) = own[n]
  BY <1>8, <1>10, EmptySeq DEF Last
<1>12. own[1] = jsons[off[a] + 1] /\ own[n] = jsons[off[b]]
  <2>1. 1 \in 1 .. n /\ n \in 1 .. n
    BY <1>7, <1>8
  <2>2. off[a] + n = off[b]
    BY <1>3 DEF n
  <2> QED BY <1>9, <2>1, <2>2
<1>13. off[a] + 1 \in 1 .. L /\ off[b] \in 1 .. L
  BY <1>1, <1>3
<1>14. BlockIndex(block) = [id |-> bks[b].id, start |-> own[1].start, end |-> own[n].end, count |-> n]
  BY <1>10, <1>11 DEF BlockIndex
<1> QED BY <1>5, <1>6, <1>12, <1>13, <1>14 DEF index, eps, bks

(* The catalog built from a whole composition divides the stream as it       *)
(* does.                                                                     *)
LEMMA CatalogOfWhole ==
  ASSUME NEW comp \in CompositionType, Whole(comp)
  PROVE  Publishable(comp) /\ DividesTheStream(TimelineIndex(Artifact(comp)))
<1> DEFINE eps == comp.episodes
           bks == comp.blocks
           index == TimelineIndex(Artifact(comp))
<1>1. /\ eps \in Seq(EpisodeType) /\ bks \in Seq(BlockType) /\ DOMAIN eps = 1 .. Len(eps)
      /\ DOMAIN bks = 1 .. Len(bks)
  BY CompositionFields
<1>2. Storable(comp) /\ Contiguous(eps) /\ UniqueIds(eps)
  BY <1>1, CoveredIsContiguous DEF Whole, Storable
<1>3. PICK off : Spans(comp, off)
  BY <1>2, BlocksSpan
<1>4. /\ Len(eps) \in Nat \ {0}
      /\ \A k \in 1 .. Len(eps) :
           eps[k].first \in 1 .. N /\ eps[k].last \in 1 .. N /\ eps[k].first <= eps[k].last
      /\ eps[1].first = 1 /\ eps[Len(eps)].last = N
      /\ \A j, k \in 1 .. Len(eps) : k = j + 1 => eps[k].first = eps[j].last + 1
  BY <1>2 DEF Contiguous
<1>5. /\ Len(bks) \in Nat \ {0} /\ off \in [0 .. Len(bks) -> 0 .. Len(eps)]
      /\ off[0] = 0 /\ off[Len(bks)] = Len(eps)
      /\ \A a, b \in 0 .. Len(bks) : b = a + 1 => off[a] < off[b]
      /\ \A k \in 1 .. Len(eps) : \E b \in 1 .. Len(bks) :
           off[b - 1] < k /\ k <= off[b] /\ eps[k].block = bks[b].id
  BY <1>3 DEF Spans
<1>6. ASSUME NEW a \in 0 .. Len(bks), NEW b \in 0 .. Len(bks), b = a + 1
      PROVE  /\ index.blocks[b].id = bks[b].id
             /\ index.blocks[b].start = eps[off[a] + 1].first
             /\ index.blocks[b].end = eps[off[b]].last
  BY <1>2, <1>3, <1>6, BlockRow
<1>7. Publishable(comp)
  <2>1. \A k \in DOMAIN eps : Valid(eps[k])
    BY <1>1, <1>4 DEF Valid
  <2>2. \A b \in DOMAIN bks : ToSet(bks[b].episodes) \subseteq ToSet(Ids(eps))
    BY <1>1, <1>2, ListedOnce, SMTT(30) DEF Storable
  <2> QED BY <2>1, <2>2, SMTT(30) DEF Publishable
<1>8. /\ DOMAIN index.blocks = 1 .. Len(bks) /\ DOMAIN index.episodes = 1 .. Len(eps)
      /\ \A k \in 1 .. Len(eps) :
           /\ index.episodes[k].block = eps[k].block /\ index.episodes[k].start = eps[k].first
           /\ index.episodes[k].end = eps[k].last
  BY <1>1, ZenonT(30) DEF TimelineIndex, Artifact, EpisodeIndex, EpisodeJson
<1>9. index.events = FlattenSeq([k \in DOMAIN eps |-> EventRows(eps[k])])
  <2> DEFINE jsons == [k \in DOMAIN eps |-> EpisodeJson(eps[k])]
  <2>1. index.events = FlattenSeq([k \in DOMAIN jsons |-> MicroEventIndexes(jsons[k])])
    BY DEF TimelineIndex, Artifact
  <2>2. \A k \in 1 .. Len(eps) : MicroEventIndexes(EpisodeJson(eps[k])) = EventRows(eps[k])
    BY <1>1, <1>4, EpisodeAt, EventRowsOf DEF Valid
  <2>3. [k \in DOMAIN jsons |-> MicroEventIndexes(jsons[k])] = [k \in DOMAIN eps |-> EventRows(eps[k])]
    BY <1>1, <2>2
  <2> QED BY <2>1, <2>3
<1>10. /\ [m \in DOMAIN index.events |-> index.events[m].event] = [m \in 1 .. N |-> m]
       /\ UniqueIds(index.events)
  <2> DEFINE events == FlattenSeq([k \in DOMAIN eps |-> EventRows(eps[k])])
  <2>1. /\ [m \in DOMAIN events |-> events[m].event] = [m \in 1 .. N |-> m]
        /\ UniqueIds(events)
    BY <1>1, <1>2, EventsAreListed
  <2>2. index.events = events
    BY <1>9
  <2> HIDE DEF events, index
  <2> QED BY <2>1, <2>2
<1>11. Last(index.blocks) = index.blocks[Len(bks)]
  <2>1. Len(index.blocks) = Len(bks)
    <3>1. index.blocks \in [1 .. Len(bks) -> {index.blocks[b] : b \in 1 .. Len(bks)}]
      <4>1. index.blocks = [b \in DOMAIN index.blocks |-> index.blocks[b]]
        BY DEF TimelineIndex
      <4> HIDE DEF index
      <4> QED BY <1>8, <4>1
    <3> HIDE DEF index
    <3>2. Len(bks) \in Nat
      BY <1>5
    <3> QED BY <3>1, <3>2, SequenceOf
  <2> QED BY <2>1 DEF Last
<1> HIDE DEF index, eps, bks
<1>12. ASSUME NEW b \in 1 .. Len(bks)
       PROVE  /\ b - 1 \in 0 .. Len(bks) /\ b \in 0 .. Len(bks) /\ b = b - 1 + 1
              /\ off[b - 1] \in 0 .. Len(eps) /\ off[b] \in 0 .. Len(eps) /\ off[b - 1] < off[b]
              /\ index.blocks[b].id = bks[b].id
              /\ index.blocks[b].start = eps[off[b - 1] + 1].first
              /\ index.blocks[b].end = eps[off[b]].last
  <2>1. PICK a \in 0 .. Len(bks) : a = b - 1
    <3>1. b - 1 \in 0 .. Len(bks)
      BY <1>5
    <3> QED BY <3>1
  <2>2. b \in 0 .. Len(bks) /\ b = a + 1
    BY <1>5, <2>1
  <2>3. /\ index.blocks[b].id = bks[b].id /\ index.blocks[b].start = eps[off[a] + 1].first
        /\ index.blocks[b].end = eps[off[b]].last
    BY <1>6, <2>2
  <2>4. off[a] \in 0 .. Len(eps) /\ off[b] \in 0 .. Len(eps) /\ off[a] < off[b]
    BY <1>5, <2>2
  <2> QED BY <2>1, <2>2, <2>3, <2>4
<1>13. ASSUME NEW b \in 1 .. Len(bks)
       PROVE  index.blocks[b].start = IF b = 1 THEN 1 ELSE index.blocks[b - 1].end + 1
  <2>1. index.blocks[b].start = eps[off[b - 1] + 1].first
    BY <1>12
  <2>2. CASE b = 1
    <3>1. off[b - 1] = 0
      BY <1>5, <2>2
    <3> QED BY <1>4, <2>1, <2>2, <3>1
  <2>3. CASE b # 1
    <3>1. PICK c \in 1 .. Len(bks) : c = b - 1
      <4>1. b - 1 \in 1 .. Len(bks)
        BY <1>5, <2>3
      <4> QED BY <4>1
    <3>2. off[c] \in 1 .. Len(eps) /\ off[c] < off[b] /\ off[b] \in 0 .. Len(eps)
      <4>1. off[c - 1] < off[c] /\ off[c - 1] \in 0 .. Len(eps) /\ off[c] \in 0 .. Len(eps)
        BY <1>12
      <4>2. off[c] < off[b] /\ off[b] \in 0 .. Len(eps)
        BY <1>12, <3>1
      <4> QED BY <1>4, <4>1, <4>2
    <3>3. off[c] + 1 \in 1 .. Len(eps)
      BY <1>4, <3>2
    <3>4. eps[off[c] + 1].first = eps[off[c]].last + 1
      BY <1>4, <3>2, <3>3
    <3>5. index.blocks[c].end = eps[off[c]].last
      BY <1>12
    <3> QED BY <2>1, <2>3, <3>1, <3>4, <3>5
  <2> QED BY <2>2, <2>3
<1>14. Last(index.blocks).end = N
  <2>1. Len(bks) \in 1 .. Len(bks)
    BY <1>5
  <2>2. index.blocks[Len(bks)].end = eps[off[Len(bks)]].last
    BY <1>12, <2>1
  <2> QED BY <1>4, <1>5, <1>11, <2>2
<1>15. ASSUME NEW k \in 1 .. Len(eps)
       PROVE  \E b \in 1 .. Len(bks) :
                /\ index.blocks[b].id = index.episodes[k].block
                /\ index.blocks[b].start <= index.episodes[k].start
                /\ index.episodes[k].end <= index.blocks[b].end
  <2>1. PICK b \in 1 .. Len(bks) : off[b - 1] < k /\ k <= off[b] /\ eps[k].block = bks[b].id
    BY <1>5
  <2>2. /\ off[b - 1] \in 0 .. Len(eps) /\ off[b] \in 0 .. Len(eps)
        /\ index.blocks[b].id = bks[b].id /\ index.blocks[b].start = eps[off[b - 1] + 1].first
        /\ index.blocks[b].end = eps[off[b]].last
    BY <1>12
  <2>3. PICK i \in 1 .. k : i = off[b - 1] + 1
    <3>1. off[b - 1] + 1 \in 1 .. k
      BY <1>4, <2>1, <2>2, SMTT(30)
    <3> QED BY <3>1
  <2>4. off[b] \in 1 .. Len(eps) /\ k \in 1 .. off[b]
    BY <1>4, <2>1, <2>2
  <2>5. eps[i].first <= eps[k].first
    BY <1>2, <2>3, ContiguousGrows
  <2>6. eps[k].last <= eps[off[b]].last
    BY <1>2, <2>4, ContiguousGrows
  <2>7. /\ index.episodes[k].block = eps[k].block /\ index.episodes[k].start = eps[k].first
        /\ index.episodes[k].end = eps[k].last
    BY <1>8
  <2> QED BY <2>1, <2>2, <2>3, <2>5, <2>6, <2>7
<1>16. DividesTheStream(index)
  BY <1>8, <1>10, <1>13, <1>14, <1>15 DEF DividesTheStream
<1> QED BY <1>7, <1>16 DEF index

-----------------------------------------------------------------------------
(* The theorems.                                                               *)

(* Whatever the model answers and however attempts, patches and other videos   *)
(* interleave, every value has its type: a target is clipped to the stream,    *)
(* a repair replaces episodes that are there, counters stay within limits      *)
(* (normalization.py, coverage_repair.py, semantic_repair.py).                 *)
THEOREM TimelineTypes == Spec => []TypeOK
BY TimelineIsInvariant, PTL DEF TimelineInvariant

(* What is stored is whole: it covers every micro-event once, every episode is *)
(* in the block it names, and ids and block numbers are unique.  Patches check *)
(* only the blocks (patch_use_cases.py), and a new row may find the children   *)
(* of a deleted one (repository.py); neither spoils it.                        *)
THEOREM StoredIsAlwaysWhole == Spec => []StoredIsWhole
<1>1. TimelineInvariant => StoredIsWhole
  BY DEF TimelineInvariant, WholeOrNothing, Whole, StoredIsWhole
<1> QED BY <1>1, TimelineIsInvariant, PTL

(* What is stored can be published at any time, and its rows of the catalog    *)
(* divide the stream (archive_publish/use_cases.py).                           *)
THEOREM CatalogAlwaysFollows == Spec => []CatalogFollowsTimeline
<1>1. TimelineInvariant => CatalogFollowsTimeline
  <2> SUFFICES ASSUME TimelineInvariant, stored # Nothing
               PROVE  Publishable(stored) /\ DividesTheStream(TimelineIndex(Artifact(stored)))
    BY DEF CatalogFollowsTimeline
  <2>1. stored \in CompositionType /\ Whole(stored)
    BY DEF TimelineInvariant, WholeOrNothing, TypeOK
  <2> QED BY <2>1, CatalogOfWhole
<1> QED BY <1>1, TimelineIsInvariant, PTL

(* No repair, split or arrangement leaves a topic empty or with a reference    *)
(* to an episode it replaced, nor with one reference only, if every topic of   *)
(* the draft names two episodes (coverage_repair.py, semantic_repair.py).      *)
THEOREM TopicsAlwaysResolve == Spec => []TopicsResolve
<1>1. ASSUME NEW comp \in CompositionType, Resolves(comp.topics, ToSet(Ids(comp.episodes)))
      PROVE  \A t \in DOMAIN comp.topics :
               comp.topics[t] # <<>> /\ ToSet(comp.topics[t]) \subseteq ToSet(Ids(comp.episodes))
  BY <1>1, CompositionFields DEF Resolves
<1>2. ASSUME NEW refs \in Refs, Cardinality(ToSet(refs)) >= 2 PROVE \E a, b \in ToSet(refs) : a # b
  <2> SUFFICES ASSUME \A a, b \in ToSet(refs) : a = b PROVE FALSE
    OBVIOUS
  <2>1. CASE ToSet(refs) = {}
    BY <1>2, <2>1, FS_EmptySet
  <2>2. CASE ToSet(refs) # {}
    <3>1. PICK a \in ToSet(refs) : TRUE
      BY <2>2
    <3>2. ToSet(refs) = {a}
      BY <3>1
    <3> QED BY <1>2, <3>2, FS_Singleton
  <2> QED BY <2>1, <2>2
<1>3. ASSUME NEW refs \in Refs, NEW a \in ToSet(refs), NEW b \in ToSet(refs), a # b PROVE Len(refs) >= 2
  <2>1. ToSet(refs) = {refs[i] : i \in 1 .. Len(refs)} /\ Len(refs) \in Nat
    BY ToSetOf DEF Refs
  <2>2. PICK i \in 1 .. Len(refs) : refs[i] = a
    BY <2>1
  <2>3. PICK j \in 1 .. Len(refs) : refs[j] = b
    BY <2>1
  <2>4. i # j
    BY <1>3, <2>2, <2>3
  <2> QED BY <2>1, <2>4
<1>4. TimelineInvariant => TopicsResolve
  <2> SUFFICES ASSUME TimelineInvariant PROVE TopicsResolve
    OBVIOUS
  <2>1. composition \in CompositionType /\ stored \in CompositionType /\ given \in CompositionType
    BY DEF TimelineInvariant, TypeOK
  <2>2. Resolves(composition.topics, ToSet(Ids(composition.episodes)))
    BY DEF TimelineInvariant
  <2>3. Resolves(stored.topics, ToSet(Ids(stored.episodes)))
    BY NothingIs DEF TimelineInvariant, WholeOrNothing, Whole
  <2>4. Plural(given.topics) => Plural(composition.topics)
    BY DEF TimelineInvariant
  <2>5. \A tps \in Seq(Refs) : \A t \in DOMAIN tps : tps[t] \in Refs /\ t \in 1 .. Len(tps)
    BY ElementOfSeq, LenProperties
  <2>6. ASSUME \A t \in DOMAIN given.topics : Cardinality(ToSet(given.topics[t])) >= 2
        PROVE  Plural(given.topics)
    BY <1>2, <2>1, <2>5, <2>6, CompositionFields DEF Plural
  <2>7. ASSUME Plural(composition.topics), NEW t \in DOMAIN composition.topics
        PROVE  Len(composition.topics[t]) >= 2
    <3>1. composition.topics[t] \in Refs /\ t \in 1 .. Len(composition.topics)
      BY <2>1, <2>5, CompositionFields
    <3>2. PICK a, b \in ToSet(composition.topics[t]) : a # b
      BY <2>7, <3>1 DEF Plural
    <3> QED BY <1>3, <3>1, <3>2
  <2>8. /\ \A t \in DOMAIN composition.topics :
             /\ composition.topics[t] # <<>>
             /\ ToSet(composition.topics[t]) \subseteq ToSet(Ids(composition.episodes))
        /\ \A t \in DOMAIN stored.topics :
             /\ stored.topics[t] # <<>>
             /\ ToSet(stored.topics[t]) \subseteq ToSet(Ids(stored.episodes))
    BY <1>1, <2>1, <2>2, <2>3
  <2> QED BY <2>4, <2>6, <2>7, <2>8 DEF TopicsResolve
<1> QED BY <1>4, TimelineIsInvariant, PTL

(* What an attempt or a patch stores is read back as it was written: no child  *)
(* of a deleted composition is ever mixed in (repository.py).                  *)
AsWritten ==
  /\ Store => stored' = composition
  /\ \A p \in Patchers : PatchWrites(p) => stored' \in Patched(patching[p])

(* Nothing is read back of a store other than what the store was given.        *)
THEOREM StoredAsWritten == Spec => [][AsWritten]_vars
<1>1. ASSUME TimelineInvariant, Store PROVE stored' = composition
  <2>1. composition \in CompositionType /\ Whole(composition)
    BY <1>1, PartsOfTheInvariant, ValidatedIsWhole DEF Store, AttemptOK
  <2>2. orphans \in CompositionType /\ WholeOrNothing(orphans)
    BY <1>1, PartsOfTheInvariant DEF TablesOK
  <2>3. CanReplace(composition) /\ Replace(composition)
    BY <1>1 DEF Store
  <2> QED BY <2>1, <2>2, <2>3, StoredAsItIs
<1>2. ASSUME TimelineInvariant, NEW p \in Patchers, PatchWrites(p)
      PROVE  stored' \in Patched(patching[p])
  <2>1. patching[p] # Nothing
    BY <1>2 DEF PatchWrites
  <2>2. patching[p] \in CompositionType /\ Whole(patching[p])
    BY <1>2, <2>1, PartsOfTheInvariant DEF RequestsOK, WholeOrNothing
  <2>3. PICK comp \in Patched(patching[p]) : CanReplace(comp) /\ Replace(comp)
    BY <1>2 DEF PatchWrites
  <2>4. comp \in CompositionType /\ Whole(comp)
    BY <2>2, PatchedIsWhole
  <2>5. orphans \in CompositionType /\ WholeOrNothing(orphans)
    BY <1>2, PartsOfTheInvariant DEF TablesOK
  <2>6. stored' = comp
    BY <2>3, <2>4, <2>5, StoredAsItIs
  <2> QED BY <2>6
<1>3. TimelineInvariant /\ [Next]_vars => [AsWritten]_vars
  BY <1>1, <1>2 DEF AsWritten
<1> QED BY <1>3, TimelineIsInvariant, PTL DEF Spec

(* A draft that needs no more repairs than both rounds may make becomes         *)
(* storable, whatever the model answers.                                        *)
THEOREM RepairedAlwaysStorable == Spec => []RepairedIsStorable
<1>1. TimelineInvariant /\ AttemptSound => RepairedIsStorable
  <2> SUFFICES ASSUME TimelineInvariant, AttemptSound, stage = "validating", IdsAreGiven,
                      RepairsNeeded(given.episodes) <= FallbackLimit + FallbackLimit
               PROVE  Storable(composition)
    BY DEF RepairedIsStorable
  <2>1. AttemptOK /\ stage \in Busy
    BY PartsOfTheInvariant DEF Busy, Stages
  <2>2. /\ composition.episodes \in Seq(EpisodeType) /\ given.episodes \in Seq(EpisodeType)
        /\ Sound(composition, targets, given) /\ Within(composition, targets, given, Effort)
        /\ FallbackLimit \in Nat /\ Work(composition.episodes, Open(targets)) \in Nat
    BY <2>1, SoundAtWork
  <2>3. Effort = FallbackLimit + FallbackLimit
    BY DEF Effort
  <2>4. RepairsNeeded(given.episodes) \in Nat
    BY <2>2, NeededIsNatural
  <2>5. Work(composition.episodes, Open(targets)) = 0
    BY <2>2, <2>3, <2>4 DEF Within
  <2>6. Covered(composition.episodes)
    <3>1. Cardinality(Slots(composition.episodes, Open(targets))) \in Nat
      BY <2>2, SlotsAreFinite
    <3> QED BY <2>5, <3>1 DEF Work
  <2>7. UniqueIds(composition.episodes)
    BY <2>2, UniqueIdsAre DEF Sound, Families
  <2>8. BlocksHold(composition)
    BY <2>1 DEF AttemptSound
  <2> QED BY <2>6, <2>7, <2>8 DEF Storable
<1> QED BY <1>1, TimelineIsInvariant, AttemptsStaySound, PTL

(* An episode of the draft that is in order, not broad and shares no            *)
(* micro-event with another one is still there.                                 *)
THEOREM SoundAlwaysKept == Spec => []SoundEpisodesAreKept
<1>1. TimelineInvariant /\ AttemptSound => SoundEpisodesAreKept
  <2> SUFFICES ASSUME TimelineInvariant, AttemptSound, stage = "validating", IdsAreGiven,
                      \A e \in ToSet(given.episodes) : Valid(e),
                      NEW e \in ToSet(given.episodes), ~Overbroad(e),
                      \A f \in ToSet(given.episodes) \ {e} : RangeOf(e) \cap RangeOf(f) = {}
               PROVE  \E g \in ToSet(composition.episodes) :
                        g.id = e.id /\ g.first = e.first /\ g.last = e.last
    BY DEF SoundEpisodesAreKept
  <2>1. AttemptOK /\ stage \in Busy
    BY PartsOfTheInvariant DEF Busy, Stages
  <2>2. composition.episodes \in Seq(EpisodeType) /\ Sound(composition, targets, given)
    BY <2>1, SoundAtWork
  <2>3. Apart(composition.episodes, e)
    BY <2>2 DEF Sound, Kept, Alone
  <2>4. PICK p \in 1 .. Len(composition.episodes) : StandsAt(composition.episodes, e, p)
    BY <2>3 DEF Apart
  <2>5. composition.episodes[p] \in ToSet(composition.episodes)
    BY <2>2, ToSetOf
  <2> QED BY <2>4, <2>5 DEF StandsAt
<1> QED BY <1>1, TimelineIsInvariant, AttemptsStaySound, PTL
=============================================================================
