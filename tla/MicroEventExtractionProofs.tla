----------------------- MODULE MicroEventExtractionProofs -----------------------
(***************************************************************************)
(* Proofs about WindowValidation and MicroEventExtraction: first which cues *)
(* a window owns and what the verdict on an answer lets through.  Then the  *)
(* inductive invariant, which says of each attempt that its windows are     *)
(* split into the ones with a result and the ones still to do, and, as long *)
(* as no two attempts overlap, what the rows of the store have to do with   *)
(* the one attempt that is alive.                                           *)
(***************************************************************************)
EXTENDS MicroEventExtraction, SubsequencesProofs

-----------------------------------------------------------------------------
(* A slot owns the cues that overlap it, in order. *)
LEMMA OwnedCues ==
  ASSUME NEW list \in Seq(Cues), list # <<>>, NEW k \in Nat
  PROVE  LET from == list[1].start + k * WindowLength
             S == {i \in DOMAIN list : list[i].end > from /\ list[i].start < from + WindowLength}
         IN  /\ Owned(list, k) \in Seq(DOMAIN list)
             /\ \A i \in S : i \in ToSet(Owned(list, k))
<1> DEFINE from == list[1].start + k * WindowLength
           S == {i \in DOMAIN list : list[i].end > from /\ list[i].start < from + WindowLength}
<1>1. DOMAIN list = 1 .. Len(list) /\ Len(list) \in Nat /\ Len(list) \in Int
  BY LenProperties
<1>2. S \in SUBSET (1 .. Len(list)) /\ S \subseteq Nat
  BY <1>1
<1>3. IsFiniteSet(S)
  <2>1. IsFiniteSet(1 .. Len(list))
    BY <1>1, FS_Interval
  <2> HIDE DEF S
  <2> QED BY <1>2, <2>1, FS_Subset
<1>4. Owned(list, k) = InOrder(S)
  BY DEF Owned
<1> HIDE DEF S
<1>5. InOrder(S) \in Seq(S) /\ DOMAIN InOrder(S) = 1 .. Cardinality(S)
      /\ \A i \in S : \E n \in 1 .. Cardinality(S) : InOrder(S)[n] = i
  BY <1>2, <1>3, InOrderLists
<1>6. InOrder(S) \in Seq(DOMAIN list)
  <2>1. S \subseteq DOMAIN list
    BY <1>1, <1>2
  <2> QED BY <1>5, <2>1, SeqMonotonic
<1>7. \A i \in S : i \in ToSet(Owned(list, k))
  BY <1>4, <1>5 DEF ToSet
<1> QED BY <1>4, <1>6, <1>7 DEF S

(* The windows are the slots that own a cue, in order. *)
LEMMA WindowList ==
  ASSUME NEW list \in Seq(Cues), list # <<>>
  PROVE  /\ Windows(list) \in Seq(Seq(DOMAIN list))
         /\ \A k \in Slots(list) : Owned(list, k) # <<>> =>
              \E w \in DOMAIN Windows(list) : Windows(list)[w] = Owned(list, k)
<1> DEFINE reach == Last(list).end - list[1].start
           S == {k \in Slots(list) : Owned(list, k) # <<>>}
           kept == InOrder(S)
           c == Cardinality(S)
<1>1. reach \in Int
  <2>1. Len(list) \in 1 .. Len(list) /\ 1 \in 1 .. Len(list)
    BY EmptySeq
  <2>2. list[Len(list)] \in Cues /\ list[1] \in Cues
    BY <2>1, ElementOfSeq
  <2>3. list[Len(list)].end \in Nat /\ list[1].start \in Nat
    BY <2>2 DEF Cues
  <2> QED BY <2>3 DEF Last
<1>2. Slots(list) \subseteq 0 .. reach /\ Slots(list) \subseteq Nat
  BY <1>1 DEF Slots
<1>3. S \subseteq Nat /\ IsFiniteSet(S)
  <2>1. IsFiniteSet(0 .. reach)
    BY <1>1, FS_Interval
  <2>2. S \in SUBSET (0 .. reach) /\ S \subseteq Nat
    BY <1>2
  <2> HIDE DEF S, reach
  <2>3. IsFiniteSet(S)
    BY <2>1, <2>2, FS_Subset
  <2> QED BY <2>2, <2>3
<1>4. /\ c \in Nat /\ DOMAIN kept = 1 .. c
      /\ \A n \in 1 .. c : kept[n] \in S
      /\ \A k \in S : \E n \in 1 .. c : kept[n] = k
  <2> HIDE DEF S
  <2> QED BY <1>3, InOrderLists
<1>5. Windows(list) = [w \in 1 .. c |-> Owned(list, kept[w])]
  <2>1. Windows(list) = [w \in DOMAIN kept |-> Owned(list, kept[w])]
    BY DEF Windows
  <2> HIDE DEF kept, c
  <2> QED BY <1>4, <2>1
<1>6. \A n \in 1 .. c : Owned(list, kept[n]) \in Seq(DOMAIN list)
  <2> TAKE n \in 1 .. c
  <2>1. kept[n] \in Nat
    <3> HIDE DEF kept, c, S
    <3> QED BY <1>3, <1>4
  <2> HIDE DEF kept
  <2> QED BY <2>1, OwnedCues
<1> HIDE DEF kept, c
<1>7. Windows(list) \in Seq(Seq(DOMAIN list))
  <2>1. Windows(list) \in [1 .. c -> Seq(DOMAIN list)]
    BY <1>5, <1>6
  <2> QED BY <1>4, <2>1, SeqDef
<1>8. ASSUME NEW k \in Slots(list), Owned(list, k) # <<>>
      PROVE  \E w \in DOMAIN Windows(list) : Windows(list)[w] = Owned(list, k)
  <2>1. k \in S
    BY <1>8
  <2>2. PICK n \in 1 .. c : kept[n] = k
    BY <1>4, <2>1
  <2> QED BY <1>5, <2>2
<1> QED BY <1>7, <1>8

(* The first cue starts first, and the last one ends after each has started.    *)
Covered(list) ==
  \A i \in DOMAIN list : list[i].end > list[i].start =>
    list[1].start <= list[i].start /\ list[i].start < Last(list).end

(* A cue that lasts is owned by the slot in which it starts, and that slot comes *)
(* before the end of the last cue.                                               *)
LEMMA CueInWindow ==
  ASSUME NEW list \in Seq(Cues), Covered(list), NEW i \in DOMAIN list, list[i].end > list[i].start
  PROVE  \E w \in DOMAIN Windows(list) : i \in ToSet(Windows(list)[w])
<1> DEFINE first == list[1].start
           begin == list[i].start
           reach == Last(list).end - first
           L == WindowLength
<1>1. list # <<>> /\ i \in 1 .. Len(list) /\ 1 \in 1 .. Len(list) /\ Len(list) \in 1 .. Len(list)
  BY LenProperties, EmptySeq
<1>2. first \in Nat /\ begin \in Nat /\ list[i].end \in Nat /\ Last(list).end \in Nat /\ L \in Nat \ {0}
  <2>1. list[1] \in Cues /\ list[i] \in Cues /\ list[Len(list)] \in Cues
    BY <1>1, ElementOfSeq
  <2> QED BY <2>1, WindowLengthAssumption DEF Cues, Last
<1>3. first <= begin /\ begin < first + reach /\ list[i].end > begin
  BY <1>2 DEF Covered
<1> HIDE DEF first, begin, reach, L
<1>4. reach \in Int
  BY <1>2 DEF reach
<1>5. PICK k \in Nat : begin < first + (k + 1) * L /\ (k = 0 \/ first + k * L <= begin)
  <2> DEFINE S == {k \in Nat : begin < first + (k + 1) * L}
  <2>1. PICK d \in Nat : d = begin - first
    BY <1>2, <1>3
  <2>2. d < (d + 1) * L /\ (d + 1) * L \in Nat
    <3>1. \A x, y \in Nat : y # 0 => x < (x + 1) * y /\ (x + 1) * y \in Nat
      OBVIOUS
    <3> QED BY <1>2, <2>1, <3>1
  <2>3. S \subseteq Nat /\ S # {}
    <3>1. begin < first + (d + 1) * L
      BY <1>2, <2>1, <2>2
    <3>2. d \in S
      BY <2>1, <3>1
    <3> QED BY <3>2
  <2>4. PICK k \in S : \A y \in S : k <= y
    <3> HIDE DEF S
    <3> QED BY <2>3, SmallestOf
  <2>5. ASSUME k # 0, ~(first + k * L <= begin) PROVE FALSE
    <3>1. k - 1 \in Nat
      BY <2>5
    <3>2. k * L \in Int /\ (k - 1 + 1) * L = k * L
      BY <1>2, <3>1
    <3>3. begin < first + (k - 1 + 1) * L
      BY <1>2, <2>5, <3>2
    <3>4. k - 1 \in S
      BY <3>1, <3>3
    <3> HIDE DEF S
    <3>5. k <= k - 1
      BY <2>4, <3>4
    <3>6. k \in Nat
      BY <2>3, <2>4
    <3> QED BY <3>5, <3>6
  <2> QED BY <2>4, <2>5
<1>6. k \in Slots(list)
  <2>1. k * L \in Nat /\ k * L >= k
    BY <1>2
  <2>2. k = 0 \/ k * L < reach
    BY <1>2, <1>3, <1>4, <1>5, <2>1
  <2>3. k <= reach
    BY <1>2, <1>3, <1>4, <2>1, <2>2
  <2> QED BY <1>4, <2>2, <2>3 DEF Slots, reach, first, L
<1>7. i \in ToSet(Owned(list, k))
  <2>1. k * L \in Nat /\ (k + 1) * L = k * L + L
    BY <1>2
  <2>2. list[i].end > first + k * L /\ begin < first + k * L + L
    BY <1>2, <1>3, <1>5, <2>1
  <2>3. list[i].end > list[1].start + k * WindowLength
        /\ list[i].start < list[1].start + k * WindowLength + WindowLength
    BY <2>2 DEF first, begin, L
  <2> QED BY <1>1, <2>3, OwnedCues
<1>8. Owned(list, k) # <<>>
  BY <1>7, EmptySeq DEF ToSet
<1> QED BY <1>1, <1>6, <1>7, <1>8, WindowList
-----------------------------------------------------------------------------
(* Ranges of positions. *)
Spans(ranges) ==
  /\ DOMAIN ranges = 1 .. Len(ranges) /\ Len(ranges) \in Nat
  /\ \A k \in DOMAIN ranges : ranges[k].first \in Nat /\ ranges[k].last \in Nat
                              /\ ranges[k].first <= ranges[k].last

(* Ranges that follow one another, in some order, contain every position up to *)
(* the last exactly once.                                                       *)
LEMMA CoveredOnce ==
  ASSUME NEW ranges, Spans(ranges), NEW count \in Nat, CoversInOrder(ranges, count), ranges # <<>>
  PROVE  /\ \A p \in 1 .. count : \E r \in ToSet(ranges) :
              {x \in ToSet(ranges) : x.first <= p /\ p <= x.last} = {r}
         /\ \A r \in ToSet(ranges) : 1 <= r.first /\ r.last <= count
<1> DEFINE n == Len(ranges)
<1>1. PICK order \in Sortings(ranges) :
        /\ ranges[order[1]].first = 1
        /\ \A k \in 2 .. n : ranges[order[k]].first = ranges[order[k - 1]].last + 1
        /\ ranges[order[n]].last = count
  BY DEF CoversInOrder
<1>2. n \in Nat /\ DOMAIN ranges = 1 .. n
  BY DEF Spans
<1>3. /\ order \in [1 .. n -> 1 .. n]
      /\ \A i \in 1 .. n : \E k \in 1 .. n : order[k] = i
  BY <1>2 DEF Sortings, Bijection, Injection, Surjection
<1> DEFINE from(k) == ranges[order[k]].first
           to(k) == ranges[order[k]].last
<1>4. \A k \in 1 .. n : from(k) \in Nat /\ to(k) \in Nat /\ from(k) <= to(k)
  BY <1>2, <1>3 DEF Spans
<1>5. n # 0
  <2>1. ASSUME n = 0 PROVE FALSE
    <3>1. DOMAIN ranges = {}
      BY <1>2, <2>1
    <3>2. ranges \in [1 .. 0 -> {}]
      BY <3>1
    <3>3. ranges \in Seq({}) /\ Len(ranges) = 0
      BY <2>1, <3>2, SeqDef
    <3> QED BY <3>3, EmptySeq
  <2> QED BY <2>1
<1>6. from(1) = 1 /\ to(n) = count /\ \A k \in 2 .. n : from(k) = to(k - 1) + 1
  BY <1>1
<1> HIDE DEF from, to, n
<1>7. \A j, k \in 1 .. n : j < k => to(j) < from(k)
  <2> DEFINE S == {k \in 1 .. n : \E j \in 1 .. n : j < k /\ ~(to(j) < from(k))}
  <2>1. SUFFICES ASSUME S # {} PROVE FALSE
    OBVIOUS
  <2>2. S \subseteq Nat
    BY <1>2
  <2>3. PICK k \in S : \A y \in S : k <= y
    <3> HIDE DEF S
    <3> QED BY <2>1, <2>2, SmallestOf
  <2>4. PICK j \in 1 .. n : j < k /\ ~(to(j) < from(k))
    OBVIOUS
  <2>5. k \in 2 .. n /\ k - 1 \in 1 .. n /\ from(k) = to(k - 1) + 1
    BY <1>2, <1>6, <2>4
  <2>6. k - 1 \notin S
    BY <1>2, <2>3
  <2>7. CASE j = k - 1
    BY <1>4, <2>4, <2>5, <2>7
  <2>8. CASE j < k - 1
    <3>1. to(j) < from(k - 1)
      BY <2>5, <2>6, <2>8
    <3> QED BY <1>4, <2>4, <2>5, <3>1
  <2> QED BY <1>2, <2>4, <2>7, <2>8
<1>8. ASSUME NEW p \in 1 .. count
      PROVE  \E k \in 1 .. n : from(k) <= p /\ p <= to(k)
  <2> DEFINE S == {k \in 1 .. n : p <= to(k)}
  <2>1. S \subseteq Nat /\ S # {}
    <3>1. n \in S
      BY <1>2, <1>5, <1>6
    <3> QED BY <1>2, <3>1
  <2>2. PICK k \in S : \A y \in S : k <= y
    <3> HIDE DEF S
    <3> QED BY <2>1, SmallestOf
  <2>3. CASE k = 1
    BY <1>6, <2>3
  <2>4. CASE k # 1
    <3>1. k \in 2 .. n /\ k - 1 \in 1 .. n /\ k - 1 \notin S
      BY <1>2, <2>2, <2>4
    <3>2. ~(p <= to(k - 1)) /\ from(k) = to(k - 1) + 1
      BY <1>6, <3>1
    <3> QED BY <1>4, <3>1, <3>2
  <2> QED BY <2>3, <2>4
<1>9. ToSet(ranges) = {ranges[order[k]] : k \in 1 .. n}
  <2>1. ASSUME NEW r \in ToSet(ranges) PROVE \E k \in 1 .. n : r = ranges[order[k]]
    <3>1. PICK i \in 1 .. n : r = ranges[i]
      BY <1>2 DEF ToSet
    <3>2. PICK k \in 1 .. n : order[k] = i
      BY <1>3
    <3> QED BY <3>1, <3>2
  <2>2. ASSUME NEW k \in 1 .. n PROVE ranges[order[k]] \in ToSet(ranges)
    BY <1>2, <1>3 DEF ToSet
  <2> QED BY <2>1, <2>2
<1>10. ASSUME NEW p \in 1 .. count
       PROVE  \E r \in ToSet(ranges) : {x \in ToSet(ranges) : x.first <= p /\ p <= x.last} = {r}
  <2>1. PICK k \in 1 .. n : from(k) <= p /\ p <= to(k)
    BY <1>8
  <2>2. ASSUME NEW j \in 1 .. n, from(j) <= p, p <= to(j) PROVE j = k
    <3>1. ~(to(j) < from(k)) /\ ~(to(k) < from(j))
      BY <1>4, <2>1, <2>2
    <3>2. ~(j < k) /\ ~(k < j)
      BY <1>7, <3>1
    <3> QED BY <1>2, <3>2
  <2>3. {x \in ToSet(ranges) : x.first <= p /\ p <= x.last} = {ranges[order[k]]}
    BY <1>9, <2>1, <2>2 DEF from, to
  <2> QED BY <1>9, <2>3
<1>11. ASSUME NEW k \in 1 .. n PROVE 1 <= from(k) /\ to(k) <= count
  <2>1. 1 \in 1 .. n /\ n \in 1 .. n
    BY <1>2, <1>5
  <2>2. k = 1 \/ to(1) < from(k)
    BY <1>2, <1>7, <2>1
  <2>3. k = n \/ to(k) < from(n)
    BY <1>2, <1>7, <2>1
  <2> QED BY <1>4, <1>6, <2>1, <2>2, <2>3
<1>12. \A r \in ToSet(ranges) : 1 <= r.first /\ r.last <= count
  BY <1>9, <1>11 DEF from, to
<1> QED BY <1>10, <1>12

(* A reference that resolves names one position of the window. *)
LEMMA ResolvedPosition ==
  ASSUME NEW owned, NEW n \in Nat, DOMAIN owned = 1 .. n, NEW ref, Resolves(ref, owned)
  PROVE  PositionOf(ref, owned) \in 1 .. n
<1>1. Meant(ref, owned) \in SUBSET (1 .. n)
  BY DEF Meant
<1>2. IsFiniteSet(Meant(ref, owned))
  <2>1. IsFiniteSet(1 .. n)
    BY FS_Interval
  <2> QED BY <1>1, <2>1, FS_Subset
<1>3. Meant(ref, owned) # {}
  BY <1>2, FS_EmptySet DEF Resolves
<1> QED BY <1>1, <1>3 DEF PositionOf

(* Choosing entries, and with it normalising, keeps entries.                    *)
LEMMA NormalizedType ==
  ASSUME NEW answer \in AnswerType
  PROVE  Normalized(answer) \in Seq(Entries)
<1> DEFINE entries == Merged(answer)
<1>1. entries \in Seq(Entries) /\ answer.excluded \in Seq(Entries)
  <2>1. answer.events \in Seq(Entries) /\ answer.continued \in Seq(Entries)
        /\ answer.excluded \in Seq(Entries)
    BY DEF AnswerType
  <2> QED BY <2>1, ConcatProperties DEF Merged
<1> HIDE DEF entries
<1>2. ASSUME NEW S \in SUBSET (DOMAIN entries) PROVE Chosen(entries, S) \in Seq(Entries)
  <2>1. DOMAIN entries = 1 .. Len(entries) /\ Len(entries) \in Nat /\ Len(entries) \in Int
    BY <1>1, LenProperties
  <2>2. S \subseteq Nat /\ IsFiniteSet(S)
    <3>1. IsFiniteSet(DOMAIN entries) /\ DOMAIN entries \subseteq Nat
      BY <2>1, FS_Interval
    <3> QED BY <3>1, FS_Subset
  <2>3. Cardinality(S) \in Nat /\ \A n \in 1 .. Cardinality(S) : InOrder(S)[n] \in S
    BY <2>2, InOrderLists
  <2>4. Chosen(entries, S) \in [1 .. Cardinality(S) -> Entries]
    <3>1. \A k \in S : entries[k] \in Entries
      BY <1>1, <2>1, ElementOfSeq
    <3> QED BY <2>3, <3>1 DEF Chosen
  <2> QED BY <2>3, <2>4, SeqDef
<1> DEFINE misplaced == {k \in DOMAIN entries : IsMisplaced(entries[k])}
<1>3. Chosen(entries, misplaced) \in Seq(Entries) /\ Chosen(entries, DOMAIN entries \ misplaced) \in Seq(Entries)
  <2>1. misplaced \in SUBSET (DOMAIN entries) /\ DOMAIN entries \ misplaced \in SUBSET (DOMAIN entries)
    OBVIOUS
  <2> HIDE DEF misplaced
  <2> QED BY <1>2, <2>1
<1>4. Normalized(answer) =
        Chosen(entries, DOMAIN entries \ misplaced) \o answer.excluded \o Chosen(entries, misplaced)
  BY DEF Normalized, entries
<1> HIDE DEF misplaced
<1>5. Chosen(entries, DOMAIN entries \ misplaced) \o answer.excluded \in Seq(Entries)
  BY <1>1, <1>3, ConcatProperties
<1> QED BY <1>3, <1>4, <1>5, ConcatProperties

(* The ranges of a valid answer span positions, follow one another, and keep     *)
(* evidence inside them.                                                         *)
LEMMA ValidRanges ==
  ASSUME NEW answer \in AnswerType, NEW owned, NEW n \in Nat, DOMAIN owned = 1 .. n,
         Verdict(answer, owned) = "valid"
  PROVE  LET ranges == Ranges(answer, owned)
         IN  /\ Spans(ranges) /\ ranges # <<>> /\ CoversInOrder(ranges, Len(owned))
             /\ \A r \in ToSet(ranges) :
                  r.kind = "event" => \E p \in r.evidence : r.first <= p /\ p <= r.last
<1> DEFINE entries == Normalized(answer)
           ranges == Ranges(answer, owned)
<1>1. entries \in Seq(Entries) /\ DOMAIN entries = 1 .. Len(entries) /\ Len(entries) \in Nat
  BY NormalizedType, LenProperties
<1>2. /\ \A k \in DOMAIN entries : EntryError(entries[k], owned) = "none"
      /\ CoversInOrder(ranges, Len(owned))
  BY DEF Verdict
<1>3. \A k \in DOMAIN entries : ranges[k] = RangeOf(entries[k], owned)
  BY DEF Ranges
<1>4. DOMAIN ranges = 1 .. Len(entries) /\ Len(ranges) = Len(entries)
  <2>1. DOMAIN ranges = 1 .. Len(entries)
    BY <1>1 DEF Ranges
  <2>2. ranges \in [1 .. Len(entries) -> {ranges[k] : k \in 1 .. Len(entries)}]
    <3>1. ranges = [k \in 1 .. Len(entries) |-> ranges[k]]
      BY <1>1 DEF Ranges
    <3> HIDE DEF ranges, entries
    <3> QED BY <3>1
  <2> HIDE DEF ranges, entries
  <2>3. ranges \in Seq({ranges[k] : k \in 1 .. Len(entries)})
    BY <1>1, <2>2, SeqDef
  <2>4. DOMAIN ranges = 1 .. Len(ranges) /\ Len(ranges) \in Nat
    BY <2>3, LenProperties
  <2> QED BY <1>1, <2>1, <2>4
<1>5. ASSUME NEW e, EntryError(e, owned) = "none"
      PROVE  LET r == RangeOf(e, owned)
             IN  /\ r.first \in Nat /\ r.last \in Nat /\ r.first <= r.last
                 /\ r.kind = "event" => \E p \in r.evidence : r.first <= p /\ p <= r.last
  <2>1. /\ Resolves(e.first, owned) /\ Resolves(e.last, owned)
        /\ ~(PositionOf(e.first, owned) > PositionOf(e.last, owned))
        /\ e.kind = "event" => InRange(e, owned) # {}
    BY <1>5 DEF EntryError
  <2>2. PositionOf(e.first, owned) \in 1 .. n /\ PositionOf(e.last, owned) \in 1 .. n
    BY <2>1, ResolvedPosition
  <2>3. e.kind = "event" => \E p \in InRange(e, owned) :
          PositionOf(e.first, owned) <= p /\ p <= PositionOf(e.last, owned)
    BY <2>1 DEF InRange
  <2> QED BY <2>1, <2>2, <2>3 DEF RangeOf
<1> HIDE DEF entries, ranges
<1>6. \A k \in DOMAIN ranges :
        /\ ranges[k].first \in Nat /\ ranges[k].last \in Nat /\ ranges[k].first <= ranges[k].last
        /\ ranges[k].kind = "event" =>
             \E p \in ranges[k].evidence : ranges[k].first <= p /\ p <= ranges[k].last
  BY <1>1, <1>2, <1>3, <1>4, <1>5
<1>7. Spans(ranges)
  BY <1>1, <1>4, <1>6 DEF Spans
<1>8. ranges # <<>>
  BY <1>2 DEF CoversInOrder
<1> QED BY <1>2, <1>6, <1>7, <1>8 DEF ToSet, ranges
-----------------------------------------------------------------------------
(* The rows that may be stored for a window, and tables of them. *)
RowsOf(owned) ==
  {FailedRow(owned)} \cup
  {SucceededRow(judged, owned) : judged \in {j \in MayAnswer[owned] : j.verdict = "valid"}}

Indices == UNION {DOMAIN WindowsFor[list] : list \in CueLists}
AllRows == UNION {RowsOf(owned) : owned \in DOMAIN MayAnswer}
Tables == UNION {[D -> AllRows] : D \in SUBSET Indices}

(* The row is one of the w-th window of some cue list. *)
RowAt(row, w) ==
  \E list \in CueLists : w \in DOMAIN WindowsFor[list] /\ row \in RowsOf(WindowsFor[list][w])

Attempts ==
  [pc : Pcs, cues : CueLists, resume : BOOLEAN, results : Tables, todo : SUBSET Nat,
   calling : SUBSET Nat, repairing : SUBSET Nat, again : SUBSET Nat, invalid : SUBSET Nat,
   round : 0 .. MaxRetries, outcome : {"none", "succeeded", "failed", "timed_out"}]

Types ==
  /\ cues \in CueLists
  /\ item \in {"pending", "running", "succeeded", "failed", "timed_out"}
  /\ rows \in Tables
  /\ attempts \in Seq(Attempts)
  /\ faults \in 0 .. MaxFaults
  /\ overlapped \in BOOLEAN

RowsFit == \A w \in DOMAIN rows : RowAt(rows[w], w)

(* The windows of an attempt, each in one place. *)
InOnePlace(at) ==
  /\ at.todo \cap (at.calling \cup at.repairing \cup at.again \cup at.invalid \cup DOMAIN at.results) = {}
  /\ at.calling \cap (at.repairing \cup at.again \cup at.invalid \cup DOMAIN at.results) = {}
  /\ at.repairing \cap (at.again \cup at.invalid \cup DOMAIN at.results) = {}
  /\ at.again \cap (at.invalid \cup DOMAIN at.results) = {}
  /\ at.invalid \cap DOMAIN at.results = {}

AllPlaces(at) ==
  at.todo \cup at.calling \cup at.repairing \cup at.again \cup at.invalid \cup DOMAIN at.results

ResultsFit(at) ==
  \A w \in DOMAIN at.results :
    /\ RowAt(at.results[w], w)
    /\ at.results[w].status = "succeeded"
    /\ at.results[w].shape = ShapeOf(WindowsFor[at.cues][w])

AttemptOk(at) ==
  /\ InOnePlace(at)
  /\ AllPlaces(at) \subseteq DOMAIN WindowsFor[at.cues]
  /\ at.pc = "extracting" => AllPlaces(at) = DOMAIN WindowsFor[at.cues]
  /\ at.pc = "planning" =>
       at.calling \cup at.repairing \cup at.again \cup at.invalid = {}
  /\ at.pc = "storing" /\ at.outcome = "succeeded" =>
       DOMAIN at.results = DOMAIN WindowsFor[at.cues] /\ at.again \cup at.invalid = {}
  /\ at.pc \in {"storing", "recording"} => at.outcome # "none"
  /\ Cardinality(at.calling \cup at.repairing) <= Concurrency
  /\ ResultsFit(at)

AttemptsOk == \A a \in DOMAIN attempts : AttemptOk(attempts[a])

(* The stored successes are the results of the attempt. *)
Matches(at, table) ==
  Succeeded(table) = DOMAIN at.results /\ \A w \in DOMAIN at.results : table[w] = at.results[w]

CompleteFor(at, table) ==
  /\ Succeeded(table) = DOMAIN WindowsFor[at.cues]
  /\ DOMAIN table = Succeeded(table)
  /\ \A w \in DOMAIN table : table[w].shape = ShapeOf(WindowsFor[at.cues][w])

(* What the only attempt that is alive may rely on. *)
AloneWith(at, table) ==
  /\ at.pc = "planning" /\ ~at.resume => DOMAIN table = {}
  /\ at.pc = "extracting" => Matches(at, table)
  /\ at.pc = "storing" => Matches(at, table) \/ DOMAIN WindowsFor[at.cues] = {}
  /\ at.pc = "recording" /\ at.outcome = "succeeded" => CompleteFor(at, table)

Alone ==
  ~overlapped =>
    /\ \A a \in DOMAIN attempts :
         Alive(a) => a = Len(attempts) /\ AloneWith(attempts[a], rows)
    /\ item = "succeeded" =>
         /\ attempts # <<>>
         /\ \A a \in DOMAIN attempts : ~Alive(a)
         /\ CompleteFor(attempts[Len(attempts)], rows)

MicroInv == Types /\ RowsFit /\ AttemptsOk /\ Alone

-----------------------------------------------------------------------------
(* The windows of a cue list are finitely many, and each may be answered. *)
LEMMA WindowsOfLists ==
  ASSUME NEW list \in CueLists
  PROVE  /\ list \in Seq(Cues) /\ list # <<>>
         /\ WindowsFor[list] = Windows(list)
         /\ WindowsFor[list] \in Seq(Seq(DOMAIN list))
         /\ \E n \in Nat : DOMAIN WindowsFor[list] = 1 .. n
         /\ DOMAIN WindowsFor[list] \subseteq Nat
         /\ DOMAIN WindowsFor[list] \subseteq Indices
         /\ IsFiniteSet(DOMAIN WindowsFor[list])
         /\ \A w \in DOMAIN WindowsFor[list] :
              WindowsFor[list][w] \in DOMAIN MayAnswer /\ WindowsFor[list][w] \in Seq(DOMAIN list)
<1>1. list \in Seq(Cues) /\ list # <<>>
  BY CueAssumption
<1>2. WindowsFor[list] = Windows(list) /\ DOMAIN WindowsFor = CueLists
  BY DEF WindowsFor
<1>3. WindowsFor[list] \in Seq(Seq(DOMAIN list))
  BY <1>1, <1>2, WindowList
<1>4. DOMAIN WindowsFor[list] = 1 .. Len(WindowsFor[list]) /\ Len(WindowsFor[list]) \in Nat
  BY <1>3, LenProperties
<1>5. IsFiniteSet(DOMAIN WindowsFor[list]) /\ DOMAIN WindowsFor[list] \subseteq Nat
  BY <1>4, FS_Interval
<1>6. DOMAIN WindowsFor[list] \subseteq Indices
  BY DEF Indices
<1>7. ASSUME NEW w \in DOMAIN WindowsFor[list]
      PROVE  WindowsFor[list][w] \in DOMAIN MayAnswer /\ WindowsFor[list][w] \in Seq(DOMAIN list)
  <2>1. WindowsFor[list][w] \in ToSet(WindowsFor[list])
    BY DEF ToSet
  <2>2. WindowsFor[list][w] \in DOMAIN MayAnswer
    BY <2>1 DEF MayAnswer
  <2>3. WindowsFor[list][w] \in Seq(DOMAIN list)
    BY <1>3, <1>4, ElementOfSeq
  <2> QED BY <2>2, <2>3
<1> QED BY <1>1, <1>2, <1>3, <1>4, <1>5, <1>6, <1>7

(* The rows an attempt stores are rows of its own windows. *)
LEMMA OwnRows ==
  ASSUME NEW list \in CueLists, NEW w \in DOMAIN WindowsFor[list]
  PROVE  /\ RowAt(FailedRow(WindowsFor[list][w]), w)
         /\ \A judged \in MayAnswer[WindowsFor[list][w]] : judged.verdict = "valid" =>
              RowAt(SucceededRow(judged, WindowsFor[list][w]), w)
<1>1. FailedRow(WindowsFor[list][w]) \in RowsOf(WindowsFor[list][w])
  BY DEF RowsOf
<1>2. \A judged \in MayAnswer[WindowsFor[list][w]] : judged.verdict = "valid" =>
        SucceededRow(judged, WindowsFor[list][w]) \in RowsOf(WindowsFor[list][w])
  BY DEF RowsOf
<1> QED BY <1>1, <1>2 DEF RowAt

(* A row has a status and the shape of its window. *)
LEMMA RowShape ==
  ASSUME NEW row, NEW w, RowAt(row, w)
  PROVE  /\ row \in AllRows /\ w \in Indices
         /\ row.status \in {"succeeded", "failed"}
         /\ \E list \in CueLists :
              w \in DOMAIN WindowsFor[list] /\ row.shape = ShapeOf(WindowsFor[list][w])
<1>1. PICK list \in CueLists : w \in DOMAIN WindowsFor[list] /\ row \in RowsOf(WindowsFor[list][w])
  BY DEF RowAt
<1>2. row \in AllRows /\ w \in Indices
  BY <1>1, WindowsOfLists DEF AllRows
<1>3. row.status \in {"succeeded", "failed"} /\ row.shape = ShapeOf(WindowsFor[list][w])
  BY <1>1 DEF RowsOf, FailedRow, SucceededRow
<1> QED BY <1>1, <1>2, <1>3

(* A function of indices to rows is a table. *)
LEMMA TableOfRows ==
  ASSUME NEW table, table = [w \in DOMAIN table |-> table[w]],
         \A w \in DOMAIN table : RowAt(table[w], w)
  PROVE  table \in Tables
<1>1. \A w \in DOMAIN table : table[w] \in AllRows /\ w \in Indices
  BY RowShape
<1>2. table \in [DOMAIN table -> AllRows] /\ DOMAIN table \in SUBSET Indices
  BY <1>1
<1> QED BY <1>2 DEF Tables

(* The empty table is a table.                                               *)
LEMMA NoRows ==
  <<>> \in Tables /\ DOMAIN <<>> = {}
<1>1. <<>> \in [{} -> AllRows] /\ DOMAIN <<>> = {}
  OBVIOUS
<1> QED BY <1>1 DEF Tables

(* Putting a row of the window into a table. *)
LEMMA UpsertedTable ==
  ASSUME NEW table, \A v \in DOMAIN table : RowAt(table[v], v), NEW w, NEW row, RowAt(row, w)
  PROVE  /\ Upserted(table, w, row) \in Tables
         /\ DOMAIN Upserted(table, w, row) = DOMAIN table \cup {w}
         /\ Upserted(table, w, row)[w] = row
         /\ \A v \in DOMAIN table : v # w => Upserted(table, w, row)[v] = table[v]
         /\ \A v \in DOMAIN Upserted(table, w, row) : RowAt(Upserted(table, w, row)[v], v)
<1> DEFINE new == Upserted(table, w, row)
<1>1. /\ DOMAIN new = DOMAIN table \cup {w}
      /\ new[w] = row
      /\ \A v \in DOMAIN table : v # w => new[v] = table[v]
  BY DEF Upserted
<1>2. new = [v \in DOMAIN new |-> new[v]]
  BY DEF Upserted
<1> HIDE DEF new
<1>3. \A v \in DOMAIN new : RowAt(new[v], v)
  BY <1>1
<1>4. new \in Tables
  BY <1>2, <1>3, TableOfRows
<1> QED BY <1>1, <1>3, <1>4 DEF new

-----------------------------------------------------------------------------
(* What each operation makes of the attempt. *)

(* The attempt after each of its operations. *)
Planned(at, pc, outcome, keep, table) ==
  [at EXCEPT !.pc = pc, !.outcome = outcome, !.results = [w \in keep |-> table[w]],
             !.todo = DOMAIN WindowsFor[at.cues] \ keep]
Called(at, w) == [at EXCEPT !.todo = @ \ {w}, !.calling = @ \cup {w}]
Asked(at, w) == [at EXCEPT !.calling = @ \ {w}, !.repairing = @ \cup {w}]
Freed(at, w) == [at EXCEPT !.calling = @ \ {w}, !.repairing = @ \ {w}]
Rejected(at, w) == [Freed(at, w) EXCEPT !.invalid = @ \cup {w}]
Raised(at, w) == [Freed(at, w) EXCEPT !.again = @ \cup {w}]
Accepted(at, w, row) == [Freed(at, w) EXCEPT !.results = Upserted(@, w, row)]
Renewed(at) == [at EXCEPT !.todo = at.again, !.again = {}, !.round = @ + 1]
Finished(at, outcome) == [at EXCEPT !.pc = "storing", !.outcome = outcome]
Over(at) ==
  [at EXCEPT !.pc = "ended", !.results = <<>>, !.todo = {}, !.calling = {},
             !.repairing = {}, !.again = {}, !.invalid = {}]
Stopped(at, outcome) == [Over(at) EXCEPT !.pc = "recording", !.outcome = outcome]

(* Planning: the kept rows become results, the other windows are to do. *)
LEMMA PlanKeeps ==
  ASSUME NEW at \in Attempts, AttemptOk(at), at.pc = "planning",
         NEW table, NEW keep \in SUBSET DOMAIN WindowsFor[at.cues],
         \A w \in keep : /\ RowAt(table[w], w) /\ table[w].status = "succeeded"
                         /\ table[w].shape = ShapeOf(WindowsFor[at.cues][w]),
         NEW pc \in {"storing", "extracting"}, NEW outcome \in {"none", "succeeded"},
         outcome = "succeeded" => DOMAIN WindowsFor[at.cues] \subseteq keep,
         pc = "storing" => outcome # "none",
         NEW new, new = Planned(at, pc, outcome, keep, table)
  PROVE  /\ new \in Attempts /\ AttemptOk(new)
         /\ new.pc = pc /\ new.outcome = outcome /\ new.cues = at.cues
         /\ DOMAIN new.results = keep /\ \A w \in keep : new.results[w] = table[w]
<1> DEFINE W == DOMAIN WindowsFor[at.cues]
           results == [w \in keep |-> table[w]]
<1>1. W \subseteq Nat /\ at.cues \in CueLists
  BY WindowsOfLists DEF Attempts
<1>2. results \in Tables
  BY TableOfRows
<1>3. DOMAIN results = keep /\ \A w \in keep : results[w] = table[w]
  OBVIOUS
<1>4. PICK r : r = results
  OBVIOUS
<1>5. PICK t : t = W \ keep
  OBVIOUS
<1>6. new = [at EXCEPT !.pc = pc, !.outcome = outcome, !.results = r, !.todo = t]
  BY <1>4, <1>5 DEF Planned
<1>7. t \in SUBSET Nat /\ r \in Tables
  BY <1>1, <1>2, <1>4, <1>5
<1> HIDE DEF results
<1>8. /\ new.pc = pc /\ new.outcome = outcome /\ new.results = r /\ new.todo = t
      /\ new.cues = at.cues /\ new.calling = at.calling /\ new.repairing = at.repairing
      /\ new.again = at.again /\ new.invalid = at.invalid
  BY <1>6 DEF Attempts
<1>9. new \in Attempts
  BY <1>6, <1>7 DEF Attempts, Pcs
<1>10. DOMAIN new.results = keep /\ \A w \in keep : new.results[w] = table[w]
  BY <1>3, <1>4, <1>8
<1>11. new.calling = {} /\ new.repairing = {} /\ new.again = {} /\ new.invalid = {}
  BY <1>8 DEF AttemptOk
<1>12. Cardinality(new.calling \cup new.repairing) <= Concurrency
  BY <1>8 DEF AttemptOk
<1>13. ResultsFit(new)
  BY <1>8, <1>10 DEF ResultsFit
<1>14. InOnePlace(new) /\ AllPlaces(new) = W
  BY <1>5, <1>8, <1>10, <1>11 DEF InOnePlace, AllPlaces
<1>15. new.pc = "storing" /\ new.outcome = "succeeded" =>
         DOMAIN new.results = DOMAIN WindowsFor[new.cues] /\ new.again \cup new.invalid = {}
  BY <1>8, <1>10, <1>11
<1>16. AttemptOk(new)
  BY <1>8, <1>12, <1>13, <1>14, <1>15 DEF AttemptOk
<1> QED BY <1>8, <1>9, <1>10, <1>16

(* An attempt that only moves windows between the places without a result. *)
LEMMA MovesKeep ==
  ASSUME NEW at \in Attempts, AttemptOk(at), at.pc = "extracting",
         NEW new \in Attempts, new.cues = at.cues, new.results = at.results, new.pc = at.pc,
         AllPlaces(new) = AllPlaces(at), InOnePlace(new),
         Cardinality(new.calling \cup new.repairing) <= Concurrency
  PROVE  AttemptOk(new)
BY DEF AttemptOk, ResultsFit

(* A call ends: fewer windows are worked on. *)
LEMMA FewerCalls ==
  ASSUME NEW at \in Attempts, AttemptOk(at), NEW S, S \subseteq at.calling \cup at.repairing
  PROVE  Cardinality(S) <= Concurrency
<1> DEFINE T == at.calling \cup at.repairing
<1>1. IsFiniteSet(T)
  <2>1. T \subseteq DOMAIN WindowsFor[at.cues]
    BY DEF AttemptOk, AllPlaces
  <2>2. IsFiniteSet(DOMAIN WindowsFor[at.cues])
    BY WindowsOfLists DEF Attempts
  <2> QED BY <2>1, <2>2, FS_Subset
<1>2. IsFiniteSet(S) /\ Cardinality(S) <= Cardinality(T)
  BY <1>1, FS_Subset
<1>3. Cardinality(S) \in Nat /\ Cardinality(T) \in Nat
  BY <1>1, <1>2, FS_CardinalityType
<1>4. Cardinality(T) <= Concurrency
  BY DEF AttemptOk
<1> QED BY <1>2, <1>3, <1>4, ConcurrencyAssumption

(* A window that is called moves from those to do to those in work.          *)
LEMMA CallKeeps ==
  ASSUME NEW at \in Attempts, AttemptOk(at), at.pc = "extracting", NEW w \in at.todo,
         Cardinality(at.calling \cup at.repairing) < Concurrency,
         NEW new, new = Called(at, w)
  PROVE  /\ new \in Attempts /\ AttemptOk(new)
         /\ new.pc = at.pc /\ new.results = at.results
<1>1. /\ new.pc = at.pc /\ new.cues = at.cues /\ new.results = at.results
      /\ new.todo = at.todo \ {w} /\ new.calling = at.calling \cup {w}
      /\ new.repairing = at.repairing /\ new.again = at.again /\ new.invalid = at.invalid
  BY DEF Attempts, Called
<1>2. new \in Attempts
  BY DEF Attempts, Called
<1>3. AllPlaces(new) = AllPlaces(at)
  BY <1>1 DEF AllPlaces
<1>4. InOnePlace(new)
  BY <1>1 DEF InOnePlace, AttemptOk
<1>5. Cardinality(new.calling \cup new.repairing) <= Concurrency
  <2> DEFINE T == at.calling \cup at.repairing
  <2>1. new.calling \cup new.repairing = T \cup {w}
    BY <1>1
  <2>2. IsFiniteSet(T)
    <3>1. T \subseteq DOMAIN WindowsFor[at.cues]
      BY DEF AttemptOk, AllPlaces
    <3>2. IsFiniteSet(DOMAIN WindowsFor[at.cues])
      BY WindowsOfLists DEF Attempts
    <3> QED BY <3>1, <3>2, FS_Subset
  <2>3. w \notin T
    BY DEF AttemptOk, InOnePlace
  <2>4. Cardinality(T \cup {w}) = Cardinality(T) + 1 /\ Cardinality(T) \in Nat
    BY <2>2, <2>3, FS_AddElement, FS_CardinalityType
  <2>5. \A n, c \in Nat : n < c => n + 1 <= c
    OBVIOUS
  <2>6. Cardinality(T) + 1 <= Concurrency
    BY <2>4, <2>5, ConcurrencyAssumption
  <2> QED BY <2>1, <2>4, <2>6
<1> QED BY <1>1, <1>2, <1>3, <1>4, <1>5, MovesKeep

(* A window whose repair is asked for stays in work.                         *)
LEMMA AskRepairKeeps ==
  ASSUME NEW at \in Attempts, AttemptOk(at), at.pc = "extracting", NEW w \in at.calling,
         NEW new, new = Asked(at, w)
  PROVE  /\ new \in Attempts /\ AttemptOk(new)
         /\ new.pc = at.pc /\ new.results = at.results
<1>1. /\ new.pc = at.pc /\ new.cues = at.cues /\ new.results = at.results
      /\ new.todo = at.todo /\ new.calling = at.calling \ {w}
      /\ new.repairing = at.repairing \cup {w} /\ new.again = at.again /\ new.invalid = at.invalid
  BY DEF Attempts, Asked
<1>2. new \in Attempts
  BY DEF Attempts, Asked
<1>3. AllPlaces(new) = AllPlaces(at)
  BY <1>1 DEF AllPlaces
<1>4. InOnePlace(new)
  BY <1>1 DEF InOnePlace, AttemptOk
<1>5. Cardinality(new.calling \cup new.repairing) <= Concurrency
  BY <1>1, FewerCalls
<1> QED BY <1>1, <1>2, <1>3, <1>4, <1>5, MovesKeep

(* A window leaves the workers without a result. *)
LEMMA FailureKeeps ==
  ASSUME NEW at \in Attempts, AttemptOk(at), at.pc = "extracting",
         NEW w \in at.calling \cup at.repairing, NEW new,
         new = Rejected(at, w) \/ new = Raised(at, w)
  PROVE  /\ new \in Attempts /\ AttemptOk(new)
         /\ new.pc = at.pc /\ new.results = at.results
<1>0. w \in Nat
  BY DEF Attempts
<1> DEFINE released == Freed(at, w)
<1>1. /\ released \in Attempts
      /\ released.pc = at.pc /\ released.cues = at.cues /\ released.results = at.results
      /\ released.todo = at.todo /\ released.calling = at.calling \ {w}
      /\ released.repairing = at.repairing \ {w}
      /\ released.again = at.again /\ released.invalid = at.invalid
  BY DEF Attempts, Freed
<1> HIDE DEF released
<1>2. /\ new \in Attempts
      /\ new.pc = at.pc /\ new.cues = at.cues /\ new.results = at.results
      /\ new.todo = at.todo /\ new.calling = at.calling \ {w} /\ new.repairing = at.repairing \ {w}
      /\ \/ new.again = at.again \cup {w} /\ new.invalid = at.invalid
         \/ new.again = at.again /\ new.invalid = at.invalid \cup {w}
  <2>1. CASE new = [released EXCEPT !.invalid = @ \cup {w}]
    BY <1>0, <1>1, <2>1 DEF Attempts
  <2>2. CASE new = [released EXCEPT !.again = @ \cup {w}]
    BY <1>0, <1>1, <2>2 DEF Attempts
  <2> QED BY <2>1, <2>2 DEF released, Rejected, Raised
<1>3. AllPlaces(new) = AllPlaces(at)
  BY <1>2 DEF AllPlaces
<1>4. InOnePlace(new)
  BY <1>2 DEF InOnePlace, AttemptOk
<1>5. Cardinality(new.calling \cup new.repairing) <= Concurrency
  BY <1>2, FewerCalls
<1> QED BY <1>2, <1>3, <1>4, <1>5, MovesKeep

(* A window gets its result. *)
LEMMA AcceptKeeps ==
  ASSUME NEW at \in Attempts, AttemptOk(at), at.pc = "extracting",
         NEW w \in at.calling \cup at.repairing, NEW row, RowAt(row, w),
         row.status = "succeeded", row.shape = ShapeOf(WindowsFor[at.cues][w]), NEW new,
         new = Accepted(at, w, row)
  PROVE  /\ new \in Attempts /\ AttemptOk(new) /\ new.pc = at.pc
         /\ DOMAIN new.results = DOMAIN at.results \cup {w} /\ w \notin DOMAIN at.results
         /\ new.results[w] = row
         /\ \A v \in DOMAIN at.results : v # w => new.results[v] = at.results[v]
<1> DEFINE released == Freed(at, w)
<1>1. /\ released \in Attempts
      /\ released.pc = at.pc /\ released.cues = at.cues /\ released.results = at.results
      /\ released.todo = at.todo /\ released.calling = at.calling \ {w}
      /\ released.repairing = at.repairing \ {w}
      /\ released.again = at.again /\ released.invalid = at.invalid
  BY DEF Attempts, Freed
<1>2. PICK results : results = Upserted(at.results, w, row)
  OBVIOUS
<1>3. ResultsFit(at) /\ InOnePlace(at)
  BY DEF AttemptOk
<1>4. /\ results \in Tables
      /\ DOMAIN results = DOMAIN at.results \cup {w}
      /\ results[w] = row
      /\ \A v \in DOMAIN at.results : v # w => results[v] = at.results[v]
      /\ \A v \in DOMAIN results : RowAt(results[v], v)
  <2>1. \A v \in DOMAIN at.results : RowAt(at.results[v], v)
    BY <1>3 DEF ResultsFit
  <2>2. PICK table : table = at.results
    OBVIOUS
  <2>3. \A v \in DOMAIN table : RowAt(table[v], v)
    BY <2>1, <2>2
  <2>4. /\ Upserted(table, w, row) \in Tables
        /\ DOMAIN Upserted(table, w, row) = DOMAIN table \cup {w}
        /\ Upserted(table, w, row)[w] = row
        /\ \A v \in DOMAIN table : v # w => Upserted(table, w, row)[v] = table[v]
        /\ \A v \in DOMAIN Upserted(table, w, row) : RowAt(Upserted(table, w, row)[v], v)
    BY <2>3, UpsertedTable, Zenon
  <2> QED BY <1>2, <2>2, <2>4
<1>5. new = [released EXCEPT !.results = results]
  BY <1>1, <1>2 DEF Accepted
<1> HIDE DEF released
<1>6. /\ new \in Attempts
      /\ new.pc = at.pc /\ new.cues = at.cues /\ new.results = results
      /\ new.todo = at.todo /\ new.calling = at.calling \ {w} /\ new.repairing = at.repairing \ {w}
      /\ new.again = at.again /\ new.invalid = at.invalid
  BY <1>1, <1>4, <1>5 DEF Attempts
<1>7. AllPlaces(new) = AllPlaces(at)
  BY <1>4, <1>6 DEF AllPlaces
<1>8. InOnePlace(new) /\ w \notin DOMAIN at.results
  BY <1>3, <1>4, <1>6 DEF InOnePlace
<1>9. Cardinality(new.calling \cup new.repairing) <= Concurrency
  BY <1>6, FewerCalls
<1>10. ResultsFit(new)
  BY <1>3, <1>4, <1>6 DEF ResultsFit
<1>11. AttemptOk(new)
  BY <1>6, <1>7, <1>8, <1>9, <1>10 DEF AttemptOk
<1> QED BY <1>4, <1>6, <1>8, <1>11

(* The next round takes the windows whose call raised. *)
LEMMA NextRoundKeeps ==
  ASSUME NEW at \in Attempts, AttemptOk(at), at.pc = "extracting",
         at.todo \cup at.calling \cup at.repairing = {}, at.round < MaxRetries,
         NEW new, new = Renewed(at)
  PROVE  /\ new \in Attempts /\ AttemptOk(new)
         /\ new.pc = at.pc /\ new.results = at.results
<1>0. at.round + 1 \in 0 .. MaxRetries
  BY BoundsAssumption DEF Attempts
<1>1. PICK round \in 0 .. MaxRetries : round = at.round + 1
  BY <1>0
<1>2. new = [at EXCEPT !.todo = at.again, !.again = {}, !.round = round]
  BY <1>1 DEF Renewed
<1>3. /\ new.pc = at.pc /\ new.cues = at.cues /\ new.results = at.results
      /\ new.todo = at.again /\ new.calling = at.calling
      /\ new.repairing = at.repairing /\ new.again = {} /\ new.invalid = at.invalid
  BY <1>2 DEF Attempts
<1>4. new \in Attempts
  BY <1>2 DEF Attempts
<1>5. AllPlaces(new) = AllPlaces(at)
  BY <1>3 DEF AllPlaces
<1>6. InOnePlace(new)
  BY <1>3 DEF InOnePlace, AttemptOk
<1>7. Cardinality(new.calling \cup new.repairing) <= Concurrency
  BY <1>3, FewerCalls
<1> QED BY <1>3, <1>4, <1>5, <1>6, <1>7, MovesKeep

(* The extraction is over: it succeeded when every window has a result. *)
LEMMA BatchesEndKeeps ==
  ASSUME NEW at \in Attempts, AttemptOk(at), at.pc = "extracting",
         at.todo \cup at.calling \cup at.repairing = {},
         NEW outcome \in {"succeeded", "failed"},
         outcome = "succeeded" => at.again \cup at.invalid = {},
         NEW new, new = Finished(at, outcome)
  PROVE  /\ new \in Attempts /\ AttemptOk(new)
         /\ new.pc = "storing" /\ new.results = at.results
<1>1. /\ new.pc = "storing" /\ new.outcome = outcome /\ new.cues = at.cues
      /\ new.results = at.results
      /\ new.todo = at.todo /\ new.calling = at.calling
      /\ new.repairing = at.repairing /\ new.again = at.again /\ new.invalid = at.invalid
  BY DEF Attempts, Finished
<1>2. new \in Attempts
  BY DEF Attempts, Pcs, Finished
<1>3. AllPlaces(new) = AllPlaces(at) /\ InOnePlace(new) /\ ResultsFit(new)
  BY <1>1 DEF AllPlaces, InOnePlace, ResultsFit, AttemptOk
<1>4. outcome = "succeeded" =>
        DOMAIN new.results = DOMAIN WindowsFor[new.cues] /\ new.again \cup new.invalid = {}
  BY <1>1 DEF AttemptOk, AllPlaces
<1>5. AttemptOk(new)
  BY <1>1, <1>3, <1>4 DEF AttemptOk
<1> QED BY <1>1, <1>2, <1>5

(* What is stored: the results, and a failed row for every other window. *)
LEMMA StoreKeeps ==
  ASSUME NEW at \in Attempts, AttemptOk(at), at.pc = "storing",
         NEW new, new = [at EXCEPT !.pc = "recording"]
  PROVE  new \in Attempts /\ AttemptOk(new) /\ new.pc = "recording" /\ new.outcome = at.outcome
         /\ new.cues = at.cues
<1>1. /\ new.pc = "recording" /\ new.cues = at.cues /\ new.outcome = at.outcome
      /\ new.results = at.results
      /\ new.todo = at.todo /\ new.calling = at.calling
      /\ new.repairing = at.repairing /\ new.again = at.again /\ new.invalid = at.invalid
  BY DEF Attempts
<1>2. new \in Attempts
  BY DEF Attempts, Pcs
<1>3. AttemptOk(new)
  BY <1>1 DEF AttemptOk, AllPlaces, InOnePlace, ResultsFit
<1> QED BY <1>1, <1>2, <1>3

(* An attempt that ends, or waits for its end to be recorded, knows nothing. *)
LEMMA EndedKeeps ==
  ASSUME NEW at \in Attempts, NEW new \in Attempts, new.results = <<>>,
         new.todo = {}, new.calling = {}, new.repairing = {}, new.again = {}, new.invalid = {},
         new.pc \in {"recording", "ended"}, new.pc = "recording" => new.outcome # "none"
  PROVE  AttemptOk(new)
<1>1. DOMAIN new.results = {}
  BY NoRows
<1>2. Cardinality(new.calling \cup new.repairing) <= Concurrency
  <2>1. Cardinality({}) = 0
    BY FS_EmptySet
  <2>2. new.calling \cup new.repairing = {}
    OBVIOUS
  <2> QED BY <2>1, <2>2, ConcurrencyAssumption
<1>3. InOnePlace(new) /\ AllPlaces(new) = {} /\ ResultsFit(new)
  BY <1>1 DEF InOnePlace, AllPlaces, ResultsFit
<1> QED BY <1>2, <1>3 DEF AttemptOk

(* What is left of an attempt that is over.                                  *)
LEMMA EndedFields ==
  ASSUME NEW at \in Attempts, NEW new,
         new = Over(at)
  PROVE  /\ new \in Attempts /\ new.pc = "ended" /\ new.cues = at.cues /\ new.outcome = at.outcome
         /\ new.results = <<>> /\ new.todo = {} /\ new.calling = {} /\ new.repairing = {}
         /\ new.again = {} /\ new.invalid = {}
<1>1. /\ new.pc = "ended" /\ new.cues = at.cues /\ new.outcome = at.outcome
      /\ new.results = <<>> /\ new.todo = {} /\ new.calling = {} /\ new.repairing = {}
      /\ new.again = {} /\ new.invalid = {}
  BY DEF Attempts, Over
<1>2. new \in Attempts
  BY NoRows DEF Attempts, Pcs, Over
<1> QED BY <1>1, <1>2

-----------------------------------------------------------------------------
(* A step of one attempt leaves the others as they are. *)
LEMMA MoveAttempt ==
  ASSUME Types, AttemptsOk, NEW a \in DOMAIN attempts,
         NEW new \in Attempts, AttemptOk(new), Become(a, new)
  PROVE  /\ attempts' \in Seq(Attempts) /\ DOMAIN attempts' = DOMAIN attempts
         /\ Len(attempts') = Len(attempts)
         /\ attempts'[a] = new
         /\ \A b \in DOMAIN attempts : b # a => attempts'[b] = attempts[b]
         /\ AttemptsOk'
<1>1. attempts \in Seq(Attempts) /\ DOMAIN attempts = 1 .. Len(attempts) /\ a \in 1 .. Len(attempts)
  BY LenProperties DEF Types
<1>2. attempts' = [attempts EXCEPT ![a] = new]
  BY DEF Become
<1>3. attempts' \in Seq(Attempts) /\ Len(attempts') = Len(attempts)
  BY <1>1, <1>2, ExceptSeq
<1>4. /\ DOMAIN attempts' = DOMAIN attempts /\ attempts'[a] = new
      /\ \A b \in DOMAIN attempts : b # a => attempts'[b] = attempts[b]
  BY <1>2
<1>5. AttemptsOk'
  BY <1>4 DEF AttemptsOk
<1> QED BY <1>3, <1>4, <1>5

(* The only attempt alive is the last one, and the item has not succeeded. *)
LEMMA TheOneAlive ==
  ASSUME Alone, ~overlapped, NEW a \in DOMAIN attempts, Alive(a)
  PROVE  /\ a = Len(attempts) /\ AloneWith(attempts[a], rows)
         /\ item # "succeeded"
         /\ \A b \in DOMAIN attempts : b # a => ~Alive(b)
BY DEF Alone

(* What is known of the only attempt alive stays known when that one moves. *)
LEMMA MoveAlone ==
  ASSUME Alone, NEW a \in DOMAIN attempts, Alive(a), NEW new,
         DOMAIN attempts' = DOMAIN attempts, Len(attempts') = Len(attempts), attempts'[a] = new,
         \A b \in DOMAIN attempts : b # a => attempts'[b] = attempts[b],
         overlapped' = overlapped,
         ~overlapped => new.pc = "ended" \/ AloneWith(new, rows'),
         ~overlapped /\ item' = "succeeded" =>
           item = "succeeded" \/ (new.pc = "ended" /\ CompleteFor(new, rows'))
  PROVE  Alone'
<1> SUFFICES ASSUME ~overlapped PROVE Alone'
  BY DEF Alone
<1>1. /\ a = Len(attempts) /\ item # "succeeded"
      /\ \A b \in DOMAIN attempts : b # a => ~Alive(b)
  BY TheOneAlive
<1>2. \A b \in DOMAIN attempts' : b # a => attempts'[b].pc = "ended"
  BY <1>1 DEF Alive
<1>3. \A b \in DOMAIN attempts' :
        attempts'[b].pc # "ended" => b = Len(attempts') /\ AloneWith(attempts'[b], rows')
  BY <1>1, <1>2
<1>4. item' = "succeeded" =>
        /\ attempts' # <<>>
        /\ \A b \in DOMAIN attempts' : attempts'[b].pc = "ended"
        /\ CompleteFor(attempts'[Len(attempts')], rows')
  <2> SUFFICES ASSUME item' = "succeeded"
               PROVE  /\ attempts' # <<>>
                      /\ \A b \in DOMAIN attempts' : attempts'[b].pc = "ended"
                      /\ CompleteFor(attempts'[Len(attempts')], rows')
    OBVIOUS
  <2>1. new.pc = "ended" /\ CompleteFor(new, rows')
    BY <1>1
  <2>2. attempts' # <<>>
    BY NoRows
  <2> QED BY <1>1, <1>2, <2>1, <2>2
<1> QED BY <1>3, <1>4 DEF Alone, Alive

(* A step of one attempt keeps the invariant if it keeps the attempt, the rows  *)
(* and what the only attempt alive relies on.                                   *)
LEMMA MoveKeeps ==
  ASSUME MicroInv, NEW a \in DOMAIN attempts, Alive(a),
         NEW new \in Attempts, AttemptOk(new), Become(a, new),
         cues' \in CueLists, faults' \in 0 .. MaxFaults, overlapped' = overlapped,
         item' \in {"pending", "running", "succeeded", "failed", "timed_out"},
         ~overlapped /\ item' = "succeeded" =>
           item = "succeeded" \/ (new.pc = "ended" /\ CompleteFor(new, rows')),
         rows' \in Tables, RowsFit',
         ~overlapped => new.pc = "ended" \/ AloneWith(new, rows')
  PROVE  MicroInv'
<1>1. Types /\ AttemptsOk /\ Alone
  BY DEF MicroInv
<1>2. /\ attempts' \in Seq(Attempts) /\ DOMAIN attempts' = DOMAIN attempts
      /\ Len(attempts') = Len(attempts) /\ attempts'[a] = new
      /\ \A b \in DOMAIN attempts : b # a => attempts'[b] = attempts[b]
      /\ AttemptsOk'
  BY <1>1, MoveAttempt
<1>3. Types'
  BY <1>1, <1>2 DEF Types
<1>4. Alone'
  BY <1>1, <1>2, MoveAlone
<1> QED BY <1>2, <1>3, <1>4 DEF MicroInv

(* The type of the rows. *)
LEMMA StoredTables ==
  ASSUME RowsFit
  PROVE  /\ \A w \in Succeeded(rows) : RowAt(rows[w], w) /\ rows[w].status = "succeeded" /\ w \in DOMAIN rows
         /\ \A w \in DOMAIN rows : w \notin Succeeded(rows) => rows[w].status = "failed"
BY RowShape DEF RowsFit, Succeeded

(* An attempt's plan puts each window among those to do or those resumed.    *)
LEMMA PlanStep ==
  ASSUME MicroInv, NEW a \in DOMAIN attempts, Plan(a)
  PROVE  MicroInv'
<1> PICK at \in Attempts : at = attempts[a]
  BY ElementOfSeq, LenProperties DEF MicroInv, Types
<1> DEFINE W == DOMAIN WindowsFor[at.cues]
           resumed == at.resume /\ Resumable(a)
           kept == IF resumed THEN Succeeded(rows) ELSE {}
<1>1. PICK keep : keep = kept
  OBVIOUS
<1>2. PICK table : table = rows
  OBVIOUS
<1>3. PICK new : /\ new = [at EXCEPT !.pc = IF W \subseteq keep THEN "storing" ELSE "extracting",
                                   !.outcome = IF W \subseteq keep THEN "succeeded" ELSE "none",
                                   !.results = [w \in keep |-> table[w]],
                                   !.todo = W \ keep]
                 /\ Become(a, new)
  BY <1>1, <1>2 DEF Plan, WindowsOf
<1>4. /\ at.pc = "planning" /\ rows' = IF W = {} \/ resumed THEN rows ELSE <<>>
      /\ UNCHANGED <<cues, item, faults, overlapped>>
  BY DEF Plan, WindowsOf
<1>5. AttemptOk(at) /\ RowsFit /\ Types
  BY DEF MicroInv, AttemptsOk
<1>6. keep \in SUBSET W /\ \A w \in keep : /\ RowAt(table[w], w) /\ table[w].status = "succeeded"
                                           /\ table[w].shape = ShapeOf(WindowsFor[at.cues][w])
  BY <1>1, <1>2, <1>5, StoredTables DEF Resumable, WindowsOf
<1>7. PICK pc \in {"storing", "extracting"} : pc = IF W \subseteq keep THEN "storing" ELSE "extracting"
  OBVIOUS
<1>8. PICK outcome \in {"none", "succeeded"} : outcome = IF W \subseteq keep THEN "succeeded" ELSE "none"
  OBVIOUS
<1>9. new = Planned(at, pc, outcome, keep, table)
  BY <1>3, <1>7, <1>8 DEF Planned
<1>10. /\ new \in Attempts /\ AttemptOk(new) /\ new.pc = pc /\ new.outcome = outcome
       /\ new.cues = at.cues
       /\ DOMAIN new.results = keep /\ \A w \in keep : new.results[w] = table[w]
  <2>1. (outcome = "succeeded" => DOMAIN WindowsFor[at.cues] \subseteq keep)
        /\ (pc = "storing" => outcome # "none")
    BY <1>7, <1>8
  <2>2. keep \in SUBSET DOMAIN WindowsFor[at.cues] /\ at.pc = "planning" /\ AttemptOk(at)
    BY <1>4, <1>5, <1>6
  <2> QED BY <1>6, <1>9, <2>1, <2>2, PlanKeeps
<1>11. /\ attempts' \in Seq(Attempts) /\ DOMAIN attempts' = DOMAIN attempts
       /\ Len(attempts') = Len(attempts) /\ attempts'[a] = new
       /\ \A b \in DOMAIN attempts : b # a => attempts'[b] = attempts[b]
       /\ AttemptsOk'
  BY <1>3, <1>5, <1>10, MoveAttempt DEF MicroInv
<1>12. rows' \in Tables /\ RowsFit'
  BY <1>4, <1>5, NoRows DEF Types, RowsFit
<1>13. Types'
  BY <1>4, <1>5, <1>11, <1>12 DEF Types
<1>14. ~overlapped => AloneWith(new, rows')
  <2> SUFFICES ASSUME ~overlapped PROVE AloneWith(new, rows')
    OBVIOUS
  <2>1. ~at.resume => DOMAIN rows = {}
    <3>1. AloneWith(at, rows)
      BY <1>4, TheOneAlive DEF MicroInv, Alive
    <3> QED BY <1>4, <3>1 DEF AloneWith
  <2>2. new.pc \in {"storing", "extracting"} /\ (new.pc = "extracting" => W # {})
    BY <1>7, <1>10
  <2>3. W # {} => Matches(new, rows')
    <3>1. CASE resumed
      BY <1>1, <1>2, <1>4, <1>10, <3>1 DEF Matches, Succeeded
    <3>2. CASE ~resumed /\ W # {}
      <4>1. rows' = <<>> /\ keep = {}
        BY <1>1, <1>4, <3>2
      <4> QED BY <1>10, <4>1, NoRows DEF Matches, Succeeded
    <3> QED BY <3>1, <3>2
  <2> QED BY <1>10, <2>2, <2>3 DEF AloneWith
<1>15. Alone'
  <2>1. Alone /\ Alive(a) /\ overlapped' = overlapped /\ item' = item
    BY <1>4 DEF MicroInv, Alive
  <2> QED BY <1>11, <1>14, <2>1, MoveAlone
<1> QED BY <1>11, <1>12, <1>13, <1>15 DEF MicroInv

(* A step that touches neither the rows nor the results of the attempt. *)
LEMMA QuietStep ==
  ASSUME MicroInv, NEW a \in DOMAIN attempts, NEW at, at = attempts[a], at.pc = "extracting",
         NEW new \in Attempts, AttemptOk(new), Become(a, new),
         new.pc \in {"extracting", "storing"}, new.results = at.results,
         UNCHANGED <<cues, item, rows, faults, overlapped>>
  PROVE  MicroInv'
<1>1. Alive(a) /\ Types /\ RowsFit
  BY DEF Alive, MicroInv
<1>2. rows' \in Tables /\ RowsFit' /\ cues' \in CueLists /\ faults' \in 0 .. MaxFaults
      /\ item' \in {"pending", "running", "succeeded", "failed", "timed_out"}
  BY <1>1 DEF Types, RowsFit
<1>3. ~overlapped => AloneWith(new, rows')
  <2> SUFFICES ASSUME ~overlapped PROVE AloneWith(new, rows')
    OBVIOUS
  <2>1. AloneWith(at, rows)
    BY <1>1, TheOneAlive DEF MicroInv
  <2>2. Matches(at, rows)
    BY <2>1 DEF AloneWith
  <2>3. Matches(new, rows')
    BY <2>2 DEF Matches, Succeeded
  <2> QED BY <2>3 DEF AloneWith
<1>4. ~overlapped /\ item' = "succeeded" => item = "succeeded"
  OBVIOUS
<1>5. overlapped' = overlapped
  OBVIOUS
<1> QED BY <1>1, <1>2, <1>3, <1>4, <1>5, MoveKeeps

(* Calling the model preserves the invariant.                                *)
LEMMA CallStep ==
  ASSUME MicroInv, NEW a \in DOMAIN attempts, NEW w, Call(a, w)
  PROVE  MicroInv'
<1> PICK at \in Attempts : at = attempts[a]
  BY ElementOfSeq, LenProperties DEF MicroInv, Types
<1>1. AttemptOk(at) /\ at.pc = "extracting" /\ w \in at.todo
      /\ Cardinality(at.calling \cup at.repairing) < Concurrency
      /\ UNCHANGED <<cues, item, rows, faults, overlapped>>
  BY DEF MicroInv, AttemptsOk, Call
<1>2. Become(a, Called(at, w))
  BY DEF Call, Called
<1>3. PICK new : new = Called(at, w)
  OBVIOUS
<1>4. new \in Attempts /\ AttemptOk(new) /\ new.pc = at.pc /\ new.results = at.results
  BY <1>1, <1>3, CallKeeps
<1> QED BY <1>1, <1>2, <1>3, <1>4, QuietStep

(* So does asking for a repair of an answer.                                 *)
LEMMA AskRepairStep ==
  ASSUME MicroInv, NEW a \in DOMAIN attempts, NEW w, NEW judged, AskRepair(a, w, judged)
  PROVE  MicroInv'
<1> PICK at \in Attempts : at = attempts[a]
  BY ElementOfSeq, LenProperties DEF MicroInv, Types
<1>1. AttemptOk(at) /\ at.pc = "extracting" /\ w \in at.calling
      /\ UNCHANGED <<cues, item, rows, faults, overlapped>>
  BY DEF MicroInv, AttemptsOk, AskRepair
<1>2. Become(a, Asked(at, w))
  BY DEF AskRepair, Asked
<1>3. PICK new : new = Asked(at, w)
  OBVIOUS
<1>4. new \in Attempts /\ AttemptOk(new) /\ new.pc = at.pc /\ new.results = at.results
  BY <1>1, <1>3, AskRepairKeeps
<1> QED BY <1>1, <1>2, <1>3, <1>4, QuietStep

(* The next round takes up the windows that are to be called again.          *)
LEMMA NextRoundStep ==
  ASSUME MicroInv, NEW a \in DOMAIN attempts, NextRound(a)
  PROVE  MicroInv'
<1> PICK at \in Attempts : at = attempts[a]
  BY ElementOfSeq, LenProperties DEF MicroInv, Types
<1>1. AttemptOk(at) /\ at.pc = "extracting" /\ at.round < MaxRetries
      /\ at.todo \cup at.calling \cup at.repairing = {}
      /\ UNCHANGED <<cues, item, rows, faults, overlapped>>
  BY DEF MicroInv, AttemptsOk, NextRound, Drained
<1>2. Become(a, Renewed(at))
  BY DEF NextRound, Renewed
<1>3. PICK new : new = Renewed(at)
  OBVIOUS
<1>4. new \in Attempts /\ AttemptOk(new) /\ new.pc = at.pc /\ new.results = at.results
  BY <1>1, <1>3, NextRoundKeeps
<1> QED BY <1>1, <1>2, <1>3, <1>4, QuietStep

(* An attempt whose rounds are over goes on to store.                        *)
LEMMA BatchesEndStep ==
  ASSUME MicroInv, NEW a \in DOMAIN attempts, BatchesEnd(a)
  PROVE  MicroInv'
<1> PICK at \in Attempts : at = attempts[a]
  BY ElementOfSeq, LenProperties DEF MicroInv, Types
<1>1. AttemptOk(at) /\ at.pc = "extracting"
      /\ at.todo \cup at.calling \cup at.repairing = {}
      /\ UNCHANGED <<cues, item, rows, faults, overlapped>>
  BY DEF MicroInv, AttemptsOk, BatchesEnd, Drained
<1>2. PICK outcome \in {"succeeded", "failed"} :
        outcome = IF at.again \cup at.invalid = {} THEN "succeeded" ELSE "failed"
  OBVIOUS
<1>3. Become(a, Finished(at, outcome))
  BY <1>2 DEF BatchesEnd, Finished, Failed
<1>4. PICK new : new = Finished(at, outcome)
  OBVIOUS
<1>5. outcome = "succeeded" => at.again \cup at.invalid = {}
  BY <1>2
<1>6. new \in Attempts /\ AttemptOk(new) /\ new.pc = "storing" /\ new.results = at.results
  BY <1>1, <1>4, <1>5, BatchesEndKeeps
<1> QED BY <1>1, <1>3, <1>4, <1>6, QuietStep

(* A failed row for a window without a result. *)
LEMMA FailureStep ==
  ASSUME MicroInv, NEW a \in DOMAIN attempts, NEW at, at = attempts[a], NEW w, WorksOn(a, w),
         rows' = Upserted(rows, w, FailedRow(WindowsOf(a)[w])),
         NEW new, new = Rejected(at, w) \/ new = Raised(at, w), Become(a, new),
         UNCHANGED <<cues, item, faults, overlapped>>
  PROVE  MicroInv'
<1>1. at \in Attempts /\ AttemptOk(at) /\ at.pc = "extracting" /\ w \in at.calling \cup at.repairing
  BY ElementOfSeq, LenProperties DEF MicroInv, Types, AttemptsOk, WorksOn
<1>2. new \in Attempts /\ AttemptOk(new) /\ new.pc = at.pc /\ new.results = at.results
  BY <1>1, FailureKeeps
<1>3. PICK row : row = FailedRow(WindowsFor[at.cues][w])
  OBVIOUS
<1>4. w \in DOMAIN WindowsFor[at.cues] /\ w \notin DOMAIN at.results
  BY <1>1 DEF AttemptOk, AllPlaces, InOnePlace
<1>5. RowAt(row, w) /\ row.status = "failed"
  <2>1. at.cues \in CueLists
    BY <1>1 DEF Attempts
  <2>2. RowAt(row, w)
    BY <1>3, <1>4, <2>1, OwnRows
  <2> QED BY <1>3, <2>2 DEF FailedRow
<1>6. rows' = Upserted(rows, w, row)
  BY <1>3 DEF WindowsOf
<1>7. PICK table : table = rows
  OBVIOUS
<1>8. PICK next : next = Upserted(table, w, row)
  OBVIOUS
<1>9. \A v \in DOMAIN table : RowAt(table[v], v)
  BY <1>7 DEF MicroInv, RowsFit
<1>10. /\ next \in Tables /\ DOMAIN next = DOMAIN table \cup {w} /\ next[w] = row
       /\ \A v \in DOMAIN table : v # w => next[v] = table[v]
       /\ \A v \in DOMAIN next : RowAt(next[v], v)
  <2>1. /\ Upserted(table, w, row) \in Tables
        /\ DOMAIN Upserted(table, w, row) = DOMAIN table \cup {w}
        /\ Upserted(table, w, row)[w] = row
        /\ \A v \in DOMAIN table : v # w => Upserted(table, w, row)[v] = table[v]
        /\ \A v \in DOMAIN Upserted(table, w, row) : RowAt(Upserted(table, w, row)[v], v)
    BY <1>5, <1>9, UpsertedTable, Zenon
  <2> QED BY <1>8, <2>1
<1>11. rows' = next
  BY <1>6, <1>7, <1>8
<1>12. rows' \in Tables /\ RowsFit' /\ cues' \in CueLists /\ faults' \in 0 .. MaxFaults
       /\ item' \in {"pending", "running", "succeeded", "failed", "timed_out"}
       /\ overlapped' = overlapped
  BY <1>10, <1>11 DEF RowsFit, MicroInv, Types
<1>13. ~overlapped => AloneWith(new, rows')
  <2> SUFFICES ASSUME ~overlapped PROVE AloneWith(new, rows')
    OBVIOUS
  <2>1. Matches(at, table)
    BY <1>1, <1>7, TheOneAlive DEF MicroInv, AloneWith, Alive
  <2>2. Succeeded(next) = Succeeded(table)
    BY <1>4, <1>5, <1>10, <2>1 DEF Matches, Succeeded
  <2>3. Matches(new, next)
    BY <1>2, <1>4, <1>10, <2>1, <2>2 DEF Matches, Succeeded
  <2> QED BY <1>1, <1>2, <1>11, <2>3 DEF AloneWith
<1>14. Alive(a) /\ (~overlapped /\ item' = "succeeded" => item = "succeeded")
  BY <1>1 DEF Alive
<1> QED BY <1>2, <1>12, <1>13, <1>14, MoveKeeps

(* A rejected answer leaves a failed row, or the window for another round.   *)
LEMMA RejectStep ==
  ASSUME MicroInv, NEW a \in DOMAIN attempts, NEW w, Reject(a, w)
  PROVE  MicroInv'
<1> PICK at : at = attempts[a]
  OBVIOUS
<1>1. PICK new : new = Rejected(at, w)
  OBVIOUS
<1>2. Become(a, new)
  BY <1>1 DEF Reject, Rejected, Released, Freed
<1>3. WorksOn(a, w) /\ rows' = Upserted(rows, w, FailedRow(WindowsOf(a)[w]))
      /\ UNCHANGED <<cues, item, faults, overlapped>>
  BY DEF Reject
<1> QED BY <1>1, <1>2, <1>3, FailureStep

(* So does a call that fails.                                                *)
LEMMA CallFailsStep ==
  ASSUME MicroInv, NEW a \in DOMAIN attempts, NEW w, CallFails(a, w)
  PROVE  MicroInv'
<1> PICK at : at = attempts[a]
  OBVIOUS
<1>1. PICK new : new = Raised(at, w)
  OBVIOUS
<1>2. Become(a, new)
  BY <1>1 DEF CallFails, Raised, Released, Freed
<1>3. WorksOn(a, w) /\ rows' = Upserted(rows, w, FailedRow(WindowsOf(a)[w]))
      /\ UNCHANGED <<cues, item, faults, overlapped>>
  BY DEF CallFails
<1> QED BY <1>1, <1>2, <1>3, FailureStep

(* An accepted answer is stored and remembered as this window's result.      *)
LEMMA AcceptStep ==
  ASSUME MicroInv, NEW a \in DOMAIN attempts, NEW w,
         NEW judged \in MayAnswer[WindowsOf(a)[w]], Accept(a, w, judged)
  PROVE  MicroInv'
<1> PICK at \in Attempts : at = attempts[a]
  BY ElementOfSeq, LenProperties DEF MicroInv, Types
<1>1. PICK row : row = SucceededRow(judged, WindowsFor[at.cues][w])
  OBVIOUS
<1>2. PICK new : new = Accepted(at, w, row)
  OBVIOUS
<1>3. /\ AttemptOk(at) /\ at.pc = "extracting" /\ w \in at.calling \cup at.repairing
      /\ judged.verdict = "valid" /\ rows' = Upserted(rows, w, row) /\ Become(a, new)
      /\ UNCHANGED <<cues, item, faults, overlapped>>
  BY <1>1, <1>2 DEF Accept, WorksOn, WindowsOf, MicroInv, AttemptsOk, Accepted, Released, Freed
<1>4. RowAt(row, w) /\ row.status = "succeeded" /\ row.shape = ShapeOf(WindowsFor[at.cues][w])
  <2>1. at.cues \in CueLists /\ w \in DOMAIN WindowsFor[at.cues]
    BY <1>3 DEF Attempts, AttemptOk, AllPlaces
  <2>2. judged \in MayAnswer[WindowsFor[at.cues][w]]
    BY DEF WindowsOf
  <2>3. RowAt(row, w)
    BY <1>1, <1>3, <2>1, <2>2, OwnRows
  <2> QED BY <1>1, <2>3 DEF SucceededRow
<1>5. /\ new \in Attempts /\ AttemptOk(new) /\ new.pc = at.pc
      /\ DOMAIN new.results = DOMAIN at.results \cup {w} /\ w \notin DOMAIN at.results
      /\ new.results[w] = row
      /\ \A v \in DOMAIN at.results : v # w => new.results[v] = at.results[v]
  BY <1>2, <1>3, <1>4, AcceptKeeps
<1>6. PICK table : table = rows
  OBVIOUS
<1>7. PICK next : next = Upserted(table, w, row)
  OBVIOUS
<1>8. \A v \in DOMAIN table : RowAt(table[v], v)
  BY <1>6 DEF MicroInv, RowsFit
<1>9. /\ next \in Tables /\ DOMAIN next = DOMAIN table \cup {w} /\ next[w] = row
      /\ \A v \in DOMAIN table : v # w => next[v] = table[v]
      /\ \A v \in DOMAIN next : RowAt(next[v], v)
  <2>1. /\ Upserted(table, w, row) \in Tables
        /\ DOMAIN Upserted(table, w, row) = DOMAIN table \cup {w}
        /\ Upserted(table, w, row)[w] = row
        /\ \A v \in DOMAIN table : v # w => Upserted(table, w, row)[v] = table[v]
        /\ \A v \in DOMAIN Upserted(table, w, row) : RowAt(Upserted(table, w, row)[v], v)
    BY <1>4, <1>8, UpsertedTable, Zenon
  <2> QED BY <1>7, <2>1
<1>10. rows' = next
  BY <1>3, <1>6, <1>7
<1>11. rows' \in Tables /\ RowsFit' /\ cues' \in CueLists /\ faults' \in 0 .. MaxFaults
       /\ item' \in {"pending", "running", "succeeded", "failed", "timed_out"}
       /\ overlapped' = overlapped
  BY <1>3, <1>9, <1>10 DEF RowsFit, MicroInv, Types
<1>12. ~overlapped => AloneWith(new, rows')
  <2> SUFFICES ASSUME ~overlapped PROVE AloneWith(new, rows')
    OBVIOUS
  <2>1. Matches(at, table)
    BY <1>3, <1>6, TheOneAlive DEF MicroInv, AloneWith, Alive
  <2>2. Succeeded(next) = Succeeded(table) \cup {w}
    BY <1>4, <1>9 DEF Succeeded
  <2>3. Matches(new, next)
    BY <1>5, <1>9, <2>1, <2>2 DEF Matches, Succeeded
  <2> QED BY <1>3, <1>5, <1>10, <2>3 DEF AloneWith
<1>13. Alive(a) /\ (~overlapped /\ item' = "succeeded" => item = "succeeded")
  BY <1>3 DEF Alive
<1> QED BY <1>3, <1>5, <1>11, <1>12, <1>13, MoveKeeps

(* Storing replaces the rows by the results of the attempt.                  *)
LEMMA StoreStep ==
  ASSUME MicroInv, NEW a \in DOMAIN attempts, Store(a)
  PROVE  MicroInv'
<1> PICK at \in Attempts : at = attempts[a]
  BY ElementOfSeq, LenProperties DEF MicroInv, Types
<1> DEFINE W == DOMAIN WindowsFor[at.cues]
           D == DOMAIN at.results \cup at.again \cup at.invalid
<1>1. PICK new : new = [at EXCEPT !.pc = "recording"]
  OBVIOUS
<1>2. /\ AttemptOk(at) /\ at.pc = "storing" /\ Become(a, new)
      /\ UNCHANGED <<cues, item, faults, overlapped>>
  BY <1>1 DEF Store, MicroInv, AttemptsOk
<1>3. PICK next : next = [w \in D |-> IF w \in at.again \cup at.invalid
                                      THEN FailedRow(WindowsFor[at.cues][w]) ELSE at.results[w]]
  OBVIOUS
<1>4. rows' = next
  BY <1>3 DEF Store, Failed, WindowsOf
<1>5. /\ DOMAIN next = D /\ next = [w \in DOMAIN next |-> next[w]]
      /\ \A w \in at.again \cup at.invalid : next[w] = FailedRow(WindowsFor[at.cues][w])
      /\ \A w \in DOMAIN at.results \ (at.again \cup at.invalid) : next[w] = at.results[w]
  BY <1>3
<1>6. at.cues \in CueLists /\ D \subseteq W /\ ResultsFit(at)
  BY <1>2 DEF Attempts, AttemptOk, AllPlaces
<1>7. \A w \in DOMAIN next : RowAt(next[w], w)
  BY <1>5, <1>6, OwnRows DEF ResultsFit
<1>8. next \in Tables
  BY <1>5, <1>7, TableOfRows
<1>9. /\ new \in Attempts /\ AttemptOk(new) /\ new.pc = "recording" /\ new.outcome = at.outcome
      /\ new.cues = at.cues
  BY <1>1, <1>2, StoreKeeps
<1>10. AloneWith(new, next)
  <2>1. ASSUME at.outcome = "succeeded" PROVE CompleteFor(new, next)
    <3>1. DOMAIN at.results = W /\ at.again \cup at.invalid = {}
      BY <1>2, <2>1 DEF AttemptOk
    <3>2. DOMAIN next = W /\ \A w \in W : next[w] = at.results[w]
      BY <1>5, <3>1
    <3> QED BY <1>6, <1>9, <3>1, <3>2 DEF CompleteFor, Succeeded, ResultsFit
  <2> QED BY <1>9, <2>1 DEF AloneWith
<1>11. rows' \in Tables /\ RowsFit' /\ cues' \in CueLists /\ faults' \in 0 .. MaxFaults
       /\ item' \in {"pending", "running", "succeeded", "failed", "timed_out"}
       /\ overlapped' = overlapped /\ AloneWith(new, rows')
  BY <1>2, <1>4, <1>7, <1>8, <1>10 DEF RowsFit, MicroInv, Types
<1>12. Alive(a) /\ (~overlapped /\ item' = "succeeded" => item = "succeeded")
  BY <1>2 DEF Alive
<1> QED BY <1>2, <1>9, <1>11, <1>12, MoveKeeps

(* The outcome of an attempt that waits to be recorded is a status of the item. *)
LEMMA RecordStep ==
  ASSUME MicroInv, NEW a \in DOMAIN attempts, Record(a)
  PROVE  MicroInv'
<1> PICK at \in Attempts : at = attempts[a]
  BY ElementOfSeq, LenProperties DEF MicroInv, Types
<1>1. PICK new : new = Over(at)
  OBVIOUS
<1>2. /\ at.pc = "recording" /\ Become(a, new) /\ item' = at.outcome
      /\ UNCHANGED <<cues, rows, faults, overlapped>>
  BY <1>1 DEF Record, Ended, Over
<1>3. /\ new \in Attempts /\ new.pc = "ended" /\ new.cues = at.cues /\ new.results = <<>>
      /\ new.todo = {} /\ new.calling = {} /\ new.repairing = {}
      /\ new.again = {} /\ new.invalid = {}
  BY <1>1, EndedFields
<1>4. AttemptOk(new)
  BY <1>3, EndedKeeps
<1>5. item' \in {"succeeded", "failed", "timed_out"}
  BY <1>2 DEF MicroInv, AttemptsOk, AttemptOk, Attempts
<1>6. ~overlapped /\ item' = "succeeded" => CompleteFor(new, rows')
  <2> SUFFICES ASSUME ~overlapped, item' = "succeeded" PROVE CompleteFor(new, rows')
    OBVIOUS
  <2>1. CompleteFor(at, rows)
    BY <1>2, TheOneAlive DEF MicroInv, AloneWith, Alive
  <2> QED BY <1>2, <1>3, <2>1 DEF CompleteFor, Succeeded
<1>7. rows' \in Tables /\ RowsFit' /\ cues' \in CueLists /\ faults' \in 0 .. MaxFaults
      /\ overlapped' = overlapped /\ Alive(a)
  BY <1>2 DEF RowsFit, MicroInv, Types, Alive
<1> QED BY <1>2, <1>3, <1>4, <1>5, <1>6, <1>7, MoveKeeps

(* An interrupted attempt ends, or waits for its end to be recorded. *)
LEMMA InterruptStep ==
  ASSUME MicroInv, NEW a \in DOMAIN attempts, Alive(a), NEW at, at = attempts[a],
         NEW outcome \in {"failed", "timed_out"}, NEW new,
         new = Over(at) \/ new = Stopped(at, outcome), Become(a, new), Fault,
         UNCHANGED <<cues, item, rows, overlapped>>
  PROVE  MicroInv'
<1>1. at \in Attempts
  BY ElementOfSeq, LenProperties DEF MicroInv, Types
<1>2. PICK over : over = Over(at)
  OBVIOUS
<1>3. /\ over \in Attempts /\ over.pc = "ended" /\ over.cues = at.cues /\ over.results = <<>>
      /\ over.todo = {} /\ over.calling = {} /\ over.repairing = {}
      /\ over.again = {} /\ over.invalid = {}
  BY <1>1, <1>2, EndedFields
<1>4. /\ new \in Attempts /\ new.results = <<>>
      /\ new.todo = {} /\ new.calling = {} /\ new.repairing = {}
      /\ new.again = {} /\ new.invalid = {}
      /\ new.pc = "ended" \/ (new.pc = "recording" /\ new.outcome = outcome)
  <2>1. CASE new = Over(at)
    BY <1>2, <1>3, <2>1
  <2>2. CASE new = Stopped(at, outcome)
    <3>1. new = [over EXCEPT !.pc = "recording", !.outcome = outcome]
      BY <1>2, <2>2 DEF Stopped
    <3>2. /\ new.results = over.results
          /\ new.todo = over.todo /\ new.calling = over.calling /\ new.repairing = over.repairing
          /\ new.again = over.again /\ new.invalid = over.invalid
          /\ new.pc = "recording" /\ new.outcome = outcome
      BY <1>3, <3>1 DEF Attempts
    <3>3. new \in Attempts
      BY <1>3, <3>1 DEF Attempts, Pcs
    <3> QED BY <1>3, <3>2, <3>3
  <2> QED BY <2>1, <2>2
<1>5. AttemptOk(new)
  <2>1. new.pc \in {"recording", "ended"} /\ (new.pc = "recording" => new.outcome # "none")
    BY <1>4
  <2> QED BY <1>1, <1>4, <2>1, EndedKeeps
<1>6. new.pc = "ended" \/ AloneWith(new, rows')
  BY <1>4 DEF AloneWith
<1>7. rows' \in Tables /\ RowsFit' /\ cues' \in CueLists /\ overlapped' = overlapped
      /\ item' \in {"pending", "running", "succeeded", "failed", "timed_out"}
      /\ (~overlapped /\ item' = "succeeded" => item = "succeeded")
  BY DEF RowsFit, MicroInv, Types
<1>8. faults' \in 0 .. MaxFaults
  BY BoundsAssumption DEF Fault, MicroInv, Types
<1> QED BY <1>4, <1>5, <1>6, <1>7, <1>8, MoveKeeps

(* An attempt that is interrupted leaves its rows behind.                    *)
LEMMA FaultStep ==
  ASSUME MicroInv, NEW a \in DOMAIN attempts, TimesOut(a) \/ Breaks(a) \/ Crash(a)
  PROVE  MicroInv'
<1> PICK at : at = attempts[a]
  OBVIOUS
<1>1. CASE TimesOut(a)
  <2>1. PICK new : new = Stopped(at, "timed_out")
    OBVIOUS
  <2>2. Become(a, new) /\ Fault /\ Alive(a) /\ UNCHANGED <<cues, item, rows, overlapped>>
    BY <1>1, <2>1 DEF TimesOut, Ended, Stopped, Over, Alive
  <2> QED BY <2>1, <2>2, InterruptStep
<1>2. CASE Breaks(a)
  <2>1. PICK new : new = Stopped(at, "failed")
    OBVIOUS
  <2>2. Become(a, new) /\ Fault /\ Alive(a) /\ UNCHANGED <<cues, item, rows, overlapped>>
    BY <1>2, <2>1 DEF Breaks, Ended, Stopped, Over, Alive
  <2> QED BY <2>1, <2>2, InterruptStep
<1>3. CASE Crash(a)
  <2>1. PICK new : new = Over(at)
    OBVIOUS
  <2>2. Become(a, new) /\ Fault /\ Alive(a) /\ UNCHANGED <<cues, item, rows, overlapped>>
    BY <1>3, <2>1 DEF Crash, Ended, Over
  <2> QED BY <2>1, <2>2, InterruptStep
<1> QED BY <1>1, <1>2, <1>3

(* The steps outside of the attempts. *)
LEMMA BeginStep ==
  ASSUME MicroInv, Begin
  PROVE  MicroInv'
<1>1. Types /\ RowsFit /\ AttemptsOk
  BY DEF MicroInv
<1>2. PICK new : new = NewAttempt
  OBVIOUS
<1>3. /\ new \in Attempts /\ new.pc = "planning" /\ new.resume = (rows # <<>>)
      /\ new.results = <<>> /\ new.todo = {} /\ new.calling = {} /\ new.repairing = {}
      /\ new.again = {} /\ new.invalid = {}
  BY <1>1, <1>2, NoRows, BoundsAssumption DEF NewAttempt, Attempts, Pcs, Types
<1>4. AttemptOk(new)
  <2>1. DOMAIN new.results = {} /\ Cardinality({}) = 0
    BY <1>3, NoRows, FS_EmptySet
  <2>2. new.calling \cup new.repairing = {}
    BY <1>3
  <2>3. Cardinality(new.calling \cup new.repairing) <= Concurrency
    BY <2>1, <2>2, ConcurrencyAssumption
  <2> QED BY <1>3, <2>1, <2>3 DEF AttemptOk, InOnePlace, AllPlaces, ResultsFit
<1>5. /\ attempts' = Append(attempts, new) /\ item' = "running"
      /\ overlapped' = (overlapped \/ \E a \in DOMAIN attempts : Alive(a))
      /\ UNCHANGED <<cues, rows, faults>>
  BY <1>2 DEF Begin
<1>6. /\ attempts' \in Seq(Attempts) /\ Len(attempts') = Len(attempts) + 1
      /\ DOMAIN attempts' = DOMAIN attempts \cup {Len(attempts')}
      /\ attempts'[Len(attempts')] = new
      /\ \A a \in DOMAIN attempts : attempts'[a] = attempts[a]
  <2>1. attempts \in Seq(Attempts) /\ DOMAIN attempts = 1 .. Len(attempts) /\ Len(attempts) \in Nat
    BY <1>1, LenProperties DEF Types
  <2>2. /\ attempts' \in Seq(Attempts) /\ Len(attempts') = Len(attempts) + 1
        /\ attempts'[Len(attempts')] = new
        /\ \A a \in 1 .. Len(attempts) : attempts'[a] = attempts[a]
    BY <1>3, <1>5, <2>1, AppendProperties
  <2>3. DOMAIN attempts' = 1 .. Len(attempts) + 1
    BY <2>2, LenProperties
  <2> QED BY <2>1, <2>2, <2>3
<1>7. AttemptsOk'
  BY <1>1, <1>4, <1>6 DEF AttemptsOk
<1>8. Types'
  BY <1>1, <1>5, <1>6 DEF Types
<1>9. RowsFit'
  BY <1>1, <1>5 DEF RowsFit
<1>10. Alone'
  <2> SUFFICES ASSUME ~overlapped' PROVE Alone'
    BY DEF Alone
  <2>1. \A a \in DOMAIN attempts : attempts[a].pc = "ended"
    BY <1>5 DEF Alive
  <2>2. AloneWith(new, rows')
    BY <1>3, <1>5, NoRows DEF AloneWith
  <2>3. \A a \in DOMAIN attempts' :
          attempts'[a].pc # "ended" => a = Len(attempts') /\ AloneWith(attempts'[a], rows')
    BY <1>6, <2>1, <2>2
  <2> QED BY <1>5, <2>3 DEF Alone, Alive
<1> QED BY <1>7, <1>8, <1>9, <1>10 DEF MicroInv

(* Reruns, lost leases and new cues preserve the invariant.                  *)
LEMMA OutsideStep ==
  ASSUME MicroInv, AskAgain \/ LosesLease \/ Recue
  PROVE  MicroInv'
<1>1. UNCHANGED <<rows, attempts, overlapped>> /\ cues' \in CueLists
      /\ item' \in {item, "pending", "timed_out"} /\ faults' \in 0 .. MaxFaults
  BY BoundsAssumption DEF AskAgain, LosesLease, Recue, Fault, MicroInv, Types
<1>2. Types' /\ RowsFit' /\ AttemptsOk'
  BY <1>1 DEF MicroInv, Types, RowsFit, AttemptsOk
<1>3. Alone'
  BY <1>1 DEF MicroInv, Alone, Alive
<1> QED BY <1>2, <1>3 DEF MicroInv

-----------------------------------------------------------------------------
(* The invariant holds before the first attempt.                             *)
LEMMA InitInv ==
  ASSUME Init
  PROVE  MicroInv
<1>1. DOMAIN rows = {} /\ rows \in Tables /\ DOMAIN attempts = {} /\ attempts \in Seq(Attempts)
  BY NoRows, EmptySeq DEF Init
<1>2. Types
  <2>1. faults \in 0 .. MaxFaults
    BY BoundsAssumption DEF Init
  <2>2. cues \in CueLists /\ item = "pending" /\ overlapped = FALSE
    BY DEF Init
  <2> QED BY <1>1, <2>1, <2>2 DEF Types
<1>3. RowsFit /\ AttemptsOk
  BY <1>1 DEF RowsFit, AttemptsOk
<1>4. Alone
  BY <1>1 DEF Init, Alone
<1> QED BY <1>2, <1>3, <1>4 DEF MicroInv

(* Every step preserves the invariant.                                       *)
LEMMA NextInv ==
  ASSUME MicroInv, [Next]_vars
  PROVE  MicroInv'
<1>1. CASE Begin
  BY <1>1, BeginStep
<1>2. CASE AskAgain \/ LosesLease \/ Recue
  BY <1>2, OutsideStep
<1>3. ASSUME NEW a \in DOMAIN attempts, Progress(a)
      PROVE  MicroInv'
  <2>1. CASE Plan(a)
    BY <2>1, PlanStep
  <2>2. ASSUME NEW w \in DOMAIN WindowsOf(a), Call(a, w) \/ Reject(a, w) \/ CallFails(a, w)
        PROVE  MicroInv'
    BY <2>2, CallStep, RejectStep, CallFailsStep
  <2>3. ASSUME NEW w \in DOMAIN WindowsOf(a), NEW judged \in MayAnswer[WindowsOf(a)[w]],
               Accept(a, w, judged) \/ AskRepair(a, w, judged)
        PROVE  MicroInv'
    BY <2>3, AcceptStep, AskRepairStep
  <2>4. CASE NextRound(a) \/ BatchesEnd(a) \/ Store(a) \/ Record(a)
    BY <2>4, NextRoundStep, BatchesEndStep, StoreStep, RecordStep
  <2> QED BY <1>3, <2>1, <2>2, <2>3, <2>4 DEF Progress
<1>4. ASSUME NEW a \in DOMAIN attempts, TimesOut(a) \/ Breaks(a) \/ Crash(a)
      PROVE  MicroInv'
  BY <1>4, FaultStep
<1>5. CASE UNCHANGED vars
  <2>1. UNCHANGED <<cues, item, rows, attempts, faults, overlapped>>
    BY <1>5 DEF vars
  <2> QED BY <2>1 DEF MicroInv, Types, RowsFit, AttemptsOk, Alone, Alive
<1> QED BY <1>1, <1>2, <1>3, <1>4, <1>5 DEF Next

(* The inductive invariant holds in every state. *)
THEOREM MicroInvariant == Spec => []MicroInv
<1>1. Init => MicroInv
  BY InitInv
<1>2. MicroInv /\ [Next]_vars => MicroInv'
  BY NextInv
<1> QED BY <1>1, <1>2, PTL DEF Spec

-----------------------------------------------------------------------------
(* The sizes of sets without a common member add up. *)
LEMMA DisjointSizes ==
  ASSUME NEW S, NEW T, IsFiniteSet(S), IsFiniteSet(T), S \cap T = {}
  PROVE  /\ IsFiniteSet(S \cup T) /\ Cardinality(S \cup T) = Cardinality(S) + Cardinality(T)
         /\ Cardinality(S) \in Nat /\ Cardinality(T) \in Nat
<1>1. Cardinality(S) \in Nat /\ Cardinality(T) \in Nat /\ Cardinality(S \cap T) = 0
  BY FS_CardinalityType, FS_EmptySet
<1>2. /\ IsFiniteSet(S \cup T)
      /\ Cardinality(S \cup T) = Cardinality(S) + Cardinality(T) - Cardinality(S \cap T)
  BY FS_Union
<1> QED BY <1>1, <1>2

(* The windows of an attempt, counted by where they are.                     *)
LEMMA SizesAddUp ==
  ASSUME NEW at \in Attempts, AttemptOk(at), at.pc = "extracting"
  PROVE  Cardinality(DOMAIN WindowsFor[at.cues]) =
           Cardinality(at.todo) + Cardinality(at.calling) + Cardinality(at.repairing)
           + Cardinality(at.again) + Cardinality(at.invalid) + Cardinality(DOMAIN at.results)
<1> DEFINE W == DOMAIN WindowsFor[at.cues]
           s1 == at.todo \cup at.calling
           s2 == s1 \cup at.repairing
           s3 == s2 \cup at.again
           s4 == s3 \cup at.invalid
           s5 == s4 \cup DOMAIN at.results
<1>1. s5 = W
  BY DEF AttemptOk, AllPlaces
<1>2. IsFiniteSet(W)
  BY WindowsOfLists DEF Attempts
<1>3. /\ IsFiniteSet(at.todo) /\ IsFiniteSet(at.calling) /\ IsFiniteSet(at.repairing)
      /\ IsFiniteSet(at.again) /\ IsFiniteSet(at.invalid) /\ IsFiniteSet(DOMAIN at.results)
  <2>1. /\ at.todo \subseteq W /\ at.calling \subseteq W /\ at.repairing \subseteq W
        /\ at.again \subseteq W /\ at.invalid \subseteq W /\ DOMAIN at.results \subseteq W
    BY <1>1
  <2> HIDE DEF W
  <2> QED BY <1>2, <2>1, FS_Subset
<1>4. /\ at.todo \cap at.calling = {} /\ s1 \cap at.repairing = {} /\ s2 \cap at.again = {}
      /\ s3 \cap at.invalid = {} /\ s4 \cap DOMAIN at.results = {}
  BY DEF AttemptOk, InOnePlace
<1>5. IsFiniteSet(s1) /\ Cardinality(s1) = Cardinality(at.todo) + Cardinality(at.calling)
      /\ Cardinality(at.todo) \in Nat /\ Cardinality(at.calling) \in Nat
  BY <1>3, <1>4, DisjointSizes
<1> HIDE DEF s1
<1>6. IsFiniteSet(s2) /\ Cardinality(s2) = Cardinality(s1) + Cardinality(at.repairing)
      /\ Cardinality(at.repairing) \in Nat
  BY <1>3, <1>4, <1>5, DisjointSizes
<1> HIDE DEF s2
<1>7. IsFiniteSet(s3) /\ Cardinality(s3) = Cardinality(s2) + Cardinality(at.again)
      /\ Cardinality(at.again) \in Nat
  BY <1>3, <1>4, <1>6, DisjointSizes
<1> HIDE DEF s3
<1>8. IsFiniteSet(s4) /\ Cardinality(s4) = Cardinality(s3) + Cardinality(at.invalid)
      /\ Cardinality(at.invalid) \in Nat
  BY <1>3, <1>4, <1>7, DisjointSizes
<1> HIDE DEF s4
<1>9. Cardinality(s5) = Cardinality(s4) + Cardinality(DOMAIN at.results)
      /\ Cardinality(DOMAIN at.results) \in Nat
  BY <1>3, <1>4, <1>8, DisjointSizes
<1> HIDE DEF s5, W
<1>10. Cardinality(W) = Cardinality(s4) + Cardinality(DOMAIN at.results)
  BY <1>1, <1>9
<1>11. Cardinality(W) =
         Cardinality(at.todo) + Cardinality(at.calling) + Cardinality(at.repairing)
         + Cardinality(at.again) + Cardinality(at.invalid) + Cardinality(DOMAIN at.results)
  BY <1>5, <1>6, <1>7, <1>8, <1>9, <1>10
<1> QED BY <1>11 DEF W

(* The state is well formed: the stored rows are rows of windows some cue list   *)
(* has, and the windows of an attempt that extracts are split into the ones to   *)
(* do, being called, repaired, to call again, beyond repair and done.            *)
THEOREM MicroTypes == Spec => []TypeOK
<1>1. MicroInv => TypeOK
  <2> SUFFICES ASSUME MicroInv PROVE TypeOK
    OBVIOUS
  <2>1. Types /\ RowsFit /\ AttemptsOk
    BY DEF MicroInv
  <2>2. \A w \in DOMAIN rows : \E list \in CueLists :
          w \in DOMAIN WindowsFor[list] /\ rows[w].shape = ShapeOf(WindowsFor[list][w])
    BY <2>1, RowShape DEF RowsFit
  <2>3. ASSUME NEW a \in DOMAIN attempts
        PROVE  LET at == attempts[a]
               IN  /\ at.pc \in Pcs /\ at.cues \in CueLists /\ at.round \in 0 .. MaxRetries
                   /\ Cardinality(at.calling \cup at.repairing) <= Concurrency
                   /\ at.pc = "extracting" =>
                        Cardinality(DOMAIN WindowsFor[at.cues]) =
                          Cardinality(at.todo) + Cardinality(at.calling) + Cardinality(at.repairing)
                          + Cardinality(at.again) + Cardinality(at.invalid)
                          + Cardinality(DOMAIN at.results)
    <3> PICK at \in Attempts : at = attempts[a]
      BY <2>1, ElementOfSeq, LenProperties DEF Types
    <3>1. AttemptOk(at)
      BY <2>1 DEF AttemptsOk
    <3>2. at.pc \in Pcs /\ at.cues \in CueLists /\ at.round \in 0 .. MaxRetries
      BY DEF Attempts
    <3>3. Cardinality(at.calling \cup at.repairing) <= Concurrency
      BY <3>1 DEF AttemptOk
    <3>4. at.pc = "extracting" =>
            Cardinality(DOMAIN WindowsFor[at.cues]) =
              Cardinality(at.todo) + Cardinality(at.calling) + Cardinality(at.repairing)
              + Cardinality(at.again) + Cardinality(at.invalid) + Cardinality(DOMAIN at.results)
      BY <3>1, SizesAddUp
    <3> QED BY <3>2, <3>3, <3>4
  <2> QED BY <2>1, <2>2, <2>3 DEF Types, TypeOK
<1> QED BY <1>1, MicroInvariant, PTL

(* A success is complete: the stored windows are those of the last attempt, and  *)
(* each of them succeeded, whatever failed, crashed or was resumed before        *)
(* (replace_extraction, _load_resume_state).                                     *)
THEOREM CompleteSuccess == Spec => []SuccessIsComplete
<1>1. MicroInv => SuccessIsComplete
  BY DEF MicroInv, Alone, SuccessIsComplete, CompleteFor, Last
<1> QED BY <1>1, MicroInvariant, PTL

(* When no cue that lasts starts before the first one or after the last one has  *)
(* ended, every such cue is owned by a window (_cue_windows).  The order is that *)
(* of the transcript the cues are made from; the windows do not look for it.     *)
THEOREM EveryCueIsOwned ==
  (\A list \in CueLists : Covered(list)) => (Spec => []NoCueIsLost)
<1> SUFFICES ASSUME \A list \in CueLists : Covered(list) PROVE Spec => []NoCueIsLost
  OBVIOUS
<1>1. MicroInv => NoCueIsLost
  <2> SUFFICES ASSUME MicroInv, NEW i \in DOMAIN cues, cues[i].end > cues[i].start
               PROVE  \E w \in DOMAIN WindowsFor[cues] : i \in ToSet(WindowsFor[cues][w])
    BY DEF NoCueIsLost
  <2>1. PICK list \in CueLists : list = cues
    BY DEF MicroInv, Types
  <2>2. list \in Seq(Cues) /\ WindowsFor[list] = Windows(list) /\ Covered(list)
    BY WindowsOfLists
  <2>3. \E w \in DOMAIN Windows(list) : i \in ToSet(Windows(list)[w])
    BY <2>1, <2>2, CueInWindow
  <2> QED BY <2>1, <2>2, <2>3
<1> QED BY <1>1, MicroInvariant, PTL

(* A stored success covers each of its cues once, and its events keep evidence   *)
(* inside their ranges (_validated_window): whatever the model answered, the     *)
(* verdict lets nothing else through.                                            *)
THEOREM PartitionedWindows == Spec => []WindowsPartitionTheirCues
<1>1. MicroInv => WindowsPartitionTheirCues
  <2> SUFFICES ASSUME MicroInv, NEW w \in Succeeded(rows)
               PROVE  /\ \A p \in 1 .. rows[w].shape.count :
                           Cardinality({r \in rows[w].ranges : r.first <= p /\ p <= r.last}) = 1
                      /\ \A r \in rows[w].ranges :
                           /\ 1 <= r.first /\ r.last <= rows[w].shape.count
                           /\ r.kind = "event" => \E p \in r.evidence : r.first <= p /\ p <= r.last
    BY DEF WindowsPartitionTheirCues
  <2>1. RowAt(rows[w], w) /\ rows[w].status = "succeeded"
    BY StoredTables DEF MicroInv
  <2>2. PICK list \in CueLists :
          w \in DOMAIN WindowsFor[list] /\ rows[w] \in RowsOf(WindowsFor[list][w])
    BY <2>1 DEF RowAt
  <2>3. PICK owned : owned = WindowsFor[list][w]
    OBVIOUS
  <2>4. owned \in DOMAIN MayAnswer /\ owned \in Seq(DOMAIN list)
    BY <2>2, <2>3, WindowsOfLists
  <2>5. DOMAIN owned = 1 .. Len(owned) /\ Len(owned) \in Nat
    BY <2>4, LenProperties
  <2>6. PICK judged \in MayAnswer[owned] :
          judged.verdict = "valid" /\ rows[w] = SucceededRow(judged, owned)
    BY <2>1, <2>2, <2>3 DEF RowsOf, FailedRow
  <2>7. PICK answer \in Answers : judged = Judged(answer, owned)
    BY <2>4, <2>6 DEF MayAnswer
  <2>8. PICK ranges : ranges = Ranges(answer, owned)
    OBVIOUS
  <2>9. Verdict(answer, owned) = "valid" /\ judged.ranges = ToSet(ranges)
    BY <2>6, <2>7, <2>8 DEF Judged
  <2>10. rows[w].ranges = ToSet(ranges) /\ rows[w].shape.count = Len(owned)
    BY <2>6, <2>9 DEF SucceededRow, ShapeOf
  <2>11. /\ Spans(ranges) /\ ranges # <<>> /\ CoversInOrder(ranges, Len(owned))
         /\ \A r \in ToSet(ranges) :
              r.kind = "event" => \E p \in r.evidence : r.first <= p /\ p <= r.last
    BY <2>5, <2>8, <2>9, AnswerAssumption, ValidRanges
  <2>12. /\ \A p \in 1 .. Len(owned) : \E r \in ToSet(ranges) :
              {x \in ToSet(ranges) : x.first <= p /\ p <= x.last} = {r}
         /\ \A r \in ToSet(ranges) : 1 <= r.first /\ r.last <= Len(owned)
    BY <2>5, <2>11, CoveredOnce
  <2>13. \A p \in 1 .. Len(owned) :
           Cardinality({x \in ToSet(ranges) : x.first <= p /\ p <= x.last}) = 1
    BY <2>12, FS_Singleton
  <2> QED BY <2>10, <2>11, <2>12, <2>13
<1> QED BY <1>1, MicroInvariant, PTL

-----------------------------------------------------------------------------
(* What may become of a stored success. *)
Kept(w) == w \in DOMAIN rows' /\ rows'[w] = rows[w]

MayLose(a) ==
  Misfit(a) /\ (attempts[a].pc = "planning" \/ (attempts[a].pc = "storing" /\ WindowsOf(a) = <<>>))

(* A plan deletes successes only of cues that were cut anew.                 *)
LEMMA PlanLoses ==
  ASSUME MicroInv, ~overlapped, NEW a \in DOMAIN attempts, Plan(a), NEW w \in Succeeded(rows)
  PROVE  Kept(w) \/ MayLose(a)
<1>1. w \in DOMAIN rows /\ attempts[a].pc = "planning"
  BY DEF Succeeded, Plan
<1>2. rows' = rows \/ ~(attempts[a].resume /\ Resumable(a))
  BY DEF Plan
<1>3. attempts[a].resume
  <2>1. AloneWith(attempts[a], rows)
    BY <1>1, TheOneAlive DEF MicroInv, Alive
  <2> QED BY <1>1, <2>1 DEF AloneWith
<1>4. ~Resumable(a) => Misfit(a)
  BY DEF Resumable, Misfit
<1> QED BY <1>1, <1>2, <1>3, <1>4 DEF Kept, MayLose

(* Storing one window's row loses no success.                                *)
LEMMA UpsertLoses ==
  ASSUME MicroInv, ~overlapped, NEW a \in DOMAIN attempts, NEW v, WorksOn(a, v),
         NEW row, rows' = Upserted(rows, v, row), NEW w \in Succeeded(rows)
  PROVE  Kept(w)
<1>1. w \in DOMAIN rows
  BY DEF Succeeded
<1>2. Matches(attempts[a], rows)
  <2>1. attempts[a].pc = "extracting" /\ AloneWith(attempts[a], rows)
    BY TheOneAlive DEF MicroInv, Alive, WorksOn
  <2> QED BY <2>1 DEF AloneWith
<1>3. v \notin DOMAIN attempts[a].results
  <2>1. InOnePlace(attempts[a])
    BY DEF MicroInv, AttemptsOk, AttemptOk
  <2> QED BY <2>1 DEF InOnePlace, WorksOn
<1>4. w # v
  BY <1>2, <1>3 DEF Matches
<1> QED BY <1>1, <1>4 DEF Kept, Upserted

(* Storing all rows loses successes only of cues that were cut anew.         *)
LEMMA StoreLoses ==
  ASSUME MicroInv, ~overlapped, NEW a \in DOMAIN attempts, Store(a), NEW w \in Succeeded(rows)
  PROVE  Kept(w) \/ MayLose(a)
<1> PICK at \in Attempts : at = attempts[a]
  BY ElementOfSeq, LenProperties DEF MicroInv, Types
<1>1. w \in DOMAIN rows /\ at.pc = "storing" /\ AttemptOk(at)
  BY DEF Succeeded, Store, MicroInv, AttemptsOk
<1>2. Matches(at, rows) \/ DOMAIN WindowsFor[at.cues] = {}
  <2>1. AloneWith(at, rows)
    BY <1>1, TheOneAlive DEF MicroInv, Alive
  <2> QED BY <1>1, <2>1 DEF AloneWith
<1>3. CASE Matches(at, rows)
  <2>1. w \in DOMAIN at.results /\ rows[w] = at.results[w]
    BY <1>3 DEF Matches
  <2>2. w \notin Failed(a)
    BY <1>1, <2>1 DEF AttemptOk, InOnePlace, Failed
  <2> QED BY <2>1, <2>2 DEF Kept, Store
<1>4. CASE DOMAIN WindowsFor[at.cues] = {}
  <2>1. WindowsOf(a) = WindowsFor[at.cues] /\ at.cues \in CueLists
    BY DEF WindowsOf, Attempts
  <2>2. WindowsFor[at.cues] = <<>>
    <3> DEFINE s == WindowsFor[at.cues]
    <3>1. s \in Seq(Seq(DOMAIN at.cues))
      BY <2>1, WindowsOfLists
    <3>2. DOMAIN s = {}
      BY <1>4
    <3> HIDE DEF s
    <3>3. Len(s) = 0
      <4>1. Len(s) \in Nat /\ DOMAIN s = 1 .. Len(s)
        BY <3>1, LenProperties
      <4> QED BY <3>2, <4>1
    <3>4. s = <<>>
      BY <3>1, <3>3, EmptySeq
    <3> QED BY <3>4 DEF s
  <2>3. Misfit(a)
    BY <1>1, <1>4, <2>1 DEF Misfit
  <2> QED BY <1>1, <2>1, <2>2, <2>3 DEF MayLose
<1> QED BY <1>2, <1>3, <1>4

(* No failure, retry or restart loses a stored success: an attempt that runs     *)
(* alone replaces it only when the stored windows are not windows of its cues.   *)
THEOREM KeptSuccesses == Spec => SuccessfulWindowsAreKept
<1> DEFINE Step == \A w \in Succeeded(rows) :
                     \/ w \in DOMAIN rows' /\ rows'[w] = rows[w]
                     \/ overlapped
                     \/ \E a \in DOMAIN attempts : Misfit(a) /\
                          \/ attempts[a].pc = "planning"
                          \/ attempts[a].pc = "storing" /\ WindowsOf(a) = <<>>
<1>1. MicroInv /\ [Next]_vars => [Step]_vars
  <2> SUFFICES ASSUME MicroInv, Next, ~overlapped, NEW w \in Succeeded(rows)
               PROVE  Kept(w) \/ \E a \in DOMAIN attempts : MayLose(a)
    BY DEF Kept, MayLose
  <2>0. w \in DOMAIN rows
    BY DEF Succeeded
  <2>1. rows' = rows => Kept(w)
    BY <2>0 DEF Kept
  <2>2. ASSUME NEW a \in DOMAIN attempts, Plan(a) \/ Store(a)
        PROVE  Kept(w) \/ MayLose(a)
    BY <2>2, PlanLoses, StoreLoses
  <2>3. ASSUME NEW a \in DOMAIN attempts, NEW v, Reject(a, v) \/ CallFails(a, v)
        PROVE  Kept(w)
    <3>1. WorksOn(a, v) /\ rows' = Upserted(rows, v, FailedRow(WindowsOf(a)[v]))
      BY <2>3 DEF Reject, CallFails
    <3> QED BY <3>1, UpsertLoses
  <2>4. ASSUME NEW a \in DOMAIN attempts, NEW v, NEW judged, Accept(a, v, judged)
        PROVE  Kept(w)
    <3>1. WorksOn(a, v) /\ rows' = Upserted(rows, v, SucceededRow(judged, WindowsOf(a)[v]))
      BY <2>4 DEF Accept
    <3> QED BY <3>1, UpsertLoses
  <2>5. CASE Begin \/ AskAgain \/ LosesLease \/ Recue
    <3>1. rows' = rows
      BY <2>5 DEF Begin, AskAgain, LosesLease, Recue
    <3> QED BY <2>1, <3>1
  <2>6. ASSUME NEW a \in DOMAIN attempts, Progress(a)
        PROVE  Kept(w) \/ MayLose(a)
    <3>1. ASSUME NEW v, NEW judged, AskRepair(a, v, judged) PROVE rows' = rows
      BY <3>1 DEF AskRepair
    <3>2. ASSUME NEW v, Call(a, v) PROVE rows' = rows
      BY <3>2 DEF Call
    <3>3. CASE NextRound(a) \/ BatchesEnd(a) \/ Record(a)
      <4>1. rows' = rows
        BY <3>3 DEF NextRound, BatchesEnd, Record
      <4> QED BY <2>1, <4>1
    <3> QED BY <2>1, <2>2, <2>3, <2>4, <2>6, <3>1, <3>2, <3>3 DEF Progress
  <2>7. ASSUME NEW a \in DOMAIN attempts, TimesOut(a) \/ Breaks(a) \/ Crash(a)
        PROVE  Kept(w)
    <3>1. rows' = rows
      BY <2>7 DEF TimesOut, Breaks, Crash
    <3> QED BY <2>1, <3>1
  <2> QED BY <2>5, <2>6, <2>7 DEF Next
<1> QED BY <1>1, MicroInvariant, PTL DEF Spec, SuccessfulWindowsAreKept
=============================================================================
