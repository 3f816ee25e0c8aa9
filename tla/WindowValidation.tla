---------------------------- MODULE WindowValidation ----------------------------
(* The pure part of the micro-event extraction: how the cues of a transcript    *)
(* are cut into windows, and how a model's answer for a window is normalised,   *)
(* has its cue references resolved and its coverage judged.                     *)
(*                                                                              *)
(* A cue is a record of start and end times, and its position in the transcript *)
(* stands for its id; the digits of the id are what a model may misspell.       *)
EXTENDS Subsequences, SequencesExt

CONSTANTS WindowLength,     \* windowMinutes, in the unit of the cue times
          EvidenceLimit     \* evidence_cue_ids kept per event (6 in the code)

ASSUME WindowLengthAssumption == WindowLength \in Nat \ {0}
ASSUME EvidenceLimitAssumption == EvidenceLimit \in Nat \ {0}

Cues == [start : Nat, end : Nat]

-----------------------------------------------------------------------------
(* Windows.  The k-th slot starts k windows after the first cue; the last slot  *)
(* is the first one that reaches the end of the last cue.  Slots without a cue  *)
(* are skipped and do not take an index.                                        *)

WholeSlots(list) ==
  LET reach == Last(list).end - list[1].start
  IN  {k \in 0 .. reach : k = 0 \/ (k + 1) * WindowLength <= reach}

Slots(list) ==
  LET reach == Last(list).end - list[1].start
  IN  {k \in 0 .. reach : k = 0 \/ k * WindowLength < reach}

Owned(list, k) ==
  LET from == list[1].start + k * WindowLength
  IN  InOrder({i \in DOMAIN list : list[i].end > from /\ list[i].start < from + WindowLength})

Windows(list) ==
  LET kept == InOrder({k \in Slots(list) : Owned(list, k) # <<>>})
  IN  [w \in DOMAIN kept |-> Owned(list, kept[w])]

(* What a stored window remembers of the cues it was made from.                 *)
ShapeOf(owned) == [first |-> Head(owned), last |-> Last(owned), count |-> Len(owned)]

-----------------------------------------------------------------------------
(* Cue references.                                                              *)

DigitsOf(cue) == <<cue \div 10, cue % 10>>

AtMostOneEdit(left, right) ==
  \/ left = right
  \/ /\ Len(left) = Len(right)
     /\ Cardinality({k \in DOMAIN left : left[k] # right[k]}) = 1
  \/ Len(left) = Len(right) + 1 /\ \E k \in DOMAIN left : RemoveAt(left, k) = right
  \/ Len(right) = Len(left) + 1 /\ \E k \in DOMAIN right : RemoveAt(right, k) = left

(* The positions of the window a reference may mean: the cue it names, or else  *)
(* the cues one edit away.  It resolves when there is exactly one.              *)
Meant(ref, owned) ==
  LET exact == {p \in DOMAIN owned : DigitsOf(owned[p]) = ref}
      near == {p \in DOMAIN owned : AtMostOneEdit(DigitsOf(owned[p]), ref)}
  IN  IF exact # {} THEN exact ELSE near

Resolves(ref, owned) == Cardinality(Meant(ref, owned)) = 1
PositionOf(ref, owned) == CHOOSE p \in Meant(ref, owned) : TRUE

-----------------------------------------------------------------------------
(* Answers.  An entry names a range of cues; an event also lists evidence.  The *)
(* model may continue its events under a second key, and may put an excluded    *)
(* range among the events (an entry with a reason and no event).  "parsed" says *)
(* that the answer is a JSON object of the schema (every event lists evidence). *)

Entries ==
  [kind : {"event", "excluded", "misplaced"}, first : Seq(Nat), last : Seq(Nat),
   evidence : Seq(Seq(Nat))]
AnswerType ==
  [parsed : BOOLEAN, events : Seq(Entries), continued : Seq(Entries), excluded : Seq(Entries)]

Merged(answer) == answer.events \o answer.continued

IsMisplaced(entry) == entry.kind = "misplaced"

Normalized(answer) ==
  LET entries == Merged(answer)
      misplaced == {k \in DOMAIN entries : IsMisplaced(entries[k])}
  IN  Chosen(entries, DOMAIN entries \ misplaced) \o answer.excluded \o Chosen(entries, misplaced)

Evidence(entry) == [k \in 1 .. Min({Len(entry.evidence), EvidenceLimit}) |-> entry.evidence[k]]

InRange(entry, owned) ==
  {p \in {PositionOf(r, owned) : r \in ToSet(Evidence(entry))} :
     PositionOf(entry.first, owned) <= p /\ p <= PositionOf(entry.last, owned)}

EntryError(entry, owned) ==
  IF ~(Resolves(entry.first, owned) /\ Resolves(entry.last, owned)) THEN "outside"
  ELSE IF PositionOf(entry.first, owned) > PositionOf(entry.last, owned) THEN "reversed"
  ELSE IF entry.kind # "event" THEN "none"
  ELSE IF \E r \in ToSet(Evidence(entry)) : ~Resolves(r, owned) THEN "outside"
  ELSE IF InRange(entry, owned) = {} THEN "no_evidence"
  ELSE "none"

RangeOf(entry, owned) ==
  [kind |-> IF entry.kind = "event" THEN "event" ELSE "excluded_range",
   first |-> PositionOf(entry.first, owned), last |-> PositionOf(entry.last, owned),
   evidence |-> IF entry.kind = "event" THEN InRange(entry, owned) ELSE {}]

(* The orders that sort the ranges by their start.                              *)
Sortings(ranges) ==
  {order \in Bijection(DOMAIN ranges, DOMAIN ranges) : \A j, k \in DOMAIN ranges :
     j < k => ranges[order[j]].first <= ranges[order[k]].first}

CoversOverlapping(ranges, count) ==
  /\ ranges # <<>>
  /\ \E order \in Sortings(ranges) :
       /\ ranges[order[1]].first = 1
       /\ \A k \in 2 .. Len(ranges) : ranges[order[k]].first <= ranges[order[k - 1]].last + 1
       /\ ranges[order[Len(ranges)]].last = count

(* Sorted by their start, the ranges follow one another from the first owned    *)
(* cue to the last.                                                             *)
CoversInOrder(ranges, count) ==
  /\ ranges # <<>>
  /\ \E order \in Sortings(ranges) :
       /\ ranges[order[1]].first = 1
       /\ \A k \in 2 .. Len(ranges) : ranges[order[k]].first = ranges[order[k - 1]].last + 1
       /\ ranges[order[Len(ranges)]].last = count

Ranges(answer, owned) ==
  [k \in DOMAIN Normalized(answer) |-> RangeOf(Normalized(answer)[k], owned)]

(* The first error found decides; only an answer that is no JSON object of the  *)
(* schema, and an event without evidence in its range, cannot be repaired.      *)
Verdict(answer, owned) ==
  LET entries == Normalized(answer)
      wrong == {k \in DOMAIN entries : EntryError(entries[k], owned) # "none"}
  IN  IF ~answer.parsed THEN "final"
      ELSE IF wrong # {}
           THEN IF EntryError(entries[Min(wrong)], owned) = "no_evidence" THEN "final" ELSE "recoverable"
      ELSE IF CoversInOrder(Ranges(answer, owned), Len(owned)) THEN "valid" ELSE "recoverable"
=============================================================================
