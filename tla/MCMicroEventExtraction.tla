------------------------- MODULE MCMicroEventExtraction -------------------------
(* Three cues in two windows of six: the second straddles the boundary and is    *)
(* owned twice; then two cues with an empty slot between them, a list whose      *)
(* first cue does not last, and one without a window.                            *)
EXTENDS MicroEventExtraction

Cue(from, to) == [start |-> from, end |-> to]
Straddling == <<Cue(0, 4), Cue(4, 8), Cue(8, 12)>>
Gap == <<Cue(1, 3), Cue(20, 22)>>
Momentary == <<Cue(0, 0), Cue(0, 6), Cue(6, 6)>>
Still == <<Cue(5, 5)>>
SomeCueLists == {Straddling, Gap, Momentary, Still}

Event(first, last, evidence) ==
  [kind |-> "event", first |-> first, last |-> last, evidence |-> evidence]
Excluded(first, last) == [kind |-> "excluded", first |-> first, last |-> last, evidence |-> <<>>]
Misplaced(first, last) == [kind |-> "misplaced", first |-> first, last |-> last, evidence |-> <<>>]
Answer(events, continued, excluded) ==
  [parsed |-> TRUE, events |-> events, continued |-> continued, excluded |-> excluded]

c1 == DigitsOf(1)
c2 == DigitsOf(2)
c3 == DigitsOf(3)
SomeAnswers ==
  {Answer(<<Event(c1, c2, <<c1>>)>>, <<>>, <<>>),
   Answer(<<Event(c2, c2, <<c2>>)>>, <<Misplaced(c3, c3)>>, <<>>),
   Answer(<<Event(c2, <<3>>, <<c2, c3>>)>>, <<>>, <<>>),
   Answer(<<Event(<<2>>, <<2>>, <<c2>>)>>, <<>>, <<Excluded(c1, c1)>>),
   Answer(<<Event(c1, c1, <<c1>>)>>, <<>>, <<>>),
   Answer(<<Event(c2, c2, <<c2>>)>>, <<>>, <<>>),
   Answer(<<Event(c1, c2, <<c2>>), Event(c2, c2, <<c2>>)>>, <<>>, <<>>),
   Answer(<<Event(c2, c3, <<c3>>)>>, <<>>, <<Excluded(c2, c2)>>),
   Answer(<<Event(c2, c1, <<c1>>)>>, <<>>, <<>>),
   Answer(<<Event(c2, c2, <<c3>>), Event(c3, c3, <<c2>>)>>, <<>>, <<>>),
   [parsed |-> FALSE, events |-> <<>>, continued |-> <<>>, excluded |-> <<>>]}
=============================================================================
