------------------------- MODULE MCStageCommands -------------------------
(* An instance of StageCommands for TLC. *)
EXTENDS StageCommands

Plain == [retry |-> FALSE, rerun |-> FALSE, recheck |-> FALSE]
Forceful == [retry |-> TRUE, rerun |-> TRUE, recheck |-> TRUE]
SomeFlags == {Plain, Forceful}

KoreanFirst == [language |-> "ko", model |-> "m1"]
(* As the commands order them at present, and as they are meant to. *)
SomeRefusals == {{"timeline", "archive"}, {}}

OneSlotEach == [w \in Slots |-> w]
=============================================================================
