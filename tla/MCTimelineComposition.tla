------------------------- MODULE MCTimelineComposition -------------------------
(* Three micro-events of different kinds (one of no mode), drafts of three       *)
(* episodes with any ranges (none, reversed, overlapping, repeated ids), and     *)
(* four layouts of blocks: one block; two game blocks whose seam joins daily     *)
(* chat; a short break before a closing without closing words; and blocks and    *)
(* topics that miss, repeat and invent references; one draft of five episodes of *)
(* unknown ranges, and one of seven that needs both rounds of repairs.  Asked    *)
(* again, the model answers with ids it has not used before.                     *)
EXTENDS TimelineComposition

Look(mode, kind, marks) == [mode |-> mode, kind |-> kind, marks |-> marks]
SomeMicro == <<Look("GAMEPLAY", "GAME_PROGRESS", {}), Look("UNKNOWN", "QNA", {"closing"}),
               Look("JUST_CHATTING", "OPINION", {})>>

chat == Look("JUST_CHATTING", "OPINION", {})
bye == Look("CLOSING", "QNA", {"closing"})
play == Look("GAMEPLAY", "GAME_PROGRESS", {})
SomeLooks == {chat, bye}

e(k) == <<0, k>>
Episode(id, range, block, look) ==
  [id |-> id, block |-> block, first |-> range[1], last |-> range[2],
   mode |-> look.mode, kind |-> look.kind, marks |-> look.marks]
Block(id, type, refs) == [id |-> id, type |-> type, episodes |-> refs]

Ranges == {<<0, 0>>, <<3, 2>>} \cup {r \in (1 .. 3) \X (1 .. 3) : r[1] <= r[2]}

OneBlock(r) ==
  [episodes |-> [k \in 1 .. 3 |-> Episode(e(k), r[k], 1, chat)],
   blocks |-> <<Block(1, "JUST_CHATTING", <<e(1), e(2), e(3)>>)>>,
   topics |-> <<<<e(1), e(2)>>, <<e(2), e(3), e(3)>>>>]

Seam(r) ==
  [episodes |-> [k \in 1 .. 3 |-> Episode(e(k), r[k], IF k = 1 THEN 4 ELSE 7, chat)],
   blocks |-> <<Block(4, "POST_GAME", <<e(1)>>), Block(7, "POST_GAME", <<e(2), e(3)>>)>>,
   topics |-> <<<<e(1), e(3)>>>>]

BreakAndClosing(r) ==
  [episodes |-> [k \in 1 .. 3 |-> Episode(e(k), r[k], k, IF k = 3 THEN bye ELSE chat)],
   blocks |-> <<Block(1, "GAMEPLAY", <<e(1)>>), Block(2, "BREAK", <<e(2)>>),
                Block(3, "CLOSING", <<e(3)>>)>>,
   topics |-> <<<<e(1), e(2), e(3)>>>>]

Careless(r) ==
  [episodes |-> <<Episode(e(1), r[1], 9, chat), Episode(e(1), r[3], 1, chat),
                  Episode(e(2), r[2], 1, bye), Episode(e(3), r[3], 2, chat)>>,
   blocks |-> <<Block(1, "MIXED", <<e(3), e(8)>>), Block(1, "BREAK", <<e(1)>>),
                Block(2, "CLOSING", <<e(3), e(2)>>)>>,
   topics |-> <<<<e(1), e(8)>>, <<e(3), e(2)>>, <<e(3), e(3)>>>>]

Hopeless ==
  [episodes |-> [k \in 1 .. 5 |-> Episode(e(k), <<0, 0>>, 1, chat)],
   blocks |-> <<Block(1, "GAMEPLAY", <<e(1), e(2)>>)>>, topics |-> <<>>]

Again ==
  [episodes |-> <<Episode(e(5), <<1, 2>>, 12, chat), Episode(e(6), <<3, 3>>, 12, bye)>>,
   blocks |-> <<Block(12, "JUST_CHATTING", <<e(5), e(6)>>)>>, topics |-> <<>>]
SomeRedrafts == {Again}

(* Four episodes of the first micro-event use up the first round of repairs;    *)
(* the second one removes the block between two others.                         *)
Crowded ==
  [episodes |-> [k \in 1 .. 7 |->
                   CASE k <= 4 -> Episode(e(k), <<1, 1>>, 4, play)
                     [] k = 5 -> Episode(e(k), <<2, 2>>, 4, bye)
                     [] k = 6 -> Episode(e(k), <<2, 2>>, 5, play)
                     [] k = 7 -> Episode(e(k), <<3, 3>>, 6, chat)],
   blocks |-> <<Block(4, "POST_GAME", <<e(1), e(2), e(3), e(4), e(5)>>),
                Block(5, "MEDIA_REVIEW", <<e(6)>>), Block(6, "POST_GAME", <<e(7)>>)>>,
   topics |-> <<>>]

SomeDrafts ==
  {Hopeless, Crowded} \cup UNION {{OneBlock(r), Seam(r), BreakAndClosing(r), Careless(r)} : r \in [1 .. 3 -> Ranges]}

MCSymmetry == Permutations(Patchers)
=============================================================================
