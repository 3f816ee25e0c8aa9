------------------------- MODULE MCChannelIntake -------------------------
(* Instances of ChannelIntake for TLC. *)
EXTENDS ChannelIntake

OneUpload == [c \in Channels |-> 1]
SomeUploads == [c \in Channels |-> IF c = 1 THEN 3 ELSE 1]

NewestOfFirst == {<<1, 2>>, <<1, 3>>}
NoVideos == {}
=============================================================================
