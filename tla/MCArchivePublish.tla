-------------------------- MODULE MCArchivePublish --------------------------
(* Small instances of ArchivePublish for TLC. *)
EXTENDS ArchivePublish, TLC

CONSTANTS v1, v2, prod, dev, live, trial, p1, p2

(* prod is published under both profiles, and trial holds both environments *)
MCTargets == {[profile |-> live, env |-> prod], [profile |-> trial, env |-> prod],
              [profile |-> trial, env |-> dev]}
MCSymmetry == Permutations(Publishers)
=============================================================================
