--------------------------- MODULE MCWorkExecution ---------------------------
(* Small instances of WorkExecution for TLC. *)
EXTENDS WorkExecution, TLC

CONSTANTS cue, micro, archive, collect, w1, w2, coord, api, api2, op1, op2

(* micro depends on cue; archive stands alone *)
MCUpstream == [i \in Items |-> IF i = micro THEN {cue} \cap Items ELSE {}]
(* every runner but the API's requests is a process of its own *)
MCOwnProcess == [r \in Runners |-> IF r \in ApiRunners THEN api ELSE r]

MCSymmetry == Permutations(Workers) \cup Permutations(Operators)
=============================================================================
