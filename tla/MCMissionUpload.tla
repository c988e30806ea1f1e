-------------------------- MODULE MCMissionUpload --------------------------
(***************************************************************************)
(* Instances of MissionUpload for TLC: at most three stored commands.      *)
(***************************************************************************)
EXTENDS MissionUpload

Wp(tag) == [id |-> "nav", target |-> 0, tag |-> tag]
Jump(target) == [id |-> "jump", target |-> target, tag |-> 0]
Unsupported == [id |-> "unsupported", target |-> 0, tag |-> 0]

MCItem == {Wp(0), Wp(1), Wp(2), Jump(1), Jump(2), Unsupported}
MCHome == Wp(0)

\* Two lists of different length and content; one whose jump leaves the list, one
\* that is not supported, one that does not fit.
MCPlans == {<<Wp(1), Jump(1)>>, <<Wp(2), Wp(2), Wp(2)>>, <<Wp(1), Jump(2)>>,
            <<Wp(2), Unsupported>>, <<Wp(1), Wp(1), Wp(1), Wp(1)>>}
=============================================================================
