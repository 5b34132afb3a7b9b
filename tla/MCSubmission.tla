---------------------------- MODULE MCSubmission ----------------------------
(***************************************************************************)
(* Two versions of a source, one private parameter, the two checks that    *)
(* build and simulate: those before them pass or fail as they do.  A       *)
(* prefund of two units, at most two vaults, one edit on the page, one     *)
(* failure that the page meets and two that another client does.           *)
(***************************************************************************)
EXTENDS SubmissionProperties, TLC

CONSTANTS sourceA, sourceB, secretA, secretB

MCSources == {sourceA, sourceB}
MCOneSource == {sourceA}
MCOneValue == {secretA}
MCTwoValues == {secretA, secretB}
MCEverything == {"throw", "unheard", "crash", "disk"}
MCAnyClient == {"page", "api", "seed"}
MCTemplates == <<sourceA, sourceB>>
MCFailures == [c \in MCAnyClient |-> IF c = "page" THEN 1 ELSE 2]
MCNoFailures == [c \in MCAnyClient |-> 0]
MCNoFaults == {}
MCPage == {"page"}
MCSeed == {"seed"}
MCApi == {"api"}

=============================================================================
