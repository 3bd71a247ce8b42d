----------------------------- MODULE MCHardening -----------------------------
(* From a plan to its hardened branch, in one run of TLC: the planner      *)
(* (RunnerPlan), and the two drivers of the attack-defend loop             *)
(* (Hardening), the runner's stages and the /harden skill.                 *)
(* They share no state: a behaviour is of one of the three.                *)
EXTENDS Hardening

CONSTANTS code, doc, fresh, away, hidden

VARIABLES
    driver, \* whose behaviour it is
    pNumbers, pDraft, pPlan, pPhase, pDone, pTree

planVars == <<pNumbers, pDraft, pPlan, pPhase, pDone, pTree>>

(* Lists of up to three steps over a code file, its document, a file to be *)
(* created, and one path outside the repository or ignored by git.         *)
Plain == [action |-> "test", files |-> {}, deps |-> {}, unchanged |-> FALSE,
          wellFormed |-> TRUE, says |-> {"onTopic"}, removes |-> FALSE,
          conds |-> {}, num |-> 0]

(* The steps whose order and files matter. *)
MCShapes ==
    LET Over(F, u) == {[Plain EXCEPT !.action = a, !.files = F, !.unchanged = u]
                          : a \in {"create", "modify", "delete"}}
    IN  {Plain} \cup Over({code}, TRUE) \cup Over({code, doc}, FALSE)
          \cup Over({fresh}, FALSE)

MCOrdered ==
    {[s EXCEPT !.deps = D] : s \in MCShapes, D \in {{}, {1}, {3}, {1, 2}}}

(* One step per check that looks at a step alone. *)
MCFaulty ==
    LET Modify == [Plain EXCEPT !.action = "modify", !.files = {fresh}, !.deps = {1}]
    IN  {[Plain EXCEPT !.says = {"onTopic", w}] : w \in {"onTopic", "banned", "prose", "chained", "hopesToFail"}}
          \cup {[Plain EXCEPT !.action = "verify", !.says = {"banned"}],
                [Plain EXCEPT !.wellFormed = FALSE],
                [Modify EXCEPT !.removes = TRUE, !.files = {code}, !.unchanged = TRUE],
                [Modify EXCEPT !.files = {code}],
                [Modify EXCEPT !.files = {away}],
                [Modify EXCEPT !.files = {hidden}]}
          \cup {[Modify EXCEPT !.conds = {c}] : c \in {fresh, "placeholder", "illFormed"}}

MCSteps == MCOrdered \cup MCFaulty
MCNumberings == {<<1, 2, 3>>, <<3, 1, 2>>, <<2, 3, 3>>, <<2, 3, 4>>}

Planner == INSTANCE RunnerPlan WITH
    Files <- {code, doc, fresh, away, hidden}, Existing <- {code, doc, hidden},
    Outside <- {away}, Ignored <- {hidden}, Mapped <- {code}, MappedDocs <- {doc},
    Defining <- {code}, Using <- {code, doc}, Steps <- MCSteps, Numberings <- MCNumberings,
    numbers <- pNumbers, draft <- pDraft, plan <- pPlan, phase <- pPhase,
    done <- pDone, tree <- pTree

(* Two lenses that see the same place, one of which also sees another. *)
MCFindings == {<<"correctness", "here">>, <<"testing", "here">>, <<"testing", "there">>}
MCNobody == <<"nobody", "nowhere">>

ASSUME MCAssumption == Planner!RunnerPlanAssumption

MCInit ==
    /\ driver \in {"planner", "runner", "skill"}
    /\ Init /\ Skill!Init /\ Planner!Init
    /\ driver = "planner" \/ pNumbers = <<1, 2, 3>>

MCNext ==
    \/ driver = "planner" /\ Planner!WriteStep /\ UNCHANGED <<driver, vars, skillVars>>
    \/ driver = "planner" /\ Planner!SubmitPlan /\ UNCHANGED <<driver, vars, skillVars>>
    \/ driver = "planner" /\ Planner!Retry /\ UNCHANGED <<driver, vars, skillVars>>
    \/ driver = "planner" /\ Planner!RunStep /\ UNCHANGED <<driver, vars, skillVars>>
    \/ driver = "planner" /\ Planner!FinishPlan /\ UNCHANGED <<driver, vars, skillVars>>
    \/ driver = "runner" /\ Next /\ UNCHANGED <<driver, skillVars, planVars>>
    \/ driver = "skill" /\ Skill!Prepare /\ UNCHANGED <<driver, vars, planVars>>
    \/ driver = "skill" /\ Skill!Attack /\ UNCHANGED <<driver, vars, planVars>>
    \/ driver = "skill" /\ Skill!Defend /\ UNCHANGED <<driver, vars, planVars>>
    \/ driver = "skill" /\ Skill!Close /\ UNCHANGED <<driver, vars, planVars>>
    \/ driver = "skill" /\ Skill!Finish /\ UNCHANGED <<driver, vars, planVars>>

MCSpec == MCInit /\ [][MCNext]_<<driver, vars, skillVars, planVars>>

(* Merging steps never turns an acceptable plan into one that is rejected  *)
(* (auto_plan.py _merge_subsumed_steps, validate_plan.py).                 *)
MergeKeepsTheVerdict == Planner!MergeKeepsTheVerdict

(* Steps that name one file run in the order of their dependencies         *)
(* (validate_plan.py:677, executor.py:595).                                *)
WritersRunInDependencyOrder == Planner!WritersRunInDependencyOrder
=============================================================================
