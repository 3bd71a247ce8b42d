----------------------------- MODULE RunnerPlan -----------------------------
(***************************************************************************)
(* From a planner's list of steps to the order in which the executor runs  *)
(* them: auto_plan.py merges and renumbers what the model wrote,           *)
(* validate_plan.py (with validate_post_conditions.py) accepts or rejects  *)
(* the result, and executor.py sorts and runs an accepted plan.  Every     *)
(* check of the validator is an operator here; the text of a step is       *)
(* reduced to what the checks look for in it.                              *)
(***************************************************************************)
EXTENDS Integers, FiniteSets, Sequences

CONSTANTS
    Files,      \* paths a step may name
    Existing,   \* those in the checkout when the plan is written
    Outside,    \* those outside the repository
    Ignored,    \* those git ignores and does not track
    Mapped,     \* code of the one entry of docs/change_map.json
    MappedDocs, \* the documents of that entry
    Defining,   \* files that define the one symbol steps may remove
    Using,      \* files that mention it
    Steps,      \* the steps the planner may write, without their numbers
    Numberings  \* the step numbers it may give them, in list order

RunnerPlanAssumption ==
    /\ Existing \cup Outside \cup Ignored \cup Mapped \cup MappedDocs
         \cup Defining \cup Using \subseteq Files
    /\ \A ns \in Numberings : ns \in Seq(Nat)

Actions == {"create", "modify", "delete", "test", "verify"}

(* What the text checks find in a description or a code_spec: words of the
   acceptance criterion, a forbidden token, prose or shell operators where a
   command belongs, the announcement that a test will fail. *)
Wording == {"onTopic", "banned", "prose", "chained", "hopesToFail"}

(* A post-condition is an import of a file, or one of the two faults. *)
Conditions == Files \cup {"placeholder", "illFormed"}

Step == [action : Actions, files : SUBSET Files, deps : SUBSET Nat,
         unchanged : BOOLEAN, wellFormed : BOOLEAN, says : SUBSET Wording,
         removes : BOOLEAN, conds : SUBSET Conditions, num : Nat]

VARIABLES
    numbers,  \* the numbering the planner follows
    draft,    \* the steps it wrote so far
    plan,     \* the plan artifact
    phase,    \* "drafting", "rejected", "running" or "finished"
    done,     \* numbers of the steps run, in order
    tree      \* files in the worktree

vars == <<numbers, draft, plan, phase, done, tree>>
-----------------------------------------------------------------------------
(* auto_plan._merge_subsumed_steps *)

Mergeable(a, b) ==
    /\ {a.action, b.action} \subseteq {"create", "modify"}
    /\ b.deps = {a.num}
    /\ b.files \subseteq a.files

MergeOf(a, b) ==
    [a EXCEPT !.says = @ \cup b.says, !.removes = @ \/ b.removes,
              !.conds = @ \cup b.conds]

(* Mutant: the steps that depended on the absorbed step keep its number. *)
RedirectNothing(p, from, to) == p

Redirect(p, from, to) ==
    [i \in DOMAIN p |->
        [p[i] EXCEPT !.deps = {IF d = from THEN to ELSE d : d \in @}]]

MergeAt(p, i) ==
    Redirect(SubSeq(p, 1, i - 1) \o <<MergeOf(p[i], p[i + 1])>>
                \o SubSeq(p, i + 2, Len(p)),
             p[i + 1].num, p[i].num)

MergeablePairs(p) ==
    {i \in 1..(Len(p) - 1) : Mergeable(p[i], p[i + 1])}

MergeOnce(p) ==
    LET S == MergeablePairs(p)
    IN  IF S = {} THEN p ELSE MergeAt(p, CHOOSE i \in S : \A j \in S : i <= j)

MergeAll(p) ==
    LET pass[k \in 0..Len(p)] == IF k = 0 THEN p ELSE MergeOnce(pass[k - 1])
    IN  pass[Len(p)]

(* The last step that carries number n gives it its new number. *)
Renumbered(p) ==
    LET At(n) == {i \in DOMAIN p : p[i].num = n}
        New(n) == IF At(n) = {} THEN n
                  ELSE CHOOSE i \in At(n) : \A j \in At(n) : j <= i
    IN  [i \in DOMAIN p |->
            [p[i] EXCEPT !.num = New(@), !.deps = {New(d) : d \in @}]]

MergeSubsumedSteps(p) == Renumbered(MergeAll(p))
-----------------------------------------------------------------------------
(* validate_plan.py: each operator holds of a plan the check rejects. *)

NumbersOf(p) == {p[i].num : i \in DOMAIN p}

(* The steps that step n waits for and that are in the plan.  A number
   outside the plan is skipped, here as in the executor's sort. *)
DirectDeps(p, n) ==
    UNION {p[i].deps : i \in {j \in DOMAIN p : p[j].num = n}} \cap NumbersOf(p)

Ancestors(p, n) ==
    LET upTo[k \in 0..Len(p)] ==
          IF k = 0 THEN DirectDeps(p, n)
          ELSE upTo[k - 1] \cup UNION {DirectDeps(p, m) : m \in upTo[k - 1]}
    IN  upTo[Len(p)]

Tests(p) == {i \in DOMAIN p : p[i].action = "test"}
PlannedFiles(p) == UNION {p[i].files : i \in DOMAIN p}

FieldErrors(p) ==
    \/ Len(p) = 0
    \/ \E i \in DOMAIN p : ~p[i].wellFormed
    \/ Cardinality(NumbersOf(p)) < Len(p)

CreatedBefore(p, i) ==
    UNION {p[j].files : j \in {k \in 1..i : p[k].action = "create"}}

FileNotFound(p) ==
    \E i \in DOMAIN p :
        /\ p[i].action \in {"modify", "delete"}
        /\ ~(p[i].files \subseteq Existing \cup CreatedBefore(p, i))

DetectCycles(p) == \E n \in NumbersOf(p) : n \in Ancestors(p, n)

TestCodeSpecFormat(p) == \E i \in Tests(p) : "prose" \in p[i].says
TestShellMetacharacters(p) == \E i \in Tests(p) : "chained" \in p[i].says
TestFailureLanguage(p) == \E i \in Tests(p) : "hopesToFail" \in p[i].says

BannedTokens(p) ==
    \E i \in DOMAIN p : p[i].action # "verify" /\ "banned" \in p[i].says

PathAllowlist(p) == PlannedFiles(p) \cap Outside # {}
GitignoredPaths(p) == PlannedFiles(p) \cap Ignored # {}

OrderedBy(p, m, n) == m \in Ancestors(p, n) \/ n \in Ancestors(p, m)

(* Mutant: only neighbours in the list are compared. *)
FileOverlapOfNeighbours(p) ==
    \E i \in DOMAIN p :
        /\ i + 1 \in DOMAIN p
        /\ p[i].files \cap p[i + 1].files # {}
        /\ ~OrderedBy(p, p[i].num, p[i + 1].num)

FileOverlap(p) ==
    \E i, j \in DOMAIN p :
        /\ p[i].num < p[j].num
        /\ p[i].files \cap p[j].files # {}
        /\ ~OrderedBy(p, p[i].num, p[j].num)

RemovalCoverage(p) ==
    /\ \E i \in DOMAIN p : p[i].action \in {"modify", "delete"} /\ p[i].removes
    /\ Defining # {}
    /\ Defining \subseteq PlannedFiles(p)
    /\ ~(Using \subseteq PlannedFiles(p))

ChangeMapCoverage(p) ==
    \E i \in DOMAIN p :
        /\ p[i].action \notin {"test", "verify"}
        /\ ~p[i].unchanged
        /\ p[i].files \cap Mapped # {}
        /\ p[i].files \cap MappedDocs = {}

PostConditions(p) == \E i \in DOMAIN p : "illFormed" \in p[i].conds

CheckLiterals(p) ==
    \E i \in DOMAIN p :
        \/ "placeholder" \in p[i].conds
        \/ \E m \in p[i].conds \cap Files : m \notin Existing \cup PlannedFiles(p)

CriteriaCoverage(p) == \A i \in DOMAIN p : "onTopic" \notin p[i].says

Rejected(p) ==
    \/ FieldErrors(p)
    \/ FileNotFound(p)
    \/ DetectCycles(p)
    \/ TestCodeSpecFormat(p)
    \/ TestShellMetacharacters(p)
    \/ TestFailureLanguage(p)
    \/ BannedTokens(p)
    \/ PathAllowlist(p)
    \/ GitignoredPaths(p)
    \/ FileOverlap(p)
    \/ RemovalCoverage(p)
    \/ ChangeMapCoverage(p)
    \/ PostConditions(p)
    \/ CheckLiterals(p)
    \/ CriteriaCoverage(p)
-----------------------------------------------------------------------------
Init ==
    /\ numbers \in Numberings
    /\ draft = <<>>
    /\ plan = <<>>
    /\ phase = "drafting"
    /\ done = <<>>
    /\ tree = Existing

(* The planner writes one more step. *)
WriteStep ==
    /\ phase = "drafting"
    /\ Len(draft) < Len(numbers)
    /\ \E s \in Steps : draft' = Append(draft, [s EXCEPT !.num = numbers[Len(draft) + 1]])
    /\ UNCHANGED <<numbers, plan, phase, done, tree>>

(* auto_plan assembles the artifact from the model's steps, merging them,
   and only then has it validated. *)
SubmitPlan ==
    /\ phase = "drafting"
    /\ plan' = MergeSubsumedSteps(draft)
    /\ phase' = IF Rejected(plan') THEN "rejected" ELSE "running"
    /\ UNCHANGED <<numbers, draft, done, tree>>

(* The rejected attempt is shown to the model, which starts over. *)
Retry ==
    /\ phase = "rejected"
    /\ phase' = "drafting"
    /\ draft' = <<>>
    /\ plan' = <<>>
    /\ UNCHANGED <<numbers, done, tree>>

Ran == {done[k] : k \in DOMAIN done}
Waiting == NumbersOf(plan) \ Ran
Least(S) == CHOOSE n \in S : \A m \in S : n <= m

(* executor.topo_sort visits the numbers in increasing order and the
   dependencies of each first, so of an accepted (acyclic) plan the next step
   is found by going down from the least one left. *)
NextStep ==
    LET Blockers(n) == DirectDeps(plan, n) \ Ran
        down[k \in Nat, n \in Nat] ==
            IF k = 0 \/ Blockers(n) = {} THEN n
            ELSE down[k - 1, Least(Blockers(n))]
    IN  down[Len(plan), Least(Waiting)]

Numbered(n) == plan[CHOOSE i \in DOMAIN plan : plan[i].num = n]

RunStep ==
    /\ phase = "running"
    /\ Waiting # {}
    /\ done' = Append(done, NextStep)
    /\ tree' = LET s == Numbered(NextStep)
               IN  CASE s.action = "create" -> tree \cup s.files
                     [] s.action = "delete" -> tree \ s.files
                     [] OTHER -> tree
    /\ UNCHANGED <<numbers, draft, plan, phase>>

FinishPlan ==
    /\ phase = "running"
    /\ Waiting = {}
    /\ phase' = "finished"
    /\ UNCHANGED <<numbers, draft, plan, done, tree>>

Next == WriteStep \/ SubmitPlan \/ Retry \/ RunStep \/ FinishPlan

Spec == Init /\ [][Next]_vars
-----------------------------------------------------------------------------
TypeOK ==
    /\ numbers \in Numberings
    /\ draft \in Seq(Step)
    /\ plan \in Seq(Step)
    /\ phase \in {"drafting", "rejected", "running", "finished"}
    /\ done \in Seq(Nat)
    /\ tree \subseteq Files

(***************************************************************************)
(* Merging never turns a good plan into a bad one: when the validator      *)
(* would accept the steps the model wrote, it accepts the merged and       *)
(* renumbered plan too, provided every depends_on names a step of the list *)
(* (a number the list does not contain may become one when the steps are   *)
(* renumbered).  auto_plan.py:439 merges before validating, so an error    *)
(* made by the merge costs one of the three attempts and is reported to    *)
(* the model in numbers it never wrote.                                    *)
(***************************************************************************)
RefersToItself(p) == \A i \in DOMAIN p : p[i].deps \subseteq NumbersOf(p)

MergeKeepsTheVerdict ==
    RefersToItself(draft) /\ ~Rejected(draft)
        => ~Rejected(MergeSubsumedSteps(draft))

(***************************************************************************)
(* Two steps of an accepted plan that name the same file never run in an   *)
(* order left to chance: of two such steps, whenever one has run before    *)
(* the other, the later one depends on it through a chain of depends_on.   *)
(* This takes the overlap check, the cycle check, the renumbering and the  *)
(* executor's sort together (validate_plan.py:677, executor.py:595).       *)
(***************************************************************************)
WritersRunInDependencyOrder ==
    phase \in {"running", "finished"} =>
        \A i \in DOMAIN plan, j \in DOMAIN plan :
            /\ i # j
            /\ plan[i].files \cap plan[j].files # {}
            /\ plan[i].num \in Ran
            => \/ plan[i].num \in Ancestors(plan, plan[j].num)
               \/ /\ plan[j].num \in Ancestors(plan, plan[i].num)
                  /\ plan[j].num \in Ran

(***************************************************************************)
(* A step that modifies or deletes a file finds it: validate_plan.py:1144  *)
(* rejects a path that is neither in the repository nor made by a create   *)
(* step earlier in the list.  The list is not the order of execution.      *)
(***************************************************************************)
FilesThereWhenNeeded ==
    phase = "running" /\ Waiting # {} =>
        LET s == Numbered(NextStep)
        IN  s.action \in {"modify", "delete"} => s.files \subseteq tree
=============================================================================
