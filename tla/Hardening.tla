------------------------------ MODULE Hardening ------------------------------
(* Two drivers of the attack-defend loop, the runner's stages              *)
(* (RunnerStages) and the /harden skill (HardenSkill), side by side.       *)
EXTENDS RunnerStages

CONSTANTS SkillFindings, Nobody, SkillRounds, SkillRuns

VARIABLES
    sRun, sPc, sPlan, sRound, sCount, sDefender, sWorktree, sBranch, sEdits,
    sAttempt, sRaised, sOut, sSettled, sReply, sQueue, sFailed, sFiled

skillVars == <<sRun, sPc, sPlan, sRound, sCount, sDefender, sWorktree, sBranch, sEdits,
               sAttempt, sRaised, sOut, sSettled, sReply, sQueue, sFailed, sFiled>>

Skill == INSTANCE HardenSkill WITH
    Findings <- SkillFindings, MaxRounds <- SkillRounds, MaxRuns <- SkillRuns,
    run <- sRun, pc <- sPc, plan <- sPlan, round <- sRound, count <- sCount,
    defender <- sDefender, worktree <- sWorktree, branch <- sBranch, edits <- sEdits,
    attempt <- sAttempt, raised <- sRaised, out <- sOut, settled <- sSettled,
    reply <- sReply, queue <- sQueue, failed <- sFailed, filed <- sFiled

ASSUME HardeningAssumption == Skill!HardenAssumption

(* Nothing an attacker raised is lost on the way to the defender's answer  *)
(* (validate_consolidation.py, validate_response.py).                      *)
NoFindingLost == Skill!NoFindingLost
=============================================================================
