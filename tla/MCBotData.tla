------------------------------ MODULE MCBotData ------------------------------
\* What changes a bot's data, in two halves: a behaviour is one of backups and
\* restores, cut at every rename, with no workflow under way, or one of workflows,
\* with no backup under way.
EXTENDS Backups, Workflows, TLC

VARIABLE half

MCInit ==
  /\ half \in {"backups", "workflows"}
  /\ Init
  /\ WorkflowInit
  /\ half = "backups" => kind = "row" /\ running

BackupsGoOn   == half = "backups" /\ Next /\ UNCHANGED <<half, workflowVars>>
WorkflowsGoOn == half = "workflows" /\ WorkflowNext /\ UNCHANGED <<half, vars>>
MCNext == BackupsGoOn \/ WorkflowsGoOn

MCSpec == MCInit /\ [][MCNext]_<<half, vars, workflowVars>>

Symmetry == Permutations(Jobs)
==============================================================================
