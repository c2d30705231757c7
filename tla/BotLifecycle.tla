----------------------------- MODULE BotLifecycle -----------------------------
(***************************************************************************)
(* What the process supervisor promises about one bot, without threads,    *)
(* sessions or rows: a bot has generations; a generation is created only   *)
(* while no verified process of the bot runs; the process of the current   *)
(* generation can be verified (or adopted) only while the operator intends *)
(* the bot to run; and intent, once withdrawn, returns only with a new     *)
(* generation.  Supervisor.tla is shown to implement this module.          *)
(***************************************************************************)
EXTENDS Naturals

VARIABLES
  generation,  \* number of generations created so far
  intended,    \* expected_running of the current generation
  live         \* a process verified as the current generation is running

lifecycleVars == <<generation, intended, live>>

Init ==
  /\ generation = 0
  /\ intended = FALSE
  /\ live = FALSE

\* A new generation: refused while the current one has a verified process.
NewGeneration ==
  /\ ~live
  /\ generation' = generation + 1
  /\ intended' = TRUE
  /\ live' = FALSE

\* The identity of the launched process becomes durable.
Verify ==
  /\ intended
  /\ ~live
  /\ live' = TRUE
  /\ UNCHANGED <<generation, intended>>

\* The operator's stop or restart withdraws the intent.
Withdraw ==
  /\ intended
  /\ intended' = FALSE
  /\ UNCHANGED <<generation, live>>

\* The process ends: on its own, or because the supervisor signalled it.
Exit ==
  /\ live
  /\ live' = FALSE
  /\ UNCHANGED <<generation, intended>>

Next == NewGeneration \/ Verify \/ Withdraw \/ Exit

Spec == Init /\ [][Next]_lifecycleVars
===============================================================================
