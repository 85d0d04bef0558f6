----------------------------- MODULE MCDelivery -----------------------------
(***************************************************************************)
(* Everything between the application and Telegram, for TLC: the outbound  *)
(* queue with its sender, the rate limiter, the bot, and what the program  *)
(* tells of its health.  They share no state - to the sender loop an       *)
(* acquire is a delay, and what the bot takes in does not come out of the  *)
(* outbound queue - so a behaviour runs one of them and leaves the others  *)
(* in their initial states.                                                *)
(***************************************************************************)
EXTENDS Outbound, RateLimiter, Bot, Health

CONSTANTS m1, m2, m3

VARIABLE part

\* Three messages, the first in two chunks.
MCChunks == [m \in {m1, m2, m3} |-> IF m = m1 THEN 2 ELSE 1]

MCInit ==
  /\ part \in {"outbound", "limiter", "bot", "health"}
  /\ Init /\ LimiterInit /\ BotInit /\ HealthInit

MCNext ==
  \/ part = "outbound" /\ Next /\ UNCHANGED <<part, limiterVars, botVars, healthVars>>
  \/ part = "limiter" /\ LimiterNext /\ UNCHANGED <<part, vars, botVars, healthVars>>
  \/ part = "bot" /\ BotNext /\ UNCHANGED <<part, vars, limiterVars, healthVars>>
  \/ part = "health" /\ HealthNext /\ UNCHANGED <<part, vars, limiterVars, botVars>>

MCSpec ==
  /\ MCInit
  /\ [][MCNext]_<<part, vars, limiterVars, botVars, healthVars>>
  /\ part = "outbound" => Fairness
=============================================================================
