----------------------------- MODULE SkillRouter -----------------------------
(***************************************************************************)
(* How a message is routed to a skill (SkillRouter.route_intent,           *)
(* app/skills/router.py): a direct invocation wins; otherwise the triggers *)
(* of all skills are tried in the order of loading and the match of the    *)
(* highest confidence is kept.  The initial states are all inputs.         *)
(***************************************************************************)
EXTENDS Integers, Sequences, SequencesExt, FiniteSetsExt

CONSTANTS
  Skills,      \* skill names
  NoSkill,     \* route_intent returned None
  MaxTriggers  \* how many keywords and patterns are tried at most

ASSUME RouterAssumption ==
  /\ NoSkill \notin Skills
  /\ MaxTriggers \in Nat

\* Confidence of a match: equal to the keyword, by the pattern, the keyword as a
\* word, the keyword inside a word; 0 when the trigger does not match.  The
\* field priority of a trigger is read nowhere.
Confidences == {100, 95, 90, 70, 0}
Triggers == [skill : Skills, confidence : Confidences]

VARIABLES
  direct,  \* the skill of a direct invocation, or NoSkill
  tried,   \* the triggers in the order of loading
  next,    \* the trigger to try next
  best,    \* best_match: its index, 0 for None
  routed   \* what route_intent returned, "none" while it runs

routerVars == <<direct, tried, next, best, routed>>

RouterTypeOK ==
  /\ direct \in Skills \cup {NoSkill}
  /\ tried \in BoundedSeq(Triggers, MaxTriggers)
  /\ next \in 1 .. MaxTriggers + 1
  /\ best \in 0 .. next - 1
  /\ routed \in Skills \cup {NoSkill, "none"}

RouterInit ==
  /\ direct \in Skills \cup {NoSkill}
  /\ tried \in BoundedSeq(Triggers, MaxTriggers)
  /\ next = 1
  /\ best = 0
  /\ routed = "none"

CheckDirectInvocation ==
  /\ routed = "none"
  /\ direct # NoSkill
  /\ routed' = direct
  /\ UNCHANGED <<direct, tried, next, best>>

\* Mutant of Better: a later match of the same confidence replaces the best.
BetterOrEqual(i) == best = 0 \/ tried[i].confidence >= tried[best].confidence

Better(i) == best = 0 \/ tried[i].confidence > tried[best].confidence

MatchTrigger ==
  /\ routed = "none"
  /\ direct = NoSkill
  /\ next <= Len(tried)
  /\ best' = IF tried[next].confidence > 0 /\ Better(next) THEN next ELSE best
  /\ next' = next + 1
  /\ UNCHANGED <<direct, tried, routed>>

Return ==
  /\ routed = "none"
  /\ direct = NoSkill
  /\ next > Len(tried)
  /\ routed' = IF best = 0 THEN NoSkill ELSE tried[best].skill
  /\ UNCHANGED <<direct, tried, next, best>>

RouterNext == CheckDirectInvocation \/ MatchTrigger \/ Return
RouterSpec == RouterInit /\ [][RouterNext]_routerVars

-----------------------------------------------------------------------------
Matches == {i \in DOMAIN tried : tried[i].confidence > 0}
Confidence(i) == tried[i].confidence
Top == {i \in Matches : Confidence(i) = Max({Confidence(j) : j \in Matches})}

\* The reference: the skill of the first trigger among those of the highest
\* confidence, so that the routing of a message depends on nothing but the
\* order in which the skills are loaded.
Expected ==
  IF direct # NoSkill THEN direct
  ELSE IF Matches = {} THEN NoSkill
  ELSE tried[Min(Top)].skill

RoutesToFirstBest == routed \in {"none", Expected}
=============================================================================
