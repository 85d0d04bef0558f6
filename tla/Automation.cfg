\* Three runs of two turns, at most two children and depth one; workflows of
\* three steps; up to three triggers of two skills; five tools of three profiles.
CONSTANTS
  Runs = {r1, r2, r3}
  Main = Main
  MaxDepth = 1
  MaxChildren = 2
  MaxTurns = 2
  N = 3
  Types = {"tool_call", "transform", "subagent", "return"}
  SuccTargets = {0, 3}
  FailTargets = {0, 1, 4}
  Skills = {s1, s2}
  NoSkill = NoSkill
  MaxTriggers = 3
  Registered = {"time", "web", "exec", "memory", "files.write"}
  Policy <- MCPolicy
  ModeFiles <- MCModeFiles
  SoulFiles <- MCSoulFiles
  FirstModes <- MCFirstModes
  FirstSouls <- MCFirstSouls
  Refs <- MCRefs
  DefaultMode <- MCDefaultMode
  DefaultSoul <- MCDefaultSoul
  HotReload = TRUE
SPECIFICATION MCSpec
INVARIANTS
  CallerWaits SuccessMeansHandled RoutesToFirstBest OfferedRuns ModeHolds
PROPERTIES ExecutionsEnd
CHECK_DEADLOCK FALSE
