----------------------------- MODULE MCServices -----------------------------
(***************************************************************************)
(* Nine services for TLC: the scheduler with the control state, the       *)
(* skills on disk and their two loaders, the dead-letter queue, the        *)
(* cutting of long messages, the runtime of one agent with many chats, the *)
(* window of the transcript a model is shown, the memory records, the      *)
(* sessions of the chat screens and the runner in a process of its own.    *)
(* They share no state, so a behaviour runs one of them and leaves the     *)
(* others in one initial state.                                            *)
(***************************************************************************)
EXTENDS Scheduler, SkillLibrary, DeadLetters, MemoryStore, RuntimeSupervisor,
  ContextWindow, MessageSplit, ChatSessions, SubprocessRunner, TLC

VARIABLE part

\* Two files; two skills, each with the name of the other as a keyword; a word
\* no skill has, and a name written in capitals.
MCStems == {"study", "other"}
Study == [name |-> "study", keywords |-> {"learn"}]
Learn == [name |-> "learn", keywords |-> {"study"}]
MCDefinitions == {Study, Learn}
MCLower == [word \in {"study", "learn", "STUDY", "hello"} |->
              IF word = "STUDY" THEN "study" ELSE word]

SchedulerIdle ==
  Init /\ store = [j \in Jobs |-> "none"] /\ once = [j \in Jobs |-> FALSE]
LibraryIdle == disk = <<>> /\ LibraryInit
LettersIdle == seen = {} /\ LettersInit
SplitIdle == text = <<>> /\ SplitInit

MCInit ==
  /\ SupervisorInit /\ ContextInit /\ MemoryInit /\ SessionsInit /\ WorkersInit
  /\ \/ part = "scheduler" /\ Init /\ LibraryIdle /\ LettersIdle /\ SplitIdle
     \/ part = "library" /\ SchedulerIdle /\ LibraryInit /\ LettersIdle /\ SplitIdle
     \/ part = "letters" /\ SchedulerIdle /\ LibraryIdle /\ LettersInit /\ SplitIdle
     \/ part \in {"runtime", "context", "memory", "sessions", "subprocess"}
        /\ SchedulerIdle /\ LibraryIdle /\ LettersIdle /\ SplitIdle
     \/ part = "split" /\ SchedulerIdle /\ LibraryIdle /\ LettersIdle /\ SplitInit

MCNext ==
  /\ UNCHANGED part
  /\ \/ /\ part = "scheduler" /\ Next
        /\ UNCHANGED <<libraryVars, letterVars, splitVars, supervisorVars,
                       contextVars, memoryVars, sessionVars, workerVars>>
     \/ /\ part = "library" /\ LibraryNext
        /\ UNCHANGED <<vars, letterVars, splitVars, supervisorVars,
                       contextVars, memoryVars, sessionVars, workerVars>>
     \/ /\ part = "letters" /\ LettersNext
        /\ UNCHANGED <<vars, libraryVars, splitVars, supervisorVars,
                       contextVars, memoryVars, sessionVars, workerVars>>
     \/ /\ part = "split" /\ SplitNext
        /\ UNCHANGED <<vars, libraryVars, letterVars, supervisorVars,
                       contextVars, memoryVars, sessionVars, workerVars>>
     \/ /\ part = "runtime" /\ SupervisorNext
        /\ UNCHANGED <<vars, libraryVars, letterVars, splitVars,
                       contextVars, memoryVars, sessionVars, workerVars>>
     \/ /\ part = "context" /\ ContextNext
        /\ UNCHANGED <<vars, libraryVars, letterVars, splitVars,
                       supervisorVars, memoryVars, sessionVars, workerVars>>
     \/ /\ part = "memory" /\ MemoryNext
        /\ UNCHANGED <<vars, libraryVars, letterVars, splitVars,
                       supervisorVars, contextVars, sessionVars, workerVars>>
     \/ /\ part = "sessions" /\ SessionsNext
        /\ UNCHANGED <<vars, libraryVars, letterVars, splitVars,
                       supervisorVars, contextVars, memoryVars, workerVars>>
     \/ /\ part = "subprocess" /\ WorkersNext
        /\ UNCHANGED <<vars, libraryVars, letterVars, splitVars,
                       supervisorVars, contextVars, memoryVars, sessionVars>>

allVars == <<part, vars, libraryVars, letterVars, splitVars, supervisorVars,
             contextVars, memoryVars, sessionVars, workerVars>>

MCSpec == MCInit /\ [][MCNext]_allVars

\* The scheduled jobs are alike, and every property checked here is one of safety.
JobSymmetry == Permutations(Jobs)
=============================================================================
