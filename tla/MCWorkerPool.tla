---------------------------- MODULE MCWorkerPool ----------------------------
(* Instances of WorkerPool for TLC.                                        *)
EXTENDS WorkerPool

CONSTANTS j1, j2, j3, w1, w2, c1, k1

\* Two chat jobs of one chat and one job without a chat; j1 and j2 need
\* Ollama, j3 has a plain handler and the lowest priority.
MCJobs == {j1, j2, j3}
MCPrio == [j \in MCJobs |-> IF j = j3 THEN 40 ELSE 10]
MCChatOf == [j \in MCJobs |-> IF j = j3 THEN NoChat ELSE c1]
MCSplitKey == [j \in MCJobs |-> IF j = j2 THEN NoKey ELSE k1]

\* Two jobs of one chat that both need Ollama.
MCChatJobs == {j1, j2}
MCChatPrio == [j \in MCChatJobs |-> 10]
MCOneChat == [j \in MCChatJobs |-> c1]
MCChatNoKeys == [j \in MCChatJobs |-> NoKey]

MCOllama == {j1, j3}
MCNoExpiry == {0}
MCTwo == {0, 2}
=============================================================================
