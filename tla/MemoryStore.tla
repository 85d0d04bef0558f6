----------------------------- MODULE MemoryStore -----------------------------
(***************************************************************************)
(* The records of the first memory store (app/memory/store.py) and all     *)
(* that write them: the boot of a hatched agent, the same boot as a job,   *)
(* the preferences of an onboarding reply, /rename, and the memory tool    *)
(* (app/tools/memory_tool.py).  One synchronous session of the database    *)
(* serves them all.  None of them suspends while it writes, so the         *)
(* creations of one are not interleaved with those of another, but what a  *)
(* failed commit leaves in the session is met by the next.                 *)
(*                                                                         *)
(* A commit fails when the database refuses its statements (another        *)
(* process holds the write lock, the disk is full).  Until the session is  *)
(* rolled back, every later use of it then fails too.  Embeddings are left *)
(* out: the service calls an async client without awaiting it, so none is  *)
(* ever stored, and the error is logged.                                   *)
(***************************************************************************)
EXTENDS Integers, FiniteSetsExt

CONSTANTS
  MaxBatch,    \* bound: memories one caller creates
  MaxMemories, \* bound: memories in the table
  MaxFaults    \* bound: commits that fail

ASSUME MemoryAssumption ==
  MaxBatch \in Nat \ {0} /\ {MaxMemories, MaxFaults} \subseteq Nat

VARIABLES
  session,   \* MemoryStore._session: "clean", or "broken" until a rollback
  records,   \* memory_records: their ids
  auto,      \* MemoryTool._auto_memory_enabled, which nothing reads
  batch,     \* the caller at work and how many memories it has still to create
  said,      \* what the last caller answered
  faults,    \* commits that failed, for the bound
  lost       \* history: memories an exception kept from being stored

memoryVars == <<session, records, auto, batch, said, faults, lost>>

Callers == {"boot", "boot_job", "preferences", "rename"}
NoBatch == [caller |-> "none", left |-> 0]
Answers == {"none", "ok", "degraded", "error", "REFUSED", "STORE_ERROR", "SEARCH_ERROR",
            "REVIEW_ERROR", "NOT_FOUND", "DELETE_ERROR", "EXECUTION_ERROR"}

MemoryTypeOK ==
  /\ session \in {"clean", "broken"} /\ auto \in BOOLEAN
  /\ records \subseteq 1 .. MaxMemories
  /\ batch = NoBatch \/ batch \in [caller : Callers, left : 0 .. MaxBatch]
  /\ said \in Answers
  /\ faults \in 0 .. MaxFaults /\ lost \in Nat

MemoryInit ==
  /\ session = "clean" /\ records = {} /\ auto = TRUE
  /\ batch = NoBatch /\ said = "none"
  /\ faults = 0 /\ lost = 0

\* The table gives a new row the id after the greatest.
NextId == 1 + Max(records \cup {0})

Fault == faults < MaxFaults /\ faults' = faults + 1

\* Mutant of AfterFailure: create_memory does not roll back.
AfterFailureUnhealed == "broken"
AfterFailure == "clean"

-----------------------------------------------------------------------------
(* The callers.  create_memory commits the record, then its audit entry.   *)

\* A boot stores its directives and what its profile has of name, voice and
\* principles; a boot as a job only the latter; a reply each preference it
\* gave and then all of them as one; /rename the name.
BatchSizes(c) ==
  CASE c = "boot_job" -> 0 .. MaxBatch
    [] c = "rename" -> {1}
    [] OTHER -> 1 .. MaxBatch

Idle == batch = NoBatch

Begin(c) ==
  /\ Idle
  /\ \E n \in BatchSizes(c) : batch' = [caller |-> c, left |-> n]
  /\ UNCHANGED <<session, records, auto, said, faults, lost>>

\* _run_system_event without a profile to store: an unknown subtype or a lost
\* model is an error; a message that fails the lint and whose rewriting fails it
\* too is replaced by the fallback.
BootJobStoresNothing ==
  /\ Idle
  /\ said' \in {"error", "degraded", "ok"}
  /\ UNCHANGED <<session, records, auto, batch, faults, lost>>

Stored ==
  /\ session = "clean"
  /\ records' = records \cup {NextId}
  /\ batch' = [batch EXCEPT !.left = @ - 1]
  /\ UNCHANGED <<session, said, faults, lost>>

\* What a caller makes of the exception, which loses n of its memories, those it
\* does not come to create included: a boot is degraded and fails, a boot as a job only degraded; a
\* reply logs it; /rename, which has stored the name in the agent's profile,
\* lets it pass.
Raised(n) ==
  /\ lost' = lost + n
  /\ batch' = NoBatch
  /\ said' = CASE batch.caller = "boot_job" -> "degraded"
               [] batch.caller = "preferences" -> "ok"
               [] OTHER -> "error"

\* The commit of the record fails, or the session was broken before.
InsertFails ==
  /\ IF session = "broken" THEN UNCHANGED faults ELSE Fault
  /\ session' = AfterFailure
  /\ Raised(batch.left)
  /\ UNCHANGED records

\* audit_memory does not roll back: the caller takes the memory for lost, and
\* the session stays as the failed commit left it.
AuditFails ==
  /\ session = "clean" /\ Fault
  /\ records' = records \cup {NextId}
  /\ session' = "broken"
  /\ Raised(batch.left - 1)

CreateMemory ==
  /\ batch.left > 0 /\ NextId <= MaxMemories
  /\ Stored \/ InsertFails \/ AuditFails
  /\ UNCHANGED auto

Finish ==
  /\ ~Idle /\ batch.left = 0
  /\ batch' = NoBatch /\ said' = "ok"
  /\ UNCHANGED <<session, records, auto, faults, lost>>

-----------------------------------------------------------------------------
(* The memory tool.  Its calls to the store name a chat_id, which no method *)
(* of the store takes, and a count the store does not have.                *)

Remember(valid) == IF valid THEN "STORE_ERROR" ELSE "REFUSED"
Search(query) == IF query THEN "SEARCH_ERROR" ELSE "REFUSED"
Review == "REVIEW_ERROR"

ToolAnswers ==
  /\ Idle
  /\ \/ /\ \E valid \in BOOLEAN : said' \in {Remember(valid), Search(valid), Review}
        /\ UNCHANGED auto
     \/ auto' \in BOOLEAN /\ said' = "ok"   \* pause and resume
  /\ UNCHANGED <<session, records, batch, faults, lost>>

\* delete_memory rolls back neither the deletion nor its audit entry.
DeleteMemory(i) ==
  \/ /\ records' = records \ {i} /\ said' = "ok"
     /\ UNCHANGED <<session, faults>>
  \/ /\ Fault /\ session' = "broken" /\ said' = "DELETE_ERROR"
     /\ records' \in {records, records \ {i}}

\* forget reads the record first.  A record has no chat_id either: only a call
\* with the privilege among its arguments, where the model may have put it, gets
\* past the check of the owner.
ForgetRecord(i, admin) ==
  /\ Idle
  /\ IF session = "clean" /\ i \in records /\ admin
     THEN DeleteMemory(i)
     ELSE /\ said' = IF session = "clean" /\ i \notin records THEN "NOT_FOUND" ELSE "EXECUTION_ERROR"
          /\ UNCHANGED <<session, records, faults>>
  /\ UNCHANGED <<auto, batch, lost>>

MemoryNext ==
  \/ \E c \in Callers : Begin(c)
  \/ BootJobStoresNothing \/ CreateMemory \/ Finish \/ ToolAnswers
  \/ \E i \in 1 .. MaxMemories, admin \in BOOLEAN : ForgetRecord(i, admin)

MemorySpec == MemoryInit /\ [][MemoryNext]_memoryVars

-----------------------------------------------------------------------------
\* A commit the database refuses costs what two calls had still to store at
\* most: the call it hit, and one that finds the session broken and, by losing its
\* own memories, mends it.
FaultCostsTwoCalls == lost <= faults * (2 * MaxBatch - 1)
=============================================================================
