------------------------------- MODULE Files -------------------------------
(***************************************************************************)
(* include/coasio/filesystem.hpp and the tasks of filesystem/file.hpp:     *)
(* coroutines that run one function of the file system on the blocking     *)
(* pool and turn its error code, and what spawn_blocking() gave, into what *)
(* they co_return.  They differ in what they do with the latter.           *)
(***************************************************************************)
EXTENDS SpawnBlocking

CONSTANT Function         \* Function[t]: what task t calls

Queries == {"file_size", "exists", "is_regular_file", "is_directory", "is_symlink", "status",
            "symlink_status", "hard_link_count", "equivalent", "last_write_time"}
Changes == {"set_last_write_time", "create_directory", "create_directories", "remove", "remove_all",
            "rename", "copy", "copy_file", "copy_symlink", "create_hard_link", "create_symlink",
            "create_directory_symlink"}
Paths == {"read_symlink", "absolute", "canonical", "weakly_canonical", "relative", "proximate",
          "current_path", "set_current_path", "temp_directory_path", "space", "permissions"}

(* The tasks of class file and of class random_access_file.                *)
Positions == {"seek", "position", "size"}
Unchecked == {"resize", "sync_data", "sync_all"}
AtTasks == {"at_size", "at_resize", "at_sync_data", "at_sync_all"}
Opens == {"open", "at_open"}

ASSUME FunctionAssumption ==
    Function \in [Tasks -> Queries \union Changes \union Paths \union Positions
                               \union Unchecked \union AtTasks \union Opens]

VARIABLE reply            \* reply[t]: what the task co_returns

FilesInit == Init /\ reply = [t \in Tasks |-> "none"]

(* How the call ended, for the task: a function that runs although the     *)
(* task was told otherwise may have set the error code by now.             *)
Endings(t) ==
    IF result[t] = "outcome" THEN {"value", "error", "exception"}
    ELSE {"withdrawn"} \union (IF ran[t] = 1 THEN {"error"} ELSE {})

NobodyChecks(t, ending) ==   \* a mutant of Reply: what spawn_blocking() gave is ignored by all
    IF ending = "withdrawn" THEN "value" ELSE ending

(* The error code comes first.  Then Unchecked report success whatever     *)
(* `status` says, the others pass it on, and open() dereferences it.  Nor  *)
(* can open() ever have run well: on a pool thread current_runtime() is    *)
(* null, and its function dereferences that. *)
Reply(t, ending) ==
    IF Function[t] \in Opens THEN "undefined"
    ELSE IF ending # "withdrawn" THEN ending
    ELSE IF Function[t] \in Unchecked THEN "value" ELSE "cancelled"

CoReturn(t) ==
    /\ stage[t] = "done"
    /\ reply[t] = "none"
    /\ \E ending \in Endings(t) : reply' = [reply EXCEPT ![t] = Reply(t, ending)]
    /\ UNCHANGED vars

Kept(A) == A /\ UNCHANGED reply

(* The runtime outlives its roots: ~pool() comes after the last co_return. *)
Stops == StopPool /\ \A t \in Tasks : reply[t] # "none"

FilesNext ==
    \/ \E p \in Pool : Kept(PoolStep(p))
    \/ Kept(Stops) \/ Kept(NotifyAll)
    \/ \E w \in Workers : Kept(WorkerStep(w))
    \/ \E w \in Workers, t \in Tasks : Kept(Resume(w, t))
    \/ \E t \in Tasks : Kept(Cancel(t) \/ CancelStep(t)) \/ CoReturn(t)

filesVars == <<vars, reply>>

(* That of SpawnBlocking, and a coroutine that has been resumed goes on.   *)
FilesFairness ==
    /\ \A p \in Pool : WF_filesVars(Kept(PoolStep(p)))
    /\ WF_filesVars(Kept(Stops)) /\ WF_filesVars(Kept(NotifyAll))
    /\ \A w \in Workers : WF_filesVars(Kept(WorkerStep(w)))
    /\ \A t \in Tasks :
           /\ WF_filesVars(\E w \in Workers : Kept(Resume(w, t)))
           /\ WF_filesVars(Kept(CancelStep(t)))
           /\ WF_filesVars(CoReturn(t))

FilesSpec == FilesInit /\ [][FilesNext]_filesVars
FairFilesSpec == FilesSpec /\ FilesFairness

-----------------------------------------------------------------------------
(* A task that reports what the file system said has asked it.  Only the   *)
(* Unchecked report a success for a call nobody made, and only if they     *)
(* were cancelled. *)
FileHonest ==
    \A t \in Tasks :
        reply[t] \in {"value", "error", "exception"} /\ ran[t] = 0 =>
            Function[t] \in Unchecked /\ Requested(t)
=============================================================================
