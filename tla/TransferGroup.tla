--------------------------- MODULE TransferGroup ---------------------------
(***************************************************************************)
(* Copying, merging and moving a directory between storages:                *)
(* internal/fs/copy_move.go (one task per directory and per file),          *)
(* internal/task_group/group.go (the group counts its tasks and runs a      *)
(* completion after the last one) and internal/task_group/transfer.go (the  *)
(* completion verifies and removes the source of a move).                   *)
(*                                                                         *)
(* A critical section of the coordinator and a call of a storage are one    *)
(* action each.  The directory holds files only.  Storages are external: a  *)
(* call may fail, and a failed upload may leave a broken file, as           *)
(* drivers/local does.  The task library (tache) is external too: it runs a *)
(* task, runs it again after an error as often as it may, then calls        *)
(* OnSucceeded or OnFailed; a user may retry a failed task.  Hooks on       *)
(* written directories are left out, and storages stay mounted.             *)
(*                                                                         *)
(* A definition whose name starts with Faulty is the one after it with a    *)
(* mistake in it; nothing uses it.  It shows that a property would notice.  *)
(***************************************************************************)
EXTENDS Integers, Sequences, FiniteSets

CONSTANTS Root,          \* the directory that is transferred
          Files,         \* its files
          Existing,      \* files the destination has under the same names, with other content
          PartialFiles,  \* uploads are visible before they succeed, and stay when they fail
          Jobs,          \* calls of transfer, all of Root to the same destination
          TypeOf,        \* job -> "copy", "merge" or "move"
          MaySync,       \* jobs whose context may have NoTaskKey: the caller does it all
          MaxTasks,      \* bound: tasks ever created
          MaxRetried,    \* bound: tasks a user retries, each once
          NoJob

ASSUME TransferAssumption ==
    /\ Root \notin Files
    /\ Existing \subseteq Files
    /\ PartialFiles \in BOOLEAN
    /\ TypeOf \in [Jobs -> {"copy", "merge", "move"}]
    /\ MaySync \subseteq Jobs
    /\ MaxTasks \in Nat /\ MaxRetried \in Nat
    /\ NoJob \notin Jobs

Ids   == 1 .. MaxTasks
Nodes == Files \cup {Root}

\* A group is named after the directory its tasks write to: the destination, or
\* the copy of Root in it for a file whose task was retried by the user.
GroupOf(n) == IF n = Root THEN "top" ELSE "sub"
GroupIds == {"top", "sub"}

VARIABLES
    src,      \* file -> "whole", or "none" when it was removed
    srcDir,   \* Root exists
    dst,      \* file -> "none", "other" (of that name), "part" (broken), "whole"
    dstDir,   \* the destination has the directory
    task,     \* id -> task
    group,    \* id -> state and payloads of the group, NoGroup when there is none
    started,  \* jobs that were started
    retried,  \* tasks a user has retried
    trouble   \* a removal has failed (history)

vars == <<src, srcDir, dst, dstDir, task, group, started, retried, trouble>>
storages == <<src, srcDir, dst, dstDir>>
history  == <<started, retried, trouble>>

\* sync: run by the caller of transfer; todo: files it still has to handle; payloads:
\* sources the completion it runs has to remove; won: something has succeeded, and,
\* once it has ended, all of it; bad: a file could not be verified or removed.
NoTask == [pc |-> "none", job |-> NoJob, node |-> Root, group |-> "top", sync |-> FALSE,
           todo |-> {}, cur |-> Root, won |-> FALSE, bad |-> FALSE,
           payloads |-> <<>>]
NewTask(j, n, g, pc) == [NoTask EXCEPT !.job = j, !.node = n, !.group = g, !.pc = pc]
NoGroup == [pending |-> 0, success |-> FALSE, payloads |-> <<>>]

Init ==
    /\ src = [f \in Files |-> "whole"]
    /\ srcDir = TRUE
    /\ dst = [f \in Files |-> IF f \in Existing THEN "other" ELSE "none"]
    /\ dstDir = (Existing # {})
    /\ task = [t \in Ids |-> NoTask]
    /\ group = [g \in GroupIds |-> NoGroup]
    /\ started = {}
    /\ retried = {}
    /\ trouble = FALSE

NextId == Cardinality({t \in Ids : task[t].pc # "none"}) + 1
IsMove(t) == TypeOf[task[t].job] = "move"

-----------------------------------------------------------------------------
(* The coordinator                                                          *)

\* Joining does not count when the group already has tasks.
FaultyAddTask(x, ps) == [x EXCEPT !.pending = IF @ = 0 THEN 1 ELSE @, !.payloads = @ \o ps]
AddTask(x, ps) == [x EXCEPT !.pending = @ + 1, !.payloads = @ \o ps]

\* Only the task that opens the group can ask for a removal.
FaultyAppendPayload(x, ps) == IF x.pending > 1 THEN x ELSE [x EXCEPT !.payloads = @ \o ps]
AppendPayload(x, ps) == [x EXCEPT !.payloads = @ \o ps]

Removal(t) == IF IsMove(t) THEN <<task[t].node>> ELSE <<>>

\* Task t has ended; success: of any part of it.  After the last task of the group
\* the completion runs in the goroutine of t, when any of its tasks succeeded.
Done(t, success, ps) ==
    LET x     == AppendPayload(group[task[t].group], ps)
        any   == x.success \/ success
        ended == [task[t] EXCEPT !.pc = "ended", !.won = (task[t].pc = "succeeded")]
        rest  == [x EXCEPT !.pending = @ - 1, !.success = any]
        over  == [ended EXCEPT !.pc = "complete", !.payloads = x.payloads]
    IN  /\ task' = [task EXCEPT ![t] = IF x.pending = 1 /\ any THEN over ELSE ended]
        /\ group' = [group EXCEPT ![task[t].group] = CASE x.pending = 0 -> x
                                                       [] x.pending = 1 -> NoGroup
                                                       [] OTHER         -> rest]

-----------------------------------------------------------------------------
(* Tasks                                                                    *)

\* transfer: the task joins its group before it is handed to its manager.
Start(j, sync) ==
    /\ j \notin started
    /\ srcDir
    /\ NextId \in Ids
    /\ started' = started \cup {j}
    /\ task' = [task EXCEPT ![NextId] = [NewTask(j, Root, "top", "pending") EXCEPT !.sync = sync]]
    /\ group' = [group EXCEPT !["top"] =
           AppendPayload(AddTask(@, <<>>), IF TypeOf[j] = "move" /\ ~sync THEN <<Root>> ELSE <<>>)]
    /\ UNCHANGED <<storages, retried, trouble>>

\* The files to transfer; a merge skips those the destination has.
ToTransfer(t) == {f \in Files : /\ src[f] # "none"
                                /\ TypeOf[task[t].job] = "merge" => dst[f] = "none"}

\* Get finds a directory and lists it.
RunDir(t) ==
    /\ task[t].pc = "pending" /\ task[t].node = Root
    /\ srcDir
    /\ task' = [task EXCEPT ![t].pc = "adding", ![t].todo = ToTransfer(t)]
    /\ UNCHANGED <<storages, group, history>>

\* The next file of the directory becomes a task of the same group.
AddNext(t) ==
    /\ task[t].pc = "adding" /\ ~task[t].sync
    /\ NextId \in Ids
    /\ \E f \in task[t].todo :
          /\ task' = [task EXCEPT ![t].todo = @ \ {f},
                                  ![NextId] = NewTask(task[t].job, f, task[t].group, "pending")]
          /\ group' = [group EXCEPT ![task[t].group] = AddTask(@, <<>>)]
    /\ UNCHANGED <<storages, history>>

Listed(t) ==
    /\ task[t].pc = "adding" /\ task[t].todo = {}
    /\ task' = [task EXCEPT ![t].pc = "succeeded", ![t].won = TRUE]
    /\ UNCHANGED <<storages, group, history>>

\* Get, List, Link or MakeDir failed, or the task was canceled.
Broken(t) ==
    /\ task[t].pc \in {"pending", "adding"}
    /\ task' = [task EXCEPT ![t].pc = "errored", ![t].todo = {}]
    /\ UNCHANGED <<storages, group, history>>

\* A file is uploaded by its own task, or in place by the caller.
UploadStart(t, f) ==
    /\ \/ task[t].pc = "pending" /\ task[t].node = f
       \/ task[t].pc = "adding" /\ task[t].sync /\ f \in task[t].todo
    /\ src[f] # "none"
    /\ task' = [task EXCEPT ![t].pc = "uploading", ![t].cur = f, ![t].todo = @ \ {f}]
    /\ dstDir' = TRUE
    /\ dst' = IF PartialFiles THEN [dst EXCEPT ![f] = "part"] ELSE dst
    /\ UNCHANGED <<src, srcDir, group, history>>

UploadOK(t) ==
    /\ task[t].pc = "uploading"
    /\ dst' = [dst EXCEPT ![task[t].cur] = "whole"]
    /\ task' = [task EXCEPT ![t].pc = IF task[t].sync THEN "adding" ELSE "succeeded",
                            ![t].cur = Root, ![t].won = TRUE]
    /\ UNCHANGED <<src, srcDir, dstDir, group, history>>

\* A canceled upload is cleaned up, another failure need not be.
UploadFailed(t) ==
    /\ task[t].pc = "uploading"
    /\ dst' \in IF PartialFiles THEN {dst, [dst EXCEPT ![task[t].cur] = "none"]} ELSE {dst}
    /\ task' = [task EXCEPT ![t].pc = "errored", ![t].cur = Root, ![t].todo = {}]
    /\ UNCHANGED <<src, srcDir, dstDir, group, history>>

\* The library runs the task again, any number of times; it stays in its group.
RunAgain(t) ==
    /\ task[t].pc = "errored" /\ ~task[t].sync
    /\ task' = [task EXCEPT ![t].pc = "pending"]
    /\ UNCHANGED <<storages, group, history>>

\* OnSucceeded and OnFailed, and the end of transfer for a synchronous job.
Finish(t) ==
    /\ task[t].pc \in {"succeeded", "errored"}
    /\ Done(t, IF task[t].sync THEN task[t].won ELSE task[t].pc = "succeeded",
               IF task[t].sync THEN Removal(t) ELSE <<>>)
    /\ UNCHANGED <<storages, history>>

\* SetRetry, called when the user retries a failed task: it joins a group again.
UserRetries(t) ==
    /\ task[t].pc = "ended" /\ ~task[t].won /\ ~task[t].sync
    /\ t \notin retried /\ Cardinality(retried) < MaxRetried
    /\ retried' = retried \cup {t}
    /\ task' = [task EXCEPT ![t] = NewTask(@.job, @.node, GroupOf(@.node), "pending")]
    /\ group' = [group EXCEPT ![GroupOf(task[t].node)] = AddTask(@, Removal(t))]
    /\ UNCHANGED <<storages, started, trouble>>

-----------------------------------------------------------------------------
(* HookAndRemove: the payloads one after the other, verifyAndRemove each    *)

\* The loop goes on in the middle of the payload before.
FaultyNextPayload(t) == [task EXCEPT ![t].payloads = Tail(@), ![t].bad = FALSE, ![t].todo = {}]
NextPayload(t) == [task EXCEPT ![t].pc = "complete", ![t].payloads = Tail(@), ![t].bad = FALSE,
                               ![t].todo = {}]

CompletionEnds(t) ==
    /\ task[t].pc = "complete" /\ task[t].payloads = <<>>
    /\ task' = [task EXCEPT ![t].pc = "ended"]
    /\ UNCHANGED <<storages, group, history>>

\* A directory: Get must find it on both sides, and its files come first.
CompleteDir(t) ==
    /\ task[t].pc = "complete" /\ task[t].payloads # <<>> /\ Head(task[t].payloads) = Root
    /\ \/ /\ srcDir /\ dstDir
          /\ task' = [task EXCEPT ![t].pc = "verify", ![t].todo = {f \in Files : src[f] # "none"}]
          /\ trouble' = trouble
       \/ /\ task' = NextPayload(t)
          /\ trouble' = (trouble \/ (srcDir /\ dstDir))
    /\ UNCHANGED <<storages, group, started, retried>>

CompleteFile(t) ==
    /\ task[t].pc = "complete" /\ task[t].payloads # <<>> /\ Head(task[t].payloads) # Root
    /\ task' = [task EXCEPT ![t].pc = "verify", ![t].todo = {Head(task[t].payloads)}]
    /\ UNCHANGED <<storages, group, history>>

\* The destination is not looked at.
FaultyVerified(f) == src[f] # "none"
\* Both sides have an object of that name.
Verified(f) == src[f] # "none" /\ dst[f] # "none"

\* Get may fail as well.
Verify(t) ==
    /\ task[t].pc = "verify"
    /\ \E f \in task[t].todo :
          \/ /\ Verified(f)
             /\ task' = [task EXCEPT ![t].pc = "remove", ![t].cur = f, ![t].todo = @ \ {f}]
             /\ trouble' = trouble
          \/ /\ task' = [task EXCEPT ![t].bad = TRUE, ![t].todo = @ \ {f}]
             /\ trouble' = (trouble \/ Verified(f))
    /\ UNCHANGED <<storages, group, started, retried>>

RemoveFile(t) ==
    /\ task[t].pc = "remove"
    /\ \/ /\ src' = [src EXCEPT ![task[t].cur] = "none"]
          /\ task' = [task EXCEPT ![t].pc = "verify", ![t].cur = Root]
          /\ trouble' = trouble
       \/ /\ src' = src
          /\ task' = [task EXCEPT ![t].pc = "verify", ![t].cur = Root, ![t].bad = TRUE]
          /\ trouble' = TRUE
    /\ UNCHANGED <<srcDir, dst, dstDir, group, started, retried>>

\* The directory goes with everything in it, unless a file of it is still there
\* for a reason.
RemoveDir(t) ==
    /\ task[t].pc = "verify" /\ task[t].todo = {} /\ Head(task[t].payloads) = Root
    /\ ~task[t].bad
    /\ \/ /\ srcDir' = FALSE
          /\ src' = [f \in Files |-> "none"]
          /\ trouble' = trouble
       \/ /\ trouble' = TRUE
          /\ UNCHANGED <<src, srcDir>>
    /\ task' = NextPayload(t)
    /\ UNCHANGED <<dst, dstDir, group, started, retried>>

LeaveSource(t) ==
    /\ task[t].pc = "verify" /\ task[t].todo = {}
    /\ Head(task[t].payloads) = Root => task[t].bad
    /\ task' = NextPayload(t)
    /\ UNCHANGED <<storages, group, history>>

Completion(t) == \/ CompletionEnds(t) \/ CompleteDir(t) \/ CompleteFile(t) \/ Verify(t)
                 \/ RemoveFile(t) \/ RemoveDir(t) \/ LeaveSource(t)

Next ==
    \/ \E j \in Jobs, sync \in BOOLEAN : (sync => j \in MaySync) /\ Start(j, sync)
    \/ \E t \in Ids : \/ RunDir(t) \/ AddNext(t) \/ Listed(t) \/ Broken(t)
                      \/ \E f \in Files : UploadStart(t, f)
                      \/ UploadOK(t) \/ UploadFailed(t) \/ RunAgain(t) \/ Finish(t)
                      \/ UserRetries(t) \/ Completion(t)

Spec == Init /\ [][Next]_vars

-----------------------------------------------------------------------------
(* Properties                                                               *)

Live(t) == task[t].pc \in {"pending", "adding", "uploading", "succeeded", "errored"}
Completing(t) == task[t].pc \in {"complete", "verify", "remove"}

Tasks  == [pc : {"none", "pending", "adding", "uploading", "succeeded", "errored",
                 "complete", "verify", "remove", "ended"},
           job : Jobs \cup {NoJob}, node : Nodes, group : GroupIds, sync : BOOLEAN,
           todo : SUBSET Files, cur : Nodes, won : BOOLEAN, bad : BOOLEAN,
           payloads : Seq(Nodes)]
Groups == [pending : Nat, success : BOOLEAN, payloads : Seq(Nodes)]

\* Storages, tasks and groups hold what the code can put there; a completion that
\* verifies has a payload, and one that removes has a file to remove.
TypeOK ==
    /\ src \in [Files -> {"none", "whole"}]
    /\ srcDir \in BOOLEAN
    /\ dst \in [Files -> {"none", "other", "part", "whole"}]
    /\ dstDir \in BOOLEAN
    /\ task \in [Ids -> Tasks]
    /\ group \in [GroupIds -> Groups]
    /\ \A t \in Ids : /\ task[t].pc = "remove" => task[t].cur \in Files
                      /\ task[t].pc \in {"verify", "remove"} => task[t].payloads # <<>>
    /\ started \subseteq Jobs
    /\ retried \subseteq Ids
    /\ trouble \in BOOLEAN

\* The group counts its unfinished tasks exactly, although directories add
\* tasks while others end, fail, are run again or are retried: the completion,
\* which deletes, starts when the last one has ended and not earlier, and a
\* group that is over keeps nothing for the next one of its name.
GroupCountsTasks ==
    \A g \in GroupIds :
        /\ group[g].pending = Cardinality({t \in Ids : Live(t) /\ task[t].group = g})
        /\ group[g].pending = 0 => group[g] = NoGroup

\* No file is lost: what is gone from the source is whole at the destination.
NothingLost == \A f \in Files : src[f] = "whole" \/ dst[f] = "whole"

\* A move whose tasks all succeeded has removed its source once nothing runs any
\* more, whatever other transfers shared its group: the request to remove is not
\* lost between them.
MovedIsGone ==
    \A j \in started :
        (/\ TypeOf[j] = "move"
         /\ \A t \in Ids : ~Live(t) /\ ~Completing(t)
         /\ \A t \in Ids : task[t].job = j => task[t].won
         /\ retried = {} /\ ~trouble)
        => ~srcDir
=============================================================================
