------------------------ MODULE TransferGroupProofs ------------------------
(* Proofs about TransferGroup: its types, and that a move loses no file      *)
(* when a failed upload leaves nothing behind.                               *)
EXTENDS TransferGroup, TLAPS

USE DEF Ids, Nodes, GroupIds

LEMMA SeqTypes == <<>> \in Seq(Nodes) /\ \A n \in Nodes : <<n>> \in Seq(Nodes)
OBVIOUS

LEMMA NewTaskType ==
    ASSUME NEW j \in Jobs \cup {NoJob}, NEW n \in Nodes, NEW g \in GroupIds
    PROVE  /\ NoTask \in Tasks
           /\ NewTask(j, n, g, "pending") \in Tasks
           /\ NewTask(j, n, g, "pending").pc = "pending"
<1>1. <<>> \in Seq(Nodes) OBVIOUS
<1>2. NoTask \in Tasks BY <1>1 DEF NoTask, Tasks
<1>3. NewTask(j, n, g, "pending") \in Tasks BY <1>2 DEF NewTask, Tasks
<1>4. NewTask(j, n, g, "pending").pc = "pending" BY <1>2 DEF NewTask, Tasks
<1>5. QED BY <1>2, <1>3, <1>4

LEMMA GroupTypes ==
    ASSUME NEW x \in Groups, NEW ps \in Seq(Nodes)
    PROVE  /\ NoGroup \in Groups
           /\ AddTask(x, ps) \in Groups
           /\ AppendPayload(x, ps) \in Groups
<1>1. <<>> \in Seq(Nodes) OBVIOUS
<1>2. x.payloads \o ps \in Seq(Nodes) BY DEF Groups
<1>3. NoGroup \in Groups BY <1>1 DEF NoGroup, Groups
<1>4. AppendPayload(x, ps) \in Groups BY <1>2 DEF AppendPayload, Groups
<1>5. x.pending + 1 \in Nat BY DEF Groups
<1>6. AddTask(x, ps) = [x EXCEPT !.pending = x.pending + 1, !.payloads = x.payloads \o ps]
  BY DEF AddTask
<1>7. AddTask(x, ps) \in Groups BY <1>2, <1>5, <1>6 DEF Groups
<1>8. QED BY <1>3, <1>4, <1>7

LEMMA InitType == Init => TypeOK
<1>1. <<>> \in Seq(Nodes) OBVIOUS
<1>2. NoGroup \in Groups BY <1>1 DEF NoGroup, Groups
<1>3. NoTask \in Tasks /\ NoTask.pc = "none" BY <1>1 DEF NoTask, Tasks
<1>4. QED BY <1>2, <1>3 DEF Init, TypeOK

TasksOK(new) ==
    /\ new \in [Ids -> Tasks]
    /\ \A u \in Ids : /\ new[u].pc = "remove" => new[u].cur \in Files
                      /\ new[u].pc \in {"verify", "remove"} => new[u].payloads # <<>>

(* An update of one task that keeps the type of the tasks.                   *)
LEMMA OneTask ==
    ASSUME TypeOK, NEW t \in Ids, NEW r \in Tasks, NEW new,
           new = [task EXCEPT ![t] = r],
           r.pc = "remove" => r.cur \in Files,
           r.pc \in {"verify", "remove"} => r.payloads # <<>>
    PROVE  TasksOK(new)
<1>1. task \in [Ids -> Tasks] BY DEF TypeOK
<1>2. new \in [Ids -> Tasks] BY <1>1
<1>3. \A v \in Ids : /\ task[v].pc = "remove" => task[v].cur \in Files
                     /\ task[v].pc \in {"verify", "remove"} => task[v].payloads # <<>>
  BY DEF TypeOK
<1>4. ASSUME NEW u \in Ids
      PROVE  /\ new[u].pc = "remove" => new[u].cur \in Files
             /\ new[u].pc \in {"verify", "remove"} => new[u].payloads # <<>>
  <2>1. CASE u = t
    <3>1. new[u] = r BY <1>1, <2>1
    <3>2. QED BY <3>1
  <2>2. CASE u # t
    <3>1. new[u] = task[u] BY <1>1, <2>2
    <3>2. QED BY <3>1, <1>3
  <2>3. QED BY <2>1, <2>2
<1>5. QED BY <1>2, <1>4 DEF TasksOK

LEMMA DoneType ==
    ASSUME TypeOK, NEW t \in Ids, NEW success \in BOOLEAN, NEW ps \in Seq(Nodes),
           Done(t, success, ps)
    PROVE  TasksOK(task') /\ group' \in [GroupIds -> Groups]
<1> DEFINE g     == task[t].group
           x     == AppendPayload(group[g], ps)
           any   == x.success \/ success
           ended == [task[t] EXCEPT !.pc = "ended", !.won = (task[t].pc = "succeeded")]
           rest  == [x EXCEPT !.pending = @ - 1, !.success = any]
           over  == [ended EXCEPT !.pc = "complete", !.payloads = x.payloads]
<1>1. g \in GroupIds /\ group[g] \in Groups /\ task[t] \in Tasks BY DEF TypeOK, Tasks
<1>2. x \in Groups /\ NoGroup \in Groups BY <1>1, GroupTypes
<1>3. ended \in Tasks /\ ended.pc = "ended"
  <2>1. (task[t].pc = "succeeded") \in BOOLEAN OBVIOUS
  <2>2. ended \in Tasks BY <1>1, <2>1 DEF Tasks
  <2>3. ended.pc = "ended" BY <1>1 DEF Tasks
  <2>4. QED BY <2>2, <2>3
<1> HIDE DEF ended
<1>4. over \in Tasks /\ over.pc = "complete" BY <1>2, <1>3 DEF Tasks, Groups
<1>5. x.pending \in Nat /\ any \in BOOLEAN BY <1>2 DEF Groups
<1>6. x.pending # 0 => rest \in Groups
  <2>1. x.pending # 0 => x.pending - 1 \in Nat BY <1>5
  <2>2. QED BY <1>2, <1>5, <2>1 DEF Groups
<1>7. DEFINE r == IF x.pending = 1 /\ any THEN over ELSE ended
             y == CASE x.pending = 0 -> x [] x.pending = 1 -> NoGroup [] OTHER -> rest
<1>8. task' = [task EXCEPT ![t] = r] /\ group' = [group EXCEPT ![g] = y] BY DEF Done, ended
<1>9. r \in Tasks /\ r.pc \in {"ended", "complete"} BY <1>3, <1>4
<1>10. y \in Groups
  <2>1. CASE x.pending = 0 BY <1>2, <2>1
  <2>2. CASE x.pending = 1 BY <1>2, <2>2
  <2>3. CASE x.pending # 0 /\ x.pending # 1 BY <1>6, <2>3
  <2>4. QED BY <2>1, <2>2, <2>3
<1> HIDE DEF r, y, g
<1>11. group' \in [GroupIds -> Groups] BY <1>1, <1>8, <1>10 DEF TypeOK
<1>12. QED BY <1>8, <1>9, <1>11, OneTask

(* The types are kept by every step.                                         *)
LEMMA StepType == TypeOK /\ [Next]_vars => TypeOK'
<1> SUFFICES ASSUME TypeOK, [Next]_vars PROVE TypeOK'
  OBVIOUS
<1> USE TransferAssumption
<1>0. /\ task \in [Ids -> Tasks] /\ group \in [GroupIds -> Groups]
      /\ \A t \in Ids : task[t] \in Tasks
  BY DEF TypeOK
<1>1. ASSUME NEW j \in Jobs, NEW sync \in BOOLEAN, Start(j, sync) PROVE TypeOK'
  <2> DEFINE n  == NewTask(j, Root, "top", "pending")
             r  == [n EXCEPT !.sync = sync]
             ps == IF TypeOf[j] = "move" /\ ~sync THEN <<Root>> ELSE <<>>
             x  == AddTask(group["top"], <<>>)
             y  == AppendPayload(x, ps)
  <2>1. NextId \in Ids /\ task' = [task EXCEPT ![NextId] = r] BY <1>1 DEF Start
  <2>2. n \in Tasks /\ n.pc = "pending" BY NewTaskType
  <2> HIDE DEF n
  <2>3. r \in Tasks /\ r.pc = "pending" BY <2>2 DEF Tasks
  <2>4. ps \in Seq(Nodes) /\ <<>> \in Seq(Nodes) BY SeqTypes
  <2>5. group' = [group EXCEPT !["top"] = y] BY <1>1 DEF Start
  <2> HIDE DEF r, ps
  <2>6. group["top"] \in Groups BY <1>0
  <2>7. x \in Groups BY <2>4, <2>6, GroupTypes
  <2> HIDE DEF x
  <2>8. y \in Groups BY <2>4, <2>7, GroupTypes
  <2> HIDE DEF y
  <2>9. group' \in [GroupIds -> Groups] BY <1>0, <2>5, <2>8
  <2>10. TasksOK(task') BY <2>1, <2>3, OneTask
  <2>11. QED BY <1>1, <2>9, <2>10 DEF Start, TypeOK, storages, TasksOK
<1>2. ASSUME NEW t \in Ids, RunDir(t) PROVE TypeOK'
  <2> DEFINE r == [task[t] EXCEPT !.pc = "adding", !.todo = ToTransfer(t)]
  <2>1. task' = [task EXCEPT ![t] = r] BY <1>2, <1>0 DEF RunDir, ToTransfer
  <2>2. task[t] \in Tasks BY <1>0
  <2>3. ToTransfer(t) \in SUBSET Files BY DEF ToTransfer
  <2>4. r \in Tasks /\ r.pc = "adding" BY <2>2, <2>3 DEF Tasks
  <2> HIDE DEF r
  <2>5. TasksOK(task') BY <2>1, <2>4, OneTask
  <2>6. QED BY <1>2, <2>5 DEF RunDir, TypeOK, storages, history, TasksOK
<1>3. ASSUME NEW t \in Ids, AddNext(t) PROVE TypeOK'
  <2>1. PICK f \in task[t].todo :
           /\ task' = [task EXCEPT ![t].todo = @ \ {f},
                                   ![NextId] = NewTask(task[t].job, f, task[t].group, "pending")]
           /\ group' = [group EXCEPT ![task[t].group] = AddTask(@, <<>>)]
    BY <1>3 DEF AddNext
  <2> DEFINE r    == [task[t] EXCEPT !.todo = @ \ {f}]
             n    == NewTask(task[t].job, f, task[t].group, "pending")
             mid  == [task EXCEPT ![t] = r]
             g    == task[t].group
             y    == AddTask(group[g], <<>>)
  <2>2. task[t] \in Tasks /\ task[t].pc = "adding" /\ NextId \in Ids BY <1>0, <1>3 DEF AddNext
  <2>3. f \in Files /\ g \in GroupIds /\ task[t].job \in Jobs \cup {NoJob} BY <2>2 DEF Tasks
  <2>4. n \in Tasks /\ n.pc = "pending" BY <2>3, NewTaskType
  <2>5. r \in Tasks /\ r.pc = "adding" BY <2>2 DEF Tasks
  <2>6. task' = [mid EXCEPT ![NextId] = n] BY <2>1, <1>0
  <2>7. group[g] \in Groups /\ <<>> \in Seq(Nodes) BY <1>0, <2>3
  <2>8. y \in Groups BY <2>7, GroupTypes
  <2>9. group' = [group EXCEPT ![g] = y] BY <2>1
  <2> HIDE DEF r, n, y, g
  <2>10. mid \in [Ids -> Tasks] BY <1>0, <2>5
  <2>11. task' \in [Ids -> Tasks] BY <2>2, <2>4, <2>6, <2>10
  <2>12. ASSUME NEW u \in Ids
         PROVE  /\ task'[u].pc = "remove" => task'[u].cur \in Files
                /\ task'[u].pc \in {"verify", "remove"} => task'[u].payloads # <<>>
    <3>1. task'[u] = n \/ task'[u] = r \/ task'[u] = task[u] BY <1>0, <2>2, <2>6
    <3>2. /\ task[u].pc = "remove" => task[u].cur \in Files
          /\ task[u].pc \in {"verify", "remove"} => task[u].payloads # <<>>
      BY DEF TypeOK
    <3>3. QED BY <3>1, <3>2, <2>4, <2>5
  <2>13. group' \in [GroupIds -> Groups] BY <1>0, <2>3, <2>8, <2>9
  <2>14. QED BY <1>3, <2>11, <2>12, <2>13 DEF AddNext, TypeOK, TasksOK, storages, history
<1>4. ASSUME NEW t \in Ids, Listed(t) PROVE TypeOK'
  <2> DEFINE r == [task[t] EXCEPT !.pc = "succeeded", !.won = TRUE]
  <2>1. task' = [task EXCEPT ![t] = r] BY <1>4, <1>0 DEF Listed
  <2>2. task[t] \in Tasks BY <1>0
  <2>3. r \in Tasks /\ r.pc = "succeeded" BY <2>2 DEF Tasks
  <2> HIDE DEF r
  <2>4. TasksOK(task') BY <2>1, <2>3, OneTask
  <2>5. QED BY <1>4, <2>4 DEF Listed, TypeOK, storages, history, TasksOK
<1>5. ASSUME NEW t \in Ids, Broken(t) PROVE TypeOK'
  <2> DEFINE r == [task[t] EXCEPT !.pc = "errored", !.todo = {}]
  <2>1. task' = [task EXCEPT ![t] = r] BY <1>5, <1>0 DEF Broken
  <2>2. task[t] \in Tasks BY <1>0
  <2>3. r \in Tasks /\ r.pc = "errored" BY <2>2 DEF Tasks
  <2> HIDE DEF r
  <2>4. TasksOK(task') BY <2>1, <2>3, OneTask
  <2>5. QED BY <1>5, <2>4 DEF Broken, TypeOK, storages, history, TasksOK
<1>6. ASSUME NEW t \in Ids, NEW f \in Files, UploadStart(t, f) PROVE TypeOK'
  <2> DEFINE r == [task[t] EXCEPT !.pc = "uploading", !.cur = f, !.todo = @ \ {f}]
  <2>1. task' = [task EXCEPT ![t] = r] BY <1>6, <1>0 DEF UploadStart
  <2>2. task[t] \in Tasks BY <1>0
  <2>3. r \in Tasks /\ r.pc = "uploading" BY <2>2 DEF Tasks
  <2> HIDE DEF r
  <2>4. TasksOK(task') BY <2>1, <2>3, OneTask
  <2>5. QED BY <1>6, <2>4 DEF UploadStart, TypeOK, storages, history, TasksOK
<1>7. ASSUME NEW t \in Ids, UploadOK(t) PROVE TypeOK'
  <2> DEFINE r == [task[t] EXCEPT !.pc = IF task[t].sync THEN "adding" ELSE "succeeded",
                                 !.cur = Root, !.won = TRUE]
  <2>1. task' = [task EXCEPT ![t] = r] BY <1>7, <1>0 DEF UploadOK
  <2>2. task[t] \in Tasks BY <1>0
  <2>3. r \in Tasks /\ r.pc \in {"adding", "succeeded"} BY <2>2 DEF Tasks
  <2> HIDE DEF r
  <2>4. TasksOK(task') BY <2>1, <2>3, OneTask
  <2>5. QED BY <1>7, <2>4 DEF UploadOK, TypeOK, storages, history, TasksOK
<1>8. ASSUME NEW t \in Ids, UploadFailed(t) PROVE TypeOK'
  <2> DEFINE r == [task[t] EXCEPT !.pc = "errored", !.cur = Root, !.todo = {}]
  <2>1. task' = [task EXCEPT ![t] = r] BY <1>8, <1>0 DEF UploadFailed
  <2>2. task[t] \in Tasks BY <1>0
  <2>3. r \in Tasks /\ r.pc = "errored" BY <2>2 DEF Tasks
  <2> HIDE DEF r
  <2>4. TasksOK(task') BY <2>1, <2>3, OneTask
  <2>5. QED BY <1>8, <2>4 DEF UploadFailed, TypeOK, storages, history, TasksOK
<1>9. ASSUME NEW t \in Ids, RunAgain(t) PROVE TypeOK'
  <2> DEFINE r == [task[t] EXCEPT !.pc = "pending"]
  <2>1. task' = [task EXCEPT ![t] = r] BY <1>9, <1>0 DEF RunAgain
  <2>2. task[t] \in Tasks BY <1>0
  <2>3. r \in Tasks /\ r.pc = "pending" BY <2>2 DEF Tasks
  <2> HIDE DEF r
  <2>4. TasksOK(task') BY <2>1, <2>3, OneTask
  <2>5. QED BY <1>9, <2>4 DEF RunAgain, TypeOK, storages, history, TasksOK
<1>10. ASSUME NEW t \in Ids, Finish(t) PROVE TypeOK'
  <2> DEFINE success == IF task[t].sync THEN task[t].won ELSE task[t].pc = "succeeded"
             ps == IF task[t].sync THEN Removal(t) ELSE <<>>
  <2>1. success \in BOOLEAN BY <1>0 DEF Tasks
  <2>2. ps \in Seq(Nodes)
    <3>1. task[t].node \in Nodes BY <1>0 DEF Tasks
    <3>2. QED BY <3>1, SeqTypes DEF Removal
  <2>3. Done(t, success, ps) BY <1>10 DEF Finish
  <2> HIDE DEF success, ps
  <2>4. TasksOK(task') /\ group' \in [GroupIds -> Groups]
    BY <2>1, <2>2, <2>3, DoneType
  <2>5. QED BY <1>10, <2>4 DEF Finish, TypeOK, TasksOK, storages, history
<1>11. ASSUME NEW t \in Ids, UserRetries(t) PROVE TypeOK'
  <2> DEFINE k == task[t].node
             r == NewTask(task[t].job, k, GroupOf(k), "pending")
             y == AddTask(group[GroupOf(k)], Removal(t))
  <2>1. k \in Nodes /\ task[t].job \in Jobs \cup {NoJob} BY <1>0 DEF Tasks
  <2>2. GroupOf(k) \in GroupIds BY DEF GroupOf
  <2>3. task' = [task EXCEPT ![t] = r] /\ group' = [group EXCEPT ![GroupOf(k)] = y]
    BY <1>11, <1>0 DEF UserRetries
  <2>4. r \in Tasks /\ r.pc = "pending" BY <2>1, <2>2, NewTaskType
  <2>5. Removal(t) \in Seq(Nodes) BY <2>1, SeqTypes DEF Removal
  <2>6. y \in Groups BY <1>0, <2>2, <2>5, GroupTypes
  <2> HIDE DEF r, y, k
  <2>7. group' \in [GroupIds -> Groups] BY <1>0, <2>2, <2>3, <2>6
  <2>8. TasksOK(task') BY <2>3, <2>4, OneTask
  <2>9. QED BY <1>11, <2>7, <2>8 DEF UserRetries, TypeOK, storages, TasksOK
<1>12. ASSUME NEW t \in Ids, CompletionEnds(t) PROVE TypeOK'
  <2> DEFINE r == [task[t] EXCEPT !.pc = "ended"]
  <2>1. task' = [task EXCEPT ![t] = r] BY <1>12, <1>0 DEF CompletionEnds
  <2>2. task[t] \in Tasks BY <1>0
  <2>3. r \in Tasks /\ r.pc = "ended" BY <2>2 DEF Tasks
  <2> HIDE DEF r
  <2>4. TasksOK(task') BY <2>1, <2>3, OneTask
  <2>5. QED BY <1>12, <2>4 DEF CompletionEnds, TypeOK, storages, history, TasksOK
<1>13. ASSUME NEW t \in Ids, task[t].payloads # <<>>
       PROVE  LET r == [task[t] EXCEPT !.pc = "complete", !.payloads = Tail(@), !.bad = FALSE,
                                       !.todo = {}]
              IN  /\ NextPayload(t) = [task EXCEPT ![t] = r]
                  /\ r \in Tasks /\ r.pc = "complete"
  <2>1. Tail(task[t].payloads) \in Seq(Nodes) BY <1>0, <1>13 DEF Tasks
  <2>2. task[t] \in Tasks BY <1>0
  <2> DEFINE r == [task[t] EXCEPT !.pc = "complete", !.payloads = Tail(@), !.bad = FALSE,
                                  !.todo = {}]
  <2>3. r \in Tasks BY <2>1, <2>2 DEF Tasks
  <2>4. r.pc = "complete" BY <2>2 DEF Tasks
  <2>5. NextPayload(t) = [task EXCEPT ![t] = r] BY <1>0 DEF NextPayload
  <2>6. QED BY <2>3, <2>4, <2>5
<1>14. ASSUME NEW t \in Ids, CompleteDir(t) PROVE TypeOK'
  <2>1. CASE /\ task' = [task EXCEPT ![t].pc = "verify", ![t].todo = {f \in Files : src[f] # "none"}]
             /\ trouble' = trouble
    <3> DEFINE r == [task[t] EXCEPT !.pc = "verify", !.todo = {f \in Files : src[f] # "none"}]
    <3>1. task' = [task EXCEPT ![t] = r] BY <1>0, <2>1
    <3>2. task[t] \in Tasks /\ task[t].payloads # <<>> BY <1>14, <1>0 DEF CompleteDir
    <3>3. r \in Tasks /\ r.pc = "verify" /\ r.payloads # <<>> BY <3>2 DEF Tasks
    <3> HIDE DEF r
    <3>4. TasksOK(task') BY <3>1, <3>3, OneTask
    <3>5. QED BY <1>14, <2>1, <3>4 DEF CompleteDir, TypeOK, storages, TasksOK
  <2>2. CASE /\ task' = NextPayload(t)
             /\ trouble' = (trouble \/ (srcDir /\ dstDir))
    <3> DEFINE r == [task[t] EXCEPT !.pc = "complete", !.payloads = Tail(@), !.bad = FALSE,
                                    !.todo = {}]
    <3>1. task' = [task EXCEPT ![t] = r] /\ r \in Tasks /\ r.pc = "complete"
      BY <1>13, <1>14, <2>2 DEF CompleteDir
    <3> HIDE DEF r
    <3>2. TasksOK(task') BY <3>1, OneTask
    <3>3. trouble' \in BOOLEAN BY <2>2, Zenon DEF TypeOK
    <3>4. QED BY <1>14, <3>2, <3>3 DEF CompleteDir, TypeOK, storages, TasksOK
  <2>3. QED BY <1>14, <2>1, <2>2 DEF CompleteDir
<1>15. ASSUME NEW t \in Ids, CompleteFile(t) PROVE TypeOK'
  <2> DEFINE r == [task[t] EXCEPT !.pc = "verify", !.todo = {Head(task[t].payloads)}]
  <2>1. task' = [task EXCEPT ![t] = r] BY <1>15, <1>0 DEF CompleteFile
  <2>2. Head(task[t].payloads) \in Nodes BY <1>15, <1>0 DEF CompleteFile, Tasks
  <2>3. {Head(task[t].payloads)} \in SUBSET Files BY <1>15, <2>2 DEF CompleteFile
  <2>4. task[t] \in Tasks /\ task[t].payloads # <<>> BY <1>15, <1>0 DEF CompleteFile
  <2>5. r \in Tasks /\ r.pc = "verify" /\ r.payloads # <<>> BY <2>3, <2>4 DEF Tasks
  <2> HIDE DEF r
  <2>6. TasksOK(task') BY <2>1, <2>5, OneTask
  <2>7. QED BY <1>15, <2>6 DEF CompleteFile, TypeOK, storages, history, TasksOK
<1>16. ASSUME NEW t \in Ids, Verify(t) PROVE TypeOK'
  <2>1. task[t].payloads # <<>> BY <1>16 DEF Verify, TypeOK
  <2>2. PICK f \in task[t].todo :
           \/ /\ task' = [task EXCEPT ![t].pc = "remove", ![t].cur = f, ![t].todo = @ \ {f}]
              /\ trouble' = trouble
           \/ /\ task' = [task EXCEPT ![t].bad = TRUE, ![t].todo = @ \ {f}]
              /\ trouble' = (trouble \/ Verified(f))
    BY <1>16 DEF Verify
  <2>3. f \in Files BY <1>0 DEF Tasks
  <2>4. CASE /\ task' = [task EXCEPT ![t].pc = "remove", ![t].cur = f, ![t].todo = @ \ {f}]
             /\ trouble' = trouble
    <3> DEFINE r == [task[t] EXCEPT !.pc = "remove", !.cur = f, !.todo = @ \ {f}]
    <3>1. task' = [task EXCEPT ![t] = r] BY <1>0, <2>4
    <3>2. task[t] \in Tasks BY <1>0
    <3>3. r \in Tasks BY <2>3, <3>2 DEF Tasks
    <3>4. r.pc = "remove" /\ r.cur \in Files /\ r.payloads # <<>> BY <2>1, <2>3, <3>2 DEF Tasks
    <3> HIDE DEF r
    <3>5. TasksOK(task') BY <3>1, <3>3, <3>4, OneTask
    <3>6. QED BY <1>16, <2>4, <3>5 DEF Verify, TypeOK, storages, TasksOK
  <2>5. CASE /\ task' = [task EXCEPT ![t].bad = TRUE, ![t].todo = @ \ {f}]
             /\ trouble' = (trouble \/ Verified(f))
    <3> DEFINE r == [task[t] EXCEPT !.bad = TRUE, !.todo = @ \ {f}]
    <3>1. task' = [task EXCEPT ![t] = r] BY <1>0, <2>5
    <3>2. task[t] \in Tasks /\ task[t].pc = "verify" BY <1>0, <1>16 DEF Verify
    <3>3. r \in Tasks /\ r.pc = "verify" /\ r.payloads # <<>> BY <2>1, <3>2 DEF Tasks
    <3>4. trouble' \in BOOLEAN BY <2>5, Zenon DEF TypeOK, Verified
    <3> HIDE DEF r
    <3>5. TasksOK(task') BY <3>1, <3>3, OneTask
    <3>6. QED BY <1>16, <3>4, <3>5 DEF Verify, TypeOK, storages, TasksOK
  <2>6. QED BY <2>2, <2>4, <2>5
<1>17. ASSUME NEW t \in Ids, RemoveFile(t) PROVE TypeOK'
  <2>1. task[t].payloads # <<>> BY <1>17 DEF RemoveFile, TypeOK
  <2>2. /\ src' \in [Files -> {"none", "whole"}]
        /\ trouble' \in BOOLEAN
    BY <1>17 DEF RemoveFile, TypeOK
  <2>3. CASE task' = [task EXCEPT ![t].pc = "verify", ![t].cur = Root]
    <3> DEFINE r == [task[t] EXCEPT !.pc = "verify", !.cur = Root]
    <3>1. task' = [task EXCEPT ![t] = r] BY <1>0, <2>3
    <3>2. task[t] \in Tasks BY <1>0
    <3>3. r \in Tasks BY <3>2 DEF Tasks
    <3>4. r.pc = "verify" /\ r.payloads # <<>> BY <2>1, <3>2 DEF Tasks
    <3> HIDE DEF r
    <3>5. TasksOK(task') BY <3>1, <3>3, <3>4, OneTask
    <3>6. QED BY <1>17, <2>2, <3>5 DEF RemoveFile, TypeOK, TasksOK
  <2>4. CASE task' = [task EXCEPT ![t].pc = "verify", ![t].cur = Root, ![t].bad = TRUE]
    <3> DEFINE r == [task[t] EXCEPT !.pc = "verify", !.cur = Root, !.bad = TRUE]
    <3>1. task' = [task EXCEPT ![t] = r] BY <1>0, <2>4
    <3>2. task[t] \in Tasks BY <1>0
    <3>3. r \in Tasks BY <3>2 DEF Tasks
    <3>4. r.pc = "verify" /\ r.payloads # <<>> BY <2>1, <3>2 DEF Tasks
    <3> HIDE DEF r
    <3>5. TasksOK(task') BY <3>1, <3>3, <3>4, OneTask
    <3>6. QED BY <1>17, <2>2, <3>5 DEF RemoveFile, TypeOK, TasksOK
  <2>5. QED BY <1>17, <2>3, <2>4 DEF RemoveFile
<1>18. ASSUME NEW t \in Ids, RemoveDir(t) \/ LeaveSource(t) PROVE TypeOK'
  <2>1. task[t].payloads # <<>> BY <1>18 DEF RemoveDir, LeaveSource, TypeOK
  <2> DEFINE r == [task[t] EXCEPT !.pc = "complete", !.payloads = Tail(@), !.bad = FALSE,
                                  !.todo = {}]
  <2>2. task' = [task EXCEPT ![t] = r] /\ r \in Tasks /\ r.pc = "complete"
    BY <1>13, <1>18, <2>1 DEF RemoveDir, LeaveSource
  <2> HIDE DEF r
  <2>3. TasksOK(task') BY <2>2, OneTask
  <2>4. QED BY <1>18, <2>3 DEF RemoveDir, LeaveSource, TypeOK, storages, history, TasksOK
<1>19. CASE UNCHANGED vars BY <1>19 DEF vars, TypeOK
<1>20. QED
  BY <1>1, <1>2, <1>3, <1>4, <1>5, <1>6, <1>7, <1>8, <1>9, <1>10, <1>11, <1>12, <1>14, <1>15,
     <1>16, <1>17, <1>18, <1>19
     DEF Next, Completion

\* Whatever the tasks do, storages, tasks and groups keep their types.
THEOREM TransferTypeOK == Spec => []TypeOK
<1>1. QED BY InitType, StepType, PTL DEF Spec

-----------------------------------------------------------------------------
(* No file is lost, when an upload that fails leaves nothing at the          *)
(* destination and no other file of that name was there before: then a name  *)
(* at the destination is the whole file, a file to be removed was verified,  *)
(* and a directory whose verification went well so far has at the source     *)
(* only the files it still has to look at.                                   *)

OnlyWhole == \A f \in Files : dst[f] \in {"none", "whole"}

Removable == \A t \in Ids : task[t].pc = "remove" => dst[task[t].cur] = "whole"

Looked(t) == \A f \in Files : \/ src[f] = "none"
                              \/ f \in task[t].todo
                              \/ task[t].pc = "remove" /\ task[t].cur = f
AllLookedAt ==
    \A t \in Ids : (/\ task[t].pc \in {"verify", "remove"} /\ ~task[t].bad
                   /\ Head(task[t].payloads) = Root) => Looked(t)

LossInv == OnlyWhole /\ Removable /\ AllLookedAt /\ NothingLost

LEMMA LossInit == Existing = {} /\ Init => LossInv
BY DEF Init, LossInv, OnlyWhole, Removable, AllLookedAt, NothingLost, NoTask

(* A step that removes nothing, writes whole files only, and leaves alone the *)
(* tasks that verify and remove.                                             *)
LEMMA LossQuiet ==
    ASSUME TypeOK, LossInv, src' = src,
           \A f \in Files : dst'[f] = dst[f] \/ dst'[f] = "whole",
           \A u \in Ids : task'[u] = task[u] \/ task'[u].pc \notin {"verify", "remove"}
    PROVE  LossInv'
<1>1. OnlyWhole' /\ NothingLost' BY DEF LossInv, OnlyWhole, NothingLost
<1>2. Removable'
  <2> SUFFICES ASSUME NEW u \in Ids, task'[u].pc = "remove" PROVE dst'[task'[u].cur] = "whole"
    BY DEF Removable
  <2>1. task'[u] = task[u] OBVIOUS
  <2>2. task[u].cur \in Files /\ dst[task[u].cur] = "whole" BY <2>1 DEF TypeOK, LossInv, Removable
  <2>3. QED BY <2>1, <2>2
<1>3. AllLookedAt' BY DEF LossInv, AllLookedAt, Looked
<1>4. QED BY <1>1, <1>2, <1>3 DEF LossInv

(* Task t becomes r, which does not verify or remove.                         *)
LEMMA QuietTask ==
    ASSUME TypeOK, NEW t \in Ids, NEW r, r.pc \notin {"verify", "remove"},
           task' = [task EXCEPT ![t] = r]
    PROVE  \A u \in Ids : task'[u] = task[u] \/ task'[u].pc \notin {"verify", "remove"}
BY DEF TypeOK

LEMMA LossStep == ~PartialFiles /\ TypeOK /\ LossInv /\ [Next]_vars => LossInv'
<1> SUFFICES ASSUME ~PartialFiles, TypeOK, LossInv, [Next]_vars PROVE LossInv'
  OBVIOUS
<1>0. /\ task \in [Ids -> Tasks] /\ \A t \in Ids : task[t] \in Tasks
      /\ dst \in [Files -> {"none", "other", "part", "whole"}]
      /\ src \in [Files -> {"none", "whole"}]
  BY DEF TypeOK
<1>1. ASSUME NEW j \in Jobs, NEW sync \in BOOLEAN, Start(j, sync) PROVE LossInv'
  <2> DEFINE n == NewTask(j, Root, "top", "pending")
             r == [n EXCEPT !.sync = sync]
  <2>1. task' = [task EXCEPT ![NextId] = r] /\ NextId \in Ids BY <1>1 DEF Start
  <2>2. n \in Tasks /\ n.pc = "pending" BY NewTaskType
  <2> HIDE DEF n
  <2>3. r.pc = "pending" BY <2>2 DEF Tasks
  <2> HIDE DEF r
  <2>4. QED BY <1>1, <2>1, <2>3, QuietTask, LossQuiet DEF Start, storages
<1>2. ASSUME NEW t \in Ids, RunDir(t) \/ Listed(t) \/ Broken(t) \/ RunAgain(t) \/ CompletionEnds(t)
      PROVE  LossInv'
  <2>1. \A u \in Ids : task'[u] = task[u] \/ task'[u].pc \notin {"verify", "remove"}
    <3>1. CASE RunDir(t) BY <1>0, <3>1 DEF RunDir, Tasks
    <3>2. CASE Listed(t) BY <1>0, <3>2 DEF Listed, Tasks
    <3>3. CASE Broken(t) BY <1>0, <3>3 DEF Broken, Tasks
    <3>4. CASE RunAgain(t) BY <1>0, <3>4 DEF RunAgain, Tasks
    <3>5. CASE CompletionEnds(t) BY <1>0, <3>5 DEF CompletionEnds, Tasks
    <3>6. QED BY <1>2, <3>1, <3>2, <3>3, <3>4, <3>5
  <2>2. src' = src /\ dst' = dst
    BY <1>2 DEF RunDir, Listed, Broken, RunAgain, CompletionEnds, storages
  <2>3. QED BY <2>1, <2>2, LossQuiet
<1>3. ASSUME NEW t \in Ids, AddNext(t) PROVE LossInv'
  <2>1. PICK f \in task[t].todo :
           task' = [task EXCEPT ![t].todo = @ \ {f},
                                ![NextId] = NewTask(task[t].job, f, task[t].group, "pending")]
    BY <1>3 DEF AddNext
  <2> DEFINE r   == [task[t] EXCEPT !.todo = @ \ {f}]
             n   == NewTask(task[t].job, f, task[t].group, "pending")
             mid == [task EXCEPT ![t] = r]
  <2>2. task[t] \in Tasks /\ task[t].pc = "adding" /\ NextId \in Ids BY <1>0, <1>3 DEF AddNext
  <2>3. f \in Files /\ task[t].group \in GroupIds /\ task[t].job \in Jobs \cup {NoJob}
    BY <2>2 DEF Tasks
  <2>4. n.pc = "pending" BY <2>3, NewTaskType
  <2>5. r.pc = "adding" BY <2>2 DEF Tasks
  <2>6. task' = [mid EXCEPT ![NextId] = n] BY <2>1, <1>0
  <2> HIDE DEF r, n
  <2>7. ASSUME NEW u \in Ids
        PROVE  task'[u] = task[u] \/ task'[u].pc \notin {"verify", "remove"}
    <3>1. task'[u] = n \/ task'[u] = r \/ task'[u] = task[u] BY <1>0, <2>2, <2>6
    <3>2. QED BY <3>1, <2>4, <2>5
  <2>8. src' = src /\ dst' = dst BY <1>3 DEF AddNext, storages
  <2>9. QED BY <2>7, <2>8, LossQuiet
<1>4. ASSUME NEW t \in Ids, NEW f \in Files, UploadStart(t, f) PROVE LossInv'
  <2>1. \A u \in Ids : task'[u] = task[u] \/ task'[u].pc \notin {"verify", "remove"}
    BY <1>0, <1>4 DEF UploadStart, Tasks
  <2>2. src' = src /\ dst' = dst BY <1>4 DEF UploadStart
  <2>3. QED BY <2>1, <2>2, LossQuiet
<1>5. ASSUME NEW t \in Ids, UploadOK(t) \/ UploadFailed(t) PROVE LossInv'
  <2>1. \A u \in Ids : task'[u] = task[u] \/ task'[u].pc \notin {"verify", "remove"}
    <3>1. CASE UploadOK(t) BY <1>0, <3>1 DEF UploadOK, Tasks
    <3>2. CASE UploadFailed(t) BY <1>0, <3>2 DEF UploadFailed, Tasks
    <3>3. QED BY <1>5, <3>1, <3>2
  <2>2. src' = src /\ \A f \in Files : dst'[f] = dst[f] \/ dst'[f] = "whole"
    BY <1>0, <1>5 DEF UploadOK, UploadFailed
  <2>3. QED BY <2>1, <2>2, LossQuiet
<1>6. ASSUME NEW t \in Ids, Finish(t) PROVE LossInv'
  <2>1. PICK success, ps : Done(t, success, ps) BY <1>6 DEF Finish
  <2>2. \A u \in Ids : task'[u] = task[u] \/ task'[u].pc \notin {"verify", "remove"}
    BY <1>0, <2>1 DEF Done, Tasks
  <2>3. QED BY <1>6, <2>2, LossQuiet DEF Finish, storages
<1>7. ASSUME NEW t \in Ids, UserRetries(t) PROVE LossInv'
  <2> DEFINE r == NewTask(task[t].job, task[t].node, GroupOf(task[t].node), "pending")
  <2>1. task[t].node \in Nodes /\ task[t].job \in Jobs \cup {NoJob} BY <1>0 DEF Tasks
  <2>2. GroupOf(task[t].node) \in GroupIds BY DEF GroupOf
  <2>3. r.pc = "pending" BY <2>1, <2>2, NewTaskType
  <2>4. task' = [task EXCEPT ![t] = r] BY <1>0, <1>7 DEF UserRetries
  <2> HIDE DEF r
  <2>5. QED BY <1>7, <2>3, <2>4, QuietTask, LossQuiet DEF UserRetries, storages
<1>8. ASSUME NEW t \in Ids, task' = NextPayload(t)
      PROVE  \A u \in Ids : task'[u] = task[u] \/ task'[u].pc \notin {"verify", "remove"}
  BY <1>0, <1>8 DEF NextPayload, Tasks
<1>9. ASSUME NEW t \in Ids, CompleteDir(t) PROVE LossInv'
  <2>1. src' = src /\ dst' = dst BY <1>9 DEF CompleteDir, storages
  <2>2. CASE task' = [task EXCEPT ![t].pc = "verify", ![t].todo = {f \in Files : src[f] # "none"}]
    <3>1. /\ task'[t].pc = "verify" /\ task'[t].todo = {f \in Files : src[f] # "none"}
          /\ \A u \in Ids \ {t} : task'[u] = task[u]
      BY <1>0, <2>2 DEF Tasks
    <3>2. OnlyWhole' /\ NothingLost' BY <2>1 DEF LossInv, OnlyWhole, NothingLost
    <3>3. Removable' BY <2>1, <3>1 DEF LossInv, Removable
    <3>4. AllLookedAt' BY <2>1, <3>1 DEF LossInv, AllLookedAt, Looked
    <3>5. QED BY <3>2, <3>3, <3>4 DEF LossInv
  <2>3. CASE task' = NextPayload(t)
    BY <1>8, <2>1, <2>3, LossQuiet
  <2>4. QED BY <1>9, <2>2, <2>3 DEF CompleteDir
<1>10. ASSUME NEW t \in Ids, CompleteFile(t) PROVE LossInv'
  <2>1. src' = src /\ dst' = dst BY <1>10 DEF CompleteFile, storages
  <2>2. /\ task'[t].pc = "verify" /\ Head(task'[t].payloads) # Root
        /\ \A u \in Ids \ {t} : task'[u] = task[u]
    BY <1>0, <1>10 DEF CompleteFile, Tasks
  <2>3. OnlyWhole' /\ NothingLost' BY <2>1 DEF LossInv, OnlyWhole, NothingLost
  <2>4. Removable' BY <2>1, <2>2 DEF LossInv, Removable
  <2>5. AllLookedAt' BY <2>1, <2>2 DEF LossInv, AllLookedAt, Looked
  <2>6. QED BY <2>3, <2>4, <2>5 DEF LossInv
<1>11. ASSUME NEW t \in Ids, Verify(t) PROVE LossInv'
  <2>1. src' = src /\ dst' = dst BY <1>11 DEF Verify, storages
  <2>2. OnlyWhole' /\ NothingLost' BY <2>1 DEF LossInv, OnlyWhole, NothingLost
  <2>3. PICK f \in task[t].todo :
           \/ /\ Verified(f)
              /\ task' = [task EXCEPT ![t].pc = "remove", ![t].cur = f, ![t].todo = @ \ {f}]
           \/ task' = [task EXCEPT ![t].bad = TRUE, ![t].todo = @ \ {f}]
    BY <1>11 DEF Verify
  <2>4. f \in Files /\ task[t].pc = "verify" BY <1>0, <1>11 DEF Verify, Tasks
  <2>5. CASE /\ Verified(f)
             /\ task' = [task EXCEPT ![t].pc = "remove", ![t].cur = f, ![t].todo = @ \ {f}]
    <3>1. /\ task'[t].pc = "remove" /\ task'[t].cur = f /\ task'[t].todo = task[t].todo \ {f}
          /\ task'[t].bad = task[t].bad /\ task'[t].payloads = task[t].payloads
          /\ \A u \in Ids \ {t} : task'[u] = task[u]
      BY <1>0, <2>5 DEF Tasks
    <3>2. dst[f] = "whole" BY <2>4, <2>5 DEF Verified, LossInv, OnlyWhole
    <3>3. Removable' BY <2>1, <3>1, <3>2 DEF LossInv, Removable
    <3>4. AllLookedAt' BY <2>1, <2>4, <3>1 DEF LossInv, AllLookedAt, Looked
    <3>5. QED BY <2>2, <3>3, <3>4 DEF LossInv
  <2>6. CASE task' = [task EXCEPT ![t].bad = TRUE, ![t].todo = @ \ {f}]
    <3>1. /\ task'[t].pc = "verify" /\ task'[t].bad
          /\ \A u \in Ids \ {t} : task'[u] = task[u]
      BY <1>0, <2>4, <2>6 DEF Tasks
    <3>2. Removable' BY <2>1, <3>1 DEF LossInv, Removable
    <3>3. AllLookedAt' BY <2>1, <3>1 DEF LossInv, AllLookedAt, Looked
    <3>4. QED BY <2>2, <3>2, <3>3 DEF LossInv
  <2>7. QED BY <2>3, <2>5, <2>6
<1>12. ASSUME NEW t \in Ids, RemoveFile(t) PROVE LossInv'
  <2> DEFINE c == task[t].cur
  <2>1. /\ c \in Files /\ task[t].pc = "remove" /\ dst[c] = "whole" /\ dst' = dst
    BY <1>12 DEF RemoveFile, TypeOK, LossInv, Removable
  <2>2. \A f \in Files : src'[f] = src[f] \/ (f = c /\ src'[f] = "none")
    BY <1>0, <1>12, <2>1 DEF RemoveFile
  <2>3. /\ task'[t].pc = "verify" /\ task'[t].todo = task[t].todo
        /\ task'[t].payloads = task[t].payloads
        /\ \A u \in Ids \ {t} : task'[u] = task[u]
        /\ task'[t].bad \/ (src'[c] = "none" /\ task'[t].bad = task[t].bad)
    <3>1. CASE /\ src' = [src EXCEPT ![c] = "none"]
               /\ task' = [task EXCEPT ![t].pc = "verify", ![t].cur = Root]
      BY <1>0, <2>1, <3>1 DEF Tasks
    <3>2. CASE task' = [task EXCEPT ![t].pc = "verify", ![t].cur = Root, ![t].bad = TRUE]
      BY <1>0, <2>1, <3>2 DEF Tasks
    <3>3. QED BY <1>12, <3>1, <3>2 DEF RemoveFile
  <2> HIDE DEF c
  <2>4. OnlyWhole' BY <2>1 DEF LossInv, OnlyWhole
  <2>5. NothingLost' BY <2>1, <2>2 DEF LossInv, NothingLost
  <2>6. Removable' BY <2>1, <2>3 DEF LossInv, Removable
  <2>7. AllLookedAt'
    <3> SUFFICES ASSUME NEW u \in Ids, task'[u].pc \in {"verify", "remove"}, ~task'[u].bad,
                        Head(task'[u].payloads) = Root, NEW f \in Files
                 PROVE  \/ src'[f] = "none" \/ f \in task'[u].todo
                        \/ task'[u].pc = "remove" /\ task'[u].cur = f
      BY DEF AllLookedAt, Looked
    <3>1. CASE u = t
      BY <2>1, <2>2, <2>3, <3>1 DEF LossInv, AllLookedAt, Looked, c
    <3>2. CASE u # t
      BY <2>2, <2>3, <3>2 DEF LossInv, AllLookedAt, Looked
    <3>3. QED BY <3>1, <3>2
  <2>8. QED BY <2>4, <2>5, <2>6, <2>7 DEF LossInv
<1>13. ASSUME NEW t \in Ids, RemoveDir(t) PROVE LossInv'
  <2>1. /\ task[t].pc = "verify" /\ task[t].todo = {} /\ ~task[t].bad
        /\ Head(task[t].payloads) = Root /\ dst' = dst /\ task' = NextPayload(t)
    BY <1>13 DEF RemoveDir
  <2>2. \A f \in Files : src[f] = "none" BY <2>1 DEF LossInv, AllLookedAt, Looked
  <2>3. src' = src BY <1>0, <1>13, <2>2 DEF RemoveDir
  <2>4. QED BY <1>8, <2>1, <2>3, LossQuiet
<1>14. ASSUME NEW t \in Ids, LeaveSource(t) PROVE LossInv'
  BY <1>8, <1>14, LossQuiet DEF LeaveSource, storages
<1>15. CASE UNCHANGED vars
  BY <1>15, LossQuiet DEF vars
<1>16. QED
  BY <1>1, <1>2, <1>3, <1>4, <1>5, <1>6, <1>7, <1>9, <1>10, <1>11, <1>12, <1>13, <1>14, <1>15
     DEF Next, Completion

\* A move loses no file: when an upload that fails leaves nothing at the
\* destination, and no other file of the name was there, a file that is gone from
\* the source (verifyAndRemove) is whole at the destination, with any number of
\* files, of transfers into the same group and of retries.
THEOREM MoveLosesNothing ==
    ASSUME ~PartialFiles, Existing = {}
    PROVE  Spec => []NothingLost
<1>1. Init => TypeOK /\ LossInv BY InitType, LossInit
<1>2. TypeOK /\ LossInv /\ [Next]_vars => (TypeOK /\ LossInv)' BY StepType, LossStep
<1>3. LossInv => NothingLost BY DEF LossInv
<1>4. QED BY <1>1, <1>2, <1>3, PTL DEF Spec
=============================================================================
