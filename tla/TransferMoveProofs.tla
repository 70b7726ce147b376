------------------------ MODULE TransferMoveProofs -------------------------
(***************************************************************************)
(* Proofs about the coordinator of TransferGroup, for every number of tasks, *)
(* files and transfers: a group counts its unfinished tasks, and the request *)
(* to remove the source of a move is not lost between them.                  *)
(***************************************************************************)
EXTENDS TransferGroupProofs, FiniteSetTheorems

USE DEF Ids, Nodes, GroupIds

LiveIn(g) == {t \in Ids : Live(t) /\ task[t].group = g}
Used      == {t \in Ids : task[t].pc # "none"}

\* Identifiers are handed out in order, so that NextId is a fresh one.
IdsInOrder == \A t \in Used : 1 .. t \subseteq Used

GroupInv == TypeOK /\ IdsInOrder /\ GroupCountsTasks

-----------------------------------------------------------------------------
(* Identifiers                                                              *)

LEMMA FiniteIds ==
    /\ IsFiniteSet(Ids) /\ IsFiniteSet(Used) /\ \A g : IsFiniteSet(LiveIn(g))
    /\ Cardinality(Used) \in Nat /\ \A g : Cardinality(LiveIn(g)) \in Nat
<1>1. IsFiniteSet(Ids)
  BY TransferAssumption, FS_Interval
<1>2. Used \in SUBSET Ids /\ \A g : LiveIn(g) \in SUBSET Ids
  BY DEF Used, LiveIn
<1>3. IsFiniteSet(Used) /\ \A g : IsFiniteSet(LiveIn(g))
  BY <1>1, <1>2, FS_Subset
<1> QED BY <1>1, <1>3, FS_CardinalityType

\* NextId is not in use, and all below it are.
LEMMA NextIdFresh ==
    ASSUME TypeOK, IdsInOrder
    PROVE  /\ NextId \in Nat /\ NextId \notin Used
           /\ \A u \in Ids : u < NextId => u \in Used
<1> DEFINE n == Cardinality(Used)
<1>1. NextId = n + 1 /\ n \in Nat
  BY FiniteIds DEF NextId, Used
<1>2. ASSUME n + 1 \in Used PROVE FALSE
  <2>1. 1 .. n + 1 \in SUBSET Used
    BY <1>2 DEF IdsInOrder
  <2>2. Cardinality(1 .. n + 1) <= n
    BY <2>1, FiniteIds, FS_Subset
  <2>3. Cardinality(1 .. n + 1) = n + 1
    <3>1. Cardinality(1 .. n + 1) = IF 1 > n + 1 THEN 0 ELSE (n + 1) - 1 + 1
      BY <1>1, FS_Interval
    <3> HIDE DEF n
    <3> QED BY <1>1, <3>1
  <2> HIDE DEF n
  <2> QED BY <1>1, <2>2, <2>3
<1>3. ASSUME NEW u \in Ids, u <= n, u \notin Used PROVE FALSE
  <2>1. ASSUME NEW v \in Used PROVE v \in 1 .. u - 1
    <3>1. v \in Nat /\ u \in Nat /\ 1 <= v /\ 1 <= u
      BY <2>1, TransferAssumption DEF Used
    <3>2. v < u
      <4>1. SUFFICES ASSUME u <= v PROVE FALSE
        BY <3>1
      <4>2. u \in 1 .. v
        BY <3>1, <4>1
      <4> QED BY <1>3, <2>1, <4>2 DEF IdsInOrder
    <3> QED BY <3>1, <3>2
  <2>2. u \in Nat /\ 1 <= u
    BY TransferAssumption
  <2>3. IsFiniteSet(1 .. u - 1) /\ Cardinality(1 .. u - 1) = u - 1
    <3>1. Cardinality(1 .. u - 1) = IF 1 > u - 1 THEN 0 ELSE (u - 1) - 1 + 1
      BY <2>2, FS_Interval
    <3> QED BY <2>2, <3>1, FS_Interval
  <2>4. n <= u - 1
    BY <2>1, <2>3, FS_Subset
  <2> HIDE DEF n
  <2> QED BY <1>1, <1>3, <2>2, <2>4
<1>4. \A u \in Ids : u \in Nat
  BY TransferAssumption
<1> HIDE DEF n
<1>5. \A u \in Ids : u < n + 1 => u <= n
  BY <1>1, <1>4
<1> QED BY <1>1, <1>2, <1>3, <1>5

\* A fresh identifier keeps the order.
LEMMA OrderKept ==
    ASSUME TypeOK, IdsInOrder, Used' = Used \/ (NextId \in Ids /\ Used' = Used \cup {NextId})
    PROVE  IdsInOrder'
<1>1. CASE Used' = Used
  BY <1>1 DEF IdsInOrder
<1>2. CASE NextId \in Ids /\ Used' = Used \cup {NextId}
  <2>1. \A u \in Ids : u \in Nat
    BY TransferAssumption
  <2>2. NextId \in Nat /\ \A u \in Ids : u < NextId => u \in Used
    BY NextIdFresh
  <2>3. ASSUME NEW k \in 1 .. NextId PROVE k \in Used'
    <3>1. k \in Ids
      BY <1>2, <2>2, TransferAssumption
    <3>2. k = NextId \/ k < NextId
      BY <2>2
    <3> QED BY <1>2, <2>2, <3>1, <3>2
  <2> QED BY <1>2, <2>3 DEF IdsInOrder
<1> QED BY <1>1, <1>2

-----------------------------------------------------------------------------
(* What a step does to the tasks of a group                                 *)

\* No task joins or leaves a group.
Steady ==
    /\ group' = group
    /\ Used' = Used
    /\ \A g \in GroupIds : LiveIn(g)' = LiveIn(g)

\* Task t joins group g.
Joins(t, g) ==
    /\ g \in GroupIds /\ t \in Ids /\ t \notin LiveIn(g)
    /\ LiveIn(g)' = LiveIn(g) \cup {t}
    /\ group'[g].pending = group[g].pending + 1
    /\ \A h \in GroupIds \ {g} : group'[h] = group[h] /\ LiveIn(h)' = LiveIn(h)

\* Task t leaves group g, and nothing is kept of the group when it was the last one.
Leaves(t, g) ==
    /\ g \in GroupIds /\ t \in LiveIn(g)
    /\ LiveIn(g)' = LiveIn(g) \ {t}
    /\ group[g].pending > 1 => group'[g].pending = group[g].pending - 1
    /\ group[g].pending = 1 => group'[g] = NoGroup
    /\ \A h \in GroupIds \ {g} : group'[h] = group[h] /\ LiveIn(h)' = LiveIn(h)

LEMMA CountSteady == ASSUME GroupCountsTasks, Steady PROVE GroupCountsTasks'
BY DEF GroupCountsTasks, Steady, LiveIn

LEMMA CountJoins ==
    ASSUME TypeOK, GroupCountsTasks, NEW t, NEW g, Joins(t, g)
    PROVE  GroupCountsTasks'
<1>1. \A h \in GroupIds : group[h].pending = Cardinality(LiveIn(h))
                          /\ (group[h].pending = 0 => group[h] = NoGroup)
  BY DEF GroupCountsTasks, LiveIn
<1>2. Cardinality(LiveIn(g)') = Cardinality(LiveIn(g)) + 1
  BY FiniteIds, FS_AddElement DEF Joins
<1>3. Cardinality(LiveIn(g)) \in Nat
  BY FiniteIds
<1>4. group'[g].pending = Cardinality(LiveIn(g)') /\ group'[g].pending # 0
  BY <1>1, <1>2, <1>3 DEF Joins
<1>5. \A h \in GroupIds : group'[h].pending = Cardinality(LiveIn(h)')
                          /\ (group'[h].pending = 0 => group'[h] = NoGroup)
  BY <1>1, <1>4 DEF Joins
<1> QED BY <1>5 DEF GroupCountsTasks, LiveIn

LEMMA CountLeaves ==
    ASSUME TypeOK, GroupCountsTasks, NEW t, NEW g, Leaves(t, g)
    PROVE  GroupCountsTasks'
<1>1. \A h \in GroupIds : group[h].pending = Cardinality(LiveIn(h))
                          /\ (group[h].pending = 0 => group[h] = NoGroup)
  BY DEF GroupCountsTasks, LiveIn
<1>2. Cardinality(LiveIn(g)') = Cardinality(LiveIn(g)) - 1
  BY ZenonT(30), FiniteIds, FS_RemoveElement DEF Leaves
<1>3. Cardinality(LiveIn(g)) \in Nat /\ Cardinality(LiveIn(g)) # 0
  BY FiniteIds, FS_EmptySet DEF Leaves
<1>4. NoGroup.pending = 0
  BY DEF NoGroup
<1>5. group'[g].pending = Cardinality(LiveIn(g)') /\ (group'[g].pending = 0 => group'[g] = NoGroup)
  <2>1. CASE group[g].pending > 1
    BY <1>1, <1>2, <1>3, <2>1 DEF Leaves
  <2>2. CASE group[g].pending = 1
    BY <1>1, <1>2, <1>3, <1>4, <2>2 DEF Leaves
  <2> QED BY <1>1, <1>3, <2>1, <2>2 DEF Leaves
<1>6. \A h \in GroupIds : group'[h].pending = Cardinality(LiveIn(h)')
                          /\ (group'[h].pending = 0 => group'[h] = NoGroup)
  BY <1>1, <1>5 DEF Leaves
<1> QED BY <1>6 DEF GroupCountsTasks, LiveIn

\* The group of a task that lives has a task.
LEMMA LiveCounts ==
    ASSUME TypeOK, GroupCountsTasks, NEW t \in Ids, Live(t)
    PROVE  /\ task[t].group \in GroupIds
           /\ group[task[t].group].pending \in Nat /\ group[task[t].group].pending >= 1
<1> DEFINE g == task[t].group
<1>1. g \in GroupIds
  BY DEF TypeOK, Tasks
<1>2. group[g].pending = Cardinality(LiveIn(g)) /\ t \in LiveIn(g)
  BY <1>1 DEF GroupCountsTasks, LiveIn
<1>3. Cardinality(LiveIn(g)) \in Nat /\ Cardinality(LiveIn(g)) # 0
  BY <1>2, FiniteIds, FS_EmptySet
<1> HIDE DEF g
<1>4. group[g].pending \in Nat /\ group[g].pending >= 1
  BY <1>2, <1>3
<1> QED BY <1>1, <1>4 DEF g

\* A change of one task that leaves it in its group, alive or not.
LEMMA SteadyTask ==
    ASSUME TypeOK, NEW t \in Ids, group' = group,
           \A u \in Ids \ {t} : task'[u] = task[u],
           task'[t].group = task[t].group,
           \/ Live(t) /\ Live(t)'
           \/ ~Live(t) /\ ~Live(t)' /\ task[t].pc # "none" /\ task'[t].pc # "none"
    PROVE  Steady
<1>1. \A u \in Ids : /\ task'[u].group = task[u].group
                     /\ Live(u)' <=> Live(u)
                     /\ task'[u].pc # "none" <=> task[u].pc # "none"
  BY DEF Live
<1>2. \A g \in GroupIds : LiveIn(g)' = LiveIn(g)
  BY <1>1 DEF LiveIn
<1>3. Used' = Used
  BY <1>1 DEF Used
<1> QED BY <1>2, <1>3 DEF Steady

LEMMA SteadySteps ==
    ASSUME TypeOK, NEW t \in Ids,
           \/ RunDir(t) \/ Listed(t) \/ Broken(t) \/ UploadOK(t) \/ UploadFailed(t)
           \/ (\E f \in Files : UploadStart(t, f)) \/ RunAgain(t) \/ Completion(t)
    PROVE  Steady
<1>0. task \in [Ids -> Tasks] /\ task[t] \in Tasks
  BY DEF TypeOK
<1>g. group' = group
  BY DEF RunDir, Listed, Broken, UploadOK, UploadFailed, UploadStart, RunAgain, Completion,
         CompletionEnds, CompleteDir, CompleteFile, Verify, RemoveFile, RemoveDir, LeaveSource
<1>1. CASE \/ RunDir(t) \/ Listed(t) \/ Broken(t) \/ UploadOK(t) \/ UploadFailed(t)
           \/ (\E f \in Files : UploadStart(t, f)) \/ RunAgain(t)
  <2>1. /\ Live(t) /\ task'[t].pc \in {"pending", "adding", "uploading", "succeeded", "errored"}
        /\ task'[t].group = task[t].group /\ \A u \in Ids \ {t} : task'[u] = task[u]
    <3>1. CASE RunDir(t) BY <1>0, <3>1 DEF RunDir, Live, Tasks
    <3>2. CASE Listed(t) BY <1>0, <3>2 DEF Listed, Live, Tasks
    <3>3. CASE Broken(t) BY <1>0, <3>3 DEF Broken, Live, Tasks
    <3>4. CASE UploadOK(t) BY <1>0, <3>4 DEF UploadOK, Live, Tasks
    <3>5. CASE UploadFailed(t) BY <1>0, <3>5 DEF UploadFailed, Live, Tasks
    <3>6. ASSUME NEW f \in Files, UploadStart(t, f)
          PROVE  /\ Live(t) /\ task'[t].pc = "uploading"
                 /\ task'[t].group = task[t].group /\ \A u \in Ids \ {t} : task'[u] = task[u]
      BY <1>0, <3>6 DEF UploadStart, Live, Tasks
    <3>7. CASE RunAgain(t) BY <1>0, <3>7 DEF RunAgain, Live, Tasks
    <3> QED BY <1>1, <3>1, <3>2, <3>3, <3>4, <3>5, <3>6, <3>7
  <2>2. Live(t)'
    BY <2>1 DEF Live
  <2> QED BY <1>g, <2>1, <2>2, SteadyTask
<1>2. CASE Completion(t)
  <2>1. /\ task[t].pc \in {"complete", "verify", "remove"}
        /\ task'[t].pc \in {"complete", "verify", "remove", "ended"}
        /\ task'[t].group = task[t].group /\ \A u \in Ids \ {t} : task'[u] = task[u]
    <3>0. ASSUME task' = NextPayload(t)
          PROVE  /\ task'[t].pc = "complete" /\ task'[t].group = task[t].group
                 /\ \A u \in Ids \ {t} : task'[u] = task[u]
      BY <1>0, <3>0 DEF NextPayload, Tasks
    <3>1. CASE CompletionEnds(t) BY <1>0, <3>1 DEF CompletionEnds, Tasks
    <3>2. CASE CompleteDir(t)
      <4>1. task[t].pc = "complete"
        BY <3>2 DEF CompleteDir
      <4>2. CASE task' = NextPayload(t)
        BY <3>0, <4>1, <4>2
      <4>3. CASE task' = [task EXCEPT ![t].pc = "verify", ![t].todo = {f \in Files : src[f] # "none"}]
        BY <1>0, <4>1, <4>3 DEF Tasks
      <4> QED BY <3>2, <4>2, <4>3 DEF CompleteDir
    <3>3. CASE CompleteFile(t) BY <1>0, <3>3 DEF CompleteFile, Tasks
    <3>4. CASE Verify(t)
      <4>1. PICK f \in task[t].todo :
               \/ task' = [task EXCEPT ![t].pc = "remove", ![t].cur = f, ![t].todo = @ \ {f}]
               \/ task' = [task EXCEPT ![t].bad = TRUE, ![t].todo = @ \ {f}]
        BY <3>4 DEF Verify
      <4>2. task[t].pc = "verify"
        BY <3>4 DEF Verify
      <4>3. CASE task' = [task EXCEPT ![t].pc = "remove", ![t].cur = f, ![t].todo = @ \ {f}]
        BY <1>0, <4>2, <4>3 DEF Tasks
      <4>4. CASE task' = [task EXCEPT ![t].bad = TRUE, ![t].todo = @ \ {f}]
        BY <1>0, <4>2, <4>4 DEF Tasks
      <4> QED BY <4>1, <4>3, <4>4
    <3>5. CASE RemoveFile(t)
      <4>1. /\ task[t].pc = "remove"
            /\ \/ task' = [task EXCEPT ![t].pc = "verify", ![t].cur = Root]
               \/ task' = [task EXCEPT ![t].pc = "verify", ![t].cur = Root, ![t].bad = TRUE]
        BY <3>5 DEF RemoveFile
      <4>2. CASE task' = [task EXCEPT ![t].pc = "verify", ![t].cur = Root]
        BY <1>0, <4>1, <4>2 DEF Tasks
      <4>3. CASE task' = [task EXCEPT ![t].pc = "verify", ![t].cur = Root, ![t].bad = TRUE]
        BY <1>0, <4>1, <4>3 DEF Tasks
      <4> QED BY <4>1, <4>2, <4>3
    <3>6. CASE RemoveDir(t) \/ LeaveSource(t)
      BY <3>0, <3>6 DEF RemoveDir, LeaveSource
    <3> QED BY <1>2, <3>1, <3>2, <3>3, <3>4, <3>5, <3>6 DEF Completion
  <2>2. ~Live(t) /\ ~Live(t)' /\ task[t].pc # "none" /\ task'[t].pc # "none"
    BY <2>1 DEF Live
  <2> QED BY <1>g, <2>1, <2>2, SteadyTask
<1> QED BY <1>1, <1>2

-----------------------------------------------------------------------------
(* Joining and leaving                                                      *)

\* A task that was not alive becomes r, alive and in group g.
LEMMA NewMember ==
    ASSUME TypeOK, NEW t \in Ids, ~Live(t), NEW g \in GroupIds, NEW r \in Tasks,
           r.pc = "pending", r.group = g,
           task'[t] = r,
           \A u \in Ids \ {t} : /\ task'[u].group = task[u].group
                                /\ task'[u].pc = task[u].pc,
           group'[g].pending = group[g].pending + 1,
           \A h \in GroupIds \ {g} : group'[h] = group[h]
    PROVE  Joins(t, g) /\ Used' = Used \cup {t}
<1>1. \A u \in Ids \ {t} : /\ Live(u)' <=> Live(u)
                           /\ task'[u].group = task[u].group
                           /\ task'[u].pc # "none" <=> task[u].pc # "none"
  BY DEF Live
<1>2. Live(t)' /\ task'[t].group = g /\ task'[t].pc # "none"
  BY DEF Live
<1>3. LiveIn(g)' = LiveIn(g) \cup {t} /\ t \notin LiveIn(g)
  BY <1>1, <1>2 DEF LiveIn
<1>4. \A h \in GroupIds \ {g} : LiveIn(h)' = LiveIn(h)
  BY <1>1, <1>2 DEF LiveIn
<1>5. Used' = Used \cup {t}
  BY <1>1, <1>2 DEF Used
<1> QED BY <1>3, <1>4, <1>5 DEF Joins

\* AddTask counts a task, AppendPayload does not.
LEMMA Counting ==
    ASSUME NEW x \in Groups, NEW ps \in Seq(Nodes)
    PROVE  AddTask(x, ps).pending = x.pending + 1 /\ AppendPayload(x, ps).pending = x.pending
<1>1. AddTask(x, ps) = [x EXCEPT !.pending = x.pending + 1, !.payloads = x.payloads \o ps]
  BY DEF AddTask
<1> QED BY <1>1 DEF AddTask, AppendPayload, Groups

LEMMA StartJoins ==
    ASSUME TypeOK, IdsInOrder, NEW j \in Jobs, NEW sync \in BOOLEAN, Start(j, sync)
    PROVE  Joins(NextId, "top") /\ Used' = Used \cup {NextId} /\ NextId \in Ids
<1> DEFINE n  == NewTask(j, Root, "top", "pending")
           r  == [n EXCEPT !.sync = sync]
           ps == IF TypeOf[j] = "move" /\ ~sync THEN <<Root>> ELSE <<>>
           x  == AddTask(group["top"], <<>>)
           y  == AppendPayload(x, ps)
<1>0. task \in [Ids -> Tasks] /\ group \in [GroupIds -> Groups] /\ group["top"] \in Groups
  BY DEF TypeOK
<1>1. NextId \in Ids /\ task' = [task EXCEPT ![NextId] = r]
  BY DEF Start
<1>2. group' = [group EXCEPT !["top"] = y]
  BY DEF Start
<1>3. n \in Tasks /\ n.pc = "pending" /\ n.group = "top"
  <2>1. n \in Tasks /\ n.pc = "pending"
    BY NewTaskType
  <2>2. n.group = "top"
    BY SeqTypes DEF NewTask, NoTask
  <2> QED BY <2>1, <2>2
<1> HIDE DEF n
<1>4. r \in Tasks /\ r.pc = "pending" /\ r.group = "top"
  BY <1>3 DEF Tasks
<1>5. ps \in Seq(Nodes) /\ <<>> \in Seq(Nodes)
  BY SeqTypes
<1> HIDE DEF ps, r
<1>6. x \in Groups /\ x.pending = group["top"].pending + 1
  BY <1>0, <1>5, GroupTypes, Counting
<1> HIDE DEF x
<1>7. y.pending = x.pending
  BY <1>5, <1>6, Counting
<1> HIDE DEF y
<1>8. ~Live(NextId)
  BY <1>1, NextIdFresh DEF Live, Used
<1>9. /\ task'[NextId] = r /\ \A u \in Ids \ {NextId} : task'[u] = task[u]
      /\ group'["top"].pending = group["top"].pending + 1
      /\ \A h \in GroupIds \ {"top"} : group'[h] = group[h]
  BY <1>0, <1>1, <1>2, <1>6, <1>7
<1> QED BY <1>1, <1>4, <1>8, <1>9, NewMember

LEMMA AddNextJoins ==
    ASSUME TypeOK, IdsInOrder, NEW t \in Ids, AddNext(t), NEW g \in GroupIds, g = task[t].group
    PROVE  Joins(NextId, g) /\ Used' = Used \cup {NextId} /\ NextId \in Ids
<1>0. task \in [Ids -> Tasks] /\ group \in [GroupIds -> Groups] /\ task[t] \in Tasks
  BY DEF TypeOK
<1>1. PICK f \in task[t].todo :
         /\ task' = [task EXCEPT ![t].todo = @ \ {f},
                                 ![NextId] = NewTask(task[t].job, f, task[t].group, "pending")]
         /\ group' = [group EXCEPT ![task[t].group] = AddTask(@, <<>>)]
  BY DEF AddNext
<1> DEFINE r == [task[t] EXCEPT !.todo = @ \ {f}]
           n == NewTask(task[t].job, f, g, "pending")
           y == AddTask(group[g], <<>>)
<1>2. NextId \in Ids /\ task[t].pc = "adding" /\ ~Live(NextId) /\ NextId # t
  <2>1. NextId \in Ids /\ task[t].pc = "adding"
    BY DEF AddNext
  <2> QED BY <2>1, NextIdFresh DEF Live, Used
<1>3. f \in Files /\ task[t].job \in Jobs \cup {NoJob} /\ group[g] \in Groups
  BY <1>0 DEF Tasks
<1>4. n \in Tasks /\ n.pc = "pending" /\ n.group = g
  <2>1. n \in Tasks /\ n.pc = "pending"
    BY <1>3, NewTaskType
  <2>2. n.group = g
    BY SeqTypes DEF NewTask, NoTask
  <2> QED BY <2>1, <2>2
<1>5. r.pc = task[t].pc /\ r.group = g
  BY <1>0 DEF Tasks
<1>6. y.pending = group[g].pending + 1
  BY <1>3, SeqTypes, Counting
<1>7. task' = [[task EXCEPT ![t] = r] EXCEPT ![NextId] = n]
  BY <1>0, <1>1
<1>8. group' = [group EXCEPT ![g] = y]
  BY <1>1
<1> HIDE DEF r, n, y
<1>9. /\ task'[NextId] = n
      /\ \A u \in Ids \ {NextId} : task'[u] = task[u] \/ (u = t /\ task'[u] = r)
      /\ group'[g].pending = group[g].pending + 1
      /\ \A h \in GroupIds \ {g} : group'[h] = group[h]
  BY <1>0, <1>2, <1>3, <1>6, <1>7, <1>8
<1>10. \A u \in Ids \ {NextId} : task'[u].group = task[u].group /\ task'[u].pc = task[u].pc
  BY <1>5, <1>9
<1> QED BY <1>2, <1>3, <1>4, <1>9, <1>10, NewMember

LEMMA RetryJoins ==
    ASSUME TypeOK, NEW t \in Ids, UserRetries(t),
           NEW g \in GroupIds, g = GroupOf(task[t].node)
    PROVE  Joins(t, g) /\ Used' = Used
<1> DEFINE k == task[t].node
           r == NewTask(task[t].job, k, g, "pending")
           y == AddTask(group[g], Removal(t))
<1>0. task \in [Ids -> Tasks] /\ group \in [GroupIds -> Groups] /\ task[t] \in Tasks
  BY DEF TypeOK
<1>1. task[t].pc = "ended"
  BY DEF UserRetries
<1>2. k \in Nodes /\ task[t].job \in Jobs \cup {NoJob}
  BY <1>0 DEF Tasks
<1>3. task' = [task EXCEPT ![t] = r] /\ group' = [group EXCEPT ![g] = y]
  BY <1>0 DEF UserRetries
<1>4. r \in Tasks /\ r.pc = "pending" /\ r.group = g
  <2>1. r \in Tasks /\ r.pc = "pending"
    BY <1>2, NewTaskType
  <2>2. r.group = g
    BY SeqTypes DEF NewTask, NoTask
  <2> QED BY <2>1, <2>2
<1>5. Removal(t) \in Seq(Nodes)
  BY <1>2, SeqTypes DEF Removal
<1>6. y.pending = group[g].pending + 1
  BY <1>0, <1>2, <1>5, Counting
<1> HIDE DEF r, y, k
<1>7. ~Live(t) /\ t \in Used
  BY <1>1 DEF Live, Used
<1>8. /\ task'[t] = r /\ \A u \in Ids \ {t} : task'[u] = task[u]
      /\ group'[g].pending = group[g].pending + 1
      /\ \A h \in GroupIds \ {g} : group'[h] = group[h]
  BY <1>0, <1>2, <1>3, <1>6
<1>9. Joins(t, g) /\ Used' = Used \cup {t}
  BY <1>2, <1>4, <1>7, <1>8, NewMember
<1> QED BY <1>7, <1>9

LEMMA FinishLeaves ==
    ASSUME TypeOK, GroupCountsTasks, NEW t \in Ids, Finish(t),
           NEW g \in GroupIds, g = task[t].group
    PROVE  Leaves(t, g) /\ Used' = Used
<1> DEFINE success == IF task[t].sync THEN task[t].won ELSE task[t].pc = "succeeded"
           ps      == IF task[t].sync THEN Removal(t) ELSE <<>>
           x       == AppendPayload(group[g], ps)
           any     == x.success \/ success
           ended   == [task[t] EXCEPT !.pc = "ended", !.won = (task[t].pc = "succeeded")]
           rest    == [x EXCEPT !.pending = @ - 1, !.success = any]
           over    == [ended EXCEPT !.pc = "complete", !.payloads = x.payloads]
           r       == IF x.pending = 1 /\ any THEN over ELSE ended
           y       == CASE x.pending = 0 -> x [] x.pending = 1 -> NoGroup [] OTHER -> rest
<1>0. task \in [Ids -> Tasks] /\ group \in [GroupIds -> Groups] /\ task[t] \in Tasks
  BY DEF TypeOK
<1>1. Live(t) /\ Done(t, success, ps)
  BY DEF Finish, Live
<1>2. group[g] \in Groups /\ group[g].pending \in Nat /\ group[g].pending >= 1
  BY <1>0, <1>1, LiveCounts
<1>3. ps \in Seq(Nodes)
  <2>1. task[t].node \in Nodes
    BY <1>0 DEF Tasks
  <2> QED BY <2>1, SeqTypes DEF Removal
<1>4. x \in Groups /\ x.pending = group[g].pending
  BY <1>2, <1>3, GroupTypes, Counting
<1>5. task' = [task EXCEPT ![t] = r] /\ group' = [group EXCEPT ![g] = y]
  BY <1>1 DEF Done
<1>6. ended.pc = "ended" /\ ended.group = g /\ ended \in Tasks
  <2>1. (task[t].pc = "succeeded") \in BOOLEAN
    OBVIOUS
  <2> QED BY <1>0, <2>1 DEF Tasks
<1> HIDE DEF ended
<1>7. over.pc = "complete" /\ over.group = g
  BY <1>6 DEF Tasks
<1> HIDE DEF x, over, any
<1>8. r.pc \in {"ended", "complete"} /\ r.group = g
  BY <1>6, <1>7
<1>9. /\ group[g].pending > 1 => y.pending = group[g].pending - 1
      /\ group[g].pending = 1 => y = NoGroup
  <2>1. CASE x.pending = 1
    BY <1>2, <1>4, <2>1
  <2>2. CASE x.pending > 1
    <3>1. y = rest
      BY <1>2, <1>4, <2>2
    <3>2. rest.pending = x.pending - 1
      BY <1>4 DEF Groups
    <3> HIDE DEF y, rest
    <3> QED BY <1>2, <1>4, <2>2, <3>1, <3>2
  <2> QED BY <1>2, <1>4, <2>1, <2>2
<1> HIDE DEF r, y
<1>10. /\ task'[t] = r /\ \A u \in Ids \ {t} : task'[u] = task[u]
       /\ group'[g] = y /\ \A h \in GroupIds \ {g} : group'[h] = group[h]
  BY <1>0, <1>2, <1>5
<1>11. /\ ~Live(t)' /\ task'[t].pc # "none" /\ task[t].pc # "none"
       /\ \A u \in Ids \ {t} : (Live(u)' <=> Live(u))
  BY <1>1, <1>8, <1>10 DEF Live
<1>12. LiveIn(g)' = LiveIn(g) \ {t} /\ t \in LiveIn(g)
  <2>1. t \in LiveIn(g)
    BY <1>1 DEF LiveIn
  <2>2. t \notin LiveIn(g)'
    BY <1>11 DEF LiveIn
  <2>3. \A u \in Ids \ {t} : u \in LiveIn(g)' <=> u \in LiveIn(g)
    BY <1>10, <1>11 DEF LiveIn
  <2>4. LiveIn(g) \subseteq Ids /\ LiveIn(g)' \subseteq Ids
    BY DEF LiveIn
  <2> QED BY <2>1, <2>2, <2>3, <2>4
<1>13. \A h \in GroupIds \ {g} : LiveIn(h)' = LiveIn(h)
  BY <1>10, <1>11 DEF LiveIn
<1>14. Used' = Used
  BY <1>10, <1>11 DEF Used
<1>15. Leaves(t, g)
  BY <1>2, <1>9, <1>10, <1>12, <1>13 DEF Leaves
<1> QED BY <1>14, <1>15

-----------------------------------------------------------------------------
(* The theorem                                                              *)

LEMMA CountCases ==
    ASSUME GroupInv, [Next]_vars
    PROVE  \/ Steady
           \/ NextId \in Ids /\ Used' = Used \cup {NextId} /\ \E g \in GroupIds : Joins(NextId, g)
           \/ Used' = Used /\ \E t \in Ids, g \in GroupIds : Joins(t, g) \/ Leaves(t, g)
<1>0. TypeOK /\ IdsInOrder /\ GroupCountsTasks
  BY DEF GroupInv
<1>1. ASSUME NEW j \in Jobs, NEW sync \in BOOLEAN, Start(j, sync)
      PROVE  NextId \in Ids /\ Used' = Used \cup {NextId} /\ \E g \in GroupIds : Joins(NextId, g)
  BY <1>0, <1>1, StartJoins
<1>2. ASSUME NEW t \in Ids, AddNext(t)
      PROVE  NextId \in Ids /\ Used' = Used \cup {NextId} /\ \E g \in GroupIds : Joins(NextId, g)
  <2>1. PICK g \in GroupIds : g = task[t].group
    BY <1>0 DEF TypeOK, Tasks
  <2> QED BY <1>0, <1>2, <2>1, AddNextJoins
<1>3. ASSUME NEW t \in Ids, UserRetries(t)
      PROVE  Used' = Used /\ \E g \in GroupIds : Joins(t, g)
  <2>1. PICK g \in GroupIds : g = GroupOf(task[t].node)
    BY DEF GroupOf
  <2> QED BY <1>0, <1>3, <2>1, RetryJoins
<1>4. ASSUME NEW t \in Ids, Finish(t)
      PROVE  Used' = Used /\ \E g \in GroupIds : Leaves(t, g)
  <2>1. PICK g \in GroupIds : g = task[t].group
    BY <1>0 DEF TypeOK, Tasks
  <2> QED BY <1>0, <1>4, <2>1, FinishLeaves
<1>5. CASE UNCHANGED vars
  <2>1. task' = task /\ group' = group
    BY <1>5 DEF vars
  <2> QED BY <2>1 DEF Steady, Used, LiveIn, Live
<1> QED BY <1>0, <1>1, <1>2, <1>3, <1>4, <1>5, SteadySteps DEF Next

LEMMA CountStep == GroupInv /\ [Next]_vars => GroupInv'
<1> SUFFICES ASSUME GroupInv, [Next]_vars PROVE IdsInOrder' /\ GroupCountsTasks'
  BY StepType DEF GroupInv
<1>0. TypeOK /\ IdsInOrder /\ GroupCountsTasks
  BY DEF GroupInv
<1>1. CASE Steady
  BY <1>0, <1>1, CountSteady, OrderKept DEF Steady
<1>2. CASE NextId \in Ids /\ Used' = Used \cup {NextId} /\ \E g \in GroupIds : Joins(NextId, g)
  BY <1>0, <1>2, CountJoins, OrderKept
<1>3. CASE Used' = Used /\ \E t \in Ids, g \in GroupIds : Joins(t, g) \/ Leaves(t, g)
  BY <1>0, <1>3, CountJoins, CountLeaves, OrderKept
<1> QED BY <1>1, <1>2, <1>3, CountCases

LEMMA CountInit == Init => GroupInv
<1> SUFFICES ASSUME Init PROVE GroupInv
  OBVIOUS
<1>1. \A t \in Ids : task[t].pc = "none"
  BY SeqTypes DEF Init, NoTask
<1>2. Used = {} /\ \A g \in GroupIds : LiveIn(g) = {}
  BY <1>1 DEF Used, LiveIn, Live
<1>3. \A g \in GroupIds : group[g] = NoGroup /\ group[g].pending = 0
  BY DEF Init, NoGroup
<1>4. IdsInOrder
  BY <1>2 DEF IdsInOrder
<1>5. GroupCountsTasks
  BY <1>2, <1>3, FS_EmptySet DEF GroupCountsTasks, LiveIn
<1> QED BY <1>4, <1>5, InitType DEF GroupInv

\* The coordinator's counter is the number of unfinished tasks of the group, for
\* every number of files, transfers and retries: refreshAndRemove runs after the
\* last task has ended, and the next group of the name starts empty.
THEOREM GroupsCount == Spec => []GroupCountsTasks
<1>1. GroupInv => GroupCountsTasks
  BY DEF GroupInv
<1> QED BY CountInit, CountStep, <1>1, PTL DEF Spec

-----------------------------------------------------------------------------
(* The source of a move                                                     *)

\* The tasks of one move, no user retry and no failed removal.
Plain == retried = {} /\ ~trouble

RootTask(t, j) == task[t].pc # "none" /\ task[t].job = j /\ task[t].node = Root
Over(t) == task[t].pc \in {"complete", "verify", "remove", "ended"}

\* Tasks belong to a started transfer and to its group, and a transfer has one
\* task for the directory; what a task has done is at the destination.
TaskFacts ==
    \A t \in Ids : task[t].pc # "none" =>
        /\ task[t].job \in started /\ task[t].group = "top"
        /\ task[t].sync => task[t].node = Root
        /\ task[t].node = Root => \A u \in Ids : RootTask(u, task[t].job) => u = t
        /\ task[t].pc = "adding" => task[t].node = Root
        /\ task[t].pc = "uploading" => /\ task[t].cur \in Files /\ dstDir
                                       /\ task[t].sync \/ task[t].cur = task[t].node
        /\ task[t].pc = "succeeded" => task[t].won
        /\ task[t].node # Root /\ task[t].won => dst[task[t].node] # "none"
        /\ task[t].pc = "remove" => dst[task[t].cur] # "none"
        /\ task[t].bad => task[t].pc \in {"verify", "remove"}

\* A file is removed only when the destination has one of its name.
StorageFacts ==
    \A f \in Files : /\ dst[f] # "none" => dstDir
                     /\ src[f] = "none" => ~srcDir \/ dst[f] # "none"

\* A file a listed directory had is at the destination or has a task, or is still
\* to be handled.
Handled(j, f) == \/ src[f] = "none" \/ dst[f] # "none"
                 \/ \E u \in Ids : task[u].pc # "none" /\ task[u].job = j /\ task[u].node = f
Covered ==
    \A t \in Ids, f \in Files : task[t].node = Root =>
        /\ task[t].pc = "adding" => Handled(task[t].job, f) \/ f \in task[t].todo
        /\ task[t].pc = "uploading" =>
              Handled(task[t].job, f) \/ f \in task[t].todo \/ f = task[t].cur
        /\ task[t].pc = "succeeded" \/ (Over(t) /\ task[t].won) => Handled(task[t].job, f)

\* The request to remove is made once, and it is in one place.
Unasked == \A j \in started : TypeOf[j] = "move" =>
               \E t \in Ids : RootTask(t, j) /\ task[t].sync /\ Live(t)
OneRequest ==
    /\ group["top"].payloads \in {<<>>, <<Root>>} /\ group["sub"].payloads = <<>>
    /\ \A t \in Ids : /\ task[t].payloads \in {<<>>, <<Root>>}
                      /\ task[t].payloads # <<>> =>
                            /\ Completing(t) /\ group["top"].payloads = <<>>
                            /\ \A u \in Ids : task[u].payloads # <<>> => u = t
    /\ Unasked => /\ group["top"].payloads = <<>>
                  /\ \A t \in Ids : task[t].payloads = <<>>

\* The completion goes through files that are still there.
StillThere ==
    \A t \in Ids : task[t].pc \in {"verify", "remove"} =>
        /\ \A f \in task[t].todo : src[f] # "none"
        /\ task[t].pc = "remove" => task[t].cur \notin task[t].todo

AllThere  == \A f \in Files : src[f] = "none" \/ dst[f] # "none"
Failed(j) == \E t \in Ids : task[t].job = j /\ Over(t) /\ ~task[t].won

\* Where the request is, until the source is gone or something has failed.
InGroup(j) == /\ group["top"].payloads = <<Root>>
              /\ \E t \in Ids : /\ RootTask(t, j)
                                /\ Live(t) \/ (Over(t) /\ (task[t].won => group["top"].success))
InCompletion == /\ AllThere
                /\ \E t \in Ids : Completing(t) /\ task[t].payloads = <<Root>> /\ ~task[t].bad
ToAsk(j) == \E t \in Ids : RootTask(t, j) /\ task[t].sync /\ Live(t)
Requested ==
    \A j \in started : TypeOf[j] = "move" =>
        ~srcDir \/ Failed(j) \/ ToAsk(j) \/ InGroup(j) \/ InCompletion

MoveParts == TaskFacts /\ StorageFacts /\ Covered /\ OneRequest /\ StillThere /\ Requested
MoveInv   == Plain => MoveParts

SingleMove == \A i, j \in Jobs : TypeOf[i] = "move" /\ TypeOf[j] = "move" => i = j

-----------------------------------------------------------------------------
(* The steps of a task that goes on                                         *)

\* What was at the source or the destination stays or is explained.
DestinationGrows ==
    /\ \A f \in Files : dst'[f] = dst[f] \/ (dst'[f] = "whole" /\ dstDir')
    /\ dstDir => dstDir'

Others(t) == \A u \in Ids \ {t} : task'[u] = task[u]

LiveStep(t) ==
    /\ Live(t) /\ Live(t)' /\ Others(t)
    /\ task'[t].job = task[t].job /\ task'[t].node = task[t].node
    /\ task'[t].group = task[t].group /\ task'[t].sync = task[t].sync
    /\ task'[t].payloads = task[t].payloads /\ task'[t].bad = task[t].bad
    /\ UNCHANGED <<group, src, srcDir, started>>
    /\ DestinationGrows

\* What the step of t makes of t, on which TaskFacts and Covered depend.
NewFacts(t) ==
    /\ task'[t].pc = "adding" => task'[t].node = Root
    /\ task'[t].pc = "uploading" => /\ task'[t].cur \in Files /\ dstDir'
                                    /\ task'[t].sync \/ task'[t].cur = task'[t].node
    /\ task'[t].pc = "succeeded" => task'[t].won
    /\ task'[t].node # Root /\ task'[t].won => dst'[task'[t].node] # "none"
NewCovered(t) ==
    \A f \in Files : task[t].node = Root =>
        /\ task'[t].pc = "adding" => Handled(task[t].job, f)' \/ f \in task'[t].todo
        /\ task'[t].pc = "uploading" =>
              Handled(task[t].job, f)' \/ f \in task'[t].todo \/ f = task'[t].cur
        /\ task'[t].pc = "succeeded" => Handled(task[t].job, f)'

\* A file stays handled when the destination only grows and every task stays.
LEMMA HandledStays ==
    ASSUME NEW j, NEW f \in Files, Handled(j, f),
           src[f] = "none" => src'[f] = "none",
           dst[f] # "none" => dst'[f] # "none",
           \A u \in Ids : task[u].pc # "none" =>
               task'[u].pc # "none" /\ task'[u].job = task[u].job /\ task'[u].node = task[u].node
    PROVE  Handled(j, f)'
BY DEF Handled

LEMMA LiveHandled ==
    ASSUME NEW t \in Ids, LiveStep(t), NEW j, NEW f \in Files, Handled(j, f)
    PROVE  Handled(j, f)'
<1>1. dst[f] # "none" => dst'[f] # "none"
  BY DEF LiveStep, DestinationGrows
<1>2. ASSUME NEW u \in Ids, task[u].pc # "none"
      PROVE  task'[u].pc # "none" /\ task'[u].job = task[u].job /\ task'[u].node = task[u].node
  BY <1>2 DEF LiveStep, Live, Others
<1>3. src' = src
  BY DEF LiveStep
<1> QED BY <1>1, <1>2, <1>3, HandledStays

LEMMA LiveRunDir ==
    ASSUME TypeOK, NEW t \in Ids, RunDir(t) PROVE LiveStep(t) /\ NewFacts(t) /\ NewCovered(t)
<1>1. task \in [Ids -> Tasks] /\ task[t] \in Tasks
  BY DEF TypeOK
<1>2. /\ task[t].pc = "pending" /\ task[t].node = Root /\ Others(t)
      /\ task' = [task EXCEPT ![t].pc = "adding", ![t].todo = ToTransfer(t)]
      /\ UNCHANGED <<storages, group, started>>
  BY <1>1 DEF RunDir, Others, history
<1>3. /\ task'[t].pc = "adding" /\ task'[t].todo = ToTransfer(t)
      /\ task'[t].job = task[t].job /\ task'[t].node = task[t].node
      /\ task'[t].group = task[t].group /\ task'[t].sync = task[t].sync
      /\ task'[t].payloads = task[t].payloads /\ task'[t].bad = task[t].bad
  BY <1>1, <1>2 DEF Tasks
<1>4. LiveStep(t)
  BY <1>2, <1>3 DEF LiveStep, Live, DestinationGrows, storages
<1>5. \A f \in Files : Handled(task[t].job, f)' \/ f \in task'[t].todo
  BY <1>2, <1>3 DEF ToTransfer, Handled, storages
<1>6. NewFacts(t) /\ NewCovered(t)
  BY <1>2, <1>3, <1>5 DEF NewFacts, NewCovered
<1> QED BY <1>4, <1>6

LEMMA LiveListed ==
    ASSUME TypeOK, TaskFacts, Covered, NEW t \in Ids, Listed(t)
    PROVE  LiveStep(t) /\ NewFacts(t) /\ NewCovered(t)
<1>1. task \in [Ids -> Tasks] /\ task[t] \in Tasks
  BY DEF TypeOK
<1>2. /\ task[t].pc = "adding" /\ task[t].todo = {} /\ Others(t)
      /\ task' = [task EXCEPT ![t].pc = "succeeded", ![t].won = TRUE]
      /\ UNCHANGED <<storages, group, started>>
  BY <1>1 DEF Listed, Others, history
<1>3. /\ task'[t].pc = "succeeded" /\ task'[t].won
      /\ task'[t].job = task[t].job /\ task'[t].node = task[t].node
      /\ task'[t].group = task[t].group /\ task'[t].sync = task[t].sync
      /\ task'[t].payloads = task[t].payloads /\ task'[t].bad = task[t].bad
  BY <1>1, <1>2 DEF Tasks
<1>4. LiveStep(t)
  BY <1>2, <1>3 DEF LiveStep, Live, DestinationGrows, storages
<1>5. task[t].node = Root
  BY <1>2 DEF TaskFacts
<1>6. \A f \in Files : Handled(task[t].job, f)
  BY <1>2, <1>5 DEF Covered
<1>7. \A f \in Files : Handled(task[t].job, f)'
  <2>1. TAKE f \in Files
  <2>2. PICK j : j = task[t].job /\ Handled(j, f)
    BY <1>6
  <2> QED BY <1>3, <1>4, <2>2, LiveHandled
<1>8. NewFacts(t) /\ NewCovered(t)
  BY <1>3, <1>5, <1>7 DEF NewFacts, NewCovered
<1> QED BY <1>4, <1>8

LEMMA LiveIdle ==
    ASSUME TypeOK, TaskFacts, Covered, NEW t \in Ids, Broken(t) \/ RunAgain(t)
    PROVE  LiveStep(t) /\ NewFacts(t) /\ NewCovered(t)
<1>1. task \in [Ids -> Tasks] /\ task[t] \in Tasks
  BY DEF TypeOK
<1>2. /\ Live(t) /\ Others(t)
      /\ UNCHANGED <<storages, group, started>>
      /\ task'[t].pc \in {"errored", "pending"} /\ (task'[t].won <=> task[t].won)
      /\ task'[t].job = task[t].job /\ task'[t].node = task[t].node
      /\ task'[t].group = task[t].group /\ task'[t].sync = task[t].sync
      /\ task'[t].payloads = task[t].payloads /\ task'[t].bad = task[t].bad
  <2>1. CASE Broken(t)
    BY <1>1, <2>1 DEF Broken, Tasks, Live, Others, history
  <2>2. CASE RunAgain(t)
    BY <1>1, <2>2 DEF RunAgain, Tasks, Live, Others, history
  <2> QED BY <2>1, <2>2
<1>3. LiveStep(t)
  BY <1>2 DEF LiveStep, Live, DestinationGrows, storages
<1>4. task[t].node # Root /\ task[t].won => dst[task[t].node] # "none"
  BY <1>2 DEF TaskFacts, Live
<1>5. NewFacts(t) /\ NewCovered(t)
  BY <1>2, <1>4 DEF NewFacts, NewCovered, storages
<1> QED BY <1>3, <1>5

LEMMA LiveUploadStart ==
    ASSUME ~PartialFiles, TypeOK, TaskFacts, Covered, NEW t \in Ids, NEW f \in Files,
           UploadStart(t, f)
    PROVE  LiveStep(t) /\ NewFacts(t) /\ NewCovered(t)
<1>1. task \in [Ids -> Tasks] /\ task[t] \in Tasks
  BY DEF TypeOK
<1>2. /\ \/ task[t].pc = "pending" /\ task[t].node = f
         \/ task[t].pc = "adding" /\ task[t].sync /\ f \in task[t].todo
      /\ task' = [task EXCEPT ![t].pc = "uploading", ![t].cur = f, ![t].todo = @ \ {f}]
      /\ dst' = dst /\ dstDir' /\ UNCHANGED <<src, srcDir, group, started>>
  BY <1>1 DEF UploadStart, history
<1>3. /\ task'[t].pc = "uploading" /\ task'[t].cur = f /\ task'[t].todo = task[t].todo \ {f}
      /\ (task'[t].won <=> task[t].won) /\ Others(t)
      /\ task'[t].job = task[t].job /\ task'[t].node = task[t].node
      /\ task'[t].group = task[t].group /\ task'[t].sync = task[t].sync
      /\ task'[t].payloads = task[t].payloads /\ task'[t].bad = task[t].bad
  BY <1>1, <1>2 DEF Tasks, Others
<1>4. LiveStep(t)
  BY <1>2, <1>3 DEF LiveStep, Live, DestinationGrows
<1>5. NewFacts(t)
  <2>1. task[t].node # Root /\ task[t].won => dst[task[t].node] # "none"
    BY <1>2 DEF TaskFacts
  <2> QED BY <1>2, <1>3, <2>1 DEF NewFacts
<1>6. ASSUME NEW h \in Files, task[t].node = Root
      PROVE  Handled(task[t].job, h)' \/ h \in task'[t].todo \/ h = task'[t].cur
  <2>1. task[t].pc = "adding"
    BY <1>2, <1>6, TransferAssumption
  <2>2. Handled(task[t].job, h) \/ h \in task[t].todo
    BY <1>6, <2>1 DEF Covered
  <2>3. PICK j : j = task[t].job
    OBVIOUS
  <2> QED BY <1>3, <1>4, <2>2, <2>3, LiveHandled
<1>7. NewCovered(t)
  BY <1>3, <1>6 DEF NewCovered
<1> QED BY <1>4, <1>5, <1>7

LEMMA LiveUploadOK ==
    ASSUME TypeOK, TaskFacts, Covered, NEW t \in Ids, UploadOK(t)
    PROVE  LiveStep(t) /\ NewFacts(t) /\ NewCovered(t)
<1>1. task \in [Ids -> Tasks] /\ task[t] \in Tasks /\ dst \in [Files -> {"none", "other", "part", "whole"}]
  BY DEF TypeOK
<1>2. /\ task[t].pc = "uploading"
      /\ task' = [task EXCEPT ![t].pc = IF task[t].sync THEN "adding" ELSE "succeeded",
                              ![t].cur = Root, ![t].won = TRUE]
      /\ dst' = [dst EXCEPT ![task[t].cur] = "whole"] /\ dstDir' = dstDir
      /\ UNCHANGED <<src, srcDir, group, started>>
  BY <1>1 DEF UploadOK, history
<1>3. /\ task'[t].pc = IF task[t].sync THEN "adding" ELSE "succeeded"
      /\ task'[t].won /\ Others(t) /\ task'[t].todo = task[t].todo
      /\ task'[t].job = task[t].job /\ task'[t].node = task[t].node
      /\ task'[t].group = task[t].group /\ task'[t].sync = task[t].sync
      /\ task'[t].payloads = task[t].payloads /\ task'[t].bad = task[t].bad
  BY <1>1, <1>2 DEF Tasks, Others
<1>4. /\ task[t].cur \in Files /\ dstDir /\ (task[t].sync \/ task[t].cur = task[t].node)
      /\ (task[t].sync => task[t].node = Root)
  BY <1>2 DEF TaskFacts
<1>5. dst'[task[t].cur] = "whole" /\ \A f \in Files : dst'[f] = dst[f] \/ dst'[f] = "whole"
  BY <1>1, <1>2, <1>4
<1>6. LiveStep(t)
  BY <1>2, <1>3, <1>4, <1>5 DEF LiveStep, Live, DestinationGrows
<1>7. NewFacts(t)
  BY <1>3, <1>4, <1>5 DEF NewFacts
<1>8. ASSUME NEW h \in Files, task[t].node = Root
      PROVE  Handled(task[t].job, h)' \/ h \in task'[t].todo
  <2>1. Handled(task[t].job, h) \/ h \in task[t].todo \/ h = task[t].cur
    BY <1>2, <1>8 DEF Covered
  <2>2. PICK j : j = task[t].job
    OBVIOUS
  <2>3. CASE Handled(j, h)
    BY <1>3, <1>6, <2>2, <2>3, LiveHandled
  <2>4. CASE h = task[t].cur
    <3>1. dst'[h] # "none"
      BY <1>5, <2>4
    <3> QED BY <3>1 DEF Handled
  <2> QED BY <1>3, <2>1, <2>2, <2>3, <2>4
<1>9. task[t].node = Root => task'[t].pc = "adding"
  BY <1>3, <1>4, TransferAssumption
<1>10. NewCovered(t)
  BY <1>8, <1>9 DEF NewCovered
<1> QED BY <1>6, <1>7, <1>10

LEMMA LiveUploadFailed ==
    ASSUME ~PartialFiles, TypeOK, TaskFacts, Covered, NEW t \in Ids, UploadFailed(t)
    PROVE  LiveStep(t) /\ NewFacts(t) /\ NewCovered(t)
<1>1. task \in [Ids -> Tasks] /\ task[t] \in Tasks
  BY DEF TypeOK
<1>2. /\ task[t].pc = "uploading"
      /\ task' = [task EXCEPT ![t].pc = "errored", ![t].cur = Root, ![t].todo = {}]
      /\ dst' = dst /\ UNCHANGED <<src, srcDir, dstDir, group, started>>
  BY <1>1 DEF UploadFailed, history
<1>3. /\ task'[t].pc = "errored" /\ (task'[t].won <=> task[t].won) /\ Others(t)
      /\ task'[t].job = task[t].job /\ task'[t].node = task[t].node
      /\ task'[t].group = task[t].group /\ task'[t].sync = task[t].sync
      /\ task'[t].payloads = task[t].payloads /\ task'[t].bad = task[t].bad
  BY <1>1, <1>2 DEF Tasks, Others
<1>4. LiveStep(t)
  BY <1>2, <1>3 DEF LiveStep, Live, DestinationGrows
<1>5. task[t].node # Root /\ task[t].won => dst[task[t].node] # "none"
  BY <1>2 DEF TaskFacts
<1>6. NewFacts(t) /\ NewCovered(t)
  BY <1>2, <1>3, <1>5 DEF NewFacts, NewCovered
<1> QED BY <1>4, <1>6

-----------------------------------------------------------------------------
(* A live step keeps every part                                             *)

LEMMA LiveKeepsFacts ==
    ASSUME TypeOK, TaskFacts, NEW t \in Ids, LiveStep(t), NewFacts(t)
    PROVE  TaskFacts'
<1>1. \A u \in Ids : /\ task'[u].pc # "none" <=> task[u].pc # "none"
                     /\ task'[u].job = task[u].job /\ task'[u].node = task[u].node
                     /\ task'[u].group = task[u].group /\ (task'[u].sync <=> task[u].sync)
                     /\ (task'[u].bad <=> task[u].bad)
  BY DEF LiveStep, Others, Live
<1>2. \A u, v \in Ids : task'[u].pc # "none" /\ task'[u].node = Root
                        /\ RootTask(v, task[u].job)' => v = u
  <2>1. \A j : \A v \in Ids : RootTask(v, j)' <=> RootTask(v, j)
    BY <1>1 DEF RootTask
  <2>2. ASSUME NEW u \in Ids, NEW v \in Ids, task'[u].pc # "none", task'[u].node = Root,
               RootTask(v, task[u].job)'
        PROVE  v = u
    <3>1. RootTask(v, task[u].job)
      BY <1>1, <2>2 DEF RootTask
    <3> QED BY <1>1, <2>2, <3>1 DEF TaskFacts
  <2> QED BY <2>2
<1>3. /\ started' = started /\ (dstDir => dstDir')
      /\ \A f \in Files : dst[f] # "none" => dst'[f] # "none"
  BY DEF LiveStep, DestinationGrows
<1>4. ASSUME NEW u \in Ids, task'[u].pc # "none"
      PROVE  /\ task'[u].job \in started' /\ task'[u].group = "top"
             /\ task'[u].sync => task'[u].node = Root
             /\ task'[u].node = Root => \A v \in Ids : RootTask(v, task[u].job)' => v = u
  BY <1>1, <1>2, <1>3, <1>4 DEF TaskFacts
<1>5. ASSUME NEW u \in Ids, task'[u].pc # "none", u # t
      PROVE  /\ task'[u].pc = "adding" => task'[u].node = Root
             /\ task'[u].pc = "uploading" => /\ task'[u].cur \in Files /\ dstDir'
                                             /\ task'[u].sync \/ task'[u].cur = task'[u].node
             /\ task'[u].pc = "succeeded" => task'[u].won
             /\ task'[u].node # Root /\ task'[u].won => dst'[task'[u].node] # "none"
             /\ task'[u].pc = "remove" => dst'[task'[u].cur] # "none"
             /\ task'[u].bad => task'[u].pc \in {"verify", "remove"}
  <2>1. task'[u] = task[u]
    BY <1>5 DEF LiveStep, Others
  <2>2. task[u].node \in Nodes /\ (task[u].pc = "remove" => task[u].cur \in Files)
    BY DEF TypeOK, Tasks
  <2> QED BY <1>3, <1>5, <2>1, <2>2 DEF TaskFacts
<1>6. ASSUME task'[t].pc # "none"
      PROVE  task'[t].bad => task'[t].pc \in {"verify", "remove"}
  BY DEF TaskFacts, LiveStep, Live
<1> QED BY <1>4, <1>5, <1>6 DEF TaskFacts, LiveStep, NewFacts, Live

LEMMA LiveKeepsStorage ==
    ASSUME StorageFacts, NEW t \in Ids, LiveStep(t)
    PROVE  StorageFacts'
BY DEF StorageFacts, LiveStep, DestinationGrows

LEMMA LiveKeepsCovered ==
    ASSUME Covered, NEW t \in Ids, LiveStep(t), NewCovered(t)
    PROVE  Covered'
<1>1. ASSUME NEW u \in Ids, NEW f \in Files, task'[u].node = Root
      PROVE  /\ task'[u].pc = "adding" => Handled(task[u].job, f)' \/ f \in task'[u].todo
             /\ task'[u].pc = "uploading" =>
                   Handled(task[u].job, f)' \/ f \in task'[u].todo \/ f = task'[u].cur
             /\ task'[u].pc = "succeeded" \/ (Over(u)' /\ task'[u].won) => Handled(task[u].job, f)'
  <2>1. CASE u = t
    BY <1>1, <2>1 DEF NewCovered, LiveStep, Live, Over
  <2>2. CASE u # t
    <3>1. task'[u] = task[u]
      BY <2>2 DEF LiveStep, Others
    <3>2. PICK j : j = task[u].job
      OBVIOUS
    <3>3. Handled(j, f) => Handled(j, f)'
      BY LiveHandled
    <3> QED BY <1>1, <3>1, <3>2, <3>3 DEF Covered, Over
  <2> QED BY <2>1, <2>2
<1> QED BY <1>1 DEF Covered

\* What the request depends on, for a step that leaves the other tasks alone.
LEMMA LiveKeepsRequest ==
    ASSUME OneRequest, StillThere, Requested, NEW t \in Ids, LiveStep(t)
    PROVE  OneRequest' /\ StillThere' /\ Requested'
<1>1. \A u \in Ids : /\ task'[u].pc # "none" <=> task[u].pc # "none"
                     /\ task'[u].job = task[u].job /\ task'[u].node = task[u].node
                     /\ (task'[u].sync <=> task[u].sync) /\ (Live(u)' <=> Live(u))
                     /\ task'[u].payloads = task[u].payloads
                     /\ Completing(u) => task'[u] = task[u]
                     /\ Completing(u)' <=> Completing(u)
                     /\ Over(u)' <=> Over(u)
                     /\ Over(u) => task'[u] = task[u]
  BY DEF LiveStep, Others, Live, Completing, Over
<1>2. \A j : \A u \in Ids : RootTask(u, j)' <=> RootTask(u, j)
  BY <1>1 DEF RootTask
<1>3. /\ started' = started /\ group' = group /\ src' = src /\ srcDir' = srcDir
      /\ \A f \in Files : dst[f] # "none" => dst'[f] # "none"
  BY DEF LiveStep, DestinationGrows
<1>4. Unasked' => Unasked
  BY <1>1, <1>2, <1>3 DEF Unasked
<1>5. OneRequest'
  <2>1. \A u \in Ids : task[u].payloads # <<>> => Completing(u)
    BY DEF OneRequest
  <2>2. \A u \in Ids : Completing(u) => Completing(u)'
    BY <1>1
  <2> QED BY <1>1, <1>3, <1>4, <2>1, <2>2 DEF OneRequest
<1>6. StillThere'
  <2>1. ASSUME NEW u \in Ids, task'[u].pc \in {"verify", "remove"}
        PROVE  task'[u] = task[u]
    BY <1>1, <2>1 DEF Completing
  <2> QED BY <1>3, <2>1 DEF StillThere
<1>7. ASSUME NEW j \in started, TypeOf[j] = "move"
      PROVE  ~srcDir' \/ Failed(j)' \/ ToAsk(j)' \/ InGroup(j)' \/ InCompletion'
  <2>1. ~srcDir \/ Failed(j) \/ ToAsk(j) \/ InGroup(j) \/ InCompletion
    BY <1>7 DEF Requested
  <2>2. Failed(j) => Failed(j)'
    BY <1>1 DEF Failed
  <2>3. ToAsk(j) => ToAsk(j)'
    BY <1>1, <1>2 DEF ToAsk
  <2>4. InGroup(j) => InGroup(j)'
    BY <1>1, <1>2, <1>3 DEF InGroup
  <2>5. InCompletion => InCompletion'
    <3>1. AllThere => AllThere'
      BY <1>3 DEF AllThere
    <3>2. \A u \in Ids : Completing(u) => Completing(u)' /\ task'[u] = task[u]
      BY <1>1
    <3> QED BY <3>1, <3>2 DEF InCompletion
  <2> QED BY <1>3, <2>1, <2>2, <2>3, <2>4, <2>5
<1> QED BY <1>3, <1>5, <1>6, <1>7 DEF Requested

-----------------------------------------------------------------------------
(* A new task                                                               *)

Same(u) == /\ task'[u].pc = task[u].pc /\ task'[u].job = task[u].job
           /\ task'[u].node = task[u].node /\ task'[u].group = task[u].group
           /\ (task'[u].sync <=> task[u].sync) /\ task'[u].cur = task[u].cur
           /\ (task'[u].won <=> task[u].won) /\ (task'[u].bad <=> task[u].bad)
           /\ task'[u].payloads = task[u].payloads
           /\ task[u].pc # "adding" => task'[u].todo = task[u].todo

\* Task n comes into being, for a node of the transfer of job j.
Born(n, j, k) ==
    /\ n \in Ids /\ task[n].pc = "none"
    /\ task'[n].pc = "pending" /\ task'[n].job = j /\ task'[n].node = k
    /\ task'[n].group = "top" /\ ~task'[n].won /\ ~task'[n].bad /\ task'[n].payloads = <<>>
    /\ \A u \in Ids \ {n} : Same(u)
    /\ UNCHANGED storages

LEMMA NewTaskFields ==
    ASSUME NEW j \in Jobs \cup {NoJob}, NEW k \in Nodes, NEW g \in GroupIds
    PROVE  /\ NewTask(j, k, g, "pending") \in Tasks
           /\ NewTask(j, k, g, "pending").pc = "pending" /\ NewTask(j, k, g, "pending").job = j
           /\ NewTask(j, k, g, "pending").node = k /\ NewTask(j, k, g, "pending").group = g
           /\ ~NewTask(j, k, g, "pending").sync /\ ~NewTask(j, k, g, "pending").won
           /\ ~NewTask(j, k, g, "pending").bad /\ NewTask(j, k, g, "pending").payloads = <<>>
<1>1. <<>> \in Seq(Nodes)
  OBVIOUS
<1>2. NoTask \in Tasks /\ NoTask.won = FALSE /\ NoTask.bad = FALSE /\ NoTask.sync = FALSE
      /\ NoTask.payloads = <<>>
  BY <1>1 DEF NoTask, Tasks
<1> QED BY <1>2 DEF NewTask, Tasks

\* AddTask and AppendPayload put the payloads at the end.
LEMMA Asking ==
    ASSUME NEW x \in Groups, NEW ps \in Seq(Nodes)
    PROVE  /\ AddTask(x, ps).payloads = x.payloads \o ps
           /\ AddTask(x, ps).success = x.success
           /\ AppendPayload(x, ps).payloads = x.payloads \o ps
           /\ AppendPayload(x, ps).success = x.success
<1>1. AddTask(x, ps) = [x EXCEPT !.pending = x.pending + 1, !.payloads = x.payloads \o ps]
  BY DEF AddTask
<1> QED BY <1>1 DEF AppendPayload, Groups

LEMMA NothingAsked == ASSUME NEW s \in Seq(Nodes) PROVE s \o <<>> = s /\ <<>> \o s = s
OBVIOUS

LEMMA BornKeepsFacts ==
    ASSUME TypeOK, TaskFacts, NEW n \in Ids, NEW j, NEW k \in Nodes, Born(n, j, k),
           j \in started', started \subseteq started',
           task'[n].sync => k = Root,
           k = Root => \A u \in Ids : task[u].pc # "none" => task[u].job # j
    PROVE  TaskFacts'
<1>1. \A u \in Ids \ {n} : Same(u)
  BY DEF Born
<1>2. \A i : \A u \in Ids \ {n} : RootTask(u, i)' <=> RootTask(u, i)
  BY <1>1 DEF RootTask, Same
<1>3. \A i : RootTask(n, i)' <=> i = j /\ k = Root
  BY DEF RootTask, Born
<1>4. ASSUME NEW u \in Ids \ {n}, task'[u].pc # "none"
      PROVE  /\ task'[u].job \in started' /\ task'[u].group = "top"
             /\ task'[u].sync => task'[u].node = Root
             /\ task'[u].node = Root => \A v \in Ids : RootTask(v, task[u].job)' => v = u
  <2>1. Same(u) /\ task[u].pc # "none"
    BY <1>1, <1>4 DEF Same
  <2>2. /\ task[u].job \in started /\ task[u].group = "top"
        /\ task[u].sync => task[u].node = Root
        /\ task[u].node = Root => \A v \in Ids : RootTask(v, task[u].job) => v = u
    BY <2>1 DEF TaskFacts
  <2>3. ASSUME task'[u].node = Root, NEW v \in Ids, RootTask(v, task[u].job)'
        PROVE  v = u
    <3>1. PICK i : i = task[u].job
      OBVIOUS
    <3>2. task'[u].job = i /\ task[u].node = Root
      BY <2>1, <2>3, <3>1 DEF Same
    <3>3. CASE v = n
      BY <1>3, <2>1, <2>3, <3>1, <3>2, <3>3
    <3>4. CASE v # n
      BY <1>2, <2>2, <2>3, <3>1, <3>2, <3>4
    <3> QED BY <3>3, <3>4
  <2> QED BY <2>1, <2>2, <2>3 DEF Same
<1>5. ASSUME NEW u \in Ids \ {n}, task'[u].pc # "none"
      PROVE  /\ task'[u].pc = "adding" => task'[u].node = Root
             /\ task'[u].pc = "uploading" => /\ task'[u].cur \in Files /\ dstDir'
                                             /\ task'[u].sync \/ task'[u].cur = task'[u].node
             /\ task'[u].pc = "succeeded" => task'[u].won
             /\ task'[u].node # Root /\ task'[u].won => dst'[task'[u].node] # "none"
             /\ task'[u].pc = "remove" => dst'[task'[u].cur] # "none"
             /\ task'[u].bad => task'[u].pc \in {"verify", "remove"}
  <2>1. Same(u) /\ task[u].pc # "none" /\ UNCHANGED storages
    BY <1>1, <1>5 DEF Same, Born
  <2> QED BY <2>1 DEF Same, TaskFacts, storages
<1>6. ASSUME NEW v \in Ids, RootTask(v, j)', k = Root PROVE v = n
  <2>1. CASE v # n
    <3>1. RootTask(v, j)
      BY <1>2, <1>6, <2>1
    <3> QED BY <1>6, <3>1 DEF RootTask
  <2> QED BY <2>1
<1>7. /\ task'[n].job \in started' /\ task'[n].group = "top"
      /\ task'[n].sync => task'[n].node = Root
      /\ task'[n].node = Root => \A v \in Ids : RootTask(v, task[n].job)' => v = n
  <2>1. task'[n].job = j /\ task'[n].node = k /\ task'[n].group = "top"
    BY DEF Born
  <2> QED BY <1>6, <2>1
<1>8. task'[n].pc = "pending" /\ ~task'[n].won /\ ~task'[n].bad
  BY DEF Born
<1> QED BY <1>4, <1>5, <1>7, <1>8 DEF TaskFacts

LEMMA BornKeepsStorage ==
    ASSUME StorageFacts, NEW n, NEW j, NEW k, Born(n, j, k)
    PROVE  StorageFacts'
BY DEF StorageFacts, Born, storages

LEMMA BornHandled ==
    ASSUME NEW n, NEW j, NEW k, Born(n, j, k), NEW i, NEW f \in Files, Handled(i, f)
    PROVE  Handled(i, f)'
<1>1. ASSUME NEW u \in Ids, task[u].pc # "none"
      PROVE  task'[u].pc # "none" /\ task'[u].job = task[u].job /\ task'[u].node = task[u].node
  BY <1>1 DEF Born, Same
<1> QED BY <1>1, HandledStays DEF Born, storages

\* A file leaves the list of its directory for a task of its own.
LEMMA BornKeepsCovered ==
    ASSUME Covered, NEW n \in Ids, NEW j, NEW k, Born(n, j, k),
           \A u \in Ids \ {n} : /\ task'[u].todo \subseteq task[u].todo
                                /\ task[u].todo \ task'[u].todo # {} =>
                                      task[u].job = j /\ task[u].todo \ task'[u].todo = {k}
    PROVE  Covered'
<1>1. ASSUME NEW u \in Ids, NEW f \in Files, task'[u].node = Root
      PROVE  /\ task'[u].pc = "adding" => Handled(task[u].job, f)' \/ f \in task'[u].todo
             /\ task'[u].pc = "uploading" =>
                   Handled(task[u].job, f)' \/ f \in task'[u].todo \/ f = task'[u].cur
             /\ task'[u].pc = "succeeded" \/ (Over(u)' /\ task'[u].won) => Handled(task[u].job, f)'
  <2>1. CASE u = n
    BY <1>1, <2>1 DEF Born, Over
  <2>2. CASE u # n
    <3>1. Same(u)
      BY <2>2 DEF Born
    <3>2. PICK i : i = task[u].job /\ i = task'[u].job
      BY <3>1 DEF Same
    <3>3. Handled(i, f) => Handled(i, f)'
      BY BornHandled
    <3>4. f \in task[u].todo /\ f \notin task'[u].todo => Handled(i, f)'
      <4>1. SUFFICES ASSUME f \in task[u].todo \ task'[u].todo PROVE Handled(i, f)'
        OBVIOUS
      <4>2. i = j /\ f = k
        BY <2>2, <3>2, <4>1
      <4>3. task'[n].pc # "none" /\ task'[n].job = i /\ task'[n].node = f
        BY <4>2 DEF Born
      <4> QED BY <4>3 DEF Handled
    <3> QED BY <1>1, <3>1, <3>2, <3>3, <3>4 DEF Covered, Over, Same
  <2> QED BY <2>1, <2>2
<1> QED BY <1>1 DEF Covered

\* The transfer of the new task has asked for the removal, will ask for it at its
\* end, or belongs to a transfer that was started before.
LEMMA BornKeepsRequest ==
    ASSUME OneRequest, StillThere, Requested, NEW n \in Ids, NEW j, NEW k, Born(n, j, k),
           started \subseteq started',
           group'["sub"].payloads = group["sub"].payloads,
           group'["top"].success <=> group["top"].success,
           \A i \in started : TypeOf[i] = "move" => ~RootTask(n, i)',
           \/ /\ group'["top"].payloads = group["top"].payloads
              /\ \A i \in started' \ started :
                     TypeOf[i] = "move" => RootTask(n, i)' /\ task'[n].sync
           \/ /\ group'["top"].payloads = <<Root>> /\ Unasked /\ ~Unasked'
              /\ \A i \in started' \ started : RootTask(n, i)'
    PROVE  OneRequest' /\ StillThere' /\ Requested'
<1>1. /\ \A u \in Ids \ {n} : Same(u)
      /\ task'[n].payloads = <<>> /\ task[n].pc = "none" /\ Live(n)' /\ ~Live(n)
      /\ task'[n].pc = "pending" /\ UNCHANGED storages
  BY DEF Born, Live
<1>2. \A u \in Ids \ {n} : /\ Live(u)' <=> Live(u)
                           /\ Completing(u)' <=> Completing(u)
                           /\ Over(u)' <=> Over(u)
                           /\ \A i : RootTask(u, i)' <=> RootTask(u, i)
  BY <1>1 DEF Same, Live, Completing, Over, RootTask
<1>3. ASSUME Unasked' PROVE Unasked
  <2>1. ASSUME NEW i \in started, TypeOf[i] = "move"
        PROVE  \E u \in Ids : RootTask(u, i) /\ task[u].sync /\ Live(u)
    <3>1. PICK u \in Ids : RootTask(u, i)' /\ task'[u].sync /\ Live(u)'
      BY <1>3, <2>1 DEF Unasked
    <3>2. u # n
      BY <2>1, <3>1
    <3> QED BY <1>1, <1>2, <3>1, <3>2 DEF Same
  <2> QED BY <2>1 DEF Unasked
<1>4. \A u \in Ids : task'[u].payloads # <<>> => u # n /\ task[u].payloads # <<>>
  BY <1>1 DEF Same
<1>5. OneRequest'
  <2>1. group'["top"].payloads \in {<<>>, <<Root>>} /\ group'["sub"].payloads = <<>>
    BY DEF OneRequest
  <2>2. ASSUME NEW u \in Ids
        PROVE  /\ task'[u].payloads \in {<<>>, <<Root>>}
               /\ task'[u].payloads # <<>> =>
                     /\ Completing(u)' /\ group'["top"].payloads = <<>>
                     /\ \A v \in Ids : task'[v].payloads # <<>> => v = u
    <3>1. task'[u].payloads \in {<<>>, <<Root>>}
      BY <1>1 DEF Same, OneRequest
    <3>2. ASSUME task'[u].payloads # <<>>
          PROVE  /\ Completing(u)' /\ group'["top"].payloads = <<>>
                 /\ \A v \in Ids : task'[v].payloads # <<>> => v = u
      <4>1. u # n /\ task[u].payloads # <<>> /\ ~Unasked
        BY <1>4, <3>2 DEF OneRequest
      <4> QED BY <1>2, <1>4, <4>1 DEF OneRequest
    <3> QED BY <3>1, <3>2
  <2>3. Unasked' => group'["top"].payloads = <<>> /\ \A u \in Ids : task'[u].payloads = <<>>
    BY <1>1, <1>3, <1>4 DEF OneRequest
  <2> QED BY <2>1, <2>2, <2>3 DEF OneRequest
<1>6. StillThere'
  <2>1. ASSUME NEW u \in Ids, task'[u].pc \in {"verify", "remove"}
        PROVE  /\ \A f \in task'[u].todo : src'[f] # "none"
               /\ task'[u].pc = "remove" => task'[u].cur \notin task'[u].todo
    <3>1. u # n
      BY <1>1, <2>1
    <3> QED BY <1>1, <2>1, <3>1 DEF Same, StillThere, storages
  <2> QED BY <2>1 DEF StillThere
<1>7. ASSUME NEW i \in started', TypeOf[i] = "move"
      PROVE  ~srcDir' \/ Failed(i)' \/ ToAsk(i)' \/ InGroup(i)' \/ InCompletion'
  <2>1. CASE i \in started
    <3>1. ~srcDir \/ Failed(i) \/ ToAsk(i) \/ InGroup(i) \/ InCompletion
      BY <1>7, <2>1 DEF Requested
    <3>2. Failed(i) => Failed(i)'
      <4>1. \A u \in Ids : Over(u) => u # n
        BY <1>1 DEF Over
      <4> QED BY <1>1, <1>2, <4>1 DEF Failed, Same
    <3>3. \A u \in Ids : RootTask(u, i) => u # n
      BY <1>1 DEF RootTask
    <3>4. ToAsk(i) => ToAsk(i)'
      BY <1>1, <1>2, <3>3 DEF ToAsk, Same
    <3>5. InGroup(i) => InGroup(i)'
      BY <1>1, <1>2, <3>3 DEF InGroup, Same
    <3>6. InCompletion => InCompletion'
      <4>1. AllThere' <=> AllThere
        BY <1>1 DEF AllThere, storages
      <4>2. \A u \in Ids : Completing(u) => u # n
        BY <1>1 DEF Completing
      <4> QED BY <1>1, <1>2, <4>1, <4>2 DEF InCompletion, Same
    <3> QED BY <1>1, <3>1, <3>2, <3>4, <3>5, <3>6 DEF storages
  <2>2. CASE i \notin started
    <3>1. RootTask(n, i)'
      BY <1>7, <2>2
    <3> QED BY <1>1, <1>7, <2>2, <3>1 DEF ToAsk, InGroup
  <2> QED BY <2>1, <2>2
<1> QED BY <1>5, <1>6, <1>7 DEF Requested

LEMMA StartParts ==
    ASSUME SingleMove, TypeOK, IdsInOrder, MoveParts, NEW j \in Jobs, NEW sync \in BOOLEAN,
           Start(j, sync)
    PROVE  MoveParts'
<1> DEFINE m  == NewTask(j, Root, "top", "pending")
           r  == [m EXCEPT !.sync = sync]
           ps == IF TypeOf[j] = "move" /\ ~sync THEN <<Root>> ELSE <<>>
           x  == group["top"]
           y  == AppendPayload(AddTask(x, <<>>), ps)
<1>0. task \in [Ids -> Tasks] /\ group \in [GroupIds -> Groups] /\ x \in Groups
      /\ started \subseteq Jobs
  BY DEF TypeOK
<1>p. TaskFacts /\ StorageFacts /\ Covered /\ OneRequest /\ StillThere /\ Requested
  BY DEF MoveParts
<1>1. /\ NextId \in Ids /\ task' = [task EXCEPT ![NextId] = r] /\ group' = [group EXCEPT !["top"] = y]
      /\ j \notin started /\ started' = started \cup {j} /\ UNCHANGED storages
  BY DEF Start
<1>2. PICK n \in Ids : n = NextId
  BY <1>1
<1>3. task[n].pc = "none"
  BY <1>2, NextIdFresh DEF Used
<1>4. /\ m \in Tasks /\ m.pc = "pending" /\ m.job = j /\ m.node = Root /\ m.group = "top"
      /\ ~m.sync /\ ~m.won /\ ~m.bad /\ m.payloads = <<>>
  <2>1. j \in Jobs \cup {NoJob} /\ Root \in Nodes /\ "top" \in GroupIds
    OBVIOUS
  <2> HIDE DEF Nodes, GroupIds
  <2> QED BY <2>1, NewTaskFields
<1> HIDE DEF m
<1>5. /\ r.pc = "pending" /\ r.job = j /\ r.node = Root /\ r.group = "top"
      /\ (r.sync <=> sync) /\ ~r.won /\ ~r.bad /\ r.payloads = <<>>
  BY <1>4 DEF Tasks
<1> HIDE DEF r
<1>6. task'[n] = r /\ \A u \in Ids \ {n} : task'[u] = task[u]
  BY <1>0, <1>1, <1>2
<1>7. /\ y.payloads = x.payloads \o ps /\ y.success = x.success
      /\ x.payloads = <<>> => y.payloads = ps
      /\ ps = <<>> => y.payloads = x.payloads
  <2>1. x.payloads \in Seq(Nodes) /\ ps \in Seq(Nodes) /\ <<>> \in Seq(Nodes)
    BY <1>0, SeqTypes DEF Groups
  <2> DEFINE z == AddTask(x, <<>>)
  <2>2. z \in Groups
    BY <1>0, <2>1, GroupTypes
  <2>3. z.payloads = x.payloads \o <<>> /\ z.success = x.success
    BY <1>0, <2>1, Asking
  <2>4. z.payloads = x.payloads
    BY <2>1, <2>3, NothingAsked
  <2> HIDE DEF x, z, ps
  <2>5. y.payloads = z.payloads \o ps /\ y.success = z.success
    BY <2>1, <2>2, Asking DEF z
  <2> HIDE DEF y
  <2>6. y.payloads = x.payloads \o ps /\ y.success = x.success
    BY <2>3, <2>4, <2>5
  <2> QED BY <2>1, <2>6, NothingAsked
<1> HIDE DEF x, y
<1>8. group'["top"] = y /\ group'["sub"] = group["sub"] /\ group["top"] = x
  BY <1>0, <1>1 DEF x
<1>9. Born(n, j, Root)
  BY <1>1, <1>3, <1>5, <1>6 DEF Born, Same
<1>10. TaskFacts'
  <2>1. \A u \in Ids : task[u].pc # "none" => task[u].job # j
    BY <1>p, <1>1 DEF TaskFacts
  <2> QED BY <1>p, <1>1, <1>9, <2>1, BornKeepsFacts
<1>11. StorageFacts' /\ Covered'
  <2>1. \A u \in Ids \ {n} : task'[u].todo = task[u].todo
    BY <1>6
  <2> QED BY <1>p, <1>9, <2>1, BornKeepsStorage, BornKeepsCovered
<1>12. OneRequest' /\ StillThere' /\ Requested'
  <2>1. RootTask(n, j)' /\ \A i : RootTask(n, i)' => i = j
    BY <1>5, <1>6 DEF RootTask
  <2>2. \A i \in started' \ started : i = j
    BY <1>1
  <2>3. CASE TypeOf[j] = "move" /\ ~sync
    <3>1. Unasked
      BY <1>0, <1>1, <2>3 DEF Unasked, SingleMove
    <3>2. ~Unasked'
      <4>1. \A u \in Ids : RootTask(u, j)' => u = n
        <5>1. ASSUME NEW u \in Ids, u # n, RootTask(u, j)' PROVE FALSE
          BY <1>p, <1>1, <1>6, <5>1 DEF RootTask, TaskFacts
        <5> QED BY <5>1
      <4>2. ~task'[n].sync
        BY <1>5, <1>6, <2>3
      <4> QED BY <1>1, <2>3, <4>1, <4>2 DEF Unasked
    <3>3. group'["top"].payloads = <<Root>>
      BY <1>p, <1>7, <1>8, <2>3, <3>1 DEF OneRequest, ps
    <3> QED BY <1>p, <1>1, <1>7, <1>8, <1>9, <2>1, <2>2, <3>1, <3>2, <3>3, BornKeepsRequest
  <2>4. CASE ~(TypeOf[j] = "move" /\ ~sync)
    <3>1. group'["top"].payloads = group["top"].payloads
      BY <1>7, <1>8, <2>4 DEF ps
    <3>2. \A i \in started' \ started : TypeOf[i] = "move" => RootTask(n, i)' /\ task'[n].sync
      BY <1>5, <1>6, <2>1, <2>2, <2>4
    <3>3. \A i \in started : TypeOf[i] = "move" => ~RootTask(n, i)'
      BY <1>1, <2>1
    <3> QED BY <1>p, <1>1, <1>7, <1>8, <1>9, <3>1, <3>2, <3>3, BornKeepsRequest
  <2> QED BY <2>3, <2>4
<1> QED BY <1>10, <1>11, <1>12 DEF MoveParts

LEMMA AddNextParts ==
    ASSUME TypeOK, IdsInOrder, MoveParts, NEW t \in Ids, AddNext(t)
    PROVE  MoveParts'
<1>0. task \in [Ids -> Tasks] /\ group \in [GroupIds -> Groups] /\ task[t] \in Tasks
  BY DEF TypeOK
<1>p. TaskFacts /\ StorageFacts /\ Covered /\ OneRequest /\ StillThere /\ Requested
  BY DEF MoveParts
<1>1. PICK f \in task[t].todo :
         /\ task' = [task EXCEPT ![t].todo = @ \ {f},
                                 ![NextId] = NewTask(task[t].job, f, task[t].group, "pending")]
         /\ group' = [group EXCEPT ![task[t].group] = AddTask(@, <<>>)]
  BY DEF AddNext
<1>2. NextId \in Ids /\ task[t].pc = "adding" /\ UNCHANGED storages /\ started' = started
  BY DEF AddNext, history
<1>3. PICK n \in Ids : n = NextId
  BY <1>2
<1>4. task[n].pc = "none" /\ n # t
  BY <1>2, <1>3, NextIdFresh DEF Used
<1>5. task[t].group = "top" /\ task[t].job \in started
  BY <1>p, <1>2 DEF TaskFacts
<1>6. PICK j \in Jobs \cup {NoJob} : j = task[t].job
  BY <1>0 DEF Tasks
<1>7. f \in Files /\ f \in Nodes /\ f # Root
  BY <1>0, TransferAssumption DEF Tasks
<1> DEFINE m == NewTask(j, f, "top", "pending")
           r == [task[t] EXCEPT !.todo = @ \ {f}]
           x == group["top"]
           y == AddTask(x, <<>>)
<1>8. /\ m.pc = "pending" /\ m.job = j /\ m.node = f /\ m.group = "top"
      /\ ~m.sync /\ ~m.won /\ ~m.bad /\ m.payloads = <<>>
  <2>1. "top" \in GroupIds
    OBVIOUS
  <2> HIDE DEF Nodes, GroupIds
  <2> QED BY <1>7, <2>1, NewTaskFields
<1>9. task' = [[task EXCEPT ![t] = r] EXCEPT ![n] = m] /\ group' = [group EXCEPT !["top"] = y]
  BY <1>0, <1>1, <1>3, <1>5, <1>6
<1>10. /\ r.pc = task[t].pc /\ r.job = j /\ r.node = task[t].node /\ r.group = task[t].group
       /\ (r.sync <=> task[t].sync) /\ r.cur = task[t].cur /\ (r.won <=> task[t].won)
       /\ (r.bad <=> task[t].bad) /\ r.payloads = task[t].payloads
       /\ r.todo = task[t].todo \ {f}
  BY <1>0, <1>6 DEF Tasks
<1> HIDE DEF m, r
<1>11. /\ task'[n] = m /\ task'[t] = r
       /\ \A u \in Ids \ {n, t} : task'[u] = task[u]
  BY <1>0, <1>4, <1>9
<1>12. y.payloads = x.payloads /\ y.success = x.success
  <2>1. x \in Groups /\ x.payloads \in Seq(Nodes) /\ <<>> \in Seq(Nodes)
    BY <1>0, SeqTypes DEF Groups
  <2>2. y.payloads = x.payloads \o <<>> /\ y.success = x.success
    BY <2>1, Asking
  <2> QED BY <2>1, <2>2, NothingAsked
<1> HIDE DEF y
<1>13. group'["top"] = y /\ group'["sub"] = group["sub"]
  BY <1>0, <1>9
<1>14. Same(t)
  BY <1>2, <1>6, <1>10, <1>11 DEF Same
<1>15. Born(n, j, f)
  BY <1>2, <1>4, <1>8, <1>11, <1>14 DEF Born, Same
<1>16. TaskFacts'
  BY <1>p, <1>2, <1>5, <1>6, <1>7, <1>8, <1>11, <1>15, BornKeepsFacts
<1>17. StorageFacts' /\ Covered'
  <2>1. \A u \in Ids \ {n} : /\ task'[u].todo \subseteq task[u].todo
                             /\ task[u].todo \ task'[u].todo # {} =>
                                   task[u].job = j /\ task[u].todo \ task'[u].todo = {f}
    BY <1>1, <1>6, <1>10, <1>11
  <2> QED BY <1>p, <1>15, <2>1, BornKeepsStorage, BornKeepsCovered
<1>18. \A i : ~RootTask(n, i)'
  BY <1>7, <1>8, <1>11 DEF RootTask
<1>19. OneRequest' /\ StillThere' /\ Requested'
  BY <1>p, <1>2, <1>12, <1>13, <1>15, <1>18, BornKeepsRequest
<1> QED BY <1>16, <1>17, <1>19 DEF MoveParts

-----------------------------------------------------------------------------
(* The end of a task                                                        *)

Succeeds(t) == IF task[t].sync THEN task[t].won ELSE task[t].pc = "succeeded"
Asks(t)     == IF task[t].sync THEN Removal(t) ELSE <<>>
Asked(t)    == group["top"].payloads \o Asks(t)

Last(t) == group["top"].pending = 1 /\ (group["top"].success \/ Succeeds(t))

Ends(t) ==
    /\ Live(t) /\ Over(t)' /\ Others(t) /\ UNCHANGED <<storages, started>>
    /\ task'[t].job = task[t].job /\ task'[t].node = task[t].node
    /\ task'[t].group = task[t].group /\ (task'[t].sync <=> task[t].sync)
    /\ (task'[t].won <=> task[t].pc = "succeeded") /\ (task'[t].bad <=> task[t].bad)
    /\ task'[t].pc = IF Last(t) THEN "complete" ELSE "ended"
    /\ task'[t].payloads = IF Last(t) THEN Asked(t) ELSE task[t].payloads
    /\ group'["sub"] = group["sub"]
    /\ group["top"].pending = 1 => group'["top"].pending = 0 /\ group'["top"].payloads = <<>>
    /\ group["top"].pending > 1 =>
          /\ group'["top"].payloads = Asked(t)
          /\ group["top"].success \/ Succeeds(t) => group'["top"].success

LEMMA FinishEnds ==
    ASSUME TypeOK, GroupCountsTasks, TaskFacts, NEW t \in Ids, Finish(t)
    PROVE  Ends(t) /\ group["top"].pending \in Nat /\ group["top"].pending >= 1
<1> DEFINE success == Succeeds(t)
           ps      == Asks(t)
           g       == group["top"]
           x       == AppendPayload(g, ps)
           any     == x.success \/ success
           ended   == [task[t] EXCEPT !.pc = "ended", !.won = (task[t].pc = "succeeded")]
           rest    == [x EXCEPT !.pending = @ - 1, !.success = any]
           over    == [ended EXCEPT !.pc = "complete", !.payloads = x.payloads]
           r       == IF x.pending = 1 /\ any THEN over ELSE ended
           y       == CASE x.pending = 0 -> x [] x.pending = 1 -> NoGroup [] OTHER -> rest
<1>0. task \in [Ids -> Tasks] /\ group \in [GroupIds -> Groups] /\ task[t] \in Tasks /\ g \in Groups
  BY DEF TypeOK
<1>1. Live(t) /\ task[t].group = "top" /\ UNCHANGED <<storages, started>>
  BY DEF Finish, Live, TaskFacts, history
<1>2. g.pending \in Nat /\ g.pending >= 1
  BY <1>1, LiveCounts
<1>3. ps \in Seq(Nodes)
  <2>1. task[t].node \in Nodes
    BY <1>0 DEF Tasks
  <2> QED BY <2>1, SeqTypes DEF Removal, Asks
<1>4. success \in BOOLEAN
  BY <1>0 DEF Succeeds, Tasks
<1>5. task' = [task EXCEPT ![t] = r] /\ group' = [group EXCEPT !["top"] = y]
  BY <1>1 DEF Finish, Done, Succeeds, Asks
<1> HIDE DEF ps, success
<1>6. x \in Groups /\ x.pending = g.pending /\ x.payloads = g.payloads \o ps /\ x.success = g.success
  BY <1>0, <1>3, GroupTypes, Counting, Asking
<1>7. /\ ended \in Tasks /\ ended.pc = "ended" /\ ended.job = task[t].job /\ ended.node = task[t].node
      /\ ended.group = task[t].group /\ (ended.sync <=> task[t].sync)
      /\ (ended.won <=> task[t].pc = "succeeded") /\ (ended.bad <=> task[t].bad)
      /\ ended.payloads = task[t].payloads
  <2>1. (task[t].pc = "succeeded") \in BOOLEAN
    OBVIOUS
  <2> QED BY ZenonT(30), <1>0, <2>1 DEF Tasks
<1> HIDE DEF ended, x, g
<1>8. /\ over.pc = "complete" /\ over.job = ended.job /\ over.node = ended.node
      /\ over.group = ended.group /\ (over.sync <=> ended.sync)
      /\ (over.won <=> ended.won) /\ (over.bad <=> ended.bad) /\ over.payloads = x.payloads
  BY <1>7 DEF Tasks
<1>9. x.pending = 1 => y.pending = 0 /\ y.payloads = <<>>
  <2>1. NoGroup.pending = 0 /\ NoGroup.payloads = <<>>
    BY DEF NoGroup
  <2> QED BY <2>1
<1>10. x.pending > 1 => y.payloads = x.payloads /\ (any => y.success)
  <2>1. SUFFICES ASSUME x.pending > 1 PROVE y.payloads = x.payloads /\ (any => y.success)
    OBVIOUS
  <2>2. x.pending \in Nat /\ any \in BOOLEAN
    BY <1>4, <1>6 DEF Groups
  <2>3. y = rest
    BY <2>1, <2>2
  <2> HIDE DEF any
  <2>4. rest.payloads = x.payloads /\ rest.success = any
    BY <1>6, <2>2 DEF Groups
  <2> HIDE DEF y, rest
  <2> QED BY <2>3, <2>4
<1> HIDE DEF over, y
<1>11. /\ task'[t] = r /\ \A u \in Ids \ {t} : task'[u] = task[u]
       /\ group'["top"] = y /\ group'["sub"] = group["sub"]
  BY <1>0, <1>5
<1>12. x.pending = 1 /\ any <=> Last(t)
  BY <1>6 DEF Last, success, g
<1>13. x.payloads = Asked(t)
  BY <1>6 DEF Asked, ps, g
<1>14. /\ r.pc = IF Last(t) THEN "complete" ELSE "ended"
       /\ r.payloads = IF Last(t) THEN Asked(t) ELSE task[t].payloads
  BY <1>7, <1>8, <1>12, <1>13
<1>15. /\ r.job = task[t].job /\ r.node = task[t].node /\ r.group = task[t].group
       /\ (r.sync <=> task[t].sync) /\ (r.won <=> task[t].pc = "succeeded")
       /\ (r.bad <=> task[t].bad)
  BY <1>7, <1>8
<1> HIDE DEF r
<1>16. Over(t)' /\ Others(t)
  BY <1>11, <1>14 DEF Over, Others
<1>17. /\ g.pending = 1 => group'["top"].pending = 0 /\ group'["top"].payloads = <<>>
       /\ g.pending > 1 => /\ group'["top"].payloads = Asked(t)
                           /\ g.success \/ success => group'["top"].success
  BY <1>6, <1>9, <1>10, <1>11, <1>13
<1>18. Ends(t)
  BY <1>1, <1>11, <1>14, <1>15, <1>16, <1>17 DEF Ends, g, success
<1> QED BY <1>2, <1>18 DEF g

LEMMA EndsKeepsFacts ==
    ASSUME TypeOK, TaskFacts, NEW t \in Ids, Ends(t)
    PROVE  TaskFacts'
<1>1. \A u \in Ids : /\ task'[u].pc # "none" <=> task[u].pc # "none"
                     /\ task'[u].job = task[u].job /\ task'[u].node = task[u].node
                     /\ task'[u].group = task[u].group /\ (task'[u].sync <=> task[u].sync)
                     /\ (task'[u].bad <=> task[u].bad)
  BY DEF Ends, Others, Live, Over
<1>2. \A j : \A v \in Ids : RootTask(v, j)' <=> RootTask(v, j)
  BY <1>1 DEF RootTask
<1>3. ASSUME NEW u \in Ids, task'[u].pc # "none"
      PROVE  /\ task'[u].job \in started' /\ task'[u].group = "top"
             /\ task'[u].sync => task'[u].node = Root
             /\ task'[u].node = Root => \A v \in Ids : RootTask(v, task[u].job)' => v = u
  <2>1. ASSUME NEW v \in Ids, RootTask(v, task[u].job)', task'[u].node = Root
        PROVE  v = u
    <3>1. RootTask(v, task[u].job)
      BY <1>1, <2>1 DEF RootTask
    <3> QED BY <1>1, <1>3, <2>1, <3>1 DEF TaskFacts
  <2>2. started' = started
    BY DEF Ends
  <2> QED BY <1>1, <1>3, <2>1, <2>2 DEF TaskFacts
<1>4. ASSUME NEW u \in Ids, task'[u].pc # "none"
      PROVE  /\ task'[u].pc = "adding" => task'[u].node = Root
             /\ task'[u].pc = "uploading" => /\ task'[u].cur \in Files /\ dstDir'
                                             /\ task'[u].sync \/ task'[u].cur = task'[u].node
             /\ task'[u].pc = "succeeded" => task'[u].won
             /\ task'[u].node # Root /\ task'[u].won => dst'[task'[u].node] # "none"
             /\ task'[u].pc = "remove" => dst'[task'[u].cur] # "none"
             /\ task'[u].bad => task'[u].pc \in {"verify", "remove"}
  <2>1. UNCHANGED storages
    BY DEF Ends
  <2>2. CASE u # t
    <3>1. task'[u] = task[u]
      BY <2>2 DEF Ends, Others
    <3> QED BY <1>4, <2>1, <3>1 DEF TaskFacts, storages
  <2>3. CASE u = t
    <3>1. task'[t].pc \in {"complete", "ended"} /\ (task'[t].won <=> task[t].pc = "succeeded")
          /\ (task'[t].bad <=> task[t].bad) /\ task'[t].node = task[t].node
      BY DEF Ends
    <3>2. ~task[t].bad /\ task[t].pc # "none"
      BY DEF Ends, Live, TaskFacts
    <3>3. task[t].pc = "succeeded" => task[t].won
      BY DEF TaskFacts
    <3> QED BY <2>1, <2>3, <3>1, <3>2, <3>3 DEF TaskFacts, storages
  <2> QED BY <2>2, <2>3
<1> QED BY <1>3, <1>4 DEF TaskFacts

LEMMA EndsHandled ==
    ASSUME NEW t \in Ids, Ends(t), NEW j, NEW f \in Files, Handled(j, f)
    PROVE  Handled(j, f)'
<1>1. \A u \in Ids : task[u].pc # "none" =>
         task'[u].pc # "none" /\ task'[u].job = task[u].job /\ task'[u].node = task[u].node
  BY DEF Ends, Others, Live, Over
<1> QED BY <1>1, HandledStays DEF Ends, storages

LEMMA EndsKeepsCovered ==
    ASSUME Covered, NEW t \in Ids, Ends(t)
    PROVE  Covered'
<1>1. ASSUME NEW u \in Ids, NEW f \in Files, task'[u].node = Root
      PROVE  /\ task'[u].pc = "adding" => Handled(task[u].job, f)' \/ f \in task'[u].todo
             /\ task'[u].pc = "uploading" =>
                   Handled(task[u].job, f)' \/ f \in task'[u].todo \/ f = task'[u].cur
             /\ task'[u].pc = "succeeded" \/ (Over(u)' /\ task'[u].won) => Handled(task[u].job, f)'
  <2>1. PICK j : j = task[u].job
    OBVIOUS
  <2>2. Handled(j, f) => Handled(j, f)'
    BY EndsHandled
  <2>3. CASE u = t
    <3>1. /\ task'[t].pc \in {"complete", "ended"} /\ (task'[t].won <=> task[t].pc = "succeeded")
          /\ task'[t].node = task[t].node /\ task'[t].job = task[t].job
      BY DEF Ends
    <3>2. task[t].pc = "succeeded" => Handled(j, f)
      BY <1>1, <2>1, <2>3, <3>1 DEF Covered
    <3> QED BY <2>1, <2>2, <2>3, <3>1, <3>2
  <2>4. CASE u # t
    <3>1. task'[u] = task[u]
      BY <2>4 DEF Ends, Others
    <3> QED BY <1>1, <2>1, <2>2, <3>1 DEF Covered, Over
  <2> QED BY <2>3, <2>4
<1> QED BY <1>1 DEF Covered

\* After the last task of the group nothing is alive.
LEMMA NothingLives ==
    ASSUME GroupCountsTasks', TaskFacts', group'["top"].pending = 0, NEW u \in Ids
    PROVE  ~Live(u)'
<1>1. LiveIn("top")' \in SUBSET Ids /\ IsFiniteSet(Ids)
  BY FiniteIds DEF LiveIn
<1>2. IsFiniteSet(LiveIn("top")')
  BY <1>1, FS_Subset
<1>3. Cardinality(LiveIn("top")') = 0
  BY DEF GroupCountsTasks, LiveIn
<1>4. LiveIn("top")' = {}
  BY <1>2, <1>3, FS_EmptySet
<1>5. Live(u)' => task'[u].group = "top"
  BY DEF Live, TaskFacts
<1> QED BY <1>4, <1>5 DEF LiveIn

\* A move whose tasks are over has failed, or everything it had is at the destination.
LEMMA MoveOver ==
    ASSUME TypeOK', TaskFacts', Covered', \A u \in Ids : ~Live(u)', NEW j, ~Failed(j)',
           NEW v \in Ids, RootTask(v, j)'
    PROVE  AllThere'
<1>1. task' \in [Ids -> Tasks]
  BY DEF TypeOK
<1>2. \A u \in Ids : task'[u].pc # "none" => Over(u)'
  BY <1>1 DEF Live, Over, Tasks
<1>3. \A u \in Ids : task'[u].pc # "none" /\ task'[u].job = j => task'[u].won
  BY <1>2 DEF Failed
<1>4. \A f \in Files : Handled(task[v].job, f)'
  BY <1>2, <1>3 DEF Covered, RootTask
<1>5. ASSUME NEW f \in Files PROVE src'[f] = "none" \/ dst'[f] # "none"
  <2>1. SUFFICES ASSUME NEW u \in Ids, task'[u].pc # "none", task'[u].job = j, task'[u].node = f
                 PROVE  dst'[f] # "none"
    BY <1>4 DEF Handled, RootTask
  <2>2. task'[u].won /\ f # Root
    BY <1>3, <2>1, TransferAssumption
  <2> QED BY <2>1, <2>2 DEF TaskFacts
<1> QED BY <1>5 DEF AllThere

\* The task that ends asks for the removal when it is the caller of the move, and
\* nothing has asked before.
LEMMA AskedOnce ==
    ASSUME SingleMove, TypeOK, TaskFacts, OneRequest, NEW t \in Ids, Live(t)
    PROVE  \/ /\ task[t].sync /\ TypeOf[task[t].job] = "move" /\ Unasked /\ Asked(t) = <<Root>>
              /\ task[t].job \in started /\ RootTask(t, task[t].job)
           \/ /\ ~(task[t].sync /\ TypeOf[task[t].job] = "move")
              /\ Asked(t) = group["top"].payloads
<1>1. group["top"].payloads \in Seq(Nodes)
  BY DEF TypeOK, Groups
<1>2. /\ task[t].pc # "none" /\ task[t].job \in started
      /\ (task[t].sync => task[t].node = Root)
  BY DEF TaskFacts, Live
<1>3. CASE task[t].sync /\ TypeOf[task[t].job] = "move"
  <2>1. Asks(t) = <<Root>>
    BY <1>2, <1>3 DEF Asks, Removal, IsMove
  <2>2. RootTask(t, task[t].job)
    BY <1>2, <1>3 DEF RootTask
  <2>3. started \subseteq Jobs
    BY DEF TypeOK
  <2>4. \A i \in started : TypeOf[i] = "move" => i = task[t].job
    BY <1>2, <1>3, <2>3 DEF SingleMove
  <2>5. Unasked
    BY <1>3, <2>2, <2>4 DEF Unasked
  <2>6. group["top"].payloads = <<>> /\ <<Root>> \in Seq(Nodes)
    BY <2>5, SeqTypes DEF OneRequest
  <2>7. Asked(t) = <<Root>>
    BY <2>1, <2>6, NothingAsked DEF Asked
  <2> QED BY <1>2, <1>3, <2>2, <2>5, <2>7
<1>4. CASE ~(task[t].sync /\ TypeOf[task[t].job] = "move")
  <2>1. Asks(t) = <<>>
    BY <1>4 DEF Asks, Removal, IsMove
  <2>2. Asked(t) = group["top"].payloads
    BY <1>1, <2>1, NothingAsked DEF Asked
  <2> QED BY <1>4, <2>2
<1> QED BY <1>3, <1>4

LEMMA EndsKeepsRequest ==
    ASSUME SingleMove, TypeOK, TaskFacts, OneRequest, StillThere, NEW t \in Ids, Ends(t),
           group["top"].pending \in Nat, group["top"].pending >= 1
    PROVE  OneRequest' /\ StillThere'
<1>1. /\ Live(t) /\ \A u \in Ids \ {t} : task'[u] = task[u]
      /\ task'[t].pc = IF Last(t) THEN "complete" ELSE "ended"
      /\ task'[t].payloads = IF Last(t) THEN Asked(t) ELSE task[t].payloads
      /\ group'["sub"] = group["sub"]
      /\ group["top"].pending = 1 => group'["top"].payloads = <<>>
      /\ group["top"].pending > 1 => group'["top"].payloads = Asked(t)
      /\ UNCHANGED <<storages, started>>
      /\ task'[t].job = task[t].job /\ task'[t].node = task[t].node
  BY DEF Ends, Others
<1>2. task[t].payloads = <<>>
  BY <1>1 DEF OneRequest, Live, Completing
<1>3. ~Live(t)'
  BY <1>1 DEF Live
<1>4. Unasked' => /\ ~(task[t].sync /\ TypeOf[task[t].job] = "move" /\ task[t].job \in started
                                    /\ RootTask(t, task[t].job))
                  /\ Unasked
  <2>1. SUFFICES ASSUME Unasked'
                 PROVE  /\ ~(/\ task[t].sync /\ TypeOf[task[t].job] = "move"
                             /\ task[t].job \in started /\ RootTask(t, task[t].job))
                        /\ Unasked
    OBVIOUS
  <2>2. ASSUME NEW i \in started, TypeOf[i] = "move"
        PROVE  \E u \in Ids : u # t /\ RootTask(u, i) /\ task[u].sync /\ Live(u)
    <3>1. PICK u \in Ids : RootTask(u, i)' /\ task'[u].sync /\ Live(u)'
      BY <1>1, <2>1, <2>2 DEF Unasked
    <3>2. u # t /\ task'[u] = task[u]
      BY <1>1, <1>3, <3>1
    <3> QED BY <3>1, <3>2 DEF RootTask, Live
  <2>3. ASSUME TypeOf[task[t].job] = "move", task[t].job \in started, RootTask(t, task[t].job)
        PROVE  FALSE
    <3>1. PICK u \in Ids : u # t /\ RootTask(u, task[t].job)
      BY <2>2, <2>3
    <3> QED BY <2>3, <3>1 DEF TaskFacts, RootTask
  <2> QED BY <2>2, <2>3 DEF Unasked
<1>5. \/ Unasked /\ ~Unasked' /\ Asked(t) = <<Root>>
      \/ Asked(t) = group["top"].payloads /\ (Unasked' => Unasked)
  BY <1>1, <1>4, AskedOnce
<1>6. Last(t) => group["top"].pending = 1
  BY DEF Last
<1>7. OneRequest'
  <2>1. Asked(t) \in {<<>>, <<Root>>}
    BY <1>5 DEF OneRequest
  <2>2. group'["top"].payloads \in {<<>>, <<Root>>} /\ group'["sub"].payloads = <<>>
    BY <1>1, <2>1 DEF OneRequest
  <2>3. \A u \in Ids : task'[u].payloads \in {<<>>, <<Root>>}
    BY <1>1, <2>1 DEF OneRequest
  <2>4. Asked(t) # <<>> => \A u \in Ids : task[u].payloads = <<>>
    BY <1>5 DEF OneRequest
  <2>5. ASSUME NEW u \in Ids, task'[u].payloads # <<>>
        PROVE  /\ Completing(u)' /\ group'["top"].payloads = <<>>
               /\ \A v \in Ids : task'[v].payloads # <<>> => v = u
    <3>1. CASE u = t
      <4>1. Last(t) /\ Asked(t) # <<>>
        BY <1>1, <1>2, <2>5, <3>1
      <4>2. task'[t].pc = "complete"
        BY <1>1, <4>1
      <4>3. \A v \in Ids : v # t => task'[v].payloads = <<>>
        BY <1>1, <2>4, <4>1
      <4> QED BY <1>1, <1>6, <3>1, <4>1, <4>2, <4>3 DEF Completing
    <3>2. CASE u # t
      <4>1. task'[u] = task[u] /\ task[u].payloads # <<>>
        BY <1>1, <2>5, <3>2
      <4>2. Asked(t) = <<>>
        BY <2>4, <4>1
      <4>3. Completing(u) /\ \A v \in Ids : task[v].payloads # <<>> => v = u
        BY <4>1 DEF OneRequest
      <4>4. task'[t].payloads = <<>>
        BY <1>1, <1>2, <4>2
      <4>5. \A v \in Ids : task'[v].payloads # <<>> => v = u
        BY <1>1, <4>3, <4>4
      <4> QED BY <1>1, <4>1, <4>2, <4>3, <4>5 DEF Completing
    <3> QED BY <3>1, <3>2
  <2>6. ASSUME Unasked'
        PROVE  group'["top"].payloads = <<>> /\ \A u \in Ids : task'[u].payloads = <<>>
    <3>1. Unasked /\ Asked(t) = group["top"].payloads
      BY <1>5, <2>6
    <3>2. Asked(t) = <<>> /\ \A u \in Ids : task[u].payloads = <<>>
      BY <3>1 DEF OneRequest
    <3> QED BY <1>1, <3>2
  <2> QED BY <2>2, <2>3, <2>5, <2>6 DEF OneRequest
<1>8. StillThere'
  <2>1. ASSUME NEW u \in Ids, task'[u].pc \in {"verify", "remove"}
        PROVE  /\ \A f \in task'[u].todo : src'[f] # "none"
               /\ task'[u].pc = "remove" => task'[u].cur \notin task'[u].todo
    <3>1. u # t /\ task'[u] = task[u]
      BY <1>1, <2>1
    <3> QED BY <1>1, <2>1, <3>1 DEF StillThere, storages
  <2> QED BY <2>1 DEF StillThere
<1> QED BY <1>7, <1>8

LEMMA EndsRequested ==
    ASSUME SingleMove, TypeOK, TypeOK', GroupCountsTasks', TaskFacts, TaskFacts', Covered',
           OneRequest, Requested, NEW t \in Ids, Ends(t),
           group["top"].pending \in Nat, group["top"].pending >= 1
    PROVE  Requested'
<1>1. /\ Live(t) /\ \A u \in Ids \ {t} : task'[u] = task[u]
      /\ task'[t].pc = IF Last(t) THEN "complete" ELSE "ended"
      /\ task'[t].payloads = IF Last(t) THEN Asked(t) ELSE task[t].payloads
      /\ (task'[t].won <=> task[t].pc = "succeeded") /\ (task'[t].bad <=> task[t].bad)
      /\ group["top"].pending > 1 =>
            /\ group'["top"].payloads = Asked(t)
            /\ group["top"].success \/ Succeeds(t) => group'["top"].success
      /\ group["top"].pending = 1 => group'["top"].pending = 0
      /\ UNCHANGED <<storages, started>>
      /\ task'[t].job = task[t].job /\ task'[t].node = task[t].node /\ Over(t)'
  BY DEF Ends, Others
<1>2. ~task[t].bad /\ ~Completing(t)
  BY <1>1 DEF TaskFacts, Live, Completing
<1>3. task'[t].won => Succeeds(t)
  BY <1>1 DEF Succeeds, TaskFacts, Live
<1>4. AllThere' <=> AllThere
  BY <1>1 DEF AllThere, storages
<1>5. \A i : \A u \in Ids : RootTask(u, i)' <=> RootTask(u, i)
  BY <1>1 DEF RootTask, Live, Over
<1>6. ASSUME NEW i \in started, TypeOf[i] = "move", NEW v \in Ids, RootTask(v, i),
             Asked(t) = <<Root>>, Live(v) \/ (Over(v) /\ (task[v].won => group["top"].success)),
             ~Failed(i)'
      PROVE  InGroup(i)' \/ InCompletion'
  <2>1. RootTask(v, i)'
    BY <1>5, <1>6
  <2>2. CASE group["top"].pending = 1
    <3>1. \A u \in Ids : ~Live(u)'
      BY <1>1, <2>2, NothingLives
    <3>2. AllThere'
      BY <1>6, <2>1, <3>1, MoveOver
    <3>3. task'[v].won /\ task'[v].pc # "none"
      <4>1. task' \in [Ids -> Tasks]
        BY DEF TypeOK
      <4>2. task'[v].pc # "none" /\ task'[v].job = i
        BY <2>1 DEF RootTask
      <4>3. Over(v)'
        BY <3>1, <4>1, <4>2 DEF Live, Over, Tasks
      <4> QED BY <1>6, <4>2, <4>3 DEF Failed
    <3>4. group["top"].success \/ Succeeds(t)
      <4>1. CASE v = t
        BY <1>3, <3>3, <4>1
      <4>2. CASE v # t
        <5>1. task'[v] = task[v] /\ ~Live(v)'
          BY <1>1, <3>1, <4>2
        <5> QED BY <1>6, <3>3, <5>1 DEF Live
      <4> QED BY <4>1, <4>2
    <3>5. Last(t)
      BY <2>2, <3>4 DEF Last
    <3>6. task'[t].pc = "complete" /\ task'[t].payloads = <<Root>> /\ ~task'[t].bad
      BY <1>1, <1>2, <1>6, <3>5
    <3> QED BY <3>2, <3>6 DEF InCompletion, Completing
  <2>3. CASE group["top"].pending > 1
    <3>1. group'["top"].payloads = <<Root>>
      BY <1>1, <1>6, <2>3
    <3>2. Live(v)' \/ (Over(v)' /\ (task'[v].won => group'["top"].success))
      <4>1. CASE v = t
        BY <1>1, <1>3, <2>3, <4>1
      <4>2. CASE v # t
        <5>1. task'[v] = task[v]
          BY <1>1, <4>2
        <5> QED BY <1>1, <1>6, <2>3, <5>1 DEF Live, Over
      <4> QED BY <4>1, <4>2
    <3> QED BY <2>1, <3>1, <3>2 DEF InGroup
  <2> QED BY <2>2, <2>3
<1>7. ASSUME NEW i \in started, TypeOf[i] = "move"
      PROVE  ~srcDir' \/ Failed(i)' \/ ToAsk(i)' \/ InGroup(i)' \/ InCompletion'
  <2>1. ~srcDir \/ Failed(i) \/ ToAsk(i) \/ InGroup(i) \/ InCompletion
    BY <1>7 DEF Requested
  <2>2. CASE ~srcDir
    BY <1>1, <2>2 DEF storages
  <2>3. CASE Failed(i)
    <3>1. PICK u \in Ids : task[u].job = i /\ Over(u) /\ ~task[u].won
      BY <2>3 DEF Failed
    <3>2. task'[u] = task[u]
      BY <1>1, <3>1 DEF Over, Live
    <3> QED BY <3>1, <3>2 DEF Failed, Over
  <2>4. CASE ToAsk(i)
    <3>1. PICK u \in Ids : RootTask(u, i) /\ task[u].sync /\ Live(u)
      BY <2>4 DEF ToAsk
    <3>2. CASE u = t
      <4>1. task[t].job = i /\ Asked(t) = <<Root>>
        BY <1>1, <1>7, <3>1, <3>2, AskedOnce DEF RootTask
      <4> QED BY <1>6, <1>7, <3>1, <4>1
    <3>3. CASE u # t
      <4>1. task'[u] = task[u] /\ RootTask(u, i)'
        BY <1>1, <1>5, <3>1, <3>3
      <4> QED BY <3>1, <4>1 DEF ToAsk, Live
    <3> QED BY <3>2, <3>3
  <2>5. CASE InGroup(i)
    <3>1. PICK v \in Ids : /\ RootTask(v, i)
                           /\ Live(v) \/ (Over(v) /\ (task[v].won => group["top"].success))
      BY <2>5 DEF InGroup
    <3>2. group["top"].payloads = <<Root>>
      BY <2>5 DEF InGroup
    <3>3. Asked(t) = <<Root>>
      BY <1>1, <3>2, AskedOnce
    <3> QED BY <1>6, <1>7, <3>1, <3>3
  <2>6. CASE InCompletion
    <3>1. PICK u \in Ids : Completing(u) /\ task[u].payloads = <<Root>> /\ ~task[u].bad
      BY <2>6 DEF InCompletion
    <3>2. u # t
      BY <1>2, <3>1
    <3>3. task'[u] = task[u] /\ AllThere'
      BY <1>1, <1>4, <2>6, <3>2 DEF InCompletion
    <3> QED BY <3>1, <3>3 DEF InCompletion, Completing
  <2> QED BY <2>1, <2>2, <2>3, <2>4, <2>5, <2>6
<1> QED BY <1>1, <1>7 DEF Requested

-----------------------------------------------------------------------------
(* The completion                                                           *)

CompletionStep(t) ==
    /\ Completing(t) /\ Over(t)' /\ Others(t)
    /\ task'[t].job = task[t].job /\ task'[t].node = task[t].node
    /\ task'[t].group = task[t].group /\ (task'[t].sync <=> task[t].sync)
    /\ (task'[t].won <=> task[t].won)
    /\ UNCHANGED <<group, dst, dstDir, started>>

\* What a step of the completion does besides: sources only go, and the request is
\* held until the source has gone.
CompletionGoesOn(t) ==
    /\ src' = src \/ task[t].pc \in {"verify", "remove"}
    /\ \A f \in Files : src[f] = "none" => src'[f] = "none"
    /\ ~srcDir => ~srcDir'
    /\ StorageFacts'
    /\ task'[t].pc = "remove" => dst[task'[t].cur] # "none" /\ task'[t].cur \notin task'[t].todo
    /\ task'[t].pc \in {"verify", "remove"} => \A f \in task'[t].todo : src'[f] # "none"
    /\ task'[t].bad => task'[t].pc \in {"verify", "remove"}
    /\ task'[t].payloads \in {task[t].payloads, <<>>}
    /\ task'[t].payloads # <<>> => Completing(t)'
    /\ ~srcDir' \/ (InCompletion => InCompletion')

LEMMA CompletionKeepsFacts ==
    ASSUME TypeOK, TaskFacts, NEW t \in Ids, CompletionStep(t), CompletionGoesOn(t)
    PROVE  TaskFacts'
<1>1. \A u \in Ids : /\ task'[u].pc # "none" <=> task[u].pc # "none"
                     /\ task'[u].job = task[u].job /\ task'[u].node = task[u].node
                     /\ task'[u].group = task[u].group /\ (task'[u].sync <=> task[u].sync)
                     /\ (task'[u].won <=> task[u].won)
  BY DEF CompletionStep, Others, Completing, Over
<1>2. \A j : \A v \in Ids : RootTask(v, j)' <=> RootTask(v, j)
  BY <1>1 DEF RootTask
<1>3. UNCHANGED <<dst, dstDir, started>>
  BY DEF CompletionStep
<1>4. ASSUME NEW u \in Ids, task'[u].pc # "none"
      PROVE  /\ task'[u].job \in started' /\ task'[u].group = "top"
             /\ task'[u].sync => task'[u].node = Root
             /\ task'[u].node = Root => \A v \in Ids : RootTask(v, task[u].job)' => v = u
             /\ task'[u].node # Root /\ task'[u].won => dst'[task'[u].node] # "none"
  <2>1. ASSUME NEW v \in Ids, RootTask(v, task[u].job)', task'[u].node = Root
        PROVE  v = u
    <3>1. RootTask(v, task[u].job)
      BY <1>1, <2>1 DEF RootTask
    <3> QED BY <1>1, <1>4, <2>1, <3>1 DEF TaskFacts
  <2> QED BY <1>1, <1>3, <1>4, <2>1 DEF TaskFacts
<1>5. ASSUME NEW u \in Ids, task'[u].pc # "none"
      PROVE  /\ task'[u].pc = "adding" => task'[u].node = Root
             /\ task'[u].pc = "uploading" => /\ task'[u].cur \in Files /\ dstDir'
                                             /\ task'[u].sync \/ task'[u].cur = task'[u].node
             /\ task'[u].pc = "succeeded" => task'[u].won
             /\ task'[u].pc = "remove" => dst'[task'[u].cur] # "none"
             /\ task'[u].bad => task'[u].pc \in {"verify", "remove"}
  <2>1. CASE u # t
    <3>1. task'[u] = task[u]
      BY <2>1 DEF CompletionStep, Others
    <3> QED BY <1>3, <1>5, <3>1 DEF TaskFacts
  <2>2. CASE u = t
    <3>1. task'[t].pc \in {"complete", "verify", "remove", "ended"}
      BY DEF CompletionStep, Over
    <3> QED BY <1>3, <2>2, <3>1 DEF CompletionGoesOn
  <2> QED BY <2>1, <2>2
<1> QED BY <1>4, <1>5 DEF TaskFacts

LEMMA CompletionKeepsCovered ==
    ASSUME Covered, NEW t \in Ids, CompletionStep(t), CompletionGoesOn(t)
    PROVE  Covered'
<1>1. \A u \in Ids : /\ task[u].pc # "none" => task'[u].pc # "none"
                     /\ task'[u].job = task[u].job /\ task'[u].node = task[u].node
                     /\ (task'[u].won <=> task[u].won) /\ (Over(u)' <=> Over(u))
                     /\ u # t => task'[u] = task[u]
  BY DEF CompletionStep, Others, Completing, Over
<1>2. ASSUME NEW j, NEW f \in Files, Handled(j, f) PROVE Handled(j, f)'
  <2>1. dst' = dst /\ (src[f] = "none" => src'[f] = "none")
    BY DEF CompletionStep, CompletionGoesOn
  <2> QED BY <1>1, <1>2, <2>1, HandledStays
<1>3. task'[t].pc \notin {"adding", "uploading", "succeeded"}
  BY DEF CompletionStep, Over
<1>4. ASSUME NEW u \in Ids, NEW f \in Files, task'[u].node = Root
      PROVE  /\ task'[u].pc = "adding" => Handled(task[u].job, f)' \/ f \in task'[u].todo
             /\ task'[u].pc = "uploading" =>
                   Handled(task[u].job, f)' \/ f \in task'[u].todo \/ f = task'[u].cur
             /\ task'[u].pc = "succeeded" \/ (Over(u)' /\ task'[u].won) => Handled(task[u].job, f)'
  <2>1. PICK j : j = task[u].job
    OBVIOUS
  <2>2. Handled(j, f) => Handled(j, f)'
    BY <1>2
  <2>3. task'[u].job = j
    BY <1>1, <2>1
  <2>4. /\ task[u].pc = "adding" => Handled(j, f) \/ f \in task[u].todo
        /\ task[u].pc = "uploading" => Handled(j, f) \/ f \in task[u].todo \/ f = task[u].cur
        /\ task[u].pc = "succeeded" \/ (Over(u) /\ task[u].won) => Handled(j, f)
    BY <1>1, <1>4, <2>1 DEF Covered
  <2> QED BY <1>1, <1>3, <2>2, <2>3, <2>4
<1> QED BY <1>4 DEF Covered

LEMMA CompletionKeepsRequest ==
    ASSUME TypeOK, OneRequest, StillThere, Requested, NEW t \in Ids,
           CompletionStep(t), CompletionGoesOn(t)
    PROVE  OneRequest' /\ StillThere' /\ Requested'
<1>1. \A u \in Ids : /\ task'[u].pc # "none" <=> task[u].pc # "none"
                     /\ task'[u].job = task[u].job /\ task'[u].node = task[u].node
                     /\ (task'[u].sync <=> task[u].sync) /\ (task'[u].won <=> task[u].won)
                     /\ (Live(u)' <=> Live(u)) /\ (Over(u)' <=> Over(u))
                     /\ u # t => task'[u] = task[u]
  BY DEF CompletionStep, Others, Completing, Over, Live
<1>2. \A i : \A u \in Ids : RootTask(u, i)' <=> RootTask(u, i)
  BY <1>1 DEF RootTask
<1>3. UNCHANGED <<group, dst, dstDir, started>>
  BY DEF CompletionStep
<1>4. Unasked' => Unasked
  BY <1>1, <1>2, <1>3 DEF Unasked
<1>5. \A u \in Ids : task'[u].payloads \in {task[u].payloads, <<>>}
  BY <1>1 DEF CompletionGoesOn
<1>6. \A u \in Ids : task'[u].payloads # <<>> => Completing(u)'
  <2>1. ASSUME NEW u \in Ids, u # t, task'[u].payloads # <<>> PROVE Completing(u)'
    BY <1>1, <2>1 DEF OneRequest, Completing
  <2> QED BY <2>1 DEF CompletionGoesOn
<1>7. OneRequest'
  <2>1. \A u \in Ids : /\ task'[u].payloads \in {<<>>, <<Root>>}
                       /\ task'[u].payloads # <<>> => task[u].payloads # <<>>
    BY <1>5 DEF OneRequest
  <2>2. \A u \in Ids : task'[u].payloads # <<>> =>
           /\ group["top"].payloads = <<>>
           /\ \A v \in Ids : task'[v].payloads # <<>> => v = u
    BY <2>1 DEF OneRequest
  <2>3. Unasked' => group["top"].payloads = <<>> /\ \A u \in Ids : task'[u].payloads = <<>>
    BY <1>4, <2>1 DEF OneRequest
  <2>4. group["top"].payloads \in {<<>>, <<Root>>} /\ group["sub"].payloads = <<>>
    BY DEF OneRequest
  <2> QED BY <1>3, <1>6, <2>1, <2>2, <2>3, <2>4 DEF OneRequest
<1>8. StillThere'
  <2>1. ASSUME NEW u \in Ids, task'[u].pc \in {"verify", "remove"}
        PROVE  /\ \A f \in task'[u].todo : src'[f] # "none"
               /\ task'[u].pc = "remove" => task'[u].cur \notin task'[u].todo
    <3>1. CASE u = t
      BY <2>1, <3>1 DEF CompletionGoesOn
    <3>2. CASE u # t
      <4>1. task'[u] = task[u]
        BY <1>1, <3>2
      <4>2. task[u].payloads # <<>>
        BY <2>1, <4>1 DEF TypeOK
      <4>3. task[t].payloads = <<>>
        BY <3>2, <4>2 DEF OneRequest
      <4>4. src' = src
        BY <4>3 DEF CompletionGoesOn, TypeOK
      <4> QED BY <2>1, <4>1, <4>4 DEF StillThere
    <3> QED BY <3>1, <3>2
  <2> QED BY <2>1 DEF StillThere
<1>9. ASSUME NEW i \in started, TypeOf[i] = "move"
      PROVE  ~srcDir' \/ Failed(i)' \/ ToAsk(i)' \/ InGroup(i)' \/ InCompletion'
  <2>1. ~srcDir \/ Failed(i) \/ ToAsk(i) \/ InGroup(i) \/ InCompletion
    BY <1>9 DEF Requested
  <2>2. Failed(i) => Failed(i)'
    BY <1>1 DEF Failed
  <2>3. ToAsk(i) => ToAsk(i)'
    BY <1>1, <1>2 DEF ToAsk
  <2>4. InGroup(i) => InGroup(i)'
    BY <1>1, <1>2, <1>3 DEF InGroup
  <2> QED BY <2>1, <2>2, <2>3, <2>4 DEF CompletionGoesOn
<1> QED BY <1>3, <1>7, <1>8, <1>9 DEF Requested

\* While task t has a payload or has none, where the request can be.
LEMMA RequestIsHere ==
    ASSUME OneRequest, InCompletion, NEW t \in Ids, task[t].payloads # <<>>
    PROVE  AllThere /\ task[t].payloads = <<Root>> /\ ~task[t].bad
BY DEF OneRequest, InCompletion

LEMMA RequestIsElsewhere ==
    ASSUME InCompletion, NEW t \in Ids, task[t].payloads = <<>>, Others(t),
           \A f \in Files : src[f] = "none" => src'[f] = "none", dst' = dst
    PROVE  InCompletion'
<1>1. PICK u \in Ids : Completing(u) /\ task[u].payloads = <<Root>> /\ ~task[u].bad
  BY DEF InCompletion
<1>2. <<Root>> # <<>>
  OBVIOUS
<1>3. task'[u] = task[u]
  BY <1>1, <1>2 DEF Others
<1>4. AllThere'
  BY DEF InCompletion, AllThere
<1> QED BY <1>1, <1>3, <1>4 DEF InCompletion, Completing

LEMMA NextPayloadFields ==
    ASSUME TypeOK, NEW t \in Ids, task' = NextPayload(t), task[t].payloads = <<Root>>
    PROVE  /\ task'[t].pc = "complete" /\ task'[t].payloads = <<>> /\ ~task'[t].bad /\ Others(t)
           /\ task'[t].job = task[t].job /\ task'[t].node = task[t].node
           /\ task'[t].group = task[t].group /\ (task'[t].sync <=> task[t].sync)
           /\ (task'[t].won <=> task[t].won)
<1>1. task \in [Ids -> Tasks] /\ task[t] \in Tasks
  BY DEF TypeOK
<1>2. Tail(<<Root>>) = <<>>
  OBVIOUS
<1> DEFINE r == [task[t] EXCEPT !.pc = "complete", !.payloads = Tail(@), !.bad = FALSE, !.todo = {}]
<1>3. task' = [task EXCEPT ![t] = r]
  BY <1>1 DEF NextPayload
<1>4. /\ r.pc = "complete" /\ r.payloads = Tail(task[t].payloads) /\ ~r.bad
      /\ r.job = task[t].job /\ r.node = task[t].node
      /\ r.group = task[t].group /\ (r.sync <=> task[t].sync) /\ (r.won <=> task[t].won)
  BY <1>1 DEF Tasks
<1> HIDE DEF r
<1>5. task'[t] = r /\ Others(t)
  BY <1>1, <1>3 DEF Others
<1> QED BY <1>2, <1>4, <1>5

LEMMA NextPayloadGoesOn ==
    ASSUME TypeOK, TaskFacts, StorageFacts, OneRequest, NEW t \in Ids,
           task[t].pc \in {"complete", "verify"}, task[t].payloads # <<>>,
           task' = NextPayload(t), UNCHANGED <<group, started, storages>>,
           ~srcDir \/ ~InCompletion
    PROVE  CompletionStep(t) /\ CompletionGoesOn(t)
<1>1. task[t].payloads = <<Root>>
  BY DEF OneRequest
<1>2. /\ task'[t].pc = "complete" /\ task'[t].payloads = <<>> /\ ~task'[t].bad /\ Others(t)
      /\ task'[t].job = task[t].job /\ task'[t].node = task[t].node
      /\ task'[t].group = task[t].group /\ (task'[t].sync <=> task[t].sync)
      /\ (task'[t].won <=> task[t].won)
  BY <1>1, NextPayloadFields
<1>3. CompletionStep(t)
  BY <1>2 DEF CompletionStep, Completing, Over, storages
<1>4. StorageFacts'
  BY DEF StorageFacts, storages
<1>5. CompletionGoesOn(t)
  BY <1>2, <1>4 DEF CompletionGoesOn, storages
<1> QED BY <1>3, <1>5

LEMMA GoesOnEnds ==
    ASSUME TypeOK, TaskFacts, StorageFacts, OneRequest, NEW t \in Ids, CompletionEnds(t)
    PROVE  CompletionStep(t) /\ CompletionGoesOn(t)
<1>1. task \in [Ids -> Tasks] /\ task[t] \in Tasks
  BY DEF TypeOK
<1>2. /\ task[t].pc = "complete" /\ task[t].payloads = <<>>
      /\ task' = [task EXCEPT ![t].pc = "ended"] /\ UNCHANGED <<storages, group, started>>
  BY DEF CompletionEnds, history
<1>3. /\ task'[t].pc = "ended" /\ task'[t].payloads = <<>> /\ Others(t)
      /\ task'[t].job = task[t].job /\ task'[t].node = task[t].node
      /\ task'[t].group = task[t].group /\ (task'[t].sync <=> task[t].sync)
      /\ (task'[t].won <=> task[t].won) /\ (task'[t].bad <=> task[t].bad)
  BY <1>1, <1>2 DEF Tasks, Others
<1>4. CompletionStep(t)
  BY <1>2, <1>3 DEF CompletionStep, Completing, Over, storages
<1>5. ~task[t].bad
  BY <1>2 DEF TaskFacts
<1>6. InCompletion => InCompletion'
  BY <1>2, <1>3, RequestIsElsewhere DEF storages
<1>7. StorageFacts'
  BY <1>2 DEF StorageFacts, storages
<1>8. CompletionGoesOn(t)
  BY <1>2, <1>3, <1>5, <1>6, <1>7 DEF CompletionGoesOn, storages
<1> QED BY <1>4, <1>8

\* An empty directory apart, the destination has the directory when everything is there.
LEMMA DirectoryIsThere ==
    ASSUME Files # {}, StorageFacts, AllThere, srcDir
    PROVE  dstDir
BY DEF StorageFacts, AllThere

LEMMA GoesOnCompleteDir ==
    ASSUME Files # {}, TypeOK, TaskFacts, StorageFacts, OneRequest, ~trouble',
           NEW t \in Ids, CompleteDir(t)
    PROVE  CompletionStep(t) /\ CompletionGoesOn(t)
<1>1. task \in [Ids -> Tasks] /\ task[t] \in Tasks
  BY DEF TypeOK
<1>2. /\ task[t].pc = "complete" /\ task[t].payloads # <<>>
      /\ UNCHANGED <<storages, group, started>>
  BY DEF CompleteDir
<1>3. CASE task' = [task EXCEPT ![t].pc = "verify", ![t].todo = {f \in Files : src[f] # "none"}]
  <2>1. /\ task'[t].pc = "verify" /\ task'[t].todo = {f \in Files : src[f] # "none"}
        /\ task'[t].payloads = task[t].payloads /\ Others(t)
        /\ task'[t].job = task[t].job /\ task'[t].node = task[t].node
        /\ task'[t].group = task[t].group /\ (task'[t].sync <=> task[t].sync)
        /\ (task'[t].won <=> task[t].won) /\ (task'[t].bad <=> task[t].bad)
    BY <1>1, <1>3 DEF Tasks, Others
  <2>2. CompletionStep(t)
    BY <1>2, <2>1 DEF CompletionStep, Completing, Over, storages
  <2>3. InCompletion => InCompletion'
    <3>1. AllThere => AllThere'
      BY <1>2 DEF AllThere, storages
    <3>2. InCompletion => AllThere /\ task[t].payloads = <<Root>> /\ ~task[t].bad
      BY <1>2, RequestIsHere
    <3> QED BY <2>1, <3>1, <3>2 DEF InCompletion, Completing
  <2>4. StorageFacts'
    BY <1>2 DEF StorageFacts, storages
  <2>5. CompletionGoesOn(t)
    BY <1>2, <2>1, <2>3, <2>4 DEF CompletionGoesOn, Completing, storages
  <2> QED BY <2>2, <2>5
<1>4. CASE task' = NextPayload(t) /\ trouble' = (trouble \/ (srcDir /\ dstDir))
  <2>1. ~(srcDir /\ dstDir)
    BY <1>4
  <2>2. ~srcDir \/ ~InCompletion
    BY <2>1, DirectoryIsThere DEF InCompletion
  <2> QED BY <1>2, <1>4, <2>2, NextPayloadGoesOn
<1> QED BY <1>3, <1>4 DEF CompleteDir

LEMMA NoFilePayload ==
    ASSUME TypeOK, OneRequest, NEW t \in Ids, CompleteFile(t) PROVE FALSE
<1>1. task[t].payloads = <<Root>> /\ Head(task[t].payloads) # Root
  BY DEF CompleteFile, OneRequest
<1>2. Head(<<Root>>) = Root
  OBVIOUS
<1> QED BY <1>1, <1>2

LEMMA GoesOnVerify ==
    ASSUME TypeOK, TaskFacts, StorageFacts, OneRequest, StillThere, ~trouble',
           NEW t \in Ids, Verify(t)
    PROVE  CompletionStep(t) /\ CompletionGoesOn(t)
<1>1. task \in [Ids -> Tasks] /\ task[t] \in Tasks
  BY DEF TypeOK
<1>2. /\ task[t].pc = "verify" /\ UNCHANGED <<storages, group, started>>
  BY DEF Verify
<1>3. PICK f \in task[t].todo :
         \/ Verified(f) /\ task' = [task EXCEPT ![t].pc = "remove", ![t].cur = f, ![t].todo = @ \ {f}]
         \/ /\ task' = [task EXCEPT ![t].bad = TRUE, ![t].todo = @ \ {f}]
            /\ trouble' = (trouble \/ Verified(f))
  BY DEF Verify
<1>4. task[t].payloads # <<>> /\ ~(task[t].payloads = <<>>)
  BY <1>2 DEF TypeOK
<1>5. \A g \in task[t].todo : src[g] # "none"
  BY <1>2 DEF StillThere
<1>6. StorageFacts' /\ (AllThere => AllThere')
  BY <1>2 DEF StorageFacts, AllThere, storages
<1>7. CASE Verified(f) /\ task' = [task EXCEPT ![t].pc = "remove", ![t].cur = f, ![t].todo = @ \ {f}]
  <2>1. /\ task'[t].pc = "remove" /\ task'[t].cur = f /\ task'[t].todo = task[t].todo \ {f}
        /\ task'[t].payloads = task[t].payloads /\ Others(t)
        /\ task'[t].job = task[t].job /\ task'[t].node = task[t].node
        /\ task'[t].group = task[t].group /\ (task'[t].sync <=> task[t].sync)
        /\ (task'[t].won <=> task[t].won) /\ (task'[t].bad <=> task[t].bad)
    BY <1>1, <1>7 DEF Tasks, Others
  <2>2. CompletionStep(t)
    BY <1>2, <2>1 DEF CompletionStep, Completing, Over, storages
  <2>3. InCompletion => InCompletion'
    <3>1. InCompletion => AllThere /\ task[t].payloads = <<Root>> /\ ~task[t].bad
      BY <1>4, RequestIsHere
    <3> QED BY <1>6, <2>1, <3>1 DEF InCompletion, Completing
  <2>4. dst[f] # "none"
    BY <1>7 DEF Verified
  <2>5. CompletionGoesOn(t)
    BY <1>2, <1>5, <1>6, <2>1, <2>3, <2>4 DEF CompletionGoesOn, Completing, storages
  <2> QED BY <2>2, <2>5
<1>8. CASE /\ task' = [task EXCEPT ![t].bad = TRUE, ![t].todo = @ \ {f}]
           /\ trouble' = (trouble \/ Verified(f))
  <2>1. /\ task'[t].pc = "verify" /\ task'[t].todo = task[t].todo \ {f}
        /\ task'[t].payloads = task[t].payloads /\ Others(t)
        /\ task'[t].job = task[t].job /\ task'[t].node = task[t].node
        /\ task'[t].group = task[t].group /\ (task'[t].sync <=> task[t].sync)
        /\ (task'[t].won <=> task[t].won)
    BY <1>1, <1>2, <1>8 DEF Tasks, Others
  <2>2. CompletionStep(t)
    BY <1>2, <2>1 DEF CompletionStep, Completing, Over, storages
  <2>3. f \in Files /\ src[f] # "none" /\ dst[f] = "none"
    <3>1. f \in Files /\ src[f] # "none"
      BY <1>1, <1>5 DEF Tasks
    <3>2. ~Verified(f)
      BY <1>8
    <3> QED BY <3>1, <3>2 DEF Verified
  <2>4. ~InCompletion
    BY <2>3 DEF InCompletion, AllThere
  <2>5. CompletionGoesOn(t)
    BY <1>2, <1>5, <1>6, <2>1, <2>4 DEF CompletionGoesOn, Completing, storages
  <2> QED BY <2>2, <2>5
<1> QED BY <1>3, <1>7, <1>8

LEMMA GoesOnRemoveFile ==
    ASSUME TypeOK, TaskFacts, StorageFacts, OneRequest, StillThere, ~trouble',
           NEW t \in Ids, RemoveFile(t)
    PROVE  CompletionStep(t) /\ CompletionGoesOn(t)
<1>1. task \in [Ids -> Tasks] /\ task[t] \in Tasks /\ src \in [Files -> {"none", "whole"}]
  BY DEF TypeOK
<1>2. /\ task[t].pc = "remove" /\ UNCHANGED <<srcDir, dst, dstDir, group, started>>
      /\ src' = [src EXCEPT ![task[t].cur] = "none"]
      /\ task' = [task EXCEPT ![t].pc = "verify", ![t].cur = Root]
  BY DEF RemoveFile
<1>3. task[t].cur \in Files /\ task[t].payloads # <<>>
  BY <1>2 DEF TypeOK
<1>4. /\ task'[t].pc = "verify" /\ task'[t].todo = task[t].todo
      /\ task'[t].payloads = task[t].payloads /\ Others(t)
      /\ task'[t].job = task[t].job /\ task'[t].node = task[t].node
      /\ task'[t].group = task[t].group /\ (task'[t].sync <=> task[t].sync)
      /\ (task'[t].won <=> task[t].won) /\ (task'[t].bad <=> task[t].bad)
  BY <1>1, <1>2 DEF Tasks, Others
<1>5. CompletionStep(t)
  BY <1>2, <1>4 DEF CompletionStep, Completing, Over
<1>6. \A f \in Files : src'[f] = IF f = task[t].cur THEN "none" ELSE src[f]
  BY <1>1, <1>2
<1>7. dst[task[t].cur] # "none"
  BY <1>2 DEF TaskFacts
<1>8. StorageFacts' /\ (AllThere => AllThere')
  BY <1>2, <1>6, <1>7 DEF StorageFacts, AllThere
<1>9. InCompletion => InCompletion'
  <2>1. InCompletion => AllThere /\ task[t].payloads = <<Root>> /\ ~task[t].bad
    BY <1>3, RequestIsHere
  <2> QED BY <1>4, <1>8, <2>1 DEF InCompletion, Completing
<1>10. \A f \in task'[t].todo : src'[f] # "none"
  <2>1. task[t].cur \notin task[t].todo /\ \A f \in task[t].todo : src[f] # "none" /\ f \in Files
    BY <1>1, <1>2 DEF StillThere, Tasks
  <2> QED BY <1>4, <1>6, <2>1
<1>11. CompletionGoesOn(t)
  BY <1>2, <1>4, <1>6, <1>8, <1>9, <1>10 DEF CompletionGoesOn, Completing
<1> QED BY <1>5, <1>11

LEMMA GoesOnRemoveDir ==
    ASSUME TypeOK, TaskFacts, StorageFacts, OneRequest, ~trouble', NEW t \in Ids, RemoveDir(t)
    PROVE  CompletionStep(t) /\ CompletionGoesOn(t)
<1>1. /\ task[t].pc = "verify" /\ UNCHANGED <<dst, dstDir, group, started>>
      /\ ~srcDir' /\ src' = [f \in Files |-> "none"] /\ task' = NextPayload(t)
  BY DEF RemoveDir
<1>2. task[t].payloads = <<Root>>
  BY <1>1 DEF TypeOK, OneRequest
<1>3. /\ task'[t].pc = "complete" /\ task'[t].payloads = <<>> /\ ~task'[t].bad /\ Others(t)
      /\ task'[t].job = task[t].job /\ task'[t].node = task[t].node
      /\ task'[t].group = task[t].group /\ (task'[t].sync <=> task[t].sync)
      /\ (task'[t].won <=> task[t].won)
  BY <1>1, <1>2, NextPayloadFields
<1>4. CompletionStep(t)
  BY <1>1, <1>3 DEF CompletionStep, Completing, Over
<1>5. StorageFacts'
  BY <1>1 DEF StorageFacts
<1>6. CompletionGoesOn(t)
  BY <1>1, <1>3, <1>5 DEF CompletionGoesOn
<1> QED BY <1>4, <1>6

LEMMA GoesOnLeaveSource ==
    ASSUME TypeOK, TaskFacts, StorageFacts, OneRequest, NEW t \in Ids, LeaveSource(t)
    PROVE  CompletionStep(t) /\ CompletionGoesOn(t)
<1>1. /\ task[t].pc = "verify" /\ UNCHANGED <<storages, group, started>> /\ task' = NextPayload(t)
      /\ Head(task[t].payloads) = Root => task[t].bad
  BY DEF LeaveSource, history
<1>2. task[t].payloads = <<Root>> /\ task[t].payloads # <<>>
  BY <1>1 DEF TypeOK, OneRequest
<1>3. Head(<<Root>>) = Root
  OBVIOUS
<1>4. ~InCompletion
  BY <1>1, <1>2, <1>3, RequestIsHere
<1> QED BY <1>1, <1>2, <1>4, NextPayloadGoesOn

-----------------------------------------------------------------------------
(* The theorem                                                              *)

LEMMA MoveInit == Init => MoveInv
<1> SUFFICES ASSUME Init PROVE MoveParts
  BY DEF MoveInv
<1>1. \A t \in Ids : task[t].pc = "none" /\ task[t].payloads = <<>>
  BY SeqTypes DEF Init, NoTask
<1>2. started = {} /\ \A g \in GroupIds : group[g].payloads = <<>>
  BY DEF Init, NoGroup
<1>3. TaskFacts
  BY <1>1 DEF TaskFacts
<1>4. StorageFacts
  <2>1. \A f \in Files : src[f] = "whole" /\ dst[f] = IF f \in Existing THEN "other" ELSE "none"
    BY DEF Init
  <2>2. dstDir = (Existing # {})
    BY DEF Init
  <2> QED BY <2>1, <2>2 DEF StorageFacts
<1>5. Covered
  BY <1>1 DEF Covered, Over
<1>6. OneRequest
  BY <1>1, <1>2 DEF OneRequest
<1>7. StillThere
  BY <1>1 DEF StillThere
<1>8. Requested
  BY <1>2 DEF Requested
<1> QED BY <1>3, <1>4, <1>5, <1>6, <1>7, <1>8 DEF MoveParts

LEMMA LiveParts ==
    ASSUME ~PartialFiles, TypeOK, MoveParts, NEW t \in Ids,
           \/ RunDir(t) \/ Listed(t) \/ Broken(t) \/ (\E f \in Files : UploadStart(t, f))
           \/ UploadOK(t) \/ UploadFailed(t) \/ RunAgain(t)
    PROVE  MoveParts'
<1>1. TaskFacts /\ StorageFacts /\ Covered /\ OneRequest /\ StillThere /\ Requested
  BY DEF MoveParts
<1>2. LiveStep(t) /\ NewFacts(t) /\ NewCovered(t)
  BY <1>1, LiveRunDir, LiveListed, LiveIdle, LiveUploadStart, LiveUploadOK, LiveUploadFailed
<1>3. TaskFacts' /\ StorageFacts' /\ Covered'
  BY <1>1, <1>2, LiveKeepsFacts, LiveKeepsStorage, LiveKeepsCovered
<1>4. OneRequest' /\ StillThere' /\ Requested'
  BY <1>1, <1>2, LiveKeepsRequest
<1> QED BY <1>3, <1>4 DEF MoveParts

LEMMA FinishParts ==
    ASSUME SingleMove, TypeOK, TypeOK', GroupCountsTasks, GroupCountsTasks', MoveParts,
           NEW t \in Ids, Finish(t)
    PROVE  MoveParts'
<1>1. TaskFacts /\ StorageFacts /\ Covered /\ OneRequest /\ StillThere /\ Requested
  BY DEF MoveParts
<1>2. Ends(t) /\ group["top"].pending \in Nat /\ group["top"].pending >= 1
  BY <1>1, FinishEnds
<1>3. TaskFacts' /\ Covered'
  BY <1>1, <1>2, EndsKeepsFacts, EndsKeepsCovered
<1>4. StorageFacts'
  BY <1>1, <1>2 DEF StorageFacts, Ends, storages
<1>5. OneRequest' /\ StillThere'
  BY <1>1, <1>2, EndsKeepsRequest
<1>6. Requested'
  BY <1>1, <1>2, <1>3, EndsRequested
<1> QED BY <1>3, <1>4, <1>5, <1>6 DEF MoveParts

LEMMA CompletionParts ==
    ASSUME Files # {}, TypeOK, MoveParts, ~trouble', NEW t \in Ids, Completion(t)
    PROVE  MoveParts'
<1>1. TaskFacts /\ StorageFacts /\ Covered /\ OneRequest /\ StillThere /\ Requested
  BY DEF MoveParts
<1>2. CompletionStep(t) /\ CompletionGoesOn(t)
  BY <1>1, GoesOnEnds, GoesOnCompleteDir, NoFilePayload, GoesOnVerify, GoesOnRemoveFile,
     GoesOnRemoveDir, GoesOnLeaveSource DEF Completion
<1>3. TaskFacts' /\ Covered' /\ StorageFacts'
  BY <1>1, <1>2, CompletionKeepsFacts, CompletionKeepsCovered DEF CompletionGoesOn
<1>4. OneRequest' /\ StillThere' /\ Requested'
  BY <1>1, <1>2, CompletionKeepsRequest
<1> QED BY <1>3, <1>4 DEF MoveParts

\* A failed removal and a user's retry are remembered.
Remembered == retried' = retried /\ (trouble => trouble')

LEMMA PlainBefore ==
    ASSUME [Next]_vars, Plain'
    PROVE  Plain /\ \A t \in Ids : ~UserRetries(t)
<1>1. \A t \in Ids : ~UserRetries(t)
  BY DEF Plain, UserRetries
<1>2. ASSUME NEW j \in Jobs, NEW sync \in BOOLEAN, Start(j, sync) PROVE Remembered
  BY <1>2 DEF Start, Remembered
<1>3. ASSUME NEW t \in Ids,
             \/ RunDir(t) \/ AddNext(t) \/ Listed(t) \/ Broken(t)
             \/ (\E f \in Files : UploadStart(t, f))
             \/ UploadOK(t) \/ UploadFailed(t) \/ RunAgain(t) \/ Finish(t)
      PROVE  Remembered
  <2>1. UNCHANGED history
    BY <1>3 DEF RunDir, AddNext, Listed, Broken, UploadStart, UploadOK, UploadFailed, RunAgain,
       Finish
  <2> QED BY <2>1 DEF history, Remembered
<1>4. ASSUME NEW t \in Ids, Completion(t) PROVE Remembered
  <2>1. CASE CompletionEnds(t) \/ CompleteFile(t) \/ LeaveSource(t)
    BY <2>1 DEF CompletionEnds, CompleteFile, LeaveSource, history, Remembered
  <2>2. CASE CompleteDir(t)
    <3>1. retried' = retried
      BY <2>2 DEF CompleteDir
    <3>2. CASE trouble' = trouble
      BY <3>1, <3>2 DEF Remembered
    <3>3. CASE trouble' = (trouble \/ (srcDir /\ dstDir))
      BY <3>1, <3>3 DEF Remembered
    <3> QED BY <2>2, <3>2, <3>3 DEF CompleteDir
  <2>3. CASE Verify(t)
    <3>1. retried' = retried
      BY <2>3 DEF Verify
    <3>2. CASE trouble' = trouble
      BY <3>1, <3>2 DEF Remembered
    <3>3. ASSUME NEW f, trouble' = (trouble \/ Verified(f)) PROVE Remembered
      BY <3>1, <3>3 DEF Remembered
    <3> QED BY <2>3, <3>2, <3>3 DEF Verify
  <2>4. CASE RemoveFile(t)
    BY <2>4 DEF RemoveFile, Remembered
  <2>5. CASE RemoveDir(t)
    BY <2>5 DEF RemoveDir, Remembered
  <2> QED BY <1>4, <2>1, <2>2, <2>3, <2>4, <2>5 DEF Completion
<1>5. ASSUME UNCHANGED vars PROVE Remembered
  BY <1>5 DEF vars, Remembered
<1>6. Remembered
  BY <1>1, <1>2, <1>3, <1>4, <1>5 DEF Next
<1> QED BY <1>1, <1>6 DEF Plain, Remembered

LEMMA PartsStutter == MoveParts /\ UNCHANGED vars => MoveParts'
<1> SUFFICES ASSUME MoveParts, UNCHANGED vars PROVE MoveParts'
  OBVIOUS
<1> USE DEF vars
<1>1. TaskFacts'
  BY DEF MoveParts, TaskFacts, RootTask
<1>2. StorageFacts' /\ StillThere'
  BY DEF MoveParts, StorageFacts, StillThere
<1>3. Covered'
  BY DEF MoveParts, Covered, Handled, Over
<1>4. OneRequest'
  BY DEF MoveParts, OneRequest, Unasked, Completing, RootTask, Live
<1>5. Requested'
  BY DEF MoveParts, Requested, Failed, ToAsk, InGroup, InCompletion, AllThere, RootTask, Live,
         Over, Completing
<1> QED BY <1>1, <1>2, <1>3, <1>4, <1>5 DEF MoveParts

LEMMA MoveStep ==
    ~PartialFiles /\ Files # {} /\ SingleMove /\ GroupInv /\ MoveInv /\ [Next]_vars => MoveInv'
<1> SUFFICES ASSUME ~PartialFiles, Files # {}, SingleMove, GroupInv, MoveInv, [Next]_vars, Plain'
             PROVE  MoveParts'
  BY DEF MoveInv
<1>1. TypeOK /\ IdsInOrder /\ GroupCountsTasks /\ TypeOK' /\ GroupCountsTasks'
  BY CountStep DEF GroupInv
<1>2. MoveParts /\ ~trouble' /\ \A t \in Ids : ~UserRetries(t)
  BY PlainBefore DEF MoveInv, Plain
<1>3. ASSUME NEW j \in Jobs, NEW sync \in BOOLEAN, Start(j, sync) PROVE MoveParts'
  BY <1>1, <1>2, <1>3, StartParts
<1>4. ASSUME NEW t \in Ids, AddNext(t) PROVE MoveParts'
  BY <1>1, <1>2, <1>4, AddNextParts
<1>5. ASSUME NEW t \in Ids, Finish(t) PROVE MoveParts'
  BY <1>1, <1>2, <1>5, FinishParts
<1>6. ASSUME NEW t \in Ids, Completion(t) PROVE MoveParts'
  BY <1>1, <1>2, <1>6, CompletionParts
<1>7. ASSUME NEW t \in Ids,
             \/ RunDir(t) \/ Listed(t) \/ Broken(t) \/ (\E f \in Files : UploadStart(t, f))
             \/ UploadOK(t) \/ UploadFailed(t) \/ RunAgain(t)
      PROVE  MoveParts'
  BY <1>1, <1>2, <1>7, LiveParts
<1>8. CASE UNCHANGED vars
  BY <1>2, <1>8, PartsStutter
<1> QED BY <1>2, <1>3, <1>4, <1>5, <1>6, <1>7, <1>8 DEF Next

LEMMA MoveGone == GroupInv /\ MoveInv => MovedIsGone
<1> SUFFICES ASSUME GroupInv, MoveInv, NEW j \in started, TypeOf[j] = "move",
                    \A t \in Ids : ~Live(t) /\ ~Completing(t),
                    \A t \in Ids : task[t].job = j => task[t].won,
                    retried = {}, ~trouble
             PROVE  ~srcDir
  BY DEF MovedIsGone
<1>1. TypeOK /\ GroupCountsTasks /\ Requested
  BY DEF GroupInv, MoveInv, MoveParts, Plain
<1>2. ~Failed(j) /\ ~ToAsk(j) /\ ~InCompletion
  BY DEF Failed, ToAsk, InCompletion
<1>3. LiveIn("top") = {}
  BY DEF LiveIn
<1>4. group["top"].pending = 0
  BY <1>1, <1>3, FS_EmptySet DEF GroupCountsTasks, LiveIn
<1>5. group["top"].payloads = <<>>
  BY <1>1, <1>4 DEF GroupCountsTasks, NoGroup
<1>6. ~InGroup(j)
  BY <1>5 DEF InGroup
<1> QED BY <1>1, <1>2, <1>6 DEF Requested

\* One move, with any number of copies and merges of the same directory beside it:
\* when all its tasks have succeeded, verifyAndRemove has removed the source.  It
\* is stated for a directory that has files (an empty one is not created at the
\* destination, so the completion does not find it) and for storages that show an
\* upload only when it has succeeded (elsewhere the failed upload of another
\* transfer can remove what the completion wants to verify).
THEOREM MovesRemove ==
    ~PartialFiles /\ Files # {} /\ SingleMove => (Spec => []MovedIsGone)
<1> SUFFICES ASSUME ~PartialFiles, Files # {}, SingleMove PROVE Spec => []MovedIsGone
  OBVIOUS
<1>1. Init => GroupInv /\ MoveInv
  BY CountInit, MoveInit
<1>2. GroupInv /\ MoveInv /\ [Next]_vars => GroupInv' /\ MoveInv'
  BY CountStep, MoveStep
<1>3. GroupInv /\ MoveInv => MovedIsGone
  BY MoveGone
<1> QED BY <1>1, <1>2, <1>3, PTL DEF Spec
=============================================================================
