--------------------------- MODULE ServicesProofs ---------------------------
(***************************************************************************)
(* Proofs about tasks and settings, the sessions of public bots, the rate  *)
(* limiter and the keys of an entity, for any number of requests served at *)
(* once.                                                                   *)
(***************************************************************************)
EXTENDS EntityKeys, Work, PublicBot, RateLimit, FiniteSetTheorems, TLAPS

-----------------------------------------------------------------------------
(* Tasks and settings: types *)

LEMMA RowTypes ==
  /\ NoTask \in TaskRow /\ NoChange \in ChangeRow /\ AllUnset \in Row
  /\ NoEdit \in Edit /\ NoEdit.pc = "ready"
BY WorkAssumption DEF NoTask, TaskRow, NoChange, ChangeRow, AllUnset, Row, NoEdit, Edit

\* A request that is well-formed keeps every request well-formed.
LEMMA HandleOK ==
  ASSUME WorkTypeOK, NEW w \in Editor, NEW r \in Edit, Handle(w, r), EditOK(r)', UNCHANGED change
  PROVE  edit' \in [Editor -> Edit] /\ \A v \in Editor : EditOK(edit[v])'
BY DEF WorkTypeOK, Handle, EditOK

LEMMA CopiesOK ==
  ASSUME NEW r \in TaskRow, NEW copy \in Copies(r)
  PROVE  copy \in TaskRow
<1>1. CASE copy = r
  BY <1>1
<1>2. ASSUME NEW s \in Settable, copy = [r EXCEPT !.status = s, !.completed = s \in Final]
      PROVE  copy \in TaskRow
  <2> DEFINE final == s \in Final
  <2>1. final \in BOOLEAN /\ s \in {"none", "deleted", "handed_over"} \cup Settable
    BY <1>2
  <2>2. copy = [r EXCEPT !.status = s, !.completed = final]
    BY <1>2
  <2> HIDE DEF final
  <2>3. QED
    BY <2>1, <2>2 DEF TaskRow
<1>3. ASSUME NEW p \in Person, copy = [r EXCEPT !.assignee = p]
      PROVE  copy \in TaskRow
  BY <1>3 DEF TaskRow
<1>4. QED
  BY <1>1, <1>2, <1>3 DEF Copies

LEMMA WorkInitType == WorkInit => WorkTypeOK
<1> SUFFICES ASSUME WorkInit PROVE WorkTypeOK
  OBVIOUS
<1>1. \A c \in Change : change[c].status = "none"
  BY DEF WorkInit, NoChange
<1>2. \A w \in Editor : EditOK(edit[w])
  BY DEF WorkInit, NoEdit, EditOK
<1>3. QED
  BY <1>1, <1>2, RowTypes DEF WorkInit, WorkTypeOK

LEMMA WorkStepType == WorkTypeOK /\ [WorkNext]_workVars => WorkTypeOK'
<1> SUFFICES ASSUME WorkTypeOK, [WorkNext]_workVars PROVE WorkTypeOK'
  OBVIOUS
<1>1. ASSUME NEW t \in TaskId, NEW p \in Person, NEW a \in Person \cup {Nothing}, CreateTask(t, p, a)
      PROVE  WorkTypeOK'
  BY <1>1 DEF CreateTask, WorkTypeOK, TaskRow, EditOK, past, Settable, Final
<1>2. ASSUME NEW w \in Editor, NEW p \in Person, NEW t \in TaskId, ReadTask(w, p, t)
      PROVE  WorkTypeOK'
  <2>1. PICK copy \in Copies(task[t]) :
          Handle(w, [NoEdit EXCEPT !.pc = "task", !.task = t, !.copy = copy])
    BY <1>2 DEF ReadTask
  <2>2. copy \in TaskRow
    BY CopiesOK DEF WorkTypeOK
  <2> DEFINE r == [NoEdit EXCEPT !.pc = "task", !.task = t, !.copy = copy]
  <2>3. r \in Edit /\ EditOK(r)'
    BY <2>2, RowTypes DEF NoEdit, Edit, EditOK
  <2>4. QED
    BY <1>2, <2>1, <2>3, HandleOK DEF ReadTask, WorkTypeOK, past
<1>3. ASSUME NEW w \in Editor, NEW t \in TaskId, HandOver(w, t)
      PROVE  WorkTypeOK'
  <2> DEFINE r == [NoEdit EXCEPT !.pc = "task", !.task = t,
                                 !.copy = [task[t] EXCEPT !.status = "handed_over"]]
  <2>1. r \in Edit /\ EditOK(r)'
    BY RowTypes DEF NoEdit, Edit, EditOK, WorkTypeOK, TaskRow
  <2>2. QED
    BY <1>3, <2>1, HandleOK DEF HandOver, WorkTypeOK, past
<1>4. ASSUME NEW w \in Editor, NEW p \in Person, NEW t \in TaskId, ReadForDelete(w, p, t)
      PROVE  WorkTypeOK'
  <2> DEFINE r == [NoEdit EXCEPT !.pc = "delete", !.task = t]
  <2>1. r \in Edit /\ EditOK(r)'
    BY RowTypes DEF NoEdit, Edit, EditOK
  <2>2. QED
    BY <1>4, <2>1, HandleOK DEF ReadForDelete, WorkTypeOK, past
<1>5. ASSUME NEW w \in Editor, NEW f \in Field, NEW v \in Value, ReadSettings(w, f, v)
      PROVE  WorkTypeOK'
  <2> DEFINE r == [NoEdit EXCEPT !.pc = "save", !.row = [setting EXCEPT ![f] = v]]
  <2>1. r \in Edit /\ EditOK(r)'
    BY RowTypes DEF NoEdit, Edit, EditOK, WorkTypeOK, Row
  <2>2. QED
    BY <1>5, <2>1, HandleOK DEF ReadSettings, WorkTypeOK, past
<1>6. ASSUME NEW c \in Change, NEW f \in Field, NEW v \in Value, AskChange(c, f, v)
      PROVE  WorkTypeOK'
  BY <1>6 DEF AskChange, WorkTypeOK, ChangeRow, EditOK, past
<1>7. ASSUME NEW w \in Editor, NEW c \in Change, NEW ok \in BOOLEAN, ReadChange(w, c, ok)
      PROVE  WorkTypeOK'
  <2> DEFINE r == [NoEdit EXCEPT !.pc = "resolve", !.change = c, !.approve = ok]
  <2>1. r \in Edit
    BY RowTypes DEF NoEdit, Edit
  <2>2. change[c].field \in Field
    BY <1>7 DEF ReadChange, WorkTypeOK
  <2>3. EditOK(r)'
    BY <1>7, <2>2, RowTypes DEF NoEdit, EditOK, ReadChange
  <2>4. QED
    BY <1>7, <2>1, <2>3, HandleOK DEF ReadChange, WorkTypeOK, past
<1>8. ASSUME NEW w \in Editor, WriteTask(w) PROVE WorkTypeOK'
  BY <1>8, RowTypes DEF WriteTask, Answer, Handle, Lose, WorkTypeOK, EditOK, Edit, Exists, past
<1>9. ASSUME NEW w \in Editor, DeleteTask(w) PROVE WorkTypeOK'
  <2>1. edit' \in [Editor -> Edit] /\ \A v \in Editor : EditOK(edit[v])'
    BY <1>9, RowTypes, HandleOK DEF DeleteTask, Answer, EditOK
  <2>2. [NoTask EXCEPT !.status = "deleted"] \in TaskRow
    BY RowTypes DEF TaskRow
  <2>3. task' \in [TaskId -> TaskRow] /\ lost' \in Nat
    BY <1>9, <2>2 DEF DeleteTask, Lose, WorkTypeOK
  <2>4. QED
    BY <1>9, <2>1, <2>3 DEF DeleteTask, WorkTypeOK, past
<1>10. ASSUME NEW w \in Editor, Resolve(w) PROVE WorkTypeOK'
  <2> DEFINE r == edit[w]
  <2>1. r \in Edit /\ r.change \in Change /\ change[r.change].field \in Field
    BY <1>10 DEF Resolve, WorkTypeOK, EditOK
  <2>2. change' \in [Change -> ChangeRow] /\ \A c \in Change : change'[c].field = change[c].field
    BY <1>10, <2>1 DEF Resolve, WorkTypeOK, ChangeRow
  <2>3. \A c \in Change : change[c].status = "none" /\ c # r.change => change'[c].status = "none"
    BY <1>10, <2>1 DEF Resolve, WorkTypeOK
  <2>4. edit' \in [Editor -> Edit] /\ \A v \in Editor : EditOK(edit[v])'
    BY <1>10, <2>1, <2>2, RowTypes DEF Resolve, Answer, Handle, WorkTypeOK, EditOK, Edit
  <2>5. \A c \in Change : change'[c].status # "none" => change'[c].field \in Field
    BY <1>10, <2>1, <2>2 DEF Resolve, WorkTypeOK
  <2>6. lost' \in Nat /\ contested' \subseteq Change /\ UNCHANGED <<task, setting, applied>>
    BY <1>10, <2>1 DEF Resolve, Lose, WorkTypeOK
  <2>7. QED
    BY <2>2, <2>4, <2>5, <2>6 DEF WorkTypeOK
<1>11. ASSUME NEW w \in Editor, FetchSettings(w) PROVE WorkTypeOK'
  <2> DEFINE r == edit[w]  c == change[r.change]
  <2>1. r \in Edit /\ r.change \in Change /\ c.field \in Field /\ c.value \in Value
    BY <1>11 DEF FetchSettings, WorkTypeOK, EditOK, ChangeRow
  <2>2. PICK s : s = [r EXCEPT !.pc = "save", !.row = [setting EXCEPT ![c.field] = c.value]]
    OBVIOUS
  <2>a. s \in Edit /\ s.pc = "save" /\ UNCHANGED change
    <3>1. [setting EXCEPT ![c.field] = c.value] \in Row
      BY <2>1 DEF WorkTypeOK, Row
    <3>2. QED
      BY <1>11, <2>1, <2>2, <3>1 DEF Edit, FetchSettings
  <2>3. edit' \in [Editor -> Edit] /\ \A v \in Editor : EditOK(edit[v])'
    <3>1. CASE Handle(w, s)
      BY <2>a, <3>1, HandleOK DEF EditOK
    <3>2. CASE Answer(w)
      BY <1>11, <3>2, RowTypes, HandleOK DEF FetchSettings, Answer, EditOK
    <3>3. QED
      BY <1>11, <2>2, <3>1, <3>2 DEF FetchSettings
  <2>4. QED
    BY <1>11, <2>3 DEF FetchSettings, Lose, WorkTypeOK, past
<1>12. ASSUME NEW w \in Editor, SaveSettings(w) PROVE WorkTypeOK'
  <2>1. edit[w] \in Edit
    BY DEF WorkTypeOK
  <2>2. edit' \in [Editor -> Edit] /\ \A v \in Editor : EditOK(edit[v])'
    BY <1>12, RowTypes, HandleOK DEF SaveSettings, Answer, EditOK
  <2>3. setting' \in Row /\ applied' \subseteq Change /\ lost' \in Nat
    BY <1>12, <2>1 DEF SaveSettings, Lose, WorkTypeOK, Edit
  <2>4. QED
    BY <1>12, <2>2, <2>3 DEF SaveSettings, WorkTypeOK, past
<1>13. CASE UNCHANGED workVars
  BY <1>13 DEF workVars, past, WorkTypeOK, EditOK
<1>14. QED
  BY <1>1, <1>2, <1>3, <1>4, <1>5, <1>6, <1>7, <1>8, <1>9, <1>10, <1>11, <1>12, <1>13
     DEF WorkNext, Tasks, Changes, CreatesTask, AsksChange

\* WorkTypeOK: the tables and the requests that are served are well-formed.
THEOREM WorkTypes == WorkSpec => []WorkTypeOK
BY WorkInitType, WorkStepType, PTL DEF WorkSpec
-----------------------------------------------------------------------------
(* Tasks: the completion time, and deletion *)

\* What an editor is about to write matches as well.
CopiesMatch == \A w \in Editor : edit[w].pc = "task" => RowMatches(edit[w].copy)
TaskInv     == CompletionMatches /\ CopiesMatch

LEMMA CopyMatches ==
  ASSUME NEW r \in TaskRow, RowMatches(r), NEW copy \in Copies(r)
  PROVE  RowMatches(copy)
<1>1. CASE copy = r
  BY <1>1
<1>2. ASSUME NEW s \in Settable, copy = [r EXCEPT !.status = s, !.completed = s \in Final]
      PROVE  RowMatches(copy)
  <2>1. copy.status = s /\ copy.completed = (s \in Final)
    BY <1>2 DEF TaskRow
  <2>2. QED
    BY <2>1 DEF RowMatches
<1>3. ASSUME NEW p \in Person, copy = [r EXCEPT !.assignee = p]
      PROVE  RowMatches(copy)
  BY <1>3 DEF TaskRow, RowMatches
<1>4. QED
  BY <1>1, <1>2, <1>3 DEF Copies

LEMMA NoTaskMatches ==
  RowMatches(NoTask) /\ RowMatches([NoTask EXCEPT !.status = "deleted"])
BY DEF RowMatches, NoTask, Final

LEMMA InitTask == WorkInit => TaskInv
BY NoTaskMatches DEF WorkInit, TaskInv, CompletionMatches, CopiesMatch, NoEdit

LEMMA TaskStep == WorkTypeOK /\ TaskInv /\ [WorkNext]_workVars => TaskInv'
<1> SUFFICES ASSUME WorkTypeOK, TaskInv, [WorkNext]_workVars PROVE TaskInv'
  OBVIOUS
<1> USE DEF TaskInv
\* steps that leave tasks alone and do not begin a write to one
<1>a. ASSUME NEW w \in Editor, NEW r, Handle(w, r), r.pc # "task", UNCHANGED task
      PROVE  TaskInv'
  BY <1>a DEF WorkTypeOK, Handle, CompletionMatches, CopiesMatch
<1>1. ASSUME NEW t \in TaskId, NEW p \in Person, NEW a \in Person \cup {Nothing}, CreateTask(t, p, a)
      PROVE  TaskInv'
  BY <1>1 DEF CreateTask, WorkTypeOK, CompletionMatches, CopiesMatch, RowMatches, Final
<1>2. ASSUME NEW w \in Editor, NEW p \in Person, NEW t \in TaskId, ReadTask(w, p, t)
      PROVE  TaskInv'
  <2>1. PICK copy \in Copies(task[t]) :
          Handle(w, [NoEdit EXCEPT !.pc = "task", !.task = t, !.copy = copy])
    BY <1>2 DEF ReadTask
  <2>2. RowMatches(copy)
    BY CopyMatches DEF WorkTypeOK, CompletionMatches
  <2>3. edit'[w].copy = copy /\ \A v \in Editor \ {w} : edit'[v] = edit[v]
    BY <2>1 DEF Handle, WorkTypeOK, NoEdit
  <2>4. QED
    BY <1>2, <2>2, <2>3 DEF ReadTask, CompletionMatches, CopiesMatch
<1>3. ASSUME NEW w \in Editor, NEW t \in TaskId, HandOver(w, t)
      PROVE  TaskInv'
  <2>1. task[t] \in TaskRow
    BY DEF WorkTypeOK
  <2>2. edit'[w].copy.status = "handed_over" /\ \A v \in Editor \ {w} : edit'[v] = edit[v]
    BY <1>3, <2>1 DEF HandOver, Handle, WorkTypeOK, NoEdit, TaskRow
  <2>3. QED
    BY <1>3, <2>2 DEF HandOver, CompletionMatches, CopiesMatch, RowMatches
<1>4. ASSUME NEW w \in Editor, WriteTask(w) PROVE TaskInv'
  <2>1. RowMatches(edit[w].copy) /\ \A v \in Editor : edit'[v].pc = "task" => edit'[v] = edit[v]
    BY <1>4 DEF WriteTask, Answer, Handle, NoEdit, WorkTypeOK, CopiesMatch
  <2>2. \A t \in TaskId : task'[t] = task[t] \/ task'[t] = edit[w].copy
    BY <1>4 DEF WriteTask, WorkTypeOK
  <2>3. QED
    BY <2>1, <2>2 DEF CompletionMatches, CopiesMatch
<1>5. ASSUME NEW w \in Editor, DeleteTask(w) PROVE TaskInv'
  <2>1. \A v \in Editor : edit'[v].pc = "task" => edit'[v] = edit[v]
    BY <1>5 DEF DeleteTask, Answer, Handle, NoEdit, WorkTypeOK
  <2>2. \A t \in TaskId : task'[t] = task[t] \/ task'[t] = [NoTask EXCEPT !.status = "deleted"]
    BY <1>5 DEF DeleteTask, WorkTypeOK
  <2>3. QED
    BY <2>1, <2>2, NoTaskMatches DEF CompletionMatches, CopiesMatch
<1>6. ASSUME NEW w \in Editor, NEW p \in Person, NEW t \in TaskId, ReadForDelete(w, p, t)
      PROVE  TaskInv'
  BY <1>6, <1>a DEF ReadForDelete, NoEdit
<1>7. ASSUME NEW w \in Editor, Changes(w) PROVE TaskInv'
  <2>1. UNCHANGED task /\ \A v \in Editor : edit'[v].pc = "task" => edit'[v] = edit[v]
    <3> DEFINE Kept == \A v \in Editor : edit'[v].pc = "task" => edit'[v] = edit[v]
    <3>1. ASSUME NEW r, Handle(w, r), r.pc # "task" PROVE Kept
      BY <3>1 DEF Handle, WorkTypeOK
    <3>2. UNCHANGED task
      BY <1>7 DEF Changes, ReadSettings, ReadChange, Resolve, FetchSettings, SaveSettings
    <3>3. edit[w] \in Edit
      BY DEF WorkTypeOK
    <3> HIDE DEF Kept
    <3>4. ASSUME NEW f \in Field, NEW v \in Value, ReadSettings(w, f, v) PROVE Kept
      BY <3>4, <3>1 DEF ReadSettings, NoEdit
    <3>5. ASSUME NEW c \in Change, NEW ok \in BOOLEAN, ReadChange(w, c, ok) PROVE Kept
      BY <3>5, <3>1 DEF ReadChange, NoEdit
    <3>6. ASSUME Answer(w) PROVE Kept
      BY <3>6, <3>1, RowTypes DEF Answer
    <3>7. ASSUME Resolve(w) PROVE Kept
      BY <3>3, <3>7, <3>6, <3>1 DEF Resolve, Edit
    <3>8. ASSUME FetchSettings(w) PROVE Kept
      BY <3>3, <3>8, <3>6, <3>1 DEF FetchSettings, Edit
    <3>9. ASSUME SaveSettings(w) PROVE Kept
      BY <3>9, <3>6 DEF SaveSettings
    <3>10. QED
      BY <1>7, <3>2, <3>4, <3>5, <3>7, <3>8, <3>9 DEF Changes, Kept
  <2>2. QED
    BY <2>1 DEF CompletionMatches, CopiesMatch
<1>8. CASE AsksChange
  BY <1>8 DEF AsksChange, AskChange, CompletionMatches, CopiesMatch
<1>9. CASE UNCHANGED workVars
  BY <1>9 DEF workVars, CompletionMatches, CopiesMatch
<1>10. QED
  BY <1>1, <1>2, <1>3, <1>4, <1>5, <1>6, <1>7, <1>8, <1>9 DEF WorkNext, Tasks, CreatesTask

\* CompletionMatches: overlapping full-row writes keep a task's status and its
\* completion time together.
THEOREM WorkCompletion == WorkSpec => []CompletionMatches
BY WorkTypes, InitTask, TaskStep, PTL DEF WorkSpec, TaskInv

\* DeletedStaysDeleted: no write that was read before brings a deleted task back.
THEOREM WorkDeleted == WorkSpec => DeletedStaysDeleted
<1>1. WorkTypeOK /\ [WorkNext]_workVars =>
        [\A t \in TaskId : task[t].status = "deleted" => task'[t].status = "deleted"]_workVars
  <2> SUFFICES ASSUME WorkTypeOK, WorkNext, NEW t \in TaskId, task[t].status = "deleted"
               PROVE  task'[t].status = "deleted"
    OBVIOUS
  <2>1. ASSUME NEW w \in Editor, WriteTask(w) PROVE task'[t].status = "deleted"
    BY <2>1 DEF WriteTask, WorkTypeOK, Exists
  <2>2. ASSUME NEW w \in Editor, DeleteTask(w) PROVE task'[t].status = "deleted"
    BY <2>2 DEF DeleteTask, WorkTypeOK, NoTask
  <2>3. CASE CreatesTask
    BY <2>3 DEF CreatesTask, CreateTask, WorkTypeOK
  <2>4. QED
    BY <2>1, <2>2, <2>3 DEF WorkNext, Tasks, Changes, AsksChange, ReadTask, HandOver, ReadForDelete,
         ReadSettings, ReadChange, Resolve, FetchSettings, SaveSettings, AskChange
<1>2. QED
  BY <1>1, WorkTypes, PTL DEF WorkSpec, DeletedStaysDeleted-----------------------------------------------------------------------------
(* Decisions *)

Decided(c) == change[c].status = "approved" \/ c \in contested

\* What is applied, or about to be, was approved; a decision under way is on a
\* pending request; both unless decisions on it overlapped.
DecisionInv ==
  /\ \A c \in applied : Decided(c)
  /\ \A w \in Editor : edit[w].pc \in {"fetch", "save"} /\ edit[w].change # Nothing =>
       Decided(edit[w].change)
  /\ \A w \in Editor : edit[w].pc = "resolve" =>
       change[edit[w].change].status = "pending" \/ edit[w].change \in contested

LEMMA InitDecision == WorkInit => DecisionInv
BY DEF WorkInit, DecisionInv, NoEdit

LEMMA DecisionStep == WorkTypeOK /\ DecisionInv /\ [WorkNext]_workVars => DecisionInv'
<1> SUFFICES ASSUME WorkTypeOK, DecisionInv, [WorkNext]_workVars PROVE DecisionInv'
  OBVIOUS
\* steps that decide nothing, apply nothing and begin neither
<1>a. ASSUME NEW w \in Editor, NEW r, Handle(w, r), UNCHANGED <<change, applied, contested>>,
             r.pc \in {"fetch", "save"} => r.change = Nothing, r.pc # "resolve"
      PROVE  DecisionInv'
  BY <1>a DEF WorkTypeOK, Handle, DecisionInv, Decided
<1>1. CASE CreatesTask
  BY <1>1 DEF CreatesTask, CreateTask, DecisionInv, Decided, past
<1>2. ASSUME NEW w \in Editor, Tasks(w) PROVE DecisionInv'
  <2>1. ASSUME NEW p \in Person, NEW t \in TaskId, ReadTask(w, p, t) PROVE DecisionInv'
    BY <2>1, <1>a DEF ReadTask, NoEdit, past
  <2>2. ASSUME NEW p \in Person, NEW t \in TaskId, ReadForDelete(w, p, t) PROVE DecisionInv'
    BY <2>2, <1>a DEF ReadForDelete, NoEdit, past
  <2>3. ASSUME NEW t \in TaskId, HandOver(w, t) PROVE DecisionInv'
    BY <2>3, <1>a DEF HandOver, NoEdit, past
  <2>4. CASE WriteTask(w) \/ DeleteTask(w)
    BY <2>4, <1>a, RowTypes DEF WriteTask, DeleteTask, Answer, past
  <2>5. QED
    BY <1>2, <2>1, <2>2, <2>3, <2>4 DEF Tasks
<1>3. ASSUME NEW w \in Editor, NEW f \in Field, NEW v \in Value, ReadSettings(w, f, v)
      PROVE  DecisionInv'
  BY <1>3, <1>a DEF ReadSettings, NoEdit, past
<1>4. ASSUME NEW c \in Change, NEW f \in Field, NEW v \in Value, AskChange(c, f, v)
      PROVE  DecisionInv'
  <2>1. \A d \in Change : change'[d].status = change[d].status \/ (d = c /\ change[d].status = "none")
    BY <1>4 DEF AskChange, WorkTypeOK
  <2>2. UNCHANGED <<edit, applied, contested>>
    BY <1>4 DEF AskChange, past
  <2>3. \A w \in Editor : edit[w].change \in Change \cup {Nothing}
    BY DEF WorkTypeOK, Edit
  <2>4. \A w \in Editor : edit[w].pc = "resolve" => edit[w].change \in Change
    BY DEF WorkTypeOK, EditOK
  <2>5. QED
    BY <2>1, <2>2, <2>3, <2>4 DEF DecisionInv, Decided, WorkTypeOK
<1>5. ASSUME NEW w \in Editor, NEW c \in Change, NEW ok \in BOOLEAN, ReadChange(w, c, ok)
      PROVE  DecisionInv'
  BY <1>5 DEF ReadChange, Handle, NoEdit, WorkTypeOK, DecisionInv, Decided, past
<1>6. ASSUME NEW w \in Editor, Resolve(w) PROVE DecisionInv'
  <2> DEFINE c == edit[w].change
  <2>1. c \in Change /\ edit[w] \in Edit /\ edit[w].pc = "resolve"
    BY <1>6 DEF Resolve, WorkTypeOK, EditOK
  <2>2. CASE Lose /\ Answer(w) /\ UNCHANGED <<change, contested>>
    BY <1>6, <2>2, <1>a, RowTypes DEF Resolve, Answer
  <2>3. CASE ~ (Lose /\ Answer(w) /\ UNCHANGED <<change, contested>>)
    <3>1. \A d \in Change \ {c} : change'[d] = change[d]
      BY <1>6, <2>1, <2>3 DEF Resolve, WorkTypeOK
    <3>2. change'[c].status = (IF edit[w].approve THEN "approved" ELSE "rejected")
      BY <1>6, <2>1, <2>3 DEF Resolve, WorkTypeOK, ChangeRow
    <3>3. /\ contested \subseteq contested' /\ UNCHANGED applied
          /\ \A v \in Editor \ {w} : edit[v].pc = "resolve" /\ edit[v].change = c => c \in contested'
      BY <1>6, <2>1, <2>3 DEF Resolve
    <3>4. \A v \in Editor \ {w} : edit'[v] = edit[v]
      BY <1>6, <2>3 DEF Resolve, Answer, Handle, WorkTypeOK
    <3>5. \/ edit'[w].pc = "ready"
          \/ edit'[w].pc = "fetch" /\ edit'[w].change = c /\ change'[c].status = "approved"
      BY <1>6, <2>1, <2>3, <3>2, RowTypes DEF Resolve, Answer, Handle, WorkTypeOK, Edit
    <3>6. change[c].status = "approved" => c \in contested
      BY <2>1 DEF DecisionInv
    <3>7. \A d \in Change : Decided(d) => Decided(d)'
      BY <3>1, <3>3, <3>6 DEF Decided
    <3>8. \A v \in Editor : edit[v].change \in Change \cup {Nothing}
      BY DEF WorkTypeOK, Edit
    <3>9. \A d \in applied' : Decided(d)'
      BY <3>3, <3>7 DEF DecisionInv, WorkTypeOK
    <3>10. ASSUME NEW v \in Editor, edit'[v].pc \in {"fetch", "save"}, edit'[v].change # Nothing
           PROVE  Decided(edit[v].change)'
      BY <3>10, <3>4, <3>5, <3>7, <3>8, <2>1 DEF DecisionInv, Decided
    <3>11. ASSUME NEW v \in Editor, edit'[v].pc = "resolve"
           PROVE  change'[edit'[v].change].status = "pending" \/ edit'[v].change \in contested'
      <4>1. v # w /\ edit'[v] = edit[v] /\ edit[v].change \in Change
        BY <3>4, <3>5, <3>11 DEF WorkTypeOK, EditOK
      <4>2. QED
        BY <4>1, <3>1, <3>3, <3>11 DEF DecisionInv
    <3>12. QED
      BY <3>9, <3>10, <3>11 DEF DecisionInv
  <2>4. QED
    BY <2>2, <2>3
<1>7. ASSUME NEW w \in Editor, FetchSettings(w) PROVE DecisionInv'
  <2>1. edit[w] \in Edit /\ UNCHANGED <<change, applied, contested>>
    BY <1>7 DEF FetchSettings, WorkTypeOK, past
  <2>2. CASE Answer(w)
    BY <2>1, <2>2, <1>a, RowTypes DEF Answer
  <2>3. ASSUME ~ Answer(w) PROVE DecisionInv'
    <3>1. edit'[w].pc = "save" /\ edit'[w].change = edit[w].change
      <4>1. PICK row : Handle(w, [edit[w] EXCEPT !.pc = "save", !.row = row])
        BY <1>7, <2>3 DEF FetchSettings
      <4>2. edit'[w] = [edit[w] EXCEPT !.pc = "save", !.row = row]
        BY <4>1 DEF Handle, WorkTypeOK
      <4>3. QED
        BY <2>1, <4>2 DEF Edit
    <3>2. \A v \in Editor \ {w} : edit'[v] = edit[v]
      BY <1>7, <2>3 DEF FetchSettings, Handle, WorkTypeOK
    <3>3. QED
      BY <1>7, <2>1, <3>1, <3>2 DEF FetchSettings, DecisionInv, Decided
  <2>4. QED
    BY <2>2, <2>3
<1>8. ASSUME NEW w \in Editor, SaveSettings(w) PROVE DecisionInv'
  <2>1. \A v \in Editor : edit'[v] = edit[v] \/ edit'[v] = NoEdit
    BY <1>8 DEF SaveSettings, Answer, Handle, WorkTypeOK
  <2>2. applied' \subseteq applied \cup ({edit[w].change} \ {Nothing}) /\ UNCHANGED <<change, contested>>
    BY <1>8 DEF SaveSettings
  <2>3. QED
    BY <1>8, <2>1, <2>2 DEF SaveSettings, NoEdit, DecisionInv, Decided
<1>9. CASE UNCHANGED workVars
  BY <1>9 DEF workVars, past, DecisionInv, Decided
<1>10. QED
  BY <1>1, <1>2, <1>3, <1>4, <1>5, <1>6, <1>7, <1>8, <1>9 DEF WorkNext, Changes, AsksChange

\* DecisionStands: what was rejected is not applied, unless two decisions on it
\* were under way at once.
THEOREM WorkDecisions == WorkSpec => []DecisionStands
<1>1. WorkTypeOK /\ DecisionInv => DecisionStands
  BY DEF DecisionInv, Decided, DecisionStands
<1>2. QED
  BY <1>1, WorkTypes, InitDecision, DecisionStep, PTL DEF WorkSpec
-----------------------------------------------------------------------------
(* The rate limiter *)

LEMMA LimitInitType == LimitInit => LimitTypeOK
BY DEF LimitInit, LimitTypeOK, Outside

LEMMA SmallerOK ==
  ASSUME NEW a \in Int, NEW b \in Int
  PROVE  Smaller(a, b) \in Int /\ Smaller(a, b) <= a /\ Smaller(a, b) <= b
BY DEF Smaller

\* Whole intervals are no longer than the time that has gone by.
LEMMA RefillOK ==
  ASSUME LimitTypeOK, NEW v \in Visitor
  PROVE  Refill(v) \in Int /\ Refill(v) * Interval <= now - last[v]
<1> DEFINE gone == now - last[v]
<1>1. gone \in Int /\ Interval \in Nat /\ Interval > 0
  BY LimiterAssumption DEF LimitTypeOK
<1> HIDE DEF gone
<1>2. gone \div Interval \in Int /\ (gone \div Interval) * Interval <= gone
  BY <1>1
<1>3. QED
  BY <1>2 DEF Refill, gone

LEMMA LimitStepType == LimitTypeOK /\ [LimitNext]_limitVars => LimitTypeOK'
<1> SUFFICES ASSUME LimitTypeOK, [LimitNext]_limitVars PROVE LimitTypeOK'
  OBVIOUS
<1>1. ASSUME NEW h \in Handler, NEW k \in Client, NEW l \in Limit, NewVisitor(h, k, l)
      PROVE  LimitTypeOK'
  <2>1. l \in Nat
    BY LimiterAssumption
  <2>2. PICK v \in Free : /\ visitors' = [visitors EXCEPT ![k] = v]
                          /\ tokens' = [tokens EXCEPT ![v] = l] /\ limit' = [limit EXCEPT ![v] = l]
                          /\ last' = [last EXCEPT ![v] = now] /\ born' = [born EXCEPT ![v] = now]
                          /\ granted' = [granted EXCEPT ![v] = << >>]
                          /\ Enter(h, v)
    BY <1>1 DEF NewVisitor
  <2>3. v \in Visitor
    BY DEF Free
  <2>4. QED
    BY <1>1, <2>1, <2>2, <2>3 DEF NewVisitor, LimitTypeOK, Enter
<1>2. ASSUME NEW h \in Handler, NEW k \in Client, NEW l \in Limit, GetVisitor(h, k, l)
      PROVE  LimitTypeOK'
  <2>1. PICK v \in Visitor : v = visitors[k]
    BY <1>2 DEF GetVisitor, LimitTypeOK
  <2>2. l \in Int /\ tokens[v] \in Int /\ Refill(v) \in Int
    BY LimiterAssumption, RefillOK DEF LimitTypeOK
  <2>3. Smaller(tokens[v] + Refill(v), l) \in Int
    BY <2>2 DEF Smaller
  <2>4. \/ tokens' = [tokens EXCEPT ![v] = Smaller(tokens[v] + Refill(v), l)] /\ last' = [last EXCEPT ![v] = now]
        \/ UNCHANGED <<tokens, last>>
    BY <1>2, <2>1 DEF GetVisitor
  <2>5. tokens' \in [Visitor -> Int] /\ last' \in [Visitor -> Nat]
    BY <2>3, <2>4 DEF LimitTypeOK
  <2>6. limit' = [limit EXCEPT ![v] = l] /\ UNCHANGED <<visitors, now, born, granted>> /\ Enter(h, v)
    BY <1>2, <2>1 DEF GetVisitor
  <2>7. QED
    BY <2>5, <2>6 DEF LimitTypeOK, Enter
<1>3. ASSUME NEW h \in Handler, Refuse(h) \/ Let(h) PROVE LimitTypeOK'
  <2>1. passing' \in [Handler -> [visitor : Visitor \cup {NoVisitor}, at : Nat]]
    <3>1. passing' = [passing EXCEPT ![h] = Outside]
      BY <1>3 DEF Refuse, Let, Leave
    <3>2. Outside \in [visitor : Visitor \cup {NoVisitor}, at : Nat]
      BY DEF Outside
    <3>3. QED
      BY <3>1, <3>2 DEF LimitTypeOK
  <2>2. CASE Refuse(h)
    BY <2>1, <2>2 DEF Refuse, LimitTypeOK
  <2>3. CASE Let(h)
    <3>1. PICK v \in Visitor : v = passing[h].visitor
      BY <2>3 DEF Let, LimitTypeOK
    <3>2. /\ tokens' = [tokens EXCEPT ![v] = tokens[v] - 1]
          /\ granted' = [granted EXCEPT ![v] = Append(granted[v], now)]
          /\ UNCHANGED <<visitors, limit, last, now, born>>
      BY <2>3, <3>1 DEF Let
    <3>3. tokens[v] - 1 \in Int /\ Append(granted[v], now) \in Seq(Nat)
      BY DEF LimitTypeOK
    <3>4. tokens' \in [Visitor -> Int] /\ granted' \in [Visitor -> Seq(Nat)]
      BY <3>2, <3>3 DEF LimitTypeOK
    <3>5. QED
      BY <2>1, <3>2, <3>4 DEF LimitTypeOK
  <2>4. QED
    BY <1>3, <2>2, <2>3
<1>4. ASSUME NEW k \in Client, Forget(k) PROVE LimitTypeOK'
  BY <1>4 DEF Forget, LimitTypeOK
<1>5. CASE Tick
  BY <1>5 DEF Tick, LimitTypeOK
<1>6. CASE UNCHANGED limitVars
  BY <1>6 DEF limitVars, LimitTypeOK
<1>7. QED
  BY <1>1, <1>2, <1>3, <1>4, <1>5, <1>6 DEF LimitNext, Passes

LEMMA InitBudget == LimitInit => BudgetKept
BY LimiterAssumption DEF LimitInit, BudgetKept

\* A refill is paid for by the time it takes.
LEMMA Paid ==
  ASSUME NEW n \in Int, NEW t \in Int, NEW u \in Int, NEW r \in Int, NEW i \in Nat,
         NEW m \in Int, NEW a \in Int, NEW b \in Int, NEW c \in Int,
         u <= t + r, (n + t - m) * i <= a - b, r * i <= c - a
  PROVE  (n + u - m) * i <= c - b
<1>1. (n + u - m) * i <= (n + t - m + r) * i
  <2> DEFINE x == n + u - m  y == n + t - m + r
  <2>1. x \in Int /\ y \in Int /\ x <= y
    OBVIOUS
  <2> HIDE DEF x, y
  <2>2. x * i <= y * i
    BY <2>1
  <2>3. QED
    BY <2>2 DEF x, y
<1>2. (n + t - m + r) * i = (n + t - m) * i + r * i
  OBVIOUS
<1>3. QED
  <2> DEFINE x == (n + u - m) * i  y == (n + t - m) * i  z == r * i
             q == (n + t - m + r) * i
  <2>1. x \in Int /\ y \in Int /\ z \in Int /\ q \in Int
    OBVIOUS
  <2>2. x <= q /\ q = y + z /\ y <= a - b /\ z <= c - a
    BY <1>1, <1>2
  <2> HIDE DEF x, y, z, q
  <2>3. x <= c - b
    BY <2>1, <2>2
  <2>4. QED
    BY <2>3 DEF x

LEMMA NotPositive ==
  ASSUME NEW d \in Nat, NEW i \in Nat
  PROVE  (- d) * i <= 0
<1>1. d * i >= 0
  OBVIOUS
<1>2. (- d) * i = - (d * i)
  OBVIOUS
<1>3. QED
  BY <1>1, <1>2

LEMMA BudgetStep == LimitTypeOK /\ BudgetKept /\ [LimitNext]_limitVars => BudgetKept'
<1> SUFFICES ASSUME LimitTypeOK, BudgetKept, [LimitNext]_limitVars,
                    NEW v \in Visitor
             PROVE  /\ tokens'[v] >= 0
                    /\ (Len(granted'[v]) + tokens'[v] - Most) * Interval <= last'[v] - born'[v]
  BY DEF BudgetKept
<1>0. /\ tokens[v] \in Int /\ last[v] \in Nat /\ born[v] \in Nat /\ granted[v] \in Seq(Nat)
      /\ now \in Nat /\ Interval \in Nat /\ Interval > 0 /\ Most \in Nat /\ Len(granted[v]) \in Nat
      /\ tokens[v] >= 0
      /\ (Len(granted[v]) + tokens[v] - Most) * Interval <= last[v] - born[v]
  BY LimiterAssumption DEF LimitTypeOK, BudgetKept
<1>a. CASE UNCHANGED <<tokens, last, born, granted>>
  BY <1>0, <1>a
<1>1. ASSUME NEW h \in Handler, NEW k \in Client, NEW l \in Limit, NewVisitor(h, k, l)
      PROVE  /\ tokens'[v] >= 0
             /\ (Len(granted'[v]) + tokens'[v] - Most) * Interval <= last'[v] - born'[v]
  <2>1. l \in Nat /\ l <= Most
    BY LimiterAssumption
  <2>2. PICK u \in Free : /\ tokens' = [tokens EXCEPT ![u] = l]
                          /\ last' = [last EXCEPT ![u] = now] /\ born' = [born EXCEPT ![u] = now]
                          /\ granted' = [granted EXCEPT ![u] = << >>]
    BY <1>1 DEF NewVisitor
  <2>3. CASE u # v
    <3>1. tokens'[v] = tokens[v] /\ last'[v] = last[v] /\ born'[v] = born[v] /\ granted'[v] = granted[v]
      BY <2>2, <2>3 DEF LimitTypeOK
    <3>2. QED
      BY <1>0, <3>1
  <2>4. CASE u = v
    <3>1. tokens'[v] = l /\ last'[v] = now /\ born'[v] = now /\ Len(granted'[v]) = 0
      BY <2>2, <2>4 DEF LimitTypeOK
    <3>2. (l - Most) * Interval <= 0
      <4> DEFINE d == Most - l
      <4>1. d \in Nat
        BY <1>0, <2>1
      <4> HIDE DEF d
      <4>2. l - Most = - d
        BY <1>0, <2>1 DEF d
      <4>3. (- d) * Interval <= 0
        BY <1>0, <4>1, NotPositive
      <4>4. QED
        BY <4>2, <4>3
    <3>3. QED
      BY <1>0, <2>1, <3>1, <3>2
  <2>5. QED
    BY <2>3, <2>4
<1>2. ASSUME NEW h \in Handler, NEW k \in Client, NEW l \in Limit, GetVisitor(h, k, l)
      PROVE  /\ tokens'[v] >= 0
             /\ (Len(granted'[v]) + tokens'[v] - Most) * Interval <= last'[v] - born'[v]
  <2>1. UNCHANGED <<born, granted>> /\ l \in Nat /\ l > 0
    BY <1>2, LimiterAssumption DEF GetVisitor
  <2>2. CASE visitors[k] # v \/ ~ (Refill(v) > 0)
    <3>1. tokens'[v] = tokens[v] /\ last'[v] = last[v]
      BY <1>2, <2>2 DEF GetVisitor, LimitTypeOK
    <3>2. QED
      BY <1>0, <2>1, <3>1
  <2>3. CASE visitors[k] = v /\ Refill(v) > 0
    <3> DEFINE u == Smaller(tokens[v] + Refill(v), l)
    <3>1. tokens'[v] = u /\ last'[v] = now
      BY <1>2, <2>3 DEF GetVisitor, LimitTypeOK
    <3>2. Refill(v) \in Int /\ Refill(v) * Interval <= now - last[v]
      BY RefillOK
    <3>3. u \in Int /\ u <= tokens[v] + Refill(v) /\ u >= 0
      <4>1. tokens[v] \in Int /\ tokens[v] >= 0 /\ Refill(v) \in Int /\ Refill(v) > 0
        BY <1>0, <2>3, <3>2
      <4>2. tokens[v] + Refill(v) \in Int /\ tokens[v] + Refill(v) >= 0
        BY <4>1
      <4>3. QED
        BY <2>1, <4>2 DEF Smaller
    <3> HIDE DEF u
    <3>4. (Len(granted[v]) + u - Most) * Interval <= now - born[v]
      <4> DEFINE n == Len(granted[v])  t == tokens[v]  r == Refill(v)  a == last[v]  b == born[v]
      <4>1. /\ n \in Int /\ t \in Int /\ r \in Int /\ a \in Int /\ b \in Int /\ now \in Int
            /\ Most \in Int /\ u <= t + r
            /\ (n + t - Most) * Interval <= a - b /\ r * Interval <= now - a
        BY <1>0, <3>2, <3>3
      <4>2. (n + u - Most) * Interval <= now - b
        <5> HIDE DEF n, t, r, a, b
        <5>1. QED
          BY <1>0, <3>3, <4>1, Paid
      <4>3. QED
        BY <4>2
    <3>5. QED
      BY <2>1, <3>1, <3>3, <3>4
  <2>4. QED
    BY <2>2, <2>3
<1>3. ASSUME NEW h \in Handler, Let(h)
      PROVE  /\ tokens'[v] >= 0
             /\ (Len(granted'[v]) + tokens'[v] - Most) * Interval <= last'[v] - born'[v]
  <2>1. CASE passing[h].visitor # v
    <3>1. tokens'[v] = tokens[v] /\ granted'[v] = granted[v] /\ UNCHANGED <<last, born>>
      BY <1>3, <2>1 DEF Let, LimitTypeOK
    <3>2. QED
      BY <1>0, <3>1
  <2>2. CASE passing[h].visitor = v
    <3>1. tokens'[v] = tokens[v] - 1 /\ tokens[v] > 0 /\ UNCHANGED <<last, born>>
      BY <1>3, <2>2 DEF Let, LimitTypeOK
    <3>2. granted'[v] = Append(granted[v], now)
      BY <1>3, <2>2 DEF Let, LimitTypeOK
    <3>3. Len(granted'[v]) = Len(granted[v]) + 1
      BY <1>0, <3>2
    <3>4. Len(granted'[v]) + tokens'[v] - Most = Len(granted[v]) + tokens[v] - Most
      <4> DEFINE n == Len(granted[v])  t == tokens[v]
      <4>1. n \in Int /\ t \in Int /\ Most \in Int
        BY <1>0
      <4>2. n + 1 + (t - 1) - Most = n + t - Most
        <5> HIDE DEF n, t
        <5>1. QED
          BY <4>1
      <4>3. QED
        BY <3>1, <3>3, <4>2
    <3>5. QED
      BY <1>0, <3>1, <3>4
  <2>3. QED
    BY <2>1, <2>2
<1>4. ASSUME NEW h \in Handler, Refuse(h) PROVE UNCHANGED <<tokens, last, born, granted>>
  BY <1>4 DEF Refuse
<1>5. ASSUME NEW k \in Client, Forget(k) PROVE UNCHANGED <<tokens, last, born, granted>>
  BY <1>5 DEF Forget
<1>6. CASE Tick \/ UNCHANGED limitVars
  BY <1>6, <1>a DEF Tick, limitVars
<1>7. QED
  BY <1>a, <1>1, <1>2, <1>3, <1>4, <1>5, <1>6 DEF LimitNext, Passes

\* BudgetKept: for any number of requests and clients, whatever the limits and the
\* interval, a visitor lets through no more than a full bucket and one request for
\* each whole interval.
THEOREM LimiterBudget == LimitSpec => [](LimitTypeOK /\ BudgetKept)
BY LimitInitType, LimitStepType, InitBudget, BudgetStep, PTL DEF LimitSpec
-----------------------------------------------------------------------------
(* Sessions with a public bot *)

LEMMA PublicInitType == PublicInit => PublicTypeOK
<1>1. NoRow \in LinkRow /\ NoOpening \in Opening /\ OpeningOK(NoOpening)
  BY DEF NoRow, LinkRow, NoOpening, Opening, OpeningOK
<1>2. ASSUME PublicInit PROVE bot \in [active : BOOLEAN, public : BOOLEAN]
  BY <1>2 DEF PublicInit
<1>3. ASSUME PublicInit
      PROVE  /\ link \in [Link -> LinkRow] /\ guest \in [Guest -> Built]
             /\ opening \in [Server -> Opening] /\ \A s \in Server : OpeningOK(opening[s])
  BY <1>1, <1>3 DEF PublicInit, Built
<1>4. QED
  BY <1>2, <1>3 DEF PublicInit, PublicTypeOK

\* Serving a request leaves a well-formed request behind.
LEMMA OpenOK ==
  ASSUME PublicTypeOK, NEW s \in Server, NEW r \in Opening, OpeningOK(r), Open(s, r)
  PROVE  opening' \in [Server -> Opening] /\ \A q \in Server : OpeningOK(opening'[q])
BY DEF Open, PublicTypeOK

LEMMA CloseOK ==
  ASSUME PublicTypeOK, NEW s \in Server, Close(s)
  PROVE  opening' \in [Server -> Opening] /\ \A q \in Server : OpeningOK(opening'[q])
<1>1. NoOpening \in Opening /\ OpeningOK(NoOpening)
  BY DEF NoOpening, Opening, OpeningOK
<1>2. QED
  BY <1>1, OpenOK DEF Close

LEMMA PublicStepType == PublicTypeOK /\ [PublicNext]_publicVars => PublicTypeOK'
<1> SUFFICES ASSUME PublicTypeOK, [PublicNext]_publicVars PROVE PublicTypeOK'
  OBVIOUS
<1>a. ASSUME UNCHANGED opening PROVE \A q \in Server : OpeningOK(opening'[q])
  BY <1>a DEF PublicTypeOK
<1>1. ASSUME NEW l \in Link, NEW max \in MaxUses, CreateLink(l, max) PROVE PublicTypeOK'
  <2>1. max \in Nat
    BY PublicAssumption
  <2>2. [NoRow EXCEPT !.stored = TRUE, !.max = max] \in LinkRow
    BY <2>1 DEF NoRow, LinkRow
  <2>3. QED
    BY <1>1, <1>a, <2>2 DEF CreateLink, PublicTypeOK
<1>2. ASSUME NEW l \in Link, DeleteLink(l) PROVE PublicTypeOK'
  <2>1. NoRow \in LinkRow
    BY DEF NoRow, LinkRow
  <2>2. QED
    BY <1>2, <1>a, <2>1 DEF DeleteLink, PublicTypeOK
<1>3. ASSUME NEW l \in Link, ExpireLink(l) PROVE PublicTypeOK'
  BY <1>3, <1>a DEF ExpireLink, PublicTypeOK, LinkRow
<1>4. CASE ChangeBot
  BY <1>4, <1>a DEF ChangeBot, PublicTypeOK
<1>5. ASSUME NEW s \in Server, NEW l \in Link \cup {NoLink}, ReadBot(s, l) PROVE PublicTypeOK'
  <2> DEFINE r == [NoOpening EXCEPT !.pc = "check", !.public = bot.public, !.link = l]
  <2>1. r \in Opening /\ OpeningOK(r)
    BY DEF NoOpening, Opening, OpeningOK, PublicTypeOK
  <2>2. Open(s, r) /\ UNCHANGED <<bot, link, guest, skips, opened, uncounted>>
    BY <1>5 DEF ReadBot
  <2> HIDE DEF r
  <2>3. QED
    BY <2>1, <2>2, OpenOK DEF PublicTypeOK
<1>6. ASSUME NEW s \in Server, CheckLink(s) PROVE PublicTypeOK'
  <2>1. UNCHANGED <<bot, link, guest, skips, opened, uncounted>>
    BY <1>6 DEF CheckLink
  <2>2. Close(s) \/ \E g \in Guest, k \in Link \cup {NoLink} :
                       Open(s, [opening[s] EXCEPT !.pc = "build", !.guest = g, !.link = k])
    BY <1>6 DEF CheckLink
  <2>3. CASE Close(s)
    BY <2>1, <2>3, CloseOK DEF PublicTypeOK
  <2>4. ASSUME NEW g \in Guest, NEW k \in Link \cup {NoLink},
               Open(s, [opening[s] EXCEPT !.pc = "build", !.guest = g, !.link = k])
        PROVE  PublicTypeOK'
    <3> DEFINE r == [opening[s] EXCEPT !.pc = "build", !.guest = g, !.link = k]
    <3>1. r \in Opening /\ OpeningOK(r)
      BY DEF Opening, OpeningOK, PublicTypeOK
    <3>2. Open(s, r)
      BY <2>4
    <3> HIDE DEF r
    <3>3. QED
      BY <2>1, <3>1, <3>2, OpenOK DEF PublicTypeOK
  <2>5. QED
    BY <2>2, <2>3, <2>4
<1>7. ASSUME NEW s \in Server, Build(s) PROVE PublicTypeOK'
  <2>1. opening[s] \in Opening /\ opening[s].guest \in Guest
    BY <1>7 DEF Build, PublicTypeOK, OpeningOK
  <2>2. guest' \in [Guest -> Built]
    <3>1. Following(guest[opening[s].guest]) \in Built
      BY DEF Following, Built
    <3>2. QED
      BY <1>7, <2>1, <3>1 DEF Build, PublicTypeOK
  <2>3. UNCHANGED <<bot, link, uncounted>> /\ skips' \in Nat
    BY <1>7 DEF Build, Skip, PublicTypeOK
  <2>4. opened' \in [Link -> Nat]
    <3>1. opening[s].link = NoLink \/ opening[s].link \in Link
      BY <2>1 DEF Opening
    <3>2. QED
      BY <1>7, <3>1 DEF Build, PublicTypeOK
  <2>5. \/ UNCHANGED opening \/ Close(s)
        \/ opening[s].link # NoLink /\ Open(s, [opening[s] EXCEPT !.pc = "count"])
    BY <1>7 DEF Build
  <2>6. opening' \in [Server -> Opening] /\ \A q \in Server : OpeningOK(opening'[q])
    <3>1. CASE UNCHANGED opening
      BY <1>a, <3>1 DEF PublicTypeOK
    <3>2. CASE Close(s)
      BY <3>2, CloseOK
    <3>3. CASE opening[s].link # NoLink /\ Open(s, [opening[s] EXCEPT !.pc = "count"])
      <4> DEFINE r == [opening[s] EXCEPT !.pc = "count"]
      <4>1. r \in Opening /\ OpeningOK(r)
        BY <2>1, <3>3 DEF Opening, OpeningOK
      <4> HIDE DEF r
      <4>2. QED
        BY <3>3, <4>1, OpenOK DEF r
    <3>4. QED
      BY <2>5, <3>1, <3>2, <3>3
  <2>7. QED
    BY <2>2, <2>3, <2>4, <2>6 DEF PublicTypeOK
<1>8. ASSUME NEW s \in Server, CountUse(s) PROVE PublicTypeOK'
  <2>1. opening[s].link \in Link /\ Close(s) /\ UNCHANGED <<bot, guest, opened>>
    BY <1>8 DEF CountUse, PublicTypeOK, OpeningOK
  <2>2. link' \in [Link -> LinkRow] /\ skips' \in Nat /\ uncounted' \in [Link -> Nat]
    <3>1. PICK l \in Link : l = opening[s].link
      BY <2>1
    <3>2. link[l] \in LinkRow /\ uncounted[l] + 1 \in Nat
      BY DEF PublicTypeOK
    <3>3. [link[l] EXCEPT !.used = link[l].used + 1] \in LinkRow
      BY <3>2 DEF LinkRow
    <3>4. /\ UNCHANGED link \/ link' = [link EXCEPT ![l] = [link[l] EXCEPT !.used = link[l].used + 1]]
          /\ UNCHANGED uncounted \/ uncounted' = [uncounted EXCEPT ![l] = uncounted[l] + 1]
          /\ UNCHANGED skips \/ skips' = skips + 1
      BY <1>8, <3>1 DEF CountUse, Skip
    <3>5. QED
      BY <3>2, <3>3, <3>4 DEF PublicTypeOK
  <2>3. QED
    BY <2>1, <2>2, CloseOK DEF PublicTypeOK
<1>9. CASE UNCHANGED publicVars
  BY <1>9, <1>a DEF publicVars, PublicTypeOK
<1>10. QED
  BY <1>1, <1>2, <1>3, <1>4, <1>5, <1>6, <1>7, <1>8, <1>9 DEF PublicNext, Opens, Owns

LEMMA PublicTypes == PublicSpec => []PublicTypeOK
BY PublicInitType, PublicStepType, PTL DEF PublicSpec

\* the requests that found link l usable, and those of them about to count it
Pending(l)  == {s \in Server : opening[s].pc \in {"build", "count"} /\ opening[s].link = l}
Counting(l) == {s \in Server : opening[s].pc = "count" /\ opening[s].link = l}

LinkInv(l) ==
  link[l].stored /\ link[l].max > 0 =>
    /\ opened[l] <= link[l].used + Cardinality(Counting(l)) + uncounted[l]
    /\ link[l].used + Cardinality(Pending(l)) < link[l].max + Cardinality(Server)
SessionInv == \A l \in Link : LinkInv(l)

LEMMA Sizes ==
  ASSUME NEW T, T \subseteq Server, NEW s \in Server
  PROVE  /\ Cardinality(T) \in Nat /\ Cardinality(Server) \in Nat
         /\ Cardinality(T) <= Cardinality(Server)
         /\ s \notin T => /\ Cardinality(T \cup {s}) = Cardinality(T) + 1
                          /\ Cardinality(T) + 1 <= Cardinality(Server)
         /\ s \in T => Cardinality(T \ {s}) = Cardinality(T) - 1
<1>1. IsFiniteSet(Server)
  BY PublicAssumption
<1>2. IsFiniteSet(T)
  BY <1>1, FS_Subset
<1>3. Cardinality(T) \in Nat /\ Cardinality(Server) \in Nat /\ Cardinality(T) <= Cardinality(Server)
  BY <1>1, <1>2, FS_CardinalityType, FS_Subset
<1>4. ASSUME s \notin T
      PROVE  Cardinality(T \cup {s}) = Cardinality(T) + 1 /\ Cardinality(T) + 1 <= Cardinality(Server)
  <2>1. Cardinality(T \cup {s}) = Cardinality(T) + 1
    BY <1>2, <1>4, FS_AddElement
  <2>2. Cardinality(T \cup {s}) <= Cardinality(Server)
    BY <1>1, FS_Subset
  <2>3. QED
    BY <2>1, <2>2
<1>5. ASSUME s \in T PROVE Cardinality(T \ {s}) = Cardinality(T) - 1
  BY <1>2, <1>5, FS_RemoveElement
<1>6. QED
  BY <1>3, <1>4, <1>5

LEMMA LinkNumbers ==
  ASSUME PublicTypeOK, NEW l \in Link
  PROVE  /\ link[l].used \in Nat /\ link[l].max \in Nat
         /\ opened[l] \in Nat /\ uncounted[l] \in Nat
         /\ Pending(l) \subseteq Server /\ Counting(l) \subseteq Pending(l)
BY DEF PublicTypeOK, LinkRow, Pending, Counting

\* A step that changes one server's request changes the two sets by that server
\* at most.
LEMMA OneServer ==
  ASSUME PublicTypeOK, NEW s \in Server, NEW r, Open(s, r), NEW l \in Link
  PROVE  /\ Pending(l)' = IF r.pc \in {"build", "count"} /\ r.link = l
                          THEN Pending(l) \cup {s} ELSE Pending(l) \ {s}
         /\ Counting(l)' = IF r.pc = "count" /\ r.link = l
                           THEN Counting(l) \cup {s} ELSE Counting(l) \ {s}
<1>1. opening'[s] = r /\ \A q \in Server \ {s} : opening'[q] = opening[q]
  BY DEF Open, PublicTypeOK
<1>2. QED
  BY <1>1 DEF Pending, Counting

LEMMA InitSessions == PublicInit => SessionInv
BY DEF PublicInit, SessionInv, LinkInv, NoRow

LEMMA SessionStep == PublicTypeOK /\ SessionInv /\ [PublicNext]_publicVars => SessionInv'
<1> SUFFICES ASSUME PublicTypeOK, SessionInv, [PublicNext]_publicVars, NEW l \in Link
             PROVE  LinkInv(l)'
  BY DEF SessionInv
<1> DEFINE server == Cardinality(Server)
<1>0. LinkInv(l)
  BY DEF SessionInv
<1>a. /\ link[l].used \in Nat /\ link[l].max \in Nat /\ opened[l] \in Nat /\ uncounted[l] \in Nat
      /\ Pending(l) \subseteq Server /\ Counting(l) \subseteq Server /\ Counting(l) \subseteq Pending(l)
  BY LinkNumbers
<1>b. /\ Cardinality(Pending(l)) \in Nat /\ Cardinality(Counting(l)) \in Nat /\ server \in Nat
      /\ Cardinality(Pending(l)) <= server
  <2>1. CASE Server = {}
    <3>1. Pending(l) = {} /\ Counting(l) = {}
      BY <1>a, <2>1
    <3>2. QED
      BY <2>1, <3>1, FS_EmptySet
  <2>2. CASE Server # {}
    BY <1>a, <2>2, Sizes
  <2>3. QED
    BY <2>1, <2>2
<1> HIDE DEF server
<1>c. ASSUME UNCHANGED opening, UNCHANGED opened, UNCHANGED uncounted,
             link'[l].stored => link[l].stored /\ link'[l].used = link[l].used
                                  /\ link'[l].max = link[l].max
      PROVE  LinkInv(l)'
  <2>1. Pending(l)' = Pending(l) /\ Counting(l)' = Counting(l)
    BY <1>c DEF Pending, Counting
  <2>2. QED
    BY <1>0, <1>c, <2>1 DEF LinkInv
<1>1. ASSUME NEW k \in Link, NEW max \in MaxUses, CreateLink(k, max) PROVE LinkInv(l)'
  <2>1. CASE k # l
    <3>1. link'[l] = link[l]
      BY <1>1, <2>1 DEF CreateLink, PublicTypeOK
    <3>2. QED
      BY <1>1, <1>c, <3>1 DEF CreateLink
  <2>2. CASE k = l
    <3>1. UNCHANGED <<opening, opened, uncounted>> /\ opened[l] = 0
          /\ link'[l].used = 0 /\ link'[l].max \in Nat
      BY <1>1, <2>2, PublicAssumption DEF CreateLink, PublicTypeOK, NoRow
    <3>2. Pending(l)' = {} /\ Counting(l)' = {}
      BY <1>1, <2>2, <3>1 DEF CreateLink, Pending, Counting
    <3>3. Cardinality(Pending(l)') = 0 /\ Cardinality(Counting(l)') = 0
      BY <3>2, FS_EmptySet
    <3>4. QED
      BY <1>a, <1>b, <3>1, <3>3 DEF LinkInv, server
  <2>3. QED
    BY <2>1, <2>2
<1>2. ASSUME NEW k \in Link, DeleteLink(k) PROVE LinkInv(l)'
  <2>1. link'[l] = link[l] \/ ~ link'[l].stored
    BY <1>2 DEF DeleteLink, PublicTypeOK, NoRow
  <2>2. QED
    BY <1>2, <1>c, <2>1 DEF DeleteLink, LinkInv
<1>3. ASSUME NEW k \in Link, ExpireLink(k) PROVE LinkInv(l)'
  BY <1>3, <1>c DEF ExpireLink, PublicTypeOK, LinkRow
<1>4. CASE ChangeBot
  BY <1>4, <1>c DEF ChangeBot
<1>5. ASSUME NEW s \in Server, NEW k \in Link \cup {NoLink}, ReadBot(s, k) PROVE LinkInv(l)'
  <2> DEFINE r == [NoOpening EXCEPT !.pc = "check", !.public = bot.public, !.link = k]
  <2>1. Open(s, r) /\ UNCHANGED <<link, opened, uncounted>> /\ opening[s].pc = "ready" /\ r.pc = "check"
    BY <1>5 DEF ReadBot, NoOpening
  <2> HIDE DEF r
  <2>2. s \notin Pending(l) /\ s \notin Counting(l)
    BY <2>1 DEF Pending, Counting
  <2>3. Pending(l)' = Pending(l) /\ Counting(l)' = Counting(l)
    BY <2>1, <2>2, OneServer
  <2>4. QED
    BY <1>0, <2>1, <2>3 DEF LinkInv
<1>6. ASSUME NEW s \in Server, CheckLink(s) PROVE LinkInv(l)'
  <2>1. opening[s].pc = "check" /\ UNCHANGED <<link, opened, uncounted>>
    BY <1>6 DEF CheckLink
  <2>2. s \notin Pending(l) /\ s \notin Counting(l)
    BY <2>1 DEF Pending, Counting
  <2>3. PICK r : /\ Open(s, r) /\ r.pc # "count"
                 /\ r.pc = "build" /\ r.link = l /\ link[l].stored => Usable(l)
    <3>1. CASE Close(s)
      BY <3>1 DEF Close, NoOpening
    <3>2. ASSUME NEW g \in Guest, NEW k \in Link \cup {NoLink},
                 Open(s, [opening[s] EXCEPT !.pc = "build", !.guest = g, !.link = k]),
                 k = l => opening[s].link = l /\ link[l].stored /\ Usable(l)
          PROVE  \E r : /\ Open(s, r) /\ r.pc # "count"
                        /\ r.pc = "build" /\ r.link = l /\ link[l].stored => Usable(l)
      <4> DEFINE r == [opening[s] EXCEPT !.pc = "build", !.guest = g, !.link = k]
      <4>1. opening[s] \in Opening
        BY DEF PublicTypeOK
      <4>2. r.pc = "build" /\ r.link = k /\ Open(s, r)
        BY <3>2, <4>1 DEF Opening
      <4> HIDE DEF r
      <4>3. QED
        BY <3>2, <4>2
    <3>3. Close(s) \/ \E g \in Guest, k \in Link \cup {NoLink} :
            /\ Open(s, [opening[s] EXCEPT !.pc = "build", !.guest = g, !.link = k])
            /\ k = l => opening[s].link = l /\ link[l].stored /\ Usable(l)
      <4> DEFINE found == opening[s].link \in Link /\ link[opening[s].link].stored
                 chosen == IF found THEN opening[s].link ELSE NoLink
      <4>1. chosen \in Link \cup {NoLink}
        OBVIOUS
      <4>2. (found => Usable(opening[s].link))
            => (chosen = l => opening[s].link = l /\ link[l].stored /\ Usable(l))
        BY PublicAssumption
      <4>3. CASE found /\ ~ Usable(opening[s].link)
        BY <1>6, <4>3 DEF CheckLink
      <4>4. CASE found => Usable(opening[s].link)
        <5>1. Close(s) \/ \E g \in Guest :
                           Open(s, [opening[s] EXCEPT !.pc = "build", !.guest = g, !.link = chosen])
          BY <1>6 DEF CheckLink
        <5> HIDE DEF found, chosen
        <5>2. QED
          BY <4>1, <4>2, <4>4, <5>1
      <4>5. QED
        BY <4>3, <4>4
    <3>4. QED
      BY <3>1, <3>2, <3>3
  <2>4. Counting(l)' = Counting(l)
    BY <2>2, <2>3, OneServer
  <2>5. CASE r.pc = "build" /\ r.link = l
    <3>1. Pending(l)' = Pending(l) \cup {s}
      BY <2>3, <2>5, OneServer
    <3>2. Cardinality(Pending(l)') = Cardinality(Pending(l)) + 1 /\ Cardinality(Pending(l)) + 1 <= server
      BY <1>a, <2>2, <3>1, Sizes DEF server
    <3>3. link[l].stored /\ link[l].max > 0 => link[l].used < link[l].max
      BY <2>3, <2>5 DEF Usable
    <3>4. QED
      BY <1>0, <1>a, <1>b, <2>1, <2>4, <3>2, <3>3 DEF LinkInv, server
  <2>6. CASE ~ (r.pc = "build" /\ r.link = l)
    <3>1. Pending(l)' = Pending(l)
      BY <2>2, <2>3, <2>6, OneServer
    <3>2. QED
      BY <1>0, <2>1, <2>4, <3>1 DEF LinkInv
  <2>7. QED
    BY <2>5, <2>6
<1>7. ASSUME NEW s \in Server, Build(s) PROVE LinkInv(l)'
  <2>1. opening[s].pc = "build" /\ UNCHANGED <<link, uncounted>> /\ opening[s] \in Opening
    BY <1>7 DEF Build, PublicTypeOK
  <2>2. s \notin Counting(l)
    BY <2>1 DEF Counting
  <2>3. CASE UNCHANGED <<opening, opened>>
    BY <1>c, <2>1, <2>3
  <2>4. CASE Close(s) /\ UNCHANGED opened
    <3>1. Open(s, NoOpening) /\ NoOpening.pc = "ready"
      BY <2>4 DEF Close, NoOpening
    <3>2. Pending(l)' = Pending(l) \ {s} /\ Counting(l)' = Counting(l) \ {s}
      BY <3>1, OneServer
    <3>3. Counting(l)' = Counting(l) /\ Cardinality(Pending(l)') \in Nat
          /\ Cardinality(Pending(l)') <= Cardinality(Pending(l))
      <4>1. Counting(l)' = Counting(l)
        BY <2>2, <3>2
      <4>2. CASE s \notin Pending(l)
        <5>1. Pending(l)' = Pending(l)
          BY <3>2, <4>2
        <5>2. QED
          BY <1>b, <4>1, <5>1
      <4>3. CASE s \in Pending(l)
        <5>1. Cardinality(Pending(l)') = Cardinality(Pending(l)) - 1
          BY <1>a, <3>2, <4>3, Sizes
        <5>2. Cardinality(Pending(l)') \in Nat
          <6>1. IsFiniteSet(Pending(l)')
            BY <1>a, <3>2, PublicAssumption, FS_Subset
          <6>2. QED
            BY <6>1, FS_CardinalityType
        <5>3. QED
          BY <1>b, <4>1, <5>1, <5>2
      <4>4. QED
        BY <4>2, <4>3
    <3>4. QED
      BY <1>0, <1>a, <1>b, <2>1, <2>4, <3>3 DEF LinkInv, server
  <2>5. CASE /\ opening[s].link \in Link
             /\ Open(s, [opening[s] EXCEPT !.pc = "count"])
             /\ opened' = [opened EXCEPT ![opening[s].link] = opened[opening[s].link] + 1]
    <3> DEFINE r == [opening[s] EXCEPT !.pc = "count"]
    <3>1. Open(s, r) /\ r.pc = "count" /\ r.link = opening[s].link
      BY <2>1, <2>5 DEF Opening
    <3> HIDE DEF r
    <3>2. CASE opening[s].link # l
      <4>1. s \notin Pending(l)
        BY <3>2 DEF Pending
      <4>2. Pending(l)' = Pending(l) /\ Counting(l)' = Counting(l)
        BY <2>2, <3>1, <3>2, <4>1, OneServer
      <4>3. opened'[l] = opened[l]
        BY <2>5, <3>2 DEF PublicTypeOK
      <4>4. QED
        BY <1>0, <2>1, <4>2, <4>3 DEF LinkInv
    <3>3. CASE opening[s].link = l
      <4>1. s \in Pending(l)
        BY <2>1, <3>3 DEF Pending
      <4>2. Pending(l)' = Pending(l) /\ Counting(l)' = Counting(l) \cup {s}
        BY <3>1, <3>3, <4>1, OneServer
      <4>3. Cardinality(Counting(l)') = Cardinality(Counting(l)) + 1
        BY <1>a, <2>2, <4>2, Sizes
      <4>4. opened'[l] = opened[l] + 1
        BY <2>5, <3>3 DEF PublicTypeOK
      <4>5. link'[l] = link[l] /\ uncounted'[l] = uncounted[l]
        BY <2>1
      <4>6. QED
        BY <1>0, <1>a, <1>b, <4>2, <4>3, <4>4, <4>5 DEF LinkInv
    <3>4. QED
      BY <3>2, <3>3
  <2>6. QED
    BY <1>7, <2>1, <2>3, <2>4, <2>5 DEF Build, Opening
<1>8. ASSUME NEW s \in Server, CountUse(s) PROVE LinkInv(l)'
  <2>1. PICK k \in Link : k = opening[s].link
    BY <1>8 DEF CountUse, PublicTypeOK, OpeningOK
  <2>2. Open(s, NoOpening) /\ NoOpening.pc = "ready" /\ opening[s].pc = "count" /\ UNCHANGED opened
    BY <1>8 DEF CountUse, Close, NoOpening
  <2>3. Pending(l)' = Pending(l) \ {s} /\ Counting(l)' = Counting(l) \ {s}
    BY <2>2, OneServer
  <2>4. CASE k # l
    <3>1. s \notin Pending(l) /\ s \notin Counting(l)
      BY <2>1, <2>4 DEF Pending, Counting
    <3>2. link'[l] = link[l] /\ uncounted'[l] = uncounted[l]
      BY <1>8, <2>1, <2>4 DEF CountUse, PublicTypeOK
    <3>3. Pending(l)' = Pending(l) /\ Counting(l)' = Counting(l)
      BY <2>3, <3>1
    <3>4. QED
      BY <1>0, <2>2, <3>2, <3>3 DEF LinkInv
  <2>5. CASE k = l
    <3>1. s \in Pending(l) /\ s \in Counting(l)
      BY <2>1, <2>2, <2>5 DEF Pending, Counting
    <3>2. /\ Cardinality(Pending(l)') = Cardinality(Pending(l)) - 1
          /\ Cardinality(Counting(l)') = Cardinality(Counting(l)) - 1
      BY <1>a, <2>3, <3>1, Sizes
    <3>3. \/ /\ link[l].stored /\ link'[l].stored /\ link'[l].max = link[l].max
             /\ link'[l].used = link[l].used + 1 /\ uncounted'[l] = uncounted[l]
          \/ ~ link[l].stored /\ link'[l] = link[l]
          \/ link'[l] = link[l] /\ uncounted'[l] = uncounted[l] + 1
      BY <1>8, <2>1, <2>5 DEF CountUse, PublicTypeOK, LinkRow
    <3>4. QED
      BY <1>0, <1>a, <1>b, <2>2, <3>2, <3>3 DEF LinkInv, server
  <2>6. QED
    BY <2>4, <2>5
<1>9. CASE UNCHANGED publicVars
  BY <1>9, <1>c DEF publicVars
<1>10. QED
  BY <1>1, <1>2, <1>3, <1>4, <1>5, <1>6, <1>7, <1>8, <1>9 DEF PublicNext, Opens, Owns

\* SessionsWithinLimit: for any number of requests at once, a limited link opens
\* fewer sessions than its limit, the requests and the uncounted ones together.
THEOREM PublicSessions == PublicSpec => []SessionsWithinLimit
<1>1. ASSUME PublicTypeOK, SessionInv PROVE SessionsWithinLimit
  <2> SUFFICES ASSUME NEW l \in Link, link[l].stored, link[l].max > 0
               PROVE  opened[l] < link[l].max + Cardinality(Server) + uncounted[l]
    BY DEF SessionsWithinLimit
  <2>1. LinkInv(l)
    BY <1>1 DEF SessionInv
  <2>2. /\ link[l].used \in Nat /\ link[l].max \in Nat /\ opened[l] \in Nat /\ uncounted[l] \in Nat
        /\ Pending(l) \subseteq Server /\ Counting(l) \subseteq Pending(l)
    BY <1>1, LinkNumbers
  <2>3. /\ Cardinality(Counting(l)) \in Nat /\ Cardinality(Pending(l)) \in Nat
        /\ Cardinality(Counting(l)) <= Cardinality(Pending(l)) /\ Cardinality(Server) \in Nat
    <3>1. IsFiniteSet(Server) /\ IsFiniteSet(Pending(l)) /\ IsFiniteSet(Counting(l))
      BY <2>2, PublicAssumption, FS_Subset
    <3>2. QED
      BY <2>2, <3>1, FS_Subset, FS_CardinalityType
  <2>4. QED
    BY <2>1, <2>2, <2>3 DEF LinkInv
<1>2. QED
  BY <1>1, PublicTypes, InitSessions, SessionStep, PTL DEF PublicSpec

-----------------------------------------------------------------------------
(* The keys of an entity *)

\* A rotation holds the lock from the moment it may issue a key until it answers.
LockHeld ==
  \A w \in Worker :
    /\ req[w].pc \in {"issue", "revoke"} => lock = w
    /\ req[w].pc = "disconnect" /\ req[w].key # 0 => lock = w

\* Only a rotation that issued a key carries one.
KeyCarried ==
  \A w \in Worker :
    /\ req[w].pc \notin {"revoke", "disconnect"} => req[w].key = 0
    /\ req[w].pc = "revoke" => req[w].key # 0

KeysInv == TypeOK /\ LockHeld /\ KeyCarried /\ IssuedKeyKept /\ AlwaysHasKey /\ RevokedForGood

LEMMA KeysInit == Init => KeysInv
<1> SUFFICES ASSUME Init PROVE KeysInv
  OBVIOUS
<1>1. Ready \in Request /\ Ready.pc = "ready" /\ Ready.key = 0
  BY DEF Ready, Request, Steps
<1>2. TypeOK
  BY <1>1 DEF Init, TypeOK, ConnState, Key
<1>3. QED
  BY <1>1, <1>2 DEF Init, KeysInv, LockHeld, KeyCarried, IssuedKeyKept, AlwaysHasKey, RevokedForGood

\* When neither the keys nor the lock change, only the moved request matters.
LEMMA MoveKeeps ==
  ASSUME KeysInv, NEW w \in Worker, NEW r \in Request, Goto(w, r),
         UNCHANGED keyVars, lock' = lock, active' \in BOOLEAN,
         conn' \in [Conn -> ConnState], faults' \in Nat,
         r.pc \notin {"issue", "revoke"}, r.key = 0
  PROVE  KeysInv'
BY DEF KeysInv, TypeOK, LockHeld, KeyCarried, IssuedKeyKept, AlwaysHasKey, RevokedForGood, Goto,
       keyVars, Request

\* Returning gives up the lock only where the caller held it.
LEMMA ReturnKeeps ==
  ASSUME KeysInv, NEW w \in Worker, Return(w),
         UNCHANGED keyVars, active' \in BOOLEAN, conn' \in [Conn -> ConnState], faults' \in Nat
  PROVE  KeysInv'
<1>1. Ready \in Request /\ Ready.pc = "ready" /\ Ready.key = 0
  BY DEF Ready, Request, Steps
<1>2. TypeOK'
  BY <1>1 DEF KeysInv, TypeOK, Return, Goto, keyVars
<1>3. LockHeld'
  BY <1>1 DEF KeysInv, LockHeld, TypeOK, Return, Goto
<1>4. KeyCarried' /\ IssuedKeyKept' /\ AlwaysHasKey' /\ RevokedForGood'
  BY <1>1 DEF KeysInv, TypeOK, KeyCarried, IssuedKeyKept, AlwaysHasKey, RevokedForGood,
              Return, Goto, keyVars
<1>5. QED
  BY <1>2, <1>3, <1>4 DEF KeysInv

\* The new credential is younger than every other one.
LEMMA NewKeyKeeps ==
  ASSUME KeysInv, issued' = issued + 1, creds' = creds \cup {issued + 1}, rotated' = rotated
  PROVE  /\ issued' \in Key /\ creds' \subseteq 1..issued' /\ rotated' \in 0..issued'
         /\ AlwaysHasKey' /\ RevokedForGood'
BY DEF KeysInv, TypeOK, Key, AlwaysHasKey, RevokedForGood

LEMMA KeysStep == KeysInv /\ [Next]_vars => KeysInv'
<1> SUFFICES ASSUME KeysInv, [Next]_vars PROVE KeysInv'
  OBVIOUS
<1> USE KeysAssumption
<1>0. /\ active \in BOOLEAN /\ conn \in [Conn -> ConnState] /\ faults \in Nat
      /\ \A w \in Worker : req[w] \in Request
  BY DEF KeysInv, TypeOK
<1>1. ASSUME NEW w \in Worker, Regenerate(w) PROVE KeysInv'
  <2> DEFINE r == [req[w] EXCEPT !.pc = "lock"]
  <2>1. r \in Request /\ r.pc = "lock" /\ r.key = 0
    BY <1>0, <1>1 DEF Regenerate, Request, Steps, KeysInv, KeyCarried
  <2>2. QED
    BY <1>0, <1>1, <2>1, MoveKeeps DEF Regenerate, Step
<1>2. ASSUME NEW w \in Worker, Approve(w) PROVE KeysInv'
  <2>1. TypeOK'
    BY <1>2, NewKeyKeeps DEF Approve, KeysInv, TypeOK
  <2>2. LockHeld' /\ KeyCarried' /\ IssuedKeyKept'
    BY <1>2 DEF Approve, KeysInv, LockHeld, KeyCarried, IssuedKeyKept
  <2>3. QED
    BY <1>2, <2>1, <2>2, NewKeyKeeps DEF Approve, KeysInv
<1>3. ASSUME NEW w \in Worker, DeleteEntity(w) PROVE KeysInv'
  <2> DEFINE r == [req[w] EXCEPT !.pc = "disconnect"]
  <2>1. r \in Request /\ r.pc = "disconnect" /\ r.key = 0
    BY <1>0, <1>3 DEF DeleteEntity, Request, Steps, KeysInv, KeyCarried
  <2>2. QED
    BY <1>0, <1>3, <2>1, MoveKeeps DEF DeleteEntity, Step
<1>4. ASSUME NEW w \in Worker, ReactivateCheck(w) PROVE KeysInv'
  <2> DEFINE r == [req[w] EXCEPT !.pc = "reactivate"]
  <2>1. r \in Request /\ r.pc = "reactivate" /\ r.key = 0
    BY <1>0, <1>4 DEF ReactivateCheck, Request, Steps, KeysInv, KeyCarried
  <2>2. QED
    BY <1>0, <1>4, <2>1, MoveKeeps DEF ReactivateCheck, Step
<1>5. ASSUME NEW w \in Worker, UpdateRead(w) PROVE KeysInv'
  <2> DEFINE r == [req[w] EXCEPT !.pc = "update", !.row = active]
  <2>1. r \in Request /\ r.pc = "update" /\ r.key = 0
    BY <1>0, <1>5 DEF UpdateRead, Request, Steps, KeysInv, KeyCarried
  <2>2. QED
    BY <1>0, <1>5, <2>1, MoveKeeps DEF UpdateRead
<1>6. ASSUME NEW w \in Worker, LockRotation(w) PROVE KeysInv'
  <2>1. req[w].key = 0 /\ req' = [req EXCEPT ![w] = [req[w] EXCEPT !.pc = "issue"]]
    BY <1>6 DEF LockRotation, Step, Goto, KeysInv, KeyCarried
  <2>2. [req[w] EXCEPT !.pc = "issue"] \in Request
    BY <1>0 DEF Request, Steps
  <2>3. TypeOK'
    BY <1>6, <2>1, <2>2 DEF LockRotation, KeysInv, TypeOK, keyVars
  <2>4. LockHeld'
    BY <1>0, <1>6, <2>1 DEF LockRotation, KeysInv, LockHeld, TypeOK, Request
  <2>5. KeyCarried' /\ IssuedKeyKept' /\ AlwaysHasKey' /\ RevokedForGood'
    BY <1>0, <1>6, <2>1 DEF LockRotation, KeysInv, KeyCarried, IssuedKeyKept, AlwaysHasKey,
                            RevokedForGood, TypeOK, Request, keyVars
  <2>6. QED
    BY <2>3, <2>4, <2>5 DEF KeysInv
<1>7. ASSUME NEW w \in Worker, Issue(w) PROVE KeysInv'
  <2> DEFINE r == [req[w] EXCEPT !.pc = "revoke", !.key = issued + 1]
  <2>1. issued + 1 \in Key /\ issued + 1 # 0
    BY DEF KeysInv, TypeOK, Key
  <2>2. r \in Request /\ r.pc = "revoke" /\ r.key = issued + 1
    BY <1>0, <2>1 DEF Request, Steps
  <2>3. req' = [req EXCEPT ![w] = r] /\ issued + 1 \in creds' /\ creds \subseteq creds'
        /\ lock' = lock /\ lock = w
    BY <1>7 DEF Issue, Goto, KeysInv, LockHeld
  <2>4. TypeOK'
    BY <1>7, <2>2, <2>3, NewKeyKeeps DEF Issue, KeysInv, TypeOK
  <2>5. LockHeld' /\ KeyCarried' /\ IssuedKeyKept'
    BY <2>1, <2>2, <2>3 DEF KeysInv, LockHeld, KeyCarried, IssuedKeyKept, TypeOK
  <2>6. QED
    BY <1>7, <2>4, <2>5, NewKeyKeeps DEF Issue, KeysInv
<1>8. ASSUME NEW w \in Worker, Revoke(w) PROVE KeysInv'
  <2> DEFINE r == [req[w] EXCEPT !.pc = "disconnect"]
  <2>1. /\ req[w].pc = "revoke" /\ req[w].key # 0 /\ req[w].key \in creds
        /\ lock = w /\ lock' = lock
    BY <1>8 DEF Revoke, KeysInv, LockHeld, KeyCarried, IssuedKeyKept
  <2>2. creds' = {req[w].key} /\ rotated' = req[w].key /\ issued' = issued
    BY <1>8, <2>1 DEF Revoke
  <2>3. r \in Request /\ r.pc = "disconnect" /\ r.key = req[w].key
    BY <1>0 DEF Request, Steps
  <2>4. req' = [req EXCEPT ![w] = r]
    BY <1>8 DEF Revoke, Step, Goto
  <2>5. TypeOK'
    <3>1. req[w].key \in 1..issued
      BY <2>1 DEF KeysInv, TypeOK
    <3>2. creds' \subseteq 1..issued' /\ rotated' \in 0..issued'
      BY <2>2, <3>1 DEF KeysInv, TypeOK, Key
    <3>3. req' \in [Worker -> Request]
      BY <2>3, <2>4 DEF KeysInv, TypeOK
    <3>4. QED
      BY <1>8, <2>1, <2>2, <3>2, <3>3 DEF Revoke, KeysInv, TypeOK
  <2>6. IssuedKeyKept'
    <3> SUFFICES ASSUME NEW v \in Worker, req'[v].pc \in {"revoke", "disconnect"},
                        req'[v].key # 0
                 PROVE  req'[v].key \in creds'
      BY DEF IssuedKeyKept
    <3>1. CASE v = w
      BY <2>2, <2>3, <2>4, <3>1 DEF KeysInv, TypeOK
    <3>2. CASE v # w
      BY <2>1, <2>4, <3>2 DEF KeysInv, LockHeld, TypeOK
    <3>3. QED
      BY <3>1, <3>2
  <2>7. LockHeld' /\ KeyCarried'
    BY <2>1, <2>3, <2>4 DEF KeysInv, LockHeld, KeyCarried, TypeOK
  <2>8. AlwaysHasKey' /\ RevokedForGood'
    <3>1. req[w].key \in Nat
      <4>1. issued \in Nat /\ req[w].key \in 1..issued
        BY <2>1 DEF KeysInv, TypeOK, Key
      <4>2. QED
        BY <4>1
    <3>2. req[w].key >= req[w].key
      BY <3>1
    <3>3. QED
      BY <2>2, <3>2 DEF AlwaysHasKey, RevokedForGood
  <2>9. QED
    BY <2>5, <2>6, <2>7, <2>8 DEF KeysInv
<1>9. ASSUME NEW w \in Worker, Disconnect(w) PROVE KeysInv'
  <2>1. conn' \in [Conn -> ConnState]
    BY <1>0, <1>9 DEF Disconnect, ConnState
  <2>2. QED
    BY <1>0, <1>9, <2>1, ReturnKeeps DEF Disconnect
<1>10. ASSUME NEW w \in Worker, Fails(w) PROVE KeysInv'
  BY <1>0, <1>10, ReturnKeeps DEF Fails
<1>11. ASSUME NEW w \in Worker, Reactivate(w) PROVE KeysInv'
  BY <1>0, <1>11, ReturnKeeps DEF Reactivate
<1>12. ASSUME NEW w \in Worker, UpdateWrite(w) PROVE KeysInv'
  <2>1. active' \in BOOLEAN
    BY <1>0, <1>12 DEF UpdateWrite, Request
  <2>2. QED
    BY <1>0, <1>12, <2>1, ReturnKeeps DEF UpdateWrite
<1>b. ASSUME UNCHANGED <<keyVars, lock, active, req, faults>>, conn' \in [Conn -> ConnState]
      PROVE  KeysInv'
  BY <1>b DEF KeysInv, TypeOK, LockHeld, KeyCarried, IssuedKeyKept, AlwaysHasKey, RevokedForGood,
              keyVars
<1>13. ASSUME NEW c \in Conn, ConnResolve(c) PROVE KeysInv'
  <2>1. conn' \in [Conn -> ConnState]
    BY <1>0, <1>13 DEF ConnResolve, ConnState, KeysInv, TypeOK, Key
  <2>2. QED
    BY <1>13, <2>1, <1>b DEF ConnResolve
<1>14. ASSUME NEW c \in Conn, ConnAdmit(c) PROVE KeysInv'
  BY <1>0, <1>14, <1>b DEF ConnAdmit, ConnState
<1>15. ASSUME NEW c \in Conn, ConnRegister(c) PROVE KeysInv'
  BY <1>0, <1>15, <1>b DEF ConnRegister, ConnState
<1>16. CASE UNCHANGED vars
  BY <1>0, <1>16, <1>b DEF vars, keyVars
<1>17. QED
  BY <1>1, <1>2, <1>3, <1>4, <1>5, <1>6, <1>7, <1>8, <1>9, <1>10, <1>11, <1>12, <1>13, <1>14,
     <1>15, <1>16 DEF Next, Arrives, Serve, Rotate

\* AlwaysHasKey, IssuedKeyKept and RevokedForGood: the rotation lock alone keeps an
\* entity from losing all its keys and a rotation from answering a revoked one, even
\* though approvals add keys without the lock.
THEOREM EntityKeysSafe == Spec => [](TypeOK /\ AlwaysHasKey /\ IssuedKeyKept /\ RevokedForGood)
<1>1. KeysInv => TypeOK /\ AlwaysHasKey /\ IssuedKeyKept /\ RevokedForGood
  BY DEF KeysInv
<1>2. QED
  BY KeysInit, KeysStep, <1>1, PTL DEF Spec

\* OutlivesOnlyOvertaken: the sessions a rotation leaves open with a key it revoked
\* are of handshakes it overtook (HandleWS): no key is taken after its revocation,
\* and who outlives it registers after its disconnect.
THEOREM EntityKeysOutlived == Spec => OutlivesOnlyOvertaken
<1> DEFINE Taken(c)   == conn'[c].key # conn[c].key => ConnResolve(c) /\ conn'[c].key >= rotated'
           Outlived(c) == Outlives(c)' /\ ~Outlives(c) => ConnRegister(c)
<1>1. ASSUME KeysInv, Next, NEW c \in Conn PROVE Taken(c)
  <2> SUFFICES ASSUME conn'[c].key # conn[c].key
               PROVE  ConnResolve(c) /\ conn'[c].key >= rotated'
    OBVIOUS
  <2>0. conn \in [Conn -> ConnState]
    BY <1>1 DEF KeysInv, TypeOK
  <2>1. ASSUME NEW w \in Worker, Arrives(w) \/ Serve(w) PROVE FALSE
    <3>1. conn'[c].key = conn[c].key
      BY <2>0, <2>1 DEF Arrives, Serve, Rotate, Regenerate, Approve, DeleteEntity, ReactivateCheck,
                  UpdateRead, LockRotation, Issue, Revoke, Disconnect, Fails, Reactivate,
                  UpdateWrite, ConnState
    <3>2. QED
      BY <3>1
  <2>2. ASSUME NEW d \in Conn, ConnResolve(d) \/ ConnAdmit(d) \/ ConnRegister(d)
        PROVE  ConnResolve(c) /\ conn'[c].key >= rotated'
    <3>1. ~ConnAdmit(d) /\ ~ConnRegister(d)
      BY <2>0 DEF ConnAdmit, ConnRegister, ConnState
    <3>2. ConnResolve(d) /\ d = c
      BY <2>0, <2>2, <3>1 DEF ConnResolve
    <3>3. conn'[c].key \in creds /\ rotated' = rotated
      BY <2>0, <3>2 DEF ConnResolve, keyVars
    <3>4. QED
      BY <1>1, <3>2, <3>3 DEF KeysInv, RevokedForGood
  <2>3. QED
    BY <1>1, <2>1, <2>2 DEF Next
<1>2. ASSUME KeysInv, Next, NEW c \in Conn PROVE Outlived(c)
  <2> SUFFICES ASSUME Outlives(c)', ~Outlives(c)
               PROVE  ConnRegister(c)
    OBVIOUS
  <2>0. /\ req \in [Worker -> Request] /\ conn \in [Conn -> ConnState]
        /\ conn'[c].at = "open" /\ conn'[c].key < rotated'
        /\ \A w \in Worker : ~(req'[w].pc = "disconnect" /\ req'[w].key # 0)
    BY <1>2 DEF KeysInv, TypeOK, Outlives
  <2>1. ASSUME NEW w \in Worker, Revoke(w) PROVE FALSE
    <3>1. req[w].key # 0 /\ req'[w].pc = "disconnect" /\ req'[w].key = req[w].key
      BY <1>2, <2>0, <2>1 DEF Revoke, Step, Goto, Request, KeysInv, KeyCarried
    <3>2. QED
      BY <2>0, <3>1
  <2>2. ASSUME NEW w \in Worker, Disconnect(w) PROVE FALSE
    BY <2>0, <2>2 DEF Disconnect, ConnState
  <2>3. ASSUME NEW w \in Worker, Arrives(w) \/ Serve(w), ~Revoke(w), ~Disconnect(w) PROVE FALSE
    <3>1. conn' = conn /\ rotated' = rotated /\ req[w].pc # "disconnect"
      BY <2>3 DEF Arrives, Serve, Rotate, Regenerate, Approve, DeleteEntity, ReactivateCheck,
                  UpdateRead, LockRotation, Issue, Fails, Reactivate, UpdateWrite, keyVars
    <3>2. \A v \in Worker \ {w} : req'[v] = req[v]
      BY <2>0, <2>3 DEF Arrives, Serve, Rotate, Regenerate, Approve, DeleteEntity,
           ReactivateCheck, UpdateRead, LockRotation, Issue, Fails, Reactivate, UpdateWrite,
           Return, Step, Goto
    <3>3. QED
      BY <2>0, <3>1, <3>2 DEF Outlives
  <2>4. ASSUME NEW d \in Conn, ConnResolve(d) \/ ConnAdmit(d) \/ ConnRegister(d) PROVE ConnRegister(c)
    <3>1. rotated' = rotated /\ req' = req
      BY <2>4 DEF ConnResolve, ConnAdmit, ConnRegister, keyVars
    <3>2. CASE d # c
      <4>1. conn'[c] = conn[c]
        BY <2>0, <2>4, <3>2 DEF ConnResolve, ConnAdmit, ConnRegister
      <4>2. QED
        BY <2>0, <3>1, <4>1 DEF Outlives
    <3>3. CASE d = c
      BY <2>0, <2>4, <3>3 DEF ConnResolve, ConnAdmit, ConnState
    <3>4. QED
      BY <3>2, <3>3
  <2>5. QED
    BY <1>2, <2>1, <2>2, <2>3, <2>4 DEF Next
<1>3. KeysInv /\ [Next]_vars =>
        [\A c \in Conn :
           /\ conn'[c].key # conn[c].key => ConnResolve(c) /\ conn'[c].key >= rotated'
           /\ Outlives(c)' /\ ~Outlives(c) => ConnRegister(c)]_vars
  BY <1>1, <1>2
<1>4. QED
  BY KeysInit, KeysStep, <1>3, PTL DEF Spec, OutlivesOnlyOvertaken
=============================================================================
