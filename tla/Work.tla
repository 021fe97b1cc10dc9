-------------------------------- MODULE Work --------------------------------
(***************************************************************************)
(* What participants change together in one conversation: its tasks, its   *)
(* settings and the requests to change the settings                        *)
(* (internal/handler/task.go, change_request.go, conversation.go,          *)
(* message.go; internal/store/postgres/task.go, change_request.go,         *)
(* conversation.go).                                                       *)
(*                                                                         *)
(* Every handler reads a row, changes its copy and writes the whole copy   *)
(* back: no transaction, no version, no condition on what the row held.    *)
(* Membership and roles are modelled in Membership; here an editor acts    *)
(* for any person who passes the check.                                    *)
(*                                                                         *)
(* An operator named X_Mutant is X with a plausible slip in it. No action  *)
(* uses it; it shows which property would notice.                          *)
(***************************************************************************)
EXTENDS Naturals, FiniteSets

CONSTANTS
  TaskId,    \* tasks
  Person,    \* entities that create tasks and that they are assigned to
  Admin,     \* the persons among them who own or administer the conversation
  Change,    \* change requests
  Field,     \* title, description, prompt
  Value,     \* their values
  Editor,    \* goroutines that serve requests, one request at a time
  Nothing,
  Unset,     \* the value of every field at first
  MaxLost    \* bound: statements that fail

ASSUME WorkAssumption ==
  /\ Nothing \notin TaskId \cup Person \cup Change \cup Field
  /\ Admin \subseteq Person /\ Unset \in Value /\ MaxLost \in Nat

Final    == {"done", "cancelled"}
Settable == {"pending", "in_progress"} \cup Final
TaskRow  == [status : {"none", "deleted", "handed_over"} \cup Settable, completed : BOOLEAN,
             by : Person \cup {Nothing}, assignee : Person \cup {Nothing}]
ChangeRow == [status : {"none", "pending", "approved", "rejected"},
              field : Field \cup {Nothing}, value : Value]
Row  == [Field -> Value]
Edit == [pc : {"ready", "task", "delete", "resolve", "fetch", "save"},
         task : TaskId \cup {Nothing}, copy : TaskRow,
         change : Change \cup {Nothing}, approve : BOOLEAN, row : Row]

VARIABLES
  task,      \* tasks table
  setting,   \* the conversation's row
  change,    \* change_requests table
  edit,      \* the request each editor serves
  lost,      \* statements that failed
  applied,   \* history: changes that were written to the settings
  contested  \* history: changes decided while another decision was under way

past     == <<applied, contested>>
workVars == <<task, setting, change, edit, lost, past>>

NoTask == [status |-> "none", completed |-> FALSE, by |-> Nothing, assignee |-> Nothing]
NoChange == [status |-> "none", field |-> Nothing, value |-> Unset]
AllUnset == [f \in Field |-> Unset]
NoEdit == [pc |-> "ready", task |-> Nothing, copy |-> NoTask,
           change |-> Nothing, approve |-> FALSE, row |-> AllUnset]

Exists(t) == task[t].status \notin {"none", "deleted"}

EditOK(r) ==
  /\ r.pc \in {"task", "delete"} => r.task \in TaskId
  /\ r.pc \in {"resolve", "fetch"} => r.change \in Change /\ change[r.change].field \in Field

WorkTypeOK ==
  /\ task \in [TaskId -> TaskRow]
  /\ setting \in Row
  /\ change \in [Change -> ChangeRow]
  /\ \A c \in Change : change[c].status # "none" => change[c].field \in Field
  /\ edit \in [Editor -> Edit] /\ \A w \in Editor : EditOK(edit[w])
  /\ lost \in Nat
  /\ applied \subseteq Change /\ contested \subseteq Change

WorkInit ==
  /\ task = [t \in TaskId |-> NoTask]
  /\ setting = AllUnset
  /\ change = [c \in Change |-> NoChange]
  /\ edit = [w \in Editor |-> NoEdit]
  /\ lost = 0
  /\ applied = {} /\ contested = {}

Handle(w, r) == edit' = [edit EXCEPT ![w] = r]
Answer(w)   == Handle(w, NoEdit)
Lose        == lost < MaxLost /\ lost' = lost + 1
-----------------------------------------------------------------------------
(* Tasks *)

\* HandleCreateTask: one insert
CreateTask(t, p, a) ==
  /\ task[t].status = "none"
  /\ task' = [task EXCEPT ![t] =
       [status |-> "pending", completed |-> FALSE, by |-> p, assignee |-> a]]
  /\ UNCHANGED <<setting, change, edit, lost, past>>

MayUpdate(p, t) == p \in Admin \cup {task[t].by, task[t].assignee}
MayDelete(p, t) == p \in Admin \cup {task[t].by}

\* The copies an update may make of row r: another status sets or clears
\* completed_at, another assignee or title leaves both alone.
Copies(r) ==
  {r} \cup {[r EXCEPT !.status = s, !.completed = s \in Final] : s \in Settable}
      \cup {[r EXCEPT !.assignee = p] : p \in Person}

\* HandleUpdateTask up to UpdateTask
ReadTask(w, p, t) ==
  /\ edit[w].pc = "ready"
  /\ Exists(t) /\ MayUpdate(p, t)
  /\ \E copy \in Copies(task[t]) :
       Handle(w, [NoEdit EXCEPT !.pc = "task", !.task = t, !.copy = copy])
  /\ UNCHANGED <<task, setting, change, lost, past>>

\* processTaskHandover up to UpdateTask; completed_at stays as it was
HandOver(w, t) ==
  /\ edit[w].pc = "ready"
  /\ Exists(t)
  /\ Handle(w, [NoEdit EXCEPT !.pc = "task", !.task = t,
                             !.copy = [task[t] EXCEPT !.status = "handed_over"]])
  /\ UNCHANGED <<task, setting, change, lost, past>>

WriteTask_Mutant(w) ==
  LET r == edit[w] IN
  /\ r.pc = "task" /\ Answer(w)
  /\ task' = IF Exists(r.task) THEN [task EXCEPT ![r.task].status = r.copy.status] ELSE task
  /\ UNCHANGED <<setting, change, lost, past>>

\* UpdateTask ... WherePK: every column; no row is changed once it is deleted
WriteTask(w) ==
  LET r == edit[w] IN
  /\ r.pc = "task" /\ Answer(w)
  /\ \/ task' = (IF Exists(r.task) THEN [task EXCEPT ![r.task] = r.copy] ELSE task)
        /\ UNCHANGED lost
     \/ Lose /\ UNCHANGED task
  /\ UNCHANGED <<setting, change, past>>

\* HandleDeleteTask
ReadForDelete(w, p, t) ==
  /\ edit[w].pc = "ready"
  /\ Exists(t) /\ MayDelete(p, t)
  /\ Handle(w, [NoEdit EXCEPT !.pc = "delete", !.task = t])
  /\ UNCHANGED <<task, setting, change, lost, past>>

DeleteTask(w) ==
  /\ edit[w].pc = "delete" /\ Answer(w)
  /\ \/ task' = [task EXCEPT ![edit[w].task] = [NoTask EXCEPT !.status = "deleted"]]
        /\ UNCHANGED lost
     \/ Lose /\ UNCHANGED task
  /\ UNCHANGED <<setting, change, past>>
-----------------------------------------------------------------------------
(* Settings, and requests to change them *)

\* HandleUpdateConversation up to UpdateConversation
ReadSettings(w, f, v) ==
  /\ edit[w].pc = "ready"
  /\ Handle(w, [NoEdit EXCEPT !.pc = "save", !.row = [setting EXCEPT ![f] = v]])
  /\ UNCHANGED <<task, setting, change, lost, past>>

\* HandleCreateChangeRequest
AskChange(c, f, v) ==
  /\ change[c].status = "none"
  /\ change' = [change EXCEPT ![c] = [status |-> "pending", field |-> f, value |-> v]]
  /\ UNCHANGED <<task, setting, edit, lost, past>>

\* resolveChangeRequest, to its test that the request is pending
ReadChange_Mutant(w, c, ok) ==
  /\ edit[w].pc = "ready"
  /\ change[c].status # "none"
  /\ Handle(w, [NoEdit EXCEPT !.pc = "resolve", !.change = c, !.approve = ok])
  /\ UNCHANGED <<task, setting, change, lost, past>>

ReadChange(w, c, ok) ==
  /\ edit[w].pc = "ready"
  /\ change[c].status = "pending"
  /\ Handle(w, [NoEdit EXCEPT !.pc = "resolve", !.change = c, !.approve = ok])
  /\ UNCHANGED <<task, setting, change, lost, past>>

\* ResolveChangeRequest: by id only, whatever the status is by now
Resolve(w) ==
  LET r == edit[w] IN
  /\ r.pc = "resolve"
  /\ \/ /\ change' = [change EXCEPT ![r.change].status =
             IF r.approve THEN "approved" ELSE "rejected"]
        /\ IF r.approve THEN Handle(w, [r EXCEPT !.pc = "fetch"]) ELSE Answer(w)
        /\ contested' =
             IF \E v \in Editor \ {w} : edit[v].pc = "resolve" /\ edit[v].change = r.change
             THEN contested \cup {r.change} ELSE contested
        /\ UNCHANGED lost
     \/ Lose /\ Answer(w) /\ UNCHANGED <<change, contested>>
  /\ UNCHANGED <<task, setting, applied>>

\* the settings are read again; a failure is not told to anyone
FetchSettings(w) ==
  LET r == edit[w]  c == change[r.change] IN
  /\ r.pc = "fetch"
  /\ \/ Handle(w, [r EXCEPT !.pc = "save", !.row = [setting EXCEPT ![c.field] = c.value]])
        /\ UNCHANGED lost
     \/ Lose /\ Answer(w)
  /\ UNCHANGED <<task, setting, change, past>>

\* UpdateConversation: every column
SaveSettings(w) ==
  LET r == edit[w] IN
  /\ r.pc = "save" /\ Answer(w)
  /\ \/ /\ setting' = r.row
        /\ applied' = applied \cup ({r.change} \ {Nothing})
        /\ UNCHANGED lost
     \/ Lose /\ UNCHANGED <<setting, applied>>
  /\ UNCHANGED <<task, change, contested>>
-----------------------------------------------------------------------------
Tasks(w) ==
  \/ \E p \in Person, t \in TaskId : ReadTask(w, p, t) \/ ReadForDelete(w, p, t)
  \/ \E t \in TaskId : HandOver(w, t)
  \/ WriteTask(w) \/ DeleteTask(w)
CreatesTask ==
  \E t \in TaskId, p \in Person, a \in Person \cup {Nothing} : CreateTask(t, p, a)
Changes(w) ==
  \/ \E f \in Field, v \in Value : ReadSettings(w, f, v)
  \/ \E c \in Change, ok \in BOOLEAN : ReadChange(w, c, ok)
  \/ Resolve(w) \/ FetchSettings(w) \/ SaveSettings(w)
AsksChange == \E c \in Change, f \in Field, v \in Value : AskChange(c, f, v)

WorkNext == (\E w \in Editor : Tasks(w) \/ Changes(w)) \/ CreatesTask \/ AsksChange
WorkSpec == WorkInit /\ [][WorkNext]_workVars
-----------------------------------------------------------------------------
(* Properties *)

\* A task carries its completion time exactly while it is done or cancelled, in
\* whatever order updates and handovers overwrite each other; a task that was
\* handed over may carry one or not.
RowMatches(r) == r.status # "handed_over" => (r.completed <=> r.status \in Final)
CompletionMatches == \A t \in TaskId : RowMatches(task[t])

\* A change that was rejected has not been applied, unless two decisions on it were
\* under way at once: neither then asks what the other has written.
DecisionStands ==
  \A c \in applied : change[c].status = "rejected" => c \in contested

\* A deleted task does not come back, whatever was read of it before.
DeletedStaysDeleted ==
  [][\A t \in TaskId : task[t].status = "deleted" => task'[t].status = "deleted"]_workVars
=============================================================================
