-------------------------------- MODULE Files --------------------------------
(***************************************************************************)
(* Uploaded files: on disk, in file_records, as avatars and as attachments *)
(* (internal/handler/file.go, message.go, auth.go; internal/filestore;     *)
(* internal/store/postgres/file.go, internal/ws/hub.go), and the job that  *)
(* cleans them up.                                                         *)
(*                                                                         *)
(* The disk and the database are two stores without a common transaction.  *)
(* Stored names are random and never reused. Avatars are written with the  *)
(* whole row of their entity. Only one of the form /files/<stored name> is *)
(* a file to the cleanup; any other (an absolute URL, be it of an upload,  *)
(* an image in the URL, a path under /bot-avatars/) is kept as it came and *)
(* is None here.                                                           *)
(*                                                                         *)
(* An operator named X_Mutant is X with a plausible slip in it. No action  *)
(* uses it; it shows which property would notice.                          *)
(***************************************************************************)
EXTENDS Naturals, FiniteSets

CONSTANTS
  File,       \* stored names
  Entity,     \* entities that upload, and that have avatars
  Conv,       \* conversations
  Worker,     \* goroutines that serve requests, one request at a time
  BatchSize,  \* expired records fetched at a time (100 in the code)
  None,
  MaxFaults,  \* bound: statements and disk operations that fail
  MaxRestarts \* bound: restarts of the server

ASSUME FilesAssumption ==
  /\ None \notin File \cup Entity \cup Conv
  /\ BatchSize \in Nat \ {0} /\ MaxFaults \in Nat /\ MaxRestarts \in Nat

Record == [stored : BOOLEAN, by : Entity \cup {None}, conv : Conv \cup {None}, expired : BOOLEAN]
Call == [pc : {"ready", "record", "discard", "write", "bind"},
         me : Entity \cup {None}, file : File \cup {None}, conv : Conv \cup {None}]
Expiring == {"fetch", "batch", "forget"}
Scanning == {"names", "avatars", "dir", "orphans"}
\* Where the cleanup goroutine is, and the names it has read: avatars, expired
\* records (its cutoff), the current batch, records, and files on disk.
Sweep == [pc : {"idle"} \cup Expiring \cup Scanning,
          kept : SUBSET File, cutoff : SUBSET File, batch : SUBSET File, full : BOOLEAN,
          file : File \cup {None}, known : SUBSET File, listed : SUBSET File]

VARIABLES
  disk,      \* files on disk
  used,      \* stored names given to a file
  record,    \* file_records table
  avatar,    \* the file that entities.avatar_url names
  call,      \* the request each worker serves
  sweep,     \* the cleanup goroutine
  faults,    \* operations that failed
  restarts,  \* restarts of the server
  sent,      \* <<f, c, door>>: a message of c, sent over door, has f attached
  missed,    \* history: records stored during a scan, or after one took their file
  halved,    \* history: expired files removed from disk whose record stayed
  late,      \* history: files made an avatar when they were gone, or during a sweep
  contested  \* history: files attached in two conversations at once

stores == <<disk, used, record, avatar, sent>>
bounds == <<faults, restarts>>
past   == <<missed, halved, late, contested>>
vars   == <<stores, call, sweep, bounds, past>>

NoRecord == [stored |-> FALSE, by |-> None, conv |-> None, expired |-> FALSE]
Ready    == [pc |-> "ready", me |-> None, file |-> None, conv |-> None]
Idle     == [pc |-> "idle", kept |-> {}, cutoff |-> {}, batch |-> {}, full |-> FALSE,
             file |-> None, known |-> {}, listed |-> {}]

Stored  == {f \in File : record[f].stored}
Avatars == {avatar[e] : e \in Entity} \ {None}

CallOK(r) ==
  /\ r.pc # "ready" => r.me \in Entity
  /\ r.pc \in {"record", "discard", "bind"} => r.file \in used
  /\ r.pc = "bind" => r.conv \in Conv

TypeOK ==
  /\ disk \subseteq used /\ used \subseteq File /\ Stored \subseteq used
  /\ record \in [File -> Record]
  /\ avatar \in [Entity -> used \cup {None}]
  /\ call \in [Worker -> Call] /\ \A w \in Worker : CallOK(call[w])
  /\ sweep \in Sweep /\ (sweep.pc = "forget" => sweep.file \in File)
  /\ faults \in Nat /\ restarts \in Nat
  /\ sent \subseteq used \X Conv \X {"rest", "socket"}
  /\ missed \subseteq File /\ halved \subseteq File /\ late \subseteq File
  /\ contested \subseteq File

Init ==
  /\ disk = {} /\ used = {} /\ sent = {}
  /\ record = [f \in File |-> NoRecord]
  /\ avatar = [e \in Entity |-> None]
  /\ call = [w \in Worker |-> Ready] /\ sweep = Idle
  /\ faults = 0 /\ restarts = 0
  /\ missed = {} /\ halved = {} /\ late = {} /\ contested = {}

Goto(w, r) == call' = [call EXCEPT ![w] = r]
Finish(w)  == Goto(w, Ready)
Fault      == faults < MaxFaults /\ faults' = faults + 1 /\ UNCHANGED restarts
Intact     == UNCHANGED bounds
-----------------------------------------------------------------------------
(* HandleFileUpload *)

\* LocalStore.Save; a copy that fails leaves what it wrote
Save(w, e, c, f) ==
  /\ call[w].pc = "ready" /\ f \notin used
  /\ used' = used \cup {f} /\ disk' = disk \cup {f}
  /\ \/ Goto(w, [pc |-> "record", me |-> e, file |-> f, conv |-> c]) /\ Intact
     \/ UNCHANGED call /\ Fault
  /\ UNCHANGED <<record, avatar, sent, sweep, past>>

\* CreateFileRecord
StoreRecord_Mutant(w) ==
  LET r == call[w] IN
  /\ r.pc = "record" /\ Finish(w)
  /\ record' = [record EXCEPT ![r.file] =
       [stored |-> TRUE, by |-> r.conv, conv |-> r.me, expired |-> FALSE]]
  /\ Intact /\ UNCHANGED <<disk, used, avatar, sent, sweep, past>>

StoreRecord(w) ==
  LET r == call[w] IN
  /\ r.pc = "record"
  /\ \/ /\ record' = [record EXCEPT ![r.file] =
             [stored |-> TRUE, by |-> r.me, conv |-> r.conv, expired |-> FALSE]]
        /\ missed' = IF r.file \notin disk \/ sweep.pc \in Scanning \ {"names"}
                     THEN missed \cup {r.file} ELSE missed
        /\ Finish(w) /\ Intact
     \/ Fault /\ Goto(w, [r EXCEPT !.pc = "discard"]) /\ UNCHANGED <<record, missed>>
  /\ UNCHANGED <<disk, used, avatar, sent, sweep, halved, late, contested>>

\* the upload is taken back; a failing removal is only logged
Discard(w) ==
  /\ call[w].pc = "discard" /\ Finish(w)
  /\ (disk' = disk \ {call[w].file} /\ Intact) \/ (UNCHANGED disk /\ Fault)
  /\ UNCHANGED <<used, record, avatar, sent, sweep, past>>
-----------------------------------------------------------------------------
(* HandleUpdateProfile, HandleUpdateEntity: the row is read and written whole *)

\* f is an upload that was answered, or the avatar the row has
ReadRow(w, e, f) ==
  /\ call[w].pc = "ready" /\ f \in Stored \cup {avatar[e], None}
  /\ Goto(w, [Ready EXCEPT !.pc = "write", !.me = e, !.file = f])
  /\ Intact /\ UNCHANGED <<stores, sweep, past>>

WriteRow(w) ==
  LET f == call[w].file  e == call[w].me IN
  /\ call[w].pc = "write" /\ Finish(w)
  /\ avatar' = [avatar EXCEPT ![e] = f]
  /\ late' = IF f # None /\ f # avatar[e] /\ (f \notin disk \/ sweep.pc # "idle")
             THEN late \cup {f} ELSE late
  /\ Intact /\ UNCHANGED <<disk, used, record, sent, sweep, missed, halved, contested>>
-----------------------------------------------------------------------------
(* HandleSendMessage with an attachment, and message.send over a WebSocket *)

AttachCheck_Mutant(w, e, f, c) ==
  /\ call[w].pc = "ready" /\ f \in Stored
  /\ \/ record[f].conv = c /\ UNCHANGED call /\ sent' = sent \cup {<<f, c, "rest">>}
     \/ /\ record[f].by = e /\ UNCHANGED sent
        /\ Goto(w, [pc |-> "bind", me |-> e, file |-> f, conv |-> c])
  /\ Intact /\ UNCHANGED <<disk, used, record, avatar, sweep, past>>

AttachCheck(w, e, f, c) ==
  /\ call[w].pc = "ready" /\ f \in Stored
  /\ \/ record[f].conv = c /\ UNCHANGED call /\ sent' = sent \cup {<<f, c, "rest">>}
     \/ /\ record[f].conv = None /\ record[f].by = e /\ UNCHANGED sent
        /\ Goto(w, [pc |-> "bind", me |-> e, file |-> f, conv |-> c])
  /\ Intact /\ UNCHANGED <<disk, used, record, avatar, sweep, past>>

\* BindFileRecordToConversation ... AND conversation_id IS NULL; the handler does
\* not ask whether a row was changed
Bind(w) ==
  LET r == call[w] IN
  /\ r.pc = "bind" /\ Finish(w)
  /\ record' = IF record[r.file].stored /\ record[r.file].conv = None
               THEN [record EXCEPT ![r.file].conv = r.conv] ELSE record
  /\ sent' = sent \cup {<<r.file, r.conv, "rest">>}
  /\ contested' =
       IF \E v \in Worker : call[v].pc = "bind" /\ call[v].file = r.file /\ call[v].conv # r.conv
       THEN contested \cup {r.file} ELSE contested
  /\ Intact /\ UNCHANGED <<disk, used, avatar, sweep, missed, halved, late>>

\* Hub.handleSend stores the attachments of a message.send as they came: it looks
\* at no record and binds none
AttachOverSocket(f, c) ==
  /\ f \in used /\ sent' = sent \cup {<<f, c, "socket">>}
  /\ Intact /\ UNCHANGED <<disk, used, record, avatar, call, sweep, past>>
-----------------------------------------------------------------------------
(* RunFileCleanup: one goroutine, a cycle at a time *)

Step(r) == sweep' = r
Move(pc) == Step([sweep EXCEPT !.pc = pc])

\* cleanExpiredRecords: the cutoff and the avatars are read once
StartSweep ==
  /\ sweep.pc = "idle"
  /\ \/ Step([Idle EXCEPT !.pc = "fetch", !.kept = Avatars,
                          !.cutoff = {f \in Stored : record[f].expired}]) /\ Intact
     \/ Step([Idle EXCEPT !.pc = "names"]) /\ Fault
  /\ UNCHANGED <<stores, call, past>>

\* ListExpiredFileRecords: any BatchSize of them, in no order
FetchBatch_Mutant ==
  LET due == sweep.cutoff \cap Stored IN
  /\ sweep.pc = "fetch"
  /\ \/ \E batch \in SUBSET due \ {{}} :
          /\ Cardinality(batch) <= BatchSize
          /\ Step([sweep EXCEPT !.pc = "batch", !.batch = batch,
                                !.full = Cardinality(batch) = BatchSize])
     \/ due = {} /\ Step(Idle)
  /\ Intact /\ UNCHANGED <<stores, call, past>>

FetchBatch ==
  LET due == sweep.cutoff \cap Stored IN
  /\ sweep.pc = "fetch"
  /\ \/ /\ due # {} /\ Intact
        /\ \E batch \in SUBSET due :
             /\ Cardinality(batch) = BatchSize \/ (batch = due /\ Cardinality(due) < BatchSize)
             /\ Step([sweep EXCEPT !.pc = "batch", !.batch = batch,
                                   !.full = Cardinality(batch) = BatchSize])
     \/ due = {} /\ Move("names") /\ Intact
     \/ Move("names") /\ Fault
  /\ UNCHANGED <<stores, call, past>>

KeepAvatar ==
  /\ sweep.pc = "batch"
  /\ \E f \in sweep.batch \cap sweep.kept : Step([sweep EXCEPT !.batch = @ \ {f}])
  /\ Intact /\ UNCHANGED <<stores, call, past>>

RemoveExpired_Mutant ==
  /\ sweep.pc = "batch"
  /\ \E f \in sweep.batch :
       /\ Step([sweep EXCEPT !.pc = "forget", !.file = f, !.batch = @ \ {f}])
       /\ (disk' = disk \ {f} /\ Intact) \/ (UNCHANGED disk /\ Fault)
  /\ UNCHANGED <<used, record, avatar, sent, call, past>>

\* the file goes first; its record goes also when the removal failed
RemoveExpired ==
  /\ sweep.pc = "batch"
  /\ \E f \in sweep.batch \ sweep.kept :
       /\ Step([sweep EXCEPT !.pc = "forget", !.file = f, !.batch = @ \ {f}])
       /\ (disk' = disk \ {f} /\ Intact) \/ (UNCHANGED disk /\ Fault)
  /\ UNCHANGED <<used, record, avatar, sent, call, past>>

\* DeleteFileRecord
ForgetExpired ==
  LET f == sweep.file IN
  /\ sweep.pc = "forget" /\ Step([sweep EXCEPT !.pc = "batch", !.file = None])
  /\ \/ record' = [record EXCEPT ![f] = NoRecord] /\ Intact /\ UNCHANGED halved
     \/ UNCHANGED record /\ Fault /\ halved' = halved \cup {f}
  /\ UNCHANGED <<disk, used, avatar, sent, call, missed, late, contested>>

\* a batch that was not full was the last
EndBatch ==
  /\ sweep.pc = "batch" /\ sweep.batch = {}
  /\ Move(IF sweep.full THEN "fetch" ELSE "names")
  /\ Intact /\ UNCHANGED <<stores, call, past>>

\* cleanOrphanedFiles: the names of the records, then the avatars, then the disk
ListNames_Mutant ==
  /\ sweep.pc = "names"
  /\ Step([Idle EXCEPT !.pc = "avatars", !.known = {f \in Stored : record[f].conv # None}])
  /\ Intact /\ UNCHANGED <<stores, call, past>>

ListNames ==
  /\ sweep.pc = "names"
  /\ (Step([Idle EXCEPT !.pc = "avatars", !.known = Stored]) /\ Intact) \/ (Step(Idle) /\ Fault)
  /\ UNCHANGED <<stores, call, past>>

ListAvatars ==
  /\ sweep.pc = "avatars"
  /\ \/ Step([sweep EXCEPT !.pc = "dir", !.known = @ \cup Avatars]) /\ Intact
     \/ Step(Idle) /\ Fault
  /\ UNCHANGED <<stores, call, past>>

ReadDir ==
  /\ sweep.pc = "dir"
  /\ \/ Step([sweep EXCEPT !.pc = "orphans", !.listed = disk \ sweep.known, !.known = {}]) /\ Intact
     \/ Step(Idle) /\ Fault
  /\ UNCHANGED <<stores, call, past>>

RemoveOrphan ==
  /\ sweep.pc = "orphans"
  /\ \E f \in sweep.listed :
       /\ Step([sweep EXCEPT !.listed = @ \ {f}])
       /\ (disk' = disk \ {f} /\ Intact) \/ (UNCHANGED disk /\ Fault)
  /\ UNCHANGED <<used, record, avatar, sent, call, past>>

EndSweep ==
  /\ sweep.pc = "orphans" /\ sweep.listed = {} /\ Step(Idle)
  /\ Intact /\ UNCHANGED <<stores, call, past>>

\* a record grows older than the retention
Expire(f) ==
  /\ record[f].stored /\ ~ record[f].expired
  /\ record' = [record EXCEPT ![f].expired = TRUE]
  /\ UNCHANGED <<disk, used, avatar, sent, call, sweep, bounds, past>>

\* the server stops wherever its goroutines are, and starts again
Restart ==
  /\ restarts < MaxRestarts /\ restarts' = restarts + 1 /\ UNCHANGED faults
  /\ call' = [w \in Worker |-> Ready] /\ sweep' = Idle
  /\ halved' = IF sweep.pc = "forget" THEN halved \cup {sweep.file} ELSE halved
  /\ UNCHANGED <<stores, missed, late, contested>>
-----------------------------------------------------------------------------
Uploads(w) ==
  \/ \E e \in Entity, c \in Conv \cup {None}, f \in File : Save(w, e, c, f)
  \/ StoreRecord(w) \/ Discard(w)
SetsAvatar(w) == (\E e \in Entity, f \in File \cup {None} : ReadRow(w, e, f)) \/ WriteRow(w)
Attaches(w) ==
  (\E e \in Entity, f \in File, c \in Conv : AttachCheck(w, e, f, c)) \/ Bind(w)

Sweeps ==
  \/ StartSweep \/ FetchBatch \/ KeepAvatar \/ RemoveExpired \/ ForgetExpired \/ EndBatch
  \/ ListNames \/ ListAvatars \/ ReadDir \/ RemoveOrphan \/ EndSweep

Next ==
  \/ \E w \in Worker : Uploads(w) \/ SetsAvatar(w) \/ Attaches(w)
  \/ Sweeps
  \/ \E f \in File, c \in Conv : AttachOverSocket(f, c)
  \/ \E f \in File : Expire(f)
  \/ Restart

Spec     == Init /\ [][Next]_vars
FairSpec == Spec /\ WF_vars(Sweeps)
-----------------------------------------------------------------------------
(* Properties *)

\* A record has its file on disk, unless the cleanup is between the two, stopped
\* or failed there, or scanned for orphans before the upload stored its record:
\* then it may take the new file for one.
RecordHasFile ==
  \A f \in Stored \ disk :
    f \in missed \cup halved \/ (sweep.pc = "forget" /\ sweep.file = f)

\* "Avatar references are preserved during cleanup": the file that an avatar of the
\* form /files/<stored name> names is on disk, unless it became the avatar during a
\* cycle, which has read the avatars by then, or when its file was gone.
AvatarHasFile == Avatars \subseteq disk \cup late

\* A file that a message sent by HandleSendMessage attaches belongs to the message's
\* conversation as long as its record is stored, unless two conversations attached
\* it at once, whatever is sent over WebSockets besides: a file attached there only
\* is bound to nothing, and binds to the next conversation that attaches it here.
AttachmentBound ==
  \A f \in Stored, c \in Conv :
    <<f, c, "rest">> \in sent => record[f].conv = c \/ f \in contested

\* Files of uploads that were given up, or lost in a restart, are removed, unless
\* an avatar names them, or so many expired files are avatars that a batch holds
\* nothing else: the cycle then never ends.
Garbage(f)  == f \in disk \ (Stored \cup Avatars) /\ \A w \in Worker : call[w].file # f
TooManyKept == Cardinality(sweep.kept \cap sweep.cutoff \cap Stored) >= BatchSize
GarbageGoes == \A f \in File : Garbage(f) ~> (f \notin disk \/ f \in Avatars \/ TooManyKept)

\* "Runs once ..., then repeats every interval": a cycle ends.
SweepReturns == []<>(sweep.pc = "idle")
=============================================================================
