-------------------------------- MODULE Push --------------------------------
(***************************************************************************)
(* Push subscriptions of one entity (internal/push/sender.go,              *)
(* internal/handler/push.go, notification.go,                              *)
(* internal/store/postgres/push.go).                                       *)
(*                                                                         *)
(* A notification starts a goroutine that reads the subscriptions once and *)
(* calls a push service for each. The service may answer that the device   *)
(* is gone: the row is deleted by its endpoint. What else went wrong, or   *)
(* well, is stored in the row, which is then found by its id. Both ignore  *)
(* their own failure, as when the five seconds of the goroutine are over.  *)
(* The keys of a subscription are left out; an endpoint belongs to one     *)
(* provider.                                                               *)
(*                                                                         *)
(* An operator named X_Mutant is X with a plausible slip in it. No action  *)
(* uses it; it shows which property would notice.                          *)
(***************************************************************************)
EXTENDS Naturals, FiniteSets

CONSTANTS
  Endpoint,  \* endpoints, of devices
  Notifier,  \* goroutines that send one notification each
  MaxRows,   \* bound: rows ever inserted
  MaxSilent, \* bound: statements that fail, which nobody is told
  NoEndpoint

ASSUME PushAssumption ==
  NoEndpoint \notin Endpoint /\ MaxRows \in Nat /\ MaxSilent \in Nat

RowIds == 1 .. MaxRows

\* of a push service: sent, the device is gone, anything else
Answers == {"ok", "gone", "error"}

VARIABLES
  device,    \* push_subscriptions: the id of the row of each endpoint, 0: none
  erred,     \* endpoints whose row holds an error
  nextRow,   \* the id of the next row
  notify,    \* each goroutine: where it is, the rows it has not come to, the one it has
  silent,    \* statements that failed
  wanted,    \* history: endpoints registered and not unregistered since
  dead,      \* history: endpoints reported gone since they were registered
  overtaken, \* history: endpoints registered between a report and the delete it caused
  blamed     \* history: ids of rows of which a send failed

pushVars == <<device, erred, nextRow, notify, silent, wanted, dead, overtaken, blamed>>

Sending == [pc : {"ready", "next", "drop", "status"}, left : SUBSET (Endpoint \X RowIds),
            ep : Endpoint \cup {NoEndpoint}, id : 0 .. MaxRows, got : Answers]

PushTypeOK ==
  /\ device \in [Endpoint -> 0 .. MaxRows] /\ nextRow \in 1 .. MaxRows + 1
  /\ \A d \in Endpoint : device[d] < nextRow
  /\ \A d, f \in Endpoint : device[d] = device[f] /\ device[d] # 0 => d = f
  /\ erred \subseteq {d \in Endpoint : device[d] # 0}
  /\ notify \in [Notifier -> Sending]
  /\ \A s \in Notifier : notify[s].pc \in {"drop", "status"} =>
       notify[s].ep \in Endpoint /\ notify[s].id \in RowIds
  /\ silent \in Nat
  /\ wanted \subseteq Endpoint /\ dead \subseteq Endpoint /\ overtaken \subseteq Endpoint
  /\ blamed \subseteq RowIds

PushInit ==
  /\ device = [d \in Endpoint |-> 0] /\ erred = {} /\ nextRow = 1 /\ silent = 0
  /\ notify = [s \in Notifier |->
        [pc |-> "ready", left |-> {}, ep |-> NoEndpoint, id |-> 0, got |-> "ok"]]
  /\ wanted = {} /\ dead = {} /\ overtaken = {} /\ blamed = {}

Switch(s, pc, left, ep, id, got) ==
  notify' = [notify EXCEPT ![s] = [pc |-> pc, left |-> left, ep |-> ep, id |-> id, got |-> got]]
Silently == silent < MaxSilent /\ silent' = silent + 1
Dropping(d) == \E s \in Notifier : notify[s].pc = "drop" /\ notify[s].ep = d
-----------------------------------------------------------------------------
\* CreatePushSubscription: the upsert clears the error and keeps the id of a row
Upsert(d) ==
  /\ \/ /\ device[d] = 0 /\ nextRow <= MaxRows
        /\ device' = [device EXCEPT ![d] = nextRow] /\ nextRow' = nextRow + 1
     \/ device[d] # 0 /\ UNCHANGED <<device, nextRow>>
  /\ erred' = erred \ {d}

\* HandleRegisterPush
RegisterPush(d) ==
  /\ Upsert(d)
  /\ wanted' = wanted \cup {d} /\ dead' = dead \ {d}
  /\ overtaken' = IF Dropping(d) THEN overtaken \cup {d} ELSE overtaken \ {d}
  /\ UNCHANGED <<notify, silent, blamed>>

\* DeletePushSubscription: by entity and endpoint
DeleteRow(d) == device' = [device EXCEPT ![d] = 0] /\ erred' = erred \ {d}

\* HandleUnregisterPush; it answers the same when the delete fails
UnregisterPush(d) ==
  /\ \/ DeleteRow(d) /\ wanted' = wanted \ {d} /\ UNCHANGED silent
     \/ Silently /\ UNCHANGED <<device, erred, wanted>>
  /\ UNCHANGED <<nextRow, notify, dead, overtaken, blamed>>

\* SendToEntity up to GetPushSubscriptionsByEntity, which has no order
ReadSubscriptions(s) ==
  /\ notify[s].pc = "ready"
  /\ Switch(s, "next", {<<d, device[d]>> : d \in {f \in Endpoint : device[f] # 0}},
            NoEndpoint, 0, "ok")
  /\ UNCHANGED <<device, erred, nextRow, silent, wanted, dead, overtaken, blamed>>

\* sendToSubscription: the answer of the push service; only the status "gone" and the
\* error "DeviceNotRegistered" delete the row
SendPush(s) ==
  LET r == notify[s] IN
  /\ r.pc = "next"
  /\ \/ \E p \in r.left, answer \in Answers :
          /\ Switch(s, IF answer = "gone" THEN "drop" ELSE "status", r.left \ {p},
                    p[1], p[2], answer)
          /\ dead' = IF answer = "gone" THEN dead \cup {p[1]} ELSE dead
          /\ blamed' = IF answer = "ok" THEN blamed ELSE blamed \cup {p[2]}
     \/ r.left = {} /\ Switch(s, "ready", {}, NoEndpoint, 0, "ok")
        /\ UNCHANGED <<dead, blamed>>
  /\ UNCHANGED <<device, erred, nextRow, silent, wanted, overtaken>>

\* what the answer "gone" deletes: the endpoint, although the list may be old
DropGone(s) ==
  LET r == notify[s] IN
  /\ r.pc = "drop"
  /\ Switch(s, "status", r.left, r.ep, r.id, r.got)
  /\ \/ DeleteRow(r.ep) /\ UNCHANGED silent
     \/ Silently /\ UNCHANGED <<device, erred>>
  /\ UNCHANGED <<nextRow, wanted, dead, overtaken, blamed>>

RowsToMark_Mutant(r) == {r.ep} \cap {d \in Endpoint : device[d] # 0}
RowsToMark(r) == {d \in Endpoint : device[d] = r.id}

\* UpdatePushSubscriptionDeliveryStatus: the row of the id, if there still is one
MarkStatus(s) ==
  LET r == notify[s] IN
  /\ r.pc = "status"
  /\ Switch(s, "next", r.left, r.ep, r.id, r.got)
  /\ \/ /\ erred' = IF r.got = "ok" THEN erred \ RowsToMark(r) ELSE erred \cup RowsToMark(r)
        /\ UNCHANGED silent
     \/ Silently /\ UNCHANGED erred
  /\ UNCHANGED <<device, nextRow, wanted, dead, overtaken, blamed>>

Notifies(s) == ReadSubscriptions(s) \/ SendPush(s) \/ DropGone(s) \/ MarkStatus(s)

PushNext ==
  \/ \E d \in Endpoint : RegisterPush(d) \/ UnregisterPush(d)
  \/ \E s \in Notifier : Notifies(s)
PushSpec == PushInit /\ [][PushNext]_pushVars
-----------------------------------------------------------------------------
(* Properties *)

\* A device that registered is subscribed until it unregisters or its service says
\* it is gone, although senders delete by endpoint from lists that are old; only a
\* registration that comes between such an answer and the delete it causes is lost.
RegisteredStays ==
  /\ \A d \in wanted \ (dead \cup overtaken) : device[d] # 0
  /\ \A d \in Endpoint : device[d] # 0 => d \in wanted

\* A row shows an error only if a send to that very row failed, although the status
\* is written after the row may have been deleted and its device registered again.
ErrorIsOwn == \A d \in erred : device[d] \in blamed

SubscriptionKept == RegisteredStays /\ ErrorIsOwn
=============================================================================
