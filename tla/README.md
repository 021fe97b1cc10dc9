# Agent-native IM server: TLA+ models and proofs

These modules model the server of `agent-native-im` (Go, `internal/`, `cmd/server`): a messaging
service whose users are people, bots and services. They are written from the code. TLC checks them
on small instances and TLAPS proves the main safety properties for every value of the constants.

Contents: [inventory](#inventory), [modules](#modules), [runs](#runs), [bounds](#bounds),
[fairness](#fairness), [proofs](#proofs), [what is not modelled](#what-is-not-modelled),
[plan](#plan).

## Inventory

One process serves REST requests (a goroutine per request) and WebSocket connections (two pumps per
connection). State is in PostgreSQL, shared by all requests, and in the hub, which is lost with the
process. **No handler runs in a transaction.** A request is a sequence of single statements, each
committed on its own, each possibly failing, and between any two of them other requests run. That
is where almost every hard behaviour below comes from.

| Component | State | Operations | Interacts with | Hard behaviour | What makes it correct |
|---|---|---|---|---|---|
| WebSocket hub (`ws/hub.go`, `client.go`) | `clients`, `convClients`, `forcedMarked`, counters under `h.mu`; channels `register`, `unregister` (64) | register, unregister, subscribe, disconnect entity or device, presence | handlers call it after their statements; `ReadPump` feeds it | a connection queued for removal several times; a full `unregister`; a registration that carries conversations read earlier; announcements after the lock is released | one removal, one count, no send on a closed channel under the lock, every exit reaches the hub, presence announced is true |
| Membership (`handler/conversation.go`, `invite.go`, `store/postgres/participant.go`) | `participants` rows (role, `left_at`, read mark, settings), `invite_links.use_count` | add, remove, leave with transfer, change role, join by link, mark read | hub subscriptions, friends | check, then act; an heir chosen from a list that is stale; a count incremented after the fact | departed rows stay as they are, read marks only grow, limits and ownership |
| Entity keys and status (`handler/entity.go`, `store/postgres/credential.go`, `handler/ws.go`) | `credentials`, `entities.status`, an in-process mutex per entity | regenerate, approve, delete, reactivate, update, handshake | hub disconnects | rotations that overlap or fail halfway; a handshake checked before a rotation and registered after it; a full-row update | always a key, no revoked key returns, rotations end |
| Messages (`handler/message.go`, `updates.go`, `ws.go`, `store/postgres/message.go`, hub broadcasts) | `messages`; send channels (256); `h.waiters` | send, edit, revoke, broadcast, catch-up, long poll | hub, membership | ids assigned before commit, broadcasts outside every lock, full channels that drop, catch-up beside live delivery, wake-ups racing registrations and timeouts | order per sender, revocations stay, no answer given twice, no wake-up lost, no waiter left behind |
| Friends (`handler/friend.go`) and direct conversations | `friend_requests`, `friendships`, `conversations` | ask, accept, reject, cancel, unfriend, start a direct conversation | membership | both sides ask at once; accept races cancel; accepted but not befriended | consent of both sides, the two tables agree |
| Tasks, change requests, settings (`handler/task.go`, `change_request.go`, `conversation.go`) | `tasks`, `change_requests`, `conversations`, each row written back whole | create, update, delete, hand over; ask for a change, approve, reject | a message may hand a task over; an approval writes the settings | lost updates, two decisions on one request, an answer written over another | a task is completed exactly when its status says so; what was rejected is not applied |
| Files (`handler/file.go`, `message.go`, `auth.go`, `filestore/`) | files on disk, `file_records`, avatar columns | upload, attach to a message, set as avatar, the hourly cleanup | messages, entities | disk and database without a common transaction; a job that decides from what it read at its start; failures and restarts between its two stores; a batch it cannot empty | a record, and an avatar, has its file; garbage goes; a cycle ends |
| Public bot links (`handler/public_bot.go`) | `bot_access_links`, visitors' rows | make, delete, expire a link; open a session | entities, conversations | tested before, counted after; a session half made | sessions within the link's limit, but for those in progress |
| Rate limiting (`middleware/rate_limit.go`) | visitors of one limiter, their tokens | a request takes a token; refill; cleanup of idle visitors | every request | the mutex is given up between refill and take; integer division of time; a visitor dropped while it is held | no more requests than the bucket and the refill allow |
| Reactions (`handler/reaction.go`) | `reactions` | toggle | messages, broadcast | insert, delete, read and broadcast are four steps of each toggle | parity of the toggles; clients show the rows |
| Webhooks (`webhook/deliver.go`, `handler/webhook.go`) | `webhooks`, a goroutine per message | register, delete; deliver with retries | messages, participants; receivers outside | one deadline for all the webhooks of a message, retries and waits inside it | every listed webhook is called, or it is known what took its time |
| Push (`push/sender.go`, `handler/push.go`) | `push_subscriptions`, a goroutine per notification | register, unregister; send, drop a dead device, store the status | notifications; push services outside | a subscription renewed while the goroutine deletes the row it read | a registered device stays subscribed; an error is that of its row |
| Accounts (`handler/auth.go`, `auth_1pass.go`, `auth_external.go`, `entity_identity.go`, `admin.go`) | `entities`, `credentials`, `external_identities` | register, log in by password or 1Pass, link, unlink, set a password, rename, disable, reset | the identity provider outside | two statements that lose the account's only method between them; upserts that race; whole rows written back | an account keeps a way to log in; an old password stops working |
| Notifications, bot memory, feedback, releases, audit | single rows | single statements | all handlers | none that a model adds to | not modelled |
| Bridge bot, web front end | outside the server | | the API | | not modelled |

`PROJECT.json` lists the components with their state of modelling and every hazard at its line.

## Modules

An action is one critical section of a mutex, one channel operation or one SQL statement, with the
checks the handler makes on its result. What a handler read before is kept in the record of its
goroutine and may be stale when it is used. A failed statement is a disjunct or an action that
counts a fault. `Spec` has no fairness; `FairSpec` adds it.

An operator `X_Mutant` stands before the definition `X` of the same parameters. It is `X` with a
plausible slip (a dropped test, a swapped order, a missing reset). No action uses it: put in the place
of `X`, it makes one named property fail, which shows that the property says something about the code.

**Hub**, **HubProperties**, **Presence**, **HubProofs**, **MCHub**. `conn` is where the goroutines of
a connection are (`NewClient`, `Register`, pumps), `fetched` the conversations `Register` read,
`queue` the channel `h.unregister`; `clients`, `convKeys`/`convClients`, `forcedMarked`, and the
counters are the hub's fields. `RunRegister`, `RunUnregister` and `RunAnnounce` are the loop
`Hub.Run`: the last is `broadcastPresence`, made after `h.mu` was released. `RestCreate`, `RestAdd`,
`RestJoin`, `RestRemove` are the statements of the membership handlers, `RestSubscribe` and
`RestUnsubscribe` their later calls of the hub, so that a registration may come between. `Kick*` are
`DisconnectEntity` and `DisconnectDevice`, which mark under the lock and queue outside it. History:
`shown`, the last presence announced; `rest[r].stray`, a removal that named somebody who never took
part. `Presence` is the abstract specification of presence: an entity is online while it has a
connection, a change is announced before the next one, announcements are true, and may be lost only
by a failed read. `HubProperties` maps Hub to it.

**Membership**, **MembershipProofs**, **MCMembership**. The rows of one conversation and a pool of
requests. `InsertRow`, `SetLeft`, `SetRole` are the statements of `participant.go`; `AddCheck`/
`AddInsert`, `RemoveCheck`/`Remove`, `LeaveCheck`/`LeaveList`/`LeaveTransfer`, `RoleCaller`/
`RoleTarget`/`RoleUpdate`, `JoinRead`/`JoinCheck`/`JoinInsert`/`JoinCount` the handlers around them.
History: `admitted`, whom the invite link let in.

**EntityKeys**, **ServicesProofs**, **MCEntityKeys**, **MCServices**. One entity. Keys are numbered in the order they
are issued. `Regenerate`, `LockRotation`, `Issue`, `Revoke`, `Disconnect` are
`regenerate-token` with the per-entity mutex; `Fails` ends a request at any statement and gives the mutex
back (the deferred unlock). `Approve` only adds a key and pushes it to the connected entity: it takes no
mutex, revokes nothing and disconnects nobody. `DeleteEntity`, `ReactivateCheck`/`Reactivate` and
`UpdateRead`/`UpdateWrite` change the status. `ConnResolve`, `ConnAdmit`, `ConnRegister` are the handshake
of `HandleWS`, which checks the key, then the status, and registers later. History: `rotated`, the last key whose rotation
revoked the others.

**Messages**, **Feed**, **MessagesProofs**, **MCMessages**. One conversation with fixed participants.
A `Sender` is a goroutine that handles one request after another: `Insert` takes the id from the
sequence and `Commit` makes it visible (a failed insert leaves a gap); `ReadForChange`,
`EditWrite`, `RevokeWrite` are edit and revoke, a read and a later write. `Snapshot` is what a
broadcast reads and whom it lists: the failure of `GetConversation` or `ListParticipants` is only logged,
so `read` says what could be read, `Wants` filters by that (in an empty list nobody is a user, and a bot has
the default mode), and the connections are copied under the lock. `SendTo` puts into each send channel
outside it (a full one drops), `SendPanics` is the send on a channel that was closed meanwhile, which ends
the request before the long polls are woken; `Announce` wakes the participants that were read, nobody when
none could be. A connection has `Connect`, `Subscribe` (the moment
`Hub.Run` handles it), `Close`, `Write` (the pump empties a slot) and the catch-up goroutine
`CatchUpQuery`, `CatchUpSend`, `CatchUpEnd` beside it. A long poll has `PollQuery`, `PollRegister`,
`PollWake`, `PollGivesUp` (timeout, client gone), `PollUnregister`. History: `log[c]`, what was put
in a channel; `announced`; `poll.times`, how often a poll was given a message; `poll.before`, what
was announced between a poll's query and its registration. `Feed` is the abstract specification of
long polling: messages are stored in any order of their ids, and an answer is all that is readable
behind the reader's mark up to some later id. `Lacks(c)` is what a reconnected connection is to be
sent and will not be: nobody has it in hand any more.

**Friends**, **FriendsProofs**, **MCFriends**. `AskCheck`, `FindMine`, `FindReverse`, `Insert` are
`HandleCreateFriendRequest`: three reads, whose failure counts as "not found", and an insert that a
unique index guards. `AcceptRead` and `ResolveRead` are what the three other handlers test,
`WriteStatus` their unconditional full-row update, `Befriend` the insert of the friendship.
`TalkCheck`, `FindDirect`, `CreateConversation`, `AddCreator`, `AddPeer` create a direct conversation;
`Depart` and `Join` are what Membership does to its participants. History: `agreed`, who asked or
accepted whom; `befriended`, pairs that ever were friends; `missing`, pairs whose friendship was
deleted or could not be stored.

**Accounts**, **AccountsProofs**, **MCAccounts**. Rows of users, credentials and 1Pass identities, and a pool of
requests. `WriteRow` is `UpdateEntity`, which writes the whole row as the request read it.
`RegisterCheck`, `Register`, `RegisterPassword` are registration; `OnePassLogin`, `LoadEntity`,
`FindByName`, `Touch`, `Enroll`, `Upsert`, `InsertIdentity`, `LoadWinner`, `ReloadIdentity`,
`OnePassAnswer` the login through 1Pass, with the upsert of the identity and the loser of its race;
`Link`, `UnlinkCheck`, `Unlink` the identities; `PasswordRead`, `FirstName`, `Rename`, `FirstCreate`,
`ChangePassword` the passwords; `UpdateRead`/`UpdateWrite`, `Disable`, `ResetPassword` the profile and
the administrator. `Fails` ends a request at any statement. Any name may be registered, one that the 1Pass
login derives from a subject too (`Prefixed`, `NameOf`): the login then finds the registered row by its name,
possibly before the registration has stored its password. History: `doubled`, accounts whose first password
two requests set at once (a registration is one); `raced`, `stranded`, `retired`, which the properties name.

**Files**, **FilesProofs**, **MCFiles**. `disk`, `record` and `avatar` are three stores. `Save`,
`StoreRecord`, `Discard` are an upload, `ReadRow`/`WriteRow` the avatar in the row of an entity (one of the
form `/files/<stored name>`; absolute URLs and the like are kept as they come, and no file of the store to the
cleanup). `AttachCheck`/`Bind` is an attachment of `HandleSendMessage`; `AttachOverSocket` that of
`Hub.handleSend`, which tests and binds nothing, so `sent` keeps by which door a message came.
`sweep` is the cleanup goroutine: `StartSweep` reads the cutoff and the avatars, `FetchBatch`, `KeepAvatar`, `RemoveExpired`, `ForgetExpired`, `EndBatch` are the loop over expired
records, `ListNames`, `ListAvatars`, `ReadDir`, `RemoveOrphan`, `EndSweep` the scan for orphans. `Restart`
loses everything but the stores. History: `missed`, `halved`, `late`, `contested`, the windows the
properties name.

**Work**, **ServicesProofs**, **MCServices**. Tasks, settings and change requests: a read into
`edit[w].copy` and a full-row write (`ReadTask`/`WriteTask`, `FetchSettings`/`SaveSettings`), a delete
that a stale write may follow, and the decision on a change (`ReadChange`, `Resolve`, then the settings).

**PublicBot**, **ServicesProofs**, **MCServices**. `ReadBot`, `CheckLink`, `Build` (the four inserts of
a session, `Built` saying how far it is), `CountUse`; the owner's `CreateLink`, `DeleteLink`,
`ExpireLink`, `ChangeBot`. History: the sessions opened and those whose count failed.

**RateLimit**, **ServicesProofs**, **MCServices**. One limiter. `GetVisitor` and `NewVisitor` are the
first critical section with its refill, `Refuse` and `Let` the second, `Forget` the cleanup of idle
visitors, `Tick` the clock. History: `granted`, when each visitor was let through.

**Reactions**, **TrafficProofs**, **MCServices**. `AddReaction` (the insert and whether it found the row),
`RemoveReaction`, `FetchReactions`, `BroadcastReactions`. History: `odd`, who toggled an odd number of
times; `crossed`, whose own toggles overlapped; `outdated`, who holds a list that a later one overtook.

**Webhooks**, **TrafficProofs**, **MCServices**. `delivery[m]` is the goroutine of a message with its own
clock: `ListWebhooks`, `NextWebhook`, `WaitForRetry` (the select between the wait and the end of the
context), `CallWebhook` (an answer, a failure, the client's timeout, or an expired context). The receivers
are external and answer anything at any time within the timeout. History: `refused`, `accepted`, `turn`.

**Push**, **TrafficProofs**, **MCServices**. `RegisterPush` (an upsert by endpoint that keeps the row's
id), `UnregisterPush`; `ReadSubscriptions`, `SendPush`, `DropGone` (by endpoint), `MarkStatus` (by id) are
the goroutine. History: `wanted`, `dead`, `overtaken`, `blamed`.

Modules do not share state. Where two meet, each has its own copy of what it needs from the other:
Hub has the state of a participant's row, Messages the set of subscribed connections, Friends the
participants of a direct conversation. They agree on the statements (`InsertRow` is the same
`ON CONFLICT DO NOTHING` in Hub and Membership).

## Runs

| Run | Question | Result |
|---|---|---|
| `hub_connections` | Connections come, leave and are kicked through an `unregister` of one slot; or registrations race additions and removals | no table holds a closed connection (`SendersOpen`); nothing closed twice (`NeverReopened`); Hub implements Presence (`ImplementsPresence`); every exit and every kick reaches the hub (`ExitedIsRemoved`, `KickedIsGone`); a connection keeps the conversations its registration read while its entity takes part (`FetchedStaysSubscribed`), with one exception: a removal of somebody who never took part changes no row, and its late `UnsubscribeEntity` undoes an addition that overtook it |
| `membership_races` | Requests read, wait and write | rows of the departed are never touched (`DepartedFrozen`), `use_count` overruns `max_uses` by less than the number of concurrent requests (`OverrunBounded`), and once ownerless, always ownerless (`OwnerlessForever`) |
| `membership_leave_race` | "Transfers ownership if the owner leaves" (`docs/api-reference.md:653`) | **violated**: the heir departs between the list and the transfer |
| `keys_sessions` | "all active WebSocket connections for the entity are disconnected" (`docs/bot-api.md:504`) | **violated**: a handshake that resolved the old key registers after the disconnect |
| `messages_feed` | Two requests at a time against a reconnecting connection with a full channel, or against two polls | one goroutine's messages arrive in its order (`SenderOrder`), long polling implements Feed (`ImplementsFeed`), `h.waiters` is exact (`WaitersMatch`), the only wake-ups lost are those between a poll's query and its registration and those of a broadcast that panicked or could not read the participants (`SleepsOnlyWhen`), what a reconnected client loses it loses in one of five ways (`LossExplained`), revocations stay (`RevokedStays`) |
| `messages_reconnect` | "No message loss" on reconnection (`test-cases.md:920`) | **violated**: a message stored after the catch-up query and broadcast before `Hub.Run` subscribed the connection |
| `friends_pair` | Two entities ask, accept, cancel and unfriend at once | nobody is befriended without having asked or accepted (`Consented`), status and resolver match (`ResolverMatches`), accepted means befriended unless a failure or a deletion explains it (`AcceptedBefriends`), direct conversations need friendship or an open side (`TalkNeedsFriends`) |
| `accounts_methods` | Registration, both logins, linking, passwords and administration on the same rows | an account has a way to log in unless two removals met or a statement failed halfway (`LoginRemains`); a replaced password no longer works unless two requests set the first one at once, of which one may be the registration (`PasswordReplaced`) |
| `files_sweep` | Uploads, avatars and attachments beside the cleanup, with failures and restarts | a record has its file (`RecordHasFile`), an avatar has its file unless set during a cycle (`AvatarHasFile`), what REST attached is bound, whatever WebSockets attach besides (`AttachmentBound`), and garbage is removed in the end (`GarbageGoes`) |
| `files_loop` | "It runs once after startupDelay, then repeats every interval" (`filestore/cleanup.go:13`) | **violated**: a batch full of expired avatars is fetched for ever |
| `services` | Seven components that share nothing, one per behaviour | keys: always a key (`AlwaysHasKey`), and every rotation is answered (`RotationEnds`); tasks: completed exactly when the status is final (`CompletionMatches`); changes: no rejected change is applied unless two decisions overlapped (`DecisionStands`); public bots: `SessionsWithinLimit`; rate limit: `BudgetKept`; reactions: parity and display (`ReactionsMatch`); webhooks: `EveryWebhookAccounted`; push: `SubscriptionKept` |
| `rate_refill` | "3 login attempts per minute" (`middleware/rate_limit.go:175`) | **violated**: one token per whole interval, so after the first burst one request per minute passes |

Deadlock is not checked: nothing obliges clients to send requests, and the bounds below end every
behaviour. What must go on is stated as liveness instead.

Not stated because the code does not have it: two friend requests in opposite directions may both
stay pending, a cancelled request may become accepted when both sides resolve it at once, and a pair
may get two direct conversations. Friends has all these behaviours. Two more things a comment or a
message claims fail in steps the modules have, without a run of their own: a join beyond `max_uses`
(`invite_test.go:267`; `OverrunBounded` is what is left of it), and a disabled entity that an update of
its whole row, read before, makes active again (`entity.go:447`).

## Bounds

- Hub: three connections, two of one user on two devices, one disconnect call, one slot in
  `unregister` (64 in the code) so that it is full whenever two want it, one failed read. For
  subscriptions: a connection for each of two users, two requests on one conversation.
- Membership: three entities (an owner, an heir, and somebody to be left behind), two requests, one
  fault, `max_uses` 1, so the second join already overruns.
- EntityKeys: two requests, one connection, one fault, `MaxKeys` 5 keys issued for the rotations (in
  `services`) and 2 for the refutation.
- Messages: two senders of one user, `MaxIds` 2, `MaxChanges` 2 edits or revocations, channels of one
  slot (`BufferCap`), pages of one message (`PageSize`, 200 in the code), one bot with one
  connection or two polls. Recipients of the two kinds only meet in the senders, so `side` takes one
  kind per behaviour, with one change on the side of the connections. The bot subscribes to all, so that it
  is left out of a broadcast that could not read its mode. The reconnect run has one sender, four ids, a
  channel of four slots and no failures, so that neither a full channel, nor a short page, nor a failure explains the loss.
- Friends: one pair in both directions, a third entity that joins a conversation, two requests, two
  rows, one conversation, one fault. Rows of different pairs never meet in a statement.
- Accounts: two accounts, two subjects with their own names and one name besides, two
  credential and two identity rows, two requests, one fault. A behaviour is about identities, passwords or
  whole rows (`about`); faults only where an account may lose its methods. Where it is about methods, the
  registration is of a name that a 1Pass login derives, and of the first account; other names are
  registered where it is about whole rows.
- Files: three names on disk, two users, two conversations, two requests beside the cleanup, batches of
  two (one where the loop is refuted), one failure and one restart. A behaviour has avatars, attachments
  (by both doors) or failures.
- Services: `about` says which component a behaviour is about. Tasks and settings: one row, two people, two
  editors, one failed write. Public bots: one link of one use, two servers, three visitors, one uncounted
  session. Rate limit: one client, three visitor objects (so that a dropped one may still be held), two
  requests, limits of 1 and 2, an interval of 2 ticks, idle after 3, four ticks (five in `rate_refill`).
  Reactions: two people, two toggles at a time, one failed read or delete. Webhooks: one message, one
  webhook of one participant and two of another, one sender, in units of five seconds (waits 0, 5 and
  25 s as 0, 1, 5; 60 s deadline as 12; a timeout of 10 s as 2); rows change only until the list is read,
  since the goroutine does not look at them again. Push: two endpoints, one goroutine, three row ids
  (so that a deleted endpoint comes back under a new id), one silent failure.

Each hazard takes two actors and at most one fault, and the theorems below remove the bounds for the
safety properties. In every passing run each action and each disjunct of `Next` is taken.

## Fairness

`Hub!Fairness` is weak fairness of `Hub.Run`, of a ReadPump's deferred `h.unregister <-`, of a
disconnect call's loop, and of the end of a pump whose channel was closed (WritePump closes the
socket and the read fails). All of them are goroutines that nothing stops; a send on a full channel
is a guard, so weak fairness says only that it goes through if it stays possible, and
`Hub.Run` never blocks. No client is obliged to connect or disconnect. `EntityKeys!FairSpec` is weak
fairness of the next statement of a request and strong fairness of acquiring the mutex, because Go's
`sync.Mutex` hands itself over to a goroutine that has waited (starvation mode). `Files!FairSpec` is weak
fairness of the cleanup goroutine alone, which a ticker starts again for as long as the process lives;
a restart begins a new one. The other modules have safety properties only.

## Proofs

All theorems hold for any number of connections, entities, requests, keys, rows, and any capacities,
from the named assumptions on the constants that stand in each module.

- **HubProofs**. `TableInv`: a connection in a table of the hub is in `clients`, has an open channel,
  and its goroutines are past registration. It is needed because `UnsubscribeClient` walks the whole
  table while `RunRegister` fills it from a stale list. With it: `HubTables` (types, `SendersOpen`,
  and `AnnouncementIsTrue` through the invariant of `run`), `HubNeverReopens`, and
  `HubImplementsPresence`, step by step: critical sections of `Hub.Run` map to `Connect` and
  `Disconnect`, `RunAnnounce` to `Announce` or `Lose`, everything else stutters. `CountInv` ties the
  counter to the set of closed connections (`HubCountsDisconnects`); `SubscriptionInv` says where
  each request stands that could undo a subscription (`HubSubscriptions`).
- **MembershipProofs**. Types with `RequestOK`, what a handler has tested before its statement runs:
  a request that adds or promotes never names the owner. From it `MembershipDeparted`,
  `MembershipReadMarks` and `MembershipOwnerless` as step properties. `CountInv` adds the joins that
  passed the test and have not counted yet to `use_count`; only so is the overrun inductive
  (`MembershipInvites`). `MembershipFirstOwner`: a role change tests its target's role, waits and writes, and
  an heir promoted in between is demoted by it; who was the owner from the start never is.
- **MessagesProofs**. `MessagesInv` joins the rows (`RowsInv`), the polls (`GivenInv`: a message given
  twice would have an id above the offset; `WaitersMatch`; `TokenInv`: a registered poll without a
  token has seen or excused everything announced) and the order (`LogsBehind`: what a goroutine sent
  before is below the id it is about to send). Theorems: `MessagesTypes`, `RevocationsStay`,
  `PollsAnswerOnce`, `WakeUpsNotLost`, `SendersAreOrdered`. `MessagesImplementFeed` maps the steps to
  Feed: a commit to `Store`, a revocation to `Withdraw`, an answer to `Give`, everything else to a
  stutter. It rests on `PageIsPrefix`: a page of the lowest ids leaves out nothing below its largest, by
  cardinalities of finite sets, so a page limit loses nothing. `PollsMissOnlyLate` concludes, on Feed, that
  a loop passes a message over only if it was stored when the loop was past its id: inserts that commit out
  of order are the one way. `LossesExplained` is the same for a reconnected connection: `Coming` says in
  whose hands a message is (a sender's, the catch-up's, the channel), and each step that takes it out of
  them without putting it in the channel is one of the five. TLC finds each of the five necessary.
- **FriendsProofs**. `RowsInv` and `CallsInv`: a row in use carries the consent of its source, an
  accepted one that of its target, a call about to befriend that of both, and `CallOK` (in the types)
  keeps a stale call tied to the row it will overwrite. Theorems: `FriendsTypes`, `FriendsSafe`.
- **FilesProofs**. `UploadInv`: the name an upload has given is used by nobody else. `SweepInv`: what the
  cleanup has read still covers the avatars and the records, but for those that came since. `BindInv`: a
  binding that was found possible still is, or is contested. Theorems: `FilesTypes`, `FilesRecords`,
  `FilesAvatars`, `FilesAttachments`.
- **AccountsProofs**. `LoginRemains` is not inductive: an unlink tests that another method exists and deletes
  later. `UnlinkInv` says the test still holds when the delete runs, or that two removals raced.
  `HoldsRow` (in the types) ties the row a request will write back to a row the account
  had. For passwords, `FirstInv`: who is about to set a first password, the registration that has stored the
  row included, still finds none, or it is being set twice; then `OneRow`, one row of credentials per
  account, makes `PasswordReplaced` inductive. No name is assumed to be kept from registration. Theorems:
  `AccountsTypes`, `AccountsLogin`, `AccountsPasswords`.
- **ServicesProofs**. Keys, `KeysInv`: who is between lock and return holds the mutex, and the key it
  carries is in the table and the youngest; `EntityKeysSafe` follows. `EntityKeysOutlived` is what is true in
  place of the claim `keys_sessions` refutes: no connection takes a key after its revocation, and one that
  outlives it registers after the disconnect, so only handshakes that the rotation overtook stay open. Their
  test of the status may come anywhere between. Work: a copy read from a task is itself consistent, so
  whichever write is lost the row is (`WorkCompletion`); `WorkDecisions` ties each rejected change to the requests that may still apply it;
  `WorkDeleted` is a step property. RateLimit: tokens left and requests granted together stay within the
  bucket and one token per interval since the visitor was made, on integers with division
  (`LimiterBudget`). PublicBot: the link's count, the sessions in progress and the uncounted ones bound
  the sessions opened (`PublicSessions`), counting in the finite set of servers.
- **TrafficProofs**. Reactions: who is about to remove the reaction, alone, will find it; while nobody is
  about to read, the latest list read is the rows (`ReactionsMatched`). Push: a goroutine about to delete a
  row holds an endpoint reported gone or registered meanwhile (`PushSubscriptions`). Webhooks: `Calling`
  bounds the clock by the failures so far, `Share(n)` being what `n` webhooks with one failure each take at
  most; `WebhooksAccounted` holds for any list, schedule, timeout and deadline.

Proved and not run (TLC agrees; the runs hold what is sharper): `AnnouncementIsTrue` (part of `HubTables`),
`HubCountsDisconnects`, `MembershipReadMarks`, `MembershipFirstOwner`, `PollsMissOnlyLate`, `EntityKeysOutlived`,
`WorkDeleted`. The types of the seven components of `services` are proved with them and not
checked by that run.

Only model-checked: the liveness properties (`ExitedIsRemoved`, `KickedIsGone`, `RotationEnds`,
`GarbageGoes`), which TLAPS does not reach, and the refutations.
The proofs speak of the modules; that the modules are the code rests on `PROJECT.json`'s map from definitions to lines.

## What is not modelled

- Relays without state: typing, `task.cancel`, `stream.*`, `status.update`, and the events that tell
  clients of a change.
- The text of messages, mentions by name, search, lists: data that no property distinguishes.
- Notifications and bot memory: one statement each, an insert, an upsert or an update whose condition makes
  it idempotent; reports, feedback, releases and the audit log likewise. The goroutine that a notification
  starts is in Push.
- Archiving, pinning and listing conversations: single statements on the caller's own row.
- `DeleteAllPushSubscriptions`, which nothing calls.
- Restarts, except of the cleanup (Files): the database is the only state that survives, and no other
  goroutine resumes; a crash is a request that ends at a statement, as a failure does.
- Several server processes: hub, mutexes and buckets are per process, the code assumes one.
- Sessions as such (stateless tokens); the schema's migrations; configuration and wiring at start.
- Ownership in a direct conversation and who may add whom there: Membership has it; Friends lets anybody
  leave or be added.
- The bridge bot and the web front end: clients of the API.

## Plan

Done: Hub, Membership, EntityKeys, Messages, Friends; then Work, PublicBot, RateLimit, Files, Accounts,
Reactions, Webhooks, Push, Feed, and the proofs about each. Next:

1. Composition: Membership's rows as the subscriptions of Messages, so that removal and delivery meet.
2. What a join beyond `max_uses` and a stale update of an entity's row leave true, as theorems.
