# Vellum backend: a TLA+ model

Vellum's backend (`src/src`, TypeScript, Postgres through Prisma) stores collaborative documents as
append-only operation logs. Clients edit offline, push batches of operations over HTTP or a WebSocket,
pull what others pushed behind a cursor, and see each other's edits and carets through a realtime
relay. The server runs no CRDT: what it owes its clients is *order* (one gapless number per operation
and document), *exactly-once* storage under retries, and *delivery* of everything after a cursor.
These modules say what that means, model the code that provides it at the granularity of its awaits,
check the models with TLC and prove their main invariants with TLAPS.

Line numbers below are of the repository's files. `PROJECT.json` maps every definition to the lines it
models, lists the runs, and lists for every hazard the property that watches it.

## Inventory

| Component | State | Operations | Interacts with | What makes it hard, what makes it correct |
|---|---|---|---|---|
| Commit pipeline (`operation.repository.ts`, `sync.service.ts`, `database/client.ts`) | `documents.serverSeq`, `operations`, advisory locks, pool | `push`, `commitBatch`, `touchSession` | called by route and socket; calls authorize, limiter, broadcaster | pushes interleave at every await, die, deadlock on the primary key; the log must stay gapless, a retry must commit nothing twice, acknowledgements must be true, the lock must not leak |
| Push/pull routes, idempotency keys (`sync.routes.ts`, `idempotency.repository.ts`) | `idempotency_keys` | find, push, store, reply, expire, collect | wraps the pipeline | concurrent attempts with one key, crash between commit and store, stale keys; every answer must be true and retries must agree |
| Pull, sessions, cursors (`operation.repository.ts`, `sync.service.ts`) | `sync_sessions`, client cursors | `pull`, `touchSession` | reads the log and `snapshotSeq` | counters and page read apart, concurrent pages, lost answers, 410; no cursor may pass an operation the client lacks |
| Versions, snapshots (`version.repository.ts`) | `versions`, `documents.snapshotSeq` | create, list, get, `latestSnapshot` | moves the watermark pull compares with | late and concurrent uploads, false claims; the watermark must have a snapshot |
| Realtime relay (`collaboration/`) | rooms, connections, presence | connect, join, leave, ops, presence, ping, close | calls `authorize`, `pull`, `push`; receives broadcasts | join subscribes between awaits, sockets die at any moment, broadcasts race the catch-up; rooms must agree, an answered join must miss nothing, the dead must leave |
| Documents (`document.repository.ts`) | `documents` | create, rename, softDelete, restore, list | invisible once deleted | deletion races a commit and every authorized handler |
| Authorization (`access.repository.ts`, `types/actor.ts`) | `collaborators` (read) | `authorize` | used by everything | the role is read before it is used; it must not be older than the request |
| Collaborators (`collaborator.repository.ts`) | `collaborators` | list, changeRole, remove (invite has no route) | owner column of documents | the owner's row must stay, self-removal |
| Invitations (`invitation.repository.ts`) | `invitations` | create, resend, revoke, preview, accept, decline | writes collaborators | overlapping answers to one invitation, forwarded and stale links; roles only as offered, to whom they were offered |
| Rate limiting (`rateLimit.repository.ts`, middleware) | `rate_limits` | consume, collect | in front of every route, push and the AI | late upserts at window boundaries; nobody refused for an earlier window, a bounded number of grants |
| Registration, login, codes (`auth.routes.ts`, `otp.service.ts`, `password.service.ts`) | users, verification tokens | issue, consume, register, login, OAuth, reset | email | read-compare-count in separate statements; only what was right is accepted, tries and codes are bounded |
| Access tokens (`token.service.ts`, `auth.middleware.ts`) | none | sign, verify | every route | none: stateless |
| Start-up, shutdown, collectors (`main.ts`, `server.ts`) | timers, servers | listen, gc, shutdown | all | a drain that must end, and a clean exit that leaves nobody waiting |
| AI assistant (`ai/`) | usage rows | stream | limiter | many ways to end; one closing chunk and one account each |
| Errors (`error.middleware.ts`, `errors.ts`) | none | map an exception to an answer | every route | a lost confirmation must be retryable |
| Email, configuration, logging, schemas | none | | | pure I/O, read once, or data |

`syncService.recordFailure` (`sync.service.ts:173`) has no caller in the repository: the dead-letter
table that `/sync/failures` lists is never written, so there is nothing to model in it.

## Modules

| Module | What it is |
|---|---|
| `SyncLog` | the abstract specification: per document an append-only sequence of operation ids; a push appends, in one step and at most once, exactly those of its operations that no document stores, in the batch's order, or does nothing |
| `CommitLog` | the pipeline, one action per await, and its refinement of `SyncLog` (`Abstract`, with the log of a document read off its rows by slot) |
| `MCCommitLog` | instances |
| `CommitLog_proofs` | theorems about `CommitLog` |
| `PushRoute`, `MCPushRoute`, `PushRoute_proofs` | the push route with its keys, over the pipeline as one step (as `SyncLog` allows) |
| `Relay`, `MCRelay`, `Relay_proofs` | one process's sockets, hub, joins, presence, heartbeat and broadcasts |
| `Replica`, `MCReplica`, `Replica_proofs` | pulls, sessions, versions and snapshots of one document, and the cursors of its replicas |
| `Sharing`, `MCSharing`, `Sharing_proofs` | one document's owner, collaborators and invitations, and every handler that is authorized by them or changes them |
| `Accounts`, `MCAccounts`, `Accounts_proofs` | one address: its user row, its one-time codes, and the handlers of `auth.routes.ts` |
| `RateLimit`, `MCRateLimit`, `RateLimit_proofs` | the fixed-window rows, the limiters a request passes in turn, and their collection |
| `Server`, `MCServer`, `Server_proofs` | one process: the gates of a request, pushes and AI streams that fail at their awaits, clients that leave, and the drain |

Definitions named `Mutant...` are plausible bugs of the definition that follows them: each property is
known to fail when its mutant takes that definition's place. They are used nowhere else.

### CommitLog

A request is a process with a program counter. `Submit` is the schema of its transport, `Authorize`
the role lookup, `Consume` the budget, `Begin` to `Commit` the transaction of `commitBatch`
(connection, `pg_advisory_xact_lock`, the read of `serverSeq` and `deletedAt`, the dedupe query, one
row of the `createMany` at a time, the counter update, COMMIT), `Relay` the broadcast and the answer,
`TouchSession` the update that nobody awaits. The rows a transaction has inserted are in `rows[r]`
until `Commit` moves them to `operations`: that is what READ COMMITTED hides. A unique index refuses
a key that is committed (`UniqueViolation`) and waits for one an open transaction holds (`Blocked`).
`TransactionFails` stands for time-outs, lost connections and deadlock victims, `CommitUnconfirmed`
for a COMMIT whose acknowledgement is lost, `Crash(i)` for the death of a process. `SoftDelete` and
`Restore` take no advisory lock, as in the code; they only wait for the row lock of an update.
Authorization, budget and session update are single statements, each of which needs a connection of
the pool that transactions are using up (`HasConnection`); the first two may also fail before the
transaction begins (`BeforeTransaction`), which ends the push with nothing done.

Not in it: what an operation says (an id is enough), the rate limiter's arithmetic (it may refuse any
push; see `RateLimit`), roles that change (see `Sharing`, where a push is one of the handlers).

### PushRoute

Attempts are processes: `Find` (with the mismatch and replay answers), `Authorize`, `Push` (or its
failure, refusal, or a commit that could not be confirmed) and `Store`/`StoreFails`, then `Reply`.
`ChangeAccess` lets any user lose or gain the right to write at any moment, between a push and its replay
too; `authorized` is the history of who was looked up and allowed. `Lose` drops an attempt anywhere. A
record keeps the user and the body whose hash was stored; equal bodies stand for equal hashes. `Expire` is
a lookup's view of a record past its 24 hours, `CollectGarbage` its deletion. Until then the insert of a
new response hits the primary key, which the route swallows.

### Relay

A connection's life is `unborn → open → closing/terminated → closed`; a `terminated` socket's close event
is still due. `Remove` is `hub.remove` with its leaves and presence frames. A join is three awaits:
`Authorized` subscribes after the first (`hub.join` comes before the catch-up), `JoinPull` reads the
counter, `JoinReply` answers; `JoinRefused` and `JoinFails` end it anywhere. A commit puts its operation
in `outbox` and `Broadcast` takes it out, in any order, because the code broadcasts after the commit and
outside its lock; `CommitSilently` is another process's commit, which this hub never hears of. The
operation queued is the new one (`Fresh`), unless a known one follows it in its batch: then the known one
is queued again and the new one is marked `unrelayed` (`Misplaced`; see the divergences). The known one is
taken to be of the same document. `Sweep` is one firing of the heartbeat. `PeerVanishes` cuts a peer off
without a frame. `answered`, `told`, `got` and `shown` are what clients have been sent. A process's
restart is `Init`: the hub keeps nothing.

### Replica

A slot stands for its operation, so the log is `1..serverSeq`. A pull is `Pull` (the client's cursor),
`ReadDocument` or `ReadGone` (first statement, with the 410 test), `ReadPage` (second statement, one
row more than a page), and `ReceivePage` or `CallFails`; a client that was turned away asks for
`ReadSnapshot`. A version is created in two awaits, `CheckVersion` and `WriteVersion`. The client is
not in the repository and is modelled from how the server expects to be used (external in the map):
its cursor moves over what it pulls, and it uploads what it has at its cursor, or, mistaken, claims a
position beyond the log. A false claim *within* the log cannot be told apart by the server, which
never reads a snapshot's content; it is outside the model.

### Sharing

A handler is a process: it arrives, is authorized (`Authorize`, `FindDeleted`, or `FindInvitation` by
a link's token), may check once more, and then writes, each in its own step because each is an await.
`view`, `push` and `admin` stand for every read, every edit, and what a manager may do without
touching these tables. The writes are the statements of the repositories: the upsert of an invitation
gives a new token and makes the row PENDING whatever it was; `Resend` gives a new token whatever the
status has become; `Accept` and `Decline` write the row they have read, by its id, whatever has
happened to it since. An address is the user it belongs to, so a forwarded link is a token in the
hands of another user. `offered` records what owners have given an address, and `could[k]` whether the
request `k` was, in some state since it arrived, one its author could make: `Entitled` asks that of
the present state in one step, `DoneWasAllowed` compares.

Audit rows are written in statements of their own after the change and are left out.

### Accounts

The same shape for one email address. `issueOtp` is `CheckCooldown`, `DropCodes`, `MintCode` and the
caller's `Mail`; `consumeOtp` is `ReadCode` and then `CountAttempt` or `ConsumeCode`, which fail when the
row has been deleted since it was read. A code is its position in the order of creation, equal HMACs are
equal codes, and a mistyped code is `NoCode`. `Age` ends a code's cooldown and then its life. A client can
type any code there is: one it was not mailed, it guessed.

### RateLimit

`Stamp` reads the clock of the request's process, which may be up to `MaxSkew` ticks behind `now`, the one
furthest ahead, and `Consume` is the one upsert, which comes no later than `MaxDelay` ticks after the time
it carries. `Count` is the statement alone: it may also fail (`ConsumeFails`) or be carried out with its
answer lost (`ConsumeUnanswered`). A request has a `size`, the operations it carries, which the statement
does not look at. The row after it (`Upserted`) follows the SQL: the count restarts only when the row's
window is older than the caller's, while the row takes the caller's window in any case. A request passes
the keys of its path in order, as `ipRateLimit`, `actorRateLimit` and the budgets of `sync.service` and
`ai.service` do. `CollectGarbage` deletes rows older than `Retain`. `counted`, `granted` and `late` are
history: a key's upserts, told apart by the time of their clock and a number, those that were allowed,
and, for each window, how many upserts moved the row back out of it (`MovedBack`).

### Server

A request goes through the gates in the order of their registration (address budget, body, token, user
budget, schema), then through a push or a stream. An answer is a code; `effect` says that a batch is
committed, whoever was told. A stream's checks fail inside the stream, its chunks are sent unless its
reader was seen to leave (`Leave` with `told`; whether Node's close event reaches the listener is left
open), and `Ends` is the generator's `finally`, whose row `WriteHistory` writes or loses later. `TurnAway`
is Fastify's own 503 to a request that arrives on a kept-alive connection during the drain, and `Upgrade`
the start of an upgrade whose token is verified across an await (`wsServer.ts:55-93`), so that a socket
may open after the drain has begun. `Shutdown` is any of the four events of `main.ts:94-111`, `Close` the
end of `app.close()`, which waits for connections with an answer due and for upgraded sockets, `ForceExit`
the 15-second timer, `Kill` and `Restart` the process manager's.

## Runs

| Run | Instance | Shows |
|---|---|---|
| `commit_two_docs` | 2 pushes on one process with 2 connections, 2 documents, the ids `a`, `b` in both orders, a repeated id over each transport, a viewer, an outsider, fair | `TypeOK`, `LogWellFormed`, `LockHeldByOpenTransaction`, `AcksMatchLog`, `ImplementsSyncLog`, `EveryPushEnds` |
| `commit_one_doc` | 3 overlapping pushes of 2 owners, two of them sharing a one-connection pool | `SlotNeverContended`, `RetryNeverConflicts`, `RelayOfLeadingRetry` |
| `push_route` | 3 attempts, a writer and a reader, 2 keys, bodies `{x}` and `{x, y}`, rights that change | `TypeOK`, `AnswerMatchesBody`, `OnlyAuthorizedAnswered`, `RetriesAgree`, `StoredResponseStable` |
| `push_replay` | the same | *violated*: `ReplayedToWriters` |
| `relay_join` | 1 connection that may fail, vanish, or pong late; 2 commits | `TypeOK`, `NoGapAfterJoin`, `GoneByNextSweep` |
| `relay_rooms` | 2 connections, carets | `RoomsConsistent`, `PresenceShown` |
| `relay_gone` | 1 connection, fair | *violated*: `GoneLeavesRooms` |
| `replica` | 2 replicas with a call each, one of them with a session, pages of one, 2 operations, one version upload at a time, fair | `TypeOK`, `NoSkippedOps`, `LastPageReachesDocumentSeq`, `WatermarkHasSnapshot`, `EventuallyCaughtUp` |
| `sharing` | 2 overlapping requests, 3 users (an owner, an invitee, a third), one token per address | `TypeOK`, `OneOwner`, `RoleWasOffered`, `DoneWasAllowed` |
| `accounts` | 2 overlapping requests, 2 passwords, a cap of 1 try, up to 3 codes | `TypeOK`, `AcceptedWasRight`, `AttemptsBounded`, `FewLiveCodes` |
| `rate_limit` | 2 requests through 2 keys (the user's requests, then a budget), windows of 2 ticks, clocks a tick apart, upserts up to 2 ticks late | `TypeOK`, `RefusedWasOverBudget`, `GrantsBounded` |
| `server` | 2 requests, 1 socket, fair timer | `TypeOK`, `NobodyWaitsAtCleanExit`, `EffectIsNeverDeadLettered`, `StreamAccounted`, `ShutdownEnds` |

A thirteenth configuration, `OpsBudget.cfg`, is kept beside these runs: with it TLC refutes
`OperationsBounded` (`tlc -config OpsBudget.cfg MCRateLimit`), the budget of operations that
`sync.service.ts:61-63` promises. `GrantsBounded`, which does hold, bounds *requests of any size*.

Bounds, and why they suffice. In `commit_two_docs` the pushes share a process, so that one crash takes
both, and have a connection each, so that both transactions can be open; `EveryPushEnds` is therefore not
checked with a pool that is full for good. `commit_one_doc` has the full pool, for safety only. Two pushes
are what every conflict of the pipeline needs (a lock, a primary key, a pool slot have one holder and one
waiter), two documents with the same ids in both orders make the deadlock on the primary key happen, and a
third push in one document adds a retry that overlaps both the original and a newer batch. Three attempts
and two keys cover a race, an expiry and a reuse at once. One connection is enough for `NoGapAfterJoin`
and `GoneByNextSweep`, which speak of one connection at a time; rooms and presence need two. `Frail` names
the connections that may fail, so that `relay_rooms` stays small; `MaxSeq` bounds commits; one join and
one push may be under way per connection and document. In `Replica` a page of one and two operations
already give a first and a last page, and a snapshot in between; `Uploads` bounds versions under way and
`MaxVersions` those stored. Calls of two replicas interleave with each other, with commits and with
uploads; two calls of one replica are covered by the theorems, which have no bound on calls or uploads. In
`Sharing` two requests give every race of a check with a write, and the third user receives forwarded
links; `Founders` and `Named` bound who creates and who is named, and `MaxTokens` stops mailing an address
that has its tokens, so that re-invitation over a row happens through revocation and answers, and
resending while the first token is unused. In `Accounts` two requests race each statement with each;
`MaxCodes` bounds when a code may be asked for: a resend while there are fewer than two, the others while
there is none. Two that ask together overshoot it, so that three live codes could exist if old ones were
not dropped, which is what `FewLiveCodes` has to exclude. In `RateLimit` a window of two ticks has a
boundary that an upsert one or two ticks late crosses, and that two clocks a tick apart lie on either side
of, which is what its properties are about; `MaxUpserts` and `MaxTime` bound the rest. In `Server` the
second request keeps a drain waiting while the first runs. What is proved below does not depend on any of
these numbers.

`push_route` and `push_replay` stop checking for deadlock, since attempts are finitely many and all end,
and so does `rate_limit`, whose clock and upserts are bounded. In the other modules something can always
happen, or the check finds it can.

Fairness. `CommitLog!FairSpec` has weak fairness of each push's next step (Node's event loop and Postgres
run what is ready) and of `TransactionFails` (Prisma's transaction time-out ends one that waits,
`database/client.ts`): a deadlock on the primary key is real in the model and ends that way.
`Relay!FairSpec`: the interval keeps firing, a close that has begun completes, and a handler whose await
has settled runs. `Replica!FairSpec`: clients keep polling, the server serves, and from some moment on
calls stop failing (the weak fairness is of steps that move a call on, `WF_pc`); with calls failing for
ever nobody catches up. `Server!FairSpec`: only the force timer, which is the process's own; no handler,
client or socket is assumed to do anything.

## What is proved

For every value of the constants the modules' assumptions allow (no bound on documents, users,
requests, processes, connections, batches or keys):

| Theorem | Module | Property |
|---|---|---|
| `Implements` | `CommitLog_proofs` | `ImplementsSyncLog`, the refinement of `SyncLog` |
| `TypeCorrect`, `Gapless`, `LockNeverLeaks`, `SlotsUncontended` | `CommitLog_proofs` | `TypeOK`, `LogWellFormed`, `LockHeldByOpenTransaction`, `SlotNeverContended` |
| `AcksAreStored`, `RetriesAreNotRefused`, `LeadingRetriesRelayNew` | `CommitLog_proofs` | `AcksMatchLog`, `RetryNeverConflicts`, `RelayOfLeadingRetry` |
| `SlotsStay`, `SessionsFollow` | `CommitLog_proofs` | `SlotsNeverRewritten`, `SessionsNeverAhead` |
| `TypeCorrect`, `AnswersMatch`, `OnlyAuthorized`, `RetriesAlwaysAgree`, `ResponsesStay` | `PushRoute_proofs` | `TypeOK`, `AnswerMatchesBody`, `OnlyAuthorizedAnswered`, `RetriesAgree`, `StoredResponseStable` |
| `NoGaps`, `CheckpointsSafe` | `PushRoute_proofs` | `LogGapless`, `CountersCover` |
| `TypeCorrect`, `OneOwnerAlways`, `RolesOffered`, `NothingStaleDone` | `Sharing_proofs` | `TypeOK`, `OneOwner`, `RoleWasOffered`, `DoneWasAllowed` |
| `ChangesAuthored` | `Sharing_proofs` | `ChangesHaveAuthors` |
| `TypeCorrect`, `NothingStaleAccepted`, `TriesBounded`, `CodesLimited` | `Accounts_proofs` | `TypeOK`, `AcceptedWasRight`, `AttemptsBounded`, `FewLiveCodes` |
| `ChangesReasoned` | `Accounts_proofs` | `UserChangesHaveReasons` |
| `TypeCorrect`, `RefusalsAreEarned`, `GrantsLimited` | `RateLimit_proofs` | `TypeOK`, `RefusedWasOverBudget`, `GrantsBounded` |
| `OverrunsAreLate` | `RateLimit_proofs` | `OverrunNeedsDelay` |
| `TypeCorrect`, `NothingSkipped`, `WatermarkStands`, `LastPageIsLast` | `Replica_proofs` | `TypeOK`, `NoSkippedOps`, `WatermarkHasSnapshot`, `LastPageReachesDocumentSeq` |
| `SessionsFollow` | `Replica_proofs` | `SessionsNeverAhead` |
| `TypeCorrect`, `CleanExit`, `EffectsRetried`, `StreamsAccounted` | `Server_proofs` | `TypeOK`, `NobodyWaitsAtCleanExit`, `EffectIsNeverDeadLettered`, `StreamAccounted` |
| `TypeCorrect`, `RoomsAgree`, `NoGap`, `DeadAreSwept`, `PresenceIsCurrent` | `Relay_proofs` | `TypeOK`, `RoomsConsistent`, `NoGapAfterJoin`, `GoneByNextSweep`, `PresenceShown` |

Each module proves an inductive strengthening `IInv` (`Inductive == Spec => []IInv`) and the
properties follow. `SlotsNeverRewritten`, `SessionsNeverAhead` (of both modules), `LogGapless`,
`CountersCover`, `ChangesHaveAuthors`, `UserChangesHaveReasons` and `OverrunNeedsDelay` are in no run:
TLC has checked each on the instance of its component before it was proved, and the theorem takes the
place of the run.

*CommitLog.* That the log is gapless is not inductive: a commit moves the counter by as much as the
transaction has counted, so one must know that its uncommitted rows are exactly the slots after the
counter. `RowsContinueLog` says so: from the read of the counter to the commit, the counter still
stands where it was read, and the transaction's rows occupy the slots from there to its `nextSeq`, all
of its own document. This holds because only the holder of the lock can move the counter
(`LockHeldByOpenTransaction`). `UncommittedKeysFree` says that no key of an open transaction's rows is
committed or held by another, which is what the unique indexes enforce and what `OneRowPerKey` needs
at the commit.

A second invariant over the first, `AckInv`, follows a batch while it is mapped to rows. `Mapped`: what
the lookup found is committed and of the batch; nothing of the document is committed between the lookup
and the commit, so at an insert `known` still holds every stored operation of the batch, which gives
`RetryNeverConflicts`; every operation mapped so far is found or inserted. `Settled`: after the commit
all of the batch is in the log, which gives `AcksMatchLog`. For `RelayOfLeadingRetry` the positions of
the found operations are an initial segment of the batch, as long as there are found rows
(`AsManyPositionsAsRows`), so dropping that many leaves the new ones.

The refinement (`Implements`) maps a document's log to the ids of its rows by slot, and closes a push
when its transaction has ended. Only `Commit` and `CommitUnconfirmed` change a log, and the work is to
show that what they add is what the abstract `Store` adds. That it is exactly the new operations
follows from `Mapped` (`InsertedIds`). That they stand in the batch's order needs a third invariant,
`OrderInv`: while a batch is mapped, the slots of the rows inserted are ordered as the positions of
their operations, and lie close enough behind `nextSeq` that the next one comes after
(`InsertedInOrder`). Rows committed before stay where they are (`RowsStay`), so that the log grows at
its end (`CommitAppends`). Every other action is a stutter or closes pushes (`QuietNext`,
`StepIsAbstract`). Two things about the abstract specification came out of this proof: a crash ends all
the pushes of its process in one step, so `Drop` takes a set of requests, and a log defined by
recursion was replaced by one that says which sequences may be appended. `SlotsStay` is the same
fact for one slot: a row is never moved and a counter never goes back. `SessionsFollow` holds because
what `TouchSession` writes is the counter of an earlier moment, and counters only grow.

*PushRoute.* The answers are true because what an attempt holds between its push and its reply is
(`HeldMatchesBody`), slots never change once given, and a record's response was some attempt's. That
an acknowledgement goes only to a user whose very push was once authorized (`OnlyAuthorizedAnswered`)
needs the same of what attempts hold and of what is stored (`HeldAuthorized`, `RecordsAuthorized`): a
record answers its own user and body only. It says nothing of that user's rights at the replay, which
the code does not ask for (`ReplayedToWriters`). `StoredResponseStable` is a step
property: `Store` writes an empty key only, and nothing but expiry, then collection of what expired,
touches a row.

That numbers are handed out without a gap (`NoGaps`) is a counting argument: an injection from the
fresh operations into as many slots fills them (`NumberingFills`). `CheckpointsSafe` follows every
response that is held or stored: it is an older one or the pipeline's own, and what it said of the log
stays true while the log grows (`CoversStep`). Both are `LInv`, over `IInv`.

*Relay.* `NoGapAfterJoin` speaks of answered joins, but the debt starts earlier: `JoinInv` says that
from the moment the pull has read the counter, every later slot is received, in the outbox, or never
relayed by this process, because the connection has been in the room since before that read. It also
says that an unanswered join is marked so, and that a connection that was never opened is in no room.
`PulseInv` bounds the heartbeat: a frame under way means the ping is unanswered, and a vanished peer
that has been swept past once leaves no frame behind and is not alive, so the next sweep takes it.
`RoomsConsistent` is inductive by itself with the types. `PresenceShown` is inductive one document at
a time (`ShownIn`): a step that changes a room or a caret either sends the frame in the same step or
adds a member whose join is unanswered, and a join becomes answered only where a frame is sent.

*Sharing.* `OneOwner` is not inductive: an acceptance writes a role that was read before an await. So
the invariant follows the handlers (`Held`): past its checks, a handler names another than the owner,
and one about to accept carries a role that was offered to its author, whose invitation row exists;
both stay true however other handlers interleave, because offers are never taken back and nobody can
invite the owner (`OwnerUninvited`: inviting needs to be the owner, and one's own address is refused).
`RoleWasOffered` needs `OffersRecorded` of the rows that acceptance reads. `DoneWasAllowed` needs
`Measured`: what a request is entitled to now, or is past its checks for, has been measured. Each
handler's step is shown to keep the rest, and one lemma then adds the measure for all of them.

`ChangesAuthored` is a step property about a write whose right was checked several awaits before. Its
invariant `Authors` says that a handler past the check of an owner's operation is the owner's still;
this holds because no step moves the ownership (`OwnedStep`), which is `OneOwner` at work.

*Accounts.* `AttemptsBounded` and `FewLiveCodes` are written so as to be inductive: the wrong guesses
that have been read but not counted, and the requests about to create a code, are counted with what is
stored, and a step moves one from one count to the other or starts from a code under the cap
(`Counted`, `Limited`). `AcceptedWasRight` needs `Measured`, as in `Sharing`, and `Staged`: which
operations reach which points.

`ChangesReasoned` likewise needs that what a handler has found out is still so when it writes the user
row (`Sought`): an account that was found exists, and a code that was read is of the right purpose or
has been deleted, consumed codes stay consumed. `Lasts` collects what no step takes back, so that only
the handler that moves has to be looked at. The theorem lets a registration that completes an account
replace a password: see the divergence below.

*Replica.* `NoSkippedOps` is about what a client does with an answer given earlier, so the invariant
follows answers: a page runs without a hole from a cursor the client had (`Continues`), which only
moves forward; a snapshot's body holds everything up to its position (`Covers`), unless that position
is a false claim, which the check before the write turns away (`Bodies`). For the last page,
`Continues` adds that it ends at or after the `documentSeq` read before it: fewer rows than a full page
were left, so it ends where the log did. `Watermark` replaces the maximum by its bounds.
`WatermarkHasSnapshot` says of a call that was turned away that a version lies beyond its cursor; the
invariant `TurnedAway` says it of the watermark, which does not go back, and the maximum gives the
version. `SessionsFollow` is as in `CommitLog`.

*RateLimit.* `GrantsBounded` adds up over a window what the row, which holds one window at a time, has
forgotten. The invariant gives each window its `Room`: a full limit once its row has moved on or no upsert
can come for it any more, what the row counts while it is the row's window, nothing before that, and in
every case one limit for each upsert so far that moved the row back out of the window. A grant takes one
unit of room, moving back pays for the count that is thereby forgotten, and collection changes nobody's
room because `Retain` outlasts the latest upsert of a window (`Over`; this is where the assumption is
used). `RefusedWasOverBudget` needs `CountBacked`: what a row counts was upserted in its window or later.

`late` is counted per window, so the bound blames an overrun on the window that was reset.
`OverrunsAreLate` adds when that happens: a row's window is never beyond that of the present
(`RowInTime`), so an upsert that moves it back comes when its own window is over. The
clock meant is the one furthest ahead: a process that is behind it upserts late by that much.

*Server.* `Sound` says at each stage of a request what has and has not happened (an effect only from
the commit on, no closing chunk and no history row before the end of a stream). `Quiet` says that once
the drain is over nobody waits; it is kept because a request only stops waiting, and none is accepted
outside `up`.

The constants' assumptions (`RequestsAssumption`, `PushesAssumption`, `SendsAssumption`,
`RelayAssumption`, `ReplicaAssumption`, `SharingAssumption`, `AccountsAssumption`, `RateLimitAssumption`)
are typing, non-emptiness and distinctness, and two of `RateLimit`: rows of `rate_limits` are kept for at
least their window and the delay of an upsert after it (`main.ts:40` keeps them two hours), and a clock
that is behind counts as part of that delay (`MaxSkew <= MaxDelay`). TLC evaluates them all.

Only model-checked: liveness (`EveryPushEnds`, `EventuallyCaughtUp`, `ShutdownEnds`), which the prover
does not reach. Every other property of a passing run is proved. `GoneLeavesRooms`, `ReplayedToWriters` and
`OperationsBounded` are false, and refuted by TLC.

## Where the code and its documentation part

Shown by a run:

- `relay_gone`: `wsServer.ts:229` puts a connection in a room after awaiting its authorization, without
  asking whether the socket closed meanwhile. It is then in a room but not in the hub's list, so
  neither a close event nor the heartbeat will take it out; its presence entry stays. The two maps of
  rooms still agree (`RoomsConsistent`), and a zombie whose join was never answered is excused by
  `PresenceShown`: only `GoneLeavesRooms` tells it.

- `push_replay`: `ARCHITECTURE.md:376` says that every push goes through `authorize`, but a replay is
  answered from the table (`sync.routes.ts:53-56`) before it. A user demoted or removed, or whose
  document was deleted, since the response was stored is acknowledged as before. Nothing is written, and
  the answer is one this user was entitled to (`OnlyAuthorizedAnswered`).

Seen while modelling, without a listed run of their own:

- The push budget is said to be counted in operations, not requests (`sync.service.ts:61-63`,
  `limits.ts:11-12`, `limits.ts:63`, `rateLimit.repository.ts:20`, `ARCHITECTURE.md` §10), but `consume`
  has no cost and adds one per push: 600 pushes of 500 operations a minute pass. `OpsBudget.cfg` shows
  it on a small instance.
- Operations are deduplicated by id alone (`operation.repository.ts:132-136`). A batch whose operation
  has the id of one stored in *another* document is acknowledged for it, with that row's slot, though
  nothing is stored in its own document; the third conjunct of `AcksMatchLog` leaves such operations
  out. The socket may relay that slot to the wrong room as well, which `Relay` does not model.

- `sync.service.ts:81` drops as many operations from the front of the acknowledgements as were
  duplicates, but acknowledgements are in the client's order (`operation.repository.ts:165`). A batch
  `[new, known]` relays the known operation and withholds the new one. When known operations lead the
  batch, as in a retry with newer edits behind, the relay is right (`RelayOfLeadingRetry`). `Relay`
  models both (`Misplaced`), and `NoGapAfterJoin` excuses the operations withheld: a client finds
  them by pulling.
- The check of `deletedAt` inside the lock (`operation.repository.ts:125-127`) does not keep operations
  out of a deleted document, because `softDelete` never takes that lock. What holds is weaker:
  `DoneWasAllowed`, the document was there at some moment since the request came. That property and
  `AcceptedWasRight` compare a write with what was so at *some* moment since arrival, and so permit
  every race of a check with a write listed here.
- Membership is looked up when joining only; a member removed later goes on receiving broadcasts
  (`README.md:73-74` says it stops immediately).
- The limiter is said to be a fixed window whose burst is at most twice the limit
  (`rateLimit.repository.ts:16-21`). An upsert that arrives after a later window's moves the row back
  (`windowStart` takes the caller's value, line 45), and the next request of the later window restarts
  the count: each such upsert grants the limit once more, which is what `GrantsBounded` counts.
- `auth.routes.ts:42` announces one live code per address and purpose; two overlapping requests may
  leave two (`FewLiveCodes` bounds them). The cap of five tries and the single use of a code hold up to
  the number of requests in flight (`AttemptsBounded`): all of them may read the row before one counts.
- Two overlapping registrations of an account that a provider made both find no password, and the second
  replaces the first one's (`auth.routes.ts:191-197`); `UserChangesHaveReasons` allows exactly that.
- Revoking is said to make a link stop working immediately (`invitation.repository.ts:180`); an
  acceptance that read PENDING before still goes through, and overwrites REVOKED. Likewise a declined
  invitation can end ACCEPTED, a re-issued one can be accepted with the role of its predecessor, and
  accepting does not look at the document's deletion.
- `ecosystem.config.cjs:59` relies on the close of every WebSocket before its 10 s `kill_timeout`, but
  nothing closes upgraded sockets, and the force timer is set to 15 s: a drain with an open socket ends
  in `Kill`.
- The history row of an AI call is not awaited, so a clean exit may lose it; a stream that is cut short
  records zero tokens, because usage comes in the last chunk.
- A retried request that loses the insert of its idempotency key answers with its own response, whose
  `duplicateCount` differs from the stored one (`sync.routes.ts:69-71` calls it necessarily identical);
  its acknowledgements do agree (`RetriesAgree`). Two overlapping requests with one key and different
  bodies both commit, where `README.md:65` announces a 422.
- `lastPushedSeq` is the document's counter after a push, not the highest slot the replica authored
  (`schema.prisma:388`); `lastAckedSeq` is what was sent, not what was confirmed received
  (`schema.prisma:386`). Nothing in the repository reads either column.
- `documentSeq` of an acknowledgement is called the client's new checkpoint
  (`operation.repository.ts:32`); it covers slots of others that the client has not pulled.
- 410 is decided by `snapshotSeq` alone; no session's acknowledgement holds it back, as
  `ARCHITECTURE.md` §8 describes. A client turned away so loses nothing: `NoSkippedOps`.
- The socket's `ops` frame lacks the rule against a repeated operation id (`protocol.ts:22` against
  `operation.validator.ts:249-252`); the primary key refuses such a batch and nothing is stored.
- The author of an `ops` frame gets its operations back (`hub.ts:79`; granted at
  `wsServer.ts:281-283`).

## Not modelled

- Listing documents, collaborators, pending invitations, versions and AI usage: reads with no effect.
- `collaboratorRepository.invite` and `syncService.recordFailure`: no caller in the repository.
- The OAuth account row and audit rows: written after the fact in statements of their own, read by
  nothing here.
- Email, configuration, logging, hashing and signatures: pure I/O, read once, or primitives.
- The payload rules of operations (`operation.validator.ts`) and their conversions: data. A logical
  clock may be any safe integer but is stored in 32 bits, so a larger one fails in the database and is
  answered as a retryable internal error; that is a property of one conversion.
- Node's `clientError` answers to malformed requests: they reach no handler.
- `scripts/` (smoke tests against a running server) and `tests/`.

## Plan

1. *(done)* `SyncLog`, `CommitLog` with refinement and proofs; `PushRoute`, `Relay`, `Replica`,
   `Sharing`, `Accounts`, `RateLimit` and `Server` with proofs.
2. *(done)* The refinement of `SyncLog` by `CommitLog`, proved; step properties of the components that
   write shared rows.
3. `PushRoute` and `Replica` take the pipeline's commit as one step. Relating those steps to `SyncLog`
   formally, as `CommitLog` is, would compose the theorems of the modules.
