# Formal models of shiromodel

shiromodel is a small permission service: a Spring Boot web service that logs
users in with Apache Shiro, keeps its sessions and caches in Redis, manages
users, roles and menus in MySQL, generates ids with a snowflake generator whose
worker ids are agreed through ZooKeeper, and a netty chat server that uses the
same accounts.  The page of the chat speaks with the server in protobuf
messages, for which the repository carries protobuf.js 6.8.8: it loads
`ChatMessage.proto` and encodes and decodes with what the library makes of it.
This directory holds TLA+ models of all this, the TLC configurations that check
them, and TLAPS proofs.

Paths below are relative to `src/`; `S` is
`shiro-service/src/main/java/com/cmx/shiroservice`, `W` is
`shiro-web/src/main/java/com/cmx/shiroweb/chat`, and `protobuf.js` is
`shiro-web/src/main/resources/public/protobuf.js` (the page includes its
minified form beside it, which is the same code).

## Inventory

| Component | Code | State | Operations | Hard behaviour |
|---|---|---|---|---|
| Snowflake generator | `S/genernator/CommonIdGenerator` | singleton, `sequence`, `lastTimestamp`, static `workerId` | `getInstance`, `nextId`, `setWorkerId`, `generateId` | many threads, a wall clock that steps back, a busy wait under the monitor, double-checked locking |
| Worker registry | `S/genernator/ZkIdGenerator` | ephemeral nodes, order list and lock in ZooKeeper; `pathCreatedTime`, `treeCache` per process | `initZkClient`, `doRegister`, listener `childEvent`, `checkAndInitOrder` | session expiry, crash, lost replies, lock lost in mid-registration, overlapping registrations |
| Redis manager | `S/session/manager` | keys and their TTL | `get`, `set`, `del`, `keys`, `dbSize` | SET and EXPIRE are two commands |
| Session DAO | `S/session/dao/RedisSessionDao` | sessions in Redis, per-thread copies for one second | `create`, `update`, `delete`, `doReadSession`, `getActiveSessions` | stale copies, lost updates, a session saved after its deletion |
| Shiro cache | `S/session/cache` | named caches in Redis | `get`, `put`, `remove`, `clear`, `keys`, `values`, `size`; `getCache` | caches share one database; read-then-delete |
| Login | `S/controller/LoginController`, `S/matcher`, `S/realm` | retry counter per user | `login`, `logout`, `doCredentialsMatch` | counter read and written without atomicity by concurrent logins |
| Authorization | `S/realm/SimpleUserRealm`, `S/aop`, `S/config`, `S/filter` | permission cache, filter chains | `doGetAuthorizationInfo`, `preHandle` | cached permissions after a role change; cache keys |
| Roles and menus | `S/manager`, `S/service`, `S/controller`, `S/mapper` | user-role and role-menu tables | `grantRoleToUser`, `modifyRoleMenu`, `distributeMenu`, list operations | delete-then-insert without an effective transaction; two queries of a login |
| Dynamic permissions | `S/service/DynamicShiroService` | filter chains of Shiro | `updateDynamicPermission` | chains are cleared before they are built |
| SQL log | `S/interceptor/MybatisInterceptor`, `S/aop/SqlAspect`, `S/log` | none | `intercept` | the statement is prepared twice |
| Chat server | `W/websocket`, `W/component` | hall group, rooms, user channels, login flag | handshake, login, text and file messages, disconnect | two connections of one user; messages to closed channels |
| Schema loading | `protobuf.js`: `Root.load`, `parse` | `root.files`, requests under way, `queued` and `callback` of a load | `load` with `fetch`, `process`, `finish` | replies in any order, errors, weak imports, timers, several loads of one root |
| Reflection | `protobuf.js`: `Namespace`, `Type`, `Field`, `OneOf`, `Enum`, `Service`, `Root` | the tree, the caches and generated functions of its nodes, sister fields, deferred extensions | `add`, `remove`, `define`, `lookup`, `resolve`, `resolveAll`, `setup` | extensions before their type, stale caches, an exception half way through |
| Wire format, codec | `protobuf.js`: `Writer`, `Reader`, `LongBits`, `utf8`, `pool`, `encoder`, `decoder`, `verifier`, `converter` | operations and states of a writer, slabs of the pool | `encode`, `encodeDelimited`, `fork`, `ldelim`, `reset`, `finish`, `decode`, `verify`, `fromObject`, `toObject` | lengths counted before bytes are written, edges of numbers and texts, readers of other versions, truncated input |

The interaction of the parts: a request passes the Shiro filters, which read
the session through the session DAO; login runs realm and matcher, which use the
caches; the caches and the session DAO share one Redis manager.  The worker
registry writes the static worker id that the snowflake generator reads.  The
chat server shares only the accounts (through MongoDB) with the web service.
The chat page sends what the codec of protobuf.js makes of a message, and the
codec is made for the tree that loading builds.

What makes each part correct:

* generator: no number is returned twice; one object per process; a waiting
  thread returns;
* registry: processes that run undisturbed hold different ids; a process whose
  session is lost registers again; ids are not used up by one process;
* sessions: a session ended stays ended, a copy is at most one second old, every
  key has a TTL;
* login: no more failed comparisons than the maximum, then a lock that ends;
* roles and menus: what a request revokes is gone, what the last request
  grants is there, and a login shows what follows from both;
* chat: one connection per user counts as logged in; a message reaches the
  connections it is addressed to and no closed one;
* schema: each load ends with one call that tells the truth, whatever the
  network does; the tree is the same in whatever order files arrive; caches,
  generated functions and extensions follow every change of the tree;
* wire format: what is decoded is what was encoded, for readers of other
  versions too; a buffer is as long as was counted and keeps its bytes; what is
  cut off is noticed.

## Modules

| Module | Models |
|---|---|
| `SnowflakeLayout` | the fields of an id and the arithmetic of the long they are packed into |
| `SnowflakeId` | `CommonIdGenerator` with its threads, monitor and clock |
| `UniqueIdSource` | abstract specification: a list of numbers extended by new ones only |
| `ZkWorkerRegistry` | `ZkIdGenerator` and the ZooKeeper it relies on |
| `IdCluster` | composition: the registry and the generators of all processes, over one clock |
| `RedisManager` | `BaseRedisManager`: GET, SET, EXPIRE, DEL and the expiry of a key, one command each |
| `SessionStore` | `RedisSessionDao`, the request threads and Shiro's validation scheduler that use it, over `RedisManager` |
| `LoginRetry` | `UserCredentialsMatcher` and its counter, over `RedisManager` |
| `RetryPolicy` | abstract specification: what the counter of a login promises |
| `GrantTable` | requests that replace the rows of an owner: `grantRoleToUser`, `modifyRoleMenu` |
| `RoleMenu` | composition: both tables of grants, the tables of roles and menus, and the login that reads them |
| `ChatServer` | `ChatWebSocketServerHandler`, `LoginMessageHandler`, `GlobalChannel` |
| `ChatMessages` | texts, files and the tasks of the event loops, over `ChatServer`: `MessageRouter`, `UserMessageHandler`, `FileMessageHandler`, `MessageService` |
| `RootLoad` | `Root.load` in a browser: requests, replies, timers, the callbacks |
| `ProtoReflection` | the reflection tree of `protobuf.js` as operations from heap to heap |
| `ProtoLoader` | composition: loading and parsing into the tree, and a page that uses and changes it |
| `ProtoWire` | the numbers of the wire format: what a writer counts and writes, what a reader takes |
| `ProtoText` | UTF-16 and UTF-8: `util.utf8` and the texts of writer and reader |
| `BufferPool` | `util.pool` |
| `ByteStack` | abstract specification: what a program gets from a writer, a stack of byte strings and buffers that stay |
| `ProtoWriter` | the writer: its calls, `fork`, `ldelim`, `reset` and `finish`, over the pool |
| `ProtoCodec` | the generated `encode`, `decode`, `verify`, `fromObject`, `toObject`, over the writer |
| `ProtoMessages` | composition: a page that encodes, nests, finishes and relays messages, over the pool |
| `*_proofs` | theorems, see "What is proved" |
| `MC*` | values of constants and symmetries of the instances TLC checks |

A definition named "Mutant of D" is D with a plausible slip: the properties are
known to fail when it takes D's place, so each of them depends on that piece of
the code.

### SnowflakeId

`workerId`, `instance`, `sequence`, `lastTimestamp` and the local `timestamp`
are the variables of the same name in the code; `monitor` is the monitor of the
object, `pc` the place of a thread.  `Call`, `FindInstance`, `MissInstance` and
`CreateInstance` are `getInstance`; `Enter` to `Compose` are `nextId`, one
action per branch.  What happens under the monitor is split where another
thread, the clock or the registry can be seen: the read of the clock, each round
of `tilNextMillis` that ends it, and the composition, which reads `workerId`
as it is then.  `Tick` and `StepBack` are the wall clock, `SetWorkerId` is the
write of the registry.  The string `generateId` makes of the long is left out.

### ZkWorkerRegistry and IdCluster

`node`, `order` and `lock` are what ZooKeeper stores; `session`, `workerId`,
`pathCreatedTime` and `watch` belong to a process.  `Acquire` to `SetWorkerId`
are `doRegister`, an action per request to ZooKeeper, and `Fail` its
exceptions; `ChildEvent`, `ChildEventSame` and `CheckFails` are the listener.
Two registrations of a process may run at once (`Slots`): the listener of a new
node is started at `ZkIdGenerator.java:250`, before the id is stored at line
252.  A node's creation time is the session that created it.  `Boot`, `Crash`,
`Expire` and `Reconnect` are the lives of processes and sessions.

`IdCluster` runs a generator in each process.  The monitor admits one call of
`nextId` at a time (`SnowflakeId`), but the worker id is written outside it, so
a call is two steps there: `ReadClock`, which also counts on, and `Compose`, which
takes the worker id as it is then.  Registrations, expiries and step backs fall
between the two.  `drawn` remembers of a call what was so when it read the clock.
An id counts as entitled if the session of the process held the node of the
worker id at both (`Entitled`); judged at the composition alone, TLC finds
`UniqueWhileEntitled` violated.  A session expires no sooner than a tick after its
process was last heard of, so `SessionExpires` advances the clock.

### RedisManager, SessionStore, LoginRetry

`db` and `expiring` are the values of the keys and which of them have a time to
live.  `BaseRedisManager.set` is two actions of its callers, `Set` and `Expire`,
since other clients run in between.

In `SessionStore` a thread runs an operation of Shiro on a session: it reads it
(`ReadCopy` from the `ThreadLocal`, `ReadRedis`), changes it (`Work`), saves it,
and deletes it after a stop.  The copy in the `ThreadLocal` and the object that
is changed are one object.  Of a session only matters whether it was stopped.
`Fail` is a command that fails; Redis may have executed it (a reply that is lost),
and if so before the failure is reported.  A session that cannot be serialized is
a SET that fails and was not sent.  `failed` is history: per session, the commands
that have failed since its last SET or DEL that did not.  The properties
leave out a session for a failure of its own, not all of them for any.

The validation scheduler of Shiro is a client of its own (`Validator`), which
bypasses the `ThreadLocal`.  `StartScan` to `EndRead` are `getActiveSessions`:
rounds of SCAN, then a GET for every key found, so that a session can end
between the two.  `ReadFails` is a session that cannot be deserialized: it ends
the reading, and the sessions read before it are returned (`scan` is "part" then).
`ScanFails` is a SCAN or GET that fails, which ends the validation.
`Valid`, `Invalid` and `EndValidation` are what Shiro does
with the sessions; a null among them ends its round.  What SCAN promises (a key
that is there from the first round to the last is returned) is an assumption
about Redis, and `there` is the history it is stated with.  `lingering` is
history, too: the sessions that were in Redis as stopped from the first command
of the scan on.

In `LoginRetry` each action is a command of `doCredentialsMatch`; `failed` is
history, the comparisons that failed since the counter was dropped.  `Break` is
a command that fails, `LoseReply` one that was executed and whose reply is lost;
`broken` is history, the users of whom SET or EXPIRE has failed since the last SET
or DEL that did not.
`RetryPolicy` is refined by reading the counter as the number of failures the
next attempt will find (`Failures`): the counter starts at 0 and is written
before the comparison it counts.

### GrantTable and RoleMenu

A request deletes the rows of its owner (`Delete`), inserts what it asks for
row by row in the order of its list (`Insert`), and may fail between two
statements: the transaction is
noted as ineffective in the code (`UserManager.java:85`).  The list is made of an
array of the request, and an id may be in it twice; `MaxItems` bounds its length.  `GrantTable` stands
for `t_sys_user_role` (owners are users, items roles) and for `t_sys_role_menu`
(owners are roles, items menus); `RoleMenu` has both as one set of rows with
disjoint owners.  A row carries its request and its place in the list (`by`,
`at`), which keep equal rows apart as the table does, and a request the requests
that were over when it was made (`after`, history).

`RoleMenu` adds the rows of roles and menus (`AddRole`, `DelRole`, `AddMenu`,
`DeleteMenu`, a statement each; rows of grants stay behind) and the login:
`ReadRoles` is the first query of `getUserMenu`, `ReadMenus` the join
`queryByRole` and the tree `distributeMenu` builds.  `Times` counts the rows of
the join, for a row inserted twice is joined twice.  `addMenu` does not ask whether
a menu of the same code exists, so `menus` counts the rows of each code; rows of one
code are alike but for their ids.  Assumed: the code of a role and the parent of
a menu do not change, a menu
passes the filter on `sequence` and `menuType`, which `getUserMenu` does not set.

### ChatServer

`hall` is the hall's channel group, `group` and `userChannel` are the fields of
`GlobalChannel`, `isActive` is the flag of the account in MongoDB, and
`handshaker` the field that all channels share.  The handler of a channel runs
in the loop of the channel, an action per access to shared state.  A `close` of
another channel is done by that channel's loop (`closing`).  Nothing keeps logins
of one user apart; `overlaps` counts, as history, those that began while another
of the same user was under way.

### ChatMessages

`step` is the place of a channel's message handler and `todo` the channels
`ChannelGroup.writeAndFlush` has not reached yet.  A write to the channel of the
running loop is done at once; a write to another is a task of that channel's
loop (`tasks`), and so is its close.  A write before the handshake fails, since
the pipeline has no encoder for a frame yet, and so does one to a closed channel.
Every message goes to the whole hall, whatever its addressee: that is what
`MessageRouter` does.  `SendFile` and `SaveFile` are `FileMessageHandler`; a
file that cannot be written is logged and announced all the same.  `SaveMessage`
is the write to `chat_log`.  `received` is what was written to a client;
`audience` (the clients a message is due to), `files` and `unsaved` (the files the
disk failed to keep) are history.

The handlers of `ChatServer` are taken over whole: `Serve` is one of their steps
with what it leaves in the queues (`Post`: the notice and the close of a client
that is replaced; `Tell`: the notice of a client that replaces itself; `Join`:
a channel that enters the hall while others write to it).

### RootLoad, ProtoReflection, ProtoLoader

JavaScript runs one handler at a time, so an action is a whole handler: a call
of the page, a reply, a timer.  `files`, `queued` and `callback` are the
variables of `Root.load`, the latter two for each call of it; `pending` are the
requests and timers the browser has taken, `owner` and `weak` what their
closures hold.  `Reply` (status 200), `ReplyEmpty` (status 0, which `fetch.xhr`
takes for an empty file), `ReplyError` and `Timer` (a bundled
`google/protobuf` file) are the ways a file is answered, and `Process` and
`Fetch` are the inner functions of `load`.  `calls` and `outcome` are history.

`ProtoReflection` has no actions of its own.  `heap` is one record: of every
object its parent and name, of a namespace its members in order, of a type its
fields and oneofs, and beside them what the code caches (`nestedArray`,
`fieldsArray`, `fieldsById`, `oneofsArray`, the generated functions, the
constructor), what extensions leave in other types (`extensionField`, the
`Sister` of an extension) and the root's `deferred` extensions.  An operation
such as `AddTo` takes a heap and returns the next; an exception is a heap with
`threw` set, in which what was changed stays changed.  `TypeAdd`, `NamespaceAdd`,
`OneOfAdd`, `ServiceAdd`, `EnumAdd` and the removals have the order of the
code's statements, and `broken` remembers which objects an exception left half
way.  `Lookup` is `Namespace.lookup` with the `nestedArray` it fills on its way.
`Setup`, `ResolveField` and `MakeCtor` are lazy in the code's way: the
constructor resolves all fields of a type, that of the field it was called for
included.

`ProtoLoader` puts the two together.  A file is a list of declarations, each
with the token that the parser branches on, and `Declare` adds them in the
parser's order (what is between the braces first).  A file that is JSON is added as `addJSON`
does.  The page may `Use` a type (the first `encode`), resolve all, remove an
object, add it elsewhere, and take a field out of its oneof, between any two
replies.  `InParallel` compares the tree with the constant `Whole`, which the
MC module writes out by hand for its files.

### ProtoWire, ProtoText, BufferPool, ProtoWriter, ProtoCodec, ProtoMessages

An operation of a writer is a kind, a value and the length counted for it when
it was called (`Uint32`, `Sint64`, `Bytes`, `String`, ...).  `Written` and
`Stored` are the bytes that `finish` writes for it later; that the two agree is
what `LenIsExact` says.  The reader (`ReadUint32`, `ReadLongVarint`, `Skip`, ...)
returns a value and a position or an exception, which `Converted` and `Onward`
pass on.  Two constants give the size
of everything, `Septet` (128 in the code) and `Nibble` (16): a varint has five
bytes and a long ten whatever they are.  TLC's numbers are too small for the
code's; it has 32 and 8, words of 23 bits and UTF-16 units of 10.  The theorems
of `ProtoWire_proofs` are about all sizes.

`ProtoText` has a text as its UTF-16 units, with surrogates in pairs and alone,
and `utf8.length`, `write` and `read` of it.  `Utf8Read` keeps the loop of
`utf8.read`: each character goes to `chunk` (`NextCharacter`), and when `chunk`
is full its units are taken and it is filled again from its beginning, with its
length as it is.  `Chunk` is the size of it, 8192 in the code and 2 for TLC.
`BufferPool` is `util.pool`: `memory` are the arrays there are, and `views` the
buffers handed out.

`ProtoWriter` has `fork`, `ldelim` and `reset` of a writer on its stack of
states, and `finish`, which leaves the operations where they are but for the
64-bit values it has shifted out (`Spent`).  By itself it is a program with one
writer that makes its calls in any order (`Call`, `BeginFork`, `EndFork`,
`Discard`, `FinishWriter`, `CreateNew`); `spoiled` is history, that a `finish`
has used up a 64-bit operation.  Until then it implements `ByteStack`
(`Promise`), read with the bytes that each operation stands for.

`ProtoCodec` has JavaScript values as pairs of a kind and a content; `Encode`,
`Decode`, `Verify`, `FromObject` and `ToObject` are the functions `encoder`,
`decoder`, `verifier` and `converter` generate, for every rule (optional,
required, repeated, packed or not, map, oneof, group).

In `ProtoMessages` the page encodes into one writer, plain or delimited, forks
and joins by hand, resets, finishes also twice, and relays: it decodes a buffer,
makes it an object for JSON, makes a message of that and encodes again.
`parts`, `sent` and `failed` are history: what the operations of the writer, and
each buffer, are for.

## Runs

Run times are for two workers.

| Run | Bounds | Checks | Shows |
|---|---|---|---|
| `snowflake` | 2 threads, 4 calls, 3 sequence numbers, 1 step back; about 48 000 states | `IssuedInOrder`, `OneGenerator`, `ImplementsUniqueSource`, `WaiterReturns` | ids in order, one generator object, the abstract source of unique numbers is implemented, a waiter returns |
| `registry` | 2 processes, 3 ids, 3 sessions, 1 fault; 116 000 states, 1.5 minutes | `ContentOwnsId`, `OneNodePerSession`, `RegistrationEnds`, `LostSessionRegisters` | who sees nothing amiss owns its id; a session holds one node and one more for each fault; no registration waits for ever; a lost session is replaced and registered |
| `cluster` | 2 processes, 2 ids issued, 3 sessions, 2 milliseconds, 1 step back; 930 000 states, 40 seconds | `UniqueWhileEntitled` | longs are unique across the cluster among those who hold the node of their id while they make it |
| `cluster_stale` | as `cluster`, no step back | `UniqueIds` (fails) | see "Findings" |
| `sessions` | 3 threads and the validator, 1 session, 1 failing command, executed or not; 1.7 million states, 1 minute | `SessionsExpire`, `StoppedIsDeleted`, `GoneForGood`, `LingeringSwept` | no session without end; one that is gone and whose copies have aged stays gone; what a failed DEL leaves goes with the next complete validation |
| `retry` | 2 threads, 2 users, one of whom overlaps, 6 attempts, maximum 2, 1 failing command or lost reply; 570 000 states, 1 minute | `CountersExpire`, `ImplementsRetryPolicy`, `LockEnds` | attempts one after the other implement the policy; however attempts overlap, no account is locked for ever |
| `retry_race` | 2 threads, 1 user | `AtMostMaxRetryEver` (fails) | see "Findings" |
| `role_menu` | 2 requests of at most 2 ids, 1 user, 2 roles, 2 menus (one below the other), 1 login, 2 changes; 2.7 million states, 1 minute | `LastGrantStands`, `OneGrantWhole`, `RevokedIsNotShown`, `MenusOnce`, `LastGrantDecides` | overlapping, failing requests leave nothing revoked to be shown; a login shows the right role's menus, each once unless a row is there twice for a reason that is known |
| `chat_messages` | 2 connections, 1 user, 3 logins, 2 messages, 3 of both together, 1 restart, 1 fault; 239 000 states, 50 seconds | `OneConnection`, `InOrder`, `LoggedIsSent`, `SupersededCloses`, `ToldBeforeClosed`, `Delivered` | one connection per user and one more for each overlapping login, the replaced one is told and closes; messages arrive in order and without a gap, or the addressee leaves |
| `chat_handshake` | 2 connections | `RefusedIsUnsupported` (fails) | see "Findings" |
| `schema` | 2 loads, 5 files, 5 objects the page touches, 1 error, empty reply or change by the page; 41 000 states, 3 minutes | `TreeConsistent`, `CachesFresh`, `ExtensionsApplied`, `InParallel`, `CalledOnce`, `OkIsComplete`, `NothingLost`, `LoadEnds` | each load ends with one call that tells the truth; the tree does not depend on the order of replies; nothing kept beside it is stale |
| `codec` | 2 messages of 17, 3 buffers, slabs of 48 bytes; 19 000 states, 30 seconds | `LenIsExact`, `BuffersKeep`, `RoundTrip`, `CutIsNoticed` | what is encoded is decoded, also by readers that know fewer fields, and every cut but in a 64-bit varint is noticed |

Type invariants (`TypeOK` and its like, one a module) are in no run: all but
those of the reflection tree and of the codec are proved, and a state outside the
types would show in the properties above.

Why these bounds are enough to be of interest.  Two threads, processes or
requests are what an overlap needs, and where three matter (a thread that holds
an old copy, one that stops a session and one that saves it) there are three.
Three sequence numbers with starts 0 and 1 make the sequence run over within
four calls, from both starts.  Three ids for two processes leave one that a
second registration of a process can take; three sessions allow one process to
lose its session, and the other to take its id.  A maximum of two attempts is
reached, passed, and reached again after a success within six.  One step back
of the clock suffices for a repetition, if there were one.  `sessions` has one
session because no action relates two but the scan; `SessionStore_proofs` is about
any number of them.  Two ids in a list are what a repeated one needs, beside
another request, and two changes allow a menu to be added twice.  In
`chat_messages` one connection can send both messages, which a gap or a swap needs,
while the other logs in, replaces it, or leaves, or two logins overlap and a third
follows them.  In `schema` one load imports, and imports
weakly, what the other asks for; types, extensions and namespaces to be merged
come from different files; and a change by the page falls between any two
replies.  The inputs of `codec` are at the edges of the lengths of their
varints and characters; two messages of one writer are what a fork, a joined
message and a shared slab need, and a slab of 48 bytes runs over at the second
or third buffer.  Chunks of two units are filled again
by a text of four.

Larger instances have been run apart from these, and the properties hold
there as well: `registry` with four sessions and a fault (620 000 states
with symmetry), the connections and logins of `ChatServer` alone with three
connections, one user, four logins and a restart (86 000 states), `schema` with one load and two
changes by the page, and with four objects touched and three changes.

Two configurations are for TLC but in no run.  `MCProtoWriter` is a program
with a writer of its own: `LenIsExact` and `Promise` hold in 130 000 states (half
a minute, deadlock checked) with three values, where the operations of the
writer, its forks and, twice, the buffers are 6 at most, which leaves room for a value in a fork within a fork,
for two buffers of two values, of which the second begins another slab, and for
a buffer that is an array of its own.  It is there to see the refinement hold
before its proof; with a `Ldelim` that puts the length behind
(`LdelimBehind`) `Promise` fails, with a `Reset` that keeps the length
(`ResetOpsOnly`) `LenIsExact` does.  `LongProtoMessages.cfg` is the run
`codec` with a text of more than two chunks: `RoundTrip` fails, see
"Observations".

Restricting constants.

* `RegistrationMayStall = FALSE` in `registry`: a session does not expire while a
  process is between the creation of its node and the store of its id
  (milliseconds against a session timeout of seconds).  With `TRUE` TLC finds a
  registration that stores its id after a later one has finished
  (`ZkIdGenerator.java:252`), and `ContentOwnsId` fails.  `cluster` has `TRUE`:
  what it checks does not depend on it.
* `MaxRequests` in `chat_messages` bounds messages and logins together, so that
  both bounds can be as large as either needs.
* `OneConnection` is not "one connection per user": two logins that overlap read
  `isActive` before either writes it, neither closes the other's connection, and
  both stay (`LoginMessageHandler.java:57`).  The property counts these logins.
  Without any, it says one; with some, that later logins, disconnects and
  restarts do not add to what they have left.
* `Supported` holds both connections in `chat_messages`; an unsupported version
  and the branch without a handshaker are in `chat_handshake`.
* `Overlapping` in `retry` holds the users whose attempts may overlap.
  `ImplementsRetryPolicy` is about the others, whose attempts come one after the
  other; `CountersExpire` and `LockEnds` are about all of them.  What overlap
  does to the count is `retry_race`.
* `MaxEvents` in `schema` counts failing requests, empty replies and changes by
  the page together.

Deadlock is checked in `snowflake` and `sessions`; the other systems may stop,
when the bounds are used up and nobody acts: every client has left, every
attempt is made, every file answered.

Fairness.  `snowflake`: time passes (`WF Tick`) and the scheduler runs each
thread (`WF Generate`).  Ticks of a waiter's clock are not bounded by `Horizon`.
`registry`: a registration goes on, for every request to ZooKeeper returns or
times out; a client that has lost its session gets a new one, which Curator
does by itself; the tree cache calls its listener.  Sessions need not expire
and the lock need not be given back: the timeout of `acquire` is what ends the
wait.  `retry`: an attempt goes on, and an hour passes for a counter nobody
touches.  `chat_messages`: event loops run, that is, a handler under way goes on
and a queued task is taken.  `schema`: the browser answers every request,
somehow, and runs every timer (`LoadFairness`).  Clients, pages, crashes and
faults are never fair.

## What is proved

For every value of the constants that satisfies the named assumptions.

* `SnowflakeId_proofs` (`LayoutAssumption`, `ConstantsAssumption`): `TypeCorrect`,
  `Singleton`, `Ordered`, `Unique`, `Implementation`, for any threads, widths,
  numbers of calls and step backs.  The inductive invariant `IInv` has two
  parts.  `BInv`: the types, and where a thread can be given the object and
  the monitor it has.  `CInv`: the list of ids is in order, none of them is later
  than `lastTimestamp` of the object, and the sequence number a thread has
  drawn and not yet composed is beyond the ids of its millisecond.  The order
  of the list alone is not inductive: it says nothing of the fields the next id
  is made from.  `Unique` then needs `LongInjective`: ids with the same long are the
  same in every field.  Business, worker id and the clock's step backs do not matter.
* `RoleMenu_proofs`, of the tables (`GrantAssumption`): `TypeCorrect`, `Revoked`,
  `Stands`, `Whole`, for any requests, owners and items.  `NoRevokedRow` and the
  rest need to know how far a request is (`Progress`), that what it has inserted
  is there unless another request for its owner deleted since (`Inserted`,
  `LastKept`, `OneKept`), and that a request over before another was made has no
  step left (`OverBefore`).

  Of the menus (`MenuAssumption` as well): `MenuTypeCorrect`,
  `RevokedNotShown`, `Once`, `Decides`, for any users, roles, menus and logins.
  The invariant adds to that of `GrantTable` that the rows are finite, what a
  viewer has read (`Viewing`), that rows of one owner come from requests of which
  neither was over when the other was made (`RowsOverlapped`), and that every row
  was unrevoked by the requests heeded so far (`RowsHeeded`): `NoRevokedRow` alone
  does not say so of a request that failed after its deletion.  `Once`, about the
  step that lists the menus, counts rows: two of one menu are of two requests,
  which then have overlapped, or at two places of one list.
* `IdCluster_proofs`, of the registry (`RegistryAssumption`): `RegistryTypeCorrect`,
  `OneNode` and, under `~RegistrationMayStall`, `OwnsId`, for any
  processes, ids, sessions and faults.  The last two rest on `LInv`: a process that is gone has no registration,
  session or watched node (`Living`), no two processes share a session
  (`OneSession`), and one registration of a process at most is before the store
  of its id (`OneActive`), which is why the two slots of a process suffice.
  `OneNodePerSession` says nothing of what a process knows, and is not
  inductive: a node is kept (`Keeps`) if its process has just created it or
  watches it with no registration on its way to another, and of the others, the
  stray ones, there are no more than faults so far (`StrayPerFault`).  A step that
  makes a kept node stray is a lost reply or a failed check, or happens when
  there is none to be made stray.  `ContentOwnsId` needs `Owner`: between the
  creation of the node and the store of its id the session of the process holds
  the node (`Holding`), the creation time it remembers, if it is that of a live
  session, is that of its own (`Watching`), and then its worker id is the id of
  that node unless a registration is about to store it (`Owning`).

  Of the cluster (`ClusterAssumption` as well): `ClusterTypeCorrect` and
  `UniqueInCluster`, for any processes, layout and clock, and however
  registrations stall.  The invariant adds that the ids of an era are not from
  the future (`Past`), that those of a session that is gone are from an earlier
  millisecond, for the clock has advanced with its expiry (`Expired`), that a live
  session still holds the node of the ids it generated while entitled (`Held`,
  by which no two live sessions share a worker id), and that a process is
  beyond the ids of its session (`Counted`).  Of a call under way it says that a
  session that lives still holds what it held when the clock was read
  (`HeldSince`), and that what the call has drawn is ahead of every entitled id
  with one of those worker ids (`Ahead`): whatever worker id it composes with, if
  it is entitled, the id is new.
* `LoginRetry_proofs` (`RetryAssumption`): `TypeCorrect`, `NoneForever`,
  `Implementation`, for any threads, users, maximum and failing commands.  That
  `CountersExpire` is kept needs no more than the types: the thread between its
  SET and its EXPIRE is the witness, and if the EXPIRE fails, `broken` is.  The types, though, bound the counters by the attempts made,
  and that no failure exceeds them is not inductive: `Counted` and `Compared`
  relate each counter to the attempts that have read it and to those that are
  over.  For the refinement, `Only` says that an attempt of a user in `Alone`
  is the only one, and `LocalCount` that its local count is the counter's: the
  next one before the SET, the same one after.  Every step is then one of
  `RetryPolicy`'s for that user, or changes none of its variables.
* `ChatMessages_proofs`, of the connections (`ChatAssumption`):
  `ServerTypeCorrect` and `AtMostOneConnection`, for any
  channels, users, logins and restarts, and however logins overlap.
  `OneConnection` needs `LoginInv`: a user with a connection is active and the
  connection is in the group (`Entered`), and three counts are bounded by the
  overlaps (`BoundedFor`): the connections that a kick will miss, for they are not
  the registered one (`Missed`); these and the logins under way (`Running`), each
  of which will leave its own; and the connections with the logins that have
  kicked already (`Entering`).

  Of the messages (`MessagesAssumption` as well): `MessagesTypeCorrect`, `ReceivedInOrder`,
  `LoggedWasSent`, `ToldFirst`, for any messages and faults, and however logins
  overlap; and `MessagesAreServer`, that every behaviour with queues and messages is
  one of `ChatServer`, so that `AtMostOneConnection` holds of it.
  `InOrder` is about what was received, which is decided when it is queued: the
  invariant is about both together (`Have`).  What a channel has received is before what it has in
  its queue, and either is in order (`Queued`); who is routing a message has none
  later than it anywhere (`Begun`); to whom a message is due has it, is still to
  be written to, or has left (`Sent`); and who has a message has those before it
  that were due to him as well (`NoGap`).
  `ToldBeforeClosed` needs `Told`, that a queued `CloseTask` is behind a `Notice`; `LoggedIsSent`
  needs that the route of a logged message is over (`Logged`), and that a file
  is on the disk when its route begins, unless the disk failed at this file (`Filed`).
* `SessionStore_proofs` (`SessionAssumption`): `TypeCorrect`, `AllExpire`,
  `NoneStopped`, `NeverBack`, `NoneLingers`, for any threads, sessions and numbers
  of failing commands.  `StoppedIsDeleted` is not inductive: a client that holds
  a stopped copy could save it in a `touch`.  `Stopping` excludes this (whoever
  works on a stopped session, or has serialized one, is stopping it), and
  `Known` and `Working` say what a client under way works with and that it was
  created.  For `NoneLingers`, `Sweeping` says that a session that was there as
  stopped all the while is, once the scan is over, still to be read, or was read
  so, and then still to be validated, or being stopped by the validator.
* `RootLoad_proofs` (`FilesAssumption`): `LoadTypeCorrect`, `LoadCallsOnce`,
  `LoadOkComplete`, `LoadWaitsForSomething`, for any files, imports, loads and
  answers.  None of the properties is inductive: that success is called last
  rests on `Counted` (`queued` of a load is the number of its files under way)
  and on `Sound` (until its callback is called, none of its own files has
  failed).  `LoadWaitsForSomething` is the safety half of `LoadEnds`: a load
  whose callback is not called has a request or a timer under way.
* `ProtoWire_proofs` (`WireAssumption`): `ZigZag32Inverse`, `ZigZag64Inverse`,
  `LongBitsInverse`, `Fixed32Inverse`, `FixedInverse`: what the writer makes of a
  number is undone by the reader, for the fixed-size types wherever in a buffer
  it lies; `ReadUint32Bounded` and `ReadBytesBounded`: whatever the bytes,
  the reader throws or stays within the buffer.  They hold for every size of
  word, the 32 bits of the code among them.

  Of what is written: `CountedIsWritten`, the length that a call of the writer
  counts at once is that of the bytes which `finish()` writes the first time, for
  numbers, truth values and bytes; `VarintsInverse` and `BytesInverse`, every
  number of each varint type and bytes whose length fits a word are read back from where
  they were written, wherever that is and whatever is around it, and the reader
  goes on right behind them; `CutVarintThrows`, it throws if the buffer ends
  within the varint of a number of 32 bits, of a length or of an unknown field.
  These rest on `SeptetsEquation`: `Septets` meets its recursive equation.  A number of
  two words has ten digits at most (`NumberBound`), so the equation applied ten
  times to any function gives one that agrees with itself once more applied
  (`AgreeNext`).  `Digits` then says how many bytes a number takes, `Length64Of`
  that `Length64` and its three parts count as many, and `ReadDigits`, along the
  ten lengths there are, which digits the reader finds; `WordsOf` puts them
  together to the two words.

  Of texts (`TextAssumption` and `ChunkAssumption` as well: a septet has the 16
  blocks of surrogates and no more values than in the code, a chunk has room for
  two units): `TextCounted`, that `utf8.length` counts what
  `utf8.write` writes; `TextInverse`, that `utf8.read` gives a text back if it
  has at most two chunks or no pair of surrogates; `StringInverse`, that the
  reader does so with the length in front and goes on behind it, if that length
  is less than a word counts.  Without
  the hypothesis it is false, see "Observations".  The argument is an
  induction over the units (`WellFoundedInduction`, with a set of numbers in
  place of an operator): `Starts` is the byte with which a unit begins,
  `Collected` says that `chunk` and the text already taken hold the units so far
  once the reader is there.  A pair about the end of `chunk` makes it one unit
  too long; that does harm only when it has been filled once more, for which the
  text would need more than two chunks.

  Of the writer (`ValuesAssumption` as well: the values fit their types):
  `LengthsExact` and `WriterKeepsPromise`, for any values, also texts, and any
  order of calls.  The invariant for the lengths is about every level of the
  stack of states, for `reset` and `ldelim` bring it back, and about each operation as
  a call makes it, for `finish` changes none but those of 64 bits.
  For `ByteStack` it adds that of the pool: a buffer is as long as its
  level, so that the operations, each where the lengths before it end, fill it
  without a gap, and later ones leave it alone.

  Of the pool (`SlabAssumption`): `PoolBuffersKeep`, for any slab and any
  bytes.  The invariant says that a buffer in the slab being filled ends below
  `offset`, and that the array holds its bytes.

Only model-checked: liveness (`WaiterReturns`, `RegistrationEnds`,
`LostSessionRegisters`, `LockEnds`, `SupersededCloses`, `Delivered`, `LoadEnds`);
the reflection tree (`TreeConsistent`, `CachesFresh`, `ExtensionsApplied`,
`InParallel`, `NothingLost`) and the messages of the codec (`LenIsExact` of
`ProtoMessages`, `RoundTrip`, `CutIsNoticed`).  Liveness is out of the prover's
reach.  The operations on the tree call each other, as do `Encode` and `Decode`
of a message within a message: both are recursive operators, of which
the prover knows nothing.  What they are made of is proved: each value alone, its
length, the texts, and the writer with its forks.

## Findings

* `cluster_stale`: a process whose session has expired goes on with its worker
  id until its listener has run `doRegister`; meanwhile another process has
  registered that id, and both return the same long.
* `retry_race`: two attempts read the same counter and one of the failures is
  lost, so that there are more failed comparisons than
  `shiro.maxpassword.retrytime`.
* `chat_handshake`: `handshaker` is a field all channels share; a client of a
  supported version is told that it is not supported.

## Observations

Not properties of any run, but seen while the models were written.

* Id 31 is never assigned: `ZkIdGenerator.java:284` counts up to, not including,
  the largest id `CommonIdGenerator.java:39` allows.
* The order of ids that a registration stores is never used: `checkAndInitOrder`
  (`ZkIdGenerator.java:272`) accepts only lists of 1024 ids, and there are never
  more than 31 in one.  Every registration starts with the full pool and takes the
  least free id, also one that was freed a moment ago.
* `setWorkerId` is not synchronized with `nextId`: an id can carry a worker id its
  process did not hold when the time in it was read.  Such an id counts as not
  entitled.
* `lastTimestamp` lives in the process.  When the clock steps back while a
  worker id passes to another process, or the process restarts, longs repeat:
  `UniqueWhileEntitled` compares ids of one era only.
* A thread that read a session before another one logged out saves it again
  after the deletion (`RedisSessionDao.java:62`).  `GoneForGood` bounds this: not
  after the operations under way are over and the copies are a second old.
* `RedisSessionDao.java:61` sets the timeout of a session after it has been
  serialized, and to 3 600 000 ms, not the 1 800 000 of `ShiroConfig.java:178`.
* A key that expires between SCAN and GET makes `getActiveSessions` return a null
  (`RedisSessionDao.java:85`), at which Shiro's validation ends: the sessions
  after it wait for the next round.
* A session that cannot be deserialized ends `getActiveSessions` with those read
  before it (`RedisSessionDao.java:89`): as long as it is there, the validation
  may never see the others.
* A counter or session whose EXPIRE failed has no time to live until it is written
  again.  Of the counter of a locked account that is the next attempt, which
  renews the lock.
* A role that was given a menu twice by one request, or a menu added twice, lists
  it twice; so do overlapping requests (`MenuManager.java:35`).
* A file that cannot be written is announced with its path all the same
  (`FileMessageHandler.java:39`).
* Every attempt on a locked account renews the hour of the counter;
  `UserCredentialsMatcher.java:40` tells the user of ten minutes.  `LockEnds` holds
  with this and without, so it says nothing of it.
* `MessageRouter.java:31` reads the dispatch type and writes to the whole hall
  whatever it is.
* `queryByRole` filters by a column `menuType` that the table, by the other
  queries, calls `menu_type`; no caller sets that filter.
* The lists use `limit startPage, endPage` with the end index as row count.
* `RedisCache` keys a `PrincipalCollection` by its realm names: all users share
  one entry of the permission cache, while `SimpleUserRealm` puts a second one
  under the user name.  Nothing that is wired asks for a role today, so no
  behaviour reads either.
* `reloadShiroFiterChainMap` returns null, so `updateDynamicPermission` fails
  after it has cleared the chains.
* A role added with the id of one that was deleted has the rows of the old one.

Of the loading of `protobuf.js`:

* A file that another load has requested counts as attempted (line 5343): the
  second load reports success before it is parsed, and even if it fails later.
  In the same way a weak import that fails also fails, silently, for a file that
  imports it strongly afterwards.
* No connection gives status 0, which counts as an empty file: the load succeeds
  with a root that lacks its types.  The chat page decodes what it receives with
  a `WSMessage` that is undefined until it has loaded the schema to send a file.
* The callbacks `fromObject` and `toObject` of a type are not cleared with
  `encode`, `decode` and `verify` (line 6541): they keep to the fields of their
  first use.  Values added to an enum after its functions were generated are
  refused by `verify` and the converters.
* An addition or removal that throws half way leaves the caches of its
  namespace.  Two extensions with one id leave the second in `deferred` with its
  sister set, and every later addition of a type throws.
* Merging two namespaces moves the members one by one; a duplicate name midway
  loses the rest, although the comment of line 3380 says that they are kept.
  `NothingLost` excepts what an addition threw with (`broken`), so no run shows it.
* The type that a relative `extend` names is looked up among what has arrived
  (lines 5394-5395), so it can depend on the order of replies.
* `OneOf.add` of a field of another oneof leaves it in the old one's list;
  `OneOf.add` and `remove` do not clear `verify`.
* When a sister field has been removed by hand, removing its extension throws a
  TypeError; removing the extended type leaves the sister in it.
* `Service.resolveAll` resolves its methods and not what is nested in it.
  `Enum.remove` of an alias removes the number of the other name.

Of its wire format:

* `utf8.read` fills `chunk` again without setting its length (line 1064).  A
  pair of surrogates at the end of it makes it one unit longer, and when the
  next 8192 units are taken, the old one is taken with them: a text of more than
  16 384 units can be read back with a unit that nobody wrote.  TLC shows it with
  `LongProtoMessages.cfg`.
* `readLongVarint` with three or four bytes left takes the last of them without
  a look at its continuation bit (lines 4899-4901): a long cut there is read as
  another one.  `CutIsNoticed` says nothing of 64-bit varints.
* `writeVarint64` shifts the LongBits of the operation (line 8417): a second
  `finish` of a writer writes wrong bytes where a 64-bit value was.
* A map's entry is decoded as key, then value (line 1847), which other writers
  need not keep to; a `map<bool, ...>` with the key `"false"` is encoded as true.
* The length of a nested message is not compared with the end of the message
  around it.  A group cut between two fields at the end of the buffer is read.
* `fromObject` drops empty bytes (line 1586), and leaves holes in an array of
  them, with which `encode` then throws.  An `encode` that throws leaves its
  writer half written.
* `verify` accepts integers beyond 32 bits, which `encode` truncates; the inputs of
  `codec` leave them out, so `RoundTrip` says nothing of them.  Joined
  messages can have two members of a oneof.
* `verify` checks "that required fields are present" (the comment of line 6853),
  but a required field that nobody has set passes with the default of the
  prototype, is written, and read back as that: `RoundTrip` compares with the
  default.
* `encodeDelimited` within an empty fork ends that fork (line 6824).
* Bytes that are read are a view of the buffer.  The pool aligns to 8 bytes, its
  comment says 32 bit (line 998).

## Not modelled

Wiring and data classes, logging, the SQL interceptor (stateless: it prepares,
logs and prepares again), generated protocol classes, the test page but for how
it uses the library, the sentinel manager (its pool is never built), chat listeners (never called), chat
rooms besides the hall (never registered, and nobody can join one), user
registration (empty).

Of `protobuf.js`: the synchronous load (it needs a file system), options and
comments (nothing the properties are about reads them), the tokenizer (a file is
modelled as its declarations), `toJSON`, wrappers of well-known types, rpc,
streams of methods, code generation (its result is modelled, not its text),
float and double and base64 (conversions without state), the variants for Node's
buffers, `Enum.remove`.  The dynamic permissions stay out: the reload method
returns null today, so the only behaviour is that of an exception after the
chains were cleared.

## Plan

Done: ids, registry, cluster; sessions, their validation and the retry counter
over one Redis; grants, roles and menus; chat connections, login and messages;
loading, reflection, wire format, writer and codec of the chat page's library;
proofs of every safety property and refinement of the runs but those of the
reflection tree and of the codec's messages.

Next, in this order:

1. Proofs of the reflection tree and of the messages of the codec, whose
   recursive operators have to become recursive functions first.
2. `AccessControl`: a request passes the filter chains, which
   `updateDynamicPermission` clears and rebuilds, the session check of
   `ShiroAxiosFilter`, and the permission cache with its shared key, while roles
   change and users log out: once the reload method returns chains.
3. `ShiroCaches`: `RedisCache` and `RedisCacheManager` whole, with the SCAN of
   `SessionStore`: `clear`, `keys`, `values` and `size` among other clients.
4. `modifyRole`, `modifyMenu` and the paging of the lists as functions checked
   against a reference.
