# TLA+ models of wikid-api

This directory holds TLA+ models of the parts of `src/` where concurrency and
caching decide correctness. Each model comes with TLC configurations. The
models cover four areas:

- the websocket hub (`src/api_ws`, `src/chat_server`, `src/internal_handlers/broadcast_message.go`);
- the community permission store and its Redis cache (`src/handlers/validations.go` and the handlers that write permissions);
- the opaque id codec (`src/security_helpers/object_id.go`), whose output names the hub's topics;
- the content of a community: channels, groups, messages, reactions and the broadcast POST a new message triggers (`create_message.go`, `edit_message.go`, `react_to_message.go`, and the channel and group handlers).

`PROJECT.json` is the machine-readable index. It lists:

- every component, with its modelling status;
- every TLC run and what it expects;
- a mutant for every property of a passing run;
- the source lines each definition translates;
- the findings;
- the hazards the code is exposed to.

## 1. Inventory of the system

| Part | Code | State | Operations | Interacts with |
|---|---|---|---|---|
| Hub loop | `api_ws.go:34-163` | `server.Clients` (conn → `*Client`); unbuffered channels | Register, Subscribe, Unsubscribe, Echo, Broadcast, Unregister (one `select` case each) | spawns goroutines per event, and per client on each Broadcast |
| Client | `chat_server/server.go:10-15` | `Topics`, `IsClosing`, `Mu` | edited by the hub's goroutines under `Mu` | a failed write sends Unregister while holding `Mu` |
| `/ws` handler | `api_ws.go:279-372` | the connection's read loop | sends Register, Echo, Subscribe, Unsubscribe; deferred Unregister + Close | hub channels |
| Broadcast endpoint | `broadcast_message.go:25-77` | – | sends on `server.Broadcast` | called over HTTP by `create_message.go:726` |
| Permission cache | `validations.go:42-116` | Redis key `PermissionRedisKey(u,c)`, 1h TTL | miss → read row → asynchronous Set; hit → decode | every permission-checked handler |
| Recompute | `validations.go:131-364` | `communities_users` flag columns | defaults ∪ grants of held roles, or everything for the owner; UPDATE + Del per user | role, default, membership handlers |
| Role/default handlers | `create/edit/delete_community_role.go`, `edit_community_default_permissions.go` | `community_roles`, `community_roles_users`, `communities` | one transaction each; the role edit uses two, in a goroutine | recompute, cache |
| Membership handlers | `kick_user.go`, `ban_user.go`, `leave_community.go`, `join_community.go`, `sign_up.go`, `sign_in.go` | `communities_users`, `communities_banned_users` | one transaction each | recompute (some), cache (some) |
| Messages | `create_message.go`, `edit_message.go` | `messages` rows; InnoDB snapshot of the create transaction | create (merge into the sender's last message, or insert), edit | a goroutine POSTs each new message to the broadcast endpoint |
| Reactions | `react_to_message.go` | Redis `message-reactions-<id>` JSON | read, toggle, Set in a goroutine | – |
| Channels and groups | `create_channel.go`, `edit_channel.go`, `delete_channel.go`, `channel_select.go`, `create_group.go`, `delete_group.go` | `channels`, `channel_groups`, `selected_channel_id` | read outside the transaction, then one transaction | messages (deleted with their channel, not with their group) |
| Opaque ids | `security_helpers/object_id.go` | – (pure) | Encode: `%d/%s/%s`, pad, AES-CBC, base64 twice; Decode: the inverse without unpadding, split, ParseUint | every handler; topics are channels' opaque ids |
| Not modelled | invites, auth, views, tasks, scheduler, railway | see `PROJECT.json` components | | |

What makes these parts hard to test:

- Hub:
  - goroutines that run in any order under a per-client mutex;
  - a failed writer that holds the mutex while it blocks on an unbuffered channel;
  - a Broadcast whose topic check happens later, in the goroutine.
- Permissions:
  - a cache-aside fill that runs asynchronously;
  - Redis deletions issued before the transaction commits;
  - a handler that reads its inputs outside its transaction;
  - a handler split into two transactions;
  - a query that fails on every call (§4).
- Channels and messages:
  - handlers that read a row, then write in a later transaction, while another handler deletes it;
  - a merge that writes text computed from a non-locking snapshot read;
  - goroutines (broadcast POST, reaction Set) that outlive the request.

## 2. Modules

### ChatHub.tla (hub, `/ws` handler, broadcast endpoint)

State:

| Variable | Models |
|---|---|
| `reader[c]` | the `/ws` goroutine of connection `c`: its program point, the event it is blocked sending, frames read |
| `transport[c]` | the socket |
| `registered` | the domain of `server.Clients` |
| `client[c]` | the `Client` struct (`Topics`, `IsClosing`). It is kept apart from `registered` because goroutines keep the pointer after the map entry is deleted. |
| `tasks` | the goroutines the hub spawned and that have not returned. Stage `"unreg"` is a failed writer blocked on `server.Unregister <- connection` while holding `c.Mu`. `Locked(c)` is true exactly then. |
| `bcast[b]` | a broadcast-message request |

History variables, used only by properties:

| Variable | Records |
|---|---|
| `hubSubs` | the topics of each connection, in the order the hub took Subscribe/Unsubscribe |
| `requested` | topics a connection asked for |
| `eligible` | who the hub owed each broadcast |
| `delivered` | writes |
| `lateWrites` | writes after Unregister |

Actions:

- Each hub action is one `select` case:
  - `HubRegister`;
  - `HubSubscription` (both Subscribe and Unsubscribe);
  - `HubEcho`;
  - `HubBroadcast`;
  - `HubUnregisterReader` and `HubUnregisterTask` (the two possible senders of Unregister).
- Each goroutine body under `c.Mu` is one atomic step:
  - `RunSubscription`;
  - `RunWrite`, whose failure branch is `WriteFailed`.
- The reader's steps are:
  - `Connect`;
  - `ReadFrame`;
  - `ReadPing` (the ping handler, which takes `c.Mu`);
  - `ReaderExit` (read errors and every parse-failure return);
  - `ReaderConnLost`;
  - `ReaderClose` (the deferred `c.Close()`).

### PermissionCache.tla (permission rows, roles, cache)

The model covers one community.

State:

| Variable | Models |
|---|---|
| `db` | the committed tables: users, defaults, roles, grants, role users, one row per member or `NoRow`, banned, and whether the community row exists (`live`) |
| `txn` | the open write transaction's table image |
| `cache[u]` | the Redis entry, or `Miss` |
| `fills` | asynchronous Sets started by `HasCommunityPermission` |
| `roleEdits` | `EditCommunityRole` goroutines between their two transactions, each with the members list and the community record the handler read first |
| `joins` | join requests in flight |

How a handler is modelled:

- Its first step runs its statements against an image of `db`.
- It applies its Redis deletions at once, because they precede the commit.
- `Commit` installs the image. `Abort` drops it, and the deletions stay done.
- The guards come from the handler's early returns, e.g. the owner guard of `LeaveCommunity`, or `r ∈ db.roles`.

`Recalculated` runs the flag loop of `PermissionRecompute` over the roles in the order of `RoleOrder`, and `Recompute` is the UPDATE of each listed member. The properties compare rows with `Entitled`, the set form of the spec (defaults ∪ grants of held roles, everything for the owner), so a wrong loop breaks `RowsMatchGrants`.

`DeleteCommunity` (`delete_community.go`) deletes the member rows, role users and roles in one transaction and Dels no Redis key. Every other handler first looks the community up by handle (`CommunityFound`) and answers Not found once it is gone; `Gone` is that idle state.

### PermissionStore.tla (abstract specification, spec.md §4.2)

What §4.2 promises of the tables, without transactions or cache: the state is the members, the defaults, the roles with their grants, who holds which role, and every user's stored snapshot. Each mutation (create, edit or delete a role, edit the defaults, add or remove a member) is one atomic step that sets every snapshot to what ownership, the defaults and the held roles give.

`PermissionCache` instantiates it as `Store` with this refinement mapping:

| PermissionStore | PermissionCache |
|---|---|
| `members` | `Members(db)`, the users with a row |
| `defaults`, `roles` | `db.defaults`, `db.roles` |
| `grants[r]` | `db.grants[r]` for a live role, `{}` otherwise |
| `holds` | the `community_roles_users` pairs of current members |
| `perms` | `db.rows` |

`ImplementsStore == Store!Spec` is checked as a PROPERTY. It holds when every `Commit` is exactly one abstract mutation, and every other step (`Open`, `Abort`, cache steps) leaves the mapped state alone. This is stronger than `RowsMatchGrants`: a commit must also not move anything else, e.g. a kick changes no other member's row.

### ObjectId.tla (pure operators, the opaque id codec)

`Encode` and `Decode` of `object_id.go`, over byte sequences. `Decimal` is `%d` (RECURSIVE), `ParseUint` is `strconv.ParseUint` with its width (an error for an empty field, a non-digit or a value of `Width` bits or more), `PadBlock` is `GetAESEncrypted`'s padding (`16 - len % 16` bytes of that value, none when aligned), and `GetAESDecrypted` checks whole blocks and leaves the pad in place, as the commented-out `PKCS5UnPadding` does. `Decode` wants exactly two `/` (three fields) and returns the first two. AES-CBC under the fixed key and IV and the two base64 encodings are modelled as injective, length-preserving encodings (a byte becomes `<<Key, byte>>` or `<<alphabet, byte>>`) that their decoders invert; `CryptBlocks` on a partial block panics, which is `Encode`'s `<<FALSE, _>>`. `MCChatHub` instantiates it as `Codec` with 16-bit ids (uint64 in the code; TLC's integers cannot hold 2^64) and a real uuid salt, and names the hub's two topics by the opaque ids of channels 100 and 65535: the first formats to exactly 48 bytes (no pad), the second to 50 (14 pad bytes).

### PermissionRecompute.tla (pure algorithm)

`OrRoles` is the RECURSIVE translation of the role loop (`validations.go:306-340`, and likewise `174-213`), and `Recalculate` the per-user computation with the owner case. `PermissionCache` instantiates the module (`Loop == INSTANCE PermissionRecompute`) for every recompute. Since OR is commutative, one fixed role order (`SetToSeq`) stands for every order MySQL may return.

### Channels.tla (channels, groups, messages, reactions)

The model covers one community. Permission checks are `PermissionCache`'s concern and pass here.

State:

| Variable | Models |
|---|---|
| `groups`, `channels`, `groupOf` | live `channel_groups` and `channels` rows, and `channels.group_id` |
| `made` | ids AUTO_INCREMENT has handed out; an id is never reused |
| `selected` | `communities_users.selected_channel_id` |
| `msgs` | `messages` rows by id; a deleted row keeps its slot with `live = FALSE` |
| `creates[l]` | the CreateMessage request that sends line `l`: its stage, and the snapshot row it read |
| `pend[u]` | the channel request of user `u` between its read and its transaction |
| `reacted`, `setters` | the Redis reactions and the Set goroutines in flight |
| `shown[i]` | the text of the last broadcast of message `i` the hub took: what a subscriber shows |

How a handler is modelled:

- A handler that reads rows before its transaction has two steps: the read (`CreateChannelRead`, `EditChannelRead`, `CreateOpen`) keeps what it saw; the second step runs the writes and the commit.
- `CreateMessage` has four: `CreateOpen` (channel read, transaction begin, parent read, snapshot read of the channel's last message), `CreateWrite` (merge UPDATE or INSERT, file uploads that may fail, commit), `Reread` (the message and parent read again for the answer; a missing row answers Not found) and `Post` (the broadcast goroutine).
- `EditMessage` and `SelectChannel` are single steps: a delete between their read and write ends in the same state as a delete just after.
- `DeleteGroup` deletes the group's channels and leaves their messages.

## 3. Runs and what they show

Passing runs:

| Run | Properties | Shows |
|---|---|---|
| `hub` (`MCChatHub.cfg`) | `TypeOK`, `OnlySubscribersReceive`, `TopicsNameTheirChannels`, `GoroutinesReturn`, `ClosingLeavesRegistry` | every topic a client subscribes to or a broadcast names is an opaque channel id that encodes without a panic and decodes to its channel id and the `Channel` tag, whether its plaintext was padded or block-aligned (mutant: a pad one byte too long); a subscribe frame without a topic is refused (mutant: the `topic` check of the `/ws` handler dropped, and `TypeOK` fails); a broadcast is written only to a connection that asked for its topic; every spawned goroutine returns, although a failed writer holds `c.Mu` across the Unregister send; a closing client leaves the registry. Mutant: an Unregister case that takes `c.Mu` deadlocks. |
| `perm_rows` (`MCPermissionCache.cfg`) | `ImplementsStore` | creating and deleting roles, kicks, bans and leaves implement `PermissionStore`: every commit is one atomic mutation of spec.md §4.2 with its recompute. Role edits are left out: their first transaction commits new flags with no recompute, and their second inserts role users without checking the role still exists (`edit_community_role.go:318`), which a concurrent deletion turns into role users of a deleted role (a hazard in `PROJECT.json`). |
| `perm_all_handlers` (`MCPermissionCacheLive.cfg`) | `TypeOK`, `OwnerHasEveryCapability` | every handler of the permission tables and the cache interleaved (checks and fills, default edits, role creation, edits and deletion, kick, ban, leave, join, sign-in, sign-up, community deletion): every recompute gives the owner every flag while the owner is a member. Mutant: a recompute without the owner branch. |
| `channels` (`MCChannels.cfg`) | `TypeOK` | every channel, group and message handler interleaved; a reply's parent is always an earlier message (mutant: no parent lookup at `create_message.go:237`) |

Violation runs. Each one is a finding in `PROJECT.json`:

| Run | Property | What the code does |
|---|---|---|
| `hub_broadcast_order` | `BroadcastFollowsHubOrder` | a connection receives a broadcast for a topic it subscribed to after the hub took the broadcast (`api_ws.go:128`) |
| `hub_write_after_unregister` | `NoWriteAfterUnregister` | Unregister does not mark the client closing, so queued deliveries still write (`api_ws.go:157`) |
| `hub_subscription_order` | `SubscriptionsFollowRequests` | Subscribe/Unsubscribe goroutines reorder (`api_ws.go:43`) |
| `perm_edit_defaults` | `RowsMatchGrants` | rows are recomputed from the old defaults (`edit_community_default_permissions.go:175`) |
| `perm_edit_role_members` | `ReassignmentMatchesGrants` | new role holders are not recomputed (`edit_community_role.go:332`) |
| `perm_fill_race` | `CacheNeverElevated` | a fill read before a role deletion commits lands after its Del (`validations.go:78`) |
| `channels_lost_update` | `CommittedLinesKept` | two lines of one user merge into the same message from one snapshot, and the later UPDATE drops the other line (`create_message.go:264`) |
| `channels_reaction_toggle` | `ReactionsFollowToggles` | a reaction is toggled in the JSON the request read and written back by a goroutine after the answer, so a user who reacts twice before the first Set runs stays reacted; two users lose one toggle the same way (`react_to_message.go:204`) |

More bugs are not separate runs. Each is recorded as a hazard in `PROJECT.json`, with the trace TLC gives when the handler is added to a run's `Ops`:

- `EditCommunityRole` commits the role's new flags before any recompute (`edit_community_role.go:224`). `RowsMatchGrants` and `ImplementsStore` fail right after `EditRoleUpdate` commits.
- Kick and ban never delete the Redis key. `CacheNeverElevated` fails after `CheckPermission`, `FillCache`, `KickUser`, `Commit`.
- The owner can be kicked. `OwnerHasEveryCapability` is stated while the owner is a member; without that guard it fails after `KickUser(owner)`, `Commit`.
- A channel created or moved into a group that a concurrent `DeleteGroup` removes keeps the dead group id and is never listed (`create_channel.go:121`, `edit_channel.go:169`): `CreateChannelRead`, `DeleteGroup`, `CreateChannelInsert`.
- Two broadcasts of one merged message can reach the hub in the other order (`create_message.go:726`), so a subscriber keeps the older text. spec.md makes ordering beyond "after a commit" a non-goal.
- `DeleteChannel` leaves `selected_channel_id` pointing at the deleted channel, and `channel.go:106` answers Not found.

The join failure (§4) is modelled as the step `JoinBannedQueryFails`. A property stating that joins succeed would only restate that step, so no run checks one.

## 4. Modelling decisions

- **Unbuffered channels.** A send is a blocked producer state, and the receiving `select` case is the hub action. This is exact for unbuffered channels.
- **Mutex.** A goroutine's critical section is one atomic step. The only interleaving inside a critical section that matters is the blocking Unregister send, and it is modelled as the `"unreg"` stage.
- **Fairness (hub).**
  - Hub receives are weakly fair. Go's `select` picks uniformly among ready cases, and a blocked sender stays ready.
  - Goroutine steps that need `c.Mu` are strongly fair. The lock is released and re-taken, and `sync.Mutex` starvation mode hands it to a waiter that has waited more than 1 ms.
  - `ReaderConnLost` and `ReaderClose` are local steps of a running goroutine, so they are weakly fair.
  - Clients and broadcasters are not fair: a client may stop at any time.
- **Fairness (permissions).** `Spec` makes `Expire` (the Redis TTL) weakly fair, but no run checks a liveness property of this module: that stale entries expire follows from the one Set at `validations.go:79` always carrying a TTL, which is no question for a model checker. `ImplementsStore` is a safety property (the abstract `Spec` has no fairness).
- **One write transaction at a time.** This stands for MySQL row locking. It hides the lost-update interleavings of REPEATABLE READ, which are listed as a hazard.
- **Community read collapsed into the first step.** `DeleteCommunityRole` and `EditCommunityRole` read the community before their transaction. The model collapses that read into the handler's first step. It matters only when defaults change concurrently, and that run already fails on `EditDefaults`.
- **The banned query.** `join_community.go:170` and `sign_in.go:266` run `... WHERE user_id = ? AND community_id` with two arguments. database/sql checks the prepared statement's parameter count (1) against the arguments (2) and returns an error. The MySQL driver's client-side interpolation also declines a mismatched count and falls back to preparing. Both join paths therefore return before their INSERT commits. The model has the requests (`JoinRequest`, and `SignInRequest`, whose member-row INSERT is rolled back with it) and their failure (`JoinBannedQueryFails`). The unreachable INSERT is not modelled.
- **`communiy_roles_users`.** Kick, ban and leave delete from this table, whose name no other statement uses. If the table does not exist, the handler always rolls back having done nothing, which the model covers as the handler not running. Otherwise the user's `community_roles_users` rows survive, and the model keeps them.
- **Fairness (channels).** `Spec` makes the steps of a started request weakly fair (`CreateWrite`, `Reread`, `Post`, `CreateChannelInsert`, `EditChannelWrite`, `ReactSet`), each a goroutine that runs on without waiting for anything but its own row locks. No run checks liveness here: with every step always enabled, that each request is answered would hold by construction, and the row locks that could make it wait are not modelled.
- **Snapshot.** `CreateOpen` keeps the row its snapshot read; `CreateWrite` writes the snapshot's text plus the new line, which is what the Go code sends in its UPDATE. The UPDATE of a deleted row changes nothing and the request then fails at `Reread`.
- **Reactions.** `React` reads the reactions JSON from the read replica; the model lets it read the primary's current value, the best case, and the toggle is still lost. `toggled` is a history variable (each user's parity of requests per message) used only by `ReactionsFollowToggles`.
- **SignUp.** The recompute's errors are ignored, and the row then keeps its column defaults, taken to be false. This is why `perm_rows` excludes `signUp`.

## 5. Bounds

| Model | Bounds | Why they are enough |
|---|---|---|
| Hub (`hub`) | 2 connections, 2 topics (the opaque ids of one aligned and one padded channel id), 1 frame per connection; no symmetry (liveness is checked in the same run) | each connection subscribes, unsubscribes or pings once, racing one broadcast and write failures; two frames per connection or a second broadcast take the liveness check past ten minutes |
| Permissions | owner, one member, one user yet to sign up; 2 flags and up to 2 roles (1 flag, 1 role and no second member for `perm_all_handlers`, which runs every handler: 2 flags take it past six minutes); one pending role edit (`MaxRoleEdits`) | the violation traces need 2-7 steps. `Ops` selects the handlers of each run, so that each run stays under a few minutes. |
| Channels | the owner, 2 groups, 2 channels, 1 line (`channels`); 3 lines and CreateMessage alone (`channels_lost_update`); 1 line with CreateMessage and ReactToMessage (`channels_reaction_toggle`) | one line already meets every deletion between the steps of CreateMessage; the lost update needs one line to create the message and two to merge into it. Two users, or two lines with every handler, take TLC past several minutes. |

## 6. Plan for later sittings

1. An abstract hub specification (a registry plus per-connection ordered delivery) and a refinement mapping from `ChatHub`, stated where it holds: echo and registry only.
2. Composition of `Channels`' `Post` with `ChatHub`'s `PostBroadcast`; a run for the channel-group race (every run slot is in use).
3. A violation run for ignored recompute errors in SignUp/SignIn. Lost updates of concurrent transactions (a second writer with a snapshot).
4. `delete_community`'s deletion of channels and messages in `Channels`, and leave's cross-community deletion, with two communities.
5. A violation run for `create_channel.go:119`, which ignores the decoded type tag: it needs numeric ids shared by two tables, which the models do not have.
6. Asynq task retries for community creation and deletion.
