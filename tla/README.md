# TLA+ specifications of whales-im

whales-im is an instant-messaging back end in Go: gateways that keep the users'
websocket connections, login and chat services behind them, a message service,
redis for sessions and consul for service discovery. This directory models the
parts of it in which concurrency, failure and ordering decide whether it works,
checks them with TLC, and proves the core with TLAPS.

Reading order: `SessionRegistry`, `Session`, `SessionProof`; `Talk`, `TalkProof`,
which build on the registry; `Group`, `GroupProof`; then the supporting models: `Wire`
with `Storage` and `Client` on top of it, `Server`, `Channel`, `Discovery`. Three modules
are abstract, a promise that a more detailed module is shown to keep: `SessionRegistry`
(kept by `Session`, relied on by `Talk`), `Connections` (kept by `Server`, relied on by
`Session`) and `MessageStore` (kept by `Talk` and by `Group`). Proofs are in the `Proof`
modules; the one about `Storage` is in `SessionProof`.

## 1. The system

| Component | Source | State | Operations | Talks to |
|---|---|---|---|---|
| Gateway handler | `services/gateway/serv/handler.go` | none of its own | `Accept` (token, channel id, forward SignIn), `Receive` (forward), `Disconnect` (forward SignOut) | container, servers |
| Login service | `services/server/serv/handler.go`, `services/server/handler/login_handler.go` | none | `Receive` (session lookup), `DoSysLogin`, `DoSysLogout` | storage, container.Push |
| Session storage | `storage/redis.go` | `login:loc:<account>`, `login:sn:<channel>`, both for 48 h | `Add`, `Delete`, `Get`, `GetLocation(s)` | redis |
| Context, router | `core/context.go`, `core/router.go` | pooled contexts | `Serve`, `Resp`, `Dispatch` | Dispatcher |
| Channel | `core/channel.go`, `core/event.go` | write channel, closed event, once | `Readloop`, `wirteloop`, `Push`, `Close` | connection |
| Servers | `tcp/server.go`, `websocket/server.go`, `core/channel_manager.go` | ChannelMap | `Start` (goroutine per connection), `Push`, `Shutdown` | Acceptor, listener, channel |
| Clients | `tcp/client.go`, `websocket/client.go`, `tcp/connection.go` | state word, connection, mutex | `Connect`, `Send`, `Read`, heartbeat, `Close` | connection |
| Container | `container/*.go` | `srvclients`, life-cycle state | `Start`, `connectToService`, `buildClient`, `Forward`, `Push`, `shutdown` | naming, clients, server |
| Naming | `naming/consul/naming.go` | watches, mutex | `Register`, `Subscribe`, `Find`, `watch` | consul |
| Chat handler | `services/server/handler/chat_handler.go` | none | `DoUserTalk` | storage, message service |
| Message service | `services/service/handler/message_handler.go` | message tables, redis read index | insert for a user or a group, ack, offline index | MySQL, redis |
| Group service, its client | `services/service/handler/group_handler.go`, `services/server/service/group.go` | group tables | create, join, quit, members, detail | MySQL, http |
| Encodings | `wire/endian/helper.go`, `iface/location.go` | none | integers, strings, `Location` | |

**The path of a login.** A websocket client connects to a gateway and sends
SignIn. `Handler.Accept` checks the token, makes a channel id, and forwards
SignIn over a tcp link to a login service. That service starts a goroutine for
the packet, which looks for an older location of the account, sends it
KickoutNotify, writes the location and the session to redis, and pushes
LoginResp back over the gateway's link. Meanwhile the gateway returns from
`Accept`, adds the channel to its `ChannelMap` and reads it. When reading ends
the channel leaves the map and SignOut is forwarded, to be handled by another
goroutine that deletes the location and the session.

**The path of a message.** The sender's packet reaches a chat service, whose
`DoUserTalk` reads the receiver's location, has the message service store content
and index rows in one transaction, pushes the message to that location, and
answers. The receiver acknowledges it, or finds it later with the offline query;
both move his read index in redis.

**What is hard here.** Every packet has a goroutine of its own, so packets of one
connection are handled in any order; the storage is written one redis command
at a time by handlers that hold no lock; logins and logouts of several devices
of one account meet there; every step may fail or its process die; the answer of
a login races the gateway's own next step; and below, frames of several writes
share a connection, a `ChannelMap` is tested and filled in two steps, and a watch
runs for ever inside a lock. `PROJECT.json` lists each hazard at its line.

**What makes each part correct.** Storage: a location leads to a session of its
account, and what was deleted stays deleted. Login: whoever was told his login
succeeded is served while connected, only rivals are kicked out, and a session
ends with its connection. Channel: closed once, and its goroutines end if the peer lets
them. Server: the map never names an ended connection, and a connection loses its entry
only to one of its id that overlapped it. Client: frames do not cut each other. Discovery:
every dependency gets its clients, and a service that is up is in the end used. Messages:
what the sender was told is stored, and a read index names a message. Groups: a row
changes only by a call for it.

## 2. The modules

### Session, SessionRegistry, SessionProof, MCSession

`Session` is the core: the gateways, the login services and redis together.

| Variable | Stands for |
|---|---|
| `conn[c]` | where the gateway's goroutine for the connection with id `c` stands: `accepted` after `Handler.Accept`, `open` while in the ChannelMap, `closing` after `Remove`, `closed` |
| `inbox[c]` | the kinds of packet the gateway has written to the connection |
| `down` | packets pushed by login services, in flight to a gateway |
| `login[c]`, `old[c]` | where `DoSysLogin` for `c` stands, and its local `old` |
| `logout[c]`, `talk[c]` | where `Receive` and `DoSysLogout`, or `Receive` of another packet, stand |
| `loc[a]`, `sn` | redis: the location key of an account, the channels that have a session key |
| `lapsed` | history: the channels one of whose two keys expired |

Each redis command, each push and each forwarded packet is one action; the code
between two of them is local to a goroutine and is merged into the action before
it. A packet in flight to a login service and a goroutine that has not touched
redis yet are one program-counter value, because the order of the goroutines is
free anyway. `Faults` says which failures a behaviour may have: `forward`
(`container.Forward` returns an error), `redis` (a command fails, with or without
effect), `crash` (a handler's process dies or its packet is lost), `stop` (a
gateway's process ends), `expiry` (keys time out).

`SessionRegistry` is what `iface.ISessionStorage` promises: a channel is bound to
its account's location, stored, unbound and erased once, in that order, and a
location moves only by a new session of its account, the end of a session, or
expiry. `Session` implements it under the mapping `where <- loc` and `phase`, which
is computed from the session key and the program counters.

Ids are handed out once: `generateChannelID` is gateway, account and a sequence
number. A restarted gateway would count from 1 again; the instance of `Session`
then is the ids of one life of each process, which is why `GatewayStop` leaves ids
that were not handed out to the next process. An id that is used twice, across a
restart within 48 hours, is not modelled.

### Wire, Storage, WireProof, MCStorage

`Wire` has the encodings as operators on sequences of bytes: the little-endian numbers,
byte strings after 16 or 32 bits of length, `iface.Location`, and the frames of a tcp
connection. A byte is a digit of `Base`, which is 256 in the program and 2 or 3 in the
instances, so that four bytes overflow a "16 bit" length. A failing read is `Failed`; a
sequence that ends stands for a buffer, or for a connection that ended.

`Storage` extends `Session` with the bytes of its location keys: `Session` keeps in
`loc[a]` the channel that wrote the key, `LocationOf` is what `Add` encodes for it, and
`GetLocation` what comes out again, the error of `Unmarshal` passed over.

### Server, ServerProof, MCServer

`tcp.Server` and `websocket.Server` in one module, which treat a connection alike:
`handler[x]` is the goroutine of connection `x` (Accept, Get, Add, Readloop,
Remove, Disconnect, Close), `map` the ChannelMap, `push`/`target` a goroutine in
`Push` between its `Get` and its write, `stop`/`all` Shutdown and its list. `Tcp`
selects `tcp.Server.Push`, which dies on an unknown id, and `tcp.Server.Start`, which
calls Close on a nil connection, and dies, when the listener returns an error
(`AcceptFails`).

`met` is a history: the pairs of connections with one id of which one passed its Get while
the other was between its own Get and its Remove (`Beside`). `LostOnlyToRival` allows a
connection that is read to be missing in the map only if it is in such a pair. A gateway
that dials again after its old connection was removed is in none, and neither is a
connection with one that was refused.

The instance is a tcp server to which one gateway dials twice under its one id, so that
two connections race for an entry of the map, and another gateway once.

### Connections

What `iface.IServer` promises to those on either side of it: a connection is accepted or
refused, can be pushed to from then until reading it ends, is reported gone after that,
and all end with their process. `Server` implements it for the connections that share their
id with no other (`Alone`), whatever the others do: on a gateway these are all
connections, on a tcp server those of a gateway that does not redial. There `life` is
computed from `handler` (`accepted` is after Accept and up to Add, `closing`
after Remove until Disconnect has returned) and `reach` from `map`. `Session` abstracts
from `map`: its `Deliver` looks at `conn[c] = "open"`. That is the same promise, with
`life <- conn` and one process for each gateway (`UsesConnections`), so what `Session`
assumes of a server is what `Server` was shown to do.

### Channel, ChannelProof

One `core.Channel`: `reader` runs Readloop and then Close, `receive` are the
goroutines Readloop starts, `loop` is wirteloop, `once`/`closer` are the sync.Once
and the calls of Close, `chan` and `fired` the write channel and the event. `peer` is what
the other side does at the moment: it "talks", sending frames before the read deadline, and
it "takes", reading what it is sent; `PeerTurns` changes either at any time.

The deadlines matter here. Readloop renews the deadline of its reads before each frame
(`channel.go:113`), pings included, so a peer that pings in time is read for ever, after a
Close by Shutdown too, which leaves the connection open. Writes have no deadline, as
`writewait` is set and never read: wirteloop and the pong of Readloop wait for a peer that
takes nothing until the connection fails. `GoroutinesEnd` therefore has premises. If writes
come to return for good, the write loop ends after any Close, and if the peer then falls
silent for good or is gone, the reader's goroutine returns from Close.

### Client, ClientProof, MCClient

One client after Connect: `pc[w]` for senders, the heartbeat (`"ping"`) and
`"close"`, `part[w]` how much of its frame a writer has written, `lock` the mutex,
`clash` a history of which writers' frames were mixed. `stream` is the history of the
bytes on the wire, in the pieces in which `WriteFrame` writes them, and `whole` that of
the frames that are complete in them; both end (`torn`) when a frame is cut by another or
given up at the write deadline, from where on the peer is out of step. `Break` may cut a
piece in the middle. `Wire` tells what the peer reads: its loop takes frame after frame and
returns at a close frame (`channel.go:120`), reading nothing behind it. A Send tests the
state word before it takes the lock, and Close writes its frame, without the lock, before it
sets that word; so a Send may write a whole frame after the close frame and return no error,
and that message is lost. `PeerReadsWhole` says what holds: up to the close frame the peer
reads what was written whole.

### Discovery, DiscoveryProof, MCDiscovery

A process with its dependencies: `thread[d]` is the goroutine of
`connectToService` for `d`, `lock` Naming's mutex, `todo` and `building` its progress
through a list, `link[n]` the client of an instance and whether `Clients` has it,
`timer`/`adult` the goroutine that makes a service adult; `up`, `catalog` and `sick` are the
services and what consul lists, as passing or not.

For an instance that is listed and not passing `load` leaves a nil entry in its result
(`naming.go:103`), on which the callback of `connectToService` panics (`container.go:251`):
`Loaded` has `Nil` among its elements then, and `NilEntry` ends the process. A map that is
written without a lock may end it too (`MapRace`). What `WatchedServiceIsUsed` promises, it
promises of a process that lives. A client whose read loop ended before it was added stays
in `Clients` ("dead") and hides its service; the property names that as the other outcome.

### Talk, TalkProof, MCTalk

`DoUserTalk` and the handlers of the message service it meets. Of the sessions it
uses only what `SessionRegistry` promises, which `Session` implements: the registry
is instantiated on `phase` and `where`, and its steps are interleaved with the rest.

| Variable | Stands for |
|---|---|
| `pc[t]`, `found[t]`, `sent[t]` | one run of `DoUserTalk`, its locals `loc` and `sendTime` |
| `content`, `index` | the two message tables; an index row is account, direction, message |
| `pushed` | the MessagePush packets dispatched, with the channel they are for |
| `ack[a]` | the read index in redis |
| `fetch[a]` | a run of `GetOfflineMessageIndex` between its redis and database calls, and what the client was sent by earlier ones |
| `moved[t]` | history: the receiver's location changed since it was looked up |

One call of redis, of the database or of another service is one action. `Faults`:
`redis` and `db` (a command fails), `rpc` (the answer of InsertUser is lost after the
message was stored), `push` (Dispatch fails), `crash`. Clocks of different chat
services agree on nothing, so a send time is any time. `getSentTime` takes any error of its lookup
for a message that is gone and starts a day ago, at any time of the model.

`MessageAck` and the offline query store whatever id they are given: the handlers have no
guard, and neither have the actions `MessageAck` and `FetchStart`. That clients name only
messages they were shown, perhaps late or twice, is an assumption on them, and stands apart
in `ClientAcks` and `ClientFetches`, which are what `Next` uses. `AckNamesContent`, and the
part of `MessageStore` about the read index, rest on it; a client that names another id can
make both false, for its own account.

The offline query is
modelled as it is written: its condition ends in "and direction" without an operator
and so keeps the rows whose direction is 1; as the arguments do not fit the query it
may also fail. `message.Message` has no implementation in the repository, and no
server registers `DoUserTalk` yet; the call of InsertUser is one request that is not
repeated.

### MessageStore

What the message service promises, whatever fails: a message is stored once and with its
rows in the same step, an account is shown only messages that have a row for it, and its
read index expires or moves to what it was shown, if its clients name nothing else. `Talk`
implements it with `kept <- content`, `mark <- ack`, `rows` from `index` and `seen` from
`pushed` and `fetch`: the fetch handler's write of the read index, which is two calls after
it was asked, is one step of the store. `Group` implements the part of it that it uses,
where nobody reads.

### Group, GroupProof, MCGroup

`call[k]` is a call of `GroupHttp`, which resty repeats up to three times when there
is no answer in five seconds; `handler[r]` is the handler of each request, which goes
on when its caller has given up, and may even start then; `groups` and `members` are
the tables, and so are `content` and `index`, whose rows are account, direction,
message id and, to tell sends apart, the send: the id that `FanOut` writes is that of the
member's row (`MemberId`), not that of the message. `send[s]` is `InsertGroupMessage` between its two databases. `undone`,
`always` and `ever` are histories for the properties. A group is named by the request
that made it, because every GroupCreate takes a new id. `GroupQuit` reads its body
into a pointer to a pointer; whether the reader for protobuf accepts that is up to a
library, so both outcomes are behaviours. Reading calls (`GroupGet`, `GroupMembers`)
change nothing and are left out.

## 3. The runs

All instances leave `CHECK_DEADLOCK FALSE`: users may stay away, so every one of
these systems may come to rest.

| Run | Instance | Shows |
|---|---|---|
| `session_faults` | one account, two gateways, two channels, all faults | types, `LocationBacked`, `LoggedOutIsForgotten`, `KickoutJustified`, `EstablishedSessionFound`, `SoleDeviceReachable`, and that the two redis keys implement `SessionRegistry` |
| `session_quiet` | the same without faults, with fairness, and with the bytes of the keys in base 2, one id being too long | `LeftoverOnlyByOvertaking`, `LocationReadBack`, `SignOutCompletes` |
| `session_notified` | the same, no faults | **violated**: `LoginSuccessNotified` |
| `session_detected` | three channels, no faults | **violated**: `OtherLoginDetected` |
| `discovery_watch` | two dependencies with an instance each, all faults | `OneDependencyWatched`, `WatchedServiceIsUsed` |
| `discovery_deps` | the same, no faults | **violated**: `DependenciesConnected` |
| `channel_close` | two packets, reader and two stoppers | `CloseOnce`, `GoroutinesEnd` |
| `client_tcp` | two senders, one with an empty message, heartbeat, Close, no lock in ping, base 3, a history of two frames | `SendsNeverMix`, `PeerReadsWhole`, `CloseEndsAll` |
| `talk_user` | two users with a device each write to each other, one reads, two times, pages of one, all faults | `AnsweredIsKept`, `PushedIsStored`, `MissedOnlyByMove`, `AckNamesContent`, and that the handlers implement `MessageStore` |
| `group_calls` | two Creates, one of them without members, a Join and a Quit of one account, two tries each, one message, all faults | `ToldGroupIsWhole`, `JoinedIsMember`, `FanOutCovers`, `NoGhostChange`, and that sends implement `MessageStore` |
| `group_content` | the same, no faults | **violated**: `RowsNameContent` |
| `server_map` | three connections, two with one id, one pusher, tcp | `MapHoldsLive`, `LostOnlyToRival`, `ShutdownClosesListed`, and that the server implements `Connections` |

**Why the bounds are enough.** Sessions of different accounts share nothing in
redis, so one account with two devices has all pairs of handlers that interfere;
the third device of `session_detected` is the one that should have found the
second after the first has deleted its location. With two channels every handler
can meet every handler of the rival at every point, and each once, since an id
logs in once. The theorems of section 4 hold for any number of them. Two
connections with one id are what a ChannelMap race needs; the third shows that
others are left alone. Two stoppers and the reader make three concurrent Close calls.
Two senders, a heartbeat and Close are all the kinds of writers a client has, with
one kind doubled; the three writes of a frame are op code, length and payload. Two frames on
the wire have one end inside or between any two pieces of the second, with and without a
payload. Two dependencies
are the gateway's (`chat` and `login`). Two messages in opposite directions make every
pair of `DoUserTalk`, fetch, acknowledgement and registry step; two times order or
equate them, and a page of one is full at once. A Join and a Quit of one account, twice
each, have every order of early and late requests of two calls; the program's four tries
only repeat it, and the theorems of `GroupProof` hold for any number.

**Fairness.** Goroutines that can run do run: weak fairness of the program's own
steps, per goroutine. In `Channel` a read is sure to end only while no frame comes or
when the connection has failed, and a write to return only while the peer takes it or when
the connection has failed; in `Client` a write ends at the deadline that Send and ping set. Strong fairness is assumed in three places: a mutex is not
denied to a waiter for ever (`Client`, Go's mutexes are starvation-free), `select`
picks a case that stays ready in the end (`Channel`; it picks at random), and a
blocking query of consul does not fail every time (`Discovery`). No user, peer, or
call of Shutdown or Push is owed, and no fault is ever required to happen.

**What the passing runs do not show.** `SoleDeviceReachable` excuses the loss of a
location as soon as a rival of the account was ever located, an older one included; that
such a loss is a fault of `Delete` is what `session_detected` shows. `SignOutCompletes` is
checked without faults, and concerns only the order of SignIn and SignOut: a SignOut that
`Forward` refuses is never sent again, and the session stays until it expires. A Quit that
was given up may still remove an account that has joined again since; `JoinedIsMember`
excuses it (`undone`), and `NoGhostChange` only ties it to that Quit. `ImplementsConnections`
is about connections that share their id with no other; races of one id are the business of
`MapHoldsLive` and `LostOnlyToRival`.

**What the violated runs show.**

* `LoginSuccessNotified`: `login_handler.go:48` says of LoginResp "notify that the
  login succeeded". SignIn is forwarded inside Accept and the channel is added to
  ChannelMap after it (`websocket/server.go:96`); LoginResp can come back in
  between, and Push drops it. The client waits for ever.
* `OtherLoginDetected`: `login_handler.go:32` says "check whether the user is logged
  in elsewhere". Device 1 logs in, device 2 logs in and replaces its location, the
  kicked device 1 disconnects and its SignOut deletes device 2's location
  (`storage/redis.go:44`); device 3's lookup finds nobody.
* `DependenciesConnected`: `container.go:114` says "connect to the services depended
  upon". `Naming.Subscribe` never returns and keeps the mutex (`naming.go:137`): the
  second dependency waits for it for ever.
* `RowsNameContent`: `database/model.go:21` says of a row's message id "refers to the ID
  in the message content table". `InsertGroupMessage` writes the id of the member's row
  there (`message_handler.go:92`), and the content cannot be found by it.

Every property of a passing run has a mutant in `PROJECT.json`: a variant of one
action, kept in the module next to it ("a faulty variant"), with which TLC finds
the property violated.

## 4. The proofs

`SessionProof` proves, for every `Account`, `Gateway`, `Channel`, `Owner`, `Gate` and
`Faults` that satisfy `SessionAssumption` (ids determine account and gateway, `Nil` is
no id, `Faults` are known kinds), that every invariant the runs check holds of
`Spec`, and that `Spec` implements `SessionRegistry`.

The invariants are not inductive by themselves; `IInv` adds what ties the three
parties together:

* `Fresh`: no login before Accept. Otherwise an id could log in twice.
* `SessionBacked`: a session key, or a logout past its lookup, belongs to a
  login that has stored its session. So a logout never deletes ahead of its
  own login (`LoggedOutIsForgotten`).
* `OldIsLocated`: what DoSysLogin found is a located session of the same
  account, also after the key is gone (`KickoutJustified`).
* `GateOrder`: LoginOK, packets of the client and SignOut come in the gateway's
  order.
* `KeysKept`: but for what `lapsed` records, only a logout removes a key and only a
  rival replaces one (`EstablishedSessionFound`, `SoleDeviceReachable`).
* `NoHalfLogout`: without faults no logout ends half way
  (`LeftoverOnlyByOvertaking`).

Each part has a lemma that every action keeps it, with one step per action. The
refinement shows that each action changes `phase` and `loc` as one action of the
registry or leaves both alone. In the same way `ConnectionsUsed` shows that `conn` changes
as `Connections` says, and `LocationsReadBack` that a location is read back from its bytes
exactly if the lengths of its ids fit their fields (`LocationReadBack`), for every base.

`TalkProof` proves the four properties of `talk_user` and the types for all constants, of
clients that name only messages they were shown.
`IInv` adds: `OwnLocation` (a location, and what DoUserTalk has found, is a channel of the
account; from the registry's steps), `TalkOrder` (what each step of DoUserTalk may
rely on), `FoundHolds` (what was found is the location until it moves), `TablesAgree`
(a content has its rows, and a row its content), `FetchIsOwn` (a fetch handles stored
messages of its account).

`MessagesStored` shows that `Talk` implements `MessageStore`. Most steps follow from the
parts of `IInv`; the read index needs `FetchIsShown` besides, that a list starts after a
message that its account was shown, which `FetchMoves` and `KnownGrows` carry over a step.

`GroupProof` proves the types and the four properties of `group_calls`, for any number of
retries. Its `IInv` adds `Begun` (requests are sent by calls that have begun and know their
group), `OkIsDone` and `CreatedIsWhole` (an answer of Create names a group that was stored
with its members) and `ReadIsCurrent`, `RowsAreRead` (the members that InsertGroupMessage read lie
between the two histories, and its rows are theirs). Three lemmas say what a client's
step, a handler and a send may change; the proofs of the parts cite these.
`NoGhosts` rests on `SentIsUnderWay`: a request that is still to be carried out belongs to
a call that waits or gave up a try.
`GroupMessagesStored` is the refinement of `MessageStore`: `FanOutRows` says that the rows of
one transaction are those of the members read and of no other message.

The invariants of the supporting models are nearly inductive, and their proofs short:

* `ServerProof`: `MapHoldsLive`, `LostOnlyToRival` and the types, for both servers.
  `NotifiedLast` adds that nothing but Close follows Disconnect, so that a connection
  whose end was reported cannot enter the map again. `RivalsMeet`, that any two connections
  of one id which are between Get and Remove are in `met`, makes `LostOnlyToRival`
  inductive. `ConnectionsKept` is the refinement of
  `Connections`. `OpenIsReached` says why it holds: a connection with an id of its own is
  never refused and is in the map while it is read, and `SharedApart` that
  connections which share an id touch the map at that id only.
* `ChannelProof`: `CloseOnce`, for any number of concurrent calls of Close.
  `OnceGuards` ties the calls to the sync.Once: one is inside, and writechan and the
  event follow it.
* `ClientProof`: `SendsNeverMix`, for any number of senders and any messages, and
  for both clients. `LockCovers`: a frame is unfinished only while its goroutine
  writes, and a goroutine that takes the lock holds it for as long. `PeerReads` is
  `PeerReadsWhole` for any history, the close frame being the first in it (`FirstClose`): `WireTold` says that the stream is the bytes of
  the frames in `whole` and then what the goroutine inside a frame has written of it.
  Its hypothesis `MessagesFit` is that the length of every message is below 2^32; a longer one
  would write a length modulo 2^32, and nothing in the code refuses it.
* `WireProof`: a frame is read as it was written whatever follows it (`FramesRead`), no
  part of it is taken for one (`NoFrameFromPart`), and a reader gets from a stream
  exactly the frames that are whole in it, up to the first close frame (`StreamRead`), for
  every base and any number of frames. The last is an induction over the frames. The library's induction rules
  cannot be used here, so `Induction` is stated for a set of numbers that has 0 and with
  each number its successor, and is proved from the least number that it lacks. The rest
  stands on the division of a number into digits (`TwoDigits`), from which a 16 bit
  field is seen to hold a length modulo 2^16 (`Field16`), and on how a concatenation
  comes apart again (`Parted`).
* `DiscoveryProof`: `OneDependencyWatched`, for any dependencies.
  `WalkOwns`: only the goroutine that walks through a list has one, or a client not
  yet added, and they are of its own service.

The assumptions used are those of the modules (`ServerAssumption`, `ChannelAssumption`,
`ClientAssumption`, `DiscoveryAssumption`): names of goroutines and `Nil` are distinct,
messages are sequences of bytes, a byte has more than one value (`WireAssumption`,
`StorageAssumption`), an instance has one service.

Only model-checked: the liveness properties (`SignOutCompletes`, `GoroutinesEnd`,
`CloseEndsAll`, `ShutdownClosesListed`, `WatchedServiceIsUsed`), which rest on
fairness and are out of the prover's reach, and the violated properties. Every invariant,
action property and refinement that a run checks is also a theorem.

## 5. Not modelled

* Packets' contents, protobuf and token checks: no property tells them apart.
* A client that sends `login.signin` or `login.signout` as a packet of its own; the
  gateway would forward it like any other.
* Redis's own failure modes beyond a failed command and a lost key by expiry.
* The selector: Session lets packets be handled in any order, which covers
  every choice it can make.
* Start-up and configuration, logging, database set-up, the demonstrations under
  `examples/`: sequential, or without state that another part reads.
* Messages older than the period they are kept for, and the contents query
  (`message_handler.go:182`), which reads and answers nothing.
* A client that acknowledges a message it was never shown (see `Talk`).
* How a client pages through its offline messages: it is not in the repository, and what
  pages skip (equal times at the end of a page, a message stored late) depends on it.
* `Dispatch` to several gateways, which appends its destinations to one packet again and
  again; no handler has more than one location to dispatch to.
* What a reader makes of a stream after a frame in it was cut: everything that follows is
  out of step, and the code has no way back but the end of the connection.
* An id used twice: a gateway that restarts within the life of its keys.
* The 64-bit numbers of `wire/endian`, which have no caller, and the frames of the
  websocket library.
* Reading calls of the group service. Two of them cannot work: `GroupMembers` assigns to
  an element of an empty slice, and `GroupGet` parses in base 36 what was made in base 32.
* The table of index rows is not among those `services/service/server.go` migrates; `Talk`
  and `Group` take it to exist.

## 6. Plan

Done: `SessionRegistry`, `Session`, `Storage`, `Wire`, `Connections`, `Server`, `MessageStore`,
`Talk`, `Group`, `Channel`, `Client` and `Discovery`, each checked and with proofs, and the
refinements that tie them together.

What is left: `Channel` has no abstract specification yet (what `Push` promises about order
and loss); ids that a restarted gateway hands out again; and `Dispatch` to several
gateways, once a handler uses it.
