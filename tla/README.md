# A TLA+ model of golib-message-bus

This directory specifies the Kafka library `golib-message-bus`: how an application
gets its consumers and clients, how they start, report readiness and stop, what
a member of a consumer group does with its claims, how a published event finds its
topic, how producers answer and are closed, and what the admin asks of the
brokers. TLC checks the modules on small instances; the `*_proofs` modules hold
theorems that TLAPS checks for every value of the constants. `PROJECT.json` lists
runs, the source lines each definition models, faulty variants of the code that
each property rejects, hazards and findings.

## 1. Inventory

| Part | Code | State | Operations | Modelled in |
|---|---|---|---|---|
| claim loop of a group member | `kafka/impl/sarama_consumer_group_handler.go`, `sarama_consumer_client.go` | position and marks of each claim; committed offsets at the broker | `ConsumeClaim`: receive, `HandlerFunc`, mark, commit, Done | `ConsumerGroupHandler`, `AtLeastOnce` |
| consumer lifecycle | `kafka.go` (hooks), `kafka/impl/sarama_consumers.go`, `sarama_consumer.go`, `Setup`/`MarkUnready` of the group handler | `running`, the unready channels, two wait groups, what is still open | `Start`, `WaitForReady`, `Stop` of all consumers and of each | `ConsumerLifecycle`, `ConsumerService` |
| subscriber registry, construction of consumers | `kafka/global/subscriber_topic.go`, `subscriber.go`, `NewSaramaConsumers` in `kafka.go` and `sarama_consumers.go`, `NewSaramaConsumer` | topic to handler mapping, keys to come, consumers made so far, open clients | `Register*`, `GetHandler`, `GetTopicConsumerMap`, merge, `init` | `Construction` |
| client configuration | `configuration.go`, `properties/client.go`, client constructors | one `sarama.Config` shared by all clients | `PostBinding`, `CreateCommonSaramaConfig`, `NewSaramaProducerClient`, `NewSaramaConsumerClient` | `Construction` (modes; names and addresses are data) |
| event relay | `publisher.go`, `kafka/global/event_topic.go`, `kafka/relayer/event_message_relayer.go`, `default_event_converter.go` | process-wide map from event name to topic; configured mappings | `PublishEvent`, `PublishToTopic`, `UnsetTopic`, `Supports`, `Handle`/`Convert` | `EventRelay` |
| producers | `sarama_sync_producer.go`, `sarama_async_producer.go`, `kafka/handler/async_producer_*_log.go` | sarama's dispatchers, two unbuffered channels, their forwarders and readers | `Send`, forward, log, `Close` | `Producers` |
| start and stop of the application | `kafka.go` | order of hooks, who is closed | start, ready-wait, producer stop and consumer stop hooks | `AppLifecycle` |
| admin | `sarama_admin.go`, `handler/create_kafka_topic.go` | loop over servers, one connection each | `CreateTopics`, `DeleteTopics`, `DeleteGroups` | `Admin` |
| relayer message handlers | `event_message_relayer.go` from `RegisterHandler` on | handlers by topic under a lock | `RegisterHandler`, `HandleMessage`, `RegisterTypedHandler` | no |
| mappers, log wording, debug logger | `sarama_mapper.go`, `kafka/log` | none | copies and wording | no |
| test utilities, examples | `testutil`, `kafka/examples` | message collector with a mutex | support for tests of applications | no |

How they interact. An application registers handlers (`ProvideConsumer`, or
`Register` on the process-wide registry); `NewSaramaConsumers` merges both and
makes one `SaramaConsumer` with a client, a consumer group and a
`ConsumerGroupHandler` per enabled mapping. The fx start hook spawns
`SaramaConsumers.Start`, which spawns one goroutine per consumer; that one spawns
the consumer's loop and waits for its unready channel, and when all have been
signalled the channel that `KafkaConsumerReadyWaitOpt` waits for is closed. Each
loop calls sarama's `Consume`, which joins the group, calls `Setup`, runs
`ConsumeClaim` in one goroutine per claimed partition and returns when all of
them have. In the other direction `PublishEvent` hands an event to the golib
event bus; the bus asks `Supports` of the relayer and runs `Handle`, which
converts the event and sends it with the sync producer. Both producers share one
client; all clients share one `sarama.Config`. At the stop fx runs the stop hooks
in the reverse order of their registration.

What is hard here: claims of one session run concurrently and share one commit
request; sessions end while handlers run; members are evicted without knowing;
processes die between handling, marking and committing; the unready channel is
replaced while a goroutine may wait on the old one; `Stop` runs against every
point of the loop; the topic of an event is looked up twice, later than it
was set, in a map shared by all publishers; handlers wait for producers, `Close`
for answers and hooks for handlers; registrations are read twice, under different
names; constructors write into a configuration that others go on reading; and a
request to several servers may be lost, refused or done half.

What makes the parts correct:

- claim loop: a committed offset never passes a message the handler has not
  returned from; whoever reads on after a crash is handed little again; what is
  handled and not committed is still owed by some session; every message is settled
  in the end; the end of a session is not the end of the process;
- lifecycle: `Setup` never closes a channel twice; readiness is neither reported
  early nor withheld; nothing runs on closed resources; `Stop` returns and the
  loops end;
- relay: a message goes to a topic somebody named for its event, to the one its
  own caller named where that can be relied on, and what `Supports` accepts
  `Convert` can route;
- construction: a subscriber serves the topic it registered for, configuration goes
  before registration, the clients that are open are those `Stop` will close, and
  one client's modes do not take back another's;
- producers and shutdown: handlers do not outlive the producers they send with, the
  client closes last, an application with the ready-wait hook runs only when ready,
  every message gets its answer, and the stop comes to its end;
- admin: nil means something of every name, and no connection is left open.

## 2. The modules

`AtLeastOnce` is what a consumer group promises: an acknowledgement covers settled
offsets only and is never taken back, and, if the group starts at the oldest offset
(`FromOldest`), each partition is settled in the order of its log. "Settled" is
handled, or passed over because the group had no committed offset and
`initialOffset` was the newest. From the newest offset there is no order: a member
that was evicted may start beyond the owner (see below). `SettledInOrder`,
`AcknowledgedIsSettled` and `NothingTakenBack` state what an application gets from
that; they are proved of `AtLeastOnce` alone and hold of whatever implements it.

### ConsumerGroupHandler

One `Member` is one process with one consumer of the group. `pc`, `pos` and
`marked` are the `ConsumeClaim` goroutine of each claim: its next statement, the
offset at hand and the offset marked in the session. `ConsumeClaim` is split into
`Receive`, `Handle`, `Mark`, `Commit` and `Done`, because goroutines of other
claims, the session and other members may run in between; inside each of these
the code touches only its own locals or takes one lock of sarama.

External, as the code uses it (sarama v1.43.3 and the broker):

- `Produce`, the log and its committed offsets; `Rebalance`: a join phase closes
  and its members share the partitions in any way. A member that has not come to
  join by then is left out and keeps running with a stale generation, as after a
  rebalance timeout.
- `FetchOffset`, `SetUp`, `StartClaim`: sarama asks for the committed offset of every
  claim before `Setup`, and only the goroutine of the claim, later, resolves
  `Consumer.Offsets.Initial` when there was none. In between the member may be
  evicted and the new owner commit, so that with "newest" the evicted one starts at
  the end of the log. `skipped` records what the *group* passes over: what is before
  the end when a member of the current generation starts there. What an evicted
  member leaves out remains the owner's to handle.
- `Flush`: one commit request carries all marks of the session that are above the
  committed offset; a broker refuses all of a stale generation and may refuse any
  partition. `Commit` has no result, so the handler never learns of it. `refused`
  records the offsets such a request carried in vain, `dropped` those that a process
  had handled and not committed when it died: these two, and nothing else, are what
  the properties about replays excuse.
- `EndSession`, `CloseClaim`: the context is cancelled and, at another time, the
  message channel of a claim is closed. In between both cases of the `select` may
  be ready, which is why `Receive` is still possible in an ending session and
  `ReceiveNil` is possible once the channel is closed: `ToCoreConsumerMessage`
  then dereferences nil and the process ends (no goroutine recovers).
- `Release`: all claims have returned, the offset manager flushes once more when it
  commits by itself (AUTO_COMMIT_INTERVAL), and the loop of the consumer joins again.

Commits of one session are ordered by the broker's lock in sarama, so a request
and its answer are one step. Ticker commits (`AutoCommit`) may happen at any time
or never. Offsets removed by log retention are left out, so a committed offset is
always one the log still has. Payloads, keys and headers are left out.

### ConsumerLifecycle

One label per goroutine: `start` for `SaramaConsumers.Start`, and per consumer the
`waiter`, the `loop` and the `stopper`. A waiter is "waiting" while it is blocked
on the current unready channel and "orphaned" when `MarkUnready` has replaced that
channel unclosed; this is the identity of the channel as far as anybody can tell.
The consumer group of sarama appears by its lock (from "join" to the end of the
claims) and its closed channel. `waitsForReady` tells, in `Init`, whether the
application has the ready-wait hook. `running` and `unready` are accessed by
several goroutines without synchronisation; both are one word, and the model lets
every access see any interleaving of whole accesses. A session that ends, by a
rebalance or by `Stop`, closes the messages of its claims: the claim takes the Done
case (`EndSession`) or nil, and panics (`ReceiveNil`). Then `panicked` holds its
consumer, and no action is possible any more. Left out: the goroutine that
drains the group's errors, the cancellation of the context (the library passes one
that is not cancelled), and the handler's own work.

`SoleConsumer` instantiates the module once more for each consumer `c`, with `{c}` for
`Consumers` and every function cut down to `c`: `EachConsumerAlone` says that each step
of the whole is a step, or nothing, of an application with that consumer alone.

### EventRelay

`topics` is the process-wide mapping, `mapping` the configured one, which does not
change. An event has two names: `EventName`, what `event.Name()` says, under which
`Supports` and `Convert` look it up, and `TypeName`, that of its Go type, under which
`PublishToTopic` sets the topic. They differ for an event that is named otherwise, and
for every pointer, whose type has no name. The topic may be the empty one, which is
stored like any other and un-maps the name. An event goes through `stage`: it may be
published by `PublishEvent`, or by `PublishToTopic` in two steps (set the topic,
publish); the bus asks `Supports` and runs `Handle` later, in any order among events.
Converting and sending may fail, which drops the event, as the code does. `Names` are
in lower case, as the mapping, `Supports` and `Convert` all lower-case them.

### ConsumerService

What the consumers are to the rest of an application: handlers run from `Start` to
the return of `Stop`, each only after its consumer was set up, readiness is
reported once and truthfully, and after `Stop` was called the consumers fall
silent one by one. `ConsumerLifecycle` implements it (`ImplementsConsumerService`):
a consumer is silent once `consumerGroup.Close` has returned. `Contract` and
`NothingTakenBack` say what its user may rely on.

### Producers and AppLifecycle

`Producers` follows each message through `stage`: "sending" while its caller is
blocked on sarama's unbuffered input channel, "inflight" once the dispatcher has
it, then "answered" by the broker (or "refused" by a dispatcher that has seen the
marker of `Close`), and "returned" to the caller of the synchronous producer, or
"forwarded" by one of the two goroutines and "logged" by a log handler. `Close` of
the asynchronous producer reads both channels itself ("drained"). The channels are
closed when no accepted message waits for an answer; a send after that panics. A
refusal blocks the dispatcher until somebody takes it. `CanMove` spells out when a
message has a step to take (its guards are those of the actions; `ENABLED` would
say the same, but cannot be reasoned about in a proof).

`AppLifecycle` runs the hooks of one of `Orders` forwards at the start and backwards
at the stop. It instantiates `ConsumerService` for the consumers and `Producers`
for the producers: what the detailed lifecycle was shown to implement is what the
application is built on. Handlers send one message at a time; the event bus sends
with the synchronous producer on a goroutine for each event, and nobody stops it.
`Abort` is fx giving up on a start or stop hook; the ready-wait hook looks at no
context, so this ends the process. So does `ReceiveNil`, the panic of a claim whose
session ends; the service itself just takes no further step then.

### Construction

`mapping` is the process-wide registry, in which packages register from any
goroutine at any time; `snapshot` what `GetTopicConsumerMap` found of it, and `todo`
the keys the loop of `init` has yet to reach, in any order, since it ranges over a
map. A name is what is written in the configuration or the code; `Trim` and `Lower`
say what `strings.TrimSpace` and `strings.ToLower` make of it. `config` is the one
`sarama.Config`: each client constructor writes into it, so a property of an open
client is one of `config` as it is now. A constructor that fails may have written
by then, and one that fails after the client was made leaves it open. Left out:
group ids, server lists, client ids, versions and certificates (data), the list of
all handlers (nothing reads it), the close callback.

### Admin

A call goes through its servers one by one: `Connect`, `Execute` (the broker),
`Answer` or `RequestFails`, `Close`. Only the broker that decides on a name (`Home`)
changes its state; it may refuse any name inside a response that is otherwise a
success, and the code drops the response: an existing topic and a topic that cannot be
made look the same to it, so nil vouches for neither. `excused` records the names of a
call that were refused by the broker that decides, changed by another call, or whose
deciding broker was elected anew; what remains is what nil vouches for.

## 3. Runs

| Run | Question | Instance |
|---|---|---|
| `claims_immediate` | no loss, no gap, no commit past the owner, one uncommitted message per partition and a session that owes it, with AUTO_COMMIT_IMMEDIATELY from the oldest offset | 2 members, 2 partitions, 2 messages each, 2 generations, crashes |
| `claims_interval` | refinement of `AtLeastOnce`, what sessions owe, and every message is settled in the end, with AUTO_COMMIT_INTERVAL from the newest offset | 2 members, 1 partition, 2 messages, 3 generations, crashes |
| `graceful` | does the end of a session leave the process alive? (no) | 1 member, 1 partition, no crash of its own |
| `lifecycle_safe` | Setup, readiness and what is closed, under every interleaving of two consumers; refinement of `ConsumerService`, and of one consumer alone by each of the two | 2 consumers, both settings of the hook |
| `lifecycle_live` | Stop returns, loops that were ready end, Start makes progress, unless a claim takes nil and the process is gone | 1 consumer |
| `ready_reported` | is readiness reported once every consumer is ready? (no) | 1 consumer |
| `stop_ends_loop` | does a stopped consumer leave its loop? (no) | 1 consumer |
| `relay` | topics, Supports against Convert, the sole caller's topic, disabled events | 3 events of one name, one of them published by pointer, 2 topics and the empty one, every configuration |
| `relay_misroutes` | does an event reach the topic of its own call? (no) | 2 events that go by the name of their type, 2 topics |
| `admin` | what nil says of the cluster, connections | 2 calls, 2 servers of 3 brokers, 2 topics, 1 group, 1 election |
| `shutdown` | who is closed when, every message answered, the stop is never stuck and ends | 1 consumer, the event bus, 1 synchronous and 2 asynchronous messages, 4 orders of hooks |
| `construction` | who is served by whom, that the order of the loop does not show, what stays open, what the clients find configured | 2 subscribers, 2 handlers of one name, 4 spellings of 2 names, 3 configurations, 2 presets |

Bounds, and why they are enough. `MaxMessages` 2 lets one message be handled and not
committed while another follows, `MaxGeneration` 2 gives a partition a second owner
while the first still runs with a stale generation, and 3 one more owner after that.
Two partitions in one session are what a shared commit request needs; two members what
eviction needs. `MayEnd` lets a session of the current generation end, or its process
crash, only while another rebalance is within the bound, so that the last generation
does not end in a state the bound made. Names in the mapping do not interact, as every
operation reads and writes the entry of one name; two events of a name and two topics
are what a race needs, and the third event, a pointer, has its topic set under another
name than it is looked up by. Consumers meet only in the two wait groups, so safety is
checked for two and liveness for one (for two the liveness check takes longer than it
tells); `EachConsumerAlone` is proved for any set of consumers: no number of them
makes one do what it could not do alone. Symmetry is used in the runs without liveness
only. Two calls of the admin are what it takes for one to undo the other or to meet
its work; a broker that is no bootstrap server decides on names of which nil says
nothing, and one election moves a name between two requests of a loop. Of the four
orders of hooks one is the README's, one has the stop hooks the other way round, one
the wait before the start, one no stop of the consumers. Two asynchronous messages are
needed for one to block the dispatcher or a forwarder for the other. A topic in lower
case, one with a capital, one with a space and the name of a handler give every way
two keys can collide; two subscribers let one replace the other before and after the
snapshot. The safety of the modules is proved without any of these bounds.

`CHECK_DEADLOCK FALSE`: an application that was stopped or has been put together, a
log at its bound, and events, calls or messages that are all dealt with are
systems at rest.

Fairness. Goroutines that can run do (weak fairness of each loop, waiter, stopper and
claim) as long as the process runs, and `HandlerFunc` returns. In
`ConsumerGroupHandler` the coordinator closes a join phase somebody is in, an evicted
member hears of it by its heartbeat, and a process that died is started again, which
is an assumption about the deployment; nothing makes messages, crashes, ticker commits
or the end of a current session happen. In `ConsumerLifecycle` strong fairness is
assumed of two choices: joining succeeds at some time if it is tried again and again
(the broker is not away for ever), and the claims of a closed group end although their
`select` may prefer the messages that had been fetched, which are finitely many.
Nobody has to stop the application, and no claim has to take nil. In `AppLifecycle`
the hooks run on, `HandlerFunc` returns, brokers answer or sarama gives up (it retries
a bounded number of times), and every goroutine of the producers goes on. Strong
fairness of `Quit` is what `StopReturns` shows of the detailed lifecycle: a consumer
that is told to stop falls silent although its handler may be called a few times more.
Nothing makes consumers ready, the application stop, or fx lose patience.

## 4. Findings

1. `graceful`: `ConsumeClaim` does not test whether `claim.Messages()` is closed.
   When a session ends, `select` may take nil from it, and the process panics. As
   `Stop` ends sessions, a stop may end this way too: `StopReturns`,
   `LoopEndsOnceReady`, `StartProgress` and `StopCompletes` hold with this excused,
   `ReceiveNil` being an action of `ConsumerLifecycle` and `AppLifecycle`.
2. `ready_reported`: a join that fails before the first `Setup` makes `MarkUnready`
   replace the channel the waiter is blocked on; with `KafkaConsumerReadyWaitOpt`
   the application never gets through its start, though it consumes.
   `StartProgress` shows that an orphaned waiter is the only way this happens.
3. `stop_ends_loop`: a `Stop` that overtakes the start of a consumer is forgotten
   when `Start` sets `running`; the loop spins on the closed group.
   `LoopEndsOnceReady` shows that this cannot happen to a consumer that was ready.
4. `relay_misroutes`: `PublishToTopic` keeps the topic by type of event for the
   whole process, so that a call with another topic takes over events that are
   still on their way. `SoleTopicIsServed` states what callers can rely on: with an
   event that goes by the name of its Go type, a topic that is not empty, and no
   other caller who gives that name another topic, the empty one included.

Seen while modelling, and stated by properties that hold because they leave just
this out:

- `Admin`: "Returns error if any error occurred" (`kafka/core/admin.go:10`) and the log
  "All Kafka topics have been created" (`sarama_admin.go:55`) go further than the code,
  which drops the errors of single topics and groups; `NilMeansDecided` says what nil
  means with those excused.
- `EventRelay`: `PublishToTopic` keys the topic by the name of the Go type, the relayer
  by `event.Name()`: a pointer, or an event named otherwise, is skipped, or goes where
  the configuration or another caller sends that name. The empty topic takes the topic
  from events that `Supports` has accepted: they are dropped as unroutable.
- `AppLifecycle`: nobody stops the event bus, so an event published while the
  application stops may be sent on a closed producer, which panics;
  `ProducersOutliveHandlers` holds for the consumers' handlers, in the README's order
  of the stop hooks and not in the other one.
- `Construction`: a topic registered with a capital letter or a space is never
  consumed; keys that agree after normalisation leave a client nobody closes; so
  does a construction that fails; TLS of one client's section is TLS for all.

## 5. Proofs

Assumptions are the named ones of the modules: non-empty sets, known modes, positive
bounds, names that do not clash (`NoTopic` is not a topic, `Bus` no consumer), both names of
an event among the keys of the mappings,
normal names that are their own normal name, each hook at most once with the start
of the consumers among them.

- `ConsumerGroupHandler_proofs`. `CommittedWasHandled` alone is not inductive: a
  commit is sound because of what was marked, in this or an older session, and a
  mark because of what the claim left behind. `ClaimCoversItsPast` says both, of
  sessions of the current generation, and from the oldest offset of evicted ones as
  well; an evicted one that starts at the newest is not covered, but its commits are
  refused. With the types it is the inductive invariant. `FlushIsSound` is the lemma about
  commit requests, `QuietStep` the one about steps that hand no claim a message;
  `Refinement` maps every step to one of `AtLeastOnce` or a stutter. A second
  invariant, `DInv`, says what a session owes: its marks do not pass its claims
  (`MarksMatch`); with immediate commits a mark above the committed offset was refused
  or has its Commit still to come (`MarksAreCommitted`), and from the oldest offset no
  claim, nor any message handled, is ahead of the committed offset by more than the
  message at hand and what was refused (`ClaimsKeepUp`). It carries `ReplayWindow` and
  `OwedIsHeld`: a message that was handled and is not committed is owed by a session
  that is not over, in both modes, unless its commit was refused or its process died
  (`NothingIsForgotten`). `ReplayWindow` does not hold with "newest": before the first
  commit an evicted member may start its claim beyond that of the new owner, and both
  have a message handled that is not committed. A third one, `OInv`, is about
  who may commit: of the sessions of the current generation no two claim the same
  partition (`Fence`), the broker refuses the commits of all others, and a mark does
  not pass its own claim; so no commit passes the owner, from the fetch of its offset
  on (`Ahead`, `OwnersAreAhead`), which is never handed a message the group has committed.
  `FromOldestAllIsHandled` drops "or passed over" from `CommittedWasHandled` for
  groups that start at the oldest offset. The refinement needs `OInv` too: that a claim
  which found no offset passes messages over before anything is acknowledged, as
  `AtLeastOnce` demands, is what `Ahead` says of it.
- `AtLeastOnce_proofs` proves the promises of the abstract consumer by themselves;
  through `Refinement` they hold of the group (`NothingOutOfTurn`, `ForGood`) without
  any argument about members, sessions and claims. Its theorems take
  `MaxMessages \in Nat` as a hypothesis, which the group's assumption supplies.
- `ConsumerLifecycle_proofs`. `UnreadyChannel` (closed from `Setup` to
  `MarkUnready` only) gives `SetupNeverPanics`; `ReadinessChain` follows readiness
  from `Setup` over the waiter and `Start` to the hook; `StopOrder` ties what is
  closed to where each stopper stands, and says that no claim runs once the lock
  was free after the group had been closed. `WakeupsArrive`: no waiter is blocked on a
  channel that is closed already, whatever `Setup` and `MarkUnready` did between its
  look at the channel and its wait, and until the stop its consumer is on the way to
  wake it or, after a failed join, to orphan it; it rests on `Wakeups` (a session has
  closed the channel, a loop runs until the stop). `CloseGetsTheLock` and
  `StoppedLoopsEnd` are what safety has to say about `StopReturns` and
  `LoopEndsOnceReady`: a distance, in
  statements of the code, that no step of anybody makes longer, whatever joining and
  handlers do; with the fairness of the run it gets shorter. The second needs
  `BegunBeforeReady`: a consumer that was ever ready has its assignment
  `running = true` behind it. `OneConsumerAtATime` and `EachImplementsSole` say that
  the whole implements `Alone(c)`, for every `c` of any set of consumers.
- `EventRelay_proofs`. `MappedWasAsked` (a mapped topic was named by a caller) and
  `AcceptedHasTopic` (what `Supports` accepted still has a topic unless `UnsetTopic`
  was called for its name, or `PublishToTopic` given the empty one) carry
  `TopicHasAReason` and `SupportedIsRoutable`. `SoleTopicIsServed` and
  `DisabledUnlessAsked` need what is known of callers: `AskedIsMapped` (the topic of
  the sole caller stays mapped while its event is on the way) and `DisabledWasAsked`.
- `ConsumerLifecycle_proofs` also maps every step to one of `ConsumerService` or a
  stutter (`Refinement`), with the same invariant; `ConsumerService_proofs` shows the
  contract of the service from its actions alone, and `ContractIsKept` carries it over.
- `Admin_proofs`. `ExecutedMeansDecided` is `AnsweredMeansDecided` for the server being
  asked as well: it holds from `Execute` on, whoever loses the answer, and becomes
  what nil says when the loop has passed all servers. `Outcome` ties error, lost
  requests, connection and result to the label.
- `AppLifecycle_proofs`. The argument is one of phases: `HookPhase` says what each
  position in the order of hooks implies for producers, client and consumers, and
  `ServiceState` what the state of the service implies for its handlers. `Turns` adds
  what the hook at its turn finds (its consumers not yet stopped, its client not yet
  closed, the synchronous producer closed before the asynchronous one) and that a
  refused message sits in a producer that has seen the marker of its `Close`. From it
  follows `StopGetsOn`: hooks, handlers, closes and messages never wait for one
  another in a circle. That is `StopCompletes` without its fairness, for any order of
  the hooks. `MessagesGetOn` says the same of messages: until the stop none goes
  astray, and none is ever stuck. `UsesTheService` closes the chain from the other
  side: the application does with its consumers only what `ConsumerService` offers, so
  its contract holds there.
- `Construction_proofs`. `MadeAsNow` (as long as nobody registers late, what was made
  is what would be made now) carries `OrderDoesNotShow`. For the rest: what was made
  is what the key's entry said when it was reached, and the entries cannot change;
  what can is the handler, through a later registration only; and what each open
  client needs of `config` no other constructor takes back.

All safety invariants and action properties of the passing runs are proved, the latter
and the refinements step by step. Some are stated by theorems only, because what holds
for every instance needs no run: `StoppedMeansReleased`, `NoLostWakeup`,
`ClosedGroupIsLeft` and `LoopWindsDown` of the lifecycle, `AnswersGetThrough` of the
application, the promises of the abstract specifications, and, of the claim loop, the
refinement in the mode that `claims_interval` does not use. TLC agreed with each
before it was proved. Liveness under fairness (`EveryMessageSettled`, `StopReturns`,
`LoopEndsOnceReady`, `StartProgress`, `EveryMessageAnswered`, `StopCompletes`) is out
of the prover's reach and stays with TLC: the prover has neither the rules for
fairness nor `ENABLED`. What of it is safety is proved, as said above, for
`StopReturns`, `LoopEndsOnceReady`, `StartProgress`, `EveryMessageAnswered` and
`StopCompletes`. That an implementation also meets the fairness of its specification
is not stated: `ImplementsAtLeastOnce`, `ImplementsConsumerService` and
`EachConsumerAlone` are about steps.

## 6. Plan

Done, in this order: `AtLeastOnce` and `ConsumerGroupHandler` with their proofs,
`ConsumerLifecycle`, `EventRelay`; then `ConsumerService` and the refinement, `Admin`,
`Producers` with `AppLifecycle`, and `Construction`, each with its proofs;
`ReplayWindow` and `OwedIsHeld`; then the promises of the abstract
specifications and their transfer, the owner and the order of a partition, the
safety halves of the liveness properties, one consumer among many, and the order of
`init`. What could follow: an abstract specification for `Admin`, and a model of the
relayer's message handlers once something in the library calls them.

Not modelled: the relayer's message handlers (nothing in the library calls
`HandleMessage`, and `RegisterTypedHandler` panics before it registers anything),
mappers and log wording (no state), test utilities and examples (not part of the
running library), the inside of sarama and of the event bus beyond what the code
relies on.
