# A verification project for node-raft-rsm

TLA+ models of the replicated state machine runtime under `src/packages`, of its storages and its
in-memory network, and of the visualizer's server that runs them, checked by TLC on small instances.
All that is claimed of safety is also proved by TLAPS for every value of the constants: elections,
logs and committed entries of the core, that the runtime with its failures and crashes implements
the core, that its state machines agree, and what client proposals, the storages and the visualizer
promise. Paths below are relative to `packages/` unless they start with `docs/`.

## 1. Inventory

| Part | State | Operations | What makes it correct |
| --- | --- | --- | --- |
| Consensus core, `raft-core/src/raft.ts` | role, leader, votes, per-peer progress; term, vote, commit index; log; applied index; the outstanding Ready | `step(event)` for an election timeout, a heartbeat timeout, a proposal, a message; `advance(id)` | one leader per term, logs that agree, committed entries that stay, no step that reaches an assertion |
| Node runtime, `raft-node/src/node.ts`, Ready pipeline | a promise chain (`#queue`) that runs one event at a time; healthy, started, stopped | `create` (load, replay, construct), `start`, `stop`, timers, `campaign`, `#process`, `#processReady`, `#apply`, `#fail` | nothing leaves before it is durable, the machine is given every committed command once and in order, a failure is noticed |
| Node runtime, client side | pending promises by command ID, remembered results, callers' timeouts | `propose`, `#apply`, `#fail`, `stop` | every caller is answered, with the result of an applied entry; a retry adds no second entry |
| Volatile storage, `raft-storage-memory/src/index.ts` | hard state, entries, snapshot, applied index, closed | `load`, `persist`, `installSnapshot`, `compact`, reads | a batch happens entirely or not at all; nothing committed is truncated |
| Durable test storage, `raft-testing/src/restartable-storage.ts` | the same, outliving its handles | the same, with more checks | the same, and no second vote in a term |
| Network, `raft-transport-memory/src/index.ts` | queue of messages, blocked edges, handlers, drop-all | `enqueue`, `deliver`, `drop`, `duplicate`, `reorder`, `partition`, `heal`, `drain` | delivers only what was sent, to its receiver |
| Test cluster, random and clock, `raft-testing/src` | nodes, storages and one network | `crash`, `restart`, polling for a leader | drives and observes the rest |
| Visualizer server, `raft-visualizer/src/server` | a chain of operations; online flags, proposals under way; listeners and event streams | HTTP commands, one at a time; reset, event streams, shutdown | every request is answered, pages see the present state, flags, endpoints and proposals agree |
| Visualizer client, `raft-visualizer/src/client` | the snapshot shown, the action under way | posts actions, shows what arrives | shows the newest snapshot |
| JSON codec, contracts | none | encode, decode; interfaces | |

How they interact. An event (timer, message, proposal) is queued in the node. In its turn the core
steps in memory and may return a *Ready*: hard state, entries, messages, committed entries. The node
persists hard state and entries in one batch, sends the messages through the transport, applies each
committed entry (state machine, then the storage's applied index, then the caller's promise) and
tells the core to `advance`. Until then `step` throws. The transport of another node hands the
message to that node's queue. `create` builds a node from what its storage holds: it gives a fresh
state machine every committed command, whatever the applied index says, and starts as a follower.

The test cluster opens one durable storage from a new handle each time a node starts. The visualizer
does the same, keeps all its nodes on one network, and runs one operation at a time: a request waits
for those before it, an operation for a turn of the event loop before it publishes, and only timers,
pages that come and go, and a signal get in between.

What is hard. The network loses, repeats and reorders. A process may die between any two awaited
calls. The storage and the machine may throw. A proposal checks the role when it is called and is
handled later. Timeouts race answers, retries race the entries they retry, and entries a caller
waits for are replaced by other leaders. `stop` closes a storage that calls are still on their way
to, and the next process opens it. Messages are picked by an identifier while the queue moves under
it, a delivery may throw after it took its message out, and an operation of the visualizer may fail,
or be overtaken by a shutdown, half way. `PROJECT.json` lists every such place, with its line.

## 2. Modules

    Raft           the core in a cluster, one atomic action per event     MCRaft      (TLC)
      |                          RaftProofs <- RaftLogProofs <- RaftHistoryProofs <- RaftSafetyProofs
      |                          (TLAPS: elections, commits, log matching, committed entries)
    RaftNode       the Ready pipeline, failures, crashes, recovery        MCRaftNode  (TLC)
                   (its core is an INSTANCE of Raft; it implements Raft)
                              RaftNodeProofs (TLAPS, all but the liveness; it uses the
                              proofs about Raft twice, of the memories and of the disks)
    Proposals      propose, results and promises of one node              MCProposals (TLC)
                                               ProposalsProofs (TLAPS, all but the liveness)
    Storage        both storages, their handles and their microtasks      MCStorage   (TLC)
                                                                StorageProofs (TLAPS, all of it)
    MemoryNetwork  the queue, the blocked edges and the endpoints
      |
    Visualizer     the server's chain of operations over one network      MCVisualizer (TLC)
                                               VisualizerProofs (TLAPS, all but the liveness)

**Raft** (`raft-core/src/raft.ts`). One action is one call of `step` with all it calls, followed by
the whole Ready. Variables are the fields of `RaftCore`, one function on servers each. `messages` is
the set of messages ever sent: any of them may be received now, late, again, or never, which covers
every behaviour of `MemoryNetwork` (loss, duplication, reversal, partitions) and of a TCP transport
with retries. `Restart` may happen at any moment. A message that a handler ignores (a stale
response) takes no step. Loops become sets: the first conflict in `handleAppendRequest` is `IsKept`,
the search for the commit index in `advanceLeaderCommit` is the largest element of `Replicated`.
`makeReady`'s check of committed versus applied and the message identifiers are not state that any
handler reads.

Left out: snapshots (no code path of the runtime creates one, so the snapshot offset of a log is
always 0; the operators treat an index as a position; Storage has them), the envelope checks
(protocol version, cluster, membership), configuration entries (never created), payload bytes, and
the requests' rejection when larger than `maxMessageBytes`.

**RaftNode** (`raft-node/src/node.ts`). `Step` is the core's reaction in memory: an action of Raft,
taken through `Core == INSTANCE Raft WITH messages <- outbound`, so that the same definitions serve
both modules. Its messages stay in `outbound` until `Persist` has written term, vote, commit index
and log to `disk`; then `SendMessages`, `SkipNoop` or `ApplyCommand`/`FinishCommand`, and `Advance`,
in the order of `processReady`. `PersistFails`, `SkipNoopFails`, `ApplyFails` are the three catch
sites (the second one has no catch: see finding 1), a send that fails, on a link that `Lossy` names,
only loses its message, `Crash` may come between any two steps, `Start` is `create` followed by
`start`. In a Ready whose `step` threw there is nothing: the guard `phase = "idle"`. A receiver can
get a message before the sender has sent the rest: what is sent is one step, but what is received is
a choice of the receiver, and no property depends on a message being absent.

**Proposals** (`raft-node/src/node.ts`, `propose`, `#apply`, `#fail`, `stop`). One node in detail,
consensus as its environment: `WinElection`, `LoseLeadership`, `ReceiveEntry` (another leader's
entry replaces everything from some unapplied index on) and commitment of the next entry inside
`Apply`. A call is answered at once, joins the pending call of the same ID and bytes, or is queued;
`RunProposal` is its turn in the queue, whatever became of the node meanwhile: on one that failed
the core throws (`Thrown`), on one that was stopped the entry is appended, committed and applied
like any other, until the queue is empty and `Close` closes the storage. After that a Ready can only
fail (`MayGoWrong`). `Accepted` appends whatever the length of the log; `NotPersisted` and
`PersistFails` are the catch in `processReady`, `ApplyFails` the one in `#apply`. `MayFail` says
whether a node may fail or be stopped. An `answer` is what the promise that `propose` returned was
settled with: a promise that is rejected stays rejected when its command is applied after all. A
core that waits for a Ready that failed on a no-op, while the node looks healthy, is in RaftNode
(finding 1) and not here. A command's bytes stand for the hash and for the result.

**Storage** (`raft-storage-memory/src/index.ts`, `raft-testing/src/restartable-storage.ts`). `kind`
says which one. `stored` is what the storage holds, `entries` a function from the indexes it has.
Every method of both is `async`, checks its handle and then awaits once, so a call is `Call` (the
check; a closed handle refuses) and, in its turn of the microtask queue `tasks`, one `Run...` action
with everything it checks and writes; the volatile `installSnapshot` awaits `persist` and goes on in
a second turn (`RunPersistSnapshot`, `RunCover`). `DurableAccepts` and `VolatileAccepts` are the
checks of `persist`, one operator each; `AfterRefusal` is what a refused batch leaves behind, which
in the volatile storage is not always nothing. `Written`, `Covered` and `Compacted` are what the
three writing calls do. `Batches` is a parameter, any set of batches of the type `PersistBatch`,
whose fields are free of each other as in `contracts.ts`: what `processReady`, `#apply` and `create`
write, what only the interface offers (any snapshot, older than the present one or beyond the log,
alone or with entries), right or wrong. `persistBoth` is the name of a persist whose batch has both
a hard state and an applied index, which no caller in the repository makes, so that a property can
except it. `Close` is the call in `stop`, `RunStopped` the moment `stop` returns; only then may
`Open` make the next handle, as the test cluster and the visualizer do. The owner of a handle may
still call it while and after it closes, since a message handled meanwhile makes a Ready of its own.
`view` is a history variable: what the owner of the newest handle can work out from the results of
its own calls.

**MemoryNetwork** (`raft-transport-memory/src/index.ts`). The operators of one network: sending with
its identifiers and blocked edges, delivery, loss, copies and reversal by position, lookup by
identifier, partitions, endpoints. A delivery takes the message out before the handler runs, and the
handler's answers are enqueued behind what is left (`DeliverAt`); a handler that throws, having sent
something or nothing, leaves the message gone (`ThrowAt`). A message on a blocked edge is not
enqueued and takes no identifier, so `Sends` does not list it.

**Visualizer** (`raft-visualizer/src/server/index.ts`, `simulation-controller.ts`). The storages and
the network settle within the microtask queue, so an operation runs without a break until it awaits
a macrotask (`settleLocalWork`); there, and only there, requests, timers and signals come in. An
operation is therefore one action up to that wait, and `Settle`, which publishes, answers and lets
the next one begin; `drain` is one action per message, since every delivery settles. `ops` is the
promise chain of `server/index.ts:108`, one entry per waiting client; a page that posts twice is two
clients. `Refuse` stands for every operation that throws before it changes anything. One that throws
later is an action of its own: `DrainOverruns`, `ResetFails`, and the deliveries whose handler
throws, `DeliverMessageFails` (`deliver` and `step`) and `DrainStepFails`. A handler throws when its
node commits an entry that the codec does not decode, which a put of anything but a string makes it
(`json-codec.ts:10`), and ever after: the core waits for the Ready for ever, the node is in
`failed`, what was proposed to it is rejected, and no restart recovers it. The message is gone and
the operation ends before it settles and publishes; the rejection of a proposal, which is recorded
and published, may make up for it. A member that is alone may fail in `Propose` itself. What a node
does when it is prompted or given a message is any burst of messages, and the answer to a proposal
may come with any delivery: Raft and Proposals say which ones do. `Reset` and `ResetFails` are the
two outcomes of replacing the simulation, `Shutdown` does not wait for its turn. Operations on a
dead simulation go on as they do in the code: a stopped node is out of `handlers` and its flag
stays. A request whose body arrives after the shutdown is enqueued like any other (`Post`). Left
out: what the nodes hold and the key-value machine, the timeline and the revision (every publication
counts as news), routes that only read, and a cluster size that changes with a reset.

## 3. What is checked

Every property is stated, in words, next to its definition. The mutants in `PROJECT.json` name, for
each property, a plausible change of the code that TLC then finds.

| Run | Instance | Shows |
| --- | --- | --- |
| RaftContention | 3 servers, each may campaign in term 1 and restart in it, one command; symmetry | types, one leader per term, one vote per term, a request covers its commit index, a leader's beliefs never go back |
| RaftHandover | a leads term 1, b term 2, restarts in terms 0 to 2; fair | a leader holds what is committed; a committed entry is on a quorum; a leader that stays one brings everyone up to date |
| RaftComeBack | two leaders lost their tails; b campaigns in 3, a and c in 4 | no two servers commit differently, logs match, no request reaches the throw at `raft.ts:267`, `matchIndex` is true, commits are stable |
| NodeLossy | a campaigns in terms 1 and 2 and proposes, b follows, c is down; sends between a and b may fail, b's storage and machine fail, b crashes; fair | a Ready ends whatever its sends met, a failed one is noticed |
| NodeHandover | a and b of three, change of leader, a crashes anywhere | types, machine = committed commands of the disk, the pipeline implements Raft |
| NodeSplitVote | c is asked by two candidates; crashes, lost sends, failed persists | what is sent is durable, the storage never refuses a batch |
| Proposals | one ID, two commands, three calls, two leaderships, a foreign entry of the same ID up to index 2, timeouts, failure, stop and close; fair | every waiting call is owed an answer and gets one if its entry is in the log, nobody waits on a node that failed or was stopped, results are of applied entries, one entry per leadership |
| Storage | both storages; 2 candidates, terms 1 and 2, indexes 1 and 2, batches of up to 2 entries, with and without a snapshot of either index, 2 processes in turn, one injected failure at a time; symmetry | types and no gaps, a refusal changes nothing, nothing goes back, the owner knows what is stored, only a persist with a wrong snapshot leaves a state no node can start from |
| Visualizer | 3 members, 2 clients, 1 stream, bursts of up to 2 messages from 1 to 2 and from 2 to 1, nodes that fail, 2 identifiers, drains of 1, 1 proposal; fair | identifiers are distinct and not reused, partitions do not add up, flags are true, streams are current, every request is answered |

Three runs expect a violation; they are the findings of section 6.

*Bounds.* `Campaigns` and `Restarts` are sets of pairs (server, term): they bound the terms, and who
acts in them, without touching what an action does. `MaxLogLength` bounds proposals only; the entry
a leader appends when elected is never refused. `RaftContention` has the whole of one term: three
candidates, split votes, retries, one command. `RaftHandover` adds a second leader and late messages
of the first. `RaftComeBack` starts where two lost leaders leave the cluster, since the interesting
history (an entry of term 1 copied to a majority in term 3 and then overwritten by term 2's) takes
four terms: its initial state is one that earlier steps of the same model reach, with every process
restarted and every message lost. The initial states of `NodeHandover` and `NodeLossy` (c is down)
and `NodeSplitVote` (two candidates of term 1, two of their requests on the network) are of that
kind too. `Campaigns`, `Crashing`, `Faulty` and `Lossy` in the Node runs say which nodes act and
which links fail, so that the steps inside each Ready can be interleaved. In `NodeLossy` a has no
fault but its sends: its Readies, with two messages each, must end whatever is lost, and a vote that
is lost makes it campaign again; b has them all. In `Proposals` a log is as long as two foreign
entries and three calls make it: no bound keeps a proposal from being appended. In `Storage` the
term of a snapshot, which nothing reads, is 1, and two indexes and batches of two entries give every
boundary of its checks on both sides (before, at and after the commit index, the end of the log and
the snapshot), and the calls of one owner and the close of its handle meet in every order of the
microtask queue; two handles are what a handover takes. In `Visualizer`, `Talk` names the edges
messages go on: from 1 to 2 and back, so that a queue holds messages of different senders and
receivers and a partition cuts both or none; the third member is one that is cut off, stopped and
restarted. Two identifiers make a queue of two with a copy or an answer in it, a drain of one
reaches its limit with a message left, and one proposal is enough for it to outlive its node. The
safety that these bounds leave open is proved for all of their values (section 4). Bursts are
bounded by the guard of `Enqueue`: a node with nothing left to number sends nothing.

*Views and symmetry.* `Symmetry` permutes servers and commands in `RaftContention`, whose constants
treat all of them alike, and is used with safety properties only. `Unspent` (MCRaft) drops responses
no receiver can act on any more, which the comment there justifies from the handlers, and
`leaderId`, which no handler reads; the properties of the runs that use it mention only requests
that are never dropped, or no messages. The fairness of `RaftHandover` mentions requests, which are
never dropped, and answers to a leader of their term or a later one, which are not dropped while it
leads: two states that agree on the view enable the same fair steps. `Relevant` (MCRaftNode) drops
the messages of Readies that were persisted and lost before they were sent, which no action reads,
and `leaderId`; `ImplementsRaft` mentions both, but only in steps, each of which is still examined
from one representative of the states that agree on the view. That is a search, not a proof, for
that pair of variables.

*Fairness.* Safety needs none. `RaftHandover` assumes, for `LeaderBringsUpToDate`, what a lossy
network gives to a runtime that repeats its heartbeats: the heartbeat timer repeats, the request
that a heartbeat carries does not always get lost (strong fairness, since late answers can move
`nextIndex` back and forth and so change what it carries), and neither do the answers that tell the
leader something. Every other message, the requests that handlers send among them, may be lost each
time, and old ones may come again for ever. `NodeLossy` assumes that every call the runtime awaits
settles (weak fairness of `HandleReady`: the promise chain has nothing else to do) and that a
repeating timer fires when `automaticTimers` is on. `Proposals` and `ProposalsLost` assume that the
queue is drained and that a leader's log goes on being committed and applied, which is what a live
quorum does. `Visualizer` assumes weak fairness of `Operation`: the event loop runs the chain while
something is on it, and every wait in it is for a timer of no delay. Requests that are made and
timers of proposals may never come. Nothing is assumed of elections, messages, callers or failures.

*Deadlock* is not checked: the bounds end every behaviour (no campaign, command or call is left; a
server that was shut down takes no more requests), and the real system may rest in any state with
nothing to do.

## 4. What is proved

By TLAPS, for every finite set of servers, any commands and any bounds, with the assumptions
`ServerAssumption`, `EntryAssumption` and `BoundAssumption` of Raft. In `RaftProofs.tla`:

- `TypeCorrect`: `Spec => []TypeOK`. `TypeOK` is inductive. Its hard parts are the commit index
  staying inside the log (the entry at the new commit index is one that was replicated, or the
  smaller of the request's and the new length, never below the old one because a step that would
  truncate a committed entry throws) and `nextIndex` staying positive.
- `VotesAreConsistent`: the inductive invariant of elections. A vote that a candidate or a leader
  counts is its own or comes from a grant that was sent; a grant binds its server, whose `votedFor`
  in that term is the one it was granted to, until its term grows; a leader's votes are a quorum; an
  append request of a term has behind it a quorum of such grants.
- `ElectionIsSafe`: `Spec => []ElectionSafety`. Two leaders of a term have quorums of votes in it;
  two quorums meet (a lemma on cardinalities); the server in both voted once.
- `VotesAreUnique`: `Spec => []OneVotePerTerm`.

In `RaftLogProofs.tla`:

- `CommittedStays`: `Spec => CommittedIsStable`, by cases on the actions, from `TypeOK`. A follower
  keeps its log up to the first conflict, and the guard of the throw says that this is not before
  its commit index. That the throw never happens is another property, `NeverOverwritesCommitted`,
  proved in RaftSafetyProofs.
- `LeadersNeverGoBack`: `Spec => LeaderNeverGoesBack`, from the same case analysis: a server that
  leads and keeps its term writes its log only by appending, and `matchIndex` only to the larger of
  two values.
- `AppendsCoverCommit`: `Spec => []AppendCoversCommit`. Requests reach to the end of the log they
  are cut from, and no commit index is beyond that.
- Lemmas for the runtime: every action of Raft but `Restart` is a relation `Reaction` between the
  server before, the server after, what it sends and what it may receive (`StepIsReaction`), and a
  server that changes by such a relation takes that action (`ReactionIsStep`).

In `RaftHistoryProofs.tla`:

- `LogsHaveAHistory`: `Spec => []LogInv`, the inductive invariant behind log matching. `LogMatching`
  is not inductive: it says nothing of the requests in flight, nor of a log nobody holds any more
  from which a late request was cut. `LogInv` says that there is a *history*, a log for each term,
  such that up to any entry a log is the history of that entry's term, and the same of requests,
  with the term of the entry before; a leader's log is the history of its term, and a term with a
  history had a leader that cannot be elected in it again. A leader's entry makes the history of its
  term longer (a new leader finds it empty, by uniqueness of elections); a follower's new log is
  spliced from two pieces of history that agree where they overlap; every other step leaves it. The
  history is bound by an existential quantifier, so that the model needs no auxiliary variable (and
  TLC, which cannot enumerate histories, checks only `LogMatching`).
- `LogsMatch`: `Spec => []LogMatching`.

In `RaftSafetyProofs.tla`:

- `ChosenIsSafe`: `Spec => []SafetyInv`, the inductive invariant of commitment, over the same
  history `H`, where `H[t]` is the log of the leader of term `t`. A server has *acknowledged* index
  `k` of term `t` if it sent a successful answer of that term with `matchIndex >= k`, or was elected
  in `t` and `k` is in `H[t]`; `k` is the term's *own* if its entry is of term `t`; it is *chosen*
  when a quorum has acknowledged it, and *blocked* when a quorum has left `t` behind without having
  acknowledged it, which is for ever, since a server answers only in its present term. A log is
  *safe* for `(t, k)` when it agrees with `H[t]` up to `k` or `k` is blocked in `t`. `BoundsInv`
  says what ties messages to terms and logs (requests are slices of `H` of their term, answers are
  not beyond it, `matchIndex` is 0 or acknowledged, a vote request describes its candidate's log).
  `ChoiceInv` says, of every `k` that is its term's own: a server that acknowledged it has a safe
  log; `H[u]` of every later term is safe; the log of a candidate is safe wherever one of its voters
  acknowledged `k`; and every `commitIndex` and `leaderCommit` is 0 or lies below a chosen index
  whose log it agrees with. The two hard steps are a vote and a commit. A voter that acknowledged
  `k` compares the last term and index of the logs: the candidate's last entry is either of term
  `t`, and its log a prefix of `H[t]` at least as long as `k`, or of a term between `t` and the
  candidate's, whose history is safe already. A new leader's quorum of voters therefore either has a
  member that acknowledged `k`, and the leader's log is safe, or blocks `k`. A leader counts only
  entries of its own term (`advanceLeaderCommit`), so what it commits is chosen.
- Chosen and blocked exclude each other, since two quorums meet, and the five properties follow:
  `LeadersAreComplete` (`LeaderCompleteness`), `StateMachinesAreSafe` (`StateMachineSafety`),
  `CommittedIsOnQuorum` (`CommittedOnQuorum`), `CommittedIsNeverOverwritten`
  (`NeverOverwritesCommitted`: the throw at `raft.ts:267` is never reached by a request of a leader)
  and `MatchIndexesAreTrue` (`MatchIndexIsTrue`). So does `SentStaysTrue`, which the runtime needs:
  as long as a sender is in a message's term, its vote is what it granted, its log is as long as it
  reported and holds what it sent. `H` is bound by an existential quantifier, as in `LogInv`, so no
  run checks `SafetyInv` itself.

In `RaftNodeProofs.tla`, from the same three assumptions, which RaftNode states of its own
constants, for any servers that crash and with any number of failures:

- `PipelineIsInOrder`: `Spec => []PipelineInv`, the inductive invariant. RaftNode is looked at
  through two instances of Raft: `Mem`, the cores in memory with the messages they hold back, and
  `Dur`, what is on the disks, with `settled`, what a memory was when its last Ready became durable,
  and the messages that have left a node since. `Step` is a step of `Mem`, but it counts for the
  cluster only at `Persist`, when others may have moved on; so the invariant says, of a node that is
  about to persist, that its memory is related to its disk by `Reaction`, a step of Raft without the
  rest of the cluster (`StepIsPending`). A relation without primes can be said of a state, and stays
  true while other nodes send: what could be received then can be received later. The other parts:
  in the phases where nothing is pending memory is the disk (`MemoryIsDisk`), nothing of a Ready
  that is not durable has left (`HeldBack`), a disk's indexes are in order (`DiskIsOrdered`), what
  is about to be written fits it (`BatchFits`, from `CommittedIsStable` of Raft), what is about to
  be applied is a committed command (`ApplyIsDue`), a process that is down has no volatile state
  (`DownIsFresh`), and nobody sent in a term beyond its disk's (`TermsAreDurable`).
- `TypeCorrect` (`TypeOK`) and `BatchesAreAccepted` (`BatchIsAcceptable`) follow.
- `DisksAreRaft`: `Spec => Dur!Spec`, by cases on the actions: `Persist`, and a `Step` that needs no
  Ready, are steps of Raft on the disks; `Crash` is its `Restart`; all other actions leave the disks
  as Raft sees them. Hence `PipelineImplementsRaft` (`ImplementsRaft`), and every theorem about Raft
  holds of the disks.
- `SentStaysDurable` (`SentIsDurable`), from `SentStaysTrue` on the disks.
- `MachinesAreCommitted`: in every phase, running, stuck or down, a state machine was given the
  commands of a committed prefix of its node's disk; a running node's prefix is the one its applied
  index names, or one more between the machine's call and the storage's. `MachinesFollowDisks`
  (`MachineFollowsDisk`) follows. The command sequence of a prefix is a recursive function
  (`CommandsUpTo`); what it does is proved by the least counterexample (`NatLessThanWellFounded`),
  since the induction theorems with an operator parameter cannot be used.
- `StateMachinesAgree`: any two state machines were given the same commands in the same order, as
  far as both have come. This is what `README.md:5` of the repository promises, for any cluster, any
  loss, failure and crash; it combines the invariant above with `StateMachineSafety` of the disks.
  No run checks it: in the instances of the Node runs, which are small enough for crashes between
  all steps, no two machines are given different commands.

In `ProposalsProofs.tla`, from `BoundAssumption` and `NobodyAssumption`:

- `AnswersAreTrue`: `Spec => []AnswerInv`: calls that share a promise are of one ID, the pending map
  leads from an ID to a call of it, and there is at most one remembered result of an ID, that of an
  applied entry. `TypeCorrect` and `ResultsAreTrue` (`ResultIsOfAppliedEntry`) follow, for any
  retention.
- `WaitsAreOwed`: `Spec => []OwedInv`, and from it `WaitsAreReachable` (`EveryWaitIsOwed`) and
  `NobodyWaitsAfterStop` (`NothingOwedAfterStop`). The strengthening is about the queue: a call in
  it is, while the node runs, the pending one of its ID, unless its ID has a result, and is the only
  one of its ID there, also on a node that was stopped and still has it to run.
- `OneEntryPerLeadership` (`OncePerLeadership`), from `LeadInv`, which adds that an ID with an entry
  of the present leadership is not in the queue, and is pending or has a result as long as the node
  accepts calls.

The last two are proved under `NothingForgotten`: the number of IDs is at most the retention (10,000
unless an application says otherwise, `node.ts:86`). Without it they are false, which TLC shows with
two IDs and a retention of 1: the remembered result of an ID is forgotten while the handler at
`node.ts:213`, or a retry, still relies on it (section 6). The run has one ID, so the hypothesis
holds in it.

In `StorageProofs.tla`, from `NilAssumption`, `StorageBounds` and `BatchesAssumption`, for any
candidates, set of batches, terms, indexes and number of processes, every property of the run:

- `StorageIsInOrder`: `Spec => []StorageInv`, the inductive invariant, in four parts. `QueueInv`: a
  handle has at most one call on its way, and on the durable storage nothing of a handle is queued
  behind its `stopped`; since microtasks run in order, no call of an old handle is left when the
  next one is opened. `CoverInv`: between the two turns of a volatile `installSnapshot` the snapshot
  it persisted is still there. `StoredInv`: the log has no gap, what is applied is committed, and on
  the durable storage the log reaches the commit index, or is empty and the snapshot reaches it.
  `OwnerInv`: what the owner knows is what is stored, whatever its last call was
  (`OwnerKnowsStorage` says so only between calls, and is not inductive).
- From it `TypeCorrect`, `OwnersKnow`, and, by cases on the microtask that runs, the action
  properties `RefusalsChangeNothing`, `StorageAdvances` and `NodesCanStart` (`StaysStartable`). The
  last is an action property because its claim is not invariant: a persist with a wrong snapshot
  leaves a state that no node can start from (section 6). It rests on `IsRooted`: the snapshot is
  not beyond the commit index, and a log that is not empty starts no later than right behind it; a
  state is startable exactly if it is rooted, and `KeepsFooting` says that every other call keeps it
  so.

In `VisualizerProofs.tla`, from `NetworkBounds` and `LimitAssumption`, for any members, clients and
streams:

- `IdsDiffer` and `IdsAreOnceOnly`, from `QueueOK` (distinct identifiers, all below the next one):
  one lemma for each way a queue changes (joined, cut, copied into, reversed).
- `CutsAreClean`, `FlagsStayTrue`: each inductive as it stands, by cases on the operations, those
  that fail half way among them.
- `StreamsStayCurrent`, from `StreamInv`, which adds that the server listens to every simulation
  that is not dead. What the theorem says rests on `unpublished`, which a delivery that throws, or a
  drain at its limit, makes true, and any publication false.
- `TypeCorrect`, which needs all of these and the shape of the chain (`ChainOK`: an operation that
  drains or settles is the first of a chain that is not empty).

Only model-checked, since the prover has no liveness under fairness and no `ENABLED`:
`LeaderBringsUpToDate`, `ReadyIsFinished`, `FailureIsNoticed`, `InLogIsAnswered` and
`EveryRequestIsAnswered`; and the three violations of section 6. Every invariant and every safety
action property of the passing runs is a theorem.

## 5. What is not modelled

- Timers' delays and their randomisation (a timer may fire whenever the node is idle), the seeded
  random generator and the virtual clock: no state of the system depends on them beyond when things
  happen, which is left open.
- The JSON codec and the key-value machine: pure functions of a command's bytes.
- The network's waiters (`waitForPending`), drop-all and its own `drain`, and the test cluster's
  polling and its assertions: test drivers. The losses of drop-all are losses like any other in
  Raft.
- Reads of the storages (`getEntry`, `getEntries`, the history of batches), the visualizer's routes
  that only read, its timeline and revisions: nothing that is modelled depends on them.
- The React client: it shows what it is sent. That it compares no revisions is said in section 6.
- Snapshots in the core and the runtime: no code there creates one. `StaysStartable` says what the
  durable storage owes a runtime that does.

## 6. Findings

1. **NodeManualTimers** (`node.ts:274`). `docs/failure-semantics.md:9` says a storage failure makes
   the runtime unhealthy. When the storage refuses the applied index of a no-op entry the error
   leaves `#apply` outside its `try`: nobody calls `#fail`, the Ready is never advanced, and every
   later `step` throws while `status` says healthy. With timers, the next tick notices.
2. **ProposalsLost** (`node.ts:195`). A call whose entry another leader replaced stays in the
   pending map. When the node leads again the call waits for ever, and a retry, as `README.md:40`
   advises, joins it instead of proposing.
3. **ProposalsConflict** (`node.ts:286`). ADR 0009 says the same ID with different bytes is
   rejected; a caller is given the result of another command whose entry carries its ID.

Seen in the models and not given a run: a node that failed to persist reports the term in memory,
which its restart takes back (`test-cluster.ts:166` asserts terms never decrease); a proposal that
finds its node deposed gets a plain `Error('not leader')` from the core, not the `NotLeaderError` of
`docs/getting-started.md:217`; a new leader that holds an entry it has not applied appends a retried
command again, and both are applied (`docs/getting-started.md:215`); with a retention that
overflows, the handler at `node.ts:213` can delete the pending call of a later `propose` of that ID.

In the storages: the volatile one half-writes a batch that has both a hard state and an applied
index it refuses (`raft-storage-memory/src/index.ts:57` and `:62`; the runtime writes no such
batch), replaces a snapshot by an older one (`:114`), and takes a second vote in a term and a commit
index beyond its log, which the durable one refuses; the durable one lets `installSnapshot` pass an
injected failure, and checks the order of snapshots there but not in `persist`: a batch with a
snapshot older than the present one takes it back, and one beyond the commit index is accepted on an
empty log (`raft-testing/src/restartable-storage.ts:64`, `:78`), after which the constructor of
`RaftCore` refuses a commit index before the snapshot. No code of the runtime persists a snapshot. A
storage that holds a snapshot and entries it covers is accepted by `RaftNode.create` (`node.ts:104`)
and rejected by the constructor of `RaftCore` (`raft.ts:439`).

In the visualizer: `README.md` offers one through nine nodes and `RaftCore` takes one, three or five
(`raft.ts:54`), and a reset to another number leaves the server with a stopped simulation
(`server/index.ts:46`); a drain that reaches its limit publishes nothing of what it delivered
(`simulation-controller.ts:261`), and neither does a delivery whose handler throws, though its
message is gone and its node may have failed (`:131`, `:255`, `:262`): `StreamsAreCurrent` excepts
both until the next publication; a reset starts identifiers at 1 again, so a page that still shows
the old queue acts on messages of the new one; a page shows the snapshot that arrived last, not the
newest (`App.tsx:78`). Elsewhere: a proposal of the test cluster that is rejected while `propose`
still waits for the network has no handler yet (`test-cluster.ts:116`), and the codec encodes values
that it does not decode, which commits an entry no node can apply (`json-codec.ts:10`).

## 7. Plan

1. MemoryNetwork shown to implement the set of messages that Raft assumes: what is queued, and what
   is delivered, was sent, whatever is copied, reversed, dropped or cut in between.
2. The lemmas about `Reaction` split into one module per group of actions, if RaftLogProofs grows.
