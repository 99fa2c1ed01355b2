# A TLA+ model of Peer Pressure

Peer Pressure (`src/peer-pressure`) is a BitTorrent client in Go. This directory
models it: first of all its download engine, in which goroutines share state,
channels fill up, connections die half-way and a late or duplicated piece can be
counted twice; then the seeder, the DHT client, the start of a download from
trackers, magnet links and the DHT, and the smaller packages with state or an
algorithm of their own. All invariants that the runs check, and the refinement of
the peer session, are proved without bounds.

## 1. Inventory

| Component | State | Operations | Talks to |
|---|---|---|---|
| Picker (`download/picker.go`) | `frequency`, `done`, `inflight`, `endgame` under one mutex | AddPeer, RemovePeer, Pick (with pickEndgame, shouldEnterEndgame), Finish, IsDone, Abort | called by every worker |
| Peer session (`download/pipeline.go`, NegotiateUnchoke in `piece.go`) | job channel `jobCh`, `active` map, connection | sender goroutine: pick, request, queue; reader: register, read, verify, report, `abortAll` | picker, `results`, remote peer |
| Peer pool (`download/pool.go`) | `untried`, `active`, `strikes`, `doneCh` | run, startWorker, runWorker, handleWorkerExit, evaluate | starts sessions |
| Web and HTTP seeds (`download/webseed.go`, `httpseed.go`) | one piece in hand | run loop | picker, `results` |
| File (`download/session.go`) | `results`, `completed`, output file, context | start the workers, close `results`, collect and write | all of the above |
| Progress (`download/progress.go`) | piece and peer status | started, done, failed | called by workers and collector |
| Seeder and choker (`seed/`) | `conns`, `interested` and `choked` of each connection, `optimistic` | accept, handshake, message loop, evaluate on two tickers | remote peers, data files |
| KRPC transport (`dht/krpc.go`) | `txnN`, `txns` | Send, Listen | UDP |
| DHT node (`dht/node.go`, `table.go`) | routing table, tokens, the shortlist of a lookup | Bootstrap, FindNode, GetPeers, AnnouncePeer, Maintain | transport |
| DHT items (`dht/store.go`) | stored items with sequence numbers and ages | Get, PutImmutable, PutMutable, Prune | |
| Client (`cmd/peer-pressure/main.go`) | addresses found, discovery result | announce to all trackers, resolve a magnet link, discover, start the download | trackers, DHT, File |
| UDP tracker (`tracker/udp.go`) | socket, attempt | connect, announce, retry | UDP |
| Tracker tiers (`tracker/tiered.go`) | order of the tiers | Announce, promote | trackers |
| Magnet metadata (`magnet/metadata.go`) | `received`, `pending` | FetchMetadata | remote peer |
| Discovery (`discovery/`) | `seen`, the channel | Discover, addIfNew, Reset | sources |
| Peer exchange (`pex/tracker.go`) | `current`, `lastSent` | Add, Remove, Diff | remote peer |
| Throttle (`throttle/`) | `tokens`, `lastTime` | Wait, Read, Write | connections |
| Torrent data (`torrent/create.go`, `seed/verify.go`), Merkle (`torrent/merkle.go`) | none | hash files into pieces, read and verify pieces; tree, layers, proof | disk |
| uTP, LSD, bencode, peer wire format | see `PROJECT.json` | | |

What is hard here: the check `IsDone`, the hash and `Finish` of a piece are
separate critical sections; a session can die with pieces in three places (in
the sender's hands, in `jobCh`, in `active`), all of which must go back to the
picker; two bounded channels (`results`, `doneCh`) can block their senders
during shutdown; endgame hands one piece to several workers, even twice to the
same session; the pool cancels, replaces and recycles workers asynchronously.
Elsewhere: the choker and the connection handlers share flags without a lock;
replies on UDP come late, twice, unasked or never; announces overlap and act on copies;
the main goroutine waits for others that may fail. `PROJECT.json` lists these
hazards at their lines with the properties that watch them.

What makes each part correct: the picker's reservations and frequencies are
exact; a session accounts for each reservation and ends; the pool neither loses
nor duplicates a peer, keeps its slots filled and stops; only verified pieces
are written; `File` returns, and returns nil only for a complete file. The seeder
keeps its limits and serves everybody in turn; a DHT query gets its
own reply, as far as identifiers can tell, and a lookup asks the closest nodes and ends; the client collects each address
once and starts or exits.

## 2. Modules

| Module | Models | Uses |
|---|---|---|
| `Picker` | `picker.go`, one operation per method | |
| `Session` | the abstract peer session: what it owes the picker and the channel | `Picker` |
| `Download` | `File`: abstract sessions, seeds, channel, closer, collector | `Session` |
| `Pipeline` | the detailed session: NegotiateUnchoke, sender, reader, `jobCh`, wire | `Session` (also as the specification it implements) |
| `PeerPool` | the pool's manager and workers | |
| `Seeder` | `seed.go`, `choke.go`: accept loop, handlers, choker | |
| `Krpc` | the transport of `krpc.go` and the network | |
| `RoutingTable` | identifiers, distances and buckets, as operators | |
| `Dht` | `node.go`: lookups and the operations on them | `RoutingTable`, `Krpc` |
| `UdpTracker`, `Metadata` | one announce to a UDP tracker; one metadata exchange | |
| `Client` | `main.go`: peers and download, up to the transfer and after it | `UdpTracker`, `Metadata` |
| `Discovery`, `Tiers`, `Pex`, `Throttle`, `ItemStore`, `TorrentData`, `Merkle`, `Progress` | one package or type each | |
| `DownloadProofs`, `PipelineProofs`, `PoolProofs`, `SeederProofs`, `DhtProofs`, `ClientProofs` | the theorems about one component each | its module |
| `UnitProofs` | the theorems about the small modules | `Pex`, `ItemStore`, `Discovery`, `Progress`, `Tiers`, `Merkle`, `TorrentData`, `Throttle` |
| `SeqFacts` | lemmas about sequences and their parts, the least-number principle, and loops written as recursive functions | |
| `MCDownload`, `MCPipeline`, `MCPeerPool`, `MCSeeder`, `MCDht`, `MCClient`, `MCUnits` | instances for TLC | |

Correspondence with the code. A bitfield is the set of its pieces, so
`hasPiece` is set membership. Each mutex section is one step; whatever the code
does outside a lock (between IsDone, the hash, Finish and the send on `results`)
is a step of its own. A channel is a sequence with its real capacity, and a send
on a full channel is disabled. `pc[w]` is where a worker's goroutine stands;
`claims[w]` is the set of pieces the session still has to finish or abort, which
in `Pipeline` is computed from the sender's hand, `jobCh` and `active`. Data is
abstract: a piece is a name and a block its number, and the hash of a piece is
right when all its blocks are there and none is corrupt. Download times, speeds
and timers are nondeterministic: a deadline may expire and a tick may come at
any moment, and speeds rank the workers in any order.

`Seeder`: an address is one connection, and the same one may come back after it
has left. `hpc[a]` is where its handler stands, `uc[a]` its `uploadConn`; the
choker takes a snapshot and a decision in one step and then applies it to one
connection per step, while handlers go on. Bytes uploaded are counted in blocks.

`Krpc` and `Dht`: an identifier is a tuple of bits, and a node is its identifier.
`txns` maps a transaction to the query whose channel it holds; `net` is the set
of replies that may still arrive, any number of times, and stays what it is when
an identifier is taken again. A reply carries its age, the number of identifiers
taken since its query's, up to `TxnMod`; the code does not know it, the property
needs it. Nodes also reply when nobody asked them, with any identifier (`Stray`).
`Listen` looks at the identifier alone. What a node answers is fixed by `Knows`,
and each answer may be missing, an error or incomplete.

`UdpTracker`: `out` counts the answers that may still arrive for each request and
`sock` what the socket holds unread. Either may be lost or overtaken, and the
network may double a datagram (`UdpDuplicate`), which then counts as one more answer.

`Client`: `cpc` follows the main goroutine through `runPeers` and `runDownload`;
the trackers' goroutines, discovery and one metadata exchange run beside it. What
discovery and `File` do inside is the matter of `Dht` and `Download`; here they
have outcomes. `fetch = "stalled"` is a peer that keeps a read alive for ever, or
one that does not read, so that the client blocks writing the requests.

`ItemStore`: a writer puts any value under the number it has read or the next one,
with cas or without.

`TorrentData`: a file is a sequence of bytes, and different bytes may be equal.
A hash is the data it is of, in `Merkle` too, so two hashes are equal exactly when
their data is. Between hashing and verifying, a file may be rewritten with any
contents, shorter or longer.

`Progress` has the state of the picker that decides which worker has which piece,
endgame included. A worker there is a web seed, or one piece in the pipeline of a
session, which may also end without a report or be skipped as a duplicate.

Where steps are merged: a session of `Download` opens in one step with the test of
the context before it, and the choker of `Seeder` takes its snapshot, reads the
flags and counters of the connections and ranks them in one step; a session opened
just after a cancellation, or flags that change between two of these reads, change
none of the properties.

`Download` models `File` with `cfg.Quiet`; the progress display changes nothing
that the other parts read. The pool appears in it as what `File` can see: peer
workers that open sessions until they exit, and a `run` that returns only after
the context is done and all workers are gone.

Definitions marked *Mutant* are planted errors (a dropped guard, an off-by-one,
a missing RemovePeer). Put in the place of the definition that follows them, each
makes one property fail, which shows that the property depends on that line of
the code. They are used nowhere else.

## 3. What the runs check

| Run | Instance | Checked |
|---|---|---|
| `download` | 1 peer, 1 seed, 2 pieces; 2 sessions, 2 faults, cancellation | `TypeOK`, `NoLeakedReservation`, `ExclusiveBeforeEndgame`, `FrequencyExact`, `OnlyVerifiedData`, `NilIsCompleteBeforeEndgame`, `IncompleteKeepsAll`, `SeedStaysUntilDone`, `FileReturns` |
| `pipeline` | 1 session, 2 pieces of 2 blocks, `jobCh` of 1, 1 corrupt block | `TypeOK`, `CountedMeansWhole`, `NoStarvedJob`, `SessionEnds` |
| `pipeline_race` | the same session against another worker | `ImplementsSession` |
| `pool` | 2 peers, 1 slot, 3 retries, 3 strikes | `TypeOK`, `EachPeerOnce`, `SlotsFilled`, `ProductivePeersStay`, `WorkersStop` |
| `seeder` | 3 connections, limit 2, 1 slot | `TypeOK`, `LimitHolds`, `SlotsBounded`, `InterestedGetsUnchoked` |
| `dht` | 4 nodes of 3 bits, buckets of 2, `alpha` 2, 2 operations after Bootstrap, 3 identifiers, all nodes reply unasked | `TypeOK`, `PendingIsWaiting`, `ReplyToItsQuery`, `ClosestAsked`, `OperationsEnd` |
| `client` | 1 UDP and 1 HTTP tracker, 2 peers, 3 metadata pieces, 4 retries, 1 duplicated datagram | `EveryPeerOnce`, `HonestPeerVerifies`, `StaleReplyNeedsCopy`, `StartsOrExits` |
| `units` | each small module by itself | `EachPeerDelivered`, `TiersKept`, `ViewFollows`, `RateKept`, `NoLostUpdate`, `VerifyIsExact`, `ProofsAreExact`, `CountedOnce` |
| `file_nil` | 1 peer, 1 seed, no faults | `NilIsComplete` is violated |
| `file_hangs` | 1 peer, no seed, no faults | `FileReturns` is violated |
| `pipeline_unbounded` | as `pipeline` | `InFlightBounded` is violated |
| `pool_returns` | 2 peers, 1 slot | `RunReturns` is violated |

The four violated properties are what comments of the code promise:

* **`file_nil`.** The collector counts results. In endgame two workers can report
  the same piece: a seed never asks `IsDone`, and a session asks before it hashes.
  The second report is counted as another piece, `completed` reaches `numPieces`
  early, and `File` returns nil with a hole in the output file. Before endgame
  this cannot happen (`NilIsCompleteBeforeEndgame`, proved).
* **`file_hangs`.** `results` is closed after `pool.run` returns, and `pool.run`
  returns only when its context is done, also when every peer has struck out.
  With a seed alive `File` returns (`FileReturns` in `download`); without one it
  waits for ever, and the "download incomplete" error is never reached.
* **`pipeline_unbounded`.** The capacity of `jobCh` does not bound the pieces in
  flight, because the reader moves queued jobs to `active` without a limit.
* **`pool_returns`.** `evaluate` starts replacements while the cancelled workers
  still run, so more than `maxSlots` workers can exist. After the context is done
  nobody reads `doneCh`, whose capacity is `maxSlots`, and `wg.Wait` blocks for
  ever. All workers do get as far as their exit report (`WorkersStop`).

Several properties carry a condition, because without it the code does not keep
them. These conditions are results too:

* `LimitHolds`: handshakes that overlap pass `MaxConns` together (`seed.go:95`
  checks, `seed.go:154` counts).
* `TiersKept`: a promotion goes by index into a tier that another announce may
  have reordered, and then moves a tracker that did not answer to the front.
* `StaleReplyNeedsCopy`: when a connect request is answered twice, because it was
  sent again or because the network doubled it or its reply, the second answer is
  taken for the announce response, which fails as too short.
* `ReplyToItsQuery`: a reply nobody asked for, or one to a query so old that its
  identifier has come round (65536 queries), is delivered to whatever query now
  has the identifier, from whichever node it comes.
* `EachPeerDelivered`: after a cancellation an address can be recorded as seen and
  never delivered.
* `ViewFollows`: what a cap cuts off a PEX message is recorded as sent and not
  sent again until it changes.
* `CountedOnce`: the counter is exact until a fetch fails or a piece is shared in
  endgame. In endgame a worker picks a piece before another one finishes it and
  may report its start afterwards: `PieceStarted` (`progress.go:108`) turns the
  done piece active, and the next `PieceDone`, which returns for what is "already
  counted" (`progress.go:127`), counts it again, without any failure. A late
  `PieceFailed` of the collector, after another worker has finished the piece, has
  the same effect. The display can show more pieces than there are.
* `NoLostUpdate` speaks of writers that pass `cas`. A put that bears the stored
  sequence number returns nil and resets the item's age, and its value is not
  looked at: one with another value is acknowledged and dropped, although the
  comment at `store.go:121` says that the values are the same and
  `docs/bep-44.md:189` that the number must be greater. The property says that the
  item then stays as the writer had read it. After a prune the number a writer has
  read may belong to another item.
* `VerifyIsExact`: an intact piece is always found valid; the converse excepts
  pieces in which a file other than the last has lost bytes. `ReadPiece` moves its
  offset by what it has read (`verify.go:127`): if a file is shorter on disk than in
  the torrent, the next file is read from its start in place of the missing bytes,
  and when these happen to be equal, as in files full of zeros, `VerifyData` finds
  the piece valid. So it does not always read "from the correct file(s)"
  (`verify.go:101`).
* `StartsOrExits`: a peer in the metadata exchange renews the deadline of every
  read with messages that are skipped; or it does not read, and the writes of the
  requests, of which its `metadata_size` fixes the number, have no deadline.

Other differences between the code and its comments, met while modelling: a peer
that is no longer interested keeps its slot until the next evaluation, where
`docs/seeding.md:107` chokes it at once; `seed.New` does not verify the data
(`seed.go:38`), this is done by its caller; the command never cancels the seeder's
context; the burst is one second's worth of tokens, not the two of
`docs/bandwidth.md:71`; leaves of a hash tree are padded to a power of two
(`merkle.go:13` describes pairing an odd layer with a zero hash); the completion of
a download whose discovery result had to be waited for is not announced to the
DHT, because `dhtNode` stays nil.

### Bounds

Two pieces are the fewest for which endgame (all missing pieces reserved),
rarest-first ties and a nil return with a missing piece differ from one another;
the peer offers all pieces or one. Two sessions let a peer reconnect; two faults
let a second failure hit the recovery from the first. Two blocks per piece let a
piece be half received. `MaxActive = 1` fills `jobCh` at once; `WireCap` bounds
the requests the connection holds. `WireCap >= NumBlocks` is an assumption about
the environment and not only a bound: the reader does not read before the first
job is queued, and the job is queued after all of its requests are written, so a
piece with more requests than the connection buffers would block both goroutines
without a deadline. With one slot and two peers the pool recycles, evicts,
rotates (`rotateCount` is 1) and over-commits. A third peer or piece gives no new
kind of step; for the safety properties the proofs below remove all these bounds.

Seeder: three connections against `MaxConns` 2 and `UploadSlots` 1 make the limit
bind, give the choker a regular, an optimistic and a choked peer, and let the
ranking change; `MaxBlocks` 1 is the fewest uploads that do. DHT: the four nodes
fill one bucket (of `bucketSize` 2) and leave another with room, `Knows` leads
from the bootstrap node to nodes it did not know, to itself and to us; `TxnMod`
3 is the least above `alpha` and lets identifiers come round within a lookup,
`MaxOps` 2 lets an announcement or a refresh follow a lookup. All nodes are
`Strangers` and may reply at any time under any identifier, which `Listen`
cannot tell from a late reply of theirs: this is how late replies reach a query
in this run. Replies to queries that are over need not be kept besides
(`MaxLate` 0): while younger than a round of identifiers such a reply bears one
that no query has, and is dropped, and then it is like one of a stranger. The
proofs are for any `Strangers` and any `MaxLate`. Client: `maxRetries` is 4 (the
code's), `MaxCopies` 1 lets one datagram be doubled, which is enough for a stale
reply without a retry; the `PeerLists` repeat addresses within and across
results, and `NumMeta` 3 lets pieces come out of order and twice. Units:
`ChanCap` 1 makes sources wait; the tier of three is the shortest in which a
stale promotion moves a third tracker; `MaxAdded` and `MaxDropped` 1 against
four peers make both caps bind; `MaxIO` exceeds `Burst`; `MaxSeq` 3 leaves room
for two overtaking writers; the directories `Dirs` and `PieceLens` 1 to 4 put
file boundaries at, before and after piece boundaries, with an empty file, a
short last piece and reads of at
most `ReadMax` bytes, and two `Octets` let bytes be equal and different;
`MaxBlocks` 9 is one more than a power of two; `ResultsCap` 1 blocks a worker,
and `MaxFailures` 2 allows a failure after a failure. `MCUnits` runs one of its
modules in each behaviour, since they share no state.

### Fairness

Goroutines are scheduled, so each of their enabled steps is eventually taken
(weak fairness). Strong fairness is assumed where Go's channels and the network
justify it: a sender blocked on a channel that is drained again and again is
served (Go queues blocked senders in order), a peer that answers is not starved
by its own keep-alives, and once `abortAll` runs nothing extends the connection's
30 s deadline, so that the sender's writes do fail. Failures, cancellation,
opening sessions, ticks and corrupt data are never forced. `FileReturns` needs at least
one seed and finitely many faults; a seed's request ends because its HTTP client
has a timeout. The pool's `WorkersStop` uses that sessions end, which is
`SessionEnds` of `Pipeline`.

Seeder: tickers fire and the choker gets through its snapshot, which assumes that
peers read what they are sent (its writes have no deadline); strong fairness of
`Rotate` says that a random choice made again and again falls on everyone.
DHT: goroutines run and timers fire; no reply is ever promised. Client: deadlines
pass and HTTP requests time out, and discovery ends, which is `OperationsEnd`.
Throttle: time passes and a goroutine that can run does.

Deadlock is checked in `download`, `pipeline` and `pipeline_race`. The pool can
stop for good (that is `pool_returns`), and so can `File` without seeds; the
seeder, the DHT client, the commands and most of the units come to an end by
design. The runs of these instances do not check it.

## 4. What is proved

The proof modules are checked by TLAPS without bounds: for every value of the
constants that satisfies the named `ASSUME`s of the modules, which TLC evaluates
on every run. They say that sets are finite and limits are natural numbers
(positive where the code has a positive constant), that marker values are no
pieces, peers or blocks, and the following:

* peers and seeds are disjoint, bitfields are sets of pieces (`WorkerAssumption`);
* the pool's list of peers has no repetitions (`PoolAssumption`): what the client
  hands over has none, which is `PeersGivenOnce` below. GetPeers, whose result the
  client merges, removes repetitions itself (`ClientAssumption`; a tracker's list
  may have them);
* there are more transaction identifiers than queries in a round
  (`DhtAssumption`; 65536 against `alpha` = 3 in the code), and nodes are other
  than ourselves, though their answers may name us;
* a tier of an announce-list names no tracker twice (`TierAssumption`);
* files have any contents and sizes, pieces any positive length (`DataAssumption`);
* the number of datagrams the network doubles is any natural number
  (`UdpAssumption`), and any nodes may reply unasked (`KrpcAssumption`);
* `ProductiveRecycled` alone asks for `MaxStrikes > 1` (3 in the code): with one
  strike the first exit drops any peer.

An invariant is seldom inductive as it stands. The tables name what was added; the
strengthened invariants were checked by TLC on the instances of section 3 before
they were proved. Each proof that a step preserves an invariant goes through the
actions one by one.

### Download

| Theorem | Statement | Argument |
|---|---|---|
| `TypeCorrect` | `Spec => []TypeOK` | `TypeOK` needs `Shape` (a worker that reports a piece has one), which is invariant because a step changes one worker only (`WorkersAreLocal`) |
| `NoReservationLeaks`, `ReservationsExclusive` | `NoLeakedReservation`, `ExclusiveBeforeEndgame` | neither is inductive; with `DoneFree` (a done piece is not reserved) they are. `StepKinds` reduces every step to a claim, a return, a skipped duplicate or none of these |
| `FileIsVerified` | `OnlyVerifiedData` | `PathKinds` reduces every step to a Finish, a report, a collection or none of these |
| `NilIsCompleteFile` | `NilIsCompleteBeforeEndgame` | `Counted`: before endgame every verified piece has one success on its way, in one worker, one place of the channel or the file, so `completed` is the number of written pieces. A Finish adds a new success because the piece was reserved, hence (`DoneFree`) not done |
| `FrequenciesExact` | `FrequencyExact` | a registration adds exactly one worker to the sets that are counted, because `Shape` says that it had none |
| `CancelledKeepsAll` | `IncompleteKeepsAll` | `NothingLost`: until File returns otherwise, a done piece is in the file, in the channel or in the hands of a worker about to send it. When the channel is closed no worker is left (`NobodyLeft`), and the collector gives up only on an empty one |
| `SeedsStay` | `SeedStaysUntilDone`, an action property | `FullBitfieldPick`: with every bit set, Pick fails only if every piece is done, because the same call enters endgame |

### Pipeline

| Theorem | Statement | Argument |
|---|---|---|
| `TypeCorrect` | `TypeOK` | `PointInv` adds to the types where the sender and the reader stand and what they then hold |
| `CountingIsEnough` | `CountedMeansWhole` | `AnswersInOrder`: there is a function `next` giving, for each prefix of the wire, the block of each piece that comes next. The answers for a piece run through its blocks cyclically, so what an active job has received are the last `received` blocks of the cycle, whichever requests they answer; `NumBlocks` of them are all |
| `NoJobStarves` | `NoStarvedJob` | `RequestsKept`: there is a function `start` that places the requests of every queued job on the wire, one job after the other, and what the active jobs still need before the first. A job is registered after all of its requests were written, so answers the reader drops belong to earlier ones |
| `SessionImplemented` | `ImplementsSession`, the refinement | one lemma per group of actions shows that a step is an abstract step or a stutter under the mapping of `Pipeline`. The invariants it needs: `Reserved` (before endgame a piece is owed by one session and reserved), `Apart` (and is in one place of this session), `HashOwed` (a session owes the piece it hashes) and `Offered`. Without `Apart` an Abort of one of two copies would settle a piece the session still holds |

### Pool, seeder, DHT, client

| Theorem | Statement | Argument |
|---|---|---|
| `PoolProofs!TypeCorrect`, `PeersAccountedFor`, `NoIdleSlot`, `ProductiveRecycled` | `TypeOK`, `EachPeerOnce`, `SlotsFilled`, `ProductivePeersStay` | one invariant, `PoolInv`. Its core is `ReportsOwed` (a live worker owns a slot, a slot without a live worker has its exit report in `doneCh`), which needs `QueuesInjective`, and `PeersPlaced` (everybody is in a slot, in the queue or struck out). `NoStrike`: a productive worker keeps zero strikes until it leaves its slot |
| `SeederProofs!TypeCorrect` | `TypeOK` | with `ServeBelow` for the bound on blocks |
| `ConnectionLimit` | `LimitHolds` | a handshake that succeeds adds to the table without a check; what the accept loop bounds is the number of handlers (`HandlersLimited`) |
| `UploadSlotsBounded` | `SlotsBounded` | while decisions are applied the bound holds of `Slotted`: the unchoked connections already treated or newer than the snapshot, and those still to be unchoked |
| `DhtProofs!TypeCorrect` | `TypeOK` with the shape of the table | `Insert` keeps each bucket in bounds, without repetitions and with the nodes of its distance only; `InsertNew`, the loop over a reply, keeps what `Insert` keeps |
| `NoTransactionLeaks`, `OwnReplies` | `PendingIsWaiting`, `ReplyToItsQuery` | `IdsKept`: counted back from the last identifier given out, each one in use is so recent that the nodes of the round still to be asked cannot come round to it. `AgesKept` and `NetKept`: the age of a query, and of a reply that is not as old as a round, is told by its identifier (`NextId`, `OneBack`), so two of the same identifier have the same age, and a recent reply under an identifier in use comes from the node asked |
| `LookupsAskClosest` | `ClosestAsked` | a round asks the closest unasked nodes, so if it brings nothing new the `alpha` closest of the shortlist have been asked. This needs that distance orders nodes strictly (`LessOrder`, `CloserOrder`) and that the number of closer nodes ranks them (`RankGrows`) |
| `StaleReply` | `StaleReplyNeedsCopy` | `OneConnectReply`: unless a connect request or its reply was doubled, answers to come and replies in the socket are at most one together, and none once the announce begins |
| `HonestMetadata` | `HonestPeerVerifies` | `PendingCounts`: missing and received pieces add up to all pieces |
| `PeersGivenOnce` | `EveryPeerOnce` | `MergeFacts`: both merge loops keep the list free of repetitions and lose no address, the one of `runDownload` because the result of GetPeers has no repetitions (`PeersInv`) |

### Small modules

| Theorem | Statement | Argument |
|---|---|---|
| `ViewFollowsSnapshot` | `PexSpec => []ViewFollows` | inductive as it stands: a message tells only of peers in the delta (`CappedIsPart`), and what it does not tell of is in `cutOff` |
| `UpdatesNotLost` | `StoreSpec => []NoLostUpdate` | `SeqNamesItem`: until a prune, numbers only grow and what a writer has read is the stored item if it has the same number; so cas, which sees the number, sees the item |
| `PeersDelivered` | `DiscoverySpec => []EachPeerDelivered` | `NoRepeat` and `NothingDropped`: an address recorded as seen is sent or being sent, by one source only |
| `PiecesCountedOnce` | `ProgressSpec => []CountedOnce` | `Orderly`: before the first failure and the first shared piece, a piece in flight has one worker and is not finished, and what is shown as done, in the channel or about to be reported is |
| `TierOrderKept` | `TierSpec => []TiersKept` | `Walking`: an announce's copy differs from the tiers only in tiers reordered since |
| `ProofsExact` | `MerkleSpec => []ProofsAreExact` | the layers have powers of two as lengths, each half of the one below, so a leaf has an uncle at every level (`LayersFacts`, `HalvingBound`). A node above a block is the only one of its layer with its hash, padding included (`NodeIsUnique`), because `hashPair` is injective; so a turn of the loop with the block's uncle leads to the next node above it from that node and index, and from no other (`ClimbIsExact`) |
| `VerificationIsExact` | `DataSpec => []VerifyIsExact` | `DataInv`: while files are hashed, the hashes are the full pieces, and the digest the rest, of what has been read of the files laid end to end (`Hashed`), whatever each Read returned. Then the loop of `ReadPiece` (`LoopRuns`) has after each file read the part of the piece that ends there, as long as the disk has its bytes (`ReadReaches`, `LoopReads`). So an intact piece is read back (`IntactIsRead`). Conversely, if no file but the last has lost a byte of the piece, what is read is what is on disk (`Seen`), and equal to what was hashed only if every byte is in place (`ReadIsIntact`) |
| `RateBounded` | `ThrottleSpec => []WithinBurst`, the safety half of `RateKept` | `BurstShared`: what went through beyond the rate and what a refill would leave in the bucket are at most a burst together |

Induction over data. The library's induction theorems take an operator as a
parameter and cannot be used, so `LeastMember` (a set of natural numbers has a
least member) stands in: a property of numbers that holds at 0 and is handed on
holds up to any number (`UpTo`; `DownTo` the other way) because there is no least
number at which it would not. `Iterates` derives from it that a loop written as a
recursive function is defined. `InsertNewKeeps`, `MergeFacts` and what is said
above of the layers of a tree, of offsets, of the files end to end and of the loop
of `ReadPiece` are proved in this way.

### Only model-checked

* The liveness properties `FileReturns`, `SessionEnds`, `WorkersStop`,
  `InterestedGetsUnchoked`, `OperationsEnd`, `StartsOrExits` and `RateKept` (its
  second half): they need fairness and ENABLED, which TLAPS does not handle.

## 5. Not modelled, and the plan

Left out for good:

* text rendering, bencode, the encoding of peer, tracker, DHT, PEX and LSD
  messages, the parsing of torrent files and magnet links: conversions without
  state, a matter for unit tests;
* `utp/`: packet headers, bit masks, and a congestion window computed in floating
  point. No other package uses it, so no code fixes the order of its calls;
* `lsd/`: multicast socket I/O and two goroutines that share a set under a lock;
* `dht/security.go` and SampleInfohashes, scrape requests: one computation or one
  request each, with no state that anything else reads;
* `DownloadAndVerify` and `downloadBlocks`, which no other code calls;
* the failures of creating and truncating the output file, which come before any
  concurrency;
* a remote peer that answers out of order or sends blocks nobody asked for is
  outside `Pipeline`: the code counts blocks without looking at them, so that
  such a peer costs the piece a hash failure.

No proof of an invariant is open. What remains with TLC is listed at the end of
section 4.
