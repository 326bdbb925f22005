# A TLA+ model of Zend X Chain

Zend X Chain is a proof-of-work chain with a UTXO ledger, written in Rust
(`src/crates/`). A node mines, accepts transactions, exchanges blocks with its
peers and chooses between forks. A custody service pays withdrawals from a hot
wallet and collects deposits. There is no finality: as the code says of
itself, the full validation of every block is the whole security model. This
directory models the part of the node that decides what the ledger is, the
network of such nodes with its connections and messages, and the custody
service on top of it. It checks them with TLC and proves their central
invariants with TLAPS.

Contents: [inventory](#inventory), [modules](#modules), [runs](#runs),
[bounds](#bounds), [fairness](#fairness), [proofs](#proofs),
[findings](#findings), [what is left out](#what-is-left-out), [plan](#plan).

## Inventory

### Components, their state and their operations

| Component | State | Operations | Correct when |
|---|---|---|---|
| `znx-types`, `znx-codec` | none | transactions, blocks, headers; txid, block hash, `tx_root`, `pow_hash` | names are content |
| `znx-crypto` | none | keys, addresses, signatures | (cryptography) |
| `znx-consensus` | none | `verify_pow`, `subsidy_for_height`, `retarget`, `block_work`, `cumulative_work` | the subsidy follows the schedule and its cap; the difficulty follows the pace, by 4x at most |
| `znx-state` | none of its own; a UTXO set that it is handed | `apply_transaction`, `apply_coinbase`, `OverlayStore` | a block is all or nothing, no output is spent twice, no coin is made beyond subsidy and fees |
| `znx-storage` | RocksDB: UTXOs, blocks by height, heights by hash, latest height, undo data, heights by txid | `put_block`, `apply_changes`, `commit_block`, `undo_latest_block`, reads | the column families describe one chain, the UTXOs are what that chain leaves, undo is the inverse of commit |
| `znx-mempool` | a FIFO queue, the outpoints claimed by its members | `insert`, `next_batch` | claims are those of the pending transactions; bounded; nothing waits for ever |
| `znx-node`, chain | the database behind one mutex | `bootstrap_genesis`, `commit_new_tip`, `handle_inbound_block`, `backfill_and_reorg`, `try_reorg_to_chain`, `run_ibd_sync` | the node moves only to valid and better chains, and a failed reorg leaves everything as it was |
| `znx-node`, miner | the candidate being hashed | `build_mining_candidate`, `mine_batch`, `submit_own_block`, `requeue_failed_candidate` | work is lost to races only; transactions are not lost |
| `znx-node`, peers | strikes per peer | `record_strike`, `handle_block_request`, `run_ibd_sync` | honest peers are not banned; nodes converge |
| `znx-p2p` | connections per peer and network group, pending requests, listen addresses | gossip, block requests, connection limits, rotation, bans | counters match the connections; no group has more than its share; every request is resolved once, every message judged |
| `znx-rpc` | none | JSON-RPC around `RpcNode`: coins, transactions, blocks, mining info, submission | the answers about one coin fit together, whatever was reorganised before |
| `znx-wallet`, `znx-wallet-cli` | an encrypted key file | select outputs, sign, send | it does not spend an output twice |
| `znx-custody` | journal of withdrawals, watched addresses, deposits reported | make deposit addresses, pay withdrawals, scan deposits, sweep | nobody is paid twice, what is paid and credited is what was asked and deposited, no deposit is lost |
| `znx-testkit` | a cluster of nodes for tests | | (tests) |

### How they interact

`SharedNode` puts one tokio mutex around the storage, one around the mempool
and one around the strikes; locks are taken in the order storage, mempool.
Every inbound message runs in a task of its own (`run_main_loop`), so do the
miner loop and the RPC server. A task that finds the storage lock free runs up
to its database write without an `await`: the lock is the unit of
interleaving. Three handlers give it up half way and go on with what they saw:
the miner (build, hash, submit), the backfill (find the ancestor, take the lock
again, reorg) and the initial download (read the height, request, commit).

The database write is one RocksDB `WriteBatch`, applied whole or not at all.
Two operations are more than one write: the bootstrap (genesis block, then
premine) and a reorg (one write per block undone, committed or restored).

### What is hard here

- Reorgs that fail deep inside and have to put everything back, with an
  `expect` on the way back; crashes and failed writes between their steps.
- Undo data that must be the exact inverse of a block.
- Heights and ancestors read under one lock and used under another.
- A mempool that never looks at the chain again, and a miner that takes
  transactions out of it before it knows that it will confirm them.
- Integer arithmetic at period boundaries: clamps, halvings, saturation.
- Forks of equal weight between nodes, downloads and backfills in any order,
  while the tip that they started from moves.
- Events about connections that are handled after the connection is gone:
  counters, a rotation queue and bans that have to come out right anyway.
- Response channels and reports that libp2p waits for: one that is forgotten
  leaks, or keeps a message from being passed on.
- In custody, a crash or a lost answer between paying and writing down that it
  was paid; outputs listed by one call and spent by another; a reorganisation
  between the questions whose answers add up to a number of confirmations.

`PROJECT.json` lists these hazards one by one, at the line where they bite, with
the properties that watch over them.

## Modules

```
                ZnxPowers
                    |
ZnxTypes  ZnxConsensus ------------------ ZnxHeaders --- MCHeaders
     \     /
     ZnxState ------ ZnxRules -------------- ZnxNetwork --- MCNetwork, MCStruck
      |      \            |
  ZnxStorage  \       ZnxLedger (abstract)
      |        \          | refinement
      |     ZnxMempool    |
      |             \     |
   ZnxChain -------- \ ---+-- ZnxRpc ---- MCChain --- MCPhantom
      |               \
      +------------- ZnxNode --- MCNode

ZnxOverlay (ZnxState) --------------------- MCChain
ZnxConnections ---------------------------- MCConnections
ZnxBlockService (abstract) -- ZnxMessages - MCMessages

ZnxPowers -- ZnxAmounts -+- ZnxWallet ---- ZnxWithdrawals -- MCWithdrawals
                         +- ZnxKeystore -- ZnxDeposits ----- MCDeposits

ZnxSums_proofs (ZnxPowers) -+- ZnxNode_proofs (ZnxNode, ZnxRpc, ZnxOverlay, ZnxLedger)
                            +- ZnxNetwork_proofs
                            +- ZnxHeaders_proofs
                            +- ZnxDeposits_proofs
                            +- ZnxWithdrawals_proofs
ZnxConnections_proofs    ZnxMessages_proofs
```

**ZnxTypes**: the universe of transactions and blocks, as constants. Names are
content addresses (a txid hashes all of a transaction, a block hash commits to
its transactions), so a name and its content determine each other: transactions
are named by model strings, blocks by numbers since the fork choice compares
hashes. What a signature check or the root of the transactions says is a field.
`TypesAssumption`, `GenesisAssumption` (the shape of the block that
`bootstrap_genesis` builds) and `HashAssumption` (a transaction cannot name
itself) are all that is assumed of the universe.

**ZnxConsensus**: the functions of `znx-consensus`, with `expected_target` of
`znx-node`. Numbers have their widths as constants (`HashSpace`, `AmountBits`).
Powers, which shifts and decimals are made of, are the recursive function of
**ZnxPowers**; sums are the folds of the community modules.

**ZnxHeaders**: a chain of headers that miners extend, each dating its block
by its own clock; the difficulty and the subsidy over time.

**ZnxState**: when a transaction, a coinbase and a block apply to a UTXO set.
The loop over an `OverlayStore` is given in closed form: the i-th transaction
sees the base with the outputs of those before it, less what they spent.
A UTXO set is a set of outpoints, since the txid determines the output.

**ZnxOverlay**: the same validation the way `validate_full_block` computes it, a
fold of `apply_transaction` over the transactions after the coinbase, each of
which reads the `OverlayStore` that those before it have changed. No action uses
it: it is there to show that the closed form is right. `MCChain` and `MCPhantom`
compare the two on every set of coins that their blocks can leave (an `ASSUME`,
evaluated when their runs start), and `LoopIsClosedForm` proves it.

**ZnxStorage**: one variable per column family, one action per `WriteBatch`.

**ZnxChain**: one node's chain. Actions and the code they stand for:

| Action | Code |
|---|---|
| `PutGenesis`, `ApplyPremine`, `Restart` | `run` up to the bootstrap, the two writes of `bootstrap_genesis`, a later start |
| `CommitNewTip` | `commit_new_tip` from gossip, the miner or a download |
| `SiblingReorg` | the branch of `handle_inbound_block` for the local height |
| `FindAncestor`, `BackfillReorg` | `backfill_and_reorg`: the last lookup, then the reorg under another lock. The blocks collected have consecutive heights, and nothing makes them link |
| `ReorgUndo`, `ReorgCommit`, `ReorgReject`, `ReorgRollback`, `ReorgRestore` | the body of `try_reorg_to_chain`, one write each |
| `Crash`, `WriteFails` | the process dies, in a reorg or out of it; RocksDB refuses a write of a reorg |

A reorg holds the lock: while `reorg # Idle` every other handler waits. Its
local variables are the record `reorg`, lost in a crash. An `expect` that
fails would leave the restore without a successor; `RestoreNeverPanics` says
that this does not happen.

**ZnxRules**: which chains are valid, and which of two is the better one. The
promise of one node and the exchange of blocks between several are stated with it.

**ZnxLedger**: what a node promises, in three actions: found the chain, adopt
a valid and better one, and, when a fault is counted, be interrupted. What that
leaves need not be better (see [findings](#findings)), but it is a valid chain
of a certain form (`PartOf`): the old one up to some height and, it may be, on
top of that the first blocks of a candidate which, once complete, would have
been the better chain. The coins are always what replaying the chain leaves.

**ZnxRpc**: what each method of the JSON-RPC server answers from the database,
as operators on the column families. A method holds the storage lock for its
reads, so it sees the database between two handlers.

**ZnxMempool**: `insert` and `next_batch` as functions of a pool.

**ZnxNode**: the chain, the mempool and the miner together. `BuildCandidate`
takes the batch out of the pool; then either a block of the universe that fits
the candidate is found (`SubmitOwnBlock`) or the attempts run out
(`RequeueCandidate`), while other tasks move the chain (`ChainStep`) and
submit transactions (`Submit`).

**ZnxNetwork**: several nodes. Each has a chain, slots for the handlers that
wait for something (a backfill, an initial download), strikes and a block list;
between them are connections, gossip in flight, and requests that read the
chain of the peer when the peer gets to them. The chain is a sequence that
every handler takes from one valid state to the next under its lock; what goes
on inside a reorg, and what a fault does to it, is `ZnxChain`.

| Action | Code |
|---|---|
| `Connect`, `Disconnect` | `NetworkEvent::PeerConnected` at either side, each starting `run_ibd_sync`; a connection that is lost |
| `Mine`, `Publish` | `submit_own_block`, `publish_or_retry` |
| `InboundExtends`, `InboundInvalid`, `InboundSibling`, `InboundOrphan` | the branches of `handle_inbound_block`, with the report and the strike |
| `BackfillLookup`, `BackfillAnswer`, `BackfillReorg` | `backfill_and_reorg`, cut where it awaits or lets go of the lock |
| `IbdWindowStart`, `IbdAnswer`, `IbdApply` | `run_ibd_sync`: the heights of a window, its answers in any order, each block under a lock of its own |
| `Strike`, `Ban` | `record_strike`; the network task, some time later, gets to the `BanPeer` that it sent |
| `Misbehave`, `Lose` | external: a peer publishes a block that no node can commit; a message is lost |

**ZnxConnections**: the connections of one node as the swarm has them and as
the network task was told of them, which is later. `HandleEstablished`,
`HandleClosed`, `HandleBan` and `RotateOldestOutbound` are the arms of
`Network::run`; `Accept`, `DialSucceeds`, `DialFails`, `GoDown` are what libp2p
does by itself (its limits per peer and in total, and its block list, are
external, modelled as configured in the code).

**ZnxMessages**: the channels between the handlers, the network task and the
network task of a peer. A block request is followed from `request_block`
through the command queue, the wire, the handler of the peer and back
(`RequestBlock`, `SendRequest`, `ReceiveRequest`, `HandleBlockRequest`,
`SendResponse`, `ReceiveResponse`, or a failure on either side at any moment);
a gossiped message from `publish_block` through its retries to the report that
libp2p waits for. A block is named by its height. Every message is a block or a
transaction: the nodes subscribe to no third topic.

**ZnxBlockService**: what a handler may assume of `request_block`: a call
returns once, with a block that the peer had, or with none. `ZnxMessages`
implements it, and `ZnxNetwork` uses a peer this way.

**ZnxWallet**: `select_utxos` and `build_transfer`. Outputs of the same amount
come in any order, so the selection is a set of possible results.

**ZnxWithdrawals**: the withdrawals of `znx-custody`. `process_withdrawal` holds
the journal lock from the lookup to the line it writes, across two calls to the
node; the record `withdrawal` is its program counter, with one action per call
or write. Its callers are `sign_withdrawal` at any time and `run_poll_loop`,
which goes through the rows that it has listed and reports each. The node is
reduced to what happens to the transactions of the wallet: pending, in the
candidate that is being mined, confirmed. As in `ZnxNode`, a transaction being
mined claims nothing. The backend is a status per request. The file of the
journal is a sequence of lines and whether the last one has its newline. The
amount of a row is its decimal; a caller of `sign_withdrawal` gives an amount in
base units and a fee of its choice, under an id that the poll may have in a row
with another amount. Its destination is always the one of that row: another one
would be one more parameter that differs. A write to the journal happens whole
or not at all; a line of which the disk takes a part reads like one without its
newline, but for its own entry. When a write fails, `Journal::append` panics with
the lock held and the transaction out. That ends one call of `sign_withdrawal`,
or the task of the poll (`polling`), which nothing starts again while the process
lives.

**ZnxAmounts**: a decimal as what it reads as (whole part, the number that its
decimals spell, how many they are), the two conversions of `znx-custody`
between decimals and base units with their width, and what it means that they
say the same.

**ZnxKeystore**: `Keystore::create` and `decrypt` as an authenticated box: it
opens with the password and the address it was sealed with, or not at all.

| Action | Code |
|---|---|
| `SignWithdrawal`, `ProcesarRetiro`, `RechazarRetiro` | the two callers of `process_withdrawal`, and a row that does not parse |
| `ListUnspent`, `SubmitTransaction` | `znx_wallet::send`: the two calls, each with the code up to the next |
| `JournalFails` | one of the two panics of `Journal::append` |
| `AppendLine`, `AppendNewline` | the two writes of `writeln!` in `Journal::append`; the entry and the answer to the caller come after the second |
| `Tick`, `ReportarResultado` | `listarRetirosZNX`, `confirmarRetiroZNX` |
| `ListFails`, `AnswerLost`, `ReportFails` | a call fails; of `submit_transaction`, after the node has admitted the transaction |
| `CustodyCrash`, `NodeRestart` | a process stops and starts: `Journal::load`, an empty mempool |

**ZnxDeposits**: one user, from `cumplir_solicitudes_deposito`, which makes the
address and leaves its encrypted key with the backend (`FulfilRequest`,
`FulfilLost`), to `escanear_direccion_deposito` and the sweep, signed with the
key that the keystore gives back. The process can be restarted with another
password or none. That the backend keeps the first confirmation of an address,
and credits a deposit once, is an external assumption. The outputs, the
height of the chain, the height of each transaction and each report are
separate actions, between which blocks are appended and undone. The chain is
reduced to heights: of the tip, of the transaction of each output, and of the
sweep that spends it. A reorganisation leaves no shorter chain (the code
compares work, which is the same at equal heights but across a difficulty
adjustment). It may undo as many blocks as it likes: the code follows branches
of 20 blocks while the default is 6 confirmations, and the initial download can
go deeper. So a credited deposit can leave the chain, and the variable
`tooDeep` remembers whether one reorganisation has undone as many blocks as
confirmations are asked for: that is the only way (`CreditedStays`). `refused`
remembers the deposits whose report the backend answered with an error status.
The scan belongs to the same task as the poll of the withdrawals; that a panic
in the journal can end it is in `ZnxWithdrawals` only.

**MC modules**: a universe each, drawn in its head comment. Operators whose
comment begins with "Mutant" are broken variants of the definition that follows
them; each is known to violate the property that `PROJECT.json` pairs it with.

## Runs

| Run | Specification | Checks | What it shows |
|---|---|---|---|
| `chain` | `FairSpec`, two faults | `TypeOK`, `IndexesAgree`, `TxIndexAgrees`, `UtxosReplayChain`, `RestoreNeverPanics`, `SupplyWithinSchedule`, `AnswersAgree`, `ImplementsLedger`, `ReorgEnds` | Wherever crashes and failed writes hit a reorg, the column families describe one chain and its coins, a restore validates, no coin comes from nowhere, and what the RPC answers about a coin fits together. Seen between two holders of the lock, the node only moves to valid and strictly better chains unless it is interrupted. A candidate that turns out invalid (a double spend, a coinbase that claims too much, blocks that do not link, another genesis) leaves everything untouched. Every reorg ends. |
| `headers` | any clocks | `TypeOK`, `AdjustsAsDocumented`, `SubsidyHalves`, `SupplyCapped` | Clamping the timespan in integers gives the documented clamp of the target by four, up to the ceiling and down the floor of the division; halvings to zero, under the published cap. |
| `node` | `NodeFairSpec` | `NodeTypeOK`, `ClaimsExact`, `OwnBlockLosesOnlyRaces`, `PendingIsTried` | The claims of the mempool are exact at every moment. As long as the tip is the one that it built on, the miner's block commits, although the chain may have gone away and come back. No pending transaction is passed over for ever, though failed candidates are requeued for ever. |
| `network` | `FairSpec`, one fault | `NetTypeOK`, `MovesToBetter`, `NotLeftBehind` | With gossip, backfills and downloads of both nodes interleaved, with a lost message, a failed request or a peer that misbehaves, a node only moves to a better chain, though its handlers act on what they saw earlier; and without faults, of two nodes that stay connected none stays behind the other on one chain. |
| `connections` | `Spec` | `TypeOK`, `CountsExact`, `GroupsBounded`, `BannedStayOut`, `OldestFirst` | Connections open, close, are refused, rotated and banned while their events wait: no slot of a group is lost or given back twice, no group exceeds its limit, a banned peer does not stay, rotation closes the oldest. |
| `messages` | `Spec` | `TypeOK`, `AnswerIsComing`, `ImplementsService`, `EachIsReported`, `BlocksReachPeers` | Whatever fails in between, a request is resolved exactly once; no response channel is forgotten; every message is judged; a block that is mined before anybody listens gets out when somebody does. |
| `withdrawals` | `FairSpec`, one fault of any kind | `TypeOK`, `OneMorePerLoss`, `CompletedIsJournaled`, `PaysWhatIsAsked`, `AllReported` | A request listed by the poll and sent by the RPC, refused, failed, reported in vain, before and after a restart, is paid once. Only an answer of `submit_transaction` that is lost, a crash before the line is on disk, or a line that the journal does not take costs a payment, and one at most. What the poll pays is what the decimal of the row says, and no row is completed on account of a payment of another amount, though `sign_withdrawal` may have been asked for one under the same id. What was reported is in the journal. Every request is reported in the end, though rivals for the same outputs are refused until a block has one of them, unless a panic has ended the poll. |
| `deposits` | `FairSpec`, one fault of any kind | `TypeOK`, `CreditedStays`, `SweptWasCredited`, `CreditedInFull`, `CreditedIsSwept` | A reorganisation between any two of the calls of a scan does not make it count confirmations that a deposit has not: what is credited stays until a reorganisation undoes as many blocks as confirmations were asked for. What is credited is what the chain paid, to the last digit. A deposit whose report is lost is not swept, one that is refused may be; one that is credited is, in the end. |

Four more runs are expected to fail, one for each disagreement between the code
and what it says of itself that is worth a run (see [findings](#findings)):
`phantom`, `lost_txs`, `paid_twice`, `struck`. The longest runs take two to
three minutes with two workers (`connections` with 2.6 million states; `node`,
`network`, `withdrawals` and `deposits` for their liveness), the others at most
one.

Deadlock is checked except where the system may stop: `headers`, where mining
stops at `MaxHeight`, and `connections`, `messages`, `network` and `struck`,
where all has been said within the bounds.

## Bounds

- **Universe of `MCChain`** (11 blocks, 14 transactions): two forks at
  height 1, ties broken by hash both ways, a lighter but shorter chain that wins
  by work after a difficulty adjustment, an invalid block on top of a winning
  fork in two ways (double spend, overclaimed coinbase), a transaction
  confirmed on both sides of a fork, a foreign genesis block. Heights up to 3:
  reorgs that undo and apply two blocks, and fail after the first.
- `MaxBackfillDepth` 3 (20 in the code) lets a candidate reach from the top to the
  genesis; the depth bounds the length of a candidate and nothing else.
- `MaxHandlers` 1: one backfill that has let go of the lock after its last
  lookup. While it waits all other handlers run, which is all that a
  second one could do to it; the variable `found` forgets nothing.
- `MaxFaults` 2 in `chain`: a second fault can hit the recovery from the first.
  `node` has none: liveness with faults does not finish in minutes, and what a
  crash does to the chain is in `chain`.
- `MCHeaders`: 8 heights, four adjustments and four periods; clocks that make a
  period too short, right and too long by more than the clamp, or run backwards.
  `AmountBits` 3 puts the shift by the whole width of an amount within reach.
  In `AdjustsAsDocumented` the expected timespan is a multiple of four, as it
  is in `genesis/devnet.json` (15 s times 60).
- `MCNode`: a mempool of 2 that fills up, batches of 1, rival and dependent
  transactions, one that is confirmed twice on two forks.
- `MCNetwork`: two nodes, one two blocks behind the other or both on a fork of
  equal work, with blocks to mine on top and an invalid one that would win every
  tie. A window of 2 and at most 3 blocks per download, so that a download has
  two windows and can end by its limit; two slots for handlers, two strikes to a
  ban. `MaxConnects` 1 keeps `network` in minutes. With two nodes nothing is
  passed on to a third: forwarding, which happens before the ancestors of a block
  are known, is in `Hear` and not exercised.
- `MCStruck`: one chain of three blocks, which A has and of which B has the
  genesis block. No fork, no block to mine, nothing gossiped and no fault, so
  that all that B can be struck for is a download of that chain; two connections
  and two slots, so that two downloads can run. With one connection the property
  holds.
- `MCConnections`: two peers, two groups, four connections ever, at most two
  per group, two per peer and three in total, so that each limit is reached
  alone. The peers are interchangeable (symmetry).
- `MCMessages`: one request from A to B, for a block that B may get meanwhile,
  a block of A and a transaction. The maps are keyed by request, so that a second
  request would share the command queue and nothing else. The response that is too
  long (`ReadResponse`) does not occur: the encoded size of each height is a
  constant, 1 here.
- `MCWithdrawals`: two requests that both select the largest output, one of
  them with more decimals than the chain has, so that the poll rejects its row
  while `sign_withdrawal` can still be asked for it. `sign_withdrawal` asks for
  the amount of the other row or for the largest that there is (7 bits), with a
  fee of 0 or 5, which does not fit on top of the latter. The funds (150 and 96)
  suffice for two withdrawals as the poll makes them, or for one of them and one
  with a fee, and not for three. One fault: a second crash could find
  a journal that does not load (see below), and the process stays down, the case
  that `AllReported` excepts.
- `MCDeposits`: two deposits, two confirmations, reorganisations of one block or
  two and chains of up to three, so that a deposit can be counted, undone and
  mined again at another height during one scan, more than once, by
  reorganisations on either side of the confirmations. One fault of any kind.
  The deposits are 1.05 and 1.2, one with a zero in front of its decimals and one
  that leaves zeros behind.

## Fairness

- `WF_vars(ReorgStep)`: `try_reorg_to_chain` is synchronous and its loops are
  over finite lists; once entered it runs on.
- `SF` on `BuildCandidate` and on the end of a candidate (`MinerDone`): the
  miner competes with other tasks for the storage lock, so that its steps are
  enabled and disabled again and again. The tokio mutex hands the lock out in
  the order of the requests, so a task that keeps asking gets it. The search
  for a nonce ends after `MINING_BATCH_ATTEMPTS`; which way it ends is not
  fair, and the property holds when no nonce is ever found.
- In `ZnxWithdrawals`: `WF` on what the process has begun (calls to the node and
  to the backend have timeouts, file writes return), on the tick of the poll
  and on the report; `SF` on the next row, since it needs the journal lock,
  which tokio grants in order; `WF` on building a candidate and `SF` on mining
  it: not every search finds a nonce, but not all fail for ever.
- In `ZnxNetwork`: `WF` on what is under way (publish, handling of gossip, steps of
  tasks): a publish is retried every `PUBLISH_RETRY_DELAY`, a request is answered or
  times out, a task runs on. That a connection opens or a block is mined is not
  fair.
- In `ZnxMessages`: `WF` per node on events, commands, handlers and retries
  (`select!` picks a ready branch at random, tokio runs every task), and on the
  failure of each request: libp2p ends it by its timeout if nothing else does.
- In `ZnxDeposits`: `WF` on the scan, which the poll repeats for ever (as long
  as no panic in the journal has ended its task) and every call of which has a
  timeout. Blocks are not fair, so that
  `CreditedIsSwept` asks for a sweep that was admitted, not mined.
- Nothing else is fair: no message, block or transaction ever has to come.

## Proofs

41 theorems in 8 modules; `PROJECT.json` lists each with the property that it
states. All invariants and all action properties that the passing runs check are
proved, and the refinement of both abstract specifications in its safety part. No
bound of a run is left in a theorem: universes, widths, limits, depths and numbers
of faults are the constants, with the assumptions that the modules declare.

**`ZnxSums_proofs`**: what the others need about sums, powers and numbers. The
induction theorems of the library take an operator, which the provers cannot
instantiate; so the module proves induction in a form that takes a set:
`NumberInduction` (a set of numbers with 0 and the successor of each of its
members has them all) and `SetInduction` (the same for finite sets, over a set
of sets). A fold is a `CHOOSE` of a recursive function; `TableExists` builds the
table of its values, from which follow `SumWithout` (take one term away),
`SumSplit`, `SumMonotone` and `SumRenamed`. `PowerSteps` does the same for
`Power`.

### The chain

The theorems of `ZnxNode_proofs` hold for every universe that satisfies the
assumptions of `ZnxTypes` and `ZnxConsensus`, every depth of backfill, any number
of handlers and any number of faults. They are about the database alone first;
**`NodeIsChain`**, that every run of the node is one of its database, carries them
over to the node with its mempool and miner.

**`TypeCorrect`, `IndexesAlwaysAgree`**: `Spec => []TypeOK` and
`Spec => []IndexesAgree`. Neither is inductive alone: what a reorg does next
depends on its local variables. `IndexInv` adds `ReorgOK`: while blocks are
undone or rolled back the latest height is above the fork, a commit or restore
never has the whole of its list behind it. Two lemmas carry the argument:
`CommitKeepsIndexes` (a block that links to the tip puts one more link on the
chain) and `UndoKeepsIndexes` (the undo takes the last link away, its hash with
it and no other, since blocks of different heights are different).

**`CoinsMatchChain`, `TxIndexMatchesChain`**: `Spec /\ UndosAreClean =>
[]UtxosReplayChain` and the same for `TxIndexAgrees`. `UndosAreClean` says of an
execution that no block is undone which spends an output that it creates itself.
Such blocks are valid and may be committed, restored and built upon; the run
`phantom` shows that the first property is false once one is undone, and
**`UndoMakesPhantoms`** that the outputs which the block made and spent are all
that comes to life then. `CoinsInv` says that each block spends what the blocks
under it left or what it makes itself, has its exact undo data, confirms no
transaction a second time, and that a coinbase sits at the height it claims.
That no transaction is confirmed twice is the crux (`ValidBlockIsNew`): a
coinbase names its height, and the first other transaction of a block to come
again would spend an output that is spent, and that only a transaction before it
in the block could have made anew, which would have come again as well.

**`LoopIsClosedForm`**: in every state of the database, in the middle of a reorg
too, the loop of `ZnxOverlay` accepts a block on the tip exactly when `NewTipOk`
does, and what it collects is what `CommitTip` writes; on the same condition.
The first half needs no more than that the UTXO set names outputs
(`LoopAccepts`): after each round the overlay shows `ViewAfter` of the
transactions so far (`AfterRounds`, by induction over the rounds), so the next
applies in the one exactly when it does in the other; and the fees, which the
loop checks for overflow at each step, fit at the end exactly if they fit all
along, none being negative. The second half does not hold of any set of coins:
`OverlayStore` takes an outpoint out of `created` when it is spent but never out
of `spent` when it is created, so that an outpoint which comes again after it
was spent would be in both. `ValidBlockIsNew` rules that out on a chain, and
`ApplyStaysClean` within the block.

**`RestoreIsSafe`**: `[]RestoreNeverPanics`, on the same condition.
That a block was valid once says nothing about now: the coins, the target and
the parent must be what they were. `RestoreInv` follows the chain that the reorg
started from (`Original`: what is still in the database, then what was taken
off) and says that each of its blocks fits on those below it; `FitsAlike` that
whether it fits depends on those below only, so that the candidates tried and
undone in between do not matter. `CoinsInv` gives the coins.

**`AnswersAlwaysAgree`**: `[]AnswersAgree`, on the same condition, from `CoinsInv` and
`IndexInv`: a coin that the scan of the UTXO set finds was created by a
transaction of the chain, which the transaction index knows at a height where
the block is.

**`LedgerImplemented`**: `ImplementsLedger`, on the same condition;
the chain that the refinement shows is the local one, and during a reorg the one
that it started from. Nearly every action is a stutter; one `Seen...` lemma
each. That the last commit of a reorg adopts a *better* chain was decided
several writes earlier: `WinnerInv` keeps the comparison that
`try_reorg_to_chain` made, in terms of `Original`, together with what has been
committed of the winner. It keeps it through the rollback too, where it no longer
matters to the outcome: a fault there leaves first blocks of the candidate in the
database, and the ledger allows that only because the candidate was better
(`LocalIsPart`, `CandidateIsPart`). `try_reorg_to_chain` compares the work above
the fork and `Better` that of whole chains; `WorkAboveSplits` and `WorkShifted`
show that the common part cancels. That the original chain stays valid is
`RestoreInv`.

**`SupplyStaysWithinSchedule`**: `[]SupplyWithinSchedule`, on the same
condition. Not inductive: a reorg goes back to chains of which the
invariant of today says nothing. `SupplyOfChain` proves it instead of every chain
of valid blocks, by induction on the height, and `CoinsInv` says that the coins are
always those of such a chain. For one block: each transaction leaves no more than
it takes (`ValueAfterTx`), so all of them no more than there was, less the fees
(`ValueAfterTxs`), and the coinbase takes the subsidy and those fees.

**`NodeTypeCorrect`, `ClaimsAreExact`**: `NodeSpec => []NodeTypeOK` and
`NodeSpec => []ClaimsExact`, by `PoolInv`. Insertion keeps the claims exact
because the newcomer claims what nobody did; a batch, because the claims of what
stays are apart from those of what goes; a requeue is a fold of insertions.

**`OwnBlocksLoseOnlyRaces`**: `NodeSpec /\ UndosAreClean =>
[]OwnBlockLosesOnlyRaces`, where `SupplyFits`, that is, the premine and all
the subsidies fit an amount: `validate_full_block` adds fees with a check where the
candidate adds them with saturation, so that a block of a chain that overflowed
would be refused. The universe of `MCNode` satisfies it (8 + 52 of 255), as does
`genesis/devnet.json`; in the universes of `MCChain` and `MCNode` no block
spends an output of its own, so that all their executions satisfy `UndosAreClean`.
`CandidateInv` cannot speak of the local chain, which may be
another one while the miner hashes: the candidate was built on *some* chain, and
when the tip is its parent again, that chain is the local one, since a block
determines what is under it (`LinkedAlike`).

### The headers

For every schedule, width and clock. **`EachPeriodHalves`**: shifting by one
more is halving (`PeriodsHalve`), the cut at the width of an amount included.
**`AdjustmentAsDocumented`** has the hypothesis that the expected timespan is a
multiple of four: the code divides it first, and otherwise clamps to a little
less than the quarter that is documented. **`SupplyNeverPassesItsCap`** by
`Supplied`: the supply, with what is still to come of the period of the tip, is
at most that of whole periods, and a geometric sum bounds those
(`ThroughBounded`). **`HeadersTypeOK`**: targets stay below the space of hashes.

### Several nodes

`ZnxNetwork_proofs`, for any nodes, blocks and limits, any number of handlers at
once, and any messages lost, requests failed and connections dropped. It assumes
of the databases at the start that they hold valid chains
(`DatabasesAssumption`), which is what `LedgerImplemented` says of each node.

**`NetTypeCorrect`, `NetMovesToBetter`**: `Spec => []NetTypeOK` and
`Spec => MovesToBetter`. That the blocks of a backfill have consecutive heights
follows from the chains of the *peers*: `NetInv` adds that every chain is valid,
so that the block which a peer has at a height is of that height
(`AnswerHeight`). A better chain is better as a whole, a reorg compares only what
is above the fork: `WorkAdds` shows that the work of a chain is the sum of that
of its parts, and `ReorgMovesToBetter` takes away the common one.

**`BetterIsAnOrder`, `ForksAreSettled`**: the comment of `try_reorg_to_chain` says
that all nodes which see both chains converge to the same winner. `SameTip` is
the crux: a tip determines the chain under it, so two chains of equal work never
tie. Then `Better` is a strict total order on valid chains, and two nodes that
are each sent the other's whole tail end on the same chain, without a strike.
The theorem is about whole tails; the sibling branch sends one block of them.

**`SameTipSameChain`**: at all times, nodes with the same tip have the same chain.

**`WhoIsStruck`**: the run `struck` refutes that strikes are for invalid blocks;
this theorem says what they are for, with all ways in which an honest peer can
be struck. A block that some node can commit, on a chain that ends in its
parent, can be committed there (`SoundFits`, from `SameTip`), and so can a branch
of such blocks (`BranchCommits`). So a commit or a reorg that fails either has
a block that no node can commit, or is given blocks that do not fit: a branch
which is not one of the local chain, or a downloaded block which is not on the
tip of the moment. `GenesisStaysPut` is needed because the genesis block is
sound and still cannot be committed: nobody ever sends it.

**`BansHold`**: no peer is blocked that has not been struck as often as
`STRIKES_BEFORE_BAN`, and no blocked peer is connected.

### Connections and messages

**`CountsAlwaysExact`, `GroupsAlwaysBounded`, `BannedAlwaysOut`,
`ConnectionsTypeCorrect`, `OldestIsFirst`** (in `ZnxConnections_proofs`): for any
peers, addresses and limits. `MapInv` says of
which connections the map has an entry, with the group of their address: only
those that the task was told of and whose end it was not, and all of these that
are still open. `CountInv` that the counter of a
group is the size of its part of the map, and within the limit, so that the
saturating subtraction never saturates. `QueueInv` that connections are told of
in the order in which they opened and that the queue has those of the map that
this node dialled, in that order: one that is established goes to its end, and
`Removing` shows what is left when one is closed out of order.

**`MessagesTypeCorrect`, `AnswerIsAlwaysComing`, `ServesBlocks`** (in
`ZnxMessages_proofs`): for any nodes, requests and messages. `CallInv` says
that the command of a request is queued once and before the request is in the
map, that its caller waits while it is in either, and that an answer on its way
carries a block that the peer has, since chains only grow in this model.
`ServesBlocks` is the safety part of the refinement (`Service!SafeSpec`): every
step is a `Grow`, a `Call`, a `Return` or none.

### Custody

For any requests, amounts, widths, funds and number of faults (in
`ZnxWithdrawals_proofs`).

**`CompletedAlwaysJournaled`**: `MemoryInv` says that what the process takes
for paid or is about to report is on disk; `WithdrawalInv` what each step of
`process_withdrawal` knows; `LinesInv` that a line names a transaction that pays
its request, which `Journal::load` needs after a crash. It does not say that
the journal loads again, and it does not always (see findings).

**`AlwaysPaysWhatIsAsked`** has two halves. `TxsOK`, part of `TypeInv`, says
of each transaction made for the poll that it pays what its row parses to, and a
lemma on the conversion alone that what `ParseDecimal` accepts is the same amount
as the decimal (`SameAmount`), since a power of ten splits at the number of
decimals. The other half, about rows that are completed, follows the amount from
the journal: `ExactInv` says that each line names a transaction of its amount and
that what is about to be reported, or was, has a line of the amount of the row.
That is what the comparison in `process_withdrawal` is for, and what a restart
must bring back.

**`OnePaymentMorePerLoss`**: by counting. `CountInv`: the transactions made for a
request are at most the lost answers, the crashes and the lines not taken so far
(`Losses`), and one more when the journal has the request or is about to. A step
adds a transaction only for a request that is not in the journal in memory
(`JournalInv`), and `Settled` says when the journal has it: in memory or being
written while the process runs, on disk while it is down.

**`DepositsTypeCorrect`, `CreditedDepositsStay`, `SweptDepositsWereCredited`,
`AlwaysCreditedInFull`** (in
`ZnxDeposits_proofs`) hold for any set of deposits, any number of
confirmations, any depth of reorganisations, any height and any number of
faults; nothing is assumed of the depth. `DepthInv` says more than
`CreditedStays`: until a reorganisation undoes as many blocks as confirmations
are asked for, a credited deposit, and one about to be reported, has its
confirmations. `AnswerIsDeep` is where the order of the calls matters: the
height of the chain was asked before that of the transaction, so it can only
be too low. `DeepStays` shows that neither a block nor a shallower reorganisation
takes confirmations away from a deposit that has them all, so that any number of
these in a row cannot do what a deep one does. `SweepInv` adds to
`SweptWasCredited` the deposits that the scan has reported so far.
`AlwaysCreditedInFull` is the way back of the conversion: the zeros that
`FormatUnits` cuts off are a factor, so that what is left says the same amount.

### What the proofs changed

- `VisibleChain` and `VisibleCoins` of `ZnxChain` were a `CASE` with arms that
  overlap, of which TLC takes the first and the semantics any; they are nested
  conditions now.
- `ZnxState` assumed nothing of the width of the targets that blocks declare,
  `ZnxWithdrawals` nothing of the decimals of a row: `WidthAssumption`, and
  `DecimalNumber` in `WithdrawalsAssumption`, say what the types of the code say.
- `ZnxNetwork` took the rules of the chain from an instance of `ZnxLedger`, which
  has variables; they are a module of their own, `ZnxRules`. It assumed nothing of
  the chains that the nodes start from, and now says that they are valid.
- In `ZnxNetwork`, a backfill gave up at a block of height 0 before it looked for
  the parent, where the code looks first; and a ban was one step with the strike
  that leads to it, where the code sends it to the network task. Neither changed
  the verdict of a run.
- Filters and recursive helpers on sequences became slices, `RemoveFirst` and
  `SumFunction`, which have definitions that can be reasoned with.

### What is only model-checked

- Liveness under fairness, which is out of reach of the proof system:
  `ReorgEnds`, `PendingIsTried`, `NotLeftBehind`, `EachIsReported`,
  `BlocksReachPeers`, the fair part of `ImplementsService`, `AllReported`,
  `CreditedIsSwept`.
- The four runs that find a disagreement.

## Findings

| Run | What the code does |
|---|---|
| `phantom` | Undoing a block that spends its own output deletes that output and then puts it back from the undo data: an output exists that no transaction of the chain creates. |
| `lost_txs` | `submit_own_block` drops the transactions of a block that lost the race, the loss that the requeue was written to prevent. |
| `struck` | A and B are on one chain, B behind. B connects twice and each connection starts a download of the same blocks; the slower download finds the tip moved (`UnexpectedHeight`), and `run_ibd_sync` counts that as a strike against an honest peer for a valid block. The comments say that strikes count blocks that do not validate and that concurrent downloads are harmless. |
| `paid_twice` | A withdrawal whose `submit_transaction` is admitted and not answered is not in the journal; the next cycle pays it again from other outputs. The comment says that a withdrawal is idempotent by its request id. |

Smaller disagreements that the models contain and no run is spent on:

- A crash or a failed write in the middle of `try_reorg_to_chain` leaves the node
  on a part of its old chain, with first blocks of the candidate on it or not; the
  comment says that it never stops half way. The database is consistent, but
  nothing finishes the reorg on restart (`Interrupt` of `ZnxLedger` is the action
  that says so).
- A crash between the two writes of `bootstrap_genesis`: the premine never enters
  the UTXO set, since the restart takes the bootstrap for done.
- Transactions submitted over RPC are never gossiped: `publish_transaction` has no
  caller, though the comment on `TX_TOPIC` (`znx-p2p` lib.rs:171) says that what
  enters the mempool over RPC is published.
- The initial download chooses between no forks: a node on a lighter fork gets
  blocks that do not fit from a heavier peer, strikes it, and stays where it is
  until the next block is gossiped (`NotLeftBehind` speaks of one chain only).
- Forks of equal work that are two blocks deep or more are not settled by their
  tips: `InboundSibling` replaces the last block only. If the block that comes has
  the smaller hash, `try_reorg_to_chain` finds that its parent is another one, and
  the honest peer is struck. The comment there says that the first block of a
  candidate links to the fork, and that one block at the local height is exactly a
  sibling. It is the second of the cases of `WhoIsStruck`.
- Rotation does nothing with one outbound connection, and dials bootnodes to which
  it is connected already: the second connection starts the second download of
  `struck`. Strikes never expire.
- `main.rs` of the node says that the genesis file is read only if the data
  directory is empty; it is read at every start.
- `znx-storage` (lib.rs:29) says that the genesis block has no transactions; with a
  premine it has one, which is not in the transaction index. `get_transaction` does
  not find it (the exception in `AnswersAgree`), so that custody would never see a
  premine output at a deposit address as confirmed.
- `latest_height` of the wallet says that it returns `None` with no block above the
  genesis block; it returns 0 then.
- A journal that cannot be opened or written makes `Journal::append` panic
  (`znx-custody` main.rs:278 and 279) after the payment is out. On the path of the
  poll that ends the task for good while the process runs on and serves its RPC;
  the doc of `run_poll_loop` says that a failure of any step is only logged and
  that the next tick tries again (main.rs:570). And the payment is not in the
  journal, so that it is made again after a restart (`JournalFails`).
- A credited deposit leaves the chain with a reorganisation as deep as the
  confirmations, and nothing takes the credit back or limits the depth
  (`tooDeep` in `ZnxDeposits`).
- A request signed over RPC with a fee, or for another amount, is an error for the
  poll, which asks without one and for what the row says: its row stays
  "procesando" for ever though it is paid (the exception in `AllReported`).
- `znx-types` says that `znx-consensus` checks the timestamp of a block against
  the one before it; nothing does (`header.timestamp` is unconstrained in
  `ZnxChain`).
- The timespan of a period is measured over one block fewer than the period
  has; blocks exactly at the target pace lower the target at every adjustment
  (`ZnxHeaders`).
- The requeue of a failed candidate can be refused: the tip and the mempool move
  while the miner hashes. The comment says that nothing changes in between.
- `list_unspent` ignores the mempool, and what is being mined claims nothing: a
  withdrawal can choose outputs of the one before, be admitted and reported, and
  then be dropped by the miner. The comment says that the lock prevents
  overlapping outputs (`ZnxWithdrawals`).
- `writeln!` writes a line of the journal and its newline apart. After a crash in
  between, the next entry joins that line, and after that `Journal::load` panics
  at every start; the comment says that the journal survives a restart.
- Only a report that could not be sent counts as failed: a deposit that the
  backend refuses with an error status is swept (`ReportRefused`). The comment
  says that it is not swept if it could not be reported (main.rs:515). So
  `SweptWasCredited` has to allow the deposits whose report was refused, and says
  that there are no others.

## What is left out

- Cryptography, encodings, parsing of JSON, genesis files and command lines, the
  file of the keystore and its permissions, logging.
- Malformed bytes (`decode` fails before any state is touched), gossip scores.
- What libp2p does between two nodes: it is external, and modelled by what the
  code relies on. Listen addresses; the identity, which is new at each start, so
  that a ban does not survive a restart of the peer.
- Peers that answer a block request with another block than the one requested:
  the code does not look at it in a backfill, and commits fail on it by height.
- In `ZnxMessages`, a reorg that leaves a chain of fewer blocks (`top` only grows).
- Faults inside `ZnxNetwork` steps: a reorg is one step there and three writes in
  `ZnxChain`.
- Saturation of the expected timespan at 2^64 and of the fees at 2^128 in the
  miner's sum: the second is kept (`AtMost(.., MaxAmount)`), the first needs
  a genesis file without meaning.
- The order in which tasks take the storage and the mempool lock, which is the same
  everywhere: a model that holds a lock for a whole step could not show a deadlock
  between the two.
- Forks of equal work that are two blocks deep or more, in the runs of the network:
  the actions allow them, the universe of `MCNetwork` has none, and what happens
  on them is described under findings.
- Of custody: tokens of its RPC (`check_auth`); a line of the journal of which the
  disk takes only a part; a destination of `sign_withdrawal` that is not the one of
  the row of the same id. The order in which the
  poll goes through its rows is any order. Deposits are positive: an output of
  zero would be reported at every scan and never swept alone.
- `znx-wallet-cli` and `znx-testkit`: no state of their own.

## Plan

Done, in this order: `ZnxTypes`, `ZnxConsensus`, `ZnxState`, `ZnxStorage`,
`ZnxChain` with `ZnxLedger` and its proofs, `ZnxHeaders`, `ZnxMempool`,
`ZnxNode`, `ZnxWallet` with `ZnxWithdrawals`, `ZnxDeposits` and its proofs; then
`ZnxNetwork`, `ZnxConnections`, `ZnxMessages` with `ZnxBlockService`, `ZnxRpc`,
`ZnxAmounts`, `ZnxKeystore`, and the proofs of what they and the restore of a
reorg promise; then the supply, the refinement of `ZnxLedger`, the mempool, the
miner, the headers, the amounts and the number of payments, proved; then the
network, its fork choice and its strikes, proved; and last the coins for blocks
that spend their own outputs, and the loop of `validate_full_block`
(`ZnxOverlay`) shown to compute the closed form. What is left is what the
section above lists as not modelled.
