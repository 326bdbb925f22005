------------------------------- MODULE ZnxRpc -------------------------------
(***************************************************************************)
(* What znx-rpc answers from the database of a node.  Every method takes   *)
(* the storage lock for its reads, so it sees the database between two     *)
(* handlers and never within a reorganisation; what a client puts together *)
(* from several answers is up to the client (ZnxDeposits has one).         *)
(***************************************************************************)
EXTENDS ZnxChain

CONSTANTS
  Addresses,     \* owners of outputs
  OutputOwner    \* txid -> the owners of its outputs, in order

ASSUME RpcAssumption ==
  /\ OutputOwner \in [Txs -> Seq(Addresses)]
  /\ \A t \in Txs : DOMAIN OutputOwner[t] = DOMAIN TxBody[t].outputs

None == [none |-> TRUE]

(* list_utxos_for: there is no index by address, all of the set is read.   *)
ListUtxosFor(owner) == {o \in utxos : OutputOwner[o[1]][o[2]] = owner}

ListUnspent(owner) ==
  {[txid |-> o[1], vout |-> o[2], amount |-> AmountOf(o)] : o \in ListUtxosFor(owner)}

TransactionResult(t) ==
  [txid        |-> t,
   is_coinbase |-> TxBody[t].coinbase,
   inputs      |-> TxBody[t].inputs,
   outputs     |-> [i \in DOMAIN TxBody[t].outputs |->
                      [amount |-> TxBody[t].outputs[i], pubkey_hash |-> OutputOwner[t][i]]]]

BlockResult(b) ==
  IF b = NoBlock THEN None
  ELSE [height       |-> Height(b),
        hash         |-> b,
        parent_hash  |-> Parent(b),
        target       |-> Header[b].target,
        transactions |-> [i \in DOMAIN Body[b] |-> TransactionResult(Body[b][i])]]

(* The methods get_block, get_block_by_hash and get_transaction.           *)
BlockAnswer(h)     == BlockResult(GetBlock(h))
HashAnswer(hash)   == BlockResult(GetBlockByHash(hash))

TransactionAnswer(t) ==
  LET where == GetTransaction(t)
  IN  IF where = NotFound THEN None
      ELSE [height |-> where.height, block_hash |-> where.block,
            transaction |-> TransactionResult(t)]

(* get_mining_info: the target is that of the tip, which at a boundary of  *)
(* the adjustment is not the one that the next block must declare.         *)
MiningInfo ==
  [height       |-> latest,
   target       |-> IF latest = NoHeight THEN InitialTarget ELSE Header[GetBlock(latest)].target,
   next_subsidy |-> SubsidyForHeight(latest + 1)]

-----------------------------------------------------------------------------
(* The answers that a wallet combines fit together: a coin that            *)
(* list_unspent shows belongs to a transaction that get_transaction finds, *)
(* unless it is of the premine; at the height that it answers, get_block   *)
(* has a block with that transaction and with the amount that was shown;   *)
(* its hash leads to the same block, and it is not above the latest height *)
(* that confirmations are counted from.  The code unwraps these reads      *)
(* (znx-storage lib.rs:174).                                               *)
AnswersAgree ==
  LockFree =>
    \A owner \in Addresses : \A coin \in ListUnspent(owner) :
      LET answer == TransactionAnswer(coin.txid)
          block  == BlockAnswer(answer.height)
      IN  coin.txid \notin TxsOf(GenesisBlock) =>
            /\ answer # None
            /\ block # None /\ answer.height <= MiningInfo.height
            /\ block = HashAnswer(answer.block_hash)
            /\ \E i \in DOMAIN block.transactions :
                 /\ block.transactions[i] = answer.transaction
                 /\ answer.transaction.outputs[coin.vout] =
                      [amount |-> coin.amount, pubkey_hash |-> owner]
=============================================================================
