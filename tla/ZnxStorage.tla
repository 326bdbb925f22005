----------------------------- MODULE ZnxStorage -----------------------------
(***************************************************************************)
(* The database of znx-storage: one variable per RocksDB column family,    *)
(* one action per WriteBatch, which RocksDB applies whole or not at all.   *)
(***************************************************************************)
EXTENDS ZnxState

VARIABLES
  utxos,      \* CF_UTXOS: the outpoints present
  blocks,     \* CF_BLOCKS: height -> block
  hashIndex,  \* CF_BLOCK_HASH_INDEX: block hash -> height
  latest,     \* CF_META, META_KEY_LATEST_HEIGHT, or NoHeight
  undo,       \* CF_UNDO: height -> outpoints to restore
  txIndex     \* CF_TX_INDEX: txid -> height

storage == <<utxos, blocks, hashIndex, latest, undo, txIndex>>

NoHeight == -1

(* A column family is a function from the keys it holds.                   *)
Put(cf, keys, value) ==
  [k \in DOMAIN cf \cup keys |-> IF k \in keys THEN value ELSE cf[k]]

Delete(cf, keys) == [k \in DOMAIN cf \ keys |-> cf[k]]

Empty == [k \in {} |-> {}]

StorageInit ==
  /\ utxos = {}
  /\ blocks = Empty /\ hashIndex = Empty /\ undo = Empty /\ txIndex = Empty
  /\ latest = NoHeight

StorageTypeOK ==
  /\ utxos \subseteq OutPoint
  /\ latest \in Nat \cup {NoHeight}
  /\ DOMAIN blocks \subseteq Nat
  /\ \A h \in DOMAIN blocks : blocks[h] \in Blocks
  /\ DOMAIN hashIndex \subseteq Blocks
  /\ \A b \in DOMAIN hashIndex : hashIndex[b] \in Nat
  /\ DOMAIN undo \subseteq Nat
  /\ \A h \in DOMAIN undo : undo[h] \subseteq OutPoint
  /\ DOMAIN txIndex \subseteq Txs
  /\ \A t \in DOMAIN txIndex : txIndex[t] \in Nat

NoBlock == -1

GetBlock(h) == IF h \in DOMAIN blocks THEN blocks[h] ELSE NoBlock

GetBlockByHash(b) == IF b \in DOMAIN hashIndex THEN GetBlock(hashIndex[b]) ELSE NoBlock

(* Where a transaction is confirmed, or NotFound.  The code unwraps both   *)
(* reads: the block, and the transaction in it.                            *)
NotFound == [height |-> NoHeight, block |-> NoBlock]

GetTransaction(t) ==
  IF t \in DOMAIN txIndex
  THEN [height |-> txIndex[t], block |-> GetBlock(txIndex[t])]
  ELSE NotFound

(* get_undo: a block without undo data restores nothing.                   *)
GetUndo(h) == IF h \in DOMAIN undo THEN undo[h] ELSE {}

PutBlock(b) ==
  /\ blocks' = Put(blocks, {Height(b)}, b)
  /\ hashIndex' = Put(hashIndex, {b}, Height(b))
  /\ latest' = Height(b)
  /\ UNCHANGED <<utxos, undo, txIndex>>

ApplyChanges(spent, created) ==
  /\ utxos' = (utxos \ spent) \cup created
  /\ UNCHANGED <<blocks, hashIndex, latest, undo, txIndex>>

(* Mutant: the coinbase, which no other transaction precedes, is left out  *)
(* of the transaction index.                                               *)
CommitBlock_NoCoinbase(b, spent, created, undoData) ==
  /\ utxos' = (utxos \ spent) \cup created
  /\ blocks' = Put(blocks, {Height(b)}, b)
  /\ hashIndex' = Put(hashIndex, {b}, Height(b))
  /\ latest' = Height(b)
  /\ undo' = Put(undo, {Height(b)}, undoData)
  /\ txIndex' = Put(txIndex, {Body[b][i] : i \in 2..Len(Body[b])}, Height(b))

CommitBlock(b, spent, created, undoData) ==
  /\ utxos' = (utxos \ spent) \cup created
  /\ blocks' = Put(blocks, {Height(b)}, b)
  /\ hashIndex' = Put(hashIndex, {b}, Height(b))
  /\ latest' = Height(b)
  /\ undo' = Put(undo, {Height(b)}, undoData)
  /\ txIndex' = Put(txIndex, TxsOf(b), Height(b))

(* Mutants: the undo forgets the hash index, or the transaction index.     *)
UndoLatestBlock_KeepsHash ==
  LET b == blocks[latest]
  IN  /\ utxos' = (utxos \ OutputsOf(TxsOf(b))) \cup GetUndo(latest)
      /\ txIndex' = Delete(txIndex, TxsOf(b))
      /\ latest' = IF latest = 0 THEN NoHeight ELSE latest - 1
      /\ blocks' = Delete(blocks, {latest})
      /\ undo' = Delete(undo, {latest})
      /\ UNCHANGED hashIndex

UndoLatestBlock_KeepsTxs ==
  LET b == blocks[latest]
  IN  /\ utxos' = (utxos \ OutputsOf(TxsOf(b))) \cup GetUndo(latest)
      /\ latest' = IF latest = 0 THEN NoHeight ELSE latest - 1
      /\ blocks' = Delete(blocks, {latest})
      /\ hashIndex' = Delete(hashIndex, {b})
      /\ undo' = Delete(undo, {latest})
      /\ UNCHANGED txIndex

(* The outputs of the block go first and the undo data is written after    *)
(* them, so an outpoint that is in both stays.                             *)
UndoLatestBlock ==
  LET b == blocks[latest]
  IN  /\ utxos' = (utxos \ OutputsOf(TxsOf(b))) \cup GetUndo(latest)
      /\ txIndex' = Delete(txIndex, TxsOf(b))
      /\ latest' = IF latest = 0 THEN NoHeight ELSE latest - 1
      /\ blocks' = Delete(blocks, {latest})
      /\ hashIndex' = Delete(hashIndex, {b})
      /\ undo' = Delete(undo, {latest})
=============================================================================
