------------------------------ MODULE ZnxTypes ------------------------------
(***************************************************************************)
(* The transactions and blocks of znx-types, as the constant universe that *)
(* the other modules draw from.  Both are content addressed: a transaction *)
(* is named by its txid, which hashes all of it (signatures included), and *)
(* a block by its header hash, which commits to its transactions through   *)
(* tx_root.  A name and its content therefore determine each other, and a  *)
(* txid in an input fixes the output that it refers to.  Block names are   *)
(* numbers because the fork choice compares hashes.                        *)
(***************************************************************************)
EXTENDS Integers, Sequences

CONSTANTS
  Txs,           \* txids
  TxBody,        \* the content of each transaction
  Blocks,        \* block hashes, as numbers
  Header,        \* the header of each block
  Body,          \* its transactions, in order
  GenesisBlock   \* the block that every node builds from the genesis file

(* An outpoint is <<txid, vout>>.  The witnesses of a transaction are the  *)
(* public keys and signatures of its inputs; witnessOk says that each key  *)
(* hashes to the owner of the output spent and each signature verifies,    *)
(* which the names in the inputs determine.                                *)
OutPoint == Txs \X Nat

Transaction ==
  [coinbase      : BOOLEAN,       \* is_coinbase
   claimedHeight : Nat,           \* of a coinbase, the height it encodes
   inputs        : Seq(OutPoint), \* of a coinbase, none refers to an output
   outputs       : Seq(Nat),      \* amounts
   chainIdOk     : BOOLEAN,
   witnessOk     : BOOLEAN]

(* The parent of the genesis block is itself here (a zero hash in the      *)
(* code, which names no block either).                                     *)
BlockHeader ==
  [height    : Nat,
   parent    : Blocks,
   target    : Nat,
   timestamp : Nat,
   powHash   : Nat,      \* the hash that proof of work compares to target
   txRootOk  : BOOLEAN]  \* tx_root is the root of the transactions carried

ASSUME TypesAssumption ==
  /\ TxBody \in [Txs -> Transaction]
  /\ Blocks \subseteq Nat
  /\ Header \in [Blocks -> BlockHeader]
  /\ Body \in [Blocks -> Seq(Txs)]
  /\ GenesisBlock \in Blocks
  /\ Header[GenesisBlock].height = 0

Height(b) == Header[b].height
Parent(b) == Header[b].parent

TxsOf(b) == {Body[b][i] : i \in DOMAIN Body[b]}

(* What a transaction takes out of the UTXO set and what it puts in.       *)
Spends(t) ==
  IF TxBody[t].coinbase THEN {}
  ELSE {TxBody[t].inputs[i] : i \in DOMAIN TxBody[t].inputs}

Outputs(t) == {t} \X DOMAIN TxBody[t].outputs

SpendsOf(txs)  == UNION {Spends(t) : t \in txs}
OutputsOf(txs) == UNION {Outputs(t) : t \in txs}

(* bootstrap_genesis makes one coinbase of height 0 per genesis file, or   *)
(* none when there is no premine.                                          *)
ASSUME GenesisAssumption ==
  \A t \in TxsOf(GenesisBlock) :
    TxBody[t].coinbase /\ TxBody[t].claimedHeight = 0

(* No transaction spends its own outputs: its txid would contain itself.   *)
ASSUME HashAssumption == \A t \in Txs : Spends(t) \cap Outputs(t) = {}

(* The outpoints that replaying a sequence of blocks leaves: created by    *)
(* one of its transactions and spent by none.                              *)
TxsIn(c)  == UNION {TxsOf(c[i]) : i \in DOMAIN c}
Replay(c) == OutputsOf(TxsIn(c)) \ SpendsOf(TxsIn(c))

(* A block that spends an output that the same block creates.              *)
SpendsWithinBlock(b) == SpendsOf(TxsOf(b)) \cap OutputsOf(TxsOf(b)) # {}
=============================================================================
