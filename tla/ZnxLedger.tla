----------------------------- MODULE ZnxLedger -----------------------------
(***************************************************************************)
(* What a node promises of its chain: it only ever moves to a valid chain  *)
(* that is better than the one it has (more work, or as much work and a    *)
(* smaller tip hash), and the coins that exist are those that replaying    *)
(* the chain from the genesis block leaves.  A fault can interrupt it on   *)
(* the way from one chain to a better one: what is left is a valid chain,  *)
(* a part of the old one with, at most, the first blocks of the other.     *)
(***************************************************************************)
EXTENDS ZnxRules

CONSTANT MaxBackfillDepth   \* MAX_BACKFILL_DEPTH, the longest candidate chain

VARIABLES
  chain,   \* the blocks from the genesis block to the tip
  coins,   \* the outpoints that can be spent
  faults   \* the crashes and failed writes so far

ledger == <<chain, coins, faults>>

Init == chain = <<>> /\ coins = {} /\ faults = 0

Found ==
  /\ chain = <<>>
  /\ chain' = <<GenesisBlock>>
  /\ coins' = Replay(chain')
  /\ UNCHANGED faults

Adopt ==
  /\ chain # <<>>
  /\ ValidChain(chain') /\ Better(chain', chain)
  /\ coins' = Replay(chain')
  /\ UNCHANGED faults

Kept(k) == SubSeq(chain, 1, k)

(* A fault leaves a part of the old chain, or a part of it with the first  *)
(* blocks of a candidate that, once complete, would have been better.      *)
PartOf(new) ==
  \E k \in DOMAIN chain :
    \/ new = Kept(k)
    \/ \E c \in UNION {[1..n -> Blocks] : n \in 1..MaxBackfillDepth} :
         /\ \E n \in 1..Len(c) - 1 : new = Kept(k) \o SubSeq(c, 1, n)
         /\ Better(Kept(k) \o c, chain)

Interrupt ==
  /\ faults' = faults + 1
  /\ chain # <<>> /\ ValidChain(chain') /\ PartOf(chain')
  /\ coins' = Replay(chain')

Spec == Init /\ [][Found \/ Adopt \/ Interrupt]_ledger
=============================================================================
