----------------------------- MODULE MCMessages -----------------------------
(***************************************************************************)
(* Two nodes.  A asks B for a block that B may get meanwhile.  A mines a   *)
(* block and takes a transaction from a user, which others may gossip.     *)
(***************************************************************************)
EXTENDS ZnxMessages

MCRequests == {[from |-> "A", to |-> "B", height |-> 1]}

Message(kind, by, wellFormed) == [kind |-> kind, by |-> by, wellFormed |-> wellFormed]

MCGossip == {Message("block", "A", TRUE), Message("tx", "A", TRUE)}

MCMaxTop == [n \in {"A", "B"} |-> IF n = "B" THEN 1 ELSE 0]

MCSizeOf == [h \in 0..1 |-> 1]
=============================================================================
