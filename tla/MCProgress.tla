----------------------------- MODULE MCProgress -----------------------------
(* Instances for TLC of what the background work of the nodes achieves:      *)
(* Accounting without faults, and Blocklist with every fault.  They share no *)
(* state here, so a behaviour moves one of them, the one `focus` names; the  *)
(* fairness of Blocklist, whose push/pull is always enabled, is claimed      *)
(* while it moves.                                                          *)
EXTENDS MCAccounting

CONSTANTS b1, u1, NoEntry

VARIABLES focus, cache, step, place, msgs, writes, granted, last

B == INSTANCE Blocklist WITH
        BlockOp <- {b1}, UnblockOp <- {u1}, TTL <- (b1 :> 2), MaxTTL <- 2,
        KeepsExpiry <- TRUE, Environment <- {"tick", "lose", "evict", "restart"},
        pc <- step, at <- place

blocklist == <<cache, step, place, msgs, writes, granted, last>>

MCInit == focus \in {"accounting", "blocklist"} /\ Init /\ B!Init

MCNext ==
    /\ UNCHANGED focus
    /\ \/ focus = "accounting" /\ Next /\ UNCHANGED blocklist
       \/ focus = "blocklist" /\ B!Next /\ UNCHANGED vars

Moves(A) == focus = "blocklist" /\ A

(* B!Fairness, while the blocklist moves.                                   *)
BlocklistFairness ==
    /\ WF_blocklist(Moves(B!Tick))
    /\ WF_blocklist(Moves(\E w \in writes : B!Apply(w)))
    /\ WF_blocklist(Moves(\E b \in msgs : B!Handle(b)))
    /\ \A n, m \in Node :
          /\ WF_blocklist(Moves(B!PushPull(n, m)))
          /\ SF_blocklist(Moves(\E b \in msgs : b.src = n /\ b.to = m /\ B!MergeState(b)))

MCSpec == /\ MCInit /\ [][MCNext]_<<focus, vars, blocklist>>
          /\ Fairness /\ BlocklistFairness

(* Blocks end on every node, whatever push/pull exchanges (Blocklist).       *)
BlocksEnd == B!BlocksEnd
=============================================================================
