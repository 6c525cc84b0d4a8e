------------------------------ MODULE Joining -------------------------------
(***************************************************************************)
(* JoinCluster (Membership), with its own nodes.  Its specification is     *)
(* M!Spec.                                                                 *)
(***************************************************************************)
EXTENDS Naturals

CONSTANTS Joiner, Started, Blocked,   \* Node, Seed and Block of Membership
          MaxCrashes

VARIABLES members, pc, peers, joined, ready, blocks, inbox, synced, excused, crashes

M == INSTANCE Membership WITH
        Node <- Joiner, Seed <- Started, Block <- Blocked,
        list <- members, todo <- peers

-----------------------------------------------------------------------------
(* A node is ready only after a sync, alone, or after the timeout            *)
(* (Membership).                                                            *)
ReadyIsEarned == M!ReadyIsEarned

(* JoinCluster returns with the node ready (Membership).                     *)
JoinReturns == M!JoinReturns
=============================================================================
