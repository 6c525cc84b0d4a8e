------------------------------ MODULE Internal ------------------------------
(***************************************************************************)
(* The internal API (Admin), with its own clock and its own nodes.  Its    *)
(* specification is A!Spec.                                                *)
(***************************************************************************)
EXTENDS Naturals, Sequences, FiniteSets

CONSTANTS Server, Nonce, Caller, Session, NonceLife, TokenLife, SessionLife,
          AdminTime,   \* MaxTime of Admin
          Absent       \* None of Admin

VARIABLES clock, store, minted, challenged, call, spent, replayed, token,
          sessions, expiry, cookie, addresses, fetch

ASSUME AdminAssumption == NonceLife \in Nat /\ SessionLife \in Nat /\ Absent \notin Nat

A == INSTANCE Admin WITH
        MaxTime <- AdminTime, None <- Absent, now <- clock, peers <- addresses

-----------------------------------------------------------------------------
(* The browser can read every reply of the internal API (Admin).             *)
ReadableReply == A!ReadableReply

(* A spent Digest nonce is not accepted again (Admin).                       *)
SpentIsSpent == A!SpentIsSpent

(* The store of nonces is bounded (Admin).                                   *)
StoreIsBounded == A!StoreIsBounded
=============================================================================
