------------------------------ MODULE Proxying ------------------------------
(***************************************************************************)
(* The embedded proxy (Gateway), on its own state.  Its specification is   *)
(* G!Spec.                                                                 *)
(***************************************************************************)
EXTENDS Naturals, Sequences, FiniteSets

CONSTANTS Hosts, Route, Config, Proxied, Token, Pool, Wrap, Earlier, Nothing

VARIABLES config, state, router, blocked, stage, request, answer, served,
          pool, turn, picks, wrapped

(* The resolver returns an address once; the requests of a behaviour, in    *)
(* progress and over, do not take the counter around 2^64 twice.            *)
ASSUME GatewayAssumption ==
    /\ Pool \subseteq Seq(STRING)
    /\ \A p \in Pool : \A i, j \in 1..Len(p) : p[i] = p[j] => i = j
    /\ Wrap \in Nat \ {0} /\ Earlier \in 0..(Wrap - 1)
    /\ IsFiniteSet(Proxied) /\ Cardinality(Proxied) <= Wrap

G == INSTANCE Gateway WITH
        Prefix <- Route, Request <- Proxied, None <- Nothing,
        at <- stage, counted <- served, counter <- turn

-----------------------------------------------------------------------------
(* rateLimitMiddleware counts what was served, and only that (Gateway).      *)
CountedIffServed == G!CountedIffServed

(* DirectRequest spreads the requests evenly (Gateway).                      *)
Balanced == G!Balanced
=============================================================================
