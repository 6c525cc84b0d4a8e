------------------------------ MODULE Matching ------------------------------
(***************************************************************************)
(* The choice of a rule and of an entity for a request (Rules), on its own *)
(* state.  Its specification is R!Spec.                                    *)
(***************************************************************************)
EXTENDS Naturals, Sequences, FiniteSets

CONSTANTS Name, Prefix, Path, Claimed, Hops, Index, Socket, Header, Keys, Blank,
          NoRule

VARIABLES prefix, direction, index, waiting, tree, asks, candidate, rule, entity, step

(* Paths and prefixes are strings of characters, and a path starts with a   *)
(* slash; the proxies of the operator append addresses.                     *)
ASSUME RulesAssumption ==
    /\ Prefix \cup Path \cup Claimed \cup Hops \subseteq Seq(STRING)
    /\ \A p \in Path : p # <<>> /\ p[1] = "/"
    /\ \A h \in Hops : \A i \in 1..Len(h) : h[i] # Blank
    /\ Index \subseteq Nat /\ NoRule \notin Name

R == INSTANCE Rules WITH request <- asks, at <- step

-----------------------------------------------------------------------------
(* matchRuleV2 finds the longest prefix that covers the path in whole        *)
(* segments (Rules).                                                        *)
MatchIsLongest == R!MatchIsLongest

(* extractSourceIP returns what the outermost proxy observed (Rules).        *)
SourceIsObserved == R!SourceIsObserved
=============================================================================
