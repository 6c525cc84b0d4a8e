------------------------------- MODULE Rules --------------------------------
(***************************************************************************)
(* Which rule and which entity a request belongs to                        *)
(* (internal/accounting/engine.go, internal/model/entity.go): the tree of  *)
(* path prefixes, the search for the longest prefix that ends at a segment, *)
(* the source address taken from X-Forwarded-For and the entity key.        *)
(* Paths are sequences of characters, because the search is about the       *)
(* place of the slashes; an address and a header (its name with a value)    *)
(* are model values.                                                        *)
(***************************************************************************)
EXTENDS Naturals, Sequences, FiniteSets

CONSTANTS Name,      \* names of rules
          Prefix,    \* path prefixes that a rule may have
          Path,      \* request paths
          Claimed,   \* X-Forwarded-For lists a client may send by itself
          Hops,      \* lists that the operator's proxies append
          Index,     \* values of use-x-forwarded-for-index
          Socket,    \* the address of the connection
          Header,    \* header names, in lower case
          Keys,      \* the header names of each rule, a function on Name
          Blank, NoRule

VARIABLES prefix,            \* the prefix of each rule
          direction, index,  \* settings of X-Forwarded-For, "off" if unused
          waiting, tree,     \* createPathRadixTree: names to insert; the tree
          request,           \* the request, a record
          candidate, rule,   \* matchRuleV2: what is searched for; its result
          entity,            \* the result of buildEntity
          at                 \* build, idle, search, matched, done

settings == <<prefix, direction, index>>
vars == <<settings, waiting, tree, request, candidate, rule, entity, at>>

Requests == [path : Path, claimed : Claimed, hops : Hops, headers : SUBSET Header]

Init ==
    /\ prefix \in [Name -> Prefix]
    /\ direction \in {"off", "left", "right"} /\ index \in Index
    /\ waiting = Name
    /\ tree = <<>>
    /\ request = NoRule /\ candidate = <<>> /\ rule = NoRule /\ entity = NoRule
    /\ at = "build"

(* createPathRadixTree ranges over a Go map, in any order; a rule with the  *)
(* prefix of an earlier one replaces it.                                    *)
Insert(name) ==
    /\ at = "build" /\ name \in waiting
    /\ waiting' = waiting \ {name}
    /\ tree' = [p \in DOMAIN tree \cup {prefix[name]} |->
                  IF p = prefix[name] THEN name ELSE tree[p]]
    /\ at' = IF waiting' = {} THEN "idle" ELSE "build"
    /\ UNCHANGED <<settings, request, candidate, rule, entity>>

Receive(r) ==
    /\ at = "idle"
    /\ request' = r
    /\ candidate' = r.path
    /\ at' = "search"
    /\ UNCHANGED <<settings, waiting, tree, rule, entity>>

(* path[:len(prefix)] == prefix, for a prefix that is not longer.           *)
HasPrefix(s, p) == Len(p) <= Len(s) /\ SubSeq(s, 1, Len(p)) = p

(* LongestPrefix of the tree (external): the longest key that the candidate *)
(* starts with, as a string.                                                *)
StringPrefixes(c) == {p \in DOMAIN tree : HasPrefix(c, p)}
LongestPrefix(c) ==
    CHOOSE p \in StringPrefixes(c) : \A q \in StringPrefixes(c) : Len(q) <= Len(p)

(* Mutant of isPathSegmentMatch: a prefix as a string is enough.            *)
isPathStringMatch(path, p) == HasPrefix(path, p)

isPathSegmentMatch(path, p) ==
    \/ p = <<"/">> \/ p = <<>>
    \/ /\ HasPrefix(path, p)
       /\ \/ Len(p) = Len(path)
          \/ p[Len(p)] = "/"
          \/ path[Len(p) + 1] = "/"

(* One turn of the loop of matchRuleV2.                                     *)
Search ==
    /\ at = "search"
    /\ IF StringPrefixes(candidate) = {}
       THEN /\ rule' = NoRule /\ at' = "done" /\ UNCHANGED candidate
       ELSE LET k == LongestPrefix(candidate)
            IN  IF isPathSegmentMatch(request.path, k)
                THEN rule' = tree[k] /\ at' = "matched" /\ UNCHANGED candidate
                ELSE IF k = <<>>
                THEN rule' = NoRule /\ at' = "done" /\ UNCHANGED candidate
                ELSE candidate' = SubSeq(k, 1, Len(k) - 1) /\ UNCHANGED <<rule, at>>
    /\ UNCHANGED <<settings, waiting, tree, request, entity>>

(* Mutant of extractSourceIP: off by one from the right.                    *)
extractSourceIPBefore(list) ==
    LET i == IF direction = "right" THEN Len(list) - index - 1 ELSE index + 1
    IN  IF direction # "off" /\ i \in 1..Len(list) /\ list[i] # Blank
        THEN list[i] ELSE Socket

(* extractSourceIP with the header the last proxy passes on.                *)
extractSourceIP(list) ==
    LET i == IF direction = "right" THEN Len(list) - index ELSE index + 1
    IN  IF direction # "off" /\ i \in 1..Len(list) /\ list[i] # Blank
        THEN list[i] ELSE Socket

(* filterHeaders: the headers the rule names, of those the request has.     *)
filterHeaders(headers, names) == headers \cap names

(* buildEntity, and Hash with Key of internal/model: the address, the       *)
(* prefix of the rule and the headers in sorted order, which is a set.      *)
BuildEntity ==
    /\ at = "matched"
    /\ entity' = [ip |-> extractSourceIP(request.claimed \o request.hops),
                  path |-> prefix[rule],
                  headers |-> filterHeaders(request.headers, Keys[rule])]
    /\ at' = "done"
    /\ UNCHANGED <<settings, waiting, tree, request, candidate, rule>>

Next ==
    \/ \E name \in Name : Insert(name)
    \/ \E r \in Requests : Receive(r)
    \/ Search \/ BuildEntity

Spec == Init /\ [][Next]_vars

-----------------------------------------------------------------------------
(* Properties.                                                             *)

(* The prefixes of rules that cover a path, segment by segment.             *)
Covers(p, path) ==
    \/ p \in {<<"/">>, path}
    \/ HasPrefix(path, p) /\ p[Len(p)] = "/"
    \/ HasPrefix(path, p \o <<"/">>)
Covering == {p \in {prefix[n] : n \in Name} : Covers(p, request.path)}

(* matchRuleV2 finds the longest rule prefix that covers the path in whole  *)
(* segments, and no rule only when none does, though its search works on    *)
(* strings and shortens its candidate by a byte at a time.                  *)
MatchIsLongest ==
    /\ at = "matched" => /\ prefix[rule] \in Covering
                         /\ \A p \in Covering : Len(p) <= Len(prefix[rule])
    /\ at = "done" /\ rule = NoRule => Covering = {}

(* With direction "right" and as many proxies as index + 1, the source is   *)
(* what the outermost proxy saw, whatever list the client sent: "the entry  *)
(* ... is the IP your trusted proxy observed, which the client cannot       *)
(* forge" (comment of extractSourceIP).                                     *)
SourceIsObserved ==
    at = "done" /\ rule # NoRule /\ direction = "right" /\ Len(request.hops) = index + 1
        => entity.ip = request.hops[1]
=============================================================================
