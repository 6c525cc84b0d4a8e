--------------------------- MODULE BlocklistProofs ---------------------------
(***************************************************************************)
(* Which entity a request counts for, and for how long one is blocked.     *)
(*                                                                         *)
(* Rules: for any rules, prefixes, paths and lists of forwarding proxies,  *)
(* the longest prefix is matched and the source is the address that the    *)
(* outermost trusted proxy saw.  The search is right because its candidate *)
(* starts with every prefix that covers the path (MatchInv).               *)
(*                                                                         *)
(* Blocklist: for any cluster, any operations and either behaviour of the  *)
(* cache library.  NoProlongedBlock is not inductive: an event or a state  *)
(* in flight, or a handler about to write, could carry a deadline beyond   *)
(* every one that was granted.  Bounded adds that none does.               *)
(***************************************************************************)
EXTENDS Blocklist, Matching, WellFoundedInduction, TLAPS

Text == Seq(STRING)

(* A string starts with another one exactly if they agree on its length.    *)
LEMMA PrefixElements ==
    ASSUME NEW s \in Text, NEW p \in Text
    PROVE  R!HasPrefix(s, p) <=> Len(p) <= Len(s) /\ \A i \in 1..Len(p) : p[i] = s[i]
<1>1. Len(s) \in Nat /\ Len(p) \in Nat /\ p \in Seq(STRING) /\ s \in Seq(STRING)
  BY DEF Text
<1>2. CASE Len(p) <= Len(s)
  <2>1. \A i \in 1..Len(p) : s[i] \in STRING
    BY <1>1, <1>2
  <2>2. /\ SubSeq(s, 1, Len(p)) \in Seq(STRING) /\ Len(SubSeq(s, 1, Len(p))) = Len(p)
        /\ \A i \in 1..Len(p) : SubSeq(s, 1, Len(p))[i] = s[i]
    BY <1>1, <2>1
  <2>3. ASSUME \A i \in 1..Len(p) : p[i] = s[i] PROVE SubSeq(s, 1, Len(p)) = p
    BY <1>1, <2>2, <2>3
  <2>4. ASSUME SubSeq(s, 1, Len(p)) = p PROVE \A i \in 1..Len(p) : p[i] = s[i]
    BY Zenon, <2>2, <2>4
  <2> QED
    BY Zenon, <1>2, <2>3, <2>4 DEF R!HasPrefix
<1>3. CASE ~(Len(p) <= Len(s))
  BY Zenon, <1>3 DEF R!HasPrefix
<1> QED
  BY Zenon, <1>2, <1>3

(* Two prefixes of one string: the one that is not longer is a prefix of    *)
(* the other, and of the other without its last character if they differ.   *)
LEMMA ShorterPrefix ==
    ASSUME NEW s \in Text, NEW p \in Text, NEW k \in Text,
           R!HasPrefix(s, p), R!HasPrefix(s, k), Len(p) <= Len(k), p # k
    PROVE  LET f == SubSeq(k, 1, Len(k) - 1)
           IN  f \in Text /\ R!HasPrefix(f, p) /\ R!HasPrefix(s, f)
<1> DEFINE f == SubSeq(k, 1, Len(k) - 1)
<1>1. Len(s) \in Nat /\ Len(p) \in Nat /\ Len(k) \in Nat
  BY DEF Text
<1>2. /\ Len(k) <= Len(s) /\ \A i \in 1..Len(p) : p[i] = s[i]
      /\ \A i \in 1..Len(k) : k[i] = s[i]
  BY Zenon, PrefixElements
<1>3. Len(p) # Len(k)
  BY <1>1, <1>2 DEF Text
<1>4. \A i \in 1..(Len(k) - 1) : k[i] \in STRING
  BY <1>1 DEF Text
<1>5. f \in Text /\ Len(f) = Len(k) - 1 /\ \A i \in 1..(Len(k) - 1) : f[i] = k[i]
  <2>1. Len(k) - 1 \in Nat /\ Len(k) - 1 - 1 + 1 = Len(k) - 1
    BY <1>1, <1>3
  <2>2. /\ f \in Seq(STRING) /\ Len(f) = IF 1 <= Len(k) - 1 THEN Len(k) - 1 - 1 + 1 ELSE 0
        /\ \A i \in 1..(Len(k) - 1 - 1 + 1) : f[i] = k[1 + i - 1]
    BY <1>4, <2>1
  <2> HIDE DEF f
  <2>3. ASSUME NEW i \in 1..(Len(k) - 1) PROVE f[i] = k[i]
    <3>1. i \in 1..(Len(k) - 1 - 1 + 1) /\ 1 + i - 1 = i
      BY <2>1
    <3> QED
      BY Zenon, <2>2, <3>1
  <2>4. Len(f) = Len(k) - 1
    <3>1. CASE 1 <= Len(k) - 1
      BY Zenon, <2>1, <2>2, <3>1
    <3>2. CASE ~(1 <= Len(k) - 1)
      <4>1. Len(k) - 1 = 0
        BY <2>1, <3>2
      <4> QED
        BY Zenon, <2>2, <3>2, <4>1
    <3> QED
      BY Zenon, <3>1, <3>2
  <2> QED
    BY Zenon, <2>2, <2>3, <2>4 DEF Text
<1> HIDE DEF f
<1>6. R!HasPrefix(f, p)
  BY <1>1, <1>2, <1>3, <1>5, PrefixElements
<1>7. R!HasPrefix(s, f)
  BY SMTT(60), <1>1, <1>2, <1>5, PrefixElements
<1> QED
  BY Zenon, <1>5, <1>6, <1>7 DEF f

(* A prefix without its last character is still a prefix of what the string  *)
(* it was found in is a prefix of.                                          *)
LEMMA FrontPrefix ==
    ASSUME NEW path \in Text, NEW s \in Text, NEW k \in Text, k # <<>>,
           R!HasPrefix(path, s), R!HasPrefix(s, k)
    PROVE  LET f == SubSeq(k, 1, Len(k) - 1)
           IN  f \in Text /\ R!HasPrefix(path, f)
<1>1. Len(path) \in Nat /\ Len(s) \in Nat /\ Len(k) \in Nat /\ Len(k) >= 1
  BY DEF Text
<1>2. <<>> \in Text /\ Len(<<>>) = 0 /\ R!HasPrefix(path, <<>>)
  <2>1. <<>> \in Text /\ Len(<<>>) = 0
    BY DEF Text
  <2>2. 1..Len(<<>>) = {} /\ Len(<<>>) <= Len(path)
    BY <1>1, <2>1
  <2>3. R!HasPrefix(path, <<>>) <=>
            Len(<<>>) <= Len(path) /\ \A i \in 1..Len(<<>>) : <<>>[i] = path[i]
    BY <2>1, PrefixElements, Zenon
  <2> QED
    BY Zenon, <2>1, <2>2, <2>3
<1>3. R!HasPrefix(path, k)
  <2>1. /\ Len(s) <= Len(path) /\ \A i \in 1..Len(s) : s[i] = path[i]
        /\ Len(k) <= Len(s) /\ \A i \in 1..Len(k) : k[i] = s[i]
    BY Zenon, PrefixElements
  <2> QED
    BY <1>1, <2>1, PrefixElements
<1> QED
  BY <1>1, <1>2, <1>3, ShorterPrefix

(* isPathSegmentMatch on a path decides whether the prefix covers it, and   *)
(* a path starts with what covers it.                                       *)
LEMMA SegmentMatch ==
    ASSUME NEW path \in Path, NEW p \in Text
    PROVE  /\ R!isPathSegmentMatch(path, p) <=> R!Covers(p, path)
           /\ R!Covers(p, path) => R!HasPrefix(path, p)
<1> DEFINE q == p \o <<"/">>
<1>1. path \in Text /\ path # <<>> /\ path[1] = "/" /\ <<"/">> \in Text
  BY RulesAssumption DEF Text
<1>2. Len(p) \in Nat /\ Len(path) \in Nat /\ Len(path) >= 1
  BY <1>1 DEF Text
<1>3. q \in Text /\ Len(q) = Len(p) + 1 /\ q[Len(p) + 1] = "/" /\ \A i \in 1..Len(p) : q[i] = p[i]
  <2>1. Len(<<"/">>) = 1 /\ <<"/">>[1] = "/"
    BY Zenon
  <2> QED
    BY <1>1, <1>2, <2>1 DEF Text
<1>4. R!HasPrefix(path, q) <=> Len(p) < Len(path) /\ R!HasPrefix(path, p) /\ path[Len(p) + 1] = "/"
  <2> HIDE DEF q
  <2>1. R!HasPrefix(path, q) <=> Len(p) + 1 <= Len(path) /\ \A i \in 1..(Len(p) + 1) : q[i] = path[i]
    BY <1>1, <1>3, PrefixElements
  <2>2. R!HasPrefix(path, p) <=> Len(p) <= Len(path) /\ \A i \in 1..Len(p) : p[i] = path[i]
    BY Zenon, <1>1, PrefixElements
  <2>3. (\A i \in 1..(Len(p) + 1) : q[i] = path[i])
          <=> (\A i \in 1..Len(p) : p[i] = path[i]) /\ path[Len(p) + 1] = "/"
    <3>1. ASSUME NEW i \in 1..(Len(p) + 1) PROVE i \in 1..Len(p) \/ i = Len(p) + 1
      BY <1>2
    <3>2. Len(p) + 1 \in 1..(Len(p) + 1) /\ \A i \in 1..Len(p) : i \in 1..(Len(p) + 1)
      BY <1>2
    <3> QED
      BY Zenon, <1>3, <3>1, <3>2
  <2> QED
    BY <1>2, <2>1, <2>2, <2>3
<1>5. R!HasPrefix(path, p) /\ Len(p) = Len(path) <=> p = path
  <2>1. ASSUME R!HasPrefix(path, p), Len(p) = Len(path) PROVE p = path
    BY <1>1, <2>1, PrefixElements DEF Text
  <2>2. ASSUME p = path PROVE R!HasPrefix(path, p) /\ Len(p) = Len(path)
    BY <1>1, <1>2, <2>2, PrefixElements
  <2> QED
    BY Zenon, <2>1, <2>2
<1>6. R!HasPrefix(path, p) => Len(p) <= Len(path)
  BY Zenon DEF R!HasPrefix
<1>7. p \in {<<"/">>, <<>>} => R!HasPrefix(path, p) /\ R!Covers(p, path)
  <2>1. CASE p = <<"/">>
    <3>1. R!HasPrefix(path, p)
      BY <1>1, <1>2, <2>1, PrefixElements
    <3> QED
      BY Zenon, <2>1, <3>1 DEF R!Covers
  <2>2. CASE p = <<>>
    <3>1. R!HasPrefix(path, p) /\ Len(p) = 0
      BY <1>1, <1>2, <2>2, PrefixElements
    <3> QED
      BY <1>1, <1>2, <1>4, <3>1 DEF R!Covers
  <2> QED
    BY Zenon, <2>1, <2>2
<1> HIDE DEF q
<1>8. R!Covers(p, path) <=> \/ p \in {<<"/">>, path}
                            \/ R!HasPrefix(path, p) /\ p[Len(p)] = "/"
                            \/ R!HasPrefix(path, q)
  BY Zenon DEF R!Covers, q
<1> QED
  BY <1>2, <1>4, <1>5, <1>6, <1>7, <1>8 DEF R!isPathSegmentMatch

(* A set of prefixes of a string has a longest one.                         *)
LEMMA LongestExists ==
    ASSUME NEW s \in Text, NEW P \in SUBSET Text, P # {}, \A p \in P : R!HasPrefix(s, p)
    PROVE  \E p \in P : \A q \in P : Len(q) <= Len(p)
<1> DEFINE T == {Len(s) - Len(p) : p \in P}
<1>1. Len(s) \in Nat /\ \A p \in P : Len(p) \in Nat /\ Len(p) <= Len(s)
  BY DEF Text, R!HasPrefix
<1>2. T \subseteq Nat /\ T # {}
  BY <1>1
<1>3. \E x \in T : \A y \in T : ~(<<y, x>> \in OpToRel(<, Nat))
  BY Zenon, <1>2, NatLessThanWellFounded, WFMin
<1>4. PICK x \in T : \A y \in T : ~(y < x)
  BY Zenon, <1>2, <1>3 DEF OpToRel
<1>5. PICK p \in P : x = Len(s) - Len(p)
  BY Zenon, <1>4
<1>6. ASSUME NEW q \in P PROVE Len(q) <= Len(p)
  <2>1. ~(Len(s) - Len(q) < Len(s) - Len(p))
    BY Zenon, <1>4, <1>5
  <2> QED
    BY <1>1, <2>1
<1> QED
  BY Zenon, <1>6

-----------------------------------------------------------------------------
(* The tree has the prefixes of the rules inserted so far; while the search *)
(* goes on, its candidate starts with every prefix that covers the path.    *)
MatchInv ==
    /\ prefix \in [Name -> Prefix] /\ waiting \subseteq Name
    /\ DOMAIN tree = {prefix[n] : n \in Name \ waiting}
    /\ \A p \in DOMAIN tree : tree[p] \in Name /\ prefix[tree[p]] = p
    /\ step \in {"build", "idle", "search", "matched", "done"}
    /\ step # "build" => waiting = {}
    /\ step \in {"search", "matched", "done"} => asks \in R!Requests
    /\ step = "search" => /\ candidate \in Text /\ R!HasPrefix(asks.path, candidate)
                        /\ \A p \in R!Covering : R!HasPrefix(candidate, p)
    /\ step = "matched" => rule \in Name
    /\ MatchIsLongest

(* One turn of the loop of matchRuleV2 keeps the invariant: the longest     *)
(* prefix of the candidate is the answer or no prefix of it that covers the *)
(* path is lost.                                                            *)
LEMMA SearchInv ==
    ASSUME MatchInv, R!Search
    PROVE  MatchInv'
<1>1. /\ step = "search" /\ asks \in R!Requests /\ candidate \in Text /\ waiting = {}
      /\ R!HasPrefix(asks.path, candidate) /\ \A p \in R!Covering : R!HasPrefix(candidate, p)
  BY Zenon DEF R!Search, MatchInv
<1>2. asks.path \in Path /\ asks.path \in Text
  BY Zenon, <1>1, RulesAssumption DEF R!Requests, Text
<1>3. DOMAIN tree = {prefix[n] : n \in Name} /\ DOMAIN tree \subseteq Text
  BY <1>1, RulesAssumption DEF MatchInv, Text
<1>4. R!Covering = {p \in DOMAIN tree : R!Covers(p, asks.path)}
  BY Zenon, <1>3 DEF R!Covering
<1>5. R!StringPrefixes(candidate) \subseteq DOMAIN tree /\ R!Covering \subseteq R!StringPrefixes(candidate)
  BY Zenon, <1>1, <1>4 DEF R!StringPrefixes
<1>6. UNCHANGED <<prefix, waiting, tree, asks>>
  BY Zenon DEF R!Search, R!settings
<1>7. R!Covering' = R!Covering
  BY Zenon, <1>6 DEF R!Covering
<1>8. ASSUME step' \in {"search", "matched", "done"},
             step' = "search" => /\ candidate' \in Text /\ R!HasPrefix(asks.path, candidate')
                               /\ \A p \in R!Covering : R!HasPrefix(candidate', p),
             step' = "matched" => /\ rule' \in Name /\ prefix[rule'] \in R!Covering
                                /\ \A p \in R!Covering : Len(p) <= Len(prefix[rule']),
             step' = "done" /\ rule' = NoRule => R!Covering = {}
      PROVE  MatchInv'
  BY Zenon, <1>1, <1>6, <1>7, <1>8 DEF MatchInv, MatchIsLongest, R!MatchIsLongest
<1>9. CASE R!StringPrefixes(candidate) = {}
  BY Zenon, <1>5, <1>8, <1>9 DEF R!Search
<1>10. CASE R!StringPrefixes(candidate) # {}
  <2> DEFINE k == R!LongestPrefix(candidate)
  <2>1. k \in R!StringPrefixes(candidate) /\ \A q \in R!StringPrefixes(candidate) : Len(q) <= Len(k)
    <3>1. \E p \in R!StringPrefixes(candidate) : \A q \in R!StringPrefixes(candidate) : Len(q) <= Len(p)
      BY Zenon, <1>1, <1>3, <1>5, <1>10, LongestExists DEF R!StringPrefixes
    <3> QED
      BY Zenon, <3>1 DEF R!LongestPrefix
  <2>2. IF R!isPathSegmentMatch(asks.path, k)
        THEN rule' = tree[k] /\ step' = "matched" /\ UNCHANGED candidate
        ELSE IF k = <<>>
        THEN rule' = NoRule /\ step' = "done" /\ UNCHANGED candidate
        ELSE candidate' = SubSeq(k, 1, Len(k) - 1) /\ UNCHANGED <<rule, step>>
    BY Zenon, <1>10 DEF R!Search
  <2>3. k \in DOMAIN tree /\ k \in Text /\ R!HasPrefix(candidate, k)
    BY Zenon, <1>3, <2>1 DEF R!StringPrefixes
  <2> HIDE DEF k
  <2>4. CASE R!isPathSegmentMatch(asks.path, k)
    <3>1. k \in R!Covering /\ \A p \in R!Covering : Len(p) <= Len(k)
      BY Zenon, <1>2, <1>4, <1>5, <2>1, <2>3, <2>4, SegmentMatch
    <3>2. tree[k] \in Name /\ prefix[tree[k]] = k
      BY Zenon, <2>3 DEF MatchInv
    <3> QED
      BY Zenon, <1>8, <2>2, <2>4, <3>1, <3>2
  <2>5. CASE ~R!isPathSegmentMatch(asks.path, k)
    <3>1. k # <<>> /\ k \notin R!Covering
      BY Zenon, <1>2, <1>4, <2>3, <2>5, SegmentMatch DEF R!isPathSegmentMatch
    <3>2. candidate' = SubSeq(k, 1, Len(k) - 1) /\ step' = "search"
      BY Zenon, <1>1, <2>2, <2>5, <3>1
    <3>3. ASSUME NEW p \in R!Covering PROVE R!HasPrefix(candidate', p)
      <4>1. p \in Text /\ R!HasPrefix(candidate, p) /\ Len(p) <= Len(k) /\ p # k
        BY Zenon, <1>1, <1>3, <1>4, <1>5, <2>1, <3>1
      <4> QED
        BY Zenon, <1>1, <2>3, <3>2, <4>1, ShorterPrefix
    <3>4. candidate' \in Text /\ R!HasPrefix(asks.path, candidate')
      BY Zenon, <1>1, <1>2, <2>3, <3>1, <3>2, FrontPrefix
    <3> QED
      BY Zenon, <1>8, <3>2, <3>3, <3>4
  <2> QED
    BY Zenon, <2>4, <2>5
<1> QED
  BY Zenon, <1>9, <1>10

(* Every step of the rule index, in whatever order the rules are inserted,  *)
(* keeps the invariant.                                                     *)
LEMMA NextMatch ==
    ASSUME MatchInv, [R!Next]_(R!vars)
    PROVE  MatchInv'
<1>1. ASSUME NEW name \in Name, R!Insert(name) PROVE MatchInv'
  <2>1. /\ step = "build" /\ name \in waiting /\ waiting \subseteq Name /\ waiting' = waiting \ {name}
        /\ tree' = [p \in DOMAIN tree \cup {prefix[name]} |->
                      IF p = prefix[name] THEN name ELSE tree[p]]
        /\ step' = IF waiting' = {} THEN "idle" ELSE "build"
        /\ UNCHANGED prefix
    BY Zenon, <1>1 DEF R!Insert, R!settings, MatchInv
  <2>2. Name \ waiting' = (Name \ waiting) \cup {name}
    BY Zenon, <2>1
  <2>3. DOMAIN tree' = {prefix'[n] : n \in Name \ waiting'}
    BY <2>1, <2>2 DEF MatchInv
  <2>4. \A p \in DOMAIN tree' : tree'[p] \in Name /\ prefix'[tree'[p]] = p
    BY Zenon, <2>1 DEF MatchInv
  <2>5. prefix' \in [Name -> Prefix] /\ waiting' \subseteq Name
    BY Zenon, <2>1 DEF MatchInv
  <2>6. step' \in {"build", "idle"} /\ (step' # "build" => waiting' = {})
    BY Zenon, <2>1
  <2> QED
    BY Zenon, <2>3, <2>4, <2>5, <2>6 DEF MatchInv, MatchIsLongest, R!MatchIsLongest
<1>2. ASSUME NEW r \in R!Requests, R!Receive(r) PROVE MatchInv'
  <2>1. /\ step = "idle" /\ step' = "search" /\ asks' = r /\ candidate' = r.path
        /\ UNCHANGED <<prefix, waiting, tree>>
    BY Zenon, <1>2 DEF R!Receive, R!settings
  <2>2. r.path \in Path /\ r.path \in Text /\ r.path # <<>> /\ r.path[1] = "/"
    BY Zenon, RulesAssumption DEF R!Requests, Text
  <2>3. R!HasPrefix(r.path, r.path)
    BY <2>2, PrefixElements DEF Text
  <2>4. ASSUME NEW p \in R!Covering' PROVE R!HasPrefix(r.path, p)
    <3>1. p \in Text /\ R!Covers(p, r.path)
      BY <2>1, RulesAssumption DEF MatchInv, R!Covering, Text
    <3> QED
      BY Zenon, <3>1, <2>2, SegmentMatch
  <2> QED
    BY <2>1, <2>2, <2>3, <2>4 DEF MatchInv, MatchIsLongest, R!MatchIsLongest
<1>3. ASSUME R!BuildEntity PROVE MatchInv'
  <2>1. /\ step = "matched" /\ step' = "done" /\ rule \in Name
        /\ UNCHANGED <<prefix, waiting, tree, asks, rule>>
    BY Zenon, <1>3 DEF R!BuildEntity, R!settings, MatchInv
  <2> QED
    BY <2>1, RulesAssumption DEF MatchInv, MatchIsLongest, R!MatchIsLongest
<1>4. ASSUME UNCHANGED R!vars PROVE MatchInv'
  BY <1>4 DEF R!vars, R!settings, MatchInv, MatchIsLongest, R!MatchIsLongest, R!Covering
<1> QED
  BY Zenon, <1>1, <1>2, <1>3, <1>4, SearchInv DEF R!Next

(* Whatever the rules, their prefixes and the path: matchRuleV2 answers the *)
(* rule with the longest prefix that covers the path in whole segments.     *)
THEOREM LongestRuleIsMatched == R!Spec => []MatchIsLongest
<1>1. R!Init => MatchInv
  <2>1. DOMAIN <<>> = {}
    OBVIOUS
  <2> QED
    BY Zenon, <2>1 DEF R!Init, MatchInv, MatchIsLongest, R!MatchIsLongest
<1>2. MatchInv /\ [R!Next]_(R!vars) => MatchInv'
  BY Zenon, NextMatch
<1>3. MatchInv => MatchIsLongest
  BY Zenon DEF MatchInv
<1> QED
  BY <1>1, <1>2, <1>3, PTL DEF R!Spec

-----------------------------------------------------------------------------
(* A rule is answered with the address extractSourceIP reads.               *)
SourceInv ==
    /\ step \in {"search", "matched", "done"} => asks \in R!Requests
    /\ index \in Nat
    /\ step # "done" => rule = NoRule \/ step = "matched"
    /\ step = "done" /\ rule # NoRule
        => entity.ip = R!extractSourceIP(asks.claimed \o asks.hops)

(* With as many trusted proxies as index + 1, the entry read from the right *)
(* is the first one that they appended.                                     *)
LEMMA EntryIsObserved ==
    ASSUME NEW claimed \in Text, NEW hops \in Text, \A i \in 1..Len(hops) : hops[i] # Blank,
           index \in Nat, direction = "right", Len(hops) = index + 1
    PROVE  R!extractSourceIP(claimed \o hops) = hops[1]
<1>1. /\ claimed \in Seq(STRING) /\ hops \in Seq(STRING) /\ Len(claimed) \in Nat /\ Len(hops) \in Nat
  BY DEF Text
<1>2. /\ Len(claimed \o hops) = Len(claimed) + Len(hops)
      /\ \A i \in 1..(Len(claimed) + Len(hops)) :
            (claimed \o hops)[i] = IF i <= Len(claimed) THEN claimed[i] ELSE hops[i - Len(claimed)]
  BY <1>1
<1> DEFINE list == claimed \o hops
           i == Len(list) - index
<1>3. i = Len(claimed) + 1 /\ i \in 1..Len(list) /\ i - Len(claimed) = 1 /\ ~(i <= Len(claimed))
  BY SMTT(60), <1>1, <1>2
<1>4. list[i] = hops[1] /\ 1 \in 1..Len(hops)
  BY SMTT(60), <1>1, <1>2, <1>3
<1> QED
  BY Zenon, <1>3, <1>4 DEF R!extractSourceIP

(* Every step of the rule index keeps SourceInv.                            *)
LEMMA NextSource ==
    ASSUME SourceInv, [R!Next]_(R!vars)
    PROVE  SourceInv'
<1>1. ASSUME NEW name \in Name, R!Insert(name) PROVE SourceInv'
  BY Zenon, <1>1 DEF R!Insert, R!settings, SourceInv
<1>2. ASSUME NEW r \in R!Requests, R!Receive(r) PROVE SourceInv'
  BY Zenon, <1>2 DEF R!Receive, R!settings, SourceInv
<1>3. ASSUME R!Search PROVE SourceInv'
  <2>1. /\ step = "search" /\ asks \in R!Requests /\ index \in Nat /\ rule = NoRule
        /\ UNCHANGED <<asks, index>>
    BY Zenon, <1>3 DEF R!Search, R!settings, SourceInv
  <2>2. step' = "matched" \/ (step' \in {"search", "done"} /\ rule' = NoRule)
    BY Zenon, <1>3, <2>1 DEF R!Search
  <2> QED
    BY Zenon, <2>1, <2>2 DEF SourceInv
<1>4. ASSUME R!BuildEntity PROVE SourceInv'
  <2>1. /\ step' = "done" /\ UNCHANGED <<asks, index, direction>> /\ asks \in R!Requests /\ index \in Nat
        /\ entity'.ip = R!extractSourceIP(asks.claimed \o asks.hops)
    BY Zenon, <1>4 DEF R!BuildEntity, R!settings, SourceInv
  <2> QED
    BY Zenon, <2>1 DEF SourceInv, R!extractSourceIP
<1>5. ASSUME UNCHANGED R!vars PROVE SourceInv'
  BY Zenon, <1>5 DEF R!vars, R!settings, SourceInv, R!extractSourceIP
<1> QED
  BY Zenon, <1>1, <1>2, <1>3, <1>4, <1>5 DEF R!Next

(* However long the list that the client claims: with direction "right" and *)
(* index + 1 trusted proxies the source is the address the outermost one    *)
(* saw.                                                                     *)
THEOREM SourceIsTheObserved == R!Spec => []SourceIsObserved
<1>1. R!Init => SourceInv
  BY Zenon, RulesAssumption DEF R!Init, SourceInv
<1>2. SourceInv /\ [R!Next]_(R!vars) => SourceInv'
  BY Zenon, NextSource
<1>3. SourceInv => SourceIsObserved
  <2> SUFFICES ASSUME SourceInv, step = "done", rule # NoRule, direction = "right",
                      Len(asks.hops) = index + 1
               PROVE  entity.ip = asks.hops[1]
    BY Zenon DEF SourceIsObserved, R!SourceIsObserved
  <2>1. /\ asks.claimed \in Text /\ asks.hops \in Text /\ index \in Nat
        /\ \A i \in 1..Len(asks.hops) : asks.hops[i] # Blank
    BY Zenon, RulesAssumption DEF SourceInv, R!Requests, Text
  <2> QED
    BY Zenon, <2>1, EntryIsObserved DEF SourceInv
<1> QED
  BY <1>1, <1>2, <1>3, PTL DEF R!Spec

-----------------------------------------------------------------------------
\* Nothing in flight carries more than was granted.
Bounded == \A b \in msgs \cup writes : b.left <= granted

IInv == TypeOK /\ NoProlongedBlock /\ Bounded

-----------------------------------------------------------------------------
\* The expiry given to a deadline within the granted one is within it as well.
LEMMA ExpiryBound ==
    ASSUME NEW old \in Entry \cup {NoEntry}, NEW left \in 0..MaxTTL, NEW g \in 0..MaxTTL,
           left <= g, old # NoEntry => old.until <= Later(g, 1)
    PROVE  /\ Expiry(old, left) \in 1..MaxTTL
           /\ Expiry(old, left) <= Later(g, 1)
BY BlocklistAssumption DEF Expiry, Entry, Later

\* Setting an entry within the granted deadline keeps the caches bounded.
LEMMA SetBound ==
    ASSUME IInv, NEW n \in Node, NEW left \in 0..MaxTTL, NEW g \in 0..MaxTTL,
           left <= g, granted <= g, Set(n, left)
    PROVE  /\ cache' \in [Node -> Entry \cup {NoEntry}]
           /\ \A m \in Node : cache'[m] # NoEntry =>
                 cache'[m].deadline <= g /\ cache'[m].until <= Later(g, 1)
<1> DEFINE e == Expiry(cache[n], left)
<1>1. cache[n] \in Entry \cup {NoEntry} /\ (cache[n] # NoEntry => cache[n].until <= Later(g, 1))
  BY BlocklistAssumption DEF IInv, TypeOK, NoProlongedBlock, Later, Entry
<1>2. e \in 1..MaxTTL /\ e <= Later(g, 1)
  BY Zenon, <1>1, ExpiryBound
<1>3. cache' = [cache EXCEPT ![n] = [deadline |-> left, until |-> e]]
  BY Zenon DEF Set
<1> HIDE DEF e
<1>4. [deadline |-> left, until |-> e] \in Entry
  BY Zenon, <1>2 DEF Entry
<1>5. cache' \in [Node -> Entry \cup {NoEntry}]
  BY Zenon, <1>3, <1>4 DEF IInv, TypeOK
<1>6. ASSUME NEW m \in Node, cache'[m] # NoEntry
      PROVE  cache'[m].deadline <= g /\ cache'[m].until <= Later(g, 1)
  <2>1. CASE m = n
    BY Zenon, <2>1, <1>2, <1>3 DEF IInv, TypeOK
  <2>2. CASE m # n
    <3>1. cache'[m] = cache[m]
      BY Zenon, <2>2, <1>3 DEF IInv, TypeOK
    <3>2. cache[m] \in Entry /\ cache[m].deadline <= granted /\ cache[m].until <= Later(granted, 1)
      BY Zenon, <3>1, <1>6 DEF IInv, TypeOK, NoProlongedBlock
    <3> QED
      BY <3>1, <3>2, BlocklistAssumption DEF IInv, TypeOK, Later, Entry
  <2> QED
    BY Zenon, <2>1, <2>2
<1> QED
  BY Zenon, <1>5, <1>6

\* Dropping an entry keeps the caches bounded.
LEMMA DropBound ==
    ASSUME IInv, NEW n \in Node, cache' = [cache EXCEPT ![n] = NoEntry], granted' = granted
    PROVE  cache' \in [Node -> Entry \cup {NoEntry}] /\ NoProlongedBlock'
BY Zenon DEF IInv, TypeOK, NoProlongedBlock

\* Init establishes the invariant.
LEMMA InitIInv == Init => IInv
BY BlocklistAssumption DEF Init, IInv, TypeOK, NoProlongedBlock, Bounded

\* Every step keeps the invariant.
LEMMA NextIInv == IInv /\ [Next]_vars => IInv'
<1> SUFFICES ASSUME IInv, [Next]_vars PROVE IInv'
  BY Zenon
<1> USE BlocklistAssumption
<1>1. ASSUME NEW o \in Op, NEW n \in Node, Block(o, n) PROVE IInv'
  <2>1. TTL[o] \in 0..MaxTTL /\ TTL[o] <= granted' /\ granted <= granted' /\ granted' \in 0..MaxTTL
    BY <1>1 DEF Block, Later, IInv, TypeOK
  <2>2. cache' \in [Node -> Entry \cup {NoEntry}] /\ NoProlongedBlock'
    BY Zenon, <1>1, <2>1, SetBound DEF Block, NoProlongedBlock
  <2>3. TypeOK'
    BY Zenon, <1>1, <2>1, <2>2 DEF Block, Start, IInv, TypeOK
  <2>4. Bounded'
    BY <1>1, <2>1 DEF Block, Start, IInv, TypeOK, Bounded, Message
  <2> QED
    BY Zenon, <2>2, <2>3, <2>4 DEF IInv
<1>2. ASSUME NEW o \in Op, NEW n \in Node, Unblock(o, n) PROVE IInv'
  <2>1. cache' \in [Node -> Entry \cup {NoEntry}] /\ NoProlongedBlock'
    BY Zenon, <1>2, DropBound DEF Unblock
  <2>2. TypeOK' /\ Bounded'
    BY Zenon, <1>2, <2>1 DEF Unblock, Start, IInv, TypeOK, Bounded
  <2> QED
    BY Zenon, <2>1, <2>2 DEF IInv
<1>3. ASSUME NEW o \in Op, QueueBlockEvent(o) PROVE IInv'
  <2>1. TTL[o] \in 0..MaxTTL /\ TTL[o] <= granted' /\ granted <= granted' /\ granted' \in 0..MaxTTL
    BY <1>3 DEF QueueBlockEvent, Later, IInv, TypeOK
  <2>2. \A b \in msgs' : b \in msgs \/ (b \in Message /\ b.left = TTL[o])
    BY <1>3, <2>1 DEF QueueBlockEvent, Announce, Message
  <2>3. TypeOK'
    BY Zenon, <1>3, <2>1, <2>2 DEF QueueBlockEvent, IInv, TypeOK
  <2>4. Bounded'
    BY <1>3, <2>1, <2>2 DEF QueueBlockEvent, IInv, TypeOK, Bounded, Message
  <2>5. NoProlongedBlock'
    BY <1>3, <2>1 DEF QueueBlockEvent, IInv, TypeOK, NoProlongedBlock, Entry, Later
  <2> QED
    BY Zenon, <2>3, <2>4, <2>5 DEF IInv
<1>4. ASSUME NEW o \in Op, QueueUnblockEvent(o) PROVE IInv'
  <2>1. \A b \in msgs' : b \in msgs \/ (b \in Message /\ b.left = 0)
    BY <1>4 DEF QueueUnblockEvent, Announce, Message
  <2> QED
    BY <1>4, <2>1 DEF QueueUnblockEvent, IInv, TypeOK, NoProlongedBlock, Bounded
<1>5. ASSUME NEW b \in msgs, HandleBlock(b) \/ MergeState(b) PROVE IInv'
  <2>1. msgs' \subseteq msgs /\ writes' \subseteq writes \cup msgs /\ UNCHANGED <<cache, pc, at, granted, last>>
    BY Zenon, <1>5 DEF HandleBlock, MergeState
  <2> QED
    BY Zenon, <2>1 DEF IInv, TypeOK, NoProlongedBlock, Bounded
<1>6. ASSUME NEW b \in msgs, HandleUnblock(b) PROVE IInv'
  <2>1. b.to \in Node
    BY Zenon DEF IInv, TypeOK, Message
  <2>2. cache' \in [Node -> Entry \cup {NoEntry}] /\ NoProlongedBlock'
    BY Zenon, <1>6, <2>1, DropBound DEF HandleUnblock
  <2> QED
    BY Zenon, <1>6, <2>2 DEF HandleUnblock, IInv, TypeOK, Bounded
<1>7. ASSUME NEW b \in msgs, Lose(b) PROVE IInv'
  BY Zenon, <1>7 DEF Lose, IInv, TypeOK, NoProlongedBlock, Bounded
<1>8. ASSUME NEW w \in writes, Apply(w) PROVE IInv'
  <2>1. w.to \in Node /\ w.left \in 0..MaxTTL /\ w.left <= granted /\ granted \in 0..MaxTTL
    BY Zenon DEF IInv, TypeOK, Message, Bounded
  <2>2. cache' \in [Node -> Entry \cup {NoEntry}] /\ NoProlongedBlock'
    BY <1>8, <2>1, SetBound DEF Apply, NoProlongedBlock
  <2> QED
    BY Zenon, <1>8, <2>2 DEF Apply, IInv, TypeOK, Bounded
<1>9. ASSUME NEW n \in Node, NEW m \in Node, PushPull(n, m) PROVE IInv'
  <2> DEFINE s == [src |-> n, to |-> m, kind |-> "sync", left |-> cache[n].deadline]
  <2>1. s \in Message /\ s.left <= granted
    BY Zenon, <1>9 DEF PushPull, IInv, TypeOK, NoProlongedBlock, Message, Entry
  <2>2. msgs' = msgs \cup {s} /\ UNCHANGED <<cache, pc, at, writes, granted, last>>
    BY Zenon, <1>9 DEF PushPull
  <2> HIDE DEF s
  <2> QED
    BY Zenon, <2>1, <2>2 DEF IInv, TypeOK, NoProlongedBlock, Bounded
<1>10. ASSUME NEW n \in Node, Evict(n) PROVE IInv'
  <2>1. cache' \in [Node -> Entry \cup {NoEntry}] /\ NoProlongedBlock'
    BY Zenon, <1>10, DropBound DEF Evict
  <2> QED
    BY Zenon, <1>10, <2>1 DEF Evict, IInv, TypeOK, Bounded
<1>11. ASSUME NEW n \in Node, Restart(n) PROVE IInv'
  <2>1. cache' \in [Node -> Entry \cup {NoEntry}] /\ NoProlongedBlock'
    BY Zenon, <1>11, DropBound DEF Restart
  <2> QED
    BY Zenon, <1>11, <2>1 DEF Restart, IInv, TypeOK, Bounded
<1>12. ASSUME Tick PROVE IInv'
  <2>1. granted \in 0..MaxTTL /\ granted' = Age(granted) /\ granted' \in 0..MaxTTL
    BY <1>12 DEF Tick, Age, IInv, TypeOK
  <2>2. ASSUME NEW B \in SUBSET Message, \A b \in B : b.left <= granted
        PROVE  AgeAll(B) \subseteq Message /\ \A b \in AgeAll(B) : b.left <= granted'
    BY <2>1, <2>2 DEF AgeAll, Age, Message
  <2>3. msgs' \subseteq Message /\ writes' \subseteq Message /\ Bounded'
    BY Zenon, <1>12, <2>2 DEF Tick, IInv, TypeOK, Bounded
  <2>4. ASSUME NEW n \in Node
        PROVE  /\ cache'[n] \in Entry \cup {NoEntry}
               /\ cache'[n] # NoEntry =>
                     cache'[n].deadline <= granted' /\ cache'[n].until <= Later(granted', 1)
    <3>1. cache'[n] = AgeEntry(cache[n])
      BY Zenon, <1>12 DEF Tick
    <3>2. CASE cache[n] = NoEntry \/ cache[n].until = 1
      BY Zenon, <3>1, <3>2 DEF AgeEntry
    <3>3. CASE ~(cache[n] = NoEntry \/ cache[n].until = 1)
      <4>1. /\ cache[n].deadline \in 0..MaxTTL /\ cache[n].until \in 1..MaxTTL
            /\ cache[n].deadline <= granted /\ cache[n].until <= Later(granted, 1)
        BY Zenon, <3>3 DEF IInv, TypeOK, NoProlongedBlock, Entry
      <4>2. cache'[n] = [deadline |-> Age(cache[n].deadline), until |-> cache[n].until - 1]
        BY Zenon, <3>1, <3>3 DEF AgeEntry
      <4> QED
        BY <2>1, <3>3, <4>1, <4>2 DEF Age, Later, Entry
    <3> QED
      BY Zenon, <3>2, <3>3
  <2>5. TypeOK' /\ NoProlongedBlock'
    BY Zenon, <1>12, <2>1, <2>3, <2>4 DEF Tick, IInv, TypeOK, NoProlongedBlock
  <2> QED
    BY Zenon, <2>3, <2>5 DEF IInv
<1>13. CASE UNCHANGED vars
  BY Zenon, <1>13 DEF vars, IInv, TypeOK, NoProlongedBlock, Bounded
<1> QED
  BY Zenon, <1>1, <1>2, <1>3, <1>4, <1>5, <1>6, <1>7, <1>8, <1>9, <1>10, <1>11, <1>12, <1>13
  DEF Next, Handle

-----------------------------------------------------------------------------
\* The inductive invariant holds in every reachable state.
THEOREM BlocklistInductive == Spec => []IInv
BY InitIInv, NextIInv, PTL DEF Spec

\* The caches, the operations and what is in flight keep their types: a Set never
\* gives an entry a zero or negative expiry (the floor of the expiry function).
THEOREM BlocklistTypeCorrect == Spec => []TypeOK
<1>1. IInv => TypeOK
  BY Zenon DEF IInv
<1> QED
  BY <1>1, BlocklistInductive, PTL

\* Replication by events with absolute deadlines and by push/pull never prolongs
\* a block, in any cluster, with any delays, losses, evictions and restarts.
THEOREM NeverProlonged == Spec => []NoProlongedBlock
<1>1. IInv => NoProlongedBlock
  BY Zenon DEF IInv
<1> QED
  BY <1>1, BlocklistInductive, PTL
=============================================================================
