----------------------------- MODULE MCServing ------------------------------
(* Instances for TLC of what a node does with a request by itself: the       *)
(* limits (Limiter), the choice of rule and entity (Matching: Rules), the    *)
(* embedded proxy (Proxying: Gateway), the internal API (Internal: Admin).   *)
(* They share no state: a behaviour moves the one `focus` names, and the     *)
(* others stay in their initial states.                                     *)
EXTENDS Limiter, Matching, Proxying, Internal, TLC

VARIABLE focus

-----------------------------------------------------------------------------
(* Two rules, prefixes of up to three characters and paths of up to four;   *)
(* a client claims up to two addresses, and one or two proxies append.       *)
Strings(n) == UNION {{<<"/">> \o s : s \in [1..k -> {"/", "a"}]} : k \in 0..n}
Prefixes == Strings(2)
Paths == Strings(3)
Claims == {<<>>, <<"x">>, <<"x", "blank">>}
Appended == {<<>>, <<"y">>, <<"y", "z">>}
RuleKeys == ("one" :> {"key"}) @@ ("two" :> {})

-----------------------------------------------------------------------------
(* Two hosts with the same prefix: the later one wins; its issuer is down;   *)
(* both are down.                                                           *)
Set(issuer, demands, protected) ==
    [issuer |-> issuer, demands |-> demands, routes |-> {"p"}, protected |-> protected]
Pair(a, b) == ("A" :> a) @@ ("B" :> b)
Open == Set("none", {}, {})
Configs ==
    {Pair(Open, Set("up", {"audience"}, {"p"})),
     Pair(Set("up", {"scopes"}, {"p"}), Set("down", {}, {"p"})),
     Pair(Set("down", {}, {}), Set("down", {}, {"p"}))}

HostNames == <<"A", "B">>
Pools == {<<"x", "y", "z">>, <<"y", "x">>, <<>>}

-----------------------------------------------------------------------------
limiter == vars
rules   == <<prefix, direction, index, waiting, tree, asks, candidate, rule, entity, step>>
gateway == <<config, state, router, blocked, stage, request, answer, served,
             pool, turn, picks, wrapped>>
admin   == <<clock, store, minted, challenged, call, spent, replayed, token,
             sessions, expiry, cookie, addresses, fetch>>
all == <<focus, limiter, rules, gateway, admin>>

(* A part that does not move has one of its initial states.                 *)
MCInit ==
    /\ focus \in {"limiter", "rules", "gateway", "admin"}
    /\ Init /\ (focus # "limiter" => algorithm = "sliding-window" /\ per = Window)
    /\ R!Init /\ (focus # "rules" => /\ \A n \in Name : prefix[n] = <<"/">>
                                     /\ direction = "left" /\ index = 0)
    /\ G!Init /\ (focus # "gateway" => \A h \in {"A", "B"} : config[h].issuer = "down")
    /\ A!Init

MCNext ==
    /\ UNCHANGED focus
    /\ \/ focus = "limiter" /\ Next /\ UNCHANGED <<rules, gateway, admin>>
       \/ focus = "rules" /\ R!Next /\ UNCHANGED <<limiter, gateway, admin>>
       \/ focus = "gateway" /\ G!Next /\ UNCHANGED <<limiter, rules, admin>>
       \/ focus = "admin" /\ A!Next /\ UNCHANGED <<limiter, rules, gateway>>

MCSpec == MCInit /\ [][MCNext]_all

(* The requests of the limiter and of the gateway are interchangeable.       *)
Symmetry == Permutations(Request)
=============================================================================
