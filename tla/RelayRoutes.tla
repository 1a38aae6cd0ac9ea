------------------------------ MODULE RelayRoutes ------------------------------
(***************************************************************************)
(* Where the traffic of a relay pool leaves: the route rules, outbounds    *)
(* and ports that service/relay.go writes for a pool of each kind, the     *)
(* fallback outbound of core/relay_fallback_outbound.go, and what happens  *)
(* to the rules when pools are created, deleted and repaired at startup    *)
(* while a browser saves whole configurations it loaded before.            *)
(* An operation on a pool is one transaction (RelayPool has its steps);    *)
(* a pool stands for one of its items as far as rules are concerned.       *)
(***************************************************************************)
EXTENDS Integers, Sequences, Functions

CONSTANTS
  PoolCount,      \* pools have the numbers up to it, in the order of the database
  Count,          \* Count[p]: the number of items of p
  MaxPort,        \* the last port
  Taken,          \* ports of other inbounds
  MaxConfigSaves  \* bound: browser saves

Pools == 1 .. PoolCount

ASSUME RoutesAssumption ==
  /\ PoolCount \in Nat \ {0} /\ Count \in [Pools -> Nat \ {0}]
  /\ MaxPort \in Nat \ {0} /\ Taken \subseteq Nat
  /\ MaxConfigSaves \in Nat

Upstream == [mode |-> "upstream", only6 |-> FALSE, apple |-> FALSE]
IPv6(o)  == [mode |-> "ipv6", only6 |-> o, apple |-> FALSE]
Pair(a)  == [mode |-> "paired", only6 |-> FALSE, apple |-> a]
Dual(a)  == [mode |-> "dualstack", only6 |-> FALSE, apple |-> a]
AllKinds == {Upstream} \cup {IPv6(b) : b \in BOOLEAN} \cup {Pair(b) : b \in BOOLEAN}
              \cup {Dual(b) : b \in BOOLEAN}

VARIABLES
  kind,      \* the kind of each pool that has a row
  port,      \* its first port
  rules,     \* the route rules of the saved configuration
  resolver,  \* the resolver of paired relays is among its DNS servers
  running,   \* sing-box runs it
  loaded,      \* the rules and servers a browser has loaded
  nsaves,    \* saves of the browser so far
  edited,    \* pools whose routing a save of the browser has changed
  revived    \* deleted pools whose rules a save has brought back

routevars == <<kind, port, rules, resolver, running, loaded, nsaves, edited, revived>>

-----------------------------------------------------------------------------
\* Outbounds and rules.

NoPool == [mode |-> "unborn", only6 |-> FALSE, apple |-> FALSE]
GonePool   == [mode |-> "dead", only6 |-> FALSE, apple |-> FALSE]
LivePools   == {p \in Pools : kind[p] \notin {NoPool, GonePool}}

\* <<p, "socks">> and <<p, "ipv4">> go to the upstream, <<p, "ipv6">> is bound to
\* the item's address, <<p, "dual">> is the fallback outbound.
Direct == <<0, "direct">>
NoTag  == <<0, "">>
Tags(k, p) ==
  CASE k.mode = "upstream"  -> [out |-> <<p, "socks">>, out6 |-> NoTag, out4 |-> NoTag]
    [] k.mode = "ipv6"      -> [out |-> <<p, "ipv6">>, out6 |-> NoTag, out4 |-> NoTag]
    [] k.mode = "paired"    -> [out |-> <<p, "ipv6">>, out6 |-> NoTag, out4 |-> <<p, "ipv4">>]
    [] k.mode = "dualstack" -> [out |-> <<p, "dual">>, out6 |-> <<p, "ipv6">>,
                                out4 |-> <<p, "ipv4">>]
TagsOf(k, p) == {Tags(k, p).out, Tags(k, p).out6, Tags(k, p).out4} \ {NoTag}

\* `from` is the set of pools whose inbound the rule names, {} for a rule of any.
Rule(p, act, match, out) == [from |-> {p}, act |-> act, match |-> match, out |-> out]

PlainRules(k, p) ==
  (IF k.only6 THEN <<Rule(p, "reject", "v4", NoTag)>> ELSE <<>>)
    \o <<Rule(p, "route", "all", Tags(k, p).out)>>

\* The rules updateRelayRouteRules writes for an item.
Written(k, p) ==
  LET t    == Tags(k, p)
      out6 == IF t.out6 = NoTag THEN t.out ELSE t.out6
  IN  CASE k.apple ->
             <<Rule(p, "route", "apple", t.out4), Rule(p, "route", "captcha", t.out4),
               Rule(p, "resolve", "only6", NoTag),
               Rule(p, "reject", "v4", NoTag),
               Rule(p, "route", "all", out6)>>
        [] ~k.apple /\ t.out6 # NoTag ->
             <<Rule(p, "resolve", "prefer6", NoTag), Rule(p, "route", "all", t.out)>>
        [] ~k.apple /\ t.out6 = NoTag /\ t.out4 # NoTag ->
             <<Rule(p, "resolve", "prefer6", NoTag),
               Rule(p, "route", "cidr6", t.out),
               Rule(p, "route", "cidr4", t.out4)>>
        [] OTHER -> PlainRules(k, p)

\* A mutant: the IPv4 outbound of the item is not looked for.
RecognisedHalf(k, p, r) ==
  \/ r.out \in {Tags(k, p).out, Tags(k, p).out6} \ {NoTag}
  \/ r.act = "resolve" /\ Tags(k, p).out4 # NoTag
  \/ r.act = "reject" /\ r.match \in {"v4", "mail4"}

\* What an update takes for its own among the rules that name the inbound of p: of
\* a reject it asks only that it is about IPv4, whatever else the rule is about.
Recognised(k, p, r) ==
  \/ r.out \in TagsOf(k, p)
  \/ r.act = "resolve" /\ Tags(k, p).out4 # NoTag
  \/ r.act = "reject" /\ r.match \in {"v4", "mail4"}

\* The rules of rs that are in the set R, in their order.  A recursive function, and
\* not SelectSeq, since theorems are proved about it.
Only(rs, R) ==
  LET only[n \in 0 .. Len(rs)] ==
        IF n = 0 THEN <<>>
        ELSE IF rs[n] \in R THEN Append(only[n - 1], rs[n]) ELSE only[n - 1]
  IN  only[Len(rs)]

\* A mutant: every rule that names the inbound is taken for a generated one.
KeptOfOthers(ks, rs, ps) == Only(rs, {r \in Range(rs) : r.from \cap ps = {}})

Kept(ks, rs, ps) ==
  Only(rs, {r \in Range(rs) : ~\E p \in r.from \cap ps : Recognised(ks[p], p, r)})

\* The rules of the pools of ps, in the order of the database.
AllWritten(ks, ps) ==
  LET upto[n \in 0 .. PoolCount] ==
        IF n = 0 THEN <<>>
        ELSE IF n \in ps THEN upto[n - 1] \o Written(ks[n], n) ELSE upto[n - 1]
  IN  upto[PoolCount]

\* updateRelayRouteRules: for the items of ps, in front of what is kept.
Update(ks, rs, ps) == AllWritten(ks, ps) \o Kept(ks, rs, ps)
Needs(rs) == \E i \in DOMAIN rs : rs[i].act = "resolve"

\* sing-box refuses a rule whose outbound does not exist.
Accepted(ks, rs) ==
  \A i \in DOMAIN rs :
    rs[i].out \in {NoTag, Direct} \cup
      UNION {TagsOf(ks[p], p) : p \in {q \in Pools : ks[q] \notin {NoPool, GonePool}}}

-----------------------------------------------------------------------------
\* Routing.

\* Destinations: addresses, and names by the addresses they have; "apple" and
\* "captcha" are the names of relayAppleIDDomains and relayVintedCaptchaDomains.
\* None is at a port of mail.
Dests  == {"lit4", "lit6", "name4", "name6", "name", "apple", "captcha"}
Named(d) == d \notin {"lit4", "lit6"}
Has(d) == CASE d \in {"lit4", "name4"} -> {4}
            [] d \in {"lit6", "name6"} -> {6}
            [] OTHER -> {4, 6}

\* The rules before i that resolve d for p.
Resolving(rs, p, i) == {j \in 1 .. i - 1 : rs[j].act = "resolve" /\ p \in rs[j].from}

\* The addresses of d that are known at rule i.
Known(rs, p, d, i) ==
  IF ~Named(d) THEN Has(d)
  ELSE IF Resolving(rs, p, i) = {} THEN {}
  ELSE IF \E j \in Resolving(rs, p, i) : rs[j].match = "only6" THEN Has(d) \cap {6} ELSE Has(d)

\* Rule i decides about d: it matches, or it resolves d to nothing.
Decides(rs, p, d, i) ==
  /\ rs[i].from = {} \/ p \in rs[i].from
  /\ CASE rs[i].act = "resolve" -> Named(d) /\ rs[i].match = "only6" /\ 6 \notin Has(d)
       [] rs[i].match = "all"   -> TRUE
       [] rs[i].match \in {"apple", "captcha"} -> d = rs[i].match
       [] rs[i].match = "v4"    -> d = "lit4"
       [] rs[i].match = "cidr4" -> 4 \in Known(rs, p, d, i)
       [] rs[i].match = "cidr6" -> 6 \in Known(rs, p, d, i)
       [] rs[i].match \in {"mail", "mail4"} -> FALSE

\* relayDirectOutboundOptions: the outbound of the address looks names up for IPv6
\* only.
Only6(k) == k.only6 \/ k.mode = "dualstack" \/ k.apple

\* Leaving by the outbound that is bound to the address; ok6 says whether it reaches
\* d.  sing-box dials an IPv4 address without it.
ByAddress(k, d, addrs, ok6) ==
  CASE 6 \in addrs /\ ok6 -> "ipv6"
    [] ~(6 \in addrs /\ ok6) /\ 4 \in addrs /\ ~(Named(d) /\ Only6(k)) -> "native4"
    [] OTHER -> "none"

\* The fallback outbound, by addresses if there are any, else by the name.
ByFallback(k, d, known, ok6) ==
  LET addrs == IF known = {} THEN Has(d) ELSE known
      six   == ByAddress(k, d, addrs \cap {6}, ok6)
  IN  CASE six # "none" -> six
        [] six = "none" /\ 4 \in addrs -> "proxy"
        [] OTHER -> "none"

\* How traffic of pool p for d leaves.
Exit(ks, rs, p, d, ok6) ==
  IF ~\E i \in DOMAIN rs : Decides(rs, p, d, i) THEN "native"
  ELSE LET i == CHOOSE i \in DOMAIN rs : /\ Decides(rs, p, d, i)
                                         /\ \A j \in 1 .. i - 1 : ~Decides(rs, p, d, j)
           known == Known(rs, p, d, i)
       IN  CASE rs[i].act # "route"       -> "none"
             [] rs[i].out = <<p, "socks">> -> "proxy"
             [] rs[i].out = <<p, "ipv4">>  -> IF 4 \in Has(d) THEN "proxy" ELSE "none"
             [] rs[i].out = <<p, "ipv6">>  ->
                  ByAddress(ks[p], d, IF known = {} THEN Has(d) ELSE known, ok6)
             [] rs[i].out = <<p, "dual">>  -> ByFallback(ks[p], d, known, ok6)
             [] OTHER                      -> "native"

\* What README.md:178-191 says of a pool: the upstream; the address; the address
\* and, for IPv4 only, the upstream; the upstream when the address does not reach
\* the destination; the upstream for Apple ID and else the address.  The upstream
\* for the captcha names too: relay.go:70 and relay_test.go:922 say so, while
\* README.md:191 has all names but Apple's leave by the address.
Promised(k, d, ok6) ==
  LET six == 6 \in Has(d) /\ ok6
  IN  CASE k.mode = "upstream" -> {"proxy"}
        [] k.apple /\ d \in {"apple", "captcha"} -> {"proxy"}
        [] k.apple /\ d \notin {"apple", "captcha"} -> IF six THEN {"ipv6"} ELSE {"none"}
        [] k.mode = "ipv6" ->
             IF six THEN {"ipv6"} ELSE IF k.only6 THEN {"none"} ELSE {"native4", "none"}
        [] k.mode = "paired" /\ ~k.apple ->
             IF six THEN {"ipv6"} ELSE IF Has(d) = {4} THEN {"proxy"} ELSE {"native4", "none"}
        [] k.mode = "dualstack" /\ ~k.apple ->
             IF six THEN {"ipv6"} ELSE IF 4 \in Has(d) THEN {"proxy"} ELSE {"none"}

RoutedAsPromised(ks, rs, p) ==
  \A d \in Dests, ok6 \in BOOLEAN : Exit(ks, rs, p, d, ok6) \in Promised(ks[p], d, ok6)

-----------------------------------------------------------------------------
\* Ports.

\* relayUsedPorts
UsedPorts == Taken \cup UNION {port[p] .. port[p] + Count[p] - 1 : p \in LivePools}

Conflicts(used, start, n) == used \cap (start .. start + n - 1)

\* A mutant: the range need not end at the last port.
LastStartWide(n) == MaxPort

LastStart(n) == MaxPort - n + 1

\* nextRelayPortRange: the search goes on behind the conflict; 0 if there is none.
NextPortRange(used, preferred, n) ==
  LET range[start \in 1 .. MaxPort + 1] ==
        IF start > LastStart(n) THEN 0
        ELSE IF Conflicts(used, start, n) = {} THEN start
        ELSE range[1 + CHOOSE c \in Conflicts(used, start, n) :
                         \A b \in Conflicts(used, start, n) : c <= b]
  IN  range[preferred]

-----------------------------------------------------------------------------
\* Actions.

RoutesInit ==
  /\ kind = [p \in Pools |-> NoPool] /\ port = [p \in Pools |-> 0]
  /\ rules = <<>> /\ resolver = FALSE /\ running = TRUE
  /\ loaded = [rules |-> <<>>, resolver |-> FALSE]
  /\ nsaves = 0 /\ edited = {} /\ revived = {}

\* A running core is started again with the rows of the transaction, or else they
\* are rolled back.
Applies(ks, rs) ==
  /\ running => Accepted(ks, rs)
  /\ kind' = ks /\ rules' = rs
  /\ running' \in {running, running \/ Accepted(ks, rs)}

\* CreateRelay
CreatePool(p) ==
  /\ kind[p] = NoPool
  /\ \E k \in AllKinds, preferred \in 1 .. MaxPort :
       LET start == NextPortRange(UsedPorts, preferred, Count[p])
           ks    == [kind EXCEPT ![p] = k]
           rs    == Update(ks, rules, {p})
       IN  /\ Count[p] <= MaxPort - preferred + 1 /\ start # 0
           /\ port' = [port EXCEPT ![p] = start]
           /\ Applies(ks, rs) /\ resolver' = Needs(rs)
  /\ UNCHANGED <<loaded, nsaves, edited, revived>>

\* DeleteRelay; it does not start a core that is down.
DeletePool(p) ==
  /\ p \in LivePools
  /\ LET ks == [kind EXCEPT ![p] = GonePool]
         rs == Kept(kind, rules, {p})
     IN  /\ running => Accepted(ks, rs)
         /\ kind' = ks /\ rules' = rs /\ resolver' = Needs(rs)
  /\ edited' = edited \ {p}
  /\ UNCHANGED <<port, running, loaded, nsaves, revived>>

\* repairRelayIPv6OutboundStrategies: the pools that may use IPv4 too, then the
\* others in front of them; those of upstreams are not repaired.
Repaired(ks, rs) ==
  LET only  == {p \in LivePools : ks[p].only6}
      mixed == {p \in LivePools : ~ks[p].only6 /\ ks[p].mode # "upstream"}
  IN  Update(ks, Update(ks, rs, mixed), only)

\* The panel starts; the repair may fail, which is logged.
Boot ==
  /\ running' = FALSE
  /\ \/ /\ {p \in LivePools : kind[p].mode # "upstream"} # {}
        /\ rules' = Repaired(kind, rules) /\ resolver' = Needs(rules')
        /\ edited' = {p \in edited : kind[p].mode = "upstream"}
     \/ UNCHANGED <<rules, resolver, edited>>
  /\ UNCHANGED <<kind, port, loaded, nsaves, revived>>

StartBox ==
  /\ ~running /\ Accepted(kind, rules) /\ running' = TRUE
  /\ UNCHANGED <<kind, port, rules, resolver, loaded, nsaves, edited, revived>>

StopBox ==
  /\ running /\ running' = FALSE
  /\ UNCHANGED <<kind, port, rules, resolver, loaded, nsaves, edited, revived>>

LoadConfig ==
  /\ loaded' = [rules |-> rules, resolver |-> resolver] /\ loaded' # loaded
  /\ UNCHANGED <<kind, port, rules, resolver, running, nsaves, edited, revived>>

\* Rules of a user's: for all traffic, to an outbound of a pool, and about the
\* inbound of one; and two that name the inbounds of all pools, mail over IPv4
\* being refused, and mail leaving by the outbound of a pool.
OfAll(out) == [from |-> {}, act |-> "route", match |-> "all", out |-> out]
OfPools(act, match, out) == [from |-> Pools, act |-> act, match |-> match, out |-> out]
UserRules ==
  {OfAll(Direct), OfAll(<<1, "ipv6">>), Rule(1, "route", "cidr6", Direct),
   OfPools("reject", "mail4", NoTag), OfPools("route", "mail", <<1, "ipv6">>)}

\* SaveConfig: the browser saves the configuration it loaded, with a rule of the
\* user's put in front or behind.  A running core has to take it.
SaveForm ==
  /\ nsaves < MaxConfigSaves /\ nsaves' = nsaves + 1
  /\ \E rs \in {loaded.rules} \cup UNION {{<<r>> \o loaded.rules, Append(loaded.rules, r)} :
                                          r \in UserRules \ Range(loaded.rules)} :
       /\ running => Accepted(kind, rs)
       /\ rules' = rs
       /\ edited' = edited \cup {p \in LivePools : ~RoutedAsPromised(kind, rs, p)}
       /\ revived' = revived \cup {p \in Pools : kind[p] = GonePool /\
                                     \E i \in DOMAIN rs : rs[i] \notin UserRules /\ p \in rs[i].from}
  /\ resolver' = loaded.resolver
  /\ UNCHANGED <<kind, port, running, loaded>>

RoutesNext ==
  \/ Boot \/ StartBox \/ StopBox \/ LoadConfig \/ SaveForm
  \/ \E p \in Pools : CreatePool(p) \/ DeletePool(p)

RoutesSpec == RoutesInit /\ [][RoutesNext]_routevars

-----------------------------------------------------------------------------
\* Properties.

\* A running core has accepted its rules, and a pool's ports are ports.
RoutesTypeOK ==
  /\ \A p \in Pools : kind[p] \in AllKinds \cup {NoPool, GonePool}
  /\ \A p \in LivePools : port[p] \in 1 .. MaxPort - Count[p] + 1
  /\ running \in BOOLEAN /\ resolver \in BOOLEAN
  /\ \A i \in DOMAIN rules : rules[i].from \subseteq Pools
  /\ running => Accepted(kind, rules)
  /\ nsaves \in 0 .. MaxConfigSaves /\ edited \subseteq Pools /\ revived \subseteq Pools

(* The traffic of a pool leaves as README.md:178-191 says for its mode, but *)
(* for the captcha names (Promised), whatever other pools and rules there   *)
(* are, and no two pools have a port in common; until a user's save changes *)
(* its routing, and again after the next start unless it is a pool of       *)
(* upstreams (relay.go:2491, 627, 2470, relay_fallback_outbound.go:141).    *)
ServedAsPromised ==
  /\ \A p \in LivePools \ edited : RoutedAsPromised(kind, rules, p)
  /\ \A p \in LivePools : (port[p] .. port[p] + Count[p] - 1) \cap
       (Taken \cup UNION {port[q] .. port[q] + Count[q] - 1 : q \in LivePools \ {p}}) = {}

(* No rule is left of a deleted pool, except what a browser has brought     *)
(* back, and the resolver is there whenever a rule needs it                 *)
(* (relay.go:1357, 2491, 2645).                                             *)
DeadPoolsLeaveNothing ==
  /\ \A i \in DOMAIN rules : rules[i] \notin UserRules =>
       \A p \in rules[i].from : p \in LivePools \/ p \in revived
  /\ Needs(rules) => resolver

(* The two: what a pool promises holds while it is there, and goes with it. *)
RoutesHold == ServedAsPromised /\ DeadPoolsLeaveNothing

(* A user's rule goes only when a pool is created, deleted or repaired      *)
(* whose inbound it names, and only if it rejects IPv4, whatever else it is *)
(* about, or leads to an outbound of that pool; then it goes as a whole,    *)
(* for the other inbounds it names too.  The other rules of users, also     *)
(* those that name the inbound, stay in their order, and none comes back    *)
(* (relay.go:2523-2550, 1357).  So an update removes more than relay rules, *)
(* unlike the title of relay_test.go:719.                                   *)
UserRulesStay ==
  [][nsaves' = nsaves =>
       LET left == UserRules \cap Range(rules')
           Touched(p) == IF kind' = kind THEN p \in LivePools /\ kind[p].mode # "upstream"
                         ELSE kind'[p] # kind[p]
       IN  /\ Only(rules', UserRules) = Only(rules, left)
           /\ \A r \in (UserRules \cap Range(rules)) \ left :
                \E p \in r.from : Touched(p) /\ (r.act = "reject" \/ r.out[1] = p)]_routevars
===============================================================================
