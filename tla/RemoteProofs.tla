---------------------------- MODULE RemoteProofs ----------------------------
(***************************************************************************)
(* Proofs about the components of managed nodes and relays: RelayPool, for *)
(* any pools, sizes and addresses, Enrolment, for any nodes, servers and   *)
(* calls that connect them, and any number of credentials, and RemoteCall, *)
(* for any calls, slots and numbers of changes and connections.            *)
(***************************************************************************)
EXTENDS MCRemote, SequenceTheorems, TLAPS

(***************************************************************************)
(* RelayPool.  PoolInv says what an operation has promised in each of its  *)
(* phases: what it will add and give up before it has committed, what it   *)
(* still gives up after.                                                   *)
(***************************************************************************)

RowsOf(p)   == {<<>>} \cup [1 .. Size[p] -> Items]
PoolRows    == [Pools -> UNION {RowsOf(p) : p \in Pools}]
WellFormed(ps) == ps \in PoolRows /\ \A p \in Pools : ps[p] \in RowsOf(p)

Early == {"adding", "ready", "stopped", "started"}
Phases == Early \cup {"idle", "boot", "removing"}

OpRecord == [kind : {"none", "create", "delete", "rotate"}, phase : Phases,
             new : PoolRows \cup {<<>>}, add : SUBSET Addrs, added : SUBSET Addrs,
             gone : SUBSET Addrs, swaps : BOOLEAN, shared : SUBSET Addrs]

TypesInv ==
  /\ WellFormed(pools) /\ Owned(pools) \cap Own = {}
  /\ Own \subseteq host /\ host \subseteq Addrs /\ strays \subseteq Addrs
  /\ core \in [up : BOOLEAN, binds : [Pools -> Seq(Addrs)]]
  /\ op \in OpRecord /\ crossed \in BOOLEAN
  /\ op.phase = "idle" => op = NoOp

\* What an operation that has not committed will add and give up.
Planned ==
  op.phase \in Early =>
    /\ WellFormed(op.new) /\ Owned(op.new) \cap Own = {}
    /\ op.add \cup op.added \subseteq Owned(op.new)
    /\ op.gone \subseteq Owned(pools)
    /\ Owned(pools) \subseteq Owned(op.new) \cup op.gone
    /\ op.kind = "create" => op.gone = {}
    /\ (op.add \cup op.added) \cap Used(pools) \subseteq op.shared
    /\ op.gone \cap Used(op.new) \subseteq op.shared

\* What one that has committed still gives up.
Leaving ==
  /\ op.phase = "removing" => /\ op.gone \cap Used(pools) \subseteq op.shared
                              /\ op.gone \cap Own = {}
  /\ op.phase = "boot" => op.gone = {}
  /\ op.phase \in {"boot", "removing"} => op.added = {}

HostKnown == host \subseteq Own \cup Owned(pools) \cup strays \cup op.added \cup op.gone

CoreKnown ==
  /\ core.up /\ ~crossed /\ op.phase \notin {"stopped", "started"} => core = Config(pools)
  /\ core.up /\ ~crossed /\ op.phase = "started" => op.swaps /\ core = Config(op.new)
  /\ op.phase = "stopped" => ~core.up /\ op.swaps
  /\ op.phase = "ready" /\ op.kind = "rotate" /\ core.up => op.swaps

PoolInv == TypesInv /\ Planned /\ Leaving /\ HostKnown /\ CoreKnown

-----------------------------------------------------------------------------
USE PoolAssumption

\* Membership in the addresses of the rows.
LEMMA OwnedIs ==
  ASSUME NEW ps, NEW a
  PROVE  a \in Owned(ps) <=> \E p \in Pools : \E i \in DOMAIN ps[p] : ps[p][i].ours /\ ps[p][i].ip = a
BY DEF Owned, OursOf

LEMMA UsedIs ==
  ASSUME NEW ps, NEW a
  PROVE  a \in Used(ps) <=> \E p \in Pools : \E i \in DOMAIN ps[p] : ps[p][i].ip = a
BY DEF Used, IpsOf

\* The items of a row, and a row put in the place of another.
LEMMA RowItems ==
  ASSUME NEW ps, WellFormed(ps), NEW p \in Pools, NEW i \in DOMAIN ps[p]
  PROVE  ps[p][i] \in Items /\ ps[p] \in [1 .. Size[p] -> Items]
<1>1. ps[p] = <<>> \/ ps[p] \in [1 .. Size[p] -> Items]
  BY DEF WellFormed, RowsOf
<1>2. ps[p] # <<>>
  OBVIOUS
<1> QED
  BY <1>1, <1>2

LEMMA RowPut ==
  ASSUME NEW ps, WellFormed(ps), NEW p \in Pools, NEW r \in RowsOf(p)
  PROVE  /\ WellFormed([ps EXCEPT ![p] = r])
         /\ [ps EXCEPT ![p] = r][p] = r
         /\ \A q \in Pools \ {p} : [ps EXCEPT ![p] = r][q] = ps[q]
BY DEF WellFormed, PoolRows

LEMMA OwnedAddrs == ASSUME NEW ps, WellFormed(ps) PROVE Owned(ps) \subseteq Addrs /\ Used(ps) \subseteq Addrs
BY OwnedIs, UsedIs, RowItems DEF Items

\* What GetConfig gives the core.
LEMMA ConfigTyped ==
  ASSUME NEW ps, WellFormed(ps)
  PROVE  Config(ps) \in [up : BOOLEAN, binds : [Pools -> Seq(Addrs)]] /\ Config(ps).up
<1>1. ASSUME NEW p \in Pools PROVE [i \in DOMAIN ps[p] |-> ps[p][i].ip] \in Seq(Addrs)
  <2>1. CASE ps[p] = <<>>
    BY <2>1
  <2>2. CASE ps[p] \in [1 .. Size[p] -> Items]
    <3>1. DOMAIN ps[p] = 1 .. Size[p] /\ Size[p] \in Nat
      BY <2>2
    <3>2. [i \in DOMAIN ps[p] |-> ps[p][i].ip] \in [1 .. Size[p] -> Addrs]
      BY <2>2, <3>1 DEF Items
    <3> QED
      BY <3>1, <3>2
  <2> QED
    BY <2>1, <2>2 DEF WellFormed, RowsOf
<1> QED
  BY <1>1 DEF Config

-----------------------------------------------------------------------------
\* The rows that each operation is about to write.  An address of the provider's
\* is on the interface, so no new item is taken for the panel's own.
LEMMA CreateRows ==
  ASSUME TypesInv, NEW p \in Pools, pools[p] = <<>>, NEW items \in FreshItems(p)
  PROVE  LET new == [pools EXCEPT ![p] = items] IN
         /\ WellFormed(new) /\ Owned(new) \cap Own = {}
         /\ OursOf(items) \subseteq Owned(new) /\ Owned(pools) \subseteq Owned(new)
<1> DEFINE new == [pools EXCEPT ![p] = items]
<1>0. items \in RowsOf(p)
  BY DEF FreshItems, RowsOf
<1>1. WellFormed(new) /\ new[p] = items /\ \A q \in Pools \ {p} : new[q] = pools[q]
  BY <1>0, RowPut DEF TypesInv
<1> HIDE DEF new
<1>2. OursOf(items) \subseteq Owned(new)
  BY <1>1, OwnedIs DEF OursOf
<1>3. OursOf(items) \cap Own = {}
  BY DEF FreshItems, Adds, OursOf, TypesInv
<1>4. Owned(pools) \subseteq Owned(new)
  BY <1>1, OwnedIs
<1>5. Owned(new) \subseteq Owned(pools) \cup OursOf(items)
  BY <1>1, OwnedIs DEF OursOf
<1>6. Owned(new) \cap Own = {}
  BY <1>3, <1>5 DEF TypesInv
<1> QED
  BY <1>1, <1>2, <1>4, <1>6 DEF new

\* An old address that is still in the new rows was in two items of the old ones,
\* or has been given to another item: both are noted as shared.
LEMMA RotateRows ==
  ASSUME TypesInv, NEW p \in Pools, pools[p] # <<>>,
         NEW chosen \in SUBSET DOMAIN pools[p], NEW items \in RotatedItems(pools[p], chosen)
  PROVE  LET new  == [pools EXCEPT ![p] = items]
             add  == {items[i].ip : i \in chosen}
             gone == GivenUp(pools[p], chosen)
         IN  /\ WellFormed(new) /\ Owned(new) \cap Own = {}
             /\ add \subseteq Owned(new) /\ gone \subseteq Owned(pools)
             /\ Owned(pools) \subseteq Owned(new) \cup gone
             /\ gone \cap Used(new) \subseteq GivenTwice(pools) \cup (add \cap Used(pools))
<1> DEFINE new  == [pools EXCEPT ![p] = items]
           add  == {items[i].ip : i \in chosen}
           gone == GivenUp(pools[p], chosen)
<1>0. pools[p] \in [1 .. Size[p] -> Items] /\ WellFormed(pools)
  BY DEF TypesInv, WellFormed, RowsOf
<1>1. items \in RowsOf(p) /\ DOMAIN items = DOMAIN pools[p]
  BY <1>0 DEF RotatedItems, RowsOf
<1>2. \A i \in chosen : items[i].ours /\ items[i].ip \notin host
  BY DEF RotatedItems, Replaceable
<1>3. \A i \in DOMAIN pools[p] \ chosen : items[i] = pools[p][i]
  BY DEF RotatedItems
<1>4. WellFormed(new) /\ new[p] = items /\ \A q \in Pools \ {p} : new[q] = pools[q]
  BY <1>0, <1>1, RowPut
<1>5. \A a : a \in gone <=> \E i \in chosen : pools[p][i].ours /\ pools[p][i].ip = a
  BY DEF GivenUp, OursOf
<1> HIDE DEF new, gone
<1>6. add \subseteq Owned(new)
  BY <1>1, <1>2, <1>4, OwnedIs
<1>7. gone \subseteq Owned(pools)
  BY <1>5, OwnedIs
<1>8. Owned(pools) \subseteq Owned(new) \cup gone
  <2> SUFFICES ASSUME NEW a \in Owned(pools), a \notin gone PROVE a \in Owned(new)
    OBVIOUS
  <2>1. PICK q \in Pools : \E i \in DOMAIN pools[q] : pools[q][i].ours /\ pools[q][i].ip = a
    BY OwnedIs
  <2>2. PICK i \in DOMAIN pools[q] : pools[q][i].ours /\ pools[q][i].ip = a
    BY <2>1
  <2>3. new[q][i] = pools[q][i] /\ i \in DOMAIN new[q]
    BY <1>1, <1>3, <1>4, <1>5, <2>2
  <2> QED
    BY <2>2, <2>3, OwnedIs
<1>9. Owned(new) \cap Own = {}
  <2> SUFFICES ASSUME NEW a \in Owned(new), a \in Own PROVE FALSE
    OBVIOUS
  <2>1. PICK q \in Pools : \E i \in DOMAIN new[q] : new[q][i].ours /\ new[q][i].ip = a
    BY OwnedIs
  <2>2. PICK i \in DOMAIN new[q] : new[q][i].ours /\ new[q][i].ip = a
    BY <2>1
  <2>3. a \notin Owned(pools) /\ a \in host
    BY DEF TypesInv
  <2>4. q = p /\ i \in chosen
    BY <1>1, <1>3, <1>4, <2>2, <2>3, OwnedIs
  <2> QED
    BY <1>2, <1>4, <2>2, <2>3, <2>4
<1>10. ASSUME NEW a \in gone, a \in Used(new) PROVE a \in GivenTwice(pools) \cup (add \cap Used(pools))
  <2>1. PICK i \in chosen : pools[p][i].ip = a
    BY <1>5, <1>10
  <2>2. PICK q \in Pools : \E j \in DOMAIN new[q] : new[q][j].ip = a
    BY <1>10, UsedIs
  <2>3. PICK j \in DOMAIN new[q] : new[q][j].ip = a
    BY <2>2
  <2>4. a \in Addrs /\ a \in Used(pools)
    BY <1>0, <2>1, RowItems, UsedIs DEF Items
  <2>5. CASE q = p /\ j \in chosen
    BY <1>4, <2>3, <2>4, <2>5
  <2>6. CASE ~(q = p /\ j \in chosen)
    <3>1. j \in DOMAIN pools[q] /\ pools[q][j].ip = a /\ <<p, i>> # <<q, j>>
      BY <1>1, <1>3, <1>4, <2>1, <2>3, <2>6
    <3> QED
      BY <2>1, <2>4, <3>1 DEF GivenTwice
  <2> QED
    BY <2>5, <2>6
<1> QED
  BY <1>4, <1>6, <1>7, <1>8, <1>9, <1>10 DEF new, gone
-----------------------------------------------------------------------------
\* Beginning an operation, whichever it is.
LEMMA BeginKeeps ==
  ASSUME PoolInv, Idle,
         NEW kind \in {"create", "delete", "rotate"}, NEW phase \in {"adding", "ready"},
         kind = "rotate" => phase = "adding",
         NEW new, WellFormed(new), Owned(new) \cap Own = {},
         NEW add \in SUBSET Owned(new), NEW gone \in SUBSET Owned(pools),
         Owned(pools) \subseteq Owned(new) \cup gone,
         kind = "create" => gone = {},
         gone \cap Used(new) \subseteq GivenTwice(pools) \cup GivenTwice(new) \cup (add \cap Used(pools)),
         Begin(kind, phase, new, add, gone),
         UNCHANGED <<pools, host, core, strays, crossed>>
  PROVE  PoolInv'
<1> USE DEF PoolInv
<1>1. Owned(pools) \subseteq Addrs /\ Owned(new) \subseteq Addrs /\ Used(pools) \subseteq Addrs
  BY OwnedAddrs DEF TypesInv
<1>2. DEFINE shared == GivenTwice(pools) \cup GivenTwice(new) \cup (add \cap Used(pools))
<1>3. shared \in SUBSET Addrs
  BY <1>1 DEF GivenTwice
<1>4. op' = [kind |-> kind, phase |-> phase, new |-> new, add |-> add, added |-> {},
             gone |-> gone, swaps |-> FALSE, shared |-> shared]
  BY DEF Begin, NoOp
<1> HIDE DEF shared
<1>5. TypesInv'
  BY <1>1, <1>3, <1>4 DEF TypesInv, OpRecord, Phases, Early, WellFormed, Owned
<1>6. Planned'
  <2>1. op'.add \cup op'.added = add /\ op'.new = new /\ op'.gone = gone /\ op'.shared = shared /\ op'.kind = kind
    BY <1>4
  <2>2. gone \cap Used(new) \subseteq shared /\ add \cap Used(pools) \subseteq shared
    BY DEF shared
  <2> QED
    BY <2>1, <2>2 DEF Planned, Owned, Used, WellFormed
<1>7. Leaving'
  BY <1>4 DEF Leaving
<1>8. HostKnown'
  BY <1>4 DEF HostKnown, Idle, NoOp, Owned
<1>9. CoreKnown'
  BY <1>4 DEF CoreKnown, Idle, NoOp, Config
<1> QED
  BY <1>5, <1>6, <1>7, <1>8, <1>9

LEMMA CreateRelayKeeps == ASSUME PoolInv, NEW p \in Pools, CreateRelay(p) PROVE PoolInv'
<1>1. PICK items \in FreshItems(p) :
        Begin("create", "adding", [pools EXCEPT ![p] = items], OursOf(items), {})
  BY DEF CreateRelay
<1> DEFINE new == [pools EXCEPT ![p] = items]
<1>2. /\ WellFormed(new) /\ Owned(new) \cap Own = {}
      /\ OursOf(items) \in SUBSET Owned(new) /\ Owned(pools) \subseteq Owned(new)
  BY CreateRows DEF CreateRelay, PoolInv
<1>3. Idle /\ UNCHANGED <<pools, host, core, strays, crossed>>
  BY DEF CreateRelay
<1> QED
  BY <1>1, <1>2, <1>3, BeginKeeps

LEMMA RotateRelayKeeps == ASSUME PoolInv, NEW p \in Pools, RotateRelay(p) PROVE PoolInv'
<1>1. PICK chosen \in {DOMAIN pools[p]} \cup {{i} : i \in DOMAIN pools[p]} :
        \E items \in RotatedItems(pools[p], chosen) :
          Begin("rotate", "adding", [pools EXCEPT ![p] = items],
                {items[i].ip : i \in chosen}, GivenUp(pools[p], chosen))
  BY DEF RotateRelay
<1>2. PICK items \in RotatedItems(pools[p], chosen) :
          Begin("rotate", "adding", [pools EXCEPT ![p] = items],
                {items[i].ip : i \in chosen}, GivenUp(pools[p], chosen))
  BY <1>1
<1>3. chosen \in SUBSET DOMAIN pools[p]
  OBVIOUS
<1> DEFINE new  == [pools EXCEPT ![p] = items]
           add  == {items[i].ip : i \in chosen}
           gone == GivenUp(pools[p], chosen)
<1>4. /\ WellFormed(new) /\ Owned(new) \cap Own = {}
      /\ add \in SUBSET Owned(new) /\ gone \in SUBSET Owned(pools)
      /\ Owned(pools) \subseteq Owned(new) \cup gone
      /\ gone \cap Used(new) \subseteq GivenTwice(pools) \cup GivenTwice(new) \cup (add \cap Used(pools))
  BY <1>3, RotateRows DEF RotateRelay, PoolInv
<1>5. Idle /\ UNCHANGED <<pools, host, core, strays, crossed>>
  BY DEF RotateRelay
<1>6. Begin("rotate", "adding", new, add, gone)
  BY <1>2
<1> HIDE DEF new, add, gone
<1> QED
  BY <1>4, <1>5, <1>6, BeginKeeps

LEMMA DeleteRelayKeeps == ASSUME PoolInv, NEW p \in Pools, DeleteRelay(p) PROVE PoolInv'
<1> DEFINE new == [pools EXCEPT ![p] = <<>>]
           gone == OursOf(pools[p])
<1>1. WellFormed(new)
  BY RowPut DEF PoolInv, TypesInv, RowsOf
<1>2. new[p] = <<>> /\ \A q \in Pools \ {p} : new[q] = pools[q]
  BY DEF PoolInv, TypesInv, WellFormed, PoolRows
<1> HIDE DEF new
<1>3. Owned(new) \subseteq Owned(pools)
  BY <1>2, OwnedIs
<1>4. gone \subseteq Owned(pools)
  BY DEF Owned
<1>5. Owned(pools) \subseteq Owned(new) \cup gone
  <2>1. ASSUME NEW a \in Owned(pools), a \notin gone PROVE a \in Owned(new)
    <3>1. PICK q \in Pools : \E i \in DOMAIN pools[q] : pools[q][i].ours /\ pools[q][i].ip = a
      BY OwnedIs
    <3>2. q # p
      BY <2>1, <3>1 DEF OursOf
    <3> QED
      BY <1>2, <3>1, <3>2, OwnedIs
  <2> QED
    BY <2>1
<1>6. gone \cap Used(new) \subseteq GivenTwice(pools)
  <2>1. ASSUME NEW a \in gone, a \in Used(new) PROVE a \in GivenTwice(pools)
    <3>1. PICK i \in DOMAIN pools[p] : pools[p][i].ip = a
      BY <2>1 DEF OursOf
    <3>2. PICK q \in Pools : \E j \in DOMAIN new[q] : new[q][j].ip = a
      BY <2>1, UsedIs
    <3>3. PICK j \in DOMAIN new[q] : new[q][j].ip = a
      BY <3>2
    <3>4. q # p
      BY <1>2, <3>3
    <3>5. j \in DOMAIN pools[q] /\ pools[q][j].ip = a
      BY <1>2, <3>3, <3>4
    <3>6. a \in Addrs
      BY <3>1, RowItems DEF PoolInv, TypesInv, Items
    <3> QED
      BY <3>1, <3>4, <3>5, <3>6 DEF GivenTwice
  <2> QED
    BY <2>1
<1>7. Idle /\ Begin("delete", "ready", new, {}, gone) /\ UNCHANGED <<pools, host, core, strays, crossed>>
  BY DEF DeleteRelay, new
<1>8. Owned(new) \cap Own = {}
  BY <1>3 DEF PoolInv, TypesInv
<1> HIDE DEF gone
<1>9. gone \in SUBSET Owned(pools) /\ {} \in SUBSET Owned(new)
  BY <1>4
<1> QED
  BY <1>1, <1>5, <1>6, <1>7, <1>8, <1>9, BeginKeeps

-----------------------------------------------------------------------------
\* Its steps.
LEMMA AddAddressKeeps == ASSUME PoolInv, NEW a \in Addrs, AddAddress(a) PROVE PoolInv'
<1> USE DEF PoolInv, AddAddress, Noted
<1>1. op \in OpRecord /\ op.phase = "adding" /\ a \in op.add
  BY DEF TypesInv
<1>2. /\ op' \in OpRecord /\ op'.phase = "adding" /\ op'.kind = op.kind /\ op'.new = op.new
      /\ op'.add \cup op'.added = op.add \cup op.added /\ op'.added = op.added \cup {a}
      /\ op'.gone = op.gone /\ op'.shared = op.shared
  BY <1>1 DEF OpRecord
<1>3. TypesInv'
  BY <1>2 DEF TypesInv, WellFormed, Owned
<1>4. Planned'
  BY <1>1, <1>2 DEF Planned, Early, WellFormed, Owned, Used
<1>5. Leaving' /\ HostKnown'
  BY <1>2 DEF Leaving, HostKnown, Owned
<1>6. CoreKnown'
  BY <1>1, <1>2 DEF CoreKnown, Config
<1> QED
  BY <1>3, <1>4, <1>5, <1>6

LEMMA AddressesReadyKeeps == ASSUME PoolInv, AddressesReady PROVE PoolInv'
<1> USE DEF PoolInv, AddressesReady
<1>1. op \in OpRecord /\ op.phase = "adding" /\ core.up \in BOOLEAN
  BY DEF TypesInv
<1>2. /\ op' \in OpRecord /\ op'.phase = "ready" /\ op'.kind = op.kind /\ op'.new = op.new
      /\ op'.add = op.add /\ op'.added = op.added
      /\ op'.swaps = (op.kind = "rotate" /\ core.up)
      /\ op'.gone = op.gone /\ op'.shared = op.shared
  BY <1>1 DEF OpRecord, Phases, Early
<1>3. TypesInv'
  BY <1>2 DEF TypesInv, WellFormed, Owned
<1>4. Planned'
  BY <1>1, <1>2 DEF Planned, Early, WellFormed, Owned, Used
<1>5. Leaving' /\ HostKnown'
  BY <1>2 DEF Leaving, HostKnown, Owned
<1>6. CoreKnown'
  BY <1>1, <1>2 DEF CoreKnown, Config
<1> QED
  BY <1>3, <1>4, <1>5, <1>6

LEMMA WriteAndStopKeeps == ASSUME PoolInv, WriteAndStop PROVE PoolInv'
<1> USE DEF PoolInv, WriteAndStop
<1>1. op \in OpRecord /\ op.phase = "ready" /\ core.up \in BOOLEAN /\ Swaps \in BOOLEAN
  BY DEF TypesInv, Swaps, OpRecord
<1>2. /\ op' \in OpRecord /\ op'.phase = (IF Swaps THEN "stopped" ELSE "started") /\ op'.kind = op.kind
      /\ op'.new = op.new /\ op'.add = op.add /\ op'.added = op.added /\ op'.swaps = Swaps
      /\ op'.gone = op.gone /\ op'.shared = op.shared
  BY <1>1 DEF OpRecord, Phases, Early
<1>3. NoCore \in [up : BOOLEAN, binds : [Pools -> Seq(Addrs)]] /\ ~NoCore.up
  BY DEF NoCore
<1>4. TypesInv'
  BY <1>2, <1>3 DEF TypesInv, WellFormed, Owned
<1>5. Planned'
  BY <1>1, <1>2 DEF Planned, Early, WellFormed, Owned, Used
<1>6. Leaving' /\ HostKnown'
  BY <1>2 DEF Leaving, HostKnown, Owned
<1>7. CoreKnown'
  BY <1>1, <1>2, <1>3 DEF CoreKnown, Config, Swaps
<1> QED
  BY <1>4, <1>5, <1>6, <1>7

LEMMA StartNewKeeps == ASSUME PoolInv, StartNew PROVE PoolInv'
<1> USE DEF PoolInv, StartNew
<1>1. op \in OpRecord /\ op.phase = "stopped" /\ op.swaps /\ WellFormed(op.new)
  BY DEF TypesInv, CoreKnown, Planned, Early
<1>2. /\ op' \in OpRecord /\ op'.phase = "started" /\ op'.kind = op.kind
      /\ op'.new = op.new /\ op'.add = op.add /\ op'.added = op.added /\ op'.swaps = op.swaps
      /\ op'.gone = op.gone /\ op'.shared = op.shared
  BY <1>1 DEF OpRecord, Phases, Early
<1>3. TypesInv'
  BY <1>1, <1>2, ConfigTyped DEF TypesInv, WellFormed, Owned
<1>4. Planned'
  BY <1>1, <1>2 DEF Planned, Early, WellFormed, Owned, Used
<1>5. Leaving' /\ HostKnown'
  BY <1>2 DEF Leaving, HostKnown, Owned
<1>6. CoreKnown'
  BY <1>1, <1>2 DEF CoreKnown, Config
<1> QED
  BY <1>3, <1>4, <1>5, <1>6

LEMMA CommitKeeps == ASSUME PoolInv, Commit PROVE PoolInv'
<1> USE DEF PoolInv, Commit
<1>1. op \in OpRecord /\ op.phase = "started"
  BY DEF TypesInv
<1>2. /\ WellFormed(op.new) /\ Owned(op.new) \cap Own = {}
      /\ op.add \cup op.added \subseteq Owned(op.new)
      /\ op.gone \subseteq Owned(pools)
      /\ Owned(pools) \subseteq Owned(op.new) \cup op.gone
      /\ op.kind = "create" => op.gone = {}
      /\ op.gone \cap Used(op.new) \subseteq op.shared
  BY <1>1 DEF Planned, Early
<1>3. /\ op' \in OpRecord /\ op'.phase = (IF op.kind = "create" THEN "boot" ELSE "removing")
      /\ op'.kind = op.kind /\ op'.added = {}
      /\ op'.gone = op.gone /\ op'.shared = op.shared
  BY <1>1 DEF OpRecord, Phases, Early
<1>4. Owned(pools)' = Owned(op.new) /\ Used(pools)' = Used(op.new) /\ WellFormed(pools)' = WellFormed(op.new)
  BY DEF Owned, Used, WellFormed
<1>5. TypesInv'
  BY <1>2, <1>3, <1>4 DEF TypesInv
<1>6. Planned'
  BY <1>3 DEF Planned, Early
<1>7. Leaving'
  BY <1>2, <1>3, <1>4 DEF Leaving, TypesInv
<1>8. HostKnown'
  BY <1>2, <1>3, <1>4 DEF HostKnown
<1>9. CoreKnown'
  BY <1>1, <1>3 DEF CoreKnown, Config
<1> QED
  BY <1>5, <1>6, <1>7, <1>8, <1>9

\* What the end of an operation, and a core that does not run, keep.
LEMMA NoOpFits ==
  ASSUME op' = NoOp
  PROVE  /\ op' \in OpRecord /\ op'.phase = "idle" /\ op'.added = {} /\ op'.gone = {}
         /\ Planned' /\ Leaving'
<1>1. op' \in OpRecord /\ op'.phase = "idle" /\ op'.added = {} /\ op'.gone = {}
  BY DEF NoOp, OpRecord, Phases
<1> QED
  BY <1>1 DEF Planned, Leaving, Early

LEMMA NoCoreFits == NoCore \in [up : BOOLEAN, binds : [Pools -> Seq(Addrs)]] /\ ~NoCore.up
BY DEF NoCore

LEMMA BootCoreKeeps == ASSUME PoolInv, BootCore PROVE PoolInv'
<1> USE DEF PoolInv, BootCore
<1>1. op' = NoOp /\ op \in OpRecord
  BY DEF TypesInv
<1>2. /\ WellFormed(pools)
      /\ \/ core' = core /\ crossed' = crossed
         \/ core' = Config(pools) /\ crossed' = FALSE
  BY DEF TypesInv
<1>3. TypesInv'
  <2>1. core' \in [up : BOOLEAN, binds : [Pools -> Seq(Addrs)]] /\ crossed' \in BOOLEAN
    BY <1>2, ConfigTyped DEF TypesInv
  <2>2. op' \in OpRecord
    BY <1>1, NoOpFits
  <2> QED
    BY <1>1, <2>1, <2>2 DEF TypesInv, WellFormed, Owned
<1>4. HostKnown'
  BY <1>1, NoOpFits DEF HostKnown, Owned, Leaving
<1>5. CoreKnown'
  BY <1>1, <1>2, NoOpFits DEF CoreKnown, Config
<1> QED
  BY <1>1, <1>3, <1>4, <1>5, NoOpFits

LEMMA RemoveAddressKeeps == ASSUME PoolInv, NEW a \in Addrs, RemoveAddress(a) PROVE PoolInv'
<1> USE DEF PoolInv, RemoveAddress
<1>1. op \in OpRecord /\ op.phase = "removing" /\ a \in op.gone /\ a \notin Own
  BY DEF TypesInv, Leaving
<1>2. /\ op' \in OpRecord /\ op'.phase = "removing" /\ op'.kind = op.kind
      /\ op'.added = op.added
      /\ op'.gone = op.gone \ {a} /\ op'.shared = op.shared
  BY <1>1 DEF OpRecord
<1>3. TypesInv'
  BY <1>1, <1>2 DEF TypesInv, WellFormed, Owned
<1>4. Planned' /\ Leaving'
  BY <1>1, <1>2 DEF Planned, Leaving, Early, Used
<1>5. HostKnown'
  BY <1>1, <1>2 DEF HostKnown, Owned
<1>6. CoreKnown'
  BY <1>1, <1>2 DEF CoreKnown, Config
<1> QED
  BY <1>3, <1>4, <1>5, <1>6

LEMMA FinishKeeps == ASSUME PoolInv, Finish PROVE PoolInv'
<1> USE DEF PoolInv, Finish
<1>1. op' = NoOp /\ op \in OpRecord
  BY DEF TypesInv
<1>2. TypesInv'
  BY <1>1, NoOpFits DEF TypesInv, WellFormed, Owned
<1>3. HostKnown'
  BY <1>1, NoOpFits DEF HostKnown, Owned, Leaving
<1>4. CoreKnown'
  BY <1>1, NoOpFits DEF CoreKnown, Config
<1> QED
  BY <1>1, <1>2, <1>3, <1>4, NoOpFits

LEMMA OpFailsKeeps == ASSUME PoolInv, OpFails PROVE PoolInv'
<1> USE DEF PoolInv, OpFails
<1>1. op' = NoOp /\ op \in OpRecord /\ op.phase \in Early
  BY DEF TypesInv, Early
<1>2. PICK left \in SUBSET (op.added \cap host) :
        host' = host \ (op.added \ left) /\ strays' = strays \cup left
  OBVIOUS
<1>3. op.added \subseteq Addrs /\ op.added \cap Own = {} /\ op.gone \subseteq Owned(pools)
  BY <1>1, OwnedAddrs DEF Planned
<1>4. WellFormed(pools)
  BY DEF TypesInv
<1>5. TypesInv'
  <2>1. core' \in [up : BOOLEAN, binds : [Pools -> Seq(Addrs)]] /\ crossed' \in BOOLEAN
    BY <1>4, ConfigTyped, NoCoreFits DEF Restored, TypesInv
  <2> QED
    BY <1>1, <1>2, <1>3, <2>1, NoOpFits DEF TypesInv, WellFormed, Owned
<1>6. HostKnown'
  BY <1>1, <1>2, <1>3, NoOpFits DEF HostKnown, Owned
<1>7. CoreKnown'
  BY <1>1, NoOpFits, NoCoreFits DEF CoreKnown, Config, Restored, Early
<1> QED
  BY <1>1, <1>5, <1>6, <1>7, NoOpFits

-----------------------------------------------------------------------------
\* The minute's job, the network, the process and the host.
LEMMA EnsureAddressesKeeps == ASSUME PoolInv, EnsureAddresses PROVE PoolInv'
<1> USE DEF PoolInv, EnsureAddresses
<1>1. PICK back \in SUBSET Missing : host' = host \cup back /\ strays' = strays \ back
  OBVIOUS
<1>2. back \subseteq Owned(pools) /\ Owned(pools) \subseteq Addrs
  BY OwnedAddrs DEF Missing, TypesInv
<1>3. TypesInv'
  BY <1>1, <1>2 DEF TypesInv, WellFormed, Owned
<1>4. Planned' /\ Leaving'
  BY DEF Planned, Leaving, Early, Used, Owned, WellFormed
<1>5. HostKnown'
  BY <1>1, <1>2 DEF HostKnown, Owned
<1>6. CoreKnown'
  BY DEF CoreKnown, Config
<1> QED
  BY <1>3, <1>4, <1>5, <1>6

LEMMA NetworkRestartKeeps == ASSUME PoolInv, NetworkRestart PROVE PoolInv'
<1> USE DEF PoolInv, NetworkRestart
<1>1. TypesInv'
  BY DEF TypesInv, WellFormed, Owned
<1>2. Planned' /\ Leaving'
  BY DEF Planned, Leaving, Early, Used, Owned, WellFormed
<1>3. HostKnown'
  BY DEF HostKnown, Owned
<1>4. CoreKnown'
  BY DEF CoreKnown, Config
<1> QED
  BY <1>1, <1>2, <1>3, <1>4

LEMMA EndsKeeps == ASSUME PoolInv, Crash \/ Reboot PROVE PoolInv'
<1> USE DEF PoolInv, Crash, Reboot
<1>1. op' = NoOp /\ core' = NoCore /\ crossed' = FALSE /\ pools' = pools
  OBVIOUS
<1>2. host' \subseteq host /\ Own \subseteq host' /\ strays' \subseteq Addrs
  BY DEF TypesInv
<1>3. WellFormed(pools)' /\ (Owned(pools) \cap Own)' = {}
  BY <1>1 DEF TypesInv, WellFormed, Owned
<1>4. TypesInv'
  BY <1>1, <1>2, <1>3, NoOpFits, NoCoreFits DEF TypesInv
<1>5. HostKnown'
  BY <1>1, NoOpFits DEF HostKnown, Owned
<1>6. CoreKnown'
  BY <1>1, NoOpFits, NoCoreFits DEF CoreKnown
<1> QED
  BY <1>1, <1>4, <1>5, <1>6, NoOpFits

LEMMA StartCoreKeeps == ASSUME PoolInv, StartCore PROVE PoolInv'
<1> USE DEF PoolInv, StartCore
<1>1. op \in OpRecord /\ WellFormed(pools)
  BY DEF TypesInv
<1>2. TypesInv'
  BY <1>1, ConfigTyped DEF TypesInv, WellFormed, Owned
<1>3. Planned' /\ Leaving'
  BY DEF Planned, Leaving, Early, Used, Owned, WellFormed
<1>4. HostKnown'
  BY DEF HostKnown, Owned
<1>5. CoreKnown'
  BY <1>1 DEF CoreKnown, Config
<1> QED
  BY <1>2, <1>3, <1>4, <1>5

LEMMA StopCoreKeeps == ASSUME PoolInv, StopCore PROVE PoolInv'
<1> USE DEF PoolInv, StopCore
<1>1. TypesInv'
  BY NoCoreFits DEF TypesInv, WellFormed, Owned
<1>2. Planned' /\ Leaving'
  BY DEF Planned, Leaving, Early, Used, Owned, WellFormed
<1>3. HostKnown'
  BY DEF HostKnown, Owned
<1>4. CoreKnown'
  BY NoCoreFits DEF CoreKnown
<1> QED
  BY <1>1, <1>2, <1>3, <1>4

-----------------------------------------------------------------------------
LEMMA StepKeeps == ASSUME PoolInv, [RelayNext]_relayvars PROVE PoolInv'
<1>1. CASE UNCHANGED relayvars
  BY <1>1 DEF relayvars, PoolInv, TypesInv, Planned, Leaving, HostKnown, CoreKnown,
              WellFormed, Owned, Used, Config
<1>2. CASE RelayStep
  BY <1>2, AddressesReadyKeeps, WriteAndStopKeeps, StartNewKeeps, CommitKeeps, BootCoreKeeps,
     FinishKeeps, OpFailsKeeps, AddAddressKeeps, RemoveAddressKeeps DEF RelayStep
<1>3. CASE EnsureAddresses \/ NetworkRestart \/ Crash \/ Reboot \/ StartCore \/ StopCore
  BY <1>3, EnsureAddressesKeeps, NetworkRestartKeeps, EndsKeeps, StartCoreKeeps, StopCoreKeeps
<1>4. CASE \E p \in Pools : CreateRelay(p) \/ RotateRelay(p) \/ DeleteRelay(p)
  BY <1>4, CreateRelayKeeps, RotateRelayKeeps, DeleteRelayKeeps
<1> QED
  BY <1>1, <1>2, <1>3, <1>4 DEF RelayNext

LEMMA InitFits == ASSUME RelayInit PROVE PoolInv
<1> USE DEF RelayInit
<1>1. WellFormed(pools) /\ Owned(pools) = {}
  BY OwnedIs DEF WellFormed, PoolRows, RowsOf
<1>2. op \in OpRecord /\ op.phase = "idle"
  BY DEF NoOp, OpRecord, Phases
<1>3. TypesInv
  BY <1>1, <1>2, ConfigTyped DEF TypesInv
<1>4. Planned /\ Leaving /\ HostKnown /\ CoreKnown
  BY <1>2 DEF Planned, Leaving, HostKnown, CoreKnown, Early
<1> QED
  BY <1>3, <1>4 DEF PoolInv

LEMMA PoolInvHolds == RelaySpec => []PoolInv
BY InitFits, StepKeeps, PTL DEF RelaySpec

(* Type correctness of the relay pools: every row has no item or all of    *)
(* them, and an address of the provider's is nobody's to remove.           *)
THEOREM RelayTypeCorrect == RelaySpec => []RelayTypeOK
<1>1. PoolInv => RelayTypeOK
  <2> SUFFICES ASSUME PoolInv PROVE RelayTypeOK
    OBVIOUS
  <2>1. TypesInv /\ WellFormed(pools) /\ op \in OpRecord
    BY DEF PoolInv, TypesInv
  <2>2. ASSUME NEW p \in Pools PROVE pools[p] \in Seq(Items) /\ Len(pools[p]) \in {0, Size[p]}
    <3>1. CASE pools[p] = <<>>
      BY <3>1
    <3>2. CASE pools[p] \in [1 .. Size[p] -> Items]
      <4>1. Size[p] \in Nat /\ DOMAIN pools[p] = 1 .. Size[p]
        BY <3>2
      <4>2. pools[p] \in Seq(Items)
        BY <3>2, <4>1
      <4> QED
        BY <4>1, <4>2, LenProperties
    <3> QED
      BY <2>1, <3>1, <3>2 DEF WellFormed, RowsOf
  <2>3. /\ op.kind \in {"none", "create", "delete", "rotate"}
        /\ op.phase \in {"idle", "adding", "ready", "stopped", "started", "boot", "removing"}
        /\ op.add \subseteq Addrs /\ op.added \subseteq host \cup Addrs
        /\ op.gone \subseteq Addrs
        /\ op.swaps \in BOOLEAN /\ op.shared \subseteq Addrs
    BY <2>1 DEF OpRecord, Phases, Early
  <2> QED
    BY <2>1, <2>2, <2>3 DEF RelayTypeOK, TypesInv
<1> QED
  BY <1>1, PoolInvHolds, PTL

(* Between operations nothing is on the interface that no pool knows of:   *)
(* the deferred functions of a failed create or rotation take away what    *)
(* they can and leave the rest to what strays counts (relay.go:1020, 1421, *)
(* 1560).                                                                  *)
THEOREM NoAddressStrays == RelaySpec => []NoStrayAddress
<1>1. PoolInv => NoStrayAddress
  BY DEF PoolInv, HostKnown, NoStrayAddress, Idle, NoOp
<1> QED
  BY <1>1, PoolInvHolds, PTL

(* Between operations a running core binds what the rows say, after any    *)
(* failure at any step (relay.go:1049, 1234, 1655, 2710).                  *)
THEOREM CoreBinds == RelaySpec => []CoreBindsTheRows
<1>1. PoolInv => CoreBindsTheRows
  BY DEF PoolInv, CoreKnown, CoreBindsTheRows, Idle, NoOp
<1> QED
  BY <1>1, PoolInvHolds, PTL

(* No step of an operation takes from the interface an address that a pool *)
(* uses in its committed rows, unless items were given the same one: only  *)
(* deleteRelayAddress after the commit and the cleanup of a failure remove *)
(* any, the first what the new rows gave up, the second what the old rows  *)
(* never had (relay.go:1529, 1560).                                        *)
THEOREM UsedStay == RelaySpec => UsedAddressesStay
<1> DEFINE Stays == NetworkRestart \/ Reboot \/ (host \ host') \cap Used(pools') \subseteq op.shared
<1>1. ASSUME PoolInv, [RelayNext]_relayvars PROVE [Stays]_relayvars
  <2>1. CASE UNCHANGED relayvars
    BY <2>1
  <2>2. CASE host' = host
    BY <2>2
  <2>3. CASE \E a \in Addrs : RemoveAddress(a)
    <3>1. PICK a \in Addrs : RemoveAddress(a)
      BY <2>3
    <3>2. op.gone \cap Used(pools) \subseteq op.shared /\ Used(pools') = Used(pools)
      BY <1>1, <3>1 DEF PoolInv, Leaving, RemoveAddress, Used
    <3>3. host \ host' \subseteq op.gone
      BY <3>1 DEF RemoveAddress
    <3> QED
      BY <3>2, <3>3
  <2>4. CASE OpFails
    <3>1. op.added \cap Used(pools) \subseteq op.shared /\ Used(pools') = Used(pools)
      BY <1>1, <2>4 DEF PoolInv, Planned, Early, OpFails, Used
    <3>2. host \ host' \subseteq op.added
      BY <2>4 DEF OpFails
    <3> QED
      BY <3>1, <3>2
  <2>5. CASE EnsureAddresses \/ \E a \in Addrs : AddAddress(a)
    BY <2>5 DEF EnsureAddresses, AddAddress
  <2>6. CASE NetworkRestart \/ Reboot
    BY <2>6
  <2> QED
    BY <1>1, <2>1, <2>2, <2>3, <2>4, <2>5, <2>6
       DEF RelayNext, RelayStep, AddressesReady, WriteAndStop, StartNew, Commit, BootCore, Finish,
           Crash, StartCore, StopCore, CreateRelay, RotateRelay, DeleteRelay
<1> QED
  BY <1>1, PoolInvHolds, PTL DEF RelaySpec, UsedAddressesStay

-----------------------------------------------------------------------------
HIDE PoolAssumption

(***************************************************************************)
(* Enrolment.                                                              *)
(***************************************************************************)

NodeRow == [token : Creds, code : Creds, open : BOOLEAN, seen : BOOLEAN,
            by : Creds, late : BOOLEAN]

\* A report of n with token t, once it is being handled: t is the token of the row,
\* or was replaced meanwhile, or the row is gone for good.
Current(n, t) ==
  n \in born /\ (nodes[n].token = t \/ nodes[n].late \/ nodes[n].token = 0)

\* Ids are not given out twice, so that a row that is not born is absent.
BornFirst == \A n \in Nodes \ born : nodes[n] = Absent

\* A call that has found its row has a code, and the token it was told is that of a
\* row that no code opens any more.
LinkInv(c) ==
  /\ link[c].at = "found" => link[c].node \in born /\ link[c].cred # 0
  /\ link[c].at = "probing" => Current(link[c].node, link[c].token)
  /\ link[c].token # 0 =>
       /\ link[c].node \in born
       /\ link[c].undone \/ (/\ nodes[link[c].node].token = link[c].token
                             /\ nodes[link[c].node].code = 0)

BeatInv(m) == beat[m] = Quiet \/ Current(beat[m].node, beat[m].token)

EnrolInv ==
  /\ EnrolTypeOK /\ BornFirst
  /\ \A c \in Connects : LinkInv(c)
  /\ \A m \in Machines : BeatInv(m)
  /\ SeenWithItsToken /\ AgentRunsItsFile

LinkRow == [at : {"idle", "asked", "found", "valid", "told", "probing", "proven", "saved"},
            machine : Machines, cred : Creds, node : Nodes \cup {0},
            token : Creds, undone : BOOLEAN]

-----------------------------------------------------------------------------
USE EnrolAssumption DEF Creds, Absent, Quiet

\* The rows that are written have the type of a row,
LEMMA ExceptTyped ==
  ASSUME NEW r \in NodeRow, NEW t \in Creds, NEW c \in Creds
  PROVE  [r EXCEPT !.token = t, !.code = c, !.open = c # 0] \in NodeRow
BY DEF NodeRow

LEMMA RowsTyped ==
  ASSUME EnrolTypeOK, NEW n \in Nodes, NEW t \in Creds, NEW c \in Creds
  PROVE  /\ Fresh(t, c) \in NodeRow
         /\ WithToken(n, t, c) \in NodeRow
         /\ [nodes[n] EXCEPT !.open = FALSE] \in NodeRow
         /\ [nodes[n] EXCEPT !.seen = TRUE, !.by = t] \in NodeRow
<1>1. nodes[n] \in NodeRow
  BY DEF EnrolTypeOK, NodeRow
<1>2. Fresh(t, c) \in NodeRow
  <2>1. Absent \in NodeRow
    BY DEF NodeRow
  <2> HIDE DEF Absent
  <2> QED
    BY <2>1, ExceptTyped DEF Fresh
<1>3. WithToken(n, t, c) \in NodeRow
  <2>1. Reporting(n) \in BOOLEAN
    BY DEF Reporting
  <2> QED
    BY <1>1, <2>1 DEF WithToken, NodeRow
<1>4. [nodes[n] EXCEPT !.open = FALSE] \in NodeRow
  BY <1>1 DEF NodeRow
<1>5. [nodes[n] EXCEPT !.seen = TRUE, !.by = t] \in NodeRow
  BY <1>1 DEF NodeRow
<1> QED
  BY <1>2, <1>3, <1>4, <1>5

LEMMA NodesTyped ==
  ASSUME EnrolTypeOK, NEW n \in Nodes, NEW r \in NodeRow, nodes' = [nodes EXCEPT ![n] = r]
  PROVE  nodes' \in [Nodes -> NodeRow]
BY DEF EnrolTypeOK, NodeRow

\* and so have the states of calls.
LEMMA LinkTyped ==
  ASSUME EnrolTypeOK, NEW c \in Connects, NEW r \in LinkRow, link' = [link EXCEPT ![c] = r]
  PROVE  link' \in [Connects -> LinkRow]
BY DEF EnrolTypeOK, LinkRow

LEMMA ToldTyped ==
  ASSUME EnrolTypeOK, NEW c \in Connects, NEW n \in Nodes, NEW t \in Creds
  PROVE  /\ [link[c] EXCEPT !.at = "found", !.node = n] \in LinkRow
         /\ [link[c] EXCEPT !.at = "told", !.node = n, !.token = t] \in LinkRow
<1>1. link[c] \in LinkRow
  BY DEF EnrolTypeOK, LinkRow
<1> QED
  BY <1>1 DEF LinkRow

LEMMA GotoTyped ==
  ASSUME EnrolTypeOK, NEW c \in Connects, NEW a \in {"valid", "probing", "proven", "saved"},
         Goto(c, a)
  PROVE  link' \in [Connects -> LinkRow]
<1>1. link[c] \in LinkRow
  BY DEF EnrolTypeOK, LinkRow
<1>2. [link[c] EXCEPT !.at = a] \in LinkRow
  BY <1>1 DEF LinkRow
<1>3. link' = [link EXCEPT ![c] = [link[c] EXCEPT !.at = a]]
  BY DEF Goto
<1> QED
  BY <1>2, <1>3, LinkTyped

\* A step that moves a call on and writes nothing else.
LEMMA GoneOnTyped ==
  ASSUME EnrolTypeOK, NEW c \in Connects, NEW a \in {"valid", "probing", "proven", "saved"},
         Goto(c, a),
         nodes' \in [Nodes -> NodeRow], file' \in [Machines -> Creds],
         UNCHANGED <<born, key, drawn, beat, service, broken>>
  PROVE  EnrolTypeOK'
<1>1. link' \in [Connects -> LinkRow]
  BY GotoTyped
<1> QED
  BY <1>1 DEF EnrolTypeOK, NodeRow, LinkRow

LEMMA AskedTyped ==
  ASSUME NEW m \in Machines, NEW e \in Creds
  PROVE  [NoLink EXCEPT !.at = "asked", !.machine = m, !.cred = e] \in LinkRow
<1>1. NoLink \in LinkRow
  BY DEF NoLink, LinkRow
<1> QED
  BY <1>1 DEF LinkRow

LEMMA UndoneTyped ==
  ASSUME EnrolTypeOK, NEW n \in Nodes
  PROVE Undone(n) \in [Connects -> LinkRow]
<1>1. ASSUME NEW c \in Connects PROVE Undone(n)[c] \in LinkRow
  <2>1. link[c] \in LinkRow
    BY DEF EnrolTypeOK, LinkRow
  <2>2. [link[c] EXCEPT !.undone = TRUE] \in LinkRow
    BY <2>1 DEF LinkRow
  <2> QED
    BY <2>1, <2>2 DEF Undone
<1> QED
  BY <1>1 DEF Undone

\* A report is written.
LEMMA ReportedKeeps ==
  ASSUME EnrolInv, NEW n \in Nodes, NEW t \in Creds, Current(n, t), Reported(n, t),
         born' = born
  PROVE  nodes' \in [Nodes -> NodeRow] /\ BornFirst' /\ SeenWithItsToken'
<1>1. nodes' \in [Nodes -> NodeRow]
  <2>1. nodes' = [nodes EXCEPT ![n] =
                 IF Enrolled(n) THEN [nodes[n] EXCEPT !.seen = TRUE, !.by = t] ELSE nodes[n]]
    BY DEF Reported
  <2>2. nodes[n] \in NodeRow /\ [nodes[n] EXCEPT !.seen = TRUE, !.by = t] \in NodeRow
    BY RowsTyped DEF EnrolInv, EnrolTypeOK, NodeRow
  <2> QED
    BY <2>1, <2>2, NodesTyped DEF EnrolInv
<1>2. BornFirst'
  BY DEF Current, Reported, EnrolInv, EnrolTypeOK, BornFirst
<1>3. SeenWithItsToken'
  <2>1. ASSUME NEW k \in Nodes \ {n} PROVE nodes'[k] = nodes[k]
    BY DEF Reported, EnrolInv, EnrolTypeOK
  <2>2. CASE Enrolled(n)
    <3>1. nodes'[n] = [nodes[n] EXCEPT !.seen = TRUE, !.by = t]
      BY <2>2 DEF Reported, EnrolInv, EnrolTypeOK
    <3>2. nodes[n] \in NodeRow
      BY DEF EnrolInv, EnrolTypeOK, NodeRow
    <3>3. nodes'[n].by = t /\ nodes'[n].token = nodes[n].token /\ nodes'[n].late = nodes[n].late
      BY <3>1, <3>2 DEF NodeRow
    <3>4. nodes'[n].by = nodes'[n].token \/ nodes'[n].late
      BY <2>2, <3>3 DEF Current, Enrolled
    <3> QED
      BY <2>1, <3>4 DEF SeenWithItsToken, EnrolInv
  <2>3. CASE ~Enrolled(n)
    <3>1. nodes' = nodes
      BY <2>3 DEF Reported, EnrolInv, EnrolTypeOK
    <3> QED
      BY <3>1 DEF SeenWithItsToken, EnrolInv
  <2> QED
    BY <2>2, <2>3
<1> QED
  BY <1>1, <1>2, <1>3

-----------------------------------------------------------------------------
\* The steps of the user at the controller,
LEMMA CreateTyped == ASSUME EnrolInv, NEW n \in Nodes, Create(n) PROVE EnrolTypeOK'
<1>1. nodes' \in [Nodes -> NodeRow]
  <2>1. drawn + 1 \in Creds /\ drawn + 2 \in Creds
    BY DEF Create, Draw, EnrolInv, EnrolTypeOK
  <2>2. Fresh(drawn + 1, drawn + 2) \in NodeRow
    BY <2>1, RowsTyped DEF EnrolInv
  <2> QED
    BY <2>2, NodesTyped DEF Create, EnrolInv
<1> QED
  BY <1>1 DEF Create, Draw, EnrolInv, EnrolTypeOK, NodeRow

LEMMA CreateKeeps == ASSUME EnrolInv, NEW n \in Nodes, Create(n) PROVE EnrolInv'
<1> USE DEF Create, Draw, Fresh
<1>1. EnrolTypeOK'
  BY CreateTyped
<1>2. BornFirst'
  BY DEF EnrolInv, EnrolTypeOK, BornFirst
<1>3. ASSUME NEW d \in Connects PROVE LinkInv(d)'
  BY DEF EnrolInv, EnrolTypeOK, BornFirst, LinkInv, Current
<1>4. ASSUME NEW k \in Machines PROVE BeatInv(k)'
  BY DEF EnrolInv, EnrolTypeOK, BornFirst, BeatInv, Current
<1>5. SeenWithItsToken'
  BY DEF EnrolInv, EnrolTypeOK, BornFirst, SeenWithItsToken
<1>6. AgentRunsItsFile'
  BY DEF EnrolInv, EnrolTypeOK, AgentRunsItsFile
<1> QED
  BY <1>1, <1>2, <1>3, <1>4, <1>5, <1>6 DEF EnrolInv

LEMMA RotateTyped ==
  ASSUME EnrolInv, NEW n \in Nodes, Rotate(n)
  PROVE EnrolTypeOK' /\ BornFirst'
<1>1. nodes' \in [Nodes -> NodeRow]
  <2>1. drawn + 1 \in Creds /\ drawn + 2 \in Creds
    BY DEF Rotate, Draw, EnrolInv, EnrolTypeOK
  <2>2. WithToken(n, drawn + 1, drawn + 2) \in NodeRow
    BY <2>1, RowsTyped DEF EnrolInv
  <2> QED
    BY <2>2, NodesTyped DEF Rotate, EnrolInv
<1>2. link' \in [Connects -> LinkRow]
  BY UndoneTyped DEF Rotate, EnrolInv
<1>3. EnrolTypeOK'
  BY <1>1, <1>2 DEF Rotate, Draw, EnrolInv, EnrolTypeOK, NodeRow, LinkRow
<1>4. n \in born
  BY DEF EnrolInv, BornFirst, Rotate, Enrolled
<1>5. BornFirst'
  BY <1>4 DEF Rotate, EnrolInv, EnrolTypeOK, BornFirst
<1> QED
  BY <1>3, <1>5

LEMMA RotateKeeps == ASSUME EnrolInv, NEW n \in Nodes, Rotate(n) PROVE EnrolInv'
<1> USE DEF Rotate, Draw, WithToken, Undone, Enrolled, Reporting
<1>1. EnrolTypeOK'
  BY RotateTyped
<1>2. BornFirst'
  BY RotateTyped
<1>3. ASSUME NEW d \in Connects PROVE LinkInv(d)'
  BY DEF EnrolInv, EnrolTypeOK, BornFirst, LinkInv, Current
<1>4. ASSUME NEW k \in Machines PROVE BeatInv(k)'
  BY DEF EnrolInv, EnrolTypeOK, BornFirst, BeatInv, Current
<1>5. SeenWithItsToken'
  BY DEF EnrolInv, EnrolTypeOK, BornFirst, SeenWithItsToken
<1>6. AgentRunsItsFile'
  BY DEF EnrolInv, EnrolTypeOK, AgentRunsItsFile
<1> QED
  BY <1>1, <1>2, <1>3, <1>4, <1>5, <1>6 DEF EnrolInv

LEMMA DeleteTyped == ASSUME EnrolInv, NEW n \in Nodes, Delete(n) PROVE EnrolTypeOK'
<1>1. nodes' \in [Nodes -> NodeRow]
  <2>1. Absent \in NodeRow
    BY DEF NodeRow
  <2> QED
    BY <2>1, NodesTyped DEF Delete, EnrolInv
<1>2. link' \in [Connects -> LinkRow]
  BY UndoneTyped DEF Delete, EnrolInv
<1> QED
  BY <1>1, <1>2 DEF Delete, EnrolInv, EnrolTypeOK, NodeRow, LinkRow

LEMMA DeleteKeeps == ASSUME EnrolInv, NEW n \in Nodes, Delete(n) PROVE EnrolInv'
<1> USE DEF Delete, Enrolled, Undone
<1>1. EnrolTypeOK'
  BY DeleteTyped
<1>2. BornFirst'
  BY DEF EnrolInv, EnrolTypeOK, BornFirst
<1>3. ASSUME NEW d \in Connects PROVE LinkInv(d)'
  BY DEF EnrolInv, EnrolTypeOK, BornFirst, LinkInv, Current
<1>4. ASSUME NEW k \in Machines PROVE BeatInv(k)'
  BY DEF EnrolInv, EnrolTypeOK, BornFirst, BeatInv, Current
<1>5. SeenWithItsToken'
  BY DEF EnrolInv, EnrolTypeOK, BornFirst, SeenWithItsToken
<1>6. AgentRunsItsFile'
  BY DEF EnrolInv, EnrolTypeOK, AgentRunsItsFile
<1> QED
  BY <1>1, <1>2, <1>3, <1>4, <1>5, <1>6 DEF EnrolInv

LEMMA ExpireTyped ==
  ASSUME EnrolInv, NEW n \in Nodes, Expire(n)
  PROVE EnrolTypeOK' /\ BornFirst'
<1>1. nodes' \in [Nodes -> NodeRow]
  <2>1. nodes' = [nodes EXCEPT ![n] = [nodes[n] EXCEPT !.open = FALSE]]
    BY DEF Expire
  <2>2. [nodes[n] EXCEPT !.open = FALSE] \in NodeRow
    BY RowsTyped DEF EnrolInv, EnrolTypeOK
  <2> QED
    BY <2>1, <2>2, NodesTyped DEF EnrolInv
<1>2. EnrolTypeOK'
  BY <1>1 DEF Expire, EnrolInv, EnrolTypeOK, NodeRow
<1>3. n \in born
  BY DEF EnrolInv, BornFirst, Expire
<1>4. BornFirst'
  BY <1>3 DEF Expire, EnrolInv, EnrolTypeOK, BornFirst
<1> QED
  BY <1>2, <1>4

LEMMA ExpireKeeps == ASSUME EnrolInv, NEW n \in Nodes, Expire(n) PROVE EnrolInv'
<1> USE DEF Expire
<1>1. EnrolTypeOK'
  BY ExpireTyped
<1>2. BornFirst'
  BY ExpireTyped
<1>3. ASSUME NEW d \in Connects PROVE LinkInv(d)'
  BY DEF EnrolInv, EnrolTypeOK, BornFirst, LinkInv, Current
<1>4. ASSUME NEW k \in Machines PROVE BeatInv(k)'
  BY DEF EnrolInv, EnrolTypeOK, BornFirst, BeatInv, Current
<1>5. SeenWithItsToken'
  BY DEF EnrolInv, EnrolTypeOK, BornFirst, SeenWithItsToken
<1>6. AgentRunsItsFile'
  BY DEF EnrolInv, EnrolTypeOK, AgentRunsItsFile
<1> QED
  BY <1>1, <1>2, <1>3, <1>4, <1>5, <1>6 DEF EnrolInv

LEMMA RotateAgentEnrollmentKeyKeeps ==
  ASSUME EnrolInv, RotateAgentEnrollmentKey
  PROVE EnrolInv'
<1> USE DEF RotateAgentEnrollmentKey, Draw
<1>1. EnrolTypeOK'
  BY DEF EnrolInv, EnrolTypeOK
<1>2. BornFirst'
  BY DEF EnrolInv, EnrolTypeOK, BornFirst
<1>3. ASSUME NEW d \in Connects PROVE LinkInv(d)'
  BY DEF EnrolInv, EnrolTypeOK, BornFirst, LinkInv, Current
<1>4. ASSUME NEW k \in Machines PROVE BeatInv(k)'
  BY DEF EnrolInv, EnrolTypeOK, BornFirst, BeatInv, Current
<1>5. SeenWithItsToken'
  BY DEF EnrolInv, EnrolTypeOK, BornFirst, SeenWithItsToken
<1>6. AgentRunsItsFile'
  BY DEF EnrolInv, EnrolTypeOK, AgentRunsItsFile
<1> QED
  BY <1>1, <1>2, <1>3, <1>4, <1>5, <1>6 DEF EnrolInv

\* of a call that connects a server,
LEMMA ConnectTyped ==
  ASSUME EnrolInv, NEW c \in Connects, NEW m \in Machines, NEW e \in 1 .. drawn, Connect(c, m, e)
  PROVE EnrolTypeOK'
<1>1. link' \in [Connects -> LinkRow]
  <2>1. [NoLink EXCEPT !.at = "asked", !.machine = m, !.cred = e] \in LinkRow
    <3>1. e \in Creds
      BY DEF EnrolInv, EnrolTypeOK
    <3> QED
      BY <3>1, AskedTyped
  <2> QED
    BY <2>1, LinkTyped DEF EnrolInv, Connect
<1> QED
  BY <1>1 DEF Connect, EnrolInv, EnrolTypeOK, LinkRow

LEMMA ConnectKeeps ==
  ASSUME EnrolInv, NEW c \in Connects, NEW m \in Machines, NEW e \in 1 .. drawn, Connect(c, m, e)
  PROVE EnrolInv'
<1> USE DEF Connect, NoLink
<1>1. EnrolTypeOK'
  BY ConnectTyped
<1>2. BornFirst'
  BY DEF EnrolInv, EnrolTypeOK, BornFirst
<1>3. ASSUME NEW d \in Connects PROVE LinkInv(d)'
  BY DEF EnrolInv, EnrolTypeOK, BornFirst, LinkInv, Current
<1>4. ASSUME NEW k \in Machines PROVE BeatInv(k)'
  BY DEF EnrolInv, EnrolTypeOK, BornFirst, BeatInv, Current
<1>5. SeenWithItsToken'
  BY DEF EnrolInv, EnrolTypeOK, BornFirst, SeenWithItsToken
<1>6. AgentRunsItsFile'
  BY DEF EnrolInv, EnrolTypeOK, AgentRunsItsFile
<1> QED
  BY <1>1, <1>2, <1>3, <1>4, <1>5, <1>6 DEF EnrolInv

LEMMA PairReadTyped == ASSUME EnrolInv, NEW c \in Connects, PairRead(c) PROVE EnrolTypeOK'
<1>1. link' \in [Connects -> LinkRow]
  <2>1. PICK n \in ByCode(link[c].cred) : link' = [link EXCEPT ![c].at = "found", ![c].node = n]
    BY DEF PairRead
  <2>2. n \in Nodes /\ [link[c] EXCEPT !.at = "found", !.node = n] \in LinkRow
    BY ToldTyped DEF EnrolInv, EnrolTypeOK, ByCode
  <2>3. link' = [link EXCEPT ![c] = [link[c] EXCEPT !.at = "found", !.node = n]]
    BY <2>1 DEF EnrolInv, EnrolTypeOK
  <2> QED
    BY <2>2, <2>3, LinkTyped DEF EnrolInv
<1> QED
  BY <1>1 DEF PairRead, EnrolInv, EnrolTypeOK, LinkRow

LEMMA PairReadKeeps == ASSUME EnrolInv, NEW c \in Connects, PairRead(c) PROVE EnrolInv'
<1> USE DEF PairRead, ByCode
<1>1. EnrolTypeOK'
  BY PairReadTyped
<1>2. BornFirst'
  BY DEF EnrolInv, EnrolTypeOK, BornFirst
<1>3. ASSUME NEW d \in Connects PROVE LinkInv(d)'
  BY DEF EnrolInv, EnrolTypeOK, BornFirst, LinkInv, Current
<1>4. ASSUME NEW k \in Machines PROVE BeatInv(k)'
  BY DEF EnrolInv, EnrolTypeOK, BornFirst, BeatInv, Current
<1>5. SeenWithItsToken'
  BY DEF EnrolInv, EnrolTypeOK, BornFirst, SeenWithItsToken
<1>6. AgentRunsItsFile'
  BY DEF EnrolInv, EnrolTypeOK, AgentRunsItsFile
<1> QED
  BY <1>1, <1>2, <1>3, <1>4, <1>5, <1>6 DEF EnrolInv

LEMMA PairWriteTyped ==
  ASSUME EnrolInv, NEW c \in Connects, PairWrite(c)
  PROVE EnrolTypeOK' /\ BornFirst'
<1>1. link[c].node \in born /\ link[c].node \in Nodes
  BY DEF EnrolInv, EnrolTypeOK, LinkInv, PairWrite
<1>2. nodes' \in [Nodes -> NodeRow]
  <2>1. drawn + 1 \in Creds /\ 0 \in Creds
    BY DEF PairWrite, Draw, EnrolInv, EnrolTypeOK
  <2>2. WithToken(link[c].node, drawn + 1, 0) \in NodeRow
    BY <1>1, <2>1, RowsTyped DEF EnrolInv
  <2> QED
    BY <1>1, <2>2, NodesTyped DEF PairWrite, EnrolInv
<1>3. link' \in [Connects -> LinkRow]
  <2>1. link' = [link EXCEPT ![c] =
                 [link[c] EXCEPT !.at = "told", !.node = link[c].node, !.token = drawn + 1]]
    BY DEF PairWrite, Told, EnrolInv, EnrolTypeOK
  <2>2. [link[c] EXCEPT !.at = "told", !.node = link[c].node, !.token = drawn + 1] \in LinkRow
    <3>1. drawn + 1 \in Creds
      BY DEF PairWrite, Draw, EnrolInv, EnrolTypeOK
    <3> QED
      BY <1>1, <3>1, ToldTyped DEF EnrolInv
  <2> QED
    BY <2>1, <2>2, LinkTyped DEF EnrolInv
<1>4. EnrolTypeOK'
  BY <1>2, <1>3 DEF PairWrite, Draw, EnrolInv, EnrolTypeOK, NodeRow, LinkRow
<1>5. BornFirst'
  BY <1>1 DEF PairWrite, EnrolInv, EnrolTypeOK, BornFirst
<1> QED
  BY <1>4, <1>5

LEMMA PairWriteKeeps == ASSUME EnrolInv, NEW c \in Connects, PairWrite(c) PROVE EnrolInv'
<1> USE DEF PairWrite, Consumable, Draw, WithToken, Told, Reporting
<1>1. EnrolTypeOK'
  BY PairWriteTyped
<1>2. BornFirst'
  BY PairWriteTyped
<1>3. ASSUME NEW d \in Connects PROVE LinkInv(d)'
  <2>1. LinkInv(c) /\ LinkInv(d) /\ link[c].node \in Nodes /\ drawn \in Nat
    BY DEF EnrolInv, EnrolTypeOK, BornFirst, LinkInv
  <2>2. CASE d = c
    BY <2>1, <2>2 DEF EnrolInv, EnrolTypeOK, LinkInv
  <2>3. CASE d # c /\ link[d].node = link[c].node
    <3>1. link'[d] = link[d] /\ link[c].node \in born
      BY <2>1, <2>3 DEF EnrolInv, EnrolTypeOK, LinkInv
    <3>2. nodes[link[c].node].code # 0
      BY <2>1 DEF LinkInv
    <3>3. link[d].at = "probing" => Current(link[d].node, link[d].token)'
      BY <2>1, <2>3, <3>1 DEF EnrolInv, EnrolTypeOK, Current
    <3> QED
      BY <2>1, <2>3, <3>1, <3>2, <3>3 DEF LinkInv
  <2>4. CASE d # c /\ link[d].node # link[c].node
    BY <2>1, <2>4 DEF EnrolInv, EnrolTypeOK, LinkInv, Current
  <2> QED
    BY <2>2, <2>3, <2>4
<1>4. ASSUME NEW k \in Machines PROVE BeatInv(k)'
  BY DEF EnrolInv, EnrolTypeOK, BornFirst, BeatInv, Current
<1>5. SeenWithItsToken'
  BY DEF EnrolInv, EnrolTypeOK, BornFirst, SeenWithItsToken
<1>6. AgentRunsItsFile'
  BY DEF EnrolInv, EnrolTypeOK, AgentRunsItsFile
<1> QED
  BY <1>1, <1>2, <1>3, <1>4, <1>5, <1>6 DEF EnrolInv

LEMMA EnrollReadKeeps ==
  ASSUME EnrolInv, NEW c \in Connects, EnrollRead(c)
  PROVE EnrolInv'
<1> USE DEF EnrollRead, Goto
<1>1. EnrolTypeOK'
  <2>1. EnrolTypeOK /\ nodes \in [Nodes -> NodeRow] /\ file \in [Machines -> Creds]
    BY DEF EnrolInv, EnrolTypeOK, NodeRow
  <2> QED
    BY <2>1, GoneOnTyped
<1>2. BornFirst'
  BY DEF EnrolInv, EnrolTypeOK, BornFirst
<1>3. ASSUME NEW d \in Connects PROVE LinkInv(d)'
  BY DEF EnrolInv, EnrolTypeOK, BornFirst, LinkInv, Current
<1>4. ASSUME NEW k \in Machines PROVE BeatInv(k)'
  BY DEF EnrolInv, EnrolTypeOK, BornFirst, BeatInv, Current
<1>5. SeenWithItsToken'
  BY DEF EnrolInv, EnrolTypeOK, BornFirst, SeenWithItsToken
<1>6. AgentRunsItsFile'
  BY DEF EnrolInv, EnrolTypeOK, AgentRunsItsFile
<1> QED
  BY <1>1, <1>2, <1>3, <1>4, <1>5, <1>6 DEF EnrolInv

LEMMA CreateConnectedTyped ==
  ASSUME EnrolInv, NEW c \in Connects, NEW n \in Nodes, CreateConnected(c, n)
  PROVE EnrolTypeOK'
<1>2. nodes' \in [Nodes -> NodeRow]
  <2>1. drawn + 1 \in Creds /\ 0 \in Creds
    BY DEF CreateConnected, Draw, EnrolInv, EnrolTypeOK
  <2>2. Fresh(drawn + 1, 0) \in NodeRow
    BY <2>1, RowsTyped DEF EnrolInv
  <2> QED
    BY <2>2, NodesTyped DEF CreateConnected, EnrolInv
<1>3. link' \in [Connects -> LinkRow]
  <2>1. link' = [link EXCEPT ![c] =
                 [link[c] EXCEPT !.at = "told", !.node = n, !.token = drawn + 1]]
    BY DEF CreateConnected, Told, EnrolInv, EnrolTypeOK
  <2>2. [link[c] EXCEPT !.at = "told", !.node = n, !.token = drawn + 1] \in LinkRow
    <3>1. drawn + 1 \in Creds
      BY DEF CreateConnected, Draw, EnrolInv, EnrolTypeOK
    <3> QED
      BY <3>1, ToldTyped DEF EnrolInv
  <2> QED
    BY <2>1, <2>2, LinkTyped DEF EnrolInv
<1>4. EnrolTypeOK'
  BY <1>2, <1>3 DEF CreateConnected, Draw, EnrolInv, EnrolTypeOK, NodeRow, LinkRow
<1> QED
  BY <1>4

LEMMA CreateConnectedKeeps ==
  ASSUME EnrolInv, NEW c \in Connects, NEW n \in Nodes, CreateConnected(c, n)
  PROVE EnrolInv'
<1> USE DEF CreateConnected, Draw, Fresh, Told
<1>1. EnrolTypeOK'
  BY CreateConnectedTyped
<1>2. BornFirst'
  BY DEF EnrolInv, EnrolTypeOK, BornFirst
<1>3. ASSUME NEW d \in Connects PROVE LinkInv(d)'
  BY DEF EnrolInv, EnrolTypeOK, BornFirst, LinkInv, Current
<1>4. ASSUME NEW k \in Machines PROVE BeatInv(k)'
  BY DEF EnrolInv, EnrolTypeOK, BornFirst, BeatInv, Current
<1>5. SeenWithItsToken'
  BY DEF EnrolInv, EnrolTypeOK, BornFirst, SeenWithItsToken
<1>6. AgentRunsItsFile'
  BY DEF EnrolInv, EnrolTypeOK, AgentRunsItsFile
<1> QED
  BY <1>1, <1>2, <1>3, <1>4, <1>5, <1>6 DEF EnrolInv

LEMMA RefusedKeeps == ASSUME EnrolInv, NEW c \in Connects, Refused(c) PROVE EnrolInv'
<1> USE DEF Refused, Leave, NoLink
<1>1. EnrolTypeOK'
  BY DEF EnrolInv, EnrolTypeOK
<1>2. BornFirst'
  BY DEF EnrolInv, EnrolTypeOK, BornFirst
<1>3. ASSUME NEW d \in Connects PROVE LinkInv(d)'
  BY DEF EnrolInv, EnrolTypeOK, BornFirst, LinkInv, Current
<1>4. ASSUME NEW k \in Machines PROVE BeatInv(k)'
  BY DEF EnrolInv, EnrolTypeOK, BornFirst, BeatInv, Current
<1>5. SeenWithItsToken'
  BY DEF EnrolInv, EnrolTypeOK, BornFirst, SeenWithItsToken
<1>6. AgentRunsItsFile'
  BY DEF EnrolInv, EnrolTypeOK, AgentRunsItsFile
<1> QED
  BY <1>1, <1>2, <1>3, <1>4, <1>5, <1>6 DEF EnrolInv

LEMMA GivesUpKeeps == ASSUME EnrolInv, NEW c \in Connects, GivesUp(c) PROVE EnrolInv'
<1> USE DEF GivesUp, Leave, NoLink
<1>1. EnrolTypeOK'
  BY DEF EnrolInv, EnrolTypeOK
<1>2. BornFirst'
  BY DEF EnrolInv, EnrolTypeOK, BornFirst
<1>3. ASSUME NEW d \in Connects PROVE LinkInv(d)'
  BY DEF EnrolInv, EnrolTypeOK, BornFirst, LinkInv, Current
<1>4. ASSUME NEW k \in Machines PROVE BeatInv(k)'
  BY DEF EnrolInv, EnrolTypeOK, BornFirst, BeatInv, Current
<1>5. SeenWithItsToken'
  BY DEF EnrolInv, EnrolTypeOK, BornFirst, SeenWithItsToken
<1>6. AgentRunsItsFile'
  BY DEF EnrolInv, EnrolTypeOK, AgentRunsItsFile
<1> QED
  BY <1>1, <1>2, <1>3, <1>4, <1>5, <1>6 DEF EnrolInv

LEMMA CheckReadKeeps == ASSUME EnrolInv, NEW c \in Connects, CheckRead(c) PROVE EnrolInv'
<1> USE DEF CheckRead, ByToken, Goto
<1>1. EnrolTypeOK'
  <2>1. EnrolTypeOK /\ nodes \in [Nodes -> NodeRow] /\ file \in [Machines -> Creds]
    BY DEF EnrolInv, EnrolTypeOK, NodeRow
  <2> QED
    BY <2>1, GoneOnTyped
<1>2. BornFirst'
  BY DEF EnrolInv, EnrolTypeOK, BornFirst
<1>3. ASSUME NEW d \in Connects PROVE LinkInv(d)'
  BY DEF EnrolInv, EnrolTypeOK, BornFirst, LinkInv, Current
<1>4. ASSUME NEW k \in Machines PROVE BeatInv(k)'
  BY DEF EnrolInv, EnrolTypeOK, BornFirst, BeatInv, Current
<1>5. SeenWithItsToken'
  BY DEF EnrolInv, EnrolTypeOK, BornFirst, SeenWithItsToken
<1>6. AgentRunsItsFile'
  BY DEF EnrolInv, EnrolTypeOK, AgentRunsItsFile
<1> QED
  BY <1>1, <1>2, <1>3, <1>4, <1>5, <1>6 DEF EnrolInv

LEMMA CheckWriteTyped ==
  ASSUME EnrolInv, NEW c \in Connects, CheckWrite(c)
  PROVE EnrolTypeOK'
<1>1. Current(link[c].node, link[c].token) /\ link[c].node \in Nodes /\ link[c].token \in Creds
  BY DEF EnrolInv, LinkInv, EnrolTypeOK, Current, CheckWrite
<1>2. nodes' \in [Nodes -> NodeRow] /\ BornFirst' /\ SeenWithItsToken'
  BY <1>1, ReportedKeeps DEF CheckWrite
<1>3. EnrolTypeOK /\ file \in [Machines -> Creds]
  BY DEF EnrolInv, EnrolTypeOK
<1> QED
  BY <1>2, <1>3, GoneOnTyped DEF CheckWrite

LEMMA CheckWriteKeeps ==
  ASSUME EnrolInv, NEW c \in Connects, CheckWrite(c)
  PROVE EnrolInv'
<1> USE DEF CheckWrite, Reported, Enrolled, Goto
<1>0. Current(link[c].node, link[c].token) /\ link[c].node \in Nodes /\ link[c].token \in Creds
  BY DEF EnrolInv, LinkInv, EnrolTypeOK, Current
<1>1. EnrolTypeOK'
  BY CheckWriteTyped
<1>2. BornFirst'
  BY <1>0, ReportedKeeps
<1>3. ASSUME NEW d \in Connects PROVE LinkInv(d)'
  BY DEF EnrolInv, EnrolTypeOK, BornFirst, LinkInv, Current
<1>4. ASSUME NEW k \in Machines PROVE BeatInv(k)'
  BY DEF EnrolInv, EnrolTypeOK, BornFirst, BeatInv, Current
<1>5. SeenWithItsToken'
  BY <1>0, ReportedKeeps
<1>6. AgentRunsItsFile'
  BY DEF EnrolInv, EnrolTypeOK, AgentRunsItsFile
<1> QED
  BY <1>1, <1>2, <1>3, <1>4, <1>5, <1>6 DEF EnrolInv

LEMMA WriteFileKeeps == ASSUME EnrolInv, NEW c \in Connects, WriteFile(c) PROVE EnrolInv'
<1> USE DEF WriteFile, Goto
<1>1. EnrolTypeOK'
  <2>1. EnrolTypeOK /\ nodes \in [Nodes -> NodeRow] /\ link[c].token \in Creds
    BY DEF EnrolInv, EnrolTypeOK, NodeRow
  <2>2. file' \in [Machines -> Creds]
    BY <2>1 DEF EnrolTypeOK
  <2> QED
    BY <2>1, <2>2, GoneOnTyped
<1>2. BornFirst'
  BY DEF EnrolInv, EnrolTypeOK, BornFirst
<1>3. ASSUME NEW d \in Connects PROVE LinkInv(d)'
  BY DEF EnrolInv, EnrolTypeOK, BornFirst, LinkInv, Current
<1>4. ASSUME NEW k \in Machines PROVE BeatInv(k)'
  BY DEF EnrolInv, EnrolTypeOK, BornFirst, BeatInv, Current
<1>5. SeenWithItsToken'
  BY DEF EnrolInv, EnrolTypeOK, BornFirst, SeenWithItsToken
<1>6. AgentRunsItsFile'
  BY DEF EnrolInv, EnrolTypeOK, AgentRunsItsFile
<1> QED
  BY <1>1, <1>2, <1>3, <1>4, <1>5, <1>6 DEF EnrolInv

LEMMA RestartAgentKeeps ==
  ASSUME EnrolInv, NEW c \in Connects, RestartAgent(c)
  PROVE EnrolInv'
<1> USE DEF RestartAgent, Leave, NoLink
<1>1. EnrolTypeOK'
  BY DEF EnrolInv, EnrolTypeOK
<1>2. BornFirst'
  BY DEF EnrolInv, EnrolTypeOK, BornFirst
<1>3. ASSUME NEW d \in Connects PROVE LinkInv(d)'
  BY DEF EnrolInv, EnrolTypeOK, BornFirst, LinkInv, Current
<1>4. ASSUME NEW k \in Machines PROVE BeatInv(k)'
  BY DEF EnrolInv, EnrolTypeOK, BornFirst, BeatInv, Current
<1>5. SeenWithItsToken'
  BY DEF EnrolInv, EnrolTypeOK, BornFirst, SeenWithItsToken
<1>6. AgentRunsItsFile'
  BY DEF EnrolInv, EnrolTypeOK, AgentRunsItsFile
<1> QED
  BY <1>1, <1>2, <1>3, <1>4, <1>5, <1>6 DEF EnrolInv

LEMMA RestartFailsKeeps ==
  ASSUME EnrolInv, NEW c \in Connects, RestartFails(c)
  PROVE EnrolInv'
<1> USE DEF RestartFails, Leave, NoLink
<1>1. EnrolTypeOK'
  BY DEF EnrolInv, EnrolTypeOK
<1>2. BornFirst'
  BY DEF EnrolInv, EnrolTypeOK, BornFirst
<1>3. ASSUME NEW d \in Connects PROVE LinkInv(d)'
  BY DEF EnrolInv, EnrolTypeOK, BornFirst, LinkInv, Current
<1>4. ASSUME NEW k \in Machines PROVE BeatInv(k)'
  BY DEF EnrolInv, EnrolTypeOK, BornFirst, BeatInv, Current
<1>5. SeenWithItsToken'
  BY DEF EnrolInv, EnrolTypeOK, BornFirst, SeenWithItsToken
<1>6. AgentRunsItsFile'
  BY DEF EnrolInv, EnrolTypeOK, AgentRunsItsFile
<1> QED
  BY <1>1, <1>2, <1>3, <1>4, <1>5, <1>6 DEF EnrolInv

\* and of the agents that report.
LEMMA HeartbeatKeeps == ASSUME EnrolInv, NEW m \in Machines, Heartbeat(m) PROVE EnrolInv'
<1> USE DEF Heartbeat, ByToken
<1>1. EnrolTypeOK'
  BY DEF EnrolInv, EnrolTypeOK
<1>2. BornFirst'
  BY DEF EnrolInv, EnrolTypeOK, BornFirst
<1>3. ASSUME NEW d \in Connects PROVE LinkInv(d)'
  BY DEF EnrolInv, EnrolTypeOK, BornFirst, LinkInv, Current
<1>4. ASSUME NEW k \in Machines PROVE BeatInv(k)'
  BY DEF EnrolInv, EnrolTypeOK, BornFirst, BeatInv, Current
<1>5. SeenWithItsToken'
  BY DEF EnrolInv, EnrolTypeOK, BornFirst, SeenWithItsToken
<1>6. AgentRunsItsFile'
  BY DEF EnrolInv, EnrolTypeOK, AgentRunsItsFile
<1> QED
  BY <1>1, <1>2, <1>3, <1>4, <1>5, <1>6 DEF EnrolInv

LEMMA HeartbeatWriteTyped ==
  ASSUME EnrolInv, NEW m \in Machines, HeartbeatWrite(m)
  PROVE EnrolTypeOK'
<1>1. Current(beat[m].node, beat[m].token) /\ beat[m].node \in Nodes /\ beat[m].token \in Creds
  BY DEF EnrolInv, BeatInv, EnrolTypeOK, Current, HeartbeatWrite
<1>2. nodes' \in [Nodes -> NodeRow] /\ BornFirst' /\ SeenWithItsToken'
  BY <1>1, ReportedKeeps DEF HeartbeatWrite
<1> QED
  BY <1>2 DEF HeartbeatWrite, EnrolInv, EnrolTypeOK, NodeRow

LEMMA HeartbeatWriteKeeps ==
  ASSUME EnrolInv, NEW m \in Machines, HeartbeatWrite(m)
  PROVE EnrolInv'
<1> USE DEF HeartbeatWrite, Reported, Enrolled
<1>0. Current(beat[m].node, beat[m].token) /\ beat[m].node \in Nodes /\ beat[m].token \in Creds
  BY DEF EnrolInv, BeatInv, EnrolTypeOK, Current
<1>1. EnrolTypeOK'
  BY HeartbeatWriteTyped
<1>2. BornFirst'
  BY <1>0, ReportedKeeps
<1>3. ASSUME NEW d \in Connects PROVE LinkInv(d)'
  BY DEF EnrolInv, EnrolTypeOK, BornFirst, LinkInv, Current
<1>4. ASSUME NEW k \in Machines PROVE BeatInv(k)'
  BY DEF EnrolInv, EnrolTypeOK, BornFirst, BeatInv, Current
<1>5. SeenWithItsToken'
  BY <1>0, ReportedKeeps
<1>6. AgentRunsItsFile'
  BY DEF EnrolInv, EnrolTypeOK, AgentRunsItsFile
<1> QED
  BY <1>1, <1>2, <1>3, <1>4, <1>5, <1>6 DEF EnrolInv

-----------------------------------------------------------------------------
LEMMA EnrolInvHolds == EnrolSpec => []EnrolInv
<1>1. EnrolInit => EnrolInv
  <2> SUFFICES ASSUME EnrolInit PROVE EnrolInv
    OBVIOUS
  <2>1. EnrolTypeOK
    BY DEF EnrolInit, EnrolTypeOK, NoLink
  <2>2. BornFirst /\ SeenWithItsToken /\ AgentRunsItsFile
    BY DEF EnrolInit, BornFirst, SeenWithItsToken, AgentRunsItsFile
  <2>3. ASSUME NEW c \in Connects PROVE LinkInv(c)
    BY DEF EnrolInit, LinkInv, NoLink
  <2>4. ASSUME NEW m \in Machines PROVE BeatInv(m)
    BY DEF EnrolInit, BeatInv
  <2> QED
    BY <2>1, <2>2, <2>3, <2>4 DEF EnrolInv
<1>2. EnrolInv /\ [EnrolNext]_enrolvars => EnrolInv'
  <2> SUFFICES ASSUME EnrolInv, [EnrolNext]_enrolvars PROVE EnrolInv'
    OBVIOUS
  <2>1. CASE UNCHANGED enrolvars
    BY <2>1 DEF enrolvars, EnrolInv, EnrolTypeOK, BornFirst, LinkInv, BeatInv, Current,
                SeenWithItsToken, AgentRunsItsFile
  <2>2. CASE \E n \in Nodes : Create(n) \/ Rotate(n) \/ Delete(n) \/ Expire(n)
    BY <2>2, CreateKeeps, RotateKeeps, DeleteKeeps, ExpireKeeps
  <2>3. CASE RotateAgentEnrollmentKey
    BY <2>3, RotateAgentEnrollmentKeyKeeps
  <2>4. CASE \E c \in Connects, m \in Machines, e \in 1 .. drawn : Connect(c, m, e)
    BY <2>4, ConnectKeeps
  <2>5. CASE \E c \in Connects : Exchange(c)
    BY <2>5, PairReadKeeps, PairWriteKeeps, EnrollReadKeeps, CreateConnectedKeeps, RefusedKeeps
       DEF Exchange
  <2>6. CASE \E c \in Connects : CheckRead(c) \/ CheckWrite(c) \/ WriteFile(c)
    BY <2>6, CheckReadKeeps, CheckWriteKeeps, WriteFileKeeps
  <2>7. CASE \E c \in Connects : RestartAgent(c) \/ RestartFails(c) \/ GivesUp(c)
    BY <2>7, RestartAgentKeeps, RestartFailsKeeps, GivesUpKeeps
  <2>8. CASE \E m \in Machines : Heartbeat(m) \/ HeartbeatWrite(m)
    BY <2>8, HeartbeatKeeps, HeartbeatWriteKeeps
  <2> QED
    BY <2>1, <2>2, <2>3, <2>4, <2>5, <2>6, <2>7, <2>8 DEF EnrolNext, ConnectStep
<1> QED
  BY <1>1, <1>2, PTL DEF EnrolSpec

(* Type correctness of the enrolment of servers.                           *)
THEOREM EnrolTypeCorrect == EnrolSpec => []EnrolTypeOK
<1>1. EnrolInv => EnrolTypeOK
  BY DEF EnrolInv
<1> QED
  BY <1>1, EnrolInvHolds, PTL

(* Whichever servers send the same link, and whatever the user rotates or  *)
(* deletes meanwhile: a server that was told a token has that of its node, *)
(* a node is shown as seen with the token it has, and an agent runs with   *)
(* the token of its file (ConsumePairingCode, Rotate, applyReport,         *)
(* ConnectLocalController).                                                *)
THEOREM EnrolmentCorrect == EnrolSpec => []EnrolmentHolds
<1>1. EnrolInv => ToldTokenIsTheNodes
  BY DEF EnrolInv, LinkInv, ToldTokenIsTheNodes
<1>2. EnrolInv => SeenWithItsToken /\ AgentRunsItsFile
  BY DEF EnrolInv
<1> QED
  BY <1>1, <1>2, EnrolInvHolds, PTL DEF EnrolmentHolds

HIDE EnrolAssumption DEF Creds, Absent, Quiet

(***************************************************************************)
(* RemoteCall.  What a caller is told is followed back along the way of    *)
(* the answer: over the connection, through the agent, to the panel.       *)
(***************************************************************************)

\* What an answer of call c tells, wherever it is on its way.
Truth(c, a) ==
  /\ a = "ok" => made[c] = Saves(call[c].method)
  /\ a = "conflict" => made[c] < Saves(call[c].method)

\* A request, the slot taken for it and the answer follow each other.
Route(c) ==
  /\ call[c] = NoCall => frame[c] = "none" /\ slot[c] = 0 /\ job[c] = NoJob
  /\ frame[c] # "none" => slot[c] = 0
  /\ frame[c] = "request" => job[c] = NoJob
  /\ slot[c] = 0 => reply[c] = "none"
  /\ frame[c] # "offline" /\ reply[c] \notin Refusals /\ job[c].answer \notin Refusals

\* Before the panel is done with a call nobody has heard of its end.
Unheard(c) ==
  job[c].at \in {"none", "handled"} =>
    /\ job[c].answer = "none"
    /\ {call[c].answer, frame[c], reply[c]} \cap {"ok", "conflict"} = {}

\* One that was turned away goes nowhere.
Turned(c) ==
  frame[c] = "busy" \/ call[c].answer \in Refusals =>
    job[c] = NoJob /\ slot[c] = 0 /\ frame[c] # "request"

\* A call makes no more changes than it asks for.
Counted(c) ==
  /\ job[c] = NoJob => made[c] = 0
  /\ job[c].at = "handled" => made[c] < Saves(call[c].method)
  /\ made[c] <= revision
  /\ made[c] <= Saves(call[c].method)

\* Its changes are those that follow the revision it was made with.
Claimed(c) ==
  call[c].method \in Checked /\ made[c] > 0 => call[c].expected + made[c] <= revision

Truthful(c) == \A a \in {call[c].answer, frame[c], reply[c], job[c].answer} : Truth(c, a)

CallInv(c) ==
  /\ Route(c) /\ Unheard(c) /\ Turned(c)
  /\ Counted(c) /\ Claimed(c) /\ Truthful(c)

CallsInv == CallTypeOK /\ (\A c \in Calls : CallInv(c)) /\ RetryIsSafe

-----------------------------------------------------------------------------
USE CallAssumption DEF Methods, Refusals, Answers, Checked, NoCall, NoJob

\* A call that a step does not touch.
LEMMA Untouched ==
  ASSUME NEW c \in Calls, CallInv(c), revision \in Nat, revision' \in Nat, made[c] \in Nat,
         call[c].expected \in Nat,
         call'[c] = call[c], frame'[c] = frame[c], slot'[c] = slot[c], reply'[c] = reply[c],
         job'[c] = job[c], made'[c] = made[c], revision <= revision'
  PROVE  CallInv(c)'
BY DEF CallInv, Route, Unheard, Turned, Counted, Claimed,
         Truthful, Truth, Saves

\* A step in which no call makes a change.
LEMMA NothingMade ==
  ASSUME CallTypeOK, RetryIsSafe, made' = made,
         \A c \in Calls : made[c] > 0 => /\ call'[c].method = call[c].method
                                         /\ call'[c].expected = call[c].expected
  PROVE  RetryIsSafe'
BY DEF RetryIsSafe, CallTypeOK

\* A caller hears an answer.
LEMMA HearsTyped ==
  ASSUME CallTypeOK, NEW c \in Calls, NEW a \in Answers, Hears(c, a)
  PROVE  call' \in [Calls -> [method : Methods, expected : 0 .. MaxRevision,
                              answer : Answers \cup {"unasked", "waiting"}]]
<1>1. call[c] \in [method : Methods, expected : 0 .. MaxRevision,
                   answer : Answers \cup {"unasked", "waiting"}]
  BY DEF CallTypeOK
<1>2. [call[c] EXCEPT !.answer = a] \in
        [method : Methods, expected : 0 .. MaxRevision,
         answer : Answers \cup {"unasked", "waiting"}]
  BY <1>1
<1> QED
  BY <1>2 DEF Hears, CallTypeOK

\* The initial states, and then each step of the controller, the agent and the panel.
LEMMA InitHolds == CallInit => CallsInv
<1> SUFFICES ASSUME CallInit PROVE CallsInv
  OBVIOUS
<1> USE DEF CallInit
<1>1. CallTypeOK
  BY DEF CallTypeOK
<1>2. ASSUME NEW c \in Calls PROVE CallInv(c)
  BY DEF CallInv, Route, Unheard, Turned, Counted, Claimed,
         Truthful, Truth, Saves
<1>3. RetryIsSafe
  BY DEF RetryIsSafe
<1> QED
  BY <1>1, <1>2, <1>3 DEF CallsInv

LEMMA DispatchRPCKeeps ==
  ASSUME CallsInv, NEW c \in Calls, NEW m \in Methods, NEW e \in 0 .. revision,
         DispatchRPC(c, m, e)
  PROVE  CallsInv'
<1> USE DEF DispatchRPC
<1>1. CallTypeOK'
  BY DEF CallsInv, CallTypeOK
<1>2. CallInv(c)'
  BY DEF CallsInv, CallTypeOK, CallInv, Route, Unheard, Turned, Counted, Claimed,
         Truthful, Truth, Saves
<1>3. ASSUME NEW d \in Calls \ {c} PROVE CallInv(d)'
  BY Untouched DEF CallsInv, CallTypeOK
<1>4. RetryIsSafe'
  <2>1. made[c] = 0
    BY DEF CallsInv, CallInv, Route, Counted
  <2> QED
    BY <2>1, NothingMade DEF CallsInv, CallTypeOK
<1> QED
  BY <1>1, <1>2, <1>3, <1>4 DEF CallsInv

LEMMA CallTimeoutKeeps == ASSUME CallsInv, NEW c \in Calls, CallTimeout(c) PROVE CallsInv'
<1> USE DEF CallTimeout, Waiting, Hears
<1>1. CallTypeOK'
  BY HearsTyped DEF CallsInv, CallTypeOK
<1>2. CallInv(c)'
  BY DEF CallsInv, CallTypeOK, CallInv, Route, Unheard, Turned, Counted, Claimed,
         Truthful, Truth, Saves
<1>3. ASSUME NEW d \in Calls \ {c} PROVE CallInv(d)'
  BY Untouched DEF CallsInv, CallTypeOK
<1>4. RetryIsSafe'
  BY NothingMade DEF CallsInv, CallTypeOK
<1> QED
  BY <1>1, <1>2, <1>3, <1>4 DEF CallsInv

LEMMA DeliveredKeeps == ASSUME CallsInv, NEW c \in Calls, Delivered(c) PROVE CallsInv'
<1> USE DEF Delivered, Waiting, Hears
<1>1. CallTypeOK'
  BY HearsTyped DEF CallsInv, CallTypeOK
<1>2. CallInv(c)'
  BY DEF CallsInv, CallTypeOK, CallInv, Route, Unheard, Turned, Counted, Claimed,
         Truthful, Truth, Saves
<1>3. ASSUME NEW d \in Calls \ {c} PROVE CallInv(d)'
  BY Untouched DEF CallsInv, CallTypeOK
<1>4. RetryIsSafe'
  BY NothingMade DEF CallsInv, CallTypeOK
<1> QED
  BY <1>1, <1>2, <1>3, <1>4 DEF CallsInv

LEMMA TakeSlotKeeps == ASSUME CallsInv, NEW c \in Calls, TakeSlot(c) PROVE CallsInv'
<1> USE DEF TakeSlot, Held
<1>1. CallTypeOK'
  BY DEF CallsInv, CallTypeOK
<1>2. CallInv(c)'
  BY DEF CallsInv, CallTypeOK, CallInv, Route, Unheard, Turned, Counted, Claimed,
         Truthful, Truth, Saves
<1>3. ASSUME NEW d \in Calls \ {c} PROVE CallInv(d)'
  BY Untouched DEF CallsInv, CallTypeOK
<1>4. RetryIsSafe'
  BY NothingMade DEF CallsInv, CallTypeOK
<1> QED
  BY <1>1, <1>2, <1>3, <1>4 DEF CallsInv

LEMMA BusyKeeps == ASSUME CallsInv, NEW c \in Calls, Busy(c) PROVE CallsInv'
<1> USE DEF Busy
<1>1. CallTypeOK'
  BY DEF CallsInv, CallTypeOK
<1>2. CallInv(c)'
  BY DEF CallsInv, CallTypeOK, CallInv, Route, Unheard, Turned, Counted, Claimed,
         Truthful, Truth, Saves
<1>3. ASSUME NEW d \in Calls \ {c} PROVE CallInv(d)'
  BY Untouched DEF CallsInv, CallTypeOK
<1>4. RetryIsSafe'
  BY NothingMade DEF CallsInv, CallTypeOK
<1> QED
  BY <1>1, <1>2, <1>3, <1>4 DEF CallsInv

LEMMA PostKeeps == ASSUME CallsInv, NEW c \in Calls, Post(c) PROVE CallsInv'
<1> USE DEF Post, Calling
<1>1. CallTypeOK'
  BY DEF CallsInv, CallTypeOK
<1>2. CallInv(c)'
  BY DEF CallsInv, CallTypeOK, CallInv, Route, Unheard, Turned, Counted, Claimed,
         Truthful, Truth, Saves
<1>3. ASSUME NEW d \in Calls \ {c} PROVE CallInv(d)'
  BY Untouched DEF CallsInv, CallTypeOK
<1>4. RetryIsSafe'
  BY NothingMade DEF CallsInv, CallTypeOK
<1> QED
  BY <1>1, <1>2, <1>3, <1>4 DEF CallsInv

LEMMA PostFailsKeeps == ASSUME CallsInv, NEW c \in Calls, PostFails(c) PROVE CallsInv'
<1> USE DEF PostFails, Calling, NoResponse, Gone
<1>1. CallTypeOK'
  BY DEF CallsInv, CallTypeOK
<1>2. CallInv(c)'
  BY DEF CallsInv, CallTypeOK, CallInv, Route, Unheard, Turned, Counted, Claimed,
         Truthful, Truth, Saves
<1>3. ASSUME NEW d \in Calls \ {c} PROVE CallInv(d)'
  BY Untouched DEF CallsInv, CallTypeOK
<1>4. RetryIsSafe'
  BY NothingMade DEF CallsInv, CallTypeOK
<1> QED
  BY <1>1, <1>2, <1>3, <1>4 DEF CallsInv

LEMMA PanelAnswersKeeps == ASSUME CallsInv, NEW c \in Calls, PanelAnswers(c) PROVE CallsInv'
<1> USE DEF PanelAnswers, Calling, Gone
<1>1. CallTypeOK'
  BY DEF CallsInv, CallTypeOK
<1>2. CallInv(c)'
  BY DEF CallsInv, CallTypeOK, CallInv, Route, Unheard, Turned, Counted, Claimed,
         Truthful, Truth, Saves
<1>3. ASSUME NEW d \in Calls \ {c} PROVE CallInv(d)'
  BY Untouched DEF CallsInv, CallTypeOK
<1>4. RetryIsSafe'
  BY NothingMade DEF CallsInv, CallTypeOK
<1> QED
  BY <1>1, <1>2, <1>3, <1>4 DEF CallsInv

LEMMA SendBackKeeps == ASSUME CallsInv, NEW c \in Calls, SendBack(c) PROVE CallsInv'
<1> USE DEF SendBack
<1>1. CallTypeOK'
  BY DEF CallsInv, CallTypeOK
<1>2. CallInv(c)'
  BY DEF CallsInv, CallTypeOK, CallInv, Route, Unheard, Turned, Counted, Claimed,
         Truthful, Truth, Saves
<1>3. ASSUME NEW d \in Calls \ {c} PROVE CallInv(d)'
  BY Untouched DEF CallsInv, CallTypeOK
<1>4. RetryIsSafe'
  BY NothingMade DEF CallsInv, CallTypeOK
<1> QED
  BY <1>1, <1>2, <1>3, <1>4 DEF CallsInv

LEMMA ConflictKeeps == ASSUME CallsInv, NEW c \in Calls, Conflict(c) PROVE CallsInv'
<1> USE DEF Conflict, Ends, Calling, Gone, AsExpected
<1>1. CallTypeOK'
  BY DEF CallsInv, CallTypeOK
<1>2. CallInv(c)'
  BY DEF CallsInv, CallTypeOK, CallInv, Route, Unheard, Turned, Counted, Claimed,
         Truthful, Truth, Saves
<1>3. ASSUME NEW d \in Calls \ {c} PROVE CallInv(d)'
  BY Untouched DEF CallsInv, CallTypeOK
<1>4. RetryIsSafe'
  BY NothingMade DEF CallsInv, CallTypeOK
<1> QED
  BY <1>1, <1>2, <1>3, <1>4 DEF CallsInv

LEMMA DisconnectKeeps == ASSUME CallsInv, Disconnect PROVE CallsInv'
<1> USE DEF Disconnect, Waiting
<1>1. CallTypeOK'
  <2>1. ASSUME NEW c \in Calls
        PROVE  call'[c] \in [method : Methods, expected : 0 .. MaxRevision,
                             answer : Answers \cup {"unasked", "waiting"}]
    <3>1. call[c] \in [method : Methods, expected : 0 .. MaxRevision,
                       answer : Answers \cup {"unasked", "waiting"}]
      BY DEF CallsInv, CallTypeOK
    <3>2. [call[c] EXCEPT !.answer = "failed"] \in
            [method : Methods, expected : 0 .. MaxRevision,
             answer : Answers \cup {"unasked", "waiting"}]
      BY <3>1
    <3> QED
      BY <3>1, <3>2
  <2> QED
    BY <2>1 DEF CallsInv, CallTypeOK
<1>2. ASSUME NEW c \in Calls PROVE CallInv(c)'
  BY DEF CallsInv, CallTypeOK, CallInv, Route, Unheard, Turned, Counted, Claimed,
         Truthful, Truth, Saves
<1>3. RetryIsSafe'
  BY NothingMade DEF CallsInv, CallTypeOK
<1> QED
  BY <1>1, <1>2, <1>3 DEF CallsInv

LEMMA ReconnectKeeps == ASSUME CallsInv, Reconnect PROVE CallsInv'
<1> USE DEF Reconnect
<1>1. CallTypeOK'
  BY DEF CallsInv, CallTypeOK
<1>2. ASSUME NEW c \in Calls PROVE CallInv(c)'
  BY Untouched DEF CallsInv, CallTypeOK
<1>3. RetryIsSafe'
  BY NothingMade DEF CallsInv
<1> QED
  BY <1>1, <1>2, <1>3 DEF CallsInv

LEMMA LocalSaveKeeps == ASSUME CallsInv, LocalSave PROVE CallsInv'
<1> USE DEF LocalSave
<1>1. CallTypeOK'
  BY DEF CallsInv, CallTypeOK
<1>2. ASSUME NEW c \in Calls PROVE CallInv(c)'
  BY Untouched DEF CallsInv, CallTypeOK
<1>3. RetryIsSafe'
  BY NothingMade DEF CallsInv
<1> QED
  BY <1>1, <1>2, <1>3 DEF CallsInv

LEMMA PanelExitsKeeps == ASSUME CallsInv, PanelExits PROVE CallsInv'
<1> USE DEF PanelExits, Gone
<1>1. CallTypeOK'
  BY DEF CallsInv, CallTypeOK
<1>2. ASSUME NEW c \in Calls PROVE CallInv(c)'
  BY DEF CallsInv, CallTypeOK, CallInv, Route, Unheard, Turned, Counted, Claimed,
         Truthful, Truth, Saves
<1>3. RetryIsSafe'
  BY NothingMade DEF CallsInv
<1> QED
  BY <1>1, <1>2, <1>3 DEF CallsInv

\* The handler of a call makes a change under the revision it expects.
LEMMA ChangeClaims ==
  ASSUME CallsInv, NEW c \in Calls, job[c].at = "handled", Change(c), call' = call,
         call[c].method \in Checked => AsExpected(c)
  PROVE  RetryIsSafe'
<1>1. ASSUME NEW d \in Calls, call[c].method \in Checked, call[d].method \in Checked,
             call[c].expected = call[d].expected, made[d] > 0
      PROVE  d = c
  <2>1. made[c] > 0 \/ c = d \/ revision = call[d].expected
    BY <1>1 DEF CallsInv, CallTypeOK, AsExpected
  <2>2. call[d].expected + made[d] <= revision
    BY <1>1 DEF CallsInv, CallInv, Claimed
  <2> QED
    BY <1>1, <2>1, <2>2 DEF CallsInv, CallTypeOK, RetryIsSafe
<1> QED
  BY <1>1 DEF CallsInv, CallTypeOK, RetryIsSafe, Change

LEMMA SaveStepKeeps == ASSUME CallsInv, NEW c \in Calls, SaveStep(c) PROVE CallsInv'
<1> USE DEF SaveStep, Ends, Calling, Gone
<1>1. CallTypeOK'
  BY DEF CallsInv, CallTypeOK, CallInv, Counted, Change
<1>2. CallInv(c)'
  <2> USE DEF CallsInv, CallTypeOK, CallInv, Change
  <2>1. made[c] < Saves(call[c].method) /\ made[c] <= revision
    BY DEF Counted
  <2>2. made'[c] = made[c] + 1 /\ Saves(call[c].method) \in Nat
    BY DEF Saves
  <2>3. Saves(call[c].method)' = Saves(call[c].method)
    BY DEF Saves
  <2>4. IF made[c] + 1 = Saves(call[c].method)
        THEN job'[c].at \in {"done", "gone"} /\ job'[c].answer \in {"ok", "none"}
        ELSE job'[c] = job[c]
    OBVIOUS
  <2>5. Route(c)' /\ Turned(c)' /\ Unheard(c)'
    BY DEF Route, Turned, Unheard, Counted
  <2>6. Counted(c)'
    <3>1. made'[c] <= Saves(call[c].method)' /\ job'[c] # NoJob /\ revision' = revision + 1
      BY <2>1, <2>2, <2>3, <2>4
    <3>2. job'[c].at = "handled" => made'[c] < Saves(call[c].method)'
      BY <2>1, <2>2, <2>3, <2>4
    <3> QED
      BY <2>1, <2>2, <3>1, <3>2 DEF Counted
  <2>7. Claimed(c)'
    BY DEF Claimed, AsExpected
  <2>8. Truthful(c)'
    <3>1. {call[c].answer, frame[c], reply[c]} \cap {"ok", "conflict"} = {}
      BY DEF Unheard
    <3> QED
      BY <2>1, <2>2, <2>3, <2>4, <3>1 DEF Truthful, Truth, Unheard
  <2> QED
    BY <2>5, <2>6, <2>7, <2>8
<1>3. ASSUME NEW d \in Calls \ {c} PROVE CallInv(d)'
  BY Untouched DEF CallsInv, CallTypeOK, Change
<1>4. RetryIsSafe'
  BY ChangeClaims
<1> QED
  BY <1>1, <1>2, <1>3, <1>4 DEF CallsInv

LEMMA FailsKeeps == ASSUME CallsInv, NEW c \in Calls, Fails(c) PROVE CallsInv'
<1> USE DEF Fails, Ends, Calling, Gone
<1>1. CallTypeOK'
  BY DEF CallsInv, CallTypeOK, CallInv, Counted, Change
<1>2. CallInv(c)'
  <2> USE DEF CallsInv, CallTypeOK, CallInv, Change
  <2>1. Route(c)' /\ Turned(c)' /\ Unheard(c)'
    BY DEF Route, Turned, Unheard, Counted
  <2>2. Counted(c)'
    BY DEF Counted, Saves
  <2>3. Claimed(c)'
    BY DEF Claimed, AsExpected
  <2>4. Truthful(c)'
    <3>1. {call[c].answer, frame[c], reply[c]} \cap {"ok", "conflict"} = {}
      BY DEF Unheard
    <3>2. /\ call'[c] = call[c] /\ frame'[c] = frame[c] /\ reply'[c] = reply[c]
          /\ job'[c].answer \in {"failed", "none"}
      OBVIOUS
    <3> QED
      BY <3>1, <3>2 DEF Truthful, Truth
  <2> QED
    BY <2>1, <2>2, <2>3, <2>4
<1>3. ASSUME NEW d \in Calls \ {c} PROVE CallInv(d)'
  <2>1. /\ call'[d] = call[d] /\ frame'[d] = frame[d] /\ slot'[d] = slot[d]
        /\ reply'[d] = reply[d] /\ job'[d] = job[d] /\ made'[d] = made[d]
    BY DEF CallsInv, CallTypeOK, Change
  <2>2. /\ CallInv(d) /\ revision \in Nat /\ revision' \in Nat /\ made[d] \in Nat
        /\ call[d].expected \in Nat /\ revision <= revision'
    BY DEF CallsInv, CallTypeOK, Change
  <2> QED
    BY <2>1, <2>2, Untouched
<1>4. RetryIsSafe'
  BY ChangeClaims, NothingMade DEF CallsInv
<1> QED
  BY <1>1, <1>2, <1>3, <1>4 DEF CallsInv

-----------------------------------------------------------------------------
LEMMA CallsInvHolds == CallSpec => []CallsInv
<1>1. CallInit => CallsInv
  BY InitHolds
<1>2. CallsInv /\ [CallNext]_callvars => CallsInv'
  <2> SUFFICES ASSUME CallsInv, [CallNext]_callvars PROVE CallsInv'
    OBVIOUS
  <2>1. CASE UNCHANGED callvars
    <3> USE <2>1 DEF callvars
    <3>1. CallTypeOK'
      BY DEF CallsInv, CallTypeOK
    <3>2. ASSUME NEW c \in Calls PROVE CallInv(c)'
      BY Untouched DEF CallsInv, CallTypeOK
    <3>3. RetryIsSafe'
      BY NothingMade DEF CallsInv
    <3> QED
      BY <3>1, <3>2, <3>3 DEF CallsInv
  <2>2. CASE \E c \in Calls, m \in Methods, e \in 0 .. revision : DispatchRPC(c, m, e)
    BY <2>2, DispatchRPCKeeps
  <2>3. CASE \E c \in Calls : CallTimeout(c) \/ Delivered(c)
    BY <2>3, CallTimeoutKeeps, DeliveredKeeps
  <2>4. CASE \E c \in Calls : TakeSlot(c) \/ Busy(c) \/ Post(c) \/ PostFails(c)
                                \/ PanelAnswers(c) \/ SendBack(c)
    BY <2>4, TakeSlotKeeps, BusyKeeps, PostKeeps, PostFailsKeeps, PanelAnswersKeeps,
       SendBackKeeps
  <2>5. CASE \E c \in Calls : Handle(c)
    BY <2>5, SaveStepKeeps, ConflictKeeps, FailsKeeps DEF Handle
  <2>6. CASE Disconnect \/ Reconnect
    BY <2>6, DisconnectKeeps, ReconnectKeeps
  <2>7. CASE LocalSave \/ PanelExits
    BY <2>7, LocalSaveKeeps, PanelExitsKeeps
  <2> QED
    BY <2>1, <2>2, <2>3, <2>4, <2>5, <2>6, <2>7 DEF CallNext
<1> QED
  BY <1>1, <1>2, PTL DEF CallSpec

(* Type correctness of the calls to a node.                                *)
THEOREM CallTypeCorrect == CallSpec => []CallTypeOK
<1>1. CallsInv => CallTypeOK
  BY DEF CallsInv
<1> QED
  BY <1>1, CallsInvHolds, PTL

(* Whatever hop gives up, whichever connection breaks and whenever the     *)
(* panel ends: a caller that is told of a success, of a conflict or that   *)
(* the node is offline or busy is told the truth (DispatchRPC,             *)
(* runWebSocket, CallLocalRPC, startControlSocket).                        *)
THEOREM AnswersTrue == CallSpec => []AnswersAreTrue
<1>1. CallsInv => AnswersAreTrue
  <2> SUFFICES ASSUME CallsInv, NEW c \in Calls
               PROVE  /\ call[c].answer = "ok" => made[c] = Saves(call[c].method)
                      /\ call[c].answer \in Refusals => made[c] = 0 /\ job[c] = NoJob
                      /\ call[c].answer = "conflict" => made[c] < Saves(call[c].method)
    BY DEF AnswersAreTrue
  <2>1. CallInv(c)
    BY DEF CallsInv
  <2> QED
    BY <2>1 DEF CallInv, Truthful, Truth, Turned, Counted
<1> QED
  BY <1>1, CallsInvHolds, PTL

(* However many calls ask again with the revision of the first, the        *)
(* configuration is changed by one of them (SaveWithRevision).             *)
THEOREM RetriesSafe == CallSpec => []RetryIsSafe
<1>1. CallsInv => RetryIsSafe
  BY DEF CallsInv
<1> QED
  BY <1>1, CallsInvHolds, PTL

-----------------------------------------------------------------------------
(***************************************************************************)
(* The three components side by side.                                      *)
(***************************************************************************)

(* Side by side the modules do what each may do alone, its fairness         *)
(* included: what pools, enrolment and calls share (service/relay.go,       *)
(* service/agent.go, agent/client.go) is within a module.  So what is       *)
(* proved of one holds in the run of all of them.                           *)
THEOREM RemoteComposes == RemoteSpec => RelaySpec /\ EnrolSpec /\ CallSpec
<1>1. RemoteInit => RelayInit /\ EnrolInit /\ CallInit
  BY DEF RemoteInit
<1>2. ASSUME [RemoteNext]_allvars
      PROVE  [RelayNext]_relayvars /\ [EnrolNext]_enrolvars /\ [CallNext]_callvars
  <2>1. CASE Relaying
    BY <2>1 DEF Relaying
  <2>2. CASE Enrolling
    BY <2>2 DEF Enrolling
  <2>3. CASE Asking
    BY <2>3 DEF Asking
  <2>4. CASE UNCHANGED allvars
    BY <2>4 DEF allvars
  <2> QED
    BY <1>2, <2>1, <2>2, <2>3, <2>4 DEF RemoteNext
<1> QED
  BY <1>1, <1>2, PTL DEF RemoteSpec, RelaySpec, EnrolSpec, CallSpec

(* Every component keeps its types beside the others, for any nodes, pools  *)
(* and calls.                                                               *)
THEOREM RemoteTypes == RemoteSpec => []RemoteTypeOK
<1>1. RelayTypeOK /\ EnrolTypeOK /\ CallTypeOK => RemoteTypeOK
  BY DEF RemoteTypeOK
<1> QED
  BY <1>1, RemoteComposes, RelayTypeCorrect, EnrolTypeCorrect, CallTypeCorrect, PTL
===============================================================================
