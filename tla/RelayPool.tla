------------------------------ MODULE RelayPool ------------------------------
(***************************************************************************)
(* Relay pools (service/relay.go): batches of inbounds, each with an       *)
(* outbound bound to an IPv6 address of its own.  A pool is created,       *)
(* rotated and deleted in steps that change the host's interface, the      *)
(* rows and the running core; each step may fail, and the process or the   *)
(* host may stop between two of them.  relayMu serialises the operations.  *)
(* The start of sing-box while an operation has it stopped is the subject  *)
(* of CoreRuntime and is left out here.                                    *)
(***************************************************************************)
EXTENDS Naturals, Sequences, FiniteSets

CONSTANTS
  Pools,   \* the pools there may be
  Size,    \* Size[p]: the number of items of pool p
  Addrs,   \* IPv6 addresses
  Own      \* those of them the provider has configured

ASSUME PoolAssumption == Own \subseteq Addrs /\ Size \in [Pools -> Nat \ {0}]

VARIABLES
  pools,   \* the committed items of each pool, <<>> without a row
  host,    \* the addresses on the interface
  core,    \* the addresses the running core binds for each pool, NoCore without
  op,      \* the operation that holds relayMu
  strays,  \* added addresses no operation knows of any more, whose removal failed
           \* or whose process ended
  crossed  \* the core was started from the rows of before a create or a delete

relayvars == <<pools, host, core, op, strays, crossed>>

Items     == [ip : Addrs, ours : BOOLEAN]
NoCore    == [up |-> FALSE, binds |-> [p \in Pools |-> <<>>]]
NoOp      == [kind |-> "none", phase |-> "idle", new |-> <<>>, add |-> {}, added |-> {},
              gone |-> {}, swaps |-> FALSE, shared |-> {}]

IpsOf(items)  == {items[i].ip : i \in DOMAIN items}
OursOf(items) == {items[i].ip : i \in {j \in DOMAIN items : items[j].ours}}
Used(ps)      == UNION {IpsOf(ps[p]) : p \in Pools}
Owned(ps)     == UNION {OursOf(ps[p]) : p \in Pools}

\* The addresses that more than one item of ps has.
GivenTwice(ps) ==
  {a \in Addrs : \E p, q \in Pools : \E i \in DOMAIN ps[p], j \in DOMAIN ps[q] :
                    <<p, i>> # <<q, j>> /\ ps[p][i].ip = a /\ ps[q][j].ip = a}

\* GetConfig: the outbounds of the pools.
Config(ps) == [up |-> TRUE, binds |-> [p \in Pools |-> [i \in DOMAIN ps[p] |-> ps[p][i].ip]]]

\* An address of the provider's is nobody's to remove.
RelayTypeOK ==
  /\ \A p \in Pools : /\ pools[p] \in Seq(Items) /\ Len(pools[p]) \in {0, Size[p]}
  /\ Owned(pools) \cap Own = {}
  /\ Own \subseteq host /\ host \subseteq Addrs
  /\ core.up \in BOOLEAN /\ \A p \in Pools : core.binds[p] \in Seq(Addrs)
  /\ op.kind \in {"none", "create", "delete", "rotate"}
  /\ op.phase \in {"idle", "adding", "ready", "stopped", "started", "boot", "removing"}
  /\ op.add \subseteq Addrs /\ op.added \subseteq host \cup Addrs /\ op.gone \subseteq Addrs
  /\ op.swaps \in BOOLEAN /\ op.shared \subseteq Addrs
  /\ strays \subseteq Addrs /\ crossed \in BOOLEAN

RelayInit ==
  /\ pools = [p \in Pools |-> <<>>] /\ host = Own
  /\ core = Config(pools) /\ op = NoOp
  /\ strays = {} /\ crossed = FALSE

Idle == op = NoOp

-----------------------------------------------------------------------------
\* Beginning an operation: the rows it will write, the addresses it has to add
\* and those it will remove.  An address is noted as shared that more than one
\* item has, or that one had before another gets it.
Begin(kind, phase, new, add, gone) ==
  op' = [NoOp EXCEPT !.kind = kind, !.phase = phase, !.new = new, !.add = add, !.gone = gone,
           !.shared = GivenTwice(pools) \cup GivenTwice(new) \cup (add \cap Used(pools))]

Adds(a) == a \notin host

\* prepareRelayItems: distinct addresses of the prefix, given by the user or
\* drawn; those that are on the interface already are used as they are.
FreshItems(p) ==
  {items \in [1 .. Size[p] -> Items] :
     /\ \A i, j \in DOMAIN items : i # j => items[i].ip # items[j].ip
     /\ \A i \in DOMAIN items : items[i].ours = Adds(items[i].ip)}

CreateRelay(p) ==
  /\ Idle /\ pools[p] = <<>>
  /\ \E items \in FreshItems(p) :
       Begin("create", "adding", [pools EXCEPT ![p] = items], OursOf(items), {})
  /\ UNCHANGED <<pools, host, core, strays, crossed>>

\* prepareRelayRotatedItems: a drawn address is not one that is on the interface.
Replaceable(items, chosen, i, a) == i \in chosen /\ a # items[i].ip /\ a \notin host

\* The items of which those in chosen have a new address, all different.
RotatedItems(items, chosen) ==
  {new \in [DOMAIN items -> Items] :
     /\ \A i \in DOMAIN items :
          IF i \in chosen THEN new[i].ours /\ Replaceable(items, chosen, i, new[i].ip)
          ELSE new[i] = items[i]
     /\ \A i, j \in chosen : i # j => new[i].ip # new[j].ip}

\* A mutant: the old addresses of the whole pool are given up.
GivenUpAll(items, chosen) == OursOf(items)

\* A mutant: it is not asked who added the old address.
GivenUpForeign(items, chosen) == {items[i].ip : i \in chosen}

\* What a rotation removes when it is done.
GivenUp(items, chosen) == OursOf([i \in chosen |-> items[i]])

\* RotateRelay for all items, RotateRelayItemByToken for one.
RotateRelay(p) ==
  /\ Idle /\ pools[p] # <<>>
  /\ \E chosen \in {DOMAIN pools[p]} \cup {{i} : i \in DOMAIN pools[p]} :
       \E items \in RotatedItems(pools[p], chosen) :
         Begin("rotate", "adding", [pools EXCEPT ![p] = items],
               {items[i].ip : i \in chosen}, GivenUp(pools[p], chosen))
  /\ UNCHANGED <<pools, host, core, strays, crossed>>

DeleteRelay(p) ==
  /\ Idle /\ pools[p] # <<>>
  /\ Begin("delete", "ready", [pools EXCEPT ![p] = <<>>], {}, OursOf(pools[p]))
  /\ UNCHANGED <<pools, host, core, strays, crossed>>

-----------------------------------------------------------------------------
\* Its steps.

\* A mutant: the address is not noted, so that a failure leaves it behind.
NotedNever(a) == op.added

Noted(a) == op.added \cup {a}

\* addRelayAddress; one that has appeared on the interface meanwhile cannot be added.
AddAddress(a) ==
  /\ op.phase = "adding" /\ a \in op.add /\ a \notin host
  /\ host' = host \cup {a}
  /\ op' = [op EXCEPT !.add = @ \ {a}, !.added = Noted(a)]
  /\ UNCHANGED <<pools, core, strays, crossed>>

\* waitRelayAddressesReady and validateRelayIPv6Egress pass; a rotation takes the
\* flag of core operations and notes whether the core runs.
AddressesReady ==
  /\ op.phase = "adding" /\ op.add = {}
  /\ op' = [op EXCEPT !.phase = "ready", !.swaps = op.kind = "rotate" /\ core.up]
  /\ UNCHANGED <<pools, host, core, strays, crossed>>

Swaps == IF op.kind = "rotate" THEN op.swaps ELSE core.up

\* The rows are written.  A core that runs is stopped; one that does not is left
\* alone.
WriteAndStop ==
  /\ op.phase = "ready"
  /\ op' = [op EXCEPT !.phase = IF Swaps THEN "stopped" ELSE "started", !.swaps = Swaps]
  /\ core' = IF Swaps THEN NoCore ELSE core
  /\ UNCHANGED <<pools, host, strays, crossed>>

\* It is started with the configuration of the transaction.
StartNew ==
  /\ op.phase = "stopped"
  /\ core' = Config(op.new)
  /\ op' = [op EXCEPT !.phase = "started"]
  /\ UNCHANGED <<pools, host, strays, crossed>>

Commit ==
  /\ op.phase = "started"
  /\ pools' = op.new
  /\ op' = [op EXCEPT !.phase = IF op.kind = "create" THEN "boot" ELSE "removing", !.added = {}]
  /\ UNCHANGED <<host, core, strays, crossed>>

\* After a create, StartCore if sing-box does not run; it may fail or be refused.
BootCore ==
  /\ op.phase = "boot"
  /\ op' = NoOp
  /\ \/ UNCHANGED <<core, crossed>>
     \/ ~core.up /\ core' = Config(pools) /\ crossed' = FALSE
  /\ UNCHANGED <<pools, host, strays>>

\* deleteRelayAddress on what the pool no longer has; a failure is logged.
RemoveAddress(a) ==
  /\ op.phase = "removing" /\ a \in op.gone
  /\ \/ host' = host \ {a} /\ UNCHANGED strays
     \/ a \in host /\ strays' = strays \cup {a} /\ UNCHANGED host
  /\ op' = [op EXCEPT !.gone = @ \ {a}]
  /\ UNCHANGED <<pools, core, crossed>>

Finish ==
  /\ op.phase = "removing" /\ op.gone = {}
  /\ op' = NoOp
  /\ UNCHANGED <<pools, host, core, strays, crossed>>

\* A mutant: a failed operation leaves the core stopped or with the new rows.
RestoredNever == UNCHANGED <<core, crossed>>

\* restoreSingBoxConfig with the configuration of the committed rows.
Restored ==
  IF op.phase \in {"stopped", "started"} /\ op.swaps
  THEN core' \in {Config(pools), NoCore} /\ crossed' = FALSE
  ELSE UNCHANGED <<core, crossed>>

\* Any step fails: the deferred functions roll the rows back, restore the core
\* and remove the addresses that were added, as far as they can.
OpFails ==
  /\ op.phase \in {"adding", "ready", "stopped", "started"}
  /\ Restored
  /\ \E left \in SUBSET (op.added \cap host) :
       host' = host \ (op.added \ left) /\ strays' = strays \cup left
  /\ op' = NoOp
  /\ UNCHANGED <<pools>>

-----------------------------------------------------------------------------
\* The addresses are kept up.

\* A mutant: only the first address of each pool is looked after.
MissingFirst == ({pools[p][1].ip : p \in {q \in Pools : pools[q] # <<>>}} \cap Owned(pools)) \ host

Missing == Owned(pools) \ host

\* EnsureRelayIPv6Addresses, each minute, and RestoreRelayIPv6 at startup: every
\* address a pool has added is put back if it can be.
EnsureAddresses ==
  /\ Idle /\ Missing # {}
  /\ \E back \in SUBSET Missing : back # {} /\ host' = host \cup back
                                   /\ strays' = strays \ back
  /\ UNCHANGED <<pools, core, op, crossed>>

\* The same, when the interface takes all of them.
EnsureAll ==
  /\ Idle /\ Missing # {}
  /\ host' = host \cup Missing /\ strays' = strays \ Missing
  /\ UNCHANGED <<pools, core, op, crossed>>

\* A restart of the network removes what is not configured.
NetworkRestart ==
  /\ host # Own /\ host' = Own /\ strays' = {}
  /\ UNCHANGED <<pools, core, op, crossed>>

\* The process ends, its core with it, and starts again.  What an operation has
\* added, or still had to remove, is left.
Crash ==
  /\ core' = NoCore /\ op' = NoOp /\ crossed' = FALSE
  /\ strays' = strays \cup (((op.added \cup op.gone) \cap host) \ Owned(pools))
  /\ UNCHANGED <<pools, host>>

Reboot ==
  /\ core' = NoCore /\ op' = NoOp /\ crossed' = FALSE
  /\ host' = Own /\ strays' = {}
  /\ UNCHANGED <<pools>>

\* StartCore by the watchdog or a user, refused while a rotation has the flag.
StartCore ==
  /\ ~core.up /\ op.phase # "stopped"
  /\ op.kind = "rotate" => op.phase = "adding"
  /\ core' = Config(pools)
  /\ crossed' = (op.phase = "started")
  /\ UNCHANGED <<pools, host, op, strays>>

StopCore ==
  /\ core.up /\ core' = NoCore /\ crossed' = FALSE
  /\ UNCHANGED <<pools, host, op, strays>>

RelayStep == AddressesReady \/ WriteAndStop \/ StartNew \/ Commit \/ BootCore \/ Finish
               \/ OpFails \/ \E a \in Addrs : AddAddress(a) \/ RemoveAddress(a)

RelayNext == RelayStep \/ EnsureAddresses \/ NetworkRestart \/ Crash \/ Reboot
               \/ StartCore \/ StopCore
               \/ \E p \in Pools : CreateRelay(p) \/ RotateRelay(p) \/ DeleteRelay(p)

\* Operations go on, and a user does not keep relayMu from the minute's job; what
\* the job puts back the interface takes in the end.
RelayFairness == WF_relayvars(RelayStep) /\ SF_relayvars(EnsureAll)

RelaySpec == RelayInit /\ [][RelayNext]_relayvars /\ RelayFairness

-----------------------------------------------------------------------------
\* Properties.

(* Between operations the interface has no address that no pool knows of,   *)
(* however an operation failed; only a failed removal and the end of the    *)
(* process in the middle of one leave an address behind (relay.go:1020,     *)
(* 1421, 1560: the deferred cleanups).                                      *)
NoStrayAddress == Idle => host \subseteq Own \cup Owned(pools) \cup strays

(* An operation on a pool removes no address that a pool still uses: a      *)
(* rotation takes the old address away after its replacement has been       *)
(* committed, a failure takes only what was added for it, and the other     *)
(* items and pools keep theirs (README.md:191, relay.go:1529).  Items that  *)
(* were given the same address share its fate.                              *)
UsedAddressesStay ==
  [][NetworkRestart \/ Reboot \/ (host \ host') \cap Used(pools') \subseteq op.shared]_relayvars

(* Between operations the core binds the addresses of the committed rows,   *)
(* whichever step of which operation failed, and a failed one has brought   *)
(* it back; unless it was started from old rows while a create or a delete  *)
(* was about to commit (relay.go:1049, 1234, 1655, 2710).                   *)
CoreBindsTheRows == Idle /\ core.up /\ ~crossed => core = Config(pools)

(* An address that a pool added and the host has lost comes back, or the    *)
(* pool gives it up (relay.go:516, 579).                                    *)
LostAddressReturns ==
  \A a \in Addrs \ Own : (a \in Missing) ~> (a \in host \/ a \notin Owned(pools))
===============================================================================
