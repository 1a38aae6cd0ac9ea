----------------------------- MODULE ClientLinks -----------------------------
(***************************************************************************)
(* The share links of clients (service/client.go, service/inbounds.go,     *)
(* service/tls.go, service/relay.go).  A client's row has a link for each  *)
(* of its inbounds, which is made from the inbound, its TLS row and the    *)
(* client, and is found again by the tag of the inbound alone.  Saves of   *)
(* any of these rows have to keep the links of all clients current, and    *)
(* the external links the user has added to them.                          *)
(*                                                                         *)
(* Each save is one transaction under configSaveMu; what a browser saves   *)
(* was loaded at some time before.  Only inbounds of types with links are  *)
(* modelled.  Ids are not used twice.                                      *)
(*                                                                         *)
(* Bounds: the contents of a row, and the remark of a client, are one of   *)
(* two; one browser.                                                       *)
(***************************************************************************)
EXTENDS Naturals, FiniteSets

CONSTANTS
    LinkClients,  \* ids of clients
    LinkInbounds, \* ids of inbounds
    LinkTags,     \* tags of inbounds
    Tlsed,        \* the inbounds that have the TLS row
    External,     \* names of external links
    Relays        \* the inbound and the client of each item there may be of a pool

VARIABLES
    inb,      \* the rows of the inbounds
    tls,      \* the contents of the TLS row
    cli,      \* the rows of the clients
    tab,      \* the clients as the browser has loaded them
    pools,    \* those there are
    chosen,   \* the external links of each client as they were last saved
    pooled,   \* the clients not saved since a pool deleted or repaired their inbound
    reverted  \* the clients whose remark a bulk edit has set back

linkvars == <<inb, tls, cli, tab, pools, chosen, pooled, reverted>>

Contents == {0, 1}
Unborn == [at |-> "unborn"]
Dead   == [at |-> "dead"]
InboundRow(tag, content) == [at |-> "live", tag |-> tag, has |-> content]
ClientRow(ins, remark, links, ext) ==
    [at |-> "live", ins |-> ins, remark |-> remark, links |-> links, ext |-> ext]

Live(rows) == {x \in DOMAIN rows : rows[x].at = "live"}
Born(rows, x) == rows[x] = Unborn
TagsIn(is) == {inb[i].tag : i \in is}

\* LinkGenerator.
LinkOf(inbounds, content, i, remark) ==
    [tag |-> inbounds[i].tag, from |-> i, has |-> inbounds[i].has, remark |-> remark,
     tls |-> IF i \in Tlsed THEN content ELSE 0]
LinksOf(inbounds, content, row) ==
    {LinkOf(inbounds, content, i, row.remark) : i \in row.ins \cap Live(inbounds)}

LinksInit ==
    /\ inb = [i \in LinkInbounds |-> Unborn] /\ tls = 0
    /\ cli = [c \in LinkClients |-> Unborn] /\ tab = cli
    /\ pools = {} /\ chosen = [c \in LinkClients |-> {}]
    /\ pooled = {} /\ reverted = {}

-----------------------------------------------------------------------------
(* Saves of clients.                                                       *)

\* Get and GetAll.
Loaded(row) ==
    IF row.at # "live" THEN row
    ELSE [at |-> "live", ins |-> row.ins, remark |-> row.remark]
LoadClients ==
    /\ tab' = [c \in LinkClients |-> Loaded(cli[c])]
    /\ UNCHANGED <<inb, tls, cli, pools, chosen, pooled, reverted>>

\* updateLinksWithFixedInbounds: the external links are those of the row given.
Relinked(row) == [row EXCEPT !.links = LinksOf(inb, tls, row)]

\* Save of a new client, and of one the browser has loaded; the row must be there
\* then, but may have changed since.
SaveOneClient(c) ==
    /\ Born(cli, c) \/ (c \in Live(cli) \cap Live(tab))
    /\ \E ins \in SUBSET (Live(inb) \cup IF c \in Live(tab) THEN tab[c].ins ELSE {}),
          remark \in Contents, ext \in SUBSET External :
         /\ cli' = [cli EXCEPT ![c] = Relinked(ClientRow(ins, remark, {}, ext))]
         /\ chosen' = [chosen EXCEPT ![c] = ext]
    /\ reverted' = reverted \ {c} /\ pooled' = pooled \ {c}
    /\ UNCHANGED <<inb, tls, tab, pools>>

\* findInboundsChanges, for a client whose name, config and state are as before.
Changed(c, row) == row.ins # cli[c].ins

\* The edit of several clients as they were loaded; the links and the config are
\* those of the rows.  Links are made again for all of them or for none.
EditBulk(cs) ==
    /\ cs # {} /\ cs \subseteq Live(cli) \cap Live(tab)
    /\ \E more, less \in SUBSET Live(inb) :
         /\ more = {} \/ less = {}
         /\ LET edited(c) == [cli[c] EXCEPT !.ins = (tab[c].ins \cup more) \ less,
                                            !.remark = tab[c].remark]
                relinks == \E c \in cs : Changed(c, edited(c))
            IN  /\ cli' = [c \in LinkClients |->
                             IF c \notin cs THEN cli[c]
                             ELSE IF relinks THEN Relinked(edited(c)) ELSE edited(c)]
                /\ reverted' = IF relinks THEN reverted \ cs
                               ELSE reverted \cup {c \in cs : tab[c].remark # cli[c].remark}
    /\ UNCHANGED <<inb, tls, tab, pools, chosen, pooled>>

DeleteClients(cs) ==
    /\ cs # {} /\ cs \subseteq Live(cli)
    /\ cli' = [c \in LinkClients |-> IF c \in cs THEN Dead ELSE cli[c]]
    /\ chosen' = [c \in LinkClients |-> IF c \in cs THEN {} ELSE chosen[c]]
    /\ pooled' = pooled \ cs /\ reverted' = reverted \ cs
    /\ UNCHANGED <<inb, tls, tab, pools>>

-----------------------------------------------------------------------------
(* Saves of inbounds and of the TLS row.                                   *)

Users(is) == {c \in Live(cli) : cli[c].ins \cap is # {}}
TagFree(tag, i) == \A j \in Live(inb) \ {i} : inb[j].tag # tag
Others(c, tags) == {l \in cli[c].links : l.tag \notin tags}

\* UpdateClientsOnInboundAdd; what has the name of the inbound goes, of any type.
NewInbound(i) ==
    /\ Born(inb, i)
    /\ \E tag \in LinkTags, content \in Contents, cs \in SUBSET Live(cli) :
         /\ TagFree(tag, i)
         /\ inb' = [inb EXCEPT ![i] = InboundRow(tag, content)]
         /\ cli' = [c \in LinkClients |->
              IF c \notin cs THEN cli[c]
              ELSE [cli[c] EXCEPT !.ins = @ \cup {i}, !.ext = @ \ {tag},
                      !.links = {LinkOf(inb', tls, i, cli[c].remark)} \cup Others(c, {tag})]]
    /\ UNCHANGED <<tls, tab, pools, chosen, pooled, reverted>>

\* A mutant: the link with the former tag is not looked for.
ReplacedNew(old, new) == new

\* The tags of the links that are made again.
Replaced(old, new) == old \cup new

\* UpdateLinksByInboundChange for inbounds is with their former tags, where after
\* are the inbounds and content the TLS row as they are saved.
LinksFollow(is, old, after, content) ==
    cli' = [c \in LinkClients |->
      IF c \notin Users(is) THEN cli[c]
      ELSE [cli[c] EXCEPT !.links =
             {LinkOf(after, content, i, cli[c].remark) : i \in is \cap cli[c].ins}
             \cup Others(c, Replaced(old, {after[i].tag : i \in is \cap cli[c].ins}))]]

EditInbound(i) ==
    /\ i \in Live(inb)
    /\ \E tag \in LinkTags, content \in Contents :
         /\ TagFree(tag, i)
         /\ inb' = [inb EXCEPT ![i] = InboundRow(tag, content)]
         /\ LinksFollow({i}, {inb[i].tag}, inb', tls)
    /\ UNCHANGED <<tls, tab, pools, chosen, pooled, reverted>>

EditTls ==
    /\ tls' = 1 - tls
    /\ LinksFollow(Live(inb) \cap Tlsed, {}, inb, tls')
    /\ UNCHANGED <<inb, tab, pools, chosen, pooled, reverted>>

\* UpdateClientsOnInboundDelete.
DeleteInbound(i) ==
    /\ i \in Live(inb)
    /\ inb' = [inb EXCEPT ![i] = Dead]
    /\ cli' = [c \in LinkClients |->
         IF c \notin Users({i}) THEN cli[c]
         ELSE [cli[c] EXCEPT !.ins = @ \ {i}, !.ext = @ \ {inb[i].tag},
                             !.links = Others(c, {inb[i].tag})]]
    /\ UNCHANGED <<tls, tab, pools, chosen, pooled, reverted>>

-----------------------------------------------------------------------------
(* A relay pool has an inbound and a client for each item.                 *)

CreateRelay(i, c) ==
    /\ <<i, c>> \in Relays /\ Born(inb, i) /\ Born(cli, c)
    /\ \E tag \in LinkTags :
         /\ TagFree(tag, i)
         /\ inb' = [inb EXCEPT ![i] = InboundRow(tag, 0)]
         /\ cli' = [cli EXCEPT ![c] =
              ClientRow({i}, 0, {LinkOf(inb', tls, i, 0)}, {})]
    /\ pools' = pools \cup {<<i, c>>}
    /\ UNCHANGED <<tls, tab, chosen, pooled, reverted>>

\* Neither the other clients of the inbound nor their links are looked at.
DeleteRelay(i, c) ==
    /\ <<i, c>> \in pools
    /\ inb' = [inb EXCEPT ![i] = Dead] /\ cli' = [cli EXCEPT ![c] = Dead]
    /\ pools' = pools \ {<<i, c>>}
    /\ chosen' = [chosen EXCEPT ![c] = {}]
    /\ pooled' = (pooled \cup Users({i})) \ {c}
    /\ reverted' = reverted \ {c}
    /\ UNCHANGED <<tls, tab>>

\* repairRelayIPv6ConnectionHost, at every start: the host of the inbound is that
\* of the pool again, and its link the only one of the pool's client.
RepairRelay(i, c) ==
    /\ <<i, c>> \in pools /\ i \in Live(inb)
    /\ inb' = [inb EXCEPT ![i].has = 0]
    /\ cli' = IF c \in Live(cli)
              THEN [cli EXCEPT ![c].links = {LinkOf(inb', tls, i, 0)}, ![c].ext = {}]
              ELSE cli
    /\ pooled' = pooled \cup Users({i}) \cup (Live(cli) \cap {c})
    /\ UNCHANGED <<tls, tab, pools, chosen, reverted>>

LinksNext ==
    \/ LoadClients \/ EditTls
    \/ \E c \in LinkClients : SaveOneClient(c)
    \/ \E cs \in SUBSET LinkClients : EditBulk(cs) \/ DeleteClients(cs)
    \/ \E i \in LinkInbounds : NewInbound(i) \/ EditInbound(i) \/ DeleteInbound(i)
    \/ \E i \in LinkInbounds, c \in LinkClients :
         CreateRelay(i, c) \/ DeleteRelay(i, c) \/ RepairRelay(i, c)

LinksSpec == LinksInit /\ [][LinksNext]_linkvars

-----------------------------------------------------------------------------
LinksTypeOK ==
    /\ \A i \in Live(inb) : inb[i].tag \in LinkTags /\ inb[i].has \in Contents
    /\ \A i, j \in Live(inb) : i # j => inb[i].tag # inb[j].tag
    /\ tls \in Contents /\ pooled \cup reverted \subseteq LinkClients
    /\ \A c \in Live(cli) : cli[c].ins \subseteq LinkInbounds /\ cli[c].ext \subseteq External

(* Every client has a current link for each of its inbounds that exists    *)
(* and no other, whichever rows have been renamed, edited or deleted and   *)
(* however old the rows were that a browser saved; until a pool deletes or *)
(* repairs an inbound that other clients have as well, or a bulk edit sets *)
(* back a remark (client.go:131, 200, 263, 313, 360).  External links stay *)
(* as the user saved them, unless they have the name of an inbound.        *)
LinksAreCurrent ==
    \A c \in Live(cli) \ pooled :
       /\ c \in reverted \/ cli[c].links = LinksOf(inb, tls, cli[c])
       /\ chosen[c] \ LinkTags \subseteq cli[c].ext
===============================================================================
