-------------------------------- MODULE MCPanel --------------------------------
(* Instances of the components behind the panel's own requests: the saving of  *)
(* configurations (ConfigSave), the quota of clients (ClientQuota), the routes *)
(* of relay pools (RelayRoutes), the API tokens (ApiTokens), the import of the *)
(* database (DbImport) and the links of clients (ClientLinks).  They share no  *)
(* variable: a behaviour moves one of them and leaves the others in their      *)
(* initial states.                                                             *)
EXTENDS ConfigSave, ClientQuota, RelayRoutes, ApiTokens, DbImport, ClientLinks

VARIABLE part    \* the component that moves

allvars   == <<part, vars, qvars, routevars, tokenvars, dbvars, linkvars>>

PanelInit ==
  /\ part \in {"saves", "quota", "routes", "tokens", "import", "links"}
  /\ Init /\ QuotaInit /\ RoutesInit /\ TokensInit /\ DbInit /\ LinksInit
  /\ part # "quota" => \A c \in Clients : row[c].delay
  /\ part # "saves" => ~safe

Saving ==
  /\ part = "saves" /\ Next
  /\ UNCHANGED <<part, qvars, routevars, tokenvars, dbvars, linkvars>>
\* One of the clients has traffic.
Billing ==
  /\ part = "quota" /\ QuotaNext
  /\ \A c, d \in Clients : sent'[c] # 0 /\ sent'[d] # 0 => c = d
  /\ UNCHANGED <<part, vars, routevars, tokenvars, dbvars, linkvars>>
Routing ==
  /\ part = "routes" /\ RoutesNext
  /\ UNCHANGED <<part, vars, qvars, tokenvars, dbvars, linkvars>>
Admitting ==
  /\ part = "tokens" /\ TokensNext
  /\ UNCHANGED <<part, vars, qvars, routevars, dbvars, linkvars>>
Importing ==
  /\ part = "import" /\ DbNext
  /\ UNCHANGED <<part, vars, qvars, routevars, tokenvars, linkvars>>
\* A second client comes without a second inbound, external links and another
\* content of the TLS row.
Linking ==
  /\ part = "links" /\ LinksNext
  /\ cli'[2] # Unborn => inb'[2] = Unborn /\ tls' = 0
                      /\ \A c \in LinkClients : chosen'[c] = {}
  /\ UNCHANGED <<part, vars, qvars, routevars, tokenvars, dbvars>>

PanelNext == Saving \/ Billing \/ Routing \/ Admitting \/ Importing \/ Linking

PanelSpec == PanelInit /\ [][PanelNext]_allvars

\* Clients that are billed in periods or without, and such clients whose period
\* or expiry date is set at their first traffic.
Plan(d, a) == [delay |-> d, auto |-> a]
ThePlans   == { <<Plan(d, TRUE), Plan(d, FALSE)>> : d \in BOOLEAN }

\* The first pool has two items.
TwoAndOne == <<2, 1>>

\* An item of a pool has the first inbound and the second client.
AnItem == {<<1, 2>>}

-----------------------------------------------------------------------------
(* What the other components' initial states satisfy is not asked in every     *)
(* state of the one that moves.                                                *)

(* The type invariants of the six. *)
PanelTypeOK ==
  /\ part = "saves" => TypeOK
  /\ part = "quota" => QuotaTypeOK
  /\ part = "routes" => RoutesTypeOK
  /\ part = "tokens" => TokensTypeOK
  /\ part = "import" => DbTypeOK
  /\ part = "links" => LinksTypeOK
===============================================================================
