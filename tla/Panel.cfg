SPECIFICATION PanelSpec
CONSTANTS
  Inbounds = {i1}
  Outbounds = {o1}
  Endpoints = {e1}
  Services = {s1}
  WithTls = {i1, s1}
  Editors = {ed}
  Browser = browser
  NoOne = none
  SafeModes = {TRUE, FALSE}
  MaxRevision = 3
  Clients = {1, 2}
  Boxed = {in}
  Plans <- ThePlans
  Volume = 0
  MaxSent = 1
  MaxClock = 1
  MaxSaves = 1
  PoolCount = 2
  MaxConfigSaves = 1
  Count <- TwoAndOne
  MaxPort = 4
  Taken = {2}
  None = none
  Tabs = {t1, t2}
  Names = {admin, bob}
  Words = {w1, w2}
  Admin = admin
  Default = w1
  MaxTokens = 1
  Files = 3
  MaxRows = 1
  LinkClients = {1, 2}
  LinkInbounds = {1, 2}
  LinkTags = {g1, g2}
  Tlsed = {1}
  External = {x}
  Relays <- AnItem
INVARIANTS PanelTypeOK CoreFollowsSaves XrayFollowsSaves
           EnabledClientsAreServed NoConnectionSurvives NeverOverbilled
           RoutesHold RowsAreKept
           AccountsHold LinksAreCurrent
PROPERTIES RemoteEditsAreFresh UserRulesStay
CHECK_DEADLOCK FALSE
