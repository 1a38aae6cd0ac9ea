--------------------------- MODULE ConfigSaveProofs ---------------------------
(***************************************************************************)
(* Proofs about ConfigSave, for any objects, editors and number of         *)
(* changes.  SaveInv says, for each phase of a save, which objects of the  *)
(* running core are already as the next rows want them, which are still as *)
(* the committed rows have them, and which one is out; what a start in     *)
(* progress has read; and what a remote editor has seen.                   *)
(***************************************************************************)
EXTENDS ConfigSave, TLAPS

\* A save that has not committed.
Pre == {"runtime", "rows", "check"}

\* The core is built alike from both as far as os go.
SameBox(r, s, os) == \A o \in os : BoxConfig(r).obj[o] = BoxConfig(s).obj[o]

\* What a request asks of the core and of Xray: whatever it changes for sing-box
\* is among the objects to patch, and whatever it changes for Xray it tells.
Request(kind, next, todo, affects) ==
  /\ kind \in Kinds /\ next \in Rows /\ todo \subseteq Objects /\ affects \in BOOLEAN
  /\ SameBox(next, rows, Objects \ todo)
  /\ kind # "config" => next.base = rows.base
  /\ kind \in {"config", "settings"} =>
       todo = {} /\ next.obj = rows.obj /\ next.xray = rows.xray /\ ~affects
  /\ ~affects => XrayConfig(next) = XrayConfig(rows)

\* The save in progress and the rows.
Shape ==
  /\ TypeOK
  /\ save.phase \in Pre => revision <= MaxRevision
  /\ save.phase = "idle" => save = Idle
  /\ save.phase # "idle" => save.by # NoOne /\ save.kind # "none"
  /\ save.phase = "runtime" => ~save.skipped /\ save.kind \notin {"config", "settings"}
  /\ save.gone # NoOne => /\ save.phase = "runtime" /\ save.gone \in save.todo
                          /\ save.gone \notin save.next.xray
  /\ save.phase \in Pre =>
       /\ save.kind # "config" => save.next.base = rows.base
       /\ save.kind \in {"config", "settings"} =>
            save.next.obj = rows.obj /\ save.next.xray = rows.xray
  /\ save.phase = "rows" /\ (RowsFirst(save.kind) \/ save.skipped) =>
       SameBox(save.next, rows, Objects \ save.todo)

\* What a core that is up and has no excuse runs.
Runs ==
  /\ save.phase = "idle" => live = BoxConfig(rows)
  /\ save.phase = "runtime" =>
       /\ live.base = rows.base
       /\ \A o \in Objects :
            live.obj[o] = IF o \notin save.todo THEN BoxConfig(save.next).obj[o]
                          ELSE IF o = save.gone THEN 0 ELSE BoxConfig(rows).obj[o]
  /\ save.phase = "rows" /\ (RowsFirst(save.kind) \/ save.skipped) => live = BoxConfig(rows)
  /\ save.phase = "check" /\ save.skipped => live = BoxConfig(rows)
  /\ save.phase = "check" \/ (save.phase = "rows" /\ ~RowsFirst(save.kind)) =>
       save.skipped \/ (live.base = rows.base /\ live.obj = BoxConfig(save.next).obj)
  /\ save.phase = "after" /\ save.kind # "config" => live = BoxConfig(rows)

\* A start in progress has read the committed rows, unless drift tells.
CoreInv ==
  /\ Busy => ~up
  /\ Busy /\ drift = {} =>
       /\ starter.rows = rows
       /\ save.phase # "idle" => save.skipped /\ save.phase \in {"rows", "check"}
  /\ up /\ drift = {} => Runs

\* A save that is not said to affect Xray leaves its inbounds as they are.
XrayInv ==
  /\ save.kind \in {"config", "settings"} => ~save.affects
  /\ save.phase \in Pre /\ ~save.affects => XrayConfig(save.next) = XrayConfig(rows)
  /\ xup /\ xdrift = {} /\ (save.phase = "after" => ~save.affects) => xlive = XrayConfig(rows)

\* The editor is in the middle of a quick add.
Continues(e) == edit[e].goal # "edit" /\ save.kind # "inbounds"

\* An editor whose revision is the last one has seen the committed rows.
EditInv(e) ==
  /\ edit[e].rev <= revision
  /\ edit[e].phase = "ready" /\ edit[e].rev = revision => edit[e].seen = rows.obj
  /\ save.by = e => edit[e].phase = "ready"
  /\ save.by = e /\ save.phase \in Pre => /\ edit[e].seen = rows.obj
                                          /\ Continues(e) => save.next.obj = rows.obj
  /\ save.by = e /\ save.phase = "after" /\ Continues(e) => edit[e].seen = rows.obj

SaveInv == Shape /\ CoreInv /\ XrayInv /\ \A e \in Editors : EditInv(e)

-----------------------------------------------------------------------------
USE SaveAssumption

\* The configurations of the two cores.
BoxTypes == [obj : [Objects -> Stamps], base : Stamps]

LEMMA BoxIs ==
  ASSUME NEW r \in Rows
  PROVE  /\ BoxConfig(r) \in BoxTypes /\ BoxConfig(r).base = r.base
         /\ \A o \in Objects : BoxConfig(r).obj[o] = IF o \in r.xray THEN 0 ELSE r.obj[o]
BY DEF BoxTypes, BoxConfig, Rows, Stamps

LEMMA BoxSame ==
  ASSUME NEW r \in Rows, NEW l \in BoxTypes, l.base = r.base,
         \A o \in Objects : l.obj[o] = BoxConfig(r).obj[o]
  PROVE  l = BoxConfig(r)
<1>1. l.obj = BoxConfig(r).obj
  BY BoxIs DEF BoxTypes
<1> QED
  BY <1>1, BoxIs DEF BoxTypes

LEMMA XrayIs ==
  ASSUME NEW r \in Rows
  PROVE  /\ XrayConfig(r) \in [Inbounds -> Stamps]
         /\ \A o \in Inbounds : XrayConfig(r)[o] = IF o \in r.xray THEN r.obj[o] ELSE 0
BY DEF XrayConfig, Rows, Stamps, Objects

LEMMA XraySame ==
  ASSUME NEW r \in Rows, NEW s \in Rows,
         \A o \in Inbounds : XrayConfig(r)[o] = XrayConfig(s)[o]
  PROVE  XrayConfig(r) = XrayConfig(s)
BY XrayIs

LEMMA Nones ==
  /\ NoRows \in Rows /\ NoConfig \in BoxTypes /\ NoXray \in [Inbounds -> Stamps]
<1>1. NoRows \in Rows
  BY DEF NoRows, Nothing, Rows, Stamps
<1> QED
  BY <1>1, BoxIs, XrayIs DEF NoConfig, NoXray

-----------------------------------------------------------------------------
\* What the requests stage.
LEMMA WritesIs ==
  ASSUME Shape, revision < MaxRevision, NEW os \in SUBSET Objects
  PROVE  /\ Writes(os) \in Rows /\ Writes(os).xray = rows.xray /\ Writes(os).base = rows.base
         /\ \A o \in Objects : Writes(os).obj[o] = IF o \in os THEN Stamp ELSE rows.obj[o]
BY DEF Writes, Shape, TypeOK, Rows, Stamps, Stamp, Changes

\* The next rows differ in what os are for sing-box and for Xray.
LEMMA WritesAsk ==
  ASSUME Shape, revision < MaxRevision, NEW os \in SUBSET Objects
  PROVE  /\ SameBox(Writes(os), rows, Objects \ (os \ rows.xray))
         /\ os \cap rows.xray = {} => XrayConfig(Writes(os)) = XrayConfig(rows)
<1>1. rows \in Rows /\ Writes(os) \in Rows
  BY WritesIs DEF Shape, TypeOK
<1>2. SameBox(Writes(os), rows, Objects \ (os \ rows.xray))
  BY <1>1, WritesIs, BoxIs DEF SameBox
<1>3. ASSUME os \cap rows.xray = {} PROVE XrayConfig(Writes(os)) = XrayConfig(rows)
  <2>1. \A o \in Inbounds : XrayConfig(Writes(os))[o] = XrayConfig(rows)[o]
    BY <1>1, <1>3, WritesIs, XrayIs DEF Objects
  <2> QED
    BY <1>1, <2>1, XraySame
<1> QED
  BY <1>2, <1>3

\* A save of kind k begins that asks what it must.
Starts(s, k) ==
  \E next, todo, reads, affects :
    Request(k, next, todo, affects) /\ reads \in BOOLEAN /\ Begin(s, k, next, todo, reads, affects)

\* InboundService.Save on either core, from either core.
LEMMA PutAsks ==
  ASSUME Shape, NEW s, NEW o \in Inbounds, NEW x \in BOOLEAN, PutInbound(s, o, x)
  PROVE  Starts(s, "inbounds")
<1> DEFINE next == [Writes({o}) EXCEPT !.xray = IF x THEN @ \cup {o} ELSE @ \ {o}]
           boxed == ~x \/ (rows.obj[o] # 0 /\ o \notin rows.xray)
           todo == IF boxed THEN {o} ELSE {}
           reads == rows.obj[o] # 0
           affects == InboundAffectsXray(o, x)
<1>1. Begin(s, "inbounds", next, todo, reads, affects) /\ revision < MaxRevision
  BY DEF PutInbound, Begin
<1>2. {o} \in SUBSET Objects /\ o \in Objects /\ rows \in Rows
  BY DEF Objects, Shape, TypeOK
<1>3. /\ Writes({o}) \in Rows /\ Writes({o}).xray = rows.xray /\ Writes({o}).base = rows.base
      /\ \A q \in Objects : Writes({o}).obj[q] = IF q \in {o} THEN Stamp ELSE rows.obj[q]
  BY <1>1, <1>2, WritesIs
<1>4. /\ next \in Rows /\ next.base = rows.base
      /\ next.xray = (IF x THEN rows.xray \cup {o} ELSE rows.xray \ {o})
      /\ \A q \in Objects : q # o => next.obj[q] = rows.obj[q]
  BY <1>3 DEF Rows
<1>5. affects \in BOOLEAN /\ reads \in BOOLEAN /\ todo \subseteq Objects
  BY <1>2 DEF InboundAffectsXray
<1> HIDE DEF next
<1>6. SameBox(next, rows, Objects \ todo)
  <2> SUFFICES ASSUME NEW q \in Objects, q \notin todo
               PROVE  BoxConfig(next).obj[q] = BoxConfig(rows).obj[q]
    BY DEF SameBox
  <2>1. CASE q # o
    <3>1. q \in next.xray <=> q \in rows.xray
      BY <1>4, <2>1
    <3> QED
      BY <1>2, <1>4, <2>1, <3>1, BoxIs
  <2>2. CASE q = o
    <3>1. x /\ (rows.obj[o] = 0 \/ o \in rows.xray) /\ o \in next.xray
      BY <1>4, <2>2
    <3> QED
      BY <1>2, <1>4, <2>2, <3>1, BoxIs
  <2> QED
    BY <2>1, <2>2
<1>7. ASSUME ~affects PROVE XrayConfig(next) = XrayConfig(rows)
  <2>1. ~x /\ o \notin rows.xray /\ next.xray = rows.xray
    BY <1>4, <1>7 DEF InboundAffectsXray
  <2>2. \A q \in Inbounds : XrayConfig(next)[q] = XrayConfig(rows)[q]
    BY <1>2, <1>4, <2>1, XrayIs DEF Objects
  <2> QED
    BY <1>2, <1>4, <2>2, XraySame
<1>8. Request("inbounds", next, todo, affects)
  BY <1>4, <1>5, <1>6, <1>7 DEF Request, Kinds
<1> QED
  BY <1>1, <1>5, <1>8 DEF Starts

\* A row that goes.
LEMMA DropIs ==
  ASSUME Shape, NEW o \in Objects
  PROVE  LET next == [rows EXCEPT !.obj[o] = 0] IN
         /\ next \in Rows /\ next.base = rows.base /\ next.xray = rows.xray
         /\ \A q \in Objects : next.obj[q] = IF q = o THEN 0 ELSE rows.obj[q]
<1> DEFINE next == [rows EXCEPT !.obj[o] = 0]
           obj == [rows.obj EXCEPT ![o] = 0]
<1>1. next = [rows EXCEPT !.obj = obj]
  BY Zenon
<1>2. rows \in Rows /\ rows.obj \in [Objects -> Stamps] /\ 0 \in Stamps
  BY DEF Shape, TypeOK, Rows, Stamps
<1>3. obj \in [Objects -> Stamps] /\ \A q \in Objects : obj[q] = IF q = o THEN 0 ELSE rows.obj[q]
  BY <1>2
<1> HIDE DEF next, obj
<1>4. next \in Rows /\ next.base = rows.base /\ next.xray = rows.xray /\ next.obj = obj
  BY <1>1, <1>2, <1>3 DEF Rows
<1> QED
  BY <1>3, <1>4 DEF next

LEMMA DropAsks ==
  ASSUME Shape, NEW o \in Objects, NEW next \in Rows, next.base = rows.base,
         rows.xray \ {o} \subseteq next.xray, next.xray \subseteq rows.xray,
         \A q \in Objects : next.obj[q] = IF q = o THEN 0 ELSE rows.obj[q]
  PROVE  /\ SameBox(next, rows, Objects \ ({o} \ rows.xray))
         /\ o \notin rows.xray => XrayConfig(next) = XrayConfig(rows)
<1>1. rows \in Rows
  BY DEF Shape, TypeOK
<1>2. SameBox(next, rows, Objects \ ({o} \ rows.xray))
  BY <1>1, BoxIs DEF SameBox
<1>3. ASSUME o \notin rows.xray PROVE XrayConfig(next) = XrayConfig(rows)
  <2>1. \A q \in Inbounds : XrayConfig(next)[q] = XrayConfig(rows)[q]
    BY <1>1, <1>3, XrayIs DEF Objects
  <2> QED
    BY <1>1, <2>1, XraySame
<1> QED
  BY <1>2, <1>3

LEMMA DelAsks ==
  ASSUME Shape, NEW s, NEW o \in Inbounds, DelInbound(s, o)
  PROVE  Starts(s, "inbounds")
<1> DEFINE drop == [rows EXCEPT !.obj[o] = 0]
           next == [rows EXCEPT !.obj[o] = 0, !.xray = @ \ {o}]
<1>1. o \in Objects
  BY DEF Objects
<1>2. /\ drop \in Rows /\ drop.base = rows.base /\ drop.xray = rows.xray
      /\ \A q \in Objects : drop.obj[q] = IF q = o THEN 0 ELSE rows.obj[q]
  BY <1>1, DropIs
<1>3. next = [drop EXCEPT !.xray = @ \ {o}]
  BY Zenon
<1>4. Begin(s, "inbounds", next, {o} \ rows.xray, TRUE, InboundAffectsXray(o, FALSE))
  BY DEF DelInbound
<1> HIDE DEF drop, next
<1>5. /\ next \in Rows /\ next.base = rows.base /\ next.xray = rows.xray \ {o}
      /\ next.obj = drop.obj
  BY <1>2, <1>3 DEF Rows
<1>6. /\ SameBox(next, rows, Objects \ ({o} \ rows.xray))
      /\ o \notin rows.xray => XrayConfig(next) = XrayConfig(rows)
  BY <1>1, <1>2, <1>5, DropAsks
<1>7. Request("inbounds", next, {o} \ rows.xray, InboundAffectsXray(o, FALSE))
  BY <1>1, <1>5, <1>6 DEF Request, Kinds, InboundAffectsXray
<1> QED
  BY <1>4, <1>7 DEF Starts

\* Outbounds, services and endpoints.
LEMMA OthersAsk ==
  ASSUME Shape, NEW s, NEW o \in Objects \ Inbounds, NEW k \in {"outbounds", "services", "endpoints"},
         NEW reads \in BOOLEAN,
         \/ Begin(s, k, Writes({o}), {o}, reads, FALSE)
         \/ Begin(s, k, [rows EXCEPT !.obj[o] = 0], {o}, reads, FALSE)
  PROVE  Starts(s, k)
<1>1. {o} \ rows.xray = {o} /\ {o} \cap rows.xray = {} /\ o \notin rows.xray
  BY DEF Shape, TypeOK, Rows
<1>2. CASE Begin(s, k, Writes({o}), {o}, reads, FALSE)
  <2>1. revision < MaxRevision /\ {o} \in SUBSET Objects
    BY <1>2 DEF Begin
  <2>2. Request(k, Writes({o}), {o}, FALSE)
    BY <1>1, <2>1, WritesIs, WritesAsk DEF Request, Kinds
  <2> QED
    BY <1>2, <2>2 DEF Starts
<1>3. CASE Begin(s, k, [rows EXCEPT !.obj[o] = 0], {o}, reads, FALSE)
  <2> DEFINE next == [rows EXCEPT !.obj[o] = 0]
  <2>1. /\ next \in Rows /\ next.base = rows.base /\ next.xray = rows.xray
        /\ \A q \in Objects : next.obj[q] = IF q = o THEN 0 ELSE rows.obj[q]
    BY DropIs
  <2> HIDE DEF next
  <2>2. SameBox(next, rows, Objects \ {o}) /\ XrayConfig(next) = XrayConfig(rows)
    <3>1. SameBox(next, rows, Objects \ ({o} \ rows.xray)) /\ XrayConfig(next) = XrayConfig(rows)
      BY <1>1, <2>1, DropAsks
    <3> QED
      BY <1>1, <3>1
  <2>3. Request(k, next, {o}, FALSE)
    BY <2>1, <2>2 DEF Request, Kinds
  <2> QED
    BY <1>3, <2>3 DEF Starts, next
<1> QED
  BY <1>2, <1>3

LEMMA ClientsAsk ==
  ASSUME Shape, NEW s, NEW os \in SUBSET Inbounds, SaveClients(s, os)
  PROVE  /\ Starts(s, "clients")
         /\ os = {} => Writes(os).obj = rows.obj
<1>1. revision < MaxRevision /\ os \in SUBSET Objects
  BY DEF SaveClients, Begin, Objects
<1>2. Request("clients", Writes(os), os \ rows.xray, XrayAmong(os))
  BY <1>1, WritesIs, WritesAsk DEF Request, Kinds, XrayAmong
<1>3. os = {} => Writes(os).obj = rows.obj
  BY <1>1, WritesIs DEF Shape, TypeOK, Rows
<1> QED
  BY <1>2, <1>3 DEF Starts, SaveClients

LEMMA TlsAsks == ASSUME Shape, NEW s, SaveTls(s) PROVE Starts(s, "tls")
<1> DEFINE users == Present(WithTls)
<1>1. revision < MaxRevision /\ users \in SUBSET Objects /\ users \subseteq WithTls
  BY DEF SaveTls, Begin, Objects, Present
<1>2. Begin(s, "tls", Writes(users), users \ rows.xray, FALSE, XrayUsesTls)
  BY DEF SaveTls
<1> HIDE DEF users
<1>3. Request("tls", Writes(users), users \ rows.xray, XrayUsesTls)
  BY <1>1, WritesIs, WritesAsk DEF Request, Kinds, XrayUsesTls
<1> QED
  BY <1>2, <1>3 DEF Starts

\* Requests that change no object.
LEMMA PlainAsk ==
  ASSUME Shape, NEW s, NEW k \in {"config", "settings", "tls"}, NEW reads \in BOOLEAN,
         NEW base, base = rows.base \/ (k = "config" /\ base = Stamp),
         Begin(s, k, [rows EXCEPT !.base = base], {}, reads, FALSE)
  PROVE  Starts(s, k)
<1> DEFINE next == [rows EXCEPT !.base = base]
<1>1. rows \in Rows /\ revision < MaxRevision
  BY DEF Shape, TypeOK, Begin
<1>2. next \in Rows /\ next.obj = rows.obj /\ next.xray = rows.xray /\ next.base = base
  BY <1>1 DEF Rows, Stamps, Stamp, Shape, TypeOK, Changes
<1>3. Begin(s, k, next, {}, reads, FALSE)
  OBVIOUS
<1> HIDE DEF next
<1>4. XrayConfig(next) = XrayConfig(rows) /\ SameBox(next, rows, Objects)
  BY <1>2 DEF XrayConfig, SameBox, BoxConfig
<1>5. Request(k, next, {}, FALSE)
  BY <1>2, <1>4 DEF Request, Kinds
<1> QED
  BY <1>3, <1>5 DEF Starts

-----------------------------------------------------------------------------
\* The conjuncts of TypeOK, now and after a step.
SaveTypes == [by : Savers \cup {NoOne},
              phase : {"idle", "runtime", "rows", "check", "after"},
              kind : Kinds \cup {"none"}, next : Rows, todo : SUBSET Objects,
              gone : Objects \cup {NoOne}, skipped : BOOLEAN, reads : BOOLEAN, stale : BOOLEAN,
              affects : BOOLEAN]
EditTypes == [phase : {"idle", "reading", "ready"}, rev : Changes,
              seen : [Objects -> Stamps], goal : {"edit", "client", "inbound"}]

LEMMA Typed ==
  TypeOK <=> /\ rows \in Rows /\ revision \in Changes /\ up \in BOOLEAN /\ xup \in BOOLEAN
             /\ live \in BoxTypes /\ xlive \in [Inbounds -> Stamps]
             /\ starter \in [phase : {"idle", "loaded"}, rows : Rows]
             /\ save \in SaveTypes /\ edit \in [Editors -> EditTypes]
             /\ drift \subseteq {"refused", "crossed"}
             /\ xdrift \subseteq {"refused", "skipped"}
             /\ safe \in BOOLEAN
BY DEF TypeOK, SaveTypes, EditTypes, BoxTypes

LEMMA TypedNext ==
  TypeOK' <=> /\ rows' \in Rows /\ revision' \in Changes /\ up' \in BOOLEAN /\ xup' \in BOOLEAN
              /\ live' \in BoxTypes /\ xlive' \in [Inbounds -> Stamps]
              /\ starter' \in [phase : {"idle", "loaded"}, rows : Rows]
              /\ save' \in SaveTypes /\ edit' \in [Editors -> EditTypes]
              /\ drift' \subseteq {"refused", "crossed"}
              /\ xdrift' \subseteq {"refused", "skipped"}
              /\ safe' \in BOOLEAN
BY DEF TypeOK, SaveTypes, EditTypes, BoxTypes

LEMMA IdleIs ==
  /\ Idle \in SaveTypes /\ Idle.by = NoOne /\ Idle.phase = "idle" /\ Idle.kind = "none"
  /\ Idle.gone = NoOne /\ Idle.skipped = FALSE /\ Idle.affects = FALSE
BY Nones DEF Idle, SaveTypes

LEMMA NoEditIs ==
  NoEdit \in EditTypes /\ NoEdit.phase = "idle" /\ NoEdit.rev = 0 /\ NoEdit.goal = "edit"
<1>1. Nothing \in [Objects -> Stamps] /\ 0 \in Changes
  BY DEF Nothing, Stamps, Changes
<1> QED
  BY <1>1 DEF NoEdit, EditTypes

LEMMA NotStartingIs ==
  NotStarting \in [phase : {"idle", "loaded"}, rows : Rows] /\ NotStarting.phase = "idle"
BY Nones DEF NotStarting

LEMMA Revisions == ASSUME Shape PROVE revision \in Nat /\ MaxRevision \in Nat
BY DEF Shape, TypeOK, Changes

-----------------------------------------------------------------------------
\* A request begins.  What it means for its editor is said apart.

LEMMA BeginIs ==
  ASSUME NEW s, NEW kind, NEW next, NEW todo, NEW reads, NEW affects,
         Begin(s, kind, next, todo, reads, affects)
  PROVE  save' = [by |-> s, kind |-> kind, next |-> next, affects |-> affects, todo |-> todo,
                  reads |-> reads, skipped |-> ~up, gone |-> NoOne, stale |-> FALSE,
                  phase |-> IF up /\ todo # {} /\ ~RowsFirst(kind) THEN "runtime" ELSE "rows"]
BY DEF Begin, Idle

LEMMA BeginNext ==
  ASSUME NEW s, NEW kind, NEW next, NEW todo, NEW reads, NEW affects,
         Begin(s, kind, next, todo, reads, affects)
  PROVE  save'.next = next
BY DEF Begin, Idle

LEMMA BeginKeeps ==
  ASSUME SaveInv, NEW s \in Savers, NEW k, Starts(s, k), edit' \in [Editors -> EditTypes]
  PROVE  Shape' /\ CoreInv' /\ XrayInv' /\ save'.by = s /\ save'.phase \in Pre /\ save'.kind = k
<1>1. PICK next, todo, reads, affects :
        Request(k, next, todo, affects) /\ reads \in BOOLEAN /\ Begin(s, k, next, todo, reads, affects)
  BY DEF Starts
<1>2. /\ save' \in SaveTypes /\ save'.by = s /\ save'.kind = k /\ save'.next = next
      /\ save'.affects = affects /\ save'.todo = todo /\ save'.skipped = ~up
      /\ save'.gone = NoOne
      /\ save'.phase = (IF up /\ todo # {} /\ ~RowsFirst(k) THEN "runtime" ELSE "rows")
  <2>1. save' = [by |-> s, kind |-> k, next |-> next, affects |-> affects, todo |-> todo,
                 reads |-> reads, skipped |-> ~up, gone |-> NoOne, stale |-> FALSE,
                 phase |-> IF up /\ todo # {} /\ ~RowsFirst(k) THEN "runtime" ELSE "rows"]
    BY <1>1, BeginIs
  <2>2. /\ k \in Kinds /\ next \in Rows /\ todo \in SUBSET Objects /\ affects \in BOOLEAN
        /\ reads \in BOOLEAN /\ (~up) \in BOOLEAN
    BY <1>1 DEF Request
  <2>3. (IF up /\ todo # {} /\ ~RowsFirst(k) THEN "runtime" ELSE "rows") \in {"runtime", "rows"}
    OBVIOUS
  <2> QED
    BY <2>1, <2>2, <2>3 DEF SaveTypes
<1>3. /\ rows' = rows /\ revision' = revision /\ cores' = cores /\ starter' = starter
      /\ drift' = drift /\ xdrift' = xdrift /\ safe' = safe
      /\ revision < MaxRevision /\ save = Idle
      /\ up' = up /\ live' = live /\ xup' = xup /\ xlive' = xlive
  BY <1>1 DEF Begin, Free, cores
<1>4. s # NoOne /\ k # "none" /\ rows \in Rows /\ live \in BoxTypes /\ revision \in Nat
  BY <1>1, Revisions DEF Request, Kinds, SaveInv, Shape, TypeOK, BoxTypes
<1>5. Shape'
  <2>1. TypeOK'
    BY <1>2, <1>3, Typed, TypedNext DEF SaveInv, Shape
  <2>2. revision' <= MaxRevision
    BY <1>3, <1>4
  <2>3. save'.phase = "runtime" => ~save'.skipped /\ save'.kind \notin {"config", "settings"}
    BY <1>1, <1>2 DEF Request
  <2>4. /\ save'.kind # "config" => save'.next.base = rows.base
        /\ save'.kind \in {"config", "settings"} =>
             save'.next.obj = rows.obj /\ save'.next.xray = rows.xray
        /\ SameBox(save'.next, rows, Objects \ save'.todo)
    BY <1>1, <1>2 DEF Request
  <2> QED
    BY <1>2, <1>3, <1>4, <2>1, <2>2, <2>3, <2>4 DEF Shape, Pre
<1>6. CoreInv'
  <2>1. Busy' <=> Busy
    BY <1>3 DEF Busy
  <2>2. Busy /\ drift = {} => starter.rows = rows /\ ~up
    BY DEF SaveInv, CoreInv
  <2>3. ASSUME up, drift = {} PROVE Runs'
    <3>1. live = BoxConfig(rows)
      BY <1>3, <2>3, IdleIs DEF SaveInv, CoreInv, Runs
    <3>2. live.base = rows.base /\ \A o \in Objects : live.obj[o] = BoxConfig(rows).obj[o]
      BY <1>4, <3>1, BoxIs
    <3>3. \A o \in Objects \ todo : BoxConfig(next).obj[o] = BoxConfig(rows).obj[o]
      BY <1>1 DEF Request, SameBox
    <3>4. \A o \in todo : o # NoOne
      BY <1>1 DEF Request
    <3>5. CASE save'.phase = "runtime"
      BY <1>2, <1>3, <3>2, <3>3, <3>4, <3>5 DEF Runs
    <3>6. CASE save'.phase = "rows"
      <4>1. ~save'.skipped
        BY <1>2, <2>3
      <4>2. CASE RowsFirst(k)
        BY <1>2, <1>3, <3>1, <3>6, <4>1, <4>2 DEF Runs
      <4>3. CASE ~RowsFirst(k)
        <5>1. todo = {}
          BY <1>2, <2>3, <3>6, <4>3
        <5>2. next \in Rows /\ \A o \in Objects : live.obj[o] = BoxConfig(next).obj[o]
          BY <1>1, <3>2, <3>3, <5>1 DEF Request
        <5>3. live.obj = BoxConfig(next).obj
          BY <1>4, <5>2, BoxIs DEF BoxTypes
        <5> QED
          BY <1>2, <1>3, <3>1, <3>2, <3>6, <4>1, <4>3, <5>3 DEF Runs
      <4> QED
        BY <4>2, <4>3
    <3> QED
      BY <1>2, <3>5, <3>6
  <2> QED
    BY <1>2, <1>3, <2>1, <2>2, <2>3 DEF CoreInv, SaveInv
<1>7. XrayInv'
  <2>1. save'.kind \in {"config", "settings"} => ~save'.affects
    BY <1>1, <1>2 DEF Request
  <2>2. ~save'.affects => XrayConfig(save'.next) = XrayConfig(rows)
    BY <1>1, <1>2 DEF Request
  <2>3. xup /\ xdrift = {} => xlive = XrayConfig(rows)
    BY <1>3, IdleIs DEF SaveInv, XrayInv
  <2> QED
    BY <1>2, <1>3, <2>1, <2>2, <2>3 DEF XrayInv
<1>8. save'.phase \in Pre
  BY <1>2 DEF Pre
<1> QED
  BY <1>2, <1>5, <1>6, <1>7, <1>8

LEMMA EditKept ==
  ASSUME SaveInv, NEW e \in Editors, edit'[e] = edit[e], rows' = rows, revision' = revision,
         save'.by # e
  PROVE  EditInv(e)'
BY DEF SaveInv, EditInv

LEMMA LocalSaveKeeps == ASSUME SaveInv, LocalSave PROVE SaveInv'
<1>1. Shape /\ Browser \in Savers
  BY DEF SaveInv, Savers
<1>2. \E k : Starts(Browser, k)
  <2>1. ASSUME NEW o \in Inbounds, DelInbound(Browser, o) PROVE Starts(Browser, "inbounds")
    BY <1>1, <2>1, DelAsks
  <2>2. ASSUME NEW o \in Inbounds, NEW x \in BOOLEAN, PutInbound(Browser, o, x)
        PROVE  Starts(Browser, "inbounds")
    BY <1>1, <2>2, PutAsks
  <2>3. ASSUME NEW os \in SUBSET Present(Inbounds), SaveClients(Browser, os)
        PROVE  Starts(Browser, "clients")
    <3>1. os \in SUBSET Inbounds
      BY DEF Present
    <3> QED
      BY <1>1, <2>3, <3>1, ClientsAsk
  <2>4. ASSUME SaveOutbound(Browser) PROVE Starts(Browser, "outbounds")
    <3>1. PICK o \in Outbounds :
            \/ Begin(Browser, "outbounds", Writes({o}), {o}, up /\ rows.obj[o] # 0, FALSE)
            \/ Begin(Browser, "outbounds", [rows EXCEPT !.obj[o] = 0], {o}, FALSE, FALSE)
      BY <2>4 DEF SaveOutbound
    <3>2. o \in Objects \ Inbounds
      BY DEF Objects
    <3> QED
      BY <1>1, <3>1, <3>2, OthersAsk DEF Shape, TypeOK
  <2>5. ASSUME SaveService(Browser) PROVE Starts(Browser, "services")
    <3>1. PICK o \in Services :
            \/ Begin(Browser, "services", Writes({o}), {o}, (up /\ rows.obj[o] # 0) \/ o \in WithTls, FALSE)
            \/ Begin(Browser, "services", [rows EXCEPT !.obj[o] = 0], {o}, FALSE, FALSE)
      BY <2>5 DEF SaveService
    <3>2. o \in Objects \ Inbounds
      BY DEF Objects
    <3> QED
      BY <1>1, <3>1, <3>2, OthersAsk DEF Shape, TypeOK
  <2>6. ASSUME SaveEndpoint(Browser) PROVE Starts(Browser, "endpoints")
    <3>1. PICK o \in Endpoints :
            \/ Begin(Browser, "endpoints", Writes({o}), {o}, rows.obj[o] # 0, FALSE)
            \/ Begin(Browser, "endpoints", [rows EXCEPT !.obj[o] = 0], {o}, FALSE, FALSE)
      BY <2>6 DEF SaveEndpoint
    <3>2. o \in Objects \ Inbounds
      BY DEF Objects
    <3> QED
      BY <1>1, <3>1, <3>2, OthersAsk DEF Shape, TypeOK
  <2>7. ASSUME SaveTls(Browser) PROVE Starts(Browser, "tls")
    BY <1>1, <2>7, TlsAsks
  <2>8. ASSUME SaveBase(Browser) PROVE Starts(Browser, "config")
    BY <1>1, <2>8, PlainAsk DEF SaveBase
  <2>9. ASSUME SaveSettings(Browser) PROVE Starts(Browser, "settings")
    <3>1. rows = [rows EXCEPT !.base = rows.base]
      BY <1>1 DEF Shape, TypeOK, Rows
    <3>2. Begin(Browser, "settings", [rows EXCEPT !.base = rows.base], {}, TRUE, FALSE)
      BY <2>9, <3>1 DEF SaveSettings
    <3> QED
      BY <1>1, <3>2, PlainAsk
  <2> QED
    BY <2>1, <2>2, <2>3, <2>4, <2>5, <2>6, <2>7, <2>8, <2>9 DEF LocalSave
<1>3. edit' = edit /\ edit \in [Editors -> EditTypes]
  BY <1>1, Typed DEF LocalSave, Shape
<1>4. Shape' /\ CoreInv' /\ XrayInv' /\ save'.by = Browser
  BY <1>1, <1>2, <1>3, BeginKeeps
<1>5. rows' = rows /\ revision' = revision
  BY <1>2 DEF Starts, Begin
<1>6. \A e \in Editors : EditInv(e)'
  BY <1>3, <1>4, <1>5, EditKept
<1> QED
  BY <1>4, <1>6 DEF SaveInv

\* A remote request, once its revision has been accepted.
LEMMA AcceptedKeeps ==
  ASSUME SaveInv, NEW e \in Editors, Accepts(e), NEW k, Starts(e, k),
         NEW goal \in {"edit", "client", "inbound"},
         edit' = [edit EXCEPT ![e].goal = goal],
         goal # "edit" /\ k # "inbounds" => save'.next.obj = rows.obj
  PROVE  SaveInv'
<1>1. edit \in [Editors -> EditTypes] /\ e \in Savers
  BY Typed DEF SaveInv, Shape, Savers
<1>2. /\ edit' \in [Editors -> EditTypes] /\ edit'[e].goal = goal /\ edit'[e].phase = edit[e].phase
      /\ edit'[e].rev = edit[e].rev /\ edit'[e].seen = edit[e].seen
      /\ \A d \in Editors \ {e} : edit'[d] = edit[d]
  BY <1>1 DEF EditTypes
<1>3. Shape' /\ CoreInv' /\ XrayInv' /\ save'.by = e /\ save'.phase \in Pre /\ save'.kind = k
  BY <1>1, <1>2, BeginKeeps
<1>4. rows' = rows /\ revision' = revision
  BY DEF Starts, Begin
<1>5. EditInv(e)'
  BY <1>2, <1>3, <1>4 DEF SaveInv, EditInv, Accepts, Continues, Pre
<1>6. \A d \in Editors \ {e} : EditInv(d)'
  BY <1>2, <1>3, <1>4, EditKept
<1> QED
  BY <1>3, <1>5, <1>6 DEF SaveInv

LEMMA RemoteSavesKeep ==
  ASSUME SaveInv, NEW e \in Editors, RemoteSave(e) \/ QuickTls(e) \/ QuickClient(e) \/ QuickInbound(e)
  PROVE  SaveInv'
<1>1. Shape /\ rows \in Rows
  BY DEF SaveInv, Shape, TypeOK
<1>2. edit[e].goal \in {"edit", "client", "inbound"} /\ edit = [edit EXCEPT ![e].goal = edit[e].goal]
  BY Typed DEF SaveInv, Shape, EditTypes
<1>3. CASE RemoteSave(e)
  <2>1. Starts(e, "inbounds")
    BY <1>1, <1>3, DelAsks, PutAsks DEF RemoteSave
  <2> QED
    BY <1>2, <1>3, <2>1, AcceptedKeeps DEF RemoteSave
<1>4. CASE QuickTls(e)
  <2>1. rows = [rows EXCEPT !.base = rows.base]
    BY <1>1 DEF Rows
  <2>2. Starts(e, "tls")
    <3>1. Begin(e, "tls", [rows EXCEPT !.base = rows.base], {}, FALSE, FALSE)
      BY <1>4, <2>1 DEF QuickTls
    <3> QED
      BY <1>1, <3>1, PlainAsk
  <2>3. save'.next = rows
    <3>1. Begin(e, "tls", rows, {}, FALSE, FALSE)
      BY <1>4 DEF QuickTls
    <3> QED
      BY <3>1, BeginNext
  <2> QED
    BY <1>4, <2>2, <2>3, AcceptedKeeps DEF QuickTls
<1>5. CASE QuickClient(e)
  <2>1. Starts(e, "clients") /\ Writes({}).obj = rows.obj
    BY <1>1, <1>5, ClientsAsk DEF QuickClient
  <2>2. save'.next = Writes({})
    <3>1. Begin(e, "clients", Writes({}), {} \ rows.xray, TRUE, XrayAmong({}))
      BY <1>5 DEF QuickClient, SaveClients
    <3> QED
      BY <3>1, BeginNext
  <2> QED
    BY <1>5, <2>1, <2>2, AcceptedKeeps DEF QuickClient
<1>6. CASE QuickInbound(e)
  <2>1. Starts(e, "inbounds")
    BY <1>1, <1>6, PutAsks DEF QuickInbound, FreeTags
  <2> QED
    BY <1>2, <1>6, <2>1, AcceptedKeeps DEF QuickInbound
<1> QED
  BY <1>3, <1>4, <1>5, <1>6

LEMMA ReadsKeep ==
  ASSUME SaveInv, NEW e \in Editors, ReadRevision(e) \/ ReadRows(e) \/ Conflict(e)
  PROVE  SaveInv'
<1>1. /\ rows' = rows /\ revision' = revision /\ starter' = starter /\ save' = save
      /\ drift' = drift /\ xdrift' = xdrift /\ safe' = safe
      /\ up' = up /\ live' = live /\ xup' = xup /\ xlive' = xlive
  BY DEF ReadRevision, ReadRows, Conflict, cores
<1>2. /\ edit \in [Editors -> EditTypes] /\ rows.obj \in [Objects -> Stamps] /\ revision \in Changes
      /\ revision \in Nat
  BY Typed, Revisions DEF SaveInv, Shape, Rows
<1>3. save.by # e
  BY IdleIs DEF SaveInv, EditInv, ReadRevision, ReadRows, Conflict, Free, Savers
<1>4. /\ edit' \in [Editors -> EditTypes]
      /\ \A d \in Editors \ {e} : edit'[d] = edit[d]
      /\ edit'[e].rev <= revision
      /\ edit'[e].phase = "ready" => edit'[e].seen = rows.obj
  <2>1. CASE ReadRevision(e)
    <3>1. edit'[e] = [NoEdit EXCEPT !.phase = "reading", !.rev = revision]
      BY <1>2, <2>1 DEF ReadRevision
    <3>2. edit'[e] = [phase |-> "reading", rev |-> revision, seen |-> Nothing, goal |-> "edit"]
      BY <3>1 DEF NoEdit
    <3> QED
      BY <1>2, <2>1, <3>2, NoEditIs DEF ReadRevision, EditTypes, NoEdit
  <2>2. CASE ReadRows(e)
    <3>1. edit' = [edit EXCEPT ![e] = [@ EXCEPT !.phase = "ready", !.seen = rows.obj]]
      BY <2>2 DEF ReadRows
    <3>2. edit'[e] = [edit[e] EXCEPT !.phase = "ready", !.seen = rows.obj]
      BY <1>2, <3>1
    <3>3. edit[e] \in EditTypes
      BY <1>2
    <3>4. edit'[e] \in EditTypes /\ edit'[e].rev = edit[e].rev /\ edit'[e].seen = rows.obj
      BY <1>2, <3>2, <3>3 DEF EditTypes
    <3> QED
      BY <1>2, <3>1, <3>4 DEF SaveInv, EditInv
  <2>3. CASE Conflict(e)
    BY <1>2, <2>3, NoEditIs DEF Conflict
  <2> QED
    BY <2>1, <2>2, <2>3
<1>5. Shape'
  BY <1>1, <1>4, Typed, TypedNext DEF SaveInv, Shape
<1>6. CoreInv' /\ XrayInv'
  BY <1>1 DEF SaveInv, CoreInv, XrayInv, Busy, Runs
<1>7. EditInv(e)'
  BY <1>1, <1>3, <1>4 DEF EditInv
<1>8. \A d \in Editors \ {e} : EditInv(d)'
  BY <1>1, <1>4 DEF SaveInv, EditInv, Continues
<1> QED
  BY <1>5, <1>6, <1>7, <1>8 DEF SaveInv

-----------------------------------------------------------------------------
\* What patching and starting do to the cores.
LEMMA LiveIs ==
  ASSUME live \in BoxTypes, NEW o \in Objects, NEW v \in Stamps, live' = [live EXCEPT !.obj[o] = v]
  PROVE  /\ live' \in BoxTypes /\ live'.base = live.base
         /\ \A q \in Objects : live'.obj[q] = IF q = o THEN v ELSE live.obj[q]
<1> DEFINE obj == [live.obj EXCEPT ![o] = v]
<1>1. live' = [live EXCEPT !.obj = obj]
  BY Zenon
<1>2. live.obj \in [Objects -> Stamps]
  BY DEF BoxTypes
<1>3. obj \in [Objects -> Stamps] /\ \A q \in Objects : obj[q] = IF q = o THEN v ELSE live.obj[q]
  BY <1>2
<1> HIDE DEF obj
<1>4. live' \in BoxTypes /\ live'.base = live.base /\ live'.obj = obj
  BY <1>1, <1>3 DEF BoxTypes
<1> QED
  BY <1>3, <1>4

LEMMA BootsIs ==
  ASSUME NEW r \in Rows, BootsFrom(r)
  PROVE  up' \in BOOLEAN /\ live' \in BoxTypes /\ (up' => live' = BoxConfig(r))
BY BoxIs, Nones DEF BootsFrom

LEMMA StartsXray ==
  ASSUME NEW r \in Rows, StartXray(r)
  PROVE  /\ xup' \in BOOLEAN /\ xlive' \in [Inbounds -> Stamps] /\ xdrift' = {}
         /\ xup' => xlive' = XrayConfig(r)
BY XrayIs, Nones DEF StartXray

LEMMA EnsureIs ==
  ASSUME SaveInv, EnsureXray
  PROVE  /\ xup' \in BOOLEAN
         /\ xlive' \in [Inbounds -> Stamps] /\ xdrift' \subseteq {"refused", "skipped"}
         /\ (save.phase = "after" => ~save.affects) /\ xup' /\ xdrift' = {} => xlive' = XrayConfig(rows)
<1>1. rows \in Rows
  BY DEF SaveInv, Shape, TypeOK
<1>2. CASE StartXray(rows)
  BY <1>1, <1>2, StartsXray
<1>3. CASE UNCHANGED <<xup, xlive, xdrift>>
  BY <1>3, Typed DEF SaveInv, Shape, XrayInv
<1> QED
  BY <1>2, <1>3 DEF EnsureXray

-----------------------------------------------------------------------------
\* The steps of a save before its commit.

LEMMA StepEdits ==
  ASSUME SaveInv, edit' = edit, rows' = rows, revision' = revision, save.phase \in Pre,
         save'.by = save.by, save'.kind = save.kind, save'.next = save.next, save'.phase \in Pre
  PROVE  \A e \in Editors : EditInv(e)'
BY DEF SaveInv, EditInv, Continues, Pre

LEMMA StepXray ==
  ASSUME SaveInv, rows' = rows, xup' = xup, xlive' = xlive, xdrift' = xdrift, save.phase \in Pre,
         save'.kind = save.kind, save'.next = save.next, save'.phase \in Pre,
         save'.affects = save.affects
  PROVE  XrayInv'
BY DEF SaveInv, XrayInv, Pre

LEMMA DoneIs ==
  ASSUME SaveInv, NEW o \in Objects, Done(o), save.phase = "runtime"
  PROVE  /\ save' \in SaveTypes /\ save'.by = save.by /\ save'.kind = save.kind
         /\ save'.next = save.next /\ save'.affects = save.affects
         /\ save'.skipped = save.skipped
         /\ save'.gone = NoOne /\ save'.todo = save.todo \ {o}
         /\ save'.phase = (IF save.todo \ {o} # {} THEN "runtime"
                           ELSE IF RowsFirst(save.kind) THEN "check" ELSE "rows")
<1>1. save \in SaveTypes
  BY Typed DEF SaveInv, Shape
<1> QED
  BY <1>1 DEF Done, SaveTypes

\* An object is done with, and is as the next rows want it.
LEMMA DoneKeeps ==
  ASSUME SaveInv, NEW o \in save.todo, save.phase = "runtime", up, Done(o), save.gone \in {NoOne, o},
         live' \in BoxTypes, live'.base = live.base,
         \A q \in Objects \ {o} : live'.obj[q] = live.obj[q],
         live'.obj[o] = BoxConfig(save.next).obj[o],
         UNCHANGED <<safe, rows, revision, up, xup, xlive, starter, edit, drift, xdrift>>
  PROVE  SaveInv'
<1>1. save \in SaveTypes /\ o \in Objects /\ rows \in Rows /\ o # NoOne
  BY Typed DEF SaveInv, Shape, SaveTypes
<1>2. /\ save' \in SaveTypes /\ save'.by = save.by /\ save'.kind = save.kind
      /\ save'.next = save.next /\ save'.affects = save.affects /\ save'.skipped = save.skipped
      /\ save'.gone = NoOne /\ save'.todo = save.todo \ {o}
      /\ save'.phase = (IF save.todo \ {o} # {} THEN "runtime"
                        ELSE IF RowsFirst(save.kind) THEN "check" ELSE "rows")
  BY <1>1, DoneIs
<1>3. save'.phase \in Pre /\ save.phase \in Pre
  BY <1>2 DEF Pre
<1>4. Shape'
  <2>1. TypeOK'
    BY <1>2, Typed, TypedNext DEF SaveInv, Shape
  <2>2. save'.phase = "rows" => ~RowsFirst(save'.kind) /\ ~save'.skipped
    BY <1>2 DEF SaveInv, Shape
  <2>3. save'.by # NoOne /\ save'.kind # "none"
    BY <1>2 DEF SaveInv, Shape
  <2> QED
    BY <1>2, <1>3, <2>1, <2>2, <2>3 DEF SaveInv, Shape, Pre
<1>5. CoreInv'
  <2>1. Busy' <=> Busy
    BY DEF Busy
  <2>2. ~Busy
    BY DEF SaveInv, CoreInv
  <2>3. ASSUME drift = {} PROVE Runs'
    <3>1. /\ live.base = rows.base
          /\ \A q \in Objects :
               live.obj[q] = IF q \notin save.todo THEN BoxConfig(save.next).obj[q]
                             ELSE IF q = save.gone THEN 0 ELSE BoxConfig(rows).obj[q]
      BY <2>3 DEF SaveInv, CoreInv, Runs
    <3>2. \A q \in Objects : live'.obj[q] = IF q \notin save'.todo THEN BoxConfig(save.next).obj[q]
                                            ELSE BoxConfig(rows).obj[q]
      BY <1>1, <1>2, <3>1
    <3>3. CASE save'.phase = "runtime"
      <4>1. \A q \in save'.todo : q # NoOne
        BY <1>1, <1>2 DEF SaveTypes
      <4> QED
        BY <1>2, <3>1, <3>2, <3>3, <4>1 DEF Runs
    <3>4. CASE save'.phase # "runtime"
      <4>1. save'.todo = {} /\ save.next \in Rows
        BY <1>1, <1>2, <3>4 DEF SaveTypes
      <4>2. live'.obj = BoxConfig(save.next).obj
        BY <3>2, <4>1, BoxIs DEF BoxTypes
      <4>3. ~save.skipped
        BY DEF SaveInv, Shape
      <4> QED
        BY <1>2, <3>1, <3>4, <4>2, <4>3 DEF Runs
    <3> QED
      BY <3>3, <3>4
  <2> QED
    BY <2>1, <2>2, <2>3 DEF CoreInv
<1> QED
  BY <1>2, <1>3, <1>4, <1>5, StepEdits, StepXray DEF SaveInv

LEMMA RunRemoveKeeps == ASSUME SaveInv, NEW o \in Objects, RunRemove(o) PROVE SaveInv'
<1>1. /\ save \in SaveTypes /\ rows \in Rows /\ live \in BoxTypes /\ 0 \in Stamps /\ o # NoOne
      /\ save.next \in Rows
  BY Typed DEF SaveInv, Shape, SaveTypes, Stamps
<1>2. /\ save.phase = "runtime" /\ o \in save.todo /\ save.gone = NoOne /\ up
      /\ UNCHANGED <<safe, rows, revision, up, xup, xlive, starter, edit, drift, xdrift>>
  BY DEF RunRemove
<1>3. /\ live' \in BoxTypes /\ live'.base = live.base
      /\ \A q \in Objects : live'.obj[q] = IF q = o THEN 0 ELSE live.obj[q]
  BY <1>1, LiveIs DEF RunRemove
<1>4. CASE save.next.obj[o] # 0 /\ o \notin save.next.xray
  <2>1. save' = [save EXCEPT !.gone = o]
    BY <1>4 DEF RunRemove
  <2>2. /\ save' \in SaveTypes /\ save'.by = save.by /\ save'.kind = save.kind
        /\ save'.next = save.next /\ save'.affects = save.affects
        /\ save'.skipped = save.skipped
        /\ save'.gone = o /\ save'.todo = save.todo /\ save'.phase = "runtime"
    BY <1>1, <1>2, <2>1 DEF SaveTypes
  <2>3. save'.phase \in Pre /\ save.phase \in Pre
    BY <1>2, <2>2 DEF Pre
  <2>4. Shape'
    <3>1. TypeOK'
      BY <1>2, <1>3, <2>2, Typed, TypedNext DEF SaveInv, Shape
    <3> QED
      BY <1>2, <1>4, <2>2, <3>1 DEF SaveInv, Shape, Pre
  <2>5. CoreInv'
    <3>1. (Busy' <=> Busy) /\ ~Busy
      BY <1>2 DEF Busy, SaveInv, CoreInv
    <3>2. ASSUME drift = {} PROVE Runs'
      <4>1. /\ live.base = rows.base
            /\ \A q \in Objects :
                 live.obj[q] = IF q \notin save.todo THEN BoxConfig(save.next).obj[q]
                               ELSE IF q = save.gone THEN 0 ELSE BoxConfig(rows).obj[q]
        BY <1>2, <3>2 DEF SaveInv, CoreInv, Runs
      <4>2. \A q \in Objects \ {o} : q \in save.todo => q # save.gone
        BY <1>1, <1>2
      <4>3. \A q \in Objects :
              live'.obj[q] = IF q \notin save'.todo THEN BoxConfig(save.next).obj[q]
                             ELSE IF q = save'.gone THEN 0 ELSE BoxConfig(rows).obj[q]
        BY <1>2, <1>3, <2>2, <4>1, <4>2
      <4> QED
        BY <1>2, <1>3, <2>2, <4>1, <4>3 DEF Runs
    <3> QED
      BY <1>2, <3>1, <3>2 DEF CoreInv
  <2> QED
    BY <1>2, <2>2, <2>3, <2>4, <2>5, StepEdits, StepXray DEF SaveInv
<1>5. CASE ~(save.next.obj[o] # 0 /\ o \notin save.next.xray)
  <2>1. BoxConfig(save.next).obj[o] = 0
    BY <1>1, <1>5, BoxIs
  <2>2. Done(o)
    BY <1>5 DEF RunRemove
  <2> QED
    BY <1>2, <1>3, <2>1, <2>2, DoneKeeps
<1> QED
  BY <1>4, <1>5

LEMMA RunAddKeeps == ASSUME SaveInv, NEW o \in Objects, RunAdd(o) PROVE SaveInv'
<1>1. /\ save \in SaveTypes /\ live \in BoxTypes /\ save.next \in Rows
      /\ save.next.obj[o] \in Stamps
      /\ o # NoOne
  BY Typed DEF SaveInv, Shape, SaveTypes, Rows
<1>2. /\ save.phase = "runtime" /\ save.gone = o /\ up /\ Done(o)
      /\ UNCHANGED <<safe, rows, revision, up, xup, xlive, starter, edit, drift, xdrift>>
  BY DEF RunAdd
<1>3. o \in save.todo /\ o \notin save.next.xray
  BY <1>1, <1>2 DEF SaveInv, Shape
<1>4. /\ live' \in BoxTypes /\ live'.base = live.base
      /\ \A q \in Objects : live'.obj[q] = IF q = o THEN save.next.obj[o] ELSE live.obj[q]
  BY <1>1, LiveIs DEF RunAdd
<1>5. live'.obj[o] = BoxConfig(save.next).obj[o]
  BY <1>1, <1>3, <1>4, BoxIs
<1> QED
  BY <1>2, <1>3, <1>4, <1>5, DoneKeeps

LEMMA WriteRowsKeeps == ASSUME SaveInv, WriteRows PROVE SaveInv'
<1> DEFINE restarts == RowsFirst(save.kind) /\ save.todo # {}
           skipped == IF restarts THEN ~up ELSE save.skipped
           phase == IF restarts /\ up THEN "runtime" ELSE "check"
<1>1. /\ save \in SaveTypes /\ rows \in Rows /\ save.next \in Rows /\ live \in BoxTypes
      /\ save.phase = "rows" /\ up \in BOOLEAN /\ save.todo \subseteq Objects
      /\ save.skipped \in BOOLEAN
      /\ UNCHANGED <<safe, rows, revision, up, live, xup, xlive, starter, edit, drift, xdrift>>
  BY Typed DEF SaveInv, Shape, SaveTypes, WriteRows, cores
<1>2. save' = [save EXCEPT !.skipped = skipped, !.phase = phase]
  BY DEF WriteRows
<1>3. skipped \in BOOLEAN /\ phase \in {"runtime", "check"}
  BY <1>1
<1>4. /\ save' \in SaveTypes /\ save'.by = save.by /\ save'.kind = save.kind
      /\ save'.next = save.next /\ save'.affects = save.affects /\ save'.skipped = skipped
      /\ save'.gone = save.gone /\ save'.todo = save.todo /\ save'.phase = phase
  <2> HIDE DEF skipped, phase
  <2> QED
    BY <1>1, <1>2, <1>3 DEF SaveTypes
<1>5. save'.phase \in Pre /\ save.phase \in Pre
  BY <1>1, <1>4 DEF Pre
<1>6. save.gone = NoOne
  BY <1>1 DEF SaveInv, Shape
<1>7. Shape'
  <2>1. TypeOK'
    BY <1>1, <1>4, Typed, TypedNext DEF SaveInv, Shape
  <2>2. save'.phase = "runtime" => ~save'.skipped /\ save'.kind \notin {"config", "settings"}
    BY <1>4 DEF RowsFirst
  <2> QED
    BY <1>1, <1>4, <1>6, <2>1, <2>2 DEF SaveInv, Shape, Pre
<1>8. CoreInv'
  <2>1. Busy' <=> Busy
    BY <1>1 DEF Busy
  <2>2. Busy /\ drift = {} => starter.rows = rows /\ ~up /\ save.skipped
    BY <1>1 DEF SaveInv, CoreInv
  <2>3. Busy /\ drift = {} => save'.skipped /\ save'.phase = "check"
    BY <1>4, <2>2
  <2>4. ASSUME up, drift = {} PROVE Runs'
    <3>1. CASE restarts
      <4>1. save'.phase = "runtime" /\ live = BoxConfig(rows) /\ SameBox(save.next, rows, Objects \ save.todo)
        BY <1>1, <1>4, <2>4, <3>1 DEF SaveInv, CoreInv, Runs, Shape
      <4>2. \A q \in Objects \ save.todo : live.obj[q] = BoxConfig(save.next).obj[q]
        BY <4>1 DEF SameBox
      <4>3. live.base = rows.base /\ \A q \in save.todo : q # NoOne /\ live.obj[q] = BoxConfig(rows).obj[q]
        BY <1>1, <4>1, BoxIs
      <4> QED
        BY <1>1, <1>4, <1>6, <4>1, <4>2, <4>3 DEF Runs
    <3>2. CASE ~restarts
      <4>1. save'.phase = "check" /\ save'.skipped = save.skipped
        BY <1>4, <3>2
      <4>2. CASE save.skipped
        <5>1. live = BoxConfig(rows)
          BY <1>1, <2>4, <4>2 DEF SaveInv, CoreInv, Runs
        <5> QED
          BY <1>1, <4>1, <4>2, <5>1 DEF Runs
      <4>3. CASE ~save.skipped /\ ~RowsFirst(save.kind)
        <5>1. live.base = rows.base /\ live.obj = BoxConfig(save.next).obj
          BY <1>1, <2>4, <4>3 DEF SaveInv, CoreInv, Runs
        <5> QED
          BY <1>1, <1>4, <4>1, <4>3, <5>1 DEF Runs
      <4>4. CASE ~save.skipped /\ RowsFirst(save.kind)
        <5>1. live = BoxConfig(rows) /\ save.todo = {} /\ SameBox(save.next, rows, Objects \ save.todo)
          BY <1>1, <2>4, <3>2, <4>4 DEF SaveInv, CoreInv, Runs, Shape
        <5>2. live.base = rows.base /\ \A q \in Objects : live.obj[q] = BoxConfig(save.next).obj[q]
          BY <1>1, <5>1, BoxIs DEF SameBox
        <5>3. live.obj = BoxConfig(save.next).obj
          BY <1>1, <5>2, BoxIs DEF BoxTypes
        <5> QED
          BY <1>1, <1>4, <4>1, <4>4, <5>2, <5>3 DEF Runs
      <4> QED
        BY <4>2, <4>3, <4>4
    <3> QED
      BY <3>1, <3>2
  <2>5. Busy => ~up
    BY DEF SaveInv, CoreInv
  <2> QED
    BY <1>1, <2>1, <2>2, <2>3, <2>4, <2>5 DEF CoreInv
<1> QED
  BY <1>1, <1>4, <1>5, <1>7, <1>8, StepEdits, StepXray DEF SaveInv

-----------------------------------------------------------------------------
\* Its end, however it went.

LEMMA AnsweredEdits ==
  ASSUME SaveInv, save' = Idle, rows' = rows, revision' = revision, save.phase # "idle",
         Answered(FALSE) \/ (Answered(TRUE) /\ save.phase = "after")
  PROVE  edit' \in [Editors -> EditTypes] /\ \A e \in Editors : EditInv(e)'
<1>1. edit \in [Editors -> EditTypes] /\ revision \in Changes /\ revision \in Nat
  BY Typed, Revisions DEF SaveInv, Shape
<1>2. \A e \in Editors : save'.by # e
  BY IdleIs DEF Savers
<1>3. CASE edit' = edit
  BY <1>1, <1>2, <1>3, EditKept
<1>4. ASSUME NEW e \in Editors, e = save.by, edit' = [edit EXCEPT ![e] = NoEdit]
      PROVE  edit' \in [Editors -> EditTypes] /\ \A d \in Editors : EditInv(d)'
  <2>1. edit' \in [Editors -> EditTypes]
    BY <1>1, <1>4, NoEditIs
  <2>2. EditInv(e)'
    BY <1>1, <1>2, <1>4, NoEditIs DEF EditInv
  <2>3. \A d \in Editors \ {e} : EditInv(d)'
    BY <1>1, <1>2, <1>4, EditKept
  <2> QED
    BY <2>1, <2>2, <2>3
<1>5. ASSUME NEW e \in Editors, e = save.by, save.phase = "after", Continues(e),
             edit' = [edit EXCEPT ![e] = [@ EXCEPT !.rev = revision]]
      PROVE  edit' \in [Editors -> EditTypes] /\ \A d \in Editors : EditInv(d)'
  <2>1. edit[e] \in EditTypes /\ edit'[e] = [edit[e] EXCEPT !.rev = revision]
    BY <1>1, <1>5
  <2>2. edit'[e] \in EditTypes /\ edit'[e].rev = revision /\ edit'[e].seen = edit[e].seen
    BY <1>1, <2>1 DEF EditTypes
  <2>3. edit' \in [Editors -> EditTypes]
    BY <1>1, <1>5, <2>2
  <2>4. edit[e].seen = rows.obj
    BY <1>5 DEF SaveInv, EditInv
  <2>5. EditInv(e)'
    BY <1>1, <1>2, <1>5, <2>2, <2>4 DEF EditInv
  <2>6. \A d \in Editors \ {e} : EditInv(d)'
    BY <1>1, <1>2, <1>5, EditKept
  <2> QED
    BY <2>3, <2>5, <2>6
<1>6. \/ edit' = edit
      \/ save.by \in Editors /\ edit' = [edit EXCEPT ![save.by] = NoEdit]
      \/ /\ save.by \in Editors /\ save.phase = "after" /\ Continues(save.by)
         /\ edit' = [edit EXCEPT ![save.by] = [@ EXCEPT !.rev = revision]]
  <2>1. CASE Answered(FALSE)
    BY <1>1, <2>1 DEF Answered
  <2>2. CASE Answered(TRUE) /\ save.phase = "after"
    BY <1>1, <2>2 DEF Answered, Continues
  <2> QED
    BY <2>1, <2>2
<1> QED
  BY <1>3, <1>4, <1>5, <1>6

LEMMA EndKeeps ==
  ASSUME SaveInv, save.phase # "idle", save' = Idle, UNCHANGED <<safe, rows, revision, starter>>,
         Answered(FALSE) \/ (Answered(TRUE) /\ save.phase = "after"),
         up' \in BOOLEAN, live' \in BoxTypes, drift' \subseteq {"refused", "crossed"},
         xup' \in BOOLEAN, xlive' \in [Inbounds -> Stamps], xdrift' \subseteq {"refused", "skipped"},
         Busy => ~up' /\ (drift' = {} => drift = {}),
         up' /\ drift' = {} => live' = BoxConfig(rows),
         xup' /\ xdrift' = {} => xlive' = XrayConfig(rows)
  PROVE  SaveInv'
<1>1. edit' \in [Editors -> EditTypes] /\ \A e \in Editors : EditInv(e)'
  BY AnsweredEdits
<1>2. Shape'
  <2>1. TypeOK'
    BY <1>1, Typed, TypedNext, IdleIs DEF SaveInv, Shape
  <2> QED
    BY <2>1, IdleIs DEF Shape, Pre
<1>3. CoreInv'
  <2>1. (Busy' <=> Busy) /\ (Busy /\ drift = {} => starter.rows = rows)
    BY DEF Busy, SaveInv, CoreInv
  <2>2. ASSUME up', drift' = {} PROVE Runs'
    BY <2>2, IdleIs DEF Runs
  <2> QED
    BY <2>1, <2>2, IdleIs DEF CoreInv
<1>4. XrayInv'
  BY IdleIs DEF XrayInv, Pre
<1> QED
  BY <1>1, <1>2, <1>3, <1>4 DEF SaveInv

LEMMA SaveFailsKeeps == ASSUME SaveInv, SaveFails PROVE SaveInv'
<1>1. /\ save.phase \in Pre /\ save.phase # "idle" /\ save.phase # "after" /\ save' = Idle
      /\ Answered(FALSE)
      /\ UNCHANGED <<safe, rows, revision, xup, xlive, starter, xdrift>>
  BY DEF SaveFails, Pre
<1>2. /\ rows \in Rows /\ save.next \in Rows /\ live \in BoxTypes /\ up \in BOOLEAN
      /\ xup \in BOOLEAN
      /\ xlive \in [Inbounds -> Stamps] /\ drift \subseteq {"refused", "crossed"}
      /\ xdrift \subseteq {"refused", "skipped"}
  BY Typed DEF SaveInv, Shape, SaveTypes
<1>3. xup /\ xdrift = {} => xlive = XrayConfig(rows)
  BY <1>1 DEF SaveInv, XrayInv
<1>4. Busy => ~up
  BY DEF SaveInv, CoreInv
<1>5. CASE ~up /\ UNCHANGED <<up, live, drift>>
  BY <1>1, <1>2, <1>3, <1>4, <1>5, EndKeeps
<1>6. CASE up /\ save.kind \in {"config", "settings"} /\ UNCHANGED <<up, live, drift>>
  <2>1. save.next.obj = rows.obj /\ save.next.xray = rows.xray /\ save.phase # "runtime" /\ ~RowsFirst(save.kind)
    BY <1>1, <1>6 DEF SaveInv, Shape, RowsFirst
  <2>2. BoxConfig(save.next).obj = BoxConfig(rows).obj
    BY <2>1 DEF BoxConfig
  <2>3. ASSUME drift = {} PROVE live = BoxConfig(rows)
    <3>1. save.phase \in {"rows", "check"} /\ Runs
      BY <1>1, <1>6, <2>1, <2>3 DEF SaveInv, CoreInv, Pre
    <3>2. CASE save.skipped
      BY <3>1, <3>2 DEF Runs
    <3>3. CASE ~save.skipped
      <4>1. live.base = rows.base /\ live.obj = BoxConfig(rows).obj
        BY <2>1, <2>2, <3>1, <3>3 DEF Runs
      <4> QED
        BY <1>2, <4>1, BoxSame
    <3> QED
      BY <3>2, <3>3
  <2> QED
    BY <1>1, <1>2, <1>3, <1>4, <1>6, <2>3, EndKeeps
<1>7. CASE Busy /\ drift' = drift \cup {"refused"} /\ UNCHANGED <<up, live>>
  BY <1>1, <1>2, <1>3, <1>4, <1>7, EndKeeps
<1>8. CASE ~Busy /\ BootsFrom(rows) /\ drift' = drift \ {"refused", "crossed"}
  BY <1>1, <1>2, <1>3, <1>8, BootsIs, EndKeeps
<1> QED
  BY <1>2, <1>5, <1>6, <1>7, <1>8 DEF SaveFails, Restore

LEMMA RestartPanicsKeeps == ASSUME SaveInv, RestartPanics PROVE SaveInv'
<1>1. /\ save.phase = "runtime" /\ ~up /\ save' = Idle /\ Answered(FALSE)
      /\ UNCHANGED <<safe, rows, revision, up, live, xup, xlive, starter, drift, xdrift>>
  BY DEF RestartPanics, cores
<1>2. /\ live \in BoxTypes /\ up \in BOOLEAN /\ xup \in BOOLEAN
      /\ xlive \in [Inbounds -> Stamps] /\ drift \subseteq {"refused", "crossed"}
      /\ xdrift \subseteq {"refused", "skipped"}
  BY Typed DEF SaveInv, Shape
<1>3. xup /\ xdrift = {} => xlive = XrayConfig(rows)
  BY <1>1 DEF SaveInv, XrayInv
<1> QED
  BY <1>1, <1>2, <1>3, EndKeeps

\* At the commit the core has been patched as far as the next rows ask for it, or
\* it is said to have crossed the save.
LEMMA CommitKeeps == ASSUME SaveInv, Commit PROVE SaveInv'
<1>1. /\ save.phase = "check" /\ rows' = save.next /\ revision' = revision + 1
      /\ save' = [save EXCEPT !.phase = "after"]
      /\ UNCHANGED <<safe, up, live, xup, xlive, starter, edit, xdrift>>
  BY DEF Commit, Goes, cores
<1>2. /\ save \in SaveTypes /\ rows \in Rows /\ save.next \in Rows /\ live \in BoxTypes
      /\ drift \subseteq {"refused", "crossed"} /\ revision \in Nat /\ MaxRevision \in Nat
  BY Typed, Revisions DEF SaveInv, Shape, SaveTypes
<1>3. /\ save' \in SaveTypes /\ save'.by = save.by /\ save'.kind = save.kind
      /\ save'.affects = save.affects /\ save'.gone = save.gone /\ save'.phase = "after"
  BY <1>1, <1>2 DEF SaveTypes
<1>4. revision' \in Changes /\ save.gone = NoOne /\ save.by # NoOne /\ save.kind # "none"
  BY <1>1, <1>2 DEF SaveInv, Shape, Pre, Changes
<1>5. drift' \subseteq {"refused", "crossed"}
      /\ (drift' = {} => drift = {} /\ ~((Busy \/ save.skipped) /\ (Busy \/ up)))
  BY <1>2 DEF Commit
<1>6. Shape'
  <2>1. TypeOK'
    BY <1>1, <1>2, <1>3, <1>4, <1>5, Typed, TypedNext DEF SaveInv, Shape
  <2> QED
    BY <1>3, <1>4, <2>1 DEF Shape, Pre
<1>7. CoreInv'
  <2>1. (Busy' <=> Busy) /\ (Busy => ~up)
    BY <1>1 DEF Busy, SaveInv, CoreInv
  <2>2. Busy => drift' # {}
    BY <1>5
  <2>3. ASSUME up, drift' = {} PROVE Runs'
    <3>1. ~save.skipped /\ Runs /\ drift = {}
      BY <1>5, <2>3 DEF SaveInv, CoreInv
    <3>2. live.base = rows.base /\ live.obj = BoxConfig(save.next).obj
      BY <1>1, <3>1 DEF Runs
    <3>3. ASSUME save.kind # "config" PROVE live = BoxConfig(save.next)
      <4>1. save.next.base = rows.base
        BY <1>1, <3>3 DEF SaveInv, Shape, Pre
      <4> QED
        BY <1>2, <3>2, <4>1, BoxSame
    <3> QED
      BY <1>1, <1>3, <3>3 DEF Runs
  <2> QED
    BY <1>1, <2>1, <2>2, <2>3 DEF CoreInv
<1>8. XrayInv'
  BY <1>1, <1>3 DEF SaveInv, XrayInv, Pre
<1>9. ASSUME NEW e \in Editors PROVE EditInv(e)'
  <2>1. edit[e] \in EditTypes /\ edit[e].rev \in Nat /\ edit[e].rev <= revision
    BY Typed DEF SaveInv, Shape, EditTypes, Changes, EditInv
  <2>2. edit'[e].rev <= revision' /\ edit'[e].rev # revision'
    BY <1>1, <1>2, <2>1
  <2>3. save.by = e => /\ edit[e].phase = "ready" /\ edit[e].seen = rows.obj
                       /\ Continues(e) => save.next.obj = rows.obj
    BY <1>1 DEF SaveInv, EditInv, Pre
  <2>4. Continues(e)' <=> Continues(e)
    BY <1>1, <1>3 DEF Continues
  <2> QED
    BY <1>1, <1>3, <2>2, <2>3, <2>4 DEF EditInv, Pre
<1> QED
  BY <1>6, <1>7, <1>8, <1>9 DEF SaveInv

-----------------------------------------------------------------------------
\* After the commit.
LEMMA AfterConfigKeeps == ASSUME SaveInv, AfterConfig PROVE SaveInv'
<1>1. /\ save.phase = "after" /\ save.phase # "idle" /\ save.kind = "config" /\ save' = Idle
      /\ UNCHANGED <<safe, rows, revision, starter>>
  BY DEF AfterConfig
<1>2. /\ rows \in Rows /\ live \in BoxTypes /\ up \in BOOLEAN /\ xup \in BOOLEAN
      /\ xlive \in [Inbounds -> Stamps] /\ drift \subseteq {"refused", "crossed"}
      /\ xdrift \subseteq {"refused", "skipped"}
  BY Typed DEF SaveInv, Shape
<1>3. ~save.affects /\ (xup /\ xdrift = {} => xlive = XrayConfig(rows)) /\ (Busy => ~up)
  BY <1>1 DEF SaveInv, XrayInv, CoreInv
<1>4. CASE ~up /\ UNCHANGED <<cores, drift, xdrift>> /\ Answered(TRUE)
  BY <1>1, <1>2, <1>3, <1>4, EndKeeps DEF cores
<1>5. CASE Busy /\ drift' = drift \cup {"refused"} /\ UNCHANGED <<cores, xdrift>> /\ Answered(FALSE)
  BY <1>1, <1>2, <1>3, <1>5, EndKeeps DEF cores
<1>6. CASE /\ ~Busy /\ BootsFrom(rows) /\ drift' = {} /\ Answered(up')
           /\ IF up' THEN EnsureXray ELSE UNCHANGED <<xup, xlive, xdrift>>
  <2>1. up' \in BOOLEAN /\ live' \in BoxTypes /\ (up' => live' = BoxConfig(rows))
    BY <1>2, <1>6, BootsIs
  <2>2. Answered(FALSE) \/ Answered(TRUE)
    <3>1. up' = TRUE \/ up' = FALSE
      BY <2>1
    <3> QED
      BY <1>6, <3>1
  <2>3. /\ xup' \in BOOLEAN
        /\ xlive' \in [Inbounds -> Stamps] /\ xdrift' \subseteq {"refused", "skipped"}
        /\ xup' /\ xdrift' = {} => xlive' = XrayConfig(rows)
    BY <1>2, <1>3, <1>6, EnsureIs
  <2> QED
    BY <1>1, <1>6, <2>1, <2>2, <2>3, EndKeeps
<1> QED
  BY <1>4, <1>5, <1>6 DEF AfterConfig

LEMMA AfterDownKeeps == ASSUME SaveInv, AfterDown PROVE SaveInv'
<1>1. /\ save.phase = "after" /\ save.phase # "idle" /\ ~up /\ save' = Idle
      /\ UNCHANGED <<safe, rows, revision, starter>>
  BY DEF AfterDown
<1>2. /\ rows \in Rows /\ live \in BoxTypes /\ up \in BOOLEAN /\ xup \in BOOLEAN
      /\ xlive \in [Inbounds -> Stamps] /\ drift \subseteq {"refused", "crossed"}
      /\ xdrift \subseteq {"refused", "skipped"} /\ HasXray(rows) \in BOOLEAN
  BY Typed DEF SaveInv, Shape, HasXray
<1>3. xup /\ xdrift = {} /\ ~save.affects => xlive = XrayConfig(rows)
  BY <1>1 DEF SaveInv, XrayInv
<1>4. CASE StartRefused
  <2>1. /\ UNCHANGED <<up, live, xup, xlive>> /\ Answered(FALSE)
        /\ drift' \subseteq {"refused", "crossed"}
        /\ drift' = {} => drift = {}
        /\ xdrift' \subseteq {"refused", "skipped"} /\ (xdrift' = {} => xdrift = {} /\ ~save.affects)
    BY <1>2, <1>4 DEF StartRefused, cores
  <2> QED
    BY <1>1, <1>2, <1>3, <2>1, EndKeeps
<1>5. CASE StartsSingBox
  <2>1. ~Busy /\ up' \in BOOLEAN /\ live' \in BoxTypes /\ (up' => live' = BoxConfig(rows))
    BY <1>2, <1>5, BootsIs DEF StartsSingBox
  <2>2. CASE ~up'
    <3>1. /\ UNCHANGED <<xup, xlive, drift>> /\ Answered(FALSE)
          /\ xdrift' \subseteq {"refused", "skipped"} /\ (xdrift' = {} => xdrift = {} /\ ~save.affects)
      BY <1>2, <1>5, <2>2 DEF StartsSingBox
    <3> QED
      BY <1>1, <1>2, <1>3, <2>1, <2>2, <3>1, EndKeeps
  <2>3. CASE up' /\ save.affects /\ xup /\ HasXray(rows)
    <3>1. xdrift' = xdrift \cup {"skipped"} /\ UNCHANGED <<xup, xlive>> /\ Answered(TRUE) /\ drift' = {}
      BY <1>5, <2>3 DEF StartsSingBox
    <3> QED
      BY <1>1, <1>2, <2>1, <3>1, EndKeeps
  <2>4. CASE up' /\ ~(save.affects /\ xup /\ HasXray(rows))
    <3>1. EnsureXray /\ Answered(xup' = HasXray(rows)) /\ drift' = {}
      BY <1>5, <2>4 DEF StartsSingBox
    <3>2. Answered(FALSE) \/ Answered(TRUE)
      <4>1. (xup' = HasXray(rows)) = TRUE \/ (xup' = HasXray(rows)) = FALSE
        OBVIOUS
      <4> QED
        BY <3>1, <4>1
    <3>3. /\ xup' \in BOOLEAN
          /\ xlive' \in [Inbounds -> Stamps] /\ xdrift' \subseteq {"refused", "skipped"}
          /\ xup' /\ xdrift' = {} => xlive' = XrayConfig(rows)
      <4>1. CASE StartXray(rows)
        BY <1>2, <4>1, StartsXray
      <4>2. CASE xup /\ HasXray(rows)
        BY <2>4, <3>1, <4>2, EnsureIs
      <4> QED
        BY <3>1, <4>1, <4>2 DEF EnsureXray
    <3> QED
      BY <1>1, <2>1, <3>1, <3>2, <3>3, EndKeeps
  <2> QED
    BY <2>2, <2>3, <2>4
<1>6. CASE /\ UNCHANGED <<up, live, drift, xup, xlive>>
           /\ \/ ~(save.affects /\ xup) /\ Answered(TRUE) /\ xdrift' = xdrift
              \/ Answered(FALSE) /\ xdrift' = xdrift \cup {"refused"}
  BY <1>1, <1>2, <1>3, <1>6, EndKeeps
<1>7. CASE UNCHANGED <<up, live, drift>> /\ StartXray(rows) /\ Answered(xup' = HasXray(rows))
  <2>1. Answered(FALSE) \/ Answered(TRUE)
    <3>1. (xup' = HasXray(rows)) = TRUE \/ (xup' = HasXray(rows)) = FALSE
      OBVIOUS
    <3> QED
      BY <1>7, <3>1
  <2>2. /\ xup' \in BOOLEAN /\ xlive' \in [Inbounds -> Stamps] /\ xdrift' = {}
        /\ xup' => xlive' = XrayConfig(rows)
    BY <1>2, <1>7, StartsXray
  <2> QED
    BY <1>1, <1>2, <1>7, <2>1, <2>2, EndKeeps
<1> QED
  BY <1>4, <1>5, <1>6, <1>7 DEF AfterDown

LEMMA AfterUpKeeps == ASSUME SaveInv, AfterUp PROVE SaveInv'
<1>1. /\ save.phase = "after" /\ save.phase # "idle" /\ save.kind # "config" /\ up
      /\ save' = Idle
      /\ UNCHANGED <<safe, rows, revision, starter, up, live, drift>>
  BY DEF AfterUp
<1>2. /\ rows \in Rows /\ live \in BoxTypes /\ up \in BOOLEAN /\ xup \in BOOLEAN
      /\ xlive \in [Inbounds -> Stamps] /\ drift \subseteq {"refused", "crossed"}
      /\ xdrift \subseteq {"refused", "skipped"} /\ HasXray(rows) \in BOOLEAN
  BY Typed DEF SaveInv, Shape, HasXray
<1>3. /\ xup /\ xdrift = {} /\ ~save.affects => xlive = XrayConfig(rows)
      /\ ~Busy /\ (drift = {} => live = BoxConfig(rows))
  BY <1>1 DEF SaveInv, XrayInv, CoreInv, Runs
<1>4. CASE /\ UNCHANGED <<xup, xlive>>
           /\ \/ ~save.affects /\ Answered(TRUE) /\ xdrift' = xdrift
              \/ Answered(FALSE) /\ xdrift' = xdrift \cup {"refused"}
  BY <1>1, <1>2, <1>3, <1>4, EndKeeps
<1>5. CASE StartXray(rows) /\ Answered(xup' = HasXray(rows))
  <2>1. Answered(FALSE) \/ Answered(TRUE)
    <3>1. (xup' = HasXray(rows)) = TRUE \/ (xup' = HasXray(rows)) = FALSE
      OBVIOUS
    <3> QED
      BY <1>5, <3>1
  <2>2. /\ xup' \in BOOLEAN /\ xlive' \in [Inbounds -> Stamps] /\ xdrift' = {}
        /\ xup' => xlive' = XrayConfig(rows)
    BY <1>2, <1>5, StartsXray
  <2> QED
    BY <1>1, <1>2, <1>3, <2>1, <2>2, EndKeeps
<1> QED
  BY <1>4, <1>5 DEF AfterUp

-----------------------------------------------------------------------------
\* The watchdog, a user and the jobs.
LEMMA StartCoreKeeps == ASSUME SaveInv, StartCore PROVE SaveInv'
<1>1. ~Busy /\ UNCHANGED <<safe, rows, revision, save, edit>>
  BY DEF StartCore
<1>2. /\ rows \in Rows /\ drift \subseteq {"refused", "crossed"} /\ up \in BOOLEAN
  BY Typed DEF SaveInv, Shape
<1>3. \A e \in Editors : EditInv(e)'
  BY <1>1 DEF SaveInv, EditInv, Continues
<1>4. CASE up
  <2>1. EnsureXray /\ UNCHANGED <<up, live, starter, drift>>
    BY <1>4 DEF StartCore
  <2>2. /\ xup' \in BOOLEAN
        /\ xlive' \in [Inbounds -> Stamps] /\ xdrift' \subseteq {"refused", "skipped"}
        /\ (save.phase = "after" => ~save.affects) /\ xup' /\ xdrift' = {} => xlive' = XrayConfig(rows)
    BY <2>1, EnsureIs
  <2>3. Shape'
    <3>1. TypeOK'
      BY <1>1, <2>1, <2>2, Typed, TypedNext DEF SaveInv, Shape
    <3> QED
      BY <1>1, <3>1 DEF SaveInv, Shape
  <2>4. CoreInv'
    BY <1>1, <2>1 DEF SaveInv, CoreInv, Busy, Runs
  <2>5. XrayInv'
    BY <1>1, <2>2 DEF SaveInv, XrayInv
  <2> QED
    BY <1>3, <2>3, <2>4, <2>5 DEF SaveInv
<1>5. CASE ~up
  <2>1. /\ starter' = [phase |-> "loaded", rows |-> rows]
        /\ drift' = (IF Free THEN {} ELSE drift \cup {"crossed"})
        /\ UNCHANGED <<up, live, xup, xlive, xdrift>>
    BY <1>5 DEF StartCore, cores
  <2>2. Shape'
    <3>1. TypeOK'
      BY <1>1, <1>2, <2>1, Typed, TypedNext DEF SaveInv, Shape
    <3> QED
      BY <1>1, <3>1 DEF SaveInv, Shape
  <2>3. CoreInv'
    <3>1. ~up' /\ starter'.rows = rows'
      BY <1>1, <1>5, <2>1
    <3>2. drift' = {} => save'.phase = "idle"
      BY <1>1, <2>1, IdleIs DEF Free
    <3> QED
      BY <3>1, <3>2 DEF CoreInv
  <2>4. XrayInv'
    BY <1>1, <2>1 DEF SaveInv, XrayInv
  <2> QED
    BY <1>3, <2>2, <2>3, <2>4 DEF SaveInv
<1> QED
  BY <1>2, <1>4, <1>5

LEMMA CoreStartedKeeps == ASSUME SaveInv, CoreStarted PROVE SaveInv'
<1>1. /\ Busy /\ BootsFrom(starter.rows) /\ starter' = NotStarting
      /\ UNCHANGED <<safe, rows, revision, save, edit, drift>>
  BY DEF CoreStarted
<1>2. starter.rows \in Rows /\ rows \in Rows
  BY Typed DEF SaveInv, Shape
<1>3. up' \in BOOLEAN /\ live' \in BoxTypes /\ (up' => live' = BoxConfig(starter.rows))
  BY <1>1, <1>2, BootsIs
<1>4. /\ xup' \in BOOLEAN
      /\ xlive' \in [Inbounds -> Stamps] /\ xdrift' \subseteq {"refused", "skipped"}
      /\ (save.phase = "after" => ~save.affects) /\ xup' /\ xdrift' = {} => xlive' = XrayConfig(rows)
  BY EnsureIs, Typed DEF CoreStarted, SaveInv, Shape, XrayInv
<1>5. Shape'
  <2>1. TypeOK'
    BY <1>1, <1>3, <1>4, Typed, TypedNext, NotStartingIs DEF SaveInv, Shape
  <2> QED
    BY <1>1, <2>1 DEF SaveInv, Shape
<1>6. CoreInv'
  <2>1. ~Busy'
    BY <1>1 DEF Busy
  <2>2. ASSUME up', drift = {} PROVE Runs'
    <3>1. live' = BoxConfig(rows) /\ (save.phase # "idle" => save.skipped /\ save.phase \in {"rows", "check"})
      BY <1>1, <1>3, <2>2 DEF SaveInv, CoreInv
    <3> QED
      BY <1>1, <3>1 DEF Runs
  <2> QED
    BY <1>1, <2>1, <2>2 DEF CoreInv
<1>7. XrayInv'
  BY <1>1, <1>4 DEF SaveInv, XrayInv
<1>8. \A e \in Editors : EditInv(e)'
  BY <1>1 DEF SaveInv, EditInv, Continues
<1> QED
  BY <1>5, <1>6, <1>7, <1>8 DEF SaveInv

LEMMA StopCoreKeeps == ASSUME SaveInv, StopCore PROVE SaveInv'
<1>1. /\ ~Busy /\ up' = FALSE /\ live' = NoConfig /\ xup' = FALSE /\ xlive' = NoXray
      /\ xdrift' = {}
      /\ UNCHANGED <<safe, rows, revision, starter, save, edit, drift>>
  BY DEF StopCore
<1>2. Shape'
  <2>1. TypeOK'
    BY <1>1, Typed, TypedNext, Nones DEF SaveInv, Shape
  <2> QED
    BY <1>1, <2>1 DEF SaveInv, Shape
<1>3. CoreInv'
  BY <1>1 DEF CoreInv, Busy
<1>4. XrayInv'
  BY <1>1 DEF SaveInv, XrayInv
<1>5. \A e \in Editors : EditInv(e)'
  BY <1>1 DEF SaveInv, EditInv, Continues
<1> QED
  BY <1>2, <1>3, <1>4, <1>5 DEF SaveInv

LEMMA JobRecordsKeeps == ASSUME SaveInv, JobRecords PROVE SaveInv'
<1>1. /\ revision < MaxRevision /\ revision' = revision + 1
      /\ UNCHANGED <<safe, rows, up, live, xup, xlive, starter, edit, drift, xdrift>>
  BY DEF JobRecords, cores
<1>2. save \in SaveTypes /\ revision \in Nat /\ MaxRevision \in Nat
  BY Typed, Revisions DEF SaveInv, Shape
<1>3. /\ save' \in SaveTypes /\ save'.by = save.by /\ save'.kind = save.kind
      /\ save'.next = save.next
      /\ save'.affects = save.affects /\ save'.skipped = save.skipped
      /\ save'.gone = save.gone /\ save'.todo = save.todo /\ save'.phase = save.phase
      /\ save.phase = "idle" => save' = save
  <2>1. CASE Free
    BY <1>2, <2>1 DEF JobRecords
  <2>2. CASE ~Free
    <3>1. save' = [save EXCEPT !.stale = save.stale \/ save.reads] /\ save.phase # "idle"
      BY <2>2 DEF JobRecords, Free, SaveInv, Shape
    <3>2. (save.stale \/ save.reads) \in BOOLEAN
      BY <1>2 DEF SaveTypes
    <3> QED
      BY <1>2, <3>1, <3>2 DEF SaveTypes
  <2> QED
    BY <2>1, <2>2
<1>4. Shape'
  <2>1. revision' \in Changes /\ revision' <= MaxRevision
    BY <1>1, <1>2 DEF Changes
  <2>2. TypeOK'
    BY <1>1, <1>3, <2>1, Typed, TypedNext DEF SaveInv, Shape
  <2> QED
    BY <1>1, <1>3, <2>1, <2>2 DEF SaveInv, Shape
<1>5. CoreInv'
  BY <1>1, <1>3 DEF SaveInv, CoreInv, Busy, Runs
<1>6. XrayInv'
  BY <1>1, <1>3 DEF SaveInv, XrayInv
<1>7. ASSUME NEW e \in Editors PROVE EditInv(e)'
  <2>1. edit[e].rev \in Nat /\ edit[e].rev <= revision
    BY Typed DEF SaveInv, Shape, EditTypes, Changes, EditInv
  <2>2. edit'[e].rev <= revision' /\ edit'[e].rev # revision'
    BY <1>1, <1>2, <2>1
  <2> QED
    BY <1>1, <1>3, <2>2 DEF SaveInv, EditInv, Continues
<1> QED
  BY <1>4, <1>5, <1>6, <1>7 DEF SaveInv

-----------------------------------------------------------------------------
LEMMA InitFits == ASSUME Init PROVE SaveInv
<1>1. PICK i \in Inbounds : rows = [obj |-> [Nothing EXCEPT ![i] = 1], xray |-> {}, base |-> 1]
  BY DEF Init
<1>2. MaxRevision \in Nat /\ 1 <= MaxRevision /\ 1 \in Stamps /\ 1 \in Changes /\ 0 \in Stamps
  BY DEF Stamps, Changes
<1>3. rows \in Rows
  <2>1. [Nothing EXCEPT ![i] = 1] \in [Objects -> Stamps]
    BY <1>2 DEF Nothing
  <2> QED
    BY <1>1, <1>2, <2>1 DEF Rows
<1>4. /\ revision = 1 /\ safe \in BOOLEAN /\ up = ~safe
      /\ live = (IF safe THEN NoConfig ELSE BoxConfig(rows)) /\ xup = FALSE /\ xlive = NoXray
      /\ starter = NotStarting /\ save = Idle /\ edit = [e \in Editors |-> NoEdit]
      /\ drift = {} /\ xdrift = {}
  BY DEF Init
<1>5. live \in BoxTypes /\ up \in BOOLEAN /\ (up => live = BoxConfig(rows))
  BY <1>3, <1>4, BoxIs, Nones
<1>6. edit \in [Editors -> EditTypes] /\ \A e \in Editors : edit[e] = NoEdit
  BY <1>4, NoEditIs
<1>7. TypeOK
  BY <1>2, <1>3, <1>4, <1>5, <1>6, Typed, Nones, IdleIs, NotStartingIs
<1>8. Shape
  BY <1>4, <1>7, IdleIs DEF Shape, Pre
<1>9. CoreInv
  BY <1>4, <1>5, IdleIs DEF CoreInv, Busy, Runs
<1>10. XrayInv
  BY <1>4, IdleIs DEF XrayInv, Pre
<1>11. \A e \in Editors : EditInv(e)
  BY <1>4, <1>6, IdleIs, NoEditIs DEF EditInv, Savers
<1> QED
  BY <1>8, <1>9, <1>10, <1>11 DEF SaveInv

LEMMA StepKeeps == ASSUME SaveInv, [Next]_vars PROVE SaveInv'
<1>1. CASE UNCHANGED vars
  BY <1>1 DEF vars, SaveInv, Shape, TypeOK, CoreInv, XrayInv, EditInv, Busy, Runs, Continues
<1>2. CASE LocalSave
  BY <1>2, LocalSaveKeeps
<1>3. CASE SaveStep
  BY <1>3, WriteRowsKeeps, SaveFailsKeeps, RestartPanicsKeeps, CommitKeeps, AfterConfigKeeps,
     AfterDownKeeps, AfterUpKeeps, RunRemoveKeeps, RunAddKeeps DEF SaveStep
<1>4. CASE StartCore \/ CoreStarted \/ StopCore \/ JobRecords
  BY <1>4, StartCoreKeeps, CoreStartedKeeps, StopCoreKeeps, JobRecordsKeeps
<1>5. CASE \E e \in Editors : Remote(e)
  BY <1>5, ReadsKeep, RemoteSavesKeep DEF Remote
<1> QED
  BY <1>1, <1>2, <1>3, <1>4, <1>5 DEF Next

LEMMA SaveInvHolds == Spec => []SaveInv
BY InitFits, StepKeeps, PTL DEF Spec

(* Type correctness of configuration saves.                                *)
THEOREM SaveTypeCorrect == Spec => []TypeOK
<1>1. SaveInv => TypeOK
  BY DEF SaveInv, Shape
<1> QED
  BY <1>1, SaveInvHolds, PTL

(* Between saves and starts a running sing-box core has the objects of the *)
(* committed rows: patching one object after another ends there, whichever *)
(* object a save failed at, unless a refusal or a start that crossed the   *)
(* save is on record (saveLocked, restartSingBoxCore, StartCore).          *)
THEOREM CoreFollows == Spec => []CoreFollowsSaves
<1>1. SaveInv => CoreFollowsSaves
  BY DEF SaveInv, CoreInv, Runs, Shape, CoreFollowsSaves, Quiet, Free, Idle
<1> QED
  BY <1>1, SaveInvHolds, PTL

(* The same of the Xray child: what inboundChangeAffectsXray,              *)
(* tlsChangeAffectsXray and inboundIDsContainXray do not report changes    *)
(* none of its inbounds.                                                   *)
THEOREM XrayFollows == Spec => []XrayFollowsSaves
<1>1. SaveInv => XrayFollowsSaves
  BY DEF SaveInv, XrayInv, XrayFollowsSaves, Quiet, Free, Idle
<1> QED
  BY <1>1, SaveInvHolds, PTL

(* A remote save commits only on rows that are those its editor has seen,  *)
(* also when cron jobs record changes while it is under way and through    *)
(* the three saves of a quick add (SaveWithRevision, QuickAddInbounds).    *)
THEOREM EditsFresh == Spec => RemoteEditsAreFresh
<1> DEFINE Fresh == (revision' # revision /\ save.phase = "check" /\ save.by \in Editors) =>
             \A o \in Inbounds : rows'.obj[o] # rows.obj[o] => rows.obj[o] = edit[save.by].seen[o]
<1>1. ASSUME SaveInv PROVE [Fresh]_vars
  <2> SUFFICES ASSUME save.phase = "check", save.by \in Editors
               PROVE  edit[save.by].seen = rows.obj
    OBVIOUS
  <2> QED
    BY <1>1 DEF SaveInv, EditInv, Pre
<1> QED
  BY <1>1, SaveInvHolds, PTL DEF RemoteEditsAreFresh
================================================================================
