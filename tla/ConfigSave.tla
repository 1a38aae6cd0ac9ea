------------------------------ MODULE ConfigSave ------------------------------
(***************************************************************************)
(* Saving the panel's configuration (service/config.go, saveLocked): one   *)
(* transaction changes the rows while the running sing-box core is patched *)
(* object by object; after the commit the cores are started or restarted   *)
(* as far as the change asks for it, and a failed save rolls the rows back *)
(* and restarts the core from them.  configSaveMu serialises saves; the    *)
(* watchdog, a restart by a user and the cron jobs do not take it.         *)
(* Managed servers are edited remotely under a revision number.            *)
(***************************************************************************)
EXTENDS Naturals

CONSTANTS
  Inbounds, Outbounds, Endpoints, Services,  \* names (tags) of configuration objects
  WithTls,    \* the inbounds and services that refer to the TLS row
  Editors,    \* panels that edit this server remotely
  Browser,    \* the local panel, which saves without a revision
  NoOne,
  SafeModes,  \* the values config.IsSkipCore() may have
  MaxRevision \* bound on the changes recorded in a behaviour

Objects == Inbounds \cup Outbounds \cup Endpoints \cup Services
Savers  == Editors \cup {Browser}

ASSUME SaveAssumption ==
  /\ Inbounds \cap (Outbounds \cup Endpoints \cup Services) = {}
  /\ WithTls \subseteq Inbounds \cup Services
  /\ Browser \notin Editors /\ NoOne \notin Savers \cup Objects
  /\ SafeModes \subseteq BOOLEAN
  /\ MaxRevision \in Nat \ {0}

VARIABLES
  rows,      \* the committed rows: for each object the change that last wrote it or
             \* what it contains (users, TLS), 0 without a row; the inbounds that run
             \* on Xray; the change that last wrote the base configuration
  revision,  \* MAX(id) of the table changes
  up, live,  \* the sing-box core and the configuration it runs
  xup, xlive,\* the Xray child and the configuration it runs
  starter,   \* a StartCore under startCoreInProgress, and the rows it has read
  save,      \* the saveLocked that holds configSaveMu
  edit,      \* what a remote editor has read
  drift,     \* the reasons for which sing-box may not run what is saved
  xdrift,    \* and Xray
  safe       \* config.IsSkipCore(): this panel runs in safe mode

vars == <<rows, revision, up, live, xup, xlive, starter, save, edit, drift, xdrift, safe>>
cores == <<up, live, xup, xlive>>

Changes  == 0 .. MaxRevision + 1
Stamps   == 0 .. MaxRevision
Rows     == [obj : [Objects -> Stamps], xray : SUBSET Inbounds, base : Stamps]
Nothing  == [o \in Objects |-> 0]
NoRows   == [obj |-> Nothing, xray |-> {}, base |-> 0]

\* GetConfigWithDB: the rows of every kind, without the inbounds of Xray.
BoxConfig(r) == [obj |-> [o \in Objects |-> IF o \in r.xray THEN 0 ELSE r.obj[o]],
                 base |-> r.base]
\* getXrayConfig: the inbounds of Xray alone.
XrayConfig(r) == [o \in Inbounds |-> IF o \in r.xray THEN r.obj[o] ELSE 0]
HasXray(r)    == \E o \in r.xray : r.obj[o] # 0

NoConfig  == BoxConfig(NoRows)
NoXray    == XrayConfig(NoRows)

Idle == [by |-> NoOne, phase |-> "idle", kind |-> "none", next |-> NoRows, todo |-> {},
         gone |-> NoOne, skipped |-> FALSE, reads |-> FALSE, stale |-> FALSE, affects |-> FALSE]
NotStarting == [phase |-> "idle", rows |-> NoRows]
NoEdit == [phase |-> "idle", rev |-> 0, seen |-> Nothing, goal |-> "edit"]

Kinds == {"clients", "tls", "inbounds", "outbounds", "services", "endpoints",
          "config", "settings"}

TypeOK ==
  /\ rows \in Rows /\ revision \in Changes
  /\ up \in BOOLEAN /\ xup \in BOOLEAN
  /\ live \in [obj : [Objects -> Stamps], base : Stamps]
  /\ xlive \in [Inbounds -> Stamps]
  /\ starter \in [phase : {"idle", "loaded"}, rows : Rows]
  /\ save \in [by : Savers \cup {NoOne},
               phase : {"idle", "runtime", "rows", "check", "after"},
               kind : Kinds \cup {"none"}, next : Rows, todo : SUBSET Objects,
               gone : Objects \cup {NoOne}, skipped : BOOLEAN, reads : BOOLEAN, stale : BOOLEAN,
               affects : BOOLEAN]
  /\ edit \in [Editors -> [phase : {"idle", "reading", "ready"}, rev : Changes,
                           seen : [Objects -> Stamps], goal : {"edit", "client", "inbound"}]]
  /\ drift \subseteq {"refused", "crossed"}
  /\ xdrift \subseteq {"refused", "skipped"} /\ safe \in BOOLEAN

\* A panel that has just started, with one inbound on sing-box; in safe mode it
\* has not started the core.
Init ==
  /\ \E i \in Inbounds : rows = [obj |-> [Nothing EXCEPT ![i] = 1], xray |-> {}, base |-> 1]
  /\ revision = 1
  /\ safe \in SafeModes
  /\ up = ~safe /\ live = IF safe THEN NoConfig ELSE BoxConfig(rows)
  /\ xup = FALSE /\ xlive = NoXray
  /\ starter = NotStarting /\ save = Idle
  /\ edit = [e \in Editors |-> NoEdit]
  /\ drift = {} /\ xdrift = {}

Stamp == revision + 1
Busy  == starter # NotStarting
Free  == save = Idle

-----------------------------------------------------------------------------
\* The requests: what saveLocked stages in its transaction, and which objects
\* of the running core it has to patch.

Writes(os) == [rows EXCEPT !.obj = [o \in Objects |-> IF o \in os THEN Stamp ELSE @[o]]]

Present(os) == {o \in os : rows.obj[o] # 0}

\* Clients and the TLS row are written before their inbounds are restarted; the
\* other services patch the core first and write the row after that.
RowsFirst(kind) == kind \in {"clients", "tls"}

\* saveLocked begins for saver s.
Begin(s, kind, next, todo, reads, affects) ==
  /\ Free /\ revision < MaxRevision
  /\ save' = [Idle EXCEPT !.by = s, !.kind = kind, !.next = next, !.affects = affects,
                          !.todo = todo, !.reads = reads, !.skipped = ~up,
                          !.phase = IF up /\ todo # {} /\ ~RowsFirst(kind) THEN "runtime"
                                                                       ELSE "rows"]
  /\ UNCHANGED <<safe, rows, revision, cores, starter, drift, xdrift>>

\* A mutant: whether Xray is affected is asked of the new row alone.
InboundAffectsXrayNew(o, x) == x

\* inboundChangeAffectsXray: the inbound runs, or ran, on Xray.
InboundAffectsXray(o, x) == x \/ o \in rows.xray

\* InboundService.Save, act new or edit, on the core the request names.
PutInbound(s, o, x) ==
  LET next == [Writes({o}) EXCEPT !.xray = IF x THEN @ \cup {o} ELSE @ \ {o}]
      boxed == ~x \/ (rows.obj[o] # 0 /\ o \notin rows.xray)
  IN  Begin(s, "inbounds", next, IF boxed THEN {o} ELSE {}, rows.obj[o] # 0,
            InboundAffectsXray(o, x))

\* InboundService.Save, act del.
DelInbound(s, o) ==
  /\ rows.obj[o] # 0
  /\ Begin(s, "inbounds", [rows EXCEPT !.obj[o] = 0, !.xray = @ \ {o}],
           {o} \ rows.xray, TRUE, InboundAffectsXray(o, FALSE))

\* OutboundService.Save: nothing is read before the row is written, except for
\* the old tag when the core runs.
SaveOutbound(s) ==
  \E o \in Outbounds :
    \/ Begin(s, "outbounds", Writes({o}), {o}, up /\ rows.obj[o] # 0, FALSE)
    \/ rows.obj[o] # 0 /\ Begin(s, "outbounds", [rows EXCEPT !.obj[o] = 0], {o}, FALSE, FALSE)

\* ServicesService.Save: a service may refer to the TLS row, which is read first.
SaveService(s) ==
  \E o \in Services :
    \/ Begin(s, "services", Writes({o}), {o}, (up /\ rows.obj[o] # 0) \/ o \in WithTls, FALSE)
    \/ rows.obj[o] # 0 /\ Begin(s, "services", [rows EXCEPT !.obj[o] = 0], {o}, FALSE, FALSE)

\* EndpointService.Save: the old row of a WARP endpoint is read for its licence,
\* before the registration service is called.
SaveEndpoint(s) ==
  \E o \in Endpoints :
    \/ Begin(s, "endpoints", Writes({o}), {o}, rows.obj[o] # 0, FALSE)
    \/ rows.obj[o] # 0 /\ Begin(s, "endpoints", [rows EXCEPT !.obj[o] = 0], {o}, FALSE, FALSE)

\* tlsChangeAffectsXray and inboundIDsContainXray.
XrayUsesTls      == WithTls \cap rows.xray # {}
XrayAmong(os)    == os \cap rows.xray # {}

\* TlsService.Save, edit: the row, the links and out_json of the inbounds that
\* use it are written first, then those inbounds and services are restarted.
SaveTls(s) ==
  LET users == Present(WithTls)
  IN  Begin(s, "tls", Writes(users), users \ rows.xray, FALSE, XrayUsesTls)

\* ClientService.Save of clients of the inbounds os, and RestartInbounds on them.
SaveClients(s, os) ==
  Begin(s, "clients", Writes(os), os \ rows.xray, TRUE, XrayAmong(os))

\* SettingService.SaveConfig and SettingService.Save.
SaveBase(s)     == Begin(s, "config", [rows EXCEPT !.base = Stamp], {}, TRUE, FALSE)
SaveSettings(s) == Begin(s, "settings", rows, {}, TRUE, FALSE)

\* ConfigService.Save, called by the browser of this panel.
LocalSave ==
  /\ \/ \E o \in Inbounds : DelInbound(Browser, o) \/ \E x \in BOOLEAN : PutInbound(Browser, o, x)
     \/ \E os \in SUBSET Present(Inbounds) : SaveClients(Browser, os)
     \/ SaveOutbound(Browser) \/ SaveService(Browser) \/ SaveEndpoint(Browser)
     \/ SaveTls(Browser) \/ SaveBase(Browser) \/ SaveSettings(Browser)
  /\ UNCHANGED edit

-----------------------------------------------------------------------------
\* Remote editing: InboundEditor, SaveInbound and QuickAddInbounds of
\* service/local_control.go, through SaveWithRevision.

\* InboundEditor reads the revision first
ReadRevision(e) ==
  /\ edit[e].phase = "idle"
  /\ edit' = [edit EXCEPT ![e] = [NoEdit EXCEPT !.phase = "reading", !.rev = revision]]
  /\ UNCHANGED <<safe, rows, revision, cores, starter, save, drift, xdrift>>

\* and the rows after it.
ReadRows(e) ==
  /\ edit[e].phase = "reading"
  /\ edit' = [edit EXCEPT ![e].phase = "ready", ![e].seen = rows.obj]
  /\ UNCHANGED <<safe, rows, revision, cores, starter, save, drift, xdrift>>

\* A mutant: the revision is not compared.
AcceptsAny(e) == edit[e].phase = "ready" /\ Free

\* SaveWithRevision holds configSaveMu and finds the expected revision.
Accepts(e) == edit[e].phase = "ready" /\ Free /\ edit[e].rev = revision

\* SaveWithRevision answers with a conflict: the editor has to read again.
Conflict(e) ==
  /\ edit[e].phase = "ready" /\ Free /\ edit[e].rev # revision
  /\ edit' = [edit EXCEPT ![e] = NoEdit]
  /\ UNCHANGED <<safe, rows, revision, cores, starter, save, drift, xdrift>>

\* SaveInbound.  A panel that got no answer may send the request again.
RemoteSave(e) ==
  /\ Accepts(e) /\ edit[e].goal = "edit"
  /\ \E o \in Inbounds : DelInbound(e, o) \/ \E x \in BOOLEAN : PutInbound(e, o, x)
  /\ UNCHANGED edit

\* QuickAddInbounds: a TLS row of its own, a client, and the inbound, each saved
\* under the revision the step before it returned.
QuickTls(e) ==
  /\ Accepts(e) /\ edit[e].goal = "edit"
  /\ Begin(e, "tls", rows, {}, FALSE, FALSE)
  /\ edit' = [edit EXCEPT ![e].goal = "client"]

QuickClient(e) ==
  /\ Accepts(e) /\ edit[e].goal = "client"
  /\ SaveClients(e, {})
  /\ edit' = [edit EXCEPT ![e].goal = "inbound"]

\* allocateRemoteQuickAdd: the tags that were free when the rows were read.
FreeTags(e) == {i \in Inbounds : edit[e].seen[i] = 0}

\* The tag and the port were chosen before the first step.
QuickInbound(e) ==
  /\ Accepts(e) /\ edit[e].goal = "inbound"
  /\ \E o \in FreeTags(e), x \in BOOLEAN : PutInbound(e, o, x)
  /\ UNCHANGED edit

-----------------------------------------------------------------------------
\* saveLocked goes on.

Goes(phase) == save' = [save EXCEPT !.phase = phase]

\* The saver has an answer.  The next step of a quick add continues from the
\* revision a success returns; an answer may be lost on its way to the editor.
Answered(ok) ==
  IF save.by \notin Editors THEN UNCHANGED edit
  ELSE \/ edit' = [edit EXCEPT ![save.by] =
                     IF ok /\ @.goal \in {"client", "inbound"} /\ save.kind # "inbounds"
                     THEN [@ EXCEPT !.rev = revision] ELSE NoEdit]
       \/ edit[save.by].goal = "edit" /\ UNCHANGED edit

\* The object o of the running core is done with.
Done(o) ==
  LET rest == save.todo \ {o}
      next == IF rest # {} THEN "runtime" ELSE IF RowsFirst(save.kind) THEN "check" ELSE "rows"
  IN  save' = [save EXCEPT !.gone = NoOne, !.todo = rest, !.phase = next]

\* Core.RemoveInbound and so on, and CloseConnByInbound: one object goes.
RunRemove(o) ==
  /\ save.phase = "runtime" /\ o \in save.todo /\ save.gone = NoOne /\ up
  /\ live' = [live EXCEPT !.obj[o] = 0]
  /\ IF save.next.obj[o] # 0 /\ o \notin save.next.xray
     THEN save' = [save EXCEPT !.gone = o]
     ELSE Done(o)
  /\ UNCHANGED <<safe, rows, revision, up, xup, xlive, starter, edit, drift, xdrift>>

\* Core.AddInbound and so on: it comes back with its new content.
RunAdd(o) ==
  /\ save.phase = "runtime" /\ save.gone = o /\ up
  /\ live' = [live EXCEPT !.obj[o] = save.next.obj[o]]
  /\ Done(o)
  /\ UNCHANGED <<safe, rows, revision, up, xup, xlive, starter, edit, drift, xdrift>>

\* The rows are written; the transaction holds SQLite's write lock from here
\* on.  RestartInbounds asks now whether the core runs.
WriteRows ==
  /\ save.phase = "rows" /\ ~save.stale
  /\ LET restarts == RowsFirst(save.kind) /\ save.todo # {}
     IN  save' = [save EXCEPT !.skipped = IF restarts THEN ~up ELSE @,
                              !.phase = IF restarts /\ up THEN "runtime" ELSE "check"]
  /\ UNCHANGED <<safe, rows, revision, cores, starter, edit, drift, xdrift>>

\* What a Start or Restart of Xray leaves behind: the child with the new
\* configuration, or none if it exits.
StartXray(r) ==
  \/ HasXray(r) /\ xup' = TRUE /\ xlive' = XrayConfig(r) /\ xdrift' = {}
  \/ xup' = FALSE /\ xlive' = NoXray /\ xdrift' = {}

\* ensureXrayCore(false, false): a child that runs is left alone.
EnsureXray ==
  IF xup /\ HasXray(rows) THEN UNCHANGED <<xup, xlive, xdrift>> ELSE StartXray(rows)

\* The core is built from the rows r, or does not come up.
BootsFrom(r) ==
  \/ up' = TRUE /\ live' = BoxConfig(r)
  \/ up' = FALSE /\ live' = NoConfig

\* A mutant: a failed save leaves the core as it has been patched.
RestoreNothing == UNCHANGED <<up, live, drift>>

\* restartSingBoxCore after a failed save; another core operation refuses it.
Restore ==
  IF ~up \/ save.kind \in {"config", "settings"} THEN UNCHANGED <<up, live, drift>>
  ELSE IF Busy THEN drift' = drift \cup {"refused"} /\ UNCHANGED <<up, live>>
  ELSE BootsFrom(rows) /\ drift' = drift \ {"refused", "crossed"}

\* An object cannot be added or removed, a statement or the validation of the
\* Xray configuration fails, or the snapshot of the transaction is too old: the
\* deferred function rolls back and restores the core.
SaveFails ==
  /\ save.phase \in {"runtime", "rows", "check"}
  /\ Restore /\ Answered(FALSE)
  /\ save' = Idle
  /\ UNCHANGED <<safe, rows, revision, xup, xlive, starter, xdrift>>

\* RestartInbounds finds GetInstance() nil: gin recovers the panic, the
\* transaction is rolled back, and nothing restores the core, which is down.
RestartPanics ==
  /\ save.phase = "runtime" /\ RowsFirst(save.kind) /\ ~up
  /\ Answered(FALSE)
  /\ save' = Idle
  /\ UNCHANGED <<safe, rows, revision, cores, starter, drift, xdrift>>

\* validateXrayConfig has passed and the row of the table changes is inserted.
Commit ==
  /\ save.phase = "check"
  /\ rows' = save.next /\ revision' = revision + 1
  /\ Goes("after")
  /\ drift' = IF (Busy \/ save.skipped) /\ (Busy \/ up) THEN drift \cup {"crossed"} ELSE drift
  /\ UNCHANGED <<safe, cores, starter, edit, xdrift>>

\* After the commit of a new base configuration: restartCoreWithConfig.
AfterConfig ==
  /\ save.phase = "after" /\ save.kind = "config"
  /\ IF safe /\ ~up THEN UNCHANGED <<cores, drift, xdrift>> /\ Answered(TRUE)
     ELSE IF Busy
     THEN drift' = drift \cup {"refused"} /\ UNCHANGED <<cores, xdrift>> /\ Answered(FALSE)
     ELSE BootsFrom(rows) /\ drift' = {} /\ Answered(up')
          /\ IF up' THEN EnsureXray ELSE UNCHANGED <<xup, xlive, xdrift>>
  /\ save' = Idle
  /\ UNCHANGED <<safe, rows, revision, starter>>

\* StartCore is refused, while another operation runs or after a failed start.
StartRefused ==
  /\ UNCHANGED cores /\ Answered(FALSE)
  /\ drift' = IF Busy THEN drift \cup {"refused"} ELSE drift
  /\ xdrift' = IF save.affects THEN xdrift \cup {"refused"} ELSE xdrift

\* StartCore starts sing-box, and leaves an Xray child that runs as it is.
StartsSingBox ==
  /\ ~Busy /\ BootsFrom(rows)
  /\ IF ~up'
     THEN /\ xdrift' = IF save.affects THEN xdrift \cup {"refused"} ELSE xdrift
          /\ UNCHANGED <<xup, xlive, drift>> /\ Answered(FALSE)
     ELSE /\ drift' = {}
          /\ IF save.affects /\ xup /\ HasXray(rows)
             THEN xdrift' = xdrift \cup {"skipped"} /\ UNCHANGED <<xup, xlive>> /\ Answered(TRUE)
             ELSE EnsureXray /\ Answered(xup' = HasXray(rows))

\* After any other commit with sing-box down: StartCore; in safe mode only a
\* running Xray is restarted.
AfterDown ==
  /\ save.phase = "after" /\ save.kind # "config" /\ ~up
  /\ IF ~safe THEN StartRefused \/ StartsSingBox
     ELSE /\ UNCHANGED <<up, live, drift>>
          /\ IF ~(save.affects /\ xup) THEN UNCHANGED <<xup, xlive, xdrift>> /\ Answered(TRUE)
             ELSE IF Busy
             THEN xdrift' = xdrift \cup {"refused"} /\ UNCHANGED <<xup, xlive>> /\ Answered(FALSE)
             ELSE StartXray(rows) /\ Answered(xup' = HasXray(rows))
  /\ save' = Idle
  /\ UNCHANGED <<safe, rows, revision, starter>>

\* After any other commit with sing-box running: RestartXrayCoreIfNeeded.
AfterUp ==
  /\ save.phase = "after" /\ save.kind # "config" /\ up
  /\ IF ~save.affects THEN UNCHANGED <<xup, xlive, xdrift>> /\ Answered(TRUE)
     ELSE IF Busy
     THEN xdrift' = xdrift \cup {"refused"} /\ UNCHANGED <<xup, xlive>> /\ Answered(FALSE)
     ELSE StartXray(rows) /\ Answered(xup' = HasXray(rows))
  /\ save' = Idle
  /\ UNCHANGED <<safe, rows, revision, up, live, starter, drift>>

-----------------------------------------------------------------------------
\* Everything else that touches the cores or the table changes.

\* StartCore under the flag, by the watchdog or a user: the rows are read
StartCore ==
  /\ ~Busy
  /\ IF up
     THEN EnsureXray /\ UNCHANGED <<up, live, starter, drift>>
     ELSE /\ starter' = [phase |-> "loaded", rows |-> rows]
          /\ drift' = IF Free THEN {} ELSE drift \cup {"crossed"}
          /\ UNCHANGED <<cores, xdrift>>
  /\ UNCHANGED <<safe, rows, revision, save, edit>>

\* and the core runs what was read.
CoreStarted ==
  /\ Busy
  /\ BootsFrom(starter.rows)
  /\ starter' = NotStarting
  /\ IF up' THEN EnsureXray ELSE UNCHANGED <<xup, xlive, xdrift>>
  /\ UNCHANGED <<safe, rows, revision, save, edit, drift>>

\* StopCore, the first half of RestartCore.  (That it may hit a start in
\* progress is CoreRuntime's subject.)
StopCore ==
  /\ ~Busy
  /\ up' = FALSE /\ live' = NoConfig /\ xup' = FALSE /\ xlive' = NoXray
  /\ xdrift' = {}
  /\ UNCHANGED <<safe, rows, revision, starter, save, edit, drift>>

\* A cron job records a change outside configSaveMu.  A transaction that has
\* read before cannot write any more.
JobRecords ==
  /\ revision < MaxRevision
  /\ \/ save.phase \in {"idle", "rows"}
     \/ save.phase = "runtime" /\ ~RowsFirst(save.kind)
  /\ revision' = revision + 1
  /\ save' = IF Free THEN save ELSE [save EXCEPT !.stale = @ \/ save.reads]
  /\ UNCHANGED <<safe, rows, cores, starter, edit, drift, xdrift>>

SaveStep == WriteRows \/ SaveFails \/ RestartPanics \/ Commit \/ AfterConfig \/ AfterDown
              \/ AfterUp \/ \E o \in Objects : RunRemove(o) \/ RunAdd(o)

Remote(e) == ReadRevision(e) \/ ReadRows(e) \/ Conflict(e) \/ RemoteSave(e)
               \/ QuickTls(e) \/ QuickClient(e) \/ QuickInbound(e)

Next == LocalSave \/ SaveStep \/ StartCore \/ CoreStarted \/ StopCore \/ JobRecords
          \/ \E e \in Editors : Remote(e)

Spec == Init /\ [][Next]_vars

-----------------------------------------------------------------------------
\* Properties.

Quiet == Free /\ ~Busy

(* Once no save and no start is under way, the running sing-box core has    *)
(* exactly the objects of the committed rows, whatever saves failed in the  *)
(* middle of patching it; only a refusal by another core operation or a     *)
(* start that crossed a save excuses a difference (config.go:440-569).      *)
CoreFollowsSaves == Quiet /\ up /\ drift = {} => live = BoxConfig(rows)

(* The same for the Xray child, which is never patched, only restarted when *)
(* the change is found to affect it (config.go:316-407, 520, 553-561).      *)
XrayFollowsSaves == Quiet /\ xup /\ xdrift = {} => xlive = XrayConfig(rows)

(* What docs/code-architecture-analysis.md:52 says of a save: after the     *)
(* commit sing-box or Xray is restarted as far as the change reaches.  A    *)
(* refusal, which the caller is told of, is excused.                        *)
XrayRunsWhatIsSaved == Quiet /\ xup /\ "refused" \notin xdrift => xlive = XrayConfig(rows)

(* A remote edit is applied only to an inbound that still is as the editor  *)
(* saw it: no save of another panel, and no earlier copy of the same        *)
(* request, is overwritten, and a quick add never takes a tag that somebody *)
(* else took meanwhile (config.go:416-432, local_control.go:98-184).        *)
RemoteEditsAreFresh ==
  [][(revision' # revision /\ save.phase = "check" /\ save.by \in Editors) =>
       \A o \in Inbounds : rows'.obj[o] # rows.obj[o] => rows.obj[o] = edit[save.by].seen[o]]_vars
===============================================================================
