----------------------------- MODULE ClientQuota -----------------------------
(***************************************************************************)
(* Clients, their traffic and their quota.  The trackers of the core count *)
(* traffic and connections; cron jobs store the counters, disable clients  *)
(* that are over their volume or expired and reset periods; the panel      *)
(* edits clients meanwhile.  All of them restart inbounds of the running   *)
(* core, which hands each inbound the list of its enabled clients.         *)
(*                                                                         *)
(* A SQLite transaction is one action when nothing else can come between   *)
(* its parts: it either holds the write lock from its first statement, or  *)
(* its first write fails because its snapshot is old, without effect.      *)
(***************************************************************************)
EXTENDS Naturals

CONSTANTS
  Clients,
  Boxed,      \* the inbounds on sing-box; every client has all of them
  Plans,      \* the delay_start and auto_reset the clients may have
  Volume,     \* the volume of every client, in units of traffic
  MaxSent,    \* bounds the traffic of each client,
  MaxClock,   \* the time, in periods of ResetDays,
  MaxSaves    \* and the saves of the panel

ASSUME QuotaAssumption ==
  /\ Clients # {}
  /\ Plans \subseteq [Clients -> [delay : BOOLEAN, auto : BOOLEAN]]
  /\ Volume \in Nat /\ MaxSent \in Nat /\ MaxClock \in Nat /\ MaxSaves \in Nat

VARIABLES
  row,      \* the committed rows of the table clients
  clock,
  coreUp,   \* the core runs,
  users,    \* the users it lets into each inbound ({} also without the inbound),
  starting, \* the rows a start has read, <<>> without one
  conn,     \* the connection of a client to an inbound
  pending,  \* StatsTracker: traffic counted since the last GetStats
  taken,    \* traffic SaveStats has taken from the tracker
  sent,     \* all the traffic there has been
  form,     \* the client a browser has loaded, and is editing
  tx,       \* saveLocked("clients"): its view, and the inbounds it still restarts
  cut,      \* DepleteJob: the inbounds it still restarts
  resetting,\* ResetTrafficJob is about to restart the core
  saves,    \* the saves so far
  missed    \* the inbounds that a start or a restart which was overtaken has given older
            \* rows, or that a job which gave up has left as they were

qvars == <<row, clock, coreUp, users, starting, conn, pending, taken, sent, form, tx,
           cut, resetting, saves, missed>>
runtime == <<coreUp, users, starting, conn>>
traffic == <<pending, taken, sent>>
workers == <<form, tx, cut, resetting, saves>>

Times == 0 .. MaxClock + 1
Row   == [enable : BOOLEAN, used : 0 .. MaxSent, total : 0 .. MaxSent, delay : BOOLEAN,
          auto : BOOLEAN, expiry : Times, next : Times]

\* A RestartInbounds: which inbounds are left, and one that is removed already.
NoRestart == [on |-> FALSE, todo |-> {}, gone |-> {}]
NoSave    == [open |-> FALSE, view |-> <<>>, todo |-> {}, gone |-> {}]
NoForm    == [of |-> {}, row |-> <<>>]

QuotaTypeOK ==
  /\ row \in [Clients -> Row]
  /\ clock \in 0 .. MaxClock /\ coreUp \in BOOLEAN
  /\ users \in [Boxed -> SUBSET Clients]
  /\ starting = <<>> \/ starting \in [Clients -> Row]
  /\ conn \in [Clients -> [Boxed -> {"none", "new", "old", "tracked", "late"}]]
  /\ pending \in [Clients -> 0 .. MaxSent] /\ taken \in [Clients -> 0 .. MaxSent]
  /\ sent \in [Clients -> 0 .. MaxSent]
  /\ form = NoForm \/ \E c \in Clients : form.of = {c} /\ form.row \in Row
  /\ tx = NoSave \/ (tx.view \in [Clients -> Row] /\ tx.todo \subseteq Boxed
                       /\ tx.gone \subseteq tx.todo)
  /\ cut.todo \subseteq Boxed /\ cut.gone \subseteq cut.todo
  /\ resetting \in BOOLEAN /\ saves \in 0 .. MaxSaves /\ missed \subseteq Boxed

Enabled(r) == {c \in Clients : r[c].enable}
AllUsers(r) == [i \in Boxed |-> Enabled(r)]

\* The rows r are committed while a core is starting with others.
Overtakes(r) == starting # <<>> /\ Enabled(r) # Enabled(row)

\* A save has staged rows that only its own transaction reads.
Hidden == tx.open /\ Enabled(tx.view) # Enabled(row)

QuotaInit ==
  /\ \E plan \in Plans :
       row = [c \in Clients |-> [enable |-> TRUE, used |-> 0, total |-> 0, expiry |-> 0,
                                next |-> 0, delay |-> plan[c].delay, auto |-> plan[c].auto]]
  /\ clock = 0 /\ coreUp = TRUE
  /\ users = AllUsers(row) /\ starting = <<>>
  /\ conn = [c \in Clients |-> [i \in Boxed |-> "none"]]
  /\ pending = [c \in Clients |-> 0] /\ taken = pending /\ sent = pending
  /\ form = NoForm /\ tx = NoSave /\ cut = NoRestart /\ resetting = FALSE
  /\ saves = 0 /\ missed = {}

-----------------------------------------------------------------------------
\* Connections and traffic (core/tracker_conn.go, core/tracker_stats.go).

\* An inbound accepts a client.  The connection is sniffed and routed before
\* the trackers see it.
Accept(c, i) ==
  /\ coreUp /\ c \in users[i] /\ conn[c][i] = "none"
  /\ conn' = [conn EXCEPT ![c][i] = "new"]
  /\ UNCHANGED <<row, clock, coreUp, users, starting, traffic, workers, missed>>

\* RoutedConnection and RoutedPacketConnection of both trackers.
Routed(c, i) ==
  /\ conn[c][i] \in {"new", "old"}
  /\ conn' = [conn EXCEPT ![c][i] = IF @ = "new" THEN "tracked" ELSE "late"]
  /\ UNCHANGED <<row, clock, coreUp, users, starting, traffic, workers, missed>>

\* The wrapped connection is closed, or fails for good: doUntrack.
Untrack(c, i) ==
  /\ conn[c][i] \in {"tracked", "late"}
  /\ conn' = [conn EXCEPT ![c][i] = "none"]
  /\ UNCHANGED <<row, clock, coreUp, users, starting, traffic, workers, missed>>

\* A mutant: the connections of a restarted inbound are left open.
CloseNone(i) == UNCHANGED conn

\* CloseConnByInbound: what is tracked under the tag is closed.
CloseConnByInbound(i) ==
  conn' = [c \in Clients |->
             [conn[c] EXCEPT ![i] = IF @ \in {"new", "old"} THEN "old" ELSE "none"]]

\* AddInbound.  Where another restart has put the inbound back meanwhile, that one
\* is replaced, and what it accepted has missed the sweep.
AddInbound(i, us) ==
  /\ users' = [users EXCEPT ![i] = us]
  /\ conn' = IF users[i] = {} THEN conn
             ELSE [c \in Clients |->
                     [conn[c] EXCEPT ![i] = CASE @ = "new" -> "old" [] @ = "tracked" -> "late"
                                              [] OTHER -> @]]

\* An Int64CounterConn adds to the counters of its user.
Transfer(c) ==
  /\ sent[c] < MaxSent /\ \E i \in Boxed : conn[c][i] \in {"tracked", "late"}
  /\ sent' = [sent EXCEPT ![c] = @ + 1]
  /\ pending' = [pending EXCEPT ![c] = @ + 1]
  /\ UNCHANGED <<row, clock, runtime, taken, workers, missed>>

\* No transaction of a save holds SQLite's write lock.
Unlocked == ~tx.open

\* A mutant: the counters are read and not reset.
GetStatsPeek ==
  /\ coreUp /\ taken = [c \in Clients |-> 0]
  /\ taken' = pending
  /\ UNCHANGED <<row, clock, runtime, pending, sent, workers, missed>>

\* SaveStats: GetStats swaps every counter with zero
GetStats ==
  /\ coreUp /\ taken = [c \in Clients |-> 0]
  /\ taken' = pending /\ pending' = [c \in Clients |-> 0]
  /\ UNCHANGED <<row, clock, runtime, sent, workers, missed>>

\* and one transaction adds what was taken to the rows,
SaveStats ==
  /\ Unlocked
  /\ row' = [c \in Clients |-> [row[c] EXCEPT !.used = @ + taken[c]]]
  /\ taken' = [c \in Clients |-> 0]
  /\ UNCHANGED <<clock, runtime, pending, sent, workers, missed>>

\* or fails, and what was taken is lost.
SaveStatsFails ==
  /\ taken' = [c \in Clients |-> 0]
  /\ UNCHANGED <<row, clock, runtime, pending, sent, workers, missed>>

Tick ==
  /\ clock < MaxClock /\ clock' = clock + 1
  /\ UNCHANGED <<row, runtime, traffic, workers, missed>>

-----------------------------------------------------------------------------
\* The jobs.

Later == clock + 1

\* ResetClients, third part: a period has ended.
ResetRow(r) ==
  [r EXCEPT !.next = Later, !.total = @ + r.used, !.used = 0, !.enable = TRUE]

\* ResetClients: a delayed client starts with its first traffic; a period that
\* is over is reset, and what was disabled is enabled again.
ResetClient(r) ==
  IF r.delay
  THEN IF ~r.enable \/ r.used = 0 THEN r
       ELSE IF r.auto THEN [r EXCEPT !.next = Later, !.delay = FALSE]
       ELSE [r EXCEPT !.expiry = Later, !.delay = FALSE]
  ELSE IF r.auto /\ r.next < clock THEN ResetRow(r)
  ELSE r

\* The condition of DepleteClients.
Depleted(r) == r.enable /\ (r.used > Volume \/ (r.expiry > 0 /\ r.expiry < clock))

\* DepleteClients: one transaction, after which the inbounds of the clients it
\* disabled or enabled again are restarted.
DepleteClients ==
  /\ Unlocked /\ ~cut.on
  /\ LET fresh == [c \in Clients |-> ResetClient(row[c])]
         again == {c \in Clients : fresh[c].enable /\ ~row[c].enable}
         over  == {c \in Clients : Depleted(fresh[c])}
     IN  /\ row' = [c \in Clients |-> [fresh[c] EXCEPT !.enable = @ /\ c \notin over]]
         /\ row' # row
         /\ cut' = IF again \cup over = {} THEN NoRestart
                   ELSE [on |-> TRUE, todo |-> Boxed, gone |-> {}]
  /\ missed' = IF Overtakes(row') THEN Boxed ELSE missed
  /\ UNCHANGED <<clock, runtime, traffic, form, tx, resetting, saves>>

\* ResetAllClientsTraffic: one statement for all clients,
ResetAllClientsTraffic ==
  /\ Unlocked /\ ~resetting
  /\ row' = [c \in Clients |-> IF row[c].used > 0 \/ ~row[c].enable
                               THEN [row[c] EXCEPT !.total = @ + row[c].used, !.used = 0,
                                                   !.enable = TRUE]
                               ELSE row[c]]
  /\ row' # row
  /\ resetting' = TRUE
  /\ missed' = IF Overtakes(row') THEN Boxed ELSE missed
  /\ UNCHANGED <<clock, runtime, traffic, form, tx, cut, saves>>

\* after which the job gives up where the row of changes or SetGlobalResetLast
\* cannot be written, and nothing is restarted,
ResetStops ==
  /\ resetting /\ resetting' = FALSE
  /\ missed' = Boxed
  /\ UNCHANGED <<row, clock, runtime, traffic, form, tx, cut, saves>>

\* or goes on to RestartCore: the old core goes with the counters and connections of its
\* trackers.
StopsCore ==
  /\ coreUp' = FALSE /\ users' = [i \in Boxed |-> {}]
  /\ conn' = [c \in Clients |-> [i \in Boxed |-> "none"]]
  /\ pending' = [c \in Clients |-> 0]

RestartCore ==
  /\ resetting' = FALSE
  /\ resetting \/ coreUp
  /\ starting = <<>>
  /\ StopsCore
  /\ starting' = row
  /\ missed' = {}
  /\ UNCHANGED <<row, clock, taken, sent, form, tx, cut, saves>>

\* The core comes up with the rows that were read.  Transactions committed in
\* between found no core to change, nor did one that is still open.
StartEnds ==
  /\ starting # <<>>
  /\ coreUp' = TRUE /\ users' = AllUsers(starting)
  /\ starting' = <<>>
  /\ missed' = IF Hidden THEN Boxed ELSE missed
  /\ UNCHANGED <<row, clock, conn, traffic, workers>>

-----------------------------------------------------------------------------
\* RestartInbounds by the job: it reads the committed rows.

\* Without a core there is nothing to do; the next start reads the rows.
CutSkips ==
  /\ cut.on /\ ~coreUp /\ cut.todo = Boxed /\ cut.gone = {}
  /\ cut' = NoRestart
  /\ UNCHANGED <<row, clock, runtime, traffic, form, tx, resetting, saves, missed>>

CutRemove(i) ==
  /\ cut.on /\ coreUp /\ cut.gone = {} /\ i \in cut.todo
  /\ users' = [users EXCEPT ![i] = {}]
  /\ CloseConnByInbound(i)
  /\ cut' = [cut EXCEPT !.gone = {i}]
  /\ UNCHANGED <<row, clock, coreUp, starting, traffic, form, tx, resetting, saves, missed>>

\* With a save of clients under way the rows it stages are not seen.
CutAdd(i) ==
  /\ cut.on /\ coreUp /\ i \in cut.gone
  /\ AddInbound(i, Enabled(row))
  /\ cut' = IF cut.todo = {i} THEN NoRestart
            ELSE [on |-> TRUE, todo |-> cut.todo \ {i}, gone |-> {}]
  /\ missed' = IF Hidden THEN missed \cup {i} ELSE missed \ {i}
  /\ UNCHANGED <<row, clock, coreUp, starting, traffic, form, tx, resetting, saves>>

\* A call fails: the job logs it, and an inbound it has removed stays away until a
\* core is started.
CutFails ==
  /\ cut.on
  /\ cut' = NoRestart
  /\ missed' = IF coreUp THEN missed \cup cut.todo ELSE missed
  /\ UNCHANGED <<row, clock, runtime, traffic, form, tx, resetting, saves>>

-----------------------------------------------------------------------------
\* The panel edits a client: ClientService.Save, act edit.

LoadForm(c) ==
  /\ form = NoForm /\ saves < MaxSaves
  /\ form' = [of |-> {c}, row |-> row[c]]
  /\ UNCHANGED <<row, clock, runtime, traffic, tx, cut, resetting, saves, missed>>

\* The whole row is written as the browser sends it, with enable, the counters
\* and the dates it loaded or the user changed.  findInboundsChanges compares
\* the name, enable and the inbounds with the row.
SaveClient ==
  /\ form # NoForm /\ Unlocked
  /\ \E c \in form.of :
       \E r \in {form.row, [form.row EXCEPT !.enable = ~@], [form.row EXCEPT !.used = 0]} :
         tx' = [open |-> TRUE, view |-> [row EXCEPT ![c] = r], gone |-> {},
                  todo |-> IF r.enable # row[c].enable /\ coreUp THEN Boxed ELSE {}]
  /\ form' = NoForm /\ saves' = saves + 1
  /\ UNCHANGED <<row, clock, runtime, traffic, cut, resetting, missed>>

SaveRemove(i) ==
  /\ tx.open /\ coreUp /\ tx.gone = {} /\ i \in tx.todo
  /\ users' = [users EXCEPT ![i] = {}]
  /\ CloseConnByInbound(i)
  /\ tx' = [tx EXCEPT !.gone = {i}]
  /\ UNCHANGED <<row, clock, coreUp, starting, traffic, form, cut, resetting, saves, missed>>

\* A mutant: the users are read outside the transaction, from the committed rows.
SaveAddCommitted(i) ==
  /\ tx.open /\ coreUp /\ i \in tx.gone
  /\ AddInbound(i, Enabled(row))
  /\ tx' = [tx EXCEPT !.gone = {}, !.todo = @ \ {i}]
  /\ missed' = missed \ {i}
  /\ UNCHANGED <<row, clock, coreUp, starting, traffic, form, cut, resetting, saves>>

\* RestartInbounds inside the transaction reads the rows it stages.
SaveAdd(i) ==
  /\ tx.open /\ coreUp /\ i \in tx.gone
  /\ AddInbound(i, Enabled(tx.view))
  /\ tx' = [tx EXCEPT !.gone = {}, !.todo = @ \ {i}]
  /\ missed' = missed \ {i}
  /\ UNCHANGED <<row, clock, coreUp, starting, traffic, form, cut, resetting, saves>>

\* The commit.
SaveCommit ==
  /\ tx.open /\ tx.todo = {}
  /\ row' = tx.view /\ tx' = NoSave
  /\ missed' = IF Overtakes(tx.view) THEN Boxed ELSE missed
  /\ UNCHANGED <<clock, coreUp, users, starting, conn, traffic, form, cut, resetting, saves>>

\* A failed save restarts the core from the committed rows.
EditFails ==
  /\ tx.open
  /\ tx' = NoSave
  /\ IF coreUp /\ starting = <<>>
     THEN StopsCore /\ starting' = row /\ missed' = {}
     ELSE UNCHANGED <<coreUp, users, conn, pending, starting, missed>>
  /\ UNCHANGED <<row, clock, taken, sent, form, cut, resetting, saves>>

Jobs == Tick \/ GetStats \/ SaveStats \/ SaveStatsFails \/ DepleteClients
          \/ ResetAllClientsTraffic \/ ResetStops \/ RestartCore \/ StartEnds \/ CutSkips \/ CutFails
          \/ \E i \in Boxed : CutRemove(i) \/ CutAdd(i)

Panel == SaveClient \/ SaveCommit \/ EditFails \/ (\E c \in Clients : LoadForm(c))
           \/ \E i \in Boxed : SaveRemove(i) \/ SaveAdd(i)

Peers == \E c \in Clients : Transfer(c) \/ \E i \in Boxed : Accept(c, i) \/ Routed(c, i)
                                                              \/ Untrack(c, i)

QuotaNext == Jobs \/ Panel \/ Peers

QuotaSpec == QuotaInit /\ [][QuotaNext]_qvars

-----------------------------------------------------------------------------
\* Properties.

AtRest == ~cut.on /\ ~tx.open /\ ~resetting /\ starting = <<>>

(* When no job and no save is in the middle of something, each inbound of   *)
(* the running core lets in exactly the enabled clients: a client the       *)
(* depletion disabled is out, a client a reset enabled is in, whatever a    *)
(* save did in between, and a save leaves its inbounds with the rows it     *)
(* commits (config.go:474).  Not so an inbound of a core that was starting  *)
(* when other rows were committed (config.go:128), one that a start or the  *)
(* depletion restarted with the committed rows while a save of others was   *)
(* open (depleteJob.go:25, inbounds.go:367), and those left by a restart    *)
(* that failed (inbounds.go:384) or by a global reset that gave up before   *)
(* its restart (resetTrafficJob.go:40-50), each until it is restarted.      *)
EnabledClientsAreServed == AtRest /\ coreUp => \A i \in Boxed \ missed : users[i] = Enabled(row)

(* Then no connection of a disabled client is left on such an inbound,      *)
(* except one that was accepted before the sweep and routed after it        *)
(* (tracker_conn.go:82, inbounds.go:389).                                   *)
NoConnectionSurvives ==
  AtRest /\ coreUp => \A i \in Boxed \ missed, c \in Clients \ Enabled(row) : conn[c][i] # "tracked"

(* However the statistics, periodic resets, the global reset, core restarts *)
(* and saves of stale forms interleave, a client is never billed traffic it *)
(* did not send (stats.go:25-130, client.go:472-588, tracker_stats.go:86).  *)
NeverOverbilled ==
  \A c \in Clients : row[c].used + row[c].total + taken[c] + pending[c] <= sent[c]
===============================================================================
