--------------------------- MODULE ClientQuotaProofs ---------------------------
(***************************************************************************)
(* Proofs about ClientQuota, for any clients, inbounds, volume, traffic and *)
(* number of saves.  QuotaInv bounds what every copy of a client row bills, *)
(* and says which rows each inbound of the running core is built from while *)
(* jobs and saves restart the inbounds one by one.                         *)
(***************************************************************************)
EXTENDS ClientQuota, TLAPS

\* The connections of every client to every inbound.
Conns == [Clients -> [Boxed -> {"none", "new", "old", "tracked", "late"}]]

\* QuotaTypeOK, with the shapes of the form, the save and the restart, and what bounds
\* the saves.
Types ==
  /\ row \in [Clients -> Row] /\ clock \in 0 .. MaxClock /\ coreUp \in BOOLEAN
  /\ users \in [Boxed -> SUBSET Clients]
  /\ starting = <<>> \/ starting \in [Clients -> Row]
  /\ conn \in Conns
  /\ pending \in [Clients -> 0 .. MaxSent] /\ taken \in [Clients -> 0 .. MaxSent]
  /\ sent \in [Clients -> 0 .. MaxSent]
  /\ form = NoForm \/ \E c \in Clients, r \in Row : form = [of |-> {c}, row |-> r]
  /\ tx = NoSave \/ /\ tx \in [open : {TRUE}, view : [Clients -> Row],
                                todo : SUBSET Boxed, gone : SUBSET Boxed]
                    /\ tx.gone \subseteq tx.todo
  /\ cut = NoRestart \/ /\ cut \in [on : {TRUE}, todo : SUBSET Boxed, gone : SUBSET Boxed]
                        /\ cut.gone \subseteq cut.todo
  /\ resetting \in BOOLEAN /\ saves \in 0 .. MaxSaves /\ missed \subseteq Boxed
  /\ form # NoForm => saves < MaxSaves

\* A row bills a client no more than it sent and the tracker and SaveStats do not hold.
\* What neither holds only grows, so a row a browser or a save has read stays good.
Billed(r, c) == r.used + r.total + taken[c] + pending[c] <= sent[c]

Bills ==
  /\ \A c \in Clients : Billed(row[c], c)
  /\ \A c \in form.of : Billed(form.row, c)
  /\ tx.open => \A c \in Clients : Billed(tx.view[c], c)

\* A start is under way exactly when the core is down, and has read the committed rows
\* unless rows committed since have marked every inbound.
UpOrStarting ==
  /\ coreUp <=> starting = <<>>
  /\ starting # <<>> => missed = Boxed \/ Enabled(starting) = Enabled(row)

\* A stopped core lets nobody in.
DownIsEmpty == ~coreUp => \A i \in Boxed : users[i] = {}

\* An inbound that nothing is to restart any more lets in the enabled clients: those of
\* the rows that a save is about to commit, or without one of the committed rows.
Served ==
  coreUp /\ ~resetting =>
    \A i \in Boxed \ (missed \cup cut.todo \cup tx.todo) :
      users[i] = Enabled(IF tx.open THEN tx.view ELSE row)

\* The trackers' connections are of clients the inbound lets in: a restart of the
\* inbound has closed those of the others, and what it missed is not counted as tracked.
Admitted == \A c \in Clients, i \in Boxed : conn[c][i] \in {"new", "tracked"} => c \in users[i]

QuotaInv == Types /\ Bills /\ UpOrStarting /\ DownIsEmpty /\ Served /\ Admitted

-----------------------------------------------------------------------------
USE QuotaAssumption

\* Rows, and who is enabled by them.
LEMMA RowsAreNotEmpty == ASSUME NEW S, NEW r \in [Clients -> S] PROVE r # <<>>
<1>1. DOMAIN r = Clients /\ DOMAIN <<>> = {}
  OBVIOUS
<1> QED
  BY <1>1

LEMMA EnabledSame ==
  ASSUME NEW r, NEW s, \A c \in Clients : r[c].enable <=> s[c].enable
  PROVE  Enabled(r) = Enabled(s)
BY DEF Enabled

LEMMA EnabledAre == ASSUME NEW r PROVE Enabled(r) \subseteq Clients
BY DEF Enabled

\* The billed amounts are bounded by what was sent.
LEMMA BillBounds ==
  ASSUME Types, NEW c \in Clients, NEW r \in Row, Billed(r, c)
  PROVE  /\ r.used \in Nat /\ r.total \in Nat /\ taken[c] \in Nat /\ pending[c] \in Nat
         /\ sent[c] \in Nat /\ MaxSent \in Nat /\ sent[c] <= MaxSent
         /\ r.used + taken[c] \in 0 .. MaxSent /\ r.used + r.total \in 0 .. MaxSent
         /\ taken[c] + pending[c] \in 0 .. MaxSent
<1>1. r.used \in Nat /\ r.total \in Nat
  BY DEF Row
<1>2. /\ taken[c] \in Nat /\ pending[c] \in Nat /\ sent[c] \in Nat
      /\ sent[c] <= MaxSent /\ MaxSent \in Nat
  BY DEF Types, Conns
<1> QED
  BY <1>1, <1>2 DEF Billed

LEMMA ResetIs ==
  ASSUME Types, NEW r \in Row, r.used + r.total \in 0 .. MaxSent
  PROVE  /\ ResetClient(r) \in Row
         /\ ResetClient(r).used + ResetClient(r).total = r.used + r.total
         /\ r.enable => ResetClient(r).enable
<1>1. Later \in Times /\ 0 \in 0 .. MaxSent /\ r.used \in Nat /\ r.total \in Nat
  BY DEF Types, Later, Times, Row
<1>2. /\ [r EXCEPT !.next = Later, !.delay = FALSE] \in Row
      /\ [r EXCEPT !.next = Later, !.delay = FALSE].used = r.used
      /\ [r EXCEPT !.next = Later, !.delay = FALSE].total = r.total
      /\ [r EXCEPT !.next = Later, !.delay = FALSE].enable = r.enable
  BY <1>1 DEF Row
<1>3. /\ [r EXCEPT !.expiry = Later, !.delay = FALSE] \in Row
      /\ [r EXCEPT !.expiry = Later, !.delay = FALSE].used = r.used
      /\ [r EXCEPT !.expiry = Later, !.delay = FALSE].total = r.total
      /\ [r EXCEPT !.expiry = Later, !.delay = FALSE].enable = r.enable
  BY <1>1 DEF Row
<1>4. /\ ResetRow(r) \in Row /\ ResetRow(r).used = 0
      /\ ResetRow(r).total = r.total + r.used /\ ResetRow(r).enable
  <2>1. r.total + r.used \in 0 .. MaxSent
    BY <1>1
  <2> QED
    BY <1>1, <2>1 DEF ResetRow, Row
<1> QED
  BY <1>1, <1>2, <1>3, <1>4 DEF ResetClient

\* What the save, the form and the job look like.
LEMMA OpenTx ==
  ASSUME Types, tx.open
  PROVE  /\ tx.view \in [Clients -> Row] /\ tx.todo \subseteq Boxed /\ tx.gone \subseteq tx.todo
         /\ tx = [open |-> TRUE, view |-> tx.view, todo |-> tx.todo, gone |-> tx.gone]
<1>1. tx # NoSave
  BY DEF NoSave
<1>2. tx \in [open : {TRUE}, view : [Clients -> Row], todo : SUBSET Boxed, gone : SUBSET Boxed]
      /\ tx.gone \subseteq tx.todo
  BY <1>1 DEF Types
<1> QED
  BY <1>2

LEMMA OpenTxIs ==
  ASSUME NEW v \in [Clients -> Row], NEW S \in SUBSET Boxed, NEW G \in SUBSET Boxed, G \subseteq S,
         NEW r, r = [open |-> TRUE, view |-> v, todo |-> S, gone |-> G]
  PROVE  /\ r.open /\ r.view = v /\ r.todo = S /\ r.gone = G
         /\ r \in [open : {TRUE}, view : [Clients -> Row], todo : SUBSET Boxed, gone : SUBSET Boxed]
OBVIOUS

LEMMA OnCut ==
  ASSUME Types
  PROVE  /\ cut.todo \subseteq Boxed /\ cut.gone \subseteq cut.todo /\ cut.on \in BOOLEAN
         /\ ~cut.on => cut.todo = {} /\ cut = NoRestart
         /\ cut.on => cut = [on |-> TRUE, todo |-> cut.todo, gone |-> cut.gone]
<1>1. CASE cut = NoRestart
  BY <1>1 DEF NoRestart
<1>2. CASE /\ cut \in [on : {TRUE}, todo : SUBSET Boxed, gone : SUBSET Boxed]
           /\ cut.gone \subseteq cut.todo
  BY <1>2
<1> QED
  BY <1>1, <1>2 DEF Types

LEMMA OnCutIs ==
  ASSUME NEW S \in SUBSET Boxed, NEW G \in SUBSET Boxed, G \subseteq S,
         NEW r, r = [on |-> TRUE, todo |-> S, gone |-> G]
  PROVE  /\ r.on /\ r.todo = S /\ r.gone = G
         /\ r \in [on : {TRUE}, todo : SUBSET Boxed, gone : SUBSET Boxed]
OBVIOUS

LEMMA ClosedTx == ASSUME Types, ~tx.open PROVE tx = NoSave
BY DEF Types

LEMMA FormIs ==
  ASSUME Types, form # NoForm
  PROVE  \E c \in Clients : form.of = {c} /\ form.row \in Row
<1>1. PICK c \in Clients, r \in Row : form = [of |-> {c}, row |-> r]
  BY DEF Types
<1>2. form.of = {c} /\ form.row = r
  BY <1>1
<1> QED
  BY <1>2

-----------------------------------------------------------------------------
\* Connections and traffic.

LEMMA AcceptKeeps ==
  ASSUME QuotaInv, NEW c \in Clients, NEW i \in Boxed, Accept(c, i)
  PROVE  QuotaInv'
<1> USE DEF QuotaInv
<1>1. /\ UNCHANGED <<row, clock, coreUp, users, starting, pending, taken, sent, form, tx, cut,
                     resetting, saves, missed>>
      /\ c \in users[i] /\ conn' = [conn EXCEPT ![c][i] = "new"]
  BY DEF Accept, traffic, workers
<1>2. conn' \in Conns
      /\ \A d \in Clients, j \in Boxed : conn'[d][j] = IF d = c /\ j = i THEN "new" ELSE conn[d][j]
  BY <1>1 DEF Types, Conns
<1>3. Types'
  BY <1>1, <1>2 DEF Types, Conns
<1>4. Bills' /\ UpOrStarting' /\ DownIsEmpty' /\ Served'
  BY <1>1 DEF Bills, Billed, UpOrStarting, DownIsEmpty, Served
<1>5. Admitted'
  BY <1>1, <1>2 DEF Admitted
<1> QED
  BY <1>3, <1>4, <1>5

LEMMA RoutedKeeps ==
  ASSUME QuotaInv, NEW c \in Clients, NEW i \in Boxed, Routed(c, i)
  PROVE  QuotaInv'
<1> USE DEF QuotaInv
<1>1. /\ UNCHANGED <<row, clock, coreUp, users, starting, pending, taken, sent, form, tx, cut,
                     resetting, saves, missed>>
      /\ conn' = [conn EXCEPT ![c][i] = IF conn[c][i] = "new" THEN "tracked" ELSE "late"]
  BY DEF Routed, traffic, workers
<1>2. conn' \in Conns
      /\ \A d \in Clients, j \in Boxed :
           conn'[d][j] = IF d = c /\ j = i THEN (IF conn[c][i] = "new" THEN "tracked" ELSE "late")
                         ELSE conn[d][j]
  BY <1>1 DEF Types, Conns
<1>3. Types'
  BY <1>1, <1>2 DEF Types, Conns
<1>4. Bills' /\ UpOrStarting' /\ DownIsEmpty' /\ Served'
  BY <1>1 DEF Bills, Billed, UpOrStarting, DownIsEmpty, Served
<1>5. Admitted'
  BY <1>1, <1>2 DEF Admitted
<1> QED
  BY <1>3, <1>4, <1>5

LEMMA UntrackKeeps ==
  ASSUME QuotaInv, NEW c \in Clients, NEW i \in Boxed, Untrack(c, i)
  PROVE  QuotaInv'
<1> USE DEF QuotaInv
<1>1. /\ UNCHANGED <<row, clock, coreUp, users, starting, pending, taken, sent, form, tx, cut,
                     resetting, saves, missed>>
      /\ conn' = [conn EXCEPT ![c][i] = "none"]
  BY DEF Untrack, traffic, workers
<1>2. conn' \in Conns
      /\ \A d \in Clients, j \in Boxed : conn'[d][j] = IF d = c /\ j = i THEN "none" ELSE conn[d][j]
  BY <1>1 DEF Types, Conns
<1>3. Types'
  BY <1>1, <1>2 DEF Types, Conns
<1>4. Bills' /\ UpOrStarting' /\ DownIsEmpty' /\ Served'
  BY <1>1 DEF Bills, Billed, UpOrStarting, DownIsEmpty, Served
<1>5. Admitted'
  BY <1>1, <1>2 DEF Admitted
<1> QED
  BY <1>3, <1>4, <1>5

\* Steps that only move the amounts: the row gets no more than leaves the counters.
LEMMA AmountsKeep ==
  ASSUME QuotaInv, Types', form' = form, tx' = tx,
         UNCHANGED <<coreUp, users, starting, conn, cut, resetting, missed>>,
         \A c \in Clients : /\ row'[c].enable <=> row[c].enable
                            /\ Billed(row[c], c)'
                            /\ taken'[c] + pending'[c] - sent'[c] <= taken[c] + pending[c] - sent[c]
  PROVE  QuotaInv'
<1> USE DEF QuotaInv
<1>1. ASSUME NEW c \in Clients, NEW r \in Row, Billed(r, c) PROVE Billed(r, c)'
  <2>1. r.used \in Nat /\ r.total \in Nat
    BY DEF Row
  <2>2. /\ taken[c] \in Nat /\ pending[c] \in Nat /\ sent[c] \in Nat
        /\ taken'[c] \in Nat /\ pending'[c] \in Nat /\ sent'[c] \in Nat
    BY DEF Types, Conns
  <2> QED
    BY <1>1, <2>1, <2>2 DEF Billed
<1>2. Bills'
  <2>1. ASSUME NEW c \in form.of PROVE Billed(form.row, c)'
    <3>1. c \in Clients /\ form.row \in Row
      BY DEF Types, NoForm
    <3> QED
      BY <1>1, <3>1 DEF Bills, Billed
  <2>2. ASSUME tx.open, NEW c \in Clients PROVE Billed(tx.view[c], c)'
    <3>1. tx.view[c] \in Row
      BY <2>2, OpenTx
    <3>2. Billed(tx.view[c], c)
      BY <2>2 DEF Bills
    <3> QED
      BY <1>1, <3>1, <3>2 DEF Billed
  <2> QED
    BY <2>1, <2>2 DEF Bills, Billed
<1>3. DownIsEmpty' /\ Admitted'
  BY DEF DownIsEmpty, Admitted
<1>4. Enabled(row') = Enabled(row)
  BY EnabledSame
<1>5. UpOrStarting'
  BY <1>4 DEF UpOrStarting
<1>6. Served'
  BY <1>4 DEF Served
<1> QED
  BY <1>2, <1>3, <1>5, <1>6

LEMMA TransferKeeps == ASSUME QuotaInv, NEW c \in Clients, Transfer(c) PROVE QuotaInv'
<1> USE DEF QuotaInv
<1>1. /\ sent[c] < MaxSent /\ sent' = [sent EXCEPT ![c] = sent[c] + 1]
      /\ pending' = [pending EXCEPT ![c] = pending[c] + 1]
      /\ UNCHANGED <<row, clock, coreUp, users, starting, conn, taken, form, tx, cut,
                     resetting, saves, missed>>
  BY DEF Transfer, runtime, workers
<1>2. \A d \in Clients : /\ row[d] \in Row /\ row[d].used \in Nat /\ row[d].total \in Nat
                         /\ taken[d] \in Nat /\ pending[d] \in Nat /\ sent[d] \in Nat
                         /\ row[d].used + row[d].total + taken[d] + pending[d] <= sent[d]
  BY DEF Types, Row, Bills, Billed
<1>3. \A d \in Clients : sent'[d] = (IF d = c THEN sent[c] + 1 ELSE sent[d])
                         /\ pending'[d] = (IF d = c THEN pending[c] + 1 ELSE pending[d])
  BY <1>1 DEF Types
<1>4. Types'
  <2>1. sent' \in [Clients -> 0 .. MaxSent]
    BY <1>1, <1>2 DEF Types
  <2>2. pending' \in [Clients -> 0 .. MaxSent]
    <3>1. pending[c] + 1 \in 0 .. MaxSent
      BY <1>1, <1>2
    <3> QED
      BY <1>1, <3>1 DEF Types
  <2> QED
    BY <1>1, <2>1, <2>2 DEF Types
<1>5. \A d \in Clients : /\ row'[d].enable <=> row[d].enable
                         /\ Billed(row[d], d)'
                         /\ taken'[d] + pending'[d] - sent'[d] <= taken[d] + pending[d] - sent[d]
  BY <1>1, <1>2, <1>3 DEF Billed
<1> QED
  BY <1>1, <1>4, <1>5, AmountsKeep

LEMMA GetStatsKeeps == ASSUME QuotaInv, GetStats PROVE QuotaInv'
<1> USE DEF QuotaInv
<1>1. /\ taken = [c \in Clients |-> 0] /\ taken' = pending /\ pending' = [c \in Clients |-> 0]
      /\ UNCHANGED <<row, clock, coreUp, users, starting, conn, sent, form, tx, cut,
                     resetting, saves, missed>>
  BY DEF GetStats, runtime, workers
<1>2. \A d \in Clients : /\ row[d] \in Row /\ row[d].used \in Nat /\ row[d].total \in Nat
                         /\ taken[d] = 0 /\ pending[d] \in Nat /\ sent[d] \in Nat
                         /\ taken'[d] = pending[d] /\ pending'[d] = 0
                         /\ row[d].used + row[d].total + taken[d] + pending[d] <= sent[d]
  BY <1>1 DEF Types, Row, Bills, Billed
<1>3. Types'
  BY <1>1 DEF Types
<1>4. \A d \in Clients : /\ row'[d].enable <=> row[d].enable
                         /\ Billed(row[d], d)'
                         /\ taken'[d] + pending'[d] - sent'[d] <= taken[d] + pending[d] - sent[d]
  BY <1>1, <1>2 DEF Billed
<1> QED
  BY <1>1, <1>3, <1>4, AmountsKeep

LEMMA SaveStatsKeeps == ASSUME QuotaInv, SaveStats PROVE QuotaInv'
<1> USE DEF QuotaInv
<1>1. /\ row' = [c \in Clients |-> [row[c] EXCEPT !.used = row[c].used + taken[c]]]
      /\ taken' = [c \in Clients |-> 0]
      /\ UNCHANGED <<clock, coreUp, users, starting, conn, pending, sent, form, tx, cut,
                     resetting, saves, missed>>
  BY DEF SaveStats, runtime, workers
<1>2. ASSUME NEW d \in Clients
      PROVE  /\ row[d] \in Row /\ row[d].used \in Nat /\ row[d].total \in Nat
             /\ taken[d] \in Nat /\ taken'[d] = 0 /\ pending[d] \in Nat /\ sent[d] \in Nat
             /\ row[d].used + row[d].total + taken[d] + pending[d] <= sent[d]
             /\ row[d].used + taken[d] \in 0 .. MaxSent
             /\ Billed(row[d], d)
  <2>1. row[d] \in Row /\ Billed(row[d], d)
    BY DEF Types, Bills
  <2> QED
    BY <1>1, <2>1, BillBounds DEF Billed
<1>3. ASSUME NEW d \in Clients
      PROVE  /\ row'[d] \in Row /\ (row'[d].enable <=> row[d].enable)
             /\ row'[d].used = row[d].used + taken[d] /\ row'[d].total = row[d].total
  <2>1. row'[d] = [row[d] EXCEPT !.used = row[d].used + taken[d]]
    BY <1>1
  <2> QED
    BY <2>1, <1>2 DEF Row
<1>4. Types'
  <2>1. row' \in [Clients -> Row]
    BY <1>1, <1>3
  <2>2. 0 \in 0 .. MaxSent
    OBVIOUS
  <2> QED
    BY <1>1, <2>1, <2>2 DEF Types
<1>5. \A d \in Clients : /\ row'[d].enable <=> row[d].enable
                         /\ Billed(row[d], d)'
                         /\ taken'[d] + pending'[d] - sent'[d] <= taken[d] + pending[d] - sent[d]
  BY <1>1, <1>2, <1>3 DEF Billed
<1> QED
  BY <1>1, <1>4, <1>5, AmountsKeep

LEMMA SaveStatsFailsKeeps == ASSUME QuotaInv, SaveStatsFails PROVE QuotaInv'
<1> USE DEF QuotaInv
<1>1. /\ taken' = [c \in Clients |-> 0]
      /\ UNCHANGED <<row, clock, coreUp, users, starting, conn, pending, sent, form, tx, cut,
                     resetting, saves, missed>>
  BY DEF SaveStatsFails, runtime, workers
<1>2. \A d \in Clients : /\ row[d] \in Row /\ row[d].used \in Nat /\ row[d].total \in Nat
                         /\ taken[d] \in Nat /\ taken'[d] = 0 /\ pending[d] \in Nat
                         /\ sent[d] \in Nat
                         /\ row[d].used + row[d].total + taken[d] + pending[d] <= sent[d]
  BY <1>1 DEF Types, Row, Bills, Billed
<1>3. Types'
  <2>1. 0 \in 0 .. MaxSent
    OBVIOUS
  <2> QED
    BY <1>1, <2>1 DEF Types
<1>4. \A d \in Clients : /\ row'[d].enable <=> row[d].enable
                         /\ Billed(row[d], d)'
                         /\ taken'[d] + pending'[d] - sent'[d] <= taken[d] + pending[d] - sent[d]
  BY <1>1, <1>2 DEF Billed
<1> QED
  BY <1>1, <1>3, <1>4, AmountsKeep

LEMMA TickKeeps == ASSUME QuotaInv, Tick PROVE QuotaInv'
<1> USE DEF QuotaInv
<1>1. /\ clock < MaxClock /\ clock' = clock + 1
      /\ UNCHANGED <<row, coreUp, users, starting, conn, pending, taken, sent, form, tx, cut,
                     resetting, saves, missed>>
  BY DEF Tick, runtime, traffic, workers
<1>2. clock' \in 0 .. MaxClock
  BY <1>1 DEF Types
<1>3. Types'
  BY <1>1, <1>2 DEF Types
<1> QED
  BY <1>1, <1>3 DEF Bills, Billed, UpOrStarting, DownIsEmpty, Served, Admitted

\* A step that rewrites rows and keeps what each is billed.
LEMMA RowsKeep ==
  ASSUME QuotaInv, Types', Served', missed' = (IF Overtakes(row') THEN Boxed ELSE missed),
         UNCHANGED <<coreUp, users, starting, conn, pending, taken, sent, form, tx>>,
         \A c \in Clients : row'[c].used + row'[c].total = row[c].used + row[c].total
  PROVE  QuotaInv'
<1> USE DEF QuotaInv
<1>1. ASSUME NEW c \in Clients PROVE Billed(row[c], c)'
  <2>1. /\ row[c].used \in Nat /\ row[c].total \in Nat /\ row'[c].used \in Nat
        /\ row'[c].total \in Nat /\ taken[c] \in Nat /\ pending[c] \in Nat /\ sent[c] \in Nat
    BY DEF Types, Row
  <2> QED
    BY <2>1 DEF Bills, Billed
<1>2. Bills'
  BY <1>1 DEF Bills, Billed
<1>3. UpOrStarting'
  BY DEF UpOrStarting, Overtakes
<1> QED
  BY <1>2, <1>3 DEF DownIsEmpty, Admitted

LEMMA DepleteKeeps == ASSUME QuotaInv, DepleteClients PROVE QuotaInv'
<1> USE DEF QuotaInv
<1> DEFINE fresh == [c \in Clients |-> ResetClient(row[c])]
           again == {c \in Clients : fresh[c].enable /\ ~row[c].enable}
           over  == {c \in Clients : Depleted(fresh[c])}
<1>1. /\ ~tx.open /\ ~cut.on
      /\ row' = [c \in Clients |-> [fresh[c] EXCEPT !.enable = fresh[c].enable /\ c \notin over]]
      /\ cut' = (IF again \cup over = {} THEN NoRestart
                 ELSE [on |-> TRUE, todo |-> Boxed, gone |-> {}])
      /\ missed' = (IF Overtakes(row') THEN Boxed ELSE missed)
      /\ UNCHANGED <<clock, coreUp, users, starting, conn, pending, taken, sent, form, tx,
                     resetting, saves>>
  BY DEF DepleteClients, Unlocked, runtime, traffic
<1>2. ASSUME NEW c \in Clients
      PROVE  /\ fresh[c] = ResetClient(row[c]) /\ fresh[c] \in Row
             /\ fresh[c].used + fresh[c].total = row[c].used + row[c].total
             /\ row[c].enable => fresh[c].enable
  <2>1. row[c] \in Row /\ Billed(row[c], c)
    BY DEF Types, Bills
  <2> QED
    BY <2>1, BillBounds, ResetIs
<1>3. ASSUME NEW c \in Clients
      PROVE  /\ row'[c] \in Row /\ row'[c].used + row'[c].total = row[c].used + row[c].total
             /\ row'[c].enable <=> (fresh[c].enable /\ c \notin over)
  <2>1. row'[c] = [fresh[c] EXCEPT !.enable = fresh[c].enable /\ c \notin over]
    BY <1>1
  <2>2. fresh[c].enable \in BOOLEAN /\ (fresh[c].enable /\ c \notin over) \in BOOLEAN
    BY <1>2 DEF Row
  <2> HIDE DEF fresh, over
  <2>3. /\ row'[c] \in Row /\ row'[c].used = fresh[c].used /\ row'[c].total = fresh[c].total
        /\ row'[c].enable = (fresh[c].enable /\ c \notin over)
    BY <2>1, <2>2, <1>2 DEF Row
  <2> QED
    BY <2>3, <1>2
<1> HIDE DEF fresh, over, again
<1>4. row' \in [Clients -> Row]
  <2>1. row' = [c \in Clients |-> row'[c]]
    BY <1>1
  <2> QED
    BY <2>1, <1>3
<1>5. Types'
  <2>1. cut' = NoRestart \/ cut' = [on |-> TRUE, todo |-> Boxed, gone |-> {}]
    BY <1>1
  <2>2. \/ cut' = NoRestart
        \/ /\ cut' \in [on : {TRUE}, todo : SUBSET Boxed, gone : SUBSET Boxed]
           /\ cut'.gone \subseteq cut'.todo
    <3>1. CASE cut' = [on |-> TRUE, todo |-> Boxed, gone |-> {}]
      <4>1. Boxed \in SUBSET Boxed /\ {} \in SUBSET Boxed /\ {} \subseteq Boxed
        OBVIOUS
      <4> QED
        BY ONLY <3>1, <4>1, OnCutIs
    <3> QED
      BY <2>1, <3>1
  <2>3. missed' \subseteq Boxed
    BY <1>1 DEF Types
  <2> QED
    BY <1>1, <1>4, <2>2, <2>3 DEF Types
<1>6. Served'
  <2>1. CASE again \cup over = {}
    <3>1. Enabled(row') = Enabled(row)
      <4>1. \A c \in Clients : row'[c].enable <=> row[c].enable
        BY <2>1, <1>2, <1>3 DEF again
      <4> QED
        BY <4>1, EnabledSame
    <3>2. cut.todo = {} /\ cut'.todo = {} /\ missed' = missed
      BY <1>1, <2>1, <3>1, OnCut DEF NoRestart, Overtakes
    <3> QED
      BY <1>1, <3>1, <3>2 DEF Served
  <2>2. CASE again \cup over # {}
    <3>1. cut'.todo = Boxed
      BY <1>1, <2>2
    <3> QED
      BY <3>1 DEF Served
  <2> QED
    BY <2>1, <2>2
<1> QED
  BY <1>1, <1>3, <1>5, <1>6, RowsKeep

LEMMA ResetAllKeeps == ASSUME QuotaInv, ResetAllClientsTraffic PROVE QuotaInv'
<1> USE DEF QuotaInv
<1>1. /\ row' = [c \in Clients |-> IF row[c].used > 0 \/ ~row[c].enable
                                   THEN [row[c] EXCEPT !.total = row[c].total + row[c].used,
                                                       !.used = 0, !.enable = TRUE]
                                   ELSE row[c]]
      /\ resetting' = TRUE /\ missed' = (IF Overtakes(row') THEN Boxed ELSE missed)
      /\ UNCHANGED <<clock, coreUp, users, starting, conn, pending, taken, sent, form, tx, cut,
                     saves>>
  BY DEF ResetAllClientsTraffic, runtime, traffic
<1>2. ASSUME NEW c \in Clients
      PROVE  /\ row'[c] \in Row /\ row'[c].used + row'[c].total = row[c].used + row[c].total
  <2>1. row[c] \in Row /\ Billed(row[c], c)
    BY DEF Types, Bills
  <2>2. /\ row[c].used \in Nat /\ row[c].total \in Nat
        /\ row[c].total + row[c].used \in 0 .. MaxSent /\ 0 \in 0 .. MaxSent
    BY <2>1, BillBounds
  <2>3. CASE row'[c] = row[c]
    BY <2>1, <2>3
  <2>4. CASE row'[c] = [row[c] EXCEPT !.total = row[c].total + row[c].used, !.used = 0,
                                      !.enable = TRUE]
    <3>1. /\ row'[c] \in Row /\ row'[c].total = row[c].total + row[c].used /\ row'[c].used = 0
      BY <2>1, <2>2, <2>4 DEF Row
    <3> QED
      BY <2>2, <3>1
  <2> QED
    BY <1>1, <2>3, <2>4
<1>3. Types'
  <2>1. row' \in [Clients -> Row]
    BY <1>1, <1>2
  <2> QED
    BY <1>1, <2>1 DEF Types
<1>4. Served'
  BY <1>1 DEF Served
<1> QED
  BY <1>1, <1>2, <1>3, <1>4, RowsKeep

LEMMA ResetStopsKeeps == ASSUME QuotaInv, ResetStops PROVE QuotaInv'
<1> USE DEF QuotaInv
<1>1. /\ resetting' = FALSE /\ missed' = Boxed
      /\ UNCHANGED <<row, clock, coreUp, users, starting, conn, pending, taken, sent, form, tx,
                     cut, saves>>
  BY DEF ResetStops, runtime, traffic
<1>2. Types'
  BY <1>1 DEF Types
<1>3. Served'
  BY <1>1 DEF Served
<1> QED
  BY <1>1, <1>2, <1>3 DEF Bills, Billed, UpOrStarting, DownIsEmpty, Admitted

\* The core goes, to be started again from the committed rows.
LEMMA StoppedKeeps ==
  ASSUME QuotaInv, StopsCore, starting' = row, missed' = {}, tx' = tx \/ tx' = NoSave,
         cut' = cut, resetting' \in BOOLEAN,
         UNCHANGED <<row, clock, taken, sent, form, saves>>
  PROVE  QuotaInv'
<1> USE DEF QuotaInv
<1>1. /\ coreUp' = FALSE /\ users' = [i \in Boxed |-> {}]
      /\ conn' = [c \in Clients |-> [i \in Boxed |-> "none"]]
      /\ pending' = [c \in Clients |-> 0]
  BY DEF StopsCore
<1>2. Types'
  <2>1. /\ conn' \in Conns /\ users' \in [Boxed -> SUBSET Clients]
        /\ pending' \in [Clients -> 0 .. MaxSent]
    BY <1>1 DEF Conns
  <2>2. coreUp' \in BOOLEAN /\ starting' \in [Clients -> Row] /\ missed' \subseteq Boxed
    BY <1>1 DEF Types
  <2> QED
    BY <2>1, <2>2 DEF Types
<1>3. ASSUME NEW c \in Clients, NEW r \in Row, Billed(r, c) PROVE Billed(r, c)'
  <2>1. /\ r.used \in Nat /\ r.total \in Nat /\ taken[c] \in Nat /\ pending[c] \in Nat
        /\ sent[c] \in Nat /\ pending'[c] = 0
    BY <1>1 DEF Row, Types
  <2> QED
    BY <1>3, <2>1 DEF Billed
<1>4. Bills'
  <2>1. ASSUME NEW c \in Clients PROVE Billed(row[c], c)'
    <3>1. row[c] \in Row /\ Billed(row[c], c)
      BY DEF Types, Bills
    <3> QED
      BY <3>1, <1>3 DEF Billed
  <2>2. ASSUME NEW c \in form.of PROVE Billed(form.row, c)'
    <3>1. c \in Clients /\ form.row \in Row
      BY FormIs DEF NoForm
    <3> QED
      BY <1>3, <3>1 DEF Bills, Billed
  <2>3. ASSUME tx'.open, NEW c \in Clients PROVE Billed(tx.view[c], c)'
    <3>1. tx' = tx /\ tx.open
      BY <2>3 DEF NoSave
    <3>2. tx.view[c] \in Row
      BY <3>1, OpenTx
    <3>3. Billed(tx.view[c], c)
      BY <3>1 DEF Bills
    <3> QED
      BY <1>3, <3>1, <3>2, <3>3 DEF Billed
  <2> QED
    BY <2>1, <2>2, <2>3 DEF Bills, Billed
<1>5. UpOrStarting'
  <2>1. row # <<>>
    BY RowsAreNotEmpty DEF Types
  <2> QED
    BY <1>1, <2>1 DEF UpOrStarting
<1>6. DownIsEmpty' /\ Served' /\ Admitted'
  BY <1>1 DEF DownIsEmpty, Served, Admitted
<1> QED
  BY <1>2, <1>4, <1>5, <1>6

LEMMA RestartKeeps == ASSUME QuotaInv, RestartCore PROVE QuotaInv'
BY StoppedKeeps DEF RestartCore

LEMMA StartEndsKeeps == ASSUME QuotaInv, StartEnds PROVE QuotaInv'
<1> USE DEF QuotaInv
<1>1. /\ starting # <<>> /\ coreUp' = TRUE /\ users' = [i \in Boxed |-> Enabled(starting)]
      /\ starting' = <<>>
      /\ missed' = (IF tx.open /\ Enabled(tx.view) # Enabled(row) THEN Boxed ELSE missed)
      /\ UNCHANGED <<row, clock, conn, pending, taken, sent, form, tx, cut, resetting, saves>>
  BY DEF StartEnds, AllUsers, Hidden, traffic, workers
<1>2. Types'
  <2>1. users' \in [Boxed -> SUBSET Clients]
    BY <1>1, EnabledAre
  <2>2. missed' \subseteq Boxed /\ coreUp' \in BOOLEAN
    BY <1>1 DEF Types
  <2> QED
    BY <1>1, <2>1, <2>2 DEF Types
<1>3. Bills'
  BY <1>1 DEF Bills, Billed
<1>4. Served'
  <2>1. CASE missed' = Boxed
    BY <2>1 DEF Served
  <2>2. CASE missed' # Boxed
    <3>1. missed # Boxed /\ (tx.open => Enabled(tx.view) = Enabled(row))
      BY <1>1, <2>2
    <3>2. \A i \in Boxed : users'[i] = Enabled(row)
      BY <1>1, <3>1 DEF UpOrStarting
    <3> QED
      BY <1>1, <3>1, <3>2 DEF Served
  <2> QED
    BY <2>1, <2>2
<1>5. Admitted'
  BY <1>1 DEF Admitted, UpOrStarting, DownIsEmpty
<1> QED
  BY <1>1, <1>2, <1>3, <1>4, <1>5 DEF UpOrStarting, DownIsEmpty

-----------------------------------------------------------------------------
\* RestartInbounds, by the job and by a save.

LEMMA Swept ==
  ASSUME QuotaInv, NEW i \in Boxed, CloseConnByInbound(i), users' = [users EXCEPT ![i] = {}]
  PROVE  /\ conn' \in Conns /\ users' \in [Boxed -> SUBSET Clients]
         /\ \A j \in Boxed : users'[j] = IF j = i THEN {} ELSE users[j]
         /\ Admitted'
<1> USE DEF QuotaInv
<1>1. conn' = [c \in Clients |->
                 [conn[c] EXCEPT ![i] = IF conn[c][i] \in {"new", "old"} THEN "old" ELSE "none"]]
  BY DEF CloseConnByInbound
<1>2. \A c \in Clients, j \in Boxed :
        conn'[c][j] = IF j = i THEN (IF conn[c][i] \in {"new", "old"} THEN "old" ELSE "none")
                      ELSE conn[c][j]
  BY <1>1 DEF Types, Conns
<1>3. conn' \in Conns
  <2>1. ASSUME NEW c \in Clients
        PROVE  conn'[c] \in [Boxed -> {"none", "new", "old", "tracked", "late"}]
    BY <1>1 DEF Types, Conns
  <2> QED
    BY <1>1, <2>1 DEF Conns
<1>4. /\ users' \in [Boxed -> SUBSET Clients]
      /\ \A j \in Boxed : users'[j] = IF j = i THEN {} ELSE users[j]
  BY DEF Types
<1>5. Admitted'
  BY <1>2, <1>4 DEF Admitted
<1> QED
  BY <1>3, <1>4, <1>5

LEMMA Added ==
  ASSUME QuotaInv, NEW i \in Boxed, NEW us \in SUBSET Clients, AddInbound(i, us)
  PROVE  /\ conn' \in Conns /\ users' \in [Boxed -> SUBSET Clients]
         /\ \A j \in Boxed : users'[j] = IF j = i THEN us ELSE users[j]
         /\ Admitted'
<1> USE DEF QuotaInv
<1>1. /\ users' = [users EXCEPT ![i] = us]
      /\ conn' = IF users[i] = {} THEN conn
                 ELSE [c \in Clients |->
                         [conn[c] EXCEPT ![i] = CASE conn[c][i] = "new" -> "old"
                                                  [] conn[c][i] = "tracked" -> "late"
                                                  [] OTHER -> conn[c][i]]]
  BY DEF AddInbound
<1>2. /\ users' \in [Boxed -> SUBSET Clients]
      /\ \A j \in Boxed : users'[j] = IF j = i THEN us ELSE users[j]
  BY <1>1 DEF Types
<1>3. CASE users[i] = {}
  <2>1. conn' = conn
    BY <1>1, <1>3
  <2>2. Admitted'
    BY <1>2, <1>3, <2>1 DEF Admitted
  <2> QED
    BY <1>2, <2>1, <2>2 DEF Types
<1>4. CASE users[i] # {}
  <2>1. conn' = [c \in Clients |->
                   [conn[c] EXCEPT ![i] = CASE conn[c][i] = "new" -> "old"
                                            [] conn[c][i] = "tracked" -> "late"
                                            [] OTHER -> conn[c][i]]]
    BY <1>1, <1>4
  <2>2. ASSUME NEW c \in Clients
        PROVE  /\ conn'[c] \in [Boxed -> {"none", "new", "old", "tracked", "late"}]
               /\ conn'[c][i] \in {"none", "old", "late"}
               /\ \A j \in Boxed \ {i} : conn'[c][j] = conn[c][j]
    <3> DEFINE v == CASE conn[c][i] = "new" -> "old" [] conn[c][i] = "tracked" -> "late"
                      [] OTHER -> conn[c][i]
    <3>1. conn[c] \in [Boxed -> {"none", "new", "old", "tracked", "late"}]
      BY DEF Types, Conns
    <3>2. v \in {"none", "old", "late"}
      BY <3>1
    <3>3. conn'[c] = [conn[c] EXCEPT ![i] = v]
      BY <2>1
    <3> HIDE DEF v
    <3> QED
      BY <3>1, <3>2, <3>3
  <2>3. conn' \in Conns
    BY <2>1, <2>2 DEF Conns
  <2>4. Admitted'
    BY <1>2, <2>2 DEF Admitted
  <2> QED
    BY <1>2, <2>3, <2>4
<1> QED
  BY <1>3, <1>4

\* Steps that leave rows, counters and saves alone, and the core up or down as it was.
LEMMA CutSkipsKeeps == ASSUME QuotaInv, CutSkips PROVE QuotaInv'
<1> USE DEF QuotaInv
<1>1. /\ ~coreUp /\ cut' = NoRestart
      /\ UNCHANGED <<row, clock, coreUp, users, starting, conn, pending, taken, sent, form, tx,
                     resetting, saves, missed>>
  BY DEF CutSkips, runtime, traffic
<1>2. Types'
  BY <1>1 DEF Types
<1> QED
  BY <1>1, <1>2 DEF Bills, Billed, UpOrStarting, DownIsEmpty, Served, Admitted

LEMMA CutFailsKeeps == ASSUME QuotaInv, CutFails PROVE QuotaInv'
<1> USE DEF QuotaInv
<1>1. /\ cut' = NoRestart /\ missed' = (IF coreUp THEN missed \cup cut.todo ELSE missed)
      /\ UNCHANGED <<row, clock, coreUp, users, starting, conn, pending, taken, sent, form, tx,
                     resetting, saves>>
  BY DEF CutFails, runtime, traffic
<1>2. Types'
  <2>1. missed' \subseteq Boxed
    BY <1>1, OnCut DEF Types
  <2> QED
    BY <1>1, <2>1 DEF Types
<1>3. Served'
  BY <1>1 DEF Served
<1> QED
  BY <1>1, <1>2, <1>3 DEF Bills, Billed, UpOrStarting, DownIsEmpty, Admitted

LEMMA CutRemoveKeeps == ASSUME QuotaInv, NEW i \in Boxed, CutRemove(i) PROVE QuotaInv'
<1> USE DEF QuotaInv
<1>1. /\ cut.on /\ coreUp /\ i \in cut.todo /\ cut' = [cut EXCEPT !.gone = {i}]
      /\ users' = [users EXCEPT ![i] = {}] /\ CloseConnByInbound(i)
      /\ UNCHANGED <<row, clock, coreUp, starting, pending, taken, sent, form, tx,
                     resetting, saves, missed>>
  BY DEF CutRemove, traffic
<1>2. /\ conn' \in Conns /\ users' \in [Boxed -> SUBSET Clients] /\ Admitted'
      /\ \A j \in Boxed : users'[j] = IF j = i THEN {} ELSE users[j]
  BY <1>1, Swept
<1>3. cut.todo \subseteq Boxed /\ cut' = [on |-> TRUE, todo |-> cut.todo, gone |-> {i}]
  BY <1>1, OnCut
<1>4. /\ cut'.todo = cut.todo /\ cut'.gone = {i}
      /\ cut' \in [on : {TRUE}, todo : SUBSET Boxed, gone : SUBSET Boxed]
  <2>1. cut.todo \in SUBSET Boxed /\ {i} \in SUBSET Boxed /\ {i} \subseteq cut.todo
    BY <1>1, <1>3
  <2> QED
    BY ONLY <1>3, <2>1, OnCutIs
<1>5. Types'
  BY <1>1, <1>2, <1>4 DEF Types
<1>6. Served'
  BY <1>1, <1>2, <1>4 DEF Served
<1> QED
  BY <1>1, <1>2, <1>5, <1>6 DEF Bills, Billed, UpOrStarting, DownIsEmpty

LEMMA CutAddKeeps == ASSUME QuotaInv, NEW i \in Boxed, CutAdd(i) PROVE QuotaInv'
<1> USE DEF QuotaInv
<1>1. /\ cut.on /\ coreUp /\ i \in cut.gone /\ AddInbound(i, Enabled(row))
      /\ cut' = (IF cut.todo = {i} THEN NoRestart
                 ELSE [on |-> TRUE, todo |-> cut.todo \ {i}, gone |-> {}])
      /\ missed' = (IF tx.open /\ Enabled(tx.view) # Enabled(row)
                    THEN missed \cup {i} ELSE missed \ {i})
      /\ UNCHANGED <<row, clock, coreUp, starting, pending, taken, sent, form, tx,
                     resetting, saves>>
  BY DEF CutAdd, Hidden, traffic
<1>2. /\ conn' \in Conns /\ users' \in [Boxed -> SUBSET Clients] /\ Admitted'
      /\ \A j \in Boxed : users'[j] = IF j = i THEN Enabled(row) ELSE users[j]
  BY <1>1, Added, EnabledAre
<1>3. /\ cut'.todo = cut.todo \ {i}
      /\ \/ cut' = NoRestart
         \/ /\ cut' \in [on : {TRUE}, todo : SUBSET Boxed, gone : SUBSET Boxed]
            /\ cut'.gone \subseteq cut'.todo
  <2>1. CASE cut.todo = {i}
    BY <1>1, <2>1 DEF NoRestart
  <2>2. CASE cut.todo # {i}
    <3>1. cut' = [on |-> TRUE, todo |-> cut.todo \ {i}, gone |-> {}]
      BY <1>1, <2>2
    <3>2. /\ cut.todo \ {i} \in SUBSET Boxed /\ {} \in SUBSET Boxed /\ {} \subseteq cut.todo \ {i}
      BY OnCut
    <3> QED
      BY ONLY <3>1, <3>2, OnCutIs
  <2> QED
    BY <2>1, <2>2
<1>4. missed' \subseteq Boxed /\ \A j \in Boxed \ {i} : j \in missed' <=> j \in missed
  BY <1>1 DEF Types
<1>5. Types'
  BY <1>1, <1>2, <1>3, <1>4 DEF Types
<1>6. Served'
  <2>1. ASSUME ~resetting, NEW j \in Boxed \ (missed' \cup cut'.todo \cup tx.todo)
        PROVE  users'[j] = Enabled(IF tx.open THEN tx.view ELSE row)
    BY <1>1, <1>2, <1>3, <1>4, <2>1 DEF Served
  <2> QED
    BY <1>1, <2>1 DEF Served
<1> QED
  BY <1>1, <1>2, <1>5, <1>6 DEF Bills, Billed, UpOrStarting, DownIsEmpty

-----------------------------------------------------------------------------
\* A save of the panel.

LEMMA LoadKeeps == ASSUME QuotaInv, NEW c \in Clients, LoadForm(c) PROVE QuotaInv'
<1> USE DEF QuotaInv
<1>1. /\ saves < MaxSaves /\ form' = [of |-> {c}, row |-> row[c]]
      /\ UNCHANGED <<row, clock, coreUp, users, starting, conn, pending, taken, sent, tx, cut,
                     resetting, saves, missed>>
  BY DEF LoadForm, runtime, traffic
<1>2. row[c] \in Row /\ Billed(row[c], c)
  BY DEF Types, Bills
<1>3. Types'
  BY <1>1, <1>2 DEF Types
<1>4. Bills'
  <2>1. form'.of = {c} /\ form'.row = row[c]
    BY <1>1
  <2> QED
    BY <1>1, <1>2, <2>1 DEF Bills, Billed
<1> QED
  BY <1>1, <1>3, <1>4 DEF UpOrStarting, DownIsEmpty, Served, Admitted

LEMMA SaveClientKeeps == ASSUME QuotaInv, SaveClient PROVE QuotaInv'
<1> USE DEF QuotaInv
<1>1. PICK c \in form.of : \E r \in {form.row, [form.row EXCEPT !.enable = ~form.row.enable],
                                     [form.row EXCEPT !.used = 0]} :
        tx' = [open |-> TRUE, view |-> [row EXCEPT ![c] = r], gone |-> {},
               todo |-> IF r.enable # row[c].enable /\ coreUp THEN Boxed ELSE {}]
  BY DEF SaveClient
<1>2. PICK r \in {form.row, [form.row EXCEPT !.enable = ~form.row.enable],
                  [form.row EXCEPT !.used = 0]} :
        tx' = [open |-> TRUE, view |-> [row EXCEPT ![c] = r], gone |-> {},
               todo |-> IF r.enable # row[c].enable /\ coreUp THEN Boxed ELSE {}]
  BY <1>1
<1>3. /\ form # NoForm /\ ~tx.open /\ form' = NoForm /\ saves' = saves + 1
      /\ UNCHANGED <<row, clock, coreUp, users, starting, conn, pending, taken, sent, cut,
                     resetting, missed>>
  BY DEF SaveClient, Unlocked, runtime, traffic
<1>4. c \in Clients /\ form.row \in Row /\ Billed(form.row, c)
  BY <1>3, FormIs DEF Bills
<1>5. r \in Row /\ Billed(r, c)
  <2>1. CASE r = form.row
    BY <1>4, <2>1
  <2>2. CASE r = [form.row EXCEPT !.enable = ~form.row.enable]
    <3>1. r \in Row /\ r.used = form.row.used /\ r.total = form.row.total
      BY <1>4, <2>2 DEF Row
    <3> QED
      BY <1>4, <3>1 DEF Billed
  <2>3. CASE r = [form.row EXCEPT !.used = 0]
    <3>1. /\ form.row.used \in Nat /\ form.row.total \in Nat /\ taken[c] \in Nat
          /\ pending[c] \in Nat /\ sent[c] \in Nat /\ 0 \in 0 .. MaxSent
      BY <1>4 DEF Row, Types
    <3>2. r \in Row /\ r.used = 0 /\ r.total = form.row.total
      BY <1>4, <2>3, <3>1 DEF Row
    <3> QED
      BY <1>4, <3>1, <3>2 DEF Billed
  <2> QED
    BY <1>2, <2>1, <2>2, <2>3
<1> DEFINE view == [row EXCEPT ![c] = r]
           todo == IF r.enable # row[c].enable /\ coreUp THEN Boxed ELSE {}
<1>6. view \in [Clients -> Row] /\ \A d \in Clients : Billed(view[d], d)
  BY <1>4, <1>5 DEF Types, Bills
<1>7. todo \in SUBSET Boxed /\ {} \in SUBSET Boxed /\ {} \subseteq todo
  OBVIOUS
<1>8. tx' = [open |-> TRUE, view |-> view, todo |-> todo, gone |-> {}]
  BY <1>2
<1> HIDE DEF view, todo
<1>9. /\ tx'.open /\ tx'.view = view /\ tx'.todo = todo /\ tx'.gone = {}
      /\ tx' \in [open : {TRUE}, view : [Clients -> Row], todo : SUBSET Boxed, gone : SUBSET Boxed]
  BY ONLY <1>6, <1>7, <1>8, OpenTxIs
<1>10. Types'
  <2>1. saves' \in 0 .. MaxSaves
    BY <1>3 DEF Types
  <2> QED
    BY <1>3, <1>9, <2>1 DEF Types
<1>11. Bills'
  <2>1. form'.of = {}
    BY <1>3 DEF NoForm
  <2> QED
    BY <1>3, <1>6, <1>9, <2>1 DEF Bills, Billed
<1>12. Served'
  <2>1. tx.todo = {}
    BY <1>3, ClosedTx DEF NoSave
  <2>2. CASE r.enable # row[c].enable /\ coreUp
    <3>1. tx'.todo = Boxed
      BY <1>9, <2>2 DEF todo
    <3> QED
      BY <3>1 DEF Served
  <2>3. CASE r.enable = row[c].enable
    <3>1. \A d \in Clients : view[d].enable <=> row[d].enable
      BY <1>4, <2>3 DEF view, Types
    <3>2. Enabled(view) = Enabled(row)
      BY <3>1, EnabledSame
    <3> QED
      BY <1>3, <1>9, <2>1, <3>2 DEF Served
  <2>4. CASE ~coreUp
    BY <1>3, <2>4 DEF Served
  <2> QED
    BY <2>2, <2>3, <2>4
<1> QED
  BY <1>3, <1>10, <1>11, <1>12 DEF UpOrStarting, DownIsEmpty, Admitted

LEMMA SaveRemoveKeeps == ASSUME QuotaInv, NEW i \in Boxed, SaveRemove(i) PROVE QuotaInv'
<1> USE DEF QuotaInv
<1>1. /\ tx.open /\ coreUp /\ i \in tx.todo /\ tx' = [tx EXCEPT !.gone = {i}]
      /\ users' = [users EXCEPT ![i] = {}] /\ CloseConnByInbound(i)
      /\ UNCHANGED <<row, clock, coreUp, starting, pending, taken, sent, form, cut,
                     resetting, saves, missed>>
  BY DEF SaveRemove, traffic
<1>2. /\ conn' \in Conns /\ users' \in [Boxed -> SUBSET Clients] /\ Admitted'
      /\ \A j \in Boxed : users'[j] = IF j = i THEN {} ELSE users[j]
  BY <1>1, Swept
<1>3. /\ tx.view \in [Clients -> Row] /\ tx.todo \subseteq Boxed
      /\ tx' = [open |-> TRUE, view |-> tx.view, todo |-> tx.todo, gone |-> {i}]
  BY <1>1, OpenTx
<1>4. /\ tx'.open /\ tx'.view = tx.view /\ tx'.todo = tx.todo /\ tx'.gone = {i}
      /\ tx' \in [open : {TRUE}, view : [Clients -> Row], todo : SUBSET Boxed, gone : SUBSET Boxed]
  <2>1. tx.todo \in SUBSET Boxed /\ {i} \in SUBSET Boxed /\ {i} \subseteq tx.todo
    BY <1>1, <1>3
  <2> QED
    BY ONLY <1>3, <2>1, OpenTxIs
<1>5. Types'
  <2>1. /\ tx' \in [open : {TRUE}, view : [Clients -> Row], todo : SUBSET Boxed, gone : SUBSET Boxed]
        /\ tx'.gone \subseteq tx'.todo
    BY <1>1, <1>4
  <2> QED
    BY <1>1, <1>2, <2>1 DEF Types
<1>6. Bills'
  BY <1>1, <1>4 DEF Bills, Billed
<1>7. Served'
  BY <1>1, <1>2, <1>4 DEF Served
<1> QED
  BY <1>1, <1>2, <1>5, <1>6, <1>7 DEF UpOrStarting, DownIsEmpty

LEMMA SaveAddKeeps == ASSUME QuotaInv, NEW i \in Boxed, SaveAdd(i) PROVE QuotaInv'
<1> USE DEF QuotaInv
<1>1. /\ tx.open /\ coreUp /\ i \in tx.gone /\ AddInbound(i, Enabled(tx.view))
      /\ tx' = [tx EXCEPT !.gone = {}, !.todo = tx.todo \ {i}]
      /\ missed' = missed \ {i}
      /\ UNCHANGED <<row, clock, coreUp, starting, pending, taken, sent, form, cut,
                     resetting, saves>>
  BY DEF SaveAdd, traffic
<1>2. /\ conn' \in Conns /\ users' \in [Boxed -> SUBSET Clients] /\ Admitted'
      /\ \A j \in Boxed : users'[j] = IF j = i THEN Enabled(tx.view) ELSE users[j]
  BY <1>1, Added, EnabledAre
<1>3. /\ tx.view \in [Clients -> Row] /\ tx.todo \subseteq Boxed
      /\ tx' = [open |-> TRUE, view |-> tx.view, todo |-> tx.todo \ {i}, gone |-> {}]
  BY <1>1, OpenTx
<1>4. /\ tx'.open /\ tx'.view = tx.view /\ tx'.todo = tx.todo \ {i} /\ tx'.gone = {}
      /\ tx' \in [open : {TRUE}, view : [Clients -> Row], todo : SUBSET Boxed, gone : SUBSET Boxed]
  <2>1. tx.todo \ {i} \in SUBSET Boxed /\ {} \in SUBSET Boxed /\ {} \subseteq tx.todo \ {i}
    BY <1>3
  <2> QED
    BY ONLY <1>3, <2>1, OpenTxIs
<1>5. missed' \subseteq Boxed /\ \A j \in Boxed \ {i} : j \in missed' <=> j \in missed
  BY <1>1 DEF Types
<1>6. Types'
  BY <1>1, <1>2, <1>4, <1>5 DEF Types
<1>7. Bills'
  BY <1>1, <1>4 DEF Bills, Billed
<1>8. Served'
  <2>1. ASSUME ~resetting, NEW j \in Boxed \ (missed' \cup cut.todo \cup tx'.todo)
        PROVE  users'[j] = Enabled(tx.view)
    BY <1>1, <1>2, <1>4, <1>5, <2>1 DEF Served
  <2> QED
    BY <1>1, <1>4, <2>1 DEF Served
<1> QED
  BY <1>1, <1>2, <1>6, <1>7, <1>8 DEF UpOrStarting, DownIsEmpty

\* The commit makes the view, which every inbound that is not missed is served from, the
\* rows.
LEMMA SaveCommitKeeps == ASSUME QuotaInv, SaveCommit PROVE QuotaInv'
<1> USE DEF QuotaInv
<1>1. /\ tx.open /\ tx.todo = {} /\ row' = tx.view /\ tx' = NoSave
      /\ missed' = (IF Overtakes(tx.view) THEN Boxed ELSE missed)
      /\ UNCHANGED <<clock, coreUp, users, starting, conn, pending, taken, sent, form, cut,
                     resetting, saves>>
  BY DEF SaveCommit, traffic
<1>2. ~tx'.open /\ tx'.todo = {}
  BY <1>1 DEF NoSave
<1>3. Types'
  <2>1. row' \in [Clients -> Row] /\ missed' \subseteq Boxed
    BY <1>1, OpenTx DEF Types
  <2> QED
    BY <1>1, <2>1 DEF Types
<1>4. Bills'
  BY <1>1, <1>2 DEF Bills, Billed
<1>5. Served'
  <2>1. coreUp => missed' = missed
    BY <1>1 DEF Overtakes, UpOrStarting
  <2> QED
    BY <1>1, <1>2, <2>1 DEF Served
<1>6. UpOrStarting'
  BY <1>1 DEF UpOrStarting, Overtakes
<1> QED
  BY <1>1, <1>3, <1>4, <1>5, <1>6 DEF DownIsEmpty, Admitted

LEMMA EditFailsKeeps == ASSUME QuotaInv, EditFails PROVE QuotaInv'
<1> USE DEF QuotaInv
<1>1. tx.open /\ tx' = NoSave /\ UNCHANGED <<row, clock, taken, sent, form, cut, resetting, saves>>
  BY DEF EditFails
<1>2. CASE coreUp /\ starting = <<>>
  <2>1. StopsCore /\ starting' = row /\ missed' = {}
    BY <1>2 DEF EditFails
  <2>2. resetting' \in BOOLEAN
    BY <1>1 DEF Types
  <2> QED
    BY <1>1, <2>1, <2>2, StoppedKeeps
<1>3. CASE ~(coreUp /\ starting = <<>>)
  <2>1. UNCHANGED <<coreUp, users, conn, pending, starting, missed>>
    BY <1>3 DEF EditFails
  <2>2. ~coreUp /\ ~tx'.open
    BY <1>1, <1>3 DEF UpOrStarting, NoSave
  <2>3. Types'
    BY <1>1, <2>1 DEF Types
  <2> QED
    BY <1>1, <2>1, <2>2, <2>3 DEF Bills, Billed, UpOrStarting, DownIsEmpty, Served, Admitted
<1> QED
  BY <1>2, <1>3

-----------------------------------------------------------------------------

LEMMA QuotaBegins == QuotaInit => QuotaInv
<1> SUFFICES ASSUME QuotaInit PROVE QuotaInv
  OBVIOUS
<1>1. PICK plan \in Plans :
        row = [c \in Clients |-> [enable |-> TRUE, used |-> 0, total |-> 0, expiry |-> 0,
                                 next |-> 0, delay |-> plan[c].delay, auto |-> plan[c].auto]]
  BY DEF QuotaInit
<1>2. /\ clock = 0 /\ coreUp = TRUE /\ users = [i \in Boxed |-> Enabled(row)] /\ starting = <<>>
      /\ conn = [c \in Clients |-> [i \in Boxed |-> "none"]]
      /\ pending = [c \in Clients |-> 0] /\ taken = pending /\ sent = pending
      /\ form = NoForm /\ tx = NoSave /\ cut = NoRestart /\ resetting = FALSE
      /\ saves = 0 /\ missed = {}
  BY DEF QuotaInit, AllUsers
<1>3. 0 \in 0 .. MaxSent /\ 0 \in Times /\ 0 \in 0 .. MaxClock /\ 0 \in 0 .. MaxSaves
  BY DEF Times
<1>4. plan \in [Clients -> [delay : BOOLEAN, auto : BOOLEAN]]
  OBVIOUS
<1>5. ASSUME NEW c \in Clients PROVE row[c] \in Row /\ row[c].used = 0 /\ row[c].total = 0
  <2>1. row[c] = [enable |-> TRUE, used |-> 0, total |-> 0, expiry |-> 0, next |-> 0,
                  delay |-> plan[c].delay, auto |-> plan[c].auto]
    BY <1>1
  <2>2. plan[c].delay \in BOOLEAN /\ plan[c].auto \in BOOLEAN
    BY <1>4
  <2> QED
    BY <1>3, <2>1, <2>2 DEF Row
<1>6. Types
  <2>1. row \in [Clients -> Row]
    BY <1>1, <1>5
  <2>2. /\ conn \in Conns /\ users \in [Boxed -> SUBSET Clients]
        /\ pending \in [Clients -> 0 .. MaxSent]
    BY <1>2, <1>3, EnabledAre DEF Conns
  <2> QED
    BY <1>2, <1>3, <2>1, <2>2 DEF Types
<1>7. Bills
  <2>1. ASSUME NEW c \in Clients PROVE Billed(row[c], c)
    <3>1. pending[c] = 0 /\ taken[c] = 0 /\ sent[c] = 0
      BY <1>2
    <3> QED
      BY <1>5, <3>1 DEF Billed
  <2> QED
    BY <1>2, <2>1 DEF Bills, NoForm, NoSave
<1>8. Served /\ UpOrStarting
  BY <1>2 DEF Served, UpOrStarting, NoSave
<1> QED
  BY <1>2, <1>6, <1>7, <1>8 DEF QuotaInv, DownIsEmpty, Admitted

LEMMA QuotaSteps == QuotaInv /\ [QuotaNext]_qvars => QuotaInv'
<1> SUFFICES ASSUME QuotaInv, [QuotaNext]_qvars PROVE QuotaInv'
  OBVIOUS
<1>1. CASE Jobs
  BY <1>1, TickKeeps, GetStatsKeeps, SaveStatsKeeps, SaveStatsFailsKeeps, DepleteKeeps,
     ResetAllKeeps, ResetStopsKeeps, RestartKeeps, StartEndsKeeps, CutSkipsKeeps, CutFailsKeeps,
     CutRemoveKeeps, CutAddKeeps DEF Jobs
<1>2. CASE Panel
  BY <1>2, SaveClientKeeps, SaveCommitKeeps, EditFailsKeeps, LoadKeeps, SaveRemoveKeeps,
     SaveAddKeeps DEF Panel
<1>3. CASE Peers
  BY <1>3, TransferKeeps, AcceptKeeps, RoutedKeeps, UntrackKeeps DEF Peers
<1>4. CASE UNCHANGED qvars
  BY <1>4 DEF qvars, QuotaInv, Types, Bills, Billed, UpOrStarting, DownIsEmpty, Served, Admitted
<1> QED
  BY <1>1, <1>2, <1>3, <1>4 DEF QuotaNext

LEMMA QuotaHolds == QuotaSpec => []QuotaInv
BY QuotaBegins, QuotaSteps, PTL DEF QuotaSpec

(* Type correctness of clients, trackers and jobs.                         *)
THEOREM QuotaTypeCorrect == QuotaSpec => []QuotaTypeOK
<1>1. QuotaInv => QuotaTypeOK
  <2> SUFFICES ASSUME QuotaInv PROVE QuotaTypeOK
    OBVIOUS
  <2>1. form = NoForm \/ \E c \in Clients : form.of = {c} /\ form.row \in Row
    BY FormIs DEF QuotaInv
  <2>2. tx = NoSave \/ (tx.view \in [Clients -> Row] /\ tx.todo \subseteq Boxed
                          /\ tx.gone \subseteq tx.todo)
    BY OpenTx, ClosedTx DEF QuotaInv
  <2>3. cut.todo \subseteq Boxed /\ cut.gone \subseteq cut.todo
    BY OnCut DEF QuotaInv
  <2> QED
    BY <2>1, <2>2, <2>3 DEF QuotaInv, QuotaTypeOK, Types, Conns
<1> QED
  BY <1>1, QuotaHolds, PTL

LEMMA RestServed == QuotaInv => EnabledClientsAreServed
<1> SUFFICES ASSUME QuotaInv, AtRest, coreUp, NEW i \in Boxed \ missed PROVE users[i] = Enabled(row)
  BY DEF EnabledClientsAreServed
<1>1. cut.todo = {} /\ tx.todo = {} /\ ~tx.open /\ ~resetting
  BY OnCut, ClosedTx DEF AtRest, QuotaInv, NoSave
<1> QED
  BY <1>1 DEF QuotaInv, Served

(* The core lets in exactly the enabled clients once jobs and saves are     *)
(* done: DepleteClients, ResetAllClientsTraffic, RestartInbounds and the    *)
(* start of a core may cross a save of a client in any order.               *)
THEOREM EnabledServed == QuotaSpec => []EnabledClientsAreServed
BY RestServed, QuotaHolds, PTL

(* CloseConnByInbound leaves no tracked connection of a client that was     *)
(* disabled, on an inbound that was not missed.                             *)
THEOREM NoneSurvives == QuotaSpec => []NoConnectionSurvives
<1>1. ASSUME QuotaInv, AtRest, coreUp, NEW i \in Boxed \ missed, NEW c \in Clients \ Enabled(row)
      PROVE  conn[c][i] # "tracked"
  <2>1. c \notin users[i]
    BY <1>1, RestServed DEF EnabledClientsAreServed
  <2>2. conn[c][i] \in {"new", "tracked"} => c \in users[i]
    BY <1>1 DEF QuotaInv, Admitted
  <2> QED
    BY <2>1, <2>2
<1>2. QuotaInv => NoConnectionSurvives
  BY <1>1 DEF NoConnectionSurvives
<1> QED
  BY <1>2, QuotaHolds, PTL

(* Counters, statistics, resets and saves of stale forms never bill a       *)
(* client traffic it did not send.                                          *)
THEOREM NeverOver == QuotaSpec => []NeverOverbilled
<1>1. QuotaInv => NeverOverbilled
  BY DEF QuotaInv, Bills, Billed, NeverOverbilled
<1> QED
  BY <1>1, QuotaHolds, PTL
================================================================================
