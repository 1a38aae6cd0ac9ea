------------------------------- MODULE DbImport -------------------------------
(***************************************************************************)
(* Backup and import of the database (database/backup.go, database/db.go,  *)
(* cmd/migration/main.go, main.go).                                        *)
(*                                                                         *)
(* An import closes the database the panel works with, moves its file away *)
(* as a fallback, puts the uploaded one in its place, migrates and opens   *)
(* it, and moves the fallback back if it cannot be opened; each step may   *)
(* fail and the process may end between two of them, while other requests  *)
(* save.  A backup is scanned table by table.  Files are numbered as they  *)
(* are created, so that a handle stays with its file when that is renamed. *)
(*                                                                         *)
(* Bounds: one import and one backup at a time; Files files; MaxRows saves *)
(* to the tables of either kind in a file.                                 *)
(***************************************************************************)
EXTENDS Naturals

CONSTANTS Files, MaxRows

ASSUME DbAssumption == Files \in Nat \ {0} /\ MaxRows \in Nat

VARIABLES
    disk,      \* the file at each path, 0 where there is none
    data,      \* what is in each file
    created,   \* number of files created so far
    handle,    \* the file the open database is connected to, 0 when it is closed
    alive,     \* the panel's process runs
    import,    \* where the import is
    scan,      \* the backup that is made, or was made last
    mine,      \* the file with the rows that the answers to the user tell
    forked,    \* a save was answered by another file than that of these rows
    unmoved,   \* the fallback could not be moved back
    remade,    \* the panel started with other rows: a new database, an upload
    cutOff     \* the process ended while the file at the path was being replaced

dbvars == <<disk, data, created, handle, alive, import, scan, mine, forked, unmoved,
            remade, cutOff>>

Paths == {"db", "temp", "backup"}
Inodes == 1 .. Files

(* Managed nodes have the table agent_nodes; the others, "panel", are      *)
(* those GetDb lists and, but for stats and changes, always copies.        *)
Tables == {"panel", "nodes"}
Listed == Tables \ {"nodes"}
NothingSaved == [t \in Tables |-> 0]

(* rows counts the saves; an upload is good or is rejected when it is      *)
(* opened; half stands for a copy that has not ended.                      *)
FileKinds == {"first", "good", "bad", "half", "default"}
Data(kind, rows) == [kind |-> kind, rows |-> rows]
NoData == Data("half", NothingSaved)
Usable(f) == f # 0 /\ data[f].kind \in {"first", "good", "default"}
NoScan ==
    [at |-> "none", of |-> 0, told |-> NothingSaved, file |-> 0, rows |-> NothingSaved, crossed |-> FALSE]

DbInit ==
    /\ disk = [p \in Paths |-> IF p = "db" THEN 1 ELSE 0]
    /\ data = [f \in Inodes |-> IF f = 1 THEN Data("first", NothingSaved) ELSE NoData]
    /\ created = 1 /\ handle = 1 /\ alive = TRUE
    /\ import = "idle" /\ scan = NoScan
    /\ mine = 1
    /\ forked = FALSE /\ unmoved = FALSE /\ remade = FALSE /\ cutOff = FALSE

marks  == <<mine, forked, unmoved, remade, cutOff>>

(* The database changes while a backup is made.                            *)
Crossing == scan' = [scan EXCEPT !.crossed = @ \/ scan.at = "reading"]

-----------------------------------------------------------------------------
(* Other requests.  A connection of the pool has the file that was at the  *)
(* path when it was opened; new ones open the path.                        *)
Connected == IF handle = 0 THEN {} ELSE {handle, disk["db"]} \ {0}

Save ==
    /\ alive
    /\ \E f \in Connected, t \in Tables :
         /\ data[f].rows[t] < MaxRows
         /\ data' = [data EXCEPT ![f].rows[t] = @ + 1]
         /\ forked' = (forked \/ f # mine)
    /\ UNCHANGED <<disk, created, handle, alive, import, scan, mine, unmoved, remade, cutOff>>

(* GetDb: the tables it lists are scanned one after the other, each with a *)
(* connection of its own.  of and told are the database of the user and    *)
(* the saves that were answered before it was asked.                       *)
GetDb ==
    /\ alive /\ handle # 0 /\ scan.at # "reading"
    /\ scan' = [NoScan EXCEPT
         !.at = "reading", !.of = mine, !.told = data[mine].rows,
         !.crossed = import # "idle" \/ handle # disk["db"] \/ unmoved \/ remade]
    /\ UNCHANGED <<disk, data, created, handle, alive, import, marks>>

GetDbFails == handle = 0 /\ scan' = NoScan
GetDbReads ==
    \E f \in Connected :
       scan' = [scan EXCEPT !.at = "done", !.file = f,
                            !.rows = [t \in Tables |-> IF t \in Listed THEN data[f].rows[t] ELSE 0]]

GetDbEnds ==
    /\ alive /\ scan.at = "reading"
    /\ GetDbFails \/ GetDbReads
    /\ UNCHANGED <<disk, data, created, handle, alive, import, marks>>

-----------------------------------------------------------------------------
(* ImportDB.                                                               *)

At(s) == alive /\ import = s
Proceeds(s) == import' = s

(* The deferred removals.                                                  *)
Without(paths) == [p \in Paths |-> IF p \in paths THEN 0 ELSE disk[p]]
Moved(from, to) == [disk EXCEPT ![to] = disk[from], ![from] = 0]

CreateTemp ==
    /\ At("idle") /\ created < Files
    /\ created' = created + 1
    /\ disk' = [disk EXCEPT !["temp"] = created + 1]
    /\ data' = [data EXCEPT ![created + 1] = NoData]
    /\ Proceeds("created")
    /\ UNCHANGED <<handle, alive, scan, marks>>

CloseOld ==
    /\ At("created")
    /\ handle' = 0 /\ Proceeds("closed")
    /\ Crossing
    /\ UNCHANGED <<disk, data, created, alive, marks>>

Copy ==
    /\ At("closed")
    /\ \E k \in {"good", "bad"} : data' = [data EXCEPT ![disk["temp"]] = Data(k, NothingSaved)]
    /\ Proceeds("copied")
    /\ UNCHANGED <<disk, created, handle, alive, scan, marks>>

(* What is left of an earlier import is removed.                           *)
RemoveFallback ==
    /\ At("copied")
    /\ disk' = Without({"backup"}) /\ Proceeds("cleared")
    /\ UNCHANGED <<data, created, handle, alive, scan, marks>>

MoveAway ==
    /\ At("cleared") /\ disk["db"] # 0
    /\ disk' = Moved("db", "backup") /\ Proceeds("moved")
    /\ UNCHANGED <<data, created, handle, alive, scan, marks>>

(* Up to here a failure removes the temporary file, and that is all: the   *)
(* database stays closed.                                                  *)
FailsEarly ==
    /\ alive /\ import \in {"created", "closed", "copied", "cleared"}
    /\ disk' = Without({"temp"}) /\ Proceeds("idle")
    /\ UNCHANGED <<data, created, handle, alive, scan, marks>>

MoveIn ==
    /\ At("moved")
    /\ disk' = Moved("temp", "db") /\ Proceeds("placed")
    /\ UNCHANGED <<data, created, handle, alive, scan, marks>>

\* A mutant: the fallback is removed before it is moved back.
PutBackLate == Without({"backup", "temp"})

(* The fallback takes its place again.                                     *)
PutBack == [Moved("backup", "db") EXCEPT !["temp"] = 0]

(* It is put back, or else its removal is deferred like the other.         *)
Restores ==
    \/ disk' = PutBack /\ UNCHANGED unmoved
    \/ disk' = Without({"backup", "temp"}) /\ unmoved' = TRUE

MoveInFails ==
    /\ At("moved")
    /\ Restores /\ Proceeds("idle")
    /\ UNCHANGED <<data, created, handle, alive, scan, mine, forked, remade, cutOff>>

(* MigrateDb, and OpenDB, which replaces the handle.                       *)
MigrateAndOpen ==
    /\ At("placed")
    /\ handle' = disk["db"] /\ Proceeds("opened")
    /\ Crossing
    /\ UNCHANGED <<disk, data, created, alive, marks>>

(* The rest of InitDB passes; SIGHUP restarts the services three seconds   *)
(* later with this handle.                                                 *)
InitPasses ==
    /\ At("opened") /\ Usable(handle)
    /\ disk' = Without({"backup", "temp"}) /\ Proceeds("idle")
    /\ mine' = handle /\ forked' = FALSE /\ cutOff' = FALSE
    /\ remade' = FALSE /\ unmoved' = FALSE
    /\ UNCHANGED <<data, created, handle, alive, scan>>

(* It fails: the handle stays with the rejected file.                      *)
InitFails ==
    /\ At("opened")
    /\ Restores /\ Proceeds("idle")
    /\ UNCHANGED <<data, created, handle, alive, scan, mine, forked, remade, cutOff>>

-----------------------------------------------------------------------------
(* The process ends; in the migration by log.Fatal, without the deferred   *)
(* functions and with the fallback where it is.                            *)
ProcessEnds ==
    /\ alive /\ alive' = FALSE /\ handle' = 0
    /\ Proceeds("idle")
    /\ scan' = IF scan.at = "reading" THEN NoScan ELSE scan
    /\ cutOff' = (cutOff \/ import \in {"moved", "placed", "opened"})
    /\ UNCHANGED <<disk, data, created, mine, forked, unmoved, remade>>

(* InitDB makes a database where there is none.                            *)
StartAnew ==
    /\ ~alive /\ disk["db"] = 0 /\ created < Files
    /\ created' = created + 1
    /\ data' = [data EXCEPT ![created + 1] = Data("default", NothingSaved)]
    /\ disk' = [disk EXCEPT !["db"] = created + 1]
    /\ alive' = TRUE /\ handle' = created + 1 /\ remade' = TRUE
    /\ UNCHANGED <<import, scan, mine, forked, unmoved, cutOff>>

(* One that it cannot open ends the process again.                         *)
Start ==
    /\ ~alive /\ Usable(disk["db"])
    /\ alive' = TRUE /\ handle' = disk["db"]
    /\ remade' = (remade \/ disk["db"] # mine)
    /\ UNCHANGED <<disk, data, created, import, scan, mine, forked, unmoved, cutOff>>

DbNext ==
    \/ Save \/ GetDb \/ GetDbEnds
    \/ CreateTemp \/ CloseOld \/ Copy \/ RemoveFallback \/ MoveAway \/ FailsEarly
    \/ MoveIn \/ MoveInFails \/ MigrateAndOpen \/ InitPasses \/ InitFails
    \/ ProcessEnds \/ StartAnew \/ Start

DbSpec == DbInit /\ [][DbNext]_dbvars

-----------------------------------------------------------------------------
DbTypeOK ==
    /\ disk \in [Paths -> Inodes \cup {0}]
    /\ data \in [Inodes -> [kind : FileKinds, rows : [Tables -> 0 .. MaxRows]]]
    /\ created \in Inodes /\ handle \in 0 .. created
    /\ import \in {"idle", "created", "closed", "copied", "cleared", "moved", "placed", "opened"}
    /\ scan.at \in {"none", "reading", "done"}

(* The rows the user was told are saved are at the panel's path or in the  *)
(* fallback, at every moment of an import and however it fails or is cut   *)
(* off; unless the fallback could not be moved back, a rejected upload     *)
(* answered a save, or the panel was started again with other rows after   *)
(* an import was cut off (ImportDB, "Backup the current database for       *)
(* fallback").                                                             *)
RowsAreSomewhere ==
    \/ forked \/ unmoved \/ remade
    \/ \E p \in {"db", "backup"} : disk[p] = mine

(* When no import is under way the file at the path is one the panel       *)
(* starts with, and has these rows, unless the process ended in the middle *)
(* of an import: log.Fatal in the migration of a rejected upload does so   *)
(* (MigrateDb, ImportDB).                                                  *)
StartsWithItsRows ==
    \/ import # "idle" \/ cutOff \/ unmoved
    \/ Usable(disk["db"]) /\ (forked \/ remade \/ disk["db"] = mine)

(* A backup is of the database of the user, and has every save to a table  *)
(* GetDb lists that was answered before it was asked, unless an import was *)
(* under way or had been rejected since the panel started.  GetDb does not *)
(* list agent_nodes (backup.go:49-63, db.go:123): no backup has the        *)
(* managed nodes, and one that is restored leaves the panel without them.  *)
BackupHasTheSaves ==
  scan.at = "done" /\ ~scan.crossed =>
    scan.file = scan.of /\ \A t \in Listed : scan.rows[t] >= scan.told[t]

(* The three: an import or a backup keeps what the user has.               *)
RowsAreKept == RowsAreSomewhere /\ StartsWithItsRows /\ BackupHasTheSaves
===============================================================================
