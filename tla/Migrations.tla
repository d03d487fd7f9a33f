----------------------------- MODULE Migrations -----------------------------
(***************************************************************************)
(* The start of the program brings the database to the newest version      *)
(* (internal/db/migrations/migrations.go, runMigrations).  The statements  *)
(* of a version and its row in schema_version commit together; some        *)
(* versions have a step in Go before them, and some one after them that    *)
(* runs when the version is already recorded.  The program may die at any  *)
(* moment, a migration may be refused, and the next start goes on.         *)
(***************************************************************************)
EXTENDS Naturals, FiniteSets, FiniteSetsExt

CONSTANTS
  Newest,       \* the newest version of this program
  Columns,      \* versions that first add a column, unless it is there (V10)
  Seeds,        \* versions followed by a step in Go (V16, V17, V21, ...)
  MaxStarts     \* bound: starts of the program

ASSUME MigrationsAssumption ==
  /\ {Newest, MaxStarts} \subseteq Nat \ {0}
  /\ Columns \subseteq 1..Newest /\ Seeds \subseteq 1..Newest

VARIABLES
  recorded,     \* the versions in schema_version
  applied,      \* times the statements of a version took effect
  columns,      \* versions whose column is there
  seeded,       \* times the Go step of a version took effect
  backups,      \* the versions a backup was made of
  opening,      \* the runner: where it stands, the version it read at its start
  starts        \* starts so far
migrationVars == <<recorded, applied, columns, seeded, backups, opening, starts>>

Latest == Max({0} \cup recorded)
Runner(at, current, version) == [at |-> at, current |-> current, version |-> version]
Down == Runner("down", 0, 0)
At(place) == opening.at = place
GoTo(place) == opening' = [opening EXCEPT !.at = place]

MigrationsInit ==
  /\ recorded = {} /\ columns = {} /\ backups = {}
  /\ applied = [v \in 1..Newest |-> 0]
  /\ seeded = [v \in 1..Newest |-> 0]
  /\ opening = Down /\ starts = 0

\* Open reads the newest version recorded; a backup is made when something is
\* pending, and one that fails is logged and forgotten.
Open ==
  /\ At("down") /\ starts < MaxStarts
  /\ starts' = starts + 1
  /\ opening' = Runner("next", Latest, 0)
  /\ \/ Latest < Newest /\ backups' = backups \cup {Latest}
     \/ UNCHANGED backups
  /\ UNCHANGED <<recorded, applied, columns, seeded>>
\* Slip: the newest version on record is taken for pending.
SkipsOlder(v) == v < opening.current
Skips(v) == v <= opening.current
Ready == At("next") /\ opening.version < Newest
\* The next version is passed over when it was recorded before this start.
NextVersion ==
  /\ Ready
  /\ opening' = [opening EXCEPT !.version = @ + 1,
                   !.at = IF Skips(opening.version + 1) THEN "next" ELSE "before"]
  /\ UNCHANGED <<recorded, applied, columns, seeded, backups, starts>>
AddColumn ==
  /\ At("before") /\ GoTo("statements")
  /\ columns' = columns \cup (Columns \cap {opening.version})
  /\ UNCHANGED <<recorded, applied, seeded, backups, starts>>
Apply ==
  /\ At("statements") /\ GoTo("after")
  /\ applied' = [applied EXCEPT ![opening.version] = @ + 1]
  /\ recorded' = recorded \cup {opening.version}
  /\ UNCHANGED <<columns, seeded, backups, starts>>
\* The statements are refused and rolled back, and the program ends.
Refuse ==
  /\ At("statements") /\ opening' = Down
  /\ UNCHANGED <<recorded, applied, columns, seeded, backups, starts>>
\* Errors of the Go step are logged, and the runner goes on.
Seed ==
  /\ At("after") /\ GoTo("next")
  /\ \/ /\ opening.version \in Seeds
        /\ seeded' = [seeded EXCEPT ![opening.version] = @ + 1]
     \/ UNCHANGED seeded
  /\ UNCHANGED <<recorded, applied, columns, backups, starts>>
Serve ==
  /\ At("next") /\ opening.version = Newest /\ GoTo("serving")
  /\ UNCHANGED <<recorded, applied, columns, seeded, backups, starts>>
Dies ==
  /\ ~At("down") /\ opening' = Down
  /\ UNCHANGED <<recorded, applied, columns, seeded, backups, starts>>

MigrationsNext ==
  \/ Open \/ NextVersion \/ AddColumn \/ Apply \/ Refuse \/ Seed \/ Serve \/ Dies
MigrationsSpec == MigrationsInit /\ [][MigrationsNext]_migrationVars

-----------------------------------------------------------------------------
MigrationsTypeOK ==
  /\ recorded \subseteq 1..Newest /\ columns \subseteq Columns /\ backups \subseteq 0..Newest
  /\ applied \in [1..Newest -> 0..MaxStarts] /\ seeded \in [1..Newest -> 0..MaxStarts]
  /\ opening \in [at : {"down", "next", "before", "statements", "after", "serving"},
                  current : 0..Newest, version : 0..Newest]
  /\ starts \in 0..MaxStarts

\* However often the program dies while it migrates, each version's statements
\* take effect exactly once and in order, a Go step never runs twice (most of
\* them insert built-in actions that nothing else would keep from doubling),
\* and the program serves only a database of the newest version.
MigratedOnce ==
  /\ \A v \in 1..Newest : applied[v] <= 1 /\ seeded[v] <= 1
  /\ recorded = {v \in 1..Newest : applied[v] = 1}
  /\ \A v \in recorded : 1..v \subseteq recorded /\ (v \in Columns => v \in columns)
  /\ At("serving") => recorded = 1..Newest
=============================================================================
