------------------------------ MODULE UpgradeDb ------------------------------
(***************************************************************************)
(* upgradeDb (src/filler/upgrade-db.ts), which the master runs before it   *)
(* starts workers: the tables of handlers that have none, and the          *)
(* migrations of every version after the one in dbinfo, each in a          *)
(* transaction of its own.                                                 *)
(*                                                                         *)
(* Between two runs the program may be replaced by a later release, which  *)
(* brings more versions, and handlers may be added to the configuration.   *)
(***************************************************************************)
EXTENDS Integers, Sequences, FiniteSets

CONSTANTS
  HandlerNames,
  Versions,  \* directories of the migrations, as x.y.z
  Removable  \* handlers may also be removed from the configuration

NoVersion == <<>>
NoTables == <<NoVersion>>
FirstVersion == <<1, 0, 0>>

(* The first number that differs decides. *)
CompareVersionString(v, w) ==
  IF v = w THEN 0
  ELSE LET i == CHOOSE i \in DOMAIN v : v[i] # w[i] /\ \A k \in 1..(i - 1) : v[k] = w[k]
       IN  v[i] - w[i]

ASSUME UpgradeDbAssumption ==
  /\ IsFiniteSet(Versions) /\ Versions \subseteq [1..3 -> Nat]
  /\ \A v \in Versions : CompareVersionString(FirstVersion, v) < 0
  /\ Removable \in BOOLEAN

VARIABLES
  db,          \* committed: version in dbinfo and the scripts run on each handler's tables
  tx,          \* the same in the open transaction
  release,     \* number of versions the program brings
  configured,  \* handlers of readers.config.json
  upgrade      \* progress of upgradeDb

upgradeVars == <<db, tx, release, configured, upgrade>>

UpTo(versions, v) == {w \in versions : CompareVersionString(w, v) <= 0}

Place(versions, v) == Cardinality(UpTo(versions, v))

(* A set of directories sorted by compareVersionString. *)
Sorted(versions) == [i \in 1..Cardinality(versions) |-> CHOOSE v \in versions : Place(versions, v) = i]

(* Later releases bring the later versions. *)
Released == {v \in Versions : Place(Versions, v) <= release}

AvailableVersions == Sorted(Released)

(* Mutant of PastVersions: without the current one. *)
PastVersionsBefore(current) == Sorted({v \in Released : CompareVersionString(v, current) < 0})

PastVersions(current) == Sorted(UpTo(Released, current))

UpgradeVersions(current) == Sorted({v \in Released : CompareVersionString(v, current) > 0})

-----------------------------------------------------------------------------

(* Another release or configuration, while the master is down. *)
Deploy ==
  /\ upgrade.at = "down"
  /\ \/ release < Cardinality(Versions) /\ release' = release + 1 /\ UNCHANGED configured
     \/ /\ \E h \in HandlerNames \ configured : configured' = configured \cup {h}
        /\ UNCHANGED release
     \/ /\ Removable /\ \E h \in configured : configured' = configured \ {h}
        /\ UNCHANGED release
  /\ UNCHANGED <<db, tx, upgrade>>

(* base_tables.sql is executed as one statement. *)
StartUpgrade ==
  LET current == IF db.version = NoVersion THEN FirstVersion ELSE db.version
  IN  /\ upgrade.at = "down"
      /\ db' = [db EXCEPT !.version = current]
      /\ tx' = db'
      /\ upgrade' = [at |-> "setup", current |-> current, handlers |-> configured, todo |-> <<>>]
      /\ UNCHANGED <<release, configured>>

(* setup creates nothing if the handler's tables exist. *)
HasTables(h) == tx.tables[h] # NoTables

(* setup creates the tables of the first version; the scripts of all later *)
(* ones up to the present follow.                                          *)
Setup(h) ==
  /\ upgrade.at = "setup" /\ h \in upgrade.handlers
  /\ tx' = IF HasTables(h) THEN tx
           ELSE [tx EXCEPT !.tables[h] = PastVersions(upgrade.current)]
  /\ upgrade' = [upgrade EXCEPT !.handlers = @ \ {h}]
  /\ UNCHANGED <<db, release, configured>>

CommitSetup ==
  /\ upgrade.at = "setup" /\ upgrade.handlers = {}
  /\ db' = tx
  /\ upgrade' = [upgrade EXCEPT !.at = "next", !.todo = UpgradeVersions(upgrade.current)]
  /\ UNCHANGED <<tx, release, configured>>

(* database.sql sets the version in dbinfo. *)
UpgradeDatabase ==
  /\ upgrade.at = "next" /\ upgrade.todo # <<>>
  /\ tx' = [db EXCEPT !.version = Head(upgrade.todo)]
  /\ upgrade' = [upgrade EXCEPT !.at = "upgrade", !.handlers = configured]
  /\ UNCHANGED <<db, release, configured>>

(* upgrade: the procedures and views of the version are created after its  *)
(* script has run.                                                         *)
Migrated(tables, version) == Append(tables, version)

UpgradeHandler(h) ==
  /\ upgrade.at = "upgrade" /\ h \in upgrade.handlers
  /\ tx' = [tx EXCEPT !.tables[h] = Migrated(@, Head(upgrade.todo))]
  /\ upgrade' = [upgrade EXCEPT !.handlers = @ \ {h}]
  /\ UNCHANGED <<db, release, configured>>

CommitUpgrade ==
  /\ upgrade.at = "upgrade" /\ upgrade.handlers = {}
  /\ db' = tx
  /\ upgrade' = [upgrade EXCEPT !.at = "next", !.todo = Tail(@)]
  /\ UNCHANGED <<tx, release, configured>>

Upgraded ==
  /\ upgrade.at = "next" /\ upgrade.todo = <<>>
  /\ upgrade' = [upgrade EXCEPT !.at = "ready"]
  /\ UNCHANGED <<db, tx, release, configured>>

Upgrading ==
  \/ StartUpgrade \/ CommitSetup \/ UpgradeDatabase \/ CommitUpgrade \/ Upgraded
  \/ \E h \in HandlerNames : Setup(h) \/ UpgradeHandler(h)

(* The master dies, of an error of a script for example, or is stopped. *)
UpgradeDies ==
  /\ upgrade.at # "down"
  /\ tx' = db
  /\ upgrade' = [upgrade EXCEPT !.at = "down"]
  /\ UNCHANGED <<db, release, configured>>

InitUpgrade ==
  /\ db = [version |-> NoVersion, tables |-> [h \in HandlerNames |-> NoTables]]
  /\ tx = db
  /\ release = 1 /\ \E h \in HandlerNames : configured = {h}
  /\ upgrade = [at |-> "down", current |-> NoVersion, handlers |-> {}, todo |-> <<>>]

(* Every script has run once, in the order of the versions, on the tables  *)
(* of every handler; and a version in dbinfo is one that all configured    *)
(* handlers have reached.                                                  *)
MigrationsOnce ==
  /\ \A h \in HandlerNames : db.tables[h] # NoTables =>
       db.tables[h] = PastVersions(db.version)
  /\ upgrade.at = "ready" =>
       \A h \in configured : db.tables[h] = AvailableVersions
=============================================================================
