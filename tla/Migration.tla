------------------------------ MODULE Migration ------------------------------
(***************************************************************************)
(* Service.MigrateManifest over internal/migration: the context is looked  *)
(* at, the schema version is read and written under two locks of the       *)
(* store, the runner notes the snapshot, and then comes the journal.       *)
(* Nothing is undone when the journal is closed.                           *)
(***************************************************************************)
EXTENDS Journal

CONSTANTS Migrators,       \* goroutines
          Manifests,       \* snapshot ids
          Versions,        \* schema versions callers name
          MaxMigrations    \* BOUND: entries of the journal

ASSUME MigrationAssumption == Versions \subseteq Nat /\ MaxMigrations \in Nat

VARIABLES schema,      \* snapshot -> version; 0 if it is not in the map
          migrated,    \* Runner.done
          migration,   \* goroutine -> the MigrateManifest call it is in; live: its context
          reported     \* migrations with a "manifest-migrated" audit event

migVars == <<entries, closed, schema, migrated, migration, reported>>

NoMigration == [pc |-> "idle"]

MigrationCall == [pc: {"version", "set", "done", "journal", "audit"},
                  snap: Manifests, from: Versions, to: Versions, live: BOOLEAN]

MigrationEntry(m, to) == [kind |-> "migration", snap |-> m, gen |-> to]

JournaledMigrations ==
    {<<entries[i].snap, entries[i].gen>> :
        i \in {j \in DOMAIN entries : entries[j].kind = "migration"}}

MigrationTypeOK ==
    /\ entries \in Seq({entries[i] : i \in DOMAIN entries})
    /\ JournaledMigrations \subseteq Manifests \X Versions
    /\ closed \in BOOLEAN
    /\ schema \in [Manifests -> Versions \union {0}]
    /\ migrated \subseteq Manifests
    /\ migration \in [Migrators -> {NoMigration} \union MigrationCall]
    /\ reported \subseteq Manifests \X Versions

MigrationInit ==
    /\ JournalInit
    /\ schema = [m \in Manifests |-> 0]
    /\ migrated = {}
    /\ migration = [t \in Migrators |-> NoMigration]
    /\ reported = {}

MigrationAt(t, pc) == migration[t].pc = pc

MigrationGoto(t, pc) == migration' = [migration EXCEPT ![t].pc = pc]

MigrationReturn(t) == migration' = [migration EXCEPT ![t] = NoMigration]

(* The one look at the context: the call goes on only if it is live. *)
MigrateManifest(t, m, from, to) ==
    /\ MigrationAt(t, "idle")
    /\ migration' = [migration EXCEPT ![t] =
          [pc |-> "version", snap |-> m, from |-> from, to |-> to, live |-> TRUE]]
    /\ UNCHANGED <<entries, closed, schema, migrated, reported>>

(* The caller's context ends while the call runs. *)
CancelContext(t) ==
    /\ ~MigrationAt(t, "idle")
    /\ migration' = [migration EXCEPT ![t].live = FALSE]
    /\ UNCHANGED <<entries, closed, schema, migrated, reported>>

(* ErrVersionConflict unless the version is the one the caller names. *)
CheckVersion(t) ==
    /\ MigrationAt(t, "version")
    /\ IF schema[migration[t].snap] = migration[t].from
       THEN MigrationGoto(t, "set") ELSE MigrationReturn(t)
    /\ UNCHANGED <<entries, closed, schema, migrated, reported>>

(* A mutant of SetVersion: the version of CheckVersion is relied upon. *)
SetVersionUnchecked(t) ==
    /\ MigrationAt(t, "set")
    /\ schema' = [schema EXCEPT ![migration[t].snap] = migration[t].to]
    /\ MigrationGoto(t, "done")
    /\ UNCHANGED <<entries, closed, migrated, reported>>

(* SetVersion refuses an older version, the one check made under the lock of
   the write. *)
SetVersion(t) ==
    LET c == migration[t] IN
    /\ MigrationAt(t, "set")
    /\ \/ /\ c.to >= schema[c.snap]
          /\ schema' = [schema EXCEPT ![c.snap] = c.to]
          /\ MigrationGoto(t, "done")
       \/ /\ c.to < schema[c.snap]
          /\ MigrationReturn(t)
          /\ UNCHANGED schema
    /\ UNCHANGED <<entries, closed, migrated, reported>>

NoteDone(t) ==
    /\ MigrationAt(t, "done")
    /\ migrated' = migrated \union {migration[t].snap}
    /\ MigrationGoto(t, "journal")
    /\ UNCHANGED <<entries, closed, schema, reported>>

(* A closed journal ends the call; version and done stay as they are. *)
JournalMigration(t) ==
    /\ MigrationAt(t, "journal")
    /\ \/ /\ Len(entries) < MaxMigrations
          /\ AppendEntry(MigrationEntry(migration[t].snap, migration[t].to))
          /\ MigrationGoto(t, "audit")
       \/ /\ closed
          /\ MigrationReturn(t)
          /\ UNCHANGED <<entries, closed>>
    /\ UNCHANGED <<schema, migrated, reported>>

ReportMigration(t) ==
    /\ MigrationAt(t, "audit")
    /\ reported' = reported \union {<<migration[t].snap, migration[t].to>>}
    /\ MigrationReturn(t)
    /\ UNCHANGED <<entries, closed, schema, migrated>>

MigrationStep(t) ==
    \/ CancelContext(t) \/ CheckVersion(t) \/ SetVersion(t)
    \/ NoteDone(t) \/ JournalMigration(t) \/ ReportMigration(t)
    \/ \E m \in Manifests, from, to \in Versions : MigrateManifest(t, m, from, to)

MigrationNext ==
    \/ \E t \in Migrators : MigrationStep(t)
    \/ (CloseJournal \/ OpenJournal)
       /\ UNCHANGED <<schema, migrated, migration, reported>>

MigrationSpec == MigrationInit /\ [][MigrationNext]_migVars

-----------------------------------------------------------------------------
(* Calls that read one version both go on, and either may write last.  All the
   same the version of a snapshot is never behind a migration that passed
   SetVersion: not behind one that is still running, nor one in the journal,
   nor one reported to the caller; and what is reported is in the journal.  *)
MigrationInv ==
    /\ MigrationTypeOK
    /\ \A t \in Migrators :
          /\ migration[t].pc \in {"done", "journal", "audit"} =>
                migration[t].to <= schema[migration[t].snap]
          /\ migration[t].pc \in {"journal", "audit"} => migration[t].snap \in migrated
          /\ MigrationAt(t, "audit") =>
                <<migration[t].snap, migration[t].to>> \in JournaledMigrations
    /\ \A j \in JournaledMigrations : j[2] <= schema[j[1]] /\ j[1] \in migrated
    /\ reported \subseteq JournaledMigrations

(* "The caller's context gates every commit step" (migration/runner.go:8-10):
   a call whose context is cancelled does not change a version.             *)
CancelledCommitsNothing ==
    [][\A t \in Migrators :
          MigrationAt(t, "set") /\ ~migration[t].live /\ migration'[t] # migration[t]
              => schema' = schema]_migVars
=============================================================================
