------------------------------ MODULE MCLedgers ------------------------------
(* The components that stand by themselves, on small instances.  They share no
   state but the journal, which migration and quarantine only append to, so a
   behaviour of all is one of each side by side: it is enough to let one of
   them move while the others are still new. *)
EXTENDS Mirror, Watermark, Migration, Quarantine, Audit, Telemetry,
        RetryQueue, ReplicaSnapshot, ReplicaManifest

VARIABLE moving   \* the component that moves

journalVars == <<entries, closed>>
migOwnVars == <<schema, migrated, migration, reported>>
quarOwnVars == <<quarantined, cleared, admission, admitted, alarms, matched>>

standVars == <<mirrorVars, wmVars>>
callVars == <<journalVars, migOwnVars, quarOwnVars, retryVars>>
readVars == <<ledger, teleVars>>
packageVars == <<replicaVars, manifestVars>>

ledgersVars == <<moving, standVars, callVars, readVars, packageVars>>

LedgersInit ==
    /\ moving \in {"mirror", "watermark", "migration", "quarantine", "audit", "telemetry",
                   "retry", "replica", "manifest"}
    /\ MirrorInit /\ WatermarkInit /\ MigrationInit /\ QuarantineInit
    /\ AuditInit /\ TelemetryInit /\ RetryInit /\ ReplicaInit /\ ReplicaManifestInit

(* A ledger that has reached its bound is no deadlock. *)
AuditIsFull == Len(ledger) = MaxEvents /\ UNCHANGED ledger

LedgersNext ==
    /\ UNCHANGED moving
    /\ \/ moving = "mirror" /\ MirrorNext /\ UNCHANGED <<wmVars, callVars, readVars, packageVars>>
       \/ moving = "watermark" /\ WatermarkNext
          /\ UNCHANGED <<mirrorVars, callVars, readVars, packageVars>>
       \/ moving = "migration" /\ MigrationNext
          /\ UNCHANGED <<quarOwnVars, retryVars, standVars, readVars, packageVars>>
       \/ moving = "quarantine" /\ QuarantineNext
          /\ UNCHANGED <<migOwnVars, retryVars, standVars, readVars, packageVars>>
       \/ moving = "retry" /\ RetryNext
          /\ UNCHANGED <<journalVars, migOwnVars, quarOwnVars, standVars, readVars, packageVars>>
       \/ moving = "audit" /\ (AuditNext \/ AuditIsFull)
          /\ UNCHANGED <<teleVars, standVars, callVars, packageVars>>
       \/ moving = "telemetry" /\ TelemetryNext
          /\ UNCHANGED <<ledger, standVars, callVars, packageVars>>
       \/ moving = "replica" /\ ReplicaNext
          /\ UNCHANGED <<manifestVars, standVars, callVars, readVars>>
       \/ moving = "manifest" /\ ReplicaManifestNext
          /\ UNCHANGED <<replicaVars, standVars, callVars, readVars>>

LedgersSpec == LedgersInit /\ [][LedgersNext]_ledgersVars

(* Object ids and details of which two pairs are the same text when joined. *)
MCTexts == {<<"a">>, <<"a", "|", "a">>, <<"b">>}
=============================================================================
