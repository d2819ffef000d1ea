SPECIFICATION MigrationSpec
CONSTANTS
    Migrators = {t1, t2}
    Manifests = {m1}
    Versions = {0, 1, 2}
    MaxMigrations = 2
PROPERTY
    CancelledCommitsNothing
