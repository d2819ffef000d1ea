-------------------------------- MODULE Mirror --------------------------------
(***************************************************************************)
(* internal/mirror under RegisterMirrorSite and ApplyMirrorUpdate of the   *)
(* service.  Apply locks the ledger three times: to look up the site, to   *)
(* read the record and to write it.  Between the three, and since the copy *)
(* of the local snapshot was read, other updates may be applied and        *)
(* captures may commit.  An update keeps its generation only.              *)
(***************************************************************************)
EXTENDS Integers

CONSTANTS Threads,
          Sites,
          Snapshots,
          Generations,        \* generations of updates and of local captures
          OneWorkerPerSite    \* are the updates of a site delivered one at a time?

ASSUME MirrorAssumption == Generations \subseteq Nat /\ OneWorkerPerSite \in BOOLEAN

VARIABLES sites,     \* registered sites
          records,   \* site -> snapshot -> generation applied last, -1 if none
          local,     \* snapshot -> its generation in the catalog, -1 if it is not there
          audit,     \* site and snapshot of the "mirror-applied" events
          call       \* goroutine -> the call it is in

mirrorVars == <<sites, records, local, audit, call>>

Update == [site: Sites, snap: Snapshots, gen: Generations]

Idle == [pc |-> "idle"]

Busy == {"site", "record", "write", "audit"}

Call == {Idle} \union [pc: Busy, update: Update, copy: Generations \union {-1}]

MirrorTypeOK ==
    /\ sites \subseteq Sites
    /\ records \in [Sites -> [Snapshots -> Generations \union {-1}]]
    /\ local \in [Snapshots -> Generations \union {-1}]
    /\ audit \subseteq Sites \X Snapshots
    /\ call \in [Threads -> Call]

MirrorInit ==
    /\ sites = {}
    /\ records = [site \in Sites |-> [s \in Snapshots |-> -1]]
    /\ local = [s \in Snapshots |-> -1]
    /\ audit = {}
    /\ call = [t \in Threads |-> Idle]

At(t, pc) == call[t].pc = pc

Goto(t, pc) == call' = [call EXCEPT ![t].pc = pc]

Return(t) == call' = [call EXCEPT ![t] = Idle]

------------------------------------------------------------------------------
(* A second registration returns false and changes nothing. *)
RegisterMirrorSite(site) ==
    /\ site \notin sites
    /\ sites' = sites \union {site}
    /\ UNCHANGED <<records, local, audit, call>>

(* A capture commits; an id is published once. *)
CommitLocal(s, gen) ==
    /\ local[s] = -1
    /\ local' = [local EXCEPT ![s] = gen]
    /\ UNCHANGED <<sites, records, audit, call>>

------------------------------------------------------------------------------
(* ApplyMirrorUpdate(site, snapshot)                                        *)

ApplyMirrorUpdate(t, u) ==
    /\ At(t, "idle")
    /\ OneWorkerPerSite => \A v \in Threads : call[v].pc \in Busy => call[v].update.site # u.site
    /\ call' = [call EXCEPT ![t] = [pc |-> "site", update |-> u, copy |-> local[u.snap]]]
    /\ UNCHANGED <<sites, records, local, audit>>

SiteRegistered(t) ==
    /\ At(t, "site")
    /\ IF call[t].update.site \in sites THEN Goto(t, "record") ELSE Return(t)
    /\ UNCHANGED <<sites, records, local, audit>>

(* Mutant of StaleUpdate: only the local catalog is compared. *)
StaleUpdateLocal(c) == c.copy > c.update.gen

(* ErrStaleGeneration, of the record read now or of the copy read before. *)
StaleUpdate(c) ==
    \/ c.update.gen < records[c.update.site][c.update.snap]
    \/ c.copy > c.update.gen

RecordFor(t) ==
    /\ At(t, "record")
    /\ IF StaleUpdate(call[t]) THEN Return(t) ELSE Goto(t, "write")
    /\ UNCHANGED <<sites, records, local, audit>>

WriteRecord(t) ==
    /\ At(t, "write")
    /\ LET u == call[t].update IN records' = [records EXCEPT ![u.site][u.snap] = u.gen]
    /\ Goto(t, "audit")
    /\ UNCHANGED <<sites, local, audit>>

RecordAudit(t) ==
    /\ At(t, "audit")
    /\ audit' = audit \union {<<call[t].update.site, call[t].update.snap>>}
    /\ Return(t)
    /\ UNCHANGED <<sites, records, local>>

------------------------------------------------------------------------------
MirrorNext ==
    \/ \E site \in Sites : RegisterMirrorSite(site)
    \/ \E s \in Snapshots, gen \in Generations : CommitLocal(s, gen)
    \/ \E t \in Threads, u \in Update : ApplyMirrorUpdate(t, u)
    \/ \E t \in Threads :
          SiteRegistered(t) \/ RecordFor(t) \/ WriteRecord(t) \/ RecordAudit(t)

MirrorSpec == MirrorInit /\ [][MirrorNext]_mirrorVars

------------------------------------------------------------------------------
(* Properties.                                                              *)

(* What Apply promises of a site: the generation recorded for a snapshot is
   never replaced by an older one.  The three locks of Apply keep it as long
   as one worker at a time delivers the updates of a site. *)
RecordNeverRegresses ==
    [][\A site \in Sites, s \in Snapshots : records'[site][s] >= records[site][s]]_mirrorVars

(* The inductive invariant: a call of the only worker of its site still may
   write what it has checked, and whatever is recorded or audited is of a
   registered site. *)
MirrorInv ==
    /\ MirrorTypeOK
    /\ \A t \in Threads : call[t].pc \in {"record", "write", "audit"} => call[t].update.site \in sites
    /\ \A site \in Sites, s \in Snapshots :
          /\ records[site][s] # -1 => site \in sites
          /\ <<site, s>> \in audit => records[site][s] # -1
    /\ \A t \in Threads : At(t, "audit") => records[call[t].update.site][call[t].update.snap] # -1
    /\ OneWorkerPerSite =>
          /\ \A t, v \in Threads :
                call[t].pc \in Busy /\ call[v].pc \in Busy /\ call[t].update.site = call[v].update.site
                  => t = v
          /\ \A t \in Threads : At(t, "write") =>
                call[t].update.gen >= records[call[t].update.site][call[t].update.snap]
=============================================================================
