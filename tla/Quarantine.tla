----------------------------- MODULE Quarantine -----------------------------
(***************************************************************************)
(* internal/quarantine/store.go under Service.QuarantineChunk, which       *)
(* journals first, then admits the digest, then records an audit event.    *)
(* ReverifyChunk and QuarantineClear are one method of the store each; a   *)
(* comparison that failed with an error changes nothing.                   *)
(***************************************************************************)
EXTENDS Journal, FiniteSets

CONSTANTS Keepers,         \* goroutines
          Suspects,        \* chunk digests
          MaxAdmissions    \* BOUND: entries of the journal

ASSUME QuarantineAssumption == MaxAdmissions \in Nat /\ IsFiniteSet(Keepers)

VARIABLES quarantined,   \* digest -> its entry: in the map or not, re-verified or not
          cleared,       \* digests QuarantineClear has cleared
          admission,     \* goroutine -> the QuarantineChunk call it is in
          admitted,      \* digest -> admissions that succeeded (history)
          alarms,        \* digest -> "chunk-quarantined" audit events
          matched        \* digests compared equal since their admission (history)

quarVars == <<entries, closed, quarantined, cleared, admission, admitted, alarms, matched>>

NotQuarantined == [in |-> FALSE, verified |-> FALSE]

NoAdmission == [pc |-> "idle"]

(* The journal holds entries of other components as well. *)
QuarantineTypeOK ==
    /\ entries \in Seq({entries[i] : i \in DOMAIN entries})
    /\ closed \in BOOLEAN
    /\ quarantined \in [Suspects -> [in: BOOLEAN, verified: BOOLEAN]]
    /\ cleared \subseteq Suspects
    /\ admission \in [Keepers -> {NoAdmission} \union [pc: {"admit", "audit"}, digest: Suspects]]
    /\ admitted \in [Suspects -> Nat]
    /\ alarms \in [Suspects -> Nat]
    /\ matched \subseteq Suspects

QuarantineInit ==
    /\ JournalInit
    /\ quarantined = [d \in Suspects |-> NotQuarantined]
    /\ cleared = {}
    /\ admission = [t \in Keepers |-> NoAdmission]
    /\ admitted = [d \in Suspects |-> 0]
    /\ alarms = [d \in Suspects |-> 0]
    /\ matched = {}

(* The intent is journaled whether or not the digest is quarantined already. *)
QuarantineChunk(t, d) ==
    /\ admission[t] = NoAdmission
    /\ Len(entries) < MaxAdmissions
    /\ AppendEntry([kind |-> "quarantine-admit", snap |-> d])
    /\ admission' = [admission EXCEPT ![t] = [pc |-> "admit", digest |-> d]]
    /\ UNCHANGED <<quarantined, cleared, admitted, alarms, matched>>

(* A mutant of Admit: an entry that exists is admitted again as it stands. *)
AdmitAgain(t) ==
    LET d == admission[t].digest IN
    /\ admission[t].pc = "admit"
    /\ quarantined' = [quarantined EXCEPT ![d].in = TRUE]
    /\ admitted' = [admitted EXCEPT ![d] = @ + 1]
    /\ matched' = matched \ {d}
    /\ admission' = [admission EXCEPT ![t].pc = "audit"]
    /\ UNCHANGED <<entries, closed, cleared, alarms>>

(* Admit makes a new entry, or returns ErrAlreadyQuarantined. *)
Admit(t) ==
    LET d == admission[t].digest IN
    /\ admission[t].pc = "admit"
    /\ \/ /\ ~quarantined[d].in
          /\ quarantined' = [quarantined EXCEPT ![d] = [in |-> TRUE, verified |-> FALSE]]
          /\ admitted' = [admitted EXCEPT ![d] = @ + 1]
          /\ matched' = matched \ {d}
          /\ admission' = [admission EXCEPT ![t].pc = "audit"]
       \/ /\ quarantined[d].in
          /\ admission' = [admission EXCEPT ![t] = NoAdmission]
          /\ UNCHANGED <<quarantined, admitted, matched>>
    /\ UNCHANGED <<entries, closed, cleared, alarms>>

RaiseAlarm(t) ==
    /\ admission[t].pc = "audit"
    /\ alarms' = [alarms EXCEPT ![admission[t].digest] = @ + 1]
    /\ admission' = [admission EXCEPT ![t] = NoAdmission]
    /\ UNCHANGED <<entries, closed, quarantined, cleared, admitted, matched>>

(* Reverify of an entry with equal digests.  One with unequal digests changes
   the reason and the time of the entry and leaves Verified as it is. *)
ReverifyChunk(d) ==
    /\ quarantined[d].in
    /\ quarantined' = [quarantined EXCEPT ![d] = [in |-> TRUE, verified |-> TRUE]]
    /\ cleared' = cleared \ {d}
    /\ matched' = matched \union {d}
    /\ UNCHANGED <<entries, closed, admission, admitted, alarms>>

QuarantineClear(d) ==
    /\ quarantined[d].in
    /\ quarantined' = [quarantined EXCEPT ![d] = NotQuarantined]
    /\ cleared' = cleared \union {d}
    /\ UNCHANGED <<entries, closed, admission, admitted, alarms, matched>>

QuarantineNext ==
    \/ \E t \in Keepers : Admit(t) \/ RaiseAlarm(t) \/ \E d \in Suspects : QuarantineChunk(t, d)
    \/ \E d \in Suspects : ReverifyChunk(d) \/ QuarantineClear(d)
    \/ (CloseJournal \/ OpenJournal)
       /\ UNCHANGED <<quarantined, cleared, admission, admitted, alarms, matched>>

QuarantineSpec == QuarantineInit /\ [][QuarantineNext]_quarVars

-----------------------------------------------------------------------------
(* Admissions of d that a goroutine has at pc. *)
Pending(d, pc) == Cardinality({t \in Keepers : admission[t] = [pc |-> pc, digest |-> d]})

Intents(d) == Cardinality({i \in DOMAIN entries :
                              entries[i].kind = "quarantine-admit" /\ entries[i].snap = d})

(* Over any sequence of racing admissions, comparisons and clearings: an entry
   says Verified only if its digest was compared equal since it was admitted;
   every admission has a journal entry of its own, and every audit event an
   admission of its own; and only what was admitted is quarantined or cleared. *)
QuarantineInv ==
    /\ QuarantineTypeOK
    /\ \A d \in Suspects :
          /\ quarantined[d].verified => quarantined[d].in /\ d \in matched
          /\ admitted[d] + Pending(d, "admit") <= Intents(d)
          /\ alarms[d] + Pending(d, "audit") = admitted[d]
          /\ quarantined[d].in \/ d \in cleared => admitted[d] > 0
=============================================================================
