------------------------------- MODULE Journal -------------------------------
(***************************************************************************)
(* internal/journal/log.go: the append-only log every workflow writes to   *)
(* before it changes the catalog.  An entry keeps the fields the code      *)
(* reads back; its Sequence number is its position in the sequence.  The   *)
(* operator can close and reopen the log at any moment.                    *)
(***************************************************************************)
EXTENDS Integers, Sequences

VARIABLES entries,   \* the log
          closed     \* Append returns ErrJournalClosed

JournalInit ==
    /\ entries = <<>>
    /\ closed = FALSE

(* Append; callers test closed, the reason it returns an error, themselves. *)
AppendEntry(e) ==
    /\ ~closed
    /\ entries' = Append(entries, e)
    /\ UNCHANGED closed

CloseJournal ==
    /\ ~closed
    /\ closed' = TRUE
    /\ UNCHANGED entries

OpenJournal ==
    /\ closed
    /\ closed' = FALSE
    /\ UNCHANGED entries

(* The log holds an entry e with these values. *)
Logged(kind, snap, op) ==
    \E i \in DOMAIN entries :
        /\ entries[i].kind = kind
        /\ entries[i].snap = snap
        /\ entries[i].op = op
=============================================================================
