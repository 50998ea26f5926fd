------------------------------ MODULE AuditLog ------------------------------
(***************************************************************************)
(* The audit log, a key of chrome.storage.local that several contexts      *)
(* write: appendAuditEntry of src/src/lib/api-client.ts (requests of the   *)
(* side panel and the service worker, jobs, test transactions) and the     *)
(* history page (RunHistoryPage.tsx).  Every writer reads the whole log    *)
(* and writes it back whole.                                               *)
(***************************************************************************)
EXTENDS Naturals, Sequences, SequencesExt, FiniteSets

CONSTANTS
    Appends,    \* calls of appendAuditEntry; each names its entry
    NoLog,      \* a log that was not read
    MaxAudit    \* MAX_AUDIT_ENTRIES

ASSUME AuditAssumption == NoLog \notin Seq(Appends) /\ MaxAudit \in Nat \ {0}

VARIABLES
    audit,      \* the stored log, oldest entry first
    copy,       \* the log an append has read and not written back
    written,    \* the appends that are over, in their order
    entries,    \* the log as the history page has loaded it
    deleted,    \* history: entries the user deleted
    overlapped  \* history: entries written while somebody else held a copy

auditVars == <<audit, copy, written, entries, deleted, overlapped>>

AuditInit ==
    /\ audit = <<>>
    /\ copy = [a \in Appends |-> NoLog]
    /\ written = <<>>
    /\ entries = NoLog
    /\ deleted = {} /\ overlapped = {}

\* Mutant of trimAuditLog: drops the newest entries.
TrimNewest(log) == SubSeq(log, 1, IF Len(log) > MaxAudit THEN MaxAudit ELSE Len(log))

trimAuditLog(log) == SubSeq(log, IF Len(log) > MaxAudit THEN Len(log) - MaxAudit + 1 ELSE 1, Len(log))

\* The log is read, ...
AuditRead(a) ==
    /\ ~Contains(written, a) /\ copy[a] = NoLog
    /\ copy' = [copy EXCEPT ![a] = audit]
    /\ UNCHANGED <<audit, written, entries, deleted, overlapped>>

\* ... and written back with the entry.
appendAuditEntry(a) ==
    /\ copy[a] # NoLog
    /\ audit' = trimAuditLog(Append(copy[a], a))
    /\ copy' = [copy EXCEPT ![a] = NoLog]
    /\ written' = Append(written, a)
    /\ overlapped' = IF entries # NoLog \/ \E b \in Appends \ {a} : copy[b] # NoLog
                     THEN overlapped \cup {a} ELSE overlapped
    /\ UNCHANGED <<entries, deleted>>

\* The writer's context goes away between the two.
AppendLost(a) ==
    /\ copy[a] # NoLog
    /\ copy' = [copy EXCEPT ![a] = NoLog]
    /\ UNCHANGED <<audit, written, entries, deleted, overlapped>>

\* The history page loads the log once, when it is opened, ...
HistoryOpens ==
    /\ entries = NoLog
    /\ entries' = audit
    /\ UNCHANGED <<audit, copy, written, deleted, overlapped>>

HistoryCloses ==
    /\ entries # NoLog
    /\ entries' = NoLog
    /\ UNCHANGED <<audit, copy, written, deleted, overlapped>>

\* ... and a deletion stores what was loaded without the entry (which is in a log
\* once).
handleDelete(e) ==
    /\ entries # NoLog
    /\ \E i \in DOMAIN entries : entries[i] = e /\ entries' = RemoveAt(entries, i)
    /\ audit' = entries'
    /\ deleted' = deleted \cup {e}
    /\ UNCHANGED <<copy, written, overlapped>>

AuditNext ==
    \/ \E a \in Appends : \/ AuditRead(a) \/ appendAuditEntry(a) \/ AppendLost(a)
                          \/ handleDelete(a)
    \/ HistoryOpens \/ HistoryCloses

AuditSpec == AuditInit /\ [][AuditNext]_auditVars

-----------------------------------------------------------------------------
AuditTypeOK ==
    /\ audit \in Seq(Appends)
    /\ copy \in [Appends -> Seq(Appends) \cup {NoLog}]
    /\ written \in Seq(Appends)
    /\ entries \in Seq(Appends) \cup {NoLog}
    /\ deleted \subseteq Appends /\ overlapped \subseteq Appends

\* The writers share no lock.  An entry still leaves the log only when the user
\* deletes it, when MaxAudit others came after it, or when it was written while
\* somebody else (an append or the open history page) held an older copy.
AuditKept ==
    \A i \in DOMAIN written :
        /\ Len(written) - i < MaxAudit
        /\ written[i] \notin overlapped \cup deleted
        => Contains(audit, written[i])

\* "The audit log is trimmed on write to keep the newest 200 entries"
\* (README.md:357): an append and a deletion at the same time lose one.
AuditKeepsNewest ==
    \A i \in DOMAIN written :
        Len(written) - i < MaxAudit /\ written[i] \notin deleted => Contains(audit, written[i])
=============================================================================
