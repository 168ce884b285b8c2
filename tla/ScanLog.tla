------------------------------ MODULE ScanLog ------------------------------
(***************************************************************************)
(* cmd/labview's listener on the build cache: what the log says of each    *)
(* scan.  The cache calls built with a note about two scans; built reads   *)
(* the connections to log with Peek, from whatever the cache holds then.   *)
(***************************************************************************)
EXTENDS BuildCache

CONSTANTS
    Targets,   \* the outbound targets a scan reports on
    Reports    \* what a report says of one, as far as conn.Same looks

\* wire.go:72: the cache is always given the listener.
ASSUME ListenerAssumption == HasListener = TRUE

VARIABLES
    reports,   \* per build, its Meta.Connections
    previous,  \* p.previous, the reports last logged against
    first,     \* p.first
    log        \* history: per call of built, what it was told and what it wrote

logVars == <<previous, first, log>>

LogInit ==
    /\ Init
    /\ reports \in [Requests -> [Targets -> Reports]]
    /\ previous = [t \in Targets |-> None]
    /\ first = TRUE
    /\ log = <<>>

\* p.cache.Peek(), from inside the callback.
Seen(d) == current

\* logConnections: all of the first scan, then the targets sameAsBefore denies.
LinesFor(b) == {t \in Targets : first \/ previous[t] # reports[b][t]}

\* Note.Quiet: not the baseline, and nothing moved; elsewhere stands for the diffs
\* of everything that is not a connection.
Quiet(n, elsewhere) ==
    n.previous # None /\ ~elsewhere /\ reports[n.previous] = reports[n.current]

\* Mutant: the reports are kept when there was something to write about them.
RememberNews(b) == IF LinesFor(b) = {} \/ ~first THEN previous ELSE reports[b]

Remember(b) == reports[b]

Built(d) ==
    /\ Tell(d)
    /\ LET n == Head(drain[d].hand)
           b == Seen(d)
       IN  IF b = None
           THEN UNCHANGED logVars
           ELSE /\ previous' = Remember(b)
                /\ first' = FALSE
                /\ \E elsewhere \in BOOLEAN :
                      log' = Append(log, [note  |-> n,
                                          seen  |-> b,
                                          lines |-> LinesFor(b),
                                          said  |-> ~Quiet(n, elsewhere) \/ n.forced])
    /\ UNCHANGED reports

LogNext ==
    \/ Next /\ told' = told /\ UNCHANGED <<reports, logVars>>
    \/ \E d \in Requests : Built(d)

LogSpec == LogInit /\ [][LogNext]_<<vars, reports, logVars>>

-----------------------------------------------------------------------------
\* Once nothing is owed, the reports the next scan will be compared against are those of
\* the scan the cache holds, however far behind the listener fell on the way.
LogCatchesUp ==
    current # None /\ Len(told) = Len(Notices) => previous = reports[current]

\* Whoever pressed rescan reads a line about the scan that answered, also when nothing
\* moved and also when it joined a scan a timer had begun.
EveryRescanSpeaks ==
    \A i \in DOMAIN log :
        (\E r \in Requests : call[r].forced /\ call[r].on = log[i].note.current)
            => log[i].said

\* wire.go:146 of the block logConnections writes for a scan: "The first scan logs all
\* of them; later scans log what changed".
LaterScansLogWhatChanged ==
    \A i \in DOMAIN log : \A t \in Targets :
        LET n == log[i].note
        IN  n.previous = None \/ reports[n.previous][t] # reports[n.current][t]
                => t \in log[i].lines
=============================================================================
