---------------------------- MODULE ScanService ----------------------------
(***************************************************************************)
(* What the build cache promises the callers of Get, with no lock, queue,  *)
(* goroutine or listener in sight: scans happen one at a time, and a       *)
(* caller that stays is answered by a finished scan it is entitled to.     *)
(***************************************************************************)
EXTENDS Integers

CONSTANTS Requests, Scans, Overrides, Unset, None, TTL

VARIABLES
    now,    \* the clock
    ask,    \* per caller, what it asked, when, and what it was told
    scan,   \* per scan, its override and when it looked at the fleet
    held    \* the newest finished scan

vars == <<now, ask, scan, held>>

Override == Overrides \cup {Unset}

Init ==
    /\ now = 1
    /\ ask = [r \in Requests |-> [phase |-> "idle", forced |-> FALSE,
                                  probe |-> Unset, arrived |-> 0, answer |-> None]]
    /\ scan = [s \in Scans |-> [phase |-> "unseen", probe |-> Unset,
                                began |-> 0, ended |-> 0]]
    /\ held = None

Tick == now' = now + 1 /\ UNCHANGED <<ask, scan, held>>

Ask(r, f, p) ==
    /\ ask[r].phase = "idle"
    /\ ask' = [ask EXCEPT ![r] = [phase |-> "asked", forced |-> f, probe |-> p,
                                  arrived |-> now, answer |-> @.answer]]
    /\ UNCHANGED <<now, scan, held>>

\* One scan of the fleet at a time.
Begin(s, p) ==
    /\ scan[s].phase = "unseen"
    /\ \A t \in Scans : scan[t].phase # "scanning"
    /\ scan' = [scan EXCEPT ![s] = [phase |-> "scanning", probe |-> p,
                                    began |-> now, ended |-> @.ended]]
    /\ UNCHANGED <<now, ask, held>>

Finish(s) ==
    /\ scan[s].phase = "scanning"
    /\ scan' = [scan EXCEPT ![s] = [phase |-> "finished", probe |-> @.probe,
                                    began |-> @.began, ended |-> now]]
    /\ held' = s
    /\ UNCHANGED <<now, ask>>

\* A forced caller is owed a scan that looked at the fleet after it asked; any
\* other may also have one that was still going when it asked, or one that is
\* younger than the TTL.  An explicit override is always honoured.
Entitled(q, s) ==
    /\ q.probe \in {Unset, s.probe}
    /\ IF q.forced THEN s.began >= q.arrived
                   ELSE s.ended >= q.arrived \/ q.arrived - s.began < TTL

\* The call returns with scan s.
Told(q, phase, s) == [phase |-> phase, forced |-> q.forced, probe |-> q.probe,
                      arrived |-> q.arrived, answer |-> s]

Reply(r, s) ==
    /\ ask[r].phase = "asked"
    /\ scan[s].phase = "finished"
    /\ Entitled(ask[r], scan[s])
    /\ ask' = [ask EXCEPT ![r] = Told(@, "answered", s)]
    /\ UNCHANGED <<now, scan, held>>

\* A caller that leaves is handed what is held, which may be nothing.
Leave(r) ==
    /\ ask[r].phase = "asked"
    /\ ask' = [ask EXCEPT ![r] = Told(@, "left", held)]
    /\ UNCHANGED <<now, scan, held>>

Next ==
    \/ Tick
    \/ \E r \in Requests, f \in BOOLEAN, p \in Override : Ask(r, f, p)
    \/ \E r \in Requests, s \in Scans : Reply(r, s)
    \/ \E r \in Requests : Leave(r)
    \/ \E s \in Scans, p \in Override : Begin(s, p)
    \/ \E s \in Scans : Finish(s)

\* Nobody who asks waits for ever, and no scan goes on for ever.
Progress ==
    /\ \A r \in Requests : ask[r].phase = "asked" ~> ask[r].phase # "asked"
    /\ \A s \in Scans : scan[s].phase = "scanning" ~> scan[s].phase = "finished"

Safety == Init /\ [][Next]_vars
Spec == Safety /\ Progress
=============================================================================
