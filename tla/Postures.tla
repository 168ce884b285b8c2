------------------------------ MODULE Postures ------------------------------
(***************************************************************************)
(* internal/access: the access posture, read from the passwd file on       *)
(* demand, cached for PostureTTL, and asked for by every request.  The     *)
(* posture is resolved outside p.mu, so several callers may resolve at     *)
(* once and store in any order; the reader of the file holds its own mutex *)
(* across the two system calls of a read, between which the file may       *)
(* change.                                                                 *)
(***************************************************************************)
EXTENDS Integers, FiniteSets

CONSTANTS
    Callers,      \* the calls of Current the model makes
    None,         \* no caller, no table
    OIDCLive,     \* whether the provider method is enabled and complete
    PostureTTL,   \* PostureTTL, in ticks
    MaxTime,      \* bound on the clock
    MaxStamp,     \* bound on how often the file is written
    MaxStates     \* bound on the states the file is in during one tick

ASSUME PosturesAssumption ==
    /\ None \notin Callers
    /\ None \notin Nat
    /\ OIDCLive \in BOOLEAN
    /\ PostureTTL \in Nat \ {0}
    /\ MaxTime \in Nat
    /\ MaxStamp \in Nat
    /\ MaxStates \in Nat \ {0}

VARIABLES
    now,        \* what the clock says
    file,       \* the passwd file: its stamp, whether it has accounts, whether it reads
    held,       \* p.held
    at,         \* p.at; 0 while p.loaded is false
    previous,   \* p.previous, the key last told of
    stamp,      \* r.at; 0 while r.loaded is false
    cached,     \* r.cached, as the file it was parsed from
    readerMu,   \* the caller holding r.mu
    caller,     \* per call of Current, its local state
    past        \* history: per tick so far, the states the file was in

fileVars == <<file, past>>
postureVars == <<held, at, previous>>
readerVars == <<stamp, cached, readerMu>>
vars == <<now, fileVars, postureVars, readerVars, caller>>

\* A stamp stands for size, mtime and inode: every write of the file gives it another.
File == [stamp : Nat \ {0}, usable : BOOLEAN, readable : BOOLEAN]

\* What of Resolve the gate and the key of a posture look at: why the passwd method is
\* live or not, and the table it verifies against.
Posture == [passwd : {"live", "empty", "unreadable"}, table : Nat \cup {None}]

Unresolved == [passwd |-> "unreadable", table |-> None]

\* want is the stamp Stat returned; posture is what Current returns.
Call == [pc : {"idle", "looking", "waiting", "stat", "reading", "storing",
               "telling", "answered"},
         arrived : Nat, want : Nat, posture : Posture]

TypeOK ==
    /\ now \in Nat
    /\ file \in File
    /\ held \in Posture
    /\ at \in Nat
    /\ previous \in {"live", "empty", "unreadable", "none"}
    /\ stamp \in Nat
    /\ cached \in File
    /\ readerMu \in Callers \cup {None}
    /\ caller \in [Callers -> Call]
    /\ DOMAIN past = 1..now
    /\ \A t \in 1..now : past[t] \subseteq File /\ past[t] # {}
    /\ \A c \in Callers : caller[c].pc \in {"stat", "reading"} => readerMu = c

Init ==
    /\ now = 1
    /\ file \in [stamp : {1}, usable : BOOLEAN, readable : BOOLEAN]
    /\ held = Unresolved
    /\ at = 0
    /\ previous = "none"
    /\ stamp = 0
    /\ cached = file
    /\ readerMu = None
    /\ caller = [c \in Callers |-> [pc |-> "idle", arrived |-> 0, want |-> 0,
                                    posture |-> Unresolved]]
    /\ past = [t \in {1} |-> {file}]

-----------------------------------------------------------------------------
(* The clock, and the file as its operator changes it. *)

Tick ==
    /\ now < MaxTime
    /\ now' = now + 1
    /\ past' = [t \in 1..now + 1 |-> IF t = now + 1 THEN {file} ELSE past[t]]
    /\ UNCHANGED <<file, postureVars, readerVars, caller>>

FileBecomes(f) ==
    /\ Cardinality(past[now]) < MaxStates
    /\ file' = f
    /\ past' = [past EXCEPT ![now] = @ \cup {f}]
    /\ UNCHANGED <<now, postureVars, readerVars, caller>>

\* A new file is put in place.
Write ==
    /\ file.stamp < MaxStamp
    /\ \E u \in BOOLEAN :
          FileBecomes([stamp |-> file.stamp + 1, usable |-> u, readable |-> TRUE])

\* Its mount or its permissions go, or come back, with the file as it was.
Toggle == FileBecomes([file EXCEPT !.readable = ~@])

-----------------------------------------------------------------------------
(* Resolve, on what the reader returned. *)

\* The parsed file: no accounts is an unusable method and not an error.
Parsed(f) == IF f.usable THEN [passwd |-> "live", table |-> f.stamp]
                         ELSE [passwd |-> "empty", table |-> None]

\* An error drops the method, whatever entries the reader still holds.
Failed == [passwd |-> "unreadable", table |-> None]

Enforced(p) == p.passwd = "live" \/ OIDCLive

-----------------------------------------------------------------------------
(* Current. *)

Arrive(c) ==
    /\ caller[c].pc = "idle"
    /\ caller' = [caller EXCEPT ![c].pc = "looking", ![c].arrived = now]
    /\ UNCHANGED <<now, fileVars, postureVars, readerVars>>

HeldIsGood(c) == at # 0 /\ caller[c].arrived - at < PostureTTL

\* Under p.mu: the held posture, or off to the reader.
Look(c) ==
    /\ caller[c].pc = "looking"
    /\ caller' = IF HeldIsGood(c)
                 THEN [caller EXCEPT ![c].pc = "answered", ![c].posture = held]
                 ELSE [caller EXCEPT ![c].pc = "waiting"]
    /\ UNCHANGED <<now, fileVars, postureVars, readerVars>>

LockReader(c) ==
    /\ caller[c].pc = "waiting"
    /\ readerMu = None
    /\ readerMu' = c
    /\ caller' = [caller EXCEPT ![c].pc = "stat"]
    /\ UNCHANGED <<now, fileVars, postureVars, stamp, cached>>

\* Read returns: its mutex is released and the posture resolved from what it found.
Returned(c, p) ==
    /\ readerMu' = None
    /\ caller' = [caller EXCEPT ![c].pc = "storing", ![c].posture = p, ![c].want = 0]

\* Stat: an error fails, the stamp already held answers from the cache.
Stat(c) ==
    /\ caller[c].pc = "stat"
    /\ IF ~file.readable THEN Returned(c, Failed)
       ELSE IF stamp = file.stamp THEN Returned(c, Parsed(cached))
       ELSE /\ caller' = [caller EXCEPT ![c].pc = "reading", ![c].want = file.stamp]
            /\ UNCHANGED readerMu
    /\ UNCHANGED <<now, fileVars, postureVars, stamp, cached>>

\* Mutant: a read that fails leaves the new stamp over the old table.
ReadStampedFirst(c) ==
    /\ caller[c].pc = "reading"
    /\ stamp' = caller[c].want
    /\ IF file.readable
       THEN cached' = file /\ Returned(c, Parsed(file))
       ELSE UNCHANGED cached /\ Returned(c, Failed)
    /\ UNCHANGED <<now, fileVars, postureVars>>

\* ReadFile, of whatever the file is by now, kept under the stamp it had before.
ReadFile(c) ==
    /\ caller[c].pc = "reading"
    /\ IF file.readable
       THEN cached' = file /\ stamp' = caller[c].want /\ Returned(c, Parsed(file))
       ELSE UNCHANGED <<cached, stamp>> /\ Returned(c, Failed)
    /\ UNCHANGED <<now, fileVars, postureVars>>

\* Mutant: the held posture is dated when it is stored.
StoreDatedNow(c) ==
    /\ caller[c].pc = "storing"
    /\ held' = caller[c].posture
    /\ at' = now
    /\ previous' = caller[c].posture.passwd
    /\ caller' = [caller EXCEPT ![c].pc = IF previous' # previous
                                          THEN "telling" ELSE "answered"]
    /\ UNCHANGED <<now, fileVars, readerVars>>

\* Under p.mu: stored as of the arrival, whatever another caller stored meanwhile.
Store(c) ==
    /\ caller[c].pc = "storing"
    /\ held' = caller[c].posture
    /\ at' = caller[c].arrived
    /\ previous' = caller[c].posture.passwd
    /\ caller' = [caller EXCEPT ![c].pc = IF previous' # previous
                                          THEN "telling" ELSE "answered"]
    /\ UNCHANGED <<now, fileVars, readerVars>>

\* Changed writes its line, outside the lock.
Tell(c) ==
    /\ caller[c].pc = "telling"
    /\ caller' = [caller EXCEPT ![c].pc = "answered"]
    /\ UNCHANGED <<now, fileVars, postureVars, readerVars>>

CallStep(c) ==
    Look(c) \/ LockReader(c) \/ Stat(c) \/ ReadFile(c) \/ Store(c) \/ Tell(c)

Environment == Tick \/ Write \/ Toggle

-----------------------------------------------------------------------------
(* What must never happen. *)

View(f) == IF f.readable THEN Parsed(f) ELSE Failed

\* The postures the file has called for since PostureTTL before time t.
CalledForSince(t) ==
    {View(f) : f \in UNION {past[u] : u \in {v \in 1..now : t - v < PostureTTL}}}

\* Every request is gated by what the passwd file said less than PostureTTL before it
\* arrived, or later: a fix, or an account taken away, is never missed for longer, even
\* when a slow resolution is stored over a newer one.
PostureIsRecent ==
    \A c \in Callers :
        caller[c].pc = "answered" =>
            caller[c].posture \in CalledForSince(caller[c].arrived)

\* The parsed table answers for a stamp only if it is the file that has it, also after
\* reads that failed half way and files that changed between the two system calls.
CacheIsTheFile ==
    readerMu = None /\ file.stamp = stamp => cached.stamp = stamp
=============================================================================
