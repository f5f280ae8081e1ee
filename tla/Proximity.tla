----------------------------- MODULE Proximity -----------------------------
(***************************************************************************)
(* What the chat scripts can see of discovery: who is registered, whose    *)
(* profile is complete, whose discovery flag is on, and the server's       *)
(* observation scores (the Redis sorted sets obs:{observer}).  Each action *)
(* is one atomic Redis command of store.py.  The handlers that issue these *)
(* commands, with the reads that precede them, are the subject of          *)
(* Discovery, which implements this specification; Messaging runs the send *)
(* script on top of it.                                                    *)
(***************************************************************************)
EXTENDS Naturals

CONSTANTS
    Users,      \* installations, each with its own user id
    Window,     \* observation_eligibility_seconds, in ticks
    MaxTime     \* bound on the clock

ASSUME ProximityAssumption == Window \in Nat /\ MaxTime \in Nat

VARIABLES
    now,          \* the server's clock; now_ms() samples it
    registered,   \* users for whom user:{id} exists
    profiled,     \* users with all three profile fields
    enabled,      \* users whose discovery_enabled is "1"
    observed      \* observed[o][v]: score of v in obs:{o}, Never when absent

proximityVars == <<now, registered, profiled, enabled, observed>>

Never == 0        \* the clock starts at 1, so no score is 0

Nobody == [v \in Users |-> Never]

ProximityTypeOK ==
    /\ now \in Nat \ {0}
    /\ registered \subseteq Users
    /\ profiled \subseteq registered
    /\ enabled \subseteq registered
    /\ observed \in [Users -> [Users -> Nat]]

ProximityInit ==
    /\ now = 1
    /\ registered = {}
    /\ profiled = {}
    /\ enabled = {}
    /\ observed = [o \in Users |-> Nobody]

-----------------------------------------------------------------------------

Tick ==
    /\ now < MaxTime
    /\ now' = now + 1
    /\ UNCHANGED <<registered, profiled, enabled, observed>>

\* register_installation.lua creates the user; discovery starts off.
Register(u) ==
    /\ u \notin registered
    /\ registered' = registered \cup {u}
    /\ UNCHANGED <<now, profiled, enabled, observed>>

\* Fault: a profile is written for whoever asks, registered or not.
PutProfileAnyone(u) ==
    /\ profiled' = profiled \cup {u}
    /\ UNCHANGED <<now, registered, enabled, observed>>

\* put_profile.lua writes the three fields together and nothing removes them.
PutProfile(u) ==
    /\ u \in registered
    /\ profiled' = profiled \cup {u}
    /\ UNCHANGED <<now, registered, enabled, observed>>

\* The HSET of set_discovery.
SetFlag(u, on) ==
    /\ u \in registered
    /\ enabled' = IF on THEN enabled \cup {u} ELSE enabled \ {u}
    /\ UNCHANGED <<now, registered, profiled, observed>>

\* The DEL obs:{user} that ends set_discovery(off).
Forget(o) ==
    /\ observed' = [observed EXCEPT ![o] = Nobody]
    /\ UNCHANGED <<now, registered, profiled, enabled>>

\* The pipeline of ZADDs that ends report_observations: everyone the report
\* found gets the same score, the moment at which the report sampled the clock.
Observe(o, seen, moment) ==
    /\ o \in profiled
    /\ seen \subseteq profiled \ {o}
    /\ seen # {}
    /\ observed' = [observed EXCEPT ![o] =
                      [v \in Users |-> IF v \in seen THEN moment ELSE @[v]]]
    /\ UNCHANGED <<now, registered, profiled, enabled>>

ProximityNext ==
    \/ Tick
    \/ \E u \in Users :
         \/ Register(u)
         \/ PutProfile(u)
         \/ \E on \in BOOLEAN : SetFlag(u, on)
         \/ Forget(u)
         \/ \E seen \in SUBSET Users, moment \in 1..now : Observe(u, seen, moment)

ProximitySpec == ProximityInit /\ [][ProximityNext]_proximityVars

-----------------------------------------------------------------------------

\* Fault: the window is closed at its end.
SnapshotLate(o, moment) ==
    {v \in (profiled \cap enabled) \ {o} :
        observed[o][v] # Never /\ observed[o][v] + Window >= moment}

\* observed_snapshots: who a refresh by o returns at this moment.  It reads
\* the scores and renews none.
Snapshot(o, moment) ==
    {v \in (profiled \cap enabled) \ {o} :
        observed[o][v] # Never /\ observed[o][v] + Window > moment}

=============================================================================
