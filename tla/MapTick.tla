------------------------------ MODULE MapTick ------------------------------
(***************************************************************************)
(* What MapManager::Update promises the rest of the world server: a tick   *)
(* updates live maps one by one, each at most once, deletes instances only *)
(* inside a tick and before their update, and reaches the single-threaded  *)
(* DelayedUpdate only when every live map has been updated or given up on. *)
(* Instances are created only between ticks, base maps at any time; one    *)
(* created inside a tick is updated in it or comes too late for it.  When  *)
(* such a creation rebuilds the table the tick walks over, nothing is      *)
(* promised for the rest of that tick but that it ends in DelayedUpdate.   *)
(***************************************************************************)
CONSTANTS BaseMaps, Instances, ParentOf

VARIABLES
    phase,    \* where the tick is
    live,     \* the maps that exist
    updated,  \* the maps updated in this tick
    skipped,  \* the maps this tick gave up on
    torn      \* a creation has rebuilt the table under this tick

vars == <<phase, live, updated, skipped, torn>>

Init ==
    /\ phase = "idle"
    /\ live = {}
    /\ updated = {}
    /\ skipped = {}
    /\ torn = FALSE

Create ==
    /\ \/ phase = "idle" /\ live' \in SUBSET (BaseMaps \cup Instances)
       \/ phase = "delayed" /\ live' \in SUBSET (live \cup BaseMaps)
    /\ live \subseteq live'
    /\ UNCHANGED <<phase, updated, skipped, torn>>

\* A base map created inside a tick, in time for it or too late.
CreateLate(m) ==
    /\ phase = "updating"
    /\ m \notin live
    /\ live' = live \cup {m}
    /\ skipped' \in {skipped, skipped \cup {m}}
    /\ UNCHANGED <<phase, updated, torn>>

\* The creation of a base map that rebuilds the table under the tick.
Tear(m) ==
    /\ phase = "updating"
    /\ m \notin live
    /\ live' = live \cup {m}
    /\ torn' = TRUE
    /\ UNCHANGED <<phase, updated, skipped>>

\* The rest of a torn tick: live, updated and skipped are left open.
Astray ==
    /\ torn
    /\ phase = "updating"
    /\ phase' \in {"updating", "delayed"}
    /\ UNCHANGED torn

Begin ==
    /\ phase = "idle"
    /\ phase' = "updating"
    /\ updated' = {}
    /\ skipped' = {}
    /\ torn' = FALSE
    /\ UNCHANGED live

Update(m) ==
    /\ phase = "updating"
    /\ m \in live \ updated
    /\ updated' = updated \cup {m}
    /\ UNCHANGED <<phase, live, skipped, torn>>

Skip(m) ==
    /\ phase = "updating"
    /\ m \in live \ updated
    /\ skipped' = skipped \cup {m}
    /\ UNCHANGED <<phase, live, updated, torn>>

Destroy(i) ==
    /\ phase = "updating"
    /\ i \in (live \cap Instances) \ updated
    /\ live' = live \ {i}
    /\ UNCHANGED <<phase, updated, skipped, torn>>

\* An instance is reached only through the update of its base map.
Covered(m) ==
    \/ m \in updated \cup skipped
    \/ m \in Instances /\ ParentOf[m] \in skipped

Barrier ==
    /\ phase = "updating"
    /\ \A m \in live : Covered(m)
    /\ phase' = "delayed"
    /\ UNCHANGED <<live, updated, skipped, torn>>

Finish ==
    /\ phase = "delayed"
    /\ phase' = "idle"
    /\ UNCHANGED <<live, updated, skipped, torn>>

Stop ==
    /\ phase = "idle"
    /\ phase' = "stopped"
    /\ live' = {}
    /\ UNCHANGED <<updated, skipped, torn>>

Next ==
    \/ Create
    \/ \E m \in BaseMaps : CreateLate(m) \/ Tear(m)
    \/ Astray
    \/ Begin
    \/ \E m \in BaseMaps \cup Instances : Update(m) \/ Skip(m)
    \/ \E i \in Instances : Destroy(i)
    \/ Barrier
    \/ Finish
    \/ Stop

Spec == Init /\ [][Next]_vars
=============================================================================
