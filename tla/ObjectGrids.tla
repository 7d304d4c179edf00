----------------------------- MODULE ObjectGrids ----------------------------
(***************************************************************************)
(* The grids of one map that is not an instance: how they are created,     *)
(* loaded, made active, left idle and unloaded (GridStates.cpp, the grid   *)
(* functions of Map.cpp, ObjectGridLoader.cpp) while players and creatures *)
(* move over them.                                                         *)
(*                                                                         *)
(* The map is a row of cells, CellsPerGrid to a grid.  The functions run   *)
(* on the thread that updates the map, one after the other; only the       *)
(* creation of a grid also comes from the threads of other maps, which     *)
(* have finished when DelayedUpdate begins.  A function is one action but  *)
(* for those that go through a list: MoveAllCreaturesInMoveList takes the  *)
(* creatures one by one, in any order, and so does UnloadGrid, which       *)
(* finishes the moves, sends creatures home and then deletes the grid.     *)
(*                                                                         *)
(* The creatures of the database each have the cell they spawn in; summons *)
(* and pets have none.  The pets stand for the creatures in the world      *)
(* container of a grid, which its unloader does not visit.                 *)
(***************************************************************************)
EXTENDS Naturals, FiniteSets

CONSTANTS
    NumGrids,     \* grids in the row
    CellsPerGrid, \* MAX_NUMBER_OF_CELLS
    Sight,        \* how many cells one sees
    Expiry,       \* i_gridExpiry, in updates
    ShortExpiry,  \* a tenth of it
    Creatures,    \* those of the database
    Summons,
    Pets,
    home,         \* the cell a creature of the database spawns in
    Eager,        \* creatures whose AI calls setActive(true) when it is created
    MaxMoves      \* bound: moves in the list at a time

Units == Creatures \cup Summons \cup Pets
Grids == 0..NumGrids - 1
Cells == Grids \X (0..CellsPerGrid - 1)

\* Not in the map.
NoCell == <<NumGrids, 0>>
Out    == NumGrids

ASSUME GridAssumption ==
    /\ NumGrids \in Nat \ {0}
    /\ CellsPerGrid \in Nat \ {0}
    /\ Sight \in Nat
    /\ ShortExpiry \in Nat \ {0}
    /\ Expiry \in Nat /\ Expiry >= ShortExpiry
    /\ IsFiniteSet(Creatures)
    /\ Creatures \cap (Summons \cup Pets) = {}
    /\ Summons \cap Pets = {}
    /\ home \in [Creatures -> Cells]
    /\ Eager \subseteq Creatures
    /\ MaxMoves \in Nat

VARIABLES
    grids,      \* i_grids: state, whether its objects are loaded, timer and i_unloadActiveLockCount
    player,     \* the cell of the player, or NoCell
    at,         \* the cell of each unit, or NoCell
    active,     \* m_activeNonPlayers
    moving,     \* _creaturesToMove: the cell a unit is to move to, or NoCell
    finishing,  \* MoveAllCreaturesInMoveList is running, called by Map::Update
    todo,       \* the grids DelayedUpdate still has to update
    unloading,  \* the grid that UnloadGrid is unloading, or Out
    visited,    \* the creatures its evacuator has visited
    late,       \* history: what its MoveAllCreaturesInMoveList has brought into the grid
    overlooked, \* history: creatures it left in the grid before it loaded the grid they spawn in
    stray       \* something lives, or is in m_activeNonPlayers, that was in a grid when it was deleted

vars == <<grids, player, at, active, moving, finishing, todo, unloading, visited, late, overlooked, stray>>

\* What only DelayedUpdate changes.
unload == <<todo, unloading, visited, late, overlooked, stray>>

NoGrid  == [state |-> "none", loaded |-> FALSE, timer |-> 0, lock |-> 0]
NewGrid == [state |-> "idle", loaded |-> FALSE, timer |-> Expiry, lock |-> 0]

Init ==
    /\ grids = [g \in Grids |-> NoGrid]
    /\ player = NoCell
    /\ at = [u \in Units |-> NoCell]
    /\ active = {}
    /\ moving = [u \in Units |-> NoCell]
    /\ finishing = FALSE
    /\ todo = {}
    /\ unloading = Out
    /\ visited = {}
    /\ late = {}
    /\ overlooked = {}
    /\ stray = FALSE

\* A cell is known by its grid and its place in it.
GridOf(cell)    == cell[1]
Coord(cell)     == cell[1] * CellsPerGrid + cell[2]
Exists(g)       == grids[g].state # "none"
IsGridLoaded(g) == grids[g].loaded
InMap(u)        == at[u] # NoCell

\* The units in the move list, and whether the map may be changed by its update, packets and commands.
Movers == {u \in Units : moving[u] # NoCell}
Open   == todo = {} /\ ~finishing

-----------------------------------------------------------------------------
(***************************************************************************)
(* Creating and loading.  LoadN creates the creatures that spawn in the    *)
(* grid unless they are in the map already.  A creature whose AI has made  *)
(* it active in AddToWorld is given to AddToActive by setActive and once   *)
(* more by AddObjectHelper.                                                *)
(***************************************************************************)
EnsureGridCreated(g) == IF Exists(g) THEN grids[g] ELSE NewGrid

Loads(g) == {c \in Creatures : ~IsGridLoaded(g) /\ GridOf(home[c]) = g /\ ~InMap(c)}

EnsureGridLoaded(g) ==
    [EnsureGridCreated(g) EXCEPT !.loaded = TRUE, !.lock = @ + 2 * Cardinality(Loads(g) \cap Eager)]

Placed(g) == [u \in Units |-> IF u \in Loads(g) THEN home[u] ELSE at[u]]

EnsureGridLoadedForActiveObject(g) ==
    LET grid == EnsureGridLoaded(g)
    IN  IF grid.state = "active" THEN grid ELSE [grid EXCEPT !.state = "active", !.timer = ShortExpiry]

LoadGrid(g) ==
    /\ Open
    /\ grids' = [grids EXCEPT ![g] = EnsureGridLoaded(g)]
    /\ at' = Placed(g)
    /\ active' = active \cup (Loads(g) \cap Eager)
    /\ UNCHANGED <<player, moving, finishing, unload>>

\* GetGrid, from any map's thread, and AddToMap of objects that are neither units nor active.
CreateGrid(g) ==
    /\ todo = {}
    /\ grids' = [grids EXCEPT ![g] = EnsureGridCreated(g)]
    /\ UNCHANGED <<player, at, active, moving, finishing, unload>>

\* AddToMap of a summon or pet.  One that is active is put into m_activeNonPlayers and locks no grid.
AddToMap(u, cell) ==
    /\ Open
    /\ ~InMap(u)
    /\ LET g == GridOf(cell) IN
       \/ /\ grids' = [grids EXCEPT ![g] = EnsureGridCreated(g)]
          /\ at' = [at EXCEPT ![u] = cell]
          /\ UNCHANGED active
       \/ /\ grids' = [grids EXCEPT ![g] = EnsureGridLoadedForActiveObject(g)]
          /\ at' = [Placed(g) EXCEPT ![u] = cell]
          /\ active' = active \cup (Loads(g) \cap Eager) \cup {u}
    /\ UNCHANGED <<player, moving, finishing, unload>>

-----------------------------------------------------------------------------
(***************************************************************************)
(* Players and creatures.                                                  *)
(***************************************************************************)
\* AddPlayerToMap, and PlayerRelocation.
PlayerTo(cell) ==
    /\ Open
    /\ player' = cell
    /\ LET g == GridOf(cell) IN
       IF player # NoCell /\ GridOf(player) = g
       THEN UNCHANGED <<grids, at, active>>
       ELSE /\ grids' = [grids EXCEPT ![g] = EnsureGridLoadedForActiveObject(g)]
            /\ at' = Placed(g)
            /\ active' = active \cup (Loads(g) \cap Eager)
    /\ UNCHANGED <<moving, finishing, unload>>

RemovePlayerFromMap ==
    /\ Open
    /\ player # NoCell
    /\ player' = NoCell
    /\ UNCHANGED <<grids, at, active, moving, finishing, unload>>

\* CreatureRelocation: a move to another cell is put into the list, one in its cell takes the unit from it.
CreatureRelocation(u, cell) ==
    /\ Open
    /\ InMap(u)
    /\ cell # at[u] => Cardinality(Movers \cup {u}) <= MaxMoves
    /\ moving' = [moving EXCEPT ![u] = IF cell = at[u] THEN NoCell ELSE cell]
    /\ UNCHANGED <<grids, player, at, active, finishing, unload>>

\* setActive, with AddToActive and RemoveFromActive: the grid a creature spawns in is locked, if it exists.
SetActive(u) ==
    /\ Open
    /\ InMap(u)
    /\ u \notin active
    /\ active' = active \cup {u}
    /\ grids' = [g \in Grids |-> IF u \in Creatures /\ GridOf(home[u]) = g /\ Exists(g)
                                THEN [grids[g] EXCEPT !.lock = @ + 1] ELSE grids[g]]
    /\ UNCHANGED <<player, at, moving, finishing, unload>>

\* Mutant: the lock is kept.
SetInactive_KeepsLock(u) ==
    /\ Open
    /\ u \in active
    /\ active' = active \ {u}
    /\ UNCHANGED <<grids, player, at, moving, finishing, unload>>

SetInactive(u) ==
    /\ Open
    /\ u \in active
    /\ active' = active \ {u}
    /\ grids' = [g \in Grids |-> IF u \in Creatures /\ GridOf(home[u]) = g /\ grids[g].lock > 0
                                THEN [grids[g] EXCEPT !.lock = @ - 1] ELSE grids[g]]
    /\ UNCHANGED <<player, at, moving, finishing, unload>>

-----------------------------------------------------------------------------
(***************************************************************************)
(* The moves.  MoveAllCreaturesInMoveList is called by Map::Update and by  *)
(* UnloadGrid.  An active unit loads the grid it enters.  One that cannot  *)
(* enter goes where it spawns or, if that is not loaded either, is         *)
(* removed; a summon or pet, whose respawn position is where it stands,    *)
(* stays.                                                                  *)
(***************************************************************************)
MoveAllCreaturesInMoveList ==
    /\ Open
    /\ Movers # {}
    /\ finishing' = TRUE
    /\ UNCHANGED <<grids, player, at, active, moving, unload>>

GetRespawnPosition(u) == IF u \in Creatures THEN home[u] ELSE at[u]

\* CreatureCellRelocation: whether it succeeds, and what it then does.
CanEnter(u, cell) == GridOf(at[u]) = GridOf(cell) \/ u \in active \/ IsGridLoaded(GridOf(cell))

CreatureCellRelocation(u, cell) ==
    LET g == GridOf(cell) IN
    IF u \in active /\ GridOf(at[u]) # g
    THEN /\ grids' = [grids EXCEPT ![g] = EnsureGridLoadedForActiveObject(g)]
         /\ at' = [Placed(g) EXCEPT ![u] = cell]
         /\ active' = active \cup (Loads(g) \cap Eager)
    ELSE /\ at' = [at EXCEPT ![u] = cell]
         /\ UNCHANGED <<grids, active>>

RemoveUnit(u) ==
    /\ at' = [at EXCEPT ![u] = NoCell]
    /\ UNCHANGED <<grids, active>>

\* What the move of u brings into the grid that is being unloaded.
Brings(u) ==
    IF unloading # Out /\ GridOf(at[u]) # unloading /\ GridOf(at'[u]) = unloading
    THEN {u} \cup (Loads(unloading) \cap Eager) ELSE {}

Move(u) ==
    /\ finishing \/ unloading # Out
    /\ u \in Movers
    /\ IF CanEnter(u, moving[u]) THEN CreatureCellRelocation(u, moving[u])
       ELSE IF CanEnter(u, GetRespawnPosition(u)) THEN CreatureCellRelocation(u, GetRespawnPosition(u))
       ELSE RemoveUnit(u)
    /\ moving' = [moving EXCEPT ![u] = NoCell]
    /\ finishing' = (finishing /\ Movers # {u})
    /\ late' = late \cup Brings(u)
    /\ UNCHANGED <<player, todo, unloading, visited, overlooked, stray>>

-----------------------------------------------------------------------------
(***************************************************************************)
(* DelayedUpdate, and the Update of each state.                            *)
(***************************************************************************)
Near(g, cell) ==
    /\ cell # NoCell
    /\ g * CellsPerGrid <= Coord(cell) + Sight
    /\ Coord(cell) <= (g + 1) * CellsPerGrid + Sight

ActiveObjectsNearGrid(g) == Near(g, player) \/ \E u \in active : Near(g, at[u])

\* The state with the timer moved on by one update, and whether it has then passed.
Ticked(g) == [grids[g] EXCEPT !.timer = @ - 1]
Passed(g) == grids[g].timer <= 1

DelayedUpdate ==
    /\ Open
    /\ todo' = {g \in Grids : Exists(g)}
    /\ todo' # {}
    /\ UNCHANGED <<grids, player, at, active, moving, finishing, unloading, visited, late, overlooked, stray>>

\* What the Update of a state does to the grid.
Updated(g, grid) ==
    /\ todo' = todo \ {g}
    /\ grids' = [grids EXCEPT ![g] = grid]
    /\ UNCHANGED <<player, at, active, moving, finishing, unloading, visited, late, overlooked, stray>>

\* A deleted object in m_activeNonPlayers may be found near any grid.
ActiveStateUpdate(g) ==
    /\ g \in todo /\ unloading = Out
    /\ grids[g].state = "active"
    /\ \/ ~Passed(g) /\ Updated(g, Ticked(g))
       \/ /\ Passed(g) /\ (ActiveObjectsNearGrid(g) \/ stray)
          /\ Updated(g, [grids[g] EXCEPT !.timer = ShortExpiry])
       \/ /\ Passed(g) /\ ~ActiveObjectsNearGrid(g)
          /\ Updated(g, [Ticked(g) EXCEPT !.state = "idle"])

IdleStateUpdate(g) ==
    /\ g \in todo /\ unloading = Out
    /\ grids[g].state = "idle"
    /\ Updated(g, [grids[g] EXCEPT !.state = "removal", !.timer = Expiry])

\* UnloadGrid is refused.
CannotUnload(g) == (\E u \in Pets : GridOf(at[u]) = g) \/ ActiveObjectsNearGrid(g)

\* The locked grid waits with its timer stopped; an unloading that is refused starts it anew.
RemovalStateUpdate(g) ==
    /\ g \in todo /\ unloading = Out
    /\ grids[g].state = "removal"
    /\ \/ grids[g].lock > 0 /\ Updated(g, grids[g])
       \/ grids[g].lock = 0 /\ ~Passed(g) /\ Updated(g, Ticked(g))
       \/ /\ grids[g].lock = 0 /\ Passed(g) /\ (CannotUnload(g) \/ stray)
          /\ Updated(g, [grids[g] EXCEPT !.timer = Expiry])

\* Mutant: only players and pets are looked for.
UnloadGrid_PlayersOnly(g) ==
    /\ g \in todo /\ unloading = Out
    /\ grids[g].state = "removal"
    /\ grids[g].lock = 0
    /\ Passed(g)
    /\ ~Near(g, player) /\ \A u \in Pets : GridOf(at[u]) # g
    /\ unloading' = g
    /\ UNCHANGED <<grids, player, at, active, moving, finishing, todo, visited, late, overlooked, stray>>

\* UnloadGrid begins: the checks come before the moves in the list are finished.
UnloadGrid(g) ==
    /\ g \in todo /\ unloading = Out
    /\ grids[g].state = "removal"
    /\ grids[g].lock = 0
    /\ Passed(g)
    /\ ~CannotUnload(g)
    /\ unloading' = g
    /\ UNCHANGED <<grids, player, at, active, moving, finishing, todo, visited, late, overlooked, stray>>

\* Mutant: the creatures are not sent home.
Evacuated_Not(c) == FALSE

\* ObjectGridEvacuator sends a creature to the grid it spawns in if that is another one it can enter.
Evacuated(c) == GridOf(home[c]) # unloading /\ CanEnter(c, home[c])

\* The creatures the evacuator has left where they are although they spawn in g.
PassedOver(g) == {c \in visited : GridOf(at[c]) = unloading /\ GridOf(home[c]) = g /\ ~IsGridLoaded(g)}

Evacuate(c) ==
    /\ unloading # Out /\ Movers = {}
    /\ c \notin visited /\ GridOf(at[c]) = unloading
    /\ visited' = visited \cup {c}
    /\ \/ /\ Evacuated(c)
          /\ CreatureCellRelocation(c, home[c])
          /\ overlooked' = overlooked \cup PassedOver(GridOf(home[c]))
       \/ ~Evacuated(c) /\ UNCHANGED <<grids, at, active, overlooked>>
    /\ UNCHANGED <<player, moving, finishing, todo, unloading, late, stray>>

\* The end of UnloadGrid: what is in the grid is deleted with it, but for the pets, which are then in no grid.
DeleteGrid ==
    LET gone == {u \in Units : GridOf(at[u]) = unloading} IN
    /\ unloading # Out /\ Movers = {}
    /\ gone \cap Creatures \subseteq visited
    /\ grids' = [grids EXCEPT ![unloading] = NoGrid]
    /\ at' = [u \in Units |-> IF u \in gone THEN NoCell ELSE at[u]]
    /\ active' = active \ gone
    /\ stray' = (stray \/ gone \cap (active \cup Pets) # {})
    /\ overlooked' = {c \in overlooked : GridOf(home[c]) # unloading}
    /\ todo' = todo \ {unloading}
    /\ unloading' = Out
    /\ visited' = {}
    /\ late' = {}
    /\ UNCHANGED <<player, moving, finishing>>

-----------------------------------------------------------------------------
Update(g) == ActiveStateUpdate(g) \/ IdleStateUpdate(g) \/ RemovalStateUpdate(g) \/ UnloadGrid(g)

\* A step of a function that has begun.
Continue ==
    \/ \E g \in Grids : Update(g)
    \/ \E u \in Units : Move(u)
    \/ \E c \in Creatures : Evacuate(c)
    \/ DeleteGrid

Next ==
    \/ \E g \in Grids : LoadGrid(g) \/ CreateGrid(g)
    \/ \E u \in Summons \cup Pets, cell \in Cells : AddToMap(u, cell)
    \/ \E cell \in Cells : PlayerTo(cell)
    \/ RemovePlayerFromMap
    \/ \E u \in Units, cell \in Cells : CreatureRelocation(u, cell)
    \/ \E u \in Units : SetActive(u) \/ SetInactive(u)
    \/ MoveAllCreaturesInMoveList
    \/ DelayedUpdate
    \/ Continue

Spec == Init /\ [][Next]_vars

\* The world thread comes back to DelayedUpdate however the map is updated in between, and no function stops.
FairSpec == Spec /\ SF_vars(DelayedUpdate) /\ WF_vars(Continue)

-----------------------------------------------------------------------------
(***************************************************************************)
(* Nothing stands in a grid that has been deleted: the grid of a player is *)
(* loaded and active, and every unit is in a grid that exists.  While a    *)
(* grid is unloaded, a pet or an active object is in it only if the moves  *)
(* that UnloadGrid finishes after its checks have brought it: the unloader *)
(* deletes active objects without taking them from m_activeNonPlayers and  *)
(* does not see the pets.                                                  *)
(***************************************************************************)
NothingLeftBehind ==
    /\ player # NoCell => IsGridLoaded(GridOf(player)) /\ grids[GridOf(player)].state = "active"
    /\ \A u \in Units : InMap(u) => Exists(GridOf(at[u]))
    /\ \A u \in active : InMap(u)
    /\ unloading # Out => \A u \in active \cup Pets : GridOf(at[u]) = unloading => u \in late

(***************************************************************************)
(* A loaded grid misses none of its spawns: a creature that has wandered   *)
(* off is sent back before its new grid goes, and is not deleted by a      *)
(* failed move, as long as the grid it spawns in would not load it again.  *)
(* The one exception is a creature that the evacuator left where it was    *)
(* before, for an active creature, it loaded the grid both spawn in.       *)
(***************************************************************************)
SpawnsPresent == \A c \in Creatures \ overlooked : IsGridLoaded(GridOf(home[c])) => InMap(c)

(***************************************************************************)
(* A grid that is left alone is unloaded: no lock outlives the creature    *)
(* that took it, and no state is without a way on.                         *)
(***************************************************************************)
LeftAlone(g) ==
    /\ ~CannotUnload(g)
    /\ ~stray
    /\ \A c \in active \cap Creatures : GridOf(home[c]) # g

GridsExpire == \A g \in Grids : <>[]LeftAlone(g) => []<>~Exists(g)

=============================================================================
