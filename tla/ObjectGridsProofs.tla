-------------------------- MODULE ObjectGridsProofs -------------------------
(***************************************************************************)
(* Theorems about ObjectGrids, for every number of grids and cells, every  *)
(* range of sight and expiry time, every set of creatures, summons and     *)
(* pets, creatures that are made active by their AI included, and every    *)
(* number of moves in the list.                                            *)
(***************************************************************************)
EXTENDS ObjectGrids, Integers, FiniteSetTheorems, TLAPS

-----------------------------------------------------------------------------
(***************************************************************************)
(* The inductive invariant.  Core is about the map: a creature is sent     *)
(* home to a grid because it is loaded, so that the grid exists has to be  *)
(* known (LoadedExist).  Phase is about an UnloadGrid that has begun: the  *)
(* player is not in the grid, what is in it and is active or a pet has     *)
(* been brought late, and a creature that the evacuator has left in it     *)
(* spawns there or in a grid that is not loaded.                           *)
(***************************************************************************)
GridData == [state : {"none", "idle", "active", "removal"}, loaded : BOOLEAN, timer : Int, lock : Nat]
Places   == [Units -> Cells \cup {NoCell}]

CoreType ==
    /\ grids \in [Grids -> GridData]
    /\ player \in Cells \cup {NoCell}
    /\ at \in Places
    /\ active \subseteq Units
    /\ overlooked \subseteq Creatures

LoadedExist == \A g \in Grids : IsGridLoaded(g) => Exists(g)

Standing ==
    /\ player # NoCell => IsGridLoaded(GridOf(player)) /\ grids[GridOf(player)].state = "active"
    /\ \A u \in Units : InMap(u) => Exists(GridOf(at[u]))
    /\ \A u \in active : InMap(u)

Core == CoreType /\ LoadedExist /\ Standing /\ SpawnsPresent

PhaseType ==
    /\ moving \in Places
    /\ todo \subseteq Grids
    /\ unloading \in todo \cup {Out}
    /\ visited \subseteq Creatures

PlayerAway == unloading # Out /\ player # NoCell => GridOf(player) # unloading

BroughtLate == unloading # Out => \A u \in active \cup Pets : GridOf(at[u]) = unloading => u \in late

VisitedInv ==
    /\ unloading = Out \/ Movers # {} => visited = {}
    /\ \A c \in visited \ overlooked :
           GridOf(at[c]) = unloading /\ GridOf(home[c]) # unloading => ~IsGridLoaded(GridOf(home[c]))

Phase == PhaseType /\ PlayerAway /\ BroughtLate /\ VisitedInv

IInv == Core /\ Phase

-----------------------------------------------------------------------------
\* A place outside the map is no cell of it, and the grid of a cell is a grid.
LEMMA CellFacts ==
    /\ NoCell \notin Cells
    /\ Out \notin Grids
    /\ GridOf(NoCell) = Out
    /\ \A cell \in Cells : cell # NoCell /\ GridOf(cell) \in Grids
    /\ \A c \in Creatures : home[c] \in Cells /\ GridOf(home[c]) \in Grids /\ c \in Units
<1>1. Out \notin Grids /\ NoCell \notin Cells /\ GridOf(NoCell) = Out
  BY GridAssumption DEF Grids, Out, NoCell, Cells, GridOf
<1>2. \A cell \in Cells : GridOf(cell) \in Grids
  BY DEF Cells, GridOf
<1> QED
  BY <1>1, <1>2, GridAssumption DEF Units

\* Something in a grid is near it: ActiveObjectsNearGrid looks at the grid and at what is within sight of it.
LEMMA InsideIsNear ==
    ASSUME NEW cell \in Cells
    PROVE  Near(GridOf(cell), cell)
<1> DEFINE g == cell[1]
           k == cell[2]
<1>1. g \in Nat /\ k \in Nat /\ k < CellsPerGrid
  BY GridAssumption DEF Cells, Grids
<1>2. CellsPerGrid \in Nat /\ Sight \in Nat
  BY GridAssumption
<1>3. g * CellsPerGrid \in Nat /\ (g + 1) * CellsPerGrid = g * CellsPerGrid + CellsPerGrid
  BY <1>1, <1>2
<1> HIDE DEF g, k
<1>4. g * CellsPerGrid <= g * CellsPerGrid + k + Sight /\ g * CellsPerGrid + k <= (g + 1) * CellsPerGrid + Sight
  BY <1>1, <1>2, <1>3
<1> QED
  BY <1>4, CellFacts DEF Near, GridOf, Coord, g, k

\* What the functions that create and load a grid return: it exists, with its objects, and active for an active object.
LEMMA LoadedGrid ==
    ASSUME CoreType, NEW g \in Grids
    PROVE  /\ EnsureGridCreated(g) \in GridData
           /\ EnsureGridCreated(g).state # "none"
           /\ EnsureGridCreated(g).loaded => IsGridLoaded(g)
           /\ IsGridLoaded(g) /\ Exists(g) => EnsureGridCreated(g).loaded
           /\ Exists(g) => EnsureGridCreated(g).state = grids[g].state
           /\ EnsureGridLoaded(g) \in GridData
           /\ EnsureGridLoaded(g).state # "none"
           /\ Exists(g) => EnsureGridLoaded(g).state = grids[g].state
           /\ EnsureGridLoaded(g).loaded
           /\ EnsureGridLoadedForActiveObject(g) \in GridData
           /\ EnsureGridLoadedForActiveObject(g).state = "active"
           /\ EnsureGridLoadedForActiveObject(g).loaded
<1>1. grids[g] \in GridData
  BY DEF CoreType
<1>2. NewGrid \in GridData /\ NewGrid.state = "idle" /\ ~NewGrid.loaded
  BY GridAssumption DEF NewGrid, GridData
<1>3. /\ EnsureGridCreated(g) \in GridData
      /\ EnsureGridCreated(g).state # "none"
      /\ EnsureGridCreated(g).loaded => IsGridLoaded(g)
      /\ IsGridLoaded(g) /\ Exists(g) => EnsureGridCreated(g).loaded
      /\ Exists(g) => EnsureGridCreated(g).state = grids[g].state
  BY <1>1, <1>2 DEF EnsureGridCreated, Exists, IsGridLoaded
<1> DEFINE e == EnsureGridCreated(g)
           n == 2 * Cardinality(Loads(g) \cap Eager)
<1>4. n \in Nat
  <2>1. IsFiniteSet(Loads(g) \cap Eager)
    BY GridAssumption, FS_Subset DEF Loads
  <2> QED
    BY <2>1, FS_CardinalityType
<1>5. EnsureGridLoaded(g) = [e EXCEPT !.loaded = TRUE, !.lock = @ + n]
  BY DEF EnsureGridLoaded
<1> HIDE DEF e, n
<1>6. e \in GridData /\ e.state # "none" /\ (Exists(g) => e.state = grids[g].state)
  BY <1>3 DEF e
<1>7. /\ EnsureGridLoaded(g) \in GridData
      /\ EnsureGridLoaded(g).state # "none"
      /\ Exists(g) => EnsureGridLoaded(g).state = grids[g].state
      /\ EnsureGridLoaded(g).loaded
  <2>1. [e EXCEPT !.loaded = TRUE, !.lock = @ + n] \in GridData
    <3> DEFINE m == e.lock + n
    <3>1. m \in Nat
      BY <1>4, <1>6 DEF GridData
    <3> HIDE DEF m
    <3>2. [e EXCEPT !.loaded = TRUE, !.lock = m] \in GridData
      BY <1>6, <3>1 DEF GridData
    <3> QED
      BY <3>2 DEF m
  <2>2. LET l == [e EXCEPT !.loaded = TRUE, !.lock = @ + n] IN l.state = e.state /\ l.loaded
    BY <1>6 DEF GridData
  <2> QED
    BY <1>5, <1>6, <2>1, <2>2
<1> DEFINE l == EnsureGridLoaded(g)
<1>8. EnsureGridLoadedForActiveObject(g)
        = IF l.state = "active" THEN l ELSE [l EXCEPT !.state = "active", !.timer = ShortExpiry]
  BY DEF EnsureGridLoadedForActiveObject
<1>9. l \in GridData /\ l.loaded
  BY <1>7
<1> HIDE DEF l
<1>10. [l EXCEPT !.state = "active", !.timer = ShortExpiry] \in GridData
  <2>1. ShortExpiry \in Int
    BY GridAssumption
  <2> QED
    BY <1>9, <2>1 DEF GridData
<1>11. LET m == [l EXCEPT !.state = "active", !.timer = ShortExpiry] IN m.state = "active" /\ m.loaded
  BY <1>9 DEF GridData
<1>12. /\ EnsureGridLoadedForActiveObject(g) \in GridData
       /\ EnsureGridLoadedForActiveObject(g).state = "active"
       /\ EnsureGridLoadedForActiveObject(g).loaded
  BY <1>8, <1>9, <1>10, <1>11
<1> QED
  BY <1>3, <1>7, <1>12

-----------------------------------------------------------------------------
(***************************************************************************)
(* Steps that neither load nor unload a grid.                              *)
(***************************************************************************)
LEMMA Kept ==
    ASSUME Core, grids' \in [Grids -> GridData],
           \A h \in Grids : /\ grids'[h].loaded <=> grids[h].loaded
                            /\ grids[h].state # "none" => grids'[h].state # "none"
                            /\ player' # NoCell /\ GridOf(player') = h /\ grids[h].state = "active"
                                 => grids'[h].state = "active",
           \/ player' = player \/ player' = NoCell
           \/ player' \in Cells /\ player # NoCell /\ GridOf(player') = GridOf(player),
           at' \in Places,
           \A u \in Units : at'[u] # at[u] /\ at'[u] # NoCell => grids'[GridOf(at'[u])].state # "none",
           \A u \in Units : at'[u] = NoCell /\ at[u] # NoCell =>
               u \notin active /\ (u \in Creatures => ~IsGridLoaded(GridOf(home[u]))),
           active' \subseteq Units, \A u \in active' : u \in active \/ at'[u] # NoCell,
           overlooked \subseteq overlooked', overlooked' \subseteq Creatures
    PROVE  Core'
<1>1. grids \in [Grids -> GridData] /\ at \in Places /\ player \in Cells \cup {NoCell}
  BY DEF Core, CoreType
<1>2. CoreType'
  BY <1>1 DEF Core, CoreType
<1>3. LoadedExist'
  BY DEF Core, LoadedExist, IsGridLoaded, Exists
<1>4. player' # NoCell => grids'[GridOf(player')].loaded /\ grids'[GridOf(player')].state = "active"
  <2> SUFFICES ASSUME player' # NoCell
               PROVE  grids'[GridOf(player')].loaded /\ grids'[GridOf(player')].state = "active"
    OBVIOUS
  <2>1. player # NoCell /\ GridOf(player') = GridOf(player) /\ GridOf(player) \in Grids
    <3>1. player # NoCell /\ GridOf(player') = GridOf(player)
      OBVIOUS
    <3> QED
      BY <1>1, <3>1, CellFacts
  <2>2. grids[GridOf(player)].loaded /\ grids[GridOf(player)].state = "active"
    BY <2>1 DEF Core, Standing, IsGridLoaded
  <2> QED
    BY <2>1, <2>2
<1>5. ASSUME NEW u \in Units, at'[u] # NoCell PROVE grids'[GridOf(at'[u])].state # "none"
  <2>1. CASE at'[u] = at[u]
    <3>1. GridOf(at[u]) \in Grids /\ grids[GridOf(at[u])].state # "none"
      BY <1>1, <1>5, <2>1, CellFacts DEF Core, Standing, InMap, Exists, Places
    <3> QED
      BY <2>1, <3>1
  <2> QED
    BY <1>5, <2>1
<1>6. \A u \in active' : at'[u] # NoCell
  <2> SUFFICES ASSUME NEW u \in active' PROVE at'[u] # NoCell
    OBVIOUS
  <2>1. CASE u \in active
    BY <2>1 DEF Core, Standing, InMap
  <2> QED
    BY <2>1
<1>7. Standing'
  BY <1>4, <1>5, <1>6 DEF Standing, IsGridLoaded, Exists, InMap, GridOf
<1>8. SpawnsPresent'
  <2> SUFFICES ASSUME NEW c \in Creatures \ overlooked', grids'[GridOf(home[c])].loaded
               PROVE  at'[c] # NoCell
    BY DEF SpawnsPresent, IsGridLoaded, InMap, GridOf
  <2>1. GridOf(home[c]) \in Grids /\ c \in Units
    BY CellFacts
  <2>2. IsGridLoaded(GridOf(home[c]))
    BY <2>1 DEF IsGridLoaded
  <2>3. at[c] # NoCell
    BY <2>2 DEF Core, SpawnsPresent, InMap
  <2> QED
    BY <2>1, <2>2, <2>3
<1> QED
  BY <1>2, <1>3, <1>7, <1>8 DEF Core

\* The same, when only where the units are and the flags of no grid change.
LEMMA PlacesKeep ==
    ASSUME Core, UNCHANGED grids,
           player' = player \/ player' = NoCell,
           at' \in Places,
           \A u \in Units : at'[u] # at[u] /\ at'[u] # NoCell => Exists(GridOf(at'[u])),
           \A u \in Units : at'[u] = NoCell /\ at[u] # NoCell =>
               u \notin active /\ (u \in Creatures => ~IsGridLoaded(GridOf(home[u]))),
           active' = active,
           overlooked \subseteq overlooked', overlooked' \subseteq Creatures
    PROVE  Core'
<1>1. grids' \in [Grids -> GridData] /\ active' \subseteq Units
  BY DEF Core, CoreType
<1>2. \A u \in Units : at'[u] # at[u] /\ at'[u] # NoCell => grids'[GridOf(at'[u])].state # "none"
  BY DEF Exists
<1> QED
  BY <1>1, <1>2, Kept

\* One grid is given a new state, timer or lock, or is created.
LEMMA GridChanges ==
    ASSUME Core, NEW g \in Grids, NEW grid \in GridData,
           grids' = [grids EXCEPT ![g] = grid],
           grid.loaded <=> IsGridLoaded(g),
           Exists(g) => grid.state # "none",
           player # NoCell /\ GridOf(player) = g => grid.state = "active",
           UNCHANGED <<player, active, overlooked>>,
           at' \in Places,
           \A u \in Units : at'[u] = at[u] \/ (at'[u] \in Cells /\ GridOf(at'[u]) = g /\ grid.state # "none")
    PROVE  Core'
<1>1. grids \in [Grids -> GridData] /\ active' \subseteq Units /\ overlooked' \subseteq Creatures
  BY DEF Core, CoreType
<1>2. grids' \in [Grids -> GridData] /\ grids'[g] = grid /\ \A h \in Grids \ {g} : grids'[h] = grids[h]
  BY <1>1
<1>3. \A h \in Grids : /\ grids'[h].loaded <=> grids[h].loaded
                       /\ grids[h].state # "none" => grids'[h].state # "none"
                       /\ player' # NoCell /\ GridOf(player') = h /\ grids[h].state = "active"
                            => grids'[h].state = "active"
  BY <1>2 DEF IsGridLoaded, Exists
<1>4. \A u \in Units : at'[u] # at[u] /\ at'[u] # NoCell => grids'[GridOf(at'[u])].state # "none"
  BY <1>2
<1>5. \A u \in Units : at'[u] = NoCell => at[u] = NoCell
  BY CellFacts
<1> QED
  BY <1>1, <1>2, <1>3, <1>4, <1>5, Kept

-----------------------------------------------------------------------------
(***************************************************************************)
(* Steps that load a grid: what LoadN puts into the map.                   *)
(***************************************************************************)
LEMMA Loading ==
    ASSUME Core, NEW g \in Grids, NEW grid \in GridData,
           grids' = [grids EXCEPT ![g] = grid], grid.state # "none", grid.loaded
    PROVE  /\ grids' \in [Grids -> GridData]
           /\ grids'[g] = grid
           /\ \A h \in Grids \ {g} : grids'[h] = grids[h]
           /\ LoadedExist'
           /\ Placed(g) \in Places
           /\ \A u \in Units : InMap(u) => Placed(g)[u] = at[u]
           /\ \A u \in Units : Placed(g)[u] # NoCell => grids'[GridOf(Placed(g)[u])].state # "none"
           /\ \A c \in Creatures \ overlooked : grids'[GridOf(home[c])].loaded => Placed(g)[c] # NoCell
           /\ \A u \in active \cup (Loads(g) \cap Eager) : u \in Units /\ Placed(g)[u] # NoCell
<1>1. grids \in [Grids -> GridData] /\ at \in Places /\ active \subseteq Units
  BY DEF Core, CoreType
<1>2. grids' \in [Grids -> GridData] /\ grids'[g] = grid /\ \A h \in Grids \ {g} : grids'[h] = grids[h]
  BY <1>1
<1>4. LoadedExist'
  BY <1>2 DEF Core, LoadedExist, IsGridLoaded, Exists
<1>5. \A u \in Units : Placed(g)[u] = IF u \in Loads(g) THEN home[u] ELSE at[u]
  BY DEF Placed
<1>7. \A c \in Loads(g) : c \in Creatures /\ c \in Units /\ ~InMap(c) /\ GridOf(home[c]) = g
  BY CellFacts DEF Loads
<1>6. Placed(g) \in Places
  BY <1>1, <1>7, CellFacts DEF Placed, Places
<1>8. \A u \in Units : InMap(u) => Placed(g)[u] = at[u]
  BY <1>5, <1>7
<1>9. ASSUME NEW u \in Units, Placed(g)[u] # NoCell
      PROVE  grids'[GridOf(Placed(g)[u])].state # "none"
  <2>1. CASE u \in Loads(g)
    BY <2>1, <1>2, <1>5, <1>7
  <2>2. CASE u \notin Loads(g)
    <3>1. Placed(g)[u] = at[u] /\ InMap(u)
      BY <2>2, <1>5, <1>9 DEF InMap
    <3>2. GridOf(at[u]) \in Grids /\ Exists(GridOf(at[u]))
      BY <3>1, <1>1, CellFacts DEF Core, Standing, InMap, Places
    <3>3. grids[GridOf(at[u])].state # "none"
      BY <3>2 DEF Exists
    <3> QED
      BY <1>2, <3>1, <3>2, <3>3
  <2> QED
    BY <2>1, <2>2
<1>10. ASSUME NEW c \in Creatures \ overlooked, grids'[GridOf(home[c])].loaded
       PROVE  Placed(g)[c] # NoCell
  <2>1. GridOf(home[c]) \in Grids /\ home[c] # NoCell /\ c \in Units
    BY CellFacts
  <2>2. CASE c \in Loads(g)
    BY <2>1, <2>2, <1>5
  <2>3. CASE c \notin Loads(g) /\ InMap(c)
    BY <2>1, <2>3, <1>5 DEF InMap
  <2>4. CASE c \notin Loads(g) /\ ~InMap(c)
    <3>1. ~IsGridLoaded(GridOf(home[c]))
      BY <2>4 DEF Core, SpawnsPresent
    <3>2. GridOf(home[c]) # g
      BY <2>4, <3>1 DEF Loads
    <3> QED
      BY <1>2, <1>10, <2>1, <3>1, <3>2 DEF IsGridLoaded
  <2> QED
    BY <2>2, <2>3, <2>4
<1>11. ASSUME NEW u \in active \cup (Loads(g) \cap Eager)
       PROVE  u \in Units /\ Placed(g)[u] # NoCell
  <2>1. CASE u \in Loads(g)
    BY <2>1, <1>5, <1>7, CellFacts
  <2>2. CASE u \in active
    <3>1. u \in Units /\ InMap(u)
      BY <2>2, <1>1 DEF Core, Standing
    <3> QED
      BY <3>1, <1>8 DEF InMap
  <2> QED
    BY <2>1, <2>2
<1> QED
  BY <1>2, <1>4, <1>6, <1>8, <1>9, <1>10, <1>11

\* What remains of such a step: where the player is, and a unit that goes where the grid exists.
LEMMA LoadedStep ==
    ASSUME Core, NEW g \in Grids, NEW grid \in GridData,
           grids' = [grids EXCEPT ![g] = grid], grid.state # "none", grid.loaded,
           \/ at' = Placed(g) /\ active' = active \cup (Loads(g) \cap Eager)
           \/ \E u \in Units, to \in Cells :
                 /\ at' = [Placed(g) EXCEPT ![u] = to] /\ GridOf(to) = g
                 /\ active' \subseteq active \cup (Loads(g) \cap Eager) \cup {u},
           player' \in Cells \cup {NoCell},
           player' # NoCell => grids'[GridOf(player')].state = "active" /\ grids'[GridOf(player')].loaded,
           overlooked \subseteq overlooked', overlooked' \subseteq Creatures
    PROVE  Core'
<1>1. /\ grids' \in [Grids -> GridData]
      /\ grids'[g] = grid
      /\ LoadedExist'
      /\ Placed(g) \in Places
      /\ \A u \in Units : Placed(g)[u] # NoCell => grids'[GridOf(Placed(g)[u])].state # "none"
      /\ \A c \in Creatures \ overlooked : grids'[GridOf(home[c])].loaded => Placed(g)[c] # NoCell
      /\ \A u \in active \cup (Loads(g) \cap Eager) : u \in Units /\ Placed(g)[u] # NoCell
  BY Loading
<1>2. /\ at' \in Places
      /\ \A u \in Units : at'[u] # NoCell => grids'[GridOf(at'[u])].state # "none"
      /\ \A u \in Units : Placed(g)[u] # NoCell => at'[u] # NoCell
      /\ \A u \in active' : u \in Units /\ at'[u] # NoCell
  <2>1. CASE at' = Placed(g) /\ active' = active \cup (Loads(g) \cap Eager)
    BY <2>1, <1>1
  <2>2. CASE \E u \in Units, to \in Cells :
                 /\ at' = [Placed(g) EXCEPT ![u] = to] /\ GridOf(to) = g
                 /\ active' \subseteq active \cup (Loads(g) \cap Eager) \cup {u}
    <3>1. PICK u \in Units, to \in Cells :
                 /\ at' = [Placed(g) EXCEPT ![u] = to] /\ GridOf(to) = g
                 /\ active' \subseteq active \cup (Loads(g) \cap Eager) \cup {u}
      BY <2>2
    <3>2. at'[u] = to /\ to # NoCell /\ \A v \in Units \ {u} : at'[v] = Placed(g)[v]
      BY <1>1, <3>1, CellFacts DEF Places
    <3>3. at' \in Places
      BY <1>1, <3>1 DEF Places
    <3>4. \A v \in active' : v \in Units /\ at'[v] # NoCell
      BY <1>1, <3>1, <3>2
    <3> QED
      BY <1>1, <3>1, <3>2, <3>3, <3>4
  <2> QED
    BY <2>1, <2>2
<1>4. CoreType'
  BY <1>1, <1>2 DEF CoreType
<1>6. Standing'
  BY <1>2 DEF Standing, IsGridLoaded, Exists, InMap, GridOf
<1>7. SpawnsPresent'
  <2> SUFFICES ASSUME NEW c \in Creatures \ overlooked', grids'[GridOf(home[c])].loaded
               PROVE  at'[c] # NoCell
    BY DEF SpawnsPresent, IsGridLoaded, InMap, GridOf
  <2> QED
    BY <1>1, <1>2, CellFacts
<1> QED
  BY <1>1, <1>4, <1>6, <1>7 DEF Core

\* The player stands in a loaded and active grid after a step that loads another or makes this one active.
LEMMA PlayerStands ==
    ASSUME Core, NEW g \in Grids, NEW grid \in GridData,
           grids' = [grids EXCEPT ![g] = grid], grid.loaded,
           grids[g].state = "active" => grid.state = "active", player # NoCell
    PROVE  grids'[GridOf(player)].state = "active" /\ grids'[GridOf(player)].loaded
<1>1. grids \in [Grids -> GridData] /\ player \in Cells
  BY DEF Core, CoreType
<1>2. GridOf(player) \in Grids /\ grids[GridOf(player)].state = "active" /\ grids[GridOf(player)].loaded
  BY <1>1, CellFacts DEF Core, Standing, IsGridLoaded
<1> QED
  BY <1>1, <1>2

-----------------------------------------------------------------------------
(***************************************************************************)
(* The functions that are one step each.                                   *)
(***************************************************************************)
LEMMA LoadKeeps ==
    ASSUME Core, NEW g \in Grids, LoadGrid(g)
    PROVE  Core'
<1> DEFINE grid == EnsureGridLoaded(g)
<1>1. grid \in GridData /\ grid.state # "none" /\ grid.loaded /\ (Exists(g) => grid.state = grids[g].state)
  BY LoadedGrid DEF Core
<1>2. grids[g].state = "active" => grid.state = "active"
  BY <1>1 DEF Exists
<1>3. /\ grids' = [grids EXCEPT ![g] = grid]
      /\ at' = Placed(g)
      /\ active' = active \cup (Loads(g) \cap Eager)
      /\ player' = player /\ overlooked' = overlooked
  BY DEF LoadGrid, unload
<1> HIDE DEF grid
<1>4. player' # NoCell => grids'[GridOf(player')].state = "active" /\ grids'[GridOf(player')].loaded
  BY <1>1, <1>2, <1>3, PlayerStands
<1>5. player' \in Cells \cup {NoCell} /\ overlooked' \subseteq Creatures
  BY <1>3 DEF Core, CoreType
<1> QED
  BY <1>1, <1>3, <1>4, <1>5, LoadedStep

\* EnsureGridCreated: nothing is loaded, and a unit may be put into the grid.
LEMMA CreateKeeps ==
    ASSUME Core, NEW g \in Grids, grids' = [grids EXCEPT ![g] = EnsureGridCreated(g)],
           UNCHANGED <<player, active, overlooked>>,
           at' \in Places,
           \A u \in Units : at'[u] = at[u] \/ (at'[u] \in Cells /\ GridOf(at'[u]) = g)
    PROVE  Core'
<1> DEFINE grid == EnsureGridCreated(g)
<1>1. /\ grid \in GridData
      /\ grid.state # "none"
      /\ grid.loaded => IsGridLoaded(g)
      /\ IsGridLoaded(g) /\ Exists(g) => grid.loaded
      /\ Exists(g) => grid.state = grids[g].state
  BY LoadedGrid DEF Core
<1>2. grid.loaded <=> IsGridLoaded(g)
  <2>1. grid.loaded \in BOOLEAN /\ IsGridLoaded(g) \in BOOLEAN
    BY <1>1 DEF Core, CoreType, GridData, IsGridLoaded
  <2> QED
    BY <1>1, <2>1 DEF Core, LoadedExist
<1>3. player # NoCell /\ GridOf(player) = g => grid.state = "active"
  BY <1>1 DEF Core, Standing, Exists
<1> HIDE DEF grid
<1> QED
  BY <1>1, <1>2, <1>3, GridChanges DEF grid

\* AddToMap: the unit stands in a grid that is created, or loaded when it is active.
LEMMA AddKeeps ==
    ASSUME Core, NEW u \in Summons \cup Pets, NEW cell \in Cells, AddToMap(u, cell)
    PROVE  Core'
<1> DEFINE g == GridOf(cell)
<1>1. g \in Grids /\ cell # NoCell /\ u \in Units
  BY CellFacts DEF Units
<1>2. player' = player /\ overlooked' = overlooked
  BY DEF AddToMap, unload
<1>3. CASE /\ grids' = [grids EXCEPT ![g] = EnsureGridCreated(g)]
           /\ at' = [at EXCEPT ![u] = cell]
           /\ UNCHANGED active
  <2>1. at \in Places
    BY DEF Core, CoreType
  <2>2. at' \in Places /\ at'[u] = cell /\ \A v \in Units \ {u} : at'[v] = at[v]
    BY <1>1, <1>3, <2>1 DEF Places
  <2>3. \A v \in Units : at'[v] = at[v] \/ (at'[v] \in Cells /\ GridOf(at'[v]) = g)
    BY <2>2
  <2> HIDE DEF g
  <2> QED
    BY <1>1, <1>2, <1>3, <2>2, <2>3, CreateKeeps
<1>4. CASE /\ grids' = [grids EXCEPT ![g] = EnsureGridLoadedForActiveObject(g)]
           /\ at' = [Placed(g) EXCEPT ![u] = cell]
           /\ active' = active \cup (Loads(g) \cap Eager) \cup {u}
  <2> DEFINE grid == EnsureGridLoadedForActiveObject(g)
  <2>1. grid \in GridData /\ grid.state = "active" /\ grid.loaded
    BY <1>1, LoadedGrid DEF Core
  <2>2. grids' = [grids EXCEPT ![g] = grid]
    BY <1>4
  <2> HIDE DEF grid
  <2>3. player' # NoCell => grids'[GridOf(player')].state = "active" /\ grids'[GridOf(player')].loaded
    BY <1>1, <1>2, <2>1, <2>2, PlayerStands
  <2>4. player' \in Cells \cup {NoCell} /\ overlooked' \subseteq Creatures
    BY <1>2 DEF Core, CoreType
  <2>5. \E v \in Units, to \in Cells :
                 /\ at' = [Placed(g) EXCEPT ![v] = to] /\ GridOf(to) = g
                 /\ active' \subseteq active \cup (Loads(g) \cap Eager) \cup {v}
    BY <1>1, <1>4
  <2> HIDE DEF g
  <2> QED
    BY <1>1, <1>2, <2>1, <2>2, <2>3, <2>4, <2>5, LoadedStep
<1> QED
  BY <1>3, <1>4 DEF AddToMap

\* A player that moves loads the grid it enters.
LEMMA PlayerKeeps ==
    ASSUME Core, NEW cell \in Cells, PlayerTo(cell)
    PROVE  Core'
<1> DEFINE g == GridOf(cell)
<1>1. g \in Grids /\ cell # NoCell
  BY CellFacts
<1>2. player' = cell /\ overlooked' = overlooked
  BY DEF PlayerTo, unload
<1>3. CASE player # NoCell /\ GridOf(player) = g
  <2>1. UNCHANGED <<grids, at, active>>
    BY <1>3 DEF PlayerTo
  <2>2. grids' \in [Grids -> GridData] /\ at' \in Places /\ active' \subseteq Units /\ overlooked' \subseteq Creatures
    BY <1>2, <2>1 DEF Core, CoreType
  <2>3. player' \in Cells /\ player # NoCell /\ GridOf(player') = GridOf(player)
    BY <1>2, <1>3
  <2> QED
    BY <1>2, <2>1, <2>2, <2>3, Kept
<1>4. CASE ~(player # NoCell /\ GridOf(player) = g)
  <2> DEFINE grid == EnsureGridLoadedForActiveObject(g)
  <2>1. grid \in GridData /\ grid.state = "active" /\ grid.loaded
    BY <1>1, LoadedGrid DEF Core
  <2>2. /\ grids' = [grids EXCEPT ![g] = grid]
        /\ at' = Placed(g)
        /\ active' = active \cup (Loads(g) \cap Eager)
    BY <1>4 DEF PlayerTo
  <2> HIDE DEF grid
  <2>3. grids'[GridOf(player')].state = "active" /\ grids'[GridOf(player')].loaded
    BY <1>1, <1>2, <2>1, <2>2, Loading
  <2>4. overlooked' \subseteq Creatures /\ player' \in Cells \cup {NoCell}
    BY <1>2 DEF Core, CoreType
  <2> HIDE DEF g
  <2> QED
    BY <1>1, <1>2, <2>1, <2>2, <2>3, <2>4, LoadedStep
<1> QED
  BY <1>3, <1>4

\* setActive: only the count of the locks of a grid changes, whatever it is.
LEMMA ActivityKeeps ==
    ASSUME Core, NEW u \in Units, SetActive(u) \/ SetInactive(u)
    PROVE  Core'
<1>1. grids \in [Grids -> GridData] /\ at \in Places /\ active \subseteq Units /\ overlooked \subseteq Creatures
  BY DEF Core, CoreType
<1>2. UNCHANGED <<player, at, overlooked>>
  BY DEF SetActive, SetInactive, unload
<1>3. active' \subseteq Units /\ \A v \in active' : v \in active \/ at'[v] # NoCell
  BY <1>1, <1>2 DEF SetActive, SetInactive, InMap
<1>4. \A g \in Grids : \E lock \in Nat : grids'[g] = [grids[g] EXCEPT !.lock = lock]
  <2> SUFFICES ASSUME NEW g \in Grids PROVE \E lock \in Nat : grids'[g] = [grids[g] EXCEPT !.lock = lock]
    OBVIOUS
  <2> DEFINE l == grids[g].lock
  <2>1. grids[g] \in GridData /\ l \in Nat /\ grids[g] = [grids[g] EXCEPT !.lock = l]
    BY <1>1 DEF GridData
  <2>2. l + 1 \in Nat /\ (l > 0 => l - 1 \in Nat)
    <3> HIDE DEF l
    <3> QED
      BY <2>1
  <2>3. \/ grids'[g] = grids[g]
        \/ grids'[g] = [grids[g] EXCEPT !.lock = l + 1]
        \/ l > 0 /\ grids'[g] = [grids[g] EXCEPT !.lock = l - 1]
    BY DEF SetActive, SetInactive
  <2> HIDE DEF l
  <2> QED
    BY <2>1, <2>2, <2>3
<1>5. \A g \in Grids : grids'[g] \in GridData /\ grids'[g].state = grids[g].state /\ grids'[g].loaded = grids[g].loaded
  BY <1>1, <1>4 DEF GridData
<1>6. grids' \in [Grids -> GridData]
  <2>1. grids' = [g \in Grids |-> grids'[g]]
    BY DEF SetActive, SetInactive
  <2> QED
    BY <1>5, <2>1
<1> QED
  BY <1>1, <1>2, <1>3, <1>5, <1>6, Kept

\* The Update of a state: a grid with the player in it stays active, for the player is near.
LEMMA StateUpdateKeeps ==
    ASSUME Core, NEW g \in Grids, ActiveStateUpdate(g) \/ IdleStateUpdate(g) \/ RemovalStateUpdate(g)
    PROVE  Core'
<1>1. grids[g] \in GridData /\ at \in Places
  BY DEF Core, CoreType
<1>2. player # NoCell /\ GridOf(player) = g => grids[g].state = "active" /\ ActiveObjectsNearGrid(g)
  BY InsideIsNear DEF Core, CoreType, Standing, ActiveObjectsNearGrid
<1>3. UNCHANGED <<player, at, active, overlooked>>
  BY DEF ActiveStateUpdate, IdleStateUpdate, RemovalStateUpdate, Updated
<1>4. PICK st \in {"idle", "active", "removal"}, timer \in Int :
        /\ grids' = [grids EXCEPT ![g] = [grids[g] EXCEPT !.state = st, !.timer = timer]]
        /\ player # NoCell /\ GridOf(player) = g => st = "active"
  <2> DEFINE t == grids[g].timer
  <2>1. t \in Int /\ t - 1 \in Int /\ ShortExpiry \in Int /\ Expiry \in Int
    BY <1>1, GridAssumption DEF GridData
  <2>2. Ticked(g) = [grids[g] EXCEPT !.state = grids[g].state, !.timer = t - 1]
    BY <1>1 DEF Ticked, GridData
  <2>3. [Ticked(g) EXCEPT !.state = "idle"] = [grids[g] EXCEPT !.state = "idle", !.timer = t - 1]
    BY <1>1 DEF Ticked, GridData
  <2>4. \A x \in Int : [grids[g] EXCEPT !.timer = x] = [grids[g] EXCEPT !.state = grids[g].state, !.timer = x]
    BY <1>1 DEF GridData
  <2>5. grids[g] = [grids[g] EXCEPT !.state = grids[g].state, !.timer = t]
    BY <1>1 DEF GridData
  <2> HIDE DEF t
  <2>6. CASE ActiveStateUpdate(g)
    <3>1. grids[g].state = "active"
      BY <2>6 DEF ActiveStateUpdate
    <3>2. \/ grids' = [grids EXCEPT ![g] = Ticked(g)]
          \/ grids' = [grids EXCEPT ![g] = [grids[g] EXCEPT !.timer = ShortExpiry]]
          \/ ~ActiveObjectsNearGrid(g) /\ grids' = [grids EXCEPT ![g] = [Ticked(g) EXCEPT !.state = "idle"]]
      BY <2>6 DEF ActiveStateUpdate, Updated
    <3>3. \/ grids' = [grids EXCEPT ![g] = [grids[g] EXCEPT !.state = "active", !.timer = t - 1]]
          \/ grids' = [grids EXCEPT ![g] = [grids[g] EXCEPT !.state = "active", !.timer = ShortExpiry]]
          \/ /\ ~ActiveObjectsNearGrid(g)
             /\ grids' = [grids EXCEPT ![g] = [grids[g] EXCEPT !.state = "idle", !.timer = t - 1]]
      BY <2>1, <2>2, <2>3, <2>4, <3>1, <3>2
    <3> QED
      BY <1>2, <2>1, <3>3
  <2>7. CASE IdleStateUpdate(g)
    <3>1. /\ grids[g].state = "idle"
          /\ grids' = [grids EXCEPT ![g] = [grids[g] EXCEPT !.state = "removal", !.timer = Expiry]]
      BY <2>7 DEF IdleStateUpdate, Updated
    <3> QED
      BY <1>2, <2>1, <3>1
  <2>8. CASE RemovalStateUpdate(g)
    <3>1. grids[g].state = "removal"
      BY <2>8 DEF RemovalStateUpdate
    <3>2. \/ grids' = [grids EXCEPT ![g] = grids[g]]
          \/ grids' = [grids EXCEPT ![g] = Ticked(g)]
          \/ grids' = [grids EXCEPT ![g] = [grids[g] EXCEPT !.timer = Expiry]]
      BY <2>8 DEF RemovalStateUpdate, Updated
    <3>3. \/ grids' = [grids EXCEPT ![g] = [grids[g] EXCEPT !.state = "removal", !.timer = t]]
          \/ grids' = [grids EXCEPT ![g] = [grids[g] EXCEPT !.state = "removal", !.timer = t - 1]]
          \/ grids' = [grids EXCEPT ![g] = [grids[g] EXCEPT !.state = "removal", !.timer = Expiry]]
      BY <2>1, <2>2, <2>4, <2>5, <3>1, <3>2
    <3> QED
      BY <1>2, <2>1, <3>1, <3>3
  <2> QED
    BY <2>6, <2>7, <2>8
<1> DEFINE grid == [grids[g] EXCEPT !.state = st, !.timer = timer]
<1>5. grid \in GridData /\ grid.state = st /\ (grid.loaded <=> grids[g].loaded)
  BY <1>1, <1>4 DEF GridData
<1>6. /\ grids' = [grids EXCEPT ![g] = grid]
      /\ grid.loaded <=> IsGridLoaded(g)
      /\ grid.state # "none"
      /\ player # NoCell /\ GridOf(player) = g => grid.state = "active"
  BY <1>4, <1>5 DEF IsGridLoaded
<1>7. at' \in Places /\ \A u \in Units : at'[u] = at[u]
  BY <1>1, <1>3
<1> HIDE DEF grid
<1> QED
  BY <1>3, <1>5, <1>6, <1>7, GridChanges

\* The steps that leave the map as it is.
LEMMA IdleKeeps ==
    ASSUME Core, UNCHANGED <<grids, at, active, overlooked>>, player' = player \/ player' = NoCell
    PROVE  Core'
<1>1. at' \in Places /\ overlooked' \subseteq Creatures
  BY DEF Core, CoreType
<1> QED
  BY <1>1, PlacesKeep

-----------------------------------------------------------------------------
(***************************************************************************)
(* CreatureCellRelocation: where it puts the unit, and what else changes.  *)
(***************************************************************************)
LEMMA RelocationPlaces ==
    ASSUME Core, NEW u \in Units, NEW cell \in Cells \cup {NoCell}, cell \in Cells \/ cell = at[u],
           CreatureCellRelocation(u, cell)
    PROVE  /\ at' \in Places
           /\ at'[u] = cell
           /\ \A v \in Units \ {u} : at'[v] = at[v] \/ (at'[v] = home[v] /\ v \in Loads(GridOf(cell)))
           /\ \A h \in Grids : h # GridOf(cell) => grids'[h] = grids[h]
           /\ \/ active' = active
              \/ GridOf(at[u]) # GridOf(cell) /\ active' = active \cup (Loads(GridOf(cell)) \cap Eager)
<1> DEFINE g == GridOf(cell)
<1>1. at \in Places /\ grids \in [Grids -> GridData]
  BY DEF Core, CoreType
<1>2. CASE u \in active /\ GridOf(at[u]) # g
  <2>1. /\ grids' = [grids EXCEPT ![g] = EnsureGridLoadedForActiveObject(g)]
        /\ at' = [Placed(g) EXCEPT ![u] = cell]
        /\ active' = active \cup (Loads(g) \cap Eager)
    BY <1>2 DEF CreatureCellRelocation
  <2>2. \A v \in Units : Placed(g)[v] = IF v \in Loads(g) THEN home[v] ELSE at[v]
    BY DEF Placed
  <2>3. Placed(g) \in Places
    BY <1>1, CellFacts DEF Placed, Places, Loads
  <2>4. at' \in Places /\ at'[u] = cell /\ \A v \in Units \ {u} : at'[v] = Placed(g)[v]
    BY <2>1, <2>3 DEF Places
  <2>5. \A h \in Grids : h # g => grids'[h] = grids[h]
    BY <1>1, <2>1
  <2> QED
    BY <1>2, <2>1, <2>2, <2>4, <2>5
<1>3. CASE ~(u \in active /\ GridOf(at[u]) # g)
  <2>1. at' = [at EXCEPT ![u] = cell] /\ UNCHANGED <<grids, active>>
    BY <1>3 DEF CreatureCellRelocation
  <2>2. at' \in Places /\ at'[u] = cell /\ \A v \in Units \ {u} : at'[v] = at[v]
    BY <1>1, <2>1 DEF Places
  <2> QED
    BY <2>1, <2>2
<1> QED
  BY <1>2, <1>3

\* A unit that can enter takes its place in a grid that exists.
LEMMA RelocationKeeps ==
    ASSUME Core, NEW u \in Units, NEW cell \in Cells \cup {NoCell}, cell \in Cells \/ cell = at[u],
           CanEnter(u, cell), CreatureCellRelocation(u, cell),
           player' = player, overlooked \subseteq overlooked', overlooked' \subseteq Creatures
    PROVE  Core'
<1> DEFINE g == GridOf(cell)
<1>1. at \in Places /\ player \in Cells \cup {NoCell}
  BY DEF Core, CoreType
<1>2. CASE u \in active /\ GridOf(at[u]) # g
  <2>1. cell \in Cells /\ g \in Grids
    BY <1>2, CellFacts
  <2> DEFINE grid == EnsureGridLoadedForActiveObject(g)
  <2>2. grid \in GridData /\ grid.state = "active" /\ grid.loaded
    BY <2>1, LoadedGrid DEF Core
  <2>3. /\ grids' = [grids EXCEPT ![g] = grid]
        /\ at' = [Placed(g) EXCEPT ![u] = cell]
        /\ active' = active \cup (Loads(g) \cap Eager)
    BY <1>2 DEF CreatureCellRelocation
  <2> HIDE DEF grid
  <2>4. player' # NoCell => grids'[GridOf(player')].state = "active" /\ grids'[GridOf(player')].loaded
    BY <2>1, <2>2, <2>3, PlayerStands
  <2>5. \E v \in Units, to \in Cells :
                 /\ at' = [Placed(g) EXCEPT ![v] = to] /\ GridOf(to) = g
                 /\ active' \subseteq active \cup (Loads(g) \cap Eager) \cup {v}
    BY <2>1, <2>3
  <2> HIDE DEF g
  <2> QED
    BY <1>1, <2>1, <2>2, <2>3, <2>4, <2>5, LoadedStep
<1>3. CASE ~(u \in active /\ GridOf(at[u]) # g)
  <2>1. at' = [at EXCEPT ![u] = cell] /\ UNCHANGED <<grids, active>>
    BY <1>3 DEF CreatureCellRelocation
  <2>2. at' \in Places /\ at'[u] = cell /\ \A v \in Units \ {u} : at'[v] = at[v]
    BY <1>1, <2>1 DEF Places
  <2>3. cell # at[u] => cell \in Cells /\ g \in Grids /\ Exists(g)
    <3> SUFFICES ASSUME cell # at[u] PROVE cell \in Cells /\ g \in Grids /\ Exists(g)
      OBVIOUS
    <3>1. cell \in Cells /\ g \in Grids
      BY CellFacts
    <3>2. CASE GridOf(at[u]) = g
      <4>1. InMap(u)
        BY <3>1, <3>2, CellFacts DEF InMap
      <4> QED
        BY <3>1, <3>2, <4>1 DEF Core, Standing
    <3>3. CASE IsGridLoaded(g)
      BY <3>1, <3>3 DEF Core, LoadedExist
    <3> QED
      BY <1>3, <3>1, <3>2, <3>3 DEF CanEnter
  <2>4. \A v \in Units : at'[v] # at[v] /\ at'[v] # NoCell => Exists(GridOf(at'[v]))
    BY <2>2, <2>3
  <2>5. \A v \in Units : at'[v] = NoCell => at[v] = NoCell
    BY <2>2, <2>3, CellFacts
  <2> QED
    BY <2>1, <2>2, <2>4, <2>5, PlacesKeep
<1> QED
  BY <1>2, <1>3

\* The place of its move, and where it respawns, are cells or where it stands.
LEMMA Destinations ==
    ASSUME IInv, NEW u \in Movers
    PROVE  /\ u \in Units
           /\ moving[u] \in Cells
           /\ GetRespawnPosition(u) \in Cells \cup {NoCell}
           /\ GetRespawnPosition(u) \in Cells \/ GetRespawnPosition(u) = at[u]
<1>1. u \in Units /\ moving[u] # NoCell /\ moving \in Places /\ at \in Places
  BY DEF Movers, IInv, Phase, PhaseType, Core, CoreType
<1>2. moving[u] \in Cells /\ at[u] \in Cells \cup {NoCell}
  BY <1>1 DEF Places
<1> QED
  BY <1>1, <1>2, CellFacts DEF GetRespawnPosition

\* A move puts the unit somewhere, or removes one that is neither active nor missed.
LEMMA MoveOutcome ==
    ASSUME IInv, NEW u \in Units, Move(u)
    PROVE  \/ \E cell \in Cells \cup {NoCell} :
                 (cell \in Cells \/ cell = at[u]) /\ CanEnter(u, cell) /\ CreatureCellRelocation(u, cell)
           \/ /\ at' = [at EXCEPT ![u] = NoCell] /\ UNCHANGED <<grids, active>>
              /\ u \notin active /\ (u \in Creatures => ~IsGridLoaded(GridOf(home[u])))
<1>1. u \in Movers
  BY DEF Move
<1>2. CASE CanEnter(u, moving[u]) /\ CreatureCellRelocation(u, moving[u])
  BY <1>1, <1>2, Destinations
<1>3. CASE CanEnter(u, GetRespawnPosition(u)) /\ CreatureCellRelocation(u, GetRespawnPosition(u))
  BY <1>1, <1>3, Destinations
<1>4. CASE ~CanEnter(u, moving[u]) /\ ~CanEnter(u, GetRespawnPosition(u)) /\ RemoveUnit(u)
  BY <1>4 DEF RemoveUnit, CanEnter, GetRespawnPosition
<1> QED
  BY <1>2, <1>3, <1>4 DEF Move

\* A move that MoveAllCreaturesInMoveList finishes keeps Core.
LEMMA MoveKeeps ==
    ASSUME IInv, NEW u \in Units, Move(u)
    PROVE  Core'
<1>1. player' = player /\ overlooked' = overlooked /\ at \in Places /\ overlooked' \subseteq Creatures
  BY DEF Move, IInv, Core, CoreType
<1>2. CASE \E cell \in Cells \cup {NoCell} :
              (cell \in Cells \/ cell = at[u]) /\ CanEnter(u, cell) /\ CreatureCellRelocation(u, cell)
  BY <1>1, <1>2, RelocationKeeps DEF IInv
<1>3. CASE /\ at' = [at EXCEPT ![u] = NoCell] /\ UNCHANGED <<grids, active>>
           /\ u \notin active /\ (u \in Creatures => ~IsGridLoaded(GridOf(home[u])))
  <2>1. at' \in Places /\ at'[u] = NoCell /\ \A v \in Units \ {u} : at'[v] = at[v]
    BY <1>1, <1>3 DEF Places
  <2> QED
    BY <1>1, <1>3, <2>1, PlacesKeep DEF IInv
<1> QED
  BY <1>2, <1>3, MoveOutcome

\* What the moves bring into the grid while it is unloaded is recorded in late; nothing has been visited yet.
LEMMA MovePhase ==
    ASSUME IInv, NEW u \in Units, Move(u)
    PROVE  Phase'
<1>1. /\ player' = player /\ todo' = todo /\ unloading' = unloading /\ visited' = visited /\ u \in Movers
      /\ moving' = [moving EXCEPT ![u] = NoCell] /\ late' = late \cup Brings(u)
      /\ at \in Places /\ moving \in Places
  BY DEF Move, IInv, Core, CoreType, Phase, PhaseType
<1>2. visited = {}
  BY <1>1 DEF IInv, Phase, VisitedInv
<1>3. PhaseType'
  BY <1>1 DEF IInv, Phase, PhaseType, Places
<1>4. PlayerAway' /\ VisitedInv'
  BY <1>1, <1>2 DEF IInv, Phase, PlayerAway, VisitedInv, GridOf
<1>5. BroughtLate'
  <2> SUFFICES ASSUME unloading # Out, NEW v \in active' \cup Pets, GridOf(at'[v]) = unloading
               PROVE  v \in late'
    BY <1>1 DEF BroughtLate, GridOf
  <2>1. unloading \in Grids /\ \A w \in active \cup Pets : GridOf(at[w]) = unloading => w \in late
    BY DEF IInv, Phase, PhaseType, BroughtLate
  <2>2. CASE /\ at' = [at EXCEPT ![u] = NoCell] /\ UNCHANGED <<grids, active>>
             /\ u \notin active /\ (u \in Creatures => ~IsGridLoaded(GridOf(home[u])))
    <3>1. at'[u] = NoCell /\ \A w \in Units \ {u} : at'[w] = at[w]
      BY <1>1, <2>2 DEF Places
    <3>2. v \in Units
      BY <2>2 DEF IInv, Core, CoreType, Units
    <3>3. v # u
      BY <2>1, <3>1, CellFacts
    <3> QED
      BY <1>1, <2>1, <2>2, <3>1, <3>2, <3>3
  <2>3. CASE \E cell \in Cells \cup {NoCell} :
              (cell \in Cells \/ cell = at[u]) /\ CanEnter(u, cell) /\ CreatureCellRelocation(u, cell)
    <3>1. PICK cell \in Cells \cup {NoCell} :
              (cell \in Cells \/ cell = at[u]) /\ CanEnter(u, cell) /\ CreatureCellRelocation(u, cell)
      BY <2>3
    <3>2. /\ at'[u] = cell
          /\ \A w \in Units \ {u} : at'[w] = at[w] \/ (at'[w] = home[w] /\ w \in Loads(GridOf(cell)))
          /\ \/ active' = active
             \/ GridOf(at[u]) # GridOf(cell) /\ active' = active \cup (Loads(GridOf(cell)) \cap Eager)
      BY <3>1, RelocationPlaces DEF IInv
    <3>3. GridOf(at[u]) # unloading /\ GridOf(cell) = unloading
            => u \in late' /\ Loads(unloading) \cap Eager \subseteq late'
      BY <1>1, <3>2 DEF Brings
    <3>4. \A w \in Loads(GridOf(cell)) : w \in Creatures /\ GridOf(home[w]) = GridOf(cell) /\ at[w] = NoCell
      BY DEF Loads, InMap
    <3>5. v \in Units /\ (v \in Pets => v \notin Creatures)
      BY <3>2, <3>4, GridAssumption DEF IInv, Core, CoreType, Units
    <3>6. CASE v \in active \cup Pets /\ at'[v] = at[v]
      BY <1>1, <2>1, <3>6
    <3>7. CASE v = u /\ at'[v] # at[v]
      <4>1. CASE GridOf(at[u]) = unloading
        <5>1. v \in active \cup Pets
          BY <2>1, <3>2, <3>4, <3>7, <4>1, CellFacts
        <5> QED
          BY <1>1, <2>1, <3>7, <4>1, <5>1
      <4>2. CASE GridOf(at[u]) # unloading
        BY <3>2, <3>3, <3>7, <4>2
      <4> QED
        BY <4>1, <4>2
    <3>8. CASE v \in Loads(GridOf(cell)) /\ at'[v] = home[v] /\ v # u
      <4>1. GridOf(cell) = unloading /\ v \notin Pets
        BY <3>4, <3>5, <3>8
      <4>2. v \notin active
        BY <3>4, <3>8 DEF IInv, Core, Standing, InMap
      <4> QED
        BY <3>2, <3>3, <3>8, <4>1, <4>2
    <3>9. CASE v \notin active \cup Pets /\ at'[v] = at[v]
      <4>1. v \in Loads(GridOf(cell))
        BY <3>2, <3>9
      <4> QED
        BY <2>1, <3>4, <3>9, <4>1, CellFacts
    <3> QED
      BY <3>2, <3>5, <3>6, <3>7, <3>8, <3>9
  <2> QED
    BY <2>2, <2>3, MoveOutcome
<1> QED
  BY <1>3, <1>4, <1>5 DEF Phase

-----------------------------------------------------------------------------
(***************************************************************************)
(* Unloading.  The evacuator sends a creature home to another grid that it *)
(* can enter; of those it has left, none spawns in a loaded grid.          *)
(***************************************************************************)
LEMMA EvacuateFacts ==
    ASSUME IInv, NEW c \in Creatures, Evacuate(c)
    PROVE  /\ unloading \in Grids /\ c \in Units /\ home[c] \in Cells
           /\ Movers = {} /\ c \notin visited /\ GridOf(at[c]) = unloading
           /\ visited' = visited \cup {c} /\ moving' = moving
           /\ player' = player /\ todo' = todo /\ unloading' = unloading /\ late' = late
           /\ overlooked \subseteq overlooked' /\ overlooked' \subseteq Creatures
           /\ at \in Places
           /\ \/ /\ GridOf(home[c]) # unloading /\ CanEnter(c, home[c]) /\ CreatureCellRelocation(c, home[c])
                 /\ overlooked' = overlooked \cup PassedOver(GridOf(home[c]))
              \/ /\ GridOf(home[c]) = unloading \/ ~CanEnter(c, home[c])
                 /\ UNCHANGED <<grids, at, active, overlooked>>
<1>1. unloading \in Grids /\ at \in Places /\ overlooked \subseteq Creatures /\ visited \subseteq Creatures
  BY DEF Evacuate, IInv, Phase, PhaseType, Core, CoreType
<1>2. PassedOver(GridOf(home[c])) \subseteq Creatures
  BY <1>1 DEF PassedOver
<1> QED
  BY <1>1, <1>2, CellFacts DEF Evacuate, Evacuated

\* The evacuator keeps Core, for it is CreatureCellRelocation that moves the creature.
LEMMA EvacuateKeeps ==
    ASSUME IInv, NEW c \in Creatures, Evacuate(c)
    PROVE  Core'
<1>1. CASE GridOf(home[c]) # unloading /\ CanEnter(c, home[c]) /\ CreatureCellRelocation(c, home[c])
  BY <1>1, EvacuateFacts, RelocationKeeps DEF IInv
<1>2. CASE UNCHANGED <<grids, at, active, overlooked>>
  BY <1>2, EvacuateFacts, IdleKeeps DEF IInv
<1> QED
  BY <1>1, <1>2, EvacuateFacts

\* A creature that is left in the grid does not spawn in a loaded one, or it is overlooked.
LEMMA EvacuatePhase ==
    ASSUME IInv, NEW c \in Creatures, Evacuate(c)
    PROVE  Phase'
<1> DEFINE h == GridOf(home[c])
<1>1. /\ unloading \in Grids /\ c \in Units /\ home[c] \in Cells /\ h \in Grids
      /\ Movers = {} /\ c \notin visited /\ GridOf(at[c]) = unloading
      /\ visited' = visited \cup {c} /\ moving' = moving
      /\ player' = player /\ todo' = todo /\ unloading' = unloading /\ late' = late
      /\ overlooked \subseteq overlooked' /\ at \in Places
  BY EvacuateFacts, CellFacts
<1>2. unloading # Out /\ Movers' = {} /\ unloading' # Out
  BY <1>1, CellFacts DEF Movers
<1>3. PhaseType'
  BY <1>1 DEF IInv, Phase, PhaseType
<1>4. PlayerAway'
  BY <1>1 DEF IInv, Phase, PlayerAway, GridOf
<1>5. \A w \in active \cup Pets : GridOf(at[w]) = unloading => w \in late
  BY <1>2 DEF IInv, Phase, BroughtLate
<1>6. \A d \in visited \ overlooked :
           GridOf(at[d]) = unloading /\ GridOf(home[d]) # unloading => ~IsGridLoaded(GridOf(home[d]))
  BY DEF IInv, Phase, VisitedInv
<1>7. visited \subseteq Creatures
  BY DEF IInv, Phase, PhaseType
<1>8. CASE /\ h = unloading \/ ~CanEnter(c, home[c])
           /\ UNCHANGED <<grids, at, active, overlooked>>
  <2>1. BroughtLate'
    BY <1>1, <1>5, <1>8 DEF BroughtLate, GridOf
  <2>2. h # unloading => ~IsGridLoaded(h)
    BY <1>1, <1>8 DEF CanEnter
  <2>3. \A d \in visited' \ overlooked' :
           GridOf(at'[d]) = unloading /\ GridOf(home[d]) # unloading => ~grids'[GridOf(home[d])].loaded
    BY <1>1, <1>6, <1>8, <2>2 DEF IsGridLoaded
  <2>4. VisitedInv'
    BY <1>1, <1>2, <2>3 DEF VisitedInv, IsGridLoaded, GridOf
  <2> QED
    BY <1>3, <1>4, <2>1, <2>4 DEF Phase
<1>9. CASE /\ h # unloading /\ CanEnter(c, home[c]) /\ CreatureCellRelocation(c, home[c])
           /\ overlooked' = overlooked \cup PassedOver(h)
  <2>1. /\ at' \in Places
        /\ at'[c] = home[c]
        /\ \A v \in Units \ {c} : at'[v] = at[v] \/ (at'[v] = home[v] /\ v \in Loads(h))
        /\ \A k \in Grids : k # h => grids'[k] = grids[k]
        /\ active' \subseteq active \cup (Loads(h) \cap Eager)
    <3>1. home[c] \in Cells \cup {NoCell} /\ Core
      BY <1>1 DEF IInv
    <3> QED
      BY <1>1, <1>9, <3>1, RelocationPlaces
  <2>2. \A v \in Loads(h) : v \in Units /\ GridOf(home[v]) = h /\ at[v] = NoCell
    BY CellFacts DEF Loads, InMap
  <2>3. \A v \in Units : GridOf(at'[v]) = unloading => at'[v] = at[v] /\ v # c /\ v \notin Loads(h)
    <3> SUFFICES ASSUME NEW v \in Units, GridOf(at'[v]) = unloading
                 PROVE  at'[v] = at[v] /\ v # c /\ v \notin Loads(h)
      OBVIOUS
    <3>1. v # c
      BY <1>9, <2>1
    <3>2. at'[v] = at[v]
      BY <1>9, <2>1, <2>2, <3>1
    <3> QED
      BY <1>2, <2>2, <3>1, <3>2, CellFacts
  <2>4. BroughtLate'
    <3> SUFFICES ASSUME NEW v \in active' \cup Pets, GridOf(at'[v]) = unloading PROVE v \in late
      BY <1>1 DEF BroughtLate, GridOf
    <3>1. v \in Units
      BY <2>1, <2>2 DEF IInv, Core, CoreType, Units
    <3> QED
      BY <1>5, <2>1, <2>3, <3>1
  <2>5. ASSUME NEW d \in visited' \ overlooked', GridOf(at'[d]) = unloading, GridOf(home[d]) # unloading
        PROVE  ~grids'[GridOf(home[d])].loaded
    <3>1. d \in Creatures /\ d \in Units /\ GridOf(home[d]) \in Grids
      BY <1>1, <1>7, CellFacts
    <3>2. d # c /\ at'[d] = at[d] /\ d \in visited \ overlooked
      BY <1>1, <2>3, <2>5, <3>1
    <3>3. ~IsGridLoaded(GridOf(home[d]))
      BY <1>6, <2>5, <3>2
    <3>4. GridOf(home[d]) # h
      BY <1>9, <2>5, <3>2, <3>3 DEF PassedOver
    <3> QED
      BY <2>1, <3>1, <3>3, <3>4 DEF IsGridLoaded
  <2>6. VisitedInv'
    BY <1>1, <1>2, <2>5 DEF VisitedInv, IsGridLoaded, GridOf
  <2> QED
    BY <1>3, <1>4, <2>4, <2>6 DEF Phase
<1> QED
  BY <1>8, <1>9, EvacuateFacts

\* UnloadGrid begins: the player is not in the grid, nor a pet or an active object, for they would be near.
LEMMA UnloadPhase ==
    ASSUME IInv, NEW g \in Grids, UnloadGrid(g)
    PROVE  Phase'
<1>1. /\ g \in todo /\ unloading = Out /\ unloading' = g /\ ~CannotUnload(g)
      /\ UNCHANGED <<grids, player, at, active, moving, todo, visited, late, overlooked>>
  BY DEF UnloadGrid
<1>2. visited = {}
  BY <1>1 DEF IInv, Phase, VisitedInv
<1>3. PhaseType'
  BY <1>1 DEF IInv, Phase, PhaseType
<1>4. player # NoCell => GridOf(player) # g
  <2>1. player \in Cells \cup {NoCell}
    BY DEF IInv, Core, CoreType
  <2> QED
    BY <1>1, <2>1, InsideIsNear DEF CannotUnload, ActiveObjectsNearGrid
<1>5. \A u \in active \cup Pets : GridOf(at[u]) # g
  <2>1. \A u \in active : at[u] \in Cells
    BY DEF IInv, Core, CoreType, Standing, InMap, Places
  <2>2. \A u \in active : GridOf(at[u]) # g
    BY <1>1, <2>1, InsideIsNear DEF CannotUnload, ActiveObjectsNearGrid
  <2> QED
    BY <1>1, <2>2 DEF CannotUnload
<1>6. PlayerAway'
  BY <1>1, <1>4 DEF PlayerAway, GridOf
<1>7. BroughtLate'
  BY <1>1, <1>5 DEF BroughtLate, GridOf
<1>8. VisitedInv'
  BY <1>1, <1>2 DEF VisitedInv
<1> QED
  BY <1>3, <1>6, <1>7, <1>8 DEF Phase

\* The grid is deleted with what is in it.
LEMMA DeleteKeeps ==
    ASSUME IInv, DeleteGrid
    PROVE  Core'
<1> DEFINE g == unloading
           gone == {u \in Units : GridOf(at[u]) = g}
<1>1. /\ grids \in [Grids -> GridData] /\ at \in Places /\ player \in Cells \cup {NoCell}
      /\ active \subseteq Units /\ overlooked \subseteq Creatures
  BY DEF IInv, Core, CoreType
<1>2. g \in Grids /\ g # Out
  BY DEF IInv, Phase, PhaseType, DeleteGrid
<1>3. /\ grids' = [grids EXCEPT ![g] = NoGrid]
      /\ at' = [u \in Units |-> IF u \in gone THEN NoCell ELSE at[u]]
      /\ active' = active \ gone
      /\ overlooked' = {c \in overlooked : GridOf(home[c]) # g}
      /\ player' = player
      /\ gone \cap Creatures \subseteq visited
  BY DEF DeleteGrid
<1>4. NoGrid \in GridData /\ NoGrid.state = "none" /\ ~NoGrid.loaded
  BY DEF NoGrid, GridData
<1>5. grids' \in [Grids -> GridData] /\ grids'[g] = NoGrid /\ \A h \in Grids \ {g} : grids'[h] = grids[h]
  BY <1>1, <1>2, <1>3, <1>4
<1>6. at' \in Places /\ \A u \in Units : at'[u] = IF GridOf(at[u]) = g THEN NoCell ELSE at[u]
  BY <1>1, <1>3 DEF Places
<1>7. CoreType'
  BY <1>1, <1>3, <1>5, <1>6 DEF CoreType
<1>8. LoadedExist'
  BY <1>4, <1>5 DEF IInv, Core, LoadedExist, IsGridLoaded, Exists
<1>9. player # NoCell => GridOf(player) \in Grids \ {g}
  BY <1>1, <1>2, CellFacts DEF IInv, Phase, PlayerAway
<1>10. player' # NoCell => grids'[GridOf(player')].loaded /\ grids'[GridOf(player')].state = "active"
  BY <1>3, <1>5, <1>9 DEF IInv, Core, Standing, IsGridLoaded
<1>11. ASSUME NEW u \in Units, at'[u] # NoCell PROVE grids'[GridOf(at'[u])].state # "none"
  <2>1. at'[u] = at[u] /\ GridOf(at[u]) # g
    BY <1>6, <1>11
  <2>2. GridOf(at[u]) \in Grids /\ Exists(GridOf(at[u]))
    BY <1>1, <1>11, <2>1, CellFacts DEF IInv, Core, Standing, InMap, Places
  <2> QED
    BY <1>5, <2>1, <2>2 DEF Exists
<1>12. \A u \in active' : at'[u] # NoCell
  <2>1. \A u \in active : u \in Units /\ at[u] # NoCell
    BY <1>1 DEF IInv, Core, Standing, InMap
  <2> QED
    BY <1>3, <1>6, <2>1
<1>13. Standing'
  BY <1>10, <1>11, <1>12 DEF Standing, IsGridLoaded, Exists, InMap, GridOf
<1>14. ASSUME NEW c \in Creatures \ overlooked', grids'[GridOf(home[c])].loaded
       PROVE  at'[c] # NoCell
  <2>1. GridOf(home[c]) \in Grids /\ c \in Units
    BY CellFacts
  <2>2. GridOf(home[c]) # g /\ IsGridLoaded(GridOf(home[c]))
    BY <1>4, <1>5, <1>14, <2>1 DEF IsGridLoaded
  <2>3. c \notin overlooked
    BY <1>3, <2>2
  <2>4. at[c] # NoCell
    BY <2>2, <2>3 DEF IInv, Core, SpawnsPresent, InMap
  <2>5. GridOf(at[c]) # g
    <3> SUFFICES ASSUME GridOf(at[c]) = g PROVE FALSE
      OBVIOUS
    <3>1. c \in visited
      BY <1>3, <2>1
    <3> QED
      BY <2>2, <2>3, <3>1 DEF IInv, Phase, VisitedInv
  <2> QED
    BY <1>6, <2>1, <2>4, <2>5
<1>15. SpawnsPresent'
  BY <1>14 DEF SpawnsPresent, IsGridLoaded, InMap, GridOf
<1> QED
  BY <1>7, <1>8, <1>13, <1>15 DEF Core

\* With the deletion UnloadGrid is over.
LEMMA DeletePhase ==
    ASSUME IInv, DeleteGrid
    PROVE  Phase'
<1>1. unloading' = Out /\ visited' = {} /\ moving' = moving /\ todo' \subseteq todo
  BY DEF DeleteGrid
<1>2. PhaseType'
  BY <1>1 DEF IInv, Phase, PhaseType
<1> QED
  BY <1>1, <1>2 DEF Phase, PlayerAway, BroughtLate, VisitedInv

\* Outside UnloadGrid there is nothing to keep.
LEMMA NoPhase ==
    ASSUME IInv, unloading = Out, UNCHANGED <<unloading, visited>>, moving' \in Places, todo' \subseteq Grids
    PROVE  Phase'
<1>1. visited = {}
  BY DEF IInv, Phase, VisitedInv
<1>2. PhaseType'
  BY <1>1 DEF IInv, Phase, PhaseType
<1> QED
  BY <1>1, <1>2 DEF Phase, PlayerAway, BroughtLate, VisitedInv

-----------------------------------------------------------------------------
\* The initial states satisfy IInv.
LEMMA Initially == Init => IInv
<1> SUFFICES ASSUME Init PROVE IInv
  OBVIOUS
<1>1. NoGrid \in GridData /\ NoGrid.state = "none" /\ ~NoGrid.loaded
  BY DEF NoGrid, GridData
<1>2. \A g \in Grids : grids[g] = NoGrid
  BY DEF Init
<1>3. CoreType /\ PhaseType
  BY <1>1 DEF Init, CoreType, PhaseType, Places
<1>4. LoadedExist
  BY <1>1, <1>2 DEF LoadedExist, IsGridLoaded
<1>5. Standing
  BY DEF Init, Standing, InMap
<1>6. SpawnsPresent
  BY <1>1, <1>2, CellFacts DEF SpawnsPresent, IsGridLoaded
<1>7. PlayerAway /\ BroughtLate /\ VisitedInv
  BY DEF Init, PlayerAway, BroughtLate, VisitedInv
<1> QED
  BY <1>3, <1>4, <1>5, <1>6, <1>7 DEF IInv, Core, Phase

\* What begins outside DelayedUpdate finds no grid being unloaded.
LEMMA OpenPhase ==
    ASSUME IInv, todo = {}, UNCHANGED <<unloading, visited>>, moving' \in Places, todo' \subseteq Grids
    PROVE  Phase'
<1>1. unloading = Out
  BY DEF IInv, Phase, PhaseType
<1> QED
  BY <1>1, NoPhase

\* Every step keeps IInv.
LEMMA Invariance == IInv /\ [Next]_vars => IInv'
<1> SUFFICES ASSUME IInv, [Next]_vars PROVE IInv'
  OBVIOUS
<1>1. moving \in Places /\ todo \subseteq Grids /\ Core /\ Phase /\ at \in Places
  BY DEF IInv, Phase, PhaseType, Core, CoreType
<1>2. ASSUME NEW g \in Grids, LoadGrid(g) \/ CreateGrid(g) PROVE IInv'
  <2>1. CASE LoadGrid(g)
    <3>1. Core'
      BY <1>1, <2>1, LoadKeeps
    <3>2. Phase'
      BY <1>1, <2>1, OpenPhase DEF LoadGrid, Open, unload
    <3> QED
      BY <3>1, <3>2 DEF IInv
  <2>2. CASE CreateGrid(g)
    <3>1. Core'
      <4>1. at' \in Places /\ (\A u \in Units : at'[u] = at[u]) /\ UNCHANGED <<player, active, overlooked>>
        BY <1>1, <2>2 DEF CreateGrid, unload
      <4>2. grids' = [grids EXCEPT ![g] = EnsureGridCreated(g)]
        BY <2>2 DEF CreateGrid
      <4> QED
        BY <1>1, <4>1, <4>2, CreateKeeps
    <3>2. Phase'
      BY <1>1, <2>2, OpenPhase DEF CreateGrid, unload
    <3> QED
      BY <3>1, <3>2 DEF IInv
  <2> QED
    BY <1>2, <2>1, <2>2
<1>3. ASSUME NEW u \in Summons \cup Pets, NEW cell \in Cells, AddToMap(u, cell) PROVE IInv'
  <2>1. Core'
    BY <1>1, <1>3, AddKeeps
  <2>2. Phase'
    BY <1>1, <1>3, OpenPhase DEF AddToMap, Open, unload
  <2> QED
    BY <2>1, <2>2 DEF IInv
<1>4. ASSUME NEW cell \in Cells, PlayerTo(cell) PROVE IInv'
  <2>1. Core'
    BY <1>1, <1>4, PlayerKeeps
  <2>2. Phase'
    BY <1>1, <1>4, OpenPhase DEF PlayerTo, Open, unload
  <2> QED
    BY <2>1, <2>2 DEF IInv
<1>5. CASE RemovePlayerFromMap \/ MoveAllCreaturesInMoveList \/ DelayedUpdate
  <2>1. Core'
    BY <1>1, <1>5, IdleKeeps DEF RemovePlayerFromMap, MoveAllCreaturesInMoveList, DelayedUpdate, unload
  <2>2. Phase'
    BY <1>1, <1>5, OpenPhase DEF RemovePlayerFromMap, MoveAllCreaturesInMoveList, DelayedUpdate, Open, unload
  <2> QED
    BY <2>1, <2>2 DEF IInv
<1>6. ASSUME NEW u \in Units, NEW cell \in Cells, CreatureRelocation(u, cell) PROVE IInv'
  <2>1. Core'
    BY <1>1, <1>6, IdleKeeps DEF CreatureRelocation, unload
  <2>2. moving' \in Places
    BY <1>1, <1>6 DEF CreatureRelocation, Places
  <2>3. Phase'
    BY <1>1, <1>6, <2>2, OpenPhase DEF CreatureRelocation, Open, unload
  <2> QED
    BY <2>1, <2>3 DEF IInv
<1>7. ASSUME NEW u \in Units, SetActive(u) \/ SetInactive(u) PROVE IInv'
  <2>1. Core'
    BY <1>1, <1>7, ActivityKeeps
  <2>2. Phase'
    BY <1>1, <1>7, OpenPhase DEF SetActive, SetInactive, Open, unload
  <2> QED
    BY <2>1, <2>2 DEF IInv
<1>8. ASSUME NEW g \in Grids, Update(g) PROVE IInv'
  <2>1. CASE ActiveStateUpdate(g) \/ IdleStateUpdate(g) \/ RemovalStateUpdate(g)
    <3>1. Core'
      BY <1>1, <2>1, StateUpdateKeeps
    <3>2. unloading = Out /\ UNCHANGED <<unloading, visited, moving>> /\ todo' \subseteq todo
      BY <2>1 DEF ActiveStateUpdate, IdleStateUpdate, RemovalStateUpdate, Updated
    <3>3. Phase'
      BY <1>1, <3>2, NoPhase
    <3> QED
      BY <3>1, <3>3 DEF IInv
  <2>2. CASE UnloadGrid(g)
    <3>1. Core'
      BY <1>1, <2>2, IdleKeeps DEF UnloadGrid
    <3> QED
      BY <2>2, <3>1, UnloadPhase DEF IInv
  <2> QED
    BY <1>8, <2>1, <2>2 DEF Update
<1>9. ASSUME NEW u \in Units, Move(u) PROVE IInv'
  BY <1>9, MoveKeeps, MovePhase DEF IInv
<1>10. ASSUME NEW c \in Creatures, Evacuate(c) PROVE IInv'
  BY <1>10, EvacuateKeeps, EvacuatePhase DEF IInv
<1>11. CASE DeleteGrid
  BY <1>11, DeleteKeeps, DeletePhase DEF IInv
<1>12. CASE UNCHANGED vars
  <2>1. Core'
    BY <1>1, <1>12, IdleKeeps DEF vars
  <2>2. Phase'
    BY <1>12 DEF vars, IInv, Phase, PhaseType, PlayerAway, BroughtLate, VisitedInv, Movers, IsGridLoaded, GridOf
  <2> QED
    BY <2>1, <2>2 DEF IInv
<1> QED
  BY <1>2, <1>3, <1>4, <1>5, <1>6, <1>7, <1>8, <1>9, <1>10, <1>11, <1>12 DEF Next, Continue

\* IInv holds in every reachable state.
LEMMA Inductive == Spec => []IInv
<1> QED
  BY Initially, Invariance, PTL DEF Spec

(***************************************************************************)
(* For every map, nothing stands in a grid that was deleted (UnloadGrid),  *)
(* the list of active objects has none that is not in the map, and what an *)
(* UnloadGrid would leave behind is only what the moves it finishes after  *)
(* its checks have brought into the grid.                                  *)
(***************************************************************************)
THEOREM NothingLeftBehindCorrect == Spec => []NothingLeftBehind
<1>1. IInv => NothingLeftBehind
  BY DEF IInv, Core, Standing, Phase, BroughtLate, NothingLeftBehind
<1> QED
  BY Inductive, <1>1, PTL

(***************************************************************************)
(* For every map, a loaded grid misses none of its spawns, wherever they   *)
(* were when other grids were unloaded (ObjectGridEvacuator), but for      *)
(* those the evacuator had passed when it loaded the grid for another.     *)
(***************************************************************************)
THEOREM SpawnsCorrect == Spec => []SpawnsPresent
<1>1. IInv => SpawnsPresent
  BY DEF IInv, Core
<1> QED
  BY Inductive, <1>1, PTL

=============================================================================
