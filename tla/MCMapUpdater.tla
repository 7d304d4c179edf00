---------------------------- MODULE MCMapUpdater ----------------------------
(***************************************************************************)
(* Instances of MapUpdater for TLC: two workers, one plain map and one     *)
(* base map with two instances.  QueueCap is 1, so that the activation     *)
(* queue overflows; the real one takes 1024 requests (16 KB of 16-byte     *)
(* requests).                                                              *)
(***************************************************************************)
EXTENDS MapUpdater, TLC

CONSTANTS plain, dungeon, i1, i2

MCBaseMaps  == {plain, dungeon}
MCInstances == {i1, i2}
MCParentOf  == [i \in MCInstances |-> dungeon]
=============================================================================
