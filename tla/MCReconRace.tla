------------------------------- MODULE MCReconRace ------------------------------
(***************************************************************************)
(* Instances of ReconRace for TLC.                                         *)
(***************************************************************************)
EXTENDS ReconRace, MCReconSignoff, TLC

(* A month after its first sync, with its flux analyses signed.             *)
SyncedInit ==
  /\ BatchInit
  /\ req = [w \in Workers |-> Idle]

(* Every request, two at a time.                                            *)
OverlapSpec == SyncedInit /\ [][RaceNext]_raceVars

Swap == Permutations(Workers)
================================================================================
