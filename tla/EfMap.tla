------------------------------- MODULE EfMap -------------------------------
(***************************************************************************)
(* What the index of src/src/ef_index.c promises, as a map from keys to    *)
(* slots.  A critical section of the write lock sets or unsets the key it  *)
(* was called for, or empties the map; moving the table to another         *)
(* capacity changes nothing.  Only with EF_ERR_INDEX_FULL may it do        *)
(* damage: a put can take the place of one other key, and a rehash can     *)
(* drop keys.                                                              *)
(***************************************************************************)
CONSTANTS Keys, Slots

VARIABLES map,    \* the slot of each key, 0 for a key that is absent
          last    \* the last section: what it did, its arguments, its result

mapVars == <<map, last>>

Section(call, k, s, e) == [call |-> call, key |-> k, off |-> s, err |-> e]

MapInit ==
  /\ map = [k \in Keys |-> 0]
  /\ last = Section("none", 0, 0, "OK")

Set(k, s) ==
  /\ last' = Section("put", k, s, "OK")
  /\ map' = [map EXCEPT ![k] = s]

SetFails(k, s) ==
  /\ last' = Section("put", k, s, "INDEX_FULL")
  /\ map[k] = 0
  /\ \/ UNCHANGED map
     \/ \E victim \in Keys \ {k} :
          map[victim] # 0 /\ map' = [map EXCEPT ![k] = s, ![victim] = 0]

Unset(k) ==
  /\ last' = Section("remove", k, 0, "OK")
  /\ map[k] # 0
  /\ map' = [map EXCEPT ![k] = 0]

Empties ==
  /\ last' = Section("clear", 0, 0, "OK")
  /\ map' = [k \in Keys |-> 0]

Moves ==
  /\ last' = Section("rehash", 0, 0, "OK")
  /\ UNCHANGED map

MoveFails ==
  /\ last' = Section("rehash", 0, 0, "INDEX_FULL")
  /\ \A k \in Keys : map'[k] \in {map[k], 0}

Refused ==
  /\ last'.call = "none"
  /\ UNCHANGED map

MapNext ==
  \/ Refused
  \/ \E k \in Keys : Unset(k)
  \/ \E k \in Keys, s \in Slots : Set(k, s) \/ SetFails(k, s)
  \/ Empties \/ Moves \/ MoveFails

MapSpec == MapInit /\ [][MapNext]_mapVars
=============================================================================
