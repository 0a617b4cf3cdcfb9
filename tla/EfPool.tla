------------------------------- MODULE EfPool -------------------------------
(***************************************************************************)
(* What the slot pool promises its callers (THREADING.md, section on the   *)
(* free list): a slot is available, held by one caller, or stranded by a   *)
(* push that gave up; it never has two holders.  ef_alloc_slot and         *)
(* ef_free_slot are single steps here.  EfFreeList implements this         *)
(* specification with a compare-and-swap list, one memory access a step.   *)
(***************************************************************************)

CONSTANTS Threads, Slots

VARIABLES avail,     \* slots an allocation may return
          held,      \* the slots each caller holds
          lost       \* slots that are neither, until the database is reopened

poolVars == <<avail, held, lost>>

PoolInit ==
  /\ avail = Slots
  /\ held = [t \in Threads |-> {}]
  /\ lost = {}

(* ef_alloc_slot returned EF_OK with slot s.                               *)
Take(t, s) ==
  /\ s \in avail
  /\ avail' = avail \ {s}
  /\ held' = [held EXCEPT ![t] = @ \cup {s}]
  /\ UNCHANGED lost

(* ef_free_slot put s back.                                                *)
Give(t, s) ==
  /\ s \in held[t]
  /\ held' = [held EXCEPT ![t] = @ \ {s}]
  /\ avail' = avail \cup {s}
  /\ UNCHANGED lost

(* ef_free_slot gave up after its retries, with s already marked FREE.     *)
Strand(t, s) ==
  /\ s \in held[t]
  /\ held' = [held EXCEPT ![t] = @ \ {s}]
  /\ lost' = lost \cup {s}
  /\ UNCHANGED avail

(* Opening the database collects every slot whose status is FREE.          *)
Reclaim ==
  /\ avail' = avail \cup lost
  /\ lost' = {}
  /\ UNCHANGED held

PoolNext ==
  \/ \E t \in Threads, s \in Slots : Take(t, s) \/ Give(t, s) \/ Strand(t, s)
  \/ Reclaim

PoolSpec == PoolInit /\ [][PoolNext]_poolVars
=============================================================================
