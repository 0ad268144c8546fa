----------------------------- MODULE NameSlots -----------------------------
(***************************************************************************)
(* What the engine promises about names, whoever runs under them and in    *)
(* whatever order tasks end: a free name is claimed by a number never used *)
(* before; a name that is held can only become free; the loop then owes    *)
(* one announcement, and does nothing to any name before it is made.       *)
(***************************************************************************)
EXTENDS Naturals

CONSTANTS
  Names,
  Free      (* Nobody: no number.                                          *)

VARIABLES
  holder,   (* The number holding each name, or Free.                      *)
  owed,     (* The number whose end is freed and not yet announced.        *)
  next      (* The numbers from here on were never given to anybody.       *)

slotVars == <<holder, owed, next>>

SlotInit ==
  /\ holder = [n \in Names |-> Free]
  /\ owed = Free
  /\ next = 0

Claim(n) ==
  /\ owed = Free
  /\ holder[n] = Free
  /\ holder' = [holder EXCEPT ![n] = next]
  /\ next' = next + 1
  /\ UNCHANGED owed

Release(n) ==
  /\ owed = Free
  /\ holder[n] # Free
  /\ owed' = holder[n]
  /\ holder' = [holder EXCEPT ![n] = Free]
  /\ UNCHANGED next

Announced ==
  /\ owed # Free
  /\ owed' = Free
  /\ UNCHANGED <<holder, next>>

SlotNext == (\E n \in Names : Claim(n) \/ Release(n)) \/ Announced

SlotSpec == SlotInit /\ [][SlotNext]_slotVars
=============================================================================
