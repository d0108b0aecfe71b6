------------------------------ MODULE LruCache ------------------------------
(***************************************************************************)
(* What the wave-block cache promises, with no array, no clock, no counter *)
(* and no generation: a partial map from blocks to views bounded by Size,  *)
(* a set of held blocks that eviction may not take, and the relation       *)
(* "was used before" between resident blocks.                              *)
(***************************************************************************)
EXTENDS Naturals, FiniteSets

CONSTANTS BlockId, View, NoView, Size

VARIABLES
  shows,  \* shows[b] is the view cached for b, NoView when b is not resident
  held,   \* the pinned blocks
  older,  \* <<a, b>> \in older: both resident, a was used before b
  reply   \* what the last call returned

vars == <<shows, held, older, reply>>

InCache == {b \in BlockId : shows[b] # NoView}

LruInit ==
  /\ shows = [b \in BlockId |-> NoView]
  /\ held = {}
  /\ older = {}
  /\ reply = "none"

Forget(rel, b) == {p \in rel : p[1] # b /\ p[2] # b}
MostRecent(rel, others, b) == Forget(rel, b) \cup (others \X {b})

(* Of the blocks eviction may take, the one that was used before all the   *)
(* others.                                                                 *)
LeastRecent(b) ==
  /\ b \in InCache \ held
  /\ \A a \in (InCache \ held) \ {b} : <<b, a>> \in older

PutRefresh(b, v) ==
  /\ b \in InCache
  /\ shows' = [shows EXCEPT ![b] = v]
  /\ older' = MostRecent(older, InCache \ {b}, b)
  /\ reply' = "ok"
  /\ UNCHANGED held

PutInto(b, v) ==
  /\ b \notin InCache
  /\ Cardinality(InCache) < Size
  /\ shows' = [shows EXCEPT ![b] = v]
  /\ older' = MostRecent(older, InCache, b)
  /\ reply' = "ok"
  /\ UNCHANGED held

PutReplacing(b, v, old) ==
  /\ b \notin InCache
  /\ Cardinality(InCache) = Size
  /\ LeastRecent(old)
  /\ shows' = [shows EXCEPT ![old] = NoView, ![b] = v]
  /\ older' = MostRecent(Forget(older, old), InCache \ {old}, b)
  /\ reply' = "ok"
  /\ UNCHANGED held

PutRefused(b) ==
  /\ b \notin InCache
  /\ Cardinality(InCache) = Size
  /\ InCache \subseteq held
  /\ reply' = "fail"
  /\ UNCHANGED <<shows, held, older>>

GetHit(b) ==
  /\ b \in InCache
  /\ older' = MostRecent(older, InCache \ {b}, b)
  /\ reply' = shows[b]
  /\ UNCHANGED <<shows, held>>

Missing(b) ==
  /\ b \notin InCache
  /\ reply' = "fail"
  /\ UNCHANGED <<shows, held, older>>

Hold(b) ==
  /\ b \in InCache
  /\ held' = held \cup {b}
  /\ reply' = "ok"
  /\ UNCHANGED <<shows, older>>

Release(b) ==
  /\ b \in InCache
  /\ held' = held \ {b}
  /\ reply' = "ok"
  /\ UNCHANGED <<shows, older>>

Shed(b) ==
  /\ LeastRecent(b)
  /\ shows' = [shows EXCEPT ![b] = NoView]
  /\ older' = Forget(older, b)
  /\ reply' = "ok"
  /\ UNCHANGED held

NothingToShed ==
  /\ InCache \subseteq held
  /\ reply' = "fail"
  /\ UNCHANGED <<shows, held, older>>

Clear ==
  /\ shows' = [b \in BlockId |-> NoView]
  /\ held' = {}
  /\ older' = {}
  /\ reply' = "ok"

LruNext ==
  \/ \E b \in BlockId, v \in View :
       PutRefresh(b, v) \/ PutInto(b, v) \/ \E old \in BlockId : PutReplacing(b, v, old)
  \/ \E b \in BlockId :
       PutRefused(b) \/ GetHit(b) \/ Missing(b) \/ Hold(b) \/ Release(b) \/ Shed(b)
  \/ NothingToShed
  \/ Clear

LruSpec == LruInit /\ [][LruNext]_vars
=============================================================================
