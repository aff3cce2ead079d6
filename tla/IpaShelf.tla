------------------------------ MODULE IpaShelf ------------------------------
(***************************************************************************)
(* What the library promises those who install from it, without locks,     *)
(* files, handlers or tables: a shelf on which each app has one content.   *)
(* A job is lent an app, takes a copy of what is on the shelf, and says    *)
(* that it installed it. What is lent stays where it is and as it is until *)
(* the job ends.                                                           *)
(***************************************************************************)

CONSTANTS Apps, Jobs, Contents, None

VARIABLES
    shelf,     \* [Apps -> content], None for an app that is not in the library
    stage,     \* of a job: "new", "running" or "over"
    lent,      \* the app that a running job installs
    copy,      \* what it has copied
    delivered  \* it has told that the copy is on the device

shelfVars == <<shelf, stage, lent, copy, delivered>>

ShelfInit ==
    /\ shelf = [a \in Apps |-> None]
    /\ stage = [j \in Jobs |-> "new"]
    /\ lent = [j \in Jobs |-> None]
    /\ copy = [j \in Jobs |-> None]
    /\ delivered = [j \in Jobs |-> FALSE]

-----------------------------------------------------------------------------
(* The shelf *)

Lent(a) == \E j \in Jobs : lent[j] = a

\* No content is there twice.
Free(a, c) == \A b \in Apps \ {a} : shelf[b] # c

\* An app comes, comes back, or is exchanged.
Put(a, c) ==
    /\ ~Lent(a) /\ Free(a, c)
    /\ shelf' = [shelf EXCEPT ![a] = c]
    /\ UNCHANGED <<stage, lent, copy, delivered>>

TakeAway(a) ==
    /\ ~Lent(a)
    /\ shelf' = [shelf EXCEPT ![a] = None]
    /\ UNCHANGED <<stage, lent, copy, delivered>>

-----------------------------------------------------------------------------
(* The jobs *)

Lend(j, a) ==
    /\ stage[j] = "new" /\ shelf[a] # None
    /\ stage' = [stage EXCEPT ![j] = "running"]
    /\ lent' = [lent EXCEPT ![j] = a]
    /\ UNCHANGED <<shelf, copy, delivered>>

Copy(j) ==
    /\ stage[j] = "running" /\ copy[j] = None
    /\ copy' = [copy EXCEPT ![j] = shelf[lent[j]]]
    /\ UNCHANGED <<shelf, stage, lent, delivered>>

Deliver(j) ==
    /\ stage[j] = "running" /\ copy[j] # None
    /\ delivered' = [delivered EXCEPT ![j] = TRUE]
    /\ UNCHANGED <<shelf, stage, lent, copy>>

\* One job ends, or all do with the process.
End(ending) ==
    /\ \A j \in ending : stage[j] = "running"
    /\ stage' = [j \in Jobs |-> IF j \in ending THEN "over" ELSE stage[j]]
    /\ lent' = [j \in Jobs |-> IF j \in ending THEN None ELSE lent[j]]
    /\ copy' = [j \in Jobs |-> IF j \in ending THEN None ELSE copy[j]]
    /\ UNCHANGED <<shelf, delivered>>

ShelfNext ==
    \/ \E a \in Apps, c \in Contents : Put(a, c)
    \/ \E a \in Apps : TakeAway(a)
    \/ \E j \in Jobs, a \in Apps : Lend(j, a)
    \/ \E j \in Jobs : Copy(j) \/ Deliver(j)
    \/ \E ending \in SUBSET Jobs : End(ending)

ShelfSpec == ShelfInit /\ [][ShelfNext]_shelfVars

-----------------------------------------------------------------------------
(* What follows from the promise *)

\* A copy is what the shelf holds, and only who runs has one; the shelf holds
\* what is lent, and no content twice.
CopiesAreTrue ==
    /\ \A j \in Jobs : stage[j] = "running" => lent[j] \in Apps /\ shelf[lent[j]] # None
    /\ \A j \in Jobs : copy[j] # None => stage[j] = "running" /\ copy[j] = shelf[lent[j]]
    /\ \A a, b \in Apps : a # b /\ shelf[a] # None => shelf[a] # shelf[b]

\* What a job says it installed is what the library shows for its app at that
\* moment, and nothing is said for a job that has ended.
DeliveriesAreTrue ==
    [][\A j \in Jobs :
          delivered'[j] # delivered[j] =>
              /\ delivered'[j] /\ stage[j] = "running"
              /\ copy[j] = shelf[lent[j]] /\ shelf[lent[j]] # None]_shelfVars
=============================================================================
