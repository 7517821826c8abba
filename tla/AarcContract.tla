--------------------------- MODULE AarcContract ---------------------------
(***************************************************************************)
(* What the AARC ABI promises to generated code (Talac/Headers/Progmasoft/ *)
(* Tala/Runtime/AARC.h and AARC.hpp), without counts, calls or threads: an *)
(* object lives while it has strong references, is destroyed once, and its *)
(* storage outlives every handle to it.                                    *)
(***************************************************************************)
CONSTANTS Objects, Refs, None

VARIABLES life,   \* the life of each object
          hold    \* the reference in each place of the program

cvars == <<life, hold>>

Nothing == [kind |-> "none", obj |-> None]
Lives == {"absent", "Alive", "Destroying", "Destroyed", "reclaimed"}
Strong(o) == {r \in Refs : hold[r] = [kind |-> "strong", obj |-> o]}
Handles(o) == {r \in Refs : hold[r].obj = o}

CInit ==
    /\ life = [o \in Objects |-> "absent"]
    /\ hold = [r \in Refs |-> Nothing]

\* tala_aarc_allocate: a new object with one strong owner.
Create(o, r) ==
    /\ life[o] = "absent"
    /\ hold[r] = Nothing
    /\ life' = [life EXCEPT ![o] = "Alive"]
    /\ hold' = [hold EXCEPT ![r] = [kind |-> "strong", obj |-> o]]

\* tala_aarc_retain_strong, lock_weak, load_unowned: a reference in hand yields a
\* new strong owner only while the object is alive.
Upgrade(o, r) ==
    /\ life[o] = "Alive"
    /\ Handles(o) # {}
    /\ hold[r] = Nothing
    /\ hold' = [hold EXCEPT ![r] = [kind |-> "strong", obj |-> o]]
    /\ UNCHANGED life

\* tala_aarc_make_weak, copy_weak, make_unowned, copy_unowned.
Observe(o, r) ==
    /\ Handles(o) # {}
    /\ hold[r] = Nothing
    /\ hold' = [hold EXCEPT ![r] = [kind |-> "control", obj |-> o]]
    /\ UNCHANGED life

\* tala_aarc_release_strong, release_weak, release_unowned.
Drop(r) ==
    /\ hold[r] # Nothing
    /\ hold' = [hold EXCEPT ![r] = Nothing]
    /\ UNCHANGED life

\* The destructor starts after the final strong release.
Destroy(o) ==
    /\ life[o] = "Alive"
    /\ Strong(o) = {}
    /\ life' = [life EXCEPT ![o] = "Destroying"]
    /\ UNCHANGED hold

Finish(o) ==
    /\ life[o] = "Destroying"
    /\ life' = [life EXCEPT ![o] = "Destroyed"]
    /\ UNCHANGED hold

\* The last weak or unowned handle reclaims the allocation.
Reclaim(o) ==
    /\ life[o] = "Destroyed"
    /\ Handles(o) = {}
    /\ life' = [life EXCEPT ![o] = "reclaimed"]
    /\ UNCHANGED hold

CNext ==
    \/ \E o \in Objects, r \in Refs : Create(o, r) \/ Upgrade(o, r) \/ Observe(o, r)
    \/ \E r \in Refs : Drop(r)
    \/ \E o \in Objects : Destroy(o) \/ Finish(o) \/ Reclaim(o)

CSpec == CInit /\ [][CNext]_cvars
===========================================================================
