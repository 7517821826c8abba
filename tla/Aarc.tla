------------------------------- MODULE Aarc -------------------------------
(***************************************************************************)
(* Automatic atomic reference counting: Talac/Runtime/AARC/Runtime.cpp.    *)
(*                                                                         *)
(* Several threads call the C entry points of the runtime on shared        *)
(* objects.  Every action performs one access to an atomic word of an      *)
(* ObjectHeader, with the local computation that follows it, so threads    *)
(* interleave between any two accesses.  Each word is totally ordered, and *)
(* the orders between words that matter (destructor before reclamation,    *)
(* object pointer before count) go through acquire/release pairs of the    *)
(* code, so the model is sequentially consistent.                          *)
(*                                                                         *)
(* A place of the program that can hold a reference, a thread's variable   *)
(* or a capture slot of an object, is an element of Refs.  "control"       *)
(* stands for Weak and for Unowned, whose functions are the same code;     *)
(* "pending" is the variable that will receive the result of a call.       *)
(***************************************************************************)
EXTENDS Integers, Sequences, FiniteSets

CONSTANTS Threads,   \* threads of the running program
          Objects,   \* allocations; an address is not reused once freed
          Refs,      \* variables and capture slots that may hold a reference
          MaxCount,  \* std::numeric_limits<std::uint64_t>::max()
          None       \* no object, no reference, no owner

ASSUME RefsFinite == IsFiniteSet(Refs)
ASSUME ObjectsFinite == IsFiniteSet(Objects)
ASSUME Distinct == Threads \cap Objects = {} /\ None \notin Threads \cup Objects \cup Refs
ASSUME MaxCountAssumption == MaxCount \in Nat /\ MaxCount >= 2

VARIABLES strong,   \* ObjectHeader::strongCount
          weak,     \* ObjectHeader::weakCount
          state,    \* ObjectHeader::state
          object,   \* ObjectHeader::object is not null
          storage,  \* the allocation: "unused", "live" or "freed"
          live,     \* liveAllocations
          kind, target, owner,      \* what each place of the program holds
          pc, hdr, src, dst, cnt,   \* the runtime call each thread executes
          frames    \* the objects whose destructors each thread is running

headers == <<strong, weak, state, object, storage, live>>
refs == <<kind, target, owner>>
calls == <<pc, hdr, src, dst, cnt>>
vars == <<strong, weak, state, object, storage, live, kind, target, owner,
          pc, hdr, src, dst, cnt, frames>>

Counts == 0..MaxCount
Steps == {"idle", "destructor", "tryRetain", "loadObject", "retainControl",
          "subStrong", "beginDestroy", "markDestroyed", "dropImplicit",
          "uncount", "free"}

\* Place r comes to hold a reference of kind k to object o, owned by w.
SetRef(r, k, o, w) ==
    /\ kind' = [kind EXCEPT ![r] = k]
    /\ target' = [target EXCEPT ![r] = o]
    /\ owner' = [owner EXCEPT ![r] = w]
ClearRef(r) == SetRef(r, "none", None, None)

\* Thread t goes to step p with header o, source s, destination d and count n in
\* its local variables.
Goto(t, p, o, s, d, n) ==
    /\ pc' = [pc EXCEPT ![t] = p]
    /\ hdr' = [hdr EXCEPT ![t] = o]
    /\ src' = [src EXCEPT ![t] = s]
    /\ dst' = [dst EXCEPT ![t] = d]
    /\ cnt' = [cnt EXCEPT ![t] = n]

Handle(r) == kind[r] \in {"strong", "control"}
StrongRefs(o) == {r \in Refs : kind[r] = "strong" /\ target[r] = o}
ControlRefs(o) == {r \in Refs : kind[r] = "control" /\ target[r] = o}
CapturesOf(o) == {r \in Refs : Handle(r) /\ owner[r] = o}
Holds(t, r, k) == kind[r] = k /\ owner[r] = t

\* The object whose destructor the thread is executing.
Top(t) == frames[t][Len(frames[t])]

\* Where a finished call returns to: the program, or the destructor that made it.
Return(t) == Goto(t, IF frames[t] = <<>> THEN "idle" ELSE "destructor", None, None, None, 0)

\* A release is called by the thread on a reference of its own, or by the
\* destructor it is running on a capture of the object being destroyed.
MayRelease(t, r, k) ==
    \/ pc[t] = "idle" /\ Holds(t, r, k)
    \/ pc[t] = "destructor" /\ Holds(Top(t), r, k)

---------------------------------------------------------------------------

Init ==
    /\ strong = [o \in Objects |-> 0]
    /\ weak = [o \in Objects |-> 0]
    /\ state = [o \in Objects |-> "Alive"]
    /\ object = [o \in Objects |-> FALSE]
    /\ storage = [o \in Objects |-> "unused"]
    /\ live = 0
    /\ kind = [r \in Refs |-> "none"]
    /\ target = [r \in Refs |-> None]
    /\ owner = [r \in Refs |-> None]
    /\ pc = [t \in Threads |-> "idle"]
    /\ hdr = [t \in Threads |-> None]
    /\ src = [t \in Threads |-> None]
    /\ dst = [t \in Threads |-> None]
    /\ cnt = [t \in Threads |-> 0]
    /\ frames = [t \in Threads |-> <<>>]

\* The header is private to the caller until the payload is returned.  A
\* refused or failed allocation returns null and changes nothing.
Allocate(t, o, r) ==
    /\ pc[t] = "idle"
    /\ storage[o] = "unused"
    /\ kind[r] = "none"
    /\ storage' = [storage EXCEPT ![o] = "live"]
    /\ strong' = [strong EXCEPT ![o] = 1]
    /\ weak' = [weak EXCEPT ![o] = 1]
    /\ object' = [object EXCEPT ![o] = TRUE]
    /\ live' = live + 1
    /\ SetRef(r, "strong", o, t)
    /\ UNCHANGED <<state, calls, frames>>

\* RetainStrong on a strong reference, LockWeak and LoadUnowned on a control
\* handle: TryRetain's first load of the strong count.
BeginRetain(t, s, d, k) ==
    /\ pc[t] = "idle"
    /\ Holds(t, s, k)
    /\ kind[d] = "none"
    /\ SetRef(d, "pending", None, t)
    /\ Goto(t, "tryRetain", target[s], s, d, strong[target[s]])
    /\ UNCHANGED <<headers, frames>>

RetainStrong(t, s, d) == BeginRetain(t, s, d, "strong")
LockWeak(t, s, d) == BeginRetain(t, s, d, "control")

\* The count read is zero or saturated: null is returned.
TryRetainFail(t) ==
    /\ pc[t] = "tryRetain"
    /\ cnt[t] \in {0, MaxCount}
    /\ ClearRef(dst[t])
    /\ Return(t)
    /\ UNCHANGED <<headers, frames>>

\* Mutant: an atomic load and a store instead of the exchange.
TryRetainStore(t) ==
    /\ pc[t] = "tryRetain"
    /\ cnt[t] \notin {0, MaxCount}
    /\ strong' = [strong EXCEPT ![hdr[t]] = cnt[t] + 1]
    /\ SetRef(dst[t], "strong", hdr[t], t)
    /\ Goto(t, "loadObject", hdr[t], None, dst[t], 0)
    /\ UNCHANGED <<weak, state, object, storage, live, frames>>

\* Mutant: a count of zero is not refused.
TryRetainFromZero(t) ==
    /\ pc[t] = "tryRetain"
    /\ strong[hdr[t]] = cnt[t] /\ cnt[t] # MaxCount
    /\ strong' = [strong EXCEPT ![hdr[t]] = cnt[t] + 1]
    /\ SetRef(dst[t], "strong", hdr[t], t)
    /\ Goto(t, "loadObject", hdr[t], None, dst[t], 0)
    /\ UNCHANGED <<weak, state, object, storage, live, frames>>

\* Mutant: a saturated count is not refused and wraps.
TryRetainWraps(t) ==
    /\ pc[t] = "tryRetain"
    /\ strong[hdr[t]] = cnt[t] /\ cnt[t] # 0
    /\ strong' = [strong EXCEPT ![hdr[t]] = (cnt[t] + 1) % (MaxCount + 1)]
    /\ SetRef(dst[t], "strong", hdr[t], t)
    /\ Goto(t, "loadObject", hdr[t], None, dst[t], 0)
    /\ UNCHANGED <<weak, state, object, storage, live, frames>>

\* compare_exchange_weak on the strong count: success adds the owner, failure
\* reloads the count.
TryRetainExchange(t) ==
    LET o == hdr[t] IN
    /\ pc[t] = "tryRetain"
    /\ cnt[t] \notin {0, MaxCount}
    /\ IF strong[o] = cnt[t]
       THEN /\ strong' = [strong EXCEPT ![o] = cnt[t] + 1]
            /\ SetRef(dst[t], "strong", o, t)
            /\ Goto(t, "loadObject", hdr[t], None, dst[t], 0)
       ELSE /\ Goto(t, "tryRetain", o, src[t], dst[t], strong[o])
            /\ UNCHANGED <<strong, refs>>
    /\ UNCHANGED <<weak, state, object, storage, live, frames>>

\* The object pointer is read after the count was raised.  A null result would
\* leave the caller without the owner it added.
LoadObject(t) ==
    /\ pc[t] = "loadObject"
    /\ IF object[hdr[t]] THEN UNCHANGED refs ELSE ClearRef(dst[t])
    /\ Return(t)
    /\ UNCHANGED <<headers, frames>>

\* MakeWeak, MakeUnowned (from a strong reference), CopyWeak, CopyUnowned (from
\* a handle): RetainControl's first load of the weak count.
BeginRetainControl(t, s, d, k) ==
    /\ pc[t] = "idle"
    /\ Holds(t, s, k)
    /\ kind[d] = "none"
    /\ SetRef(d, "pending", None, t)
    /\ Goto(t, "retainControl", target[s], s, d, weak[target[s]])
    /\ UNCHANGED <<headers, frames>>

MakeWeak(t, s, d) == BeginRetainControl(t, s, d, "strong")
CopyWeak(t, s, d) == BeginRetainControl(t, s, d, "control")

RetainControlFail(t) ==
    /\ pc[t] = "retainControl"
    /\ cnt[t] \in {0, MaxCount}
    /\ ClearRef(dst[t])
    /\ Return(t)
    /\ UNCHANGED <<headers, frames>>

\* Mutant: a load and a store instead of the exchange.
RetainControlStore(t) ==
    /\ pc[t] = "retainControl"
    /\ cnt[t] \notin {0, MaxCount}
    /\ weak' = [weak EXCEPT ![hdr[t]] = cnt[t] + 1]
    /\ SetRef(dst[t], "control", hdr[t], t)
    /\ Return(t)
    /\ UNCHANGED <<strong, state, object, storage, live, frames>>

RetainControlExchange(t) ==
    LET o == hdr[t] IN
    /\ pc[t] = "retainControl"
    /\ cnt[t] \notin {0, MaxCount}
    /\ IF weak[o] = cnt[t]
       THEN /\ weak' = [weak EXCEPT ![o] = cnt[t] + 1]
            /\ SetRef(dst[t], "control", o, t)
            /\ Return(t)
       ELSE /\ Goto(t, "retainControl", o, src[t], dst[t], weak[o])
            /\ UNCHANGED <<weak, refs>>
    /\ UNCHANGED <<strong, state, object, storage, live, frames>>

---------------------------------------------------------------------------

\* ReleaseStrong: the saturation check.  A saturated count is never lowered, so
\* the reference is given up and its object stays.
ReleaseStrong(t, r) ==
    /\ MayRelease(t, r, "strong")
    /\ IF strong[target[r]] = MaxCount
       THEN ClearRef(r) /\ UNCHANGED calls
       ELSE /\ Goto(t, "subStrong", target[r], r, None, 0)
            /\ UNCHANGED refs
    /\ UNCHANGED <<headers, frames>>

\* The decrement, continued by destruction when the count read passes the test.
SubStrongWhen(t, last) ==
    LET o == hdr[t] IN
    /\ pc[t] = "subStrong"
    /\ strong' = [strong EXCEPT ![o] = (@ - 1) % (MaxCount + 1)]
    /\ ClearRef(src[t])
    /\ IF last THEN Goto(t, "beginDestroy", o, None, None, 0) ELSE Return(t)
    /\ UNCHANGED <<weak, state, object, storage, live, frames>>

\* Mutant: the last reference is looked for at zero, not at one.
SubStrongNever(t) == SubStrongWhen(t, strong[hdr[t]] = 0)

\* fetch_sub on the strong count: only the thread that takes it from one to
\* zero goes on.
SubStrong(t) == SubStrongWhen(t, strong[hdr[t]] = 1)

\* compare_exchange_strong Alive -> Destroying, then the type's destructor.
BeginDestroy(t) ==
    LET o == hdr[t] IN
    /\ pc[t] = "beginDestroy"
    /\ IF state[o] = "Alive"
       THEN /\ state' = [state EXCEPT ![o] = "Destroying"]
            /\ frames' = [frames EXCEPT ![t] = Append(@, o)]
            /\ Goto(t, "destructor", None, None, None, 0)
       ELSE /\ Goto(t, "dropImplicit", hdr[t], None, None, 0)
            /\ UNCHANGED <<state, frames>>
    /\ UNCHANGED <<strong, weak, object, storage, live, refs>>

\* Mutant: the payload pointer is left in place.
KeepObject(t) ==
    /\ pc[t] = "destructor"
    /\ CapturesOf(Top(t)) = {}
    /\ Goto(t, "markDestroyed", Top(t), None, None, 0)
    /\ UNCHANGED <<strong, weak, state, object, storage, live, refs, frames>>

\* The destructor has released every capture and returned: the payload pointer
\* is cleared.
ClearObject(t) ==
    LET o == Top(t) IN
    /\ pc[t] = "destructor"
    /\ CapturesOf(o) = {}
    /\ object' = [object EXCEPT ![o] = FALSE]
    /\ Goto(t, "markDestroyed", o, None, None, 0)
    /\ UNCHANGED <<strong, weak, state, storage, live, refs, frames>>

\* Mutant: the implicit weak reference is never dropped.
MarkDestroyedOnly(t) ==
    /\ pc[t] = "markDestroyed"
    /\ state' = [state EXCEPT ![hdr[t]] = "Destroyed"]
    /\ frames' = [frames EXCEPT ![t] = SubSeq(@, 1, Len(@) - 1)]
    /\ Goto(t, IF Len(frames[t]) = 1 THEN "idle" ELSE "destructor", None, None, None, 0)
    /\ UNCHANGED <<strong, weak, object, storage, live, refs>>

MarkDestroyed(t) ==
    /\ pc[t] = "markDestroyed"
    /\ state' = [state EXCEPT ![hdr[t]] = "Destroyed"]
    /\ frames' = [frames EXCEPT ![t] = SubSeq(@, 1, Len(@) - 1)]
    /\ Goto(t, "dropImplicit", hdr[t], None, None, 0)
    /\ UNCHANGED <<strong, weak, object, storage, live, refs>>

\* ReleaseControl's fetch_sub on the weak count of o.
SubWeak(t, o) ==
    /\ weak' = [weak EXCEPT ![o] = (@ - 1) % (MaxCount + 1)]
    /\ IF weak[o] = 1 THEN Goto(t, "uncount", o, None, None, 0) ELSE Return(t)

DropImplicit(t) ==
    /\ pc[t] = "dropImplicit"
    /\ SubWeak(t, hdr[t])
    /\ UNCHANGED <<strong, state, object, storage, live, refs, frames>>

\* ReleaseWeak and ReleaseUnowned.
ReleaseWeak(t, r) ==
    /\ MayRelease(t, r, "control")
    /\ SubWeak(t, target[r])
    /\ ClearRef(r)
    /\ UNCHANGED <<strong, state, object, storage, live, frames>>

\* Mutant: the reclaimed allocation stays counted.
KeepCounted(t) ==
    /\ pc[t] = "uncount"
    /\ Goto(t, "free", hdr[t], None, None, 0)
    /\ UNCHANGED <<strong, weak, state, object, storage, live, refs, frames>>

Uncount(t) ==
    /\ pc[t] = "uncount"
    /\ live' = live - 1
    /\ Goto(t, "free", hdr[t], None, None, 0)
    /\ UNCHANGED <<strong, weak, state, object, storage, refs, frames>>

Free(t) ==
    /\ pc[t] = "free"
    /\ storage' = [storage EXCEPT ![hdr[t]] = "freed"]
    /\ Return(t)
    /\ UNCHANGED <<strong, weak, state, object, live, refs, frames>>

---------------------------------------------------------------------------

\* Generated code moves a reference it acquired into a capture slot of an
\* object it has just built and that nobody else knows.
Capture(t, r, s) ==
    /\ pc[t] = "idle"
    /\ Handle(r) /\ owner[r] = t
    /\ Holds(t, s, "strong") /\ r # s
    /\ StrongRefs(target[s]) = {s} /\ ControlRefs(target[s]) = {}
    /\ SetRef(r, kind[r], target[r], target[s])
    /\ UNCHANGED <<headers, calls, frames>>

\* The program passes a reference on to another thread.
HandOver(t, u, r) ==
    /\ pc[t] = "idle"
    /\ t # u
    /\ Handle(r) /\ owner[r] = t
    /\ SetRef(r, kind[r], target[r], u)
    /\ UNCHANGED <<headers, calls, frames>>

\* What a thread does inside the runtime until the call returns.
Continue(t) ==
    \/ TryRetainFail(t) \/ TryRetainExchange(t) \/ LoadObject(t)
    \/ RetainControlFail(t) \/ RetainControlExchange(t)
    \/ SubStrong(t) \/ BeginDestroy(t) \/ ClearObject(t) \/ MarkDestroyed(t)
    \/ DropImplicit(t) \/ Uncount(t) \/ Free(t)

\* A thread gives up a reference: its own, or a capture from the destructor.
Release(t) == \E r \in Refs : ReleaseStrong(t, r) \/ ReleaseWeak(t, r)

Next ==
    \E t \in Threads :
        \/ Continue(t)
        \/ Release(t)
        \/ \E o \in Objects, r \in Refs : Allocate(t, o, r)
        \/ \E s, d \in Refs : \/ RetainStrong(t, s, d) \/ LockWeak(t, s, d)
                              \/ MakeWeak(t, s, d) \/ CopyWeak(t, s, d)
        \/ \E r, s \in Refs : Capture(t, r, s)
        \/ \E u \in Threads, r \in Refs : HandOver(t, u, r)

Spec == Init /\ [][Next]_vars

\* The scheduler eventually runs a thread that is inside the runtime or inside
\* a destructor; nothing makes the program call the runtime.
Fairness ==
    \A t \in Threads : WF_vars(Continue(t) \/ (pc[t] = "destructor" /\ Release(t)))

FairSpec == Spec /\ Fairness

---------------------------------------------------------------------------

\* Every atomic word, reference and register of the runtime stays in its type;
\* in particular no count wraps and liveAllocations never drops below zero.
TypeOK ==
    /\ strong \in [Objects -> Counts]
    /\ weak \in [Objects -> Counts]
    /\ state \in [Objects -> {"Alive", "Destroying", "Destroyed"}]
    /\ object \in [Objects -> BOOLEAN]
    /\ storage \in [Objects -> {"unused", "live", "freed"}]
    /\ live \in Nat
    /\ kind \in [Refs -> {"none", "pending", "strong", "control"}]
    /\ target \in [Refs -> Objects \cup {None}]
    /\ owner \in [Refs -> Threads \cup Objects \cup {None}]
    /\ pc \in [Threads -> Steps]
    /\ hdr \in [Threads -> Objects \cup {None}]
    /\ src \in [Threads -> Refs \cup {None}]
    /\ dst \in [Threads -> Refs \cup {None}]
    /\ cnt \in [Threads -> Counts]
    /\ frames \in [Threads -> Seq(Objects)]

\* No use after free: the header a thread is about to access, the objects whose
\* destructors run and the target of every reference the program holds are
\* allocated (ReleaseControl frees the allocation at the last decrement).
NoUseAfterFree ==
    /\ \A t \in Threads : hdr[t] # None => storage[hdr[t]] = "live"
    /\ \A t \in Threads : \A i \in 1..Len(frames[t]) : storage[frames[t][i]] = "live"
    /\ \A r \in Refs : Handle(r) => storage[target[r]] = "live"

\* A strong reference keeps its object alive: from the moment TryRetain's
\* exchange succeeds to the decrement of its release, the destructor has not
\* started and the payload pointer is not null.  So a lock that won its exchange
\* never returns null or a dying object.
StrongKeepsAlive ==
    \A r \in Refs :
        kind[r] = "strong" => state[target[r]] = "Alive" /\ object[target[r]]

\* AARC-ABI.md: the weak count includes one implicit entry while the strong
\* count is non-zero; the strong count never falls below the owners there are,
\* even when a saturated count has let a release pass without decrementing.
CountsCoverOwners ==
    \A o \in Objects :
        /\ strong[o] >= Cardinality(StrongRefs(o))
        /\ strong[o] > 0 => weak[o] = Cardinality(ControlRefs(o)) + 1
        /\ weak[o] >= Cardinality(ControlRefs(o))

AtRest == \A t \in Threads : pc[t] = "idle"

\* No leak and no early reclamation at rest, when the counts cannot saturate: an
\* object without strong references has been destroyed, and it is still
\* allocated exactly when a weak or unowned handle to it is left.  (A count that
\* reaches its maximum leaks: releases that find it there are not counted.)
NothingLeaksAtRest ==
    AtRest /\ Cardinality(Refs) < MaxCount =>
        \A o \in Objects :
            /\ storage[o] = "live" /\ StrongRefs(o) = {} => state[o] = "Destroyed"
            /\ storage[o] = "live" => StrongRefs(o) # {} \/ ControlRefs(o) # {}

\* The allocations counted: all but those a thread has uncounted and will free.
Counted ==
    {o \in Objects : storage[o] = "live"
        /\ \A t \in Threads : pc[t] = "free" => hdr[t] # o}

\* liveAllocations is the number of allocations, except the ones a thread has
\* already uncounted and is about to free, so it is exact where it is read.
LiveAllocationsExact == live = Cardinality(Counted)

\* The destructor runs exactly once, after the last strong release: an object
\* starts dying only from Alive with no strong owner, and is Destroyed only
\* after its captures are released and its payload pointer is cleared.
DestroyedOnce ==
    [][\A o \in Objects :
        state'[o] # state[o] =>
            \/ /\ state[o] = "Alive" /\ state'[o] = "Destroying"
               /\ strong[o] = 0 /\ StrongRefs(o) = {}
            \/ /\ state[o] = "Destroying" /\ state'[o] = "Destroyed"
               /\ ~object[o] /\ CapturesOf(o) = {}]_vars

\* Once no strong reference is left, the destructor runs to its end, whatever
\* handles remain and however deep the captures nest; and once no handle at all
\* is left, the allocation is returned.
EveryObjectEnds ==
    \A o \in Objects :
        /\ (storage[o] = "live" /\ StrongRefs(o) = {}) ~> state[o] = "Destroyed"
        /\ (storage[o] = "live" /\ StrongRefs(o) \cup ControlRefs(o) = {}) ~> storage[o] = "freed"

---------------------------------------------------------------------------

\* The inductive invariant.  Destroying(t, o): thread t has taken the strong
\* count of o to zero and not yet dropped the implicit weak reference.
InDestructor(t, o) == \E i \in 1..Len(frames[t]) : frames[t][i] = o
Destroying(t, o) ==
    InDestructor(t, o) \/ (hdr[t] = o /\ pc[t] \in {"beginDestroy", "dropImplicit"})
Reclaiming(t, o) == hdr[t] = o /\ pc[t] \in {"uncount", "free"}

RefInv(r) ==
    /\ kind[r] = "none" => target[r] = None /\ owner[r] = None
    /\ kind[r] = "pending" => target[r] = None /\ owner[r] \in Threads
    /\ Handle(r) =>
          /\ target[r] \in Objects /\ storage[target[r]] = "live"
          /\ owner[r] \in Threads \cup Objects
          /\ owner[r] \in Objects =>
                storage[owner[r]] = "live" /\ state[owner[r]] # "Destroyed"

\* What a thread relies on between two accesses.
CallInv(t) ==
    /\ pc[t] \in {"idle", "destructor"} => hdr[t] = None
    /\ pc[t] \notin {"idle", "destructor"} => hdr[t] \in Objects
    /\ pc[t] \in {"idle", "tryRetain", "loadObject", "retainControl"} => frames[t] = <<>>
    /\ pc[t] \in {"destructor", "markDestroyed"} => frames[t] # <<>>
    /\ pc[t] \in {"tryRetain", "retainControl"} =>
          /\ src[t] \in Refs /\ Handle(src[t])
          /\ target[src[t]] = hdr[t] /\ owner[src[t]] = t
          /\ dst[t] \in Refs /\ Holds(t, dst[t], "pending")
    /\ pc[t] = "loadObject" =>
          dst[t] \in Refs /\ Holds(t, dst[t], "strong") /\ target[dst[t]] = hdr[t]
    /\ pc[t] = "subStrong" =>
          /\ src[t] \in Refs /\ target[src[t]] = hdr[t]
          /\ Holds(IF frames[t] = <<>> THEN t ELSE Top(t), src[t], "strong")
    /\ pc[t] = "beginDestroy" => state[hdr[t]] = "Alive"
    /\ pc[t] = "markDestroyed" => hdr[t] = Top(t) /\ ~object[hdr[t]] /\ CapturesOf(hdr[t]) = {}
    /\ pc[t] = "dropImplicit" => state[hdr[t]] = "Destroyed"

\* One destroyer and one reclaimer per object, one frame per destructor.
ExclusiveInv ==
    /\ \A t, u \in Threads, o \in Objects : Destroying(t, o) /\ Destroying(u, o) => t = u
    /\ \A t, u \in Threads, o \in Objects : Reclaiming(t, o) /\ Reclaiming(u, o) => t = u
    /\ \A t \in Threads : \A i, j \in 1..Len(frames[t]) : frames[t][i] = frames[t][j] => i = j

\* The counts of an object against its references and its stage of life.
ObjectInv(o) ==
    LET destroyed == \E t \in Threads : Destroying(t, o)
        reclaimed == \E t \in Threads : Reclaiming(t, o)
        controls == Cardinality(ControlRefs(o))
    IN  /\ Cardinality(StrongRefs(o)) <= strong[o]
        /\ destroyed \/ reclaimed => storage[o] = "live" /\ strong[o] = 0
        /\ strong[o] > 0 => storage[o] = "live" /\ state[o] = "Alive" /\ object[o]
        /\ storage[o] = "live" =>
              weak[o] = controls + (IF strong[o] > 0 \/ destroyed THEN 1 ELSE 0)
        /\ storage[o] # "live" => weak[o] = 0
        /\ state[o] = "Alive" => strong[o] > 0 \/ destroyed \/ storage[o] = "unused"
        /\ state[o] = "Destroying" => \E t \in Threads : InDestructor(t, o)
        /\ \A t \in Threads : InDestructor(t, o) => state[o] = "Destroying"
        /\ storage[o] = "unused" => state[o] = "Alive"
        /\ storage[o] = "freed" => state[o] = "Destroyed"
        /\ reclaimed <=> storage[o] = "live" /\ weak[o] = 0

IndInv ==
    /\ TypeOK
    /\ \A r \in Refs : RefInv(r)
    /\ \A t \in Threads : CallInv(t)
    /\ ExclusiveInv
    /\ \A o \in Objects : ObjectInv(o)
    /\ LiveAllocationsExact

---------------------------------------------------------------------------

\* The life and the references the ABI's contract speaks of.
LifeOf(o) ==
    CASE storage[o] = "unused" -> "absent"
      [] storage[o] = "freed" -> "reclaimed"
      [] OTHER -> state[o]

HoldOf(r) ==
    [kind |-> IF kind[r] = "pending" THEN "none" ELSE kind[r], obj |-> target[r]]

Contract == INSTANCE AarcContract WITH
    life <- [o \in Objects |-> LifeOf(o)],
    hold <- [r \in Refs |-> HoldOf(r)]

\* The lock-free implementation keeps the contract: every step of every thread
\* is one operation of AarcContract or changes nothing the program can observe.
ImplementsContract == Contract!CSpec
===========================================================================
