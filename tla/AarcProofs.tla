---------------------------- MODULE AarcProofs ----------------------------
(***************************************************************************)
(* The inductive invariant of Aarc and what follows from it.               *)
(***************************************************************************)
EXTENDS Aarc, TLAPS, FiniteSetTheorems

USE RefsFinite, ObjectsFinite, Distinct, MaxCountAssumption

\* The references to an object are finitely many.
LEMMA RefsToFinite ==
    ASSUME NEW o \in Objects
    PROVE  /\ IsFiniteSet(StrongRefs(o)) /\ IsFiniteSet(ControlRefs(o))
           /\ Cardinality(StrongRefs(o)) \in Nat
           /\ Cardinality(ControlRefs(o)) \in Nat
           /\ StrongRefs(o) # {} => Cardinality(StrongRefs(o)) > 0
           /\ ControlRefs(o) # {} => Cardinality(ControlRefs(o)) > 0
<1>1. StrongRefs(o) \subseteq Refs /\ ControlRefs(o) \subseteq Refs
  BY DEF StrongRefs, ControlRefs
<1>2. IsFiniteSet(StrongRefs(o)) /\ IsFiniteSet(ControlRefs(o))
  BY <1>1, FS_Subset
<1>3. Cardinality(StrongRefs(o)) \in Nat /\ Cardinality(ControlRefs(o)) \in Nat
  BY <1>2, FS_CardinalityType
<1>4. Cardinality(StrongRefs(o)) = 0 <=> StrongRefs(o) = {}
  BY <1>2, FS_EmptySet
<1>5. Cardinality(ControlRefs(o)) = 0 <=> ControlRefs(o) = {}
  BY <1>2, FS_EmptySet
<1> QED BY <1>2, <1>3, <1>4, <1>5

\* Putting an element into a finite set or taking it out changes the cardinality
\* by whether it was there.
LEMMA CountChange ==
    ASSUME NEW S, NEW r, IsFiniteSet(S)
    PROVE  /\ Cardinality(S \cup {r}) = Cardinality(S) + 1 - (IF r \in S THEN 1 ELSE 0)
           /\ Cardinality(S \ {r}) = Cardinality(S) - (IF r \in S THEN 1 ELSE 0)
<1>1. Cardinality(S) \in Nat
  BY FS_CardinalityType
<1>2. Cardinality(S \cup {r}) = IF r \in S THEN Cardinality(S) ELSE Cardinality(S) + 1
  BY FS_AddElement
<1>3. Cardinality(S \ {r}) = IF r \in S THEN Cardinality(S) - 1 ELSE Cardinality(S)
  BY FS_RemoveElement
<1> QED BY <1>1, <1>2, <1>3

\* Changing what one place holds moves it between the sets of references.
LEMMA RefChange ==
    ASSUME NEW x \in Objects, TypeOK, NEW r \in Refs, NEW k, NEW o, NEW w, SetRef(r, k, o, w)
    PROVE  /\ Cardinality(StrongRefs(x)') =
                Cardinality(StrongRefs(x))
                + (IF k = "strong" /\ o = x THEN 1 ELSE 0)
                - (IF kind[r] = "strong" /\ target[r] = x THEN 1 ELSE 0)
           /\ Cardinality(ControlRefs(x)') =
                Cardinality(ControlRefs(x))
                + (IF k = "control" /\ o = x THEN 1 ELSE 0)
                - (IF kind[r] = "control" /\ target[r] = x THEN 1 ELSE 0)
<1> DEFINE S == StrongRefs(x)  C == ControlRefs(x)
<1>1. S' = IF k = "strong" /\ o = x THEN S \cup {r} ELSE S \ {r}
  BY DEF StrongRefs, SetRef, TypeOK
<1>2. C' = IF k = "control" /\ o = x THEN C \cup {r} ELSE C \ {r}
  BY DEF ControlRefs, SetRef, TypeOK
<1>3. r \in S <=> kind[r] = "strong" /\ target[r] = x
  BY DEF StrongRefs
<1>4. r \in C <=> kind[r] = "control" /\ target[r] = x
  BY DEF ControlRefs
<1>5. IsFiniteSet(S) /\ IsFiniteSet(C) /\ Cardinality(S) \in Nat /\ Cardinality(C) \in Nat
  BY RefsToFinite
<1> HIDE DEF S, C
<1>6. /\ Cardinality(S \cup {r}) = Cardinality(S) + 1 - (IF r \in S THEN 1 ELSE 0)
      /\ Cardinality(S \ {r}) = Cardinality(S) - (IF r \in S THEN 1 ELSE 0)
  BY <1>5, CountChange
<1>7. /\ Cardinality(C \cup {r}) = Cardinality(C) + 1 - (IF r \in C THEN 1 ELSE 0)
      /\ Cardinality(C \ {r}) = Cardinality(C) - (IF r \in C THEN 1 ELSE 0)
  BY <1>5, CountChange
<1>8. Cardinality(S') = Cardinality(S)
                + (IF k = "strong" /\ o = x THEN 1 ELSE 0)
                - (IF kind[r] = "strong" /\ target[r] = x THEN 1 ELSE 0)
  BY <1>1, <1>3, <1>5, <1>6
<1>9. Cardinality(C') = Cardinality(C)
                + (IF k = "control" /\ o = x THEN 1 ELSE 0)
                - (IF kind[r] = "control" /\ target[r] = x THEN 1 ELSE 0)
  BY <1>2, <1>4, <1>5, <1>7
<1> QED BY <1>8, <1>9 DEF S, C

\* A step that changes no reference changes no set of references.
LEMMA RefSame ==
    ASSUME NEW x \in Objects, UNCHANGED refs
    PROVE  StrongRefs(x)' = StrongRefs(x) /\ ControlRefs(x)' = ControlRefs(x)
BY DEF StrongRefs, ControlRefs, refs

\* The object on top of a thread's destructor stack.
LEMMA TopFacts ==
    ASSUME TypeOK, NEW t \in Threads, frames[t] # <<>>
    PROVE  /\ Len(frames[t]) \in Nat /\ Len(frames[t]) >= 1
           /\ Top(t) \in Objects
           /\ InDestructor(t, Top(t)) /\ Destroying(t, Top(t))
<1>1. frames[t] \in Seq(Objects)
  BY DEF TypeOK
<1>2. Len(frames[t]) \in Nat /\ Len(frames[t]) >= 1
  BY <1>1
<1> QED BY <1>1, <1>2 DEF Top, InDestructor, Destroying

---------------------------------------------------------------------------
\* One lemma per operation: the step preserves the invariant.

\* RetainStrong, LockWeak, MakeWeak and CopyWeak begin alike: the source stays with
\* the caller and the destination waits for the result.
LEMMA BeginCallInv ==
    ASSUME IndInv, NEW t \in Threads, NEW s \in Refs, NEW d \in Refs,
           NEW p \in {"tryRetain", "retainControl"}, NEW n \in Counts,
           pc[t] = "idle", Handle(s), owner[s] = t, kind[d] = "none",
           SetRef(d, "pending", None, t), Goto(t, p, target[s], s, d, n),
           UNCHANGED <<headers, frames>>
    PROVE  IndInv'
<1>a. /\ TypeOK /\ ExclusiveInv /\ LiveAllocationsExact
      /\ \A q \in Refs : RefInv(q)
      /\ \A u \in Threads : CallInv(u)
      /\ \A x \in Objects : ObjectInv(x)
  BY DEF IndInv
<1>0. /\ target[s] \in Objects /\ frames[t] = <<>> /\ s # d /\ hdr[t] = None
      /\ target[d] = None /\ owner[d] = None
  BY <1>a DEF RefInv, CallInv, Handle
<1>s. /\ kind' = [kind EXCEPT ![d] = "pending"] /\ target' = [target EXCEPT ![d] = None]
      /\ owner' = [owner EXCEPT ![d] = t]
      /\ pc' = [pc EXCEPT ![t] = p] /\ hdr' = [hdr EXCEPT ![t] = target[s]]
      /\ src' = [src EXCEPT ![t] = s] /\ dst' = [dst EXCEPT ![t] = d] /\ cnt' = [cnt EXCEPT ![t] = n]
      /\ UNCHANGED <<strong, weak, state, object, storage, live, frames>>
  BY DEF SetRef, Goto, headers
<1>1. TypeOK'
  BY <1>a, <1>0, <1>s DEF TypeOK, Counts, Steps
<1>2. \A q \in Refs : RefInv(q)'
  BY <1>a, <1>0, <1>s DEF TypeOK, RefInv, Handle
<1>3. \A u \in Threads : CallInv(u)'
  BY <1>a, <1>0, <1>s, TopFacts DEF TypeOK, CallInv, Handle, Holds, CapturesOf, Top
<1>4. \A u \in Threads, x \in Objects :
        /\ Destroying(u, x)' <=> Destroying(u, x)
        /\ Reclaiming(u, x)' <=> Reclaiming(u, x)
        /\ InDestructor(u, x)' <=> InDestructor(u, x)
  BY <1>a, <1>0, <1>s DEF TypeOK, Destroying, Reclaiming, InDestructor
<1>5. ExclusiveInv'
  BY <1>a, <1>s, <1>4 DEF ExclusiveInv
<1>6. ASSUME NEW x \in Objects PROVE ObjectInv(x)'
  <2>1. /\ Cardinality(StrongRefs(x)') = Cardinality(StrongRefs(x))
        /\ Cardinality(ControlRefs(x)') = Cardinality(ControlRefs(x))
    <3>1. SetRef(d, "pending", None, t)
      BY <1>s DEF SetRef
    <3>2. Cardinality(StrongRefs(x)) \in Nat /\ Cardinality(ControlRefs(x)) \in Nat
      BY RefsToFinite
    <3>3. TypeOK
      BY <1>a
    <3> QED BY <1>0, <3>1, <3>2, <3>3, RefChange
  <2> QED BY <1>a, <1>0, <1>s, <1>4, <2>1 DEF ObjectInv
<1>7. LiveAllocationsExact'
  <2>1. Counted' = Counted
    BY <1>a, <1>0, <1>s DEF TypeOK, Counted
  <2> QED BY <1>a, <1>s, <2>1 DEF LiveAllocationsExact
<1> QED BY <1>1, <1>2, <1>3, <1>5, <1>6, <1>7 DEF IndInv

\* An upgrade or a copy that is refused gives its destination back.
LEMMA RefusedCallInv ==
    ASSUME IndInv, NEW t \in Threads, pc[t] \in {"tryRetain", "retainControl"},
           ClearRef(dst[t]), Return(t), UNCHANGED <<headers, frames>>
    PROVE  IndInv'
<1> DEFINE d == dst[t]
<1>a. /\ TypeOK /\ ExclusiveInv /\ LiveAllocationsExact
      /\ \A q \in Refs : RefInv(q)
      /\ \A u \in Threads : CallInv(u)
      /\ \A x \in Objects : ObjectInv(x)
  BY DEF IndInv
<1>0. /\ d \in Refs /\ kind[d] = "pending" /\ owner[d] = t
      /\ frames[t] = <<>> /\ hdr[t] \in Objects /\ target[d] = None
  BY <1>a DEF RefInv, CallInv, Holds
<1> HIDE DEF d
<1>s. /\ kind' = [kind EXCEPT ![d] = "none"] /\ target' = [target EXCEPT ![d] = None]
      /\ owner' = [owner EXCEPT ![d] = None]
      /\ pc' = [pc EXCEPT ![t] = "idle"] /\ hdr' = [hdr EXCEPT ![t] = None]
      /\ src' = [src EXCEPT ![t] = None] /\ dst' = [dst EXCEPT ![t] = None] /\ cnt' = [cnt EXCEPT ![t] = 0]
      /\ UNCHANGED <<strong, weak, state, object, storage, live, frames>>
  BY <1>0 DEF ClearRef, Return, SetRef, Goto, headers, d
<1>1. TypeOK'
  BY <1>a, <1>0, <1>s DEF TypeOK, Counts, Steps
<1>2. \A q \in Refs : RefInv(q)'
  BY <1>a, <1>0, <1>s DEF TypeOK, RefInv, Handle
<1>3. \A u \in Threads : CallInv(u)'
  BY <1>a, <1>0, <1>s, TopFacts DEF TypeOK, CallInv, Handle, Holds, CapturesOf, Top
<1>4. \A u \in Threads, x \in Objects :
        /\ Destroying(u, x)' <=> Destroying(u, x)
        /\ Reclaiming(u, x)' <=> Reclaiming(u, x)
        /\ InDestructor(u, x)' <=> InDestructor(u, x)
  BY <1>a, <1>0, <1>s DEF TypeOK, Destroying, Reclaiming, InDestructor
<1>5. ExclusiveInv'
  BY <1>a, <1>s, <1>4 DEF ExclusiveInv
<1>6. ASSUME NEW x \in Objects PROVE ObjectInv(x)'
  <2>1. /\ Cardinality(StrongRefs(x)') = Cardinality(StrongRefs(x))
        /\ Cardinality(ControlRefs(x)') = Cardinality(ControlRefs(x))
    <3>1. SetRef(d, "none", None, None)
      BY <1>s DEF SetRef
    <3>2. Cardinality(StrongRefs(x)) \in Nat /\ Cardinality(ControlRefs(x)) \in Nat
      BY RefsToFinite
    <3>3. TypeOK
      BY <1>a
    <3> QED BY <1>0, <3>1, <3>2, <3>3, RefChange
  <2> QED BY <1>a, <1>0, <1>s, <1>4, <2>1 DEF ObjectInv
<1>7. LiveAllocationsExact'
  <2>1. Counted' = Counted
    BY <1>a, <1>0, <1>s DEF TypeOK, Counted
  <2> QED BY <1>a, <1>s, <2>1 DEF LiveAllocationsExact
<1> QED BY <1>1, <1>2, <1>3, <1>5, <1>6, <1>7 DEF IndInv

\* A failed exchange reloads the count and changes nothing else.
LEMMA ReloadInv ==
    ASSUME IndInv, NEW t \in Threads, pc[t] \in {"tryRetain", "retainControl"},
           NEW n \in Counts, Goto(t, pc[t], hdr[t], src[t], dst[t], n),
           UNCHANGED <<headers, refs, frames>>
    PROVE  IndInv'
<1>a. /\ TypeOK /\ ExclusiveInv /\ LiveAllocationsExact
      /\ \A q \in Refs : RefInv(q)
      /\ \A u \in Threads : CallInv(u)
      /\ \A x \in Objects : ObjectInv(x)
  BY DEF IndInv
<1>0. frames[t] = <<>> /\ hdr[t] \in Objects
  BY <1>a DEF CallInv
<1>s. /\ pc' = pc /\ hdr' = hdr /\ src' = src /\ dst' = dst /\ cnt' = [cnt EXCEPT ![t] = n]
      /\ UNCHANGED <<kind, target, owner>>
      /\ UNCHANGED <<strong, weak, state, object, storage, live, frames>>
  BY <1>a DEF TypeOK, Goto, headers, refs
<1>1. TypeOK'
  BY <1>a, <1>0, <1>s DEF TypeOK, Counts, Steps
<1>2. \A q \in Refs : RefInv(q)'
  BY <1>a, <1>0, <1>s DEF TypeOK, RefInv, Handle
<1>3. \A u \in Threads : CallInv(u)'
  BY <1>a, <1>0, <1>s, TopFacts DEF TypeOK, CallInv, Handle, Holds, CapturesOf, Top
<1>4. \A u \in Threads, x \in Objects :
        /\ Destroying(u, x)' <=> Destroying(u, x)
        /\ Reclaiming(u, x)' <=> Reclaiming(u, x)
        /\ InDestructor(u, x)' <=> InDestructor(u, x)
  BY <1>a, <1>0, <1>s DEF TypeOK, Destroying, Reclaiming, InDestructor
<1>5. ExclusiveInv'
  BY <1>a, <1>s, <1>4 DEF ExclusiveInv
<1>6. ASSUME NEW x \in Objects PROVE ObjectInv(x)'
  <2>1. StrongRefs(x)' = StrongRefs(x) /\ ControlRefs(x)' = ControlRefs(x)
    BY <1>s, RefSame DEF refs
  <2> QED BY <1>a, <1>0, <1>s, <1>4, <2>1 DEF ObjectInv
<1>7. LiveAllocationsExact'
  <2>1. Counted' = Counted
    BY <1>a, <1>0, <1>s DEF TypeOK, Counted
  <2> QED BY <1>a, <1>s, <2>1 DEF LiveAllocationsExact
<1> QED BY <1>1, <1>2, <1>3, <1>5, <1>6, <1>7 DEF IndInv

\* A reference that moves to another owner that is allocated and not dying.
LEMMA MoveInv ==
    ASSUME IndInv, NEW t \in Threads, NEW r \in Refs, NEW w \in Threads \cup Objects,
           pc[t] = "idle", Handle(r), owner[r] = t,
           w \in Objects => strong[w] > 0,
           SetRef(r, kind[r], target[r], w), UNCHANGED <<headers, calls, frames>>
    PROVE  IndInv'
<1> DEFINE k == kind[r]  o == target[r]
<1>a. /\ TypeOK /\ ExclusiveInv /\ LiveAllocationsExact
      /\ \A q \in Refs : RefInv(q)
      /\ \A u \in Threads : CallInv(u)
      /\ \A x \in Objects : ObjectInv(x)
  BY DEF IndInv
<1>0. /\ o \in Objects /\ storage[o] = "live" /\ k \in {"strong", "control"}
      /\ w \in Objects => storage[w] = "live" /\ state[w] = "Alive"
      /\ w \in Objects => \A u \in Threads : ~InDestructor(u, w)
  BY <1>a DEF RefInv, Handle, ObjectInv
<1> HIDE DEF k, o
<1>s. /\ kind' = [kind EXCEPT ![r] = k] /\ target' = [target EXCEPT ![r] = o]
      /\ owner' = [owner EXCEPT ![r] = w]
      /\ kind[r] = k /\ target[r] = o /\ UNCHANGED <<pc, hdr, src, dst, cnt>>
      /\ UNCHANGED <<strong, weak, state, object, storage, live, frames>>
  BY DEF SetRef, headers, calls, k, o
<1>1. TypeOK'
  BY <1>a, <1>0, <1>s DEF TypeOK, Counts, Steps
<1>2. \A q \in Refs : RefInv(q)'
  BY <1>a, <1>0, <1>s DEF TypeOK, RefInv, Handle
<1>3. \A u \in Threads : CallInv(u)'
  BY <1>a, <1>0, <1>s, TopFacts DEF TypeOK, CallInv, Handle, Holds, CapturesOf, Top
<1>4. \A u \in Threads, x \in Objects :
        /\ Destroying(u, x)' <=> Destroying(u, x)
        /\ Reclaiming(u, x)' <=> Reclaiming(u, x)
        /\ InDestructor(u, x)' <=> InDestructor(u, x)
  BY <1>a, <1>0, <1>s DEF TypeOK, Destroying, Reclaiming, InDestructor
<1>5. ExclusiveInv'
  BY <1>a, <1>s, <1>4 DEF ExclusiveInv
<1>6. ASSUME NEW x \in Objects PROVE ObjectInv(x)'
  <2>1. /\ Cardinality(StrongRefs(x)') = Cardinality(StrongRefs(x))
        /\ Cardinality(ControlRefs(x)') = Cardinality(ControlRefs(x))
    <3>1. SetRef(r, k, o, w)
      BY <1>s DEF SetRef
    <3>2. Cardinality(StrongRefs(x)) \in Nat /\ Cardinality(ControlRefs(x)) \in Nat
      BY RefsToFinite
    <3>3. TypeOK
      BY <1>a
    <3> QED BY <1>0, <3>1, <3>2, <3>3, RefChange
  <2> QED BY <1>a, <1>0, <1>s, <1>4, <2>1 DEF ObjectInv
<1>7. LiveAllocationsExact'
  <2>1. Counted' = Counted
    BY <1>a, <1>0, <1>s DEF TypeOK, Counted
  <2> QED BY <1>a, <1>s, <2>1 DEF LiveAllocationsExact
<1> QED BY <1>1, <1>2, <1>3, <1>5, <1>6, <1>7 DEF IndInv

\* A successful upgrade adds an owner to an object that has one.
LEMMA UpgradeInv ==
    ASSUME IndInv, NEW t \in Threads, pc[t] = "tryRetain",
           strong[hdr[t]] = cnt[t], cnt[t] \notin {0, MaxCount},
           strong' = [strong EXCEPT ![hdr[t]] = cnt[t] + 1],
           SetRef(dst[t], "strong", hdr[t], t), Goto(t, "loadObject", hdr[t], None, dst[t], 0),
           UNCHANGED <<weak, state, object, storage, live, frames>>
    PROVE  IndInv'
<1> DEFINE d == dst[t]  o == hdr[t]
<1>a. /\ TypeOK /\ ExclusiveInv /\ LiveAllocationsExact
      /\ \A q \in Refs : RefInv(q)
      /\ \A u \in Threads : CallInv(u)
      /\ \A x \in Objects : ObjectInv(x)
  BY DEF IndInv
<1>0. /\ o \in Objects /\ d \in Refs /\ kind[d] = "pending" /\ owner[d] = t
      /\ frames[t] = <<>> /\ strong[o] \in Nat /\ 0 < strong[o] /\ strong[o] < MaxCount
      /\ storage[o] = "live"
  BY <1>a DEF TypeOK, CallInv, ObjectInv, Counts, Holds
<1> HIDE DEF d, o
<1>s. /\ kind' = [kind EXCEPT ![d] = "strong"] /\ target' = [target EXCEPT ![d] = o]
      /\ owner' = [owner EXCEPT ![d] = t]
      /\ pc' = [pc EXCEPT ![t] = "loadObject"] /\ hdr' = [hdr EXCEPT ![t] = o]
      /\ src' = [src EXCEPT ![t] = None] /\ dst' = [dst EXCEPT ![t] = d] /\ cnt' = [cnt EXCEPT ![t] = 0]
      /\ strong' = [strong EXCEPT ![o] = strong[o] + 1] /\ hdr[t] = o /\ dst[t] = d
      /\ UNCHANGED <<weak, state, object, storage, live, frames>>
  BY DEF SetRef, Goto, d, o
<1>1. TypeOK'
  BY <1>a, <1>0, <1>s DEF TypeOK, Counts, Steps
<1>2. \A q \in Refs : RefInv(q)'
  BY <1>a, <1>0, <1>s DEF TypeOK, RefInv, Handle
<1>3. \A u \in Threads : CallInv(u)'
  BY <1>a, <1>0, <1>s, TopFacts DEF TypeOK, CallInv, Handle, Holds, CapturesOf, Top
<1>4. \A u \in Threads, x \in Objects :
        /\ Destroying(u, x)' <=> Destroying(u, x)
        /\ Reclaiming(u, x)' <=> Reclaiming(u, x)
        /\ InDestructor(u, x)' <=> InDestructor(u, x)
  BY <1>a, <1>0, <1>s DEF TypeOK, Destroying, Reclaiming, InDestructor
<1>5. ExclusiveInv'
  BY <1>a, <1>s, <1>4 DEF ExclusiveInv
<1>6. ASSUME NEW x \in Objects PROVE ObjectInv(x)'
  <2>1. /\ Cardinality(StrongRefs(x)') = Cardinality(StrongRefs(x)) + (IF o = x THEN 1 ELSE 0)
        /\ Cardinality(ControlRefs(x)') = Cardinality(ControlRefs(x))
    <3>1. SetRef(d, "strong", o, t)
      BY <1>s DEF SetRef
    <3>2. Cardinality(StrongRefs(x)) \in Nat /\ Cardinality(ControlRefs(x)) \in Nat
      BY RefsToFinite
    <3>3. TypeOK
      BY <1>a
    <3> QED BY <1>0, <3>1, <3>2, <3>3, RefChange
  <2>2. /\ strong[x] \in Nat /\ weak[x] \in Nat
        /\ Cardinality(StrongRefs(x)) \in Nat /\ Cardinality(ControlRefs(x)) \in Nat
    BY <1>a, RefsToFinite DEF TypeOK, Counts
  <2>3. strong'[x] = strong[x] + (IF o = x THEN 1 ELSE 0)
    BY <1>a, <1>0, <1>s, <2>2 DEF TypeOK
  <2> QED BY <1>a, <1>0, <1>s, <1>4, <2>1, <2>2, <2>3 DEF ObjectInv
<1>7. LiveAllocationsExact'
  <2>1. Counted' = Counted
    BY <1>a, <1>0, <1>s DEF TypeOK, Counted
  <2> QED BY <1>a, <1>s, <2>1 DEF LiveAllocationsExact
<1> QED BY <1>1, <1>2, <1>3, <1>5, <1>6, <1>7 DEF IndInv

\* The object pointer read after a successful upgrade is not null.
LEMMA LoadObjectInv ==
    ASSUME IndInv, NEW t \in Threads, LoadObject(t)
    PROVE  IndInv'
<1>a. /\ TypeOK /\ ExclusiveInv /\ LiveAllocationsExact
      /\ \A q \in Refs : RefInv(q)
      /\ \A u \in Threads : CallInv(u)
      /\ \A x \in Objects : ObjectInv(x)
  BY DEF IndInv
<1>0. /\ dst[t] \in Refs /\ kind[dst[t]] = "strong" /\ target[dst[t]] = hdr[t]
      /\ owner[dst[t]] = t /\ hdr[t] \in Objects /\ frames[t] = <<>> /\ pc[t] = "loadObject"
  BY <1>a DEF LoadObject, CallInv, Holds
<1>b. object[hdr[t]]
  <2>1. StrongRefs(hdr[t]) # {}
    BY <1>0 DEF StrongRefs
  <2>2. Cardinality(StrongRefs(hdr[t])) \in Nat /\ Cardinality(StrongRefs(hdr[t])) > 0
    BY <1>0, <2>1, RefsToFinite
  <2>3. strong[hdr[t]] \in Nat
    BY <1>a, <1>0 DEF TypeOK, Counts
  <2> QED BY <1>a, <1>0, <2>2, <2>3 DEF ObjectInv
<1>s. /\ UNCHANGED <<kind, target, owner>>
      /\ pc' = [pc EXCEPT ![t] = "idle"] /\ hdr' = [hdr EXCEPT ![t] = None]
      /\ src' = [src EXCEPT ![t] = None] /\ dst' = [dst EXCEPT ![t] = None] /\ cnt' = [cnt EXCEPT ![t] = 0]
      /\ UNCHANGED <<strong, weak, state, object, storage, live, frames>>
  BY <1>0, <1>b DEF LoadObject, Return, Goto, headers, refs
<1>1. TypeOK'
  BY <1>a, <1>0, <1>s DEF TypeOK, Counts, Steps
<1>2. \A q \in Refs : RefInv(q)'
  BY <1>a, <1>0, <1>s DEF TypeOK, RefInv, Handle
<1>3. \A u \in Threads : CallInv(u)'
  BY <1>a, <1>0, <1>s, TopFacts DEF TypeOK, CallInv, Handle, Holds, CapturesOf, Top
<1>4. \A u \in Threads, x \in Objects :
        /\ Destroying(u, x)' <=> Destroying(u, x)
        /\ Reclaiming(u, x)' <=> Reclaiming(u, x)
        /\ InDestructor(u, x)' <=> InDestructor(u, x)
  BY <1>a, <1>0, <1>s DEF TypeOK, Destroying, Reclaiming, InDestructor
<1>5. ExclusiveInv'
  BY <1>a, <1>s, <1>4 DEF ExclusiveInv
<1>6. ASSUME NEW x \in Objects PROVE ObjectInv(x)'
  <2>1. StrongRefs(x)' = StrongRefs(x) /\ ControlRefs(x)' = ControlRefs(x)
    BY <1>s, RefSame DEF refs
  <2> QED BY <1>a, <1>0, <1>s, <1>4, <2>1 DEF ObjectInv
<1>7. LiveAllocationsExact'
  <2>1. Counted' = Counted
    BY <1>a, <1>0, <1>s DEF TypeOK, Counted
  <2> QED BY <1>a, <1>s, <2>1 DEF LiveAllocationsExact
<1> QED BY <1>1, <1>2, <1>3, <1>5, <1>6, <1>7 DEF IndInv

\* A new weak or unowned handle, taken from a reference in hand.
LEMMA NewControlInv ==
    ASSUME IndInv, NEW t \in Threads, pc[t] = "retainControl",
           weak[hdr[t]] = cnt[t], cnt[t] \notin {0, MaxCount},
           weak' = [weak EXCEPT ![hdr[t]] = cnt[t] + 1],
           SetRef(dst[t], "control", hdr[t], t), Return(t),
           UNCHANGED <<strong, state, object, storage, live, frames>>
    PROVE  IndInv'
<1> DEFINE d == dst[t]  o == hdr[t]
<1>a. /\ TypeOK /\ ExclusiveInv /\ LiveAllocationsExact
      /\ \A q \in Refs : RefInv(q)
      /\ \A u \in Threads : CallInv(u)
      /\ \A x \in Objects : ObjectInv(x)
  BY DEF IndInv
<1>0. /\ o \in Objects /\ d \in Refs /\ kind[d] = "pending" /\ owner[d] = t
      /\ frames[t] = <<>> /\ weak[o] \in Nat /\ 0 < weak[o] /\ weak[o] < MaxCount
      /\ storage[o] = "live"
  BY <1>a DEF TypeOK, CallInv, ObjectInv, Counts, Holds
<1> HIDE DEF d, o
<1>s. /\ kind' = [kind EXCEPT ![d] = "control"] /\ target' = [target EXCEPT ![d] = o]
      /\ owner' = [owner EXCEPT ![d] = t]
      /\ pc' = [pc EXCEPT ![t] = "idle"] /\ hdr' = [hdr EXCEPT ![t] = None]
      /\ src' = [src EXCEPT ![t] = None] /\ dst' = [dst EXCEPT ![t] = None] /\ cnt' = [cnt EXCEPT ![t] = 0]
      /\ weak' = [weak EXCEPT ![o] = weak[o] + 1] /\ hdr[t] = o /\ dst[t] = d
      /\ UNCHANGED <<strong, state, object, storage, live, frames>>
  BY <1>0 DEF SetRef, Return, Goto, d, o
<1>1. TypeOK'
  BY <1>a, <1>0, <1>s DEF TypeOK, Counts, Steps
<1>2. \A q \in Refs : RefInv(q)'
  BY <1>a, <1>0, <1>s DEF TypeOK, RefInv, Handle
<1>3. \A u \in Threads : CallInv(u)'
  BY <1>a, <1>0, <1>s, TopFacts DEF TypeOK, CallInv, Handle, Holds, CapturesOf, Top
<1>4. \A u \in Threads, x \in Objects :
        /\ Destroying(u, x)' <=> Destroying(u, x)
        /\ Reclaiming(u, x)' <=> Reclaiming(u, x)
        /\ InDestructor(u, x)' <=> InDestructor(u, x)
  BY <1>a, <1>0, <1>s DEF TypeOK, Destroying, Reclaiming, InDestructor
<1>5. ExclusiveInv'
  BY <1>a, <1>s, <1>4 DEF ExclusiveInv
<1>6. ASSUME NEW x \in Objects PROVE ObjectInv(x)'
  <2>1. /\ Cardinality(StrongRefs(x)') = Cardinality(StrongRefs(x))
        /\ Cardinality(ControlRefs(x)') = Cardinality(ControlRefs(x)) + (IF o = x THEN 1 ELSE 0)
    <3>1. SetRef(d, "control", o, t)
      BY <1>s DEF SetRef
    <3>2. Cardinality(StrongRefs(x)) \in Nat /\ Cardinality(ControlRefs(x)) \in Nat
      BY RefsToFinite
    <3>3. TypeOK
      BY <1>a
    <3> QED BY <1>0, <3>1, <3>2, <3>3, RefChange
  <2>2. /\ strong[x] \in Nat /\ weak[x] \in Nat
        /\ Cardinality(StrongRefs(x)) \in Nat /\ Cardinality(ControlRefs(x)) \in Nat
    BY <1>a, RefsToFinite DEF TypeOK, Counts
  <2>3. weak'[x] = weak[x] + (IF o = x THEN 1 ELSE 0)
    BY <1>a, <1>0, <1>s, <2>2 DEF TypeOK
  <2> QED BY <1>a, <1>0, <1>s, <1>4, <2>1, <2>2, <2>3 DEF ObjectInv
<1>7. LiveAllocationsExact'
  <2>1. Counted' = Counted
    BY <1>a, <1>0, <1>s DEF TypeOK, Counted
  <2> QED BY <1>a, <1>s, <2>1 DEF LiveAllocationsExact
<1> QED BY <1>1, <1>2, <1>3, <1>5, <1>6, <1>7 DEF IndInv

\* A new object has one owner and the implicit weak reference.
LEMMA AllocateInv ==
    ASSUME IndInv, NEW t \in Threads, NEW o \in Objects, NEW r \in Refs, Allocate(t, o, r)
    PROVE  IndInv'
<1>a. /\ TypeOK /\ ExclusiveInv /\ LiveAllocationsExact
      /\ \A q \in Refs : RefInv(q)
      /\ \A u \in Threads : CallInv(u)
      /\ \A x \in Objects : ObjectInv(x)
  BY DEF IndInv
<1>0. /\ pc[t] = "idle" /\ storage[o] = "unused" /\ kind[r] = "none" /\ frames[t] = <<>>
      /\ \A u \in Threads : ~Destroying(u, o) /\ ~Reclaiming(u, o)
      /\ strong[o] = 0 /\ state[o] = "Alive"
      /\ \A q \in Refs : Handle(q) => target[q] # o /\ owner[q] # o
  <2>1. strong[o] \in Nat
    BY <1>a DEF TypeOK, Counts
  <2> QED BY <1>a, <2>1 DEF Allocate, ObjectInv, RefInv, CallInv
<1>s. /\ kind' = [kind EXCEPT ![r] = "strong"] /\ target' = [target EXCEPT ![r] = o]
      /\ owner' = [owner EXCEPT ![r] = t]
      /\ storage' = [storage EXCEPT ![o] = "live"] /\ strong' = [strong EXCEPT ![o] = 1]
      /\ weak' = [weak EXCEPT ![o] = 1] /\ object' = [object EXCEPT ![o] = TRUE]
      /\ live' = live + 1 /\ UNCHANGED <<state, pc, hdr, src, dst, cnt, frames>>
  BY DEF Allocate, SetRef, calls
<1>1. TypeOK'
  BY <1>a, <1>0, <1>s DEF TypeOK, Counts, Steps
<1>2. \A q \in Refs : RefInv(q)'
  BY <1>a, <1>0, <1>s DEF TypeOK, RefInv, Handle
<1>3. \A u \in Threads : CallInv(u)'
  BY <1>a, <1>0, <1>s, TopFacts DEF TypeOK, CallInv, InDestructor, Handle, Holds, CapturesOf, Top
<1>4. \A u \in Threads, x \in Objects :
        /\ Destroying(u, x)' <=> Destroying(u, x)
        /\ Reclaiming(u, x)' <=> Reclaiming(u, x)
        /\ InDestructor(u, x)' <=> InDestructor(u, x)
  BY <1>a, <1>0, <1>s DEF TypeOK, Destroying, Reclaiming, InDestructor
<1>5. ExclusiveInv'
  BY <1>a, <1>s, <1>4 DEF ExclusiveInv
<1>6. ASSUME NEW x \in Objects PROVE ObjectInv(x)'
  <2>1. /\ Cardinality(StrongRefs(x)') = Cardinality(StrongRefs(x)) + (IF o = x THEN 1 ELSE 0)
        /\ Cardinality(ControlRefs(x)') = Cardinality(ControlRefs(x))
    <3>1. SetRef(r, "strong", o, t)
      BY <1>s DEF SetRef
    <3>2. Cardinality(StrongRefs(x)) \in Nat /\ Cardinality(ControlRefs(x)) \in Nat
      BY RefsToFinite
    <3>3. TypeOK
      BY <1>a
    <3> QED BY <1>0, <3>1, <3>2, <3>3, RefChange
  <2>2. /\ strong[x] \in Nat /\ weak[x] \in Nat
        /\ Cardinality(StrongRefs(x)) \in Nat /\ Cardinality(ControlRefs(x)) \in Nat
    BY <1>a, RefsToFinite DEF TypeOK, Counts
  <2>3. x = o => Cardinality(StrongRefs(x)) = 0 /\ Cardinality(ControlRefs(x)) = 0
    <3>1. x = o => StrongRefs(x) = {} /\ ControlRefs(x) = {}
      BY <1>0 DEF StrongRefs, ControlRefs, Handle
    <3> QED BY <3>1, FS_EmptySet
  <2>4. CASE x = o
    BY <1>a, <1>0, <1>s, <1>4, <2>1, <2>2, <2>3, <2>4 DEF ObjectInv, TypeOK
  <2>5. CASE x # o
    BY <1>a, <1>0, <1>s, <1>4, <2>1, <2>2, <2>5 DEF ObjectInv, TypeOK
  <2> QED BY <2>4, <2>5
<1>7. LiveAllocationsExact'
  <2>1. Counted' = Counted \cup {o} /\ o \notin Counted
    BY <1>a, <1>0, <1>s DEF TypeOK, Counted, Reclaiming
  <2>2. IsFiniteSet(Counted)
    BY FS_Subset DEF Counted
  <2>3. Cardinality(Counted \cup {o}) = Cardinality(Counted) + 1
    BY <2>1, <2>2, FS_AddElement
  <2> QED BY <1>a, <1>s, <2>1, <2>3 DEF LiveAllocationsExact
<1> QED BY <1>1, <1>2, <1>3, <1>5, <1>6, <1>7 DEF IndInv

---------------------------------------------------------------------------

\* A reference a thread is giving up, its own or a capture of the object it is
\* destroying, takes part in no call of another thread.
LEMMA NotInUse ==
    ASSUME IndInv, NEW t \in Threads, NEW r \in Refs, Handle(r),
           owner[r] = t \/ (frames[t] # <<>> /\ owner[r] = Top(t)),
           NEW u \in Threads, u # t
    PROVE  /\ pc[u] \in {"tryRetain", "retainControl", "subStrong"} => src[u] # r
           /\ pc[u] \in {"tryRetain", "retainControl", "loadObject"} => dst[u] # r
<1>1. TypeOK /\ ExclusiveInv /\ CallInv(u)
  BY DEF IndInv
<1>2. frames[t] # <<>> => Top(t) \in Objects /\ Destroying(t, Top(t))
  BY <1>1, TopFacts
<1>3. frames[u] # <<>> => Top(u) \in Objects /\ Destroying(u, Top(u))
  BY <1>1, TopFacts
<1>4. frames[t] # <<>> /\ frames[u] # <<>> => Top(t) # Top(u)
  BY <1>1, <1>2, <1>3 DEF ExclusiveInv
<1> QED BY <1>1, <1>2, <1>3, <1>4 DEF CallInv, Holds, Handle

\* A decrement of a positive count does not wrap.
LEMMA Decrement ==
    ASSUME NEW n \in Counts, n > 0
    PROVE  (n - 1) % (MaxCount + 1) = n - 1
BY DEF Counts

\* What holding a reference says of its object.
LEMMA HandleFacts ==
    ASSUME IndInv, NEW r \in Refs, Handle(r)
    PROVE  LET o == target[r] IN
           /\ o \in Objects /\ storage[o] = "live"
           /\ weak[o] > 0 /\ weak[o] \in Counts /\ strong[o] \in Counts
           /\ kind[r] = "strong" => strong[o] > 0 /\ state[o] = "Alive" /\ object[o]
<1> DEFINE o == target[r]
<1>1. TypeOK /\ RefInv(r) /\ o \in Objects /\ storage[o] = "live"
  BY DEF IndInv, RefInv
<1>2. ObjectInv(o) /\ strong[o] \in Counts /\ weak[o] \in Counts
  BY <1>1 DEF IndInv, TypeOK
<1>3. /\ Cardinality(StrongRefs(o)) \in Nat /\ Cardinality(ControlRefs(o)) \in Nat
      /\ StrongRefs(o) # {} => Cardinality(StrongRefs(o)) > 0
      /\ ControlRefs(o) # {} => Cardinality(ControlRefs(o)) > 0
  BY <1>1, RefsToFinite
<1>4. kind[r] = "strong" => StrongRefs(o) # {}
  BY DEF StrongRefs
<1>5. kind[r] = "control" => ControlRefs(o) # {}
  BY DEF ControlRefs
<1> HIDE DEF o
<1>6. kind[r] = "strong" => strong[o] > 0
  BY <1>2, <1>3, <1>4 DEF ObjectInv, Counts
<1>7. weak[o] > 0
  BY <1>1, <1>2, <1>3, <1>5, <1>6 DEF ObjectInv, Counts, Handle
<1> QED BY <1>1, <1>2, <1>6, <1>7 DEF ObjectInv, o

\* A release of a saturated count gives the reference up and leaves the count.
LEMMA ReleaseSaturatedInv ==
    ASSUME IndInv, NEW t \in Threads, NEW r \in Refs, MayRelease(t, r, "strong"),
           ClearRef(r), UNCHANGED <<headers, calls, frames>>
    PROVE  IndInv'
<1>a. /\ TypeOK /\ ExclusiveInv /\ LiveAllocationsExact
      /\ \A q \in Refs : RefInv(q)
      /\ \A u \in Threads : CallInv(u)
      /\ \A x \in Objects : ObjectInv(x)
  BY DEF IndInv
<1>0. /\ Handle(r) /\ kind[r] = "strong" /\ target[r] \in Objects /\ pc[t] \in {"idle", "destructor"}
      /\ owner[r] = t \/ (frames[t] # <<>> /\ owner[r] = Top(t))
  BY <1>a, HandleFacts DEF MayRelease, Holds, Handle, CallInv
<1>s. /\ kind' = [kind EXCEPT ![r] = "none"] /\ target' = [target EXCEPT ![r] = None]
      /\ owner' = [owner EXCEPT ![r] = None]
      /\ UNCHANGED <<pc, hdr, src, dst, cnt>>
      /\ UNCHANGED <<strong, weak, state, object, storage, live, frames>>
  BY DEF ClearRef, SetRef, headers, calls
<1>n. \A u \in Threads \ {t} :
        /\ pc[u] \in {"tryRetain", "retainControl", "subStrong"} => src[u] # r
        /\ pc[u] \in {"tryRetain", "retainControl", "loadObject"} => dst[u] # r
  BY <1>0, NotInUse
<1>1. TypeOK'
  BY <1>a, <1>0, <1>s DEF TypeOK, Counts, Steps
<1>2. \A q \in Refs : RefInv(q)'
  BY <1>a, <1>0, <1>s DEF TypeOK, RefInv, Handle
<1>3. \A u \in Threads : CallInv(u)'
  BY <1>a, <1>0, <1>n, <1>s, TopFacts DEF TypeOK, CallInv, Handle, Holds, CapturesOf, Top
<1>4. \A u \in Threads, x \in Objects :
        /\ Destroying(u, x)' <=> Destroying(u, x)
        /\ Reclaiming(u, x)' <=> Reclaiming(u, x)
        /\ InDestructor(u, x)' <=> InDestructor(u, x)
  BY <1>a, <1>0, <1>s DEF TypeOK, Destroying, Reclaiming, InDestructor
<1>5. ExclusiveInv'
  BY <1>a, <1>s, <1>4 DEF ExclusiveInv
<1>6. ASSUME NEW x \in Objects PROVE ObjectInv(x)'
  <2>1. /\ Cardinality(StrongRefs(x)') = Cardinality(StrongRefs(x)) - (IF target[r] = x THEN 1 ELSE 0)
        /\ Cardinality(ControlRefs(x)') = Cardinality(ControlRefs(x))
    <3>1. SetRef(r, "none", None, None)
      BY <1>s DEF SetRef
    <3>2. Cardinality(StrongRefs(x)) \in Nat /\ Cardinality(ControlRefs(x)) \in Nat
      BY RefsToFinite
    <3>3. TypeOK
      BY <1>a
    <3> QED BY <1>0, <3>1, <3>2, <3>3, RefChange
  <2>2. /\ strong[x] \in Nat /\ weak[x] \in Nat
        /\ Cardinality(StrongRefs(x)) \in Nat /\ Cardinality(ControlRefs(x)) \in Nat
    BY <1>a, RefsToFinite DEF TypeOK, Counts
  <2> QED BY <1>a, <1>0, <1>s, <1>4, <2>1, <2>2 DEF ObjectInv
<1>7. LiveAllocationsExact'
  <2>1. Counted' = Counted
    BY <1>a, <1>0, <1>s DEF TypeOK, Counted
  <2> QED BY <1>a, <1>s, <2>1 DEF LiveAllocationsExact
<1> QED BY <1>1, <1>2, <1>3, <1>5, <1>6, <1>7 DEF IndInv

\* A release that goes on to the decrement.
LEMMA ReleaseStartInv ==
    ASSUME IndInv, NEW t \in Threads, NEW r \in Refs, MayRelease(t, r, "strong"),
           Goto(t, "subStrong", target[r], r, None, 0), UNCHANGED <<headers, refs, frames>>
    PROVE  IndInv'
<1>a. /\ TypeOK /\ ExclusiveInv /\ LiveAllocationsExact
      /\ \A q \in Refs : RefInv(q)
      /\ \A u \in Threads : CallInv(u)
      /\ \A x \in Objects : ObjectInv(x)
  BY DEF IndInv
<1>0. /\ kind[r] = "strong" /\ target[r] \in Objects /\ pc[t] \in {"idle", "destructor"} /\ hdr[t] = None
      /\ owner[r] = IF frames[t] = <<>> THEN t ELSE Top(t)
  BY <1>a, HandleFacts DEF MayRelease, Holds, Handle, CallInv
<1>s. /\ UNCHANGED <<kind, target, owner>>
      /\ pc' = [pc EXCEPT ![t] = "subStrong"] /\ hdr' = [hdr EXCEPT ![t] = target[r]]
      /\ src' = [src EXCEPT ![t] = r] /\ dst' = [dst EXCEPT ![t] = None] /\ cnt' = [cnt EXCEPT ![t] = 0]
      /\ UNCHANGED <<strong, weak, state, object, storage, live, frames>>
  BY DEF Goto, headers, refs
<1>1. TypeOK'
  BY <1>a, <1>0, <1>s DEF TypeOK, Counts, Steps
<1>2. \A q \in Refs : RefInv(q)'
  BY <1>a, <1>0, <1>s DEF TypeOK, RefInv, Handle
<1>3. \A u \in Threads : CallInv(u)'
  BY <1>a, <1>0, <1>s, TopFacts DEF TypeOK, CallInv, Handle, Holds, CapturesOf, Top
<1>4. \A u \in Threads, x \in Objects :
        /\ Destroying(u, x)' <=> Destroying(u, x)
        /\ Reclaiming(u, x)' <=> Reclaiming(u, x)
        /\ InDestructor(u, x)' <=> InDestructor(u, x)
  BY <1>a, <1>0, <1>s DEF TypeOK, Destroying, Reclaiming, InDestructor
<1>5. ExclusiveInv'
  BY <1>a, <1>s, <1>4 DEF ExclusiveInv
<1>6. ASSUME NEW x \in Objects PROVE ObjectInv(x)'
  <2>1. StrongRefs(x)' = StrongRefs(x) /\ ControlRefs(x)' = ControlRefs(x)
    BY <1>s, RefSame DEF refs
  <2> QED BY <1>a, <1>0, <1>s, <1>4, <2>1 DEF ObjectInv
<1>7. LiveAllocationsExact'
  <2>1. Counted' = Counted
    BY <1>a, <1>0, <1>s DEF TypeOK, Counted
  <2> QED BY <1>a, <1>s, <2>1 DEF LiveAllocationsExact
<1> QED BY <1>1, <1>2, <1>3, <1>5, <1>6, <1>7 DEF IndInv

\* A release that leaves other owners.
LEMMA SubStrongSharedInv ==
    ASSUME IndInv, NEW t \in Threads, SubStrong(t), strong[hdr[t]] # 1
    PROVE  IndInv'
<1> DEFINE r == src[t]  o == hdr[t]
<1>a. /\ TypeOK /\ ExclusiveInv /\ LiveAllocationsExact
      /\ \A q \in Refs : RefInv(q)
      /\ \A u \in Threads : CallInv(u)
      /\ \A x \in Objects : ObjectInv(x)
  BY DEF IndInv
<1>b. r \in Refs /\ kind[r] = "strong" /\ target[r] = o /\ pc[t] = "subStrong" /\ Handle(r)
  BY <1>a DEF SubStrong, SubStrongWhen, CallInv, Holds, Handle
<1>0. /\ r \in Refs /\ Handle(r) /\ kind[r] = "strong" /\ target[r] = o /\ o \in Objects
      /\ owner[r] = t \/ (frames[t] # <<>> /\ owner[r] = Top(t))
      /\ pc[t] = "subStrong" /\ strong[o] \in Nat /\ strong[o] > 0 /\ state[o] = "Alive"
      /\ \A u \in Threads : ~Destroying(u, o) /\ ~Reclaiming(u, o)
  <2>1. o \in Objects /\ strong[o] > 0 /\ state[o] = "Alive" /\ strong[o] \in Counts
    BY <1>b, HandleFacts
  <2> QED BY <1>a, <1>b, <2>1 DEF CallInv, Holds, ObjectInv, Counts
<1>c. (strong[o] - 1) % (MaxCount + 1) = strong[o] - 1
  BY <1>a, <1>0, Decrement DEF TypeOK
<1> HIDE DEF r, o
<1>s. /\ kind' = [kind EXCEPT ![r] = "none"] /\ target' = [target EXCEPT ![r] = None]
      /\ owner' = [owner EXCEPT ![r] = None]
      /\ pc' = [pc EXCEPT ![t] = IF frames[t] = <<>> THEN "idle" ELSE "destructor"] /\ hdr' = [hdr EXCEPT ![t] = None]
      /\ src' = [src EXCEPT ![t] = None] /\ dst' = [dst EXCEPT ![t] = None] /\ cnt' = [cnt EXCEPT ![t] = 0]
      /\ strong' = [strong EXCEPT ![o] = strong[o] - 1] /\ hdr[t] = o /\ src[t] = r
      /\ UNCHANGED <<weak, state, object, storage, live, frames>>
  BY <1>c DEF SubStrong, SubStrongWhen, ClearRef, SetRef, Return, Goto, r, o
<1>n. \A u \in Threads \ {t} :
        /\ pc[u] \in {"tryRetain", "retainControl", "subStrong"} => src[u] # r
        /\ pc[u] \in {"tryRetain", "retainControl", "loadObject"} => dst[u] # r
  BY <1>0, NotInUse
<1>1. TypeOK'
  BY <1>a, <1>0, <1>s DEF TypeOK, Counts, Steps
<1>2. \A q \in Refs : RefInv(q)'
  BY <1>a, <1>0, <1>s DEF TypeOK, RefInv, Handle
<1>3. \A u \in Threads : CallInv(u)'
  BY <1>a, <1>0, <1>n, <1>s, TopFacts DEF TypeOK, CallInv, Handle, Holds, CapturesOf, Top
<1>4. \A u \in Threads, x \in Objects :
        /\ Destroying(u, x)' <=> Destroying(u, x)
        /\ Reclaiming(u, x)' <=> Reclaiming(u, x)
        /\ InDestructor(u, x)' <=> InDestructor(u, x)
  BY <1>a, <1>0, <1>s DEF TypeOK, Destroying, Reclaiming, InDestructor
<1>5. ExclusiveInv'
  BY <1>a, <1>0, <1>s, <1>4 DEF ExclusiveInv
<1>6. ASSUME NEW x \in Objects PROVE ObjectInv(x)'
  <2>1. /\ Cardinality(StrongRefs(x)') = Cardinality(StrongRefs(x)) - (IF o = x THEN 1 ELSE 0)
        /\ Cardinality(ControlRefs(x)') = Cardinality(ControlRefs(x))
    <3>1. SetRef(r, "none", None, None)
      BY <1>s DEF SetRef
    <3>2. Cardinality(StrongRefs(x)) \in Nat /\ Cardinality(ControlRefs(x)) \in Nat
      BY RefsToFinite
    <3>3. TypeOK
      BY <1>a
    <3>4. r \in Refs /\ kind[r] = "strong" /\ target[r] = o
      BY <1>0
    <3> QED BY <3>1, <3>2, <3>3, <3>4, RefChange
  <2>2. /\ strong[x] \in Nat /\ weak[x] \in Nat
        /\ Cardinality(StrongRefs(x)) \in Nat /\ Cardinality(ControlRefs(x)) \in Nat
    BY <1>a, RefsToFinite DEF TypeOK, Counts
  <2>3. strong'[x] = strong[x] - (IF o = x THEN 1 ELSE 0)
    BY <1>a, <1>0, <1>s, <2>2 DEF TypeOK
  <2>4. o = x => strong[x] # 1
    BY DEF o
  <2> QED BY <1>a, <1>0, <1>s, <1>4, <2>1, <2>2, <2>3, <2>4 DEF ObjectInv
<1>7. LiveAllocationsExact'
  <2>1. Counted' = Counted
    BY <1>a, <1>0, <1>s DEF TypeOK, Counted
  <2> QED BY <1>a, <1>s, <2>1 DEF LiveAllocationsExact
<1> QED BY <1>1, <1>2, <1>3, <1>5, <1>6, <1>7 DEF IndInv

\* The last release: its thread alone goes on to destroy the object.
LEMMA SubStrongLastInv ==
    ASSUME IndInv, NEW t \in Threads, SubStrong(t), strong[hdr[t]] = 1
    PROVE  IndInv'
<1> DEFINE r == src[t]  o == hdr[t]
<1>a. /\ TypeOK /\ ExclusiveInv /\ LiveAllocationsExact
      /\ \A q \in Refs : RefInv(q)
      /\ \A u \in Threads : CallInv(u)
      /\ \A x \in Objects : ObjectInv(x)
  BY DEF IndInv
<1>b. r \in Refs /\ kind[r] = "strong" /\ target[r] = o /\ pc[t] = "subStrong" /\ Handle(r)
  BY <1>a DEF SubStrong, SubStrongWhen, CallInv, Holds, Handle
<1>0. /\ r \in Refs /\ Handle(r) /\ kind[r] = "strong" /\ target[r] = o /\ o \in Objects
      /\ owner[r] = t \/ (frames[t] # <<>> /\ owner[r] = Top(t))
      /\ pc[t] = "subStrong" /\ strong[o] \in Nat /\ strong[o] > 0 /\ state[o] = "Alive"
      /\ \A u \in Threads : ~Destroying(u, o) /\ ~Reclaiming(u, o)
  <2>1. o \in Objects /\ strong[o] > 0 /\ state[o] = "Alive" /\ strong[o] \in Counts
    BY <1>b, HandleFacts
  <2> QED BY <1>a, <1>b, <2>1 DEF CallInv, Holds, ObjectInv, Counts
<1>c. (strong[o] - 1) % (MaxCount + 1) = strong[o] - 1
  BY <1>a, <1>0, Decrement DEF TypeOK
<1> HIDE DEF r, o
<1>s. /\ kind' = [kind EXCEPT ![r] = "none"] /\ target' = [target EXCEPT ![r] = None]
      /\ owner' = [owner EXCEPT ![r] = None]
      /\ pc' = [pc EXCEPT ![t] = "beginDestroy"] /\ hdr' = [hdr EXCEPT ![t] = o]
      /\ src' = [src EXCEPT ![t] = None] /\ dst' = [dst EXCEPT ![t] = None] /\ cnt' = [cnt EXCEPT ![t] = 0]
      /\ strong' = [strong EXCEPT ![o] = strong[o] - 1] /\ hdr[t] = o /\ src[t] = r
      /\ UNCHANGED <<weak, state, object, storage, live, frames>>
  BY <1>c DEF SubStrong, SubStrongWhen, ClearRef, SetRef, Return, Goto, r, o
<1>n. \A u \in Threads \ {t} :
        /\ pc[u] \in {"tryRetain", "retainControl", "subStrong"} => src[u] # r
        /\ pc[u] \in {"tryRetain", "retainControl", "loadObject"} => dst[u] # r
  BY <1>0, NotInUse
<1>1. TypeOK'
  BY <1>a, <1>0, <1>s DEF TypeOK, Counts, Steps
<1>2. \A q \in Refs : RefInv(q)'
  BY <1>a, <1>0, <1>s DEF TypeOK, RefInv, Handle
<1>3. \A u \in Threads : CallInv(u)'
  BY <1>a, <1>0, <1>n, <1>s, TopFacts DEF TypeOK, CallInv, Handle, Holds, CapturesOf, Top
<1>4. \A u \in Threads, x \in Objects :
        /\ Destroying(u, x)' <=> Destroying(u, x) \/ (u = t /\ x = o)
        /\ Reclaiming(u, x)' <=> Reclaiming(u, x)
        /\ InDestructor(u, x)' <=> InDestructor(u, x)
  BY <1>a, <1>0, <1>s DEF TypeOK, Destroying, Reclaiming, InDestructor
<1>5. ExclusiveInv'
  BY <1>a, <1>0, <1>s, <1>4 DEF ExclusiveInv
<1>6. ASSUME NEW x \in Objects PROVE ObjectInv(x)'
  <2>1. /\ Cardinality(StrongRefs(x)') = Cardinality(StrongRefs(x)) - (IF o = x THEN 1 ELSE 0)
        /\ Cardinality(ControlRefs(x)') = Cardinality(ControlRefs(x))
    <3>1. SetRef(r, "none", None, None)
      BY <1>s DEF SetRef
    <3>2. Cardinality(StrongRefs(x)) \in Nat /\ Cardinality(ControlRefs(x)) \in Nat
      BY RefsToFinite
    <3>3. TypeOK
      BY <1>a
    <3>4. r \in Refs /\ kind[r] = "strong" /\ target[r] = o
      BY <1>0
    <3> QED BY <3>1, <3>2, <3>3, <3>4, RefChange
  <2>2. /\ strong[x] \in Nat /\ weak[x] \in Nat
        /\ Cardinality(StrongRefs(x)) \in Nat /\ Cardinality(ControlRefs(x)) \in Nat
    BY <1>a, RefsToFinite DEF TypeOK, Counts
  <2>3. strong'[x] = strong[x] - (IF o = x THEN 1 ELSE 0)
    BY <1>a, <1>0, <1>s, <2>2 DEF TypeOK
  <2>4. o = x => strong[x] = 1
    BY DEF o
  <2> QED BY <1>a, <1>0, <1>s, <1>4, <2>1, <2>2, <2>3, <2>4 DEF ObjectInv
<1>7. LiveAllocationsExact'
  <2>1. Counted' = Counted
    BY <1>a, <1>0, <1>s DEF TypeOK, Counted
  <2> QED BY <1>a, <1>s, <2>1 DEF LiveAllocationsExact
<1> QED BY <1>1, <1>2, <1>3, <1>5, <1>6, <1>7 DEF IndInv

\* The destructor starts on an object that is still marked Alive.
LEMMA BeginDestroyInv ==
    ASSUME IndInv, NEW t \in Threads, BeginDestroy(t)
    PROVE  IndInv'
<1> DEFINE o == hdr[t]
<1>a. /\ TypeOK /\ ExclusiveInv /\ LiveAllocationsExact
      /\ \A q \in Refs : RefInv(q)
      /\ \A u \in Threads : CallInv(u)
      /\ \A x \in Objects : ObjectInv(x)
  BY DEF IndInv
<1>0. /\ o \in Objects /\ state[o] = "Alive" /\ pc[t] = "beginDestroy"
      /\ frames[t] \in Seq(Objects) /\ Destroying(t, o) /\ strong[o] = 0 /\ storage[o] = "live"
      /\ \A u \in Threads : ~InDestructor(u, o)
  BY <1>a DEF BeginDestroy, CallInv, TypeOK, Destroying, ObjectInv
<1> HIDE DEF o
<1>s. /\ UNCHANGED <<kind, target, owner>>
      /\ pc' = [pc EXCEPT ![t] = "destructor"] /\ hdr' = [hdr EXCEPT ![t] = None]
      /\ src' = [src EXCEPT ![t] = None] /\ dst' = [dst EXCEPT ![t] = None] /\ cnt' = [cnt EXCEPT ![t] = 0]
      /\ state' = [state EXCEPT ![o] = "Destroying"]
      /\ frames' = [frames EXCEPT ![t] = Append(frames[t], o)] /\ hdr[t] = o
      /\ UNCHANGED <<strong, weak, object, storage, live>>
  BY <1>0 DEF BeginDestroy, Goto, refs, o
<1>f. /\ Append(frames[t], o) \in Seq(Objects) /\ Append(frames[t], o) # <<>>
      /\ Len(frames[t]) \in Nat /\ Len(Append(frames[t], o)) = Len(frames[t]) + 1
      /\ \A i \in 1..Len(frames[t]) : Append(frames[t], o)[i] = frames[t][i]
      /\ Append(frames[t], o)[Len(frames[t]) + 1] = o
  BY <1>0
<1>g. \A u \in Threads : frames'[u] = IF u = t THEN Append(frames[t], o) ELSE frames[u]
  BY <1>a, <1>s DEF TypeOK
<1>1. TypeOK'
  BY <1>a, <1>0, <1>s, <1>f DEF TypeOK, Counts, Steps
<1>2. \A r \in Refs : RefInv(r)'
  BY <1>a, <1>0, <1>s DEF TypeOK, RefInv, Handle
<1>3. \A u \in Threads : CallInv(u)'
  <2>1. ASSUME NEW u \in Threads, u # t, pc[u] = "beginDestroy" PROVE hdr[u] # o
    BY <1>a, <1>0, <2>1 DEF ExclusiveInv, Destroying
  <2>2. CallInv(t)'
    BY <1>a, <1>0, <1>s, <1>f, <1>g DEF CallInv, TypeOK
  <2>3. ASSUME NEW u \in Threads, u # t PROVE CallInv(u)'
    BY <1>a, <1>0, <1>s, <1>g, <2>1, <2>3 DEF TypeOK, CallInv, Handle, Holds, CapturesOf, Top
  <2> QED BY <2>2, <2>3
<1>4. \A u \in Threads, x \in Objects :
        /\ InDestructor(u, x)' <=> InDestructor(u, x) \/ (u = t /\ x = o)
        /\ Destroying(u, x)' <=> Destroying(u, x)
        /\ Reclaiming(u, x)' <=> Reclaiming(u, x)
  <2>1. ASSUME NEW u \in Threads, NEW x \in Objects
        PROVE  InDestructor(u, x)' <=> InDestructor(u, x) \/ (u = t /\ x = o)
    <3>1. CASE u # t
      BY <1>g, <3>1 DEF InDestructor
    <3>2. CASE u = t
      <4>1. InDestructor(t, x)' <=> \E i \in 1..(Len(frames[t]) + 1) : Append(frames[t], o)[i] = x
        BY <1>f, <1>g DEF InDestructor
      <4>2. (\E i \in 1..(Len(frames[t]) + 1) : Append(frames[t], o)[i] = x)
            <=> x = o \/ \E i \in 1..Len(frames[t]) : frames[t][i] = x
        BY <1>f
      <4> QED BY <3>2, <4>1, <4>2 DEF InDestructor
    <3> QED BY <3>1, <3>2
  <2> QED BY <1>a, <1>0, <1>s, <2>1 DEF TypeOK, Destroying, Reclaiming
<1>5. ExclusiveInv'
  <2>1. \A i, j \in 1..Len(frames'[t]) : frames'[t][i] = frames'[t][j] => i = j
    <3>1. \A i \in 1..Len(frames[t]) : frames[t][i] # o
      BY <1>0 DEF InDestructor
    <3>2. \A i, j \in 1..Len(frames[t]) : frames[t][i] = frames[t][j] => i = j
      BY <1>a DEF ExclusiveInv
    <3>3. frames'[t] = Append(frames[t], o)
      BY <1>g
    <3>4. SUFFICES ASSUME NEW i \in 1..(Len(frames[t]) + 1), NEW j \in 1..(Len(frames[t]) + 1),
                          Append(frames[t], o)[i] = Append(frames[t], o)[j]
                   PROVE  i = j
      BY <1>f, <3>3
    <3>5. CASE i \in 1..Len(frames[t]) /\ j \in 1..Len(frames[t])
      BY <1>f, <3>2, <3>4, <3>5
    <3>6. CASE i = Len(frames[t]) + 1 \/ j = Len(frames[t]) + 1
      BY <1>f, <3>1, <3>4, <3>6
    <3> QED BY <1>f, <3>5, <3>6
  <2> QED BY <1>a, <1>g, <1>4, <2>1 DEF ExclusiveInv
<1>6. ASSUME NEW x \in Objects PROVE ObjectInv(x)'
  <2>1. StrongRefs(x)' = StrongRefs(x) /\ ControlRefs(x)' = ControlRefs(x)
    BY <1>s, RefSame DEF refs
  <2> QED BY <1>a, <1>0, <1>s, <1>4, <2>1 DEF ObjectInv, TypeOK
<1>7. LiveAllocationsExact'
  <2>1. Counted' = Counted
    BY <1>a, <1>0, <1>s DEF TypeOK, Counted
  <2> QED BY <1>a, <1>s, <2>1 DEF LiveAllocationsExact
<1> QED BY <1>1, <1>2, <1>3, <1>5, <1>6, <1>7 DEF IndInv

\* The destructor has returned: the payload pointer is cleared.
LEMMA ClearObjectInv ==
    ASSUME IndInv, NEW t \in Threads, ClearObject(t)
    PROVE  IndInv'
<1> DEFINE o == Top(t)
<1>a. /\ TypeOK /\ ExclusiveInv /\ LiveAllocationsExact
      /\ \A q \in Refs : RefInv(q)
      /\ \A u \in Threads : CallInv(u)
      /\ \A x \in Objects : ObjectInv(x)
  BY DEF IndInv
<1>0. /\ o \in Objects /\ InDestructor(t, o) /\ Destroying(t, o) /\ frames[t] # <<>>
      /\ state[o] = "Destroying" /\ strong[o] = 0 /\ storage[o] = "live"
      /\ pc[t] = "destructor" /\ hdr[t] = None /\ CapturesOf(o) = {}
  BY <1>a, TopFacts DEF ClearObject, CallInv, ObjectInv
<1>s. /\ UNCHANGED <<kind, target, owner>>
      /\ pc' = [pc EXCEPT ![t] = "markDestroyed"] /\ hdr' = [hdr EXCEPT ![t] = o]
      /\ src' = [src EXCEPT ![t] = None] /\ dst' = [dst EXCEPT ![t] = None] /\ cnt' = [cnt EXCEPT ![t] = 0]
      /\ object' = [object EXCEPT ![o] = FALSE]
      /\ UNCHANGED <<strong, weak, state, storage, live, frames>>
  BY DEF ClearObject, Goto, refs
<1>t. Top(t)' = o
  BY <1>s DEF Top
<1> HIDE DEF o
<1>1. TypeOK'
  BY <1>a, <1>0, <1>s DEF TypeOK, Counts, Steps
<1>2. \A q \in Refs : RefInv(q)'
  BY <1>a, <1>0, <1>s DEF TypeOK, RefInv, Handle
<1>3. \A u \in Threads : CallInv(u)'
  BY <1>a, <1>0, <1>s, <1>t DEF TypeOK, CallInv, Handle, Holds, CapturesOf, Top
<1>4. \A u \in Threads, x \in Objects :
        /\ Destroying(u, x)' <=> Destroying(u, x)
        /\ Reclaiming(u, x)' <=> Reclaiming(u, x)
        /\ InDestructor(u, x)' <=> InDestructor(u, x)
  BY <1>a, <1>0, <1>s DEF TypeOK, Destroying, Reclaiming, InDestructor
<1>5. ExclusiveInv'
  BY <1>a, <1>s, <1>4 DEF ExclusiveInv
<1>6. ASSUME NEW x \in Objects PROVE ObjectInv(x)'
  <2>1. StrongRefs(x)' = StrongRefs(x) /\ ControlRefs(x)' = ControlRefs(x)
    BY <1>s, RefSame DEF refs
  <2> QED BY <1>a, <1>0, <1>s, <1>4, <2>1 DEF ObjectInv, TypeOK
<1>7. LiveAllocationsExact'
  <2>1. Counted' = Counted
    BY <1>a, <1>0, <1>s DEF TypeOK, Counted
  <2> QED BY <1>a, <1>s, <2>1 DEF LiveAllocationsExact
<1> QED BY <1>1, <1>2, <1>3, <1>5, <1>6, <1>7 DEF IndInv

\* Destroyed is published and the destructor's frame is left.
LEMMA MarkDestroyedInv ==
    ASSUME IndInv, NEW t \in Threads, MarkDestroyed(t)
    PROVE  IndInv'
<1> DEFINE o == hdr[t]  n == Len(frames[t])  f == SubSeq(frames[t], 1, n - 1)
<1>a. /\ TypeOK /\ ExclusiveInv /\ LiveAllocationsExact
      /\ \A q \in Refs : RefInv(q)
      /\ \A u \in Threads : CallInv(u)
      /\ \A x \in Objects : ObjectInv(x)
  BY DEF IndInv
<1>0. /\ o \in Objects /\ InDestructor(t, o) /\ Destroying(t, o) /\ frames[t] # <<>>
      /\ state[o] = "Destroying" /\ strong[o] = 0 /\ storage[o] = "live"
      /\ pc[t] = "markDestroyed" /\ CapturesOf(o) = {} /\ o = frames[t][n]
      /\ n \in Nat /\ n >= 1 /\ frames[t] \in Seq(Objects)
  BY <1>a, TopFacts DEF MarkDestroyed, CallInv, ObjectInv, Top, TypeOK
<1>f. f \in Seq(Objects) /\ Len(f) = n - 1 /\ \A i \in 1..(n - 1) : f[i] = frames[t][i]
  BY <1>0
<1>s. /\ UNCHANGED <<kind, target, owner>>
      /\ pc' = [pc EXCEPT ![t] = "dropImplicit"] /\ hdr' = [hdr EXCEPT ![t] = o]
      /\ src' = [src EXCEPT ![t] = None] /\ dst' = [dst EXCEPT ![t] = None] /\ cnt' = [cnt EXCEPT ![t] = 0]
      /\ state' = [state EXCEPT ![o] = "Destroyed"]
      /\ frames' = [frames EXCEPT ![t] = f] /\ hdr[t] = o
      /\ UNCHANGED <<strong, weak, object, storage, live>>
  BY DEF MarkDestroyed, Goto, refs
<1> HIDE DEF o, f
<1>g. \A u \in Threads : frames'[u] = IF u = t THEN f ELSE frames[u]
  BY <1>a, <1>s DEF TypeOK
<1>1. TypeOK'
  BY <1>a, <1>0, <1>s, <1>f DEF TypeOK, Counts, Steps
<1>2. \A r \in Refs : RefInv(r)'
  BY <1>a, <1>0, <1>s DEF TypeOK, RefInv, Handle, CapturesOf
<1>3. \A u \in Threads : CallInv(u)'
  <2>1. CallInv(t)'
    BY <1>a, <1>0, <1>s, <1>g DEF CallInv, TypeOK
  <2>2. ASSUME NEW u \in Threads, u # t PROVE CallInv(u)'
    BY <1>a, <1>0, <1>s, <1>g, <2>2 DEF TypeOK, CallInv, Handle, Holds, CapturesOf, Top
  <2> QED BY <2>1, <2>2
<1>4. \A u \in Threads, x \in Objects :
        /\ InDestructor(u, x)' <=> InDestructor(u, x) /\ ~(u = t /\ x = o)
        /\ Destroying(u, x)' <=> Destroying(u, x)
        /\ Reclaiming(u, x)' <=> Reclaiming(u, x)
  <2>1. ASSUME NEW u \in Threads, NEW x \in Objects, u # t
        PROVE  InDestructor(u, x)' <=> InDestructor(u, x)
    BY <1>g, <2>1 DEF InDestructor
  <2>2. ASSUME NEW x \in Objects
        PROVE  InDestructor(t, x)' <=> InDestructor(t, x) /\ x # o
    <3>1. \A i \in 1..(n - 1) : frames[t][i] # o
      BY <1>a, <1>0 DEF ExclusiveInv
    <3>2. InDestructor(t, x)' <=> \E i \in 1..(n - 1) : frames[t][i] = x
      BY <1>f, <1>g DEF InDestructor
    <3>3. InDestructor(t, x) <=> x = o \/ \E i \in 1..(n - 1) : frames[t][i] = x
      BY <1>0 DEF InDestructor
    <3> QED BY <3>1, <3>2, <3>3
  <2>3. ASSUME NEW u \in Threads, NEW x \in Objects
        PROVE  InDestructor(u, x)' <=> InDestructor(u, x) /\ ~(u = t /\ x = o)
    BY <2>1, <2>2
  <2> QED BY <1>a, <1>0, <1>s, <2>3 DEF TypeOK, Destroying, Reclaiming
<1>5. ExclusiveInv'
  <2>1. \A i, j \in 1..Len(frames'[t]) : frames'[t][i] = frames'[t][j] => i = j
    <3>1. \A i, j \in 1..n : frames[t][i] = frames[t][j] => i = j
      BY <1>a DEF ExclusiveInv
    <3>2. frames'[t] = f
      BY <1>g
    <3> QED BY <1>0, <1>f, <3>1, <3>2
  <2> QED BY <1>a, <1>g, <1>4, <2>1 DEF ExclusiveInv
<1>6. ASSUME NEW x \in Objects PROVE ObjectInv(x)'
  <2>1. StrongRefs(x)' = StrongRefs(x) /\ ControlRefs(x)' = ControlRefs(x)
    BY <1>s, RefSame DEF refs
  <2>2. x = o => \A u \in Threads : InDestructor(u, x) => u = t
    BY <1>a, <1>0 DEF ExclusiveInv, Destroying
  <2> QED BY <1>a, <1>0, <1>s, <1>4, <2>1, <2>2 DEF ObjectInv, TypeOK
<1>7. LiveAllocationsExact'
  <2>1. Counted' = Counted
    BY <1>a, <1>0, <1>s DEF TypeOK, Counted
  <2> QED BY <1>a, <1>s, <2>1 DEF LiveAllocationsExact
<1> QED BY <1>1, <1>2, <1>3, <1>5, <1>6, <1>7 DEF IndInv

\* The implicit weak reference is dropped and handles remain.
LEMMA DropImplicitSharedInv ==
    ASSUME IndInv, NEW t \in Threads, DropImplicit(t), weak[hdr[t]] # 1
    PROVE  IndInv'
<1> DEFINE o == hdr[t]
<1>a. /\ TypeOK /\ ExclusiveInv /\ LiveAllocationsExact
      /\ \A q \in Refs : RefInv(q)
      /\ \A u \in Threads : CallInv(u)
      /\ \A x \in Objects : ObjectInv(x)
  BY DEF IndInv
<1>0. /\ o \in Objects /\ pc[t] = "dropImplicit" /\ state[o] = "Destroyed" /\ Destroying(t, o)
      /\ storage[o] = "live" /\ strong[o] = 0 /\ weak[o] \in Nat /\ weak[o] > 0
      /\ \A u \in Threads : ~InDestructor(u, o) /\ ~Reclaiming(u, o)
  <2>1. /\ o \in Objects /\ pc[t] = "dropImplicit" /\ state[o] = "Destroyed" /\ Destroying(t, o)
        /\ \A u \in Threads : ~InDestructor(u, o)
    BY <1>a DEF DropImplicit, CallInv, Destroying, ObjectInv
  <2>2. storage[o] = "live" /\ strong[o] = 0 /\ weak[o] = Cardinality(ControlRefs(o)) + 1
    BY <1>a, <2>1 DEF ObjectInv
  <2>3. Cardinality(ControlRefs(o)) \in Nat
    BY <2>1, RefsToFinite
  <2>4. weak[o] \in Nat /\ weak[o] > 0
    BY <2>2, <2>3
  <2>5. \A u \in Threads : ~Reclaiming(u, o)
    BY <1>a, <2>1, <2>4 DEF ObjectInv
  <2> QED BY <2>1, <2>2, <2>4, <2>5
<1>c. (weak[o] - 1) % (MaxCount + 1) = weak[o] - 1
  BY <1>a, <1>0, Decrement DEF TypeOK
<1>d. weak[o] # 1
  OBVIOUS
<1> HIDE DEF o
<1>s. /\ UNCHANGED <<kind, target, owner>>
      /\ pc' = [pc EXCEPT ![t] = IF frames[t] = <<>> THEN "idle" ELSE "destructor"] /\ hdr' = [hdr EXCEPT ![t] = None]
      /\ src' = [src EXCEPT ![t] = None] /\ dst' = [dst EXCEPT ![t] = None] /\ cnt' = [cnt EXCEPT ![t] = 0]
      /\ weak' = [weak EXCEPT ![o] = weak[o] - 1] /\ hdr[t] = o
      /\ UNCHANGED <<strong, state, object, storage, live, frames>>
  BY <1>c, <1>d DEF DropImplicit, SubWeak, Return, Goto, refs, o
<1>1. TypeOK'
  BY <1>a, <1>0, <1>s DEF TypeOK, Counts, Steps
<1>2. \A q \in Refs : RefInv(q)'
  BY <1>a, <1>0, <1>s DEF TypeOK, RefInv, Handle
<1>3. \A u \in Threads : CallInv(u)'
  BY <1>a, <1>0, <1>s, TopFacts DEF TypeOK, CallInv, Handle, Holds, CapturesOf, Top
<1>4. \A u \in Threads, x \in Objects :
        /\ Destroying(u, x)' <=> Destroying(u, x) /\ ~(u = t /\ x = o)
        /\ Reclaiming(u, x)' <=> Reclaiming(u, x)
        /\ InDestructor(u, x)' <=> InDestructor(u, x)
  BY <1>a, <1>0, <1>s DEF TypeOK, Destroying, Reclaiming, InDestructor
<1>5. ExclusiveInv'
  BY <1>a, <1>0, <1>s, <1>4 DEF ExclusiveInv
<1>6. ASSUME NEW x \in Objects PROVE ObjectInv(x)'
  <2>1. StrongRefs(x)' = StrongRefs(x) /\ ControlRefs(x)' = ControlRefs(x)
    BY <1>s, RefSame DEF refs
  <2>2. /\ strong[x] \in Nat /\ weak[x] \in Nat
        /\ Cardinality(StrongRefs(x)) \in Nat /\ Cardinality(ControlRefs(x)) \in Nat
    BY <1>a, RefsToFinite DEF TypeOK, Counts
  <2>3. weak'[x] = weak[x] - (IF o = x THEN 1 ELSE 0)
    BY <1>a, <1>0, <1>s, <2>2 DEF TypeOK
  <2>4. x = o => \A u \in Threads : Destroying(u, x) => u = t
    BY <1>a, <1>0 DEF ExclusiveInv
  <2> QED BY <1>a, <1>0, <1>d, <1>s, <1>4, <2>1, <2>2, <2>3, <2>4 DEF ObjectInv
<1>7. LiveAllocationsExact'
  <2>1. Counted' = Counted
    BY <1>a, <1>0, <1>s DEF TypeOK, Counted
  <2> QED BY <1>a, <1>s, <2>1 DEF LiveAllocationsExact
<1> QED BY <1>1, <1>2, <1>3, <1>5, <1>6, <1>7 DEF IndInv

\* The implicit weak reference is dropped and it was the last.
LEMMA DropImplicitLastInv ==
    ASSUME IndInv, NEW t \in Threads, DropImplicit(t), weak[hdr[t]] = 1
    PROVE  IndInv'
<1> DEFINE o == hdr[t]
<1>a. /\ TypeOK /\ ExclusiveInv /\ LiveAllocationsExact
      /\ \A q \in Refs : RefInv(q)
      /\ \A u \in Threads : CallInv(u)
      /\ \A x \in Objects : ObjectInv(x)
  BY DEF IndInv
<1>0. /\ o \in Objects /\ pc[t] = "dropImplicit" /\ state[o] = "Destroyed" /\ Destroying(t, o)
      /\ storage[o] = "live" /\ strong[o] = 0 /\ weak[o] \in Nat /\ weak[o] > 0
      /\ \A u \in Threads : ~InDestructor(u, o) /\ ~Reclaiming(u, o)
  <2>1. /\ o \in Objects /\ pc[t] = "dropImplicit" /\ state[o] = "Destroyed" /\ Destroying(t, o)
        /\ \A u \in Threads : ~InDestructor(u, o)
    BY <1>a DEF DropImplicit, CallInv, Destroying, ObjectInv
  <2>2. storage[o] = "live" /\ strong[o] = 0 /\ weak[o] = Cardinality(ControlRefs(o)) + 1
    BY <1>a, <2>1 DEF ObjectInv
  <2>3. Cardinality(ControlRefs(o)) \in Nat
    BY <2>1, RefsToFinite
  <2>4. weak[o] \in Nat /\ weak[o] > 0
    BY <2>2, <2>3
  <2>5. \A u \in Threads : ~Reclaiming(u, o)
    BY <1>a, <2>1, <2>4 DEF ObjectInv
  <2> QED BY <2>1, <2>2, <2>4, <2>5
<1>c. (weak[o] - 1) % (MaxCount + 1) = weak[o] - 1
  BY <1>a, <1>0, Decrement DEF TypeOK
<1>d. weak[o] = 1
  OBVIOUS
<1> HIDE DEF o
<1>s. /\ UNCHANGED <<kind, target, owner>>
      /\ pc' = [pc EXCEPT ![t] = "uncount"] /\ hdr' = [hdr EXCEPT ![t] = o]
      /\ src' = [src EXCEPT ![t] = None] /\ dst' = [dst EXCEPT ![t] = None] /\ cnt' = [cnt EXCEPT ![t] = 0]
      /\ weak' = [weak EXCEPT ![o] = weak[o] - 1] /\ hdr[t] = o
      /\ UNCHANGED <<strong, state, object, storage, live, frames>>
  BY <1>c, <1>d DEF DropImplicit, SubWeak, Return, Goto, refs, o
<1>1. TypeOK'
  BY <1>a, <1>0, <1>s DEF TypeOK, Counts, Steps
<1>2. \A q \in Refs : RefInv(q)'
  BY <1>a, <1>0, <1>s DEF TypeOK, RefInv, Handle
<1>3. \A u \in Threads : CallInv(u)'
  BY <1>a, <1>0, <1>s, TopFacts DEF TypeOK, CallInv, Handle, Holds, CapturesOf, Top
<1>4. \A u \in Threads, x \in Objects :
        /\ Destroying(u, x)' <=> Destroying(u, x) /\ ~(u = t /\ x = o)
        /\ Reclaiming(u, x)' <=> Reclaiming(u, x) \/ (u = t /\ x = o)
        /\ InDestructor(u, x)' <=> InDestructor(u, x)
  BY <1>a, <1>0, <1>s DEF TypeOK, Destroying, Reclaiming, InDestructor
<1>5. ExclusiveInv'
  BY <1>a, <1>0, <1>s, <1>4 DEF ExclusiveInv
<1>6. ASSUME NEW x \in Objects PROVE ObjectInv(x)'
  <2>1. StrongRefs(x)' = StrongRefs(x) /\ ControlRefs(x)' = ControlRefs(x)
    BY <1>s, RefSame DEF refs
  <2>2. /\ strong[x] \in Nat /\ weak[x] \in Nat
        /\ Cardinality(StrongRefs(x)) \in Nat /\ Cardinality(ControlRefs(x)) \in Nat
    BY <1>a, RefsToFinite DEF TypeOK, Counts
  <2>3. weak'[x] = weak[x] - (IF o = x THEN 1 ELSE 0)
    BY <1>a, <1>0, <1>s, <2>2 DEF TypeOK
  <2>4. x = o => \A u \in Threads : Destroying(u, x) => u = t
    BY <1>a, <1>0 DEF ExclusiveInv
  <2> QED BY <1>a, <1>0, <1>d, <1>s, <1>4, <2>1, <2>2, <2>3, <2>4 DEF ObjectInv
<1>7. LiveAllocationsExact'
  <2>1. Counted' = Counted
    BY <1>a, <1>0, <1>s DEF TypeOK, Counted
  <2> QED BY <1>a, <1>s, <2>1 DEF LiveAllocationsExact
<1> QED BY <1>1, <1>2, <1>3, <1>5, <1>6, <1>7 DEF IndInv

\* A weak or unowned handle is released and the header stays.
LEMMA ReleaseWeakSharedInv ==
    ASSUME IndInv, NEW t \in Threads, NEW r \in Refs, ReleaseWeak(t, r), weak[target[r]] # 1
    PROVE  IndInv'
<1> DEFINE o == target[r]
<1>a. /\ TypeOK /\ ExclusiveInv /\ LiveAllocationsExact
      /\ \A q \in Refs : RefInv(q)
      /\ \A u \in Threads : CallInv(u)
      /\ \A x \in Objects : ObjectInv(x)
  BY DEF IndInv
<1>b. /\ Handle(r) /\ kind[r] = "control" /\ pc[t] \in {"idle", "destructor"} /\ hdr[t] = None
      /\ owner[r] = t \/ (frames[t] # <<>> /\ owner[r] = Top(t))
  BY <1>a DEF ReleaseWeak, MayRelease, Holds, Handle, CallInv
<1>0. /\ Handle(r) /\ kind[r] = "control" /\ pc[t] \in {"idle", "destructor"} /\ hdr[t] = None
      /\ owner[r] = t \/ (frames[t] # <<>> /\ owner[r] = Top(t))
      /\ o \in Objects /\ storage[o] = "live" /\ weak[o] \in Nat /\ weak[o] > 0
      /\ \A u \in Threads : ~Reclaiming(u, o)
  <2>1. o \in Objects /\ storage[o] = "live" /\ weak[o] \in Counts /\ weak[o] > 0
    BY <1>b, HandleFacts
  <2> QED BY <1>a, <1>b, <2>1 DEF ObjectInv, Counts
<1>c. (weak[o] - 1) % (MaxCount + 1) = weak[o] - 1
  BY <1>a, <1>0, Decrement DEF TypeOK
<1>d. weak[o] # 1 /\ target[r] = o
  OBVIOUS
<1> HIDE DEF o
<1>s. /\ kind' = [kind EXCEPT ![r] = "none"] /\ target' = [target EXCEPT ![r] = None]
      /\ owner' = [owner EXCEPT ![r] = None]
      /\ pc' = [pc EXCEPT ![t] = IF frames[t] = <<>> THEN "idle" ELSE "destructor"] /\ hdr' = [hdr EXCEPT ![t] = None]
      /\ src' = [src EXCEPT ![t] = None] /\ dst' = [dst EXCEPT ![t] = None] /\ cnt' = [cnt EXCEPT ![t] = 0]
      /\ weak' = [weak EXCEPT ![o] = weak[o] - 1]
      /\ UNCHANGED <<strong, state, object, storage, live, frames>>
  BY <1>c, <1>d DEF ReleaseWeak, SubWeak, ClearRef, SetRef, Return, Goto, o
<1>n. \A u \in Threads \ {t} :
        /\ pc[u] \in {"tryRetain", "retainControl", "subStrong"} => src[u] # r
        /\ pc[u] \in {"tryRetain", "retainControl", "loadObject"} => dst[u] # r
  BY <1>0, NotInUse
<1>1. TypeOK'
  BY <1>a, <1>0, <1>s DEF TypeOK, Counts, Steps
<1>2. \A q \in Refs : RefInv(q)'
  BY <1>a, <1>0, <1>s DEF TypeOK, RefInv, Handle
<1>3. \A u \in Threads : CallInv(u)'
  BY <1>a, <1>0, <1>n, <1>s, TopFacts DEF TypeOK, CallInv, Handle, Holds, CapturesOf, Top
<1>4. \A u \in Threads, x \in Objects :
        /\ Destroying(u, x)' <=> Destroying(u, x)
        /\ Reclaiming(u, x)' <=> Reclaiming(u, x)
        /\ InDestructor(u, x)' <=> InDestructor(u, x)
  BY <1>a, <1>0, <1>s DEF TypeOK, Destroying, Reclaiming, InDestructor
<1>5. ExclusiveInv'
  BY <1>a, <1>0, <1>s, <1>4 DEF ExclusiveInv
<1>6. ASSUME NEW x \in Objects PROVE ObjectInv(x)'
  <2>1. /\ Cardinality(StrongRefs(x)') = Cardinality(StrongRefs(x))
        /\ Cardinality(ControlRefs(x)') = Cardinality(ControlRefs(x)) - (IF o = x THEN 1 ELSE 0)
    <3>1. SetRef(r, "none", None, None)
      BY <1>s DEF SetRef
    <3>2. Cardinality(StrongRefs(x)) \in Nat /\ Cardinality(ControlRefs(x)) \in Nat
      BY RefsToFinite
    <3>3. TypeOK
      BY <1>a
    <3>4. r \in Refs /\ kind[r] = "control" /\ target[r] = o
      BY <1>0, <1>d
    <3> QED BY <3>1, <3>2, <3>3, <3>4, RefChange
  <2>2. /\ strong[x] \in Nat /\ weak[x] \in Nat
        /\ Cardinality(StrongRefs(x)) \in Nat /\ Cardinality(ControlRefs(x)) \in Nat
    BY <1>a, RefsToFinite DEF TypeOK, Counts
  <2>3. weak'[x] = weak[x] - (IF o = x THEN 1 ELSE 0)
    BY <1>a, <1>0, <1>s, <2>2 DEF TypeOK
  <2>4. x = o => Cardinality(ControlRefs(x)) > 0
    <3>1. x = o => ControlRefs(x) # {}
      BY <1>0, <1>d DEF ControlRefs
    <3> QED BY <3>1, RefsToFinite
  <2> QED BY <1>a, <1>0, <1>d, <1>s, <1>4, <2>1, <2>2, <2>3, <2>4 DEF ObjectInv
<1>7. LiveAllocationsExact'
  <2>1. Counted' = Counted
    BY <1>a, <1>0, <1>s DEF TypeOK, Counted
  <2> QED BY <1>a, <1>s, <2>1 DEF LiveAllocationsExact
<1> QED BY <1>1, <1>2, <1>3, <1>5, <1>6, <1>7 DEF IndInv

\* A weak or unowned handle is released and it was the last.
LEMMA ReleaseWeakLastInv ==
    ASSUME IndInv, NEW t \in Threads, NEW r \in Refs, ReleaseWeak(t, r), weak[target[r]] = 1
    PROVE  IndInv'
<1> DEFINE o == target[r]
<1>a. /\ TypeOK /\ ExclusiveInv /\ LiveAllocationsExact
      /\ \A q \in Refs : RefInv(q)
      /\ \A u \in Threads : CallInv(u)
      /\ \A x \in Objects : ObjectInv(x)
  BY DEF IndInv
<1>b. /\ Handle(r) /\ kind[r] = "control" /\ pc[t] \in {"idle", "destructor"} /\ hdr[t] = None
      /\ owner[r] = t \/ (frames[t] # <<>> /\ owner[r] = Top(t))
  BY <1>a DEF ReleaseWeak, MayRelease, Holds, Handle, CallInv
<1>0. /\ Handle(r) /\ kind[r] = "control" /\ pc[t] \in {"idle", "destructor"} /\ hdr[t] = None
      /\ owner[r] = t \/ (frames[t] # <<>> /\ owner[r] = Top(t))
      /\ o \in Objects /\ storage[o] = "live" /\ weak[o] \in Nat /\ weak[o] > 0
      /\ \A u \in Threads : ~Reclaiming(u, o)
  <2>1. o \in Objects /\ storage[o] = "live" /\ weak[o] \in Counts /\ weak[o] > 0
    BY <1>b, HandleFacts
  <2> QED BY <1>a, <1>b, <2>1 DEF ObjectInv, Counts
<1>c. (weak[o] - 1) % (MaxCount + 1) = weak[o] - 1
  BY <1>a, <1>0, Decrement DEF TypeOK
<1>d. weak[o] = 1 /\ target[r] = o
  OBVIOUS
<1> HIDE DEF o
<1>s. /\ kind' = [kind EXCEPT ![r] = "none"] /\ target' = [target EXCEPT ![r] = None]
      /\ owner' = [owner EXCEPT ![r] = None]
      /\ pc' = [pc EXCEPT ![t] = "uncount"] /\ hdr' = [hdr EXCEPT ![t] = o]
      /\ src' = [src EXCEPT ![t] = None] /\ dst' = [dst EXCEPT ![t] = None] /\ cnt' = [cnt EXCEPT ![t] = 0]
      /\ weak' = [weak EXCEPT ![o] = weak[o] - 1]
      /\ UNCHANGED <<strong, state, object, storage, live, frames>>
  BY <1>c, <1>d DEF ReleaseWeak, SubWeak, ClearRef, SetRef, Return, Goto, o
<1>n. \A u \in Threads \ {t} :
        /\ pc[u] \in {"tryRetain", "retainControl", "subStrong"} => src[u] # r
        /\ pc[u] \in {"tryRetain", "retainControl", "loadObject"} => dst[u] # r
  BY <1>0, NotInUse
<1>1. TypeOK'
  <2>1. TypeOK /\ weak[o] - 1 \in Counts
    BY <1>a, <1>0, <1>d DEF Counts
  <2>2. /\ weak' \in [Objects -> Counts] /\ pc' \in [Threads -> Steps]
        /\ hdr' \in [Threads -> Objects \cup {None}] /\ cnt' \in [Threads -> Counts]
    BY <1>0, <1>s, <2>1 DEF TypeOK, Counts, Steps
  <2> QED BY <1>s, <2>1, <2>2 DEF TypeOK
<1>2. \A q \in Refs : RefInv(q)'
  BY <1>a, <1>0, <1>s DEF TypeOK, RefInv, Handle
<1>3. \A u \in Threads : CallInv(u)'
  BY <1>a, <1>0, <1>n, <1>s, TopFacts DEF TypeOK, CallInv, Handle, Holds, CapturesOf, Top
<1>4. \A u \in Threads, x \in Objects :
        /\ Destroying(u, x)' <=> Destroying(u, x)
        /\ Reclaiming(u, x)' <=> Reclaiming(u, x) \/ (u = t /\ x = o)
        /\ InDestructor(u, x)' <=> InDestructor(u, x)
  BY <1>a, <1>0, <1>s DEF TypeOK, Destroying, Reclaiming, InDestructor
<1>5. ExclusiveInv'
  BY <1>a, <1>0, <1>s, <1>4 DEF ExclusiveInv
<1>6. ASSUME NEW x \in Objects PROVE ObjectInv(x)'
  <2>1. /\ Cardinality(StrongRefs(x)') = Cardinality(StrongRefs(x))
        /\ Cardinality(ControlRefs(x)') = Cardinality(ControlRefs(x)) - (IF o = x THEN 1 ELSE 0)
    <3>1. SetRef(r, "none", None, None)
      BY <1>s DEF SetRef
    <3>2. Cardinality(StrongRefs(x)) \in Nat /\ Cardinality(ControlRefs(x)) \in Nat
      BY RefsToFinite
    <3>3. TypeOK
      BY <1>a
    <3>4. r \in Refs /\ kind[r] = "control" /\ target[r] = o
      BY <1>0, <1>d
    <3> QED BY <3>1, <3>2, <3>3, <3>4, RefChange
  <2>2. /\ strong[x] \in Nat /\ weak[x] \in Nat
        /\ Cardinality(StrongRefs(x)) \in Nat /\ Cardinality(ControlRefs(x)) \in Nat
    BY <1>a, RefsToFinite DEF TypeOK, Counts
  <2>3. weak'[x] = weak[x] - (IF o = x THEN 1 ELSE 0)
    BY <1>a, <1>0, <1>s, <2>2 DEF TypeOK
  <2>4. x = o => Cardinality(ControlRefs(x)) > 0
    <3>1. x = o => ControlRefs(x) # {}
      BY <1>0, <1>d DEF ControlRefs
    <3> QED BY <3>1, RefsToFinite
  <2> QED BY <1>a, <1>0, <1>d, <1>s, <1>4, <2>1, <2>2, <2>3, <2>4 DEF ObjectInv
<1>7. LiveAllocationsExact'
  <2>1. Counted' = Counted
    BY <1>a, <1>0, <1>s DEF TypeOK, Counted
  <2> QED BY <1>a, <1>s, <2>1 DEF LiveAllocationsExact
<1> QED BY <1>1, <1>2, <1>3, <1>5, <1>6, <1>7 DEF IndInv

\* The allocation is taken out of liveAllocations.
LEMMA UncountInv ==
    ASSUME IndInv, NEW t \in Threads, Uncount(t)
    PROVE  IndInv'
<1> DEFINE o == hdr[t]
<1>a. /\ TypeOK /\ ExclusiveInv /\ LiveAllocationsExact
      /\ \A q \in Refs : RefInv(q)
      /\ \A u \in Threads : CallInv(u)
      /\ \A x \in Objects : ObjectInv(x)
  BY DEF IndInv
<1>0. /\ o \in Objects /\ Reclaiming(t, o) /\ storage[o] = "live" /\ strong[o] = 0 /\ weak[o] = 0
      /\ \A u \in Threads : Reclaiming(u, o) => u = t
      /\ pc[t] = "uncount"
  BY <1>a DEF Uncount, CallInv, Reclaiming, ObjectInv, ExclusiveInv
<1> HIDE DEF o
<1>b. o \in Counted /\ IsFiniteSet(Counted)
  <2>1. o \in Counted
    BY <1>0 DEF Counted, Reclaiming
  <2> QED BY <2>1, FS_Subset DEF Counted
<1>c. /\ Cardinality(Counted \ {o}) = Cardinality(Counted) - 1
      /\ Cardinality(Counted) \in Nat /\ Cardinality(Counted \ {o}) \in Nat
  <2>1. Cardinality(Counted \ {o}) = Cardinality(Counted) - 1
    BY <1>b, FS_RemoveElement
  <2>2. IsFiniteSet(Counted \ {o})
    BY <1>b, FS_Subset
  <2> QED BY <1>b, <2>1, <2>2, FS_CardinalityType
<1>s. /\ UNCHANGED <<kind, target, owner>>
      /\ pc' = [pc EXCEPT ![t] = "free"] /\ hdr' = [hdr EXCEPT ![t] = o]
      /\ src' = [src EXCEPT ![t] = None] /\ dst' = [dst EXCEPT ![t] = None] /\ cnt' = [cnt EXCEPT ![t] = 0]
      /\ live' = live - 1 /\ hdr[t] = o
      /\ UNCHANGED <<strong, weak, state, object, storage, frames>>
  BY DEF Uncount, Goto, refs, o
<1>l. live' \in Nat
  BY <1>a, <1>c, <1>s DEF LiveAllocationsExact
<1>1. TypeOK'
  BY <1>a, <1>0, <1>s, <1>l DEF TypeOK, Counts, Steps
<1>2. \A q \in Refs : RefInv(q)'
  BY <1>a, <1>0, <1>s DEF TypeOK, RefInv, Handle
<1>3. \A u \in Threads : CallInv(u)'
  BY <1>a, <1>0, <1>s, TopFacts DEF TypeOK, CallInv, Handle, Holds, CapturesOf, Top
<1>4. \A u \in Threads, x \in Objects :
        /\ Destroying(u, x)' <=> Destroying(u, x)
        /\ Reclaiming(u, x)' <=> Reclaiming(u, x)
        /\ InDestructor(u, x)' <=> InDestructor(u, x)
  BY <1>a, <1>0, <1>s DEF TypeOK, Destroying, Reclaiming, InDestructor
<1>5. ExclusiveInv'
  BY <1>a, <1>s, <1>4 DEF ExclusiveInv
<1>6. ASSUME NEW x \in Objects PROVE ObjectInv(x)'
  <2>1. StrongRefs(x)' = StrongRefs(x) /\ ControlRefs(x)' = ControlRefs(x)
    BY <1>s, RefSame DEF refs
  <2> QED BY <1>a, <1>0, <1>s, <1>4, <2>1 DEF ObjectInv
<1>7. LiveAllocationsExact'
  <2>1. Counted' = Counted \ {o}
    BY <1>a, <1>0, <1>s DEF TypeOK, Counted
  <2> QED BY <1>a, <1>c, <1>s, <2>1 DEF LiveAllocationsExact
<1> QED BY <1>1, <1>2, <1>3, <1>5, <1>6, <1>7 DEF IndInv

\* The allocation is returned.
LEMMA FreeInv ==
    ASSUME IndInv, NEW t \in Threads, Free(t)
    PROVE  IndInv'
<1> DEFINE o == hdr[t]
<1>a. /\ TypeOK /\ ExclusiveInv /\ LiveAllocationsExact
      /\ \A q \in Refs : RefInv(q)
      /\ \A u \in Threads : CallInv(u)
      /\ \A x \in Objects : ObjectInv(x)
  BY DEF IndInv
<1>b. /\ o \in Objects /\ Reclaiming(t, o) /\ storage[o] = "live" /\ strong[o] = 0 /\ weak[o] = 0
      /\ \A u \in Threads : Reclaiming(u, o) => u = t
      /\ pc[t] = "free"
  BY <1>a DEF Free, CallInv, Reclaiming, ObjectInv, ExclusiveInv
<1>0. /\ o \in Objects /\ Reclaiming(t, o) /\ storage[o] = "live" /\ strong[o] = 0 /\ weak[o] = 0
      /\ \A u \in Threads : Reclaiming(u, o) => u = t
      /\ pc[t] = "free" /\ state[o] = "Destroyed"
      /\ \A u \in Threads : ~Destroying(u, o)
      /\ \A q \in Refs : Handle(q) => target[q] # o /\ owner[q] # o
  <2>1. \A r \in Refs : Handle(r) => target[r] # o
    BY <1>b, HandleFacts DEF Counts
  <2>2. Cardinality(ControlRefs(o)) \in Nat
    BY <1>b, RefsToFinite
  <2>3. \A u \in Threads : ~Destroying(u, o)
    BY <1>a, <1>b, <2>2 DEF ObjectInv
  <2>4. state[o] = "Destroyed"
    <3>1. state[o] \in {"Alive", "Destroying", "Destroyed"}
      BY <1>a, <1>b DEF TypeOK
    <3>2. ObjectInv(o) /\ \A u \in Threads : ~InDestructor(u, o)
      BY <1>a, <1>b, <2>3 DEF Destroying
    <3> QED BY <1>b, <2>3, <3>1, <3>2 DEF ObjectInv
  <2>5. \A r \in Refs : Handle(r) => owner[r] # o
    BY <1>a, <1>b, <2>4 DEF RefInv
  <2> QED BY <1>b, <2>1, <2>3, <2>4, <2>5
<1> HIDE DEF o
<1>s. /\ UNCHANGED <<kind, target, owner>>
      /\ pc' = [pc EXCEPT ![t] = IF frames[t] = <<>> THEN "idle" ELSE "destructor"] /\ hdr' = [hdr EXCEPT ![t] = None]
      /\ src' = [src EXCEPT ![t] = None] /\ dst' = [dst EXCEPT ![t] = None] /\ cnt' = [cnt EXCEPT ![t] = 0]
      /\ storage' = [storage EXCEPT ![o] = "freed"] /\ hdr[t] = o
      /\ UNCHANGED <<strong, weak, state, object, live, frames>>
  BY DEF Free, Return, Goto, refs, o
<1>1. TypeOK'
  BY <1>a, <1>0, <1>s DEF TypeOK, Counts, Steps
<1>2. \A q \in Refs : RefInv(q)'
  BY <1>a, <1>0, <1>s DEF TypeOK, RefInv, Handle
<1>3. \A u \in Threads : CallInv(u)'
  BY <1>a, <1>0, <1>s, TopFacts DEF TypeOK, CallInv, Handle, Holds, CapturesOf, Top
<1>4. \A u \in Threads, x \in Objects :
        /\ Destroying(u, x)' <=> Destroying(u, x)
        /\ Reclaiming(u, x)' <=> Reclaiming(u, x) /\ ~(u = t /\ x = o)
        /\ InDestructor(u, x)' <=> InDestructor(u, x)
  BY <1>a, <1>0, <1>s DEF TypeOK, Destroying, Reclaiming, InDestructor
<1>5. ExclusiveInv'
  BY <1>a, <1>0, <1>s, <1>4 DEF ExclusiveInv
<1>6. ASSUME NEW x \in Objects PROVE ObjectInv(x)'
  <2>1. StrongRefs(x)' = StrongRefs(x) /\ ControlRefs(x)' = ControlRefs(x)
    BY <1>s, RefSame DEF refs
  <2> QED BY <1>a, <1>0, <1>s, <1>4, <2>1 DEF ObjectInv, TypeOK
<1>7. LiveAllocationsExact'
  <2>1. Counted' = Counted
    BY <1>a, <1>0, <1>s DEF TypeOK, Counted
  <2> QED BY <1>a, <1>s, <2>1 DEF LiveAllocationsExact
<1> QED BY <1>1, <1>2, <1>3, <1>5, <1>6, <1>7 DEF IndInv

---------------------------------------------------------------------------

\* The initial state, before the program allocated anything.
LEMMA InitInv == Init => IndInv
<1> SUFFICES ASSUME Init PROVE IndInv
  OBVIOUS
<1>1. TypeOK
  BY DEF Init, TypeOK, Counts, Steps
<1>2. \A r \in Refs : RefInv(r)
  BY DEF Init, RefInv, Handle
<1>3. \A t \in Threads : CallInv(t)
  BY DEF Init, CallInv
<1>4. \A t \in Threads, o \in Objects : ~InDestructor(t, o) /\ ~Destroying(t, o) /\ ~Reclaiming(t, o)
  BY DEF Init, InDestructor, Destroying, Reclaiming
<1>5. ExclusiveInv
  BY <1>4 DEF ExclusiveInv, Init
<1>6. ASSUME NEW o \in Objects PROVE ObjectInv(o)
  <2>1. StrongRefs(o) = {}
    BY DEF Init, StrongRefs
  <2>2. Cardinality(StrongRefs(o)) = 0
    BY <2>1, FS_EmptySet
  <2> QED BY <1>4, <2>2 DEF Init, ObjectInv
<1>7. LiveAllocationsExact
  <2>1. Counted = {}
    BY DEF Init, Counted
  <2> QED BY <2>1, FS_EmptySet DEF Init, LiveAllocationsExact
<1> QED BY <1>1, <1>2, <1>3, <1>5, <1>6, <1>7 DEF IndInv

\* Every step of the runtime and of the program keeps the invariant.
LEMMA NextInv ==
    ASSUME IndInv, [Next]_vars
    PROVE  IndInv'
<1>a. TypeOK
  BY DEF IndInv
<1>1. ASSUME NEW t \in Threads, Continue(t) PROVE IndInv'
  <2>1. CASE TryRetainFail(t)
    BY <2>1, RefusedCallInv DEF TryRetainFail
  <2>2. CASE TryRetainExchange(t)
    <3>1. CASE strong[hdr[t]] = cnt[t]
      BY <2>2, <3>1, UpgradeInv DEF TryRetainExchange
    <3>2. CASE strong[hdr[t]] # cnt[t]
      <4>1. hdr[t] \in Objects /\ strong[hdr[t]] \in Counts
        BY <1>a, <2>2 DEF IndInv, CallInv, TypeOK, TryRetainExchange
      <4>2. Goto(t, pc[t], hdr[t], src[t], dst[t], strong[hdr[t]]) /\ UNCHANGED <<headers, refs, frames>>
        BY <2>2, <3>2 DEF TryRetainExchange, headers, refs
      <4> QED BY <2>2, <4>1, <4>2, ReloadInv DEF TryRetainExchange
    <3> QED BY <3>1, <3>2
  <2>3. CASE LoadObject(t)
    BY <2>3, LoadObjectInv
  <2>4. CASE RetainControlFail(t)
    BY <2>4, RefusedCallInv DEF RetainControlFail
  <2>5. CASE RetainControlExchange(t)
    <3>1. CASE weak[hdr[t]] = cnt[t]
      BY <2>5, <3>1, NewControlInv DEF RetainControlExchange
    <3>2. CASE weak[hdr[t]] # cnt[t]
      <4>1. hdr[t] \in Objects /\ weak[hdr[t]] \in Counts
        BY <1>a, <2>5 DEF IndInv, CallInv, TypeOK, RetainControlExchange
      <4>2. Goto(t, pc[t], hdr[t], src[t], dst[t], weak[hdr[t]]) /\ UNCHANGED <<headers, refs, frames>>
        BY <2>5, <3>2 DEF RetainControlExchange, headers, refs
      <4> QED BY <2>5, <4>1, <4>2, ReloadInv DEF RetainControlExchange
    <3> QED BY <3>1, <3>2
  <2>6. CASE SubStrong(t)
    BY <2>6, SubStrongSharedInv, SubStrongLastInv
  <2>7. CASE BeginDestroy(t)
    BY <2>7, BeginDestroyInv
  <2>8. CASE ClearObject(t)
    BY <2>8, ClearObjectInv
  <2>9. CASE MarkDestroyed(t)
    BY <2>9, MarkDestroyedInv
  <2>10. CASE DropImplicit(t)
    BY <2>10, DropImplicitSharedInv, DropImplicitLastInv
  <2>11. CASE Uncount(t)
    BY <2>11, UncountInv
  <2>12. CASE Free(t)
    BY <2>12, FreeInv
  <2> QED
    BY <1>1, <2>1, <2>2, <2>3, <2>4, <2>5, <2>6, <2>7, <2>8, <2>9, <2>10, <2>11, <2>12 DEF Continue
<1>2. ASSUME NEW t \in Threads, NEW r \in Refs, ReleaseStrong(t, r) PROVE IndInv'
  <2>1. CASE strong[target[r]] = MaxCount
    BY <1>2, <2>1, ReleaseSaturatedInv DEF ReleaseStrong
  <2>2. CASE strong[target[r]] # MaxCount
    <3>1. Goto(t, "subStrong", target[r], r, None, 0) /\ UNCHANGED <<headers, refs, frames>>
      BY <1>2, <2>2 DEF ReleaseStrong, headers, refs
    <3> QED BY <1>2, <3>1, ReleaseStartInv DEF ReleaseStrong
  <2> QED BY <2>1, <2>2
<1>3. ASSUME NEW t \in Threads, NEW r \in Refs, ReleaseWeak(t, r) PROVE IndInv'
  BY <1>3, ReleaseWeakSharedInv, ReleaseWeakLastInv
<1>4. ASSUME NEW t \in Threads, NEW o \in Objects, NEW r \in Refs, Allocate(t, o, r) PROVE IndInv'
  BY <1>4, AllocateInv
<1>5. ASSUME NEW t \in Threads, NEW s \in Refs, NEW d \in Refs,
             RetainStrong(t, s, d) \/ LockWeak(t, s, d)
      PROVE  IndInv'
  <2>1. Handle(s) /\ owner[s] = t
    BY <1>5 DEF RetainStrong, LockWeak, BeginRetain, Holds, Handle
  <2>2. strong[target[s]] \in Counts
    BY <2>1, HandleFacts
  <2>3. /\ pc[t] = "idle" /\ kind[d] = "none" /\ SetRef(d, "pending", None, t)
        /\ Goto(t, "tryRetain", target[s], s, d, strong[target[s]]) /\ UNCHANGED <<headers, frames>>
    BY <1>5 DEF RetainStrong, LockWeak, BeginRetain
  <2> QED BY <2>1, <2>2, <2>3, BeginCallInv
<1>6. ASSUME NEW t \in Threads, NEW s \in Refs, NEW d \in Refs,
             MakeWeak(t, s, d) \/ CopyWeak(t, s, d)
      PROVE  IndInv'
  <2>1. Handle(s) /\ owner[s] = t
    BY <1>6 DEF MakeWeak, CopyWeak, BeginRetainControl, Holds, Handle
  <2>2. weak[target[s]] \in Counts
    BY <2>1, HandleFacts
  <2>3. /\ pc[t] = "idle" /\ kind[d] = "none" /\ SetRef(d, "pending", None, t)
        /\ Goto(t, "retainControl", target[s], s, d, weak[target[s]]) /\ UNCHANGED <<headers, frames>>
    BY <1>6 DEF MakeWeak, CopyWeak, BeginRetainControl
  <2> QED BY <2>1, <2>2, <2>3, BeginCallInv
<1>7. ASSUME NEW t \in Threads, NEW r \in Refs, NEW s \in Refs, Capture(t, r, s) PROVE IndInv'
  <2>1. target[s] \in Objects /\ strong[target[s]] > 0
    BY <1>7, HandleFacts DEF Capture, Holds, Handle
  <2> QED BY <1>7, <2>1, MoveInv DEF Capture
<1>8. ASSUME NEW t \in Threads, NEW u \in Threads, NEW r \in Refs, HandOver(t, u, r) PROVE IndInv'
  BY <1>8, MoveInv DEF HandOver
<1>9. CASE UNCHANGED vars
  <2>1. /\ TypeOK' /\ ExclusiveInv' /\ LiveAllocationsExact'
        /\ \A r \in Refs : RefInv(r)'
        /\ \A u \in Threads : CallInv(u)'
    BY <1>9 DEF IndInv, vars, TypeOK, ExclusiveInv, LiveAllocationsExact, Counted, RefInv, CallInv,
                Handle, Holds, CapturesOf, Top, Destroying, Reclaiming, InDestructor
  <2>2. ASSUME NEW x \in Objects PROVE ObjectInv(x)'
    <3>1. /\ StrongRefs(x)' = StrongRefs(x) /\ ControlRefs(x)' = ControlRefs(x)
          /\ \A u \in Threads : /\ Destroying(u, x)' <=> Destroying(u, x)
                                /\ Reclaiming(u, x)' <=> Reclaiming(u, x)
                                /\ InDestructor(u, x)' <=> InDestructor(u, x)
      BY <1>9 DEF vars, StrongRefs, ControlRefs, Destroying, Reclaiming, InDestructor
    <3> QED BY <1>9, <3>1 DEF IndInv, vars, ObjectInv
  <2> QED BY <2>1, <2>2 DEF IndInv
<1> QED
  BY <1>1, <1>2, <1>3, <1>4, <1>5, <1>6, <1>7, <1>8, <1>9 DEF Next, Release

\* The inductive invariant holds in every reachable state.
THEOREM Invariance == Spec => []IndInv
<1>1. Init => IndInv
  BY InitInv
<1>2. IndInv /\ [Next]_vars => IndInv'
  BY NextInv
<1> QED BY <1>1, <1>2, PTL DEF Spec

\* Every atomic word and every register of the runtime keeps its type; no count
\* of an ObjectHeader wraps and liveAllocations stays a natural number.
THEOREM TypeCorrect == Spec => []TypeOK
BY Invariance, PTL DEF IndInv

\* ReleaseControl never frees an allocation that a thread is about to access, that
\* is being destroyed, or to which the program still holds a reference.
THEOREM NoUseAfterFreeHolds == Spec => []NoUseAfterFree
<1>1. IndInv => NoUseAfterFree
  <2> SUFFICES ASSUME IndInv PROVE NoUseAfterFree
    OBVIOUS
  <2>a. /\ TypeOK /\ \A u \in Threads : CallInv(u)
        /\ \A r \in Refs : RefInv(r)
        /\ \A x \in Objects : ObjectInv(x)
    BY DEF IndInv
  <2>1. ASSUME NEW r \in Refs, Handle(r) PROVE storage[target[r]] = "live"
    BY <2>1, HandleFacts
  <2>2. ASSUME NEW t \in Threads, NEW i \in 1..Len(frames[t]) PROVE storage[frames[t][i]] = "live"
    <3>1. frames[t][i] \in Objects
      BY <2>a DEF TypeOK
    <3>2. Destroying(t, frames[t][i])
      BY DEF Destroying, InDestructor
    <3> QED BY <2>a, <3>1, <3>2 DEF ObjectInv
  <2>3. ASSUME NEW t \in Threads, hdr[t] # None PROVE storage[hdr[t]] = "live"
    <3>1. hdr[t] \in Objects
      BY <2>a, <2>3 DEF TypeOK
    <3>2. CASE pc[t] \in {"beginDestroy", "dropImplicit", "uncount", "free"}
      BY <2>a, <3>1, <3>2 DEF ObjectInv, Destroying, Reclaiming
    <3>3. CASE pc[t] = "markDestroyed"
      <4>1. Destroying(t, hdr[t])
        BY <2>a, <3>3, TopFacts DEF CallInv
      <4> QED BY <2>a, <3>1, <4>1 DEF ObjectInv
    <3>4. CASE pc[t] \in {"tryRetain", "retainControl", "subStrong"}
      BY <2>a, <2>1, <3>4 DEF CallInv, Holds, Handle
    <3>5. CASE pc[t] = "loadObject"
      BY <2>a, <2>1, <3>5 DEF CallInv, Holds, Handle
    <3> QED BY <2>a, <2>3, <3>2, <3>3, <3>4, <3>5 DEF TypeOK, Steps, CallInv
  <2> QED BY <2>1, <2>2, <2>3 DEF NoUseAfterFree, Handle
<1> QED BY <1>1, Invariance, PTL

\* The object of a strong reference has not begun to die, so a lock that won its
\* exchange returns the payload and never null.
THEOREM StrongKeepsAliveHolds == Spec => []StrongKeepsAlive
<1>1. IndInv => StrongKeepsAlive
  BY HandleFacts DEF StrongKeepsAlive, Handle
<1> QED BY <1>1, Invariance, PTL

\* The counts bound the references from above, with the implicit weak entry
\* present exactly as long as the strong count is not zero or o is being destroyed.
THEOREM CountsCoverOwnersHolds == Spec => []CountsCoverOwners
<1>1. IndInv => CountsCoverOwners
  <2> SUFFICES ASSUME IndInv, NEW o \in Objects
               PROVE  /\ strong[o] >= Cardinality(StrongRefs(o))
                      /\ strong[o] > 0 => weak[o] = Cardinality(ControlRefs(o)) + 1
                      /\ weak[o] >= Cardinality(ControlRefs(o))
    BY DEF CountsCoverOwners
  <2>1. /\ TypeOK /\ ObjectInv(o) /\ strong[o] \in Nat /\ weak[o] \in Nat
        /\ Cardinality(StrongRefs(o)) \in Nat /\ Cardinality(ControlRefs(o)) \in Nat
        /\ ControlRefs(o) # {} => Cardinality(ControlRefs(o)) > 0
    BY RefsToFinite DEF IndInv, TypeOK, Counts
  <2>2. storage[o] # "live" => ControlRefs(o) = {}
    BY HandleFacts DEF ControlRefs, Handle
  <2>3. ControlRefs(o) = {} => Cardinality(ControlRefs(o)) = 0
    BY FS_EmptySet
  <2> QED BY <2>1, <2>2, <2>3 DEF ObjectInv
<1> QED BY <1>1, Invariance, PTL

\* liveAllocations is exact whenever no thread is between uncounting and freeing.
THEOREM LiveAllocationsExactHolds == Spec => []LiveAllocationsExact
BY Invariance, PTL DEF IndInv

---------------------------------------------------------------------------
\* With as few places as the counts can tell apart, the strong count is the number of
\* strong references: no release is passed over for finding the count saturated.
ExactCounts ==
    Cardinality(Refs) < MaxCount =>
        \A o \in Objects : strong[o] = Cardinality(StrongRefs(o))

\* Only an exchange, a decrement and an allocation change a strong count, and each
\* moves one reference with it.
LEMMA ExactCountsStep ==
    ASSUME IndInv, ExactCounts, [Next]_vars
    PROVE  ExactCounts'
<1> SUFFICES ASSUME Cardinality(Refs) < MaxCount, NEW x \in Objects
             PROVE  strong'[x] = Cardinality(StrongRefs(x)')
  BY DEF ExactCounts
<1>a. /\ TypeOK
      /\ \A u \in Threads : CallInv(u)
      /\ strong[x] = Cardinality(StrongRefs(x))
      /\ \A o \in Objects : strong[o] = Cardinality(StrongRefs(o))
  BY DEF IndInv, ExactCounts
<1>b. /\ Cardinality(Refs) \in Nat
      /\ \A o \in Objects : strong[o] \in Nat /\ strong[o] < MaxCount
  <2>1. ASSUME NEW o \in Objects PROVE Cardinality(StrongRefs(o)) <= Cardinality(Refs)
    <3>1. StrongRefs(o) \subseteq Refs
      BY DEF StrongRefs
    <3> QED BY <3>1, FS_Subset
  <2>2. Cardinality(Refs) \in Nat
    BY FS_CardinalityType
  <2> QED BY <1>a, <2>1, <2>2 DEF TypeOK, Counts
<1>c. ASSUME UNCHANGED <<strong, kind, target>> PROVE strong'[x] = Cardinality(StrongRefs(x)')
  BY <1>a, <1>c DEF StrongRefs
<1>d. ASSUME NEW r \in Refs, NEW k, NEW o, NEW w, SetRef(r, k, o, w),
             strong'[x] = strong[x] + (IF k = "strong" /\ o = x THEN 1 ELSE 0)
                            - (IF kind[r] = "strong" /\ target[r] = x THEN 1 ELSE 0)
      PROVE  strong'[x] = Cardinality(StrongRefs(x)')
  BY <1>a, <1>d, RefChange
<1>1. ASSUME NEW t \in Threads, Continue(t) PROVE strong'[x] = Cardinality(StrongRefs(x)')
  <2>0. CallInv(t)
    BY <1>a
  <2>1. CASE TryRetainFail(t) \/ RetainControlFail(t)
    <3>1. dst[t] \in Refs /\ kind[dst[t]] = "pending" /\ SetRef(dst[t], "none", None, None) /\ strong' = strong
      BY <2>0, <2>1 DEF TryRetainFail, RetainControlFail, CallInv, Holds, ClearRef, headers
    <3> QED BY <3>1, <1>b, <1>d
  <2>2. CASE TryRetainExchange(t)
    <3>0. /\ dst[t] \in Refs /\ kind[dst[t]] = "pending" /\ hdr[t] \in Objects
      BY <2>0, <2>2 DEF TryRetainExchange, CallInv, Holds
    <3>1. CASE strong[hdr[t]] = cnt[t]
      <4>1. /\ SetRef(dst[t], "strong", hdr[t], t)
            /\ strong' = [strong EXCEPT ![hdr[t]] = strong[hdr[t]] + 1]
        BY <2>2, <3>1 DEF TryRetainExchange
      <4>2. strong'[x] = strong[x] + (IF hdr[t] = x THEN 1 ELSE 0)
        BY <4>1, <3>0, <1>a, <1>b DEF TypeOK
      <4> QED BY <4>1, <4>2, <3>0, <1>b, <1>d
    <3>2. CASE strong[hdr[t]] # cnt[t]
      BY <2>2, <3>2, <1>c DEF TryRetainExchange, refs
    <3> QED BY <3>1, <3>2
  <2>3. CASE LoadObject(t)
    <3>0. dst[t] \in Refs /\ Holds(t, dst[t], "strong") /\ target[dst[t]] = hdr[t]
      BY <2>0, <2>3 DEF LoadObject, CallInv
    <3>1. object[hdr[t]]
      BY <3>0, HandleFacts DEF Holds, Handle
    <3> QED BY <2>3, <3>1, <1>c DEF LoadObject, refs, headers
  <2>4. CASE RetainControlExchange(t)
    <3>1. CASE weak[hdr[t]] = cnt[t]
      <4>1. /\ dst[t] \in Refs /\ kind[dst[t]] = "pending" /\ strong' = strong
            /\ SetRef(dst[t], "control", hdr[t], t)
        BY <2>0, <2>4, <3>1 DEF RetainControlExchange, CallInv, Holds
      <4> QED BY <4>1, <1>b, <1>d
    <3>2. CASE weak[hdr[t]] # cnt[t]
      BY <2>4, <3>2, <1>c DEF RetainControlExchange, refs
    <3> QED BY <3>1, <3>2
  <2>5. CASE SubStrong(t)
    <3>1. /\ src[t] \in Refs /\ kind[src[t]] = "strong" /\ target[src[t]] = hdr[t]
          /\ hdr[t] \in Objects
          /\ SetRef(src[t], "none", None, None)
          /\ strong' = [strong EXCEPT ![hdr[t]] = (@ - 1) % (MaxCount + 1)]
      BY <2>0, <2>5 DEF SubStrong, SubStrongWhen, CallInv, Holds, ClearRef
    <3>2. strong[hdr[t]] > 0
      BY <3>1, HandleFacts DEF Handle
    <3>3. (strong[hdr[t]] - 1) % (MaxCount + 1) = strong[hdr[t]] - 1
      BY <1>b, <3>1, <3>2, Decrement DEF Counts
    <3>4. strong'[x] = strong[x] - (IF hdr[t] = x THEN 1 ELSE 0)
      BY <3>1, <3>3, <1>a, <1>b DEF TypeOK
    <3> QED BY <3>1, <3>4, <1>b, <1>d
  <2>6. CASE BeginDestroy(t) \/ ClearObject(t) \/ MarkDestroyed(t) \/ DropImplicit(t) \/ Uncount(t) \/ Free(t)
    BY <2>6, <1>c DEF BeginDestroy, ClearObject, MarkDestroyed, DropImplicit, Uncount, Free, refs
  <2> QED BY <1>1, <2>1, <2>2, <2>3, <2>4, <2>5, <2>6 DEF Continue
<1>2. ASSUME NEW t \in Threads, NEW r \in Refs, ReleaseStrong(t, r)
      PROVE  strong'[x] = Cardinality(StrongRefs(x)')
  <2>1. target[r] \in Objects
    BY <1>2, HandleFacts DEF ReleaseStrong, MayRelease, Holds, Handle
  <2>2. strong[target[r]] # MaxCount
    BY <2>1, <1>b
  <2> QED BY <1>2, <2>2, <1>c DEF ReleaseStrong, refs, headers
<1>3. ASSUME NEW t \in Threads, NEW r \in Refs, ReleaseWeak(t, r)
      PROVE  strong'[x] = Cardinality(StrongRefs(x)')
  <2>1. kind[r] = "control" /\ strong' = strong /\ SetRef(r, "none", None, None)
    BY <1>3 DEF ReleaseWeak, MayRelease, Holds, ClearRef
  <2> QED BY <2>1, <1>b, <1>d
<1>4. ASSUME NEW t \in Threads, NEW o \in Objects, NEW r \in Refs, Allocate(t, o, r)
      PROVE  strong'[x] = Cardinality(StrongRefs(x)')
  <2>1. storage[o] = "unused" /\ kind[r] = "none" /\ SetRef(r, "strong", o, t)
        /\ strong' = [strong EXCEPT ![o] = 1]
    BY <1>4 DEF Allocate
  <2>2. strong[o] = 0
    BY <2>1, <1>b DEF IndInv, ObjectInv
  <2>3. strong'[x] = strong[x] + (IF o = x THEN 1 ELSE 0)
    BY <2>1, <2>2, <1>a, <1>b DEF TypeOK
  <2> QED BY <2>1, <2>3, <1>b, <1>d
<1>5. ASSUME NEW t \in Threads, NEW s \in Refs, NEW d \in Refs,
             RetainStrong(t, s, d) \/ LockWeak(t, s, d) \/ MakeWeak(t, s, d) \/ CopyWeak(t, s, d)
      PROVE  strong'[x] = Cardinality(StrongRefs(x)')
  <2>1. kind[d] = "none" /\ SetRef(d, "pending", None, t) /\ strong' = strong
    BY <1>5 DEF RetainStrong, LockWeak, MakeWeak, CopyWeak, BeginRetain, BeginRetainControl, headers
  <2> QED BY <2>1, <1>b, <1>d
<1>6. ASSUME NEW t \in Threads, NEW r \in Refs, NEW w, SetRef(r, kind[r], target[r], w), strong' = strong
      PROVE  strong'[x] = Cardinality(StrongRefs(x)')
  BY <1>6, <1>b, <1>d
<1>7. ASSUME NEW t \in Threads, NEW r \in Refs, NEW s \in Refs, Capture(t, r, s)
      PROVE  strong'[x] = Cardinality(StrongRefs(x)')
  BY <1>7, <1>6 DEF Capture, headers
<1>8. ASSUME NEW t \in Threads, NEW u \in Threads, NEW r \in Refs, HandOver(t, u, r)
      PROVE  strong'[x] = Cardinality(StrongRefs(x)')
  BY <1>8, <1>6 DEF HandOver, headers
<1> QED
  BY <1>1, <1>2, <1>3, <1>4, <1>5, <1>7, <1>8, <1>c DEF Next, Release, vars

\* At rest every object without strong references has been destroyed, and what is
\* allocated has a reference: releases and upgrades lost nothing on the way.
THEOREM NothingLeaksAtRestHolds == Spec => []NothingLeaksAtRest
<1>1. Init => ExactCounts
  <2> SUFFICES ASSUME Init, NEW o \in Objects PROVE strong[o] = Cardinality(StrongRefs(o))
    BY DEF ExactCounts
  <2>1. StrongRefs(o) = {}
    BY DEF Init, StrongRefs
  <2> QED BY <2>1, FS_EmptySet DEF Init
<1>2. IndInv /\ ExactCounts /\ [Next]_vars => ExactCounts'
  BY ExactCountsStep
<1>3. IndInv /\ ExactCounts => NothingLeaksAtRest
  <2> SUFFICES ASSUME IndInv, ExactCounts, AtRest, Cardinality(Refs) < MaxCount, NEW o \in Objects,
                      storage[o] = "live"
               PROVE  /\ StrongRefs(o) = {} => state[o] = "Destroyed"
                      /\ StrongRefs(o) # {} \/ ControlRefs(o) # {}
    BY DEF NothingLeaksAtRest
  <2>1. /\ TypeOK /\ ObjectInv(o) /\ \A t \in Threads : CallInv(t)
        /\ strong[o] = Cardinality(StrongRefs(o))
    BY DEF IndInv, ExactCounts
  <2>2. \A t \in Threads : frames[t] = <<>> /\ hdr[t] = None
    BY <2>1 DEF AtRest, CallInv
  <2>3. \A t \in Threads : ~InDestructor(t, o) /\ ~Destroying(t, o) /\ ~Reclaiming(t, o)
    BY <2>2 DEF InDestructor, Destroying, Reclaiming
  <2>4. state[o] \in {"Alive", "Destroying", "Destroyed"} /\ weak[o] \in Nat
    BY <2>1 DEF TypeOK, Counts
  <2>5. /\ StrongRefs(o) = {} => Cardinality(StrongRefs(o)) = 0
        /\ ControlRefs(o) = {} => Cardinality(ControlRefs(o)) = 0
    BY FS_EmptySet
  <2> QED BY <2>1, <2>3, <2>4, <2>5 DEF ObjectInv
<1> QED BY <1>1, <1>2, <1>3, Invariance, PTL DEF Spec

---------------------------------------------------------------------------
\* What the invariant says of the two places where a destruction advances: no strong
\* reference is left when it begins, and no capture or payload when it ends.
LEMMA DestructionFacts ==
    ASSUME IndInv, NEW t \in Threads
    PROVE  /\ BeginDestroy(t) => /\ hdr[t] \in Objects /\ storage[hdr[t]] = "live"
                                 /\ state[hdr[t]] = "Alive" /\ strong[hdr[t]] = 0
                                 /\ StrongRefs(hdr[t]) = {}
           /\ MarkDestroyed(t) => /\ hdr[t] \in Objects /\ storage[hdr[t]] = "live"
                                  /\ state[hdr[t]] = "Destroying" /\ ~object[hdr[t]]
                                  /\ CapturesOf(hdr[t]) = {}
           /\ Free(t) => /\ hdr[t] \in Objects /\ storage[hdr[t]] = "live"
                         /\ state[hdr[t]] = "Destroyed"
                         /\ \A r \in Refs : target[r] # hdr[t]
<1> DEFINE o == hdr[t]
<1>a. /\ TypeOK
      /\ CallInv(t)
      /\ \A r \in Refs : RefInv(r)
      /\ \A x \in Objects : ObjectInv(x)
  BY DEF IndInv
<1>1. CASE BeginDestroy(t)
  <2>1. o \in Objects /\ Destroying(t, o) /\ state[o] = "Alive"
    BY <1>a, <1>1 DEF BeginDestroy, CallInv, Destroying
  <2>2. strong[o] = 0 /\ storage[o] = "live" /\ Cardinality(StrongRefs(o)) <= 0
    BY <1>a, <2>1 DEF ObjectInv
  <2>3. StrongRefs(o) = {}
    BY <2>1, <2>2, RefsToFinite
  <2> QED BY <1>1, <2>1, <2>2, <2>3 DEF BeginDestroy, MarkDestroyed, Free
<1>2. CASE MarkDestroyed(t)
  <2>1. o = Top(t) /\ frames[t] # <<>> /\ ~object[o] /\ CapturesOf(o) = {}
    BY <1>a, <1>2 DEF MarkDestroyed, CallInv
  <2>2. o \in Objects /\ InDestructor(t, o) /\ Destroying(t, o)
    BY <1>a, <2>1, TopFacts
  <2>3. state[o] = "Destroying" /\ storage[o] = "live"
    BY <1>a, <2>2 DEF ObjectInv
  <2> QED BY <1>2, <2>1, <2>2, <2>3 DEF BeginDestroy, MarkDestroyed, Free
<1>3. CASE Free(t)
  <2>1. o \in Objects /\ Reclaiming(t, o)
    BY <1>a, <1>3 DEF Free, CallInv, Reclaiming
  <2>2. storage[o] = "live" /\ weak[o] = 0 /\ strong[o] = 0
    BY <1>a, <2>1 DEF ObjectInv
  <2>3. /\ \A r \in Refs : Handle(r) => target[r] # o
    BY <2>1, <2>2, HandleFacts DEF Counts
  <2>4. \A r \in Refs : target[r] # o
    <3>1. ASSUME NEW r \in Refs, target[r] = o PROVE FALSE
      <4>1. kind[r] \in {"none", "pending", "strong", "control"} /\ RefInv(r)
        BY <1>a DEF TypeOK
      <4>2. o # None
        BY <2>1
      <4> QED BY <4>1, <4>2, <3>1, <2>3 DEF RefInv, Handle
    <3> QED BY <3>1
  <2>5. \A u \in Threads : ~Destroying(u, o)
    <3>1. Cardinality(ControlRefs(o)) \in Nat
      BY <2>1, RefsToFinite
    <3> QED BY <1>a, <2>1, <2>2, <3>1 DEF ObjectInv
  <2>6. state[o] = "Destroyed"
    <3>1. state[o] \in {"Alive", "Destroying", "Destroyed"}
      BY <1>a, <2>1 DEF TypeOK
    <3>2. ObjectInv(o) /\ \A u \in Threads : ~InDestructor(u, o)
      BY <1>a, <2>1, <2>5 DEF Destroying
    <3> QED BY <2>2, <2>5, <3>1, <3>2 DEF ObjectInv
  <2> QED BY <1>3, <2>1, <2>2, <2>4, <2>6 DEF BeginDestroy, MarkDestroyed, Free
<1> QED BY <1>1, <1>2, <1>3

\* The destructor of an object starts at most once, with no strong owner left, and
\* is over only when the captures are released and the payload pointer is cleared.
THEOREM DestroyedOnceHolds == Spec => DestroyedOnce
<1>1. ASSUME IndInv, [Next]_vars, NEW o \in Objects, state'[o] # state[o]
      PROVE  \/ /\ state[o] = "Alive" /\ state'[o] = "Destroying"
                /\ strong[o] = 0 /\ StrongRefs(o) = {}
             \/ /\ state[o] = "Destroying" /\ state'[o] = "Destroyed"
                /\ ~object[o] /\ CapturesOf(o) = {}
  <2>1. PICK t \in Threads : BeginDestroy(t) \/ MarkDestroyed(t)
    BY <1>1 DEF Next, Continue, Release, vars, headers,
                TryRetainFail, TryRetainExchange, LoadObject, RetainControlFail,
                RetainControlExchange, SubStrong, SubStrongWhen, ClearObject, DropImplicit,
                Uncount, Free, ReleaseStrong, ReleaseWeak, Allocate, RetainStrong, LockWeak,
                MakeWeak, CopyWeak, BeginRetain, BeginRetainControl, Capture, HandOver
  <2>2. TypeOK
    BY <1>1 DEF IndInv
  <2>3. CASE BeginDestroy(t)
    BY <1>1, <2>2, <2>3, DestructionFacts DEF BeginDestroy, TypeOK
  <2>4. CASE MarkDestroyed(t)
    <3>1. state' = [state EXCEPT ![hdr[t]] = "Destroyed"]
      BY <2>4 DEF MarkDestroyed
    <3>2. o = hdr[t] /\ state'[o] = "Destroyed"
      BY <1>1, <2>2, <3>1 DEF TypeOK
    <3> QED BY <1>1, <2>4, <3>2, DestructionFacts
  <2> QED BY <2>1, <2>3, <2>4
<1>2. IndInv /\ [Next]_vars =>
        [\A o \in Objects :
           state'[o] # state[o] =>
             \/ /\ state[o] = "Alive" /\ state'[o] = "Destroying"
                /\ strong[o] = 0 /\ StrongRefs(o) = {}
             \/ /\ state[o] = "Destroying" /\ state'[o] = "Destroyed"
                /\ ~object[o] /\ CapturesOf(o) = {}]_vars
  BY <1>1
<1> QED BY <1>2, Invariance, PTL DEF Spec, DestroyedOnce

---------------------------------------------------------------------------
\* The refinement of AarcContract.

\* Which place holds what, as the contract sees it, after a step that sets one place.
LEMMA HoldChange ==
    ASSUME IndInv, NEW r \in Refs, NEW k \in {"none", "pending", "strong", "control"},
           NEW o \in Objects \cup {None}, NEW w, SetRef(r, k, o, w)
    PROVE  [q \in Refs |-> HoldOf(q)]' =
             [[q \in Refs |-> HoldOf(q)] EXCEPT
                ![r] = [kind |-> IF k = "pending" THEN "none" ELSE k, obj |-> o]]
<1>1. \A q \in Refs : /\ kind'[q] = (IF q = r THEN k ELSE kind[q])
                      /\ target'[q] = (IF q = r THEN o ELSE target[q])
  BY DEF IndInv, TypeOK, SetRef
<1>2. \A q \in Refs : HoldOf(q)' = IF q = r THEN [kind |-> IF k = "pending" THEN "none" ELSE k, obj |-> o]
                                            ELSE HoldOf(q)
  BY <1>1 DEF HoldOf
<1> QED BY <1>2

\* A step that leaves states, storage, kinds and targets alone changes nothing the
\* contract sees.
LEMMA NothingSeen ==
    ASSUME UNCHANGED <<state, storage, kind, target>>
    PROVE  UNCHANGED Contract!cvars
BY DEF Contract!cvars, LifeOf, HoldOf

\* The two contract variables as functions.
LEMMA ContractValues ==
    ASSUME IndInv
    PROVE  /\ \A o \in Objects : [x \in Objects |-> LifeOf(x)][o] = LifeOf(o)
           /\ \A r \in Refs : [q \in Refs |-> HoldOf(q)][r] = HoldOf(r)
           /\ \A r \in Refs : kind[r] \in {"none", "pending"} => HoldOf(r) = Contract!Nothing
           /\ \A r \in Refs : Handle(r) => /\ HoldOf(r) = [kind |-> kind[r], obj |-> target[r]]
                                           /\ HoldOf(r) # Contract!Nothing
           /\ \A o \in Objects : Contract!Handles(o) = {r \in Refs : target[r] = o}
           /\ \A o \in Objects : Contract!Strong(o) = StrongRefs(o)
<1>1. /\ TypeOK
      /\ \A r \in Refs : RefInv(r)
  BY DEF IndInv
<1>2. \A r \in Refs : kind[r] \in {"none", "pending"} => HoldOf(r) = Contract!Nothing
  BY <1>1 DEF HoldOf, RefInv, Contract!Nothing
<1>3. \A r \in Refs : Handle(r) => /\ HoldOf(r) = [kind |-> kind[r], obj |-> target[r]]
                                   /\ HoldOf(r) # Contract!Nothing
  BY <1>1 DEF HoldOf, Handle, Contract!Nothing
<1>4. \A o \in Objects : Contract!Handles(o) = {r \in Refs : target[r] = o}
  BY DEF Contract!Handles, HoldOf
<1>5. \A r \in Refs, o \in Objects :
        HoldOf(r) = [kind |-> "strong", obj |-> o] <=> kind[r] = "strong" /\ target[r] = o
  BY <1>1 DEF TypeOK, HoldOf
<1>6. \A o \in Objects : Contract!Strong(o) = StrongRefs(o)
  BY <1>5 DEF Contract!Strong, StrongRefs
<1> QED BY <1>2, <1>3, <1>4, <1>6

\* A place that gives its reference up is the contract's Drop.
LEMMA DropRefines ==
    ASSUME IndInv, NEW r \in Refs, Handle(r), SetRef(r, "none", None, None),
           UNCHANGED <<state, storage>>
    PROVE  Contract!Drop(r)
<1> DEFINE holds == [q \in Refs |-> HoldOf(q)]
<1>1. holds' = [holds EXCEPT ![r] = Contract!Nothing]
  BY HoldChange DEF Contract!Nothing
<1>2. holds[r] # Contract!Nothing
  BY ContractValues
<1>3. [x \in Objects |-> LifeOf(x)]' = [x \in Objects |-> LifeOf(x)]
  BY DEF LifeOf
<1> QED BY <1>1, <1>2, <1>3 DEF Contract!Drop

\* A new weak or unowned handle beside a reference to its object is Observe.
LEMMA ObserveRefines ==
    ASSUME IndInv, NEW r \in Refs, NEW s \in Refs, NEW o \in Objects, NEW w,
           kind[r] \in {"none", "pending"}, target[s] = o,
           SetRef(r, "control", o, w), UNCHANGED <<state, storage>>
    PROVE  Contract!Observe(o, r)
<1> DEFINE holds == [q \in Refs |-> HoldOf(q)]
<1>1. holds' = [holds EXCEPT ![r] = [kind |-> "control", obj |-> o]]
  BY HoldChange
<1>2. holds[r] = Contract!Nothing /\ s \in Contract!Handles(o)
  BY ContractValues
<1>3. [x \in Objects |-> LifeOf(x)]' = [x \in Objects |-> LifeOf(x)]
  BY DEF LifeOf
<1> QED BY <1>1, <1>2, <1>3 DEF Contract!Observe

\* A new strong reference to an object that is alive is Upgrade.
LEMMA UpgradeRefines ==
    ASSUME IndInv, NEW r \in Refs, NEW s \in Refs, NEW o \in Objects, NEW w,
           kind[r] \in {"none", "pending"}, target[s] = o,
           storage[o] = "live", state[o] = "Alive",
           SetRef(r, "strong", o, w), UNCHANGED <<state, storage>>
    PROVE  Contract!Upgrade(o, r)
<1> DEFINE holds == [q \in Refs |-> HoldOf(q)]
<1>1. holds' = [holds EXCEPT ![r] = [kind |-> "strong", obj |-> o]]
  BY HoldChange
<1>2. holds[r] = Contract!Nothing /\ s \in Contract!Handles(o) /\ LifeOf(o) = "Alive"
  BY ContractValues DEF LifeOf
<1>3. [x \in Objects |-> LifeOf(x)]' = [x \in Objects |-> LifeOf(x)]
  BY DEF LifeOf
<1> QED BY <1>1, <1>2, <1>3 DEF Contract!Upgrade

\* Every step inside the runtime is one operation of the contract or shows nothing.
LEMMA ContinueRefines ==
    ASSUME IndInv, NEW t \in Threads, Continue(t)
    PROVE  Contract!CNext \/ UNCHANGED Contract!cvars
<1> DEFINE o == hdr[t]
<1>a. /\ TypeOK
      /\ CallInv(t)
      /\ \A r \in Refs : RefInv(r)
  BY DEF IndInv
<1>q. ASSUME NEW r \in Refs, kind[r] = "pending", SetRef(r, "none", None, None),
             UNCHANGED <<state, storage>>
      PROVE  UNCHANGED Contract!cvars
  <2>1. HoldOf(r) = [kind |-> "none", obj |-> None]
    BY <1>a, <1>q DEF HoldOf, RefInv
  <2>2. [q \in Refs |-> HoldOf(q)]' = [q \in Refs |-> HoldOf(q)]
    <3>1. [q \in Refs |-> HoldOf(q)]' =
            [[q \in Refs |-> HoldOf(q)] EXCEPT ![r] = [kind |-> "none", obj |-> None]]
      BY <1>q, HoldChange
    <3> QED BY <2>1, <3>1
  <2>3. [x \in Objects |-> LifeOf(x)]' = [x \in Objects |-> LifeOf(x)]
    BY <1>q DEF LifeOf
  <2> QED BY <2>2, <2>3 DEF Contract!cvars
<1>1. CASE TryRetainFail(t) \/ RetainControlFail(t)
  <2>1. dst[t] \in Refs /\ kind[dst[t]] = "pending" /\ SetRef(dst[t], "none", None, None)
        /\ UNCHANGED <<state, storage>>
    BY <1>a, <1>1 DEF TryRetainFail, RetainControlFail, CallInv, Holds, ClearRef, headers
  <2> QED BY <2>1, <1>q
<1>2. CASE TryRetainExchange(t)
  <2>1. /\ o \in Objects /\ dst[t] \in Refs /\ kind[dst[t]] = "pending"
        /\ src[t] \in Refs /\ Handle(src[t]) /\ target[src[t]] = o
        /\ UNCHANGED <<state, storage>>
    BY <1>a, <1>2 DEF TryRetainExchange, CallInv, Holds
  <2>2. CASE strong[o] = cnt[t]
    <3>1. strong[o] > 0
      BY <1>a, <1>2, <2>1, <2>2 DEF TryRetainExchange, TypeOK, Counts
    <3>2. storage[o] = "live" /\ state[o] = "Alive"
      BY <2>1, <3>1 DEF IndInv, ObjectInv
    <3>3. SetRef(dst[t], "strong", o, t)
      BY <1>2, <2>2 DEF TryRetainExchange
    <3>4. Contract!Upgrade(o, dst[t])
      BY <2>1, <3>2, <3>3, UpgradeRefines
    <3> QED BY <2>1, <3>4 DEF Contract!CNext
  <2>3. CASE strong[o] # cnt[t]
    BY <1>2, <2>3, NothingSeen DEF TryRetainExchange, refs
  <2> QED BY <2>2, <2>3
<1>3. CASE LoadObject(t)
  <2>1. dst[t] \in Refs /\ kind[dst[t]] = "strong" /\ target[dst[t]] = o
    BY <1>a, <1>3 DEF LoadObject, CallInv, Holds
  <2>2. object[o]
    BY <2>1, HandleFacts DEF Handle
  <2> QED BY <1>3, <2>2, NothingSeen DEF LoadObject, refs, headers
<1>4. CASE RetainControlExchange(t)
  <2>1. /\ o \in Objects /\ dst[t] \in Refs /\ kind[dst[t]] = "pending"
        /\ src[t] \in Refs /\ target[src[t]] = o /\ UNCHANGED <<state, storage>>
    BY <1>a, <1>4 DEF RetainControlExchange, CallInv, Holds
  <2>2. CASE weak[o] = cnt[t]
    <3>1. SetRef(dst[t], "control", o, t)
      BY <1>4, <2>2 DEF RetainControlExchange
    <3>2. Contract!Observe(o, dst[t])
      BY <2>1, <3>1, ObserveRefines
    <3> QED BY <2>1, <3>2 DEF Contract!CNext
  <2>3. CASE weak[o] # cnt[t]
    BY <1>4, <2>3, NothingSeen DEF RetainControlExchange, refs
  <2> QED BY <2>2, <2>3
<1>5. CASE SubStrong(t)
  <2>1. src[t] \in Refs /\ kind[src[t]] = "strong" /\ SetRef(src[t], "none", None, None)
        /\ UNCHANGED <<state, storage>>
    BY <1>a, <1>5 DEF SubStrong, SubStrongWhen, CallInv, Holds, ClearRef
  <2>2. Contract!Drop(src[t])
    BY <2>1, DropRefines DEF Handle
  <2> QED BY <2>1, <2>2 DEF Contract!CNext
<1>6. CASE BeginDestroy(t)
  <2>1. /\ o \in Objects /\ storage[o] = "live" /\ state[o] = "Alive" /\ StrongRefs(o) = {}
    BY <1>6, DestructionFacts
  <2>2. state' = [state EXCEPT ![o] = "Destroying"] /\ storage' = storage /\ UNCHANGED <<kind, target>>
    BY <1>6, <2>1 DEF BeginDestroy, refs
  <2>3. [x \in Objects |-> LifeOf(x)]' = [[x \in Objects |-> LifeOf(x)] EXCEPT ![o] = "Destroying"]
    BY <1>a, <2>1, <2>2 DEF LifeOf, TypeOK
  <2>4. LifeOf(o) = "Alive" /\ [q \in Refs |-> HoldOf(q)]' = [q \in Refs |-> HoldOf(q)]
    BY <2>1, <2>2 DEF LifeOf, HoldOf
  <2>5. Contract!Destroy(o)
    BY <2>1, <2>3, <2>4, ContractValues DEF Contract!Destroy
  <2> QED BY <2>1, <2>5 DEF Contract!CNext
<1>7. CASE MarkDestroyed(t)
  <2>1. /\ o \in Objects /\ storage[o] = "live" /\ state[o] = "Destroying"
    BY <1>7, DestructionFacts
  <2>2. state' = [state EXCEPT ![o] = "Destroyed"] /\ storage' = storage /\ UNCHANGED <<kind, target>>
    BY <1>7 DEF MarkDestroyed, refs
  <2>3. [x \in Objects |-> LifeOf(x)]' = [[x \in Objects |-> LifeOf(x)] EXCEPT ![o] = "Destroyed"]
    BY <1>a, <2>1, <2>2 DEF LifeOf, TypeOK
  <2>4. LifeOf(o) = "Destroying" /\ [q \in Refs |-> HoldOf(q)]' = [q \in Refs |-> HoldOf(q)]
    BY <2>1, <2>2 DEF LifeOf, HoldOf
  <2>5. Contract!Finish(o)
    BY <2>1, <2>3, <2>4 DEF Contract!Finish
  <2> QED BY <2>1, <2>5 DEF Contract!CNext
<1>8. CASE Free(t)
  <2>1. /\ o \in Objects /\ storage[o] = "live" /\ state[o] = "Destroyed"
        /\ \A r \in Refs : target[r] # o
    BY <1>8, DestructionFacts
  <2>2. storage' = [storage EXCEPT ![o] = "freed"] /\ state' = state /\ UNCHANGED <<kind, target>>
    BY <1>8 DEF Free, refs
  <2>3. [x \in Objects |-> LifeOf(x)]' = [[x \in Objects |-> LifeOf(x)] EXCEPT ![o] = "reclaimed"]
    BY <1>a, <2>1, <2>2 DEF LifeOf, TypeOK
  <2>4. LifeOf(o) = "Destroyed" /\ [q \in Refs |-> HoldOf(q)]' = [q \in Refs |-> HoldOf(q)]
    BY <2>1, <2>2 DEF LifeOf, HoldOf
  <2>5. Contract!Reclaim(o)
    BY <2>1, <2>3, <2>4, ContractValues DEF Contract!Reclaim
  <2> QED BY <2>1, <2>5 DEF Contract!CNext
<1>9. CASE ClearObject(t) \/ DropImplicit(t) \/ Uncount(t)
  BY <1>9, NothingSeen DEF ClearObject, DropImplicit, Uncount, refs
<1> QED BY <1>1, <1>2, <1>3, <1>4, <1>5, <1>6, <1>7, <1>8, <1>9 DEF Continue

\* An allocation is Create.
LEMMA AllocateRefines ==
    ASSUME IndInv, NEW t \in Threads, NEW o \in Objects, NEW r \in Refs, Allocate(t, o, r)
    PROVE  Contract!Create(o, r)
<1> DEFINE holds == [q \in Refs |-> HoldOf(q)]
           lives == [x \in Objects |-> LifeOf(x)]
<1>1. /\ storage[o] = "unused" /\ kind[r] = "none" /\ SetRef(r, "strong", o, t)
      /\ storage' = [storage EXCEPT ![o] = "live"] /\ state' = state
  BY DEF Allocate
<1>2. state[o] = "Alive" /\ TypeOK
  BY <1>1 DEF IndInv, ObjectInv
<1>3. lives' = [lives EXCEPT ![o] = "Alive"] /\ lives[o] = "absent"
  BY <1>1, <1>2 DEF LifeOf, TypeOK
<1>4. holds' = [holds EXCEPT ![r] = [kind |-> "strong", obj |-> o]]
  BY <1>1, HoldChange
<1>5. holds[r] = Contract!Nothing
  BY <1>1, ContractValues
<1> QED BY <1>3, <1>4, <1>5 DEF Contract!Create

\* The beginning of an upgrade or a copy shows nothing: its result is pending.
LEMMA BeginRefines ==
    ASSUME IndInv, NEW t \in Threads, NEW s \in Refs, NEW d \in Refs,
           RetainStrong(t, s, d) \/ LockWeak(t, s, d) \/ MakeWeak(t, s, d) \/ CopyWeak(t, s, d)
    PROVE  UNCHANGED Contract!cvars
<1>1. kind[d] = "none" /\ SetRef(d, "pending", None, t) /\ UNCHANGED <<state, storage>>
  BY DEF RetainStrong, LockWeak, MakeWeak, CopyWeak, BeginRetain, BeginRetainControl, headers
<1>2. HoldOf(d) = [kind |-> "none", obj |-> None]
  BY <1>1 DEF IndInv, HoldOf, RefInv
<1>3. [q \in Refs |-> HoldOf(q)]' = [q \in Refs |-> HoldOf(q)]
  <2>1. [q \in Refs |-> HoldOf(q)]' =
          [[q \in Refs |-> HoldOf(q)] EXCEPT ![d] = [kind |-> "none", obj |-> None]]
    BY <1>1, HoldChange
  <2> QED BY <1>2, <2>1
<1>4. [x \in Objects |-> LifeOf(x)]' = [x \in Objects |-> LifeOf(x)]
  BY <1>1 DEF LifeOf
<1> QED BY <1>3, <1>4 DEF Contract!cvars

\* The release of a reference gives it up at once or only begins.
LEMMA ReleaseRefines ==
    ASSUME IndInv, NEW t \in Threads, NEW r \in Refs, ReleaseStrong(t, r) \/ ReleaseWeak(t, r)
    PROVE  Contract!CNext \/ UNCHANGED Contract!cvars
<1>1. Handle(r) /\ UNCHANGED <<state, storage>>
  BY DEF ReleaseStrong, ReleaseWeak, MayRelease, Holds, Handle, headers
<1>2. SetRef(r, "none", None, None) \/ UNCHANGED <<kind, target>>
  BY DEF ReleaseStrong, ReleaseWeak, ClearRef, refs
<1>3. CASE SetRef(r, "none", None, None)
  <2>1. Contract!Drop(r)
    BY <1>1, <1>3, DropRefines
  <2> QED BY <2>1 DEF Contract!CNext
<1>4. CASE UNCHANGED <<kind, target>>
  BY <1>1, <1>4, NothingSeen
<1> QED BY <1>2, <1>3, <1>4

\* The contract does not say who owns a reference.
LEMMA MoveRefines ==
    ASSUME IndInv, NEW r \in Refs, NEW w, SetRef(r, kind[r], target[r], w), UNCHANGED headers
    PROVE  UNCHANGED Contract!cvars
BY NothingSeen DEF IndInv, SetRef, TypeOK, headers

\* The lock-free counts implement what the ABI promises, for any number of threads,
\* objects and references: an upgrade succeeds only while the object is alive, its
\* destruction begins after the last strong release, and its storage outlives every
\* handle.
THEOREM ImplementsContractHolds == Spec => ImplementsContract
<1>1. Init => Contract!CInit
  BY DEF Init, Contract!CInit, Contract!Nothing, LifeOf, HoldOf
<1>2. IndInv /\ [Next]_vars => [Contract!CNext]_(Contract!cvars)
  <2> SUFFICES ASSUME IndInv, [Next]_vars PROVE Contract!CNext \/ UNCHANGED Contract!cvars
    OBVIOUS
  <2>1. CASE UNCHANGED vars
    BY <2>1, NothingSeen DEF vars
  <2>2. ASSUME NEW t \in Threads, NEW r \in Refs, NEW s \in Refs, Capture(t, r, s)
        PROVE  UNCHANGED Contract!cvars
    BY <2>2, MoveRefines DEF Capture
  <2>3. ASSUME NEW t \in Threads, NEW u \in Threads, NEW r \in Refs, HandOver(t, u, r)
        PROVE  UNCHANGED Contract!cvars
    BY <2>3, MoveRefines DEF HandOver
  <2>4. ASSUME NEW t \in Threads, NEW o \in Objects, NEW r \in Refs, Allocate(t, o, r)
        PROVE  Contract!CNext
    BY <2>4, AllocateRefines DEF Contract!CNext
  <2> QED
    BY <2>1, <2>2, <2>3, <2>4, ContinueRefines, BeginRefines, ReleaseRefines DEF Next, Release
<1> QED BY <1>1, <1>2, Invariance, PTL DEF Spec, ImplementsContract, Contract!CSpec
===========================================================================
