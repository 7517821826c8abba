------------------------ MODULE OwnershipFlowProofs ------------------------
(***************************************************************************)
(* The worklist computes the states that paths produce, for every function *)
(* and every handle, and a run misuses a handle without a report of that   *)
(* use only after a jump to the entry brought it there in another state.   *)
(*                                                                         *)
(* The invariant OFInv has four parts beyond the types: a block that is    *)
(* not waiting satisfies its equations (OFSettled); no fact holds a state  *)
(* outside a set that the paths from the entry stay in (OFSolution); once  *)
(* the worklist is empty the equations hold everywhere and the reports are *)
(* those of the facts (OFSolved); and a run is in a state that the facts   *)
(* allow (OFRunning, handles apart that a jump took back to the entry).    *)
(***************************************************************************)
EXTENDS OwnershipFlow, ControlFlowProofs, FiniteSetTheorems

USE HandleAssumption

(* A settled block satisfies its equations.                                *)
OFSettled ==
    phase = "solve" =>
      \A b \in discovered \ (scheduled \union affected) :
        /\ incoming[b] = JoinPredecessors(b)
        /\ outgoing[b] = Transfer(b, incoming[b])

(* A set of block and state pairs that no path from the entry leaves.      *)
ClosedStates(h, S) ==
    /\ EntryStates(h) \subseteq S
    /\ \A p \in S : Onward(h, p) \subseteq S

(* The facts stay inside every closed set.                                 *)
OFSolution ==
    phase \in {"solve", "run"} =>
      \A h \in Handle : \A S \in SUBSET (discovered \X State) : ClosedStates(h, S) =>
        \A b \in discovered :
          /\ \A s \in incoming[b][h] : <<b, s>> \in S
          /\ \A s \in outgoing[b][h] : \E r \in State : <<b, r>> \in S /\ s = EndState(b, h, r)

(* The analysis is done: the equations hold and the reports were made.     *)
OFSolved ==
    phase = "run" =>
      /\ \A b \in discovered : /\ incoming[b] = JoinPredecessors(b)
                              /\ outgoing[b] = Transfer(b, incoming[b])
      /\ reports = InitialReports \union UNION {ReportsOf(b) : b \in discovered}

OFInv ==
    /\ CFInv
    /\ OFTypeOK
    /\ initial \in InitialHandles
    /\ next \in Nat \ {0}
    /\ phase # "run" => at = program.entry /\ next = 1
    /\ phase \in {"solve", "run"} \/ (scheduled = {} /\ affected = {})
    /\ phase \in {"solve", "run"} \/ (incoming = [b \in Block |-> Bottom] /\ outgoing = [b \in Block |-> Bottom])
    /\ phase = "solve" => QueueMatchesSet /\ pending \in Seq(Block)
    /\ OFSettled
    /\ OFSolution
    /\ OFSolved

(* A run is in states the facts allow.                                     *)
OFRunning ==
    (phase = "run" /\ at \in discovered) =>
      /\ next <= Len(Actions(at)) + 1
      /\ \A h \in Handle \ reentered : holds[h] \in After(at, incoming[at])[next - 1][h]
-----------------------------------------------------------------------------
Fact == [Handle -> SUBSET State]

\* The actions of a cataloged block are a sequence of actions.
LEMMA ActionsType ==
    ASSUME program \in Program, NEW b \in Catalog
    PROVE  /\ Actions(b) \in Seq(Access) /\ Len(Actions(b)) \in Nat
           /\ DOMAIN Actions(b) = 1..Len(Actions(b))
           /\ \A i \in 1..Len(Actions(b)) : Actions(b)[i] \in Access
<1>1. Actions(b) \in Seq(Access)
  BY AccessesType DEF Actions
<1> QED BY <1>1

\* Walking through a block applies one action after the other.
LEMMA AfterUnfolds ==
    ASSUME NEW b, Len(Actions(b)) \in Nat, NEW X
    PROVE  /\ After(b, X)[0] = X
           /\ \A i \in 1..Len(Actions(b)) :
                After(b, X)[i] = Apply(Actions(b)[i], After(b, X)[i - 1])
<1> DEFINE IsFold(f, n) ==
             f = [i \in 0..n |-> IF i = 0 THEN X ELSE Apply(Actions(b)[i], f[i - 1])]
           S == {m \in Nat : \E f : IsFold(f, m)}
<1>1. 0 \in S
  <2> DEFINE f == [i \in 0..0 |-> X]
  <2>1. IsFold(f, 0)
    OBVIOUS
  <2> HIDE DEF f
  <2> QED BY <2>1
<1>2. ASSUME NEW m \in Nat, m \in S PROVE m + 1 \in S
  <2>1. PICK g : IsFold(g, m)
    BY <1>2
  <2> DEFINE f == [i \in 0..m + 1 |-> IF i = m + 1 THEN Apply(Actions(b)[i], g[m]) ELSE g[i]]
  <2>2. \A i \in 0..m + 1 : f[i] = IF i = 0 THEN X ELSE Apply(Actions(b)[i], f[i - 1])
    BY <2>1
  <2>3. IsFold(f, m + 1)
    BY <2>2
  <2> HIDE DEF f
  <2> QED BY <2>3
<1> HIDE DEF S
<1>3. Len(Actions(b)) \in S
  BY <1>1, <1>2, NatClosure
<1>4. PICK f : IsFold(f, Len(Actions(b)))
  BY <1>3 DEF S
<1>5. IsFold(After(b, X), Len(Actions(b)))
  BY <1>4 DEF After
<1> QED BY <1>5

\* So does a run, for the state of one handle.
LEMMA AlongUnfolds ==
    ASSUME NEW b, Len(Actions(b)) \in Nat, NEW h, NEW s
    PROVE  /\ Along(b, h, s)[0] = s
           /\ \A i \in 1..Len(Actions(b)) :
                Along(b, h, s)[i] = Effect(Actions(b)[i], h, Along(b, h, s)[i - 1])
<1> DEFINE IsFold(f, n) ==
             f = [i \in 0..n |-> IF i = 0 THEN s ELSE Effect(Actions(b)[i], h, f[i - 1])]
           S == {m \in Nat : \E f : IsFold(f, m)}
<1>1. 0 \in S
  <2> DEFINE f == [i \in 0..0 |-> s]
  <2>1. IsFold(f, 0)
    OBVIOUS
  <2> HIDE DEF f
  <2> QED BY <2>1
<1>2. ASSUME NEW m \in Nat, m \in S PROVE m + 1 \in S
  <2>1. PICK g : IsFold(g, m)
    BY <1>2
  <2> DEFINE f == [i \in 0..m + 1 |-> IF i = m + 1 THEN Effect(Actions(b)[i], h, g[m]) ELSE g[i]]
  <2>2. \A i \in 0..m + 1 : f[i] = IF i = 0 THEN s ELSE Effect(Actions(b)[i], h, f[i - 1])
    BY <2>1
  <2>3. IsFold(f, m + 1)
    BY <2>2
  <2> HIDE DEF f
  <2> QED BY <2>3
<1> HIDE DEF S
<1>3. Len(Actions(b)) \in S
  BY <1>1, <1>2, NatClosure
<1>4. PICK f : IsFold(f, Len(Actions(b)))
  BY <1>3 DEF S
<1>5. IsFold(Along(b, h, s), Len(Actions(b)))
  BY <1>4 DEF Along
<1> QED BY <1>5

\* An action on facts is the action on states, taken state by state; a definition
\* gives a state even where there was none, which the second half allows for by
\* looking at a set Y of states that is not empty.
LEMMA ApplyExact ==
    ASSUME NEW a \in Access, NEW X \in Fact, NEW h \in Handle
    PROVE  /\ Apply(a, X) \in Fact
           /\ \A s \in State : Effect(a, h, s) \in State
           /\ \A s \in X[h] : Effect(a, h, s) \in Apply(a, X)[h]
           /\ \A Y \in SUBSET State : (Y # {} /\ X[h] \subseteq Y) =>
                \A s \in Apply(a, X)[h] : \E r \in Y : s = Effect(a, h, r)
<1>0. /\ a.kind \in {"Observe", "Consume", "Define", "Forget"}
      /\ a.handle \in Handle \union {NoHandle} /\ a.expected \in HandleKind
      /\ "absent" \in State /\ "consumed" \in State /\ a.expected \in State
      /\ X[h] \subseteq State
  BY ActionAssumption DEF State, Fact
<1>1. CASE a.handle = NoHandle \/ a.kind = "Observe"
  <2>1. Apply(a, X) = X
    BY <1>1 DEF Apply
  <2>2. \A s : Effect(a, h, s) = s
    BY <1>1 DEF Effect
  <2> QED BY <2>1, <2>2
<1>2. CASE a.handle # NoHandle /\ a.kind = "Consume" /\ a.expected \in X[a.handle]
  <2>1. a.handle \in Handle
    BY <1>0, <1>2
  <2>2. Apply(a, X) = [X EXCEPT ![a.handle] = (X[a.handle] \ {a.expected}) \union {"consumed"}]
    BY <1>2 DEF Apply
  <2>3. \A s : Effect(a, h, s) = IF h = a.handle /\ s = a.expected THEN "consumed" ELSE s
    BY <1>2 DEF Effect
  <2>4. Apply(a, X) \in Fact
    BY <1>0, <2>1, <2>2 DEF Fact
  <2>5. Apply(a, X)[h] = IF h = a.handle THEN (X[h] \ {a.expected}) \union {"consumed"} ELSE X[h]
    BY <2>1, <2>2 DEF Fact
  <2> QED BY <1>0, <1>2, <2>3, <2>4, <2>5
<1>3. CASE a.handle # NoHandle /\ a.kind = "Consume" /\ a.expected \notin X[a.handle]
  <2>1. Apply(a, X) = X
    BY <1>3 DEF Apply
  <2>2. \A s : Effect(a, h, s) = IF h = a.handle /\ s = a.expected THEN "consumed" ELSE s
    BY <1>3 DEF Effect
  <2> QED BY <1>0, <1>3, <2>1, <2>2
<1>4. CASE a.handle # NoHandle /\ a.kind = "Define"
  <2>1. a.handle \in Handle
    BY <1>0, <1>4
  <2>2. Apply(a, X) = [X EXCEPT ![a.handle] = {a.expected}]
    BY <1>4 DEF Apply
  <2>3. \A s : Effect(a, h, s) = IF h = a.handle THEN a.expected ELSE s
    BY <1>4 DEF Effect
  <2>4. Apply(a, X) \in Fact
    BY <1>0, <2>1, <2>2 DEF Fact
  <2>5. Apply(a, X)[h] = IF h = a.handle THEN {a.expected} ELSE X[h]
    BY <2>1, <2>2 DEF Fact
  <2> QED BY <1>0, <2>3, <2>4, <2>5
<1>5. CASE a.handle # NoHandle /\ a.kind = "Forget"
  <2>1. a.handle \in Handle
    BY <1>0, <1>5
  <2>2. Apply(a, X) = [X EXCEPT ![a.handle] = {"absent"}]
    BY <1>5 DEF Apply
  <2>3. \A s : Effect(a, h, s) = IF h = a.handle THEN "absent" ELSE s
    BY <1>5 DEF Effect
  <2>4. Apply(a, X) \in Fact
    BY <1>0, <2>1, <2>2 DEF Fact
  <2>5. Apply(a, X)[h] = IF h = a.handle THEN {"absent"} ELSE X[h]
    BY <2>1, <2>2 DEF Fact
  <2> QED BY <1>0, <2>3, <2>4, <2>5
<1> QED BY <1>0, <1>1, <1>2, <1>3, <1>4, <1>5

\* The same of a whole block.
LEMMA TransferExact ==
    ASSUME program \in Program, NEW b \in Catalog, NEW X \in Fact
    PROVE  /\ \A i \in 0..Len(Actions(b)) : After(b, X)[i] \in Fact
           /\ Transfer(b, X) \in Fact
           /\ \A h \in Handle :
                /\ \A s \in State : EndState(b, h, s) \in State
                /\ \A s \in X[h] : EndState(b, h, s) \in Transfer(b, X)[h]
                /\ \A Y \in SUBSET State : (Y # {} /\ X[h] \subseteq Y) =>
                     \A s \in Transfer(b, X)[h] : \E r \in Y : s = EndState(b, h, r)
<1> DEFINE n == Len(Actions(b))
           A(i) == After(b, X)[i]
           Exact(i) ==
             /\ A(i) \in Fact
             /\ \A h \in Handle :
                  /\ \A s \in State : Along(b, h, s)[i] \in State
                  /\ \A s \in X[h] : Along(b, h, s)[i] \in A(i)[h]
                  /\ \A Y \in SUBSET State : (Y # {} /\ X[h] \subseteq Y) =>
                       \A s \in A(i)[h] : \E r \in Y : s = Along(b, h, r)[i]
           S == {i \in Nat : i <= n => Exact(i)}
<1>1. n \in Nat /\ \A i \in 1..n : Actions(b)[i] \in Access
  BY ActionsType
<1>2. A(0) = X /\ \A i \in 1..n : A(i) = Apply(Actions(b)[i], A(i - 1))
  BY <1>1, AfterUnfolds
<1>3. \A h, s : /\ Along(b, h, s)[0] = s
                /\ \A i \in 1..n : Along(b, h, s)[i] = Effect(Actions(b)[i], h, Along(b, h, s)[i - 1])
  BY <1>1, AlongUnfolds
<1> HIDE DEF A, n, Exact, S
<1>4. 0 \in S
  <2>1. Exact(0)
    BY <1>2, <1>3 DEF Exact
  <2> QED BY <2>1 DEF S
<1>5. ASSUME NEW m \in Nat, m \in S PROVE m + 1 \in S
  <2> SUFFICES ASSUME m + 1 <= n PROVE Exact(m + 1)
    BY DEF S
  <2>a. Exact(m) /\ m + 1 \in 1..n /\ (m + 1) - 1 = m
    BY <1>1, <1>5 DEF S
  <2>1. /\ A(m) \in Fact /\ m + 1 \in 1..n /\ (m + 1) - 1 = m
        /\ \A h \in Handle :
             /\ \A s \in State : Along(b, h, s)[m] \in State
             /\ \A s \in X[h] : Along(b, h, s)[m] \in A(m)[h]
             /\ \A Y \in SUBSET State : (Y # {} /\ X[h] \subseteq Y) =>
                  \A s \in A(m)[h] : \E r \in Y : s = Along(b, h, r)[m]
    BY <2>a DEF Exact
  <2> DEFINE a == Actions(b)[m + 1]
  <2>2. a \in Access /\ A(m + 1) = Apply(a, A(m))
        /\ \A h, s : Along(b, h, s)[m + 1] = Effect(a, h, Along(b, h, s)[m])
    <3>1. \A k \in 1..n : k - 1 = m =>
            /\ A(k) = Apply(Actions(b)[k], A(m))
            /\ \A h, s : Along(b, h, s)[k] = Effect(Actions(b)[k], h, Along(b, h, s)[m])
      BY <1>2, <1>3
    <3> QED BY <1>1, <2>1, <3>1
  <2> HIDE DEF a
  <2>3. A(m + 1) \in Fact
    <3>1. CASE Handle = {}
      <4>1. \A x \in Access : x.handle = NoHandle
        BY <3>1, ActionAssumption
      <4>2. Apply(a, A(m)) = A(m)
        BY <4>1, <2>2 DEF Apply
      <4> QED BY <4>2, <2>1, <2>2
    <3>2. CASE Handle # {}
      BY <2>1, <2>2, <3>2, ApplyExact
    <3> QED BY <3>1, <3>2
  <2>4. ASSUME NEW h \in Handle
        PROVE  /\ \A s \in State : Along(b, h, s)[m + 1] \in State
               /\ \A s \in X[h] : Along(b, h, s)[m + 1] \in A(m + 1)[h]
               /\ \A Y \in SUBSET State : (Y # {} /\ X[h] \subseteq Y) =>
                    \A s \in A(m + 1)[h] : \E r \in Y : s = Along(b, h, r)[m + 1]
    <3>1. /\ \A s \in State : Effect(a, h, s) \in State
          /\ \A s \in A(m)[h] : Effect(a, h, s) \in Apply(a, A(m))[h]
          /\ \A Y \in SUBSET State : (Y # {} /\ A(m)[h] \subseteq Y) =>
               \A s \in Apply(a, A(m))[h] : \E r \in Y : s = Effect(a, h, r)
      BY <2>1, <2>2, ApplyExact
    <3>2. /\ \A s \in State : Along(b, h, s)[m] \in State
          /\ \A s \in X[h] : Along(b, h, s)[m] \in A(m)[h]
      BY <2>1
    <3>3. ASSUME NEW Y \in SUBSET State, Y # {}, X[h] \subseteq Y, NEW s \in A(m + 1)[h]
          PROVE  \E r \in Y : s = Along(b, h, r)[m + 1]
      <4> DEFINE Z == {Along(b, h, r)[m] : r \in Y}
      <4>1. Z \in SUBSET State /\ Z # {}
        BY <3>2, <3>3
      <4>2. \A t \in A(m)[h] : \E r \in Y : t = Along(b, h, r)[m]
        BY <2>1, <3>3
      <4>3. A(m)[h] \subseteq Z
        BY <4>2
      <4> HIDE DEF Z
      <4>4. \E q \in Z : s = Effect(a, h, q)
        BY <2>2, <3>1, <3>3, <4>1, <4>3
      <4> QED BY <2>2, <4>4 DEF Z
    <3> QED BY <2>2, <3>1, <3>2, <3>3
  <2> QED BY <2>3, <2>4 DEF Exact
<1>6. \A i \in 0..n : Exact(i)
  <2>1. Nat \subseteq S
    BY <1>4, <1>5, NatClosure
  <2> QED BY <1>1, <2>1 DEF S
<1>7. \A i \in 0..n : A(i) \in Fact
  BY <1>6 DEF Exact
<1>8. Exact(n)
  BY <1>1, <1>6
<1> QED BY <1>7, <1>8 DEF Transfer, EndState, A, n, Exact

\* What the invariant speaks of does not change once the function is walked.
LEMMA OFStatic ==
    ASSUME UNCHANGED <<program, graphVars, walkVars>>, initial' = initial
    PROVE  /\ \A b : Actions(b)' = Actions(b)
           /\ \A b, X : After(b, X)' = After(b, X) /\ Transfer(b, X)' = Transfer(b, X)
           /\ \A b, h, s : EndState(b, h, s)' = EndState(b, h, s)
           /\ InitialState' = InitialState
           /\ \A h, S : ClosedStates(h, S)' <=> ClosedStates(h, S)
<1>1. \A b : Actions(b)' = Actions(b)
  BY GraphStatic DEF Actions
<1>2. \A b, X : After(b, X)' = After(b, X)
  BY <1>1 DEF After
<1>3. \A b, X : Transfer(b, X)' = Transfer(b, X)
  BY <1>1, <1>2 DEF Transfer
<1>4. \A b, h, s : EndState(b, h, s)' = EndState(b, h, s)
  BY <1>1 DEF EndState, Along
<1>5. InitialState' = InitialState
  BY DEF InitialState
<1>6. \A h, S : ClosedStates(h, S)' <=> ClosedStates(h, S)
  <2>1. program' = program /\ \A b : Successors(b)' = Successors(b)
    BY GraphStatic
  <2>2. \A h, p : Onward(h, p)' = Onward(h, p)
    BY <2>1, <1>4 DEF Onward
  <2>3. \A h : EntryStates(h)' = EntryStates(h)
    BY <2>1, <1>5 DEF EntryStates
  <2> QED BY <2>2, <2>3 DEF ClosedStates
<1> QED BY <1>1, <1>2, <1>3, <1>4, <1>5, <1>6

\* At the entry every handle is in some state, and facts join to facts.
LEMMA FactTypes ==
    ASSUME initial \in InitialHandles
    PROVE  /\ InitialState \in Fact /\ \A h \in Handle : InitialState[h] # {}
           /\ Absent \in Fact /\ Bottom \in Fact
<1>1. initial \in [Handle \union {NoHandle} -> SUBSET HandleKind]
  OBVIOUS
<1>2. \A h \in Handle : initial[h] \subseteq State
  BY <1>1 DEF State
<1>3. \A h \in Handle : /\ InitialState[h] = IF initial[h] = {} THEN {"absent"} ELSE initial[h]
                        /\ InitialState[h] \subseteq State /\ InitialState[h] # {}
  BY <1>2 DEF InitialState, State
<1>4. InitialState \in Fact
  BY <1>3 DEF InitialState, Fact
<1> QED BY <1>3, <1>4 DEF Absent, Bottom, Fact, State

LEMMA JoinType ==
    ASSUME initial \in InitialHandles, outgoing \in [Block -> Fact], discovered \subseteq Block,
           NEW b
    PROVE  JoinPredecessors(b) \in Fact
<1>1. Predecessors(b) \subseteq Block
  BY DEF Predecessors
<1>2. \A h \in Handle : UNION {outgoing[a][h] : a \in Predecessors(b)} \subseteq State
  BY <1>1 DEF Fact
<1>3. [h \in Handle |-> UNION {outgoing[a][h] : a \in Predecessors(b)}] \in Fact
  BY <1>2 DEF Fact
<1> QED BY <1>3, FactTypes DEF JoinPredecessors

\* The facts on entry to a block depend on its predecessors only.
LEMMA JoinSame ==
    ASSUME UNCHANGED <<program, graphVars, walkVars>>, initial' = initial, NEW c,
           \A a \in Predecessors(c) : outgoing'[a] = outgoing[a]
    PROVE  JoinPredecessors(c)' = JoinPredecessors(c)
<1>1. program' = program /\ Predecessors(c)' = Predecessors(c) /\ InitialState' = InitialState
  BY GraphStatic, OFStatic
<1>2. Absent' = Absent
  BY DEF Absent
<1>3. \A h : UNION {outgoing'[a][h] : a \in Predecessors(c)}
             = UNION {outgoing[a][h] : a \in Predecessors(c)}
  <2> TAKE h
  <2>1. {outgoing'[a][h] : a \in Predecessors(c)} = {outgoing[a][h] : a \in Predecessors(c)}
    OBVIOUS
  <2> QED BY <2>1
<1> QED BY <1>1, <1>2, <1>3 DEF JoinPredecessors

\* What a block makes of the facts on entry to it depends on them only.
LEMMA TransferSame ==
    ASSUME UNCHANGED <<program, graphVars, walkVars>>, initial' = initial, NEW c
    PROVE  Transfer(c, incoming[c])' = Transfer(c, incoming'[c])
<1>1. Actions(c)' = Actions(c)
  BY OFStatic
<1>2. After(c, incoming[c])' = After(c, incoming'[c])
  BY <1>1 DEF After
<1> QED BY <1>1, <1>2 DEF Transfer

\* A path from the entry reaches every discovered block in some state.
LEMMA ClosedStatesCover ==
    ASSUME CFInv, phase \notin {"edges", "traverse"}, initial \in InitialHandles,
           NEW h \in Handle, NEW S \in SUBSET (discovered \X State), ClosedStates(h, S)
    PROVE  \A b \in discovered : \E s \in State : <<b, s>> \in S
<1> DEFINE R == {b \in discovered : \E s \in State : <<b, s>> \in S}
<1>1. /\ \A a \in discovered : Successors(a) \subseteq discovered
      /\ discovered \subseteq Catalog
      /\ program.entry \in Catalog => program.entry \in discovered
  BY DiscoveredClosed
<1>2. /\ EntryStates(h) \subseteq S
      /\ \A p \in S : Onward(h, p) \subseteq S
  BY DEF ClosedStates
<1>3. program.entry \in discovered => program.entry \in R
  <2>1. PICK s : s \in InitialState[h]
    BY FactTypes
  <2>2. s \in State /\ <<program.entry, s>> \in S
    BY <1>2, <2>1, FactTypes DEF EntryStates, Fact
  <2> QED BY <2>2
<1>4. ASSUME NEW a \in R, NEW c \in Successors(a) PROVE c \in R
  <2>1. PICK s \in State : <<a, s>> \in S
    OBVIOUS
  <2>2. c \in discovered
    BY <1>1
  <2>3. CASE c = program.entry
    BY <1>3, <2>2, <2>3
  <2>4. CASE c # program.entry
    <3>1. <<c, EndState(a, h, s)>> \in Onward(h, <<a, s>>)
      BY <2>4 DEF Onward
    <3>2. <<c, EndState(a, h, s)>> \in S
      BY <1>2, <2>1, <3>1
    <3>3. EndState(a, h, s) \in State
      BY <3>2
    <3> QED BY <2>2, <3>2, <3>3
  <2> QED BY <2>3, <2>4
<1>5. ClosedFromEntry(R)
  BY <1>1, <1>3, <1>4 DEF ClosedFromEntry
<1>6. discovered \subseteq R
  <2>1. R \in SUBSET Catalog
    BY <1>1
  <2> HIDE DEF R
  <2> QED BY <1>5, <2>1 DEF CFInv
<1> QED BY <1>6
-----------------------------------------------------------------------------
\* The invariant holds at the start.
LEMMA OFInitInv ==
    ASSUME OFInit
    PROVE  OFInv
<1>1. CFInit /\ program \in Program
  BY ProgramsAssumption DEF OFInit, CFInit
<1>2. CFInv
  BY <1>1, CFInitInv
<1>3. phase = "edges" /\ scheduled = {} /\ affected = {}
  BY DEF OFInit, CFInit, WorklistInit
<1>4. OFTypeOK
  <2>1. Bottom \in [Handle -> SUBSET State] /\ holds \in [Handle -> State]
    BY DEF OFInit, Bottom, State
  <2> QED BY <1>3, <2>1 DEF OFInit, OFTypeOK
<1> QED BY <1>2, <1>3, <1>4 DEF OFInit, OFInv, OFSettled, OFSolution, OFSolved

\* The control-flow pass.
LEMMA OFControlFlowStep ==
    ASSUME OFInv, AnalyzeControlFlow
    PROVE  OFInv'
<1>1. /\ CFInv /\ OFTypeOK /\ CFNext
      /\ phase # "run" => at = program.entry /\ next = 1
      /\ phase \in {"solve", "run"} \/ (scheduled = {} /\ affected = {})
      /\ phase \in {"solve", "run"}
         \/ (incoming = [b \in Block |-> Bottom] /\ outgoing = [b \in Block |-> Bottom])
      /\ initial \in InitialHandles /\ next \in Nat \ {0}
  BY DEF OFInv, AnalyzeControlFlow
<1>2. CFInv'
  BY <1>1, CFNextInv
<1>3. /\ phase \in {"edges", "traverse"} /\ phase' \in {"edges", "traverse", "analysed"}
      /\ program' = program
  BY <1>1 DEF CFNext, ReadTarget, NextRecord, ReadsRecord, BeginTraverse, Follow, Leave,
              EndTraverse
<1>4. /\ scheduled' = {} /\ affected' = {} /\ incoming' = incoming /\ outgoing' = outgoing
      /\ at' = at /\ next' = next /\ holds' = holds /\ reentered' = reentered /\ initial' = initial
  BY <1>1, <1>3 DEF AnalyzeControlFlow, worklistVars, inputVars, factVars, runVars
<1>5. OFTypeOK'
  BY <1>1, <1>3, <1>4 DEF OFTypeOK
<1>6. phase' \notin {"solve", "run"} /\ Bottom' = Bottom
  BY <1>3 DEF Bottom
<1> QED BY <1>1, <1>2, <1>3, <1>4, <1>5, <1>6 DEF OFInv, OFSettled, OFSolution, OFSolved

\* The worklist starts with every reachable block, and the facts at bottom.
LEMMA OFStartStep ==
    ASSUME OFInv, StartFixedPoint
    PROVE  OFInv'
<1>1. /\ CFInv /\ OFTypeOK /\ phase = "analysed" /\ phase' = "solve"
      /\ initial \in InitialHandles /\ next \in Nat \ {0}
      /\ at = program.entry /\ next = 1
      /\ incoming = [b \in Block |-> Bottom] /\ outgoing = [b \in Block |-> Bottom]
  BY DEF OFInv, StartFixedPoint
<1>2. /\ UNCHANGED <<program, graphVars, walkVars>> /\ initial' = initial
      /\ incoming' = incoming /\ outgoing' = outgoing
      /\ at' = at /\ next' = next /\ holds' = holds /\ reentered' = reentered
  BY DEF StartFixedPoint, inputVars, factVars, runVars
<1>3. CFInv'
  BY <1>1, <1>2, PhaseStep DEF CFInv
<1>4. /\ scheduled' = discovered /\ affected' = {} /\ QueueMatchesSet' /\ pending' \in Seq(Block)
  BY <1>1, StartQueue DEF StartFixedPoint
<1>5. OFTypeOK'
  BY <1>1, <1>2, <1>4, GraphStatic DEF OFTypeOK
<1>6. OFSettled'
  BY <1>2, <1>4, GraphStatic DEF OFSettled
<1>7. OFSolution'
  <2>1. discovered \subseteq Block /\ discovered' = discovered
    BY <1>1, <1>2, DiscoveredClosed, GraphStatic
  <2>2. \A b \in discovered : \A h \in Handle : incoming'[b][h] = {} /\ outgoing'[b][h] = {}
    BY <1>1, <1>2, <2>1 DEF Bottom
  <2> QED BY <2>1, <2>2 DEF OFSolution
<1> QED BY <1>1, <1>2, <1>3, <1>4, <1>5, <1>6, <1>7, GraphStatic DEF OFInv, OFSolved

\* Evaluating the block in front of the queue.
LEMMA OFEvaluateStep ==
    ASSUME OFInv, Evaluate
    PROVE  OFInv'
<1> DEFINE b == Head(pending)
           In == JoinPredecessors(b)
           Out == Transfer(b, In)
<1>1. /\ CFInv /\ OFTypeOK /\ phase = "solve" /\ QueueMatchesSet /\ pending \in Seq(Block)
      /\ affected = {} /\ pending # <<>> /\ at = program.entry /\ next = 1
      /\ initial \in InitialHandles /\ next \in Nat \ {0} /\ OFSettled /\ OFSolution
  BY DEF OFInv, Evaluate, TakeNext
<1>2. UNCHANGED cfVars /\ UNCHANGED <<program, graphVars, walkVars>> /\ phase' = phase
      /\ at' = at /\ next' = next /\ holds' = holds /\ reentered' = reentered /\ initial' = initial
  BY DEF Evaluate, cfVars, runVars, inputVars
<1>3. CFInv'
  BY <1>1, <1>2, CFStutterInv
<1>4. /\ b \in scheduled /\ scheduled' = scheduled \ {b}
      /\ QueueMatchesSet' /\ pending' \in Seq(Block)
  BY <1>1, TakeQueue DEF Evaluate
<1>5. /\ discovered \subseteq Block /\ \A a \in discovered : Successors(a) \subseteq discovered
      /\ b \in discovered /\ b \in Block /\ b \in Catalog /\ program \in Program
  BY <1>1, <1>4, DiscoveredClosed DEF OFTypeOK, CFInv, CFTypeOK
<1>6. In \in Fact /\ Out \in Fact
  <2>1. In \in Fact
    BY <1>1, <1>5, JoinType DEF OFTypeOK, Fact
  <2> HIDE DEF In
  <2>2. Transfer(b, In) \in Fact
    BY <1>5, <2>1, TransferExact
  <2> QED BY <2>1, <2>2
<1>7. /\ incoming' = [incoming EXCEPT ![b] = In]
      /\ outgoing' = [outgoing EXCEPT ![b] = Out]
      /\ \/ affected' = Successors(b)
         \/ affected' = {} /\ incoming' = incoming /\ outgoing' = outgoing
  BY <1>1, <1>5 DEF Evaluate, NotifyChanged, Unchanged, OFTypeOK
<1> HIDE DEF In, Out, b
<1>8. /\ \A c \in Block : incoming'[c] = IF c = b THEN In ELSE incoming[c]
      /\ \A c \in Block : outgoing'[c] = IF c = b THEN Out ELSE outgoing[c]
  BY <1>1, <1>5, <1>7 DEF OFTypeOK
<1>9. OFTypeOK'
  BY <1>1, <1>2, <1>4, <1>5, <1>6, <1>7, GraphStatic DEF OFTypeOK, Fact
<1>10. OFSettled'
  <2> SUFFICES ASSUME NEW c \in discovered, c \notin scheduled', c \notin affected'
               PROVE  /\ incoming'[c] = JoinPredecessors(c)'
                      /\ outgoing'[c] = Transfer(c, incoming[c])'
    BY <1>2, GraphStatic DEF OFSettled
  <2>1. JoinPredecessors(c)' = JoinPredecessors(c)
    <3>1. CASE outgoing' = outgoing
      BY <1>2, <3>1, JoinSame
    <3>2. CASE affected' = Successors(b)
      <4>1. b \notin Predecessors(c)
        BY <3>2 DEF Predecessors
      <4>2. \A a \in Predecessors(c) : outgoing'[a] = outgoing[a]
        BY <1>5, <1>8, <4>1 DEF Predecessors
      <4> QED BY <1>2, <4>2, JoinSame
    <3> QED BY <1>7, <3>1, <3>2
  <2>2. Transfer(c, incoming[c])' = Transfer(c, incoming'[c])
    BY <1>2, TransferSame
  <2>3. CASE c = b
    BY <1>5, <1>8, <2>1, <2>2, <2>3 DEF In, Out
  <2>4. CASE c # b
    <3>1. incoming[c] = JoinPredecessors(c) /\ outgoing[c] = Transfer(c, incoming[c])
      BY <1>1, <1>4, <2>4 DEF OFSettled
    <3> QED BY <1>5, <1>8, <2>1, <2>2, <2>4, <3>1
  <2> QED BY <2>3, <2>4
<1>11. OFSolution'
  <2> SUFFICES ASSUME NEW h \in Handle, NEW S \in SUBSET (discovered \X State),
                      ClosedStates(h, S), NEW c \in discovered
               PROVE  /\ \A s \in incoming'[c][h] : <<c, s>> \in S
                      /\ \A s \in outgoing'[c][h] :
                           \E r \in State : <<c, r>> \in S /\ s = EndState(c, h, r)
    BY <1>2, GraphStatic, OFStatic DEF OFSolution
  <2>1. \A a \in discovered :
          /\ \A s \in incoming[a][h] : <<a, s>> \in S
          /\ \A s \in outgoing[a][h] : \E r \in State : <<a, r>> \in S /\ s = EndState(a, h, r)
    <3>1. \A T \in SUBSET (discovered \X State) : ClosedStates(h, T) =>
            \A a \in discovered :
              /\ \A s \in incoming[a][h] : <<a, s>> \in T
              /\ \A s \in outgoing[a][h] : \E r \in State : <<a, r>> \in T /\ s = EndState(a, h, r)
      BY <1>1 DEF OFSolution
    <3> QED BY <3>1
  <2>2. c \in Block
    BY <1>5
  <2>3. CASE c # b
    BY <1>8, <2>1, <2>2, <2>3
  <2>4. ASSUME NEW s \in In[h] PROVE <<b, s>> \in S
    <3>1. CASE b = program.entry
      BY <2>4, <3>1 DEF In, JoinPredecessors, ClosedStates, EntryStates
    <3>2. CASE b # program.entry
      <4>1. Predecessors(b) # {}
        BY <1>1, <1>5, <3>2 DEF CFInv, Predecessors
      <4>2. PICK a \in Predecessors(b) : s \in outgoing[a][h]
        BY <2>4, <3>2, <4>1 DEF In, JoinPredecessors
      <4>3. a \in discovered /\ b \in Successors(a)
        BY DEF Predecessors
      <4>4. PICK r \in State : <<a, r>> \in S /\ s = EndState(a, h, r)
        BY <2>1, <4>2, <4>3
      <4>5. <<b, s>> \in Onward(h, <<a, r>>)
        BY <3>2, <4>3, <4>4 DEF Onward
      <4> QED BY <4>4, <4>5 DEF ClosedStates
    <3> QED BY <3>1, <3>2
  <2>5. ASSUME NEW s \in Out[h]
        PROVE  \E r \in State : <<b, r>> \in S /\ s = EndState(b, h, r)
    <3> DEFINE Y == {r \in State : <<b, r>> \in S}
    <3>1. Y \in SUBSET State /\ Y # {}
      BY <1>1, <1>5, ClosedStatesCover
    <3>2. In[h] \subseteq Y
      BY <1>6, <2>4 DEF Fact
    <3> HIDE DEF Y
    <3>3. \E r \in Y : s = EndState(b, h, r)
      BY <1>5, <1>6, <2>5, <3>1, <3>2, TransferExact DEF Out
    <3> QED BY <3>3 DEF Y
  <2>6. CASE c = b
    BY <1>8, <2>2, <2>4, <2>5, <2>6
  <2> QED BY <2>3, <2>6
<1> QED BY <1>1, <1>2, <1>3, <1>4, <1>9, <1>10, <1>11 DEF OFInv, OFSolved

\* Facts that do not change stay inside every closed set.
LEMMA SolutionSame ==
    ASSUME OFSolution, UNCHANGED <<program, graphVars, walkVars>>, initial' = initial,
           incoming' = incoming, outgoing' = outgoing,
           phase' \in {"solve", "run"} => phase \in {"solve", "run"}
    PROVE  OFSolution'
<1>1. discovered' = discovered
  BY GraphStatic
<1>2. \A b, h, s : EndState(b, h, s)' = EndState(b, h, s)
  BY OFStatic
<1>3. \A h, S : ClosedStates(h, S)' <=> ClosedStates(h, S)
  BY OFStatic
<1> SUFFICES ASSUME phase' \in {"solve", "run"}, NEW h \in Handle,
                    NEW S \in SUBSET (discovered \X State), ClosedStates(h, S)
             PROVE  \A b \in discovered :
                      /\ \A s \in incoming[b][h] : <<b, s>> \in S
                      /\ \A s \in outgoing[b][h] :
                           \E r \in State : <<b, r>> \in S /\ s = EndState(b, h, r)
  BY <1>1, <1>2, <1>3 DEF OFSolution
<1>4. phase \in {"solve", "run"}
  OBVIOUS
<1> QED BY <1>4 DEF OFSolution

\* Scheduling one neighbour of a block that changed.
LEMMA OFPropagateStep ==
    ASSUME OFInv, Propagate
    PROVE  OFInv'
<1>1. /\ CFInv /\ OFTypeOK /\ phase = "solve" /\ QueueMatchesSet /\ pending \in Seq(Block)
      /\ at = program.entry /\ next = 1
      /\ initial \in InitialHandles /\ next \in Nat \ {0} /\ OFSettled /\ OFSolution
  BY DEF OFInv, Propagate
<1>2. UNCHANGED cfVars /\ UNCHANGED <<program, graphVars, walkVars>> /\ phase' = phase
      /\ at' = at /\ next' = next /\ holds' = holds /\ reentered' = reentered /\ initial' = initial
      /\ incoming' = incoming /\ outgoing' = outgoing
  BY DEF Propagate, cfVars, factVars, runVars, inputVars
<1>3. CFInv'
  BY <1>1, <1>2, CFStutterInv
<1>4. /\ scheduled' \union affected' = scheduled \union affected
      /\ scheduled' \subseteq discovered /\ affected' \subseteq discovered
      /\ QueueMatchesSet' /\ pending' \in Seq(Block)
  BY <1>1, DiscoveredClosed, ScheduleQueue DEF OFTypeOK, Propagate
<1>5. OFTypeOK'
  BY <1>1, <1>2, <1>4, GraphStatic DEF OFTypeOK
<1>6. OFSettled'
  <2>1. \A c : JoinPredecessors(c)' = JoinPredecessors(c)
    BY <1>2, JoinSame
  <2>2. \A c : Transfer(c, incoming[c])' = Transfer(c, incoming[c])
    BY <1>2, TransferSame
  <2> QED BY <1>1, <1>2, <1>4, <2>1, <2>2, GraphStatic DEF OFSettled
<1>7. OFSolution'
  BY <1>1, <1>2, SolutionSame
<1> QED BY <1>1, <1>2, <1>3, <1>4, <1>5, <1>6, <1>7 DEF OFInv, OFSolved


\* The reports depend on the function and on the facts only.
LEMMA ReportsSame ==
    ASSUME UNCHANGED <<program, graphVars, walkVars>>, initial' = initial, incoming' = incoming
    PROVE  /\ InitialReports' = InitialReports
           /\ \A b : After(b, incoming[b])' = After(b, incoming[b])
           /\ \A b : ReportsOf(b)' = ReportsOf(b)
<1>1. program' = program /\ \A b : Actions(b)' = Actions(b)
  BY GraphStatic, OFStatic
<1>2. InitialReports' = InitialReports
  BY <1>1 DEF InitialReports
<1>3. \A b : After(b, incoming[b])' = After(b, incoming[b])
  BY <1>1 DEF After
<1>4. ASSUME NEW b PROVE ReportsOf(b)' = ReportsOf(b)
  <2>1. Unnamed(b)' = Unnamed(b) /\ Uses(b)' = Uses(b)
    BY <1>1 DEF Unnamed, Uses
  <2>2. Actions(b)' = Actions(b) /\ After(b, incoming[b])' = After(b, incoming[b])
    BY <1>1, <1>3
  <2> QED BY <2>1, <2>2 DEF ReportsOf
<1> QED BY <1>2, <1>3, <1>4

\* With the worklist empty the equations hold everywhere; the run begins.
LEMMA OFValidateStep ==
    ASSUME OFInv, ValidateActions
    PROVE  OFInv'
<1>1. /\ CFInv /\ OFTypeOK /\ phase = "solve" /\ phase' = "run" /\ QueueMatchesSet
      /\ pending = <<>> /\ affected = {} /\ at = program.entry /\ next = 1
      /\ initial \in InitialHandles /\ OFSettled /\ OFSolution
  BY DEF OFInv, ValidateActions, Exhausted
<1>2. /\ UNCHANGED <<program, graphVars, walkVars>> /\ initial' = initial
      /\ incoming' = incoming /\ outgoing' = outgoing
      /\ scheduled' = scheduled /\ affected' = affected /\ at' = at /\ next' = next
      /\ reentered' = reentered
      /\ reports' = InitialReports \union UNION {ReportsOf(b) : b \in discovered}
  BY DEF ValidateActions, worklistVars, inputVars
<1>3. CFInv'
  BY <1>1, <1>2, PhaseStep DEF CFInv
<1>4. scheduled = {}
  BY <1>1 DEF QueueMatchesSet
<1>5. \A b \in discovered : /\ incoming[b] = JoinPredecessors(b)
                            /\ outgoing[b] = Transfer(b, incoming[b])
  BY <1>1, <1>4 DEF OFSettled
<1>6. /\ \A b : JoinPredecessors(b)' = JoinPredecessors(b)
      /\ \A b : Transfer(b, incoming[b])' = Transfer(b, incoming[b])
      /\ InitialReports' = InitialReports /\ \A b : ReportsOf(b)' = ReportsOf(b)
  BY <1>2, JoinSame, TransferSame, ReportsSame
<1>7. OFSolved'
  BY <1>2, <1>5, <1>6, GraphStatic DEF OFSolved
<1>8. OFTypeOK'
  <2>1. InitialState \in Fact
    BY <1>1, FactTypes
  <2>2. PICK f \in [Handle -> State] : holds' = f
    BY DEF ValidateActions
  <2> QED BY <1>1, <1>2, <2>2, GraphStatic DEF OFTypeOK
<1>9. OFSolution'
  BY <1>1, <1>2, SolutionSame
<1> QED BY <1>1, <1>2, <1>3, <1>7, <1>8, <1>9 DEF OFInv, OFSettled

\* A run changes none of the facts.
LEMMA OFRunStep ==
    ASSUME OFInv, RunAction \/ RunBranch
    PROVE  OFInv'
<1>1. /\ CFInv /\ OFTypeOK /\ phase = "run" /\ at \in discovered
      /\ initial \in InitialHandles /\ OFSolution /\ OFSolved /\ next \in Nat \ {0}
  BY DEF OFInv, RunAction, RunBranch
<1>2. /\ UNCHANGED cfVars /\ UNCHANGED <<program, graphVars, walkVars>> /\ phase' = phase
      /\ incoming' = incoming /\ outgoing' = outgoing /\ reports' = reports
      /\ scheduled' = scheduled /\ affected' = affected /\ initial' = initial
  BY DEF RunAction, RunBranch, cfVars, factVars, worklistVars, inputVars
<1>3. CFInv'
  BY <1>1, <1>2, CFStutterInv
<1>4. /\ \A b : JoinPredecessors(b)' = JoinPredecessors(b)
      /\ \A b : Transfer(b, incoming[b])' = Transfer(b, incoming[b])
      /\ InitialReports' = InitialReports /\ \A b : ReportsOf(b)' = ReportsOf(b)
  BY <1>2, JoinSame, TransferSame, ReportsSame
<1>5. OFSolved'
  BY <1>1, <1>2, <1>4, GraphStatic DEF OFSolved
<1>6. next' \in Nat \ {0}
  BY <1>1 DEF RunAction, RunBranch
<1>7. holds' \in [Handle -> State]
  <2>1. CASE RunAction
    <3>1. /\ next \in 1..Len(Actions(at))
          /\ holds' = [h \in Handle |-> Effect(Actions(at)[next], h, holds[h])]
      <4>1. program \in Program /\ at \in Catalog
        BY <1>1 DEF CFInv, CFTypeOK
      <4>2. Len(Actions(at)) \in Nat
        BY <4>1, ActionsType
      <4> QED BY <1>1, <2>1, <4>2 DEF RunAction
    <3>2. Actions(at)[next] \in Access
      BY <1>1, <3>1, ActionsType DEF CFInv, CFTypeOK
    <3>3. ASSUME NEW h \in Handle PROVE Effect(Actions(at)[next], h, holds[h]) \in State
      <4>1. holds[h] \in State
        BY <1>1 DEF OFTypeOK
      <4>2. \A a \in Access : \A s \in State : Effect(a, h, s) \in State
        BY FactTypes, <1>1, ApplyExact
      <4> QED BY <3>2, <4>1, <4>2
    <3> QED BY <3>1, <3>3
  <2>2. CASE RunBranch
    BY <1>1, <2>2 DEF RunBranch, OFTypeOK
  <2> QED BY <2>1, <2>2
<1>8. OFTypeOK'
  <2>1. reentered' \subseteq Handle
    BY <1>1 DEF RunAction, RunBranch, OFTypeOK
  <2> QED BY <1>1, <1>2, <1>7, <2>1, GraphStatic DEF OFTypeOK
<1>9. OFSolution'
  BY <1>1, <1>2, SolutionSame
<1> QED BY <1>1, <1>2, <1>3, <1>5, <1>6, <1>8, <1>9 DEF OFInv, OFSettled

\* A stuttering step.
LEMMA OFStutter ==
    ASSUME OFInv, UNCHANGED ofVars
    PROVE  OFInv'
<1>1. /\ UNCHANGED cfVars /\ UNCHANGED <<program, graphVars, walkVars>> /\ phase' = phase
      /\ incoming' = incoming /\ outgoing' = outgoing /\ reports' = reports
      /\ scheduled' = scheduled /\ affected' = affected /\ pending' = pending
      /\ initial' = initial /\ at' = at /\ next' = next /\ holds' = holds
      /\ reentered' = reentered
  BY DEF ofVars, cfVars, factVars, worklistVars, runVars, inputVars
<1>2. CFInv'
  BY <1>1, CFStutterInv DEF OFInv
<1>3. /\ \A b : JoinPredecessors(b)' = JoinPredecessors(b)
      /\ \A b : Transfer(b, incoming[b])' = Transfer(b, incoming[b])
      /\ InitialReports' = InitialReports /\ \A b : ReportsOf(b)' = ReportsOf(b)
  BY <1>1, JoinSame, TransferSame, ReportsSame
<1>4. OFTypeOK'
  BY <1>1, GraphStatic DEF OFTypeOK, OFInv
<1>5. OFSettled' /\ OFSolved'
  BY <1>1, <1>3, GraphStatic DEF OFSettled, OFSolved, OFInv
<1>6. OFSolution'
  BY <1>1, SolutionSame DEF OFInv
<1>7. QueueMatchesSet' = QueueMatchesSet /\ Bottom' = Bottom
  BY <1>1 DEF QueueMatchesSet, Bottom
<1> QED BY <1>1, <1>2, <1>4, <1>5, <1>6, <1>7, GraphStatic DEF OFInv

\* The inductive invariant, for every function and every set of handles.
THEOREM OFInvariance == OFSpec => []OFInv
<1>1. OFInit => OFInv
  BY OFInitInv
<1>2. OFInv /\ [OFNext]_ofVars => OFInv'
  BY OFControlFlowStep, OFStartStep, OFEvaluateStep, OFPropagateStep, OFValidateStep, OFRunStep,
     OFStutter
     DEF OFNext
<1> QED BY <1>1, <1>2, PTL DEF OFSpec
-----------------------------------------------------------------------------
\* A run that is in states the facts allow stays in them: within a block because an
\* action on facts covers the action on states, and from block to block because what
\* leaves a block enters its successors, the entry excepted.
LEMMA RunningStep ==
    ASSUME OFInv, OFInv', OFRunning, OFNext
    PROVE  OFRunning'
<1>1. CFInv /\ OFTypeOK /\ OFSolved /\ initial \in InitialHandles /\ next \in Nat \ {0}
  BY DEF OFInv
<1>2. program \in Program /\ discovered \subseteq Catalog
  BY <1>1 DEF CFInv, CFTypeOK
<1>3. CASE AnalyzeControlFlow \/ StartFixedPoint \/ Evaluate \/ Propagate
  <2>1. phase' # "run"
    BY <1>1, <1>3 DEF AnalyzeControlFlow, CFNext, ReadTarget, NextRecord, ReadsRecord, BeginTraverse,
         Follow, Leave, EndTraverse, StartFixedPoint, Evaluate, Propagate, cfVars
  <2> QED BY <2>1 DEF OFRunning
<1>4. CASE ValidateActions
  <2>1. /\ UNCHANGED <<program, graphVars, walkVars>> /\ initial' = initial /\ incoming' = incoming
        /\ at' = at /\ next' = next /\ at = program.entry /\ next = 1 /\ phase' = "run"
    BY <1>4 DEF ValidateActions, inputVars, OFInv
  <2>2. PICK f \in [Handle -> State] : (\A h \in Handle : f[h] \in InitialState[h]) /\ holds' = f
    BY <1>4 DEF ValidateActions
  <2> SUFFICES ASSUME at \in discovered
               PROVE  /\ next <= Len(Actions(at)) + 1
                      /\ \A h \in Handle : holds'[h] \in After(at, incoming[at])[next - 1][h]
    BY <2>1, GraphStatic, OFStatic, ReportsSame DEF OFRunning
  <2>3. Len(Actions(at)) \in Nat /\ After(at, incoming[at])[0] = incoming[at]
    BY <1>2, ActionsType, AfterUnfolds
  <2>4. incoming[at] = InitialState
    <3>1. OFSolved' /\ phase' = "run" /\ discovered' = discovered
      BY <2>1, GraphStatic DEF OFInv
    <3>2. PICK b : b = at
      OBVIOUS
    <3>3. incoming'[b] = JoinPredecessors(b)'
      BY <3>1, <3>2 DEF OFSolved
    <3>4. InitialState' = InitialState /\ program' = program
      BY <2>1, GraphStatic, OFStatic
    <3> QED BY <2>1, <3>2, <3>3, <3>4 DEF JoinPredecessors
  <2> QED BY <2>1, <2>2, <2>3, <2>4
<1>5. CASE RunAction
  <2>1. /\ UNCHANGED <<program, graphVars, walkVars>> /\ initial' = initial /\ incoming' = incoming
        /\ at' = at /\ next' = next + 1 /\ at \in discovered /\ phase = "run"
        /\ next <= Len(Actions(at))
        /\ holds' = [h \in Handle |-> Effect(Actions(at)[next], h, holds[h])]
        /\ reentered' = IF Actions(at)[next].kind \in {"Define", "Forget"}
                        THEN reentered \ {Actions(at)[next].handle} ELSE reentered
    BY <1>5 DEF RunAction, inputVars, factVars, cfVars
  <2>2. /\ Len(Actions(at)) \in Nat /\ next \in 1..Len(Actions(at)) /\ at \in Catalog
        /\ Actions(at)[next] \in Access /\ next - 1 \in 0..Len(Actions(at)) /\ next \in Nat
    BY <1>1, <1>2, <2>1, ActionsType
  <2>3. incoming[at] \in Fact
    BY <1>1, <1>2, <2>1, DiscoveredClosed DEF OFTypeOK, Fact
  <2> DEFINE X == After(at, incoming[at])[next - 1]
             a == Actions(at)[next]
  <2>4. /\ X \in Fact
        /\ After(at, incoming[at])[next] = Apply(a, X)
    BY <1>2, <2>2, <2>3, TransferExact, AfterUnfolds
  <2>5. ASSUME NEW h \in Handle, h \notin reentered' PROVE holds'[h] \in After(at, incoming[at])[next][h]
    <3>1. \/ h \notin reentered
          \/ a.kind \in {"Define", "Forget"} /\ h = a.handle
      BY <2>1, <2>5
    <3>2. holds'[h] = Effect(a, h, holds[h])
      BY <2>1
    <3>3. a \in Access
      BY <2>2
    <3>4. h \notin reentered => holds[h] \in X[h]
      BY <2>1 DEF OFRunning
    <3> HIDE DEF X, a
    <3>5. CASE h \notin reentered
      <4>1. Effect(a, h, holds[h]) \in Apply(a, X)[h]
        BY <2>4, <3>3, <3>4, <3>5, ApplyExact
      <4> QED BY <2>4, <3>2, <4>1
    <3>6. CASE a.kind \in {"Define", "Forget"} /\ h = a.handle
      <4>1. Effect(a, h, holds[h]) = IF a.kind = "Define" THEN a.expected ELSE "absent"
        BY <3>6 DEF Effect
      <4>2. a.handle # NoHandle /\ DOMAIN X = Handle
        BY <2>4, <3>6 DEF Fact
      <4>3. Apply(a, X)[h] = IF a.kind = "Define" THEN {a.expected} ELSE {"absent"}
        BY <3>6, <4>2 DEF Apply
      <4> QED BY <2>4, <3>2, <4>1, <4>3
    <3> QED BY <3>1, <3>5, <3>6
  <2>6. next' <= Len(Actions(at)) + 1 /\ next' - 1 = next
    BY <2>1, <2>2
  <2> QED BY <2>1, <2>5, <2>6, GraphStatic, OFStatic, ReportsSame DEF OFRunning
<1>6. CASE RunBranch
  <2>1. /\ UNCHANGED <<program, graphVars, walkVars>> /\ initial' = initial /\ incoming' = incoming
        /\ at \in discovered /\ phase = "run" /\ holds' = holds /\ next' = 1
        /\ next > Len(Actions(at))
    BY <1>6 DEF RunBranch, inputVars, factVars, cfVars
  <2>2. PICK c \in Successors(at) : at' = c
    BY <1>6 DEF RunBranch
  <2>3. /\ c \in discovered /\ at \in Predecessors(c) /\ at \in Catalog /\ c \in Catalog
        /\ reentered' = IF c = program.entry
                        THEN {h \in Handle : holds[h] \notin InitialState[h]} ELSE reentered
    BY <1>1, <1>2, <1>6, <2>1, <2>2, DiscoveredClosed DEF Predecessors, RunBranch
  <2>4. /\ Len(Actions(at)) \in Nat /\ Len(Actions(c)) \in Nat
        /\ After(c, incoming[c])[0] = incoming[c]
    BY <2>3, <1>2, ActionsType, AfterUnfolds
  <2>5. next - 1 = Len(Actions(at))
    BY <1>1, <2>1, <2>4 DEF OFRunning
  <2>6. ASSUME NEW h \in Handle, h \notin reentered' PROVE holds[h] \in incoming[c][h]
    <3>1. outgoing[at] = Transfer(at, incoming[at]) /\ incoming[c] = JoinPredecessors(c)
      BY <1>1, <2>1, <2>3 DEF OFSolved
    <3>2. CASE c = program.entry
      BY <2>3, <2>6, <3>1, <3>2 DEF JoinPredecessors
    <3>3. CASE c # program.entry
      <4>1. holds[h] \in Transfer(at, incoming[at])[h]
        BY <2>1, <2>3, <2>5, <2>6, <3>3 DEF OFRunning, Transfer
      <4>2. JoinPredecessors(c)[h] = UNION {outgoing[a][h] : a \in Predecessors(c)}
        BY <2>3, <3>3 DEF JoinPredecessors
      <4> QED BY <2>3, <3>1, <4>1, <4>2
    <3> QED BY <3>2, <3>3
  <2>7. next' <= Len(Actions(c)) + 1 /\ next' - 1 = 0
    BY <2>1, <2>4
  <2> QED BY <2>1, <2>2, <2>4, <2>6, <2>7, GraphStatic, OFStatic, ReportsSame DEF OFRunning
<1> QED BY <1>3, <1>4, <1>5, <1>6 DEF OFNext


\* A run is in states the facts allow, but for what a jump brought back to the entry.
THEOREM RunningHolds == OFSpec => []OFRunning
<1>1. OFInit => OFRunning
  BY DEF OFInit, CFInit, OFRunning
<1>2. OFInv /\ OFInv' /\ OFRunning /\ [OFNext]_ofVars => OFRunning'
  <2> SUFFICES ASSUME OFInv, OFInv', OFRunning, [OFNext]_ofVars PROVE OFRunning'
    OBVIOUS
  <2>1. CASE OFNext
    BY <2>1, RunningStep
  <2>2. CASE UNCHANGED ofVars
    <3>1. /\ UNCHANGED <<program, graphVars, walkVars>> /\ initial' = initial
          /\ incoming' = incoming /\ at' = at /\ next' = next /\ holds' = holds
          /\ reentered' = reentered /\ phase' = phase
      BY <2>2 DEF ofVars, cfVars, inputVars, factVars, runVars
    <3> QED BY <3>1, GraphStatic, OFStatic, ReportsSame DEF OFRunning
  <2> QED BY <2>1, <2>2
<1> QED BY <1>1, <1>2, OFInvariance, PTL DEF OFSpec

\* What the verifiers keep of their promise, for every function and whatever jumps to its
\* entry: a run that uses a consumed handle, or one of the wrong kind, was reported at that
\* use, because the state it is in is one of those the facts allow there, and whatever the
\* others are ValidateRequirement then objects; unless a jump to the entry brought the
\* handle there in a state that the caller could not have left it in.
THEOREM MisusesReportedUnlessReenteredHolds == OFSpec => []MisusesReportedUnlessReentered
<1>1. OFInv /\ OFRunning => MisusesReportedUnlessReentered
  <2> SUFFICES ASSUME OFInv, OFRunning, phase = "run", at \in discovered, next \in Uses(at),
                      holds[Actions(at)[next].handle] \notin {Actions(at)[next].expected, "absent"},
                      Actions(at)[next].handle \notin reentered
               PROVE  \E r \in reports : r.block = at /\ r.action = next
    BY DEF MisusesReportedUnlessReentered, Misuse, Reported
  <2> DEFINE a == Actions(at)[next]
             actual == After(at, incoming[at])[next - 1][a.handle]
  <2>1. program \in Program /\ at \in Catalog /\ at \in discovered
    BY DEF OFInv, CFInv, CFTypeOK
  <2>2. next \in 1..Len(Actions(at)) /\ a \in Access
    BY <2>1, ActionsType DEF Uses
  <2>3. a.handle \in Handle
    BY <2>2, <2>1, ActionsType, ActionAssumption DEF Uses, Unnamed
  <2>4. holds[a.handle] \in actual /\ holds[a.handle] \in State
    BY <2>3 DEF OFRunning, OFInv, OFTypeOK
  <2>5. reports = InitialReports \union UNION {ReportsOf(b) : b \in discovered}
    BY DEF OFInv, OFSolved
  <2>6. PICK k : k \in Requirement(a.expected, actual)
    <3> DEFINE s == holds[a.handle]
    <3>1. s \in actual /\ s # a.expected /\ s # "absent" /\ s \in State
      BY <2>4
    <3> HIDE DEF s, actual, a
    <3> QED BY <3>1 DEF Requirement, State
  <2> DEFINE r == [kind |-> k, block |-> at, action |-> next]
  <2>7. r \in ReportsOf(at)
    <3> DEFINE Of(i) == {[kind |-> j, block |-> at, action |-> i] :
                           j \in Requirement(Actions(at)[i].expected,
                                             After(at, incoming[at])[i - 1][Actions(at)[i].handle])}
    <3>1. r \in Of(next)
      BY <2>6
    <3>2. UNION {Of(i) : i \in Uses(at)} \subseteq ReportsOf(at)
      BY DEF ReportsOf
    <3> HIDE DEF r, Of
    <3> QED BY <3>1, <3>2
  <2>8. r \in reports
    BY <2>1, <2>5, <2>7
  <2> QED BY <2>8
<1> QED BY <1>1, OFInvariance, RunningHolds, PTL


-----------------------------------------------------------------------------
\* A function has finitely many blocks and a handle finitely many states.
LEMMA PairsFinite ==
    ASSUME CFInv, phase \notin {"edges", "traverse"}
    PROVE  /\ IsFiniteSet(discovered \X State)
           /\ Cardinality(discovered \X State) \in Nat
<1>1. /\ discovered = Left /\ postorder \in Seq(Catalog)
  BY DiscoveredClosed DEF CFInv, CFTypeOK
<1>2. IsFiniteSet(discovered)
  <2>1. /\ Len(postorder) \in Nat /\ DOMAIN postorder = 1..Len(postorder)
        /\ IsFiniteSet(1..Len(postorder))
    BY <1>1, FS_Interval
  <2>2. postorder \in Surjection(1..Len(postorder), discovered)
    <3>1. postorder \in [1..Len(postorder) -> discovered]
      BY <1>1, <2>1 DEF Left
    <3>2. \A b \in discovered : \E i \in 1..Len(postorder) : postorder[i] = b
      BY <1>1, <2>1 DEF Left
    <3> QED BY <3>1, <3>2 DEF Surjection
  <2> QED BY <2>1, <2>2, FS_Surjection
<1>3. IsFiniteSet(State)
  <2>1. IsFiniteSet({"absent"}) /\ IsFiniteSet({"consumed"}) /\ IsFiniteSet(HandleKind)
    BY FS_Singleton, KindAssumption
  <2>2. IsFiniteSet({"absent"} \union {"consumed"})
    BY <2>1, FS_Union
  <2>3. IsFiniteSet(HandleKind \union ({"absent"} \union {"consumed"}))
    BY <2>1, <2>2, FS_Union
  <2>4. State = HandleKind \union ({"absent"} \union {"consumed"})
    BY DEF State
  <2> QED BY <2>3, <2>4
<1> QED BY <1>2, <1>3, FS_Product, FS_CardinalityType

\* As many steps as there are pairs are enough: a step that adds no pair is the last one
\* to matter, and one that adds a pair can be taken only as often as there are pairs.
\* So the path states are the least closed set.
LEMMA PathStatesLeast ==
    ASSUME CFInv, phase \notin {"edges", "traverse"}, initial \in InitialHandles,
           discovered # {}, NEW h \in Handle
    PROVE  /\ PathStates(h) \subseteq discovered \X State
           /\ ClosedStates(h, PathStates(h))
           /\ \A T : ClosedStates(h, T) => PathStates(h) \subseteq T
<1> DEFINE U == discovered \X State
           N == Cardinality(U)
           Reach == LET reach[n \in 0..N] ==
                          IF n = 0 THEN EntryStates(h)
                          ELSE LET before == reach[n - 1]
                               IN  before \union (UNION {Onward(h, p) : p \in before})
                    IN  reach
           Grow(X) == X \union UNION {Onward(h, p) : p \in X}
           IsFold(f, n) == f = [i \in 0..n |-> IF i = 0 THEN EntryStates(h) ELSE Grow(f[i - 1])]
           S == {m \in Nat : \E f : IsFold(f, m)}
<1>1. IsFiniteSet(U) /\ N \in Nat
  BY PairsFinite
<1>2. PathStates(h) = Reach[N]
  BY DEF PathStates
<1>3. 0 \in S
  <2> DEFINE f == [i \in 0..0 |-> EntryStates(h)]
  <2>1. IsFold(f, 0)
    OBVIOUS
  <2> HIDE DEF f
  <2> QED BY <2>1
<1>4. ASSUME NEW m \in Nat, m \in S PROVE m + 1 \in S
  <2>1. PICK g : IsFold(g, m)
    BY <1>4
  <2> HIDE DEF Grow
  <2> DEFINE f == [i \in 0..m + 1 |-> IF i = m + 1 THEN Grow(g[m]) ELSE g[i]]
  <2>2. \A i \in 0..m + 1 : f[i] = IF i = 0 THEN EntryStates(h) ELSE Grow(f[i - 1])
    BY <2>1
  <2>3. IsFold(f, m + 1)
    BY <2>2
  <2> HIDE DEF f
  <2> QED BY <2>3
<1>5. IsFold(Reach, N)
  <2>1. Nat \subseteq S
    <3> HIDE DEF S
    <3> QED BY <1>3, <1>4, NatClosure
  <2>2. PICK f : IsFold(f, N)
    BY <1>1, <2>1
  <2> HIDE DEF U, N
  <2> QED BY <2>2
<1> HIDE DEF Grow, Reach, N, S
<1>6. /\ Reach[0] = EntryStates(h)
      /\ \A i \in 1..N : Reach[i] = Grow(Reach[i - 1])
  BY <1>1, <1>5
<1>7. ClosedStates(h, U)
  <2>1. program.entry \in discovered /\ InitialState[h] \subseteq State
    BY EntryDiscovered, FactTypes DEF Fact
  <2>2. ASSUME NEW b \in discovered, NEW s \in State PROVE Onward(h, <<b, s>>) \subseteq U
    <3>1. Successors(b) \subseteq discovered /\ b \in Catalog /\ program \in Program
      BY DiscoveredClosed DEF CFInv, CFTypeOK
    <3>2. Absent \in Fact
      BY FactTypes
    <3>3. EndState(b, h, s) \in State
      BY <3>1, <3>2, TransferExact
    <3> QED BY <3>1, <3>3 DEF Onward
  <2>3. \A p \in U : \E b \in discovered, s \in State : p = <<b, s>>
    OBVIOUS
  <2> QED BY <2>1, <2>2, <2>3 DEF ClosedStates, EntryStates
<1>8. \A X \in SUBSET U : Grow(X) \in SUBSET U /\ X \subseteq Grow(X)
  BY <1>7 DEF Grow, ClosedStates
<1> DEFINE G == [X \in SUBSET U |-> Grow(X)]
<1>9. G \in [SUBSET U -> SUBSET U] /\ \A X \in SUBSET U : G[X] = Grow(X) /\ X \subseteq G[X]
  <2> HIDE DEF U
  <2> QED BY <1>8
<1> HIDE DEF G
<1>10. /\ Reach[N] \in SUBSET U /\ Reach[0] \subseteq Reach[N] /\ G[Reach[N]] = Reach[N]
       /\ \A T \in SUBSET U : (Reach[0] \subseteq T /\ \A X \in SUBSET T : G[X] \subseteq T) =>
            Reach[N] \subseteq T
  <2>1. Reach[0] \in SUBSET U
    BY <1>6, <1>7 DEF ClosedStates
  <2>2. \A i \in 1..N : Reach[i - 1] \in SUBSET U => Reach[i] = G[Reach[i - 1]]
    <3> HIDE DEF U
    <3> QED BY <1>6, <1>9
  <2>3. IsFiniteSet(U) /\ G \in [SUBSET U -> SUBSET U] /\ \A X \in SUBSET U : X \subseteq G[X]
    <3> HIDE DEF U
    <3> QED BY <1>1, <1>9
  <2>4. \A i \in 1..Cardinality(U) : Reach[i - 1] \in SUBSET U => Reach[i] = G[Reach[i - 1]]
    BY <2>2 DEF N
  <2>5. N = Cardinality(U)
    BY DEF N
  <2> HIDE DEF U
  <2>6. /\ Reach[Cardinality(U)] \in SUBSET U /\ Reach[0] \subseteq Reach[Cardinality(U)]
        /\ G[Reach[Cardinality(U)]] = Reach[Cardinality(U)]
        /\ \A T \in SUBSET U : (Reach[0] \subseteq T /\ \A X \in SUBSET T : G[X] \subseteq T) =>
             Reach[Cardinality(U)] \subseteq T
    BY <2>1, <2>3, <2>4, Saturation, ZenonT(60)
  <2> QED BY <2>5, <2>6
<1>11. ClosedStates(h, Reach[N])
  <2>1. Grow(Reach[N]) = Reach[N]
    <3> HIDE DEF U
    <3> QED BY <1>9, <1>10
  <2> QED BY <1>6, <1>10, <2>1 DEF Grow, ClosedStates
<1>12. ASSUME NEW T, ClosedStates(h, T) PROVE Reach[N] \subseteq T
  <2>1. Reach[0] \subseteq T \cap U
    BY <1>6, <1>7, <1>12 DEF ClosedStates
  <2>2. ASSUME NEW X \in SUBSET (T \cap U) PROVE G[X] \subseteq T \cap U
    <3>1. X \in SUBSET U /\ G[X] = Grow(X) /\ Grow(X) \in SUBSET U
      <4> HIDE DEF U
      <4> QED BY <1>8, <1>9
    <3>2. Grow(X) \subseteq T
      BY <1>12 DEF Grow, ClosedStates
    <3> QED BY <3>1, <3>2
  <2> HIDE DEF U
  <2> QED BY <1>10, <2>1, <2>2
<1> QED BY <1>2, <1>10, <1>11, <1>12

\* The facts are exactly the states that paths from the entry produce.  That they hold no
\* other state is the invariant; that they hold them all follows from the equations, which
\* make the facts themselves a set no path leaves.
THEOREM OwnershipFactsExactHolds == OFSpec => []OwnershipFactsExact
<1>1. OFInv => OwnershipFactsExact
  <2> SUFFICES ASSUME OFInv, phase = "solve", Exhausted, NEW h \in Handle, NEW b \in discovered
               PROVE  incoming[b][h] = {s \in State : <<b, s>> \in PathStates(h)}
    BY DEF OwnershipFactsExact
  <2>1. /\ CFInv /\ OFTypeOK /\ OFSolution /\ OFSettled /\ initial \in InitialHandles
        /\ discovered # {} /\ scheduled = {} /\ affected = {}
    BY DEF OFInv, Exhausted, QueueMatchesSet
  <2>0. \A a \in discovered : incoming[a] = JoinPredecessors(a) /\ outgoing[a] = Transfer(a, incoming[a])
    BY <2>1 DEF OFSettled
  <2>2. /\ discovered \subseteq Block /\ discovered \subseteq Catalog /\ program \in Program
        /\ \A a \in discovered : Successors(a) \subseteq discovered
        /\ program.entry \in discovered
    BY <2>1, DiscoveredClosed, EntryDiscovered DEF CFInv, CFTypeOK
  <2>3. \A a \in discovered : incoming[a] \in Fact
    BY <2>1, <2>2 DEF OFTypeOK, Fact
  <2>4. /\ PathStates(h) \subseteq discovered \X State
        /\ ClosedStates(h, PathStates(h))
        /\ \A T : ClosedStates(h, T) => PathStates(h) \subseteq T
    BY <2>1, PathStatesLeast
  <2>5. \A s \in incoming[b][h] : s \in State /\ <<b, s>> \in PathStates(h)
    <3>1. \A s \in incoming[b][h] : s \in State
      BY <2>3 DEF Fact
    <3>2. \A S \in SUBSET (discovered \X State) : ClosedStates(h, S) =>
            \A s \in incoming[b][h] : <<b, s>> \in S
      BY <2>1 DEF OFSolution
    <3> QED BY <2>4, <3>1, <3>2
  <2> DEFINE T == {p \in discovered \X State : p[2] \in incoming[p[1]][h]}
  <2>6. ClosedStates(h, T)
    <3>1. EntryStates(h) \subseteq T
      <4>1. incoming[program.entry] = InitialState
        BY <2>0, <2>2 DEF JoinPredecessors
      <4> QED BY <2>2, <2>3, <4>1 DEF EntryStates, Fact
    <3>2. ASSUME NEW a \in discovered, NEW s \in State, s \in incoming[a][h],
                 NEW c \in Successors(a) \ {program.entry}
          PROVE  <<c, EndState(a, h, s)>> \in T
      <4>1. c \in discovered /\ a \in Predecessors(c)
        BY <2>2 DEF Predecessors
      <4>2. /\ EndState(a, h, s) \in State
            /\ EndState(a, h, s) \in Transfer(a, incoming[a])[h]
        BY <2>2, <2>3, <3>2, TransferExact
      <4>3. outgoing[a] = Transfer(a, incoming[a]) /\ incoming[c] = JoinPredecessors(c)
        BY <2>0, <4>1
      <4>4. JoinPredecessors(c)[h] = UNION {outgoing[x][h] : x \in Predecessors(c)}
        BY <3>2, <4>1 DEF JoinPredecessors
      <4>5. EndState(a, h, s) \in incoming[c][h]
        BY <4>1, <4>2, <4>3, <4>4
      <4> QED BY <4>1, <4>2, <4>5
    <3>3. ASSUME NEW p \in T PROVE Onward(h, p) \subseteq T
      <4>1. p[1] \in discovered /\ p[2] \in State /\ p[2] \in incoming[p[1]][h]
        OBVIOUS
      <4> HIDE DEF T
      <4> QED BY <3>2, <4>1 DEF Onward
    <3> QED BY <3>1, <3>3 DEF ClosedStates
  <2>7. ASSUME NEW s \in State, <<b, s>> \in PathStates(h) PROVE s \in incoming[b][h]
    <3>1. <<b, s>> \in T
      <4> HIDE DEF T
      <4> QED BY <2>4, <2>6, <2>7
    <3> QED BY <3>1
  <2> QED BY <2>5, <2>7
<1> QED BY <1>1, OFInvariance, PTL

=============================================================================
