----------------------------- MODULE ControlFlow -----------------------------
(***************************************************************************)
(* The control-flow analysis that every dataflow analysis of the compiler  *)
(* starts from (Talac/Analysis/ControlFlow.cpp): catalog the blocks, keep  *)
(* the valid successors, number the reachable blocks with an explicit      *)
(* stack.                                                                  *)
(*                                                                         *)
(* The analysed function is an input.  It is chosen once, in CFInit, from  *)
(* the constant Programs, and includes the malformed ones the code         *)
(* diagnoses: duplicate block records, a missing entry, missing targets.   *)
(* A block is on the stack at most once, so the field nextSuccessor of the *)
(* C++ frame is a function of the block here.                              *)
(***************************************************************************)
EXTENDS Integers, Sequences, FiniteSets

CONSTANTS
    Block,      \* block identities, some natural numbers
    Access,     \* what a block does; only the dataflow analyses look into it
    Programs    \* the functions to analyse

Program ==
    [entry  : Block,
     blocks : Seq([id : Block, successors : Seq(Block), accesses : Seq(Access)])]

ASSUME ProgramsAssumption == Block \subseteq Nat /\ Programs \subseteq Program

VARIABLES
    program,        \* the function being analysed; never changes
    phase,          \* which of the passes runs
    issues,         \* ControlFlowResult::issues
    record,         \* ValidSuccessors: the block record being read ...
    position,       \* ... and the position in its successors
    edges,          \* the valid successors of each block
    discovered,     \* Traverse: blocks pushed so far
    preorder,
    postorder,
    stack,
    nextSuccessor   \* how many successors of a block have been followed

graphVars == <<record, position, edges>>
walkVars == <<discovered, preorder, postorder, stack, nextSuccessor>>
cfVars == <<program, phase, issues, graphVars, walkVars>>
-----------------------------------------------------------------------------
(* CatalogBlocks: the first record of an identity is the block. *)

Records == DOMAIN program.blocks
IsFirst(r) == \A q \in Records : q < r => program.blocks[q].id # program.blocks[r].id
Catalog == {program.blocks[r].id : r \in Records}
RecordOf(b) == CHOOSE r \in Records : program.blocks[r].id = b /\ IsFirst(r)

CatalogIssues ==
    {[kind |-> "DuplicateBlock", block |-> program.blocks[r].id, target |-> 0] :
        r \in {q \in Records : ~IsFirst(q)}}
    \union
    {[kind |-> "MissingEntry", block |-> b, target |-> 0] : b \in {program.entry} \ Catalog}

CFInit ==
    /\ program \in Programs
    /\ phase = "edges"
    /\ issues = CatalogIssues
    /\ record = 1 /\ position = 1
    /\ edges = [b \in Block |-> <<>>]
    /\ discovered = {} /\ preorder = <<>> /\ postorder = <<>> /\ stack = <<>>
    /\ nextSuccessor = [b \in Block |-> 0]
-----------------------------------------------------------------------------
(* ValidSuccessors, one target at a time. *)

Current == program.blocks[record]

ReadsRecord == phase = "edges" /\ record \in Records

ReadTarget ==
    /\ ReadsRecord
    /\ IsFirst(record)
    /\ position <= Len(Current.successors)
    /\ LET target == Current.successors[position] IN
         IF target \notin Catalog
           THEN /\ issues' = issues \union
                     {[kind |-> "MissingTarget", block |-> Current.id, target |-> target]}
                /\ edges' = edges
           ELSE /\ issues' = issues
                /\ edges' = IF \E i \in DOMAIN edges[Current.id] : edges[Current.id][i] = target
                              THEN edges
                              ELSE [edges EXCEPT ![Current.id] = Append(@, target)]
    /\ position' = position + 1
    /\ UNCHANGED <<program, phase, record, walkVars>>

NextRecord ==
    /\ ReadsRecord
    /\ ~IsFirst(record) \/ position > Len(Current.successors)
    /\ record' = record + 1
    /\ position' = 1
    /\ UNCHANGED <<program, phase, issues, edges, walkVars>>
-----------------------------------------------------------------------------
(* Traverse. *)

BeginTraverse ==
    /\ phase = "edges"
    /\ record \notin Records
    /\ phase' = "traverse"
    /\ IF program.entry \in Catalog
         THEN /\ discovered' = {program.entry}
              /\ preorder' = <<program.entry>>
              /\ stack' = <<program.entry>>
         ELSE UNCHANGED <<discovered, preorder, stack>>
    /\ UNCHANGED <<program, issues, graphVars, postorder, nextSuccessor>>

Top == stack[Len(stack)]
PopStack == SubSeq(stack, 1, Len(stack) - 1)

Follow ==
    /\ phase = "traverse"
    /\ stack # <<>>
    /\ nextSuccessor[Top] < Len(edges[Top])
    /\ nextSuccessor' = [nextSuccessor EXCEPT ![Top] = @ + 1]
    /\ LET target == edges[Top][nextSuccessor[Top] + 1] IN
         IF target \in discovered
           THEN UNCHANGED <<discovered, preorder, stack>>
           ELSE /\ discovered' = discovered \union {target}
                /\ preorder' = Append(preorder, target)
                /\ stack' = Append(stack, target)
    /\ UNCHANGED <<program, phase, issues, graphVars, postorder>>

(* A planted bug: off by one, the frame may be left before its last successor. *)
LeaveEarly ==
    /\ phase = "traverse"
    /\ stack # <<>>
    /\ nextSuccessor[Top] + 1 >= Len(edges[Top])
    /\ postorder' = Append(postorder, Top)
    /\ stack' = PopStack
    /\ UNCHANGED <<program, phase, issues, graphVars, discovered, preorder, nextSuccessor>>

Leave ==
    /\ phase = "traverse"
    /\ stack # <<>>
    /\ nextSuccessor[Top] >= Len(edges[Top])
    /\ postorder' = Append(postorder, Top)
    /\ stack' = PopStack
    /\ UNCHANGED <<program, phase, issues, graphVars, discovered, preorder, nextSuccessor>>

EndTraverse ==
    /\ phase = "traverse"
    /\ stack = <<>>
    /\ phase' = "analysed"
    /\ UNCHANGED <<program, issues, graphVars, walkVars>>

CFNext == ReadTarget \/ NextRecord \/ BeginTraverse \/ Follow \/ Leave \/ EndTraverse

CFSpec == CFInit /\ [][CFNext]_cfVars
CFFairSpec == CFSpec /\ WF_cfVars(CFNext)
-----------------------------------------------------------------------------
(* BuildFacts: what the analyses see of the graph. *)

Successors(b) == {edges[b][i] : i \in DOMAIN edges[b]}

Predecessors(b) == {a \in discovered : b \in Successors(a)}

(* A planted bug: postorder is handed out unreversed. *)
PlainPostorder == postorder

ReversePostorder == [i \in 1..Len(postorder) |-> postorder[Len(postorder) + 1 - i]]
-----------------------------------------------------------------------------
(* Properties. *)

OnStack == {stack[i] : i \in DOMAIN stack}
Left == {postorder[i] : i \in DOMAIN postorder}

(* Every register holds what its C++ type allows: positions stay inside    *)
(* the vectors they index, edges lead to cataloged blocks only.  (Phase is *)
(* left to the analysis that extends this module.)                         *)
CFTypeOK ==
    /\ program \in Program
    /\ record \in 1..Len(program.blocks) + 1
    /\ position \in Nat \ {0}
    /\ edges \in [Block -> Seq(Catalog)]
    /\ discovered \subseteq Catalog
    /\ preorder \in Seq(Catalog) /\ postorder \in Seq(Catalog) /\ stack \in Seq(Catalog)
    /\ nextSuccessor \in [Block -> Nat]
    /\ \A b \in Block : nextSuccessor[b] <= Len(edges[b])

(* The blocks that a path from the entry reaches: those in every set that  *)
(* contains the entry and that no edge leaves.                             *)
ClosedFromEntry(S) ==
    /\ program.entry \in Catalog => program.entry \in S
    /\ \A a \in S : Successors(a) \subseteq S
Reachable == {b \in Catalog : \A S \in SUBSET Catalog : ClosedFromEntry(S) => b \in S}

(* The frame stack of Traverse finds every reachable block and no other,   *)
(* so `reachable` of the facts, the domain of every dataflow map, is       *)
(* exact.                                                                  *)
ReachableExact == phase = "analysed" => discovered = Reachable

(* The inductive invariant behind it.  A block is discovered while it is   *)
(* on the stack or after it was left; the successors a frame has followed  *)
(* are discovered, and a block is left when it has followed them all; and  *)
(* the walk never leaves a closed set.                                     *)
CFInv ==
    /\ CFTypeOK
    /\ phase = "edges" =>
         /\ discovered = {} /\ stack = <<>> /\ postorder = <<>>
         /\ \A b \in Block : nextSuccessor[b] = 0
    /\ (phase # "edges" /\ program.entry \in Catalog) => program.entry \in discovered
    /\ phase \notin {"edges", "traverse"} => stack = <<>>
    /\ discovered = OnStack \union Left /\ OnStack \intersect Left = {}
    /\ \A i, j \in DOMAIN stack : stack[i] = stack[j] => i = j
    /\ \A i, j \in DOMAIN postorder : postorder[i] = postorder[j] => i = j
    /\ \A b \in Left : nextSuccessor[b] = Len(edges[b])
    /\ \A b \in Block : \A i \in 1..nextSuccessor[b] : edges[b][i] \in discovered
    /\ \A b \in discovered \ {program.entry} : \E a \in discovered : b \in Successors(a)
    /\ \A S \in SUBSET Catalog : ClosedFromEntry(S) => discovered \subseteq S

(* reversePostorder is the order a forward analysis wants: an edge that    *)
(* goes backwards in it closes a cycle.                                    *)
Index(s, b) == CHOOSE i \in DOMAIN s : s[i] = b
CanReach(b) ==
    {c \in discovered :
        \A S \in SUBSET discovered : (b \in S /\ \A a \in S : Successors(a) \subseteq S) => c \in S}
RetreatingEdgesAreCyclic ==
    phase = "analysed" =>
      \A a \in discovered : \A b \in Successors(a) :
        Index(ReversePostorder, b) <= Index(ReversePostorder, a) => a \in CanReach(b)
=============================================================================
