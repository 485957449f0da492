------------------------------ MODULE OpCache ------------------------------
(***************************************************************************)
(* The operation cache of seq_rewriter (op_cache::find, insert, cleanup)   *)
(* together with the memoising functions that use it (is_nullable,         *)
(* mk_antimirov_deriv, mk_der_op, mk_der_compl).  Each of them looks its   *)
(* argument up, on a miss computes the result, making nested memoised      *)
(* calls on sub-terms, then inserts it.  insert first calls cleanup, which *)
(* clears the table and the trail together once the table has reached     *)
(* MaxCacheSize entries.                                                   *)
(*                                                                         *)
(* Terms live in the external term manager: a node is an address of Addr   *)
(* holding a term, nodes are hash-consed (at most one live node per term)  *)
(* and a node is freed as soon as nothing references it.  The references   *)
(* are the trail of the cache and the expr_ref locals of the active calls  *)
(* (the argument, owned as in mk_antimirov_deriv, and the results of the   *)
(* sub-calls).  A freed address can be reused for another term, so a table *)
(* entry whose key were not pinned could answer for the wrong term.        *)
(*                                                                         *)
(* The op kind and the second and third key arguments are abstracted: the  *)
(* key is one node and F is the pure function being memoised.             *)
(***************************************************************************)
EXTENDS Naturals, Sequences, FiniteSets

CONSTANTS
    Addr,          \* addresses of term nodes
    Terms,         \* the terms the computation can build
    F,             \* F[t]: the result the uncached computation returns for t
    Deps,          \* Deps[t]: the sub-terms whose results computing F[t] uses
    MaxCacheSize,  \* m_max_cache_size
    MaxCalls,      \* bound on the top-level calls of the client
    Free,          \* the contents of an unallocated address
    None           \* find's nullptr: no entry for the key

ASSUME ConstAssumption ==
    /\ IsFiniteSet(Addr)
    /\ F \in [Terms -> Terms]
    /\ Deps \in [Terms -> SUBSET Terms]
    /\ MaxCacheSize \in Nat \ {0}
    /\ MaxCalls \in Nat
    /\ Free \notin Terms
    /\ None \notin Addr

\* An activation of a memoising function: its argument node, the sub-terms
\* still to compute, the result nodes of the sub-calls it holds, and whether
\* it has looked its argument up yet.
Frame == [arg : Addr, todo : SUBSET Terms, held : SUBSET Addr,
          phase : {"find", "compute"}]

VARIABLES
    heap,    \* heap[a]: the term at address a, or Free
    table,   \* table[a]: the cached result node for key node a, or None
    trail,   \* m_trail: the nodes the cache holds references to
    stack,   \* the active memoising calls, innermost last
    calls    \* top-level calls made so far

vars == <<heap, table, trail, stack, calls>>

TrailSet(tr) == {tr[i] : i \in 1..Len(tr)}
\* Mutant: the results of the sub-calls are held as raw pointers, unpinned.
ReferencedArgsOnly(tr, st) ==
    {a \in Addr : \/ a \in TrailSet(tr)
                  \/ \E i \in 1..Len(st) : a = st[i].arg}
\* Every node something references: the trail and the locals of the calls.
Referenced(tr, st) ==
    {a \in Addr : \/ a \in TrailSet(tr)
                  \/ \E i \in 1..Len(st) : a = st[i].arg \/ a \in st[i].held}
\* The term manager frees every node nothing references.
Collect(h, refs) == [a \in Addr |-> IF a \in refs THEN h[a] ELSE Free]
\* mk(t) returns the live node of t, or a free address when t has none.
AllocAt(a, t) ==
    \/ heap[a] = t
    \/ heap[a] = Free /\ \A b \in Addr : heap[b] # t
Keys(tb) == {a \in Addr : tb[a] # None}
CallOf(a, t) == [arg |-> a, todo |-> Deps[t], held |-> {}, phase |-> "find"]
Top == stack[Len(stack)]
\* The innermost call returns r: its locals are dropped and its caller holds r.
Return(r) ==
    IF Len(stack) = 1 THEN <<>>
    ELSE [s \in 1..Len(stack) - 1 |->
             IF s = Len(stack) - 1 THEN [stack[s] EXCEPT !.held = @ \cup {r}]
             ELSE stack[s]]

Init ==
    /\ heap = [a \in Addr |-> Free]
    /\ table = [a \in Addr |-> None]
    /\ trail = <<>>
    /\ stack = <<>>
    /\ calls = 0

\* The client calls a memoising function on a term it has built.
Start ==
    /\ stack = <<>>
    /\ calls < MaxCalls
    /\ \E t \in Terms, a \in Addr :
          /\ AllocAt(a, t)
          /\ heap' = [heap EXCEPT ![a] = t]
          /\ stack' = <<CallOf(a, t)>>
    /\ calls' = calls + 1
    /\ UNCHANGED <<table, trail>>

\* Mutant: a hit hands back the key node instead of the cached result.
FindHitReturnsKey ==
    /\ stack # <<>>
    /\ Top.phase = "find"
    /\ table[Top.arg] # None
    /\ stack' = Return(Top.arg)
    /\ heap' = Collect(heap, Referenced(trail, stack'))
    /\ UNCHANGED <<table, trail, calls>>

\* op_cache::find hits: the call returns the cached node.
FindHit ==
    /\ stack # <<>>
    /\ Top.phase = "find"
    /\ table[Top.arg] # None
    /\ stack' = Return(table[Top.arg])
    /\ heap' = Collect(heap, Referenced(trail, stack'))
    /\ UNCHANGED <<table, trail, calls>>

\* op_cache::find misses: the call goes on to compute the result.
FindMiss ==
    /\ stack # <<>>
    /\ Top.phase = "find"
    /\ table[Top.arg] = None
    /\ stack' = [stack EXCEPT ![Len(stack)].phase = "compute"]
    /\ UNCHANGED <<heap, table, trail, calls>>

\* The computation builds a sub-term and makes a nested memoised call on it.
SubCall ==
    /\ stack # <<>>
    /\ Top.phase = "compute"
    /\ \E d \in Top.todo, a \in Addr :
          /\ AllocAt(a, d)
          /\ heap' = [heap EXCEPT ![a] = d]
          /\ stack' = Append([stack EXCEPT ![Len(stack)].todo = @ \ {d}],
                             CallOf(a, d))
    /\ UNCHANGED <<table, trail, calls>>

\* Mutant: the table is cleared only once it exceeds the cap.
CleanupStrict(tb, tr) ==
    IF Cardinality(Keys(tb)) > MaxCacheSize
    THEN <<[a \in Addr |-> None], <<>>>>
    ELSE <<tb, tr>>

\* op_cache::cleanup: clear table and trail once the table is full.
Cleanup(tb, tr) ==
    IF Cardinality(Keys(tb)) >= MaxCacheSize
    THEN <<[a \in Addr |-> None], <<>>>>
    ELSE <<tb, tr>>

\* Mutant: insert pins the nodes first and cleans up after, so a reset
\* drops the pins of the entry it has just made.
InsertCleanupLate ==
    /\ stack # <<>>
    /\ Top.phase = "compute"
    /\ Top.todo = {}
    /\ \E r \in Addr :
          LET heap1 == [heap EXCEPT ![r] = F[heap[Top.arg]]]
              full == Cardinality(Keys(table)) >= MaxCacheSize
          IN  /\ AllocAt(r, F[heap[Top.arg]])
              /\ trail' = IF full THEN <<>> ELSE trail \o <<Top.arg, r>>
              /\ table' = [IF full THEN [a \in Addr |-> None] ELSE table
                              EXCEPT ![Top.arg] = r]
              /\ stack' = Return(r)
              /\ heap' = Collect(heap1, Referenced(trail', stack'))
    /\ UNCHANGED calls

\* The computation builds its result r, op_cache::insert pins the key and r
\* on the trail (after cleanup) and records the entry, and the call returns r.
Insert ==
    /\ stack # <<>>
    /\ Top.phase = "compute"
    /\ Top.todo = {}
    /\ \E r \in Addr :
          LET heap1 == [heap EXCEPT ![r] = F[heap[Top.arg]]]
              clean == Cleanup(table, trail)
          IN  /\ AllocAt(r, F[heap[Top.arg]])
              /\ trail' = clean[2] \o <<Top.arg, r>>
              /\ table' = [clean[1] EXCEPT ![Top.arg] = r]
              /\ stack' = Return(r)
              /\ heap' = Collect(heap1, Referenced(trail', stack'))
    /\ UNCHANGED calls

Next == Start \/ FindHit \/ FindMiss \/ SubCall \/ Insert

\* Every call runs to completion (the rewriter is single-threaded and never
\* suspends), so the client's steps are weakly fair.
Spec == Init /\ [][Next]_vars /\ WF_vars(Next)

-----------------------------------------------------------------------------
\* Types of the variables.
TypeOK ==
    /\ heap \in [Addr -> Terms \cup {Free}]
    /\ table \in [Addr -> Addr \cup {None}]
    /\ trail \in Seq(Addr)
    /\ stack \in Seq(Frame)
    /\ calls \in Nat

(***************************************************************************)
(* Cache transparency (op_cache::find after insert and cleanup): every     *)
(* table entry maps a live key node to a node holding the result the       *)
(* uncached computation gives for the key's term.  It fails if an entry    *)
(* outlives the pin of its nodes: after the key is freed and its address   *)
(* reused for another term, find would return the old term's result.      *)
(***************************************************************************)
CacheTransparent ==
    \A a \in Keys(table) : heap[a] # Free /\ heap[table[a]] = F[heap[a]]

(***************************************************************************)
(* The size cap of op_cache::cleanup: the table never holds more than      *)
(* MaxCacheSize entries, whatever the nesting of the memoising calls.      *)
(***************************************************************************)
CacheBounded == Cardinality(Keys(table)) <= MaxCacheSize

(***************************************************************************)
(* The results a computation works with are right: every node a call      *)
(* holds as a sub-result (the expr_ref locals r1, r2 of mk_der_compl, of  *)
(* mk_der_op...) holds F of one of the sub-terms of its argument's term,   *)
(* although cleanup may clear the table and free nodes in the middle of   *)
(* the call and their addresses be reused for other terms.                 *)
(***************************************************************************)
HeldResultsCorrect ==
    \A i \in 1..Len(stack) : \A x \in stack[i].held :
        \E d \in Deps[heap[stack[i].arg]] : heap[x] = F[d]

(***************************************************************************)
(* The refinement mapping to MemoCall: a frame's argument and held results *)
(* are read through the heap, so that the abstract stack holds terms.      *)
(***************************************************************************)
AbsFrame(h, f) == [arg |-> h[f.arg], todo |-> f.todo, held |-> {h[x] : x \in f.held}]
AbsStack == [i \in 1..Len(stack) |-> AbsFrame(heap, stack[i])]

Memo == INSTANCE MemoCall WITH astack <- AbsStack, acalls <- calls

(***************************************************************************)
(* The cached functions implement the uncached ones: seen through the      *)
(* heap, every step of find, insert, cleanup and the nested calls is a     *)
(* step of MemoCall or leaves its state alone, so every call hands its     *)
(* caller the node of F of its argument, whether it was computed or found  *)
(* in the table, and however cleanup and node reuse interleave.            *)
(***************************************************************************)
MemoRefinement == Memo!ASpec
=============================================================================
