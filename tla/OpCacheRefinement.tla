------------------------- MODULE OpCacheRefinement -------------------------
(***************************************************************************)
(* Proof that the cached memoising functions implement the uncached ones:  *)
(* Spec => Memo!ASpec under the mapping AbsStack of OpCache.  The argument *)
(* rests on the inductive invariant IInv of OpCacheProofs: every node a    *)
(* call references is live, so allocating a node or collecting the         *)
(* unreferenced ones leaves the terms the mapping reads unchanged; and     *)
(* every entry is transparent, so a cache hit returns F of the argument.   *)
(***************************************************************************)
EXTENDS OpCacheProofs

\* The nodes frame f references.
FrameRefs(f) == {f.arg} \cup f.held

\* The abstract stack the state maps to after the innermost call returns.
AbsReturn(as) ==
    IF Len(as) = 1 THEN <<>>
    ELSE [s \in 1..Len(as) - 1 |->
             IF s = Len(as) - 1
             THEN [arg  |-> as[s].arg, todo |-> as[s].todo,
                   held |-> as[s].held \cup {F[as[Len(as)].arg]}]
             ELSE as[s]]

-----------------------------------------------------------------------------
\* A frame maps to the same abstract frame under two heaps that agree on
\* the nodes it references.
LEMMA FrameSame ==
    ASSUME NEW f \in Frame, NEW h1, NEW h2,
           \A x \in FrameRefs(f) : h2[x] = h1[x]
    PROVE  AbsFrame(h2, f) = AbsFrame(h1, f)
BY DEF FrameRefs, AbsFrame, Frame

\* The nodes of every frame of the stack are referenced.
LEMMA FrameRefsReferenced ==
    ASSUME NEW tr, NEW st \in Seq(Frame), NEW i \in 1..Len(st)
    PROVE  FrameRefs(st[i]) \subseteq Referenced(tr, st)
<1>1. st[i].arg \in Addr /\ st[i].held \subseteq Addr
    <2>1. st[i] \in Frame
        OBVIOUS
    <2> QED
        BY <2>1 DEF Frame
<1> QED
    BY <1>1 DEF FrameRefs, Referenced

(***************************************************************************)
(* When the innermost call returns a node r that holds F of its argument,  *)
(* under a heap h2 that agrees with the current heap on every node the     *)
(* callers reference, the stack maps to AbsReturn of the abstract stack.   *)
(***************************************************************************)
LEMMA ReturnMaps ==
    ASSUME stack \in Seq(Frame), stack # <<>>, heap \in [Addr -> Terms \cup {Free}],
           NEW r \in Addr, NEW h2,
           \A i \in 1..Len(stack) - 1 : \A x \in FrameRefs(stack[i]) : h2[x] = heap[x],
           h2[r] = F[heap[Top.arg]]
    PROVE  [i \in 1..Len(Return(r)) |-> AbsFrame(h2, Return(r)[i])] = AbsReturn(AbsStack)
<1> DEFINE n == Len(stack)
<1>1. n \in Nat /\ n >= 1
    OBVIOUS
<1>2. CASE n = 1
    BY <1>2 DEF Return, AbsReturn, AbsStack
<1>3. CASE n > 1
    <2>1. Return(r) = [s \in 1..n - 1 |->
                         IF s = n - 1 THEN [stack[s] EXCEPT !.held = @ \cup {r}]
                         ELSE stack[s]]
        BY <1>3 DEF Return
    <2>2. Len(AbsStack) = n /\ Len(Return(r)) = n - 1
        BY <1>1, <1>3, <2>1 DEF AbsStack
    <2>3. ASSUME NEW s \in 1..n - 2
          PROVE  AbsFrame(h2, Return(r)[s]) = AbsStack[s]
        <3>1. Return(r)[s] = stack[s] /\ stack[s] \in Frame
            BY <1>1, <2>1
        <3>2. \A x \in FrameRefs(stack[s]) : h2[x] = heap[x]
            BY <1>1
        <3> QED
            BY <3>1, <3>2, FrameSame DEF AbsStack
    <2>4. AbsFrame(h2, Return(r)[n - 1])
            = [arg  |-> AbsStack[n - 1].arg, todo |-> AbsStack[n - 1].todo,
               held |-> AbsStack[n - 1].held \cup {F[AbsStack[n].arg]}]
        <3> DEFINE f == stack[n - 1]
                   g == [f EXCEPT !.held = @ \cup {r}]
        <3>1. Return(r)[n - 1] = g
            BY <1>1, <1>3, <2>1
        <3>2. g.arg = f.arg /\ g.todo = f.todo /\ g.held = f.held \cup {r}
            OBVIOUS
        <3>3. \A x \in FrameRefs(f) : h2[x] = heap[x]
            BY <1>1, <1>3
        <3>4. AbsStack[n].arg = heap[Top.arg] /\ AbsStack[n - 1] = AbsFrame(heap, f)
            BY <1>1, <1>3 DEF AbsStack, AbsFrame, Top
        <3>5. {h2[x] : x \in f.held \cup {r}} = {heap[x] : x \in f.held} \cup {h2[r]}
            BY <3>3 DEF FrameRefs
        <3>6. h2[f.arg] = heap[f.arg]
            BY <3>3 DEF FrameRefs
        <3>7. AbsFrame(h2, g) = [arg |-> h2[g.arg], todo |-> g.todo, held |-> {h2[x] : x \in g.held}]
            BY DEF AbsFrame
        <3>8. /\ AbsStack[n - 1].arg = heap[f.arg]
              /\ AbsStack[n - 1].todo = f.todo
              /\ AbsStack[n - 1].held = {heap[x] : x \in f.held}
            BY <3>4 DEF AbsFrame
        <3>9. F[AbsStack[n].arg] = h2[r]
            BY <3>4
        <3> QED
            BY <3>1, <3>2, <3>5, <3>6, <3>7, <3>8, <3>9
    <2>5. AbsReturn(AbsStack)
            = [s \in 1..n - 1 |->
                  IF s = n - 1
                  THEN [arg  |-> AbsStack[n - 1].arg, todo |-> AbsStack[n - 1].todo,
                        held |-> AbsStack[n - 1].held \cup {F[AbsStack[n].arg]}]
                  ELSE AbsStack[s]]
        <3>1. Len(AbsStack) # 1 /\ Len(AbsStack) - 1 = n - 1
            BY <1>1, <1>3, <2>2
        <3> QED
            BY <3>1, <2>2, Zenon DEF AbsReturn
    <2>6. \A s \in 1..n - 1 :
            AbsFrame(h2, Return(r)[s])
              = IF s = n - 1
                THEN [arg  |-> AbsStack[n - 1].arg, todo |-> AbsStack[n - 1].todo,
                      held |-> AbsStack[n - 1].held \cup {F[AbsStack[n].arg]}]
                ELSE AbsStack[s]
        BY <1>1, <2>3, <2>4
    <2>7. [i \in 1..Len(Return(r)) |-> AbsFrame(h2, Return(r)[i])]
            = [s \in 1..n - 1 |-> AbsFrame(h2, Return(r)[s])]
        BY <2>2
    <2> QED
        BY <2>5, <2>6, <2>7
<1>4. n = 1 \/ n > 1
    <2>1. Len(stack) \in Nat /\ Len(stack) # 0
        OBVIOUS
    <2>2. \A k \in Nat : k # 0 => k = 1 \/ k > 1
        OBVIOUS
    <2> QED
        BY <2>1, <2>2
<1> QED
    BY <1>2, <1>3, <1>4

-----------------------------------------------------------------------------
(***************************************************************************)
(* One lemma per action: each step of the cached functions is a step of    *)
(* MemoCall, or leaves the abstract state alone.                           *)
(***************************************************************************)

\* The client's call maps to an abstract call on the term it built.
LEMMA StartRef == IInv /\ Start => Memo!ACall
<1> SUFFICES ASSUME IInv, Start PROVE Memo!ACall
    OBVIOUS
<1>1. PICK t \in Terms, a \in Addr :
        /\ heap' = [heap EXCEPT ![a] = t]
        /\ stack' = <<CallOf(a, t)>>
    BY DEF Start
<1>2. AbsStack = <<>>
    BY DEF Start, AbsStack
<1>3. heap'[a] = t
    BY <1>1 DEF IInv, TypeOK
<1>4. AbsStack' = <<Memo!ACallOf(t)>>
    BY <1>1, <1>3 DEF AbsStack, AbsFrame, CallOf, Memo!ACallOf
<1> QED
    BY <1>2, <1>4 DEF Memo!ACall, Start

\* A miss only moves the call to its compute phase, which the mapping hides.
LEMMA FindMissRef == IInv /\ FindMiss => UNCHANGED <<AbsStack, calls>>
<1> SUFFICES ASSUME IInv, FindMiss PROVE AbsStack' = AbsStack
    BY DEF FindMiss
<1>1. stack \in Seq(Frame) /\ stack # <<>>
    BY DEF IInv, TypeOK, FindMiss
<1>2. /\ Len(stack') = Len(stack)
      /\ \A i \in 1..Len(stack) :
            /\ stack'[i].arg = stack[i].arg
            /\ stack'[i].todo = stack[i].todo
            /\ stack'[i].held = stack[i].held
    BY <1>1 DEF FindMiss
<1>3. \A i \in 1..Len(stack) : AbsFrame(heap', stack'[i]) = AbsFrame(heap, stack[i])
    BY <1>2 DEF FindMiss, AbsFrame
<1> QED
    BY <1>2, <1>3 DEF AbsStack

\* Every node a live frame references keeps its term across an allocation.
LEMMA AllocKeepsFrames ==
    ASSUME IInv, NEW a \in Addr, NEW t \in Terms, AllocAt(a, t)
    PROVE  \A i \in 1..Len(stack) : \A x \in FrameRefs(stack[i]) :
              [heap EXCEPT ![a] = t][x] = heap[x]
<1> SUFFICES ASSUME NEW i \in 1..Len(stack), NEW x \in FrameRefs(stack[i])
             PROVE  [heap EXCEPT ![a] = t][x] = heap[x]
    OBVIOUS
<1>1. stack \in Seq(Frame) /\ heap \in [Addr -> Terms \cup {Free}]
    BY DEF IInv, TypeOK
<1>2. x \in Referenced(trail, stack)
    BY <1>1, FrameRefsReferenced
<1>3. x \in Addr /\ heap[x] # Free
    BY <1>2 DEF IInv, LiveRefs, Referenced
<1>4. heap[a] = t \/ heap[a] = Free
    BY DEF AllocAt
<1> QED
    BY <1>1, <1>3, <1>4, AllocKeeps

\* A nested call maps to an abstract nested call on the same sub-term.
LEMMA SubCallRef == IInv /\ SubCall => Memo!ASubCall
<1> SUFFICES ASSUME IInv, SubCall PROVE Memo!ASubCall
    OBVIOUS
<1> DEFINE n == Len(stack)
<1>1. stack \in Seq(Frame) /\ stack # <<>> /\ heap \in [Addr -> Terms \cup {Free}]
    BY DEF IInv, TypeOK, SubCall
<1>2. n \in Nat /\ n >= 1 /\ n \in 1..n
    BY <1>1
<1>3. Top \in Frame /\ Top.todo \subseteq Terms
    <2>1. stack[n] \in Frame
        BY <1>1, <1>2
    <2> QED
        BY <2>1 DEF Top, Frame
<1>4. PICK d \in Top.todo, a \in Addr :
        /\ AllocAt(a, d)
        /\ heap' = [heap EXCEPT ![a] = d]
        /\ stack' = Append([stack EXCEPT ![n].todo = @ \ {d}], CallOf(a, d))
    BY DEF SubCall
<1>5. \A i \in 1..n : \A x \in FrameRefs(stack[i]) : heap'[x] = heap[x]
    BY <1>3, <1>4, AllocKeepsFrames
<1>6. heap'[a] = d
    BY <1>1, <1>4
<1>7. Len(AbsStack) = n /\ Len(stack') = n + 1
    BY <1>1, <1>4 DEF AbsStack
<1>8. \A i \in 1..n - 1 : AbsFrame(heap', stack'[i]) = AbsStack[i]
    <2> SUFFICES ASSUME NEW i \in 1..n - 1
                 PROVE  AbsFrame(heap', stack'[i]) = AbsStack[i]
        OBVIOUS
    <2>1. stack'[i] = stack[i] /\ stack[i] \in Frame
        BY <1>1, <1>2, <1>4
    <2>2. AbsStack[i] = AbsFrame(heap, stack[i])
        BY <1>2 DEF AbsStack
    <2>3. \A x \in FrameRefs(stack[i]) : heap'[x] = heap[x]
        BY <1>2, <1>5
    <2> QED
        BY <2>1, <2>2, <2>3, FrameSame
<1>9. AbsFrame(heap', stack'[n])
        = [arg  |-> AbsStack[n].arg, todo |-> AbsStack[n].todo \ {d},
           held |-> AbsStack[n].held]
    <2>1. /\ stack'[n].arg = stack[n].arg
          /\ stack'[n].todo = stack[n].todo \ {d}
          /\ stack'[n].held = stack[n].held
        BY <1>1, <1>2, <1>4
    <2>2. heap'[stack[n].arg] = heap[stack[n].arg]
          /\ {heap'[x] : x \in stack[n].held} = {heap[x] : x \in stack[n].held}
        BY <1>2, <1>5 DEF FrameRefs
    <2>3. AbsStack[n] = AbsFrame(heap, stack[n])
        BY <1>2 DEF AbsStack
    <2>4. AbsFrame(heap', stack'[n])
            = [arg |-> heap'[stack'[n].arg], todo |-> stack'[n].todo,
               held |-> {heap'[x] : x \in stack'[n].held}]
        BY DEF AbsFrame
    <2>5. /\ AbsStack[n].arg = heap[stack[n].arg]
          /\ AbsStack[n].todo = stack[n].todo
          /\ AbsStack[n].held = {heap[x] : x \in stack[n].held}
        BY <2>3 DEF AbsFrame
    <2> QED
        BY <2>1, <2>2, <2>4, <2>5
<1>10. AbsFrame(heap', stack'[n + 1]) = Memo!ACallOf(d)
    <2>1. stack'[n + 1] = CallOf(a, d)
        BY <1>1, <1>2, <1>4
    <2>2. AbsFrame(heap', CallOf(a, d)) = [arg |-> heap'[a], todo |-> Deps[d], held |-> {}]
        BY DEF AbsFrame, CallOf
    <2>3. Memo!ACallOf(d) = [arg |-> d, todo |-> Deps[d], held |-> {}]
        BY DEF Memo!ACallOf
    <2> QED
        BY <2>1, <2>2, <2>3, <1>6
<1>11. d \in Memo!ATop.todo
    BY <1>2 DEF Memo!ATop, AbsStack, AbsFrame, Top
<1>12. AbsStack' = Append([i \in 1..n |->
                            IF i = n
                            THEN [arg  |-> AbsStack[n].arg, todo |-> AbsStack[n].todo \ {d},
                                  held |-> AbsStack[n].held]
                            ELSE AbsStack[i]],
                          Memo!ACallOf(d))
    <2> DEFINE top == [arg  |-> AbsStack[n].arg, todo |-> AbsStack[n].todo \ {d},
                       held |-> AbsStack[n].held]
               A   == [i \in 1..n |-> IF i = n THEN top ELSE AbsStack[i]]
    <2>1. AbsStack' = [i \in 1..n + 1 |-> AbsFrame(heap', stack'[i])]
        BY <1>7 DEF AbsStack
    <2>2. Append(A, Memo!ACallOf(d))
            = [i \in 1..n + 1 |-> IF i = n + 1 THEN Memo!ACallOf(d) ELSE A[i]]
        BY <1>2
    <2>3. \A i \in 1..n + 1 :
            AbsFrame(heap', stack'[i])
              = IF i = n + 1 THEN Memo!ACallOf(d) ELSE A[i]
        BY <1>2, <1>8, <1>9, <1>10
    <2> QED
        BY <2>1, <2>2, <2>3
<1>13. AbsStack # <<>> /\ Memo!ATop = AbsStack[n] /\ calls' = calls
    BY <1>2, <1>7 DEF Memo!ATop, SubCall
<1>14. \E e \in Memo!ATop.todo :
          AbsStack' = Append([i \in 1..Len(AbsStack) |->
                                IF i = Len(AbsStack)
                                THEN [arg  |-> Memo!ATop.arg, todo |-> Memo!ATop.todo \ {e},
                                      held |-> Memo!ATop.held]
                                ELSE AbsStack[i]],
                             Memo!ACallOf(e))
    BY <1>7, <1>11, <1>12, <1>13
<1> QED
    BY <1>13, <1>14 DEF Memo!ASubCall

\* The abstract return, written with the abstract stack's top.
LEMMA AbsReturnIsAReturn ==
    AbsReturn(AbsStack)
      = IF Len(AbsStack) = 1 THEN <<>>
        ELSE [s \in 1..Len(AbsStack) - 1 |->
                 IF s = Len(AbsStack) - 1
                 THEN [arg  |-> AbsStack[s].arg, todo |-> AbsStack[s].todo,
                       held |-> AbsStack[s].held \cup {F[Memo!ATop.arg]}]
                 ELSE AbsStack[s]]
BY DEF AbsReturn, Memo!ATop

\* A cache hit maps to an abstract return of F of the argument.
LEMMA FindHitRef == IInv /\ FindHit => Memo!AReturn
<1> SUFFICES ASSUME IInv, FindHit PROVE Memo!AReturn
    OBVIOUS
<1> DEFINE n == Len(stack)
           r == table[Top.arg]
<1>1. /\ stack \in Seq(Frame) /\ stack # <<>>
      /\ heap \in [Addr -> Terms \cup {Free}]
      /\ table \in [Addr -> Addr \cup {None}]
    BY DEF IInv, TypeOK, FindHit
<1>2. n \in Nat /\ n >= 1 /\ n \in 1..n
    BY <1>1
<1>3. Top.arg \in Keys(table) /\ r \in Addr
    <2>1. stack[n] \in Frame
        BY <1>1, <1>2
    <2>2. Top.arg \in Addr
        BY <2>1 DEF Top, Frame
    <2> QED
        BY <1>1, <2>2 DEF FindHit, Keys
<1>4. heap[r] = F[heap[Top.arg]]
    BY <1>3 DEF IInv, CacheTransparent
<1>5. stack' = Return(r) /\ heap' = Collect(heap, Referenced(trail, stack'))
    BY DEF FindHit
<1>6. heap'[r] = heap[r]
    <2>1. r \in TrailSet(trail)
        BY <1>3 DEF IInv, EntriesPinned
    <2>2. r \in Referenced(trail, stack')
        BY <1>3, <2>1 DEF Referenced
    <2>3. Referenced(trail, stack') \in SUBSET Addr
        BY DEF Referenced
    <2> QED
        BY <1>5, <2>2, <2>3, CollectKeeps
<1>7. \A i \in 1..n - 1 : \A x \in FrameRefs(stack[i]) : heap'[x] = heap[x]
    <2> SUFFICES ASSUME NEW i \in 1..n - 1, NEW x \in FrameRefs(stack[i])
                 PROVE  heap'[x] = heap[x]
        OBVIOUS
    <2>1. stack[i] \in Frame
        BY <1>1, <1>2
    <2>2. x \in Addr
        BY <2>1 DEF FrameRefs, Frame
    <2>3. n > 1 /\ Len(stack') = n - 1 /\ i \in 1..Len(stack')
        BY <1>2, <1>5 DEF Return
    <2>4. x = stack'[i].arg \/ x \in stack'[i].held
        BY <1>2, <1>5, <2>3 DEF Return, FrameRefs
    <2>5. x \in Referenced(trail, stack')
        BY <2>2, <2>3, <2>4 DEF Referenced
    <2>6. Referenced(trail, stack') \in SUBSET Addr
        BY DEF Referenced
    <2> QED
        BY <1>5, <2>5, <2>6, CollectKeeps
<1>8. AbsStack' = AbsReturn(AbsStack)
    <2>1. AbsStack' = [i \in 1..Len(Return(r)) |-> AbsFrame(heap', Return(r)[i])]
        BY <1>5 DEF AbsStack
    <2> QED
        BY <1>1, <1>3, <1>4, <1>6, <1>7, <2>1, ReturnMaps
<1>9. AbsStack # <<>> /\ calls' = calls
    BY <1>2 DEF AbsStack, FindHit
<1> QED
    BY <1>8, <1>9, AbsReturnIsAReturn DEF Memo!AReturn

\* The last node pinned on a trail is on it.
LEMMA TrailSetLast ==
    ASSUME NEW S, NEW s \in Seq(S), NEW a \in S, NEW r \in S
    PROVE  r \in TrailSet(s \o <<a, r>>)
<1>1. (s \o <<a, r>>)[Len(s) + 2] = r /\ Len(s \o <<a, r>>) = Len(s) + 2
    OBVIOUS
<1> QED
    BY <1>1 DEF TrailSet

\* An insert maps to an abstract return of F of the argument: the node
\* it returns was just made to hold that term and is pinned on the trail.
LEMMA InsertRef == IInv /\ Insert => Memo!AReturn
<1> SUFFICES ASSUME IInv, Insert PROVE Memo!AReturn
    OBVIOUS
<1> DEFINE n == Len(stack)
           v == F[heap[Top.arg]]
<1>1. /\ stack \in Seq(Frame) /\ stack # <<>>
      /\ heap \in [Addr -> Terms \cup {Free}]
      /\ trail \in Seq(Addr) /\ table \in [Addr -> Addr \cup {None}]
    BY DEF IInv, TypeOK, Insert
<1>2. n \in Nat /\ n >= 1 /\ n \in 1..n
    BY <1>1
<1>3. Top.arg \in Addr /\ v \in Terms
    <2>1. stack[n] \in Frame
        BY <1>1, <1>2
    <2>2. Top.arg \in Addr
        BY <2>1 DEF Top, Frame
    <2>3. Top.arg \in Referenced(trail, stack)
        BY <1>1, <1>2, <2>2 DEF Top, Referenced
    <2>4. heap[Top.arg] \in Terms
        BY <1>1, <2>2, <2>3 DEF IInv, LiveRefs
    <2> QED
        BY <2>2, <2>4, ConstAssumption
<1>4. PICK r \in Addr :
        /\ AllocAt(r, v)
        /\ trail' = Cleanup(table, trail)[2] \o <<Top.arg, r>>
        /\ stack' = Return(r)
        /\ heap' = Collect([heap EXCEPT ![r] = v], Referenced(trail', stack'))
    BY DEF Insert
<1>5. /\ Referenced(trail', stack') \in SUBSET Addr
      /\ stack' = Return(r)
      /\ heap' = Collect([heap EXCEPT ![r] = v], Referenced(trail', stack'))
    BY <1>4 DEF Referenced
<1>6. heap'[r] = v
    <2>1. Cleanup(table, trail)[2] \in Seq(Addr)
        BY <1>1 DEF Cleanup
    <2>2. r \in TrailSet(trail')
        BY <1>3, <1>4, <2>1, TrailSetLast
    <2>3. r \in Referenced(trail', stack')
        BY <2>2 DEF Referenced
    <2>4. [heap EXCEPT ![r] = v][r] = v
        BY <1>1
    <2>5. Collect([heap EXCEPT ![r] = v], Referenced(trail', stack'))[r]
            = [heap EXCEPT ![r] = v][r]
        BY <1>5, <2>3, CollectKeeps
    <2> QED
        BY <1>5, <2>4, <2>5
<1>7. \A i \in 1..n - 1 : \A x \in FrameRefs(stack[i]) : heap'[x] = heap[x]
    <2> SUFFICES ASSUME NEW i \in 1..n - 1, NEW x \in FrameRefs(stack[i])
                 PROVE  heap'[x] = heap[x]
        OBVIOUS
    <2>1. stack[i] \in Frame
        BY <1>1, <1>2
    <2>2. x \in Addr
        BY <2>1 DEF FrameRefs, Frame
    <2>3. n > 1 /\ Len(stack') = n - 1 /\ i \in 1..Len(stack')
        BY <1>2, <1>5 DEF Return
    <2>4. x = stack'[i].arg \/ x \in stack'[i].held
        BY <1>2, <1>5, <2>3 DEF Return, FrameRefs
    <2>5. x \in Referenced(trail', stack')
        BY <2>2, <2>3, <2>4 DEF Referenced
    <2>6. [heap EXCEPT ![r] = v][x] = heap[x]
        <3>1. AllocAt(r, v)
            BY <1>4
        <3>2. \A j \in 1..n : \A y \in FrameRefs(stack[j]) :
                 [heap EXCEPT ![r] = v][y] = heap[y]
            BY <1>3, <3>1, AllocKeepsFrames
        <3> QED
            BY <1>2, <3>2
    <2> QED
        BY <1>5, <2>5, <2>6, CollectKeeps
<1>8. AbsStack' = AbsReturn(AbsStack)
    <2>1. AbsStack' = [i \in 1..Len(Return(r)) |-> AbsFrame(heap', Return(r)[i])]
        BY <1>4 DEF AbsStack
    <2> QED
        BY <1>1, <1>6, <1>7, <2>1, ReturnMaps
<1>9. AbsStack # <<>> /\ calls' = calls
    BY <1>2 DEF AbsStack, Insert
<1> QED
    BY <1>8, <1>9, AbsReturnIsAReturn DEF Memo!AReturn

\* A stuttering step of the cache is a stuttering step of the abstraction.
LEMMA StutterRef == UNCHANGED vars => UNCHANGED <<AbsStack, calls>>
BY DEF vars, AbsStack, AbsFrame

\* Each step of the cached computation is a step of the uncached function
\* or leaves what the caller sees unchanged.
LEMMA NextRef == IInv /\ [Next]_vars => [Memo!ANext]_<<AbsStack, calls>>
<1> SUFFICES ASSUME IInv, [Next]_vars PROVE [Memo!ANext]_<<AbsStack, calls>>
    OBVIOUS
<1>1. CASE Start
    BY <1>1, StartRef DEF Memo!ANext
<1>2. CASE FindHit
    BY <1>2, FindHitRef DEF Memo!ANext
<1>3. CASE FindMiss
    BY <1>3, FindMissRef
<1>4. CASE SubCall
    BY <1>4, SubCallRef DEF Memo!ANext
<1>5. CASE Insert
    BY <1>5, InsertRef DEF Memo!ANext
<1>6. CASE UNCHANGED vars
    BY <1>6, StutterRef
<1> QED
    BY <1>1, <1>2, <1>3, <1>4, <1>5, <1>6 DEF Next

\* MemoRefinement: from the caller's side, the hash-consed cache of
\* seq_rewriter's memoising functions (is_nullable, mk_der_op, ...) behaves as
\* the uncached function: every result it returns, from the cache or freshly
\* computed, is F of the argument's term.
THEOREM MemoRefinementThm == Spec => MemoRefinement
<1>1. Init => Memo!AInit
    BY DEF Init, Memo!AInit, AbsStack
<1>2. IInv /\ [Next]_vars => [Memo!ANext]_<<AbsStack, calls>>
    BY NextRef
<1> QED
    BY <1>1, <1>2, IInvInvariant, PTL DEF Spec, MemoRefinement, Memo!ASpec, Memo!avars

-----------------------------------------------------------------------------
MP == INSTANCE MemoCallProofs WITH astack <- AbsStack, acalls <- calls

\* The constants of OpCache satisfy the hypotheses of MemoCallProofs.
LEMMA MPConst == MP!AConstOK
BY ConstAssumption DEF MP!AConstOK

\* MemoCallProofs and OpCache instantiate the same abstract specification.
LEMMA SameASpec == MP!ASpec <=> Memo!ASpec
BY DEF MP!ASpec, Memo!ASpec, MP!AInit, Memo!AInit, MP!ANext, Memo!ANext,
       MP!avars, Memo!avars, MP!ACall, Memo!ACall, MP!ASubCall, Memo!ASubCall,
       MP!AReturn, Memo!AReturn, MP!ATop, Memo!ATop, MP!ACallOf, Memo!ACallOf

\* What AHeldOK says of the abstract stack, read through the heap.
LEMMA HeldMaps == TypeOK /\ MP!AHeldOK => HeldResultsCorrect
<1> SUFFICES ASSUME TypeOK, MP!AHeldOK,
                    NEW i \in 1..Len(stack), NEW x \in stack[i].held
             PROVE  \E d \in Deps[heap[stack[i].arg]] : heap[x] = F[d]
    BY DEF HeldResultsCorrect
<1>1. Len(AbsStack) = Len(stack) /\ AbsStack[i] = AbsFrame(heap, stack[i])
    BY DEF TypeOK, AbsStack
<1>2. heap[x] \in AbsStack[i].held /\ AbsStack[i].arg = heap[stack[i].arg]
    BY <1>1 DEF AbsFrame
<1> QED
    BY <1>1, <1>2 DEF MP!AHeldOK

(***************************************************************************)
(* HeldResultsCorrect: for every heap, cap, term set and dependency graph, *)
(* every sub-result a memoising call holds is a node of F of one of its     *)
(* argument's sub-terms, whatever cleanups and node reuse happened during  *)
(* the call.  Proved at the abstract level (MemoCallProofs) and carried    *)
(* over by the refinement.                                                 *)
(***************************************************************************)
THEOREM HeldResultsThm == Spec => []HeldResultsCorrect
<1>1. Spec => MP!ASpec
    BY MemoRefinementThm, SameASpec DEF MemoRefinement
<1>2. MP!ASpec => []MP!AHeldOK
    BY MPConst, MP!AHeldOKThm
<1>3. TypeOK /\ MP!AHeldOK => HeldResultsCorrect
    BY HeldMaps
<1> QED
    BY <1>1, <1>2, <1>3, TypeCorrect, PTL
=============================================================================
