--------------------------- MODULE OpCacheProofs ---------------------------
(***************************************************************************)
(* Proofs, for every value of the constants, that the operation cache      *)
(* keeps its types, its size cap and its transparency.  None of the three  *)
(* is inductive alone: transparency needs every entry pinned on the trail  *)
(* (so that the node of a key or a result is never freed while the entry   *)
(* exists) and every referenced node live (so that a memoising call always *)
(* reads the term of its argument).                                        *)
(***************************************************************************)
EXTENDS OpCache, FiniteSetTheorems, TLAPS

\* Every node the trail or an active call references is live.
LiveRefs == \A a \in Referenced(trail, stack) : heap[a] # Free

\* The key and the result of every entry are on the trail.
EntriesPinned ==
    \A a \in Keys(table) : a \in TrailSet(trail) /\ table[a] \in TrailSet(trail)

IInv == TypeOK /\ LiveRefs /\ EntriesPinned /\ CacheTransparent /\ CacheBounded

-----------------------------------------------------------------------------
\* Allocating a node (mk) leaves the term of every live node unchanged.
LEMMA AllocKeeps ==
    ASSUME NEW h \in [Addr -> Terms \cup {Free}], NEW a \in Addr, NEW t \in Terms,
           NEW b \in Addr, h[b] # Free,
           h[a] = t \/ h[a] = Free
    PROVE  [h EXCEPT ![a] = t][b] = h[b]
OBVIOUS

\* The term manager keeps the nodes that are still referenced.
LEMMA CollectKeeps ==
    ASSUME NEW h, NEW refs \in SUBSET Addr, NEW a \in refs
    PROVE  Collect(h, refs)[a] = h[a]
BY DEF Collect

\* The table is finite: it has at most one entry per address.
LEMMA KeysFinite ==
    ASSUME IsFiniteSet(Addr), NEW tb
    PROVE  IsFiniteSet(Keys(tb))
BY FS_Subset DEF Keys

\* A positive natural number is one or more than one.
LEMMA NatSplit ==
    ASSUME NEW n \in Nat, n > 0
    PROVE  n = 1 \/ n > 1
OBVIOUS

\* Replacing an element of a sequence keeps it a sequence of the same length.
LEMMA ExceptSeq ==
    ASSUME NEW S, NEW s \in Seq(S), NEW i \in 1..Len(s), NEW x \in S
    PROVE  /\ [s EXCEPT ![i] = x] \in Seq(S)
           /\ Len([s EXCEPT ![i] = x]) = Len(s)
           /\ [s EXCEPT ![i] = x][i] = x
           /\ \A j \in 1..Len(s) \ {i} : [s EXCEPT ![i] = x][j] = s[j]
OBVIOUS

\* Appending to a sequence.
LEMMA AppendSeq ==
    ASSUME NEW S, NEW s \in Seq(S), NEW x \in S
    PROVE  /\ Append(s, x) \in Seq(S)
           /\ Len(Append(s, x)) = Len(s) + 1
           /\ \A i \in 1..Len(s) : Append(s, x)[i] = s[i]
           /\ Append(s, x)[Len(s) + 1] = x
OBVIOUS

\* Pinning two more nodes on the trail.
LEMMA PinTwo ==
    ASSUME NEW s \in Seq(Addr), NEW x \in Addr, NEW y \in Addr
    PROVE  /\ s \o <<x, y>> \in Seq(Addr)
           /\ TrailSet(s \o <<x, y>>) = TrailSet(s) \cup {x, y}
<1> DEFINE t == s \o <<x, y>>
<1>1. t \in Seq(Addr) /\ Len(t) = Len(s) + 2
  OBVIOUS
<1>2. \A i \in 1..Len(s) : t[i] = s[i]
  OBVIOUS
<1>3. t[Len(s) + 1] = x /\ t[Len(s) + 2] = y
  OBVIOUS
<1>4. TrailSet(t) = TrailSet(s) \cup {x, y}
  <2>1. TrailSet(t) \subseteq TrailSet(s) \cup {x, y}
    <3> SUFFICES ASSUME NEW i \in 1..Len(t) PROVE t[i] \in TrailSet(s) \cup {x, y}
      BY DEF TrailSet
    <3>1. CASE i \in 1..Len(s)
      BY <1>2, <3>1 DEF TrailSet
    <3>2. CASE i = Len(s) + 1
      BY <1>3, <3>2
    <3>3. CASE i = Len(s) + 2
      BY <1>3, <3>3
    <3> QED
      BY <1>1, <3>1, <3>2, <3>3
  <2>2. TrailSet(s) \subseteq TrailSet(t)
    BY <1>1, <1>2 DEF TrailSet
  <2>3. {x, y} \subseteq TrailSet(t)
    BY <1>1, <1>3 DEF TrailSet
  <2> QED
    BY <2>1, <2>2, <2>3
<1> QED
  BY <1>1, <1>4

\* One more element than a count below the cap stays within it.
LEMMA BelowCap ==
    ASSUME NEW c \in Nat, NEW d \in Nat, NEW m \in Nat, d <= c + 1, c < m
    PROVE  d <= m
OBVIOUS

\* Returning from the innermost call keeps the frames well typed, and
\* afterwards only the nodes referenced before, and the returned r, are.
LEMMA ReturnProps ==
    ASSUME NEW tr, stack \in Seq(Frame), Len(stack) > 0, NEW r \in Addr
    PROVE  /\ Return(r) \in Seq(Frame)
           /\ Referenced(tr, Return(r)) \subseteq Referenced(tr, stack) \cup {r}
<1> DEFINE n == Len(stack)
<1>1. CASE Len(stack) = 1
    <2>1. Return(r) = <<>>
        BY <1>1 DEF Return
    <2> QED
        BY <2>1 DEF Referenced
<1>2. CASE Len(stack) > 1
    <2> DEFINE R == Return(r)
    <2>1. R = [s \in 1..n - 1 |->
                 IF s = n - 1 THEN [stack[s] EXCEPT !.held = @ \cup {r}]
                 ELSE stack[s]]
        BY <1>2 DEF Return
    <2>2. ASSUME NEW s \in 1..n - 1
          PROVE  /\ R[s] \in Frame
                 /\ R[s].arg = stack[s].arg
                 /\ R[s].held \subseteq stack[s].held \cup {r}
        <3>1. stack[s] \in Frame
            BY <1>2
        <3>2. CASE s = n - 1
            BY <2>1, <3>1, <3>2 DEF Frame
        <3>3. CASE s # n - 1
            BY <2>1, <3>1, <3>3
        <3> QED
            BY <3>2, <3>3
    <2>3. R \in Seq(Frame)
        BY <2>1, <2>2, <1>2
    <2>4. Len(R) = n - 1
        BY <2>1, <1>2
    <2> QED
        BY <2>2, <2>3, <2>4 DEF Referenced
<1>3. Len(stack) = 1 \/ Len(stack) > 1
    <2>1. Len(stack) \in Nat
        OBVIOUS
    <2> QED
        BY <2>1, NatSplit
<1> QED
    BY <1>1, <1>2, <1>3

\* The initial state satisfies the inductive invariant.
LEMMA InitIInv == Init => IInv
<1> SUFFICES ASSUME Init PROVE IInv
    OBVIOUS
<1>1. Keys(table) = {}
    BY DEF Init, Keys
<1>2. Referenced(trail, stack) = {}
    BY DEF Init, Referenced, TrailSet
<1>3. TypeOK
    BY ConstAssumption DEF Init, TypeOK
<1>4. CacheBounded
    BY <1>1, FS_EmptySet, ConstAssumption DEF CacheBounded
<1> QED
    BY <1>1, <1>2, <1>3, <1>4 DEF IInv, LiveRefs, EntriesPinned, CacheTransparent

\* Start: the new call references a freshly allocated (or the live) node of t.
LEMMA StartIInv == IInv /\ Start => IInv'
<1> SUFFICES ASSUME IInv, Start PROVE IInv'
    OBVIOUS
<1>1. PICK t \in Terms, a \in Addr :
          /\ AllocAt(a, t)
          /\ heap' = [heap EXCEPT ![a] = t]
          /\ stack' = <<CallOf(a, t)>>
    BY DEF Start
<1>2. heap \in [Addr -> Terms \cup {Free}]
    BY DEF IInv, TypeOK
<1>3. \A b \in Addr : heap[b] # Free => heap'[b] = heap[b]
    BY <1>1, <1>2, AllocKeeps DEF AllocAt
<1>4. Referenced(trail', stack') = TrailSet(trail) \cup {a}
    BY <1>1, Start DEF Start, Referenced, CallOf, TrailSet, IInv, TypeOK
<1>5. Referenced(trail, stack) = TrailSet(trail)
    BY Start DEF Start, Referenced, TrailSet, IInv, TypeOK
<1>6. TypeOK'
    BY <1>1, <1>2, ConstAssumption, Start DEF Start, IInv, TypeOK, CallOf, Frame
<1>7. LiveRefs'
    <2>1. heap'[a] # Free
        BY <1>1, <1>2, ConstAssumption
    <2>2. ASSUME NEW b \in TrailSet(trail) PROVE heap'[b] # Free
        <3>1. b \in Addr /\ heap[b] # Free
            BY <1>5 DEF IInv, LiveRefs, TypeOK, TrailSet
        <3> QED
            BY <3>1, <1>3
    <2> QED
        BY <2>1, <2>2, <1>4 DEF LiveRefs
<1>8. (EntriesPinned /\ CacheTransparent /\ CacheBounded)'
    <2>1. \A k \in Keys(table) : heap[k] # Free /\ heap[table[k]] # Free
        BY ConstAssumption DEF IInv, CacheTransparent, Keys, TypeOK
    <2>2. \A k \in Keys(table) : k \in Addr /\ table[k] \in Addr
        BY DEF IInv, TypeOK, Keys
    <2> QED
        BY <2>1, <2>2, <1>3, Start DEF Start, IInv, EntriesPinned, CacheTransparent, CacheBounded
<1> QED
    BY <1>6, <1>7, <1>8 DEF IInv

\* FindHit: the caller now holds the cached node, which the trail pins.
LEMMA FindHitIInv == IInv /\ FindHit => IInv'
<1> SUFFICES ASSUME IInv, FindHit PROVE IInv'
    OBVIOUS
<1> DEFINE k == Top.arg
           r == table[k]
<1>1. /\ stack \in Seq(Frame) /\ Len(stack) > 0
      /\ heap \in [Addr -> Terms \cup {Free}]
      /\ table \in [Addr -> Addr \cup {None}]
      /\ trail \in Seq(Addr)
    BY DEF IInv, TypeOK, FindHit
<1>2. k \in Keys(table) /\ k \in Addr
    <2>1. Top \in Frame
        BY <1>1 DEF Top
    <2> QED
        BY <2>1, <1>1 DEF FindHit, Keys, Frame
<1>3. r \in Addr /\ heap[r] # Free
    <2>1. heap[k] \in Terms
        BY <1>1, <1>2 DEF IInv, CacheTransparent
    <2> QED
        BY <2>1, <1>1, <1>2, ConstAssumption DEF IInv, CacheTransparent, Keys
<1>4. /\ stack' \in Seq(Frame)
      /\ Referenced(trail', stack') \subseteq Referenced(trail, stack) \cup {r}
    BY <1>1, <1>3, ReturnProps DEF FindHit
<1>5. Referenced(trail', stack') \subseteq Addr
    BY DEF Referenced
<1>6. \A b \in Referenced(trail', stack') : heap'[b] = heap[b] /\ heap[b] # Free
    BY <1>3, <1>4, <1>5, CollectKeeps DEF FindHit, IInv, LiveRefs
<1>7. TypeOK'
    BY <1>1, <1>4 DEF FindHit, IInv, TypeOK, Collect
<1>8. LiveRefs'
    BY <1>6 DEF LiveRefs
<1>9. \A b \in TrailSet(trail) : b \in Referenced(trail', stack')
    BY <1>1 DEF FindHit, Referenced, TrailSet
<1>10. (EntriesPinned /\ CacheTransparent /\ CacheBounded)'
    BY <1>6, <1>9 DEF FindHit, IInv, EntriesPinned, CacheTransparent, CacheBounded, Keys
<1> QED
    BY <1>7, <1>8, <1>10 DEF IInv

\* FindMiss: only the phase of the innermost call changes.
LEMMA FindMissIInv == IInv /\ FindMiss => IInv'
<1> SUFFICES ASSUME IInv, FindMiss PROVE IInv'
    OBVIOUS
<1>1. stack \in Seq(Frame) /\ Len(stack) \in Nat /\ Len(stack) > 0
    BY DEF IInv, TypeOK, FindMiss
<1> DEFINE n == Len(stack)
           top == [stack[n] EXCEPT !.phase = "compute"]
<1>2. /\ stack' \in Seq(Frame)
      /\ Len(stack') = Len(stack)
      /\ \A i \in 1..Len(stack) : stack'[i].arg = stack[i].arg
                                  /\ stack'[i].held = stack[i].held
    <2>1. stack' = [stack EXCEPT ![n] = top]
        BY DEF FindMiss
    <2>2. stack[n] \in Frame
        BY <1>1
    <2>3. top \in Frame /\ top.arg = stack[n].arg /\ top.held = stack[n].held
        BY <2>2 DEF Frame
    <2> QED
        BY <1>1, <2>1, <2>3, ExceptSeq
<1>3. Referenced(trail', stack') = Referenced(trail, stack)
    BY <1>2 DEF FindMiss, Referenced
<1> QED
    BY <1>2, <1>3 DEF FindMiss, IInv, TypeOK, LiveRefs, EntriesPinned, CacheTransparent,
                      CacheBounded

\* SubCall: the nested call references the node of the sub-term, allocated
\* afresh or the live one; no live node changes.
LEMMA SubCallIInv == IInv /\ SubCall => IInv'
<1> SUFFICES ASSUME IInv, SubCall PROVE IInv'
    OBVIOUS
<1> DEFINE n == Len(stack)
<1>1. /\ stack \in Seq(Frame) /\ n \in Nat /\ n > 0
      /\ heap \in [Addr -> Terms \cup {Free}]
      /\ trail \in Seq(Addr)
    BY DEF IInv, TypeOK, SubCall
<1>2. stack[n] \in Frame
    BY <1>1
<1>3. PICK d \in stack[n].todo, a \in Addr :
          /\ AllocAt(a, d)
          /\ heap' = [heap EXCEPT ![a] = d]
          /\ stack' = Append([stack EXCEPT ![n].todo = @ \ {d}], CallOf(a, d))
    BY DEF SubCall, Top
<1>4. d \in Terms
    BY <1>2 DEF Frame
<1> DEFINE top == [stack[n] EXCEPT !.todo = @ \ {d}]
           mid == [stack EXCEPT ![n] = top]
<1>5. top \in Frame /\ top.arg = stack[n].arg /\ top.held = stack[n].held
    BY <1>2 DEF Frame
<1>6. /\ mid \in Seq(Frame) /\ Len(mid) = n
      /\ \A i \in 1..n : mid[i].arg = stack[i].arg /\ mid[i].held = stack[i].held
    BY <1>1, <1>5, ExceptSeq
<1> HIDE DEF top, mid
<1>7. CallOf(a, d) \in Frame /\ CallOf(a, d).arg = a /\ CallOf(a, d).held = {}
    BY <1>4, ConstAssumption DEF CallOf, Frame
<1>8. stack' = Append(mid, CallOf(a, d))
    BY <1>3 DEF mid, top
<1>9. /\ stack' \in Seq(Frame) /\ Len(stack') = n + 1
      /\ \A i \in 1..n : stack'[i] = mid[i]
      /\ stack'[n + 1] = CallOf(a, d)
    BY <1>6, <1>7, <1>8, AppendSeq
<1>10. Referenced(trail', stack') = Referenced(trail, stack) \cup {a}
    <2>1. \A i \in 1..n : stack'[i].arg = stack[i].arg /\ stack'[i].held = stack[i].held
        BY <1>6, <1>9
    <2>2. stack'[n + 1].arg = a /\ stack'[n + 1].held = {}
        BY <1>7, <1>9
    <2>3. trail' = trail
        BY DEF SubCall
    <2>4. ASSUME NEW b \in Referenced(trail', stack')
          PROVE  b \in Referenced(trail, stack) \cup {a}
        <3>1. CASE b \in TrailSet(trail)
            BY <3>1, <2>3 DEF Referenced
        <3>2. CASE \E i \in 1..n + 1 : b = stack'[i].arg \/ b \in stack'[i].held
            <4>1. PICK i \in 1..n + 1 : b = stack'[i].arg \/ b \in stack'[i].held
                BY <3>2
            <4>2. CASE i = n + 1
                BY <4>1, <4>2, <2>2
            <4>3. CASE i \in 1..n
                BY <4>1, <4>3, <2>1 DEF Referenced
            <4> QED
                BY <4>2, <4>3, <1>1
        <3> QED
            BY <3>1, <3>2, <2>3, <1>9 DEF Referenced
    <2>5. Referenced(trail, stack) \cup {a} \subseteq Referenced(trail', stack')
        BY <1>1, <1>9, <2>1, <2>2, <2>3 DEF Referenced
    <2> QED
        BY <2>4, <2>5
<1>11. \A b \in Addr : heap[b] # Free => heap'[b] = heap[b]
    BY <1>1, <1>3, <1>4, AllocKeeps DEF AllocAt
<1>12. heap'[a] = d
    BY <1>1, <1>3
<1>13. TypeOK'
    BY <1>1, <1>3, <1>4, <1>9 DEF SubCall, IInv, TypeOK
<1>14. LiveRefs'
    BY <1>4, <1>10, <1>11, <1>12, ConstAssumption DEF IInv, LiveRefs, Referenced
<1>15. (EntriesPinned /\ CacheTransparent /\ CacheBounded)'
    <2>1. \A k \in Keys(table) : /\ k \in Addr /\ table[k] \in Addr
                                 /\ heap[k] # Free /\ heap[table[k]] # Free
        BY ConstAssumption DEF IInv, CacheTransparent, Keys, TypeOK
    <2> QED
        BY <2>1, <1>11 DEF SubCall, IInv, EntriesPinned, CacheTransparent, CacheBounded
<1> QED
    BY <1>13, <1>14, <1>15 DEF IInv

\* Insert: cleanup keeps only entries that stay pinned (or none), the new
\* entry pins its key and result, and the collection after the return
\* frees only nodes nothing references.
LEMMA InsertIInv == IInv /\ Insert => IInv'
<1> SUFFICES ASSUME IInv, Insert PROVE IInv'
    OBVIOUS
<1> DEFINE n == Len(stack)
           k == Top.arg
           t == F[heap[k]]
<1>1. /\ stack \in Seq(Frame) /\ n \in Nat /\ n > 0
      /\ heap \in [Addr -> Terms \cup {Free}]
      /\ table \in [Addr -> Addr \cup {None}]
      /\ trail \in Seq(Addr)
    BY DEF IInv, TypeOK, Insert
<1>2. k \in Addr /\ k \in Referenced(trail, stack)
    <2>1. Top \in Frame
        BY <1>1 DEF Top
    <2> QED
        BY <2>1, <1>1 DEF Top, Frame, Referenced
<1>3. heap[k] \in Terms /\ t \in Terms
    BY <1>1, <1>2, ConstAssumption DEF IInv, LiveRefs
<1> DEFINE tb0 == Cleanup(table, trail)[1]
           tr0 == Cleanup(table, trail)[2]
<1>4. PICK r \in Addr :
          /\ AllocAt(r, t)
          /\ trail' = tr0 \o <<k, r>>
          /\ table' = [tb0 EXCEPT ![k] = r]
          /\ stack' = Return(r)
          /\ heap' = Collect([heap EXCEPT ![r] = t], Referenced(trail', stack'))
    BY DEF Insert
<1> DEFINE heap1 == [heap EXCEPT ![r] = t]
<1>5. /\ tb0 \in [Addr -> Addr \cup {None}]
      /\ tr0 \in Seq(Addr)
      /\ TrailSet(tr0) \subseteq TrailSet(trail)
      /\ Keys(tb0) \subseteq Keys(table)
      /\ \A a \in Keys(tb0) : tb0[a] = table[a]
      /\ \A a \in Keys(tb0) : a \in TrailSet(tr0) /\ tb0[a] \in TrailSet(tr0)
      /\ Cardinality(Keys(tb0)) < MaxCacheSize
    <2>1. CASE Cardinality(Keys(table)) >= MaxCacheSize
        <3>1. tb0 = [a \in Addr |-> None] /\ tr0 = <<>>
            BY <2>1 DEF Cleanup
        <3>2. Keys(tb0) = {}
            BY <3>1 DEF Keys
        <3> QED
            BY <3>1, <3>2, FS_EmptySet, ConstAssumption DEF TrailSet
    <2>2. CASE ~(Cardinality(Keys(table)) >= MaxCacheSize)
        <3>1. tb0 = table /\ tr0 = trail
            BY <2>2 DEF Cleanup
        <3>2. Cardinality(Keys(table)) \in Nat
            BY KeysFinite, ConstAssumption, FS_CardinalityType
        <3> QED
            BY <1>1, <2>2, <3>1, <3>2, ConstAssumption DEF IInv, EntriesPinned
    <2> QED
        BY <2>1, <2>2
<1> HIDE DEF tb0, tr0
<1>6. /\ trail' \in Seq(Addr)
      /\ TrailSet(trail') = TrailSet(tr0) \cup {k, r}
    BY <1>2, <1>4, <1>5, PinTwo
<1>7. /\ table' \in [Addr -> Addr \cup {None}]
      /\ Keys(table') = Keys(tb0) \cup {k}
      /\ table'[k] = r
      /\ \A a \in Keys(tb0) \ {k} : table'[a] = tb0[a]
    <2>1. table' = [tb0 EXCEPT ![k] = r]
        BY <1>4
    <2> HIDE DEF Insert
    <2> QED
        BY <2>1, <1>2, <1>5, ConstAssumption DEF Keys
<1>8. /\ stack' \in Seq(Frame)
      /\ Referenced(trail', stack') \subseteq Referenced(trail, stack) \cup {r}
    <2>1. Referenced(trail', Return(r)) \subseteq Referenced(trail', stack) \cup {r}
        BY <1>1, ReturnProps
    <2>2. Referenced(trail', stack) \subseteq Referenced(trail, stack) \cup {r}
        BY <1>2, <1>5, <1>6 DEF Referenced
    <2> QED
        BY <1>1, <1>4, <2>1, <2>2, ReturnProps
<1>9. /\ \A b \in Addr : heap[b] # Free => heap1[b] = heap[b]
      /\ heap1[r] = t
      /\ heap1 \in [Addr -> Terms \cup {Free}]
    BY <1>1, <1>3, <1>4, AllocKeeps DEF AllocAt
<1>10. \A b \in Referenced(trail', stack') : heap'[b] = heap1[b] /\ heap1[b] # Free
    <2>1. Referenced(trail', stack') \subseteq Addr
        BY DEF Referenced
    <2>2. \A b \in Referenced(trail', stack') : heap'[b] = heap1[b]
        BY <1>4, <2>1 DEF Collect
    <2>3. \A b \in Referenced(trail, stack) : heap[b] # Free
        BY DEF IInv, LiveRefs
    <2> QED
        BY <1>8, <1>9, <2>2, <2>3, <1>3, ConstAssumption DEF Referenced
<1>11. TypeOK'
    BY <1>6, <1>7, <1>8, <1>9, <1>4 DEF Insert, IInv, TypeOK, Collect
<1>12. LiveRefs'
    BY <1>10 DEF LiveRefs
<1>13. TrailSet(trail') \subseteq Referenced(trail', stack')
    BY <1>6, <1>5, <1>2 DEF Referenced, TrailSet
<1>14. EntriesPinned'
    BY <1>5, <1>6, <1>7 DEF EntriesPinned
<1>15. CacheTransparent'
    <2> SUFFICES ASSUME NEW a \in Keys(table')
                 PROVE  heap'[a] # Free /\ heap'[table'[a]] = F[heap'[a]]
        BY DEF CacheTransparent
    <2>1. a \in TrailSet(trail') /\ table'[a] \in TrailSet(trail')
        BY <1>14 DEF EntriesPinned
    <2>2. heap'[a] = heap1[a] /\ heap'[table'[a]] = heap1[table'[a]] /\ heap1[a] # Free
        BY <2>1, <1>13, <1>10
    <2>3. CASE a = k
        <3>1. heap1[k] = heap[k]
            BY <1>9, <1>3, <1>2, ConstAssumption
        <3> QED
            BY <2>2, <2>3, <3>1, <1>7, <1>9
    <2>4. CASE a # k
        <3>1. a \in Keys(tb0) /\ a \in Keys(table) /\ table'[a] = table[a]
            BY <2>4, <1>5, <1>7
        <3>2. heap[a] # Free /\ heap[table[a]] = F[heap[a]] /\ table[a] \in Addr
            <4>1. table[a] \in Addr \cup {None}
                BY <3>1, <1>1 DEF Keys
            <4> QED
                BY <3>1, <4>1 DEF IInv, CacheTransparent, Keys
        <3>3. heap[table[a]] # Free
            BY <3>2, <1>1, ConstAssumption DEF Keys
        <3>4. a \in Addr
            BY <3>1 DEF Keys
        <3> QED
            BY <2>2, <3>1, <3>2, <3>3, <3>4, <1>9
    <2> QED
        BY <2>3, <2>4
<1>16. CacheBounded'
    <2>1. IsFiniteSet(Keys(tb0)) /\ Cardinality(Keys(tb0)) \in Nat
        BY KeysFinite, ConstAssumption, FS_CardinalityType
    <2>2. Cardinality(Keys(tb0) \cup {k}) <= Cardinality(Keys(tb0)) + 1
        <3>1. Cardinality(Keys(tb0) \cup {k}) =
                 IF k \in Keys(tb0) THEN Cardinality(Keys(tb0)) ELSE Cardinality(Keys(tb0)) + 1
            BY <2>1, FS_AddElement
        <3> QED
            BY <3>1, <2>1
    <2>3. Cardinality(Keys(table')) <= MaxCacheSize
        <3>1. Cardinality(Keys(table')) = Cardinality(Keys(tb0) \cup {k})
            BY <1>7
        <3>2. Cardinality(Keys(tb0) \cup {k}) \in Nat
            BY <2>1, FS_AddElement, FS_CardinalityType
        <3> QED
            BY <3>1, <3>2, <1>5, <2>1, <2>2, ConstAssumption, BelowCap
    <2> QED
        BY <2>3 DEF CacheBounded
<1> QED
    BY <1>11, <1>12, <1>14, <1>15, <1>16 DEF IInv

\* A step that changes no variable keeps the invariant.
LEMMA StutterIInv == IInv /\ UNCHANGED vars => IInv'
BY DEF vars, IInv, TypeOK, LiveRefs, EntriesPinned, CacheTransparent, CacheBounded,
       Referenced, TrailSet, Keys

-----------------------------------------------------------------------------
(***************************************************************************)
(* IInv holds in every reachable state of the cache and its memoising      *)
(* callers, for any addresses, terms, memoised function and cap.           *)
(***************************************************************************)
THEOREM IInvInvariant == Spec => []IInv
<1>1. Init => IInv
    BY InitIInv
<1>2. IInv /\ [Next]_vars => IInv'
    BY StartIInv, FindHitIInv, FindMissIInv, SubCallIInv, InsertIInv, StutterIInv
    DEF Next
<1> QED
    BY <1>1, <1>2, PTL DEF Spec

(***************************************************************************)
(* Type correctness of op_cache and of the memoising call stack.           *)
(***************************************************************************)
THEOREM TypeCorrect == Spec => []TypeOK
BY IInvInvariant, PTL DEF IInv

(***************************************************************************)
(* Cache transparency: find only ever returns, for a live key node, a node *)
(* holding the uncached result, even though cleanup clears the cache in    *)
(* the middle of nested memoised calls and freed addresses are reused.     *)
(***************************************************************************)
THEOREM CacheTransparentThm == Spec => []CacheTransparent
BY IInvInvariant, PTL DEF IInv

(***************************************************************************)
(* op_cache never holds more than MaxCacheSize entries.                    *)
(***************************************************************************)
THEOREM CacheBoundedThm == Spec => []CacheBounded
BY IInvInvariant, PTL DEF IInv
=============================================================================
