------------------------ MODULE TimerStackListProofs ------------------------
(***************************************************************************)
(* Proofs about TimerStackList, for any number of threads, any time-outs   *)
(* and any interleaving of threads, rounds and the clock.  They have one   *)
(* hypothesis: thread ids differ by less than half the range they are      *)
(* compared in.  What they show of the list holds until a push overwrites  *)
(* an item of it.                                                          *)
(***************************************************************************)
EXTENDS TimerStackList, ListLemmas, TLAPS

(* The ids of the threads of a system: different, and not far apart. *)
Separate ==
  \A i, j \in Items :
    i # j => ThreadId[i] # ThreadId[j] /\ ThreadId[i] - ThreadId[j] < Half

-----------------------------------------------------------------------------
LEMMA ConstantFacts ==
  /\ \A i \in Items : ThreadId[i] \in Nat
  /\ Half \in Nat \ {0} /\ MaxTime \in Nat
  /\ \A n \in Timeouts : n \in Nat \ {0}
  /\ \A n \in Deadlines : n \in Nat
  /\ IsFiniteSet(Items)
<1>1. TimerAssumption
  BY TimerAssumption
<1> QED
  BY <1>1

(* _CompareContext orders the threads by their ids. *)
LEMMA CompareIs ==
  ASSUME Separate, NEW i \in Items, NEW j \in Items
  PROVE  CompareContext(i, j) = ThreadId[i] - ThreadId[j]
<1> DEFINE n == ThreadId[i] - ThreadId[j]
<1>1. /\ ThreadId[i] \in Nat /\ ThreadId[j] \in Nat /\ Half \in Nat \ {0}
  BY ConstantFacts
<1>2. n \in Int /\ -Half <= n /\ n < Half
  <2>1. CASE i = j
    BY <1>1, <2>1
  <2>2. CASE i # j
    <3>1. ThreadId[i] - ThreadId[j] < Half /\ ThreadId[j] - ThreadId[i] < Half
      BY <2>2 DEF Separate
    <3> QED
      BY <1>1, <3>1
  <2> QED
    BY <2>1, <2>2
<1> HIDE DEF n
<1>3. Long(n) = n
  BY <1>1, <1>2 DEF Long
<1> QED
  BY <1>3 DEF CompareContext, n

-----------------------------------------------------------------------------
(* Slots that exist, one for each pointer of the array. *)
SlotInv ==
  /\ content \in Seq(Items)
  /\ elements \in Seq(1 .. Len(content))
  /\ Len(elements) = Len(content)
  /\ top \in 0 .. Len(elements)

(* The items in the order of their threads' ids. *)
Ordered == \A j, k \in 1 .. top : j < k => ThreadId[At(j)] < ThreadId[At(k)]

StackInv == SlotInv /\ Ordered

LEMMA SlotFacts ==
  ASSUME SlotInv
  PROVE  /\ Len(content) \in Nat /\ Len(elements) \in Nat /\ top \in Nat
         /\ DOMAIN content = 1 .. Len(content) /\ DOMAIN elements = 1 .. Len(elements)
         /\ \A k \in 1 .. Len(elements) : elements[k] \in 1 .. Len(content)
         /\ \A k \in 1 .. Len(elements) : At(k) \in Items
         /\ \A k \in 1 .. top : /\ k \in 1 .. Len(elements)
                                /\ At(k) \in Items /\ ThreadId[At(k)] \in Nat
<1>1. content \in Seq(Items) /\ elements \in Seq(1 .. Len(content))
  BY DEF SlotInv
<1>2. /\ Len(content) \in Nat /\ DOMAIN content = 1 .. Len(content)
      /\ \A m \in 1 .. Len(content) : content[m] \in Items
  BY <1>1, LenProperties, ElementOfSeq
<1>3. /\ Len(elements) \in Nat /\ DOMAIN elements = 1 .. Len(elements)
      /\ \A k \in 1 .. Len(elements) : elements[k] \in 1 .. Len(content)
  <2> DEFINE S == 1 .. Len(content)
  <2>1. elements \in Seq(S)
    BY <1>1
  <2> HIDE DEF S
  <2>2. /\ Len(elements) \in Nat /\ DOMAIN elements = 1 .. Len(elements)
        /\ \A k \in 1 .. Len(elements) : elements[k] \in S
    BY <2>1, LenProperties, ElementOfSeq
  <2> QED
    BY <2>2 DEF S
<1>4. \A k \in 1 .. Len(elements) : At(k) \in Items
  BY <1>2, <1>3 DEF At
<1>5. top \in Nat /\ \A k \in 1 .. top : k \in 1 .. Len(elements)
  BY <1>3 DEF SlotInv
<1>6. \A k \in 1 .. top : At(k) \in Items /\ ThreadId[At(k)] \in Nat
  BY <1>4, <1>5, ConstantFacts
<1> QED
  BY <1>2, <1>3, <1>4, <1>5, <1>6

LEMMA StackFacts ==
  ASSUME StackInv
  PROVE  /\ Len(content) \in Nat /\ Len(elements) \in Nat /\ top \in Nat
         /\ DOMAIN content = 1 .. Len(content) /\ DOMAIN elements = 1 .. Len(elements)
         /\ \A k \in 1 .. Len(elements) : elements[k] \in 1 .. Len(content)
         /\ \A k \in 1 .. Len(elements) : At(k) \in Items
         /\ \A k \in 1 .. top : /\ k \in 1 .. Len(elements)
                                /\ At(k) \in Items /\ ThreadId[At(k)] \in Nat
         /\ \A j, k \in 1 .. top : At(j) = At(k) => j = k
<1>1. SlotInv /\ Ordered
  BY DEF StackInv
<1>2. ASSUME NEW j \in 1 .. top, NEW k \in 1 .. top, At(j) = At(k)
      PROVE  j = k
  <2>1. ThreadId[At(j)] = ThreadId[At(k)] /\ ThreadId[At(j)] \in Nat
    BY <1>1, <1>2, SlotFacts
  <2>2. ~(j < k) /\ ~(k < j)
    BY <1>1, <2>1 DEF Ordered
  <2>3. top \in Nat
    BY <1>1, SlotFacts
  <2> QED
    BY <2>2, <2>3
<1> QED
  BY <1>1, <1>2, SlotFacts

(* The binary search of StackFindAscT finds the place of every item. *)
LEMMA FindIs ==
  ASSUME Separate, StackInv, NEW k \in 1 .. top
  PROVE  StackFindAscT(At(k)) = k
<1> DEFINE D == (0 .. top) \X (0 .. top)
           mid(r) == (r[1] + r[2]) \div 2
           sign(r) == CompareContext(At(k), At(mid(r) + 1))
           Step(f, r) == IF r[1] >= r[2] THEN 0
                         ELSE IF sign(r) > 0 THEN f[<<mid(r) + 1, r[2]>>]
                         ELSE IF sign(r) < 0 THEN f[<<r[1], mid(r)>>]
                         ELSE mid(r) + 1
           g == [r \in D |-> IF r[1] < k /\ k <= r[2] THEN k ELSE 0]
           h == CHOOSE f : f = [r \in D |-> Step(f, r)]
<1>1. top \in Nat /\ k \in Nat /\ \A j \in 1 .. top : At(j) \in Items /\ ThreadId[At(j)] \in Nat
  BY StackFacts
<1>2. ASSUME NEW r \in D
      PROVE  r[1] \in 0 .. top /\ r[2] \in 0 .. top /\ r = <<r[1], r[2]>>
  OBVIOUS
<1>3. ASSUME NEW r \in D, r[1] < r[2]
      PROVE  /\ mid(r) \in Nat /\ r[1] <= mid(r) /\ mid(r) < r[2]
             /\ mid(r) + 1 \in 1 .. top
             /\ <<mid(r) + 1, r[2]>> \in D /\ <<r[1], mid(r)>> \in D
             /\ sign(r) \in Int
             /\ sign(r) > 0 <=> k > mid(r) + 1
             /\ sign(r) < 0 <=> k < mid(r) + 1
  <2> DEFINE a == r[1]
             b == r[2]
             m == mid(r)
  <2>1. a \in Nat /\ b \in Nat /\ a <= top /\ b <= top /\ a < b
    BY <1>1, <1>2, <1>3
  <2> HIDE DEF a, b
  <2>2. m = (a + b) \div 2
    BY DEF a, b
  <2> HIDE DEF mid, m
  <2>3. m \in Nat /\ a <= m /\ m < b
    BY <2>1, <2>2
  <2>4. m + 1 \in 1 .. top /\ m + 1 \in 0 .. top /\ m \in 0 .. top /\ a \in 0 .. top /\ b \in 0 .. top
    BY <1>1, <2>1, <2>3
  <2>5. sign(r) = ThreadId[At(k)] - ThreadId[At(m + 1)]
    BY <1>1, <2>4, CompareIs DEF m
  <2>6. /\ k > m + 1 => ThreadId[At(m + 1)] < ThreadId[At(k)]
        /\ k < m + 1 => ThreadId[At(k)] < ThreadId[At(m + 1)]
        /\ k = m + 1 => ThreadId[At(k)] = ThreadId[At(m + 1)]
    BY <1>1, <2>4 DEF StackInv, Ordered
  <2>7. ThreadId[At(k)] \in Nat /\ ThreadId[At(m + 1)] \in Nat
    BY <1>1, <2>4
  <2>8. /\ sign(r) \in Int
        /\ sign(r) > 0 <=> k > m + 1
        /\ sign(r) < 0 <=> k < m + 1
    BY <1>1, <2>3, <2>5, <2>6, <2>7
  <2>9. <<m + 1, b>> \in D /\ <<a, m>> \in D
    BY <2>4
  <2> QED
    BY <2>3, <2>4, <2>8, <2>9 DEF a, b, m
<1> HIDE DEF mid, sign
<1>4. g = [r \in D |-> Step(g, r)]
  <2>1. ASSUME NEW r \in D
        PROVE  g[r] = Step(g, r)
    <3>1. r[1] \in Nat /\ r[2] \in Nat
      BY <1>2
    <3>2. CASE r[1] >= r[2]
      BY <1>1, <3>1, <3>2
    <3>3. CASE r[1] < r[2]
      <4> DEFINE m == mid(r)
                 up == <<m + 1, r[2]>>
                 down == <<r[1], m>>
      <4>1. /\ m \in Nat /\ r[1] <= m /\ m < r[2]
            /\ up \in D /\ down \in D
            /\ sign(r) > 0 <=> k > m + 1
            /\ sign(r) < 0 <=> k < m + 1
        BY <1>3, <3>3
      <4>2. /\ up[1] = m + 1 /\ up[2] = r[2] /\ down[1] = r[1] /\ down[2] = m
        OBVIOUS
      <4>3. /\ g[r] = IF r[1] < k /\ k <= r[2] THEN k ELSE 0
            /\ g[up] = IF m + 1 < k /\ k <= r[2] THEN k ELSE 0
            /\ g[down] = IF r[1] < k /\ k <= m THEN k ELSE 0
        BY <4>1, <4>2
      <4>4. Step(g, r) = IF sign(r) > 0 THEN g[up] ELSE IF sign(r) < 0 THEN g[down] ELSE m + 1
        BY <3>1, <3>3
      <4> HIDE DEF g, Step, m, up, down
      <4>5. CASE k > m + 1
        BY <1>1, <3>1, <4>1, <4>3, <4>4, <4>5
      <4>6. CASE k < m + 1
        <5>1. ~(sign(r) > 0) /\ sign(r) < 0
          BY <1>1, <4>1, <4>6
        <5> QED
          BY <1>1, <3>1, <4>1, <4>3, <4>4, <4>6, <5>1
      <4>7. CASE k = m + 1
        <5>1. ~(sign(r) > 0) /\ ~(sign(r) < 0)
          BY <1>1, <4>1, <4>7
        <5> QED
          BY <1>1, <3>1, <4>1, <4>3, <4>4, <4>7, <5>1
      <4> QED
        BY <1>1, <4>1, <4>5, <4>6, <4>7
    <3> QED
      BY <3>1, <3>2, <3>3
  <2> HIDE DEF Step
  <2> QED
    BY <2>1
<1>5. h = [r \in D |-> Step(h, r)]
  BY <1>4
<1>6. StackFindAscT(At(k)) = h[<<0, top>>]
  BY DEF StackFindAscT, mid, sign
<1> HIDE DEF h
<1>7. ASSUME NEW r \in D
      PROVE  h[r] = Step(h, r) /\ g[r] = Step(g, r)
  <2> HIDE DEF Step, g
  <2> QED
    BY <1>4, <1>5
<1>8. \A r \in D : h[r] = g[r]
  <2> DEFINE size(r) == IF r[1] < r[2] THEN r[2] - r[1] ELSE 0
             bad == {n \in Nat : \E r \in D : size(r) = n /\ h[r] # g[r]}
  <2>1. bad = {}
    <3> SUFFICES ASSUME bad # {}
                 PROVE  FALSE
      OBVIOUS
    <3>1. PICK n \in bad : \A l \in bad : n <= l
      <4>1. bad \subseteq Nat
        OBVIOUS
      <4> HIDE DEF bad
      <4> QED
        BY <4>1, LeastNumber
    <3>2. PICK r \in D : size(r) = n /\ h[r] # g[r]
      BY <3>1
    <3>3. r[1] \in Nat /\ r[2] \in Nat
      BY <1>2
    <3>4. r[1] < r[2]
      <4>1. CASE r[1] >= r[2]
        <5>1. h[r] = 0 /\ g[r] = 0
          BY <1>7, <4>1
        <5> QED
          BY <3>2, <5>1
      <4> QED
        BY <3>3, <4>1
    <3> DEFINE m == mid(r)
               up == <<m + 1, r[2]>>
               down == <<r[1], m>>
    <3>5. m \in Nat /\ r[1] <= m /\ m < r[2] /\ up \in D /\ down \in D
      BY <1>3, <3>4
    <3>6. size(up) \in Nat /\ size(up) < n /\ size(down) \in Nat /\ size(down) < n
      <4>1. up[1] = m + 1 /\ up[2] = r[2] /\ down[1] = r[1] /\ down[2] = m
        OBVIOUS
      <4> HIDE DEF up, down, m
      <4> QED
        BY <3>2, <3>3, <3>4, <3>5, <4>1
    <3>7. ASSUME NEW p \in D, size(p) \in Nat, size(p) < n
          PROVE  h[p] = g[p]
      <4>1. n \in Nat /\ ~(n <= size(p))
        BY <3>1, <3>7
      <4>2. size(p) \notin bad
        <5> HIDE DEF bad, size
        <5> QED
          BY <3>1, <4>1
      <4> HIDE DEF size
      <4> QED
        BY <3>7, <4>2
    <3>8. h[up] = g[up] /\ h[down] = g[down]
      <4> HIDE DEF size, up, down
      <4> QED
        BY <3>5, <3>6, <3>7
    <3>9. Step(h, r) = Step(g, r)
      <4> HIDE DEF h, g
      <4> QED
        BY <3>8
    <3> HIDE DEF Step
    <3> QED
      BY <1>7, <3>2, <3>9
  <2> SUFFICES ASSUME NEW r \in D, h[r] # g[r]
               PROVE  FALSE
    OBVIOUS
  <2>2. size(r) \in Nat
    BY <1>2
  <2> HIDE DEF size
  <2> QED
    BY <2>1, <2>2
<1>9. <<0, top>> \in D /\ <<0, top>>[1] = 0 /\ <<0, top>>[2] = top /\ 0 < k /\ k <= top
  BY <1>1
<1>10. g[<<0, top>>] = k
  BY <1>9
<1> HIDE DEF g, D
<1> QED
  BY <1>6, <1>8, <1>9, <1>10

-----------------------------------------------------------------------------
Listed == {At(k) : k \in 1 .. top}

(* A set of numbers up to n has a largest. *)
LEMMA MaxOf ==
  ASSUME NEW n \in Nat, NEW T, T \subseteq 1 .. n, T # {}
  PROVE  Max(T) \in T
<1> DEFINE D == {n - k : k \in T}
<1>1. D \subseteq Nat /\ D # {}
  <2>1. PICK j \in T : TRUE
    OBVIOUS
  <2>2. n - j \in D
    OBVIOUS
  <2>3. \A k \in T : n - k \in Nat
    OBVIOUS
  <2> QED
    BY <2>2, <2>3
<1> HIDE DEF D
<1>2. PICK m \in D : \A d \in D : m <= d
  BY <1>1, LeastNumber
<1>3. PICK k \in T : m = n - k
  BY DEF D
<1>4. \A j \in T : n - k <= n - j
  BY <1>2, <1>3 DEF D
<1>5. \A j \in T : k >= j
  BY <1>4
<1> QED
  BY <1>5 DEF Max

(* A push takes one slot, and puts its pointer somewhere in the array. *)
LEMMA PushIs ==
  ASSUME SlotInv, NEW i \in Items, StackPushAscT(i)
  PROVE  \E slot, to \in Nat :
           LET stop == {k \in 1 .. top : CompareContext(i, content'[elements[k]]) >= 0}
           IN  /\ SlotInv' /\ top' = top + 1
               /\ to = 1 + (IF stop = {} THEN 0 ELSE Max(stop)) /\ to \in 1 .. top + 1
               /\ content'[slot] = i
               /\ \A m \in 1 .. Len(content) : m # slot => content'[m] = content[m]
               /\ \A k \in 1 .. top + 1 :
                    /\ k < to => k \in 1 .. top /\ elements'[k] = elements[k]
                    /\ k = to => elements'[k] = slot
                    /\ k > to => k - 1 \in 1 .. top /\ elements'[k] = elements[k - 1]
               /\ ~Overwrites => \A k \in 1 .. top : elements[k] # slot
<1> DEFINE used == IF top < Len(elements) THEN elements
                   ELSE Append(elements, Len(elements) + 1)
           slot == used[top + 1]
           new == IF slot \in DOMAIN content
                  THEN [content EXCEPT ![slot] = i] ELSE Append(content, i)
           stop == {k \in 1 .. top : CompareContext(i, new[used[k]]) >= 0}
           to == 1 + (IF stop = {} THEN 0 ELSE Max(stop))
           n == IF top < Len(elements) THEN Len(elements) ELSE top + 1
<1>1. /\ content' = new /\ top' = top + 1
      /\ elements' = [k \in DOMAIN used |->
                        IF k < to \/ k > top + 1 THEN used[k]
                        ELSE IF k = to THEN slot ELSE used[k - 1]]
  BY DEF StackPushAscT
<1>2. /\ top \in Nat /\ Len(elements) \in Nat /\ top <= Len(elements)
      /\ Len(content) = Len(elements)
      /\ content \in Seq(Items) /\ elements \in Seq(1 .. Len(elements))
      /\ DOMAIN content = 1 .. Len(elements) /\ DOMAIN elements = 1 .. Len(elements)
      /\ \A k \in 1 .. Len(elements) : elements[k] \in 1 .. Len(elements)
  BY SlotFacts DEF SlotInv
<1>3. /\ n \in Nat /\ top + 1 \in 1 .. n
      /\ DOMAIN used = 1 .. n /\ \A k \in 1 .. n : used[k] \in 1 .. n
      /\ \A k \in 1 .. top : used[k] = elements[k]
      /\ slot \in 1 .. n
      /\ new \in Seq(Items) /\ Len(new) = n
      /\ new[slot] = i /\ \A m \in 1 .. Len(content) : m # slot => new[m] = content[m]
      /\ ~Overwrites => \A k \in 1 .. top : elements[k] # slot
  <2>1. CASE top < Len(elements)
    <3>1. used = elements /\ n = Len(elements) /\ slot = elements[top + 1]
      BY <2>1
    <3>2. top + 1 \in 1 .. n /\ slot \in 1 .. n /\ slot \in DOMAIN content
      BY <1>2, <2>1, <3>1
    <3>3. new = [content EXCEPT ![slot] = i]
      BY <3>2
    <3> HIDE DEF used, slot, new
    <3>4. new \in Seq(Items) /\ Len(new) = n
      <4> DEFINE l == Len(elements)
      <4>1. content \in [1 .. l -> Items] /\ l \in Nat /\ n = l
        BY <1>2, <3>1, LenProperties, ElementOfSeq
      <4> HIDE DEF l, n
      <4>2. new \in [1 .. l -> Items]
        BY <3>3, <4>1
      <4>3. new \in Seq(Items)
        BY <4>1, <4>2, IsASeq
      <4> QED
        BY <4>1, <4>2, <4>3
    <3>5. ~Overwrites => \A k \in 1 .. top : elements[k] # slot
      BY <2>1, <3>1 DEF Overwrites
    <3>6. new[slot] = i /\ \A m \in 1 .. Len(content) : m # slot => new[m] = content[m]
      BY <1>2, <3>2, <3>3
    <3>7. /\ n \in Nat /\ DOMAIN used = 1 .. n /\ \A k \in 1 .. n : used[k] \in 1 .. n
          /\ \A k \in 1 .. top : used[k] = elements[k]
      BY <1>2, <3>1
    <3> QED
      BY <3>2, <3>4, <3>5, <3>6, <3>7
  <2>2. CASE ~(top < Len(elements))
    <3>0. top = Len(elements)
      <4>1. top \in Nat /\ Len(elements) \in Nat /\ top <= Len(elements)
        BY <1>2
      <4> QED
        BY <2>2, <4>1
    <3>1. /\ top = Len(elements) /\ used = Append(elements, top + 1) /\ n = top + 1
      BY <2>2, <3>0
    <3>2. /\ Len(used) = top + 1 /\ DOMAIN used = 1 .. top + 1 /\ used[top + 1] = top + 1
          /\ \A k \in 1 .. top : used[k] = elements[k]
      <4>1. elements \in Seq(Nat) /\ top + 1 \in Nat
        <5>1. \A k \in 1 .. top : elements[k] \in Nat
          BY <1>2, <3>1
        <5> QED
          BY <1>2, <3>1, <5>1
      <4> QED
        BY <3>1, <4>1, AppendProperties
    <3>3. slot = top + 1 /\ slot \notin DOMAIN content
      BY <1>2, <3>1, <3>2
    <3>4. new = Append(content, i)
      BY <3>3
    <3> HIDE DEF used, slot, new
    <3>5. /\ new \in Seq(Items) /\ Len(new) = top + 1
          /\ new[top + 1] = i /\ \A m \in 1 .. top : new[m] = content[m]
      BY <1>2, <3>1, <3>4, AppendProperties, LenProperties
    <3>6. \A k \in 1 .. n : used[k] \in 1 .. n
      BY <1>2, <3>1, <3>2
    <3>7. \A k \in 1 .. top : elements[k] # slot
      BY <1>2, <3>1, <3>3
    <3> QED
      BY <1>2, <3>1, <3>2, <3>3, <3>5, <3>6, <3>7
  <2> QED
    BY <2>1, <2>2
<1> HIDE DEF used, slot, new, n
<1>4. stop = {k \in 1 .. top : CompareContext(i, content'[elements[k]]) >= 0}
  BY <1>1, <1>3
<1>5. to \in 1 .. top + 1
  <2>1. CASE stop = {}
    BY <1>2, <2>1
  <2>2. CASE stop # {}
    <3>1. stop \subseteq 1 .. top
      OBVIOUS
    <3> HIDE DEF stop
    <3>2. Max(stop) \in stop
      BY <1>2, <2>2, <3>1, MaxOf
    <3> DEFINE max == Max(stop)
    <3>3. max \in 1 .. top /\ to = 1 + max
      BY <2>2, <3>1, <3>2
    <3> HIDE DEF max, to
    <3> QED
      BY <1>2, <3>3
  <2> QED
    BY <2>1, <2>2
<1> DEFINE place == to
<1>6. place = to
  OBVIOUS
<1> HIDE DEF to, stop
<1>7. DOMAIN elements' = 1 .. n
  BY <1>1, <1>3
<1>8. ASSUME NEW k \in 1 .. n
      PROVE  /\ elements'[k] \in 1 .. n
             /\ k <= top + 1 =>
                  /\ k < to => k \in 1 .. top /\ elements'[k] = elements[k]
                  /\ k = to => elements'[k] = slot
                  /\ k > to => k - 1 \in 1 .. top /\ elements'[k] = elements[k - 1]
  <2>0. elements'[k] = IF k < to \/ k > top + 1 THEN used[k]
                       ELSE IF k = to THEN slot ELSE used[k - 1]
    BY <1>1, <1>3
  <2>1. CASE k > top + 1
    BY <1>2, <1>3, <2>0, <2>1
  <2>2. CASE k < to
    <3>1. k \in 1 .. top
      BY <1>2, <1>5, <2>2
    <3>2. elements'[k] = used[k] /\ used[k] \in 1 .. n /\ used[k] = elements[k]
      BY <1>3, <2>0, <2>2, <3>1
    <3> QED
      BY <1>2, <1>5, <2>2, <3>1, <3>2
  <2>3. CASE k = to
    BY <1>2, <1>3, <1>5, <2>0, <2>3
  <2>4. CASE k > to /\ k <= top + 1
    <3>1. k - 1 \in 1 .. top /\ k - 1 \in 1 .. n
      BY <1>2, <1>3, <1>5, <2>4
    <3>2. elements'[k] = used[k - 1]
      BY <1>2, <1>5, <2>0, <2>4
    <3>3. used[k - 1] \in 1 .. n /\ used[k - 1] = elements[k - 1]
      BY <1>3, <3>1
    <3> QED
      BY <1>2, <1>5, <2>4, <3>1, <3>2, <3>3
  <2> QED
    BY <1>2, <1>3, <1>5, <2>1, <2>2, <2>3, <2>4
<1>9. elements' \in Seq(1 .. n) /\ Len(elements') = n
  <2> DEFINE S == 1 .. n
             l == n
  <2>1. elements' \in [1 .. l -> S] /\ l \in Nat
    BY <1>1, <1>3, <1>7, <1>8
  <2> HIDE DEF S, l
  <2>2. elements' \in Seq(S)
    BY <2>1, IsASeq
  <2>3. Len(elements') = l
    BY <2>1, <2>2
  <2> QED
    BY <2>2, <2>3 DEF S, l
<1>10. SlotInv' /\ top' = top + 1
  <2>1. top' \in 0 .. Len(elements')
    BY <1>1, <1>2, <1>3, <1>9
  <2> QED
    BY <1>1, <1>3, <1>9, <2>1 DEF SlotInv
<1>11. /\ content'[slot] = i
       /\ \A m \in 1 .. Len(content) : m # slot => content'[m] = content[m]
       /\ ~Overwrites => \A k \in 1 .. top : elements[k] # slot
  BY <1>1, <1>3
<1>12. \A k \in 1 .. top + 1 :
         /\ k < to => k \in 1 .. top /\ elements'[k] = elements[k]
         /\ k = to => elements'[k] = slot
         /\ k > to => k - 1 \in 1 .. top /\ elements'[k] = elements[k - 1]
  <2>1. \A k \in 1 .. top + 1 : k \in 1 .. n /\ k <= top + 1
    BY <1>2, <1>3
  <2> QED
    BY <1>8, <2>1
<1>13. /\ slot \in Nat /\ to \in Nat
       /\ to = 1 + (IF stop = {} THEN 0 ELSE Max(stop))
  BY <1>3, <1>5 DEF to
<1> QED
  BY <1>4, <1>5, <1>10, <1>11, <1>12, <1>13

(* A push that overwrites nothing finds the place of its item in the order
   of the ids, whether or not its slot has been used before. *)
LEMMA PushStep ==
  ASSUME Separate, StackInv, ~Overwrites,
         NEW i \in Items, i \notin Listed, StackPushAscT(i)
  PROVE  StackInv' /\ Listed' = Listed \cup {i}
<1>1. /\ top \in Nat
      /\ \A k \in 1 .. top : elements[k] \in 1 .. Len(content)
      /\ \A k \in 1 .. top : At(k) \in Items /\ ThreadId[At(k)] \in Nat
      /\ \A j, k \in 1 .. top : j < k => ThreadId[At(j)] < ThreadId[At(k)]
      /\ ThreadId[i] \in Nat /\ SlotInv
  BY StackFacts, ConstantFacts DEF StackInv, Ordered
<1> DEFINE stop == {k \in 1 .. top : CompareContext(i, content'[elements[k]]) >= 0}
<1>2. PICK slot \in Nat, to \in Nat :
        /\ SlotInv' /\ top' = top + 1
        /\ to = 1 + (IF stop = {} THEN 0 ELSE Max(stop)) /\ to \in 1 .. top + 1
        /\ content'[slot] = i
        /\ \A m \in 1 .. Len(content) : m # slot => content'[m] = content[m]
        /\ \A k \in 1 .. top + 1 :
             /\ k < to => k \in 1 .. top /\ elements'[k] = elements[k]
             /\ k = to => elements'[k] = slot
             /\ k > to => k - 1 \in 1 .. top /\ elements'[k] = elements[k - 1]
        /\ ~Overwrites => \A k \in 1 .. top : elements[k] # slot
  BY <1>1, PushIs
<1>5. \A k \in 1 .. top : content'[elements[k]] = At(k)
  BY <1>1, <1>2 DEF At
<1>6. stop = {k \in 1 .. top : ThreadId[At(k)] <= ThreadId[i]}
  <2>1. ASSUME NEW k \in 1 .. top
        PROVE  CompareContext(i, content'[elements[k]]) >= 0 <=> ThreadId[At(k)] <= ThreadId[i]
    <3>1. CompareContext(i, At(k)) = ThreadId[i] - ThreadId[At(k)]
      BY <1>1, CompareIs
    <3> QED
      BY <1>1, <1>5, <3>1
  <2> QED
    BY <2>1
<1> HIDE DEF stop
<1>7. /\ to \in 1 .. top + 1
      /\ \A k \in 1 .. top : k < to <=> ThreadId[At(k)] <= ThreadId[i]
  <2> DEFINE c == Cardinality(stop)
  <2>1. stop \subseteq 1 .. top
    BY <1>6
  <2>2. ASSUME NEW j \in 1 .. top, NEW k \in 1 .. top, j < k, k \in stop
        PROVE  j \in stop
    <3>1. ThreadId[At(j)] < ThreadId[At(k)] /\ ThreadId[At(k)] <= ThreadId[i]
      BY <1>1, <1>6, <2>2
    <3>2. ThreadId[At(j)] \in Nat /\ ThreadId[At(k)] \in Nat /\ ThreadId[i] \in Nat
      BY <1>1
    <3>3. ThreadId[At(j)] <= ThreadId[i]
      BY <3>1, <3>2
    <3> QED
      BY <1>6, <3>3
  <2>3. c \in 0 .. top /\ stop = 1 .. c
    <3>1. top \in Nat
      BY <1>1
    <3>2. \A j, k \in 1 .. top : j < k /\ k \in stop => j \in stop
      BY <2>2
    <3>3. Cardinality(stop) \in 0 .. top /\ stop = 1 .. Cardinality(stop)
      <4> HIDE DEF c
      <4> QED
        BY <2>1, <3>1, <3>2, InitialSegment
    <3> QED
      BY <3>3
  <2> HIDE DEF c
  <2>4. to = c + 1
    <3>1. CASE c = 0
      BY <1>1, <1>2, <2>3, <3>1
    <3>2. CASE c # 0
      <4>1. c \in 1 .. c /\ \A y \in 1 .. c : c >= y
        BY <1>1, <2>3, <3>2
      <4>2. Max(1 .. c) = c
        <5> DEFINE m == Max(1 .. c)
        <5>1. m \in 1 .. c /\ \A y \in 1 .. c : m >= y
          BY <4>1 DEF Max
        <5> HIDE DEF m
        <5>2. m = c
          BY <2>3, <4>1, <5>1
        <5> QED
          BY <5>2 DEF m
      <4>3. stop # {}
        BY <2>3, <4>1
      <4> QED
        BY <1>2, <2>3, <4>2, <4>3
    <3> QED
      BY <3>1, <3>2
  <2>5. \A k \in 1 .. top : k < to <=> k \in stop
    BY <1>1, <2>3, <2>4
  <2> QED
    BY <1>1, <1>6, <2>3, <2>4, <2>5
<1> DEFINE atn(k) == content'[elements'[k]]
<1>10. \A k \in 1 .. top + 1 :
         /\ k < to => k \in 1 .. top /\ atn(k) = At(k)
         /\ k = to => atn(k) = i
         /\ k > to => k - 1 \in 1 .. top /\ atn(k) = At(k - 1)
  BY <1>2, <1>5
<1>11. ASSUME NEW j \in 1 .. top + 1, NEW k \in 1 .. top + 1, j < k
       PROVE  ThreadId[atn(j)] < ThreadId[atn(k)]
  <2>0. \A m \in 1 .. top : /\ m < to => ThreadId[At(m)] < ThreadId[i]
                            /\ ~(m < to) => ThreadId[i] < ThreadId[At(m)]
    <3> SUFFICES ASSUME NEW m \in 1 .. top
                 PROVE  /\ m < to => ThreadId[At(m)] < ThreadId[i]
                        /\ ~(m < to) => ThreadId[i] < ThreadId[At(m)]
      OBVIOUS
    <3>1. At(m) # i
      BY DEF Listed
    <3>2. ThreadId[At(m)] # ThreadId[i]
      BY <1>1, <3>1 DEF Separate
    <3> QED
      BY <1>1, <1>7, <3>2
  <2> HIDE DEF atn
  <2>1. CASE k < to
    <3>1. j < to /\ j \in Int /\ k \in Int /\ to \in Int
      BY <1>7, <1>11, <2>1
    <3> QED
      BY <1>1, <1>10, <1>11, <2>1, <3>1
  <2>2. CASE k = to
    BY <1>1, <1>10, <1>11, <2>0, <2>2
  <2>3. CASE k > to /\ j < to
    <3>1. /\ j \in 1 .. top /\ k - 1 \in 1 .. top /\ ~(k - 1 < to)
          /\ atn(j) = At(j) /\ atn(k) = At(k - 1)
      BY <1>1, <1>7, <1>10, <2>3
    <3>2. ThreadId[At(j)] < ThreadId[i] /\ ThreadId[i] < ThreadId[At(k - 1)]
      BY <2>0, <2>3, <3>1
    <3>3. /\ ThreadId[At(j)] \in Nat /\ ThreadId[At(k - 1)] \in Nat /\ ThreadId[i] \in Nat
      BY <1>1, <3>1
    <3>4. ThreadId[At(j)] < ThreadId[At(k - 1)]
      BY <3>2, <3>3
    <3> QED
      BY <3>1, <3>4
  <2>4. CASE k > to /\ j = to
    <3>1. k - 1 \in 1 .. top /\ ~(k - 1 < to) /\ atn(j) = i /\ atn(k) = At(k - 1)
      BY <1>1, <1>7, <1>10, <2>4
    <3> QED
      BY <2>0, <3>1
  <2>5. CASE j > to
    <3>1. /\ j - 1 \in 1 .. top /\ k - 1 \in 1 .. top /\ j - 1 < k - 1
          /\ atn(j) = At(j - 1) /\ atn(k) = At(k - 1)
      BY <1>1, <1>7, <1>10, <1>11, <2>5
    <3> QED
      BY <1>1, <3>1
  <2> QED
    BY <1>7, <1>11, <2>1, <2>2, <2>3, <2>4, <2>5
<1>12. Listed' = Listed \cup {i}
  <2>1. Listed' = {atn(k) : k \in 1 .. top + 1}
    BY <1>2 DEF Listed, At
  <2> HIDE DEF atn
  <2>2. ASSUME NEW k \in 1 .. top + 1
        PROVE  atn(k) \in Listed \cup {i}
    <3>1. k < to \/ k = to \/ k > to
      BY <1>1, <1>7
    <3>2. CASE k < to
      BY <1>10, <3>2 DEF Listed
    <3>3. CASE k = to
      BY <1>10, <3>3
    <3>4. CASE k > to
      BY <1>10, <3>4 DEF Listed
    <3> QED
      BY <3>1, <3>2, <3>3, <3>4
  <2>3. ASSUME NEW m \in 1 .. top
        PROVE  \E k \in 1 .. top + 1 : atn(k) = At(m)
    <3>1. CASE m < to
      BY <1>1, <1>10, <3>1
    <3>2. CASE ~(m < to)
      <4>1. m + 1 \in 1 .. top + 1 /\ m + 1 > to /\ (m + 1) - 1 = m
        BY <1>1, <1>7, <3>2
      <4> QED
        BY <1>10, <4>1
    <3> QED
      BY <3>1, <3>2
  <2>4. atn(to) = i /\ to \in 1 .. top + 1
    BY <1>7, <1>10
  <2> QED
    BY <2>1, <2>2, <2>3, <2>4 DEF Listed
<1>13. StackInv'
  <2>1. \A j, k \in 1 .. top' : j < k => ThreadId[content'[elements'[j]]] < ThreadId[content'[elements'[k]]]
    BY <1>2, <1>11
  <2> QED
    BY <1>2, <2>1 DEF StackInv, Ordered, At
<1> QED
  BY <1>12, <1>13

(* A removal frees no slot. *)
LEMMA RemoveSlot ==
  ASSUME SlotInv, NEW k \in 1 .. top, StackRemoveIndexT(k)
  PROVE  SlotInv'
<1>1. /\ top \in Nat /\ k \in 1 .. top /\ Len(elements) \in Nat /\ top <= Len(elements)
      /\ Len(elements) = Len(content) /\ content \in Seq(Items) /\ elements \in Seq(1 .. Len(content))
      /\ DOMAIN elements = 1 .. Len(elements)
      /\ \A j \in 1 .. Len(elements) : elements[j] \in 1 .. Len(content)
  BY SlotFacts DEF SlotInv
<1>2. /\ top' = top - 1 /\ content' = content
      /\ elements' = [j \in 1 .. Len(elements) |->
                        IF k <= j /\ j < top THEN elements[j + 1] ELSE elements[j]]
  BY <1>1 DEF StackRemoveIndexT
<1>3. elements' \in Seq(1 .. Len(content)) /\ Len(elements') = Len(elements)
  <2> DEFINE S == 1 .. Len(content)
             n == Len(elements)
  <2>1. ASSUME NEW j \in 1 .. n
        PROVE  (IF k <= j /\ j < top THEN elements[j + 1] ELSE elements[j]) \in S
    <3>1. j < top => j + 1 \in 1 .. n
      BY <1>1
    <3> QED
      BY <1>1, <3>1
  <2>2. n \in Nat
    BY <1>1
  <2> HIDE DEF S, n
  <2>3. elements' \in [1 .. n -> S]
    BY <1>2, <2>1 DEF n
  <2>4. elements' \in Seq(S)
    BY <2>2, <2>3, IsASeq
  <2>5. Len(elements') = n
    BY <2>2, <2>3, <2>4
  <2> QED
    BY <2>4, <2>5 DEF S, n
<1>4. top' \in 0 .. Len(elements')
  BY <1>1, <1>2, <1>3
<1> QED
  BY <1>1, <1>2, <1>3, <1>4 DEF SlotInv

(* A removal takes one item out of the list; the others keep their order. *)
LEMMA RemoveStep ==
  ASSUME StackInv, NEW k \in 1 .. top, StackRemoveIndexT(k)
  PROVE  StackInv' /\ Listed' = Listed \ {At(k)}
<1>0. SlotInv /\ Ordered
  BY DEF StackInv
<1>1. /\ top \in Nat /\ k \in 1 .. top /\ Len(elements) \in Nat /\ top <= Len(elements)
      /\ content \in Seq(Items) /\ elements \in Seq(1 .. Len(content))
      /\ DOMAIN elements = 1 .. Len(elements)
      /\ \A j \in 1 .. Len(elements) : elements[j] \in 1 .. Len(content)
      /\ \A j \in 1 .. top : At(j) \in Items /\ ThreadId[At(j)] \in Nat
      /\ \A i, j \in 1 .. top : i < j => ThreadId[At(i)] < ThreadId[At(j)]
      /\ \A i, j \in 1 .. top : At(i) = At(j) => i = j
  <2>1. /\ top \in Nat /\ Len(elements) \in Nat
        /\ DOMAIN elements = 1 .. Len(elements)
        /\ \A j \in 1 .. Len(elements) : elements[j] \in 1 .. Len(content)
        /\ \A j \in 1 .. top : At(j) \in Items /\ ThreadId[At(j)] \in Nat
        /\ \A i, j \in 1 .. top : At(i) = At(j) => i = j
    BY StackFacts
  <2>2. top <= Len(elements) /\ content \in Seq(Items) /\ elements \in Seq(1 .. Len(content))
    BY <1>0, <2>1 DEF SlotInv
  <2>3. \A i, j \in 1 .. top : i < j => ThreadId[At(i)] < ThreadId[At(j)]
    BY <1>0 DEF Ordered
  <2> QED
    BY <2>1, <2>2, <2>3
<1>2. /\ top' = top - 1 /\ content' = content
      /\ elements' = [j \in 1 .. Len(elements) |->
                        IF k <= j /\ j < top THEN elements[j + 1] ELSE elements[j]]
  BY <1>1 DEF StackRemoveIndexT
<1> DEFINE atn(j) == content'[elements'[j]]
<1>4. \A j \in 1 .. top - 1 :
        /\ j < k => j \in 1 .. top /\ atn(j) = At(j)
        /\ ~(j < k) => j + 1 \in 1 .. top /\ atn(j) = At(j + 1)
  <2> SUFFICES ASSUME NEW j \in 1 .. top - 1
               PROVE  /\ j < k => j \in 1 .. top /\ atn(j) = At(j)
                      /\ ~(j < k) => j + 1 \in 1 .. top /\ atn(j) = At(j + 1)
    OBVIOUS
  <2>1. j \in 1 .. top /\ j + 1 \in 1 .. top /\ j \in 1 .. Len(elements) /\ j < top
    BY <1>1
  <2>2. CASE j < k
    <3>1. elements'[j] = elements[j]
      BY <1>1, <1>2, <2>1, <2>2
    <3> QED
      BY <1>2, <2>1, <2>2, <3>1 DEF At
  <2>3. CASE ~(j < k)
    <3>1. elements'[j] = elements[j + 1]
      BY <1>1, <1>2, <2>1, <2>3
    <3> QED
      BY <1>2, <2>1, <2>3, <3>1 DEF At
  <2> QED
    BY <2>2, <2>3
<1>5. ASSUME NEW i \in 1 .. top - 1, NEW j \in 1 .. top - 1, i < j
      PROVE  ThreadId[atn(i)] < ThreadId[atn(j)]
  <2> HIDE DEF atn
  <2>1. CASE j < k
    <3>1. i < k
      BY <1>1, <1>5, <2>1
    <3> QED
      BY <1>1, <1>4, <1>5, <2>1, <3>1
  <2>2. CASE i < k /\ ~(j < k)
    <3>1. /\ i \in 1 .. top /\ j + 1 \in 1 .. top /\ i < j + 1
          /\ atn(i) = At(i) /\ atn(j) = At(j + 1)
      BY <1>1, <1>4, <1>5, <2>2
    <3> QED
      BY <1>1, <3>1
  <2>3. CASE ~(i < k)
    <3>1. ~(j < k) /\ i + 1 < j + 1
      BY <1>1, <1>5, <2>3
    <3>2. /\ i + 1 \in 1 .. top /\ j + 1 \in 1 .. top
          /\ atn(i) = At(i + 1) /\ atn(j) = At(j + 1)
      BY <1>4, <2>3, <3>1
    <3> QED
      BY <1>1, <3>1, <3>2
  <2> QED
    BY <2>1, <2>2, <2>3
<1>6. Listed' = Listed \ {At(k)}
  <2>1. Listed' = {atn(j) : j \in 1 .. top - 1}
    BY <1>2 DEF Listed, At
  <2> HIDE DEF atn
  <2>2. ASSUME NEW j \in 1 .. top - 1
        PROVE  atn(j) \in Listed \ {At(k)}
    <3>1. CASE j < k
      <4>1. j \in 1 .. top /\ j # k /\ atn(j) = At(j)
        BY <1>1, <1>4, <3>1
      <4> QED
        BY <1>1, <4>1 DEF Listed
    <3>2. CASE ~(j < k)
      <4>1. j + 1 \in 1 .. top /\ j + 1 # k /\ atn(j) = At(j + 1)
        BY <1>1, <1>4, <3>2
      <4> QED
        BY <1>1, <4>1 DEF Listed
    <3> QED
      BY <3>1, <3>2
  <2>3. ASSUME NEW m \in 1 .. top, At(m) # At(k)
        PROVE  \E j \in 1 .. top - 1 : atn(j) = At(m)
    <3>1. m # k
      BY <2>3
    <3>2. CASE m < k
      <4>1. m \in 1 .. top - 1
        BY <1>1, <3>2
      <4> QED
        BY <1>4, <3>2, <4>1
    <3>3. CASE m > k
      <4>1. m - 1 \in 1 .. top - 1 /\ ~(m - 1 < k) /\ (m - 1) + 1 = m
        BY <1>1, <3>3
      <4> QED
        BY <1>4, <4>1
    <3> QED
      BY <1>1, <3>1, <3>2, <3>3
  <2> QED
    BY <2>1, <2>2, <2>3 DEF Listed
<1>7. StackInv'
  <2>1. SlotInv'
    BY RemoveSlot DEF StackInv
  <2>2. \A i, j \in 1 .. top' :
          i < j => ThreadId[content'[elements'[i]]] < ThreadId[content'[elements'[j]]]
    BY <1>2, <1>5
  <2> QED
    BY <2>1, <2>2 DEF StackInv, Ordered, At
<1> QED
  BY <1>6, <1>7

-----------------------------------------------------------------------------
States == {"new", "asked", "queued", "dequeued", "cancelled"}
Times  == Deadlines \cup {t + n : t \in 0 .. MaxTime, n \in Timeouts}
Rounds == [time : 0 .. time, iter : Nat]

TypeInv ==
  /\ time \in 0 .. MaxTime /\ state \in [Items -> States]
  /\ due \in [Items -> {Permanent} \cup Times]
  /\ round \in {NULL} \cup Rounds
  /\ cancelled \in Seq(Items) /\ damaged \in BOOLEAN

(* The list has the items that wait. *)
QueuedInv == Listed = {i \in Items : state[i] = "queued"}

CancelledInv == \A k \in 1 .. Len(cancelled) : state[cancelled[k]] = "cancelled"

ListInv == ~damaged => Ordered /\ QueuedInv /\ CancelledInv

IInv == TypeInv /\ SlotInv /\ ListInv

Answered(i) ==
  /\ cancelled' = Append(cancelled, i) /\ i \notin Range(cancelled)
  /\ state[i] = "queued" /\ state'[i] = "cancelled"
  /\ LockFree \/ (due[i] # Permanent /\ due[i] < time)

Once ==
  ~damaged =>
    /\ cancelled' # cancelled => \E i \in Items : Answered(i)
    /\ \A i \in Items : state[i] # "cancelled" /\ state'[i] = "cancelled" =>
         (i \in Routed <=> cancelled' # cancelled)

LEMMA InvTypeOK ==
  ASSUME Separate, IInv
  PROVE  TypeOK
<1>1. TypeInv /\ SlotInv
  BY DEF IInv
<1>2. ASSUME ~damaged
      PROVE  /\ \A j, k \in 1 .. top : At(j) = At(k) => j = k
             /\ {At(k) : k \in 1 .. top} = {i \in Items : state[i] = "queued"}
             /\ \A k \in 1 .. top : StackFindAscT(At(k)) = k
  <2>1. StackInv /\ QueuedInv
    BY <1>1, <1>2 DEF IInv, ListInv, StackInv
  <2>2. \A j, k \in 1 .. top : At(j) = At(k) => j = k
    BY <2>1, StackFacts
  <2>3. \A k \in 1 .. top : StackFindAscT(At(k)) = k
    BY <2>1, FindIs
  <2>4. {At(k) : k \in 1 .. top} = {i \in Items : state[i] = "queued"}
    BY <2>1 DEF QueuedInv, Listed
  <2> QED
    BY <2>2, <2>3, <2>4
<1>3. elements \in Seq(DOMAIN content)
  BY <1>1, SlotFacts DEF SlotInv
<1>4. content \in Seq(Items) /\ top \in 0 .. Len(elements)
  BY <1>1 DEF SlotInv
<1>5. due \in [Items -> {Permanent} \cup Deadlines \cup
                        {t + n : t \in 0 .. MaxTime, n \in Timeouts}]
  <2>1. {Permanent} \cup Times =
          {Permanent} \cup Deadlines \cup {t + n : t \in 0 .. MaxTime, n \in Timeouts}
    BY DEF Times
  <2> QED
    BY <1>1, <2>1 DEF TypeInv
<1>6. /\ time \in 0 .. MaxTime /\ state \in [Items -> States]
      /\ round \in {NULL} \cup Rounds
      /\ cancelled \in Seq(Items) /\ damaged \in BOOLEAN
  BY <1>1 DEF TypeInv
<1> QED
  BY <1>2, <1>3, <1>4, <1>5, <1>6 DEF TypeOK, States, Rounds

(* An item leaves the list, for one of the last two states. *)
LEMMA AnswerStep ==
  ASSUME IInv, NEW k \in 1 .. top, StackRemoveIndexT(k),
         NEW s \in {"dequeued", "cancelled"}, state' = [state EXCEPT ![At(k)] = s],
         due' = due, time' = time, damaged' = damaged, round' \in {NULL} \cup Rounds,
         \/ cancelled' = cancelled /\ (s = "cancelled" => At(k) \notin Routed)
         \/ s = "cancelled" /\ cancelled' = Append(cancelled, At(k)) /\ At(k) \in Routed,
         LockFree \/ (due[At(k)] # Permanent /\ due[At(k)] < time)
  PROVE  IInv' /\ Once
<1> DEFINE i == At(k)
<1>1. TypeInv /\ SlotInv /\ ListInv
  BY DEF IInv
<1>2. i \in Items
  BY <1>1, SlotFacts
<1>3. SlotInv'
  BY <1>1, RemoveSlot
<1>4. /\ state' \in [Items -> States] /\ state'[i] = s
      /\ \A j \in Items : j # i => state'[j] = state[j]
      /\ cancelled \in Seq(Items) /\ time \in 0 .. MaxTime
      /\ state \in [Items -> States] /\ damaged \in BOOLEAN
  BY <1>1, <1>2 DEF TypeInv, States
<1>5. cancelled' \in Seq(Items)
  <2>1. cancelled' = cancelled \/ cancelled' = Append(cancelled, i)
    OBVIOUS
  <2> HIDE DEF i
  <2> QED
    BY <1>2, <1>4, <2>1, AppendProperties
<1>6. TypeInv'
  <2>1. due' \in [Items -> {Permanent} \cup Times] /\ time' \in 0 .. MaxTime
    BY <1>1, <1>4 DEF TypeInv
  <2>2. round' \in {NULL} \cup Rounds'
    BY DEF Rounds
  <2>3. damaged' \in BOOLEAN
    BY <1>4
  <2> QED
    BY <1>4, <1>5, <2>1, <2>2, <2>3 DEF TypeInv, Times, States
<1>7. ASSUME ~damaged
      PROVE  /\ Ordered' /\ QueuedInv' /\ CancelledInv'
             /\ cancelled' # cancelled => Answered(i)
             /\ \A j \in Items : state[j] # "cancelled" /\ state'[j] = "cancelled" =>
                  (j \in Routed <=> cancelled' # cancelled)
  <2>1. StackInv /\ QueuedInv /\ CancelledInv
    BY <1>1, <1>7 DEF ListInv, StackInv
  <2>2. state[i] = "queued" /\ i \in Listed
    BY <1>2, <2>1 DEF QueuedInv, Listed
  <2>3. StackInv' /\ Listed' = Listed \ {i}
    BY <2>1, RemoveStep
  <2>4. \/ cancelled' = cancelled /\ (s = "cancelled" => i \notin Routed)
        \/ s = "cancelled" /\ cancelled' = Append(cancelled, i) /\ i \in Routed
    OBVIOUS
  <2>5. LockFree \/ (due[i] # Permanent /\ due[i] < time)
    OBVIOUS
  <2> HIDE DEF i
  <2>6. /\ Len(cancelled) \in Nat /\ DOMAIN cancelled = 1 .. Len(cancelled)
        /\ \A m \in 1 .. Len(cancelled) :
             cancelled[m] \in Items /\ state[cancelled[m]] = "cancelled"
    BY <1>4, <2>1, LenProperties, ElementOfSeq DEF CancelledInv
  <2>7. \A m \in 1 .. Len(cancelled) : cancelled[m] # i /\ state'[cancelled[m]] = "cancelled"
    BY <1>2, <1>4, <2>2, <2>6
  <2>8. Append(cancelled, i) # cancelled
    <3> DEFINE c == Append(cancelled, i)
    <3>1. Len(c) = Len(cancelled) + 1
      BY <1>2, <1>4, AppendProperties
    <3> HIDE DEF c
    <3>2. Len(c) # Len(cancelled)
      <4>1. Len(cancelled) \in Nat
        BY <2>6
      <4> QED
        BY <3>1, <4>1
    <3>3. c # cancelled
      BY <3>2
    <3> QED
      BY <3>3 DEF c
  <2>9. CancelledInv'
    <3>1. CASE cancelled' = cancelled
      BY <2>7, <3>1 DEF CancelledInv
    <3>2. CASE s = "cancelled" /\ cancelled' = Append(cancelled, i)
      <4>1. /\ cancelled' \in Seq(Items) /\ Len(cancelled') = Len(cancelled) + 1
            /\ \A m \in 1 .. Len(cancelled) : cancelled'[m] = cancelled[m]
            /\ cancelled'[Len(cancelled) + 1] = i
        BY <1>2, <1>4, <3>2, AppendProperties
      <4>2. ASSUME NEW m \in 1 .. Len(cancelled')
            PROVE  state'[cancelled'[m]] = "cancelled"
        <5>1. m \in 1 .. Len(cancelled) \/ m = Len(cancelled) + 1
          BY <2>6, <4>1
        <5>2. CASE m \in 1 .. Len(cancelled)
          BY <2>7, <4>1, <5>2
        <5>3. CASE m = Len(cancelled) + 1
          BY <1>4, <3>2, <4>1, <5>3
        <5> QED
          BY <5>1, <5>2, <5>3
      <4> QED
        BY <4>1, <4>2 DEF CancelledInv
    <3> QED
      BY <2>4, <3>1, <3>2
  <2>10. QueuedInv'
    <3>1. \A j \in Items : state'[j] = "queued" <=> state[j] = "queued" /\ j # i
      BY <1>4
    <3>2. Listed = {j \in Items : state[j] = "queued"}
      BY <2>1 DEF QueuedInv
    <3>3. Listed' = {j \in Items : state'[j] = "queued"}
      BY <2>3, <3>1, <3>2
    <3> QED
      BY <3>3 DEF QueuedInv
  <2>11. ASSUME cancelled' # cancelled
         PROVE  Answered(i)
    <3>1. cancelled' = Append(cancelled, i) /\ s = "cancelled"
      BY <2>4, <2>11
    <3>2. i \notin Range(cancelled)
      BY <2>6, <2>7 DEF Range
    <3>3. state'[i] = "cancelled"
      BY <1>4, <3>1
    <3> QED
      BY <2>2, <2>5, <3>1, <3>2, <3>3 DEF Answered
  <2>12. ASSUME NEW j \in Items, state[j] # "cancelled", state'[j] = "cancelled"
         PROVE  j \in Routed <=> cancelled' # cancelled
    <3>1. j = i /\ s = "cancelled"
      BY <1>4, <2>12
    <3> QED
      BY <2>4, <2>8, <3>1
  <2> QED
    BY <2>3, <2>9, <2>10, <2>11, <2>12 DEF StackInv
<1>8. ListInv'
  BY <1>7 DEF ListInv
<1>9. Once
  BY <1>2, <1>7 DEF Once
<1> QED
  BY <1>3, <1>6, <1>8, <1>9 DEF IInv

LEMMA DequeueStep ==
  ASSUME IInv, NEW i \in Items, NEW cancel \in BOOLEAN, Dequeue(i, cancel)
  PROVE  IInv' /\ Once
<1> DEFINE k == StackFindAscT(i)
<1>1. /\ TypeInv /\ LockFree /\ k \in 1 .. top
      /\ due' = due /\ time' = time /\ round' = round /\ damaged' = damaged
      /\ \/ CancelAndRemove(k)
         \/ /\ state' = [state EXCEPT ![At(k)] = "dequeued"]
            /\ StackRemoveIndexT(k) /\ cancelled' = cancelled
  BY DEF IInv, Dequeue
<1> HIDE DEF k
<1>2. round' \in {NULL} \cup Rounds
  BY <1>1 DEF TypeInv
<1>3. CASE CancelAndRemove(k)
  <2>1. /\ state' = [state EXCEPT ![At(k)] = "cancelled"] /\ StackRemoveIndexT(k)
        /\ \/ cancelled' = cancelled /\ At(k) \notin Routed
           \/ cancelled' = Append(cancelled, At(k)) /\ At(k) \in Routed
    BY <1>3 DEF CancelAndRemove
  <2>2. "cancelled" \in {"dequeued", "cancelled"}
    OBVIOUS
  <2> QED
    BY <1>1, <1>2, <2>1, <2>2, AnswerStep
<1>4. CASE /\ state' = [state EXCEPT ![At(k)] = "dequeued"]
           /\ StackRemoveIndexT(k) /\ cancelled' = cancelled
  <2>1. "dequeued" \in {"dequeued", "cancelled"} /\ "dequeued" # "cancelled"
    OBVIOUS
  <2> QED
    BY <1>1, <1>2, <1>4, <2>1, AnswerStep
<1> QED
  BY <1>1, <1>3, <1>4

(* What leaves the list and the history alone. *)
LEMMA QuietStep ==
  ASSUME IInv, TypeInv', UNCHANGED <<stack, cancelled, damaged>>,
         \A i \in Items : /\ state'[i] = "queued" <=> state[i] = "queued"
                          /\ state'[i] = "cancelled" <=> state[i] = "cancelled"
  PROVE  IInv' /\ Once
<1>1. TypeInv /\ SlotInv /\ ListInv
  BY DEF IInv
<1>2. SlotInv' /\ Listed' = Listed /\ (Ordered => Ordered')
  BY <1>1 DEF SlotInv, Ordered, Listed, At, stack
<1>3. CancelledInv => CancelledInv'
  <2>1. \A m \in 1 .. Len(cancelled) : cancelled[m] \in Items
    BY <1>1, ElementOfSeq DEF TypeInv
  <2> QED
    BY <2>1 DEF CancelledInv
<1>4. QueuedInv => QueuedInv'
  <2>1. {i \in Items : state'[i] = "queued"} = {i \in Items : state[i] = "queued"}
    OBVIOUS
  <2> QED
    BY <1>2, <2>1 DEF QueuedInv
<1>5. ListInv'
  BY <1>1, <1>2, <1>3, <1>4 DEF ListInv
<1>6. Once
  <2>1. cancelled' = cancelled
    OBVIOUS
  <2>2. \A i \in Items : ~(state[i] # "cancelled" /\ state'[i] = "cancelled")
    OBVIOUS
  <2> QED
    BY <2>1, <2>2 DEF Once
<1> QED
  BY <1>2, <1>5, <1>6 DEF IInv

LEMMA TurnStep ==
  ASSUME IInv, Turn
  PROVE  IInv' /\ Once
<1> DEFINE k == round.iter
<1>1. /\ TypeInv /\ SlotInv
      /\ round # NULL /\ k # 0 /\ k <= top
      /\ round' = [round EXCEPT !.iter = @ + 1]
      /\ time' = time /\ due' = due /\ damaged' = damaged
  BY DEF IInv, Turn, LockFree
<1>2. round \in Rounds /\ round.time \in 0 .. time /\ k \in Nat
  BY <1>1 DEF TypeInv, Rounds
<1>3. k \in 1 .. top
  BY <1>1, <1>2, SlotFacts
<1>4. round' \in Rounds
  BY <1>1, <1>2 DEF Rounds
<1> HIDE DEF k
<1>5. CASE TimedOut(k)
  <2>1. CancelAndRemove(k)
    BY <1>5 DEF Turn, k
  <2>2. /\ state' = [state EXCEPT ![At(k)] = "cancelled"] /\ StackRemoveIndexT(k)
        /\ \/ cancelled' = cancelled /\ At(k) \notin Routed
           \/ cancelled' = Append(cancelled, At(k)) /\ At(k) \in Routed
    BY <2>1 DEF CancelAndRemove
  <2>3. due[At(k)] # Permanent /\ due[At(k)] < time
    <3>1. At(k) \in Items
      BY <1>1, <1>3, SlotFacts
    <3>2. due[At(k)] # Permanent /\ round.time > due[At(k)]
      BY <1>5 DEF TimedOut
    <3>3. due[At(k)] \in Times
      BY <1>1, <3>1, <3>2 DEF TypeInv
    <3>4. due[At(k)] \in Int
      BY <3>3, ConstantFacts DEF Times
    <3>5. time \in Int /\ round.time \in Int /\ round.time <= time
      BY <1>1, <1>2 DEF TypeInv
    <3> QED
      BY <3>2, <3>4, <3>5
  <2>4. "cancelled" \in {"dequeued", "cancelled"}
    OBVIOUS
  <2> QED
    BY <1>1, <1>3, <1>4, <2>2, <2>3, <2>4, AnswerStep
<1>6. CASE ~TimedOut(k)
  <2>1. UNCHANGED <<state, stack, cancelled>>
    BY <1>6 DEF Turn, k
  <2>2. TypeInv'
    BY <1>1, <1>4, <2>1 DEF TypeInv, Rounds
  <2> QED
    BY <1>1, <2>1, <2>2, QuietStep
<1> QED
  BY <1>5, <1>6

(* What a thread does before its item is in the list. *)
LEMMA RequestStep ==
  ASSUME IInv, NEW i \in Items, RequestTimer(i)
  PROVE  IInv' /\ Once
<1>1. /\ TypeInv /\ state[i] = "new" /\ state' = [state EXCEPT ![i] = "asked"]
      /\ UNCHANGED <<time, stack, round, cancelled, damaged>>
  BY DEF IInv, RequestTimer
<1>2. PICK d \in {time + t : t \in Timeouts} \cup Deadlines \cup {Permanent} :
        due' = [due EXCEPT ![i] = d]
  BY DEF RequestTimer
<1>3. /\ state' \in [Items -> States] /\ state'[i] = "asked"
      /\ \A j \in Items : j # i => state'[j] = state[j]
  BY <1>1 DEF TypeInv, States
<1>4. due' \in [Items -> {Permanent} \cup Times]
  <2>1. d \in {Permanent} \cup Times
    BY <1>1, <1>2 DEF TypeInv, Times
  <2> QED
    BY <1>1, <1>2, <2>1 DEF TypeInv
<1>5. TypeInv'
  BY <1>1, <1>3, <1>4 DEF TypeInv, Rounds
<1>6. \A j \in Items : /\ state'[j] = "queued" <=> state[j] = "queued"
                       /\ state'[j] = "cancelled" <=> state[j] = "cancelled"
  BY <1>1, <1>3
<1> QED
  BY <1>1, <1>5, <1>6, QuietStep

(* A push: what is in the list is kept unless it overwrites. *)
LEMMA QueueStep ==
  ASSUME Separate, IInv, NEW i \in Items, Queue(i)
  PROVE  IInv' /\ Once
<1>1. /\ TypeInv /\ SlotInv /\ ListInv
      /\ state[i] = "asked" /\ state' = [state EXCEPT ![i] = "queued"]
      /\ StackPushAscT(i) /\ damaged' = (damaged \/ Overwrites)
      /\ UNCHANGED <<time, due, round, cancelled>>
  BY DEF IInv, Queue
<1>2. /\ state' \in [Items -> States] /\ state'[i] = "queued"
      /\ \A j \in Items : j # i => state'[j] = state[j]
  BY <1>1 DEF TypeInv, States
<1>3. SlotInv'
  BY <1>1, PushIs
<1>4. TypeInv'
  <2>1. damaged' \in BOOLEAN
    BY <1>1 DEF TypeInv, Overwrites
  <2> QED
    BY <1>1, <1>2, <2>1 DEF TypeInv, Rounds
<1>5. ASSUME ~damaged'
      PROVE  Ordered' /\ QueuedInv' /\ CancelledInv'
  <2>1. ~damaged /\ ~Overwrites
    BY <1>1, <1>5
  <2>2. StackInv /\ QueuedInv /\ CancelledInv
    BY <1>1, <2>1 DEF ListInv, StackInv
  <2>3. i \notin Listed
    BY <1>1, <2>2 DEF QueuedInv
  <2>4. StackInv' /\ Listed' = Listed \cup {i}
    BY <1>1, <2>1, <2>2, <2>3, PushStep
  <2>5. QueuedInv'
    <3>1. \A j \in Items : state'[j] = "queued" <=> state[j] = "queued" \/ j = i
      BY <1>1, <1>2
    <3>2. Listed = {j \in Items : state[j] = "queued"}
      BY <2>2 DEF QueuedInv
    <3>3. Listed' = {j \in Items : state'[j] = "queued"}
      BY <2>4, <3>1, <3>2
    <3> QED
      BY <3>3 DEF QueuedInv
  <2>6. CancelledInv'
    <3>1. \A m \in 1 .. Len(cancelled) : cancelled[m] \in Items
      BY <1>1, ElementOfSeq DEF TypeInv
    <3> QED
      BY <1>1, <1>2, <2>2, <3>1 DEF CancelledInv
  <2> QED
    BY <2>4, <2>5, <2>6 DEF StackInv
<1>6. ListInv'
  BY <1>5 DEF ListInv
<1>7. Once
  BY <1>1, <1>2 DEF Once
<1> QED
  BY <1>3, <1>4, <1>6, <1>7 DEF IInv

(* The clock, and the ends of a round. *)
LEMMA TimeStep ==
  ASSUME IInv, ReadTime \/ StartRound \/ EndRound \/ Tick \/ UNCHANGED vars
  PROVE  IInv' /\ Once
<1>1. TypeInv /\ UNCHANGED <<state, due, stack, cancelled, damaged>>
  BY DEF IInv, ReadTime, StartRound, EndRound, Tick, vars, stack
<1>2. time \in 0 .. MaxTime /\ MaxTime \in Nat /\ round \in {NULL} \cup Rounds
  BY <1>1, ConstantFacts DEF TypeInv
<1>3. time' \in 0 .. MaxTime /\ round' \in {NULL} \cup Rounds'
  <2>1. CASE ReadTime
    <3>1. time' = time /\ round' = [time |-> time, iter |-> 0]
      BY <2>1 DEF ReadTime
    <3>2. time \in 0 .. time
      BY <1>2
    <3> QED
      BY <1>2, <3>1, <3>2 DEF Rounds
  <2>2. CASE StartRound
    <3>1. round \in Rounds /\ time' = time /\ round' = [round EXCEPT !.iter = 1]
      BY <1>2, <2>2 DEF StartRound
    <3> QED
      BY <1>2, <3>1 DEF Rounds
  <2>3. CASE EndRound
    BY <1>2, <2>3 DEF EndRound, Rounds
  <2>4. CASE Tick
    <3>1. time' = time + 1 /\ time < MaxTime /\ round' = round
      BY <2>4 DEF Tick
    <3>2. \A t \in 0 .. time : t \in 0 .. time + 1
      BY <1>2
    <3>3. Rounds \subseteq Rounds'
      BY <1>2, <3>1, <3>2 DEF Rounds
    <3> QED
      BY <1>2, <3>1, <3>3
  <2>5. CASE UNCHANGED vars
    BY <1>2, <2>5 DEF vars, Rounds
  <2> QED
    BY <2>1, <2>2, <2>3, <2>4, <2>5
<1>4. TypeInv'
  BY <1>1, <1>3 DEF TypeInv
<1> QED
  BY <1>1, <1>4, QuietStep

LEMMA InitIInv ==
  ASSUME Init
  PROVE  IInv
<1>1. /\ time = 0 /\ state = [i \in Items |-> "new"] /\ due = [i \in Items |-> Permanent]
      /\ elements = << >> /\ top = 0 /\ content = << >>
      /\ round = NULL /\ cancelled = << >> /\ damaged = FALSE
  BY DEF Init
<1>2. << >> \in Seq(Items) /\ Len(<< >>) = 0 /\ << >> \in Seq(1 .. 0)
  BY EmptySeq
<1>3. TypeInv
  <2>1. 0 \in 0 .. MaxTime
    BY ConstantFacts
  <2> QED
    BY <1>1, <1>2, <2>1 DEF TypeInv, States
<1>4. SlotInv /\ Ordered
  BY <1>1, <1>2 DEF SlotInv, Ordered
<1>5. Listed = {}
  BY <1>1 DEF Listed
<1>6. QueuedInv /\ CancelledInv
  BY <1>1, <1>2, <1>5 DEF QueuedInv, CancelledInv
<1> QED
  BY <1>3, <1>4, <1>6 DEF IInv, ListInv

LEMMA NextStep ==
  ASSUME Separate, IInv, [Next]_vars
  PROVE  IInv' /\ Once
<1>1. ASSUME NEW i \in Items, RequestTimer(i)
      PROVE  IInv' /\ Once
  BY <1>1, RequestStep
<1>2. ASSUME NEW i \in Items, Queue(i)
      PROVE  IInv' /\ Once
  BY <1>2, QueueStep
<1>3. ASSUME NEW i \in Items, NEW cancel \in BOOLEAN, Dequeue(i, cancel)
      PROVE  IInv' /\ Once
  BY <1>3, DequeueStep
<1>4. CASE Turn
  BY <1>4, TurnStep
<1>5. CASE ReadTime \/ StartRound \/ EndRound \/ Tick \/ UNCHANGED vars
  BY <1>5, TimeStep
<1> QED
  BY <1>1, <1>2, <1>3, <1>4, <1>5 DEF Next

(* Every state of a behaviour has the invariant. *)
THEOREM Invariance == Separate => (Spec => []IInv)
<1> SUFFICES ASSUME Separate PROVE Spec => []IInv
  OBVIOUS
<1>1. Init => IInv
  BY InitIInv
<1>2. IInv /\ [Next]_vars => IInv'
  BY NextStep
<1> QED
  BY <1>1, <1>2, PTL DEF Spec

(* Types, for any number of threads.  Until a push overwrites an item of the
   list, through removals and slots used again: the list has the items that
   wait, each once, and the binary search of StackFindAscT finds each by its id
   (TimerStackList.c on the stack of Stack.c). *)
THEOREM TypeCorrect == Separate => (Spec => []TypeOK)
<1> SUFFICES ASSUME Separate PROVE Spec => []TypeOK
  OBVIOUS
<1>1. Spec => []IInv
  BY Invariance
<1>2. IInv => TypeOK
  BY InvTypeOK
<1> QED
  BY <1>1, <1>2, PTL

(* Until a push overwrites an item of the list: a cancel routine runs once at
   most, and only for an item that its thread waits for, never before its
   time-out, never for a permanent item unless the thread itself cancels; and
   an item that has a routine is not cancelled without it
   (TimerStackListRoutine, DequeueTimerStackItemEx). *)
THEOREM OneAnswer == Separate => (Spec => AnsweredOnce)
<1> SUFFICES ASSUME Separate PROVE Spec => AnsweredOnce
  OBVIOUS
<1> DEFINE Step ==
      ~damaged =>
        /\ cancelled' # cancelled =>
             \E i \in Items :
               /\ cancelled' = Append(cancelled, i) /\ i \notin Range(cancelled)
               /\ state[i] = "queued" /\ state'[i] = "cancelled"
               /\ LockFree \/ (due[i] # Permanent /\ due[i] < time)
        /\ \A i \in Items : state[i] # "cancelled" /\ state'[i] = "cancelled" =>
             (i \in Routed <=> cancelled' # cancelled)
<1>1. Spec => []IInv
  BY Invariance
<1>2. IInv /\ [Next]_vars => [Step]_vars
  BY NextStep DEF Once, Answered
<1>3. AnsweredOnce <=> [][Step]_vars
  BY DEF AnsweredOnce
<1> HIDE DEF Step
<1> QED
  BY <1>1, <1>2, <1>3, PTL DEF Spec
=============================================================================
