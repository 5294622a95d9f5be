------------------------- MODULE ChapterPlanProofs -------------------------
(* Proofs about the planner, for every chat and every chunk size.          *)
EXTENDS ChapterPlan, WellFoundedInduction, TLAPS

\* The least number of a set, from the library's well-founded order.
LEMMA LeastNat ==
  ASSUME NEW S \in SUBSET Nat, S # {}
  PROVE  \E x \in S : \A y \in S : x <= y
<1>1. \E x \in S : \A y \in S : ~(<<y, x>> \in OpToRel(<, Nat))
  BY NatLessThanWellFounded, WFMin
<1>2. \E x \in S : \A y \in S : ~(<<y, x>> \in {ss \in Nat \X Nat : ss[1] < ss[2]})
  BY <1>1 DEF OpToRel
<1>3. PICK x \in S : \A y \in S : ~(<<y, x>> \in {ss \in Nat \X Nat : ss[1] < ss[2]})
  BY <1>2
<1>4. ASSUME NEW y \in S
      PROVE  x <= y
  <2>1. ~(<<y, x>> \in {ss \in Nat \X Nat : ss[1] < ss[2]})
    BY <1>3
  <2>2. PICK p : p = <<y, x>>
    OBVIOUS
  <2>3. p \in Nat \X Nat /\ p[1] = y /\ p[2] = x
    BY <2>2
  <2>4. ~(p[1] < p[2])
    BY <2>1, <2>2, <2>3
  <2> QED
    BY <2>3, <2>4
<1> QED
  BY <1>4

-----------------------------------------------------------------------------
(* The planner, for every chat.  A function that is defined from its value  *)
(* at n - 1 exists and has a property everywhere because there is no least  *)
(* number where it does not.                                               *)

\* A loop over 1..L that starts at a and whose step n is F[n]; g is what it
\* has after each step.
IsLoop(A, a, L, F) == L \in Nat /\ a \in A /\ \A n \in 1..L, x \in A : F[n][x] \in A
IsRun(g, A, a, L, F) == g \in [0..L -> A] /\ g[0] = a /\ \A n \in 1..L : g[n] = F[n][g[n - 1]]

\* Every such loop has a run.
LEMMA LoopExists ==
  ASSUME NEW A, NEW a, NEW L, NEW F, IsLoop(A, a, L, F)
  PROVE  \E g : IsRun(g, A, a, L, F)
<1>0. L \in Nat /\ a \in A /\ \A n \in 1..L, x \in A : F[n][x] \in A
  BY DEF IsLoop
<1> DEFINE Runs(l) == \E g \in [0..l -> A] : g[0] = a /\ \A n \in 1..l : g[n] = F[n][g[n - 1]]
           Bad == {l \in 0..L : ~Runs(l)}
<1>1. Runs(0)
  <2> DEFINE g == [n \in 0..0 |-> a]
  <2>1. g \in [0..0 -> A] /\ g[0] = a /\ 1..0 = {}
    BY <1>0
  <2> HIDE DEF g
  <2> QED
    BY <2>1
<1>2. ASSUME Bad # {}
      PROVE  FALSE
  <2>0. Bad \in SUBSET Nat
    BY <1>0
  <2>1. PICK l \in Bad : \A k \in Bad : l <= k
    <3> HIDE DEF Bad
    <3> QED
      BY <1>2, <2>0, LeastNat
  <2>2. l \in 1..L /\ l - 1 \in 0..L /\ l - 1 \notin Bad
    <3> HIDE DEF Runs
    <3> QED
      BY <1>0, <1>1, <2>1
  <2>3. PICK g \in [0..(l - 1) -> A] : g[0] = a /\ \A n \in 1..(l - 1) : g[n] = F[n][g[n - 1]]
    BY <2>2
  <2> DEFINE h == [n \in 0..l |-> IF n = l THEN F[l][g[l - 1]] ELSE g[n]]
  <2>4. l - 1 \in 0..(l - 1) /\ g[l - 1] \in A
    BY <2>2, <2>3
  <2>5. F[l][g[l - 1]] \in A
    BY <1>0, <2>2, <2>4
  <2>6. h \in [0..l -> A]
    BY <2>2, <2>3, <2>5
  <2>7. h[0] = a
    BY <2>2, <2>3
  <2>8. ASSUME NEW n \in 1..l
        PROVE  h[n] = F[n][h[n - 1]]
    <3>1. h[n - 1] = g[n - 1]
      BY <2>2, <2>8
    <3>2. CASE n = l
      <4>1. h[n] = F[n][g[n - 1]]
        BY <2>2, <2>8, <3>2
      <4> HIDE DEF h
      <4> QED
        BY <3>1, <4>1
    <3>3. CASE n # l
      <4>1. n \in 1..(l - 1)
        BY <2>2, <2>8, <3>3
      <4>2. h[n] = g[n]
        BY <2>2, <2>8, <3>3
      <4> HIDE DEF h
      <4> QED
        BY <2>3, <3>1, <4>1, <4>2
    <3> QED
      BY <3>2, <3>3
  <2>9. Runs(l)
    BY <2>6, <2>7, <2>8
  <2> QED
    BY <2>1, <2>9
<1>3. Runs(L)
  <2> HIDE DEF Runs
  <2> QED
    BY <1>0, <1>2
<1> QED
  BY <1>3 DEF IsRun

\* The messages of a chat, and what the loop carries of them.
MessageRow(I) == [id : I, free : BOOLEAN, tokens : Nat]
Filling(I) == [done : Seq(Seq(I)), chunk : Seq(I), size : Nat]

\* A message of a chat.
LEMMA RowIs ==
  ASSUME NEW I, NEW ms \in Seq(MessageRow(I)), NEW n \in 1..Len(ms)
  PROVE  /\ ms[n] \in MessageRow(I)
         /\ ms[n].id \in I /\ ms[n].free \in BOOLEAN /\ ms[n].tokens \in Nat
<1>1. ms[n] \in MessageRow(I)
  OBVIOUS
<1> QED
  BY <1>1 DEF MessageRow

\* A step of the planner.
LEMMA ExtendTyped ==
  ASSUME NEW I, NEW acc \in Filling(I), NEW m \in MessageRow(I), NEW limit \in Nat
  PROVE  ExtendPlan(acc, m, limit) \in Filling(I)
<1>1. CloseChunk(acc) \in Seq(Seq(I))
  BY DEF CloseChunk, Filling
<1>2. CASE ~m.free
  <2>1. ExtendPlan(acc, m, limit) = [done |-> CloseChunk(acc), chunk |-> <<>>, size |-> 0]
    BY <1>2 DEF ExtendPlan, EmptyPlan
  <2> QED
    BY <1>1, <2>1 DEF Filling
<1>3. CASE m.free /\ acc.chunk # <<>> /\ acc.size + m.tokens > limit
  <2>1. ExtendPlan(acc, m, limit) = [done |-> CloseChunk(acc), chunk |-> <<m.id>>, size |-> m.tokens]
    BY <1>3 DEF ExtendPlan, StartChunk
  <2> QED
    BY <1>1, <2>1 DEF Filling, MessageRow
<1>4. CASE m.free /\ ~(acc.chunk # <<>> /\ acc.size + m.tokens > limit)
  <2>1. ExtendPlan(acc, m, limit) =
          [done |-> acc.done, chunk |-> Append(acc.chunk, m.id), size |-> acc.size + m.tokens]
    BY <1>4 DEF ExtendPlan, Filling
  <2> QED
    BY <2>1 DEF Filling, MessageRow
<1> QED
  BY <1>2, <1>3, <1>4 DEF MessageRow

\* Planning is the loop it is written as.
LEMMA PlanningIs ==
  ASSUME NEW I, NEW ms \in Seq(MessageRow(I)), NEW limit \in Nat
  PROVE  /\ Planning(ms, limit) \in [0..Len(ms) -> Filling(I)]
         /\ Planning(ms, limit)[0] = EmptyPlan
         /\ \A n \in 1..Len(ms) :
              Planning(ms, limit)[n] = ExtendPlan(Planning(ms, limit)[n - 1], ms[n], limit)
<1> DEFINE L == Len(ms)
           A == Filling(I)
           F == [n \in 1..L |-> [x \in A |-> ExtendPlan(x, ms[n], limit)]]
           Loop(g) == [n \in 0..L |-> IF n = 0 THEN EmptyPlan ELSE ExtendPlan(g[n - 1], ms[n], limit)]
<1>1. L \in Nat /\ EmptyPlan \in A
  BY DEF EmptyPlan, Filling
<1>2. ASSUME NEW n \in 1..L, NEW x \in A
      PROVE  F[n][x] = ExtendPlan(x, ms[n], limit) /\ F[n][x] \in A
  <2>1. ms[n] \in MessageRow(I)
    OBVIOUS
  <2>2. ExtendPlan(x, ms[n], limit) \in A
    BY <2>1, ExtendTyped
  <2>3. F[n][x] = ExtendPlan(x, ms[n], limit)
    OBVIOUS
  <2> QED
    BY <2>2, <2>3
<1>3. PICK g \in [0..L -> A] : g[0] = EmptyPlan /\ \A n \in 1..L : g[n] = F[n][g[n - 1]]
  <2> HIDE DEF F, A, L
  <2>1. IsLoop(A, EmptyPlan, L, F)
    BY <1>1, <1>2 DEF IsLoop
  <2>2. PICK g : IsRun(g, A, EmptyPlan, L, F)
    BY <2>1, LoopExists
  <2> QED
    BY <2>2 DEF IsRun
<1>4. ASSUME NEW n \in 1..L
      PROVE  g[n] = ExtendPlan(g[n - 1], ms[n], limit)
  <2>1. n - 1 \in 0..L
    BY <1>1
  <2>2. g[n - 1] \in A
    BY <1>3, <2>1
  <2> HIDE DEF F, A
  <2> QED
    BY <1>2, <1>3, <2>2
<1>5. g = Loop(g)
  <2>1. \A n \in 0..L : g[n] = IF n = 0 THEN EmptyPlan ELSE ExtendPlan(g[n - 1], ms[n], limit)
    BY <1>1, <1>3, <1>4
  <2> QED
    BY <1>3, <2>1, Zenon
<1>6. Planning(ms, limit) = CHOOSE acc : acc = Loop(acc)
  BY DEF Planning
<1>7. PICK f : f = Planning(ms, limit)
  OBVIOUS
<1>8. f = Loop(f)
  <2> HIDE DEF Loop
  <2> QED
    BY <1>5, <1>6, <1>7
<1>9. f[0] = EmptyPlan /\ \A n \in 1..L : f[n] = ExtendPlan(f[n - 1], ms[n], limit)
  BY <1>1, <1>8
<1>10. DOMAIN f = 0..L
  BY <1>8, Zenon
<1> DEFINE Bad == {n \in 0..L : f[n] \notin A}
<1>11. Bad = {}
  <2> SUFFICES ASSUME Bad # {}
               PROVE  FALSE
    OBVIOUS
  <2> HIDE DEF A
  <2>0. Bad \in SUBSET Nat
    BY <1>1
  <2>1. PICK n \in Bad : \A k \in Bad : n <= k
    <3> HIDE DEF Bad
    <3> QED
      BY <2>0, LeastNat
  <2>2. n \in 1..L /\ n - 1 \in 0..L /\ f[n - 1] \in A
    BY <1>1, <1>9, <2>1
  <2>3. ms[n] \in MessageRow(I)
    BY <2>2
  <2>4. f[n] \in A
    BY <1>9, <2>2, <2>3, ExtendTyped DEF A
  <2> QED
    BY <2>1, <2>4
<1>12. f = [n \in 0..L |-> f[n]]
  <2>1. Loop(f) = [n \in 0..L |-> Loop(f)[n]]
    OBVIOUS
  <2> HIDE DEF Loop
  <2> QED
    BY <1>8, <2>1
<1>13. f \in [0..L -> A]
  <2> HIDE DEF A, L
  <2>1. \A n \in 0..L : f[n] \in A
    BY <1>11
  <2> QED
    BY <1>12, <2>1
<1> QED
  BY <1>7, <1>9, <1>13

\* TokensUpTo is the sum it is written as.
LEMMA TokensAre ==
  ASSUME NEW I, NEW ms \in Seq(MessageRow(I))
  PROVE  /\ TokensUpTo(ms) \in [0..Len(ms) -> Nat]
         /\ TokensUpTo(ms)[0] = 0
         /\ \A n \in 1..Len(ms) : TokensUpTo(ms)[n] = TokensUpTo(ms)[n - 1] + ms[n].tokens
<1> DEFINE L == Len(ms)
           F == [n \in 1..L |-> [x \in Nat |-> x + ms[n].tokens]]
           Loop(g) == [n \in 0..L |-> IF n = 0 THEN 0 ELSE g[n - 1] + ms[n].tokens]
<1>1. L \in Nat
  OBVIOUS
<1>2. ASSUME NEW n \in 1..L, NEW x \in Nat
      PROVE  F[n][x] = x + ms[n].tokens /\ F[n][x] \in Nat
  <2>1. ms[n] \in MessageRow(I)
    OBVIOUS
  <2>2. x + ms[n].tokens \in Nat
    BY <2>1 DEF MessageRow
  <2>3. F[n][x] = x + ms[n].tokens
    OBVIOUS
  <2> QED
    BY <2>2, <2>3
<1>3. PICK g \in [0..L -> Nat] : g[0] = 0 /\ \A n \in 1..L : g[n] = F[n][g[n - 1]]
  <2> HIDE DEF F, L
  <2>1. IsLoop(Nat, 0, L, F)
    BY <1>1, <1>2 DEF IsLoop
  <2>2. PICK g : IsRun(g, Nat, 0, L, F)
    BY <2>1, LoopExists
  <2> QED
    BY <2>2 DEF IsRun
<1>4. ASSUME NEW n \in 1..L
      PROVE  g[n] = g[n - 1] + ms[n].tokens
  <2>1. n - 1 \in 0..L
    BY <1>1
  <2>2. g[n - 1] \in Nat
    BY <1>3, <2>1
  <2> HIDE DEF F
  <2> QED
    BY <1>2, <1>3, <2>2
<1>5. g = Loop(g)
  <2>1. \A n \in 0..L : g[n] = IF n = 0 THEN 0 ELSE g[n - 1] + ms[n].tokens
    BY <1>1, <1>3, <1>4
  <2> QED
    BY <1>3, <2>1, Zenon
<1>6. TokensUpTo(ms) = CHOOSE sum : sum = Loop(sum)
  BY DEF TokensUpTo
<1>7. PICK f : f = TokensUpTo(ms)
  OBVIOUS
<1>8. f = Loop(f)
  <2> HIDE DEF Loop
  <2> QED
    BY <1>5, <1>6, <1>7
<1>9. f[0] = 0 /\ \A n \in 1..L : f[n] = f[n - 1] + ms[n].tokens
  BY <1>1, <1>8
<1> DEFINE Bad == {n \in 0..L : f[n] \notin Nat}
<1>10. Bad = {}
  <2> SUFFICES ASSUME Bad # {}
               PROVE  FALSE
    OBVIOUS
  <2>0. Bad \in SUBSET Nat
    BY <1>1
  <2>1. PICK n \in Bad : \A k \in Bad : n <= k
    <3> HIDE DEF Bad
    <3> QED
      BY <2>0, LeastNat
  <2>2. n \in 1..L /\ n - 1 \in 0..L /\ f[n - 1] \in Nat
    BY <1>1, <1>9, <2>1
  <2>3. ms[n].tokens \in Nat
    BY <2>2, RowIs
  <2>4. f[n] \in Nat
    BY <1>9, <2>2, <2>3
  <2> QED
    BY <2>1, <2>4
<1>11. f = [n \in 0..L |-> f[n]]
  <2>1. Loop(f) = [n \in 0..L |-> Loop(f)[n]]
    OBVIOUS
  <2> HIDE DEF Loop
  <2> QED
    BY <1>8, <2>1
<1>12. f \in [0..L -> Nat]
  <2> HIDE DEF L
  <2>1. \A n \in 0..L : f[n] \in Nat
    BY <1>10
  <2> QED
    BY <1>11, <2>1
<1> QED
  BY <1>7, <1>9, <1>12

\* Two sequences with the same elements are one.
LEMMA SeqsEqual ==
  ASSUME NEW S, NEW s \in Seq(S), NEW t \in Seq(S), Len(s) = Len(t),
         \A k \in 1..Len(s) : s[k] = t[k]
  PROVE  s = t
OBVIOUS

Cut == [first : Nat, last : Nat]
Piece(first, last) == [first |-> first, last |-> last]

\* A chapter that starts with a message ...
LEMMA OneMessage ==
  ASSUME NEW I, NEW ms \in Seq(MessageRow(I)), NEW n \in 1..Len(ms)
  PROVE  SizeOf(ms, Piece(n, n)) = ms[n].tokens /\ IdsOf(ms, Piece(n, n)) = <<ms[n].id>>
<1>1. SizeOf(ms, Piece(n, n)) = ms[n].tokens
  <2>1. TokensUpTo(ms)[n] = TokensUpTo(ms)[n - 1] + ms[n].tokens /\ ms[n].tokens \in Nat
    BY TokensAre, RowIs
  <2>2. n - 1 \in 0..Len(ms)
    OBVIOUS
  <2>3. TokensUpTo(ms)[n - 1] \in Nat
    BY <2>2, TokensAre
  <2> QED
    BY <2>1, <2>3 DEF SizeOf, Piece
<1>2. IdsOf(ms, Piece(n, n)) = <<ms[n].id>>
  <2>1. n - n + 1 = 1 /\ n + 1 - 1 = n
    OBVIOUS
  <2> QED
    BY <2>1 DEF IdsOf, Piece
<1> QED
  BY <1>1, <1>2

\* ... and one that grows by a message.
LEMMA OneMore ==
  ASSUME NEW I, NEW ms \in Seq(MessageRow(I)), NEW n \in 1..(Len(ms) - 1), NEW first \in 1..n
  PROVE  /\ SizeOf(ms, Piece(first, n + 1)) = SizeOf(ms, Piece(first, n)) + ms[n + 1].tokens
         /\ IdsOf(ms, Piece(first, n + 1)) = Append(IdsOf(ms, Piece(first, n)), ms[n + 1].id)
<1>1. SizeOf(ms, Piece(first, n + 1)) = SizeOf(ms, Piece(first, n)) + ms[n + 1].tokens
  <2>1. n + 1 \in 1..Len(ms) /\ n \in 0..Len(ms) /\ first - 1 \in 0..Len(ms) /\ n + 1 - 1 = n
    OBVIOUS
  <2>2. TokensUpTo(ms)[n + 1] = TokensUpTo(ms)[n] + ms[n + 1].tokens /\ ms[n + 1].tokens \in Nat
    BY <2>1, TokensAre, RowIs
  <2>3. TokensUpTo(ms)[n] \in Nat /\ TokensUpTo(ms)[first - 1] \in Nat
    BY <2>1, TokensAre
  <2> QED
    BY <2>2, <2>3 DEF SizeOf, Piece
<1>2. IdsOf(ms, Piece(first, n + 1)) = Append(IdsOf(ms, Piece(first, n)), ms[n + 1].id)
  <2> DEFINE s == IdsOf(ms, Piece(first, n))
             t == IdsOf(ms, Piece(first, n + 1))
             l == n - first + 1
  <2>1. l \in Nat /\ first + (l + 1) - 1 = n + 1 /\ n + 1 - first + 1 = l + 1
    OBVIOUS
  <2>2. s = [k \in 1..l |-> ms[first + k - 1].id] /\ t = [k \in 1..(l + 1) |-> ms[first + k - 1].id]
    BY <2>1 DEF IdsOf, Piece
  <2>3. \A k \in 1..(l + 1) : ms[first + k - 1].id \in I
    <3>1. \A k \in 1..(l + 1) : first + k - 1 \in 1..Len(ms)
      BY <2>1
    <3> QED
      BY <3>1, RowIs
  <2>4. \A k \in 1..(l + 1) : t[k] = ms[first + k - 1].id
    BY <2>2
  <2>5. \A k \in 1..l : s[k] = ms[first + k - 1].id
    BY <2>2
  <2>6. t[l + 1] = ms[n + 1].id
    BY <2>1, <2>4
  <2>7. s \in [1..l -> I] /\ t \in [1..(l + 1) -> I]
    <3>1. \A k \in 1..l : k \in 1..(l + 1)
      BY <2>1
    <3>2. \A k \in 1..l : ms[first + k - 1].id \in I
      BY <2>3, <3>1
    <3> HIDE DEF l, s, t
    <3> QED
      BY <2>2, <2>3, <3>2
  <2> HIDE DEF s, t, l
  <2>8. s \in Seq(I) /\ Len(s) = l /\ t \in Seq(I) /\ Len(t) = l + 1
    BY <2>1, <2>7
  <2>9. ms[n + 1].id \in I
    BY RowIs
  <2>10. Append(s, ms[n + 1].id) \in Seq(I) /\ Len(Append(s, ms[n + 1].id)) = l + 1
    BY <2>8, <2>9
  <2>11. \A k \in 1..(l + 1) : Append(s, ms[n + 1].id)[k] = t[k]
    <3> TAKE k \in 1..(l + 1)
    <3>1. k \in 1..l \/ k = l + 1
      BY <2>1
    <3>2. CASE k \in 1..l
      <4>1. Append(s, ms[n + 1].id)[k] = s[k]
        BY <2>8, <3>2
      <4> QED
        BY <2>4, <2>5, <3>2, <4>1
    <3>3. CASE k = l + 1
      <4>1. Append(s, ms[n + 1].id)[k] = ms[n + 1].id
        BY <2>8, <3>3
      <4> QED
        BY <2>6, <3>3, <4>1
    <3> QED
      BY <3>1, <3>2, <3>3
  <2>12. t = Append(s, ms[n + 1].id)
    BY <2>1, <2>8, <2>10, <2>11, SeqsEqual
  <2> QED
    BY <2>12 DEF s, t
<1> QED
  BY <1>1, <1>2

\* The loop after n messages: the chapters closed and the one being filled are
\* a partition of them.
Filled(ms, limit, n, acc, cuts) ==
  /\ cuts \in Seq(Cut)
  /\ IsPartition(ms, cuts, limit, n)
  /\ acc.chunk = <<>> =>
       acc.size = 0 /\ acc.done = Chapters(ms, cuts) /\ (n = 0 \/ ~ms[n].free)
  /\ acc.chunk # <<>> =>
       /\ cuts # <<>> /\ cuts[Len(cuts)].last = n
       /\ acc.chunk = IdsOf(ms, cuts[Len(cuts)])
       /\ acc.size = SizeOf(ms, cuts[Len(cuts)])
       /\ Len(acc.done) = Len(cuts) - 1
       /\ \A i \in 1..(Len(cuts) - 1) : acc.done[i] = IdsOf(ms, cuts[i])

\* A cut in a sequence of them.
LEMMA CutsAre ==
  ASSUME NEW cuts \in Seq(Cut)
  PROVE  /\ Len(cuts) \in Nat /\ DOMAIN cuts = 1..Len(cuts)
         /\ \A i \in DOMAIN cuts : cuts[i] \in Cut /\ cuts[i].first \in Nat /\ cuts[i].last \in Nat
                                   /\ cuts[i] = Piece(cuts[i].first, cuts[i].last)
<1>1. \A i \in 1..Len(cuts) : cuts[i] \in Cut
  OBVIOUS
<1> QED
  BY <1>1 DEF Cut, Piece

\* The chapter at a cut.
LEMMA ChaptersAre ==
  ASSUME NEW ms, NEW cuts \in Seq(Cut)
  PROVE  /\ DOMAIN Chapters(ms, cuts) = 1..Len(cuts) /\ Len(Chapters(ms, cuts)) = Len(cuts)
         /\ Chapters(ms, cuts) = [i \in 1..Len(cuts) |-> IdsOf(ms, cuts[i])]
         /\ \A i \in 1..Len(cuts) : Chapters(ms, cuts)[i] = IdsOf(ms, cuts[i])
<1>1. Chapters(ms, cuts) = [i \in 1..Len(cuts) |-> IdsOf(ms, cuts[i])]
  BY CutsAre DEF Chapters
<1> QED
  BY <1>1, CutsAre

\* What PlanChapters makes of it.
LEMMA ClosedChapters ==
  ASSUME NEW I, NEW ms, NEW limit, NEW n, NEW acc \in Filling(I), NEW cuts,
         Filled(ms, limit, n, acc, cuts)
  PROVE  CloseChunk(acc) = Chapters(ms, cuts)
<1>1. cuts \in Seq(Cut)
  BY DEF Filled
<1>2. CASE acc.chunk = <<>>
  BY <1>2 DEF Filled, CloseChunk
<1>3. CASE acc.chunk # <<>>
  <2>0. PICK l : l = Len(cuts) - 1
    OBVIOUS
  <2>1. l \in Nat /\ Len(cuts) = l + 1
    BY <1>1, <1>3, <2>0 DEF Filled
  <2>2. PICK d : d = acc.done
    OBVIOUS
  <2>3. PICK c : c = acc.chunk
    OBVIOUS
  <2>4. d \in Seq(Seq(I)) /\ c \in Seq(I) /\ Len(d) = l
    BY <1>3, <2>0, <2>2, <2>3 DEF Filling, Filled
  <2>5. CloseChunk(acc) = Append(d, c)
    BY <1>3, <2>2, <2>3 DEF CloseChunk
  <2>6. Append(d, c) \in Seq(Seq(I)) /\ Len(Append(d, c)) = l + 1
    BY <2>1, <2>4
  <2>7. DOMAIN Append(d, c) = 1..(l + 1)
    BY <2>6
  <2>8. ASSUME NEW i \in 1..(l + 1)
        PROVE  Append(d, c)[i] = IdsOf(ms, cuts[i])
    <3>1. i \in 1..l \/ i = l + 1
      BY <2>1
    <3>2. CASE i \in 1..l
      <4>1. Append(d, c)[i] = d[i]
        BY <2>4, <3>2
      <4>2. acc.done[i] = IdsOf(ms, cuts[i])
        BY <1>3, <2>1, <3>2 DEF Filled
      <4> QED
        BY <2>2, <4>1, <4>2
    <3>3. CASE i = l + 1
      <4>1. Append(d, c)[i] = c
        BY <2>1, <2>4, <3>3
      <4>2. acc.chunk = IdsOf(ms, cuts[Len(cuts)])
        BY <1>3 DEF Filled
      <4> QED
        BY <2>1, <2>3, <3>3, <4>1, <4>2
    <3> QED
      BY <3>1, <3>2, <3>3
  <2>9. Append(d, c) = [i \in 1..(l + 1) |-> IdsOf(ms, cuts[i])]
    <3>1. PICK e : e = Append(d, c)
      OBVIOUS
    <3>2. e \in Seq(Seq(I)) /\ Len(e) = l + 1
      BY <2>6, <3>1
    <3>3. e = [i \in 1..(l + 1) |-> e[i]]
      BY <3>2
    <3>4. \A i \in 1..(l + 1) : e[i] = IdsOf(ms, cuts[i])
      BY <2>8, <3>1
    <3> QED
      BY <3>1, <3>3, <3>4
  <2>10. Chapters(ms, cuts) = [i \in 1..(l + 1) |-> IdsOf(ms, cuts[i])]
    BY <1>1, <2>1, ChaptersAre
  <2> QED
    BY <2>5, <2>9, <2>10
<1> QED
  BY <1>2, <1>3

\* A free message may start a chapter of its own if the one before is closed
\* for it.
LEMMA NewChapter ==
  ASSUME NEW I, NEW ms \in Seq(MessageRow(I)), NEW limit \in Nat, NEW n \in 0..(Len(ms) - 1),
         NEW cuts \in Seq(Cut), IsPartition(ms, cuts, limit, n), ms[n + 1].free,
         \A i \in DOMAIN cuts : cuts[i].last = n => SizeOf(ms, cuts[i]) + ms[n + 1].tokens > limit
  PROVE  /\ Append(cuts, Piece(n + 1, n + 1)) \in Seq(Cut)
         /\ IsPartition(ms, Append(cuts, Piece(n + 1, n + 1)), limit, n + 1)
<1> DEFINE new == Append(cuts, Piece(n + 1, n + 1))
           l == Len(cuts)
<1>0. l \in Nat /\ DOMAIN cuts = 1..l /\ Len(ms) \in Nat
  BY CutsAre
<1>1. new \in Seq(Cut) /\ DOMAIN new = 1..(l + 1)
  BY <1>0 DEF Cut, Piece
<1>2. \A i \in 1..l : new[i] = cuts[i]
  BY <1>0
<1>3. new[l + 1] = Piece(n + 1, n + 1) /\ new[l + 1].first = n + 1 /\ new[l + 1].last = n + 1
  BY <1>0 DEF Piece
<1> HIDE DEF new, l
<1>4. \A i \in 1..l : cuts[i].first \in Nat /\ cuts[i].last \in Nat /\ 1 <= cuts[i].first
                      /\ cuts[i].first <= cuts[i].last /\ cuts[i].last <= n
  BY <1>0, CutsAre DEF IsPartition, FreeMessagesOnce
<1>5. \A i \in 1..(l + 1) : i \in 1..l \/ i = l + 1
  BY <1>0
<1>6. l + 1 \in 1..(l + 1) /\ \A i \in 1..l : i \in 1..(l + 1) /\ i < l + 1
  BY <1>0
<1>7. FreeMessagesOnce(ms, new, n + 1)
  <2>1. ASSUME NEW i \in DOMAIN new
        PROVE  1 <= new[i].first /\ new[i].first <= new[i].last /\ new[i].last <= n + 1
    <3>1. CASE i \in 1..l
      BY <1>2, <1>4, <3>1
    <3>2. CASE i = l + 1
      BY <1>3, <3>2
    <3> QED
      BY <1>1, <1>5, <3>1, <3>2
  <2>2. ASSUME NEW i \in DOMAIN new, NEW j \in DOMAIN new, i < j
        PROVE  new[i].last < new[j].first
    <3>1. i \in 1..l
      BY <1>0, <1>1, <2>2
    <3>2. CASE j \in 1..l
      BY <1>0, <1>2, <2>2, <3>1, <3>2 DEF IsPartition, FreeMessagesOnce
    <3>3. CASE j = l + 1
      BY <1>2, <1>3, <1>4, <3>1, <3>3
    <3> QED
      BY <1>1, <1>5, <3>2, <3>3
  <2>3. ASSUME NEW k \in 1..(n + 1)
        PROVE  ms[k].free <=> \E i \in DOMAIN new : k \in new[i].first..new[i].last
    <3>1. CASE k \in 1..n
      <4>1. ms[k].free <=> \E i \in 1..l : k \in cuts[i].first..cuts[i].last
        BY <1>0, <3>1 DEF IsPartition, FreeMessagesOnce
      <4>2. k \notin new[l + 1].first..new[l + 1].last
        BY <1>3, <3>1
      <4> QED
        BY <1>1, <1>2, <1>5, <1>6, <4>1, <4>2
    <3>2. CASE k = n + 1
      BY <1>1, <1>3, <1>6, <3>2
    <3> QED
      BY <3>1, <3>2
  <2> QED
    BY <2>1, <2>2, <2>3 DEF FreeMessagesOnce
<1>8. ChaptersFit(ms, new, limit)
  <2> SUFFICES ASSUME NEW i \in 1..(l + 1)
               PROVE  SizeOf(ms, new[i]) <= limit \/ new[i].first = new[i].last
    BY <1>1 DEF ChaptersFit
  <2>1. CASE i \in 1..l
    BY <1>0, <1>2, <2>1 DEF IsPartition, ChaptersFit
  <2>2. CASE i = l + 1
    BY <1>3, <2>2
  <2> QED
    BY <1>5, <2>1, <2>2
<1>9. ChaptersAreFull(ms, new, limit)
  <2> SUFFICES ASSUME NEW i \in 1..(l + 1), NEW j \in 1..(l + 1), new[j].first = new[i].last + 1
               PROVE  SizeOf(ms, new[i]) + ms[new[j].first].tokens > limit
    BY <1>1 DEF ChaptersAreFull
  <2>1. i \in 1..l
    <3> SUFFICES ASSUME i = l + 1
                 PROVE  FALSE
      BY <1>5
    <3>1. new[j].first = n + 1 + 1
      BY <1>3
    <3>2. CASE j \in 1..l
      <4>1. new[j].first <= n
        <5>1. cuts[j].first <= cuts[j].last /\ cuts[j].last <= n
          BY <1>4, <3>2
        <5>2. cuts[j].first \in Nat /\ cuts[j].last \in Nat
          BY <1>4, <3>2
        <5> QED
          BY <1>2, <3>2, <5>1, <5>2
      <4>2. new[j].first \in Nat
        BY <1>2, <1>4, <3>2
      <4> QED
        BY <3>1, <4>1, <4>2
    <3>3. CASE j = l + 1
      BY <1>3, <3>1, <3>3
    <3> QED
      BY <1>5, <3>2, <3>3
  <2>2. CASE j \in 1..l
    BY <1>0, <1>2, <2>1, <2>2 DEF IsPartition, ChaptersAreFull
  <2>3. CASE j = l + 1
    <3>1. n + 1 = cuts[i].last + 1 /\ new[j].first = n + 1
      BY <1>2, <1>3, <2>1, <2>3
    <3>2. cuts[i].last = n
      BY <1>4, <2>1, <3>1
    <3> QED
      BY <1>0, <1>2, <2>1, <3>1, <3>2
  <2> QED
    BY <1>5, <2>2, <2>3
<1> QED
  BY <1>1, <1>7, <1>8, <1>9 DEF IsPartition, new

\* A free message that still fits: what the last chapter becomes.
CanGrow(ms, cuts, limit, n) ==
  /\ ms[n + 1].free /\ cuts # <<>> /\ cuts[Len(cuts)].last = n
  /\ SizeOf(ms, cuts[Len(cuts)]) + ms[n + 1].tokens <= limit

Grown(cuts, n) ==
  [i \in 1..Len(cuts) |-> IF i = Len(cuts) THEN Piece(cuts[i].first, n + 1) ELSE cuts[i]]

GrowsBy(grown, cuts, n) ==
  /\ grown \in Seq(Cut) /\ Len(grown) = Len(cuts)
  /\ grown[Len(cuts)] = Piece(cuts[Len(cuts)].first, n + 1)
  /\ \A i \in 1..(Len(cuts) - 1) : grown[i] = cuts[i]

\* A chapter that can grow becomes one that is longer by a message.
LEMMA GrowChapter ==
  ASSUME NEW I, NEW ms \in Seq(MessageRow(I)), NEW limit \in Nat, NEW n \in 1..(Len(ms) - 1),
         NEW cuts \in Seq(Cut), IsPartition(ms, cuts, limit, n), CanGrow(ms, cuts, limit, n)
  PROVE  \E grown : GrowsBy(grown, cuts, n) /\ IsPartition(ms, grown, limit, n + 1)
<1> PICK grown, l : grown = Grown(cuts, n) /\ l = Len(cuts)
  OBVIOUS
<1>00. l # 0 /\ ms[n + 1].free /\ cuts[l].last = n /\ SizeOf(ms, cuts[l]) + ms[n + 1].tokens <= limit
  BY CutsAre DEF CanGrow
<1>0. l \in Nat /\ l \in 1..l /\ DOMAIN cuts = 1..l /\ Len(ms) \in Nat /\ n \in Nat
         /\ l # 0 /\ ms[n + 1].free /\ cuts[l].last = n /\ SizeOf(ms, cuts[l]) + ms[n + 1].tokens <= limit
  BY <1>00, CutsAre
<1>1. \A i \in 1..l : cuts[i].first \in Nat /\ cuts[i].last \in Nat /\ 1 <= cuts[i].first
                      /\ cuts[i].first <= cuts[i].last /\ cuts[i].last <= n
  BY <1>0, CutsAre DEF IsPartition, FreeMessagesOnce
<1>2. \A i \in 1..l : grown[i] = IF i = l THEN Piece(cuts[l].first, n + 1) ELSE cuts[i]
  BY DEF Grown
<1>3. grown[l] = Piece(cuts[l].first, n + 1) /\ grown[l].first = cuts[l].first /\ grown[l].last = n + 1
  BY <1>0, <1>2 DEF Piece
<1>4. \A i \in 1..l : i = l \/ i \in 1..(l - 1)
  BY <1>0
<1>5. \A i \in 1..(l - 1) : i \in 1..l /\ i < l /\ grown[i] = cuts[i]
  BY <1>0, <1>2
<1>6. \A i \in 1..l : grown[i] \in Cut
  <2>1. ASSUME NEW i \in 1..l
        PROVE  grown[i] \in Cut
    <3>1. CASE i = l
      BY <1>0, <1>1, <1>3, <3>1 DEF Piece, Cut
    <3>2. CASE i \in 1..(l - 1)
      BY <1>0, <1>5, <3>2, CutsAre
    <3> QED
      BY <1>4, <3>1, <3>2
  <2> QED
    BY <2>1
<1>7. grown \in Seq(Cut) /\ Len(grown) = l /\ DOMAIN grown = 1..l
  <2>1. grown \in [1..l -> Cut]
    BY <1>6 DEF Grown
  <2> QED
    BY <1>0, <2>1
<1>8. FreeMessagesOnce(ms, grown, n + 1)
  <2>1. ASSUME NEW i \in DOMAIN grown
        PROVE  1 <= grown[i].first /\ grown[i].first <= grown[i].last /\ grown[i].last <= n + 1
    <3>1. CASE i = l
      <4>1. 1 <= cuts[l].first /\ cuts[l].first <= n /\ cuts[l].first \in Nat
        BY <1>0, <1>1
      <4> QED
        BY <1>0, <1>3, <3>1, <4>1
    <3>2. CASE i \in 1..(l - 1)
      <4>1. i \in 1..l /\ grown[i] = cuts[i]
        BY <1>5, <3>2
      <4> QED
        BY <1>0, <1>1, <4>1
    <3> QED
      BY <1>4, <1>7, <3>1, <3>2
  <2>2. ASSUME NEW i \in DOMAIN grown, NEW j \in DOMAIN grown, i < j
        PROVE  grown[i].last < grown[j].first
    <3>1. i \in 1..(l - 1) /\ i \in 1..l /\ j \in 1..l
      BY <1>0, <1>7, <2>2
    <3>2. cuts[i].last < cuts[j].first
      BY <1>0, <2>2, <3>1 DEF IsPartition, FreeMessagesOnce
    <3>3. grown[j].first = cuts[j].first
      BY <1>3, <1>4, <1>5, <3>1
    <3> QED
      BY <1>5, <3>1, <3>2, <3>3
  <2>3. ASSUME NEW k \in 1..(n + 1)
        PROVE  ms[k].free <=> \E i \in DOMAIN grown : k \in grown[i].first..grown[i].last
    <3>1. CASE k \in 1..n
      <4>1. ms[k].free <=> \E i \in 1..l : k \in cuts[i].first..cuts[i].last
        BY <1>0, <3>1 DEF IsPartition, FreeMessagesOnce
      <4>2. ASSUME NEW i \in 1..l
            PROVE  k \in grown[i].first..grown[i].last <=> k \in cuts[i].first..cuts[i].last
        <5>1. CASE i = l
          <6>1. cuts[l].first \in Nat
            BY <1>0, <1>1
          <6> QED
            BY <1>0, <1>3, <3>1, <5>1, <6>1
        <5>2. CASE i \in 1..(l - 1)
          BY <1>5, <5>2
        <5> QED
          BY <1>4, <5>1, <5>2
      <4> QED
        BY <1>7, <4>1, <4>2
    <3>2. CASE k = n + 1
      <4>1. cuts[l].first \in Nat /\ cuts[l].first <= n
        BY <1>0, <1>1
      <4>2. k \in grown[l].first..grown[l].last
        BY <1>0, <1>3, <3>2, <4>1
      <4> QED
        BY <1>0, <1>7, <3>2, <4>2
    <3> QED
      BY <1>0, <3>1, <3>2
  <2> QED
    BY <2>1, <2>2, <2>3 DEF FreeMessagesOnce
<1>9. ChaptersFit(ms, grown, limit)
  <2> SUFFICES ASSUME NEW i \in 1..l
               PROVE  SizeOf(ms, grown[i]) <= limit \/ grown[i].first = grown[i].last
    BY <1>7 DEF ChaptersFit
  <2>1. CASE i = l
    <3>1. cuts[l] = Piece(cuts[l].first, n) /\ cuts[l].first \in 1..n
      BY <1>0, <1>1, CutsAre
    <3>2. PICK f \in 1..n : f = cuts[l].first
      BY <3>1
    <3>3. SizeOf(ms, Piece(f, n + 1)) = SizeOf(ms, Piece(f, n)) + ms[n + 1].tokens
      BY OneMore
    <3> QED
      BY <1>0, <1>3, <2>1, <3>1, <3>2, <3>3
  <2>2. CASE i \in 1..(l - 1)
    BY <1>0, <1>5, <2>2 DEF IsPartition, ChaptersFit
  <2> QED
    BY <1>4, <2>1, <2>2
<1>10. ChaptersAreFull(ms, grown, limit)
  <2> SUFFICES ASSUME NEW i \in 1..l, NEW j \in 1..l, grown[j].first = grown[i].last + 1
               PROVE  SizeOf(ms, grown[i]) + ms[grown[j].first].tokens > limit
    BY <1>7 DEF ChaptersAreFull
  <2>1. grown[j].first = cuts[j].first /\ cuts[j].first \in Nat /\ cuts[j].first <= n
    <3>1. grown[j].first = cuts[j].first
      BY <1>3, <1>4, <1>5
    <3>2. cuts[j].first <= cuts[j].last /\ cuts[j].last <= n /\ cuts[j].first \in Nat /\ cuts[j].last \in Nat
      BY <1>1
    <3> QED
      BY <1>0, <3>1, <3>2
  <2>2. i # l
    <3> SUFFICES ASSUME i = l
                 PROVE  FALSE
      OBVIOUS
    <3>1. grown[j].first = n + 1 + 1
      BY <1>3
    <3> QED
      BY <1>0, <2>1, <3>1
  <2>3. grown[i] = cuts[i]
    BY <1>4, <1>5, <2>2
  <2> QED
    BY <1>0, <2>1, <2>3 DEF IsPartition, ChaptersAreFull
<1> QED
  BY <1>3, <1>5, <1>7, <1>8, <1>9, <1>10 DEF IsPartition, GrowsBy

\* One message more.
LEMMA StepFilled ==
  ASSUME NEW I, NEW ms \in Seq(MessageRow(I)), NEW limit \in Nat, NEW n \in 0..(Len(ms) - 1),
         NEW acc \in Filling(I), NEW cuts, Filled(ms, limit, n, acc, cuts),
         NEW next, next = ExtendPlan(acc, ms[n + 1], limit)
  PROVE  \E c : Filled(ms, limit, n + 1, next, c)
<1>0. cuts \in Seq(Cut) /\ IsPartition(ms, cuts, limit, n) /\ Len(ms) \in Nat
  BY DEF Filled
<1>1. n \in Nat /\ n + 1 \in 1..Len(ms)
  BY <1>0
<1>2. ms[n + 1].id \in I /\ ms[n + 1].tokens \in Nat /\ ms[n + 1].free \in BOOLEAN
  BY <1>1, RowIs
<1>3. CloseChunk(acc) = Chapters(ms, cuts)
  BY ClosedChapters
<1>4. acc.done \in Seq(Seq(I)) /\ acc.chunk \in Seq(I) /\ acc.size \in Nat
  BY DEF Filling
<1>5. \A i \in DOMAIN cuts : cuts[i].first \in Nat /\ cuts[i].last \in Nat /\ 1 <= cuts[i].first
                             /\ cuts[i].first <= cuts[i].last /\ cuts[i].last <= n
  BY <1>0, CutsAre DEF IsPartition, FreeMessagesOnce
<1>6. CASE ~ms[n + 1].free
  <2>1. next = [done |-> Chapters(ms, cuts), chunk |-> <<>>, size |-> 0]
    BY <1>3, <1>6 DEF ExtendPlan, EmptyPlan
  <2>2. FreeMessagesOnce(ms, cuts, n + 1)
    <3>1. \A k \in 1..(n + 1) : k \in 1..n \/ k = n + 1
      BY <1>1
    <3>2. \A i \in DOMAIN cuts : n + 1 \notin cuts[i].first..cuts[i].last /\ cuts[i].last <= n + 1
      BY <1>1, <1>5
    <3> QED
      BY <1>0, <1>6, <3>1, <3>2 DEF IsPartition, FreeMessagesOnce
  <2>3. IsPartition(ms, cuts, limit, n + 1)
    BY <1>0, <2>2 DEF IsPartition
  <2> QED
    BY <1>0, <1>6, <2>1, <2>3 DEF Filled
<1>7. CASE ms[n + 1].free /\ (acc.chunk # <<>> => acc.size + ms[n + 1].tokens > limit)
  <2> DEFINE new == Append(cuts, Piece(n + 1, n + 1))
             l == Len(cuts)
  <2>1. /\ next.done = Chapters(ms, cuts)
        /\ next.chunk = <<ms[n + 1].id>>
        /\ next.size = ms[n + 1].tokens
    <3>1. CASE acc.chunk = <<>>
      <4>1. next = [acc EXCEPT !.chunk = Append(acc.chunk, ms[n + 1].id), !.size = acc.size + ms[n + 1].tokens]
        BY <1>7, <3>1 DEF ExtendPlan
      <4>2. acc.size = 0 /\ acc.done = Chapters(ms, cuts)
        BY <3>1 DEF Filled
      <4>3. Append(acc.chunk, ms[n + 1].id) = <<ms[n + 1].id>>
        BY <3>1
      <4>4. next.done = acc.done /\ next.chunk = Append(acc.chunk, ms[n + 1].id)
            /\ next.size = acc.size + ms[n + 1].tokens
        BY <4>1 DEF Filling
      <4> QED
        BY <1>2, <4>2, <4>3, <4>4
    <3>2. CASE acc.chunk # <<>>
      <4>1. next = [done |-> CloseChunk(acc), chunk |-> <<ms[n + 1].id>>, size |-> ms[n + 1].tokens]
        BY <1>7, <3>2 DEF ExtendPlan, StartChunk
      <4> QED
        BY <1>3, <4>1
    <3> QED
      BY <3>1, <3>2
  <2>2. ASSUME NEW i \in DOMAIN cuts, cuts[i].last = n
        PROVE  SizeOf(ms, cuts[i]) + ms[n + 1].tokens > limit
    <3>1. acc.chunk # <<>>
      <4> SUFFICES ASSUME acc.chunk = <<>>
                   PROVE  FALSE
        OBVIOUS
      <4>1. n = 0 \/ ~ms[n].free
        BY DEF Filled
      <4>2. n \in 1..n /\ n \in cuts[i].first..cuts[i].last
        BY <1>1, <1>5, <2>2
      <4>3. ms[n].free
        BY <1>0, <4>2 DEF IsPartition, FreeMessagesOnce
      <4> QED
        BY <4>1, <4>2, <4>3
    <3>2. PICK j : j = Len(cuts)
      OBVIOUS
    <3>3. cuts[j].last = n /\ acc.size = SizeOf(ms, cuts[j])
      BY <3>1, <3>2 DEF Filled
    <3>4. i \in 1..j /\ j \in 1..j /\ DOMAIN cuts = 1..j /\ j \in Nat
      BY <1>0, <3>2, CutsAre
    <3>5. i = j
      <4> SUFFICES ASSUME i < j
                   PROVE  FALSE
        BY <3>4
      <4>1. cuts[i].last < cuts[j].first /\ cuts[j].first <= cuts[j].last
        BY <1>0, <3>4 DEF IsPartition, FreeMessagesOnce
      <4> QED
        BY <1>5, <2>2, <3>3, <3>4, <4>1
    <3> QED
      BY <1>7, <3>1, <3>3, <3>5
  <2>3. new \in Seq(Cut) /\ IsPartition(ms, new, limit, n + 1)
    BY <1>0, <1>7, <2>2, NewChapter
  <2>4. l \in Nat /\ Len(new) = l + 1 /\ new[l + 1] = Piece(n + 1, n + 1) /\ \A i \in 1..l : new[i] = cuts[i]
    BY <1>0, CutsAre
  <2>5. SizeOf(ms, Piece(n + 1, n + 1)) = ms[n + 1].tokens /\ IdsOf(ms, Piece(n + 1, n + 1)) = <<ms[n + 1].id>>
    BY <1>1, OneMessage
  <2>6. Len(Chapters(ms, cuts)) = l /\ \A i \in 1..l : Chapters(ms, cuts)[i] = IdsOf(ms, cuts[i])
    BY <1>0, ChaptersAre
  <2>7. next.chunk # <<>>
    BY <2>1
  <2>8. new # <<>> /\ new[Len(new)].last = n + 1
    BY <2>4 DEF Piece
  <2> HIDE DEF new, l
  <2>9. Len(next.done) = Len(new) - 1
    BY <2>1, <2>4, <2>6
  <2>10. \A i \in 1..(Len(new) - 1) : next.done[i] = IdsOf(ms, new[i])
    BY <2>1, <2>4, <2>6
  <2>11. next.chunk = IdsOf(ms, new[Len(new)]) /\ next.size = SizeOf(ms, new[Len(new)])
    BY <2>1, <2>4, <2>5
  <2>12. Filled(ms, limit, n + 1, next, new)
    BY <2>3, <2>7, <2>8, <2>9, <2>10, <2>11 DEF Filled
  <2> QED
    BY <2>12
<1>8. CASE ms[n + 1].free /\ acc.chunk # <<>> /\ ~(acc.size + ms[n + 1].tokens > limit)
  <2>1. PICK l : l = Len(cuts)
    OBVIOUS
  <2>2. /\ l \in Nat /\ l # 0 /\ DOMAIN cuts = 1..l /\ cuts[l].last = n
        /\ acc.chunk = IdsOf(ms, cuts[l]) /\ acc.size = SizeOf(ms, cuts[l])
        /\ Len(acc.done) = l - 1
        /\ \A i \in 1..(l - 1) : acc.done[i] = IdsOf(ms, cuts[i])
    BY <1>0, <1>8, <2>1, CutsAre DEF Filled
  <2>3. cuts[l].first \in 1..n /\ cuts[l] = Piece(cuts[l].first, n)
    BY <1>0, <1>5, <2>2, CutsAre
  <2>4. n \in 1..(Len(ms) - 1)
    BY <1>0, <1>1, <2>3
  <2>5. SizeOf(ms, cuts[l]) + ms[n + 1].tokens <= limit
    BY <1>2, <1>4, <1>8, <2>2
  <2>6. PICK grown : GrowsBy(grown, cuts, n) /\ IsPartition(ms, grown, limit, n + 1)
    <3>1. CanGrow(ms, cuts, limit, n)
      BY <1>0, <1>8, <2>1, <2>2, <2>5, CutsAre DEF CanGrow
    <3> QED
      BY <1>0, <2>4, <3>1, GrowChapter
  <2>7. /\ grown \in Seq(Cut) /\ Len(grown) = l
        /\ grown[l] = Piece(cuts[l].first, n + 1)
        /\ \A i \in 1..(l - 1) : grown[i] = cuts[i]
        /\ IsPartition(ms, grown, limit, n + 1)
    BY <2>1, <2>6 DEF GrowsBy
  <2>8. next = [acc EXCEPT !.chunk = Append(acc.chunk, ms[n + 1].id), !.size = acc.size + ms[n + 1].tokens]
    BY <1>8 DEF ExtendPlan
  <2>9. next.done = acc.done /\ next.chunk = Append(acc.chunk, ms[n + 1].id)
        /\ next.size = acc.size + ms[n + 1].tokens
    BY <2>8 DEF Filling
  <2>10. PICK f \in 1..n : f = cuts[l].first
    BY <2>3
  <2>11. /\ SizeOf(ms, Piece(f, n + 1)) = SizeOf(ms, Piece(f, n)) + ms[n + 1].tokens
         /\ IdsOf(ms, Piece(f, n + 1)) = Append(IdsOf(ms, Piece(f, n)), ms[n + 1].id)
    BY <2>4, OneMore
  <2>12. next.chunk = IdsOf(ms, grown[l]) /\ next.size = SizeOf(ms, grown[l])
    BY <2>2, <2>3, <2>7, <2>9, <2>10, <2>11
  <2>13. next.chunk # <<>>
    <3>1. PICK c \in Seq(I) : c = acc.chunk
      BY <1>4
    <3>2. PICK x \in I : x = ms[n + 1].id
      BY <1>2
    <3>3. Len(Append(c, x)) = Len(c) + 1 /\ Len(c) \in Nat
      OBVIOUS
    <3>4. Append(c, x) # <<>>
      BY <3>3
    <3> QED
      BY <2>9, <3>1, <3>2, <3>4
  <2>14. grown # <<>> /\ grown[l].last = n + 1
    BY <2>2, <2>7 DEF Piece
  <2>15. Filled(ms, limit, n + 1, next, grown)
    BY <2>2, <2>7, <2>9, <2>12, <2>13, <2>14 DEF Filled
  <2> QED
    BY <2>15
<1> QED
  BY <1>2, <1>6, <1>7, <1>8

\* Before every message of a chat the planner holds the greedy partition of
\* the messages it has seen.
LEMMA AlwaysFilled ==
  ASSUME NEW I, NEW ms \in Seq(MessageRow(I)), NEW limit \in Nat
  PROVE  \A n \in 0..Len(ms) : \E cuts : Filled(ms, limit, n, Planning(ms, limit)[n], cuts)
<1> PICK L, P : L = Len(ms) /\ P = Planning(ms, limit)
  OBVIOUS
<1>0. L \in Nat /\ P \in [0..L -> Filling(I)] /\ P[0] = EmptyPlan
      /\ \A n \in 1..L : P[n] = ExtendPlan(P[n - 1], ms[n], limit)
  <2>1. /\ Planning(ms, limit) \in [0..Len(ms) -> Filling(I)]
        /\ Planning(ms, limit)[0] = EmptyPlan
        /\ \A n \in 1..Len(ms) :
             Planning(ms, limit)[n] = ExtendPlan(Planning(ms, limit)[n - 1], ms[n], limit)
    BY PlanningIs
  <2>2. Len(ms) \in Nat
    OBVIOUS
  <2> QED
    BY <2>1, <2>2, Zenon
<1> DEFINE Reached(n) == \E cuts : Filled(ms, limit, n, P[n], cuts)
           Bad == {n \in 0..L : ~Reached(n)}
<1>1. Reached(0)
  <2>1. PICK none : none = <<>>
    OBVIOUS
  <2>2. none \in Seq(Cut) /\ DOMAIN none = {} /\ Len(none) = 0
    BY <2>1
  <2>3. Chapters(ms, none) = <<>>
    <3>1. Chapters(ms, none) \in [1..0 -> {<<>>}]
      BY <2>2 DEF Chapters
    <3>2. Chapters(ms, none) = [i \in {} |-> <<>>] /\ <<>> = [i \in {} |-> <<>>]
      BY <2>2 DEF Chapters
    <3> QED
      BY <3>2
  <2>4. IsPartition(ms, none, limit, 0)
    BY <2>2 DEF IsPartition, FreeMessagesOnce, ChaptersFit, ChaptersAreFull
  <2>5. EmptyPlan.done = <<>> /\ EmptyPlan.chunk = <<>> /\ EmptyPlan.size = 0
    BY DEF EmptyPlan
  <2>6. Filled(ms, limit, 0, EmptyPlan, none)
    BY <2>2, <2>3, <2>4, <2>5 DEF Filled
  <2> QED
    BY <1>0, <2>6
<1>2. ASSUME NEW n \in 1..L, Reached(n - 1)
      PROVE  Reached(n)
  <2>1. n - 1 \in 0..(Len(ms) - 1) /\ n - 1 \in 0..L /\ (n - 1) + 1 = n
    BY <1>0
  <2>2. PICK m : m = n - 1
    OBVIOUS
  <2>3. PICK cuts : Filled(ms, limit, m, P[m], cuts)
    BY <1>2, <2>2
  <2>4. P[m] \in Filling(I) /\ m \in 0..(Len(ms) - 1) /\ m + 1 = n
    BY <1>0, <2>1, <2>2
  <2>5. P[n] = ExtendPlan(P[m], ms[m + 1], limit)
    BY <1>0, <2>2, <2>4
  <2>6. PICK acc, next : acc \in Filling(I) /\ acc = P[m] /\ next = ExtendPlan(acc, ms[m + 1], limit) /\ next = P[n]
    BY <2>4, <2>5
  <2>7. Filled(ms, limit, m, acc, cuts)
    BY <2>3, <2>6
  <2>8. \E c : Filled(ms, limit, m + 1, next, c)
    BY <2>4, <2>6, <2>7, StepFilled
  <2> QED
    BY <2>4, <2>6, <2>8
<1>3. ASSUME Bad # {}
      PROVE  FALSE
  <2>0. Bad \in SUBSET Nat
    BY <1>0
  <2>1. PICK n \in Bad : \A k \in Bad : n <= k
    <3> HIDE DEF Bad
    <3> QED
      BY <1>3, <2>0, LeastNat
  <2>2. n \in 1..L /\ n - 1 \in 0..L /\ n - 1 \notin Bad
    <3> HIDE DEF Reached
    <3> QED
      BY <1>0, <1>1, <2>1
  <2>3. Reached(n - 1) /\ ~Reached(n)
    <3> HIDE DEF Reached
    <3> QED
      BY <2>1, <2>2
  <2> HIDE DEF Reached
  <2> QED
    BY <1>2, <2>2, <2>3
<1>4. \A n \in 0..L : Reached(n)
  <2> HIDE DEF Reached
  <2> QED
    BY <1>3
<1> QED
  BY <1>4

\* The plan of a chat is a greedy partition of its free messages.
LEMMA PlanIsPartition ==
  ASSUME NEW I, NEW ms \in Seq(MessageRow(I)), NEW limit \in Nat
  PROVE  \E cuts \in Seq(Cut) : /\ PlanChapters(ms, limit) = Chapters(ms, cuts)
                              /\ IsPartition(ms, cuts, limit, Len(ms))
<1> PICK n, acc : n = Len(ms) /\ acc = Planning(ms, limit)[n]
  OBVIOUS
<1>1. n \in 0..Len(ms) /\ acc \in Filling(I)
  BY PlanningIs
<1>2. PICK cuts : Filled(ms, limit, n, acc, cuts)
  BY <1>1, AlwaysFilled
<1>3. CloseChunk(acc) = Chapters(ms, cuts)
  BY <1>1, <1>2, ClosedChapters
<1> QED
  BY <1>2, <1>3 DEF Filled, PlanChapters

\* More messages never have fewer tokens.
LEMMA TokensGrow ==
  ASSUME NEW I, NEW ms \in Seq(MessageRow(I)), NEW a \in 0..Len(ms), NEW b \in 0..Len(ms), a <= b
  PROVE  TokensUpTo(ms)[a] <= TokensUpTo(ms)[b]
<1> PICK L, T : L = Len(ms) /\ T = TokensUpTo(ms)
  OBVIOUS
<1>1. L \in Nat /\ T \in [0..L -> Nat]
  BY TokensAre
<1>2. ASSUME NEW n \in 1..L
      PROVE  T[n - 1] <= T[n]
  <2>1. T[n] = T[n - 1] + ms[n].tokens
    BY <1>2, TokensAre
  <2>2. n - 1 \in 0..L /\ ms[n].tokens \in Nat
    BY <1>1, RowIs
  <2>3. T[n - 1] \in Nat /\ T[n] \in Nat
    BY <1>1, <2>2
  <2> QED
    BY <2>1, <2>2, <2>3
<1> DEFINE Bad == {n \in 0..L : a <= n /\ ~(T[a] <= T[n])}
<1>3. ASSUME Bad # {}
      PROVE  FALSE
  <2>0. Bad \in SUBSET Nat
    BY <1>1
  <2>1. PICK n \in Bad : \A k \in Bad : n <= k
    <3> HIDE DEF Bad
    <3> QED
      BY <1>3, <2>0, LeastNat
  <2>2. n \in 0..L /\ a <= n /\ ~(T[a] <= T[n]) /\ a \in 0..L
    BY <2>1
  <2>3. n # a
    BY <1>1, <2>2
  <2>4. n \in 1..L /\ n - 1 \in 0..L /\ a <= n - 1
    BY <1>1, <2>2, <2>3
  <2>5. n - 1 \notin Bad
    BY <1>1, <2>1, <2>4
  <2>6. T[a] <= T[n - 1]
    BY <2>4, <2>5
  <2>7. T[a] \in Nat /\ T[n - 1] \in Nat /\ T[n] \in Nat
    BY <1>1, <2>2, <2>4
  <2> QED
    BY <1>2, <2>2, <2>4, <2>6, <2>7
<1> QED
  BY <1>1, <1>3

\* Two partitions that agree on the chapters before the i-th agree on where it
\* starts ...
LEMMA NotLater ==
  ASSUME NEW ms, NEW limit, NEW n \in Nat,
         NEW c \in Seq(Cut), IsPartition(ms, c, limit, n),
         NEW d \in Seq(Cut), IsPartition(ms, d, limit, n),
         NEW i \in 1..Len(d), \A k \in 1..(i - 1) : k \in 1..Len(c) /\ c[k] = d[k]
  PROVE  i \in 1..Len(c) /\ c[i].first <= d[i].first
<1>1. DOMAIN c = 1..Len(c) /\ DOMAIN d = 1..Len(d) /\ Len(c) \in Nat /\ Len(d) \in Nat
  BY CutsAre
<1>2. \A k \in 1..Len(c) : c[k].first \in Nat /\ c[k].last \in Nat /\ c[k].first <= c[k].last
  BY <1>1, CutsAre DEF IsPartition, FreeMessagesOnce
<1>3. \A k \in 1..Len(d) : d[k].first \in Nat /\ d[k].last \in Nat /\ 1 <= d[k].first
                            /\ d[k].first <= d[k].last /\ d[k].last <= n
  BY <1>1, CutsAre DEF IsPartition, FreeMessagesOnce
<1>4. PICK p : p = d[i].first
  OBVIOUS
<1>5. p \in 1..n /\ p \in d[i].first..d[i].last
  BY <1>3, <1>4
<1>6. ms[p].free
  BY <1>1, <1>5 DEF IsPartition, FreeMessagesOnce
<1>7. PICK j \in 1..Len(c) : p \in c[j].first..c[j].last
  BY <1>1, <1>5, <1>6 DEF IsPartition, FreeMessagesOnce
<1>8. ~(j < i)
  <2> SUFFICES ASSUME j < i
               PROVE  FALSE
    OBVIOUS
  <2>1. j \in 1..(i - 1) /\ j \in 1..Len(d)
    BY <1>1
  <2>2. c[j] = d[j] /\ d[j].last < d[i].first
    BY <1>1, <2>1 DEF IsPartition, FreeMessagesOnce
  <2> QED
    BY <1>2, <1>3, <1>4, <1>7, <2>1, <2>2
<1>9. i \in 1..Len(c)
  BY <1>1, <1>8
<1>10. c[i].first <= c[j].first
  <2>1. CASE i = j
    BY <1>2, <1>9, <2>1
  <2>2. CASE i < j
    <3>1. c[i].last < c[j].first
      BY <1>1, <1>9, <2>2 DEF IsPartition, FreeMessagesOnce
    <3> QED
      BY <1>2, <1>9, <3>1
  <2> QED
    BY <1>1, <1>8, <1>9, <2>1, <2>2
<1> QED
  BY <1>2, <1>4, <1>7, <1>9, <1>10, <1>5

\* ... and on where it ends.
LEMMA NotShorter ==
  ASSUME NEW I, NEW ms \in Seq(MessageRow(I)), NEW limit \in Nat, NEW n \in 0..Len(ms),
         NEW c \in Seq(Cut), IsPartition(ms, c, limit, n),
         NEW d \in Seq(Cut), IsPartition(ms, d, limit, n),
         NEW i \in 1..Len(d), i \in 1..Len(c), c[i].first = d[i].first
  PROVE  d[i].last <= c[i].last
<1>1. DOMAIN c = 1..Len(c) /\ DOMAIN d = 1..Len(d) /\ Len(c) \in Nat /\ Len(d) \in Nat /\ n \in Nat
      /\ Len(ms) \in Nat
  BY CutsAre
<1>2. \A k \in 1..Len(c) : c[k].first \in Nat /\ c[k].last \in Nat /\ 1 <= c[k].first
                            /\ c[k].first <= c[k].last /\ c[k].last <= n
  BY <1>1, CutsAre DEF IsPartition, FreeMessagesOnce
<1>3. \A k \in 1..Len(d) : d[k].first \in Nat /\ d[k].last \in Nat /\ 1 <= d[k].first
                            /\ d[k].first <= d[k].last /\ d[k].last <= n
  BY <1>1, CutsAre DEF IsPartition, FreeMessagesOnce
<1>4. SUFFICES ASSUME c[i].last < d[i].last
               PROVE  FALSE
  BY <1>2, <1>3
<1>5. PICK f, e, k, g : f = c[i].first /\ e = c[i].last /\ k = e + 1 /\ g = d[i].last
  OBVIOUS
<1>6. /\ f \in Nat /\ e \in Nat /\ k \in 1..n /\ g \in Nat
      /\ 1 <= f /\ f <= e /\ e < g /\ k <= g /\ g <= n /\ d[i].first = f /\ k = e + 1
  BY <1>1, <1>2, <1>3, <1>4, <1>5
<1>7. ms[k].free
  <2>1. k \in d[i].first..d[i].last
    BY <1>1, <1>5, <1>6
  <2> QED
    BY <1>1, <1>6, <2>1 DEF IsPartition, FreeMessagesOnce
<1>8. PICK j \in 1..Len(c) : k \in c[j].first..c[j].last
  BY <1>1, <1>6, <1>7 DEF IsPartition, FreeMessagesOnce
<1>9. i < j
  <2> SUFFICES ASSUME ~(i < j)
               PROVE  FALSE
    OBVIOUS
  <2>1. CASE i = j
    <3>1. k <= e
      BY <1>2, <1>5, <1>8, <2>1
    <3> QED
      BY <1>6, <3>1
  <2>2. CASE j < i
    <3>1. c[j].last < c[i].first
      BY <1>1, <2>2 DEF IsPartition, FreeMessagesOnce
    <3>2. PICK h \in Nat : h = c[j].last
      BY <1>2
    <3>3. h < f
      BY <1>5, <3>1, <3>2
    <3>4. k <= h
      BY <1>8, <3>2
    <3> QED
      BY <1>6, <3>2, <3>3, <3>4
  <2> QED
    BY <1>1, <2>1, <2>2
<1>10. c[j].first = c[i].last + 1
  <2>1. c[i].last < c[j].first
    BY <1>1, <1>9 DEF IsPartition, FreeMessagesOnce
  <2>2. PICK h \in Nat : h = c[j].first
    BY <1>2
  <2>3. e < h
    BY <1>5, <2>1, <2>2
  <2>4. h <= k
    BY <1>2, <1>8, <2>2
  <2>5. h = e + 1
    BY <1>6, <2>3, <2>4
  <2> QED
    BY <1>5, <2>2, <2>5
<1>11. SizeOf(ms, c[i]) + ms[k].tokens > limit
  <2>1. SizeOf(ms, c[i]) + ms[c[j].first].tokens > limit
    BY <1>1, <1>10 DEF IsPartition, ChaptersAreFull
  <2>2. c[j].first = k
    BY <1>5, <1>10
  <2> QED
    BY <2>1, <2>2
<1>12. SizeOf(ms, d[i]) <= limit
  <2>1. d[i].first # d[i].last
    BY <1>5, <1>6
  <2> QED
    BY <1>1, <2>1 DEF IsPartition, ChaptersFit
<1>13. PICK T : T = TokensUpTo(ms)
  OBVIOUS
<1>14. T \in [0..Len(ms) -> Nat] /\ T[k] = T[k - 1] + ms[k].tokens
  <2>1. TokensUpTo(ms) \in [0..Len(ms) -> Nat]
        /\ \A b \in 1..Len(ms) : TokensUpTo(ms)[b] = TokensUpTo(ms)[b - 1] + ms[b].tokens
    BY TokensAre
  <2>2. k \in 1..Len(ms)
    BY <1>1, <1>6
  <2> QED
    BY <1>13, <2>1, <2>2, Zenon
<1>15. T[k] <= T[g]
  BY <1>1, <1>6, <1>13, TokensGrow
<1>16. SizeOf(ms, c[i]) = T[e] - T[f - 1] /\ SizeOf(ms, d[i]) = T[g] - T[f - 1]
  BY <1>5, <1>6, <1>13 DEF SizeOf
<1>17. T[e] \in Nat /\ T[f - 1] \in Nat /\ T[g] \in Nat /\ T[k] \in Nat /\ k - 1 = e
  <2>1. e \in 0..Len(ms) /\ f - 1 \in 0..Len(ms) /\ g \in 0..Len(ms) /\ k \in 0..Len(ms) /\ k - 1 = e
    BY <1>1, <1>6
  <2> QED
    BY <1>14, <2>1, Zenon
<1>18. ms[k].tokens \in Nat
  BY <1>1, <1>6, RowIs
<1>19. PICK te \in Nat, tf \in Nat, tg \in Nat, tk \in Nat, x \in Nat :
          te = T[e] /\ tf = T[f - 1] /\ tg = T[g] /\ tk = T[k] /\ x = ms[k].tokens
  BY <1>17, <1>18
<1>20. te - tf + x > limit /\ tg - tf <= limit /\ tk <= tg
  BY <1>11, <1>12, <1>15, <1>16, <1>19
<1>21. tk = te + x
  BY <1>14, <1>17, <1>19
<1> QED
  BY <1>20, <1>21

\* So every chapter of the one is the chapter of the other at its place.
LEMMA Agrees ==
  ASSUME NEW I, NEW ms \in Seq(MessageRow(I)), NEW limit \in Nat, NEW n \in 0..Len(ms),
         NEW c \in Seq(Cut), IsPartition(ms, c, limit, n),
         NEW d \in Seq(Cut), IsPartition(ms, d, limit, n)
  PROVE  \A i \in 1..Len(d) : i \in 1..Len(c) /\ c[i] = d[i]
<1> DEFINE Bad == {i \in 1..Len(d) : ~(i \in 1..Len(c) /\ c[i] = d[i])}
<1>1. Len(c) \in Nat /\ Len(d) \in Nat /\ n \in Nat /\ Len(ms) \in Nat
  BY CutsAre
<1>2. ASSUME Bad # {}
      PROVE  FALSE
  <2>0. Bad \in SUBSET Nat
    BY <1>1
  <2>1. PICK i \in Bad : \A k \in Bad : i <= k
    <3> HIDE DEF Bad
    <3> QED
      BY <1>2, <2>0, LeastNat
  <2>2. i \in 1..Len(d)
    BY <2>1
  <2>3. \A k \in 1..(i - 1) : k \in 1..Len(c) /\ c[k] = d[k]
    <3> TAKE k \in 1..(i - 1)
    <3>1. k \in 1..Len(d) /\ ~(i <= k)
      BY <1>1, <2>2
    <3> QED
      BY <2>1, <3>1
  <2>4. i \in 1..Len(c) /\ c[i].first <= d[i].first
    BY <1>1, <2>2, <2>3, NotLater
  <2>5. \A k \in 1..(i - 1) : k \in 1..Len(d) /\ d[k] = c[k]
    BY <1>1, <2>2, <2>3
  <2>6. d[i].first <= c[i].first
    BY <1>1, <2>4, <2>5, NotLater
  <2>7. c[i] \in Cut /\ d[i] \in Cut
    BY <2>2, <2>4
  <2>12. /\ c[i].first \in Nat /\ c[i].last \in Nat /\ c[i] = Piece(c[i].first, c[i].last)
         /\ d[i].first \in Nat /\ d[i].last \in Nat /\ d[i] = Piece(d[i].first, d[i].last)
    BY <2>2, <2>4, CutsAre
  <2>8. c[i].first = d[i].first
    BY <2>4, <2>6, <2>12
  <2>9. d[i].last <= c[i].last
    BY <2>2, <2>4, <2>8, NotShorter
  <2>10. c[i].last <= d[i].last
    BY <2>2, <2>4, <2>8, NotShorter
  <2>13. c[i].last = d[i].last
    BY <2>9, <2>10, <2>12
  <2>11. c[i] = d[i]
    BY <2>8, <2>12, <2>13
  <2> QED
    BY <2>1, <2>4, <2>11
<1> QED
  BY <1>2

\* For every chat and every chunk size, the plan is the greedy partition of
\* the free messages, the only one there is: every free message in exactly one
\* chapter and in order, no chapter across a message that is archived or
\* claimed, none over the chunk size but a single oversized message, none cut
\* before it is full (plan_chapters, chapters.py:42-73).
THEOREM PlanIsGreedy ==
  ASSUME NEW I, NEW ms \in Seq(MessageRow(I)), NEW limit \in Nat
  PROVE  \E cuts \in Seq(Cut) :
           /\ PlanChapters(ms, limit) = Chapters(ms, cuts)
           /\ IsPartition(ms, cuts, limit, Len(ms))
           /\ \A other \in Seq(Cut) : IsPartition(ms, other, limit, Len(ms)) => other = cuts
<1>1. PICK cuts \in Seq(Cut) : /\ PlanChapters(ms, limit) = Chapters(ms, cuts)
                              /\ IsPartition(ms, cuts, limit, Len(ms))
  BY PlanIsPartition
<1>2. Len(ms) \in 0..Len(ms)
  OBVIOUS
<1>3. ASSUME NEW other \in Seq(Cut), IsPartition(ms, other, limit, Len(ms))
      PROVE  other = cuts
  <2>1. \A i \in 1..Len(other) : i \in 1..Len(cuts) /\ cuts[i] = other[i]
    BY <1>1, <1>2, <1>3, Agrees
  <2>2. \A i \in 1..Len(cuts) : i \in 1..Len(other) /\ other[i] = cuts[i]
    BY <1>1, <1>2, <1>3, Agrees
  <2>3. Len(other) = Len(cuts)
    BY <2>1, <2>2
  <2> QED
    BY <2>1, <2>3, SeqsEqual
<1> QED
  BY <1>1, <1>3

\* What the loop carries depends on the messages before it alone.
LEMMA SamePrefix ==
  ASSUME NEW I, NEW ms \in Seq(MessageRow(I)), NEW m \in MessageRow(I), NEW limit \in Nat
  PROVE  \A n \in 0..Len(ms) : Planning(Append(ms, m), limit)[n] = Planning(ms, limit)[n]
<1> PICK more : more = Append(ms, m)
  OBVIOUS
<1>0. more \in Seq(MessageRow(I)) /\ Len(ms) \in Nat /\ Len(more) = Len(ms) + 1
      /\ \A n \in 1..Len(ms) : more[n] = ms[n]
  OBVIOUS
<1> PICK L, P, Q : L = Len(ms) /\ P = Planning(ms, limit) /\ Q = Planning(more, limit)
  OBVIOUS
<1>1. /\ P[0] = EmptyPlan
      /\ \A n \in 1..L : P[n] = ExtendPlan(P[n - 1], ms[n], limit)
  <2>1. Planning(ms, limit)[0] = EmptyPlan
        /\ \A n \in 1..Len(ms) :
             Planning(ms, limit)[n] = ExtendPlan(Planning(ms, limit)[n - 1], ms[n], limit)
    BY PlanningIs
  <2> QED
    BY <2>1, Zenon
<1>2. /\ Q[0] = EmptyPlan
      /\ \A n \in 1..Len(more) : Q[n] = ExtendPlan(Q[n - 1], more[n], limit)
  <2>1. Planning(more, limit)[0] = EmptyPlan
        /\ \A n \in 1..Len(more) :
             Planning(more, limit)[n] = ExtendPlan(Planning(more, limit)[n - 1], more[n], limit)
    BY <1>0, PlanningIs
  <2> QED
    BY <2>1, Zenon
<1> DEFINE Bad == {n \in 0..L : Q[n] # P[n]}
<1>3. ASSUME Bad # {}
      PROVE  FALSE
  <2>0. Bad \in SUBSET Nat
    BY <1>0
  <2>1. PICK n \in Bad : \A k \in Bad : n <= k
    <3> HIDE DEF Bad
    <3> QED
      BY <1>3, <2>0, LeastNat
  <2>2. n \in 0..L /\ Q[n] # P[n]
    BY <2>1
  <2>3. n # 0
    BY <1>1, <1>2, <2>2
  <2>4. n \in 1..L /\ n - 1 \in 0..L /\ ~(n <= n - 1) /\ n \in 1..Len(more)
    BY <1>0, <2>2, <2>3
  <2>5. Q[n - 1] = P[n - 1]
    BY <2>1, <2>4
  <2>6. more[n] = ms[n]
    BY <1>0, <2>4
  <2>7. Q[n] = ExtendPlan(Q[n - 1], more[n], limit) /\ P[n] = ExtendPlan(P[n - 1], ms[n], limit)
    BY <1>1, <1>2, <2>4
  <2> QED
    BY <2>2, <2>5, <2>6, <2>7
<1>4. Bad = {}
  BY <1>3
<1> QED
  BY <1>4

\* What the user was shown stays valid when the chat grows: a message at its
\* end changes no chapter of the plan but the last one (plan_chapters,
\* chapters.py:42-73; summarize matches the ranges it is asked for with a later
\* plan, service.py:111-125).
THEOREM AppendKeepsOffers ==
  ASSUME NEW I, NEW ms \in Seq(MessageRow(I)), NEW m \in MessageRow(I), NEW limit \in Nat
  PROVE  \A i \in 1..(Len(PlanChapters(ms, limit)) - 1) :
           /\ i \in DOMAIN PlanChapters(Append(ms, m), limit)
           /\ PlanChapters(Append(ms, m), limit)[i] = PlanChapters(ms, limit)[i]
<1> PICK L, more : L = Len(ms) /\ more = Append(ms, m)
  OBVIOUS
<1>0. L \in Nat /\ more \in Seq(MessageRow(I)) /\ Len(more) = L + 1 /\ more[L + 1] = m
  OBVIOUS
<1> PICK acc, next : acc = Planning(ms, limit)[L] /\ next = Planning(more, limit)[L + 1]
  OBVIOUS
<1>1. acc \in Filling(I) /\ next \in Filling(I)
  <2>1. Planning(ms, limit) \in [0..L -> Filling(I)]
    BY PlanningIs
  <2>2. Planning(more, limit) \in [0..(L + 1) -> Filling(I)]
    BY <1>0, PlanningIs
  <2>3. L \in 0..L /\ L + 1 \in 0..(L + 1)
    BY <1>0
  <2> QED
    BY <2>1, <2>2, <2>3
<1>2. next = ExtendPlan(acc, m, limit)
  <2>1. \A n \in 1..Len(more) :
          Planning(more, limit)[n] = ExtendPlan(Planning(more, limit)[n - 1], more[n], limit)
    BY <1>0, PlanningIs
  <2>2. L + 1 \in 1..Len(more) /\ (L + 1) - 1 = L /\ L \in 0..Len(ms)
    BY <1>0
  <2>3. Planning(more, limit)[L + 1] = ExtendPlan(Planning(more, limit)[L], m, limit)
    BY <1>0, <2>1, <2>2, Zenon
  <2>4. Planning(more, limit)[L] = acc
    BY <2>2, SamePrefix
  <2> QED
    BY <2>3, <2>4
<1> PICK plan, plan2 : plan = PlanChapters(ms, limit) /\ plan2 = PlanChapters(more, limit)
  OBVIOUS
<1>3. plan = CloseChunk(acc) /\ plan2 = CloseChunk(next)
  BY <1>0 DEF PlanChapters
<1>4. PICK done, chunk : done = acc.done /\ chunk = acc.chunk
  OBVIOUS
<1>5. done \in Seq(Seq(I)) /\ chunk \in Seq(I) /\ m.id \in I
  BY <1>1, <1>4 DEF Filling, MessageRow
<1>6. plan \in Seq(Seq(I)) /\ (plan = done \/ plan = Append(done, chunk))
  BY <1>3, <1>4, <1>5 DEF CloseChunk
<1>7. plan2 = plan \/ (\E c \in Seq(I) : plan2 = Append(plan, c)) \/ (\E c \in Seq(I) : plan2 = Append(done, c))
  <2>1. CASE ~m.free
    <3>1. next.done = plan /\ next.chunk = <<>>
      BY <1>2, <1>3, <2>1 DEF ExtendPlan, EmptyPlan
    <3> QED
      BY <1>3, <3>1 DEF CloseChunk
  <2>2. CASE m.free /\ acc.chunk # <<>> /\ acc.size + m.tokens > limit
    <3>1. next.done = plan /\ next.chunk = <<m.id>>
      BY <1>2, <1>3, <2>2 DEF ExtendPlan, StartChunk
    <3>2. plan2 = Append(plan, <<m.id>>)
      BY <1>3, <3>1 DEF CloseChunk
    <3>3. PICK x \in I : x = m.id
      BY <1>5
    <3>4. <<x>> \in Seq(I)
      OBVIOUS
    <3> QED
      BY <3>2, <3>3, <3>4
  <2>3. CASE m.free /\ ~(acc.chunk # <<>> /\ acc.size + m.tokens > limit)
    <3>1. next = [acc EXCEPT !.chunk = Append(acc.chunk, m.id), !.size = acc.size + m.tokens]
      BY <1>2, <2>3 DEF ExtendPlan
    <3>2. next.done = done /\ next.chunk = Append(chunk, m.id)
      BY <1>1, <1>4, <3>1 DEF Filling
    <3>3. Append(chunk, m.id) \in Seq(I) /\ Len(Append(chunk, m.id)) = Len(chunk) + 1 /\ Len(chunk) \in Nat
      BY <1>5
    <3>4. Append(chunk, m.id) # <<>>
      BY <3>3
    <3>5. plan2 = Append(done, Append(chunk, m.id))
      BY <1>3, <3>2, <3>4 DEF CloseChunk
    <3> QED
      BY <3>3, <3>5
  <2> QED
    BY <2>1, <2>2, <2>3
<1>8. ASSUME NEW i \in 1..(Len(plan) - 1)
      PROVE  i \in DOMAIN plan2 /\ plan2[i] = plan[i]
  <2>1. Len(plan) \in Nat /\ i \in 1..Len(plan)
    BY <1>6
  <2>2. i \in 1..Len(done) /\ plan[i] = done[i]
    <3>1. CASE plan = done
      BY <2>1, <3>1
    <3>2. CASE plan = Append(done, chunk)
      <4>1. Len(plan) = Len(done) + 1 /\ Len(done) \in Nat
        BY <1>5, <3>2
      <4>2. i \in 1..Len(done)
        BY <4>1
      <4> QED
        BY <1>5, <3>2, <4>2
    <3> QED
      BY <1>6, <3>1, <3>2
  <2>3. CASE plan2 = plan
    BY <1>6, <2>1, <2>3
  <2>4. CASE \E c \in Seq(I) : plan2 = Append(plan, c)
    BY <1>6, <2>1, <2>4
  <2>5. CASE \E c \in Seq(I) : plan2 = Append(done, c)
    BY <1>5, <2>2, <2>5
  <2> QED
    BY <1>7, <2>3, <2>4, <2>5
<1> QED
  BY <1>8

\* No two messages of a chat have one id.
DistinctIds(ms) == \A j, k \in 1..Len(ms) : ms[j].id = ms[k].id => j = k

\* A sequence without its element at i has at k what was at After(i, k).
After(i, k) == IF k < i THEN k ELSE k + 1

\* RemoveAt of SequencesExt is that.
LEMMA RemoveAtIs ==
  ASSUME NEW S, NEW s \in Seq(S), NEW i \in 1..Len(s)
  PROVE  /\ RemoveAt(s, i) \in Seq(S) /\ Len(RemoveAt(s, i)) = Len(s) - 1
         /\ \A k \in 1..(Len(s) - 1) :
              After(i, k) \in 1..Len(s) /\ RemoveAt(s, i)[k] = s[After(i, k)]
<1>0. PICK a \in Seq(S), b \in Seq(S) : a = SubSeq(s, 1, i - 1) /\ b = SubSeq(s, i + 1, Len(s))
  <2>1. SubSeq(s, 1, i - 1) \in Seq(S)
    OBVIOUS
  <2>2. SubSeq(s, i + 1, Len(s)) \in Seq(S)
    OBVIOUS
  <2> QED
    BY <2>1, <2>2, Zenon
<1>1. RemoveAt(s, i) = a \o b
  BY <1>0 DEF RemoveAt
<1>2. a \in Seq(S) /\ Len(a) = i - 1 /\ \A k \in 1..(i - 1) : a[k] = s[k]
  BY <1>0
<1>3. b \in Seq(S) /\ Len(b) = Len(s) - i /\ \A k \in 1..(Len(s) - i) : b[k] = s[k + i]
  BY <1>0
<1>6. /\ a \o b \in Seq(S) /\ Len(a \o b) = Len(a) + Len(b)
      /\ \A k \in 1..Len(a) : (a \o b)[k] = a[k]
      /\ \A k \in 1..Len(b) : (a \o b)[Len(a) + k] = b[k]
  <2>1. a \in Seq(S) /\ b \in Seq(S)
    BY <1>0
  <2> QED
    BY <2>1
<1>7. i \in Nat /\ i >= 1 /\ Len(s) \in Nat /\ i <= Len(s)
  OBVIOUS
<1>4. a \o b \in Seq(S) /\ Len(a \o b) = Len(s) - 1
  <2>1. PICK n, p, q : n \in Nat /\ n = Len(s) /\ p = Len(a) /\ q = Len(b)
    BY <1>7
  <2>2. p = i - 1 /\ q = n - i
    BY <1>2, <1>3, <2>1
  <2>4. n \in Nat
    BY <2>1
  <2>3. p + q = n - 1
    BY <1>7, <2>2, <2>4
  <2> QED
    BY <1>6, <2>1, <2>3
<1>5. ASSUME NEW k \in 1..(Len(s) - 1)
      PROVE  After(i, k) \in 1..Len(s) /\ (a \o b)[k] = s[After(i, k)]
  <2>1. CASE k < i
    <3>1. k \in 1..(i - 1) /\ After(i, k) = k /\ k \in 1..Len(s)
      BY <2>1 DEF After
    <3>2. (a \o b)[k] = a[k]
      BY <1>2, <1>6, <3>1
    <3> QED
      BY <1>2, <3>1, <3>2
  <2>2. CASE ~(k < i)
    <3>1. k - (i - 1) \in 1..(Len(s) - i) /\ After(i, k) = k + 1 /\ k + 1 \in 1..Len(s)
      BY <2>2 DEF After
    <3>4. PICK h \in 1..Len(b) : h = k - (i - 1)
      BY <1>3, <3>1
    <3>5. Len(a) + h = k
      BY <1>2, <1>7, <3>4
    <3>2. (a \o b)[k] = b[k - (i - 1)]
      BY <1>6, <3>4, <3>5
    <3>3. (k - (i - 1)) + i = k + 1
      OBVIOUS
    <3> QED
      BY <1>3, <3>1, <3>2, <3>3
  <2> QED
    BY <2>1, <2>2
<1> QED
  BY <1>1, <1>4, <1>5

\* A chapter keeps its ids and its size when messages are claimed.
LEMMA ClaimedIs ==
  ASSUME NEW I, NEW ms \in Seq(MessageRow(I)), NEW chapter, NEW more, more = Claimed(ms, chapter)
  PROVE  /\ more \in Seq(MessageRow(I)) /\ Len(more) = Len(ms)
         /\ \A k \in 1..Len(ms) :
              /\ more[k].id = ms[k].id /\ more[k].tokens = ms[k].tokens
              /\ more[k].free <=> ms[k].free /\ ms[k].id \notin ToSet(chapter)
<1>1. Len(ms) \in Nat /\ DOMAIN ms = 1..Len(ms)
  OBVIOUS
<1>2. more = [k \in 1..Len(ms) |->
               IF ms[k].id \in ToSet(chapter) THEN [ms[k] EXCEPT !.free = FALSE] ELSE ms[k]]
  BY <1>1 DEF Claimed
<1>3. ASSUME NEW k \in 1..Len(ms)
      PROVE  /\ more[k] \in MessageRow(I)
             /\ more[k].id = ms[k].id /\ more[k].tokens = ms[k].tokens
             /\ more[k].free <=> ms[k].free /\ ms[k].id \notin ToSet(chapter)
  <2>1. ms[k] \in MessageRow(I)
    OBVIOUS
  <2>2. CASE ms[k].id \in ToSet(chapter)
    <3>1. more[k] = [ms[k] EXCEPT !.free = FALSE]
      BY <1>2, <2>2
    <3> QED
      BY <2>1, <2>2, <3>1 DEF MessageRow
  <2>3. CASE ms[k].id \notin ToSet(chapter)
    <3>1. more[k] = ms[k]
      BY <1>2, <2>3
    <3> QED
      BY <2>1, <2>3, <3>1
  <2> QED
    BY <2>2, <2>3
<1>4. more \in [1..Len(ms) -> MessageRow(I)]
  BY <1>2, <1>3
<1>5. more \in Seq(MessageRow(I)) /\ Len(more) = Len(ms)
  BY <1>1, <1>4
<1> QED
  BY <1>3, <1>5

\* The tokens up to a message depend on no more than the tokens.
LEMMA SameTokens ==
  ASSUME NEW I, NEW ms \in Seq(MessageRow(I)), NEW more \in Seq(MessageRow(I)), Len(more) = Len(ms),
         \A k \in 1..Len(ms) : more[k].tokens = ms[k].tokens
  PROVE  \A n \in 0..Len(ms) : TokensUpTo(more)[n] = TokensUpTo(ms)[n]
<1> PICK L, T, U : L = Len(ms) /\ T = TokensUpTo(ms) /\ U = TokensUpTo(more)
  OBVIOUS
<1>0. L \in Nat
  OBVIOUS
<1>1. T[0] = 0 /\ \A n \in 1..L : T[n] = T[n - 1] + ms[n].tokens
  <2>1. TokensUpTo(ms)[0] = 0
        /\ \A n \in 1..Len(ms) : TokensUpTo(ms)[n] = TokensUpTo(ms)[n - 1] + ms[n].tokens
    BY TokensAre
  <2> QED
    BY <2>1, Zenon
<1>2. U[0] = 0 /\ \A n \in 1..L : U[n] = U[n - 1] + more[n].tokens
  <2>1. TokensUpTo(more)[0] = 0
        /\ \A n \in 1..Len(more) : TokensUpTo(more)[n] = TokensUpTo(more)[n - 1] + more[n].tokens
    BY TokensAre
  <2> QED
    BY <2>1, Zenon
<1> DEFINE Bad == {n \in 0..L : U[n] # T[n]}
<1>3. ASSUME Bad # {}
      PROVE  FALSE
  <2>0. Bad \in SUBSET Nat
    BY <1>0
  <2>1. PICK n \in Bad : \A k \in Bad : n <= k
    <3> HIDE DEF Bad
    <3> QED
      BY <1>3, <2>0, LeastNat
  <2>2. n \in 0..L /\ U[n] # T[n]
    BY <2>1
  <2>3. n # 0
    BY <1>1, <1>2, <2>2
  <2>4. n \in 1..L /\ n - 1 \in 0..L /\ ~(n <= n - 1)
    BY <1>0, <2>2, <2>3
  <2>5. U[n - 1] = T[n - 1]
    BY <2>1, <2>4
  <2>6. more[n].tokens = ms[n].tokens
    BY <2>4
  <2>7. U[n] = U[n - 1] + more[n].tokens /\ T[n] = T[n - 1] + ms[n].tokens
    BY <1>1, <1>2, <2>4
  <2> QED
    BY <2>2, <2>5, <2>6, <2>7
<1>4. Bad = {}
  BY <1>3
<1> QED
  BY <1>4

\* What the user was shown stays valid when one of the chapters is picked:
\* claiming its messages takes it out of the plan and changes no other chapter
\* (claim_messages, summary_repository.py:63-74, under plan_chapters), so
\* several chapters of one answer of list_chapters can be summarized in turn.
THEOREM ClaimKeepsOffers ==
  ASSUME NEW I, NEW ms \in Seq(MessageRow(I)), DistinctIds(ms), NEW limit \in Nat,
         NEW i \in DOMAIN PlanChapters(ms, limit)
  PROVE  PlanChapters(Claimed(ms, PlanChapters(ms, limit)[i]), limit)
           = RemoveAt(PlanChapters(ms, limit), i)
<1> PICK plan, chapter, more, L :
      plan = PlanChapters(ms, limit) /\ chapter = plan[i] /\ more = Claimed(ms, chapter) /\ L = Len(ms)
  OBVIOUS
<1>1. PICK cuts \in Seq(Cut) : plan = Chapters(ms, cuts) /\ IsPartition(ms, cuts, limit, L)
  BY PlanIsGreedy
<1>2. PICK l : l = Len(cuts)
  OBVIOUS
<1>3. /\ L \in Nat /\ l \in Nat /\ DOMAIN cuts = 1..l /\ i \in 1..l
      /\ chapter = IdsOf(ms, cuts[i])
      /\ Len(plan) = l /\ \A k \in 1..l : plan[k] = IdsOf(ms, cuts[k])
  BY <1>1, <1>2, CutsAre, ChaptersAre
<1>4. \A k \in 1..l : cuts[k].first \in Nat /\ cuts[k].last \in Nat /\ 1 <= cuts[k].first
                      /\ cuts[k].first <= cuts[k].last /\ cuts[k].last <= L
  BY <1>1, <1>3, CutsAre DEF IsPartition, FreeMessagesOnce
<1>5. /\ more \in Seq(MessageRow(I)) /\ Len(more) = L
      /\ \A k \in 1..L : /\ more[k].id = ms[k].id /\ more[k].tokens = ms[k].tokens
                         /\ more[k].free <=> ms[k].free /\ ms[k].id \notin ToSet(chapter)
  BY ClaimedIs
<1>6. ASSUME NEW k \in 1..L
      PROVE  ms[k].id \in ToSet(chapter) <=> k \in cuts[i].first..cuts[i].last
  <2>1. PICK f \in Nat, e \in Nat : f = cuts[i].first /\ e = cuts[i].last
    BY <1>3, <1>4
  <2>2. 1 <= f /\ f <= e /\ e <= L
    BY <1>3, <1>4, <2>1
  <2>3. chapter = [h \in 1..(e - f + 1) |-> ms[f + h - 1].id]
    BY <1>3, <2>1 DEF IdsOf
  <2>4. \A x : x \in ToSet(chapter) <=> \E h \in 1..(e - f + 1) : x = ms[f + h - 1].id
    <3>1. DOMAIN chapter = 1..(e - f + 1) /\ \A h \in 1..(e - f + 1) : chapter[h] = ms[f + h - 1].id
      BY <2>3
    <3>2. ToSet(chapter) = {chapter[h] : h \in 1..(e - f + 1)}
      BY <3>1 DEF ToSet
    <3> QED
      BY <3>1, <3>2
  <2>5. ASSUME ms[k].id \in ToSet(chapter)
        PROVE  k \in f..e
    <3>1. PICK h \in 1..(e - f + 1) : ms[k].id = ms[f + h - 1].id
      BY <2>4, <2>5
    <3>2. f + h - 1 \in 1..L /\ f + h - 1 \in f..e
      BY <1>3, <2>2
    <3>3. k = f + h - 1
      BY <3>1, <3>2 DEF DistinctIds
    <3> QED
      BY <3>2, <3>3
  <2>6. ASSUME k \in f..e
        PROVE  ms[k].id \in ToSet(chapter)
    <3>1. k - f + 1 \in 1..(e - f + 1) /\ f + (k - f + 1) - 1 = k
      BY <2>6
    <3> QED
      BY <2>4, <3>1
  <2> QED
    BY <2>1, <2>5, <2>6
<1>7. PICK less : less = RemoveAt(cuts, i)
  OBVIOUS
<1>8. /\ less \in Seq(Cut) /\ Len(less) = l - 1 /\ DOMAIN less = 1..(l - 1)
      /\ \A k \in 1..(l - 1) : After(i, k) \in 1..l /\ less[k] = cuts[After(i, k)]
  <2>1. /\ RemoveAt(cuts, i) \in Seq(Cut) /\ Len(RemoveAt(cuts, i)) = Len(cuts) - 1
        /\ \A k \in 1..(Len(cuts) - 1) :
             After(i, k) \in 1..Len(cuts) /\ RemoveAt(cuts, i)[k] = cuts[After(i, k)]
    <3>1. i \in 1..Len(cuts)
      BY <1>2, <1>3
    <3> QED
      BY <3>1, RemoveAtIs, Zenon
  <2> QED
    BY <1>2, <1>7, <2>1, CutsAre
<1>9. /\ \A j, k \in 1..(l - 1) : j < k => After(i, j) < After(i, k)
      /\ \A k \in 1..(l - 1) : After(i, k) # i
      /\ \A j \in 1..l : j # i => \E k \in 1..(l - 1) : After(i, k) = j
  <2>1. ASSUME NEW j \in 1..l, j # i
        PROVE  \E k \in 1..(l - 1) : After(i, k) = j
    <3>1. CASE j < i
      <4>1. j \in 1..(l - 1) /\ After(i, j) = j
        BY <1>3, <3>1 DEF After
      <4> QED
        BY <4>1
    <3>2. CASE i < j
      <4>1. j - 1 \in 1..(l - 1) /\ After(i, j - 1) = j
        BY <1>3, <3>2 DEF After
      <4> QED
        BY <4>1
    <3> QED
      BY <1>3, <2>1, <3>1, <3>2
  <2>2. \A j, k \in 1..(l - 1) : j < k => After(i, j) < After(i, k)
    BY <1>3 DEF After
  <2>3. \A k \in 1..(l - 1) : After(i, k) # i
    BY <1>3 DEF After
  <2> QED
    BY <2>1, <2>2, <2>3
<1>10. ASSUME NEW k \in 1..l
       PROVE  SizeOf(more, cuts[k]) = SizeOf(ms, cuts[k]) /\ IdsOf(more, cuts[k]) = IdsOf(ms, cuts[k])
  <2>1. PICK f \in Nat, e \in Nat : f = cuts[k].first /\ e = cuts[k].last
    BY <1>4
  <2>2. 1 <= f /\ f <= e /\ e <= L
    BY <1>4, <2>1
  <2>3. TokensUpTo(more)[e] = TokensUpTo(ms)[e] /\ TokensUpTo(more)[f - 1] = TokensUpTo(ms)[f - 1]
    <3>1. e \in 0..Len(ms) /\ f - 1 \in 0..Len(ms)
      BY <1>3, <2>2
    <3>2. \A n \in 0..Len(ms) : TokensUpTo(more)[n] = TokensUpTo(ms)[n]
      <4>1. Len(more) = Len(ms) /\ \A h \in 1..Len(ms) : more[h].tokens = ms[h].tokens
        BY <1>5, Zenon
      <4>2. more \in Seq(MessageRow(I))
        BY <1>5, Zenon
      <4> QED
        BY <4>1, <4>2, SameTokens, Zenon
    <3> QED
      BY <3>1, <3>2
  <2>4. \A h \in 1..(e - f + 1) : more[f + h - 1].id = ms[f + h - 1].id
    <3>1. \A h \in 1..(e - f + 1) : f + h - 1 \in 1..L
      BY <1>3, <2>2
    <3>2. \A x \in 1..L : more[x].id = ms[x].id
      BY <1>5, Zenon
    <3> QED
      BY <3>1, <3>2
  <2> QED
    BY <2>1, <2>3, <2>4 DEF SizeOf, IdsOf
<1>11. FreeMessagesOnce(more, less, L)
  <2>1. ASSUME NEW k \in DOMAIN less
        PROVE  1 <= less[k].first /\ less[k].first <= less[k].last /\ less[k].last <= L
    BY <1>4, <1>8
  <2>2. ASSUME NEW j \in DOMAIN less, NEW k \in DOMAIN less, j < k
        PROVE  less[j].last < less[k].first
    <3>1. After(i, j) < After(i, k) /\ After(i, j) \in 1..l /\ After(i, k) \in 1..l
      BY <1>8, <1>9, <2>2
    <3>2. cuts[After(i, j)].last < cuts[After(i, k)].first
      BY <1>1, <1>3, <3>1 DEF IsPartition, FreeMessagesOnce
    <3> QED
      BY <1>8, <3>2
  <2>3. ASSUME NEW k \in 1..L
        PROVE  more[k].free <=> \E j \in DOMAIN less : k \in less[j].first..less[j].last
    <3>1. ms[k].free <=> \E j \in 1..l : k \in cuts[j].first..cuts[j].last
      BY <1>1, <1>3 DEF IsPartition, FreeMessagesOnce
    <3>2. more[k].free <=> ms[k].free /\ k \notin cuts[i].first..cuts[i].last
      <4>1. more[k].free <=> ms[k].free /\ ms[k].id \notin ToSet(chapter)
        BY <1>5, Zenon
      <4>2. ms[k].id \in ToSet(chapter) <=> k \in cuts[i].first..cuts[i].last
        BY <1>6
      <4> QED
        BY <4>1, <4>2
    <3>3. ASSUME NEW j \in 1..l, j # i, k \in cuts[j].first..cuts[j].last
          PROVE  k \notin cuts[i].first..cuts[i].last
      <4>1. cuts[j].last < cuts[i].first \/ cuts[i].last < cuts[j].first
        <5>1. j < i \/ i < j
          BY <1>3, <3>3
        <5> QED
          BY <1>1, <1>3, <5>1 DEF IsPartition, FreeMessagesOnce
      <4>2. PICK f \in Nat, e \in Nat, g \in Nat, h \in Nat :
              f = cuts[i].first /\ e = cuts[i].last /\ g = cuts[j].first /\ h = cuts[j].last
        BY <1>3, <1>4
      <4>3. k \in g..h /\ (h < f \/ e < g)
        BY <3>3, <4>1, <4>2
      <4>4. k \notin f..e
        BY <1>3, <4>3
      <4> QED
        BY <4>2, <4>4
    <3>4. more[k].free <=> \E j \in 1..l : j # i /\ k \in cuts[j].first..cuts[j].last
      BY <1>3, <3>1, <3>2, <3>3
    <3>5. (\E j \in 1..l : j # i /\ k \in cuts[j].first..cuts[j].last)
            <=> \E j \in 1..(l - 1) : k \in less[j].first..less[j].last
      BY <1>8, <1>9
    <3> QED
      BY <1>8, <3>4, <3>5
  <2> QED
    BY <2>1, <2>2, <2>3 DEF FreeMessagesOnce
<1>12. ChaptersFit(more, less, limit)
  <2> SUFFICES ASSUME NEW k \in 1..(l - 1)
               PROVE  SizeOf(more, less[k]) <= limit \/ less[k].first = less[k].last
    BY <1>8 DEF ChaptersFit
  <2>1. After(i, k) \in 1..l /\ less[k] = cuts[After(i, k)]
    BY <1>8
  <2> QED
    BY <1>1, <1>3, <1>10, <2>1 DEF IsPartition, ChaptersFit
<1>13. ChaptersAreFull(more, less, limit)
  <2> SUFFICES ASSUME NEW j \in 1..(l - 1), NEW k \in 1..(l - 1), less[k].first = less[j].last + 1
               PROVE  SizeOf(more, less[j]) + more[less[k].first].tokens > limit
    BY <1>8 DEF ChaptersAreFull
  <2>1. PICK a \in 1..l, b \in 1..l : less[j] = cuts[a] /\ less[k] = cuts[b]
    BY <1>8
  <2>2. SizeOf(ms, cuts[a]) + ms[cuts[b].first].tokens > limit
    BY <1>1, <1>3, <2>1 DEF IsPartition, ChaptersAreFull
  <2>3. cuts[b].first \in 1..L
    <3>1. PICK f \in Nat, e \in Nat : f = cuts[b].first /\ e = cuts[b].last
      BY <1>4
    <3>2. 1 <= f /\ f <= e /\ e <= L
      BY <1>4, <3>1
    <3>3. f \in 1..L
      BY <1>3, <3>2
    <3> QED
      BY <3>1, <3>3
  <2>4. more[cuts[b].first].tokens = ms[cuts[b].first].tokens
    <3>1. \A x \in 1..L : more[x].tokens = ms[x].tokens
      BY <1>5, Zenon
    <3> QED
      BY <2>3, <3>1
  <2> QED
    BY <1>10, <2>1, <2>2, <2>4
<1>14. PlanChapters(more, limit) = Chapters(more, less)
  <2>1. IsPartition(more, less, limit, Len(more))
    BY <1>5, <1>11, <1>12, <1>13 DEF IsPartition
  <2>2. PICK c \in Seq(Cut) :
          /\ PlanChapters(more, limit) = Chapters(more, c)
          /\ \A other \in Seq(Cut) : IsPartition(more, other, limit, Len(more)) => other = c
    BY <1>5, PlanIsGreedy
  <2>3. less = c
    BY <1>8, <2>1, <2>2
  <2> QED
    BY <2>2, <2>3
<1>15. PICK S : S = {IdsOf(ms, c) : c \in Cut}
  OBVIOUS
<1>16. plan \in Seq(S)
  <2>1. plan = [k \in 1..l |-> IdsOf(ms, cuts[k])]
    BY <1>1, <1>2, ChaptersAre
  <2>2. \A k \in 1..l : IdsOf(ms, cuts[k]) \in S
    BY <1>3, <1>15, CutsAre
  <2>3. plan \in [1..l -> S]
    BY <2>1, <2>2
  <2> QED
    BY <1>3, <2>3
<1>17. PICK rest : rest = RemoveAt(plan, i)
  OBVIOUS
<1>18. rest \in Seq(S) /\ Len(rest) = l - 1 /\ \A k \in 1..(l - 1) : rest[k] = plan[After(i, k)]
  <2>1. /\ RemoveAt(plan, i) \in Seq(S) /\ Len(RemoveAt(plan, i)) = Len(plan) - 1
        /\ \A k \in 1..(Len(plan) - 1) : RemoveAt(plan, i)[k] = plan[After(i, k)]
    BY <1>3, <1>16, RemoveAtIs
  <2> QED
    BY <1>3, <1>17, <2>1
<1>19. PICK plan2 : plan2 = Chapters(more, less)
  OBVIOUS
<1>20. plan2 = [k \in 1..(l - 1) |-> IdsOf(more, less[k])]
  BY <1>8, <1>19, ChaptersAre
<1>21. ASSUME NEW k \in 1..(l - 1)
       PROVE  plan2[k] = rest[k] /\ plan2[k] \in S
  <2>1. After(i, k) \in 1..l /\ less[k] = cuts[After(i, k)]
    BY <1>8
  <2>2. plan2[k] = IdsOf(more, less[k])
    BY <1>20
  <2>3. plan2[k] = plan[After(i, k)]
    BY <1>3, <1>10, <2>1, <2>2
  <2>4. plan2[k] = rest[k]
    BY <1>18, <2>3
  <2>5. rest[k] \in S
    BY <1>3, <1>18
  <2> QED
    BY <2>4, <2>5
<1>22. plan2 \in Seq(S) /\ Len(plan2) = l - 1
  <2>1. plan2 \in [1..(l - 1) -> S]
    BY <1>20, <1>21
  <2>2. l - 1 \in Nat
    BY <1>3
  <2> QED
    BY <2>1, <2>2
<1>23. plan2 = rest
  BY <1>18, <1>21, <1>22, SeqsEqual
<1> QED
  BY <1>14, <1>17, <1>19, <1>23
=============================================================================
