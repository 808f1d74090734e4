---------------------------- MODULE JXArrayProofs ----------------------------
(***************************************************************************)
(* Proofs about the replicated array, for any number of actors, items,     *)
(* operations and calls inside one another: what is pending is what the    *)
(* room has not sent back, what is shown is that on top of the clean       *)
(* array, and nobody raises unless somebody issued behind another.         *)
(*                                                                         *)
(* An operator that folds over a sequence is proved about by induction on  *)
(* a set of numbers: LeastOf and Upward.                                   *)
(***************************************************************************)
EXTENDS JXArray, SequenceTheorems, FiniteSetTheorems, TLAPS

\* A message of the room, and what a call of addOperation: will send.
ArrayMail == [from : Actors, op : ArrayOperations, uuid : 1..MaxChanges, localSeqNum : Nat]
Owned(a) == {m \in ArrayMail : m.from = a}
\* What the first k messages of the room make.
Made(k) == AppliedAll(<<>>, SubSeq(room, 1, k))
\* Somebody issued an operation behind another's, or a listener one inside
\* its own: RaisesOnlyWhenCrossed says nothing of what follows.
Crossed == reentered # {} \/ \E k \in DOMAIN room : IssuedBehind(k)

\* Types, and the bounds that ArrayTypeOK follows from.
ArrayTypes ==
    /\ array \in [Actors -> [state : Seq(Items), clean : Seq(Items), pending : Seq(ArrayMail)]]
    /\ calls \in [Actors -> Seq(ArrayMail)]
    /\ process \in [Actors -> {"up", "range", "unrecognized selector"}]
    /\ room \in Seq(ArrayMail)
    /\ heard \in [Actors -> Nat]
    /\ \A a \in Actors : heard[a] <= Len(room) /\ Len(calls[a]) <= MaxDepth
    /\ changes \in 0..MaxChanges
    /\ reentered \subseteq Actors

\* Every operation issued has a uuid of its own.
Numbered ==
    /\ \A j \in 1..Len(room) : room[j].uuid <= changes
    /\ \A i, j \in 1..Len(room) : room[i].uuid = room[j].uuid => i = j
    /\ \A a \in Actors : \A i \in 1..Len(calls[a]) :
          /\ calls[a][i].uuid <= changes
          /\ \A j \in 1..Len(room) : room[j].uuid # calls[a][i].uuid
    /\ \A a, b \in Actors : \A i \in 1..Len(calls[a]), j \in 1..Len(calls[b]) :
          calls[a][i].uuid = calls[b][j].uuid => a = b /\ i = j

\* Nobody dates an operation later than what he has heard.
Dated ==
    /\ \A k \in 1..Len(room) : room[k].localSeqNum <= heard[room[k].from]
    /\ \A a \in Actors : \A i \in 1..Len(calls[a]) :
          calls[a][i].from = a /\ calls[a][i].localSeqNum = heard[a]

\* PendingAsSent, and what bounds the pending operations; an exception ends a
\* process outside addOperation:.
Pendings ==
    \A a \in Actors :
        /\ Len(array[a].pending) <= Len(room)
        /\ process[a] = "up" => array[a].pending = Only(Unheard(a), Owned(a))
        /\ process[a] # "up" => calls[a] = <<>>

\* The clean array is what the messages heard make.
Cleans == \A a \in Actors : array[a].clean = Made(heard[a])

\* Without reentry at most one operation is being dispatched, and it can be
\* applied behind what is pending.
Single ==
    \A a \in Actors \ reentered :
        \/ calls[a] = <<>>
        \/ \E m \in ArrayMail :
              /\ calls[a] = <<m>>
              /\ ~OutOfRange(AppliedAll(array[a].clean, array[a].pending), m.op)

\* As long as nothing has crossed, every message can be applied where it stands.
InRange ==
    ~Crossed =>
        /\ \A a \in Actors : process[a] = "up"
        /\ \A k \in 1..Len(room) : ~OutOfRange(Made(k - 1), room[k].op)

ArrayInvariant ==
    ArrayTypes /\ Numbered /\ Dated /\ Pendings /\ Cleans /\ Single /\ InRange /\ PredictedInOrder

-----------------------------------------------------------------------------
(* Numbers.                                                                *)

\* Every set of numbers has a least one.
LEMMA LeastOf ==
    ASSUME NEW I \in SUBSET Nat, I # {}
    PROVE  \E m \in I : \A k \in I : m <= k
<1> DEFINE R == StrictSubsetOrdering(Nat)
           T == {0..n : n \in I}
<1>1. IsWellFoundedOn(R, FiniteSubsetsOf(Nat))
  BY FS_StrictSubsetOrderingWellFounded
<1>2. T \subseteq FiniteSubsetsOf(Nat) /\ T # {}
  <2>1. ASSUME NEW n \in I PROVE 0..n \in SUBSET Nat /\ IsFiniteSet(0..n)
    BY FS_Interval
  <2> QED BY <2>1 DEF FiniteSubsetsOf
<1>3. PICK x \in T : \A y \in T : ~(<<y, x>> \in R)
  <2> HIDE DEF R, T
  <2> QED BY <1>1, <1>2, WFMin, Zenon
<1>4. PICK m \in I : x = 0..m
  OBVIOUS
<1>5. ASSUME NEW k \in I, k < m PROVE FALSE
  <2>1. 0..k \in SUBSET Nat /\ x \in SUBSET Nat /\ 0..k \in T /\ 0..k \subseteq x /\ 0..k # x
    BY <1>4, <1>5
  <2> QED BY <1>3, <2>1 DEF StrictSubsetOrdering
<1> QED BY <1>4, <1>5

\* Induction up to a number, about a set of numbers.
LEMMA Upward ==
    ASSUME NEW n \in Nat, NEW P, 0 \in P, \A k \in 1..n : k - 1 \in P => k \in P
    PROVE  \A k \in 0..n : k \in P
<1> SUFFICES ASSUME ~\A k \in 0..n : k \in P PROVE FALSE
  OBVIOUS
<1> DEFINE I == {k \in 0..n : k \notin P}
<1>1. I \in SUBSET Nat /\ I # {}
  OBVIOUS
<1>2. PICK m \in I : \A k \in I : m <= k
  <2> HIDE DEF I
  <2> QED BY <1>1, LeastOf
<1>3. m \in 1..n
  BY <1>2
<1>4. m - 1 \in 0..n /\ ~(m <= m - 1)
  BY <1>3
<1>5. m - 1 \in P
  BY <1>2, <1>4
<1> QED BY <1>2, <1>3, <1>5

\* The fold of the community modules takes the greatest index first.
LEMMA MaxUpTo == ASSUME NEW n \in Nat, n # 0 PROVE Max(1..n) = n
<1>1. n \in 1..n /\ \A y \in 1..n : n >= y
  OBVIOUS
<1>2. \A x \in 1..n : (\A y \in 1..n : x >= y) => x = n
  BY <1>1
<1> QED BY <1>1, <1>2 DEF Max

-----------------------------------------------------------------------------
(* What is left of a sequence.                                             *)

\* The steps of Only.
Sifts(h, s, T) ==
    /\ h[0] = <<>>
    /\ \A k \in 1..Len(s) : h[k] = IF s[k] \in T THEN Append(h[k - 1], s[k]) ELSE h[k - 1]


\* The function on sets of indices that the fold of Only is.
SiftsSets(f, s, T, n) ==
    f = [t \in SUBSET (1..n) |->
            IF t = {} THEN <<>>
            ELSE IF s[Max(t)] \in T THEN Append(f[t \ {Max(t)}], s[Max(t)]) ELSE f[t \ {Max(t)}]]

\* A set of indices with the last one in it, and one without.
LEMMA MaxWithin ==
    ASSUME NEW n \in Nat, n # 0, NEW t \in SUBSET (1..n)
    PROVE  /\ n \in t => Max(t) = n /\ t \ {n} \in SUBSET (1..(n - 1))
           /\ n \notin t => t \in SUBSET (1..(n - 1))
<1>1. \A x \in t : x \in 1..n /\ (x = n \/ x \in 1..(n - 1))
  OBVIOUS
<1>2. ASSUME n \in t PROVE Max(t) = n
  <2>1. n \in t /\ \A y \in t : n >= y
    BY <1>1, <1>2
  <2>2. \A x \in t : (\A y \in t : x >= y) => x = n
    BY <1>1, <1>2
  <2> QED BY <2>1, <2>2 DEF Max
<1> QED BY <1>1, <1>2

\* There is such a function.
LEMMA SiftsSetsExist ==
    ASSUME NEW s, NEW T, NEW n \in Nat
    PROVE  \E f : SiftsSets(f, s, T, n)
<1> DEFINE P == {k \in Nat : \E f : SiftsSets(f, s, T, k)}
<1>1. 0 \in P
  <2> DEFINE f == [t \in SUBSET (1..0) |-> <<>>]
  <2>1. SUBSET (1..0) = {{}}
    OBVIOUS
  <2>2. SiftsSets(f, s, T, 0)
    BY <2>1 DEF SiftsSets
  <2> QED BY <2>2
<1>2. ASSUME NEW k \in 1..n, k - 1 \in P PROVE k \in P
  <2>1. PICK g : SiftsSets(g, s, T, k - 1)
    BY <1>2
  <2>2. k \in Nat /\ k # 0
    OBVIOUS
  <2> DEFINE f == [t \in SUBSET (1..k) |->
                     IF k \in t THEN IF s[k] \in T THEN Append(g[t \ {k}], s[k]) ELSE g[t \ {k}] ELSE g[t]]
             after(t) == IF t = {} THEN <<>>
                         ELSE IF s[Max(t)] \in T THEN Append(f[t \ {Max(t)}], s[Max(t)]) ELSE f[t \ {Max(t)}]
  <2>3. \A t \in SUBSET (1..(k - 1)) :
           g[t] = IF t = {} THEN <<>>
                  ELSE IF s[Max(t)] \in T THEN Append(g[t \ {Max(t)}], s[Max(t)]) ELSE g[t \ {Max(t)}]
    BY <2>1 DEF SiftsSets
  <2>4. \A t \in SUBSET (1..(k - 1)) : t \in SUBSET (1..k) /\ k \notin t
    BY <2>2
  <2>5. /\ \A t \in SUBSET (1..(k - 1)) : f[t] = g[t]
        /\ \A t \in SUBSET (1..k) : k \in t => f[t] = IF s[k] \in T THEN Append(g[t \ {k}], s[k]) ELSE g[t \ {k}]
    BY <2>4
  <2>dom. f = [t \in SUBSET (1..k) |-> f[t]]
    OBVIOUS
  <2> HIDE DEF f
  <2>6. ASSUME NEW t \in SUBSET (1..k) PROVE f[t] = after(t)
    <3>1. CASE k \in t
      <4>1. Max(t) = k /\ t \ {k} \in SUBSET (1..(k - 1)) /\ t # {}
        BY <2>2, <3>1, MaxWithin
      <4> QED BY <2>5, <3>1, <4>1
    <3>2. CASE k \notin t
      <4>1. t \in SUBSET (1..(k - 1)) /\ t \ {Max(t)} \in SUBSET (1..(k - 1))
        BY <2>2, <3>2, MaxWithin
      <4> QED BY <2>3, <2>5, <4>1
    <3> QED BY <3>1, <3>2
  <2>7. SiftsSets(f, s, T, k)
    BY <2>6, <2>dom DEF SiftsSets
  <2> QED BY <2>2, <2>7
<1> HIDE DEF P
<1>3. n \in P
  BY <1>1, <1>2, Upward
<1> QED BY <1>3 DEF P

\* Only is the last of its steps.
LEMMA OnlySteps ==
    ASSUME NEW S, NEW s \in Seq(S), NEW T
    PROVE  \E h : Sifts(h, s, T) /\ Only(s, T) = h[Len(s)]
<1> DEFINE n == Len(s)
           iter == CHOOSE f : SiftsSets(f, s, T, n)
           h == [k \in 0..n |-> iter[1..k]]
<1>1. n \in Nat /\ DOMAIN s = 1..n
  BY LenProperties
<1>2. Only(s, T) = iter[1..n]
  BY <1>1 DEF Only, FoldLeft, MapThenFoldSet, SiftsSets
<1>3. SiftsSets(iter, s, T, n)
  BY <1>1, SiftsSetsExist
<1> HIDE DEF iter, n
<1>4. \A t \in SUBSET (1..n) : iter[t] =
              IF t = {} THEN <<>>
              ELSE IF s[Max(t)] \in T THEN Append(iter[t \ {Max(t)}], s[Max(t)]) ELSE iter[t \ {Max(t)}]
  BY <1>3 DEF SiftsSets
<1>5. \A k \in 0..n : 1..k \in SUBSET (1..n)
  BY <1>1
<1>6. iter[1..0] = <<>>
  <2>1. 1..0 = {} /\ 1..0 \in SUBSET (1..n)
    BY <1>1
  <2> QED BY <1>4, <2>1
<1>7. ASSUME NEW k \in 1..n
      PROVE  iter[1..k] = IF s[k] \in T THEN Append(iter[1..(k - 1)], s[k]) ELSE iter[1..(k - 1)]
  <2>1. k \in Nat /\ k # 0 /\ k \in 0..n
    BY <1>1
  <2>e. k \in 1..k /\ 1..k # {}
    BY <2>1
  <2>2. (1..k) \ {k} = 1..(k - 1)
    BY <2>1
  <2>3. Max(1..k) = k
    BY <2>1, MaxUpTo
  <2> QED BY <1>4, <1>5, <2>1, <2>e, <2>2, <2>3
<1>8. \A k \in 0..n : h[k] = iter[1..k]
  OBVIOUS
<1> HIDE DEF h
<1>9. h[0] = <<>> /\ h[n] = iter[1..n]
  BY <1>1, <1>6, <1>8
<1>10. ASSUME NEW k \in 1..n PROVE h[k] = IF s[k] \in T THEN Append(h[k - 1], s[k]) ELSE h[k - 1]
  <2>1. k \in 0..n /\ k - 1 \in 0..n
    BY <1>1
  <2>2. h[k] = iter[1..k] /\ h[k - 1] = iter[1..(k - 1)]
    BY <1>8, <2>1
  <2> QED BY <1>7, <2>2
<1> QED BY <1>2, <1>9, <1>10 DEF Sifts, n


\* The steps are those of one sequence only, and of its beginnings.
LEMMA SiftsAlike ==
    ASSUME NEW n \in Nat, NEW s, NEW t, Len(s) \in Nat, Len(t) \in Nat, n <= Len(s), n <= Len(t),
           \A k \in 1..n : s[k] = t[k],
           NEW T, NEW h, NEW g, Sifts(h, s, T), Sifts(g, t, T)
    PROVE  h[n] = g[n]
<1> DEFINE P == {k \in 0..n : h[k] = g[k]}
<1>1. 0 \in P
  BY DEF Sifts
<1>2. ASSUME NEW k \in 1..n, k - 1 \in P PROVE k \in P
  <2>1. k \in 1..Len(s) /\ k \in 1..Len(t) /\ s[k] = t[k] /\ h[k - 1] = g[k - 1]
    BY <1>2
  <2> QED BY <2>1 DEF Sifts
<1> HIDE DEF P
<1>3. \A k \in 0..n : k \in P
  BY <1>1, <1>2, Upward
<1> QED BY <1>3 DEF P

\* Only what a sequence has of the set matters.
LEMMA OnlySame ==
    ASSUME NEW S, NEW s \in Seq(S), NEW T, NEW U, \A k \in 1..Len(s) : s[k] \in T <=> s[k] \in U
    PROVE  Only(s, T) = Only(s, U)
<1> DEFINE n == Len(s)
<1>1. n \in Nat
  OBVIOUS
<1>2. PICK h : Sifts(h, s, T) /\ Only(s, T) = h[n]
  BY OnlySteps
<1>3. PICK g : Sifts(g, s, U) /\ Only(s, U) = g[n]
  BY OnlySteps
<1>4. Sifts(g, s, T)
  BY <1>3 DEF Sifts
<1>5. n <= Len(s)
  BY <1>1
<1> HIDE DEF n
<1>6. h[n] = g[n]
  <2>1. Len(s) \in Nat
    OBVIOUS
  <2> QED BY <1>1, <1>2, <1>4, <1>5, <2>1, SiftsAlike DEF n
<1> QED BY <1>2, <1>3, <1>6

\* Nothing is left of nothing.
LEMMA OnlyEmpty == ASSUME NEW T PROVE Only(<<>>, T) = <<>>
<1>1. <<>> \in Seq({}) /\ Len(<<>>) = 0
  OBVIOUS
<1>2. PICK h : Sifts(h, <<>>, T) /\ Only(<<>>, T) = h[Len(<<>>)]
  BY <1>1, OnlySteps
<1> QED BY <1>1, <1>2 DEF Sifts

\* The last of a sequence stays behind or goes.
LEMMA OnlyAppend ==
    ASSUME NEW S, NEW s \in Seq(S), NEW x \in S, NEW T
    PROVE  Only(Append(s, x), T) = IF x \in T THEN Append(Only(s, T), x) ELSE Only(s, T)
<1> DEFINE t == Append(s, x)
           n == Len(s)
<1>1. n \in Nat /\ t \in Seq(S) /\ Len(t) = n + 1 /\ t[n + 1] = x /\ \A k \in 1..n : t[k] = s[k]
  BY AppendProperties
<1> HIDE DEF t
<1>2. PICK h : Sifts(h, s, T) /\ Only(s, T) = h[n]
  BY OnlySteps
<1>3. PICK g : Sifts(g, t, T) /\ Only(t, T) = g[n + 1]
  BY <1>1, OnlySteps
<1>4. h[n] = g[n]
  <2>1. /\ Len(s) \in Nat /\ Len(t) \in Nat /\ n <= Len(s) /\ n <= Len(t)
        /\ \A k \in 1..n : s[k] = t[k]
    BY <1>1
  <2> HIDE DEF n
  <2> QED BY <1>1, <1>2, <1>3, <2>1, SiftsAlike
<1>5. n + 1 \in 1..Len(t) /\ (n + 1) - 1 = n
  BY <1>1
<1>6. g[n + 1] = IF x \in T THEN Append(g[n], x) ELSE g[n]
  BY <1>1, <1>3, <1>5 DEF Sifts
<1> QED BY <1>2, <1>3, <1>4, <1>6 DEF t

\* What is left is of both sets, and no longer.
LEMMA OnlyTyped ==
    ASSUME NEW S, NEW s \in Seq(S), NEW T
    PROVE  /\ Only(s, T) \in Seq(S \cap T)
           /\ Len(Only(s, T)) <= Len(s)
<1> DEFINE n == Len(s)
           P == {k \in 0..n : \A h : Sifts(h, s, T) => h[k] \in Seq(S \cap T) /\ Len(h[k]) <= k}
<1>1. n \in Nat /\ \A k \in 1..n : s[k] \in S
  OBVIOUS
<1>2. 0 \in P
  <2>1. <<>> \in Seq(S \cap T) /\ Len(<<>>) = 0
    OBVIOUS
  <2>2. \A h : Sifts(h, s, T) => h[0] \in Seq(S \cap T) /\ Len(h[0]) <= 0
    BY <2>1 DEF Sifts
  <2>3. 0 \in 0..n /\ 0 <= 0
    BY <1>1
  <2> QED BY <2>1, <2>2, <2>3
<1>3. ASSUME NEW k \in 1..n, k - 1 \in P PROVE k \in P
  <2> SUFFICES ASSUME NEW h, Sifts(h, s, T) PROVE h[k] \in Seq(S \cap T) /\ Len(h[k]) <= k
    OBVIOUS
  <2>1. h[k - 1] \in Seq(S \cap T) /\ Len(h[k - 1]) <= k - 1 /\ Len(h[k - 1]) \in Nat
    BY <1>3
  <2>2. h[k] = IF s[k] \in T THEN Append(h[k - 1], s[k]) ELSE h[k - 1]
    BY DEF Sifts
  <2>3. CASE s[k] \in T
    <3>1. s[k] \in S \cap T
      BY <1>1, <2>3
    <3>2. Append(h[k - 1], s[k]) \in Seq(S \cap T) /\ Len(Append(h[k - 1], s[k])) = Len(h[k - 1]) + 1
      BY <2>1, <3>1, AppendProperties
    <3> QED BY <2>1, <2>2, <2>3, <3>2
  <2>4. CASE s[k] \notin T
    BY <2>1, <2>2, <2>4
  <2> QED BY <2>3, <2>4
<1> HIDE DEF P
<1>4. \A k \in 0..n : k \in P
  BY <1>1, <1>2, <1>3, Upward
<1>5. PICK h : Sifts(h, s, T) /\ Only(s, T) = h[n]
  BY OnlySteps
<1> QED BY <1>1, <1>4, <1>5 DEF P

\* All of a sequence is left if all of it is in the set.
LEMMA OnlyAll ==
    ASSUME NEW S, NEW s \in Seq(S), NEW T, \A k \in 1..Len(s) : s[k] \in T
    PROVE  Only(s, T) = s
<1> DEFINE n == Len(s)
           P == {k \in 0..n : \A h : Sifts(h, s, T) => h[k] = SubSeq(s, 1, k)}
<1>1. n \in Nat /\ \A k \in 1..n : s[k] \in S
  OBVIOUS
<1>2. 0 \in P
  <2>1. SubSeq(s, 1, 0) = <<>>
    OBVIOUS
  <2>2. \A h : Sifts(h, s, T) => h[0] = <<>>
    BY DEF Sifts
  <2>3. 0 \in 0..n /\ 0 <= 0
    BY <1>1
  <2> QED BY <2>1, <2>2, <2>3
<1>3. ASSUME NEW k \in 1..n, k - 1 \in P PROVE k \in P
  <2> SUFFICES ASSUME NEW h, Sifts(h, s, T) PROVE h[k] = SubSeq(s, 1, k)
    OBVIOUS
  <2>1. h[k] = Append(SubSeq(s, 1, k - 1), s[k])
    BY <1>3 DEF Sifts
  <2>2. Append(SubSeq(s, 1, k - 1), s[k]) = SubSeq(s, 1, k)
    BY <1>1
  <2> QED BY <2>1, <2>2
<1> HIDE DEF P
<1>4. \A k \in 0..n : k \in P
  BY <1>1, <1>2, <1>3, Upward
<1>5. PICK h : Sifts(h, s, T) /\ Only(s, T) = h[n]
  BY OnlySteps
<1>6. SubSeq(s, 1, n) = s
  BY <1>1
<1> QED BY <1>1, <1>4, <1>5, <1>6 DEF P

\* The first of a sequence stays in front or goes.
LEMMA OnlyFirst ==
    ASSUME NEW S, NEW s \in Seq(S), s # <<>>, NEW T
    PROVE  Only(s, T) = IF Head(s) \in T THEN <<Head(s)>> \o Only(Tail(s), T) ELSE Only(Tail(s), T)
<1> DEFINE n == Len(s)
           t == Tail(s)
           c == IF Head(s) \in T THEN <<Head(s)>> ELSE <<>>
<1>1. /\ n \in Nat /\ n > 0 /\ t \in Seq(S) /\ Len(t) = n - 1
      /\ Head(s) = s[1] /\ Head(s) \in S /\ \A k \in 1..n : s[k] \in S
      /\ \A k \in 1..(n - 1) : t[k] = s[k + 1]
  BY HeadTailProperties, EmptySeq
<1>2. c \in Seq(S)
  <2>1. <<Head(s)>> \in Seq(S) /\ <<>> \in Seq(S)
    BY <1>1
  <2> QED BY <2>1
<1> HIDE DEF t, c
<1>3. PICK h : Sifts(h, s, T) /\ Only(s, T) = h[n]
  BY OnlySteps
<1>4. PICK g : Sifts(g, t, T) /\ Only(t, T) = g[n - 1]
  BY <1>1, OnlySteps
<1> DEFINE P == {k \in 0..(n - 1) : g[k] \in Seq(S) /\ h[k + 1] = c \o g[k]}
<1>5. 0 \in P
  <2>1. h[1] = c
    <3>1. 1 \in 1..n /\ 1 - 1 = 0
      BY <1>1
    <3>2. h[1] = IF s[1] \in T THEN Append(<<>>, s[1]) ELSE <<>>
      BY <1>3, <3>1 DEF Sifts
    <3> QED BY <1>1, <3>2 DEF c
  <2>2. g[0] = <<>> /\ <<>> \in Seq(S) /\ c \o <<>> = c
    BY <1>2, <1>4 DEF Sifts
  <2>3. 0 \in 0..(n - 1) /\ 0 + 1 = 1
    BY <1>1
  <2> QED BY <2>1, <2>2, <2>3
<1>6. ASSUME NEW k \in 1..(n - 1), k - 1 \in P PROVE k \in P
  <2>1. /\ g[k - 1] \in Seq(S) /\ h[k] = c \o g[k - 1]
        /\ k \in Nat /\ k \in 1..n /\ k + 1 \in 1..n /\ (k + 1) - 1 = k /\ k \in 1..Len(t)
        /\ t[k] = s[k + 1] /\ s[k + 1] \in S
    BY <1>1, <1>6
  <2>2. g[k] = IF s[k + 1] \in T THEN Append(g[k - 1], s[k + 1]) ELSE g[k - 1]
    BY <1>4, <2>1 DEF Sifts
  <2>3. h[k + 1] = IF s[k + 1] \in T THEN Append(h[k], s[k + 1]) ELSE h[k]
    BY <1>3, <2>1 DEF Sifts
  <2>4. ASSUME NEW u \in Seq(S), NEW x \in S
        PROVE  Append(u, x) \in Seq(S) /\ Append(c \o u, x) = c \o Append(u, x)
    <3>1. <<x>> \in Seq(S)
      OBVIOUS
    <3>2. c \o u \in Seq(S)
      BY <1>2
    <3>3. Append(c \o u, x) = (c \o u) \o <<x>> /\ Append(u, x) = u \o <<x>> /\ Append(u, x) \in Seq(S)
      BY <3>2, AppendIsConcat, AppendProperties
    <3>4. (c \o u) \o <<x>> = c \o (u \o <<x>>)
      BY <1>2, <3>1, ConcatAssociative, SMTT(30)
    <3> QED BY <3>3, <3>4
  <2>5. k \in 0..(n - 1)
    BY <1>1
  <2>6. CASE s[k + 1] \in T
    BY <2>1, <2>2, <2>3, <2>4, <2>5, <2>6
  <2>7. CASE s[k + 1] \notin T
    BY <2>1, <2>2, <2>3, <2>5, <2>7
  <2> QED BY <2>6, <2>7
<1> HIDE DEF P
<1>7. n - 1 \in P
  <2>1. n - 1 \in Nat
    BY <1>1
  <2>2. \A k \in 0..(n - 1) : k \in P
    BY <1>5, <1>6, <2>1, Upward
  <2> QED BY <2>1, <2>2
<1>8. Only(s, T) = c \o Only(t, T) /\ Only(t, T) \in Seq(S)
  <2>1. (n - 1) + 1 = n
    BY <1>1
  <2> QED BY <1>3, <1>4, <1>7, <2>1 DEF P
<1>9. <<>> \o Only(t, T) = Only(t, T)
  BY <1>8
<1> QED BY <1>8, <1>9 DEF t, c


-----------------------------------------------------------------------------
(* What a sequence of operations makes of an array.                        *)

\* The steps of AppliedAll.
Applies(h, items, s) ==
    /\ h[0] = items
    /\ \A k \in 1..Len(s) : h[k] = Applied(h[k - 1], s[k].op)

AppliesSets(f, items, s, n) ==
    f = [t \in SUBSET (1..n) |-> IF t = {} THEN items ELSE Applied(f[t \ {Max(t)}], s[Max(t)].op)]

\* There is such a function.
LEMMA AppliesSetsExist ==
    ASSUME NEW items, NEW s, NEW n \in Nat
    PROVE  \E f : AppliesSets(f, items, s, n)
<1> DEFINE P == {k \in Nat : \E f : AppliesSets(f, items, s, k)}
<1>1. 0 \in P
  <2> DEFINE f == [t \in SUBSET (1..0) |-> items]
  <2>1. SUBSET (1..0) = {{}}
    OBVIOUS
  <2>2. AppliesSets(f, items, s, 0)
    BY <2>1 DEF AppliesSets
  <2> QED BY <2>2
<1>2. ASSUME NEW k \in 1..n, k - 1 \in P PROVE k \in P
  <2>1. PICK g : AppliesSets(g, items, s, k - 1)
    BY <1>2
  <2>2. k \in Nat /\ k # 0
    OBVIOUS
  <2> DEFINE f == [t \in SUBSET (1..k) |-> IF k \in t THEN Applied(g[t \ {k}], s[k].op) ELSE g[t]]
             after(t) == IF t = {} THEN items ELSE Applied(f[t \ {Max(t)}], s[Max(t)].op)
  <2>3. \A t \in SUBSET (1..(k - 1)) :
           g[t] = IF t = {} THEN items ELSE Applied(g[t \ {Max(t)}], s[Max(t)].op)
    BY <2>1 DEF AppliesSets
  <2>4. \A t \in SUBSET (1..(k - 1)) : t \in SUBSET (1..k) /\ k \notin t
    BY <2>2
  <2>5. /\ \A t \in SUBSET (1..(k - 1)) : f[t] = g[t]
        /\ \A t \in SUBSET (1..k) : k \in t => f[t] = Applied(g[t \ {k}], s[k].op)
    BY <2>4
  <2>dom. f = [t \in SUBSET (1..k) |-> f[t]]
    OBVIOUS
  <2> HIDE DEF f
  <2>6. ASSUME NEW t \in SUBSET (1..k) PROVE f[t] = after(t)
    <3>1. CASE k \in t
      <4>1. Max(t) = k /\ t \ {k} \in SUBSET (1..(k - 1)) /\ t # {}
        BY <2>2, <3>1, MaxWithin
      <4> QED BY <2>5, <3>1, <4>1
    <3>2. CASE k \notin t
      <4>1. t \in SUBSET (1..(k - 1)) /\ t \ {Max(t)} \in SUBSET (1..(k - 1))
        BY <2>2, <3>2, MaxWithin
      <4> QED BY <2>3, <2>5, <4>1
    <3> QED BY <3>1, <3>2
  <2>7. AppliesSets(f, items, s, k)
    BY <2>6, <2>dom DEF AppliesSets
  <2> QED BY <2>2, <2>7
<1> HIDE DEF P
<1>3. n \in P
  BY <1>1, <1>2, Upward
<1> QED BY <1>3 DEF P

\* AppliedAll is the last of its steps.
LEMMA AppliedSteps ==
    ASSUME NEW S, NEW s \in Seq(S), NEW items
    PROVE  \E h : Applies(h, items, s) /\ AppliedAll(items, s) = h[Len(s)]
<1> DEFINE n == Len(s)
           iter == CHOOSE f : AppliesSets(f, items, s, n)
           h == [k \in 0..n |-> iter[1..k]]
<1>1. n \in Nat /\ DOMAIN s = 1..n
  BY LenProperties
<1>2. AppliedAll(items, s) = iter[1..n]
  BY <1>1 DEF AppliedAll, FoldLeft, MapThenFoldSet, AppliesSets
<1>3. AppliesSets(iter, items, s, n)
  BY <1>1, AppliesSetsExist
<1> HIDE DEF iter, n
<1>4. \A t \in SUBSET (1..n) : iter[t] = IF t = {} THEN items ELSE Applied(iter[t \ {Max(t)}], s[Max(t)].op)
  BY <1>3 DEF AppliesSets
<1>5. \A k \in 0..n : 1..k \in SUBSET (1..n)
  BY <1>1
<1>6. iter[1..0] = items
  <2>1. 1..0 = {} /\ 1..0 \in SUBSET (1..n)
    BY <1>1
  <2> QED BY <1>4, <2>1
<1>7. ASSUME NEW k \in 1..n PROVE iter[1..k] = Applied(iter[1..(k - 1)], s[k].op)
  <2>1. k \in Nat /\ k # 0 /\ k \in 0..n
    BY <1>1
  <2>2. k \in 1..k /\ 1..k # {}
    BY <2>1
  <2>3. (1..k) \ {k} = 1..(k - 1)
    BY <2>1
  <2>4. Max(1..k) = k
    BY <2>1, MaxUpTo
  <2> QED BY <1>4, <1>5, <2>1, <2>2, <2>3, <2>4
<1>8. \A k \in 0..n : h[k] = iter[1..k]
  OBVIOUS
<1> HIDE DEF h
<1>9. h[0] = items /\ h[n] = iter[1..n]
  BY <1>1, <1>6, <1>8
<1>10. ASSUME NEW k \in 1..n PROVE h[k] = Applied(h[k - 1], s[k].op)
  <2>1. k \in 0..n /\ k - 1 \in 0..n
    BY <1>1
  <2>2. h[k] = iter[1..k] /\ h[k - 1] = iter[1..(k - 1)]
    BY <1>8, <2>1
  <2> QED BY <1>7, <2>2
<1> QED BY <1>2, <1>9, <1>10 DEF Applies, n

\* No operation changes nothing.
LEMMA AppliedNothing == ASSUME NEW items PROVE AppliedAll(items, <<>>) = items
<1>1. <<>> \in Seq({}) /\ Len(<<>>) = 0
  OBVIOUS
<1>2. PICK h : Applies(h, items, <<>>) /\ AppliedAll(items, <<>>) = h[Len(<<>>)]
  BY <1>1, AppliedSteps
<1> QED BY <1>1, <1>2 DEF Applies

\* Operations are applied to what those before them made.
LEMMA AppliedConcat ==
    ASSUME NEW S, NEW s \in Seq(S), NEW t \in Seq(S), NEW items
    PROVE  AppliedAll(items, s \o t) = AppliedAll(AppliedAll(items, s), t)
<1> DEFINE u == s \o t
           m == Len(s)
           n == Len(t)
           b == AppliedAll(items, s)
<1>1. /\ m \in Nat /\ n \in Nat /\ u \in Seq(S) /\ Len(u) = m + n
      /\ \A k \in 1..m : u[k] = s[k]
      /\ \A k \in 1..n : u[m + k] = t[k]
  OBVIOUS
<1> HIDE DEF u
<1>2. PICK h : Applies(h, items, s) /\ b = h[m]
  BY AppliedSteps
<1> HIDE DEF b
<1>3. PICK g : Applies(g, b, t) /\ AppliedAll(b, t) = g[n]
  BY AppliedSteps
<1>4. PICK f : Applies(f, items, u) /\ AppliedAll(items, u) = f[m + n]
  BY <1>1, AppliedSteps
<1> DEFINE P == {k \in 0..m : f[k] = h[k]}
           Q == {k \in 0..n : f[m + k] = g[k]}
<1>5. \A k \in 0..m : k \in P
  <2>1. 0 \in P
    BY <1>1, <1>2, <1>4 DEF Applies
  <2>2. ASSUME NEW k \in 1..m, k - 1 \in P PROVE k \in P
    <3>1. k \in 1..Len(u) /\ u[k] = s[k] /\ f[k - 1] = h[k - 1]
      BY <1>1, <2>2
    <3> QED BY <1>2, <1>4, <3>1 DEF Applies
  <2> HIDE DEF P
  <2> QED BY <1>1, <2>1, <2>2, Upward
<1>6. \A k \in 0..n : k \in Q
  <2>1. 0 \in Q
    <3>1. f[m] = h[m]
      BY <1>1, <1>5
    <3> QED BY <1>1, <1>2, <1>3, <3>1 DEF Applies
  <2>2. ASSUME NEW k \in 1..n, k - 1 \in Q PROVE k \in Q
    <3>1. m + k \in 1..Len(u) /\ u[m + k] = t[k] /\ f[m + (k - 1)] = g[k - 1] /\ (m + k) - 1 = m + (k - 1)
      BY <1>1, <2>2
    <3>2. f[m + k] = Applied(f[(m + k) - 1], u[m + k].op) /\ g[k] = Applied(g[k - 1], t[k].op)
      BY <1>3, <1>4, <3>1 DEF Applies
    <3> QED BY <3>1, <3>2
  <2> HIDE DEF Q
  <2> QED BY <1>1, <2>1, <2>2, Upward
<1>7. f[m + n] = g[n]
  BY <1>1, <1>6
<1> QED BY <1>3, <1>4, <1>7 DEF u, b

\* One operation is applied once.
LEMMA AppliedOne == ASSUME NEW items, NEW x PROVE AppliedAll(items, <<x>>) = Applied(items, x.op)
<1>1. <<x>> \in Seq({x}) /\ Len(<<x>>) = 1 /\ <<x>>[1] = x
  OBVIOUS
<1>2. PICK h : Applies(h, items, <<x>>) /\ AppliedAll(items, <<x>>) = h[1]
  BY <1>1, AppliedSteps
<1>3. 1 \in 1..Len(<<x>>) /\ 1 - 1 = 0
  BY <1>1
<1> QED BY <1>1, <1>2, <1>3 DEF Applies

\* The last operation is applied last ...
LEMMA AppliedAppend ==
    ASSUME NEW S, NEW s \in Seq(S), NEW x \in S, NEW items
    PROVE  AppliedAll(items, Append(s, x)) = Applied(AppliedAll(items, s), x.op)
<1>1. <<x>> \in Seq(S)
  OBVIOUS
<1>2. Append(s, x) = s \o <<x>>
  BY AppendIsConcat
<1>3. AppliedAll(items, s \o <<x>>) = AppliedAll(AppliedAll(items, s), <<x>>)
  BY <1>1, AppliedConcat
<1>4. \A b : AppliedAll(b, <<x>>) = Applied(b, x.op)
  BY AppliedOne
<1> QED BY <1>2, <1>3, <1>4

\* ... and the first one first.
LEMMA AppliedFirst ==
    ASSUME NEW S, NEW s \in Seq(S), NEW x \in S, NEW items
    PROVE  AppliedAll(items, <<x>> \o s) = AppliedAll(Applied(items, x.op), s)
<1>1. <<x>> \in Seq(S)
  OBVIOUS
<1>2. AppliedAll(items, <<x>> \o s) = AppliedAll(AppliedAll(items, <<x>>), s)
  BY <1>1, AppliedConcat
<1>3. AppliedAll(items, <<x>>) = Applied(items, x.op)
  BY AppliedOne
<1> QED BY <1>2, <1>3


-----------------------------------------------------------------------------
(* The beginnings and the ends of a sequence.                              *)

\* A beginning and the rest make up the whole.
LEMMA Parts ==
    ASSUME NEW S, NEW s \in Seq(S), NEW n \in Nat, n <= Len(s)
    PROVE  /\ SubSeq(s, 1, n) \in Seq(S) /\ SubSeq(s, n + 1, Len(s)) \in Seq(S)
           /\ Len(SubSeq(s, 1, n)) = n /\ Len(SubSeq(s, n + 1, Len(s))) = Len(s) - n
           /\ \A k \in 1..(Len(s) - n) : SubSeq(s, n + 1, Len(s))[k] = s[n + k]
           /\ s = SubSeq(s, 1, n) \o SubSeq(s, n + 1, Len(s))
<1> DEFINE p == SubSeq(s, 1, n)
           q == SubSeq(s, n + 1, Len(s))
<1>1. Len(s) \in Nat /\ n \in 0..Len(s)
  OBVIOUS
<1>2. p \in Seq(S) /\ Len(p) = n /\ \A k \in 1..n : p[k] = s[k]
  <2>1. \A k \in 1..n : s[k] \in S
    BY <1>1
  <2>2. 1 \in Int /\ n \in Int
    OBVIOUS
  <2> QED BY <2>1, <2>2, SubSeqProperties
<1>3. q \in Seq(S) /\ Len(q) = Len(s) - n /\ \A k \in 1..(Len(s) - n) : q[k] = s[n + k]
  <2>1. \A k \in (n + 1)..Len(s) : s[k] \in S
    BY <1>1
  <2>2. n + 1 \in Int /\ Len(s) \in Int
    BY <1>1
  <2>3. /\ q \in Seq(S)
        /\ Len(q) = IF n + 1 <= Len(s) THEN Len(s) - (n + 1) + 1 ELSE 0
        /\ \A k \in 1..(Len(s) - (n + 1) + 1) : q[k] = s[(n + 1) + k - 1]
    BY <2>1, <2>2, SubSeqProperties
  <2>4. Len(q) = Len(s) - n
    BY <1>1, <2>3
  <2>5. ASSUME NEW k \in 1..(Len(s) - n) PROVE q[k] = s[n + k]
    <3>1. k \in 1..(Len(s) - (n + 1) + 1) /\ (n + 1) + k - 1 = n + k
      BY <1>1
    <3> QED BY <2>3, <3>1
  <2> QED BY <2>3, <2>4, <2>5
<1> HIDE DEF p, q
<1>4. p \o q \in Seq(S) /\ Len(p \o q) = Len(s)
  <2>1. p \in Seq(S) /\ q \in Seq(S) /\ Len(p) + Len(q) = Len(s)
    BY <1>1, <1>2, <1>3
  <2> QED BY <2>1, ConcatProperties
<1>5. ASSUME NEW k \in 1..Len(s) PROVE (p \o q)[k] = s[k]
  <2>0. /\ p \in Seq(S) /\ q \in Seq(S)
        /\ Len(p) = n
        /\ k \in 1..(Len(p) + Len(q))
    BY <1>1, <1>2, <1>3
  <2>1. (p \o q)[k] = IF k <= n THEN p[k] ELSE q[k - n]
    BY <2>0, ConcatProperties
  <2>2. k <= n => k \in 1..n
    OBVIOUS
  <2>3. ~(k <= n) => k - n \in 1..(Len(s) - n) /\ n + (k - n) = k
    BY <1>1
  <2> QED BY <1>2, <1>3, <2>1, <2>2, <2>3
<1>6. s = p \o q
  BY <1>4, <1>5, SeqEqual
<1> QED BY <1>2, <1>3, <1>6 DEF p, q

\* The same of a sequence that has grown.
LEMMA PartsOfMore ==
    ASSUME NEW S, NEW s \in Seq(S), NEW x \in S, NEW n \in Nat, n <= Len(s)
    PROVE  /\ SubSeq(Append(s, x), 1, n) = SubSeq(s, 1, n)
           /\ SubSeq(Append(s, x), n + 1, Len(Append(s, x))) = Append(SubSeq(s, n + 1, Len(s)), x)
<1> DEFINE t == Append(s, x)
           q == SubSeq(s, n + 1, Len(s))
           r == SubSeq(t, n + 1, Len(t))
<1>1. /\ t \in Seq(S) /\ Len(t) = Len(s) + 1 /\ Len(s) \in Nat
      /\ \A k \in 1..Len(s) : t[k] = s[k]
      /\ t[Len(s) + 1] = x
  OBVIOUS
<1>2. SubSeq(Append(s, x), 1, n) = SubSeq(s, 1, n)
  OBVIOUS
<1>3. q \in Seq(S) /\ Len(q) = Len(s) - n /\ \A k \in 1..(Len(s) - n) : q[k] = s[n + k]
  BY Parts
<1>4. r \in Seq(S) /\ Len(r) = Len(t) - n /\ \A k \in 1..(Len(t) - n) : r[k] = t[n + k]
  <2> HIDE DEF t
  <2>1. n <= Len(t)
    BY <1>1
  <2> QED BY <1>1, <2>1, Parts
<1> HIDE DEF t, q, r
<1>5. /\ Append(q, x) \in Seq(S) /\ Len(Append(q, x)) = Len(q) + 1
      /\ \A k \in 1..Len(q) : Append(q, x)[k] = q[k]
      /\ Append(q, x)[Len(q) + 1] = x
  BY <1>3, AppendProperties
<1>6. Len(r) = Len(Append(q, x))
  BY <1>1, <1>3, <1>4, <1>5
<1>7. ASSUME NEW k \in 1..Len(r) PROVE r[k] = Append(q, x)[k]
  <2>1. k \in 1..(Len(t) - n) /\ k \in Nat
    BY <1>4, <1>1
  <2>2. CASE k <= Len(q)
    <3>1. k \in 1..Len(q) /\ k \in 1..(Len(s) - n) /\ n + k \in 1..Len(s)
      BY <1>1, <1>3, <2>1, <2>2
    <3> QED BY <1>1, <1>3, <1>4, <1>5, <2>1, <3>1
  <2>3. CASE ~(k <= Len(q))
    <3>1. k = Len(q) + 1 /\ n + k = Len(s) + 1
      BY <1>1, <1>3, <2>1, <2>3
    <3> QED BY <1>1, <1>4, <1>5, <2>1, <3>1
  <2> QED BY <2>2, <2>3
<1>8. r = Append(q, x)
  BY <1>4, <1>5, <1>6, <1>7, SeqEqual
<1> QED BY <1>2, <1>8 DEF t, q, r

\* The same of a beginning that has grown.
LEMMA PartsMoved ==
    ASSUME NEW S, NEW s \in Seq(S), NEW n \in Nat, n < Len(s)
    PROVE  /\ s[n + 1] \in S
           /\ SubSeq(s, 1, n + 1) = Append(SubSeq(s, 1, n), s[n + 1])
           /\ SubSeq(s, n + 1, Len(s)) = <<s[n + 1]>> \o SubSeq(s, (n + 1) + 1, Len(s))
<1>1. s[n + 1] \in S /\ n + 1 \in 1..Len(s) /\ Len(s) \in n + 1..Len(s)
  OBVIOUS
<1>2. SubSeq(s, 1, n + 1) = Append(SubSeq(s, 1, n), s[n + 1])
  OBVIOUS
<1>3. SubSeq(s, n + 1, Len(s)) = <<s[n + 1]>> \o SubSeq(s, (n + 1) + 1, Len(s))
  BY <1>1, SubSeqRecursiveFirst
<1> QED BY <1>1, <1>2, <1>3

-----------------------------------------------------------------------------
(* One operation.                                                          *)

\* The items of an operation.
LEMMA OperationFields ==
    ASSUME NEW o \in ArrayOperations
    PROVE  /\ o.type \in {"addOp", "deleteOp"} => o.item \in Items
           /\ o.type = "replaceOp" => o.item1 \in Items /\ o.item2 \in Items
BY DEF ArrayOperations

\* The first equal item has a place in the array.
LEMMA FirstFound ==
    ASSUME NEW s \in Seq(Items), NEW x \in Range(s)
    PROVE  SelectInSeq(s, LAMBDA y : y = x) \in 1..Len(s)
<1> DEFINE I == {i \in 1..Len(s) : s[i] = x}
<1>1. SelectInSeq(s, LAMBDA y : y = x) = IF I # {} THEN Min(I) ELSE 0
  BY DEF SelectInSeq
<1>2. I # {}
  <2>1. DOMAIN s = 1..Len(s)
    BY LenProperties
  <2> QED BY <2>1 DEF Range
<1>3. I \in SUBSET Nat
  OBVIOUS
<1>4. I \subseteq 1..Len(s)
  OBVIOUS
<1>5. SelectInSeq(s, LAMBDA y : y = x) = Min(I)
  BY <1>1, <1>2
<1> HIDE DEF I
<1>6. \E m \in I : \A k \in I : m <= k
  BY <1>2, <1>3, LeastOf
<1>7. Min(I) \in I
  BY <1>6 DEF Min
<1> QED BY <1>4, <1>5, <1>7

\* applyOperation: makes an array of an array.
LEMMA AppliedTyped ==
    ASSUME NEW items \in Seq(Items), NEW o \in ArrayOperations
    PROVE  Applied(items, o) \in Seq(Items)
<1>1. CASE o.type = "addOp"
  BY <1>1, OperationFields, AppendProperties DEF Applied
<1>2. CASE o.type = "deleteOp"
  <2>1. Applied(items, o) = Only(items, Items \ {o.item})
    BY <1>2 DEF Applied
  <2>2. Only(items, Items \ {o.item}) \in Seq(Items \cap (Items \ {o.item}))
    BY OnlyTyped
  <2>3. \A T \in SUBSET Items : Seq(T) \subseteq Seq(Items)
    OBVIOUS
  <2>4. Items \cap (Items \ {o.item}) \in SUBSET Items
    OBVIOUS
  <2> QED BY <2>1, <2>2, <2>3, <2>4
<1>3. CASE o.type = "replaceOp" /\ ~OutOfRange(items, o)
  <2> DEFINE i == SelectInSeq(items, LAMBDA x : x = o.item1)
  <2>1. Applied(items, o) = [items EXCEPT ![i] = o.item2]
    BY <1>3 DEF Applied, ReplaceAt
  <2>2. i \in 1..Len(items)
    BY <1>3, FirstFound DEF OutOfRange
  <2>3. o.item2 \in Items
    BY <1>3, OperationFields
  <2> HIDE DEF i
  <2> QED BY <2>1, <2>2, <2>3
<1>4. CASE o.type = "clearOp"
  BY <1>4, EmptySeq DEF Applied
<1>5. CASE o.type \notin {"addOp", "deleteOp", "clearOp"} /\ ~(o.type = "replaceOp" /\ ~OutOfRange(items, o))
  BY <1>5 DEF Applied
<1> QED BY <1>1, <1>2, <1>3, <1>4, <1>5

-----------------------------------------------------------------------------
\* What a replica has not heard.
LEMMA UnheardParts ==
    ASSUME ArrayTypes, NEW a \in Actors
    PROVE  /\ Unheard(a) \in Seq(ArrayMail) /\ Len(Unheard(a)) = Len(room) - heard[a]
           /\ \A k \in 1..Len(Unheard(a)) : heard[a] + k \in 1..Len(room) /\ Unheard(a)[k] = room[heard[a] + k]
<1>1. room \in Seq(ArrayMail) /\ heard[a] \in Nat /\ heard[a] <= Len(room)
  BY DEF ArrayTypes
<1>2. /\ Unheard(a) \in Seq(ArrayMail) /\ Len(Unheard(a)) = Len(room) - heard[a]
      /\ \A k \in 1..(Len(room) - heard[a]) : Unheard(a)[k] = room[heard[a] + k]
  BY <1>1, Parts DEF Unheard
<1>3. \A k \in 1..(Len(room) - heard[a]) : heard[a] + k \in 1..Len(room)
  BY <1>1
<1> QED BY <1>2, <1>3

\* Sent, by a set that does not change with the room.
LEMMA SentIsOwned ==
    ASSUME ArrayTypes, NEW a \in Actors
    PROVE  Sent(a) = Only(Unheard(a), Owned(a))
<1> DEFINE T == {m \in Range(room) : m.from = a}
<1>1. Unheard(a) \in Seq(ArrayMail) /\ \A k \in 1..Len(Unheard(a)) :
          heard[a] + k \in 1..Len(room) /\ Unheard(a)[k] = room[heard[a] + k]
  BY UnheardParts
<1>2. Range(room) = {room[i] : i \in 1..Len(room)} /\ room \in Seq(ArrayMail)
  <2>1. room \in Seq(ArrayMail)
    BY DEF ArrayTypes
  <2>2. DOMAIN room = 1..Len(room)
    BY <2>1, LenProperties
  <2> QED BY <2>1, <2>2 DEF Range
<1>3. \A k \in 1..Len(Unheard(a)) : Unheard(a)[k] \in T <=> Unheard(a)[k] \in Owned(a)
  <2> SUFFICES ASSUME NEW k \in 1..Len(Unheard(a)) PROVE Unheard(a)[k] \in T <=> Unheard(a)[k] \in Owned(a)
    OBVIOUS
  <2>1. Unheard(a)[k] \in Range(room) /\ Unheard(a)[k] \in ArrayMail
    BY <1>1, <1>2
  <2> QED BY <2>1 DEF Owned
<1> HIDE DEF T
<1>4. Only(Unheard(a), T) = Only(Unheard(a), Owned(a))
  BY <1>1, <1>3, OnlySame
<1> QED BY <1>4 DEF Sent, T

\* Elements of what is left of a sequence are elements of it.
LEMMA OnlyOf ==
    ASSUME NEW S, NEW s \in Seq(S), NEW T
    PROVE  /\ Only(s, T) \in Seq(S)
           /\ \A k \in 1..Len(Only(s, T)) : Only(s, T)[k] \in T /\ \E i \in 1..Len(s) : Only(s, T)[k] = s[i]
<1> DEFINE R == {s[i] : i \in 1..Len(s)}
           q == Only(s, T)
<1>1. s \in Seq(R)
  OBVIOUS
<1>2. q \in Seq(R \cap T)
  <2> HIDE DEF R
  <2> QED BY <1>1, OnlyTyped
<1>3. R \subseteq S
  OBVIOUS
<1> HIDE DEF q
<1>4. \A k \in 1..Len(q) : q[k] \in R \cap T
  <2> HIDE DEF R
  <2> QED BY <1>2
<1>5. q \in Seq(S)
  <2>1. R \cap T \subseteq S
    BY <1>3
  <2> HIDE DEF R
  <2> QED BY <1>2, <2>1, SeqMonotonic
<1> QED BY <1>4, <1>5 DEF q

-----------------------------------------------------------------------------
\* The invariant holds at first ...
LEMMA ArrayStarts == ArrayInit => ArrayInvariant
<1> SUFFICES ASSUME ArrayInit PROVE ArrayInvariant
  OBVIOUS
<1>1. ArrayTypes
  <2>1. <<>> \in Seq(Items) /\ <<>> \in Seq(ArrayMail) /\ Len(<<>>) = 0
    OBVIOUS
  <2> QED BY <2>1, ArrayAssumption DEF ArrayInit, ArrayTypes
<1>2. room = <<>> /\ Len(room) = 0 /\ reentered = {} /\ \A a \in Actors : calls[a] = <<>> /\ Len(calls[a]) = 0
  BY DEF ArrayInit
<1>3. Numbered /\ Dated /\ Single
  BY <1>2 DEF Numbered, Dated, Single
<1>4. Pendings
  <2> SUFFICES ASSUME NEW a \in Actors
               PROVE  Len(array[a].pending) <= Len(room) /\ array[a].pending = Only(Unheard(a), Owned(a)) /\ process[a] = "up"
    BY DEF Pendings
  <2>1. Len(Unheard(a)) = 0 /\ Unheard(a) \in Seq(ArrayMail)
    BY <1>1, <1>2, UnheardParts DEF ArrayInit
  <2>2. Unheard(a) = <<>>
    BY <2>1
  <2>3. array[a].pending = <<>> /\ process[a] = "up"
    BY DEF ArrayInit
  <2> QED BY <1>2, <2>2, <2>3, OnlyEmpty
<1>5. Cleans
  <2>1. SubSeq(room, 1, 0) = <<>>
    BY <1>2, SubSeqEmpty
  <2>2. \A a \in Actors : array[a].clean = <<>> /\ heard[a] = 0
    BY DEF ArrayInit
  <2>3. Made(0) = <<>>
    BY <2>1, AppliedNothing DEF Made
  <2> QED BY <2>2, <2>3 DEF Cleans
<1>6. InRange
  BY <1>2 DEF InRange, ArrayInit
<1>7. PredictedInOrder
  <2> SUFFICES ASSUME NEW a \in Actors
               PROVE  array[a].state = AppliedAll(array[a].clean, array[a].pending \o calls[a])
    BY DEF PredictedInOrder
  <2>1. array[a].state = <<>> /\ array[a].clean = <<>> /\ array[a].pending = <<>> /\ calls[a] = <<>>
    BY DEF ArrayInit
  <2>2. <<>> \o <<>> = <<>>
    BY EmptySeq, ConcatEmptySeq
  <2> QED BY <2>1, <2>2, AppliedNothing
<1> QED BY <1>1, <1>3, <1>4, <1>5, <1>6, <1>7 DEF ArrayInvariant

-----------------------------------------------------------------------------
(* The steps.                                                              *)

\* ... and when an operation is issued,
LEMMA ArrayInBegin ==
    ASSUME ArrayInvariant, NEW a \in Actors, BeginChange(a)
    PROVE  ArrayInvariant'
<1>1. PICK o \in ArrayOperations :
          /\ ~OutOfRange(array[a].state, o)
          /\ array' = [array EXCEPT ![a].state = Applied(@, o)]
          /\ calls' = [calls EXCEPT ![a] =
                Append(@, [from |-> a, op |-> o, uuid |-> changes + 1, localSeqNum |-> heard[a]])]
  BY DEF BeginChange
<1> DEFINE m == [from |-> a, op |-> o, uuid |-> changes + 1, localSeqNum |-> heard[a]]
<1>t. ArrayTypes /\ Numbered /\ Dated /\ Pendings /\ Cleans /\ Single /\ InRange /\ PredictedInOrder
  BY DEF ArrayInvariant
<1>2. /\ process[a] = "up" /\ changes < MaxChanges /\ Len(calls[a]) < MaxDepth
      /\ changes' = changes + 1
      /\ reentered' = IF calls[a] = <<>> THEN reentered ELSE reentered \cup {a}
      /\ process' = process /\ room' = room /\ heard' = heard
  BY DEF BeginChange
<1>d. changes \in Nat /\ changes + 1 \in 1..MaxChanges /\ heard[a] \in Nat
  <2>1. changes \in 0..MaxChanges /\ heard \in [Actors -> Nat]
    BY <1>t DEF ArrayTypes
  <2> QED BY <1>2, <2>1, ArrayAssumption
<1>3. m \in ArrayMail
  BY <1>d DEF ArrayMail
<1>4. m.from = a /\ m.op = o /\ m.uuid = changes + 1 /\ m.localSeqNum = heard[a]
  OBVIOUS
<1>5. calls' = [calls EXCEPT ![a] = Append(@, m)]
  BY <1>1
<1> HIDE DEF m
<1>6. /\ array[a].state \in Seq(Items) /\ array[a].clean \in Seq(Items) /\ array[a].pending \in Seq(ArrayMail)
      /\ calls[a] \in Seq(ArrayMail)
  BY <1>t DEF ArrayTypes
<1>7. Applied(array[a].state, o) \in Seq(Items)
  BY <1>6, AppliedTyped
<1>8. /\ array' \in [Actors -> [state : Seq(Items), clean : Seq(Items), pending : Seq(ArrayMail)]]
      /\ array'[a].state = Applied(array[a].state, o)
      /\ \A b \in Actors : array'[b].clean = array[b].clean /\ array'[b].pending = array[b].pending
      /\ \A b \in Actors : b # a => array'[b] = array[b]
  BY <1>t, <1>1, <1>7 DEF ArrayTypes
<1>9. /\ calls' \in [Actors -> Seq(ArrayMail)]
      /\ Len(calls'[a]) = Len(calls[a]) + 1
      /\ calls'[a] = Append(calls[a], m)
      /\ \A b \in Actors : b # a => calls'[b] = calls[b]
  <2>1. calls \in [Actors -> Seq(ArrayMail)]
    BY <1>t DEF ArrayTypes
  <2>2. Append(calls[a], m) \in Seq(ArrayMail) /\ Len(Append(calls[a], m)) = Len(calls[a]) + 1
    BY <1>3, <1>6, AppendProperties
  <2> QED BY <1>5, <2>1, <2>2
<1>10. Len(calls[a]) \in Nat /\ \A i \in 1..Len(calls'[a]) :
          IF i = Len(calls[a]) + 1 THEN calls'[a][i] = m ELSE i \in 1..Len(calls[a]) /\ calls'[a][i] = calls[a][i]
  BY <1>3, <1>6, <1>9, AppendProperties
<1>11. ArrayTypes'
  <2>1. \A b \in Actors : heard'[b] <= Len(room') /\ Len(calls'[b]) <= MaxDepth
    <3>1. Len(calls'[a]) <= MaxDepth
      BY <1>2, <1>9, <1>10, ArrayAssumption
    <3> QED BY <1>t, <1>2, <1>9, <3>1 DEF ArrayTypes
  <2>2. changes' \in 0..MaxChanges
    BY <1>2, <1>d
  <2>3. reentered' \subseteq Actors
    BY <1>t, <1>2 DEF ArrayTypes
  <2> QED BY <1>t, <1>2, <1>8, <1>9, <2>1, <2>2, <2>3 DEF ArrayTypes
<1>12. Numbered'
  <2>1. changes \in Nat
    BY <1>d
  <2>m. \A n \in ArrayMail : n.uuid \in Nat
    BY DEF ArrayMail
  <2>2. \A j \in 1..Len(room) : room[j].uuid \in Nat /\ room[j].uuid <= changes /\ room[j].uuid # m.uuid
    <3>0. room \in Seq(ArrayMail)
      BY <1>t DEF ArrayTypes
    <3>1. \A j \in 1..Len(room) : room[j] \in ArrayMail
      BY <3>0
    <3>2. \A j \in 1..Len(room) : room[j].uuid <= changes
      BY <1>t DEF Numbered
    <3> QED BY <1>4, <2>1, <2>m, <3>1, <3>2
  <2>3. \A b \in Actors : \A i \in 1..Len(calls[b]) :
            calls[b][i].uuid \in Nat /\ calls[b][i].uuid <= changes /\ calls[b][i].uuid # m.uuid
    <3> SUFFICES ASSUME NEW b \in Actors, NEW i \in 1..Len(calls[b])
                 PROVE  calls[b][i].uuid \in Nat /\ calls[b][i].uuid <= changes /\ calls[b][i].uuid # m.uuid
      OBVIOUS
    <3>0. calls[b] \in Seq(ArrayMail)
      BY <1>t DEF ArrayTypes
    <3>1. calls[b][i] \in ArrayMail
      BY <3>0
    <3>2. calls[b][i].uuid <= changes
      BY <1>t DEF Numbered
    <3> QED BY <1>4, <2>1, <2>m, <3>1, <3>2
  <2>4. \A b \in Actors : \A i \in 1..Len(calls'[b]) :
            \/ b = a /\ i = Len(calls[a]) + 1 /\ calls'[b][i] = m
            \/ i \in 1..Len(calls[b]) /\ calls'[b][i] = calls[b][i]
    BY <1>9, <1>10
  <2>5. \A j \in 1..Len(room') : room'[j].uuid <= changes'
    BY <1>2, <2>1, <2>2
  <2>6. ASSUME NEW b \in Actors, NEW i \in 1..Len(calls'[b])
        PROVE  calls'[b][i].uuid <= changes' /\ \A j \in 1..Len(room') : room'[j].uuid # calls'[b][i].uuid
    BY <1>t, <1>2, <1>4, <2>1, <2>2, <2>3, <2>4, SMTT(30) DEF Numbered
  <2>7. ASSUME NEW b \in Actors, NEW c \in Actors, NEW i \in 1..Len(calls'[b]), NEW j \in 1..Len(calls'[c]),
               calls'[b][i].uuid = calls'[c][j].uuid
        PROVE  b = c /\ i = j
    <3>1. \A d, e \in Actors : \A k \in 1..Len(calls[d]), l \in 1..Len(calls[e]) :
              calls[d][k].uuid = calls[e][l].uuid => d = e /\ k = l
      BY <1>t DEF Numbered
    <3>2. CASE b = a /\ i = Len(calls[a]) + 1 /\ calls'[b][i] = m
      <4>1. ~(j \in 1..Len(calls[c]) /\ calls'[c][j] = calls[c][j])
        BY <2>3, <2>7, <3>2
      <4>2. c = a /\ j = Len(calls[a]) + 1
        BY <2>4, <4>1
      <4> QED BY <3>2, <4>2
    <3>3. CASE i \in 1..Len(calls[b]) /\ calls'[b][i] = calls[b][i]
      <4>1. ~(c = a /\ j = Len(calls[a]) + 1 /\ calls'[c][j] = m)
        BY <2>3, <2>7, <3>3
      <4>2. j \in 1..Len(calls[c]) /\ calls'[c][j] = calls[c][j]
        BY <2>4, <4>1
      <4> QED BY <2>7, <3>1, <3>3, <4>2
    <3> QED BY <2>4, <3>2, <3>3
  <2>8. \A i, j \in 1..Len(room') : room'[i].uuid = room'[j].uuid => i = j
    BY <1>t, <1>2 DEF Numbered
  <2> QED BY <2>5, <2>6, <2>7, <2>8 DEF Numbered
<1>13. Dated'
  <2>1. \A b \in Actors : \A i \in 1..Len(calls'[b]) : calls'[b][i].from = b /\ calls'[b][i].localSeqNum = heard'[b]
    <3> SUFFICES ASSUME NEW b \in Actors, NEW i \in 1..Len(calls'[b])
                 PROVE  calls'[b][i].from = b /\ calls'[b][i].localSeqNum = heard[b]
      BY <1>2
    <3>1. \A j \in 1..Len(calls[b]) : calls[b][j].from = b /\ calls[b][j].localSeqNum = heard[b]
      BY <1>t DEF Dated
    <3>2. CASE b # a
      BY <1>9, <3>1, <3>2
    <3>3. CASE b = a
      BY <1>4, <1>10, <3>1, <3>3
    <3> QED BY <3>2, <3>3
  <2> QED BY <1>t, <1>2, <2>1 DEF Dated
<1>14. \A b \in Actors : Unheard(b)' = Unheard(b)
  BY <1>2 DEF Unheard
<1>15. Pendings'
  BY <1>t, <1>2, <1>8, <1>9, <1>14 DEF Pendings
<1>16. \A k : Made(k)' = Made(k)
  BY <1>2 DEF Made
<1>17. Cleans'
  BY <1>t, <1>2, <1>8, <1>16 DEF Cleans
<1>18. a \notin reentered' => calls[a] = <<>> /\ a \notin reentered
  BY <1>2
<1>19. a \notin reentered' => array[a].state = AppliedAll(array[a].clean, array[a].pending)
  <2>1. array[a].pending \o <<>> = array[a].pending
    BY <1>6, ConcatEmptySeq
  <2> QED BY <1>t, <1>2, <1>18, <2>1 DEF PredictedInOrder
<1>20. \A b \in Actors : b # a => (b \in reentered' <=> b \in reentered)
  BY <1>2
<1>21. Single'
  <2> SUFFICES ASSUME NEW b \in Actors, b \notin reentered'
               PROVE  \/ calls'[b] = <<>>
                      \/ \E n \in ArrayMail :
                            /\ calls'[b] = <<n>>
                            /\ ~OutOfRange(AppliedAll(array'[b].clean, array'[b].pending), n.op)
    BY DEF Single
  <2>1. CASE b # a
    BY <1>t, <1>8, <1>9, <1>20, <2>1 DEF Single
  <2>2. CASE b = a
    <3>0. Append(<<>>, m) = <<m>>
      OBVIOUS
    <3>1. calls'[a] = <<m>>
      BY <1>9, <1>18, <2>2, <3>0
    <3>2. ~OutOfRange(AppliedAll(array'[a].clean, array'[a].pending), m.op)
      BY <1>1, <1>4, <1>8, <1>19, <2>2
    <3> QED BY <1>3, <2>2, <3>1, <3>2
  <2> QED BY <2>1, <2>2
<1>22. InRange'
  <2>1. \A k : IssuedBehind(k)' = IssuedBehind(k)
    BY <1>2 DEF IssuedBehind
  <2>2. Crossed => Crossed'
    BY <1>2, <2>1 DEF Crossed
  <2> QED BY <1>t, <1>2, <1>16, <2>2 DEF InRange
<1>23. PredictedInOrder'
  <2> SUFFICES ASSUME NEW b \in Actors, b \notin reentered', process'[b] = "up"
               PROVE  array'[b].state = AppliedAll(array'[b].clean, array'[b].pending \o calls'[b])
    BY DEF PredictedInOrder
  <2>1. CASE b # a
    BY <1>t, <1>2, <1>8, <1>9, <1>20, <2>1 DEF PredictedInOrder
  <2>2. CASE b = a
    <3>0. Append(<<>>, m) = <<m>>
      OBVIOUS
    <3>1. calls'[a] = <<m>>
      BY <1>9, <1>18, <2>2, <3>0
    <3>2. array[a].pending \o <<m>> = Append(array[a].pending, m)
      BY <1>3, <1>6, AppendIsConcat
    <3>3. AppliedAll(array[a].clean, Append(array[a].pending, m)) = Applied(AppliedAll(array[a].clean, array[a].pending), m.op)
      BY <1>3, <1>6, AppliedAppend
    <3> QED BY <1>4, <1>8, <1>19, <2>2, <3>1, <3>2, <3>3
  <2> QED BY <2>1, <2>2
<1> QED BY <1>11, <1>12, <1>13, <1>15, <1>17, <1>21, <1>22, <1>23 DEF ArrayInvariant

\* ... when it is sent: if it is behind nobody's, all that its sender has not
\* heard is his own, so that what it sees is what the whole room makes,
LEMMA ArrayInEnd ==
    ASSUME ArrayInvariant, NEW a \in Actors, EndChange(a)
    PROVE  ArrayInvariant'
<1> DEFINE n == Len(calls[a])
           m == calls[a][n]
<1>t. ArrayTypes /\ Numbered /\ Dated /\ Pendings /\ Cleans /\ Single /\ InRange /\ PredictedInOrder
  BY DEF ArrayInvariant
<1>1. /\ array[a].state \in Seq(Items) /\ array[a].clean \in Seq(Items) /\ array[a].pending \in Seq(ArrayMail)
      /\ calls \in [Actors -> Seq(ArrayMail)] /\ calls[a] \in Seq(ArrayMail) /\ calls[a] # <<>> /\ room \in Seq(ArrayMail)
      /\ heard \in [Actors -> Nat] /\ \A b \in Actors : heard[b] <= Len(room)
  BY <1>t DEF ArrayTypes, EndChange
<1>2. n \in Nat /\ n \in 1..n /\ m \in ArrayMail
  BY <1>1
<1>3. Last(calls[a]) = m /\ Front(calls[a]) = SubSeq(calls[a], 1, n - 1)
  BY DEF Last, Front
<1> HIDE DEF n, m
<1>4. /\ array' = [array EXCEPT ![a].pending = Append(@, m)]
      /\ room' = Append(room, m)
      /\ calls' = [calls EXCEPT ![a] = SubSeq(calls[a], 1, n - 1)]
      /\ process' = process /\ heard' = heard /\ changes' = changes /\ reentered' = reentered
  BY <1>3 DEF EndChange
<1>5. /\ SubSeq(calls[a], 1, n - 1) \in Seq(ArrayMail) /\ Len(SubSeq(calls[a], 1, n - 1)) = n - 1
      /\ \A i \in 1..(n - 1) : SubSeq(calls[a], 1, n - 1)[i] = calls[a][i]
  <2>1. n - 1 \in Nat /\ n - 1 <= Len(calls[a]) /\ \A i \in 1..(n - 1) : calls[a][i] \in ArrayMail
    BY <1>1, <1>2 DEF n
  <2> QED BY <1>1, <2>1, SubSeqProperties
<1>6. /\ calls' \in [Actors -> Seq(ArrayMail)] /\ calls'[a] = SubSeq(calls[a], 1, n - 1)
      /\ Len(calls'[a]) = n - 1
      /\ \A i \in 1..(n - 1) : calls'[a][i] = calls[a][i]
      /\ \A b \in Actors : b # a => calls'[b] = calls[b]
  BY <1>1, <1>4, <1>5
<1>7. Append(array[a].pending, m) \in Seq(ArrayMail) /\ Len(Append(array[a].pending, m)) = Len(array[a].pending) + 1
  BY <1>1, <1>2, AppendProperties
<1>8. /\ array' \in [Actors -> [state : Seq(Items), clean : Seq(Items), pending : Seq(ArrayMail)]]
      /\ array'[a].pending = Append(array[a].pending, m)
      /\ \A b \in Actors : array'[b].clean = array[b].clean /\ array'[b].state = array[b].state
      /\ \A b \in Actors : b # a => array'[b] = array[b]
  BY <1>t, <1>4, <1>7 DEF ArrayTypes
<1>9. /\ room' \in Seq(ArrayMail) /\ Len(room') = Len(room) + 1 /\ Len(room) \in Nat
      /\ \A k \in 1..Len(room) : room'[k] = room[k]
      /\ room'[Len(room) + 1] = m
  BY <1>1, <1>2, <1>4, AppendProperties
<1>10. m.from = a /\ m.localSeqNum = heard[a] /\ m.uuid <= changes
       /\ \A j \in 1..Len(room) : room[j].uuid # m.uuid
  BY <1>t, <1>2 DEF Dated, Numbered, m, n
<1>11. process[a] = "up"
  BY <1>t, <1>1 DEF Pendings
<1>12. ArrayTypes'
  <2>1. \A b \in Actors : heard'[b] <= Len(room') /\ Len(calls'[b]) <= MaxDepth
    <3>1. \A b \in Actors : heard'[b] <= Len(room')
      BY <1>1, <1>4, <1>9
    <3>2. n <= MaxDepth
      BY <1>t DEF ArrayTypes, n
    <3>3. Len(calls'[a]) <= MaxDepth
      BY <1>2, <1>6, <3>2, ArrayAssumption
    <3>4. \A b \in Actors : b # a => Len(calls'[b]) <= MaxDepth
      BY <1>t, <1>6 DEF ArrayTypes
    <3> QED BY <3>1, <3>3, <3>4
  <2> QED BY <1>t, <1>4, <1>6, <1>8, <1>9, <2>1 DEF ArrayTypes
<1>13. \A b \in Actors : \A i \in 1..Len(calls'[b]) :
            i \in 1..Len(calls[b]) /\ calls'[b][i] = calls[b][i] /\ ~(b = a /\ i = n)
  <2> SUFFICES ASSUME NEW b \in Actors, NEW i \in 1..Len(calls'[b])
               PROVE  i \in 1..Len(calls[b]) /\ calls'[b][i] = calls[b][i] /\ ~(b = a /\ i = n)
    OBVIOUS
  <2>1. CASE b = a
    BY <1>2, <1>6, <2>1 DEF n
  <2>2. CASE b # a
    BY <1>6, <2>2
  <2> QED BY <2>1, <2>2
<1>14. \A k \in 1..Len(room') : (k \in 1..Len(room) /\ room'[k] = room[k]) \/ (k = Len(room) + 1 /\ room'[k] = m)
  <2> SUFFICES ASSUME NEW k \in 1..Len(room')
               PROVE  (k \in 1..Len(room) /\ room'[k] = room[k]) \/ (k = Len(room) + 1 /\ room'[k] = m)
    OBVIOUS
  <2>1. k \in 1..Len(room) \/ k = Len(room) + 1
    BY <1>9
  <2>2. CASE k \in 1..Len(room)
    <3>1. \A j \in 1..Len(room) : room'[j] = room[j]
      BY <1>9
    <3> QED BY <2>2, <3>1
  <2>3. CASE k = Len(room) + 1
    BY <1>9, <2>3
  <2> QED BY <2>1, <2>2, <2>3
<1>15. Numbered'
  <2>1. \A j \in 1..Len(room') : room'[j].uuid <= changes'
    BY <1>t, <1>4, <1>10, <1>14 DEF Numbered
  <2>2. \A i, j \in 1..Len(room') : room'[i].uuid = room'[j].uuid => i = j
    BY <1>t, <1>10, <1>14 DEF Numbered
  <2>3. ASSUME NEW b \in Actors, NEW i \in 1..Len(calls'[b])
        PROVE  calls'[b][i].uuid <= changes' /\ \A j \in 1..Len(room') : room'[j].uuid # calls'[b][i].uuid
    <3>1. i \in 1..Len(calls[b]) /\ calls'[b][i] = calls[b][i] /\ ~(b = a /\ i = n)
      BY <1>13
    <3>2. calls[b][i].uuid # m.uuid
      BY <1>t, <1>2, <3>1 DEF Numbered, m, n
    <3>3. calls[b][i].uuid <= changes /\ \A j \in 1..Len(room) : room[j].uuid # calls[b][i].uuid
      BY <1>t, <3>1 DEF Numbered
    <3> QED BY <1>4, <1>14, <3>1, <3>2, <3>3
  <2>4. ASSUME NEW b \in Actors, NEW c \in Actors, NEW i \in 1..Len(calls'[b]), NEW j \in 1..Len(calls'[c]),
               calls'[b][i].uuid = calls'[c][j].uuid
        PROVE  b = c /\ i = j
    <3>1. i \in 1..Len(calls[b]) /\ calls'[b][i] = calls[b][i] /\ j \in 1..Len(calls[c]) /\ calls'[c][j] = calls[c][j]
      BY <1>13
    <3>2. \A d, e \in Actors : \A k \in 1..Len(calls[d]), l \in 1..Len(calls[e]) :
              calls[d][k].uuid = calls[e][l].uuid => d = e /\ k = l
      BY <1>t DEF Numbered
    <3> QED BY <2>4, <3>1, <3>2
  <2> QED BY <2>1, <2>2, <2>3, <2>4 DEF Numbered
<1>16. Dated'
  <2>1. \A b \in Actors : heard[b] <= heard[b]
    BY <1>1
  <2>2. \A k \in 1..Len(room') : room'[k].localSeqNum <= heard'[room'[k].from]
    BY <1>t, <1>4, <1>10, <1>14, <2>1 DEF Dated
  <2>3. \A b \in Actors : \A i \in 1..Len(calls'[b]) : calls'[b][i].from = b /\ calls'[b][i].localSeqNum = heard'[b]
    <3> SUFFICES ASSUME NEW b \in Actors, NEW i \in 1..Len(calls'[b])
                 PROVE  calls'[b][i].from = b /\ calls'[b][i].localSeqNum = heard[b]
      BY <1>4
    <3>1. i \in 1..Len(calls[b]) /\ calls'[b][i] = calls[b][i]
      BY <1>13
    <3>2. \A j \in 1..Len(calls[b]) : calls[b][j].from = b /\ calls[b][j].localSeqNum = heard[b]
      BY <1>t DEF Dated
    <3> QED BY <3>1, <3>2
  <2> QED BY <2>2, <2>3 DEF Dated
<1>17. \A b \in Actors : Unheard(b) \in Seq(ArrayMail) /\ Unheard(b)' = Append(Unheard(b), m)
  BY <1>t, <1>1, <1>2, <1>4, PartsOfMore, UnheardParts DEF Unheard
<1>18. \A b \in Actors : Only(Unheard(b)', Owned(b)) =
            IF b = a THEN Append(Only(Unheard(b), Owned(b)), m) ELSE Only(Unheard(b), Owned(b))
  <2> SUFFICES ASSUME NEW b \in Actors
               PROVE  Only(Append(Unheard(b), m), Owned(b)) =
                          IF b = a THEN Append(Only(Unheard(b), Owned(b)), m) ELSE Only(Unheard(b), Owned(b))
    BY <1>17
  <2>1. m \in Owned(b) <=> b = a
    BY <1>2, <1>10 DEF Owned
  <2> QED BY <1>2, <1>17, <2>1, OnlyAppend
<1>19. Pendings'
  <2> SUFFICES ASSUME NEW b \in Actors
               PROVE  /\ Len(array'[b].pending) <= Len(room')
                      /\ process'[b] = "up" => array'[b].pending = Only(Unheard(b)', Owned(b))
                      /\ process'[b] # "up" => calls'[b] = <<>>
    BY DEF Pendings, Owned
  <2>1. Len(array'[b].pending) <= Len(room')
    <3>1. array[b].pending \in Seq(ArrayMail) /\ Len(array[b].pending) <= Len(room)
      BY <1>t DEF ArrayTypes, Pendings
    <3> QED BY <1>7, <1>8, <1>9, <3>1, SMTT(30)
  <2>2. CASE b = a
    BY <1>t, <1>4, <1>8, <1>11, <1>18, <2>1, <2>2 DEF Pendings
  <2>3. CASE b # a
    BY <1>t, <1>4, <1>6, <1>8, <1>18, <2>1, <2>3 DEF Pendings
  <2> QED BY <2>2, <2>3
<1>20. \A k \in Nat : k <= Len(room) => Made(k)' = Made(k)
  BY <1>1, <1>2, <1>4, PartsOfMore DEF Made
<1>21. Cleans'
  BY <1>t, <1>1, <1>4, <1>8, <1>20 DEF Cleans
<1>22. a \notin reentered => calls[a] = <<m>> /\ calls'[a] = <<>> /\ ~OutOfRange(AppliedAll(array[a].clean, array[a].pending), m.op)
  <2> SUFFICES ASSUME a \notin reentered PROVE calls[a] = <<m>> /\ calls'[a] = <<>> /\ ~OutOfRange(AppliedAll(array[a].clean, array[a].pending), m.op)
    OBVIOUS
  <2>1. PICK x \in ArrayMail : calls[a] = <<x>> /\ ~OutOfRange(AppliedAll(array[a].clean, array[a].pending), x.op)
    BY <1>t, <1>1 DEF Single
  <2>2. n = 1 /\ m = x
    BY <2>1 DEF n, m
  <2>3. calls'[a] = <<>>
    <3>1. Len(calls'[a]) = 0 /\ calls'[a] \in Seq(ArrayMail)
      BY <1>6, <2>2
    <3> QED BY <3>1
  <2> QED BY <2>1, <2>2, <2>3
<1>23. Single'
  BY <1>t, <1>4, <1>6, <1>8, <1>22 DEF Single
<1>24. InRange'
  <2> SUFFICES ASSUME ~Crossed'
               PROVE  /\ \A b \in Actors : process'[b] = "up"
                      /\ \A k \in 1..Len(room') : ~OutOfRange(Made(k - 1)', room'[k].op)
    BY DEF InRange
  <2>0. DOMAIN room = 1..Len(room) /\ DOMAIN room' = 1..Len(room')
    BY <1>1, <1>9, LenProperties
  <2>L. PICK L \in Nat : L = Len(room)
    BY <1>9
  <2>1. reentered = {} /\ \A k \in 1..Len(room') : ~IssuedBehind(k)'
    BY <1>4, <2>0 DEF Crossed
  <2>2. \A k \in 1..Len(room) : ~IssuedBehind(k)
    <3> SUFFICES ASSUME NEW k \in 1..Len(room), NEW j \in (room[k].localSeqNum + 1)..(k - 1), room[j].from # room[k].from
                 PROVE  FALSE
      BY DEF IssuedBehind
    <3>1. room[k].localSeqNum \in Nat
      <4>1. room[k] \in ArrayMail
        BY <1>1
      <4> QED BY <4>1 DEF ArrayMail
    <3>2. k \in 1..Len(room') /\ j \in 1..Len(room)
      BY <1>9, <3>1
    <3>3. room'[k] = room[k] /\ room'[j] = room[j]
      BY <1>9, <3>2
    <3>4. IssuedBehind(k)'
      BY <3>3 DEF IssuedBehind
    <3> QED BY <2>1, <3>2, <3>4
  <2>3. ~Crossed
    BY <2>0, <2>1, <2>2 DEF Crossed
  <2>4. \A b \in Actors : process[b] = "up"
    BY <1>t, <2>3 DEF InRange
  <2>5. \A k \in 1..Len(room) : ~OutOfRange(Made(k - 1), room[k].op)
    BY <1>t, <2>3 DEF InRange
  <2>6. \A k \in 1..Len(room) : ~OutOfRange(Made(k - 1)', room'[k].op)
    <3> SUFFICES ASSUME NEW k \in 1..Len(room) PROVE ~OutOfRange(Made(k - 1)', room'[k].op)
      OBVIOUS
    <3>1. k - 1 \in Nat /\ k - 1 <= Len(room)
      BY <1>9
    <3> QED BY <1>9, <1>20, <2>5, <3>1
  <2>7. ~OutOfRange(Made(Len(room)), m.op)
    <3>1. \A k \in 1..Len(Unheard(a)) : Unheard(a)[k] \in Owned(a)
      <4> SUFFICES ASSUME NEW k \in 1..Len(Unheard(a)) PROVE Unheard(a)[k] \in Owned(a)
        OBVIOUS
      <4>1. heard[a] + k \in 1..Len(room) /\ Unheard(a)[k] = room[heard[a] + k] /\ room[heard[a] + k] \in ArrayMail
        BY <1>t, <1>1, UnheardParts
      <4>2. ~IssuedBehind(L + 1)' /\ room'[L + 1] = m
        <5>1. L + 1 \in 1..Len(room')
          BY <1>9, <2>L
        <5> QED BY <1>9, <2>1, <2>L, <5>1
      <4>3. heard[a] + k \in (m.localSeqNum + 1)..((L + 1) - 1)
        BY <1>1, <1>10, <2>L, <4>1
      <4>4. room'[heard[a] + k].from = m.from
        BY <4>2, <4>3 DEF IssuedBehind
      <4>5. room[heard[a] + k].from = a
        BY <1>9, <1>10, <4>1, <4>4
      <4> QED BY <4>1, <4>5 DEF Owned
    <3>2. Unheard(a) \in Seq(ArrayMail)
      BY <1>17
    <3>3. array[a].pending = Unheard(a)
      BY <1>t, <1>11, <3>1, <3>2, OnlyAll DEF Pendings
    <3>4. array[a].clean = AppliedAll(<<>>, SubSeq(room, 1, heard[a]))
      BY <1>t DEF Cleans, Made
    <3>5. /\ SubSeq(room, 1, heard[a]) \in Seq(ArrayMail) /\ room = SubSeq(room, 1, heard[a]) \o Unheard(a)
      BY <1>1, Parts DEF Unheard
    <3>6. AppliedAll(<<>>, SubSeq(room, 1, heard[a]) \o Unheard(a)) = AppliedAll(AppliedAll(<<>>, SubSeq(room, 1, heard[a])), Unheard(a))
      BY <3>2, <3>5, AppliedConcat
    <3>7. SubSeq(room, 1, Len(room)) = room
      BY <1>1, SubSeqFull
    <3>8. Made(Len(room)) = AppliedAll(array[a].clean, array[a].pending)
      BY <3>3, <3>4, <3>5, <3>6, <3>7 DEF Made
    <3> QED BY <1>22, <2>1, <3>8
  <2>8. Made((L + 1) - 1)' = Made(L)
    <3>1. (L + 1) - 1 = L /\ L <= Len(room)
      BY <2>L
    <3> QED BY <1>20, <3>1
  <2>9. ASSUME NEW k \in 1..Len(room') PROVE ~OutOfRange(Made(k - 1)', room'[k].op)
    <3>1. CASE k \in 1..Len(room)
      BY <2>6, <3>1
    <3>2. CASE k = Len(room) + 1
      <4>1. k = L + 1 /\ room'[k] = m
        BY <1>9, <2>L, <3>2
      <4> QED BY <2>7, <2>8, <2>L, <4>1
    <3> QED BY <1>14, <3>1, <3>2
  <2> QED BY <1>4, <2>4, <2>9
<1>25. PredictedInOrder'
  <2> SUFFICES ASSUME NEW b \in Actors, b \notin reentered, process[b] = "up"
               PROVE  array'[b].state = AppliedAll(array'[b].clean, array'[b].pending \o calls'[b])
    BY <1>4 DEF PredictedInOrder
  <2>1. array[b].state = AppliedAll(array[b].clean, array[b].pending \o calls[b])
    BY <1>t DEF PredictedInOrder
  <2>2. CASE b # a
    BY <1>6, <1>8, <2>1, <2>2
  <2>3. CASE b = a
    <3>1. calls[a] = <<m>> /\ calls'[a] = <<>>
      BY <1>22, <2>3
    <3>2. array[a].pending \o <<m>> = Append(array[a].pending, m)
      BY <1>1, <1>2, AppendIsConcat
    <3>3. Append(array[a].pending, m) \o <<>> = Append(array[a].pending, m)
      BY <1>7, ConcatEmptySeq
    <3> QED BY <1>8, <2>1, <2>3, <3>1, <3>2, <3>3
  <2> QED BY <2>2, <2>3
<1> QED BY <1>12, <1>15, <1>16, <1>19, <1>21, <1>23, <1>24, <1>25 DEF ArrayInvariant

\* The next message a replica hears.
LEMMA NextHeard ==
    ASSUME ArrayTypes, NEW a \in Actors, heard[a] < Len(room), NEW h, h = heard[a]
    PROVE  /\ h \in Nat /\ h + 1 \in 1..Len(room) /\ room[h + 1] \in ArrayMail
           /\ SubSeq(room, (h + 1) + 1, Len(room)) \in Seq(ArrayMail)
           /\ Len(SubSeq(room, (h + 1) + 1, Len(room))) = Len(room) - (h + 1)
           /\ \A k \in 1..(Len(room) - (h + 1)) :
                 SubSeq(room, (h + 1) + 1, Len(room))[k] = room[(h + 1) + k]
           /\ Made(h + 1) = Applied(Made(h), room[h + 1].op)
           /\ Only(Unheard(a), Owned(a)) =
                 IF room[h + 1].from = a
                 THEN <<room[h + 1]>> \o Only(SubSeq(room, (h + 1) + 1, Len(room)), Owned(a))
                 ELSE Only(SubSeq(room, (h + 1) + 1, Len(room)), Owned(a))
<1> DEFINE m == room[h + 1]
           r == SubSeq(room, (h + 1) + 1, Len(room))
<1>1. room \in Seq(ArrayMail) /\ Len(room) \in Nat /\ h \in Nat /\ h < Len(room) /\ h <= Len(room) /\ h + 1 \in Nat /\ h + 1 <= Len(room)
      /\ h + 1 \in 1..Len(room)
  <2>1. room \in Seq(ArrayMail) /\ heard \in [Actors -> Nat]
    BY DEF ArrayTypes
  <2>2. Len(room) \in Nat /\ h \in Nat
    BY <2>1
  <2> QED BY <2>1, <2>2
<1>2. /\ m \in ArrayMail
      /\ SubSeq(room, 1, h + 1) = Append(SubSeq(room, 1, h), m)
      /\ SubSeq(room, h + 1, Len(room)) = <<m>> \o r
  BY <1>1, PartsMoved
<1>3. /\ r \in Seq(ArrayMail) /\ Len(r) = Len(room) - (h + 1)
      /\ \A k \in 1..(Len(room) - (h + 1)) : r[k] = room[(h + 1) + k]
  BY <1>1, Parts
<1>4. SubSeq(room, 1, h) \in Seq(ArrayMail)
  BY <1>1, Parts
<1>5. Unheard(a) = <<m>> \o r
  BY <1>2 DEF Unheard
<1> HIDE DEF m, r
<1>6. Made(h + 1) = Applied(Made(h), m.op)
  BY <1>2, <1>4, AppliedAppend, ZenonT(30) DEF Made
<1>7. <<m>> \o r \in Seq(ArrayMail) /\ <<m>> \o r # <<>> /\ Head(<<m>> \o r) = m /\ Tail(<<m>> \o r) = r
  <2>1. m \in ArrayMail /\ r \in Seq(ArrayMail)
    BY <1>2, <1>3
  <2> QED BY <2>1
<1>8. Only(<<m>> \o r, Owned(a)) = IF m \in Owned(a) THEN <<m>> \o Only(r, Owned(a)) ELSE Only(r, Owned(a))
  <2> DEFINE u == <<m>> \o r
  <2>1. u \in Seq(ArrayMail) /\ u # <<>> /\ Head(u) = m /\ Tail(u) = r
    BY <1>7
  <2> HIDE DEF u
  <2>2. Only(u, Owned(a)) = IF Head(u) \in Owned(a) THEN <<Head(u)>> \o Only(Tail(u), Owned(a)) ELSE Only(Tail(u), Owned(a))
    BY <2>1, OnlyFirst
  <2> QED BY <2>1, <2>2 DEF u
<1>9. m \in Owned(a) <=> m.from = a
  BY <1>2 DEF Owned
<1> QED BY <1>1, <1>2, <1>3, <1>5, <1>6, <1>8, <1>9 DEF m, r

\* What hearing a message, and raising instead, leave as it is.
LEMMA HearingKeeps ==
    ASSUME ArrayInvariant, NEW a \in Actors, NEW own, Hearing(a, own),
           heard' = heard \/ heard' = [heard EXCEPT ![a] = @ + 1]
    PROVE  /\ heard' \in [Actors -> Nat] /\ \A b \in Actors : heard'[b] <= Len(room') /\ Len(calls'[b]) <= MaxDepth
           /\ calls' \in [Actors -> Seq(ArrayMail)] /\ room' \in Seq(ArrayMail) /\ changes' \in 0..MaxChanges /\ reentered' \subseteq Actors
           /\ Numbered' /\ Dated'
           /\ Crossed' <=> Crossed
           /\ \A k : Made(k)' = Made(k)
<1>t. ArrayTypes /\ Numbered /\ Dated
  BY DEF ArrayInvariant
<1>1. /\ calls[a] = <<>> /\ heard[a] < Len(room)
      /\ calls' = calls /\ room' = room /\ changes' = changes /\ reentered' = reentered
  BY DEF Hearing
<1>2. heard \in [Actors -> Nat] /\ room \in Seq(ArrayMail) /\ Len(room) \in Nat /\ \A b \in Actors : heard[b] <= Len(room)
  <2>1. room \in Seq(ArrayMail) /\ heard \in [Actors -> Nat] /\ \A b \in Actors : heard[b] <= Len(room)
    BY <1>t DEF ArrayTypes
  <2> QED BY <2>1
<1>3. /\ heard' \in [Actors -> Nat]
      /\ \A b \in Actors : heard'[b] <= Len(room) /\ heard[b] <= heard'[b] /\ (b # a => heard'[b] = heard[b])
  <2>1. CASE heard' = heard
    BY <1>2, <2>1
  <2>2. CASE heard' = [heard EXCEPT ![a] = @ + 1]
    BY <1>1, <1>2, <2>2
  <2> QED BY <2>1, <2>2
<1>4. Numbered'
  BY <1>t, <1>1 DEF Numbered
<1>5. Dated'
  <2>1. ASSUME NEW k \in 1..Len(room) PROVE room[k].localSeqNum <= heard'[room[k].from]
    <3>1. room[k] \in ArrayMail
      BY <1>2
    <3>2. room[k].from \in Actors /\ room[k].localSeqNum \in Nat
      BY <3>1 DEF ArrayMail
    <3>3. room[k].localSeqNum <= heard[room[k].from]
      BY <1>t DEF Dated
    <3> QED BY <1>2, <1>3, <3>2, <3>3
  <2>2. ASSUME NEW b \in Actors, NEW i \in 1..Len(calls[b]) PROVE calls[b][i].from = b /\ calls[b][i].localSeqNum = heard'[b]
    <3>1. b # a
      BY <1>1
    <3> QED BY <1>t, <1>3, <3>1 DEF Dated
  <2> QED BY <1>1, <2>1, <2>2 DEF Dated
<1>6. Crossed' <=> Crossed
  BY <1>1 DEF Crossed, IssuedBehind
<1>7. \A k : Made(k)' = Made(k)
  BY <1>1 DEF Made
<1> QED BY <1>t, <1>1, <1>3, <1>4, <1>5, <1>6, <1>7 DEF ArrayTypes

\* ... when what is heard raises,
LEMMA ArrayInRaise ==
    ASSUME ArrayInvariant, NEW a \in Actors, NEW own, Hearing(a, own), Crossed,
           NEW name \in {"range", "unrecognized selector"}, RaisesInApply(a, name)
    PROVE  ArrayInvariant'
<1>t. ArrayTypes /\ Numbered /\ Dated /\ Pendings /\ Cleans /\ Single /\ InRange /\ PredictedInOrder
  BY DEF ArrayInvariant
<1>1. /\ calls[a] = <<>> /\ calls' = calls /\ room' = room /\ changes' = changes /\ reentered' = reentered
      /\ array' = array /\ heard' = heard /\ process' = [process EXCEPT ![a] = name]
  BY DEF Hearing, RaisesInApply
<1>2. Numbered' /\ Dated' /\ Crossed'
  BY <1>1, HearingKeeps
<1>3. process' \in [Actors -> {"up", "range", "unrecognized selector"}] /\ process'[a] # "up"
      /\ \A b \in Actors : b # a => process'[b] = process[b]
  BY <1>t, <1>1 DEF ArrayTypes
<1>4. ArrayTypes'
  BY <1>t, <1>1, <1>3 DEF ArrayTypes
<1>5. \A b \in Actors : Unheard(b)' = Unheard(b)
  BY <1>1 DEF Unheard
<1>6. Pendings'
  <2> SUFFICES ASSUME NEW b \in Actors
               PROVE  /\ Len(array'[b].pending) <= Len(room')
                      /\ process'[b] = "up" => array'[b].pending = Only(Unheard(b)', Owned(b))
                      /\ process'[b] # "up" => calls'[b] = <<>>
    BY DEF Pendings, Owned
  <2> QED BY <1>t, <1>1, <1>3, <1>5 DEF Pendings
<1>7. Cleans'
  BY <1>t, <1>1 DEF Cleans, Made
<1>8. Single'
  BY <1>t, <1>1 DEF Single
<1>9. InRange'
  BY <1>2 DEF InRange
<1>10. PredictedInOrder'
  BY <1>t, <1>1, <1>3 DEF PredictedInOrder
<1> QED BY <1>2, <1>4, <1>6, <1>7, <1>8, <1>9, <1>10 DEF ArrayInvariant

\* ... when it is a replica's own,
LEMMA ArrayInHearOwn ==
    ASSUME ArrayInvariant, NEW a \in Actors, HearOwn(a)
    PROVE  ArrayInvariant'
<1>t. ArrayTypes /\ Numbered /\ Dated /\ Pendings /\ Cleans /\ Single /\ InRange /\ PredictedInOrder
  BY DEF ArrayInvariant
<1>1. PICK h : h = heard[a]
  OBVIOUS
<1>2. /\ Hearing(a, TRUE)
      /\ process[a] = "up" /\ calls[a] = <<>> /\ heard[a] < Len(room) /\ room[h + 1].from = a
      /\ calls' = calls /\ room' = room /\ changes' = changes /\ reentered' = reentered
  BY <1>1 DEF HearOwn, Hearing
<1> DEFINE m == room[h + 1]
           r == SubSeq(room, (h + 1) + 1, Len(room))
           q == Only(r, Owned(a))
<1>3. /\ h \in Nat /\ h + 1 \in 1..Len(room) /\ m \in ArrayMail /\ r \in Seq(ArrayMail) /\ Len(r) = Len(room) - (h + 1)
      /\ \A k \in 1..(Len(room) - (h + 1)) : r[k] = room[(h + 1) + k]
      /\ Made(h + 1) = Applied(Made(h), m.op)
      /\ Only(Unheard(a), Owned(a)) = <<m>> \o q
  BY <1>t, <1>1, <1>2, NextHeard
<1>4. array[a].clean = Made(h) /\ array[a].pending = <<m>> \o q
  BY <1>t, <1>1, <1>2, <1>3 DEF Cleans, Pendings
<1>5. q \in Seq(ArrayMail) /\ \A k \in 1..Len(q) : \E i \in 1..Len(r) : q[k] = r[i]
  <2> HIDE DEF r
  <2> QED BY <1>3, OnlyOf
<1> HIDE DEF r, q
<1>6. CASE OutOfRange(array[a].clean, m.op) /\ RaisesInApply(a, "range")
  <2>1. Crossed
    <3> SUFFICES ASSUME ~Crossed PROVE FALSE
      OBVIOUS
    <3>1. ~OutOfRange(Made((h + 1) - 1), m.op) /\ (h + 1) - 1 = h
      BY <1>t, <1>3 DEF InRange
    <3> QED BY <1>4, <1>6, <3>1
  <2> QED BY <1>2, <1>6, <2>1, ArrayInRaise
<1>7. CASE /\ ~OutOfRange(array[a].clean, m.op)
           /\ array' = [array EXCEPT ![a].clean = Applied(@, m.op),
                                     ![a].pending = Only(@, {p \in Range(@) : p.uuid # m.uuid})]
           /\ heard' = [heard EXCEPT ![a] = @ + 1]
           /\ process' = process
  <2> DEFINE s == array[a].pending
             K == {p \in Range(s) : p.uuid # m.uuid}
  <2>1. s \in Seq(ArrayMail) /\ array[a].clean \in Seq(Items) /\ heard \in [Actors -> Nat] /\ Len(s) <= Len(room)
    BY <1>t DEF ArrayTypes, Pendings
  <2>2. Only(s, K) = q
    <3>1. Range(s) = {s[i] : i \in 1..Len(s)}
      <4>1. DOMAIN s = 1..Len(s)
        BY <2>1, LenProperties
      <4> QED BY <4>1 DEF Range
    <3>2. s # <<>> /\ Head(s) = m /\ Tail(s) = q /\ Len(s) = Len(q) + 1 /\ \A k \in 1..Len(q) : s[k + 1] = q[k]
      <4>1. m \in ArrayMail /\ q \in Seq(ArrayMail) /\ s = <<m>> \o q
        BY <1>3, <1>4, <1>5
      <4> HIDE DEF s
      <4> QED BY <4>1
    <3>3. m \notin K
      OBVIOUS
    <3>4. \A k \in 1..Len(q) : q[k] \in K
      <4> SUFFICES ASSUME NEW k \in 1..Len(q) PROVE q[k] \in Range(s) /\ q[k].uuid # m.uuid
        OBVIOUS
      <4>1. q[k] \in Range(s)
        <5>1. k + 1 \in 1..Len(s)
          BY <2>1, <3>2, <1>5
        <5> QED BY <3>1, <3>2, <5>1
      <4>2. PICK i \in 1..Len(r) : q[k] = r[i]
        BY <1>5
      <4>3. r[i] = room[(h + 1) + i] /\ (h + 1) + i \in 1..Len(room) /\ (h + 1) + i # h + 1
        <5>1. room \in Seq(ArrayMail)
          BY <1>t DEF ArrayTypes
        <5>2. Len(room) \in Nat /\ i \in 1..(Len(room) - (h + 1))
          BY <1>3, <5>1
        <5> QED BY <1>3, <5>2, SMTT(30)
      <4>4. \A i1, j1 \in 1..Len(room) : room[i1].uuid = room[j1].uuid => i1 = j1
        BY <1>t DEF Numbered
      <4> QED BY <1>3, <4>1, <4>2, <4>3, <4>4
    <3> HIDE DEF s, K
    <3>5. Only(s, K) = Only(q, K)
      BY <2>1, <3>2, <3>3, OnlyFirst
    <3> QED BY <1>5, <3>4, <3>5, OnlyAll
  <2>3. Applied(array[a].clean, m.op) \in Seq(Items)
    <3>1. m.op \in ArrayOperations
      BY <1>3 DEF ArrayMail
    <3> QED BY <2>1, <3>1, AppliedTyped
  <2>4. array' = [array EXCEPT ![a].clean = Applied(array[a].clean, m.op), ![a].pending = q]
    BY <1>7, <2>2
  <2> HIDE DEF s, K
  <2>5. /\ array' \in [Actors -> [state : Seq(Items), clean : Seq(Items), pending : Seq(ArrayMail)]]
        /\ array'[a].state = array[a].state
        /\ array'[a].clean = Applied(array[a].clean, m.op)
        /\ array'[a].pending = q
        /\ \A b \in Actors : b # a => array'[b] = array[b]
    <3>1. array \in [Actors -> [state : Seq(Items), clean : Seq(Items), pending : Seq(ArrayMail)]]
      BY <1>t DEF ArrayTypes
    <3> QED BY <1>5, <2>3, <2>4, <3>1
  <2>6. heard'[a] = h + 1 /\ \A b \in Actors : b # a => heard'[b] = heard[b]
    BY <1>1, <1>7, <2>1
  <2>7. /\ heard' \in [Actors -> Nat] /\ \A b \in Actors : heard'[b] <= Len(room') /\ Len(calls'[b]) <= MaxDepth
        /\ calls' \in [Actors -> Seq(ArrayMail)] /\ room' \in Seq(ArrayMail) /\ changes' \in 0..MaxChanges /\ reentered' \subseteq Actors
        /\ Numbered' /\ Dated'
        /\ Crossed' <=> Crossed
        /\ \A k : Made(k)' = Made(k)
    BY <1>2, <1>7, HearingKeeps
  <2>8. ArrayTypes'
    BY <1>t, <1>7, <2>5, <2>7 DEF ArrayTypes
  <2>9. Unheard(a)' = r /\ \A b \in Actors : b # a => Unheard(b)' = Unheard(b)
    BY <1>2, <2>6 DEF Unheard, r
  <2>10. Pendings'
    <3> SUFFICES ASSUME NEW b \in Actors
                 PROVE  /\ Len(array'[b].pending) <= Len(room')
                        /\ process'[b] = "up" => array'[b].pending = Only(Unheard(b)', Owned(b))
                        /\ process'[b] # "up" => calls'[b] = <<>>
      BY DEF Pendings, Owned
    <3>1. CASE b # a
      BY <1>t, <1>2, <1>7, <2>5, <2>9, <3>1 DEF Pendings
    <3>2. CASE b = a
      <4>1. Len(q) <= Len(room)
        <5>1. Len(<<m>> \o q) = Len(q) + 1 /\ Len(q) \in Nat
          BY <1>3, <1>5
        <5>2. room \in Seq(ArrayMail) /\ Len(room) \in Nat
          BY <1>2, <2>7
        <5> QED BY <1>4, <2>1, <5>1, <5>2 DEF s
      <4> QED BY <1>2, <1>7, <2>5, <2>9, <3>2, <4>1 DEF q
    <3> QED BY <3>1, <3>2
  <2>11. Cleans'
    <3>1. array'[a].clean = Made(h + 1)
      BY <1>3, <1>4, <2>5
    <3> SUFFICES ASSUME NEW b \in Actors PROVE array'[b].clean = AppliedAll(<<>>, SubSeq(room', 1, heard'[b]))
      BY DEF Cleans, Made
    <3>2. CASE b # a
      BY <1>t, <1>2, <2>5, <2>6, <3>2 DEF Cleans, Made
    <3>3. CASE b = a
      BY <1>2, <2>6, <3>1, <3>3 DEF Made
    <3> QED BY <3>2, <3>3
  <2>12. Single'
    BY <1>t, <1>2, <2>5 DEF Single
  <2>13. InRange'
    BY <1>t, <1>2, <1>7, <2>7 DEF InRange
  <2>14. PredictedInOrder'
    <3> SUFFICES ASSUME NEW b \in Actors, b \notin reentered, process[b] = "up"
                 PROVE  array'[b].state = AppliedAll(array'[b].clean, array'[b].pending \o calls[b])
      BY <1>2, <1>7 DEF PredictedInOrder
    <3>1. array[b].state = AppliedAll(array[b].clean, array[b].pending \o calls[b])
      BY <1>t DEF PredictedInOrder
    <3>2. CASE b # a
      BY <2>5, <3>1, <3>2
    <3>3. CASE b = a
      <4>1. (<<m>> \o q) \o <<>> = <<m>> \o q /\ q \o <<>> = q
        <5>1. m \in ArrayMail /\ q \in Seq(ArrayMail) /\ <<m>> \o q \in Seq(ArrayMail)
          BY <1>3, <1>5
        <5> QED BY <5>1, ConcatEmptySeq
      <4>2. AppliedAll(array[a].clean, <<m>> \o q) = AppliedAll(Applied(array[a].clean, m.op), q)
        BY <1>3, <1>5, AppliedFirst
      <4> QED BY <1>2, <1>4, <2>5, <3>1, <3>3, <4>1, <4>2
    <3> QED BY <3>2, <3>3
  <2> QED BY <2>7, <2>8, <2>10, <2>11, <2>12, <2>13, <2>14 DEF ArrayInvariant
<1> QED BY <1>1, <1>6, <1>7 DEF HearOwn

\* ... and when it is another's: with operations of its own pending, a replica
\* has issued one behind it.
LEMMA ArrayInHearOther ==
    ASSUME ArrayInvariant, NEW a \in Actors, HearOther(a)
    PROVE  ArrayInvariant'
<1>t. ArrayTypes /\ Numbered /\ Dated /\ Pendings /\ Cleans /\ Single /\ InRange /\ PredictedInOrder
  BY DEF ArrayInvariant
<1>1. PICK h : h = heard[a]
  OBVIOUS
<1>2. /\ Hearing(a, FALSE)
      /\ process[a] = "up" /\ calls[a] = <<>> /\ heard[a] < Len(room) /\ room[h + 1].from # a
      /\ calls' = calls /\ room' = room /\ changes' = changes /\ reentered' = reentered
  BY <1>1 DEF HearOther, Hearing
<1> DEFINE m == room[h + 1]
           r == SubSeq(room, (h + 1) + 1, Len(room))
           s == array[a].pending
<1>3. /\ h \in Nat /\ h + 1 \in 1..Len(room) /\ m \in ArrayMail /\ r \in Seq(ArrayMail) /\ Len(r) = Len(room) - (h + 1)
      /\ \A k \in 1..(Len(room) - (h + 1)) : r[k] = room[(h + 1) + k]
      /\ Made(h + 1) = Applied(Made(h), m.op)
      /\ Only(Unheard(a), Owned(a)) = Only(r, Owned(a))
  BY <1>t, <1>1, <1>2, NextHeard
<1>4. array[a].clean = Made(h) /\ s = Only(r, Owned(a))
  BY <1>t, <1>1, <1>2, <1>3 DEF Cleans, Pendings
<1>5. /\ s \in Seq(ArrayMail) /\ room \in Seq(ArrayMail) /\ Len(room) \in Nat
      /\ \A k \in 1..Len(s) : s[k] \in Owned(a) /\ \E i \in 1..Len(r) : s[k] = r[i]
  <2>1. room \in Seq(ArrayMail) /\ Len(room) \in Nat
    <3>1. room \in Seq(ArrayMail)
      BY <1>t DEF ArrayTypes
    <3> QED BY <3>1
  <2>2. r \in Seq(ArrayMail)
    BY <1>3
  <2>3. s = Only(r, Owned(a))
    BY <1>4
  <2> HIDE DEF r, s
  <2>4. /\ Only(r, Owned(a)) \in Seq(ArrayMail)
        /\ \A k \in 1..Len(Only(r, Owned(a))) :
              Only(r, Owned(a))[k] \in Owned(a) /\ \E i \in 1..Len(r) : Only(r, Owned(a))[k] = r[i]
    BY <2>2, OnlyOf
  <2> QED BY <2>1, <2>3, <2>4
<1>6. array[a].state \in Seq(Items) /\ array[a].clean \in Seq(Items) /\ heard \in [Actors -> Nat]
  BY <1>t DEF ArrayTypes
<1> HIDE DEF r, s
\* Somebody who is still waiting for the echo of his own was issued behind this one.
<1>7. s # <<>> => Crossed
  <2> SUFFICES ASSUME s # <<>> PROVE Crossed
    OBVIOUS
  <2>1. 1 \in 1..Len(s)
    <3>1. Len(s) \in Nat /\ Len(s) # 0
      BY <1>5
    <3> QED BY <3>1
  <2>2. PICK i \in 1..Len(r) : s[1] = r[i] /\ s[1] \in Owned(a)
    BY <1>5, <2>1
  <2> DEFINE k == (h + 1) + i
  <2>3. k \in 1..Len(room) /\ room[k] = s[1] /\ h + 1 <= k - 1 /\ k - 1 \in Int
    <3>1. i \in 1..(Len(room) - (h + 1))
      BY <1>3, <2>2
    <3> QED BY <1>3, <1>5, <2>2, <3>1
  <2> HIDE DEF k
  <2>4. room[k].from = a /\ room[k].localSeqNum \in Nat
    BY <2>2, <2>3 DEF Owned, ArrayMail
  <2>5. room[k].localSeqNum <= h
    BY <1>t, <1>1, <2>3, <2>4 DEF Dated
  <2>6. h + 1 \in (room[k].localSeqNum + 1)..(k - 1)
    BY <1>3, <2>3, <2>4, <2>5
  <2>7. IssuedBehind(k)
    BY <1>2, <2>4, <2>6 DEF IssuedBehind
  <2>8. DOMAIN room = 1..Len(room)
    BY <1>5, LenProperties
  <2> QED BY <2>3, <2>7, <2>8 DEF Crossed
<1>8. ~Crossed => ~OutOfRange(array[a].clean, m.op)
  <2> SUFFICES ASSUME ~Crossed PROVE ~OutOfRange(array[a].clean, m.op)
    OBVIOUS
  <2>1. ~OutOfRange(Made((h + 1) - 1), m.op) /\ (h + 1) - 1 = h
    BY <1>t, <1>3 DEF InRange
  <2> QED BY <1>4, <2>1
<1>9. s = <<>> /\ a \notin reentered => array[a].state = array[a].clean
  <2> SUFFICES ASSUME s = <<>>, a \notin reentered PROVE array[a].state = array[a].clean
    OBVIOUS
  <2>1. array[a].state = AppliedAll(array[a].clean, array[a].pending \o calls[a])
    BY <1>t, <1>2 DEF PredictedInOrder
  <2>2. array[a].pending = <<>> /\ <<>> \o <<>> = <<>>
    BY EmptySeq, ConcatEmptySeq DEF s
  <2> QED BY <1>2, <2>1, <2>2, AppliedNothing
<1>10. CASE /\ OutOfRange(array[a].clean, m.op) \/ (s = <<>> /\ OutOfRange(array[a].state, m.op))
            /\ RaisesInApply(a, "range")
  <2>1. Crossed
    <3>1. Crossed \/ a \notin reentered
      BY DEF Crossed
    <3> QED BY <1>8, <1>9, <1>10, <3>1
  <2> QED BY <1>2, <1>10, <2>1, ArrayInRaise
<1>11. CASE s # <<>> /\ RaisesInApply(a, "unrecognized selector")
  BY <1>2, <1>7, <1>11, ArrayInRaise
<1>12. CASE /\ s = <<>>
            /\ array' = [array EXCEPT ![a].clean = Applied(@, m.op), ![a].state = Applied(@, m.op)]
            /\ heard' = [heard EXCEPT ![a] = @ + 1]
            /\ process' = process
  <2>1. m.op \in ArrayOperations
    BY <1>3 DEF ArrayMail
  <2>2. Applied(array[a].clean, m.op) \in Seq(Items) /\ Applied(array[a].state, m.op) \in Seq(Items)
    BY <1>6, <2>1, AppliedTyped
  <2>3. /\ array' \in [Actors -> [state : Seq(Items), clean : Seq(Items), pending : Seq(ArrayMail)]]
        /\ array'[a].state = Applied(array[a].state, m.op)
        /\ array'[a].clean = Applied(array[a].clean, m.op)
        /\ array'[a].pending = s
        /\ \A b \in Actors : b # a => array'[b] = array[b]
    <3>1. array \in [Actors -> [state : Seq(Items), clean : Seq(Items), pending : Seq(ArrayMail)]]
      BY <1>t DEF ArrayTypes
    <3> QED BY <1>12, <2>2, <3>1 DEF s
  <2>6. heard'[a] = h + 1 /\ \A b \in Actors : b # a => heard'[b] = heard[b]
    BY <1>1, <1>6, <1>12
  <2>7. /\ heard' \in [Actors -> Nat] /\ \A b \in Actors : heard'[b] <= Len(room') /\ Len(calls'[b]) <= MaxDepth
        /\ calls' \in [Actors -> Seq(ArrayMail)] /\ room' \in Seq(ArrayMail) /\ changes' \in 0..MaxChanges /\ reentered' \subseteq Actors
        /\ Numbered' /\ Dated'
        /\ Crossed' <=> Crossed
        /\ \A k : Made(k)' = Made(k)
    BY <1>2, <1>12, HearingKeeps
  <2>8. ArrayTypes'
    BY <1>t, <1>12, <2>3, <2>7 DEF ArrayTypes
  <2>9. Unheard(a)' = r /\ \A b \in Actors : b # a => Unheard(b)' = Unheard(b)
    BY <1>2, <2>6 DEF Unheard, r
  <2>10. Pendings'
    <3> SUFFICES ASSUME NEW b \in Actors
                 PROVE  /\ Len(array'[b].pending) <= Len(room')
                        /\ process'[b] = "up" => array'[b].pending = Only(Unheard(b)', Owned(b))
                        /\ process'[b] # "up" => calls'[b] = <<>>
      BY DEF Pendings, Owned
    <3>1. CASE b # a
      BY <1>t, <1>2, <1>12, <2>3, <2>9, <3>1 DEF Pendings
    <3>2. CASE b = a
      BY <1>t, <1>2, <1>4, <1>12, <2>3, <2>9, <3>2 DEF Pendings, s
    <3> QED BY <3>1, <3>2
  <2>11. Cleans'
    <3>1. array'[a].clean = Made(h + 1)
      BY <1>3, <1>4, <2>3
    <3> SUFFICES ASSUME NEW b \in Actors PROVE array'[b].clean = AppliedAll(<<>>, SubSeq(room', 1, heard'[b]))
      BY DEF Cleans, Made
    <3>2. CASE b # a
      BY <1>t, <1>2, <2>3, <2>6, <3>2 DEF Cleans, Made
    <3>3. CASE b = a
      BY <1>2, <2>6, <3>1, <3>3 DEF Made
    <3> QED BY <3>2, <3>3
  <2>12. Single'
    BY <1>t, <1>2, <2>3 DEF Single
  <2>13. InRange'
    BY <1>t, <1>2, <1>12, <2>7 DEF InRange
  <2>14. PredictedInOrder'
    <3> SUFFICES ASSUME NEW b \in Actors, b \notin reentered, process[b] = "up"
                 PROVE  array'[b].state = AppliedAll(array'[b].clean, array'[b].pending \o calls[b])
      BY <1>2, <1>12 DEF PredictedInOrder
    <3>2. CASE b # a
      BY <1>t, <2>3, <3>2 DEF PredictedInOrder
    <3>3. CASE b = a
      <4>1. array'[a].pending = <<>> /\ <<>> \o <<>> = <<>>
        BY <1>12, <2>3, EmptySeq, ConcatEmptySeq
      <4>2. array[a].state = array[a].clean
        BY <1>9, <1>12, <3>3
      <4>3. array'[a].pending \o calls[a] = <<>>
        BY <1>2, <4>1
      <4>4. AppliedAll(array'[a].clean, <<>>) = array'[a].clean
        BY AppliedNothing
      <4>5. array'[a].state = array'[a].clean
        BY <2>3, <4>2
      <4> QED BY <3>3, <4>3, <4>4, <4>5
    <3> QED BY <3>2, <3>3
  <2> QED BY <2>7, <2>8, <2>10, <2>11, <2>12, <2>13, <2>14 DEF ArrayInvariant
<1> QED BY <1>1, <1>10, <1>11, <1>12 DEF HearOther, m, s

-----------------------------------------------------------------------------
(* What follows.                                                           *)

\* Every step keeps the invariant.
LEMMA ArrayInductive ==
    ASSUME ArrayInvariant, [ArrayNext]_arrayVars
    PROVE  ArrayInvariant'
<1>1. ASSUME NEW a \in Actors, BeginChange(a) \/ EndChange(a) \/ HearOwn(a) \/ HearOther(a) PROVE ArrayInvariant'
  BY <1>1, ArrayInBegin, ArrayInEnd, ArrayInHearOwn, ArrayInHearOther
<1>2. CASE UNCHANGED arrayVars
  <2>1. /\ array' = array /\ calls' = calls /\ process' = process /\ room' = room /\ heard' = heard
        /\ changes' = changes /\ reentered' = reentered
    BY <1>2 DEF arrayVars
  <2>2. ArrayTypes' /\ Numbered' /\ Dated'
    <3>1. ArrayTypes' <=> ArrayTypes
      BY <2>1 DEF ArrayTypes
    <3>2. Numbered' <=> Numbered
      BY <2>1 DEF Numbered
    <3>3. Dated' <=> Dated
      BY <2>1 DEF Dated
    <3> QED BY <3>1, <3>2, <3>3 DEF ArrayInvariant
  <2>3. Pendings' /\ Cleans' /\ Single' /\ PredictedInOrder'
    <3>1. Pendings' <=> Pendings
      BY <2>1 DEF Pendings, Unheard
    <3>2. Cleans' <=> Cleans
      BY <2>1 DEF Cleans, Made
    <3>3. Single' <=> Single
      BY <2>1 DEF Single
    <3>4. PredictedInOrder' <=> PredictedInOrder
      BY <2>1 DEF PredictedInOrder
    <3> QED BY <3>1, <3>2, <3>3, <3>4 DEF ArrayInvariant
  <2>4. InRange'
    <3>1. Crossed' <=> Crossed
      BY <2>1 DEF Crossed, IssuedBehind
    <3>2. \A k : Made(k)' = Made(k)
      BY <2>1 DEF Made
    <3> QED BY <2>1, <3>1, <3>2 DEF ArrayInvariant, InRange
  <2> QED BY <2>2, <2>3, <2>4 DEF ArrayInvariant
<1> QED BY <1>1, <1>2 DEF ArrayNext

\* The invariant holds throughout: JXArrayProp's pending and clean state follow
\* the room's order.
THEOREM ArrayKept == ArraySpec => []ArrayInvariant
<1>1. ArrayInvariant /\ [ArrayNext]_arrayVars => ArrayInvariant'
  BY ArrayInductive
<1> QED BY ArrayStarts, <1>1, PTL DEF ArraySpec

\* As many messages are in the room as have a number of their own.
LEMMA RoomBounded ==
    ASSUME ArrayTypes, Numbered
    PROVE  Len(room) <= changes
<1>1. room \in Seq(ArrayMail) /\ changes \in Nat
  <2>1. room \in Seq(ArrayMail) /\ changes \in 0..MaxChanges
    BY DEF ArrayTypes
  <2> QED BY <2>1, ArrayAssumption
<1> DEFINE n == Len(room)
           f == [j \in 1..n |-> room[j].uuid]
<1>2. n \in Nat
  BY <1>1
<1>3. \A j \in 1..n : room[j] \in ArrayMail
  BY <1>1
<1>4. \A j \in 1..n : room[j].uuid \in 1..changes
  <2>1. ASSUME NEW j \in 1..n PROVE room[j].uuid \in 1..changes
    <3>1. room[j].uuid \in 1..MaxChanges
      BY <1>3 DEF ArrayMail
    <3>2. room[j].uuid <= changes
      BY DEF Numbered
    <3> QED BY <1>1, <3>1, <3>2, ArrayAssumption
  <2> QED BY <2>1
<1>5. f \in [1..n -> 1..changes]
  BY <1>4
<1>6. IsFiniteSet(1..n) /\ Cardinality(1..n) = n /\ IsFiniteSet(1..changes) /\ Cardinality(1..changes) = changes
  <2>1. \A i \in Nat : IsFiniteSet(1..i) /\ Cardinality(1..i) = i
    BY FS_Interval
  <2> QED BY <1>1, <1>2, <2>1
<1>7. \A i, j \in 1..n : f[i] = f[j] => i = j
  BY DEF Numbered
<1> HIDE DEF f, n
<1>8. ~(Cardinality(1..n) > Cardinality(1..changes))
  <2> SUFFICES ASSUME Cardinality(1..n) > Cardinality(1..changes) PROVE FALSE
    OBVIOUS
  <2> DEFINE S == 1..n
             T == 1..changes
  <2>1. IsFiniteSet(S) /\ IsFiniteSet(T) /\ Cardinality(S) > Cardinality(T) /\ f \in [S -> T]
    BY <1>5, <1>6
  <2> HIDE DEF S, T
  <2>2. \E x, y \in S : x # y /\ f[x] = f[y]
    BY <2>1, FS_PigeonHole
  <2> QED BY <1>7, <2>2 DEF S
<1> QED BY <1>1, <1>2, <1>6, <1>8 DEF n

\* Every variable of the array's model holds values of its type, and there are
\* never more pending operations than were issued.
THEOREM ArrayTypeCorrect == ArraySpec => []ArrayTypeOK
<1>1. ArrayInvariant => ArrayTypeOK
  <2> SUFFICES ASSUME ArrayInvariant PROVE ArrayTypeOK
    OBVIOUS
  <2>1. ArrayTypes /\ Pendings /\ Len(room) <= changes
    BY RoomBounded DEF ArrayInvariant
  <2>2. room \in Seq(ArrayMail) /\ changes \in 0..MaxChanges /\ process \in [Actors -> {"up", "range", "unrecognized selector"}]
        /\ reentered \subseteq Actors
    BY <2>1 DEF ArrayTypes
  <2>3. ASSUME NEW a \in Actors
        PROVE  /\ {array[a].state, array[a].clean} \subseteq Seq(Items)
               /\ Len(array[a].pending) <= MaxChanges
               /\ Len(calls[a]) <= MaxDepth
               /\ heard[a] \in 0..Len(room)
    <3>1. /\ array[a].state \in Seq(Items) /\ array[a].clean \in Seq(Items) /\ array[a].pending \in Seq(ArrayMail)
          /\ Len(calls[a]) <= MaxDepth /\ heard[a] \in Nat /\ heard[a] <= Len(room)
          /\ Len(array[a].pending) <= Len(room)
      BY <2>1 DEF ArrayTypes, Pendings
    <3>2. Len(room) \in Nat /\ Len(array[a].pending) \in Nat /\ changes \in Nat /\ changes <= MaxChanges
      <4>1. room \in Seq(ArrayMail) /\ array[a].pending \in Seq(ArrayMail) /\ changes \in 0..MaxChanges
        BY <2>2, <3>1
      <4>2. changes \in Nat /\ changes <= MaxChanges
        BY <4>1, ArrayAssumption
      <4> QED BY <4>1, <4>2, LenProperties
    <3>3. Len(array[a].pending) <= MaxChanges
      <4>1. Len(array[a].pending) <= Len(room) /\ Len(room) <= changes /\ changes <= MaxChanges
        BY <2>1, <3>1, <3>2
      <4> QED BY <3>2, <4>1, ArrayAssumption
    <3>4. heard[a] \in 0..Len(room)
      BY <3>1, <3>2
    <3> QED BY <3>1, <3>3, <3>4
  <2> QED BY <2>2, <2>3 DEF ArrayTypeOK
<1> QED BY <1>1, ArrayKept, PTL

\* The pending operations are those the room has not sent back, in its order,
\* and what is shown is the clean array with them on top, unless a listener has
\* issued an operation inside the dispatch of another (JXProp.m:177-204, 357-368).
THEOREM ArrayPredictedAsSent == ArraySpec => []PredictedAsSent
<1>1. ArrayInvariant => PredictedAsSent
  <2> SUFFICES ASSUME ArrayInvariant PROVE PredictedAsSent
    OBVIOUS
  <2>1. ArrayTypes /\ Pendings /\ PredictedInOrder
    BY DEF ArrayInvariant
  <2>2. \A a \in Actors : Sent(a) = Only(Unheard(a), Owned(a))
    BY <2>1, SentIsOwned
  <2> QED BY <2>1, <2>2 DEF Pendings, PendingAsSent, PredictedAsSent
<1> QED BY <1>1, ArrayKept, PTL

\* No replica dies of an operation it receives as long as nobody issues one
\* behind another's and no listener one inside its own.
THEOREM ArrayRaisesOnlyWhenCrossed == ArraySpec => []RaisesOnlyWhenCrossed
<1>1. ArrayInvariant => RaisesOnlyWhenCrossed
  BY DEF ArrayInvariant, InRange, Crossed, RaisesOnlyWhenCrossed
<1> QED BY <1>1, ArrayKept, PTL

=============================================================================
