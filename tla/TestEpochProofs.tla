-------------------------- MODULE TestEpochProofs ---------------------------
(***************************************************************************)
(* Proofs about TestEpoch.  The counters of maybeResetAfterStableReunion() *)
(* see one round at a time and remember no other; CommitsOnStreak speaks   *)
(* of the history they have seen.  IInv relates the two: of a board that   *)
(* has not committed a reset, Follows says which streak of the history     *)
(* cycles and misses are the length and the age of, and that no longer one *)
(* has been missed.  FollowsRound shows that a round keeps it,             *)
(* FollowsRounds that several rounds noticed together do, and FollowsShift *)
(* that the history may forget the rounds before Window.                   *)
(***************************************************************************)
EXTENDS TestEpoch, TLAPS, FiniteSetTheorems, SequenceTheorems, WellFoundedInduction

USE OracleAssumption

-----------------------------------------------------------------------------
(* The rounds that are noticed together, one after the other *)

\* Induction, for sets of numbers.
LEMMA Induction ==
  ASSUME NEW S \in SUBSET Nat, 0 \in S, \A n \in S : n + 1 \in S
  PROVE  S = Nat
<1> SUFFICES ASSUME Nat \ S # {} PROVE FALSE
  OBVIOUS
<1> DEFINE R == OpToRel(<, Nat)
<1>1. IsWellFoundedOn(R, Nat)
  BY NatLessThanWellFounded
<1> HIDE DEF R
<1>2. PICK m \in Nat \ S : \A n \in Nat \ S : ~(<<n, m>> \in R)
  BY <1>1, WFMin
<1>3. m # 0 /\ m - 1 \in Nat /\ m - 1 < m
  OBVIOUS
<1>4. m - 1 \in S
  <2>1. <<m - 1, m>> \in R
    BY <1>3 DEF R, OpToRel
  <2> QED BY <1>2, <1>3, <2>1
<1> QED BY <1>3, <1>4

\* maybeResetAfterStableReunion() is called for one round after the other.
LEMMA RoundByRound ==
  ASSUME NEW k \in Nat, NEW o, NEW qualified
  PROVE  \E after : /\ after[0] = o /\ after[k] = AfterRounds(k, o, qualified)
                    /\ \A i \in 1 .. k :
                         after[i] = AfterRound(after[i - 1], i = 1 /\ qualified)
<1> DEFINE Eq(f, n) ==
             f = [i \in 0 .. n |->
                    IF i = 0 THEN o ELSE AfterRound(f[i - 1], i = 1 /\ qualified)]
           S == {n \in Nat : \E f : Eq(f, n)}
<1>1. 0 \in S
  <2> DEFINE f == [i \in 0 .. 0 |-> o]
  <2>1. Eq(f, 0)
    OBVIOUS
  <2> HIDE DEF f
  <2> QED BY <2>1
<1>2. ASSUME NEW n \in S PROVE n + 1 \in S
  <2>1. n \in Nat
    OBVIOUS
  <2>2. PICK f : Eq(f, n)
    OBVIOUS
  <2> DEFINE g == [i \in 0 .. n + 1 |->
                     IF i \in 0 .. n THEN f[i] ELSE AfterRound(f[n], n + 1 = 1 /\ qualified)]
  <2>3. ASSUME NEW i \in 0 .. n + 1
        PROVE  g[i] = IF i = 0 THEN o ELSE AfterRound(g[i - 1], i = 1 /\ qualified)
    BY <2>1, <2>2
  <2>4. Eq(g, n + 1)
    BY <2>3
  <2> HIDE DEF g
  <2> QED BY <2>1, <2>4
<1> HIDE DEF S
<1>3. S = Nat
  <2>1. S \in SUBSET Nat
    BY DEF S
  <2> QED BY <1>1, <1>2, <2>1, Induction
<1>4. \E f : Eq(f, k)
  BY <1>3 DEF S
<1> DEFINE after == CHOOSE f : Eq(f, k)
<1>5. Eq(after, k)
  BY <1>4
<1>6. AfterRounds(k, o, qualified) = after[k]
  BY DEF AfterRounds
<1> HIDE DEF after
<1>7. after[0] = o
  BY <1>5
<1>8. \A i \in 1 .. k : after[i] = AfterRound(after[i - 1], i = 1 /\ qualified)
  BY <1>5
<1> QED BY <1>6, <1>7, <1>8

-----------------------------------------------------------------------------
(* Types, and what a commit waits for *)

\* The counters as TypeOK has them; nothing waits that is not committed.
Counters ==
  {o \in [cycles : 0 .. CyclesToCommit, misses : 0 .. MissesToReset,
          committed : BOOLEAN, delay : 0 .. DelayCycles, executed : BOOLEAN] :
     /\ o.executed <=> o.delay = DelayCycles
     /\ o.cycles = CyclesToCommit <=> o.committed
     /\ o.delay # 0 => o.committed}

\* One round more: it commits, waits or counts.
LEMMA OneRound ==
  ASSUME NEW o \in Counters, NEW qualified \in BOOLEAN
  PROVE  /\ AfterRound(o, qualified) \in Counters
         /\ o.committed => /\ AfterRound(o, qualified).committed
                           /\ AfterRound(o, qualified).delay <= o.delay + 1
         /\ ~o.committed => AfterRound(o, qualified).delay = 0
<1>0. /\ o \in [cycles : 0 .. CyclesToCommit, misses : 0 .. MissesToReset,
                committed : BOOLEAN, delay : 0 .. DelayCycles, executed : BOOLEAN]
      /\ o.executed <=> o.delay = DelayCycles
      /\ o.cycles = CyclesToCommit <=> o.committed
      /\ o.delay # 0 => o.committed
  BY DEF Counters
<1> DEFINE n == AfterRound(o, qualified)
<1>a. /\ o.cycles \in 0 .. CyclesToCommit /\ o.misses \in 0 .. MissesToReset
      /\ o.committed \in BOOLEAN /\ o.delay \in 0 .. DelayCycles /\ o.executed \in BOOLEAN
  BY <1>0
<1>1. CASE o.executed
  BY <1>1, <1>0 DEF AfterRound
<1>2. CASE ~o.executed /\ o.committed
  <2>1. n = [cycles |-> o.cycles, misses |-> o.misses, committed |-> TRUE,
             delay |-> o.delay + 1, executed |-> o.delay + 1 >= DelayCycles]
    BY <1>0, <1>2 DEF AfterRound, Waited
  <2> HIDE DEF n
  <2>2. o.delay + 1 \in 0 .. DelayCycles
    BY <1>0, <1>a, <1>2
  <2>3. n \in Counters
    BY <1>0, <1>a, <1>2, <2>1, <2>2 DEF Counters
  <2> QED BY <1>2, <2>1, <2>2, <2>3 DEF n
<1>3. CASE ~o.executed /\ ~o.committed /\ qualified
  <2>1. n = [cycles |-> o.cycles + 1, misses |-> 0,
             committed |-> o.cycles + 1 >= CyclesToCommit,
             delay |-> o.delay, executed |-> o.executed]
    BY <1>0, <1>3 DEF AfterRound, Qualified
  <2> HIDE DEF n
  <2>2. o.cycles + 1 \in 0 .. CyclesToCommit /\ o.delay = 0
    BY <1>0, <1>a, <1>3
  <2>3. n \in Counters
    <3>0. CyclesToCommit \in Nat
      OBVIOUS
    <3>a. n.cycles = o.cycles + 1 /\ n.committed = (o.cycles + 1 >= CyclesToCommit)
      BY <2>1
    <3>1. n.cycles = CyclesToCommit <=> n.committed
      <4> DEFINE m == o.cycles + 1
      <4>1. m \in 0 .. CyclesToCommit
        BY <2>2
      <4> HIDE DEF m
      <4>2. m = CyclesToCommit <=> m >= CyclesToCommit
        BY <3>0, <4>1
      <4> QED BY <3>a, <4>2 DEF m
    <3>2. ~n.executed /\ n.delay = 0 /\ 0 # DelayCycles /\ n.misses = 0
      BY <1>0, <1>a, <1>3, <2>1, <2>2
    <3>3. n \in [cycles : 0 .. CyclesToCommit, misses : 0 .. MissesToReset,
                 committed : BOOLEAN, delay : 0 .. DelayCycles, executed : BOOLEAN]
      BY <1>a, <2>1, <2>2
    <3> QED BY <3>1, <3>2, <3>3 DEF Counters
  <2>4. n.delay = 0
    BY <2>1, <2>2
  <2> QED BY <1>3, <2>3, <2>4 DEF n
<1>4. CASE ~o.executed /\ ~o.committed /\ ~qualified
  <2>1. n = [cycles |-> IF o.misses + 1 < MissesToReset THEN o.cycles ELSE 0,
             misses |-> IF o.misses = MissesToReset THEN o.misses ELSE o.misses + 1,
             committed |-> FALSE, delay |-> o.delay, executed |-> o.executed]
    BY <1>0, <1>4 DEF AfterRound, Missed
  <2> HIDE DEF n
  <2>2. o.delay = 0
    BY <1>0, <1>a, <1>4
  <2>3. n \in Counters
    BY <1>0, <1>a, <1>4, <2>1, <2>2 DEF Counters
  <2> QED BY <1>4, <2>1, <2>2, <2>3 DEF n
<1> QED BY <1>1, <1>2, <1>3, <1>4

\* ... and several of them.  The first that commits leaves the rest to wait.
LEMMA SeveralRounds ==
  ASSUME NEW k \in Nat \ {0}, NEW o \in Counters, NEW qualified \in BOOLEAN
  PROVE  /\ AfterRounds(k, o, qualified) \in Counters
         /\ ~o.committed => AfterRounds(k, o, qualified).delay <= k - 1
         /\ o.committed => AfterRounds(k, o, qualified).committed
<1>1. PICK after : /\ after[0] = o /\ after[k] = AfterRounds(k, o, qualified)
                   /\ \A i \in 1 .. k :
                        after[i] = AfterRound(after[i - 1], i = 1 /\ qualified)
  BY RoundByRound
<1> DEFINE S == {n \in Nat : n + 1 \in 1 .. k =>
                   /\ after[n + 1] \in Counters
                   /\ ~o.committed => after[n + 1].delay <= n
                   /\ o.committed => after[n + 1].committed}
<1>2. 0 \in S
  <2>1. 1 \in 1 .. k /\ after[1] = AfterRound(o, 1 = 1 /\ qualified)
    BY <1>1
  <2>2. /\ after[1] \in Counters
        /\ ~o.committed => after[1].delay = 0
        /\ o.committed => after[1].committed
    BY <2>1, OneRound
  <2> QED BY <2>2
<1>3. ASSUME NEW n \in S PROVE n + 1 \in S
  <2> SUFFICES ASSUME n + 2 \in 1 .. k
               PROVE  /\ after[n + 2] \in Counters
                      /\ ~o.committed => after[n + 2].delay <= n + 1
                      /\ o.committed => after[n + 2].committed
    OBVIOUS
  <2>1. n \in Nat /\ n + 1 \in 1 .. k
    OBVIOUS
  <2>2. /\ after[n + 1] \in Counters
        /\ ~o.committed => after[n + 1].delay <= n
        /\ o.committed => after[n + 1].committed
    BY <2>1
  <2>3. after[n + 2] = AfterRound(after[n + 1], FALSE)
    <3>1. (n + 2) - 1 = n + 1 /\ n + 2 # 1
      BY <2>1
    <3>2. after[n + 2] = AfterRound(after[(n + 2) - 1], n + 2 = 1 /\ qualified)
      BY <1>1
    <3> QED BY <3>1, <3>2
  <2> DEFINE p == after[n + 1]
             q == after[n + 2]
  <2> HIDE DEF p, q
  <2>4. /\ p \in Counters /\ q = AfterRound(p, FALSE)
        /\ ~o.committed => p.delay <= n
        /\ o.committed => p.committed
    BY <2>2, <2>3 DEF p, q
  <2>5. /\ q \in Counters
        /\ p.committed => q.committed /\ q.delay <= p.delay + 1
        /\ ~p.committed => q.delay = 0
    BY <2>4, OneRound
  <2>6. p.delay \in 0 .. DelayCycles /\ q.delay \in 0 .. DelayCycles /\ p.committed \in BOOLEAN
    BY <2>4, <2>5 DEF Counters
  <2>7. ASSUME ~o.committed PROVE q.delay <= n + 1
    <3>1. p.delay \in Int /\ q.delay \in Int
      BY <2>6
    <3>a. p.delay <= n
      BY <2>4, <2>7
    <3>2. CASE p.committed
      BY <2>1, <2>5, <3>1, <3>a, <3>2
    <3>3. CASE ~p.committed
      BY <2>1, <2>5, <3>1, <3>3
    <3> QED BY <2>6, <3>2, <3>3
  <2> QED BY <2>4, <2>5, <2>7 DEF q
<1> HIDE DEF S
<1>4. S = Nat
  <2>1. S \in SUBSET Nat
    BY DEF S
  <2> QED BY <1>2, <1>3, <2>1, Induction
<1>5. k - 1 \in S /\ (k - 1) + 1 = k
  BY <1>4
<1>6. /\ after[k] \in Counters
      /\ ~o.committed => after[k].delay <= k - 1
      /\ o.committed => after[k].committed
  BY <1>5 DEF S
<1> QED BY <1>1, <1>6

-----------------------------------------------------------------------------
(* Streaks.  s is a history, of which only the first l rounds are looked at. *)

\* No MissesToReset rounds in succession between f and l are all misses.
Unbroken(s, f, l) ==
  \A i \in f .. l - MissesToReset + 1 : \E j \in i .. i + MissesToReset - 1 : s[j]

\* The rounds between f and l that qualified.
Count(s, f, l) == Cardinality({i \in f .. l : s[i]})

\* The latest m rounds are misses.
Missing(s, l, m) == m <= l /\ \A i \in l - m + 1 .. l : ~s[i]

\* No streak up to now is longer than c, ...
Bounded(s, l, c) == \A f \in 1 .. l : Unbroken(s, f, l) => Count(s, f, l) <= c

\* ... and one is as long.  It began not too long ago.
Reaches(s, l, c, m) ==
  \E f \in 1 .. l :
    /\ Unbroken(s, f, l) /\ Count(s, f, l) = c
    /\ l - f + 1 <= (c - 1) * MissesToReset + 1 + m
    /\ f <= l - m /\ s[l - m]

\* No streak, up to now or earlier, is long enough.
NoStreak(s, l) ==
  \A f \in 1 .. l, last \in 1 .. l :
    ~(Unbroken(s, f, last) /\ Count(s, f, last) >= CyclesToCommit)

\* The counters say of the history what they should.
Follows(s, l, c, m) ==
  /\ Missing(s, l, m) /\ Bounded(s, l, c) /\ NoStreak(s, l)
  /\ c > 0 => m < MissesToReset /\ Reaches(s, l, c, m)

\* s says of the first n rounds whether they qualified.
History(s, n) == \A i \in 1 .. n : s[i] \in BOOLEAN

\* Counting rounds.
LEMMA CountFinite ==
  ASSUME NEW s, NEW f \in Int, NEW l \in Int
  PROVE  IsFiniteSet({i \in f .. l : s[i]})
<1>1. IsFiniteSet(f .. l)
  BY FS_Interval
<1>2. {i \in f .. l : s[i]} \in SUBSET (f .. l)
  OBVIOUS
<1> QED BY <1>1, <1>2, FS_Subset

\* ... gives a number, ...
LEMMA CountType ==
  ASSUME NEW s, NEW f \in Int, NEW l \in Int
  PROVE  Count(s, f, l) \in Nat
BY CountFinite, FS_CardinalityType DEF Count

\* ... zero if there are none.
LEMMA CountNone ==
  ASSUME NEW s, NEW f \in Int, NEW l \in Int, \A i \in f .. l : ~s[i]
  PROVE  Count(s, f, l) = 0
<1>1. {i \in f .. l : s[i]} = {}
  OBVIOUS
<1> QED BY <1>1, FS_EmptySet DEF Count

\* One round more.
LEMMA CountNext ==
  ASSUME NEW s, NEW f \in Int, NEW l \in Int, f <= l + 1
  PROVE  /\ s[l + 1] => Count(s, f, l + 1) = Count(s, f, l) + 1
         /\ ~s[l + 1] => Count(s, f, l + 1) = Count(s, f, l)
<1> DEFINE S == {i \in f .. l : s[i]}
           T == {i \in f .. l + 1 : s[i]}
<1>1. IsFiniteSet(S)
  BY CountFinite
<1>a. l + 1 \notin S
  OBVIOUS
<1>2. ASSUME s[l + 1] PROVE T = S \cup {l + 1}
  <2>1. \A i \in T : i \in S \cup {l + 1}
    OBVIOUS
  <2>2. \A i \in S \cup {l + 1} : i \in T
    BY <1>2
  <2> QED BY <2>1, <2>2
<1>3. ASSUME ~s[l + 1] PROVE T = S
  <2>1. \A i \in T : i \in S
    BY <1>3
  <2>2. \A i \in S : i \in T
    OBVIOUS
  <2> QED BY <2>1, <2>2
<1>4. Count(s, f, l) = Cardinality(S) /\ Count(s, f, l + 1) = Cardinality(T)
  BY DEF Count
<1> HIDE DEF S, T
<1>5. Cardinality(S \cup {l + 1}) = Cardinality(S) + 1
  BY <1>1, <1>a, FS_AddElement
<1> QED BY <1>2, <1>3, <1>4, <1>5

\* The same rounds under other numbers.
LEMMA CountShift ==
  ASSUME NEW s, NEW t, NEW d \in Int, NEW f \in Int, NEW l \in Int,
         \A i \in f .. l : t[i] = s[i + d]
  PROVE  Count(t, f, l) = Count(s, f + d, l + d)
<1> DEFINE S == {i \in f .. l : t[i]}
           T == {i \in f + d .. l + d : s[i]}
           g == [i \in S |-> i + d]
<1>1. IsFiniteSet(S)
  BY CountFinite
<1>2. \A i \in S : g[i] \in T
  OBVIOUS
<1>3. \A i, j \in S : g[i] = g[j] => i = j
  OBVIOUS
<1>4. \A j \in T : \E i \in S : g[i] = j
  <2> SUFFICES ASSUME NEW j \in T PROVE j - d \in S /\ g[j - d] = j
    OBVIOUS
  <2>1. j \in Int /\ j - d \in f .. l /\ (j - d) + d = j /\ s[j]
    OBVIOUS
  <2>2. t[j - d] = s[(j - d) + d]
    BY <2>1
  <2> QED BY <2>1, <2>2
<1>5. g \in [S -> T]
  BY <1>2
<1>6. Count(t, f, l) = Cardinality(S) /\ Count(s, f + d, l + d) = Cardinality(T)
  BY DEF Count
<1> HIDE DEF S, T, g
<1>7. g \in Bijection(S, T)
  BY <1>3, <1>4, <1>5 DEF Bijection, Injection, IsInjective, Surjection
<1>8. ExistsBijection(S, T)
  BY <1>7 DEF ExistsBijection
<1> QED BY <1>1, <1>6, <1>8, FS_Bijection

-----------------------------------------------------------------------------
(* What a round makes of the history and the counters *)

\* A streak that goes on does so from where it was.
LEMMA UnbrokenBefore ==
  ASSUME NEW s, NEW f \in Nat, NEW l \in Nat, Unbroken(s, f, l + 1)
  PROVE  Unbroken(s, f, l)
<1>1. MissesToReset \in Nat
  OBVIOUS
<1>2. ASSUME NEW i \in f .. l - MissesToReset + 1
      PROVE  \E j \in i .. i + MissesToReset - 1 : s[j]
  <2>1. i \in f .. (l + 1) - MissesToReset + 1
    BY <1>1
  <2> QED BY <2>1 DEF Unbroken
<1> QED BY <1>2 DEF Unbroken

\* It goes on if one of the latest rounds has qualified.
LEMMA UnbrokenAfter ==
  ASSUME NEW s, NEW f \in Nat, NEW l \in Nat, Unbroken(s, f, l),
         NEW j \in l - MissesToReset + 2 .. l + 1, s[j]
  PROVE  Unbroken(s, f, l + 1)
<1>1. MissesToReset \in Nat
  OBVIOUS
<1>2. ASSUME NEW i \in f .. (l + 1) - MissesToReset + 1
      PROVE  \E n \in i .. i + MissesToReset - 1 : s[n]
  <2>1. CASE i \in f .. l - MissesToReset + 1
    BY <2>1 DEF Unbroken
  <2>2. CASE i = l - MissesToReset + 2
    <3>1. j \in i .. i + MissesToReset - 1
      BY <1>1, <2>2
    <3> QED BY <3>1
  <2> QED BY <1>1, <2>1, <2>2
<1> QED BY <1>2 DEF Unbroken

\* No streak has been missed.
LEMMA NoStreakYet ==
  ASSUME NEW s, NEW l \in Nat, NEW c \in Nat, NoStreak(s, l), Bounded(s, l + 1, c),
         c < CyclesToCommit
  PROVE  NoStreak(s, l + 1)
<1>1. ASSUME NEW f \in 1 .. l + 1, NEW last \in 1 .. l + 1,
             Unbroken(s, f, last), Count(s, f, last) >= CyclesToCommit
      PROVE  FALSE
  <2>1. CASE last = l + 1
    <3>1. Count(s, f, l + 1) <= c
      BY <1>1, <2>1 DEF Bounded
    <3>2. Count(s, f, l + 1) \in Nat
      BY CountType
    <3> QED BY <1>1, <2>1, <3>1, <3>2
  <2>2. CASE last # l + 1 /\ f # l + 1
    <3>1. f \in 1 .. l /\ last \in 1 .. l
      BY <2>2
    <3> QED BY <1>1, <3>1 DEF NoStreak
  <2>3. CASE last # l + 1 /\ f = l + 1
    <3>1. \A i \in f .. last : ~s[i]
      BY <2>3
    <3>2. Count(s, f, last) = 0
      BY <3>1, CountNone
    <3> QED BY <1>1, <3>2
  <2> QED BY <2>1, <2>2, <2>3
<1> QED BY <1>1 DEF NoStreak

\* A round that qualifies: the streak is longer by one.
LEMMA BoundedQualified ==
  ASSUME NEW s, NEW l \in Nat, NEW c \in Nat, Bounded(s, l, c), s[l + 1]
  PROVE  Bounded(s, l + 1, c + 1)
<1>1. ASSUME NEW f \in 1 .. l + 1, Unbroken(s, f, l + 1)
      PROVE  Count(s, f, l + 1) <= c + 1
  <2>1. Count(s, f, l + 1) = Count(s, f, l) + 1 /\ Count(s, f, l) \in Nat
    BY CountNext, CountType
  <2>2. CASE f = l + 1
    <3>1. \A i \in f .. l : ~s[i]
      BY <2>2
    <3>2. Count(s, f, l) = 0
      BY <3>1, CountNone
    <3> QED BY <2>1, <3>2
  <2>3. CASE f \in 1 .. l
    <3>1. Count(s, f, l) <= c
      BY <1>1, <2>3, UnbrokenBefore DEF Bounded
    <3> QED BY <2>1, <3>1
  <2> QED BY <2>2, <2>3
<1> QED BY <1>1 DEF Bounded

\* ... and began where it did, or with this round.
LEMMA ReachesQualified ==
  ASSUME NEW s, NEW l \in Nat, NEW c \in Nat, NEW m \in Nat, Bounded(s, l, c), s[l + 1],
         c > 0 => m < MissesToReset /\ Reaches(s, l, c, m)
  PROVE  Reaches(s, l + 1, c + 1, 0)
<1>0. MissesToReset \in Nat \ {0} /\ (c + 1 - 1) * MissesToReset = c * MissesToReset
  OBVIOUS
<1>1. CASE c > 0
  <2>1. m < MissesToReset /\ Reaches(s, l, c, m)
    BY <1>1
  <2>2. PICK f \in 1 .. l :
          /\ Unbroken(s, f, l) /\ Count(s, f, l) = c
          /\ l - f + 1 <= (c - 1) * MissesToReset + 1 + m
    BY <2>1 DEF Reaches
  <2>3. Unbroken(s, f, l + 1)
    <3>1. l + 1 \in l - MissesToReset + 2 .. l + 1
      BY <1>0
    <3> QED BY <2>2, <3>1, UnbrokenAfter
  <2>4. Count(s, f, l + 1) = c + 1
    BY <2>2, CountNext
  <2>5. (c - 1) * MissesToReset + MissesToReset = c * MissesToReset
    BY <1>0
  <2>6. (c - 1) * MissesToReset \in Int /\ c * MissesToReset \in Int
    BY <1>0
  <2>7. (l + 1) - f + 1 <= c * MissesToReset + 1 + 0
    BY <1>0, <2>1, <2>2, <2>5, <2>6
  <2>8. f \in 1 .. l + 1 /\ f <= (l + 1) - 0 /\ s[(l + 1) - 0]
    BY <2>2
  <2> QED BY <1>0, <2>3, <2>4, <2>7, <2>8 DEF Reaches
<1>2. CASE c = 0
  <2>1. Unbroken(s, l + 1, l + 1)
    <3>1. ASSUME NEW i \in l + 1 .. (l + 1) - MissesToReset + 1
          PROVE  \E j \in i .. i + MissesToReset - 1 : s[j]
      <4>1. i = l + 1 /\ l + 1 \in i .. i + MissesToReset - 1
        BY <1>0
      <4> QED BY <4>1
    <3> QED BY <3>1 DEF Unbroken
  <2>2. Count(s, l + 1, l + 1) = 1
    <3>1. Count(s, l + 1, l + 1) = Count(s, l + 1, l) + 1
      BY CountNext
    <3>2. \A i \in l + 1 .. l : ~s[i]
      OBVIOUS
    <3>3. Count(s, l + 1, l) = 0
      BY <3>2, CountNone
    <3> QED BY <3>1, <3>3
  <2>3. (l + 1) - (l + 1) + 1 <= 0 * MissesToReset + 1 + 0
    BY <1>0
  <2>4. l + 1 \in 1 .. l + 1 /\ l + 1 <= (l + 1) - 0 /\ s[(l + 1) - 0]
    OBVIOUS
  <2> QED BY <1>0, <1>2, <2>1, <2>2, <2>3, <2>4 DEF Reaches
<1> QED BY <1>1, <1>2

\* A miss: the streak stays as long as it is, unless it is one too many.
LEMMA MissingMissed ==
  ASSUME NEW s, NEW l \in Nat, NEW m \in Nat, Missing(s, l, m), ~s[l + 1], NEW n \in Nat,
         n <= m + 1
  PROVE  Missing(s, l + 1, n)
<1>1. n <= l + 1
  BY DEF Missing
<1>2. ASSUME NEW i \in (l + 1) - n + 1 .. l + 1 PROVE ~s[i]
  <2>1. CASE i = l + 1
    BY <2>1
  <2>2. CASE i # l + 1
    <3>1. i \in l - m + 1 .. l
      BY <2>2 DEF Missing
    <3> QED BY <3>1 DEF Missing
  <2> QED BY <2>1, <2>2
<1> QED BY <1>1, <1>2 DEF Missing

\* ... too short to be one too many:
LEMMA BoundedMissed ==
  ASSUME NEW s, NEW l \in Nat, NEW c \in Nat, Bounded(s, l, c), ~s[l + 1]
  PROVE  Bounded(s, l + 1, c)
<1>1. ASSUME NEW f \in 1 .. l + 1, Unbroken(s, f, l + 1)
      PROVE  Count(s, f, l + 1) <= c
  <2>1. Count(s, f, l + 1) = Count(s, f, l)
    BY CountNext
  <2>2. CASE f = l + 1
    <3>1. \A i \in f .. l : ~s[i]
      BY <2>2
    <3>2. Count(s, f, l) = 0
      BY <3>1, CountNone
    <3> QED BY <2>1, <3>2
  <2>3. CASE f \in 1 .. l
    BY <1>1, <2>1, <2>3, UnbrokenBefore DEF Bounded
  <2> QED BY <2>2, <2>3
<1> QED BY <1>1 DEF Bounded

\* ... and one too many:
LEMMA BoundedLost ==
  ASSUME NEW s, NEW l \in Nat, Missing(s, l, MissesToReset)
  PROVE  Bounded(s, l, 0)
<1>0. MissesToReset \in Nat \ {0} /\ MissesToReset <= l
  BY DEF Missing
<1>1. ASSUME NEW f \in 1 .. l, Unbroken(s, f, l) PROVE Count(s, f, l) <= 0
  <2>1. f > l - MissesToReset + 1
    <3>1. SUFFICES ASSUME f <= l - MissesToReset + 1 PROVE FALSE
      BY <1>0
    <3> DEFINE i == l - MissesToReset + 1
    <3>2. i \in f .. l - MissesToReset + 1
      BY <1>0, <3>1
    <3>3. PICK j \in i .. i + MissesToReset - 1 : s[j]
      BY <1>1, <3>2 DEF Unbroken
    <3>4. j \in l - MissesToReset + 1 .. l
      BY <1>0
    <3> QED BY <3>3, <3>4 DEF Missing
  <2>2. \A i \in f .. l : i \in l - MissesToReset + 1 .. l
    BY <1>0, <2>1
  <2>3. \A i \in f .. l : ~s[i]
    BY <2>2 DEF Missing
  <2>4. Count(s, f, l) = 0
    BY <2>3, CountNone
  <2> QED BY <2>4
<1> QED BY <1>1 DEF Bounded

\* The streak that began began as long ago, and one round more.
LEMMA ReachesMissed ==
  ASSUME NEW s, NEW l \in Nat, NEW c \in Nat, NEW m \in Nat, Reaches(s, l, c, m), ~s[l + 1],
         m + 1 < MissesToReset
  PROVE  Reaches(s, l + 1, c, m + 1)
<1>0. MissesToReset \in Nat \ {0} /\ (c - 1) * MissesToReset \in Int
  OBVIOUS
<1>1. PICK f \in 1 .. l :
        /\ Unbroken(s, f, l) /\ Count(s, f, l) = c
        /\ l - f + 1 <= (c - 1) * MissesToReset + 1 + m
        /\ f <= l - m /\ s[l - m]
  BY DEF Reaches
<1>2. Unbroken(s, f, l + 1)
  <2>1. l - m \in l - MissesToReset + 2 .. l + 1
    BY <1>0
  <2> QED BY <1>1, <2>1, UnbrokenAfter
<1>3. Count(s, f, l + 1) = c
  BY <1>1, CountNext
<1>4. (l + 1) - f + 1 <= (c - 1) * MissesToReset + 1 + (m + 1)
  BY <1>0, <1>1
<1>5. f \in 1 .. l + 1 /\ (l + 1) - (m + 1) = l - m
  OBVIOUS
<1> QED BY <1>1, <1>2, <1>3, <1>4, <1>5 DEF Reaches

-----------------------------------------------------------------------------
(* One round, several rounds, and the history that is kept of them *)

\* A streak that is long enough ends with round l.
Completed(s, l) ==
  \E f \in 1 .. l :
    /\ Unbroken(s, f, l) /\ Count(s, f, l) = CyclesToCommit
    /\ l - f + 1 <= (CyclesToCommit - 1) * MissesToReset + 1

\* The counters follow the history, and commit when a streak is completed.
LEMMA FollowsRound ==
  ASSUME NEW s, NEW l \in Nat, NEW o \in Counters, ~o.committed, s[l + 1] \in BOOLEAN,
         Follows(s, l, o.cycles, o.misses), NEW n, n = AfterRound(o, s[l + 1])
  PROVE  IF n.committed THEN s[l + 1] /\ Completed(s, l + 1)
         ELSE Follows(s, l + 1, n.cycles, n.misses)
<1>0. /\ CyclesToCommit \in Nat \ {0} /\ MissesToReset \in Nat \ {0} /\ DelayCycles \in Nat \ {0}
  OBVIOUS
<1>1. /\ o \in [cycles : 0 .. CyclesToCommit, misses : 0 .. MissesToReset,
                committed : BOOLEAN, delay : 0 .. DelayCycles, executed : BOOLEAN]
      /\ o.executed <=> o.delay = DelayCycles
      /\ o.cycles = CyclesToCommit <=> o.committed
      /\ o.delay # 0 => o.committed
  BY DEF Counters
<1>2. ~o.executed
  BY <1>0, <1>1
<1> DEFINE c == o.cycles
           m == o.misses
<1>3. c \in 0 .. CyclesToCommit /\ c # CyclesToCommit /\ m \in 0 .. MissesToReset
  BY <1>1
<1>4. /\ Missing(s, l, m) /\ Bounded(s, l, c) /\ NoStreak(s, l)
      /\ c > 0 => m < MissesToReset /\ Reaches(s, l, c, m)
  BY DEF Follows
<1>5. CASE s[l + 1]
  <2>1. n.cycles = c + 1 /\ n.misses = 0 /\ n.committed = (c + 1 >= CyclesToCommit)
    BY <1>1, <1>2, <1>5 DEF AfterRound, Qualified
  <2> HIDE DEF c, m
  <2>2. c \in Nat /\ m \in Nat /\ c + 1 <= CyclesToCommit
    BY <1>0, <1>3
  <2>3. Bounded(s, l + 1, c + 1)
    BY <1>4, <1>5, <2>2, BoundedQualified
  <2>4. Reaches(s, l + 1, c + 1, 0)
    BY <1>4, <1>5, <2>2, ReachesQualified
  <2>5. CASE c + 1 >= CyclesToCommit
    <3>1. c + 1 = CyclesToCommit
      BY <1>0, <2>2, <2>5
    <3>2. PICK f \in 1 .. l + 1 :
            /\ Unbroken(s, f, l + 1) /\ Count(s, f, l + 1) = CyclesToCommit
            /\ (l + 1) - f + 1 <= (CyclesToCommit - 1) * MissesToReset + 1 + 0
      BY <2>4, <3>1 DEF Reaches
    <3>3. (CyclesToCommit - 1) * MissesToReset \in Int
      BY <1>0
    <3>4. Completed(s, l + 1)
      BY <3>2, <3>3 DEF Completed
    <3> QED BY <1>5, <2>1, <2>5, <3>4
  <2>6. CASE ~(c + 1 >= CyclesToCommit)
    <3>1. NoStreak(s, l + 1)
      BY <1>0, <1>4, <2>2, <2>3, <2>6, NoStreakYet
    <3>2. Missing(s, l + 1, 0)
      BY DEF Missing
    <3>3. 0 < MissesToReset
      BY <1>0
    <3>4. Follows(s, l + 1, c + 1, 0)
      BY <2>3, <2>4, <3>1, <3>2, <3>3 DEF Follows
    <3> QED BY <2>1, <2>6, <3>4
  <2> QED BY <2>5, <2>6
<1>6. CASE ~s[l + 1]
  <2>1. /\ n.cycles = (IF m + 1 < MissesToReset THEN c ELSE 0) /\ n.committed = FALSE
        /\ n.misses = (IF m = MissesToReset THEN m ELSE m + 1)
    BY <1>1, <1>2, <1>6 DEF AfterRound, Missed
  <2> HIDE DEF c, m
  <2>2. c \in Nat /\ m \in Nat /\ c < CyclesToCommit /\ m <= MissesToReset
    BY <1>0, <1>3
  <2>3. CASE m + 1 < MissesToReset
    <3>1. n.cycles = c /\ n.misses = m + 1
      BY <1>0, <2>1, <2>2, <2>3
    <3>2. Missing(s, l + 1, m + 1)
      BY <1>4, <1>6, <2>2, MissingMissed
    <3>3. Bounded(s, l + 1, c)
      BY <1>4, <1>6, <2>2, BoundedMissed
    <3>4. NoStreak(s, l + 1)
      BY <1>4, <2>2, <3>3, NoStreakYet
    <3>5. c > 0 => Reaches(s, l + 1, c, m + 1)
      BY <1>4, <1>6, <2>2, <2>3, ReachesMissed
    <3> QED BY <2>1, <2>3, <3>1, <3>2, <3>3, <3>4, <3>5 DEF Follows
  <2>4. CASE ~(m + 1 < MissesToReset)
    <3>1. n.cycles = 0 /\ n.misses = MissesToReset /\ MissesToReset <= m + 1
      BY <1>0, <2>1, <2>2, <2>4
    <3>2. Missing(s, l + 1, MissesToReset)
      BY <1>0, <1>4, <1>6, <2>2, <3>1, MissingMissed
    <3>3. Bounded(s, l + 1, 0)
      BY <1>0, <3>2, BoundedLost
    <3>4. NoStreak(s, l + 1)
      BY <1>0, <1>4, <3>3, NoStreakYet
    <3> QED BY <2>1, <3>1, <3>2, <3>3, <3>4 DEF Follows
  <2> QED BY <2>3, <2>4
<1> QED BY <1>5, <1>6

\* k rounds after l of them, of which only the first may have qualified.
LEMMA FollowsRounds ==
  ASSUME NEW s, NEW l \in Nat, NEW o \in Counters, ~o.committed,
         NEW k \in Nat \ {0}, NEW qualified \in BOOLEAN,
         \A i \in 1 .. k : s[l + i] = (i = 1 /\ qualified),
         Follows(s, l, o.cycles, o.misses),
         NEW n, n = AfterRounds(k, o, qualified)
  PROVE  IF n.committed THEN Completed(s, l + 1)
         ELSE Follows(s, l + k, n.cycles, n.misses)
<1>1. PICK after : /\ after[0] = o /\ after[k] = AfterRounds(k, o, qualified)
                   /\ \A i \in 1 .. k :
                        after[i] = AfterRound(after[i - 1], i = 1 /\ qualified)
  BY RoundByRound
<1> DEFINE Good(p, i) == /\ p \in Counters
                         /\ IF p.committed THEN Completed(s, l + 1)
                            ELSE Follows(s, l + i, p.cycles, p.misses)
           S == {i \in Nat : i + 1 \in 1 .. k => Good(after[i + 1], i + 1)}
<1>2. 0 \in S
  <2>1. 1 \in 1 .. k /\ after[1] = AfterRound(o, 1 = 1 /\ qualified)
    BY <1>1
  <2>2. s[l + 1] = qualified
    BY <2>1
  <2>3. after[1] = AfterRound(o, s[l + 1])
    BY <2>1, <2>2
  <2>4. after[1] \in Counters
    BY <2>1, OneRound
  <2>5. IF after[1].committed THEN s[l + 1] /\ Completed(s, l + 1)
        ELSE Follows(s, l + 1, after[1].cycles, after[1].misses)
    BY <2>2, <2>3, FollowsRound
  <2> QED BY <2>4, <2>5
<1>3. ASSUME NEW i \in S PROVE i + 1 \in S
  <2> SUFFICES ASSUME i + 2 \in 1 .. k PROVE Good(after[i + 2], i + 2)
    OBVIOUS
  <2>1. i \in Nat /\ i + 1 \in 1 .. k
    OBVIOUS
  <2> DEFINE p == after[i + 1]
             q == after[i + 2]
  <2>2. Good(p, i + 1)
    BY <2>1
  <2>3. s[l + (i + 2)] = FALSE
    <3>1. s[l + (i + 2)] = (i + 2 = 1 /\ qualified)
      OBVIOUS
    <3>2. i + 2 # 1
      BY <2>1
    <3> QED BY <3>1, <3>2
  <2>4. q = AfterRound(p, FALSE)
    <3>1. (i + 2) - 1 = i + 1 /\ i + 2 # 1
      BY <2>1
    <3>2. after[i + 2] = AfterRound(after[(i + 2) - 1], i + 2 = 1 /\ qualified)
      BY <1>1
    <3> QED BY <3>1, <3>2
  <2> HIDE DEF p, q
  <2>5. p \in Counters /\ q \in Counters /\ (p.committed => q.committed)
    BY <2>2, <2>4, OneRound
  <2>6. CASE p.committed
    BY <2>2, <2>5, <2>6 DEF q
  <2>7. CASE ~p.committed
    <3> DEFINE r == l + (i + 1)
    <3>1. r \in Nat /\ r + 1 = l + (i + 2)
      BY <2>1
    <3>2. Follows(s, r, p.cycles, p.misses)
      BY <2>2, <2>7
    <3> HIDE DEF r
    <3>3. s[r + 1] = FALSE /\ q = AfterRound(p, s[r + 1])
      BY <2>3, <2>4, <3>1
    <3>4. IF q.committed THEN s[r + 1] /\ Completed(s, r + 1)
          ELSE Follows(s, r + 1, q.cycles, q.misses)
      BY <2>5, <2>7, <3>1, <3>2, <3>3, FollowsRound
    <3> QED BY <2>5, <3>1, <3>3, <3>4 DEF q
  <2> QED BY <2>6, <2>7
<1> HIDE DEF S
<1>4. S = Nat
  <2>1. S \in SUBSET Nat
    BY DEF S
  <2> QED BY <1>2, <1>3, <2>1, Induction
<1>5. k - 1 \in S /\ (k - 1) + 1 = k
  BY <1>4
<1>6. Good(after[k], k)
  BY <1>5 DEF S
<1> QED BY <1>1, <1>6

\* What is kept of the history, t, is all that matters of it.
LEMMA UnbrokenShift ==
  ASSUME NEW s, NEW t, NEW d \in Nat, NEW f \in Nat, NEW l \in Nat,
         \A i \in f .. l : t[i] = s[i + d]
  PROVE  Unbroken(t, f, l) <=> Unbroken(s, f + d, l + d)
<1>0. MissesToReset \in Nat \ {0}
  OBVIOUS
<1>1. ASSUME Unbroken(t, f, l), NEW i \in f + d .. (l + d) - MissesToReset + 1
      PROVE  \E j \in i .. i + MissesToReset - 1 : s[j]
  <2>1. i - d \in f .. l - MissesToReset + 1
    BY <1>0
  <2>2. PICK j \in i - d .. (i - d) + MissesToReset - 1 : t[j]
    BY <1>1, <2>1 DEF Unbroken
  <2>3. j \in f .. l /\ j + d \in i .. i + MissesToReset - 1
    BY <1>0, <2>1
  <2> QED BY <2>2, <2>3
<1>2. ASSUME Unbroken(s, f + d, l + d), NEW i \in f .. l - MissesToReset + 1
      PROVE  \E j \in i .. i + MissesToReset - 1 : t[j]
  <2>1. i + d \in f + d .. (l + d) - MissesToReset + 1
    BY <1>0
  <2>2. PICK j \in i + d .. (i + d) + MissesToReset - 1 : s[j]
    BY <1>2, <2>1 DEF Unbroken
  <2>3. j - d \in f .. l /\ j - d \in i .. i + MissesToReset - 1 /\ (j - d) + d = j
    BY <1>0, <2>1
  <2>4. t[j - d] = s[(j - d) + d]
    BY <2>3
  <2> QED BY <2>2, <2>3, <2>4
<1>3. Unbroken(t, f, l) => Unbroken(s, f + d, l + d)
  BY <1>1 DEF Unbroken
<1>4. Unbroken(s, f + d, l + d) => Unbroken(t, f, l)
  BY <1>2 DEF Unbroken
<1> QED BY <1>3, <1>4

\* The longest streak that has not been committed fits in the window.
LEMMA StreakFits ==
  ASSUME NEW c \in Nat, c < CyclesToCommit, NEW m \in Nat, m < MissesToReset
  PROVE  (c - 1) * MissesToReset + 1 + m <= Window
<1>0. CyclesToCommit \in Nat /\ MissesToReset \in Nat /\ Window \in Int
  OBVIOUS
<1>1. CyclesToCommit * MissesToReset <= Window
  OBVIOUS
<1>2. (c - 1) * MissesToReset + MissesToReset = c * MissesToReset
  BY <1>0
<1>3. c * MissesToReset <= CyclesToCommit * MissesToReset
  <2>1. PICK e \in Nat : CyclesToCommit = c + e
    <3>1. CyclesToCommit - c \in Nat /\ CyclesToCommit = c + (CyclesToCommit - c)
      BY <1>0
    <3> QED BY <3>1
  <2>2. CyclesToCommit * MissesToReset = c * MissesToReset + e * MissesToReset
    BY <1>0, <2>1
  <2>3. e * MissesToReset \in Nat /\ c * MissesToReset \in Nat
    BY <1>0
  <2> QED BY <2>2, <2>3
<1>4. (c - 1) * MissesToReset \in Int /\ c * MissesToReset \in Int
      /\ CyclesToCommit * MissesToReset \in Int
  BY <1>0
<1> QED BY <1>0, <1>1, <1>2, <1>3, <1>4

\* The counters follow what is kept as they followed everything.
LEMMA FollowsShift ==
  ASSUME NEW s, NEW t, NEW d \in Nat, NEW l \in Nat, \A i \in 1 .. l : t[i] = s[i + d],
         d = 0 \/ l = Window,
         NEW c \in Nat, NEW m \in Nat, c < CyclesToCommit, m <= MissesToReset,
         Follows(s, l + d, c, m)
  PROVE  Follows(t, l, c, m)
<1>0. /\ CyclesToCommit \in Nat \ {0} /\ MissesToReset \in Nat \ {0} /\ Window \in Nat
      /\ MissesToReset <= CyclesToCommit * MissesToReset
      /\ CyclesToCommit * MissesToReset <= Window
  OBVIOUS
<1>1. ASSUME NEW f \in 1 .. l, NEW last \in 1 .. l
      PROVE  /\ Unbroken(t, f, last) <=> Unbroken(s, f + d, last + d)
             /\ Count(t, f, last) = Count(s, f + d, last + d)
             /\ f + d \in 1 .. l + d /\ last + d \in 1 .. l + d
  <2>1. \A i \in f .. last : t[i] = s[i + d]
    OBVIOUS
  <2> QED BY <2>1, UnbrokenShift, CountShift
<1>2. Missing(t, l, m)
  <2>1. m <= l
    <3>1. CASE d = 0
      BY <3>1 DEF Follows, Missing
    <3>2. CASE l = Window
      BY <1>0, <3>2
    <3> QED BY <3>1, <3>2
  <2>2. ASSUME NEW i \in l - m + 1 .. l PROVE ~t[i]
    <3>1. i \in 1 .. l /\ i + d \in (l + d) - m + 1 .. l + d
      BY <2>1
    <3> QED BY <3>1 DEF Follows, Missing
  <2> QED BY <2>1, <2>2 DEF Missing
<1>3. Bounded(t, l, c)
  <2>1. ASSUME NEW f \in 1 .. l, Unbroken(t, f, l) PROVE Count(t, f, l) <= c
    <3>1. l \in 1 .. l
      OBVIOUS
    <3>2. Unbroken(s, f + d, l + d) /\ f + d \in 1 .. l + d
      BY <1>1, <2>1, <3>1
    <3>3. Count(s, f + d, l + d) <= c
      BY <3>2 DEF Follows, Bounded
    <3> QED BY <1>1, <3>1, <3>3
  <2> QED BY <2>1 DEF Bounded
<1>4. NoStreak(t, l)
  <2>1. ASSUME NEW f \in 1 .. l, NEW last \in 1 .. l,
               Unbroken(t, f, last), Count(t, f, last) >= CyclesToCommit
        PROVE  FALSE
    <3>1. /\ Unbroken(s, f + d, last + d) /\ Count(s, f + d, last + d) >= CyclesToCommit
          /\ f + d \in 1 .. l + d /\ last + d \in 1 .. l + d
      BY <1>1, <2>1
    <3> QED BY <3>1 DEF Follows, NoStreak
  <2> QED BY <2>1 DEF NoStreak
<1>5. ASSUME c > 0 PROVE m < MissesToReset /\ Reaches(t, l, c, m)
  <2>1. m < MissesToReset /\ Reaches(s, l + d, c, m)
    BY <1>5 DEF Follows
  <2>2. PICK g \in 1 .. l + d :
          /\ Unbroken(s, g, l + d) /\ Count(s, g, l + d) = c
          /\ (l + d) - g + 1 <= (c - 1) * MissesToReset + 1 + m
          /\ g <= (l + d) - m /\ s[(l + d) - m]
    BY <2>1 DEF Reaches
  <2>3. (c - 1) * MissesToReset + 1 + m <= Window /\ (c - 1) * MissesToReset \in Int
    BY <1>0, <2>1, StreakFits
  <2> DEFINE f == g - d
  <2>4. f \in 1 .. l /\ f + d = g
    <3>1. (l + d) - g + 1 <= Window
      BY <1>0, <2>2, <2>3
    <3> QED BY <1>0, <3>1
  <2> HIDE DEF f
  <2>5. l \in 1 .. l
    BY <2>4
  <2>6. Unbroken(t, f, l) /\ Count(t, f, l) = c
    BY <1>1, <2>2, <2>4, <2>5
  <2>7. l - f + 1 <= (c - 1) * MissesToReset + 1 + m
    BY <2>2, <2>3, <2>4
  <2>8. f <= l - m /\ t[l - m]
    <3>1. f <= l - m
      BY <2>2, <2>4
    <3>2. l - m \in 1 .. l /\ (l - m) + d = (l + d) - m
      BY <2>4, <3>1
    <3> QED BY <2>2, <3>1, <3>2
  <2> QED BY <2>1, <2>4, <2>6, <2>7, <2>8 DEF Reaches
<1> QED BY <1>2, <1>3, <1>4, <1>5 DEF Follows

-----------------------------------------------------------------------------
(* The invariant *)

IInv ==
  /\ home \in Beacon
  /\ met \in [healthy : BOOLEAN, home : Beacon]
  /\ oracle \in Counters
  /\ outcomes \in Seq(BOOLEAN)
  /\ ~oracle.committed =>
       Follows(outcomes, Len(outcomes), oracle.cycles, oracle.misses)

HIDE OracleAssumption

\* What AdvanceRounds adds to the history, ...
LEMMA Elapsed ==
  ASSUME NEW k \in Nat, NEW qualified \in BOOLEAN,
         NEW e, e = [i \in 1 .. k |-> i = 1 /\ qualified]
  PROVE  e \in Seq(BOOLEAN) /\ Len(e) = k /\ \A i \in 1 .. k : e[i] = (i = 1 /\ qualified)
<1>1. e \in [1 .. k -> BOOLEAN]
  OBVIOUS
<1>2. \A i \in 1 .. k : e[i] = (i = 1 /\ qualified)
  OBVIOUS
<1>3. e \in Seq(BOOLEAN) /\ Len(e) = k
  BY <1>1
<1> QED BY <1>2, <1>3

\* ... to all of it, s ...
LEMMA Appended ==
  ASSUME NEW old \in Seq(BOOLEAN), NEW e \in Seq(BOOLEAN), NEW s, s = old \o e
  PROVE  /\ s \in Seq(BOOLEAN) /\ Len(s) = Len(old) + Len(e)
         /\ \A i \in 1 .. Len(old) : s[i] = old[i]
         /\ \A i \in 1 .. Len(e) : s[Len(old) + i] = e[i]
<1>0. Len(old) \in Nat /\ Len(e) \in Nat
  OBVIOUS
<1>1. s \in Seq(BOOLEAN) /\ Len(s) = Len(old) + Len(e)
  BY ConcatProperties
<1>2. ASSUME NEW i \in 1 .. Len(old) PROVE s[i] = old[i]
  <2>1. i \in 1 .. Len(old) + Len(e) /\ i <= Len(old)
    BY <1>0
  <2> QED BY <2>1, ConcatProperties
<1>3. ASSUME NEW i \in 1 .. Len(e) PROVE s[Len(old) + i] = e[i]
  <2>1. /\ Len(old) + i \in 1 .. Len(old) + Len(e) /\ ~(Len(old) + i <= Len(old))
        /\ (Len(old) + i) - Len(old) = i
    BY <1>0
  <2>2. (old \o e)[Len(old) + i] = e[(Len(old) + i) - Len(old)]
    BY <2>1, ConcatProperties
  <2> QED BY <2>1, <2>2
<1> QED BY <1>1, <1>2, <1>3

\* ... of which the first rounds are forgotten.
Dropped(s) == IF Len(s) <= Window THEN 0 ELSE Len(s) - Window

\* The latest Window rounds of s.
LEMMA Suffix ==
  ASSUME NEW s \in Seq(BOOLEAN), NEW d \in Nat, Len(s) = Window + d, Window \in Nat,
         NEW t, t = SubSeq(s, d + 1, Len(s))
  PROVE  /\ t \in Seq(BOOLEAN) /\ Len(t) = Window
         /\ \A i \in 1 .. Window : t[i] = s[i + d]
<1>1. Len(s) \in Nat /\ \A i \in d + 1 .. Len(s) : s[i] \in BOOLEAN
  OBVIOUS
<1>2. t \in Seq(BOOLEAN)
  BY <1>1, SubSeqProperties
<1>3. Len(t) = Window
  BY <1>1
<1>4. \A i \in 1 .. Window : t[i] = s[i + d]
  BY <1>1
<1> QED BY <1>2, <1>3, <1>4

\* t is what is kept of the rounds s when the first d are forgotten, ...
Keeps(s, t, d) ==
  /\ t \in Seq(BOOLEAN) /\ d \in Nat /\ Len(s) = Len(t) + d
  /\ d = 0 \/ Len(t) = Window
  /\ \A i \in 1 .. Len(t) : t[i] = s[i + d]

\* ... and s the rounds of old with the k rounds of an advance after them.
Extends(old, k, qualified, s) ==
  /\ s \in Seq(BOOLEAN) /\ Len(s) = Len(old) + k
  /\ \A i \in 1 .. Len(old) : s[i] = old[i]
  /\ \A i \in 1 .. k : s[Len(old) + i] = (i = 1 /\ qualified)

\* Recent forgets the oldest rounds and changes none.
LEMMA Remembered ==
  ASSUME NEW s \in Seq(BOOLEAN), Window \in Nat
  PROVE  Keeps(s, Recent(s), Dropped(s))
<1> DEFINE t == Recent(s)
           d == Dropped(s)
<1>0. Len(s) \in Nat /\ Window \in Nat
  OBVIOUS
<1>1. CASE Len(s) <= Window
  <2>1. t = s /\ d = 0
    BY <1>1 DEF Recent, Dropped
  <2> QED BY <1>0, <2>1 DEF Keeps
<1>2. CASE ~(Len(s) <= Window)
  <2>1. t = SubSeq(s, Len(s) - Window + 1, Len(s)) /\ d = Len(s) - Window
    BY <1>2 DEF Recent, Dropped
  <2>2. d \in Nat /\ Len(s) - Window + 1 = d + 1 /\ Len(s) = Window + d
    BY <1>0, <1>2, <2>1
  <2>3. t = SubSeq(s, d + 1, Len(s))
    BY <2>1, <2>2
  <2> HIDE DEF t, d
  <2>4. /\ t \in Seq(BOOLEAN) /\ Len(t) = Window
        /\ \A i \in 1 .. Window : t[i] = s[i + d]
    BY <1>0, <2>2, <2>3, Suffix
  <2>5. Keeps(s, t, d)
    BY <2>2, <2>4 DEF Keeps
  <2> QED BY <2>5 DEF t, d
<1> QED BY <1>1, <1>2

\* All of this together.
LEMMA KeptOfRounds ==
  ASSUME NEW old \in Seq(BOOLEAN), NEW k \in Nat, NEW qualified \in BOOLEAN, Window \in Nat
  PROVE  LET s == old \o [i \in 1 .. k |-> i = 1 /\ qualified]
         IN  Extends(old, k, qualified, s) /\ Keeps(s, Recent(s), Dropped(s))
<1> DEFINE e == [i \in 1 .. k |-> i = 1 /\ qualified]
           s == old \o e
<1>1. e \in Seq(BOOLEAN) /\ Len(e) = k /\ \A i \in 1 .. k : e[i] = (i = 1 /\ qualified)
  BY Elapsed
<1>2. s = old \o e
  OBVIOUS
<1> HIDE DEF e, s
<1>3. s \in Seq(BOOLEAN) /\ Len(s) = Len(old) + Len(e)
  BY <1>1, <1>2, Appended
<1>4. \A i \in 1 .. Len(old) : s[i] = old[i]
  BY <1>1, <1>2, Appended
<1>5. \A i \in 1 .. Len(e) : s[Len(old) + i] = e[i]
  BY <1>1, <1>2, Appended
<1>6. Keeps(s, Recent(s), Dropped(s))
  BY <1>3, Remembered
<1>7. \A i \in 1 .. k : s[Len(old) + i] = (i = 1 /\ qualified)
  BY <1>1, <1>5
<1>8. Extends(old, k, qualified, s)
  BY <1>1, <1>3, <1>4, <1>7 DEF Extends
<1> QED BY <1>6, <1>8 DEF s, e

USE OracleAssumption

\* A streak whose rounds are all remembered.
LEMMA StreakShift ==
  ASSUME NEW s, NEW t, NEW d, Keeps(s, t, d), NEW g \in Nat, NEW h \in Nat,
         Unbroken(s, g, h), Count(s, g, h) = CyclesToCommit, d < g, g <= h, h <= Len(s)
  PROVE  Streak(t)
<1> DEFINE f == g - d
           last == h - d
<1>1. /\ t \in Seq(BOOLEAN) /\ d \in Nat /\ Len(s) = Len(t) + d
      /\ \A i \in 1 .. Len(t) : t[i] = s[i + d]
  BY DEF Keeps
<1>2. Len(t) \in Nat
  BY <1>1
<1>3. /\ f \in 1 .. Len(t) /\ last \in 1 .. Len(t)
      /\ f \in Nat /\ last \in Nat /\ f \in Int /\ last \in Int /\ d \in Int
      /\ f + d = g /\ last + d = h
  BY <1>1, <1>2
<1> HIDE DEF f, last
<1>4. \A i \in f .. last : t[i] = s[i + d]
  BY <1>1, <1>2, <1>3
<1>5. Unbroken(t, f, last)
  BY <1>1, <1>3, <1>4, UnbrokenShift
<1>6. Count(t, f, last) = Count(s, f + d, last + d)
  <2> HIDE OracleAssumption
  <2> QED BY <1>3, <1>4, CountShift
<1>7. Count(t, f, last) >= CyclesToCommit
  BY <1>3, <1>6
<1> QED BY <1>3, <1>5, <1>7 DEF Streak, Unbroken, Count

\* The invariant's part about the history after an advance of an uncommitted
\* board, and the streak of one that commits.
LEMMA AdvanceKeeps ==
  ASSUME NEW old \in Seq(BOOLEAN), NEW k \in Nat \ {0}, NEW qualified \in BOOLEAN,
         NEW o \in Counters, ~o.committed, Follows(old, Len(old), o.cycles, o.misses),
         NEW n, n = AfterRounds(k, o, qualified),
         NEW s, NEW t, NEW d, Extends(old, k, qualified, s), Keeps(s, t, d)
  PROVE  IF n.committed
         THEN (CyclesToCommit - 1) * MissesToReset + k <= Window => Streak(t)
         ELSE Follows(t, Len(t), n.cycles, n.misses)
<1> DEFINE l == Len(old)
           r == Len(t)
<1>1. t \in Seq(BOOLEAN) /\ d \in Nat /\ l \in Nat
  BY DEF Keeps
<1>2. r \in Nat
  BY <1>1
<1>3. l + k = r + d
  BY DEF Keeps, Extends
<1>4. d = 0 \/ r = Window
  BY DEF Keeps
<1>5. \A i \in 1 .. r : t[i] = s[i + d]
  BY DEF Keeps
<1>6. \A i \in 1 .. l : s[i] = old[i]
  BY DEF Extends
<1>7. \A i \in 1 .. k : s[l + i] = (i = 1 /\ qualified)
  BY DEF Extends
<1>8. Len(t) = r /\ Follows(old, l, o.cycles, o.misses)
  OBVIOUS
<1> HIDE DEF l, r
<1> USE <1>1, <1>2, <1>3, <1>4, <1>5, <1>6, <1>7, <1>8
<1>0. /\ CyclesToCommit \in Nat \ {0} /\ MissesToReset \in Nat \ {0} /\ Window \in Nat
  OBVIOUS
<1>9. /\ o.cycles \in 0 .. CyclesToCommit /\ o.cycles # CyclesToCommit
      /\ o.misses \in 0 .. MissesToReset
  BY DEF Counters
<1>10. Follows(s, l, o.cycles, o.misses)
  <2> DEFINE c == o.cycles
             m == o.misses
  <2>1. c \in Nat /\ m \in Nat /\ c < CyclesToCommit /\ m <= MissesToReset
    BY <1>0, <1>9
  <2>2. Follows(old, l, c, m) /\ l + 0 = l /\ \A i \in 1 .. l : i + 0 = i
    OBVIOUS
  <2> HIDE DEF c, m
  <2>3. Follows(old, l + 0, c, m) /\ \A i \in 1 .. l : s[i] = old[i + 0]
    BY <2>2
  <2>4. Follows(s, l, c, m)
    BY <1>0, <2>1, <2>3, FollowsShift
  <2> QED BY <2>4 DEF c, m
<1>11. IF n.committed THEN Completed(s, l + 1)
      ELSE Follows(s, l + k, n.cycles, n.misses)
  BY <1>0, <1>10, FollowsRounds
<1>12. CASE n.committed
  <2> SUFFICES ASSUME (CyclesToCommit - 1) * MissesToReset + k <= Window PROVE Streak(t)
    BY <1>12
  <2>1. PICK g \in 1 .. l + 1 :
          /\ Unbroken(s, g, l + 1) /\ Count(s, g, l + 1) = CyclesToCommit
          /\ (l + 1) - g + 1 <= (CyclesToCommit - 1) * MissesToReset + 1
    BY <1>11, <1>12 DEF Completed
  <2>2. (CyclesToCommit - 1) * MissesToReset \in Int /\ l + 1 \in Nat /\ g \in Nat
    BY <1>0
  <2>3. g > d /\ g <= l + 1
    BY <1>0, <2>1, <2>2
  <2>4. Len(s) = l + k /\ l + 1 <= Len(s)
    BY DEF Extends, l
  <2> QED BY <2>1, <2>2, <2>3, <2>4, StreakShift
<1>13. CASE ~n.committed
  <2>1. n \in Counters
    BY SeveralRounds
  <2>2. /\ n.cycles \in 0 .. CyclesToCommit /\ n.cycles # CyclesToCommit
        /\ n.misses \in 0 .. MissesToReset
    BY <1>13, <2>1 DEF Counters
  <2> DEFINE c == n.cycles
             m == n.misses
  <2>3. c \in Nat /\ m \in Nat /\ c < CyclesToCommit /\ m <= MissesToReset
    BY <1>0, <2>2
  <2>4. Follows(s, r + d, c, m)
    BY <1>11, <1>13
  <2> HIDE DEF c, m
  <2>6. Follows(t, r, c, m)
    BY <2>3, <2>4, FollowsShift
  <2> QED BY <1>13, <2>6 DEF c, m
<1>14. IF n.committed
       THEN (CyclesToCommit - 1) * MissesToReset + k <= Window => Streak(t)
       ELSE Follows(t, r, n.cycles, n.misses)
  BY <1>12, <1>13
<1> QED BY <1>14 DEF r

\* ... and the same of the history as AdvanceRounds writes it.
LEMMA AdvanceHistory ==
  ASSUME NEW old \in Seq(BOOLEAN), NEW k \in Nat \ {0}, NEW qualified \in BOOLEAN,
         NEW o \in Counters, ~o.committed, Follows(old, Len(old), o.cycles, o.misses),
         NEW n, n = AfterRounds(k, o, qualified),
         NEW t, t = Recent(old \o [i \in 1 .. k |-> i = 1 /\ qualified])
  PROVE  IF n.committed
         THEN (CyclesToCommit - 1) * MissesToReset + k <= Window => Streak(t)
         ELSE Follows(t, Len(t), n.cycles, n.misses)
<1> DEFINE s == old \o [i \in 1 .. k |-> i = 1 /\ qualified]
<1>1. Extends(old, k, qualified, s) /\ Keeps(s, Recent(s), Dropped(s))
  BY KeptOfRounds
<1> HIDE DEF s
<1>2. t = Recent(s)
  BY DEF s
<1> QED BY <1>1, <1>2, AdvanceKeeps

\* The history stays one.
LEMMA KeptHistory ==
  ASSUME NEW old \in Seq(BOOLEAN), NEW k \in Nat, NEW qualified \in BOOLEAN,
         NEW t, t = Recent(old \o [i \in 1 .. k |-> i = 1 /\ qualified])
  PROVE  t \in Seq(BOOLEAN)
<1> DEFINE s == old \o [i \in 1 .. k |-> i = 1 /\ qualified]
<1>1. Keeps(s, Recent(s), Dropped(s))
  BY KeptOfRounds
<1> HIDE DEF s
<1>2. t = Recent(s)
  BY DEF s
<1> QED BY <1>1, <1>2 DEF Keeps

\* Of a board that has not committed, the history has no streak.
LEMMA NoStreakUncommitted ==
  ASSUME NEW s, NEW c, NEW m, Follows(s, Len(s), c, m)
  PROVE  ~Streak(s)
BY DEF Follows, NoStreak, Streak, Unbroken, Count

\* An epoch begins.
LEMMA FollowsIdle ==
  /\ <<>> \in Seq(BOOLEAN) /\ Idle \in Counters /\ ~Idle.committed
  /\ Follows(<<>>, Len(<<>>), Idle.cycles, Idle.misses)
<1>1. Idle \in Counters /\ Idle.cycles = 0 /\ Idle.misses = 0 /\ ~Idle.committed
  BY DEF Idle, Counters
<1>2. Len(<<>>) = 0 /\ <<>> \in Seq(BOOLEAN)
  OBVIOUS
<1>3. Follows(<<>>, 0, 0, 0)
  <2>1. Missing(<<>>, 0, 0)
    BY DEF Missing
  <2>2. Bounded(<<>>, 0, 0)
    BY DEF Bounded
  <2>3. NoStreak(<<>>, 0)
    BY DEF NoStreak
  <2> QED BY <2>1, <2>2, <2>3 DEF Follows
<1> QED BY <1>1, <1>2, <1>3

\* Every step keeps the invariant.
LEMMA Invariance == Spec => []IInv
<1>0. Unmet \in [healthy : BOOLEAN, home : Beacon] /\ NoBssid \in Beacon
  BY DEF Unmet, Beacon
<1>1. Init => IInv
  BY <1>0, FollowsIdle DEF Init, IInv
<1>2. ASSUME IInv, [Next]_vars PROVE IInv'
  <2> USE DEF IInv
  <2>1. ASSUME NEW b \in Beacon, ChangeHome(b) PROVE IInv'
    BY <1>2, <2>1 DEF ChangeHome
  <2>2. CASE FinishHealthyHome
    BY <1>2, <2>2 DEF FinishHealthyHome
  <2>3. ASSUME NEW k \in 1 .. MaxElapsed, NEW gathered \in BOOLEAN, AdvanceRounds(k, gathered)
        PROVE  IInv'
    <3> DEFINE q == RoundQualifies(gathered)
    <3>0. k \in Nat \ {0}
      OBVIOUS
    <3>1. q \in BOOLEAN
      BY DEF RoundQualifies
    <3>2. /\ oracle' = AfterRounds(k, oracle, q)
          /\ outcomes' = Recent(outcomes \o [i \in 1 .. k |-> i = 1 /\ q])
          /\ home' = home /\ met' = [met EXCEPT !.healthy = FALSE]
      BY <2>3 DEF AdvanceRounds
    <3> HIDE DEF q
    <3>3. oracle' \in Counters /\ (oracle.committed => oracle'.committed)
      BY <1>2, <3>0, <3>1, <3>2, SeveralRounds
    <3>4. outcomes' \in Seq(BOOLEAN)
      BY <1>2, <3>0, <3>1, <3>2, KeptHistory
    <3>5. ASSUME ~oracle'.committed
          PROVE  Follows(outcomes', Len(outcomes'), oracle'.cycles, oracle'.misses)
      <4>1. ~oracle.committed /\ Follows(outcomes, Len(outcomes), oracle.cycles, oracle.misses)
        BY <1>2, <3>3, <3>5
      <4> QED BY <1>2, <3>0, <3>1, <3>2, <3>5, <4>1, AdvanceHistory
    <3> QED BY <1>2, <3>2, <3>3, <3>4, <3>5
  <2>4. CASE StartEpoch \/ ColdReset
    BY <1>0, <1>2, <2>4, FollowsIdle DEF StartEpoch, ColdReset
  <2>5. CASE NewSwarmSize
    BY <1>0, <1>2, <2>5, FollowsIdle DEF NewSwarmSize
  <2>6. CASE UNCHANGED vars
    BY <1>2, <2>6 DEF vars
  <2> QED BY <1>2, <2>1, <2>2, <2>3, <2>4, <2>5, <2>6 DEF Next
<1> QED BY <1>1, <1>2, PTL DEF Spec

-----------------------------------------------------------------------------
(* The theorems *)

\* The counters stay in their ranges, the reset is executed exactly when its
\* delay is over, and a streak that is long enough is committed.
THEOREM TypeCorrectness == Spec => []TypeOK
<1>1. IInv => TypeOK
  BY DEF IInv, Counters, TypeOK
<1> QED BY <1>1, Invariance, PTL

\* When no more rounds elapse in one advance than a commit waits for, a reset
\* is executed only by a board that had committed it before the advance
\* (maybeResetAfterStableReunion(), testResetDelayCycles).
THEOREM AnnouncedResets ==
  ASSUME MaxElapsed <= DelayCycles
  PROVE  Spec => ResetIsAnnounced
<1>1. ASSUME IInv, [Next]_vars, oracle'.executed PROVE oracle.committed
  <2>0. /\ oracle \in Counters /\ oracle.committed \in BOOLEAN
        /\ oracle.executed => oracle.committed
    BY <1>1 DEF IInv, Counters
  <2>1. CASE UNCHANGED oracle
    BY <1>1, <2>0, <2>1
  <2>2. CASE oracle' = Idle
    BY <1>1, <2>2 DEF Idle
  <2>3. ASSUME NEW k \in 1 .. MaxElapsed, NEW gathered \in BOOLEAN, AdvanceRounds(k, gathered)
        PROVE  oracle.committed
    <3>1. RoundQualifies(gathered) \in BOOLEAN
      BY DEF RoundQualifies
    <3>2. oracle' = AfterRounds(k, oracle, RoundQualifies(gathered))
      BY <2>3 DEF AdvanceRounds
    <3>3. oracle' \in Counters /\ (~oracle.committed => oracle'.delay <= k - 1)
      BY <2>0, <3>1, <3>2, SeveralRounds
    <3>4. oracle'.delay = DelayCycles
      BY <1>1, <3>3 DEF Counters
    <3> QED BY <2>0, <3>3, <3>4
  <2> QED BY <1>1, <2>1, <2>2, <2>3
        DEF Next, ChangeHome, FinishHealthyHome, StartEpoch, ColdReset, NewSwarmSize, vars
<1>2. IInv /\ [Next]_vars => [oracle'.executed => oracle.committed]_vars
  BY <1>1
<1> QED BY <1>2, Invariance, PTL DEF Spec, ResetIsAnnounced

\* A board that has not committed a reset commits one in the round that
\* completes a streak and in no other (maybeResetAfterStableReunion()).  The
\* hypothesis is about what the model keeps of the history: a streak, and the
\* rounds that are noticed together with its last.
THEOREM StreaksCommit ==
  ASSUME (CyclesToCommit - 1) * MissesToReset + MaxElapsed <= Window
  PROVE  Spec => CommitsOnStreak
<1>1. ASSUME IInv, IInv', [Next]_vars, ~oracle.committed
      PROVE  oracle'.committed <=> Streak(outcomes')
  <2>0. Follows(outcomes, Len(outcomes), oracle.cycles, oracle.misses)
    BY <1>1 DEF IInv
  <2>1. CASE UNCHANGED <<oracle, outcomes>>
    BY <1>1, <2>0, <2>1, NoStreakUncommitted
  <2>2. CASE oracle' = Idle /\ outcomes' = <<>>
    <3>1. ~Streak(<<>>)
      BY FollowsIdle, NoStreakUncommitted
    <3> QED BY <2>2, <3>1, FollowsIdle
  <2>3. ASSUME NEW k \in 1 .. MaxElapsed, NEW gathered \in BOOLEAN, AdvanceRounds(k, gathered)
        PROVE  oracle'.committed <=> Streak(outcomes')
    <3>1. CASE ~oracle'.committed
      <4>1. Follows(outcomes', Len(outcomes'), oracle'.cycles, oracle'.misses)
        BY <1>1, <3>1 DEF IInv
      <4> QED BY <3>1, <4>1, NoStreakUncommitted
    <3>2. CASE oracle'.committed
      <4> DEFINE q == RoundQualifies(gathered)
      <4>1. q \in BOOLEAN
        BY DEF RoundQualifies
      <4>2. /\ oracle' = AfterRounds(k, oracle, q)
            /\ outcomes' = Recent(outcomes \o [i \in 1 .. k |-> i = 1 /\ q])
        BY <2>3 DEF AdvanceRounds
      <4> HIDE DEF q
      <4>3. outcomes \in Seq(BOOLEAN) /\ oracle \in Counters /\ k \in Nat \ {0}
        BY <1>1 DEF IInv
      <4>4. (CyclesToCommit - 1) * MissesToReset + k <= Window
        <5>1. /\ (CyclesToCommit - 1) * MissesToReset \in Int /\ Window \in Int
              /\ MaxElapsed \in Int
          OBVIOUS
        <5> QED BY <5>1
      <4>5. Streak(outcomes')
        BY <1>1, <2>0, <3>2, <4>1, <4>2, <4>3, <4>4, AdvanceHistory
      <4> QED BY <3>2, <4>5
    <3> QED BY <3>1, <3>2
  <2> QED BY <1>1, <2>1, <2>2, <2>3
        DEF Next, ChangeHome, FinishHealthyHome, StartEpoch, ColdReset, NewSwarmSize, vars
<1>2. IInv /\ IInv' /\ [Next]_vars =>
        [~oracle.committed => (oracle'.committed <=> Streak(outcomes'))]_vars
  BY <1>1
<1> QED BY <1>2, Invariance, PTL DEF Spec, CommitsOnStreak
=============================================================================
