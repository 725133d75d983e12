----------------------------- MODULE QueueLemmas -----------------------------
(***************************************************************************)
(* Facts about the first-come first-served queues that the locks and the   *)
(* account slots are made of: what joining, being served and giving up do  *)
(* to a queue, and that a queue without repetitions stays so; that the next *)
(* free number exists; and what the recursive functions and the sequences   *)
(* of text are that answers are read with.                                 *)
(***************************************************************************)
EXTENDS Integers, Sequences, FiniteSets, SequencesExt, FiniteSetsExt, SequenceTheorems,
        FiniteSetTheorems, WellFoundedInduction, TLAPS

(* Nobody occurs twice in q. *)
NoDuplicates(q) == \A i, j \in 1 .. Len(q) : q[i] = q[j] => i = j

(* w holds the members of q but e, each of them once. *)
IsWithout(w, q, e) ==
  /\ NoDuplicates(w)
  /\ \A j \in 1 .. Len(w) : w[j] # e /\ \E k \in 1 .. Len(q) : q[k] = w[j]
  /\ \A j \in 1 .. Len(q) : q[j] # e => \E k \in 1 .. Len(w) : w[k] = q[j]

(* Withdrawing the i-th waiter shifts those behind it by one place: what   *)
(* splice(index, 1) does in removeWaiter and remove.                       *)
LEMMA RemoveAtProperties ==
  ASSUME NEW S, NEW q \in Seq(S), NEW i \in 1 .. Len(q)
  PROVE  /\ RemoveAt(q, i) \in Seq(S)
         /\ Len(RemoveAt(q, i)) = Len(q) - 1
         /\ \A j \in 1 .. Len(q) - 1 :
              RemoveAt(q, i)[j] = IF j < i THEN q[j] ELSE q[j + 1]
<1> DEFINE before == SubSeq(q, 1, i - 1)
           behind == SubSeq(q, i + 1, Len(q))
<1>1. /\ before \in Seq(S) /\ Len(before) = i - 1
      /\ \A j \in 1 .. i - 1 : before[j] = q[j]
  OBVIOUS
<1>2. /\ behind \in Seq(S) /\ Len(behind) = Len(q) - i
      /\ \A j \in 1 .. Len(q) - i : behind[j] = q[i + j]
  OBVIOUS
<1>3. RemoveAt(q, i) = before \o behind
  BY DEF RemoveAt
<1> HIDE DEF before, behind
<1>4. /\ before \o behind \in Seq(S)
      /\ Len(before \o behind) = Len(before) + Len(behind)
      /\ \A j \in 1 .. Len(before) + Len(behind) :
           (before \o behind)[j] =
              IF j <= Len(before) THEN before[j] ELSE behind[j - Len(before)]
  BY <1>1, <1>2, ConcatProperties
<1>5. Len(q) \in Nat /\ Len(before) + Len(behind) = Len(q) - 1
  BY <1>1, <1>2
<1>6. ASSUME NEW j \in 1 .. Len(q) - 1
      PROVE  (before \o behind)[j] = IF j < i THEN q[j] ELSE q[j + 1]
  <2>1. CASE j < i
    BY <1>1, <1>4, <1>5, <2>1
  <2>2. CASE j >= i
    <3>1. j - (i - 1) \in 1 .. Len(q) - i
      BY <1>5, <2>2
    <3>2. behind[j - (i - 1)] = q[i + (j - (i - 1))]
      BY <1>2, <3>1
    <3>3. i + (j - (i - 1)) = j + 1
      BY <1>5
    <3> QED BY <1>1, <1>4, <1>5, <2>2, <3>2, <3>3
  <2> QED BY <1>5, <2>1, <2>2
<1> QED BY <1>3, <1>4, <1>5, <1>6

(* A waiter that withdraws is gone, everybody else stays. *)
LEMMA RemoveAtIsWithout ==
  ASSUME NEW S, NEW q \in Seq(S), NoDuplicates(q), NEW i \in 1 .. Len(q)
  PROVE  IsWithout(RemoveAt(q, i), q, q[i])
<1> DEFINE w == RemoveAt(q, i)
<1>1. /\ w \in Seq(S) /\ Len(w) = Len(q) - 1 /\ Len(q) \in Nat
      /\ \A j \in 1 .. Len(q) - 1 : w[j] = IF j < i THEN q[j] ELSE q[j + 1]
  BY RemoveAtProperties
<1> HIDE DEF w
<1>2. NoDuplicates(w)
  <2>1. SUFFICES ASSUME NEW j \in 1 .. Len(q) - 1, NEW k \in 1 .. Len(q) - 1,
                        w[j] = w[k]
                 PROVE  j = k
    BY <1>1 DEF NoDuplicates
  <2> DEFINE old(n) == IF n < i THEN n ELSE n + 1
  <2>2. /\ old(j) \in 1 .. Len(q) /\ old(k) \in 1 .. Len(q)
        /\ q[old(j)] = w[j] /\ q[old(k)] = w[k]
    BY <1>1
  <2>3. old(j) = old(k)
    BY <2>1, <2>2 DEF NoDuplicates
  <2> QED BY <1>1, <2>3
<1>3. ASSUME NEW j \in 1 .. Len(w)
      PROVE  w[j] # q[i] /\ \E k \in 1 .. Len(q) : q[k] = w[j]
  <2>1. PICK k \in 1 .. Len(q) : k # i /\ w[j] = q[k]
    <3>1. CASE j < i
      BY <1>1, <3>1
    <3>2. CASE j >= i
      <4>1. j + 1 \in 1 .. Len(q) /\ j + 1 # i /\ w[j] = q[j + 1]
        BY <1>1, <3>2
      <4> QED BY <4>1
    <3> QED BY <1>1, <3>1, <3>2
  <2>2. w[j] # q[i]
    BY <2>1 DEF NoDuplicates
  <2> QED BY <2>1, <2>2
<1>4. ASSUME NEW j \in 1 .. Len(q), j # i
      PROVE  \E k \in 1 .. Len(w) : w[k] = q[j]
  <2>1. CASE j < i
    BY <1>1, <2>1
  <2>2. CASE j > i
    <3>1. j - 1 \in 1 .. Len(w) /\ w[j - 1] = q[j]
      BY <1>1, <2>2
    <3> QED BY <3>1
  <2> QED BY <1>4, <2>1, <2>2
<1> QED BY <1>2, <1>3, <1>4 DEF w, IsWithout

(* Serving the head of a queue leaves the others, in order. *)
LEMMA TailProperties ==
  ASSUME NEW S, NEW q \in Seq(S), q # <<>>
  PROVE  /\ Tail(q) \in Seq(S)
         /\ Len(q) \in Nat \ {0}
         /\ Len(Tail(q)) = Len(q) - 1
         /\ q[1] \in S
         /\ \A j \in 1 .. Len(Tail(q)) : Tail(q)[j] = q[j + 1]
  OBVIOUS

LEMMA TailIsWithout ==
  ASSUME NEW S, NEW q \in Seq(S), q # <<>>, NoDuplicates(q)
  PROVE  IsWithout(Tail(q), q, q[1])
<1>1. /\ Tail(q) \in Seq(S) /\ Len(Tail(q)) = Len(q) - 1 /\ Len(q) \in Nat \ {0}
      /\ \A j \in 1 .. Len(Tail(q)) : Tail(q)[j] = q[j + 1]
  BY TailProperties
<1>2. NoDuplicates(Tail(q))
  BY <1>1 DEF NoDuplicates
<1>3. ASSUME NEW j \in 1 .. Len(Tail(q))
      PROVE  Tail(q)[j] # q[1] /\ \E k \in 1 .. Len(q) : q[k] = Tail(q)[j]
  <2>1. j + 1 \in 1 .. Len(q) /\ Tail(q)[j] = q[j + 1]
    BY <1>1
  <2> QED BY <1>1, <2>1 DEF NoDuplicates
<1>4. ASSUME NEW j \in 1 .. Len(q), q[j] # q[1]
      PROVE  \E k \in 1 .. Len(Tail(q)) : Tail(q)[k] = q[j]
  <2>1. j - 1 \in 1 .. Len(Tail(q)) /\ Tail(q)[j - 1] = q[j]
    BY <1>1, <1>4
  <2> QED BY <2>1
<1> QED BY <1>2, <1>3, <1>4 DEF IsWithout

LEMMA ToSetMembers ==
  ASSUME NEW S, NEW q \in Seq(S), NEW x
  PROVE  x \in ToSet(q) <=> \E i \in 1 .. Len(q) : q[i] = x
<1>1. DOMAIN q = 1 .. Len(q)
  OBVIOUS
<1> QED BY <1>1, Zenon DEF ToSet

(* Whoever left a queue whose head was served is its head. *)
LEMMA ServedIsHead ==
  ASSUME NEW S, NEW q \in Seq(S), q # <<>>, NoDuplicates(q)
  PROVE  ToSet(q) \ ToSet(Tail(q)) = {q[1]}
<1> DEFINE t == Tail(q)
<1>1. t \in Seq(S) /\ Len(q) \in Nat \ {0}
  BY TailProperties
<1>2. IsWithout(t, q, q[1])
  BY TailIsWithout
<1> HIDE DEF t
<1>3. q[1] \in ToSet(q)
  BY <1>1, ToSetMembers
<1>4. q[1] \notin ToSet(t)
  BY <1>1, <1>2, ToSetMembers DEF IsWithout
<1>5. ASSUME NEW x \in ToSet(q), x \notin ToSet(t) PROVE x = q[1]
  <2>1. PICK i \in 1 .. Len(q) : q[i] = x
    BY <1>5, ToSetMembers
  <2>2. ~ \E k \in 1 .. Len(t) : t[k] = x
    BY <1>1, <1>5, ToSetMembers
  <2> QED BY <1>2, <2>1, <2>2 DEF IsWithout
<1> QED BY <1>3, <1>4, <1>5 DEF t

(* Joining keeps everybody's place; a newcomer is the last. *)
LEMMA AppendNoDuplicates ==
  ASSUME NEW S, NEW q \in Seq(S), NEW e \in S, NoDuplicates(q),
         \A j \in 1 .. Len(q) : q[j] # e
  PROVE  /\ Append(q, e) \in Seq(S)
         /\ Len(Append(q, e)) = Len(q) + 1
         /\ \A j \in 1 .. Len(q) : Append(q, e)[j] = q[j]
         /\ Append(q, e)[Len(q) + 1] = e
         /\ NoDuplicates(Append(q, e))
<1>1. /\ Append(q, e) \in Seq(S)
      /\ Len(Append(q, e)) = Len(q) + 1
      /\ \A j \in 1 .. Len(q) : Append(q, e)[j] = q[j]
      /\ Append(q, e)[Len(q) + 1] = e
  OBVIOUS
<1>2. NoDuplicates(Append(q, e))
  BY <1>1 DEF NoDuplicates
<1> QED BY <1>1, <1>2

(* The members of a queue when its head leaves, *)
LEMMA TailMembers ==
  ASSUME NEW S, NEW q \in Seq(S), q # <<>>, NoDuplicates(q)
  PROVE  /\ Tail(q) \in Seq(S) /\ Len(Tail(q)) = Len(q) - 1 /\ NoDuplicates(Tail(q))
         /\ Head(q) \in S /\ Head(q) \in ToSet(q)
         /\ ToSet(Tail(q)) = ToSet(q) \ {Head(q)}
<1> DEFINE t == Tail(q)
<1>1. /\ t \in Seq(S) /\ Len(q) \in Nat \ {0} /\ Len(t) = Len(q) - 1
      /\ Head(q) = q[1] /\ q[1] \in S
  BY TailProperties
<1>2. IsWithout(t, q, q[1])
  BY TailIsWithout
<1> HIDE DEF t
<1>3. NoDuplicates(t) /\ q[1] \in ToSet(q)
  BY <1>1, <1>2, ToSetMembers DEF IsWithout
<1>4. ASSUME NEW x PROVE x \in ToSet(t) <=> x \in ToSet(q) /\ x # q[1]
  <2>1. x \in ToSet(t) <=> \E k \in 1 .. Len(t) : t[k] = x
    BY <1>1, ToSetMembers
  <2>2. x \in ToSet(q) <=> \E k \in 1 .. Len(q) : q[k] = x
    BY ToSetMembers
  <2> QED BY <1>2, <2>1, <2>2 DEF IsWithout
<1> QED BY <1>1, <1>3, <1>4 DEF t

(* when somebody joins, *)
LEMMA AppendMembers ==
  ASSUME NEW S, NEW q \in Seq(S), NEW e \in S, NoDuplicates(q), e \notin ToSet(q)
  PROVE  /\ Append(q, e) \in Seq(S) /\ Len(Append(q, e)) = Len(q) + 1
         /\ NoDuplicates(Append(q, e))
         /\ ToSet(Append(q, e)) = ToSet(q) \union {e}
<1> DEFINE a == Append(q, e)
<1>1. \A j \in 1 .. Len(q) : q[j] # e
  BY ToSetMembers
<1>2. /\ a \in Seq(S) /\ Len(a) = Len(q) + 1 /\ Len(q) \in Nat
      /\ \A j \in 1 .. Len(q) : a[j] = q[j]
      /\ a[Len(q) + 1] = e
      /\ NoDuplicates(a)
  BY <1>1, AppendNoDuplicates
<1> HIDE DEF a
<1>3. ASSUME NEW x PROVE x \in ToSet(a) <=> x \in ToSet(q) \/ x = e
  <2>1. x \in ToSet(a) <=> \E k \in 1 .. Len(a) : a[k] = x
    BY <1>2, ToSetMembers
  <2>2. x \in ToSet(q) <=> \E k \in 1 .. Len(q) : q[k] = x
    BY ToSetMembers
  <2> QED BY <1>2, <2>1, <2>2
<1> QED BY <1>2, <1>3 DEF a

(* and when others join, all of them new. *)
LEMMA ConcatMembers ==
  ASSUME NEW S, NEW q \in Seq(S), NEW w \in Seq(S), NoDuplicates(q), NoDuplicates(w),
         ToSet(q) \intersect ToSet(w) = {}
  PROVE  /\ q \o w \in Seq(S) /\ Len(q \o w) = Len(q) + Len(w)
         /\ NoDuplicates(q \o w)
         /\ ToSet(q \o w) = ToSet(q) \union ToSet(w)
<1> DEFINE c == q \o w
<1>1. /\ c \in Seq(S) /\ Len(c) = Len(q) + Len(w) /\ Len(q) \in Nat /\ Len(w) \in Nat
      /\ \A j \in 1 .. Len(q) + Len(w) : c[j] = IF j <= Len(q) THEN q[j] ELSE w[j - Len(q)]
  BY ConcatProperties
<1> HIDE DEF c
<1>2. /\ \A j \in 1 .. Len(q) : j \in 1 .. Len(c) /\ c[j] = q[j]
      /\ \A j \in 1 .. Len(w) : Len(q) + j \in 1 .. Len(c) /\ c[Len(q) + j] = w[j]
  BY <1>1
<1>3. ASSUME NEW j \in 1 .. Len(c)
      PROVE  \/ j \in 1 .. Len(q) /\ c[j] = q[j]
             \/ j - Len(q) \in 1 .. Len(w) /\ c[j] = w[j - Len(q)]
  BY <1>1
<1>4. ASSUME NEW x PROVE x \in ToSet(c) <=> x \in ToSet(q) \/ x \in ToSet(w)
  <2>1. x \in ToSet(c) <=> \E k \in 1 .. Len(c) : c[k] = x
    BY <1>1, ToSetMembers
  <2>2. /\ x \in ToSet(q) <=> \E k \in 1 .. Len(q) : q[k] = x
        /\ x \in ToSet(w) <=> \E k \in 1 .. Len(w) : w[k] = x
    BY ToSetMembers
  <2> QED BY <1>2, <1>3, <2>1, <2>2
<1>5. ASSUME NEW i \in 1 .. Len(q), NEW j \in 1 .. Len(w) PROVE q[i] # w[j]
  <2>1. q[i] \in ToSet(q) /\ w[j] \in ToSet(w)
    BY ToSetMembers
  <2> QED BY <2>1
<1>6. NoDuplicates(c)
  <2>1. SUFFICES ASSUME NEW i \in 1 .. Len(c), NEW j \in 1 .. Len(c), c[i] = c[j]
                 PROVE  i = j
    BY DEF NoDuplicates
  <2>2. CASE i \in 1 .. Len(q) /\ j \in 1 .. Len(q)
    BY <1>2, <2>1, <2>2 DEF NoDuplicates
  <2>3. CASE i - Len(q) \in 1 .. Len(w) /\ j - Len(q) \in 1 .. Len(w)
    <3>1. c[i] = w[i - Len(q)] /\ c[j] = w[j - Len(q)]
      BY <1>1, <2>3
    <3>2. i - Len(q) = j - Len(q)
      BY <2>1, <2>3, <3>1 DEF NoDuplicates
    <3> QED BY <1>1, <3>2
  <2> QED BY <1>3, <1>5, <2>1, <2>2, <2>3
<1> QED BY <1>1, <1>4, <1>6 DEF c

(* When the first n of a queue are served, the others stay, in order. *)
LEMMA SuffixProperties ==
  ASSUME NEW S, NEW q \in Seq(S), NEW n \in 0 .. Len(q)
  PROVE  /\ SubSeq(q, n + 1, Len(q)) \in Seq(S)
         /\ Len(SubSeq(q, n + 1, Len(q))) = Len(q) - n
         /\ \A j \in 1 .. Len(q) - n : SubSeq(q, n + 1, Len(q))[j] = q[n + j]
         /\ NoDuplicates(q) => NoDuplicates(SubSeq(q, n + 1, Len(q)))
<1> DEFINE w == SubSeq(q, n + 1, Len(q))
<1>1. Len(q) \in Nat /\ n + 1 \in Int /\ \A i \in n + 1 .. Len(q) : q[i] \in S
  OBVIOUS
<1>2. /\ w \in Seq(S)
      /\ Len(w) = IF n + 1 <= Len(q) THEN Len(q) - (n + 1) + 1 ELSE 0
      /\ \A i \in 1 .. Len(q) - (n + 1) + 1 : w[i] = q[(n + 1) + i - 1]
  BY <1>1, SubSeqProperties
<1> HIDE DEF w
<1>3. Len(w) = Len(q) - n /\ \A j \in 1 .. Len(q) - n : w[j] = q[n + j]
  BY <1>1, <1>2
<1>4. NoDuplicates(q) => NoDuplicates(w)
  BY <1>1, <1>3 DEF NoDuplicates
<1> QED BY <1>2, <1>3, <1>4 DEF w

LEMMA PrefixProperties ==
  ASSUME NEW S, NEW q \in Seq(S), NEW n \in 0 .. Len(q)
  PROVE  /\ SubSeq(q, 1, n) \in Seq(S)
         /\ Len(SubSeq(q, 1, n)) = n
         /\ \A j \in 1 .. n : SubSeq(q, 1, n)[j] = q[j]
<1>1. Len(q) \in Nat /\ n \in Int /\ \A i \in 1 .. n : q[i] \in S
  OBVIOUS
<1>2. /\ SubSeq(q, 1, n) \in Seq(S)
      /\ Len(SubSeq(q, 1, n)) = IF 1 <= n THEN n - 1 + 1 ELSE 0
      /\ \A i \in 1 .. n - 1 + 1 : SubSeq(q, 1, n)[i] = q[1 + i - 1]
  BY <1>1, SubSeqProperties
<1> QED BY <1>1, <1>2

(* A queue has no more members than places. *)
LEMMA MembersCount ==
  ASSUME NEW S, NEW q \in Seq(S)
  PROVE  IsFiniteSet(ToSet(q)) /\ Cardinality(ToSet(q)) <= Len(q)
<1>1. q \in [1 .. Len(q) -> ToSet(q)] /\ Len(q) \in Nat
  <2>1. q \in [1 .. Len(q) -> S] /\ Len(q) \in Nat
    BY LenProperties
  <2>2. \A i \in 1 .. Len(q) : q[i] \in ToSet(q)
    BY ToSetMembers
  <2> QED BY <2>1, <2>2
<1>2. \A x \in ToSet(q) : \E i \in 1 .. Len(q) : q[i] = x
  BY ToSetMembers
<1>3. q \in Surjection(1 .. Len(q), ToSet(q))
  BY <1>1, <1>2 DEF Surjection
<1>4. IsFiniteSet(1 .. Len(q)) /\ Cardinality(1 .. Len(q)) = Len(q)
  <2>1. PICK n \in Nat : n = Len(q)
    BY <1>1
  <2>2. 1 \in Int /\ n \in Int
    BY <2>1
  <2>3. IsFiniteSet(1 .. n) /\ Cardinality(1 .. n) = IF 1 > n THEN 0 ELSE n - 1 + 1
    BY <2>2, FS_Interval, Zenon
  <2> QED BY <2>1, <2>3
<1> QED BY <1>3, <1>4, FS_Surjection

(* Those that stay when the first n are served are the members that are not *)
(* among the first n.                                                      *)
LEMMA SuffixMembers ==
  ASSUME NEW S, NEW q \in Seq(S), NEW n \in 0 .. Len(q), NoDuplicates(q), NEW x
  PROVE  x \in ToSet(SubSeq(q, n + 1, Len(q)))
           <=> x \in ToSet(q) /\ ~ \E i \in 1 .. n : q[i] = x
<1>0. PICK w : w = SubSeq(q, n + 1, Len(q))
  OBVIOUS
<1>1. /\ w = SubSeq(q, n + 1, Len(q)) /\ w \in Seq(S) /\ Len(w) = Len(q) - n
      /\ \A j \in 1 .. Len(q) - n : w[j] = q[n + j]
  BY <1>0, SuffixProperties
<1>2. Len(q) \in Nat
  OBVIOUS
<1>3. x \in ToSet(w) <=> \E k \in 1 .. Len(w) : w[k] = x
  BY <1>1, ToSetMembers
<1>4. x \in ToSet(q) <=> \E k \in 1 .. Len(q) : q[k] = x
  BY ToSetMembers
<1>5. ASSUME NEW k \in 1 .. Len(w), w[k] = x
      PROVE  x \in ToSet(q) /\ ~ \E i \in 1 .. n : q[i] = x
  <2>1. n + k \in 1 .. Len(q) /\ q[n + k] = x
    BY <1>1, <1>2, <1>5
  <2>2. \A i \in 1 .. n : i \in 1 .. Len(q) /\ i # n + k
    BY <1>2, <1>5
  <2> QED BY <1>4, <2>1, <2>2 DEF NoDuplicates
<1>6. ASSUME NEW k \in 1 .. Len(q), q[k] = x, ~ \E i \in 1 .. n : q[i] = x
      PROVE  \E j \in 1 .. Len(w) : w[j] = x
  <2>1. k > n
    BY <1>2, <1>6
  <2>2. k - n \in 1 .. Len(w) /\ w[k - n] = q[n + (k - n)] /\ n + (k - n) = k
    BY <1>1, <1>2, <2>1
  <2> QED BY <1>6, <2>2
<1> QED BY <1>1, <1>3, <1>4, <1>5, <1>6

(* A line, its first member h and those behind it, q: joining, giving up    *)
(* and serving the line is doing so to q.                                  *)
LEMMA LineProperties ==
  ASSUME NEW S, NEW h \in S, NEW q \in Seq(S)
  PROVE  /\ <<h>> \o q \in Seq(S)
         /\ Len(<<h>> \o q) = Len(q) + 1
         /\ (<<h>> \o q)[1] = h
         /\ \A j \in 1 .. Len(q) : (<<h>> \o q)[j + 1] = q[j]
<1>1. <<h>> \in Seq(S) /\ Len(<<h>>) = 1 /\ <<h>>[1] = h /\ Len(q) \in Nat
  OBVIOUS
<1>2. PICK f \in Seq(S) : f = <<h>>
  BY <1>1
<1>3. /\ f \o q \in Seq(S) /\ Len(f \o q) = Len(f) + Len(q)
      /\ \A i \in 1 .. Len(f) + Len(q) :
           (f \o q)[i] = IF i <= Len(f) THEN f[i] ELSE q[i - Len(f)]
  BY ConcatProperties
<1>4. PICK c : c = f \o q
  OBVIOUS
<1>5. /\ c \in Seq(S) /\ Len(c) = Len(q) + 1
      /\ \A i \in 1 .. Len(q) + 1 : c[i] = IF i <= 1 THEN h ELSE q[i - 1]
  BY <1>1, <1>2, <1>3, <1>4
<1>6. ASSUME NEW j \in 1 .. Len(q) PROVE c[j + 1] = q[j]
  <2>1. j + 1 \in 1 .. Len(q) + 1 /\ ~(j + 1 <= 1) /\ (j + 1) - 1 = j
    BY <1>1
  <2> QED BY <1>5, <2>1
<1> QED BY <1>1, <1>2, <1>4, <1>5, <1>6

LEMMA LineJoined ==
  ASSUME NEW S, NEW h \in S, NEW q \in Seq(S), NEW e \in S
  PROVE  <<h>> \o Append(q, e) = Append(<<h>> \o q, e)
<1>1a. PICK w : w = Append(q, e)
  OBVIOUS
<1>1. /\ w \in Seq(S) /\ w = Append(q, e) /\ Len(w) = Len(q) + 1 /\ w[Len(q) + 1] = e
        /\ \A j \in 1 .. Len(q) : w[j] = q[j]
  BY <1>1a, AppendProperties
<1>2a. PICK a : a = <<h>> \o q
  OBVIOUS
<1>2. /\ a \in Seq(S) /\ a = <<h>> \o q /\ Len(a) = Len(q) + 1 /\ a[1] = h
      /\ \A j \in 1 .. Len(q) : a[j + 1] = q[j]
  BY <1>2a, LineProperties
<1>3a. PICK b : b = <<h>> \o w
  OBVIOUS
<1>3. /\ b \in Seq(S) /\ b = <<h>> \o w /\ Len(b) = Len(w) + 1 /\ b[1] = h
        /\ \A j \in 1 .. Len(w) : b[j + 1] = w[j]
  BY <1>1, <1>3a, LineProperties
<1>4a. PICK c : c = Append(a, e)
  OBVIOUS
<1>4. /\ c \in Seq(S) /\ c = Append(a, e) /\ Len(c) = Len(a) + 1 /\ c[Len(a) + 1] = e
        /\ \A j \in 1 .. Len(a) : c[j] = a[j]
  BY <1>2, <1>4a, AppendProperties
<1>5. PICK n \in Nat : n = Len(q)
  OBVIOUS
<1>6. Len(b) = n + 2 /\ Len(c) = n + 2
  BY <1>1, <1>2, <1>3, <1>4, <1>5
<1>7. ASSUME NEW i \in 1 .. n + 2 PROVE b[i] = c[i]
  <2>1. CASE i = 1
    BY <1>2, <1>3, <1>4, <1>5, <2>1
  <2>2. CASE i = n + 2
    <3>1. n + 1 \in 1 .. Len(w) /\ (n + 1) + 1 = i
      BY <1>1, <1>5, <2>2
    <3> QED BY <1>1, <1>2, <1>3, <1>4, <1>5, <2>2, <3>1
  <2>3. CASE i # 1 /\ i # n + 2
    <3>1. PICK j \in 1 .. n : j = i - 1 /\ i = j + 1
      BY <2>3
    <3>2. j \in 1 .. Len(w) /\ i \in 1 .. Len(a)
      BY <1>1, <1>2, <1>5, <3>1
    <3> QED BY <1>1, <1>2, <1>3, <1>4, <1>5, <3>1, <3>2
  <2> QED BY <2>1, <2>2, <2>3
<1> QED BY <1>1, <1>2, <1>3, <1>4, <1>6, <1>7, SeqEqual

LEMMA LineServed ==
  ASSUME NEW S, NEW h \in S, NEW q \in Seq(S)
  PROVE  Tail(<<h>> \o q) = q /\ <<h>> \o q # <<>>
<1>1a. PICK a : a = <<h>> \o q
  OBVIOUS
<1>1. /\ a \in Seq(S) /\ a = <<h>> \o q /\ Len(a) = Len(q) + 1 /\ a[1] = h
        /\ \A j \in 1 .. Len(q) : a[j + 1] = q[j]
  BY <1>1a, LineProperties
<1>2. a # <<>>
  BY <1>1
<1>3a. PICK t : t = Tail(a)
  OBVIOUS
<1>3. /\ t \in Seq(S) /\ t = Tail(a) /\ Len(t) = Len(a) - 1 /\ \A j \in 1 .. Len(t) : t[j] = a[j + 1]
  BY <1>1, <1>2, <1>3a, TailProperties
<1>4. Len(t) = Len(q) /\ \A j \in 1 .. Len(t) : t[j] = q[j]
  BY <1>1, <1>3
<1> QED BY <1>1, <1>2, <1>3, <1>4, SeqEqual

LEMMA LineHandedOver ==
  ASSUME NEW S, NEW q \in Seq(S), q # <<>>
  PROVE  <<q[1]>> \o Tail(q) = q
<1>1a. PICK t : t = Tail(q)
  OBVIOUS
<1>1. /\ t \in Seq(S) /\ t = Tail(q) /\ Len(t) = Len(q) - 1 /\ \A j \in 1 .. Len(t) : t[j] = q[j + 1]
  BY <1>1a, TailProperties
<1>2. PICK h \in S : h = q[1]
  BY TailProperties
<1>3a. PICK a : a = <<h>> \o t
  OBVIOUS
<1>3. /\ a \in Seq(S) /\ a = <<h>> \o t /\ Len(a) = Len(t) + 1 /\ a[1] = h
        /\ \A j \in 1 .. Len(t) : a[j + 1] = t[j]
  BY <1>1, <1>3a, LineProperties
<1>4. PICK n \in Nat : n = Len(q)
  OBVIOUS
<1>5. ASSUME NEW i \in 1 .. n PROVE a[i] = q[i]
  <2>1. CASE i = 1
    BY <1>2, <1>3, <2>1
  <2>2. CASE i # 1
    <3>1. PICK j \in 1 .. Len(t) : i = j + 1
      <4>1. i - 1 \in 1 .. Len(t) /\ i = (i - 1) + 1
        BY <1>1, <1>4, <2>2
      <4> QED BY <4>1
    <3> QED BY <1>1, <1>3, <3>1
  <2> QED BY <2>1, <2>2
<1> QED BY <1>1, <1>2, <1>3, <1>4, <1>5, SeqEqual

LEMMA LineWithdrawn ==
  ASSUME NEW S, NEW h \in S, NEW q \in Seq(S), NEW i \in 1 .. Len(q)
  PROVE  <<h>> \o RemoveAt(q, i) = RemoveAt(<<h>> \o q, i + 1)
<1>1a. PICK a : a = <<h>> \o q
  OBVIOUS
<1>1. /\ a \in Seq(S) /\ a = <<h>> \o q /\ Len(a) = Len(q) + 1 /\ a[1] = h
        /\ \A j \in 1 .. Len(q) : a[j + 1] = q[j]
  BY <1>1a, LineProperties
<1>2. PICK w : w = RemoveAt(q, i)
  OBVIOUS
<1>3. PICK n \in Nat : n = Len(q)
  OBVIOUS
<1>4. /\ w \in Seq(S) /\ Len(w) = n - 1
      /\ \A j \in 1 .. n - 1 : w[j] = IF j < i THEN q[j] ELSE q[j + 1]
  BY <1>2, <1>3, RemoveAtProperties
<1>5a. PICK b : b = <<h>> \o w
  OBVIOUS
<1>5. /\ b \in Seq(S) /\ b = <<h>> \o w /\ Len(b) = Len(w) + 1 /\ b[1] = h
        /\ \A j \in 1 .. Len(w) : b[j + 1] = w[j]
  BY <1>5a, <1>4, LineProperties
<1>6. PICK k \in 1 .. Len(a) : k = i + 1
  BY <1>1, <1>3
<1>7. PICK c : c = RemoveAt(a, k)
  OBVIOUS
<1>8. /\ c \in Seq(S) /\ Len(c) = n
      /\ \A j \in 1 .. n : c[j] = IF j < k THEN a[j] ELSE a[j + 1]
  <2>1. /\ c \in Seq(S) /\ Len(c) = Len(a) - 1
        /\ \A j \in 1 .. Len(a) - 1 : c[j] = IF j < k THEN a[j] ELSE a[j + 1]
    BY <1>1, <1>7, RemoveAtProperties
  <2>2. Len(a) - 1 = n
    BY <1>1, <1>3
  <2> QED BY <2>1, <2>2
<1>9. ASSUME NEW j \in 1 .. n PROVE b[j] = c[j]
  <2>1. CASE j = 1
    BY <1>1, <1>3, <1>5, <1>6, <1>8, <2>1
  <2>2. CASE j # 1
    <3>1. PICK m \in 1 .. n - 1 : j = m + 1
      <4>1. j - 1 \in 1 .. n - 1 /\ j = (j - 1) + 1
        BY <2>2
      <4> QED BY <4>1
    <3>2. b[j] = IF m < i THEN q[m] ELSE q[m + 1]
      BY <1>4, <1>5, <3>1
    <3>3. m \in 1 .. n /\ m + 1 \in 1 .. n
      OBVIOUS
    <3>4. a[m + 1] = q[m] /\ a[(m + 1) + 1] = q[m + 1]
      BY <1>1, <1>3, <3>3
    <3>5. j < k <=> m < i
      BY <1>3, <1>6, <3>1
    <3> QED BY <1>8, <3>1, <3>2, <3>4, <3>5
  <2> QED BY <2>1, <2>2
<1>10. Len(b) = Len(c)
  BY <1>4, <1>5, <1>8
<1>11. b = c
  BY <1>5, <1>8, <1>9, <1>10, SeqEqual
<1> QED BY <1>1, <1>2, <1>5, <1>6, <1>7, <1>11

(* Leaving a line, wherever one stands in it: what splice(indexOf(x), 1)   *)
(* does, for members and for strangers.                                    *)
LEMMA RemoveFirstMember ==
  ASSUME NEW S, NEW q \in Seq(S), NoDuplicates(q), NEW i \in 1 .. Len(q)
  PROVE  RemoveFirst(q, q[i]) = RemoveAt(q, i)
<1>1. \A j \in 1 .. Len(q) : q[j] = q[i] <=> j = i
  BY DEF NoDuplicates
<1>2. {j \in 1 .. Len(q) : q[j] = q[i]} = {i}
  BY <1>1
<1>3. Min({i}) = i
  BY DEF Min
<1>4. SelectInSeq(q, LAMBDA v : v = q[i]) = i
  BY <1>2, <1>3 DEF SelectInSeq
<1> QED BY <1>4 DEF RemoveFirst

LEMMA RemoveFirstStranger ==
  ASSUME NEW S, NEW q \in Seq(S), NEW e, e \notin ToSet(q)
  PROVE  RemoveFirst(q, e) = q
BY ToSetMembers DEF RemoveFirst

LEMMA RemoveFirstMembers ==
  ASSUME NEW S, NEW q \in Seq(S), NoDuplicates(q), NEW e
  PROVE  /\ RemoveFirst(q, e) \in Seq(S)
         /\ NoDuplicates(RemoveFirst(q, e))
         /\ ToSet(RemoveFirst(q, e)) = ToSet(q) \ {e}
<1>1. CASE e \notin ToSet(q)
  BY <1>1, RemoveFirstStranger
<1>2. CASE e \in ToSet(q)
  <2>1. PICK i \in 1 .. Len(q) : q[i] = e
    BY <1>2, ToSetMembers
  <2>2. PICK w : w = RemoveAt(q, i)
    OBVIOUS
  <2>3. w \in Seq(S) /\ IsWithout(w, q, e)
    BY <2>1, <2>2, RemoveAtProperties, RemoveAtIsWithout
  <2>4. RemoveFirst(q, e) = w
    BY <2>1, <2>2, RemoveFirstMember
  <2>5. ASSUME NEW x PROVE x \in ToSet(w) <=> x \in ToSet(q) /\ x # e
    <3>1. x \in ToSet(w) <=> \E k \in 1 .. Len(w) : w[k] = x
      BY <2>3, ToSetMembers
    <3>2. x \in ToSet(q) <=> \E k \in 1 .. Len(q) : q[k] = x
      BY ToSetMembers
    <3> QED BY <2>3, <3>1, <3>2 DEF IsWithout
  <2> QED BY <2>3, <2>4, <2>5 DEF IsWithout
<1> QED BY <1>1, <1>2

(* Whoever is first stays first when another leaves or joins. *)
LEMMA FirstStaysFirst ==
  ASSUME NEW S, NEW q \in Seq(S), NoDuplicates(q), NEW e, q # <<>>, Head(q) # e
  PROVE  RemoveFirst(q, e) # <<>> /\ Head(RemoveFirst(q, e)) = Head(q)
<1>1. CASE e \notin ToSet(q)
  BY <1>1, RemoveFirstStranger
<1>2. CASE e \in ToSet(q)
  <2>1. PICK i \in 1 .. Len(q) : q[i] = e
    BY <1>2, ToSetMembers
  <2>2. i # 1 /\ Len(q) \in Nat /\ i > 1 /\ Len(q) > 1 /\ Head(q) = q[1]
    BY <2>1
  <2>3. PICK w : w = RemoveAt(q, i)
    OBVIOUS
  <2>4. /\ w \in Seq(S) /\ Len(w) = Len(q) - 1
        /\ \A j \in 1 .. Len(q) - 1 : w[j] = IF j < i THEN q[j] ELSE q[j + 1]
    BY <2>3, RemoveAtProperties
  <2>5. 1 \in 1 .. Len(q) - 1 /\ 1 < i
    BY <2>2
  <2>6. w[1] = q[1]
    BY <2>4, <2>5
  <2>7. w # <<>> /\ Head(w) = w[1]
    BY <2>2, <2>4
  <2>8. RemoveFirst(q, e) = w
    BY <2>1, <2>3, RemoveFirstMember
  <2> QED BY <2>2, <2>6, <2>7, <2>8
<1> QED BY <1>1, <1>2

LEMMA AppendKeepsFirst ==
  ASSUME NEW S, NEW q \in Seq(S), NEW e \in S
  PROVE  /\ Append(q, e) # <<>>
         /\ q # <<>> => Head(Append(q, e)) = Head(q)
         /\ q = <<>> => Head(Append(q, e)) = e
<1>1. PICK a : a = Append(q, e)
  OBVIOUS
<1>2. /\ a \in Seq(S) /\ Len(a) = Len(q) + 1 /\ a[Len(q) + 1] = e
      /\ \A j \in 1 .. Len(q) : a[j] = q[j]
  BY <1>1, AppendProperties
<1>3. Len(q) \in Nat /\ a # <<>> /\ Head(a) = a[1]
  BY <1>2
<1>4. ASSUME q # <<>> PROVE a[1] = q[1] /\ Head(q) = q[1]
  BY <1>2, <1>3, <1>4
<1>5. ASSUME q = <<>> PROVE a[1] = e
  BY <1>2, <1>5
<1> QED BY <1>1, <1>3, <1>4, <1>5

(* Removing the head is serving it. *)
LEMMA RemoveFirstHead ==
  ASSUME NEW S, NEW q \in Seq(S), q # <<>>
  PROVE  RemoveAt(q, 1) = Tail(q)
<1>1. Len(q) \in Nat \ {0} /\ 1 \in 1 .. Len(q)
  BY TailProperties
<1>2. PICK w : w = RemoveAt(q, 1)
  OBVIOUS
<1>3. /\ w \in Seq(S) /\ Len(w) = Len(q) - 1
      /\ \A j \in 1 .. Len(q) - 1 : w[j] = IF j < 1 THEN q[j] ELSE q[j + 1]
  BY <1>1, <1>2, RemoveAtProperties
<1>4. PICK t : t = Tail(q)
  OBVIOUS
<1>5. t \in Seq(S) /\ Len(t) = Len(q) - 1 /\ \A j \in 1 .. Len(t) : t[j] = q[j + 1]
  BY <1>4, TailProperties
<1>6. Len(w) = Len(t) /\ \A j \in 1 .. Len(w) : w[j] = t[j]
  BY <1>1, <1>3, <1>5
<1> QED BY <1>2, <1>3, <1>4, <1>5, <1>6, SeqEqual

(* There is a least number in a set of numbers: Min is what it says.        *)
LEMMA LeastNumber ==
  ASSUME NEW S \in SUBSET Nat, S # {}
  PROVE  Min(S) \in S /\ \A y \in S : Min(S) <= y
<1>1. IsWellFoundedOn({ss \in Nat \X Nat : ss[1] < ss[2]}, Nat)
  BY NatLessThanWellFounded, Zenon DEF OpToRel
<1>2. PICK R : R = {ss \in Nat \X Nat : ss[1] < ss[2]}
  OBVIOUS
<1>3. PICK x \in S : \A y \in S : ~ (<<y, x>> \in R)
  <2>1. IsWellFoundedOn(R, Nat)
    BY <1>1, <1>2
  <2> QED BY <2>1, WFMin
<1>4. ASSUME NEW y \in S
      PROVE  x <= y
  <2>1. x \in Nat /\ y \in Nat
    OBVIOUS
  <2>2. ~ (y < x)
    BY <1>2, <1>3, <2>1
  <2> QED BY <2>1, <2>2
<1> QED BY <1>4 DEF Min

(* There is a greatest number in a set of numbers up to a bound.           *)
LEMMA GreatestNumber ==
  ASSUME NEW N \in Nat, NEW S \in SUBSET (0 .. N), S # {}
  PROVE  Max(S) \in S /\ \A y \in S : y <= Max(S)
<1> DEFINE R == {n \in 0 .. N : N - n \in S}
<1>1. \A y \in S : y \in 0 .. N
  OBVIOUS
<1>2. \A y \in S : N - y \in R
  BY <1>1
<1>3. R \in SUBSET Nat /\ R # {}
  <2>1. R \in SUBSET Nat
    OBVIOUS
  <2>2. PICK y : y \in S
    OBVIOUS
  <2> HIDE DEF R
  <2> QED BY <1>2, <2>1, <2>2
<1>4. \A n \in R : n \in 0 .. N /\ N - n \in S
  OBVIOUS
<1> HIDE DEF R
<1>5. PICK m : m \in R /\ \A n \in R : m <= n
  BY <1>3, LeastNumber
<1>6. PICK x \in S : x = N - m
  BY <1>4, <1>5
<1>7. ASSUME NEW y \in S
      PROVE  y <= x
  <2>1. N - y \in R /\ y \in 0 .. N /\ m \in 0 .. N
    BY <1>1, <1>2, <1>4, <1>5
  <2> QED BY <1>5, <1>6, <2>1
<1> QED BY <1>6, <1>7 DEF Max

-----------------------------------------------------------------------------
(* Recursive functions, and sequences that are put together *)

(* g begins with s at a, and goes on with the steps F up to N. *)
IsRecursion(g, a, N, S, s, F) ==
  /\ g \in [a .. N -> S]
  /\ \A i \in a .. N : g[i] = IF i = a THEN s ELSE F[i][g[i - 1]]

(* A recursive function on numbers exists, so that what the CHOOSE of its   *)
(* definition takes is one.                                                *)
LEMMA RecursionExists ==
  ASSUME NEW S, NEW a \in Nat, NEW N \in Nat, a <= N,
         NEW F \in [a .. N -> [S -> S]], NEW s \in S
  PROVE  \E g : IsRecursion(g, a, N, S, s, F)
<1> DEFINE G(n) == {g \in [a .. n -> S] :
                      \A i \in a .. n : g[i] = IF i = a THEN s ELSE F[i][g[i - 1]]}
           Bad == {n \in a .. N : G(n) = {}}
<1>1. G(a) # {}
  <2>1. [i \in a .. a |-> s] \in G(a)
    OBVIOUS
  <2> QED BY <2>1
<1>2. ASSUME NEW m \in a .. N, m # a, G(m - 1) # {}
      PROVE  G(m) # {}
  <2>1. PICK g \in [a .. m - 1 -> S] :
           \A i \in a .. m - 1 : g[i] = IF i = a THEN s ELSE F[i][g[i - 1]]
    BY <1>2
  <2>2. m - 1 \in a .. m - 1 /\ m \in a .. N
    BY <1>2
  <2> DEFINE h == [i \in a .. m |-> IF i = m THEN F[m][g[m - 1]] ELSE g[i]]
  <2>3. g[m - 1] \in S /\ F[m][g[m - 1]] \in S
    BY <2>1, <2>2
  <2>4. h \in [a .. m -> S]
    BY <2>1, <2>2, <2>3
  <2>5. ASSUME NEW i \in a .. m
        PROVE  h[i] = IF i = a THEN s ELSE F[i][h[i - 1]]
    <3>1. CASE i = m
      <4>1. h[i] = F[m][g[m - 1]] /\ h[m - 1] = g[m - 1]
        BY <2>2, <3>1
      <4> QED BY <1>2, <3>1, <4>1
    <3>2. CASE i # m
      <4>1. i \in a .. m - 1 /\ h[i] = g[i] /\ (i # a => h[i - 1] = g[i - 1])
        BY <2>2, <3>2
      <4> QED BY <2>1, <4>1
    <3> QED BY <3>1, <3>2
  <2>6. h \in G(m)
    BY <2>4, <2>5
  <2> QED BY <2>6
<1> HIDE DEF G
<1>3. Bad = {}
  <2>1. SUFFICES ASSUME Bad # {} PROVE FALSE
    OBVIOUS
  <2>2. Bad \in SUBSET Nat
    OBVIOUS
  <2>3. PICK m : m \in Bad /\ \A n \in Bad : m <= n
    BY <2>1, <2>2, LeastNumber
  <2>4. m \in a .. N /\ G(m) = {} /\ m # a
    BY <2>3, <1>1
  <2>5. m - 1 \in a .. N /\ m - 1 \notin Bad
    BY <2>3, <2>4
  <2> QED BY <2>4, <2>5, <1>2
<1>4. G(N) # {}
  BY <1>3
<1> QED BY <1>4 DEF G, IsRecursion

(* Induction: a property, given as the set P of the numbers that have it,   *)
(* holds from a to N.                                                      *)
LEMMA UpwardInduction ==
  ASSUME NEW P, NEW a \in Nat, NEW N \in Nat, a <= N, a \in P,
         \A n \in a + 1 .. N : n - 1 \in P => n \in P
  PROVE  \A n \in a .. N : n \in P
<1> DEFINE Bad == {n \in a .. N : n \notin P}
<1>1. SUFFICES ASSUME Bad # {} PROVE FALSE
  OBVIOUS
<1>2. Bad \in SUBSET Nat
  OBVIOUS
<1>3. PICK m : m \in Bad /\ \A n \in Bad : m <= n
  BY <1>1, <1>2, LeastNumber
<1>4. m \in a + 1 .. N /\ m - 1 \in a .. N /\ m - 1 \notin Bad
  BY <1>3
<1> QED BY <1>3, <1>4

(* What every step of a recursion keeps holds of all its values.           *)
LEMMA RecursionStays ==
  ASSUME NEW S, NEW a \in Nat, NEW N \in Nat, a <= N,
         NEW f, f[a] \in S,
         \A n \in a + 1 .. N : f[n - 1] \in S => f[n] \in S
  PROVE  \A n \in a .. N : f[n] \in S
<1> DEFINE P == {n \in a .. N : f[n] \in S}
<1>1. a \in P
  OBVIOUS
<1>2. ASSUME NEW n \in a + 1 .. N, n - 1 \in P
      PROVE  n \in P
  BY <1>2
<1>3. \A n \in P : f[n] \in S
  OBVIOUS
<1> HIDE DEF P
<1>4. \A n \in a .. N : n \in P
  BY <1>1, <1>2, UpwardInduction
<1> QED BY <1>3, <1>4

(* Sequences put one after the other, one at a time: each of the beginnings *)
(* is one of the whole.                                                    *)
LEMMA FlattenSteps ==
  ASSUME NEW A, NEW ss \in Seq(Seq(A))
  PROVE  \E f \in [0 .. Len(ss) -> Seq(A)] :
           /\ f[0] = <<>>
           /\ \A k \in 1 .. Len(ss) : f[k] = f[k - 1] \o ss[k]
           /\ f[Len(ss)] = FlattenSeq(ss)
<1> DEFINE IsFlatten(g) ==
             g = [i \in 1 .. Len(ss) |-> IF i = 1 THEN ss[i] ELSE g[i - 1] \o ss[i]]
           flatten == CHOOSE g : IsFlatten(g)
<1>0. Len(ss) \in Nat /\ \A i \in 1 .. Len(ss) : ss[i] \in Seq(A)
  OBVIOUS
<1>00. <<>> \in Seq(A) /\ \A x \in Seq(A) : <<>> \o x = x
  OBVIOUS
<1> DEFINE F == [i \in 0 .. Len(ss) |-> [x \in Seq(A) |-> IF i = 0 THEN x ELSE x \o ss[i]]]
<1>1. F \in [0 .. Len(ss) -> [Seq(A) -> Seq(A)]]
  BY <1>0
<1>2. PICK f \in [0 .. Len(ss) -> Seq(A)] :
        \A i \in 0 .. Len(ss) : f[i] = IF i = 0 THEN <<>> ELSE F[i][f[i - 1]]
  <2> HIDE DEF F
  <2>1. 0 \in Nat /\ Len(ss) \in Nat /\ 0 <= Len(ss)
    BY <1>0
  <2>2. \E g : IsRecursion(g, 0, Len(ss), Seq(A), <<>>, F)
    BY <1>00, <1>1, <2>1, RecursionExists, Zenon
  <2> QED BY <2>2 DEF IsRecursion
<1>3. f[0] = <<>> /\ \A k \in 1 .. Len(ss) : f[k] = f[k - 1] \o ss[k]
  <2>1. f[0] = <<>>
    <3>1. 0 \in 0 .. Len(ss)
      BY <1>0
    <3> HIDE DEF F
    <3> QED BY <1>2, <3>1, Zenon
  <2>2. ASSUME NEW k \in 1 .. Len(ss)
        PROVE  f[k] = f[k - 1] \o ss[k]
    <3>1. k \in 0 .. Len(ss) /\ k - 1 \in 0 .. Len(ss) /\ k # 0
      BY <1>0
    <3>2. f[k - 1] \in Seq(A)
      BY <1>2, <3>1
    <3>3. F[k][f[k - 1]] = f[k - 1] \o ss[k]
      BY <3>1, <3>2
    <3> QED BY <1>2, <3>1, <3>3
  <2> QED BY <2>1, <2>2
<1>4. f[Len(ss)] = FlattenSeq(ss)
  <2>1. CASE Len(ss) = 0
    BY <1>3, <2>1 DEF FlattenSeq
  <2>2. CASE Len(ss) # 0
    <3>1. FlattenSeq(ss) = flatten[Len(ss)]
      BY <2>2 DEF FlattenSeq
    <3> DEFINE h == [i \in 1 .. Len(ss) |-> f[i]]
    <3>2. IsFlatten(h)
      <4>1. ASSUME NEW i \in 1 .. Len(ss)
            PROVE  h[i] = IF i = 1 THEN ss[i] ELSE h[i - 1] \o ss[i]
        <5>1. h[i] = f[i] /\ (i # 1 => h[i - 1] = f[i - 1])
          OBVIOUS
        <5>2. f[i] = f[i - 1] \o ss[i] /\ ss[i] \in Seq(A)
          BY <1>0, <1>3
        <5>3. i = 1 => f[i] = ss[i]
          <6>1. SUFFICES ASSUME i = 1 PROVE f[i] = <<>> \o ss[i]
            BY <1>00, <5>2, Zenon
          <6>2. i - 1 = 0
            BY <6>1
          <6> QED BY <1>3, <5>2, <6>2, Zenon
        <5> QED BY <5>1, <5>2, <5>3
      <4> QED BY <4>1
    <3>3. PICK g : IsFlatten(g) /\ g = flatten
      <4> HIDE DEF IsFlatten, h
      <4> QED BY <3>2
    <3>4. \A i \in 1 .. Len(ss) : g[i] = IF i = 1 THEN ss[i] ELSE g[i - 1] \o ss[i]
      BY <3>3
    <3> DEFINE P == {i \in 1 .. Len(ss) : g[i] = f[i]}
    <3>5. 1 \in P
      <4>1. 1 \in 1 .. Len(ss) /\ ss[1] \in Seq(A)
        BY <1>0, <2>2
      <4>2. g[1] = ss[1]
        BY <3>4, <4>1
      <4>3. f[1] = f[1 - 1] \o ss[1] /\ 1 - 1 = 0
        <5>1. f[1] = f[1 - 1] \o ss[1]
          BY <1>3, <4>1, Zenon
        <5> QED BY <5>1
      <4>4. f[1] = <<>> \o ss[1]
        BY <1>3, <4>3, Zenon
      <4>5. f[1] = ss[1]
        BY <1>00, <4>1, <4>4, Zenon
      <4> QED BY <4>1, <4>2, <4>5
    <3>6. ASSUME NEW n \in 1 + 1 .. Len(ss), n - 1 \in P
          PROVE  n \in P
      <4>1. n \in 1 .. Len(ss) /\ n # 1 /\ g[n - 1] = f[n - 1]
        BY <3>6
      <4> QED BY <1>3, <3>4, <4>1
    <3>7. \A i \in P : g[i] = f[i]
      OBVIOUS
    <3> HIDE DEF P, flatten, IsFlatten
    <3>8. Len(ss) \in Nat /\ 1 \in Nat /\ 1 <= Len(ss)
      BY <1>0, <2>2
    <3>9. \A n \in 1 .. Len(ss) : n \in P
      BY <3>5, <3>6, <3>8, UpwardInduction
    <3> QED BY <3>1, <3>3, <3>7, <3>8, <3>9
  <2> QED BY <2>1, <2>2
<1> QED BY <1>3, <1>4

(* Sequences put one after the other are a sequence.                        *)
LEMMA FlattenSeqType ==
  ASSUME NEW A, NEW ss \in Seq(Seq(A))
  PROVE  FlattenSeq(ss) \in Seq(A)
<1>1. PICK f \in [0 .. Len(ss) -> Seq(A)] : f[Len(ss)] = FlattenSeq(ss)
  BY FlattenSteps
<1>2. Len(ss) \in 0 .. Len(ss)
  OBVIOUS
<1> QED BY <1>1, <1>2

(* The pieces of a sequence that is put together from f[0] on. *)
IsBuilt(f, ss) ==
  /\ f[0] = <<>>
  /\ \A k \in 1 .. Len(ss) : f[k] = f[k - 1] \o ss[k]

LEMMA BuiltFlat ==
  ASSUME NEW A, NEW ss \in Seq(Seq(A))
  PROVE  \E f \in [0 .. Len(ss) -> Seq(A)] : IsBuilt(f, ss) /\ f[Len(ss)] = FlattenSeq(ss)
  BY FlattenSteps DEF IsBuilt

(* Where the k-th piece is in the whole. *)
IsPlaced(f, ss, k) ==
  /\ Len(f[k]) = Len(f[k - 1]) + Len(ss[k]) /\ Len(f[k]) <= Len(f[Len(ss)])
  /\ \A i \in 1 .. Len(ss[k]) : f[Len(ss)][Len(f[k - 1]) + i] = ss[k][i]

LEMMA BuiltPieces ==
  ASSUME NEW A, NEW ss \in Seq(Seq(A)), NEW f \in [0 .. Len(ss) -> Seq(A)], IsBuilt(f, ss),
         NEW k \in 1 .. Len(ss)
  PROVE  IsPlaced(f, ss, k)
<1>1. Len(ss) \in Nat /\ \A n \in 1 .. Len(ss) : ss[n] \in Seq(A)
  OBVIOUS
<1>2. PICK N \in Nat : N = Len(ss)
  BY <1>1
<1>3. \A n \in 0 .. N : f[n] \in Seq(A) /\ Len(f[n]) \in Nat
  <2>1. \A n \in 0 .. N : f[n] \in Seq(A)
    BY <1>2
  <2>2. \A x \in Seq(A) : Len(x) \in Nat
    OBVIOUS
  <2> QED BY <2>1, <2>2
<1> DEFINE Keeps(n) == Len(f[k]) <= Len(f[n]) /\ \A i \in 1 .. Len(f[k]) : f[n][i] = f[k][i]
           P == {n \in k .. N : Keeps(n)}
<1>4. k \in 1 .. N /\ k \in Nat /\ k <= N /\ Keeps(k)
  BY <1>2, <1>3
<1>5. ASSUME NEW n \in k + 1 .. N, Keeps(n - 1)
      PROVE  Keeps(n)
  <2>1. n \in 1 .. Len(ss) /\ n \in 0 .. N /\ n - 1 \in 0 .. N /\ k \in 0 .. N
    BY <1>2, <1>4
  <2>2. PICK p : p = f[n - 1]
    OBVIOUS
  <2>3. PICK q : q = ss[n]
    OBVIOUS
  <2>4. p \in Seq(A) /\ q \in Seq(A) /\ f[n] = p \o q
    BY <1>1, <1>3, <2>1, <2>2, <2>3 DEF IsBuilt
  <2>5. /\ Len(p \o q) = Len(p) + Len(q)
        /\ \A i \in 1 .. Len(p) : (p \o q)[i] = p[i]
    BY <2>4
  <2>6. Len(f[k]) <= Len(p) /\ \A i \in 1 .. Len(f[k]) : p[i] = f[k][i]
    BY <1>5, <2>2
  <2>7. Len(f[k]) \in Nat /\ Len(p) \in Nat /\ Len(q) \in Nat
    BY <1>3, <2>1, <2>4
  <2>8. Len(f[k]) <= Len(p \o q) /\ \A i \in 1 .. Len(f[k]) : (p \o q)[i] = f[k][i]
    BY <2>5, <2>6, <2>7
  <2> QED BY <2>4, <2>8
<1>6. \A n \in P : Keeps(n)
  OBVIOUS
<1>7. \A n \in k .. N : Keeps(n) => n \in P
  OBVIOUS
<1> HIDE DEF Keeps
<1>8. k \in P
  BY <1>4, <1>7
<1>9. ASSUME NEW n \in k + 1 .. N, n - 1 \in P
      PROVE  n \in P
  BY <1>4, <1>5, <1>6, <1>7, <1>9
<1> HIDE DEF P
<1>10. \A n \in k .. N : n \in P
  BY <1>4, <1>8, <1>9, UpwardInduction
<1>11. Len(f[k]) <= Len(f[N]) /\ \A i \in 1 .. Len(f[k]) : f[N][i] = f[k][i]
  <2>1. Keeps(N)
    BY <1>4, <1>6, <1>10
  <2> QED BY <2>1 DEF Keeps
<1>12. PICK p : p = f[k - 1]
  OBVIOUS
<1>13. PICK q : q = ss[k]
  OBVIOUS
<1>14. p \in Seq(A) /\ q \in Seq(A) /\ f[k] = p \o q
  <2>1. k \in 1 .. Len(ss) /\ k - 1 \in 0 .. N /\ k \in 0 .. N
    BY <1>2, <1>4
  <2>2. f[k] = f[k - 1] \o ss[k]
    BY <2>1 DEF IsBuilt
  <2> QED BY <1>1, <1>3, <1>12, <1>13, <2>1, <2>2
<1>15. /\ Len(f[k]) = Len(p) + Len(q) /\ Len(p) \in Nat /\ Len(q) \in Nat
       /\ \A i \in 1 .. Len(q) : f[k][Len(p) + i] = q[i]
  BY <1>14
<1>16. \A i \in 1 .. Len(q) : f[N][Len(p) + i] = q[i]
  BY <1>11, <1>15
<1> QED BY <1>2, <1>11, <1>12, <1>13, <1>15, <1>16 DEF IsPlaced

(* A piece of a sequence is a sequence of the same.                         *)
LEMMA PieceType ==
  ASSUME NEW A, NEW b \in Seq(A), NEW m \in Nat \ {0}, NEW n \in Int, n <= Len(b)
  PROVE  SubSeq(b, m, n) \in Seq(A)
<1>1. \A i \in m .. n : b[i] \in A
  OBVIOUS
<1> QED BY <1>1, SubSeqProperties

(* A piece of a sequence, element by element.                              *)
LEMMA PieceSteps ==
  ASSUME NEW A, NEW t \in Seq(A), NEW m \in Nat, NEW n \in Nat, m <= n, n <= Len(t)
  PROVE  /\ SubSeq(t, m + 1, n) \in Seq(A) /\ Len(SubSeq(t, m + 1, n)) = n - m
         /\ \A i \in 1 .. n - m : SubSeq(t, m + 1, n)[i] = t[m + i]
         /\ m < n => SubSeq(t, m + 1, n) = Append(SubSeq(t, m + 1, n - 1), t[n])
<1>1. /\ SubSeq(t, m + 1, n) \in Seq(A) /\ Len(SubSeq(t, m + 1, n)) = n - m
      /\ \A i \in 1 .. n - m : SubSeq(t, m + 1, n)[i] = t[m + i]
  <2>1. \A i \in m + 1 .. n : t[i] \in A
    OBVIOUS
  <2> QED BY <2>1, SubSeqProperties
<1>2. ASSUME m < n
      PROVE  SubSeq(t, m + 1, n) = Append(SubSeq(t, m + 1, n - 1), t[n])
  <2>1. /\ SubSeq(t, m + 1, n - 1) \in Seq(A) /\ Len(SubSeq(t, m + 1, n - 1)) = n - 1 - m
        /\ \A i \in 1 .. n - 1 - m : SubSeq(t, m + 1, n - 1)[i] = t[m + i]
    <3>1. \A i \in m + 1 .. n - 1 : t[i] \in A
      OBVIOUS
    <3> QED BY <1>2, <3>1, SubSeqProperties
  <2>2. PICK p : p = SubSeq(t, m + 1, n - 1)
    OBVIOUS
  <2>3. PICK q : q = SubSeq(t, m + 1, n)
    OBVIOUS
  <2>4. n \in 1 .. Len(t) /\ t[n] \in A
    BY <1>2
  <2>5. /\ Append(p, t[n]) \in Seq(A) /\ Len(Append(p, t[n])) = n - m
        /\ \A i \in 1 .. n - m : Append(p, t[n])[i] = t[m + i]
    BY <1>2, <2>1, <2>2, <2>4
  <2>6. q = Append(p, t[n])
    BY <1>1, <2>3, <2>5, SeqEqual
  <2> QED BY <2>2, <2>3, <2>6
<1> QED BY <1>1, <1>2

(* A sequence is a prefix of what it is continued to, and of itself.        *)
LEMMA PrefixOfLonger ==
  ASSUME NEW A, NEW a \in Seq(A), NEW b \in Seq(A)
  PROVE  IsPrefix(a, a \o b)
<1>1. /\ Len(a) \in Nat /\ Len(b) \in Nat /\ Len(a \o b) = Len(a) + Len(b)
      /\ a \o b \in Seq(A) /\ \A i \in 1 .. Len(a) : (a \o b)[i] = a[i]
  BY ConcatProperties
<1>2. PICK w : w = a \o b
  OBVIOUS
<1>3. /\ SubSeq(a, 1, Len(a)) \in Seq(A) /\ Len(SubSeq(a, 1, Len(a))) = Len(a)
      /\ \A i \in 1 .. Len(a) : SubSeq(a, 1, Len(a))[i] = a[i]
  BY <1>1, PrefixProperties
<1>4. /\ SubSeq(w, 1, Len(a)) \in Seq(A) /\ Len(SubSeq(w, 1, Len(a))) = Len(a)
      /\ \A i \in 1 .. Len(a) : SubSeq(w, 1, Len(a))[i] = w[i]
  BY <1>1, <1>2, PrefixProperties
<1>5. SubSeq(a, 1, Len(a)) = SubSeq(w, 1, Len(a))
  BY <1>1, <1>2, <1>3, <1>4, SeqEqual
<1> QED BY <1>1, <1>2, <1>5 DEF IsPrefix

LEMMA PrefixOfItself ==
  ASSUME NEW A, NEW a \in Seq(A)
  PROVE  IsPrefix(a, a)
  BY DEF IsPrefix

(* A function that follows N from what is in D, and gives what O makes of    *)
(* the first thing that is not.                                            *)
IsTailRecursion(g, S, D, N, O) ==
  g \in [S -> S] /\ \A p \in S : g[p] = IF p \in D THEN g[N[p]] ELSE O[p]

(* Such a function exists when every step makes something smaller.          *)
LEMMA TailRecursionExists ==
  ASSUME NEW S, NEW D \in SUBSET S, NEW N \in [D -> S], NEW O \in [S -> S],
         NEW m \in [S -> Nat], \A p \in D : m[N[p]] < m[p]
  PROVE  \E g : IsTailRecursion(g, S, D, N, O)
<1> DEFINE IsClosed(X) == /\ \A p \in S \ D : O[p] \in X[p]
                          /\ \A p \in D : X[N[p]] \subseteq X[p]
           Closed == {X \in [S -> SUBSET S] : IsClosed(X)}
           G == [p \in S |-> {q \in S : \A X \in Closed : q \in X[p]}]
           One(p) == \E q \in G[p] : \A r \in G[p] : r = q
           g == [p \in S |-> CHOOSE q \in G[p] : TRUE]
<1>1. \A p \in D : N[p] \in S /\ p \in S
  OBVIOUS
<1>2. G \in [S -> SUBSET S] /\ \A p \in S, q \in S : q \in G[p] <=> \A X \in Closed : q \in X[p]
  OBVIOUS
<1>3. G \in Closed
  <2>1. ASSUME NEW p \in S \ D, NEW X \in Closed
        PROVE  O[p] \in X[p]
    OBVIOUS
  <2>2. ASSUME NEW p \in D, NEW q \in G[N[p]], NEW X \in Closed
        PROVE  q \in X[p]
    <3>1. X[N[p]] \subseteq X[p]
      OBVIOUS
    <3>2. q \in X[N[p]]
      BY <1>1, <1>2
    <3> QED BY <3>1, <3>2
  <2>3. \A p \in S : O[p] \in S
    OBVIOUS
  <2>4. \A p \in D : \A q \in G[N[p]] : q \in S
    BY <1>1, <1>2
  <2>5. \A p \in S \ D : O[p] \in G[p]
    <3> HIDE DEF Closed, G
    <3> QED BY <1>2, <2>1, <2>3
  <2>6. \A p \in D : G[N[p]] \subseteq G[p]
    <3> HIDE DEF Closed, G
    <3> QED BY <1>1, <1>2, <2>2, <2>4
  <2> HIDE DEF G
  <2> QED BY <1>2, <2>5, <2>6
(* What is not in D has what O makes of it, and what is in D only what the   *)
(* next one has.                                                           *)
<1>4. \A p \in S \ D : \A q \in G[p] : q = O[p]
  <2> DEFINE X == [p \in S |-> {q \in S : p \in D \/ q = O[p]}]
  <2>1. X \in Closed
    OBVIOUS
  <2>2. \A p \in S : G[p] \subseteq X[p]
    <3> HIDE DEF X, Closed
    <3> QED BY <2>1
  <2> HIDE DEF G, Closed
  <2> QED BY <2>2
<1>5. \A p \in D : G[p] \subseteq G[N[p]]
  <2> DEFINE X == [p \in S |-> {q \in G[p] : p \in D => q \in G[N[p]]}]
  <2>1. X \in [S -> SUBSET S]
    <3> HIDE DEF G
    <3> QED BY <1>2
  <2>2. \A p \in S \ D : O[p] \in X[p]
    <3> HIDE DEF G
    <3> QED BY <1>3
  <2>3. \A p \in D : X[N[p]] \subseteq X[p]
    <3>1. \A p \in D : G[N[p]] \subseteq G[p]
      BY <1>3
    <3> HIDE DEF G
    <3> QED BY <1>1, <3>1
  <2>4. X \in Closed
    <3> HIDE DEF X
    <3> QED BY <2>1, <2>2, <2>3
  <2>5. \A p \in S : G[p] \subseteq X[p]
    <3> HIDE DEF X, Closed
    <3> QED BY <2>4
  <2> HIDE DEF G, Closed
  <2> QED BY <1>1, <2>5
<1>6. \A p \in S \ D : O[p] \in G[p]
  BY <1>3
<1>7. \A p \in D : G[N[p]] = G[p]
  <2>1. \A p \in D : G[N[p]] \subseteq G[p]
    BY <1>3
  <2> HIDE DEF G, Closed
  <2> QED BY <2>1, <1>5
<1> HIDE DEF G, Closed
<1>8. \A p \in S : One(p)
  <2> DEFINE Bad == {m[p] : p \in {q \in S : ~ One(q)}}
  <2>1. SUFFICES ASSUME Bad # {} PROVE FALSE
    <3> HIDE DEF One
    <3> QED OBVIOUS
  <2>2. Bad \in SUBSET Nat
    OBVIOUS
  <2>3. PICK n : n \in Bad /\ \A k \in Bad : n <= k
    BY <2>1, <2>2, LeastNumber
  <2>4. PICK p \in S : ~ One(p) /\ n = m[p]
    BY <2>3
  <2>5. CASE p \in D
    <3>1. ~ One(N[p])
      BY <1>7, <2>4, <2>5
    <3>2. m[N[p]] \in Bad
      <4> HIDE DEF One
      <4> QED BY <1>1, <2>5, <3>1
    <3>3. m[N[p]] \in Nat /\ m[p] \in Nat /\ m[N[p]] < m[p]
      BY <1>1, <2>5
    <3>4. n <= m[N[p]] /\ n = m[p]
      <4> HIDE DEF Bad
      <4> QED BY <2>3, <2>4, <3>2
    <3> QED BY <3>3, <3>4
  <2>6. CASE p \notin D
    <3>1. O[p] \in G[p] /\ \A r \in G[p] : r = O[p]
      BY <1>4, <1>6, <2>6
    <3>2. One(p)
      BY <3>1
    <3> QED BY <2>4, <3>2
  <2> QED BY <2>5, <2>6
<1>9. \A p \in S : g[p] \in G[p] /\ \A r \in G[p] : r = g[p]
  BY <1>8
<1>10. g \in [S -> S]
  BY <1>2, <1>9
<1> HIDE DEF g
<1>11. \A p \in S : g[p] = IF p \in D THEN g[N[p]] ELSE O[p]
  BY <1>1, <1>6, <1>7, <1>9
<1> QED BY <1>10, <1>11 DEF IsTailRecursion

=============================================================================
