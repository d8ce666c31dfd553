--------------------------- MODULE ReconcilerProofs ---------------------------
(***************************************************************************)
(* Theorems about the scheduling of the reservation reconciler, for every  *)
(* value of its constants.                                                 *)
(*                                                                         *)
(* The invariant IInv says of the due index that it is a queue of the      *)
(* active reservations, each once, in the order in which they are due      *)
(* (Ordered), and of what a run has listed that each is on it once and is  *)
(* due until it is settled (PageOK): so a run that puts one off does not   *)
(* come to it again. The lemmas that lead there say where the elements of  *)
(* a sequence are when one is taken out or put in.                         *)
(***************************************************************************)
EXTENDS Reconciler, SequenceTheorems, TLAPS

\* s is a queue of the reservations in A, each once, in the order of w.
Ordered(s, A, w) ==
    /\ s \in Seq(Reservations)
    /\ \A i \in 1..Len(s) : s[i] \in A
    /\ \A r \in A : \E i \in 1..Len(s) : s[i] = r
    /\ \A i, j \in 1..Len(s) : s[i] = s[j] => i = j
    /\ \A i, j \in 1..Len(s) : i < j => w[s[i]] <= w[s[j]]

\* The elements of a sequence without its i-th.
LEMMA Removal ==
    ASSUME NEW S, NEW s \in Seq(S), NEW i \in 1..Len(s)
    PROVE  /\ RemoveAt(s, i) \in Seq(S)
           /\ Len(RemoveAt(s, i)) = Len(s) - 1
           /\ \A j \in 1..Len(s) - 1 : RemoveAt(s, i)[j] = IF j < i THEN s[j] ELSE s[j + 1]
<1> DEFINE u == SubSeq(s, 1, i - 1)
           v == SubSeq(s, i + 1, Len(s))
<1>0. Len(s) \in Nat /\ \A j \in 1..Len(s) : s[j] \in S
  BY LenProperties, ElementOfSeq
<1>1. u \in Seq(S) /\ Len(u) = i - 1 /\ \A j \in 1..i - 1 : u[j] = s[j]
  BY <1>0, SubSeqProperties
<1>2. v \in Seq(S) /\ Len(v) = Len(s) - i /\ \A j \in 1..Len(s) - i : v[j] = s[i + j]
  <2>1. \A j \in i + 1..Len(s) : s[j] \in S
    BY <1>0
  <2> QED
    BY <1>0, <2>1, SubSeqProperties
<1>3. RemoveAt(s, i) = u \o v
  BY DEF RemoveAt
<1> HIDE DEF u, v
<1>4. /\ u \o v \in Seq(S) /\ Len(u \o v) = Len(u) + Len(v)
      /\ \A j \in 1..Len(u) + Len(v) :
            (u \o v)[j] = IF j <= Len(u) THEN u[j] ELSE v[j - Len(u)]
  BY <1>1, <1>2, ConcatProperties
<1> QED
  BY <1>0, <1>1, <1>2, <1>3, <1>4

\* The elements of a sequence with e put at the i-th place.
LEMMA Insertion ==
    ASSUME NEW S, NEW s \in Seq(S), NEW e \in S, NEW i \in 1..Len(s) + 1
    PROVE  /\ InsertAt(s, i, e) \in Seq(S)
           /\ Len(InsertAt(s, i, e)) = Len(s) + 1
           /\ \A j \in 1..Len(s) + 1 :
                InsertAt(s, i, e)[j] = IF j < i THEN s[j] ELSE IF j = i THEN e ELSE s[j - 1]
<1> DEFINE u == SubSeq(s, 1, i - 1)
           v == SubSeq(s, i, Len(s))
           w == u \o <<e>>
<1>0. Len(s) \in Nat /\ \A j \in 1..Len(s) : s[j] \in S
  BY LenProperties, ElementOfSeq
<1>1. u \in Seq(S) /\ Len(u) = i - 1 /\ \A j \in 1..i - 1 : u[j] = s[j]
  BY <1>0, SubSeqProperties
<1>2. v \in Seq(S) /\ Len(v) = Len(s) - i + 1 /\ \A j \in 1..Len(s) - i + 1 : v[j] = s[i + j - 1]
  <2>1. \A j \in i..Len(s) : s[j] \in S
    BY <1>0
  <2> QED
    BY <1>0, <2>1, SubSeqProperties
<1>3. InsertAt(s, i, e) = w \o v
  BY DEF InsertAt
<1> HIDE DEF u, v
<1>4. /\ w \in Seq(S) /\ Len(w) = i
      /\ \A j \in 1..i : w[j] = IF j < i THEN u[j] ELSE e
  <2>1. <<e>> \in Seq(S) /\ Len(<<e>>) = 1 /\ <<e>>[1] = e
    OBVIOUS
  <2> QED
    BY <1>1, <2>1, ConcatProperties
<1> HIDE DEF w
<1>5. /\ w \o v \in Seq(S) /\ Len(w \o v) = Len(w) + Len(v)
      /\ \A j \in 1..Len(w) + Len(v) :
            (w \o v)[j] = IF j <= Len(w) THEN w[j] ELSE v[j - Len(w)]
  BY <1>2, <1>4, ConcatProperties
<1>6. Len(w \o v) = Len(s) + 1
  BY <1>0, <1>2, <1>4, <1>5
<1>7. ASSUME NEW j \in 1..Len(s) + 1
      PROVE  (w \o v)[j] = IF j < i THEN s[j] ELSE IF j = i THEN e ELSE s[j - 1]
  <2>1. CASE j <= i
    <3>1. j \in 1..i /\ j <= Len(w) /\ j \in 1..Len(w) + Len(v)
      BY <1>0, <1>2, <1>4, <2>1
    <3>2. (w \o v)[j] = w[j]
      BY <1>5, <3>1
    <3>3. w[j] = IF j < i THEN u[j] ELSE e
      BY <1>4, <3>1
    <3>4. CASE j < i
      <4>1. j \in 1..i - 1
        BY <3>1, <3>4
      <4> QED
        BY <1>1, <3>2, <3>3, <3>4, <4>1
    <3>5. CASE j = i
      BY <3>2, <3>3, <3>5
    <3> QED
      BY <2>1, <3>1, <3>4, <3>5
  <2>2. CASE j > i
    <3>1. (w \o v)[j] = v[j - i]
      BY <1>0, <1>2, <1>4, <1>5, <2>2
    <3>2. j - i \in 1..Len(s) - i + 1 /\ i + (j - i) - 1 = j - 1
      BY <1>0, <2>2
    <3>3. v[j - i] = s[i + (j - i) - 1]
      BY <1>2, <3>2
    <3> QED
      BY <2>2, <3>1, <3>2, <3>3
  <2>3. j <= i \/ j > i
    BY <1>0
  <2> QED
    BY <2>1, <2>2, <2>3
<1> QED
  BY <1>3, <1>5, <1>6, <1>7

\* A queue from which the one at a place is taken.
LEMMA QueueWithout ==
    ASSUME NEW s, NEW A, NEW w, Ordered(s, A, w), NEW i \in 1..Len(s)
    PROVE  Ordered(RemoveAt(s, i), A \ {s[i]}, w)
<1> DEFINE u == RemoveAt(s, i)
           from(j) == IF j < i THEN j ELSE j + 1
<1>0. s \in Seq(Reservations) /\ Len(s) \in Nat
  BY LenProperties DEF Ordered
<1>1. /\ u \in Seq(Reservations) /\ Len(u) = Len(s) - 1
      /\ \A j \in 1..Len(s) - 1 : u[j] = IF j < i THEN s[j] ELSE s[j + 1]
  BY <1>0, Removal
<1> HIDE DEF u
<1>2. ASSUME NEW j \in 1..Len(u)
      PROVE  u[j] = s[from(j)] /\ from(j) \in 1..Len(s) /\ from(j) # i
  <2>1. j \in Int /\ 1 <= j /\ j <= Len(s) - 1
    BY <1>0, <1>1
  <2>2. u[j] = IF j < i THEN s[j] ELSE s[j + 1]
    BY <1>1
  <2>3. from(j) \in 1..Len(s) /\ from(j) # i
    BY <1>0, <2>1
  <2> QED
    BY <2>2, <2>3
<1>3. \A j, k \in 1..Len(u) : (j < k => from(j) < from(k)) /\ (from(j) = from(k) => j = k)
  BY <1>0, <1>1
<1>4. \A k \in 1..Len(s) : k # i => \E j \in 1..Len(u) : from(j) = k
  <2>1. ASSUME NEW k \in 1..Len(s), k < i PROVE k \in 1..Len(u) /\ from(k) = k
    BY <1>0, <1>1, <2>1
  <2>2. ASSUME NEW k \in 1..Len(s), k > i PROVE k - 1 \in 1..Len(u) /\ from(k - 1) = k
    BY <1>0, <1>1, <2>2
  <2> HIDE DEF from, u
  <2> QED
    BY <1>0, <2>1, <2>2
<1> HIDE DEF u, from
<1>5. \A j \in 1..Len(u) : u[j] \in A \ {s[i]}
  BY <1>2 DEF Ordered
<1>6. ASSUME NEW r \in A \ {s[i]}
      PROVE  \E j \in 1..Len(u) : u[j] = r
  <2>1. PICK k \in 1..Len(s) : s[k] = r
    BY DEF Ordered
  <2>2. PICK j \in 1..Len(u) : from(j) = k
    BY <1>4, <2>1
  <2> QED
    BY <1>2, <2>1, <2>2
<1>7. ASSUME NEW j \in 1..Len(u), NEW k \in 1..Len(u), u[j] = u[k]
      PROVE  j = k
  <2>1. /\ from(j) \in 1..Len(s) /\ from(k) \in 1..Len(s)
        /\ s[from(j)] = s[from(k)]
    BY <1>2, <1>7
  <2>2. from(j) = from(k)
    BY <2>1 DEF Ordered
  <2> QED
    BY <1>3, <2>2
<1>8. ASSUME NEW j \in 1..Len(u), NEW k \in 1..Len(u), j < k
      PROVE  w[u[j]] <= w[u[k]]
  <2>1. w[s[from(j)]] <= w[s[from(k)]]
    BY <1>2, <1>3, <1>8 DEF Ordered
  <2> QED
    BY <1>2, <2>1
<1> QED
  BY <1>1, <1>5, <1>6, <1>7, <1>8 DEF Ordered, u

\* A queue in which another is put at a place where it belongs.
LEMMA QueueWith ==
    ASSUME NEW s, NEW A, NEW w \in [Reservations -> Nat], Ordered(s, A, w),
           NEW r \in Reservations \ A, NEW t \in Nat, NEW i \in 1..Len(s) + 1,
           \A j \in 1..i - 1 : w[s[j]] <= t,
           \A j \in i..Len(s) : w[s[j]] >= t
    PROVE  Ordered(InsertAt(s, i, r), A \cup {r}, [w EXCEPT ![r] = t])
<1> DEFINE u == InsertAt(s, i, r)
           x == [w EXCEPT ![r] = t]
           from(j) == IF j < i THEN j ELSE j - 1
<1>0. s \in Seq(Reservations) /\ Len(s) \in Nat /\ r \in Reservations
  BY LenProperties DEF Ordered
<1>1. /\ u \in Seq(Reservations) /\ Len(u) = Len(s) + 1
      /\ \A j \in 1..Len(s) + 1 : u[j] = IF j < i THEN s[j] ELSE IF j = i THEN r ELSE s[j - 1]
  <2>1. s \in Seq(Reservations) /\ r \in Reservations /\ i \in 1..Len(s) + 1
    BY <1>0
  <2> QED
    BY <2>1, Insertion
<1> HIDE DEF u
<1>2. i \in 1..Len(u) /\ u[i] = r
  <2>1. i \in 1..Len(s) + 1 /\ ~(i < i)
    BY <1>0
  <2> QED
    BY <1>1, <2>1
<1>3. \A j \in 1..Len(u) \ {i} : u[j] = s[from(j)] /\ from(j) \in 1..Len(s)
  <2>1. ASSUME NEW j \in 1..Len(u) \ {i}
        PROVE  from(j) \in 1..Len(s)
    BY <1>0, <1>1
  <2>2. ASSUME NEW j \in 1..Len(u) \ {i}
        PROVE  u[j] = s[from(j)]
    BY <1>0, <1>1
  <2> QED
    BY <2>1, <2>2
<1>4. ASSUME NEW j \in 1..Len(u) \ {i}, NEW k \in 1..Len(u) \ {i}
      PROVE  (j < k => from(j) < from(k)) /\ (from(j) = from(k) => j = k)
  <2>1. i \in Int /\ j \in Int /\ k \in Int /\ j # i /\ k # i
    BY <1>0, <1>1
  <2> QED
    BY <2>1
<1>5. \A k \in 1..Len(s) : \E j \in 1..Len(u) \ {i} : from(j) = k
  <2>1. ASSUME NEW k \in 1..Len(s), k < i PROVE k \in 1..Len(u) \ {i} /\ from(k) = k
    BY <1>0, <1>1, <2>1
  <2>2. ASSUME NEW k \in 1..Len(s), k >= i PROVE k + 1 \in 1..Len(u) \ {i} /\ from(k + 1) = k
    BY <1>0, <1>1, <2>2
  <2> HIDE DEF from, u
  <2> QED
    BY <1>0, <2>1, <2>2
<1>6. x[r] = t /\ \A q \in Reservations : q # r => x[q] = w[q]
  OBVIOUS
<1>7. \A k \in 1..Len(s) : /\ s[k] \in A /\ s[k] \in Reservations /\ s[k] # r
                           /\ x[s[k]] = w[s[k]] /\ w[s[k]] \in Nat
  <2>1. \A k \in 1..Len(s) : s[k] \in A /\ s[k] \in Reservations
    BY <1>0, ElementOfSeq DEF Ordered
  <2> QED
    BY <1>6, <2>1
<1>8. \A j \in 1..Len(u) \ {i} : (j < i => x[u[j]] <= t) /\ (j > i => x[u[j]] >= t)
  <2>1. \A j \in 1..Len(u) \ {i} : x[u[j]] = w[s[from(j)]]
    BY <1>3, <1>7
  <2>2. ASSUME NEW j \in 1..Len(u) \ {i}
        PROVE  (j < i => from(j) \in 1..i - 1) /\ (j > i => from(j) \in i..Len(s))
    <3>1. j \in Int /\ i \in Int /\ Len(s) \in Nat /\ 1 <= j /\ j <= Len(s) + 1
      BY <1>0, <1>1
    <3>2. CASE j < i
      <4>1. from(j) = j
        BY <3>2
      <4> QED
        BY <3>1, <3>2, <4>1
    <3>3. CASE j >= i
      <4>1. from(j) = j - 1
        BY <3>1, <3>3
      <4> QED
        BY <3>1, <3>3, <4>1
    <3> QED
      BY <3>1, <3>2, <3>3
  <2> HIDE DEF from, u, x
  <2> QED
    BY <2>1, <2>2
<1> HIDE DEF u, x, from
<1>9. \A j \in 1..Len(u) : u[j] \in A \cup {r}
  BY <1>2, <1>3, <1>7
<1>10. ASSUME NEW q \in A \cup {r}
       PROVE  \E j \in 1..Len(u) : u[j] = q
  <2>1. CASE q = r
    BY <1>2, <2>1
  <2>2. CASE q \in A
    <3>1. PICK k \in 1..Len(s) : s[k] = q
      BY <2>2 DEF Ordered
    <3>2. PICK j \in 1..Len(u) \ {i} : from(j) = k
      BY <1>5
    <3> QED
      BY <1>3, <3>1, <3>2
  <2> QED
    BY <2>1, <2>2
<1>11. ASSUME NEW j \in 1..Len(u), NEW k \in 1..Len(u), u[j] = u[k]
       PROVE  j = k
  <2>1. CASE j # i /\ k # i
    <3>1. /\ from(j) \in 1..Len(s) /\ from(k) \in 1..Len(s)
          /\ s[from(j)] = s[from(k)]
      BY <1>3, <1>11, <2>1
    <3>2. from(j) = from(k)
      BY <3>1 DEF Ordered
    <3> QED
      BY <1>4, <2>1, <3>2
  <2>2. ASSUME NEW h \in 1..Len(u) \ {i}
        PROVE  u[h] # r
    BY <1>3, <1>7
  <2>3. CASE j = i \/ k = i
    BY <1>2, <1>11, <2>2, <2>3
  <2> QED
    BY <2>1, <2>3
<1>12. ASSUME NEW j \in 1..Len(u), NEW k \in 1..Len(u), j < k
       PROVE  x[u[j]] <= x[u[k]]
  <2>1. CASE j # i /\ k # i
    <3>1. w[s[from(j)]] <= w[s[from(k)]]
      BY <1>3, <1>4, <1>12, <2>1 DEF Ordered
    <3> QED
      BY <1>3, <1>7, <2>1, <3>1
  <2>2. CASE j = i
    BY <1>2, <1>6, <1>8, <1>12, <2>2
  <2>3. CASE k = i
    BY <1>2, <1>6, <1>8, <1>12, <2>3
  <2> QED
    BY <2>1, <2>2, <2>3
<1> QED
  BY <1>1, <1>9, <1>10, <1>11, <1>12 DEF Ordered, u, x

-----------------------------------------------------------------------------
(***************************************************************************)
(* The invariant.                                                          *)
(***************************************************************************)
Active == {r \in Reservations : state[r] = "active"}

PageOK ==
    /\ page \in Seq(Reservations) /\ Len(page) <= Limit
    /\ \A i, j \in 1..Len(page) : page[i] = page[j] => i = j
    /\ \A i \in 1..Len(page) : state[page[i]] = "settled" \/ IsDue(page[i])
    /\ ~running => page = <<>>

IInv ==
    /\ state \in [Reservations -> {"absent", "active", "settled"}]
    /\ final \subseteq Reservations
    /\ wait \in [Reservations -> 0..Period]
    /\ running \in BOOLEAN
    /\ Ordered(queue, Active, wait)
    /\ PageOK

\* The queue without a reservation, whether it was there or not.
LEMMA OthersOrdered ==
    ASSUME IInv, NEW r \in Reservations
    PROVE  Ordered(Others(r), Active \ {r}, wait)
<1>1. CASE state[r] = "active"
  <2>1. DOMAIN queue = 1..Len(queue)
    BY LenProperties DEF IInv, Ordered
  <2>2. \E i \in DOMAIN queue : queue[i] = r
    BY <1>1, <2>1 DEF IInv, Ordered, Active
  <2>3. Place(r) \in 1..Len(queue) /\ queue[Place(r)] = r
    BY <2>1, <2>2 DEF Place
  <2> QED
    BY <1>1, <2>3, QueueWithout DEF IInv, Others
<1>2. CASE state[r] # "active"
  <2>1. Active \ {r} = Active
    BY <1>2 DEF Active
  <2> QED
    BY <1>2, <2>1 DEF IInv, Others
<1> QED
  BY <1>1, <1>2

\* One that is put off, or is new, is in the queue where its time belongs.
LEMMA MoveKeeps ==
    ASSUME IInv, NEW r \in Reservations, NEW t \in 0..Period, Move(r, t)
    PROVE  /\ Ordered(queue', Active \cup {r}, wait')
           /\ wait' \in [Reservations -> 0..Period]
           /\ \A q \in Reservations \ {r} : wait'[q] = wait[q]
<1> DEFINE s == Others(r)
           A == Active \ {r}
<1>1. Ordered(s, A, wait)
  BY OthersOrdered
<1>2. wait \in [Reservations -> Nat] /\ t \in Nat /\ r \in Reservations \ A
  BY ReconcilerAssumption DEF IInv
<1>3. PICK i \in Places(s, t) : queue' = InsertAt(s, i, r)
  BY DEF Move
<1>4. /\ i \in 1..Len(s) + 1
      /\ \A j \in 1..i - 1 : wait[s[j]] <= t
      /\ \A j \in i..Len(s) : wait[s[j]] >= t
  BY DEF Places
<1>5. wait' = [wait EXCEPT ![r] = t]
  BY DEF Move
<1>6. A \cup {r} = Active \cup {r}
  OBVIOUS
<1> HIDE DEF s, A
<1>7. Ordered(InsertAt(s, i, r), A \cup {r}, [wait EXCEPT ![r] = t])
  BY <1>1, <1>2, <1>4, QueueWith
<1> QED
  BY <1>3, <1>5, <1>6, <1>7 DEF IInv

\* What is still listed is due, unless it has been settled.
LEMMA PageStays ==
    ASSUME IInv, running' = running,
           page' = page \/ (page # <<>> /\ page' = Tail(page)),
           \A i \in 1..Len(page') :
               \/ state'[page'[i]] = "settled"
               \/ state'[page'[i]] = state[page'[i]] /\ wait'[page'[i]] = wait[page'[i]]
    PROVE  PageOK'
<1>1. CASE page' = page
  BY <1>1 DEF IInv, PageOK, IsDue
<1>2. CASE page # <<>> /\ page' = Tail(page)
  <2>1. page \in Seq(Reservations) /\ Len(page) \in Nat
    BY LenProperties DEF IInv, PageOK
  <2>2. /\ page' \in Seq(Reservations) /\ Len(page') = Len(page) - 1 /\ Len(page') \in Nat
        /\ \A i \in 1..Len(page') : page'[i] = page[i + 1] /\ i + 1 \in 1..Len(page)
    BY <1>2, <2>1, HeadTailProperties, LenProperties
  <2>3. Len(page') <= Limit
    BY <2>1, <2>2, ReconcilerAssumption DEF IInv, PageOK
  <2>4. ASSUME NEW i \in 1..Len(page'), NEW j \in 1..Len(page'), page'[i] = page'[j]
        PROVE  i = j
    <3>1. /\ i + 1 \in 1..Len(page) /\ j + 1 \in 1..Len(page)
          /\ page[i + 1] = page[j + 1]
      BY <2>2, <2>4
    <3>2. i + 1 = j + 1
      BY <3>1 DEF IInv, PageOK
    <3> QED
      BY <3>2
  <2>5. ASSUME NEW i \in 1..Len(page')
        PROVE  \/ state'[page'[i]] = "settled"
               \/ state'[page'[i]] = "active" /\ wait'[page'[i]] = 0
    <3>1. i + 1 \in 1..Len(page) /\ page'[i] = page[i + 1]
      BY <2>2
    <3>2. state[page'[i]] = "settled" \/ (state[page'[i]] = "active" /\ wait[page'[i]] = 0)
      BY <3>1 DEF IInv, PageOK, IsDue
    <3> QED
      BY <3>2
  <2>6. running
    BY <1>2 DEF IInv, PageOK
  <2> QED
    BY <2>2, <2>3, <2>4, <2>5, <2>6 DEF PageOK, IsDue
<1> QED
  BY <1>1, <1>2

\* The one that is taken is not on the rest of the list.
LEMMA TakenOnce ==
    ASSUME IInv, NEW r, Take(r)
    PROVE  /\ r \in Reservations /\ running /\ page # <<>> /\ page' = Tail(page)
           /\ \A i \in 1..Len(page') : page'[i] \in Reservations \ {r}
<1>1. /\ running /\ page # <<>> /\ page' = Tail(page) /\ r = Head(page)
      /\ page \in Seq(Reservations) /\ Len(page) \in Nat \ {0}
  BY EmptySeq DEF Take, IInv, PageOK
<1>2. r \in Reservations /\ r = page[1]
  BY <1>1, HeadTailProperties
<1>3. ASSUME NEW i \in 1..Len(page')
      PROVE  page'[i] \in Reservations \ {r}
  <2>1. page'[i] = page[i + 1] /\ i + 1 \in 1..Len(page) /\ i + 1 # 1 /\ 1 \in 1..Len(page)
    BY <1>1, HeadTailProperties
  <2>2. page[i + 1] \in Reservations
    BY <1>1, <2>1, ElementOfSeq
  <2> QED
    BY <1>2, <2>1, <2>2 DEF IInv, PageOK
<1> QED
  BY <1>1, <1>2, <1>3

\* A Checkout adds one that is on no list.
LEMMA ReserveKeeps ==
    ASSUME IInv, NEW r \in Reservations, Reserve(r)
    PROVE  IInv'
<1>1. /\ state[r] = "absent" /\ state' = [state EXCEPT ![r] = "active"]
      /\ Move(r, Period) /\ final' = final /\ page' = page /\ running' = running
  BY DEF Reserve
<1>2. Period \in 0..Period
  BY ReconcilerAssumption
<1>3. /\ Ordered(queue', Active \cup {r}, wait')
      /\ wait' \in [Reservations -> 0..Period]
      /\ \A q \in Reservations \ {r} : wait'[q] = wait[q]
  BY <1>1, <1>2, MoveKeeps
<1>4. /\ state' \in [Reservations -> {"absent", "active", "settled"}]
      /\ \A q \in Reservations \ {r} : state'[q] = state[q]
      /\ Active' = Active \cup {r}
  BY <1>1 DEF IInv, Active
<1>5. \A i \in 1..Len(page') : page'[i] \in Reservations \ {r}
  <2>1. \A i \in 1..Len(page) : page[i] \in Reservations
    BY ElementOfSeq DEF IInv, PageOK
  <2> QED
    BY <1>1, <2>1 DEF IInv, PageOK, IsDue
<1>6. PageOK'
  BY <1>1, <1>3, <1>4, <1>5, PageStays
<1> QED
  BY <1>1, <1>3, <1>4, <1>6 DEF IInv

\* A reservation that is settled leaves the queue.
LEMMA LeaveKeeps ==
    ASSUME IInv, NEW r \in Reservations, Leave(r), final' = final, PageOK', running' = running
    PROVE  IInv'
<1>1. state' = [state EXCEPT ![r] = "settled"] /\ queue' = Others(r) /\ wait' = wait
  BY DEF Leave
<1>2. /\ state' \in [Reservations -> {"absent", "active", "settled"}]
      /\ Active' = Active \ {r}
  BY <1>1 DEF IInv, Active
<1>3. Ordered(queue', Active', wait')
  BY <1>1, <1>2, OthersOrdered
<1> QED
  BY <1>1, <1>2, <1>3 DEF IInv

\* An event may settle one that is listed: it stays on the list, and is passed over.
LEMMA SettleByEventKeeps ==
    ASSUME IInv, NEW r \in Reservations, SettleByEvent(r)
    PROVE  IInv'
<1>1. /\ Leave(r) /\ final' = final /\ page' = page /\ running' = running
      /\ state' = [state EXCEPT ![r] = "settled"] /\ wait' = wait
  BY DEF SettleByEvent, Leave
<1>2. \A q \in Reservations : state'[q] = "settled" \/ state'[q] = state[q]
  BY <1>1 DEF IInv
<1>3. \A i \in 1..Len(page') : page'[i] \in Reservations
  BY <1>1, ElementOfSeq DEF IInv, PageOK
<1>4. PageOK'
  BY <1>1, <1>2, <1>3, PageStays
<1> QED
  BY <1>1, <1>4, LeaveKeeps

\* A run settles the one it has taken from its list.
LEMMA SettleByRunKeeps ==
    ASSUME IInv, NEW r \in Reservations, SettleByRun(r)
    PROVE  IInv'
<1>1. /\ Take(r) /\ Leave(r) /\ final' = final /\ running' = running
      /\ state' = [state EXCEPT ![r] = "settled"] /\ wait' = wait
  BY DEF SettleByRun, Leave
<1>2. \A q \in Reservations : state'[q] = "settled" \/ state'[q] = state[q]
  BY <1>1 DEF IInv
<1>3. PageOK'
  BY <1>1, <1>2, TakenOnce, PageStays
<1> QED
  BY <1>1, <1>3, LeaveKeeps

\* A run puts off the one it has taken, which is not on the rest of its list.
LEMMA DeferKeeps ==
    ASSUME IInv, NEW r \in Reservations, Defer(r)
    PROVE  IInv'
<1>1. /\ Take(r) /\ IsDue(r) /\ Move(r, Interval)
      /\ state' = state /\ final' = final /\ running' = running
  BY DEF Defer
<1>2. Interval \in 0..Period
  BY ReconcilerAssumption DEF Interval
<1>3. /\ Ordered(queue', Active \cup {r}, wait')
      /\ wait' \in [Reservations -> 0..Period]
      /\ \A q \in Reservations \ {r} : wait'[q] = wait[q]
  BY <1>1, <1>2, MoveKeeps
<1>4. Active' = Active \cup {r}
  BY <1>1 DEF Active, IsDue
<1>5. PageOK'
  BY <1>1, <1>3, TakenOnce, PageStays
<1> QED
  BY <1>1, <1>3, <1>4, <1>5 DEF IInv

\* A reservation that is passed over only leaves the list.
LEMMA PassKeeps ==
    ASSUME IInv, NEW r \in Reservations, Skip(r) \/ Miss(r)
    PROVE  IInv'
<1>1. Take(r) /\ UNCHANGED <<state, final, queue, wait, running>>
  BY DEF Skip, Miss
<1>2. PageOK'
  BY <1>1, TakenOnce, PageStays
<1> QED
  BY <1>1, <1>2 DEF IInv, Active

\* What the provider knows moves nothing.
LEMMA ConcludeKeeps ==
    ASSUME IInv, NEW r \in Reservations, Conclude(r)
    PROVE  IInv'
BY DEF IInv, Conclude, Active, PageOK, IsDue

\* A run lists the first of the queue, which are due.
LEMMA StartRunKeeps ==
    ASSUME IInv, StartRun
    PROVE  IInv'
<1>1. PICK n \in 0..Len(queue) : Lists(n) /\ page' = SubSeq(queue, 1, n)
  BY DEF StartRun
<1>2. running' = TRUE /\ UNCHANGED <<state, final, queue, wait>>
  BY DEF StartRun
<1>3. queue \in Seq(Reservations) /\ Len(queue) \in Nat /\ n \in Nat /\ n <= Len(queue)
  BY LenProperties DEF IInv, Ordered
<1>4. /\ page' \in Seq(Reservations) /\ Len(page') = n
      /\ \A i \in 1..n : page'[i] = queue[i]
  <2>1. \A i \in 1..n : queue[i] \in Reservations
    BY <1>3, ElementOfSeq
  <2> QED
    BY <1>1, <1>3, <2>1, SubSeqProperties
<1>5. ASSUME NEW i \in 1..n, NEW j \in 1..n, page'[i] = page'[j]
      PROVE  i = j
  <2>1. i \in 1..Len(queue) /\ j \in 1..Len(queue) /\ queue[i] = queue[j]
    BY <1>3, <1>4, <1>5
  <2> QED
    BY <2>1 DEF IInv, Ordered
<1>6. PageOK'
  BY <1>1, <1>2, <1>4, <1>5 DEF Lists, PageOK, IsDue
<1> QED
  BY <1>2, <1>6 DEF IInv, Active

\* A run that ends, or dies, leaves the queue as it is.
LEMMA EndRunKeeps ==
    ASSUME IInv, EndRun
    PROVE  IInv'
<1>1. /\ running' = FALSE /\ page' = <<>> /\ UNCHANGED <<state, final, queue, wait>>
  BY DEF EndRun
<1>2. PageOK'
  BY <1>1, EmptySeq, ReconcilerAssumption DEF PageOK
<1> QED
  BY <1>1, <1>2 DEF IInv, Active

\* Time brings every reservation nearer, and keeps their order.
LEMMA TickKeeps ==
    ASSUME IInv, Tick
    PROVE  IInv'
<1>1. /\ ~running /\ UNCHANGED <<state, final, queue, page, running>>
      /\ wait' = [r \in Reservations |-> IF wait[r] > 0 THEN wait[r] - 1 ELSE 0]
  BY DEF Tick
<1>2. wait' \in [Reservations -> 0..Period]
  BY <1>1, ReconcilerAssumption DEF IInv
<1>3. \A q, r \in Reservations : wait[q] <= wait[r] => wait'[q] <= wait'[r]
  BY <1>1, ReconcilerAssumption DEF IInv
<1>4. \A i \in 1..Len(queue) : queue[i] \in Reservations
  BY ElementOfSeq DEF IInv, Ordered
<1>5. Ordered(queue', Active', wait')
  BY <1>1, <1>3, <1>4 DEF IInv, Ordered, Active
<1>6. PageOK'
  BY <1>1 DEF IInv, PageOK, IsDue
<1> QED
  BY <1>1, <1>2, <1>5, <1>6 DEF IInv

\* The queue of the due index and the page of a run, in every state that the reconciler and
\* the events that settle reservations reach, are as IInv says.
THEOREM IInvHolds == Spec => []IInv
<1>1. Init => IInv
  <2> SUFFICES ASSUME Init
               PROVE  IInv
    OBVIOUS
  <2>1. Active = {} /\ <<>> \in Seq(Reservations) /\ Len(<<>>) = 0
    BY EmptySeq DEF Init, Active
  <2>2. Ordered(queue, Active, wait)
    BY <2>1 DEF Init, Ordered
  <2>3. PageOK
    BY <2>1, ReconcilerAssumption DEF Init, PageOK
  <2> QED
    <3>1. wait \in [Reservations -> 0..Period]
      BY ReconcilerAssumption DEF Init
    <3> QED
      BY <2>2, <2>3, <3>1 DEF Init, IInv
<1>2. IInv /\ [Next]_vars => IInv'
  <2> SUFFICES ASSUME IInv, [Next]_vars
               PROVE  IInv'
    OBVIOUS
  <2>1. CASE UNCHANGED vars
    BY <2>1 DEF vars, IInv, PageOK, IsDue, Active
  <2> QED
    BY <2>1, ReserveKeeps, ConcludeKeeps, SettleByEventKeeps, SettleByRunKeeps, DeferKeeps,
       PassKeeps, StartRunKeeps, EndRunKeeps, TickKeeps DEF Next, Handle
<1> QED
  BY <1>1, <1>2, PTL DEF Spec

\* The due index holds the active reservations, each once, in the order in which they are
\* due, however runs, deferrals and events interleave; a run never lists more than its limit.
THEOREM TypeCorrect == Spec => []TypeOK
<1>1. ASSUME IInv
      PROVE  TypeOK
  <2>1. DOMAIN queue = 1..Len(queue) /\ \A i \in 1..Len(queue) : queue[i] \in Reservations
    BY <1>1, LenProperties, ElementOfSeq DEF IInv, Ordered
  <2>2. ToSet(queue) = {r \in Reservations : state[r] = "active"}
    <3>1. ASSUME NEW r
          PROVE  r \in ToSet(queue) <=> r \in Active
      BY <1>1, <2>1 DEF ToSet, IInv, Ordered
    <3> QED
      BY <3>1 DEF Active
  <2>3. IsInjective(queue)
    BY <1>1, <2>1 DEF IsInjective, IInv, Ordered
  <2> QED
    BY <1>1, <2>1, <2>2, <2>3 DEF TypeOK, IInv, Ordered, PageOK
<1> QED
  BY <1>1, IInvHolds, PTL

-----------------------------------------------------------------------------
(***************************************************************************)
(* Why no reservation starves, as far as it is safety: nothing is ever put *)
(* before one that is due, so that those ahead of it only become fewer.    *)
(***************************************************************************)
Ahead(r) ==
    {q \in Reservations :
        \E j, k \in 1..Len(queue) : j < k /\ queue[j] = q /\ queue[k] = r}

\* Whoever leaves the queue, the others stay in their order.
LEMMA OthersStay ==
    ASSUME IInv, NEW x \in Reservations,
           NEW j \in 1..Len(Others(x)), NEW k \in 1..Len(Others(x)), j < k
    PROVE  Others(x)[j] \in Ahead(Others(x)[k])
<1> DEFINE s == Others(x)
<1>1. /\ queue \in Seq(Reservations) /\ Len(queue) \in Nat
      /\ \A i \in 1..Len(queue) : queue[i] \in Reservations
  BY LenProperties, ElementOfSeq DEF IInv, Ordered
<1>2. CASE state[x] = "active"
  <2>1. DOMAIN queue = 1..Len(queue)
    BY <1>1, LenProperties
  <2>2. \E i \in DOMAIN queue : queue[i] = x
    BY <1>2, <2>1 DEF IInv, Ordered, Active
  <2> DEFINE i == Place(x)
  <2>3. i \in 1..Len(queue)
    BY <2>1, <2>2 DEF Place
  <2>4. s = RemoveAt(queue, i)
    BY <1>2 DEF Others
  <2> HIDE DEF i, s
  <2>5. /\ Len(s) = Len(queue) - 1
        /\ \A h \in 1..Len(queue) - 1 : s[h] = IF h < i THEN queue[h] ELSE queue[h + 1]
    BY <1>1, <2>3, <2>4, Removal
  <2>6. j \in 1..Len(queue) - 1 /\ k \in 1..Len(queue) - 1
    BY <2>5 DEF s
  <2> DEFINE from(h) == IF h < i THEN h ELSE h + 1
  <2>7. /\ from(j) \in 1..Len(queue) /\ from(k) \in 1..Len(queue) /\ from(j) < from(k)
    BY <1>1, <2>3, <2>6
  <2>8. s[j] = queue[from(j)] /\ s[k] = queue[from(k)]
    BY <2>5, <2>6
  <2> HIDE DEF from
  <2>9. s[j] \in Ahead(s[k])
    BY <1>1, <2>7, <2>8 DEF Ahead
  <2> QED
    BY <2>9 DEF s
<1>3. CASE state[x] # "active"
  BY <1>1, <1>3 DEF Others, Ahead
<1> QED
  BY <1>2, <1>3

\* One that is put off, or is new, comes after all that are due.
LEMMA MovesBehind ==
    ASSUME IInv, NEW x \in Reservations, NEW t \in 1..Period, Move(x, t),
           NEW r \in Reservations \ {x}, wait[r] = 0
    PROVE  Ahead(r)' \subseteq Ahead(r)
<1> DEFINE s == Others(x)
<1>1. s \in Seq(Reservations) /\ Len(s) \in Nat
  BY OthersOrdered, LenProperties DEF Ordered
<1>2. PICK i \in Places(s, t) : queue' = InsertAt(s, i, x)
  BY DEF Move
<1>3. i \in 1..Len(s) + 1 /\ \A h \in i..Len(s) : wait[s[h]] >= t
  BY DEF Places
<1> SUFFICES ASSUME NEW q \in Reservations,
                    NEW j \in 1..Len(queue'), NEW k \in 1..Len(queue'),
                    j < k, queue'[j] = q, queue'[k] = r
             PROVE  q \in Ahead(r)
  BY DEF Ahead
<1> HIDE DEF s
<1>4. /\ Len(queue') = Len(s) + 1
      /\ \A h \in 1..Len(s) + 1 :
            queue'[h] = IF h < i THEN s[h] ELSE IF h = i THEN x ELSE s[h - 1]
  <2> DEFINE u == InsertAt(s, i, x)
  <2>1. /\ Len(u) = Len(s) + 1
        /\ \A h \in 1..Len(s) + 1 : u[h] = IF h < i THEN s[h] ELSE IF h = i THEN x ELSE s[h - 1]
    BY <1>1, <1>3, Insertion
  <2>2. queue' = u
    BY <1>2
  <2> HIDE DEF u
  <2> QED
    BY <2>1, <2>2
<1>5. k < i
  <2>1. CASE k = i
    BY <1>3, <1>4, <2>1
  <2>2. CASE k > i
    <3>1. k - 1 \in i..Len(s) /\ s[k - 1] = r
      BY <1>1, <1>3, <1>4, <2>2
    <3>2. wait[r] >= t
      BY <1>3, <3>1
    <3> QED
      BY <3>2
  <2>3. k \in Int /\ i \in Int
    BY <1>1, <1>3, <1>4
  <2> QED
    BY <2>1, <2>2, <2>3
<1>6. j \in 1..Len(s) /\ k \in 1..Len(s) /\ s[j] = q /\ s[k] = r
  BY <1>1, <1>3, <1>4, <1>5
<1> QED
  BY <1>6, OthersStay DEF s

\* One that leaves the queue puts nothing before another.
LEMMA LeavesOrder ==
    ASSUME IInv, NEW x \in Reservations, queue' = Others(x), NEW r
    PROVE  Ahead(r)' \subseteq Ahead(r)
<1> SUFFICES ASSUME NEW q \in Reservations,
                    NEW j \in 1..Len(queue'), NEW k \in 1..Len(queue'),
                    j < k, queue'[j] = q, queue'[k] = r
             PROVE  q \in Ahead(r)
  BY DEF Ahead
<1>1. j \in 1..Len(Others(x)) /\ k \in 1..Len(Others(x)) /\ Others(x)[j] = q /\ Others(x)[k] = r
  OBVIOUS
<1> QED
  BY <1>1, OthersStay

\* No step of a run, of an event or of a Checkout puts a reservation before one that is due
\* and stays due: deferred ones go behind it, whatever their evidence and however they fail.
THEOREM NobodyOvertakes ==
    Spec => [][\A r \in Reservations : IsDue(r) /\ IsDue(r)' => Ahead(r)' \subseteq Ahead(r)]_vars
<1>1. ASSUME IInv, Next, NEW r \in Reservations, IsDue(r), IsDue(r)'
      PROVE  Ahead(r)' \subseteq Ahead(r)
  <2>1. CASE queue' = queue
    BY <2>1 DEF Ahead
  <2>2. ASSUME NEW x \in Reservations, SettleByEvent(x) \/ SettleByRun(x)
        PROVE  Ahead(r)' \subseteq Ahead(r)
    BY <1>1, <2>2, LeavesOrder DEF SettleByEvent, SettleByRun, Leave
  <2>3. ASSUME NEW x \in Reservations, Reserve(x) \/ Defer(x)
        PROVE  Ahead(r)' \subseteq Ahead(r)
    <3>1. PICK t \in 1..Period : Move(x, t)
      BY <2>3, ReconcilerAssumption DEF Reserve, Defer, Interval
    <3>2. x # r
      BY <1>1, <3>1 DEF Move, IsDue, IInv
    <3> QED
      BY <1>1, <3>1, <3>2, MovesBehind DEF IsDue
  <2>4. \/ queue' = queue
        \/ \E x \in Reservations :
              SettleByEvent(x) \/ SettleByRun(x) \/ Reserve(x) \/ Defer(x)
    BY <1>1 DEF Next, Handle, Conclude, Skip, Miss, StartRun, EndRun, Tick
  <2> QED
    BY <2>1, <2>2, <2>3, <2>4
<1>2. IInv /\ [Next]_vars =>
        [\A r \in Reservations : IsDue(r) /\ IsDue(r)' => Ahead(r)' \subseteq Ahead(r)]_vars
  BY <1>1
<1> QED
  BY <1>2, IInvHolds, PTL DEF Spec
=============================================================================
