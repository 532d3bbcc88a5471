---------------------------- MODULE PlSqlProofs ----------------------------
(***************************************************************************)
(* The PL/SQL interpreter, for any blocks and loops, any depth of nesting  *)
(* and any number of calls and changes: its stacks match the control, what *)
(* is raised reaches the handler it ought to, a query changes nothing and  *)
(* a failed block is undone.                                               *)
(*                                                                         *)
(* StacksMatchControl counts; what is inductive is that the frames and the *)
(* exceptions being handled of every Interp correspond one by one to the   *)
(* calls in progress that put them there (Stacks).  The sequence of the    *)
(* positions of those calls is the witness (Lists, Follow).  First come    *)
(* the lemmas that each way to put down or take back a frame or a call     *)
(* keeps Stacks, then the invariant and the actions.                       *)
(***************************************************************************)
EXTENDS PlSql, TLAPS, FiniteSetTheorems

(* A step is proved by Zenon unless it names another prover. *)
USE Zenon

(* The elements of A, smallest first.                                       *)
Lists(q, A) ==
  /\ q \in Seq(Nat)
  /\ \A i \in 1..Len(q) : q[i] \in A
  /\ \A a \in A : \E i \in 1..Len(q) : q[i] = a
  /\ \A i, j \in 1..Len(q) : i < j => q[i] < q[j]

(* xs is what ys has at the positions A, in their order.                    *)
Follow(xs, ys, A) ==
  \E q : /\ Lists(q, A)
         /\ Len(q) = Len(xs)
         /\ \A i \in 1..Len(q) : xs[i] = ys[q[i]]

-----------------------------------------------------------------------------
(* A nonempty set of numbers has a least element.                           *)
LEMMA LeastNat ==
  ASSUME NEW T \in SUBSET Nat, T # {}
  PROVE  \E m \in T : \A k \in T : m <= k
<1>1. PICK m \in T : \A k \in T : ~ (<<k, m>> \in OpToRel(<, Nat))
  BY ONLY T \in SUBSET Nat, T # {}, NatLessThanWellFounded, WFMin
<1>2. \A k \in T : ~ (k < m)
  BY <1>1 DEF OpToRel
<1>3. \A k \in T : m <= k
  BY <1>2, SMT
<1> QED
  BY <1>3

(* The numbers up to i in a list of m of them.                              *)
LEMMA CountBelow ==
  ASSUME NEW q, NEW A, Lists(q, A), NEW i \in Nat, NEW m \in 0..Len(q),
         m = 0 \/ q[m] <= i, m = Len(q) \/ i < q[m + 1]
  PROVE  Cardinality({j \in A : j <= i}) = m
<1> DEFINE S == {j \in A : j <= i}
           f == [h \in 1..m |-> q[h]]
<1>1. Len(q) \in Nat /\ m \in Nat /\ \A h \in 1..Len(q) : q[h] \in Nat
  BY SMT DEF Lists
<1>2. \A h \in 1..m : h \in 1..Len(q) /\ q[h] \in A /\ q[h] <= i
  <2> TAKE h \in 1..m
  <2>1. h \in 1..Len(q) /\ m \in 1..Len(q) /\ q[m] <= i /\ (h = m \/ h < m)
    BY <1>1, SMT
  <2>2. h < m => q[h] < q[m]
    BY <2>1 DEF Lists
  <2>3. q[h] \in Nat /\ q[m] \in Nat
    BY <1>1, <2>1
  <2>4. q[h] <= i
    BY <2>1, <2>2, <2>3, SMT
  <2> QED
    BY <2>1, <2>4 DEF Lists
<1>3. f \in [1..m -> S]
  BY <1>2
<1>4. ASSUME NEW a \in 1..m, NEW b \in 1..m, f[a] = f[b] PROVE a = b
  <2>1. q[a] = q[b] /\ q[a] \in Nat /\ a \in 1..Len(q) /\ b \in 1..Len(q)
    BY <1>1, <1>2, <1>4
  <2>2. (a < b => q[a] < q[b]) /\ (b < a => q[b] < q[a])
    BY <2>1 DEF Lists
  <2> QED
    BY <2>1, <2>2, SMT
<1>5. ASSUME NEW s \in S PROVE \E h \in 1..m : f[h] = s
  <2>1. PICK h \in 1..Len(q) : q[h] = s
    BY <1>5 DEF Lists
  <2>2. q[h] \in Nat /\ q[h] <= i
    BY <1>1, <1>5, <2>1
  <2>3. CASE h <= m
    <3>1. h \in 1..m
      BY <1>1, <2>1, <2>3, SMT
    <3> QED
      BY <3>1, <2>1
  <2>4. CASE ~ (h <= m)
    <3>1. m + 1 \in 1..Len(q) /\ i < q[m + 1] /\ (h = m + 1 \/ m + 1 < h)
      BY <1>1, <2>1, <2>4, SMT
    <3>2. m + 1 < h => q[m + 1] < q[h]
      BY <3>1, <2>1 DEF Lists
    <3>3. q[m + 1] \in Nat
      BY <1>1, <3>1
    <3> QED
      BY <2>2, <3>1, <3>2, <3>3, SMT
  <2> QED
    BY <2>3, <2>4
<1>6. ExistsBijection(1..m, S)
  <2>1. f \in Injection(1..m, S)
    BY <1>3, <1>4 DEF Injection, IsInjective
  <2>2. f \in Surjection(1..m, S)
    BY <1>3, <1>5 DEF Surjection
  <2> QED
    BY <2>1, <2>2 DEF ExistsBijection, Bijection
<1> QED
  BY <1>1, <1>6, FS_CountingElements

(* A list is as long as its set is large.                                   *)
LEMMA CountAll ==
  ASSUME NEW q, NEW A, Lists(q, A)
  PROVE  Cardinality(A) = Len(q)
<1>1. Len(q) \in Nat /\ \A h \in 1..Len(q) : q[h] \in Nat
  BY SMT DEF Lists
<1>2. CASE Len(q) = 0
  <2>1. A = {j \in A : j <= 0}
    <3>1. \A a \in A : \E h \in 1..Len(q) : q[h] = a
      BY DEF Lists
    <3>2. ~ \E h \in 1..Len(q) : TRUE
      BY <1>2, SMT
    <3> QED
      BY <3>1, <3>2
  <2>2. 0 \in 0..Len(q) /\ 0 \in Nat
    BY <1>1, SMT
  <2>3. Cardinality({j \in A : j <= 0}) = 0
    BY <1>2, <2>2, CountBelow, SMT
  <2> QED
    BY <1>2, <2>1, <2>3
<1>3. CASE Len(q) # 0
  <2> DEFINE n == Len(q)
  <2>1. n \in 1..n /\ n \in 0..n /\ n \in Nat
    BY <1>1, <1>3, SMT
  <2>2. q[n] \in Nat /\ q[n] <= q[n]
    BY <1>1, <2>1, SMT
  <2>3. Cardinality({j \in A : j <= q[n]}) = n
    BY <2>1, <2>2, CountBelow
  <2>4. \A a \in A : a <= q[n]
    <3> TAKE a \in A
    <3>1. PICK h \in 1..n : q[h] = a
      BY DEF Lists
    <3>2. h = n \/ h < n
      BY <1>1, <3>1, SMT
    <3>3. h < n => q[h] < q[n]
      BY <2>1, <3>1 DEF Lists
    <3> QED
      BY <1>1, <2>2, <3>1, <3>2, <3>3, SMT
  <2>5. A = {j \in A : j <= q[n]}
    BY <2>4
  <2> QED
    BY <2>3, <2>5
<1> QED
  BY <1>2, <1>3

(* The h-th of a list is the one with h elements up to it.                  *)
LEMMA NthCount ==
  ASSUME NEW q, NEW A, Lists(q, A), NEW h \in 1..Len(q)
  PROVE  Cardinality({j \in A : j <= q[h]}) = h
<1>1. Len(q) \in Nat /\ \A i \in 1..Len(q) : q[i] \in Nat
  BY SMT DEF Lists
<1>2. h \in 0..Len(q) /\ q[h] \in Nat /\ q[h] <= q[h]
  BY <1>1, SMT
<1>3. h = Len(q) \/ (h + 1 \in 1..Len(q) /\ h < h + 1)
  BY <1>1, SMT
<1>4. h = Len(q) \/ q[h] < q[h + 1]
  BY <1>3 DEF Lists
<1> QED
  BY <1>2, <1>4, CountBelow

LEMMA NthOnly ==
  ASSUME NEW q, NEW A, Lists(q, A), NEW h \in 1..Len(q),
         NEW a \in A, Cardinality({j \in A : j <= a}) = h
  PROVE  a = q[h]
<1>1. PICK i \in 1..Len(q) : q[i] = a
  BY DEF Lists
<1>2. Cardinality({j \in A : j <= q[i]}) = i
  BY NthCount
<1>3. i = h
  BY <1>1, <1>2
<1> QED
  BY <1>1, <1>3

(* Every position from the first of a list on is behind one of the list and *)
(* before the next.                                                         *)
LEMMA Between ==
  ASSUME NEW q, NEW A, Lists(q, A), NEW i \in Nat, Len(q) # 0, q[1] <= i
  PROVE  \E m \in 1..Len(q) : q[m] <= i /\ (m = Len(q) \/ i < q[m + 1])
<1>1. Len(q) \in Nat /\ \A h \in 1..Len(q) : q[h] \in Nat
  BY SMT DEF Lists
<1> DEFINE T == {m \in Nat : m = Len(q) \/ (m < Len(q) /\ i < q[m + 1])}
<1>2. T \in SUBSET Nat /\ Len(q) \in T
  BY <1>1
<1>3. PICK m \in T : \A k \in T : m <= k
  BY <1>2, LeastNat
<1>4. m \in Nat /\ m <= Len(q) /\ (m = Len(q) \/ i < q[m + 1])
  BY <1>1, <1>3
<1>5. m # 0
  <2>1. q[1] \in Nat /\ ~ (i < q[1]) /\ 0 + 1 = 1
    <3>1. 1 \in 1..Len(q) /\ 0 + 1 = 1
      BY <1>1, SMT
    <3>2. q[1] \in Nat
      BY <1>1, <3>1
    <3> QED
      BY <3>1, <3>2, SMT
  <2> QED
    BY <1>4, <2>1
<1>6. m \in 1..Len(q) /\ m - 1 \in Nat /\ m - 1 < Len(q) /\ (m - 1) + 1 = m /\ ~ (m <= m - 1)
  BY <1>1, <1>4, <1>5, SMT
<1>7. ~ (i < q[m])
  BY <1>3, <1>6
<1>8. q[m] \in Nat
  BY <1>1, <1>6
<1>9. q[m] <= i
  BY <1>7, <1>8, SMT
<1> QED
  BY <1>4, <1>6, <1>9

LEMMA ListsPush ==
  ASSUME NEW q, NEW A, Lists(q, A), NEW x \in Nat, \A a \in A : a < x
  PROVE  /\ Lists(Append(q, x), A \cup {x})
         /\ Len(Append(q, x)) = Len(q) + 1
         /\ Append(q, x)[Len(q) + 1] = x
         /\ \A i \in 1..Len(q) : Append(q, x)[i] = q[i]
<1> DEFINE r == Append(q, x)
           n == Len(q)
<1>1. q \in Seq(Nat) /\ n \in Nat
  BY SMT DEF Lists
<1>2. /\ r \in Seq(Nat) /\ Len(r) = n + 1 /\ r[n + 1] = x
      /\ \A i \in 1..n : r[i] = q[i]
  BY <1>1, SMT
<1> HIDE DEF r
<1>3. \A i \in 1..(n + 1) : i \in 1..n \/ i = n + 1
  BY <1>1, SMT
<1>4. \A i \in 1..n : i \in 1..(n + 1) /\ i < n + 1
  BY <1>1, SMT
<1>5. n + 1 \in 1..(n + 1)
  BY <1>1, SMT
<1>6. \A i \in 1..Len(r) : r[i] \in A \cup {x}
  BY <1>2, <1>3 DEF Lists
<1>7. \A a \in A \cup {x} : \E i \in 1..Len(r) : r[i] = a
  BY <1>2, <1>4, <1>5 DEF Lists
<1>8. ASSUME NEW i \in 1..(n + 1), NEW j \in 1..(n + 1), i < j PROVE r[i] < r[j]
  <2>1. i \in 1..n
    BY <1>1, <1>8, SMT
  <2>2. CASE j = n + 1
    BY <1>2, <2>1, <2>2 DEF Lists
  <2>3. CASE j \in 1..n
    BY <1>2, <1>8, <2>1, <2>3 DEF Lists
  <2> QED
    BY <1>3, <2>2, <2>3
<1>9. Lists(r, A \cup {x})
  BY <1>2, <1>6, <1>7, <1>8 DEF Lists
<1> QED
  BY <1>2, <1>9 DEF r

(* A sequence without its last element.                                     *)
LEMMA FrontOf ==
  ASSUME NEW S, NEW s \in Seq(S), Len(s) # 0
  PROVE  /\ Front(s) \in Seq(S)
         /\ Len(Front(s)) = Len(s) - 1
         /\ \A i \in 1..(Len(s) - 1) : Front(s)[i] = s[i]
<1> DEFINE n == Len(s)
           r == [i \in 1..(n - 1) |-> s[i]]
<1>1. n \in Nat /\ n - 1 \in Nat /\ \A i \in 1..(n - 1) : i \in 1..n /\ s[i] \in S
  BY SMT
<1>2. Front(s) = r
  <2>1. Front(s) = [i \in 1..(1 + (n - 1) - 1) |-> s[1 + i - 1]]
    BY SMT DEF Front
  <2>2. 1 + (n - 1) - 1 = n - 1 /\ \A i \in 1..(n - 1) : 1 + i - 1 = i
    BY <1>1, SMT
  <2> QED
    BY <2>1, <2>2
<1>3. r \in [1..(n - 1) -> S]
  BY <1>1
<1>4. r \in Seq(S) /\ Len(r) = n - 1
  BY <1>1, <1>3, SMT
<1> QED
  BY <1>2, <1>4

LEMMA ListsPop ==
  ASSUME NEW q, NEW A, Lists(q, A), NEW x \in A, \A a \in A : a <= x
  PROVE  /\ Len(q) \in Nat \ {0} /\ q[Len(q)] = x
         /\ Lists(Front(q), A \ {x})
         /\ Len(Front(q)) = Len(q) - 1
         /\ \A i \in 1..(Len(q) - 1) : Front(q)[i] = q[i]
<1> DEFINE r == Front(q)
           n == Len(q)
<1>1. q \in Seq(Nat) /\ n \in Nat /\ \A i \in 1..n : q[i] \in Nat
  BY SMT DEF Lists
<1>2. PICK k \in 1..n : q[k] = x
  BY DEF Lists
<1>3. n \in 1..n /\ n # 0 /\ (k = n \/ k < n)
  BY <1>1, <1>2, SMT
<1>4. q[n] \in A /\ q[n] <= x /\ (k < n => q[k] < q[n]) /\ q[n] \in Nat
  BY <1>1, <1>2, <1>3 DEF Lists
<1>5. q[n] = x
  BY <1>1, <1>2, <1>3, <1>4, SMT
<1>6. /\ r \in Seq(Nat) /\ Len(r) = n - 1
      /\ \A i \in 1..(n - 1) : r[i] = q[i]
  BY <1>1, <1>3, FrontOf
<1> HIDE DEF r
<1>7. \A i \in 1..(n - 1) : i \in 1..n /\ i < n
  BY <1>1, SMT
<1>8. \A i \in 1..n : i \in 1..(n - 1) \/ i = n
  BY <1>1, SMT
<1>9. \A i \in 1..(n - 1) : q[i] \in A /\ q[i] # x
  <2> TAKE i \in 1..(n - 1)
  <2>1. q[i] \in A /\ q[i] < q[n] /\ q[i] \in Nat
    BY <1>1, <1>3, <1>7 DEF Lists
  <2> QED
    BY <1>4, <1>5, <2>1, SMT
<1>10. \A i \in 1..Len(r) : r[i] \in A \ {x}
  BY <1>6, <1>9
<1>11. \A a \in A \ {x} : \E i \in 1..Len(r) : r[i] = a
  <2> TAKE a \in A \ {x}
  <2>1. PICK i \in 1..n : q[i] = a
    BY DEF Lists
  <2>2. i \in 1..(n - 1)
    BY <1>5, <1>8, <2>1
  <2> QED
    BY <1>6, <2>1, <2>2
<1>12. \A i, j \in 1..Len(r) : i < j => r[i] < r[j]
  BY <1>6, <1>7 DEF Lists
<1>13. Lists(r, A \ {x})
  BY <1>6, <1>10, <1>11, <1>12 DEF Lists
<1>14. n \in Nat \ {0}
  BY <1>1, <1>3
<1> QED
  BY <1>5, <1>6, <1>13, <1>14 DEF r

-----------------------------------------------------------------------------
LEMMA FollowSame ==
  ASSUME NEW xs, NEW ys, NEW A, Follow(xs, ys, A), NEW zs, \A a \in A : zs[a] = ys[a]
  PROVE  Follow(xs, zs, A)
<1>1. PICK q : Lists(q, A) /\ Len(q) = Len(xs) /\ \A i \in 1..Len(q) : xs[i] = ys[q[i]]
  BY DEF Follow
<1>2. \A i \in 1..Len(q) : xs[i] = zs[q[i]]
  BY <1>1 DEF Lists
<1> QED
  BY <1>1, <1>2 DEF Follow

LEMMA FollowPush ==
  ASSUME NEW S, NEW xs \in Seq(S), NEW ys, NEW A, Follow(xs, ys, A),
         NEW zs, \A a \in A : zs[a] = ys[a],
         NEW x \in Nat, \A a \in A : a < x, NEW v, zs[x] = v
  PROVE  Follow(Append(xs, v), zs, A \cup {x})
<1>1. PICK q : Lists(q, A) /\ Len(q) = Len(xs) /\ \A i \in 1..Len(q) : xs[i] = ys[q[i]]
  BY DEF Follow
<1> DEFINE r == Append(q, x)
           n == Len(q)
<1>2. /\ Lists(r, A \cup {x}) /\ Len(r) = n + 1 /\ r[n + 1] = x
      /\ \A i \in 1..n : r[i] = q[i]
  <2>1. Lists(q, A)
    BY <1>1
  <2> QED
    BY <2>1, ListsPush
<1> HIDE DEF r
<1>3. n \in Nat /\ \A i \in 1..(n + 1) : i \in 1..n \/ i = n + 1
  <2>1. n \in Nat
    BY <1>1, SMT DEF Lists
  <2> QED
    BY <2>1, SMT
<1>4. /\ Len(Append(xs, v)) = n + 1 /\ Append(xs, v)[n + 1] = v
      /\ \A i \in 1..n : Append(xs, v)[i] = xs[i]
  BY <1>1, <1>3, SMT
<1>5. \A i \in 1..n : xs[i] = zs[r[i]]
  <2> TAKE i \in 1..n
  <2>1. q[i] \in A
    BY <1>1 DEF Lists
  <2> QED
    BY <1>1, <1>2, <2>1
<1>6. \A i \in 1..Len(r) : Append(xs, v)[i] = zs[r[i]]
  BY <1>2, <1>3, <1>4, <1>5
<1>7. Len(r) = Len(Append(xs, v))
  BY <1>2, <1>4
<1> QED
  BY <1>2, <1>6, <1>7 DEF Follow

LEMMA FollowPop ==
  ASSUME NEW S, NEW xs \in Seq(S), NEW ys, NEW A, Follow(xs, ys, A),
         NEW x \in A, \A a \in A : a <= x,
         NEW zs, \A a \in A \ {x} : zs[a] = ys[a]
  PROVE  Len(xs) # 0 /\ Follow(Front(xs), zs, A \ {x})
<1>1. PICK q : Lists(q, A) /\ Len(q) = Len(xs) /\ \A i \in 1..Len(q) : xs[i] = ys[q[i]]
  BY DEF Follow
<1> DEFINE r == Front(q)
           n == Len(q)
<1>2. /\ n \in Nat \ {0} /\ Lists(r, A \ {x}) /\ Len(r) = n - 1
      /\ \A i \in 1..(n - 1) : r[i] = q[i]
  BY <1>1, ListsPop
<1> HIDE DEF r
<1>3. n # 0 /\ \A i \in 1..(n - 1) : i \in 1..n
  BY <1>2, SMT
<1>4. /\ Len(Front(xs)) = n - 1
      /\ \A i \in 1..(n - 1) : Front(xs)[i] = xs[i]
  BY <1>1, <1>3, FrontOf
<1>5. \A i \in 1..Len(r) : Front(xs)[i] = zs[r[i]]
  <2> TAKE i \in 1..Len(r)
  <2>1. i \in 1..(n - 1) /\ i \in 1..n /\ r[i] \in A \ {x}
    BY <1>2, <1>3 DEF Lists
  <2>2. Front(xs)[i] = ys[q[i]] /\ r[i] = q[i]
    BY <1>1, <1>2, <1>4, <2>1
  <2>3. zs[r[i]] = ys[r[i]]
    BY <2>1
  <2> QED
    BY <2>2, <2>3
<1> QED
  BY <1>1, <1>2, <1>3, <1>4, <1>5 DEF Follow

(* Nothing at no positions, and one at one.                                 *)
LEMMA FollowNone ==
  ASSUME NEW ys
  PROVE  Follow(<< >>, ys, {}) /\ Lists(<< >>, {})
<1>1. Lists(<< >>, {})
  BY SMT DEF Lists
<1>2. Len(<< >>) = 0 /\ \A i \in 1..0 : FALSE
  BY SMT
<1> QED
  BY <1>1, <1>2 DEF Follow

-----------------------------------------------------------------------------
(* What the variables hold.                                                 *)
Names == {"no", "user", "init"}
Excs == [code : {"1403", "6510", "other"}, user : BOOLEAN]
Frames == [e : Names, cursor : {"no", "closed", "open"}]
Interps == [host : {"session", "query"}, frames : Seq(Frames), handling : Seq(Excs)]
Entries ==
  [k : {"block", "handler", "loop", "call", "dynamic"},
   handlers : Seq({"OTHERS", "NO_DATA_FOUND", "E"}), label : {None, "L"},
   framed : BOOLEAN, function : BOOLEAN, sql : BOOLEAN, e : Names, exc : Excs \cup {None}]

(* Blocks and their handlers have a frame, and only they declare names; a   *)
(* function called from a query is called.                                  *)
Formed(entry) ==
  /\ entry.k \in {"block", "handler"} => entry.framed
  /\ entry.e # "no" => entry.k \in {"block", "handler"}
  /\ entry.sql => entry.k = "call"

Opens(entry) == entry.k \in {"call", "dynamic"}
Holds(entry) == entry.framed \/ entry.k = "call"

(* Where the Interps start; the first has no call of its own.               *)
Opened(st) == {0} \cup {i \in DOMAIN st : Opens(st[i])}
Called(st) == {i \in DOMAIN st : st[i].k = "call"}

(* The positions from lo to hi of what has put down a frame, and of what    *)
(* handles an exception.                                                    *)
Framing(st, lo, hi) == {i \in DOMAIN st : lo <= i /\ i <= hi /\ Holds(st[i])}
Handling(st, lo, hi) == {i \in DOMAIN st : lo <= i /\ i <= hi /\ st[i].k = "handler"}

Es(fs) == [i \in DOMAIN fs |-> fs[i].e]
Caught(st) == [i \in DOMAIN st |-> st[i].exc]

(* x is the Interp of the calls from lo to hi.                              *)
Matched(x, st, lo, hi) ==
  /\ Follow(Es(x.frames), Es(st), Framing(st, lo, hi))
  /\ Follow(x.handling, Caught(st), Handling(st, lo, hi))

Until(op, st, n) == IF n < Len(op) THEN op[n + 1] - 1 ELSE Len(st)

(* The Interps start at op, and those of a query know it.                   *)
Match(op, st, ip) ==
  /\ Lists(op, Opened(st)) /\ Len(op) = Len(ip)
  /\ \A n \in 1..Len(op) : /\ Matched(ip[n], st, op[n], Until(op, st, n))
                           /\ (\E i \in 1..op[n] : st[i].sql) => ip[n].host = "query"

Stacks(st, ip, d) ==
  /\ st \in Seq(Entries) /\ ip \in Seq(Interps) /\ d \in Nat
  /\ \A i \in 1..Len(st) : Formed(st[i])
  /\ \E op : Match(op, st, ip)
  /\ \E cs : Lists(cs, Called(st)) /\ Len(cs) = d

-----------------------------------------------------------------------------
(* The names of frames put down and taken back.                             *)
LEMMA EsType ==
  ASSUME NEW fs \in Seq(Frames)
  PROVE  Es(fs) \in Seq(Names) /\ Len(Es(fs)) = Len(fs) /\ \A i \in 1..Len(fs) : Es(fs)[i] = fs[i].e
<1>1. Len(fs) \in Nat /\ DOMAIN fs = 1..Len(fs) /\ \A i \in 1..Len(fs) : fs[i] \in Frames
  BY SMT
<1>2. \A i \in 1..Len(fs) : fs[i].e \in Names
  BY <1>1 DEF Frames
<1>3. Es(fs) = [i \in 1..Len(fs) |-> fs[i].e]
  BY <1>1 DEF Es
<1>4. Es(fs) \in [1..Len(fs) -> Names]
  BY <1>2, <1>3
<1>5. Es(fs) \in Seq(Names) /\ Len(Es(fs)) = Len(fs)
  BY <1>1, <1>4, SMT
<1> QED
  BY <1>3, <1>5

LEMMA EsAppend ==
  ASSUME NEW fs \in Seq(Frames), NEW f \in Frames
  PROVE  Es(Append(fs, f)) = Append(Es(fs), f.e)
<1> DEFINE n == Len(fs)
           gs == Append(fs, f)
<1>1. n \in Nat /\ gs \in Seq(Frames) /\ Len(gs) = n + 1 /\ gs[n + 1] = f /\ \A i \in 1..n : gs[i] = fs[i]
  BY SMT
<1>2. \A i \in 1..(n + 1) : i \in 1..n \/ i = n + 1
  BY <1>1, SMT
<1> HIDE DEF gs
<1>3. Es(gs) \in Seq(Names) /\ Len(Es(gs)) = n + 1 /\ \A i \in 1..(n + 1) : Es(gs)[i] = gs[i].e
  BY <1>1, EsType
<1>4. Es(fs) \in Seq(Names) /\ Len(Es(fs)) = n /\ \A i \in 1..n : Es(fs)[i] = fs[i].e
  BY EsType
<1>5. f.e \in Names
  BY DEF Frames
<1> DEFINE r == Append(Es(fs), f.e)
<1>6. r \in Seq(Names) /\ Len(r) = n + 1 /\ r[n + 1] = f.e /\ \A i \in 1..n : r[i] = Es(fs)[i]
  BY <1>1, <1>4, <1>5, SMT
<1> HIDE DEF r
<1>7. \A i \in 1..(n + 1) : Es(gs)[i] = r[i]
  BY <1>1, <1>2, <1>3, <1>4, <1>6
<1>8. Es(gs) = r
  BY <1>3, <1>6, <1>7, SMT
<1> QED
  BY <1>8 DEF gs, r

LEMMA EsFront ==
  ASSUME NEW fs \in Seq(Frames), Len(fs) # 0
  PROVE  Front(fs) \in Seq(Frames) /\ Es(Front(fs)) = Front(Es(fs))
<1> DEFINE n == Len(fs) - 1
           gs == Front(fs)
           r == Front(Es(fs))
<1>1. gs \in Seq(Frames) /\ Len(gs) = n /\ \A i \in 1..n : gs[i] = fs[i]
  BY FrontOf
<1>2. \A i \in 1..n : i \in 1..Len(fs)
  BY SMT
<1>3. Es(fs) \in Seq(Names) /\ Len(Es(fs)) = Len(fs) /\ \A i \in 1..Len(fs) : Es(fs)[i] = fs[i].e
  BY EsType
<1>4. r \in Seq(Names) /\ Len(r) = n /\ \A i \in 1..n : r[i] = Es(fs)[i]
  <2>1. Len(Es(fs)) # 0 /\ Len(Es(fs)) - 1 = n
    BY <1>3
  <2> QED
    BY <1>3, <2>1, FrontOf
<1> HIDE DEF gs, r
<1>5. Es(gs) \in Seq(Names) /\ Len(Es(gs)) = n /\ \A i \in 1..n : Es(gs)[i] = gs[i].e
  BY <1>1, EsType
<1>6. \A i \in 1..n : Es(gs)[i] = r[i]
  BY <1>1, <1>2, <1>3, <1>4, <1>5
<1>7. Es(gs) = r
  BY <1>4, <1>5, <1>6, SMT
<1> QED
  BY <1>1, <1>7 DEF gs, r

(* The calls below do not change.                                           *)
LEMMA MatchedSame ==
  ASSUME NEW st \in Seq(Entries), NEW tt \in Seq(Entries), NEW lo \in Nat, NEW hi \in Int,
         hi <= Len(st), hi <= Len(tt), \A i \in 1..hi : tt[i] = st[i],
         NEW x, Matched(x, st, lo, hi)
  PROVE  Matched(x, tt, lo, hi)
<1>1. /\ DOMAIN st = 1..Len(st) /\ DOMAIN tt = 1..Len(tt)
      /\ \A i \in DOMAIN st : i <= hi => i \in DOMAIN tt /\ i \in 1..hi
      /\ \A i \in DOMAIN tt : i <= hi => i \in DOMAIN st /\ i \in 1..hi
  BY SMT
<1>2. Framing(tt, lo, hi) = Framing(st, lo, hi) /\ Handling(tt, lo, hi) = Handling(st, lo, hi)
  <2>1. \A i : i \in Framing(tt, lo, hi) <=> i \in Framing(st, lo, hi)
    BY <1>1 DEF Framing
  <2>2. \A i : i \in Handling(tt, lo, hi) <=> i \in Handling(st, lo, hi)
    BY <1>1 DEF Handling
  <2> QED
    BY <2>1, <2>2
<1>3. \A a \in Framing(st, lo, hi) : Es(tt)[a] = Es(st)[a]
  BY <1>1 DEF Framing, Es
<1>4. \A a \in Handling(st, lo, hi) : Caught(tt)[a] = Caught(st)[a]
  BY <1>1 DEF Handling, Caught
<1>5. Follow(Es(x.frames), Es(tt), Framing(st, lo, hi))
  BY <1>3, FollowSame DEF Matched
<1>6. Follow(x.handling, Caught(tt), Handling(st, lo, hi))
  BY <1>4, FollowSame DEF Matched
<1> QED
  BY <1>2, <1>5, <1>6 DEF Matched

(* A call is added on top; it puts down a frame, or none.                   *)
LEMMA TopPush ==
  ASSUME NEW st \in Seq(Entries), NEW entry \in Entries, NEW tt \in Seq(Entries),
         tt = Append(st, entry), entry.k # "handler",
         NEW lo \in Nat, lo <= Len(st) + 1,
         NEW x \in Interps, Matched(x, st, lo, Len(st)), NEW y, y.handling = x.handling,
         \/ ~Holds(entry) /\ y.frames = x.frames
         \/ Holds(entry) /\ \E f \in Frames : f.e = entry.e /\ y.frames = Append(x.frames, f)
  PROVE  Matched(y, tt, lo, Len(tt))
<1> DEFINE n == Len(st)
           m == n + 1
<1>1. n \in Nat /\ Len(tt) = m /\ m \in Nat /\ tt[m] = entry /\ \A i \in 1..n : tt[i] = st[i]
  BY SMT
<1>2. /\ DOMAIN st = 1..n /\ DOMAIN tt = 1..m /\ m \in 1..m /\ lo <= m /\ m <= m
      /\ \A i \in 1..n : i \in 1..m /\ i <= n /\ i <= m /\ i < m
      /\ \A i \in 1..m : i \in 1..n \/ i = m
  BY <1>1, SMT
<1>3. Handling(tt, lo, m) = Handling(st, lo, n)
  <2>1. \A i : i \in Handling(tt, lo, m) <=> i \in Handling(st, lo, n)
    BY <1>1, <1>2 DEF Handling
  <2> QED
    BY <2>1
<1>4. Framing(tt, lo, m) = IF Holds(entry) THEN Framing(st, lo, n) \cup {m} ELSE Framing(st, lo, n)
  <2>1. \A i : i \in Framing(tt, lo, m) <=> (i \in Framing(st, lo, n) \/ (i = m /\ Holds(entry)))
    BY <1>1, <1>2 DEF Framing
  <2> QED
    BY <2>1
<1>5. \A a \in Framing(st, lo, n) : Es(tt)[a] = Es(st)[a] /\ a < m
  BY <1>1, <1>2 DEF Framing, Es
<1>6. \A a \in Handling(st, lo, n) : Caught(tt)[a] = Caught(st)[a]
  BY <1>1, <1>2 DEF Handling, Caught
<1>7. Follow(y.handling, Caught(tt), Handling(tt, lo, m))
  <2>1. Follow(x.handling, Caught(st), Handling(st, lo, n))
    BY DEF Matched
  <2>2. Follow(x.handling, Caught(tt), Handling(st, lo, n))
    BY <1>6, <2>1, FollowSame
  <2> QED
    BY <1>3, <2>2
<1>8. Follow(Es(x.frames), Es(st), Framing(st, lo, n))
  BY DEF Matched
<1>9. CASE ~Holds(entry) /\ y.frames = x.frames
  <2>1. Follow(Es(x.frames), Es(tt), Framing(st, lo, n))
    BY <1>5, <1>8, FollowSame
  <2> QED
    BY <1>1, <1>4, <1>7, <1>9, <2>1 DEF Matched
<1>10. CASE Holds(entry) /\ \E f \in Frames : f.e = entry.e /\ y.frames = Append(x.frames, f)
  <2>1. PICK f \in Frames : f.e = entry.e /\ y.frames = Append(x.frames, f)
    BY <1>10
  <2>2. x.frames \in Seq(Frames)
    BY DEF Interps
  <2>3. Es(y.frames) = Append(Es(x.frames), f.e) /\ Es(x.frames) \in Seq(Names)
    BY <2>1, <2>2, EsAppend, EsType
  <2>4. Es(tt)[m] = f.e
    BY <1>1, <1>2, <2>1 DEF Es
  <2>5. Follow(Append(Es(x.frames), f.e), Es(tt), Framing(st, lo, n) \cup {m})
    <3>1. m \in Nat /\ \A a \in Framing(st, lo, n) : a < m /\ Es(tt)[a] = Es(st)[a]
      BY <1>1, <1>5
    <3> HIDE DEF m
    <3> QED
      BY <1>8, <2>3, <2>4, <3>1, FollowPush
  <2> QED
    BY <1>1, <1>4, <1>7, <1>10, <2>3, <2>5 DEF Matched
<1> QED
  BY <1>9, <1>10

(* The call on top is over, with what it has put down.                      *)
LEMMA TopPop ==
  ASSUME NEW st \in Seq(Entries), Len(st) # 0, NEW tt \in Seq(Entries), tt = Front(st),
         NEW lo \in Nat, lo <= Len(st),
         NEW x \in Interps, Matched(x, st, lo, Len(st)), NEW y,
         y.frames = IF Holds(Last(st)) THEN Front(x.frames) ELSE x.frames,
         y.handling = IF Last(st).k = "handler" THEN Front(x.handling) ELSE x.handling
  PROVE  /\ Matched(y, tt, lo, Len(tt))
         /\ Holds(Last(st)) => Len(x.frames) # 0
         /\ Last(st).k = "handler" => Len(x.handling) # 0
<1> DEFINE n == Len(st)
           m == n - 1
           A == Framing(st, lo, n)
           B == Handling(st, lo, n)
<1>1. n \in Nat /\ Len(tt) = m /\ m \in Nat /\ Last(st) = st[n] /\ \A i \in 1..m : tt[i] = st[i]
  <2>1. Len(tt) = m /\ \A i \in 1..m : tt[i] = st[i]
    BY FrontOf
  <2>2. n \in Nat /\ m \in Nat
    BY SMT
  <2> QED
    BY <2>1, <2>2 DEF Last
<1>2. /\ DOMAIN st = 1..n /\ DOMAIN tt = 1..m /\ n \in 1..n /\ lo <= n /\ n <= n
      /\ \A i \in 1..m : i \in 1..n /\ i <= n /\ i <= m /\ i # n
      /\ \A i \in 1..n : i <= n /\ (i \in 1..m \/ i = n)
  BY <1>1, SMT
<1>3. /\ Holds(Last(st)) => A = Framing(tt, lo, m) \cup {n}
      /\ ~(Holds(Last(st))) => A = Framing(tt, lo, m)
  <2>1. n \in A <=> Holds(Last(st))
    BY <1>1, <1>2 DEF Framing
  <2>2. \A i : i # n => (i \in A <=> i \in Framing(tt, lo, m))
    BY <1>1, <1>2 DEF Framing
  <2>3. ~ (n \in Framing(tt, lo, m))
    BY <1>2 DEF Framing
  <2> QED
    BY <2>1, <2>2, <2>3 DEF Framing
<1>4. /\ Last(st).k = "handler" => B = Handling(tt, lo, m) \cup {n}
      /\ ~(Last(st).k = "handler") => B = Handling(tt, lo, m)
  <2>1. n \in B <=> Last(st).k = "handler"
    BY <1>1, <1>2 DEF Handling
  <2>2. \A i : i # n => (i \in B <=> i \in Handling(tt, lo, m))
    BY <1>1, <1>2 DEF Handling
  <2>3. ~ (n \in Handling(tt, lo, m))
    BY <1>2 DEF Handling
  <2> QED
    BY <2>1, <2>2, <2>3 DEF Handling
<1>5. /\ \A a \in Framing(tt, lo, m) : Es(tt)[a] = Es(st)[a] /\ a # n
      /\ \A a \in A : a <= n
  BY <1>1, <1>2 DEF Framing, Es
<1>6. /\ \A a \in Handling(tt, lo, m) : Caught(tt)[a] = Caught(st)[a] /\ a # n
      /\ \A a \in B : a <= n
  BY <1>1, <1>2 DEF Handling, Caught
<1>7. Follow(Es(x.frames), Es(st), A) /\ Follow(x.handling, Caught(st), B)
  BY DEF Matched
<1>8. x.frames \in Seq(Frames) /\ x.handling \in Seq(Excs)
  BY DEF Interps
<1>9. Es(x.frames) \in Seq(Names) /\ Len(Es(x.frames)) = Len(x.frames)
  BY <1>8, EsType
<1>10. Follow(Es(y.frames), Es(tt), Framing(tt, lo, m)) /\ (Holds(Last(st)) => Len(x.frames) # 0)
  <2>1. CASE ~Holds(Last(st))
    <3>1. A = Framing(tt, lo, m)
      BY <1>3, <2>1
    <3>2. Follow(Es(x.frames), Es(tt), A)
      BY <1>5, <1>7, <3>1, FollowSame
    <3> QED
      BY <2>1, <3>1, <3>2
  <2>2. CASE Holds(Last(st))
    <3>1. n \in A /\ A \ {n} = Framing(tt, lo, m)
      BY <1>3, <1>5, <2>2
    <3>2. \A a \in A \ {n} : Es(tt)[a] = Es(st)[a]
      BY <1>5, <3>1
    <3>3. Len(Es(x.frames)) # 0 /\ Follow(Front(Es(x.frames)), Es(tt), A \ {n})
      BY <1>5, <1>7, <1>9, <3>1, <3>2, FollowPop
    <3>4. Es(y.frames) = Front(Es(x.frames))
      BY <1>8, <1>9, <2>2, <3>3, EsFront
    <3> QED
      BY <1>9, <3>1, <3>3, <3>4
  <2> QED
    BY <2>1, <2>2
<1>11. /\ Follow(y.handling, Caught(tt), Handling(tt, lo, m))
       /\ Last(st).k = "handler" => Len(x.handling) # 0
  <2>1. CASE Last(st).k # "handler"
    <3>1. B = Handling(tt, lo, m)
      BY <1>4, <2>1
    <3>2. Follow(x.handling, Caught(tt), B)
      BY <1>6, <1>7, <3>1, FollowSame
    <3> QED
      BY <2>1, <3>1, <3>2
  <2>2. CASE Last(st).k = "handler"
    <3>1. n \in B /\ B \ {n} = Handling(tt, lo, m)
      BY <1>4, <1>6, <2>2
    <3>2. \A a \in B \ {n} : Caught(tt)[a] = Caught(st)[a]
      BY <1>6, <3>1
    <3>3. Len(x.handling) # 0 /\ Follow(Front(x.handling), Caught(tt), B \ {n})
      BY <1>6, <1>7, <1>8, <3>1, <3>2, FollowPop
    <3> QED
      BY <2>2, <3>1, <3>3
  <2> QED
    BY <2>1, <2>2
<1> QED
  BY <1>1, <1>10, <1>11 DEF Matched

(* The block on top handles an exception: it keeps its frame.               *)
LEMMA TopSwap ==
  ASSUME NEW st \in Seq(Entries), Len(st) # 0, NEW tt \in Seq(Entries), Len(tt) = Len(st),
         \A i \in 1..(Len(st) - 1) : tt[i] = st[i],
         Last(st).k = "block", Last(tt).k = "handler",
         Last(st).framed, Last(tt).framed, Last(tt).e = Last(st).e,
         NEW lo \in Nat, lo <= Len(st),
         NEW x \in Interps, Matched(x, st, lo, Len(st)), NEW y,
         y.frames = x.frames, y.handling = Append(x.handling, Last(tt).exc)
  PROVE  Matched(y, tt, lo, Len(tt))
<1> DEFINE n == Len(st)
           m == n - 1
<1>1. n \in Nat /\ n # 0
  BY SMT
<1>2. /\ DOMAIN st = 1..n /\ DOMAIN tt = 1..n /\ n \in 1..n /\ lo <= n /\ n <= n
      /\ \A i \in 1..m : i \in 1..n /\ i <= n /\ i <= m /\ i # n /\ i < n
      /\ \A i \in 1..n : i <= n /\ (i \in 1..m \/ i = n)
  BY <1>1, SMT
<1>3. \A i \in 1..n : i # n => tt[i] = st[i] /\ i < n
  BY <1>2
<1>4. st[n].k = "block" /\ tt[n].k = "handler" /\ st[n].framed /\ tt[n].framed /\ tt[n].e = st[n].e
  BY DEF Last
<1>5. Framing(tt, lo, n) = Framing(st, lo, n)
  <2>1. \A i \in 1..n : Holds(tt[i]) <=> Holds(st[i])
    BY <1>3, <1>4 DEF Holds
  <2> QED
    BY <1>2, <2>1 DEF Framing
<1>6. Handling(tt, lo, n) = Handling(st, lo, n) \cup {n}
  <2>1. "block" # "handler"
    OBVIOUS
  <2>2. n \in Handling(tt, lo, n) /\ ~ (n \in Handling(st, lo, n))
    BY <1>2, <1>4, <2>1 DEF Handling
  <2>3. \A i : i # n => (i \in Handling(tt, lo, n) <=> i \in Handling(st, lo, n))
    BY <1>2, <1>3 DEF Handling
  <2> QED
    BY <2>2, <2>3
<1>7. \A a \in Framing(st, lo, n) : Es(tt)[a] = Es(st)[a]
  BY <1>2, <1>3, <1>4 DEF Framing, Es
<1>8. \A a \in Handling(st, lo, n) : Caught(tt)[a] = Caught(st)[a] /\ a < n
  <2>1. ~ (n \in Handling(st, lo, n))
    BY <1>4 DEF Handling
  <2> QED
    BY <1>2, <1>3, <2>1 DEF Handling, Caught
<1>9. Caught(tt)[n] = Last(tt).exc
  BY <1>2 DEF Caught, Last
<1>10. Follow(Es(x.frames), Es(st), Framing(st, lo, n)) /\ Follow(x.handling, Caught(st), Handling(st, lo, n))
  BY DEF Matched
<1>11. x.handling \in Seq(Excs)
  BY DEF Interps
<1>12. Follow(Es(x.frames), Es(tt), Framing(st, lo, n))
  BY <1>7, <1>10, FollowSame
<1>13. Follow(Append(x.handling, Last(tt).exc), Caught(tt), Handling(st, lo, n) \cup {n})
  <2>1. \A a \in Handling(st, lo, n) : Caught(tt)[a] = Caught(st)[a]
    BY <1>8
  <2>2. \A a \in Handling(st, lo, n) : a < n
    BY <1>8
  <2>3. Follow(x.handling, Caught(st), Handling(st, lo, n))
    BY <1>10
  <2> HIDE DEF n
  <2> QED
    BY <1>1, <1>9, <1>11, <2>1, <2>2, <2>3, FollowPush
<1> QED
  BY <1>5, <1>6, <1>12, <1>13 DEF Matched

(* The Interps below the current one keep their calls.                      *)
LEMMA Below ==
  ASSUME NEW st \in Seq(Entries), NEW tt \in Seq(Entries), NEW ip, NEW op, Match(op, st, ip),
         Len(tt) >= Len(st) - 1, \A i \in 1..(Len(st) - 1) : tt[i] = st[i],
         NEW n \in 1..(Len(op) - 1)
  PROVE  /\ Matched(ip[n], tt, op[n], op[n + 1] - 1)
         /\ (\E i \in 1..op[n] : tt[i].sql) => ip[n].host = "query"
<1>1. Len(op) \in Nat /\ \A i \in 1..Len(op) : op[i] \in Nat
  BY SMT DEF Match, Lists
<1>2. n \in 1..Len(op) /\ n + 1 \in 1..Len(op) /\ n < n + 1 /\ n < Len(op)
  BY <1>1, SMT
<1>3. op[n] \in Nat /\ op[n + 1] \in Nat /\ op[n] < op[n + 1] /\ op[n + 1] \in Opened(st)
  BY <1>1, <1>2 DEF Match, Lists
<1>4. Len(st) \in Nat /\ Len(tt) \in Nat /\ op[n + 1] <= Len(st)
  <2>1. DOMAIN st = 1..Len(st) /\ Len(st) \in Nat /\ Len(tt) \in Nat
    BY SMT
  <2>2. op[n + 1] = 0 \/ op[n + 1] \in 1..Len(st)
    BY <1>3, <2>1 DEF Opened
  <2> QED
    BY <2>1, <2>2, SMT
<1> DEFINE hi == op[n + 1] - 1
<1>5. /\ hi \in Int /\ hi <= Len(st) /\ hi <= Len(tt)
      /\ \A i \in 1..hi : i \in 1..(Len(st) - 1)
      /\ \A i \in 1..op[n] : i \in 1..(Len(st) - 1)
  <2> DEFINE a == op[n]
             b == op[n + 1]
             l == Len(st)
             m == Len(tt)
  <2>1. a \in Nat /\ b \in Nat /\ l \in Nat /\ m \in Nat /\ a < b /\ b <= l /\ m >= l - 1
    BY <1>3, <1>4
  <2> HIDE DEF a, b, l, m
  <2>2. /\ b - 1 \in Int /\ b - 1 <= l /\ b - 1 <= m
        /\ \A i \in 1..(b - 1) : i \in 1..(l - 1)
        /\ \A i \in 1..a : i \in 1..(l - 1)
    BY <2>1, SMT
  <2> QED
    BY <2>2 DEF a, b, l, m
<1>6. Matched(ip[n], st, op[n], hi)
  BY <1>2 DEF Match, Until
<1> HIDE DEF hi
<1>7. Matched(ip[n], tt, op[n], hi)
  BY <1>3, <1>5, <1>6, MatchedSame
<1>8. (\E i \in 1..op[n] : tt[i].sql) => ip[n].host = "query"
  BY <1>2, <1>5 DEF Match
<1> QED
  BY <1>7, <1>8 DEF hi

LEMMA Joined ==
  ASSUME NEW S, NEW f \in Seq(S), NEW g \in Seq(S)
  PROVE  /\ (f \o g) \in Seq(S) /\ Len(f \o g) = Len(f) + Len(g)
         /\ \A i \in 1..(Len(f) + Len(g)) :
              (f \o g)[i] = IF i <= Len(f) THEN f[i] ELSE g[i - Len(f)]
<1>1. (f \o g) \in Seq(S) /\ Len(f \o g) = Len(f) + Len(g)
  BY SMT
<1>2. \A i \in 1..(Len(f) + Len(g)) : (f \o g)[i] = IF i <= Len(f) THEN f[i] ELSE g[i - Len(f)]
  BY SMT
<1> QED
  BY <1>1, <1>2

(* Another Interp in the place of the current one.                          *)
LEMMA NewLast ==
  ASSUME NEW S, NEW s \in Seq(S), Len(s) # 0, NEW y \in S
  PROVE  /\ (Front(s) \o <<y>>) \in Seq(S)
         /\ Len(Front(s) \o <<y>>) = Len(s)
         /\ (Front(s) \o <<y>>)[Len(s)] = y
<1> DEFINE f == Front(s)
           g == <<y>>
<1>1. f \in Seq(S) /\ Len(f) = Len(s) - 1 /\ Len(s) \in Nat
  <2>1. f \in Seq(S) /\ Len(f) = Len(s) - 1
    BY FrontOf
  <2> QED
    BY <2>1, SMT
<1>2. g \in Seq(S) /\ Len(g) = 1 /\ g[1] = y
  BY SMT
<1> HIDE DEF f, g
<1>3. /\ (f \o g) \in Seq(S) /\ Len(f \o g) = Len(f) + Len(g)
      /\ \A i \in 1..(Len(f) + Len(g)) : (f \o g)[i] = IF i <= Len(f) THEN f[i] ELSE g[i - Len(f)]
  BY <1>1, <1>2, Joined
<1>4. Len(f \o g) = Len(s)
  BY <1>1, <1>2, <1>3, SMT
<1>5. (f \o g)[Len(s)] = y
  <2>1. Len(s) \in 1..(Len(f) + Len(g)) /\ ~ (Len(s) <= Len(f)) /\ Len(s) - Len(f) = 1
    BY <1>1, <1>2, SMT
  <2> QED
    BY <1>2, <1>3, <2>1
<1> QED
  BY <1>3, <1>4, <1>5 DEF f, g

LEMMA NewLastBelow ==
  ASSUME NEW S, NEW s \in Seq(S), Len(s) # 0, NEW y \in S, NEW i \in 1..(Len(s) - 1)
  PROVE  (Front(s) \o <<y>>)[i] = s[i]
<1> DEFINE f == Front(s)
           g == <<y>>
<1>1. f \in Seq(S) /\ Len(f) = Len(s) - 1 /\ f[i] = s[i]
  BY FrontOf
<1>2. g \in Seq(S) /\ Len(g) = 1
  BY SMT
<1> HIDE DEF f, g
<1>3. \A j \in 1..(Len(f) + Len(g)) : (f \o g)[j] = IF j <= Len(f) THEN f[j] ELSE g[j - Len(f)]
  BY <1>1, <1>2, Joined
<1>4. i \in 1..(Len(f) + Len(g)) /\ i <= Len(f)
  BY <1>1, <1>2, SMT
<1>5. (f \o g)[i] = s[i]
  BY <1>1, <1>3, <1>4
<1> QED
  BY <1>5 DEF f, g

-----------------------------------------------------------------------------
(* A step of a body: the calls below the top stay, and the Interps below    *)
(* the current one.                                                         *)
LEMMA BodyStep ==
  ASSUME NEW st, NEW ip, NEW d, Stacks(st, ip, d),
         NEW tt \in Seq(Entries), \A i \in 1..Len(tt) : Formed(tt[i]),
         Len(tt) >= Len(st) - 1, \A i \in 1..(Len(st) - 1) : tt[i] = st[i],
         Opened(tt) = Opened(st), Called(tt) = Called(st),
         \A i \in 1..Len(tt) : tt[i].sql => st[i].sql,
         NEW y \in Interps, y.host = Last(ip).host,
         \A lo \in Opened(st) : Matched(Last(ip), st, lo, Len(st)) => Matched(y, tt, lo, Len(tt))
  PROVE  Stacks(tt, Front(ip) \o <<y>>, d)
<1> DEFINE jp == Front(ip) \o <<y>>
<1>1. st \in Seq(Entries) /\ ip \in Seq(Interps)
  BY DEF Stacks
<1>2. PICK op : Match(op, st, ip)
  BY DEF Stacks
<1> DEFINE N == Len(op)
<1>3. N \in Nat /\ N # 0 /\ N = Len(ip) /\ \A n \in 1..N : op[n] \in Nat
  <2>1. N \in Nat /\ \A n \in 1..N : op[n] \in Nat
    BY <1>2, SMT DEF Match, Lists
  <2>2. 0 \in Opened(st)
    BY DEF Opened
  <2>3. PICK n \in 1..N : op[n] = 0
    BY <1>2, <2>2 DEF Match, Lists
  <2>4. N # 0
    BY <2>1, <2>3, SMT
  <2> QED
    BY <1>2, <2>1, <2>4 DEF Match
<1>4. jp \in Seq(Interps) /\ Len(jp) = N /\ jp[N] = y /\ \A n \in 1..(N - 1) : jp[n] = ip[n]
  <2>1. /\ jp \in Seq(Interps) /\ Len(jp) = Len(ip) /\ jp[Len(ip)] = y
        /\ \A n \in 1..(Len(ip) - 1) : jp[n] = ip[n]
    <3>1. Len(ip) # 0
      BY <1>3
    <3>2. \A n \in 1..(Len(ip) - 1) : jp[n] = ip[n]
      BY <1>1, <3>1, NewLastBelow
    <3> QED
      BY <1>1, <3>1, <3>2, NewLast
  <2> QED
    BY <1>3, <2>1
<1>5. N \in 1..N /\ ~ (N < N) /\ \A n \in 1..N : n = N \/ (n \in 1..(N - 1) /\ n < N)
  BY <1>3, SMT
<1>6. Last(ip) = ip[N]
  BY <1>3 DEF Last
<1> HIDE DEF jp
<1>7. Lists(op, Opened(tt)) /\ Len(op) = Len(jp)
  BY <1>2, <1>4 DEF Match
<1>8. Matched(jp[N], tt, op[N], Until(op, tt, N))
  <2>1. Matched(Last(ip), st, op[N], Len(st)) /\ op[N] \in Opened(st)
    BY <1>2, <1>5, <1>6 DEF Match, Until, Lists
  <2>2. Matched(y, tt, op[N], Len(tt))
    BY <2>1
  <2> QED
    BY <1>4, <1>5, <2>2 DEF Until
<1>9. (\E i \in 1..op[N] : tt[i].sql) => jp[N].host = "query"
  <2>1. op[N] \in Opened(tt) /\ DOMAIN tt = 1..Len(tt) /\ Len(tt) \in Nat
    BY <1>5, <1>7, SMT DEF Lists
  <2>2. op[N] = 0 \/ op[N] \in 1..Len(tt)
    BY <2>1 DEF Opened
  <2>3. \A i \in 1..op[N] : i \in 1..Len(tt)
    BY <2>1, <2>2, SMT
  <2> QED
    BY <1>2, <1>4, <1>5, <1>6, <2>3 DEF Match
<1>10. ASSUME NEW n \in 1..(N - 1)
       PROVE  /\ Matched(jp[n], tt, op[n], Until(op, tt, n))
              /\ (\E i \in 1..op[n] : tt[i].sql) => jp[n].host = "query"
  <2>1. /\ Matched(ip[n], tt, op[n], op[n + 1] - 1)
        /\ (\E i \in 1..op[n] : tt[i].sql) => ip[n].host = "query"
    BY <1>1, <1>2, <1>10, Below, SMT
  <2>2. n < N
    BY <1>3, <1>10, SMT
  <2> QED
    BY <1>4, <1>10, <2>1, <2>2 DEF Until
<1>11. Match(op, tt, jp)
  BY <1>5, <1>7, <1>8, <1>9, <1>10 DEF Match
<1>12. Stacks(tt, jp, d)
  BY <1>4, <1>11 DEF Stacks
<1> QED
  BY <1>12 DEF jp

(* A call or a dynamic block gets an Interp of its own.                     *)
LEMMA OpenerStep ==
  ASSUME NEW st, NEW ip, NEW d, Stacks(st, ip, d),
         NEW entry \in Entries, Formed(entry), Opens(entry),
         NEW y \in Interps, entry.sql \/ Last(ip).host = "query" => y.host = "query",
         y.handling = << >>, ~entry.framed,
         \/ entry.k = "call" /\ \E f \in Frames : f.e = entry.e /\ y.frames = <<f>>
         \/ entry.k # "call" /\ y.frames = << >>,
         NEW c, c = IF entry.k = "call" THEN d + 1 ELSE d
  PROVE  Stacks(Append(st, entry), Append(ip, y), c)
<1> DEFINE tt == Append(st, entry)
           jp == Append(ip, y)
           M == Len(st)
           T == M + 1
<1>1. st \in Seq(Entries) /\ ip \in Seq(Interps) /\ d \in Nat
  BY DEF Stacks
<1>2. /\ M \in Nat /\ T \in Nat /\ tt \in Seq(Entries) /\ Len(tt) = T /\ tt[T] = entry
      /\ \A i \in 1..M : tt[i] = st[i]
  BY <1>1, SMT
<1>3. jp \in Seq(Interps) /\ Len(jp) = Len(ip) + 1 /\ jp[Len(ip) + 1] = y /\ \A n \in 1..Len(ip) : jp[n] = ip[n]
  BY <1>1, SMT
<1> HIDE DEF tt, jp
<1>4. /\ DOMAIN st = 1..M /\ DOMAIN tt = 1..T /\ T \in 1..T
      /\ \A i \in 1..M : i \in 1..T /\ i < T /\ i # T
      /\ \A i \in 1..T : i \in 1..M \/ i = T
      /\ \A i \in 1..(M - 1) : i \in 1..M
      /\ T >= M - 1
  BY <1>1, <1>2, SMT
<1>5. PICK op : Match(op, st, ip)
  BY DEF Stacks
<1>6. PICK cs : Lists(cs, Called(st)) /\ Len(cs) = d
  BY DEF Stacks
<1>7. /\ Opened(tt) = Opened(st) \cup {T}
      /\ \A a \in Opened(st) : a < T
  <2>1. 0 < T
    BY <1>2, SMT
  <2> QED
    BY <1>2, <1>4, <2>1 DEF Opened
<1>8. Called(tt) = (IF entry.k = "call" THEN Called(st) \cup {T} ELSE Called(st)) /\ \A a \in Called(st) : a < T
  <2>1. entry.k = "call" => Called(tt) = Called(st) \cup {T}
    BY <1>2, <1>4 DEF Called
  <2>2. entry.k # "call" => Called(tt) = Called(st)
    BY <1>2, <1>4 DEF Called
  <2> QED
    BY <1>4, <2>1, <2>2 DEF Called
<1> DEFINE N == Len(op)
           oq == Append(op, T)
<1>9. /\ Lists(oq, Opened(tt)) /\ Len(oq) = N + 1 /\ oq[N + 1] = T
      /\ \A n \in 1..N : oq[n] = op[n]
  <2>1. Lists(op, Opened(st)) /\ T \in Nat
    BY <1>2, <1>5 DEF Match
  <2>2. \A a \in Opened(st) : a < T
    BY <1>7
  <2> HIDE DEF T
  <2>3. /\ Lists(Append(op, T), Opened(st) \cup {T}) /\ Len(Append(op, T)) = N + 1
        /\ Append(op, T)[N + 1] = T /\ \A n \in 1..N : Append(op, T)[n] = op[n]
    BY <2>1, <2>2, ListsPush
  <2> QED
    BY <1>7, <2>3
<1>10. N \in Nat /\ N = Len(ip) /\ \A n \in 1..N : op[n] \in Nat /\ op[n] \in Opened(st)
  BY <1>5, SMT DEF Match, Lists
<1>11. /\ \A n \in 1..(N + 1) : n \in 1..N \/ n = N + 1
       /\ \A n \in 1..N : n = N \/ (n \in 1..(N - 1) /\ n < N /\ n + 1 \in 1..N)
       /\ \A n \in 1..N : n < N + 1 /\ n \in 1..(N + 1)
       /\ ~ (N + 1 < N + 1) /\ ~ (N < N)
  BY <1>10, SMT
<1> HIDE DEF oq
<1>12. ASSUME NEW n \in 1..N
       PROVE  /\ Matched(jp[n], tt, oq[n], Until(oq, tt, n))
              /\ (\E i \in 1..oq[n] : tt[i].sql) => jp[n].host = "query"
  <2>1. jp[n] = ip[n] /\ oq[n] = op[n] /\ n < Len(oq)
    BY <1>3, <1>9, <1>10, <1>11, <1>12
  <2>2. Until(oq, tt, n) = oq[n + 1] - 1
    BY <2>1 DEF Until
  <2>3. CASE n = N
    <3>1. Until(oq, tt, n) = M /\ Until(op, st, n) = M
      <4>1. oq[n + 1] = T /\ T - 1 = M
        BY <1>2, <1>9, <2>3, SMT
      <4> QED
        BY <1>11, <2>2, <2>3, <4>1 DEF Until
    <3>2. Matched(ip[n], st, op[n], M)
      BY <1>5, <1>12, <3>1 DEF Match
    <3>3. M \in Int /\ M <= M /\ M <= Len(tt) /\ op[n] \in Nat
      BY <1>2, <1>10, <1>12, SMT
    <3>4. Matched(ip[n], tt, op[n], M)
      BY <1>1, <1>2, <3>2, <3>3, MatchedSame
    <3>5. \A i \in 1..op[n] : i \in 1..M
      <4>1. op[n] = 0 \/ op[n] \in 1..M
        BY <1>4, <1>10, <1>12 DEF Opened
      <4> QED
        BY <1>2, <4>1, SMT
    <3>6. (\E i \in 1..op[n] : tt[i].sql) => ip[n].host = "query"
      BY <1>2, <1>5, <1>12, <3>5 DEF Match
    <3> QED
      BY <2>1, <3>1, <3>4, <3>6
  <2>4. CASE n # N
    <3>1. n \in 1..(N - 1) /\ n + 1 \in 1..N
      BY <1>11, <1>12, <2>4
    <3>2. Len(tt) >= Len(st) - 1 /\ \A i \in 1..(Len(st) - 1) : tt[i] = st[i]
      BY <1>2, <1>4
    <3>3. /\ Matched(ip[n], tt, op[n], op[n + 1] - 1)
          /\ (\E i \in 1..op[n] : tt[i].sql) => ip[n].host = "query"
      BY <1>1, <1>2, <1>5, <3>1, <3>2, Below, SMT
    <3>4. oq[n + 1] = op[n + 1]
      BY <1>9, <3>1
    <3> QED
      BY <2>1, <2>2, <3>3, <3>4
  <2> QED
    BY <2>3, <2>4

<1>13. Matched(y, tt, T, Len(tt))
  <2> DEFINE x == [host |-> y.host, frames |-> << >>, handling |-> << >>]
  <2>1. x \in Interps /\ x.frames = << >> /\ x.handling = << >>
    <3>1. y.host \in {"session", "query"}
      BY DEF Interps
    <3>2. << >> \in Seq(Frames) /\ << >> \in Seq(Excs)
      BY SMT
    <3> QED
      BY <3>1, <3>2 DEF Interps
  <2> HIDE DEF x
  <2>2. Framing(st, T, M) = {} /\ Handling(st, T, M) = {}
    <3>1. \A i : ~ (T <= i /\ i <= M /\ i \in 1..M)
      BY <1>2, SMT
    <3> QED
      BY <1>4, <3>1 DEF Framing, Handling
  <2>3. Es(<< >>) = << >>
    BY SMT DEF Es
  <2>4. Matched(x, st, T, M)
    BY <2>1, <2>2, <2>3, FollowNone DEF Matched
  <2>5. \/ ~Holds(entry) /\ y.frames = x.frames
        \/ Holds(entry) /\ \E f \in Frames : f.e = entry.e /\ y.frames = Append(x.frames, f)
    <3>1. \A f \in Frames : Append(<< >>, f) = <<f>>
      BY SMT
    <3> QED
      BY <2>1, <3>1 DEF Holds
  <2>6. entry.k # "handler" /\ T <= M + 1
    BY <1>2, SMT DEF Opens
  <2> QED
    BY <1>1, <1>2, <2>1, <2>4, <2>5, <2>6, TopPush DEF tt
<1>14. (\E i \in 1..T : tt[i].sql) => y.host = "query"
  <2>1. ASSUME NEW i \in 1..M, st[i].sql PROVE Last(ip).host = "query"
    <3>1. st[i].k = "call" /\ i \in DOMAIN st
      BY <1>4, <2>1 DEF Stacks, Formed
    <3>2. i \in Opened(st)
      BY <3>1 DEF Opened, Opens
    <3>3. PICK n \in 1..N : op[n] = i
      BY <1>5, <3>2 DEF Match, Lists
    <3>4. N \in 1..N /\ (n = N \/ n < N)
      BY <1>10, <3>3, SMT
    <3>5. op[n] <= op[N]
      <4>1. n < N => op[n] < op[N]
        BY <1>5, <3>3, <3>4 DEF Match, Lists
      <4>2. op[n] \in Nat /\ op[N] \in Nat
        BY <1>10, <3>3, <3>4
      <4> QED
        BY <3>4, <4>1, <4>2, SMT
    <3>6. i \in 1..op[N]
      BY <1>10, <2>1, <3>3, <3>4, <3>5, SMT
    <3>7. ip[N].host = "query"
      BY <1>5, <2>1, <3>4, <3>6 DEF Match
    <3> QED
      BY <1>10, <3>7 DEF Last
  <2> QED
    BY <1>2, <1>4, <2>1
<1>15. Match(oq, tt, jp)
  <2>1. Len(oq) = Len(jp) /\ jp[N + 1] = y /\ Until(oq, tt, N + 1) = Len(tt)
    BY <1>3, <1>9, <1>10, <1>11 DEF Until
  <2>2. /\ Matched(jp[N + 1], tt, oq[N + 1], Until(oq, tt, N + 1))
        /\ (\E i \in 1..oq[N + 1] : tt[i].sql) => jp[N + 1].host = "query"
    BY <1>9, <1>13, <1>14, <2>1
  <2> QED
    BY <1>9, <1>11, <1>12, <2>1, <2>2 DEF Match
<1>16. \E r : Lists(r, Called(tt)) /\ Len(r) = c
  <2>1. CASE entry.k # "call"
    BY <1>6, <1>8, <2>1
  <2>2. CASE entry.k = "call"
    <3>1. T \in Nat /\ \A a \in Called(st) : a < T
      BY <1>2, <1>8
    <3>2. Called(tt) = Called(st) \cup {T} /\ c = Len(cs) + 1
      BY <1>6, <1>8, <2>2
    <3> HIDE DEF T
    <3>3. Lists(Append(cs, T), Called(st) \cup {T}) /\ Len(Append(cs, T)) = Len(cs) + 1
      BY <1>6, <3>1, ListsPush
    <3> QED
      BY <3>2, <3>3
  <2> QED
    BY <2>1, <2>2
<1>17. c \in Nat /\ \A i \in 1..T : Formed(tt[i])
  <2>1. c \in Nat
    BY <1>1, SMT
  <2> QED
    BY <1>2, <1>4, <2>1 DEF Stacks
<1>18. Stacks(tt, jp, c)
  BY <1>2, <1>3, <1>15, <1>16, <1>17 DEF Stacks
<1> QED
  BY <1>18 DEF tt, jp

(* A call or a dynamic block ends with its Interp.                          *)
LEMMA CloserStep ==
  ASSUME NEW st, NEW ip, NEW d, Stacks(st, ip, d), Len(st) # 0, Opens(Last(st)),
         NEW c, c = IF Last(st).k = "call" THEN d - 1 ELSE d
  PROVE  Stacks(Front(st), Front(ip), c)
<1> DEFINE tt == Front(st)
           jp == Front(ip)
           T == Len(st)
           A == Opened(st)
<1>1. st \in Seq(Entries) /\ ip \in Seq(Interps) /\ d \in Nat
  BY DEF Stacks
<1>2. /\ tt \in Seq(Entries) /\ Len(tt) = T - 1
      /\ \A i \in 1..(T - 1) : tt[i] = st[i]
  BY <1>1, FrontOf
<1> HIDE DEF tt
<1>3. /\ T \in Nat /\ DOMAIN st = 1..T /\ DOMAIN tt = 1..(T - 1) /\ T \in 1..T /\ T # 0 /\ 0 <= T
      /\ \A i \in 1..T : i <= T /\ (i = T \/ i \in 1..(T - 1))
      /\ \A i \in 1..(T - 1) : i \in 1..T /\ i # T
      /\ Len(tt) >= Len(st) - 1
  BY <1>1, <1>2, SMT
<1>4. PICK op : Match(op, st, ip)
  BY DEF Stacks
<1>5. PICK cs : Lists(cs, Called(st)) /\ Len(cs) = d
  BY DEF Stacks
<1>6. T \in A /\ (\A a \in A : a <= T) /\ Opened(tt) = A \ {T} /\ 0 \in A \ {T}
  <2>1. Opens(st[T])
    BY DEF Last
  <2>2. T \in A /\ (\A a \in A : a <= T) /\ 0 \in A \ {T}
    BY <1>3, <2>1 DEF Opened
  <2>3. Opened(tt) = A \ {T}
    <3>1. \A i : i \in 1..(T - 1) <=> i \in 1..T /\ i # T
      BY <1>3
    <3>2. \A i \in 1..(T - 1) : Opens(tt[i]) <=> Opens(st[i])
      BY <1>2
    <3>3. \A i : i \in Opened(tt) <=> i \in A \ {T}
      BY <1>3, <3>1, <3>2 DEF Opened
    <3> QED
      BY <3>3
  <2> QED
    BY <2>2, <2>3
<1> DEFINE N == Len(op)
           oq == Front(op)
<1>7. /\ N \in Nat \ {0} /\ op[N] = T /\ Lists(oq, A \ {T}) /\ Len(oq) = N - 1
      /\ \A n \in 1..(N - 1) : oq[n] = op[n]
  <2>1. Lists(op, A)
    BY <1>4 DEF Match
  <2>2. T \in A /\ \A a \in A : a <= T
    BY <1>6
  <2> HIDE DEF A, T
  <2> QED
    BY <2>1, <2>2, ListsPop
<1> HIDE DEF oq
<1>8. N = Len(ip) /\ N \in Nat /\ N # 0
  BY <1>4, <1>7 DEF Match
<1>9. jp \in Seq(Interps) /\ Len(jp) = N - 1 /\ \A n \in 1..(N - 1) : jp[n] = ip[n]
  BY <1>1, <1>8, FrontOf
<1> HIDE DEF jp
<1>10. ASSUME NEW n \in 1..Len(oq)
       PROVE  /\ Matched(jp[n], tt, oq[n], Until(oq, tt, n))
              /\ (\E i \in 1..oq[n] : tt[i].sql) => jp[n].host = "query"
  <2>1. n \in 1..(N - 1)
    BY <1>7, <1>10
  <2>2. /\ Matched(ip[n], tt, op[n], op[n + 1] - 1)
        /\ (\E i \in 1..op[n] : tt[i].sql) => ip[n].host = "query"
    BY <1>1, <1>2, <1>3, <1>4, <2>1, Below
  <2>3. (n = N - 1 /\ n + 1 = N /\ ~ (n < N - 1)) \/ (n + 1 \in 1..(N - 1) /\ n < N - 1)
    BY <1>8, <2>1, SMT
  <2>4. Until(oq, tt, n) = op[n + 1] - 1
    <3>1. CASE n = N - 1 /\ n + 1 = N /\ ~ (n < N - 1)
      BY <1>2, <1>7, <3>1 DEF Until
    <3>2. CASE n + 1 \in 1..(N - 1) /\ n < N - 1
      BY <1>7, <3>2 DEF Until
    <3> QED
      BY <2>3, <3>1, <3>2
  <2> QED
    BY <1>7, <1>9, <2>1, <2>2, <2>4
<1>11. Match(oq, tt, jp)
  BY <1>6, <1>7, <1>9, <1>10 DEF Match
<1>12. \E r : Lists(r, Called(tt)) /\ Len(r) = c
  <2>1. CASE Last(st).k # "call"
    <3>1. Called(tt) = Called(st)
      BY <1>2, <1>3, <2>1 DEF Called, Last
    <3> QED
      BY <1>5, <2>1, <3>1
  <2>2. CASE Last(st).k = "call"
    <3> DEFINE B == Called(st)
    <3>1. T \in B /\ (\A a \in B : a <= T)
      BY <1>3, <2>2 DEF Called, Last
    <3>2. Called(tt) = B \ {T}
      BY <1>2, <1>3 DEF Called
    <3> HIDE DEF T, B
    <3>3. Lists(Front(cs), B \ {T}) /\ Len(Front(cs)) = Len(cs) - 1
      BY <1>5, <3>1, ListsPop DEF B
    <3> QED
      BY <1>5, <2>2, <3>2, <3>3
  <2> QED
    BY <2>1, <2>2
<1>13. c \in Nat
  <2>1. PICK r : Lists(r, Called(tt)) /\ Len(r) = c
    BY <1>12
  <2> QED
    BY <2>1, SMT DEF Lists
<1>14. \A i \in 1..Len(tt) : Formed(tt[i])
  BY <1>2, <1>3 DEF Stacks
<1>15. Stacks(tt, jp, c)
  BY <1>2, <1>9, <1>11, <1>12, <1>13, <1>14 DEF Stacks
<1> QED
  BY <1>15 DEF tt, jp

-----------------------------------------------------------------------------
(* Scope, Passed and Catcher of a stack st.                                 *)
OwnOf(st, i) == {j \in 1..i : /\ st[j].e # "no"
                              /\ \A m \in (j + 1)..i : st[m].k \notin {"call", "dynamic"}}
Greatest(S) == CHOOSE j \in S : \A m \in S : m <= j
ScopeOf(st, i) == IF OwnOf(st, i) = {} THEN "no" ELSE st[Greatest(OwnOf(st, i))].e
PassedOf(st, i, exc) ==
  IF \E m \in (i + 1)..Len(st) : st[m].sql THEN Anonymous(exc) ELSE exc
AbleOf(st, exc) ==
  {i \in DOMAIN st : /\ st[i].k = "block"
                     /\ \E h \in DOMAIN st[i].handlers :
                          MatchesAs(ScopeOf(st, i), st[i].handlers[h], PassedOf(st, i, exc))}
CatcherOf(st, exc) == IF AbleOf(st, exc) = {} THEN 0 ELSE Greatest(AbleOf(st, exc))

LEMMA CatcherIs ==
  ASSUME NEW exc
  PROVE  Catcher(exc) = CatcherOf(stack, exc)
BY DEF Catcher, CatcherOf, AbleOf, Scope, ScopeOf, OwnOf, Passed, PassedOf,
             Greatest

(* A set of numbers up to n has a greatest.                                 *)
LEMMA GreatestNat ==
  ASSUME NEW n \in Nat, NEW S \in SUBSET (1..n), S # {}
  PROVE  \E m \in S : \A k \in S : k <= m
<1> DEFINE T == {m \in Nat : \A k \in S : k <= m}
<1>1. T \in SUBSET Nat /\ n \in T
  <2>1. \A k \in S : k <= n
    BY SMT
  <2> QED
    BY <2>1
<1>2. PICK m \in T : \A k \in T : m <= k
  BY <1>1, LeastNat
<1>3. m \in Nat /\ \A k \in S : k <= m /\ k \in Nat /\ k >= 1
  BY <1>2, SMT
<1>4. m \in S
  <2> SUFFICES ASSUME ~ (m \in S) PROVE FALSE
    OBVIOUS
  <2>1. m - 1 \in Nat /\ ~ (m <= m - 1)
    <3>1. PICK k \in S : TRUE
      OBVIOUS
    <3>2. k <= m /\ k \in Nat /\ k >= 1
      BY <1>3, <3>1
    <3> QED
      BY <1>3, <3>2, SMT
  <2>2. \A k \in S : k <= m - 1
    <3> TAKE k \in S
    <3>1. k # m
      OBVIOUS
    <3> QED
      BY <1>3, <3>1, SMT
  <2> QED
    BY <1>2, <2>1, <2>2
<1> QED
  BY <1>3, <1>4

(* The name the interpreter finds in the frames is the one in scope.        *)
LEMMA ScopeTop ==
  ASSUME NEW st, NEW ip, NEW d, Stacks(st, ip, d)
  PROVE  FindE(Last(ip).frames) = ScopeOf(st, Len(st))
<1> DEFINE n == Len(st)
           fs == Last(ip).frames
           own == OwnOf(st, n)
           found == {i \in DOMAIN fs : fs[i]["e"] # "no"}
<1>1. st \in Seq(Entries) /\ ip \in Seq(Interps) /\ n \in Nat /\ DOMAIN st = 1..n
  BY SMT DEF Stacks
<1>2. PICK op : Match(op, st, ip)
  BY DEF Stacks
<1> DEFINE N == Len(op)
           lo == op[N]
<1>3. N \in Nat /\ N \in 1..N /\ N = Len(ip) /\ lo \in Nat /\ lo \in Opened(st)
  <2>1. N \in Nat /\ \A i \in 1..N : op[i] \in Nat
    BY <1>2, SMT DEF Match, Lists
  <2>2. 0 \in Opened(st)
    BY DEF Opened
  <2>3. PICK i \in 1..N : op[i] = 0
    BY <1>2, <2>2 DEF Match, Lists
  <2>4. N \in 1..N
    BY <2>1, <2>3, SMT
  <2> QED
    BY <1>2, <2>1, <2>4 DEF Match, Lists
<1>4. \A a \in Opened(st) : a <= lo
  <2> TAKE a \in Opened(st)
  <2>1. PICK i \in 1..N : op[i] = a
    BY <1>2 DEF Match, Lists
  <2>2. i = N \/ i < N
    BY <1>3, <2>1, SMT
  <2>3. (i < N => op[i] < op[N]) /\ op[i] \in Nat
    <3>1. op \in Seq(Nat) /\ (i < N => op[i] < op[N])
      BY <1>2, <1>3, <2>1 DEF Match, Lists
    <3> QED
      BY <2>1, <3>1, SMT
  <2> QED
    BY <1>3, <2>1, <2>2, <2>3, SMT
<1>5. fs \in Seq(Frames) /\ Matched(Last(ip), st, lo, n)
  <2>1. Last(ip) \in Interps
    BY <1>1, <1>3, SMT DEF Last
  <2>2. ~ (N < N)
    BY <1>3, SMT
  <2> QED
    BY <1>2, <1>3, <2>1, <2>2 DEF Match, Until, Last, Interps
<1>6. PICK q : /\ Lists(q, Framing(st, lo, n)) /\ Len(q) = Len(Es(fs))
               /\ \A i \in 1..Len(q) : Es(fs)[i] = Es(st)[q[i]]
  BY <1>5 DEF Matched, Follow
<1>7. /\ Len(fs) \in Nat /\ DOMAIN fs = 1..Len(fs) /\ Len(q) = Len(fs)
      /\ \A i \in 1..Len(fs) : q[i] \in Framing(st, lo, n) /\ q[i] \in 1..n /\ fs[i].e = st[q[i]].e
  <2>1. Len(Es(fs)) = Len(fs) /\ \A i \in 1..Len(fs) : Es(fs)[i] = fs[i].e
    BY <1>5, EsType
  <2>2. Len(fs) \in Nat /\ DOMAIN fs = 1..Len(fs)
    BY <1>5, SMT
  <2>3. \A i \in 1..Len(fs) : q[i] \in Framing(st, lo, n)
    BY <1>6, <2>1 DEF Lists
  <2>4. \A i \in 1..Len(fs) : q[i] \in DOMAIN st /\ q[i] \in 1..n
    BY <1>1, <2>3 DEF Framing
  <2>5. \A i \in 1..Len(fs) : fs[i].e = st[q[i]].e
    BY <1>6, <2>1, <2>4 DEF Es
  <2> QED
    BY <1>6, <2>1, <2>2, <2>3, <2>4, <2>5
<1> HIDE DEF fs
<1>8. \A i \in 1..Len(fs) : i \in found <=> fs[i].e # "no"
  BY <1>7
<1>9. found \in SUBSET (1..Len(fs))
  BY <1>7
<1> HIDE DEF found
<1>10. ASSUME NEW i \in found PROVE q[i] \in own
  <2>1. i \in 1..Len(fs) /\ q[i] \in Framing(st, lo, n) /\ q[i] \in 1..n /\ st[q[i]].e # "no"
    BY <1>7, <1>8, <1>9, <1>10
  <2>2. lo <= q[i]
    BY <2>1 DEF Framing
  <2>3. ASSUME NEW m \in (q[i] + 1)..n PROVE st[m].k \notin {"call", "dynamic"}
    <3>1. m \in 1..n /\ ~ (m <= lo)
      BY <1>1, <1>3, <2>1, <2>2, SMT
    <3>2. m \notin Opened(st)
      BY <1>4, <3>1
    <3> QED
      BY <1>1, <3>1, <3>2 DEF Opened, Opens
  <2> QED
    BY <2>1, <2>3 DEF OwnOf
<1>11. ASSUME NEW j \in own PROVE \E i \in found : q[i] = j
  <2>1. j \in 1..n /\ st[j].e # "no" /\ \A m \in (j + 1)..n : st[m].k \notin {"call", "dynamic"}
    BY <1>11 DEF OwnOf
  <2>2. Holds(st[j])
    BY <2>1 DEF Stacks, Formed, Holds
  <2>3. lo <= j /\ j <= n
    <3> SUFFICES ASSUME ~ (lo <= j) PROVE FALSE
      BY <2>1, SMT
    <3>1. lo \in (j + 1)..n \/ lo > n
      BY <1>1, <1>3, <2>1, SMT
    <3>2. lo = 0 \/ (lo \in 1..n /\ Opens(st[lo]))
      BY <1>1, <1>3 DEF Opened
    <3>3. lo \in (j + 1)..n /\ lo # 0
      BY <1>1, <1>3, <2>1, <3>1, <3>2, SMT
    <3> QED
      BY <2>1, <3>2, <3>3 DEF Opens
  <2>4. j \in Framing(st, lo, n)
    BY <1>1, <2>1, <2>2, <2>3 DEF Framing
  <2>5. PICK i \in 1..Len(q) : q[i] = j
    BY <1>6, <2>4 DEF Lists
  <2> QED
    BY <1>7, <1>8, <2>1, <2>5
<1>12. CASE found = {}
  <2>1. own = {}
    BY <1>11, <1>12
  <2> QED
    BY <1>12, <2>1 DEF FindE, Declaring, ScopeOf, found, fs
<1>13. CASE found # {}
  <2>1. PICK k \in found : \A i \in found : i <= k
    BY <1>7, <1>9, <1>13, GreatestNat
  <2>2. q[k] \in own /\ k \in 1..Len(fs) /\ k \in Nat
    <3>1. q[k] \in own /\ k \in 1..Len(fs)
      BY <1>9, <1>10, <2>1
    <3> QED
      BY <3>1, SMT
  <2>3. \A j \in own : j <= q[k] /\ j \in Nat /\ q[k] \in Nat
    <3> TAKE j \in own
    <3>1. PICK i \in found : q[i] = j
      BY <1>11
    <3>2. i \in 1..Len(fs) /\ i <= k
      BY <1>9, <2>1, <3>1
    <3>3. i < k => q[i] < q[k]
      BY <1>6, <1>7, <2>2, <3>2 DEF Lists
    <3>4. q[i] \in 1..n /\ q[k] \in 1..n /\ (i = k \/ i < k)
      <4>1. i = k \/ i < k
        BY <2>2, <3>2, SMT
      <4> QED
        BY <1>7, <2>2, <3>2, <4>1
    <3> QED
      BY <3>1, <3>3, <3>4, SMT
  <2>4. ASSUME NEW j \in own, \A m \in own : m <= j PROVE j = q[k]
    <3>1. j <= q[k] /\ q[k] <= j /\ j \in Nat /\ q[k] \in Nat
      BY <2>2, <2>3, <2>4
    <3> QED
      BY <3>1, SMT
  <2>5. ASSUME NEW i \in found, \A j \in found : j <= i PROVE i = k
    <3>1. i <= k /\ k <= i /\ i \in 1..Len(fs)
      BY <1>9, <2>1, <2>5
    <3> QED
      BY <2>2, <3>1, SMT
  <2>6. (CHOOSE i \in found : \A j \in found : j <= i) = k
    BY <2>1, <2>5
  <2>7. own # {} /\ (CHOOSE j \in own : \A m \in own : m <= j) = q[k]
    BY <2>2, <2>3, <2>4
  <2>8. ScopeOf(st, n) = st[q[k]].e
    BY <2>7 DEF ScopeOf, Greatest
  <2>9. Declaring(fs, "e") = k /\ k # 0
    <3>1. Declaring(fs, "e") = IF found = {} THEN 0 ELSE CHOOSE i \in found : \A j \in found : j <= i
      BY DEF Declaring, found
    <3>2. k # 0
      BY <2>2, SMT
    <3> QED
      BY <1>13, <2>6, <3>1, <3>2
  <2>10. FindE(fs) = fs[k].e
    BY <2>9 DEF FindE
  <2> QED
    BY <1>7, <2>2, <2>8, <2>10 DEF fs
<1> QED
  BY <1>12, <1>13

LEMMA AnonymousTwice ==
  ASSUME NEW exc \in Excs
  PROVE  Anonymous(exc) \in Excs /\ Anonymous(Anonymous(exc)) = Anonymous(exc)
BY DEF Anonymous, Excs

(* A call that does not catch leaves, and those below it still catch what   *)
(* they did.                                                                *)
LEMMA CatcherBelow ==
  ASSUME NEW st \in Seq(Entries), Len(st) # 0, NEW exc \in Excs, NEW exd,
         exd = IF Last(st).sql THEN Anonymous(exc) ELSE exc,
         Len(st) \notin AbleOf(st, exc)
  PROVE  CatcherOf(Front(st), exd) = CatcherOf(st, exc)
<1> DEFINE tt == Front(st)
           n == Len(st)
<1>1. /\ tt \in Seq(Entries) /\ Len(tt) = n - 1
      /\ \A i \in 1..(n - 1) : tt[i] = st[i]
  BY FrontOf
<1> HIDE DEF tt
<1>2. /\ n \in Nat /\ DOMAIN st = 1..n /\ DOMAIN tt = 1..(n - 1)
      /\ \A i \in 1..(n - 1) : i \in 1..n /\ i # n
      /\ \A i \in 1..n : i = n \/ i \in 1..(n - 1)
  BY <1>1, SMT
<1>3. ASSUME NEW i \in 1..(n - 1) PROVE ScopeOf(tt, i) = ScopeOf(st, i)
  <2>1. /\ \A j \in 1..i : j \in 1..(n - 1) /\ tt[j] = st[j]
        /\ \A j \in 1..i : \A m \in (j + 1)..i : m \in 1..(n - 1) /\ tt[m] = st[m]
    <3>1. /\ \A j \in 1..i : j \in 1..(n - 1)
          /\ \A j \in 1..i : \A m \in (j + 1)..i : m \in 1..(n - 1)
      <4>1. n \in Nat
        BY <1>2
      <4> QED
        BY <1>3, <4>1, SMT
    <3> QED
      BY <1>1, <3>1
  <2>2. OwnOf(tt, i) = OwnOf(st, i)
    <3>1. \A j \in 1..i : j \in OwnOf(tt, i) <=> j \in OwnOf(st, i)
      BY <2>1 DEF OwnOf
    <3> QED
      BY <3>1 DEF OwnOf
  <2>3. CASE OwnOf(st, i) = {}
    BY <2>2, <2>3 DEF ScopeOf
  <2>4. CASE OwnOf(st, i) # {}
    <3> DEFINE own == OwnOf(st, i)
    <3>1. own \in SUBSET (1..i) /\ i \in Nat
      <4>1. own \in SUBSET (1..i)
        BY DEF OwnOf
      <4> QED
        BY <1>3, <4>1, SMT
    <3> HIDE DEF own
    <3>2. \E j \in own : \A m \in own : m <= j
      BY <2>4, <3>1, GreatestNat DEF own
    <3>3. Greatest(own) \in own
      BY <3>2 DEF Greatest
    <3>4. tt[Greatest(own)] = st[Greatest(own)]
      BY <2>1, <3>1, <3>3
    <3> QED
      BY <2>2, <2>4, <3>4 DEF ScopeOf, own
  <2> QED
    BY <2>3, <2>4
<1>4. ASSUME NEW i \in 1..(n - 1) PROVE PassedOf(tt, i, exd) = PassedOf(st, i, exc)
  <2>1. /\ \A m \in (i + 1)..(n - 1) : m \in 1..(n - 1) /\ m \in (i + 1)..n
        /\ \A m \in (i + 1)..n : m = n \/ m \in (i + 1)..(n - 1)
        /\ n \in (i + 1)..n
    <3>1. n \in Nat
      BY <1>2
    <3> QED
      BY <1>4, <3>1, SMT
  <2>2. (\E m \in (i + 1)..n : st[m].sql) <=> (Last(st).sql \/ \E m \in (i + 1)..Len(tt) : tt[m].sql)
    <3>1. (\E m \in (i + 1)..n : st[m].sql) <=> (st[n].sql \/ \E m \in (i + 1)..(n - 1) : st[m].sql)
      BY <2>1
    <3>2. \A m \in (i + 1)..(n - 1) : tt[m].sql <=> st[m].sql
      BY <1>1, <2>1
    <3> QED
      BY <1>1, <3>1, <3>2 DEF Last
  <2>3. Anonymous(exd) = Anonymous(exc)
    BY AnonymousTwice
  <2> QED
    BY <2>2, <2>3 DEF PassedOf
<1>5. AbleOf(tt, exd) = AbleOf(st, exc)
  <2>1. ASSUME NEW i \in 1..(n - 1) PROVE i \in AbleOf(tt, exd) <=> i \in AbleOf(st, exc)
    <3>1. /\ i \in DOMAIN tt /\ i \in DOMAIN st /\ tt[i] = st[i]
          /\ ScopeOf(tt, i) = ScopeOf(st, i) /\ PassedOf(tt, i, exd) = PassedOf(st, i, exc)
      BY <1>1, <1>2, <1>3, <1>4, <2>1
    <3> QED
      BY <3>1 DEF AbleOf
  <2>2. AbleOf(tt, exd) \subseteq 1..(n - 1) /\ AbleOf(st, exc) \subseteq 1..(n - 1)
    BY <1>2 DEF AbleOf
  <2>3. \A i : i \in AbleOf(tt, exd) <=> i \in AbleOf(st, exc)
    BY <2>1, <2>2
  <2> QED
    BY <2>3 DEF AbleOf
<1>6. CatcherOf(tt, exd) = CatcherOf(st, exc)
  BY <1>5 DEF CatcherOf
<1> QED
  BY <1>6 DEF tt

(* The block that catches is one of the calls, and one that can.            *)
LEMMA CatcherType ==
  ASSUME NEW st \in Seq(Entries), NEW exc
  PROVE  /\ CatcherOf(st, exc) \in AbleOf(st, exc) \cup {0}
         /\ CatcherOf(st, exc) \in 0..Len(st)
         /\ Len(st) \in AbleOf(st, exc) => CatcherOf(st, exc) = Len(st)
<1> DEFINE n == Len(st)
           A == AbleOf(st, exc)
<1>1. n \in Nat /\ A \in SUBSET (1..n)
  <2>1. n \in Nat /\ DOMAIN st = 1..n
    BY SMT
  <2> QED
    BY <2>1 DEF AbleOf
<1> HIDE DEF A
<1>2. CASE A = {}
  <2>1. CatcherOf(st, exc) = 0
    BY <1>2 DEF CatcherOf, A
  <2>2. 0 \in 0..n
    BY <1>1, SMT
  <2> QED
    BY <1>2, <2>1, <2>2 DEF A
<1>3. CASE A # {}
  <2> DEFINE c == Greatest(A)
  <2>1. \E i \in A : \A j \in A : j <= i
    BY <1>1, <1>3, GreatestNat
  <2>2. c \in A /\ \A j \in A : j <= c
    BY <2>1 DEF Greatest
  <2>3. CatcherOf(st, exc) = c
    BY <1>3 DEF CatcherOf, A
  <2> HIDE DEF c
  <2>4. c \in 1..n /\ c \in 0..n /\ (n <= c => c = n)
    BY <1>1, <2>2, SMT
  <2> QED
    BY <2>2, <2>3, <2>4 DEF A
<1> QED
  BY <1>2, <1>3

(* The block on top catches what the interpreter matches.                   *)
LEMMA CatchesTop ==
  ASSUME NEW st, NEW ip, NEW d, Stacks(st, ip, d), Len(st) # 0, NEW exc
  PROVE  Len(st) \in AbleOf(st, exc) <=>
           /\ Last(st).k = "block"
           /\ \E h \in DOMAIN Last(st).handlers :
                MatchesAs(FindE(Last(ip).frames), Last(st).handlers[h], exc)
<1> DEFINE n == Len(st)
<1>1. FindE(Last(ip).frames) = ScopeOf(st, n)
  BY ScopeTop
<1>2. n \in DOMAIN st /\ \A m \in (n + 1)..n : FALSE
  BY SMT DEF Stacks
<1>3. PassedOf(st, n, exc) = exc
  BY <1>2 DEF PassedOf
<1> QED
  BY <1>1, <1>2, <1>3 DEF AbleOf, Last

-----------------------------------------------------------------------------
(* The stacks while a step is taken.                                        *)
LEMMA SelfIs ==
  ASSUME NEW st, NEW ip, NEW d, Stacks(st, ip, d)
  PROVE  /\ Len(ip) \in Nat /\ Len(ip) # 0 /\ Last(ip) \in Interps
         /\ Front(ip) \o <<Last(ip)>> = ip
<1> DEFINE n == Len(ip)
<1>1. ip \in Seq(Interps) /\ n \in Nat
  BY SMT DEF Stacks
<1>2. n # 0
  <2>1. PICK op : Match(op, st, ip)
    BY DEF Stacks
  <2>2. 0 \in Opened(st)
    BY DEF Opened
  <2>3. PICK i \in 1..Len(op) : op[i] = 0
    BY <2>1, <2>2 DEF Match, Lists
  <2>4. i \in 1..n
    BY <2>1, <2>3 DEF Match
  <2> QED
    BY <1>1, <2>4, SMT
<1>3. Last(ip) \in Interps /\ Last(ip) = ip[n]
  BY <1>1, <1>2, SMT DEF Last
<1> DEFINE r == Front(ip) \o <<Last(ip)>>
<1>4. r \in Seq(Interps) /\ Len(r) = n /\ r[n] = Last(ip)
  BY <1>1, <1>2, <1>3, NewLast
<1>5. \A i \in 1..(n - 1) : r[i] = ip[i]
  BY <1>1, <1>2, <1>3, NewLastBelow
<1>6. \A i \in 1..n : i = n \/ i \in 1..(n - 1)
  BY <1>1, SMT
<1> HIDE DEF r
<1>7. \A i \in 1..n : r[i] = ip[i]
  BY <1>3, <1>4, <1>5, <1>6
<1>8. r = ip
  BY <1>1, <1>4, <1>7, SMT
<1> QED
  BY <1>1, <1>2, <1>3, <1>8 DEF r

(* A block or a loop is entered.                                            *)
LEMMA PushBody ==
  ASSUME NEW st, NEW ip, NEW d, Stacks(st, ip, d),
         NEW entry \in Entries, Formed(entry), entry.k \in {"block", "loop"}, ~entry.sql,
         NEW y \in Interps, y.host = Last(ip).host, y.handling = Last(ip).handling,
         \/ ~Holds(entry) /\ y.frames = Last(ip).frames
         \/ Holds(entry) /\ \E f \in Frames : f.e = entry.e /\ y.frames = Append(Last(ip).frames, f)
  PROVE  Stacks(Append(st, entry), Front(ip) \o <<y>>, d)
<1> DEFINE tt == Append(st, entry)
           n == Len(st)
<1>1. st \in Seq(Entries) /\ n \in Nat /\ DOMAIN st = 1..n
  BY SMT DEF Stacks
<1>2. /\ tt \in Seq(Entries) /\ Len(tt) = n + 1 /\ tt[n + 1] = entry
      /\ \A i \in 1..n : tt[i] = st[i]
  BY <1>1, SMT
<1> HIDE DEF tt
<1>3. /\ DOMAIN tt = 1..(n + 1) /\ n + 1 \in 1..(n + 1)
      /\ Len(tt) >= Len(st) - 1
      /\ \A i \in 1..(n + 1) : i \in 1..n \/ i = n + 1
      /\ \A i \in 1..n : i \in 1..(n + 1)
      /\ \A i \in 1..(n - 1) : i \in 1..n
  BY <1>1, <1>2, SMT
<1>4. entry.k # "handler" /\ ~Opens(entry) /\ entry.k # "call"
  BY DEF Opens
<1>5. \A i \in 1..Len(tt) : Formed(tt[i]) /\ (tt[i].sql => st[i].sql)
  BY <1>2, <1>3 DEF Stacks
<1>6. Opened(tt) = Opened(st)
  BY <1>1, <1>2, <1>3, <1>4 DEF Opened
<1>7. Called(tt) = Called(st)
  BY <1>1, <1>2, <1>3, <1>4 DEF Called
<1>8. ASSUME NEW lo \in Opened(st), Matched(Last(ip), st, lo, Len(st))
      PROVE  Matched(y, tt, lo, Len(tt))
  <2>1. lo \in Nat /\ lo <= Len(st) + 1
    <3>1. lo = 0 \/ lo \in 1..n
      BY <1>1, <1>8 DEF Opened
    <3> QED
      BY <1>1, <3>1, SMT
  <2>2. Last(ip) \in Interps
    BY SelfIs
  <2> QED
    BY <1>1, <1>2, <1>4, <1>8, <2>1, <2>2, TopPush DEF tt
<1>9. \A i \in 1..(Len(st) - 1) : tt[i] = st[i]
  BY <1>2, <1>3
<1>10. Stacks(tt, Front(ip) \o <<y>>, d)
  BY <1>2, <1>3, <1>5, <1>6, <1>7, <1>8, <1>9, BodyStep
<1> QED
  BY <1>10 DEF tt

(* What a body leaves behind.                                               *)
Without(x, top) ==
  IF top.k = "handler" THEN [[x EXCEPT !.frames = Front(@)] EXCEPT !.handling = Front(@)]
  ELSE IF top.framed THEN [x EXCEPT !.frames = Front(@)] ELSE x

(* A block, a handler or a loop is left.                                    *)
LEMMA PopBody ==
  ASSUME NEW st, NEW ip, NEW d, Stacks(st, ip, d), Len(st) # 0,
         Last(st).k \in {"block", "handler", "loop"}
  PROVE  Stacks(Front(st), Front(ip) \o <<Without(Last(ip), Last(st))>>, d)
<1> DEFINE tt == Front(st)
           n == Len(st)
           x == Last(ip)
           y == Without(x, Last(st))
<1>1. st \in Seq(Entries) /\ n \in Nat /\ DOMAIN st = 1..n /\ n \in 1..n
  BY SMT DEF Stacks
<1>2. /\ tt \in Seq(Entries) /\ Len(tt) = n - 1
      /\ \A i \in 1..(n - 1) : tt[i] = st[i]
  BY <1>1, FrontOf
<1> HIDE DEF tt
<1>3. /\ DOMAIN tt = 1..(n - 1) /\ Len(tt) >= Len(st) - 1
      /\ \A i \in 1..n : i \in 1..(n - 1) \/ i = n
      /\ \A i \in 1..(n - 1) : i \in 1..n /\ i # n
  <2>1. DOMAIN tt = 1..(n - 1) /\ Len(tt) >= Len(st) - 1
    BY <1>1, <1>2, SMT
  <2>2. n \in Nat
    BY <1>1
  <2>3. /\ \A i \in 1..n : i \in 1..(n - 1) \/ i = n
        /\ \A i \in 1..(n - 1) : i \in 1..n /\ i # n
    BY <2>2, SMT
  <2> QED
    BY <2>1, <2>3
<1>4. x \in Interps
  BY SelfIs
<1>5. x.host \in {"session", "query"} /\ x.frames \in Seq(Frames) /\ x.handling \in Seq(Excs)
  BY <1>4 DEF Interps
<1>6. Formed(st[n]) /\ Last(st) = st[n]
  BY <1>1 DEF Stacks, Last
<1>7. Holds(Last(st)) <=> Last(st).k = "handler" \/ Last(st).framed
  BY <1>6 DEF Formed, Holds
<1>8. /\ y.host = x.host
      /\ y.frames = IF Holds(Last(st)) THEN Front(x.frames) ELSE x.frames
      /\ y.handling = IF Last(st).k = "handler" THEN Front(x.handling) ELSE x.handling
      /\ y = [host |-> y.host, frames |-> y.frames, handling |-> y.handling]
  <2>1. x = [host |-> x.host, frames |-> x.frames, handling |-> x.handling]
    BY <1>4 DEF Interps
  <2> DEFINE u == [x EXCEPT !.frames = Front(@)]
  <2>2. u = [host |-> x.host, frames |-> Front(x.frames), handling |-> x.handling]
    BY <2>1, SMT
  <2> HIDE DEF u
  <2> DEFINE v == [u EXCEPT !.handling = Front(@)]
  <2>3. v = [host |-> x.host, frames |-> Front(x.frames), handling |-> Front(x.handling)]
    BY <2>2, SMT
  <2>4. CASE Last(st).k = "handler"
    <3>1. y = v
      BY <2>4 DEF Without, u
    <3> QED
      BY <1>7, <2>3, <2>4, <3>1
  <2>5. CASE Last(st).k # "handler" /\ Last(st).framed
    <3>1. y = u
      BY <2>5 DEF Without, u
    <3> QED
      BY <1>7, <2>2, <2>5, <3>1, SMT
  <2>6. CASE Last(st).k # "handler" /\ ~Last(st).framed
    <3>1. y = x
      BY <2>6 DEF Without
    <3> QED
      BY <1>7, <2>1, <2>6, <3>1
  <2> QED
    BY <2>4, <2>5, <2>6
<1> HIDE DEF y
<1>9. ~Opens(st[n]) /\ st[n].k # "call"
  BY <1>6 DEF Opens
<1>10. Opened(tt) = Opened(st)
  BY <1>1, <1>2, <1>3, <1>9 DEF Opened
<1>11. Called(tt) = Called(st)
  BY <1>1, <1>2, <1>3, <1>9 DEF Called
<1>12. ASSUME NEW lo \in Opened(st), Matched(x, st, lo, Len(st))
       PROVE  /\ Matched(y, tt, lo, Len(tt))
              /\ Holds(Last(st)) => Len(x.frames) # 0
              /\ Last(st).k = "handler" => Len(x.handling) # 0
  <2>1. lo \in Nat /\ lo <= Len(st)
    <3>1. lo = 0 \/ lo \in 1..n
      BY <1>1, <1>12 DEF Opened
    <3> QED
      BY <1>1, <3>1, SMT
  <2> HIDE DEF x
  <2> QED
    BY <1>1, <1>2, <1>4, <1>8, <1>12, <2>1, TopPop DEF tt
<1>13. y \in Interps
  <2>1. PICK lo \in Opened(st) : Matched(x, st, lo, Len(st))
    <3>1. PICK op : Match(op, st, ip)
      BY DEF Stacks
    <3>2. Len(ip) \in 1..Len(op) /\ ~ (Len(ip) < Len(op)) /\ x = ip[Len(ip)]
      <4>1. Len(op) = Len(ip) /\ Len(ip) \in Nat /\ Len(ip) # 0
        BY <3>1, SelfIs DEF Match
      <4>2. x = ip[Len(ip)]
        BY DEF Last
      <4> QED
        BY <4>1, <4>2, SMT
    <3> QED
      BY <3>1, <3>2 DEF Match, Until, Lists
  <2>2. (Holds(Last(st)) => Len(x.frames) # 0) /\ (Last(st).k = "handler" => Len(x.handling) # 0)
    BY <1>12, <2>1
  <2>3. y.frames \in Seq(Frames)
    BY <1>5, <1>8, <2>2, FrontOf
  <2>4. y.handling \in Seq(Excs)
    BY <1>5, <1>8, <2>2, FrontOf
  <2> QED
    BY <1>5, <1>8, <2>3, <2>4 DEF Interps
<1>14. \A i \in 1..Len(tt) : Formed(tt[i]) /\ (tt[i].sql => st[i].sql)
  BY <1>2, <1>3 DEF Stacks
<1>15. Stacks(tt, Front(ip) \o <<y>>, d)
  BY <1>2, <1>3, <1>8, <1>10, <1>11, <1>12, <1>13, <1>14, BodyStep
<1> QED
  BY <1>15 DEF tt, y

(* A block handles an exception.                                            *)
LEMMA SwapBody ==
  ASSUME NEW st, NEW ip, NEW d, Stacks(st, ip, d), Len(st) # 0, Last(st).k = "block",
         NEW exc \in Excs, NEW entry, NEW y,
         entry = [Last(st) EXCEPT !.k = "handler", !.exc = exc, !.handlers = << >>],
         y = [Last(ip) EXCEPT !.handling = Append(@, exc)]
  PROVE  Stacks(Front(st) \o <<entry>>, Front(ip) \o <<y>>, d)
<1> DEFINE tt == Front(st) \o <<entry>>
           n == Len(st)
           x == Last(ip)
           top == Last(st)
<1>1. st \in Seq(Entries) /\ n \in Nat /\ DOMAIN st = 1..n /\ n \in 1..n
  BY SMT DEF Stacks
<1>2. top = st[n] /\ top \in Entries /\ Formed(top)
  BY <1>1, SMT DEF Stacks, Last
<1>3. /\ entry \in Entries /\ entry.k = "handler" /\ entry.exc = exc /\ entry.framed = top.framed
      /\ entry.e = top.e /\ entry.sql = top.sql
  <2>1. << >> \in Seq({"OTHERS", "NO_DATA_FOUND", "E"})
    BY SMT
  <2>2. entry = [k |-> "handler", handlers |-> << >>, label |-> top.label, framed |-> top.framed,
                 function |-> top.function, sql |-> top.sql, e |-> top.e, exc |-> exc]
    BY <1>2 DEF Entries
  <2> QED
    BY <1>2, <2>1, <2>2 DEF Entries
<1>4. tt \in Seq(Entries) /\ Len(tt) = n /\ tt[n] = entry
  <2>1. st \in Seq(Entries) /\ entry \in Entries /\ Len(st) # 0
    BY <1>1, <1>3
  <2> QED
    BY ONLY <2>1, NewLast
<1>5. \A i \in 1..(n - 1) : tt[i] = st[i]
  <2>1. st \in Seq(Entries) /\ entry \in Entries /\ Len(st) # 0
    BY <1>1, <1>3
  <2> QED
    BY ONLY <2>1, NewLastBelow
<1> HIDE DEF tt
<1>6. /\ DOMAIN tt = 1..n /\ Len(tt) >= Len(st) - 1
      /\ \A i \in 1..n : i \in 1..(n - 1) \/ i = n
      /\ \A i \in 1..(n - 1) : i \in 1..n /\ i # n
  <2>1. n \in Nat
    BY <1>1
  <2>2. DOMAIN tt = 1..n /\ Len(tt) >= Len(st) - 1
    BY <1>4, <2>1, SMT
  <2>3. /\ \A i \in 1..n : i \in 1..(n - 1) \/ i = n
        /\ \A i \in 1..(n - 1) : i \in 1..n /\ i # n
    BY <2>1, SMT
  <2> QED
    BY <2>2, <2>3
<1>7. x \in Interps
  BY SelfIs
<1>8. y \in Interps /\ y.host = x.host /\ y.frames = x.frames /\ y.handling = Append(x.handling, exc)
  <2>1. x.handling \in Seq(Excs)
    BY <1>7 DEF Interps
  <2>2. Append(x.handling, exc) \in Seq(Excs)
    BY <2>1, SMT
  <2> QED
    BY <1>7, <2>2 DEF Interps
<1>9. ~Opens(entry) /\ ~Opens(top) /\ entry.k # "call" /\ top.k # "call"
  BY <1>3 DEF Opens
<1>10. Opened(tt) = Opened(st)
  BY <1>1, <1>2, <1>4, <1>5, <1>6, <1>9 DEF Opened
<1>11. Called(tt) = Called(st)
  BY <1>1, <1>2, <1>4, <1>5, <1>6, <1>9 DEF Called
<1>12. top.framed /\ entry.framed
  BY <1>2, <1>3 DEF Formed
<1>13. Formed(entry)
  BY <1>2, <1>3, <1>12 DEF Formed
<1>14. \A i \in 1..Len(tt) : Formed(tt[i]) /\ (tt[i].sql => st[i].sql)
  BY <1>2, <1>3, <1>4, <1>5, <1>6, <1>13 DEF Stacks
<1>15. ASSUME NEW lo \in Opened(st), Matched(x, st, lo, Len(st))
       PROVE  Matched(y, tt, lo, Len(tt))
  <2>1. lo \in Nat /\ lo <= Len(st)
    <3>1. lo = 0 \/ lo \in 1..n
      BY <1>1, <1>15 DEF Opened
    <3> QED
      BY <1>1, <3>1, SMT
  <2>2. Last(tt) = entry
    BY <1>4 DEF Last
  <2>3. /\ Last(tt).k = "handler" /\ Last(tt).framed /\ Last(st).framed /\ Last(tt).e = Last(st).e
        /\ y.handling = Append(x.handling, Last(tt).exc)
    BY <1>3, <1>8, <1>12, <2>2
  <2>4. tt \in Seq(Entries) /\ Len(tt) = Len(st) /\ st \in Seq(Entries) /\ y.frames = x.frames
    BY <1>1, <1>4, <1>8
  <2>5. Len(st) # 0 /\ Last(st).k = "block" /\ \A i \in 1..(Len(st) - 1) : tt[i] = st[i]
    BY <1>5
  <2> QED
    BY ONLY <1>7, <1>15, <2>1, <2>3, <2>4, <2>5, TopSwap
<1>16. Stacks(tt, Front(ip) \o <<y>>, d)
  BY <1>4, <1>5, <1>6, <1>8, <1>10, <1>11, <1>14, <1>15, BodyStep
<1> QED
  BY <1>16 DEF tt

(* A cursor is opened or closed.                                            *)
LEMMA CursorBody ==
  ASSUME NEW st, NEW ip, NEW d, Stacks(st, ip, d),
         NEW i \in DOMAIN Last(ip).frames, NEW c \in {"open", "closed"}
  PROVE  Stacks(st, Front(ip) \o <<[Last(ip) EXCEPT !.frames[i].cursor = c]>>, d)
<1> DEFINE x == Last(ip)
           y == [x EXCEPT !.frames[i].cursor = c]
           fs == x.frames
           gs == [fs EXCEPT ![i] = [fs[i] EXCEPT !.cursor = c]]
<1>1. st \in Seq(Entries) /\ x \in Interps
  BY SelfIs DEF Stacks
<1>2. fs \in Seq(Frames) /\ fs[i] \in Frames
  <2>1. fs \in Seq(Frames)
    BY <1>1 DEF Interps
  <2> QED
    BY <2>1, SMT
<1>3. [fs[i] EXCEPT !.cursor = c] \in Frames /\ [fs[i] EXCEPT !.cursor = c].e = fs[i].e
  BY <1>2 DEF Frames
<1>4. /\ gs \in Seq(Frames) /\ Len(gs) = Len(fs)
      /\ \A j \in 1..Len(fs) : gs[j].e = fs[j].e
  <2> DEFINE f == [fs[i] EXCEPT !.cursor = c]
  <2>1. f \in Frames /\ f.e = fs[i].e
    BY <1>3
  <2> HIDE DEF f
  <2>2. [fs EXCEPT ![i] = f] \in Seq(Frames) /\ Len([fs EXCEPT ![i] = f]) = Len(fs)
    BY <1>2, <2>1, SMT
  <2>3. \A j \in 1..Len(fs) : [fs EXCEPT ![i] = f][j] = IF j = i THEN f ELSE fs[j]
    BY <1>2, SMT
  <2> QED
    BY <2>1, <2>2, <2>3 DEF f
<1>5. y = [x EXCEPT !.frames = gs]
  BY <1>1 DEF Interps
<1> HIDE DEF gs
<1>6. y \in Interps /\ y.host = x.host /\ y.frames = gs /\ y.handling = x.handling
  BY <1>1, <1>4, <1>5 DEF Interps
<1> HIDE DEF y
<1>7. Es(y.frames) = Es(fs)
  <2>1. /\ Es(gs) \in Seq(Names) /\ Len(Es(gs)) = Len(fs)
        /\ \A j \in 1..Len(fs) : Es(gs)[j] = gs[j].e
    BY <1>4, EsType
  <2>2. Es(fs) \in Seq(Names) /\ Len(Es(fs)) = Len(fs) /\ \A j \in 1..Len(fs) : Es(fs)[j] = fs[j].e
    BY <1>2, EsType
  <2>3. \A j \in 1..Len(fs) : Es(gs)[j] = Es(fs)[j]
    BY <1>4, <2>1, <2>2
  <2>4. Es(gs) = Es(fs)
    BY <2>1, <2>2, <2>3, SMT
  <2> QED
    BY <1>6, <2>4
<1>8. \A lo \in Opened(st) : Matched(x, st, lo, Len(st)) => Matched(y, st, lo, Len(st))
  BY <1>6, <1>7 DEF Matched
<1>9. Len(st) >= Len(st) - 1
  BY <1>1, SMT
<1>10. Stacks(st, Front(ip) \o <<y>>, d)
  <2>1. \A j \in 1..Len(st) : Formed(st[j]) /\ (st[j].sql => st[j].sql)
    BY DEF Stacks
  <2> QED
    BY <1>1, <1>6, <1>8, <1>9, <2>1, BodyStep
<1> QED
  BY <1>10 DEF y

-----------------------------------------------------------------------------
(* The inductive invariant: the Interps match the calls in progress, what   *)
(* is in flight is aimed at the block that ought to catch it, and the       *)
(* uncommitted changes are accounted for.                                   *)
Flows == [k : {"normal", "enter", "exit", "continue", "return", "raise"},
          label : {None, "L"}, exc : Excs \cup {None}]
Aimed(f, st, t) == f.k = "raise" => f.exc \in Excs /\ t = CatcherOf(st, f.exc)
Control(st, ip, d, f, t) ==
  Stacks(st, ip, d) /\ d <= MAX_CALL_DEPTH /\ f \in Flows /\ Aimed(f, st, t)
Ledger(l, k, m, d) ==
  /\ l \in Nat /\ k \in Nat /\ m \in BOOLEAN
  /\ d = "failed" => l = (IF m THEN 0 ELSE k)
  /\ d # "failed" /\ ~m => l >= k
IInv == Control(stack, interp, depth, flow, target) /\ Ledger(log, mark, moved, done)

LEMMA FlowForms ==
  /\ Normal \in Flows /\ Normal.k = "normal"
  /\ Enter \in Flows /\ Enter.k = "enter"
  /\ \A k \in {"exit", "continue", "return"}, l \in {None, "L"} : Leave(k, l) \in Flows /\ Leave(k, l).k = k
  /\ \A exc \in Excs : InFlight(exc) \in Flows /\ InFlight(exc).k = "raise" /\ InFlight(exc).exc = exc
<1>1. Normal \in Flows /\ Normal.k = "normal"
  BY DEF Normal, Flows
<1>2. Enter \in Flows /\ Enter.k = "enter"
  BY DEF Enter, Normal, Flows
<1>3. ASSUME NEW k \in {"exit", "continue", "return"}, NEW l \in {None, "L"}
      PROVE  Leave(k, l) \in Flows /\ Leave(k, l).k = k
  BY <1>3 DEF Leave, Normal, Flows
<1>4. ASSUME NEW exc \in Excs
      PROVE  InFlight(exc) \in Flows /\ InFlight(exc).k = "raise" /\ InFlight(exc).exc = exc
  BY <1>4 DEF InFlight, Normal, Flows
<1> QED
  BY <1>1, <1>2, <1>3, <1>4

(* A flow other than an exception needs no aim.                             *)
LEMMA Calm ==
  ASSUME NEW st, NEW t, NEW f, f.k # "raise"
  PROVE  Aimed(f, st, t)
BY DEF Aimed

LEMMA ThrowAims ==
  ASSUME NEW exc \in Excs, Throw(exc)
  PROVE  flow' \in Flows /\ Aimed(flow', stack, target') /\ flow' = InFlight(exc)
<1>1. InFlight(exc) \in Flows /\ InFlight(exc).exc = exc
  BY FlowForms
<1>2. target' = CatcherOf(stack, exc) /\ flow' = InFlight(exc)
  BY CatcherIs DEF Throw
<1> QED
  BY <1>1, <1>2 DEF Aimed

LEMMA OtherIs == Other \in Excs /\ Exc("1403", FALSE) \in Excs /\ Anonymous(Other) = Other
<1>1. Other = [code |-> "other", user |-> FALSE]
  BY DEF Other, Exc
<1>2. Other \in Excs /\ Exc("1403", FALSE) \in Excs
  BY <1>1 DEF Exc, Excs
<1>3. ASSUME NEW exc \in Excs, exc.user = FALSE PROVE [exc EXCEPT !.user = FALSE] = exc
  BY <1>3 DEF Excs
<1>4. Other.user = FALSE
  BY <1>1
<1> QED
  BY <1>2, <1>3, <1>4 DEF Anonymous

(* The calls and what is in flight do not change.                           *)
LEMMA ControlStays ==
  ASSUME Control(stack, interp, depth, flow, target), UNCHANGED <<stack, interp, depth, flow, target>>
  PROVE  Control(stack, interp, depth, flow, target)'
OBVIOUS

LEMMA Thrown ==
  ASSUME Control(stack, interp, depth, flow, target), NEW exc \in Excs, Throw(exc),
         UNCHANGED <<stack, interp, depth>>
  PROVE  Control(stack, interp, depth, flow, target)'
BY ThrowAims DEF Control

-----------------------------------------------------------------------------
LEMMA BlockEntry ==
  ASSUME NEW b \in Blocks, NEW en,
         en = [Entry("block") EXCEPT !.handlers = b.handlers, !.framed = TRUE, !.e = b.e]
  PROVE  /\ en \in Entries /\ Formed(en) /\ en.k = "block" /\ ~en.sql /\ Holds(en) /\ en.e = b.e
         /\ Frame(b.e, b.cursor) \in Frames /\ Frame(b.e, b.cursor).e = b.e
<1>1. b.e \in Names /\ b.cursor \in {"no", "closed"} /\ b.handlers \in Seq({"OTHERS", "NO_DATA_FOUND", "E"})
  BY BlocksAssumption DEF Names
<1>2. en = [k |-> "block", handlers |-> b.handlers, label |-> None, framed |-> TRUE,
            function |-> FALSE, sql |-> FALSE, e |-> b.e, exc |-> None]
  BY DEF Entry
<1>3. en \in Entries /\ en.k = "block" /\ ~en.sql /\ en.framed /\ en.e = b.e
  BY ONLY <1>1, <1>2 DEF Entries
<1>4. Formed(en)
  BY ONLY <1>2 DEF Formed
<1>5. Frame(b.e, b.cursor) \in Frames /\ Frame(b.e, b.cursor).e = b.e
  BY <1>1 DEF Frame, Frames
<1> QED
  BY <1>3, <1>4, <1>5 DEF Holds

LEMMA LoopEntry ==
  ASSUME NEW l \in Loops, NEW en, en = [Entry("loop") EXCEPT !.label = l.label, !.framed = l.framed]
  PROVE  /\ en \in Entries /\ Formed(en) /\ en.k = "loop" /\ ~en.sql /\ en.e = "no"
         /\ Holds(en) <=> l.framed
<1>1. l.label \in {None, "L"} /\ l.framed \in BOOLEAN
  BY LoopsAssumption
<1>2. << >> \in Seq({"OTHERS", "NO_DATA_FOUND", "E"})
  BY SMT
<1>3. en = [k |-> "loop", handlers |-> << >>, label |-> l.label, framed |-> l.framed,
            function |-> FALSE, sql |-> FALSE, e |-> "no", exc |-> None]
  BY DEF Entry
<1>4. en \in Entries /\ en.k = "loop" /\ ~en.sql /\ en.framed = l.framed /\ en.e = "no"
  BY ONLY <1>1, <1>2, <1>3 DEF Entries, Names
<1>5. Formed(en)
  BY ONLY <1>3 DEF Formed
<1>6. en.k # "call"
  BY <1>4
<1> QED
  BY <1>4, <1>5, <1>6 DEF Holds

LEMMA PlainFrameIs == PlainFrame \in Frames /\ PlainFrame.e = "no"
BY DEF PlainFrame, Frame, Frames, Names

(* The frames of the current Interp with one more.                          *)
LEMMA PushedIs ==
  ASSUME NEW st, NEW d, Stacks(st, interp, d), NEW f \in Frames
  PROVE  /\ Pushed(f) \in Interps /\ Pushed(f).host = Last(interp).host
         /\ Pushed(f).handling = Last(interp).handling
         /\ Pushed(f).frames = Append(Last(interp).frames, f)
<1> DEFINE x == Last(interp)
<1>1. x \in Interps
  BY SelfIs
<1>2. x.frames \in Seq(Frames)
  BY <1>1 DEF Interps
<1>3. Append(x.frames, f) \in Seq(Frames)
  BY <1>2, SMT
<1> HIDE DEF x
<1>4. /\ [x EXCEPT !.frames = Append(@, f)] \in Interps
      /\ [x EXCEPT !.frames = Append(@, f)].host = x.host
      /\ [x EXCEPT !.frames = Append(@, f)].handling = x.handling
      /\ [x EXCEPT !.frames = Append(@, f)].frames = Append(x.frames, f)
  BY <1>1, <1>3 DEF Interps
<1> QED
  BY <1>4 DEF Pushed, Self, x

LEMMA NotEmpty ==
  ASSUME NEW st, NEW ip, NEW d, Stacks(st, ip, d)
  PROVE  st \in Seq(Entries) /\ (st = << >> <=> Len(st) = 0)
BY SMT DEF Stacks

LEMMA EnterBlockControl ==
  ASSUME Control(stack, interp, depth, flow, target), EnterBlock
  PROVE  Control(stack, interp, depth, flow, target)'
<1>1. CASE Throw(Other) /\ UNCHANGED <<stack, interp>>
  <2>1. UNCHANGED <<stack, interp, depth>>
    BY <1>1 DEF EnterBlock
  <2> QED
    BY <1>1, <2>1, Thrown, OtherIs
<1>2. CASE /\ \E b \in Blocks :
                /\ stack' = Append(stack, [Entry("block") EXCEPT
                               !.handlers = b.handlers, !.framed = TRUE, !.e = b.e])
                /\ SetSelf(Pushed(Frame(b.e, b.cursor)))
           /\ flow' = Normal
           /\ UNCHANGED target
  <2>1. PICK b \in Blocks :
                /\ stack' = Append(stack, [Entry("block") EXCEPT
                               !.handlers = b.handlers, !.framed = TRUE, !.e = b.e])
                /\ SetSelf(Pushed(Frame(b.e, b.cursor)))
    BY <1>2
  <2> DEFINE en == [Entry("block") EXCEPT !.handlers = b.handlers, !.framed = TRUE, !.e = b.e]
             f == Frame(b.e, b.cursor)
             y == Pushed(f)
  <2>2. /\ en \in Entries /\ Formed(en) /\ en.k = "block" /\ ~en.sql /\ Holds(en) /\ en.e = b.e
        /\ f \in Frames /\ f.e = b.e
    BY BlockEntry
  <2> HIDE DEF en, f
  <2>3. Stacks(stack, interp, depth)
    BY DEF Control
  <2>4. /\ y \in Interps /\ y.host = Last(interp).host /\ y.handling = Last(interp).handling
        /\ y.frames = Append(Last(interp).frames, f)
    BY <2>2, <2>3, PushedIs
  <2> HIDE DEF y
  <2>5. en.k \in {"block", "loop"}
    BY <2>2
  <2>6. Stacks(Append(stack, en), Front(interp) \o <<y>>, depth)
    BY <2>2, <2>3, <2>4, <2>5, PushBody
  <2>7. stack' = Append(stack, en) /\ interp' = Front(interp) \o <<y>> /\ depth' = depth
    BY <2>1 DEF SetSelf, en, f, y, EnterBlock
  <2>8. flow' \in Flows /\ Aimed(flow', stack', target')
    BY <1>2, FlowForms, Calm
  <2> QED
    BY <2>6, <2>7, <2>8 DEF Control
<1> QED
  BY <1>1, <1>2 DEF EnterBlock

LEMMA EnterLoopControl ==
  ASSUME Control(stack, interp, depth, flow, target), EnterLoop
  PROVE  Control(stack, interp, depth, flow, target)'
<1>1. PICK l \in Loops :
        /\ stack' = Append(stack, [Entry("loop") EXCEPT !.label = l.label, !.framed = l.framed])
        /\ IF l.framed THEN SetSelf(Pushed(PlainFrame)) ELSE UNCHANGED interp
  BY DEF EnterLoop
<1> DEFINE en == [Entry("loop") EXCEPT !.label = l.label, !.framed = l.framed]
<1>2. /\ en \in Entries /\ Formed(en) /\ en.k = "loop" /\ ~en.sql /\ en.e = "no"
      /\ Holds(en) <=> l.framed
  BY LoopEntry
<1>3. stack' = Append(stack, en)
  BY <1>1
<1> HIDE DEF en
<1>4. Stacks(stack, interp, depth) /\ depth' = depth /\ flow' = flow /\ target' = target
  BY DEF Control, EnterLoop
<1>5. en.k \in {"block", "loop"}
  BY <1>2
<1>6. Stacks(stack', interp', depth')
  <2>1. CASE l.framed
    <3> DEFINE y == Pushed(PlainFrame)
    <3>1. /\ y \in Interps /\ y.host = Last(interp).host /\ y.handling = Last(interp).handling
          /\ y.frames = Append(Last(interp).frames, PlainFrame)
      BY <1>4, PushedIs, PlainFrameIs
    <3> HIDE DEF y
    <3>2. Stacks(Append(stack, en), Front(interp) \o <<y>>, depth)
      BY <1>2, <1>4, <1>5, <2>1, <3>1, PlainFrameIs, PushBody
    <3> QED
      BY <1>1, <1>3, <1>4, <2>1, <3>2 DEF SetSelf, y
  <2>2. CASE ~l.framed
    <3> DEFINE y == Last(interp)
    <3>1. y \in Interps /\ Front(interp) \o <<y>> = interp
      BY <1>4, SelfIs
    <3>2. Stacks(Append(stack, en), Front(interp) \o <<y>>, depth)
      BY <1>2, <1>4, <1>5, <2>2, <3>1, PushBody
    <3> QED
      BY <1>1, <1>3, <1>4, <2>2, <3>1, <3>2
  <2> QED
    BY <2>1, <2>2
<1>7. flow' \in Flows /\ Aimed(flow', stack', target')
  <2>1. flow.k # "raise"
    BY DEF EnterLoop, AtStatement
  <2> QED
    BY <1>4, <2>1, Calm DEF Control
<1> QED
  BY <1>4, <1>6, <1>7 DEF Control

(* Fails, RaiseNamed and Reraise *)
LEMMA RaisedControl ==
  ASSUME Control(stack, interp, depth, flow, target), Fails \/ RaiseNamed \/ Reraise
  PROVE  Control(stack, interp, depth, flow, target)'
<1>1. UNCHANGED <<stack, interp, depth>>
  BY DEF Fails, RaiseNamed, Reraise
<1>2. \E exc \in Excs : Throw(exc)
  <2>1. CASE Fails
    BY <2>1, OtherIs DEF Fails
  <2>2. CASE RaiseNamed
    <3>1. \A n : Raised(n) \in Excs
      BY OtherIs DEF Raised, Exc, Excs
    <3> QED
      BY <2>2, <3>1 DEF RaiseNamed
  <2>3. CASE Reraise
    <3>1. Self \in Interps
      BY SelfIs DEF Control, Self
    <3>2. Self.handling \in Seq(Excs)
      BY <3>1 DEF Interps
    <3>3. Self.handling # << >> => Last(Self.handling) \in Excs
      BY <3>2, SMT DEF Last
    <3> QED
      BY <2>3, <3>3, OtherIs DEF Reraise
  <2> QED
    BY <2>1, <2>2, <2>3
<1> QED
  BY <1>1, <1>2, Thrown

LEMMA ChangeControl ==
  ASSUME Control(stack, interp, depth, flow, target), Change
  PROVE  Control(stack, interp, depth, flow, target)'
<1>1. UNCHANGED <<stack, interp, depth>> /\ (Throw(Other) \/ UNCHANGED <<flow, target>>)
  BY DEF Change
<1> QED
  BY <1>1, Thrown, OtherIs, ControlStays

LEMMA CursorControl ==
  ASSUME Control(stack, interp, depth, flow, target), Cursor
  PROVE  Control(stack, interp, depth, flow, target)'
<1> DEFINE i == Declaring(Self.frames, "cursor")
<1>1. stack' = stack /\ depth' = depth /\ AtStatement
  BY DEF Cursor
<1>2. \/ Throw(Other) /\ UNCHANGED interp
      \/ \E c \in {"open", "closed"} : /\ i # 0
                                       /\ SetSelf([Self EXCEPT !.frames[i].cursor = c])
                                       /\ UNCHANGED <<flow, target>>
  BY DEF Cursor
<1>3. CASE Throw(Other) /\ UNCHANGED interp
  BY <1>1, <1>3, Thrown, OtherIs
<1>4. CASE \E c \in {"open", "closed"} : /\ i # 0
                                         /\ SetSelf([Self EXCEPT !.frames[i].cursor = c])
                                         /\ UNCHANGED <<flow, target>>
  <2>1. PICK c \in {"open", "closed"} : /\ i # 0
                                        /\ SetSelf([Self EXCEPT !.frames[i].cursor = c])
                                        /\ UNCHANGED <<flow, target>>
    BY <1>4
  <2>2. Stacks(stack, interp, depth) /\ Self \in Interps
    BY SelfIs DEF Control, Self
  <2>3. i \in DOMAIN Self.frames
    <3> DEFINE fs == Self.frames
               found == {j \in DOMAIN fs : fs[j]["cursor"] # "no"}
    <3>1. fs \in Seq(Frames)
      BY <2>2 DEF Interps
    <3>2. Len(fs) \in Nat /\ DOMAIN fs = 1..Len(fs)
      BY <3>1, SMT
    <3>3. found \in SUBSET (1..Len(fs))
      BY <3>2
    <3>4. found # {} => \E m \in found : \A k \in found : k <= m
      BY <3>2, <3>3, GreatestNat
    <3>5. i = IF found = {} THEN 0 ELSE CHOOSE j \in found : \A k \in found : k <= j
      BY DEF Declaring
    <3> HIDE DEF found, i
    <3>6. i \in found
      BY <2>1, <3>4, <3>5
    <3> QED
      BY <3>6 DEF found
  <2> HIDE DEF i
  <2>4. Stacks(stack, Front(interp) \o <<[Self EXCEPT !.frames[i].cursor = c]>>, depth)
    BY <2>2, <2>3, CursorBody DEF Self
  <2>5. interp' = Front(interp) \o <<[Self EXCEPT !.frames[i].cursor = c]>>
    BY <2>1 DEF SetSelf
  <2> QED
    BY <1>1, <2>1, <2>4, <2>5 DEF Control
<1> QED
  BY <1>2, <1>3, <1>4

LEMMA JumpControl ==
  ASSUME Control(stack, interp, depth, flow, target), Jump \/ NextTurn
  PROVE  Control(stack, interp, depth, flow, target)'
<1>1. UNCHANGED <<stack, interp, depth>>
  BY DEF Jump, NextTurn
<1>2. flow' \in Flows /\ flow'.k # "raise"
  <2>1. CASE NextTurn
    <3>1. flow' = Normal
      BY <2>1 DEF NextTurn
    <3> QED
      BY <3>1, FlowForms
  <2>2. CASE Jump
    <3>1. \E k \in {"exit", "continue", "return"}, l \in {None, "L"} : flow' = Leave(k, l)
      BY <2>2 DEF Jump
    <3>2. PICK k \in {"exit", "continue", "return"}, l \in {None, "L"} : flow' = Leave(k, l)
      BY <3>1
    <3>3. flow' \in Flows /\ flow'.k = k
      BY <3>2, FlowForms
    <3> QED
      BY <3>3
  <2> QED
    BY <2>1, <2>2
<1> QED
  BY <1>1, <1>2, Calm DEF Control

LEMMA CallEntry ==
  ASSUME NEW u, NEW q, u \in BOOLEAN, q \in BOOLEAN,
         NEW en, en = [Entry("call") EXCEPT !.function = u, !.sql = q]
  PROVE  en \in Entries /\ en.k = "call" /\ en.e = "no" /\ en.sql = q /\ ~en.framed
<1>1. << >> \in Seq({"OTHERS", "NO_DATA_FOUND", "E"})
  BY SMT
<1>2. en = [k |-> "call", handlers |-> << >>, label |-> None, framed |-> FALSE,
            function |-> u, sql |-> q, e |-> "no", exc |-> None]
  BY DEF Entry
<1> QED
  BY ONLY <1>1, <1>2, u \in BOOLEAN, q \in BOOLEAN DEF Entries, Names

LEMMA CallControl ==
  ASSUME Control(stack, interp, depth, flow, target), Call
  PROVE  Control(stack, interp, depth, flow, target)'
<1>1. CASE Throw(Other) /\ UNCHANGED <<stack, interp, depth>>
  BY <1>1, Thrown, OtherIs
<1>2. CASE /\ depth < MAX_CALL_DEPTH
           /\ \E function, sql \in BOOLEAN :
                /\ stack' = Append(stack, [Entry("call") EXCEPT !.function = function, !.sql = sql])
                /\ interp' = Append(interp, Interp(IF sql THEN "query" ELSE Self.host, <<PlainFrame>>))
           /\ depth' = depth + 1
           /\ flow' = Enter
  <2>1. PICK function \in BOOLEAN, sql \in BOOLEAN :
                /\ stack' = Append(stack, [Entry("call") EXCEPT !.function = function, !.sql = sql])
                /\ interp' = Append(interp, Interp(IF sql THEN "query" ELSE Self.host, <<PlainFrame>>))
    BY <1>2
  <2> DEFINE en == [Entry("call") EXCEPT !.function = function, !.sql = sql]
             y == Interp(IF sql THEN "query" ELSE Self.host, <<PlainFrame>>)
  <2>2. Stacks(stack, interp, depth) /\ Self \in Interps /\ Self = Last(interp)
    BY SelfIs DEF Control, Self
  <2>3. en \in Entries /\ en.k = "call" /\ en.e = "no" /\ en.sql = sql /\ ~en.framed
    BY CallEntry
  <2>4. /\ y \in Interps /\ y.handling = << >> /\ y.frames = <<PlainFrame>>
        /\ y.host = IF sql THEN "query" ELSE Self.host
    <3>1. Self.host \in {"session", "query"}
      BY <2>2 DEF Interps
    <3>2. <<PlainFrame>> \in Seq(Frames) /\ << >> \in Seq(Excs)
      BY PlainFrameIs, SMT
    <3> QED
      BY <3>1, <3>2 DEF Interp, Interps
  <2> HIDE DEF en, y
  <2>5. Opens(en)
    BY <2>3 DEF Opens
  <2>6. Formed(en)
    BY <2>3 DEF Formed
  <2>7. en.sql \/ Last(interp).host = "query" => y.host = "query"
    BY <2>2, <2>3, <2>4
  <2>8. Stacks(Append(stack, en), Append(interp, y), depth + 1)
    BY <2>2, <2>3, <2>4, <2>5, <2>6, <2>7, PlainFrameIs, OpenerStep
  <2>9. depth + 1 <= MAX_CALL_DEPTH
    <3>1. depth \in Nat /\ depth < MAX_CALL_DEPTH
      BY <1>2, <2>2 DEF Stacks
    <3> QED
      BY <3>1, NatAssumption, SMT
  <2>10. flow' \in Flows /\ Aimed(flow', stack', target')
    <3>1. flow' \in Flows /\ flow'.k # "raise"
      BY <1>2, FlowForms
    <3> QED
      BY <3>1, Calm
  <2>11. stack' = Append(stack, en) /\ interp' = Append(interp, y) /\ depth' = depth + 1
    BY <1>2, <2>1 DEF en, y
  <2> QED
    BY <2>8, <2>9, <2>10, <2>11 DEF Control
<1> QED
  BY <1>1, <1>2 DEF Call

LEMMA DynamicControl ==
  ASSUME Control(stack, interp, depth, flow, target), Dynamic
  PROVE  Control(stack, interp, depth, flow, target)'
<1> DEFINE en == Entry("dynamic")
           y == Interp(Self.host, << >>)
<1>1. /\ stack' = Append(stack, en) /\ interp' = Append(interp, y)
      /\ flow' = Enter /\ depth' = depth
  BY DEF Dynamic
<1>2. Stacks(stack, interp, depth) /\ Self \in Interps /\ Self = Last(interp) /\ depth <= MAX_CALL_DEPTH
  BY SelfIs DEF Control, Self
<1>3. en \in Entries /\ en.k = "dynamic" /\ en.e = "no" /\ ~en.sql /\ ~en.framed
  <2>1. << >> \in Seq({"OTHERS", "NO_DATA_FOUND", "E"})
    BY SMT
  <2> QED
    BY <2>1 DEF Entry, Entries, Names
<1>4. y \in Interps /\ y.handling = << >> /\ y.frames = << >> /\ y.host = Self.host
  <2>1. Self.host \in {"session", "query"}
    BY <1>2 DEF Interps
  <2>2. << >> \in Seq(Frames) /\ << >> \in Seq(Excs)
    BY SMT
  <2> QED
    BY <2>1, <2>2 DEF Interp, Interps
<1> HIDE DEF en, y
<1>5. Opens(en) /\ en.k # "call"
  BY <1>3 DEF Opens
<1>6. Formed(en)
  BY <1>3 DEF Formed
<1>7. en.sql \/ Last(interp).host = "query" => y.host = "query"
  BY <1>2, <1>3, <1>4
<1>8. Stacks(Append(stack, en), Append(interp, y), depth)
  BY <1>2, <1>3, <1>4, <1>5, <1>6, <1>7, OpenerStep
<1>9. flow' \in Flows /\ Aimed(flow', stack', target')
  <2>1. flow' \in Flows /\ flow'.k # "raise"
    BY <1>1, FlowForms
  <2> QED
    BY <2>1, Calm
<1> QED
  BY <1>1, <1>2, <1>8, <1>9 DEF Control

(* The stacks after LeaveBody and Unwind.                                   *)
LEMMA BodyLeft ==
  ASSUME Stacks(stack, interp, depth), stack # << >>, Top.k \in {"block", "handler", "loop"},
         stack' = Front(stack), SetSelf(WithoutBody), depth' = depth
  PROVE  Stacks(stack', interp', depth')
<1>1. Len(stack) # 0
  BY NotEmpty
<1>2. WithoutBody = Without(Last(interp), Last(stack))
  BY DEF WithoutBody, Without, Popped, Self, Top
<1>3. interp' = Front(interp) \o <<Without(Last(interp), Last(stack))>>
  BY <1>2 DEF SetSelf
<1>4. Last(stack).k \in {"block", "handler", "loop"}
  BY DEF Top
<1>5. Stacks(Front(stack), Front(interp) \o <<Without(Last(interp), Last(stack))>>, depth)
  BY <1>1, <1>4, PopBody
<1> QED
  BY <1>3, <1>5

LEMMA LeaveBodyControl ==
  ASSUME Control(stack, interp, depth, flow, target), LeaveBody
  PROVE  Control(stack, interp, depth, flow, target)'
<1>1. Stacks(stack', interp', depth') /\ depth' = depth
  BY BodyLeft DEF Control, LeaveBody
<1>2. flow' \in Flows /\ flow'.k # "raise"
  <2>1. flow \in Flows /\ flow.k # "raise" /\ (flow' = Normal \/ flow' = flow)
    BY DEF Control, LeaveBody
  <2> QED
    BY <2>1, FlowForms
<1> QED
  BY <1>1, <1>2, Calm DEF Control

(* Whether the block on top catches what is in flight.                      *)
LEMMA CatchesIs ==
  ASSUME Stacks(stack, interp, depth), stack # << >>
  PROVE  Catches <=> Len(stack) \in AbleOf(stack, flow.exc)
<1>1. Len(stack) # 0
  BY NotEmpty
<1>2. Len(stack) \in AbleOf(stack, flow.exc) <=>
        /\ Last(stack).k = "block"
        /\ \E h \in DOMAIN Last(stack).handlers :
             MatchesAs(FindE(Last(interp).frames), Last(stack).handlers[h], flow.exc)
  BY <1>1, CatchesTop
<1> QED
  BY <1>2 DEF Catches, Top, matches, Self

LEMMA CatchControl ==
  ASSUME Control(stack, interp, depth, flow, target), Catch
  PROVE  Control(stack, interp, depth, flow, target)'
<1>1. Stacks(stack, interp, depth) /\ flow.exc \in Excs /\ depth <= MAX_CALL_DEPTH
  BY DEF Control, Catch, Aimed
<1>2. Len(stack) # 0 /\ Last(stack).k = "block"
  BY <1>1, NotEmpty DEF Catch, Catches, Top
<1> DEFINE en == [Last(stack) EXCEPT !.k = "handler", !.exc = flow.exc, !.handlers = << >>]
           y == [Last(interp) EXCEPT !.handling = Append(@, flow.exc)]
<1>3. stack' = Front(stack) \o <<en>> /\ interp' = Front(interp) \o <<y>> /\ depth' = depth
  BY DEF Catch, SetSelf, Top, Self
<1>4. Stacks(Front(stack) \o <<en>>, Front(interp) \o <<y>>, depth)
  BY <1>1, <1>2, SwapBody
<1>5. flow' \in Flows /\ flow'.k # "raise"
  <2>1. flow' = Normal
    BY DEF Catch
  <2> QED
    BY <2>1, FlowForms
<1> HIDE DEF en, y
<1> QED
  BY <1>1, <1>3, <1>4, <1>5, Calm DEF Control

LEMMA UnwindControl ==
  ASSUME Control(stack, interp, depth, flow, target), Unwind
  PROVE  Control(stack, interp, depth, flow, target)'
<1>1. /\ Stacks(stack, interp, depth) /\ flow.exc \in Excs /\ target = CatcherOf(stack, flow.exc)
      /\ flow' = flow /\ target' = target /\ depth' = depth /\ stack # << >> /\ stack' = Front(stack)
  BY DEF Control, Unwind, Aimed
<1>2. Stacks(stack', interp', depth')
  BY BodyLeft DEF Control, Unwind
<1>3. Len(stack) # 0 /\ stack \in Seq(Entries) /\ Len(stack) \notin AbleOf(stack, flow.exc)
  BY <1>1, NotEmpty, CatchesIs DEF Unwind
<1>4. ~Last(stack).sql
  <2>1. Formed(Last(stack))
    BY <1>1, <1>3, SMT DEF Stacks, Last
  <2>2. Last(stack).k # "call"
    BY DEF Unwind, Top
  <2> QED
    BY <2>1, <2>2 DEF Formed
<1>5. CatcherOf(Front(stack), flow.exc) = CatcherOf(stack, flow.exc)
  BY <1>1, <1>3, <1>4, CatcherBelow
<1> QED
  BY <1>1, <1>2, <1>5 DEF Control, Aimed

(* The end of a routine or a dynamic block.                                 *)
LEMMA EndInterpControl ==
  ASSUME Control(stack, interp, depth, flow, target), EndInterp
  PROVE  Control(stack, interp, depth, flow, target)'
<1>1. /\ Stacks(stack, interp, depth) /\ flow \in Flows /\ Aimed(flow, stack, target)
      /\ depth <= MAX_CALL_DEPTH
  BY DEF Control
<1>2. /\ stack # << >> /\ Last(stack).k \in {"call", "dynamic"}
      /\ stack' = Front(stack) /\ interp' = Front(interp)
      /\ depth' = IF Last(stack).k = "call" THEN depth - 1 ELSE depth
  BY DEF EndInterp, Top
<1>3. stack \in Seq(Entries) /\ Len(stack) # 0 /\ Opens(Last(stack))
  BY <1>1, <1>2, NotEmpty DEF Opens
<1>4. Stacks(Front(stack), Front(interp), depth')
  BY <1>1, <1>2, <1>3, CloserStep
<1>5. depth' <= MAX_CALL_DEPTH
  <2>1. depth \in Nat
    BY <1>1 DEF Stacks
  <2> QED
    BY <1>1, <1>2, <2>1, NatAssumption, SMT
<1>6. \A exc : Len(stack) \notin AbleOf(stack, exc)
  <2>1. Last(stack).k # "block"
    BY <1>2
  <2> QED
    BY <1>1, <1>3, <2>1, CatchesTop
<1>7. flow' \in Flows /\ Aimed(flow', Front(stack), target')
  <2>1. CASE flow.k = "raise"
    <3> DEFINE exd == IF Last(stack).sql THEN Anonymous(flow.exc) ELSE flow.exc
    <3>1. flow.exc \in Excs /\ target = CatcherOf(stack, flow.exc)
      BY <1>1, <2>1 DEF Aimed
    <3>2. flow' = InFlight(exd) /\ target' = target
      BY <2>1 DEF EndInterp, Top
    <3>3. exd \in Excs
      BY <3>1, AnonymousTwice
    <3>4. CatcherOf(Front(stack), exd) = CatcherOf(stack, flow.exc)
      BY <1>3, <1>6, <3>1, CatcherBelow
    <3> HIDE DEF exd
    <3>5. InFlight(exd) \in Flows /\ InFlight(exd).exc = exd
      BY <3>3, FlowForms
    <3> QED
      BY <3>1, <3>2, <3>3, <3>4, <3>5 DEF Aimed
  <2>2. CASE Throw(Other)
    <3>1. flow' = InFlight(Other) /\ target' = CatcherOf(stack, Other)
      BY <2>2, CatcherIs DEF Throw
    <3>2. InFlight(Other) \in Flows /\ InFlight(Other).exc = Other /\ Other \in Excs
      BY OtherIs, FlowForms
    <3>3. Other = IF Last(stack).sql THEN Anonymous(Other) ELSE Other
      BY OtherIs
    <3>4. CatcherOf(Front(stack), Other) = CatcherOf(stack, Other)
      BY <1>3, <1>6, <3>2, <3>3, CatcherBelow
    <3> QED
      BY <3>1, <3>2, <3>4 DEF Aimed
  <2>3. CASE flow' = Normal
    <3>1. flow' \in Flows /\ flow'.k # "raise"
      BY <2>3, FlowForms
    <3> QED
      BY <3>1, Calm
  <2>4. flow.k = "raise" \/ Throw(Other) \/ flow' = Normal
    BY DEF EndInterp
  <2> QED
    BY <2>1, <2>2, <2>3, <2>4
<1> QED
  BY <1>2, <1>4, <1>5, <1>7 DEF Control

LEMMA ControlNext ==
  ASSUME Control(stack, interp, depth, flow, target), Next
  PROVE  Control(stack, interp, depth, flow, target)'
<1>1. CASE End
  <2>1. UNCHANGED <<stack, interp, depth, flow, target>>
    BY <1>1 DEF End
  <2> QED
    BY <2>1, ControlStays
<1> QED
  BY <1>1, EnterBlockControl, RaisedControl, ChangeControl, CursorControl, EnterLoopControl,
     JumpControl, CallControl, DynamicControl, LeaveBodyControl, CatchControl, UnwindControl,
     EndInterpControl DEF Next

-----------------------------------------------------------------------------
(* The uncommitted changes.                                                 *)
LEMMA OnlyTwoTouchTheLog ==
  ASSUME Next
  PROVE  Change \/ End \/ UNCHANGED <<log, moved, mark, done>>
BY DEF Next, EnterBlock, Fails, RaiseNamed, Reraise, Cursor, EnterLoop, Jump, Call, Dynamic,
   LeaveBody, NextTurn, Catch, Unwind, EndInterp

LEMMA LedgerNext ==
  ASSUME Ledger(log, mark, moved, done), Next
  PROVE  Ledger(log, mark, moved, done)'
<1>1. log \in Nat /\ mark \in Nat /\ moved \in BOOLEAN
  BY DEF Ledger
<1>2. CASE Change
  <2>1. done = "no" /\ done' = done /\ mark' = mark
    BY <1>2 DEF Change, AtStatement
  <2>2. ~moved => log >= mark
    BY <2>1 DEF Ledger
  <2>3. \/ UNCHANGED <<log, moved>>
        \/ log' = log + 1 /\ moved' = moved
        \/ log' = 0 /\ moved' = TRUE
    BY <1>2 DEF Change
  <2>4. log' \in Nat /\ (~moved' => log' >= mark)
    BY <1>1, <2>2, <2>3, SMT
  <2>5. moved' \in BOOLEAN
    BY <1>1, <2>3
  <2>6. done' # "failed"
    BY <2>1
  <2> QED
    BY <1>1, <2>1, <2>4, <2>5, <2>6 DEF Ledger
<1>3. CASE End
  <2>1. done = "no" /\ mark' = mark /\ moved' = moved
    BY <1>3 DEF End
  <2>2. ~moved => log >= mark
    BY <2>1 DEF Ledger
  <2>3. CASE flow.k = "raise"
    <3>1. done' = "failed" /\ log' = Undone
      BY <1>3, <2>3 DEF End
    <3>2. Undone = IF moved THEN 0 ELSE mark
      BY <1>1, <2>2, SMT DEF Undone
    <3>3. Undone \in Nat
      BY <1>1, <3>2
    <3> QED
      BY <1>1, <2>1, <3>1, <3>2, <3>3 DEF Ledger
  <2>4. CASE flow.k # "raise"
    <3>1. done' = "ok" /\ log' = log
      BY <1>3, <2>4 DEF End
    <3>2. done' # "failed"
      BY <3>1
    <3> QED
      BY <1>1, <2>1, <2>2, <3>1, <3>2 DEF Ledger
  <2> QED
    BY <2>3, <2>4
<1>4. CASE UNCHANGED <<log, moved, mark, done>>
  BY <1>4 DEF Ledger
<1> QED
  BY <1>2, <1>3, <1>4, OnlyTwoTouchTheLog

-----------------------------------------------------------------------------
LEMMA InitIInv == Init => IInv
<1> SUFFICES ASSUME Init PROVE IInv
  OBVIOUS
<1> DEFINE x == Interp("session", << >>)
<1>1. stack = << >> /\ interp = <<x>> /\ depth = 0 /\ flow = Enter
  BY DEF Init
<1>2. x \in Interps /\ x.frames = << >> /\ x.handling = << >>
  <2>1. << >> \in Seq(Frames) /\ << >> \in Seq(Excs)
    BY SMT
  <2> QED
    BY <2>1 DEF Interp, Interps
<1> HIDE DEF x
<1>3. stack \in Seq(Entries) /\ Len(stack) = 0 /\ DOMAIN stack = {}
  BY <1>1, SMT
<1>4. interp \in Seq(Interps) /\ Len(interp) = 1 /\ interp[1] = x
  BY <1>1, <1>2, SMT
<1>5. Called(stack) = {} /\ Opened(stack) = {0}
  BY <1>3 DEF Called, Opened
<1> DEFINE op == <<0>>
<1>6. op \in Seq(Nat) /\ Len(op) = 1 /\ op[1] = 0
  BY SMT
<1> HIDE DEF op
<1>7. Lists(op, {0})
  <2>1. \A i, j \in 1..1 : ~(i < j)
    BY SMT
  <2>2. \A i \in 1..1 : i = 1
    BY SMT
  <2>3. 1 \in 1..1
    BY SMT
  <2> QED
    BY <1>6, <2>1, <2>2, <2>3 DEF Lists
<1>8. ASSUME NEW lo, NEW hi PROVE Matched(x, stack, lo, hi)
  <2>1. Framing(stack, lo, hi) = {} /\ Handling(stack, lo, hi) = {}
    BY <1>3 DEF Framing, Handling
  <2>2. Es(x.frames) = << >>
    BY <1>2, SMT DEF Es
  <2> QED
    BY <1>2, <2>1, <2>2, FollowNone DEF Matched
<1>9. Match(op, stack, interp)
  <2>1. \A n \in 1..1 : n = 1
    BY SMT
  <2>2. 1..0 = {}
    BY SMT
  <2> QED
    BY <1>4, <1>5, <1>6, <1>7, <1>8, <2>1, <2>2 DEF Match
<1>10. Stacks(stack, interp, depth)
  <2>1. << >> = << >> /\ Len(<< >>) = 0 /\ 0 \in Nat /\ \A i \in 1..0 : FALSE
    BY SMT
  <2>2. Lists(<< >>, Called(stack))
    BY <1>5, FollowNone
  <2> QED
    BY <1>1, <1>3, <1>4, <1>9, <2>1, <2>2 DEF Stacks
<1>11. Control(stack, interp, depth, flow, target)
  <2>1. flow \in Flows /\ flow.k # "raise"
    BY <1>1, FlowForms
  <2>2. depth <= MAX_CALL_DEPTH
    BY <1>1, NatAssumption, SMT
  <2> QED
    BY <1>10, <2>1, <2>2, Calm DEF Control
<1>12. Ledger(log, mark, moved, done)
  <2>1. log = Before /\ mark = log /\ moved = FALSE /\ done = "no"
    BY DEF Init
  <2>2. log \in Nat /\ log >= mark
    BY <2>1, NatAssumption, SMT
  <2>3. done # "failed" /\ moved \in BOOLEAN
    BY <2>1
  <2> QED
    BY <2>1, <2>2, <2>3 DEF Ledger
<1> QED
  BY <1>11, <1>12 DEF IInv

LEMMA NextIInv == IInv /\ [Next]_vars => IInv'
<1> SUFFICES ASSUME IInv, [Next]_vars PROVE IInv'
  OBVIOUS
<1>1. CASE Next
  BY <1>1, ControlNext, LedgerNext DEF IInv
<1>2. CASE UNCHANGED vars
  <2>1. UNCHANGED <<stack, interp, depth, flow, target>> /\ UNCHANGED <<log, mark, moved, done>>
    BY <1>2 DEF vars
  <2>2. Control(stack, interp, depth, flow, target)'
    BY <2>1, ControlStays DEF IInv
  <2> QED
    BY <2>1, <2>2 DEF IInv, Ledger
<1> QED
  BY <1>1, <1>2

(* At every step of a block the Interps, their frames and the exceptions    *)
(* they handle match the calls in progress, an exception in flight is aimed *)
(* at the block that ought to catch it, and the changes not committed are   *)
(* at least those of before the block.                                      *)
THEOREM PlSqlInvariant == Spec => []IInv
<1>1. Init => IInv
  BY InitIInv
<1>2. IInv /\ [Next]_vars => IInv'
  BY NextIInv
<1> QED
  BY <1>1, <1>2, PTL DEF Spec

-----------------------------------------------------------------------------
(* The positions of an Interp are those between its opener and the next.    *)
LEMMA SegmentIs ==
  ASSUME stack \in Seq(Entries), NEW op, Match(op, stack, interp),
         NEW n \in 1..Len(op), NEW i \in DOMAIN stack
  PROVE  i \in Segment(n) <=> op[n] <= i /\ i <= Until(op, stack, n)
<1>1. Len(stack) \in Nat /\ DOMAIN stack = 1..Len(stack) /\ i \in 1..Len(stack)
  BY SMT
<1>2. /\ Lists(op, Opened(stack)) /\ op \in Seq(Nat)
      /\ \A a, b \in 1..Len(op) : a < b => op[a] < op[b]
      /\ \A a \in Opened(stack) : \E b \in 1..Len(op) : op[b] = a
  BY DEF Match, Lists
<1>3. Len(op) \in Nat /\ \A a \in 1..Len(op) : op[a] \in Nat
  BY <1>2, SMT
<1>4. Len(op) # 0 /\ op[1] <= i
  <2>1. PICK b \in 1..Len(op) : op[b] = 0
    BY <1>2 DEF Opened
  <2>2. b = 1 \/ op[1] < op[b]
    <3>1. 1 \in 1..Len(op) /\ (b = 1 \/ 1 < b)
      BY <1>3, <2>1, SMT
    <3> QED
      BY <1>2, <2>1, <3>1
  <2>3. op[1] = 0
    BY <1>3, <2>1, <2>2, SMT
  <2> QED
    BY <1>1, <1>3, <2>1, <2>3, SMT
<1>5. i \in Nat
  BY <1>1, SMT
<1>6. PICK m \in 1..Len(op) : op[m] <= i /\ (m = Len(op) \/ i < op[m + 1])
  BY <1>2, <1>4, <1>5, Between
<1>7. Cardinality({j \in Opened(stack) : j <= i}) = m
  <2>1. m \in 0..Len(op)
    BY <1>3, SMT
  <2> QED
    BY <1>2, <1>5, <1>6, <2>1, CountBelow
<1> DEFINE B == {j \in Openers : j <= i}
<1>8. Cardinality(B) = m - 1
  <2>1. B \in SUBSET (1..Len(stack)) /\ 0 \notin B
    BY <1>1, SMT DEF Openers
  <2>2. IsFiniteSet(B)
    <3>1. IsFiniteSet(1..Len(stack))
      BY <1>1, FS_Interval, SMT
    <3> QED
      BY <2>1, <3>1, FS_Subset
  <2>3. {j \in Opened(stack) : j <= i} = B \cup {0}
    BY <1>5, SMT DEF Opened, Openers, Opens
  <2>4. Cardinality(B \cup {0}) = Cardinality(B) + 1
    BY <2>1, <2>2, FS_AddElement
  <2>5. Cardinality(B) \in Nat
    BY <2>2, FS_CardinalityType
  <2> HIDE DEF B
  <2>6. Cardinality(B) + 1 = m
    BY <1>7, <2>3, <2>4
  <2> QED
    BY <2>5, <2>6, SMT
<1>9. i \in Segment(n) <=> Cardinality(B) = n - 1
  BY DEF Segment
<1> HIDE DEF B
<1>10. i \in Segment(n) <=> n = m
  BY <1>3, <1>8, <1>9, SMT
<1>11. n < m => i > Until(op, stack, n)
  <2>1. n < m => n < Len(op) /\ n + 1 \in 1..Len(op) /\ (n + 1 = m \/ op[n + 1] < op[m])
    BY <1>2, <1>3, SMT
  <2> QED
    BY <1>1, <1>3, <1>6, <2>1, SMT DEF Until
<1>12. m < n => i < op[n]
  <2>1. m < n => m # Len(op) /\ m + 1 \in 1..Len(op) /\ (n = m + 1 \/ op[m + 1] < op[n])
    BY <1>2, <1>3, SMT
  <2> QED
    BY <1>1, <1>3, <1>6, <2>1, SMT
<1>13. i <= Until(op, stack, m)
  <2>1. CASE m < Len(op)
    <3>1. m + 1 \in 1..Len(op) /\ i < op[m + 1]
      BY <1>3, <1>6, <2>1, SMT
    <3> QED
      BY <1>1, <1>3, <2>1, <3>1, SMT DEF Until
  <2>2. CASE ~(m < Len(op))
    BY <1>1, <2>2, SMT DEF Until
  <2> QED
    BY <2>1, <2>2
<1>14. Until(op, stack, n) \in Int /\ op[n] \in Nat
  <2>1. n < Len(op) => n + 1 \in 1..Len(op)
    BY <1>3, SMT
  <2> QED
    BY <1>1, <1>3, <2>1, SMT DEF Until
<1>15. CASE n = m
  BY <1>6, <1>10, <1>13, <1>15
<1>16. CASE n < m
  BY <1>1, <1>3, <1>10, <1>11, <1>14, <1>16, SMT
<1>17. CASE m < n
  BY <1>1, <1>3, <1>10, <1>12, <1>14, <1>17, SMT
<1>18. n = m \/ n < m \/ m < n
  BY <1>3, SMT
<1> QED
  BY <1>15, <1>16, <1>17, <1>18

LEMMA StacksMatch ==
  ASSUME IInv
  PROVE  StacksMatchControl
<1>1. Stacks(stack, interp, depth) /\ depth <= MAX_CALL_DEPTH
  BY DEF IInv, Control
<1>2. stack \in Seq(Entries) /\ interp \in Seq(Interps) /\ depth \in Nat
  BY <1>1 DEF Stacks
<1>3. PICK op : Match(op, stack, interp)
  BY <1>1 DEF Stacks
<1>4. Lists(op, Opened(stack)) /\ Len(op) = Len(interp) /\ op \in Seq(Nat)
  BY <1>3 DEF Match, Lists
<1>5. DOMAIN stack = 1..Len(stack) /\ DOMAIN interp = 1..Len(interp) /\ Len(stack) \in Nat
  BY <1>2, SMT
<1>6. Len(interp) = Cardinality(Openers) + 1
  <2>1. Opened(stack) = Openers \cup {0}
    BY DEF Opened, Openers, Opens
  <2>2. Openers \in SUBSET (1..Len(stack)) /\ 0 \notin Openers
    BY <1>5, SMT DEF Openers
  <2>3. IsFiniteSet(1..Len(stack))
    BY <1>5, FS_Interval, SMT
  <2>4. IsFiniteSet(Openers)
    BY <2>2, <2>3, FS_Subset
  <2>5. Cardinality(Openers \cup {0}) = Cardinality(Openers) + 1
    BY <2>2, <2>4, FS_AddElement
  <2> QED
    BY <1>4, <2>1, <2>5, CountAll
<1>7. depth = Cardinality(Calls)
  <2>1. PICK cs : Lists(cs, Called(stack)) /\ Len(cs) = depth
    BY <1>1 DEF Stacks
  <2> QED
    BY <2>1, CountAll DEF Called, Calls
<1>8. ASSUME NEW n \in DOMAIN interp
      PROVE  /\ Len(interp[n].frames) =
                  Cardinality({i \in Segment(n) : stack[i].framed \/ stack[i].k = "call"})
             /\ interp[n].handling =
                  [h \in 1..Cardinality({i \in Segment(n) : stack[i].k = "handler"}) |->
                     stack[CHOOSE i \in Segment(n) :
                             /\ stack[i].k = "handler"
                             /\ Cardinality({j \in Segment(n) : j <= i /\ stack[j].k = "handler"}) = h].exc]
  <2> DEFINE x == interp[n]
             lo == op[n]
             hi == Until(op, stack, n)
             F == Framing(stack, lo, hi)
             H == Handling(stack, lo, hi)
  <2>1. n \in 1..Len(op) /\ x \in Interps
    BY <1>2, <1>4, <1>5, <1>8, SMT
  <2>2. Matched(x, stack, lo, hi)
    BY <1>3, <2>1 DEF Match
  <2>3. \A i \in DOMAIN stack : i \in Segment(n) <=> lo <= i /\ i <= hi
    BY <1>2, <1>3, <2>1, SegmentIs
  <2>4. \A i \in Segment(n) : i \in DOMAIN stack
    BY DEF Segment
  <2> HIDE DEF x, lo, hi
  <2>5. {i \in Segment(n) : stack[i].framed \/ stack[i].k = "call"} = F
    BY <2>3, <2>4 DEF Framing, Holds
  <2>6. {i \in Segment(n) : stack[i].k = "handler"} = H
    BY <2>3, <2>4 DEF Handling
  <2>7. x.frames \in Seq(Frames) /\ x.handling \in Seq(Excs)
    BY <2>1 DEF Interps
  <2>8. Len(x.frames) = Cardinality(F)
    <3>1. PICK q : Lists(q, F) /\ Len(q) = Len(Es(x.frames))
      BY <2>2 DEF Matched, Follow
    <3>2. Len(Es(x.frames)) = Len(x.frames)
      BY <2>7, EsType
    <3> QED
      BY <3>1, <3>2, CountAll
  <2> HIDE DEF F
  <2> DEFINE at(h) == CHOOSE i \in Segment(n) :
                        /\ stack[i].k = "handler"
                        /\ Cardinality({j \in Segment(n) : j <= i /\ stack[j].k = "handler"}) = h
  <2>9. x.handling = [h \in 1..Cardinality(H) |-> stack[at(h)].exc]
    <3>1. PICK q : /\ Lists(q, H) /\ Len(q) = Len(x.handling)
                   /\ \A i \in 1..Len(q) : x.handling[i] = Caught(stack)[q[i]]
      BY <2>2 DEF Matched, Follow
    <3>2. Len(x.handling) = Cardinality(H)
      BY <3>1, CountAll
    <3>3. ASSUME NEW a
          PROVE  {j \in Segment(n) : j <= a /\ stack[j].k = "handler"} = {j \in H : j <= a}
      <4>1. \A j : j \in H <=> j \in Segment(n) /\ stack[j].k = "handler"
        BY <2>6
      <4> HIDE DEF H
      <4> QED
        BY <4>1
    <3>4. ASSUME NEW h \in 1..Len(q) PROVE stack[at(h)].exc = Caught(stack)[q[h]]
      <4>1. q[h] \in H /\ Cardinality({j \in H : j <= q[h]}) = h
        BY <3>1, <3>4, NthCount DEF Lists
      <4>2. q[h] \in Segment(n) /\ stack[q[h]].k = "handler"
        BY <2>6, <4>1
      <4>3. Cardinality({j \in Segment(n) : j <= q[h] /\ stack[j].k = "handler"}) = h
        BY <3>3, <4>1
      <4>4. /\ at(h) \in Segment(n) /\ stack[at(h)].k = "handler"
            /\ Cardinality({j \in Segment(n) : j <= at(h) /\ stack[j].k = "handler"}) = h
        BY <4>2, <4>3
      <4> HIDE DEF at
      <4>5. at(h) \in H
        BY <2>6, <4>4
      <4>6. Cardinality({j \in H : j <= at(h)}) = h
        BY <3>3, <4>4
      <4> HIDE DEF H
      <4>7. at(h) = q[h]
        BY <3>1, <3>4, <4>5, <4>6, NthOnly
      <4>8. q[h] \in DOMAIN stack
        BY <2>4, <4>2
      <4> QED
        BY <4>7, <4>8 DEF Caught
    <3>5. x.handling = [h \in 1..Len(x.handling) |-> x.handling[h]]
      BY <2>7, SMT
    <3> HIDE DEF H, at
    <3>6. \A h \in 1..Len(x.handling) : x.handling[h] = stack[at(h)].exc
      BY <3>1, <3>4
    <3>7. x.handling = [h \in 1..Len(x.handling) |-> stack[at(h)].exc]
      BY <3>5, <3>6
    <3> QED
      BY <3>2, <3>7
  <2> QED
    BY <2>5, <2>6, <2>8, <2>9 DEF x
<1> QED
  BY <1>1, <1>6, <1>7, <1>8 DEF StacksMatchControl

(* For any nesting of blocks, loops, handlers, calls and dynamic blocks, up *)
(* to any call depth, every way out takes back what its start put down      *)
(* (exec.rs block, handle, invoke, statement).                              *)
THEOREM FramesMatchCalls == Spec => []StacksMatchControl
<1>1. IInv => StacksMatchControl
  BY StacksMatch
<1> QED
  BY <1>1, PlSqlInvariant, PTL

(* A failed block keeps the changes made before it, or none if it ended the *)
(* transaction, however many changes and handlers came between (session.rs  *)
(* block, rollback_to).                                                     *)
THEOREM FailedBlocksAreUndone == Spec => []FailedBlockUndone
<1>1. IInv => FailedBlockUndone
  BY DEF IInv, Ledger, FailedBlockUndone
<1> QED
  BY <1>1, PlSqlInvariant, PTL

-----------------------------------------------------------------------------
LEMMA HandlerStep ==
  ASSUME IInv, Next
  PROVE  /\ Catch => target = Len(stack)
         /\ End /\ flow.k = "raise" => target = 0
         /\ Unwind => target < Len(stack)
<1>1. /\ Stacks(stack, interp, depth)
      /\ flow.k = "raise" => target = CatcherOf(stack, flow.exc)
  BY DEF IInv, Control, Aimed
<1>2. stack \in Seq(Entries) /\ Len(stack) \in Nat
  <2>1. stack \in Seq(Entries)
    BY <1>1 DEF Stacks
  <2> QED
    BY <2>1, SMT
<1> DEFINE t == CatcherOf(stack, flow.exc)
<1>3. /\ t \in AbleOf(stack, flow.exc) \cup {0} /\ t \in 0..Len(stack)
      /\ Len(stack) \in AbleOf(stack, flow.exc) => t = Len(stack)
  BY <1>2, CatcherType
<1> HIDE DEF t
<1>4. ASSUME Catch PROVE target = Len(stack)
  <2>1. stack # << >> /\ flow.k = "raise" /\ Catches
    BY <1>4 DEF Catch
  <2> QED
    BY <1>1, <1>3, <2>1, CatchesIs DEF t
<1>5. ASSUME End, flow.k = "raise" PROVE target = 0
  <2>1. Len(stack) = 0
    <3>1. stack = << >>
      BY <1>5 DEF End
    <3> QED
      BY <3>1
  <2>2. t = 0
    BY <1>3, <2>1, SMT
  <2> QED
    BY <1>1, <1>5, <2>2 DEF t
<1>6. ASSUME Unwind PROVE target < Len(stack)
  <2>1. stack # << >> /\ flow.k = "raise" /\ ~Catches
    BY <1>6 DEF Unwind
  <2>2. Len(stack) # 0
    BY <1>1, <2>1, NotEmpty
  <2>3. Len(stack) \notin AbleOf(stack, flow.exc)
    BY <1>1, <2>1, CatchesIs
  <2>4. t # Len(stack)
    BY <1>3, <2>2, <2>3
  <2>5. t < Len(stack)
    BY <1>2, <1>3, <2>4, SMT
  <2> QED
    BY <1>1, <2>1, <2>5 DEF t
<1> QED
  BY <1>4, <1>5, <1>6

(* What is caught is caught by the innermost block that ought to catch it,  *)
(* by lexical scope, across any number of blocks, routines and functions    *)
(* called from SQL; an anonymous block fails only for want of one (exec.rs  *)
(* handle, matches, block_in_frame).                                        *)
THEOREM InnermostHandlersRun == Spec => InnermostHandlerRuns
<1>1. IInv /\ [Next]_vars =>
        [/\ Catch => target = Len(stack)
         /\ End /\ flow.k = "raise" => target = 0
         /\ Unwind => target < Len(stack)]_vars
  BY HandlerStep
<1> QED
  BY <1>1, PlSqlInvariant, PTL DEF Spec, InnermostHandlerRuns

-----------------------------------------------------------------------------
LEMMA InAQuery ==
  ASSUME NEW st, NEW ip, NEW d, Stacks(st, ip, d), NEW i \in DOMAIN st, st[i].sql
  PROVE  Last(ip).host = "query"
<1>1. PICK op : Match(op, st, ip)
  BY DEF Stacks
<1>2. /\ op \in Seq(Nat) /\ Len(op) = Len(ip)
      /\ \A a, b \in 1..Len(op) : a < b => op[a] < op[b]
      /\ \A a \in Opened(st) : \E b \in 1..Len(op) : op[b] = a
  BY <1>1 DEF Match, Lists
<1>3. Len(op) \in Nat /\ \A a \in 1..Len(op) : op[a] \in Nat
  BY <1>2, SMT
<1>4. i \in 1..Len(st) /\ i \in Nat
  <2>1. st \in Seq(Entries)
    BY DEF Stacks
  <2> QED
    BY <2>1, SMT
<1>5. i \in Opened(st)
  <2>1. st[i].k = "call"
    BY <1>4 DEF Stacks, Formed
  <2> QED
    BY <2>1 DEF Opened, Opens
<1>6. PICK b \in 1..Len(op) : op[b] = i
  BY <1>2, <1>5
<1>7. Len(op) \in 1..Len(op) /\ (b = Len(op) \/ b < Len(op))
  BY <1>3, <1>6, SMT
<1>8. op[Len(op)] \in Nat /\ i <= op[Len(op)]
  <2>1. b = Len(op) \/ op[b] < op[Len(op)]
    BY <1>2, <1>7
  <2> QED
    BY <1>3, <1>4, <1>6, <1>7, <2>1, SMT
<1>9. i \in 1..op[Len(op)]
  BY <1>4, <1>8, SMT
<1>10. ip[Len(op)].host = "query"
  BY <1>1, <1>7, <1>9 DEF Match
<1> QED
  BY <1>2, <1>10 DEF Last

(* While a function called from a query runs, at any depth of calls and     *)
(* dynamic blocks below it, nothing changes the data or ends the            *)
(* transaction (exec.rs QueryHost).                                         *)
THEOREM QueriesChangeNothingEver == Spec => QueriesChangeNothing
<1>1. ASSUME IInv, Next, NEW i \in DOMAIN stack, stack[i].sql PROVE UNCHANGED <<log, moved>>
  <2>1. Stacks(stack, interp, depth)
    BY <1>1 DEF IInv, Control
  <2>2. Self.host = "query"
    BY <1>1, <2>1, InAQuery DEF Self
  <2>3. ~MayChange
    BY <2>2 DEF MayChange
  <2>4. CASE Change
    BY <2>3, <2>4 DEF Change
  <2>5. ~End
    <3>1. stack # << >>
      BY <1>1, SMT
    <3> QED
      BY <3>1 DEF End
  <2> QED
    BY <1>1, <2>4, <2>5, OnlyTwoTouchTheLog
<1>2. IInv /\ [Next]_vars =>
        [(\E i \in DOMAIN stack : stack[i].sql) => UNCHANGED <<log, moved>>]_vars
  BY <1>1
<1> QED
  BY <1>2, PlSqlInvariant, PTL DEF Spec, QueriesChangeNothing

=============================================================================
