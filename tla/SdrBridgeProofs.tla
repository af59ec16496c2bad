-------------------------- MODULE SdrBridgeProofs --------------------------
(***************************************************************************)
(* Proofs about SdrBridge: types, the addresses of the frames, and the     *)
(* waiting times of the notifications, for every age limit, every bound on *)
(* the channel, and rate limits no looser than the code's.                 *)
(***************************************************************************)
EXTENDS SdrBridge, FiniteSetTheorems, SequenceTheorems, TLAPS

-----------------------------------------------------------------------------
(* Counting notifications.                                                 *)

(* A count is one of a finite set. *)
LEMMA CountType ==
  ASSUME NEW q, NEW k, NEW n \in Nat
  PROVE  IsFiniteSet({i \in 1 .. n : q[i] = k}) /\ Count(q, k, n) \in 0 .. n
<1> DEFINE chosen == {i \in 1 .. n : q[i] = k}
<1>1. IsFiniteSet(1 .. n) /\ Cardinality(1 .. n) = n
  BY FS_Interval
<1>2. chosen \in SUBSET (1 .. n)
  OBVIOUS
<1> HIDE DEF chosen
<1>3. IsFiniteSet(chosen) /\ Cardinality(chosen) <= n
  BY <1>1, <1>2, FS_Subset
<1>4. Cardinality(chosen) \in Nat
  BY <1>3, FS_CardinalityType
<1> QED
  BY <1>3, <1>4 DEF chosen, Count

(* The same without the set. *)
LEMMA CountNat ==
  ASSUME NEW q, NEW k, NEW n \in Nat
  PROVE  Count(q, k, n) \in Nat /\ Count(q, k, n) <= n
<1>1. Count(q, k, n) \in 0 .. n
  BY CountType
<1> QED
  BY <1>1

(* Of none there is none. *)
LEMMA CountNone ==
  ASSUME NEW q, NEW k
  PROVE  Count(q, k, 0) = 0
<1>1. {i \in 1 .. 0 : q[i] = k} = {}
  OBVIOUS
<1> QED
  BY <1>1, FS_EmptySet DEF Count

(* One more element counts if it is of the kind. *)
LEMMA CountNext ==
  ASSUME NEW q, NEW k, NEW n \in Nat
  PROVE  Count(q, k, n + 1) = Count(q, k, n) + (IF q[n + 1] = k THEN 1 ELSE 0)
<1> DEFINE first == {i \in 1 .. n : q[i] = k}
           more == {i \in 1 .. n + 1 : q[i] = k}
<1>1. IsFiniteSet(first) /\ n + 1 \notin first /\ Cardinality(first) \in Nat
  <2>1. IsFiniteSet(first) /\ Count(q, k, n) \in 0 .. n
    BY CountType
  <2>2. Cardinality(first) \in 0 .. n
    BY <2>1 DEF Count
  <2> QED
    BY <2>1, <2>2
<1>2. CASE q[n + 1] = k
  <2>1. more = first \cup {n + 1}
    BY <1>2
  <2> HIDE DEF first, more
  <2>2. Cardinality(more) = Cardinality(first) + 1
    BY <1>1, <2>1, FS_AddElement
  <2> QED
    BY <1>2, <2>2 DEF Count, first, more
<1>3. CASE q[n + 1] # k
  <2>1. more = first
    BY <1>3
  <2> QED
    BY <1>1, <1>3, <2>1 DEF Count
<1> QED
  BY <1>2, <1>3

(* Only the elements counted matter. *)
LEMMA CountSame ==
  ASSUME NEW p, NEW q, NEW k, NEW n \in Nat, \A i \in 1 .. n : p[i] = q[i]
  PROVE  Count(p, k, n) = Count(q, k, n)
<1>1. {i \in 1 .. n : p[i] = k} = {i \in 1 .. n : q[i] = k}
  OBVIOUS
<1> QED
  BY <1>1 DEF Count

(* The first element counts if it is of the kind. *)
LEMMA CountShift ==
  ASSUME NEW p, NEW q, NEW k, NEW n \in Nat, \A i \in 1 .. n : p[i] = q[i + 1]
  PROVE  Count(q, k, n + 1) = Count(p, k, n) + (IF q[1] = k THEN 1 ELSE 0)
<1> DEFINE short == {i \in 1 .. n : p[i] = k}
           behind == {i \in 2 .. n + 1 : q[i] = k}
           all == {i \in 1 .. n + 1 : q[i] = k}
           shift == [i \in short |-> i + 1]
<1>1. IsFiniteSet(short) /\ Cardinality(short) \in Nat
  <2>1. IsFiniteSet(short) /\ Count(p, k, n) \in 0 .. n
    BY CountType
  <2>2. Cardinality(short) \in 0 .. n
    BY <2>1 DEF Count
  <2> QED
    BY <2>1, <2>2
<1>2. shift \in Bijection(short, behind)
  <2>1. ASSUME NEW i \in short PROVE shift[i] \in behind
    BY <2>1
  <2>2. shift \in Injection(short, behind)
    BY <2>1 DEF Injection, IsInjective
  <2>3. ASSUME NEW j \in behind PROVE \E i \in short : shift[i] = j
    <3>1. j - 1 \in 1 .. n /\ (j - 1) + 1 = j
      BY <2>3
    <3>2. p[j - 1] = q[j]
      BY <3>1
    <3>3. j - 1 \in short
      BY <2>3, <3>1, <3>2
    <3> QED
      BY <3>1, <3>3
  <2> QED
    BY <2>1, <2>2, <2>3 DEF Bijection, Surjection
<1>3. IsFiniteSet(behind) /\ Cardinality(behind) = Cardinality(short)
  <2> HIDE DEF short, behind, shift
  <2> QED
    BY <1>1, <1>2, FS_Bijection DEF ExistsBijection
<1>4. 1 \notin behind
  OBVIOUS
<1>5. CASE q[1] = k
  <2>1. all = behind \cup {1}
    BY <1>5
  <2> HIDE DEF short, behind, all
  <2>2. Cardinality(all) = Cardinality(behind) + 1
    BY <1>3, <1>4, <2>1, FS_AddElement
  <2> QED
    BY <1>3, <1>5, <2>2 DEF Count, short, all
<1>6. CASE q[1] # k
  <2>1. all = behind
    BY <1>6
  <2> HIDE DEF behind
  <2> QED
    BY <1>1, <1>3, <1>6, <2>1 DEF Count
<1> QED
  BY <1>5, <1>6

-----------------------------------------------------------------------------
(* The work that waits in the channel.                                     *)

\* Cost, with the number of targets.
Ticks(kind) == IF kind = "broadcast" THEN 6 ELSE 1

\* The work of the first n notifications.
Work(q, n) == n + 5 * Count(q, "broadcast", n)

(* The work of n notifications is at least n ticks. *)
LEMMA WorkType ==
  ASSUME NEW q, NEW n \in Nat
  PROVE  Work(q, n) \in Nat /\ Work(q, n) >= n
<1>1. Count(q, "broadcast", n) \in Nat
  BY CountNat
<1> QED
  BY <1>1 DEF Work

(* It grows by the work of the kind. *)
LEMMA WorkMore ==
  ASSUME NEW p, NEW q, NEW n \in Nat, NEW m \in Nat, NEW k,
         Count(q, "broadcast", m) = Count(p, "broadcast", n) + (IF k = "broadcast" THEN 1 ELSE 0),
         m = n + 1
  PROVE  Work(q, m) = Work(p, n) + Ticks(k)
<1>1. Count(p, "broadcast", n) \in Nat
  BY CountNat
<1>2. CASE k = "broadcast"
  BY <1>1, <1>2 DEF Work, Ticks
<1>3. CASE k # "broadcast"
  BY <1>1, <1>3 DEF Work, Ticks
<1> QED
  BY <1>2, <1>3

(* Ahead is what is left of the frame or broadcast under way and the work  *)
(* that waits.                                                             *)
LEMMA AheadIsWork ==
  ASSUME NEW n \in Nat, Remaining \in Nat
  PROVE  Ahead(n) = Remaining + Work(queue, n)
<1> DEFINE casts == Count(queue, "broadcast", n)
           under == Remaining
<1>1. Cost("broadcast") = 6 /\ Cost("minimap") = 1
  BY DEF Cost, Targets
<1>2. casts \in Nat /\ under \in Nat
  BY CountNat
<1>3. Ahead(n) = under + 6 * casts + 1 * (n - casts)
  BY <1>1 DEF Ahead
<1>4. Work(queue, n) = n + 5 * casts
  BY DEF Work
<1> HIDE DEF casts, under
<1>5. Ahead(n) = under + Work(queue, n)
  BY <1>2, <1>3, <1>4
<1> QED
  BY <1>5 DEF under

(* A notification more: p is q with k behind it. *)
LEMMA PushedCount ==
  ASSUME NEW q, NEW p, NEW len \in Nat, NEW k, NEW kind,
         p[len + 1] = k, \A i \in 1 .. len : p[i] = q[i]
  PROVE  Count(p, kind, len + 1) = Count(q, kind, len) + (IF k = kind THEN 1 ELSE 0)
<1>1. Count(p, kind, len) = Count(q, kind, len)
  BY CountSame
<1>2. Count(p, kind, len + 1) = Count(p, kind, len) + (IF p[len + 1] = kind THEN 1 ELSE 0)
  BY CountNext
<1> QED
  BY <1>1, <1>2

LEMMA PushedWork ==
  ASSUME NEW q, NEW p, NEW len \in Nat, NEW k,
         p[len + 1] = k, \A i \in 1 .. len : p[i] = q[i]
  PROVE  Work(p, len + 1) = Work(q, len) + Ticks(k)
<1>1. Count(p, "broadcast", len + 1)
        = Count(q, "broadcast", len) + (IF k = "broadcast" THEN 1 ELSE 0)
  BY PushedCount
<1> QED
  BY <1>1, WorkMore

(* What waited before counts as before. *)
LEMMA KeptCounts ==
  ASSUME NEW q, NEW p, NEW len \in Nat, \A i \in 1 .. len : p[i] = q[i], NEW n \in 0 .. len
  PROVE  Work(p, n) = Work(q, n) /\ Count(p, "minimap", n) = Count(q, "minimap", n)
<1>1. n \in Nat /\ \A i \in 1 .. n : p[i] = q[i]
  OBVIOUS
<1> QED
  BY <1>1, CountSame DEF Work

(* A notification less: rest is q without its first. *)
LEMMA TakeCounts ==
  ASSUME NEW q, NEW rest, NEW n \in Nat, \A i \in 1 .. n : rest[i] = q[i + 1]
  PROVE  /\ Work(q, n + 1) = Work(rest, n) + Ticks(q[1])
         /\ Count(q, "minimap", n + 1)
              = Count(rest, "minimap", n) + (IF q[1] = "minimap" THEN 1 ELSE 0)
<1>1. ASSUME NEW kind
      PROVE  Count(q, kind, n + 1) = Count(rest, kind, n) + (IF q[1] = kind THEN 1 ELSE 0)
  BY CountShift
<1>2. Count(q, "broadcast", n + 1)
        = Count(rest, "broadcast", n) + (IF q[1] = "broadcast" THEN 1 ELSE 0)
  BY <1>1
<1> QED
  BY <1>1, <1>2, WorkMore

-----------------------------------------------------------------------------
(* The rate limits as a budget.                                            *)

\* The code's limits, or tighter ones on the broadcast and the decision, and a wait
\* no shorter than the one claimed.
Limits ==
  /\ BroadcastPeriod >= 20 /\ MinimapPeriod = 4 /\ DecisionPeriod >= 20
  /\ MaxWait >= 8

\* Minimap notifications behind the i-th.
Behind(q, i) == Count(q, "minimap", Len(q)) - Count(q, "minimap", i)

AtMost(x, most) == IF x < most THEN x ELSE most

\* Work that waits and stamps that have recovered so far: a limit lets 6 ticks of
\* work through in 20, 1 in 4, 1 in 20, which is 12 / 20 of the transmitter's time,
\* and 8 ticks if all three are due at once.
Within(work, b, m, d) == 20 * work + 6 * b + 5 * m + d <= 160

\* A minimap notification is not waited for longer than 8 ticks, it has waited for
\* at least as long as those behind it are apart, ...
Soon(work, behind, m) == work + 4 * behind + m <= 8

\* ... and the coordinates are older than at its test by the time that it waited.
Young(age, work) == timed => age + work < FreshLimit + 8

\* Of the channel q, the stamps s, the work r under way and the age c.
Timely(q, s, r, c) ==
  /\ Within(r + Work(q, Len(q)), AtMost(s["broadcast"], 20), s["minimap"],
            AtMost(s["decision"], 20))
  /\ \A i \in DOMAIN q : q[i] = "minimap" =>
       Soon(r + Work(q, i), Behind(q, i), s["minimap"]) /\ Young(c, r + Work(q, i))

Stamps == {s \in [Kind -> Nat] : \A k \in Kind : s[k] <= Period[k]}

LEMMA StampType ==
  ASSUME NEW s \in Stamps
  PROVE  /\ s["broadcast"] \in Nat /\ s["minimap"] \in Nat /\ s["decision"] \in Nat
         /\ s["minimap"] <= MinimapPeriod
  BY DEF Stamps, Kind, Period

LEMMA BehindType ==
  ASSUME NEW q \in Seq(Kind), NEW i \in DOMAIN q
  PROVE  Behind(q, i) \in Int
<1>1. i \in Nat /\ Len(q) \in Nat
  OBVIOUS
<1>2. Count(q, "minimap", i) \in Nat /\ Count(q, "minimap", Len(q)) \in Nat
  BY <1>1, CountNat
<1> QED
  BY <1>2 DEF Behind

LEMMA AtMostType ==
  ASSUME NEW x \in Nat
  PROVE  AtMost(x, 20) \in Nat /\ AtMost(x, 20) <= 20 /\ (x >= 20 => AtMost(x, 20) = 20)
  BY DEF AtMost

LEMMA AtMostNext ==
  ASSUME NEW x \in Nat, NEW y \in Nat, y <= x + 1
  PROVE  AtMost(y, 20) <= AtMost(x, 20) + 1
  BY DEF AtMost

(* A limit that lets a notification through spends what it had saved. *)
LEMMA WithinSpent ==
  ASSUME NEW u \in Nat, NEW b \in Nat, NEW m \in Nat, NEW d \in Nat
  PROVE  /\ Within(u, 20, m, d) => Within(u + 6, 0, m, d)
         /\ Within(u, b, 4, d) => Within(u + 1, b, 0, d)
         /\ Within(u, b, m, 20) => Within(u + 1, b, m, 0)
  BY DEF Within

(* A tick works off 20 and lets 12 recover. *)
LEMMA WithinTick ==
  ASSUME NEW u \in Nat, NEW b \in Nat, NEW m \in Nat, NEW d \in Nat, Within(u, b, m, d),
         NEW v \in Nat, v + 1 <= u,
         NEW b2 \in Nat, NEW m2 \in Nat, NEW d2 \in Nat,
         b2 <= b + 1, m2 <= m + 1, d2 <= d + 1
  PROVE  Within(v, b2, m2, d2)
  BY DEF Within

LEMMA WithinLess ==
  ASSUME NEW u \in Nat, NEW b \in Nat, NEW m \in Nat, NEW d \in Nat, Within(u, b, m, d),
         NEW v \in Nat, v <= u
  PROVE  Within(v, b, m, d)
  BY DEF Within

LEMMA WithinEmpty ==
  ASSUME NEW b \in Nat, NEW m \in Nat, NEW d \in Nat, b <= 20, m <= 4, d <= 20
  PROVE  Within(0, b, m, d)
  BY DEF Within

LEMMA WithinBound ==
  ASSUME NEW u \in Nat, NEW b \in Nat, NEW m \in Nat, NEW d \in Nat, Within(u, b, m, d)
  PROVE  u <= 8
  BY DEF Within

LEMMA SoonNext ==
  ASSUME NEW u \in Nat, NEW x \in Int, Soon(u, x, 4)
  PROVE  Soon(u, x + 1, 0)
  BY DEF Soon

LEMMA SoonLess ==
  ASSUME NEW u \in Nat, NEW x \in Int, NEW m \in Nat, Soon(u, x, m),
         NEW v \in Nat, NEW m2 \in Nat, v + m2 <= u + m
  PROVE  Soon(v, x, m2)
  BY DEF Soon

LEMMA YoungLess ==
  ASSUME NEW a \in Nat, NEW u \in Nat, Young(a, u), NEW o \in Nat, NEW v \in Nat, o + v <= a + u
  PROVE  Young(o, v)
  BY BridgeAssumption DEF Young

(* A notification that its limit lets through, of fresh coordinates if it  *)
(* is one of the minimap.                                                  *)
LEMMA PushTimely ==
  ASSUME Limits, NEW q \in Seq(Kind), NEW s \in Stamps, NEW r \in Nat, NEW c \in Nat,
         Timely(q, s, r, c), NEW k \in Kind, s[k] = Period[k],
         k = "minimap" /\ timed => c < FreshLimit
  PROVE  Timely(Append(q, k), [s EXCEPT ![k] = 0], r, c)
<1> DEFINE more == Append(q, k)
           z == [s EXCEPT ![k] = 0]
           len == Len(q)
           b == AtMost(s["broadcast"], 20)
           m == s["minimap"]
           d == AtMost(s["decision"], 20)
<1>1. /\ len \in Nat /\ Len(more) = len + 1 /\ DOMAIN more = 1 .. len + 1 /\ DOMAIN q = 1 .. len
      /\ more[len + 1] = k /\ \A i \in 1 .. len : more[i] = q[i]
  OBVIOUS
<1>2. /\ Within(r + Work(q, len), b, m, d)
      /\ \A i \in 1 .. len : q[i] = "minimap" =>
           Soon(r + Work(q, i), Behind(q, i), m) /\ Young(c, r + Work(q, i))
  BY <1>1 DEF Timely
<1>3. b \in Nat /\ m \in Nat /\ d \in Nat
  BY StampType, AtMostType
<1>4. /\ Behind(more, len + 1) = Count(more, "minimap", len + 1) - Count(more, "minimap", len + 1)
      /\ \A i \in 1 .. len :
           /\ Behind(more, i) = Count(more, "minimap", len + 1) - Count(more, "minimap", i)
           /\ Behind(q, i) = Count(q, "minimap", len) - Count(q, "minimap", i)
           /\ Behind(q, i) \in Int
  BY <1>1, BehindType DEF Behind
<1>5. /\ AtMost(z["broadcast"], 20) = IF k = "broadcast" THEN 0 ELSE b
      /\ z["minimap"] = IF k = "minimap" THEN 0 ELSE m
      /\ AtMost(z["decision"], 20) = IF k = "decision" THEN 0 ELSE d
  BY DEF Stamps, Kind, AtMost
<1>6. /\ k = "broadcast" => b = 20
      /\ k = "minimap" => m = 4
      /\ k = "decision" => d = 20
  <2>1. BroadcastPeriod >= 20 /\ DecisionPeriod >= 20 /\ MinimapPeriod = 4
        /\ BroadcastPeriod \in Nat /\ DecisionPeriod \in Nat
    BY BridgeAssumption DEF Limits
  <2>2. ASSUME k = "broadcast" PROVE b = 20
    BY <2>1, <2>2, AtMostType DEF Period
  <2>3. ASSUME k = "minimap" PROVE m = 4
    BY <2>1, <2>3 DEF Period
  <2>4. ASSUME k = "decision" PROVE d = 20
    BY <2>1, <2>4, AtMostType DEF Period
  <2> QED
    BY <2>2, <2>3, <2>4
<1>7. /\ Work(more, len + 1) = Work(q, len) + Ticks(k)
      /\ Count(more, "minimap", len + 1)
           = Count(q, "minimap", len) + (IF k = "minimap" THEN 1 ELSE 0)
      /\ \A n \in 0 .. len : /\ Work(more, n) = Work(q, n)
                             /\ Count(more, "minimap", n) = Count(q, "minimap", n)
  <2>1. len \in Nat /\ more[len + 1] = k /\ \A i \in 1 .. len : more[i] = q[i]
    BY <1>1
  <2> HIDE DEF more, len, z, b, m, d
  <2>2. Work(more, len + 1) = Work(q, len) + Ticks(k)
    BY <2>1, PushedWork
  <2>3. Count(more, "minimap", len + 1)
          = Count(q, "minimap", len) + (IF k = "minimap" THEN 1 ELSE 0)
    BY <2>1, PushedCount
  <2>4. \A n \in 0 .. len : /\ Work(more, n) = Work(q, n)
                            /\ Count(more, "minimap", n) = Count(q, "minimap", n)
    BY <2>1, KeptCounts
  <2> QED
    BY <2>2, <2>3, <2>4
<1>8. ASSUME NEW n \in 0 .. len + 1
      PROVE  Work(q, n) \in Nat /\ Count(q, "minimap", n) \in Nat /\ r + Work(q, n) \in Nat
  <2>1. n \in Nat
    BY <1>1
  <2> QED
    BY <2>1, WorkType, CountNat
<1> HIDE DEF more, len, z, b, m, d
<1>9. Within(r + Work(more, len + 1), AtMost(z["broadcast"], 20), z["minimap"],
             AtMost(z["decision"], 20))
  <2> DEFINE u == r + Work(q, len)
  <2>1. u \in Nat
    BY <1>1, <1>8
  <2>2. r + Work(more, len + 1) = u + Ticks(k)
    <3>1. Work(q, len) \in Nat /\ Ticks(k) \in Nat
      BY <1>1, <1>8 DEF Ticks
    <3> QED
      BY <1>7, <3>1
  <2>3. Within(u, b, m, d)
    BY <1>2
  <2> HIDE DEF u
  <2>4. CASE k = "broadcast"
    <3>1. Ticks(k) = 6
      BY <2>4 DEF Ticks
    <3> QED
      BY <1>3, <1>5, <1>6, <2>1, <2>2, <2>3, <2>4, <3>1, WithinSpent
  <2>5. CASE k = "minimap"
    <3>1. Ticks(k) = 1
      BY <2>5 DEF Ticks
    <3> QED
      BY <1>3, <1>5, <1>6, <2>1, <2>2, <2>3, <2>5, <3>1, WithinSpent
  <2>6. CASE k = "decision"
    <3>1. Ticks(k) = 1
      BY <2>6 DEF Ticks
    <3> QED
      BY <1>3, <1>5, <1>6, <2>1, <2>2, <2>3, <2>6, <3>1, WithinSpent
  <2> QED
    BY <2>4, <2>5, <2>6 DEF Kind
<1>10. ASSUME NEW i \in 1 .. len, more[i] = "minimap"
       PROVE  Soon(r + Work(more, i), Behind(more, i), z["minimap"]) /\ Young(c, r + Work(more, i))
  <2>1. i \in 0 .. len /\ i \in 0 .. len + 1 /\ len \in 0 .. len /\ len \in 0 .. len + 1
    BY <1>1
  <2>2. /\ q[i] = "minimap" /\ Work(more, i) = Work(q, i)
        /\ Count(more, "minimap", i) = Count(q, "minimap", i)
    BY <1>1, <1>7, <1>10, <2>1
  <2>3. Soon(r + Work(q, i), Behind(q, i), m) /\ Young(c, r + Work(q, i))
    BY <1>2, <2>2
  <2>4. Behind(more, i) = Behind(q, i) + (IF k = "minimap" THEN 1 ELSE 0)
    <3>1. Count(q, "minimap", len) \in Nat /\ Count(q, "minimap", i) \in Nat
      BY <1>8, <2>1
    <3> QED
      BY <1>4, <1>7, <2>2, <3>1
  <2>5. Behind(q, i) \in Int /\ r + Work(q, i) \in Nat
    BY <1>4, <1>8, <2>1
  <2>6. CASE k = "minimap"
    <3>1. Soon(r + Work(q, i), Behind(q, i) + 1, 0)
      BY <1>6, <2>3, <2>5, <2>6, SoonNext
    <3> QED
      BY <1>5, <2>2, <2>3, <2>4, <2>6, <3>1
  <2>7. CASE k # "minimap"
    <3>1. Behind(more, i) = Behind(q, i)
      BY <2>4, <2>5, <2>7
    <3> QED
      BY <1>5, <2>2, <2>3, <2>7, <3>1
  <2> QED
    BY <2>6, <2>7
<1>11. ASSUME k = "minimap"
       PROVE  /\ Soon(r + Work(more, len + 1), Behind(more, len + 1), z["minimap"])
              /\ Young(c, r + Work(more, len + 1))
  <2> DEFINE u == r + Work(more, len + 1)
  <2>1. u \in Nat
    BY <1>1, WorkType
  <2>2. u <= 8
    <3>1. Within(u, b, 0, d)
      BY <1>5, <1>9, <1>11
    <3> HIDE DEF u
    <3> QED
      BY <1>3, <2>1, <3>1, WithinBound
  <2>3. Count(more, "minimap", len + 1) \in Nat
    BY <1>1, CountNat
  <2>4. Behind(more, len + 1) = 0 /\ z["minimap"] = 0
    BY <1>4, <1>5, <1>11, <2>3
  <2> HIDE DEF u
  <2>5. Soon(u, 0, 0)
    BY <2>1, <2>2 DEF Soon
  <2>6. Young(c, u)
    BY <1>11, <2>1, <2>2, BridgeAssumption DEF Young
  <2> QED
    BY <2>4, <2>5, <2>6 DEF u
<1>12. ASSUME NEW i \in DOMAIN more, more[i] = "minimap"
       PROVE  Soon(r + Work(more, i), Behind(more, i), z["minimap"]) /\ Young(c, r + Work(more, i))
  <2>1. i \in 1 .. len \/ i = len + 1
    BY <1>1
  <2> QED
    BY <1>1, <1>10, <1>11, <1>12, <2>1
<1>13. Timely(more, z, r, c)
  BY <1>1, <1>9, <1>12 DEF Timely
<1> QED
  BY <1>13 DEF more, z

(* Younger coordinates. *)
LEMMA YoungerTimely ==
  ASSUME NEW q \in Seq(Kind), NEW s, NEW r \in Nat, NEW c \in Nat, NEW a \in 0 .. c,
         Timely(q, s, r, c)
  PROVE  Timely(q, s, r, a)
<1>1. ASSUME NEW i \in DOMAIN q, Young(c, r + Work(q, i))
      PROVE  Young(a, r + Work(q, i))
  <2>1. i \in Nat
    OBVIOUS
  <2>2. r + Work(q, i) \in Nat
    BY <2>1, WorkType
  <2> QED
    BY <1>1, <2>2, YoungLess
<1> QED
  BY <1>1 DEF Timely

(* Less work under way. *)
LEMMA LessTimely ==
  ASSUME NEW q \in Seq(Kind), NEW s \in Stamps, NEW r \in Nat, NEW c \in Nat,
         Timely(q, s, r, c), NEW w \in Nat, w <= r
  PROVE  Timely(q, s, w, c)
<1>1. ASSUME NEW n \in Nat
      PROVE  r + Work(q, n) \in Nat /\ w + Work(q, n) \in Nat /\ w + Work(q, n) <= r + Work(q, n)
  BY WorkType
<1>2. Len(q) \in Nat /\ \A i \in DOMAIN q : i \in Nat
  OBVIOUS
<1>3. Within(w + Work(q, Len(q)), AtMost(s["broadcast"], 20), s["minimap"],
             AtMost(s["decision"], 20))
  BY <1>1, <1>2, StampType, AtMostType, WithinLess DEF Timely
<1>4. ASSUME NEW i \in DOMAIN q, q[i] = "minimap"
      PROVE  Soon(w + Work(q, i), Behind(q, i), s["minimap"]) /\ Young(c, w + Work(q, i))
  <2> DEFINE u == r + Work(q, i)
             v == w + Work(q, i)
  <2>1. u \in Nat /\ v \in Nat /\ v <= u
    BY <1>1, <1>2
  <2>2. Soon(u, Behind(q, i), s["minimap"]) /\ Young(c, u)
    BY <1>4 DEF Timely
  <2> HIDE DEF u, v
  <2>3. v + s["minimap"] <= u + s["minimap"] /\ c + v <= c + u
    BY <2>1, StampType
  <2>4. Soon(v, Behind(q, i), s["minimap"])
    BY <2>1, <2>2, <2>3, StampType, BehindType, SoonLess
  <2>5. Young(c, v)
    BY <2>1, <2>2, <2>3, YoungLess
  <2> QED
    BY <2>4, <2>5 DEF v
<1> QED
  BY <1>3, <1>4 DEF Timely

(* The transmitter takes a notification and does the work it asked for. *)
LEMMA TakeTimely ==
  ASSUME NEW q \in Seq(Kind), q # <<>>, NEW s \in Stamps, NEW c \in Nat,
         Timely(q, s, 0, c), NEW r \in 0 .. Ticks(Head(q))
  PROVE  Timely(Tail(q), s, r, c)
<1> DEFINE rest == Tail(q)
           len == Len(q) - 1
           b == AtMost(s["broadcast"], 20)
           m == s["minimap"]
           d == AtMost(s["decision"], 20)
<1>1. /\ len \in Nat /\ Len(q) = len + 1 /\ Len(rest) = len
      /\ DOMAIN q = 1 .. len + 1 /\ DOMAIN rest = 1 .. len
      /\ \A i \in 1 .. len : rest[i] = q[i + 1]
      /\ Head(q) = q[1]
  OBVIOUS
<1>2. r \in Nat /\ r <= Ticks(q[1]) /\ Ticks(q[1]) \in Nat
  BY <1>1 DEF Ticks
<1>3. b \in Nat /\ m \in Nat /\ d \in Nat
  BY StampType, AtMostType
<1>4. /\ Within(0 + Work(q, len + 1), b, m, d)
      /\ \A i \in 1 .. len + 1 : q[i] = "minimap" =>
           Soon(0 + Work(q, i), Behind(q, i), m) /\ Young(c, 0 + Work(q, i))
  BY <1>1 DEF Timely
<1>5. \A i \in 1 .. len :
        /\ Behind(rest, i) = Count(rest, "minimap", len) - Count(rest, "minimap", i)
        /\ Behind(q, i + 1) = Count(q, "minimap", len + 1) - Count(q, "minimap", i + 1)
        /\ Behind(q, i + 1) \in Int
  BY <1>1, BehindType DEF Behind
<1> HIDE DEF rest, len, b, m, d
<1>6. ASSUME NEW n \in 0 .. len
      PROVE  /\ Work(q, n + 1) = Work(rest, n) + Ticks(q[1])
             /\ Count(q, "minimap", n + 1)
                  = Count(rest, "minimap", n) + (IF q[1] = "minimap" THEN 1 ELSE 0)
             /\ Work(rest, n) \in Nat /\ Count(rest, "minimap", n) \in Nat
             /\ r + Work(rest, n) <= 0 + Work(q, n + 1)
             /\ r + Work(rest, n) \in Nat /\ 0 + Work(q, n + 1) \in Nat
  <2>1. n \in Nat /\ \A i \in 1 .. n : rest[i] = q[i + 1]
    BY <1>1
  <2>2. /\ Work(q, n + 1) = Work(rest, n) + Ticks(q[1])
        /\ Count(q, "minimap", n + 1)
             = Count(rest, "minimap", n) + (IF q[1] = "minimap" THEN 1 ELSE 0)
    BY <2>1, TakeCounts
  <2>3. Work(rest, n) \in Nat /\ Count(rest, "minimap", n) \in Nat
    BY <2>1, WorkType, CountNat
  <2> QED
    BY <1>2, <2>2, <2>3
<1>7. Within(r + Work(rest, len), b, m, d)
  <2>1. len \in 0 .. len
    BY <1>1
  <2> QED
    BY <1>3, <1>4, <1>6, <2>1, WithinLess
<1>8. ASSUME NEW i \in 1 .. len, rest[i] = "minimap"
      PROVE  Soon(r + Work(rest, i), Behind(rest, i), m) /\ Young(c, r + Work(rest, i))
  <2>1. i \in 0 .. len /\ len \in 0 .. len /\ i + 1 \in 1 .. len + 1 /\ q[i + 1] = "minimap"
    BY <1>1, <1>8
  <2>2. Soon(0 + Work(q, i + 1), Behind(q, i + 1), m) /\ Young(c, 0 + Work(q, i + 1))
    BY <1>4, <2>1
  <2>3. Behind(rest, i) = Behind(q, i + 1) /\ Behind(q, i + 1) \in Int
    <3>1. Count(rest, "minimap", i) \in Nat /\ Count(rest, "minimap", len) \in Nat
      BY <1>6, <2>1
    <3>2. /\ Count(q, "minimap", i + 1)
               = Count(rest, "minimap", i) + (IF q[1] = "minimap" THEN 1 ELSE 0)
          /\ Count(q, "minimap", len + 1)
               = Count(rest, "minimap", len) + (IF q[1] = "minimap" THEN 1 ELSE 0)
      BY <1>6, <2>1
    <3> QED
      BY <1>5, <3>1, <3>2
  <2> DEFINE u == 0 + Work(q, i + 1)
             v == r + Work(rest, i)
  <2>4. v \in Nat /\ u \in Nat /\ v <= u
    BY <1>6, <2>1
  <2>5. Soon(u, Behind(rest, i), m) /\ Young(c, u)
    BY <2>2, <2>3
  <2> HIDE DEF u, v
  <2>6. v + m <= u + m /\ c + v <= c + u
    BY <1>3, <2>4
  <2>7. Soon(v, Behind(rest, i), m)
    BY <1>3, <2>3, <2>4, <2>5, <2>6, SoonLess
  <2>8. Young(c, v)
    BY <2>4, <2>5, <2>6, YoungLess
  <2> QED
    BY <2>7, <2>8 DEF v
<1>9. Timely(rest, s, r, c)
  BY <1>1, <1>7, <1>8 DEF Timely, b, m, d
<1> QED
  BY <1>9 DEF rest

(* A tick: something is worked on, or nothing waits. *)
LEMMA TickTimely ==
  ASSUME Limits, NEW q \in Seq(Kind), NEW s \in Stamps, NEW r \in Nat, NEW c \in Nat,
         Timely(q, s, r, c), NEW z \in Stamps,
         \A k \in Kind : z[k] <= s[k] + 1,
         NEW o \in 0 .. c + 1,
         NEW w \in Nat, r = 0 => q = <<>> /\ w = 0, r # 0 => w + 1 <= r
  PROVE  Timely(q, z, w, o)
<1> DEFINE b == AtMost(s["broadcast"], 20)
           m == s["minimap"]
           d == AtMost(s["decision"], 20)
           b2 == AtMost(z["broadcast"], 20)
           m2 == z["minimap"]
           d2 == AtMost(z["decision"], 20)
<1>1. /\ b \in Nat /\ m \in Nat /\ d \in Nat /\ b2 \in Nat /\ m2 \in Nat /\ d2 \in Nat
      /\ b2 <= 20 /\ m2 <= 4 /\ d2 <= 20
  BY StampType, AtMostType DEF Limits
<1>2. b2 <= b + 1 /\ m2 <= m + 1 /\ d2 <= d + 1
  <2>1. z["broadcast"] <= s["broadcast"] + 1 /\ z["minimap"] <= s["minimap"] + 1
        /\ z["decision"] <= s["decision"] + 1
    BY DEF Kind
  <2> QED
    BY <2>1, StampType, AtMostNext
<1>3. /\ Within(r + Work(q, Len(q)), b, m, d)
      /\ \A i \in DOMAIN q : q[i] = "minimap" =>
           Soon(r + Work(q, i), Behind(q, i), m) /\ Young(c, r + Work(q, i))
  BY DEF Timely
<1> HIDE DEF b, m, d, b2, m2, d2
<1>4. CASE r = 0
  <2>1. q = <<>> /\ w = 0 /\ Len(q) = 0 /\ DOMAIN q = {}
    BY <1>4
  <2>2. w + Work(q, Len(q)) = 0
    BY <2>1, CountNone DEF Work
  <2>3. Within(w + Work(q, Len(q)), b2, m2, d2)
    BY <1>1, <2>2, WithinEmpty
  <2> QED
    BY <2>1, <2>3 DEF Timely, b2, m2, d2
<1>5. CASE r # 0
  <2>1. w + 1 <= r
    BY <1>5
  <2>2. ASSUME NEW n \in Nat
        PROVE  /\ r + Work(q, n) \in Nat /\ w + Work(q, n) \in Nat
               /\ (w + Work(q, n)) + 1 <= r + Work(q, n)
    BY <2>1, WorkType
  <2>3. Within(w + Work(q, Len(q)), b2, m2, d2)
    <3>1. Len(q) \in Nat
      OBVIOUS
    <3> QED
      BY <1>1, <1>2, <1>3, <2>2, <3>1, WithinTick
  <2>4. ASSUME NEW i \in DOMAIN q, q[i] = "minimap"
        PROVE  Soon(w + Work(q, i), Behind(q, i), m2) /\ Young(o, w + Work(q, i))
    <3> DEFINE u == r + Work(q, i)
               v == w + Work(q, i)
    <3>1. i \in Nat
      OBVIOUS
    <3>2. u \in Nat /\ v \in Nat /\ v + 1 <= u
      BY <2>2, <3>1
    <3>3. Soon(u, Behind(q, i), m) /\ Young(c, u)
      BY <1>3, <2>4
    <3> HIDE DEF u, v
    <3>4. v + m2 <= u + m /\ o + v <= c + u /\ o \in Nat
      BY <1>1, <1>2, <3>2
    <3>5. Soon(v, Behind(q, i), m2)
      BY <1>1, <3>2, <3>3, <3>4, BehindType, SoonLess
    <3>6. Young(o, v)
      BY <3>2, <3>3, <3>4, YoungLess
    <3> QED
      BY <3>5, <3>6 DEF v
  <2> QED
    BY <2>3, <2>4 DEF Timely, b2, m2, d2
<1> QED
  BY <1>4, <1>5

-----------------------------------------------------------------------------
(* The addresses.                                                          *)

(* Two bytes and two bytes and two bytes. *)
LEMMA SixBytes ==
  ASSUME NEW a \in Nat, NEW b \in Nat, NEW c \in Nat, NEW d \in Nat, NEW e \in Nat, NEW f \in Nat,
         NEW w, w = <<a, b>> \o <<c, d>> \o <<e, f>>
  PROVE  w[1] = a /\ w[2] = b /\ w[3] = c /\ w[4] = d /\ w[5] = e /\ w[6] = f
<1> DEFINE x == <<a, b>>
           y == <<c, d>>
           z == <<e, f>>
           xy == x \o y
<1>1. /\ x \in Seq(Nat) /\ y \in Seq(Nat) /\ z \in Seq(Nat)
      /\ Len(x) = 2 /\ Len(y) = 2 /\ Len(z) = 2
      /\ x[1] = a /\ x[2] = b /\ y[1] = c /\ y[2] = d /\ z[1] = e /\ z[2] = f
  OBVIOUS
<1> HIDE DEF x, y, z
<1>2. /\ xy \in Seq(Nat) /\ Len(xy) = 4
      /\ xy[1] = a /\ xy[2] = b /\ xy[3] = c /\ xy[4] = d
  <2>1. /\ xy \in Seq(Nat) /\ Len(xy) = Len(x) + Len(y)
        /\ \A i \in 1 .. Len(x) + Len(y) : xy[i] = IF i <= Len(x) THEN x[i] ELSE y[i - Len(x)]
    BY <1>1, ConcatProperties
  <2> HIDE DEF xy
  <2>2. \A i \in 1 .. 4 : xy[i] = IF i <= 2 THEN x[i] ELSE y[i - 2]
    BY <1>1, <2>1
  <2> QED
    BY <1>1, <2>1, <2>2
<1>3. w = xy \o z
  BY DEF x, y, z
<1> HIDE DEF xy
<1>4. \A i \in 1 .. Len(xy) + Len(z) : w[i] = IF i <= Len(xy) THEN xy[i] ELSE z[i - Len(xy)]
  BY <1>1, <1>2, <1>3, ConcatProperties
<1>5. \A i \in 1 .. 6 : w[i] = IF i <= 4 THEN xy[i] ELSE z[i - 4]
  BY <1>1, <1>2, <1>4
<1> QED
  BY <1>1, <1>2, <1>5

\* Read, of any head.
CmdOf(w) == w[1] + 256 * w[2]
FromOf(w) == w[3] + 256 * w[4]
ToOf(w) == w[5] + 256 * w[6]

\* RefereeRoutes, of any head.
Routes(w) ==
  /\ FromOf(w) \in {9, 109}
  /\ \/ CmdOf(w) = 289 /\ ToOf(w) = 32896
     \/ CmdOf(w) = 512 /\ ToOf(w) \in {FromOf(w) - 6, FromOf(w) - 5, FromOf(w) - 3}

(* What the referee reads of the six bytes is what was written. *)
LEMMA BytesRead ==
  ASSUME NEW a \in Nat, NEW b \in Nat, NEW c \in Nat
  PROVE  LET w == Bytes(a) \o Bytes(b) \o Bytes(c)
         IN  CmdOf(w) = a /\ FromOf(w) = b /\ ToOf(w) = c
<1>1. ASSUME NEW x \in Nat
      PROVE  x % 256 \in Nat /\ x \div 256 \in Nat /\ (x % 256) + 256 * (x \div 256) = x
  OBVIOUS
<1> DEFINE w == Bytes(a) \o Bytes(b) \o Bytes(c)
           lo(x) == x % 256
           hi(x) == x \div 256
<1>2. \A x \in Nat : lo(x) + 256 * hi(x) = x
  BY <1>1
<1>3. w = <<lo(a), hi(a)>> \o <<lo(b), hi(b)>> \o <<lo(c), hi(c)>>
  BY DEF Bytes
<1>4. lo(a) \in Nat /\ hi(a) \in Nat /\ lo(b) \in Nat /\ hi(b) \in Nat /\ lo(c) \in Nat
      /\ hi(c) \in Nat
  BY <1>1
<1> HIDE DEF w, lo, hi
<1>5. w[1] = lo(a) /\ w[2] = hi(a) /\ w[3] = lo(b) /\ w[4] = hi(b) /\ w[5] = lo(c) /\ w[6] = hi(c)
  BY <1>3, <1>4, SixBytes
<1> QED
  BY <1>2, <1>5 DEF w, CmdOf, FromOf, ToOf

(* The ids on the wire. *)
LEMMA Ids ==
  /\ ToU16(RefereeServer) = 32896
  /\ ToU16(Radar("red")) = 9 /\ ToU16(Radar("blue")) = 109
  /\ ToU16(Targets("red")[1]) = 3 /\ ToU16(Targets("red")[2]) = 4 /\ ToU16(Targets("red")[3]) = 6
  /\ ToU16(Targets("blue")[1]) = 103 /\ ToU16(Targets("blue")[2]) = 104
  /\ ToU16(Targets("blue")[3]) = 106
<1>1. \A u \in {"Infantry3", "Infantry4", "Aerial", "Radar"}, t \in Team :
        /\ <<t, u>> # RefereeServer
        /\ ToU16(<<t, u>>) = Unit[u] + (IF t = "blue" THEN 100 ELSE 0)
  BY DEF ToU16, RefereeServer, Team
<1>2. /\ Unit["Infantry3"] = 3 /\ Unit["Infantry4"] = 4 /\ Unit["Aerial"] = 6
      /\ Unit["Radar"] = 9
  BY DEF Unit
<1>3. ASSUME NEW t
      PROVE  /\ Targets(t)[1] = <<t, "Infantry3">> /\ Targets(t)[2] = <<t, "Infantry4">>
             /\ Targets(t)[3] = <<t, "Aerial">> /\ Radar(t) = <<t, "Radar">>
  BY DEF Targets, Radar
<1>4. ToU16(RefereeServer) = 32896
  BY DEF ToU16
<1> QED
  BY <1>1, <1>2, <1>3, <1>4 DEF Team

LEMMA HeadRouted ==
  ASSUME NEW cmd \in Nat, NEW from \in Nat, NEW to \in Nat, from \in {9, 109},
         \/ cmd = 289 /\ to = 32896
         \/ cmd = 512 /\ to \in {from - 6, from - 5, from - 3}
  PROVE  Routes(Bytes(cmd) \o Bytes(from) \o Bytes(to))
<1> DEFINE w == Bytes(cmd) \o Bytes(from) \o Bytes(to)
<1>1. CmdOf(w) = cmd /\ FromOf(w) = from /\ ToOf(w) = to
  BY BytesRead
<1> HIDE DEF w
<1>2. Routes(w)
  BY <1>1 DEF Routes
<1> QED
  BY <1>2 DEF w

(* Every head that the transmitter writes goes from one radar to an allied *)
(* unit or to the referee.                                                 *)
LEMMA DecisionRouted ==
  ASSUME NEW t \in Team
  PROVE  Routes(ToBytes(DecisionCmd, Radar(t), RefereeServer))
<1> DEFINE from == ToU16(Radar(t))
           to == ToU16(RefereeServer)
<1>1. /\ from \in {9, 109} /\ to = 32896 /\ DecisionCmd = 289
      /\ DecisionCmd \in Nat /\ from \in Nat /\ to \in Nat
  BY Ids DEF Team, DecisionCmd
<1> HIDE DEF from, to
<1>2. Routes(Bytes(DecisionCmd) \o Bytes(from) \o Bytes(to))
  BY <1>1, HeadRouted
<1> QED
  BY <1>2 DEF ToBytes, from, to

LEMMA BroadcastRouted ==
  ASSUME NEW t \in Team, NEW n \in 1 .. 3
  PROVE  Routes(ToBytes(BroadcastCmd, Radar(t), Targets(t)[n]))
<1> DEFINE from == ToU16(Radar(t))
           to == ToU16(Targets(t)[n])
<1>1. /\ from \in {9, 109} /\ to \in {from - 6, from - 5, from - 3} /\ from \in Nat /\ to \in Nat
      /\ BroadcastCmd = 512 /\ BroadcastCmd \in Nat
  <2>1. n \in {1, 2, 3}
    OBVIOUS
  <2> QED
    BY <2>1, Ids DEF Team, BroadcastCmd
<1> HIDE DEF from, to
<1>2. Routes(Bytes(BroadcastCmd) \o Bytes(from) \o Bytes(to))
  BY <1>1, HeadRouted
<1> QED
  BY <1>2 DEF ToBytes, from, to

-----------------------------------------------------------------------------
(* The invariant.                                                          *)

\* Targets left of a broadcast.
Rest(t, n) == SubSeq(Targets(t), n, 3)

LEMMA RestType ==
  ASSUME NEW t
  PROVE  /\ Rest(t, 1) = Targets(t) /\ Rest(t, 4) = <<>>
         /\ \A n \in 1 .. 3 : /\ Len(Rest(t, n)) = 4 - n /\ Rest(t, n) # <<>>
                              /\ Head(Rest(t, n)) = Targets(t)[n]
                              /\ Tail(Rest(t, n)) = Rest(t, n + 1)
<1> DEFINE all == Targets(t)
           Any == {t} \X {"Infantry3", "Infantry4", "Aerial"}
<1>1. all \in Seq(Any) /\ Len(all) = 3
  BY DEF Targets
<1> HIDE DEF all, Any
<1>2. Rest(t, 1) = all
  BY <1>1, SubSeqFull DEF Rest, all
<1>3. Rest(t, 4) = <<>>
  BY SubSeqEmpty DEF Rest
<1>4. ASSUME NEW n \in 1 .. 3
      PROVE  /\ Len(Rest(t, n)) = 4 - n
             /\ Head(Rest(t, n)) = all[n]
             /\ Tail(Rest(t, n)) = Rest(t, n + 1)
  <2>1. /\ n \in 1 .. Len(all) /\ 3 \in n .. Len(all) /\ n \in Int /\ 3 \in Int /\ n <= 3
        /\ \A i \in n .. 3 : all[i] \in Any
    <3>1. n \in Int /\ n >= 1 /\ n <= 3 /\ Len(all) = 3
      BY <1>1
    <3>2. \A i \in 1 .. 3 : all[i] \in Any
      BY <1>1
    <3> QED
      BY <3>1, <3>2
  <2>2. Rest(t, n) = SubSeq(all, n, 3) /\ Rest(t, n + 1) = SubSeq(all, n + 1, 3)
    BY DEF Rest, all
  <2>3. Len(SubSeq(all, n, 3)) = 3 - n + 1
    BY <2>1, SubSeqProperties
  <2>4. Head(SubSeq(all, n, 3)) = all[n] /\ Tail(SubSeq(all, n, 3)) = SubSeq(all, n + 1, 3)
    BY <1>1, <2>1, HeadTailOfSubSeq
  <2> DEFINE part == SubSeq(all, n, 3)
             rest == SubSeq(all, n + 1, 3)
  <2>5. Len(part) = 4 - n /\ Head(part) = all[n] /\ Tail(part) = rest
    <3> HIDE DEF part, rest
    <3> QED
      BY <2>3, <2>4 DEF part, rest
  <2>6. Rest(t, n) = part /\ Rest(t, n + 1) = rest
    BY <2>2
  <2> HIDE DEF part, rest
  <2> QED
    BY <2>5, <2>6
<1>5. \A n \in 1 .. 3 : Rest(t, n) # <<>>
  <2>1. Len(<<>>) = 0
    OBVIOUS
  <2> QED
    BY <1>4, <2>1
<1> QED
  BY <1>2, <1>3, <1>4, <1>5 DEF all

\* A broadcast under way goes to the team of its sender, and has targets left.
Addressed ==
  IF tx \in {"cast", "write", "sleep"}
  THEN \E t \in Team, n \in 1 .. 3 : radar_id = Radar(t) /\ left = Rest(t, n)
  ELSE left = <<>>

BridgeTypes ==
  /\ since \in Stamps
  /\ timed \in BOOLEAN
  /\ coords \in 0 .. Oldest
  /\ queue \in Seq(Kind)
  /\ tx \in {"recv", "single", "cast", "write", "sleep"}
  /\ team \in Team
  /\ radar_id \in {Radar(t) : t \in Team}
  /\ Addressed

BridgeInv ==
  /\ BridgeTypes
  /\ wire = <<>> \/ Routes(wire)

LEMMA PeriodType == \A k \in Kind : Period[k] \in Nat
  BY BridgeAssumption DEF Kind, Period

(* Restarting some of the stamps leaves stamps. *)
LEMMA RestartType ==
  ASSUME NEW s \in Stamps, NEW K
  PROVE  [k \in Kind |-> IF k \in K THEN 0 ELSE s[k]] \in Stamps
<1>1. \A k \in Kind : (IF k \in K THEN 0 ELSE s[k]) \in Nat
                     /\ (IF k \in K THEN 0 ELSE s[k]) \in 0 .. Period[k]
  BY PeriodType DEF Stamps
<1> QED
  BY <1>1 DEF Stamps

LEMMA RestartOneType ==
  ASSUME NEW s \in Stamps, NEW j \in Kind
  PROVE  [s EXCEPT ![j] = 0] \in Stamps
<1>1. \A k \in Kind : 0 \in 0 .. Period[k]
  BY PeriodType
<1> QED
  BY <1>1 DEF Stamps

LEMMA RemainingType ==
  ASSUME BridgeTypes
  PROVE  /\ tx = "recv" => Remaining = 0
         /\ tx = "single" => Remaining = 1
         /\ \A t \in Team, n \in 1 .. 3 :
              left = Rest(t, n) =>
                /\ tx \in {"cast", "write"} => Remaining = 8 - 2 * n
                /\ tx = "sleep" => Remaining = 7 - 2 * n
         /\ Remaining \in Nat
<1>1. tx = "recv" => Remaining = 0
  BY DEF Remaining
<1>2. tx = "single" => Remaining = 1
  BY DEF Remaining
<1>3. ASSUME NEW t \in Team, NEW n \in 1 .. 3, left = Rest(t, n)
      PROVE  /\ tx \in {"cast", "write"} => Remaining = 8 - 2 * n
             /\ tx = "sleep" => Remaining = 7 - 2 * n
  <2>1. Len(left) = 4 - n
    BY <1>3, RestType
  <2>2. tx \in {"cast", "write"} => Remaining = 2 * (4 - n)
    BY <2>1 DEF Remaining
  <2>3. tx = "sleep" => Remaining = 2 * (4 - n) - 1
    BY <2>1 DEF Remaining
  <2> QED
    BY <2>2, <2>3
<1>4. ASSUME tx \in {"cast", "write", "sleep"} PROVE Remaining \in Nat
  <2>1. PICK t \in Team, n \in 1 .. 3 : left = Rest(t, n)
    BY <1>4 DEF BridgeTypes, Addressed
  <2>2. 8 - 2 * n \in Nat /\ 7 - 2 * n \in Nat
    OBVIOUS
  <2> QED
    BY <1>3, <1>4, <2>1, <2>2
<1>5. Remaining \in Nat
  BY <1>1, <1>2, <1>4 DEF BridgeTypes
<1> QED
  BY <1>1, <1>2, <1>3, <1>5

LEMMA BridgeInit == Init => BridgeInv
<1> SUFFICES ASSUME Init PROVE BridgeInv
  OBVIOUS
<1>1. since \in Stamps
  BY PeriodType DEF Init, Stamps, Period, Kind
<1>2. coords \in 0 .. Oldest
  BY BridgeAssumption DEF Init, Oldest
<1> QED
  BY <1>1, <1>2 DEF Init, BridgeInv, BridgeTypes, Addressed, Team

(* The step of the SUB thread: the channel, and stamps of what is sent. *)
LEMMA ReceiveSdrStep ==
  ASSUME BridgeTypes, ReceiveSdr
  PROVE  /\ since' \in Stamps /\ queue' \in Seq(Kind) /\ coords' \in {0, coords}
         /\ UNCHANGED <<timed, tx, left, addressVars>>
<1>1. PICK age \in {0, coords} :
        /\ coords' = age
        /\ queue' = Pushed(Pushed(queue, "broadcast", Notified(age)), "minimap", Notified(age))
        /\ since' = [k \in Kind |-> IF k \in Notified(age) THEN 0 ELSE since[k]]
  BY DEF ReceiveSdr
<1>2. since' \in Stamps
  <2>1. since \in Stamps
    BY DEF BridgeTypes
  <2> QED
    BY <1>1, <2>1, RestartType
<1>3. Pushed(queue, "broadcast", Notified(age)) \in Seq(Kind)
  BY DEF BridgeTypes, Pushed, Kind
<1>4. queue' \in Seq(Kind)
  BY <1>1, <1>3 DEF Pushed, Kind
<1> QED
  BY <1>1, <1>2, <1>4 DEF ReceiveSdr

LEMMA TypesStep == BridgeTypes /\ [Next]_vars => BridgeTypes'
<1> SUFFICES ASSUME BridgeTypes, [Next]_vars PROVE BridgeTypes'
  OBVIOUS
<1>1. CASE ReceiveSdr
  <2>1. /\ since' \in Stamps /\ queue' \in Seq(Kind) /\ coords' \in {0, coords}
        /\ UNCHANGED <<timed, tx, left, addressVars>>
    BY <1>1, ReceiveSdrStep
  <2>2. coords' \in 0 .. Oldest
    BY <2>1, BridgeAssumption DEF BridgeTypes, Oldest
  <2> QED
    BY <2>1, <2>2 DEF BridgeTypes, Addressed, addressVars
<1>2. CASE ReceiveDecisionSync
  <2>1. since' = [since EXCEPT !["decision"] = 0] /\ queue' = Append(queue, "decision")
        /\ UNCHANGED <<timed, coords, tx, left, addressVars>>
    BY <1>2 DEF ReceiveDecisionSync
  <2>2. since' \in Stamps
    BY <2>1, RestartOneType DEF BridgeTypes, Kind
  <2>3. queue' \in Seq(Kind)
    BY <2>1 DEF BridgeTypes, Kind
  <2> QED
    BY <2>1, <2>2, <2>3 DEF BridgeTypes, Addressed, addressVars
<1>3. CASE ChooseTeam
  BY <1>3 DEF ChooseTeam, BridgeTypes, Addressed
<1>4. ASSUME NEW kind \in Kind, Take(kind)
      PROVE  queue' \in Seq(Kind) /\ tx = "recv" /\ left = <<>>
             /\ UNCHANGED <<since, timed, coords, team>>
  BY <1>4 DEF Take, BridgeTypes, Addressed
<1>5. CASE SendMinimap \/ SendDecision
  <2>1. queue' \in Seq(Kind) /\ left = <<>> /\ UNCHANGED <<since, timed, coords, team>>
    BY <1>4, <1>5 DEF SendMinimap, SendDecision, Kind
  <2>2. tx' \in {"recv", "single"} /\ UNCHANGED <<left, radar_id>>
    BY <1>5 DEF SendMinimap, SendDecision
  <2> QED
    BY <2>1, <2>2 DEF BridgeTypes, Addressed
<1>6. CASE BeginBroadcast
  <2>1. queue' \in Seq(Kind) /\ UNCHANGED <<since, timed, coords, team>>
    BY <1>4, <1>6 DEF BeginBroadcast, Kind
  <2>2. tx' = "cast" /\ left' = Rest(team, 1) /\ radar_id' = Radar(team) /\ team \in Team
    BY <1>6, RestType DEF BeginBroadcast, BridgeTypes
  <2>3. Addressed'
    <3>1. 1 \in 1 .. 3
      OBVIOUS
    <3> QED
      BY <2>2, <3>1 DEF Addressed
  <2> QED
    BY <2>1, <2>2, <2>3 DEF BridgeTypes
<1>7. CASE SendBroadcastFrame
  BY <1>7 DEF SendBroadcastFrame, BridgeTypes, Addressed
<1>8. CASE Tick
  <2>1. since' = [k \in Kind |-> Older(since[k], Period[k])] /\ coords' = Older(coords, Oldest)
        /\ UNCHANGED <<timed, queue, team, radar_id>>
    BY <1>8 DEF Tick
  <2>2. since' \in Stamps
    <3>1. \A k \in Kind : Older(since[k], Period[k]) \in Nat /\ Older(since[k], Period[k]) <= Period[k]
      BY PeriodType DEF Older, BridgeTypes, Stamps
    <3> QED
      BY <2>1, <3>1 DEF Stamps
  <2>3. coords' \in 0 .. Oldest
    BY <2>1, BridgeAssumption DEF Older, Oldest, BridgeTypes
  <2>4. tx' \in {"recv", "single", "cast", "write", "sleep"} /\ Addressed'
    <3>1. CASE tx = "write"
      BY <1>8, <2>1, <3>1 DEF Tick, Addressed, BridgeTypes
    <3>2. CASE tx = "sleep"
      <4>1. PICK t \in Team, n \in 1 .. 3 : radar_id = Radar(t) /\ left = Rest(t, n)
        BY <3>2 DEF BridgeTypes, Addressed
      <4>2. left' = Rest(t, n + 1) /\ tx' = IF Rest(t, n + 1) # <<>> THEN "cast" ELSE "recv"
        BY <1>8, <3>2, <4>1, RestType DEF Tick, AfterSleep
      <4>3. CASE n = 3
        <5>1. Rest(t, n + 1) = <<>>
          BY <4>3, RestType
        <5> QED
          BY <4>2, <5>1 DEF Addressed
      <4>4. CASE n # 3
        <5>1. n + 1 \in 1 .. 3
          BY <4>4
        <5>2. Rest(t, n + 1) # <<>>
          BY <5>1, RestType
        <5> QED
          BY <2>1, <4>1, <4>2, <5>1, <5>2 DEF Addressed
      <4> QED
        BY <4>3, <4>4
    <3>3. CASE tx \in {"recv", "single"}
      BY <1>8, <3>3 DEF Tick, Addressed, BridgeTypes
    <3> QED
      BY <1>8, <3>1, <3>2, <3>3 DEF Tick, AtRest, BridgeTypes
  <2> QED
    BY <2>1, <2>2, <2>3, <2>4 DEF BridgeTypes
<1>9. CASE UNCHANGED vars
  BY <1>9 DEF vars, addressVars, BridgeTypes, Addressed
<1> QED
  BY <1>1, <1>2, <1>3, <1>5, <1>6, <1>7, <1>8, <1>9 DEF Next, Transmitter

(* What is on the wire. *)
LEMMA WireStep == BridgeInv /\ [Next]_vars => wire' = <<>> \/ Routes(wire')
<1> SUFFICES ASSUME BridgeInv, [Next]_vars PROVE wire' = <<>> \/ Routes(wire')
  OBVIOUS
<1>1. CASE SendDecision
  BY <1>1, DecisionRouted DEF SendDecision, BridgeInv, BridgeTypes
<1>2. CASE SendBroadcastFrame
  <2>1. PICK t \in Team, n \in 1 .. 3 : radar_id = Radar(t) /\ left = Rest(t, n)
    BY <1>2 DEF SendBroadcastFrame, BridgeInv, BridgeTypes, Addressed
  <2>2. Head(left) = Targets(t)[n]
    BY <2>1, RestType
  <2>3. wire' = ToBytes(BroadcastCmd, Radar(t), Targets(t)[n])
    BY <1>2, <2>1, <2>2 DEF SendBroadcastFrame, Sender
  <2> QED
    BY <2>3, BroadcastRouted
<1>3. CASE Tick
  BY <1>3 DEF Tick
<1>4. CASE wire' = wire
  BY <1>4 DEF BridgeInv
<1>5. CASE ReceiveSdr \/ ReceiveDecisionSync \/ ChooseTeam \/ SendMinimap \/ BeginBroadcast
           \/ UNCHANGED vars
  BY <1>4, <1>5 DEF ReceiveSdr, ReceiveDecisionSync, ChooseTeam, SendMinimap, BeginBroadcast,
       vars, addressVars
<1> QED
  BY <1>1, <1>2, <1>3, <1>5 DEF Next, Transmitter

LEMMA BridgeStep == BridgeInv /\ [Next]_vars => BridgeInv'
  BY TypesStep, WireStep DEF BridgeInv

LEMMA TypesGiveTypeOK == BridgeTypes => TypeOK
<1> SUFFICES ASSUME BridgeTypes PROVE TypeOK
  OBVIOUS
<1>1. \A k \in Kind : since[k] \in 0 .. Period[k]
  BY PeriodType DEF BridgeTypes, Stamps
<1>2. CASE tx \in {"cast", "write", "sleep"}
  <2>1. PICK t \in Team, n \in 1 .. 3 : left = Rest(t, n)
    BY <1>2 DEF BridgeTypes, Addressed
  <2>2. n \in 1 .. 4 /\ left # <<>> /\ left = SubSeq(Targets(t), n, 3)
    BY <2>1, RestType DEF Rest
  <2> QED
    BY <1>1, <1>2, <2>2 DEF TypeOK, BridgeTypes
<1>3. CASE tx \notin {"cast", "write", "sleep"}
  <2>1. left = <<>> /\ 4 \in 1 .. 4 /\ left = SubSeq(Targets(team), 4, 3)
    BY <1>3, RestType DEF BridgeTypes, Addressed, Rest
  <2> QED
    BY <1>1, <1>3, <2>1 DEF TypeOK, BridgeTypes
<1> QED
  BY <1>2, <1>3

(* Every variable keeps its type, and a broadcast under way has targets    *)
(* left.                                                                   *)
THEOREM BridgeTypeCorrect == Spec => []TypeOK
<1>1. BridgeInv => TypeOK
  BY TypesGiveTypeOK DEF BridgeInv
<1> QED
  BY BridgeInit, BridgeStep, <1>1, PTL DEF Spec

(* However often the user changes the team, the frames of a broadcast go   *)
(* from one radar to units of its own team, and a decision to the referee. *)
THEOREM OneTeamCorrect == Spec => []OneTeam
<1>1. BridgeInv => OneTeam
  BY DEF BridgeInv, OneTeam, RefereeRoutes, Read, Routes, CmdOf, FromOf, ToOf
<1> QED
  BY BridgeInit, BridgeStep, <1>1, PTL DEF Spec

-----------------------------------------------------------------------------
(* The waiting times.                                                      *)

TimelyInv == BridgeInv /\ Timely(queue, since, Remaining, coords)

LEMMA TimelyInit ==
  ASSUME Limits
  PROVE  Init => TimelyInv
<1> SUFFICES ASSUME Init PROVE TimelyInv
  OBVIOUS
<1>1. BridgeInv /\ since \in Stamps
  BY BridgeInit DEF BridgeInv, BridgeTypes
<1>2. queue = <<>> /\ Len(queue) = 0 /\ DOMAIN queue = {} /\ Remaining = 0
  BY DEF Init, Remaining
<1>3. Remaining + Work(queue, Len(queue)) = 0
  BY <1>2, CountNone DEF Work
<1>4. /\ AtMost(since["broadcast"], 20) \in Nat /\ AtMost(since["broadcast"], 20) <= 20
      /\ AtMost(since["decision"], 20) \in Nat /\ AtMost(since["decision"], 20) <= 20
      /\ since["minimap"] \in Nat /\ since["minimap"] <= 4
  BY <1>1, StampType, AtMostType DEF Limits
<1>5. Within(Remaining + Work(queue, Len(queue)), AtMost(since["broadcast"], 20),
             since["minimap"], AtMost(since["decision"], 20))
  BY <1>3, <1>4, WithinEmpty
<1> QED
  BY <1>1, <1>2, <1>5 DEF TimelyInv, Timely

(* A notification, if this message has one of the kind. *)
LEMMA PushedTimely ==
  ASSUME Limits, NEW q \in Seq(Kind), NEW s \in Stamps, NEW r \in Nat, NEW c \in Nat,
         Timely(q, s, r, c), NEW k \in Kind, NEW notified,
         k \in notified => s[k] = Period[k] /\ (k = "minimap" /\ timed => c < FreshLimit),
         NEW z, z = IF k \in notified THEN [s EXCEPT ![k] = 0] ELSE s
  PROVE  /\ Timely(Pushed(q, k, notified), z, r, c)
         /\ Pushed(q, k, notified) \in Seq(Kind) /\ z \in Stamps
<1>1. CASE k \in notified
  <2>1. Timely(Append(q, k), [s EXCEPT ![k] = 0], r, c)
    BY <1>1, PushTimely
  <2>2. Append(q, k) \in Seq(Kind) /\ [s EXCEPT ![k] = 0] \in Stamps
    BY PeriodType DEF Stamps
  <2> QED
    BY <1>1, <2>1, <2>2 DEF Pushed
<1>2. CASE k \notin notified
  BY <1>2 DEF Pushed
<1> QED
  BY <1>1, <1>2

LEMMA ReceiveSdrTimely ==
  ASSUME Limits, TimelyInv, ReceiveSdr
  PROVE  Timely(queue', since', Remaining, coords')
<1>1. PICK age \in {0, coords} :
        /\ coords' = age
        /\ queue' = Pushed(Pushed(queue, "broadcast", Notified(age)), "minimap", Notified(age))
        /\ since' = [k \in Kind |-> IF k \in Notified(age) THEN 0 ELSE since[k]]
  BY DEF ReceiveSdr
<1> DEFINE notified == Notified(age)
           q1 == Pushed(queue, "broadcast", notified)
           s1 == IF "broadcast" \in notified THEN [since EXCEPT !["broadcast"] = 0] ELSE since
           s2 == IF "minimap" \in notified THEN [s1 EXCEPT !["minimap"] = 0] ELSE s1
<1>2. queue \in Seq(Kind) /\ since \in Stamps /\ Remaining \in Nat /\ coords \in Nat
      /\ age \in Nat /\ age \in 0 .. coords
  BY RemainingType, BridgeAssumption DEF TimelyInv, BridgeInv, BridgeTypes
<1>3. /\ "broadcast" \in notified => since["broadcast"] = Period["broadcast"]
      /\ "minimap" \in notified => since["minimap"] = Period["minimap"] /\ (timed => age < FreshLimit)
      /\ "decision" \notin notified
  BY DEF Notified, Due, Fresh
<1>4. Timely(queue, since, Remaining, age)
  BY <1>2, YoungerTimely DEF TimelyInv
<1> HIDE DEF notified
<1>5. s1 \in Stamps /\ s1["minimap"] = since["minimap"]
  BY <1>2, PeriodType DEF Stamps, Kind
<1>6. since' = s2
  <2>1. since' = [k \in Kind |-> IF k \in notified THEN 0 ELSE since[k]]
    BY <1>1 DEF notified
  <2> QED
    BY <1>2, <1>3, <2>1 DEF Stamps, Kind
<1> HIDE DEF s1
<1>7. Timely(q1, s1, Remaining, age) /\ q1 \in Seq(Kind)
  BY <1>2, <1>3, <1>4, PushedTimely DEF Kind, s1
<1> HIDE DEF q1
<1>8. Timely(Pushed(q1, "minimap", notified), s2, Remaining, age)
  BY <1>2, <1>3, <1>5, <1>7, PushedTimely DEF Kind
<1> QED
  BY <1>1, <1>6, <1>8 DEF notified, q1

LEMMA TimelyStep ==
  ASSUME Limits
  PROVE  TimelyInv /\ [Next]_vars => TimelyInv'
<1> SUFFICES ASSUME TimelyInv, [Next]_vars PROVE TimelyInv'
  OBVIOUS
<1>1. BridgeInv' /\ BridgeTypes' /\ BridgeTypes
  BY BridgeStep DEF TimelyInv, BridgeInv
<1>2. /\ queue \in Seq(Kind) /\ since \in Stamps /\ since' \in Stamps /\ coords \in Nat
      /\ Remaining \in Nat /\ Remaining' \in Nat
      /\ Timely(queue, since, Remaining, coords)
  <2>1. Remaining' \in Nat
    <3>1. ASSUME tx' \in {"cast", "write", "sleep"} PROVE Remaining' \in Nat
      <4>1. PICK t \in Team, n \in 1 .. 3 : left' = Rest(t, n)
        BY <1>1, <3>1 DEF BridgeTypes, Addressed
      <4>2. Len(left') \in Nat /\ Len(left') >= 1
        BY <4>1, RestType
      <4> QED
        BY <3>1, <4>2 DEF Remaining
    <3> QED
      BY <1>1, <3>1 DEF BridgeTypes, Remaining
  <2> QED
    BY <1>1, <2>1, RemainingType, BridgeAssumption DEF TimelyInv, BridgeTypes
<1> SUFFICES Timely(queue', since', Remaining', coords')
  <2>1. timed' = timed
    <3>1. CASE ReceiveSdr \/ ReceiveDecisionSync \/ ChooseTeam \/ UNCHANGED vars
      BY <3>1 DEF ReceiveSdr, ReceiveDecisionSync, ChooseTeam, vars
    <3>2. CASE SendMinimap \/ SendDecision \/ BeginBroadcast \/ SendBroadcastFrame
      BY <3>2 DEF Take, SendMinimap, SendDecision, BeginBroadcast, SendBroadcastFrame
    <3>3. CASE Tick
      BY <3>3 DEF Tick
    <3> QED
      BY <3>1, <3>2, <3>3 DEF Next, Transmitter
  <2> QED
    BY <1>1, <2>1 DEF TimelyInv, Timely, Young
<1>3. CASE ReceiveSdr
  <2>1. Timely(queue', since', Remaining, coords')
    BY <1>3, ReceiveSdrTimely
  <2>2. Remaining' = Remaining
    BY <1>3 DEF ReceiveSdr, Remaining
  <2> QED
    BY <2>1, <2>2
<1>4. CASE ReceiveDecisionSync
  <2>1. /\ queue' = Append(queue, "decision") /\ since' = [since EXCEPT !["decision"] = 0]
        /\ since["decision"] = Period["decision"] /\ coords' = coords
        /\ Remaining' = Remaining
    BY <1>4 DEF ReceiveDecisionSync, Due, Remaining
  <2>2. Timely(Append(queue, "decision"), [since EXCEPT !["decision"] = 0], Remaining, coords)
    BY <1>2, <2>1, PushTimely DEF Kind
  <2> QED
    BY <2>1, <2>2
<1>5. ASSUME NEW kind \in Kind, Take(kind), Remaining' \in 0 .. Ticks(kind)
      PROVE  Timely(queue', since', Remaining', coords')
  <2>1. /\ queue # <<>> /\ Head(queue) = kind /\ queue' = Tail(queue) /\ tx = "recv"
        /\ since' = since /\ coords' = coords
    BY <1>5 DEF Take
  <2>2. Remaining = 0
    BY <1>1, <2>1, RemainingType
  <2>3. Timely(Tail(queue), since, Remaining', coords)
    BY <1>2, <1>5, <2>1, <2>2, TakeTimely
  <2> QED
    BY <2>1, <2>3
<1>6. CASE SendMinimap \/ SendDecision
  <2>1. tx' \in {"recv", "single"}
    BY <1>6 DEF SendMinimap, SendDecision
  <2>2. Remaining' \in {0, 1}
    BY <2>1 DEF Remaining
  <2>3. Ticks("minimap") = 1 /\ Ticks("decision") = 1
    BY DEF Ticks
  <2> QED
    BY <1>5, <1>6, <2>2, <2>3 DEF SendMinimap, SendDecision, Kind
<1>7. CASE BeginBroadcast
  <2>1. tx' = "cast" /\ left' = Targets(team)
    BY <1>7 DEF BeginBroadcast
  <2>2. Remaining' = 6
    BY <2>1 DEF Remaining, Targets
  <2>3. Ticks("broadcast") = 6
    BY DEF Ticks
  <2> QED
    BY <1>5, <1>7, <2>2, <2>3 DEF BeginBroadcast, Kind
<1>8. CASE SendBroadcastFrame
  <2>1. /\ tx = "cast" /\ tx' \in {"write", "sleep"} /\ left' = left
        /\ queue' = queue /\ since' = since /\ coords' = coords
    BY <1>8 DEF SendBroadcastFrame
  <2>2. Remaining' <= Remaining
    <3>1. Remaining = 2 * Len(left) /\ Remaining' \in {2 * Len(left), 2 * Len(left) - 1}
      BY <2>1 DEF Remaining
    <3>2. PICK t \in Team, n \in 1 .. 3 : left = Rest(t, n)
      BY <1>1, <2>1 DEF BridgeTypes, Addressed
    <3>3. Len(left) \in Nat
      BY <3>2, RestType
    <3> QED
      BY <3>1, <3>3
  <2>3. Timely(queue, since, Remaining', coords)
    BY <1>2, <2>2, LessTimely
  <2> QED
    BY <2>1, <2>3
<1>9. CASE ChooseTeam \/ UNCHANGED vars
  <2>1. UNCHANGED <<queue, since, coords, tx, left>>
    BY <1>9 DEF ChooseTeam, vars
  <2>2. Remaining' = Remaining
    BY <2>1 DEF Remaining
  <2> QED
    BY <1>2, <2>1, <2>2
<1>10. CASE Tick
  <2>1. /\ since' = [k \in Kind |-> Older(since[k], Period[k])]
        /\ coords' = Older(coords, Oldest) /\ queue' = queue
    BY <1>10 DEF Tick
  <2>2. \A k \in Kind : since'[k] <= since[k] + 1
    BY <1>2, <2>1 DEF Older, Stamps
  <2>3. coords' \in 0 .. coords + 1
    BY <1>2, <2>1 DEF Older
  <2>4. (Remaining = 0 => queue = <<>> /\ Remaining' = 0) /\ (Remaining # 0 => Remaining' + 1 <= Remaining)
    <3>1. CASE tx = "recv"
      <4>1. queue = <<>> /\ tx' = "recv"
        BY <1>10, <3>1 DEF Tick, AtRest
      <4> QED
        BY <3>1, <4>1 DEF Remaining
    <3>2. CASE tx = "single"
      <4>1. tx' = "recv"
        BY <1>10, <3>2 DEF Tick
      <4> QED
        BY <3>2, <4>1 DEF Remaining
    <3>3. CASE tx \in {"write", "sleep"}
      <4>1. PICK t \in Team, n \in 1 .. 3 : left = Rest(t, n)
        BY <1>1, <3>3 DEF BridgeTypes, Addressed
      <4>2. Len(left) = 4 - n /\ left # <<>> /\ Tail(left) = Rest(t, n + 1)
        BY <4>1, RestType
      <4>3. CASE tx = "write"
        <5>1. tx' = "sleep" /\ left' = left
          BY <1>10, <4>3 DEF Tick
        <5>2. Remaining = 2 * (4 - n) /\ Remaining' = 2 * (4 - n) - 1
          BY <4>2, <4>3, <5>1 DEF Remaining
        <5> QED
          BY <5>2
      <4>4. CASE tx = "sleep"
        <5>1. left' = Rest(t, n + 1) /\ tx' = IF Rest(t, n + 1) # <<>> THEN "cast" ELSE "recv"
          BY <1>10, <4>2, <4>4 DEF Tick, AfterSleep
        <5>2. Remaining = 2 * (4 - n) - 1
          BY <4>2, <4>4 DEF Remaining
        <5>3. CASE n = 3
          <6>1. tx' = "recv"
            BY <5>1, <5>3, RestType
          <6>2. Remaining' = 0
            BY <6>1 DEF Remaining
          <6> QED
            BY <5>2, <5>3, <6>2
        <5>4. CASE n # 3
          <6>1. n + 1 \in 1 .. 3
            BY <5>4
          <6>2. Rest(t, n + 1) # <<>> /\ Len(Rest(t, n + 1)) = 4 - (n + 1)
            BY <6>1, RestType
          <6>3. Remaining' = 2 * (4 - (n + 1))
            BY <5>1, <6>2 DEF Remaining
          <6> QED
            BY <5>2, <6>1, <6>3
        <5> QED
          BY <5>3, <5>4
      <4> QED
        BY <3>3, <4>3, <4>4
    <3> QED
      BY <1>1, <1>10, <3>1, <3>2, <3>3 DEF Tick, AtRest, BridgeTypes
  <2>5. Timely(queue, since', Remaining', coords')
    BY <1>2, <2>2, <2>3, <2>4, TickTimely
  <2> QED
    BY <2>1, <2>5
<1> QED
  BY <1>3, <1>4, <1>6, <1>7, <1>8, <1>9, <1>10 DEF Next, Transmitter

(* Of at most eight numbers one is the first. *)
LEMMA FirstOfEight ==
  ASSUME NEW q, NEW k, NEW n \in Nat, n <= 8, \E i \in 1 .. n : q[i] = k
  PROVE  \E i \in 1 .. n : q[i] = k /\ \A j \in 1 .. i - 1 : q[j] # k
<1>1. \A i \in 1 .. n : i \in {1, 2, 3, 4, 5, 6, 7, 8}
  OBVIOUS
<1>2. SUFFICES ASSUME \A i \in 1 .. n : q[i] = k => \E j \in 1 .. i - 1 : q[j] = k
               PROVE  FALSE
  OBVIOUS
<1>3. \A i \in 1 .. n : i < 3 => q[i] # k
  BY <1>2
<1>4. \A i \in 1 .. n : i < 5 => q[i] # k
  BY <1>2, <1>3
<1>5. \A i \in 1 .. n : i < 7 => q[i] # k
  BY <1>2, <1>4
<1>6. \A i \in 1 .. n : i < 9 => q[i] # k
  BY <1>2, <1>5
<1> QED
  BY <1>1, <1>6

(* No more minimap notifications wait than come in the time of one wait.   *)
LEMMA FewMinimaps ==
  ASSUME NEW q \in Seq(Kind), NEW s \in Stamps, NEW r \in Nat, NEW c \in Nat, Timely(q, s, r, c)
  PROVE  Count(q, "minimap", Len(q)) <= 2 /\ r + Work(q, Len(q)) <= 8
<1> DEFINE total == Count(q, "minimap", Len(q))
<1>1. Len(q) \in Nat /\ total \in Nat /\ DOMAIN q = 1 .. Len(q)
  BY CountNat
<1>2. r + Work(q, Len(q)) <= 8
  <2>1. r + Work(q, Len(q)) \in Nat
    BY <1>1, WorkType
  <2> QED
    BY <2>1, StampType, AtMostType, WithinBound DEF Timely
<1>3. Len(q) <= 8
  <2>1. Work(q, Len(q)) \in Nat /\ Work(q, Len(q)) >= Len(q)
    BY <1>1, WorkType
  <2> QED
    BY <1>1, <1>2, <2>1
<1>4. CASE \A i \in 1 .. Len(q) : q[i] # "minimap"
  <2>1. {i \in 1 .. Len(q) : q[i] = "minimap"} = {}
    BY <1>4
  <2>2. total = 0
    BY <2>1, FS_EmptySet DEF Count
  <2> QED
    BY <1>2, <2>2
<1>5. CASE \E i \in 1 .. Len(q) : q[i] = "minimap"
  <2>1. PICK i \in 1 .. Len(q) : q[i] = "minimap" /\ \A j \in 1 .. i - 1 : q[j] # "minimap"
    BY <1>1, <1>3, <1>5, FirstOfEight
  <2>2. Count(q, "minimap", i) = 1
    <3>1. i - 1 \in Nat /\ (i - 1) + 1 = i
      OBVIOUS
    <3>2. {j \in 1 .. i - 1 : q[j] = "minimap"} = {}
      BY <2>1
    <3>3. Count(q, "minimap", i - 1) = 0
      BY <3>2, FS_EmptySet DEF Count
    <3>4. Count(q, "minimap", (i - 1) + 1)
            = Count(q, "minimap", i - 1) + (IF q[(i - 1) + 1] = "minimap" THEN 1 ELSE 0)
      BY <3>1, CountNext
    <3> QED
      BY <2>1, <3>1, <3>3, <3>4
  <2>3. Soon(r + Work(q, i), Behind(q, i), s["minimap"])
    BY <1>1, <2>1 DEF Timely
  <2>4. Behind(q, i) = total - 1
    BY <2>2 DEF Behind
  <2>5. Work(q, i) \in Nat /\ Work(q, i) >= 1 /\ s["minimap"] \in Nat
    BY WorkType, StampType
  <2> HIDE DEF total
  <2>6. total <= 2
    BY <1>1, <2>3, <2>4, <2>5 DEF Soon
  <2> QED
    BY <1>2, <2>6 DEF total
<1> QED
  BY <1>4, <1>5

(* Whatever the SDR sends, the rate limits of zmq_start_sub keep what      *)
(* waits for the transmitter at 8 ticks of work at most, 400 ms, whatever  *)
(* the channel has room for; two of the notifications are of the minimap.  *)
THEOREM BacklogCorrect ==
  ASSUME Limits
  PROVE  Spec => []BacklogBounded
<1>1. TimelyInv => BacklogBounded
  <2> SUFFICES ASSUME TimelyInv PROVE BacklogBounded
    OBVIOUS
  <2>1. BridgeTypes /\ queue \in Seq(Kind) /\ since \in Stamps /\ Remaining \in Nat /\ coords \in Nat
    BY RemainingType, BridgeAssumption DEF TimelyInv, BridgeInv, BridgeTypes
  <2>2. Count(queue, "minimap", Len(queue)) <= 2 /\ Remaining + Work(queue, Len(queue)) <= 8
    BY <2>1, FewMinimaps DEF TimelyInv
  <2>3. Len(queue) \in Nat
    BY <2>1
  <2>4. Backlog = Remaining + Work(queue, Len(queue)) /\ Work(queue, Len(queue)) \in Nat
    BY <2>1, <2>3, AheadIsWork, WorkType DEF Backlog
  <2>5. Count(queue, "minimap", Len(queue)) \in Nat
    BY <2>3, CountNat
  <2>6. Backlog <= MaxWait
    BY <2>1, <2>2, <2>4, BridgeAssumption DEF Limits
  <2>7. MinimapPeriod * Count(queue, "minimap", Len(queue)) <= MaxWait
    BY <2>2, <2>5, BridgeAssumption DEF Limits
  <2> QED
    BY <2>1, <2>6, <2>7, TypesGiveTypeOK DEF BacklogBounded
<1> QED
  BY TimelyInit, TimelyStep, <1>1, PTL DEF Spec

(* Coordinates that were fresh when their 0x0305 was asked for are never   *)
(* sent with more than the longest wait added, for every age limit.        *)
THEOREM MinimapCorrect ==
  ASSUME Limits
  PROVE  Spec => NoExpiredMinimap
<1>1. TimelyInv /\ [Next]_vars
        => [SendMinimap => ~timed \/ coords < FreshLimit + MaxWait - Cost("minimap")]_vars
  <2> SUFFICES ASSUME TimelyInv, SendMinimap, timed
               PROVE  coords < FreshLimit + MaxWait - Cost("minimap")
    OBVIOUS
  <2>1. tx = "recv" /\ queue # <<>> /\ Head(queue) = "minimap"
    BY DEF SendMinimap, Take
  <2>2. BridgeTypes /\ queue \in Seq(Kind) /\ coords \in Nat
    BY BridgeAssumption DEF TimelyInv, BridgeInv, BridgeTypes
  <2>3. 1 \in DOMAIN queue /\ queue[1] = "minimap"
    BY <2>1, <2>2
  <2>4. Remaining = 0
    BY <2>1, <2>2, RemainingType
  <2>5. Young(coords, Remaining + Work(queue, 1))
    BY <2>3 DEF TimelyInv, Timely
  <2>6. Work(queue, 1) \in Nat /\ Work(queue, 1) >= 1
    BY WorkType
  <2>7. Cost("minimap") = 1
    BY DEF Cost
  <2> QED
    BY <2>2, <2>4, <2>5, <2>6, <2>7, BridgeAssumption DEF Young, Limits
<1> QED
  BY TimelyInit, TimelyStep, <1>1, PTL DEF Spec, NoExpiredMinimap

=============================================================================
