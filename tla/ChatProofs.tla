---------------------------- MODULE ChatProofs ----------------------------
(***************************************************************************)
(* Proofs about ChatAgent, for any number of requests, any replies, any    *)
(* history length, retries and rate limit: its types, that every history   *)
(* is one the LLM's API accepts and agrees with the transcript, that the   *)
(* rate limit holds, that a prompt stays true of the layer its request     *)
(* writes, that attempts run out, and that the whole is a Conversation.    *)
(*                                                                         *)
(* The argument: cutting an acceptable buffer at a user message leaves an  *)
(* acceptable one (SuffixAcceptable), and the trim always cuts there,      *)
(* because walking back from the end it meets every count of user messages *)
(* (TrimCuts); appending a well-formed turn keeps a buffer acceptable      *)
(* (ConcatAcceptable).  The rate window is what the history of admissions  *)
(* is but for expired entries at its front (Window).  Memory and           *)
(* transcript are compared from their ends, where each turn adds one user  *)
(* message and a trim cuts only what comes first (Recollection).           *)
(***************************************************************************)
EXTENDS ChatAgent, SequenceTheorems, FiniteSetTheorems, WellFoundedInduction, TLAPS

-----------------------------------------------------------------------------
(***************************************************************************)
(* Every nonempty set of natural numbers has a least element: the form in  *)
(* which induction is used below.                                          *)
(***************************************************************************)
LEMMA LessIsLess ==
  ASSUME NEW a \in Nat, NEW b \in Nat, a < b
  PROVE  <<a, b>> \in OpToRel(<, Nat)
<1>1. <<a, b>> \in Nat \X Nat
  OBVIOUS
<1>2. <<a, b>>[1] = a /\ <<a, b>>[2] = b
  OBVIOUS
<1>3. <<a, b>>[1] < <<a, b>>[2]
  BY <1>2
<1> QED
  BY <1>1, <1>3, Zenon DEF OpToRel

LEMMA Least ==
  ASSUME NEW T \in SUBSET Nat, T # {}
  PROVE  \E x \in T : \A y \in T : x <= y
<1>1. PICK x \in T : \A y \in T : ~(<<y, x>> \in OpToRel(<, Nat))
  BY NatLessThanWellFounded, WFMin
<1>2. \A y \in T : ~(y < x)
  BY <1>1, LessIsLess
<1> QED
  BY <1>2

LEMMA Greatest ==
  ASSUME NEW n \in Nat, NEW T \in SUBSET (1..n), T # {}
  PROVE  \E x \in T : \A y \in T : y <= x
<1> DEFINE mirrored == {n - i : i \in T}
<1>1. mirrored \in SUBSET Nat /\ mirrored # {}
  <2>1. \A i \in T : n - i \in Nat
    OBVIOUS
  <2>2. PICK i \in T : TRUE
    OBVIOUS
  <2>3. n - i \in mirrored
    OBVIOUS
  <2>4. \A x \in mirrored : x \in Nat
    BY <2>1
  <2> QED
    BY <2>3, <2>4
<1>2. PICK x \in mirrored : \A y \in mirrored : x <= y
  BY <1>1, Least
<1>3. PICK i \in T : x = n - i
  OBVIOUS
<1>4. \A j \in T : x <= n - j
  BY <1>2
<1> QED
  BY <1>3, <1>4

-----------------------------------------------------------------------------
(***************************************************************************)
(* Trimming.                                                               *)
(***************************************************************************)
From(ms, i) == {j \in Users(ms) : i <= j}

LEMMA FromCounts ==
  ASSUME NEW ms \in Seq(Message), NEW i \in 1..Len(ms)
  PROVE  /\ IsFiniteSet(From(ms, i)) /\ Cardinality(From(ms, i)) \in Nat
         /\ i \in Users(ms) =>
              Cardinality(From(ms, i)) = Cardinality(From(ms, i + 1)) + 1
         /\ i \notin Users(ms) =>
              Cardinality(From(ms, i)) = Cardinality(From(ms, i + 1))
         /\ Cardinality(From(ms, Len(ms) + 1)) = 0
         /\ Cardinality(From(ms, i + 1)) \in Nat
<1>1. Users(ms) \subseteq 1..Len(ms) /\ Len(ms) \in Nat
  BY DEF Users
<1>2. IsFiniteSet(1..Len(ms))
  BY <1>1, FS_Interval
<1>3. \A k \in Nat : From(ms, k) \in SUBSET (1..Len(ms))
  BY <1>1 DEF From
<1>4. \A k \in Nat : IsFiniteSet(From(ms, k)) /\ Cardinality(From(ms, k)) \in Nat
  BY <1>2, <1>3, FS_Subset, FS_CardinalityType
<1>5. From(ms, Len(ms) + 1) = {}
  BY <1>1 DEF From
<1>6. CASE i \in Users(ms)
  <2>1. From(ms, i) = From(ms, i + 1) \cup {i} /\ i \notin From(ms, i + 1)
    BY <1>1, <1>6 DEF From
  <2>2. i + 1 \in Nat /\ IsFiniteSet(From(ms, i + 1))
    BY <1>1, <1>4
  <2>3. Cardinality(From(ms, i)) = Cardinality(From(ms, i + 1)) + 1
    BY <2>1, <2>2, FS_AddElement
  <2> QED
    BY <1>1, <1>4, <1>5, <1>6, <2>2, <2>3, FS_EmptySet
<1>7. CASE i \notin Users(ms)
  <2>1. From(ms, i) = From(ms, i + 1)
    BY <1>1, <1>7 DEF From
  <2> QED
    BY <1>1, <1>4, <1>5, <1>7, <2>1, FS_EmptySet
<1> QED
  BY <1>6, <1>7

(* Where the buffer has enough turns, one of its user messages is the one to
   cut at. *)
LEMMA TrimCuts ==
  ASSUME NEW ms \in Seq(Message), HistoryMaxTurns # 0,
         ~(Cardinality(Users(ms)) < HistoryMaxTurns)
  PROVE  \E i \in Users(ms) :
           FromEnd(Users(ms), i) = HistoryMaxTurns
<1> USE DEF FromEnd
<1> DEFINE N == HistoryMaxTurns
           count(i) == Cardinality(From(ms, i))
           T == {i \in 1..Len(ms) : N <= count(i)}
<1>1. N \in Nat /\ N > 0 /\ Len(ms) \in Nat
  BY ChatAssumption
<1>2. From(ms, 1) = Users(ms)
  BY DEF From, Users
<1>3. Len(ms) # 0
  <2> SUFFICES ASSUME Len(ms) = 0 PROVE FALSE
    OBVIOUS
  <2>1. Users(ms) = {}
    BY DEF Users
  <2> QED
    BY <1>1, <2>1, FS_EmptySet
<1>4. 1 \in 1..Len(ms)
  BY <1>1, <1>3
<1>5. count(1) \in Nat /\ N <= count(1)
  BY <1>1, <1>2, <1>4, FromCounts
<1>6. 1 \in T
  BY <1>4, <1>5
<1> HIDE DEF count
<1>7. PICK m \in T : \A y \in T : y <= m
  BY <1>1, <1>6, Greatest
<1>8. m \in 1..Len(ms) /\ N <= count(m)
  OBVIOUS
<1>9. count(m) \in Nat /\ count(m + 1) \in Nat
  BY <1>8, FromCounts DEF count
<1>10. count(m + 1) < N
  <2>1. CASE m = Len(ms)
    BY <1>1, <1>8, <2>1, FromCounts DEF count
  <2>2. CASE m # Len(ms)
    <3>1. m + 1 \in 1..Len(ms) /\ ~(m + 1 <= m)
      BY <1>1, <1>8, <2>2
    <3>2. m + 1 \notin T
      BY <1>7, <3>1
    <3> QED
      BY <1>1, <1>9, <3>1, <3>2
  <2> QED
    BY <2>1, <2>2
<1>11. m \in Users(ms) /\ count(m) = N
  BY <1>1, <1>8, <1>9, <1>10, FromCounts DEF count
<1> QED
  BY <1>11 DEF count, From

-----------------------------------------------------------------------------
(***************************************************************************)
(* Acceptable buffers.  PairedAt is the case distinction of Acceptable.    *)
(***************************************************************************)
PairedAt(ms, i) ==
  /\ ms[i].role = "assistant" =>
       \A k \in 1..ms[i].n :
         i + k \in DOMAIN ms /\ ms[i + k] = [role |-> "tool", of |-> ms[i].of, n |-> k]
  /\ ms[i].role = "tool" =>
       /\ i - ms[i].n \in DOMAIN ms
       /\ ms[i - ms[i].n].role = "assistant"
       /\ ms[i - ms[i].n].n >= ms[i].n

Paired(ms) == \A i \in DOMAIN ms : PairedAt(ms, i)

LEMMA AcceptableIsPaired ==
  ASSUME NEW ms
  PROVE  Acceptable(ms) <=> (ms # << >> => ms[1].role = "user") /\ Paired(ms)
<1>1. ASSUME NEW i \in DOMAIN ms
      PROVE  (CASE ms[i].role = "assistant" ->
                    \A k \in 1..ms[i].n :
                      i + k \in DOMAIN ms
                      /\ ms[i + k] = [role |-> "tool", of |-> ms[i].of, n |-> k]
               [] ms[i].role = "tool" ->
                    LET caller == i - ms[i].n
                    IN  /\ caller \in DOMAIN ms
                        /\ ms[caller].role = "assistant"
                        /\ ms[caller].n >= ms[i].n
               [] OTHER -> TRUE) <=> PairedAt(ms, i)
  <2>1. CASE ms[i].role = "assistant"
    BY <2>1 DEF PairedAt
  <2>2. CASE ms[i].role = "tool"
    BY <2>2 DEF PairedAt
  <2>3. CASE ms[i].role # "assistant" /\ ms[i].role # "tool"
    BY <2>3 DEF PairedAt
  <2> QED
    BY <2>1, <2>2, <2>3
<1> QED
  BY <1>1, Zenon DEF Acceptable, Paired

LEMMA EntryTypes ==
  ASSUME NEW ms \in Seq(Message), NEW i \in 1..Len(ms)
  PROVE  ms[i] \in Message /\ ms[i].n \in Nat
         /\ ms[i].role \in {"user", "assistant", "tool"}
<1>1. ms[i] \in Message
  BY ElementOfSeq
<1>2. ASSUME NEW m \in Message
      PROVE  m.n \in Nat /\ m.role \in {"user", "assistant", "tool"}
  BY DEF Message
<1> QED
  BY <1>1, <1>2

(* A buffer followed by another. *)
LEMMA ConcatAcceptable ==
  ASSUME NEW a \in Seq(Message), NEW b \in Seq(Message),
         Acceptable(a), Paired(b), a = << >> => Acceptable(b)
  PROVE  Acceptable(a \o b) /\ a \o b \in Seq(Message)
<1> DEFINE ab == a \o b
<1>1. /\ ab \in Seq(Message) /\ Len(ab) = Len(a) + Len(b)
      /\ \A k \in 1..(Len(a) + Len(b)) :
           ab[k] = IF k <= Len(a) THEN a[k] ELSE b[k - Len(a)]
  BY ConcatProperties
<1>2. Len(a) \in Nat /\ Len(b) \in Nat
  OBVIOUS
<1> HIDE DEF ab
<1>3. /\ \A k \in 1..Len(a) : k \in DOMAIN ab /\ ab[k] = a[k]
      /\ \A k \in 1..Len(b) : k + Len(a) \in DOMAIN ab /\ ab[k + Len(a)] = b[k]
      /\ \A k \in DOMAIN ab : \/ k \in 1..Len(a)
                              \/ k - Len(a) \in 1..Len(b) /\ k = (k - Len(a)) + Len(a)
  <2>1. DOMAIN ab = 1..(Len(a) + Len(b))
    BY <1>1
  <2>2. ASSUME NEW k \in 1..Len(a)
        PROVE  k \in DOMAIN ab /\ ab[k] = a[k]
    <3>1. k \in 1..(Len(a) + Len(b)) /\ k <= Len(a)
      BY <1>2
    <3> QED
      BY <1>1, <2>1, <3>1
  <2>3. ASSUME NEW k \in 1..Len(b)
        PROVE  k + Len(a) \in DOMAIN ab /\ ab[k + Len(a)] = b[k]
    <3>1. /\ k + Len(a) \in 1..(Len(a) + Len(b)) /\ ~(k + Len(a) <= Len(a))
          /\ (k + Len(a)) - Len(a) = k
      BY <1>2
    <3> QED
      BY <1>1, <2>1, <3>1
  <2>4. ASSUME NEW k \in 1..(Len(a) + Len(b))
        PROVE  k \in 1..Len(a) \/ (k - Len(a) \in 1..Len(b) /\ k = (k - Len(a)) + Len(a))
    BY <1>2
  <2> QED
    BY <2>1, <2>2, <2>3, <2>4
<1>4. ASSUME NEW i \in 1..Len(a)
      PROVE  PairedAt(ab, i)
  <2>1. PairedAt(a, i) /\ ab[i] = a[i] /\ a[i].n \in Nat
    BY <1>3, AcceptableIsPaired, EntryTypes DEF Paired
  <2>2. CASE a[i].role = "assistant"
    <3>1. \A k \in 1..a[i].n :
            i + k \in 1..Len(a) /\ a[i + k] = [role |-> "tool", of |-> a[i].of, n |-> k]
      BY <2>1, <2>2 DEF PairedAt
    <3>2. \A k \in 1..a[i].n : i + k \in DOMAIN ab /\ ab[i + k] = a[i + k]
      BY <1>3, <3>1
    <3> QED
      BY <2>1, <2>2, <3>1, <3>2 DEF PairedAt
  <2>3. CASE a[i].role = "tool"
    <3>1. i - a[i].n \in 1..Len(a) /\ a[i - a[i].n].role = "assistant"
          /\ a[i - a[i].n].n >= a[i].n
      BY <2>1, <2>3 DEF PairedAt
    <3> QED
      BY <1>3, <2>1, <2>3, <3>1 DEF PairedAt
  <2>4. CASE a[i].role # "assistant" /\ a[i].role # "tool"
    BY <2>1, <2>4 DEF PairedAt
  <2> QED
    BY <2>2, <2>3, <2>4
<1>5. ASSUME NEW i \in 1..Len(b)
      PROVE  PairedAt(ab, i + Len(a))
  <2> DEFINE at == i + Len(a)
  <2>1. PairedAt(b, i) /\ ab[at] = b[i] /\ b[i].n \in Nat
    BY <1>3, EntryTypes DEF Paired
  <2>2. CASE b[i].role = "assistant"
    <3>1. \A k \in 1..b[i].n :
            i + k \in 1..Len(b) /\ b[i + k] = [role |-> "tool", of |-> b[i].of, n |-> k]
      BY <2>1, <2>2 DEF PairedAt
    <3>2. \A k \in 1..b[i].n : /\ (i + k) + Len(a) = at + k
                               /\ at + k \in DOMAIN ab /\ ab[at + k] = b[i + k]
      <4> TAKE k \in 1..b[i].n
      <4>1. (i + k) + Len(a) = at + k
        BY <1>2, <2>1
      <4>2. i + k \in 1..Len(b)
        BY <3>1
      <4>3. (i + k) + Len(a) \in DOMAIN ab /\ ab[(i + k) + Len(a)] = b[i + k]
        BY <1>3, <4>2
      <4> QED
        BY <4>1, <4>3
    <3> HIDE DEF at
    <3> QED
      BY <2>1, <2>2, <3>1, <3>2 DEF PairedAt, at
  <2>3. CASE b[i].role = "tool"
    <3> DEFINE c == i - b[i].n
    <3>1. c \in 1..Len(b) /\ b[c].role = "assistant" /\ b[c].n >= b[i].n
      BY <2>1, <2>3 DEF PairedAt
    <3>2. c + Len(a) \in DOMAIN ab /\ ab[c + Len(a)] = b[c]
      BY <1>3, <3>1
    <3>3. c + Len(a) = at - b[i].n
      BY <1>2, <2>1
    <3> HIDE DEF at, c
    <3> QED
      BY <2>1, <2>3, <3>1, <3>2, <3>3 DEF PairedAt, at
  <2>4. CASE b[i].role # "assistant" /\ b[i].role # "tool"
    BY <2>1, <2>4 DEF PairedAt
  <2> QED
    BY <2>2, <2>3, <2>4
<1>6. Paired(ab)
  BY <1>3, <1>4, <1>5 DEF Paired
<1>7. ab # << >> => ab[1].role = "user"
  <2>1. CASE a # << >>
    <3>1. 1 \in 1..Len(a) /\ a[1].role = "user"
      BY <2>1, AcceptableIsPaired
    <3> QED
      BY <1>3, <3>1
  <2>2. CASE a = << >>
    <3>1. ab = b
      BY <2>2, ConcatEmptySeq DEF ab
    <3> QED
      BY <2>2, <3>1, AcceptableIsPaired
  <2> QED
    BY <2>1, <2>2
<1> QED
  BY <1>1, <1>6, <1>7, AcceptableIsPaired DEF ab

(* A buffer cut at a user message. *)
LEMMA SuffixAcceptable ==
  ASSUME NEW ms \in Seq(Message), Acceptable(ms),
         NEW from \in 1..Len(ms), ms[from].role = "user"
  PROVE  /\ SubSeq(ms, from, Len(ms)) \in Seq(Message)
         /\ Acceptable(SubSeq(ms, from, Len(ms)))
<1> DEFINE s == SubSeq(ms, from, Len(ms))
<1>1. /\ s \in Seq(Message) /\ Len(s) = Len(ms) - from + 1
      /\ \A k \in 1..(Len(ms) - from + 1) : s[k] = ms[from + k - 1]
  <2>1. /\ from \in Int /\ Len(ms) \in Int /\ from <= Len(ms) + 1
        /\ \A k \in from..Len(ms) : ms[k] \in Message
    OBVIOUS
  <2> QED
    BY <2>1, SubSeqProperties
<1> HIDE DEF s
<1>2. /\ \A k \in DOMAIN s : (k + from) - 1 \in from..Len(ms)
                             /\ s[k] = ms[(k + from) - 1] /\ k \in Nat
      /\ \A j \in from..Len(ms) : (j - from) + 1 \in DOMAIN s
                                  /\ s[(j - from) + 1] = ms[j]
  <2>1. from \in Nat /\ Len(ms) \in Nat /\ from >= 1 /\ from <= Len(ms)
    OBVIOUS
  <2>2. DOMAIN s = 1..((Len(ms) - from) + 1)
    BY <1>1
  <2>3. ASSUME NEW k \in 1..((Len(ms) - from) + 1)
        PROVE  (k + from) - 1 \in from..Len(ms) /\ s[k] = ms[(k + from) - 1] /\ k \in Nat
    <3>1. (k + from) - 1 \in from..Len(ms) /\ (k + from) - 1 = from + k - 1 /\ k \in Nat
      BY <2>1
    <3>2. s[k] = ms[from + k - 1]
      BY <1>1
    <3> QED
      BY <3>1, <3>2
  <2>4. ASSUME NEW j \in from..Len(ms)
        PROVE  (j - from) + 1 \in 1..((Len(ms) - from) + 1) /\ s[(j - from) + 1] = ms[j]
    <3>1. (j - from) + 1 \in 1..((Len(ms) - from) + 1)
          /\ (((j - from) + 1) + from) - 1 = j
      BY <2>1
    <3>2. s[(j - from) + 1] = ms[(((j - from) + 1) + from) - 1]
      BY <2>3, <3>1
    <3> QED
      BY <3>1, <3>2
  <2> QED
    BY <2>2, <2>3, <2>4
<1>3. ASSUME NEW i \in DOMAIN s
      PROVE  PairedAt(s, i)
  <2> DEFINE at == (i + from) - 1
  <2>1. /\ at \in from..Len(ms) /\ at \in 1..Len(ms) /\ s[i] = ms[at]
        /\ i = (at - from) + 1 /\ PairedAt(ms, at) /\ ms[at].n \in Nat
    <3>1. at \in from..Len(ms) /\ at \in 1..Len(ms) /\ s[i] = ms[at] /\ i \in Nat
      BY <1>2
    <3>2. i = (at - from) + 1
      BY <3>1
    <3>3. PairedAt(ms, at) /\ ms[at].n \in Nat
      BY <3>1, AcceptableIsPaired, EntryTypes DEF Paired
    <3> QED
      BY <3>1, <3>2, <3>3
  <2> HIDE DEF at
  <2>2. CASE ms[at].role = "assistant"
    <3>1. \A k \in 1..ms[at].n :
            at + k \in 1..Len(ms)
            /\ ms[at + k] = [role |-> "tool", of |-> ms[at].of, n |-> k]
      BY <2>1, <2>2 DEF PairedAt
    <3>2. \A k \in 1..ms[at].n : i + k \in DOMAIN s /\ s[i + k] = ms[at + k]
      <4> TAKE k \in 1..ms[at].n
      <4>1. at \in Int /\ from \in Int /\ Len(ms) \in Int /\ k \in Int /\ k >= 1
            /\ from <= at
        BY <2>1
      <4>2. at + k \in 1..Len(ms)
        BY <3>1
      <4>3. at + k \in from..Len(ms)
        BY <4>1, <4>2
      <4>4. ((at + k) - from) + 1 = i + k
        <5>1. i = (at - from) + 1
          BY <2>1
        <5> QED
          BY <4>1, <5>1
      <4> QED
        BY <1>2, <4>3, <4>4
    <3> QED
      BY <2>1, <2>2, <3>1, <3>2 DEF PairedAt
  <2>3. CASE ms[at].role = "tool"
    <3> DEFINE c == at - ms[at].n
    <3>1. c \in 1..Len(ms) /\ ms[c].role = "assistant" /\ ms[c].n >= ms[at].n
          /\ PairedAt(ms, c) /\ ms[c].n \in Nat
      <4>1. c \in 1..Len(ms) /\ ms[c].role = "assistant" /\ ms[c].n >= ms[at].n
        BY <2>1, <2>3 DEF PairedAt
      <4> QED
        BY <4>1, AcceptableIsPaired, EntryTypes DEF Paired
    <3>2. c \in from..Len(ms)
      <4> SUFFICES ASSUME c < from PROVE FALSE
        BY <3>1
      <4> DEFINE size == ms[c].n
      <4> DEFINE back == ms[at].n
      <4>1. c \in Int /\ from \in Int /\ at \in Int /\ from <= at
            /\ c = at - back /\ back \in Nat /\ size \in Nat /\ size >= back
        BY <2>1, <3>1
      <4>2. \A k \in 1..size : ms[c + k] = [role |-> "tool", of |-> ms[c].of, n |-> k]
        BY <3>1 DEF PairedAt
      <4> HIDE DEF size, c, back
      <4>3. from - c \in 1..size /\ c + (from - c) = from
        BY <4>1
      <4>4. ms[from] = [role |-> "tool", of |-> ms[c].of, n |-> from - c]
        BY <4>2, <4>3
      <4>5. ms[from].role = "tool"
        BY <4>4
      <4> QED
        BY <4>5
    <3>3. (c - from) + 1 \in DOMAIN s /\ s[(c - from) + 1] = ms[c]
      BY <1>2, <3>2
    <3>4. (c - from) + 1 = i - ms[at].n
      BY <2>1
    <3> HIDE DEF c
    <3>5. s[i].n = ms[at].n /\ s[i].role = "tool"
      BY <2>1, <2>3
    <3>6. /\ i - s[i].n \in DOMAIN s
          /\ s[i - s[i].n].role = "assistant" /\ s[i - s[i].n].n >= s[i].n
      BY <3>1, <3>3, <3>4, <3>5
    <3> QED
      BY <3>5, <3>6 DEF PairedAt
  <2>4. CASE ms[at].role # "assistant" /\ ms[at].role # "tool"
    BY <2>1, <2>4 DEF PairedAt
  <2> QED
    BY <2>2, <2>3, <2>4
<1>4. s[1].role = "user"
  <2>1. (from - from) + 1 = 1 /\ from \in from..Len(ms)
    OBVIOUS
  <2> QED
    BY <1>2, <2>1
<1>5. Acceptable(s)
  BY <1>3, <1>4, AcceptableIsPaired DEF Paired
<1> QED
  BY <1>1, <1>5 DEF s

LEMMA TrimAcceptable ==
  ASSUME NEW ms \in Seq(Message), Acceptable(ms)
  PROVE  Trim(ms) \in Seq(Message) /\ Acceptable(Trim(ms))
<1>1. CASE HistoryMaxTurns = 0
  <2>1. Trim(ms) = << >>
    BY <1>1, Zenon DEF Trim
  <2> QED
    BY <2>1 DEF Acceptable
<1>2. CASE HistoryMaxTurns # 0 /\ Cardinality(Users(ms)) < HistoryMaxTurns
  <2>1. Trim(ms) = ms
    BY <1>2, Zenon DEF Trim
  <2> QED
    BY <2>1
<1>3. CASE HistoryMaxTurns # 0 /\ ~(Cardinality(Users(ms)) < HistoryMaxTurns)
  <2> DEFINE from == CHOOSE i \in Users(ms) :
                       FromEnd(Users(ms), i) = HistoryMaxTurns
  <2>1. Trim(ms) = SubSeq(ms, from, Len(ms))
    BY <1>3, Zenon DEF Trim
  <2>2. from \in Users(ms)
    BY <1>3, TrimCuts
  <2>3. from \in 1..Len(ms) /\ ms[from].role = "user"
    BY <2>2 DEF Users
  <2> HIDE DEF from
  <2> QED
    BY <2>1, <2>3, SuffixAcceptable
<1> QED
  BY <1>1, <1>2, <1>3

LEMMA AnswerPaired ==
  ASSUME NEW r \in Request, NEW reply \in Replies
  PROVE  Answer(r, reply) \in Seq(Message) /\ Paired(Answer(r, reply))
<1> DEFINE call == [role |-> "assistant", of |-> r, n |-> Len(reply)]
           results == [k \in 1..Len(reply) |-> [role |-> "tool", of |-> r, n |-> k]]
           ms == Answer(r, reply)
<1>1. Len(reply) \in Nat
  BY ChatAssumption
<1>2. call \in Message /\ <<call>> \in Seq(Message) /\ Len(<<call>>) = 1
      /\ <<call>>[1] = call
  BY <1>1 DEF Message
<1>3. results \in Seq(Message) /\ Len(results) = Len(reply)
      /\ \A k \in 1..Len(reply) : results[k] = [role |-> "tool", of |-> r, n |-> k]
  <2>1. \A k \in 1..Len(reply) : [role |-> "tool", of |-> r, n |-> k] \in Message
    BY <1>1 DEF Message
  <2>2. results \in [1..Len(reply) -> Message]
    BY <2>1
  <2> QED
    BY <1>1, <2>2, IsASeq, LenProperties
<1>4. ms = <<call>> \o results
  BY DEF Answer
<1> HIDE DEF call, results
<1>5. /\ ms \in Seq(Message) /\ Len(ms) = Len(reply) + 1
      /\ \A k \in 1..(Len(reply) + 1) :
           ms[k] = IF k <= 1 THEN <<call>>[k] ELSE results[k - 1]
  <2>1. /\ <<call>> \o results \in Seq(Message)
        /\ Len(<<call>> \o results) = Len(<<call>>) + Len(results)
        /\ \A k \in 1..(Len(<<call>>) + Len(results)) :
             (<<call>> \o results)[k] =
               IF k <= Len(<<call>>) THEN <<call>>[k] ELSE results[k - Len(<<call>>)]
    BY <1>2, <1>3, ConcatProperties
  <2> HIDE DEF ms
  <2> QED
    BY <1>1, <1>2, <1>3, <1>4, <2>1
<1> HIDE DEF ms
<1>6. ms[1] = call /\ \A k \in 1..Len(reply) :
        1 + k \in DOMAIN ms /\ ms[1 + k] = [role |-> "tool", of |-> r, n |-> k]
  <2>1. ms[1] = call
    BY <1>1, <1>2, <1>5
  <2>2. ASSUME NEW k \in 1..Len(reply)
        PROVE  1 + k \in DOMAIN ms /\ ms[1 + k] = [role |-> "tool", of |-> r, n |-> k]
    <3>1. 1 + k \in 1..(Len(reply) + 1) /\ ~(1 + k <= 1) /\ (1 + k) - 1 = k
      BY <1>1
    <3> QED
      BY <1>3, <1>5, <3>1
  <2> QED
    BY <2>1, <2>2
<1>7. PairedAt(ms, 1)
  BY <1>6 DEF PairedAt, call
<1>8. ASSUME NEW i \in DOMAIN ms, i # 1
      PROVE  PairedAt(ms, i)
  <2>1. i - 1 \in 1..Len(reply) /\ 1 + (i - 1) = i
    BY <1>1, <1>5, <1>8
  <2>2. ms[i] = [role |-> "tool", of |-> r, n |-> i - 1]
    BY <1>6, <2>1
  <2>3. i - (i - 1) = 1 /\ 1 \in DOMAIN ms /\ Len(reply) >= i - 1
    BY <1>1, <1>5, <2>1
  <2> QED
    BY <1>6, <2>2, <2>3 DEF PairedAt, call
<1> QED
  BY <1>5, <1>7, <1>8 DEF Paired, ms

-----------------------------------------------------------------------------
(***************************************************************************)
(* The rate window.                                                        *)
(***************************************************************************)
FirstUnexpired(ages, limit, i) ==
  /\ i \in 1..(Len(ages) + 1)
  /\ i <= Len(ages) => ages[i] <= limit
  /\ \A j \in 1..(i - 1) : ages[j] > limit

LEMMA UnexpiredFrom ==
  ASSUME NEW ages \in Seq(Nat), NEW limit \in Nat,
         NEW first, FirstUnexpired(ages, limit, first)
  PROVE  Unexpired(ages, limit) = SubSeq(ages, first, Len(ages))
<1>1. \A i : FirstUnexpired(ages, limit, i) => i = first
  <2> TAKE i
  <2> HAVE FirstUnexpired(ages, limit, i)
  <2>1. i \in Nat /\ first \in Nat /\ Len(ages) \in Nat
    BY DEF FirstUnexpired
  <2>2. CASE i < first
    <3>1. i \in 1..(first - 1) /\ i <= Len(ages)
      BY <2>1, <2>2 DEF FirstUnexpired
    <3>2. ages[i] <= limit /\ ages[i] > limit /\ ages[i] \in Nat
      BY <2>1, <3>1 DEF FirstUnexpired
    <3> QED
      BY <3>2
  <2>3. CASE first < i
    <3>1. first \in 1..(i - 1) /\ first <= Len(ages)
      BY <2>1, <2>3 DEF FirstUnexpired
    <3>2. ages[first] <= limit /\ ages[first] > limit /\ ages[first] \in Nat
      BY <2>1, <3>1 DEF FirstUnexpired
    <3> QED
      BY <3>2
  <2> QED
    BY <2>1, <2>2, <2>3
<1> DEFINE chosen == CHOOSE i \in 1..(Len(ages) + 1) :
                       /\ i <= Len(ages) => ages[i] <= limit
                       /\ \A j \in 1..(i - 1) : ages[j] > limit
<1>2. FirstUnexpired(ages, limit, chosen)
  BY DEF FirstUnexpired
<1>3. chosen = first
  BY <1>1, <1>2
<1> QED
  BY <1>3, Zenon DEF Unexpired

LEMMA UnexpiredExists ==
  ASSUME NEW ages \in Seq(Nat), NEW limit \in Nat
  PROVE  \E first : FirstUnexpired(ages, limit, first)
<1> DEFINE T == {i \in 1..(Len(ages) + 1) : i <= Len(ages) => ages[i] <= limit}
<1>1. Len(ages) \in Nat /\ Len(ages) + 1 \in T
  OBVIOUS
<1>2. PICK first \in T : \A i \in T : first <= i
  <2>1. T \in SUBSET Nat /\ T # {}
    BY <1>1
  <2> HIDE DEF T
  <2> QED
    BY <2>1, Least
<1>3. ASSUME NEW j \in 1..(first - 1)
      PROVE  ages[j] > limit
  <2>1. first \in 1..(Len(ages) + 1)
    OBVIOUS
  <2>2. j \in 1..Len(ages) /\ ~(first <= j)
    BY <1>1, <2>1
  <2>3. j \notin T
    BY <1>2, <2>2
  <2>4. ages[j] \in Nat /\ ~(ages[j] <= limit)
    BY <1>1, <2>2, <2>3
  <2> QED
    BY <2>4
<1> QED
  BY <1>3 DEF FirstUnexpired

(* Nothing to drop. *)
LEMMA AllUnexpired ==
  ASSUME NEW limit \in Nat, NEW ages \in Seq(0..limit)
  PROVE  Unexpired(ages, limit) = ages
<1>1. ages \in Seq(Nat) /\ Len(ages) \in Nat
      /\ \A i \in 1..Len(ages) : ages[i] \in 0..limit
  BY ElementOfSeq
<1>2. FirstUnexpired(ages, limit, 1)
  BY <1>1 DEF FirstUnexpired
<1>3. Unexpired(ages, limit) = SubSeq(ages, 1, Len(ages))
  BY <1>1, <1>2, UnexpiredFrom
<1> QED
  BY <1>1, <1>3, SubSeqFull

(***************************************************************************)
(* Both the window and the history of admissions grow older by one unit:   *)
(* the entries the history loses are at its front, where the next request  *)
(* drops them from the window.                                             *)
(***************************************************************************)
Descending(ages) == \A i, j \in 1..Len(ages) : i < j => ages[j] <= ages[i]

LEMMA SuffixTyped ==
  ASSUME NEW ages \in Seq(Nat), NEW limit \in Nat,
         NEW first, FirstUnexpired(ages, limit, first)
  PROVE  LET s == SubSeq(ages, first, Len(ages))
         IN  /\ s \in Seq(Nat) /\ Len(s) = (Len(ages) - first) + 1
             /\ \A k \in 1..Len(s) : (first + k) - 1 \in first..Len(ages)
                                     /\ s[k] = ages[(first + k) - 1]
             /\ Descending(ages) => s \in Seq(0..limit) /\ Descending(s)
<1> DEFINE s == SubSeq(ages, first, Len(ages))
<1>1. first \in Nat /\ first >= 1 /\ Len(ages) \in Nat /\ first <= Len(ages) + 1
  BY DEF FirstUnexpired
<1>2. /\ s \in Seq(Nat)
      /\ Len(s) = IF first <= Len(ages) THEN Len(ages) - first + 1 ELSE 0
      /\ \A k \in 1..(Len(ages) - first + 1) : s[k] = ages[first + k - 1]
  <2>1. \A k \in first..Len(ages) : ages[k] \in Nat
    BY <1>1
  <2> QED
    BY <1>1, <2>1, SubSeqProperties
<1> HIDE DEF s
<1>3. Len(s) = (Len(ages) - first) + 1
  BY <1>1, <1>2
<1>4. ASSUME NEW k \in 1..Len(s)
      PROVE  (first + k) - 1 \in first..Len(ages) /\ s[k] = ages[(first + k) - 1]
  <2>1. k \in 1..(Len(ages) - first + 1) /\ (first + k) - 1 = first + k - 1
        /\ (first + k) - 1 \in first..Len(ages)
    BY <1>1, <1>3
  <2> QED
    BY <1>2, <2>1
<1>5. ASSUME Descending(ages)
      PROVE  s \in Seq(0..limit) /\ Descending(s)
  <2>1. ASSUME NEW k \in 1..Len(s)
        PROVE  s[k] \in 0..limit
    <3> DEFINE at == (first + k) - 1
    <3>1. at \in 1..Len(ages) /\ first \in 1..Len(ages) /\ (at = first \/ first < at)
      BY <1>1, <1>4
    <3>2. ages[at] \in Nat /\ ages[first] \in Nat /\ ages[first] <= limit
      BY <3>1 DEF FirstUnexpired
    <3>3. ages[at] <= ages[first]
      BY <1>5, <3>1, <3>2 DEF Descending
    <3>4. s[k] = ages[at]
      BY <1>4
    <3> HIDE DEF at
    <3> QED
      BY <3>2, <3>3, <3>4
  <2>2. ASSUME NEW i \in 1..Len(s), NEW j \in 1..Len(s), i < j
        PROVE  s[j] <= s[i]
    <3>1. (first + i) - 1 \in 1..Len(ages) /\ (first + j) - 1 \in 1..Len(ages)
          /\ (first + i) - 1 < (first + j) - 1
      BY <1>1, <1>4, <2>2
    <3>2. ages[(first + j) - 1] <= ages[(first + i) - 1]
      BY <1>5, <3>1 DEF Descending
    <3> QED
      BY <1>4, <3>2
  <2>3. s \in Seq(0..limit)
    BY <1>2, <2>1
  <2> QED
    BY <2>2, <2>3 DEF Descending
<1> QED
  BY <1>2, <1>3, <1>4, <1>5 DEF s

LEMMA MinOfTwo ==
  ASSUME NEW a \in Int, NEW b \in Int
  PROVE  Min({a, b}) = IF a <= b THEN a ELSE b
<1> DEFINE least == IF a <= b THEN a ELSE b
<1>1. least \in {a, b} /\ \A y \in {a, b} : least <= y
  OBVIOUS
<1>2. \A x \in {a, b} : (\A y \in {a, b} : x <= y) => x = least
  OBVIOUS
<1> QED
  BY <1>1, <1>2, Zenon DEF Min

Aged(ages) == [i \in DOMAIN ages |-> ages[i] + 1]
AgedCapped(ages) == [i \in DOMAIN ages |-> Min({ages[i] + 1, Minute + 1})]

LEMMA WindowAges ==
  ASSUME NEW w \in Seq(0..Minute + 1), NEW a \in Seq(0..Minute),
         a = Recent(w), Descending(a),
         NEW older, older = Aged(a),
         NEW w2, w2 = AgedCapped(w)
  PROVE  /\ w2 \in Seq(0..Minute + 1)
         /\ Unexpired(older, Minute) = Recent(w2)
         /\ Unexpired(older, Minute) \in Seq(0..Minute)
         /\ Descending(Unexpired(older, Minute))
         /\ Len(Unexpired(older, Minute)) <= Len(a)
<1>1. Minute \in Nat
  BY ChatAssumption
<1>2. w \in Seq(Nat) /\ a \in Seq(Nat)
      /\ (\A i \in 1..Len(w) : w[i] \in 0..Minute + 1)
      /\ (\A i \in 1..Len(a) : a[i] \in 0..Minute)
  BY <1>1, ElementOfSeq
<1>3. Len(w) \in Nat /\ Len(a) \in Nat
  BY <1>2
<1>4. PICK f : FirstUnexpired(w, Minute, f)
  BY <1>1, <1>2, UnexpiredExists
<1>5. a = SubSeq(w, f, Len(w))
  BY <1>1, <1>2, <1>4, UnexpiredFrom DEF Recent
<1>6. Len(a) = (Len(w) - f) + 1 /\ \A k \in 1..Len(a) : a[k] = w[(f + k) - 1]
  BY <1>1, <1>2, <1>4, <1>5, SuffixTyped
<1>7. f \in Nat /\ f >= 1 /\ f <= Len(w) + 1 /\ \A j \in 1..(f - 1) : w[j] > Minute
  BY <1>3, <1>4 DEF FirstUnexpired
<1>8. older \in Seq(Nat) /\ Len(older) = Len(a)
      /\ (\A k \in 1..Len(a) : older[k] = a[k] + 1)
  <2>1. DOMAIN a = 1..Len(a)
    BY <1>2
  <2>2. older \in [1..Len(a) -> Nat] /\ \A k \in 1..Len(a) : older[k] = a[k] + 1
    BY <1>2, <2>1 DEF Aged
  <2>3. older \in Seq(Nat)
    BY <1>3, <2>2
  <2>4. DOMAIN older = 1..Len(a)
    BY <2>2
  <2>5. Len(older) = Len(a)
    BY <1>3, <2>3, <2>4, LenProperties
  <2> QED
    BY <2>2, <2>3, <2>5
<1>9. Descending(older)
  BY <1>2, <1>8 DEF Descending
<1>10. w2 \in Seq(0..Minute + 1) /\ Len(w2) = Len(w)
       /\ \A k \in 1..Len(w) : w2[k] = IF w[k] <= Minute THEN w[k] + 1 ELSE Minute + 1
  <2>1. DOMAIN w = 1..Len(w)
    BY <1>2
  <2>2. ASSUME NEW k \in 1..Len(w)
        PROVE  Min({w[k] + 1, Minute + 1}) = (IF w[k] <= Minute THEN w[k] + 1 ELSE Minute + 1)
               /\ Min({w[k] + 1, Minute + 1}) \in 0..Minute + 1
    <3>1. w[k] \in Nat /\ w[k] + 1 \in Int /\ Minute + 1 \in Int
      BY <1>1, <1>2
    <3>2. Min({w[k] + 1, Minute + 1})
            = IF w[k] + 1 <= Minute + 1 THEN w[k] + 1 ELSE Minute + 1
      BY <3>1, MinOfTwo
    <3> QED
      BY <1>1, <3>1, <3>2
  <2>3. \A k \in 1..Len(w) : w2[k] = Min({w[k] + 1, Minute + 1})
    BY <2>1 DEF AgedCapped
  <2>4. w2 \in [1..Len(w) -> 0..Minute + 1]
    <3> DEFINE capped(k) == Min({w[k] + 1, Minute + 1})
    <3>1. w2 = [k \in 1..Len(w) |-> capped(k)]
      BY <2>1, Zenon DEF AgedCapped
    <3>2. \A k \in 1..Len(w) : capped(k) \in 0..Minute + 1
      BY <2>2
    <3> HIDE DEF capped
    <3> QED
      BY <3>1, <3>2
  <2>5. w2 \in Seq(0..Minute + 1) /\ DOMAIN w2 = 1..Len(w)
    <3> DEFINE T == 0..Minute + 1
    <3>1. w2 \in [1..Len(w) -> T]
      BY <2>4
    <3> HIDE DEF T
    <3>2. w2 \in Seq(T) /\ DOMAIN w2 = 1..Len(w)
      BY <1>3, <3>1
    <3> QED
      BY <3>2 DEF T
  <2>6. Len(w2) = Len(w)
    BY <1>3, <2>5, LenProperties
  <2> QED
    BY <2>2, <2>3, <2>5, <2>6
<1>11. PICK g : FirstUnexpired(older, Minute, g)
  BY <1>1, <1>8, UnexpiredExists
<1> DEFINE a2 == SubSeq(older, g, Len(older))
           at == (f + g) - 1
<1>12. Unexpired(older, Minute) = a2
  BY <1>1, <1>8, <1>11, UnexpiredFrom
<1>13. /\ a2 \in Seq(Nat) /\ Len(a2) = (Len(a) - g) + 1
       /\ \A k \in 1..Len(a2) : (g + k) - 1 \in g..Len(a) /\ a2[k] = older[(g + k) - 1]
  <2>1. older \in Seq(Nat) /\ Len(older) = Len(a)
    BY <1>8
  <2>2. /\ a2 \in Seq(Nat) /\ Len(a2) = (Len(older) - g) + 1
        /\ \A k \in 1..Len(a2) : (g + k) - 1 \in g..Len(older)
                                /\ a2[k] = older[(g + k) - 1]
    <3>1. Minute \in Nat /\ FirstUnexpired(older, Minute, g)
      BY <1>1, <1>11
    <3> QED
      BY <2>1, <3>1, SuffixTyped
  <2> HIDE DEF a2
  <2> QED
    BY <2>1, <2>2
<1>14. a2 \in Seq(0..Minute) /\ Descending(a2)
  BY <1>1, <1>8, <1>9, <1>11, SuffixTyped
<1>15. g \in Nat /\ g >= 1 /\ g <= Len(a) + 1
       /\ (g <= Len(a) => older[g] <= Minute) /\ \A j \in 1..(g - 1) : older[j] > Minute
  <2>1. /\ g \in 1..(Len(older) + 1) /\ Len(older) = Len(a)
        /\ g <= Len(older) => older[g] <= Minute
    BY <1>8, <1>11 DEF FirstUnexpired
  <2>2. \A j \in 1..(g - 1) : older[j] > Minute
    BY <1>11 DEF FirstUnexpired
  <2>3. g \in Nat /\ g >= 1 /\ g <= Len(a) + 1
    BY <1>3, <2>1
  <2> QED
    BY <2>1, <2>2, <2>3
<1>16. at \in Nat /\ at >= 1 /\ at <= Len(w) + 1 /\ Len(a2) = (Len(w) - at) + 1
  BY <1>3, <1>6, <1>7, <1>13, <1>15
(* what the window shows at the position of the history's k-th entry *)
<1>17. ASSUME NEW k \in 1..Len(a)
       PROVE  (f + k) - 1 \in 1..Len(w) /\ w2[(f + k) - 1] = older[k]
  <2>1. (f + k) - 1 \in 1..Len(w)
    BY <1>3, <1>6, <1>7
  <2>2. w[(f + k) - 1] = a[k] /\ a[k] <= Minute
    BY <1>1, <1>2, <1>6
  <2> QED
    BY <1>8, <1>10, <2>1, <2>2
<1>18. FirstUnexpired(w2, Minute, at)
  <2>1. ASSUME at <= Len(w)
        PROVE  w2[at] <= Minute
    <3>1. g \in 1..Len(a)
      BY <1>3, <1>6, <1>7, <1>15, <2>1
    <3>2. w2[(f + g) - 1] = older[g]
      BY <1>17, <3>1
    <3> QED
      BY <1>15, <3>1, <3>2
  <2>2. ASSUME NEW j \in 1..(at - 1)
        PROVE  w2[j] > Minute
    <3>1. CASE j < f
      <4>1. j \in 1..(f - 1) /\ j \in 1..Len(w)
        BY <1>3, <1>7, <3>1
      <4>2. w[j] > Minute /\ w[j] \in Nat
        BY <1>2, <1>7, <4>1
      <4>3. ~(w[j] <= Minute)
        BY <1>1, <4>2
      <4>4. w2[j] = Minute + 1
        BY <1>10, <4>1, <4>3
      <4> QED
        BY <1>1, <4>4
    <3>2. CASE ~(j < f)
      <4> DEFINE k == (j - f) + 1
      <4>1. k \in 1..(g - 1) /\ k \in 1..Len(a) /\ (f + k) - 1 = j
        BY <1>3, <1>6, <1>7, <1>15, <1>16, <3>2
      <4> HIDE DEF k
      <4>2. older[k] > Minute
        BY <1>15, <4>1
      <4>3. w2[(f + k) - 1] = older[k]
        BY <1>17, <4>1
      <4> QED
        BY <4>1, <4>2, <4>3
    <3> QED
      BY <3>1, <3>2
  <2>3. at \in 1..(Len(w2) + 1)
    BY <1>3, <1>10, <1>16
  <2> QED
    BY <1>10, <2>1, <2>2, <2>3 DEF FirstUnexpired
<1>19. PICK h : h = at /\ FirstUnexpired(w2, Minute, h)
  BY <1>18
<1> DEFINE r2 == SubSeq(w2, h, Len(w2))
<1>20. w2 \in Seq(Nat) /\ Recent(w2) = r2
  <2>1. w2 \in Seq(Nat)
    BY <1>1, <1>10
  <2> QED
    BY <1>1, <1>19, <2>1, UnexpiredFrom DEF Recent
<1>21. /\ r2 \in Seq(Nat) /\ Len(r2) = (Len(w) - at) + 1
       /\ \A k \in 1..Len(r2) : r2[k] = w2[(at + k) - 1]
  <2>1. r2 \in Seq(Nat)
    BY <1>1, <1>19, <1>20, SuffixTyped
  <2>2. Len(r2) = (Len(w2) - h) + 1
    BY <1>1, <1>19, <1>20, SuffixTyped
  <2>3. ASSUME NEW k \in 1..Len(r2)
        PROVE  (h + k) - 1 \in h..Len(w2) /\ r2[k] = w2[(h + k) - 1]
    <3> HIDE DEF at
    <3>1. FirstUnexpired(w2, Minute, h) /\ w2 \in Seq(Nat)
      BY <1>19, <1>20
    <3> QED
      BY <1>1, <3>1, SuffixTyped
  <2>4. Len(w2) = Len(w) /\ h = at
    BY <1>10, <1>19
  <2> HIDE DEF r2, at
  <2> QED
    BY <2>1, <2>2, <2>3, <2>4
<1>22. r2 = a2
  <2>1. ASSUME NEW k \in 1..Len(r2)
        PROVE  r2[k] = a2[k]
    <3>1. k \in 1..Len(a2) /\ r2[k] = w2[(at + k) - 1]
      BY <1>16, <1>21
    <3>2. (g + k) - 1 \in 1..Len(a) /\ (f + ((g + k) - 1)) - 1 = (at + k) - 1
      BY <1>3, <1>7, <1>13, <1>15, <3>1
    <3>3. w2[(f + ((g + k) - 1)) - 1] = older[(g + k) - 1]
      BY <1>17, <3>2
    <3>4. a2[k] = older[(g + k) - 1]
      BY <1>13, <3>1
    <3> QED
      BY <3>1, <3>2, <3>3, <3>4
  <2>2. Len(r2) = Len(a2)
    BY <1>16, <1>21
  <2> HIDE DEF r2, a2
  <2> QED
    BY <1>13, <1>21, <2>1, <2>2, SeqEqual
<1>23. Len(a2) <= Len(a)
  BY <1>3, <1>13, <1>15
<1> QED
  BY <1>10, <1>12, <1>14, <1>20, <1>22, <1>23

-----------------------------------------------------------------------------
(***************************************************************************)
(* The preview: every edit yields a stack of known layers whose selection  *)
(* is one of them.                                                         *)
(***************************************************************************)
StackOK(c) ==
  /\ c \in [layers : Seq(LayerId), selected : Nat]
  /\ c.layers = << >> \/ c.selected < Len(c.layers)

LEMMA ClampRange ==
  ASSUME NEW i \in Nat, NEW n \in Nat
  PROVE  Clamp(i, n) \in Nat /\ (n = 0 \/ Clamp(i, n) < n)
BY DEF Clamp

LEMMA ReselectRange ==
  ASSUME NEW selected \in Nat, NEW n \in Nat
  PROVE  Reselect(selected, n) \in Nat /\ (n = 0 \/ Reselect(selected, n) < n)
BY DEF Reselect, Clamp

LEMMA Inserted ==
  ASSUME NEW s \in Seq(LayerId), NEW i \in 1..(Len(s) + 1), NEW id \in LayerId
  PROVE  InsertAt(s, i, id) \in Seq(LayerId) /\ Len(InsertAt(s, i, id)) = Len(s) + 1
<1> DEFINE a == SubSeq(s, 1, i - 1)
           b == SubSeq(s, i, Len(s))
<1>1. Len(s) \in Nat /\ i \in Nat /\ i >= 1 /\ i <= Len(s) + 1
      /\ \A k \in 1..Len(s) : s[k] \in LayerId
  BY ElementOfSeq
<1>2. a \in Seq(LayerId) /\ Len(a) = i - 1
  <2>1. \A k \in 1..(i - 1) : s[k] \in LayerId
    BY <1>1
  <2> QED
    BY <1>1, <2>1, SubSeqProperties
<1>3. b \in Seq(LayerId) /\ Len(b) = Len(s) - i + 1
  <2>1. \A k \in i..Len(s) : s[k] \in LayerId
    BY <1>1
  <2> QED
    BY <1>1, <2>1, SubSeqProperties
<1> HIDE DEF a, b
<1>4. <<id>> \in Seq(LayerId) /\ Len(<<id>>) = 1
  OBVIOUS
<1>5. a \o <<id>> \in Seq(LayerId) /\ Len(a \o <<id>>) = Len(a) + 1
  BY <1>2, <1>4, ConcatProperties
<1>6. (a \o <<id>>) \o b \in Seq(LayerId)
      /\ Len((a \o <<id>>) \o b) = Len(a \o <<id>>) + Len(b)
  BY <1>3, <1>5, ConcatProperties
<1>7. InsertAt(s, i, id) = (a \o <<id>>) \o b
  BY Zenon DEF InsertAt, a, b
<1>8. Len(a \o <<id>>) + Len(b) = Len(s) + 1
  BY <1>1, <1>2, <1>3, <1>5
<1> QED
  BY <1>6, <1>7, <1>8

LEMMA Removed ==
  ASSUME NEW s \in Seq(LayerId), NEW i \in 1..Len(s)
  PROVE  RemoveAt(s, i) \in Seq(LayerId) /\ Len(RemoveAt(s, i)) = Len(s) - 1
<1> DEFINE a == SubSeq(s, 1, i - 1)
           b == SubSeq(s, i + 1, Len(s))
<1>1. Len(s) \in Nat /\ i \in Nat /\ i >= 1 /\ i <= Len(s)
      /\ \A k \in 1..Len(s) : s[k] \in LayerId
  BY ElementOfSeq
<1>2. a \in Seq(LayerId) /\ Len(a) = i - 1
  <2>1. \A k \in 1..(i - 1) : s[k] \in LayerId
    BY <1>1
  <2> QED
    BY <1>1, <2>1, SubSeqProperties
<1>3. b \in Seq(LayerId) /\ Len(b) = Len(s) - i
  <2>1. \A k \in (i + 1)..Len(s) : s[k] \in LayerId
    BY <1>1
  <2> QED
    BY <1>1, <2>1, SubSeqProperties
<1> HIDE DEF a, b
<1>4. a \o b \in Seq(LayerId) /\ Len(a \o b) = Len(a) + Len(b)
  BY <1>2, <1>3, ConcatProperties
<1>5. RemoveAt(s, i) = a \o b
  BY Zenon DEF RemoveAt, a, b
<1>6. Len(a) + Len(b) = Len(s) - 1
  BY <1>1, <1>2, <1>3
<1> QED
  BY <1>4, <1>5, <1>6

LEMMA EditsTyped ==
  ASSUME NEW c, StackOK(c), NEW index \in Nat
  PROVE  /\ StackOK(Selecting(c, index))
         /\ \A id \in LayerId : /\ StackOK(Replacing(c, index, id))
                                /\ StackOK(Inserting(c, index, id))
         /\ index < Len(c.layers) => StackOK(Removing(c, index))
         /\ \A dst \in Nat : index < Len(c.layers) /\ dst < Len(c.layers)
                               => StackOK(Reordering(c, index, dst))
<1> DEFINE s == c.layers
           n == Len(c.layers)
<1>1. s \in Seq(LayerId) /\ n \in Nat /\ c.selected \in Nat
      /\ (s = << >> \/ c.selected < n) /\ (s = << >> <=> n = 0)
      /\ c = [layers |-> s, selected |-> c.selected]
  BY DEF StackOK
<1>2. Clamp(index, n) \in Nat /\ (n = 0 \/ Clamp(index, n) < n)
  BY <1>1, ClampRange
<1>3. StackOK(Selecting(c, index))
  <2>1. Selecting(c, index) = [layers |-> s, selected |-> Clamp(index, n)]
    BY <1>1 DEF Selecting
  <2> HIDE DEF s, n
  <2> QED
    BY <1>1, <1>2, <2>1 DEF StackOK, n
<1>4. ASSUME NEW id \in LayerId
      PROVE  StackOK(Replacing(c, index, id))
  <2>1. CASE s = << >>
    <3>1. Replacing(c, index, id) = [layers |-> <<id>>, selected |-> Clamp(index, n)]
      BY <2>1, Zenon DEF Replacing
    <3>2. <<id>> \in Seq(LayerId) /\ Len(<<id>>) = 1
      OBVIOUS
    <3>3. Clamp(index, n) = 0
      BY <1>1, <2>1 DEF Clamp
    <3> QED
      BY <3>1, <3>2, <3>3 DEF StackOK
  <2>2. CASE s # << >>
    <3> DEFINE at == Clamp(index, n) + 1
               r == [s EXCEPT ![at] = id]
    <3>1. Replacing(c, index, id) = [layers |-> r, selected |-> Clamp(index, n)]
      BY <2>2, Zenon DEF Replacing, ReplaceAt
    <3>2. at \in 1..n
      BY <1>1, <1>2, <2>2
    <3> HIDE DEF at
    <3>3. r \in Seq(LayerId) /\ Len(r) = n
      BY <1>1, <3>2, ExceptSeq
    <3> HIDE DEF r
    <3> QED
      BY <1>1, <1>2, <2>2, <3>1, <3>3 DEF StackOK
  <2> QED
    BY <2>1, <2>2
<1>5. ASSUME NEW id \in LayerId
      PROVE  StackOK(Inserting(c, index, id))
  <2> DEFINE at == Clamp(index, n + 1)
             r == InsertAt(s, at + 1, id)
  <2>1. Inserting(c, index, id) = [layers |-> r, selected |-> at]
    BY DEF Inserting
  <2>2. at \in Nat /\ at < n + 1
    BY <1>1, ClampRange
  <2> HIDE DEF at
  <2>3. at + 1 \in 1..(n + 1)
    BY <1>1, <2>2
  <2>4. r \in Seq(LayerId) /\ Len(r) = n + 1
    BY <1>1, <2>3, Inserted
  <2> HIDE DEF r
  <2> QED
    BY <1>1, <2>1, <2>2, <2>4 DEF StackOK
<1>6. ASSUME index < n
      PROVE  StackOK(Removing(c, index))
  <2> DEFINE r == RemoveAt(s, index + 1)
             selected == Reselect(c.selected, Len(r))
  <2>1. Removing(c, index) = [layers |-> r, selected |-> selected]
    BY DEF Removing
  <2>2. index + 1 \in 1..n
    BY <1>1, <1>6
  <2>3. r \in Seq(LayerId) /\ Len(r) = n - 1
    BY <1>1, <2>2, Removed
  <2> HIDE DEF r
  <2>4. Len(r) \in Nat /\ (Len(r) = 0 => r = << >>)
    <3>1. r \in Seq(LayerId)
      BY <2>3
    <3> QED
      BY <3>1
  <2>5. selected \in Nat /\ (Len(r) = 0 \/ selected < Len(r))
    BY <1>1, <2>4, ReselectRange
  <2> HIDE DEF selected
  <2> QED
    BY <2>1, <2>3, <2>4, <2>5 DEF StackOK
<1>7. ASSUME NEW dst \in Nat, index < n, dst < n
      PROVE  StackOK(Reordering(c, index, dst))
  <2> DEFINE left == RemoveAt(s, index + 1)
             moved == s[index + 1]
             r == InsertAt(left, dst + 1, moved)
  <2>1. Reordering(c, index, dst) = [layers |-> r, selected |-> dst]
    BY DEF Reordering
  <2>2. index + 1 \in 1..n
    BY <1>1, <1>7
  <2>3. left \in Seq(LayerId) /\ Len(left) = n - 1
    BY <1>1, <2>2, Removed
  <2>4. moved \in LayerId
    BY <1>1, <2>2, ElementOfSeq
  <2> HIDE DEF left, moved
  <2>5. dst + 1 \in 1..(Len(left) + 1) /\ Len(left) + 1 = n
    BY <1>1, <1>7, <2>3
  <2>6. r \in Seq(LayerId) /\ Len(r) = n
    BY <2>3, <2>4, <2>5, Inserted
  <2> HIDE DEF r
  <2> QED
    BY <1>7, <2>1, <2>6 DEF StackOK
<1> QED
  BY <1>3, <1>4, <1>5, <1>6, <1>7

LEMMA KeepingTyped ==
  ASSUME NEW c, StackOK(c), NEW kept \in Survivors(c.layers)
  PROVE  StackOK(Keeping(c, kept))
<1> DEFINE s == c.layers
<1>1. PICK n \in Nat : kept \in [1..n -> 1..Len(s)]
  BY DEF Survivors, StackOK
<1> DEFINE r == [i \in DOMAIN kept |-> s[kept[i]]]
           selected == Reselect(c.selected, Len(kept))
<1>2. s \in Seq(LayerId) /\ c.selected \in Nat /\ \A k \in 1..Len(s) : s[k] \in LayerId
  BY ElementOfSeq DEF StackOK
<1>3. r \in [1..n -> LayerId]
  BY <1>1, <1>2
<1>4. r \in Seq(LayerId) /\ kept \in Seq(1..Len(s)) /\ DOMAIN r = 1..n /\ DOMAIN kept = 1..n
  BY <1>1, <1>3
<1>5. Len(r) = n /\ Len(kept) = n
  BY <1>4, LenProperties
<1>6. Keeping(c, kept) = [layers |-> r, selected |-> selected]
  BY DEF Keeping
<1> HIDE DEF r
<1>7. selected \in Nat /\ (n = 0 \/ selected < n)
  BY <1>2, <1>5, ReselectRange
<1> HIDE DEF selected
<1>8. n = 0 => r = << >>
  BY <1>4, <1>5, EmptySeq
<1> QED
  BY <1>4, <1>5, <1>6, <1>7, <1>8 DEF StackOK

-----------------------------------------------------------------------------
(***************************************************************************)
(* The inductive invariant.                                                *)
(*                                                                         *)
(* Buffers: what each request carries is acceptable, and its own messages  *)
(* start with its user message; Window: the history of admissions is the   *)
(* rate window without the expired entries at its front.                   *)
(***************************************************************************)
Buffers ==
  /\ Acceptable(messages)
  /\ \A r \in Waiting : /\ Acceptable(chat[r].history)
                        /\ Acceptable(chat[r].accumulated)
                        /\ chat[r].accumulated # << >>

Window ==
  /\ admitted = Recent(rateWindow)
  /\ Descending(admitted)
  /\ RateLimited

IInv == TypeOK /\ StackOK(preview) /\ Buffers /\ Window /\ PromptIsCurrent

Chat == [waiting : BOOLEAN, history : Seq(Message), accumulated : Seq(Message),
         attempt : 0..MaxAttempts, shown : LayerId \cup {NoLayer}, alone : BOOLEAN]

LEMMA ShownTyped ==
  ASSUME NEW c, StackOK(c)
  PROVE  Shown(c) \in LayerId \cup {NoLayer}
<1>1. CASE c.layers = << >>
  BY <1>1 DEF Shown
<1>2. CASE c.layers # << >>
  <2>1. c.selected + 1 \in 1..Len(c.layers) /\ c.layers \in Seq(LayerId)
    BY <1>2 DEF StackOK
  <2>2. c.layers[c.selected + 1] \in LayerId
    BY <2>1, ElementOfSeq
  <2> QED
    BY <1>2, <2>2 DEF Shown
<1> QED
  BY <1>1, <1>2

LEMMA IdleTyped == Idle \in Chat
<1>1. MaxAttempts \in Nat
  BY ChatAssumption DEF MaxAttempts
<1> QED
  BY <1>1 DEF Idle, Chat

LEMMA FreshTyped ==
  ASSUME NEW n \in Nat, NEW ids \in FreshIds(n)
  PROVE  /\ ids \in Seq(LayerId) /\ Len(ids) = n
         /\ \A i \in 1..n : ids[i] \in LayerId
<1>1. ids \in [1..n -> LayerId \ Known]
  BY DEF FreshIds
<1>2. ids \in Seq(LayerId) /\ DOMAIN ids = 1..n
  BY <1>1
<1> QED
  BY <1>1, <1>2, LenProperties

(***************************************************************************)
(* Steps that leave what the requests carry alone: the history of each is  *)
(* the same, and whoever counts as undisturbed still sees its layer.       *)
(***************************************************************************)
SameBuffers ==
  \A r \in Request :
    chat'[r].waiting => /\ chat[r].waiting
                        /\ chat'[r].history = chat[r].history
                        /\ chat'[r].accumulated = chat[r].accumulated

LEMMA DisturbKeeps ==
  ASSUME IInv, chat' = Disturb(chat)
  PROVE  chat' \in [Request -> Chat] /\ SameBuffers /\ PromptIsCurrent'
<1>1. chat \in [Request -> Chat]
  BY DEF IInv, TypeOK, Chat
<1>2. \A r \in Request : chat'[r] = [chat[r] EXCEPT !.alone = FALSE]
  BY DEF Disturb
<1>3. \A r \in Request : chat[r] \in Chat
  BY <1>1
<1>4. ASSUME NEW r \in Request
      PROVE  /\ chat'[r] \in Chat /\ ~chat'[r].alone
             /\ chat'[r].waiting = chat[r].waiting
             /\ chat'[r].history = chat[r].history
             /\ chat'[r].accumulated = chat[r].accumulated
  BY <1>2, <1>3 DEF Chat
<1>5. chat' \in [Request -> Chat]
  <2>1. chat' = [r \in Request |-> [chat[r] EXCEPT !.alone = FALSE]]
    BY DEF Disturb
  <2>2. \A r \in Request : [chat[r] EXCEPT !.alone = FALSE] \in Chat
    BY <1>2, <1>4
  <2> QED
    BY <2>1, <2>2, Zenon
<1>6. SameBuffers
  BY <1>4, Zenon DEF SameBuffers
<1>7. PromptIsCurrent'
  BY <1>4, Zenon DEF PromptIsCurrent, Waiting
<1> QED
  BY <1>5, <1>6, <1>7

LEMMA BuffersKept ==
  ASSUME Buffers, SameBuffers, Acceptable(messages')
  PROVE  Buffers'
<1>1. ASSUME NEW r \in Request, chat'[r].waiting
      PROVE  /\ Acceptable(chat'[r].history) /\ Acceptable(chat'[r].accumulated)
             /\ chat'[r].accumulated # << >>
  <2>1. /\ chat[r].waiting /\ chat'[r].history = chat[r].history
        /\ chat'[r].accumulated = chat[r].accumulated
    BY <1>1 DEF SameBuffers
  <2>2. r \in Waiting
    BY <2>1 DEF Waiting
  <2> QED
    BY <2>1, <2>2 DEF Buffers
<1> QED
  BY <1>1 DEF Buffers, Waiting

LEMMA NothingAcceptable == Acceptable(<< >>) /\ << >> \in Seq(Message)
BY DEF Acceptable

LEMMA WindowKept ==
  ASSUME Window, UNCHANGED <<rateWindow, admitted>>
  PROVE  Window'
BY DEF Window, RateLimited, Recent, Descending

LEMMA NoRequestsRecent == Recent(<< >>) = << >> /\ Descending(<< >>)
<1>1. Minute \in Nat /\ << >> \in Seq(0..Minute)
  BY ChatAssumption
<1>2. Recent(<< >>) = << >>
  BY <1>1, AllUnexpired DEF Recent
<1> QED
  BY <1>2 DEF Descending

(* Assembling the invariant after a step. *)
LEMMA Assembled ==
  ASSUME StackOK(preview)', messages' \in Seq(Message),
         turns' \in Seq([of : Request, answered : BOOLEAN]),
         rateWindow' \in Seq(0..Minute + 1), epoch' \in 0..MaxEpoch,
         chat' \in [Request -> Chat], admitted' \in Seq(0..Minute),
         Buffers', Window', PromptIsCurrent'
  PROVE  IInv'
<1>1. preview' \in [layers : Seq(LayerId), selected : Nat]
  BY DEF StackOK
<1> QED
  BY <1>1 DEF IInv, TypeOK, Chat

LEMMA Disassembled ==
  ASSUME IInv
  PROVE  /\ StackOK(preview) /\ messages \in Seq(Message)
         /\ turns \in Seq([of : Request, answered : BOOLEAN])
         /\ rateWindow \in Seq(0..Minute + 1) /\ epoch \in 0..MaxEpoch
         /\ chat \in [Request -> Chat] /\ admitted \in Seq(0..Minute)
         /\ Buffers /\ Window /\ PromptIsCurrent
         /\ \A r \in Request : chat[r] \in Chat
BY DEF IInv, TypeOK, Chat

LEMMA WipeKeeps ==
  ASSUME IInv, Wipe, StackOK(preview)'
  PROVE  IInv'
<1>1. epoch \in 0..MaxEpoch /\ MaxEpoch \in Nat /\ RateLimit \in Nat
  BY Disassembled, ChatAssumption
<1>2. /\ messages' = << >> /\ turns' = << >> /\ rateWindow' = << >>
      /\ admitted' = << >> /\ epoch' = epoch + 1 /\ epoch < MaxEpoch
      /\ chat' = Disturb(chat)
  BY DEF Wipe
<1>3. chat' \in [Request -> Chat] /\ SameBuffers /\ PromptIsCurrent'
  BY <1>2, DisturbKeeps
<1>4. Buffers'
  BY <1>2, <1>3, BuffersKept, NothingAcceptable, Disassembled
<1>5. Window'
  <2>1. Len(<< >>) <= RateLimit
    BY <1>1
  <2>2. Recent(rateWindow)' = << >> /\ Descending(admitted')
    BY <1>2, NoRequestsRecent DEF Recent
  <2> QED
    BY <1>2, <2>1, <2>2 DEF Window, RateLimited
<1>6. epoch' \in 0..MaxEpoch
  BY <1>1, <1>2
<1>7. << >> \in Seq(Message) /\ << >> \in Seq([of : Request, answered : BOOLEAN])
      /\ << >> \in Seq(0..Minute + 1) /\ << >> \in Seq(0..Minute)
  BY EmptySeq
<1> QED
  BY <1>2, <1>3, <1>4, <1>5, <1>6, <1>7, Assembled

LEMMA QuietKeeps ==
  ASSUME IInv, chat' = Disturb(chat), UNCHANGED session, StackOK(preview)'
  PROVE  IInv'
<1>1. UNCHANGED <<messages, turns, rateWindow, epoch, admitted>>
  BY DEF session
<1>2. chat' \in [Request -> Chat] /\ SameBuffers /\ PromptIsCurrent'
  BY DisturbKeeps
<1>3. Buffers' /\ Window'
  BY <1>1, <1>2, BuffersKept, WindowKept, Disassembled DEF Buffers
<1> QED
  BY <1>1, <1>2, <1>3, Disassembled, Assembled

LEMMA SameShownKeeps ==
  ASSUME IInv, UNCHANGED <<session, chat>>, StackOK(preview)',
         Shown(preview)' = Shown(preview)
  PROVE  IInv'
<1>1. UNCHANGED <<messages, turns, rateWindow, epoch, admitted, chat>>
  BY DEF session
<1>2. SameBuffers
  BY <1>1 DEF SameBuffers
<1>3. Buffers' /\ Window'
  BY <1>1, <1>2, BuffersKept, WindowKept, Disassembled DEF Buffers
<1>4. PromptIsCurrent'
  BY <1>1, Disassembled DEF PromptIsCurrent, Waiting
<1> QED
  BY <1>1, <1>3, <1>4, Disassembled, Assembled

-----------------------------------------------------------------------------
(***************************************************************************)
(* The operator's edits.                                                   *)
(***************************************************************************)
LEMMA SelectPreviewKeeps ==
  ASSUME IInv, NEW index \in Nat, SelectPreview(index)
  PROVE  IInv'
<1>1. StackOK(preview) /\ preview' = Selecting(preview, index)
  BY Disassembled DEF SelectPreview
<1>2. StackOK(preview)'
  BY <1>1, EditsTyped
<1>3. CASE preview'.selected # preview.selected
  BY <1>2, <1>3, WipeKeeps DEF SelectPreview
<1>4. CASE preview'.selected = preview.selected
  <2>1. preview'.layers = preview.layers
    BY <1>1 DEF StackOK, Selecting
  <2>2. Shown(preview)' = Shown(preview)
    BY <1>4, <2>1 DEF Shown
  <2> QED
    BY <1>2, <1>4, <2>2, SameShownKeeps DEF SelectPreview
<1> QED
  BY <1>3, <1>4

LEMMA LoadPreviewKeeps ==
  ASSUME IInv, NEW index \in Nat, NEW add \in BOOLEAN, LoadPreview(index, add)
  PROVE  IInv'
<1>1. PICK new \in FreshIds(1) :
        preview' = IF add THEN Inserting(preview, index, new[1])
                          ELSE Replacing(preview, index, new[1])
  BY DEF LoadPreview, Loaded
<1>2. new[1] \in LayerId
  BY FreshTyped
<1>3. StackOK(Inserting(preview, index, new[1]))
      /\ StackOK(Replacing(preview, index, new[1]))
  BY <1>2, EditsTyped, Disassembled
<1>4. StackOK(preview)'
  BY <1>1, <1>3
<1> QED
  BY <1>4, WipeKeeps DEF LoadPreview

LEMMA PullLiveToPreviewKeeps ==
  ASSUME IInv, NEW n \in Nat, NEW selected \in Nat, PullLiveToPreview(n, selected)
  PROVE  IInv'
<1>1. PICK clones \in FreshIds(n) :
        preview' = [layers |-> clones, selected |-> Clamp(selected, n)]
  BY DEF PullLiveToPreview
<1>2. clones \in Seq(LayerId) /\ Len(clones) = n
  BY FreshTyped
<1>3. Clamp(selected, n) \in Nat /\ (n = 0 \/ Clamp(selected, n) < n)
  BY ClampRange
<1>4. n = 0 => clones = << >>
  BY <1>2, EmptySeq
<1>5. StackOK(preview)'
  BY <1>1, <1>2, <1>3, <1>4 DEF StackOK
<1> QED
  BY <1>5, WipeKeeps DEF PullLiveToPreview

LEMMA WipingEditKeeps ==
  ASSUME IInv, WipingEdit
  PROVE  IInv'
<1>1. Index \subseteq Nat /\ 0..MaxLayers \subseteq Nat
  BY ChatAssumption DEF Index
<1>2. CASE DeleteSession \/ SavePreview \/ RenameEffect
  <2>1. Wipe /\ preview' = preview
    BY <1>2 DEF DeleteSession, SavePreview, RenameEffect
  <2>2. StackOK(preview)'
    BY <2>1, Disassembled
  <2> QED
    BY <2>1, <2>2, WipeKeeps
<1>3. ASSUME NEW index \in Index, SelectPreview(index)
      PROVE  IInv'
  BY <1>1, <1>3, SelectPreviewKeeps
<1>4. ASSUME NEW index \in Index, NEW add \in BOOLEAN, LoadPreview(index, add)
      PROVE  IInv'
  BY <1>1, <1>4, LoadPreviewKeeps
<1>5. ASSUME NEW n \in 0..MaxLayers, NEW selected \in Index,
             PullLiveToPreview(n, selected)
      PROVE  IInv'
  BY <1>1, <1>5, PullLiveToPreviewKeeps
<1> QED
  BY <1>2, <1>3, <1>4, <1>5 DEF WipingEdit

LEMMA QuietEditKeeps ==
  ASSUME IInv, QuietEdit
  PROVE  IInv'
<1>1. Index \subseteq Nat /\ StackOK(preview)
  BY ChatAssumption, Disassembled DEF Index
<1>2. ASSUME NEW index \in Index, RemovePreviewLayer(index)
      PROVE  IInv'
  <2>1. index < Len(preview.layers) /\ preview' = Removing(preview, index)
    BY <1>2 DEF RemovePreviewLayer
  <2>2. StackOK(preview)'
    BY <1>1, <2>1, EditsTyped
  <2> QED
    BY <1>2, <2>2, QuietKeeps DEF RemovePreviewLayer
<1>3. ASSUME NEW src \in Index, NEW dst \in Index, ReorderPreviewLayer(src, dst)
      PROVE  IInv'
  <2>1. src < Len(preview.layers) /\ dst < Len(preview.layers)
        /\ preview' = Reordering(preview, src, dst)
    BY <1>3 DEF ReorderPreviewLayer
  <2>2. StackOK(preview)'
    BY <1>1, <2>1, EditsTyped
  <2> QED
    BY <1>3, <2>2, QuietKeeps DEF ReorderPreviewLayer
<1>4. CASE SwapTopology
  <2>1. PICK kept \in Survivors(preview.layers) : preview' = Keeping(preview, kept)
    BY <1>4 DEF SwapTopology
  <2>2. StackOK(preview)'
    BY <1>1, <2>1, KeepingTyped
  <2> QED
    BY <1>4, <2>2, QuietKeeps DEF SwapTopology
<1> QED
  BY <1>2, <1>3, <1>4 DEF QuietEdit

-----------------------------------------------------------------------------
(***************************************************************************)
(* The requests.                                                           *)
(***************************************************************************)
LEMMA PostChatKeeps ==
  ASSUME IInv, NEW r \in Request, PostChat(r)
  PROVE  IInv'
<1> DEFINE posted == [waiting |-> TRUE, history |-> messages,
                      accumulated |-> <<UserMessage(r)>>, attempt |-> 1,
                      shown |-> Shown(preview), alone |-> TRUE]
<1>1. /\ chat' = [chat EXCEPT ![r] = posted]
      /\ UNCHANGED <<preview, messages, turns, epoch>>
      /\ rateWindow' = IF RateLimit = 0 THEN rateWindow ELSE Append(Recent(rateWindow), 0)
      /\ admitted' = IF RateLimit = 0 THEN admitted ELSE Append(admitted, 0)
      /\ Admissible
  BY DEF PostChat
<1>2. /\ StackOK(preview) /\ messages \in Seq(Message) /\ Acceptable(messages)
      /\ chat \in [Request -> Chat] /\ admitted \in Seq(0..Minute)
      /\ rateWindow \in Seq(0..Minute + 1) /\ Window /\ Buffers /\ PromptIsCurrent
  BY Disassembled DEF Buffers
<1>3. Minute \in Nat /\ RateLimit \in Nat /\ MaxAttempts \in Nat /\ 1 \in 0..MaxAttempts
  BY ChatAssumption DEF MaxAttempts
<1>4. <<UserMessage(r)>> \in Seq(Message) /\ Acceptable(<<UserMessage(r)>>)
      /\ <<UserMessage(r)>> # << >>
  <2>1. UserMessage(r) \in Message /\ UserMessage(r).role = "user"
    BY DEF UserMessage, Message
  <2> DEFINE m == UserMessage(r)
  <2> HIDE DEF m
  <2>2. <<m>> \in Seq(Message) /\ <<m>> # << >> /\ Len(<<m>>) = 1 /\ <<m>>[1] = m
        /\ DOMAIN <<m>> = {1}
    BY <2>1 DEF m
  <2>3. PairedAt(<<m>>, 1)
    BY <2>1, <2>2 DEF PairedAt, m
  <2> QED
    BY <2>1, <2>2, <2>3, AcceptableIsPaired DEF Paired, m
<1>5. posted \in Chat
  BY <1>2, <1>3, <1>4, ShownTyped DEF Chat
<1>6. chat' \in [Request -> Chat] /\ chat'[r] = posted
      /\ \A o \in Request \ {r} : chat'[o] = chat[o]
  <2> HIDE DEF posted
  <2> QED
    BY <1>1, <1>2, <1>5
<1>7. Buffers'
  <2>1. ASSUME NEW o \in Request, chat'[o].waiting
        PROVE  /\ Acceptable(chat'[o].history) /\ Acceptable(chat'[o].accumulated)
               /\ chat'[o].accumulated # << >>
    <3>1. CASE o = r
      <4> DEFINE own == <<UserMessage(r)>>
      <4>1. chat'[o].history = messages /\ chat'[o].accumulated = own
        BY <1>6, <3>1
      <4>2. Acceptable(own) /\ own # << >>
        BY <1>4
      <4> HIDE DEF own
      <4> QED
        BY <1>2, <4>1, <4>2, Zenon
    <3>2. CASE o # r
      BY <1>2, <1>6, <2>1, <3>2 DEF Buffers, Waiting
    <3> QED
      BY <3>1, <3>2
  <2> QED
    BY <1>1, <1>2, <2>1 DEF Buffers, Waiting
<1>8. PromptIsCurrent'
  <2>1. ASSUME NEW o \in Request, chat'[o].waiting, chat'[o].alone
        PROVE  Shown(preview) = chat'[o].shown
    <3>1. CASE o = r
      BY <1>6, <3>1
    <3>2. CASE o # r
      BY <1>2, <1>6, <2>1, <3>2 DEF PromptIsCurrent, Waiting
    <3> QED
      BY <3>1, <3>2
  <2> QED
    BY <1>1, <2>1 DEF PromptIsCurrent, Waiting
<1>9. Window' /\ rateWindow' \in Seq(0..Minute + 1) /\ admitted' \in Seq(0..Minute)
  <2>1. CASE RateLimit = 0
    BY <1>1, <1>2, <2>1, WindowKept
  <2>2. CASE RateLimit # 0
    <3>1. rateWindow' = Append(admitted, 0) /\ admitted' = Append(admitted, 0)
      BY <1>1, <1>2, <2>2 DEF Window
    <3>2. 0 \in 0..Minute
      BY <1>3
    <3> DEFINE a == Append(admitted, 0)
    <3>3. /\ a \in Seq(0..Minute) /\ Len(a) = Len(admitted) + 1
          /\ \A k \in 1..Len(admitted) : a[k] = admitted[k]
          /\ a[Len(admitted) + 1] = 0
      BY <1>2, <3>2, AppendProperties
    <3> HIDE DEF a
    <3>4. Recent(a) = a
      BY <1>3, <3>3, AllUnexpired DEF Recent
    <3>5. Len(admitted) < RateLimit /\ Len(admitted) \in Nat
      BY <1>1, <1>2, <2>2 DEF Admissible, Window
    <3>6. Descending(a)
      <4>1. \A k \in 1..Len(a) : a[k] \in Nat
        BY <1>3, <3>3, ElementOfSeq
      <4>2. ASSUME NEW i \in 1..Len(a), NEW j \in 1..Len(a), i < j
            PROVE  a[j] <= a[i]
        <5>1. i \in 1..Len(admitted)
          BY <3>3, <3>5, <4>2
        <5>2. CASE j = Len(admitted) + 1
          BY <3>3, <4>1, <5>2
        <5>3. CASE j # Len(admitted) + 1
          <6>1. j \in 1..Len(admitted)
            BY <3>3, <3>5, <5>3
          <6>2. admitted[j] <= admitted[i]
            BY <1>2, <4>2, <5>1, <6>1 DEF Window, Descending
          <6> QED
            BY <3>3, <5>1, <6>1, <6>2
        <5> QED
          BY <5>2, <5>3
      <4> QED
        BY <4>2 DEF Descending
    <3>7. Len(a) <= RateLimit
      BY <1>3, <3>3, <3>5
    <3>8. a \in Seq(0..Minute + 1)
      <4>1. 0..Minute \subseteq 0..Minute + 1
        BY <1>3
      <4> QED
        BY <3>3, <4>1, SeqMonotonic
    <3>9. rateWindow' = a /\ admitted' = a
      BY <3>1 DEF a
    <3>10. Recent(rateWindow)' = Recent(a)
      BY <3>9 DEF Recent
    <3> QED
      BY <3>3, <3>4, <3>6, <3>7, <3>8, <3>9, <3>10 DEF Window, RateLimited
  <2> QED
    BY <2>1, <2>2
<1> QED
  BY <1>1, <1>6, <1>7, <1>8, <1>9, Disassembled, Assembled

LEMMA RefuseChatKeeps ==
  ASSUME IInv, RefuseChat
  PROVE  IInv'
<1>1. rateWindow' = admitted /\ admitted' = admitted
      /\ UNCHANGED <<preview, messages, turns, epoch, chat>>
  BY Disassembled DEF RefuseChat, Window
<1>2. Minute \in Nat /\ admitted \in Seq(0..Minute)
  BY ChatAssumption, Disassembled
<1>3. admitted \in Seq(0..Minute + 1)
  <2>1. 0..Minute \subseteq 0..Minute + 1
    BY <1>2
  <2> QED
    BY <1>2, <2>1, SeqMonotonic
<1>4. Recent(admitted) = admitted
  BY <1>2, AllUnexpired DEF Recent
<1>5. Recent(rateWindow)' = Recent(admitted)
  BY <1>1 DEF Recent
<1>6. Window'
  BY <1>1, <1>4, <1>5, Disassembled DEF Window, RateLimited, Descending
<1>7. SameBuffers /\ PromptIsCurrent'
  BY <1>1, Disassembled DEF SameBuffers, PromptIsCurrent, Waiting
<1>8. Buffers'
  BY <1>1, <1>7, BuffersKept, Disassembled DEF Buffers
<1> QED
  BY <1>1, <1>2, <1>3, <1>6, <1>7, <1>8, Disassembled, Assembled

LEMMA TickKeeps ==
  ASSUME IInv, Tick
  PROVE  IInv'
<1>1. /\ rateWindow' = AgedCapped(rateWindow)
      /\ admitted' = Unexpired(Aged(admitted), Minute)
      /\ UNCHANGED <<preview, messages, turns, epoch, chat>>
  BY DEF Tick, Aged, AgedCapped
<1>2. /\ rateWindow \in Seq(0..Minute + 1) /\ admitted \in Seq(0..Minute)
      /\ admitted = Recent(rateWindow) /\ Descending(admitted) /\ RateLimited
  BY Disassembled DEF Window
<1>3. /\ rateWindow' \in Seq(0..Minute + 1) /\ admitted' = Recent(rateWindow')
      /\ admitted' \in Seq(0..Minute) /\ Descending(admitted')
      /\ Len(admitted') <= Len(admitted)
  BY <1>1, <1>2, WindowAges
<1>4. RateLimited'
  <2>1. Len(admitted) \in Nat /\ Len(admitted') \in Nat /\ RateLimit \in Nat
    BY <1>2, <1>3, ChatAssumption
  <2> QED
    BY <1>2, <1>3, <2>1 DEF RateLimited
<1>5. Window'
  BY <1>3, <1>4 DEF Window, Recent, Descending
<1>6. SameBuffers /\ PromptIsCurrent'
  BY <1>1, Disassembled DEF SameBuffers, PromptIsCurrent, Waiting
<1>7. Buffers'
  BY <1>1, <1>6, BuffersKept, Disassembled DEF Buffers
<1> QED
  BY <1>1, <1>3, <1>5, <1>6, <1>7, Disassembled, Assembled

(***************************************************************************)
(* The end of a request, and the effect of a reply on the others.          *)
(***************************************************************************)
LEMMA EndedKeeps ==
  ASSUME NEW chats \in [Request -> Chat], NEW r \in Request,
         chat' = [chats EXCEPT ![r] = Idle],
         Buffers, Acceptable(messages'),
         \A o \in Request \ {r} :
           /\ chats[o].waiting => chat[o].waiting
           /\ chats[o].history = chat[o].history
           /\ chats[o].accumulated = chat[o].accumulated
           /\ chats[o].waiting /\ chats[o].alone => Shown(preview)' = chats[o].shown
  PROVE  chat' \in [Request -> Chat] /\ Buffers' /\ PromptIsCurrent'
<1>1. /\ chat' \in [Request -> Chat] /\ chat'[r] = Idle
      /\ \A o \in Request \ {r} : chat'[o] = chats[o]
  BY IdleTyped
<1>2. ~chat'[r].waiting
  BY <1>1 DEF Idle
<1>3. SameBuffers
  <2>1. ASSUME NEW o \in Request, chat'[o].waiting
        PROVE  /\ chat[o].waiting /\ chat'[o].history = chat[o].history
               /\ chat'[o].accumulated = chat[o].accumulated
    <3>1. o \in Request \ {r}
      BY <1>2, <2>1
    <3> QED
      BY <1>1, <2>1, <3>1
  <2> QED
    BY <2>1 DEF SameBuffers
<1>4. PromptIsCurrent'
  <2>1. ASSUME NEW o \in Request, chat'[o].waiting, chat'[o].alone
        PROVE  Shown(preview)' = chat'[o].shown
    <3>1. o \in Request \ {r}
      BY <1>2, <2>1
    <3> QED
      BY <1>1, <2>1, <3>1
  <2> QED
    BY <2>1 DEF PromptIsCurrent, Waiting, Shown
<1> QED
  BY <1>1, <1>3, <1>4, BuffersKept

LEMMA UndisturbedSee ==
  ASSUME IInv
  PROVE  \A o \in Request : chat[o].waiting /\ chat[o].alone
                              => Shown(preview) = chat[o].shown
BY Disassembled DEF PromptIsCurrent, Waiting

LEMMA FailCallKeeps ==
  ASSUME IInv, NEW r \in Request, FailCall(r)
  PROVE  IInv'
<1>1. /\ chat' = [chat EXCEPT ![r] = Idle]
      /\ turns' = Append(turns, [of |-> r, answered |-> FALSE])
      /\ UNCHANGED <<preview, messages, rateWindow, epoch, admitted>>
  BY DEF FailCall
<1>2. chat' \in [Request -> Chat] /\ Buffers' /\ PromptIsCurrent'
  <2>1. /\ chat \in [Request -> Chat] /\ Buffers /\ Acceptable(messages')
        /\ Shown(preview)' = Shown(preview)
    BY <1>1, Disassembled DEF Buffers, Shown
  <2> QED
    BY <1>1, <2>1, UndisturbedSee, EndedKeeps
<1>3. turns' \in Seq([of : Request, answered : BOOLEAN])
  BY <1>1, Disassembled, AppendProperties
<1> QED
  BY <1>1, <1>2, <1>3, WindowKept, Disassembled, Assembled

LEMMA VanishKeeps ==
  ASSUME IInv, NEW r \in Request, Vanish(r)
  PROVE  IInv'
<1>1. /\ chat' = [chat EXCEPT ![r] = Idle]
      /\ UNCHANGED <<preview, messages, turns, rateWindow, epoch, admitted>>
  BY DEF Vanish, session
<1>2. chat' \in [Request -> Chat] /\ Buffers' /\ PromptIsCurrent'
  <2>1. /\ chat \in [Request -> Chat] /\ Buffers /\ Acceptable(messages')
        /\ Shown(preview)' = Shown(preview)
    BY <1>1, Disassembled DEF Buffers, Shown
  <2> QED
    BY <1>1, <2>1, UndisturbedSee, EndedKeeps
<1> QED
  BY <1>1, <1>2, WindowKept, Disassembled, Assembled

LEMMA OthersTyped ==
  ASSUME IInv, NEW r \in Request, NEW reply, ApplyWriteEffect(reply)
  PROVE  /\ StackOK(preview)'
         /\ Others(r, reply) \in [Request -> Chat]
         /\ \A o \in Request :
              /\ Others(r, reply)[o].waiting = chat[o].waiting
              /\ Others(r, reply)[o].history = chat[o].history
              /\ Others(r, reply)[o].accumulated = chat[o].accumulated
              /\ Others(r, reply)[o].attempt = chat[o].attempt
         /\ \A o \in Request \ {r} :
              Others(r, reply)[o].waiting /\ Others(r, reply)[o].alone
                => Shown(preview)' = Others(r, reply)[o].shown
<1> DEFINE O == Others(r, reply)
           undisturbed(o) == o = r \/ ~Installs(reply)
<1>1. StackOK(preview) /\ chat \in [Request -> Chat]
      /\ \A o \in Request : chat[o] \in Chat
  BY Disassembled
<1>2. StackOK(preview)' /\ (~Installs(reply) => preview' = preview)
  <2>1. CASE Installs(reply)
    <3>1. PICK new \in FreshIds(1) :
            preview' = Replacing(preview, preview.selected, new[1])
      BY <2>1 DEF ApplyWriteEffect
    <3>2. new[1] \in LayerId /\ preview.selected \in Nat
      BY <1>1, FreshTyped DEF StackOK
    <3> QED
      BY <1>1, <2>1, <3>1, <3>2, EditsTyped
  <2>2. CASE ~Installs(reply)
    <3>1. preview' = preview
      BY <2>2 DEF ApplyWriteEffect
    <3> QED
      BY <1>1, <3>1
  <2> QED
    BY <2>1, <2>2
<1> HIDE DEF undisturbed
<1>3. O = [o \in Request |-> [chat[o] EXCEPT !.alone = @ /\ undisturbed(o)]]
  BY Zenon DEF Others, undisturbed
<1>4. ASSUME NEW o \in Request
      PROVE  /\ [chat[o] EXCEPT !.alone = @ /\ undisturbed(o)] \in Chat
             /\ O[o].waiting = chat[o].waiting
             /\ O[o].history = chat[o].history
             /\ O[o].accumulated = chat[o].accumulated
             /\ O[o].attempt = chat[o].attempt
             /\ O[o].shown = chat[o].shown
             /\ O[o].alone = (chat[o].alone /\ undisturbed(o))
  <2>1. O[o] = [chat[o] EXCEPT !.alone = @ /\ undisturbed(o)]
    BY <1>3
  <2> HIDE DEF O
  <2>2. chat[o] \in Chat /\ (chat[o].alone /\ undisturbed(o)) \in BOOLEAN
    BY <1>1
  <2> QED
    BY <2>1, <2>2 DEF Chat
<1>5. O \in [Request -> Chat]
  BY <1>3, <1>4, Zenon
<1>6. ASSUME NEW o \in Request \ {r}, O[o].waiting, O[o].alone
      PROVE  Shown(preview)' = O[o].shown
  <2>1. chat[o].waiting /\ chat[o].alone /\ undisturbed(o)
    BY <1>4, <1>6, Zenon
  <2>2. preview' = preview
    BY <1>2, <2>1 DEF undisturbed
  <2>3. Shown(preview)' = Shown(preview)
    BY <2>2 DEF Shown
  <2>4. Shown(preview) = chat[o].shown
    BY <2>1, UndisturbedSee
  <2> QED
    BY <1>4, <2>3, <2>4
<1> HIDE DEF O
<1> QED
  BY <1>2, <1>4, <1>5, <1>6 DEF O

LEMMA RecordTurnKeeps ==
  ASSUME IInv, NEW r \in Request, NEW reply \in Replies, chat[r].waiting,
         ApplyWriteEffect(reply), RecordTurn(r, reply)
  PROVE  IInv'
<1> DEFINE O == Others(r, reply)
           own == chat[r].accumulated
           answer == Answer(r, reply)
           all == messages \o own \o answer
<1>1. /\ messages' = Trim(all)
      /\ turns' = Append(turns, [of |-> r, answered |-> TRUE])
      /\ chat' = [O EXCEPT ![r] = Idle]
      /\ UNCHANGED <<rateWindow, epoch, admitted>>
  BY DEF RecordTurn
<1>2. /\ messages \in Seq(Message) /\ Acceptable(messages) /\ Buffers
      /\ own \in Seq(Message) /\ Acceptable(own) /\ own # << >>
  BY Disassembled DEF Chat, Buffers, Waiting
<1>3. answer \in Seq(Message) /\ Paired(answer)
  BY AnswerPaired
<1> HIDE DEF own, answer
<1>4. Acceptable(messages \o own) /\ messages \o own \in Seq(Message)
  BY <1>2, AcceptableIsPaired, ConcatAcceptable
<1>5. messages \o own # << >>
  <2>1. Len(messages \o own) = Len(messages) + Len(own)
    BY <1>2, ConcatProperties
  <2>2. Len(messages) \in Nat /\ Len(own) \in Nat \ {0}
    BY <1>2, EmptySeq
  <2>3. Len(messages \o own) # 0
    BY <2>1, <2>2
  <2> QED
    BY <2>3, EmptySeq
<1>6. Acceptable(all) /\ all \in Seq(Message)
  <2> DEFINE front == messages \o own
  <2> HIDE DEF front
  <2>1. front \in Seq(Message) /\ Acceptable(front) /\ front # << >>
    BY <1>4, <1>5 DEF front
  <2>2. Acceptable(front \o answer) /\ front \o answer \in Seq(Message)
    BY <1>3, <2>1, ConcatAcceptable
  <2> QED
    BY <2>2 DEF front
<1> HIDE DEF all
<1>7. messages' \in Seq(Message) /\ Acceptable(messages')
  BY <1>1, <1>6, TrimAcceptable
<1>8. /\ StackOK(preview)' /\ O \in [Request -> Chat]
      /\ \A o \in Request : /\ O[o].waiting = chat[o].waiting
                            /\ O[o].history = chat[o].history
                            /\ O[o].accumulated = chat[o].accumulated
      /\ \A o \in Request \ {r} : O[o].waiting /\ O[o].alone
                                    => Shown(preview)' = O[o].shown
  BY OthersTyped
<1> HIDE DEF O
<1>9. chat' \in [Request -> Chat] /\ Buffers' /\ PromptIsCurrent'
  BY <1>1, <1>2, <1>7, <1>8, EndedKeeps
<1>10. turns' \in Seq([of : Request, answered : BOOLEAN])
  BY <1>1, Disassembled, AppendProperties
<1> QED
  BY <1>1, <1>7, <1>8, <1>9, <1>10, WindowKept, Disassembled, Assembled

LEMMA RetryKeeps ==
  ASSUME IInv, NEW r \in Request, NEW reply \in Replies, chat[r].waiting,
         ApplyWriteEffect(reply), ~Exhausted(r), Retry(r, reply)
  PROVE  IInv'
<1> DEFINE O == Others(r, reply)
           longer == chat[r].accumulated \o Answer(r, reply)
<1>1. /\ chat' = [O EXCEPT ![r].accumulated = @ \o Answer(r, reply),
                           ![r].attempt = @ + 1, ![r].shown = Shown(preview')]
      /\ UNCHANGED <<messages, turns, rateWindow, epoch, admitted>>
  BY DEF Retry, session
<1>2. /\ StackOK(preview)' /\ O \in [Request -> Chat]
      /\ \A o \in Request : /\ O[o].waiting = chat[o].waiting
                            /\ O[o].history = chat[o].history
                            /\ O[o].accumulated = chat[o].accumulated
                            /\ O[o].attempt = chat[o].attempt
      /\ \A o \in Request \ {r} : O[o].waiting /\ O[o].alone
                                    => Shown(preview)' = O[o].shown
  BY OthersTyped
<1>3. /\ chat[r] \in Chat /\ Buffers /\ chat[r].accumulated \in Seq(Message)
      /\ Acceptable(chat[r].accumulated) /\ chat[r].accumulated # << >>
      /\ Acceptable(chat[r].history)
  BY Disassembled DEF Chat, Buffers, Waiting
<1>4. Answer(r, reply) \in Seq(Message) /\ Paired(Answer(r, reply))
  BY AnswerPaired
<1>5. Acceptable(longer) /\ longer \in Seq(Message)
  BY <1>3, <1>4, ConcatAcceptable
<1>6. longer # << >>
  <2>1. Len(longer) = Len(chat[r].accumulated) + Len(Answer(r, reply))
    BY <1>3, <1>4, ConcatProperties
  <2>2. Len(chat[r].accumulated) \in Nat \ {0} /\ Len(Answer(r, reply)) \in Nat
    BY <1>3, <1>4, EmptySeq
  <2>3. Len(longer) # 0
    BY <2>1, <2>2
  <2> QED
    BY <2>3, EmptySeq
<1>7. MaxAttempts \in Nat /\ chat[r].attempt \in 0..MaxAttempts
      /\ chat[r].attempt + 1 \in 0..MaxAttempts
  <2>1. MaxAttempts \in Nat
    BY ChatAssumption DEF MaxAttempts
  <2>2. chat[r].attempt \in 0..MaxAttempts
    BY <1>3 DEF Chat
  <2>3. ~(chat[r].attempt >= MaxAttempts)
    BY DEF Exhausted
  <2> QED
    BY <2>1, <2>2, <2>3
<1>8. Shown(preview)' \in LayerId \cup {NoLayer}
  BY <1>2, ShownTyped DEF StackOK, Shown, NoLayer
<1> HIDE DEF O
<1> DEFINE next == [O[r] EXCEPT !.accumulated = longer,
                                !.attempt = chat[r].attempt + 1,
                                !.shown = Shown(preview')]
<1>9. chat' = [O EXCEPT ![r] = next]
  BY <1>1, <1>2
<1> HIDE DEF longer
<1>10. /\ next \in Chat /\ next.accumulated = longer
       /\ next.history = chat[r].history /\ next.shown = Shown(preview')
  BY <1>2, <1>5, <1>7, <1>8 DEF Chat, Shown
<1> HIDE DEF next
<1>11. chat' \in [Request -> Chat] /\ chat'[r] = next
       /\ \A o \in Request \ {r} : chat'[o] = O[o]
  BY <1>2, <1>9, <1>10
<1>12. Buffers'
  <2>1. ASSUME NEW o \in Request, chat'[o].waiting
        PROVE  /\ Acceptable(chat'[o].history) /\ Acceptable(chat'[o].accumulated)
               /\ chat'[o].accumulated # << >>
    <3>1. CASE o = r
      BY <1>3, <1>5, <1>6, <1>10, <1>11, <3>1
    <3>2. CASE o # r
      <4>1. /\ chat[o].waiting /\ chat'[o].history = chat[o].history
            /\ chat'[o].accumulated = chat[o].accumulated
        BY <1>2, <1>11, <2>1, <3>2
      <4> QED
        BY <1>3, <4>1 DEF Buffers, Waiting
    <3> QED
      BY <3>1, <3>2
  <2>2. messages' = messages /\ Acceptable(messages)
    BY <1>1, <1>3 DEF Buffers
  <2> QED
    BY <2>1, <2>2 DEF Buffers, Waiting
<1>13. PromptIsCurrent'
  <2>1. ASSUME NEW o \in Request, chat'[o].waiting, chat'[o].alone
        PROVE  Shown(preview)' = chat'[o].shown
    <3>1. CASE o = r
      BY <1>10, <1>11, <3>1 DEF Shown
    <3>2. CASE o # r
      BY <1>2, <1>11, <2>1, <3>2
    <3> QED
      BY <3>1, <3>2
  <2> QED
    BY <2>1 DEF PromptIsCurrent, Waiting, Shown
<1> QED
  BY <1>1, <1>2, <1>11, <1>12, <1>13, WindowKept, Disassembled, Assembled

-----------------------------------------------------------------------------
LEMMA LLMAnswersKeep ==
  ASSUME IInv, NEW r \in Request, LLMAnswers(r)
  PROVE  IInv'
<1>1. CASE FailCall(r)
  BY <1>1, FailCallKeeps
<1>2. CASE MisfitCarry(r)
  BY <1>2, VanishKeeps DEF MisfitCarry
<1>3. ASSUME NEW reply \in Replies, ReceiveReply(r, reply)
      PROVE  IInv'
  <2>1. chat[r].waiting /\ ApplyWriteEffect(reply)
    BY <1>3 DEF ReceiveReply
  <2>2. CASE AllSucceed(reply) \/ Exhausted(r)
    BY <1>3, <2>1, <2>2, RecordTurnKeeps DEF ReceiveReply
  <2>3. CASE ~(AllSucceed(reply) \/ Exhausted(r))
    BY <1>3, <2>1, <2>3, RetryKeeps DEF ReceiveReply
  <2> QED
    BY <2>2, <2>3
<1> QED
  BY <1>1, <1>2, <1>3 DEF LLMAnswers

LEMMA InitEstablishes == Init => IInv
<1> SUFFICES ASSUME Init PROVE IInv
  OBVIOUS
<1>1. PICK boot \in LayerId : preview = [layers |-> <<boot>>, selected |-> 0]
  BY DEF Init
<1>2. /\ messages = << >> /\ turns = << >> /\ rateWindow = << >> /\ epoch = 0
      /\ admitted = << >> /\ chat = [r \in Request |-> Idle]
  BY DEF Init
<1>3. <<boot>> \in Seq(LayerId) /\ Len(<<boot>>) = 1
  OBVIOUS
<1>4. StackOK(preview)
  BY <1>1, <1>3 DEF StackOK
<1>5. RateLimit \in Nat /\ MaxEpoch \in Nat /\ Waiting = {}
  BY <1>2, ChatAssumption DEF Waiting, Idle
<1>6. Buffers /\ PromptIsCurrent
  BY <1>2, <1>5, NothingAcceptable DEF Buffers, PromptIsCurrent
<1>7. Window
  <2>1. Len(<< >>) <= RateLimit
    BY <1>5
  <2> QED
    BY <1>2, <2>1, NoRequestsRecent DEF Window, RateLimited
<1>8. chat \in [Request -> Chat]
  BY <1>2, IdleTyped
<1>9. /\ messages \in Seq(Message) /\ turns \in Seq([of : Request, answered : BOOLEAN])
      /\ rateWindow \in Seq(0..Minute + 1) /\ epoch \in 0..MaxEpoch
      /\ admitted \in Seq(0..Minute)
  BY <1>2, <1>5, EmptySeq
<1>10. preview \in [layers : Seq(LayerId), selected : Nat]
  BY <1>4 DEF StackOK
<1> QED
  BY <1>4, <1>6, <1>7, <1>8, <1>9, <1>10 DEF IInv, TypeOK, Chat

LEMMA NextKeeps == IInv /\ [Next]_vars => IInv'
<1> SUFFICES ASSUME IInv, [Next]_vars PROVE IInv'
  OBVIOUS
<1>1. ASSUME NEW r \in Request, PostChat(r)
      PROVE  IInv'
  BY <1>1, PostChatKeeps
<1>2. ASSUME NEW r \in Request, MissKey(r)
      PROVE  IInv'
  BY <1>2, VanishKeeps DEF MissKey
<1>3. ASSUME NEW r \in Request, LLMAnswers(r)
      PROVE  IInv'
  BY <1>3, LLMAnswersKeep
<1>4. CASE RefuseChat
  BY <1>4, RefuseChatKeeps
<1>5. CASE WipingEdit
  BY <1>5, WipingEditKeeps
<1>6. CASE QuietEdit
  BY <1>6, QuietEditKeeps
<1>7. CASE Tick
  BY <1>7, TickKeeps
<1>8. CASE UNCHANGED vars
  <2>1. UNCHANGED <<session, chat, preview>>
    BY <1>8 DEF vars, session
  <2>2. StackOK(preview)' /\ Shown(preview)' = Shown(preview)
    BY <2>1, Disassembled DEF Shown
  <2> QED
    BY <2>1, <2>2, SameShownKeeps
<1> QED
  BY <1>1, <1>2, <1>3, <1>4, <1>5, <1>6, <1>7, <1>8 DEF Next

LEMMA Invariance == Spec => []IInv
<1> QED
  BY InitEstablishes, NextKeeps, PTL DEF Spec

-----------------------------------------------------------------------------
(***************************************************************************)
(* The session, the preview and every request in flight have their types:  *)
(* no interleaving of turns, retries, wipes and edits takes them out.      *)
(***************************************************************************)
THEOREM TypeCorrect == Spec => []TypeOK
<1>1. IInv => TypeOK
  BY DEF IInv
<1> QED
  BY <1>1, Invariance, PTL

(***************************************************************************)
(* Whatever is sent to the LLM, and whatever the session keeps, is a       *)
(* history the chat API accepts (agent.py builds msgs_for_call,            *)
(* session.py's _trim_to_last_turns cuts the buffer).                      *)
(***************************************************************************)
THEOREM HistoryAcceptable == Spec => []AcceptableHistory
<1>1. IInv => AcceptableHistory
  <2> SUFFICES ASSUME IInv PROVE AcceptableHistory
    OBVIOUS
  <2>1. Acceptable(messages)
    BY Disassembled DEF Buffers
  <2>2. ASSUME NEW r \in Waiting
        PROVE  Acceptable(Sent(r))
    <3> DEFINE history == chat[r].history
               own == chat[r].accumulated
    <3>1. history \in Seq(Message) /\ own \in Seq(Message)
      BY Disassembled DEF Waiting, Chat
    <3>2. Acceptable(history) /\ Acceptable(own)
      BY Disassembled DEF Buffers
    <3> HIDE DEF history, own
    <3>3. Acceptable(history \o own)
      BY <3>1, <3>2, AcceptableIsPaired, ConcatAcceptable
    <3> QED
      BY <3>3 DEF Sent, history, own
  <2> QED
    BY <2>1, <2>2 DEF AcceptableHistory
<1> QED
  BY <1>1, Invariance, PTL

(***************************************************************************)
(* At most rate_limit_per_minute requests are admitted in any minute of a  *)
(* session, although session.py forgets old entries only when a request    *)
(* comes in.                                                               *)
(***************************************************************************)
THEOREM RateKept == Spec => []RateLimited
<1>1. IInv => RateLimited
  BY DEF IInv, Window
<1> QED
  BY <1>1, Invariance, PTL

(***************************************************************************)
(* A request writes the layer its prompt showed, through all its retries,  *)
(* unless someone else wrote, wiped the session, or made one of the edits  *)
(* that server.py does not follow by a wipe.                               *)
(***************************************************************************)
THEOREM PromptTrue == Spec => []PromptIsCurrent
<1>1. IInv => PromptIsCurrent
  BY DEF IInv
<1> QED
  BY <1>1, Invariance, PTL

-----------------------------------------------------------------------------
(***************************************************************************)
(* The memory.  Places counted from the end, in a set of places: what a    *)
(* new last place does to the counts, and what cutting off the front does. *)
(***************************************************************************)
LEMMA CountsTyped ==
  ASSUME NEW m \in Nat, NEW S \in SUBSET (1..m), NEW i \in Nat
  PROVE  /\ IsFiniteSet(S) /\ Cardinality(S) \in Nat
         /\ IsFiniteSet({j \in S : i <= j}) /\ FromEnd(S, i) \in Nat
         /\ FromEnd(S, i) <= Cardinality(S)
         /\ i \in S => FromEnd(S, i) >= 1
<1> DEFINE later == {j \in S : i <= j}
<1>1. IsFiniteSet(1..m)
  BY FS_Interval
<1>2. IsFiniteSet(S) /\ Cardinality(S) \in Nat
  BY <1>1, FS_Subset, FS_CardinalityType
<1>3. later \in SUBSET S
  OBVIOUS
<1>4. i \in S => later # {}
  OBVIOUS
<1>5. FromEnd(S, i) = Cardinality(later)
  BY DEF FromEnd
<1> HIDE DEF later
<1>6. IsFiniteSet(later) /\ Cardinality(later) \in Nat
      /\ Cardinality(later) <= Cardinality(S)
  BY <1>2, <1>3, FS_Subset, FS_CardinalityType
<1>7. i \in S => Cardinality(later) # 0
  BY <1>4, <1>6, FS_EmptySet
<1> QED
  BY <1>2, <1>5, <1>6, <1>7 DEF later

LEMMA NewLast ==
  ASSUME NEW m \in Nat, NEW S \in SUBSET (1..m), NEW p \in Nat, p > m
  PROVE  /\ Cardinality(S \cup {p}) = Cardinality(S) + 1
         /\ FromEnd(S \cup {p}, p) = 1
         /\ \A i \in S : FromEnd(S \cup {p}, i) = FromEnd(S, i) + 1
<1>1. /\ IsFiniteSet(S) /\ p \notin S
      /\ \A i \in S : i \in Nat /\ i <= m
  <2>1. \A i \in S : i \in Nat /\ i <= m
    OBVIOUS
  <2>2. IsFiniteSet(S)
    <3>1. IsFiniteSet(1..m)
      BY FS_Interval
    <3> QED
      BY <3>1, FS_Subset
  <2>3. p \notin S
    BY <2>1
  <2> QED
    BY <2>1, <2>2, <2>3
<1>2. Cardinality(S \cup {p}) = Cardinality(S) + 1
  BY <1>1, FS_AddElement
<1>3. FromEnd(S \cup {p}, p) = 1
  <2>1. \A j \in S \cup {p} : p <= j <=> j = p
    BY <1>1
  <2>2. {j \in S \cup {p} : p <= j} = {p}
    BY <2>1
  <2> QED
    BY <2>2, FS_Singleton DEF FromEnd
<1>4. ASSUME NEW i \in S PROVE FromEnd(S \cup {p}, i) = FromEnd(S, i) + 1
  <2> DEFINE later == {j \in S : i <= j}
  <2>1. {j \in S \cup {p} : i <= j} = later \cup {p} /\ p \notin later
    BY <1>1
  <2>2. IsFiniteSet(later)
    BY CountsTyped
  <2> HIDE DEF later
  <2>3. Cardinality(later \cup {p}) = Cardinality(later) + 1
    BY <2>1, <2>2, FS_AddElement
  <2> QED
    BY <2>1, <2>3 DEF FromEnd, later
<1> QED
  BY <1>2, <1>3, <1>4

CutPlaces(S, m, d) == {i \in 1..(m - d) : i + d \in S}

LEMMA FrontCut ==
  ASSUME NEW m \in Nat, NEW S \in SUBSET (1..m), NEW d \in Nat
  PROVE  /\ Cardinality(CutPlaces(S, m, d)) = FromEnd(S, d + 1)
         /\ \A i \in CutPlaces(S, m, d) :
              FromEnd(CutPlaces(S, m, d), i) = FromEnd(S, i + d)
<1> DEFINE T == {i \in 1..(m - d) : i + d \in S}
<1>1. ASSUME NEW e \in Nat, e >= 1
      PROVE  Cardinality({i \in T : e <= i}) = FromEnd(S, e + d)
  <2> DEFINE A == {j \in S : e + d <= j}
             B == {i \in T : e <= i}
             back == [j \in A |-> j - d]
  <2>1. back \in [A -> B]
    <3>1. ASSUME NEW j \in A PROVE j - d \in B
      <4>1. j \in 1..m /\ (j - d) + d = j /\ e <= j - d /\ j - d \in 1..(m - d)
        <5>1. j \in 1..m /\ e + d <= j
          OBVIOUS
        <5> QED
          BY <5>1, <1>1
      <4> QED
        BY <4>1
    <3> QED
      BY <3>1
  <2>2. \A i, j \in A : back[i] = back[j] => i = j
    OBVIOUS
  <2>3. ASSUME NEW i \in B PROVE \E j \in A : back[j] = i
    <3>1. i + d \in A /\ (i + d) - d = i
      OBVIOUS
    <3> QED
      BY <3>1
  <2>4. back \in Bijection(A, B)
    <3> HIDE DEF A, B
    <3>1. IsInjective(back)
      BY <2>2 DEF IsInjective
    <3>2. back \in Injection(A, B) /\ back \in Surjection(A, B)
      <4> HIDE DEF back
      <4> QED
        BY <2>1, <2>3, <3>1 DEF Injection, Surjection
    <3> QED
      BY <3>2 DEF Bijection
  <2>5. e + d \in Nat
    OBVIOUS
  <2>6. IsFiniteSet(A)
    BY <2>5, CountsTyped
  <2> HIDE DEF A, B, back
  <2>7. Cardinality(B) = Cardinality(A)
    BY <2>4, <2>6, FS_Bijection DEF ExistsBijection
  <2> QED
    BY <2>7 DEF A, B, FromEnd
<1>2. {i \in T : 1 <= i} = T /\ 1 + d = d + 1 /\ \A i \in T : i \in Nat /\ i >= 1
  OBVIOUS
<1>3. Cardinality(T) = FromEnd(S, d + 1)
  BY <1>1, <1>2
<1>4. ASSUME NEW i \in T PROVE FromEnd(T, i) = FromEnd(S, i + d)
  BY <1>1, <1>2 DEF FromEnd
<1> QED
  BY <1>3, <1>4 DEF CutPlaces

(* A buffer that asks, followed by one that does not. *)
LEMMA UsersOfConcat ==
  ASSUME NEW a \in Seq(Message), NEW b \in Seq(Message)
  PROVE  /\ a \o b \in Seq(Message)
         /\ \A i \in 1..Len(a) : (a \o b)[i] = a[i]
         /\ Users(b) = {} => Users(a \o b) = Users(a)
         /\ Users(b) = {1} => /\ Users(a \o b) = Users(a) \cup {Len(a) + 1}
                              /\ (a \o b)[Len(a) + 1] = b[1]
<1> DEFINE ab == a \o b
<1>1. /\ ab \in Seq(Message) /\ Len(ab) = Len(a) + Len(b)
      /\ \A k \in 1..(Len(a) + Len(b)) :
           ab[k] = IF k <= Len(a) THEN a[k] ELSE b[k - Len(a)]
  BY ConcatProperties
<1>2. /\ Len(a) \in Nat /\ DOMAIN a = 1..Len(a)
      /\ Len(b) \in Nat /\ DOMAIN b = 1..Len(b)
  OBVIOUS
<1>3. DOMAIN ab = 1..(Len(a) + Len(b))
  BY <1>1
<1> HIDE DEF ab
<1>4. \A k \in 1..Len(a) : k \in DOMAIN ab /\ ab[k] = a[k]
  BY <1>1, <1>2, <1>3
<1>5. \A k \in 1..Len(b) : Len(a) + k \in DOMAIN ab /\ ab[Len(a) + k] = b[k]
  <2> TAKE k \in 1..Len(b)
  <2>1. Len(a) + k \in 1..(Len(a) + Len(b)) /\ ~(Len(a) + k <= Len(a))
        /\ (Len(a) + k) - Len(a) = k
    BY <1>2
  <2> QED
    BY <1>1, <1>3, <2>1
<1>6. \A i \in DOMAIN ab : \/ i \in 1..Len(a)
                           \/ i - Len(a) \in 1..Len(b) /\ i = Len(a) + (i - Len(a))
  BY <1>2, <1>3
<1>7. ASSUME NEW i
      PROVE  i \in Users(ab) <=> \/ i \in Users(a)
                                 \/ \E k \in Users(b) : i = Len(a) + k
  <2>1. ASSUME i \in Users(ab)
        PROVE  i \in Users(a) \/ \E k \in Users(b) : i = Len(a) + k
    <3>1. CASE i \in 1..Len(a)
      BY <1>2, <1>4, <2>1, <3>1 DEF Users
    <3>2. CASE i - Len(a) \in 1..Len(b) /\ i = Len(a) + (i - Len(a))
      <4>1. PICK k \in 1..Len(b) : i = Len(a) + k
        BY <3>2
      <4>2. k \in Users(b)
        BY <1>2, <1>5, <2>1, <4>1 DEF Users
      <4> QED
        BY <4>1, <4>2
    <3> QED
      BY <1>6, <2>1, <3>1, <3>2 DEF Users
  <2>2. ASSUME i \in Users(a) \/ \E k \in Users(b) : i = Len(a) + k
        PROVE  i \in Users(ab)
    BY <1>2, <1>4, <1>5, <2>2 DEF Users
  <2> QED
    BY <2>1, <2>2
<1>8. Users(b) = {} => Users(ab) = Users(a)
  BY <1>7
<1>9. ASSUME Users(b) = {1}
      PROVE  /\ Users(ab) = Users(a) \cup {Len(a) + 1}
             /\ ab[Len(a) + 1] = b[1]
  <2>1. \A i : i \in Users(ab) <=> i \in Users(a) \/ i = Len(a) + 1
    BY <1>7, <1>9
  <2>2. 1 \in 1..Len(b)
    BY <1>2, <1>9 DEF Users
  <2> QED
    BY <1>5, <2>1, <2>2
<1> QED
  BY <1>1, <1>4, <1>8, <1>9 DEF ab

(* The reply to a request asks nothing. *)
LEMMA AnswerAsksNothing ==
  ASSUME NEW r \in Request, NEW reply \in Replies
  PROVE  Users(Answer(r, reply)) = {}
<1> DEFINE call == [role |-> "assistant", of |-> r, n |-> Len(reply)]
           results == [k \in 1..Len(reply) |-> [role |-> "tool", of |-> r, n |-> k]]
<1>1. Len(reply) \in Nat
  BY ChatAssumption
<1>2. <<call>> \in Seq(Message) /\ DOMAIN <<call>> = {1} /\ <<call>>[1] = call
  BY <1>1 DEF Message
<1>3. results \in Seq(Message)
      /\ \A k \in DOMAIN results : results[k].role = "tool"
  <2>1. \A k \in 1..Len(reply) : [role |-> "tool", of |-> r, n |-> k] \in Message
    BY <1>1 DEF Message
  <2>2. results \in [1..Len(reply) -> Message]
    BY <2>1
  <2>3. \A k \in DOMAIN results : results[k].role = "tool"
    OBVIOUS
  <2> QED
    BY <1>1, <2>2, <2>3
<1>4. Users(<<call>>) = {} /\ Users(results) = {}
  <2>1. call.role # "user" /\ "tool" # "user"
    OBVIOUS
  <2> HIDE DEF call, results
  <2> QED
    BY <1>2, <1>3, <2>1 DEF Users
<1>5. Answer(r, reply) = <<call>> \o results
  BY DEF Answer
<1> HIDE DEF call, results
<1> QED
  BY <1>2, <1>3, <1>4, <1>5, UsersOfConcat

(* What the trim keeps are the last turns, as they were. *)
LEMMA TrimKeepsTheLast ==
  ASSUME NEW ms \in Seq(Message)
  PROVE  /\ Cardinality(Users(Trim(ms))) = Min({HistoryMaxTurns, Cardinality(Users(ms))})
         /\ \A i \in Users(Trim(ms)) :
              \E j \in Users(ms) : /\ FromEnd(Users(Trim(ms)), i) = FromEnd(Users(ms), j)
                                   /\ Trim(ms)[i] = ms[j]
<1>1. /\ HistoryMaxTurns \in Nat /\ Len(ms) \in Nat
      /\ Users(ms) \in SUBSET (1..Len(ms)) /\ 0 \in Nat
  BY ChatAssumption DEF Users
<1>2. Cardinality(Users(ms)) \in Nat
  BY <1>1, CountsTyped
<1>3. CASE HistoryMaxTurns = 0
  <2>1. Trim(ms) = << >>
    BY <1>3, Zenon DEF Trim
  <2>2. Users(Trim(ms)) = {}
    BY <2>1 DEF Users
  <2>3. Min({0, Cardinality(Users(ms))}) = 0
    BY <1>2, MinOfTwo
  <2> QED
    BY <1>3, <2>2, <2>3, FS_EmptySet
<1>4. CASE HistoryMaxTurns # 0 /\ Cardinality(Users(ms)) < HistoryMaxTurns
  <2>1. Trim(ms) = ms
    BY <1>4, Zenon DEF Trim
  <2>2. Min({HistoryMaxTurns, Cardinality(Users(ms))}) = Cardinality(Users(ms))
    BY <1>1, <1>2, <1>4, MinOfTwo
  <2> QED
    BY <2>1, <2>2
<1>5. CASE HistoryMaxTurns # 0 /\ ~(Cardinality(Users(ms)) < HistoryMaxTurns)
  <2> DEFINE from == CHOOSE i \in Users(ms) : FromEnd(Users(ms), i) = HistoryMaxTurns
             s == SubSeq(ms, from, Len(ms))
  <2>1. Trim(ms) = s
    BY <1>5, Zenon DEF Trim
  <2>2. from \in Users(ms) /\ FromEnd(Users(ms), from) = HistoryMaxTurns
    BY <1>5, TrimCuts
  <2>3. from \in 1..Len(ms)
    BY <2>2 DEF Users
  <2> DEFINE d == from - 1
  <2>4. d \in Nat /\ from = d + 1 /\ d <= Len(ms) /\ (Len(ms) - from) + 1 = Len(ms) - d
    BY <1>1, <2>3
  <2> HIDE DEF from
  <2>5. /\ s \in Seq(Message) /\ DOMAIN s = 1..(Len(ms) - d)
        /\ \A k \in 1..(Len(ms) - d) : s[k] = ms[k + d] /\ k + d \in DOMAIN ms
    <3>1. /\ s \in Seq(Message)
          /\ Len(s) = IF from <= Len(ms) THEN Len(ms) - from + 1 ELSE 0
          /\ \A k \in 1..(Len(ms) - from + 1) : s[k] = ms[from + k - 1]
      <4>1. \A k \in from..Len(ms) : ms[k] \in Message
        BY <2>3, ElementOfSeq
      <4> QED
        BY <1>1, <2>3, <4>1, SubSeqProperties
    <3> HIDE DEF s
    <3>2. Len(s) = Len(ms) - d
      BY <1>1, <2>3, <2>4, <3>1
    <3>3. ASSUME NEW k \in 1..(Len(ms) - d)
          PROVE  s[k] = ms[k + d] /\ k + d \in DOMAIN ms
      <4>1. k \in 1..(Len(ms) - from + 1) /\ from + k - 1 = k + d /\ k + d \in 1..Len(ms)
        BY <1>1, <2>4
      <4> QED
        BY <3>1, <4>1
    <3> QED
      BY <3>1, <3>2, <3>3
  <2> HIDE DEF s, d
  <2>6. Users(s) = {i \in 1..(Len(ms) - d) : i + d \in Users(ms)}
    BY <2>5 DEF Users
  <2>7. /\ Cardinality(Users(s)) = FromEnd(Users(ms), d + 1)
        /\ \A i \in Users(s) : FromEnd(Users(s), i) = FromEnd(Users(ms), i + d)
    <3> DEFINE m == Len(ms)
               S == Users(ms)
               T == Users(s)
    <3>1. m \in Nat /\ S \in SUBSET (1..m) /\ d \in Nat
          /\ T = CutPlaces(S, m, d)
      BY <1>1, <2>4, <2>6 DEF CutPlaces
    <3> HIDE DEF m, S, T
    <3>2. /\ Cardinality(T) = FromEnd(S, d + 1)
          /\ \A i \in T : FromEnd(T, i) = FromEnd(S, i + d)
      BY <3>1, FrontCut
    <3> QED
      BY <3>2 DEF S, T
  <2>8. Min({HistoryMaxTurns, Cardinality(Users(ms))}) = HistoryMaxTurns
    BY <1>1, <1>2, <1>5, MinOfTwo
  <2>9. \A i \in Users(s) : i + d \in Users(ms) /\ s[i] = ms[i + d]
    BY <2>5, <2>6
  <2> QED
    BY <2>1, <2>2, <2>4, <2>7, <2>8, <2>9
<1> QED
  BY <1>3, <1>4, <1>5

(***************************************************************************)
(* The memory is what the transcript says, and a request carries its own   *)
(* question, once and first, through all of its attempts.                  *)
(***************************************************************************)
Asks(ms, r) == Users(ms) = {1} /\ ms[1].of = r

Recollection ==
  MemoryMatchesTranscript /\ \A r \in Waiting : Asks(chat[r].accumulated, r)

MInv == IInv /\ Recollection

LEMMA AskedAgain ==
  ASSUME NEW r \in Request, NEW reply \in Replies,
         NEW own \in Seq(Message), Asks(own, r)
  PROVE  Asks(own \o Answer(r, reply), r)
<1>1. Answer(r, reply) \in Seq(Message) /\ Users(Answer(r, reply)) = {}
  BY AnswerPaired, AnswerAsksNothing
<1>2. 1 \in 1..Len(own)
  BY DEF Asks, Users
<1> QED
  BY <1>1, <1>2, UsersOfConcat DEF Asks

(* Steps after which session and transcript are the same, or both empty. *)
LEMMA RecollectionKept ==
  ASSUME Recollection, SameBuffers,
         UNCHANGED <<messages, turns>> \/ (messages' = << >> /\ turns' = << >>)
  PROVE  Recollection'
<1>1. MemoryMatchesTranscript'
  <2>1. CASE UNCHANGED <<messages, turns>>
    BY <2>1 DEF Recollection, MemoryMatchesTranscript
  <2>2. CASE messages' = << >> /\ turns' = << >>
    <3>1. Users(messages') = {} /\ Answered(turns') = {}
      BY <2>2 DEF Users, Answered
    <3>2. Cardinality({}) = 0 /\ HistoryMaxTurns \in Nat
      BY FS_EmptySet, ChatAssumption
    <3>3. Min({HistoryMaxTurns, 0}) = 0
      BY <3>2, MinOfTwo
    <3> QED
      BY <3>1, <3>2, <3>3 DEF MemoryMatchesTranscript
  <2> QED
    BY <2>1, <2>2
<1>2. ASSUME NEW r \in Request, chat'[r].waiting
      PROVE  Asks(chat'[r].accumulated, r)
  <2>1. r \in Waiting /\ chat'[r].accumulated = chat[r].accumulated
    BY <1>2 DEF SameBuffers, Waiting
  <2> QED
    BY <2>1 DEF Recollection
<1> QED
  BY <1>1, <1>2 DEF Recollection, Waiting

(* A turn is remembered when it is recorded as answered. *)
LEMMA AnsweredTurnIsRemembered ==
  ASSUME MemoryMatchesTranscript, NEW r \in Request,
         messages \in Seq(Message), turns \in Seq([of : Request, answered : BOOLEAN]),
         NEW asked \in Seq(Message), Asks(asked, r),
         messages' = Trim(messages \o asked),
         turns' = Append(turns, [of |-> r, answered |-> TRUE])
  PROVE  MemoryMatchesTranscript'
<1> DEFINE all == messages \o asked
           p == Len(messages) + 1
           q == Len(turns) + 1
           U == Users(messages)
           A == Answered(turns)
           H == HistoryMaxTurns
<1>1. /\ Len(messages) \in Nat /\ U \in SUBSET (1..Len(messages))
      /\ Len(turns) \in Nat /\ A \in SUBSET (1..Len(turns)) /\ H \in Nat
  BY ChatAssumption DEF Users, Answered
<1>2. /\ p \in Nat /\ p > Len(messages) /\ q \in Nat /\ q > Len(turns)
  BY <1>1
<1>3. /\ all \in Seq(Message) /\ Users(all) = U \cup {p} /\ all[p].of = r
      /\ \A i \in U : all[i] = messages[i]
  <2>1. Users(asked) = {1} /\ asked[1].of = r
    BY DEF Asks
  <2>2. /\ all \in Seq(Message) /\ Users(all) = U \cup {p} /\ all[p] = asked[1]
        /\ \A i \in 1..Len(messages) : all[i] = messages[i]
    BY <2>1, UsersOfConcat
  <2> HIDE DEF all, p, U
  <2> QED
    BY <1>1, <2>1, <2>2
<1>4. /\ Answered(turns') = A \cup {q} /\ turns'[q].of = r
      /\ \A t \in A : turns'[t] = turns[t]
  <2> DEFINE new == [of |-> r, answered |-> TRUE]
  <2>1. /\ DOMAIN turns' = 1..q /\ turns'[q] = new
        /\ DOMAIN turns = 1..Len(turns)
        /\ \A t \in 1..Len(turns) : turns'[t] = turns[t]
    BY AppendProperties
  <2>2. new.answered /\ new.of = r
    OBVIOUS
  <2> HIDE DEF new
  <2> QED
    BY <1>1, <2>1, <2>2 DEF Answered
<1>5. /\ Cardinality(U) = Min({H, Cardinality(A)})
      /\ \A i \in U, t \in A : FromEnd(U, i) = FromEnd(A, t) => messages[i].of = turns[t].of
  BY DEF MemoryMatchesTranscript
<1>6. Cardinality(U) \in Nat /\ Cardinality(A) \in Nat
  <2>1. 0 \in Nat
    OBVIOUS
  <2> QED
    BY <1>1, <2>1, CountsTyped
<1>7. /\ Cardinality(Users(all)) = Cardinality(U) + 1 /\ FromEnd(Users(all), p) = 1
      /\ \A i \in U : FromEnd(Users(all), i) = FromEnd(U, i) + 1
  <2> DEFINE m == Len(messages)
  <2>1. m \in Nat /\ U \in SUBSET (1..m) /\ p \in Nat /\ p > m
    BY <1>1, <1>2
  <2> HIDE DEF m, U, p, all
  <2>2. /\ Cardinality(U \cup {p}) = Cardinality(U) + 1 /\ FromEnd(U \cup {p}, p) = 1
        /\ \A i \in U : FromEnd(U \cup {p}, i) = FromEnd(U, i) + 1
    BY <2>1, NewLast
  <2> QED
    BY <1>3, <2>2
<1>8. /\ Cardinality(Answered(turns')) = Cardinality(A) + 1
      /\ FromEnd(Answered(turns'), q) = 1
      /\ \A t \in A : FromEnd(Answered(turns'), t) = FromEnd(A, t) + 1
  <2> DEFINE m == Len(turns)
  <2>1. m \in Nat /\ A \in SUBSET (1..m) /\ q \in Nat /\ q > m
    BY <1>1, <1>2
  <2> HIDE DEF m, A, q
  <2>2. /\ Cardinality(A \cup {q}) = Cardinality(A) + 1 /\ FromEnd(A \cup {q}, q) = 1
        /\ \A t \in A : FromEnd(A \cup {q}, t) = FromEnd(A, t) + 1
    BY <2>1, NewLast
  <2> QED
    BY <1>4, <2>2
<1>9. /\ \A i \in U : FromEnd(U, i) \in Nat /\ FromEnd(U, i) >= 1
      /\ \A t \in A : FromEnd(A, t) \in Nat /\ FromEnd(A, t) >= 1
  <2>1. (\A i \in U : i \in Nat) /\ (\A t \in A : t \in Nat)
    BY <1>1
  <2> HIDE DEF U, A
  <2> QED
    BY <1>1, <2>1, CountsTyped
<1>10. /\ Cardinality(Users(messages')) = Min({H, Cardinality(Users(all))})
       /\ \A i \in Users(messages') :
            \E j \in Users(all) : /\ FromEnd(Users(messages'), i) = FromEnd(Users(all), j)
                                  /\ messages'[i] = all[j]
  BY <1>3, TrimKeepsTheLast
<1> HIDE DEF all, p, q, U, A, H
<1>11. Cardinality(Users(messages')) = Min({H, Cardinality(Answered(turns'))})
  <2> DEFINE u == Cardinality(U)
             a == Cardinality(A)
  <2>1. H \in Nat /\ u \in Nat /\ a \in Nat /\ u + 1 \in Nat /\ a + 1 \in Nat
    BY <1>1, <1>6
  <2>2. Cardinality(Users(messages')) = Min({H, u + 1}) /\ u = Min({H, a})
    BY <1>5, <1>7, <1>10
  <2> HIDE DEF u, a
  <2>3. /\ Min({H, u + 1}) = IF H <= u + 1 THEN H ELSE u + 1
        /\ Min({H, a}) = IF H <= a THEN H ELSE a
        /\ Min({H, a + 1}) = IF H <= a + 1 THEN H ELSE a + 1
    BY <2>1, MinOfTwo
  <2>4. Min({H, u + 1}) = Min({H, a + 1})
    BY <2>1, <2>2, <2>3
  <2> QED
    BY <1>8, <2>2, <2>4 DEF a
<1>12. ASSUME NEW i \in Users(messages'), NEW t \in Answered(turns'),
              FromEnd(Users(messages'), i) = FromEnd(Answered(turns'), t)
       PROVE  messages'[i].of = turns'[t].of
  <2>1. PICK j \in Users(all) : /\ FromEnd(Users(all), j) = FromEnd(Answered(turns'), t)
                                /\ messages'[i] = all[j]
    BY <1>10, <1>12
  <2>2. CASE j = p /\ t = q
    BY <1>3, <1>4, <2>1, <2>2
  <2>3. CASE j \in U /\ t \in A
    <3>1. FromEnd(U, j) + 1 = FromEnd(A, t) + 1
      BY <1>7, <1>8, <2>1, <2>3
    <3>2. FromEnd(U, j) = FromEnd(A, t)
      BY <1>9, <2>3, <3>1
    <3>3. messages[j].of = turns[t].of
      BY <1>5, <2>3, <3>2
    <3>4. messages'[i] = messages[j] /\ turns'[t] = turns[t]
      BY <1>3, <1>4, <2>1, <2>3
    <3> QED
      BY <3>3, <3>4
  <2>4. CASE j = p /\ t \in A
    <3>1. 1 = FromEnd(A, t) + 1
      BY <1>7, <1>8, <2>1, <2>4
    <3> QED
      BY <1>9, <2>4, <3>1
  <2>5. CASE j \in U /\ t = q
    <3>1. FromEnd(U, j) + 1 = 1
      BY <1>7, <1>8, <2>1, <2>5
    <3> QED
      BY <1>9, <2>5, <3>1
  <2> QED
    BY <1>3, <1>4, <2>2, <2>3, <2>4, <2>5
<1> QED
  BY <1>11, <1>12 DEF MemoryMatchesTranscript, H

LEMMA PostChatAsks ==
  ASSUME MInv, NEW r \in Request, PostChat(r)
  PROVE  Recollection'
<1> DEFINE posted == [waiting |-> TRUE, history |-> messages,
                      accumulated |-> <<UserMessage(r)>>, attempt |-> 1,
                      shown |-> Shown(preview), alone |-> TRUE]
<1>1. chat' = [chat EXCEPT ![r] = posted] /\ UNCHANGED <<messages, turns>>
  BY DEF PostChat
<1>2. Asks(<<UserMessage(r)>>, r)
  <2> DEFINE m == UserMessage(r)
  <2>1. m.role = "user" /\ m.of = r
    BY DEF UserMessage
  <2> HIDE DEF m
  <2>2. Asks(<<m>>, r)
    BY <2>1 DEF Asks, Users
  <2> QED
    BY <2>2 DEF m
<1>3. Recollection /\ chat \in [Request -> Chat]
  BY Disassembled DEF MInv
<1>4. ASSUME NEW o \in Request, chat'[o].waiting
      PROVE  Asks(chat'[o].accumulated, o)
  <2>1. CASE o = r
    BY <1>1, <1>2, <1>3, <2>1
  <2>2. CASE o # r
    <3>1. chat'[o] = chat[o]
      BY <1>1, <1>3, <2>2
    <3> QED
      BY <1>3, <1>4, <3>1 DEF Recollection, Waiting
  <2> QED
    BY <2>1, <2>2
<1> QED
  BY <1>1, <1>3, <1>4 DEF Recollection, Waiting, MemoryMatchesTranscript

(* A request that ends, the others being as they were or disturbed. *)
LEMMA EndedAsks ==
  ASSUME Recollection, NEW chats \in [Request -> Chat], NEW r \in Request,
         chat' = [chats EXCEPT ![r] = Idle], MemoryMatchesTranscript',
         \A o \in Request \ {r} : /\ chats[o].waiting => chat[o].waiting
                                  /\ chats[o].accumulated = chat[o].accumulated
  PROVE  Recollection'
<1>1. /\ chat'[r] = Idle /\ \A o \in Request \ {r} : chat'[o] = chats[o]
  OBVIOUS
<1>2. ~chat'[r].waiting
  BY <1>1 DEF Idle
<1>3. ASSUME NEW o \in Request, chat'[o].waiting
      PROVE  Asks(chat'[o].accumulated, o)
  <2>1. o # r /\ chats[o].waiting /\ chat'[o].accumulated = chat[o].accumulated
    BY <1>1, <1>2, <1>3
  <2> QED
    BY <2>1 DEF Recollection, Waiting
<1> QED
  BY <1>3 DEF Recollection, Waiting

LEMMA FailedTurnIsForgotten ==
  ASSUME MInv, NEW r \in Request, FailCall(r)
  PROVE  Recollection'
<1>1. /\ turns' = Append(turns, [of |-> r, answered |-> FALSE])
      /\ UNCHANGED messages /\ chat' = [chat EXCEPT ![r] = Idle]
  BY DEF FailCall
<1>2. turns \in Seq([of : Request, answered : BOOLEAN]) /\ chat \in [Request -> Chat]
      /\ Recollection
  BY Disassembled DEF MInv
<1>3. Answered(turns') = Answered(turns) /\ \A t \in Answered(turns) : turns'[t] = turns[t]
  <2> DEFINE new == [of |-> r, answered |-> FALSE]
             n == Len(turns)
  <2>1. /\ n \in Nat /\ DOMAIN turns' = 1..(n + 1) /\ turns'[n + 1] = new
        /\ DOMAIN turns = 1..n /\ \A t \in 1..n : turns'[t] = turns[t]
    BY <1>1, <1>2, AppendProperties
  <2>2. ~new.answered
    OBVIOUS
  <2> HIDE DEF new, n
  <2>3. \A t : t \in 1..(n + 1) <=> t \in 1..n \/ t = n + 1
    BY <2>1
  <2> QED
    BY <2>1, <2>2, <2>3 DEF Answered
<1>4. MemoryMatchesTranscript'
  <2>1. MemoryMatchesTranscript
    BY <1>2 DEF Recollection
  <2>2. messages' = messages
    BY <1>1
  <2>3. Cardinality(Users(messages'))
          = Min({HistoryMaxTurns, Cardinality(Answered(turns'))})
    BY <1>3, <2>1, <2>2 DEF MemoryMatchesTranscript
  <2>4. \A i \in Users(messages'), t \in Answered(turns') :
          FromEnd(Users(messages'), i) = FromEnd(Answered(turns'), t)
            => messages'[i].of = turns'[t].of
    BY <1>3, <2>1, <2>2 DEF MemoryMatchesTranscript
  <2> QED
    BY <2>3, <2>4 DEF MemoryMatchesTranscript
<1> QED
  BY <1>1, <1>2, <1>4, EndedAsks

LEMMA VanishedIsForgotten ==
  ASSUME MInv, NEW r \in Request, Vanish(r)
  PROVE  Recollection'
<1>1. chat' = [chat EXCEPT ![r] = Idle] /\ UNCHANGED <<messages, turns>>
  BY DEF Vanish, session
<1>2. chat \in [Request -> Chat] /\ Recollection
  BY Disassembled DEF MInv
<1>3. MemoryMatchesTranscript'
  BY <1>1, <1>2 DEF Recollection, MemoryMatchesTranscript
<1> QED
  BY <1>1, <1>2, <1>3, EndedAsks

LEMMA RecordTurnRemembers ==
  ASSUME MInv, NEW r \in Request, NEW reply \in Replies, chat[r].waiting,
         ApplyWriteEffect(reply), RecordTurn(r, reply)
  PROVE  Recollection'
<1> DEFINE O == Others(r, reply)
           own == chat[r].accumulated
           answer == Answer(r, reply)
<1>1. /\ messages' = Trim(messages \o own \o answer)
      /\ turns' = Append(turns, [of |-> r, answered |-> TRUE])
      /\ chat' = [O EXCEPT ![r] = Idle]
  BY DEF RecordTurn
<1>2. /\ IInv /\ Recollection /\ messages \in Seq(Message) /\ own \in Seq(Message)
      /\ turns \in Seq([of : Request, answered : BOOLEAN]) /\ Asks(own, r)
  BY Disassembled DEF MInv, Recollection, Waiting, Chat
<1>3. answer \in Seq(Message) /\ Asks(own \o answer, r)
  BY <1>2, AnswerPaired, AskedAgain
<1>4. O \in [Request -> Chat]
      /\ \A o \in Request : /\ O[o].waiting = chat[o].waiting
                            /\ O[o].accumulated = chat[o].accumulated
  BY <1>2, OthersTyped
<1> HIDE DEF own, answer, O
<1>5. messages \o own \o answer = messages \o (own \o answer)
      /\ own \o answer \in Seq(Message)
  BY <1>2, <1>3, ConcatAssociative, ConcatProperties
<1>6. MemoryMatchesTranscript'
  <2> DEFINE asked == own \o answer
  <2>1. asked \in Seq(Message) /\ Asks(asked, r) /\ messages' = Trim(messages \o asked)
    BY <1>1, <1>3, <1>5
  <2> HIDE DEF asked
  <2> QED
    BY <1>1, <1>2, <2>1, AnsweredTurnIsRemembered DEF Recollection
<1> QED
  BY <1>1, <1>2, <1>4, <1>6, EndedAsks

LEMMA RetryRemembers ==
  ASSUME MInv, NEW r \in Request, NEW reply \in Replies, chat[r].waiting,
         ApplyWriteEffect(reply), Retry(r, reply)
  PROVE  Recollection'
<1> DEFINE O == Others(r, reply)
           longer == chat[r].accumulated \o Answer(r, reply)
<1>1. /\ chat' = [O EXCEPT ![r].accumulated = @ \o Answer(r, reply),
                           ![r].attempt = @ + 1, ![r].shown = Shown(preview')]
      /\ UNCHANGED <<messages, turns>>
  BY DEF Retry, session
<1>2. /\ IInv /\ Recollection /\ chat[r].accumulated \in Seq(Message)
      /\ Asks(chat[r].accumulated, r)
  BY Disassembled DEF MInv, Recollection, Waiting, Chat
<1>3. Asks(longer, r)
  BY <1>2, AskedAgain
<1>4. /\ O \in [Request -> Chat]
      /\ \A o \in Request : /\ O[o].waiting = chat[o].waiting
                            /\ O[o].accumulated = chat[o].accumulated
  BY <1>2, OthersTyped
<1>5. chat'[r].accumulated = longer /\ \A o \in Request \ {r} : chat'[o] = O[o]
  <2> HIDE DEF O
  <2>1. O[r] \in Chat
    BY <1>4
  <2> QED
    BY <1>1, <1>4, <2>1 DEF Chat
<1> HIDE DEF O, longer
<1>6. ASSUME NEW o \in Request, chat'[o].waiting
      PROVE  Asks(chat'[o].accumulated, o)
  <2>1. CASE o = r
    BY <1>3, <1>5, <2>1
  <2>2. CASE o # r
    BY <1>2, <1>4, <1>5, <1>6, <2>2 DEF Recollection, Waiting
  <2> QED
    BY <2>1, <2>2
<1> QED
  BY <1>1, <1>2, <1>6 DEF Recollection, Waiting, MemoryMatchesTranscript

LEMMA DisturbedSame ==
  ASSUME IInv, chat' = Disturb(chat) \/ UNCHANGED chat
  PROVE  SameBuffers
<1>1. CASE chat' = Disturb(chat)
  BY <1>1, DisturbKeeps
<1>2. CASE UNCHANGED chat
  BY <1>2 DEF SameBuffers
<1> QED
  BY <1>1, <1>2

LEMMA NextRemembers == MInv /\ [Next]_vars => MInv'
<1> SUFFICES ASSUME MInv, [Next]_vars PROVE Recollection'
  BY NextKeeps DEF MInv
<1>1. IInv /\ Recollection
  BY DEF MInv
<1>2. ASSUME chat' = Disturb(chat) \/ UNCHANGED chat,
             UNCHANGED <<messages, turns>> \/ (messages' = << >> /\ turns' = << >>)
      PROVE  Recollection'
  BY <1>1, <1>2, DisturbedSame, RecollectionKept
<1>3. CASE Wipe
  BY <1>2, <1>3 DEF Wipe
<1>4. CASE UNCHANGED <<session, chat>>
  BY <1>2, <1>4 DEF session
<1>5. ASSUME NEW r \in Request, PostChat(r)
      PROVE  Recollection'
  BY <1>5, PostChatAsks
<1>6. ASSUME NEW r \in Request, MissKey(r)
      PROVE  Recollection'
  BY <1>6, VanishedIsForgotten DEF MissKey
<1>7. ASSUME NEW r \in Request, LLMAnswers(r)
      PROVE  Recollection'
  <2>1. CASE FailCall(r)
    BY <2>1, FailedTurnIsForgotten
  <2>2. CASE MisfitCarry(r)
    BY <2>2, VanishedIsForgotten DEF MisfitCarry
  <2>3. ASSUME NEW reply \in Replies, ReceiveReply(r, reply)
        PROVE  Recollection'
    <3>1. chat[r].waiting /\ ApplyWriteEffect(reply)
          /\ (RecordTurn(r, reply) \/ Retry(r, reply))
      BY <2>3 DEF ReceiveReply
    <3> QED
      BY <3>1, RecordTurnRemembers, RetryRemembers
  <2> QED
    BY <1>7, <2>1, <2>2, <2>3 DEF LLMAnswers
<1>8. CASE RefuseChat
  BY <1>2, <1>8 DEF RefuseChat
<1>9. CASE WipingEdit
  BY <1>3, <1>4, <1>9 DEF WipingEdit, DeleteSession, SavePreview, RenameEffect,
                          SelectPreview, LoadPreview, PullLiveToPreview
<1>10. CASE QuietEdit
  BY <1>2, <1>10 DEF QuietEdit, RemovePreviewLayer, ReorderPreviewLayer,
                     SwapTopology, session
<1>11. CASE Tick
  BY <1>2, <1>11 DEF Tick
<1>12. CASE UNCHANGED vars
  BY <1>2, <1>12 DEF vars
<1> QED
  BY <1>5, <1>6, <1>7, <1>8, <1>9, <1>10, <1>11, <1>12 DEF Next

(***************************************************************************)
(* Through any interleaving of turns, retries, failures, wipes and trims,  *)
(* the buffer holds the questions of the last history_max_turns answered   *)
(* turns of the transcript and no others, in their order: session.py's     *)
(* two lists, written at different moments, never disagree.                *)
(***************************************************************************)
THEOREM MemoryTrue == Spec => []MemoryMatchesTranscript
<1>1. Init => MInv
  <2> SUFFICES ASSUME Init PROVE Recollection
    BY InitEstablishes DEF MInv
  <2>1. messages = << >> /\ turns = << >> /\ Waiting = {}
    BY DEF Init, Waiting, Idle
  <2>2. Users(messages) = {} /\ Answered(turns) = {}
    BY <2>1 DEF Users, Answered
  <2>3. Cardinality({}) = 0 /\ HistoryMaxTurns \in Nat
    BY FS_EmptySet, ChatAssumption
  <2>4. Min({HistoryMaxTurns, 0}) = 0
    BY <2>3, MinOfTwo
  <2> QED
    BY <2>1, <2>2, <2>3, <2>4 DEF Recollection, MemoryMatchesTranscript
<1>2. MInv => MemoryMatchesTranscript
  BY DEF MInv, Recollection
<1> QED
  BY <1>1, <1>2, NextRemembers, PTL DEF Spec

-----------------------------------------------------------------------------
(***************************************************************************)
(* The refinement: the requests that wait are those that were asked; the   *)
(* transcript is sess.turns.                                               *)
(***************************************************************************)
LEMMA SameRequests ==
  ASSUME chat \in [Request -> Chat], chat' = Disturb(chat) \/ UNCHANGED chat
  PROVE  Waiting' = Waiting
<1>1. ASSUME NEW r \in Request PROVE chat'[r].waiting = chat[r].waiting
  <2>1. CASE chat' = Disturb(chat)
    <3>1. chat[r] \in Chat /\ chat'[r] = [chat[r] EXCEPT !.alone = FALSE]
      BY <2>1 DEF Disturb
    <3> QED
      BY <3>1 DEF Chat
  <2>2. CASE UNCHANGED chat
    BY <2>2
  <2> QED
    BY <2>1, <2>2
<1> QED
  BY <1>1 DEF Waiting

LEMMA OneEnds ==
  ASSUME NEW chats \in [Request -> Chat], NEW r \in Request, chat[r].waiting,
         chat' = [chats EXCEPT ![r] = Idle],
         \A o \in Request \ {r} : chats[o].waiting = chat[o].waiting
  PROVE  r \in Waiting /\ Waiting' = Waiting \ {r}
<1>1. chat'[r] = Idle /\ \A o \in Request \ {r} : chat'[o] = chats[o]
  OBVIOUS
<1>2. ~chat'[r].waiting
  BY <1>1 DEF Idle
<1> QED
  BY <1>1, <1>2 DEF Waiting

LEMMA PromisedNext ==
  ASSUME IInv, [Next]_vars
  PROVE  [Promised!Next]_(Promised!vars)
<1> USE DEF Promised!Next, Promised!vars
<1>1. IInv /\ chat \in [Request -> Chat]
  BY Disassembled
<1>2. ASSUME chat' = Disturb(chat) \/ UNCHANGED chat, UNCHANGED <<turns, epoch>>
      PROVE  UNCHANGED Promised!vars
  BY <1>1, <1>2, SameRequests
<1>3. CASE Wipe
  <2>1. Promised!Clear
    BY <1>1, <1>3, SameRequests DEF Wipe, Promised!Clear
  <2> QED
    BY <2>1
<1>4. CASE UNCHANGED <<session, chat>>
  BY <1>2, <1>4 DEF session
<1>5. ASSUME NEW r \in Request, PostChat(r)
      PROVE  [Promised!Next]_(Promised!vars)
  <2> DEFINE posted == [waiting |-> TRUE, history |-> messages,
                        accumulated |-> <<UserMessage(r)>>, attempt |-> 1,
                        shown |-> Shown(preview), alone |-> TRUE]
  <2>1. ~chat[r].waiting /\ chat' = [chat EXCEPT ![r] = posted] /\ posted.waiting
        /\ UNCHANGED <<turns, epoch>>
    BY <1>5 DEF PostChat
  <2> HIDE DEF posted
  <2>2. Waiting' = Waiting \cup {r} /\ r \notin Waiting
    BY <1>1, <2>1 DEF Waiting
  <2>3. Promised!Ask(r)
    BY <2>1, <2>2 DEF Promised!Ask
  <2> QED
    BY <2>3
<1>6. ASSUME NEW r \in Request, Vanish(r)
      PROVE  [Promised!Next]_(Promised!vars)
  <2>1. chat[r].waiting /\ chat' = [chat EXCEPT ![r] = Idle] /\ UNCHANGED <<turns, epoch>>
    BY <1>6 DEF Vanish, session
  <2>2. Promised!Drop(r)
    BY <1>1, <2>1, OneEnds DEF Promised!Drop
  <2> QED
    BY <2>2
<1>7. ASSUME NEW r \in Request, FailCall(r)
      PROVE  [Promised!Next]_(Promised!vars)
  <2>1. Promised!Record(r, FALSE)
    BY <1>1, <1>7, OneEnds DEF FailCall, Promised!Record
  <2> QED
    BY <2>1
<1>8. ASSUME NEW r \in Request, NEW reply \in Replies, ReceiveReply(r, reply)
      PROVE  [Promised!Next]_(Promised!vars)
  <2> DEFINE O == Others(r, reply)
  <2>1. chat[r].waiting /\ ApplyWriteEffect(reply)
        /\ (RecordTurn(r, reply) \/ Retry(r, reply))
    BY <1>8 DEF ReceiveReply
  <2>2. O \in [Request -> Chat] /\ \A o \in Request : O[o].waiting = chat[o].waiting
    BY <1>1, <2>1, OthersTyped
  <2>3. CASE RecordTurn(r, reply)
    <3>1. /\ chat' = [O EXCEPT ![r] = Idle] /\ UNCHANGED epoch
          /\ turns' = Append(turns, [of |-> r, answered |-> TRUE])
      BY <2>3 DEF RecordTurn
    <3> HIDE DEF O
    <3>2. Promised!Record(r, TRUE)
      BY <2>1, <2>2, <3>1, OneEnds DEF Promised!Record
    <3> QED
      BY <3>2
  <2>4. CASE Retry(r, reply)
    <3>1. /\ chat' = [O EXCEPT ![r].accumulated = @ \o Answer(r, reply),
                               ![r].attempt = @ + 1, ![r].shown = Shown(preview')]
          /\ UNCHANGED <<turns, epoch>>
      BY <2>4 DEF Retry, session
    <3> HIDE DEF O
    <3>2. O[r] \in Chat
      BY <2>2
    <3>3. \A o \in Request : chat'[o].waiting = O[o].waiting
      BY <2>2, <3>1, <3>2 DEF Chat
    <3>4. Waiting' = Waiting
      BY <2>2, <3>3 DEF Waiting
    <3> QED
      BY <3>1, <3>4
  <2> QED
    BY <2>1, <2>3, <2>4
<1>9. CASE RefuseChat
  BY <1>2, <1>9 DEF RefuseChat
<1>10. CASE WipingEdit
  BY <1>3, <1>4, <1>10 DEF WipingEdit, DeleteSession, SavePreview, RenameEffect,
                           SelectPreview, LoadPreview, PullLiveToPreview
<1>11. CASE QuietEdit
  BY <1>2, <1>11 DEF QuietEdit, RemovePreviewLayer, ReorderPreviewLayer,
                     SwapTopology, session
<1>12. CASE Tick
  BY <1>2, <1>12 DEF Tick
<1>13. CASE UNCHANGED vars
  BY <1>2, <1>13 DEF vars
<1> QED
  BY <1>5, <1>6, <1>7, <1>8, <1>9, <1>10, <1>11, <1>12, <1>13
     DEF Next, LLMAnswers, MissKey, MisfitCarry

(***************************************************************************)
(* The chat agent implements the Conversation: each request ends in one    *)
(* turn or none, and the transcript shrinks only by a wipe, as a whole and *)
(* with a new chat_epoch.                                                  *)
(***************************************************************************)
THEOREM Implements == Spec => IsConversation
<1>1. Init => Promised!Init
  BY DEF Init, Promised!Init, Waiting, Idle
<1>2. IInv /\ [Next]_vars => [Promised!Next]_(Promised!vars)
  BY PromisedNext
<1> QED
  BY <1>1, <1>2, Invariance, PTL DEF Spec, IsConversation, Promised!Spec
-----------------------------------------------------------------------------
(***************************************************************************)
(* Of ChatEnds, what takes no fairness: every answer of the LLM uses up an *)
(* attempt, and nobody gives one back.                                     *)
(***************************************************************************)
Untouched(r) ==
  /\ chat'[r].history = chat[r].history
  /\ chat'[r].accumulated = chat[r].accumulated
  /\ chat'[r].attempt = chat[r].attempt

Retried(r) ==
  /\ chat[r].attempt < MaxAttempts
  /\ chat'[r].attempt = chat[r].attempt + 1
  /\ chat'[r].history = chat[r].history
  /\ \E reply \in Replies : chat'[r].accumulated = chat[r].accumulated \o Answer(r, reply)

(* max_attempts is 1 + retry_on_tool_error: an answer, whatever it is, ends its
   request or leads to its next attempt, while there is one left; and as long as a request waits, it sends the history it was admitted
   with and what its own attempts added, however other requests, edits and
   wipes come in between. *)
AttemptsRunOut ==
  [][\A r \in Request : chat[r].waiting =>
       /\ LLMAnswers(r) => ~chat'[r].waiting \/ Retried(r)
       /\ chat'[r].waiting => Untouched(r) \/ Retried(r)]_vars

LEMMA DisturbedUntouched ==
  ASSUME chat \in [Request -> Chat], chat' = Disturb(chat) \/ UNCHANGED chat,
         NEW r \in Request
  PROVE  Untouched(r)
<1>1. CASE chat' = Disturb(chat)
  <2>1. chat[r] \in Chat /\ chat'[r] = [chat[r] EXCEPT !.alone = FALSE]
    BY <1>1 DEF Disturb
  <2> QED
    BY <2>1 DEF Chat, Untouched
<1>2. CASE UNCHANGED chat
  BY <1>2 DEF Untouched
<1> QED
  BY <1>1, <1>2

LEMMA AnotherUntouched ==
  ASSUME chat \in [Request -> Chat], NEW q \in Request, NEW c,
         chat' = [chat EXCEPT ![q] = c], NEW r \in Request \ {q}
  PROVE  Untouched(r)
BY DEF Untouched

(* A reply: its own request ends or is retried, the others go on. *)
LEMMA ReplyCounts ==
  ASSUME IInv, NEW q \in Request, NEW reply \in Replies, ReceiveReply(q, reply)
  PROVE  /\ ~chat'[q].waiting \/ Retried(q)
         /\ \A r \in Request \ {q} : Untouched(r)
<1> DEFINE O == Others(q, reply)
<1>1. chat \in [Request -> Chat]
  BY Disassembled
<1>2. chat[q].waiting /\ ApplyWriteEffect(reply)
      /\ (RecordTurn(q, reply) \/ (~Exhausted(q) /\ Retry(q, reply)))
  BY DEF ReceiveReply
<1>3. /\ O \in [Request -> Chat]
      /\ \A o \in Request : /\ O[o].history = chat[o].history
                            /\ O[o].accumulated = chat[o].accumulated
                            /\ O[o].attempt = chat[o].attempt
  BY <1>2, OthersTyped
<1>4. CASE RecordTurn(q, reply)
  <2>1. chat' = [O EXCEPT ![q] = Idle]
    BY <1>4 DEF RecordTurn
  <2> HIDE DEF O
  <2>2. ~chat'[q].waiting
    BY <1>3, <2>1 DEF Idle
  <2>3. \A r \in Request \ {q} : chat'[r] = O[r]
    BY <1>3, <2>1
  <2> QED
    BY <1>3, <2>2, <2>3 DEF Untouched
<1>5. CASE ~Exhausted(q) /\ Retry(q, reply)
  <2>1. chat' = [O EXCEPT ![q].accumulated = @ \o Answer(q, reply),
                          ![q].attempt = @ + 1, ![q].shown = Shown(preview')]
    BY <1>5 DEF Retry
  <2> HIDE DEF O
  <2>2. O[q] \in Chat
    BY <1>3
  <2>3. /\ chat'[q].accumulated = O[q].accumulated \o Answer(q, reply)
        /\ chat'[q].attempt = O[q].attempt + 1
        /\ chat'[q].history = O[q].history
    BY <1>3, <2>1, <2>2 DEF Chat
  <2>4. chat[q].attempt < MaxAttempts
    <3>1. chat[q].attempt \in Nat /\ MaxAttempts \in Nat
      BY <1>1, ChatAssumption DEF Chat, MaxAttempts
    <3> QED
      BY <1>5, <3>1 DEF Exhausted
  <2>5. Retried(q)
    BY <1>3, <2>3, <2>4 DEF Retried
  <2>6. \A r \in Request \ {q} : chat'[r] = O[r]
    BY <1>3, <2>1
  <2> QED
    BY <1>3, <2>5, <2>6 DEF Untouched
<1> QED
  BY <1>2, <1>4, <1>5

(* Requests that end without an answer of the LLM, or by its failure. *)
LEMMA EndCounts ==
  ASSUME IInv, NEW q \in Request, FailCall(q) \/ Vanish(q)
  PROVE  ~chat'[q].waiting /\ \A r \in Request \ {q} : Untouched(r)
<1>1. chat \in [Request -> Chat] /\ chat' = [chat EXCEPT ![q] = Idle]
  BY Disassembled DEF FailCall, Vanish
<1> QED
  BY <1>1 DEF Idle, Untouched

LEMMA AnswerCounts ==
  ASSUME IInv, NEW q \in Request, LLMAnswers(q)
  PROVE  /\ ~chat'[q].waiting \/ Retried(q)
         /\ \A r \in Request \ {q} : Untouched(r)
<1>1. ASSUME NEW reply \in Replies, ReceiveReply(q, reply)
      PROVE  /\ ~chat'[q].waiting \/ Retried(q)
             /\ \A r \in Request \ {q} : Untouched(r)
  BY <1>1, ReplyCounts
<1> QED
  BY <1>1, EndCounts DEF LLMAnswers, MisfitCarry

LEMMA NextCounts ==
  ASSUME IInv, [Next]_vars, NEW r \in Request, chat[r].waiting, chat'[r].waiting
  PROVE  Untouched(r) \/ Retried(r)
<1>1. chat \in [Request -> Chat]
  BY Disassembled
<1>2. ASSUME chat' = Disturb(chat) \/ UNCHANGED chat PROVE Untouched(r)
  BY <1>1, <1>2, DisturbedUntouched
<1>3. ASSUME NEW q \in Request, PostChat(q) PROVE Untouched(r)
  <2>1. ~chat[q].waiting /\ \E c : chat' = [chat EXCEPT ![q] = c]
    BY <1>3 DEF PostChat
  <2> QED
    BY <1>1, <2>1, AnotherUntouched
<1>4. ASSUME NEW q \in Request, LLMAnswers(q) PROVE Untouched(r) \/ Retried(r)
  BY <1>4, AnswerCounts
<1>5. ASSUME NEW q \in Request, MissKey(q) PROVE Untouched(r)
  BY <1>5, EndCounts DEF MissKey
<1>6. CASE RefuseChat \/ Tick \/ UNCHANGED vars
  BY <1>2, <1>6 DEF RefuseChat, Tick, vars
<1>7. CASE WipingEdit
  BY <1>2, <1>7 DEF WipingEdit, DeleteSession, SavePreview, RenameEffect,
                    SelectPreview, LoadPreview, PullLiveToPreview, Wipe
<1>8. CASE QuietEdit
  BY <1>2, <1>8 DEF QuietEdit, RemovePreviewLayer, ReorderPreviewLayer, SwapTopology
<1> QED
  BY <1>3, <1>4, <1>5, <1>6, <1>7, <1>8 DEF Next

(***************************************************************************)
(* The retry loop of post_chat: an answer ends its request or uses up one  *)
(* of its attempts, so a request makes no more LLM calls than 1 +          *)
(* retry_on_tool_error, whatever happens around it.                        *)
(***************************************************************************)
THEOREM AttemptsCounted == Spec => AttemptsRunOut
<1> DEFINE Counted ==
      \A r \in Request : chat[r].waiting =>
        /\ LLMAnswers(r) => ~chat'[r].waiting \/ Retried(r)
        /\ chat'[r].waiting => Untouched(r) \/ Retried(r)
<1>1. IInv /\ [Next]_vars => Counted
  BY AnswerCounts, NextCounts
<1>2. IInv /\ [Next]_vars => [Counted]_vars
  BY <1>1
<1> QED
  BY <1>2, Invariance, PTL DEF Spec, AttemptsRunOut
=============================================================================
