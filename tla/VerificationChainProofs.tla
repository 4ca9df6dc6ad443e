------------------------ MODULE VerificationChainProofs ------------------------
(***************************************************************************)
(* Proofs about VerificationChain for any bill, any findings, any settings *)
(* and any answers.                                                        *)
(*                                                                         *)
(* BatchInv: the semaphore of a batch (FanOutsAreBounded).  ChainInv: what *)
(* is held stems from the raw findings, none twice, and only a task that   *)
(* is over has removed its finding (NothingLostByFailure, StrongestIsKept, *)
(* PublishedByScore).  EventsInv: what is recorded and what is held make   *)
(* up the raw findings (EventsAddUp).  The last part maps the chain to     *)
(* FindingFates (ChainDecidesFates).  In between are the facts about lists *)
(* of numbers, clusters and ranks that these rest on.                      *)
(***************************************************************************)
EXTENDS VerificationChain, FiniteSetTheorems, SequenceTheorems, WellFoundedInduction,
        TLAPS

\* What a batch relies on: each task has its fields, one that still waits has
\* removed nothing, and the calls and the free slots make up the semaphore.
BatchInv ==
  /\ case \in Cases
  /\ stage \in {"review", "verify"} =>
       /\ \A i \in DOMAIN task :
            /\ {"at", "removed"} \subseteq DOMAIN task[i]
            /\ task[i].at = "queued" => task[i].removed = FALSE
       /\ IsFiniteSet(Calling)
       /\ free \in Nat
       /\ free + Cardinality(Calling) = case.slots

\* The sort of the semaphore.
LEMMA SlotsType == ASSUME NEW c \in Cases PROVE c.slots \in Nat
BY ChainAssumption DEF Case

\* A step of one task keeps the batch, if it takes a slot only when one is
\* free and queues nothing.
LEMMA MoveKeepsBatch ==
  ASSUME BatchInv, stage \in {"review", "verify"},
         NEW i \in DOMAIN task, NEW t,
         {"at", "removed"} \subseteq DOMAIN t,
         t.at # "queued",
         task[i].at \in Calls \/ free > 0,
         Move(i, t)
  PROVE  BatchInv'
<1>1. /\ case' = case /\ stage' = stage /\ DOMAIN task' = DOMAIN task
      /\ task'[i] = t
      /\ \A j \in DOMAIN task : j # i => task'[j] = task[j]
  BY DEF Move
<1>2. /\ IsFiniteSet(Calling) /\ free \in Nat /\ Cardinality(Calling) \in Nat
      /\ free + Cardinality(Calling) = case.slots
  BY FS_CardinalityType DEF BatchInv
<1>3. free' = free + (IF task[i].at \in Calls THEN 1 ELSE 0) - (IF t.at \in Calls THEN 1 ELSE 0)
  BY DEF Move
<1>4. Calling' = IF t.at \in Calls THEN Calling \cup {i} ELSE Calling \ {i}
  BY <1>1 DEF Calling
<1>5. i \in Calling <=> task[i].at \in Calls
  BY DEF Calling
<1>6. /\ IsFiniteSet(Calling \cup {i})
      /\ Cardinality(Calling \cup {i}) =
           IF i \in Calling THEN Cardinality(Calling) ELSE Cardinality(Calling) + 1
  BY <1>2, FS_AddElement
<1>7. /\ IsFiniteSet(Calling \ {i})
      /\ Cardinality(Calling \ {i}) =
           IF i \in Calling THEN Cardinality(Calling) - 1 ELSE Cardinality(Calling)
  BY <1>2, FS_RemoveElement
<1>8. IsFiniteSet(Calling') /\ free' \in Nat /\ free' + Cardinality(Calling') = case.slots
  <2>1. CASE t.at \in Calls
    BY <1>2, <1>3, <1>4, <1>5, <1>6, <2>1
  <2>2. CASE t.at \notin Calls
    BY <1>2, <1>3, <1>4, <1>5, <1>7, <2>2
  <2> QED BY <2>1, <2>2
<1> QED BY <1>1, <1>8 DEF BatchInv

\* A batch starts with all its slots free.
LEMMA FanStartsBatch ==
  ASSUME BatchInv, NEW where, NEW fs, NEW evs, Fan(where, fs, evs)
  PROVE  BatchInv'
<1>1. case' = case /\ free' = case.slots /\ task' = Batch(fs)
  BY DEF Fan
<1>2. Calling' = {}
  BY <1>1 DEF Calling, Batch, Queued, Calls
<1>3. Cardinality(Calling') = 0 /\ IsFiniteSet(Calling')
  BY <1>2, FS_EmptySet
<1>4. case.slots \in Nat
  BY SlotsType DEF BatchInv
<1>5. \A i \in DOMAIN task' :
        /\ {"at", "removed"} \subseteq DOMAIN task'[i]
        /\ task'[i].removed = FALSE
  BY <1>1 DEF Batch, Queued
<1> QED BY <1>1, <1>3, <1>4, <1>5 DEF BatchInv
-----------------------------------------------------------------------------
(* The steps of tasks.                                                     *)

LEMMA ReviewKeepsBatch ==
  ASSUME BatchInv, NEW i \in DOMAIN task, ReviewStep(i)
  PROVE  BatchInv'
<1>1. stage \in {"review", "verify"} /\ {"at", "removed"} \subseteq DOMAIN task[i]
  BY DEF ReviewStep, BatchInv
<1>2. CASE BeginReview(i)
  BY <1>1, <1>2, MoveKeepsBatch DEF BeginReview, Waits
<1>3. CASE Refutes(i)
  BY <1>1, <1>3, MoveKeepsBatch DEF Refutes, InCall, Removed, Calls
<1>4. CASE Upholds(i)
  BY <1>1, <1>4, MoveKeepsBatch DEF Upholds, InCall, Calls
<1>5. CASE CriticFails(i)
  BY <1>1, <1>5, MoveKeepsBatch DEF CriticFails, InCall, Calls
<1> QED BY <1>2, <1>3, <1>4, <1>5 DEF ReviewStep

LEMMA VerifyKeepsBatch ==
  ASSUME BatchInv, NEW i \in DOMAIN task, VerifyStep(i)
  PROVE  BatchInv'
<1>1. stage \in {"review", "verify"} /\ {"at", "removed"} \subseteq DOMAIN task[i]
  BY DEF VerifyStep, BatchInv
<1>2. CASE GateDrops(i)
  BY <1>1, <1>2, MoveKeepsBatch DEF GateDrops, Waits, Removed
<1>3. CASE GatePasses(i)
  BY <1>1, <1>3, MoveKeepsBatch DEF GatePasses, Waits
<1>4. CASE Resolves(i)
  BY <1>1, <1>4, MoveKeepsBatch DEF Resolves, Waits, Removed
<1>5. CASE Plans(i)
  BY <1>1, <1>5, MoveKeepsBatch DEF Plans, InCall, Calls
<1>6. CASE Answers(i)
  BY <1>1, <1>6, MoveKeepsBatch DEF Answers, InCall, Calls
<1>7. CASE Contradicts(i)
  BY <1>1, <1>7, MoveKeepsBatch DEF Contradicts, InCall, Removed, Calls
<1>8. CASE Confirms(i)
  BY <1>1, <1>8, MoveKeepsBatch DEF Confirms, InCall, Calls
<1>9. CASE VerifierFails(i)
  BY <1>1, <1>9, MoveKeepsBatch DEF VerifierFails, Calls
<1> QED BY <1>2, <1>3, <1>4, <1>5, <1>6, <1>7, <1>8, <1>9 DEF VerifyStep

LEMMA DriveKeepsBatch ==
  ASSUME BatchInv, Drive
  PROVE  BatchInv'
<1>1. CASE NothingFound
  BY <1>1 DEF NothingFound, BatchInv
<1>2. CASE Collapse
  BY <1>2, FanStartsBatch DEF Collapse
<1>3. CASE EndReview
  <2>1. CASE stage' = "done"
    BY <1>3, <2>1 DEF EndReview, Finish, Fan, BatchInv
  <2>2. CASE stage' # "done"
    BY <1>3, <2>2, FanStartsBatch DEF EndReview, Finish
  <2> QED BY <2>1, <2>2
<1>4. CASE EndVerify
  BY <1>4 DEF EndVerify, Finish, BatchInv
<1>5. CASE Rerank
  BY <1>5 DEF Rerank, Finish, BatchInv
<1> QED BY <1>1, <1>2, <1>3, <1>4, <1>5 DEF Drive

THEOREM BatchInvariant == Spec => []BatchInv
<1>1. Init => BatchInv
  BY DEF Init, BatchInv
<1>2. BatchInv /\ [Next]_vars => BatchInv'
  <2> SUFFICES ASSUME BatchInv, [Next]_vars PROVE BatchInv'
    OBVIOUS
  <2>1. CASE Cancel
    BY <2>1 DEF Cancel, BatchInv
  <2>2. CASE UNCHANGED vars
    BY <2>2 DEF vars, BatchInv, Calling
  <2> QED BY <2>1, <2>2, ReviewKeepsBatch, VerifyKeepsBatch, DriveKeepsBatch DEF Next
<1> QED BY <1>1, <1>2, PTL DEF Spec

\* review() and verify_batch() never use more slots than their semaphore has,
\* and give each slot back, whatever calls answer or fail.
THEOREM FanOutsAreBounded == Spec => []BatchBounded
<1>1. BatchInv => BatchBounded
  BY DEF BatchInv, BatchBounded
<1> QED BY <1>1, BatchInvariant, PTL
-----------------------------------------------------------------------------
(* Quotes.                                                                 *)

\* A set of positions that is not empty has a last one.
LEMMA LastPosition ==
  ASSUME NEW n \in Nat, NEW S \in SUBSET (1..n), S # {}
  PROVE  \E k \in S : \A j \in S : j <= k
<1> DEFINE T == {n - k : k \in S}
<1>1. T \subseteq Nat /\ T # {}
  <2>1. \A k \in S : n - k \in Nat
    OBVIOUS
  <2>2. T # {}
    OBVIOUS
  <2> QED BY <2>1, <2>2
<1>2. PICK x \in T : \A y \in T : ~(<<y, x>> \in OpToRel(<, Nat))
  <2> HIDE DEF T
  <2> QED BY <1>1, WFMin, NatLessThanWellFounded
<1>3. PICK k \in S : x = n - k
  BY DEF T
<1> HIDE DEF T
<1>4. \A j \in S : ~(n - j < n - k)
  <2> TAKE j \in S
  <2>1. n - j \in T /\ n - j \in Nat /\ n - k \in Nat
    BY <1>1, <1>3 DEF T
  <2>2. ~(<<n - j, n - k>> \in OpToRel(<, Nat))
    BY <1>2, <1>3, <2>1
  <2> QED BY <2>1, <2>2 DEF OpToRel
<1>5. \A j \in S : j <= k
  <2> TAKE j \in S
  <2>1. j \in Nat /\ k \in Nat
    OBVIOUS
  <2> QED BY <1>4, <2>1
<1> QED BY <1>5

\* Without lettered articles a finding is checked against its own article.
LEMMA SourceIsArticle ==
  ASSUME \A a \in Article : Bare[a] = a, NEW f
  PROVE  SourceOf(f) \in {f.article, NoArticle}
<1> DEFINE S == {k \in 1..Len(Document) : Bare[Document[k]] = f.article}
<1>1. CASE f.article \in IndexKeys
  <2>1. Len(Document) \in Nat /\ S \in SUBSET (1..Len(Document)) /\ S # {}
    BY <1>1, ChainAssumption DEF IndexKeys
  <2>2. \E k \in S : \A j \in S : j <= k
    <3> HIDE DEF S
    <3> QED BY <2>1, LastPosition
  <2>3. PICK k \in S : SourceOf(f) = Document[k]
    BY <1>1, <2>2 DEF SourceOf
  <2>4. Document[k] \in Article /\ Bare[Document[k]] = f.article
    BY <2>3, ChainAssumption
  <2> QED BY <2>3, <2>4
<1>2. CASE f.article \notin IndexKeys
  BY <1>2 DEF SourceOf
<1> QED BY <1>1, <1>2

\* Of the steps of a task that waits for its verification only the gates
\* remove, and they remove what they condemn.
LEMMA GateStep ==
  ASSUME BatchInv, case.llm, NEW i \in DOMAIN task, task[i].at = "queued",
         NEW k \in DOMAIN task, VerifyStep(k), task'[i].removed
  PROVE  Condemned(list[i])
<1>1. task[i].removed = FALSE /\ {"at", "removed"} \subseteq DOMAIN task[k]
  BY DEF BatchInv, VerifyStep
<1>2. CASE k # i
  <2>1. PICK t : task' = [task EXCEPT ![k] = t]
    BY DEF VerifyStep, GateDrops, GatePasses, Resolves, Plans, Answers, Contradicts,
         Confirms, VerifierFails, Move
  <2> QED BY <1>1, <1>2, <2>1
<1>3. CASE k = i
  <2>1. GateDrops(i) \/ GatePasses(i)
    BY <1>3 DEF VerifyStep, Resolves, Plans, Answers, Contradicts, Confirms, VerifierFails,
         InCall, Calls
  <2>2. CASE GatePasses(i)
    BY <1>1, <1>3, <2>2 DEF GatePasses, Move
  <2> QED BY <2>1, <2>2 DEF GateDrops
<1> QED BY <1>2, <1>3

\* When no two headings begin with the same number, a finding is not dropped
\* for a quote that is in its article: the index of run() is only wrong about
\* articles with a letter.
THEOREM RealQuotesPassWithoutLetters ==
  ASSUME \A a \in Article : Bare[a] = a
  PROVE  Spec => RealQuotesPass
<1>1. BatchInv /\ [Next]_vars =>
        [\A i \in DOMAIN task :
           case.llm /\ stage = "verify" /\ task[i].at = "queued" /\ i \in DOMAIN task' /\ task'[i].removed =>
             list[i].quote # list[i].article \/ list[i].falseCitation]_vars
  <2> SUFFICES ASSUME BatchInv, [Next]_vars, NEW i \in DOMAIN task,
                      case.llm, stage = "verify", task[i].at = "queued",
                      i \in DOMAIN task', task'[i].removed
               PROVE  list[i].quote # list[i].article \/ list[i].falseCitation
    OBVIOUS
  <2>1. task[i].removed = FALSE
    BY DEF BatchInv
  <2>2. task' # task
    BY <2>1
  <2>3. ~AllDone("verified")
    BY DEF AllDone
  <2>4. PICK k \in DOMAIN task : VerifyStep(k)
    BY <2>2, <2>3 DEF Next, vars, Drive, NothingFound, Collapse, EndReview, EndVerify, Rerank,
         Cancel, ReviewStep
  <2>5. Condemned(list[i])
    BY <2>4, GateStep
  <2>6. CASE Fabricated(list[i])
    BY <2>6, SourceIsArticle DEF Fabricated
  <2> QED BY <2>5, <2>6 DEF Condemned
<1> QED BY <1>1, BatchInvariant, PTL DEF Spec, RealQuotesPass
-----------------------------------------------------------------------------
(* Sets of numbers in order.                                               *)

\* A set of numbers that is not empty has a least one.
LEMMA LeastNumber ==
  ASSUME NEW S \in SUBSET Nat, S # {}
  PROVE  \E m \in S : \A k \in S : m <= k
<1>1. PICK m \in S : \A y \in S : ~(<<y, m>> \in OpToRel(<, Nat))
  BY WFMin, NatLessThanWellFounded
<1>2. \A k \in S : ~(k < m)
  BY <1>1 DEF OpToRel
<1> QED BY <1>2

\* Of some subsets of a finite set one has the fewest members.
LEMMA SmallestSet ==
  ASSUME NEW S, IsFiniteSet(S), NEW C \in SUBSET (SUBSET S), C # {}
  PROVE  \E T \in C : \A U \in C : Cardinality(T) <= Cardinality(U)
<1> DEFINE N == {Cardinality(T) : T \in C}
<1>1. \A T \in C : Cardinality(T) \in Nat
  BY FS_Subset, FS_CardinalityType
<1>2. N \in SUBSET Nat /\ N # {}
  BY <1>1
<1>3. PICK m \in N : \A k \in N : m <= k
  <2> HIDE DEF N
  <2> QED BY <1>2, LeastNumber
<1> QED BY <1>3

\* What an order of the members of S is, R[x] being those that may come after x:
\* transitive, and any two are related.
Orders(S, R) ==
  /\ \A x, y, z \in S : y \in R[x] /\ z \in R[y] => z \in R[x]
  /\ \A x, y \in S : x # y => y \in R[x] \/ x \in R[y]

\* A finite set that is not empty has a greatest member.
LEMMA Greatest ==
  ASSUME NEW S, IsFiniteSet(S), S # {}, NEW R, Orders(S, R)
  PROVE  \E m \in S : \A y \in S : y # m => m \in R[y]
<1> DEFINE Has(T) == \E m \in T : \A y \in T : y # m => m \in R[y]
           C == {T \in SUBSET S : T # {} /\ ~Has(T)}
<1> SUFFICES ASSUME ~Has(S) PROVE FALSE
  OBVIOUS
<1>1. C \in SUBSET (SUBSET S) /\ S \in C
  OBVIOUS
<1>2. PICK T \in C : \A U \in C : Cardinality(T) <= Cardinality(U)
  <2> HIDE DEF C
  <2> QED BY <1>1, SmallestSet
<1>3. PICK x \in T : TRUE
  BY <1>2
<1>4. IsFiniteSet(T) /\ Cardinality(T) \in Nat /\ Cardinality(T \ {x}) = Cardinality(T) - 1
  BY <1>2, <1>3, FS_Subset, FS_RemoveElement, FS_CardinalityType
<1>5. T \ {x} \notin C
  <2>1. ~(Cardinality(T) <= Cardinality(T) - 1)
    BY <1>4
  <2> HIDE DEF C
  <2> QED BY <1>2, <1>4, <2>1
<1>6. T \ {x} # {}
  BY <1>2, <1>3
<1>7. PICK m \in T \ {x} : \A y \in T \ {x} : y # m => m \in R[y]
  BY <1>2, <1>5, <1>6
<1>8. CASE x \in R[m]
  <2>1. \A y \in T : y # x => x \in R[y]
    BY <1>2, <1>3, <1>7, <1>8 DEF Orders
  <2> QED BY <1>2, <1>3, <2>1
<1>9. CASE x \notin R[m]
  <2>1. m \in R[x]
    BY <1>2, <1>3, <1>7, <1>9 DEF Orders
  <2>2. \A y \in T : y # m => m \in R[y]
    BY <1>7, <2>1
  <2> QED BY <1>2, <1>7, <2>2
<1> QED BY <1>8, <1>9

\* The sequence s lists the members of T in the order R.
Lists(s, T, R) ==
  /\ s \in [1..Cardinality(T) -> T]
  /\ \A j, k \in 1..Cardinality(T) : j < k => s[k] \in R[s[j]]

\* A finite set can be listed in any order.
LEMMA Enumeration ==
  ASSUME NEW S, IsFiniteSet(S), NEW R, Orders(S, R)
  PROVE  \E s : Lists(s, S, R)
<1> DEFINE C == {T \in SUBSET S : ~\E s : Lists(s, T, R)}
<1> SUFFICES ASSUME ~\E s : Lists(s, S, R) PROVE FALSE
  OBVIOUS
<1>1. C \in SUBSET (SUBSET S) /\ S \in C
  OBVIOUS
<1>2. PICK T \in C : \A U \in C : Cardinality(T) <= Cardinality(U)
  <2> HIDE DEF C
  <2> QED BY <1>1, SmallestSet
<1>3. T \in SUBSET S /\ ~\E s : Lists(s, T, R)
  BY <1>2
<1>4. T # {}
  <2>1. ASSUME T = {} PROVE FALSE
    <3>1. Cardinality(T) = 0
      BY <2>1, FS_EmptySet
    <3>2. 1..Cardinality(T) = {}
      BY <3>1
    <3>3. Lists([k \in 1..Cardinality(T) |-> k], T, R)
      BY <3>2 DEF Lists
    <3> QED BY <1>3, <3>3
  <2> QED BY <2>1
<1>5. IsFiniteSet(T) /\ Orders(T, R)
  BY <1>3, FS_Subset DEF Orders
<1>6. PICK m \in T : \A y \in T : y # m => m \in R[y]
  BY <1>4, <1>5, Greatest
<1> DEFINE U == T \ {m}
           n == Cardinality(T)
<1>7. n \in Nat /\ Cardinality(U) \in Nat /\ Cardinality(U) = n - 1
  BY <1>5, <1>6, FS_Subset, FS_RemoveElement, FS_CardinalityType
<1>8. U \notin C
  <2>1. ~(n <= n - 1)
    BY <1>7
  <2> HIDE DEF C
  <2> QED BY <1>2, <1>7, <2>1
<1>9. PICK s : Lists(s, U, R)
  BY <1>3, <1>8
<1> DEFINE t == [k \in 1..n |-> IF k = n THEN m ELSE s[k]]
<1> HIDE DEF C, n
<1>10. s \in [1..(n - 1) -> U] /\ \A j, k \in 1..(n - 1) : j < k => s[k] \in R[s[j]]
  BY <1>7, <1>9 DEF Lists
<1>11. t \in [1..n -> T]
  BY <1>6, <1>7, <1>10
<1>12. \A j, k \in 1..n : j < k => t[k] \in R[t[j]]
  <2> SUFFICES ASSUME NEW j \in 1..n, NEW k \in 1..n, j < k
               PROVE  t[k] \in R[t[j]]
    OBVIOUS
  <2>1. j \in 1..(n - 1) /\ t[j] = s[j] /\ s[j] \in T /\ s[j] # m
    BY <1>7, <1>10
  <2>2. CASE k = n
    BY <1>6, <2>1, <2>2
  <2>3. CASE k # n
    BY <1>7, <1>10, <2>1, <2>3
  <2> QED BY <2>2, <2>3
<1> QED BY <1>3, <1>11, <1>12 DEF Lists, n

\* A listing without repetition leaves no member out.
LEMMA ListsAll ==
  ASSUME NEW S, IsFiniteSet(S), NEW s \in [1..Cardinality(S) -> S],
         \A j, k \in 1..Cardinality(S) : j # k => s[j] # s[k]
  PROVE  \A x \in S : \E k \in 1..Cardinality(S) : s[k] = x
<1> DEFINE n == Cardinality(S)
           T == {s[k] : k \in 1..n}
<1>1. n \in Nat /\ T \subseteq S
  BY FS_CardinalityType
<1>2. s \in Bijection(1..n, T)
  BY DEF Bijection, Injection, Surjection, IsInjective
<1>3. IsFiniteSet(1..n) /\ Cardinality(1..n) = n
  BY <1>1, FS_Interval
<1>4. Cardinality(T) = n
  BY <1>2, <1>3, FS_Bijection DEF ExistsBijection
<1>5. T = S
  BY <1>1, <1>4, FS_Subset
<1> QED BY <1>5

\* What Ascending() returns: a sequence of all the members, in order.
LEMMA AscendingLists ==
  ASSUME NEW n \in Nat, NEW S \in SUBSET (1..n)
  PROVE  /\ IsFiniteSet(S) /\ Cardinality(S) \in 0..n
         /\ Ascending(S) \in [1..Cardinality(S) -> S]
         /\ Len(Ascending(S)) = Cardinality(S)
         /\ \A j, k \in 1..Cardinality(S) : j < k => Ascending(S)[j] < Ascending(S)[k]
         /\ \A i \in S : \E k \in 1..Cardinality(S) : Ascending(S)[k] = i
<1> DEFINE R == [x \in S |-> {y \in S : x < y}]
           c == Cardinality(S)
           a == Ascending(S)
<1>1. IsFiniteSet(1..n) /\ Cardinality(1..n) = n
  BY FS_Interval
<1>2. IsFiniteSet(S) /\ c \in 0..n
  <2>1. IsFiniteSet(S) /\ c <= n
    BY <1>1, FS_Subset
  <2>2. c \in Nat
    BY <2>1, FS_CardinalityType
  <2> HIDE DEF c
  <2> QED BY <2>1, <2>2
<1>3. Orders(S, R)
  BY DEF Orders
<1>4. PICK s : Lists(s, S, R)
  BY <1>2, <1>3, Enumeration
<1>5. \A j, k \in 1..c : j < k => s[j] < s[k]
  BY <1>4 DEF Lists
<1>6. a \in [1..c -> S] /\ \A j, k \in 1..c : j < k => a[j] < a[k]
  BY <1>4, <1>5 DEF Ascending, Lists
<1> HIDE DEF a, c
<1>7. \A j, k \in 1..c : j # k => a[j] # a[k]
  <2> SUFFICES ASSUME NEW j \in 1..c, NEW k \in 1..c, j # k, a[j] = a[k] PROVE FALSE
    OBVIOUS
  <2>1. a[j] \in Int /\ a[k] \in Int
    <3>1. a[j] \in S /\ a[k] \in S
      BY <1>6
    <3>2. \A i \in S : i \in Int
      OBVIOUS
    <3> QED BY <3>1, <3>2, Zenon
  <2>2. CASE j < k
    BY <1>6, <2>1, <2>2
  <2>3. CASE k < j
    BY <1>6, <2>1, <2>3
  <2> QED BY <2>1, <2>2, <2>3
<1>8. \A i \in S : \E k \in 1..c : a[k] = i
  BY <1>2, <1>6, <1>7, ListsAll DEF c
<1>9. Len(a) = c
  BY <1>2, <1>6
<1> QED BY <1>2, <1>6, <1>8, <1>9 DEF a, c

\* A finite set of numbers that is not empty has a greatest one.
LEMMA GreatestNumber ==
  ASSUME NEW S \in SUBSET Int, IsFiniteSet(S), S # {}
  PROVE  \E m \in S : \A o \in S : o <= m
<1> DEFINE R == [x \in S |-> {y \in S : x < y}]
<1>1. Orders(S, R)
  BY DEF Orders
<1>2. PICK m \in S : \A o \in S : o # m => m \in R[o]
  <2> HIDE DEF R
  <2> QED BY <1>1, Greatest
<1>3. \A o \in S : o # m => o < m
  BY <1>2
<1>4. \A o \in S : o \in Int /\ m \in Int
  OBVIOUS
<1> QED BY <1>3, <1>4

\* The positions of a sequence by descending score, those of equal score in
\* their own order.
ByScore(score, n) ==
  [x \in 1..n |-> {y \in 1..n : score[x] > score[y] \/ (score[x] = score[y] /\ x < y)}]

\* What Ranked() returns: the same findings, none with a higher score than one
\* before it.
LEMMA RankedLists ==
  ASSUME NEW T, NEW fs \in Seq(T), NEW score \in [1..Len(fs) -> Int]
  PROVE  \E order \in [1..Len(fs) -> 1..Len(fs)] :
           /\ Ranked(fs, score) = [k \in 1..Len(fs) |-> fs[order[k]]]
           /\ \A j, k \in 1..Len(fs) : j < k => score[order[j]] >= score[order[k]]
           /\ \A j, k \in 1..Len(fs) : j # k => order[j] # order[k]
           /\ \A i \in 1..Len(fs) : \E k \in 1..Len(fs) : order[k] = i
<1> DEFINE n == Len(fs)
           In(o) == \A j, k \in 1..n : j < k =>
                      \/ score[o[j]] > score[o[k]]
                      \/ score[o[j]] = score[o[k]] /\ o[j] < o[k]
           order == CHOOSE o \in [1..n -> 1..n] : In(o)
<1>1. n \in Nat
  OBVIOUS
<1> HIDE DEF n
<1>2. IsFiniteSet(1..n) /\ Cardinality(1..n) = n
  BY <1>1, FS_Interval
<1>3. Orders(1..n, ByScore(score, n))
  <2>1. \A i \in 1..n : score[i] \in Int /\ i \in Int
    BY DEF n
  <2>2. ASSUME NEW x \in 1..n, NEW y \in 1..n, NEW z \in 1..n,
               y \in ByScore(score, n)[x], z \in ByScore(score, n)[y]
        PROVE  z \in ByScore(score, n)[x]
    <3>1. \/ score[x] > score[y]
          \/ score[x] = score[y] /\ x < y
      BY <2>2 DEF ByScore
    <3>2. \/ score[y] > score[z]
          \/ score[y] = score[z] /\ y < z
      BY <2>2 DEF ByScore
    <3>3. \/ score[x] > score[z]
          \/ score[x] = score[z] /\ x < z
      BY <2>1, <3>1, <3>2
    <3> QED BY <3>3 DEF ByScore
  <2>3. ASSUME NEW x \in 1..n, NEW y \in 1..n, x # y
        PROVE  y \in ByScore(score, n)[x] \/ x \in ByScore(score, n)[y]
    <3>1. \/ score[x] > score[y] \/ score[y] > score[x]
          \/ score[x] = score[y] /\ (x < y \/ y < x)
      BY <2>1, <2>3
    <3> QED BY <3>1 DEF ByScore
  <2> QED BY <2>2, <2>3 DEF Orders
<1>4. PICK s : Lists(s, 1..n, ByScore(score, n))
  BY <1>2, <1>3, Enumeration
<1>5. s \in [1..n -> 1..n] /\ In(s)
  BY <1>2, <1>4 DEF Lists, ByScore
<1>6. order \in [1..n -> 1..n] /\ In(order)
  <2> HIDE DEF In
  <2> QED BY <1>5
<1>7. Ranked(fs, score) = [k \in 1..n |-> fs[order[k]]]
  BY DEF Ranked, n
<1> HIDE DEF order
<1>8. \A j, k \in 1..n : j < k => score[order[j]] >= score[order[k]] /\ order[j] # order[k]
  <2> SUFFICES ASSUME NEW j \in 1..n, NEW k \in 1..n, j < k
               PROVE  score[order[j]] >= score[order[k]] /\ order[j] # order[k]
    OBVIOUS
  <2>1. /\ score[order[j]] \in Int /\ score[order[k]] \in Int
        /\ order[j] \in Int /\ order[k] \in Int
    BY <1>6 DEF n
  <2>2. \/ score[order[j]] > score[order[k]]
        \/ score[order[j]] = score[order[k]] /\ order[j] < order[k]
    BY <1>6
  <2> QED BY <2>1, <2>2
<1>9. \A j, k \in 1..n : j # k => order[j] # order[k]
  <2> SUFFICES ASSUME NEW j \in 1..n, NEW k \in 1..n, j # k PROVE order[j] # order[k]
    OBVIOUS
  <2>1. CASE j < k
    BY <1>8, <2>1
  <2>2. CASE k < j
    BY <1>8, <2>2
  <2> QED BY <1>1, <2>1, <2>2
<1>10. \A i \in 1..n : \E k \in 1..n : order[k] = i
  <2>1. order \in [1..Cardinality(1..n) -> 1..n]
    BY <1>2, <1>6
  <2>2. \A j, k \in 1..Cardinality(1..n) : j # k => order[j] # order[k]
    BY <1>2, <1>9
  <2>3. \A i \in 1..n : \E k \in 1..Cardinality(1..n) : order[k] = i
    BY <1>2, <2>1, <2>2, ListsAll
  <2> QED BY <1>2, <2>3
<1> QED BY <1>6, <1>7, <1>8, <1>9, <1>10 DEF n
-----------------------------------------------------------------------------
(* Scores.                                                                 *)

\* No two findings of a sequence have the same id.
Distinct(fs) == \A i, j \in 1..Len(fs) : fs[i].id = fs[j].id => i = j

\* The words two issues share are a percentage.
LEMMA OverlapIsNumber ==
  ASSUME NEW f \in Finding, NEW g \in Finding
  PROVE  Overlap(f, g) \in Int
<1>1. /\ IsFiniteSet(f.issue) /\ IsFiniteSet(g.issue) /\ IsFiniteSet(f.issue \cap g.issue)
  <2>1. f.issue \subseteq Token /\ g.issue \subseteq Token
    BY DEF Finding
  <2> QED BY <2>1, FS_Subset, ChainAssumption
<1>2. /\ Cardinality(f.issue) \in Nat /\ Cardinality(g.issue) \in Nat
      /\ Cardinality(f.issue \cap g.issue) \in Nat
  BY <1>1, FS_CardinalityType
<1>3. CASE f.issue # {} /\ g.issue # {}
  <2>1. Cardinality(f.issue) > 0 /\ Cardinality(g.issue) > 0
    BY <1>1, <1>2, <1>3, FS_EmptySet
  <2> DEFINE shared == Cardinality(f.issue \cap g.issue)
             most == Cardinality(IF Cardinality(f.issue) > Cardinality(g.issue)
                                   THEN f.issue ELSE g.issue)
  <2>2. most \in Nat /\ most > 0
    BY <1>2, <2>1
  <2>3. Overlap(f, g) = (100 * shared) \div most
    BY <1>3 DEF Overlap
  <2> HIDE DEF shared, most
  <2>4. 100 * shared \in Nat
    BY <1>2 DEF shared
  <2>5. (100 * shared) \div most \in Int
    BY <2>2, <2>4
  <2> QED BY <2>3, <2>5
<1>4. CASE f.issue = {} \/ g.issue = {}
  BY <1>4 DEF Overlap
<1> QED BY <1>3, <1>4

\* Novelty and composite score of a finding are numbers.
LEMMA CompositeIsNumber ==
  ASSUME NEW fs \in Seq(Finding), Distinct(fs), NEW i \in 1..Len(fs)
  PROVE  Novelty(fs[i], fs) \in Int /\ Composite(fs[i], fs) \in Int
<1> DEFINE others == {j \in 1..Len(fs) : fs[j].id # fs[i].id}
           overlaps == {Overlap(fs[i], fs[j]) : j \in others}
           share == [j \in others |-> Overlap(fs[i], fs[j])]
<1>1. Len(fs) \in Nat /\ \A j \in 1..Len(fs) : fs[j] \in Finding
  OBVIOUS
<1>2. overlaps \in SUBSET Int
  BY <1>1, OverlapIsNumber
<1>3. IsFiniteSet(overlaps)
  <2>1. share \in Surjection(others, overlaps)
    BY DEF Surjection
  <2>2. IsFiniteSet(1..Len(fs))
    BY <1>1, FS_Interval
  <2>3. IsFiniteSet(others)
    BY <2>2, FS_Subset
  <2> HIDE DEF others, overlaps, share
  <2> QED BY <2>1, <2>3, FS_Surjection
<1>4. ASSUME Len(fs) > 1 PROVE Novelty(fs[i], fs) \in Int
  <2>1. PICK j \in 1..Len(fs) : j # i
    <3>1. 1 \in 1..Len(fs) /\ 2 \in 1..Len(fs)
      BY <1>1, <1>4
    <3> QED BY <3>1
  <2>2. j \in others
    BY <2>1 DEF Distinct
  <2>3. overlaps # {}
    BY <2>2
  <2> DEFINE m == CHOOSE m \in overlaps : \A o \in overlaps : o <= m
  <2>4. m \in Int
    <3> HIDE DEF overlaps
    <3>1. \E k \in overlaps : \A o \in overlaps : o <= k
      BY <1>2, <1>3, <2>3, GreatestNumber
    <3>2. m \in overlaps
      BY <3>1
    <3> QED BY <1>2, <3>2
  <2>5. Novelty(fs[i], fs) \in {One, One \div 2, One - (One * m) \div 100}
    BY DEF Novelty
  <2> HIDE DEF m
  <2>6. One * m \in Int
    BY <2>4 DEF One
  <2>7. (One * m) \div 100 \in Int
    BY <2>6
  <2> QED BY <2>5, <2>7 DEF One
<1>5. ASSUME ~(Len(fs) > 1) PROVE Novelty(fs[i], fs) \in Int
  <2>1. Novelty(fs[i], fs) = One
    BY <1>1, <1>5 DEF Novelty
  <2> QED BY <2>1 DEF One
<1>6. Novelty(fs[i], fs) \in Int
  BY <1>1, <1>4, <1>5
<1>7. fs[i].severity \in Int /\ fs[i].score \in Int
  <2>1. fs[i] \in Finding
    BY <1>1
  <2>2. fs[i].severity \in 0..20 /\ fs[i].score \in 0..20
    BY <2>1 DEF Finding, One
  <2> QED BY <2>2
<1> QED BY <1>6, <1>7 DEF Composite

\* The order of the findings does not matter to the score of one.
LEMMA CompositeIgnoresOrder ==
  ASSUME NEW f, NEW fs, NEW gs, Len(fs) \in Nat, Len(gs) = Len(fs),
         NEW order \in [1..Len(fs) -> 1..Len(fs)],
         \A i \in 1..Len(fs) : \E k \in 1..Len(fs) : order[k] = i,
         \A k \in 1..Len(fs) : gs[k] = fs[order[k]]
  PROVE  Composite(f, gs) = Composite(f, fs)
<1>1. Len(fs) \in Nat /\ Len(gs) = Len(fs)
  OBVIOUS
<1> DEFINE Others(hs) == {j \in 1..Len(hs) : hs[j].id # f.id}
           Overlaps(hs) == {Overlap(f, hs[i]) : i \in Others(hs)}
           Newness(overlaps, n) ==
             IF n <= 1 THEN One
             ELSE IF f.issue = {} THEN One \div 2
             ELSE One - (One * CHOOSE m \in overlaps : \A o \in overlaps : o <= m) \div 100
<1>2. Overlaps(gs) = Overlaps(fs)
  <2>1. ASSUME NEW i \in 1..Len(gs), gs[i].id # f.id
        PROVE  \E j \in 1..Len(fs) : fs[j].id # f.id /\ Overlap(f, gs[i]) = Overlap(f, fs[j])
    <3>1. gs[i] = fs[order[i]] /\ order[i] \in 1..Len(fs)
      BY <1>1
    <3> QED BY <2>1, <3>1
  <2>2. ASSUME NEW j \in 1..Len(fs), fs[j].id # f.id
        PROVE  \E i \in 1..Len(gs) : gs[i].id # f.id /\ Overlap(f, fs[j]) = Overlap(f, gs[i])
    <3>1. PICK k \in 1..Len(fs) : order[k] = j
      OBVIOUS
    <3>2. gs[k] = fs[j] /\ k \in 1..Len(gs)
      BY <1>1, <3>1
    <3> QED BY <2>2, <3>2
  <2>3. ASSUME NEW x \in Overlaps(gs) PROVE x \in Overlaps(fs)
    <3>1. PICK i \in Others(gs) : x = Overlap(f, gs[i])
      OBVIOUS
    <3>2. PICK j \in 1..Len(fs) : fs[j].id # f.id /\ x = Overlap(f, fs[j])
      BY <2>1, <3>1
    <3> QED BY <3>2
  <2>4. ASSUME NEW x \in Overlaps(fs) PROVE x \in Overlaps(gs)
    <3>1. PICK j \in Others(fs) : x = Overlap(f, fs[j])
      OBVIOUS
    <3>2. PICK i \in 1..Len(gs) : gs[i].id # f.id /\ x = Overlap(f, gs[i])
      BY <2>2, <3>1
    <3> QED BY <3>2
  <2> HIDE DEF Overlaps
  <2> QED BY <2>3, <2>4
<1>3. Novelty(f, gs) = Novelty(f, fs)
  <2>1. /\ Novelty(f, gs) = Newness(Overlaps(gs), Len(gs))
        /\ Novelty(f, fs) = Newness(Overlaps(fs), Len(fs))
    BY DEF Novelty
  <2> HIDE DEF Overlaps, Newness
  <2> QED BY <1>1, <1>2, <2>1
<1> QED BY <1>1, <1>3 DEF Composite
-----------------------------------------------------------------------------
(* Clusters.                                                               *)

\* The recursion of cluster() has a solution, which IsPivot() is: a finding
\* similar to no pivot before it is a pivot.
LEMMA PivotRecursion ==
  ASSUME NEW raw, Len(raw) \in Nat
  PROVE  /\ IsPivot(raw) \in [1..Len(raw) -> BOOLEAN]
         /\ \A i \in 1..Len(raw) :
              IsPivot(raw)[i] <=>
                \A j \in 1..(i - 1) : IsPivot(raw)[j] => ~Similar(raw[j], raw[i])
<1> DEFINE n == Len(raw)
           Free(p, i) == \A j \in 1..(i - 1) : p[j] => ~Similar(raw[j], raw[i])
           Solves(p, m) == p \in [1..m -> BOOLEAN] /\ \A i \in 1..m : p[i] = Free(p, i)
           Bad == {m \in 0..n : ~\E p : Solves(p, m)}
<1>1. \E p : Solves(p, n)
  <2> SUFFICES ASSUME ~\E p : Solves(p, n) PROVE FALSE
    OBVIOUS
  <2>1. Bad \in SUBSET Nat /\ n \in Bad
    <3> HIDE DEF Solves
    <3> QED OBVIOUS
  <2>2. PICK m \in Bad : \A k \in Bad : m <= k
    <3> HIDE DEF Bad
    <3> QED BY <2>1, LeastNumber
  <2>3. m \in 0..n /\ ~\E p : Solves(p, m)
    BY <2>2
  <2>4. m # 0
    <3>1. 1..0 = {}
      OBVIOUS
    <3>2. Solves([i \in 1..0 |-> TRUE], 0)
      BY <3>1
    <3> QED BY <2>3, <3>2
  <2>5. m - 1 \in 0..n /\ ~(m <= m - 1)
    BY <2>3, <2>4
  <2>6. m - 1 \notin Bad
    <3> HIDE DEF Bad
    <3> QED BY <2>2, <2>5
  <2>7. PICK p : Solves(p, m - 1)
    BY <2>5, <2>6
  <2> DEFINE q == [i \in 1..m |-> IF i = m THEN Free(p, m) ELSE p[i]]
  <2>8. \A i \in 1..(m - 1) : i \in 1..m /\ i # m /\ q[i] = p[i]
    <3> HIDE DEF Solves, Free
    <3> QED BY <2>3
  <2>9. \A i \in 1..m : Free(q, i) <=> Free(p, i)
    <3> SUFFICES ASSUME NEW i \in 1..m PROVE Free(q, i) <=> Free(p, i)
      OBVIOUS
    <3>1. \A j \in 1..(i - 1) : j \in 1..(m - 1)
      BY <2>3
    <3>2. \A j \in 1..(i - 1) : q[j] = p[j]
      BY <2>8, <3>1
    <3> QED BY <3>2
  <2>10. \A i \in 1..m : q[i] = Free(q, i)
    <3> SUFFICES ASSUME NEW i \in 1..m PROVE q[i] = Free(q, i)
      OBVIOUS
    <3>1. CASE i = m
      <4>1. q[i] = Free(p, i)
        BY <3>1
      <4>2. Free(q, i) = Free(p, i)
        BY <2>9
      <4> HIDE DEF q, Free
      <4> QED BY <3>1, <4>1, <4>2
    <3>2. CASE i # m
      <4>1. i \in 1..(m - 1)
        BY <2>3, <3>2
      <4>2. q[i] = p[i] /\ p[i] = Free(p, i)
        BY <2>7, <2>8, <4>1
      <4>3. Free(q, i) = Free(p, i)
        BY <2>9
      <4> HIDE DEF q, Free
      <4> QED BY <4>2, <4>3
    <3> QED BY <3>1, <3>2
  <2>11. q \in [1..m -> BOOLEAN]
    <3>1. \A i \in 1..m : q[i] \in BOOLEAN
      BY <2>10
    <3> QED BY <3>1
  <2>12. Solves(q, m)
    BY <2>10, <2>11
  <2> QED BY <2>3, <2>12
<1>2. PICK p : Solves(p, n)
  BY <1>1
<1>3. p = [i \in 1..n |-> Free(p, i)]
  BY <1>2
<1>4. IsPivot(raw) = CHOOSE q : q = [i \in 1..n |-> Free(q, i)]
  BY DEF IsPivot
<1>5. IsPivot(raw) = [i \in 1..n |-> Free(IsPivot(raw), i)]
  <2> HIDE DEF Free
  <2> QED BY <1>3, <1>4
<1>6. \A i \in 1..n : IsPivot(raw)[i] = Free(IsPivot(raw), i)
  <2> HIDE DEF Free
  <2> QED BY <1>5
<1>7. IsPivot(raw) \in [1..n -> BOOLEAN]
  <2>1. \A i \in 1..n : Free(IsPivot(raw), i) \in BOOLEAN
    OBVIOUS
  <2> HIDE DEF Free
  <2> QED BY <1>5, <2>1
<1> QED BY <1>6, <1>7

\* Every finding is in the cluster of a pivot.
LEMMA ClustersCover ==
  ASSUME NEW raw, Len(raw) \in Nat, NEW i \in 1..Len(raw)
  PROVE  \E p \in 1..Len(raw) : IsPivot(raw)[p] /\ i \in ClusterOf(raw, p)
<1> DEFINE n == Len(raw)
           Pivot(p) == IsPivot(raw)[p]
           S == {p \in 1..(i - 1) : Pivot(p) /\ Similar(raw[p], raw[i])}
<1> HIDE DEF n
<1>1. Pivot(i) <=> \A j \in 1..(i - 1) : Pivot(j) => ~Similar(raw[j], raw[i])
  BY PivotRecursion
<1>2. n \in Nat /\ i \in 1..n
  BY DEF n
<1> HIDE DEF Pivot
<1>3. CASE Pivot(i)
  <2>1. i \in ClusterOf(raw, i)
    BY <1>2 DEF ClusterOf, n
  <2> QED BY <1>2, <1>3, <2>1 DEF Pivot, n
<1>4. CASE ~Pivot(i)
  <2>1. S \in SUBSET Nat /\ S # {}
    BY <1>1, <1>2, <1>4
  <2>2. PICK p \in S : \A q \in S : p <= q
    <3> HIDE DEF S
    <3> QED BY <2>1, LeastNumber
  <2>3. p \in 1..n /\ p \in 1..(i - 1) /\ Pivot(p) /\ Similar(raw[p], raw[i]) /\ i \in p..n
    BY <1>2, <2>2
  <2>4. \A q \in 1..(p - 1) : Pivot(q) => ~Similar(raw[q], raw[i])
    <3> SUFFICES ASSUME NEW q \in 1..(p - 1), Pivot(q), Similar(raw[q], raw[i])
                 PROVE  FALSE
      OBVIOUS
    <3>1. q \in 1..(i - 1) /\ ~(p <= q)
      BY <1>2, <2>3
    <3>2. q \in S
      BY <3>1
    <3> HIDE DEF S
    <3> QED BY <2>2, <3>1, <3>2
  <2>5. i \in ClusterOf(raw, p)
    BY <1>4, <2>3, <2>4 DEF ClusterOf, Pivot, n
  <2> QED BY <2>3, <2>5 DEF Pivot, n
<1> QED BY <1>3, <1>4

\* No finding is in the clusters of two pivots.
LEMMA ClustersApart ==
  ASSUME NEW raw, Len(raw) \in Nat, NEW p \in 1..Len(raw), NEW q \in 1..Len(raw),
         IsPivot(raw)[p], IsPivot(raw)[q], p < q,
         NEW i, i \in ClusterOf(raw, p), i \in ClusterOf(raw, q)
  PROVE  FALSE
<1>1. i \in q..Len(raw) /\ i # p /\ p \in 1..(q - 1)
  BY DEF ClusterOf
<1>2. ~IsPivot(raw)[i] /\ Similar(raw[p], raw[i])
  BY <1>1 DEF ClusterOf
<1>3. i # q
  BY <1>2
<1>4. \A r \in 1..(q - 1) : IsPivot(raw)[r] => ~Similar(raw[r], raw[i])
  BY <1>3 DEF ClusterOf
<1> QED BY <1>1, <1>2, <1>4

\* The findings of a cluster have the lens and the article of its pivot.
LEMMA ClusterAlike ==
  ASSUME NEW raw, NEW p, NEW i \in ClusterOf(raw, p)
  PROVE  raw[i].lens = raw[p].lens /\ raw[i].article = raw[p].article
BY DEF ClusterOf, Similar

\* What deduplicate() returns: findings of the raw ones, none twice, and for
\* each raw one of the same lens and article that is at least as confident.
LEMMA DeduplicatedKeeps ==
  ASSUME NEW raw \in Seq(Finding), \A i \in 1..Len(raw) : raw[i].id = i,
         NEW fs \in Deduplicated(raw)
  PROVE  /\ fs \in Seq(Finding) /\ Len(fs) \in 0..Len(raw) /\ Distinct(fs)
         /\ \A k \in 1..Len(fs) : fs[k].id \in 1..Len(raw)
         /\ \A i \in 1..Len(raw) : \E k \in 1..Len(fs) :
              /\ fs[k].lens = raw[i].lens /\ fs[k].article = raw[i].article
              /\ fs[k].score >= raw[i].score
<1> DEFINE n == Len(raw)
           S == {i \in 1..n : IsPivot(raw)[i]}
           pivots == Ascending(S)
           m == Cardinality(S)
<1>1. n \in Nat /\ S \in SUBSET (1..n) /\ \A i \in 1..n : raw[i] \in Finding
  OBVIOUS
<1>2. /\ m \in 0..n /\ pivots \in [1..m -> S] /\ Len(pivots) = m
      /\ \A j, k \in 1..m : j < k => pivots[j] < pivots[k]
      /\ \A i \in S : \E k \in 1..m : pivots[k] = i
  <2> HIDE DEF S, n
  <2> QED BY <1>1, AscendingLists
<1>3. PICK chosen \in [1..m -> 1..n] :
        /\ fs = [k \in 1..m |-> raw[chosen[k]]]
        /\ \A k \in 1..m : chosen[k] \in Best(raw, ClusterOf(raw, pivots[k]))
  <2>1. fs \in {[k \in 1..Len(pivots) |-> raw[chosen[k]]] :
                  chosen \in {c \in [1..Len(pivots) -> 1..Len(raw)] :
                    \A k \in 1..Len(pivots) : c[k] \in Best(raw, ClusterOf(raw, pivots[k]))}}
    BY DEF Deduplicated
  <2> HIDE DEF pivots, S, m
  <2> QED BY <1>2, <2>1
<1>4. \A k \in 1..m : pivots[k] \in 1..n /\ IsPivot(raw)[pivots[k]]
  <2>1. \A k \in 1..m : pivots[k] \in S
    <3> HIDE DEF pivots, S, m
    <3> QED BY <1>2
  <2> QED BY <2>1
<1> HIDE DEF pivots, S, m, n
<1>5. \A k \in 1..m : chosen[k] \in ClusterOf(raw, pivots[k])
  BY <1>3 DEF Best
<1>6. fs \in Seq(Finding) /\ Len(fs) = m
  BY <1>1, <1>2, <1>3
<1>7. \A k \in 1..m : fs[k] = raw[chosen[k]] /\ chosen[k] \in 1..n /\ fs[k].id = chosen[k]
  BY <1>3 DEF n
<1>8. \A j, k \in 1..m : j < k => chosen[j] # chosen[k]
  <2> SUFFICES ASSUME NEW j \in 1..m, NEW k \in 1..m, j < k, chosen[j] = chosen[k]
               PROVE  FALSE
    OBVIOUS
  <2>1. pivots[j] < pivots[k]
    BY <1>2
  <2> QED BY <1>1, <1>4, <1>5, <2>1, ClustersApart DEF n
<1>9. Distinct(fs)
  <2> SUFFICES ASSUME NEW j \in 1..m, NEW k \in 1..m, fs[j].id = fs[k].id, j # k
               PROVE  FALSE
    BY <1>6 DEF Distinct
  <2>1. chosen[j] = chosen[k]
    BY <1>7
  <2>2. j < k \/ k < j
    BY <1>2
  <2> QED BY <1>8, <2>1, <2>2
<1>10. ASSUME NEW i \in 1..n
       PROVE  \E k \in 1..m : /\ fs[k].lens = raw[i].lens /\ fs[k].article = raw[i].article
                              /\ fs[k].score >= raw[i].score
  <2>1. PICK p \in 1..n : IsPivot(raw)[p] /\ i \in ClusterOf(raw, p)
    BY <1>1, ClustersCover DEF n
  <2>2. p \in S
    BY <2>1 DEF S
  <2>3. PICK k \in 1..m : pivots[k] = p
    BY <1>2, <2>2
  <2>4. /\ chosen[k] \in ClusterOf(raw, p)
        /\ \A j \in ClusterOf(raw, p) : raw[j].score <= raw[chosen[k]].score
    BY <1>3, <2>3 DEF Best
  <2>5. /\ raw[i].lens = raw[p].lens /\ raw[i].article = raw[p].article
        /\ raw[chosen[k]].lens = raw[p].lens /\ raw[chosen[k]].article = raw[p].article
    BY <2>1, <2>4, ClusterAlike
  <2>6. raw[i].score <= raw[chosen[k]].score
    BY <2>1, <2>4
  <2>7. raw[chosen[k]].score >= raw[i].score
    BY <2>6
  <2> QED BY <1>7, <2>5, <2>7
<1> QED BY <1>2, <1>6, <1>7, <1>9, <1>10 DEF n
-----------------------------------------------------------------------------
(* What a batch and a rank leave.                                          *)

\* A task with all its fields.
Task ==
  [at : {"queued", "critic", "reviewed", "planning", "answering", "checking", "verified"},
   removed : BOOLEAN, adjust : Int, left : Int, proved : BOOLEAN]

\* An adjusted finding is the same finding with another confidence.
LEMMA AdjustedFinding ==
  ASSUME NEW f \in Finding, NEW n \in Int
  PROVE  Adjusted(f, n) \in Finding /\ Adjusted(f, n).id = f.id
<1>1. f.score \in Int
  <2>1. f.score \in 0..20
    BY DEF Finding, One
  <2> QED BY <2>1
<1>2. Clamp(f.score + n) \in 0..One
  BY <1>1 DEF Clamp, One
<1>3. Adjusted(f, n) = [f EXCEPT !.score = Clamp(f.score + n)]
  BY DEF Adjusted
<1> QED BY <1>2, <1>3 DEF Finding

\* The results of a batch are its findings that were not removed, each once.
LEMMA ResultsKept ==
  ASSUME NEW fs \in Seq(Finding), Distinct(fs), NEW ts \in [1..Len(fs) -> Task]
  PROVE  /\ Results(fs, ts) \in Seq(Finding) /\ Distinct(Results(fs, ts))
         /\ Len(Results(fs, ts)) \in 0..Len(fs)
         /\ Len(Results(fs, ts)) = Cardinality({i \in 1..Len(fs) : ~ts[i].removed})
         /\ Ids(Results(fs, ts)) = {fs[i].id : i \in {i \in 1..Len(fs) : ~ts[i].removed}}
<1> DEFINE n == Len(fs)
           S == {i \in 1..n : ~ts[i].removed}
           kept == Ascending(S)
           m == Cardinality(S)
           rs == Results(fs, ts)
<1>1. n \in Nat /\ S \in SUBSET (1..n) /\ \A i \in 1..n : fs[i] \in Finding
  OBVIOUS
<1>2. /\ m \in 0..n /\ kept \in [1..m -> S] /\ Len(kept) = m
      /\ \A j, k \in 1..m : j < k => kept[j] < kept[k]
      /\ \A i \in S : \E k \in 1..m : kept[k] = i
  <2> HIDE DEF S, n
  <2> QED BY <1>1, AscendingLists
<1>3. rs = [k \in 1..m |-> Adjusted(fs[kept[k]], ts[kept[k]].adjust)]
  <2>1. rs = [k \in 1..Len(kept) |-> Adjusted(fs[kept[k]], ts[kept[k]].adjust)]
    BY DEF Results
  <2> HIDE DEF kept, m, rs
  <2> QED BY <1>2, <2>1
<1>4. \A i \in S : i \in 1..n /\ fs[i] \in Finding /\ ts[i].adjust \in Int
  BY <1>1 DEF Task
<1> HIDE DEF kept, m, rs, S, n
<1>5. \A k \in 1..m : kept[k] \in S /\ rs[k] \in Finding /\ rs[k].id = fs[kept[k]].id
  <2> SUFFICES ASSUME NEW k \in 1..m
               PROVE  kept[k] \in S /\ rs[k] \in Finding /\ rs[k].id = fs[kept[k]].id
    OBVIOUS
  <2>1. kept[k] \in S
    BY <1>2
  <2>2. rs[k] = Adjusted(fs[kept[k]], ts[kept[k]].adjust)
    BY <1>3
  <2> QED BY <1>4, <2>1, <2>2, AdjustedFinding
<1>6. rs \in Seq(Finding) /\ Len(rs) = m
  BY <1>2, <1>3, <1>5
<1>7. Distinct(rs)
  <2> SUFFICES ASSUME NEW j \in 1..m, NEW k \in 1..m, rs[j].id = rs[k].id, j # k
               PROVE  FALSE
    BY <1>6 DEF Distinct
  <2>1. kept[j] = kept[k]
    BY <1>4, <1>5 DEF Distinct, n
  <2>2. j < k \/ k < j
    BY <1>2
  <2>3. kept[j] < kept[k] \/ kept[k] < kept[j]
    BY <1>2, <2>2
  <2>4. kept[j] \in 1..n /\ kept[k] \in 1..n
    BY <1>4, <1>5
  <2> QED BY <1>1, <2>1, <2>3, <2>4
<1>8. Ids(rs) = {fs[i].id : i \in S}
  <2>1. ASSUME NEW x \in Ids(rs) PROVE x \in {fs[i].id : i \in S}
    <3>1. PICK k \in 1..m : x = rs[k].id
      BY <1>6 DEF Ids
    <3> QED BY <1>5, <3>1
  <2>2. ASSUME NEW i \in S PROVE fs[i].id \in Ids(rs)
    <3>1. PICK k \in 1..m : kept[k] = i
      BY <1>2
    <3> QED BY <1>5, <1>6, <3>1 DEF Ids
  <2> QED BY <2>1, <2>2
<1> QED BY <1>2, <1>6, <1>7, <1>8 DEF rs, S, m, n

\* Ranked findings are the same findings.
LEMMA RankedKept ==
  ASSUME NEW fs \in Seq(Finding), Distinct(fs), NEW score \in [1..Len(fs) -> Int]
  PROVE  /\ Ranked(fs, score) \in Seq(Finding) /\ Distinct(Ranked(fs, score))
         /\ Len(Ranked(fs, score)) = Len(fs) /\ Ids(Ranked(fs, score)) = Ids(fs)
<1> DEFINE n == Len(fs)
           rs == Ranked(fs, score)
<1>1. n \in Nat /\ \A i \in 1..n : fs[i] \in Finding
  OBVIOUS
<1>2. PICK order \in [1..n -> 1..n] :
        /\ rs = [k \in 1..n |-> fs[order[k]]]
        /\ \A j, k \in 1..n : j # k => order[j] # order[k]
        /\ \A i \in 1..n : \E k \in 1..n : order[k] = i
  BY RankedLists
<1> HIDE DEF n, rs
<1>3. \A k \in 1..n : rs[k] = fs[order[k]] /\ order[k] \in 1..n /\ rs[k] \in Finding
  BY <1>1, <1>2
<1>4. rs \in Seq(Finding) /\ Len(rs) = n
  BY <1>1, <1>2, <1>3
<1>5. Distinct(rs)
  <2> SUFFICES ASSUME NEW j \in 1..n, NEW k \in 1..n, rs[j].id = rs[k].id, j # k
               PROVE  FALSE
    BY <1>4 DEF Distinct
  <2>1. order[j] = order[k]
    BY <1>3 DEF Distinct, n
  <2> QED BY <1>2, <2>1
<1>6. Ids(rs) = Ids(fs)
  <2>1. ASSUME NEW x \in Ids(rs) PROVE x \in Ids(fs)
    BY <1>3, <1>4 DEF Ids, n
  <2>2. ASSUME NEW x \in Ids(fs) PROVE x \in Ids(rs)
    <3>1. PICK i \in 1..n : x = fs[i].id
      BY DEF Ids, n
    <3>2. PICK k \in 1..n : order[k] = i
      BY <1>2
    <3> QED BY <1>3, <1>4, <3>1, <3>2 DEF Ids
  <2> QED BY <2>1, <2>2
<1> QED BY <1>4, <1>5, <1>6 DEF n, rs
-----------------------------------------------------------------------------
(* The chain.                                                              *)

\* Findings that stem from the raw ones, none twice.
Held(fs) ==
  fs \in Seq(Finding) /\ Distinct(fs) /\ Ids(fs) \subseteq 1..Len(case.raw)

\* Where a task of the batch may be.
Where ==
  CASE stage = "review" -> {"queued", "critic", "reviewed"}
    [] stage = "verify" -> {"queued", "planning", "answering", "checking", "verified"}
    [] stage = "rerank" -> {"verified"}
    [] stage = "done" -> {"verified"}
    [] OTHER -> {"queued", "critic", "reviewed", "planning", "answering", "checking",
                 "verified"}

\* What a step of a task makes of it: a task removes its finding when it is
\* over, and with a model only if the finding is accused.
TaskOK(t, id) == t.removed => t.at \in Done /\ (case.llm => id \in accused)

\* The batch belongs to the findings the driver holds.
Tasks ==
  /\ task \in [1..Len(list) -> Task]
  /\ \A i \in 1..Len(list) : task[i].at \in Where /\ TaskOK(task[i], list[i].id)
  /\ stage \in {"rerank", "done"} => \A i \in 1..Len(list) : ~task[i].removed

ChainInv ==
  /\ case \in Cases
  /\ stage \in {"collected", "review", "verify", "rerank", "done", "cancelled"}
  /\ Held(list)
  /\ stage = "collected" =>
       list = case.raw /\ events = <<>> /\ accused = {} /\ task = <<>>
  /\ stage # "collected" => Tasks
  /\ stage = "rerank" => case.model
  /\ FailuresLoseNothing
  /\ StrongestStays
  /\ RankedAsPublished

\* The raw findings.
LEMMA RawHeld ==
  ASSUME case \in Cases
  PROVE  /\ case.raw \in Seq(Finding) /\ Len(case.raw) \in Nat
         /\ \A i \in 1..Len(case.raw) : case.raw[i].id = i
         /\ Held(case.raw) /\ Ids(case.raw) = 1..Len(case.raw)
<1>1. case.raw \in Seq(Finding) /\ \A i \in 1..Len(case.raw) : case.raw[i].id = i
  BY ChainAssumption DEF Case
<1>2. Len(case.raw) \in Nat
  BY <1>1
<1>3. Distinct(case.raw) /\ Ids(case.raw) = 1..Len(case.raw)
  BY <1>1 DEF Distinct, Ids
<1> QED BY <1>1, <1>2, <1>3 DEF Held

\* What a task may become in one step: the place it goes to is one of its batch,
\* and it removes its finding when it is over, accused if there is a model.
Becomes(i, t) ==
  /\ Move(i, t) /\ t \in Task /\ t.at \in Where
  /\ t.removed => t.at \in Done /\ (case.llm => list[i].id \in accused')

\* A step of a task that is not over moves it, and takes no accusation back.
LEMMA TaskMoves ==
  ASSUME ChainInv, NEW i \in DOMAIN task, ReviewStep(i) \/ VerifyStep(i)
  PROVE  /\ stage \in {"review", "verify"} /\ i \in 1..Len(list)
         /\ task[i].at \notin Done /\ ~task[i].removed
         /\ accused \subseteq accused'
         /\ \E t : Becomes(i, t)
<1>1. stage \in {"review", "verify"} /\ Tasks
  BY DEF ChainInv, ReviewStep, VerifyStep
<1>2. /\ i \in 1..Len(list) /\ task[i] \in Task /\ task[i].at \in Where
      /\ task[i].removed => task[i].at \in Done
      /\ list[i] \in Finding
  <2>1. list \in Seq(Finding) /\ i \in 1..Len(list)
    BY <1>1 DEF ChainInv, Held, Tasks
  <2> QED BY <1>1, <2>1 DEF Tasks, TaskOK
<1>3. ASSUME stage = "review", ReviewStep(i)
      PROVE  /\ task[i].at \notin Done /\ accused \subseteq accused'
             /\ \E t : Becomes(i, t)
  <2>1. Where = {"queued", "critic", "reviewed"}
    BY <1>3 DEF Where
  <2>2. CASE BeginReview(i)
    <3> DEFINE t == [task[i] EXCEPT !.at = IF case.llm THEN "critic" ELSE "reviewed",
                                    !.adjust = list[i].boost]
    <3>1. task[i].at = "queued" /\ Move(i, t) /\ accused' = accused
      BY <2>2 DEF BeginReview, Waits
    <3>2. list[i].boost \in Int /\ task[i].removed = FALSE
      BY <1>2, <3>1 DEF Finding, Done, Task
    <3>3. t \in Task /\ t.at \in Where /\ ~t.removed
      BY <1>2, <2>1, <3>2 DEF Task
    <3> HIDE DEF t
    <3> QED BY <3>1, <3>3 DEF Becomes, Done
  <2>3. CASE Refutes(i)
    <3> DEFINE t == Removed(i, "reviewed")
    <3>1. task[i].at = "critic" /\ Move(i, t) /\ accused' = accused \cup {list[i].id}
      BY <2>3 DEF Refutes, InCall, Accuse
    <3>2. t \in Task /\ t.at = "reviewed"
      BY <1>2 DEF Removed, Task
    <3> HIDE DEF t
    <3> QED BY <2>1, <3>1, <3>2 DEF Becomes, Done
  <2>4. CASE Upholds(i)
    <3>1. PICK n : /\ n \in Int
                   /\ Move(i, [task[i] EXCEPT !.at = "reviewed", !.adjust = @ + n])
      <4>1. PICK verdict \in {"supports", "neutral"}, n \in Adjustment :
              Move(i, [task[i] EXCEPT !.at = "reviewed", !.adjust = @ + Bounded(verdict, n)])
        BY <2>4 DEF Upholds
      <4>2. Bounded(verdict, n) \in Int
        BY ChainAssumption DEF Bounded, Magnitude
      <4> QED BY <4>1, <4>2
    <3> DEFINE t == [task[i] EXCEPT !.at = "reviewed", !.adjust = @ + n]
    <3>2. task[i].at = "critic" /\ Move(i, t) /\ accused' = accused
      BY <2>4, <3>1 DEF Upholds, InCall
    <3>3. t \in Task /\ t.at = "reviewed" /\ ~t.removed
      <4> DEFINE sum == task[i].adjust + n
      <4>1. sum \in Int
        BY <1>2, <3>1 DEF Task
      <4>2. t = [task[i] EXCEPT !.at = "reviewed", !.adjust = sum]
        OBVIOUS
      <4> HIDE DEF sum, t
      <4> QED BY <1>2, <3>2, <4>1, <4>2 DEF Task, Done
    <3> HIDE DEF t
    <3> QED BY <2>1, <3>2, <3>3 DEF Becomes, Done
  <2>5. CASE CriticFails(i)
    <3> DEFINE t == [task[i] EXCEPT !.at = "reviewed"]
    <3>1. task[i].at = "critic" /\ Move(i, t) /\ accused' = accused
      BY <2>5 DEF CriticFails, InCall
    <3>2. t \in Task /\ t.at = "reviewed" /\ ~t.removed
      BY <1>2, <3>1 DEF Task, Done
    <3> HIDE DEF t
    <3> QED BY <2>1, <3>1, <3>2 DEF Becomes, Done
  <2> QED BY <1>3, <2>2, <2>3, <2>4, <2>5 DEF ReviewStep
<1>4. ASSUME stage = "verify", VerifyStep(i)
      PROVE  /\ task[i].at \notin Done /\ accused \subseteq accused'
             /\ \E t : Becomes(i, t)
  <2>1. Where = {"queued", "planning", "answering", "checking", "verified"}
    BY <1>4 DEF Where
  <2>2. CASE GateDrops(i)
    <3> DEFINE t == Removed(i, "verified")
    <3>1. task[i].at = "queued" /\ Move(i, t) /\ accused' = accused \cup {list[i].id}
      BY <2>2 DEF GateDrops, Waits, Accuse
    <3>2. t \in Task /\ t.at = "verified"
      BY <1>2 DEF Removed, Task
    <3> HIDE DEF t
    <3> QED BY <2>1, <3>1, <3>2 DEF Becomes, Done
  <2>3. CASE GatePasses(i)
    <3> DEFINE t == [task[i] EXCEPT !.at = "planning"]
    <3>1. task[i].at = "queued" /\ Move(i, t) /\ accused' = accused
      BY <2>3 DEF GatePasses, Waits
    <3>2. t \in Task /\ t.at = "planning" /\ ~t.removed
      BY <1>2, <3>1 DEF Task, Done
    <3> HIDE DEF t
    <3> QED BY <2>1, <3>1, <3>2 DEF Becomes, Done
  <2>4. CASE Resolves(i)
    <3>1. task[i].at = "queued" /\ accused' = accused /\ ~case.llm
      BY <2>4 DEF Resolves, Waits
    <3>2. PICK ok \in BOOLEAN : \/ Move(i, [task[i] EXCEPT !.at = "verified", !.proved = ok])
                               \/ Move(i, Removed(i, "verified"))
      BY <2>4 DEF Resolves
    <3>3. PICK t : /\ Move(i, t)
                   /\ \/ t = [task[i] EXCEPT !.at = "verified", !.proved = ok]
                      \/ t = Removed(i, "verified")
      BY <3>2
    <3>4. t \in Task /\ t.at = "verified"
      BY <1>2, <3>3 DEF Removed, Task
    <3> QED BY <2>1, <3>1, <3>3, <3>4 DEF Becomes, Done
  <2>5. CASE Plans(i)
    <3>1. task[i].at = "planning" /\ accused' = accused
      BY <2>5 DEF Plans, InCall
    <3>2. PICK n \in 0..MaxQuestions :
            Move(i, [task[i] EXCEPT !.at = IF n = 0 THEN "verified" ELSE "answering",
                                    !.left = n, !.proved = TRUE])
      BY <2>5 DEF Plans
    <3> DEFINE t == [task[i] EXCEPT !.at = IF n = 0 THEN "verified" ELSE "answering",
                                    !.left = n, !.proved = TRUE]
    <3>3. n \in Int
      BY ChainAssumption
    <3>4. t \in Task /\ t.at \in {"verified", "answering"} /\ ~t.removed /\ Move(i, t)
      BY <1>2, <3>1, <3>2, <3>3 DEF Task, Done
    <3> HIDE DEF t
    <3> QED BY <2>1, <3>1, <3>4 DEF Becomes, Done
  <2>6. CASE Answers(i)
    <3>1. task[i].at = "answering" /\ accused' = accused
      BY <2>6 DEF Answers, InCall
    <3>2. PICK supported \in BOOLEAN :
            Move(i, [task[i] EXCEPT !.at = IF task[i].left = 1 THEN "checking" ELSE @,
                                    !.left = @ - 1, !.proved = @ /\ supported])
      BY <2>6 DEF Answers
    <3> DEFINE t == [task[i] EXCEPT !.at = IF task[i].left = 1 THEN "checking" ELSE @,
                                    !.left = @ - 1, !.proved = @ /\ supported]
    <3>3. t \in Task /\ t.at \in {"checking", "answering"} /\ ~t.removed
      <4> DEFINE less == task[i].left - 1
                 both == task[i].proved /\ supported
                 at == IF task[i].left = 1 THEN "checking" ELSE task[i].at
      <4>1. less \in Int /\ both \in BOOLEAN /\ at \in {"checking", "answering"}
        BY <1>2, <3>1 DEF Task
      <4>2. t = [task[i] EXCEPT !.at = at, !.left = less, !.proved = both]
        OBVIOUS
      <4> HIDE DEF less, both, at, t
      <4> QED BY <1>2, <3>1, <4>1, <4>2 DEF Task, Done
    <3>4. Move(i, t)
      BY <3>2
    <3> HIDE DEF t
    <3> QED BY <2>1, <3>1, <3>3, <3>4 DEF Becomes, Done
  <2>7. CASE Contradicts(i)
    <3>1. task[i].at = "checking" /\ accused' = accused \cup {list[i].id}
      BY <2>7 DEF Contradicts, InCall, Accuse
    <3>2. PICK consistent \in BOOLEAN :
            Move(i, [Removed(i, "verified") EXCEPT !.proved = task[i].proved /\ consistent])
      BY <2>7 DEF Contradicts
    <3> DEFINE t == [Removed(i, "verified") EXCEPT !.proved = task[i].proved /\ consistent]
    <3>3. t \in Task /\ t.at = "verified"
      BY <1>2 DEF Task, Removed
    <3>4. Move(i, t)
      BY <3>2
    <3> HIDE DEF t
    <3> QED BY <2>1, <3>1, <3>3, <3>4 DEF Becomes, Done
  <2>8. CASE Confirms(i)
    <3>1. task[i].at = "checking" /\ accused' = accused
      BY <2>8 DEF Confirms, InCall
    <3>2. PICK consistent \in BOOLEAN, n \in Adjustment :
            Move(i, [task[i] EXCEPT !.at = "verified", !.adjust = n,
                                    !.proved = @ /\ consistent])
      BY <2>8 DEF Confirms
    <3> DEFINE t == [task[i] EXCEPT !.at = "verified", !.adjust = n,
                                    !.proved = @ /\ consistent]
    <3>3. n \in Int
      BY ChainAssumption
    <3>4. t \in Task /\ t.at = "verified" /\ ~t.removed
      BY <1>2, <3>1, <3>3 DEF Task, Done
    <3>5. Move(i, t)
      BY <3>2
    <3> HIDE DEF t
    <3> QED BY <2>1, <3>1, <3>4, <3>5 DEF Becomes, Done
  <2>9. CASE VerifierFails(i)
    <3> DEFINE t == [task[i] EXCEPT !.at = "verified", !.proved = FALSE]
    <3>1. task[i].at \in Calls \ {"critic"} /\ Move(i, t) /\ accused' = accused
      BY <2>9 DEF VerifierFails
    <3>2. t \in Task /\ t.at = "verified" /\ ~t.removed
      BY <1>2, <3>1 DEF Task, Done, Calls
    <3> HIDE DEF t
    <3> QED BY <2>1, <3>1, <3>2 DEF Becomes, Done, Calls
  <2> QED BY <1>4, <2>2, <2>3, <2>4, <2>5, <2>6, <2>7, <2>8, <2>9 DEF VerifyStep
<1>5. task[i].at \notin Done /\ accused \subseteq accused' /\ \E t : Becomes(i, t)
  BY <1>3, <1>4 DEF ReviewStep, VerifyStep
<1> QED BY <1>1, <1>2, <1>5

\* A step of a task keeps the chain.
LEMMA MoveKeepsChain ==
  ASSUME ChainInv, stage \in {"review", "verify"}, NEW i \in 1..Len(list), NEW t,
         Becomes(i, t), accused \subseteq accused'
  PROVE  ChainInv'
<1>1. /\ case' = case /\ stage' = stage /\ list' = list /\ events' = events
      /\ task' = [task EXCEPT ![i] = t]
  BY DEF Becomes, Move
<1>2. Tasks
  BY DEF ChainInv
<1>3. Tasks'
  <2>1. Where' = Where
    BY <1>1 DEF Where
  <2>2. task' \in [1..Len(list) -> Task]
    BY <1>1, <1>2 DEF Tasks, Becomes
  <2>3. task'[i] = t /\ \A j \in 1..Len(list) : j # i => task'[j] = task[j]
    BY <1>1, <1>2 DEF Tasks
  <2>4. \A j \in 1..Len(list) : task'[j].at \in Where /\ TaskOK(task[j], list[j].id)'
    <3>1. t.at \in Where /\ (t.removed => t.at \in Done /\ (case.llm => list[i].id \in accused'))
      BY DEF Becomes
    <3>2. ASSUME NEW j \in 1..Len(list), j # i
          PROVE  task'[j].at \in Where /\ TaskOK(task[j], list[j].id)'
      BY <1>1, <1>2, <2>3, <3>2 DEF Tasks, TaskOK
    <3> QED BY <1>1, <2>3, <3>1, <3>2 DEF TaskOK
  <2> QED BY <1>1, <2>1, <2>2, <2>4 DEF Tasks
<1>4. Held(list)' /\ FailuresLoseNothing' /\ StrongestStays' /\ RankedAsPublished'
  BY <1>1 DEF ChainInv, Held, FailuresLoseNothing, StrongestStays, RankedAsPublished
<1> QED BY <1>1, <1>3, <1>4 DEF ChainInv

\* A new batch keeps the chain, if it is of raw findings and drops none without
\* an accusation.
LEMMA FanKeepsChain ==
  ASSUME ChainInv, NEW where \in {"review", "verify"}, NEW fs, NEW evs,
         Fan(where, fs, evs), Held(fs),
         case.llm => Ids(case.raw) \ accused' \subseteq Ids(fs),
         where = "review" =>
           \A i \in 1..Len(case.raw) : \E k \in 1..Len(fs) :
             /\ fs[k].lens = case.raw[i].lens /\ fs[k].article = case.raw[i].article
             /\ fs[k].score >= case.raw[i].score
  PROVE  ChainInv'
<1>1. /\ case' = case /\ stage' = where /\ list' = fs /\ task' = Batch(fs)
  BY DEF Fan
<1>2. Len(fs) \in Nat /\ DOMAIN fs = 1..Len(fs)
  BY DEF Held
<1>3. Tasks'
  <2>1. Queued \in Task /\ Queued.at = "queued" /\ ~Queued.removed
    BY DEF Queued, Task
  <2>2. "queued" \in Where'
    BY <1>1 DEF Where
  <2> QED BY <1>1, <2>1, <2>2 DEF Tasks, Batch, TaskOK
<1>4. Held(list)' /\ FailuresLoseNothing' /\ RankedAsPublished' /\ StrongestStays'
  BY <1>1, <1>2 DEF ChainInv, Held, FailuresLoseNothing, StrongestStays, RankedAsPublished
<1> QED BY <1>1, <1>3, <1>4 DEF ChainInv

\* The batch that is over, and nothing but a rank, keeps the chain too.
LEMMA SettledKeepsChain ==
  ASSUME ChainInv, NEW fs, Held(fs),
         case' = case, accused' = accused, list' = fs, task' = Settled(fs),
         stage' = "done" \/ (stage' = "rerank" /\ case.model),
         case.llm => Ids(case.raw) \ accused \subseteq Ids(fs),
         stage' = "done" /\ ~case.model =>
           \A i, j \in 1..Len(fs) : i < j => Composite(fs[i], fs) >= Composite(fs[j], fs)
  PROVE  ChainInv'
<1>1. Len(fs) \in Nat /\ DOMAIN fs = 1..Len(fs)
  BY DEF Held
<1>2. Tasks'
  <2> DEFINE t == [Queued EXCEPT !.at = "verified"]
  <2>1. t \in Task /\ t.at = "verified" /\ ~t.removed
    <3>1. Queued \in Task /\ ~Queued.removed
      BY DEF Queued, Task
    <3> QED BY <3>1 DEF Task
  <2>2. "verified" \in Where'
    BY DEF Where
  <2>3. task' = [i \in 1..Len(fs) |-> t]
    BY DEF Settled
  <2> HIDE DEF t
  <2> QED BY <2>1, <2>2, <2>3 DEF Tasks, TaskOK
<1>3. Held(list)' /\ FailuresLoseNothing'
  BY <1>1 DEF ChainInv, Held, FailuresLoseNothing
<1>4. StrongestStays' /\ RankedAsPublished'
  <2>1. stage' # "review"
    OBVIOUS
  <2>2. RankedAsPublished'
    BY <1>1 DEF RankedAsPublished
  <2> QED BY <2>1, <2>2 DEF StrongestStays
<1> QED BY <1>2, <1>3, <1>4 DEF ChainInv

\* What a batch that is over leaves: raw findings, and with a model all that
\* nobody accused.
LEMMA BatchLeaves ==
  ASSUME ChainInv, Tasks, NEW fs, fs = Results(list, task)
  PROVE  /\ Held(fs) /\ Len(fs) \in 0..Len(list)
         /\ case.llm => Ids(case.raw) \ accused \subseteq Ids(fs)
<1>1. list \in Seq(Finding) /\ Distinct(list) /\ Ids(list) \subseteq 1..Len(case.raw)
  BY DEF ChainInv, Held
<1>2. task \in [1..Len(list) -> Task]
  BY DEF Tasks
<1>3. /\ fs \in Seq(Finding) /\ Distinct(fs) /\ Len(fs) \in 0..Len(list)
      /\ Ids(fs) = {list[i].id : i \in {i \in 1..Len(list) : ~task[i].removed}}
  BY <1>1, <1>2, ResultsKept
<1>4. Ids(fs) \subseteq Ids(list)
  BY <1>3 DEF Ids
<1>5. ASSUME case.llm, NEW x \in Ids(case.raw) \ accused
      PROVE  x \in Ids(fs)
  <2>1. x \in Ids(list)
    BY <1>5 DEF ChainInv, FailuresLoseNothing
  <2>2. PICK i \in 1..Len(list) : list[i].id = x
    BY <2>1 DEF Ids
  <2>3. ~task[i].removed
    BY <1>5, <2>2 DEF Tasks, TaskOK
  <2> QED BY <1>3, <2>2, <2>3
<1> QED BY <1>1, <1>3, <1>4, <1>5 DEF Held

\* What the composite reranker publishes is ordered by the scores it has there.
LEMMA PublishedIsOrdered ==
  ASSUME NEW fs, Held(fs), NEW gs, gs = PublishedOrder(fs)
  PROVE  /\ Held(gs) /\ Ids(gs) = Ids(fs) /\ Len(gs) = Len(fs)
         /\ \A i, j \in 1..Len(gs) : i < j => Composite(gs[i], gs) >= Composite(gs[j], gs)
<1> DEFINE score == CompositeScores(fs)
<1>1. fs \in Seq(Finding) /\ Distinct(fs) /\ Len(fs) \in Nat
  BY DEF Held
<1>2. score \in [1..Len(fs) -> Int] /\ \A i \in 1..Len(fs) : score[i] = Composite(fs[i], fs)
  BY <1>1, CompositeIsNumber DEF CompositeScores
<1>3. gs = Ranked(fs, score)
  BY DEF PublishedOrder
<1> HIDE DEF score
<1>4. gs \in Seq(Finding) /\ Distinct(gs) /\ Len(gs) = Len(fs) /\ Ids(gs) = Ids(fs)
  BY <1>1, <1>2, <1>3, RankedKept
<1>5. PICK order \in [1..Len(fs) -> 1..Len(fs)] :
        /\ gs = [k \in 1..Len(fs) |-> fs[order[k]]]
        /\ \A j, k \in 1..Len(fs) : j < k => score[order[j]] >= score[order[k]]
        /\ \A i \in 1..Len(fs) : \E k \in 1..Len(fs) : order[k] = i
  <2>1. \E order \in [1..Len(fs) -> 1..Len(fs)] :
           /\ Ranked(fs, score) = [k \in 1..Len(fs) |-> fs[order[k]]]
           /\ \A j, k \in 1..Len(fs) : j < k => score[order[j]] >= score[order[k]]
           /\ \A j, k \in 1..Len(fs) : j # k => order[j] # order[k]
           /\ \A i \in 1..Len(fs) : \E k \in 1..Len(fs) : order[k] = i
    BY <1>1, <1>2, RankedLists, Zenon
  <2> QED BY <1>3, <2>1
<1>6. \A f : Composite(f, gs) = Composite(f, fs)
  <2> TAKE f
  <2>1. \A k \in 1..Len(fs) : gs[k] = fs[order[k]]
    BY <1>5
  <2> QED BY <1>1, <1>4, <1>5, <2>1, CompositeIgnoresOrder
<1>7. ASSUME NEW k \in 1..Len(fs) PROVE Composite(gs[k], gs) = score[order[k]]
  <2>1. gs[k] = fs[order[k]] /\ order[k] \in 1..Len(fs)
    BY <1>5
  <2>2. score[order[k]] = Composite(fs[order[k]], fs)
    BY <1>2, <2>1
  <2>3. ASSUME NEW f, f = gs[k] PROVE Composite(f, gs) = score[order[k]]
    BY <1>6, <2>1, <2>2, <2>3
  <2> QED BY <2>3
<1>8. \A i, j \in 1..Len(gs) : i < j => Composite(gs[i], gs) >= Composite(gs[j], gs)
  <2> TAKE i, j \in 1..Len(gs)
  <2> HAVE i < j
  <2>1. i \in 1..Len(fs) /\ j \in 1..Len(fs)
    BY <1>4
  <2>2. score[order[i]] >= score[order[j]]
    BY <1>5, <2>1
  <2>3. Composite(gs[i], gs) = score[order[i]] /\ Composite(gs[j], gs) = score[order[j]]
    BY <1>7, <2>1
  <2> QED BY <2>2, <2>3
<1>9. Held(gs)
  BY <1>4 DEF Held
<1> QED BY <1>4, <1>8, <1>9

\* The scores of a model and the composite ones are numbers.
LEMMA RelevanceIsNumber ==
  ASSUME ChainInv, NEW scored \in SUBSET DOMAIN list,
         NEW relevance \in [scored -> {0, Top}], NEW score,
         score = [i \in DOMAIN list |->
                    IF i \in scored THEN relevance[i] ELSE Composite(list[i], list)]
  PROVE  score \in [1..Len(list) -> Int]
<1>1. list \in Seq(Finding) /\ Distinct(list)
  BY DEF ChainInv, Held
<1>2. DOMAIN list = 1..Len(list)
  BY <1>1
<1>3. ASSUME NEW i \in 1..Len(list) PROVE score[i] \in Int
  <2>1. Composite(list[i], list) \in Int
    BY <1>1, CompositeIsNumber
  <2>2. i \in scored => relevance[i] \in Int
    BY DEF Top
  <2> QED BY <1>2, <2>1, <2>2
<1> QED BY <1>2, <1>3

\* The model's order is of the same findings.
LEMMA RerankKeeps ==
  ASSUME ChainInv, Rerank
  PROVE  \E gs : /\ Held(gs) /\ Len(gs) = Len(list) /\ Ids(gs) = Ids(list)
                 /\ Finish(gs, events, 1)
<1>1. PICK scored \in SUBSET DOMAIN list :
        \E relevance \in [scored -> {0, Top}] :
          LET score == [i \in DOMAIN list |->
                          IF i \in scored THEN relevance[i] ELSE Composite(list[i], list)]
          IN Finish(Ranked(list, score), events, 1)
  BY DEF Rerank
<1>2. PICK relevance \in [scored -> {0, Top}] :
        Finish(Ranked(list, [i \in DOMAIN list |->
                 IF i \in scored THEN relevance[i] ELSE Composite(list[i], list)]),
               events, 1)
  BY <1>1
<1> DEFINE score == [i \in DOMAIN list |->
                 IF i \in scored THEN relevance[i] ELSE Composite(list[i], list)]
           gs == Ranked(list, score)
<1>3. score \in [1..Len(list) -> Int]
  BY RelevanceIsNumber
<1>4. Finish(gs, events, 1)
  BY <1>2
<1> HIDE DEF score
<1>5. Held(gs) /\ Len(gs) = Len(list) /\ Ids(gs) = Ids(list)
  BY <1>3, RankedKept DEF ChainInv, Held
<1> HIDE DEF gs
<1> QED BY <1>4, <1>5

\* A step of the driver keeps the chain.
LEMMA DriveKeepsChain ==
  ASSUME ChainInv, Drive
  PROVE  ChainInv'
<1>1. CASE NothingFound
  <2>1. /\ case' = case /\ accused' = accused /\ stage' = "done" /\ list' = list
        /\ task' = <<>> /\ list = <<>>
    BY <1>1 DEF NothingFound, ChainInv
  <2>2. Settled(<<>>) = <<>>
    BY DEF Settled
  <2>3. Len(<<>>) = 0 /\ Held(<<>>)
    BY <2>1 DEF ChainInv
  <2>4. case.llm => Ids(case.raw) \ accused \subseteq Ids(<<>>)
    BY <2>1 DEF ChainInv, FailuresLoseNothing
  <2> QED BY <2>1, <2>2, <2>3, <2>4, SettledKeepsChain
<1>2. CASE Collapse
  <2>1. PICK fs \in Deduplicated(case.raw) :
          /\ \E evs : Fan("review", fs, evs)
          /\ accused' = Ids(case.raw) \ Ids(fs)
    BY <1>2 DEF Collapse
  <2>2. case \in Cases
    BY DEF ChainInv
  <2>3. /\ fs \in Seq(Finding) /\ Len(fs) \in 0..Len(case.raw) /\ Distinct(fs)
        /\ \A k \in 1..Len(fs) : fs[k].id \in 1..Len(case.raw)
        /\ \A i \in 1..Len(case.raw) : \E k \in 1..Len(fs) :
             /\ fs[k].lens = case.raw[i].lens /\ fs[k].article = case.raw[i].article
             /\ fs[k].score >= case.raw[i].score
    BY <2>2, RawHeld, DeduplicatedKeeps
  <2>4. Held(fs)
    BY <2>3 DEF Held, Ids
  <2>5. Ids(case.raw) \ accused' \subseteq Ids(fs)
    BY <2>1
  <2> QED BY <2>1, <2>3, <2>4, <2>5, FanKeepsChain
<1>3. CASE EndReview
  <2> DEFINE fs == Results(list, task)
             evs == events \o Removal("refuted", Len(list) - Len(fs))
  <2>1. Tasks
    BY <1>3 DEF EndReview, ChainInv
  <2>2. /\ Held(fs) /\ Len(fs) \in 0..Len(list)
        /\ case.llm => Ids(case.raw) \ accused \subseteq Ids(fs)
    BY <2>1, BatchLeaves
  <2>3. \/ fs = <<>> /\ Finish(fs, evs, 0)
        \/ Fan("verify", fs, evs) /\ accused' = accused
    BY <1>3 DEF EndReview
  <2> HIDE DEF fs, evs
  <2>4. CASE fs = <<>> /\ Finish(fs, evs, 0)
    <3>1. 1..Len(fs) = {}
      BY <2>4
    <3> QED BY <2>2, <2>4, <3>1, SettledKeepsChain DEF Finish
  <2>5. CASE Fan("verify", fs, evs) /\ accused' = accused
    BY <2>2, <2>5, FanKeepsChain
  <2> QED BY <2>3, <2>4, <2>5
<1>4. CASE EndVerify
  <2> DEFINE fs == Results(list, task)
             evs == events \o Verified(fs)
             gs == PublishedOrder(fs)
  <2>1. Tasks
    BY <1>4 DEF EndVerify, ChainInv
  <2>2. /\ Held(fs) /\ Len(fs) \in 0..Len(list)
        /\ case.llm => Ids(case.raw) \ accused \subseteq Ids(fs)
    BY <2>1, BatchLeaves
  <2>3. \/ fs = <<>> /\ Finish(fs, evs, 0)
        \/ /\ case.model /\ stage' = "rerank" /\ list' = fs /\ task' = Settled(fs)
           /\ UNCHANGED <<case, accused>>
        \/ Finish(gs, evs, 2)
    BY <1>4 DEF EndVerify
  <2> HIDE DEF evs
  <2>4. CASE fs = <<>> /\ Finish(fs, evs, 0)
    <3>1. 1..Len(fs) = {}
      BY <2>4
    <3> HIDE DEF fs
    <3> QED BY <2>2, <2>4, <3>1, SettledKeepsChain DEF Finish
  <2>5. CASE /\ case.model /\ stage' = "rerank" /\ list' = fs /\ task' = Settled(fs)
             /\ UNCHANGED <<case, accused>>
    <3> HIDE DEF fs
    <3> QED BY <2>2, <2>5, SettledKeepsChain
  <2>6. CASE Finish(gs, evs, 2)
    <3> HIDE DEF fs
    <3>1. /\ Held(gs) /\ Ids(gs) = Ids(fs)
          /\ \A i, j \in 1..Len(gs) : i < j => Composite(gs[i], gs) >= Composite(gs[j], gs)
      BY <2>2, PublishedIsOrdered
    <3> HIDE DEF gs
    <3> QED BY <2>2, <2>6, <3>1, SettledKeepsChain DEF Finish
  <2> QED BY <2>3, <2>4, <2>5, <2>6
<1>5. CASE Rerank
  <2>1. PICK gs : Held(gs) /\ Ids(gs) = Ids(list) /\ Finish(gs, events, 1)
    BY <1>5, RerankKeeps
  <2>2. case.model
    BY <1>5 DEF Rerank, ChainInv
  <2>3. case.llm => Ids(case.raw) \ accused \subseteq Ids(gs)
    BY <2>1 DEF ChainInv, FailuresLoseNothing
  <2> QED BY <2>1, <2>2, <2>3, SettledKeepsChain DEF Finish
<1> QED BY <1>1, <1>2, <1>3, <1>4, <1>5 DEF Drive

LEMMA InitChain == Init => ChainInv
<1> SUFFICES ASSUME Init PROVE ChainInv
  OBVIOUS
<1>1. /\ case \in Cases /\ stage = "collected" /\ list = case.raw /\ task = <<>>
      /\ events = <<>> /\ accused = {}
  BY DEF Init
<1> QED BY <1>1, RawHeld DEF ChainInv, FailuresLoseNothing, StrongestStays, RankedAsPublished

LEMMA ChainInductive == ChainInv /\ [Next]_vars => ChainInv'
<1> SUFFICES ASSUME ChainInv, [Next]_vars PROVE ChainInv'
  OBVIOUS
<1>1. ASSUME NEW i \in DOMAIN task, ReviewStep(i) \/ VerifyStep(i)
      PROVE  ChainInv'
  <2>1. /\ stage \in {"review", "verify"} /\ i \in 1..Len(list) /\ accused \subseteq accused'
        /\ \E t : Becomes(i, t)
    BY <1>1, TaskMoves
  <2> QED BY <2>1, MoveKeepsChain
<1>2. CASE Cancel
  <2>1. /\ stage \in {"review", "verify", "rerank"} /\ stage' = "cancelled"
        /\ UNCHANGED <<case, list, task, free, events, rounds, accused>>
    BY <1>2 DEF Cancel
  <2>2. Tasks
    BY <2>1 DEF ChainInv
  <2>3. Tasks'
    <3>1. \A i \in 1..Len(list) : task[i].at \in Where'
      BY <2>1, <2>2 DEF Tasks, Task, Where
    <3>2. \A i \in 1..Len(list) : TaskOK(task[i], list[i].id)'
      BY <2>1, <2>2 DEF Tasks, TaskOK
    <3> QED BY <2>1, <2>2, <3>1, <3>2 DEF Tasks
  <2>4. Held(list)' /\ FailuresLoseNothing' /\ StrongestStays' /\ RankedAsPublished'
    BY <2>1 DEF ChainInv, Held, FailuresLoseNothing, StrongestStays, RankedAsPublished
  <2> QED BY <2>1, <2>3, <2>4 DEF ChainInv
<1>3. CASE UNCHANGED vars
  <2>1. UNCHANGED <<case, stage, list, task, events, accused>>
    BY <1>3 DEF vars
  <2>2. Tasks => Tasks'
    BY <2>1 DEF Tasks, TaskOK, Where
  <2>3. Held(list)' /\ FailuresLoseNothing' /\ StrongestStays' /\ RankedAsPublished'
    BY <2>1 DEF ChainInv, Held, FailuresLoseNothing, StrongestStays, RankedAsPublished
  <2> QED BY <2>1, <2>2, <2>3 DEF ChainInv
<1> QED BY <1>1, <1>2, <1>3, DriveKeepsChain DEF Next

LEMMA ChainInvariant == Spec => []ChainInv
<1> QED BY InitChain, ChainInductive, PTL DEF Spec

\* With a model in the chain, no failed call, failed gate or lookup that raises
\* loses a finding: what is lost is a duplicate or was accused (review(),
\* _verify_llm(), deduplicate()).
THEOREM NothingLostByFailure == Spec => []FailuresLoseNothing
<1>1. ChainInv => FailuresLoseNothing
  BY DEF ChainInv
<1> QED BY <1>1, ChainInvariant, PTL

\* deduplicate() leaves, for whatever it removes, a finding of the same lens and
\* article that is at least as confident, however the clusters overlap.
THEOREM StrongestIsKept == Spec => []StrongestStays
<1>1. ChainInv => StrongestStays
  BY DEF ChainInv
<1> QED BY <1>1, ChainInvariant, PTL

\* The composite reranker publishes findings by the scores they have when they
\* are published (CompositeReranker.rerank() after verify_batch()).
THEOREM PublishedByScore == Spec => []RankedAsPublished
<1>1. ChainInv => RankedAsPublished
  BY DEF ChainInv
<1> QED BY <1>1, ChainInvariant, PTL
-----------------------------------------------------------------------------
(* The events.                                                             *)

EventType ==
  {"created", "dedup_removed", "refuted", "citation_failed", "citation_verified", "completed"}

Removing == {"dedup_removed", "refuted"}

\* Events that record r removed findings, and no end.
Recorded(evs, r) ==
  /\ evs \in Seq([type : EventType, n : Nat])
  /\ \A k \in DOMAIN evs : evs[k].type # "completed"
  /\ IsFiniteSet(Removals(evs)) /\ Cardinality(Removals(evs)) = r

\* A column of n units.
LEMMA Column ==
  ASSUME NEW c, NEW n \in Nat
  PROVE  IsFiniteSet({c} \X (1..n)) /\ Cardinality({c} \X (1..n)) = n
<1>1. IsFiniteSet(1..n) /\ Cardinality(1..n) = n
  BY FS_Interval
<1>2. IsFiniteSet({c}) /\ Cardinality({c}) = 1
  BY FS_Singleton
<1> QED BY <1>1, <1>2, FS_Product

\* An event adds its number to the removals, or nothing if it is of another type.
LEMMA OneMoreEvent ==
  ASSUME NEW evs \in Seq([type : EventType, n : Nat]), IsFiniteSet(Removals(evs)),
         NEW type \in EventType, NEW n \in Nat
  PROVE  /\ evs \o <<Event(type, n)>> \in Seq([type : EventType, n : Nat])
         /\ IsFiniteSet(Removals(evs \o <<Event(type, n)>>))
         /\ Cardinality(Removals(evs \o <<Event(type, n)>>)) =
              Cardinality(Removals(evs)) + (IF type \in Removing THEN n ELSE 0)
<1> DEFINE e == Event(type, n)
           new == evs \o <<e>>
           last == Len(evs) + 1
           more == IF type \in Removing THEN {last} \X (1..n) ELSE {}
<1>1. e \in [type : EventType, n : Nat] /\ e.type = type /\ e.n = n
  BY DEF Event
<1>2. Len(evs) \in Nat /\ DOMAIN evs = 1..Len(evs)
  OBVIOUS
<1> HIDE DEF e
<1>3. /\ new \in Seq([type : EventType, n : Nat])
      /\ DOMAIN new = 1..last /\ new[last] = e
      /\ \A k \in 1..Len(evs) : new[k] = evs[k]
  BY <1>1, <1>2
<1>4. Removals(new) = Removals(evs) \cup more
  <2> HIDE DEF new
  <2>1. {k \in DOMAIN new : new[k].type \in Removing} =
          {k \in DOMAIN evs : evs[k].type \in Removing}
            \cup (IF type \in Removing THEN {last} ELSE {})
    BY <1>1, <1>2, <1>3
  <2>2. \A k \in {k \in DOMAIN evs : evs[k].type \in Removing} : new[k] = evs[k]
    BY <1>2, <1>3
  <2> DEFINE K == {k \in DOMAIN evs : evs[k].type \in Removing}
             extra == IF type \in Removing THEN {last} ELSE {}
  <2>3. /\ Removals(evs) = UNION {{k} \X (1..evs[k].n) : k \in K}
        /\ Removals(new) = UNION {{k} \X (1..new[k].n) : k \in K \cup extra}
    BY <2>1 DEF Removals, Removing
  <2>4. more = UNION {{k} \X (1..new[k].n) : k \in extra}
    BY <1>1, <1>3
  <2>5. \A k \in K : {k} \X (1..new[k].n) = {k} \X (1..evs[k].n)
    BY <2>2
  <2> HIDE DEF K, extra, more
  <2> QED BY <2>3, <2>4, <2>5
<1>5. IsFiniteSet(more) /\ Cardinality(more) = IF type \in Removing THEN n ELSE 0
  <2>1. IsFiniteSet({last} \X (1..n)) /\ Cardinality({last} \X (1..n)) = n
    BY Column
  <2>2. IsFiniteSet({}) /\ Cardinality({}) = 0
    BY FS_EmptySet
  <2> QED BY <2>1, <2>2
<1>6. Removals(evs) \cap more = {}
  <2>1. \A k \in DOMAIN evs : k # last
    BY <1>2
  <2> QED BY <2>1 DEF Removals
<1>7. Cardinality(Removals(evs) \cap more) = 0
  BY <1>6, FS_EmptySet
<1>8. Cardinality(Removals(evs)) \in Nat
  BY FS_CardinalityType
<1> HIDE DEF more, new
<1>9. /\ IsFiniteSet(Removals(evs) \cup more)
      /\ Cardinality(Removals(evs) \cup more) =
           Cardinality(Removals(evs)) + Cardinality(more) - Cardinality(Removals(evs) \cap more)
  BY <1>5, FS_Union, Zenon
<1>10. IsFiniteSet(Removals(new)) /\ Cardinality(Removals(new)) =
         Cardinality(Removals(evs)) + (IF type \in Removing THEN n ELSE 0)
  BY <1>4, <1>5, <1>7, <1>8, <1>9
<1> QED BY <1>3, <1>10 DEF e, new

\* An event that is not the last one adds its number to what is recorded.
LEMMA RecordsEvent ==
  ASSUME NEW evs, NEW r \in Nat, Recorded(evs, r),
         NEW type \in EventType, type # "completed", NEW n \in Nat
  PROVE  Recorded(evs \o <<Event(type, n)>>, IF type \in Removing THEN r + n ELSE r)
<1> DEFINE new == evs \o <<Event(type, n)>>
<1>1. /\ new \in Seq([type : EventType, n : Nat]) /\ IsFiniteSet(Removals(new))
      /\ Cardinality(Removals(new)) = r + (IF type \in Removing THEN n ELSE 0)
  BY OneMoreEvent DEF Recorded
<1>2. \A k \in DOMAIN new : new[k].type # "completed"
  <2>1. evs \in Seq([type : EventType, n : Nat]) /\ Event(type, n).type = type
    BY DEF Recorded, Event
  <2>2. \A k \in DOMAIN new : new[k] = Event(type, n) \/ (k \in DOMAIN evs /\ new[k] = evs[k])
    BY <2>1
  <2> HIDE DEF new
  <2> QED BY <2>1, <2>2 DEF Recorded
<1> QED BY <1>1, <1>2 DEF Recorded

\* So does the removal of a number of findings, also of none.
LEMMA RecordsRemoval ==
  ASSUME NEW evs, NEW r \in Nat, Recorded(evs, r), NEW type \in Removing, NEW n \in Nat
  PROVE  Recorded(evs \o Removal(type, n), r + n)
<1>1. type \in EventType /\ type # "completed"
  <2>1. type = "dedup_removed" \/ type = "refuted"
    BY DEF Removing
  <2> QED BY <2>1 DEF EventType
<1>2. r \in Int /\ evs \in Seq([type : EventType, n : Nat])
  BY DEF Recorded
<1>3. CASE n = 0
  <2>1. Removal(type, n) = <<>>
    BY <1>3 DEF Removal
  <2>2. evs \o Removal(type, n) = evs /\ r + n = r
    BY <1>2, <1>3, <2>1
  <2> QED BY <2>2
<1>4. CASE n # 0
  <2>1. Removal(type, n) = <<Event(type, n)>>
    BY <1>4 DEF Removal
  <2>2. Recorded(evs \o <<Event(type, n)>>, r + n)
    <3>1. Recorded(evs \o <<Event(type, n)>>, IF type \in Removing THEN r + n ELSE r)
      BY <1>1, RecordsEvent, Zenon
    <3> QED BY <3>1
  <2> QED BY <2>1, <2>2
<1> QED BY <1>3, <1>4

\* Until the chain ends the events record what is no longer held.
EventsInv ==
  /\ stage # "done" => Recorded(events, Len(case.raw) - Len(list))
  /\ EventsAccount

\* Two more pieces of a log in one or in two steps.
LEMMA LogsJoin ==
  ASSUME NEW evs \in Seq([type : EventType, n : Nat]),
         NEW fs \in Seq([type : EventType, n : Nat]), NEW e \in [type : EventType, n : Nat]
  PROVE  evs \o (fs \o <<e>>) = (evs \o fs) \o <<e>>
<1>1. <<e>> \in Seq([type : EventType, n : Nat])
  OBVIOUS
<1> QED BY <1>1, ConcatAssociative

\* The accounts of a chain that goes on.
LEMMA OngoingAccounts ==
  ASSUME Len(case.raw) \in Nat, NEW fs, Len(fs) \in Nat, NEW evs,
         Recorded(evs, Len(case.raw) - Len(fs)),
         case' = case, stage' # "done", list' = fs, events' = evs
  PROVE  EventsInv'
<1>1. Cardinality(Removals(evs)) + Len(fs) = Len(case.raw)
  BY DEF Recorded
<1>2. \A k \in DOMAIN evs : evs[k].type # "completed"
  BY DEF Recorded
<1>3. Removals(events)' = Removals(evs) /\ Recorded(events, Len(case.raw) - Len(list))'
  BY DEF Removals, Recorded
<1> QED BY <1>1, <1>2, <1>3 DEF EventsInv, EventsAccount

\* The accounts of a chain that ends.
LEMMA FinishAccounts ==
  ASSUME Len(case.raw) \in Nat, NEW fs, Len(fs) \in Nat, NEW evs,
         Recorded(evs, Len(case.raw) - Len(fs)), NEW n, Finish(fs, evs, n)
  PROVE  EventsInv'
<1>1. /\ case' = case /\ stage' = "done" /\ list' = fs
      /\ events' = evs \o (IF case.board THEN <<Event("completed", Len(fs))>> ELSE <<>>)
  BY DEF Finish, Completed
<1>2. /\ evs \in Seq([type : EventType, n : Nat]) /\ IsFiniteSet(Removals(evs))
      /\ Cardinality(Removals(evs)) + Len(fs) = Len(case.raw)
      /\ \A k \in DOMAIN evs : evs[k].type # "completed"
  BY DEF Recorded
<1>3. CASE case.board
  <2> DEFINE e == Event("completed", Len(fs))
             new == evs \o <<e>>
  <2>1. "completed" \in EventType /\ "completed" \notin Removing
    BY DEF EventType, Removing
  <2>2. Cardinality(Removals(new)) = Cardinality(Removals(evs))
    <3>1. Cardinality(Removals(evs)) \in Nat
      BY <1>2, FS_CardinalityType
    <3>2. Cardinality(Removals(new)) = Cardinality(Removals(evs)) + 0
      BY <1>2, <2>1, OneMoreEvent
    <3> QED BY <3>1, <3>2
  <2>3. e.type = "completed" /\ e.n = Len(fs)
    BY DEF Event
  <2> HIDE DEF e
  <2>4. /\ new[Len(new)] = e /\ Len(new) \in DOMAIN new
        /\ \A k \in DOMAIN new : k # Len(new) => k \in DOMAIN evs /\ new[k] = evs[k]
    BY <1>2
  <2>5. events' = new
    BY <1>1, <1>3 DEF e
  <2> HIDE DEF new
  <2>6. \A k \in DOMAIN new :
          new[k].type = "completed" <=> k = Len(new) /\ new[k].n = Len(fs)
    BY <1>2, <2>3, <2>4
  <2>7. (Cardinality(Removals(events)) + Len(list) = Len(case.raw))'
    BY <1>1, <1>2, <2>2, <2>5
  <2> QED BY <1>1, <2>5, <2>6, <2>7 DEF EventsInv, EventsAccount
<1>4. CASE ~case.board
  <2>1. events' = evs
    BY <1>1, <1>2, <1>4
  <2> QED BY <1>1, <1>2, <1>4, <2>1 DEF EventsInv, EventsAccount
<1> QED BY <1>3, <1>4

\* A batch that is over adds what it removed to the events.
LEMMA BatchRecords ==
  ASSUME ChainInv, EventsInv, Tasks, stage # "done", NEW fs, fs = Results(list, task)
  PROVE  /\ Len(case.raw) \in Nat /\ Len(fs) \in Nat
         /\ Recorded(events \o Removal("refuted", Len(list) - Len(fs)), Len(case.raw) - Len(fs))
         /\ stage = "verify" => Recorded(events \o Verified(fs), Len(case.raw) - Len(fs))
<1>1. Len(case.raw) \in Nat /\ Len(list) \in Nat /\ Len(fs) \in 0..Len(list)
  BY RawHeld, BatchLeaves DEF ChainInv, Held
<1> DEFINE r == Len(case.raw) - Len(list)
           n == Len(list) - Len(fs)
           gone == Removal("refuted", n)
           more == IF Unproved(task) > 0 THEN Event("citation_failed", Unproved(task))
                   ELSE Event("citation_verified", Len(fs))
<1>2. Recorded(events, r) /\ r \in Nat /\ n \in Nat /\ r + n = Len(case.raw) - Len(fs)
  <2>1. Recorded(events, r)
    BY DEF EventsInv
  <2>2. r \in Nat
    BY <2>1, FS_CardinalityType DEF Recorded
  <2> QED BY <1>1, <2>1, <2>2
<1>3. Recorded(events \o gone, r + n)
  <2>1. "refuted" \in Removing
    BY DEF Removing
  <2> HIDE DEF r, n
  <2> QED BY <1>2, <2>1, RecordsRemoval
<1>4. Recorded(events \o Verified(fs), r + n)
  <2>1. Unproved(task) \in Nat
    <3>1. task \in [1..Len(list) -> Task] /\ Len(list) \in Nat
      BY <1>1 DEF Tasks
    <3>2. Len(task) = Len(list)
      BY <3>1
    <3>3. IsFiniteSet(1..Len(list))
      BY <1>1, FS_Interval
    <3>4. IsFiniteSet({i \in 1..Len(task) : ~task[i].proved})
      BY <3>2, <3>3, FS_Subset
    <3> QED BY <3>4, FS_CardinalityType DEF Unproved
  <2>2. PICK type \in {"citation_failed", "citation_verified"}, k \in Nat : more = Event(type, k)
    BY <1>1, <2>1
  <2>3. type \in EventType /\ type # "completed" /\ type \notin Removing
    <3>1. type = "citation_failed" \/ type = "citation_verified"
      OBVIOUS
    <3> QED BY <3>1 DEF EventType, Removing
  <2>4. Recorded((events \o gone) \o <<Event(type, k)>>, r + n)
    <3> HIDE DEF r, n, gone, more
    <3>1. r + n \in Nat
      BY <1>2
    <3>2. Recorded((events \o gone) \o <<Event(type, k)>>,
                   IF type \in Removing THEN r + n + k ELSE r + n)
      BY <1>3, <2>3, <3>1, RecordsEvent, Zenon
    <3> QED BY <2>3, <3>2
  <2>5. Verified(fs) = gone \o <<more>>
    BY DEF Verified
  <2>6. /\ events \in Seq([type : EventType, n : Nat])
        /\ gone \in Seq([type : EventType, n : Nat])
        /\ Event(type, k) \in [type : EventType, n : Nat]
    <3>1. "refuted" \in EventType
      BY DEF EventType
    <3>2. Event("refuted", n) \in [type : EventType, n : Nat]
      BY <1>2, <3>1 DEF Event
    <3>3. gone \in Seq([type : EventType, n : Nat])
      <4>1. gone = <<>> \/ gone = <<Event("refuted", n)>>
        BY DEF Removal
      <4>2. \A e \in [type : EventType, n : Nat] :
              <<>> \in Seq([type : EventType, n : Nat]) /\ <<e>> \in Seq([type : EventType, n : Nat])
        OBVIOUS
      <4> HIDE DEF gone, n
      <4>3. CASE gone = <<>>
        BY <3>2, <4>2, <4>3, Zenon
      <4>4. CASE gone = <<Event("refuted", n)>>
        BY <3>2, <4>2, <4>4, Zenon
      <4> QED BY <4>1, <4>3, <4>4
    <3> QED BY <1>2, <2>3, <3>3 DEF Recorded, Event
  <2> HIDE DEF r, n, gone, more
  <2> QED BY <2>2, <2>4, <2>5, <2>6, LogsJoin
<1> QED BY <1>1, <1>2, <1>3, <1>4

\* A step of the driver keeps the accounts.
LEMMA DriveAccounts ==
  ASSUME ChainInv, EventsInv, Drive
  PROVE  EventsInv'
<1>1. /\ case \in Cases /\ Len(case.raw) \in Nat /\ case.raw \in Seq(Finding)
      /\ \A i \in 1..Len(case.raw) : case.raw[i].id = i
      /\ Len(list) \in Nat
  BY RawHeld DEF ChainInv, Held
<1>2. CASE NothingFound
  <2>1. /\ case' = case /\ stage' = "done" /\ list' = list /\ events' = events
        /\ case.raw = <<>>
    BY <1>2 DEF NothingFound
  <2> QED BY <2>1 DEF EventsInv, EventsAccount, Removals
<1>3. CASE Collapse
  <2> DEFINE start == IF case.board THEN <<Event("created", Len(case.raw))>> ELSE <<>>
  <2>1. PICK fs \in Deduplicated(case.raw) :
          Fan("review", fs, start \o Removal("dedup_removed", Len(case.raw) - Len(fs)))
    BY <1>3 DEF Collapse
  <2>2. Len(fs) \in 0..Len(case.raw)
    BY <1>1, DeduplicatedKeeps
  <2>3. Recorded(<<>>, 0)
    BY <1>1, <1>3 DEF Collapse, ChainInv, EventsInv
  <2>4. Recorded(start, 0)
    <3>1. "created" \in EventType /\ "created" # "completed" /\ "created" \notin Removing
      BY DEF EventType, Removing
    <3>2. Recorded(<<>> \o <<Event("created", Len(case.raw))>>,
                   IF "created" \in Removing THEN 0 + Len(case.raw) ELSE 0)
      BY <1>1, <2>3, <3>1, RecordsEvent
    <3>3. Recorded(<<Event("created", Len(case.raw))>>, 0)
      BY <3>1, <3>2
    <3> QED BY <2>3, <3>3
  <2> HIDE DEF start
  <2>5. Recorded(start \o Removal("dedup_removed", Len(case.raw) - Len(fs)),
                 0 + (Len(case.raw) - Len(fs)))
    <3>1. "dedup_removed" \in Removing /\ Len(case.raw) - Len(fs) \in Nat
      BY <1>1, <2>2 DEF Removing
    <3> QED BY <2>4, <3>1, RecordsRemoval
  <2>6. Recorded(start \o Removal("dedup_removed", Len(case.raw) - Len(fs)),
                 Len(case.raw) - Len(fs))
    BY <1>1, <2>2, <2>5
  <2>7. /\ case' = case /\ stage' = "review" /\ list' = fs
        /\ events' = start \o Removal("dedup_removed", Len(case.raw) - Len(fs))
    BY <2>1 DEF Fan
  <2> DEFINE evs == start \o Removal("dedup_removed", Len(case.raw) - Len(fs))
  <2>8. Recorded(evs, Len(case.raw) - Len(fs)) /\ events' = evs
    BY <2>6, <2>7
  <2>9. Len(fs) \in Nat
    BY <1>1, <2>2
  <2> HIDE DEF evs
  <2> QED BY <1>1, <2>7, <2>8, <2>9, OngoingAccounts
<1>4. CASE EndReview
  <2>1. Tasks /\ stage # "done"
    BY <1>4 DEF EndReview, ChainInv
  <2> DEFINE fs == Results(list, task)
             evs == events \o Removal("refuted", Len(list) - Len(fs))
  <2>2. Len(fs) \in Nat /\ Recorded(evs, Len(case.raw) - Len(fs))
    BY <2>1, BatchRecords
  <2>3. Finish(fs, evs, 0) \/ Fan("verify", fs, evs)
    BY <1>4 DEF EndReview
  <2> HIDE DEF fs, evs
  <2>4. CASE Finish(fs, evs, 0)
    BY <1>1, <2>2, <2>4, FinishAccounts
  <2>5. CASE Fan("verify", fs, evs)
    <3>1. case' = case /\ stage' = "verify" /\ list' = fs /\ events' = evs
      BY <2>5 DEF Fan
    <3> QED BY <1>1, <2>2, <3>1, OngoingAccounts
  <2> QED BY <2>3, <2>4, <2>5
<1>5. CASE EndVerify
  <2>1. Tasks /\ stage = "verify" /\ stage # "done"
    BY <1>5 DEF EndVerify, ChainInv
  <2> DEFINE fs == Results(list, task)
             evs == events \o Verified(fs)
             gs == PublishedOrder(fs)
  <2>2. Held(fs) /\ Len(fs) \in Nat /\ Recorded(evs, Len(case.raw) - Len(fs))
    BY <2>1, BatchRecords, BatchLeaves
  <2>3. \/ Finish(fs, evs, 0)
        \/ case' = case /\ stage' = "rerank" /\ list' = fs /\ events' = evs
        \/ Finish(gs, evs, 2)
    BY <1>5 DEF EndVerify
  <2> HIDE DEF fs, evs
  <2>4. Len(gs) = Len(fs)
    BY <2>2, PublishedIsOrdered
  <2> HIDE DEF gs
  <2>5. CASE Finish(fs, evs, 0)
    BY <1>1, <2>2, <2>5, FinishAccounts
  <2>6. CASE case' = case /\ stage' = "rerank" /\ list' = fs /\ events' = evs
    BY <1>1, <2>2, <2>6, OngoingAccounts
  <2>7. CASE Finish(gs, evs, 2)
    BY <1>1, <2>2, <2>4, <2>7, FinishAccounts
  <2> QED BY <2>3, <2>5, <2>6, <2>7
<1>6. CASE Rerank
  <2>1. PICK gs : Len(gs) = Len(list) /\ Finish(gs, events, 1)
    BY <1>6, RerankKeeps
  <2>2. Recorded(events, Len(case.raw) - Len(list))
    BY <1>6 DEF Rerank, EventsInv
  <2> QED BY <1>1, <2>1, <2>2, FinishAccounts
<1> QED BY <1>2, <1>3, <1>4, <1>5, <1>6 DEF Drive

LEMMA EventsInductive == ChainInv /\ EventsInv /\ [Next]_vars => EventsInv'
<1> SUFFICES ASSUME ChainInv, EventsInv, [Next]_vars PROVE EventsInv'
  OBVIOUS
<1>1. ASSUME case' = case, stage' = stage, list' = list, events' = events
      PROVE  EventsInv'
  BY <1>1 DEF EventsInv, EventsAccount, Recorded
<1>2. ASSUME NEW i \in DOMAIN task, ReviewStep(i) \/ VerifyStep(i)
      PROVE  EventsInv'
  <2>1. \E t : Becomes(i, t)
    BY <1>2, TaskMoves
  <2> QED BY <1>1, <2>1 DEF Becomes, Move
<1>3. CASE Cancel
  <2>1. /\ stage # "done" /\ stage' = "cancelled"
        /\ case' = case /\ list' = list /\ events' = events
    BY <1>3 DEF Cancel
  <2>2. Len(case.raw) \in Nat /\ Len(list) \in Nat
    BY RawHeld DEF ChainInv, Held
  <2>3. Recorded(events, Len(case.raw) - Len(list))
    BY <2>1 DEF EventsInv
  <2> QED BY <2>1, <2>2, <2>3, OngoingAccounts
<1>4. CASE UNCHANGED vars
  BY <1>1, <1>4 DEF vars
<1> QED BY <1>2, <1>3, <1>4, DriveAccounts DEF Next

LEMMA InitAccounts == Init => EventsInv
<1> SUFFICES ASSUME Init PROVE EventsInv
  OBVIOUS
<1>1. events = <<>> /\ list = case.raw /\ stage = "collected" /\ case \in Cases
  BY DEF Init
<1>2. Len(case.raw) \in Nat
  BY <1>1, RawHeld
<1>3. Removals(events) = {}
  BY <1>1 DEF Removals
<1>4. Recorded(events, 0)
  <2>1. \A S : <<>> \in Seq(S)
    OBVIOUS
  <2>2. events \in Seq([type : EventType, n : Nat])
    BY <1>1, <2>1, Zenon
  <2>3. \A k \in DOMAIN events : events[k].type # "completed"
    BY <1>1
  <2>4. IsFiniteSet(Removals(events)) /\ Cardinality(Removals(events)) = 0
    BY <1>3, FS_EmptySet
  <2> QED BY <2>2, <2>3, <2>4 DEF Recorded
<1>5. Recorded(events, Len(case.raw) - Len(list))
  BY <1>1, <1>2, <1>4
<1>6. EventsAccount
  <2>1. Cardinality(Removals(events)) = 0
    BY <1>3, FS_EmptySet
  <2>2. Cardinality(Removals(events)) + Len(list) = Len(case.raw)
    BY <1>1, <1>2, <2>1
  <2>3. DOMAIN events = {}
    BY <1>1
  <2> QED BY <2>2, <2>3 DEF EventsAccount
<1> QED BY <1>5, <1>6 DEF EventsInv

\* The event log accounts for every finding at every moment, and a blackboard
\* that ends says so once, last, with what it returns (aggregate(), _complete()).
THEOREM EventsAddUp == Spec => []EventsAccount
<1>1. Spec => []EventsInv
  BY InitAccounts, EventsInductive, ChainInvariant, PTL DEF Spec
<1>2. EventsInv => EventsAccount
  BY DEF EventsInv
<1> QED BY <1>1, <1>2, PTL
-----------------------------------------------------------------------------
(* The fates.                                                              *)

\* The fate of a finding while the driver holds fs, with the tasks ts.
FateIn(fs, ts, id) ==
  IF \A k \in DOMAIN fs : fs[k].id # id THEN "removed"
  ELSE LET k == CHOOSE k \in DOMAIN fs : fs[k].id = id
       IN IF ts[k].removed THEN "removed"
          ELSE IF ts[k].at = "verified" THEN "kept" ELSE "open"

\* A finding that is held has the fate its task gives it.
LEMMA FateOfHeld ==
  ASSUME NEW fs \in Seq(Finding), Distinct(fs), NEW ts, NEW k \in 1..Len(fs)
  PROVE  FateIn(fs, ts, fs[k].id) =
           IF ts[k].removed THEN "removed" ELSE IF ts[k].at = "verified" THEN "kept" ELSE "open"
<1> DEFINE j == CHOOSE j \in DOMAIN fs : fs[j].id = fs[k].id
<1>1. DOMAIN fs = 1..Len(fs)
  OBVIOUS
<1>2. j \in DOMAIN fs /\ fs[j].id = fs[k].id
  BY <1>1
<1>3. j = k
  BY <1>1, <1>2 DEF Distinct
<1>4. FateIn(fs, ts, fs[k].id) =
        IF ts[j].removed THEN "removed" ELSE IF ts[j].at = "verified" THEN "kept" ELSE "open"
  BY <1>2 DEF FateIn
<1> QED BY <1>3, <1>4

\* One that is not held is removed.
LEMMA FateOfLost ==
  ASSUME NEW fs \in Seq(Finding), NEW ts, NEW id, id \notin Ids(fs)
  PROVE  FateIn(fs, ts, id) = "removed"
<1>1. \A k \in DOMAIN fs : fs[k].id # id
  BY DEF Ids
<1> QED BY <1>1 DEF FateIn

\* A fate is one of three.
LEMMA FateIsFate ==
  ASSUME NEW fs, NEW ts, NEW id
  PROVE  FateIn(fs, ts, id) \in {"open", "kept", "removed"}
BY DEF FateIn

\* When a verification is over nothing is open: what was not removed is kept.
LEMMA FatesSettled ==
  ASSUME NEW fs \in Seq(Finding), Distinct(fs), NEW ts, NEW id,
         \A k \in 1..Len(fs) : ts[k].at = "verified"
  PROVE  FateIn(fs, ts, id) =
           IF id \in {fs[i].id : i \in {i \in 1..Len(fs) : ~ts[i].removed}} THEN "kept" ELSE "removed"
<1> DEFINE Left == {fs[i].id : i \in {i \in 1..Len(fs) : ~ts[i].removed}}
<1>1. CASE id \in Ids(fs)
  <2>1. PICK k \in 1..Len(fs) : fs[k].id = id
    BY <1>1 DEF Ids
  <2>2. FateIn(fs, ts, id) = IF ts[k].removed THEN "removed" ELSE "kept"
    BY <2>1, FateOfHeld
  <2>3. id \in Left <=> ~ts[k].removed
    BY <2>1 DEF Distinct
  <2> QED BY <2>2, <2>3
<1>2. CASE id \notin Ids(fs)
  <2>1. id \notin Left
    BY <1>2 DEF Ids
  <2> QED BY <1>2, <2>1, FateOfLost
<1> QED BY <1>1, <1>2

\* Findings that are settled are all kept.
LEMMA SettledFates ==
  ASSUME NEW fs \in Seq(Finding), Distinct(fs), NEW id
  PROVE  FateIn(fs, Settled(fs), id) = IF id \in Ids(fs) THEN "kept" ELSE "removed"
<1> DEFINE ts == Settled(fs)
<1>1. \A k \in 1..Len(fs) : ts[k].at = "verified" /\ ~ts[k].removed
  BY DEF Settled, Queued
<1> HIDE DEF ts
<1>2. {fs[i].id : i \in {i \in 1..Len(fs) : ~ts[i].removed}} = Ids(fs)
  BY <1>1 DEF Ids
<1>3. FateIn(fs, ts, id) = IF id \in Ids(fs) THEN "kept" ELSE "removed"
  BY <1>1, <1>2, FatesSettled
<1> QED BY <1>3 DEF ts

\* As many findings as ids.
LEMMA IdsCount ==
  ASSUME NEW fs \in Seq(Finding), Distinct(fs)
  PROVE  Cardinality(Ids(fs)) = Len(fs)
<1> DEFINE n == Len(fs)
           id == [k \in 1..n |-> fs[k].id]
<1>1. n \in Nat
  OBVIOUS
<1>2. id \in Bijection(1..n, Ids(fs))
  <2>1. id \in [1..n -> Ids(fs)]
    BY DEF Ids
  <2>2. \A j, k \in 1..n : id[j] = id[k] => j = k
    BY DEF Distinct
  <2>3. \A x \in Ids(fs) : \E k \in 1..n : id[k] = x
    BY DEF Ids
  <2> HIDE DEF id
  <2> QED BY <2>1, <2>2, <2>3 DEF Bijection, Injection, Surjection, IsInjective
<1>3. IsFiniteSet(1..n) /\ Cardinality(1..n) = n
  BY <1>1, FS_Interval
<1> HIDE DEF n, id
<1>4. Cardinality(Ids(fs)) = Cardinality(1..n)
  BY <1>2, <1>3, FS_Bijection DEF ExistsBijection
<1> QED BY <1>3, <1>4 DEF n

\* FateOf before and after a step.
LEMMA FatesBefore ==
  FateOf = [id \in 1..Len(case.raw) |->
              IF stage = "collected" THEN "open" ELSE FateIn(list, task, id)]
BY DEF FateOf, FateIn

LEMMA FatesAfter ==
  ASSUME case' = case, stage' # "collected"
  PROVE  FateOf' = [id \in 1..Len(case.raw) |-> FateIn(list', task', id)]
BY DEF FateOf, FateIn

\* A step that leaves the phase alone, and changes open fates only, decides.
LEMMA Decides ==
  ASSUME case' = case, stage' # "collected",
         Phase = "running", Phase' = "running", Output = <<>>, Output' = <<>>,
         stage # "collected" =>
           \A id \in 1..Len(case.raw) :
             FateIn(list, task, id) # "open" => FateIn(list', task', id) = FateIn(list, task, id)
  PROVE  Fates!Decide
<1>1. DOMAIN FateOf = 1..Len(case.raw)
  BY FatesBefore
<1>2. FateOf' \in [DOMAIN FateOf -> {"open", "kept", "removed"}]
  BY <1>1, FatesAfter, FateIsFate
<1>3. ASSUME NEW id \in DOMAIN FateOf, FateOf[id] # "open"
      PROVE  FateOf'[id] = FateOf[id]
  <2>1. stage # "collected" /\ FateOf[id] = FateIn(list, task, id) /\ id \in 1..Len(case.raw)
    BY <1>1, <1>3, FatesBefore
  <2>2. FateOf'[id] = FateIn(list', task', id)
    BY <2>1, FatesAfter
  <2> QED BY <1>3, <2>1, <2>2
<1> QED BY <1>2, <1>3 DEF Fates!Decide

\* The instance counts as this module does.
LEMMA SameCount ==
  ASSUME NEW S
  PROVE  Fates!Cardinality(S) = Cardinality(S)
BY DEF Fates!Cardinality, Cardinality

\* The end of a chain in which nothing is open publishes what is kept.
LEMMA Publishes ==
  ASSUME ChainInv, stage # "collected", Phase = "running",
         case' = case, stage' = "done", NEW fs, Held(fs), list' = fs, task' = Settled(fs),
         \A id \in 1..Len(case.raw) :
           FateIn(list, task, id) = IF id \in Ids(fs) THEN "kept" ELSE "removed"
  PROVE  Fates!Publish
<1>1. fs \in Seq(Finding) /\ Distinct(fs) /\ Ids(fs) \subseteq 1..Len(case.raw)
  BY DEF Held
<1>2. DOMAIN FateOf = 1..Len(case.raw)
  BY FatesBefore
<1>3. \A id \in 1..Len(case.raw) : FateOf[id] = IF id \in Ids(fs) THEN "kept" ELSE "removed"
  BY FatesBefore
<1>4. Fates!Kept = Ids(fs)
  BY <1>1, <1>2, <1>3 DEF Fates!Kept
<1>5. Output' = [k \in 1..Len(fs) |-> fs[k].id]
  BY <1>1 DEF Output
<1>6. Len(Output') = Cardinality(Fates!Kept)
  <2>1. Len(Output') = Len(fs)
    BY <1>1, <1>5
  <2> QED BY <1>1, <1>4, <2>1, IdsCount
<1>7. {Output'[k] : k \in DOMAIN Output'} = Fates!Kept
  BY <1>4, <1>5 DEF Ids
<1>8. FateOf' = FateOf
  <2>1. \A id : FateIn(list', task', id) = IF id \in Ids(fs) THEN "kept" ELSE "removed"
    BY <1>1, SettledFates
  <2>2. FateOf' = [id \in 1..Len(case.raw) |-> FateIn(list', task', id)]
    BY FatesAfter
  <2>3. FateOf = [id \in 1..Len(case.raw) |-> FateIn(list, task, id)]
    BY FatesBefore
  <2> QED BY <2>1, <2>2, <2>3
<1>9. Phase' = "published"
  BY DEF Phase
<1>10. \A id \in DOMAIN FateOf : FateOf[id] # "open"
  BY <1>2, <1>3
<1> QED BY <1>6, <1>7, <1>8, <1>9, <1>10, SameCount DEF Fates!Publish

\* A step of a task decides its finding or nothing.
LEMMA TaskDecides ==
  ASSUME ChainInv, stage \in {"review", "verify"}, NEW i \in 1..Len(list), NEW t,
         task[i].at \notin Done, ~task[i].removed, Becomes(i, t)
  PROVE  Fates!Decide
<1>1. /\ case' = case /\ stage' = stage /\ list' = list
      /\ task' = [task EXCEPT ![i] = t]
  BY DEF Becomes, Move
<1>2. list \in Seq(Finding) /\ Distinct(list) /\ task \in [1..Len(list) -> Task]
  BY DEF ChainInv, Held, Tasks
<1>3. ASSUME NEW id \in 1..Len(case.raw), FateIn(list, task, id) # "open"
      PROVE  FateIn(list', task', id) = FateIn(list, task, id)
  <2>1. CASE id \notin Ids(list)
    BY <1>1, <1>2, <2>1, FateOfLost
  <2>2. CASE id \in Ids(list)
    <3>1. PICK k \in 1..Len(list) : list[k].id = id
      BY <2>2 DEF Ids
    <3>2. /\ FateIn(list, task, id) = IF task[k].removed THEN "removed"
                                      ELSE IF task[k].at = "verified" THEN "kept" ELSE "open"
          /\ FateIn(list, task', id) = IF task'[k].removed THEN "removed"
                                      ELSE IF task'[k].at = "verified" THEN "kept" ELSE "open"
      BY <1>2, <3>1, FateOfHeld
    <3>3. k # i
      BY <1>3, <3>2 DEF Done
    <3>4. task'[k] = task[k]
      BY <1>1, <1>2, <3>3
    <3> QED BY <1>1, <3>2, <3>4
  <2> QED BY <2>1, <2>2
<1>4. Phase = "running" /\ Phase' = "running" /\ Output = <<>> /\ Output' = <<>>
  BY <1>1 DEF Phase, Output
<1> QED BY <1>1, <1>3, <1>4, Decides

\* The end of a review decides nothing anew, and publishes if nothing is left.
LEMMA EndReviewImplements ==
  ASSUME ChainInv, EndReview
  PROVE  Fates!Next
<1> DEFINE fs == Results(list, task)
<1>1. stage = "review" /\ Tasks /\ \A k \in 1..Len(list) : task[k].at = "reviewed"
  <2>1. stage = "review" /\ AllDone("reviewed")
    BY DEF EndReview
  <2>2. Tasks
    BY <2>1 DEF ChainInv
  <2> QED BY <2>1, <2>2 DEF AllDone, Tasks
<1>2. list \in Seq(Finding) /\ Distinct(list) /\ task \in [1..Len(list) -> Task]
  BY <1>1 DEF ChainInv, Held, Tasks
<1>3. Held(fs)
  BY <1>1, BatchLeaves
<1>4. Ids(fs) = {list[i].id : i \in {i \in 1..Len(list) : ~task[i].removed}}
  BY <1>2, ResultsKept
<1>5. \/ fs = <<>> /\ \E evs : Finish(fs, evs, 0)
      \/ \E evs : Fan("verify", fs, evs)
  BY DEF EndReview
<1> HIDE DEF fs
<1>6. Phase = "running" /\ Output = <<>>
  BY <1>1 DEF Phase, Output
<1>7. ASSUME NEW id, FateIn(list, task, id) # "open"
      PROVE  FateIn(list, task, id) = "removed" /\ id \notin Ids(fs)
  <2>1. CASE id \notin Ids(list)
    <3>1. id \notin Ids(fs)
      BY <1>4, <2>1 DEF Ids
    <3> QED BY <1>2, <2>1, <3>1, FateOfLost
  <2>2. CASE id \in Ids(list)
    <3>1. PICK k \in 1..Len(list) : list[k].id = id
      BY <2>2 DEF Ids
    <3>2. FateIn(list, task, id) = IF task[k].removed THEN "removed"
                                   ELSE IF task[k].at = "verified" THEN "kept" ELSE "open"
      BY <1>2, <3>1, FateOfHeld
    <3>3. task[k].removed
      BY <1>1, <1>7, <3>2
    <3>4. id \notin Ids(fs)
      BY <1>2, <1>4, <3>1, <3>3 DEF Distinct
    <3> QED BY <3>2, <3>3, <3>4
  <2> QED BY <2>1, <2>2
<1>8. CASE fs = <<>> /\ \E evs : Finish(fs, evs, 0)
  <2>1. case' = case /\ stage' = "done" /\ list' = fs /\ task' = Settled(fs)
    BY <1>8 DEF Finish
  <2>2. Ids(fs) = {}
    BY <1>8 DEF Ids
  <2>3. \A id : FateIn(list, task, id) = "removed"
    <3> TAKE id
    <3>1. CASE id \notin Ids(list)
      BY <1>2, <3>1, FateOfLost
    <3>2. CASE id \in Ids(list)
      <4>1. PICK k \in 1..Len(list) : list[k].id = id
        BY <3>2 DEF Ids
      <4>2. task[k].removed
        BY <1>4, <2>2
      <4> QED BY <1>2, <4>1, <4>2, FateOfHeld
    <3> QED BY <3>1, <3>2
  <2>4. Fates!Publish
    BY <1>1, <1>3, <1>6, <2>1, <2>2, <2>3, Publishes
  <2> QED BY <2>4 DEF Fates!Next
<1>9. CASE \E evs : Fan("verify", fs, evs)
  <2>1. case' = case /\ stage' = "verify" /\ list' = fs
    BY <1>9 DEF Fan
  <2>2. Phase' = "running" /\ Output' = <<>>
    BY <2>1 DEF Phase, Output
  <2>3. \A id : FateIn(list, task, id) # "open" =>
                  FateIn(list', task', id) = FateIn(list, task, id)
    BY <1>3, <1>7, <2>1, FateOfLost DEF Held
  <2>4. Fates!Decide
    BY <1>6, <2>1, <2>2, <2>3, Decides
  <2> QED BY <2>4 DEF Fates!Next
<1> QED BY <1>5, <1>8, <1>9

\* The end of a verification publishes, or leaves everything to the model's rank.
LEMMA EndVerifyImplements ==
  ASSUME ChainInv, EndVerify
  PROVE  Fates!Next
<1> DEFINE fs == Results(list, task)
           gs == PublishedOrder(fs)
<1>1. stage = "verify" /\ Tasks /\ \A k \in 1..Len(list) : task[k].at = "verified"
  <2>1. stage = "verify" /\ AllDone("verified")
    BY DEF EndVerify
  <2>2. Tasks
    BY <2>1 DEF ChainInv
  <2> QED BY <2>1, <2>2 DEF AllDone, Tasks
<1>2. list \in Seq(Finding) /\ Distinct(list) /\ task \in [1..Len(list) -> Task]
  BY <1>1 DEF ChainInv, Held, Tasks
<1>3. Held(fs)
  BY <1>1, BatchLeaves
<1>4. Ids(fs) = {list[i].id : i \in {i \in 1..Len(list) : ~task[i].removed}}
  BY <1>2, ResultsKept
<1>5. /\ case' = case /\ stage' \in {"rerank", "done"}
      /\ \/ list' = fs /\ task' = Settled(fs)
         \/ list' = gs /\ task' = Settled(gs) /\ stage' = "done"
  BY DEF EndVerify, Finish
<1> HIDE DEF fs
<1>6. Phase = "running" /\ Output = <<>>
  BY <1>1 DEF Phase, Output
<1>7. \A id : FateIn(list, task, id) = IF id \in Ids(fs) THEN "kept" ELSE "removed"
  BY <1>1, <1>2, <1>4, FatesSettled
<1>8. Held(gs) /\ Ids(gs) = Ids(fs)
  BY <1>3, PublishedIsOrdered
<1> HIDE DEF gs
<1>9. CASE stage' = "done" /\ list' = fs /\ task' = Settled(fs)
  <2>1. Fates!Publish
    BY <1>1, <1>3, <1>5, <1>6, <1>7, <1>9, Publishes
  <2> QED BY <2>1 DEF Fates!Next
<1>10. CASE stage' = "done" /\ list' = gs /\ task' = Settled(gs)
  <2>1. Fates!Publish
    BY <1>1, <1>5, <1>6, <1>7, <1>8, <1>10, Publishes
  <2> QED BY <2>1 DEF Fates!Next
<1>11. CASE stage' = "rerank" /\ list' = fs /\ task' = Settled(fs)
  <2>1. Phase' = "running" /\ Output' = <<>>
    BY <1>11 DEF Phase, Output
  <2>2. \A id : FateIn(list', task', id) = FateIn(list, task, id)
    BY <1>3, <1>7, <1>11, SettledFates DEF Held
  <2>3. Fates!Decide
    BY <1>5, <1>6, <1>11, <2>1, <2>2, Decides
  <2> QED BY <2>3 DEF Fates!Next
<1> QED BY <1>5, <1>9, <1>10, <1>11

\* The ends of a chain without findings, and of one a model ranks.
LEMMA NothingImplements ==
  ASSUME ChainInv, NothingFound
  PROVE  Fates!Next
<1>1. /\ stage = "collected" /\ stage' = "done" /\ case' = case /\ case.raw = <<>>
      /\ list' = <<>> /\ list = <<>>
  BY DEF NothingFound, ChainInv
<1>2. FateOf = [id \in {} |-> "open"] /\ FateOf' = [id \in {} |-> "open"]
  <2>1. 1..Len(case.raw) = {}
    BY <1>1
  <2>2. FateOf' = [id \in 1..Len(case.raw) |-> FateIn(list', task', id)]
    BY <1>1, FatesAfter
  <2> QED BY <2>1, <2>2, FatesBefore
<1>3. Phase = "running" /\ Phase' = "published"
  BY <1>1 DEF Phase
<1>4. Fates!Kept = {}
  BY <1>2 DEF Fates!Kept
<1>5. Output' = <<>>
  BY <1>1 DEF Output
<1>6. Len(Output') = Cardinality(Fates!Kept)
  BY <1>4, <1>5, FS_EmptySet
<1>7. {Output'[k] : k \in DOMAIN Output'} = Fates!Kept
  BY <1>4, <1>5
<1>8. FateOf' = FateOf /\ \A id \in DOMAIN FateOf : FateOf[id] # "open"
  BY <1>2
<1>9. Fates!Publish
  BY <1>3, <1>6, <1>7, <1>8, SameCount DEF Fates!Publish
<1> QED BY <1>9 DEF Fates!Next

LEMMA RerankImplements ==
  ASSUME ChainInv, Rerank
  PROVE  Fates!Next
<1>1. stage = "rerank" /\ Tasks
  BY DEF Rerank, ChainInv
<1>2. list \in Seq(Finding) /\ Distinct(list)
  BY DEF ChainInv, Held
<1>3. \A k \in 1..Len(list) : task[k].at = "verified" /\ ~task[k].removed
  BY <1>1 DEF Tasks, Where
<1>4. {list[i].id : i \in {i \in 1..Len(list) : ~task[i].removed}} = Ids(list)
  BY <1>3 DEF Ids
<1>5. \A id : FateIn(list, task, id) = IF id \in Ids(list) THEN "kept" ELSE "removed"
  BY <1>2, <1>3, <1>4, FatesSettled
<1>6. PICK gs : Held(gs) /\ Ids(gs) = Ids(list) /\ Finish(gs, events, 1)
  BY RerankKeeps
<1>7. Phase = "running"
  BY <1>1 DEF Phase
<1>8. case' = case /\ stage' = "done" /\ list' = gs /\ task' = Settled(gs)
  BY <1>6 DEF Finish
<1>9. Fates!Publish
  BY <1>1, <1>5, <1>6, <1>7, <1>8, Publishes
<1> QED BY <1>9 DEF Fates!Next

\* deduplicate() decides for the first time.
LEMMA CollapseImplements ==
  ASSUME ChainInv, Collapse
  PROVE  Fates!Next
<1>1. stage = "collected" /\ stage' = "review" /\ case' = case
  BY DEF Collapse, Fan
<1>2. Phase = "running" /\ Phase' = "running" /\ Output = <<>> /\ Output' = <<>>
  BY <1>1 DEF Phase, Output
<1>3. Fates!Decide
  BY <1>1, <1>2, Decides
<1> QED BY <1>3 DEF Fates!Next

LEMMA CancelImplements ==
  ASSUME ChainInv, Cancel
  PROVE  Fates!Next
<1>1. /\ stage \in {"review", "verify", "rerank"} /\ stage' = "cancelled"
      /\ case' = case /\ list' = list /\ task' = task
  BY DEF Cancel
<1>2. Phase = "running" /\ Phase' = "cancelled" /\ Output = <<>> /\ Output' = <<>>
  BY <1>1 DEF Phase, Output
<1>3. FateOf' = FateOf
  BY <1>1, FatesBefore, FatesAfter
<1>4. Fates!Abort
  BY <1>2, <1>3 DEF Fates!Abort
<1> QED BY <1>4 DEF Fates!Next

LEMMA StepImplementsFates == ChainInv /\ [Next]_vars => [Fates!Next]_(Fates!vars)
<1> SUFFICES ASSUME ChainInv, [Next]_vars PROVE [Fates!Next]_(Fates!vars)
  OBVIOUS
<1>1. ASSUME NEW i \in DOMAIN task, ReviewStep(i) \/ VerifyStep(i)
      PROVE  Fates!Next
  <2>1. /\ stage \in {"review", "verify"} /\ i \in 1..Len(list)
        /\ task[i].at \notin Done /\ ~task[i].removed
        /\ \E t : Becomes(i, t)
    BY <1>1, TaskMoves
  <2>2. Fates!Decide
    BY <2>1, TaskDecides
  <2> QED BY <2>2 DEF Fates!Next
<1>2. ASSUME UNCHANGED vars
      PROVE  FateOf' = FateOf /\ Phase' = Phase /\ Output' = Output
  <2>1. case' = case /\ stage' = stage /\ list' = list /\ task' = task
    BY <1>2 DEF vars
  <2> QED BY <2>1 DEF FateOf, Phase, Output
<1> QED BY <1>1, <1>2, CollapseImplements, NothingImplements, EndReviewImplements,
           EndVerifyImplements, RerankImplements, CancelImplements
        DEF Next, Drive, Fates!vars

LEMMA InitImplementsFates == Init => Fates!Init
<1> SUFFICES ASSUME Init PROVE Fates!Init
  OBVIOUS
<1>1. stage = "collected"
  BY DEF Init
<1>2. FateOf = [id \in DOMAIN FateOf |-> "open"]
  BY <1>1, FatesBefore
<1>3. Phase = "running" /\ Output = <<>>
  BY <1>1 DEF Phase, Output
<1> QED BY <1>2, <1>3 DEF Fates!Init

\* Whatever the order in which reviews and verifications return, which calls fail
\* and when the chain is cancelled, each finding meets one fate for good, and
\* exactly the kept ones are published, each once (aggregate(), review(),
\* verify_batch(), rerank()).
THEOREM ChainDecidesFates == Spec => ImplementsFates
<1>1. Init => Fates!Init
  BY InitImplementsFates
<1>2. ChainInv /\ [Next]_vars => [Fates!Next]_(Fates!vars)
  BY StepImplementsFates
<1> QED BY <1>1, <1>2, ChainInvariant, PTL DEF Spec, ImplementsFates, Fates!Spec
================================================================================
