--------------------------- MODULE Indexer_proofs ---------------------------
(***************************************************************************)
(* Proofs about Indexer: its behaviours are those of Blockchain, and the   *)
(* fees it caches are fresh.  The last part is about sums over finite sets *)
(* which module IndexerReaders_proofs computes the fees of blocks with.    *)
(***************************************************************************)
EXTENDS Indexer, Blockchain_proofs, WellFoundedInduction

\* Every step of the index is a step of the chain below it, or leaves it alone.
LEMMA IndexStep == [IndexNext]_vars => [Next]_chainVars
<1> SUFFICES ASSUME [IndexNext]_vars PROVE [Next]_chainVars
  OBVIOUS
<1>1. CASE Open \/ OpenRefused
  BY <1>1 DEF Open, OpenRefused, Next
<1>2. ASSUME NEW b \in Blocks, PushRefused(b) PROVE [Next]_chainVars
  BY <1>2 DEF PushRefused
<1>3. ASSUME NEW b \in Blocks, Pushable(b), PushAccepted(b)
      PROVE  [Next]_chainVars
  BY <1>3 DEF PushAccepted, Next
<1>4. CASE RevertTopBlock \/ InsertNewBlock \/ AddToChain \/ FinishPush \/ FinishOpen
  BY <1>4 DEF RevertTopBlock, InsertNewBlock, AddToChain, FinishPush, FinishOpen, Next
<1>5. CASE PushFails \/ InsertFails \/ Ends
  BY <1>5 DEF PushFails, InsertFails, Ends, Next
<1>6. CASE GetFees
  BY <1>6 DEF GetFees
<1>7. CASE UNCHANGED vars
  BY <1>7 DEF vars
<1> QED BY <1>1, <1>2, <1>3, <1>4, <1>5, <1>6, <1>7 DEF IndexNext

\* The index is a Blockchain, from whatever database and tables it opens.
THEOREM IndexerIsBlockchain == IndexSpec => Spec
<1>1. IndexInit => Init
  BY DEF IndexInit
<1> QED BY <1>1, IndexStep, PTL DEF IndexSpec, Spec

\* What Blockchain promises therefore holds while the tables are filled: the
\* statements on them that fail, and the readers that run on what is left.
THEOREM IndexerKeepsChainRight ==
    /\ IndexSpec => []TypeOK /\ []MapIsInverse /\ []NoLogicError
    /\ InitRows = {} /\ IndexSpec =>
          /\ []ServesOneLineage
          /\ []RestartRestoresChain
          /\ []NoOrphanRows
          /\ []StartupNeverRefused
          /\ DurableChain
BY IndexerIsBlockchain, TypeCorrect, MapInverts, NoInternalError, OneLineage,
   RestartRestores, NoOrphans, AlwaysStarts, ImplementsChainIndex, PTL

(***************************************************************************)
(* The cached fees.                                                        *)
(***************************************************************************)

\* No push is in progress when the process is down or idle, and the cache is
\* empty from the death of the process to the end of the constructor.
FeeInv ==
    /\ IInv
    /\ pc \in {"down", "refused", "idle"} => call = NoCall
    /\ pc \in {"down", "refused"} => fee_cache = NoFee
    /\ pc = "head" /\ call = NoCall => fee_cache = NoFee
    /\ FeeCacheIsFresh

LEMMA FeeStep == FeeInv /\ [IndexNext]_vars => FeeInv'
<1> SUFFICES ASSUME FeeInv, [IndexNext]_vars PROVE FeeInv'
  OBVIOUS
<1>1. IInv' /\ IInv
  BY IndexStep, NextIInv DEF FeeInv
<1>2. CASE Open \/ OpenRefused
  <2>1. /\ pc \in {"down", "refused"} /\ pc' \in {"idle", "head", "refused"}
        /\ UNCHANGED <<call, fee_cache>>
    BY <1>2 DEF Open, OpenRefused, cacheVars, StartEmpty, StartLoad, StartRefused
  <2>2. call' = NoCall /\ fee_cache' = NoFee
    BY <2>1 DEF FeeInv
  <2> QED BY <1>1, <2>1, <2>2 DEF FeeInv, FeeCacheIsFresh
<1>3. ASSUME NEW b \in Blocks, PushRefused(b) PROVE FeeInv'
  BY <1>1, <1>3 DEF PushRefused, FeeInv, FeeCacheIsFresh, chainVars
<1>4. ASSUME NEW b \in Blocks, PushAccepted(b) PROVE FeeInv'
  <2>1. pc' = "insert"
    BY <1>4 DEF PushAccepted, PushBegin
  <2> QED BY <1>1, <2>1 DEF FeeInv, FeeCacheIsFresh
<1>5. CASE RevertTopBlock \/ InsertNewBlock \/ PushFails \/ InsertFails
  <2>1. pc' \in {"insert", "logic_error", "add", "failed"}
    BY <1>5 DEF RevertTopBlock, RevertBlock, InsertNewBlock, InsertBlock,
                PushFails, Fail, InsertFails, FailInsert
  <2> QED BY <1>1, <2>1 DEF FeeInv, FeeCacheIsFresh
<1>6. CASE AddToChain
  <2>1. pc' \in {"logic_error", "head"} /\ call' = call /\ pc = "add"
    BY <1>6 DEF AddToChain, AddNewBlock
  <2>2. call' # NoCall
    BY <1>1, <2>1, NoCallAssumption DEF IInv, Pushing, Call, NoCallAssumption
  <2> QED BY <1>1, <2>1, <2>2 DEF FeeInv, FeeCacheIsFresh
<1>7. CASE FinishPush \/ FinishOpen
  <2>1. pc = "head" /\ pc' = "idle" /\ call' = NoCall
    BY <1>7 DEF FinishPush, FinishOpen, InsertHead
  <2>2. fee_cache' = NoFee
    BY <1>7, <2>1 DEF FinishPush, FinishOpen, cacheVars, FeeInv
  <2> QED BY <1>1, <2>1, <2>2 DEF FeeInv, FeeCacheIsFresh
<1>8. CASE Ends
  <2>1. pc' = "down" /\ call' = NoCall /\ fee_cache' = NoFee
    BY <1>8 DEF Ends, Exit, Stop, Crash, Die, Forget
  <2> QED BY <1>1, <2>1 DEF FeeInv, FeeCacheIsFresh
<1>9. CASE GetFees
  <2>1. /\ UNCHANGED <<blockchain, pc, call, db>>
        /\ pc \in {"idle", "failed"}
        /\ fee_cache' = fee_cache \/ fee_cache' = NormalFee(blockchain, db)
    BY <1>9 DEF GetFees, chainVars, tableVars
  <2>2. NormalFee(blockchain, db)' = NormalFee(blockchain, db)
    BY <2>1
  <2> QED BY <1>1, <2>1, <2>2 DEF FeeInv, FeeCacheIsFresh
<1>10. CASE UNCHANGED vars
  <2>1. UNCHANGED <<blockchain, pc, call, db, fee_cache>>
    BY <1>10 DEF vars, chainVars, tableVars, cacheVars
  <2> QED BY <1>1, <2>1 DEF FeeInv, FeeCacheIsFresh
<1> QED
  BY <1>2, <1>3, <1>4, <1>5, <1>6, <1>7, <1>8, <1>9, <1>10 DEF IndexNext

\* A cached fee is always the one a fresh computation would give, from whatever
\* database the index opens: no push leaves the cache of the chain before it.
THEOREM FeeCacheFresh == IndexSpec => []FeeCacheIsFresh
<1>1. IndexInit => FeeInv
  BY InitIInv DEF IndexInit, Init, FeeInv, FeeCacheIsFresh
<1>2. FeeInv => FeeCacheIsFresh
  BY DEF FeeInv
<1> QED BY <1>1, <1>2, FeeStep, PTL DEF IndexSpec

(***************************************************************************)
(* Sums.  The induction is over the subsets of a finite set, by the        *)
(* smallest one that is no good; `G` is the set of the good ones, since an *)
(* operator cannot be a parameter here.                                    *)
(***************************************************************************)

\* The equation a sum is defined by, as a function on the subsets of S.
Term(f, g, s) ==
    IF s = {} THEN 0
    ELSE LET x == CHOOSE y \in s : TRUE IN f[x] + g[s \ {x}]
Adds(f, g, S) == g = [s \in SUBSET S |-> Term(f, g, s)]

LEMMA SumIs ==
    ASSUME NEW f, NEW S
    PROVE  SumFunctionOnSet(f, S) = (CHOOSE g : Adds(f, g, S))[S]
BY DEF SumFunctionOnSet, FoldFunctionOnSet, MapThenFoldSet, Adds, Term

\* Induction over the subsets of a finite set.
LEMMA SubsetInduction ==
    ASSUME NEW S, IsFiniteSet(S), NEW G,
           \A T \in SUBSET S : (\A U \in SUBSET T : U # T => U \in G) => T \in G
    PROVE  S \in G
<1> DEFINE Bad == (SUBSET S) \ G
<1>1. SUFFICES ASSUME S \notin G PROVE FALSE
  OBVIOUS
<1>2. Bad \subseteq FiniteSubsetsOf(S) /\ Bad # {}
  <2>1. \A T \in SUBSET S : IsFiniteSet(T)
    BY FS_Subset
  <2> QED BY <1>1, <2>1 DEF FiniteSubsetsOf
<1>3. PICK T \in Bad : \A U \in Bad : <<U, T>> \notin StrictSubsetOrdering(S)
  <2> HIDE DEF Bad
  <2> QED BY <1>2, FS_StrictSubsetOrderingWellFounded, WFMin
<1>4. ASSUME NEW U \in SUBSET T, U # T PROVE U \in G
  BY <1>3, <1>4 DEF StrictSubsetOrdering
<1>5. T \in SUBSET S /\ T \notin G
  BY <1>3
<1>6. \A U \in SUBSET T : U # T => U \in G
  BY <1>4
<1> HIDE DEF Bad
<1> QED BY <1>5, <1>6

\* The sum over a finite set satisfies its equation.
LEMMA SumEquation ==
    ASSUME NEW f, NEW S, IsFiniteSet(S)
    PROVE  SumFunctionOnSet(f, S) =
              IF S = {} THEN 0
              ELSE LET x == CHOOSE y \in S : TRUE
                   IN  f[x] + SumFunctionOnSet(f, S \ {x})
<1> DEFINE Sum(T)  == SumFunctionOnSet(f, T)
           Then(T) == IF T = {} THEN 0
                      ELSE LET x == CHOOSE y \in T : TRUE IN f[x] + Sum(T \ {x})
           Good    == {T \in SUBSET S : Sum(T) = Then(T)}
<1>1. ASSUME NEW T \in SUBSET S, \A U \in SUBSET T : U # T => U \in Good
      PROVE  T \in Good
  <2> DEFINE g == [U \in SUBSET T |-> IF U = T THEN Then(T) ELSE Sum(U)]
             h == CHOOSE i : Adds(f, i, T)
  <2>0. ASSUME NEW U \in SUBSET T PROVE g[U] = Then(U)
    <3>1. U # T => Sum(U) = Then(U)
      BY <1>1
    <3> HIDE DEF Sum, Then
    <3> QED BY <3>1
  <2>1. ASSUME NEW U \in SUBSET T PROVE g[U] = Term(f, g, U)
    <3>1. CASE U = {}
      <4>1. g[U] = Then(U)
        BY <2>0
      <4> QED BY <3>1, <4>1 DEF Term
    <3>2. CASE U # {}
      <4> DEFINE x == CHOOSE y \in U : TRUE
      <4>1. x \in U
        BY <3>2
      <4>2. U \ {x} \in SUBSET T /\ U \ {x} # T
        BY <4>1
      <4>3. g[U \ {x}] = Sum(U \ {x})
        BY <4>2
      <4>4. g[U] = Then(U)
        BY <2>0
      <4> HIDE DEF g, Sum
      <4> QED BY <3>2, <4>3, <4>4 DEF Term
    <3> QED BY <3>1, <3>2
  <2>2. Adds(f, g, T)
    <3>1. g = [U \in SUBSET T |-> g[U]]
      OBVIOUS
    <3> HIDE DEF g
    <3> QED BY <2>1, <3>1 DEF Adds
  <2>3. Adds(f, h, T)
    <3> HIDE DEF g
    <3> QED BY <2>2
  <2>4. Sum(T) = h[T]
    BY SumIs
  <2>5. T \in SUBSET S /\ IsFiniteSet(T)
    BY FS_Subset
  <2> DEFINE Same == {U \in SUBSET T : h[U] = g[U]}
  <2>6. T \in Same
    <3>1. ASSUME NEW U \in SUBSET T, \A V \in SUBSET U : V # U => V \in Same
          PROVE  U \in Same
      <4>1. h[U] = Term(f, h, U)
        <5> HIDE DEF h
        <5> QED BY <2>3 DEF Adds
      <4>2. Term(f, h, U) = Term(f, g, U)
        <5>1. CASE U = {}
          BY <5>1 DEF Term
        <5>2. CASE U # {}
          <6> DEFINE x == CHOOSE y \in U : TRUE
          <6>1. x \in U
            BY <5>2
          <6>2. U \ {x} \in Same
            BY <3>1, <6>1
          <6>3. h[U \ {x}] = g[U \ {x}]
            BY <6>2
          <6> HIDE DEF g, h
          <6> QED BY <5>2, <6>3 DEF Term
        <5> QED BY <5>1, <5>2
      <4> HIDE DEF g, h
      <4> QED BY <2>1, <4>1, <4>2
    <3> HIDE DEF Same
    <3> QED BY <2>5, <3>1, SubsetInduction
  <2>7. g[T] = Then(T)
    OBVIOUS
  <2> HIDE DEF g, h, Sum, Then
  <2> QED BY <2>4, <2>6, <2>7
<1>2. S \in Good
  <2> HIDE DEF Good
  <2> QED BY <1>1, SubsetInduction
<1> QED BY <1>2

LEMMA SumEmpty ==
    ASSUME NEW f
    PROVE  SumFunctionOnSet(f, {}) = 0
BY FS_EmptySet, SumEquation

\* A sum of numbers is a number.
LEMMA SumType ==
    ASSUME NEW V, 0 \in V, \A x, y \in V : x + y \in V,
           NEW f, NEW S, IsFiniteSet(S), \A x \in S : f[x] \in V
    PROVE  SumFunctionOnSet(f, S) \in V
<1> DEFINE Good == {T \in SUBSET S : SumFunctionOnSet(f, T) \in V}
<1>1. ASSUME NEW T \in SUBSET S, \A U \in SUBSET T : U # T => U \in Good
      PROVE  T \in Good
  <2>1. CASE T = {}
    BY <2>1, SumEmpty
  <2>2. CASE T # {}
    <3> DEFINE x == CHOOSE y \in T : TRUE
    <3>1. x \in T
      BY <2>2
    <3>2. T \ {x} \in Good
      BY <1>1, <3>1
    <3>3. IsFiniteSet(T)
      BY FS_Subset
    <3>4. SumFunctionOnSet(f, T) = f[x] + SumFunctionOnSet(f, T \ {x})
      BY <2>2, <3>3, SumEquation
    <3> HIDE DEF x
    <3> QED BY <3>1, <3>2, <3>4
  <2> QED BY <2>1, <2>2
<1> HIDE DEF Good
<1>2. S \in Good
  BY <1>1, SubsetInduction
<1> QED BY <1>2 DEF Good

LEMMA SumNat ==
    ASSUME NEW f, NEW S, IsFiniteSet(S), \A x \in S : f[x] \in Nat
    PROVE  SumFunctionOnSet(f, S) \in Nat
<1>1. 0 \in Nat /\ \A x, y \in Nat : x + y \in Nat
  OBVIOUS
<1> QED BY <1>1, SumType

LEMMA SumInt ==
    ASSUME NEW f, NEW S, IsFiniteSet(S), \A x \in S : f[x] \in Int
    PROVE  SumFunctionOnSet(f, S) \in Int
<1>1. 0 \in Int /\ \A x, y \in Int : x + y \in Int
  OBVIOUS
<1> QED BY <1>1, SumType

\* Any term can be taken out of a sum, whatever the order of the addition.
LEMMA SumTake ==
    ASSUME NEW f, NEW S, IsFiniteSet(S), \A x \in S : f[x] \in Int,
           NEW z \in S
    PROVE  SumFunctionOnSet(f, S) = f[z] + SumFunctionOnSet(f, S \ {z})
<1> DEFINE Sum(T) == SumFunctionOnSet(f, T)
           Good == {T \in SUBSET S : \A y \in T : Sum(T) = f[y] + Sum(T \ {y})}
<1>1. ASSUME NEW T \in SUBSET S PROVE Sum(T) \in Int /\ IsFiniteSet(T)
  <2>1. IsFiniteSet(T)
    BY FS_Subset
  <2> QED BY <2>1, SumInt
<1>2. ASSUME NEW T \in SUBSET S, \A U \in SUBSET T : U # T => U \in Good
      PROVE  T \in Good
  <2> SUFFICES ASSUME NEW y \in T PROVE Sum(T) = f[y] + Sum(T \ {y})
    OBVIOUS
  <2> DEFINE x == CHOOSE w \in T : TRUE
  <2>1. x \in T
    OBVIOUS
  <2>2. Sum(T) = f[x] + Sum(T \ {x})
    BY <1>1, SumEquation
  <2> HIDE DEF x
  <2>3. CASE x = y
    BY <2>2, <2>3
  <2>4. CASE x # y
    <3> DEFINE rest == (T \ {x}) \ {y}
    <3>1. T \ {x} \in Good /\ T \ {y} \in Good
      BY <1>2, <2>1
    <3>2. y \in T \ {x} /\ x \in T \ {y} /\ (T \ {y}) \ {x} = rest
      BY <2>1, <2>4
    <3>3. Sum(T \ {x}) = f[y] + Sum(rest) /\ Sum(T \ {y}) = f[x] + Sum(rest)
      BY <3>1, <3>2
    <3>4. f[x] \in Int /\ f[y] \in Int /\ Sum(rest) \in Int
      <4>1. rest \in SUBSET S
        OBVIOUS
      <4> HIDE DEF rest, Sum
      <4> QED BY <1>1, <2>1, <4>1
    <3> HIDE DEF rest, Sum
    <3> QED BY <2>2, <3>3, <3>4
  <2> QED BY <2>3, <2>4
<1> HIDE DEF Good
<1>3. S \in Good
  BY <1>2, SubsetInduction
<1> QED BY <1>3 DEF Good

\* Two sums of the same terms are equal, in whatever order and under whatever
\* names they are added.
LEMMA SumRename ==
    ASSUME NEW f, NEW S, IsFiniteSet(S), \A x \in S : f[x] \in Int,
           NEW h, \A x, y \in S : h[x] = h[y] => x = y,
           NEW R, \A x \in S : h[x] \in R, \A y \in R : \E x \in S : h[x] = y,
           NEW g, \A x \in S : g[h[x]] = f[x]
    PROVE  SumFunctionOnSet(g, R) = SumFunctionOnSet(f, S)
<1> DEFINE To(T) == {h[x] : x \in T}
           Good == {T \in SUBSET S :
                       SumFunctionOnSet(g, To(T)) = SumFunctionOnSet(f, T)}
<1>1. ASSUME NEW T \in SUBSET S, \A U \in SUBSET T : U # T => U \in Good
      PROVE  T \in Good
  <2>1. CASE T = {}
    <3>1. To(T) = {}
      BY <2>1
    <3> HIDE DEF To
    <3> QED BY <2>1, <3>1, SumEmpty
  <2>2. CASE T # {}
    <3>1. PICK x : x \in T
      BY <2>2
    <3>2. T \ {x} \in Good
      BY <1>1, <3>1
    <3>3. To(T \ {x}) = To(T) \ {h[x]}
      BY <3>1
    <3>4. IsFiniteSet(T)
      BY FS_Subset
    <3>5. IsFiniteSet(To(T))
      <4> DEFINE on == [y \in T |-> h[y]]
      <4>1. on \in Surjection(T, To(T))
        BY DEF Surjection
      <4> HIDE DEF on, To
      <4> QED BY <3>4, <4>1, FS_Surjection
    <3>6. h[x] \in To(T)
      BY <3>1
    <3>7. \A y \in To(T) : g[y] \in Int
      OBVIOUS
    <3> HIDE DEF To
    <3>8. SumFunctionOnSet(g, To(T)) =
             g[h[x]] + SumFunctionOnSet(g, To(T) \ {h[x]})
      BY <3>5, <3>6, <3>7, SumTake
    <3>9. SumFunctionOnSet(f, T) = f[x] + SumFunctionOnSet(f, T \ {x})
      BY <3>1, <3>4, SumTake
    <3> QED BY <3>1, <3>2, <3>3, <3>8, <3>9
  <2> QED BY <2>1, <2>2
<1>2. S \in Good
  <2> HIDE DEF Good
  <2> QED BY <1>1, SubsetInduction
<1>3. To(S) = R
  OBVIOUS
<1>4. SumFunctionOnSet(g, To(S)) = SumFunctionOnSet(f, S)
  BY <1>2
<1> HIDE DEF To
<1> QED BY <1>3, <1>4

\* The sum over two sets with nothing in common.
LEMMA SumSplit ==
    ASSUME NEW f, NEW S, NEW R, IsFiniteSet(S), IsFiniteSet(R), S \cap R = {},
           \A x \in S \cup R : f[x] \in Int
    PROVE  SumFunctionOnSet(f, S \cup R) =
              SumFunctionOnSet(f, S) + SumFunctionOnSet(f, R)
<1> DEFINE Sum(T) == SumFunctionOnSet(f, T)
           Good == {T \in SUBSET S : Sum(T \cup R) = Sum(T) + Sum(R)}
<1>0. Sum(R) \in Int
  BY SumInt
<1>1. ASSUME NEW T \in SUBSET S, \A U \in SUBSET T : U # T => U \in Good
      PROVE  T \in Good
  <2>1. CASE T = {}
    <3>1. T \cup R = R /\ Sum(T) = 0
      BY <2>1, SumEmpty
    <3>2. Sum(T \cup R) = Sum(T) + Sum(R)
      <4> HIDE DEF Sum
      <4> QED BY <1>0, <3>1
    <3> QED BY <3>2
  <2>2. CASE T # {}
    <3>1. PICK x : x \in T
      BY <2>2
    <3>2. T \ {x} \in Good
      BY <1>1, <3>1
    <3>3. x \in S /\ x \notin R /\ (T \cup R) \ {x} = (T \ {x}) \cup R
      BY <3>1
    <3>4. IsFiniteSet(T)
      BY FS_Subset
    <3>5. IsFiniteSet(T \ {x})
      BY <3>4, FS_RemoveElement
    <3>6. IsFiniteSet(T \cup R)
      BY <3>4, FS_Union
    <3>7. Sum(T) = f[x] + Sum(T \ {x})
      BY <3>1, <3>4, SumTake
    <3>8. Sum(T \cup R) = f[x] + Sum((T \cup R) \ {x})
      <4> DEFINE all == T \cup R
      <4>1. x \in all /\ \A y \in all : f[y] \in Int
        BY <3>1
      <4> HIDE DEF all
      <4> QED BY <3>6, <4>1, SumTake DEF all
    <3>9. f[x] \in Int /\ Sum(T \ {x}) \in Int
      BY <3>3, <3>5, SumInt
    <3>10. Sum((T \ {x}) \cup R) = Sum(T \ {x}) + Sum(R)
      BY <3>2
    <3>11. Sum(T \cup R) = Sum(T) + Sum(R)
      <4>1. Sum(T \cup R) = f[x] + Sum((T \ {x}) \cup R)
        BY <3>3, <3>8
      <4> HIDE DEF Sum
      <4> QED BY <1>0, <3>7, <3>9, <3>10, <4>1
    <3> QED BY <3>11
  <2> QED BY <2>1, <2>2
<1> HIDE DEF Good
<1>2. S \in Good
  BY <1>1, SubsetInduction
<1> QED BY <1>2 DEF Good

\* A sum can be added up part by part: `at` says to which part a term belongs.
LEMMA SumByPart ==
    ASSUME NEW f, NEW S, IsFiniteSet(S), \A x \in S : f[x] \in Int,
           NEW A, IsFiniteSet(A), NEW at, \A x \in S : at[x] \in A,
           NEW part, \A a \in A : /\ part[a] \subseteq S
                                  /\ \A x \in S : x \in part[a] <=> at[x] = a,
           NEW g, \A a \in A : g[a] = SumFunctionOnSet(f, part[a])
    PROVE  SumFunctionOnSet(f, S) = SumFunctionOnSet(g, A)
<1> DEFINE In(B) == {x \in S : at[x] \in B}
           Of(a) == part[a]
           Good == {B \in SUBSET A :
                       SumFunctionOnSet(f, In(B)) = SumFunctionOnSet(g, B)}
<1>1. ASSUME NEW T \in SUBSET S
      PROVE  IsFiniteSet(T) /\ SumFunctionOnSet(f, T) \in Int
  <2>1. IsFiniteSet(T)
    BY FS_Subset
  <2> QED BY <2>1, SumInt
<1>2. \A a \in A : /\ g[a] = SumFunctionOnSet(f, Of(a)) /\ Of(a) \in SUBSET S
                  /\ \A x \in S : x \in Of(a) <=> at[x] = a
  OBVIOUS
<1> HIDE DEF Of
<1>3. \A a \in A : g[a] \in Int
  BY <1>1, <1>2
<1>4. ASSUME NEW B \in SUBSET A, \A C \in SUBSET B : C # B => C \in Good
      PROVE  B \in Good
  <2>1. CASE B = {}
    <3>1. In(B) = {}
      BY <2>1
    <3> HIDE DEF In
    <3> QED BY <2>1, <3>1, SumEmpty
  <2>2. CASE B # {}
    <3>1. PICK b : b \in B
      BY <2>2
    <3> DEFINE C == B \ {b}
    <3>2. SumFunctionOnSet(f, In(C)) = SumFunctionOnSet(g, C)
      <4>1. C \in Good
        BY <1>4, <3>1
      <4> QED BY <4>1
    <3>3. In(B) = In(C) \cup Of(b) /\ In(C) \cap Of(b) = {}
      BY <1>2, <3>1
    <3>4. In(C) \in SUBSET S /\ Of(b) \in SUBSET S
      BY <1>2, <3>1
    <3>5. IsFiniteSet(B)
      BY FS_Subset
    <3> HIDE DEF In, C
    <3>6. IsFiniteSet(In(C)) /\ IsFiniteSet(Of(b))
      BY <1>1, <3>4
    <3>7. \A x \in In(C) \cup Of(b) : f[x] \in Int
      BY <3>4
    <3>8. SumFunctionOnSet(f, In(C) \cup Of(b)) =
             SumFunctionOnSet(f, In(C)) + SumFunctionOnSet(f, Of(b))
      BY <3>3, <3>6, <3>7, SumSplit
    <3>9. SumFunctionOnSet(g, B) = g[b] + SumFunctionOnSet(g, C)
      BY <1>3, <3>1, <3>5, SumTake DEF C
    <3>10. SumFunctionOnSet(f, In(C)) \in Int /\ g[b] \in Int
      BY <1>1, <1>3, <3>1, <3>4
    <3>11. g[b] = SumFunctionOnSet(f, Of(b))
      BY <1>2, <3>1
    <3>12. SumFunctionOnSet(f, In(B)) =
              SumFunctionOnSet(f, In(C)) + SumFunctionOnSet(f, Of(b))
      BY <3>3, <3>8
    <3> QED BY <3>2, <3>9, <3>10, <3>11, <3>12
  <2> QED BY <2>1, <2>2
<1>5. A \in Good
  <2> HIDE DEF Good
  <2> QED BY <1>4, SubsetInduction
<1>6. In(A) = S
  OBVIOUS
<1> QED BY <1>5, <1>6

\* The sum of differences is the difference of the sums.
LEMMA SumMinus ==
    ASSUME NEW S, IsFiniteSet(S), NEW f, NEW g, NEW d,
           \A x \in S : f[x] \in Int /\ g[x] \in Int /\ d[x] = f[x] - g[x]
    PROVE  SumFunctionOnSet(d, S) =
              SumFunctionOnSet(f, S) - SumFunctionOnSet(g, S)
<1> DEFINE Good == {T \in SUBSET S :
                       SumFunctionOnSet(d, T) =
                          SumFunctionOnSet(f, T) - SumFunctionOnSet(g, T)}
<1>1. ASSUME NEW T \in SUBSET S, \A U \in SUBSET T : U # T => U \in Good
      PROVE  T \in Good
  <2>1. CASE T = {}
    BY <2>1, SumEmpty
  <2>2. CASE T # {}
    <3>1. PICK x : x \in T
      BY <2>2
    <3> DEFINE U == T \ {x}
    <3>2. SumFunctionOnSet(d, U) =
             SumFunctionOnSet(f, U) - SumFunctionOnSet(g, U)
      <4>1. U \in Good
        BY <1>1, <3>1
      <4> QED BY <4>1
    <3>3. IsFiniteSet(T)
      BY FS_Subset
    <3>4. IsFiniteSet(U)
      BY <3>3, FS_RemoveElement
    <3>5. \A y \in T : f[y] \in Int /\ g[y] \in Int /\ d[y] = f[y] - g[y]
      OBVIOUS
    <3>6. \A y \in T : d[y] \in Int
      BY <3>5
    <3>7. /\ SumFunctionOnSet(f, T) = f[x] + SumFunctionOnSet(f, U)
          /\ SumFunctionOnSet(g, T) = g[x] + SumFunctionOnSet(g, U)
          /\ SumFunctionOnSet(d, T) = d[x] + SumFunctionOnSet(d, U)
      BY <3>1, <3>3, <3>5, <3>6, SumTake
    <3>8. SumFunctionOnSet(f, U) \in Int /\ SumFunctionOnSet(g, U) \in Int
      BY <3>4, <3>5, SumInt
    <3> HIDE DEF U
    <3> QED BY <3>1, <3>2, <3>5, <3>7, <3>8
  <2> QED BY <2>1, <2>2
<1>2. S \in Good
  <2> HIDE DEF Good
  <2> QED BY <1>1, SubsetInduction
<1> QED BY <1>2

\* Terms of one or more add up to their number or more.
LEMMA SumAtLeast ==
    ASSUME NEW f, NEW S, IsFiniteSet(S), \A x \in S : f[x] \in Nat \ {0}
    PROVE  SumFunctionOnSet(f, S) >= Cardinality(S)
<1> DEFINE Good == {T \in SUBSET S : SumFunctionOnSet(f, T) >= Cardinality(T)}
<1>1. ASSUME NEW T \in SUBSET S, \A U \in SUBSET T : U # T => U \in Good
      PROVE  T \in Good
  <2>1. CASE T = {}
    BY <2>1, SumEmpty, FS_EmptySet
  <2>2. CASE T # {}
    <3>1. PICK x : x \in T
      BY <2>2
    <3> DEFINE U == T \ {x}
    <3>2. SumFunctionOnSet(f, U) >= Cardinality(U)
      <4>1. U \in Good
        BY <1>1, <3>1
      <4> QED BY <4>1
    <3>3. IsFiniteSet(T)
      BY FS_Subset
    <3>4. /\ IsFiniteSet(U) /\ Cardinality(U) = Cardinality(T) - 1
          /\ Cardinality(T) \in Nat
      BY <3>1, <3>3, FS_RemoveElement, FS_CardinalityType
    <3>5. SumFunctionOnSet(f, T) = f[x] + SumFunctionOnSet(f, U)
      BY <3>1, <3>3, SumTake
    <3>6. SumFunctionOnSet(f, U) \in Nat
      BY <3>4, SumNat
    <3> HIDE DEF U
    <3> QED BY <3>1, <3>2, <3>4, <3>5, <3>6
  <2> QED BY <2>1, <2>2
<1>2. S \in Good
  <2> HIDE DEF Good
  <2> QED BY <1>1, SubsetInduction
<1> QED BY <1>2

=============================================================================
