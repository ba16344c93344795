---------------------------- MODULE BridgeProofs ----------------------------
(***************************************************************************)
(* Proofs about module Bridge, for any number of chains, accounts, amounts *)
(* and messages: that it is type correct, and so that no holder of any     *)
(* contract, the escrow included, ever owes what it does not have.         *)
(***************************************************************************)
EXTENDS Bridge, Integers, FiniteSetTheorems, NaturalsInduction, WellFoundedInduction, TLAPS

-----------------------------------------------------------------------------
(* Sums over finite sets, as module Functions defines them *)

\* Induction: a set of numbers with zero and all successors has all numbers.
LEMMA NumbersByInduction ==
    ASSUME NEW X \in SUBSET Nat, 0 \in X, \A n \in X : n + 1 \in X
    PROVE  Nat = X
<1> SUFFICES ASSUME NEW k \in Nat \ X
             PROVE  FALSE
  OBVIOUS
<1> DEFINE Below == {p \in Nat \X Nat : p[1] < p[2]}
           T == Nat \ X
<1>1. IsWellFoundedOn(Below, Nat)
  BY NatLessThanWellFounded DEF OpToRel
<1>2. PICK n \in T : \A m \in T : <<m, n>> \notin Below
  <2>1. T \subseteq Nat /\ T # {}
    OBVIOUS
  <2> HIDE DEF Below, T
  <2>2. QED
    BY <1>1, <2>1, WFMin
<1>3. n - 1 \in Nat
  BY <1>2
<1>4. n - 1 \notin T
  <2>1. SUFFICES ASSUME n - 1 \in T
                 PROVE  FALSE
    OBVIOUS
  <2>2. <<n - 1, n>> \notin Below
    BY <1>2, <2>1
  <2>3. n \in Nat /\ n - 1 \in Nat /\ n - 1 < n
    BY <1>2, <1>3
  <2>4. QED
    BY <2>2, <2>3
<1>5. QED
  BY <1>2, <1>3, <1>4

\* The element a fold takes out of a set first
Chosen(s) == CHOOSE x \in s : TRUE

\* A set without its first element is smaller.
LEMMA Peel ==
    ASSUME NEW s, IsFiniteSet(s), s # {}
    PROVE  /\ Chosen(s) \in s
           /\ IsFiniteSet(s \ {Chosen(s)})
           /\ Cardinality(s \ {Chosen(s)}) + 1 = Cardinality(s)
           /\ Cardinality(s) \in Nat
<1>1. Chosen(s) \in s
  BY DEF Chosen
<1> HIDE DEF Chosen
<1>2. Cardinality(s) \in Nat
  BY FS_CardinalityType
<1>3. IsFiniteSet(s \ {Chosen(s)}) /\ Cardinality(s \ {Chosen(s)}) = Cardinality(s) - 1
  BY <1>1, FS_RemoveElement
<1>4. QED
  BY <1>1, <1>2, <1>3

\* Induction: what holds of a set if it holds of all its smaller parts holds of
\* all parts of a finite set.
LEMMA SetsByInduction ==
    ASSUME NEW S, IsFiniteSet(S), NEW Good,
           \A s \in SUBSET S : (\A t \in SUBSET s : t # s => t \in Good) => s \in Good
    PROVE  SUBSET S \subseteq Good
<1> SUFFICES ASSUME NEW u \in SUBSET S, u \notin Good
             PROVE  FALSE
  OBVIOUS
<1> DEFINE T == (SUBSET S) \ Good
<1>1. IsWellFoundedOn(StrictSubsetOrdering(S), SUBSET S)
  <2>1. IsWellFoundedOn(StrictSubsetOrdering(S), FiniteSubsetsOf(S))
    BY FS_StrictSubsetOrderingWellFounded
  <2>2. FiniteSubsetsOf(S) = SUBSET S
    BY FS_FiniteSubsetsOfFinite
  <2>3. QED
    BY ONLY <2>1, <2>2, Zenon
<1>2. PICK s \in T : \A t \in T : <<t, s>> \notin StrictSubsetOrdering(S)
  <2>1. T \subseteq SUBSET S /\ T # {}
    OBVIOUS
  <2> HIDE DEF T
  <2>2. QED
    BY <1>1, <2>1, WFMin
<1>3. ASSUME NEW t \in SUBSET s, t # s
      PROVE  t \in Good
  <2>1. <<t, s>> \in StrictSubsetOrdering(S)
    BY <1>2, <1>3 DEF StrictSubsetOrdering
  <2>2. QED
    BY <1>2, <2>1
<1>4. QED
  BY <1>2, <1>3

\* g adds up the values of f over the sets of D.
Adds(g, f, D) ==
    g = [s \in D |-> IF s = {} THEN 0 ELSE f[Chosen(s)] + g[s \ {Chosen(s)}]]

\* What SumFunctionOnSet is, its definitions expanded
LEMMA SumUnfold ==
    ASSUME NEW f, NEW S
    PROVE  SumFunctionOnSet(f, S) = (CHOOSE g : Adds(g, f, SUBSET S))[S]
  BY DEF SumFunctionOnSet, FoldFunctionOnSet, MapThenFoldSet, Adds, Chosen

\* There is such a g over all parts of a finite set.
LEMMA SumsExist ==
    ASSUME NEW f, NEW S, IsFiniteSet(S)
    PROVE  \E g : Adds(g, f, SUBSET S)
<1> DEFINE Upto(n) == {s \in SUBSET S : Cardinality(s) <= n}
           X == {n \in Nat : \E g : Adds(g, f, Upto(n))}
<1>1. \A s \in SUBSET S : IsFiniteSet(s) /\ Cardinality(s) \in Nat
  BY FS_Subset, FS_CardinalityType
<1>2. 0 \in X
  <2>1. \A s \in Upto(0) : s = {}
    BY <1>1, FS_EmptySet
  <2>2. Adds([s \in Upto(0) |-> 0], f, Upto(0))
    BY <2>1 DEF Adds
  <2>3. QED
    BY <2>2
<1>3. ASSUME NEW n \in X
      PROVE  n + 1 \in X
  <2>1. PICK g : Adds(g, f, Upto(n))
    OBVIOUS
  <2>2. \A s \in Upto(n + 1) : s # {} => s \ {Chosen(s)} \in Upto(n)
    BY <1>1, Peel
  <2>3. \A s \in Upto(n) : s \in Upto(n + 1)
    BY <1>1
  <2> DEFINE h == [s \in Upto(n + 1) |-> IF s = {} THEN 0 ELSE f[Chosen(s)] + g[s \ {Chosen(s)}]]
  <2> HIDE DEF Upto
  <2>4. \A s \in Upto(n) : h[s] = g[s]
    BY <2>1, <2>3 DEF Adds
  <2>5. Adds(h, f, Upto(n + 1))
    BY <2>2, <2>4 DEF Adds
  <2> HIDE DEF h
  <2>6. QED
    BY <2>5
<1>4. Cardinality(S) \in X
  <2>1. Cardinality(S) \in Nat
    BY FS_CardinalityType
  <2>2. X \in SUBSET Nat
    OBVIOUS
  <2> HIDE DEF X
  <2>3. QED
    BY <1>2, <1>3, <2>1, <2>2, NumbersByInduction
<1>5. Upto(Cardinality(S)) = SUBSET S
  BY FS_Subset
<1>6. QED
  BY <1>4, <1>5

\* Two such functions agree where both are defined.
LEMMA SumsAgree ==
    ASSUME NEW f, NEW g, NEW h, NEW S, NEW T \in SUBSET S,
           IsFiniteSet(S), Adds(g, f, SUBSET S), Adds(h, f, SUBSET T)
    PROVE  g[T] = h[T]
<1> DEFINE Good == {s \in SUBSET T : g[s] = h[s]}
<1>1. IsFiniteSet(T)
  BY FS_Subset
<1>2. ASSUME NEW s \in SUBSET T, \A t \in SUBSET s : t # s => t \in Good
      PROVE  s \in Good
  <2>1. g[s] = h[s]
    <3>1. CASE s = {}
      BY <3>1 DEF Adds
    <3>2. CASE s # {}
      <4> DEFINE r == s \ {Chosen(s)}
      <4>1. IsFiniteSet(s)
        BY <1>1, FS_Subset
      <4>2. r \in SUBSET s /\ r # s
        BY <3>2, <4>1, Peel
      <4>3. g[r] = h[r]
        BY <1>2, <4>2
      <4>4. g[s] = f[Chosen(s)] + g[r] /\ h[s] = f[Chosen(s)] + h[r]
        BY <3>2 DEF Adds
      <4>5. QED
        BY <4>3, <4>4
    <3>3. QED
      BY <3>1, <3>2
  <2>2. QED
    BY <2>1
<1> HIDE DEF Good
<1>3. SUBSET T \subseteq Good
  BY <1>1, <1>2, SetsByInduction
<1>4. QED
  BY <1>3 DEF Good

\* The sum over a finite set is nothing, or its first value and the sum over the rest.
LEMMA SumEquation ==
    ASSUME NEW f, NEW S, IsFiniteSet(S)
    PROVE  SumFunctionOnSet(f, S) =
              IF S = {} THEN 0 ELSE f[Chosen(S)] + SumFunctionOnSet(f, S \ {Chosen(S)})
<1> DEFINE R == S \ {Chosen(S)}
<1>1. IsFiniteSet(R) /\ R \in SUBSET S
  BY FS_Subset
<1>2. PICK g : Adds(g, f, SUBSET S) /\ SumFunctionOnSet(f, S) = g[S]
  BY SumsExist, SumUnfold
<1> HIDE DEF R
<1>3. PICK h : Adds(h, f, SUBSET R) /\ SumFunctionOnSet(f, R) = h[R]
  BY <1>1, SumsExist, SumUnfold
<1>4. g[R] = h[R]
  BY <1>1, <1>2, <1>3, SumsAgree
<1>5. g[S] = IF S = {} THEN 0 ELSE f[Chosen(S)] + g[R]
  BY <1>2 DEF Adds, R
<1>6. QED
  BY <1>2, <1>3, <1>4, <1>5 DEF R

\* The two cases of the equation
LEMMA SumEmpty ==
    ASSUME NEW f
    PROVE  SumFunctionOnSet(f, {}) = 0
  BY SumEquation, FS_EmptySet

LEMMA SumPeel ==
    ASSUME NEW f, NEW S, IsFiniteSet(S), S # {}
    PROVE  /\ SumFunctionOnSet(f, S) = f[Chosen(S)] + SumFunctionOnSet(f, S \ {Chosen(S)})
           /\ Chosen(S) \in S
           /\ IsFiniteSet(S \ {Chosen(S)})
  BY SumEquation, Peel

\* A sum of integers is one.
LEMMA SumIsInt ==
    ASSUME NEW f, NEW S, IsFiniteSet(S), \A x \in S : f[x] \in Int
    PROVE  SumFunctionOnSet(f, S) \in Int
<1> DEFINE Good == {s \in SUBSET S : SumFunctionOnSet(f, s) \in Int}
<1>1. ASSUME NEW s \in SUBSET S, \A t \in SUBSET s : t # s => t \in Good
      PROVE  s \in Good
  <2>1. CASE s = {}
    BY <2>1, SumEmpty
  <2>2. CASE s # {}
    <3> DEFINE c == Chosen(s)
    <3>1. IsFiniteSet(s)
      BY FS_Subset
    <3>2. c \in s /\ SumFunctionOnSet(f, s) = f[c] + SumFunctionOnSet(f, s \ {c})
      BY <2>2, <3>1, SumPeel
    <3> HIDE DEF c
    <3>3. SumFunctionOnSet(f, s \ {c}) \in Int
      BY <1>1, <3>2
    <3>4. QED
      BY <3>2, <3>3
  <2>3. QED
    BY <2>1, <2>2
<1> HIDE DEF Good
<1>2. SUBSET S \subseteq Good
  BY <1>1, SetsByInduction
<1>3. QED
  BY <1>2 DEF Good

\* Equal values have equal sums.
LEMMA SumSame ==
    ASSUME NEW f, NEW g, NEW S, IsFiniteSet(S), \A x \in S : f[x] = g[x]
    PROVE  SumFunctionOnSet(f, S) = SumFunctionOnSet(g, S)
<1> DEFINE Good == {s \in SUBSET S : SumFunctionOnSet(f, s) = SumFunctionOnSet(g, s)}
<1>1. ASSUME NEW s \in SUBSET S, \A t \in SUBSET s : t # s => t \in Good
      PROVE  s \in Good
  <2>1. CASE s = {}
    BY <2>1, SumEmpty
  <2>2. CASE s # {}
    <3> DEFINE c == Chosen(s)
    <3>1. IsFiniteSet(s)
      BY FS_Subset
    <3>2. /\ c \in s
          /\ SumFunctionOnSet(f, s) = f[c] + SumFunctionOnSet(f, s \ {c})
          /\ SumFunctionOnSet(g, s) = g[c] + SumFunctionOnSet(g, s \ {c})
      BY <2>2, <3>1, SumPeel
    <3> HIDE DEF c
    <3>3. SumFunctionOnSet(f, s \ {c}) = SumFunctionOnSet(g, s \ {c})
      BY <1>1, <3>2
    <3>4. QED
      BY <3>2, <3>3
  <2>3. QED
    BY <2>1, <2>2
<1> HIDE DEF Good
<1>2. SUBSET S \subseteq Good
  BY <1>1, SetsByInduction
<1>3. QED
  BY <1>2 DEF Good

\* Any element, not only the first, can be taken out of a sum.
LEMMA SumTakeOut ==
    ASSUME NEW f, NEW S, IsFiniteSet(S), \A x \in S : f[x] \in Int, NEW a \in S
    PROVE  SumFunctionOnSet(f, S) = f[a] + SumFunctionOnSet(f, S \ {a})
<1> DEFINE Sum(s) == SumFunctionOnSet(f, s)
           Good == {s \in SUBSET S : \A x \in s : Sum(s) = f[x] + Sum(s \ {x})}
<1>1. ASSUME NEW s \in SUBSET S, \A t \in SUBSET s : t # s => t \in Good
      PROVE  s \in Good
  <2>1. SUFFICES ASSUME NEW x \in s
                 PROVE  Sum(s) = f[x] + Sum(s \ {x})
    OBVIOUS
  <2> DEFINE c == Chosen(s)
  <2>2. IsFiniteSet(s)
    BY FS_Subset
  <2>3. c \in s /\ Sum(s) = f[c] + Sum(s \ {c})
    BY <2>2, SumPeel
  <2> HIDE DEF c
  <2>4. CASE c = x
    BY <2>3, <2>4
  <2>5. CASE c # x
    <3> DEFINE r == s \ {c, x}
    <3>1. s \ {c} \in Good /\ s \ {x} \in Good
      BY <1>1, <2>3
    <3>2. (s \ {c}) \ {x} = r /\ (s \ {x}) \ {c} = r /\ x \in s \ {c} /\ c \in s \ {x}
      BY <2>3, <2>5
    <3>3. Sum(s \ {c}) = f[x] + Sum(r) /\ Sum(s \ {x}) = f[c] + Sum(r)
      BY <3>1, <3>2
    <3>4. Sum(r) \in Int
      <4>1. IsFiniteSet(r) /\ \A y \in r : f[y] \in Int
        BY <2>2, FS_Subset
      <4>2. QED
        BY <4>1, SumIsInt
    <3>5. f[x] \in Int /\ f[c] \in Int
      BY <2>3
    <3> HIDE DEF Sum, r
    <3>6. QED
      BY <2>3, <3>3, <3>4, <3>5
  <2>6. QED
    BY <2>4, <2>5
<1> HIDE DEF Good
<1>2. SUBSET S \subseteq Good
  BY <1>1, SetsByInduction
<1>3. QED
  BY <1>2 DEF Good

\* What a sum becomes when one of its elements comes, goes or changes.
LEMMA SumChange ==
    ASSUME NEW f, NEW g, NEW S, NEW T, IsFiniteSet(S), IsFiniteSet(T), NEW a,
           S \ {a} = T \ {a},
           \A x \in S : f[x] \in Int,
           \A x \in T : g[x] \in Int,
           \A x \in S \ {a} : g[x] = f[x]
    PROVE  SumFunctionOnSet(g, T) = SumFunctionOnSet(f, S)
              + (IF a \in T THEN g[a] ELSE 0) - (IF a \in S THEN f[a] ELSE 0)
<1> DEFINE r == S \ {a}
           before == SumFunctionOnSet(f, S)
           after == SumFunctionOnSet(g, T)
           rest == SumFunctionOnSet(f, r)
<1>1. IsFiniteSet(r)
  BY FS_Subset
<1>2. rest \in Int
  BY <1>1, SumIsInt
<1>3. SumFunctionOnSet(g, r) = rest
  BY <1>1, SumSame
<1>4. before = rest + (IF a \in S THEN f[a] ELSE 0)
  <2>1. CASE a \in S
    <3>1. before = f[a] + rest
      BY <2>1, SumTakeOut
    <3>2. f[a] \in Int
      BY <2>1
    <3> HIDE DEF before, rest
    <3>3. QED
      BY <1>2, <2>1, <3>1, <3>2
  <2>2. CASE a \notin S
    <3>1. r = S
      BY <2>2
    <3>2. QED
      BY <1>2, <2>2, <3>1
  <2>3. QED
    BY <2>1, <2>2
<1>5. after = rest + (IF a \in T THEN g[a] ELSE 0)
  <2>1. CASE a \in T
    <3>1. after = g[a] + SumFunctionOnSet(g, T \ {a})
      BY <2>1, SumTakeOut
    <3>2. g[a] \in Int /\ T \ {a} = r
      BY <2>1
    <3>3. after = g[a] + rest
      BY <1>3, <3>1, <3>2
    <3> HIDE DEF after, rest
    <3>4. QED
      BY <1>2, <2>1, <3>2, <3>3
  <2>2. CASE a \notin T
    <3>1. r = T
      BY <2>2
    <3>2. after = rest
      BY <1>3, <3>1
    <3> HIDE DEF after, rest
    <3>3. QED
      BY <1>2, <2>2, <3>2
  <2>3. QED
    BY <2>1, <2>2
<1>6. (a \in S => f[a] \in Int) /\ (a \in T => g[a] \in Int)
  OBVIOUS
<1> HIDE DEF before, after, rest
<1>7. QED
  <2>1. after = before + (IF a \in T THEN g[a] ELSE 0) - (IF a \in S THEN f[a] ELSE 0)
    BY <1>2, <1>4, <1>5, <1>6
  <2>2. QED
    BY <2>1 DEF before, after

\* A sum of numbers is one, and a sum of some positive numbers is positive.
LEMMA SumIsNat ==
    ASSUME NEW f, NEW S, IsFiniteSet(S), \A x \in S : f[x] \in Nat
    PROVE  SumFunctionOnSet(f, S) \in Nat
<1> DEFINE Good == {s \in SUBSET S : SumFunctionOnSet(f, s) \in Nat}
<1>1. ASSUME NEW s \in SUBSET S, \A t \in SUBSET s : t # s => t \in Good
      PROVE  s \in Good
  <2>1. CASE s = {}
    BY <2>1, SumEmpty
  <2>2. CASE s # {}
    <3> DEFINE c == Chosen(s)
    <3>1. IsFiniteSet(s)
      BY FS_Subset
    <3>2. c \in s /\ SumFunctionOnSet(f, s) = f[c] + SumFunctionOnSet(f, s \ {c})
      BY <2>2, <3>1, SumPeel
    <3> HIDE DEF c
    <3>3. SumFunctionOnSet(f, s \ {c}) \in Nat
      BY <1>1, <3>2
    <3>4. QED
      BY <3>2, <3>3
  <2>3. QED
    BY <2>1, <2>2
<1> HIDE DEF Good
<1>2. SUBSET S \subseteq Good
  BY <1>1, SetsByInduction
<1>3. QED
  BY <1>2 DEF Good

LEMMA SumIsPositive ==
    ASSUME NEW f, NEW S, IsFiniteSet(S), S # {}, \A x \in S : f[x] \in Nat /\ f[x] > 0
    PROVE  SumFunctionOnSet(f, S) > 0
<1>1. PICK a \in S : TRUE
  OBVIOUS
<1>2. SumFunctionOnSet(f, S) = f[a] + SumFunctionOnSet(f, S \ {a})
  BY SumTakeOut
<1>3. SumFunctionOnSet(f, S \ {a}) \in Nat
  <2>1. IsFiniteSet(S \ {a})
    BY FS_Subset
  <2>2. QED
    BY <2>1, SumIsNat
<1>4. QED
  BY <1>2, <1>3

\* A sum of nothing but zeros
LEMMA SumOfZeros ==
    ASSUME NEW f, NEW S, IsFiniteSet(S), \A x \in S : f[x] = 0
    PROVE  SumFunctionOnSet(f, S) = 0
<1> DEFINE Good == {s \in SUBSET S : SumFunctionOnSet(f, s) = 0}
<1>1. ASSUME NEW s \in SUBSET S, \A t \in SUBSET s : t # s => t \in Good
      PROVE  s \in Good
  <2>1. CASE s = {}
    BY <2>1, SumEmpty
  <2>2. CASE s # {}
    <3> DEFINE c == Chosen(s)
    <3>1. IsFiniteSet(s)
      BY FS_Subset
    <3>2. c \in s /\ SumFunctionOnSet(f, s) = f[c] + SumFunctionOnSet(f, s \ {c})
      BY <2>2, <3>1, SumPeel
    <3> HIDE DEF c
    <3>3. SumFunctionOnSet(f, s \ {c}) = 0
      BY <1>1, <3>2
    <3>4. QED
      BY <3>2, <3>3
  <2>3. QED
    BY <2>1, <2>2
<1> HIDE DEF Good
<1>2. SUBSET S \subseteq Good
  BY <1>1, SetsByInduction
<1>3. QED
  BY <1>2 DEF Good

-----------------------------------------------------------------------------
(* The invariant *)

Balances == [Domains -> [Contracts -> [Holders -> Nat]]]

MessageBag(B) == IsABag(B) /\ BagToSet(B) \subseteq Message

\* Where the registry names a representation, the token has one, and what the
\* token has is named; on the token's own chain there is none.
Represented ==
    /\ \A d \in Domains : known[d] # {} \/ canonical[d] # NoToken => canonical[d] \in known[d]
    /\ known[Origin] = {}

IInv ==
    /\ TypeOK
    /\ calls \in [{"send", "fill", "owner"} -> Nat]
    /\ Represented

-----------------------------------------------------------------------------
(* Bags of messages *)

\* Sending adds a message to a bag.
LEMMA BagAdd ==
    ASSUME NEW B, MessageBag(B), NEW m \in Message
    PROVE  MessageBag(B (+) One(m))
  BY DEF MessageBag, One, IsABag, BagToSet, SetToBag, (+)

\* A step that sends nothing else adds the empty bag.
LEMMA BagAddNone ==
    ASSUME NEW B, MessageBag(B)
    PROVE  MessageBag(B (+) EmptyBag)
  BY DEF MessageBag, EmptyBag, IsABag, BagToSet, SetToBag, (+)

\* Delivery takes a message out of a bag.
LEMMA BagRemove ==
    ASSUME NEW B, MessageBag(B), NEW m
    PROVE  MessageBag(B (-) One(m))
  BY DEF MessageBag, One, IsABag, BagToSet, SetToBag, (-)

-----------------------------------------------------------------------------
(* Tokens *)

\* Minting leaves balances that are numbers.
LEMMA MintedTyped ==
    ASSUME NEW b \in Balances, NEW d \in Domains, NEW c \in Contracts, NEW h \in Holders, NEW x \in Nat
    PROVE  Minted(b, d, c, h, x) \in Balances
  BY DEF Minted, Balances

\* What is burnt must be covered.
LEMMA BurntTyped ==
    ASSUME NEW b \in Balances, NEW d \in Domains, NEW c \in Contracts, NEW h \in Holders, NEW x \in Nat,
           Covers(b, d, c, h, x)
    PROVE  Burnt(b, d, c, h, x) \in Balances
  BY DEF Burnt, Balances, Covers

\* What is moved must be covered.
LEMMA MovedTyped ==
    ASSUME NEW b \in Balances, NEW d \in Domains, NEW c \in Contracts, NEW h \in Holders,
           NEW k \in Holders, NEW x \in Nat, Covers(b, d, c, h, x)
    PROVE  Moved(b, d, c, h, k, x) \in Balances
  BY MintedTyped, BurntTyped DEF Moved

\* What remains after the fee is a number.
LEMMA FeeTyped ==
    ASSUME NEW x \in Nat
    PROVE  AfterFee(x) \in Nat
  BY DEF AfterFee

\* A call is counted, and made only while the bound allows it.
LEMMA CallTyped ==
    ASSUME IInv, NEW k \in {"send", "fill", "owner"}, Call(k)
    PROVE  /\ calls' \in [{"send", "fill", "owner"} -> Nat]
           /\ \A j \in DOMAIN MaxCalls : calls'[j] \in 0..MaxCalls[j]
  BY BridgeAssumption DEF Call, IInv, TypeOK

\* The messages routers send are messages.
LEMMA SentAreMessages ==
    ASSUME NEW d \in Domains, NEW e \in Domains
    PROVE  /\ RequestDetails(d, e) \in Message /\ Details(d, e) \in Message
           /\ \A r \in Accounts \cup {Nobody}, x \in Amounts : Transfer(d, e, r, x) \in Message
  BY DEF RequestDetails, Details, Transfer, Message, Transfers

\* What is under way on a transfer
LEMMA ReadMessage ==
    ASSUME NEW m \in Message
    PROVE  /\ m.to \in Domains /\ m.from \in Domains
           /\ m.action = "transfer" =>
                 m.transfer \in Transfers /\ m.transfer.amount \in Nat
  BY BridgeAssumption DEF Message, Transfers

-----------------------------------------------------------------------------
(* The invariant is kept *)

\* The initial state satisfies the invariant.
LEMMA InitInvariant == Init => IInv
<1> SUFFICES ASSUME Init
             PROVE  IInv
  OBVIOUS
<1>1. balance \in [Domains -> [Contracts -> [Holders -> Nat]]]
  BY BridgeAssumption DEF Init, Holders
<1>2. IsABag(inflight) /\ BagToSet(inflight) \subseteq Message
  BY DEF Init, EmptyBag, IsABag, BagToSet, SetToBag
<1>3. \A k \in DOMAIN MaxCalls : calls[k] \in 0..MaxCalls[k]
  BY BridgeAssumption DEF Init
<1>4. calls \in [{"send", "fill", "owner"} -> Nat] /\ Represented
  BY BridgeAssumption DEF Init, Represented
<1>5. TypeOK
  BY <1>1, <1>2, <1>3 DEF Init, TypeOK
<1>6. QED
  BY <1>4, <1>5 DEF IInv

\* Accounts and the owner call a router.
LEMMA CallsKeep ==
    ASSUME IInv, Next, ~\E m \in BagToSet(inflight) : Process(m)
    PROVE  IInv'
<1> USE DEF registry
<1>0. /\ balance \in Balances /\ MessageBag(inflight)
      /\ Accounts \subseteq Holders /\ Router \in Holders
  BY DEF IInv, TypeOK, Balances, MessageBag, Holders
<1>1. ASSUME NEW d \in Domains, NEW e \in Domains, NEW c \in Contracts, NEW a \in Accounts,
             NEW x \in Amounts, NEW r \in Accounts \cup {Nobody}, Send(d, c, a, x, e, r)
      PROVE  IInv'
  <2>1. a \in Holders /\ Router \in Holders /\ x \in Nat
    BY <1>0, BridgeAssumption
  <2>2. Covers(balance, d, c, a, x) /\ Call("send")
    BY <1>1 DEF Send
  <2>3. Moved(balance, d, c, a, Router, x) \in Balances /\ Burnt(balance, d, c, a, x) \in Balances
    BY <1>0, <2>1, <2>2, MovedTyped, BurntTyped
  <2>4. balance' \in Balances
    BY <1>1, <2>3 DEF Send
  <2>5. MessageBag(inflight')
    BY <1>0, <1>1, SentAreMessages, BagAdd DEF Send
  <2>6. UNCHANGED <<canonical, known, provider, named, remotes, lost, steady>>
    BY <1>1 DEF Send
  <2>7. TypeOK' /\ calls' \in [{"send", "fill", "owner"} -> Nat]
    BY <2>2, <2>4, <2>5, <2>6, CallTyped DEF IInv, TypeOK, Balances, MessageBag
  <2>8. QED
    BY <2>6, <2>7 DEF IInv, Represented
<1>2. ASSUME NEW a \in Accounts, NEW t \in Transfers, PreFill(a, t)
      PROVE  IInv'
  <2> DEFINE c == TokenAddress(t.to)
  <2>1. t.to \in Domains /\ t.recipient \in Accounts /\ t.amount \in Nat
    BY <1>2, BridgeAssumption DEF PreFill, Transfers
  <2>2. c \in Contracts
    BY <1>2, <2>1 DEF PreFill, TokenAddress, Contracts, IInv, TypeOK
  <2> HIDE DEF c
  <2>3. Covers(balance, t.to, c, a, AfterFee(t.amount)) /\ Call("fill")
    BY <1>2 DEF PreFill, c
  <2>4. balance' = Moved(balance, t.to, c, a, t.recipient, AfterFee(t.amount))
    BY <1>2 DEF PreFill, c
  <2>5. balance' \in Balances
    BY <1>0, <2>1, <2>2, <2>3, <2>4, FeeTyped, MovedTyped
  <2>6. /\ provider' = [provider EXCEPT ![t] = a]
        /\ UNCHANGED <<canonical, known, named, remotes, inflight, lost, steady>>
    BY <1>2 DEF PreFill
  <2>7. TypeOK' /\ calls' \in [{"send", "fill", "owner"} -> Nat]
    BY <2>3, <2>5, <2>6, CallTyped DEF IInv, TypeOK, Balances
  <2>8. QED
    BY <2>6, <2>7 DEF IInv, Represented
<1>3. ASSUME NEW d \in Domains, NEW c \in Contracts, EnrollCustom(d, c)
      PROVE  IInv'
  <2>1. /\ Call("owner") /\ d # Origin /\ c \in {Default, Custom}
        /\ known' = [known EXCEPT ![d] = @ \cup {c}]
        /\ canonical' = [canonical EXCEPT ![d] = c]
        /\ UNCHANGED <<balance, provider, named, remotes, inflight, lost, steady>>
    BY <1>3 DEF EnrollCustom
  <2>2. TypeOK' /\ calls' \in [{"send", "fill", "owner"} -> Nat]
    BY <2>1, CallTyped DEF IInv, TypeOK
  <2>3. Represented'
    BY <2>1 DEF IInv, TypeOK, Represented
  <2>4. QED
    BY <2>2, <2>3 DEF IInv
<1>4. ASSUME NEW d \in Domains, NEW c \in Contracts, NEW a \in Accounts, Migrate(d, c, a)
      PROVE  IInv'
  <2> DEFINE n == canonical[d]
             x == balance[d][c][a]
  <2>1. n \in Contracts /\ x \in Nat /\ a \in Holders
    <3>1. n \in known[d]
      BY <1>4 DEF Migrate, IInv, Represented
    <3>2. known[d] \subseteq Contracts
      BY DEF IInv, TypeOK, Contracts
    <3>3. x \in Nat
      BY <1>0 DEF Balances
    <3>4. QED
      BY <1>0, <3>1, <3>2, <3>3
  <2>2. Covers(balance, d, c, a, x)
    BY <2>1 DEF Covers
  <2>3. balance' = Minted(Burnt(balance, d, c, a, x), d, n, a, x)
    BY <1>4 DEF Migrate, Migrated
  <2> HIDE DEF n, x
  <2>4. balance' \in Balances
    BY <1>0, <2>1, <2>2, <2>3, BurntTyped, MintedTyped
  <2>5. UNCHANGED <<canonical, known, provider, named, remotes, inflight, lost, steady, calls>>
    BY <1>4 DEF Migrate
  <2>6. QED
    BY <2>4, <2>5 DEF IInv, TypeOK, Represented, Balances
<1>5. ASSUME NEW d \in Domains, RequestDetailsAgain(d)
      PROVE  IInv'
  <2>1. MessageBag(inflight') /\ Call("owner")
    BY <1>0, <1>5, SentAreMessages, BagAdd, BridgeAssumption DEF RequestDetailsAgain
  <2>2. UNCHANGED <<balance, canonical, known, provider, named, remotes, lost, steady>>
    BY <1>5 DEF RequestDetailsAgain
  <2>3. TypeOK' /\ calls' \in [{"send", "fill", "owner"} -> Nat]
    BY <2>1, <2>2, CallTyped DEF IInv, TypeOK, MessageBag
  <2>4. QED
    BY <2>2, <2>3 DEF IInv, Represented
<1>6. ASSUME NEW d \in Domains, NEW e \in Wavering[d], NEW enrolled \in BOOLEAN,
             EnrollRemoteRouter(d, e, enrolled)
      PROVE  IInv'
  <2>1. e \in Domains
    BY BridgeAssumption
  <2>2. remotes' \in [Domains -> SUBSET Domains]
    BY <1>6, <2>1 DEF EnrollRemoteRouter, IInv, TypeOK
  <2>3. steady' \in BOOLEAN
    BY <1>6 DEF EnrollRemoteRouter
  <2>4. UNCHANGED <<balance, canonical, known, provider, named, inflight, lost, calls>>
    BY <1>6 DEF EnrollRemoteRouter
  <2>5. QED
    BY <2>2, <2>3, <2>4 DEF IInv, TypeOK, Represented
<1>7. QED
  BY <1>1, <1>2, <1>3, <1>4, <1>5, <1>6 DEF Next

\* A router handles a message, or refuses it.
LEMMA ProcessKeeps ==
    ASSUME IInv, NEW m \in BagToSet(inflight), Process(m)
    PROVE  IInv'
<1> USE DEF registry
<1>0. /\ m \in Message /\ balance \in Balances /\ MessageBag(inflight)
      /\ MessageBag(Remaining(m))
  BY BagRemove DEF IInv, TypeOK, Balances, MessageBag, Remaining
<1>1. /\ m.to \in Domains /\ m.from \in Domains
      /\ m.action = "transfer" => m.transfer \in Transfers /\ m.transfer.amount \in Nat
  BY <1>0, ReadMessage
<1>2. UNCHANGED <<remotes, steady, calls>>
  BY DEF Process
<1>3. CASE HandleTransfer(m)
  <2> DEFINE h == Payee(m.transfer)
             x == m.transfer.amount
  <2>1. m.transfer \in Transfers /\ x \in Nat /\ CanPay(m.to, h, x)
    BY <1>1, <1>3 DEF HandleTransfer
  <2>2. h \in Holders /\ Router \in Holders
    BY <2>1, BridgeAssumption DEF CanPay, Payee, Transfers, Holders, IInv, TypeOK
  <2> HIDE DEF h
  <2>3. balance' \in Balances
    <3>1. CASE m.to = Origin
      <4>1. balance' = Moved(balance, m.to, Native, Router, h, x)
        BY <1>3, <3>1 DEF HandleTransfer, h
      <4>2. Covers(balance, m.to, Native, Router, x) /\ Native \in Contracts
        BY <2>1, <3>1 DEF CanPay, Contracts
      <4>3. QED
        BY <1>0, <1>1, <2>1, <2>2, <4>1, <4>2, MovedTyped
    <3>2. CASE m.to # Origin
      <4>1. balance' = Minted(balance, m.to, EnsuredToken(m.to), h, x)
        BY <1>3, <3>2 DEF HandleTransfer, h
      <4>2. EnsuredToken(m.to) \in Contracts
        BY <1>1, <3>2 DEF EnsuredToken, TokenAddress, Contracts, IInv, TypeOK
      <4>3. QED
        BY <1>0, <1>1, <2>1, <2>2, <4>1, <4>2, MintedTyped
    <3>3. QED
      BY <3>1, <3>2
  <2>4. MessageBag(inflight')
    <3>1. inflight' = Remaining(m) (+) Asked(m)
      BY <1>3 DEF HandleTransfer
    <3>2. RequestDetails(m.to, DetailsFrom(m)) \in Message
      BY <1>1, SentAreMessages, BridgeAssumption DEF DetailsFrom
    <3>3. QED
      BY <1>0, <3>1, <3>2, BagAdd, BagAddNone DEF Asked
  <2>5. /\ known' = [known EXCEPT ![m.to] = IF TokenAddress(m.to) = NoToken THEN @ \cup {Default} ELSE @]
        /\ canonical' = [canonical EXCEPT ![m.to] = IF m.to = Origin THEN @ ELSE EnsuredToken(m.to)]
        /\ provider' = [provider EXCEPT ![m.transfer] = Nobody]
        /\ UNCHANGED <<named, lost>>
    BY <1>3 DEF HandleTransfer
  <2>6. /\ known' \in [Domains -> SUBSET {Default, Custom}]
        /\ canonical' \in [Domains -> {NoToken, Default, Custom}]
        /\ provider' \in [Transfers -> Accounts \cup {Nobody}]
    BY <1>1, <2>1, <2>5 DEF EnsuredToken, TokenAddress, IInv, TypeOK
  <2>7. Represented'
    <3>1. Native # NoToken
      BY BridgeAssumption DEF Contracts
    <3>2. QED
      BY <1>1, <2>5, <3>1 DEF EnsuredToken, TokenAddress, IInv, TypeOK, Represented
  <2>8. QED
    BY <1>2, <2>3, <2>4, <2>5, <2>6, <2>7 DEF IInv, TypeOK, Balances, MessageBag
<1>4. CASE HandleDetails(m)
  <2>1. /\ named' = [named EXCEPT ![m.to] = @ \cup {canonical[m.to]}]
        /\ canonical[m.to] \in Contracts
        /\ inflight' = Remaining(m)
        /\ UNCHANGED <<balance, canonical, known, provider, lost>>
    BY <1>1, <1>4 DEF HandleDetails, TokenAddress, Contracts, IInv, TypeOK
  <2>2. QED
    BY <1>0, <1>1, <1>2, <2>1 DEF IInv, TypeOK, Represented, MessageBag
<1>5. CASE HandleRequestDetails(m)
  <2>1. MessageBag(inflight')
    BY <1>0, <1>1, <1>5, SentAreMessages, BagAdd DEF HandleRequestDetails
  <2>2. UNCHANGED <<balance, canonical, known, provider, named, lost>>
    BY <1>5 DEF HandleRequestDetails
  <2>3. QED
    BY <1>2, <2>1, <2>2 DEF IInv, TypeOK, Represented, MessageBag
<1>6. CASE Refuse(m)
  <2>1. lost' \in Nat
    BY <1>1, <1>6 DEF Refuse, IInv, TypeOK
  <2>2. inflight' = Remaining(m) /\ UNCHANGED <<balance, canonical, known, provider, named>>
    BY <1>6 DEF Refuse
  <2>3. QED
    BY <1>0, <1>2, <2>1, <2>2 DEF IInv, TypeOK, Represented, MessageBag
<1>7. QED
  BY <1>3, <1>4, <1>5, <1>6 DEF Process

\* Every step keeps the invariant.
LEMMA NextInvariant == IInv /\ [Next]_vars => IInv'
<1> SUFFICES ASSUME IInv, [Next]_vars
             PROVE  IInv'
  OBVIOUS
<1>1. CASE UNCHANGED vars
  BY <1>1 DEF vars, registry, IInv, TypeOK, Represented
<1>2. CASE Next
  BY <1>2, CallsKeep, ProcessKeeps
<1>3. QED
  BY <1>1, <1>2

-----------------------------------------------------------------------------
(* Messages under way, by the number of their copies *)

FiniteBag(B) == MessageBag(B) /\ IsFiniteSet(DOMAIN B)

Copies(m, B) == IF m \in DOMAIN B THEN B[m] ELSE 0

\* C has what B has of every message but m.
SameBut(B, C, m) ==
    /\ (DOMAIN C) \ {m} = (DOMAIN B) \ {m}
    /\ \A n \in (DOMAIN B) \ {m} : C[n] = B[n]

\* Sending a message adds one copy of it.
LEMMA OneMore ==
    ASSUME NEW B, FiniteBag(B), NEW m \in Message
    PROVE  /\ FiniteBag(B (+) One(m))
           /\ SameBut(B, B (+) One(m), m)
           /\ Copies(m, B (+) One(m)) = Copies(m, B) + 1
           /\ Copies(m, B) \in Nat
<1> DEFINE C == B (+) One(m)
<1>1. DOMAIN C = (DOMAIN B) \cup {m}
  BY DEF One, SetToBag, (+)
<1>2. \A n \in DOMAIN C : C[n] = (IF n \in DOMAIN B THEN B[n] ELSE 0) + (IF n \in {m} THEN 1 ELSE 0)
  BY DEF One, SetToBag, (+)
<1>3. \A n \in DOMAIN B : B[n] \in Nat /\ B[n] > 0
  BY DEF FiniteBag, MessageBag, IsABag
<1>4. MessageBag(C)
  BY BagAdd DEF FiniteBag
<1>5. IsFiniteSet(DOMAIN C)
  BY <1>1, FS_AddElement DEF FiniteBag
<1> HIDE DEF C
<1>6. SameBut(B, C, m)
  BY <1>1, <1>2, <1>3 DEF SameBut
<1>7. Copies(m, C) = Copies(m, B) + 1 /\ Copies(m, B) \in Nat
  BY <1>1, <1>2, <1>3 DEF Copies
<1>8. QED
  BY <1>4, <1>5, <1>6, <1>7 DEF FiniteBag, C

\* Delivering a message takes one copy of it.
LEMMA OneLess ==
    ASSUME NEW B, FiniteBag(B), NEW m \in BagToSet(B)
    PROVE  /\ FiniteBag(B (-) One(m))
           /\ SameBut(B, B (-) One(m), m)
           /\ Copies(m, B (-) One(m)) = Copies(m, B) - 1
           /\ Copies(m, B) \in Nat /\ Copies(m, B) > 0
<1> DEFINE C == B (-) One(m)
<1>1. \A n \in DOMAIN B : B[n] \in Nat /\ B[n] > 0
  BY DEF FiniteBag, MessageBag, IsABag
<1>2. m \in DOMAIN B
  BY DEF BagToSet
<1>3. DOMAIN C = {n \in DOMAIN B : (IF n = m THEN B[n] - 1 ELSE B[n]) > 0}
  BY DEF One, SetToBag, (-)
<1>4. \A n \in DOMAIN C : C[n] = IF n = m THEN B[n] - 1 ELSE B[n]
  BY DEF One, SetToBag, (-)
<1>5. MessageBag(C)
  BY BagRemove DEF FiniteBag
<1>6. IsFiniteSet(DOMAIN C)
  BY <1>3, FS_Subset DEF FiniteBag
<1> HIDE DEF C
<1>7. SameBut(B, C, m)
  BY <1>1, <1>3, <1>4 DEF SameBut
<1>8. Copies(m, C) = Copies(m, B) - 1 /\ Copies(m, B) \in Nat /\ Copies(m, B) > 0
  BY <1>1, <1>2, <1>3, <1>4 DEF Copies
<1>9. QED
  BY <1>5, <1>6, <1>7, <1>8 DEF FiniteBag, C

\* The amount a message carries
Weight(m) == IF m.action = "transfer" THEN m.transfer.amount ELSE 0

\* What is under way of a bag is finite, and every message of it has copies.
LEMMA UnderwayIs ==
    ASSUME NEW B, FiniteBag(B)
    PROVE  /\ IsFiniteSet(Underway(B))
           /\ \A m \in Underway(B) : /\ m \in Message /\ m.action = "transfer"
                                     /\ B[m] \in Nat /\ B[m] > 0 /\ Copies(m, B) = B[m]
                                     /\ m.transfer \in Transfers /\ m.transfer.amount \in Nat
<1>1. Underway(B) \subseteq DOMAIN B /\ IsFiniteSet(DOMAIN B)
  BY DEF Underway, BagToSet, FiniteBag
<1>2. IsFiniteSet(Underway(B))
  BY <1>1, FS_Subset
<1>3. ASSUME NEW m \in Underway(B)
      PROVE  /\ m \in Message /\ m.action = "transfer"
             /\ B[m] \in Nat /\ B[m] > 0 /\ Copies(m, B) = B[m]
             /\ m.transfer \in Transfers /\ m.transfer.amount \in Nat
  <2>1. m \in Message /\ m.action = "transfer" /\ m \in DOMAIN B
    BY <1>3 DEF Underway, BagToSet, FiniteBag, MessageBag
  <2>2. B[m] \in Nat /\ B[m] > 0 /\ Copies(m, B) = B[m]
    BY <2>1 DEF FiniteBag, MessageBag, IsABag, Copies
  <2>3. QED
    BY <2>1, <2>2, ReadMessage
<1>4. QED
  BY <1>2, <1>3

\* What is sent changes with the copies of one message.
LEMMA SentChange ==
    ASSUME NEW B, NEW C, FiniteBag(B), FiniteBag(C), NEW m \in Message, SameBut(B, C, m),
           Copies(m, B) \in Nat, Copies(m, C) \in Nat
    PROVE  /\ Sent(B) \in Int
           /\ Sent(C) = Sent(B) + Weight(m) * Copies(m, C) - Weight(m) * Copies(m, B)
<1> DEFINE f == [n \in Underway(B) |-> n.transfer.amount * B[n]]
           g == [n \in Underway(C) |-> n.transfer.amount * C[n]]
<1>1. Sent(B) = SumFunctionOnSet(f, Underway(B)) /\ Sent(C) = SumFunctionOnSet(g, Underway(C))
  BY DEF Sent, SumFunction
<1>2. IsFiniteSet(Underway(B)) /\ IsFiniteSet(Underway(C))
  BY UnderwayIs
<1>3. \A n \in Underway(B) : f[n] \in Int
  BY UnderwayIs
<1>4. \A n \in Underway(C) : g[n] \in Int
  BY UnderwayIs
<1>5. Underway(B) \ {m} = Underway(C) \ {m}
  BY DEF Underway, BagToSet, SameBut
<1>6. \A n \in Underway(B) \ {m} : g[n] = f[n]
  BY <1>5 DEF Underway, BagToSet, SameBut
<1>7. /\ (IF m \in Underway(B) THEN f[m] ELSE 0) = Weight(m) * Copies(m, B)
      /\ (IF m \in Underway(C) THEN g[m] ELSE 0) = Weight(m) * Copies(m, C)
  <2>1. Weight(m) \in Nat
    BY ReadMessage DEF Weight
  <2>2. \A D \in {B, C} : m \in Underway(D) => Weight(m) = m.transfer.amount /\ Copies(m, D) = D[m]
    BY UnderwayIs DEF Weight
  <2>3. \A D \in {B, C} : m \notin Underway(D) => Weight(m) = 0 \/ Copies(m, D) = 0
    BY DEF Weight, Underway, BagToSet, Copies
  <2>4. QED
    BY <2>1, <2>2, <2>3
<1> HIDE DEF f, g
<1>8. SumFunctionOnSet(f, Underway(B)) \in Int
  BY <1>2, <1>3, SumIsInt
<1>9. SumFunctionOnSet(g, Underway(C)) = SumFunctionOnSet(f, Underway(B))
          + (IF m \in Underway(C) THEN g[m] ELSE 0) - (IF m \in Underway(B) THEN f[m] ELSE 0)
  BY <1>2, <1>3, <1>4, <1>5, <1>6, SumChange
<1>10. QED
  BY <1>1, <1>7, <1>8, <1>9

\* One copy more, or less, of x
LEMMA Distribute ==
    ASSUME NEW x \in Nat, NEW n \in Nat
    PROVE  x * (n + 1) = x * n + x /\ x * (n - 1) = x * n - x /\ x * n \in Nat
  OBVIOUS

\* A transfer sent adds its amount to what is sent.
LEMMA SentMore ==
    ASSUME NEW B, FiniteBag(B), NEW m \in Message
    PROVE  Sent(B (+) One(m)) = Sent(B) + Weight(m) /\ Sent(B) \in Int /\ Weight(m) \in Nat
<1> DEFINE C == B (+) One(m)
           n == Copies(m, B)
           w == Weight(m)
<1>1. FiniteBag(C) /\ SameBut(B, C, m) /\ Copies(m, C) = n + 1 /\ n \in Nat
  BY OneMore
<1> HIDE DEF C, n
<1>2. Sent(B) \in Int /\ Sent(C) = Sent(B) + w * Copies(m, C) - w * n
  BY <1>1, SentChange DEF n
<1>3. w \in Nat
  BY ReadMessage DEF Weight
<1> HIDE DEF w
<1>4. w * (n + 1) = w * n + w /\ w * n \in Nat
  BY <1>1, <1>3, Distribute
<1>5. Sent(C) = Sent(B) + w
  BY <1>1, <1>2, <1>3, <1>4
<1>6. QED
  BY <1>2, <1>3, <1>5 DEF C, w

\* A transfer delivered takes its amount from it.
LEMMA SentLess ==
    ASSUME NEW B, FiniteBag(B), NEW m \in BagToSet(B)
    PROVE  Sent(B (-) One(m)) = Sent(B) - Weight(m) /\ Sent(B) \in Int /\ Weight(m) \in Nat
<1> DEFINE C == B (-) One(m)
           n == Copies(m, B)
           w == Weight(m)
<1>0. m \in Message
  BY DEF FiniteBag, MessageBag
<1>1. FiniteBag(C) /\ SameBut(B, C, m) /\ Copies(m, C) = n - 1 /\ n \in Nat /\ n > 0
  BY OneLess
<1> HIDE DEF C, n
<1>2. Sent(B) \in Int /\ Sent(C) = Sent(B) + w * Copies(m, C) - w * n
  <2>1. Copies(m, C) \in Nat
    BY <1>1
  <2>2. QED
    BY <1>0, <1>1, <2>1, SentChange DEF n
<1>3. w \in Nat
  BY <1>0, ReadMessage DEF Weight
<1> HIDE DEF w
<1>4. w * (n - 1) = w * n - w /\ w * n \in Nat
  BY <1>1, <1>3, Distribute
<1>5. Sent(C) = Sent(B) - w
  BY <1>1, <1>2, <1>3, <1>4
<1>6. QED
  BY <1>2, <1>3, <1>5 DEF C, w

\* How many messages carry a transfer
Total(B, t) == SumFunction([m \in Carrying(B, t) |-> B[m]])

\* The sums of Transit are numbers, positive where a message carries the transfer.
LEMMA TotalIs ==
    ASSUME NEW B, FiniteBag(B), NEW t
    PROVE  /\ Total(B, t) \in Nat
           /\ Carrying(B, t) # {} => Total(B, t) > 0
           /\ Carrying(B, t) = {} => Total(B, t) = 0
<1> DEFINE S == Carrying(B, t)
           f == [m \in S |-> B[m]]
<1>1. Total(B, t) = SumFunctionOnSet(f, S)
  BY DEF Total, SumFunction
<1>2. IsFiniteSet(S)
  <2>1. S \subseteq Underway(B)
    BY DEF Carrying
  <2>2. QED
    BY <2>1, UnderwayIs, FS_Subset
<1>3. \A m \in S : f[m] \in Nat /\ f[m] > 0
  BY UnderwayIs DEF Carrying
<1> HIDE DEF f, S
<1>4. SumFunctionOnSet(f, S) \in Nat
  BY <1>2, <1>3, SumIsNat
<1>5. S # {} => SumFunctionOnSet(f, S) > 0
  BY <1>2, <1>3, SumIsPositive
<1>6. S = {} => SumFunctionOnSet(f, S) = 0
  BY SumEmpty
<1>7. QED
  BY <1>1, <1>4, <1>5, <1>6 DEF S

\* Transit, by the messages that carry each transfer
LEMMA TransitIs ==
    ASSUME NEW B
    PROVE  /\ \A t : t \in DOMAIN Transit(B) <=> Carrying(B, t) # {}
           /\ Transit(B) = [t \in DOMAIN Transit(B) |-> Total(B, t)]
           /\ \A t \in DOMAIN Transit(B) : Transit(B)[t] = Total(B, t)
<1>1. DOMAIN Transit(B) = {m.transfer : m \in Underway(B)}
  BY DEF Transit
<1>2. \A t : t \in DOMAIN Transit(B) <=> Carrying(B, t) # {}
  BY <1>1 DEF Carrying
<1>3. Transit(B) = [t \in DOMAIN Transit(B) |-> Total(B, t)]
  BY <1>1 DEF Transit, Total
<1>4. QED
  BY <1>2, <1>3

\* Another copy of a message changes nothing for transfers it does not carry.
LEMMA TotalOfOthers ==
    ASSUME NEW B, NEW C, NEW m, SameBut(B, C, m), NEW t,
           ~(m.action = "transfer" /\ m.transfer = t)
    PROVE  Carrying(C, t) = Carrying(B, t) /\ Total(C, t) = Total(B, t)
<1>1. Carrying(C, t) = Carrying(B, t)
  BY DEF Carrying, Underway, BagToSet, SameBut
<1>2. \A n \in Carrying(B, t) : C[n] = B[n]
  BY DEF Carrying, Underway, BagToSet, SameBut
<1>3. [n \in Carrying(C, t) |-> C[n]] = [n \in Carrying(B, t) |-> B[n]]
  BY <1>1, <1>2
<1>4. QED
  BY <1>1, <1>3 DEF Total

\* For the transfer it carries it is one more, or one less.
LEMMA TotalChange ==
    ASSUME NEW B, NEW C, FiniteBag(B), FiniteBag(C), NEW m \in Message, SameBut(B, C, m),
           m.action = "transfer"
    PROVE  Total(C, m.transfer) = Total(B, m.transfer) + Copies(m, C) - Copies(m, B)
<1> DEFINE t == m.transfer
           S == Carrying(B, t)
           T == Carrying(C, t)
           f == [n \in S |-> B[n]]
           g == [n \in T |-> C[n]]
<1>1. Total(B, t) = SumFunctionOnSet(f, S) /\ Total(C, t) = SumFunctionOnSet(g, T)
  BY DEF Total, SumFunction
<1>2. IsFiniteSet(S) /\ IsFiniteSet(T)
  <2>1. S \subseteq Underway(B) /\ T \subseteq Underway(C)
    BY DEF Carrying
  <2>2. QED
    BY <2>1, UnderwayIs, FS_Subset
<1>3. (\A n \in S : f[n] \in Int) /\ (\A n \in T : g[n] \in Int)
  BY UnderwayIs DEF Carrying
<1>4. S \ {m} = T \ {m} /\ \A n \in S \ {m} : g[n] = f[n]
  BY DEF Carrying, Underway, BagToSet, SameBut
<1>5. /\ (IF m \in S THEN f[m] ELSE 0) = Copies(m, B)
      /\ (IF m \in T THEN g[m] ELSE 0) = Copies(m, C)
  BY DEF Carrying, Underway, BagToSet, Copies
<1> HIDE DEF f, g, S, T
<1>6. SumFunctionOnSet(g, T) = SumFunctionOnSet(f, S)
          + (IF m \in T THEN g[m] ELSE 0) - (IF m \in S THEN f[m] ELSE 0)
  BY <1>2, <1>3, <1>4, SumChange
<1>7. QED
  BY <1>1, <1>5, <1>6

\* What carries no transfer is not seen in transit.
LEMMA TransitSame ==
    ASSUME NEW B, NEW C, NEW m, SameBut(B, C, m), m.action # "transfer"
    PROVE  Transit(C) = Transit(B)
<1>1. \A t : Carrying(C, t) = Carrying(B, t) /\ Total(C, t) = Total(B, t)
  BY TotalOfOthers
<1>2. DOMAIN Transit(C) = DOMAIN Transit(B)
  <2>1. \A t : t \in DOMAIN Transit(C) <=> t \in DOMAIN Transit(B)
    BY <1>1, TransitIs
  <2>2. DOMAIN Transit(B) = {n.transfer : n \in Underway(B)} /\ DOMAIN Transit(C) = {n.transfer : n \in Underway(C)}
    BY DEF Transit
  <2>3. QED
    BY <2>1, <2>2
<1>3. [t \in DOMAIN Transit(B) |-> Total(B, t)] = [t \in DOMAIN Transit(C) |-> Total(C, t)]
  BY <1>1, <1>2
<1>4. QED
  BY <1>3, TransitIs

\* A transfer sent is in transit once more.
LEMMA TransitMore ==
    ASSUME NEW B, FiniteBag(B), NEW m \in Message, m.action = "transfer"
    PROVE  Transit(B (+) One(m)) = Transit(B) (+) SetToBag({m.transfer})
<1> DEFINE C == B (+) One(m)
           t == m.transfer
           Q == Transit(B) (+) SetToBag({t})
<1>1. FiniteBag(C) /\ SameBut(B, C, m) /\ Copies(m, C) = Copies(m, B) + 1 /\ Copies(m, B) \in Nat
  BY OneMore
<1> HIDE DEF C
<1>2. Total(C, t) = Total(B, t) + 1 /\ Total(B, t) \in Nat
  <2>1. Total(C, t) = Total(B, t) + Copies(m, C) - Copies(m, B)
    BY <1>1, TotalChange
  <2>2. Total(B, t) \in Nat
    BY TotalIs
  <2>3. QED
    BY <1>1, <2>1, <2>2
<1>3. \A s : s # t => Carrying(C, s) = Carrying(B, s) /\ Total(C, s) = Total(B, s)
  BY <1>1, TotalOfOthers
<1>4. DOMAIN Transit(C) = (DOMAIN Transit(B)) \cup {t}
  <2>1. Carrying(C, t) # {}
    BY <1>1, <1>2, TotalIs
  <2>2. \A s : s \in DOMAIN Transit(C) <=> s \in DOMAIN Transit(B) \/ s = t
    BY <1>3, <2>1, TransitIs
  <2>3. QED
    BY <2>2
<1>5. DOMAIN Q = (DOMAIN Transit(B)) \cup {t}
  BY DEF SetToBag, (+)
<1>6. \A s \in DOMAIN Q : Q[s] = (IF s \in DOMAIN Transit(B) THEN Transit(B)[s] ELSE 0) + (IF s \in {t} THEN 1 ELSE 0)
  BY DEF SetToBag, (+)
<1>7. Q = [s \in DOMAIN Q |-> Q[s]]
  BY DEF SetToBag, (+)
<1> HIDE DEF Q, t
<1>8. ASSUME NEW s \in DOMAIN Q
      PROVE  Q[s] = Total(C, s)
  <2>1. (IF s \in DOMAIN Transit(B) THEN Transit(B)[s] ELSE 0) = Total(B, s) /\ Total(B, s) \in Nat
    BY TransitIs, TotalIs
  <2>2. Q[s] = Total(B, s) + (IF s \in {t} THEN 1 ELSE 0)
    BY <1>6, <2>1
  <2>3. QED
    BY <1>2, <1>3, <2>1, <2>2
<1>9. Q = [s \in DOMAIN Transit(C) |-> Total(C, s)]
  BY <1>4, <1>5, <1>7, <1>8
<1>10. QED
  BY <1>9, TransitIs DEF C, Q, t

\* A transfer delivered is in transit once less.
LEMMA TransitLess ==
    ASSUME NEW B, FiniteBag(B), NEW m \in BagToSet(B), m.action = "transfer"
    PROVE  /\ Transit(B (-) One(m)) = Transit(B) (-) SetToBag({m.transfer})
           /\ m.transfer \in BagToSet(Transit(B))
<1> DEFINE C == B (-) One(m)
           t == m.transfer
           Q == Transit(B) (-) SetToBag({t})
<1>0. m \in Message
  BY DEF FiniteBag, MessageBag
<1>1. /\ FiniteBag(C) /\ SameBut(B, C, m) /\ Copies(m, C) = Copies(m, B) - 1
      /\ Copies(m, B) \in Nat /\ Copies(m, B) > 0
  BY OneLess
<1> HIDE DEF C
<1>2. Total(C, t) = Total(B, t) - 1 /\ Total(B, t) \in Nat
  <2>1. Total(C, t) = Total(B, t) + Copies(m, C) - Copies(m, B)
    BY <1>0, <1>1, TotalChange
  <2>2. Total(B, t) \in Nat
    BY TotalIs
  <2>3. QED
    BY <1>1, <2>1, <2>2
<1>3. \A s : s # t => Carrying(C, s) = Carrying(B, s) /\ Total(C, s) = Total(B, s)
  BY <1>1, TotalOfOthers
<1>4. t \in DOMAIN Transit(B)
  <2>1. m \in Carrying(B, t)
    BY DEF Carrying, Underway
  <2>2. QED
    BY <2>1, TransitIs
<1>5. DOMAIN Q = {s \in DOMAIN Transit(B) : (IF s = t THEN Transit(B)[s] - 1 ELSE Transit(B)[s]) > 0}
  BY DEF SetToBag, (-)
<1>6. \A s \in DOMAIN Q : Q[s] = IF s = t THEN Transit(B)[s] - 1 ELSE Transit(B)[s]
  BY DEF SetToBag, (-)
<1>7. Q = [s \in DOMAIN Q |-> Q[s]]
  BY DEF SetToBag, (-)
<1> HIDE DEF Q, t
<1>8. \A s \in DOMAIN Transit(B) : (IF s = t THEN Transit(B)[s] - 1 ELSE Transit(B)[s]) = Total(C, s)
  BY <1>2, <1>3, TransitIs
<1>9. DOMAIN Q = DOMAIN Transit(C)
  <2>1. \A s : s \in DOMAIN Q <=> s \in DOMAIN Transit(B) /\ Total(C, s) > 0
    BY <1>5, <1>8
  <2>2. \A s : Total(C, s) > 0 <=> Carrying(C, s) # {}
    BY <1>1, TotalIs
  <2>3. \A s : s \in DOMAIN Transit(C) => s \in DOMAIN Transit(B)
    BY <1>3, <1>4, TransitIs
  <2>4. \A s : s \in DOMAIN Q <=> s \in DOMAIN Transit(C)
    BY <2>1, <2>2, <2>3, TransitIs
  <2>5. QED
    BY <2>4
<1>10. \A s \in DOMAIN Q : Q[s] = Total(C, s)
  BY <1>5, <1>6, <1>8
<1>11. Q = [s \in DOMAIN Transit(C) |-> Total(C, s)]
  BY <1>7, <1>9, <1>10
<1>12. QED
  BY <1>4, <1>11, TransitIs DEF C, Q, t, BagToSet

-----------------------------------------------------------------------------
(* What circulates, and what accounts hold *)

\* The three contracts are three.
LEMMA ThreeContracts == Native # Default /\ Native # Custom /\ Default # Custom
<1> SUFFICES ASSUME Native = Default \/ Native = Custom \/ Default = Custom
             PROVE  FALSE
  OBVIOUS
<1>1. PICK c, k : Contracts = {c} \cup {k}
  BY DEF Contracts
<1>2. IsFiniteSet({c}) /\ Cardinality({c}) = 1
  BY FS_Singleton
<1>3. Cardinality({c} \cup {k}) \in {1, 2}
  BY <1>2, FS_AddElement
<1>4. QED
  BY <1>1, <1>3, BridgeAssumption

\* b2 is b but for what h has of contract c on chain d.
OnlyAt(b, b2, d, c, h) ==
    \A e \in Domains, k \in Contracts, g \in Holders :
        (e # d \/ k # c \/ g # h) => b2[e][k][g] = b[e][k][g]

LEMMA MintedAt ==
    ASSUME NEW b \in Balances, NEW d \in Domains, NEW c \in Contracts, NEW h \in Holders, NEW x \in Nat
    PROVE  /\ OnlyAt(b, Minted(b, d, c, h, x), d, c, h)
           /\ Minted(b, d, c, h, x)[d][c][h] = b[d][c][h] + x
  BY DEF Minted, Balances, OnlyAt

LEMMA BurntAt ==
    ASSUME NEW b \in Balances, NEW d \in Domains, NEW c \in Contracts, NEW h \in Holders, NEW x \in Nat
    PROVE  /\ OnlyAt(b, Burnt(b, d, c, h, x), d, c, h)
           /\ Burnt(b, d, c, h, x)[d][c][h] = b[d][c][h] - x
  BY DEF Burnt, Balances, OnlyAt

\* The supply of a chain is a number.
LEMMA SupplyTyped ==
    ASSUME NEW b \in Balances, NEW d \in Domains
    PROVE  Supply(b, d) \in Nat /\ IsFiniteSet(Holders)
<1> DEFINE f == [h \in Holders |-> b[d][Default][h] + b[d][Custom][h]]
<1>1. IsFiniteSet(Holders)
  BY BridgeAssumption, FS_AddElement DEF Holders
<1>2. \A h \in Holders : f[h] \in Nat
  BY DEF Balances, Contracts
<1>3. Supply(b, d) = SumFunctionOnSet(f, Holders)
  BY DEF Supply, SumFunction
<1> HIDE DEF f
<1>4. QED
  BY <1>1, <1>2, <1>3, SumIsNat

\* The supply of a chain changes with one balance of a representation.
LEMMA SupplyChange ==
    ASSUME NEW b \in Balances, NEW b2 \in Balances,
           NEW d \in Domains, NEW c \in Contracts, NEW h \in Holders, OnlyAt(b, b2, d, c, h)
    PROVE  Supply(b2, d) = Supply(b, d) + (IF c = Native THEN 0 ELSE b2[d][c][h] - b[d][c][h])
<1> DEFINE f == [g \in Holders |-> b[d][Default][g] + b[d][Custom][g]]
           f2 == [g \in Holders |-> b2[d][Default][g] + b2[d][Custom][g]]
<1>1. Supply(b, d) = SumFunctionOnSet(f, Holders) /\ Supply(b2, d) = SumFunctionOnSet(f2, Holders)
  BY DEF Supply, SumFunction
<1>2. \A g \in Holders : f[g] \in Int /\ f2[g] \in Int
  BY DEF Balances, Contracts
<1>3. \A g \in Holders \ {h} : f2[g] = f[g]
  BY DEF OnlyAt, Contracts
<1>4. f2[h] = f[h] + (IF c = Native THEN 0 ELSE b2[d][c][h] - b[d][c][h])
  <2>1. /\ b[d][Default][h] \in Nat /\ b[d][Custom][h] \in Nat
        /\ b2[d][Default][h] \in Nat /\ b2[d][Custom][h] \in Nat
    BY DEF Balances, Contracts
  <2>2. \A k \in {Default, Custom} : k # c => b2[d][k][h] = b[d][k][h]
    BY DEF OnlyAt, Contracts
  <2>3. c \in {Native, Default, Custom}
    BY DEF Contracts
  <2>4. QED
    BY <2>1, <2>2, <2>3, ThreeContracts
<1>5. Supply(b, d) \in Nat /\ IsFiniteSet(Holders)
  BY SupplyTyped
<1> HIDE DEF f, f2
<1>6. SumFunctionOnSet(f2, Holders) = SumFunctionOnSet(f, Holders) + f2[h] - f[h]
  BY <1>2, <1>3, <1>5, SumChange
<1>7. (IF c = Native THEN 0 ELSE b2[d][c][h] - b[d][c][h]) \in Int
  BY DEF Balances
<1>8. QED
  BY <1>1, <1>2, <1>4, <1>5, <1>6, <1>7

\* What circulates changes with one balance of a representation.
LEMMA CirculatingChange ==
    ASSUME NEW b \in Balances, NEW b2 \in Balances,
           NEW d \in Domains, NEW c \in Contracts, NEW h \in Holders, OnlyAt(b, b2, d, c, h)
    PROVE  /\ Circulating(b) \in Nat
           /\ Circulating(b2) =
                 Circulating(b) + (IF c = Native THEN 0 ELSE b2[d][c][h] - b[d][c][h])
<1> DEFINE f == [e \in Domains |-> Supply(b, e)]
           f2 == [e \in Domains |-> Supply(b2, e)]
           x == IF c = Native THEN 0 ELSE b2[d][c][h] - b[d][c][h]
<1>1. Circulating(b) = SumFunctionOnSet(f, Domains) /\ Circulating(b2) = SumFunctionOnSet(f2, Domains)
  BY DEF Circulating, SumFunction
<1>2. \A e \in Domains : f[e] \in Nat /\ f2[e] \in Nat
  BY SupplyTyped
<1>3. \A e \in Domains \ {d} : f2[e] = f[e]
  <2>1. ASSUME NEW e \in Domains \ {d}
        PROVE  Supply(b2, e) = Supply(b, e)
    <3>1. \A g \in Holders : b2[e][Default][g] = b[e][Default][g] /\ b2[e][Custom][g] = b[e][Custom][g]
      BY DEF OnlyAt, Contracts
    <3>2. [g \in Holders |-> b2[e][Default][g] + b2[e][Custom][g]]
             = [g \in Holders |-> b[e][Default][g] + b[e][Custom][g]]
      BY <3>1
    <3>3. QED
      BY <3>2 DEF Supply
  <2>2. QED
    BY <2>1
<1>4. f2[d] = f[d] + x /\ x \in Int
  <2>1. Supply(b2, d) = Supply(b, d) + x
    BY SupplyChange
  <2>2. x \in Int
    BY DEF Balances
  <2>3. QED
    BY <2>1, <2>2
<1>5. IsFiniteSet(Domains)
  BY BridgeAssumption
<1> HIDE DEF f, f2, x
<1>6. SumFunctionOnSet(f, Domains) \in Nat
  BY <1>2, <1>5, SumIsNat
<1>7. SumFunctionOnSet(f2, Domains) = SumFunctionOnSet(f, Domains) + f2[d] - f[d]
  BY <1>2, <1>3, <1>5, SumChange
<1>8. Circulating(b2) = Circulating(b) + x
  BY <1>1, <1>2, <1>4, <1>6, <1>7
<1>9. QED
  BY <1>1, <1>6, <1>8 DEF x

\* What accounts hold are numbers.
LEMMA HoldingsTyped ==
    ASSUME NEW b \in Balances
    PROVE  Holdings(b) \in [Domains -> [Accounts -> Nat]]
<1>1. \A d \in Domains, a \in Accounts, c \in Contracts : b[d][c][a] \in Nat
  BY DEF Balances, Holders
<1>2. \A d \in Domains, a \in Accounts : Holding(b, d, a) \in Nat
  BY <1>1 DEF Holding, Contracts
<1>3. QED
  BY <1>2 DEF Holdings

\* Accounts hold what they held but for one of them on one chain.
LEMMA HoldingsChange ==
    ASSUME NEW b \in Balances, NEW b2 \in Balances,
           NEW d \in Domains, NEW c \in Contracts, NEW h \in Holders, OnlyAt(b, b2, d, c, h)
    PROVE  /\ Holdings(b) \in [Domains -> [Accounts -> Nat]]
           /\ h = Router => Holdings(b2) = Holdings(b)
           /\ h \in Accounts =>
                 Holdings(b2) = [Holdings(b) EXCEPT ![d][h] = @ + (b2[d][c][h] - b[d][c][h])]
<1>1. \A e \in Domains, a \in Accounts, k \in Contracts : a \in Holders /\ b[e][k][a] \in Nat /\ b2[e][k][a] \in Nat
  BY DEF Balances, Holders
<1>2. Native \in Contracts /\ Default \in Contracts /\ Custom \in Contracts
  BY DEF Contracts
<1>3. \A e \in Domains, a \in Accounts : Holding(b, e, a) \in Nat /\ Holding(b2, e, a) \in Nat
  BY <1>1, <1>2 DEF Holding
<1>4. \A e \in Domains, a \in Accounts :
         (e # d \/ a # h) => Holding(b2, e, a) = Holding(b, e, a)
  BY <1>1, <1>2 DEF Holding, OnlyAt
<1>5. h \in Accounts => Holding(b2, d, h) = Holding(b, d, h) + (b2[d][c][h] - b[d][c][h])
  <2>1. SUFFICES ASSUME h \in Accounts
                 PROVE  Holding(b2, d, h) = Holding(b, d, h) + (b2[d][c][h] - b[d][c][h])
    OBVIOUS
  <2>2. \A k \in Contracts : k # c => b2[d][k][h] = b[d][k][h]
    BY DEF OnlyAt
  <2>3. \A k \in Contracts : b[d][k][h] \in Nat /\ b2[d][k][h] \in Nat
    BY <1>1, <2>1
  <2>4. c \in {Native, Default, Custom}
    BY DEF Contracts
  <2>5. QED
    BY <1>2, <2>2, <2>3, <2>4, ThreeContracts DEF Holding
<1>6. Holdings(b) \in [Domains -> [Accounts -> Nat]]
  BY <1>3 DEF Holdings
<1>7. h = Router => Holdings(b2) = Holdings(b)
  BY <1>4, BridgeAssumption DEF Holdings
<1>8. h \in Accounts => Holdings(b2) = [Holdings(b) EXCEPT ![d][h] = @ + (b2[d][c][h] - b[d][c][h])]
  BY <1>4, <1>5 DEF Holdings
<1>9. QED
  BY <1>6, <1>7, <1>8

\* Minting adds to what circulates, unless it is the token itself that comes.
LEMMA MintedBooks ==
    ASSUME NEW b \in Balances, NEW d \in Domains, NEW c \in Contracts, NEW h \in Holders, NEW x \in Nat
    PROVE  /\ Circulating(b) \in Nat
           /\ Circulating(Minted(b, d, c, h, x)) = Circulating(b) + (IF c = Native THEN 0 ELSE x)
           /\ h = Router => Holdings(Minted(b, d, c, h, x)) = Holdings(b)
           /\ h \in Accounts => Holdings(Minted(b, d, c, h, x)) = [Holdings(b) EXCEPT ![d][h] = @ + x]
<1> DEFINE b2 == Minted(b, d, c, h, x)
<1>1. b2 \in Balances /\ OnlyAt(b, b2, d, c, h) /\ b2[d][c][h] = b[d][c][h] + x
  BY MintedTyped, MintedAt
<1>2. b[d][c][h] \in Nat
  BY DEF Balances
<1> HIDE DEF b2
<1>3. b2[d][c][h] - b[d][c][h] = x
  BY <1>1, <1>2
<1>4. QED
  BY <1>1, <1>3, CirculatingChange, HoldingsChange DEF b2

\* Burning takes from it.
LEMMA BurntBooks ==
    ASSUME NEW b \in Balances, NEW d \in Domains, NEW c \in Contracts, NEW h \in Holders, NEW x \in Nat,
           Covers(b, d, c, h, x)
    PROVE  /\ Circulating(b) \in Nat
           /\ Circulating(Burnt(b, d, c, h, x)) = Circulating(b) - (IF c = Native THEN 0 ELSE x)
           /\ h = Router => Holdings(Burnt(b, d, c, h, x)) = Holdings(b)
           /\ h \in Accounts => Holdings(Burnt(b, d, c, h, x)) = [Holdings(b) EXCEPT ![d][h] = @ - x]
<1> DEFINE b2 == Burnt(b, d, c, h, x)
<1>1. b2 \in Balances /\ OnlyAt(b, b2, d, c, h) /\ b2[d][c][h] = b[d][c][h] - x
  BY BurntTyped, BurntAt
<1>2. b[d][c][h] \in Nat
  BY DEF Balances
<1> HIDE DEF b2
<1>3. b2[d][c][h] - b[d][c][h] = -x
  BY <1>1, <1>2
<1>4. /\ Circulating(b) \in Nat
      /\ Circulating(b2) = Circulating(b) + (IF c = Native THEN 0 ELSE -x)
      /\ h = Router => Holdings(b2) = Holdings(b)
      /\ Holdings(b) \in [Domains -> [Accounts -> Nat]]
      /\ h \in Accounts => Holdings(b2) = [Holdings(b) EXCEPT ![d][h] = @ + (-x)]
  BY <1>1, <1>3, CirculatingChange, HoldingsChange
<1>5. Circulating(b2) = Circulating(b) - (IF c = Native THEN 0 ELSE x)
  BY <1>4
<1>6. h \in Accounts => Holdings(b2) = [Holdings(b) EXCEPT ![d][h] = @ - x]
  <2>1. h \in Accounts => Holdings(b)[d][h] \in Nat
    BY <1>4
  <2>2. h \in Accounts => Holdings(b)[d][h] + (-x) = Holdings(b)[d][h] - x
    BY <2>1
  <2>3. QED
    BY <1>4, <2>2
<1>7. QED
  BY <1>4, <1>5, <1>6 DEF b2

-----------------------------------------------------------------------------
(* The books: what backs the supply, and where nothing can be *)

\* The token is on its own chain only, and a representation where it is named.
NothingAstray ==
    \A d \in Domains, h \in Holders :
       /\ d # Origin => balance[d][Native][h] = 0
       /\ \A c \in {Default, Custom} : c \notin known[d] => balance[d][c][h] = 0

\* A transfer is under way to where it is to be paid.
Addressed == \A m \in Underway(inflight) : m.transfer.to = m.to

\* Nobody can advance what is for nobody.
AdvancedToSomebody == \A t \in Transfers : provider[t] # Nobody => t.recipient \in Accounts

Books ==
    /\ IsFiniteSet(DOMAIN inflight)
    /\ NothingAstray
    /\ Addressed
    /\ AdvancedToSomebody
    /\ EscrowBacksSupply

\* What a step that leaves balances and messages alone does to the books
LEMMA BooksUntouched ==
    ASSUME Books, UNCHANGED <<balance, provider, inflight, lost>>,
           \A d \in Domains : known[d] \subseteq known'[d]
    PROVE  Books' /\ UNCHANGED Ledger!ledger
<1>1. NothingAstray'
  BY DEF Books, NothingAstray
<1>2. Addressed' /\ AdvancedToSomebody' /\ EscrowBacksSupply'
  BY DEF Books, Addressed, AdvancedToSomebody, EscrowBacksSupply
<1>3. UNCHANGED Ledger!ledger
  BY DEF Ledger!ledger
<1>4. QED
  BY <1>1, <1>2, <1>3 DEF Books

\* The facts every step starts from
LEMMA BooksTyped ==
    ASSUME IInv, Books
    PROVE  /\ balance \in Balances
           /\ FiniteBag(inflight)
           /\ Accounts \subseteq Holders /\ Router \in Holders /\ Router \notin Accounts
           /\ Contracts = {Native, Default, Custom}
           /\ lost \in Nat
           /\ Circulating(balance) \in Nat
           /\ Sent(inflight) \in Int
           /\ \A d \in Domains : known[d] \subseteq {Default, Custom}
           /\ balance[Origin][Native][Router] \in Nat
<1>1. balance \in Balances /\ FiniteBag(inflight)
  BY DEF IInv, TypeOK, Books, Balances, FiniteBag, MessageBag
<1>2. Accounts \subseteq Holders /\ Router \in Holders /\ Router \notin Accounts
  BY BridgeAssumption DEF Holders
<1>3. Circulating(balance) \in Nat
  BY <1>1, <1>2, BridgeAssumption, MintedBooks DEF Contracts
<1>4. RequestDetails(Origin, Origin) \in Message
  BY BridgeAssumption, SentAreMessages
<1>5. Sent(inflight) \in Int
  BY <1>1, <1>4, SentMore
<1>6. balance[Origin][Native][Router] \in Nat
  BY <1>1, <1>2, BridgeAssumption DEF Balances, Contracts
<1>7. QED
  BY <1>1, <1>2, <1>3, <1>5, <1>6 DEF Contracts, IInv, TypeOK

\* Sending takes from the sender, into escrow or out of circulation.
LEMMA SendBooks ==
    ASSUME IInv, Books, NEW d \in Domains, NEW e \in Domains, NEW c \in Contracts, NEW a \in Accounts,
           NEW x \in Amounts, NEW r \in Accounts \cup {Nobody}, Send(d, c, a, x, e, r)
    PROVE  Books' /\ Ledger!Next
<1> DEFINE m == Transfer(d, e, r, x)
           t == m.transfer
           escrow(b) == b[Origin][Native][Router]
<1>1. /\ balance \in Balances /\ FiniteBag(inflight) /\ lost \in Nat
      /\ a \in Holders /\ Router \in Holders /\ Router # a
      /\ Circulating(balance) \in Nat /\ Sent(inflight) \in Int
      /\ balance[d][c][a] \in Nat /\ escrow(balance) \in Nat
  BY BooksTyped DEF Balances
<1>2. x \in Nat /\ x > 0
  BY BridgeAssumption
<1>3. m \in Message /\ m.action = "transfer" /\ t \in Transfers /\ t.to = e /\ m.to = e /\ t.amount = x
  BY SentAreMessages DEF Transfer, Transfers
<1>4. /\ inflight' = inflight (+) One(m) /\ UNCHANGED <<known, provider, lost>>
      /\ Covers(balance, d, c, a, x)
  BY DEF Send, registry
<1>5. /\ Holdings(balance') = [Holdings(balance) EXCEPT ![d][a] = @ - x]
      /\ Circulating(balance') \in Nat /\ escrow(balance') \in Nat
      /\ escrow(balance') - Circulating(balance') = escrow(balance) - Circulating(balance) + x
      /\ NothingAstray'
  <2>1. CASE IsLocalOrigin(d, c)
    <3> DEFINE b1 == Burnt(balance, d, c, a, x)
    <3>1. d = Origin /\ c = Native
      BY <1>1, <1>2, <1>4, <2>1 DEF IsLocalOrigin, Covers, Books, NothingAstray, Contracts
    <3>2. balance' = Minted(b1, d, c, Router, x)
      BY <2>1 DEF Send, Moved
    <3>3. /\ b1 \in Balances
          /\ Circulating(b1) = Circulating(balance)
          /\ Holdings(b1) = [Holdings(balance) EXCEPT ![d][a] = @ - x]
          /\ OnlyAt(balance, b1, d, c, a)
      BY <1>1, <1>2, <1>4, <3>1, BurntTyped, BurntBooks, BurntAt
    <3> HIDE DEF b1
    <3>4. /\ Circulating(balance') = Circulating(b1)
          /\ Holdings(balance') = Holdings(b1)
          /\ OnlyAt(b1, balance', d, c, Router)
          /\ balance'[d][c][Router] = b1[d][c][Router] + x
      BY <1>1, <1>2, <3>1, <3>2, <3>3, MintedBooks, MintedAt
    <3>5. escrow(b1) = escrow(balance)
      BY <1>1, <3>1, <3>3 DEF OnlyAt
    <3>6. NothingAstray'
      BY <1>1, <1>4, <3>1, <3>3, <3>4, ThreeContracts DEF Books, NothingAstray, OnlyAt, Contracts
    <3>7. QED
      BY <1>1, <1>2, <3>1, <3>3, <3>4, <3>5, <3>6
  <2>2. CASE ~IsLocalOrigin(d, c)
    <3>1. c \in known[d] /\ c \in {Default, Custom} /\ d # Origin /\ c # Native
      BY <2>2, BooksTyped, ThreeContracts DEF IsLocalOrigin, IInv, Represented
    <3>2. balance' = Burnt(balance, d, c, a, x)
      BY <2>2 DEF Send
    <3>3. /\ balance' \in Balances
          /\ Circulating(balance') = Circulating(balance) - x
          /\ Holdings(balance') = [Holdings(balance) EXCEPT ![d][a] = @ - x]
          /\ OnlyAt(balance, balance', d, c, a)
      BY <1>1, <1>2, <1>4, <3>1, <3>2, BurntTyped, BurntBooks, BurntAt
    <3>4. Circulating(balance') \in Nat
      BY <1>1, <1>2, <3>3, MintedBooks
    <3>5. escrow(balance') = escrow(balance)
      BY <1>1, <3>1, <3>3, BridgeAssumption DEF OnlyAt, Contracts
    <3>6. NothingAstray'
      BY <1>1, <1>4, <3>1, <3>3, ThreeContracts DEF Books, NothingAstray, OnlyAt, Contracts
    <3>7. QED
      BY <1>1, <1>2, <3>3, <3>4, <3>5, <3>6
  <2>3. QED
    BY <2>1, <2>2
<1>6. FiniteBag(inflight') /\ Sent(inflight') = Sent(inflight) + x
  BY <1>1, <1>3, <1>4, OneMore, SentMore DEF Weight
<1>7. EscrowBacksSupply'
  BY <1>1, <1>2, <1>4, <1>5, <1>6 DEF Books, EscrowBacksSupply
<1>8. Addressed'
  <2>1. \A n \in Underway(inflight') : n \in Underway(inflight) \/ n = m
    BY <1>1, <1>3, <1>4, OneMore DEF SameBut, Underway, BagToSet
  <2>2. QED
    BY <1>3, <2>1 DEF Books, Addressed
<1>9. Books'
  BY <1>4, <1>5, <1>6, <1>7, <1>8 DEF Books, AdvancedToSomebody, FiniteBag
<1>10. Ledger!Depart(d, a, t)
  <2>1. Transit(inflight') = Transit(inflight) (+) SetToBag({t})
    BY <1>1, <1>3, <1>4, TransitMore
  <2>2. Holdings(balance)[d][a] >= x
    <3>1. /\ balance[d][Native][a] \in Nat /\ balance[d][Default][a] \in Nat
          /\ balance[d][Custom][a] \in Nat
      BY <1>1 DEF Balances, Contracts
    <3>2. Holding(balance, d, a) >= x
      BY <1>2, <1>4, <3>1 DEF Holding, Covers, Contracts
    <3>3. QED
      BY <3>2 DEF Holdings
  <2>3. QED
    BY <1>3, <1>4, <1>5, <2>1, <2>2 DEF Ledger!Depart, SetToBag, (+), Ledger!SetToBag, Ledger!(+)
<1>11. t \in BagToSet(Transit(inflight'))
  <2>1. m \in Carrying(inflight', t)
    BY <1>1, <1>3, <1>4 DEF Carrying, Underway, BagToSet, One, SetToBag, (+)
  <2>2. QED
    BY <2>1, TransitIs DEF BagToSet
<1>12. QED
  BY <1>9, <1>10, <1>11 DEF Ledger!Next, Ledger!BagToSet, BagToSet

\* What one account burns and another, or the same, is minted on the same chain
\* in the token or in its representations leaves escrow and supply as they were.
LEMMA ShiftBooks ==
    ASSUME IInv, Books, NEW d \in Domains, NEW c \in Contracts, NEW k \in Contracts,
           c = Native <=> k = Native,
           c = Native => d = Origin,
           c # Native => k \in known[d],
           NEW a \in Accounts, NEW h \in Accounts, NEW x \in Nat, Covers(balance, d, c, a, x),
           balance' = Minted(Burnt(balance, d, c, a, x), d, k, h, x),
           UNCHANGED <<known, lost, inflight>>
    PROVE  /\ Holdings(balance') = [[Holdings(balance) EXCEPT ![d][a] = @ - x] EXCEPT ![d][h] = @ + x]
           /\ Holdings(balance) \in [Domains -> [Accounts -> Nat]]
           /\ EscrowBacksSupply'
           /\ NothingAstray'
           /\ Addressed'
<1> DEFINE b1 == Burnt(balance, d, c, a, x)
           y == IF c = Native THEN 0 ELSE x
<1>1. /\ balance \in Balances /\ Circulating(balance) \in Nat /\ Native \in Contracts
      /\ a \in Holders /\ h \in Holders /\ Router \in Holders /\ a # Router /\ h # Router
  BY BooksTyped
<1>2. /\ b1 \in Balances
      /\ Circulating(b1) = Circulating(balance) - y
      /\ Holdings(b1) = [Holdings(balance) EXCEPT ![d][a] = @ - x]
      /\ OnlyAt(balance, b1, d, c, a)
  BY <1>1, BurntTyped, BurntBooks, BurntAt
<1> HIDE DEF b1
<1>3. balance' = Minted(b1, d, k, h, x) /\ y = IF k = Native THEN 0 ELSE x
  BY DEF b1
<1>0. y \in Nat
  OBVIOUS
<1> HIDE DEF y
<1>4. /\ Circulating(balance') = Circulating(b1) + y
      /\ Holdings(balance') = [Holdings(b1) EXCEPT ![d][h] = @ + x]
      /\ OnlyAt(b1, balance', d, k, h)
      /\ Circulating(b1) \in Nat
  <2>1. OnlyAt(b1, balance', d, k, h)
    BY <1>1, <1>2, <1>3, MintedAt
  <2>2. /\ Circulating(b1) \in Nat
        /\ Circulating(Minted(b1, d, k, h, x)) = Circulating(b1) + (IF k = Native THEN 0 ELSE x)
    BY <1>1, <1>2, MintedBooks
  <2>3. Holdings(Minted(b1, d, k, h, x)) = [Holdings(b1) EXCEPT ![d][h] = @ + x]
    <3>1. b1 \in Balances /\ d \in Domains /\ k \in Contracts /\ h \in Holders /\ x \in Nat /\ h \in Accounts
      BY <1>1, <1>2
    <3>2. h \in Accounts => Holdings(Minted(b1, d, k, h, x)) = [Holdings(b1) EXCEPT ![d][h] = @ + x]
      BY ONLY <3>1, MintedBooks
    <3>3. QED
      BY ONLY <3>1, <3>2
  <2>4. QED
    BY <1>3, <2>1, <2>2, <2>3
<1>5. balance'[Origin][Native][Router] = balance[Origin][Native][Router]
  BY <1>1, <1>2, <1>4, BridgeAssumption DEF OnlyAt
<1>6. Circulating(balance') = Circulating(balance)
  BY <1>0, <1>1, <1>2, <1>4
<1>7. EscrowBacksSupply'
  BY <1>5, <1>6 DEF Books, EscrowBacksSupply
<1>8. NothingAstray'
  <2>1. SUFFICES ASSUME NEW e \in Domains, NEW g \in Holders, NEW n \in Contracts,
                        (n = Native /\ e # Origin) \/ (n # Native /\ n \notin known[e])
                 PROVE  balance'[e][n][g] = 0
    BY ThreeContracts DEF NothingAstray, Contracts
  <2>2. balance[e][n][g] = 0
    BY <2>1 DEF Books, NothingAstray, Contracts
  <2>3. CASE e = d /\ n = c /\ g = a
    <3>1. balance[d][c][a] = 0 /\ x = 0
      BY <1>1, <2>2, <2>3 DEF Covers
    <3>2. b1[d][c][a] = 0
      BY <1>1, <3>1, BurntAt DEF b1
    <3>3. e # d \/ n # k \/ g # h \/ balance'[e][n][g] = b1[e][n][g] + x
      BY <1>1, <1>2, <1>3, MintedAt
    <3>4. QED
      BY <1>4, <2>3, <3>1, <3>2, <3>3 DEF OnlyAt
  <2>4. CASE ~(e = d /\ n = c /\ g = a)
    <3>1. b1[e][n][g] = 0
      BY <1>2, <2>2, <2>4 DEF OnlyAt
    <3>2. ~(e = d /\ n = k)
      BY <2>1
    <3>3. QED
      BY <1>4, <3>1, <3>2 DEF OnlyAt
  <2>5. QED
    BY <2>3, <2>4
<1>9. Addressed'
  BY DEF Books, Addressed
<1>10. Holdings(balance) \in [Domains -> [Accounts -> Nat]]
  BY <1>1, <1>2, HoldingsChange
<1>11. QED
  BY <1>2, <1>4, <1>7, <1>8, <1>9, <1>10

\* Who fills a transfer in advance pays its recipient what it had itself.
LEMMA PreFillBooks ==
    ASSUME IInv, Books, NEW a \in Accounts, NEW t \in Transfers, PreFill(a, t)
    PROVE  Books' /\ Ledger!Next
<1> DEFINE c == TokenAddress(t.to)
           d == t.to
           h == t.recipient
           x == AfterFee(t.amount)
<1>1. /\ d \in Domains /\ h \in Accounts /\ x \in Nat
      /\ UNCHANGED <<known, inflight, lost>>
      /\ provider' = [provider EXCEPT ![t] = a]
      /\ provider \in [Transfers -> Accounts \cup {Nobody}]
  BY BridgeAssumption, FeeTyped DEF PreFill, registry, Transfers, IInv, TypeOK
<1>2. /\ c \in Contracts
      /\ c = Native => d = Origin
      /\ c # Native => c \in known[d]
  <2>1. CASE d = Origin
    BY <2>1, ThreeContracts DEF TokenAddress, Contracts
  <2>2. CASE d # Origin
    <3>1. c = canonical[d] /\ c # NoToken
      BY <2>2 DEF PreFill, TokenAddress
    <3>2. c \in known[d] /\ known[d] \subseteq {Default, Custom}
      BY <1>1, <3>1, BooksTyped DEF IInv, Represented
    <3>3. QED
      BY <3>2, ThreeContracts DEF Contracts
  <2>3. QED
    BY <2>1, <2>2
<1>3. Covers(balance, d, c, a, x) /\ balance' = Minted(Burnt(balance, d, c, a, x), d, c, h, x)
  BY DEF PreFill, Moved
<1> HIDE DEF c, d, h, x
<1>4. /\ Holdings(balance') = [[Holdings(balance) EXCEPT ![d][a] = @ - x] EXCEPT ![d][h] = @ + x]
      /\ EscrowBacksSupply' /\ NothingAstray' /\ Addressed'
  <2>1. /\ IInv /\ Books /\ d \in Domains /\ c \in Contracts
        /\ c = Native => d = Origin
        /\ c # Native => c \in known[d]
        /\ a \in Accounts /\ h \in Accounts /\ x \in Nat /\ Covers(balance, d, c, a, x)
        /\ balance' = Minted(Burnt(balance, d, c, a, x), d, c, h, x)
        /\ UNCHANGED <<known, lost, inflight>>
    BY <1>1, <1>2, <1>3
  <2>2. QED
    BY ONLY <2>1, ShiftBooks
<1>5. AdvancedToSomebody'
  BY <1>1 DEF Books, AdvancedToSomebody, h
<1>6. Books'
  BY <1>1, <1>4, <1>5 DEF Books
<1>7. Holdings(balance)[d][a] >= x
  <2>1. /\ balance[d][Native][a] \in Nat /\ balance[d][Default][a] \in Nat
        /\ balance[d][Custom][a] \in Nat
    BY <1>1, BooksTyped DEF Balances
  <2>2. Holding(balance, d, a) >= x
    BY <1>1, <1>2, <1>3, <2>1 DEF Holding, Covers, Contracts
  <2>3. QED
    BY <1>1, <2>2 DEF Holdings
<1>8. x = Ledger!AfterFee(t.amount)
  BY DEF x, AfterFee, Ledger!AfterFee
<1>9. Ledger!Advance(a, t)
  <2>1. provider[t] = Nobody
    BY DEF PreFill
  <2>2. QED
    BY <1>1, <1>4, <1>7, <1>8, <2>1 DEF Ledger!Advance, Ledger!Paid, d, h
<1>10. QED
  BY <1>1, <1>6, <1>9 DEF Ledger!Next, h

\* A migration is not seen: an account holds as much, in another contract.
LEMMA MigrateBooks ==
    ASSUME IInv, Books, NEW d \in Domains, NEW c \in Contracts, NEW a \in Accounts, Migrate(d, c, a)
    PROVE  Books' /\ UNCHANGED Ledger!ledger
<1> DEFINE n == canonical[d]
           x == balance[d][c][a]
<1>1. /\ c \in known[d] /\ n \in known[d] /\ n \in Contracts
      /\ c # Native /\ n # Native
  BY BooksTyped, ThreeContracts DEF Migrate, IInv, Represented
<1>2. x \in Nat
  BY BooksTyped DEF Balances
<1>3. Covers(balance, d, c, a, x)
  BY <1>2 DEF Covers
<1>4. /\ balance' = Minted(Burnt(balance, d, c, a, x), d, n, a, x)
      /\ UNCHANGED <<known, provider, inflight, lost>>
  BY DEF Migrate, Migrated, registry
<1> HIDE DEF n, x
<1>5. /\ Holdings(balance') = [[Holdings(balance) EXCEPT ![d][a] = @ - x] EXCEPT ![d][a] = @ + x]
      /\ Holdings(balance) \in [Domains -> [Accounts -> Nat]]
      /\ EscrowBacksSupply' /\ NothingAstray' /\ Addressed'
  BY <1>1, <1>2, <1>3, <1>4, ShiftBooks
<1>6. Holdings(balance') = Holdings(balance)
  BY <1>2, <1>5
<1>7. QED
  BY <1>4, <1>5, <1>6 DEF Books, AdvancedToSomebody, Ledger!ledger

\* A message that carries no transfer is not seen either.
LEMMA PlainMessage ==
    ASSUME NEW B, FiniteBag(B), NEW m \in Message, m.action # "transfer"
    PROVE  /\ FiniteBag(B (+) One(m))
           /\ Sent(B (+) One(m)) = Sent(B)
           /\ Transit(B (+) One(m)) = Transit(B)
           /\ Underway(B (+) One(m)) = Underway(B)
<1>1. FiniteBag(B (+) One(m)) /\ SameBut(B, B (+) One(m), m)
  BY OneMore
<1>2. Sent(B (+) One(m)) = Sent(B)
  BY SentMore DEF Weight
<1>3. Transit(B (+) One(m)) = Transit(B)
  BY <1>1, TransitSame
<1>4. Underway(B (+) One(m)) = Underway(B)
  BY <1>1 DEF Underway, BagToSet, SameBut
<1>5. QED
  BY <1>1, <1>2, <1>3, <1>4

\* What accounts and owners do keeps the books, and is a step of the ledger or none.
LEMMA CallsBooks ==
    ASSUME IInv, Books, Next, ~\E m \in BagToSet(inflight) : Process(m)
    PROVE  Books' /\ [Ledger!Next]_(Ledger!ledger)
<1>1. ASSUME NEW d \in Domains, NEW c \in Contracts, EnrollCustom(d, c)
      PROVE  Books' /\ UNCHANGED Ledger!ledger
  <2>1. UNCHANGED <<balance, provider, inflight, lost>> /\ known' = [known EXCEPT ![d] = @ \cup {c}]
    BY <1>1 DEF EnrollCustom
  <2>2. \A e \in Domains : known[e] \subseteq known'[e]
    BY <2>1 DEF IInv, TypeOK
  <2>3. QED
    BY <2>1, <2>2, BooksUntouched
<1>2. ASSUME NEW d \in Domains, RequestDetailsAgain(d)
      PROVE  Books' /\ UNCHANGED Ledger!ledger
  <2> DEFINE m == RequestDetails(d, Origin)
  <2>1. m \in Message /\ m.action # "transfer"
    BY SentAreMessages, BridgeAssumption DEF RequestDetails
  <2>2. inflight' = inflight (+) One(m) /\ UNCHANGED <<balance, known, provider, lost>>
    BY <1>2 DEF RequestDetailsAgain, registry
  <2> HIDE DEF m
  <2>3. /\ FiniteBag(inflight') /\ Sent(inflight') = Sent(inflight)
        /\ Transit(inflight') = Transit(inflight) /\ Underway(inflight') = Underway(inflight)
    BY <2>1, <2>2, BooksTyped, PlainMessage
  <2>4. NothingAstray' /\ Addressed' /\ AdvancedToSomebody' /\ EscrowBacksSupply'
    BY <2>2, <2>3 DEF Books, NothingAstray, Addressed, AdvancedToSomebody, EscrowBacksSupply
  <2>5. QED
    BY <2>2, <2>3, <2>4 DEF Books, FiniteBag, Ledger!ledger
<1>3. ASSUME NEW d \in Domains, NEW e \in Wavering[d], NEW enrolled \in BOOLEAN,
             EnrollRemoteRouter(d, e, enrolled)
      PROVE  Books' /\ UNCHANGED Ledger!ledger
  BY <1>3, BooksUntouched DEF EnrollRemoteRouter, registry
<1>4. QED
  BY <1>1, <1>2, <1>3, SendBooks, PreFillBooks, MigrateBooks DEF Next

\* What delivering a message takes out of what is under way
LEMMA TakenOut ==
    ASSUME IInv, Books, NEW m \in BagToSet(inflight)
    PROVE  /\ m \in Message /\ FiniteBag(Remaining(m)) /\ Weight(m) \in Nat
           /\ Sent(Remaining(m)) = Sent(inflight) - Weight(m)
           /\ Underway(Remaining(m)) \subseteq Underway(inflight)
           /\ m.action # "transfer" => Transit(Remaining(m)) = Transit(inflight)
           /\ m.action = "transfer" =>
                 /\ Transit(Remaining(m)) = Transit(inflight) (-) SetToBag({m.transfer})
                 /\ m.transfer \in BagToSet(Transit(inflight))
                 /\ m.transfer \in Transfers /\ m.transfer.to = m.to
                 /\ Weight(m) = m.transfer.amount
<1> DEFINE C == inflight (-) One(m)
<1>1. FiniteBag(inflight) /\ C = Remaining(m)
  BY BooksTyped DEF Remaining
<1>2. m \in Message
  BY <1>1 DEF FiniteBag, MessageBag
<1>3. FiniteBag(C) /\ SameBut(inflight, C, m)
  BY <1>1, OneLess
<1>4. Sent(C) = Sent(inflight) - Weight(m) /\ Weight(m) \in Nat
  BY <1>1, SentLess
<1>5. Underway(C) \subseteq Underway(inflight)
  BY <1>3 DEF Underway, BagToSet, SameBut
<1>6. m.action # "transfer" => Transit(C) = Transit(inflight)
  BY <1>3, TransitSame
<1>7. m.action = "transfer" =>
         /\ Transit(C) = Transit(inflight) (-) SetToBag({m.transfer})
         /\ m.transfer \in BagToSet(Transit(inflight))
  BY <1>1, TransitLess
<1>8. m.action = "transfer" =>
         m.transfer \in Transfers /\ m.transfer.to = m.to /\ Weight(m) = m.transfer.amount
  BY <1>2, ReadMessage DEF Books, Addressed, Underway, Weight
<1> HIDE DEF C
<1>9. QED
  BY <1>1, <1>2, <1>3, <1>4, <1>5, <1>6, <1>7, <1>8

\* A transfer that arrives is paid out of escrow, or into circulation.
LEMMA HandleTransferBooks ==
    ASSUME IInv, Books, NEW m \in BagToSet(inflight), HandleTransfer(m)
    PROVE  Books' /\ Ledger!Next
<1> DEFINE t == m.transfer
           d == m.to
           h == Payee(t)
           x == t.amount
           rest == Remaining(m)
           escrow(b) == b[Origin][Native][Router]
<1>1. /\ m \in Message /\ m.action = "transfer" /\ t \in Transfers /\ t.to = d /\ d \in Domains
      /\ FiniteBag(rest) /\ x \in Nat
      /\ Sent(rest) = Sent(inflight) - x
      /\ Underway(rest) \subseteq Underway(inflight)
      /\ Transit(rest) = Transit(inflight) (-) SetToBag({t})
      /\ t \in BagToSet(Transit(inflight))
  BY TakenOut DEF HandleTransfer, Transfers
<1>2. /\ balance \in Balances /\ lost \in Nat /\ Circulating(balance) \in Nat /\ Sent(inflight) \in Int
      /\ Router \in Holders /\ Router \notin Accounts
      /\ Contracts = {Native, Default, Custom} /\ escrow(balance) \in Nat
  BY BooksTyped
<1>3. /\ CanPay(d, h, x)
      /\ known' = [known EXCEPT ![d] = IF TokenAddress(d) = NoToken THEN @ \cup {Default} ELSE @]
      /\ provider' = [provider EXCEPT ![t] = Nobody]
      /\ inflight' = rest (+) Asked(m) /\ lost' = lost
  BY DEF HandleTransfer
<1>4. h \in Accounts /\ h \in Holders /\ t.recipient \in Accounts
  <2>1. provider[t] \in Accounts \cup {Nobody} /\ t.recipient \in Accounts \cup {Nobody}
    BY <1>1 DEF IInv, TypeOK, Transfers
  <2>2. h # Nobody
    BY <1>3 DEF CanPay
  <2>3. h \in Accounts /\ t.recipient \in Accounts
    BY <1>1, <2>1, <2>2 DEF Payee, Books, AdvancedToSomebody
  <2>4. QED
    BY <2>3, BooksTyped
<1>5. /\ FiniteBag(inflight') /\ Sent(inflight') = Sent(rest)
      /\ Transit(inflight') = Transit(rest) /\ Underway(inflight') = Underway(rest)
  <2>1. CASE Asked(m) = EmptyBag
    <3>1. rest (+) EmptyBag = rest
      BY <1>1 DEF FiniteBag, MessageBag, EmptyBag, IsABag, SetToBag, (+)
    <3>2. QED
      BY <1>1, <1>3, <2>1, <3>1
  <2>2. CASE Asked(m) # EmptyBag
    <3> DEFINE q == RequestDetails(d, Origin)
    <3>1. Asked(m) = One(q)
      BY <2>2 DEF Asked, DetailsFrom
    <3>2. q \in Message /\ q.action # "transfer"
      BY <1>1, BridgeAssumption, SentAreMessages DEF RequestDetails
    <3> HIDE DEF q
    <3>3. inflight' = rest (+) One(q)
      BY <1>3, <3>1
    <3> HIDE DEF rest
    <3>4. QED
      BY <1>1, <3>2, <3>3, PlainMessage
  <2>3. QED
    BY <2>1, <2>2
<1>6. known \in [Domains -> SUBSET {Default, Custom}] /\ \A e \in Domains : known[e] \subseteq known'[e]
  BY <1>3 DEF IInv, TypeOK
<1> HIDE DEF h, x, rest
<1>7. /\ Holdings(balance') = [Holdings(balance) EXCEPT ![d][h] = @ + x]
      /\ Circulating(balance') \in Nat /\ escrow(balance') \in Nat
      /\ escrow(balance') - Circulating(balance') = escrow(balance) - Circulating(balance) - x
      /\ NothingAstray'
  <2>1. CASE d = Origin
    <3> DEFINE b1 == Burnt(balance, d, Native, Router, x)
    <3>1. balance' = Minted(b1, d, Native, h, x) /\ Covers(balance, d, Native, Router, x)
      BY <1>3, <2>1 DEF HandleTransfer, Moved, CanPay, h, x
    <3>2. /\ b1 \in Balances
          /\ Circulating(b1) = Circulating(balance)
          /\ Holdings(b1) = Holdings(balance)
          /\ OnlyAt(balance, b1, d, Native, Router)
          /\ b1[d][Native][Router] = balance[d][Native][Router] - x
      BY <1>1, <1>2, <3>1, BurntTyped, BurntBooks, BurntAt
    <3> HIDE DEF b1
    <3>3. OnlyAt(b1, balance', d, Native, h)
      BY <1>1, <1>2, <1>4, <3>1, <3>2, MintedAt
    <3>4. Circulating(balance') = Circulating(b1) /\ Holdings(balance') = [Holdings(b1) EXCEPT ![d][h] = @ + x]
      <4>1. /\ b1 \in Balances /\ d \in Domains /\ Native \in Contracts /\ h \in Holders
            /\ x \in Nat /\ h \in Accounts /\ Circulating(b1) \in Nat
        BY <1>1, <1>2, <1>4, <3>2
      <4>2. /\ Circulating(Minted(b1, d, Native, h, x)) = Circulating(b1) + 0
            /\ Holdings(Minted(b1, d, Native, h, x)) = [Holdings(b1) EXCEPT ![d][h] = @ + x]
        BY ONLY <4>1, MintedBooks
      <4>3. QED
        BY <3>1, <4>1, <4>2
    <3>5. escrow(balance') = escrow(balance) - x /\ escrow(balance) >= x
      BY <1>2, <1>4, <2>1, <3>1, <3>2, <3>3, BridgeAssumption DEF OnlyAt, Covers
    <3>6. NothingAstray'
      BY <1>2, <1>6, <2>1, <3>2, <3>3, ThreeContracts DEF Books, NothingAstray, OnlyAt
    <3>7. QED
      BY <1>1, <1>2, <3>2, <3>4, <3>5, <3>6
  <2>2. CASE d # Origin
    <3> DEFINE c == EnsuredToken(d)
    <3>1. c \in {Default, Custom} /\ c \in known'[d]
      <4>1. TokenAddress(d) = canonical[d] /\ canonical[d] \in {NoToken, Default, Custom}
        BY <1>1, <2>2 DEF TokenAddress, IInv, TypeOK
      <4>2. canonical[d] # NoToken => canonical[d] \in known[d]
        BY <1>1 DEF IInv, Represented
      <4>3. QED
        BY <1>1, <1>3, <1>6, <4>1, <4>2 DEF EnsuredToken
    <3>2. balance' = Minted(balance, d, c, h, x)
      BY <2>2 DEF HandleTransfer, h, x
    <3> HIDE DEF c
    <3>3. c # Native /\ c \in Contracts
      BY <1>2, <3>1, ThreeContracts
    <3>4. OnlyAt(balance, balance', d, c, h)
      BY <1>1, <1>2, <1>4, <3>2, <3>3, MintedAt
    <3>5. /\ Circulating(balance') = Circulating(balance) + x
          /\ Holdings(balance') = [Holdings(balance) EXCEPT ![d][h] = @ + x]
      <4>1. /\ balance \in Balances /\ d \in Domains /\ c \in Contracts /\ c # Native /\ h \in Holders
            /\ x \in Nat /\ h \in Accounts
        BY <1>1, <1>2, <1>4, <3>3
      <4>2. /\ Circulating(Minted(balance, d, c, h, x)) = Circulating(balance) + x
            /\ Holdings(Minted(balance, d, c, h, x)) = [Holdings(balance) EXCEPT ![d][h] = @ + x]
        BY ONLY <4>1, MintedBooks
      <4>3. QED
        BY <3>2, <4>2
    <3>6. escrow(balance') = escrow(balance)
      BY <1>2, <2>2, <3>4, BridgeAssumption DEF OnlyAt
    <3>7. NothingAstray'
      BY <1>2, <1>6, <2>2, <3>1, <3>3, <3>4, ThreeContracts DEF Books, NothingAstray, OnlyAt
    <3>8. QED
      BY <1>1, <1>2, <3>5, <3>6, <3>7
  <2>3. QED
    BY <2>1, <2>2
<1>8. EscrowBacksSupply'
  BY <1>1, <1>2, <1>3, <1>5, <1>7 DEF Books, EscrowBacksSupply
<1>9. Addressed' /\ AdvancedToSomebody'
  BY <1>1, <1>3, <1>5 DEF Books, Addressed, AdvancedToSomebody, IInv, TypeOK
<1>10. Books'
  BY <1>5, <1>7, <1>8, <1>9 DEF Books, FiniteBag
<1>11. Ledger!Arrive(t)
  <2>1. Transit(inflight') = Transit(inflight) (-) SetToBag({t})
    BY <1>1, <1>5
  <2>2. Holdings(balance') = Ledger!Paid(Holdings(balance), t.to, h, t.amount)
    BY <1>1, <1>7 DEF Ledger!Paid, x
  <2>3. h = IF provider[t] = Nobody THEN t.recipient ELSE provider[t]
    BY DEF h, Payee
  <2>4. QED
    BY <1>3, <2>1, <2>2, <2>3 DEF Ledger!Arrive, SetToBag, (-), Ledger!SetToBag, Ledger!(-)
<1>12. QED
  BY <1>1, <1>4, <1>10, <1>11 DEF Ledger!Next, Ledger!BagToSet, BagToSet

\* A transfer that is refused is lost to both its ends, and stays in escrow.
LEMMA RefuseBooks ==
    ASSUME IInv, Books, NEW m \in BagToSet(inflight), Refuse(m)
    PROVE  Books' /\ [Ledger!Next]_(Ledger!ledger)
<1>1. /\ inflight' = Remaining(m) /\ UNCHANGED <<balance, known, provider>>
      /\ lost' = lost + Weight(m)
  BY BooksTyped DEF Refuse, registry, Weight
<1>2. /\ FiniteBag(inflight') /\ Weight(m) \in Nat
      /\ Sent(inflight') = Sent(inflight) - Weight(m)
      /\ Underway(inflight') \subseteq Underway(inflight)
  BY <1>1, TakenOut
<1>3. NothingAstray' /\ Addressed' /\ AdvancedToSomebody'
  BY <1>1, <1>2 DEF Books, NothingAstray, Addressed, AdvancedToSomebody
<1>4. EscrowBacksSupply'
  BY <1>1, <1>2, BooksTyped DEF Books, EscrowBacksSupply
<1>5. Books'
  BY <1>2, <1>3, <1>4 DEF Books, FiniteBag
<1>6. CASE m.action = "transfer"
  <2>1. /\ Transit(inflight') = Transit(inflight) (-) SetToBag({m.transfer})
        /\ m.transfer \in BagToSet(Transit(inflight))
    BY <1>1, <1>6, TakenOut
  <2>2. Ledger!Perish(m.transfer)
    BY <1>1, <2>1 DEF Ledger!Perish, SetToBag, (-), Ledger!SetToBag, Ledger!(-)
  <2>3. QED
    BY <1>5, <2>1, <2>2 DEF Ledger!Next, Ledger!BagToSet, BagToSet
<1>7. CASE m.action # "transfer"
  <2>1. Transit(inflight') = Transit(inflight)
    BY <1>1, <1>7, TakenOut
  <2>2. QED
    BY <1>1, <1>5, <2>1 DEF Ledger!ledger
<1>8. QED
  BY <1>6, <1>7

\* Details, and requests for them, are nothing to the ledger.
LEMMA DetailsBooks ==
    ASSUME IInv, Books, NEW m \in BagToSet(inflight), HandleDetails(m) \/ HandleRequestDetails(m)
    PROVE  Books' /\ UNCHANGED Ledger!ledger
<1>1. m.action # "transfer" /\ UNCHANGED <<balance, known, provider, lost>>
  BY DEF HandleDetails, HandleRequestDetails, registry
<1>2. /\ FiniteBag(Remaining(m)) /\ Sent(Remaining(m)) = Sent(inflight)
      /\ Underway(Remaining(m)) \subseteq Underway(inflight)
      /\ Transit(Remaining(m)) = Transit(inflight)
  <2>1. Weight(m) = 0 /\ Sent(inflight) \in Int
    BY <1>1, BooksTyped DEF Weight
  <2>2. Sent(Remaining(m)) = Sent(inflight) - Weight(m) /\ FiniteBag(Remaining(m))
    BY TakenOut
  <2>3. Sent(Remaining(m)) = Sent(inflight)
    BY <2>1, <2>2
  <2>4. QED
    BY <1>1, <2>2, <2>3, TakenOut
<1>3. /\ FiniteBag(inflight') /\ Sent(inflight') = Sent(Remaining(m))
      /\ Underway(inflight') = Underway(Remaining(m)) /\ Transit(inflight') = Transit(Remaining(m))
  <2>1. CASE HandleDetails(m)
    BY <1>2, <2>1 DEF HandleDetails
  <2>2. CASE HandleRequestDetails(m)
    <3> DEFINE q == Details(m.to, m.from)
               rest == Remaining(m)
    <3>1. q \in Message /\ q.action # "transfer"
      BY TakenOut, ReadMessage, SentAreMessages DEF Details
    <3>2. inflight' = rest (+) One(q)
      BY <2>2 DEF HandleRequestDetails
    <3>3. FiniteBag(rest)
      BY <1>2
    <3> HIDE DEF q, rest
    <3>4. /\ FiniteBag(inflight') /\ Sent(inflight') = Sent(rest)
          /\ Underway(inflight') = Underway(rest) /\ Transit(inflight') = Transit(rest)
      BY <3>1, <3>2, <3>3, PlainMessage
    <3>5. QED
      BY <3>4 DEF rest
  <2>3. QED
    BY <2>1, <2>2
<1>4. NothingAstray' /\ Addressed' /\ AdvancedToSomebody'
  BY <1>1, <1>2, <1>3 DEF Books, NothingAstray, Addressed, AdvancedToSomebody
<1>5. EscrowBacksSupply'
  BY <1>1, <1>2, <1>3 DEF Books, EscrowBacksSupply
<1>6. QED
  BY <1>1, <1>2, <1>3, <1>4, <1>5 DEF Books, FiniteBag, Ledger!ledger

\* The books are right at first.
LEMMA InitBooks == Init => Books /\ Ledger!Init
<1> SUFFICES ASSUME Init
             PROVE  Books /\ Ledger!Init
  OBVIOUS
<1>1. IInv
  BY InitInvariant
<1>2. inflight = EmptyBag /\ DOMAIN inflight = {} /\ Underway(inflight) = {}
  BY DEF Init, EmptyBag, SetToBag, BagToSet, Underway
<1>3. IsFiniteSet(DOMAIN inflight)
  BY <1>2, FS_EmptySet
<1>4. NothingAstray
  BY ThreeContracts DEF Init, NothingAstray, Contracts
<1>5. Addressed /\ AdvancedToSomebody
  BY <1>2 DEF Init, Addressed, AdvancedToSomebody
<1>6. EscrowBacksSupply
  <2>1. Sent(inflight) = 0
    BY <1>2, SumEmpty DEF Sent, SumFunction
  <2>2. \A d \in Domains : Supply(balance, d) = 0
    <3> SUFFICES ASSUME NEW d \in Domains
                 PROVE  Supply(balance, d) = 0
      OBVIOUS
    <3> DEFINE f == [h \in Holders |-> balance[d][Default][h] + balance[d][Custom][h]]
    <3>1. \A h \in Holders : f[h] = 0
      BY ThreeContracts DEF Init, Contracts
    <3>2. Supply(balance, d) = SumFunctionOnSet(f, Holders)
      BY DEF Supply, SumFunction
    <3>3. IsFiniteSet(Holders)
      BY BridgeAssumption, FS_AddElement DEF Holders
    <3> HIDE DEF f
    <3>4. QED
      BY <3>1, <3>2, <3>3, SumOfZeros
  <2>3. Circulating(balance) = 0
    <3> DEFINE f == [d \in Domains |-> Supply(balance, d)]
    <3>1. \A d \in Domains : f[d] = 0
      BY <2>2
    <3>2. Circulating(balance) = SumFunctionOnSet(f, Domains) /\ IsFiniteSet(Domains)
      BY BridgeAssumption DEF Circulating, SumFunction
    <3> HIDE DEF f
    <3>3. QED
      BY <3>1, <3>2, SumOfZeros
  <2>4. balance[Origin][Native][Router] = 0
    BY BridgeAssumption DEF Init, Contracts, Holders
  <2>5. QED
    BY <2>1, <2>3, <2>4 DEF Init, EscrowBacksSupply
<1>7. Ledger!Init
  <2>1. Holdings(balance) \in [Domains -> [Accounts -> Nat]]
    BY <1>1, BridgeAssumption, HoldingsTyped DEF IInv, TypeOK, Balances
  <2>2. Transit(inflight) = EmptyBag
    BY <1>2 DEF Transit, EmptyBag, SetToBag
  <2>3. QED
    BY <2>1, <2>2 DEF Init, Ledger!Init, EmptyBag, SetToBag, Ledger!EmptyBag, Ledger!SetToBag
<1>8. QED
  BY <1>3, <1>4, <1>5, <1>6, <1>7 DEF Books

\* Every step keeps the books, and is a step of the ledger or is not seen by it.
LEMMA NextBooks ==
    ASSUME IInv, Books, [Next]_vars
    PROVE  Books' /\ [Ledger!Next]_(Ledger!ledger)
<1>1. CASE UNCHANGED vars
  BY <1>1, BooksUntouched DEF vars, registry
<1>2. ASSUME NEW m \in BagToSet(inflight), Process(m)
      PROVE  Books' /\ [Ledger!Next]_(Ledger!ledger)
  BY <1>2, HandleTransferBooks, RefuseBooks, DetailsBooks DEF Process
<1>3. CASE Next
  BY <1>2, <1>3, CallsBooks
<1>4. QED
  BY <1>1, <1>3

\* Over any number of chains, accounts, amounts and messages, of migrations,
\* refusals and advances: no balance, that of the escrow included, falls below
\* zero, and nothing but messages of the three kinds is ever under way.
THEOREM TypeCorrect == Spec => []TypeOK
<1>1. IInv => TypeOK
  BY DEF IInv
<1>2. QED
  BY <1>1, InitInvariant, NextInvariant, PTL DEF Spec

\* On the token's own chain escrow holds, at every moment, exactly what all
\* representations of it circulate on all other chains, with what is under way
\* and what was refused: for any number of chains, holders and messages, in
\* whatever order they are delivered.
THEOREM EscrowBacked == Spec => []EscrowBacksSupply
<1>1. IInv /\ Books /\ [Next]_vars => Books'
  BY NextBooks
<1>2. Init => Books
  BY InitBooks
<1>3. Books => EscrowBacksSupply
  BY DEF Books
<1>4. QED
  BY <1>1, <1>2, <1>3, InitInvariant, NextInvariant, PTL DEF Spec

\* The routers keep one ledger: each step of the bridge takes a transfer's amount
\* from one account, pays it once, to its recipient or to who advanced it, loses
\* it, or changes nothing that accounts hold.
THEOREM LedgerImplemented == Spec => ImplementsLedger
<1>1. IInv /\ Books /\ [Next]_vars => Books' /\ [Ledger!Next]_(Ledger!ledger)
  BY NextBooks
<1>2. Init => Books /\ Ledger!Init
  BY InitBooks
<1>3. QED
  BY <1>1, <1>2, InitInvariant, NextInvariant, PTL DEF Spec, ImplementsLedger, Ledger!Spec

=============================================================================
