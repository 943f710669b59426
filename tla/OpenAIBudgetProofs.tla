------------------------- MODULE OpenAIBudgetProofs -------------------------
(* Theorems about OpenAIBudget, for every number of threads and requests,   *)
(* every price and every limit, as long as no call outlives its             *)
(* reservation.                                                             *)
EXTENDS OpenAIBudget, FiniteSetTheorems, TLAPS

----------------------------------------------------------------------------
(* Sums                                                                     *)
(*                                                                          *)
(* SumFunctionOnSet takes one element after the other out of a set, each    *)
(* chosen from those that are left.  The proofs are by induction over the   *)
(* set: strict inclusion is well-founded on finite sets, so that a claim    *)
(* that is false of some subset is false of a smallest one.                 *)

Pick(s) == CHOOSE x \in s : TRUE
Rest(s) == s \ {Pick(s)}

LEMMA PickRest ==
  ASSUME NEW s, s # {} PROVE Pick(s) \in s /\ Rest(s) \subseteq s /\ Rest(s) # s
BY DEF Pick, Rest

LEMMA SubsetInduction ==
  ASSUME NEW S, IsFiniteSet(S), NEW G,
         \A s \in SUBSET S : (\A r \in SUBSET s : r # s => r \in G) => s \in G
  PROVE  S \in G
<1> DEFINE C == {s \in SUBSET S : s \notin G}
<1> SUFFICES ASSUME C # {} PROVE FALSE
  <2>1. S \in SUBSET S
    OBVIOUS
  <2> QED
    BY <2>1
<1>1. C \subseteq FiniteSubsetsOf(S)
  BY FS_Subset DEF FiniteSubsetsOf
<1>2. IsWellFoundedOn(StrictSubsetOrdering(S), FiniteSubsetsOf(S))
  BY FS_StrictSubsetOrderingWellFounded
<1>3. PICK m \in C : \A s \in C : ~ (<<s, m>> \in StrictSubsetOrdering(S))
  <2> HIDE DEF C
  <2> QED
    BY <1>1, <1>2, WFMin
<1>4. \A r \in SUBSET m : r # m => r \in G
  BY <1>3 DEF StrictSubsetOrdering
<1> QED
  BY <1>3, <1>4

(* The recursive function the sum is defined with.                          *)
Unfolds(g, f, S) ==
  g = [s \in SUBSET S |-> IF s = {} THEN 0 ELSE f[Pick(s)] + g[Rest(s)]]
Unfolding(f, S) == CHOOSE g : Unfolds(g, f, S)

LEMMA SumUnfolding ==
  ASSUME NEW f, NEW S PROVE SumFunctionOnSet(f, S) = Unfolding(f, S)[S]
BY DEF SumFunctionOnSet, FoldFunctionOnSet, MapThenFoldSet, Unfolding, Unfolds, Pick, Rest

(* Where two of these functions are both defined they agree.                *)
LEMMA UnfoldingsAgree ==
  ASSUME NEW S, NEW U \in SUBSET S, NEW f, NEW g, NEW h,
         Unfolds(g, f, S), Unfolds(h, f, U), NEW s \in SUBSET U, IsFiniteSet(s)
  PROVE  g[s] = h[s]
<1> DEFINE G == {r \in SUBSET U : g[r] = h[r]}
<1>1. ASSUME NEW r \in SUBSET s, \A q \in SUBSET r : q # r => q \in G PROVE r \in G
  <2>1. CASE r = {}
    BY <2>1 DEF Unfolds
  <2>2. CASE r # {}
    <3>1. Rest(r) \in G
      BY <1>1, <2>2, PickRest
    <3> QED
      BY <2>2, <3>1 DEF Unfolds
  <2> QED
    BY <2>1, <2>2
<1>2. s \in G
  <2> HIDE DEF G
  <2> QED
    BY <1>1, SubsetInduction
<1> QED
  BY <1>2

(* A sum is its first element and the sum of the rest.                      *)
LEMMA SumOfUnfoldings ==
  ASSUME NEW S, IsFiniteSet(S), S # {}, NEW f, Unfolds(Unfolding(f, S), f, S),
         Unfolds(Unfolding(f, Rest(S)), f, Rest(S))
  PROVE  SumFunctionOnSet(f, S) = f[Pick(S)] + SumFunctionOnSet(f, Rest(S))
<1>1. Rest(S) \in SUBSET S /\ IsFiniteSet(Rest(S))
  BY PickRest, FS_Subset
<1>2. Unfolding(f, S)[Rest(S)] = Unfolding(f, Rest(S))[Rest(S)]
  BY <1>1, UnfoldingsAgree
<1>3. Unfolding(f, S)[S] = f[Pick(S)] + Unfolding(f, S)[Rest(S)]
  BY DEF Unfolds
<1> QED
  BY <1>2, <1>3, SumUnfolding

(* There is such a function: sums of smaller sets make up the next.         *)
LEMMA UnfoldingExists ==
  ASSUME NEW S, IsFiniteSet(S), NEW f PROVE Unfolds(Unfolding(f, S), f, S)
<1> DEFINE G == {s \in SUBSET S : Unfolds(Unfolding(f, s), f, s)}
<1>1. ASSUME NEW m \in SUBSET S, \A r \in SUBSET m : r # m => r \in G PROVE m \in G
  <2> DEFINE g == [s \in SUBSET m |-> IF s = {} THEN 0
                                      ELSE f[Pick(s)] + SumFunctionOnSet(f, Rest(s))]
  <2>1. ASSUME NEW s \in SUBSET m, s # m PROVE g[s] = SumFunctionOnSet(f, s)
    <3>1. Unfolds(Unfolding(f, s), f, s)
      BY <1>1, <2>1
    <3>2. CASE s = {}
      BY <3>1, <3>2, SumUnfolding DEF Unfolds
    <3>3. CASE s # {}
      <4>1. Rest(s) \in SUBSET s /\ Rest(s) \in SUBSET m /\ Rest(s) # m
        BY <2>1, <3>3, PickRest
      <4>2. IsFiniteSet(s) /\ Unfolds(Unfolding(f, Rest(s)), f, Rest(s))
        BY <1>1, <4>1, FS_Subset
      <4>3. SumFunctionOnSet(f, s) = f[Pick(s)] + SumFunctionOnSet(f, Rest(s))
        BY <3>1, <3>3, <4>2, SumOfUnfoldings
      <4> QED
        BY <3>3, <4>3
    <3> QED
      BY <3>2, <3>3
  <2>2. ASSUME NEW s \in SUBSET m, s # {} PROVE g[Rest(s)] = SumFunctionOnSet(f, Rest(s))
    <3>1. Rest(s) \in SUBSET m /\ Rest(s) # m
      BY <2>2, PickRest
    <3> HIDE DEF g
    <3> QED
      BY <2>1, <3>1
  <2>3. Unfolds(g, f, m)
    BY <2>2 DEF Unfolds
  <2> HIDE DEF g
  <2> QED
    BY <2>3 DEF Unfolding
<1>2. S \in G
  <2> HIDE DEF G
  <2> QED
    BY <1>1, SubsetInduction
<1> QED
  BY <1>2

LEMMA SumOfNone == ASSUME NEW f PROVE SumFunctionOnSet(f, {}) = 0
<1>1. Unfolds(Unfolding(f, {}), f, {})
  BY UnfoldingExists, FS_EmptySet
<1>2. Unfolding(f, {})[{}] = 0
  BY <1>1 DEF Unfolds
<1> QED
  BY <1>2, SumUnfolding

LEMMA SumPick ==
  ASSUME NEW S, IsFiniteSet(S), S # {}, NEW f
  PROVE  SumFunctionOnSet(f, S) = f[Pick(S)] + SumFunctionOnSet(f, Rest(S))
<1>1. Unfolds(Unfolding(f, S), f, S)
  BY UnfoldingExists
<1>2. Unfolds(Unfolding(f, Rest(S)), f, Rest(S))
  BY PickRest, FS_Subset, UnfoldingExists
<1> QED
  BY <1>1, <1>2, SumOfUnfoldings

LEMMA SumNat ==
  ASSUME NEW S, IsFiniteSet(S), NEW f, \A x \in S : f[x] \in Nat
  PROVE  SumFunctionOnSet(f, S) \in Nat
<1> DEFINE G == {s \in SUBSET S : SumFunctionOnSet(f, s) \in Nat}
<1>1. ASSUME NEW s \in SUBSET S, \A r \in SUBSET s : r # s => r \in G PROVE s \in G
  <2>1. CASE s = {}
    BY <2>1, SumOfNone
  <2>2. CASE s # {}
    <3>1. Rest(s) \in G /\ f[Pick(s)] \in Nat
      BY <1>1, <2>2, PickRest
    <3>2. IsFiniteSet(s)
      BY FS_Subset
    <3> QED
      BY <2>2, <3>1, <3>2, SumPick
  <2> QED
    BY <2>1, <2>2
<1>2. S \in G
  <2> HIDE DEF G
  <2> QED
    BY <1>1, SubsetInduction
<1> QED
  BY <1>2

LEMMA SumOfZeros ==
  ASSUME NEW S, IsFiniteSet(S), NEW f, \A x \in S : f[x] = 0
  PROVE  SumFunctionOnSet(f, S) = 0
<1> DEFINE G == {s \in SUBSET S : SumFunctionOnSet(f, s) = 0}
<1>1. ASSUME NEW s \in SUBSET S, \A r \in SUBSET s : r # s => r \in G PROVE s \in G
  <2>1. CASE s = {}
    BY <2>1, SumOfNone
  <2>2. CASE s # {}
    <3>1. Rest(s) \in G /\ f[Pick(s)] = 0
      BY <1>1, <2>2, PickRest
    <3>2. IsFiniteSet(s)
      BY FS_Subset
    <3> QED
      BY <2>2, <3>1, <3>2, SumPick
  <2> QED
    BY <2>1, <2>2
<1>2. S \in G
  <2> HIDE DEF G
  <2> QED
    BY <1>1, SubsetInduction
<1> QED
  BY <1>2

(* Any element may be taken out first.                                      *)
LEMMA SumTakeOut ==
  ASSUME NEW S, IsFiniteSet(S), NEW f, \A x \in S : f[x] \in Nat, NEW x \in S
  PROVE  SumFunctionOnSet(f, S) = f[x] + SumFunctionOnSet(f, S \ {x})
<1> DEFINE Any(s) == \A y \in s :
                       SumFunctionOnSet(f, s) = f[y] + SumFunctionOnSet(f, s \ {y})
           G == {s \in SUBSET S : Any(s)}
<1>1. ASSUME NEW s \in SUBSET S, \A r \in SUBSET s : r # s => r \in G, NEW y \in s
      PROVE  SumFunctionOnSet(f, s) = f[y] + SumFunctionOnSet(f, s \ {y})
  <2>1. PICK z \in s : z = Pick(s) /\ Rest(s) = s \ {z}
    BY PickRest DEF Rest
  <2>2. IsFiniteSet(s)
    BY FS_Subset
  <2>3. SumFunctionOnSet(f, s) = f[z] + SumFunctionOnSet(f, s \ {z})
    BY <2>1, <2>2, SumPick
  <2>4. CASE y = z
    BY <2>3, <2>4
  <2>5. CASE y # z
    <3>1. s \ {z} \in G /\ s \ {y} \in G
      BY <1>1
    <3>2. /\ SumFunctionOnSet(f, s \ {z}) = f[y] + SumFunctionOnSet(f, (s \ {z}) \ {y})
          /\ SumFunctionOnSet(f, s \ {y}) = f[z] + SumFunctionOnSet(f, (s \ {y}) \ {z})
      BY <2>5, <3>1
    <3> DEFINE R == (s \ {z}) \ {y}
    <3>3. R = (s \ {y}) \ {z} /\ IsFiniteSet(R) /\ R \subseteq S
      BY <2>2, FS_Subset
    <3> HIDE DEF R
    <3>4. SumFunctionOnSet(f, R) \in Nat
      BY <3>3, SumNat
    <3>5. f[y] \in Nat /\ f[z] \in Nat
      BY <1>1
    <3>6. /\ SumFunctionOnSet(f, s \ {z}) = f[y] + SumFunctionOnSet(f, R)
          /\ SumFunctionOnSet(f, s \ {y}) = f[z] + SumFunctionOnSet(f, R)
      BY <3>2, <3>3 DEF R
    <3> QED
      BY <2>3, <3>4, <3>5, <3>6
  <2> QED
    BY <2>4, <2>5
<1>2. ASSUME NEW s \in SUBSET S, \A r \in SUBSET s : r # s => r \in G PROVE s \in G
  <2>1. Any(s)
    BY <1>1, <1>2
  <2> QED
    BY <2>1
<1>3. S \in G
  <2> HIDE DEF G
  <2> QED
    BY <1>2, SubsetInduction
<1> QED
  BY <1>3

LEMMA SumPutIn ==
  ASSUME NEW S, IsFiniteSet(S), NEW f, NEW x, x \notin S,
         \A y \in S \cup {x} : f[y] \in Nat
  PROVE  SumFunctionOnSet(f, S \cup {x}) = f[x] + SumFunctionOnSet(f, S)
<1>1. (S \cup {x}) \ {x} = S /\ IsFiniteSet(S \cup {x})
  BY FS_AddElement
<1> QED
  BY <1>1, SumTakeOut

LEMMA SumAtMost ==
  ASSUME NEW S, IsFiniteSet(S), NEW f, NEW g,
         \A x \in S : f[x] \in Nat /\ g[x] \in Nat /\ f[x] <= g[x]
  PROVE  SumFunctionOnSet(f, S) <= SumFunctionOnSet(g, S)
<1> DEFINE G == {s \in SUBSET S : SumFunctionOnSet(f, s) <= SumFunctionOnSet(g, s)}
<1>1. ASSUME NEW s \in SUBSET S, \A r \in SUBSET s : r # s => r \in G PROVE s \in G
  <2>1. CASE s = {}
    BY <2>1, SumOfNone
  <2>2. CASE s # {}
    <3>1. /\ Rest(s) \in SUBSET S /\ Rest(s) \in G
          /\ f[Pick(s)] \in Nat /\ g[Pick(s)] \in Nat /\ f[Pick(s)] <= g[Pick(s)]
      BY <1>1, <2>2, PickRest
    <3>2. IsFiniteSet(s) /\ IsFiniteSet(Rest(s))
      BY <3>1, FS_Subset
    <3>3. SumFunctionOnSet(f, Rest(s)) \in Nat /\ SumFunctionOnSet(g, Rest(s)) \in Nat
      BY <3>1, <3>2, SumNat
    <3>4. /\ SumFunctionOnSet(f, s) = f[Pick(s)] + SumFunctionOnSet(f, Rest(s))
          /\ SumFunctionOnSet(g, s) = g[Pick(s)] + SumFunctionOnSet(g, Rest(s))
      BY <2>2, <3>2, SumPick
    <3>5. SumFunctionOnSet(f, Rest(s)) <= SumFunctionOnSet(g, Rest(s))
      BY <3>1
    <3>6. SumFunctionOnSet(f, s) <= SumFunctionOnSet(g, s)
      BY <3>1, <3>3, <3>4, <3>5
    <3> QED
      BY <3>6
  <2> QED
    BY <2>1, <2>2
<1>2. S \in G
  <2> HIDE DEF G
  <2> QED
    BY <1>1, SubsetInduction
<1> QED
  BY <1>2

(* Only the values on the set count.                                        *)
LEMMA SumSame ==
  ASSUME NEW S, IsFiniteSet(S), NEW f, NEW g,
         \A x \in S : f[x] \in Nat /\ f[x] = g[x]
  PROVE  SumFunctionOnSet(f, S) = SumFunctionOnSet(g, S)
<1>1. /\ SumFunctionOnSet(f, S) <= SumFunctionOnSet(g, S)
      /\ SumFunctionOnSet(g, S) <= SumFunctionOnSet(f, S)
  BY SumAtMost
<1>2. SumFunctionOnSet(f, S) \in Nat /\ SumFunctionOnSet(g, S) \in Nat
  BY SumNat
<1> QED
  BY <1>1, <1>2

LEMMA SumOfParts ==
  ASSUME NEW S, NEW T, IsFiniteSet(S), IsFiniteSet(T), S \cap T = {}, NEW f,
         \A x \in S \cup T : f[x] \in Nat
  PROVE  SumFunctionOnSet(f, S \cup T) = SumFunctionOnSet(f, S) + SumFunctionOnSet(f, T)
<1> DEFINE Parts(s) == SumFunctionOnSet(f, S \cup s) =
                         SumFunctionOnSet(f, S) + SumFunctionOnSet(f, s)
           G == {s \in SUBSET T : Parts(s)}
<1>0. SumFunctionOnSet(f, S) \in Nat
  BY SumNat
<1>1. ASSUME NEW s \in SUBSET T, \A r \in SUBSET s : r # s => r \in G PROVE s \in G
  <2>1. CASE s = {}
    <3>1. S \cup s = S
      BY <2>1
    <3> QED
      BY <1>0, <2>1, <3>1, SumOfNone
  <2>2. CASE s # {}
    <3>1. PICK x \in s : TRUE
      BY <2>2
    <3> DEFINE R == s \ {x}
    <3>2. R \in SUBSET T /\ R \in G /\ s = R \cup {x} /\ x \notin R
      BY <1>1
    <3>3. IsFiniteSet(R) /\ IsFiniteSet(S \cup R) /\ x \notin S \cup R
      BY <3>2, FS_Subset, FS_Union
    <3>4. S \cup s = (S \cup R) \cup {x}
      BY <3>2
    <3>5. f[x] \in Nat /\ SumFunctionOnSet(f, R) \in Nat
      BY <3>2, <3>3, SumNat
    <3>6. SumFunctionOnSet(f, S \cup R) = SumFunctionOnSet(f, S) + SumFunctionOnSet(f, R)
      BY <3>2
    <3>7. \A y \in (S \cup R) \cup {x} : f[y] \in Nat
      BY <3>2
    <3> HIDE DEF R
    <3>8. /\ SumFunctionOnSet(f, s) = f[x] + SumFunctionOnSet(f, R)
          /\ SumFunctionOnSet(f, S \cup s) = f[x] + SumFunctionOnSet(f, S \cup R)
      BY <3>2, <3>3, <3>4, <3>7, SumPutIn
    <3>9. Parts(s)
      BY <1>0, <3>5, <3>6, <3>8
    <3> QED
      BY <3>9
  <2> QED
    BY <2>1, <2>2
<1>2. T \in G
  <2> HIDE DEF G
  <2> QED
    BY <1>1, SubsetInduction
<1> QED
  BY <1>2
----------------------------------------------------------------------------
(* Numbers                                                                  *)

(* The numbers up to b are b in number.                                     *)
LEMMA UpTo ==
  ASSUME NEW b \in Nat PROVE IsFiniteSet(1 .. b) /\ Cardinality(1 .. b) = b
<1>1. 1 \in Int /\ b \in Int
  OBVIOUS
<1>2. /\ IsFiniteSet(1 .. b)
      /\ Cardinality(1 .. b) = IF 1 > b THEN 0 ELSE b - 1 + 1
  BY <1>1, FS_Interval
<1>3. (IF 1 > b THEN 0 ELSE b - 1 + 1) = b
  OBVIOUS
<1> QED
  BY <1>2, <1>3

USE EstimateAssumption, NoRequestAssumption, BudgetBoundsAssumption

----------------------------------------------------------------------------
(* The runs of a thread                                                     *)

Owning == {"parse_review", "get_run", "finalise"}
StepNames == {"idle", "find_completed", "reserve", "advance", "state"} \cup Owning

(* A thread works on an open run of its own, which has not expired.         *)
ThreadOK(t) ==
  /\ pc[t] \in {"find_completed", "reserve", "advance"} => run[t] \in Requests \X {0}
  /\ pc[t] \in {"idle", "state"} => run[t] \in (Requests \cup {NoRequest}) \X {0}
  /\ pc[t] \in Owning =>
       run[t] \in Runs \ expired /\ runs[run[t]].status = "RESERVED"
  /\ pc[t] \in {"get_run", "finalise"} => answer[t].status \in Settled

Alone(t, u) == pc[t] \in Owning /\ pc[u] \in Owning /\ run[t] = run[u] => t = u

Started(q) == {a \in Attempts : runs[<<q, a>>].status # "NONE"}
Pending(q) == {t \in Threads : pc[t] \in {"find_completed", "reserve"} /\ run[t][1] = q}

(* The attempts of a request are numbered without a gap, and every call may *)
(* start one.                                                               *)
AttemptsOK(q) ==
  /\ \A a \in Started(q) : 1 .. a \subseteq Started(q)
  /\ IsFiniteSet(Pending(q))
  /\ Cardinality(Started(q)) + Cardinality(Pending(q)) <= calls

Typed ==
  /\ runs \in [Runs -> Outcomes]
  /\ answer \in [Threads -> Outcomes]
  /\ pc \in [Threads -> StepNames]
  /\ DOMAIN run = Threads
  /\ expired \subseteq {r \in Runs : runs[r].status # "NONE"}
  /\ calls \in Nat /\ calls <= MaxCalls

RunInv ==
  /\ Typed
  /\ \A t \in Threads : ThreadOK(t)
  /\ \A t, u \in Threads : Alone(t, u)
  /\ \A q \in Requests : AttemptsOK(q)

LEMMA StartedFinite ==
  \A q \in Requests :
    /\ IsFiniteSet(Started(q)) /\ Cardinality(Started(q)) \in Nat
    /\ NextAttempt(q) = 1 + Cardinality(Started(q))
<1> TAKE q \in Requests
<1>1. IsFiniteSet(Attempts)
  BY UpTo DEF Attempts
<1>2. IsFiniteSet(Started(q))
  BY <1>1, FS_Subset DEF Started
<1> QED
  BY <1>2, FS_CardinalityType DEF NextAttempt, Started

(* The attempt a call gets has not been started, and those before it have.  *)
LEMMA NextIsFree ==
  ASSUME NEW q \in Requests, AttemptsOK(q), Pending(q) # {},
         calls \in Nat, calls <= MaxCalls
  PROVE  /\ NextAttempt(q) \in Attempts \ Started(q)
         /\ \A a \in 1 .. NextAttempt(q) - 1 : a \in Started(q)
<1>1. PICK k \in Nat : k = Cardinality(Started(q))
  BY StartedFinite
<1>2. NextAttempt(q) = k + 1 /\ IsFiniteSet(Started(q))
  BY <1>1, StartedFinite
<1>3. Cardinality(Pending(q)) \in Nat /\ Cardinality(Pending(q)) # 0
  BY FS_CardinalityType, FS_EmptySet DEF AttemptsOK
<1>4. k + 1 <= MaxCalls
  BY <1>1, <1>3 DEF AttemptsOK
<1>5. k + 1 \notin Started(q)
  <2> SUFFICES ASSUME k + 1 \in Started(q) PROVE FALSE
    OBVIOUS
  <2>1. 1 .. k + 1 \subseteq Started(q)
    BY DEF AttemptsOK
  <2>2. Cardinality(1 .. k + 1) = k + 1
    <3>1. PICK b \in Nat : b = k + 1
      OBVIOUS
    <3> QED
      BY <3>1, UpTo
  <2>3. Cardinality(1 .. k + 1) <= Cardinality(Started(q))
    BY <1>2, <2>1, FS_Subset
  <2> QED
    BY <1>1, <2>2, <2>3
<1>6. ASSUME NEW a \in 1 .. k PROVE a \in Started(q)
  <2> SUFFICES ASSUME a \notin Started(q) PROVE FALSE
    OBVIOUS
  <2>1. Started(q) \subseteq 1 .. a - 1
    <3>1. ASSUME NEW b \in Started(q), ~ (b <= a - 1) PROVE FALSE
      <4>1. b \in Nat /\ 1 .. b \subseteq Started(q)
        BY <3>1 DEF AttemptsOK, Started, Attempts
      <4> QED
        BY <3>1, <4>1
    <3> QED
      BY <3>1 DEF Started, Attempts
  <2>2. IsFiniteSet(1 .. a - 1) /\ Cardinality(1 .. a - 1) = a - 1
    <3>1. PICK b \in Nat : b = a - 1
      OBVIOUS
    <3> QED
      BY <3>1, UpTo
  <2>3. Cardinality(Started(q)) <= Cardinality(1 .. a - 1)
    BY <2>1, <2>2, FS_Subset
  <2> QED
    BY <1>1, <2>2, <2>3
<1> QED
  BY <1>2, <1>4, <1>5, <1>6 DEF Attempts

LEMMA RunInit == Init => RunInv
<1> SUFFICES ASSUME Init PROVE RunInv
  OBVIOUS
<1>1. Typed
  BY DEF Init, Typed, NoRun, NoAnswer, Outcomes, Statuses, StepNames, Settled
<1>2. \A t \in Threads : ThreadOK(t)
  BY DEF Init, ThreadOK, Unstarted, Owning
<1>3. \A t, u \in Threads : Alone(t, u)
  BY DEF Init, Alone, Owning
<1>4. ASSUME NEW q \in Requests PROVE AttemptsOK(q)
  <2>1. Started(q) = {} /\ Pending(q) = {}
    BY DEF Init, Started, Pending, NoRun, Runs
  <2> QED
    BY <2>1, FS_EmptySet DEF AttemptsOK, Init
<1> QED
  BY <1>1, <1>2, <1>3, <1>4 DEF RunInv

----------------------------------------------------------------------------
(* One step per action                                                      *)

LEMMA CostType == \A r \in Runs : EstimatedCost(r) \in Nat
BY DEF Runs, EstimatedCost

(* A reclaim settles open runs that have expired, and nothing else.         *)
LEMMA Reclaims ==
  ASSUME Typed
  PROVE  /\ ReclaimedRuns \in [Runs -> Outcomes]
         /\ \A r \in Runs : ReclaimedRuns[r].status = "NONE" <=> runs[r].status = "NONE"
         /\ \A r \in Runs \ expired : ReclaimedRuns[r] = runs[r]
         /\ \A r \in Runs : runs[r].status \in Settled => ReclaimedRuns[r] = runs[r]
<1>1. \A r \in Runs :
        [status |-> "FAILED", actual_cost |-> EstimatedCost(r)] \in Outcomes
  BY CostType DEF Outcomes, Statuses, Settled
<1>2. ReclaimedRuns \in [Runs -> Outcomes]
  BY <1>1 DEF Typed, ReclaimedRuns
<1> QED
  BY <1>2 DEF Typed, ReclaimedRuns, StaleRuns, Settled

(* A step that starts no run.                                               *)
LEMMA AttemptsStay ==
  ASSUME RunInv, NEW q \in Requests, calls' \in Nat, calls <= calls',
         Started(q)' = Started(q), Pending(q)' \subseteq Pending(q)
  PROVE  AttemptsOK(q)'
<1>1. /\ IsFiniteSet(Pending(q)')
      /\ Cardinality(Pending(q)') <= Cardinality(Pending(q))
  BY FS_Subset DEF RunInv, AttemptsOK
<1>2. /\ Cardinality(Started(q)) \in Nat /\ Cardinality(Pending(q)) \in Nat
      /\ Cardinality(Pending(q)') \in Nat /\ calls \in Nat
      /\ Cardinality(Started(q)) + Cardinality(Pending(q)) <= calls
  BY <1>1, StartedFinite, FS_CardinalityType DEF RunInv, AttemptsOK, Typed
<1>3. \A a \in Started(q)' : 1 .. a \subseteq Started(q)'
  BY DEF RunInv, AttemptsOK
<1>4. Cardinality(Started(q)') + Cardinality(Pending(q)') <= calls'
  BY <1>1, <1>2
<1> QED
  BY <1>1, <1>3, <1>4 DEF AttemptsOK

(* A step of one thread that neither starts a run nor takes one over.       *)
LEMMA LocalStep ==
  ASSUME RunInv, NEW t \in Threads, NEW step \in StepNames, Goto(t, step),
         UNCHANGED <<expired, calls>>, runs' \in [Runs -> Outcomes],
         \A r \in Runs : runs'[r].status = "NONE" <=> runs[r].status = "NONE",
         \A u \in Threads \ {t} :
           /\ run'[u] = run[u] /\ answer'[u] = answer[u]
           /\ pc[u] \in Owning => runs'[run[u]].status = "RESERVED",
         DOMAIN run' = Threads, answer' \in [Threads -> Outcomes],
         ThreadOK(t)',
         step \in Owning => pc[t] \in Owning /\ run'[t] = run[t],
         step \in {"find_completed", "reserve"} =>
           pc[t] \in {"find_completed", "reserve"} /\ run'[t] = run[t]
  PROVE  RunInv'
<1>1. pc' \in [Threads -> StepNames] /\ pc'[t] = step
      /\ \A u \in Threads \ {t} : pc'[u] = pc[u]
  BY DEF RunInv, Typed, Goto
<1>2. Typed'
  BY <1>1 DEF RunInv, Typed
<1>3. ASSUME NEW u \in Threads PROVE ThreadOK(u)'
  BY <1>1 DEF RunInv, ThreadOK
<1>4. ASSUME NEW u \in Threads, NEW v \in Threads PROVE Alone(u, v)'
  <2>1. Alone(u, v)
    BY DEF RunInv
  <2>2. /\ pc'[u] \in Owning => pc[u] \in Owning /\ run'[u] = run[u]
        /\ pc'[v] \in Owning => pc[v] \in Owning /\ run'[v] = run[v]
    BY <1>1
  <2> QED
    BY <2>1, <2>2 DEF Alone
<1>5. ASSUME NEW q \in Requests PROVE AttemptsOK(q)'
  <2>1. Started(q)' = Started(q)
    BY DEF Started, Runs
  <2>2. Pending(q)' \subseteq Pending(q)
    BY <1>1 DEF Pending
  <2> QED
    BY <2>1, <2>2, AttemptsStay DEF RunInv, Typed
<1> QED
  BY <1>2, <1>3, <1>4, <1>5 DEF RunInv

(* A thread that returns.                                                   *)
LEMMA ReturnOK ==
  ASSUME RunInv, NEW t \in Threads, Return(t),
         UNCHANGED <<expired, calls>>, runs' \in [Runs -> Outcomes],
         \A r \in Runs : runs'[r].status = "NONE" <=> runs[r].status = "NONE",
         \A u \in Threads \ {t} : pc[u] \in Owning => runs'[run[u]].status = "RESERVED"
  PROVE  RunInv'
<1>1. /\ Goto(t, "idle") /\ "idle" \in StepNames \ Owning
      /\ run' = [run EXCEPT ![t] = Unstarted(NoRequest)]
      /\ answer' = [answer EXCEPT ![t] = NoAnswer]
  BY DEF Return, StepNames, Owning
<1>2. /\ \A u \in Threads \ {t} : run'[u] = run[u] /\ answer'[u] = answer[u]
      /\ DOMAIN run' = Threads /\ answer' \in [Threads -> Outcomes]
      /\ pc'[t] = "idle" /\ run'[t] = Unstarted(NoRequest)
  BY <1>1 DEF RunInv, Typed, Outcomes, NoAnswer, NoRun, Statuses, Goto
<1>3. ThreadOK(t)'
  BY <1>2 DEF ThreadOK, Owning, Unstarted
<1> QED
  BY <1>1, <1>2, <1>3, LocalStep

LEMMA RunStep ==
  ASSUME ~ SlowCalls PROVE RunInv /\ [Next]_vars => RunInv'
<1> SUFFICES ASSUME RunInv, [Next]_vars PROVE RunInv'
  OBVIOUS
<1> USE DEF Owning, StepNames
<1>0. /\ runs \in [Runs -> Outcomes] /\ answer \in [Threads -> Outcomes]
      /\ pc \in [Threads -> StepNames] /\ DOMAIN run = Threads
      /\ calls \in Nat /\ calls <= MaxCalls
      /\ \A u \in Threads : ThreadOK(u)
      /\ \A u \in Threads : pc[u] \in Owning => runs[run[u]].status = "RESERVED"
      /\ \A u, v \in Threads : Alone(u, v)
  BY DEF RunInv, Typed, ThreadOK
<1>1. ASSUME NEW t \in Threads, NEW q \in Requests, Call(t, q) PROVE RunInv'
  <2>1. /\ pc[t] = "idle" /\ calls' = calls + 1 /\ calls' \in Nat /\ calls' <= MaxCalls
        /\ pc' = [pc EXCEPT ![t] = "find_completed"]
        /\ run' = [run EXCEPT ![t] = Unstarted(q)]
        /\ UNCHANGED <<runs, expired, answer>>
    BY <1>0, <1>1 DEF Call, Goto
  <2>2. Typed'
    BY <1>0, <2>1 DEF RunInv, Typed
  <2>3. \A u \in Threads : ThreadOK(u)'
    BY <1>0, <2>1 DEF ThreadOK, Unstarted
  <2>4. \A u, v \in Threads : Alone(u, v)'
    BY <1>0, <2>1 DEF Alone
  <2>5. ASSUME NEW p \in Requests PROVE AttemptsOK(p)'
    <3>1. Started(p)' = Started(p)
      BY <2>1 DEF Started
    <3>2. CASE p # q
      <4>1. Pending(p)' \subseteq Pending(p)
        BY <1>0, <2>1, <3>2 DEF Pending, Unstarted
      <4> QED
        BY <1>0, <2>1, <3>1, <4>1, AttemptsStay
    <3>3. CASE p = q
      <4>1. Pending(p)' = Pending(p) \cup {t}
        BY <1>0, <2>1, <3>3 DEF Pending, Unstarted
      <4>2. /\ IsFiniteSet(Pending(p)) /\ Cardinality(Pending(p)) \in Nat
            /\ Cardinality(Started(p)) \in Nat
            /\ Cardinality(Started(p)) + Cardinality(Pending(p)) <= calls
        BY StartedFinite, FS_CardinalityType DEF RunInv, AttemptsOK
      <4>3. /\ IsFiniteSet(Pending(p)')
            /\ Cardinality(Pending(p)') \in Nat
            /\ Cardinality(Pending(p)') <= Cardinality(Pending(p)) + 1
        <5>1. t \notin Pending(p)
          BY <2>1 DEF Pending
        <5>2. /\ IsFiniteSet(Pending(p) \cup {t})
              /\ Cardinality(Pending(p) \cup {t}) = Cardinality(Pending(p)) + 1
          BY <4>2, <5>1, FS_AddElement
        <5> QED
          BY <4>1, <4>2, <5>2
      <4>4. Cardinality(Started(p)') + Cardinality(Pending(p)') <= calls'
        BY <1>0, <2>1, <3>1, <4>2, <4>3
      <4> QED
        BY <3>1, <4>3, <4>4 DEF AttemptsOK, RunInv
    <3> QED
      BY <3>2, <3>3
  <2> QED
    BY <2>2, <2>3, <2>4, <2>5 DEF RunInv
<1>2. ASSUME NEW t \in Threads, Inspect(t) PROVE RunInv'
  <2>1. ThreadOK(t)'
    BY <1>0, <1>2 DEF Inspect, Goto, ThreadOK
  <2> QED
    BY <1>0, <1>2, <2>1, LocalStep DEF Inspect, bounds
<1>3. ASSUME NEW t \in Threads, FindCompleted(t) PROVE RunInv'
  <2>1. UNCHANGED <<runs, expired, calls>> /\ pc[t] = "find_completed"
    BY <1>3 DEF FindCompleted, bounds
  <2>2. CASE Return(t)
    BY <1>0, <2>1, <2>2, ReturnOK
  <2>3. ASSUME NEW step \in {"advance", "reserve"}, Goto(t, step), UNCHANGED <<run, answer>>
        PROVE  RunInv'
    <3>1. ThreadOK(t)'
      BY <1>0, <2>1, <2>3 DEF Goto, ThreadOK
    <3> QED
      BY <1>0, <2>1, <2>3, <3>1, LocalStep
  <2> QED
    BY <1>3, <2>2, <2>3 DEF FindCompleted
<1>4. ASSUME NEW t \in Threads, NEW q \in Requests, q = run[t][1], pc[t] = "reserve",
             runs' = [ReclaimedRuns EXCEPT ![<<q, NextAttempt(q)>>] =
                        [status |-> "RESERVED", actual_cost |-> 0]],
             run' = [run EXCEPT ![t] = <<q, NextAttempt(q)>>],
             Goto(t, "parse_review"), UNCHANGED <<answer, expired, calls>>
      PROVE  RunInv'
  <2>1. t \in Pending(q)
    BY <1>4 DEF Pending
  <2>2. PICK n \in Attempts : n = NextAttempt(q) /\ n \notin Started(q)
                               /\ \A a \in 1 .. n - 1 : a \in Started(q)
    BY <1>0, <2>1, NextIsFree DEF RunInv
  <2>3. PICK r \in Runs : r = <<q, n>> /\ runs[r].status = "NONE"
    BY <2>2 DEF Runs, Started
  <2>4. /\ runs' = [ReclaimedRuns EXCEPT ![r] = [status |-> "RESERVED", actual_cost |-> 0]]
        /\ run' = [run EXCEPT ![t] = r]
        /\ pc' = [pc EXCEPT ![t] = "parse_review"]
    BY <1>4, <2>2, <2>3 DEF Goto
  <2>5. r \notin expired
    BY <2>3 DEF RunInv, Typed
  <2>6. /\ runs' \in [Runs -> Outcomes] /\ runs'[r].status = "RESERVED"
        /\ \A s \in Runs \ {r} : runs'[s].status = "NONE" <=> runs[s].status = "NONE"
        /\ \A s \in Runs \ (expired \cup {r}) : runs'[s] = runs[s]
    <3>1. [status |-> "RESERVED", actual_cost |-> 0] \in Outcomes
      BY DEF Outcomes, Statuses
    <3> QED
      BY <2>4, <3>1, Reclaims DEF RunInv
  <2>7. Typed'
    BY <1>0, <1>4, <2>4, <2>6 DEF RunInv, Typed
  <2>8. ASSUME NEW u \in Threads PROVE ThreadOK(u)'
    <3>1. CASE u = t
      BY <1>0, <1>4, <2>4, <2>5, <2>6, <3>1 DEF ThreadOK
    <3>2. CASE u # t
      <4>1. pc'[u] = pc[u] /\ run'[u] = run[u] /\ answer'[u] = answer[u] /\ ThreadOK(u)
        BY <1>0, <1>4, <2>4, <3>2
      <4>2. pc[u] \in Owning => run[u] \in Runs \ expired /\ run[u] # r
        BY <2>3, <4>1 DEF ThreadOK
      <4> QED
        BY <1>4, <2>6, <4>1, <4>2 DEF ThreadOK
    <3> QED
      BY <3>1, <3>2
  <2>9. ASSUME NEW u \in Threads, NEW v \in Threads PROVE Alone(u, v)'
    <3>1. ASSUME NEW w \in Threads, pc[w] \in Owning PROVE run[w] # r
      BY <1>0, <2>3, <3>1
    <3> QED
      BY <1>0, <2>4, <3>1 DEF Alone
  <2>10. ASSUME NEW p \in Requests PROVE AttemptsOK(p)'
    <3>1. CASE p # q
      <4>1. Started(p)' = Started(p)
        BY <2>3, <2>6, <3>1 DEF Started, Runs
      <4>2. Pending(p)' \subseteq Pending(p)
        BY <1>0, <2>4, <2>3, <3>1 DEF Pending
      <4> QED
        BY <1>0, <1>4, <4>1, <4>2, AttemptsStay
    <3>2. CASE p = q
      <4>1. Started(p)' = Started(p) \cup {n}
        BY <2>2, <2>3, <2>6, <3>2 DEF Started, Runs
      <4>2. Pending(p)' = Pending(p) \ {t}
        BY <1>0, <2>4, <3>2 DEF Pending
      <4>3. /\ IsFiniteSet(Pending(p)) /\ Cardinality(Pending(p)) \in Nat
            /\ IsFiniteSet(Started(p)) /\ Cardinality(Started(p)) \in Nat
            /\ Cardinality(Started(p)) + Cardinality(Pending(p)) <= calls
        BY StartedFinite, FS_CardinalityType DEF RunInv, AttemptsOK
      <4>4. /\ IsFiniteSet(Pending(p)')
            /\ Cardinality(Pending(p)') = Cardinality(Pending(p)) - 1
        BY <2>1, <3>2, <4>2, <4>3, FS_RemoveElement
      <4>5. Cardinality(Started(p)') = Cardinality(Started(p)) + 1
        BY <2>2, <3>2, <4>1, <4>3, FS_AddElement
      <4>6. Cardinality(Started(p)') + Cardinality(Pending(p)') <= calls'
        BY <1>0, <1>4, <4>3, <4>4, <4>5
      <4>7. ASSUME NEW a \in Started(p)' PROVE 1 .. a \subseteq Started(p)'
        <5>1. CASE a \in Started(p)
          BY <4>1, <5>1 DEF RunInv, AttemptsOK
        <5>2. CASE a = n
          BY <2>2, <3>2, <4>1, <5>2 DEF Attempts
        <5> QED
          BY <4>1, <5>1, <5>2
      <4> QED
        BY <4>4, <4>6, <4>7 DEF AttemptsOK
    <3> QED
      BY <3>1, <3>2
  <2> QED
    BY <2>7, <2>8, <2>9, <2>10 DEF RunInv
<1>5. ASSUME NEW t \in Threads, Reserve(t) PROVE RunInv'
  <2>1. PICK q \in Requests : q = run[t][1]
    BY <1>0, <1>5 DEF Reserve, ThreadOK
  <2>2. pc[t] = "reserve" /\ UNCHANGED <<expired, calls>>
    BY <1>5 DEF Reserve, bounds
  <2>3. CASE Fits(q)
    BY <1>4, <1>5, <2>1, <2>2, <2>3 DEF Reserve
  <2>4. CASE ~ Fits(q)
    <3>1. Return(t) /\ UNCHANGED runs
      BY <1>5, <2>1, <2>4 DEF Reserve
    <3> QED
      BY <1>0, <2>2, <3>1, ReturnOK
  <2> QED
    BY <2>3, <2>4
<1>6. ASSUME NEW t \in Threads, ParseReview(t) PROVE RunInv'
  <2>1. /\ run[t] \in Runs \ expired /\ runs[run[t]].status = "RESERVED"
        /\ pc[t] = "parse_review" /\ UNCHANGED <<runs, expired, run, calls>>
    BY <1>0, <1>6 DEF ParseReview, ThreadOK, bounds
  <2>2. PICK new : /\ answer' = [answer EXCEPT ![t] = new]
                   /\ \E cost \in 0 .. EstimatedCost(run[t]) : new \in Answers(run[t], cost)
    BY <1>6 DEF ParseReview
  <2>3. EstimatedCost(run[t]) \in Nat
    BY <2>1, CostType
  <2>4. new \in Outcomes /\ new.status \in Settled
    BY <2>2, <2>3 DEF Answers, RequestFailed, Outcomes, Statuses, Settled
  <2>5. Goto(t, "get_run")
    BY <1>6 DEF ParseReview
  <2>6. ThreadOK(t)'
    BY <1>0, <2>1, <2>2, <2>4, <2>5 DEF ThreadOK, Goto
  <2> QED
    BY <1>0, <2>1, <2>2, <2>4, <2>5, <2>6, LocalStep
<1>7. ASSUME NEW t \in Threads, pc[t] \in {"get_run", "finalise"}, AfterSettling(t),
             UNCHANGED <<expired, calls>>, runs' \in [Runs -> Outcomes],
             \A r \in Runs : runs'[r].status = "NONE" <=> runs[r].status = "NONE",
             \A u \in Threads \ {t} : pc[u] \in Owning => runs'[run[u]].status = "RESERVED"
      PROVE  RunInv'
  <2>1. CASE Return(t)
    BY <1>7, <2>1, ReturnOK
  <2>2. CASE /\ Goto(t, "advance")
             /\ run' = [run EXCEPT ![t] = Unstarted(run[t][1])]
             /\ answer' = [answer EXCEPT ![t] = NoAnswer]
    <3>1. run[t] \in Runs
      BY <1>0, <1>7 DEF ThreadOK
    <3>2. NoAnswer \in Outcomes
      BY DEF NoAnswer, NoRun, Outcomes, Statuses
    <3>3. ThreadOK(t)'
      BY <1>0, <2>2, <3>1 DEF ThreadOK, Goto, Unstarted, Runs
    <3> QED
      BY <1>0, <1>7, <2>2, <3>2, <3>3, LocalStep
  <2> QED
    BY <1>7, <2>1, <2>2 DEF AfterSettling
<1>8. ASSUME NEW t \in Threads, GetRun(t) PROVE RunInv'
  <2>1. pc[t] = "get_run" /\ UNCHANGED <<runs, expired, calls>>
    BY <1>8 DEF GetRun, bounds
  <2>2. /\ run[t] \in Runs \ expired /\ runs[run[t]].status = "RESERVED"
        /\ answer[t].status \in Settled
    BY <1>0, <2>1 DEF ThreadOK
  <2>3. CASE Goto(t, "finalise") /\ UNCHANGED <<run, answer>>
    <3>1. ThreadOK(t)'
      BY <1>0, <2>1, <2>2, <2>3 DEF Goto, ThreadOK
    <3> QED
      BY <1>0, <2>1, <2>3, <3>1, LocalStep
  <2> QED
    BY <1>8, <2>2, <2>3 DEF GetRun
<1>9. ASSUME NEW t \in Threads, Finalise(t) PROVE RunInv'
  <2>1. pc[t] = "finalise" /\ UNCHANGED <<expired, calls>>
    BY <1>9 DEF Finalise, bounds
  <2>2. /\ run[t] \in Runs \ expired /\ runs[run[t]].status = "RESERVED"
        /\ answer[t].status \in Settled
    BY <1>0, <2>1 DEF ThreadOK
  <2>3. CASE Return(t) /\ UNCHANGED runs
    BY <1>0, <2>1, <2>3, ReturnOK
  <2>4. CASE runs' = [runs EXCEPT ![run[t]] = answer[t]] /\ AfterSettling(t)
    <3>1. runs' \in [Runs -> Outcomes]
      BY <1>0, <2>4
    <3>2. \A r \in Runs : runs'[r].status = "NONE" <=> runs[r].status = "NONE"
      BY <1>0, <2>2, <2>4 DEF Settled
    <3>3. \A u \in Threads \ {t} : pc[u] \in Owning => runs'[run[u]].status = "RESERVED"
      <4> TAKE u \in Threads \ {t}
      <4>1. pc[u] \in Owning => run[u] # run[t]
        BY <1>0, <2>1 DEF Alone
      <4> QED
        BY <1>0, <2>4, <4>1 DEF ThreadOK
    <3> QED
      BY <1>7, <2>1, <2>4, <3>1, <3>2, <3>3
  <2> QED
    BY <1>9, <2>3, <2>4 DEF Finalise
<1>10. ASSUME NEW t \in Threads, Advance(t) PROVE RunInv'
  <2>1. pc[t] = "advance" /\ UNCHANGED <<runs, expired, calls>>
    BY <1>10 DEF Advance, bounds
  <2>2. CASE Return(t)
    BY <1>0, <2>1, <2>2, ReturnOK
  <2>3. CASE Goto(t, "state") /\ UNCHANGED <<run, answer>>
    <3>1. ThreadOK(t)'
      BY <1>0, <2>1, <2>3 DEF Goto, ThreadOK
    <3> QED
      BY <1>0, <2>1, <2>3, <3>1, LocalStep
  <2> QED
    BY <1>10, <2>2, <2>3 DEF Advance
<1>11. ASSUME NEW t \in Threads, State(t) PROVE RunInv'
  <2>1. Return(t) /\ UNCHANGED <<expired, calls>>
    BY <1>11 DEF State, bounds
  <2>2. UNCHANGED runs \/ runs' = ReclaimedRuns
    BY <1>11 DEF State
  <2>3. \A u \in Threads : pc[u] \in Owning => run[u] \in Runs \ expired
    BY <1>0 DEF ThreadOK
  <2>4. /\ runs' \in [Runs -> Outcomes]
        /\ \A r \in Runs : runs'[r].status = "NONE" <=> runs[r].status = "NONE"
        /\ \A u \in Threads : pc[u] \in Owning => runs'[run[u]].status = "RESERVED"
    BY <1>0, <2>2, <2>3, Reclaims DEF RunInv
  <2> QED
    BY <2>1, <2>4, ReturnOK
<1>12. ASSUME NEW r \in Runs, Expire(r) PROVE RunInv'
  <2>1. /\ runs[r].status = "RESERVED" /\ \A u \in Threads : run[u] # r
        /\ expired' = expired \cup {r}
        /\ UNCHANGED <<runs, pc, run, answer, calls>>
    BY <1>12 DEF Expire, InUse, bounds
  <2>2. Typed'
    BY <2>1 DEF RunInv, Typed
  <2>3. \A u \in Threads : ThreadOK(u)'
    BY <1>0, <2>1 DEF ThreadOK
  <2>4. \A u, v \in Threads : Alone(u, v)'
    BY <1>0, <2>1 DEF Alone
  <2>5. \A q \in Requests : Started(q)' = Started(q) /\ Pending(q)' = Pending(q)
    BY <2>1 DEF Started, Pending
  <2>6. \A q \in Requests : AttemptsOK(q)'
    BY <1>0, <2>1, <2>5, AttemptsStay
  <2> QED
    BY <2>2, <2>3, <2>4, <2>6 DEF RunInv
<1>13. ASSUME NEW l \in Limits, Restart(l) PROVE RunInv'
  <2>1. /\ runs' = ReclaimedRuns
        /\ pc' = [t \in Threads |-> "idle"]
        /\ run' = [t \in Threads |-> Unstarted(NoRequest)]
        /\ answer' = [t \in Threads |-> NoAnswer]
        /\ UNCHANGED <<expired, calls>>
    BY <1>13 DEF Restart
  <2>2. /\ runs' \in [Runs -> Outcomes]
        /\ \A r \in Runs : runs'[r].status = "NONE" <=> runs[r].status = "NONE"
    BY <2>1, Reclaims DEF RunInv
  <2>3. Typed'
    BY <2>1, <2>2 DEF RunInv, Typed, NoAnswer, NoRun, Outcomes, Statuses
  <2>4. \A u \in Threads : ThreadOK(u)'
    BY <2>1 DEF ThreadOK, Unstarted
  <2>5. \A u, v \in Threads : Alone(u, v)'
    BY <2>1 DEF Alone
  <2>6. \A q \in Requests : Started(q)' = Started(q) /\ Pending(q)' \subseteq Pending(q)
    BY <2>1, <2>2 DEF Started, Pending, Runs
  <2>7. \A q \in Requests : AttemptsOK(q)'
    BY <1>0, <2>1, <2>6, AttemptsStay
  <2> QED
    BY <2>3, <2>4, <2>5, <2>7 DEF RunInv
<1>14. CASE UNCHANGED vars
  <2>1. Typed' /\ \A u \in Threads : ThreadOK(u)'
    BY <1>14 DEF vars, RunInv, Typed, ThreadOK
  <2>2. \A u, v \in Threads : Alone(u, v)'
    BY <1>14 DEF vars, RunInv, Alone
  <2>3. \A q \in Requests : AttemptsOK(q)'
    BY <1>14 DEF vars, RunInv, AttemptsOK, Started, Pending
  <2> QED
    BY <2>1, <2>2, <2>3 DEF RunInv
<1> QED
  BY <1>1, <1>2, <1>3, <1>5, <1>6, <1>8, <1>9, <1>10, <1>11, <1>12, <1>13, <1>14
     DEF Next, Step

LEMMA RunInvariant == ASSUME ~ SlowCalls PROVE Spec => []RunInv
<1>1. RunInv /\ [Next]_vars => RunInv'
  BY RunStep
<1> QED
  BY <1>1, RunInit, PTL DEF Spec

----------------------------------------------------------------------------
(* Settled runs                                                             *)

LEMMA SettledStay ==
  ASSUME RunInv, [Next]_vars, NEW r \in Runs, runs[r].status \in Settled
  PROVE  runs'[r] = runs[r]
<1>1. runs \in [Runs -> Outcomes] /\ ReclaimedRuns[r] = runs[r]
  BY Reclaims DEF RunInv, Typed
<1>2. ASSUME NEW t \in Threads, Reserve(t) PROVE runs'[r] = runs[r]
  <2>1. PICK q \in Requests : q = run[t][1]
    BY <1>2 DEF Reserve, RunInv, ThreadOK
  <2>2. t \in Pending(q)
    BY <1>2, <2>1 DEF Reserve, Pending
  <2>3. PICK n \in Attempts : n = NextAttempt(q) /\ n \notin Started(q)
    BY <2>2, NextIsFree DEF RunInv, Typed
  <2>4. r # <<q, n>>
    BY <2>3 DEF Started, Settled
  <2>5. \/ UNCHANGED runs
        \/ runs' = [ReclaimedRuns EXCEPT ![<<q, n>>] =
                      [status |-> "RESERVED", actual_cost |-> 0]]
    BY <1>2, <2>1, <2>3 DEF Reserve
  <2> QED
    BY <1>1, <2>4, <2>5, Reclaims DEF RunInv
<1>3. ASSUME NEW t \in Threads, Finalise(t) PROVE runs'[r] = runs[r]
  <2>1. run[t] \in Runs /\ run[t] # r
    BY <1>3 DEF Finalise, RunInv, ThreadOK, Owning, Settled
  <2> QED
    BY <1>1, <1>3, <2>1 DEF Finalise
<1>4. ASSUME NEW t \in Threads, State(t) PROVE runs'[r] = runs[r]
  BY <1>1, <1>4 DEF State
<1>5. ASSUME NEW l \in Limits, Restart(l) PROVE runs'[r] = runs[r]
  BY <1>1, <1>5 DEF Restart
<1>6. CASE UNCHANGED runs
  BY <1>6
<1> QED
  BY <1>2, <1>3, <1>4, <1>5, <1>6
     DEF Next, Step, vars, Call, Inspect, FindCompleted, ParseReview, GetRun,
         Advance, Expire

(* A run is settled once, by its own call or by a reclaim: what a thread    *)
(* has read of its run before the lock is still true under it (_finalise).  *)
THEOREM SettledOnceHolds == ASSUME ~ SlowCalls PROVE Spec => SettledOnce
<1>1. RunInv /\ [Next]_vars
        => [\A r \in Runs : runs[r].status \in Settled => runs'[r] = runs[r]]_vars
  BY SettledStay
<1> QED
  BY <1>1, RunInvariant, PTL DEF Spec, SettledOnce

----------------------------------------------------------------------------
(* What the runs cost                                                       *)

CostIn(rs) ==
  [r \in Runs |-> CASE rs[r].status = "NONE"     -> 0
                    [] rs[r].status = "RESERVED" -> EstimatedCost(r)
                    [] rs[r].status \in Settled  -> rs[r].actual_cost]
OpenIn(rs) == {r \in Runs : rs[r].status = "RESERVED"}
ClosedIn(rs) == {r \in Runs : rs[r].status \in Settled}
OpenTotal(rs) == SumFunctionOnSet(CostIn(rs), OpenIn(rs))
ClosedTotal(rs) == SumFunctionOnSet(CostIn(rs), ClosedIn(rs))

LEMMA CostInType ==
  ASSUME NEW rs \in [Runs -> Outcomes]
  PROVE  /\ \A r \in Runs : CostIn(rs)[r] \in Nat
         /\ \A r \in Runs : rs[r].status = "NONE" => CostIn(rs)[r] = 0
         /\ \A r \in OpenIn(rs) : CostIn(rs)[r] = EstimatedCost(r)
         /\ \A r \in ClosedIn(rs) : CostIn(rs)[r] = rs[r].actual_cost
<1>1. \A r \in Runs : rs[r].status \in {"NONE", "RESERVED"} \cup Settled
                      /\ rs[r].actual_cost \in Nat
  BY DEF Outcomes, Statuses
<1> QED
  BY <1>1, CostType DEF CostIn, OpenIn, ClosedIn, Settled

LEMMA SameCost ==
  ASSUME NEW rs \in [Runs -> Outcomes], NEW new \in [Runs -> Outcomes],
         NEW r \in Runs, new[r] = rs[r]
  PROVE  CostIn(new)[r] = CostIn(rs)[r]
<1>1. CASE rs[r].status = "NONE"
  BY <1>1, CostInType
<1>2. CASE rs[r].status = "RESERVED"
  BY <1>2, CostInType DEF OpenIn
<1>3. CASE rs[r].status \in Settled
  BY <1>3, CostInType DEF ClosedIn
<1> QED
  BY <1>1, <1>2, <1>3 DEF Outcomes, Statuses

LEMMA RunsFinite == ASSUME IsFiniteSet(Requests) PROVE IsFiniteSet(Runs)
BY UpTo, FS_Product DEF Runs, Attempts

LEMMA TotalsAreNat ==
  ASSUME IsFiniteSet(Requests), NEW rs \in [Runs -> Outcomes]
  PROVE  /\ IsFiniteSet(OpenIn(rs)) /\ OpenTotal(rs) \in Nat
         /\ IsFiniteSet(ClosedIn(rs)) /\ ClosedTotal(rs) \in Nat
<1>1. OpenIn(rs) \subseteq Runs /\ ClosedIn(rs) \subseteq Runs
  BY DEF OpenIn, ClosedIn
<1>2. IsFiniteSet(OpenIn(rs)) /\ IsFiniteSet(ClosedIn(rs))
  BY <1>1, RunsFinite, FS_Subset
<1> QED
  BY <1>1, <1>2, CostInType, SumNat DEF OpenTotal, ClosedTotal

(* All the runs together cost what the open and the settled ones cost.      *)
LEMMA ExposureInParts ==
  ASSUME IsFiniteSet(Requests), NEW rs \in [Runs -> Outcomes]
  PROVE  SumFunctionOnSet(CostIn(rs), Runs) = OpenTotal(rs) + ClosedTotal(rs)
<1> DEFINE none == {r \in Runs : rs[r].status = "NONE"}
           some == OpenIn(rs) \cup ClosedIn(rs)
<1>1. none \cup some = Runs /\ none \cap some = {}
      /\ OpenIn(rs) \cap ClosedIn(rs) = {} /\ some \subseteq Runs
  BY DEF OpenIn, ClosedIn, Outcomes, Statuses, Settled
<1>2. IsFiniteSet(none) /\ IsFiniteSet(some)
  BY <1>1, RunsFinite, FS_Subset
<1>3. \A r \in none : CostIn(rs)[r] = 0
  BY CostInType
<1> HIDE DEF none
<1>4. SumFunctionOnSet(CostIn(rs), none) = 0
  BY <1>2, <1>3, SumOfZeros
<1>5. SumFunctionOnSet(CostIn(rs), some) = OpenTotal(rs) + ClosedTotal(rs)
  BY <1>1, TotalsAreNat, CostInType, SumOfParts DEF OpenTotal, ClosedTotal
<1> HIDE DEF some
<1>6. SumFunctionOnSet(CostIn(rs), none \cup some) =
        SumFunctionOnSet(CostIn(rs), none) + SumFunctionOnSet(CostIn(rs), some)
  BY <1>1, <1>2, CostInType, SumOfParts
<1> QED
  BY <1>1, <1>4, <1>5, <1>6, TotalsAreNat

(* A run that is opened adds its estimate to what is reserved.              *)
LEMMA Opening ==
  ASSUME IsFiniteSet(Requests), NEW rs \in [Runs -> Outcomes],
         NEW r \in Runs, rs[r].status = "NONE", NEW new \in [Runs -> Outcomes],
         new = [rs EXCEPT ![r] = [status |-> "RESERVED", actual_cost |-> 0]]
  PROVE  /\ OpenTotal(new) = OpenTotal(rs) + EstimatedCost(r)
         /\ ClosedTotal(new) = ClosedTotal(rs)
<1>1. new[r].status = "RESERVED" /\ \A x \in Runs \ {r} : new[x] = rs[x]
  OBVIOUS
<1>2. /\ OpenIn(new) = OpenIn(rs) \cup {r} /\ r \notin OpenIn(rs)
      /\ ClosedIn(new) = ClosedIn(rs) /\ r \notin ClosedIn(rs)
  BY <1>1 DEF OpenIn, ClosedIn, Settled
<1>3. ASSUME NEW x \in Runs \ {r} PROVE CostIn(new)[x] = CostIn(rs)[x]
  <2>1. x \in Runs /\ new[x] = rs[x]
    BY <1>1, <1>3
  <2> QED
    BY <2>1, SameCost
<1>4. /\ \A x \in OpenIn(rs) : CostIn(new)[x] = CostIn(rs)[x]
      /\ \A x \in ClosedIn(rs) : CostIn(new)[x] = CostIn(rs)[x]
  BY <1>2, <1>3 DEF OpenIn, ClosedIn
<1>5. /\ \A x \in OpenIn(rs) \cup {r} : CostIn(new)[x] \in Nat
      /\ \A x \in ClosedIn(rs) : CostIn(new)[x] \in Nat
  BY CostInType DEF OpenIn, ClosedIn
<1>6. SumFunctionOnSet(CostIn(new), OpenIn(rs) \cup {r}) =
        CostIn(new)[r] + SumFunctionOnSet(CostIn(new), OpenIn(rs))
  BY <1>2, <1>5, TotalsAreNat, SumPutIn
<1>7. /\ SumFunctionOnSet(CostIn(new), OpenIn(rs)) = OpenTotal(rs)
      /\ SumFunctionOnSet(CostIn(new), ClosedIn(rs)) = ClosedTotal(rs)
  BY <1>4, <1>5, TotalsAreNat, SumSame DEF OpenTotal, ClosedTotal
<1>8. CostIn(new)[r] = EstimatedCost(r)
  BY <1>1, CostInType DEF OpenIn
<1>9. OpenTotal(rs) \in Nat /\ EstimatedCost(r) \in Nat
  BY TotalsAreNat, CostType
<1>10. OpenTotal(new) = EstimatedCost(r) + OpenTotal(rs)
  BY <1>2, <1>6, <1>7, <1>8 DEF OpenTotal
<1> QED
  BY <1>2, <1>7, <1>9, <1>10 DEF ClosedTotal

(* A run that is settled goes from one total to the other, at its cost.     *)
LEMMA Settling ==
  ASSUME IsFiniteSet(Requests), NEW rs \in [Runs -> Outcomes],
         NEW r \in Runs, rs[r].status = "RESERVED",
         NEW a \in Outcomes, a.status \in Settled,
         NEW new \in [Runs -> Outcomes], new[r] = a,
         \A x \in Runs \ {r} : new[x] = rs[x]
  PROVE  /\ OpenTotal(rs) = OpenTotal(new) + EstimatedCost(r)
         /\ ClosedTotal(new) = ClosedTotal(rs) + a.actual_cost
<1>1. /\ OpenIn(rs) = OpenIn(new) \cup {r} /\ r \notin OpenIn(new)
      /\ ClosedIn(new) = ClosedIn(rs) \cup {r} /\ r \notin ClosedIn(rs)
  BY DEF OpenIn, ClosedIn, Settled
<1>2. ASSUME NEW x \in Runs \ {r} PROVE CostIn(new)[x] = CostIn(rs)[x]
  <2>1. x \in Runs /\ new[x] = rs[x]
    BY <1>2
  <2> QED
    BY <2>1, SameCost
<1>3. /\ \A x \in OpenIn(new) : CostIn(rs)[x] = CostIn(new)[x]
      /\ \A x \in ClosedIn(rs) : CostIn(new)[x] = CostIn(rs)[x]
  BY <1>1, <1>2 DEF OpenIn, ClosedIn
<1>4. /\ \A x \in OpenIn(new) \cup {r} : CostIn(rs)[x] \in Nat
      /\ \A x \in ClosedIn(rs) \cup {r} : CostIn(new)[x] \in Nat
  BY CostInType DEF OpenIn, ClosedIn
<1>5. SumFunctionOnSet(CostIn(rs), OpenIn(new) \cup {r}) =
        CostIn(rs)[r] + SumFunctionOnSet(CostIn(rs), OpenIn(new))
  BY <1>1, <1>4, TotalsAreNat, SumPutIn
<1>6. SumFunctionOnSet(CostIn(new), ClosedIn(rs) \cup {r}) =
        CostIn(new)[r] + SumFunctionOnSet(CostIn(new), ClosedIn(rs))
  BY <1>1, <1>4, TotalsAreNat, SumPutIn
<1>7. SumFunctionOnSet(CostIn(rs), OpenIn(new)) = OpenTotal(new)
  BY <1>3, <1>4, TotalsAreNat, SumSame DEF OpenTotal
<1>8. SumFunctionOnSet(CostIn(new), ClosedIn(rs)) = ClosedTotal(rs)
  BY <1>3, <1>4, TotalsAreNat, SumSame DEF ClosedTotal
<1>9. CostIn(rs)[r] = EstimatedCost(r) /\ CostIn(new)[r] = a.actual_cost
  BY CostInType DEF OpenIn, ClosedIn
<1>10. /\ OpenTotal(new) \in Nat /\ ClosedTotal(rs) \in Nat
       /\ EstimatedCost(r) \in Nat /\ a.actual_cost \in Nat
  BY TotalsAreNat, CostType DEF Outcomes
<1>11. OpenTotal(rs) = EstimatedCost(r) + OpenTotal(new)
  BY <1>1, <1>5, <1>7, <1>9 DEF OpenTotal
<1>12. ClosedTotal(new) = a.actual_cost + ClosedTotal(rs)
  BY <1>1, <1>6, <1>8, <1>9 DEF ClosedTotal
<1> QED
  BY <1>10, <1>11, <1>12

(* A reclaim moves what the stale runs had reserved to what is spent, and   *)
(* changes the cost of none of them.                                        *)
LEMMA Reclaiming ==
  ASSUME IsFiniteSet(Requests), Typed
  PROVE  /\ ReclaimedRuns \in [Runs -> Outcomes] /\ StaleCost \in Nat
         /\ CostIn(ReclaimedRuns) = CostIn(runs)
         /\ OpenTotal(runs) = OpenTotal(ReclaimedRuns) + StaleCost
         /\ ClosedTotal(ReclaimedRuns) = ClosedTotal(runs) + StaleCost
<1>1. PICK new \in [Runs -> Outcomes] : new = ReclaimedRuns
  BY Reclaims
<1>2. /\ \A r \in StaleRuns : /\ r \in Runs /\ runs[r].status = "RESERVED"
                              /\ new[r].status = "FAILED"
                              /\ new[r].actual_cost = EstimatedCost(r)
      /\ \A r \in Runs \ StaleRuns : new[r] = runs[r]
  BY <1>1 DEF ReclaimedRuns, StaleRuns, Typed
<1>3. /\ OpenIn(runs) = OpenIn(new) \cup StaleRuns /\ OpenIn(new) \cap StaleRuns = {}
      /\ ClosedIn(new) = ClosedIn(runs) \cup StaleRuns
      /\ ClosedIn(runs) \cap StaleRuns = {}
  BY <1>2 DEF OpenIn, ClosedIn, Settled
<1>4. CostIn(new) = CostIn(runs)
  <2>1. ASSUME NEW r \in Runs PROVE CostIn(new)[r] = CostIn(runs)[r]
    <3>1. CASE r \in StaleRuns
      <4>1. r \in OpenIn(runs) /\ r \in ClosedIn(new)
        BY <1>3, <3>1
      <4> QED
        BY <1>2, <3>1, <4>1, CostInType DEF Typed
    <3>2. CASE r \notin StaleRuns
      BY <1>2, <3>2, SameCost DEF Typed
    <3> QED
      BY <3>1, <3>2
  <2> QED
    BY <2>1 DEF CostIn
<1>5. runs \in [Runs -> Outcomes] /\ IsFiniteSet(StaleRuns)
  BY <1>3, TotalsAreNat, FS_Subset DEF Typed
<1>6. \A r \in StaleRuns : CostIn(runs)[r] \in Nat
                            /\ CostIn(runs)[r] = [x \in Runs |-> EstimatedCost(x)][r]
  BY <1>2, <1>3, <1>5, CostInType
<1>7. StaleCost = SumFunctionOnSet(CostIn(runs), StaleRuns) /\ StaleCost \in Nat
  BY <1>5, <1>6, SumSame, SumNat DEF StaleCost
<1>8. OpenTotal(runs) = OpenTotal(new) + StaleCost
  <2>1. \A r \in OpenIn(new) \cup StaleRuns : CostIn(runs)[r] \in Nat
    BY <1>3, <1>5, CostInType DEF OpenIn
  <2>2. SumFunctionOnSet(CostIn(runs), OpenIn(new) \cup StaleRuns) =
          SumFunctionOnSet(CostIn(runs), OpenIn(new)) + StaleCost
    BY <1>3, <1>5, <1>7, <2>1, TotalsAreNat, SumOfParts
  <2> QED
    BY <1>3, <1>4, <2>2 DEF OpenTotal
<1>9. ClosedTotal(new) = ClosedTotal(runs) + StaleCost
  <2>1. \A r \in ClosedIn(runs) \cup StaleRuns : CostIn(runs)[r] \in Nat
    BY <1>2, <1>5, CostInType DEF ClosedIn
  <2>2. SumFunctionOnSet(CostIn(runs), ClosedIn(runs) \cup StaleRuns) =
          SumFunctionOnSet(CostIn(runs), ClosedIn(runs)) + StaleCost
    BY <1>3, <1>5, <1>7, <2>1, TotalsAreNat, SumOfParts
  <2> QED
    BY <1>3, <1>4, <2>2 DEF ClosedTotal
<1> QED
  BY <1>1, <1>4, <1>7, <1>8, <1>9

----------------------------------------------------------------------------
(* The two totals of the budget row                                         *)

(* The totals are those of the rows, and their sum is within the limit.     *)
MoneyInv ==
  /\ limit \in Limits
  /\ reserved = OpenTotal(runs) /\ spent = ClosedTotal(runs)
  /\ spent + reserved <= limit

(* No run costs less than the provider charged for it, and no answer costs  *)
(* more than was reserved for it.                                           *)
BillOK(t) ==
  pc[t] \in {"get_run", "finalise"} =>
    /\ billed[run[t]] <= answer[t].actual_cost
    /\ answer[t].actual_cost <= EstimatedCost(run[t])

BillInv ==
  /\ billed \in [Runs -> Nat]
  /\ \A r \in Runs : billed[r] <= CostIn(runs)[r]
  /\ \A t \in Threads : BillOK(t)

(* What a step does to the money: it charges the stale runs, opens a run    *)
(* with their room, or settles one.                                         *)
Charges ==
  /\ runs' = ReclaimedRuns
  /\ reserved' = ReservedWithoutStale
  /\ spent' = SpentWithStale
  /\ limit' \in Limits
  /\ limit' = limit \/ spent + reserved <= limit'

Opens(r) ==
  /\ runs[r].status = "NONE"
  /\ SpentWithStale + ReservedWithoutStale + EstimatedCost(r) <= limit
  /\ runs' = [ReclaimedRuns EXCEPT ![r] = [status |-> "RESERVED", actual_cost |-> 0]]
  /\ reserved' = ReservedWithoutStale + EstimatedCost(r)
  /\ spent' = SpentWithStale
  /\ limit' = limit

Settles(r, a) ==
  /\ runs[r].status = "RESERVED"
  /\ a.status \in Settled /\ a.actual_cost <= EstimatedCost(r)
  /\ runs' = [runs EXCEPT ![r] = a]
  /\ reserved' = ReservedWithout(r)
  /\ spent' = spent + a.actual_cost
  /\ limit' = limit

MovesMoney ==
  \/ UNCHANGED <<budget, runs>>
  \/ Charges
  \/ \E r \in Runs : Opens(r)
  \/ \E r \in Runs, a \in Outcomes : Settles(r, a)

LEMMA ReserveMoves ==
  ASSUME RunInv, NEW t \in Threads, Reserve(t)
  PROVE  UNCHANGED <<budget, runs>> \/ \E r \in Runs : Opens(r)
<1>1. PICK q \in Requests : q = run[t][1]
  BY DEF Reserve, RunInv, ThreadOK
<1>2. t \in Pending(q)
  BY <1>1 DEF Reserve, Pending
<1>3. PICK n \in Attempts : n = NextAttempt(q) /\ n \notin Started(q)
  BY <1>2, NextIsFree DEF RunInv, Typed
<1>4. PICK r \in Runs : r = <<q, n>>
  BY DEF Runs
<1>5. runs[r].status = "NONE" /\ EstimatedCost(r) = Estimate[q]
  BY <1>3, <1>4 DEF Started, EstimatedCost
<1>6. CASE Fits(q)
  BY <1>1, <1>3, <1>4, <1>5, <1>6 DEF Reserve, Opens, Fits
<1>7. CASE ~ Fits(q)
  BY <1>1, <1>7 DEF Reserve, budget
<1> QED
  BY <1>6, <1>7

LEMMA FinaliseMoves ==
  ASSUME RunInv, NEW t \in Threads, BillOK(t), Finalise(t)
  PROVE  \/ UNCHANGED <<budget, runs>>
         \/ /\ run[t] \in Runs /\ answer[t] \in Outcomes
            /\ Settles(run[t], answer[t])
<1>1. /\ run[t] \in Runs /\ runs[run[t]].status = "RESERVED"
      /\ answer[t].status \in Settled /\ answer[t] \in Outcomes
      /\ answer[t].actual_cost <= EstimatedCost(run[t])
  BY DEF Finalise, RunInv, ThreadOK, Owning, Typed, BillOK
<1> QED
  BY <1>1 DEF Finalise, Settles, budget

LEMMA StepMovesMoney ==
  ASSUME RunInv, MoneyInv, \A t \in Threads : BillOK(t), [Next]_vars PROVE MovesMoney
<1>1. ASSUME NEW t \in Threads, State(t) PROVE MovesMoney
  BY <1>1 DEF State, MovesMoney, Charges, budget, MoneyInv
<1>2. ASSUME NEW l \in Limits, Restart(l) PROVE MovesMoney
  BY <1>2 DEF Restart, MovesMoney, Charges
<1>3. ASSUME NEW t \in Threads, Reserve(t) PROVE MovesMoney
  BY <1>3, ReserveMoves DEF MovesMoney
<1>4. ASSUME NEW t \in Threads, Finalise(t) PROVE MovesMoney
  BY <1>4, FinaliseMoves DEF MovesMoney
<1>5. CASE UNCHANGED <<budget, runs>>
  BY <1>5 DEF MovesMoney
<1> QED
  BY <1>1, <1>2, <1>3, <1>4, <1>5
     DEF Next, Step, vars, budget, Call, Inspect, FindCompleted, ParseReview, GetRun,
         Advance, Expire

(* Under the lock the totals still are those of the rows when the stale     *)
(* runs have been charged, and nothing has become less.                     *)
LEMMA ReclaimedTotals ==
  ASSUME IsFiniteSet(Requests), RunInv, MoneyInv
  PROVE  /\ reserved \in Nat /\ spent \in Nat /\ limit \in Nat
         /\ ReservedWithoutStale = OpenTotal(ReclaimedRuns)
         /\ SpentWithStale = ClosedTotal(ReclaimedRuns)
         /\ ReservedWithoutStale \in Nat /\ SpentWithStale \in Nat
         /\ SpentWithStale + ReservedWithoutStale = spent + reserved
<1>1. runs \in [Runs -> Outcomes] /\ ReclaimedRuns \in [Runs -> Outcomes]
      /\ StaleCost \in Nat
  BY Reclaiming DEF RunInv, Typed
<1>2. /\ reserved \in Nat /\ spent \in Nat
      /\ OpenTotal(ReclaimedRuns) \in Nat /\ ClosedTotal(ReclaimedRuns) \in Nat
  BY <1>1, TotalsAreNat DEF MoneyInv
<1>3. /\ reserved = OpenTotal(ReclaimedRuns) + StaleCost
      /\ ClosedTotal(ReclaimedRuns) = spent + StaleCost
  BY Reclaiming DEF RunInv, MoneyInv
<1>4. ReservedWithoutStale = OpenTotal(ReclaimedRuns)
  BY <1>1, <1>2, <1>3 DEF ReservedWithoutStale, Minus
<1>5. SpentWithStale = ClosedTotal(ReclaimedRuns)
  BY <1>1, <1>2, <1>3 DEF SpentWithStale
<1>6. limit \in Nat
  BY LimitsAssumption DEF MoneyInv
<1> QED
  BY <1>1, <1>2, <1>3, <1>4, <1>5, <1>6

LEMMA MoneyStays ==
  ASSUME IsFiniteSet(Requests), RunInv, RunInv', MoneyInv, MovesMoney PROVE MoneyInv'
<1>1. /\ runs \in [Runs -> Outcomes] /\ runs' \in [Runs -> Outcomes]
      /\ ReclaimedRuns \in [Runs -> Outcomes]
  BY Reclaims DEF RunInv, Typed
<1>2. CASE UNCHANGED <<budget, runs>>
  BY <1>2 DEF MoneyInv, budget
<1>3. CASE Charges
  <2>1. reserved' = OpenTotal(runs') /\ spent' = ClosedTotal(runs')
    BY <1>3, ReclaimedTotals DEF Charges
  <2>2. spent' + reserved' <= limit'
    BY <1>3, ReclaimedTotals DEF Charges, MoneyInv
  <2> QED
    BY <1>3, <2>1, <2>2 DEF Charges, MoneyInv
<1>4. ASSUME NEW r \in Runs, Opens(r) PROVE MoneyInv'
  <2>1. ReclaimedRuns[r].status = "NONE"
    BY <1>4, Reclaims DEF Opens, RunInv
  <2>2. /\ OpenTotal(runs') = OpenTotal(ReclaimedRuns) + EstimatedCost(r)
        /\ ClosedTotal(runs') = ClosedTotal(ReclaimedRuns)
    BY <1>1, <1>4, <2>1, Opening DEF Opens
  <2>3. reserved' = OpenTotal(runs') /\ spent' = ClosedTotal(runs')
    BY <1>4, <2>2, ReclaimedTotals DEF Opens
  <2>4. spent' + reserved' <= limit'
    BY <1>4, ReclaimedTotals, CostType DEF Opens
  <2> QED
    BY <1>4, <2>3, <2>4 DEF Opens, MoneyInv
<1>5. ASSUME NEW r \in Runs, NEW a \in Outcomes, Settles(r, a) PROVE MoneyInv'
  <2>1. /\ OpenTotal(runs) = OpenTotal(runs') + EstimatedCost(r)
        /\ ClosedTotal(runs') = ClosedTotal(runs) + a.actual_cost
    <3>1. PICK rs \in [Runs -> Outcomes], new \in [Runs -> Outcomes] :
            /\ rs = runs /\ new = runs' /\ new[r] = a
            /\ \A x \in Runs \ {r} : new[x] = rs[x]
      BY <1>1, <1>5 DEF Settles
    <3>2. rs[r].status = "RESERVED" /\ a.status \in Settled
      BY <1>5, <3>1 DEF Settles
    <3>3. /\ OpenTotal(rs) = OpenTotal(new) + EstimatedCost(r)
          /\ ClosedTotal(new) = ClosedTotal(rs) + a.actual_cost
      BY <1>5, <3>1, <3>2, Settling
    <3> QED
      BY <3>1, <3>3
  <2>2. /\ OpenTotal(runs') \in Nat /\ EstimatedCost(r) \in Nat /\ a.actual_cost \in Nat
        /\ reserved \in Nat /\ spent \in Nat /\ limit \in Nat
    BY <1>1, TotalsAreNat, CostType, ReclaimedTotals DEF Outcomes
  <2>3. reserved' = OpenTotal(runs') /\ spent' = ClosedTotal(runs')
    BY <1>5, <2>1, <2>2 DEF Settles, MoneyInv, ReservedWithout, Minus
  <2>4. spent' + reserved' <= limit'
    <3>1. /\ reserved = reserved' + EstimatedCost(r) /\ spent' = spent + a.actual_cost
          /\ reserved' \in Nat
      BY <1>5, <2>1, <2>2, <2>3 DEF Settles, MoneyInv
    <3>2. a.actual_cost <= EstimatedCost(r) /\ spent + reserved <= limit /\ limit' = limit
      BY <1>5 DEF Settles, MoneyInv
    <3> QED
      BY <2>2, <3>1, <3>2
  <2> QED
    BY <1>5, <2>3, <2>4 DEF Settles, MoneyInv
<1> QED
  BY <1>2, <1>3, <1>4, <1>5 DEF MovesMoney

(* The cost of a run only grows while it is open, and is at least what was  *)
(* billed when it is settled.                                               *)
LEMMA BillsStay ==
  ASSUME IsFiniteSet(Requests), RunInv, RunInv', BillInv, UNCHANGED billed,
         \/ UNCHANGED runs
         \/ Charges
         \/ \E r \in Runs : Opens(r)
         \/ \E r \in Runs, a \in Outcomes : Settles(r, a) /\ billed[r] <= a.actual_cost
  PROVE  \A r \in Runs : billed'[r] <= CostIn(runs')[r]
<1>1. /\ runs \in [Runs -> Outcomes] /\ runs' \in [Runs -> Outcomes]
      /\ ReclaimedRuns \in [Runs -> Outcomes] /\ CostIn(ReclaimedRuns) = CostIn(runs)
      /\ billed' = billed /\ \A r \in Runs : billed[r] <= CostIn(runs)[r]
  BY Reclaiming DEF RunInv, Typed, BillInv
<1>2. CASE UNCHANGED runs
  BY <1>1, <1>2
<1>3. CASE Charges
  BY <1>1, <1>3 DEF Charges
<1>4. ASSUME NEW r \in Runs, Opens(r) PROVE \A x \in Runs : billed'[x] <= CostIn(runs')[x]
  <2>1. PICK new \in [Runs -> Outcomes] :
          /\ new = runs' /\ new[r].status = "RESERVED"
          /\ \A x \in Runs \ {r} : new[x] = ReclaimedRuns[x]
    BY <1>1, <1>4 DEF Opens
  <2>2. CostIn(runs)[r] = 0 /\ CostIn(new)[r] \in Nat
    BY <1>1, <1>4, CostInType DEF Opens
  <2>3. \A x \in Runs \ {r} : CostIn(new)[x] = CostIn(runs)[x]
    BY <1>1, <2>1, SameCost
  <2>4. billed[r] \in Nat /\ billed[r] <= 0
    BY <1>1, <2>2 DEF BillInv
  <2>5. \A x \in Runs : billed[x] <= CostIn(new)[x]
    BY <1>1, <2>2, <2>3, <2>4
  <2> QED
    BY <1>1, <2>1, <2>5
<1>5. ASSUME NEW r \in Runs, NEW a \in Outcomes, Settles(r, a), billed[r] <= a.actual_cost
      PROVE  \A x \in Runs : billed'[x] <= CostIn(runs')[x]
  <2>1. PICK new \in [Runs -> Outcomes] :
          /\ new = runs' /\ new[r] = a
          /\ \A x \in Runs \ {r} : new[x] = runs[x]
    BY <1>1, <1>5 DEF Settles
  <2>2. CostIn(new)[r] = a.actual_cost
    BY <1>5, <2>1, CostInType DEF Settles, ClosedIn
  <2>3. \A x \in Runs \ {r} : CostIn(new)[x] = CostIn(runs)[x]
    BY <1>1, <2>1, SameCost
  <2>4. \A x \in Runs : billed[x] <= CostIn(new)[x]
    BY <1>1, <1>5, <2>2, <2>3
  <2> QED
    BY <1>1, <2>1, <2>4
<1> QED
  BY <1>2, <1>3, <1>4, <1>5

LEMMA BillStep ==
  ASSUME ~ SlowCalls, IsFiniteSet(Requests)
  PROVE  RunInv /\ RunInv' /\ MoneyInv /\ BillInv /\ [Next]_vars => BillInv'
<1> SUFFICES ASSUME RunInv, RunInv', MoneyInv, BillInv, [Next]_vars PROVE BillInv'
  OBVIOUS
<1>1. /\ billed \in [Runs -> Nat] /\ pc \in [Threads -> StepNames]
      /\ DOMAIN run = Threads /\ answer \in [Threads -> Outcomes]
      /\ \A t \in Threads : BillOK(t) /\ ThreadOK(t)
      /\ \A t, u \in Threads : Alone(t, u)
  BY DEF RunInv, Typed, BillInv
<1>2. ASSUME NEW t \in Threads, ParseReview(t) PROVE BillInv'
  <2>1. /\ run[t] \in Runs /\ runs[run[t]].status = "RESERVED" /\ pc[t] = "parse_review"
        /\ UNCHANGED <<runs, run>>
    BY <1>1, <1>2 DEF ParseReview, ThreadOK, Owning
  <2>2. EstimatedCost(run[t]) \in Nat
    BY <2>1, CostType
  <2>3. PICK cost \in 0 .. EstimatedCost(run[t]) :
          /\ billed' = [billed EXCEPT ![run[t]] = cost]
          /\ \E a \in Answers(run[t], cost) : answer' = [answer EXCEPT ![t] = a]
    BY <1>2 DEF ParseReview
  <2>4. /\ \E a \in Answers(run[t], cost) : answer'[t] = a
        /\ \A u \in Threads \ {t} : answer'[u] = answer[u]
        /\ billed'[run[t]] = cost /\ billed' \in [Runs -> Nat]
        /\ \A r \in Runs \ {run[t]} : billed'[r] = billed[r]
    BY <1>1, <2>1, <2>2, <2>3
  <2>5. /\ billed'[run[t]] <= answer'[t].actual_cost
        /\ answer'[t].actual_cost <= EstimatedCost(run[t])
    BY <2>2, <2>4 DEF Answers, RequestFailed
  <2>6. CostIn(runs)[run[t]] = EstimatedCost(run[t])
    BY <2>1, CostInType DEF RunInv, Typed, OpenIn
  <2>7. \A r \in Runs : billed'[r] <= CostIn(runs)[r]
    BY <2>2, <2>3, <2>4, <2>6 DEF BillInv
  <2>8. ASSUME NEW u \in Threads PROVE BillOK(u)'
    <3>1. CASE u = t
      BY <2>1, <2>5, <3>1 DEF BillOK
    <3>2. CASE u # t
      <4>1. pc'[u] = pc[u] /\ run'[u] = run[u] /\ answer'[u] = answer[u]
        BY <1>1, <1>2, <2>1, <2>4, <3>2 DEF ParseReview, Goto
      <4>2. pc[u] \in {"get_run", "finalise"} => run[u] \in Runs \ {run[t]}
        BY <1>1, <2>1, <3>2 DEF Alone, ThreadOK, Owning
      <4> QED
        BY <1>1, <2>4, <4>1, <4>2 DEF BillOK
    <3> QED
      BY <3>1, <3>2
  <2>9. CostIn(runs)' = CostIn(runs)
    BY <2>1
  <2> QED
    BY <2>1, <2>4, <2>7, <2>8, <2>9 DEF BillInv
<1>3. ASSUME UNCHANGED billed,
             \A t \in Threads :
               pc'[t] \in {"get_run", "finalise"} =>
                 /\ pc[t] \in {"get_run", "finalise"}
                 /\ run'[t] = run[t] /\ answer'[t] = answer[t],
             \/ UNCHANGED runs
             \/ Charges
             \/ \E r \in Runs : Opens(r)
             \/ \E r \in Runs, a \in Outcomes : Settles(r, a) /\ billed[r] <= a.actual_cost
      PROVE  BillInv'
  <2>1. \A r \in Runs : billed'[r] <= CostIn(runs')[r]
    BY <1>3, BillsStay
  <2>2. \A t \in Threads : BillOK(t)'
    BY <1>1, <1>3 DEF BillOK
  <2> QED
    BY <1>1, <1>3, <2>1, <2>2 DEF BillInv
<1>4. ASSUME NEW t \in Threads, Reserve(t) PROVE BillInv'
  <2>1. \A u \in Threads : pc'[u] \in {"get_run", "finalise"} =>
          pc[u] \in {"get_run", "finalise"} /\ run'[u] = run[u] /\ answer'[u] = answer[u]
    BY <1>1, <1>4 DEF Reserve, Return, Goto
  <2>2. UNCHANGED billed
    BY <1>4 DEF Reserve
  <2>3. UNCHANGED runs \/ \E r \in Runs : Opens(r)
    BY <1>4, ReserveMoves
  <2> QED
    BY <1>3, <2>1, <2>2, <2>3
<1>5. ASSUME NEW t \in Threads, Finalise(t) PROVE BillInv'
  <2>1. \A u \in Threads : pc'[u] \in {"get_run", "finalise"} =>
          pc[u] \in {"get_run", "finalise"} /\ run'[u] = run[u] /\ answer'[u] = answer[u]
    BY <1>1, <1>5 DEF Finalise, AfterSettling, Return, Goto
  <2>2. UNCHANGED billed /\ pc[t] = "finalise"
    BY <1>5 DEF Finalise
  <2>3. billed[run[t]] <= answer[t].actual_cost
    BY <1>1, <2>2 DEF BillOK
  <2>4. \/ UNCHANGED runs
        \/ \E r \in Runs, a \in Outcomes : Settles(r, a) /\ billed[r] <= a.actual_cost
    BY <1>1, <1>5, <2>3, FinaliseMoves
  <2> QED
    BY <1>3, <2>1, <2>2, <2>4
<1>6. ASSUME NEW t \in Threads, State(t) PROVE BillInv'
  <2>1. \A u \in Threads : pc'[u] \in {"get_run", "finalise"} =>
          pc[u] \in {"get_run", "finalise"} /\ run'[u] = run[u] /\ answer'[u] = answer[u]
    BY <1>1, <1>6 DEF State, Return, Goto
  <2>2. UNCHANGED billed /\ (UNCHANGED runs \/ Charges)
    BY <1>6 DEF State, Charges, MoneyInv
  <2> QED
    BY <1>3, <2>1, <2>2
<1>7. ASSUME NEW l \in Limits, Restart(l) PROVE BillInv'
  <2>1. \A u \in Threads : pc'[u] = "idle"
    BY <1>7 DEF Restart
  <2>2. UNCHANGED billed /\ Charges
    BY <1>7 DEF Restart, Charges
  <2> QED
    BY <1>3, <2>1, <2>2
<1>8. ASSUME UNCHANGED <<runs, billed>>,
             \E t \in Threads :
               \/ \E q \in Requests : Call(t, q)
               \/ Inspect(t) \/ FindCompleted(t) \/ GetRun(t) \/ Advance(t)
      PROVE  BillInv'
  <2>1. \A u \in Threads : pc'[u] \in {"get_run", "finalise"} =>
          pc[u] \in {"get_run", "finalise"} /\ run'[u] = run[u] /\ answer'[u] = answer[u]
    BY <1>1, <1>8
       DEF Call, Inspect, FindCompleted, GetRun, Advance, AfterSettling, Return, Goto
  <2> QED
    BY <1>3, <1>8, <2>1
<1>9. ASSUME UNCHANGED <<runs, billed, pc, run, answer>> PROVE BillInv'
  BY <1>3, <1>9
<1> QED
  BY <1>2, <1>4, <1>5, <1>6, <1>7, <1>8, <1>9
     DEF Next, Step, vars, Call, Inspect, FindCompleted, GetRun, Advance, Expire

----------------------------------------------------------------------------
(* The theorems                                                             *)

BudgetInv == RunInv /\ MoneyInv /\ BillInv

LEMMA BudgetInit ==
  ASSUME IsFiniteSet(Requests) PROVE Init => MoneyInv /\ BillInv
<1> SUFFICES ASSUME Init PROVE MoneyInv /\ BillInv
  OBVIOUS
<1>1. runs \in [Runs -> Outcomes] /\ \A r \in Runs : runs[r].status = "NONE"
  BY DEF Init, NoRun, Outcomes, Statuses
<1>2. OpenIn(runs) = {} /\ ClosedIn(runs) = {}
  BY <1>1 DEF OpenIn, ClosedIn, Settled
<1>3. OpenTotal(runs) = 0 /\ ClosedTotal(runs) = 0
  BY <1>2, SumOfNone DEF OpenTotal, ClosedTotal
<1>4. limit \in Nat
  BY LimitsAssumption DEF Init
<1>5. MoneyInv
  BY <1>3, <1>4 DEF Init, MoneyInv
<1>6. \A r \in Runs : billed[r] = 0 /\ CostIn(runs)[r] = 0
  BY <1>1, CostInType DEF Init
<1>7. BillInv
  BY <1>6 DEF Init, BillInv, BillOK
<1> QED
  BY <1>5, <1>7

LEMMA BudgetInvariant ==
  ASSUME ~ SlowCalls, IsFiniteSet(Requests) PROVE Spec => []BudgetInv
<1>1. Init => BudgetInv
  BY RunInit, BudgetInit DEF BudgetInv
<1>2. BudgetInv /\ [Next]_vars => BudgetInv'
  <2> SUFFICES ASSUME BudgetInv, [Next]_vars PROVE BudgetInv'
    OBVIOUS
  <2>1. RunInv /\ MoneyInv /\ BillInv /\ RunInv'
    BY RunStep DEF BudgetInv
  <2>2. MovesMoney
    BY <2>1, StepMovesMoney DEF BillInv
  <2>3. MoneyInv'
    BY <2>1, <2>2, MoneyStays
  <2>4. BillInv'
    BY <2>1, BillStep
  <2> QED
    BY <2>1, <2>3, <2>4 DEF BudgetInv
<1> QED
  BY <1>1, <1>2, PTL DEF Spec

(* Only threads that own a run have one; the others have a request.         *)
RunsOf == {Unstarted(q) : q \in Requests \cup {NoRequest}} \cup Runs
RunTyped == run \in [Threads -> RunsOf]

LEMMA RunType == ASSUME ~ SlowCalls PROVE Spec => []RunTyped
<1>1. Init => RunTyped
  BY DEF Init, RunsOf, RunTyped
<1>2. RunInv /\ RunTyped /\ [Next]_vars => RunTyped'
  <2> SUFFICES ASSUME RunInv, RunTyped, [Next]_vars PROVE run' \in [Threads -> RunsOf]
    BY DEF RunTyped
  <2> USE DEF RunTyped
  <2>1. ASSUME NEW t \in Threads, NEW q \in Requests, Call(t, q)
        PROVE  run' \in [Threads -> RunsOf]
    BY <2>1 DEF Call, RunsOf
  <2>2. ASSUME NEW t \in Threads, Return(t) PROVE run' \in [Threads -> RunsOf]
    BY <2>2 DEF Return, RunsOf
  <2>3. ASSUME NEW t \in Threads, Reserve(t) PROVE run' \in [Threads -> RunsOf]
    <3>1. PICK q \in Requests : q = run[t][1]
      BY <2>3 DEF Reserve, RunInv, ThreadOK
    <3>2. t \in Pending(q)
      BY <2>3, <3>1 DEF Reserve, Pending
    <3>3. <<q, NextAttempt(q)>> \in RunsOf
      BY <3>2, NextIsFree DEF RunInv, Typed, RunsOf, Runs
    <3> QED
      BY <2>2, <2>3, <3>1, <3>3 DEF Reserve
  <2>4. ASSUME NEW t \in Threads, pc[t] \in {"get_run", "finalise"}, AfterSettling(t)
        PROVE  run' \in [Threads -> RunsOf]
    <3>1. run[t][1] \in Requests
      BY <2>4 DEF RunInv, ThreadOK, Owning, Runs
    <3> QED
      BY <2>2, <2>4, <3>1 DEF AfterSettling, RunsOf
  <2>5. ASSUME NEW t \in Threads, Step(t) PROVE run' \in [Threads -> RunsOf]
    BY <2>2, <2>3, <2>4, <2>5
       DEF Step, FindCompleted, ParseReview, GetRun, Finalise, Advance, State
  <2>6. ASSUME NEW l \in Limits, Restart(l) PROVE run' \in [Threads -> RunsOf]
    BY <2>6 DEF Restart, RunsOf
  <2>7. CASE UNCHANGED run
    BY <2>7
  <2> QED
    BY <2>1, <2>5, <2>6, <2>7 DEF Next, Inspect, Expire, vars
<1> QED
  BY <1>1, <1>2, RunInvariant, PTL DEF Spec

(* Every variable keeps its type; in particular no total of the budget row  *)
(* becomes negative, and every settlement is of a run that was reserved.    *)
THEOREM BudgetTypeCorrect ==
  ASSUME ~ SlowCalls, IsFiniteSet(Requests) PROVE Spec => []TypeOK
<1>1. BudgetInv /\ RunTyped => TypeOK
  <2> SUFFICES ASSUME BudgetInv, RunTyped PROVE TypeOK
    OBVIOUS
  <2>1. reserved \in Nat /\ spent \in Nat
    BY ReclaimedTotals DEF BudgetInv
  <2>2. RunsOf \subseteq (Requests \cup {NoRequest}) \X (Attempts \cup {0})
    BY DEF RunsOf, Unstarted, Runs
  <2>3. run \in [Threads -> (Requests \cup {NoRequest}) \X (Attempts \cup {0})]
    BY <2>2 DEF RunTyped
  <2>4. \A t \in Threads :
          pc[t] \in {"parse_review", "get_run", "finalise"} => run[t] \in Runs
    BY DEF BudgetInv, RunInv, ThreadOK, Owning
  <2>5. /\ runs \in [Runs -> Outcomes] /\ expired \subseteq Runs
        /\ answer \in [Threads -> Outcomes]
        /\ pc \in [Threads -> {"idle", "find_completed", "reserve", "parse_review",
                               "get_run", "finalise", "advance", "state"}]
    BY DEF BudgetInv, RunInv, Typed, StepNames, Owning
  <2> QED
    BY <2>1, <2>3, <2>4, <2>5 DEF TypeOK, BudgetInv, MoneyInv, BillInv
<1> QED
  BY <1>1, BudgetInvariant, RunType, PTL

LEMMA LedgerCosts ==
  Ledger!Costs = CostIn(runs) /\ Ledger!Exposure = SumFunctionOnSet(CostIn(runs), Runs)
<1>1. Ledger!Costs = CostIn(runs)
  BY DEF Ledger!Costs, Ledger!Cost, CostIn, Settled, Ledger!Settled
<1>2. Ledger!Exposure = SumFunctionOnSet(Ledger!Costs, Runs)
  BY DEF Ledger!Exposure, Ledger!SumFunctionOnSet, Ledger!FoldFunctionOnSet,
         Ledger!MapThenFoldSet, SumFunctionOnSet, FoldFunctionOnSet, MapThenFoldSet
<1> QED
  BY <1>1, <1>2

(* The totals of the budget row are those of the run rows, through every    *)
(* reservation, settlement, reclaim and restart.                            *)
THEOREM TotalsMatchRunsHolds ==
  ASSUME ~ SlowCalls, IsFiniteSet(Requests) PROVE Spec => []TotalsMatchRuns
<1>1. BudgetInv => TotalsMatchRuns
  <2> SUFFICES ASSUME BudgetInv PROVE TotalsMatchRuns
    OBVIOUS
  <2>1. OpenIn(runs) = {r \in Runs : runs[r].status \in {"RESERVED"}}
    BY DEF OpenIn
  <2> QED
    BY <2>1, LedgerCosts
       DEF BudgetInv, MoneyInv, TotalsMatchRuns, OpenTotal, ClosedTotal, ClosedIn
<1> QED
  BY <1>1, BudgetInvariant, PTL

(* More than the limit is never committed, so that no operation of the      *)
(* budget and no restart is ever refused for what was committed before it.  *)
THEOREM WithinLimitHolds ==
  ASSUME ~ SlowCalls, IsFiniteSet(Requests) PROVE Spec => []WithinLimit
<1>1. BudgetInv => WithinLimit
  BY DEF BudgetInv, MoneyInv, WithinLimit
<1> QED
  BY <1>1, BudgetInvariant, PTL

(* Whatever the provider has charged is covered by the totals, also where   *)
(* no answer came, a thread died or a reclaim settled the run.              *)
THEOREM NoHiddenSpendHolds ==
  ASSUME ~ SlowCalls, IsFiniteSet(Requests) PROVE Spec => []NoHiddenSpend
<1>1. BudgetInv => NoHiddenSpend
  <2> SUFFICES ASSUME BudgetInv PROVE NoHiddenSpend
    OBVIOUS
  <2>1. runs \in [Runs -> Outcomes] /\ billed \in [Runs -> Nat]
        /\ \A r \in Runs : billed[r] <= CostIn(runs)[r]
    BY DEF BudgetInv, RunInv, Typed, BillInv
  <2>2. TotalBilled <= SumFunctionOnSet(CostIn(runs), Runs)
    BY <2>1, RunsFinite, CostInType, SumAtMost DEF TotalBilled
  <2>3. SumFunctionOnSet(CostIn(runs), Runs) = reserved + spent
    BY <2>1, ExposureInParts DEF BudgetInv, MoneyInv
  <2>4. reserved \in Nat /\ spent \in Nat
    BY ReclaimedTotals DEF BudgetInv
  <2> QED
    BY <2>2, <2>3, <2>4 DEF NoHiddenSpend
<1> QED
  BY <1>1, BudgetInvariant, PTL

ExposureOK == Ledger!Exposure = spent + reserved /\ spent \in Nat /\ reserved \in Nat

LEMMA ExposureIsCommitted == ASSUME IsFiniteSet(Requests) PROVE BudgetInv => ExposureOK
<1> SUFFICES ASSUME BudgetInv PROVE ExposureOK
  OBVIOUS
<1>1. runs \in [Runs -> Outcomes]
  BY DEF BudgetInv, RunInv, Typed
<1>2. Ledger!Exposure = reserved + spent
  BY <1>1, LedgerCosts, ExposureInParts DEF BudgetInv, MoneyInv
<1>3. reserved \in Nat /\ spent \in Nat
  BY ReclaimedTotals DEF BudgetInv
<1> QED
  BY <1>2, <1>3 DEF ExposureOK

(* The provider is asked only when all the runs together, whatever becomes  *)
(* of them, cost no more than the limit.                                    *)
THEOREM CallsWithinBudgetHolds ==
  ASSUME ~ SlowCalls, IsFiniteSet(Requests) PROVE Spec => CallsWithinBudget
<1>1. BudgetInv' /\ ExposureOK' /\ [Next]_vars
        => [\A t \in Threads :
              pc[t] = "reserve" /\ pc'[t] = "parse_review"
                => Ledger!Exposure' <= limit]_vars
  <2> SUFFICES ASSUME BudgetInv', ExposureOK', [Next]_vars, NEW t \in Threads,
                      pc'[t] = "parse_review"
               PROVE  Ledger!Exposure' <= limit
    OBVIOUS
  <2>1. limit' = limit
    BY DEF Next, Step, vars, budget, Call, Inspect, FindCompleted, Reserve, ParseReview,
           GetRun, Finalise, Advance, State, Expire, Restart
  <2>2. spent' + reserved' <= limit'
    BY DEF BudgetInv, MoneyInv
  <2>3. Ledger!Exposure' = spent' + reserved'
    BY DEF ExposureOK
  <2> QED
    BY <2>1, <2>2, <2>3
<1>2. BudgetInv => ExposureOK
  BY ExposureIsCommitted
<1> QED
  BY <1>1, <1>2, BudgetInvariant, PTL DEF Spec, CallsWithinBudget

----------------------------------------------------------------------------
(* The ledger                                                               *)

LEMMA SameLedgerRuns ==
  ASSUME Typed
  PROVE  /\ StaleRuns \in SUBSET Ledger!Open
         /\ Ledger!Charged(StaleRuns) = ReclaimedRuns
<1>1. StaleRuns \in SUBSET Ledger!Open
  BY DEF Typed, StaleRuns, Ledger!Open
<1>2. Ledger!Charged(StaleRuns) = ReclaimedRuns
  BY DEF ReclaimedRuns, Ledger!Charged
<1> QED
  BY <1>1, <1>2

LEMMA LedgerStep ==
  ASSUME IsFiniteSet(Requests)
  PROVE  BudgetInv /\ ExposureOK /\ MovesMoney => [Ledger!Next]_<<limit, runs>>
<1> SUFFICES ASSUME BudgetInv, ExposureOK, MovesMoney
             PROVE  [Ledger!Next]_<<limit, runs>>
  OBVIOUS
<1>0. Typed /\ RunInv /\ MoneyInv
  BY DEF BudgetInv, RunInv
<1>1. CASE UNCHANGED <<budget, runs>>
  BY <1>1 DEF budget
<1>2. CASE Charges
  <2>1. runs' = Ledger!Charged(StaleRuns)
    BY <1>0, <1>2, SameLedgerRuns DEF Charges
  <2>2. limit' \in {l \in Limits : l = limit \/ l >= Ledger!Exposure}
    <3>1. limit' \in Nat /\ limit \in Nat
      BY <1>2, LimitsAssumption DEF Charges, BudgetInv, MoneyInv
    <3> QED
      BY <1>2, <3>1 DEF Charges, ExposureOK
  <2>3. Ledger!Charge(StaleRuns)
    BY <2>1, <2>2 DEF Ledger!Charge
  <2> QED
    BY <1>0, <2>3, SameLedgerRuns DEF Ledger!Next
<1>3. ASSUME NEW r \in Runs, Opens(r) PROVE Ledger!Next
  <2>1. Ledger!Exposure + EstimatedCost(r) <= limit
    BY <1>0, <1>3, ReclaimedTotals DEF Opens, ExposureOK
  <2>2. Ledger!Reserve(r, StaleRuns)
    BY <1>0, <1>3, <2>1, SameLedgerRuns DEF Opens, Ledger!Reserve
  <2> QED
    BY <1>0, <2>2, SameLedgerRuns DEF Ledger!Next
<1>4. ASSUME NEW r \in Runs, NEW a \in Outcomes, Settles(r, a) PROVE Ledger!Next
  <2>1. a.actual_cost \in 0 .. EstimatedCost(r) /\ a.status \in Ledger!Settled
    BY <1>4, CostType DEF Settles, Outcomes, Settled, Ledger!Settled
  <2>2. a = [status |-> a.status, actual_cost |-> a.actual_cost]
    BY DEF Outcomes
  <2>3. Ledger!Settle(r)
    BY <1>4, <2>1, <2>2 DEF Settles, Ledger!Settle
  <2>4. r \in Ledger!Open
    BY <1>4 DEF Settles, Ledger!Open
  <2> QED
    BY <2>3, <2>4 DEF Ledger!Next
<1> QED
  BY <1>1, <1>2, <1>3, <1>4 DEF MovesMoney

(* The two running totals do what a look at every run row would do: a run   *)
(* is reserved only while everything spent or reserved so far leaves room   *)
(* for it, it is settled once and for no more than was reserved.            *)
THEOREM BudgetImplementsLedger ==
  ASSUME ~ SlowCalls, IsFiniteSet(Requests) PROVE Spec => ImplementsLedger
<1>1. Init => Ledger!Init
  BY DEF Init, Ledger!Init, NoRun, Ledger!NoRun
<1>2. BudgetInv /\ ExposureOK /\ [Next]_vars => [Ledger!Next]_<<limit, runs>>
  <2> SUFFICES ASSUME BudgetInv, ExposureOK, [Next]_vars
               PROVE  [Ledger!Next]_<<limit, runs>>
    OBVIOUS
  <2>1. MovesMoney
    BY StepMovesMoney DEF BudgetInv, BillInv
  <2> QED
    BY <2>1, LedgerStep
<1>3. BudgetInv => ExposureOK
  BY ExposureIsCommitted
<1> QED
  BY <1>1, <1>2, <1>3, BudgetInvariant, PTL DEF Spec, ImplementsLedger, Ledger!Spec
=============================================================================
