-------------------------- MODULE Scheduler_proofs --------------------------
(***************************************************************************)
(* Proofs about Scheduler: its types, and that the tasks admitted by the   *)
(* feasibility analysis stay within the bound for their number, for any    *)
(* size of the table, any priorities, parameters and limits that satisfy   *)
(* the assumptions.                                                        *)
(*                                                                         *)
(* The first part is about sums over finite sets, SumFunctionOnSet of the  *)
(* community modules.  Each induction there is on the size of a set, in    *)
(* the form that a nonempty collection of subsets has a smallest one.      *)
(***************************************************************************)
EXTENDS Scheduler, FiniteSetTheorems, TLAPS

(* A collection of finite sets that is not empty has a member none of      *)
(* whose elements can be removed without leaving the collection.           *)
LEMMA SmallestMember ==
  ASSUME NEW U, IsFiniteSet(U), NEW C \in SUBSET (SUBSET U), C # {}
  PROVE  \E T \in C : \A x \in T : (T \ {x}) \notin C
<1>1. \A T \in SUBSET U : IsFiniteSet(T)
  BY FS_Subset
<1>2. C \subseteq FiniteSubsetsOf(U)
  BY <1>1 DEF FiniteSubsetsOf
<1>3. IsWellFoundedOn(StrictSubsetOrdering(U), FiniteSubsetsOf(U))
  BY FS_StrictSubsetOrderingWellFounded
<1>4. PICK T \in C : \A V \in C : ~(<<V, T>> \in StrictSubsetOrdering(U))
  BY <1>2, <1>3, WFMin, Zenon
<1>5. ASSUME NEW x \in T PROVE (T \ {x}) \notin C
  <2>1. T \ {x} \subseteq T /\ T \ {x} # T
    OBVIOUS
  <2> QED
    BY <1>4, <2>1 DEF StrictSubsetOrdering
<1> QED
  BY <1>5

(* The smallest of a set of natural numbers.                               *)
LEMMA SmallestNumber ==
  ASSUME NEW T \in SUBSET Nat, T # {}
  PROVE  \E n \in T : \A m \in T : n <= m
<1>1. PICK n \in T : \A m \in T : ~(<<m, n>> \in OpToRel(<, Nat))
  BY WFMin, NatLessThanWellFounded, Zenon
<1>2. \A m \in T : ~(m < n)
  BY <1>1 DEF OpToRel
<1> QED
  BY <1>2
-----------------------------------------------------------------------------
\* The element that a sum adds next
Summand(s) == CHOOSE x \in s : TRUE

\* sum is the function by which the sum over S is computed.
Summing(w, S, sum) ==
  sum = [s \in SUBSET S |-> IF s = {} THEN 0 ELSE w[Summand(s)] + sum[s \ {Summand(s)}]]

(* The sum is what the function of the definition gives for the whole set. *)
LEMMA SumIsSumming ==
  ASSUME NEW w, NEW S, \E sum : Summing(w, S, sum)
  PROVE  \E sum : Summing(w, S, sum) /\ SumFunctionOnSet(w, S) = sum[S]
BY DEF SumFunctionOnSet, FoldFunctionOnSet, MapThenFoldSet, Summing, Summand

(* There is such a function, for naturals over a finite set: one that is   *)
(* right for the sets of at most n elements gives one for n + 1.           *)
LEMMA SummingExists ==
  ASSUME NEW D, NEW w \in [D -> Nat], NEW S \in SUBSET D, IsFiniteSet(S)
  PROVE  \E sum \in [SUBSET S -> Nat] : Summing(w, S, sum)
<1> DEFINE Value(g, s) == IF s = {} THEN 0 ELSE w[Summand(s)] + g[s \ {Summand(s)}]
           UpTo(g, n) == \A s \in SUBSET S : Cardinality(s) <= n => g[s] = Value(g, s)
           Bad == {n \in Nat : ~\E g \in [SUBSET S -> Nat] : UpTo(g, n)}
<1>1. \A s \in SUBSET S : /\ Cardinality(s) \in Nat
                          /\ Cardinality(s) <= Cardinality(S)
                          /\ Cardinality(s) = 0 <=> s = {}
  BY FS_Subset, FS_CardinalityType, FS_EmptySet
<1>2. \A s \in SUBSET S : s # {} =>
        /\ Summand(s) \in s /\ s \ {Summand(s)} \in SUBSET S
        /\ Cardinality(s \ {Summand(s)}) = Cardinality(s) - 1
  <2> SUFFICES ASSUME NEW s \in SUBSET S, s # {}
               PROVE  /\ Summand(s) \in s /\ s \ {Summand(s)} \in SUBSET S
                      /\ Cardinality(s \ {Summand(s)}) = Cardinality(s) - 1
    OBVIOUS
  <2>1. Summand(s) \in s
    BY DEF Summand
  <2>2. IsFiniteSet(s)
    BY FS_Subset
  <2> QED
    BY <2>1, <2>2, FS_RemoveElement
<1>3. Bad = {}
  <2> SUFFICES ASSUME Bad # {} PROVE FALSE
    OBVIOUS
  <2>1. PICK n \in Bad : \A m \in Bad : n <= m
    BY SmallestNumber
  <2>2. n # 0
    <3>1. UpTo([s \in SUBSET S |-> 0], 0)
      BY <1>1
    <3> QED
      BY <3>1
  <2>3. PICK g \in [SUBSET S -> Nat] : UpTo(g, n - 1)
    <3> HIDE DEF UpTo
    <3>0. n \in Nat
      OBVIOUS
    <3>1. n - 1 \in Nat /\ n - 1 \notin Bad
      <4> HIDE DEF Bad
      <4> QED
        BY <2>1, <2>2, <3>0
    <3> QED
      BY <3>1
  <2> DEFINE h == [s \in SUBSET S |-> IF s # {} /\ Cardinality(s) = n
                                      THEN w[Summand(s)] + g[s \ {Summand(s)}]
                                      ELSE g[s]]
  <2>4. h \in [SUBSET S -> Nat]
    BY <1>2
  <2>5. ASSUME NEW s \in SUBSET S, Cardinality(s) <= n
        PROVE  h[s] = Value(h, s)
    <3>1. CASE s = {}
      <4>1. Cardinality(s) <= n - 1 /\ Cardinality(s) # n
        BY <3>1, <2>1, <2>2, <1>1
      <4>2. g[s] = 0
        BY <3>1, <4>1, <2>3
      <4> QED
        BY <3>1, <4>2
    <3>2. CASE s # {}
      <4>1. h[s \ {Summand(s)}] = g[s \ {Summand(s)}]
        BY <3>2, <2>5, <1>1, <1>2
      <4>2. CASE Cardinality(s) = n
        BY <3>2, <4>1, <4>2
      <4>3. CASE Cardinality(s) <= n - 1
        BY <3>2, <4>1, <4>3, <2>3
      <4> QED
        BY <4>2, <4>3, <2>5, <1>1
    <3> QED
      BY <3>1, <3>2
  <2>6. UpTo(h, n)
    BY <2>5
  <2> QED
    BY <2>1, <2>4, <2>6
<1>4. PICK g \in [SUBSET S -> Nat] : UpTo(g, Cardinality(S))
  <2>1. Cardinality(S) \in Nat
    BY FS_CardinalityType
  <2> QED
    BY <1>3, <2>1
<1>5. \A s \in SUBSET S : g[s] = Value(g, s)
  BY <1>1, <1>4
<1> QED
  BY <1>5 DEF Summing

\* sum adds x to the others of T.
Last(w, sum, T, x) == sum[T] = w[x] + sum[T \ {x}]

(* The order of the elements does not matter: any of them may be added     *)
(* last.                                                                   *)
LEMMA AnyLast ==
  ASSUME NEW S, IsFiniteSet(S), NEW w \in [S -> Nat],
         NEW sum \in [SUBSET S -> Nat], Summing(w, S, sum),
         NEW part \in SUBSET S, NEW last \in part
  PROVE  Last(w, sum, part, last)
<1> DEFINE Right(T) == \A x \in T : sum[T] = w[x] + sum[T \ {x}]
           C == {T \in SUBSET S : ~Right(T)}
<1> SUFFICES ASSUME C # {} PROVE FALSE
  BY DEF Last
<1>1. PICK T \in C : \A x \in T : (T \ {x}) \notin C
  BY SmallestMember
<1>2. PICK x \in T : sum[T] # w[x] + sum[T \ {x}]
  BY <1>1
<1> DEFINE y == Summand(T)
<1>3. y \in T
  BY <1>2 DEF Summand
<1>4. sum[T] = w[y] + sum[T \ {y}]
  BY <1>2 DEF Summing
<1>5. x # y
  BY <1>2, <1>4
<1>6. Right(T \ {x}) /\ Right(T \ {y})
  BY <1>1, <1>2, <1>3
<1> HIDE DEF y
<1>7. sum[T \ {x}] = w[y] + sum[(T \ {x}) \ {y}]
  BY <1>6, <1>3, <1>5
<1>8. sum[T \ {y}] = w[x] + sum[(T \ {y}) \ {x}]
  BY <1>6, <1>2, <1>5
<1>9. (T \ {x}) \ {y} = (T \ {y}) \ {x}
  OBVIOUS
<1>10. /\ w[x] \in Nat /\ w[y] \in Nat
       /\ sum[(T \ {y}) \ {x}] \in Nat
  BY <1>2, <1>3
<1> QED
  <2> DEFINE r == sum[(T \ {y}) \ {x}]
             a == w[x]
             b == w[y]
  <2>1. sum[T] = b + (a + r) /\ sum[T \ {x}] = b + r
    BY <1>4, <1>7, <1>8, <1>9
  <2>2. a \in Nat /\ b \in Nat /\ r \in Nat
    BY <1>10
  <2>3. sum[T] # a + sum[T \ {x}]
    BY <1>2
  <2> HIDE DEF r, a, b
  <2> QED
    BY <2>1, <2>2, <2>3

(* The sum over a subset of S is what the function for S gives for it, and *)
(* weights that agree on the subset have the same sum.                     *)
LEMMA SumOfPart ==
  ASSUME NEW S, IsFiniteSet(S), NEW w \in [S -> Nat],
         NEW sum \in [SUBSET S -> Nat], Summing(w, S, sum),
         NEW T \in SUBSET S, NEW v \in [S -> Nat], \A x \in T : v[x] = w[x]
  PROVE  SumFunctionOnSet(v, T) = sum[T]
<1>1. IsFiniteSet(T)
  BY FS_Subset
<1>3. PICK part : Summing(v, T, part) /\ SumFunctionOnSet(v, T) = part[T]
  BY <1>1, SummingExists, SumIsSumming
<1> DEFINE C == {s \in SUBSET T : part[s] # sum[s]}
<1>4. C = {}
  <2> SUFFICES ASSUME C # {} PROVE FALSE
    OBVIOUS
  <2>1. PICK s \in C : \A x \in s : (s \ {x}) \notin C
    BY <1>1, SmallestMember
  <2>2. s # {}
    <3>1. part[{}] = 0 /\ sum[{}] = 0
      BY <1>3 DEF Summing
    <3> QED
      BY <3>1
  <2>3. Summand(s) \in s
    BY <2>2 DEF Summand
  <2>4. part[s \ {Summand(s)}] = sum[s \ {Summand(s)}]
    BY <2>1, <2>3
  <2>5. part[s] = v[Summand(s)] + part[s \ {Summand(s)}]
    BY <1>3, <2>2 DEF Summing
  <2>6. sum[s] = w[Summand(s)] + sum[s \ {Summand(s)}]
    BY <2>2 DEF Summing
  <2>7. v[Summand(s)] = w[Summand(s)]
    BY <2>3
  <2> QED
    BY <2>4, <2>5, <2>6, <2>7
<1> QED
  BY <1>3, <1>4

(* A sum of naturals over a finite set is a natural number.                *)
LEMMA SumType ==
  ASSUME NEW S, IsFiniteSet(S), NEW w \in [S -> Nat], NEW T \in SUBSET S
  PROVE  SumFunctionOnSet(w, T) \in Nat
<1>1. PICK sum \in [SUBSET S -> Nat] : Summing(w, S, sum)
  BY SummingExists
<1>2. SumFunctionOnSet(w, T) = sum[T]
  BY <1>1, SumOfPart
<1> QED
  BY <1>2

(* Weights that agree on a set have the same sum over it.                  *)
LEMMA SumAgree ==
  ASSUME NEW S, IsFiniteSet(S), NEW w \in [S -> Nat], NEW v \in [S -> Nat],
         NEW T \in SUBSET S, \A x \in T : v[x] = w[x]
  PROVE  SumFunctionOnSet(v, T) = SumFunctionOnSet(w, T)
<1>1. PICK sum \in [SUBSET S -> Nat] : Summing(w, S, sum)
  BY SummingExists
<1>2. SumFunctionOnSet(w, T) = sum[T] /\ SumFunctionOnSet(v, T) = sum[T]
  BY <1>1, SumOfPart
<1> QED
  BY <1>2

(* One more element adds its weight.                                       *)
LEMMA SumAdd ==
  ASSUME NEW S, IsFiniteSet(S), NEW w \in [S -> Nat],
         NEW T \in SUBSET S, NEW z \in S, z \notin T
  PROVE  SumFunctionOnSet(w, T \cup {z}) = SumFunctionOnSet(w, T) + w[z]
<1> DEFINE U == T \cup {z}
<1>1. PICK sum \in [SUBSET S -> Nat] : Summing(w, S, sum)
  BY SummingExists
<1>2. SumFunctionOnSet(w, U) = sum[U] /\ SumFunctionOnSet(w, T) = sum[T]
  BY <1>1, SumOfPart
<1>3. Last(w, sum, U, z)
  BY <1>1, AnyLast
<1>4. U \ {z} = T
  OBVIOUS
<1>5. w[z] \in Nat /\ sum[T] \in Nat
  OBVIOUS
<1> HIDE DEF U
<1>6. sum[U] = sum[T] + w[z]
  <2>1. sum[U] = w[z] + sum[T]
    BY <1>3, <1>4, Zenon DEF Last
  <2>2. \A a, b \in Nat : a + b = b + a
    OBVIOUS
  <2> QED
    BY <1>5, <2>1, <2>2, Zenon
<1> QED
  BY <1>2, <1>6, Zenon DEF U

(* The sum over a part is at most the sum over the whole.                  *)
LEMMA SumMonotone ==
  ASSUME NEW S, IsFiniteSet(S), NEW w \in [S -> Nat],
         NEW V \in SUBSET S, NEW T \in SUBSET V
  PROVE  SumFunctionOnSet(w, T) <= SumFunctionOnSet(w, V)
<1>1. PICK sum \in [SUBSET S -> Nat] : Summing(w, S, sum)
  BY SummingExists
<1> DEFINE C == {s \in SUBSET S : T \subseteq s /\ ~(sum[T] <= sum[s])}
<1>2. C = {}
  <2> SUFFICES ASSUME C # {} PROVE FALSE
    OBVIOUS
  <2>1. C \in SUBSET (SUBSET S)
    OBVIOUS
  <2>2. PICK s \in C : \A x \in s : (s \ {x}) \notin C
    <3> HIDE DEF C
    <3> QED
      BY <2>1, SmallestMember
  <2>3. s # T
    <3>1. sum[T] \in Nat
      OBVIOUS
    <3> QED
      BY <3>1
  <2>4. PICK x \in s : x \notin T
    BY <2>3
  <2>5. sum[T] <= sum[s \ {x}]
    BY <2>2, <2>4
  <2>6. Last(w, sum, s, x)
    BY <1>1, AnyLast
  <2>7. w[x] \in Nat /\ sum[s \ {x}] \in Nat /\ sum[T] \in Nat /\ ~(sum[T] <= sum[s])
    OBVIOUS
  <2> QED
    BY <2>5, <2>6, <2>7 DEF Last
<1>3. sum[T] <= sum[V]
  BY <1>2
<1>4. SumFunctionOnSet(w, T) = sum[T] /\ SumFunctionOnSet(w, V) = sum[V]
  BY <1>1, SumOfPart
<1> QED
  BY <1>3, <1>4
-----------------------------------------------------------------------------
Row == [state : State, priority : Priority \cup {0}, params : RtParams \cup {Unset}]

(* The load of a task is a natural number.                                 *)
LEMMA LoadType == \A params \in RtParams \cup {Unset} : Load(params) \in Nat
<1> SUFFICES ASSUME NEW params \in RtParams \cup {Unset} PROVE Load(params) \in Nat
  OBVIOUS
<1>1. params.period \in Nat /\ params.wcet \in Nat
  BY ParamsAssumption DEF Unset
<1>2. \A a \in Nat, b \in Nat : b # 0 => a \div b \in Nat
  OBVIOUS
<1>3. params.wcet * Precision \in Nat
  BY <1>1, NumberAssumption
<1>4. params.period # 0 => params.period * 1000 \in Nat /\ params.period * 1000 # 0
  BY <1>1
<1> QED
  BY <1>2, <1>3, <1>4 DEF Load

(* The scan of the dispatch loop finds a process whenever there is one:    *)
(* there is a smallest priority, and a first process that has it.          *)
LEMMA ChosenIsEligible ==
  ASSUME TypeOK, Eligible # {}
  PROVE  /\ Chosen \in Eligible
         /\ \A q \in Eligible :
              \/ table[Chosen].priority < table[q].priority
              \/ table[Chosen].priority = table[q].priority /\ Chosen <= q
<1>1. \A p \in Eligible : p \in Pid /\ p \in Nat /\ table[p].priority \in Nat
  <2>1. process_count \in Nat /\ process_count <= MaxProcesses
    BY SizeAssumption DEF TypeOK
  <2>2. \A p \in Eligible : p \in Pid /\ p \in Nat
    BY <2>1, SizeAssumption DEF Eligible, Created, Pid
  <2>3. \A p \in Pid : table[p].priority \in Priority \cup {0}
    BY DEF TypeOK
  <2>4. Priority \cup {0} \subseteq Nat
    BY PriorityAssumption
  <2> QED
    BY <2>2, <2>3, <2>4, Zenon
<1> DEFINE Levels == {table[p].priority : p \in Eligible}
<1>2. PICK level \in Levels : \A m \in Levels : level <= m
  <2>1. Levels \in SUBSET Nat /\ Levels # {}
    BY <1>1
  <2> HIDE DEF Levels
  <2> QED
    BY <2>1, SmallestNumber
<1> DEFINE Urgent == {p \in Eligible : table[p].priority = level}
<1>3. PICK first \in Urgent : \A m \in Urgent : first <= m
  <2>1. Urgent \in SUBSET Nat /\ Urgent # {}
    BY <1>1
  <2> HIDE DEF Urgent
  <2> QED
    BY <2>1, SmallestNumber
<1>4. first \in Eligible
  OBVIOUS
<1>5. ASSUME NEW q \in Eligible
      PROVE  \/ table[first].priority < table[q].priority
             \/ table[first].priority = table[q].priority /\ first <= q
  <2>1. CASE table[q].priority = level
    BY <1>3, <2>1
  <2>2. CASE table[q].priority # level
    <3>1. level <= table[q].priority
      BY <1>2
    <3>2. table[first].priority = level /\ level \in Nat
      BY <1>1
    <3> QED
      BY <1>1, <2>2, <3>1, <3>2
  <2> QED
    BY <2>1, <2>2
<1> HIDE DEF Urgent, Levels
<1> QED
  BY <1>4, <1>5, Zenon DEF Chosen

(* The scan gives a created process, or the idle one.                      *)
LEMMA ChosenType == TypeOK => Chosen \in {Idle} \cup Created
BY ChosenIsEligible DEF Chosen, Eligible

(* One action keeps the types at a time.                                   *)
LEMMA TypeStep == TypeOK /\ [Next]_vars => TypeOK'
<1> SUFFICES ASSUME TypeOK, [Next]_vars PROVE TypeOK'
  OBVIOUS
<1>1. /\ table \in [Pid -> Row]
      /\ process_count \in 0 .. MaxProcesses
      /\ current_pid \in {Idle} \cup 1 .. process_count
      /\ own \subseteq 1 .. process_count
      /\ initialized \in BOOLEAN
  BY DEF TypeOK, Row
<1>2. \A n \in 0 .. MaxProcesses : n < MaxProcesses => n + 1 \in Pid
  BY SizeAssumption DEF Pid
<1>3. CASE SchedulerInit
  <2>1. Cleared \in [Pid -> Row]
    BY DEF Cleared, Row, State
  <2> QED
    BY <1>3, <2>1, SizeAssumption DEF SchedulerInit, TypeOK, Row, Idle
<1>4. ASSUME NEW priority \in Priority, CreatePlain(priority)
      PROVE  TypeOK'
  <2>1. process_count + 1 \in Pid
    BY <1>1, <1>2, <1>4 DEF CreatePlain
  <2>2. table' \in [Pid -> Row]
    BY <1>1, <1>4, <2>1 DEF CreatePlain, Row, State
  <2>3. process_count' \in 0 .. MaxProcesses /\ process_count' = process_count + 1
    BY <1>1, <1>4, SizeAssumption DEF CreatePlain
  <2>4. current_pid' \in {Idle} \cup 1 .. process_count' /\ own' \subseteq 1 .. process_count'
    BY <1>1, <1>4, <2>3 DEF CreatePlain
  <2> QED
    BY <1>1, <1>4, <2>2, <2>3, <2>4 DEF CreatePlain, TypeOK, Row
<1>5. ASSUME NEW priority \in Priority, NEW params \in RtParams,
             CreateRealtime(priority, params)
      PROVE  TypeOK'
  <2>1. process_count + 1 \in Pid
    BY <1>1, <1>2, <1>5 DEF CreateRealtime
  <2>2. table' \in [Pid -> Row]
    BY <1>1, <1>5, <2>1 DEF CreateRealtime, Row, State
  <2>3. /\ process_count' \in 0 .. MaxProcesses
        /\ \/ process_count' = process_count + 1 /\ own' = own \cup {process_count + 1}
           \/ process_count' = process_count /\ own' = own
    BY <1>1, <1>5, SizeAssumption DEF CreateRealtime
  <2>4. current_pid' \in {Idle} \cup 1 .. process_count' /\ own' \subseteq 1 .. process_count'
    <3>1. current_pid' = current_pid
      BY <1>5 DEF CreateRealtime
    <3>2. CASE process_count' = process_count + 1 /\ own' = own \cup {process_count + 1}
      <4>1. /\ 1 .. process_count \subseteq 1 .. process_count'
            /\ process_count + 1 \in 1 .. process_count'
        BY <1>1, <3>2
      <4> QED
        BY <1>1, <3>1, <3>2, <4>1, Zenon
    <3>3. CASE process_count' = process_count /\ own' = own
      BY <1>1, <3>1, <3>3
    <3> QED
      BY <2>3, <3>2, <3>3
  <2> QED
    BY <1>1, <1>5, <2>2, <2>3, <2>4 DEF CreateRealtime, TypeOK, Row
<1>6. ASSUME NEW p \in Created, NEW state \in State, ChangeState(p, state)
      PROVE  TypeOK'
  <2>1. table' \in [Pid -> Row]
    BY <1>1, <1>6 DEF ChangeState, Row
  <2> QED
    BY <1>1, <1>6, <2>1 DEF ChangeState, TypeOK, Row
<1>7. CASE Dispatch
  <2>1. table' \in [Pid -> Row]
    BY <1>1, <1>7 DEF Dispatch, Row, State
  <2>2. current_pid' \in {Idle} \cup 1 .. process_count
    BY <1>7, ChosenType DEF Dispatch, Created
  <2> QED
    BY <1>1, <1>7, <2>1, <2>2 DEF Dispatch, TypeOK, Row
<1>8. CASE UNCHANGED vars
  BY <1>8 DEF vars, TypeOK, Row
<1> QED
  BY <1>3, <1>4, <1>5, <1>6, <1>7, <1>8 DEF Next

(* The process table and its counters have their types in every reachable  *)
(* state: no creation goes past the end of the table, the current process  *)
(* was created, and the scan of the loop never leaves it undefined.        *)
THEOREM SchedulerTypeCorrect == Spec => []TypeOK
<1>1. Init => TypeOK
  <2>1. Cleared \in [Pid -> Row]
    BY DEF Cleared, Row, State
  <2> SUFFICES ASSUME Init PROVE TypeOK
    OBVIOUS
  <2>2. /\ process_count \in 0 .. MaxProcesses
        /\ current_pid \in {Idle} \cup 1 .. process_count
        /\ own \subseteq 1 .. process_count
        /\ initialized \in BOOLEAN
    <3>1. process_count = 0 /\ current_pid = Idle /\ own = {} /\ initialized = FALSE
      BY DEF Init
    <3>2. 0 \in 0 .. MaxProcesses
      BY SizeAssumption
    <3> QED
      BY <3>1, <3>2, Zenon
  <2> QED
    BY <2>1, <2>2, Zenon DEF Init, TypeOK, Row
<1> QED
  BY <1>1, TypeStep, PTL DEF Spec
-----------------------------------------------------------------------------
\* The load of each process of a table
LoadsOf(t) == [p \in Pid |-> Load(t[p].params)]

(* What the sums of loads are made of.                                     *)
LEMMA LoadsType ==
  ASSUME NEW t \in [Pid -> Row]
  PROVE  LoadsOf(t) \in [Pid -> Nat]
<1>1. \A p \in Pid : t[p].params \in RtParams \cup {Unset}
  BY DEF Row
<1> QED
  BY <1>1, LoadType DEF LoadsOf

(* What is known of the sums in a state of the right types.                *)
LEMMA SumsDefined ==
  ASSUME TypeOK
  PROVE  /\ LoadsOf(table) \in [Pid -> Nat] /\ IsFiniteSet(Pid)
         /\ Created \in SUBSET Pid /\ own \in SUBSET Created
<1>1. LoadsOf(table) \in [Pid -> Nat]
  BY LoadsType DEF TypeOK, Row
<1>2. IsFiniteSet(Pid)
  BY SizeAssumption, FS_Interval DEF Pid
<1>3. Created \in SUBSET Pid /\ own \in SUBSET Created
  BY SizeAssumption DEF TypeOK, Created, Pid
<1> QED
  BY <1>1, <1>2, <1>3

(* A step that leaves the admitted tasks and their parameters alone leaves *)
(* their load alone.                                                       *)
LEMMA SameLoad ==
  ASSUME TypeOK, TypeOK', own' = own,
         \A p \in own : table'[p].params = table[p].params
  PROVE  TotalLoad(own)' = TotalLoad(own)
<1>1. /\ LoadsOf(table) \in [Pid -> Nat] /\ LoadsOf(table') \in [Pid -> Nat]
      /\ IsFiniteSet(Pid)
      /\ own \in SUBSET Pid
  BY SumsDefined, LoadsType DEF TypeOK, Row
<1>2. \A p \in own : LoadsOf(table')[p] = LoadsOf(table)[p]
  BY <1>1 DEF LoadsOf
<1>3. SumFunctionOnSet(LoadsOf(table'), own) = SumFunctionOnSet(LoadsOf(table), own)
  BY <1>1, <1>2, SumAgree
<1> QED
  BY <1>3 DEF TotalLoad, LoadsOf

(* An admission: the load of the new task is added to that of the tasks    *)
(* admitted before, which is at most the load the analysis has counted.    *)
LEMMA AdmissionStep ==
  ASSUME TypeOK, TypeOK', NEW priority \in Priority, NEW params \in RtParams,
         CreateRealtime(priority, params), Feasible(params)
  PROVE  TotalLoad(own)' <= RmsLimit[Cardinality(own')]
<1> DEFINE z == process_count + 1
<1>1. /\ LoadsOf(table) \in [Pid -> Nat] /\ LoadsOf(table') \in [Pid -> Nat]
      /\ IsFiniteSet(Pid)
      /\ Created \in SUBSET Pid /\ own \in SUBSET Created
  BY SumsDefined, LoadsType DEF TypeOK, Row
<1>2. /\ own' = own \cup {z} /\ z \in Pid /\ z \notin Created
      /\ table' = [table EXCEPT ![z] = [state |-> "created", priority |-> priority,
                                        params |-> params]]
  BY SizeAssumption DEF CreateRealtime, TypeOK, Pid, Created
<1>3. /\ \A p \in Created : LoadsOf(table')[p] = LoadsOf(table)[p]
      /\ LoadsOf(table')[z] = Load(params)
  BY <1>1, <1>2 DEF LoadsOf, TypeOK
<1>4. Load(params) \in Nat
  BY LoadType
<1> HIDE DEF z
<1>5. SumFunctionOnSet(LoadsOf(table'), own \cup {z})
        = SumFunctionOnSet(LoadsOf(table'), own) + LoadsOf(table')[z]
  <2>1. own \in SUBSET Pid /\ z \notin own
    BY <1>1, <1>2
  <2>2. \A w \in [Pid -> Nat] : SumFunctionOnSet(w, own \cup {z})
                                  = SumFunctionOnSet(w, own) + w[z]
    BY <1>1, <1>2, <2>1, SumAdd
  <2> QED
    BY <1>1, <2>2, Zenon
<1>6. SumFunctionOnSet(LoadsOf(table'), own) = SumFunctionOnSet(LoadsOf(table), own)
  BY <1>1, <1>3, SumAgree
<1>7. SumFunctionOnSet(LoadsOf(table), own) <= SumFunctionOnSet(LoadsOf(table), Created)
  BY <1>1, SumMonotone
<1>8. /\ SumFunctionOnSet(LoadsOf(table), own) \in Nat
      /\ SumFunctionOnSet(LoadsOf(table), Created) \in Nat
  BY <1>1, SumType
<1>9. SumFunctionOnSet(LoadsOf(table), Created) + Load(params) <= RmsLimit[z]
  BY DEF Feasible, TotalLoad, LoadsOf, z
<1>10. Cardinality(own') \in Pid /\ Cardinality(own') <= z
  <2>1. IsFiniteSet(own) /\ IsFiniteSet(Created)
    BY <1>1, FS_Subset
  <2>2. Cardinality(Created) = process_count
    BY FS_Interval DEF Created, TypeOK
  <2>3. Cardinality(own) \in Nat /\ Cardinality(own) <= process_count
    BY <1>1, <2>1, <2>2, FS_Subset, FS_CardinalityType
  <2>4. Cardinality(own') = Cardinality(own) + 1
    BY <1>1, <1>2, <2>1, FS_AddElement
  <2>5. process_count \in Nat /\ z = process_count + 1 /\ z <= MaxProcesses
    BY <1>2, SizeAssumption DEF TypeOK, z, Pid
  <2> QED
    BY <2>3, <2>4, <2>5, SizeAssumption DEF Pid
<1>11. RmsLimit[z] <= RmsLimit[Cardinality(own')] /\ RmsLimit[z] \in Int
       /\ RmsLimit[Cardinality(own')] \in Int
  BY <1>2, <1>10, LimitAssumption
<1>12. TotalLoad(own)' = SumFunctionOnSet(LoadsOf(table), own) + Load(params)
  BY <1>2, <1>3, <1>5, <1>6 DEF TotalLoad, LoadsOf
<1> QED
  BY <1>4, <1>7, <1>8, <1>9, <1>11, <1>12

(* The bound holds after every step.                                       *)
LEMMA LoadStep == TypeOK /\ AdmittedLoad /\ [Next]_vars => AdmittedLoad'
<1> SUFFICES ASSUME TypeOK, AdmittedLoad, [Next]_vars PROVE AdmittedLoad'
  OBVIOUS
<1>1. TypeOK'
  BY TypeStep
<1>2. ASSUME own' = own, \A p \in own : table'[p].params = table[p].params
      PROVE  AdmittedLoad'
  BY <1>1, <1>2, SameLoad DEF AdmittedLoad
<1>3. /\ \A p \in own : p \in Pid /\ p # process_count + 1
      /\ Created \subseteq Pid
      /\ table \in [Pid -> Row]
  BY SumsDefined, SizeAssumption DEF TypeOK, Pid, Created, Row
<1>4. CASE SchedulerInit
  BY <1>4 DEF SchedulerInit, AdmittedLoad
<1>5. ASSUME NEW priority \in Priority, CreatePlain(priority)
      PROVE  AdmittedLoad'
  BY <1>2, <1>3, <1>5 DEF CreatePlain, Row
<1>6. ASSUME NEW priority \in Priority, NEW params \in RtParams,
             CreateRealtime(priority, params)
      PROVE  AdmittedLoad'
  <2>1. CASE Feasible(params)
    BY <1>1, <1>6, <2>1, AdmissionStep DEF AdmittedLoad
  <2>2. CASE ~Feasible(params)
    BY <1>2, <1>3, <1>6, <2>2 DEF CreateRealtime, Row
  <2> QED
    BY <2>1, <2>2
<1>7. ASSUME NEW p \in Created, NEW state \in State, ChangeState(p, state)
      PROVE  AdmittedLoad'
  BY <1>2, <1>3, <1>7 DEF ChangeState, Row
<1>8. CASE Dispatch
  BY <1>2, <1>3, <1>8 DEF Dispatch, Row
<1>9. CASE UNCHANGED vars
  BY <1>2, <1>9 DEF vars
<1> QED
  BY <1>4, <1>5, <1>6, <1>7, <1>8, <1>9 DEF Next

(* However creations with and without real-time parameters, refused ones,  *)
(* wake-ups and dispatches are interleaved, the tasks that were admitted   *)
(* with parameters of their own satisfy the rate-monotonic bound for their *)
(* number (scheduler.c:262-296), provided that the bound falls as tasks    *)
(* are added.                                                              *)
THEOREM LoadIsAdmissible == Spec => []AdmittedLoad
<1>1. Init => AdmittedLoad
  BY DEF Init, AdmittedLoad
<1> QED
  BY <1>1, LoadStep, SchedulerTypeCorrect, PTL DEF Spec

(* Every iteration of the dispatch loop that finds a ready process of a    *)
(* priority below PROCESS_PRIORITY_COUNT takes one, the first of the most  *)
(* urgent (scheduler.c:149-165).                                           *)
THEOREM DispatchTakesFirst ==
  Spec => [][Dispatch /\ Eligible # {} =>
               /\ current_pid' \in Eligible
               /\ \A q \in Eligible :
                    \/ table[current_pid'].priority < table[q].priority
                    \/ /\ table[current_pid'].priority = table[q].priority
                       /\ current_pid' <= q]_vars
<1> DEFINE Taken ==
      Dispatch /\ Eligible # {} =>
        /\ current_pid' \in Eligible
        /\ \A q \in Eligible :
             \/ table[current_pid'].priority < table[q].priority
             \/ /\ table[current_pid'].priority = table[q].priority
                /\ current_pid' <= q
<1>1. TypeOK /\ [Next]_vars => [Taken]_vars
  BY ChosenIsEligible DEF Dispatch
<1> QED
  BY <1>1, SchedulerTypeCorrect, PTL DEF Spec
=============================================================================
