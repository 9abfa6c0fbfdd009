----------------------- MODULE CompositionRootProofs ------------------------
(***************************************************************************)
(* The getters of the composition root, for any number of threads: how     *)
(* many facades they build, which one a caller is given, and that a worker *)
(* loses track of no connection.                                           *)
(***************************************************************************)
EXTENDS CompositionRoot, SequenceTheorems, FiniteSetTheorems, TLAPS

\* The getters call each other downwards.
Rank == [llm |-> 0, rabbitmq |-> 0, notifier |-> 0, email |-> 1, user |-> 2,
         generation |-> 1]

LEMMA RankType == Rank \in [Facades -> Nat]
BY DEF Rank, Facades

LEMMA PartsDescend ==
  ASSUME NEW f \in Facades, NEW i \in 1 .. Len(Parts[f])
  PROVE  Parts[f][i] \in Facades /\ Rank[Parts[f][i]] < Rank[f]
<1>1. CASE f \in {"llm", "rabbitmq", "notifier"}
  BY <1>1 DEF Parts
<1>2. CASE f \in {"email", "user"}
  BY <1>2 DEF Parts, Rank, Facades
<1>3. CASE f = "generation"
  BY <1>3 DEF Parts, Rank, Facades
<1> QED  BY <1>1, <1>2, <1>3 DEF Facades

LEMMA PartsType == \A f \in Facades : Len(Parts[f]) \in Nat
<1> SUFFICES ASSUME NEW f \in Facades PROVE Len(Parts[f]) \in Nat
  OBVIOUS
<1>1. CASE f \in {"llm", "rabbitmq", "notifier"}
  BY <1>1 DEF Parts
<1>2. CASE f \in {"email", "user"}
  BY <1>2 DEF Parts
<1>3. CASE f = "generation"
  BY <1>3 DEF Parts
<1> QED  BY <1>1, <1>2, <1>3 DEF Facades

Getter == [facade : Facades, parts : Seq(Nat)]

Getters == Seq(Getter)

Descending(getters) ==
  \A j, k \in 1 .. Len(getters) :
    j < k => Rank[getters[k].facade] < Rank[getters[j].facade]

Holds(getters, f) == \E k \in 1 .. Len(getters) : getters[k].facade = f

\* A getter may call f after the ones that are running.
MayCall(getters, f) ==
  getters # << >> => Rank[f] < Rank[getters[Len(getters)].facade]

LEMMA GettersFacts ==
  ASSUME NEW getters \in Getters
  PROVE  /\ Len(getters) \in Nat /\ DOMAIN getters = 1 .. Len(getters)
         /\ getters = << >> <=> Len(getters) = 0
         /\ \A k \in 1 .. Len(getters) :
              /\ getters[k] \in Getter
              /\ getters[k].facade \in Facades /\ getters[k].parts \in Seq(Nat)
<1>1. /\ getters \in Seq(Getter)
      /\ Len(getters) \in Nat /\ DOMAIN getters = 1 .. Len(getters)
  BY LenProperties DEF Getters
<1>2. getters = << >> <=> Len(getters) = 0
  BY <1>1, EmptySeq
<1>3. ASSUME NEW k \in 1 .. Len(getters)
      PROVE  /\ getters[k] \in Getter
             /\ getters[k].facade \in Facades /\ getters[k].parts \in Seq(Nat)
  <2>1. getters[k] \in Getter
    BY <1>1, ElementOfSeq
  <2> QED  BY <2>1 DEF Getter
<1> QED  BY <1>1, <1>2, <1>3

\* What a getter that is called adds to those that run.
LEMMA Pushed ==
  ASSUME NEW getters \in Getters, Descending(getters), NEW f \in Facades,
         MayCall(getters, f)
  PROVE  LET more == Append(getters, [facade |-> f, parts |-> << >>])
         IN  /\ more \in Getters /\ Descending(more)
             /\ \A g : Holds(more, g) => Holds(getters, g) \/ g = f
<1> DEFINE new == [facade |-> f, parts |-> << >>]
           more == Append(getters, new)
<1>1. new \in Getter /\ new.facade = f
  <2>1. << >> \in Seq(Nat)
    BY EmptySeq
  <2> QED  BY <2>1 DEF Getter
<1>2. /\ more \in Getters /\ Len(more) = Len(getters) + 1 /\ Len(getters) \in Nat
      /\ \A k \in 1 .. Len(getters) : more[k] = getters[k]
      /\ more[Len(getters) + 1] = new
  BY <1>1, AppendProperties, GettersFacts DEF Getters
<1> HIDE DEF more, new
<1>3. \A k \in 1 .. Len(getters) : more[k].facade = getters[k].facade
  BY <1>2
<1>4. more[Len(getters) + 1].facade = f
  BY <1>1, <1>2
<1>5. ASSUME NEW j \in 1 .. Len(getters)
      PROVE  Rank[f] < Rank[getters[j].facade]
  <2> DEFINE last == Len(getters)
  <2>1. /\ last \in 1 .. Len(getters) /\ getters # << >>
        /\ getters[j].facade \in Facades /\ getters[last].facade \in Facades
    BY <1>2, GettersFacts
  <2>2. Rank[f] < Rank[getters[last].facade]
    BY <2>1 DEF MayCall
  <2>3. j # last => Rank[getters[last].facade] < Rank[getters[j].facade]
    BY <1>2, <2>1 DEF Descending
  <2> QED  BY <2>1, <2>2, <2>3, RankType
<1>6. Descending(more)
  BY <1>2, <1>3, <1>4, <1>5 DEF Descending
<1>7. \A g : Holds(more, g) => Holds(getters, g) \/ g = f
  BY <1>2, <1>3, <1>4 DEF Holds
<1> QED  BY <1>2, <1>6, <1>7 DEF more, new

\* What the caller becomes when it is given a facade.
LEMMA Given ==
  ASSUME NEW getters \in Getters, getters # << >>, NEW n \in Nat
  PROVE  LET given == [getters EXCEPT ![Len(getters)].parts = Append(@, n)]
         IN  /\ given \in Getters /\ Len(given) = Len(getters)
             /\ \A k \in 1 .. Len(getters) :
                  given[k].facade = getters[k].facade
<1> DEFINE last == getters[Len(getters)]
           new == [last EXCEPT !.parts = Append(@, n)]
           given == [getters EXCEPT ![Len(getters)] = new]
<1>1. Len(getters) \in 1 .. Len(getters) /\ last \in Getter
  BY GettersFacts
<1>2. Append(last.parts, n) \in Seq(Nat)
  BY <1>1, AppendProperties DEF Getter
<1>3. new \in Getter /\ new.facade = last.facade
  BY <1>1, <1>2 DEF Getter
<1>4. /\ given \in Getters /\ Len(given) = Len(getters)
      /\ \A k \in 1 .. Len(getters) :
           given[k] = IF k = Len(getters) THEN new ELSE getters[k]
  BY <1>1, <1>3, ExceptSeq DEF Getters
<1>5. \A k \in 1 .. Len(getters) : given[k].facade = getters[k].facade
  BY <1>3, <1>4
<1>6. given = [getters EXCEPT ![Len(getters)].parts = Append(@, n)]
  OBVIOUS
<1> QED  BY <1>4, <1>5, <1>6

\* What is left when the getter on top returns.
LEMMA Popped ==
  ASSUME NEW getters \in Getters, getters # << >>, Descending(getters)
  PROVE  LET below == SubSeq(getters, 1, Len(getters) - 1)
         IN  /\ below \in Getters /\ Descending(below)
             /\ \A g : Holds(below, g) =>
                  Holds(getters, g) /\ g # getters[Len(getters)].facade
<1> DEFINE last == Len(getters)
           below == SubSeq(getters, 1, last - 1)
<1>1. last \in 1 .. last
  BY GettersFacts
<1>2. /\ below \in Seq(Getter) /\ Len(below) = last - 1
      /\ \A k \in 1 .. last - 1 : below[k] = getters[k]
  <2>1. 1 \in 1 .. Len(getters) + 1 /\ last - 1 \in 0 .. Len(getters)
    BY <1>1
  <2>2. Len(getters) \in Int /\ last - 1 \in Int
    BY GettersFacts
  <2> HIDE DEF last
  <2>3. \A k \in 1 .. last - 1 : getters[k] \in Getter
    BY <1>1, <2>2, GettersFacts DEF last
  <2>4. /\ below \in Seq(Getter)
        /\ Len(below) = IF 1 <= last - 1 THEN last - 1 - 1 + 1 ELSE 0
        /\ \A k \in 1 .. last - 1 - 1 + 1 : below[k] = getters[1 + k - 1]
    BY <2>2, <2>3, SubSeqProperties
  <2> HIDE DEF below
  <2> QED  BY <1>1, <2>2, <2>4
<1>3. Descending(below)
  BY <1>1, <1>2 DEF Descending
<1>4. ASSUME NEW g, Holds(below, g)
      PROVE  Holds(getters, g) /\ g # getters[last].facade
  <2>1. PICK k \in 1 .. last - 1 : getters[k].facade = g
    BY <1>1, <1>2, <1>4 DEF Holds
  <2>2. k \in 1 .. last /\ k < last
    BY <1>1
  <2>3. Rank[getters[last].facade] < Rank[getters[k].facade]
    BY <1>1, <2>2 DEF Descending
  <2>4. getters[last].facade \in Facades
    BY <1>1, GettersFacts
  <2>5. getters[last].facade # getters[k].facade
    BY <2>3, <2>4, RankType
  <2> QED  BY <2>1, <2>2, <2>5 DEF Holds
<1> QED  BY <1>2, <1>3, <1>4 DEF Getters

-----------------------------------------------------------------------------
(***************************************************************************)
(* The invariant.                                                          *)
(***************************************************************************)
Within(f) == {t \in pool : Holds(stack[t], f)}

Typed ==
  /\ process \in DOMAIN Entries
  /\ pool \subseteq Threads
  /\ made \in Seq(Getter)
  /\ cache \in [Facades -> 0 .. Len(made)]
  /\ stack \in [Threads -> Getters]

Ordered == \A t \in Threads : Descending(stack[t])

\* A thread in the getter may still build one more; none enters once one is cached.
Bounded ==
  \A f \in Facades :
    /\ cache[f] = 0 => Instances(f) = {}
    /\ Cardinality(Instances(f)) + Cardinality(Within(f)) <= Cardinality(pool)

IInv == Typed /\ Ordered /\ Bounded

Sized ==
  /\ IsFiniteSet(pool) /\ Cardinality(pool) \in Nat
  /\ \A f \in Facades :
       /\ IsFiniteSet(Within(f)) /\ Cardinality(Within(f)) \in Nat
       /\ Cardinality(Within(f)) <= Cardinality(pool)
       /\ IsFiniteSet(Instances(f)) /\ Cardinality(Instances(f)) \in Nat

LEMMA Sizes == Typed => Sized
<1> SUFFICES ASSUME Typed, NEW f \in Facades
             PROVE  /\ IsFiniteSet(pool) /\ Cardinality(pool) \in Nat
                    /\ IsFiniteSet(Within(f)) /\ Cardinality(Within(f)) \in Nat
                    /\ Cardinality(Within(f)) <= Cardinality(pool)
                    /\ IsFiniteSet(Instances(f))
                    /\ Cardinality(Instances(f)) \in Nat
  BY DEF Sized, Facades
<1>1. IsFiniteSet(pool)
  BY ThreadAssumption, FS_Subset DEF Typed
<1>2. Within(f) \subseteq pool
  BY DEF Within
<1>3. Len(made) \in Nat /\ DOMAIN made = 1 .. Len(made)
  BY LenProperties DEF Typed
<1>4. Instances(f) \subseteq 1 .. Len(made)
  BY <1>3 DEF Instances
<1>5. IsFiniteSet(1 .. Len(made))
  BY <1>3, FS_Interval
<1> QED  BY <1>1, <1>2, <1>4, <1>5, FS_Subset, FS_CardinalityType

\* Thread t alone moves, and the getters it is in afterwards descend.
Moves(t) ==
  /\ stack' \in [Threads -> Getters]
  /\ Descending(stack'[t])
  /\ \A u \in Threads \ {t} : stack'[u] = stack[u]

LEMMA StaysOrdered ==
  ASSUME IInv, NEW t \in Threads, Moves(t)
  PROVE  Ordered'
BY DEF IInv, Ordered, Moves

LEMMA Returned ==
  ASSUME IInv, NEW t \in Threads, NEW callers \in Getters, Descending(callers),
         NEW n \in Nat, Return(t, callers, n)
  PROVE  Moves(t) /\ \A g : Holds(stack'[t], g) => Holds(callers, g)
<1>1. stack \in [Threads -> Getters]
  BY DEF IInv, Typed
<1>2. CASE callers = << >>
  <2>1. stack' = [stack EXCEPT ![t] = << >>]
    BY <1>2 DEF Return
  <2>2. << >> \in Getters
    BY EmptySeq DEF Getters
  <2>3. /\ stack' \in [Threads -> Getters] /\ stack'[t] = callers
        /\ \A u \in Threads \ {t} : stack'[u] = stack[u]
    BY <1>1, <1>2, <2>1, <2>2
  <2> QED  BY <2>3 DEF Moves
<1>3. CASE callers # << >>
  <2> DEFINE given == [callers EXCEPT ![Len(callers)].parts = Append(@, n)]
  <2>1. stack' = [stack EXCEPT ![t] = given]
    BY <1>3 DEF Return
  <2>2. /\ given \in Getters /\ Len(given) = Len(callers)
        /\ \A k \in 1 .. Len(callers) : given[k].facade = callers[k].facade
    BY <1>3, Given
  <2> HIDE DEF given
  <2>3. /\ stack' \in [Threads -> Getters] /\ stack'[t] = given
        /\ \A u \in Threads \ {t} : stack'[u] = stack[u]
    BY <1>1, <2>1, <2>2
  <2>4. Descending(given)
    BY <2>2 DEF Descending
  <2>5. \A g : Holds(given, g) => Holds(callers, g)
    BY <2>2 DEF Holds
  <2> QED  BY <2>3, <2>4, <2>5 DEF Moves
<1> QED  BY <1>2, <1>3

\* Entering a getter is for those that find nothing in its cache.
LEMMA Called ==
  ASSUME IInv, NEW t \in Threads, NEW callers \in Getters, Descending(callers),
         NEW f \in Facades, MayCall(callers, f), Call(t, callers, f)
  PROVE  /\ Moves(t)
         /\ \A g : Holds(stack'[t], g) =>
              Holds(callers, g) \/ (g = f /\ cache[f] = 0)
<1>1. stack \in [Threads -> Getters] /\ cache[f] \in Nat
  BY LenProperties DEF IInv, Typed
<1>2. CASE cache[f] # 0
  <2>1. Return(t, callers, cache[f])
    BY <1>2 DEF Call
  <2> QED  BY <1>1, <1>2, <2>1, Returned
<1>3. CASE cache[f] = 0
  <2> DEFINE more == Append(callers, [facade |-> f, parts |-> << >>])
  <2>1. stack' = [stack EXCEPT ![t] = more]
    BY <1>3 DEF Call
  <2>2. /\ more \in Getters /\ Descending(more)
        /\ \A g : Holds(more, g) => Holds(callers, g) \/ g = f
    BY Pushed
  <2> HIDE DEF more
  <2>3. /\ stack' \in [Threads -> Getters] /\ stack'[t] = more
        /\ \A u \in Threads \ {t} : stack'[u] = stack[u]
    BY <1>1, <2>1, <2>2
  <2> QED  BY <1>3, <2>2, <2>3 DEF Moves
<1> QED  BY <1>2, <1>3

\* A thread that is in no more getters than before changes no count.
LEMMA Shrinks ==
  ASSUME IInv, UNCHANGED <<process, pool, made, cache>>, Typed',
         \A u \in Threads, g \in Facades :
           Holds(stack'[u], g) => Holds(stack[u], g)
  PROVE  Bounded'
<1> SUFFICES ASSUME NEW f \in Facades
             PROVE  /\ cache'[f] = 0 => Instances(f)' = {}
                    /\ Cardinality(Instances(f)') + Cardinality(Within(f)')
                         <= Cardinality(pool')
  BY DEF Bounded
<1>1. Instances(f)' = Instances(f) /\ cache' = cache /\ pool' = pool
  BY DEF Instances
<1>2. Within(f)' \subseteq Within(f)
  BY DEF Within, IInv, Typed
<1>3. /\ IsFiniteSet(Within(f)) /\ Cardinality(Within(f)) \in Nat
      /\ Cardinality(Instances(f)) \in Nat /\ Cardinality(pool) \in Nat
  BY Sizes DEF IInv, Sized
<1>4. /\ Cardinality(Within(f)') <= Cardinality(Within(f))
      /\ Cardinality(Within(f)') \in Nat
  BY <1>2, <1>3, FS_Subset, FS_CardinalityType
<1>5. /\ cache[f] = 0 => Instances(f) = {}
      /\ Cardinality(Instances(f)) + Cardinality(Within(f)) <= Cardinality(pool)
  BY DEF IInv, Bounded
<1> QED  BY <1>1, <1>3, <1>4, <1>5

\* A call: those that enter a getter find its cache empty, so that nothing was
\* built by it, and they are threads of the pool.
LEMMA CallKeeps ==
  ASSUME IInv, NEW t \in pool, NEW callers \in Getters, Descending(callers),
         \A g : Holds(callers, g) => Holds(stack[t], g),
         NEW f \in Facades, MayCall(callers, f), Call(t, callers, f),
         UNCHANGED <<process, pool, made, cache>>
  PROVE  IInv'
<1>1. t \in Threads
  BY DEF IInv, Typed
<1>2. /\ Moves(t)
      /\ \A g : Holds(stack'[t], g) => Holds(stack[t], g) \/ (g = f /\ cache[f] = 0)
  BY <1>1, Called
<1>3. Typed'
  BY <1>2 DEF IInv, Typed, Moves
<1>4. Ordered'
  BY <1>1, <1>2, StaysOrdered
<1>5. ASSUME NEW g \in Facades
      PROVE  /\ cache'[g] = 0 => Instances(g)' = {}
             /\ Cardinality(Instances(g)') + Cardinality(Within(g)')
                  <= Cardinality(pool')
  <2>1. Instances(g)' = Instances(g) /\ cache' = cache /\ pool' = pool
    BY DEF Instances
  <2>2. /\ cache[g] = 0 => Instances(g) = {}
        /\ Cardinality(Instances(g)) + Cardinality(Within(g)) <= Cardinality(pool)
    BY DEF IInv, Bounded
  <2>3. /\ IsFiniteSet(Within(g)) /\ Cardinality(Within(g)) \in Nat
        /\ Cardinality(Instances(g)) \in Nat /\ Cardinality(pool) \in Nat
    BY Sizes DEF IInv, Sized
  <2>4. /\ IsFiniteSet(Within(g)') /\ Cardinality(Within(g)') \in Nat
        /\ Cardinality(Within(g)') <= Cardinality(pool')
    <3>1. Sized'
      BY <1>3, Sizes, PTL
    <3> QED  BY <3>1 DEF Sized
  <2>5. CASE cache[g] = 0
    BY <2>1, <2>2, <2>3, <2>4, <2>5, FS_EmptySet
  <2>6. CASE cache[g] # 0
    <3>1. Within(g)' \subseteq Within(g)
      BY <1>1, <1>2, <2>6 DEF Within, Moves, IInv, Typed
    <3>2. Cardinality(Within(g)') <= Cardinality(Within(g))
      BY <2>3, <3>1, FS_Subset
    <3> QED  BY <2>1, <2>2, <2>3, <2>4, <2>6, <3>2
  <2> QED  BY <2>5, <2>6
<1> QED  BY <1>3, <1>4, <1>5 DEF IInv, Bounded

-----------------------------------------------------------------------------
(***************************************************************************)
(* The steps.                                                              *)
(***************************************************************************)
LEMMA AskKeeps ==
  ASSUME IInv, NEW t \in pool, NEW f \in Facades, Call(t, << >>, f),
         UNCHANGED <<process, pool, made, cache>>
  PROVE  IInv'
<1>1. /\ << >> \in Getters /\ Descending(<< >>) /\ MayCall(<< >>, f)
      /\ \A g : ~Holds(<< >>, g)
  BY EmptySeq DEF Getters, Descending, MayCall, Holds
<1> QED  BY <1>1, CallKeeps

LEMMA AskPartKeeps ==
  ASSUME IInv, NEW t \in pool, AskPart(t)
  PROVE  IInv'
<1> DEFINE top == Top(t)
           i == Len(top.parts) + 1
           f == Parts[top.facade][i]
<1>1. /\ stack[t] \in Getters /\ stack[t] # << >> /\ Descending(stack[t])
      /\ Call(t, stack[t], f) /\ UNCHANGED <<process, pool, made, cache>>
      /\ Len(top.parts) < Len(Parts[top.facade])
  BY DEF IInv, Typed, Ordered, AskPart, Missing, setting
<1>2. top.facade \in Facades /\ top.parts \in Seq(Nat)
  BY <1>1, GettersFacts DEF Top
<1>3. Len(top.parts) \in Nat /\ Len(Parts[top.facade]) \in Nat
  BY <1>2, LenProperties, PartsType
<1> HIDE DEF top
<1>4. i \in 1 .. Len(Parts[top.facade])
  BY <1>1, <1>3
<1>5. f \in Facades /\ Rank[f] < Rank[top.facade]
  BY <1>2, <1>4, PartsDescend
<1>6. MayCall(stack[t], f)
  BY <1>5 DEF MayCall, top, Top
<1> HIDE DEF f
<1> QED  BY <1>1, <1>5, <1>6, CallKeeps

\* The thread leaves the getter and its facade is one more: the sum stands.
LEMMA BuildKeeps ==
  ASSUME IInv, NEW t \in pool, Build(t)
  PROVE  IInv'
<1> DEFINE f == Top(t).facade
           n == Len(made) + 1
<1>1. /\ stack[t] \in Getters /\ stack[t] # << >> /\ Descending(stack[t])
      /\ t \in Threads
  BY DEF IInv, Typed, Ordered, Build, Construct
<1>2. /\ made' = Append(made, Top(t)) /\ UNCHANGED <<process, pool>>
      /\ cache' = IF cache[f] = 0 THEN [cache EXCEPT ![f] = n] ELSE cache
      /\ Return(t, Below(t), n)
  BY DEF Build, Construct, setting
<1>3. /\ Top(t) \in Getter /\ f \in Facades
      /\ Len(stack[t]) \in 1 .. Len(stack[t])
  BY <1>1, GettersFacts DEF Top
<1>4. /\ Below(t) \in Getters /\ Descending(Below(t))
      /\ \A g : Holds(Below(t), g) => Holds(stack[t], g) /\ g # f
  BY <1>1, Popped DEF Below, Top
<1>5. /\ made \in Seq(Getter) /\ Len(made) \in Nat /\ DOMAIN made = 1 .. Len(made)
      /\ cache \in [Facades -> 0 .. Len(made)]
  BY LenProperties DEF IInv, Typed
<1>6. /\ made' \in Seq(Getter) /\ Len(made') = Len(made) + 1
      /\ DOMAIN made' = 1 .. Len(made) + 1
      /\ \A k \in 1 .. Len(made) : made'[k] = made[k]
      /\ made'[Len(made) + 1] = Top(t)
  BY <1>2, <1>3, <1>5, AppendProperties, LenProperties
<1>7. Moves(t) /\ \A g : Holds(stack'[t], g) => Holds(stack[t], g) /\ g # f
  BY <1>1, <1>2, <1>4, <1>5, Returned
<1>8. cache' \in [Facades -> 0 .. Len(made')]
  BY <1>2, <1>3, <1>5, <1>6
<1>9. Typed'
  BY <1>2, <1>6, <1>7, <1>8 DEF IInv, Typed, Moves
<1>10. Ordered'
  BY <1>1, <1>7, StaysOrdered
<1>11. Sized /\ Sized'
  BY <1>9, Sizes, PTL DEF IInv
<1>12. Holds(stack[t], f)
  BY <1>3 DEF Holds, Top
<1>13. ASSUME NEW g \in Facades
       PROVE  /\ cache'[g] = 0 => Instances(g)' = {}
              /\ Cardinality(Instances(g)') + Cardinality(Within(g)')
                   <= Cardinality(pool')
  <2>1. /\ cache[g] = 0 => Instances(g) = {}
        /\ Cardinality(Instances(g)) + Cardinality(Within(g)) <= Cardinality(pool)
    BY DEF IInv, Bounded
  <2>2. Within(g)' \subseteq Within(g)
    BY <1>1, <1>2, <1>7 DEF Within, Moves, IInv, Typed
  <2>3. /\ IsFiniteSet(Within(g)) /\ Cardinality(Within(g)) \in Nat
        /\ Cardinality(Within(g)') \in Nat /\ Cardinality(Instances(g)) \in Nat
        /\ IsFiniteSet(Instances(g)) /\ Cardinality(pool) \in Nat
        /\ Cardinality(Instances(g)') \in Nat
    BY <1>11 DEF Sized
  <2>4. CASE g = f
    <3>1. t \in Within(g) /\ t \notin Within(g)'
      BY <1>2, <1>7, <1>12, <2>4 DEF Within
    <3>2. Instances(g)' = Instances(g) \cup {n}
      BY <1>5, <1>6, <2>4 DEF Instances
    <3>3. Cardinality(Instances(g)') <= Cardinality(Instances(g)) + 1
      <4> HIDE DEF n
      <4>1. Cardinality(Instances(g) \cup {n}) =
              IF n \in Instances(g) THEN Cardinality(Instances(g))
                                    ELSE Cardinality(Instances(g)) + 1
        BY <2>3, FS_AddElement
      <4> QED  BY <2>3, <3>2, <4>1
    <3>4. Cardinality(Within(g)') <= Cardinality(Within(g)) - 1
      <4>1. Within(g)' \in SUBSET (Within(g) \ {t})
        BY <2>2, <3>1
      <4>2. /\ IsFiniteSet(Within(g) \ {t})
            /\ Cardinality(Within(g) \ {t}) = Cardinality(Within(g)) - 1
        BY <2>3, <3>1, FS_RemoveElement
      <4>3. Cardinality(Within(g)') <= Cardinality(Within(g) \ {t})
        BY <4>1, <4>2, FS_Subset
      <4> QED  BY <4>2, <4>3
    <3>5. cache'[g] # 0
      BY <1>2, <1>3, <1>5, <2>4
    <3> QED  BY <1>2, <2>1, <2>3, <3>3, <3>4, <3>5
  <2>5. CASE g # f
    <3>1. Instances(g)' = Instances(g)
      BY <1>5, <1>6, <2>5 DEF Instances
    <3>2. Cardinality(Within(g)') <= Cardinality(Within(g))
      BY <2>2, <2>3, FS_Subset
    <3>3. cache'[g] = cache[g]
      BY <1>2, <1>5, <2>5
    <3> QED  BY <1>2, <2>1, <2>3, <3>1, <3>2, <3>3
  <2> QED  BY <2>4, <2>5
<1> QED  BY <1>9, <1>10, <1>13 DEF IInv, Bounded

LEMMA RaiseKeeps ==
  ASSUME IInv, NEW t \in pool, Raise(t)
  PROVE  IInv'
<1>1. /\ << >> \in Getters /\ Descending(<< >>) /\ \A g : ~Holds(<< >>, g)
  BY EmptySeq DEF Getters, Descending, Holds
<1>2. /\ stack' = [stack EXCEPT ![t] = << >>]
      /\ UNCHANGED <<process, pool, made, cache>>
      /\ t \in Threads /\ stack \in [Threads -> Getters]
  BY DEF Raise, setting, IInv, Typed
<1>3. Typed' /\ Ordered'
  BY <1>1, <1>2 DEF IInv, Typed, Ordered
<1>4. \A u \in Threads, g \in Facades : Holds(stack'[u], g) => Holds(stack[u], g)
  BY <1>1, <1>2
<1> QED  BY <1>2, <1>3, <1>4, Shrinks DEF IInv

LEMMA StutterKeeps ==
  ASSUME IInv, UNCHANGED <<process, pool, made, cache, stack>>
  PROVE  IInv'
<1>1. Typed' /\ Ordered'
  BY DEF IInv, Typed, Ordered
<1> QED  BY <1>1, Shrinks DEF IInv

LEMMA Initially ==
  ASSUME Init
  PROVE  IInv
<1>1. /\ << >> \in Seq(Getter) /\ << >> \in Getters /\ Len(<< >>) = 0
      /\ Descending(<< >>) /\ \A g : ~Holds(<< >>, g)
  BY EmptySeq DEF Getters, Descending, Holds
<1>2. pool \subseteq Threads
  BY DEF Init
<1>3. Typed /\ Ordered
  BY <1>1, <1>2 DEF Init, Typed, Ordered
<1>4. Sized
  BY <1>3, Sizes
<1>5. ASSUME NEW f \in Facades
      PROVE  /\ Instances(f) = {}
             /\ Cardinality(Instances(f)) + Cardinality(Within(f))
                  <= Cardinality(pool)
  <2>1. Instances(f) = {} /\ Within(f) = {}
    BY <1>1, <1>2 DEF Init, Instances, Within
  <2> QED  BY <1>4, <2>1, FS_EmptySet DEF Sized
<1> QED  BY <1>3, <1>5 DEF IInv, Bounded

LEMMA Inductive == IInv /\ [Next]_vars => IInv'
<1> SUFFICES ASSUME IInv, [Next]_vars PROVE IInv'
  OBVIOUS
<1>1. ASSUME NEW t \in pool, NEW f \in Entries[process], Ask(t, f)
      PROVE  IInv'
  <2>1. f \in Facades
    BY DEF Entries, Facades, IInv, Typed
  <2> QED  BY <1>1, <2>1, AskKeeps DEF Ask, setting
<1>2. ASSUME NEW t \in pool, Inside(t)
      PROVE  IInv'
  BY <1>2, AskPartKeeps, BuildKeeps, RaiseKeeps DEF Inside
<1>3. ASSUME NEW t \in pool, Leave(t) \/ Publish(t) \/ Close(t)
      PROVE  IInv'
  <2>1. UNCHANGED <<process, pool, made, cache, stack>>
    BY <1>3 DEF Leave, Publish, Close, setting
  <2> QED  BY <2>1, StutterKeeps
<1>4. ASSUME NEW t \in pool, Finally(t)
      PROVE  IInv'
  <2>1. "notifier" \in Facades
    BY DEF Facades
  <2> QED  BY <1>4, <2>1, AskKeeps DEF Finally, setting
<1>5. CASE UNCHANGED vars
  BY <1>5, StutterKeeps DEF vars
<1> QED  BY <1>1, <1>2, <1>3, <1>4, <1>5 DEF Next

-----------------------------------------------------------------------------
\* However the first requests of any number of threads race, a getter builds no
\* more facades than there are threads that call it: one where one thread does.
THEOREM BuiltOncePerThreadAlways == Spec => []BuiltOncePerThread
<1>1. IInv => BuiltOncePerThread
  <2> SUFFICES ASSUME IInv, NEW f \in Facades
               PROVE  Cardinality(Instances(f)) <= Cardinality(pool)
    BY DEF BuiltOncePerThread
  <2>1. /\ Cardinality(Within(f)) \in Nat /\ Cardinality(Instances(f)) \in Nat
        /\ Cardinality(pool) \in Nat
    BY Sizes DEF IInv, Sized
  <2>2. Cardinality(Instances(f)) + Cardinality(Within(f)) <= Cardinality(pool)
    BY DEF IInv, Bounded
  <2> QED  BY <2>1, <2>2
<1> QED  BY Initially, Inductive, <1>1, PTL DEF Spec

-----------------------------------------------------------------------------
(***************************************************************************)
(* Who gets which facade.  In this part what depends on the facades made   *)
(* so far has them as a parameter, since Build adds one.                   *)
(***************************************************************************)
OfKind(all, f) == {n \in DOMAIN all : all[n].facade = f}

\* The parts a getter has so far are of the kinds its facade is made of.
Fits(all, getter) ==
  /\ Len(getter.parts) <= Len(Parts[getter.facade])
  /\ \A i \in 1 .. Len(getter.parts) :
       getter.parts[i] \in OfKind(all, Parts[getter.facade][i])

Awaits(getter, f) ==
  /\ Len(getter.parts) < Len(Parts[getter.facade])
  /\ f = Parts[getter.facade][Len(getter.parts) + 1]

\* Getters that run for a thread that wants w.
Wired(all, getters, w) ==
  /\ \A k \in 1 .. Len(getters) : Fits(all, getters[k])
  /\ \A k \in 1 .. Len(getters) :
       k > 1 => Awaits(getters[k - 1], getters[k].facade)
  /\ getters # << >> => getters[1].facade = w

\* They call f next.
Calling(getters, f, w) ==
  IF getters = << >> THEN f = w ELSE Awaits(getters[Len(getters)], f)

\* A thread that runs these getters and was given facade n.
Placed(all, getters, w, n) ==
  /\ Wired(all, getters, w)
  /\ n # 0 => n \in OfKind(all, w)
  /\ getters # << >> => n = 0

Wiring ==
  /\ want \in [Threads -> Facades \cup {"none"}] /\ got \in [Threads -> Nat]
  /\ \A f \in Facades : cache[f] # 0 => cache[f] \in OfKind(made, f)
  /\ \A n \in DOMAIN made :
       /\ Fits(made, made[n])
       /\ Len(made[n].parts) = Len(Parts[made[n].facade])
  /\ \A t \in Threads : Placed(made, stack[t], want[t], got[t])

LEMMA WiredPushed ==
  ASSUME NEW all, NEW getters \in Getters, NEW w, NEW f \in Facades,
         Wired(all, getters, w), Calling(getters, f, w)
  PROVE  LET more == Append(getters, [facade |-> f, parts |-> << >>])
         IN  Wired(all, more, w) /\ more # << >>
<1> DEFINE new == [facade |-> f, parts |-> << >>]
           more == Append(getters, new)
<1>1. new \in Getter /\ new.facade = f /\ new.parts = << >> /\ Len(<< >>) = 0
  BY EmptySeq DEF Getter
<1>2. /\ Len(more) = Len(getters) + 1 /\ Len(getters) \in Nat
      /\ \A k \in 1 .. Len(getters) : more[k] = getters[k]
      /\ more[Len(getters) + 1] = new
      /\ more \in Seq(Getter)
  BY <1>1, AppendProperties, GettersFacts DEF Getters
<1>3. Fits(all, new)
  BY <1>1, PartsType DEF Fits
<1> HIDE DEF more, new
<1>4. \A k \in 1 .. Len(more) : Fits(all, more[k])
  BY <1>2, <1>3 DEF Wired
<1>5. ASSUME NEW k \in 1 .. Len(more), k > 1
      PROVE  Awaits(more[k - 1], more[k].facade)
  <2>1. CASE k = Len(getters) + 1
    <3>1. getters # << >>
      BY <1>2, <1>5, <2>1, GettersFacts
    <3>2. Awaits(getters[Len(getters)], f)
      BY <3>1 DEF Calling
    <3>3. k - 1 = Len(getters) /\ Len(getters) \in 1 .. Len(getters)
      BY <1>2, <1>5, <2>1
    <3> QED  BY <1>1, <1>2, <2>1, <3>2, <3>3
  <2>2. CASE k # Len(getters) + 1
    <3>1. k \in 1 .. Len(getters) /\ k - 1 \in 1 .. Len(getters)
      BY <1>2, <1>5, <2>2
    <3> QED  BY <1>2, <1>5, <3>1 DEF Wired
  <2> QED  BY <2>1, <2>2
<1>6. more[1].facade = w
  <2>1. CASE getters = << >>
    BY <1>1, <1>2, <2>1, GettersFacts DEF Calling
  <2>2. CASE getters # << >>
    <3>1. 1 \in 1 .. Len(getters)
      BY <2>2, GettersFacts
    <3> QED  BY <1>2, <2>2, <3>1 DEF Wired
  <2> QED  BY <2>1, <2>2
<1>7. more # << >>
  BY <1>2, EmptySeq
<1> QED  BY <1>4, <1>5, <1>6, <1>7 DEF Wired, more, new

\* The caller has one part more.
LEMMA WiredGiven ==
  ASSUME NEW all, NEW getters \in Getters, getters # << >>, NEW w, NEW f,
         Wired(all, getters, w), Awaits(getters[Len(getters)], f),
         NEW n \in Nat, n \in OfKind(all, f)
  PROVE  LET given == [getters EXCEPT ![Len(getters)].parts = Append(@, n)]
         IN  Wired(all, given, w) /\ given # << >>
<1> DEFINE last == getters[Len(getters)]
           new == [last EXCEPT !.parts = Append(@, n)]
           given == [getters EXCEPT ![Len(getters)] = new]
<1>1. Len(getters) \in 1 .. Len(getters) /\ last \in Getter /\ last.facade \in Facades
  BY GettersFacts
<1>2. /\ Append(last.parts, n) \in Seq(Nat)
      /\ Len(last.parts) \in Nat
      /\ Len(Append(last.parts, n)) = Len(last.parts) + 1
      /\ \A i \in 1 .. Len(last.parts) : Append(last.parts, n)[i] = last.parts[i]
      /\ Append(last.parts, n)[Len(last.parts) + 1] = n
  BY <1>1, AppendProperties, LenProperties DEF Getter
<1>3. /\ new \in Getter /\ new.facade = last.facade
      /\ new.parts = Append(last.parts, n)
  BY <1>1, <1>2 DEF Getter
<1>4. /\ given \in Getters /\ Len(given) = Len(getters)
      /\ \A k \in 1 .. Len(getters) :
           given[k] = IF k = Len(getters) THEN new ELSE getters[k]
  BY <1>1, <1>3, ExceptSeq DEF Getters
<1>5. Fits(all, last) /\ Len(Parts[last.facade]) \in Nat
  BY <1>1, PartsType DEF Wired
<1>6. Len(last.parts) < Len(Parts[last.facade])
      /\ f = Parts[last.facade][Len(last.parts) + 1]
  BY DEF Awaits
<1> HIDE DEF last, new, given
<1>7. Fits(all, new)
  <2>1. ASSUME NEW i \in 1 .. Len(last.parts) + 1
        PROVE  Append(last.parts, n)[i] \in OfKind(all, Parts[last.facade][i])
    <3>1. CASE i = Len(last.parts) + 1
      BY <1>2, <1>6, <3>1
    <3>2. CASE i # Len(last.parts) + 1
      <4>1. i \in 1 .. Len(last.parts)
        BY <1>2, <3>2
      <4> QED  BY <1>2, <1>5, <4>1 DEF Fits
    <3> QED  BY <3>1, <3>2
  <2> QED  BY <1>2, <1>3, <1>5, <1>6, <2>1 DEF Fits
<1>8. \A k \in 1 .. Len(given) : Fits(all, given[k])
  BY <1>4, <1>7 DEF Wired
<1>9. \A k \in 1 .. Len(given) : given[k].facade = getters[k].facade
  BY <1>3, <1>4 DEF last
<1>10. ASSUME NEW k \in 1 .. Len(given), k > 1
       PROVE  Awaits(given[k - 1], given[k].facade)
  <2>1. /\ k \in 1 .. Len(getters) /\ k - 1 \in 1 .. Len(getters)
        /\ k - 1 # Len(getters)
    BY <1>1, <1>4, <1>10
  <2>2. given[k - 1] = getters[k - 1] /\ Awaits(getters[k - 1], getters[k].facade)
    BY <1>4, <1>10, <2>1 DEF Wired
  <2> QED  BY <1>9, <1>10, <2>2
<1>11. given[1].facade = w /\ given # << >>
  <2>1. 1 \in 1 .. Len(given) /\ getters[1].facade = w
    BY <1>1, <1>4 DEF Wired
  <2> QED  BY <1>1, <1>4, <1>9, <2>1, GettersFacts
<1>12. given = [getters EXCEPT ![Len(getters)].parts = Append(@, n)]
  BY DEF given, new, last
<1> QED  BY <1>8, <1>10, <1>11, <1>12 DEF Wired

\* The getter on top was called by those below it.
LEMMA WiredPopped ==
  ASSUME NEW all, NEW getters \in Getters, getters # << >>, NEW w,
         Wired(all, getters, w)
  PROVE  LET below == SubSeq(getters, 1, Len(getters) - 1)
         IN  /\ Wired(all, below, w)
             /\ Calling(below, getters[Len(getters)].facade, w)
<1> DEFINE last == Len(getters)
           below == SubSeq(getters, 1, last - 1)
<1>1. last \in 1 .. last /\ last \in Nat
  BY GettersFacts
<1>2. /\ Len(below) = last - 1
      /\ \A k \in 1 .. last - 1 : below[k] = getters[k]
      /\ below = << >> <=> last = 1
  <2>1. last - 1 \in 0 .. last /\ 1 \in 1 .. last + 1
    BY <1>1
  <2> HIDE DEF last
  <2>2. \A k \in 1 .. last - 1 : getters[k] \in Getter
    BY <1>1, GettersFacts DEF last
  <2>3. /\ below \in Seq(Getter)
        /\ Len(below) = IF 1 <= last - 1 THEN last - 1 - 1 + 1 ELSE 0
        /\ \A k \in 1 .. last - 1 - 1 + 1 : below[k] = getters[1 + k - 1]
    BY <1>1, <2>1, <2>2, SubSeqProperties
  <2> HIDE DEF below
  <2>4. below = << >> <=> Len(below) = 0
    BY <2>3, EmptySeq
  <2> QED  BY <1>1, <2>3, <2>4
<1> HIDE DEF last, below
<1>3. Wired(all, below, w)
  BY <1>1, <1>2, SMTT(30) DEF Wired, last
<1>4. Calling(below, getters[last].facade, w)
  <2>1. CASE last = 1
    BY <1>1, <1>2, <2>1 DEF Calling, Wired
  <2>2. CASE last # 1
    <3>1. last - 1 \in 1 .. last - 1 /\ last > 1
      BY <1>1, <2>2
    <3>2. Awaits(getters[last - 1], getters[last].facade)
      BY <1>1, <3>1 DEF Wired, last
    <3> QED  BY <1>2, <2>2, <3>1, <3>2 DEF Calling
  <2> QED  BY <2>1, <2>2
<1> QED  BY <1>3, <1>4 DEF last, below

\* A facade that is added takes nothing away.
LEMMA MoreOfKind ==
  ASSUME NEW all \in Seq(Getter), NEW getter \in Getter
  PROVE  LET more == Append(all, getter)
         IN  /\ \A f : OfKind(all, f) \subseteq OfKind(more, f)
             /\ Len(all) + 1 \in OfKind(more, getter.facade)
             /\ \A g : Fits(all, g) => Fits(more, g)
             /\ \A getters, w, n :
                  Placed(all, getters, w, n) => Placed(more, getters, w, n)
<1> DEFINE more == Append(all, getter)
<1>1. /\ DOMAIN all = 1 .. Len(all) /\ DOMAIN more = 1 .. Len(all) + 1
      /\ Len(all) \in Nat
      /\ \A k \in 1 .. Len(all) : more[k] = all[k]
      /\ more[Len(all) + 1] = getter
  BY AppendProperties, LenProperties
<1> HIDE DEF more
<1>2. \A f : OfKind(all, f) \subseteq OfKind(more, f)
  BY <1>1 DEF OfKind
<1>3. Len(all) + 1 \in OfKind(more, getter.facade)
  BY <1>1 DEF OfKind
<1>4. \A g : Fits(all, g) => Fits(more, g)
  BY <1>2 DEF Fits
<1>5. \A getters, w : Wired(all, getters, w) => Wired(more, getters, w)
  BY <1>4 DEF Wired
<1>6. \A getters, w, n :
        Placed(all, getters, w, n) => Placed(more, getters, w, n)
  BY <1>2, <1>5 DEF Placed
<1> QED  BY <1>2, <1>3, <1>4, <1>6 DEF more

\* Thread t alone moves: it is given a facade or runs getters.
Settles(t) ==
  /\ stack' \in [Threads -> Getters] /\ got' \in [Threads -> Nat]
  /\ \A u \in Threads \ {t} : stack'[u] = stack[u] /\ got'[u] = got[u]
  /\ stack'[t] # << >> \/ got'[t] # 0

LEMMA ReturnPlaces ==
  ASSUME stack \in [Threads -> Getters], got \in [Threads -> Nat],
         NEW t \in Threads, NEW callers \in Getters,
         NEW all, NEW w, NEW f, NEW n \in Nat,
         Wired(all, callers, w), Calling(callers, f, w),
         n # 0, n \in OfKind(all, f), callers # << >> => got[t] = 0,
         Return(t, callers, n)
  PROVE  Settles(t) /\ Placed(all, stack'[t], w, got'[t])
<1>1. CASE callers = << >>
  <2>1. stack' = [stack EXCEPT ![t] = << >>] /\ got' = [got EXCEPT ![t] = n]
    BY <1>1 DEF Return
  <2>2. << >> \in Getters
    BY EmptySeq DEF Getters
  <2>3. stack'[t] = callers /\ got'[t] = n
    BY <1>1, <2>1
  <2>4. Settles(t)
    BY <2>1, <2>2, <2>3 DEF Settles
  <2>5. n \in OfKind(all, w)
    BY <1>1 DEF Calling
  <2> QED  BY <1>1, <2>3, <2>4, <2>5 DEF Placed
<1>2. CASE callers # << >>
  <2> DEFINE given == [callers EXCEPT ![Len(callers)].parts = Append(@, n)]
  <2>1. stack' = [stack EXCEPT ![t] = given] /\ got' = got
    BY <1>2 DEF Return
  <2>2. given \in Getters
    BY <1>2, Given
  <2>3. Wired(all, given, w) /\ given # << >>
    <3>1. Awaits(callers[Len(callers)], f)
      BY <1>2 DEF Calling
    <3> QED  BY <1>2, <3>1, WiredGiven
  <2> HIDE DEF given
  <2>4. stack'[t] = given
    BY <2>1
  <2>5. Settles(t)
    BY <2>1, <2>2, <2>3, <2>4 DEF Settles
  <2> QED  BY <1>2, <2>1, <2>3, <2>4, <2>5 DEF Placed
<1> QED  BY <1>1, <1>2

LEMMA CallPlaces ==
  ASSUME IInv, Wiring, NEW t \in Threads, NEW callers \in Getters, NEW w,
         NEW f \in Facades, Wired(made, callers, w), Calling(callers, f, w),
         callers # << >> => got[t] = 0, Call(t, callers, f)
  PROVE  Settles(t) /\ Placed(made, stack'[t], w, got'[t])
<1>1. /\ stack \in [Threads -> Getters] /\ got \in [Threads -> Nat]
      /\ cache[f] \in Nat
      /\ cache[f] # 0 => cache[f] \in OfKind(made, f)
  BY LenProperties DEF IInv, Typed, Wiring
<1>2. CASE cache[f] # 0
  <2>1. Return(t, callers, cache[f])
    BY <1>2 DEF Call
  <2> QED  BY <1>1, <1>2, <2>1, ReturnPlaces
<1>3. CASE cache[f] = 0
  <2> DEFINE more == Append(callers, [facade |-> f, parts |-> << >>])
             now == IF callers = << >> THEN 0 ELSE got[t]
  <2>1. stack' = [stack EXCEPT ![t] = more] /\ got' = [got EXCEPT ![t] = now]
    BY <1>3 DEF Call
  <2>2. Wired(made, more, w) /\ more # << >>
    BY WiredPushed
  <2>3. more \in Getters
    <3>1. [facade |-> f, parts |-> << >>] \in Getter
      BY EmptySeq DEF Getter
    <3> QED  BY <3>1, AppendProperties DEF Getters
  <2>4. now = 0
    OBVIOUS
  <2> HIDE DEF more, now
  <2>5. stack'[t] = more /\ got'[t] = 0
    BY <1>1, <2>1, <2>4
  <2>6. Settles(t)
    BY <1>1, <2>1, <2>2, <2>3, <2>4, <2>5 DEF Settles
  <2> QED  BY <2>2, <2>5, <2>6 DEF Placed
<1> QED  BY <1>2, <1>3

\* What keeps the facades and their cache keeps the wiring if the threads do.
LEMMA SameFacades ==
  ASSUME Wiring, UNCHANGED <<made, cache>>, NEW t \in Threads,
         NEW w \in Facades \cup {"none"}, want' = [want EXCEPT ![t] = w],
         got' \in [Threads -> Nat],
         \A u \in Threads \ {t} : stack'[u] = stack[u] /\ got'[u] = got[u],
         Placed(made, stack'[t], w, got'[t])
  PROVE  Wiring'
<1>1. /\ want \in [Threads -> Facades \cup {"none"}]
      /\ \A u \in Threads : Placed(made, stack[u], want[u], got[u])
      /\ \A f \in Facades : cache[f] # 0 => cache[f] \in OfKind(made, f)
      /\ \A n \in DOMAIN made :
           /\ Fits(made, made[n])
           /\ Len(made[n].parts) = Len(Parts[made[n].facade])
  BY DEF Wiring
<1>2. /\ want' \in [Threads -> Facades \cup {"none"}] /\ want'[t] = w
      /\ \A u \in Threads \ {t} : want'[u] = want[u]
  BY <1>1
<1>3. \A u \in Threads : Placed(made', stack'[u], want'[u], got'[u])
  BY <1>1, <1>2
<1> QED  BY <1>1, <1>2, <1>3 DEF Wiring

LEMMA NothingWired ==
  ASSUME NEW all, NEW w
  PROVE  << >> \in Getters /\ Wired(all, << >>, w) /\ Calling(<< >>, w, w)
BY EmptySeq DEF Getters, Wired, Calling

LEMMA AskWires ==
  ASSUME IInv, Wiring, NEW t \in pool, NEW f \in Facades,
         want' = [want EXCEPT ![t] = f], Call(t, << >>, f),
         UNCHANGED <<made, cache>>
  PROVE  Wiring' /\ Settles(t)
<1>1. t \in Threads
  BY DEF IInv, Typed
<1>2. Settles(t) /\ Placed(made, stack'[t], f, got'[t])
  BY <1>1, NothingWired, CallPlaces
<1> QED  BY <1>1, <1>2, SameFacades DEF Settles

LEMMA AskPartWires ==
  ASSUME IInv, Wiring, NEW t \in pool, AskPart(t)
  PROVE  Wiring' /\ Settles(t)
<1> DEFINE top == Top(t)
           f == Parts[top.facade][Len(top.parts) + 1]
<1>1. /\ t \in Threads /\ stack[t] \in Getters /\ stack[t] # << >>
      /\ Call(t, stack[t], f) /\ UNCHANGED <<made, cache, want>>
      /\ Len(top.parts) < Len(Parts[top.facade])
  BY DEF IInv, Typed, AskPart, Missing
<1>2. /\ Wired(made, stack[t], want[t]) /\ got[t] = 0
      /\ want \in [Threads -> Facades \cup {"none"}]
  BY <1>1 DEF Wiring, Placed
<1>3. top.facade \in Facades /\ top.parts \in Seq(Nat)
  BY <1>1, GettersFacts DEF Top
<1>4. Len(top.parts) + 1 \in 1 .. Len(Parts[top.facade])
  BY <1>1, <1>3, LenProperties, PartsType
<1>5. f \in Facades
  <2> HIDE DEF top
  <2> QED  BY <1>3, <1>4, PartsDescend
<1>6. Calling(stack[t], f, want[t])
  BY <1>1 DEF Calling, Awaits, Top
<1> HIDE DEF f
<1>7. Settles(t) /\ Placed(made, stack'[t], want[t], got'[t])
  BY <1>1, <1>2, <1>5, <1>6, CallPlaces
<1>8. want' = [want EXCEPT ![t] = want[t]] /\ want[t] \in Facades \cup {"none"}
  BY <1>1, <1>2
<1> QED  BY <1>1, <1>7, <1>8, SameFacades DEF Settles

LEMMA BuildWires ==
  ASSUME IInv, Wiring, NEW t \in pool, Build(t)
  PROVE  Wiring' /\ Settles(t) /\ \A f : OfKind(made, f) \subseteq OfKind(made', f)
<1> DEFINE f == Top(t).facade
           n == Len(made) + 1
<1>1. /\ stack[t] \in Getters /\ stack[t] # << >> /\ Descending(stack[t])
      /\ t \in Threads /\ made \in Seq(Getter) /\ Len(made) \in Nat
      /\ DOMAIN made = 1 .. Len(made) /\ cache \in [Facades -> 0 .. Len(made)]
      /\ stack \in [Threads -> Getters]
  BY LenProperties DEF IInv, Typed, Ordered, Build, Construct
<1>2. /\ made' = Append(made, Top(t)) /\ want' = want /\ ~Missing(t)
      /\ cache' = IF cache[f] = 0 THEN [cache EXCEPT ![f] = n] ELSE cache
      /\ Return(t, Below(t), n)
  BY DEF Build, Construct
<1>3. /\ Top(t) \in Getter /\ f \in Facades /\ Top(t).parts \in Seq(Nat)
      /\ Len(stack[t]) \in 1 .. Len(stack[t])
  BY <1>1, GettersFacts DEF Top
<1>4. /\ \A g : OfKind(made, g) \subseteq OfKind(made', g)
      /\ n \in OfKind(made', f)
      /\ \A g : Fits(made, g) => Fits(made', g)
      /\ \A getters, w, m :
           Placed(made, getters, w, m) => Placed(made', getters, w, m)
  BY <1>1, <1>2, <1>3, MoreOfKind
<1>5. /\ want \in [Threads -> Facades \cup {"none"}]
      /\ got \in [Threads -> Nat]
      /\ \A u \in Threads : Placed(made, stack[u], want[u], got[u])
      /\ \A g \in Facades : cache[g] # 0 => cache[g] \in OfKind(made, g)
      /\ \A m \in DOMAIN made :
           /\ Fits(made, made[m])
           /\ Len(made[m].parts) = Len(Parts[made[m].facade])
  BY DEF Wiring
<1>6. Placed(made', stack[t], want[t], got[t])
  BY <1>1, <1>4, <1>5
<1>7. Wired(made', stack[t], want[t]) /\ got[t] = 0
  BY <1>1, <1>6 DEF Placed
<1>8. Wired(made', Below(t), want[t]) /\ Calling(Below(t), f, want[t])
  BY <1>1, <1>7, WiredPopped DEF Below, Top
<1>9. Below(t) \in Getters /\ n \in Nat /\ n # 0
  BY <1>1, Popped DEF Below
<1> HIDE DEF f
<1>10. Settles(t) /\ Placed(made', stack'[t], want[t], got'[t])
  <2> HIDE DEF n
  <2> QED  BY <1>1, <1>2, <1>4, <1>5, <1>7, <1>8, <1>9, ReturnPlaces
<1>11. \A u \in Threads : Placed(made', stack'[u], want'[u], got'[u])
  BY <1>1, <1>2, <1>4, <1>5, <1>10 DEF Settles
<1>12. \A g \in Facades : cache'[g] # 0 => cache'[g] \in OfKind(made', g)
  BY <1>1, <1>2, <1>3, <1>4, <1>5
<1>13. ASSUME NEW m \in DOMAIN made'
       PROVE  /\ Fits(made', made'[m])
              /\ Len(made'[m].parts) = Len(Parts[made'[m].facade])
  <2>1. /\ m \in 1 .. Len(made) + 1
        /\ made'[m] = IF m = Len(made) + 1 THEN Top(t) ELSE made[m]
    BY <1>1, <1>2, <1>3, AppendProperties, LenProperties
  <2>2. Fits(made', Top(t))
    BY <1>3, <1>7 DEF Wired, Top
  <2>3. Len(Top(t).parts) = Len(Parts[Top(t).facade])
    <3>1. Top(t).facade \in Facades
      BY <1>3 DEF f
    <3>2. Len(Parts[Top(t).facade]) \in Nat /\ Len(Top(t).parts) \in Nat
      BY <1>3, <3>1, PartsType, LenProperties
    <3> QED  BY <1>2, <2>2, <3>2 DEF Missing, Fits
  <2>4. m # Len(made) + 1 => m \in DOMAIN made
    BY <1>1, <2>1
  <2> QED  BY <1>4, <1>5, <2>1, <2>2, <2>3, <2>4
<1> QED  BY <1>2, <1>4, <1>5, <1>10, <1>11, <1>12, <1>13 DEF Wiring, Settles

\* A thread that is in no getter and asks for none.
LEMMA RestWires ==
  ASSUME IInv, Wiring, NEW t \in Threads, UNCHANGED <<made, cache>>,
         stack' \in [Threads -> Getters], stack'[t] = << >>,
         \A u \in Threads \ {t} : stack'[u] = stack[u],
         \/ want' = want /\ got' = got
         \/ Done(t)
  PROVE  Wiring'
<1>1. want \in [Threads -> Facades \cup {"none"}] /\ got \in [Threads -> Nat]
  BY DEF Wiring
<1>2. CASE want' = want /\ got' = got
  <2>1. want' = [want EXCEPT ![t] = want[t]]
    BY <1>1, <1>2
  <2>2. got[t] # 0 => got[t] \in OfKind(made, want[t])
    BY DEF Wiring, Placed
  <2>3. Placed(made, << >>, want[t], got[t])
    BY <2>2, NothingWired DEF Placed
  <2> QED  BY <1>1, <1>2, <2>1, <2>3, SameFacades
<1>3. CASE Done(t)
  <2>1. want' = [want EXCEPT ![t] = "none"] /\ got' = [got EXCEPT ![t] = 0]
    BY <1>3 DEF Done
  <2>2. got'[t] = 0 /\ got' \in [Threads -> Nat]
    BY <1>1, <2>1
  <2>3. Placed(made, << >>, "none", 0)
    BY NothingWired DEF Placed
  <2>4. \A u \in Threads \ {t} : got'[u] = got[u]
    BY <1>1, <2>1
  <2> QED  BY <2>1, <2>2, <2>3, <2>4, SameFacades
<1> QED  BY <1>2, <1>3

LEMMA Resting ==
  ASSUME IInv, Wiring, NEW t \in pool
  PROVE  /\ t \in Threads /\ stack \in [Threads -> Getters]
         /\ got[t] # 0 => stack[t] = << >>
BY DEF IInv, Typed, Wiring, Placed

LEMMA RaiseWires ==
  ASSUME IInv, Wiring, NEW t \in pool, Raise(t)
  PROVE  Wiring'
<1>1. stack' = [stack EXCEPT ![t] = << >>] /\ UNCHANGED <<made, cache, want, got>>
  BY DEF Raise
<1>2. << >> \in Getters
  BY EmptySeq DEF Getters
<1> QED  BY <1>1, <1>2, Resting, RestWires

LEMMA OverWires ==
  ASSUME IInv, Wiring, NEW t \in pool, Leave(t) \/ Publish(t) \/ Close(t)
  PROVE  Wiring'
<1>1. /\ UNCHANGED <<made, cache, stack>> /\ stack[t] = << >>
      /\ Done(t) \/ (want' = want /\ got' = got)
  BY Resting DEF Leave, Publish, Close, Raised
<1> QED  BY <1>1, Resting, RestWires

LEMMA WiringNext == IInv /\ Wiring /\ [Next]_vars => Wiring'
<1> SUFFICES ASSUME IInv, Wiring, [Next]_vars PROVE Wiring'
  OBVIOUS
<1>1. ASSUME NEW t \in pool, NEW f \in Entries[process], Ask(t, f)
      PROVE  Wiring'
  <2>1. f \in Facades
    BY DEF Entries, Facades, IInv, Typed
  <2> QED  BY <1>1, <2>1, AskWires DEF Ask
<1>2. ASSUME NEW t \in pool, Inside(t)
      PROVE  Wiring'
  BY <1>2, AskPartWires, BuildWires, RaiseWires DEF Inside
<1>3. ASSUME NEW t \in pool, Leave(t) \/ Publish(t) \/ Close(t)
      PROVE  Wiring'
  BY <1>3, OverWires
<1>4. ASSUME NEW t \in pool, Finally(t)
      PROVE  Wiring'
  <2>1. "notifier" \in Facades
    BY DEF Facades
  <2> QED  BY <1>4, <2>1, AskWires DEF Finally
<1>5. CASE UNCHANGED vars
  BY <1>5 DEF vars, Wiring
<1> QED  BY <1>1, <1>2, <1>3, <1>4, <1>5 DEF Next

-----------------------------------------------------------------------------
(***************************************************************************)
(* The notifiers of a worker process.                                      *)
(***************************************************************************)
\* On his way to the close: he has the executor that publishes, or he asks for the
\* notifier, which no getter refuses.
ToClose(t) ==
  \/ want[t] = "generation" /\ got[t] # 0
  \/ want[t] = "notifier" /\ (stack[t] # << >> \/ got[t] # 0)

\* Connected, and not because their close raised.
Owed == connected \ unclosed

ConnectedInv ==
  process = "celery_worker" =>
    /\ \E t \in Threads : pool = {t}
    /\ connected \subseteq OfKind(made, "notifier")
    /\ Owed # {} => \A t \in pool : ToClose(t)

\* One thread builds one notifier.
LEMMA OneNotifier ==
  ASSUME IInv, NEW t, pool = {t},
         NEW n \in OfKind(made, "notifier"), NEW m \in OfKind(made, "notifier")
  PROVE  n = m
<1> SUFFICES ASSUME n # m PROVE FALSE
  OBVIOUS
<1>1. "notifier" \in Facades
  BY DEF Facades
<1>2. /\ IsFiniteSet(Instances("notifier"))
      /\ Cardinality(Instances("notifier")) \in Nat
      /\ Cardinality(Within("notifier")) \in Nat
  BY <1>1, Sizes DEF IInv, Sized
<1>3. Cardinality(Instances("notifier")) + Cardinality(Within("notifier"))
        <= Cardinality(pool)
  BY <1>1 DEF IInv, Bounded
<1>4. Cardinality(pool) = 1
  BY FS_Singleton
<1>5. {n, m} \subseteq Instances("notifier")
  BY DEF OfKind, Instances
<1>6. Cardinality({n, m}) <= Cardinality(Instances("notifier"))
  BY <1>2, <1>5, FS_Subset
<1>7. Cardinality({n, m}) = 2
  <2>1. IsFiniteSet({n}) /\ Cardinality({n}) = 1
    BY FS_Singleton
  <2>2. Cardinality({n} \cup {m}) = 2
    BY <2>1, FS_AddElement
  <2>3. {n, m} = {n} \cup {m}
    OBVIOUS
  <2> QED  BY <2>2, <2>3
<1> QED  BY <1>2, <1>3, <1>4, <1>6, <1>7

LEMMA NotifierComes ==
  ASSUME IInv, Wiring, NEW t \in pool, want[t] = "notifier"
  PROVE  ~Raise(t)
<1> SUFFICES ASSUME Raise(t) PROVE FALSE
  OBVIOUS
<1>1. /\ t \in Threads /\ stack[t] \in Getters /\ stack[t] # << >>
      /\ Descending(stack[t]) /\ Wired(made, stack[t], "notifier")
      /\ ~Buildable(Top(t).facade)
  BY DEF IInv, Typed, Ordered, Wiring, Placed, Raise
<1> DEFINE last == Len(stack[t])
<1>2. /\ last \in Nat /\ last \in 1 .. last /\ 1 \in 1 .. last
      /\ stack[t][last].facade \in Facades
  BY <1>1, GettersFacts
<1>3. stack[t][1].facade = "notifier"
  BY <1>1 DEF Wired
<1>4. last # 1 => Rank[stack[t][last].facade] < Rank["notifier"]
  <2>1. last # 1 => 1 < last
    <3> HIDE DEF last
    <3> QED  BY <1>2
  <2>2. 1 < last => Rank[stack[t][last].facade] < Rank[stack[t][1].facade]
    BY <1>1, <1>2 DEF Descending
  <2> QED  BY <1>3, <2>1, <2>2
<1>5. Rank["notifier"] = 0 /\ Rank[stack[t][last].facade] \in Nat
  BY <1>2, RankType DEF Rank
<1>6. last = 1
  BY <1>4, <1>5
<1>7. Top(t).facade = "notifier"
  BY <1>3, <1>6 DEF Top
<1> QED  BY <1>1, <1>7 DEF Buildable

LEMMA ConnectedNext ==
  IInv /\ Wiring /\ ConnectedInv /\ [Next]_vars => ConnectedInv'
<1> SUFFICES ASSUME IInv, Wiring, ConnectedInv, [Next]_vars,
                    process' = "celery_worker"
             PROVE  ConnectedInv'
  BY DEF ConnectedInv
<1>1. process' = process /\ pool' = pool
  BY DEF Next, Ask, Inside, AskPart, Build, Construct, Raise, Leave, Publish,
         Finally, Close, setting, vars
<1>2. PICK t \in Threads : pool = {t}
  BY <1>1 DEF ConnectedInv
<1>3. connected \subseteq OfKind(made, "notifier") /\ (Owed # {} => ToClose(t))
  BY <1>1, <1>2 DEF ConnectedInv
<1>4. /\ stack \in [Threads -> Getters] /\ got \in [Threads -> Nat]
      /\ want \in [Threads -> Facades \cup {"none"}]
      /\ Placed(made, stack[t], want[t], got[t])
  BY <1>2 DEF IInv, Typed, Wiring
<1> SUFFICES /\ connected' \subseteq OfKind(made', "notifier")
             /\ Owed' # {} => ToClose(t)'
  BY <1>1, <1>2 DEF ConnectedInv
<1>5. ASSUME UNCHANGED links PROVE connected' = connected /\ Owed' = Owed
  BY <1>5 DEF links, Owed
<1>6. ASSUME NEW f \in Entries[process], Ask(t, f)
      PROVE  UNCHANGED <<made, links>> /\ Owed = {}
  BY <1>3, <1>6 DEF Ask, ToClose
<1>7. CASE AskPart(t) \/ Build(t)
  <2>1. /\ Settles(t) /\ want' = want /\ UNCHANGED links /\ stack[t] # << >>
        /\ OfKind(made, "notifier") \subseteq OfKind(made', "notifier")
    BY <1>2, <1>7, AskPartWires, BuildWires DEF AskPart, Build, Construct
  <2>2. Owed # {} => want[t] = "notifier"
    BY <1>3, <1>4, <2>1 DEF ToClose, Placed
  <2> QED  BY <1>3, <1>5, <2>1, <2>2 DEF Settles, ToClose
<1>8. CASE Raise(t)
  <2>1. UNCHANGED <<made, links>> /\ stack[t] # << >>
    BY <1>8 DEF Raise
  <2>2. Owed = {}
    BY <1>2, <1>3, <1>4, <1>8, <2>1, NotifierComes DEF ToClose, Placed
  <2> QED  BY <1>3, <1>5, <2>1, <2>2
<1>9. CASE Leave(t)
  <2>1. UNCHANGED <<made, links>> /\ Owed = {}
    BY <1>1, <1>3, <1>9 DEF Leave, Raised, ToClose
  <2> QED  BY <1>3, <1>5, <2>1
<1>10. CASE Publish(t)
  <2> DEFINE n == got[t]
  <2>1. /\ want[t] = "generation" /\ n # 0 /\ n \in OfKind(made, "generation")
        /\ connected' = connected \cup {made[n].parts[3]}
        /\ UNCHANGED <<made, want, got>>
    BY <1>4, <1>10 DEF Publish, Placed
  <2>2. made[n].facade = "generation" /\ n \in DOMAIN made
    BY <2>1 DEF OfKind
  <2>3. Fits(made, made[n]) /\ Len(made[n].parts) = Len(Parts["generation"])
    BY <2>2 DEF Wiring
  <2>4. Len(Parts["generation"]) = 3 /\ Parts["generation"][3] = "notifier"
    BY DEF Parts
  <2>5. made[n].parts[3] \in OfKind(made, "notifier")
    BY <2>2, <2>3, <2>4 DEF Fits
  <2> QED  BY <1>3, <2>1, <2>5 DEF ToClose
<1>11. CASE Finally(t)
  <2>1. /\ want' = [want EXCEPT ![t] = "notifier"] /\ Call(t, << >>, "notifier")
        /\ UNCHANGED <<made, cache, links>>
    BY <1>11 DEF Finally
  <2>2. "notifier" \in Facades
    BY DEF Facades
  <2>3. Settles(t)
    BY <1>2, <2>1, <2>2, AskWires
  <2>4. want'[t] = "notifier"
    BY <1>4, <2>1
  <2> QED  BY <1>3, <1>5, <2>1, <2>3, <2>4 DEF Settles, ToClose
<1>12. CASE Close(t)
  <2>1. /\ got[t] \in OfKind(made, "notifier") /\ UNCHANGED made
        /\ connected' \subseteq connected
        /\ got[t] \in connected' => got[t] \in unclosed'
    BY <1>4, <1>12 DEF Close, Placed
  <2>2. \A n \in connected : n = got[t]
    BY <1>2, <1>3, <2>1, OneNotifier
  <2> QED  BY <1>3, <2>1, <2>2 DEF Owed
<1>13. CASE UNCHANGED vars
  BY <1>3, <1>5, <1>13 DEF vars, ToClose
<1> QED  BY <1>2, <1>3, <1>5, <1>6, <1>7, <1>8, <1>9, <1>10, <1>11, <1>12, <1>13
         DEF Next, Inside

LEMMA WiredInitially ==
  ASSUME Init
  PROVE  Wiring /\ ConnectedInv
<1>1. \A w : Placed(made, << >>, w, 0)
  BY NothingWired DEF Placed
<1>2. made = << >> /\ DOMAIN made = {}
  BY DEF Init
<1>3. Wiring
  BY <1>1, <1>2 DEF Init, Wiring
<1>4. ConnectedInv
  BY DEF Init, ConnectedInv, Owed
<1> QED  BY <1>3, <1>4

\* However often a task fails, publishes, or cannot close its connection: a worker
\* process has none open but that of the notifier it will close next, and between
\* two tasks only one whose close raised.
THEOREM NothingLeftOpenAlways == Spec => []NothingLeftOpen
<1>1. IInv /\ Wiring /\ ConnectedInv => NothingLeftOpen
  <2> SUFFICES ASSUME IInv, Wiring, ConnectedInv, process = "celery_worker"
               PROVE  /\ connected \subseteq {cache["notifier"]}
                      /\ (\A t \in pool : want[t] = "none") => Owed = {}
    BY DEF NothingLeftOpen, Owed
  <2>1. PICK t \in Threads : pool = {t}
    BY DEF ConnectedInv
  <2>2. connected \subseteq OfKind(made, "notifier") /\ (Owed # {} => ToClose(t))
    BY <2>1 DEF ConnectedInv
  <2>3. ASSUME NEW n \in connected PROVE n = cache["notifier"]
    <3>1. n \in OfKind(made, "notifier") /\ "notifier" \in Facades
      BY <2>2 DEF Facades
    <3>2. cache["notifier"] # 0
      BY <3>1 DEF IInv, Bounded, Instances, OfKind
    <3>3. cache["notifier"] \in OfKind(made, "notifier")
      BY <3>1, <3>2 DEF Wiring
    <3> QED  BY <2>1, <3>1, <3>3, OneNotifier
  <2> QED  BY <2>1, <2>2, <2>3 DEF ToClose
<1>2. Init => IInv /\ Wiring /\ ConnectedInv
  BY Initially, WiredInitially
<1>3. IInv /\ Wiring /\ ConnectedInv /\ [Next]_vars
        => (IInv /\ Wiring /\ ConnectedInv)'
  BY Inductive, WiringNext, ConnectedNext
<1> QED  BY <1>1, <1>2, <1>3, PTL DEF Spec

-----------------------------------------------------------------------------
(***************************************************************************)
(* What an answer is, and who is refused.                                  *)
(***************************************************************************)
\* Whatever a getter has returned is a facade of the kind asked for, with every
\* part of its own kind; only who asks for generations without both keys gets
\* an exception, and he never gets an answer.
AnswersFit ==
  \A t \in Threads :
    /\ want[t] # "none" /\ got[t] # 0 =>
         LET answer == made[got[t]]
         IN  /\ answer.facade = want[t]
             /\ Len(answer.parts) = Len(Parts[want[t]])
             /\ \A i \in DOMAIN answer.parts :
                  made[answer.parts[i]].facade = Parts[want[t]][i]
    /\ Raised(t) => want[t] = "generation" /\ keys # Keys
    /\ want[t] = "generation" /\ got[t] # 0 => keys = Keys

KeyInv ==
  /\ OfKind(made, "llm") # {} => keys = Keys
  /\ \A t \in Threads :
       /\ want[t] # "llm"
       /\ Raised(t) => want[t] = "generation" /\ keys # Keys

LEMMA WhoNeeds ==
  ASSUME NEW getter \in Getter, NEW f, Awaits(getter, f)
  PROVE  f # "generation" /\ (f = "llm" => getter.facade = "generation")
<1>1. /\ getter.facade \in Facades /\ Len(getter.parts) \in Nat
      /\ Len(getter.parts) + 1 <= Len(Parts[getter.facade])
      /\ f = Parts[getter.facade][Len(getter.parts) + 1]
  BY LenProperties, PartsType DEF Getter, Awaits
<1> DEFINE i == Len(getter.parts) + 1
<1>2. i \in Nat /\ i >= 1
  BY <1>1
<1> HIDE DEF i
<1>3. CASE getter.facade \in {"llm", "rabbitmq", "notifier"}
  BY <1>1, <1>2, <1>3 DEF Parts, i
<1>4. CASE getter.facade \in {"email", "user"}
  <2>1. i = 1
    BY <1>1, <1>2, <1>4 DEF Parts, i
  <2> QED  BY <1>1, <1>4, <2>1 DEF Parts, i
<1>5. CASE getter.facade = "generation"
  <2>1. i \in 1 .. 3
    BY <1>1, <1>2, <1>5 DEF Parts, i
  <2>2. f \in {"llm", "rabbitmq", "notifier"}
    BY <1>1, <1>5, <2>1 DEF Parts, i
  <2> QED  BY <1>5, <2>2
<1> QED  BY <1>1, <1>3, <1>4, <1>5 DEF Facades

\* The only getter that can raise runs for a caller who wants generations.
LEMMA WhoRaises ==
  ASSUME IInv, Wiring, KeyInv, NEW t \in pool, Raise(t)
  PROVE  want[t] = "generation" /\ keys # Keys
<1> DEFINE getters == stack[t]
           n == Len(getters)
<1>1. /\ t \in Threads /\ getters \in Getters /\ getters # << >>
      /\ getters[n].facade = "llm" /\ keys # Keys
  BY DEF IInv, Typed, Raise, Buildable, Top
<1>2. /\ n \in Nat /\ n # 0
      /\ \A k \in 1 .. n : getters[k] \in Getter
  BY <1>1, GettersFacts
<1>3. Wired(made, getters, want[t]) /\ want[t] # "llm"
  BY <1>1 DEF Wiring, Placed, KeyInv
<1> HIDE DEF getters
<1>4. /\ getters[1].facade = want[t]
      /\ \A k \in 2 .. n : Awaits(getters[k - 1], getters[k].facade)
  BY <1>1, <1>2, <1>3 DEF Wired
<1> HIDE DEF n
<1>5. n # 1
  BY <1>1, <1>3, <1>4
<1>6. getters[n - 1].facade = "generation"
  <2>1. n \in 2 .. n /\ n - 1 \in 1 .. n
    BY <1>2, <1>5
  <2> QED  BY <1>1, <1>2, <1>4, <2>1, WhoNeeds
<1>7. n - 1 = 1
  <2>1. n - 1 # 1 => n - 1 \in 2 .. n /\ (n - 1) - 1 \in 1 .. n
    BY <1>2, <1>5
  <2> QED  BY <1>2, <1>4, <1>6, <2>1, WhoNeeds
<1> QED  BY <1>1, <1>4, <1>6, <1>7

\* Thread t alone moves, and is not left without an answer.
LEMMA KeyKept ==
  ASSUME KeyInv, IInv, Wiring, NEW t \in pool, UNCHANGED keys,
         OfKind(made', "llm") # {} => keys = Keys,
         NEW w \in Facades \cup {"none"}, w # "llm", want' = [want EXCEPT ![t] = w],
         Settles(t) \/ w = "none",
         \A u \in Threads \ {t} : stack'[u] = stack[u] /\ got'[u] = got[u]
  PROVE  KeyInv'
<1>1. /\ t \in Threads /\ want'[t] = w
      /\ \A u \in Threads \ {t} : want'[u] = want[u]
  BY DEF IInv, Typed, Wiring
<1>2. ~Raised(t)'
  BY <1>1 DEF Raised, Settles
<1>3. \A u \in Threads \ {t} : Raised(u)' <=> Raised(u)
  BY <1>1 DEF Raised
<1> QED  BY <1>1, <1>2, <1>3 DEF KeyInv

LEMMA KeyNext == IInv /\ Wiring /\ KeyInv /\ [Next]_vars => KeyInv'
<1> SUFFICES ASSUME IInv, Wiring, KeyInv, [Next]_vars PROVE KeyInv'
  OBVIOUS
<1>0. /\ pool \subseteq Threads /\ process \in DOMAIN Entries
      /\ want \in [Threads -> Facades \cup {"none"}] /\ got \in [Threads -> Nat]
      /\ \A t \in Threads : want' = want => want' = [want EXCEPT ![t] = want[t]]
  BY DEF IInv, Typed, Wiring
<1>1. ASSUME NEW t \in pool, NEW f \in Entries[process], Ask(t, f)
      PROVE  KeyInv'
  <2>1. f \in Facades /\ f # "llm"
    BY <1>0 DEF Entries, Facades
  <2>2. /\ Settles(t) /\ UNCHANGED <<made, keys>>
        /\ want' = [want EXCEPT ![t] = f]
    BY <1>1, <2>1, AskWires DEF Ask, setting
  <2> QED  BY <2>1, <2>2, KeyKept DEF KeyInv, Settles
<1>2. ASSUME NEW t \in pool, AskPart(t) \/ Build(t)
      PROVE  KeyInv'
  <2>1. /\ Settles(t) /\ UNCHANGED keys
        /\ want' = [want EXCEPT ![t] = want[t]]
    BY <1>0, <1>2, AskPartWires, BuildWires DEF AskPart, Build, Construct, setting
  <2>2. OfKind(made', "llm") # {} => keys = Keys
    <3>1. CASE made' = made
      BY <3>1 DEF KeyInv
    <3>2. CASE Build(t)
      <4>1. made' = Append(made, Top(t)) /\ Buildable(Top(t).facade)
        BY <3>2 DEF Build, Construct
      <4>2. \A n \in DOMAIN made' : \/ made'[n] = Top(t)
                                     \/ n \in OfKind(made, made'[n].facade)
        <5>1. made \in Seq(Getter) /\ Len(made) \in Nat
          BY LenProperties DEF IInv, Typed
        <5> QED  BY <4>1, <5>1 DEF OfKind
      <4> QED  BY <4>1, <4>2 DEF Buildable, KeyInv, OfKind
    <3> QED  BY <1>2, <3>1, <3>2 DEF AskPart
  <2>3. want[t] \in Facades \cup {"none"} /\ want[t] # "llm"
    BY <1>0 DEF KeyInv
  <2> QED  BY <2>1, <2>2, <2>3, KeyKept DEF Settles
<1>3. ASSUME NEW t \in pool, Raise(t)
      PROVE  KeyInv'
  <2>1. /\ UNCHANGED <<made, keys, want, got>>
        /\ \A u \in Threads \ {t} : stack'[u] = stack[u]
    BY <1>3 DEF Raise, setting, IInv, Typed
  <2>2. want[t] = "generation" /\ keys # Keys
    BY <1>3, WhoRaises
  <2> QED  BY <2>1, <2>2 DEF KeyInv, Raised
<1>4. ASSUME NEW t \in pool, Leave(t) \/ Close(t)
      PROVE  KeyInv'
  <2>1. /\ UNCHANGED <<made, keys, stack>>
        /\ want' = [want EXCEPT ![t] = "none"] /\ got' = [got EXCEPT ![t] = 0]
    BY <1>4 DEF Leave, Close, Done, setting
  <2> QED  BY <1>0, <2>1, KeyKept DEF KeyInv
<1>5. ASSUME NEW t \in pool, Finally(t)
      PROVE  KeyInv'
  <2>1. /\ Settles(t) /\ UNCHANGED <<made, keys>>
        /\ want' = [want EXCEPT ![t] = "notifier"]
    BY <1>5, AskWires DEF Finally, setting, Facades
  <2> QED  BY <2>1, KeyKept DEF KeyInv, Settles, Facades
<1>6. CASE UNCHANGED <<made, keys, want, stack, got>>
  BY <1>6 DEF KeyInv, Raised
<1> QED  BY <1>1, <1>2, <1>3, <1>4, <1>5, <1>6
         DEF Next, Inside, Publish, setting, vars

LEMMA KeyInitially == Init => KeyInv
<1> SUFFICES ASSUME Init PROVE KeyInv
  OBVIOUS
<1>1. OfKind(made, "llm") = {}
  BY DEF Init, OfKind
<1> QED  BY <1>1 DEF Init, KeyInv, Raised

LEMMA WiringFits ==
  ASSUME IInv, Wiring, KeyInv
  PROVE  AnswersFit
<1> SUFFICES ASSUME NEW t \in Threads
             PROVE  /\ want[t] # "none" /\ got[t] # 0 =>
                         /\ made[got[t]].facade = want[t]
                         /\ Len(made[got[t]].parts) = Len(Parts[want[t]])
                         /\ \A i \in DOMAIN made[got[t]].parts :
                              made[made[got[t]].parts[i]].facade
                                = Parts[want[t]][i]
                    /\ want[t] = "generation" /\ got[t] # 0 => keys = Keys
  BY DEF AnswersFit, KeyInv
<1> SUFFICES ASSUME want[t] # "none", got[t] # 0
             PROVE  /\ made[got[t]].facade = want[t]
                    /\ Len(made[got[t]].parts) = Len(Parts[want[t]])
                    /\ \A i \in DOMAIN made[got[t]].parts :
                         made[made[got[t]].parts[i]].facade = Parts[want[t]][i]
                    /\ want[t] = "generation" => keys = Keys
  OBVIOUS
<1> DEFINE answer == made[got[t]]
<1>1. got[t] \in DOMAIN made /\ answer.facade = want[t]
  BY DEF Wiring, Placed, OfKind
<1>2. Fits(made, answer) /\ Len(answer.parts) = Len(Parts[want[t]])
  BY <1>1 DEF Wiring
<1>3. answer.parts \in Seq(Nat)
  <2>1. made \in Seq(Getter)
    BY DEF IInv, Typed
  <2>2. answer \in Getter
    BY <1>1, <2>1, LenProperties, ElementOfSeq
  <2> QED  BY <2>2 DEF Getter
<1>4. DOMAIN answer.parts = 1 .. Len(answer.parts)
  BY <1>3, LenProperties
<1>5. \A i \in DOMAIN answer.parts :
        answer.parts[i] \in OfKind(made, Parts[want[t]][i])
  BY <1>1, <1>2, <1>4 DEF Fits
<1>6. ASSUME want[t] = "generation" PROVE keys = Keys
  <2>1. 1 \in DOMAIN answer.parts /\ Parts[want[t]][1] = "llm"
    BY <1>2, <1>4, <1>6 DEF Parts
  <2> QED  BY <1>5, <2>1 DEF KeyInv
<1> HIDE DEF answer
<1>7. \A i \in DOMAIN answer.parts : made[answer.parts[i]].facade = Parts[want[t]][i]
  BY <1>5 DEF OfKind
<1> QED  BY <1>1, <1>2, <1>6, <1>7 DEF answer

\* However many threads race, fail and ask again: an answer is a whole facade of
\* the kind asked for, and nobody but a caller who wants generations without
\* both API keys is refused.
THEOREM AnswersFitAlways == Spec => []AnswersFit
<1>1. Init => IInv /\ Wiring /\ KeyInv
  BY Initially, WiredInitially, KeyInitially
<1>2. IInv /\ Wiring /\ KeyInv /\ [Next]_vars => (IInv /\ Wiring /\ KeyInv)'
  BY Inductive, WiringNext, KeyNext
<1>3. IInv /\ Wiring /\ KeyInv => AnswersFit
  BY WiringFits
<1> QED  BY <1>1, <1>2, <1>3, PTL DEF Spec
=============================================================================
