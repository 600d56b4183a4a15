---------------------------- MODULE PlacesProofs ----------------------------
(***************************************************************************)
(* Theorems about the Distinct Places trial, for every village, every      *)
(* policy and whatever the provider answers: its bounds, the agreement of  *)
(* its audit with it, and what its metrics measure.                        *)
(***************************************************************************)
EXTENDS PlacesAudit, TLAPS, WellFoundedInduction, FiniteSetTheorems

Elements(s) == {s[i] : i \in DOMAIN s}
IsSequence(s) == s \in Seq(Elements(s))

\* A sequence with one element more.
LEMMA Appended ==
    ASSUME NEW s, IsSequence(s), NEW e
    PROVE  /\ IsSequence(Append(s, e))
           /\ Len(s) \in Nat /\ Len(Append(s, e)) = Len(s) + 1
           /\ DOMAIN s = 1..Len(s) /\ DOMAIN Append(s, e) = 1..(Len(s) + 1)
           /\ \A i \in 1..Len(s) : Append(s, e)[i] = s[i]
           /\ Append(s, e)[Len(s) + 1] = e
<1>. DEFINE T == Elements(s) \union {e}
            a == Append(s, e)
<1>1. s \in Seq(T) /\ e \in T
  BY DEF IsSequence
<1>. HIDE DEF T
<1>2. /\ a \in Seq(T) /\ Len(s) \in Nat /\ Len(a) = Len(s) + 1
      /\ DOMAIN s = 1..Len(s) /\ DOMAIN a = 1..(Len(s) + 1)
      /\ \A i \in 1..Len(s) : a[i] = s[i]
      /\ a[Len(s) + 1] = e
  BY <1>1
<1>3. \A i \in DOMAIN a : a[i] \in Elements(a)
  BY DEF Elements
<1>. HIDE DEF a
<1>4. a \in Seq(Elements(a))
  BY <1>2, <1>3
<1>. QED  BY <1>2, <1>4 DEF IsSequence, a

(***************************************************************************)
(* Induction, from the order of the natural numbers.                       *)
(***************************************************************************)

\* A set of natural numbers, unless empty, has a least element.
LEMMA LeastNumber ==
    ASSUME NEW S \in SUBSET Nat, S # {}
    PROVE  \E i \in S : \A j \in S : i <= j
<1>. DEFINE R == OpToRel(<, Nat)
<1>. HIDE DEF R
<1>1. IsWellFoundedOn(R, Nat)
  BY NatLessThanWellFounded DEF R
<1>2. \A x, y \in Nat : <<x, y>> \in R <=> x < y
  BY DEF R, OpToRel
<1>3. PICK i \in S : \A j \in S : ~(<<j, i>> \in R)
  BY <1>1, WFMin
<1>4. \A j \in S : ~(j < i)
  BY <1>2, <1>3
<1>. QED  BY <1>4

\* A set that has 0, and n + 1 with every n, has every natural number.
LEMMA EveryNatural ==
    ASSUME NEW S, 0 \in S, \A n \in Nat : n \in S => n + 1 \in S
    PROVE  Nat \subseteq S
<1>. SUFFICES ASSUME Nat \ S # {}  PROVE FALSE
  OBVIOUS
<1>1. PICK m \in Nat \ S : \A k \in Nat \ S : m <= k
  BY LeastNumber
<1>2. m # 0 /\ m \in Nat
  OBVIOUS
<1>3. m - 1 \in Nat /\ m - 1 < m
  BY <1>2
<1>4. m - 1 \in S
  BY <1>1, <1>3
<1>5. (m - 1) + 1 \in S
  BY <1>3, <1>4
<1>. QED  BY <1>2, <1>5

\* The greatest number of a set that has it.
LEMMA GreatestIs ==
    ASSUME NEW S, S \subseteq Nat, NEW m \in S, \A i \in S : i <= m
    PROVE  Max(S) = m
<1>1. \A x \in S : (\A y \in S : x >= y) => x = m
  OBVIOUS
<1>2. \E x \in S : \A y \in S : x >= y
  OBVIOUS
<1>. QED  BY <1>1, <1>2 DEF Max

(***************************************************************************)
(* The passes over a record, of the audit, of the replay and of the        *)
(* metrics: each is a fold, which is one step further for one more element.*)
(***************************************************************************)

Begins(pass) ==
    IF pass = "replay" THEN Start ELSE IF pass = "metrics" THEN Unmeasured ELSE Unread

Step(pass, x, e) ==
    IF pass = "replay" THEN Resubmitted(x, e)
    ELSE IF pass = "metrics" THEN Measure(x, e)
    ELSE Assessed(pass = "audit of all", x, e)

\* The audit where the square fits into an observation, and where it does not.
AuditPass(whole) == IF whole THEN "audit of all" ELSE "audit"

\* What a pass has come to by the elements of which the indices are in a set.
Passes(pass, f, S, s) ==
    f = [T \in SUBSET S |->
            IF T = {} THEN Begins(pass) ELSE Step(pass, f[T \ {Max(T)}], s[Max(T)])]

\* A pass over a sequence is defined.
LEMMA PassExists ==
    ASSUME NEW pass, NEW s, NEW n \in Nat
    PROVE  \E f : Passes(pass, f, 1..n, s)
<1>. DEFINE S == {k \in Nat : \E f : Passes(pass, f, 1..k, s)}
<1>1. 0 \in S
  <2>. DEFINE f == [T \in SUBSET (1..0) |-> Begins(pass)]
  <2>1. \A T \in SUBSET (1..0) : T = {}
    OBVIOUS
  <2>2. Passes(pass, f, 1..0, s)
    BY <2>1 DEF Passes
  <2>. QED  BY <2>2
<1>2. ASSUME NEW k \in Nat, k \in S
      PROVE  k + 1 \in S
  <2>1. PICK f : Passes(pass, f, 1..k, s)
    BY <1>2
  <2>. DEFINE g == [T \in SUBSET (1..(k + 1)) |->
                      IF T = {} THEN Begins(pass)
                      ELSE IF k + 1 \in T THEN Step(pass, f[T \ {k + 1}], s[k + 1])
                      ELSE f[T]]
  <2>2. ASSUME NEW T \in SUBSET (1..(k + 1)), T # {}
        PROVE  g[T] = Step(pass, g[T \ {Max(T)}], s[Max(T)])
    <3>1. CASE k + 1 \in T
      <4>1. Max(T) = k + 1
        <5>1. T \subseteq Nat /\ \A i \in T : i <= k + 1
          OBVIOUS
        <5>. QED  BY <3>1, <5>1, GreatestIs
      <4>2. T \ {k + 1} \in SUBSET (1..k) /\ T \ {k + 1} \in SUBSET (1..(k + 1))
        OBVIOUS
      <4>3. g[T \ {k + 1}] = f[T \ {k + 1}]
        <5>1. CASE T \ {k + 1} = {}
          BY <2>1, <4>2, <5>1 DEF Passes
        <5>2. CASE T \ {k + 1} # {}
          BY <4>2, <5>2
        <5>. QED  BY <5>1, <5>2
      <4>. QED  BY <2>2, <3>1, <4>1, <4>3
    <3>2. CASE k + 1 \notin T
      <4>1. T \in SUBSET (1..k)
        BY <3>2
      <4>2. f[T] = Step(pass, f[T \ {Max(T)}], s[Max(T)])
        BY <2>1, <2>2, <4>1 DEF Passes
      <4>3. T \ {Max(T)} \in SUBSET (1..k) /\ T \ {Max(T)} \in SUBSET (1..(k + 1))
            /\ k + 1 \notin T \ {Max(T)}
        BY <4>1, <3>2
      <4>4. g[T \ {Max(T)}] = f[T \ {Max(T)}]
        <5>1. CASE T \ {Max(T)} = {}
          BY <2>1, <4>3, <5>1 DEF Passes
        <5>2. CASE T \ {Max(T)} # {}
          BY <4>3, <5>2
        <5>. QED  BY <5>1, <5>2
      <4>. QED  BY <2>2, <3>2, <4>2, <4>4
    <3>. QED  BY <3>1, <3>2
  <2>3. g[{}] = Begins(pass)
    OBVIOUS
  <2>4. Passes(pass, g, 1..(k + 1), s)
    <3>1. \A T \in SUBSET (1..(k + 1)) :
             g[T] = IF T = {} THEN Begins(pass) ELSE Step(pass, g[T \ {Max(T)}], s[Max(T)])
      BY <2>2, <2>3
    <3>2. g = [T \in SUBSET (1..(k + 1)) |-> g[T]]
      OBVIOUS
    <3>. HIDE DEF g
    <3>. QED  BY <3>1, <3>2 DEF Passes
  <2>. QED  BY <2>4
<1>. HIDE DEF S
<1>3. Nat \subseteq S
  BY <1>1, <1>2, EveryNatural
<1>. QED  BY <1>3 DEF S

\* How a pass f over a sequence s runs along its first n elements.
Steps(pass, f, n, s) ==
    /\ f[1..0] = Begins(pass)
    /\ \A k \in Nat : k + 1 <= n => f[1..(k + 1)] = Step(pass, f[1..k], s[k + 1])

\* A pass takes the elements in their order.
LEMMA PassSteps ==
    ASSUME NEW pass, NEW s, NEW n \in Nat, NEW f, Passes(pass, f, 1..n, s)
    PROVE  Steps(pass, f, n, s)
<1>1. f[1..0] = Begins(pass)
  <2>1. 1..0 = {} /\ 1..0 \in SUBSET (1..n)
    OBVIOUS
  <2>. QED  BY <2>1 DEF Passes
<1>2. ASSUME NEW k \in Nat, k + 1 <= n
      PROVE  f[1..(k + 1)] = Step(pass, f[1..k], s[k + 1])
  <2>1. Max(1..(k + 1)) = k + 1
    <3>1. /\ 1..(k + 1) \subseteq Nat /\ k + 1 \in 1..(k + 1)
          /\ \A i \in 1..(k + 1) : i <= k + 1
      OBVIOUS
    <3>. QED  BY <3>1, GreatestIs
  <2>2. (1..(k + 1)) \ {k + 1} = 1..k /\ 1..(k + 1) # {} /\ 1..(k + 1) \in SUBSET (1..n)
    BY <1>2
  <2>. QED  BY <2>1, <2>2 DEF Passes
<1>. QED  BY <1>1, <1>2 DEF Steps

Prolongs(t, s, n) == \A i \in 1..n : t[i] = s[i]

\* The pass g over t, where t is s and an element more, and the pass f over s.
Continued(pass, f, g, s, t, n, m) ==
    /\ n \in Nat /\ m = n + 1 /\ Prolongs(t, s, n)
    /\ Passes(pass, f, 1..n, s) /\ Passes(pass, g, 1..m, t)

\* With one element more it goes one step further.
LEMMA PassGrows ==
    ASSUME NEW pass, NEW s, NEW t, NEW n, NEW m, NEW f, NEW g, Continued(pass, f, g, s, t, n, m)
    PROVE  g[1..m] = Step(pass, f[1..n], t[m])
<1>. DEFINE S == {k \in Nat : k <= n => g[1..k] = f[1..k]}
<1>1. n \in Nat /\ m \in Nat /\ m = n + 1
  BY DEF Continued
<1>2. Steps(pass, f, n, s)
  <2>1. Passes(pass, f, 1..n, s)
    BY DEF Continued
  <2>. QED  BY <1>1, <2>1, PassSteps
<1>3. Steps(pass, g, m, t)
  <2>1. Passes(pass, g, 1..m, t)
    BY DEF Continued
  <2>. QED  BY <1>1, <2>1, PassSteps
<1>4. 0 \in S
  BY <1>2, <1>3 DEF Steps
<1>5. ASSUME NEW k \in Nat, k \in S  PROVE k + 1 \in S
  <2>. SUFFICES ASSUME k + 1 <= n  PROVE g[1..(k + 1)] = f[1..(k + 1)]
    OBVIOUS
  <2>1. k + 1 \in 1..n /\ k + 1 <= m /\ g[1..k] = f[1..k]
    BY <1>1, <1>5
  <2>2. f[1..(k + 1)] = Step(pass, f[1..k], s[k + 1])
    BY <1>2 DEF Steps
  <2>3. g[1..(k + 1)] = Step(pass, g[1..k], t[k + 1])
    BY <1>3, <2>1 DEF Steps
  <2>4. t[k + 1] = s[k + 1]
    BY <2>1 DEF Continued, Prolongs
  <2>. QED  BY <2>1, <2>2, <2>3, <2>4
<1>. HIDE DEF S
<1>6. n \in S
  BY <1>1, <1>4, <1>5, EveryNatural
<1>7. g[1..n] = f[1..n]
  BY <1>1, <1>6 DEF S
<1>8. n + 1 <= m
  BY <1>1
<1>9. g[1..(n + 1)] = Step(pass, g[1..n], t[n + 1])
  BY <1>1, <1>3, <1>8 DEF Steps
<1>. QED  BY <1>1, <1>7, <1>9

\* What a pass comes to.
Result(pass, s) == (CHOOSE f : Passes(pass, f, DOMAIN s, s))[DOMAIN s]

\* It is where some pass over the sequence ends.
LEMMA ResultIs ==
    ASSUME NEW pass, NEW s, IsSequence(s)
    PROVE  \E f : Passes(pass, f, 1..Len(s), s) /\ Result(pass, s) = f[1..Len(s)]
<1>1. Len(s) \in Nat /\ DOMAIN s = 1..Len(s)
  BY DEF IsSequence
<1>2. \E f : Passes(pass, f, DOMAIN s, s)
  BY <1>1, PassExists
<1>3. \E f : Passes(pass, f, DOMAIN s, s) /\ Result(pass, s) = f[DOMAIN s]
  BY <1>2, Zenon DEF Result
<1>. QED  BY <1>1, <1>3, Zenon

\* Over one element more it is one step further.
LEMMA ResultGrows ==
    ASSUME NEW pass, NEW s, IsSequence(s), NEW e
    PROVE  Result(pass, Append(s, e)) = Step(pass, Result(pass, s), e)
<1>1. PICK t, n, m : t = Append(s, e) /\ n = Len(s) /\ m = n + 1
  OBVIOUS
<1>2. /\ n \in Nat /\ IsSequence(t) /\ Len(t) = m /\ t[m] = e
      /\ \A i \in 1..n : t[i] = s[i]
  BY <1>1, Appended
<1>3. PICK f : Passes(pass, f, 1..n, s) /\ Result(pass, s) = f[1..n]
  BY <1>1, ResultIs
<1>4. PICK g : Passes(pass, g, 1..m, t) /\ Result(pass, t) = g[1..m]
  BY <1>2, ResultIs
<1>5. Continued(pass, f, g, s, t, n, m)
  BY <1>1, <1>2, <1>3, <1>4 DEF Continued, Prolongs
<1>6. g[1..m] = Step(pass, f[1..n], t[m])
  BY <1>5, PassGrows
<1>. QED  BY <1>1, <1>2, <1>3, <1>4, <1>6

\* Over no element it is where the pass begins.
LEMMA ResultBegins == ASSUME NEW pass  PROVE Result(pass, <<>>) = Begins(pass)
<1>1. IsSequence(<<>>) /\ Len(<<>>) = 0 /\ 0 \in Nat
  BY DEF IsSequence
<1>2. PICK f : Passes(pass, f, 1..0, <<>>) /\ Result(pass, <<>>) = f[1..0]
  BY <1>1, ResultIs
<1>3. Steps(pass, f, 0, <<>>)
  BY <1>1, <1>2, PassSteps
<1>. QED  BY <1>2, <1>3 DEF Steps

\* The folds of the program are these passes.
LEMMA FoldsAre ==
    /\ fits \in BOOLEAN =>
        FoldLeft(LAMBDA x, d : Assessed(fits, x, d), Unread, decisions)
            = Result(AuditPass(fits), decisions)
    /\ FoldLeft(Resubmitted, Start, decisions) = Result("replay", decisions)
    /\ FoldLeft(Measure, Unmeasured, events) = Result("metrics", events)
<1>1. ASSUME fits \in BOOLEAN
      PROVE  FoldLeft(LAMBDA x, d : Assessed(fits, x, d), Unread, decisions)
                = Result(AuditPass(fits), decisions)
  <2>. DEFINE Solves(f) ==
            f = [T \in SUBSET DOMAIN decisions |->
                    IF T = {} THEN Unread
                    ELSE Assessed(fits, f[T \ {Max(T)}], decisions[Max(T)])]
  <2>1. /\ Begins(AuditPass(fits)) = Unread
        /\ \A x, e : Step(AuditPass(fits), x, e) = Assessed(fits, x, e)
    BY <1>1, Zenon DEF Begins, Step, AuditPass
  <2>2. \A f : Solves(f) <=> Passes(AuditPass(fits), f, DOMAIN decisions, decisions)
    BY <2>1, Zenon DEF Passes
  <2>3. FoldLeft(LAMBDA x, d : Assessed(fits, x, d), Unread, decisions)
            = (CHOOSE f : Solves(f))[DOMAIN decisions]
    BY Zenon DEF FoldLeft, MapThenFoldSet
  <2>. HIDE DEF Solves
  <2>. QED  BY <2>2, <2>3, Zenon DEF Result
<1>2. FoldLeft(Resubmitted, Start, decisions) = Result("replay", decisions)
  <2>. DEFINE Solves(f) ==
            f = [T \in SUBSET DOMAIN decisions |->
                    IF T = {} THEN Start ELSE Resubmitted(f[T \ {Max(T)}], decisions[Max(T)])]
  <2>1. \A f : Solves(f) <=> Passes("replay", f, DOMAIN decisions, decisions)
    BY Zenon DEF Passes, Step, Begins
  <2>2. FoldLeft(Resubmitted, Start, decisions) = (CHOOSE f : Solves(f))[DOMAIN decisions]
    BY Zenon DEF FoldLeft, MapThenFoldSet
  <2>. HIDE DEF Solves
  <2>. QED  BY <2>1, <2>2, Zenon DEF Result
<1>3. FoldLeft(Measure, Unmeasured, events) = Result("metrics", events)
  <2>. DEFINE Solves(f) ==
            f = [T \in SUBSET DOMAIN events |->
                    IF T = {} THEN Unmeasured ELSE Measure(f[T \ {Max(T)}], events[Max(T)])]
  <2>1. \A f : Solves(f) <=> Passes("metrics", f, DOMAIN events, events)
    BY Zenon DEF Passes, Step, Begins
  <2>2. FoldLeft(Measure, Unmeasured, events) = (CHOOSE f : Solves(f))[DOMAIN events]
    BY Zenon DEF FoldLeft, MapThenFoldSet
  <2>. HIDE DEF Solves
  <2>. QED  BY <2>1, <2>2, Zenon DEF Result
<1>. QED  BY <1>1, <1>2, <1>3

-----------------------------------------------------------------------------
(* Types and bounds.                                                       *)

Called(ds) == Cardinality({i \in DOMAIN ds : ds[i].called})

\* What is known of an action that waits to be submitted.
Ready ==
    /\ answer \in Answers /\ answer.text = TRUE /\ answer.genuine = TRUE /\ answer.says # NoAction
    /\ time < EndTick /\ Len(decisions) < MaxDecisions /\ Called(decisions) < MaxCalls
    /\ fits = TRUE \/ position # Square

BoundsInv ==
    /\ IsSequence(decisions) /\ IsSequence(events)
    /\ time \in 0..EndTick /\ late \in BOOLEAN /\ fits \in BOOLEAN
    /\ Len(events) <= Len(decisions) /\ Len(decisions) <= MaxDecisions
    /\ failures \in 0..MaxFailures /\ (pc # "end" => failures < MaxFailures)
    /\ pc \in {"loop", "submit", "end"} /\ (pc = "end" <=> stop # "NONE")
    /\ pc = "submit" => Ready

\* How many decisions asked the provider, one decision later.
LEMMA CalledGrows ==
    ASSUME NEW s, IsSequence(s), NEW d, NEW t, t = Append(s, d), d.called \in BOOLEAN
    PROVE  /\ Called(s) \in Nat
           /\ Called(t) = IF d.called THEN Called(s) + 1 ELSE Called(s)
<1>. DEFINE n == Len(s)
            U == {i \in DOMAIN s : s[i].called}
            V == {i \in DOMAIN t : t[i].called}
<1>1. /\ n \in Nat /\ DOMAIN s = 1..n /\ DOMAIN t = 1..(n + 1)
      /\ t[n + 1] = d /\ \A i \in 1..n : t[i] = s[i]
  BY Appended
<1>. HIDE DEF n
<1>2. IsFiniteSet(U) /\ n + 1 \notin U
  <2>1. IsFiniteSet(1..n)
    BY <1>1, FS_Interval
  <2>. QED  BY <1>1, <2>1, FS_Subset
<1>3. Cardinality(U) \in Nat
  BY <1>2, FS_CardinalityType
<1>4. CASE d.called = TRUE
  <2>1. V = U \union {n + 1}
    BY <1>1, <1>4
  <2>2. Cardinality(V) = Cardinality(U) + 1
    BY <1>2, <2>1, FS_AddElement
  <2>. HIDE DEF U, V
  <2>. QED  BY <1>3, <1>4, <2>2 DEF Called, U, V
<1>5. CASE d.called = FALSE
  <2>1. V = U
    BY <1>1, <1>5
  <2>. QED  BY <1>3, <1>5, <2>1 DEF Called
<1>. QED  BY <1>4, <1>5

\* How an action moves the world.
LEMMA ExecutedIs ==
    ASSUME NEW w, NEW a, NEW source
    PROVE  \/ /\ Receipt(w, a) = "REJECTED" /\ Executed(w, a, source) = w
           \/ /\ Receipt(w, a) = "SUCCEEDED"
              /\ Executed(w, a, source).time = w.time + ActionDuration(w.position, a)
              /\ \/ Executed(w, a, source).events = w.events
                 \/ Executed(w, a, source).events
                      = Append(w.events, [to |-> a.route[2], source |-> source])
              /\ a.kind = "MOVE" => CanMove(w.position, a.route)
BY DEF Receipt, Executed

\* What is submitted takes time within the horizon, unless it is rejected.
LEMMA AdmittedAction ==
    ASSUME NEW at, NEW now \in Nat, NEW a \in Answers, Precheck(now, at, a.says) = "NONE"
    PROVE  /\ ActionDuration(at, a.says) \in Nat
           /\ now + ActionDuration(at, a.says) <= EndTick
           /\ a.says.kind = "MOVE" \/ ActionDuration(at, a.says) = 1
           /\ CanMove(at, a.says.route) => ActionDuration(at, a.says) > 0
<1>1. a.says.kind \in {"MOVE", "WAIT"} /\ ~(now + ActionDuration(at, a.says) > EndTick)
      /\ (a.says.kind = "WAIT" => a.says.duration = 1)
  BY Zenon DEF Precheck
<1>2. ActionDuration(at, a.says) = IF a.says.kind = "MOVE"
                                   THEN IF CanMove(at, a.says.route) THEN Cost ELSE 0
                                   ELSE 1
  BY <1>1 DEF ActionDuration
<1>. QED  BY <1>1, <1>2, PlacesAssumption

\* What a precheck can say.
LEMMA PrecheckSays ==
    ASSUME NEW now, NEW at, NEW a
    PROVE  Precheck(now, at, a) \in {"UNSUPPORTED_ACTION", "HORIZON_ACTION", "WAIT_DURATION", "NONE"}
BY DEF Precheck

\* The bounds hold at the start.
LEMMA BoundsInitially == Init => BoundsInv
<1>. SUFFICES ASSUME Init  PROVE BoundsInv
  OBVIOUS
<1>1. IsSequence(<<>>) /\ Len(<<>>) = 0
  BY DEF IsSequence
<1>2. IsSequence(decisions) /\ IsSequence(events) /\ Len(events) = 0 /\ Len(decisions) = 0
  BY <1>1, Zenon DEF Init
<1>3. time \in 0..EndTick /\ failures \in 0..MaxFailures /\ failures < MaxFailures /\ 0 <= MaxDecisions
  BY PlacesAssumption DEF Init
<1>4. late \in BOOLEAN /\ fits \in BOOLEAN /\ pc = "loop" /\ stop = "NONE"
  BY Zenon DEF Init
<1>5. pc # "submit" /\ pc # "end" /\ pc \in {"loop", "submit", "end"}
  BY <1>4
<1>6. Len(events) <= Len(decisions) /\ Len(decisions) <= MaxDecisions
  BY <1>2, <1>3
<1>. QED  BY <1>2, <1>3, <1>4, <1>5, <1>6, Zenon DEF BoundsInv

\* Calls is what the record counts.
LEMMA CallsCounted == Calls = Called(decisions)
BY DEF Calls, Called

\* A decision that is recorded: the record is longer by it, and within its bound.
LEMMA Recorded ==
    ASSUME BoundsInv, Len(decisions) < MaxDecisions,
           NEW given, NEW action, NEW failure, NEW refusal, NEW receipt,
           Records(Decision(given, action, failure, refusal, receipt))
    PROVE  /\ IsSequence(decisions') /\ Len(decisions') = Len(decisions) + 1
           /\ Len(decisions) \in Nat /\ Len(decisions') <= MaxDecisions
BY Appended, PlacesAssumption DEF BoundsInv, Records

\* The loop admits a turn only within all bounds.
LEMMA TurnBegins ==
    ASSUME BoundsInv, Turns
    PROVE  /\ pc = "loop" /\ time < EndTick /\ late = FALSE
           /\ Len(decisions) < MaxDecisions /\ Called(decisions) < MaxCalls
<1>1. pc = "loop" /\ time < EndTick /\ ~late /\ ~(Len(decisions) >= MaxDecisions)
      /\ ~(Called(decisions) >= MaxCalls)
  BY CallsCounted, Zenon DEF Turns, Bound
<1>2. Called(decisions) \in Nat /\ Len(decisions) \in Nat
  <2>. PICK d : d = [called |-> TRUE]
    OBVIOUS
  <2>1. d.called \in BOOLEAN /\ IsSequence(decisions)
    BY DEF BoundsInv
  <2>. QED  BY <2>1, CalledGrows, Appended
<1>. QED  BY <1>1, <1>2, PlacesAssumption DEF BoundsInv

\* A failure is counted below the limit, or ends the trial.
LEMMA CountsBounded ==
    ASSUME BoundsInv, pc # "end", NEW receipt, NEW now, Counts(receipt, now)
    PROVE  /\ failures' \in 0..MaxFailures /\ pc' \in {"loop", "end"}
           /\ pc' = "end" <=> stop' # "NONE"
           /\ pc' # "end" => failures' < MaxFailures
           /\ pc' = "end" => stop' = "CONSECUTIVE_FAILURES"
           /\ failures' = IF Stalled(receipt, now) THEN failures + 1 ELSE 0
           /\ pc' = "end" <=> Stalled(receipt, now) /\ failures + 1 >= MaxFailures
<1>1. failures \in Nat /\ failures < MaxFailures /\ MaxFailures \in Nat /\ stop = "NONE"
      /\ MaxFailures > 0
  BY PlacesAssumption DEF BoundsInv
<1>. QED  BY <1>1 DEF Counts, Stops, Goes

\* The horizon and an action that the precheck let through.
LEMMA AdmittedNow ==
    ASSUME BoundsInv, answer \in Answers, Refusal(answer.says) = "NONE"
    PROVE  /\ Precheck(time, position, answer.says) = "NONE" /\ ~late
           /\ ActionDuration(position, answer.says) \in Nat
           /\ time + ActionDuration(position, answer.says) <= EndTick
           /\ CanMove(position, answer.says.route) => ActionDuration(position, answer.says) > 0
           /\ answer.says.kind # "MOVE" => ActionDuration(position, answer.says) > 0
<1>1. Precheck(time, position, answer.says) = "NONE" /\ ~late
  BY Zenon DEF Refusal
<1>2. time \in Nat
  BY PlacesAssumption DEF BoundsInv
<1>3. /\ ActionDuration(position, answer.says) \in Nat
      /\ time + ActionDuration(position, answer.says) <= EndTick
      /\ answer.says.kind = "MOVE" \/ ActionDuration(position, answer.says) = 1
      /\ CanMove(position, answer.says.route) => ActionDuration(position, answer.says) > 0
  BY <1>1, <1>2, AdmittedAction
<1>. QED  BY <1>1, <1>3

\* The world once it is performed.
LEMMA Performed ==
    ASSUME BoundsInv, answer \in Answers, Refusal(answer.says) = "NONE", NEW source
    PROVE  /\ Executed(Now, answer.says, source).time \in 0..EndTick
           /\ IsSequence(Executed(Now, answer.says, source).events)
           /\ Len(Executed(Now, answer.says, source).events) <= Len(events) + 1
           /\ \/ Executed(Now, answer.says, source).events = events
              \/ \E to : Executed(Now, answer.says, source).events
                            = Append(events, [to |-> to, source |-> source])
<1>. DEFINE w == Executed(Now, answer.says, source)
            d == ActionDuration(position, answer.says)
<1>1. Now.time = time /\ Now.events = events /\ Now.position = position
  BY DEF Now, World
<1>2. d \in Nat /\ time + d <= EndTick
  BY AdmittedNow
<1>3. \/ w = Now
      \/ /\ w.time = time + d
         /\ w.events = events
            \/ w.events = Append(events, [to |-> answer.says.route[2], source |-> source])
  BY <1>1, ExecutedIs
<1>. HIDE DEF w, d
<1>4. w.time \in 0..EndTick
  BY <1>1, <1>2, <1>3, PlacesAssumption DEF BoundsInv
<1>5. IsSequence(events) /\ Len(events) \in Nat
  BY Appended DEF BoundsInv
<1>6. \/ w.events = events
      \/ \E to : w.events = Append(events, [to |-> to, source |-> source])
  BY <1>1, <1>3
<1>7. IsSequence(w.events) /\ Len(w.events) <= Len(events) + 1
  <2>1. CASE w.events = events
    BY <1>5, <2>1
  <2>2. ASSUME NEW to, w.events = Append(events, [to |-> to, source |-> source])
        PROVE  IsSequence(w.events) /\ Len(w.events) <= Len(events) + 1
    <3>1. PICK e : e = [to |-> to, source |-> source]
      OBVIOUS
    <3>2. w.events = Append(events, e)
      BY <2>2, <3>1
    <3>. QED  BY <1>5, <3>2, Appended
  <2>. QED  BY <1>6, <2>1, <2>2
<1>. QED  BY <1>4, <1>6, <1>7 DEF w

\* Every step keeps the bounds.
LEMMA BoundsStep == BoundsInv /\ [Next]_vars => BoundsInv'
<1>. SUFFICES ASSUME BoundsInv, [Next]_vars  PROVE BoundsInv'
  OBVIOUS
<1>1. CASE Leave
  <2>1. /\ UNCHANGED <<time, events, late, fits, decisions, failures>>
        /\ pc' = "end" /\ stop' # "NONE"
    BY <1>1, Zenon DEF Leave, Stops, world, Horizon
  <2>. QED  BY <2>1 DEF BoundsInv
<1>2. CASE ObserveFails
  <2>1. /\ UNCHANGED <<time, events, late, fits, failures>>
        /\ pc' = "end" /\ stop' # "NONE" /\ Len(decisions) < MaxDecisions
        /\ Records(Decision(Silence, NoAction, "OBSERVATION_UNAVAILABLE", "NONE", "NONE"))
    BY <1>2, TurnBegins DEF ObserveFails, Stops, world
  <2>2. /\ IsSequence(decisions') /\ Len(decisions') = Len(decisions) + 1
        /\ Len(decisions) \in Nat /\ Len(decisions') <= MaxDecisions
    BY <2>1, Recorded
  <2>. QED  BY <2>1, <2>2, Appended DEF BoundsInv
<1>3. ASSUME NEW a \in Answers, Ask(a)  PROVE BoundsInv'
  <2>1. /\ UNCHANGED <<time, position, events, late, fits>>
        /\ pc = "loop" /\ time < EndTick /\ late = FALSE
        /\ Len(decisions) < MaxDecisions /\ Called(decisions) < MaxCalls
        /\ Observes(fits, position)
    BY <1>3, TurnBegins DEF Ask, world
  <2>2. CASE Accepted(a)
    <3>1. answer' = a /\ pc' = "submit" /\ UNCHANGED <<stop, decisions, failures>>
      BY <1>3, <2>2 DEF Ask, Goes
    <3>2. a.text = TRUE /\ a.genuine = TRUE /\ a.says # NoAction
      BY <2>2, PlacesAssumption DEF Accepted
    <3>3. fits = TRUE \/ position # Square
      BY <2>1 DEF Observes, BoundsInv
    <3>4. Ready'
      BY <2>1, <3>1, <3>2, <3>3 DEF Ready
    <3>. QED  BY <2>1, <3>1, <3>4 DEF BoundsInv
  <2>3. CASE ~Accepted(a)
    <3>1. /\ Records(Decision(a, NoAction, "CONTROLLER_ERROR", "NONE", "NONE"))
          /\ Counts("NONE", time)
      BY <1>3, <2>3 DEF Ask
    <3>2. /\ IsSequence(decisions') /\ Len(decisions') = Len(decisions) + 1
          /\ Len(decisions) \in Nat /\ Len(decisions') <= MaxDecisions
      BY <2>1, <3>1, Recorded
    <3>3. /\ failures' \in 0..MaxFailures /\ pc' \in {"loop", "end"}
          /\ pc' = "end" <=> stop' # "NONE"
          /\ pc' # "end" => failures' < MaxFailures
      BY <2>1, <3>1, CountsBounded
    <3>. QED  BY <2>1, <3>2, <3>3, Appended DEF BoundsInv
  <2>. QED  BY <2>2, <2>3
<1>4. CASE Refuse
  <2>1. /\ UNCHANGED <<time, events, late, fits, failures>>
        /\ pc = "submit" /\ pc' = "end" /\ stop' # "NONE"
        /\ Records(Decision(answer, answer.says, "SUBMISSION_ERROR", Refusal(answer.says), "NONE"))
    BY <1>4 DEF Refuse, Stops, world
  <2>2. Len(decisions) < MaxDecisions
    BY <2>1 DEF BoundsInv, Ready
  <2>3. /\ IsSequence(decisions') /\ Len(decisions') = Len(decisions) + 1
        /\ Len(decisions) \in Nat /\ Len(decisions') <= MaxDecisions
    BY <2>1, <2>2, Recorded
  <2>. QED  BY <2>1, <2>3, Appended DEF BoundsInv
<1>5. CASE Submit
  <2>. DEFINE n == Len(decisions) + 1
              w == Executed(Now, answer.says, n)
              receipt == Receipt(Now, answer.says)
  <2>1. /\ UNCHANGED <<late, fits>> /\ pc = "submit" /\ Refusal(answer.says) = "NONE"
        /\ time' = w.time /\ events' = w.events
        /\ Records(Decision(answer, answer.says, "NONE", "NONE", receipt))
        /\ Counts(receipt, w.time)
    BY <1>5 DEF Submit, Becomes
  <2>2. Len(decisions) < MaxDecisions /\ answer \in Answers
    BY <2>1 DEF BoundsInv, Ready
  <2>3. /\ IsSequence(decisions') /\ Len(decisions') = Len(decisions) + 1
        /\ Len(decisions) \in Nat /\ Len(decisions') <= MaxDecisions
    BY <2>1, <2>2, Recorded
  <2>4. /\ failures' \in 0..MaxFailures /\ pc' \in {"loop", "end"}
        /\ pc' = "end" <=> stop' # "NONE"
        /\ pc' # "end" => failures' < MaxFailures
    BY <2>1, CountsBounded
  <2>5. /\ w.time \in 0..EndTick /\ IsSequence(w.events)
        /\ Len(w.events) <= Len(events) + 1
    BY <2>1, <2>2, Performed
  <2>. HIDE DEF w, receipt
  <2>. QED  BY <2>1, <2>3, <2>4, <2>5, Appended DEF BoundsInv
<1>6. CASE EngineFails
  <2>. DEFINE n == Len(decisions) + 1
  <2>1. /\ UNCHANGED <<late, fits, failures>> /\ pc = "submit" /\ Refusal(answer.says) = "NONE"
        /\ pc' = "end" /\ stop' # "NONE"
        /\ Records(Decision(answer, answer.says, "SUBMISSION_ERROR", "NONE", "NONE"))
    BY <1>6 DEF EngineFails, Stops
  <2>2. Len(decisions) < MaxDecisions /\ answer \in Answers
    BY <2>1 DEF BoundsInv, Ready
  <2>3. /\ IsSequence(decisions') /\ Len(decisions') = Len(decisions) + 1
        /\ Len(decisions) \in Nat /\ Len(decisions') <= MaxDecisions
    BY <2>1, <2>2, Recorded
  <2>4. /\ time' \in 0..EndTick /\ IsSequence(events') /\ Len(events') <= Len(events) + 1
    <3>1. CASE Becomes(Executed(Now, answer.says, n))
      BY <2>1, <2>2, <3>1, Performed DEF Becomes
    <3>2. CASE \E m \in 0..ActionDuration(position, answer.says) :
                    Becomes([Now EXCEPT !.time = time + m])
      <4>1. PICK m \in 0..ActionDuration(position, answer.says) :
                    time' = time + m /\ events' = events
        BY <3>2 DEF Becomes, Now, World
      <4>2. /\ ActionDuration(position, answer.says) \in Nat
            /\ time + ActionDuration(position, answer.says) <= EndTick
        BY <2>1, <2>2, AdmittedNow
      <4>. QED  BY <4>1, <4>2, PlacesAssumption, Appended DEF BoundsInv
    <3>. QED  BY <1>6, <3>1, <3>2 DEF EngineFails
  <2>. QED  BY <2>1, <2>3, <2>4, Appended DEF BoundsInv
<1>7. CASE WallPasses
  <2>1. late' = TRUE /\ UNCHANGED <<time, position, events, fits, decisions, failures, answer, pc, stop>>
    BY <1>7 DEF WallPasses, world
  <2>. QED  BY <2>1 DEF BoundsInv, Ready
<1>8. CASE UNCHANGED vars
  BY <1>8 DEF vars, world, BoundsInv, Ready
<1>. QED  BY <1>1, <1>2, <1>3, <1>4, <1>5, <1>6, <1>7, <1>8 DEF Next

\* Within the horizon and the bounds of the policy the trial stays, and of events it
\* has at most one to a decision: TypeOK of PlacesAudit.
THEOREM TypeCorrect == Spec => []TypeOK
<1>1. BoundsInv => TypeOK
  <2>. SUFFICES ASSUME BoundsInv  PROVE TypeOK
    OBVIOUS
  <2>1. Len(decisions) \in Nat
    BY Appended DEF BoundsInv
  <2>. QED  BY <2>1, PlacesAssumption DEF BoundsInv, TypeOK
<1>. QED  BY <1>1, BoundsInitially, BoundsStep, PTL DEF Spec
-----------------------------------------------------------------------------
(* The audit's own run of a record.                                        *)

Known(ds) == {ds[i].answer.id : i \in {j \in DOMAIN ds : ds[j].answer.text}} \ {Anonymous}

\* Faults, as AuditFollowsTrial finds them, of a decision in any record.
RepeatedIn(ds, i) ==
    /\ ds[i].answer.id # Anonymous
    /\ \E j \in 1..(i - 1) : ds[j].answer.text /\ ds[j].answer.id = ds[i].answer.id
DisownedIn(ds, i) == ds[i].action # NoAction /\ RepeatedIn(ds, i)
BottomlessIn(ds, i) ==
    ds[i].answer.text /\ ds[i].answer.genuine /\ ds[i].answer.deep /\ ~RepeatedIn(ds, i)

Deep(ds) == \E i \in DOMAIN ds : BottomlessIn(ds, i)
Faulty(ds) == \E i \in DOMAIN ds : DisownedIn(ds, i) \/ BottomlessIn(ds, i)

\* The same of one decision after those of a record.
Disowning(ds, d) == d.action # NoAction /\ d.answer.id \in Known(ds)
Deepening(ds, d) ==
    d.answer.text /\ d.answer.genuine /\ d.answer.deep /\ d.answer.id \notin Known(ds)

Fields == {"world", "ids", "calls", "failures", "ending", "verdict"}

Run == Result(AuditPass(fits), decisions)
Again == Result("replay", decisions)

\* Ending, of a record of n decisions with a stop reason.
EndingOf(r, n, reason) ==
    LET ending == IF r.ending # "NONE" THEN r.ending
                  ELSE IF r.world.time = EndTick THEN Horizon
                  ELSE IF n >= MaxDecisions THEN "MAX_DECISIONS"
                  ELSE IF r.calls >= MaxCalls THEN "MAX_PROVIDER_CALLS"
                  ELSE "WALL_TIMEOUT"
    IN  IF reason = "WALL_TIMEOUT" /\ ending \in {"MAX_DECISIONS", "MAX_PROVIDER_CALLS"}
        THEN "WALL_TIMEOUT" ELSE ending

\* The audit is where the trial is.
Agreed(r, w, ds, failed) ==
    /\ r.verdict = "RIGHT" /\ r.world = w /\ r.calls = Called(ds)
    /\ r.ids = Known(ds) /\ r.failures = failed /\ r.ending = "NONE"

\* It has come to the end that the trial came to.
Concluded(r, w, ds, reason) ==
    /\ r.verdict = "RIGHT" /\ r.world = w /\ r.calls = Called(ds)
    /\ reason = EndingOf(r, Len(ds), reason)

UsedInv ==
    /\ Anonymous \notin used
    /\ used \subseteq Known(decisions) \union (IF pc = "submit" THEN {answer.id} ELSE {})

ReplayInv == stop # "ENGINE_ERROR" => Again = Now

RunInv ==
    /\ DOMAIN Run = Fields
    /\ Faulty(decisions) \/ stop = "ENGINE_ERROR" => Run.verdict # "RIGHT"
    /\ Run.verdict = "LOST" => Deep(decisions)
    /\ ~Faulty(decisions) /\ pc # "end" => Agreed(Run, Now, decisions, failures)
    /\ ~Faulty(decisions) /\ pc = "end" /\ stop # "ENGINE_ERROR" =>
        /\ Concluded(Run, Now, decisions, stop)
        /\ stop = "WALL_TIMEOUT" => late

AuditInv == UsedInv /\ ReplayInv /\ RunInv

\* The answers of a longer record, and their faults.
LEMMA FaultsGrow ==
    ASSUME NEW s, IsSequence(s), NEW d, NEW t, t = Append(s, d)
    PROVE  /\ Known(t) = Known(s) \union {i \in {d.answer.id} : d.answer.text /\ i # Anonymous}
           /\ Deep(t) <=> Deep(s) \/ Deepening(s, d)
           /\ Faulty(t) <=> Faulty(s) \/ Disowning(s, d) \/ Deepening(s, d)
<1>. DEFINE n == Len(s)
<1>1. /\ n \in Nat /\ DOMAIN s = 1..n /\ DOMAIN t = 1..(n + 1)
      /\ t[n + 1] = d /\ \A i \in 1..n : t[i] = s[i]
  BY Appended
<1>. HIDE DEF n
<1>2. Known(t) = Known(s) \union {i \in {d.answer.id} : d.answer.text /\ i # Anonymous}
  BY <1>1 DEF Known
<1>3. ASSUME NEW i \in 1..n  PROVE RepeatedIn(t, i) <=> RepeatedIn(s, i)
  <2>1. \A j \in 1..(i - 1) : j \in 1..n
    BY <1>1
  <2>. QED  BY <1>1, <2>1 DEF RepeatedIn
<1>4. RepeatedIn(t, n + 1) <=> d.answer.id \in Known(s)
  <2>. PICK m : m = n + 1
    OBVIOUS
  <2>1. 1..(m - 1) = 1..n /\ t[m] = d
    BY <1>1
  <2>2. RepeatedIn(t, m) <=> /\ d.answer.id # Anonymous
                             /\ \E j \in 1..n : t[j].answer.text /\ t[j].answer.id = d.answer.id
    BY <2>1, Zenon DEF RepeatedIn
  <2>3. d.answer.id \in Known(s) <=>
            /\ d.answer.id # Anonymous
            /\ \E j \in 1..n : s[j].answer.text /\ s[j].answer.id = d.answer.id
    BY <1>1 DEF Known
  <2>. QED  BY <1>1, <2>2, <2>3
<1>5. ASSUME NEW i \in 1..n
      PROVE  (BottomlessIn(t, i) <=> BottomlessIn(s, i)) /\ (DisownedIn(t, i) <=> DisownedIn(s, i))
  <2>1. t[i] = s[i] /\ (RepeatedIn(t, i) <=> RepeatedIn(s, i))
    BY <1>1, <1>3
  <2>. QED  BY <2>1, Zenon DEF BottomlessIn, DisownedIn
<1>6. (BottomlessIn(t, n + 1) <=> Deepening(s, d)) /\ (DisownedIn(t, n + 1) <=> Disowning(s, d))
  BY <1>1, <1>4 DEF BottomlessIn, DisownedIn, Deepening, Disowning
<1>7. \A i : i \in 1..(n + 1) <=> i \in 1..n \/ i = n + 1
  BY <1>1
<1>8. Deep(t) <=> Deep(s) \/ Deepening(s, d)
  BY <1>1, <1>5, <1>6, <1>7, Zenon DEF Deep
<1>9. Faulty(t) <=> Faulty(s) \/ Disowning(s, d) \/ Deepening(s, d)
  BY <1>1, <1>5, <1>6, <1>7, Zenon DEF Faulty
<1>. QED  BY <1>2, <1>8, <1>9

\* A reading that is not right any more stays as it is.
LEMMA NotRightStays ==
    ASSUME NEW whole, NEW r, NEW d, r.verdict # "RIGHT"
    PROVE  Assessed(whole, r, d) = r
BY DEF Assessed

\* How a reading that is right takes an answer.
LEMMA RightAssesses ==
    ASSUME NEW whole, NEW r, NEW d, r.verdict = "RIGHT", Continues(r, d), d.called = TRUE,
           Observes(whole, r.world.position)
    PROVE  /\ Decodes(r, d) /\ d.answer.deep => Assessed(whole, r, d) = Lost(r)
           /\ Decodes(r, d) /\ ~d.answer.deep /\ d.action = d.answer.says /\ d.action # NoAction
                => Assessed(whole, r, d) = Attempted(r, d, d.action)
           /\ ~Decodes(r, d) /\ d.action # NoAction => Assessed(whole, r, d) = Wrong(r)
           /\ ( /\ ~Decodes(r, d) \/ (~d.answer.deep /\ d.answer.says = NoAction)
                /\ d.action = NoAction /\ Outcome(d, "CONTROLLER_ERROR", "NONE", "NONE") )
                => Assessed(whole, r, d) = Read(r, d, r.world, "NONE")
<1>1. ASSUME Decodes(r, d), d.answer.deep
      PROVE  Assessed(whole, r, d) = Lost(r)
  BY <1>1, Zenon DEF Assessed
<1>2. ASSUME Decodes(r, d), ~d.answer.deep, d.action = d.answer.says, d.action # NoAction
      PROVE  Assessed(whole, r, d) = Attempted(r, d, d.action)
  BY <1>2, Zenon DEF Assessed
<1>3. ASSUME ~Decodes(r, d), d.action # NoAction
      PROVE  Assessed(whole, r, d) = Wrong(r)
  BY <1>3, Zenon DEF Assessed
<1>4. ASSUME \/ ~Decodes(r, d)
             \/ Decodes(r, d) /\ ~d.answer.deep /\ d.answer.says = NoAction,
             d.action = NoAction, Outcome(d, "CONTROLLER_ERROR", "NONE", "NONE")
      PROVE  Assessed(whole, r, d) = Read(r, d, r.world, "NONE")
  <2>1. CASE ~Decodes(r, d)
    BY <1>4, <2>1, Zenon DEF Assessed
  <2>2. CASE Decodes(r, d) /\ ~d.answer.deep /\ d.answer.says = NoAction
    BY <1>4, <2>2, Zenon DEF Assessed
  <2>. QED  BY <1>4, <2>1, <2>2
<1>. QED  BY <1>1, <1>2, <1>3, <1>4

\* A reading after a decision that ran as recorded.
LEMMA ReadIs ==
    ASSUME NEW r, NEW d, NEW w, NEW ending
    PROVE  /\ Read(r, d, w, ending).verdict = "RIGHT" /\ Read(r, d, w, ending).world = w
           /\ DOMAIN Read(r, d, w, ending) = Fields
           /\ Read(r, d, w, ending).calls = r.calls + 1
           /\ Read(r, d, w, ending).ids = AuditIds(r, d)
           /\ Read(r, d, w, ending).failures = CountedFailures(r, w)
           /\ Read(r, d, w, ending).ending =
                IF ending = "NONE" /\ CountedFailures(r, w) >= MaxFailures
                THEN "CONSECUTIVE_FAILURES" ELSE ending
BY DEF Read, Reading, Fields

\* A reading that went wrong or was lost.
LEMMA NotRightIs ==
    ASSUME NEW r, DOMAIN r = Fields
    PROVE  /\ Wrong(r).verdict = "WRONG" /\ Lost(r).verdict = "LOST"
           /\ DOMAIN Wrong(r) = Fields /\ DOMAIN Lost(r) = Fields
<1>1. "verdict" \in DOMAIN r
  BY DEF Fields
<1>. QED  BY <1>1 DEF Wrong, Lost

AfterRead(r, w, ds, failed, ending) ==
    /\ DOMAIN r = Fields /\ r.verdict = "RIGHT" /\ r.world = w /\ r.calls = Called(ds)
    /\ r.ids = Known(ds) /\ r.failures = failed /\ r.ending = ending

\* What the audit counts after a decision that took it from one world to another.
CountedTo(failed, w, v) == IF v.time = w.time THEN failed + 1 ELSE 0
EndingAfter(ending, failed) ==
    IF ending = "NONE" /\ failed >= MaxFailures THEN "CONSECUTIVE_FAILURES" ELSE ending

\* To read on takes the agreement with the trial one decision further.
LEMMA ReadsOn ==
    ASSUME NEW ds, IsSequence(ds), NEW r, NEW w, NEW failed, Agreed(r, w, ds, failed),
           NEW d, d.called = TRUE, NEW v, NEW ending
    PROVE  AfterRead(Read(r, d, v, ending), v, Append(ds, d), CountedTo(failed, w, v),
                     EndingAfter(ending, CountedTo(failed, w, v)))
<1>. DEFINE t == Append(ds, d)
            x == Read(r, d, v, ending)
<1>1. Called(t) = Called(ds) + 1
  BY CalledGrows
<1>2. Known(t) = Known(ds) \union {i \in {d.answer.id} : d.answer.text /\ i # Anonymous}
  BY FaultsGrow
<1>3. AuditIds(r, d) = Known(t)
  BY <1>2, Zenon DEF AuditIds, Agreed
<1>4. CountedFailures(r, v) = CountedTo(failed, w, v)
  BY DEF CountedFailures, CountedTo, Agreed
<1>5. r.calls = Called(ds)
  BY DEF Agreed
<1>6. /\ DOMAIN x = Fields /\ x.verdict = "RIGHT" /\ x.world = v /\ x.calls = r.calls + 1
      /\ x.ids = AuditIds(r, d) /\ x.failures = CountedFailures(r, v)
      /\ x.ending = IF ending = "NONE" /\ CountedFailures(r, v) >= MaxFailures
                    THEN "CONSECUTIVE_FAILURES" ELSE ending
  BY ReadIs
<1>. HIDE DEF t, x
<1>7. x.ending = EndingAfter(ending, CountedTo(failed, w, v))
  BY <1>4, <1>6 DEF EndingAfter
<1>8. AfterRead(x, v, t, CountedTo(failed, w, v), EndingAfter(ending, CountedTo(failed, w, v)))
  BY <1>1, <1>3, <1>4, <1>5, <1>6, <1>7, Zenon DEF AfterRead
<1>. QED  BY <1>8 DEF t, x

\* The decision d asked the provider, where r has read what was before it.
Asked(whole, ds, r, w, failed, d) ==
    /\ IsSequence(ds) /\ DOMAIN r = Fields /\ Agreed(r, w, ds, failed)
    /\ d.called = TRUE /\ Continues(r, d) /\ Observes(whole, w.position)

\* It was answered with an action.
Acts(d) ==
    /\ d.action # NoAction /\ d.action = d.answer.says
    /\ d.answer.text = TRUE /\ d.answer.genuine = TRUE /\ d.answer.deep = FALSE

\* A decision without an action.
LEMMA RejectAudited ==
    ASSUME NEW whole, NEW ds, NEW r, NEW w, NEW failed, NEW d, Asked(whole, ds, r, w, failed, d),
           d.action = NoAction, Outcome(d, "CONTROLLER_ERROR", "NONE", "NONE"),
           d.answer.text /\ d.answer.genuine /\ d.answer.id \notin Known(ds)
                => d.answer.says = NoAction
    PROVE  \/ /\ Deepening(ds, d) /\ Assessed(whole, r, d).verdict = "LOST"
              /\ DOMAIN Assessed(whole, r, d) = Fields
           \/ /\ ~Deepening(ds, d)
              /\ AfterRead(Assessed(whole, r, d), w, Append(ds, d), failed + 1,
                           EndingAfter("NONE", failed + 1))
<1>. IsSequence(ds) /\ DOMAIN r = Fields /\ Agreed(r, w, ds, failed)
     /\ d.called = TRUE /\ Continues(r, d) /\ Observes(whole, w.position)
  BY DEF Asked
<1>1. r.verdict = "RIGHT" /\ r.world = w /\ r.ids = Known(ds)
  BY DEF Agreed
<1>2. Decodes(r, d) <=> d.answer.text /\ d.answer.genuine /\ d.answer.id \notin Known(ds)
  BY <1>1 DEF Decodes
<1>3. CASE Deepening(ds, d)
  <2>1. Decodes(r, d) /\ d.answer.deep
    BY <1>2, <1>3 DEF Deepening
  <2>2. Assessed(whole, r, d) = Lost(r)
    BY <1>1, <2>1, RightAssesses
  <2>. QED  BY <1>3, <2>2, NotRightIs
<1>4. CASE ~Deepening(ds, d)
  <2>1. ~Decodes(r, d) \/ (~d.answer.deep /\ d.answer.says = NoAction)
    BY <1>2, <1>4 DEF Deepening
  <2>2. Assessed(whole, r, d) = Read(r, d, w, "NONE")
    BY <1>1, <2>1, RightAssesses
  <2>3. CountedTo(failed, w, w) = failed + 1
    BY DEF CountedTo
  <2>. QED  BY <1>4, <2>2, <2>3, ReadsOn
<1>. QED  BY <1>3, <1>4

\* A decision with an action.
LEMMA ActionAudited ==
    ASSUME NEW whole, NEW ds, NEW r, NEW w, NEW failed, NEW d, Asked(whole, ds, r, w, failed, d),
           Acts(d)
    PROVE  \/ /\ Disowning(ds, d) /\ Assessed(whole, r, d) = Wrong(r)
              /\ Assessed(whole, r, d).verdict = "WRONG"
              /\ DOMAIN Assessed(whole, r, d) = Fields
           \/ /\ ~Disowning(ds, d) /\ ~Deepening(ds, d)
              /\ Assessed(whole, r, d) = Attempted(r, d, d.action)
<1>. IsSequence(ds) /\ DOMAIN r = Fields /\ Agreed(r, w, ds, failed)
     /\ d.called = TRUE /\ Continues(r, d) /\ Observes(whole, w.position)
  BY DEF Asked
<1>. /\ d.action # NoAction /\ d.action = d.answer.says
     /\ d.answer.text = TRUE /\ d.answer.genuine = TRUE /\ d.answer.deep = FALSE
  BY DEF Acts
<1>1. r.verdict = "RIGHT" /\ r.world = w /\ r.ids = Known(ds)
  BY DEF Agreed
<1>2. Decodes(r, d) <=> d.answer.id \notin Known(ds)
  BY <1>1 DEF Decodes
<1>3. ~Deepening(ds, d) /\ (Disowning(ds, d) <=> d.answer.id \in Known(ds))
  BY DEF Deepening, Disowning
<1>4. CASE d.answer.id \in Known(ds)
  <2>1. Assessed(whole, r, d) = Wrong(r)
    BY <1>1, <1>2, <1>4, RightAssesses
  <2>. QED  BY <1>3, <1>4, <2>1, NotRightIs
<1>5. CASE d.answer.id \notin Known(ds)
  <2>1. Assessed(whole, r, d) = Attempted(r, d, d.action)
    BY <1>1, <1>2, <1>5, RightAssesses
  <2>. QED  BY <1>3, <1>5, <2>1
<1>. QED  BY <1>4, <1>5

\* The passes, when a decision is recorded.
LEMMA PassesGrow ==
    ASSUME BoundsInv, NEW given, NEW action, NEW failure, NEW refusal, NEW receipt, fits' = fits,
           NEW d, d = Decision(given, action, failure, refusal, receipt), Records(d)
    PROVE  /\ Run' = Assessed(fits, Run, d)
           /\ Again' = Resubmitted(Again, d)
           /\ Known(decisions') = Known(decisions)
                \union {i \in {d.answer.id} : d.answer.text /\ i # Anonymous}
           /\ Deep(decisions') <=> Deep(decisions) \/ Deepening(decisions, d)
           /\ Faulty(decisions') <=>
                Faulty(decisions) \/ Disowning(decisions, d) \/ Deepening(decisions, d)
<1>1. PICK s, t, whole : s = decisions /\ t = decisions' /\ whole = fits
  OBVIOUS
<1>2. IsSequence(s) /\ t = Append(s, d) /\ whole \in BOOLEAN
  BY <1>1 DEF BoundsInv, Records
<1>3. /\ Result(AuditPass(whole), t) = Step(AuditPass(whole), Result(AuditPass(whole), s), d)
      /\ Result("replay", t) = Step("replay", Result("replay", s), d)
  BY <1>2, ResultGrows, Zenon
<1>4. \A x : /\ Step(AuditPass(whole), x, d) = Assessed(whole, x, d)
             /\ Step("replay", x, d) = Resubmitted(x, d)
  BY <1>2, Zenon DEF Step, AuditPass
<1>5. Run' = Result(AuditPass(whole), t) /\ Run = Result(AuditPass(whole), s)
      /\ Again' = Result("replay", t) /\ Again = Result("replay", s)
  <2>1. t = decisions' /\ whole = fits'
    BY <1>1
  <2>. QED  BY <1>1, <2>1 DEF Run, Again
<1>6. /\ Known(t) = Known(s) \union {i \in {d.answer.id} : d.answer.text /\ i # Anonymous}
      /\ Deep(t) <=> Deep(s) \/ Deepening(s, d)
      /\ Faulty(t) <=> Faulty(s) \/ Disowning(s, d) \/ Deepening(s, d)
  BY <1>2, FaultsGrow
<1>. QED  BY <1>1, <1>3, <1>4, <1>5, <1>6, Zenon

\* An ending that the reading has is the one that it states.
LEMMA EndingStated ==
    ASSUME NEW r, NEW n, NEW reason, reason # "NONE", r.ending = reason
    PROVE  reason = EndingOf(r, n, reason)
BY DEF EndingOf

\* The audit can go on where the trial took a turn.
LEMMA GoesOn ==
    ASSUME BoundsInv, time < EndTick, Len(decisions) < MaxDecisions,
           Called(decisions) < MaxCalls, NEW failed, Agreed(Run, Now, decisions, failed),
           NEW given, NEW action, NEW failure, NEW refusal, NEW receipt,
           NEW d, d = Decision(given, action, failure, refusal, receipt)
    PROVE  /\ Continues(Run, d) /\ Run.world.position = position /\ Run.world.time = time
           /\ Now.position = position /\ Now.time = time
<1>1. d.sequence = Len(decisions) + 1 /\ d.tick = time
  BY DEF Decision
<1>2. Now.time = time /\ Now.position = position
  BY DEF Now, World
<1>3. Run.world = Now /\ Run.calls = Called(decisions) /\ Run.ending = "NONE"
  BY DEF Agreed
<1>4. Len(decisions) \in Nat /\ Len(decisions) + 1 <= MaxDecisions
  BY Appended, PlacesAssumption DEF BoundsInv
<1>5. PICK r : r = Run
  OBVIOUS
<1>6. Continues(r, d)
  BY <1>1, <1>2, <1>3, <1>4, <1>5 DEF Continues
<1>. QED  BY <1>2, <1>3, <1>5, <1>6

\* A fault found before a decision excludes the trial after it as well.
LEMMA StaysFaulty ==
    ASSUME BoundsInv, RunInv, Faulty(decisions), fits' = fits,
           NEW given, NEW action, NEW failure, NEW refusal, NEW receipt,
           Records(Decision(given, action, failure, refusal, receipt))
    PROVE  RunInv'
<1>1. PICK d : d = Decision(given, action, failure, refusal, receipt)
  OBVIOUS
<1>2. /\ Run' = Assessed(fits, Run, d)
      /\ Deep(decisions') <=> Deep(decisions) \/ Deepening(decisions, d)
      /\ Faulty(decisions') <=>
            Faulty(decisions) \/ Disowning(decisions, d) \/ Deepening(decisions, d)
  BY <1>1, PassesGrow
<1>3. PICK r, whole : r = Run /\ whole = fits
  OBVIOUS
<1>4. r.verdict # "RIGHT" /\ DOMAIN r = Fields /\ (r.verdict = "LOST" => Deep(decisions))
  BY <1>3 DEF RunInv
<1>5. Assessed(whole, r, d) = r
  BY <1>4, NotRightStays
<1>6. Run' = r /\ Faulty(decisions') /\ (Deep(decisions) => Deep(decisions'))
  BY <1>2, <1>3, <1>5
<1>. QED  BY <1>4, <1>6 DEF RunInv

\* After a decision that the audit excludes.
LEMMA BecomesFaulty ==
    ASSUME Run'.verdict # "RIGHT", DOMAIN Run' = Fields,
           Run'.verdict = "LOST" => Deep(decisions'),
           Faulty(decisions') \/ stop' = "ENGINE_ERROR", pc' = "end" \/ Faulty(decisions')
    PROVE  RunInv'
BY DEF RunInv

\* After a decision that the audit has read as the trial took it.
LEMMA StaysRight ==
    ASSUME BoundsInv', ~Faulty(decisions'), stop' # "ENGINE_ERROR",
           NEW failed, NEW ending, AfterRead(Run', Now', decisions', failed, ending),
           pc' # "end" => ending = "NONE" /\ failed = failures',
           pc' = "end" => ending = stop',
           stop' = "WALL_TIMEOUT" => late'
    PROVE  RunInv'
<1>1. PICK r, w, ds, reason : r = Run' /\ w = Now' /\ ds = decisions' /\ reason = stop'
  OBVIOUS
<1>2. AfterRead(r, w, ds, failed, ending) /\ ~Faulty(ds)
  BY <1>1
<1>3. DOMAIN r = Fields /\ r.verdict = "RIGHT"
  BY <1>2 DEF AfterRead
<1>4. ASSUME pc' # "end"  PROVE Agreed(r, w, ds, failures')
  BY <1>2, <1>4 DEF AfterRead, Agreed
<1>5. ASSUME pc' = "end"  PROVE Concluded(r, w, ds, reason)
  <2>1. reason # "NONE" /\ r.ending = reason
    BY <1>1, <1>2, <1>5 DEF BoundsInv, AfterRead
  <2>2. reason = EndingOf(r, Len(ds), reason)
    BY <2>1, EndingStated
  <2>. QED  BY <1>2, <2>2 DEF AfterRead, Concluded
<1>6. "RIGHT" # "LOST"
  OBVIOUS
<1>. QED  BY <1>1, <1>2, <1>3, <1>4, <1>5, <1>6 DEF RunInv

\* An answer that is not taken for an action.
LEMMA RunAsked ==
    ASSUME BoundsInv, BoundsInv', UsedInv, RunInv, NEW a \in Answers, Ask(a), ~Accepted(a)
    PROVE  RunInv'
<1>1. PICK d : d = Decision(a, NoAction, "CONTROLLER_ERROR", "NONE", "NONE")
  OBVIOUS
<1>2. /\ pc = "loop" /\ time < EndTick /\ Len(decisions) < MaxDecisions
      /\ Called(decisions) < MaxCalls /\ Observes(fits, position)
      /\ fits' = fits /\ UNCHANGED <<time, position, events>>
      /\ Records(Decision(a, NoAction, "CONTROLLER_ERROR", "NONE", "NONE")) /\ Counts("NONE", time)
  BY TurnBegins DEF Ask, world
<1>3. CASE Faulty(decisions)
  BY <1>2, <1>3, StaysFaulty
<1>4. CASE ~Faulty(decisions)
  <2>1. Agreed(Run, Now, decisions, failures) /\ DOMAIN Run = Fields
    BY <1>2, <1>4 DEF RunInv
  <2>2. PICK r, w, ds, whole, failed :
            r = Run /\ w = Now /\ ds = decisions /\ whole = fits /\ failed = failures
    OBVIOUS
  <2>3. Continues(r, d) /\ w.position = position /\ w.time = time
    BY <1>1, <1>2, <2>1, <2>2, GoesOn
  <2>4. /\ d.called = TRUE /\ d.answer = a /\ d.action = NoAction
        /\ Outcome(d, "CONTROLLER_ERROR", "NONE", "NONE")
    BY <1>1 DEF Decision, Outcome
  <2>5. a.text /\ a.genuine /\ a.id \notin Known(ds) => a.says = NoAction
    BY <1>2, <2>2 DEF Accepted, UsedInv
  <2>6. IsSequence(ds) /\ Agreed(r, w, ds, failed) /\ DOMAIN r = Fields
        /\ Observes(whole, w.position) /\ ds = decisions /\ Append(ds, d) = decisions'
    BY <1>1, <1>2, <2>1, <2>2, <2>3 DEF BoundsInv, Records
  <2>7. \/ /\ Deepening(ds, d) /\ Assessed(whole, r, d).verdict = "LOST"
           /\ DOMAIN Assessed(whole, r, d) = Fields
        \/ /\ ~Deepening(ds, d)
           /\ AfterRead(Assessed(whole, r, d), w, Append(ds, d), failed + 1,
                        EndingAfter("NONE", failed + 1))
    <3>1. Asked(whole, ds, r, w, failed, d)
      BY <2>3, <2>4, <2>6 DEF Asked
    <3>. QED  BY <2>4, <2>5, <3>1, RejectAudited
  <2>8. /\ Run' = Assessed(whole, r, d)
        /\ Deep(decisions') <=> Deep(decisions) \/ Deepening(decisions, d)
        /\ Faulty(decisions') <=>
            Faulty(decisions) \/ Disowning(decisions, d) \/ Deepening(decisions, d)
    BY <1>1, <1>2, <2>2, PassesGrow
  <2>9. CASE Deepening(ds, d)
    BY <2>2, <2>7, <2>8, <2>9, BecomesFaulty
  <2>10. CASE ~Deepening(ds, d)
    <3>1. ~Faulty(decisions')
      BY <1>4, <2>2, <2>4, <2>8, <2>10 DEF Disowning
    <3>2. Now' = w
      BY <1>2, <2>2 DEF Now, World
    <3>3. AfterRead(Run', Now', decisions', failed + 1, EndingAfter("NONE", failed + 1))
      BY <2>6, <2>7, <2>8, <2>10, <3>2
    <3>4. /\ pc' \in {"loop", "end"} /\ (pc' = "end" => stop' = "CONSECUTIVE_FAILURES")
          /\ failures' = failed + 1 /\ (pc' = "end" <=> failed + 1 >= MaxFailures)
          /\ (pc' = "end" <=> stop' # "NONE")
      BY <1>2, <2>2, CountsBounded DEF Stalled
    <3>5. EndingAfter("NONE", failed + 1) = IF pc' = "end" THEN "CONSECUTIVE_FAILURES" ELSE "NONE"
      BY <3>4 DEF EndingAfter
    <3>. QED  BY <3>1, <3>3, <3>4, <3>5, StaysRight
  <2>. QED  BY <2>9, <2>10
<1>. QED  BY <1>3, <1>4

\* An executed action leaves a world.
LEMMA ExecutedWorld ==
    ASSUME NEW a, NEW source
    PROVE  LET w == Executed(Now, a, source) IN w = World(w.time, w.position, w.events)
BY DEF Executed, Now, World

\* How the audit takes a decision with an action.
LEMMA ActionTaken ==
    ASSUME BoundsInv, RunInv, pc = "submit", ~Faulty(decisions), fits' = fits,
           NEW failure, failure # "OBSERVATION_UNAVAILABLE", NEW refusal, NEW receipt,
           Records(Decision(answer, answer.says, failure, refusal, receipt)),
           NEW d, d = Decision(answer, answer.says, failure, refusal, receipt)
    PROVE  /\ Agreed(Run, Now, decisions, failures) /\ DOMAIN Run = Fields
           /\ d.called = TRUE /\ Append(decisions, d) = decisions'
           /\ \/ /\ Faulty(decisions') /\ Run'.verdict = "WRONG" /\ DOMAIN Run' = Fields
              \/ ~Faulty(decisions') /\ Run' = Attempted(Run, d, answer.says)
<1>1. Agreed(Run, Now, decisions, failures) /\ DOMAIN Run = Fields /\ Ready
  BY DEF RunInv, BoundsInv
<1>2. PICK r, w, ds, whole, failed :
            r = Run /\ w = Now /\ ds = decisions /\ whole = fits /\ failed = failures
  OBVIOUS
<1>3. Continues(r, d) /\ w.position = position
  BY <1>1, <1>2, GoesOn DEF Ready
<1>4. /\ d.called = TRUE /\ d.answer = answer /\ d.action = answer.says
  BY DEF Decision
<1>5. /\ d.answer.text = TRUE /\ d.answer.genuine = TRUE /\ d.answer.deep = FALSE
      /\ d.action # NoAction /\ d.action = d.answer.says
  BY <1>1, <1>4, PlacesAssumption DEF Ready
<1>6. IsSequence(ds) /\ Agreed(r, w, ds, failed) /\ DOMAIN r = Fields
      /\ Observes(whole, w.position)
  BY <1>1, <1>2, <1>3 DEF BoundsInv, Ready, Observes
<1>7. \/ /\ Disowning(ds, d) /\ Assessed(whole, r, d).verdict = "WRONG"
         /\ DOMAIN Assessed(whole, r, d) = Fields
      \/ /\ ~Disowning(ds, d) /\ ~Deepening(ds, d)
         /\ Assessed(whole, r, d) = Attempted(r, d, d.action)
  <2>1. Asked(whole, ds, r, w, failed, d)
    BY <1>3, <1>4, <1>6 DEF Asked
  <2>2. Acts(d)
    BY <1>5 DEF Acts
  <2>. QED  BY <2>1, <2>2, ActionAudited
<1>8. /\ Run' = Assessed(whole, r, d)
      /\ Faulty(decisions') <=>
            Faulty(decisions) \/ Disowning(decisions, d) \/ Deepening(decisions, d)
  BY <1>2, PassesGrow
<1>9. Append(decisions, d) = decisions'
  BY DEF Records
<1>. QED  BY <1>1, <1>2, <1>4, <1>7, <1>8, <1>9

\* An action that the port refuses.
LEMMA RunRefused ==
    ASSUME BoundsInv, BoundsInv', RunInv, Refuse  PROVE RunInv'
<1>. DEFINE refusal == Refusal(answer.says)
<1>1. PICK d : d = Decision(answer, answer.says, "SUBMISSION_ERROR", refusal, "NONE")
  OBVIOUS
<1>2. /\ pc = "submit" /\ pc' = "end" /\ stop' = refusal /\ refusal # "NONE"
      /\ UNCHANGED <<time, position, events, fits, late>>
      /\ Records(Decision(answer, answer.says, "SUBMISSION_ERROR", refusal, "NONE"))
  BY DEF Refuse, Stops, world
<1>3. CASE Faulty(decisions)
  BY <1>2, <1>3, StaysFaulty
<1>4. CASE ~Faulty(decisions)
  <2>1. /\ Agreed(Run, Now, decisions, failures) /\ DOMAIN Run = Fields
        /\ d.called = TRUE /\ Append(decisions, d) = decisions'
        /\ \/ /\ Faulty(decisions') /\ Run'.verdict = "WRONG" /\ DOMAIN Run' = Fields
           \/ ~Faulty(decisions') /\ Run' = Attempted(Run, d, answer.says)
    BY <1>1, <1>2, <1>4, ActionTaken
  <2>2. PICK r, w, ds, failed : r = Run /\ w = Now /\ ds = decisions /\ failed = failures
    OBVIOUS
  <2>3. /\ d.turn_failure = "SUBMISSION_ERROR" /\ d.protocol_failure = refusal
        /\ d.receipt = "NONE"
    BY <1>1 DEF Decision
  <2>4. r.world = w /\ w.time = time /\ w.position = position
    BY <2>1, <2>2 DEF Agreed, Now, World
  <2>5. AuditRefusal(r, d, answer.says) = refusal
    <3>1. Precheck(time, position, answer.says) # "WALL_TIMEOUT"
      BY PrecheckSays
    <3>. QED  BY <2>3, <2>4, <3>1 DEF AuditRefusal, Refusal
  <2>6. Attempted(r, d, answer.says) = Read(r, d, w, refusal)
    BY <1>2, <2>3, <2>4, <2>5 DEF Attempted, Outcome
  <2>7. CASE Faulty(decisions')
    <3>1. Run'.verdict = "WRONG" /\ DOMAIN Run' = Fields
      BY <2>1, <2>7
    <3>. QED  BY <2>7, <3>1, BecomesFaulty
  <2>8. CASE ~Faulty(decisions')
    <3>1. Run' = Read(r, d, w, refusal) /\ Now' = w
      BY <1>2, <2>1, <2>2, <2>6, <2>8 DEF Now, World
    <3>2. IsSequence(ds) /\ Agreed(r, w, ds, failed) /\ Append(ds, d) = decisions'
      BY <2>1, <2>2 DEF BoundsInv
    <3>3. EndingAfter(refusal, CountedTo(failed, w, w)) = refusal
      BY <1>2 DEF EndingAfter
    <3>4. AfterRead(Run', Now', decisions', CountedTo(failed, w, w), refusal)
      BY <2>1, <3>1, <3>2, <3>3, ReadsOn
    <3>5. refusal # "ENGINE_ERROR" /\ (refusal = "WALL_TIMEOUT" => late)
      BY PrecheckSays DEF Refusal
    <3>. QED  BY <1>2, <2>8, <3>4, <3>5, StaysRight
  <2>. QED  BY <2>7, <2>8
<1>. QED  BY <1>3, <1>4

\* An action that is executed.
LEMMA RunSubmitted ==
    ASSUME BoundsInv, BoundsInv', RunInv, Submit  PROVE RunInv'
<1>. DEFINE v == Executed(Now, answer.says, Len(decisions) + 1)
            receipt == Receipt(Now, answer.says)
<1>1. PICK d : d = Decision(answer, answer.says, "NONE", "NONE", receipt)
  OBVIOUS
<1>2. /\ pc = "submit" /\ UNCHANGED <<fits, late>> /\ Refusal(answer.says) = "NONE"
      /\ time' = v.time /\ position' = v.position /\ events' = v.events
      /\ Records(Decision(answer, answer.says, "NONE", "NONE", receipt))
      /\ Counts(receipt, v.time)
  BY DEF Submit, Becomes
<1>3. CASE Faulty(decisions)
  BY <1>2, <1>3, StaysFaulty
<1>4. CASE ~Faulty(decisions)
  <2>1. /\ Agreed(Run, Now, decisions, failures) /\ DOMAIN Run = Fields
        /\ d.called = TRUE /\ Append(decisions, d) = decisions'
        /\ \/ /\ Faulty(decisions') /\ Run'.verdict = "WRONG" /\ DOMAIN Run' = Fields
           \/ ~Faulty(decisions') /\ Run' = Attempted(Run, d, answer.says)
    BY <1>1, <1>2, <1>4, ActionTaken
  <2>2. PICK r, w, ds, failed : r = Run /\ w = Now /\ ds = decisions /\ failed = failures
    OBVIOUS
  <2>3. /\ d.turn_failure = "NONE" /\ d.protocol_failure = "NONE" /\ d.receipt = receipt
        /\ d.sequence = Len(decisions) + 1
    BY <1>1 DEF Decision
  <2>4. r.world = w /\ w.time = time /\ w.position = position /\ w.events = events
    BY <2>1, <2>2 DEF Agreed, Now, World
  <2>5. AuditRefusal(r, d, answer.says) = "NONE"
    <3>1. Precheck(time, position, answer.says) = "NONE"
      BY <1>2 DEF Refusal
    <3>. QED  BY <2>3, <2>4, <3>1 DEF AuditRefusal
  <2>6. Attempted(r, d, answer.says) = Read(r, d, v, "NONE")
    BY <2>2, <2>3, <2>4, <2>5 DEF Attempted, Outcome
  <2>7. CASE Faulty(decisions')
    <3>1. Run'.verdict = "WRONG" /\ DOMAIN Run' = Fields
      BY <2>1, <2>7
    <3>. QED  BY <2>7, <3>1, BecomesFaulty
  <2>8. CASE ~Faulty(decisions')
    <3>1. Run' = Read(r, d, v, "NONE")
      BY <2>1, <2>2, <2>6, <2>8
    <3>2. Now' = v
      BY <1>2, ExecutedWorld DEF Now, World
    <3>3. IsSequence(ds) /\ Agreed(r, w, ds, failed) /\ Append(ds, d) = decisions'
      BY <2>1, <2>2 DEF BoundsInv
    <3>4. AfterRead(Run', Now', decisions', CountedTo(failed, w, v),
                    EndingAfter("NONE", CountedTo(failed, w, v)))
      BY <2>1, <3>1, <3>2, <3>3, ReadsOn
    <3>5. /\ pc' \in {"loop", "end"} /\ (pc' = "end" <=> stop' # "NONE")
          /\ (pc' = "end" => stop' = "CONSECUTIVE_FAILURES")
          /\ failures' = (IF Stalled(receipt, v.time) THEN failures + 1 ELSE 0)
          /\ (pc' = "end" <=> Stalled(receipt, v.time) /\ failures + 1 >= MaxFailures)
      BY <1>2, CountsBounded
    <3>6. Stalled(receipt, v.time) <=> v.time = w.time
      <4>1. receipt # "NONE"
        BY DEF Receipt
      <4>. QED  BY <2>4, <4>1 DEF Stalled
    <3>7. failures' = CountedTo(failed, w, v)
      BY <2>2, <3>5, <3>6 DEF CountedTo
    <3>8. EndingAfter("NONE", CountedTo(failed, w, v))
            = IF pc' = "end" THEN "CONSECUTIVE_FAILURES" ELSE "NONE"
      BY <2>2, <3>5, <3>6, PlacesAssumption DEF EndingAfter, CountedTo
    <3>. QED  BY <2>8, <3>4, <3>5, <3>7, <3>8, StaysRight
  <2>. QED  BY <2>7, <2>8
<1>. QED  BY <1>3, <1>4

\* An action over which the engine raises.
LEMMA RunEngineFails ==
    ASSUME BoundsInv, RunInv, EngineFails  PROVE RunInv'
<1>1. PICK d : d = Decision(answer, answer.says, "SUBMISSION_ERROR", "NONE", "NONE")
  OBVIOUS
<1>2. /\ pc = "submit" /\ fits' = fits /\ Refusal(answer.says) = "NONE"
      /\ pc' = "end" /\ stop' = "ENGINE_ERROR"
      /\ Records(Decision(answer, answer.says, "SUBMISSION_ERROR", "NONE", "NONE"))
  BY DEF EngineFails, Stops
<1>3. CASE Faulty(decisions)
  BY <1>2, <1>3, StaysFaulty
<1>4. CASE ~Faulty(decisions)
  <2>1. /\ Agreed(Run, Now, decisions, failures) /\ DOMAIN Run = Fields
        /\ \/ /\ Faulty(decisions') /\ Run'.verdict = "WRONG" /\ DOMAIN Run' = Fields
           \/ ~Faulty(decisions') /\ Run' = Attempted(Run, d, answer.says)
    BY <1>1, <1>2, <1>4, ActionTaken
  <2>2. PICK r : r = Run
    OBVIOUS
  <2>3. d.turn_failure = "SUBMISSION_ERROR" /\ d.protocol_failure = "NONE"
    BY <1>1 DEF Decision
  <2>4. r.world.time = time /\ r.world.position = position
    BY <2>1, <2>2 DEF Agreed, Now, World
  <2>5. AuditRefusal(r, d, answer.says) = "NONE"
    <3>1. Precheck(time, position, answer.says) = "NONE"
      BY <1>2 DEF Refusal
    <3>. QED  BY <2>3, <2>4, <3>1 DEF AuditRefusal
  <2>6. Attempted(r, d, answer.says) = Wrong(r)
    BY <2>3, <2>5 DEF Attempted, Outcome
  <2>7. Wrong(r).verdict = "WRONG" /\ DOMAIN Wrong(r) = Fields
    BY <2>1, <2>2, NotRightIs
  <2>8. Run'.verdict = "WRONG" /\ DOMAIN Run' = Fields
    BY <2>1, <2>2, <2>6, <2>7
  <2>. QED  BY <1>2, <2>8, BecomesFaulty
<1>. QED  BY <1>3, <1>4

\* A turn that cannot be observed.
LEMMA RunUnobserved ==
    ASSUME BoundsInv, BoundsInv', RunInv, ObserveFails  PROVE RunInv'
<1>1. PICK d : d = Decision(Silence, NoAction, "OBSERVATION_UNAVAILABLE", "NONE", "NONE")
  OBVIOUS
<1>2. /\ pc = "loop" /\ time < EndTick /\ Len(decisions) < MaxDecisions
      /\ Called(decisions) < MaxCalls /\ ~Observes(fits, position)
      /\ pc' = "end" /\ stop' = "OBSERVATION_UNAVAILABLE"
      /\ UNCHANGED <<time, position, events, fits, late>>
      /\ Records(Decision(Silence, NoAction, "OBSERVATION_UNAVAILABLE", "NONE", "NONE"))
  BY TurnBegins DEF ObserveFails, Stops, world
<1>3. CASE Faulty(decisions)
  BY <1>2, <1>3, StaysFaulty
<1>4. CASE ~Faulty(decisions)
  <2>1. Agreed(Run, Now, decisions, failures) /\ DOMAIN Run = Fields
    BY <1>2, <1>4 DEF RunInv
  <2>2. PICK r, w, ds, whole, failed :
            r = Run /\ w = Now /\ ds = decisions /\ whole = fits /\ failed = failures
    OBVIOUS
  <2>3. Continues(r, d) /\ w.position = position /\ w.time = time
    BY <1>1, <1>2, <2>1, <2>2, GoesOn
  <2>4. /\ d.called = FALSE /\ d.answer = Silence /\ d.action = NoAction
        /\ Outcome(d, "OBSERVATION_UNAVAILABLE", "NONE", "NONE")
    BY <1>1 DEF Decision, Outcome
  <2>5. ~Deepening(ds, d) /\ ~Disowning(ds, d)
        /\ {i \in {d.answer.id} : d.answer.text /\ i # Anonymous} = {}
    BY <2>4 DEF Deepening, Disowning, Silence
  <2>6. Agreed(r, w, ds, failed) /\ IsSequence(ds) /\ Append(ds, d) = decisions'
    BY <1>1, <1>2, <2>1, <2>2 DEF BoundsInv, Records
  <2>7. Assessed(whole, r, d) = [r EXCEPT !.ending = "OBSERVATION_UNAVAILABLE"]
    <3>1. r.verdict = "RIGHT" /\ r.world = w
      BY <2>6 DEF Agreed
    <3>2. ~Observes(whole, r.world.position)
      BY <1>2, <2>2, <2>3, <3>1
    <3>. QED  BY <2>3, <2>4, <3>1, <3>2 DEF Assessed
  <2>8. /\ Run' = Assessed(whole, r, d)
        /\ Known(decisions') = Known(decisions)
            \union {i \in {d.answer.id} : d.answer.text /\ i # Anonymous}
        /\ Faulty(decisions') <=>
            Faulty(decisions) \/ Disowning(decisions, d) \/ Deepening(decisions, d)
    BY <1>1, <1>2, <2>2, PassesGrow
  <2>9. ~Faulty(decisions') /\ Known(decisions') = Known(ds)
    BY <1>4, <2>2, <2>5, <2>8
  <2>10. Called(decisions') = Called(ds)
    BY <2>4, <2>6, CalledGrows
  <2>11. PICK x : x = Run'
    OBVIOUS
  <2>12. x = [r EXCEPT !.ending = "OBSERVATION_UNAVAILABLE"]
    BY <2>7, <2>8, <2>11
  <2>13. /\ DOMAIN x = Fields /\ x.ending = "OBSERVATION_UNAVAILABLE" /\ x.verdict = r.verdict
         /\ x.world = r.world /\ x.calls = r.calls /\ x.ids = r.ids /\ x.failures = r.failures
    <3>1. DOMAIN r = Fields
      BY <2>1, <2>2
    <3>. QED  BY <2>12, <3>1 DEF Fields
  <2>14. Now' = w
    BY <1>2, <2>2 DEF Now, World
  <2>15. AfterRead(Run', Now', decisions', failed, "OBSERVATION_UNAVAILABLE")
    BY <2>6, <2>9, <2>10, <2>11, <2>13, <2>14 DEF AfterRead, Agreed
  <2>. QED  BY <1>2, <2>9, <2>15, StaysRight
<1>. QED  BY <1>3, <1>4

\* The end of the loop.
LEMMA RunLeft ==
    ASSUME BoundsInv, RunInv, Leave  PROVE RunInv'
<1>1. /\ pc = "loop" /\ pc' = "end" /\ UNCHANGED <<time, position, events, fits, late, decisions>>
      /\ \/ time >= EndTick /\ stop' = Horizon
         \/ time < EndTick /\ Bound # "NONE" /\ stop' = Bound
  BY DEF Leave, Stops, world
<1>2. PICK r, w, ds, reason : r = Run /\ w = Now /\ ds = decisions /\ reason = stop'
  OBVIOUS
<1>3. Run' = r /\ Now' = w /\ decisions' = ds
  BY <1>1, <1>2 DEF Run, Now
<1>4. DOMAIN r = Fields /\ (Faulty(ds) => r.verdict # "RIGHT") /\ (r.verdict = "LOST" => Deep(ds))
  BY <1>2 DEF RunInv
<1>5. /\ reason # "ENGINE_ERROR" /\ (reason = "WALL_TIMEOUT" => late')
      /\ reason \in {Horizon, "WALL_TIMEOUT", "MAX_DECISIONS", "MAX_PROVIDER_CALLS"}
      /\ time >= EndTick <=> reason = Horizon
      /\ reason = "WALL_TIMEOUT" <=> time < EndTick /\ late
      /\ reason = "MAX_DECISIONS" => Len(ds) >= MaxDecisions
      /\ reason = "MAX_PROVIDER_CALLS" => ~(Len(ds) >= MaxDecisions) /\ Called(ds) >= MaxCalls
  <2>1. time \in Nat
    BY PlacesAssumption DEF BoundsInv
  <2>. QED  BY <1>1, <1>2, <2>1, CallsCounted, PlacesAssumption DEF Bound, Horizon
<1>6. ASSUME ~Faulty(ds)  PROVE Concluded(r, w, ds, reason)
  <2>1. Agreed(r, w, ds, failures)
    BY <1>1, <1>2, <1>6 DEF RunInv
  <2>2. /\ r.verdict = "RIGHT" /\ r.world = w /\ r.calls = Called(ds) /\ r.ending = "NONE"
        /\ r.world.time = time
    BY <1>2, <2>1 DEF Agreed, Now, World
  <2>3. time >= EndTick <=> time = EndTick
    BY PlacesAssumption DEF BoundsInv
  <2>4. reason = EndingOf(r, Len(ds), reason)
    BY <1>5, <2>2, <2>3 DEF EndingOf, Horizon
  <2>. QED  BY <2>2, <2>4 DEF Concluded
<1>. QED  BY <1>1, <1>2, <1>3, <1>4, <1>5, <1>6 DEF RunInv

\* Every step keeps the audit's run in line.
LEMMA RunStep == BoundsInv /\ BoundsInv' /\ UsedInv /\ RunInv /\ [Next]_vars => RunInv'
<1>. SUFFICES ASSUME BoundsInv, BoundsInv', UsedInv, RunInv, [Next]_vars  PROVE RunInv'
  OBVIOUS
<1>1. ASSUME NEW a \in Answers, Ask(a), Accepted(a)  PROVE RunInv'
  <2>1. UNCHANGED <<time, position, events, fits, late, decisions, failures, stop>>
        /\ pc = "loop" /\ pc' = "submit"
    BY <1>1 DEF Ask, Turns, Goes, world
  <2>2. Run' = Run /\ Now' = Now
    BY <2>1 DEF Run, Now
  <2>3. stop = "NONE"
    BY <2>1 DEF BoundsInv
  <2>. QED  BY <2>1, <2>2, <2>3 DEF RunInv
<1>2. CASE WallPasses
  <2>1. UNCHANGED <<time, position, events, fits, decisions, failures, stop, pc>> /\ stop = "NONE"
        /\ pc # "end"
    BY <1>2 DEF WallPasses, world, BoundsInv
  <2>2. Run' = Run /\ Now' = Now
    BY <2>1 DEF Run, Now
  <2>. QED  BY <2>1, <2>2 DEF RunInv
<1>3. CASE UNCHANGED vars
  <2>1. UNCHANGED <<time, position, events, fits, late, decisions, failures, stop, pc>>
    BY <1>3 DEF vars, world
  <2>2. Run' = Run /\ Now' = Now
    BY <2>1 DEF Run, Now
  <2>. QED  BY <2>1, <2>2 DEF RunInv
<1>. QED
  BY <1>1, <1>2, <1>3, RunAsked, RunLeft, RunUnobserved, RunRefused, RunSubmitted, RunEngineFails
  DEF Next

\* What the trial has used up, the audit knows.
LEMMA UsedStep == BoundsInv /\ UsedInv /\ [Next]_vars => UsedInv'
<1>. SUFFICES ASSUME BoundsInv, UsedInv, [Next]_vars  PROVE UsedInv'
  OBVIOUS
<1>1. ASSUME NEW given, NEW action, NEW failure, NEW refusal, NEW receipt, fits' = fits,
             Records(Decision(given, action, failure, refusal, receipt))
      PROVE  Known(decisions') = Known(decisions)
                \union {i \in {given.id} : given.text /\ i # Anonymous}
  <2>1. PICK d : d = Decision(given, action, failure, refusal, receipt)
    OBVIOUS
  <2>2. d.answer = given
    BY <2>1 DEF Decision
  <2>. QED  BY <1>1, <2>1, <2>2, PassesGrow
<1>2. ASSUME NEW a \in Answers, Ask(a)  PROVE UsedInv'
  <2>1. pc = "loop" /\ used' = used \union {i \in {a.id} : UsesId(a)} /\ fits' = fits
    BY <1>2 DEF Ask, Turns
  <2>2. UsesId(a) => a.text /\ a.id # Anonymous
    BY DEF UsesId
  <2>3. CASE Accepted(a)
    <3>1. answer' = a /\ pc' = "submit" /\ UNCHANGED decisions
      BY <1>2, <2>3 DEF Ask, Goes
    <3>. QED  BY <2>1, <2>2, <3>1 DEF UsedInv
  <2>4. CASE ~Accepted(a)
    <3>1. Records(Decision(a, NoAction, "CONTROLLER_ERROR", "NONE", "NONE")) /\ pc' # "submit"
      BY <1>2, <2>1, <2>4 DEF Ask, Counts, Stops, Goes
    <3>2. Known(decisions') = Known(decisions) \union {i \in {a.id} : a.text /\ i # Anonymous}
      BY <1>1, <2>1, <3>1
    <3>. QED  BY <2>1, <2>2, <3>1, <3>2 DEF UsedInv
  <2>. QED  BY <2>3, <2>4
<1>3. CASE Refuse \/ Submit \/ EngineFails
  <2>1. /\ pc = "submit" /\ pc' # "submit" /\ UNCHANGED <<used, fits>>
        /\ \E failure, refusal, receipt :
            Records(Decision(answer, answer.says, failure, refusal, receipt))
    BY <1>3 DEF Refuse, Submit, EngineFails, Counts, Stops, Goes
  <2>2. PICK failure, refusal, receipt :
            Records(Decision(answer, answer.says, failure, refusal, receipt))
    BY <2>1
  <2>3. Known(decisions') = Known(decisions)
            \union {i \in {answer.id} : answer.text /\ i # Anonymous}
    BY <1>1, <2>1, <2>2
  <2>4. answer.text
    BY <2>1 DEF BoundsInv, Ready
  <2>. QED  BY <2>1, <2>3, <2>4 DEF UsedInv
<1>4. CASE ObserveFails
  <2>1. /\ pc = "loop" /\ pc' # "submit" /\ UNCHANGED <<used, fits>>
        /\ Records(Decision(Silence, NoAction, "OBSERVATION_UNAVAILABLE", "NONE", "NONE"))
    BY <1>4 DEF ObserveFails, Turns, Stops
  <2>2. Known(decisions') = Known(decisions)
            \union {i \in {Silence.id} : Silence.text /\ i # Anonymous}
    BY <1>1, <2>1
  <2>. QED  BY <2>1, <2>2 DEF UsedInv
<1>5. CASE Leave
  <2>1. pc = "loop" /\ pc' # "submit" /\ UNCHANGED <<used, decisions>>
    BY <1>5 DEF Leave, Stops
  <2>. QED  BY <2>1 DEF UsedInv
<1>6. CASE WallPasses \/ UNCHANGED vars
  <2>1. UNCHANGED <<used, decisions, pc, answer>>
    BY <1>6 DEF WallPasses, vars
  <2>. QED  BY <2>1 DEF UsedInv
<1>. QED  BY <1>2, <1>3, <1>4, <1>5, <1>6 DEF Next

\* What is executed again comes to where the trial is.
LEMMA ReplayStep == BoundsInv /\ ReplayInv /\ [Next]_vars => ReplayInv'
<1>. SUFFICES ASSUME BoundsInv, ReplayInv, [Next]_vars, stop' # "ENGINE_ERROR"
              PROVE  Again' = Now'
  BY DEF ReplayInv
<1>1. ASSUME NEW given, NEW action, NEW failure, NEW refusal, NEW receipt, fits' = fits, NEW d,
             d = Decision(given, action, failure, refusal, receipt), Records(d)
      PROVE  /\ Again' = IF d.submitted THEN Executed(Again, d.action, d.sequence) ELSE Again
             /\ d.action = action /\ d.sequence = Len(decisions) + 1
             /\ d.submitted <=> receipt # "NONE" \/ (failure = "SUBMISSION_ERROR" /\ refusal = "NONE")
  <2>1. Again' = Resubmitted(Again, d)
    BY <1>1, PassesGrow
  <2>2. /\ d.action = action /\ d.sequence = Len(decisions) + 1
        /\ d.submitted <=> receipt # "NONE" \/ (failure = "SUBMISSION_ERROR" /\ refusal = "NONE")
    BY <1>1 DEF Decision
  <2>. QED  BY <2>1, <2>2 DEF Resubmitted
<1>2. pc # "end" => Again = Now
  BY DEF ReplayInv, BoundsInv
<1>3. CASE Submit
  <2>. DEFINE receipt == Receipt(Now, answer.says)
              v == Executed(Now, answer.says, Len(decisions) + 1)
  <2>1. PICK d : d = Decision(answer, answer.says, "NONE", "NONE", receipt)
    OBVIOUS
  <2>2. /\ pc = "submit" /\ fits' = fits /\ Records(d)
        /\ time' = v.time /\ position' = v.position /\ events' = v.events
    BY <1>3, <2>1 DEF Submit, Becomes
  <2>3. receipt # "NONE"
    BY DEF Receipt
  <2>4. Again' = v
    BY <1>1, <1>2, <2>1, <2>2, <2>3
  <2>5. Now' = v
    BY <2>2, ExecutedWorld DEF Now, World
  <2>. QED  BY <2>4, <2>5
<1>4. ASSUME NEW given, NEW action, NEW failure, NEW refusal,
             Records(Decision(given, action, failure, refusal, "NONE")),
             failure # "SUBMISSION_ERROR" \/ refusal # "NONE",
             pc # "end", UNCHANGED <<time, position, events, fits>>
      PROVE  Again' = Now'
  <2>1. PICK d : d = Decision(given, action, failure, refusal, "NONE")
    OBVIOUS
  <2>2. Again' = Again
    BY <1>1, <1>4, <2>1
  <2>3. Now' = Now
    BY <1>4 DEF Now
  <2>. QED  BY <1>2, <1>4, <2>2, <2>3
<1>5. CASE Refuse
  BY <1>4, <1>5 DEF Refuse, world
<1>6. CASE ObserveFails
  BY <1>4, <1>6 DEF ObserveFails, Turns, world
<1>7. CASE EngineFails
  BY <1>7 DEF EngineFails, Stops
<1>8. ASSUME UNCHANGED <<time, position, events, decisions>>, stop # "ENGINE_ERROR"
      PROVE  Again' = Now'
  <2>1. Again' = Again /\ Now' = Now
    BY <1>8 DEF Again, Now
  <2>. QED  BY <1>8, <2>1 DEF ReplayInv
<1>9. ASSUME NEW a \in Answers, Ask(a)  PROVE Again' = Now'
  <2>1. pc = "loop" /\ UNCHANGED <<time, position, events, fits>> /\ stop = "NONE"
    BY <1>9 DEF Ask, Turns, world, BoundsInv
  <2>2. CASE Accepted(a)
    BY <1>8, <1>9, <2>1, <2>2 DEF Ask
  <2>3. CASE ~Accepted(a)
    BY <1>4, <1>9, <2>1, <2>3 DEF Ask
  <2>. QED  BY <2>2, <2>3
<1>10. CASE Leave \/ WallPasses
  <2>1. UNCHANGED <<time, position, events, decisions>> /\ stop = "NONE"
    BY <1>10 DEF Leave, WallPasses, world, BoundsInv
  <2>. QED  BY <1>8, <2>1
<1>11. CASE UNCHANGED vars
  <2>1. UNCHANGED <<time, position, events, decisions>> /\ stop # "ENGINE_ERROR"
    BY <1>11 DEF vars, world
  <2>. QED  BY <1>8, <2>1
<1>. QED  BY <1>3, <1>5, <1>6, <1>7, <1>9, <1>10, <1>11 DEF Next

\* Nothing is recorded at the start, and the audit has read nothing.
LEMMA AuditInitially == Init => AuditInv
<1>. SUFFICES ASSUME Init  PROVE AuditInv
  OBVIOUS
<1>1. PICK r, w, whole : r = Run /\ w = Again /\ whole = fits
  OBVIOUS
<1>2. decisions = <<>> /\ pc = "loop" /\ stop = "NONE" /\ used = {} /\ failures = 0 /\ whole \in BOOLEAN
  BY <1>1 DEF Init
<1>3. Begins(AuditPass(whole)) = Unread /\ Begins("replay") = Start
  BY <1>2, Zenon DEF Begins, AuditPass
<1>4. r = Unread /\ w = Start
  BY <1>1, <1>2, <1>3, ResultBegins DEF Run, Again
<1>5. Now = Start
  BY DEF Init, Now, Start, World
<1>6. Known(<<>>) = {} /\ ~Faulty(<<>>) /\ ~Deep(<<>>) /\ Called(<<>>) = 0
  BY FS_EmptySet DEF Known, Faulty, Deep, Called
<1>7. DOMAIN r = Fields /\ Agreed(r, Start, <<>>, 0)
  BY <1>4, <1>6 DEF Unread, Reading, Agreed, Fields
<1>8. UsedInv
  BY <1>2 DEF UsedInv
<1>9. ReplayInv
  BY <1>1, <1>4, <1>5 DEF ReplayInv
<1>10. RunInv
  <2>1. r.verdict = "RIGHT"
    BY <1>7 DEF Agreed
  <2>. QED  BY <1>1, <1>2, <1>5, <1>6, <1>7, <2>1 DEF RunInv
<1>. QED  BY <1>8, <1>9, <1>10 DEF AuditInv

\* The inductive invariant of the trial and its audit.
LEMMA AuditInvariance == Spec => [](BoundsInv /\ AuditInv)
<1>1. BoundsInv /\ AuditInv /\ [Next]_vars => (BoundsInv /\ AuditInv)'
  BY BoundsStep, RunStep, UsedStep, ReplayStep DEF AuditInv
<1>. QED  BY <1>1, BoundsInitially, AuditInitially, PTL DEF Spec

\* For any number of decisions, whatever the provider answers and whatever refusals,
\* failures and bounds end the trial: assess_trial includes it exactly when the engine
\* did not raise and it did not act on an answer that the audit takes for one given
\* before, and is lost only over an answer nested too deep.
THEOREM AuditRepeatsTrial == Spec => []AuditFollowsTrial
<1>1. BoundsInv /\ AuditInv => AuditFollowsTrial
  <2>. SUFFICES ASSUME BoundsInv, AuditInv, stop # "NONE"
                PROVE  /\ Inclusion = "INCLUDED" <=>
                            /\ stop # "ENGINE_ERROR"
                            /\ \A i \in DOMAIN decisions : ~Disowned(i) /\ ~Bottomless(i)
                       /\ Inclusion = "LOST" => \E i \in DOMAIN decisions : Bottomless(i)
    BY DEF AuditFollowsTrial
  <2>1. (\A i \in DOMAIN decisions : ~Disowned(i) /\ ~Bottomless(i)) <=> ~Faulty(decisions)
    BY DEF Faulty, Disowned, Bottomless, DisownedIn, BottomlessIn, Repeated, RepeatedIn
  <2>2. (\E i \in DOMAIN decisions : Bottomless(i)) <=> Deep(decisions)
    BY DEF Deep, Bottomless, BottomlessIn, Repeated, RepeatedIn
  <2>3. pc = "end"
    BY DEF BoundsInv
  <2>4. /\ FoldLeft(LAMBDA x, d : Assessed(fits, x, d), Unread, decisions) = Run
        /\ Replayed = Again
    BY FoldsAre DEF Run, Again, Replayed, BoundsInv
  <2>5. PICK r : r = Run
    OBVIOUS
  <2>6. Inclusion = IF ~ReplayEqual THEN "EXCLUDED"
                    ELSE IF r.verdict = "LOST" THEN "LOST"
                    ELSE IF /\ r.verdict = "RIGHT" /\ r.calls = Calls
                            /\ stop = "WALL_TIMEOUT" => late
                            /\ stop = Ending(r) /\ r.world = Now
                    THEN "INCLUDED" ELSE "EXCLUDED"
    BY <2>4, <2>5, Zenon DEF Inclusion
  <2>7. Ending(r) = EndingOf(r, Len(decisions), stop)
    BY DEF Ending, EndingOf
  <2>8. stop # "ENGINE_ERROR" => ReplayEqual
    <3>. SUFFICES ASSUME stop # "ENGINE_ERROR"  PROVE ReplayEqual
      OBVIOUS
    <3>1. Replayed = Now
      BY <2>4 DEF AuditInv, ReplayInv
    <3>2. Now.time = time /\ Now.position = position /\ Now.events = events
      BY DEF Now, World
    <3>3. time <= time
      BY PlacesAssumption DEF BoundsInv
    <3>. QED  BY <3>1, <3>2, <3>3 DEF ReplayEqual
  <2>9. CASE Faulty(decisions) \/ stop = "ENGINE_ERROR"
    <3>1. r.verdict # "RIGHT" /\ (r.verdict = "LOST" => Deep(decisions))
      BY <2>5, <2>9 DEF AuditInv, RunInv
    <3>. QED  BY <2>1, <2>2, <2>6, <2>9, <3>1
  <2>10. CASE ~Faulty(decisions) /\ stop # "ENGINE_ERROR"
    <3>1. Concluded(r, Now, decisions, stop) /\ (stop = "WALL_TIMEOUT" => late)
      BY <2>3, <2>5, <2>10 DEF AuditInv, RunInv
    <3>2. r.verdict = "RIGHT" /\ r.calls = Calls /\ stop = Ending(r) /\ r.world = Now
      BY <2>7, <3>1, CallsCounted DEF Concluded
    <3>. QED  BY <2>1, <2>6, <2>8, <2>10, <3>1, <3>2
  <2>. QED  BY <2>9, <2>10
<1>. QED  BY <1>1, AuditInvariance, PTL

-----------------------------------------------------------------------------
(* The metrics.  What summarize has counted after any number of moves is   *)
(* what they contain; it is shown for one move more at a time.             *)

ArrivalsIn(s, t) == {i \in DOMAIN s : s[i].to = t}
VisitsIn(s) == {i \in DOMAIN s : s[i].to \in Targets}

\* Nothing but other places after the i-th arrival and before the j-th.
Elsewhere(s, K) == \A k \in K : s[k].to \notin Targets \union {Square}
Undisturbed(s, i, j) == Elsewhere(s, (i + 1)..(j - 1))

ReturnsIn(s, t, j) ==
    j \in ArrivalsIn(s, Square) /\ \E i \in ArrivalsIn(s, t) : i < j /\ Undisturbed(s, i, j)

Awaited(s, t) == \E i \in ArrivalsIn(s, t) : Undisturbed(s, i, Len(s) + 1)

Back(s, t, j) == \E k \in 1..j : ReturnsIn(s, t, k)

DoneIn(s) == {j \in DOMAIN s : \A t \in Targets : Back(s, t, j)}

\* The sequence t is s with e after it.
OneMore(t, s, e, n) ==
    /\ n \in Nat /\ Len(s) = n /\ Len(t) = n + 1
    /\ DOMAIN s = 1..n /\ DOMAIN t = 1..(n + 1)
    /\ t[n + 1] = e /\ \A i \in 1..n : t[i] = s[i]

\* One move more is one arrival more.
LEMMA ArrivalsGrow ==
    ASSUME NEW s, NEW e, NEW t, NEW n, OneMore(t, s, e, n), NEW x
    PROVE  /\ ArrivalsIn(s, x) \subseteq 1..n
           /\ e.to = x => ArrivalsIn(t, x) = ArrivalsIn(s, x) \union {n + 1}
           /\ e.to # x => ArrivalsIn(t, x) = ArrivalsIn(s, x)
           /\ e.to \in Targets => VisitsIn(t) = VisitsIn(s) \union {n + 1}
           /\ e.to \notin Targets => VisitsIn(t) = VisitsIn(s)
           /\ VisitsIn(s) \subseteq 1..n
BY DEF OneMore, ArrivalsIn, VisitsIn

\* What lies between two earlier arrivals stays.
LEMMA UndisturbedStays ==
    ASSUME NEW s, NEW e, NEW t, NEW n, OneMore(t, s, e, n), NEW i \in 1..n
    PROVE  /\ \A j \in 1..(n + 1) : Undisturbed(t, i, j) <=> Undisturbed(s, i, j)
           /\ Undisturbed(t, i, n + 2)
                <=> Undisturbed(s, i, n + 1) /\ e.to \notin Targets \union {Square}
<1>1. \A j \in 1..(n + 1) : \A k \in (i + 1)..(j - 1) : k \in 1..n
  BY DEF OneMore
<1>2. ASSUME NEW j \in 1..(n + 1)  PROVE Undisturbed(t, i, j) <=> Undisturbed(s, i, j)
  <2>1. \A k \in (i + 1)..(j - 1) : t[k] = s[k]
    BY <1>1 DEF OneMore
  <2>. QED  BY <2>1, Zenon DEF Undisturbed, Elsewhere
<1>3. /\ (i + 1)..((n + 2) - 1) = ((i + 1)..((n + 1) - 1)) \union {n + 1}
      /\ n + 1 \in 1..(n + 1) /\ t[n + 1] = e
  BY DEF OneMore
<1>4. Undisturbed(t, i, n + 2)
        <=> Undisturbed(t, i, n + 1) /\ e.to \notin Targets \union {Square}
  <2>. PICK U, V : U = (i + 1)..((n + 2) - 1) /\ V = (i + 1)..((n + 1) - 1)
    OBVIOUS
  <2>1. U = V \union {n + 1} /\ t[n + 1] = e
    BY <1>3
  <2>2. (Undisturbed(t, i, n + 2) <=> Elsewhere(t, U)) /\ (Undisturbed(t, i, n + 1) <=> Elsewhere(t, V))
    BY DEF Undisturbed
  <2>3. \A k : k \in U <=> k \in V \/ k = n + 1
    BY <2>1
  <2>4. Elsewhere(t, U) <=> Elsewhere(t, V) /\ e.to \notin Targets \union {Square}
    BY <2>1, <2>3, Zenon DEF Elsewhere
  <2>. QED  BY <2>2, <2>4
<1>. QED  BY <1>2, <1>3, <1>4

\* One move more completes what it comes back from.
LEMMA ReturnsGrow ==
    ASSUME NEW s, NEW e, NEW t, NEW n, OneMore(t, s, e, n), NEW x \in Targets
    PROVE  /\ \A j \in 1..n : ReturnsIn(t, x, j) <=> ReturnsIn(s, x, j)
           /\ ReturnsIn(t, x, n + 1) <=> e.to = Square /\ Awaited(s, x)
           /\ Awaited(t, x) <=> \/ e.to = x
                                \/ Awaited(s, x) /\ e.to \notin Targets \union {Square}
<1>1. x # Square /\ n \in Nat /\ Len(s) = n /\ Len(t) = n + 1
  BY PlacesAssumption DEF OneMore
<1>2. /\ ArrivalsIn(s, x) \subseteq 1..n /\ ArrivalsIn(s, Square) \subseteq 1..n
      /\ \A i : i \in ArrivalsIn(t, x) <=> i \in ArrivalsIn(s, x) \/ (e.to = x /\ i = n + 1)
      /\ \A i : i \in ArrivalsIn(t, Square)
                    <=> i \in ArrivalsIn(s, Square) \/ (e.to = Square /\ i = n + 1)
  <2>1. ASSUME NEW y
        PROVE  /\ ArrivalsIn(s, y) \subseteq 1..n
               /\ \A i : i \in ArrivalsIn(t, y)
                            <=> i \in ArrivalsIn(s, y) \/ (e.to = y /\ i = n + 1)
    <3>1. /\ ArrivalsIn(s, y) \subseteq 1..n
          /\ e.to = y => ArrivalsIn(t, y) = ArrivalsIn(s, y) \union {n + 1}
          /\ e.to # y => ArrivalsIn(t, y) = ArrivalsIn(s, y)
      BY ArrivalsGrow
    <3>. QED  BY <3>1
  <2>. QED  BY <2>1
<1>3. \A i \in 1..n : /\ \A j \in 1..(n + 1) : Undisturbed(t, i, j) <=> Undisturbed(s, i, j)
                      /\ Undisturbed(t, i, n + 2)
                            <=> Undisturbed(s, i, n + 1) /\ e.to \notin Targets \union {Square}
  BY UndisturbedStays
<1>4. ASSUME NEW j \in 1..n  PROVE ReturnsIn(t, x, j) <=> ReturnsIn(s, x, j)
  <2>1. j # n + 1 /\ ~(n + 1 < j) /\ j \in 1..(n + 1)
    BY <1>1
  <2>. QED  BY <1>2, <1>3, <2>1 DEF ReturnsIn
<1>5. ReturnsIn(t, x, n + 1) <=> e.to = Square /\ Awaited(s, x)
  <2>1. /\ n + 1 \notin 1..n /\ ~(n + 1 < n + 1) /\ \A i \in 1..n : i < n + 1
        /\ n + 1 \in 1..(n + 1)
    BY <1>1
  <2>2. n + 1 \in ArrivalsIn(t, Square) <=> e.to = Square
    BY <1>2, <2>1
  <2>3. \A i \in ArrivalsIn(s, x) :
            i < n + 1 /\ (Undisturbed(t, i, n + 1) <=> Undisturbed(s, i, Len(s) + 1))
    BY <1>1, <1>2, <1>3, <2>1
  <2>4. \A i : i \in ArrivalsIn(t, x) /\ i < n + 1 <=> i \in ArrivalsIn(s, x)
    BY <1>2, <2>1
  <2>. QED  BY <2>2, <2>3, <2>4 DEF ReturnsIn, Awaited
<1>6. Awaited(t, x) <=> \/ e.to = x
                        \/ Awaited(s, x) /\ e.to \notin Targets \union {Square}
  <2>1. Undisturbed(t, n + 1, n + 2)
    BY <1>1 DEF Undisturbed, Elsewhere
  <2>2. Len(t) + 1 = n + 2 /\ Len(s) + 1 = n + 1
    BY <1>1
  <2>3. \A i \in ArrivalsIn(s, x) :
            Undisturbed(t, i, n + 2)
                <=> Undisturbed(s, i, n + 1) /\ e.to \notin Targets \union {Square}
    BY <1>2, <1>3
  <2>4. Awaited(t, x) <=> \E i \in ArrivalsIn(t, x) : Undisturbed(t, i, n + 2)
    BY <2>2, Zenon DEF Awaited
  <2>5. Awaited(s, x) <=> \E i \in ArrivalsIn(s, x) : Undisturbed(s, i, n + 1)
    BY <2>2, Zenon DEF Awaited
  <2>. QED  BY <1>2, <2>1, <2>3, <2>4, <2>5
<1>. QED  BY <1>4, <1>5, <1>6

\* Who has come back from a target has come back from it.
LEMMA BackGrows ==
    ASSUME NEW s, NEW e, NEW t, NEW n, OneMore(t, s, e, n), NEW x \in Targets
    PROVE  /\ \A j \in 1..n : Back(t, x, j) <=> Back(s, x, j)
           /\ Back(t, x, n + 1) <=> Back(s, x, n) \/ (e.to = Square /\ Awaited(s, x))
           /\ \A j \in 1..n : Back(s, x, j) => Back(s, x, n)
<1>1. /\ \A j \in 1..n : ReturnsIn(t, x, j) <=> ReturnsIn(s, x, j)
      /\ ReturnsIn(t, x, n + 1) <=> e.to = Square /\ Awaited(s, x)
  BY ReturnsGrow
<1>2. /\ n \in Nat /\ 1..(n + 1) = (1..n) \union {n + 1}
      /\ \A j \in 1..n : \A k \in 1..j : k \in 1..n
  BY DEF OneMore
<1>. QED  BY <1>1, <1>2 DEF Back

\* When the task is done.
LEMMA DoneGrows ==
    ASSUME NEW s, NEW e, NEW t, NEW n, OneMore(t, s, e, n)
    PROVE  /\ DoneIn(s) \subseteq 1..n
           /\ DoneIn(s) # {} <=> \A x \in Targets : Back(s, x, n)
           /\ DoneIn(t) = DoneIn(s) \union
                {j \in {n + 1} : \A x \in Targets :
                                    Back(s, x, n) \/ (e.to = Square /\ Awaited(s, x))}
<1>1. /\ n \in Nat /\ DOMAIN s = 1..n /\ DOMAIN t = 1..(n + 1)
      /\ 1..(n + 1) = (1..n) \union {n + 1} /\ n + 1 \notin 1..n
  BY DEF OneMore
<1>2. \A x \in Targets :
        /\ \A j \in 1..n : Back(t, x, j) <=> Back(s, x, j)
        /\ Back(t, x, n + 1) <=> Back(s, x, n) \/ (e.to = Square /\ Awaited(s, x))
        /\ \A j \in 1..n : Back(s, x, j) => Back(s, x, n)
  BY BackGrows
<1>3. ASSUME \A x \in Targets : Back(s, x, n)  PROVE n \in DoneIn(s)
  <2>1. PICK x \in Targets : Back(s, x, n)
    BY <1>3, PlacesAssumption
  <2>2. 1..n # {}
    BY <2>1 DEF Back
  <2>3. n \in 1..n
    BY <1>1, <2>2
  <2>. QED  BY <1>1, <1>3, <2>3 DEF DoneIn
<1>4. DoneIn(s) \subseteq 1..n /\ \A j \in DoneIn(s), x \in Targets : Back(s, x, n)
  BY <1>1, <1>2 DEF DoneIn
<1>5. \A j : j \in DoneIn(t) <=>
                \/ j \in DoneIn(s)
                \/ j = n + 1 /\ \A x \in Targets :
                                    Back(s, x, n) \/ (e.to = Square /\ Awaited(s, x))
  BY <1>1, <1>2 DEF DoneIn
<1>. QED  BY <1>3, <1>4, <1>5

(***************************************************************************)
(* The repeats, summed over the targets in some order that nothing fixes.  *)
(* The sum counts a pile in which every target lies as often as it was     *)
(* visited again.                                                          *)
(***************************************************************************)

Excess(c, t) == IF c[t] > 1 THEN c[t] - 1 ELSE 0

Repeats(S, c) == MapThenSumSet(LAMBDA t : IF c[t] > 1 THEN c[t] - 1 ELSE 0, S)

Pile(S, c) == {p \in S \X Nat : 1 <= p[2] /\ p[2] <= Excess(c, p[1])}

Amounts(S, c) == IsFiniteSet(S) /\ \A x \in S : Excess(c, x) \in Nat

\* The pile of one element is as high as its amount.
LEMMA PileOfOne ==
    ASSUME NEW x, NEW c, Excess(c, x) \in Nat
    PROVE  IsFiniteSet(Pile({x}, c)) /\ Cardinality(Pile({x}, c)) = Excess(c, x)
<1>1. PICK n \in Nat : n = Excess(c, x)
  OBVIOUS
<1>2. Pile({x}, c) = {x} \X (1..n)
  BY <1>1 DEF Pile
<1>3. IsFiniteSet(1..n) /\ Cardinality(1..n) = n
  BY FS_Interval
<1>4. IsFiniteSet({x}) /\ Cardinality({x}) = 1
  BY FS_Singleton
<1>5. IsFiniteSet({x} \X (1..n)) /\ Cardinality({x} \X (1..n)) = 1 * n
  BY <1>3, <1>4, FS_Product
<1>6. 1 * n = n
  OBVIOUS
<1>. QED  BY <1>1, <1>2, <1>5, <1>6, Zenon

\* The pile of a finite set is finite.
LEMMA PileFinite ==
    ASSUME NEW S, NEW c, Amounts(S, c)
    PROVE  IsFiniteSet(Pile(S, c))
<1>. DEFINE T == {Pile({x}, c) : x \in S}
            f == [x \in S |-> Pile({x}, c)]
<1>1. IsFiniteSet(T)
  <2>1. f \in Surjection(S, T)
    BY DEF Surjection
  <2>2. IsFiniteSet(S)
    BY DEF Amounts
  <2>. HIDE DEF f, T
  <2>. QED  BY <2>1, <2>2, FS_Surjection
<1>2. \A t \in T : IsFiniteSet(t)
  BY PileOfOne DEF Amounts
<1>3. Pile(S, c) = UNION T
  <2>1. ASSUME NEW p  PROVE p \in Pile(S, c) <=> \E x \in S : p \in Pile({x}, c)
    BY DEF Pile
  <2>. QED  BY <2>1
<1>. HIDE DEF T
<1>. QED  BY <1>1, <1>2, <1>3, FS_UNION

\* An element more makes the pile as much higher as its amount.
LEMMA PileGrows ==
    ASSUME NEW S, NEW c, Amounts(S, c), NEW x, x \notin S, Excess(c, x) \in Nat
    PROVE  /\ Cardinality(Pile(S, c)) \in Nat
           /\ Cardinality(Pile(S \union {x}, c)) = Cardinality(Pile(S, c)) + Excess(c, x)
<1>1. IsFiniteSet(Pile(S, c)) /\ IsFiniteSet(Pile({x}, c))
      /\ Cardinality(Pile({x}, c)) = Excess(c, x)
  BY PileFinite, PileOfOne
<1>2. Pile(S \union {x}, c) = Pile(S, c) \union Pile({x}, c)
  BY DEF Pile
<1>3. Pile(S, c) \intersect Pile({x}, c) = {}
  BY DEF Pile
<1>4. PICK low, high : low = Pile(S, c) /\ high = Pile({x}, c)
  OBVIOUS
<1>5. Cardinality({}) = 0 /\ Cardinality(low) \in Nat /\ Cardinality(high) \in Nat
  BY <1>1, <1>4, FS_EmptySet, FS_CardinalityType
<1>6. IsFiniteSet(low) /\ IsFiniteSet(high) /\ low \intersect high = {}
  BY <1>1, <1>3, <1>4
<1>7. Cardinality(low \union high)
        = Cardinality(low) + Cardinality(high) - Cardinality(low \intersect high)
  BY <1>6, FS_Union
<1>8. Cardinality(low \union high) = Cardinality(low) + Cardinality(high)
  <2>1. Cardinality(low \intersect high) = 0
    BY <1>5, <1>6, Zenon
  <2>2. Cardinality(low) + Cardinality(high) - 0 = Cardinality(low) + Cardinality(high)
    BY <1>5
  <2>. QED  BY <1>7, <2>1, <2>2, Zenon
<1>. QED  BY <1>1, <1>2, <1>4, <1>5, <1>8, Zenon

\* The recursion of the sum over the subsets of a set, read as an equation.
Picked(s) == CHOOSE x \in s : TRUE

Sums(S, c, f) ==
    f = [s \in SUBSET S |->
            IF s = {} THEN 0 ELSE Excess(c, Picked(s)) + f[s \ {Picked(s)}]]

\* The sum is the value, for the whole set, of a function that solves it.
LEMMA SumUnrolled ==
    ASSUME NEW S, NEW c  PROVE Repeats(S, c) = (CHOOSE f : Sums(S, c, f))[S]
BY Zenon DEF Repeats, Excess, MapThenSumSet, MapThenFoldSet, Sums, Picked

\* One element fewer, of a subset that has one.
LEMMA PickedLeft ==
    ASSUME NEW S, NEW c, Amounts(S, c), NEW s \in SUBSET S, s # {}
    PROVE  /\ Picked(s) \in s /\ s \ {Picked(s)} \in SUBSET S
           /\ Excess(c, Picked(s)) \in Nat
           /\ Cardinality(s) \in Nat /\ Cardinality(s \ {Picked(s)}) \in Nat
           /\ Cardinality(s \ {Picked(s)}) < Cardinality(s)
           /\ Cardinality(Pile(s, c))
                = Excess(c, Picked(s)) + Cardinality(Pile(s \ {Picked(s)}, c))
<1>. DEFINE x == Picked(s)
            t == s \ {x}
<1>1. x \in s
  BY DEF Picked
<1>. HIDE DEF x
<1>2. t \in SUBSET S /\ Excess(c, x) \in Nat /\ s = t \union {x} /\ x \notin t
  BY <1>1 DEF Amounts
<1>3. IsFiniteSet(s) /\ IsFiniteSet(t)
  BY <1>2, FS_Subset DEF Amounts
<1>4. Amounts(t, c)
  BY <1>2, <1>3 DEF Amounts
<1>5. Cardinality(s) \in Nat /\ Cardinality(t) \in Nat
  BY <1>3, FS_CardinalityType
<1>6. Cardinality(s) = Cardinality(t) + 1
  <2>1. Cardinality(t \union {x}) = Cardinality(t) + 1
    BY <1>2, <1>3, FS_AddElement
  <2>. QED  BY <1>2, <2>1
<1>7. Cardinality(Pile(t \union {x}, c)) = Cardinality(Pile(t, c)) + Excess(c, x)
      /\ Cardinality(Pile(t, c)) \in Nat
  BY <1>2, <1>4, PileGrows
<1>8. Cardinality(Pile(s, c)) = Excess(c, x) + Cardinality(Pile(t, c))
  <2>1. Cardinality(Pile(s, c)) = Cardinality(Pile(t \union {x}, c))
    BY <1>2, Zenon
  <2>2. PICK n, m : n = Cardinality(Pile(t, c)) /\ m = Excess(c, x)
    OBVIOUS
  <2>3. n \in Nat /\ m \in Nat
    BY <1>2, <1>7, <2>2, Zenon
  <2>4. n + m = m + n
    BY <2>3
  <2>. QED  BY <1>7, <2>1, <2>2, <2>4, Zenon
<1>. QED  BY <1>1, <1>2, <1>5, <1>6, <1>8 DEF x

\* The pile of nothing is empty.
LEMMA PileOfNone == ASSUME NEW c  PROVE Cardinality(Pile({}, c)) = 0
<1>1. Pile({}, c) = {}
  BY DEF Pile
<1>. QED  BY <1>1, FS_EmptySet

\* A sum counts the pile.
LEMMA SumIsPile ==
    ASSUME NEW S, NEW c, Amounts(S, c)
    PROVE  Repeats(S, c) = Cardinality(Pile(S, c))
<1>. DEFINE G == [s \in SUBSET S |-> Cardinality(Pile(s, c))]
            F == CHOOSE f : Sums(S, c, f)
<1>1. Sums(S, c, G)
  <2>. DEFINE E == [s \in SUBSET S |->
                        IF s = {} THEN 0 ELSE Excess(c, Picked(s)) + G[s \ {Picked(s)}]]
  <2>1. ASSUME NEW s \in SUBSET S
        PROVE  Cardinality(Pile(s, c))
                 = IF s = {} THEN 0 ELSE Excess(c, Picked(s)) + G[s \ {Picked(s)}]
    <3>1. CASE s = {}
      BY <3>1, PileOfNone
    <3>2. CASE s # {}
      <4>1. s \ {Picked(s)} \in SUBSET S
            /\ Cardinality(Pile(s, c))
                 = Excess(c, Picked(s)) + Cardinality(Pile(s \ {Picked(s)}, c))
        BY <3>2, PickedLeft
      <4>2. G[s \ {Picked(s)}] = Cardinality(Pile(s \ {Picked(s)}, c))
        BY <4>1
      <4>. HIDE DEF G
      <4>. QED  BY <3>2, <4>1, <4>2
    <3>. QED  BY <3>1, <3>2
  <2>2. G = E
    BY <2>1
  <2>. QED  BY <2>2, Zenon DEF Sums
<1>. HIDE DEF G
<1>2. Sums(S, c, F)
  BY <1>1, Zenon
<1>. HIDE DEF F
<1>3. \A s \in SUBSET S :
        F[s] = IF s = {} THEN 0 ELSE Excess(c, Picked(s)) + F[s \ {Picked(s)}]
  BY <1>2, Zenon DEF Sums
<1>4. ASSUME NEW s \in SUBSET S  PROVE F[s] = Cardinality(Pile(s, c))
  <2>. DEFINE wrong == {n \in Nat : \E t \in SUBSET S :
                            Cardinality(t) = n /\ F[t] # Cardinality(Pile(t, c))}
  <2>1. Cardinality(s) \in Nat
    BY FS_Subset, FS_CardinalityType DEF Amounts
  <2>2. SUFFICES ASSUME wrong # {}  PROVE FALSE
    BY <2>1
  <2>3. PICK n \in wrong : \A k \in wrong : n <= k
    <3>1. wrong \in SUBSET Nat /\ wrong # {}
      BY <2>2
    <3>. HIDE DEF wrong
    <3>. QED  BY <3>1, LeastNumber
  <2>4. PICK t \in SUBSET S : Cardinality(t) = n /\ F[t] # Cardinality(Pile(t, c))
    BY <2>3
  <2>5. CASE t = {}
    <3>1. F[t] = 0
      BY <1>3, <2>5
    <3>. QED  BY <2>4, <2>5, <3>1, PileOfNone
  <2>6. CASE t # {}
    <3>. DEFINE u == t \ {Picked(t)}
    <3>1. /\ u \in SUBSET S /\ Cardinality(u) \in Nat /\ Cardinality(u) < Cardinality(t)
          /\ Cardinality(Pile(t, c)) = Excess(c, Picked(t)) + Cardinality(Pile(u, c))
      BY <2>6, PickedLeft
    <3>2. F[t] = Excess(c, Picked(t)) + F[u]
      BY <1>3, <2>6
    <3>. HIDE DEF u
    <3>3. F[u] # Cardinality(Pile(u, c))
      BY <2>4, <3>1, <3>2
    <3>4. Cardinality(u) \in wrong
      BY <3>1, <3>3
    <3>5. Cardinality(u) < n /\ n \in Nat
      BY <2>3, <2>4, <3>1
    <3>. HIDE DEF wrong
    <3>6. n <= Cardinality(u)
      BY <2>3, <3>4
    <3>. QED  BY <3>1, <3>5, <3>6
  <2>. QED  BY <2>5, <2>6
<1>5. Repeats(S, c) = F[S]
  BY SumUnrolled DEF F
<1>. QED  BY <1>4, <1>5

(***************************************************************************)
(* The counts.                                                             *)
(***************************************************************************)

CountsAre(s, c) ==
    /\ c \in [Targets -> Nat]
    /\ \A x \in Targets : /\ c[x] = 0 <=> ArrivalsIn(s, x) = {}
                          /\ c[x] <= 1 <=> \A i, k \in ArrivalsIn(s, x) : i = k

ReachedIn(s) == {x \in Targets : ArrivalsIn(s, x) # {}}

VisitsCounted(s, c) ==
    Cardinality(VisitsIn(s)) = Cardinality(Pile(Targets, c)) + Cardinality(ReachedIn(s))

Once(c, y) == [c EXCEPT ![y] = @ + 1]

\* A move to no target leaves the counts true.
LEMMA UncountedStays ==
    ASSUME NEW s, NEW e, NEW t, NEW n, OneMore(t, s, e, n), e.to \notin Targets,
           NEW c, CountsAre(s, c), VisitsCounted(s, c)
    PROVE  CountsAre(t, c) /\ VisitsCounted(t, c) /\ ReachedIn(t) = ReachedIn(s)
<1>1. ASSUME NEW x \in Targets  PROVE ArrivalsIn(t, x) = ArrivalsIn(s, x)
  <2>1. e.to # x
    OBVIOUS
  <2>. QED  BY <2>1, ArrivalsGrow
<1>2. VisitsIn(t) = VisitsIn(s)
  BY ArrivalsGrow
<1>3. ReachedIn(t) = ReachedIn(s)
  BY <1>1 DEF ReachedIn
<1>4. CountsAre(t, c)
  <2>1. ASSUME NEW x \in Targets
        PROVE  /\ c[x] = 0 <=> ArrivalsIn(t, x) = {}
               /\ c[x] <= 1 <=> \A i, k \in ArrivalsIn(t, x) : i = k
    <3>1. /\ c[x] = 0 <=> ArrivalsIn(s, x) = {}
          /\ c[x] <= 1 <=> \A i, k \in ArrivalsIn(s, x) : i = k
      BY Zenon DEF CountsAre
    <3>. QED  BY <1>1, <3>1, Zenon
  <2>. QED  BY <2>1, Zenon DEF CountsAre
<1>. QED  BY <1>2, <1>3, <1>4 DEF VisitsCounted

\* A move to a target is counted.
LEMMA CountsGrow ==
    ASSUME NEW s, NEW e, NEW t, NEW n, OneMore(t, s, e, n), e.to \in Targets,
           NEW c, CountsAre(s, c)
    PROVE  CountsAre(t, Once(c, e.to))
<1>1. PICK y \in Targets : y = e.to
  OBVIOUS
<1>2. /\ c \in [Targets -> Nat] /\ Once(c, y) \in [Targets -> Nat]
      /\ Once(c, y)[y] = c[y] + 1 /\ c[y] \in Nat
      /\ \A x \in Targets : x # y => Once(c, y)[x] = c[x]
  BY DEF CountsAre, Once
<1>3. ASSUME NEW x \in Targets, x # y
      PROVE  /\ Once(c, y)[x] = 0 <=> ArrivalsIn(t, x) = {}
             /\ Once(c, y)[x] <= 1 <=> \A i, k \in ArrivalsIn(t, x) : i = k
  <2>1. ArrivalsIn(t, x) = ArrivalsIn(s, x) /\ Once(c, y)[x] = c[x]
    BY <1>1, <1>2, <1>3, ArrivalsGrow
  <2>2. /\ c[x] = 0 <=> ArrivalsIn(s, x) = {}
        /\ c[x] <= 1 <=> \A i, k \in ArrivalsIn(s, x) : i = k
    BY Zenon DEF CountsAre
  <2>. QED  BY <2>1, <2>2, Zenon
<1>4. /\ Once(c, y)[y] = 0 <=> ArrivalsIn(t, y) = {}
      /\ Once(c, y)[y] <= 1 <=> \A i, k \in ArrivalsIn(t, y) : i = k
  <2>1. ArrivalsIn(t, y) = ArrivalsIn(s, y) \union {n + 1} /\ ArrivalsIn(s, y) \subseteq 1..n
    BY <1>1, ArrivalsGrow
  <2>2. n + 1 \notin 1..n
    BY DEF OneMore
  <2>3. c[y] = 0 <=> ArrivalsIn(s, y) = {}
    BY Zenon DEF CountsAre
  <2>4. (\A i, k \in ArrivalsIn(t, y) : i = k) <=> ArrivalsIn(s, y) = {}
    BY <2>1, <2>2
  <2>5. Once(c, y)[y] # 0 /\ (Once(c, y)[y] <= 1 <=> c[y] = 0)
    BY <1>2
  <2>. QED  BY <2>1, <2>3, <2>4, <2>5
<1>5. \A x \in Targets : /\ Once(c, y)[x] = 0 <=> ArrivalsIn(t, x) = {}
                         /\ Once(c, y)[x] <= 1 <=> \A i, k \in ArrivalsIn(t, x) : i = k
  BY <1>3, <1>4, Zenon
<1>. QED  BY <1>1, <1>2, <1>5, Zenon DEF CountsAre

\* The pile of the repeats is as finite as the village.
LEMMA RepeatsFinite ==
    ASSUME NEW c, c \in [Targets -> Nat]
    PROVE  Amounts(Targets, c) /\ IsFiniteSet(Pile(Targets, c))
<1>1. Amounts(Targets, c)
  <2>1. \A x \in Targets : Excess(c, x) \in Nat
    BY DEF Excess
  <2>. QED  BY <2>1, PlacesAssumption DEF Amounts
<1>. QED  BY <1>1, PileFinite

\* A visit more puts a target that was visited before onto the pile once more.
LEMMA PileOnce ==
    ASSUME NEW c, c \in [Targets -> Nat], NEW y \in Targets
    PROVE  /\ c[y] = 0 => Pile(Targets, Once(c, y)) = Pile(Targets, c)
           /\ c[y] # 0 => /\ Pile(Targets, Once(c, y)) = Pile(Targets, c) \union {<<y, c[y]>>}
                          /\ <<y, c[y]>> \notin Pile(Targets, c)
<1>1. /\ \A x \in Targets : c[x] \in Nat /\ Once(c, y)[x] = IF x = y THEN c[x] + 1 ELSE c[x]
  BY DEF Once
<1>2. \A x \in Targets : Excess(Once(c, y), x)
                            = IF x = y /\ c[y] # 0 THEN Excess(c, x) + 1 ELSE Excess(c, x)
  BY <1>1 DEF Excess
<1>3. c[y] # 0 => Excess(c, y) + 1 = c[y]
  BY <1>1 DEF Excess
<1>4. \A x \in Targets : Excess(c, x) \in Nat
  BY <1>1 DEF Excess
<1>5. ASSUME c[y] = 0  PROVE Pile(Targets, Once(c, y)) = Pile(Targets, c)
  BY <1>2, <1>5 DEF Pile
<1>6. ASSUME c[y] # 0
      PROVE  /\ Pile(Targets, Once(c, y)) = Pile(Targets, c) \union {<<y, c[y]>>}
             /\ <<y, c[y]>> \notin Pile(Targets, c)
  <2>1. ASSUME NEW x \in Targets, NEW k \in Nat
        PROVE  <<x, k>> \in Pile(Targets, Once(c, y))
                <=> <<x, k>> \in Pile(Targets, c) \/ (x = y /\ k = c[y])
    <3>1. <<x, k>> \in Pile(Targets, Once(c, y)) <=> 1 <= k /\ k <= Excess(Once(c, y), x)
      BY DEF Pile
    <3>2. <<x, k>> \in Pile(Targets, c) <=> 1 <= k /\ k <= Excess(c, x)
      BY DEF Pile
    <3>3. CASE x = y
      BY <1>1, <1>2, <1>3, <1>4, <1>6, <3>1, <3>2, <3>3
    <3>4. CASE x # y
      BY <1>2, <3>1, <3>2, <3>4
    <3>. QED  BY <3>3, <3>4
  <2>2. <<y, c[y]>> \notin Pile(Targets, c)
    BY <1>1, <1>3, <1>4, <1>6 DEF Pile
  <2>3. Pile(Targets, Once(c, y)) \subseteq Targets \X Nat /\ Pile(Targets, c) \subseteq Targets \X Nat
        /\ <<y, c[y]>> \in Targets \X Nat
    BY <1>1 DEF Pile
  <2>4. ASSUME NEW p  PROVE p \in Pile(Targets, Once(c, y))
                                <=> p \in Pile(Targets, c) \union {<<y, c[y]>>}
    <3>1. CASE p \in Targets \X Nat
      <4>1. PICK x \in Targets, k \in Nat : p = <<x, k>>
        BY <3>1
      <4>2. p = <<y, c[y]>> <=> x = y /\ k = c[y]
        BY <4>1
      <4>. QED  BY <2>1, <4>1, <4>2
    <3>2. CASE p \notin Targets \X Nat
      BY <2>3, <3>2
    <3>. QED  BY <3>1, <3>2
  <2>. QED  BY <2>2, <2>4
<1>. QED  BY <1>5, <1>6

\* Every visit is the first of its target or a repeat.
LEMMA VisitsGrow ==
    ASSUME NEW s, NEW e, NEW t, NEW n, OneMore(t, s, e, n), e.to \in Targets,
           NEW c, CountsAre(s, c), VisitsCounted(s, c)
    PROVE  VisitsCounted(t, Once(c, e.to))
<1>1. PICK y \in Targets : y = e.to
  OBVIOUS
<1>2. PICK U, V : U = VisitsIn(s) /\ V = VisitsIn(t)
  OBVIOUS
<1>3. PICK P, Q : P = Pile(Targets, c) /\ Q = Pile(Targets, Once(c, y))
  OBVIOUS
<1>4. PICK A, B : A = ReachedIn(s) /\ B = ReachedIn(t)
  OBVIOUS
<1>5. c \in [Targets -> Nat] /\ Once(c, y) \in [Targets -> Nat]
  BY DEF CountsAre, Once
<1>6. V = U \union {n + 1} /\ n + 1 \notin U /\ IsFiniteSet(U)
  <2>1. VisitsIn(t) = VisitsIn(s) \union {n + 1} /\ VisitsIn(s) \subseteq 1..n
    BY ArrivalsGrow
  <2>2. n \in Nat /\ n + 1 \notin 1..n
    BY DEF OneMore
  <2>3. IsFiniteSet(1..n)
    BY <2>2, FS_Interval
  <2>4. IsFiniteSet(U)
    BY <1>2, <2>1, <2>3, FS_Subset
  <2>. QED  BY <1>2, <2>1, <2>2, <2>4
<1>7. IsFiniteSet(P) /\ IsFiniteSet(A)
  <2>1. A \subseteq Targets
    BY <1>4 DEF ReachedIn
  <2>2. IsFiniteSet(A)
    BY <2>1, FS_Subset, PlacesAssumption
  <2>. QED  BY <1>3, <1>5, <2>2, RepeatsFinite
<1>8. Cardinality(U) \in Nat /\ Cardinality(P) \in Nat /\ Cardinality(A) \in Nat
  BY <1>6, <1>7, FS_CardinalityType
<1>9. Cardinality(V) = Cardinality(U) + 1
  BY <1>6, FS_AddElement
<1>10. Cardinality(U) = Cardinality(P) + Cardinality(A)
  BY <1>2, <1>3, <1>4 DEF VisitsCounted
<1>11. /\ \A x \in Targets : x # y => ArrivalsIn(t, x) = ArrivalsIn(s, x)
       /\ ArrivalsIn(t, y) # {}
       /\ c[y] = 0 <=> ArrivalsIn(s, y) = {}
  <2>1. \A x \in Targets : x # y => ArrivalsIn(t, x) = ArrivalsIn(s, x)
    BY <1>1, ArrivalsGrow
  <2>2. ArrivalsIn(t, y) = ArrivalsIn(s, y) \union {n + 1}
    BY <1>1, ArrivalsGrow
  <2>3. c[y] = 0 <=> ArrivalsIn(s, y) = {}
    BY Zenon DEF CountsAre
  <2>. QED  BY <2>1, <2>2, <2>3
<1>12. B = A \union {y} /\ (y \in A <=> c[y] # 0)
  BY <1>4, <1>11 DEF ReachedIn
<1>13. Cardinality(V) = Cardinality(Q) + Cardinality(B)
  <2>1. CASE c[y] = 0
    <3>1. Q = P
      BY <1>3, <1>5, <2>1, PileOnce
    <3>2. Cardinality(B) = Cardinality(A) + 1
      BY <1>7, <1>12, <2>1, FS_AddElement
    <3>. QED  BY <1>8, <1>9, <1>10, <3>1, <3>2
  <2>2. CASE c[y] # 0
    <3>1. PICK p : p = <<y, c[y]>>
      OBVIOUS
    <3>2. Q = P \union {p} /\ p \notin P
      BY <1>3, <1>5, <2>2, <3>1, PileOnce
    <3>3. Cardinality(Q) = Cardinality(P) + 1
      BY <1>7, <3>2, FS_AddElement
    <3>4. B = A
      BY <1>12, <2>2
    <3>. QED  BY <1>8, <1>9, <1>10, <3>3, <3>4
  <2>. QED  BY <2>1, <2>2
<1>. QED  BY <1>1, <1>2, <1>3, <1>4, <1>13, Zenon DEF VisitsCounted

(***************************************************************************)
(* The completion, and what summarize has measured after any number of     *)
(* moves.                                                                  *)
(***************************************************************************)

LaterVisits(s, f) == {i \in VisitsIn(s) : i > f}

FirstDone(s, f) == f \in DoneIn(s) /\ \A k \in DoneIn(s) : f <= k

CompletionIs(s, at, after) ==
    /\ DoneIn(s) = {} => at = 0 /\ after = 0
    /\ DoneIn(s) # {} => \E f : /\ FirstDone(s, f) /\ at = s[f].source
                                /\ after = Cardinality(LaterVisits(s, f))

Metrics == {"counts", "completed", "pending", "completion", "after"}

Measured(s, m) ==
    /\ DOMAIN m = Metrics
    /\ CountsAre(s, m.counts) /\ VisitsCounted(s, m.counts)
    /\ m.completed = {x \in Targets : Back(s, x, Len(s))}
    /\ m.pending = {x \in Targets : Awaited(s, x)}
    /\ CompletionIs(s, m.completion, m.after)

\* Every move names the decision that made it.
Sourced(s) == \A i \in DOMAIN s : s[i].source \in Nat \ {0}

\* A completed task stays completed by the same move.
LEMMA FirstStays ==
    ASSUME NEW s, NEW e, NEW t, NEW n, OneMore(t, s, e, n), NEW f, FirstDone(s, f)
    PROVE  /\ FirstDone(t, f) /\ t[f].source = s[f].source /\ f \in 1..n
           /\ e.to \notin Targets => LaterVisits(t, f) = LaterVisits(s, f)
           /\ e.to \in Targets => LaterVisits(t, f) = LaterVisits(s, f) \union {n + 1}
           /\ IsFiniteSet(LaterVisits(s, f)) /\ n + 1 \notin LaterVisits(s, f)
<1>1. /\ n \in Nat /\ DOMAIN s = 1..n /\ DOMAIN t = 1..(n + 1)
      /\ \A i \in 1..n : t[i] = s[i] /\ i < n + 1
  BY DEF OneMore
<1>2. DoneIn(s) \subseteq 1..n /\ DoneIn(s) \subseteq DoneIn(t)
      /\ DoneIn(t) \subseteq DoneIn(s) \union {n + 1}
  BY DoneGrows
<1>3. f \in 1..n /\ FirstDone(t, f)
  BY <1>1, <1>2 DEF FirstDone
<1>4. /\ e.to \in Targets => VisitsIn(t) = VisitsIn(s) \union {n + 1}
      /\ e.to \notin Targets => VisitsIn(t) = VisitsIn(s)
      /\ VisitsIn(s) \subseteq 1..n
  BY ArrivalsGrow
<1>5. n + 1 > f /\ n + 1 \notin 1..n
  BY <1>1, <1>3
<1>6. IsFiniteSet(LaterVisits(s, f)) /\ n + 1 \notin LaterVisits(s, f)
  <2>1. LaterVisits(s, f) \subseteq 1..n
    BY <1>4 DEF LaterVisits
  <2>2. IsFiniteSet(1..n)
    BY <1>1, FS_Interval
  <2>3. IsFiniteSet(LaterVisits(s, f))
    BY <2>1, <2>2, FS_Subset
  <2>. QED  BY <1>5, <2>1, <2>3
<1>7. /\ e.to \notin Targets => LaterVisits(t, f) = LaterVisits(s, f)
      /\ e.to \in Targets => LaterVisits(t, f) = LaterVisits(s, f) \union {n + 1}
  BY <1>4, <1>5 DEF LaterVisits
<1>. QED  BY <1>1, <1>3, <1>6, <1>7

\* The completion is 0 exactly until the task is done.
LEMMA CompletedIf ==
    ASSUME NEW s, Sourced(s), NEW at, NEW after, CompletionIs(s, at, after)
    PROVE  at = 0 <=> DoneIn(s) = {}
<1>1. ASSUME DoneIn(s) # {}  PROVE at # 0
  <2>1. PICK f : FirstDone(s, f) /\ at = s[f].source
    BY <1>1 DEF CompletionIs
  <2>2. f \in DOMAIN s
    BY <2>1 DEF FirstDone, DoneIn
  <2>. QED  BY <2>1, <2>2 DEF Sourced
<1>. QED  BY <1>1 DEF CompletionIs

\* Nothing changes the completion but a return that completes, or a visit after it.
LEMMA CompletionStays ==
    ASSUME NEW s, NEW e, NEW t, NEW n, OneMore(t, s, e, n), NEW at, NEW after,
           CompletionIs(s, at, after), e.to \notin Targets, DoneIn(s) = {} => DoneIn(t) = {}
    PROVE  CompletionIs(t, at, after)
<1>1. DoneIn(s) \subseteq DoneIn(t)
  BY DoneGrows
<1>2. ASSUME DoneIn(t) # {}
      PROVE  \E f : /\ FirstDone(t, f) /\ at = t[f].source
                    /\ after = Cardinality(LaterVisits(t, f))
  <2>1. PICK f : /\ FirstDone(s, f) /\ at = s[f].source
                 /\ after = Cardinality(LaterVisits(s, f))
    BY <1>2 DEF CompletionIs
  <2>2. FirstDone(t, f) /\ t[f].source = s[f].source /\ LaterVisits(t, f) = LaterVisits(s, f)
    BY <2>1, FirstStays
  <2>. QED  BY <2>1, <2>2
<1>3. DoneIn(t) = {} => at = 0 /\ after = 0
  BY <1>1 DEF CompletionIs
<1>. QED  BY <1>2, <1>3, Zenon DEF CompletionIs

\* A visit more.
LEMMA CompletionVisited ==
    ASSUME NEW s, NEW e, NEW t, NEW n, OneMore(t, s, e, n), NEW at, NEW after,
           CompletionIs(s, at, after), Sourced(s), e.to \in Targets, NEW c, CountsAre(s, c)
    PROVE  CompletionIs(t, at, IF c[e.to] > 0 /\ at # 0 THEN after + 1 ELSE after)
<1>1. e.to # Square
  BY PlacesAssumption
<1>2. DoneIn(s) = {} <=> DoneIn(t) = {}
  BY <1>1, DoneGrows
<1>3. at = 0 <=> DoneIn(s) = {}
  BY CompletedIf
<1>4. CASE DoneIn(s) = {}
  <2>1. at = 0 /\ after = 0
    BY <1>4 DEF CompletionIs
  <2>. QED  BY <1>2, <1>4, <2>1 DEF CompletionIs
<1>5. CASE DoneIn(s) # {}
  <2>1. c[e.to] > 0 /\ at # 0
    <3>1. Back(s, e.to, n)
      BY <1>5, DoneGrows
    <3>2. ArrivalsIn(s, e.to) # {}
      BY <3>1 DEF Back, ReturnsIn
    <3>3. c[e.to] \in Nat /\ c[e.to] # 0
      BY <3>2 DEF CountsAre
    <3>. QED  BY <1>3, <1>5, <3>3
  <2>2. PICK f : /\ FirstDone(s, f) /\ at = s[f].source
                 /\ after = Cardinality(LaterVisits(s, f))
    BY <1>5 DEF CompletionIs
  <2>3. /\ FirstDone(t, f) /\ t[f].source = s[f].source
        /\ LaterVisits(t, f) = LaterVisits(s, f) \union {n + 1}
        /\ IsFiniteSet(LaterVisits(s, f)) /\ n + 1 \notin LaterVisits(s, f)
    BY <2>2, FirstStays
  <2>4. Cardinality(LaterVisits(t, f)) = after + 1
    BY <2>2, <2>3, FS_AddElement
  <2>5. CompletionIs(t, at, after + 1)
    BY <1>2, <1>5, <2>2, <2>3, <2>4 DEF CompletionIs
  <2>. QED  BY <2>1, <2>5
<1>. QED  BY <1>4, <1>5

\* The move by which the task is done.
LEMMA CompletionReached ==
    ASSUME NEW s, NEW e, NEW t, NEW n, OneMore(t, s, e, n), NEW after,
           CompletionIs(s, 0, after), Sourced(s), e.to = Square, DoneIn(t) # {}
    PROVE  CompletionIs(t, e.source, after)
<1>1. DoneIn(s) = {}
  BY CompletedIf
<1>2. DoneIn(t) = {n + 1} /\ after = 0
  BY <1>1, DoneGrows DEF CompletionIs
<1>3. FirstDone(t, n + 1) /\ t[n + 1].source = e.source
  BY <1>2 DEF FirstDone, OneMore
<1>4. LaterVisits(t, n + 1) = {}
  BY DEF LaterVisits, VisitsIn, OneMore
<1>5. after = Cardinality(LaterVisits(t, n + 1))
  BY <1>2, <1>4, FS_EmptySet
<1>. QED  BY <1>2, <1>3, <1>5 DEF CompletionIs

\* The three ways in which a move is measured.
LEMMA MeasureIs ==
    ASSUME NEW m, DOMAIN m = Metrics, NEW e
    PROVE  /\ e.to \in Targets =>
                /\ DOMAIN Measure(m, e) = Metrics
                /\ Measure(m, e).counts = Once(m.counts, e.to)
                /\ Measure(m, e).pending = {e.to}
                /\ Measure(m, e).completed = m.completed
                /\ Measure(m, e).completion = m.completion
                /\ Measure(m, e).after = IF m.counts[e.to] > 0 /\ m.completion # 0
                                         THEN m.after + 1 ELSE m.after
           /\ e.to = Square /\ m.pending # {} =>
                /\ DOMAIN Measure(m, e) = Metrics
                /\ Measure(m, e).counts = m.counts
                /\ Measure(m, e).pending = {}
                /\ Measure(m, e).completed = m.completed \union m.pending
                /\ Measure(m, e).completion =
                        IF m.completed \union m.pending = Targets /\ m.completion = 0
                        THEN e.source ELSE m.completion
                /\ Measure(m, e).after = m.after
           /\ e.to \notin Targets /\ ~(e.to = Square /\ m.pending # {}) => Measure(m, e) = m
<1>1. Square \notin Targets
  BY PlacesAssumption
<1>2. ASSUME e.to \in Targets
      PROVE  /\ DOMAIN Measure(m, e) = Metrics
             /\ Measure(m, e).counts = Once(m.counts, e.to)
             /\ Measure(m, e).pending = {e.to}
             /\ Measure(m, e).completed = m.completed
             /\ Measure(m, e).completion = m.completion
             /\ Measure(m, e).after = IF m.counts[e.to] > 0 /\ m.completion # 0
                                      THEN m.after + 1 ELSE m.after
  <2>1. Measure(m, e) = [Counted(m, e.to) EXCEPT !.pending = {e.to}]
    BY <1>2 DEF Measure
  <2>2. /\ DOMAIN Counted(m, e.to) = Metrics
        /\ Counted(m, e.to).counts = Once(m.counts, e.to)
        /\ Counted(m, e.to).completed = m.completed
        /\ Counted(m, e.to).completion = m.completion
        /\ Counted(m, e.to).after = IF m.counts[e.to] > 0 /\ m.completion # 0
                                    THEN m.after + 1 ELSE m.after
    BY DEF Counted, Metrics, Once
  <2>. QED  BY <2>1, <2>2 DEF Metrics
<1>3. ASSUME e.to = Square, m.pending # {}
      PROVE  /\ DOMAIN Measure(m, e) = Metrics
             /\ Measure(m, e).counts = m.counts
             /\ Measure(m, e).pending = {}
             /\ Measure(m, e).completed = m.completed \union m.pending
             /\ Measure(m, e).completion =
                     IF m.completed \union m.pending = Targets /\ m.completion = 0
                     THEN e.source ELSE m.completion
             /\ Measure(m, e).after = m.after
  <2>1. Measure(m, e) = Completes(m, e)
    BY <1>1, <1>3 DEF Measure
  <2>. QED  BY <2>1 DEF Completes, Metrics
<1>4. ASSUME e.to \notin Targets, ~(e.to = Square /\ m.pending # {})
      PROVE  Measure(m, e) = m
  BY <1>4, Zenon DEF Measure
<1>. QED  BY <1>2, <1>3, <1>4, Zenon

\* What is measured of one move more.
LEMMA MeasuredGrows ==
    ASSUME NEW s, NEW e, NEW t, NEW n, OneMore(t, s, e, n), Sourced(s),
           NEW m, Measured(s, m)
    PROVE  Measured(t, Measure(m, e))
<1>1. /\ DOMAIN m = Metrics /\ CountsAre(s, m.counts) /\ VisitsCounted(s, m.counts)
      /\ m.completed = {x \in Targets : Back(s, x, n)}
      /\ m.pending = {x \in Targets : Awaited(s, x)}
      /\ CompletionIs(s, m.completion, m.after)
  BY DEF Measured, OneMore
<1>2. Len(t) = n + 1
  BY DEF OneMore
<1>3. \A x \in Targets :
        /\ Back(t, x, n + 1) <=> Back(s, x, n) \/ (e.to = Square /\ Awaited(s, x))
        /\ Awaited(t, x) <=> e.to = x \/ (Awaited(s, x) /\ e.to \notin Targets \union {Square})
  BY BackGrows, ReturnsGrow
<1>4. Square \notin Targets
  BY PlacesAssumption
<1>5. PICK v : v = Measure(m, e)
  OBVIOUS
<1>6. CASE e.to \in Targets
  <2>1. /\ DOMAIN v = Metrics /\ v.counts = Once(m.counts, e.to) /\ v.pending = {e.to}
        /\ v.completed = m.completed /\ v.completion = m.completion
        /\ v.after = IF m.counts[e.to] > 0 /\ m.completion # 0 THEN m.after + 1 ELSE m.after
    BY <1>1, <1>5, <1>6, MeasureIs
  <2>2. CountsAre(t, v.counts) /\ VisitsCounted(t, v.counts)
    BY <1>1, <1>6, <2>1, CountsGrow, VisitsGrow
  <2>3. CompletionIs(t, v.completion, v.after)
    BY <1>1, <1>6, <2>1, CompletionVisited
  <2>4. v.completed = {x \in Targets : Back(t, x, n + 1)}
    BY <1>1, <1>3, <1>4, <1>6, <2>1
  <2>5. v.pending = {x \in Targets : Awaited(t, x)}
    BY <1>3, <1>6, <2>1
  <2>. QED  BY <1>2, <1>5, <2>1, <2>2, <2>3, <2>4, <2>5 DEF Measured
<1>7. CASE e.to = Square /\ m.pending # {}
  <2>1. /\ DOMAIN v = Metrics /\ v.counts = m.counts /\ v.pending = {}
        /\ v.completed = m.completed \union m.pending /\ v.after = m.after
        /\ v.completion = IF m.completed \union m.pending = Targets /\ m.completion = 0
                          THEN e.source ELSE m.completion
    BY <1>1, <1>5, <1>7, MeasureIs
  <2>2. CountsAre(t, v.counts) /\ VisitsCounted(t, v.counts)
    BY <1>1, <1>4, <1>7, <2>1, UncountedStays
  <2>3. v.completed = {x \in Targets : Back(t, x, n + 1)}
    BY <1>1, <1>3, <1>7, <2>1
  <2>4. v.pending = {x \in Targets : Awaited(t, x)}
    BY <1>3, <1>4, <1>7, <2>1
  <2>5. CompletionIs(t, v.completion, v.after)
    <3>1. m.completion = 0 <=> DoneIn(s) = {}
      BY <1>1, CompletedIf
    <3>2. DoneIn(t) # {} <=> DoneIn(s) # {} \/ v.completed = Targets
      <4>1. DoneIn(t) = DoneIn(s) \union
                {j \in {n + 1} : \A x \in Targets :
                                    Back(s, x, n) \/ (e.to = Square /\ Awaited(s, x))}
        BY DoneGrows
      <4>2. v.completed = Targets <=>
                \A x \in Targets : Back(s, x, n) \/ (e.to = Square /\ Awaited(s, x))
        BY <1>3, <2>3
      <4>. QED  BY <4>1, <4>2
    <3>3. CASE v.completed = Targets /\ m.completion = 0
      <4>1. v.completion = e.source /\ DoneIn(t) # {} /\ CompletionIs(s, 0, m.after)
        BY <1>1, <2>1, <3>2, <3>3
      <4>. QED  BY <1>7, <2>1, <4>1, CompletionReached
    <3>4. CASE ~(v.completed = Targets /\ m.completion = 0)
      <4>1. v.completion = m.completion /\ (DoneIn(s) = {} => DoneIn(t) = {})
        BY <2>1, <3>1, <3>2, <3>4
      <4>. QED  BY <1>1, <1>4, <1>7, <2>1, <4>1, CompletionStays
    <3>. QED  BY <3>3, <3>4
  <2>. QED  BY <1>2, <1>5, <2>1, <2>2, <2>3, <2>4, <2>5 DEF Measured
<1>8. CASE e.to \notin Targets /\ ~(e.to = Square /\ m.pending # {})
  <2>1. v = m
    BY <1>1, <1>5, <1>8, MeasureIs
  <2>2. \A x \in Targets : ~(e.to = Square /\ Awaited(s, x))
    BY <1>1, <1>8
  <2>3. CountsAre(t, m.counts) /\ VisitsCounted(t, m.counts)
    BY <1>1, <1>8, UncountedStays
  <2>4. m.completed = {x \in Targets : Back(t, x, n + 1)}
    BY <1>1, <1>3, <2>2
  <2>5. m.pending = {x \in Targets : Awaited(t, x)}
    BY <1>1, <1>3, <1>8, <2>2
  <2>6. CompletionIs(t, m.completion, m.after)
    <3>1. DoneIn(s) = {} => DoneIn(t) = {}
      BY <2>2, DoneGrows
    <3>. QED  BY <1>1, <1>8, <3>1, CompletionStays
  <2>. QED  BY <1>1, <1>2, <1>5, <2>1, <2>3, <2>4, <2>5, <2>6 DEF Measured
<1>. QED  BY <1>6, <1>7, <1>8

\* Nothing is measured of no move.
LEMMA MeasuredNothing == Measured(<<>>, Unmeasured)
<1>1. DOMAIN <<>> = {} /\ Len(<<>>) = 0
  OBVIOUS
<1>2. /\ \A x : ArrivalsIn(<<>>, x) = {} /\ VisitsIn(<<>>) = {} /\ DoneIn(<<>>) = {}
      /\ \A x : ~Awaited(<<>>, x) /\ ~Back(<<>>, x, 0)
  BY <1>1 DEF ArrivalsIn, VisitsIn, DoneIn, Awaited, Back, ReturnsIn
<1>3. PICK c : c = [t \in Targets |-> 0]
  OBVIOUS
<1>4. CountsAre(<<>>, c)
  BY <1>2, <1>3 DEF CountsAre
<1>5. VisitsCounted(<<>>, c)
  <2>1. Pile(Targets, c) = {}
    BY <1>3 DEF Pile, Excess
  <2>2. ReachedIn(<<>>) = {}
    BY <1>2 DEF ReachedIn
  <2>3. Cardinality({}) = 0 /\ 0 + 0 = 0
    BY FS_EmptySet
  <2>. QED  BY <1>2, <2>1, <2>2, <2>3, Zenon DEF VisitsCounted
<1>6. CompletionIs(<<>>, 0, 0)
  BY <1>2 DEF CompletionIs
<1>7. /\ DOMAIN Unmeasured = Metrics /\ Unmeasured.counts = c /\ Unmeasured.completed = {}
      /\ Unmeasured.pending = {} /\ Unmeasured.completion = 0 /\ Unmeasured.after = 0
  BY <1>3 DEF Unmeasured, Metrics
<1>8. {x \in Targets : Back(<<>>, x, Len(<<>>))} = {} /\ {x \in Targets : Awaited(<<>>, x)} = {}
  BY <1>1, <1>2
<1>. QED  BY <1>4, <1>5, <1>6, <1>7, <1>8, Zenon DEF Measured

(***************************************************************************)
(* The summary.                                                            *)
(***************************************************************************)

SummaryOf(m) ==
    [unique_destination_coverage |-> Cardinality({t \in Targets : m.counts[t] > 0}),
     repeat_destination_count |-> Repeats(Targets, m.counts),
     decisions_to_completion |-> m.completion,
     strict_no_repeat_success |-> m.completion # 0 /\ Repeats(Targets, m.counts) = 0,
     post_completion_repeat_count |-> m.after]

First(s) == CHOOSE j \in DoneIn(s) : \A k \in DoneIn(s) : j <= k

NoneTwice(s) == \A i, k \in VisitsIn(s) : s[i].to = s[k].to => i = k

Wanted(s) ==
    [unique_destination_coverage |-> Cardinality(ReachedIn(s)),
     repeat_destination_count |-> Cardinality(VisitsIn(s)) - Cardinality(ReachedIn(s)),
     decisions_to_completion |-> IF DoneIn(s) = {} THEN 0 ELSE s[First(s)].source,
     strict_no_repeat_success |-> DoneIn(s) # {} /\ NoneTwice(s),
     post_completion_repeat_count |->
        IF DoneIn(s) = {} THEN 0 ELSE Cardinality(LaterVisits(s, First(s)))]

\* No target lies on the pile exactly if none was visited twice.
LEMMA NoRepeats ==
    ASSUME NEW s, NEW c, CountsAre(s, c)
    PROVE  Pile(Targets, c) = {} <=> NoneTwice(s)
<1>1. \A x \in Targets : /\ c[x] \in Nat
                         /\ c[x] <= 1 <=> \A i, k \in ArrivalsIn(s, x) : i = k
  BY DEF CountsAre
<1>2. NoneTwice(s) <=> \A x \in Targets : c[x] <= 1
  <2>1. \A x \in Targets : \A i : i \in ArrivalsIn(s, x) <=> i \in VisitsIn(s) /\ s[i].to = x
    BY DEF ArrivalsIn, VisitsIn
  <2>2. \A i \in VisitsIn(s) : s[i].to \in Targets
    BY DEF VisitsIn
  <2>3. ASSUME NoneTwice(s), NEW x \in Targets  PROVE c[x] <= 1
    <3>1. ASSUME NEW i \in ArrivalsIn(s, x), NEW k \in ArrivalsIn(s, x)  PROVE i = k
      <4>1. i \in VisitsIn(s) /\ k \in VisitsIn(s) /\ s[i].to = s[k].to
        BY <2>1, <3>1, Zenon
      <4>. QED  BY <2>3, <4>1, Zenon DEF NoneTwice
    <3>. QED  BY <1>1, <3>1
  <2>4. ASSUME \A x \in Targets : c[x] <= 1  PROVE NoneTwice(s)
    <3>1. ASSUME NEW i \in VisitsIn(s), NEW k \in VisitsIn(s), s[i].to = s[k].to
          PROVE  i = k
      <4>1. PICK x \in Targets : s[i].to = x
        BY <2>2
      <4>2. i \in ArrivalsIn(s, x) /\ k \in ArrivalsIn(s, x)
        BY <2>1, <3>1, <4>1, Zenon
      <4>. QED  BY <1>1, <2>4, <4>2
    <3>. QED  BY <3>1, Zenon DEF NoneTwice
  <2>. QED  BY <2>3, <2>4
<1>3. ASSUME \A x \in Targets : c[x] <= 1  PROVE Pile(Targets, c) = {}
  <2>1. \A x \in Targets : Excess(c, x) = 0
    BY <1>1, <1>3 DEF Excess
  <2>. QED  BY <2>1 DEF Pile
<1>4. ASSUME NEW x \in Targets, ~(c[x] <= 1)  PROVE Pile(Targets, c) # {}
  <2>1. Excess(c, x) \in Nat /\ 1 <= Excess(c, x)
    BY <1>1, <1>4 DEF Excess
  <2>2. <<x, 1>> \in Pile(Targets, c)
    BY <2>1 DEF Pile
  <2>. QED  BY <2>2
<1>. QED  BY <1>2, <1>3, <1>4

\* The summary says what it is to measure.
LEMMA SummaryWanted ==
    ASSUME NEW s, IsSequence(s), Sourced(s), NEW m, Measured(s, m)
    PROVE  SummaryOf(m) = Wanted(s)
<1>1. /\ CountsAre(s, m.counts) /\ VisitsCounted(s, m.counts)
      /\ CompletionIs(s, m.completion, m.after)
  BY DEF Measured
<1>2. PICK c : c = m.counts
  OBVIOUS
<1>3. /\ c \in [Targets -> Nat]
      /\ \A x \in Targets : c[x] \in Nat /\ (c[x] = 0 <=> ArrivalsIn(s, x) = {})
  BY <1>1, <1>2 DEF CountsAre
<1>4. {t \in Targets : c[t] > 0} = ReachedIn(s)
  BY <1>3 DEF ReachedIn
<1>5. IsFiniteSet(Pile(Targets, c)) /\ IsFiniteSet(ReachedIn(s))
  <2>1. ReachedIn(s) \subseteq Targets
    BY DEF ReachedIn
  <2>2. IsFiniteSet(ReachedIn(s))
    BY <2>1, FS_Subset, PlacesAssumption
  <2>. QED  BY <1>3, <2>2, RepeatsFinite
<1>6. Repeats(Targets, c) = Cardinality(Pile(Targets, c))
  BY <1>3, RepeatsFinite, SumIsPile
<1>7. Repeats(Targets, c) = Cardinality(VisitsIn(s)) - Cardinality(ReachedIn(s))
  <2>1. PICK p, r, v : /\ p = Cardinality(Pile(Targets, c)) /\ r = Cardinality(ReachedIn(s))
                       /\ v = Cardinality(VisitsIn(s))
    OBVIOUS
  <2>2. p \in Nat /\ r \in Nat
    BY <1>5, <2>1, FS_CardinalityType
  <2>3. v = p + r
    BY <1>1, <1>2, <2>1 DEF VisitsCounted
  <2>4. p = v - r
    BY <2>2, <2>3
  <2>. QED  BY <1>6, <2>1, <2>4, Zenon
<1>8. Repeats(Targets, c) = 0 <=> NoneTwice(s)
  <2>1. Cardinality(Pile(Targets, c)) = 0 <=> Pile(Targets, c) = {}
    BY <1>5, FS_EmptySet
  <2>. QED  BY <1>1, <1>2, <1>6, <2>1, NoRepeats
<1>9. m.completion = 0 <=> DoneIn(s) = {}
  BY <1>1, CompletedIf
<1>10. ASSUME DoneIn(s) # {}
       PROVE  m.completion = s[First(s)].source /\ m.after = Cardinality(LaterVisits(s, First(s)))
  <2>1. PICK f : /\ FirstDone(s, f) /\ m.completion = s[f].source
                 /\ m.after = Cardinality(LaterVisits(s, f))
    BY <1>1, <1>10 DEF CompletionIs
  <2>2. DoneIn(s) \subseteq Nat
    BY Appended DEF DoneIn
  <2>3. First(s) = f
    BY <2>1, <2>2 DEF First, FirstDone
  <2>. QED  BY <2>1, <2>3
<1>11. m.completion = IF DoneIn(s) = {} THEN 0 ELSE s[First(s)].source
  BY <1>9, <1>10
<1>12. m.after = IF DoneIn(s) = {} THEN 0 ELSE Cardinality(LaterVisits(s, First(s)))
  BY <1>1, <1>10 DEF CompletionIs
<1>13. (m.completion # 0 /\ Repeats(Targets, c) = 0) = (DoneIn(s) # {} /\ NoneTwice(s))
  BY <1>8, <1>9, Zenon
<1>. QED  BY <1>2, <1>4, <1>7, <1>11, <1>12, <1>13, Zenon DEF SummaryOf, Wanted

\* The property, in these terms.
LEMMA SummaryIs == Summary = SummaryOf(FoldLeft(Measure, Unmeasured, events))
BY Zenon DEF Summary, SummaryOf, Repeats

\* The property, in these terms.
LEMMA WantedIs == MetricsMeasure <=> (stop # "NONE" => Summary = Wanted(events))
<1>1. PICK es : es = events
  OBVIOUS
<1>2. \A t : Arrivals(t) = ArrivalsIn(es, t)
  BY <1>1 DEF Arrivals, ArrivalsIn
<1>3. \A t, j : Returns(t, j) <=> ReturnsIn(es, t, j)
  BY <1>1, <1>2, Zenon DEF Returns, ReturnsIn, Undisturbed, Elsewhere
<1>4. \A j : Complete(j) <=> \A t \in Targets : Back(es, t, j)
  BY <1>3, Zenon DEF Complete, Back
<1>5. {j \in DOMAIN events : Complete(j)} = DoneIn(es)
  BY <1>1, <1>4 DEF DoneIn
<1>6. {t \in Targets : Arrivals(t) # {}} = ReachedIn(es)
  BY <1>2 DEF ReachedIn
<1>7. {i \in DOMAIN events : events[i].to \in Targets} = VisitsIn(es)
  BY <1>1 DEF VisitsIn
<1>. QED  BY <1>1, <1>5, <1>6, <1>7, Zenon DEF MetricsMeasure, Wanted, First, NoneTwice, LaterVisits

MeasureInv == Sourced(events) /\ Measured(events, Result("metrics", events))

\* Nothing is measured at the start.
LEMMA MeasureInitially == Init => MeasureInv
<1>. SUFFICES ASSUME Init  PROVE MeasureInv
  OBVIOUS
<1>1. events = <<>>
  BY DEF Init
<1>2. Result("metrics", <<>>) = Unmeasured
  BY ResultBegins, Zenon DEF Begins
<1>3. Sourced(<<>>)
  BY DEF Sourced
<1>. QED  BY <1>1, <1>2, <1>3, MeasuredNothing DEF MeasureInv

\* A step commits one move for the decision that it records, or none.
LEMMA EventsGrow ==
    ASSUME BoundsInv, [Next]_vars
    PROVE  \/ events' = events
           \/ \E to : events' = Append(events, [to |-> to, source |-> Len(decisions) + 1])
<1>1. CASE pc = "submit" /\ Refusal(answer.says) = "NONE"
           /\ Becomes(Executed(Now, answer.says, Len(decisions) + 1))
  <2>1. answer \in Answers
    BY <1>1 DEF BoundsInv, Ready
  <2>. QED  BY <1>1, <2>1, Performed DEF Becomes
<1>2. CASE \E n : Becomes([Now EXCEPT !.time = n])
  BY <1>2 DEF Becomes, Now, World
<1>3. CASE UNCHANGED events
  BY <1>3
<1>. QED  BY <1>1, <1>2, <1>3, Zenon
          DEF Next, vars, world, Leave, ObserveFails, Ask, Refuse, Submit, EngineFails, WallPasses

\* A step keeps what is measured.
LEMMA MeasureStep == BoundsInv /\ MeasureInv /\ [Next]_vars => MeasureInv'
<1>. SUFFICES ASSUME BoundsInv, MeasureInv, [Next]_vars  PROVE MeasureInv'
  OBVIOUS
<1>1. CASE events' = events
  BY <1>1 DEF MeasureInv
<1>2. ASSUME NEW to, events' = Append(events, [to |-> to, source |-> Len(decisions) + 1])
      PROVE  MeasureInv'
  <2>1. PICK s, t, n, e, at : /\ s = events /\ t = events' /\ n = Len(events)
                              /\ at = Len(decisions) + 1 /\ e = [to |-> to, source |-> at]
    OBVIOUS
  <2>2. IsSequence(s) /\ t = Append(s, e) /\ n = Len(s) /\ e.source = at
    BY <1>2, <2>1 DEF BoundsInv
  <2>3. at \in Nat \ {0}
    BY <2>1, Appended DEF BoundsInv
  <2>4. OneMore(t, s, e, n)
    BY <2>2, Appended DEF OneMore
  <2>5. Sourced(s) /\ Measured(s, Result("metrics", s))
    BY <2>1 DEF MeasureInv
  <2>6. Result("metrics", t) = Measure(Result("metrics", s), e)
    <3>1. Result("metrics", t) = Step("metrics", Result("metrics", s), e)
      BY <2>2, ResultGrows
    <3>. QED  BY <3>1, Zenon DEF Step
  <2>7. Measured(t, Result("metrics", t))
    BY <2>4, <2>5, <2>6, MeasuredGrows
  <2>8. Sourced(t)
    BY <2>2, <2>3, <2>4, <2>5 DEF Sourced, OneMore
  <2>. QED  BY <2>1, <2>7, <2>8 DEF MeasureInv
<1>. QED  BY <1>1, <1>2, EventsGrow

\* The one pass of summarize measures what the task asks for.
THEOREM MetricsAreRight == Spec => []MetricsMeasure
<1>1. Init => BoundsInv /\ MeasureInv
  BY BoundsInitially, MeasureInitially
<1>2. BoundsInv /\ MeasureInv /\ [Next]_vars => (BoundsInv /\ MeasureInv)'
  BY BoundsStep, MeasureStep
<1>3. BoundsInv /\ MeasureInv => MetricsMeasure
  <2>. SUFFICES ASSUME BoundsInv, MeasureInv  PROVE MetricsMeasure
    OBVIOUS
  <2>1. Summary = SummaryOf(Result("metrics", events))
    BY SummaryIs, FoldsAre
  <2>2. SummaryOf(Result("metrics", events)) = Wanted(events)
    BY SummaryWanted DEF BoundsInv, MeasureInv
  <2>. QED  BY <2>1, <2>2, WantedIs
<1>. QED  BY <1>1, <1>2, <1>3, PTL DEF Spec
=============================================================================
