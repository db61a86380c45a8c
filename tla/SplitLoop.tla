------------------------------ MODULE SplitLoop ------------------------------
(***************************************************************************)
(* The loop of ProtocolUtil.splitProtocol over the parts of a protocol,    *)
(* one turn a step, and what it computes.                                  *)
(***************************************************************************)
EXTENDS ProtocolUtil, TLAPS

CONSTANT MaxParts  \* bound: parts in a protocol

ASSUME PartsAssumption == MaxParts \in Nat

VARIABLES protocol, next, split, outcome

vars == <<protocol, next, split, outcome>>

\* All protocols of up to MaxParts parts; "," splits into none.
Protocols == UNION {[1..n -> Part] : n \in 0..MaxParts}

Init ==
    /\ protocol \in Protocols
    /\ next = 1 /\ split = <<>> /\ outcome = "running"

\* Mutants of Turn: every other part is skipped; and a bad part is passed over.
TurnTwice ==
    /\ outcome = "running" /\ next \in DOMAIN protocol
    /\ ~Throws(protocol[next])
    /\ split' = Put(split, protocol[next])
    /\ next' = next + 2
    /\ UNCHANGED <<protocol, outcome>>

TurnPastBadPart ==
    /\ outcome = "running" /\ next \in DOMAIN protocol
    /\ split' = IF Throws(protocol[next]) THEN split ELSE Put(split, protocol[next])
    /\ next' = next + 1
    /\ UNCHANGED <<protocol, outcome>>

Turn ==
    /\ outcome = "running" /\ next \in DOMAIN protocol
    /\ ~Throws(protocol[next])
    /\ split' = Put(split, protocol[next])
    /\ next' = next + 1
    /\ UNCHANGED <<protocol, outcome>>

Throw ==
    /\ outcome = "running" /\ next \in DOMAIN protocol
    /\ Throws(protocol[next])
    /\ outcome' = "thrown"
    /\ UNCHANGED <<protocol, next, split>>

\* Mutant of Return: the loop may end before the last part.
ReturnEarly ==
    /\ outcome = "running"
    /\ next \notin DOMAIN protocol \/ next = Len(protocol)
    /\ outcome' = "returned"
    /\ UNCHANGED <<protocol, next, split>>

Return ==
    /\ outcome = "running" /\ next \notin DOMAIN protocol
    /\ outcome' = "returned"
    /\ UNCHANGED <<protocol, next, split>>

Next == Turn \/ Throw \/ Return
Spec == Init /\ [][Next]_vars

-----------------------------------------------------------------------------
TypeOK ==
    /\ protocol \in Protocols
    /\ next \in 1..(Len(protocol) + 1)
    /\ split \in [DOMAIN split -> Part]
    /\ DOMAIN split \subseteq UNION {Persisted(protocol[i]) : i \in 1..(next - 1)}
    /\ outcome \in {"running", "thrown", "returned"}

\* Part i is the last one before part n that produced artifact a.
LastProducer(a, i, n) ==
    /\ i \in 1..(n - 1) /\ a \in Persisted(protocol[i])
    /\ \A j \in (i + 1)..(n - 1) : a \notin Persisted(protocol[j])

\* An artifact that several parts produced is taken from the last of them,
\* and no artifact that some part produced is missing: a protocol such as
\* "pipeline_1,trainer_2" means pipeline_1 with trainer_2's model on top.
LastWins ==
    \A i \in 1..(next - 1) : \A a \in Persisted(protocol[i]) :
        /\ a \in DOMAIN split
        /\ LastProducer(a, i, next) => split[a] = protocol[i]

\* A map is returned for good protocols only: one bad part anywhere makes the
\* whole call throw.
AllOrNothing ==
    /\ outcome = "returned" => \A i \in DOMAIN protocol : ~Throws(protocol[i])
    /\ outcome = "thrown" => \E i \in DOMAIN protocol : Throws(protocol[i])

\* The loop computes the fold that the other modules use.
ReturnsTheFold == outcome = "returned" => split = SplitProtocol(protocol)

-----------------------------------------------------------------------------
(* The same for every metadata and every protocol                           *)

\* The parts before next were all good, and next has passed the last part
\* when the loop returns.
Passed ==
    /\ \A i \in 1..(next - 1) : ~Throws(protocol[i])
    /\ outcome = "returned" => next = Len(protocol) + 1
    /\ outcome = "thrown" => \E i \in DOMAIN protocol : Throws(protocol[i])

IInv == TypeOK /\ Passed /\ LastWins

\* A protocol is a sequence of parts.
LEMMA ProtocolLength ==
    ASSUME protocol \in Protocols
    PROVE  Len(protocol) \in Nat /\ DOMAIN protocol = 1..Len(protocol)
<1>1. PICK n \in 0..MaxParts : protocol \in [1..n -> Part]
  BY DEF Protocols
<1>2. n \in Nat /\ protocol \in Seq(Part)
  BY <1>1, PartsAssumption
<1> QED BY <1>1, <1>2

LEMMA ProtocolParts ==
    ASSUME protocol \in Protocols
    PROVE  \A i \in DOMAIN protocol : protocol[i] \in Part
<1> QED BY DEF Protocols

\* Nothing has been passed before the first turn.
LEMMA InitSplit == Init => IInv
<1> SUFFICES ASSUME Init PROVE IInv
  OBVIOUS
<1>1. Len(protocol) \in Nat /\ DOMAIN protocol = 1..Len(protocol)
  BY ProtocolLength DEF Init
<1>2. DOMAIN split = {}
  BY DEF Init
<1> QED BY <1>1, <1>2 DEF Init, IInv, TypeOK, Passed, LastWins

\* A turn adds one part's artifacts and takes over those of earlier parts.
LEMMA StepSplit == IInv /\ [Next]_vars => IInv'
<1> SUFFICES ASSUME IInv, [Next]_vars PROVE IInv'
  OBVIOUS
<1> USE DEF IInv
<1>1. Len(protocol) \in Nat /\ DOMAIN protocol = 1..Len(protocol) /\ next \in Nat
  BY ProtocolLength DEF TypeOK
<1>2. CASE Turn
  <2> DEFINE part == protocol[next]
  <2>1. /\ next \in 1..Len(protocol) /\ ~Throws(part)
        /\ next' = next + 1 /\ protocol' = protocol /\ outcome' = "running"
        /\ split' = Put(split, part)
    BY <1>1, <1>2 DEF Turn
  <2>2. /\ DOMAIN split' = Persisted(part) \union DOMAIN split
        /\ \A a \in DOMAIN split' :
              split'[a] = IF a \in Persisted(part) THEN part ELSE split[a]
    BY <2>1 DEF Put
  <2>3. 1..(next' - 1) = 1..(next - 1) \union {next}
    BY <1>1, <2>1
  <2>4. TypeOK'
    <3>1. part \in Part
      BY <1>1, <2>1, ProtocolParts DEF TypeOK
    <3>2. split' \in [DOMAIN split' -> Part]
      <4>1. \A a \in DOMAIN split' : split'[a] \in Part
        BY <2>2, <3>1 DEF TypeOK
      <4>2. split' = [a \in DOMAIN split' |-> split'[a]]
        BY <2>1 DEF Put
      <4> QED BY <4>1, <4>2
    <3> QED BY <1>1, <2>1, <2>2, <2>3, <3>2 DEF TypeOK
  <2>5. Passed'
    BY <1>1, <2>1, <2>3 DEF Passed
  <2>6. ASSUME NEW i \in 1..(next' - 1), NEW a \in Persisted(protocol[i])
        PROVE  /\ a \in DOMAIN split'
               /\ LastProducer(a, i, next)' => split'[a] = protocol[i]
    <3>1. CASE i = next
      BY <2>1, <2>2, <2>6, <3>1
    <3>2. CASE i # next
      <4>1. i \in 1..(next - 1) /\ a \in DOMAIN split
        BY <2>3, <2>6, <3>2 DEF LastWins
      <4>2. ASSUME LastProducer(a, i, next)'
            PROVE  LastProducer(a, i, next) /\ a \notin Persisted(part)
        BY <1>1, <2>1, <4>1, <4>2 DEF LastProducer
      <4> QED BY <2>2, <2>6, <4>1, <4>2 DEF LastWins
    <3> QED BY <3>1, <3>2
  <2>7. LastWins'
    BY <2>1, <2>6 DEF LastWins
  <2> QED BY <2>4, <2>5, <2>7
<1>3. CASE Throw
  BY <1>1, <1>3 DEF Throw, TypeOK, Passed, LastWins, LastProducer
<1>4. CASE Return
  <2>1. next = Len(protocol) + 1
    BY <1>1, <1>4 DEF Return, TypeOK
  <2> QED BY <1>1, <1>4, <2>1 DEF Return, TypeOK, Passed, LastWins, LastProducer
<1>5. CASE UNCHANGED vars
  BY <1>5 DEF vars, TypeOK, Passed, LastWins, LastProducer
<1> QED BY <1>2, <1>3, <1>4, <1>5 DEF Next

\* The loop never passes the end of a protocol, and puts no artifact into the map
\* that no part it has passed produced.
THEOREM Types == Spec => []TypeOK
<1>1. IInv => TypeOK
  BY DEF IInv
<1> QED BY <1>1, InitSplit, StepSplit, PTL DEF Spec

\* Whatever the metadata and however many parts a protocol has, the last part
\* that produced an artifact decides where it is taken from.
THEOREM SplitLastWins == Spec => []LastWins
<1>1. IInv => LastWins
  BY DEF IInv
<1> QED BY <1>1, InitSplit, StepSplit, PTL DEF Spec

\* And a map is returned exactly for protocols without a bad part.
THEOREM SplitAllOrNothing == Spec => []AllOrNothing
<1>1. ASSUME IInv PROVE AllOrNothing
  <2>1. Len(protocol) \in Nat /\ DOMAIN protocol = 1..Len(protocol)
    BY <1>1, ProtocolLength DEF IInv, TypeOK
  <2> QED BY <1>1, <2>1 DEF IInv, Passed, AllOrNothing
<1>2. IInv => AllOrNothing
  BY <1>1
<1> QED BY <1>2, InitSplit, StepSplit, PTL DEF Spec

-----------------------------------------------------------------------------
(* The loop and the fold.  The fold is a recursive function of sets of       *)
(* positions.  That such a function exists, and that all of them agree with  *)
(* the loop, is shown along the loop, position by position.                  *)

\* The fold of the parts at positions s, if f is the fold of smaller sets.
Value(f, s) == IF s = {} THEN <<>> ELSE Put(f[s \ {Max(s)}], protocol[Max(s)])

\* f folds any of the first n parts.
IsFold(f, n) == f = [s \in SUBSET (1..n) |-> Value(f, s)]

\* The parts that were passed can be folded, and every fold of the whole protocol
\* has folded them into split.
Folds ==
    /\ \E f : IsFold(f, next - 1)
    /\ \A f : IsFold(f, Len(protocol)) => f[1..(next - 1)] = split

\* What FoldLeft stands for.
LEMMA FoldOfProtocol ==
    ASSUME DOMAIN protocol = 1..Len(protocol)
    PROVE  SplitProtocol(protocol) =
              (CHOOSE f : IsFold(f, Len(protocol)))[1..Len(protocol)]
<1> DEFINE fold == CHOOSE iter : iter = [s \in SUBSET DOMAIN protocol |->
               IF s = {} THEN <<>> ELSE Put(iter[s \ {Max(s)}], protocol[Max(s)])]
<1>1. SplitProtocol(protocol) = fold[DOMAIN protocol]
  BY DEF SplitProtocol, FoldLeft, MapThenFoldSet
<1> QED BY <1>1 DEF IsFold, Value

\* The last of the first n positions is the one that a fold takes off.
LEMMA MaxOfPrefix ==
    ASSUME NEW n \in Nat, NEW s \in SUBSET (1..(n + 1)), n + 1 \in s
    PROVE  /\ Max(s) = n + 1
           /\ s \ {n + 1} \in SUBSET (1..n)
<1>1. \A y \in s : n + 1 >= y
  OBVIOUS
<1>2. PICK x \in s : x = Max(s) /\ \A y \in s : x >= y
  BY <1>1 DEF Max
<1> QED BY <1>2

\* One part more can be folded if the parts before it can.
LEMMA FoldOneMore ==
    ASSUME NEW n \in Nat, NEW f, IsFold(f, n)
    PROVE  \E g : IsFold(g, n + 1)
<1> DEFINE g == [s \in SUBSET (1..(n + 1)) |->
                    IF n + 1 \in s THEN Put(f[s \ {n + 1}], protocol[n + 1]) ELSE f[s]]
<1>1. ASSUME NEW s \in SUBSET (1..(n + 1)) PROVE g[s] = Value(g, s)
  <2>1. CASE n + 1 \in s
    <3>1. Max(s) = n + 1 /\ s \ {n + 1} \in SUBSET (1..n)
      BY <2>1, MaxOfPrefix
    <3>2. g[s \ {n + 1}] = f[s \ {n + 1}]
      BY <3>1
    <3> QED BY <2>1, <3>1, <3>2 DEF Value
  <2>2. CASE n + 1 \notin s
    <3>1. s \in SUBSET (1..n)
      BY <2>2
    <3>2. g[s] = f[s] /\ g[s \ {Max(s)}] = f[s \ {Max(s)}]
      BY <2>2
    <3>3. f[s] = Value(f, s)
      BY <3>1 DEF IsFold
    <3> QED BY <3>2, <3>3 DEF Value
  <2> QED BY <2>1, <2>2
<1>2. IsFold(g, n + 1)
  <2> DEFINE D == SUBSET (1..(n + 1))
  <2>1. g = [s \in D |-> g[s]]
    OBVIOUS
  <2>2. \A s \in D : g[s] = Value(g, s)
    BY <1>1
  <2> HIDE DEF g
  <2>3. g = [s \in D |-> Value(g, s)]
    BY <2>1, <2>2
  <2> QED BY <2>3 DEF IsFold
<1> QED BY <1>2

LEMMA InitFolds == Init => Folds
<1> SUFFICES ASSUME Init PROVE Folds
  OBVIOUS
<1>1. Len(protocol) \in Nat /\ next - 1 = 0 /\ 1..0 = {} /\ split = <<>>
  BY ProtocolLength DEF Init
<1>2. IsFold([s \in SUBSET (1..0) |-> <<>>], 0)
  BY <1>1 DEF IsFold, Value
<1>3. ASSUME NEW f, IsFold(f, Len(protocol)) PROVE f[1..0] = <<>>
  BY <1>1, <1>3 DEF IsFold, Value
<1> QED BY <1>1, <1>2, <1>3 DEF Folds

LEMMA StepFolds == IInv /\ Folds /\ [Next]_vars => Folds'
<1> SUFFICES ASSUME IInv, Folds, [Next]_vars PROVE Folds'
  OBVIOUS
<1>1. /\ Len(protocol) \in Nat /\ DOMAIN protocol = 1..Len(protocol)
      /\ next \in 1..(Len(protocol) + 1) /\ next - 1 \in Nat /\ next - 1 + 1 = next
  BY ProtocolLength DEF IInv, TypeOK
<1>2. CASE Turn
  <2>1. /\ next \in 1..Len(protocol) /\ next' - 1 = next
        /\ protocol' = protocol /\ split' = Put(split, protocol[next])
    BY <1>1, <1>2 DEF Turn
  <2>2. \E f : IsFold(f, next)
    BY <1>1, FoldOneMore DEF Folds
  <2>3. ASSUME NEW f, IsFold(f, Len(protocol))
        PROVE  f[1..next] = Put(split, protocol[next])
    <3>1. Max(1..next) = next /\ (1..next) \ {next} = 1..(next - 1)
      BY <1>1, MaxOfPrefix
    <3>2. f[1..next] = Value(f, 1..next) /\ 1..next # {}
      BY <1>1, <2>1, <2>3 DEF IsFold
    <3>3. f[1..(next - 1)] = split
      BY <2>3 DEF Folds
    <3> QED BY <3>1, <3>2, <3>3 DEF Value
  <2>4. \A f, n : IsFold(f, n)' <=> IsFold(f, n)
    BY <2>1 DEF IsFold, Value
  <2> QED BY <2>1, <2>2, <2>3, <2>4 DEF Folds
<1>3. CASE UNCHANGED <<protocol, next, split>>
  BY <1>3 DEF Folds, IsFold, Value
<1> QED BY <1>2, <1>3 DEF Next, Throw, Return, vars

LEMMA FoldedSplit == IInv /\ Folds => ReturnsTheFold
<1> SUFFICES ASSUME IInv, Folds, outcome = "returned"
             PROVE  split = SplitProtocol(protocol)
  BY DEF ReturnsTheFold
<1>1. Len(protocol) \in Nat /\ DOMAIN protocol = 1..Len(protocol)
  BY ProtocolLength DEF IInv, TypeOK
<1>2. next - 1 = Len(protocol)
  BY <1>1 DEF IInv, Passed
<1> DEFINE fold == CHOOSE f : IsFold(f, Len(protocol))
<1>3. IsFold(fold, Len(protocol))
  BY <1>2 DEF Folds
<1>4. fold[1..(next - 1)] = split
  BY <1>3 DEF Folds
<1> QED BY <1>1, <1>2, <1>4, FoldOfProtocol

\* For every protocol of good parts, the loop returns what the other modules take
\* for its result, a fold of the parts from the first to the last.
THEOREM LoopIsTheFold == Spec => []ReturnsTheFold
<1> QED BY FoldedSplit, InitSplit, StepSplit, InitFolds, StepFolds, PTL DEF Spec

\* All artifacts that the actions of metadata.actionsMap make.
Artifacts == UNION {ArtifactsToPersist[a] : a \in Action}

\* The result of splitProtocol is a map from artifacts of the metadata to parts:
\* what PredictorReload assumes of Split, for every protocol that is not
\* Unsplittable (SplitAssumption).
THEOREM MeetsSplitAssumption ==
    Spec => [](outcome = "returned" =>
                  SplitProtocol(protocol) \in UNION {[S -> Part] : S \in SUBSET Artifacts})
<1>1. ASSUME IInv, Folds, outcome = "returned"
      PROVE  SplitProtocol(protocol) \in UNION {[S -> Part] : S \in SUBSET Artifacts}
  <2>1. /\ Len(protocol) \in Nat /\ DOMAIN protocol = 1..Len(protocol)
        /\ next = Len(protocol) + 1
    BY <1>1, ProtocolLength DEF IInv, TypeOK, Passed
  <2>2. ASSUME NEW i \in DOMAIN protocol PROVE Persisted(protocol[i]) \subseteq Artifacts
    <3>1. ActionOf(protocol[i]) \in Action \union {Pipeline}
      BY <1>1, <2>1 DEF IInv, Passed, Throws
    <3> QED BY <3>1, ActionAssumption DEF Persisted, Artifacts
  <2>3. DOMAIN split \subseteq Artifacts
    BY <1>1, <2>1, <2>2 DEF IInv, TypeOK
  <2>4. split \in [DOMAIN split -> Part]
    BY <1>1 DEF IInv, TypeOK
  <2>5. split = SplitProtocol(protocol)
    BY <1>1, FoldedSplit DEF ReturnsTheFold
  <2> QED BY <2>3, <2>4, <2>5
<1>2. IInv /\ Folds =>
        (outcome = "returned" =>
            SplitProtocol(protocol) \in UNION {[S -> Part] : S \in SUBSET Artifacts})
  BY <1>1
<1> QED BY <1>2, InitSplit, StepSplit, InitFolds, StepFolds, PTL DEF Spec
=============================================================================
