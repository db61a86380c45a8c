----------------------------- MODULE MailboxLemmas -----------------------------
(***************************************************************************)
(* Facts about sequences as mailboxes: messages are added at the end and   *)
(* taken from the front.  The proofs about the actors cite them.           *)
(***************************************************************************)
EXTENDS SequenceTheorems, TLAPS

\* The messages in a mailbox.
In(q) == {q[i] : i \in DOMAIN q}

\* Each message of a mailbox is in the relation r to all that are behind it.
Chain(q, r) == \A i, j \in DOMAIN q : i < j => <<q[i], q[j]>> \in r

\* What is in a mailbox has the type of its messages.
LEMMA ElementIn ==
    ASSUME NEW S, NEW q \in Seq(S), NEW i \in DOMAIN q
    PROVE  q[i] \in S
<1> QED BY LenProperties, ElementOfSeq

\* Taking the first message of a mailbox.
LEMMA TakeFirst ==
    ASSUME NEW S, NEW q \in Seq(S), q # <<>>
    PROVE  /\ Head(q) \in S /\ Head(q) = q[1] /\ 1 \in DOMAIN q
           /\ Tail(q) \in Seq(S)
           /\ \A i \in DOMAIN Tail(q) : /\ Tail(q)[i] = q[i + 1]
                                        /\ i + 1 \in DOMAIN q /\ i + 1 # 1
           /\ \A i, j \in DOMAIN Tail(q) : i # j => i + 1 # j + 1
<1>1. Len(q) \in Nat \ {0} /\ DOMAIN q = 1..Len(q)
  BY EmptySeq, LenProperties
<1>2. /\ Tail(q) \in Seq(S) /\ Len(Tail(q)) = Len(q) - 1 /\ Head(q) \in S
      /\ \A i \in 1..Len(Tail(q)) : Tail(q)[i] = q[i + 1]
  BY HeadTailProperties
<1>3. DOMAIN Tail(q) = 1..(Len(q) - 1)
  BY <1>2, LenProperties
<1>4. Head(q) = q[1]
  OBVIOUS
<1> QED BY <1>1, <1>2, <1>3, <1>4

\* A mailbox none of whose entries is a message of its type is empty.
LEMMA NothingIn ==
    ASSUME NEW S, NEW q \in Seq(S), \A i \in DOMAIN q : q[i] \notin S
    PROVE  q = <<>>
<1> QED BY TakeFirst

\* Adding a message to a mailbox.
LEMMA AddLast ==
    ASSUME NEW S, NEW q \in Seq(S), NEW e \in S
    PROVE  /\ Append(q, e) \in Seq(S)
           /\ \A i \in DOMAIN q : i \in DOMAIN Append(q, e) /\ Append(q, e)[i] = q[i]
           /\ \E last \in DOMAIN Append(q, e) :
                 /\ last \notin DOMAIN q /\ Append(q, e)[last] = e
                 /\ \A i \in DOMAIN Append(q, e) : i # last => i \in DOMAIN q
<1>1. Len(q) \in Nat /\ DOMAIN q = 1..Len(q)
  BY LenProperties
<1>2. /\ Append(q, e) \in Seq(S) /\ Len(Append(q, e)) = Len(q) + 1
      /\ \A i \in 1..Len(q) : Append(q, e)[i] = q[i]
      /\ Append(q, e)[Len(q) + 1] = e
  BY AppendProperties
<1>3. DOMAIN Append(q, e) = 1..(Len(q) + 1)
  BY <1>2, LenProperties
<1> QED BY <1>1, <1>2, <1>3

\* Adding several messages at once.
LEMMA AddAll ==
    ASSUME NEW S, NEW q \in Seq(S), NEW r \in Seq(S)
    PROVE  q \o r \in Seq(S) /\ In(q \o r) = In(q) \union In(r)
<1>1. /\ Len(q) \in Nat /\ DOMAIN q = 1..Len(q)
      /\ Len(r) \in Nat /\ DOMAIN r = 1..Len(r)
  BY LenProperties
<1>2. /\ q \o r \in Seq(S) /\ Len(q \o r) = Len(q) + Len(r)
      /\ \A i \in 1..(Len(q) + Len(r)) :
            (q \o r)[i] = IF i <= Len(q) THEN q[i] ELSE r[i - Len(q)]
  BY ConcatProperties
<1>3. DOMAIN (q \o r) = 1..(Len(q) + Len(r))
  BY <1>2, LenProperties
<1> DEFINE s == q \o r
<1> HIDE DEF s
<1>4. /\ DOMAIN s = 1..(Len(q) + Len(r))
      /\ \A i \in 1..(Len(q) + Len(r)) :
            s[i] = IF i <= Len(q) THEN q[i] ELSE r[i - Len(q)]
  BY <1>2, <1>3 DEF s
<1>5. \A i \in DOMAIN s : \/ i \in DOMAIN q /\ s[i] = q[i]
                          \/ i - Len(q) \in DOMAIN r /\ s[i] = r[i - Len(q)]
  BY <1>1, <1>4
<1>6. \A i \in DOMAIN q : i \in DOMAIN s /\ s[i] = q[i]
  BY <1>1, <1>4
<1>7. \A i \in DOMAIN r : i + Len(q) \in DOMAIN s /\ s[i + Len(q)] = r[i]
  BY <1>1, <1>4
<1>8. In(s) = In(q) \union In(r)
  BY <1>5, <1>6, <1>7 DEF In
<1> QED BY <1>2, <1>8 DEF s

\* The same for one message.
LEMMA InAppend ==
    ASSUME NEW S, NEW q \in Seq(S), NEW e \in S
    PROVE  Append(q, e) \in Seq(S) /\ In(Append(q, e)) = In(q) \union {e}
<1> QED BY AddLast DEF In

\* What is left in a mailbox when its first message is taken.
LEMMA InTail ==
    ASSUME NEW S, NEW q \in Seq(S), q # <<>>
    PROVE  /\ Tail(q) \in Seq(S) /\ Head(q) \in In(q) /\ Head(q) \in S
           /\ In(q) = {Head(q)} \union In(Tail(q))
<1>1. /\ Len(q) \in Nat \ {0} /\ DOMAIN q = 1..Len(q)
  BY EmptySeq, LenProperties
<1>2. /\ Tail(q) \in Seq(S) /\ Len(Tail(q)) = Len(q) - 1 /\ Head(q) = q[1]
      /\ \A i \in 1..Len(Tail(q)) : Tail(q)[i] = q[i + 1]
  BY HeadTailProperties
<1>3. DOMAIN Tail(q) = 1..(Len(q) - 1)
  BY <1>2, LenProperties
<1>4. \A i \in DOMAIN q : \/ i = 1
                          \/ i - 1 \in DOMAIN Tail(q) /\ q[i] = Tail(q)[i - 1]
  BY <1>1, <1>2, <1>3
<1>5. \A i \in DOMAIN Tail(q) : i + 1 \in DOMAIN q /\ Tail(q)[i] = q[i + 1]
  BY <1>1, <1>2, <1>3
<1>6. In(q) = {Head(q)} \union In(Tail(q))
  <2>1. 1 \in DOMAIN q
    BY <1>1
  <2>2. \A e \in In(q) : e = Head(q) \/ e \in In(Tail(q))
    BY <1>2, <1>4 DEF In
  <2>3. Head(q) \in In(q)
    BY <1>2, <2>1 DEF In
  <2>4. \A e \in In(Tail(q)) : e \in In(q)
    BY <1>5 DEF In
  <2> QED BY <2>2, <2>3, <2>4
<1> QED BY <1>2, <1>6, TakeFirst

\* Messages have their type, and the empty mailbox has none.
LEMMA InType ==
    ASSUME NEW S
    PROVE  /\ \A q \in Seq(S) : In(q) \subseteq S
           /\ <<>> \in Seq(S) /\ In(<<>>) = {}
<1> QED BY ElementIn, EmptySeq DEF In

\* The order of messages in what is left of a mailbox.
LEMMA ChainTail ==
    ASSUME NEW S, NEW r, NEW q \in Seq(S), q # <<>>, Chain(q, r)
    PROVE  /\ Chain(Tail(q), r)
           /\ \A e \in In(Tail(q)) : <<Head(q), e>> \in r
<1>1. /\ Len(q) \in Nat \ {0} /\ DOMAIN q = 1..Len(q)
  BY EmptySeq, LenProperties
<1>2. /\ Tail(q) \in Seq(S) /\ Len(Tail(q)) = Len(q) - 1 /\ Head(q) = q[1]
      /\ \A i \in 1..Len(Tail(q)) : Tail(q)[i] = q[i + 1]
  BY HeadTailProperties
<1>3. DOMAIN Tail(q) = 1..(Len(q) - 1)
  BY <1>2, LenProperties
<1> DEFINE t == Tail(q)
<1>4. \A i \in DOMAIN t : i \in Nat \ {0} /\ i + 1 \in DOMAIN q /\ t[i] = q[i + 1]
  BY <1>1, <1>2, <1>3
<1>5. 1 \in DOMAIN q /\ Head(q) = q[1]
  BY <1>1, <1>2
<1> HIDE DEF t
<1>6. Chain(t, r)
  BY <1>4 DEF Chain
<1>7. \A i \in DOMAIN t : <<q[1], t[i]>> \in r
  BY <1>4, <1>5 DEF Chain
<1>8. \A e \in In(t) : <<Head(q), e>> \in r
  BY <1>5, <1>7 DEF In
<1> QED BY <1>6, <1>8 DEF t

\* The order of messages in a mailbox to which one is added.
LEMMA ChainAppend ==
    ASSUME NEW S, NEW r, NEW q \in Seq(S), NEW e \in S, Chain(q, r),
           \A m \in In(q) : <<m, e>> \in r
    PROVE  Chain(Append(q, e), r)
<1>1. /\ Len(q) \in Nat /\ DOMAIN q = 1..Len(q)
  BY LenProperties
<1>2. /\ Append(q, e) \in Seq(S) /\ Len(Append(q, e)) = Len(q) + 1
      /\ \A i \in 1..Len(q) : Append(q, e)[i] = q[i]
      /\ Append(q, e)[Len(q) + 1] = e
  BY AppendProperties
<1>3. DOMAIN Append(q, e) = 1..(Len(q) + 1)
  BY <1>2, LenProperties
<1> DEFINE a == Append(q, e)
<1>4. /\ DOMAIN a = 1..(Len(q) + 1) /\ a[Len(q) + 1] = e
      /\ \A i \in DOMAIN q : a[i] = q[i]
  BY <1>1, <1>2, <1>3
<1> HIDE DEF a
<1>5. \A i, j \in DOMAIN a : i < j =>
         /\ i \in DOMAIN q /\ a[i] = q[i]
         /\ (j \in DOMAIN q /\ a[j] = q[j]) \/ a[j] = e
  BY <1>1, <1>4
<1>6. \A i \in DOMAIN q : <<q[i], e>> \in r
  BY DEF In
<1>7. Chain(a, r)
  BY <1>5, <1>6 DEF Chain
<1> QED BY <1>7 DEF a

\* The order of messages in a mailbox to which several are added.
LEMMA ChainAddAll ==
    ASSUME NEW S, NEW r, NEW q \in Seq(S), NEW p \in Seq(S), Chain(q, r), Chain(p, r),
           \A m \in In(q) : \A n \in In(p) : <<m, n>> \in r
    PROVE  Chain(q \o p, r)
<1>1. /\ Len(q) \in Nat /\ DOMAIN q = 1..Len(q)
      /\ Len(p) \in Nat /\ DOMAIN p = 1..Len(p)
  BY LenProperties
<1>2. /\ q \o p \in Seq(S) /\ Len(q \o p) = Len(q) + Len(p)
      /\ \A i \in 1..(Len(q) + Len(p)) :
            (q \o p)[i] = IF i <= Len(q) THEN q[i] ELSE p[i - Len(q)]
  BY ConcatProperties
<1>3. DOMAIN (q \o p) = 1..(Len(q) + Len(p))
  BY <1>2, LenProperties
<1> DEFINE a == q \o p
<1>4. /\ DOMAIN a = 1..(Len(q) + Len(p))
      /\ \A i \in DOMAIN a :
            a[i] = IF i <= Len(q) THEN q[i] ELSE p[i - Len(q)]
  BY <1>2, <1>3
<1> HIDE DEF a
<1>5. \A i \in DOMAIN q : \A j \in DOMAIN p : <<q[i], p[j]>> \in r
  BY DEF In
<1>6. ASSUME NEW i \in DOMAIN a, NEW j \in DOMAIN a, i < j
      PROVE  <<a[i], a[j]>> \in r
  <2>1. CASE j <= Len(q)
    <3>1. i \in DOMAIN q /\ j \in DOMAIN q /\ a[i] = q[i] /\ a[j] = q[j]
      BY <1>1, <1>4, <1>6, <2>1
    <3> QED BY <1>6, <3>1 DEF Chain
  <2>2. CASE i <= Len(q) /\ j > Len(q)
    <3>1. i \in DOMAIN q /\ j - Len(q) \in DOMAIN p /\ a[i] = q[i] /\ a[j] = p[j - Len(q)]
      BY <1>1, <1>4, <1>6, <2>2
    <3> QED BY <1>5, <3>1
  <2>3. CASE i > Len(q)
    <3>1. /\ i - Len(q) \in DOMAIN p /\ j - Len(q) \in DOMAIN p
          /\ i - Len(q) < j - Len(q)
          /\ a[i] = p[i - Len(q)] /\ a[j] = p[j - Len(q)]
      BY <1>1, <1>4, <1>6, <2>3
    <3> QED BY <3>1 DEF Chain
  <2> QED BY <1>1, <1>4, <2>1, <2>2, <2>3
<1>7. Chain(a, r)
  BY <1>6 DEF Chain
<1> QED BY <1>7 DEF a
=============================================================================
