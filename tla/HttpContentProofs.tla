------------------------- MODULE HttpContentProofs --------------------------
(***************************************************************************)
(* Proofs about HttpContent, for bodies of any length, in any number of    *)
(* chunks, cut off anywhere and split anywhere between reads.              *)
(***************************************************************************)
EXTENDS HttpContent, SequenceTheorems, WellFoundedInduction, TLAPS

----------------------------------------------------------------------------
(***************************************************************************)
(* Induction: what fails for some number fails for a least one.            *)
(***************************************************************************)
LEMMA LeastNumber ==
  ASSUME NEW T, T \subseteq Nat, T # {}
  PROVE  \E x \in T : \A y \in T : ~ (y < x)
<1>. DEFINE R == {p \in Nat \X Nat : p[1] < p[2]}
<1>1. R = OpToRel(<, Nat)
  BY DEF OpToRel
<1>2. IsWellFoundedOn(R, Nat)
  BY <1>1, NatLessThanWellFounded
<1>3. \E x \in T : \A y \in T : ~ (<<y, x>> \in R)
  <2>. HIDE DEF R
  <2>. QED  BY <1>2, WFMin
<1>. QED  BY <1>3

----------------------------------------------------------------------------
(***************************************************************************)
(* FlattenSeq joins the sequences of a sequence.  f holds the joins of its *)
(* initial pieces.                                                         *)
(***************************************************************************)
Joins(f, s) ==
  f = [i \in 1..Len(s) |-> IF i = 1 THEN s[i] ELSE f[i - 1] \o s[i]]

LEMMA FlattenIsJoin ==
  ASSUME NEW S, NEW s \in Seq(S), s # <<>>
  PROVE  FlattenSeq(s) = (CHOOSE f : Joins(f, s))[Len(s)]
BY DEF FlattenSeq, Joins

LEMMA FlattenEmpty == FlattenSeq(<<>>) = <<>>
BY DEF FlattenSeq

\* The joins exist, each of them a sequence of what the pieces hold.
LEMMA JoinsExist ==
  ASSUME NEW S, NEW s \in Seq(Seq(S))
  PROVE  \E f : Joins(f, s) /\ \A i \in 1..Len(s) : f[i] \in Seq(S)
<1>. DEFINE Upto(n, f) ==
              /\ f = [i \in 1..n |-> IF i = 1 THEN s[i] ELSE f[i - 1] \o s[i]]
              /\ \A i \in 1..n : f[i] \in Seq(S)
            T == {n \in 0..Len(s) : ~ \E f : Upto(n, f)}
<1>1. T = {}
  <2>1. SUFFICES ASSUME T # {} PROVE FALSE
    OBVIOUS
  <2>2. PICK n \in T : \A m \in T : ~ (m < n)
    <3>. T \subseteq Nat
      <4>. HIDE DEF Upto
      <4>. QED  OBVIOUS
    <3>. HIDE DEF T
    <3>. QED  BY <2>1, LeastNumber
  <2>3. n # 0
    <3>. DEFINE f == [i \in 1..0 |-> IF i = 1 THEN s[i] ELSE <<>>]
    <3>1. \A i \in 1..0 : FALSE
      OBVIOUS
    <3>2. f = [i \in 1..0 |-> IF i = 1 THEN s[i] ELSE f[i - 1] \o s[i]]
      BY <3>1, Zenon
    <3>3. Upto(0, f)
      <4>. HIDE DEF f
      <4>. QED  BY <3>1, <3>2
    <3>. HIDE DEF Upto, f
    <3>. QED  BY <3>3, <2>2
  <2>4. n \in 1..Len(s) /\ n - 1 \in 0..Len(s)
    BY <2>2, <2>3
  <2>5. PICK g : Upto(n - 1, g)
    <3>. n - 1 \notin T
      <4>. HIDE DEF T
      <4>. QED  BY <2>2, <2>4
    <3>. HIDE DEF Upto
    <3>. QED  BY <2>4
  <2>. DEFINE f == [i \in 1..n |->
                      IF i = n THEN (IF n = 1 THEN s[n] ELSE g[n - 1] \o s[n])
                      ELSE g[i]]
  <2>6. \A i \in 1..n : f[i] \in Seq(S)
    <3>1. s[n] \in Seq(S)
      BY <2>4
    <3>2. \A i \in 1..n - 1 : g[i] \in Seq(S)
      BY <2>5
    <3>3. n # 1 => g[n - 1] \o s[n] \in Seq(S)
      BY <3>1, <3>2, <2>4
    <3>. QED  BY <3>1, <3>2, <3>3, <2>4
  <2>7. f = [i \in 1..n |-> IF i = 1 THEN s[i] ELSE f[i - 1] \o s[i]]
    <3>1. ASSUME NEW i \in 1..n
          PROVE  f[i] = IF i = 1 THEN s[i] ELSE f[i - 1] \o s[i]
      <4>1. CASE i = n
        BY <4>1, <2>4
      <4>2. CASE i # n
        <5>1. i \in 1..n - 1 /\ f[i] = g[i]
          BY <4>2, <2>4
        <5>2. g[i] = IF i = 1 THEN s[i] ELSE g[i - 1] \o s[i]
          BY <5>1, <2>5
        <5>3. i # 1 => f[i - 1] = g[i - 1]
          BY <5>1, <2>4
        <5>. HIDE DEF f
        <5>. QED  BY <5>1, <5>2, <5>3
      <4>. QED  BY <4>1, <4>2
    <3>2. f = [i \in 1..n |-> f[i]]
      OBVIOUS
    <3>. HIDE DEF f
    <3>. QED  BY <3>1, <3>2
  <2>8. Upto(n, f)
    <3>. HIDE DEF f
    <3>. QED  BY <2>6, <2>7
  <2>. HIDE DEF f, Upto
  <2>. QED  BY <2>2, <2>8
<1>2. \E f : Upto(Len(s), f)
  <2>. Len(s) \in 0..Len(s)
    OBVIOUS
  <2>. HIDE DEF Upto
  <2>. QED  BY <1>1
<1>. QED  BY <1>2 DEF Joins

\* They are the same for a sequence and for one that it begins.
Begins(s, t) == Len(s) <= Len(t) /\ \A i \in 1..Len(s) : s[i] = t[i]

LEMMA JoinsAgree ==
  ASSUME NEW S, NEW s \in Seq(S), NEW t \in Seq(S), NEW f, NEW g,
         Joins(f, s), Joins(g, t), Begins(s, t)
  PROVE  \A i \in 1..Len(s) : f[i] = g[i]
<1>0. Len(s) <= Len(t) /\ \A i \in 1..Len(s) : s[i] = t[i]
  BY DEF Begins
<1>. DEFINE T == {i \in 1..Len(s) : f[i] # g[i]}
<1>1. SUFFICES ASSUME T # {} PROVE FALSE
  OBVIOUS
<1>2. PICK n \in T : \A m \in T : ~ (m < n)
  <2>. T \subseteq Nat
    OBVIOUS
  <2>. HIDE DEF T
  <2>. QED  BY <1>1, LeastNumber
<1>3. f[n] = (IF n = 1 THEN s[n] ELSE f[n - 1] \o s[n])
  BY <1>2 DEF Joins
<1>4. g[n] = (IF n = 1 THEN t[n] ELSE g[n - 1] \o t[n])
  <2>. n \in 1..Len(t)
    BY <1>0, <1>2
  <2>. QED  BY DEF Joins
<1>5. n # 1 => f[n - 1] = g[n - 1]
  BY <1>2
<1>6. s[n] = t[n] /\ f[n] # g[n]
  BY <1>0, <1>2
<1>. QED  BY <1>3, <1>4, <1>5, <1>6

\* FlattenSeq gives the last join.
LEMMA FlattenJoins ==
  ASSUME NEW S, NEW s \in Seq(Seq(S)), s # <<>>
  PROVE  \E f : /\ Joins(f, s) /\ FlattenSeq(s) = f[Len(s)]
                /\ \A i \in 1..Len(s) : f[i] \in Seq(S)
<1>1. PICK g : Joins(g, s) /\ \A i \in 1..Len(s) : g[i] \in Seq(S)
  BY JoinsExist
<1>. DEFINE f == CHOOSE h : Joins(h, s)
<1>2. Joins(f, s)
  BY <1>1
<1>3. FlattenSeq(s) = f[Len(s)]
  BY FlattenIsJoin
<1>4. \A i \in 1..Len(s) : f[i] = g[i]
  <2>. Begins(s, s)
    BY DEF Begins
  <2>. HIDE DEF f
  <2>. QED  BY <1>1, <1>2, JoinsAgree
<1>. HIDE DEF f
<1>. QED  BY <1>1, <1>2, <1>3, <1>4

LEMMA FlattenType ==
  ASSUME NEW S, NEW s \in Seq(Seq(S))
  PROVE  FlattenSeq(s) \in Seq(S)
<1>1. CASE s = <<>>
  <2>1. FlattenSeq(s) = <<>>
    BY <1>1, FlattenEmpty
  <2>2. <<>> \in Seq(S)
    OBVIOUS
  <2>. QED  BY <2>1, <2>2, Zenon
<1>2. CASE s # <<>>
  <2>1. Len(s) \in 1..Len(s)
    BY <1>2
  <2>. QED  BY <1>2, <2>1, FlattenJoins
<1>. QED  BY <1>1, <1>2

\* One more piece is put at the end.
LEMMA FlattenAppend ==
  ASSUME NEW S, NEW s \in Seq(Seq(S)), NEW x \in Seq(S)
  PROVE  FlattenSeq(Append(s, x)) = FlattenSeq(s) \o x
<1>. DEFINE t == Append(s, x)
<1>1. /\ t \in Seq(Seq(S)) /\ t # <<>> /\ Len(t) = Len(s) + 1
      /\ t[Len(t)] = x /\ \A i \in 1..Len(s) : t[i] = s[i]
  BY AppendProperties
<1>. HIDE DEF t
<1>2. PICK g : Joins(g, t) /\ FlattenSeq(t) = g[Len(t)]
  BY <1>1, FlattenJoins
<1>3. /\ Len(s) \in Nat /\ Len(t) \in 1..Len(t)
      /\ g[Len(t)] = (IF Len(t) = 1 THEN t[Len(t)] ELSE g[Len(t) - 1] \o t[Len(t)])
  <2>1. Len(s) \in Nat /\ Len(t) \in 1..Len(t)
    BY <1>1
  <2>2. \A i \in 1..Len(t) : g[i] = IF i = 1 THEN t[i] ELSE g[i - 1] \o t[i]
    <3>. Joins(g, t)
      BY <1>2
    <3>. QED  BY DEF Joins
  <2>. QED  BY <2>1, <2>2
<1>4. CASE s = <<>>
  <2>1. Len(s) = 0
    BY <1>4
  <2>2. FlattenSeq(t) = x
    BY <1>1, <1>2, <1>3, <2>1
  <2>3. <<>> \o x = x
    BY ConcatEmptySeq
  <2>. QED  BY <1>4, <2>2, <2>3, FlattenEmpty DEF t
<1>5. CASE s # <<>>
  <2>1. Len(s) # 0
    BY <1>5
  <2>2. PICK f : Joins(f, s) /\ FlattenSeq(s) = f[Len(s)]
    BY <1>5, FlattenJoins
  <2>3. \A i \in 1..Len(s) : f[i] = g[i]
    <3>1. Begins(s, t)
      BY <1>1 DEF Begins
    <3>. DEFINE Q == Seq(S)
    <3>2. s \in Seq(Q) /\ t \in Seq(Q)
      BY <1>1
    <3>3. Joins(f, s) /\ Joins(g, t)
      BY <1>2, <2>2
    <3>. HIDE DEF Q
    <3>. QED  BY <3>1, <3>2, <3>3, JoinsAgree
  <2>4. FlattenSeq(t) = g[Len(s)] \o x
    BY <1>1, <1>2, <1>3, <2>1
  <2>5. g[Len(s)] = FlattenSeq(s)
    BY <1>3, <2>1, <2>2, <2>3
  <2>. QED  BY <2>4, <2>5 DEF t
<1>. QED  BY <1>4, <1>5

----------------------------------------------------------------------------
(***************************************************************************)
(* The bytes of the body among the first k tokens of the wire.             *)
(***************************************************************************)
BytesTo(wire, k) == FlattenSeq([i \in 1..k |-> Piece(wire[i])])

LEMMA BytesToType ==
  ASSUME NEW wire \in Seq(Token), NEW k \in 0..Len(wire)
  PROVE  BytesTo(wire, k) \in Seq(Token)
<1>1. \A i \in 1..k : Piece(wire[i]) \in Seq(Token)
  BY DEF Piece
<1>2. [i \in 1..k |-> Piece(wire[i])] \in Seq(Seq(Token))
  BY <1>1, IsASeq
<1>. QED  BY <1>2, FlattenType DEF BytesTo

LEMMA BytesToNone ==
  ASSUME NEW wire
  PROVE  BytesTo(wire, 0) = <<>>
<1>1. [i \in 1..0 |-> Piece(wire[i])] = <<>>
  OBVIOUS
<1>. QED  BY <1>1, FlattenEmpty DEF BytesTo

LEMMA BytesToNext ==
  ASSUME NEW wire \in Seq(Token), NEW k \in Nat, k + 1 \in DOMAIN wire
  PROVE  BytesTo(wire, k + 1) = BytesTo(wire, k) \o Piece(wire[k + 1])
<1>. DEFINE s == [i \in 1..k |-> Piece(wire[i])]
            t == [i \in 1..k + 1 |-> Piece(wire[i])]
            x == Piece(wire[k + 1])
<1>1. \A i \in 1..k + 1 : Piece(wire[i]) \in Seq(Token)
  BY DEF Piece
<1>2. s \in Seq(Seq(Token)) /\ t \in Seq(Seq(Token)) /\ x \in Seq(Token)
  <2>1. x \in Seq(Token)
    BY <1>1
  <2>2. \A i \in 1..k : Piece(wire[i]) \in Seq(Token)
    BY <1>1
  <2>3. s \in Seq(Seq(Token))
    BY <2>2, IsASeq
  <2>4. t \in Seq(Seq(Token))
    BY <1>1, IsASeq
  <2>. QED  BY <2>1, <2>3, <2>4
<1>3. Len(s) = k /\ Len(t) = k + 1 /\ t[k + 1] = x /\ \A i \in 1..k : t[i] = s[i]
  OBVIOUS
<1>4. t = Append(s, x)
  <2>. HIDE DEF s, t, x
  <2>1. /\ Append(s, x) \in Seq(Seq(Token)) /\ Len(Append(s, x)) = k + 1
        /\ Append(s, x)[k + 1] = x /\ \A i \in 1..k : Append(s, x)[i] = s[i]
    BY <1>2, <1>3, AppendProperties
  <2>2. \A i \in 1..k + 1 : t[i] = Append(s, x)[i]
    BY <2>1, <1>3
  <2>3. Len(t) = Len(Append(s, x)) /\ \A i \in 1..Len(t) : t[i] = Append(s, x)[i]
    BY <2>1, <2>2, <1>3
  <2>. HIDE DEF Append
  <2>. QED  BY <1>2, <2>1, <2>3, SeqEqual
<1>5. FlattenSeq(Append(s, x)) = FlattenSeq(s) \o x
  <2>. HIDE DEF s, x
  <2>. QED  BY <1>2, FlattenAppend
<1>. QED  BY <1>4, <1>5 DEF BytesTo

LEMMA Regroup ==
  \A a, b, c \in Seq(Token) : (a \o b) \o c = a \o (b \o c)
BY ConcatAssociative

\* The m tokens after the first k.
LEMMA StretchOf ==
  ASSUME NEW wire \in Seq(Token), NEW k \in Nat, NEW m \in Nat, k + m <= Len(wire)
  PROVE  /\ SubSeq(wire, k + 1, k + m) \in Seq(Token)
         /\ Len(SubSeq(wire, k + 1, k + m)) = m
         /\ \A i \in 1..m : SubSeq(wire, k + 1, k + m)[i] = wire[k + i]
<1>. DEFINE sub == SubSeq(wire, k + 1, k + m)
<1>1. \A i \in k + 1..k + m : wire[i] \in Token
  OBVIOUS
<1>2. /\ sub \in Seq(Token)
      /\ Len(sub) = IF k + 1 <= k + m THEN k + m - (k + 1) + 1 ELSE 0
      /\ \A i \in 1..k + m - (k + 1) + 1 : sub[i] = wire[k + 1 + i - 1]
  BY <1>1, SubSeqProperties
<1>. HIDE DEF sub
<1>3. sub \in Seq(Token) /\ Len(sub) = m /\ \A i \in 1..m : sub[i] = wire[k + i]
  BY <1>2
<1>. QED  BY <1>3 DEF sub

\* A run of bytes is all passed on.
LEMMA BytesRun ==
  ASSUME NEW wire \in Seq(Token), NEW k \in Nat, NEW n \in Nat,
         k + n <= Len(wire), \A i \in k + 1..k + n : wire[i].t = "byte"
  PROVE  BytesTo(wire, k + n) = BytesTo(wire, k) \o SubSeq(wire, k + 1, k + n)
<1>. DEFINE Run(m) == SubSeq(wire, k + 1, k + m)
            T == {m \in 0..n : BytesTo(wire, k + m) # BytesTo(wire, k) \o Run(m)}
<1>1. ASSUME NEW m \in 0..n
      PROVE  /\ Run(m) \in Seq(Token) /\ Len(Run(m)) = m
             /\ \A i \in 1..m : Run(m)[i] = wire[k + i]
  <2>. m \in Nat /\ k + m <= Len(wire)
    OBVIOUS
  <2>. QED  BY StretchOf
<1>2. ASSUME T # {} PROVE FALSE
  <2>1. PICK m \in T : \A j \in T : ~ (j < m)
    <3>. T \subseteq Nat
      OBVIOUS
    <3>. HIDE DEF T
    <3>. QED  BY <1>2, LeastNumber
  <2>2. m \in 0..n /\ BytesTo(wire, k + m) # BytesTo(wire, k) \o Run(m)
    BY <2>1
  <2>3. CASE m = 0
    <3>1. Run(0) = <<>>
      BY SubSeqEmpty
    <3>2. BytesTo(wire, k) \in Seq(Token)
      BY <2>2, BytesToType
    <3>. HIDE DEF Run
    <3>3. BytesTo(wire, k) \o Run(0) = BytesTo(wire, k)
      BY <3>1, <3>2, ConcatEmptySeq
    <3>4. k + 0 = k
      OBVIOUS
    <3>. QED  BY <2>2, <2>3, <3>3, <3>4, Zenon
  <2>4. CASE m # 0
    <3>. DEFINE last == <<wire[k + m]>>
                B == BytesTo(wire, k)
    <3>1. m - 1 \in 0..n /\ k + m \in DOMAIN wire /\ (k + (m - 1)) + 1 = k + m
      BY <2>2, <2>4
    <3>2. BytesTo(wire, k + (m - 1)) = B \o Run(m - 1)
      <4>. m - 1 \notin T
        <5>. HIDE DEF T
        <5>. QED  BY <2>1, <2>2, <3>1
      <4>. HIDE DEF Run
      <4>. QED  BY <3>1
    <3>3. BytesTo(wire, k + m) = BytesTo(wire, k + (m - 1)) \o last
      <4>1. Piece(wire[k + m]) = last
        BY <2>2, <2>4 DEF Piece
      <4>2. k + (m - 1) \in Nat
        BY <3>1
      <4>. HIDE DEF last
      <4>. QED  BY <3>1, <4>1, <4>2, BytesToNext
    <3>4. B \in Seq(Token) /\ last \in Seq(Token)
      BY <3>1, <2>2, BytesToType
    <3>5. Run(m) = Run(m - 1) \o last
      <4>1. Run(m) \in Seq(Token) /\ Len(Run(m)) = m /\ \A i \in 1..m : Run(m)[i] = wire[k + i]
        BY <1>1, <2>2
      <4>2. /\ Run(m - 1) \in Seq(Token) /\ Len(Run(m - 1)) = m - 1
            /\ \A i \in 1..m - 1 : Run(m - 1)[i] = wire[k + i]
        BY <1>1, <3>1
      <4>3. Len(last) = 1 /\ last[1] = wire[k + m]
        OBVIOUS
      <4>. HIDE DEF Run, last
      <4>4. /\ Run(m - 1) \o last \in Seq(Token)
            /\ Len(Run(m - 1) \o last) = Len(Run(m - 1)) + Len(last)
            /\ \A i \in 1..Len(Run(m - 1)) + Len(last) : (Run(m - 1) \o last)[i] =
                  IF i <= Len(Run(m - 1)) THEN Run(m - 1)[i] ELSE last[i - Len(Run(m - 1))]
        <5>. Run(m - 1) \in Seq(Token) /\ last \in Seq(Token)
          BY <3>4, <4>2
        <5>. QED  BY ConcatProperties
      <4>5. \A i \in 1..m : (Run(m - 1) \o last)[i] = wire[k + i]
        <5>. DEFINE cat == Run(m - 1) \o last
        <5>1. \A i \in 1..m : cat[i] = IF i <= m - 1 THEN Run(m - 1)[i] ELSE last[i - (m - 1)]
          BY <2>2, <4>2, <4>3, <4>4
        <5>. HIDE DEF cat
        <5>2. ASSUME NEW i \in 1..m PROVE cat[i] = wire[k + i]
          <6>1. CASE i <= m - 1
            <7>. i \in 1..m - 1
              BY <3>1, <6>1
            <7>. QED  BY <4>2, <5>1, <6>1
          <6>2. CASE i = m
            BY <3>1, <4>3, <5>1, <6>2
          <6>. QED  BY <2>2, <6>1, <6>2
        <5>. QED  BY <5>2 DEF cat
      <4>6. Len(Run(m - 1) \o last) = m
        BY <3>1, <4>2, <4>3, <4>4
      <4>. QED  BY <4>1, <4>4, <4>5, <4>6, SeqEqual
    <3>6. Run(m - 1) \in Seq(Token)
      BY <1>1, <3>1
    <3>. HIDE DEF Run, last, B
    <3>7. (B \o Run(m - 1)) \o last = B \o (Run(m - 1) \o last)
      BY <3>4, <3>6, Regroup, Zenon
    <3>8. BytesTo(wire, k + m) = B \o Run(m)
      BY <3>2, <3>3, <3>5, <3>7, Zenon
    <3>. QED  BY <2>2, <3>8 DEF B
  <2>. QED  BY <2>3, <2>4
<1>3. n \in 0..n
  OBVIOUS
<1>4. BytesTo(wire, k + n) = BytesTo(wire, k) \o Run(n)
  <2>. HIDE DEF Run
  <2>. QED  BY <1>2, <1>3
<1>. QED  BY <1>4, Zenon

\* What is no byte adds nothing.
LEMMA BytesSkip ==
  ASSUME NEW wire \in Seq(Token), NEW k \in Nat, NEW n \in Nat,
         k + n <= Len(wire), \A i \in k + 1..k + n : wire[i].t # "byte"
  PROVE  BytesTo(wire, k + n) = BytesTo(wire, k)
<1>. DEFINE T == {m \in 0..n : BytesTo(wire, k + m) # BytesTo(wire, k)}
<1>1. ASSUME T # {} PROVE FALSE
  <2>1. PICK m \in T : \A j \in T : ~ (j < m)
    <3>. T \subseteq Nat
      OBVIOUS
    <3>. HIDE DEF T
    <3>. QED  BY <1>1, LeastNumber
  <2>2. m \in 0..n /\ BytesTo(wire, k + m) # BytesTo(wire, k)
    BY <2>1
  <2>3. m # 0
    BY <2>2
  <2>4. m - 1 \in 0..n /\ k + m \in DOMAIN wire /\ (k + (m - 1)) + 1 = k + m
    BY <2>2, <2>3
  <2>5. BytesTo(wire, k + (m - 1)) = BytesTo(wire, k)
    <3>. m - 1 \notin T
      <4>. HIDE DEF T
      <4>. QED  BY <2>1, <2>2, <2>4
    <3>. QED  BY <2>4
  <2>6. Piece(wire[k + m]) = <<>>
    BY <2>2, <2>3 DEF Piece
  <2>7. BytesTo(wire, k + m) = BytesTo(wire, k + (m - 1)) \o <<>>
    <3>. k + (m - 1) \in Nat
      BY <2>4
    <3>. QED  BY <2>4, <2>6, BytesToNext
  <2>8. BytesTo(wire, k) \in Seq(Token)
    BY <2>2, BytesToType
  <2>9. BytesTo(wire, k) \o <<>> = BytesTo(wire, k)
    BY <2>8, ConcatEmptySeq
  <2>. QED  BY <2>2, <2>5, <2>7, <2>9
<1>2. n \notin T
  BY <1>1
<1>. QED  BY <1>2

\* What was sent up to here is the beginning of what is sent further on.
LEMMA BytesGrow ==
  ASSUME NEW wire \in Seq(Token), NEW k \in Nat, NEW n \in Nat, k + n <= Len(wire)
  PROVE  \E q \in Seq(Token) : BytesTo(wire, k + n) = BytesTo(wire, k) \o q
<1>. DEFINE T == {m \in 0..n : ~ \E q \in Seq(Token) :
                                    BytesTo(wire, k + m) = BytesTo(wire, k) \o q}
<1>0. BytesTo(wire, k) \in Seq(Token)
  <2>. k \in 0..Len(wire)
    OBVIOUS
  <2>. QED  BY BytesToType
<1>1. ASSUME T # {} PROVE FALSE
  <2>1. PICK m \in T : \A j \in T : ~ (j < m)
    <3>. T \subseteq Nat
      OBVIOUS
    <3>. HIDE DEF T
    <3>. QED  BY <1>1, LeastNumber
  <2>2. m \in 0..n /\ \A q \in Seq(Token) : BytesTo(wire, k + m) # BytesTo(wire, k) \o q
    BY <2>1
  <2>3. m # 0
    <3>1. BytesTo(wire, k) \o <<>> = BytesTo(wire, k) /\ <<>> \in Seq(Token)
      BY <1>0, ConcatEmptySeq
    <3>2. k + 0 = k
      OBVIOUS
    <3>. QED  BY <2>2, <3>1, <3>2
  <2>4. m - 1 \in 0..n /\ k + m \in DOMAIN wire /\ (k + (m - 1)) + 1 = k + m
    BY <2>2, <2>3
  <2>5. PICK q \in Seq(Token) : BytesTo(wire, k + (m - 1)) = BytesTo(wire, k) \o q
    <3>. m - 1 \notin T
      <4>. HIDE DEF T
      <4>. QED  BY <2>1, <2>2, <2>4
    <3>. QED  BY <2>4
  <2>6. Piece(wire[k + m]) \in Seq(Token)
    BY <2>4 DEF Piece
  <2>7. BytesTo(wire, k + m) = BytesTo(wire, k + (m - 1)) \o Piece(wire[k + m])
    <3>. k + (m - 1) \in Nat
      BY <2>4
    <3>. QED  BY <2>4, BytesToNext
  <2>8. BytesTo(wire, k + m) = BytesTo(wire, k) \o (q \o Piece(wire[k + m]))
    <3>1. (BytesTo(wire, k) \o q) \o Piece(wire[k + m])
            = BytesTo(wire, k) \o (q \o Piece(wire[k + m]))
      BY <1>0, <2>6, Regroup
    <3>. QED  BY <2>5, <2>7, <3>1, Zenon
  <2>9. q \o Piece(wire[k + m]) \in Seq(Token)
    BY <2>6, ConcatProperties
  <2>. QED  BY <2>2, <2>8, <2>9
<1>2. n \notin T
  BY <1>1
<1>. QED  BY <1>2

\* A sequence begins what is made of it by putting something at its end.
LEMMA ConcatPrefix ==
  ASSUME NEW S, NEW s \in Seq(S), NEW q \in Seq(S)
  PROVE  IsPrefix(s, s \o q)
<1>1. /\ s \o q \in Seq(S) /\ Len(s \o q) = Len(s) + Len(q)
      /\ \A i \in 1..Len(s) + Len(q) : (s \o q)[i] =
            IF i <= Len(s) THEN s[i] ELSE q[i - Len(s)]
  BY ConcatProperties
<1>. DEFINE t == s \o q
<1>2. Len(s) \in Nat /\ Len(q) \in Nat /\ Len(s) <= Len(t)
  BY <1>1
<1>3. \A i \in 1..Len(s) : t[i] = s[i]
  BY <1>1, <1>2
<1>. HIDE DEF t
<1>4. SubSeq(s, 1, Len(s)) = SubSeq(t, 1, Len(s))
  BY <1>2, <1>3
<1>. QED  BY <1>2, <1>4 DEF IsPrefix, t

LEMMA BytesToPrefix ==
  ASSUME NEW wire \in Seq(Token), NEW k \in 0..Len(wire)
  PROVE  IsPrefix(BytesTo(wire, k), BytesTo(wire, Len(wire)))
<1>. DEFINE n == Len(wire) - k
<1>1. n \in Nat /\ k \in Nat /\ k + n = Len(wire) /\ k + n <= Len(wire)
  OBVIOUS
<1>. HIDE DEF n
<1>2. PICK q \in Seq(Token) : BytesTo(wire, k + n) = BytesTo(wire, k) \o q
  BY <1>1, BytesGrow
<1>3. BytesTo(wire, k) \in Seq(Token)
  BY BytesToType
<1>. QED  BY <1>1, <1>2, <1>3, ConcatPrefix

\* All tokens of a body without chunks are its bytes.
LEMMA PlainBytes ==
  ASSUME NEW wire \in Seq(Token), NEW k \in 0..Len(wire),
         \A i \in DOMAIN wire : wire[i].t = "byte"
  PROVE  BytesTo(wire, k) = SubSeq(wire, 1, k) /\ Len(BytesTo(wire, k)) = k
<1>1. BytesTo(wire, 0 + k) = BytesTo(wire, 0) \o SubSeq(wire, 0 + 1, 0 + k)
  <2>. k \in Nat /\ 0 + k <= Len(wire) /\ \A i \in 0 + 1..0 + k : wire[i].t = "byte"
    OBVIOUS
  <2>. QED  BY BytesRun
<1>2. SubSeq(wire, 1, k) \in Seq(Token) /\ Len(SubSeq(wire, 1, k)) = k
  OBVIOUS
<1>3. <<>> \o SubSeq(wire, 1, k) = SubSeq(wire, 1, k)
  BY <1>2, ConcatEmptySeq
<1>4. 0 + k = k /\ 0 + 1 = 1
  OBVIOUS
<1>5. BytesTo(wire, k) = SubSeq(wire, 1, k)
  BY <1>1, <1>3, <1>4, BytesToNone, Zenon
<1>. QED  BY <1>2, <1>5

----------------------------------------------------------------------------
(***************************************************************************)
(* Where a read stands: the buffer b and what the socket still gives, u,   *)
(* are what follows the first Pos tokens of the wire w.                    *)
(***************************************************************************)
Pos(w, b, u) == Len(w) - Len(b) - Len(u)

Placed(w, b, u) ==
  /\ w \in Seq(Token) /\ b \in Seq(Token) /\ u \in Seq(Token)
  /\ Len(b) + Len(u) <= Len(w)
  /\ \A i \in 1..Len(b) : b[i] = w[Pos(w, b, u) + i]
  /\ \A i \in 1..Len(u) : u[i] = w[Len(w) - Len(u) + i]

LEMMA TakeDrop ==
  ASSUME NEW s \in Seq(Token), NEW n \in Nat
  PROVE  /\ Take(s, n) \in Seq(Token) /\ Len(Take(s, n)) = Smaller(n, Len(s))
         /\ \A i \in 1..Smaller(n, Len(s)) : Take(s, n)[i] = s[i]
         /\ Drop(s, n) \in Seq(Token) /\ Len(Drop(s, n)) = Len(s) - Smaller(n, Len(s))
         /\ \A i \in 1..Len(Drop(s, n)) : Drop(s, n)[i] = s[n + i]
         /\ Smaller(n, Len(s)) \in 0..Len(s)
<1>1. Len(s) \in Nat /\ Smaller(n, Len(s)) \in 0..Len(s)
  BY DEF Smaller
<1>2. /\ Take(s, n) \in Seq(Token) /\ Len(Take(s, n)) = Smaller(n, Len(s))
      /\ \A i \in 1..Smaller(n, Len(s)) : Take(s, n)[i] = s[i]
  <2>. DEFINE m == Smaller(n, Len(s))
  <2>1. m \in 0..Len(s)
    BY <1>1
  <2>. HIDE DEF m
  <2>2. \A i \in 1..m : s[i] \in Token
    BY <2>1
  <2>3. /\ SubSeq(s, 1, m) \in Seq(Token)
        /\ Len(SubSeq(s, 1, m)) = IF 1 <= m THEN m - 1 + 1 ELSE 0
        /\ \A i \in 1..m - 1 + 1 : SubSeq(s, 1, m)[i] = s[1 + i - 1]
    BY <2>1, <2>2, SubSeqProperties
  <2>4. Take(s, n) = SubSeq(s, 1, m)
    BY DEF Take, m
  <2>. QED  BY <2>1, <2>3, <2>4 DEF m
<1>3. /\ Drop(s, n) \in Seq(Token) /\ Len(Drop(s, n)) = Len(s) - Smaller(n, Len(s))
      /\ \A i \in 1..Len(Drop(s, n)) : Drop(s, n)[i] = s[n + i]
  <2>1. \A i \in n + 1..Len(s) : s[i] \in Token
    OBVIOUS
  <2>2. /\ Drop(s, n) \in Seq(Token)
        /\ Len(Drop(s, n)) = IF n + 1 <= Len(s) THEN Len(s) - (n + 1) + 1 ELSE 0
        /\ \A i \in 1..Len(s) - (n + 1) + 1 : Drop(s, n)[i] = s[n + 1 + i - 1]
    <3>. n + 1 \in Int /\ Len(s) \in Int
      BY <1>1
    <3>. QED  BY <2>1, SubSeqProperties DEF Drop
  <2>. HIDE DEF Drop
  <2>3. Len(Drop(s, n)) = Len(s) - Smaller(n, Len(s))
    <3>. DEFINE l == Len(s)
    <3>1. Len(Drop(s, n)) = IF n + 1 <= l THEN l - (n + 1) + 1 ELSE 0
      BY <2>2
    <3>2. l \in Nat
      BY <1>1
    <3>. HIDE DEF l
    <3>3. Len(Drop(s, n)) = l - Smaller(n, l)
      BY <3>1, <3>2 DEF Smaller
    <3>. QED  BY <3>3 DEF l
  <2>. QED  BY <1>1, <2>2, <2>3
<1>. QED  BY <1>1, <1>2, <1>3

\* A read puts what it gets at the end of the buffer and moves nothing.
LEMMA PlacedRead ==
  ASSUME NEW w, NEW b, NEW u, Placed(w, b, u), NEW n \in Nat
  PROVE  /\ Placed(w, b \o Take(u, n), Drop(u, n))
         /\ Pos(w, b \o Take(u, n), Drop(u, n)) = Pos(w, b, u)
         /\ Len(b \o Take(u, n)) = Len(b) + Smaller(n, Len(u))
         /\ Len(Drop(u, n)) = Len(u) - Smaller(n, Len(u))
<1>. DEFINE got == Take(u, n)
            all == b \o got
            left == Drop(u, n)
            m == Smaller(n, Len(u))
<1>1. /\ w \in Seq(Token) /\ b \in Seq(Token) /\ u \in Seq(Token)
      /\ Len(w) \in Nat /\ Len(b) \in Nat /\ Len(u) \in Nat
      /\ Len(b) + Len(u) <= Len(w)
      /\ \A i \in 1..Len(b) : b[i] = w[Len(w) - Len(b) - Len(u) + i]
      /\ \A i \in 1..Len(u) : u[i] = w[Len(w) - Len(u) + i]
  BY DEF Placed, Pos
<1>2. /\ got \in Seq(Token) /\ Len(got) = m
      /\ \A i \in 1..m : got[i] = u[i]
      /\ left \in Seq(Token) /\ Len(left) = Len(u) - m
      /\ \A i \in 1..Len(left) : left[i] = u[n + i]
      /\ m \in 0..Len(u)
  BY <1>1, TakeDrop
<1>3. Len(left) # 0 => m = n
  <2>. HIDE DEF left
  <2>. QED  BY <1>1, <1>2 DEF Smaller
<1>. HIDE DEF got, left, m
<1>4. /\ all \in Seq(Token) /\ Len(all) = Len(b) + m
      /\ \A i \in 1..Len(b) + m : all[i] = IF i <= Len(b) THEN b[i] ELSE got[i - Len(b)]
  <2>1. /\ all \in Seq(Token) /\ Len(all) = Len(b) + Len(got)
        /\ \A i \in 1..Len(b) + Len(got) :
              all[i] = IF i <= Len(b) THEN b[i] ELSE got[i - Len(b)]
    <3>. b \in Seq(Token) /\ got \in Seq(Token)
      BY <1>1, <1>2
    <3>. QED  BY ConcatProperties
  <2>2. Len(got) = m
    BY <1>2
  <2>. HIDE DEF all
  <2>. QED  BY <2>1, <2>2
<1>. HIDE DEF all
<1>5. Len(w) - Len(all) - Len(left) = Len(w) - Len(b) - Len(u)
  BY <1>1, <1>2, <1>4
<1>6. \A i \in 1..Len(all) : all[i] = w[Len(w) - Len(b) - Len(u) + i]
  <2>1. ASSUME NEW i \in 1..Len(b) + m
        PROVE  all[i] = w[Len(w) - Len(b) - Len(u) + i]
    <3>1. CASE i <= Len(b)
      <4>. i \in 1..Len(b) /\ all[i] = b[i]
        BY <3>1, <1>1, <1>4
      <4>. QED  BY <1>1
    <3>2. CASE ~ (i <= Len(b))
      <4>1. /\ i - Len(b) \in 1..m /\ i - Len(b) \in 1..Len(u)
            /\ all[i] = got[i - Len(b)]
        BY <3>2, <1>1, <1>2, <1>4
      <4>2. got[i - Len(b)] = u[i - Len(b)]
        BY <4>1, <1>2
      <4>3. u[i - Len(b)] = w[Len(w) - Len(u) + (i - Len(b))]
        BY <4>1, <1>1
      <4>4. Len(w) - Len(u) + (i - Len(b)) = Len(w) - Len(b) - Len(u) + i
        BY <1>1
      <4>. QED  BY <4>1, <4>2, <4>3, <4>4
    <3>. QED  BY <3>1, <3>2
  <2>. QED  BY <2>1, <1>4
<1>7. \A i \in 1..Len(left) : left[i] = w[Len(w) - Len(left) + i]
  <2>1. ASSUME NEW i \in 1..Len(left)
        PROVE  left[i] = w[Len(w) - Len(left) + i]
    <3>1. n + i \in 1..Len(u) /\ Len(w) - Len(u) + (n + i) = Len(w) - Len(left) + i
      <4>1. Len(left) = Len(u) - m /\ Len(left) \in Nat
        BY <1>2
      <4>2. m = n
        BY <4>1, <1>3
      <4>3. Len(left) = Len(u) - n /\ i \in 1..Len(left)
        BY <4>1, <4>2
      <4>4. Len(w) \in Nat /\ Len(u) \in Nat
        BY <1>1
      <4>. QED  BY <4>3, <4>4
    <3>2. left[i] = u[n + i]
      BY <1>2
    <3>3. u[n + i] = w[Len(w) - Len(u) + (n + i)]
      BY <3>1, <1>1
    <3>. QED  BY <3>1, <3>2, <3>3
  <2>. QED  BY <2>1
<1>8. Placed(w, all, left)
  <2>1. Pos(w, all, left) = Len(w) - Len(b) - Len(u)
    BY <1>5 DEF Pos
  <2>2. \A i \in 1..Len(all) : all[i] = w[Pos(w, all, left) + i]
    BY <1>6, <2>1
  <2>3. Len(all) + Len(left) <= Len(w)
    BY <1>1, <1>2, <1>4
  <2>. QED  BY <1>1, <1>2, <1>4, <1>7, <2>2, <2>3 DEF Placed
<1>. QED  BY <1>2, <1>4, <1>5, <1>8 DEF all, got, left, m, Pos

\* Taking tokens from the buffer moves on by as many.
LEMMA PlacedConsume ==
  ASSUME NEW w, NEW b, NEW u, Placed(w, b, u), NEW m \in 0..Len(b)
  PROVE  /\ Placed(w, Drop(b, m), u)
         /\ Pos(w, Drop(b, m), u) = Pos(w, b, u) + m
         /\ Take(b, m) = SubSeq(w, Pos(w, b, u) + 1, Pos(w, b, u) + m)
         /\ Pos(w, b, u) \in Nat /\ Pos(w, b, u) + m <= Len(w)
<1>. DEFINE k == Len(w) - Len(b) - Len(u)
            rest == Drop(b, m)
            taken == Take(b, m)
<1>1. /\ w \in Seq(Token) /\ b \in Seq(Token) /\ u \in Seq(Token)
      /\ Len(w) \in Nat /\ Len(b) \in Nat /\ Len(u) \in Nat
      /\ Len(b) + Len(u) <= Len(w)
      /\ \A i \in 1..Len(b) : b[i] = w[k + i]
      /\ \A i \in 1..Len(u) : u[i] = w[Len(w) - Len(u) + i]
  BY DEF Placed, Pos
<1>2. m \in Nat /\ Smaller(m, Len(b)) = m
  BY <1>1 DEF Smaller
<1>3. /\ taken \in Seq(Token) /\ Len(taken) = m
      /\ \A i \in 1..m : taken[i] = b[i]
      /\ rest \in Seq(Token) /\ Len(rest) = Len(b) - m
      /\ \A i \in 1..Len(rest) : rest[i] = b[m + i]
  BY <1>1, <1>2, TakeDrop
<1>4. k \in Nat /\ k + m <= Len(w)
  BY <1>1
<1>. HIDE DEF rest, taken
<1>5. Len(w) - Len(rest) - Len(u) = k + m
  BY <1>1, <1>3
<1>6. \A i \in 1..Len(rest) : rest[i] = w[k + m + i]
  <2>1. ASSUME NEW i \in 1..Len(rest)
        PROVE  rest[i] = w[k + m + i]
    <3>1. m + i \in 1..Len(b) /\ k + (m + i) = k + m + i
      BY <1>1, <1>3
    <3>. HIDE DEF k
    <3>. QED  BY <3>1, <1>1, <1>3
  <2>. QED  BY <2>1
<1>7. Placed(w, rest, u)
  <2>1. Len(rest) + Len(u) <= Len(w) /\ Pos(w, rest, u) = k + m
    BY <1>1, <1>3, <1>5 DEF Pos
  <2>. HIDE DEF k
  <2>. QED  BY <1>1, <1>3, <1>6, <2>1 DEF Placed
<1>8. taken = SubSeq(w, k + 1, k + m)
  <2>. DEFINE sub == SubSeq(w, k + 1, k + m)
  <2>1. /\ sub \in Seq(Token) /\ Len(sub) = m
        /\ \A i \in 1..m : sub[i] = w[k + i]
    <3>. HIDE DEF k
    <3>. QED  BY <1>1, <1>2, <1>4, StretchOf
  <2>2. \A i \in 1..m : taken[i] = w[k + i]
    <3>1. \A i \in 1..m : i \in 1..Len(b)
      BY <1>1
    <3>. HIDE DEF k
    <3>. QED  BY <1>1, <1>3, <3>1
  <2>. HIDE DEF sub, k
  <2>3. Len(taken) = Len(sub) /\ \A i \in 1..Len(taken) : taken[i] = sub[i]
    BY <1>3, <2>1, <2>2
  <2>. QED  BY <1>3, <2>1, <2>3, SeqEqual DEF sub
<1>9. Pos(w, b, u) = k
  BY DEF Pos
<1>. QED  BY <1>4, <1>5, <1>7, <1>8, <1>9 DEF rest, taken, Pos

----------------------------------------------------------------------------
(***************************************************************************)
(* What the callback was given: calls o that start where the one before    *)
(* them ended.                                                             *)
(***************************************************************************)
Item == Token \cup {Garbage}
Call == [start : Nat, bytes : Seq(Item)]

PiecesOf(o) == [i \in DOMAIN o |-> o[i].bytes]
Together(o) == FlattenSeq(PiecesOf(o))

InTurn(o) ==
  /\ o \in Seq(Call)
  /\ \A i \in DOMAIN o :
        o[i].start = Len(FlattenSeq([j \in 1..i - 1 |-> o[j].bytes]))

\* Deliver as a function of what was delivered before.
Then(o, p) ==
  IF p = <<>> THEN o
  ELSE Append(o, [start |-> Len(Together(o)), bytes |-> p])

LEMMA TogetherType ==
  ASSUME NEW o \in Seq(Call)
  PROVE  /\ PiecesOf(o) \in Seq(Seq(Item)) /\ Len(PiecesOf(o)) = Len(o)
         /\ Together(o) \in Seq(Item) /\ Len(Together(o)) \in Nat
<1>1. PiecesOf(o) \in Seq(Seq(Item)) /\ Len(PiecesOf(o)) = Len(o)
  <2>1. \A i \in 1..Len(o) : o[i].bytes \in Seq(Item)
    <3>. \A i \in 1..Len(o) : o[i] \in Call
      OBVIOUS
    <3>. \A c \in Call : c.bytes \in Seq(Item)
      BY DEF Call
    <3>. QED  OBVIOUS
  <2>2. PiecesOf(o) = [i \in 1..Len(o) |-> o[i].bytes]
    BY DEF PiecesOf
  <2>3. [i \in 1..Len(o) |-> o[i].bytes] \in Seq(Seq(Item))
    BY <2>1, IsASeq
  <2>. QED  BY <2>2, <2>3
<1>2. Together(o) \in Seq(Item)
  BY <1>1, FlattenType DEF Together
<1>. QED  BY <1>1, <1>2

LEMMA ThenTogether ==
  ASSUME NEW o, InTurn(o), NEW p \in Seq(Item)
  PROVE  InTurn(Then(o, p)) /\ Together(Then(o, p)) = Together(o) \o p
<1>0. o \in Seq(Call)
  BY DEF InTurn
<1>1. CASE p = <<>>
  <2>1. Then(o, p) = o
    BY <1>1 DEF Then
  <2>2. Together(o) \o p = Together(o)
    BY <1>0, <1>1, TogetherType, ConcatEmptySeq
  <2>. QED  BY <2>1, <2>2
<1>2. CASE p # <<>>
  <2>. DEFINE c == [start |-> Len(Together(o)), bytes |-> p]
              n == Append(o, c)
  <2>1. Then(o, p) = n
    BY <1>2 DEF Then
  <2>2. c \in Call /\ c.bytes = p /\ c.start = Len(Together(o))
    BY <1>0, TogetherType DEF Call
  <2>. HIDE DEF c
  <2>3. /\ n \in Seq(Call) /\ Len(n) = Len(o) + 1 /\ n[Len(o) + 1] = c
        /\ \A i \in 1..Len(o) : n[i] = o[i]
    BY <1>0, <2>2, AppendProperties
  <2>. HIDE DEF n
  <2>4. Len(o) \in Nat /\ DOMAIN o = 1..Len(o) /\ DOMAIN n = 1..Len(o) + 1
    BY <1>0, <2>3
  <2>5. PiecesOf(n) = Append(PiecesOf(o), p)
    <3>. DEFINE s == PiecesOf(o)
                t == PiecesOf(n)
    <3>1. s \in Seq(Seq(Item)) /\ Len(s) = Len(o) /\ \A i \in 1..Len(o) : s[i] = o[i].bytes
      BY <1>0, <2>4, TogetherType DEF PiecesOf
    <3>2. t \in Seq(Seq(Item)) /\ Len(t) = Len(n)
      BY <2>3, TogetherType
    <3>3. \A i \in 1..Len(o) + 1 : t[i] = n[i].bytes
      BY <2>4 DEF PiecesOf
    <3>. HIDE DEF s, t
    <3>4. /\ Append(s, p) \in Seq(Seq(Item)) /\ Len(Append(s, p)) = Len(o) + 1
          /\ Append(s, p)[Len(o) + 1] = p
          /\ \A i \in 1..Len(o) : Append(s, p)[i] = s[i]
      BY <3>1, AppendProperties
    <3>5. \A i \in 1..Len(o) + 1 : t[i] = Append(s, p)[i]
      <4>1. ASSUME NEW i \in 1..Len(o) PROVE t[i] = Append(s, p)[i]
        <5>1. i \in 1..Len(o) + 1
          BY <2>4
        <5>2. t[i] = n[i].bytes
          BY <3>3, <5>1
        <5>3. n[i] = o[i]
          BY <2>3
        <5>4. Append(s, p)[i] = o[i].bytes
          BY <3>1, <3>4
        <5>. QED  BY <5>2, <5>3, <5>4
      <4>2. t[Len(o) + 1] = Append(s, p)[Len(o) + 1]
        BY <2>2, <2>3, <2>4, <3>3, <3>4
      <4>3. \A i \in 1..Len(o) + 1 : i \in 1..Len(o) \/ i = Len(o) + 1
        BY <2>4
      <4>. QED  BY <4>1, <4>2, <4>3
    <3>6. Len(t) = Len(Append(s, p)) /\ \A i \in 1..Len(t) : t[i] = Append(s, p)[i]
      BY <2>3, <3>2, <3>4, <3>5
    <3>7. t = Append(s, p)
      <4>. DEFINE a == Append(s, p)
      <4>. a \in Seq(Seq(Item)) /\ Len(t) = Len(a) /\ \A i \in 1..Len(t) : t[i] = a[i]
        BY <3>4, <3>6
      <4>. HIDE DEF a
      <4>1. t = a
        BY <3>2, SeqEqual
      <4>. QED  BY <4>1 DEF a
    <3>. QED  BY <3>7 DEF s, t
  <2>6. Together(n) = Together(o) \o p
    <3>. DEFINE s == PiecesOf(o)
    <3>1. s \in Seq(Seq(Item))
      BY <1>0, TogetherType
    <3>. HIDE DEF s
    <3>2. FlattenSeq(Append(s, p)) = FlattenSeq(s) \o p
      BY <3>1, FlattenAppend
    <3>. QED  BY <2>5, <3>2 DEF s, Together
  <2>7. ASSUME NEW i \in DOMAIN n
        PROVE  n[i].start = Len(FlattenSeq([j \in 1..i - 1 |-> n[j].bytes]))
    <3>1. [j \in 1..i - 1 |-> n[j].bytes] = [j \in 1..i - 1 |-> o[j].bytes]
      <4>. \A j \in 1..i - 1 : n[j] = o[j]
        BY <2>3, <2>4
      <4>. QED  OBVIOUS
    <3>2. CASE i \in DOMAIN o
      <4>1. n[i] = o[i]
        BY <2>3, <2>4, <3>2
      <4>2. o[i].start = Len(FlattenSeq([j \in 1..i - 1 |-> o[j].bytes]))
        BY <3>2 DEF InTurn
      <4>. QED  BY <3>1, <4>1, <4>2
    <3>3. CASE i \notin DOMAIN o
      <4>1. i = Len(o) + 1 /\ i - 1 = Len(o)
        BY <2>4, <3>3
      <4>2. n[i].start = Len(Together(o))
        BY <2>2, <2>3, <4>1
      <4>3. [j \in 1..i - 1 |-> o[j].bytes] = PiecesOf(o)
        BY <2>4, <4>1 DEF PiecesOf
      <4>. QED  BY <3>1, <4>2, <4>3 DEF Together
    <3>. QED  BY <3>2, <3>3
  <2>8. InTurn(n)
    BY <2>3, <2>7 DEF InTurn
  <2>. QED  BY <2>1, <2>6, <2>8
<1>. QED  BY <1>1, <1>2

----------------------------------------------------------------------------
(***************************************************************************)
(* The inductive invariant: what was passed on, or kept to be unzipped, is *)
(* the bytes among the tokens that were taken from the wire.  The one      *)
(* exception is a chunk that the end of the connection cut off.            *)
(***************************************************************************)
Reached == Pos(body.wire, buffer, unread)
Passed == IF body.gzip THEN gzipped ELSE Delivered

\* The socket and the buffer are empty and no chunk is awaited: the last one
\* was filled up.
Lost ==
  /\ body.framing = "chunked" /\ body.end = "eof" /\ ~body.whole /\ ~body.gzip
  /\ step = "size_line" /\ buffer = <<>> /\ unread = <<>>
  /\ IsPrefix(Sent, Delivered)

Counted ==
  /\ body.gzip => out = <<>>
  /\ IF body.framing = "chunked" THEN ~body.gzip => total = Len(Delivered)
     ELSE total = Reached

\* A whole body has a size line here.
SizeNext ==
  body.whole =>
    /\ Reached + 1 \in DOMAIN body.wire
    /\ body.wire[Reached + 1].t = "size"

\* The size line that was read last.
InChunk ==
  /\ Reached \in DOMAIN body.wire
  /\ body.wire[Reached].t \in {"size", "cut"}
  /\ body.whole => body.wire[Reached].t = "size"
  /\ body.wire[Reached].n = chunk /\ chunk # 0

AtStep ==
  /\ step = "headers" => Reached = 0
  /\ step \in {"read", "read_delay"} =>
       body.framing # "chunked" /\ early = Len(buffer)
  /\ step \in {"size_line", "chunk_delay", "chunk"} => body.framing = "chunked"
  /\ step = "size_line" => SizeNext
  /\ step \in {"chunk_delay", "chunk"} => InChunk
  /\ step = "chunk" => want + Len(buffer) >= chunk + 2

Underway ==
  step \notin Ended =>
    /\ Placed(body.wire, buffer, unread)
    /\ Passed = BytesTo(body.wire, Reached) \/ Lost
    /\ Counted /\ AtStep

\* The last part of OnlyServerData.
FromServer ==
  \/ IsPrefix(Delivered, Sent)
  \/ /\ body.framing = "chunked" /\ body.end = "eof" /\ ~body.whole
     /\ unread = <<>> /\ IsPrefix(Sent, Delivered)

ContentInv ==
  /\ TypeOK /\ InTurn(out)
  /\ Underway
  /\ FromServer /\ CompleteIsWhole /\ WholeIsAccepted

----------------------------------------------------------------------------
(***************************************************************************)
(* What the server sent.                                                   *)
(***************************************************************************)
LEMMA BodyType ==
  ASSUME TypeOK
  PROVE  /\ body.framing \in {"length", "chunked", "close"} /\ body.length \in Nat
         /\ body.wire \in Seq(Token) /\ Len(body.wire) \in Nat
         /\ body.end \in {"eof", "reset", "open"}
         /\ body.gzip \in BOOLEAN /\ body.whole \in BOOLEAN
         /\ WellFramed(body) /\ ReadSize \in Nat
<1>1. body \in Bodies
  BY DEF TypeOK
<1>2. /\ body.framing \in {"length", "chunked", "close"} /\ body.length \in Nat
      /\ body.wire \in Seq(Token) /\ body.end \in {"eof", "reset", "open"}
      /\ {body.supported, body.gzip, body.gzip_valid, body.is_ssl, body.whole}
           \subseteq BOOLEAN
      /\ WellFramed(body) /\ ReadSize \in Nat
  BY <1>1, HttpContentAssumption
<1>3. body.gzip \in BOOLEAN /\ body.whole \in BOOLEAN
  BY <1>2
<1>4. Len(body.wire) \in Nat
  BY <1>2
<1>. QED  BY <1>2, <1>3, <1>4

LEMMA SentIs == Sent = BytesTo(body.wire, Len(body.wire))
BY DEF Sent, BytesTo

LEMMA DeliveredIs == Delivered = Together(out) /\ Delivered' = Together(out')
BY DEF Delivered, Together, PiecesOf

LEMMA DeliveredType ==
  ASSUME InTurn(out)
  PROVE  Delivered \in Seq(Item) /\ Len(Delivered) \in Nat
BY TogetherType, DeliveredIs DEF InTurn

LEMMA NoneDelivered ==
  ASSUME out = <<>>
  PROVE  Delivered = <<>>
<1>1. PiecesOf(<<>>) = <<>>
  BY DEF PiecesOf
<1>. QED  BY <1>1, FlattenEmpty, DeliveredIs DEF Together

\* Deliver puts the bytes after those that were delivered before.
LEMMA DeliverStep ==
  ASSUME InTurn(out), NEW p \in Seq(Item), Deliver(Len(Delivered), p)
  PROVE  InTurn(out') /\ Delivered' = Delivered \o p
<1>1. out' = Then(out, p)
  BY DeliveredIs DEF Deliver, Then
<1>2. InTurn(Then(out, p)) /\ Together(Then(out, p)) = Together(out) \o p
  BY ThenTogether
<1>. QED  BY <1>1, <1>2, DeliveredIs

LEMMA StartsAreNat ==
  ASSUME NEW o, InTurn(o)
  PROVE  \A i \in DOMAIN o : o[i].start \in Nat
<1>1. o \in Seq(Call)
  BY DEF InTurn
<1>2. \A i \in DOMAIN o : o[i] \in Call
  BY <1>1
<1>. QED  BY <1>2 DEF Call

LEMMA RegroupItems ==
  \A a, b, c \in Seq(Item) : a \o (b \o c) = (a \o b) \o c
<1>. SUFFICES ASSUME NEW a \in Seq(Item), NEW b \in Seq(Item), NEW c \in Seq(Item)
              PROVE  (a \o b) \o c = a \o (b \o c)
  BY Zenon
<1>. QED  BY ConcatAssociative

LEMMA TokensAreItems ==
  ASSUME NEW p \in Seq(Token)
  PROVE  p \in Seq(Item)
<1>1. Token \subseteq Item
  BY DEF Item
<1>. QED  BY <1>1

\* The body a Content-Length or the end of the connection announces, when
\* that is where the first k tokens end.
LEMMA AnnouncedAt ==
  ASSUME TypeOK, body.framing # "chunked", NEW k \in 0..Len(body.wire),
         body.framing = "length" => body.length = k,
         body.framing = "close" => k = Len(body.wire)
  PROVE  Announced = BytesTo(body.wire, k)
<1>. DEFINE w == body.wire
            l == Len(w)
<1>1. /\ w \in Seq(Token) /\ l \in Nat
      /\ \A i \in DOMAIN w : w[i].t = "byte"
  BY BodyType DEF WellFramed
<1>2. Sent = SubSeq(w, 1, l)
  <2>. l \in 0..Len(w)
    BY <1>1
  <2>. HIDE DEF w
  <2>1. BytesTo(w, l) = SubSeq(w, 1, l)
    BY <1>1, PlainBytes
  <2>. QED  BY <2>1, SentIs DEF w
<1>3. BytesTo(w, k) = SubSeq(w, 1, k)
  <2>. HIDE DEF w
  <2>. QED  BY <1>1, PlainBytes DEF w
<1>4. SubSeq(w, 1, l) = w
  BY <1>1
<1>5. CASE body.framing = "length"
  <2>1. Announced = Take(Sent, k)
    BY <1>5 DEF Announced
  <2>2. Smaller(k, l) = k
    BY <1>1 DEF Smaller
  <2>3. Take(w, k) = SubSeq(w, 1, k)
    BY <2>2 DEF Take
  <2>. QED  BY <1>2, <1>3, <1>4, <2>1, <2>3
<1>6. CASE body.framing # "length"
  <2>1. Announced = Sent
    BY <1>6 DEF Announced
  <2>2. k = l
    BY <1>6, BodyType
  <2>. QED  BY <1>2, <1>3, <2>1, <2>2
<1>. QED  BY <1>5, <1>6

\* The beginning of what the server sent.
LEMMA FromServerAt ==
  ASSUME TypeOK, NEW k \in 0..Len(body.wire), NEW p, p = BytesTo(body.wire, k)
  PROVE  IsPrefix(p, Sent)
BY BodyType, BytesToPrefix, SentIs

LEMMA NothingFromServer ==
  ASSUME TypeOK
  PROVE  IsPrefix(<<>>, Sent)
<1>1. 0 \in 0..Len(body.wire) /\ <<>> = BytesTo(body.wire, 0)
  BY BodyType, BytesToNone
<1>. QED  BY <1>1, FromServerAt

----------------------------------------------------------------------------
(***************************************************************************)
(* The actions that pass nothing on.                                       *)
(***************************************************************************)
LEMMA InitContent ==
  ASSUME Init
  PROVE  ContentInv
<1>. DEFINE w == body.wire
<1>1. body \in Bodies
  BY DEF Init
<1>2. w \in Seq(Token) /\ Len(w) \in Nat /\ body.framing \in {"length", "chunked", "close"}
      /\ WellFramed(body)
  BY <1>1, HttpContentAssumption
<1>3. PICK n \in 0..Len(w) : buffer = Take(w, n) /\ unread = Drop(w, n)
  BY DEF Init
<1>4. /\ step = "headers" /\ want = 0 /\ total = 0 /\ early = 0 /\ chunk = 0
      /\ gzipped = <<>> /\ out = <<>>
  BY DEF Init
<1>. HIDE DEF w
<1>5. /\ buffer \in Seq(Token) /\ Len(buffer) = n /\ \A i \in 1..n : buffer[i] = w[i]
      /\ unread \in Seq(Token) /\ Len(unread) = Len(w) - n
      /\ \A i \in 1..Len(unread) : unread[i] = w[n + i]
  <2>1. n \in Nat /\ Smaller(n, Len(w)) = n
    BY <1>2 DEF Smaller
  <2>. QED  BY <1>2, <1>3, <2>1, TakeDrop
<1>6. TypeOK
  BY <1>1, <1>4, <1>5 DEF TypeOK, Ended
<1>7. InTurn(out)
  BY <1>4 DEF InTurn
<1>8. Placed(w, buffer, unread) /\ Pos(w, buffer, unread) = 0
  <2>1. Pos(w, buffer, unread) = 0
    BY <1>2, <1>5 DEF Pos
  <2>2. \A i \in 1..Len(buffer) : buffer[i] = w[Pos(w, buffer, unread) + i]
    BY <1>5, <2>1
  <2>3. Len(w) - Len(unread) = n
    BY <1>2, <1>5
  <2>4. \A i \in 1..Len(unread) : unread[i] = w[Len(w) - Len(unread) + i]
    BY <1>5, <2>3
  <2>5. Len(buffer) + Len(unread) <= Len(w)
    BY <1>2, <1>5
  <2>. QED  BY <1>2, <1>5, <2>1, <2>2, <2>4, <2>5 DEF Placed
<1>9. Delivered = <<>> /\ Passed = <<>> /\ Len(Delivered) = 0
  BY <1>4, NoneDelivered DEF Passed
<1>10. Underway
  <2>1. Passed = BytesTo(w, 0)
    BY <1>9, BytesToNone
  <2>2. Reached = 0
    BY <1>8 DEF Reached, w
  <2>. QED  BY <1>4, <1>8, <1>9, <2>1, <2>2
            DEF Underway, Counted, AtStep, w
<1>11. FromServer
  BY <1>6, <1>9, NothingFromServer DEF FromServer
<1>12. CompleteIsWhole /\ WholeIsAccepted
  BY <1>4 DEF CompleteIsWhole, WholeIsAccepted
<1>. QED  BY <1>6, <1>7, <1>10, <1>11, <1>12 DEF ContentInv

\* The parts of the invariant, for a step that delivers nothing.
LEMMA NothingTold ==
  ASSUME ContentInv, body' = body, out' = out,
         unread' = unread \/ IsPrefix(Delivered, Sent)
  PROVE  InTurn(out') /\ Delivered' = Delivered /\ Sent' = Sent /\ FromServer'
<1>1. Delivered' = Delivered /\ Sent' = Sent
  BY DEF Delivered, Sent
<1>2. FromServer /\ InTurn(out)
  BY DEF ContentInv
<1>3. FromServer'
  BY <1>1, <1>2 DEF FromServer
<1>. QED  BY <1>1, <1>2, <1>3

\* Underway, what was delivered is the beginning of what the server sent.
LEMMA GoodPrefix ==
  ASSUME ContentInv, step \notin Ended, ~Lost
  PROVE  IsPrefix(Delivered, Sent)
<1>1. TypeOK /\ InTurn(out)
  BY DEF ContentInv
<1>2. /\ Placed(body.wire, buffer, unread)
      /\ Passed = BytesTo(body.wire, Reached)
      /\ body.gzip => out = <<>>
  BY DEF ContentInv, Underway, Counted
<1>3. CASE body.gzip
  BY <1>1, <1>2, <1>3, NoneDelivered, NothingFromServer
<1>4. CASE ~body.gzip
  <2>1. Delivered = BytesTo(body.wire, Reached)
    BY <1>2, <1>4 DEF Passed
  <2>2. Reached \in 0..Len(body.wire)
    <3>. DEFINE w == body.wire
    <3>1. /\ Len(w) \in Nat /\ Len(buffer) \in Nat /\ Len(unread) \in Nat
          /\ Len(buffer) + Len(unread) <= Len(w)
      BY <1>2 DEF Placed
    <3>. HIDE DEF w
    <3>2. Len(w) - Len(buffer) - Len(unread) \in 0..Len(w)
      BY <3>1
    <3>. QED  BY <3>2 DEF Reached, Pos, w
  <2>. QED  BY <1>1, <2>1, <2>2, FromServerAt
<1>. QED  BY <1>3, <1>4

\* The errors of a read, and the timeout: no whole body, sent to its end, has them.
LEMMA FailingKeeps ==
  ASSUME ContentInv, step \notin Ended,
         ContentReadFails \/ ChunkReadFails \/ HandleAsyncTimeout
  PROVE  ContentInv'
<1>1. TypeOK /\ want \in Nat /\ unread \in Seq(Token)
  BY DEF ContentInv, TypeOK
<1>2. /\ step' = "error" /\ body.end # "eof"
      /\ UNCHANGED <<body, buffer, want, total, early, chunk, gzipped, out>>
      /\ \/ unread' = unread
         \/ unread' = Drop(unread, want) /\ step \in {"read", "chunk"}
  BY DEF ContentReadFails, ChunkReadFails, HandleAsyncTimeout, ReadExactly
<1>3. unread' \in Seq(Token)
  BY <1>1, <1>2, TakeDrop
<1>4. TypeOK'
  BY <1>1, <1>2, <1>3 DEF TypeOK, Ended
<1>5. InTurn(out') /\ FromServer'
  <2>. ~Lost \/ unread' = unread
    BY <1>2 DEF Lost
  <2>. QED  BY <1>2, NothingTold, GoodPrefix
<1>6. Underway' /\ CompleteIsWhole' /\ WholeIsAccepted'
  BY <1>2 DEF Underway, CompleteIsWhole, WholeIsAccepted, Ended
<1>. QED  BY <1>4, <1>5, <1>6 DEF ContentInv

LEMMA EnterKeeps ==
  ASSUME ContentInv, Enter
  PROVE  ContentInv'
<1>1. TypeOK /\ Underway /\ InTurn(out)
  BY DEF ContentInv
<1>2. /\ step = "headers"
      /\ UNCHANGED <<body, buffer, unread, total, chunk, gzipped, out>>
  BY DEF Enter
<1>3. /\ Placed(body.wire, buffer, unread)
      /\ Passed = BytesTo(body.wire, Reached)
      /\ Counted /\ Reached = 0
  BY <1>1, <1>2 DEF Underway, AtStep, Ended, Lost
<1>4. /\ InTurn(out') /\ Delivered' = Delivered /\ Sent' = Sent /\ FromServer'
      /\ Reached' = Reached /\ Passed' = Passed /\ Announced' = Announced
  <2>1. InTurn(out') /\ Delivered' = Delivered /\ Sent' = Sent /\ FromServer'
    BY <1>2, NothingTold
  <2>. QED  BY <1>2, <2>1 DEF Reached, Passed, Announced
<1>5. CASE ~body.supported
  <2>1. step' = "error" /\ UNCHANGED <<want, early>>
    BY <1>2, <1>5 DEF Enter
  <2>2. TypeOK'
    BY <1>1, <1>2, <2>1 DEF TypeOK, Ended
  <2>3. Underway' /\ CompleteIsWhole' /\ WholeIsAccepted'
    BY <1>2, <1>5, <2>1 DEF Underway, CompleteIsWhole, WholeIsAccepted, Ended
  <2>. QED  BY <1>4, <2>2, <2>3 DEF ContentInv
<1>6. CASE body.supported /\ body.framing = "chunked"
  <2>1. step' = "size_line" /\ UNCHANGED <<want, early>>
    BY <1>2, <1>6 DEF Enter
  <2>2. TypeOK'
    BY <1>1, <1>2, <2>1 DEF TypeOK, Ended
  <2>3. SizeNext
    <3>1. body.whole => AllChunks(body.wire)
      BY <1>1, <1>6, BodyType DEF WellFramed
    <3>2. body.wire \in Seq(Token)
      BY <1>1, BodyType
    <3>3. body.whole => 1 \in DOMAIN body.wire /\ body.wire[1].t = "size"
      <4>. DEFINE w == body.wire
      <4>. SUFFICES ASSUME AllChunks(w) PROVE 1 \in DOMAIN w /\ w[1].t = "size"
        BY <3>1
      <4>1. w \in Seq(Token)
        BY <3>2
      <4>. HIDE DEF w
      <4>2. w # <<>> /\ w[1].t = "size"
        BY DEF AllChunks
      <4>. QED  BY <4>1, <4>2
    <3>4. Reached + 1 = 1
      BY <1>3
    <3>. QED  BY <3>3, <3>4 DEF SizeNext
  <2>4. SizeNext' /\ Counted' /\ Placed(body.wire, buffer, unread)'
    BY <1>2, <1>3, <1>4, <2>3 DEF SizeNext, Counted
  <2>5. Underway'
    BY <1>2, <1>3, <1>4, <1>6, <2>1, <2>4 DEF Underway, AtStep
  <2>6. CompleteIsWhole' /\ WholeIsAccepted'
    BY <2>1 DEF CompleteIsWhole, WholeIsAccepted
  <2>. QED  BY <1>4, <2>2, <2>5, <2>6 DEF ContentInv
<1>7. CASE body.supported /\ body.framing # "chunked"
  <2>1. /\ step' = "read" /\ early' = Len(buffer)
        /\ want' = IF body.framing = "length"
                   THEN Smaller(body.length, ReadSize) ELSE ReadSize
    BY <1>2, <1>7 DEF Enter
  <2>2. want' \in Nat /\ early' \in Nat
    <3>1. body.length \in Nat /\ ReadSize \in Nat /\ Len(buffer) \in Nat
      BY <1>1, BodyType DEF TypeOK
    <3>2. Smaller(body.length, ReadSize) \in Nat
      BY <3>1 DEF Smaller
    <3>. QED  BY <2>1, <3>1, <3>2
  <2>3. TypeOK'
    BY <1>1, <1>2, <2>1, <2>2 DEF TypeOK, Ended
  <2>4. Counted' /\ Placed(body.wire, buffer, unread)'
    BY <1>2, <1>3, <1>4 DEF Counted
  <2>5. Underway'
    BY <1>2, <1>3, <1>4, <1>7, <2>1, <2>4 DEF Underway, AtStep
  <2>6. CompleteIsWhole' /\ WholeIsAccepted'
    BY <2>1 DEF CompleteIsWhole, WholeIsAccepted
  <2>. QED  BY <1>4, <2>3, <2>5, <2>6 DEF ContentInv
<1>. QED  BY <1>5, <1>6, <1>7

LEMMA ReadDelayKeeps ==
  ASSUME ContentInv, HandleContentReadDelayCallback
  PROVE  ContentInv'
<1>1. TypeOK /\ Underway /\ InTurn(out)
  BY DEF ContentInv
<1>2. /\ step = "read_delay" /\ step' = "read"
      /\ UNCHANGED <<body, buffer, unread, want, total, early, chunk, gzipped, out>>
  BY DEF HandleContentReadDelayCallback
<1>3. /\ InTurn(out') /\ Delivered' = Delivered /\ Sent' = Sent /\ FromServer'
      /\ Reached' = Reached /\ Passed' = Passed
  <2>1. InTurn(out') /\ Delivered' = Delivered /\ Sent' = Sent /\ FromServer'
    BY <1>2, NothingTold
  <2>. QED  BY <1>2, <2>1 DEF Reached, Passed
<1>4. TypeOK'
  BY <1>1, <1>2 DEF TypeOK
<1>5. Underway'
  BY <1>1, <1>2, <1>3 DEF Underway, AtStep, Counted, Lost, Ended
<1>6. CompleteIsWhole' /\ WholeIsAccepted'
  BY <1>2 DEF CompleteIsWhole, WholeIsAccepted
<1>. QED  BY <1>3, <1>4, <1>5, <1>6 DEF ContentInv

LEMMA ChunkDelayKeeps ==
  ASSUME ContentInv, HandleContentChunkSizeReadDelay
  PROVE  ContentInv'
<1>1. TypeOK /\ Underway /\ InTurn(out)
  BY DEF ContentInv
<1>2. /\ step = "chunk_delay" /\ step' = "chunk"
      /\ want' = (IF Len(buffer) > chunk + 2 THEN 0 ELSE chunk + 2 - Len(buffer))
      /\ UNCHANGED <<body, buffer, unread, total, early, chunk, gzipped, out>>
  BY DEF HandleContentChunkSizeReadDelay
<1>3. /\ InTurn(out') /\ Delivered' = Delivered /\ Sent' = Sent /\ FromServer'
      /\ Reached' = Reached /\ Passed' = Passed
  <2>1. InTurn(out') /\ Delivered' = Delivered /\ Sent' = Sent /\ FromServer'
    BY <1>2, NothingTold
  <2>. QED  BY <1>2, <2>1 DEF Reached, Passed
<1>4. want' \in Nat /\ want' + Len(buffer') >= chunk' + 2
  <2>. Len(buffer) \in Nat /\ chunk \in Nat
    BY <1>1 DEF TypeOK
  <2>. QED  BY <1>2
<1>5. TypeOK'
  BY <1>1, <1>2, <1>4 DEF TypeOK
<1>6. InChunk' /\ body'.framing = "chunked"
  BY <1>1, <1>2, <1>3 DEF Underway, AtStep, InChunk, Ended
<1>7. Underway'
  BY <1>1, <1>2, <1>3, <1>4, <1>6 DEF Underway, AtStep, Counted, Lost, Ended
<1>8. CompleteIsWhole' /\ WholeIsAccepted'
  BY <1>2 DEF CompleteIsWhole, WholeIsAccepted
<1>. QED  BY <1>3, <1>5, <1>7, <1>8 DEF ContentInv

LEMMA StutterKeeps ==
  ASSUME ContentInv, UNCHANGED vars
  PROVE  ContentInv'
<1>1. UNCHANGED <<body, step, buffer, unread, want, total, early, chunk, gzipped, out>>
  BY DEF vars
<1>2. /\ InTurn(out') /\ Delivered' = Delivered /\ Sent' = Sent /\ FromServer'
      /\ Reached' = Reached /\ Passed' = Passed /\ Announced' = Announced
  <2>1. InTurn(out') /\ Delivered' = Delivered /\ Sent' = Sent /\ FromServer'
    BY <1>1, NothingTold
  <2>. QED  BY <1>1, <2>1 DEF Reached, Passed, Announced
<1>3. TypeOK' /\ CompleteIsWhole' /\ WholeIsAccepted'
  BY <1>1, <1>2 DEF ContentInv, TypeOK, CompleteIsWhole, WholeIsAccepted
<1>4. Underway'
  BY <1>1, <1>2 DEF ContentInv, Underway, AtStep, Counted, Lost, InChunk, SizeNext
<1>. QED  BY <1>2, <1>3, <1>4 DEF ContentInv

----------------------------------------------------------------------------
(***************************************************************************)
(* A body without chunks.                                                  *)
(***************************************************************************)

\* Where a read with the given result ends: all is what it passes on.
ReadsTo(result, all, k) ==
  /\ all \in Seq(Token) /\ k \in 0..Len(body.wire)
  /\ Placed(body.wire, <<>>, unread') /\ Pos(body.wire, <<>>, unread') = k
  /\ BytesTo(body.wire, Reached) \o all = BytesTo(body.wire, k)
  /\ total + early + Len(Got) = k
  /\ result = "eof" => k = Len(body.wire)

LEMMA ContentReadsTo ==
  ASSUME ContentInv, step = "read", NEW result \in {"ok", "eof"}, ReadExactly(result)
  PROVE  \E k : ReadsTo(result, buffer \o Got, k)
<1>. DEFINE w == body.wire
            all == buffer \o Got
            left == Drop(unread, want)
            k == Pos(w, buffer, unread)
            n == Len(all)
<1>1. /\ want \in Nat /\ w \in Seq(Token) /\ Len(w) \in Nat
      /\ buffer \in Seq(Token) /\ unread \in Seq(Token)
      /\ Placed(w, buffer, unread) /\ total = k /\ early = Len(buffer)
      /\ body.framing # "chunked"
  BY BodyType DEF ContentInv, TypeOK, Underway, AtStep, Counted, Ended, Reached
<1>2. /\ unread' = left
      /\ result = "eof" => Len(unread) < want
  <2>1. unread' = left /\ IF Len(unread) >= want THEN result = "ok" ELSE result = body.end
    BY DEF ReadExactly
  <2>2. Len(unread) \in Nat
    BY <1>1
  <2>. QED  BY <1>1, <2>1, <2>2
<1>3. \A i \in DOMAIN w : w[i].t = "byte"
  BY <1>1, BodyType DEF WellFramed, ContentInv
<1>. HIDE DEF w
<1>4. /\ Placed(w, all, left) /\ Pos(w, all, left) = k
      /\ Len(all) = Len(buffer) + Smaller(want, Len(unread))
      /\ Len(left) = Len(unread) - Smaller(want, Len(unread))
  <2>. Placed(w, buffer, unread) /\ want \in Nat
    BY <1>1
  <2>1. /\ Placed(w, buffer \o Take(unread, want), Drop(unread, want))
        /\ Pos(w, buffer \o Take(unread, want), Drop(unread, want)) = Pos(w, buffer, unread)
        /\ Len(buffer \o Take(unread, want)) = Len(buffer) + Smaller(want, Len(unread))
        /\ Len(Drop(unread, want)) = Len(unread) - Smaller(want, Len(unread))
    BY PlacedRead
  <2>. QED  BY <2>1 DEF Got
<1>5. all \in Seq(Token) /\ left \in Seq(Token) /\ n \in Nat
  BY <1>4 DEF Placed
<1>6. Len(Got) = Smaller(want, Len(unread))
  BY <1>1, TakeDrop DEF Got
<1>7. /\ Placed(w, Drop(all, n), left) /\ Pos(w, Drop(all, n), left) = k + n
      /\ Take(all, n) = SubSeq(w, k + 1, k + n)
      /\ k \in Nat /\ k + n <= Len(w)
  <2>. n \in 0..Len(all)
    BY <1>5
  <2>. HIDE DEF all, left, n
  <2>1. Pos(w, all, left) = k
    BY <1>4
  <2>2. /\ Placed(w, Drop(all, n), left)
        /\ Pos(w, Drop(all, n), left) = Pos(w, all, left) + n
        /\ Take(all, n) = SubSeq(w, Pos(w, all, left) + 1, Pos(w, all, left) + n)
        /\ Pos(w, all, left) \in Nat /\ Pos(w, all, left) + n <= Len(w)
    <3>. Placed(w, all, left)
      BY <1>4
    <3>. HIDE DEF k
    <3>. QED  BY PlacedConsume
  <2>. HIDE DEF k
  <2>. QED  BY <2>1, <2>2
<1>. HIDE DEF k, left
<1>8. Drop(all, n) = <<>> /\ Take(all, n) = all
  <2>. HIDE DEF all
  <2>1. SubSeq(all, n + 1, n) = <<>>
    BY <1>5, SubSeqEmpty
  <2>2. Smaller(n, n) = n
    BY DEF Smaller
  <2>3. SubSeq(all, 1, Len(all)) = all
    BY <1>5
  <2>. QED  BY <2>1, <2>2, <2>3 DEF Take, Drop
<1>. HIDE DEF all
<1>9. BytesTo(w, k + n) = BytesTo(w, k) \o all
  <2>1. \A i \in k + 1..k + n : w[i].t = "byte"
    BY <1>1, <1>3, <1>5, <1>7
  <2>2. BytesTo(w, k + n) = BytesTo(w, k) \o SubSeq(w, k + 1, k + n)
    <3>. HIDE DEF n
    <3>. QED  BY <1>1, <1>5, <1>7, <2>1, BytesRun
  <2>. QED  BY <1>7, <1>8, <2>2
<1>10. total + early + Len(Got) = k + n
  <2>1. Smaller(want, Len(unread)) \in Nat /\ Len(buffer) \in Nat
    BY <1>1 DEF Smaller
  <2>. QED  BY <1>1, <1>4, <1>6, <1>7, <2>1
<1>11. result = "eof" => k + n = Len(w)
  <2>. SUFFICES ASSUME result = "eof" PROVE k + n = Len(w)
    OBVIOUS
  <2>1. Len(unread) < want /\ Len(unread) \in Nat
    BY <1>1, <1>2
  <2>2. Smaller(want, Len(unread)) = Len(unread)
    BY <1>1, <2>1 DEF Smaller
  <2>3. Len(left) = 0
    BY <1>4, <2>1, <2>2
  <2>4. k = Len(w) - Len(all) - Len(left)
    BY <1>4 DEF Pos
  <2>. QED  BY <1>1, <1>5, <2>3, <2>4
<1>12. ReadsTo(result, all, k + n)
  <2>1. Placed(w, <<>>, unread') /\ Pos(w, <<>>, unread') = k + n
    BY <1>2, <1>7, <1>8
  <2>2. k + n \in 0..Len(w)
    BY <1>1, <1>5, <1>7
  <2>3. Reached = k
    BY DEF Reached, k, w
  <2>. HIDE DEF n
  <2>. QED  BY <1>5, <1>9, <1>10, <1>11, <2>1, <2>2, <2>3 DEF ReadsTo, w
<1>. QED  BY <1>12 DEF all

\* What HandleContentRead does, for the three ways to deal with the bytes.
ReadOutcome(k, complete, exceeded) ==
  /\ InTurn(out')
  /\ Delivered' \in {<<>>, BytesTo(body.wire, k)}
  /\ step' \in {"complete", "error", "read_delay"}
  /\ step' = "complete" => complete /\ Delivered' = BytesTo(body.wire, k)
  /\ step' = "error" /\ (body.gzip => body.gzip_valid) => exceeded
  /\ step' = "read_delay" =>
       /\ ~complete /\ ~exceeded
       /\ Passed' = BytesTo(body.wire, k) /\ (body.gzip => out' = <<>>)

LEMMA ContentReadKeeps ==
  ASSUME ContentInv, HandleContentRead
  PROVE  ContentInv'
<1>. DEFINE w == body.wire
            all == buffer \o Got
            read == total + early + Len(Got)
<1>1. PICK result \in {"ok", "eof"} :
        LET complete == IF body.framing = "length" THEN body.length = read
                        ELSE result = "eof"
            exceeded == body.framing = "length" /\ body.length < read
        IN  /\ ReadExactly(result)
            /\ total' = read /\ early' = 0 /\ buffer' = <<>>
            /\ gzipped' = (IF body.gzip THEN gzipped \o all ELSE gzipped)
            /\ IF body.gzip /\ complete THEN Unzip(gzipped')
               ELSE /\ IF body.gzip THEN UNCHANGED out
                       ELSE Deliver(total, all)
                    /\ step' = IF complete THEN "complete"
                               ELSE IF exceeded THEN "error"
                               ELSE "read_delay"
            /\ want' = IF step' # "read_delay" THEN 0
                       ELSE IF body.framing = "length"
                       THEN Smaller(body.length - read, ReadSize)
                       ELSE ReadSize
  BY DEF HandleContentRead
<1>. DEFINE complete == IF body.framing = "length" THEN body.length = read
                        ELSE result = "eof"
            exceeded == body.framing = "length" /\ body.length < read
            Rest == IF body.gzip /\ complete THEN Unzip(gzipped')
                    ELSE /\ IF body.gzip THEN UNCHANGED out
                            ELSE Deliver(total, all)
                         /\ step' = IF complete THEN "complete"
                                    ELSE IF exceeded THEN "error"
                                    ELSE "read_delay"
<1>0. /\ ReadExactly(result)
      /\ total' = read /\ early' = 0 /\ buffer' = <<>>
      /\ body.gzip => gzipped' = gzipped \o all
      /\ ~body.gzip => gzipped' = gzipped
      /\ Rest
      /\ want' = IF step' # "read_delay" THEN 0
                 ELSE IF body.framing = "length"
                 THEN Smaller(body.length - read, ReadSize)
                 ELSE ReadSize
  BY <1>1
<1>2. step = "read" /\ UNCHANGED <<body, chunk>>
  BY DEF HandleContentRead
<1>3. TypeOK /\ InTurn(out) /\ Underway
  BY DEF ContentInv
<1>4. PICK k : ReadsTo(result, all, k)
  BY <1>1, <1>2, ContentReadsTo
<1>5. /\ all \in Seq(Token) /\ k \in 0..Len(w)
      /\ Placed(w, <<>>, unread') /\ Pos(w, <<>>, unread') = k
      /\ BytesTo(w, Reached) \o all = BytesTo(w, k)
      /\ read = k
      /\ result = "eof" => k = Len(w)
  BY <1>4 DEF ReadsTo
<1>6. /\ w \in Seq(Token) /\ Len(w) \in Nat
      /\ body.length \in Nat /\ body.gzip \in BOOLEAN
      /\ body.framing \in {"length", "close"} /\ body.framing # "chunked"
      /\ ReadSize \in Nat
      /\ body.framing = "length" /\ body.whole => body.length = Len(w)
  BY <1>2, <1>3, BodyType DEF Underway, AtStep, Ended, WellFramed
<1>7. /\ Passed = BytesTo(w, Reached)
      /\ body.gzip => out = <<>>
      /\ total = Reached
  BY <1>2, <1>3, <1>6 DEF Underway, Counted, Lost, Ended
<1>8. gzipped \in Seq(Token) /\ unread' \in Seq(Token)
  BY <1>3, <1>5 DEF TypeOK, Placed
<1>9. complete => Announced = BytesTo(w, k)
  BY <1>3, <1>5, <1>6, AnnouncedAt
<1>10. BytesTo(w, k) \in Seq(Token) /\ BytesTo(w, k) \in Seq(Item)
  BY <1>5, <1>6, BytesToType, TokensAreItems
<1>11. Sent' = Sent /\ Announced' = Announced /\ Reached' = k
  BY <1>0, <1>2, <1>5 DEF Sent, Announced, Reached
<1>. HIDE DEF w, all, read, complete, exceeded
<1>12. ASSUME body.gzip, complete PROVE ReadOutcome(k, complete, exceeded)
  <2>1. Unzip(gzipped') /\ gzipped' = gzipped \o all
    BY <1>0, <1>12
  <2>2. gzipped' = BytesTo(w, k) /\ out = <<>>
    BY <1>5, <1>7, <1>12, <2>1 DEF Passed, w
  <2>3. CASE Unzips(gzipped')
    <3>1. Deliver(0, BytesTo(w, k)) /\ step' = "complete"
      BY <2>1, <2>2, <2>3 DEF Unzip
    <3>2. Delivered = <<>> /\ Len(Delivered) = 0
      BY <2>2, NoneDelivered
    <3>3. InTurn(out') /\ Delivered' = Delivered \o BytesTo(w, k)
      BY <1>3, <1>10, <3>1, <3>2, DeliverStep
    <3>4. Delivered' = BytesTo(w, k)
      BY <1>10, <3>2, <3>3, ConcatEmptySeq
    <3>. QED  BY <1>12, <3>1, <3>3, <3>4 DEF ReadOutcome, w
  <2>4. CASE ~ Unzips(gzipped')
    <3>1. out' = out /\ step' = "error"
      BY <2>1, <2>4 DEF Unzip
    <3>2. Delivered' = <<>> /\ InTurn(out')
      BY <1>3, <2>2, <3>1, NoneDelivered DEF Delivered
    <3>3. ~ body.gzip_valid
      BY <1>9, <1>12, <2>2, <2>4 DEF Unzips
    <3>. QED  BY <1>12, <3>1, <3>2, <3>3 DEF ReadOutcome, w
  <2>. QED  BY <2>3, <2>4
<1>13. ASSUME body.gzip, ~complete PROVE ReadOutcome(k, complete, exceeded)
  <2>1. /\ out' = out /\ gzipped' = gzipped \o all
        /\ step' = IF exceeded THEN "error"
                   ELSE "read_delay"
    BY <1>0, <1>13
  <2>2. gzipped' = BytesTo(w, k) /\ out = <<>>
    BY <1>5, <1>7, <1>13, <2>1 DEF Passed, w
  <2>3. Passed' = BytesTo(w, k)
    BY <1>2, <1>13, <2>2 DEF Passed
  <2>4. Delivered' = <<>> /\ InTurn(out')
    BY <1>3, <2>1, <2>2, NoneDelivered DEF Delivered
  <2>. QED  BY <1>13, <2>1, <2>2, <2>3, <2>4 DEF ReadOutcome, w
<1>14. ASSUME ~body.gzip PROVE ReadOutcome(k, complete, exceeded)
  <2>1. /\ Deliver(total, all)
        /\ step' = IF complete THEN "complete"
                   ELSE IF exceeded THEN "error"
                   ELSE "read_delay"
    BY <1>0, <1>14
  <2>2. Delivered = BytesTo(w, Reached)
    BY <1>7, <1>14 DEF Passed, w
  <2>3. total = Len(Delivered)
    <3>1. Reached \in 0..Len(w)
      <4>1. /\ Len(w) \in Nat /\ Len(buffer) \in Nat /\ Len(unread) \in Nat
            /\ Len(buffer) + Len(unread) <= Len(w)
        BY <1>2, <1>3 DEF Underway, Ended, Placed, w
      <4>2. Len(w) - Len(buffer) - Len(unread) \in 0..Len(w)
        BY <4>1
      <4>. QED  BY <4>2 DEF Reached, Pos, w
    <3>2. \A i \in DOMAIN w : w[i].t = "byte"
      BY <1>3, <1>6, BodyType DEF WellFramed, w
    <3>3. Len(BytesTo(w, Reached)) = Reached
      BY <1>6, <3>1, <3>2, PlainBytes DEF w
    <3>. QED  BY <1>7, <2>2, <3>3
  <2>4. InTurn(out') /\ Delivered' = Delivered \o all
    <3>1. all \in Seq(Item)
      BY <1>5, TokensAreItems
    <3>2. Deliver(Len(Delivered), all)
      BY <2>1, <2>3
    <3>. HIDE DEF all
    <3>. QED  BY <1>3, <3>1, <3>2, DeliverStep
  <2>5. Delivered' = BytesTo(w, k)
    BY <1>5, <2>2, <2>4 DEF w
  <2>6. Passed' = BytesTo(w, k)
    BY <1>2, <1>14, <2>5 DEF Passed
  <2>. QED  BY <1>14, <2>1, <2>4, <2>5, <2>6 DEF ReadOutcome, w
<1>15. ReadOutcome(k, complete, exceeded)
  BY <1>6, <1>12, <1>13, <1>14
<1>16. TypeOK'
  <2>1. step' \in {"complete", "error", "read_delay"}
    BY <1>15 DEF ReadOutcome
  <2>2. total' \in Nat /\ buffer' \in Seq(Token) /\ gzipped' \in Seq(Token)
    <3>1. gzipped \o all \in Seq(Token)
      BY <1>5, <1>8
    <3>2. k \in Nat /\ total' = k
      BY <1>0, <1>5
    <3>3. gzipped' \in Seq(Token)
      <4>. DEFINE kept == gzipped \o all
      <4>. kept \in Seq(Token) /\ (body.gzip => gzipped' = kept)
        BY <1>0, <3>1
      <4>. HIDE DEF kept
      <4>. QED  BY <1>0, <1>8
    <3>4. buffer' = <<>> /\ <<>> \in Seq(Token)
      BY <1>0
    <3>. QED  BY <3>2, <3>3, <3>4, Zenon
  <2>3. want' \in Nat
    <3>1. CASE step' # "read_delay"
      BY <1>0, <3>1
    <3>2. CASE step' = "read_delay" /\ body.framing = "length"
      <4>1. want' = Smaller(body.length - k, ReadSize)
        BY <1>0, <1>5, <3>2
      <4>2. body.length # k /\ ~ (body.length < k)
        BY <1>5, <1>15, <3>2 DEF ReadOutcome, complete, exceeded
      <4>3. body.length - k \in Nat
        BY <1>5, <1>6, <4>2
      <4>. QED  BY <1>6, <4>1, <4>3 DEF Smaller
    <3>3. CASE step' = "read_delay" /\ body.framing # "length"
      BY <1>0, <1>6, <3>3
    <3>. QED  BY <3>1, <3>2, <3>3
  <2>4. \A i \in DOMAIN out' : out'[i].start \in Nat
    BY <1>15, StartsAreNat DEF ReadOutcome
  <2>. QED  BY <1>0, <1>2, <1>3, <1>8, <2>1, <2>2, <2>3, <2>4 DEF TypeOK, Ended
<1>17. Underway'
  <2>. SUFFICES ASSUME step' \notin Ended
                PROVE  /\ Placed(body.wire, buffer, unread)'
                       /\ Passed' = BytesTo(body.wire, Reached)' /\ Counted' /\ AtStep'
    BY DEF Underway
  <2>1. step' = "read_delay"
    BY <1>15 DEF ReadOutcome, Ended
  <2>2. Placed(body.wire, buffer, unread)'
    BY <1>0, <1>2, <1>5 DEF w
  <2>3. Passed' = BytesTo(body.wire, Reached)' /\ (body.gzip => out' = <<>>)
    BY <1>2, <1>11, <1>15, <2>1 DEF ReadOutcome
  <2>4. total' = Reached'
    BY <1>0, <1>5, <1>11
  <2>5. Counted'
    BY <1>2, <1>6, <2>3, <2>4 DEF Counted
  <2>6. AtStep'
    BY <1>0, <1>2, <1>6, <2>1 DEF AtStep
  <2>. QED  BY <2>2, <2>3, <2>5, <2>6
<1>18. FromServer'
  <2>1. IsPrefix(<<>>, Sent) /\ IsPrefix(BytesTo(w, k), Sent)
    BY <1>3, <1>5, NothingFromServer, FromServerAt DEF w
  <2>2. Delivered' \in {<<>>, BytesTo(w, k)}
    BY <1>15 DEF ReadOutcome, w
  <2>3. IsPrefix(Delivered', Sent')
    BY <1>11, <2>1, <2>2
  <2>. QED  BY <2>3 DEF FromServer
<1>19. CompleteIsWhole'
  <2>. SUFFICES ASSUME step' = "complete"
                PROVE  /\ Delivered' = Announced'
                       /\ body.framing = "length" => Len(Delivered') = body.length
    BY <1>2 DEF CompleteIsWhole
  <2>1. complete /\ Delivered' = BytesTo(w, k)
    BY <1>15 DEF ReadOutcome, w
  <2>2. Len(BytesTo(w, k)) = k
    <3>. \A i \in DOMAIN w : w[i].t = "byte"
      BY <1>3, <1>6, BodyType DEF WellFramed, w
    <3>. QED  BY <1>5, <1>6, PlainBytes
  <2>3. body.framing = "length" => body.length = k
    BY <1>5, <2>1 DEF complete
  <2>. QED  BY <1>9, <1>11, <2>1, <2>2, <2>3
<1>20. WholeIsAccepted'
  <2>. SUFFICES ASSUME body.whole, body.gzip => body.gzip_valid, step' = "error"
                PROVE  FALSE
    BY <1>2 DEF WholeIsAccepted
  <2>1. exceeded
    BY <1>15 DEF ReadOutcome
  <2>2. body.framing = "length" /\ body.length < k
    BY <1>5, <2>1 DEF exceeded
  <2>. QED  BY <1>5, <1>6, <2>2
<1>. QED  BY <1>15, <1>16, <1>17, <1>18, <1>19, <1>20 DEF ReadOutcome, ContentInv

----------------------------------------------------------------------------
(***************************************************************************)
(* A body in chunks.                                                       *)
(***************************************************************************)

\* All that was sent has been taken where no byte follows.
LEMMA AllSentAt ==
  ASSUME TypeOK, NEW k \in 0..Len(body.wire),
         \A j \in k + 1..Len(body.wire) : body.wire[j].t # "byte"
  PROVE  BytesTo(body.wire, k) = Sent
<1>. DEFINE w == body.wire
            n == Len(w) - k
<1>1. w \in Seq(Token) /\ Len(w) \in Nat
  BY BodyType
<1>2. \A j \in k + 1..Len(w) : w[j].t # "byte"
  OBVIOUS
<1>. HIDE DEF w
<1>3. k \in Nat /\ n \in Nat /\ k + n = Len(w) /\ k + n <= Len(w)
  BY <1>1 DEF w
<1>4. \A j \in k + 1..k + n : w[j].t # "byte"
  BY <1>2, <1>3
<1>. HIDE DEF n
<1>5. BytesTo(w, k + n) = BytesTo(w, k)
  BY <1>1, <1>3, <1>4, BytesSkip
<1>. QED  BY <1>3, <1>5, SentIs DEF w

\* Where the read of a size line stands: all is the buffer then.
LineRead(all) ==
  /\ Placed(body.wire, all, unread') /\ Pos(body.wire, all, unread') = Reached
  /\ Reached \in Nat /\ Len(all) \in Nat /\ Reached + Len(all) <= Len(body.wire)
  /\ \A i \in 1..Len(all) : all[i] = body.wire[Reached + i]
  /\ HasLine(all) \/ Reached + Len(all) = Len(body.wire)

LEMMA LineReadTo ==
  ASSUME ContentInv, step = "size_line", NEW result, NEW all, ReadLine(result, all)
  PROVE  /\ LineRead(all)
         /\ IF HasLine(all) THEN result = "ok" ELSE result = body.end
         /\ Lost => all = <<>> /\ unread' = <<>>
<1>. DEFINE w == body.wire
            k == Pos(w, buffer, unread)
<1>1. PICK m \in 0..Len(unread) :
        /\ unread' = Drop(unread, m) /\ all = buffer \o Take(unread, m)
        /\ IF HasLine(all) THEN result = "ok" /\ (HasLine(buffer) => m = 0)
           ELSE result = body.end /\ m = Len(unread)
  BY DEF ReadLine
<1>2. /\ w \in Seq(Token) /\ Len(w) \in Nat /\ Placed(w, buffer, unread)
      /\ unread \in Seq(Token) /\ Len(unread) \in Nat
  BY BodyType DEF ContentInv, Underway, Ended, TypeOK
<1>3. m \in Nat /\ Smaller(m, Len(unread)) = m
  BY <1>2 DEF Smaller
<1>. HIDE DEF w
<1>4. /\ Placed(w, all, unread') /\ Pos(w, all, unread') = k
      /\ Len(unread') = Len(unread) - m
  <2>. DEFINE a == buffer \o Take(unread, m)
              u == Drop(unread, m)
  <2>1. /\ Placed(w, a, u) /\ Pos(w, a, u) = Pos(w, buffer, unread)
        /\ Len(u) = Len(unread) - Smaller(m, Len(unread))
    BY <1>2, <1>3, PlacedRead
  <2>2. all = a /\ unread' = u
    BY <1>1
  <2>. HIDE DEF a, u
  <2>. QED  BY <1>3, <2>1, <2>2
<1>5. /\ all \in Seq(Token) /\ unread' \in Seq(Token)
      /\ Len(all) + Len(unread') <= Len(w)
      /\ \A i \in 1..Len(all) : all[i] = w[k + i]
  BY <1>4 DEF Placed
<1>6. k = Len(w) - Len(all) - Len(unread')
  BY <1>4 DEF Pos
<1>7. Len(all) \in Nat /\ Len(unread') \in Nat
  BY <1>5
<1>. HIDE DEF k
<1>8. k \in Nat /\ k + Len(all) <= Len(w)
  BY <1>2, <1>5, <1>6, <1>7
<1>9. HasLine(all) \/ k + Len(all) = Len(w)
  <2>. SUFFICES ASSUME ~HasLine(all) PROVE k + Len(all) = Len(w)
    OBVIOUS
  <2>1. Len(unread') = 0
    BY <1>1, <1>2, <1>4
  <2>. QED  BY <1>2, <1>6, <1>7, <2>1
<1>10. Reached = k
  BY DEF Reached, k, w
<1>11. LineRead(all)
  BY <1>4, <1>5, <1>7, <1>8, <1>9, <1>10 DEF LineRead, w
<1>12. Lost => all = <<>> /\ unread' = <<>>
  <2>. SUFFICES ASSUME Lost PROVE all = <<>> /\ unread' = <<>>
    OBVIOUS
  <2>1. buffer = <<>> /\ unread = <<>>
    BY DEF Lost
  <2>2. m = 0
    BY <1>1, <2>1
  <2>3. Len(unread') = 0
    BY <1>4, <2>1, <2>2
  <2>4. Len(buffer \o Take(unread, m)) = Len(buffer) + Smaller(m, Len(unread))
    BY <1>2, <1>3, PlacedRead
  <2>5. Len(all) = 0
    BY <1>1, <1>3, <2>1, <2>2, <2>4
  <2>. QED  BY <1>5, <2>3, <2>5
<1>. QED  BY <1>1, <1>11, <1>12

\* A line that is no size line ends the request, which a whole body never has.
LEMMA BadLineKeeps ==
  ASSUME ContentInv, step = "size_line", NEW result, NEW all, ReadLine(result, all),
         \/ result = "reset"
         \/ result = "eof" /\ body.is_ssl
         \/ (IF all = <<>> THEN BadLine ELSE Head(all)).t \notin {"size", "cut"},
         step' = "error", buffer' = all, chunk' = 0,
         UNCHANGED <<body, want, total, early, gzipped, out>>
  PROVE  ContentInv'
<1>1. TypeOK /\ Underway /\ InTurn(out)
  BY DEF ContentInv
<1>2. /\ LineRead(all)
      /\ IF HasLine(all) THEN result = "ok" ELSE result = body.end
      /\ Lost => all = <<>> /\ unread' = <<>>
  BY LineReadTo
<1>3. all \in Seq(Token) /\ unread' \in Seq(Token)
  BY <1>2 DEF LineRead, Placed
<1>4. TypeOK'
  BY <1>1, <1>3 DEF TypeOK, Ended
<1>5. InTurn(out') /\ FromServer'
  <2>1. unread' = unread \/ IsPrefix(Delivered, Sent)
    BY <1>2, GoodPrefix DEF Lost, Ended
  <2>. QED  BY <2>1, NothingTold
<1>6. Underway' /\ CompleteIsWhole'
  BY DEF Underway, CompleteIsWhole, Ended
<1>7. ASSUME body.end = "eof", body.whole
      PROVE  FALSE
  <2>. DEFINE w == body.wire
  <2>1. /\ Reached + 1 \in DOMAIN w /\ w[Reached + 1].t = "size"
    BY <1>1, <1>7 DEF Underway, AtStep, SizeNext, Ended
  <2>2. /\ Reached \in Nat /\ Len(all) \in Nat
        /\ \A i \in 1..Len(all) : all[i] = w[Reached + i]
        /\ HasLine(all) \/ Reached + Len(all) = Len(w)
    BY <1>2 DEF LineRead
  <2>3. w \in Seq(Token)
    BY <1>1, BodyType
  <2>. HIDE DEF w
  <2>4. Len(all) # 0
    <3>1. HasLine(all) => Len(all) # 0
      <4>1. Len(all) = 0 => DOMAIN all = {}
        BY <1>3
      <4>. QED  BY <4>1 DEF HasLine
    <3>2. Reached + 1 <= Len(w)
      BY <2>1, <2>3
    <3>. QED  BY <2>2, <2>3, <3>1, <3>2
  <2>5. 1 \in 1..Len(all) /\ all # <<>> /\ Head(all) = all[1] /\ 1 \in DOMAIN all
    BY <1>3, <2>2, <2>4
  <2>6. all[1].t = "size"
    BY <2>1, <2>2, <2>5
  <2>7. HasLine(all)
    BY <2>5, <2>6 DEF HasLine
  <2>8. result = "ok"
    BY <1>2, <2>7
  <2>. QED  BY <2>5, <2>6, <2>8
<1>8. WholeIsAccepted'
  BY <1>7 DEF WholeIsAccepted
<1>. QED  BY <1>4, <1>5, <1>6, <1>8 DEF ContentInv

\* Where a size line stands that was read.
LineTaken(all, k) ==
  /\ k \in 1..Len(body.wire) /\ Head(all) = body.wire[k]
  /\ Placed(body.wire, Tail(all), unread') /\ Pos(body.wire, Tail(all), unread') = k
  /\ Passed = BytesTo(body.wire, k)
  /\ body.whole => body.wire[k].t = "size"

LEMMA LineTakenAt ==
  ASSUME ContentInv, step = "size_line", NEW result, NEW all, ReadLine(result, all),
         all # <<>>, Head(all).t \in {"size", "cut"}
  PROVE  LineTaken(all, Reached + 1)
<1>. DEFINE w == body.wire
            k == Reached
<1>1. TypeOK /\ Underway
  BY DEF ContentInv
<1>2. LineRead(all) /\ ~Lost
  BY LineReadTo
<1>3. /\ Placed(w, all, unread') /\ Pos(w, all, unread') = k
      /\ k \in Nat /\ Len(all) \in Nat /\ k + Len(all) <= Len(w)
      /\ \A i \in 1..Len(all) : all[i] = w[k + i]
  BY <1>2 DEF LineRead
<1>4. w \in Seq(Token) /\ Len(w) \in Nat /\ all \in Seq(Token)
  BY <1>1, <1>3, BodyType DEF Placed
<1>5. Passed = BytesTo(w, k) /\ (body.whole => w[k + 1].t = "size")
  BY <1>1, <1>2 DEF Underway, AtStep, SizeNext, Ended
<1>. HIDE DEF w, k
<1>6. 1 \in 0..Len(all) /\ 1 \in 1..Len(all) /\ Head(all) = all[1]
  BY <1>4
<1>7. Head(all) = w[k + 1] /\ k + 1 \in 1..Len(w)
  BY <1>3, <1>4, <1>6
<1>8. Placed(w, Tail(all), unread') /\ Pos(w, Tail(all), unread') = k + 1
  <2>1. Tail(all) = Drop(all, 1)
    <3>1. Tail(all) = SubSeq(all, 2, Len(all))
      BY <1>4, TailIsSubSeq
    <3>2. 1 + 1 = 2
      OBVIOUS
    <3>. QED  BY <3>1, <3>2 DEF Drop
  <2>2. Placed(w, Drop(all, 1), unread') /\ Pos(w, Drop(all, 1), unread') = k + 1
    BY <1>3, <1>6, PlacedConsume
  <2>. QED  BY <2>1, <2>2
<1>9. BytesTo(w, k + 1) = BytesTo(w, k)
  <2>1. w[k + 1].t # "byte"
    BY <1>7
  <2>2. \A i \in k + 1..k + 1 : w[i].t # "byte"
    BY <1>3, <2>1
  <2>3. k + 1 <= Len(w)
    BY <1>4, <1>7
  <2>. QED  BY <1>3, <1>4, <2>2, <2>3, BytesSkip
<1>. QED  BY <1>5, <1>7, <1>8, <1>9 DEF LineTaken, w, k

LEMMA SizeLineKeeps ==
  ASSUME ContentInv, HandleContentChunkSizeRead
  PROVE  ContentInv'
<1>1. PICK result \in {"ok", "eof", "reset"}, n \in 0..Len(unread) :
        LET all == buffer \o Take(unread, n)
            line == IF all = <<>> THEN BadLine ELSE Head(all)
            bad == \/ result = "reset"
                   \/ result = "eof" /\ body.is_ssl
                   \/ line.t \notin {"size", "cut"}
        IN  /\ ReadLine(result, all)
            /\ buffer' = (IF bad THEN all ELSE Tail(all))
            /\ chunk' = (IF bad THEN 0 ELSE line.n)
            /\ IF ~bad /\ line.n = 0 /\ body.gzip THEN Unzip(gzipped)
               ELSE /\ step' = IF bad THEN "error"
                               ELSE IF line.n = 0 THEN "complete"
                               ELSE "chunk_delay"
                    /\ UNCHANGED out
  BY DEF HandleContentChunkSizeRead
<1>2. step = "size_line" /\ UNCHANGED <<body, want, total, early, gzipped>>
  BY DEF HandleContentChunkSizeRead
<1>. DEFINE all == buffer \o Take(unread, n)
            line == IF all = <<>> THEN BadLine ELSE Head(all)
            bad == \/ result = "reset"
                   \/ result = "eof" /\ body.is_ssl
                   \/ line.t \notin {"size", "cut"}
<1>3. /\ ReadLine(result, all)
      /\ bad => buffer' = all /\ chunk' = 0 /\ step' = "error" /\ out' = out
      /\ ~bad => buffer' = Tail(all) /\ chunk' = line.n
      /\ ~bad /\ line.n = 0 /\ body.gzip => Unzip(gzipped)
      /\ ~bad /\ line.n = 0 /\ ~body.gzip => step' = "complete" /\ out' = out
      /\ ~bad /\ line.n # 0 => step' = "chunk_delay" /\ out' = out
  BY <1>1
<1>4. CASE bad
  <2>1. /\ \/ result = "reset"
           \/ result = "eof" /\ body.is_ssl
           \/ (IF all = <<>> THEN BadLine ELSE Head(all)).t \notin {"size", "cut"}
        /\ step' = "error" /\ buffer' = all /\ chunk' = 0 /\ out' = out
    BY <1>3, <1>4
  <2>. HIDE DEF all
  <2>. QED  BY <1>2, <1>3, <2>1, BadLineKeeps
<1>5. ASSUME ~bad PROVE ContentInv'
  <2>1. all # <<>> /\ line = Head(all) /\ Head(all).t \in {"size", "cut"}
    BY <1>5 DEF BadLine
  <2>2. /\ buffer' = Tail(all) /\ chunk' = Head(all).n
        /\ Head(all).n = 0 /\ body.gzip => Unzip(gzipped)
        /\ Head(all).n = 0 /\ ~body.gzip => step' = "complete" /\ out' = out
        /\ Head(all).n # 0 => step' = "chunk_delay" /\ out' = out
    BY <1>3, <1>5, <2>1
  <2>3. ReadLine(result, all)
    BY <1>3
  <2>. HIDE DEF all, bad, line
  <2>. DEFINE w == body.wire
              k == Reached + 1
  <2>4. TypeOK /\ Underway /\ InTurn(out)
    BY DEF ContentInv
  <2>5. /\ k \in 1..Len(w) /\ Head(all) = w[k]
        /\ Placed(w, Tail(all), unread') /\ Pos(w, Tail(all), unread') = k
        /\ Passed = BytesTo(w, k)
        /\ body.whole => w[k].t = "size"
    <3>1. LineTaken(all, k)
      BY <1>2, <2>1, <2>3, LineTakenAt
    <3>. QED  BY <3>1 DEF LineTaken
  <2>6. /\ w \in Seq(Token) /\ Len(w) \in Nat /\ body.gzip \in BOOLEAN
        /\ body.framing = "chunked" /\ InFrame(w)
    BY <1>2, <2>4, BodyType DEF Underway, AtStep, Ended, WellFramed
  <2>7. /\ body.gzip => out = <<>>
        /\ ~body.gzip => total = Len(Delivered)
        /\ gzipped \in Seq(Token)
    BY <1>2, <2>4, <2>6 DEF Underway, Counted, Ended, TypeOK
  <2>8. /\ Placed(body.wire, buffer, unread)' /\ Reached' = k /\ Sent' = Sent
        /\ Announced' = Announced /\ Announced = Sent
        /\ buffer' \in Seq(Token) /\ unread' \in Seq(Token)
    BY <1>2, <2>2, <2>5, <2>6 DEF Reached, Sent, Announced, Placed
  <2>. HIDE DEF w, k
  <2>9. w[k] \in Token /\ w[k].n \in Nat /\ w[k].t \in {"size", "cut"} /\ k \in DOMAIN w
    <3>1. w[k] \in Token /\ k \in DOMAIN w
      BY <2>5, <2>6
    <3>. QED  BY <2>1, <2>5, <3>1 DEF Token
  <2>10. IsPrefix(Sent, Sent) /\ (w[k].n = 0 => BytesTo(w, k) = Sent)
    <3>1. ASSUME w[k].n = 0 PROVE BytesTo(w, k) = Sent
      <4>1. \A j \in k + 1..Len(w) : w[j].t # "byte"
        <5>. SUFFICES ASSUME NEW j \in k + 1..Len(w) PROVE w[j].t # "byte"
          OBVIOUS
        <5>1. j \in DOMAIN w /\ j > k /\ ~ (j <= k + w[k].n)
          BY <2>5, <2>6, <3>1
        <5>. QED  BY <2>6, <2>9, <3>1, <5>1 DEF InFrame
      <4>2. k \in 0..Len(w)
        BY <2>5
      <4>. QED  BY <2>4, <4>1, <4>2, AllSentAt DEF w
    <3>2. IsPrefix(Sent, Sent)
      <4>. Len(body.wire) \in 0..Len(body.wire)
        BY <2>4, BodyType
      <4>. QED  BY <2>4, SentIs, FromServerAt
    <3>. QED  BY <3>1, <3>2
  <2>11. ASSUME w[k].n = 0, ~body.gzip PROVE ContentInv'
    <3>1. step' = "complete" /\ out' = out /\ chunk' = 0
      BY <2>2, <2>5, <2>11
    <3>2. Delivered = Sent /\ Delivered' = Delivered
      BY <2>5, <2>10, <2>11, <3>1 DEF Passed, Delivered
    <3>3. TypeOK'
      BY <1>2, <2>4, <2>8, <3>1 DEF TypeOK, Ended
    <3>4. InTurn(out') /\ FromServer' /\ CompleteIsWhole'
      BY <1>2, <2>4, <2>6, <2>8, <2>10, <3>1, <3>2 DEF FromServer, CompleteIsWhole
    <3>5. Underway' /\ WholeIsAccepted'
      BY <3>1 DEF Underway, WholeIsAccepted, Ended
    <3>. QED  BY <3>3, <3>4, <3>5 DEF ContentInv
  <2>12. ASSUME w[k].n = 0, body.gzip PROVE ContentInv'
    <3>1. Unzip(gzipped) /\ chunk' = 0 /\ out = <<>> /\ gzipped = Sent
      BY <2>2, <2>5, <2>7, <2>10, <2>12 DEF Passed
    <3>2. Delivered = <<>> /\ Len(Delivered) = 0
      BY <3>1, NoneDelivered
    <3>3. CASE Unzips(gzipped)
      <4>1. Deliver(0, gzipped) /\ step' = "complete"
        BY <3>1, <3>3 DEF Unzip
      <4>2. gzipped \in Seq(Item)
        BY <2>7, TokensAreItems
      <4>3. InTurn(out') /\ Delivered' = <<>> \o gzipped
        BY <2>4, <3>2, <4>1, <4>2, DeliverStep
      <4>4. Delivered' = Sent
        BY <2>7, <3>1, <4>3, ConcatEmptySeq
      <4>5. TypeOK'
        <5>1. \A i \in DOMAIN out' : out'[i].start \in Nat
          BY <4>3, StartsAreNat
        <5>. QED  BY <1>2, <2>4, <2>8, <3>1, <4>1, <5>1 DEF TypeOK, Ended
      <4>6. FromServer' /\ CompleteIsWhole'
        BY <1>2, <2>6, <2>8, <2>10, <4>4 DEF FromServer, CompleteIsWhole
      <4>7. Underway' /\ WholeIsAccepted'
        BY <4>1 DEF Underway, WholeIsAccepted, Ended
      <4>. QED  BY <4>3, <4>5, <4>6, <4>7 DEF ContentInv
    <3>4. CASE ~Unzips(gzipped)
      <4>1. step' = "error" /\ out' = out
        BY <3>1, <3>4 DEF Unzip
      <4>2. ~body.gzip_valid
        BY <2>8, <3>1, <3>4 DEF Unzips
      <4>3. Delivered' = <<>>
        BY <3>2, <4>1 DEF Delivered
      <4>4. TypeOK'
        BY <1>2, <2>4, <2>8, <3>1, <4>1 DEF TypeOK, Ended
      <4>5. InTurn(out') /\ FromServer'
        BY <2>4, <2>8, <4>1, <4>3, NothingFromServer DEF FromServer
      <4>6. Underway' /\ CompleteIsWhole' /\ WholeIsAccepted'
        BY <1>2, <2>12, <4>1, <4>2
           DEF Underway, CompleteIsWhole, WholeIsAccepted, Ended
      <4>. QED  BY <4>4, <4>5, <4>6 DEF ContentInv
    <3>. QED  BY <3>3, <3>4
  <2>13. ASSUME w[k].n # 0 PROVE ContentInv'
    <3>1. step' = "chunk_delay" /\ out' = out /\ chunk' = w[k].n
      BY <2>2, <2>5, <2>13
    <3>2. Delivered' = Delivered /\ Passed' = Passed
      BY <1>2, <3>1 DEF Delivered, Passed
    <3>3. TypeOK'
      BY <1>2, <2>4, <2>8, <2>9, <3>1 DEF TypeOK, Ended
    <3>4. Counted' /\ InChunk'
      BY <1>2, <2>5, <2>6, <2>7, <2>8, <2>9, <2>13, <3>1, <3>2 DEF Counted, InChunk, w
    <3>5. AtStep'
      BY <1>2, <2>6, <3>1, <3>4 DEF AtStep
    <3>6. Passed' = BytesTo(body.wire, Reached)'
      BY <1>2, <2>5, <2>8, <3>2 DEF w
    <3>7. Underway'
      BY <2>8, <3>4, <3>5, <3>6 DEF Underway
    <3>8. InTurn(out') /\ FromServer'
      <4>. ~Lost
        BY <2>1, <2>3, <1>2, LineReadTo
      <4>. QED  BY <1>2, <3>1, GoodPrefix, NothingTold DEF Ended
    <3>9. CompleteIsWhole' /\ WholeIsAccepted'
      BY <3>1 DEF CompleteIsWhole, WholeIsAccepted
    <3>. QED  BY <3>3, <3>7, <3>8, <3>9 DEF ContentInv
  <2>. QED  BY <2>6, <2>11, <2>12, <2>13
<1>. QED  BY <1>4, <1>5

\* Where the read of a chunk ends: g bytes of it were there, and m tokens are
\* taken from the buffer.
ChunkTaken(all, g, m) ==
  /\ all \in Seq(Token) /\ g \in 0..chunk /\ m \in Nat
  /\ Take(all, chunk) \in Seq(Token) /\ Len(Take(all, chunk)) = g
  /\ BytesTo(body.wire, Reached) \o Take(all, chunk) = BytesTo(body.wire, Reached + m)
  /\ Reached + m <= Len(body.wire)
  /\ Placed(body.wire, Drop(all, Smaller(chunk + 2, Len(all))), unread')
  /\ Pos(body.wire, Drop(all, Smaller(chunk + 2, Len(all))), unread') = Reached + m
  /\ body.whole => m = chunk + 2
  /\ g # chunk =>
       /\ body.end = "eof" /\ ~body.whole /\ Reached + m = Len(body.wire)
       /\ Drop(all, Smaller(chunk + 2, Len(all))) = <<>> /\ unread' = <<>>

LEMMA ChunkTakenAt ==
  ASSUME ContentInv, step = "chunk", NEW result \in {"ok", "eof"}, ReadExactly(result)
  PROVE  \E g, m : ChunkTaken(buffer \o Got, g, m)
<1>. DEFINE w == body.wire
            all == buffer \o Got
            left == Drop(unread, want)
            k == Pos(w, buffer, unread)
            g == Smaller(chunk, Len(all))
            m == Smaller(chunk + 2, Len(all))
<1>1. TypeOK /\ Underway
  BY DEF ContentInv
<1>2. /\ w \in Seq(Token) /\ Len(w) \in Nat /\ want \in Nat /\ chunk \in Nat
      /\ buffer \in Seq(Token) /\ unread \in Seq(Token)
      /\ Len(buffer) \in Nat /\ Len(unread) \in Nat
  BY <1>1, BodyType DEF TypeOK
<1>3. /\ Placed(w, buffer, unread) /\ want + Len(buffer) >= chunk + 2
      /\ k \in DOMAIN w /\ w[k].t \in {"size", "cut"} /\ w[k].n = chunk /\ chunk # 0
      /\ body.whole => w[k].t = "size"
      /\ InFrame(w) /\ (body.whole => AllChunks(w))
  BY <1>1, BodyType DEF Underway, AtStep, InChunk, Reached, Ended, WellFramed
<1>. HIDE DEF w
<1>4. /\ unread' = left
      /\ IF Len(unread) >= want THEN result = "ok" ELSE result = body.end
  BY DEF ReadExactly
<1>5. /\ Placed(w, all, left) /\ Pos(w, all, left) = k
      /\ Len(all) = Len(buffer) + Smaller(want, Len(unread))
      /\ Len(left) = Len(unread) - Smaller(want, Len(unread))
  <2>1. /\ Placed(w, buffer \o Take(unread, want), Drop(unread, want))
        /\ Pos(w, buffer \o Take(unread, want), Drop(unread, want)) = Pos(w, buffer, unread)
        /\ Len(buffer \o Take(unread, want)) = Len(buffer) + Smaller(want, Len(unread))
        /\ Len(Drop(unread, want)) = Len(unread) - Smaller(want, Len(unread))
    BY <1>2, <1>3, PlacedRead
  <2>. QED  BY <2>1 DEF Got
<1>. HIDE DEF all, left
<1>6. all \in Seq(Token) /\ left \in Seq(Token) /\ Len(all) \in Nat /\ Len(left) \in Nat
  BY <1>5 DEF Placed
<1>7. k = Len(w) - Len(all) - Len(left) /\ k \in Nat
  BY <1>2, <1>3, <1>5 DEF Pos
<1>. HIDE DEF k
<1>8. /\ g \in 0..Len(all) /\ g \in 0..chunk /\ m \in 0..Len(all) /\ g <= m
      /\ m <= chunk + 2 /\ (g < m => g = chunk) /\ (g # chunk => g = Len(all) /\ m = Len(all))
      /\ (chunk + 2 <= Len(all) => m = chunk + 2)
  BY <1>2, <1>6 DEF Smaller
<1>9. Smaller(g, Len(all)) = g
  <2>. HIDE DEF g
  <2>. QED  BY <1>6, <1>8 DEF Smaller
<1>10. Take(all, chunk) = Take(all, g)
  BY <1>9 DEF Take
<1>. HIDE DEF g, m
\* The bytes of the chunk.
<1>11. /\ Take(all, g) = SubSeq(w, k + 1, k + g)
       /\ Take(all, g) \in Seq(Token) /\ Len(Take(all, g)) = g
       /\ k + g <= Len(w)
  <2>1. Pos(w, all, left) = k
    BY <1>5
  <2>2. Take(all, g) = SubSeq(w, k + 1, k + g) /\ k + g <= Len(w)
    <3>1. Placed(w, all, left) /\ g \in 0..Len(all)
      BY <1>5, <1>8
    <3>2. /\ Take(all, g) = SubSeq(w, Pos(w, all, left) + 1, Pos(w, all, left) + g)
          /\ Pos(w, all, left) + g <= Len(w)
      BY <3>1, PlacedConsume
    <3>. QED  BY <2>1, <3>2
  <2>3. g \in Nat
    BY <1>8
  <2>. QED  BY <1>6, <1>9, <2>2, <2>3, TakeDrop
\* What is taken with them.
<1>12. Placed(w, Drop(all, m), left) /\ Pos(w, Drop(all, m), left) = k + m /\ k + m <= Len(w)
  BY <1>5, <1>8, PlacedConsume
<1>13. \A j \in k + 1..k + m : w[j].t = "byte" <=> j <= k + g
  <2>. SUFFICES ASSUME NEW j \in k + 1..k + m PROVE w[j].t = "byte" <=> j <= k + g
    OBVIOUS
  <2>1. j \in DOMAIN w /\ j > k /\ j <= k + chunk + 2 /\ j \in Nat
    BY <1>2, <1>7, <1>8, <1>12
  <2>2. w[j].t = "byte" <=> j <= k + chunk
    BY <1>3, <2>1 DEF InFrame
  <2>3. j <= k + chunk <=> j <= k + g
    <3>1. g \in Nat /\ m \in Nat
      BY <1>8
    <3>. QED  BY <1>2, <1>7, <1>8, <2>1, <3>1
  <2>. QED  BY <2>2, <2>3
<1>14. BytesTo(w, k) \o Take(all, chunk) = BytesTo(w, k + m)
  <2>. DEFINE d == m - g
  <2>1. d \in Nat /\ k + g \in Nat /\ k + g + d = k + m /\ g \in Nat /\ m \in Nat
    BY <1>7, <1>8
  <2>. HIDE DEF d
  <2>2. \A j \in k + 1..k + g : w[j].t = "byte"
    BY <1>7, <1>8, <1>13, <2>1
  <2>3. BytesTo(w, k + g) = BytesTo(w, k) \o SubSeq(w, k + 1, k + g)
    <3>. w \in Seq(Token) /\ k \in Nat /\ g \in Nat /\ k + g <= Len(w)
      BY <1>2, <1>7, <1>11, <2>1
    <3>. QED  BY <2>2, BytesRun
  <2>4. \A j \in k + g + 1..k + g + d : w[j].t # "byte"
    BY <1>7, <1>13, <2>1
  <2>5. BytesTo(w, k + g + d) = BytesTo(w, k + g)
    <3>. k + g + d <= Len(w)
      BY <1>12, <2>1
    <3>. QED  BY <1>2, <2>1, <2>4, BytesSkip
  <2>. QED  BY <1>10, <1>11, <2>1, <2>3, <2>5
\* The end of the connection.
<1>15. Len(all) < chunk + 2 => result = "eof" /\ body.end = "eof" /\ Len(left) = 0
  <2>. SUFFICES ASSUME Len(all) < chunk + 2
                PROVE  result = "eof" /\ body.end = "eof" /\ Len(left) = 0
    OBVIOUS
  <2>1. ~ (Len(unread) >= want)
    BY <1>2, <1>3, <1>5 DEF Smaller
  <2>2. Smaller(want, Len(unread)) = Len(unread)
    BY <1>2, <2>1 DEF Smaller
  <2>3. Len(left) = 0
    BY <1>2, <1>5, <2>2
  <2>4. result = body.end /\ body.end # "ok"
    BY <1>1, <1>4, <2>1, BodyType
  <2>. QED  BY <2>3, <2>4
<1>16. body.whole => Len(all) >= chunk + 2
  <2>. SUFFICES ASSUME body.whole, Len(all) < chunk + 2 PROVE FALSE
    BY <1>2, <1>6
  <2>1. k + chunk + 3 \in DOMAIN w
    BY <1>3 DEF AllChunks
  <2>2. k + Len(all) = Len(w)
    BY <1>2, <1>6, <1>7, <1>15
  <2>3. k + chunk + 3 <= Len(w)
    BY <1>2, <2>1
  <2>. QED  BY <1>2, <1>6, <1>7, <2>2, <2>3
<1>17. g # chunk => /\ body.end = "eof" /\ ~body.whole /\ k + m = Len(w)
                    /\ Drop(all, m) = <<>> /\ left = <<>>
  <2>. SUFFICES ASSUME g # chunk
                PROVE  /\ body.end = "eof" /\ ~body.whole /\ k + m = Len(w)
                       /\ Drop(all, m) = <<>> /\ left = <<>>
    OBVIOUS
  <2>1. g = Len(all) /\ m = Len(all) /\ Len(all) < chunk + 2
    BY <1>2, <1>6, <1>8
  <2>2. body.end = "eof" /\ Len(left) = 0 /\ ~body.whole
    BY <1>2, <1>6, <1>15, <1>16, <2>1
  <2>3. k + m = Len(w)
    BY <1>2, <1>6, <1>7, <2>1, <2>2
  <2>4. Drop(all, m) = <<>>
    BY <1>6, <2>1, SubSeqEmpty DEF Drop
  <2>. QED  BY <1>6, <2>2, <2>3, <2>4
<1>18. Reached = k
  BY DEF Reached, k, w
<1>19. body.whole => m = chunk + 2
  BY <1>2, <1>6, <1>8, <1>16
<1>20. ChunkTaken(all, g, m)
  <2>1. m \in Nat /\ g \in 0..chunk
    BY <1>8
  <2>2. Drop(all, Smaller(chunk + 2, Len(all))) = Drop(all, m)
    BY DEF m
  <2>3. Take(all, chunk) \in Seq(Token) /\ Len(Take(all, chunk)) = g
    BY <1>10, <1>11
  <2>. HIDE DEF m
  <2>. QED  BY <1>4, <1>6, <1>12, <1>14, <1>17, <1>18, <1>19, <2>1, <2>2, <2>3
            DEF ChunkTaken, w
<1>. QED  BY <1>20 DEF all

LEMMA ChunkReadKeeps ==
  ASSUME ContentInv, HandleContentChunkRead
  PROVE  ContentInv'
<1>1. PICK result \in {"ok", "eof"} :
        LET all == buffer \o Got
            got == Take(all, chunk)
            rest == [i \in 1..chunk - Len(got) |-> Garbage]
        IN  /\ ReadExactly(result)
            /\ step' = "size_line"
            /\ buffer' = Drop(all, Smaller(chunk + 2, Len(all)))
            /\ total' = total + chunk
            /\ IF body.gzip
               THEN gzipped' = gzipped \o got /\ UNCHANGED out
               ELSE Deliver(total, got \o rest) /\ UNCHANGED gzipped
  BY DEF HandleContentChunkRead
<1>2. step = "chunk" /\ UNCHANGED <<body, want, early, chunk>>
  BY DEF HandleContentChunkRead
<1>. DEFINE all == buffer \o Got
            got == Take(all, chunk)
            rest == [i \in 1..chunk - Len(got) |-> Garbage]
            w == body.wire
<1>3. /\ step' = "size_line" /\ buffer' = Drop(all, Smaller(chunk + 2, Len(all)))
      /\ total' = total + chunk
      /\ body.gzip => gzipped' = gzipped \o got /\ out' = out
      /\ ~body.gzip => Deliver(total, got \o rest) /\ gzipped' = gzipped
  BY <1>1
<1>4. PICK g, m : ChunkTaken(all, g, m)
  BY <1>1, <1>2, ChunkTakenAt
<1>5. /\ g \in 0..chunk /\ m \in Nat /\ got \in Seq(Token) /\ Len(got) = g
      /\ BytesTo(w, Reached) \o got = BytesTo(w, Reached + m)
      /\ Reached + m <= Len(w)
      /\ Placed(w, buffer', unread') /\ Pos(w, buffer', unread') = Reached + m
      /\ body.whole => m = chunk + 2
      /\ g # chunk =>
           /\ body.end = "eof" /\ ~body.whole /\ Reached + m = Len(w)
           /\ buffer' = <<>> /\ unread' = <<>>
  BY <1>3, <1>4 DEF ChunkTaken
<1>6. TypeOK /\ Underway /\ InTurn(out)
  BY DEF ContentInv
<1>7. /\ w \in Seq(Token) /\ Len(w) \in Nat /\ body.gzip \in BOOLEAN
      /\ body.framing = "chunked" /\ (body.whole => AllChunks(w))
      /\ chunk \in Nat /\ total \in Nat /\ gzipped \in Seq(Token)
  BY <1>2, <1>6, BodyType DEF Underway, AtStep, Ended, WellFramed, TypeOK
<1>8. /\ Passed = BytesTo(w, Reached)
      /\ body.gzip => out = <<>>
      /\ ~body.gzip => total = Len(Delivered)
      /\ InChunk
  BY <1>2, <1>6, <1>7 DEF Underway, Counted, AtStep, Lost, Ended
<1>. HIDE DEF all
<1>9. rest \in Seq(Item) /\ Len(rest) = chunk - g /\ (g = chunk => rest = <<>>)
  <2>1. chunk - g \in Nat
    BY <1>5, <1>7
  <2>2. rest = [i \in 1..chunk - g |-> Garbage]
    BY <1>5
  <2>3. Garbage \in Item
    BY DEF Item
  <2>4. [i \in 1..chunk - g |-> Garbage] \in Seq(Item)
    BY <2>1, <2>3
  <2>5. Len([i \in 1..chunk - g |-> Garbage]) = chunk - g
    BY <2>1
  <2>6. rest \in Seq(Item) /\ Len(rest) = chunk - g
    BY <2>2, <2>4, <2>5
  <2>. HIDE DEF rest
  <2>7. g = chunk => Len(rest) = 0
    BY <1>7, <2>6
  <2>. QED  BY <2>6, <2>7
<1>. HIDE DEF got, rest, w
<1>10. got \in Seq(Item) /\ Delivered \in Seq(Item) /\ BytesTo(w, Reached + m) \in Seq(Token)
  <2>1. Reached \in Nat
    BY <1>7, <1>8 DEF InChunk, w
  <2>2. Reached + m \in 0..Len(w)
    BY <1>5, <1>7, <2>1
  <2>. QED  BY <1>5, <1>6, <1>7, <2>2, TokensAreItems, DeliveredType, BytesToType
<1>11. Sent' = Sent /\ Reached' = Reached + m /\ unread' \in Seq(Token) /\ buffer' \in Seq(Token)
  BY <1>2, <1>5 DEF Sent, Reached, w, Placed
<1>12. SizeNext'
  <2>. SUFFICES ASSUME body.whole
                PROVE  /\ Reached + m + 1 \in DOMAIN w
                       /\ w[Reached + m + 1].t = "size"
    BY <1>2, <1>11 DEF SizeNext, w
  <2>1. /\ Reached \in DOMAIN w /\ w[Reached].t = "size"
        /\ w[Reached].n = chunk /\ chunk # 0
    BY <1>7, <1>8 DEF InChunk, w
  <2>2. /\ Reached + chunk + 3 \in DOMAIN w
        /\ w[Reached + chunk + 3].t = "size"
    BY <1>7, <2>1 DEF AllChunks
  <2>3. Reached + m + 1 = Reached + chunk + 3
    <3>1. m = chunk + 2 /\ Reached \in Nat
      BY <1>5, <1>7, <2>1
    <3>. QED  BY <1>7, <3>1
  <2>. QED  BY <2>2, <2>3
\* What has been passed on, and how it is counted.
<1>13. ASSUME body.gzip
       PROVE  /\ InTurn(out') /\ out' = <<>> /\ Delivered' = <<>>
              /\ Passed' = BytesTo(w, Reached + m) /\ gzipped' \in Seq(Token)
  <2>1. gzipped' = gzipped \o got /\ out' = out /\ out = <<>>
    BY <1>3, <1>8, <1>13
  <2>2. Delivered' = <<>>
    BY <2>1, NoneDelivered DEF Delivered
  <2>3. gzipped' = BytesTo(w, Reached + m)
    BY <1>5, <1>8, <1>13, <2>1 DEF Passed
  <2>. QED  BY <1>2, <1>6, <1>10, <1>13, <2>1, <2>2, <2>3 DEF Passed
<1>14. ASSUME ~body.gzip
       PROVE  /\ InTurn(out') /\ gzipped' \in Seq(Token)
              /\ Delivered' = BytesTo(w, Reached + m) \o rest
              /\ total' = Len(Delivered')
  <2>1. Deliver(total, got \o rest) /\ gzipped' = gzipped
    BY <1>3, <1>14
  <2>2. Delivered = BytesTo(w, Reached) /\ total = Len(Delivered)
    BY <1>8, <1>14 DEF Passed
  <2>3. got \o rest \in Seq(Item) /\ Len(got \o rest) = chunk
    <3>1. got \o rest \in Seq(Item) /\ Len(got \o rest) = Len(got) + Len(rest)
      BY <1>9, <1>10, ConcatProperties
    <3>. QED  BY <1>5, <1>7, <1>9, <3>1
  <2>4. InTurn(out') /\ Delivered' = Delivered \o (got \o rest)
    <3>1. Deliver(Len(Delivered), got \o rest)
      BY <2>1, <2>2
    <3>. QED  BY <1>6, <2>3, <3>1, DeliverStep
  <2>5. Delivered \o (got \o rest) = (Delivered \o got) \o rest
    BY <1>9, <1>10, RegroupItems
  <2>6. Delivered' = BytesTo(w, Reached + m) \o rest
    BY <1>5, <2>2, <2>4, <2>5
  <2>7. total' = Len(Delivered')
    <3>1. Len(Delivered \o (got \o rest)) = Len(Delivered) + Len(got \o rest)
      BY <1>10, <2>3, ConcatProperties
    <3>. QED  BY <1>3, <2>2, <2>3, <2>4, <3>1
  <2>. QED  BY <1>7, <2>1, <2>4, <2>6, <2>7
<1>15. g = chunk => Passed' = BytesTo(w, Reached + m)
  <2>. SUFFICES ASSUME g = chunk, ~body.gzip PROVE Passed' = BytesTo(w, Reached + m)
    BY <1>13
  <2>1. BytesTo(w, Reached + m) \o rest = BytesTo(w, Reached + m)
    <3>1. BytesTo(w, Reached + m) \o <<>> = BytesTo(w, Reached + m)
      BY <1>10, ConcatEmptySeq
    <3>. QED  BY <1>9, <3>1
  <2>. QED  BY <1>2, <1>14, <2>1 DEF Passed
<1>16. g # chunk /\ ~body.gzip => Lost'
  <2>. SUFFICES ASSUME g # chunk, ~body.gzip PROVE Lost'
    OBVIOUS
  <2>1. BytesTo(w, Reached + m) = Sent
    BY <1>5, SentIs DEF w
  <2>2. Sent \in Seq(Item)
    BY <1>10, <2>1, TokensAreItems
  <2>3. IsPrefix(Sent, Sent \o rest)
    BY <1>9, <2>2, ConcatPrefix
  <2>4. IsPrefix(Sent', Delivered')
    BY <1>11, <1>14, <2>1, <2>3
  <2>. QED  BY <1>2, <1>3, <1>5, <1>7, <2>4 DEF Lost
<1>17. TypeOK'
  <2>1. InTurn(out') /\ gzipped' \in Seq(Token)
    BY <1>13, <1>14
  <2>2. total' \in Nat
    BY <1>3, <1>7
  <2>3. \A i \in DOMAIN out' : out'[i].start \in Nat
    BY <2>1, StartsAreNat
  <2>. QED  BY <1>2, <1>3, <1>6, <1>11, <2>1, <2>2, <2>3 DEF TypeOK, Ended
<1>18. Underway'
  <2>1. Passed' = BytesTo(body.wire, Reached)' \/ Lost'
    <3>1. BytesTo(body.wire, Reached)' = BytesTo(w, Reached + m)
      BY <1>2, <1>11 DEF w
    <3>. QED  BY <1>13, <1>15, <1>16, <3>1
  <2>2. Placed(body.wire, buffer, unread)'
    BY <1>2, <1>5 DEF w
  <2>3. Counted'
    BY <1>2, <1>7, <1>13, <1>14 DEF Counted
  <2>4. AtStep'
    BY <1>2, <1>3, <1>7, <1>12 DEF AtStep
  <2>. QED  BY <2>1, <2>2, <2>3, <2>4 DEF Underway
<1>19. FromServer'
  <2>1. CASE body.gzip
    BY <1>6, <1>11, <1>13, <2>1, NothingFromServer DEF FromServer
  <2>2. CASE ~body.gzip /\ g # chunk
    BY <1>16, <2>2 DEF FromServer, Lost
  <2>3. CASE ~body.gzip /\ g = chunk
    <3>1. Delivered' = BytesTo(w, Reached + m)
      BY <1>2, <1>15, <2>3 DEF Passed
    <3>2. Reached + m \in 0..Len(w)
      <4>. Reached \in Nat
        BY <1>7, <1>8 DEF InChunk, w
      <4>. QED  BY <1>5, <1>7
    <3>3. IsPrefix(Delivered', Sent)
      BY <1>6, <3>1, <3>2, FromServerAt DEF w
    <3>. QED  BY <1>11, <3>3 DEF FromServer
  <2>. QED  BY <1>7, <2>1, <2>2, <2>3
<1>20. CompleteIsWhole' /\ WholeIsAccepted'
  BY <1>3 DEF CompleteIsWhole, WholeIsAccepted
<1>. QED  BY <1>13, <1>14, <1>17, <1>18, <1>19, <1>20 DEF ContentInv

----------------------------------------------------------------------------
(***************************************************************************)
(* The theorems.                                                           *)
(***************************************************************************)
LEMMA ContentStep ==
  ASSUME ContentInv, [Next]_vars
  PROVE  ContentInv'
<1>1. CASE UNCHANGED vars
  BY <1>1, StutterKeeps
<1>2. CASE Next
  <2>1. CASE Enter
    BY <2>1, EnterKeeps
  <2>2. CASE Reads
    <3>1. CASE ContentReadFails \/ ChunkReadFails
      <4>. step \notin Ended
        BY <3>1 DEF ContentReadFails, ChunkReadFails, Ended
      <4>. QED  BY <3>1, FailingKeeps
    <3>2. CASE HandleContentRead
      BY <3>2, ContentReadKeeps
    <3>3. CASE HandleContentChunkSizeRead
      BY <3>3, SizeLineKeeps
    <3>4. CASE HandleContentChunkRead
      BY <3>4, ChunkReadKeeps
    <3>. QED  BY <2>2, <3>1, <3>2, <3>3, <3>4 DEF Reads
  <2>3. CASE HandleContentReadDelayCallback
    BY <2>3, ReadDelayKeeps
  <2>4. CASE HandleContentChunkSizeReadDelay
    BY <2>4, ChunkDelayKeeps
  <2>5. CASE HandleAsyncTimeout
    <3>. step \notin Ended
      BY <2>5 DEF HandleAsyncTimeout, Ended
    <3>. QED  BY <2>5, FailingKeeps
  <2>. QED  BY <1>2, <2>1, <2>2, <2>3, <2>4, <2>5 DEF Next
<1>. QED  BY <1>1, <1>2

LEMMA ContentInvariant == Spec => []ContentInv
<1>1. Init => ContentInv
  BY InitContent
<1>2. ContentInv /\ [Next]_vars => ContentInv'
  BY ContentStep
<1>. QED  BY <1>1, <1>2, PTL DEF Spec

\* The callback is given the start of what the server sent, each piece where
\* the one before it ended, except for what fills up a chunk that the end of
\* the connection cut off (ResponseContentReceived).
THEOREM OnlyTheServersData == Spec => []OnlyServerData
<1>1. ContentInv => OnlyServerData
  BY DEF ContentInv, OnlyServerData, InTurn, FromServer
<1>. QED  BY <1>1, ContentInvariant, PTL

\* A request completes only with the whole body that the server announced
\* (HandleContentRead, HandleCompleteAllChunks).
THEOREM CompletedIsWhole == Spec => []CompleteIsWhole
<1>1. ContentInv => CompleteIsWhole
  BY DEF ContentInv
<1>. QED  BY <1>1, ContentInvariant, PTL

\* A whole body, followed by the end of the connection, never ends in an
\* error, wherever its bytes were split between reads.
THEOREM WholeBodyIsAccepted == Spec => []WholeIsAccepted
<1>1. ContentInv => WholeIsAccepted
  BY DEF ContentInv
<1>. QED  BY <1>1, ContentInvariant, PTL
=============================================================================
