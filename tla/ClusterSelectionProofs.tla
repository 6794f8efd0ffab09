------------------------- MODULE ClusterSelectionProofs -------------------------
(* Theorems about ClusterSelection for every set of kubeconfigs, contexts and *)
(* clusters, every argument and every listing of another request.             *)
EXTENDS ClusterSelection, TargetPatternsProofs, WellFoundedInduction

-----------------------------------------------------------------------------
(* The loop that chooses from a sequence.  What it computes follows by        *)
(* induction, which a least element makes a statement about a set.            *)

LessThan == {p \in Nat \X Nat : p[1] < p[2]}

LEMMA LessThanWellFounded == IsWellFoundedOn(LessThan, Nat)
BY NatLessThanWellFounded, Zenon DEF OpToRel, LessThan

LEMMA SetInduction ==
  ASSUME NEW N, 0 \in N, \A m \in Nat : m \in N => m + 1 \in N
  PROVE  Nat \subseteq N
<1> DEFINE T == Nat \ N
<1>1. ASSUME T # {} PROVE FALSE
  <2>1. PICK m \in T : \A i \in T : <<i, m>> \notin LessThan
    <3>1. T \subseteq Nat
      OBVIOUS
    <3> HIDE DEF T
    <3>. QED
      BY <1>1, <3>1, WFMin, LessThanWellFounded
  <2>2. m # 0 /\ m - 1 \in Nat
    BY <2>1
  <2>3. m - 1 \in T
    BY <2>1, <2>2
  <2>4. <<m - 1, m>> \in LessThan
    BY <2>1, <2>2 DEF LessThan
  <2>. QED
    BY <2>1, <2>3, <2>4
<1>. QED
  BY <1>1

(* The recursive definition has the function it asks for.                    *)
LEMMA ChoosingSteps ==
  ASSUME NEW S, NEW s \in Seq(S), NEW T
  PROVE  /\ Choosing(s, T)[0] = <<>>
         /\ \A m \in 1 .. Len(s) :
              Choosing(s, T)[m] =
                IF s[m] \in T THEN Append(Choosing(s, T)[m - 1], s[m])
                ELSE Choosing(s, T)[m - 1]
<1> DEFINE Good(f, m) ==
      f = [i \in 0 .. m |->
             IF i = 0 THEN <<>>
             ELSE IF s[i] \in T THEN Append(f[i - 1], s[i]) ELSE f[i - 1]]
           N == {m \in Nat : \E f : Good(f, m)}
<1>1. 0 \in N
  <2>1. Good([i \in 0 .. 0 |-> <<>>], 0)
    OBVIOUS
  <2>. QED
    BY <2>1
<1>2. ASSUME NEW m \in Nat, m \in N PROVE m + 1 \in N
  <2>1. PICK f : Good(f, m)
    BY <1>2
  <2> DEFINE g == [i \in 0 .. (m + 1) |->
                     IF i <= m THEN f[i]
                     ELSE IF s[i] \in T THEN Append(f[i - 1], s[i]) ELSE f[i - 1]]
  <2>2. \A i \in 0 .. (m + 1) :
          g[i] = IF i = 0 THEN <<>>
                 ELSE IF s[i] \in T THEN Append(g[i - 1], s[i]) ELSE g[i - 1]
    <3>1. \A i \in 0 .. m :
            f[i] = IF i = 0 THEN <<>>
                   ELSE IF s[i] \in T THEN Append(f[i - 1], s[i]) ELSE f[i - 1]
      BY <2>1
    <3>2. \A i \in 0 .. m : g[i] = f[i]
      OBVIOUS
    <3>3. g[m + 1] = IF s[m + 1] \in T THEN Append(f[m], s[m + 1]) ELSE f[m]
      OBVIOUS
    <3>4. m + 1 # 0 /\ (m + 1) - 1 = m
          /\ \A i \in 0 .. (m + 1) : i = m + 1 \/ (i \in 0 .. m /\ (i # 0 => i - 1 \in 0 .. m))
      OBVIOUS
    <3>5. m \in 0 .. m
      OBVIOUS
    <3> HIDE DEF g, Good
    <3>6. ASSUME NEW i \in 0 .. m
          PROVE  g[i] = IF i = 0 THEN <<>>
                        ELSE IF s[i] \in T THEN Append(g[i - 1], s[i]) ELSE g[i - 1]
      <4>1. i # 0 => i - 1 \in 0 .. m
        OBVIOUS
      <4>. QED
        BY <3>1, <3>2, <4>1
    <3>7. g[m + 1] = IF s[m + 1] \in T THEN Append(g[(m + 1) - 1], s[m + 1])
                     ELSE g[(m + 1) - 1]
      BY <3>2, <3>3, <3>4, <3>5
    <3>. QED
      BY <3>4, <3>6, <3>7
  <2>3. Good(g, m + 1)
    BY <2>2
  <2>4. m + 1 \in Nat
    OBVIOUS
  <2> HIDE DEF Good, g
  <2>. QED
    BY <2>3, <2>4
<1>3. Len(s) \in N
  <2> HIDE DEF N
  <2>. QED
    BY <1>1, <1>2, SetInduction
<1>4. Good(Choosing(s, T), Len(s))
  <2>1. \E f : Good(f, Len(s))
    BY <1>3
  <2>2. Choosing(s, T) = CHOOSE f : Good(f, Len(s))
    BY DEF Choosing
  <2> HIDE DEF Good
  <2>. QED
    BY <2>1, <2>2
<1> DEFINE C == Choosing(s, T)
<1>5. C = [i \in 0 .. Len(s) |->
             IF i = 0 THEN <<>>
             ELSE IF s[i] \in T THEN Append(C[i - 1], s[i]) ELSE C[i - 1]]
  BY <1>4
<1> HIDE DEF C, Good, N
<1>6. C[0] = <<>>
  BY <1>5
<1>7. ASSUME NEW m \in 1 .. Len(s)
      PROVE  C[m] = IF s[m] \in T THEN Append(C[m - 1], s[m]) ELSE C[m - 1]
  <2>1. m \in 0 .. Len(s) /\ m # 0
    OBVIOUS
  <2>. QED
    BY <1>5, <2>1, Zenon
<1>. QED
  BY <1>6, <1>7 DEF C

LEMMA AppendAdds ==
  ASSUME NEW S, NEW q \in Seq(S), NEW x \in S
  PROVE  /\ Append(q, x) \in Seq(S)
         /\ ToSet(Append(q, x)) = ToSet(q) \cup {x}
         /\ IsInjective(q) /\ x \notin ToSet(q) => IsInjective(Append(q, x))
<1>1. /\ Append(q, x) \in Seq(S)
      /\ DOMAIN Append(q, x) = DOMAIN q \cup {Len(q) + 1}
      /\ \A i \in DOMAIN q : Append(q, x)[i] = q[i] /\ i # Len(q) + 1
      /\ Append(q, x)[Len(q) + 1] = x
  OBVIOUS
<1>2. ToSet(Append(q, x)) = ToSet(q) \cup {x}
  BY <1>1 DEF ToSet
<1>. QED
  BY <1>1, <1>2 DEF IsInjective, ToSet

(* What is chosen is what is in both, and nothing is chosen twice unless it  *)
(* is there twice.                                                            *)
LEMMA ChosenMembers ==
  ASSUME NEW S, NEW s \in Seq(S), NEW T
  PROVE  /\ Chosen(s, T) \in Seq(S)
         /\ ToSet(Chosen(s, T)) = ToSet(s) \cap T
         /\ IsInjective(s) => IsInjective(Chosen(s, T))
<1> DEFINE C == Choosing(s, T)
           Upto(m) == {s[i] : i \in 1 .. m}
           P(m) == /\ C[m] \in Seq(S)
                   /\ ToSet(C[m]) = Upto(m) \cap T
                   /\ IsInjective(s) => IsInjective(C[m])
           N == {m \in Nat : m <= Len(s) => P(m)}
<1>1. P(0)
  <2>1. C[0] = <<>>
    BY ChoosingSteps
  <2>2. Upto(0) = {} /\ ToSet(<<>>) = {} /\ IsInjective(<<>>) /\ <<>> \in Seq(S)
    BY DEF ToSet, IsInjective
  <2> HIDE DEF C, Upto
  <2>. QED
    BY <2>1, <2>2
<1>2. ASSUME NEW m \in Nat, m < Len(s), P(m) PROVE P(m + 1)
  <2>1. C[m + 1] = IF s[m + 1] \in T THEN Append(C[m], s[m + 1]) ELSE C[m]
    BY <1>2, ChoosingSteps
  <2>2. Upto(m + 1) = Upto(m) \cup {s[m + 1]} /\ s[m + 1] \in S
    <3>1. 1 .. (m + 1) = (1 .. m) \cup {m + 1}
      OBVIOUS
    <3>. QED
      BY <1>2, <3>1
  <2>3. IsInjective(s) => s[m + 1] \notin Upto(m)
    BY <1>2 DEF IsInjective
  <2> DEFINE q == C[m]
             x == s[m + 1]
  <2>4. /\ q \in Seq(S) /\ x \in S
        /\ ToSet(q) = Upto(m) \cap T
        /\ IsInjective(s) => IsInjective(q)
    BY <1>2, <2>2
  <2> HIDE DEF C, Upto, q, x
  <2>5. CASE x \notin T
    BY <2>1, <2>2, <2>4, <2>5 DEF q, x
  <2>6. CASE x \in T
    <3>1. C[m + 1] = Append(q, x)
      BY <2>1, <2>6 DEF q, x
    <3>2. ToSet(Append(q, x)) = ToSet(q) \cup {x} /\ Append(q, x) \in Seq(S)
      BY <2>4, AppendAdds
    <3>3. IsInjective(s) => IsInjective(Append(q, x))
      <4>1. IsInjective(s) => IsInjective(q) /\ x \notin ToSet(q)
        BY <2>3, <2>4 DEF x
      <4>. QED
        BY <2>4, <4>1, AppendAdds
    <3>4. ToSet(C[m + 1]) = Upto(m + 1) \cap T
      BY <2>2, <2>4, <2>6, <3>1, <3>2 DEF x
    <3>. QED
      BY <3>1, <3>2, <3>3, <3>4
  <2>. QED
    BY <2>5, <2>6
<1>3. Len(s) \in N
  <2>1. 0 \in N
    BY <1>1
  <2>2. ASSUME NEW m \in Nat, m \in N PROVE m + 1 \in N
    <3>1. m + 1 <= Len(s) => m < Len(s) /\ m <= Len(s)
      OBVIOUS
    <3> HIDE DEF P
    <3>. QED
      BY <1>2, <2>2, <3>1
  <2> HIDE DEF N
  <2>. QED
    BY <2>1, <2>2, SetInduction
<1>4. P(Len(s)) /\ Upto(Len(s)) = ToSet(s)
  <2>1. Upto(Len(s)) = ToSet(s)
    BY DEF ToSet
  <2> HIDE DEF P
  <2>. QED
    BY <1>3, <2>1
<1>. QED
  BY <1>4 DEF Chosen

(* To choose from the images of a sequence is to choose from the sequence,   *)
(* if what is chosen of either is the same.                                   *)
LEMMA ChosenOfImage ==
  ASSUME NEW S, NEW s \in Seq(S), NEW f, NEW T, NEW U,
         \A i \in 1 .. Len(s) : f[s[i]] \in T <=> s[i] \in U
  PROVE  Chosen([i \in DOMAIN s |-> f[s[i]]], T) =
           [i \in DOMAIN Chosen(s, U) |-> f[Chosen(s, U)[i]]]
<1> DEFINE t == [i \in DOMAIN s |-> f[s[i]]]
           R == {f[x] : x \in S}
           C == Choosing(t, T)
           D == Choosing(s, U)
           P(m) == /\ D[m] \in Seq(S)
                   /\ C[m] = [i \in DOMAIN D[m] |-> f[D[m][i]]]
           N == {m \in Nat : m <= Len(s) => P(m)}
<1>0. t \in Seq(R) /\ Len(t) = Len(s)
  OBVIOUS
<1>1. P(0)
  <2>1. C[0] = <<>> /\ D[0] = <<>>
    BY <1>0, ChoosingSteps
  <2>. QED
    BY <2>1
<1>2. ASSUME NEW m \in Nat, m < Len(s), P(m) PROVE P(m + 1)
  <2> DEFINE q == D[m]
             x == s[m + 1]
  <2>1. x \in S /\ t[m + 1] = f[x] /\ (f[x] \in T <=> x \in U)
    BY <1>2
  <2>2. D[m + 1] = IF x \in U THEN Append(q, x) ELSE q
    BY <1>2, ChoosingSteps
  <2>3. C[m + 1] = IF f[x] \in T THEN Append(C[m], f[x]) ELSE C[m]
    <3>1. m + 1 \in 1 .. Len(t) /\ (m + 1) - 1 = m
      BY <1>0, <1>2
    <3> HIDE DEF t, C
    <3>. QED
      BY <1>0, <2>1, <3>1, ChoosingSteps DEF C
  <2>4. q \in Seq(S) /\ C[m] = [i \in DOMAIN q |-> f[q[i]]]
    BY <1>2
  <2> HIDE DEF C, D, q, x, t
  <2>5. Append([i \in DOMAIN q |-> f[q[i]]], f[x]) =
          [i \in DOMAIN Append(q, x) |-> f[Append(q, x)[i]]]
    BY <2>1, <2>4
  <2>6. Append(q, x) \in Seq(S)
    BY <2>1, <2>4
  <2>. QED
    BY <2>1, <2>2, <2>3, <2>4, <2>5, <2>6
<1>3. Len(s) \in N
  <2>1. 0 \in N
    BY <1>1
  <2>2. ASSUME NEW m \in Nat, m \in N PROVE m + 1 \in N
    <3>1. m + 1 <= Len(s) => m < Len(s) /\ m <= Len(s)
      OBVIOUS
    <3> HIDE DEF P
    <3>. QED
      BY <1>2, <2>2, <3>1
  <2>3. Len(s) \in Nat
    OBVIOUS
  <2> HIDE DEF N, P, C, D, t
  <2>4. Nat \subseteq N
    BY <2>1, <2>2, SetInduction
  <2>. QED
    BY <2>3, <2>4
<1>4. P(Len(s))
  <2> HIDE DEF P
  <2>. QED
    BY <1>3
<1>. QED
  BY <1>0, <1>4 DEF Chosen

-----------------------------------------------------------------------------
(* Sequences and what is in them.                                             *)

LEMMA InSeqOfOwn ==
  ASSUME NEW S, NEW s \in Seq(S)
  PROVE  s \in Seq(ToSet(s)) /\ ToSet(s) \subseteq S
BY DEF ToSet

LEMMA TailMembers ==
  ASSUME NEW S, NEW s \in Seq(S), s # <<>>
  PROVE  ToSet(s) = {Head(s)} \cup ToSet(Tail(s))
<1>1. /\ Len(s) \in Nat \ {0} /\ Tail(s) \in Seq(S) /\ Head(s) = s[1]
      /\ Len(Tail(s)) = Len(s) - 1
      /\ \A i \in 1 .. Len(Tail(s)) : Tail(s)[i] = s[i + 1]
  BY HeadTailProperties, EmptySeq
<1>2. DOMAIN s = 1 .. Len(s) /\ DOMAIN Tail(s) = 1 .. (Len(s) - 1)
  BY <1>1
<1>3. \A i \in DOMAIN s : i = 1 \/ (i - 1 \in DOMAIN Tail(s) /\ Tail(s)[i - 1] = s[i])
  BY <1>1, <1>2
<1>4. \A i \in DOMAIN Tail(s) : i + 1 \in DOMAIN s /\ Tail(s)[i] = s[i + 1]
  BY <1>1, <1>2
<1>5. 1 \in DOMAIN s
  BY <1>1, <1>2
<1>6. ASSUME NEW x \in ToSet(s) PROVE x \in {Head(s)} \cup ToSet(Tail(s))
  <2>1. PICK i \in DOMAIN s : x = s[i]
    BY DEF ToSet
  <2>2. i - 1 \in DOMAIN Tail(s) => Tail(s)[i - 1] \in ToSet(Tail(s))
    BY DEF ToSet
  <2>. QED
    BY <1>1, <1>3, <2>1, <2>2
<1>7. ToSet(Tail(s)) \subseteq ToSet(s) /\ Head(s) \in ToSet(s)
  BY <1>1, <1>4, <1>5 DEF ToSet
<1>. QED
  BY <1>6, <1>7

LEMMA TailInjective ==
  ASSUME NEW S, NEW s \in Seq(S), s # <<>>, IsInjective(s)
  PROVE  IsInjective(Tail(s)) /\ Head(s) \notin ToSet(Tail(s))
<1>1. /\ Len(s) \in Nat \ {0} /\ Tail(s) \in Seq(S) /\ Head(s) = s[1]
      /\ Len(Tail(s)) = Len(s) - 1
      /\ \A i \in 1 .. Len(Tail(s)) : Tail(s)[i] = s[i + 1]
  BY HeadTailProperties, EmptySeq
<1>. QED
  BY <1>1 DEF IsInjective, ToSet

LEMMA ConcatMembers ==
  ASSUME NEW S, NEW s \in Seq(S), NEW t \in Seq(S)
  PROVE  ToSet(s \o t) = ToSet(s) \cup ToSet(t)
<1>1. /\ s \o t \in Seq(S) /\ Len(s \o t) = Len(s) + Len(t)
      /\ Len(s) \in Nat /\ Len(t) \in Nat
      /\ \A i \in 1 .. Len(s) + Len(t) :
           (s \o t)[i] = IF i <= Len(s) THEN s[i] ELSE t[i - Len(s)]
  BY ConcatProperties
<1>2. \A i \in DOMAIN s : i \in DOMAIN (s \o t) /\ (s \o t)[i] = s[i]
  BY <1>1
<1>3. \A i \in DOMAIN t :
        Len(s) + i \in DOMAIN (s \o t) /\ (s \o t)[Len(s) + i] = t[i]
  BY <1>1
<1>4. \A i \in DOMAIN (s \o t) : \/ i \in DOMAIN s /\ (s \o t)[i] = s[i]
                                 \/ \E k \in DOMAIN t : (s \o t)[i] = t[k]
  <2> SUFFICES ASSUME NEW i \in DOMAIN (s \o t), i \notin DOMAIN s
               PROVE  i - Len(s) \in DOMAIN t /\ (s \o t)[i] = t[i - Len(s)]
    BY <1>1
  <2>. QED
    BY <1>1
<1>5. ToSet(s \o t) \subseteq ToSet(s) \cup ToSet(t)
  BY <1>4 DEF ToSet
<1>6. ToSet(s) \subseteq ToSet(s \o t) /\ ToSet(t) \subseteq ToSet(s \o t)
  BY <1>2, <1>3 DEF ToSet
<1>. QED
  BY <1>5, <1>6

LEMMA ConcatInjective ==
  ASSUME NEW S, NEW s \in Seq(S), NEW t \in Seq(S),
         IsInjective(s), IsInjective(t), ToSet(s) \cap ToSet(t) = {}
  PROVE  IsInjective(s \o t)
<1>1. /\ DOMAIN (s \o t) = 1 .. Len(s) + Len(t)
      /\ Len(s) \in Nat /\ Len(t) \in Nat
      /\ DOMAIN s = 1 .. Len(s) /\ DOMAIN t = 1 .. Len(t)
      /\ \A i \in 1 .. Len(s) + Len(t) :
           (s \o t)[i] = IF i <= Len(s) THEN s[i] ELSE t[i - Len(s)]
  BY ConcatProperties, LenProperties
<1>2. \A i \in DOMAIN s, k \in DOMAIN t : s[i] # t[k]
  BY DEF ToSet
<1> SUFFICES ASSUME NEW i \in 1 .. Len(s) + Len(t), NEW k \in 1 .. Len(s) + Len(t),
                    (s \o t)[i] = (s \o t)[k]
             PROVE  i = k
  BY <1>1 DEF IsInjective
<1>3. \A m \in 1 .. Len(s) + Len(t) : ~(m <= Len(s)) => m - Len(s) \in DOMAIN t
  BY <1>1
<1>4. CASE i <= Len(s) /\ k <= Len(s)
  BY <1>1, <1>4 DEF IsInjective
<1>5. CASE ~(i <= Len(s)) /\ ~(k <= Len(s))
  <2>1. t[i - Len(s)] = t[k - Len(s)]
    BY <1>1, <1>5
  <2>2. i - Len(s) = k - Len(s)
    BY <1>3, <1>5, <2>1 DEF IsInjective
  <2>. QED
    BY <1>1, <2>2
<1>6. CASE i <= Len(s) /\ ~(k <= Len(s))
  BY <1>1, <1>2, <1>3, <1>6
<1>7. CASE ~(i <= Len(s)) /\ k <= Len(s)
  BY <1>1, <1>2, <1>3, <1>7
<1>. QED
  BY <1>4, <1>5, <1>6, <1>7

LEMMA ConcatApart ==
  ASSUME NEW S, NEW a \in Seq(S), NEW b \in Seq(S), NEW c \in Seq(S), NEW d \in Seq(S),
         Len(a) = Len(c), a \o b = c \o d
  PROVE  a = c /\ b = d
<1>1. Len(a) \in Nat /\ Len(b) \in Nat /\ Len(c) \in Nat /\ Len(d) \in Nat
  OBVIOUS
<1>2. /\ Len(a \o b) = Len(a) + Len(b)
       /\ \A i \in 1 .. Len(a) + Len(b) :
            (a \o b)[i] = IF i <= Len(a) THEN a[i] ELSE b[i - Len(a)]
  BY ConcatProperties, Zenon
<1>3. /\ Len(c \o d) = Len(c) + Len(d)
       /\ \A i \in 1 .. Len(c) + Len(d) :
            (c \o d)[i] = IF i <= Len(c) THEN c[i] ELSE d[i - Len(c)]
  BY ConcatProperties, Zenon
<1>4. /\ Len(a \o b) = Len(a) + Len(b) /\ Len(c \o d) = Len(c) + Len(d)
      /\ \A i \in 1 .. Len(a) + Len(b) :
           (a \o b)[i] = IF i <= Len(a) THEN a[i] ELSE b[i - Len(a)]
      /\ \A i \in 1 .. Len(c) + Len(d) :
           (c \o d)[i] = IF i <= Len(c) THEN c[i] ELSE d[i - Len(c)]
      /\ Len(a) \in Nat /\ Len(b) \in Nat /\ Len(c) \in Nat /\ Len(d) \in Nat
  BY <1>1, <1>2, <1>3
<1>5. Len(b) = Len(d)
  BY <1>4
<1>6. a = c
  <2>1. ASSUME NEW i \in 1 .. Len(a) PROVE a[i] = c[i]
    <3>1. i \in 1 .. Len(a) + Len(b) /\ i <= Len(a)
      BY <1>4
    <3>. QED
      BY <1>4, <1>5, <3>1
  <2>. QED
    BY <2>1, SeqEqual
<1>7. b = d
  <2>1. ASSUME NEW i \in 1 .. Len(b) PROVE b[i] = d[i]
    <3>1. /\ Len(a) + i \in 1 .. Len(a) + Len(b) /\ ~(Len(a) + i <= Len(a))
          /\ (Len(a) + i) - Len(a) = i
      BY <1>4
    <3>. QED
      BY <1>4, <1>5, <3>1
  <2>. QED
    BY <1>5, <2>1, SeqEqual
<1>. QED
  BY <1>6, <1>7

-----------------------------------------------------------------------------
(* The handlers.                                                              *)

(* Before a call there is nothing; a call of a strict tool resolves strictly, *)
(* and lists nothing of its own; nor does an embedded tool given patterns,    *)
(* which knows clusters by targets it could parse.                            *)
Blank ==
  /\ pc = "check" /\ listings = 0 /\ known = <<>> /\ n = 1 /\ j = 1 /\ out = <<>>
  /\ call.tool = "list_clusters" /\ selected = <<>>

Usable(t) == ParsesAsTarget(t)

HandlerInv ==
  /\ stage = "waiting" => Blank
  /\ call.tool \in Strict =>
       /\ strict /\ stage # "walk"
       /\ ToSet(selected) \subseteq ToSet(patterns)
  /\ pc \in {"list", "resolve", "done"} => AllAcceptable
  /\ call.tool \in Embedded /\ ~call.omitted =>
       /\ stage # "walk"
       /\ \A i \in DOMAIN known : Usable(FormatTarget(known[i]))
       /\ \A t \in ToSet(selected) : Usable(t)

LEMMA ReparsedIsUsable == \A t : Usable(FormatTarget(Reparsed(t)))
BY DEF Usable, ParsesAsTarget, FormatTarget, Reparsed

LEMMA ParsedBackIsUsable ==
  ASSUME NEW clusters, NEW i \in DOMAIN ParsedBack(clusters)
  PROVE  Usable(FormatTarget(ParsedBack(clusters)[i]))
BY ReparsedIsUsable DEF ParsedBack

LEMMA InitHandlerInv == SelectionInit => HandlerInv
BY DEF SelectionInit, Init, HandlerInv, Blank, Strict, Embedded, ToSet

(* The handlers either begin a call or take a step of ResolveClusterPatterns *)
(* or none.                                                                   *)
LEMMA HandlerSteps == [SelectionNext]_selectionVars => Begin \/ [Next]_vars
BY DEF SelectionNext, selectionVars, StartWalk, ResolveContexts, NextSource,
       EndWalk, Get, List, Set, AfterWalk, Resolve, Known, Resolved, ComeOrGo,
       OtherLists, OtherSets, Tick, Next

LEMMA BeginIsInit == HandlerInv /\ Begin => Init'
BY DEF HandlerInv, Blank, Begin, Init

LEMMA NextHandlerInv ==
  IInv /\ ListInv /\ HandlerInv /\ [SelectionNext]_selectionVars => HandlerInv'
<1> SUFFICES ASSUME IInv, ListInv, HandlerInv, [SelectionNext]_selectionVars
             PROVE  HandlerInv'
  OBVIOUS
<1>1. CASE Begin
  <2>1. Blank
    BY <1>1 DEF Begin, HandlerInv
  <2>2. PICK t \in Tool, ps \in Requests, omitted \in BOOLEAN :
          /\ call' = [tool |-> t, omitted |-> omitted, begun |-> now]
          /\ strict' = (t \in Strict)
          /\ stage' = IF omitted THEN WhenOmitted(t) ELSE WhenGiven(t, ps)
    BY <1>1 DEF Begin
  <2>3. UNCHANGED <<pc, known, selected>>
    BY <1>1 DEF Begin
  <2>4. /\ stage' # "waiting"
        /\ t \in Strict => stage' # "walk"
        /\ t \in Embedded /\ ~omitted => stage' # "walk"
    BY <2>2 DEF WhenOmitted, WhenGiven, NeedsArgument, Strict, Embedded, Tool,
                Lenient
  <2>5. pc' = "check" /\ known' = <<>> /\ selected' = <<>>
    BY <2>1, <2>3 DEF Blank
  <2>6. call'.tool = t /\ call'.omitted = omitted
    BY <2>2
  <2>7. ToSet(selected') = {} /\ DOMAIN known' = {}
    BY <2>5 DEF ToSet
  <2>. QED
    BY <2>2, <2>4, <2>5, <2>6, <2>7 DEF HandlerInv, ToSet
<1>2. CASE AfterWalk
  <2>1. call.tool \notin Strict /\ (call.tool \in Embedded => call.omitted)
    BY <1>2 DEF AfterWalk, HandlerInv
  <2>. QED
    BY <1>2, <2>1
    DEF AfterWalk, HandlerInv, vars, AllAcceptable, Acceptable, Answer
<1>3. CASE Resolve
  <2>1. UNCHANGED <<call, stage, selected, known, strict, patterns>>
        /\ stage = "resolve"
    BY <1>3 DEF Resolve, handler, Reject, Accept, ResolveVerbatim, ResolveKnown,
                NextPattern, Return
  <2>2. pc' \in {"list", "resolve", "done"} =>
          pc \in {"list", "resolve", "done"} \/ AllAcceptable
    BY <1>3 DEF Resolve, Reject, Accept, ResolveVerbatim, ResolveKnown,
                NextPattern, Return, AtPattern
  <2>. QED
    BY <2>1, <2>2 DEF HandlerInv, AllAcceptable, Acceptable
<1>4. CASE Known
  <2>1. /\ UNCHANGED <<call, stage, selected, strict, patterns>>
        /\ stage = "resolve" /\ pc = "list"
        /\ \/ UNCHANGED known
           \/ known' = KnownTo(call.tool)
    BY <1>4 DEF Known, handler, ListKnown
  <2>2. call.tool \in Embedded => KnownTo(call.tool) = ParsedBack(gathered)
    BY DEF KnownTo
  <2>3. call.tool \in Embedded /\ ~call.omitted =>
          \A i \in DOMAIN known' : Usable(FormatTarget(known'[i]))
    BY <2>1, <2>2, ParsedBackIsUsable DEF HandlerInv
  <2>. QED
    BY <2>1, <2>3 DEF HandlerInv, AllAcceptable, Acceptable
<1>5. CASE Resolved
  <2>1. /\ UNCHANGED <<call, pc, known, strict, patterns>>
        /\ stage = "resolve" /\ stage' \in {"refused", "answered"}
        /\ \/ UNCHANGED selected
           \/ pc = "done" /\ (call.tool # "list_clusters" => selected' = out)
    BY <1>5 DEF Resolved, vars, Answer
  <2>2. call.tool \in Strict => ToSet(out) \subseteq ToSet(patterns)
    BY NotWidened DEF NeverWidens, HandlerInv
  <2>3. ASSUME pc = "done", call.tool \in Embedded, ~call.omitted,
               NEW t \in ToSet(out)
        PROVE  Usable(t)
    <3>1. PICK i \in DOMAIN patterns : t \in Denoted(patterns[i])
      BY <2>3, Exact DEF ResolvesExactly
    <3>2. Acceptable(patterns[i])
      BY <2>3 DEF HandlerInv, AllAcceptable
    <3>3. CASE Verbatim(patterns[i])
      BY <3>1, <3>2, <3>3
      DEF Denoted, Verbatim, Acceptable, IsExact, Usable, ParsesAsTarget
    <3>4. CASE ~Verbatim(patterns[i])
      <4>1. PICK c \in ToSet(known) : t = FormatTarget(c)
        BY <3>1, <3>4 DEF Denoted
      <4>. QED
        BY <2>3, <4>1 DEF HandlerInv, ToSet
    <3>. QED
      BY <3>3, <3>4
  <2>4. call.tool \in Strict \cup Embedded => call.tool # "list_clusters"
    BY DEF Strict, Embedded
  <2>. QED
    BY <2>1, <2>2, <2>3, <2>4 DEF HandlerInv, AllAcceptable, Acceptable
<1>6. CASE UNCHANGED <<vars, handler>>
  BY <1>6 DEF vars, handler, HandlerInv, Blank, AllAcceptable, Acceptable
<1>. QED
  BY <1>1, <1>2, <1>3, <1>4, <1>5, <1>6
  DEF SelectionNext, selectionVars, handler, StartWalk, ResolveContexts,
      NextSource, EndWalk, Get, List, Set, ComeOrGo, OtherLists, OtherSets, Tick

LEMMA SelectionInvs == SelectionSpec => [](IInv /\ ListInv /\ OrderInv /\ HandlerInv)
<1>1. SelectionInit => IInv /\ ListInv /\ OrderInv /\ HandlerInv
  BY InitIInv, InitListInv, InitOrderInv, InitHandlerInv DEF SelectionInit
<1>2. Init' => IInv' /\ ListInv' /\ OrderInv'
  BY InitIInv, InitListInv, InitOrderInv, PTL
<1>3. IInv /\ ListInv /\ OrderInv /\ HandlerInv /\ [SelectionNext]_selectionVars =>
        IInv' /\ ListInv' /\ OrderInv' /\ HandlerInv'
  BY <1>2, HandlerSteps, BeginIsInit, NextIInv, NextListInv, NextOrderInv,
     NextHandlerInv
<1>. QED
  BY <1>1, <1>3, PTL DEF SelectionSpec

(* Whatever the handlers know and whenever they come to know it, patterns    *)
(* resolve as ResolveClusterPatterns promises (resolve_patterns.go).          *)
THEOREM HandlersResolveExactly == SelectionSpec => [](ResolvesExactly /\ NeverWidens)
BY SelectionInvs, Exact, NotWidened, PTL

(* Nor does it change the order, in which patterns and then clusters first    *)
(* name a target ("first-seen order", resolve_patterns.go).                   *)
THEOREM HandlersKeepOrder == SelectionSpec => []FirstSeenOrder
BY SelectionInvs, Ordered, PTL

(* No tool that may change something selects what its caller did not write   *)
(* out, whatever clusters there are (fanout.go: "no implicit all, no         *)
(* wildcard expansion").                                                      *)
THEOREM NothingUnnamedIsChanged == SelectionSpec => []ChangesOnlyWhatIsNamed
<1>1. HandlerInv => ChangesOnlyWhatIsNamed
  BY DEF HandlerInv, ChangesOnlyWhatIsNamed
<1>. QED
  BY <1>1, SelectionInvs, PTL

(* An embedded tool given patterns selects nothing that ResolveTarget could  *)
(* not parse, whatever its contexts are called (fanout.go:                    *)
(* listKnownClusters).                                                        *)
THEOREM EmbeddedTargetsParse == SelectionSpec => []EmbeddedSelectsUsable
<1>1. HandlerInv => EmbeddedSelectsUsable
  BY DEF HandlerInv, EmbeddedSelectsUsable, Usable
<1>. QED
  BY <1>1, SelectionInvs, PTL

-----------------------------------------------------------------------------
(* The types.                                                                 *)

(* What the walk has in hand.                                                 *)
Walking == step \in {"get", "list", "set"}

WorldTypes ==
  /\ now \in 0 .. MaxTime
  /\ alive \subseteq ToSet(Universe)
  /\ changed \in [ToSet(Universe) -> 0 .. now]
  /\ fills \in 0 .. MaxFills
  /\ \A key \in DOMAIN lists :
       /\ lists[key].value \in Seq(ToSet(Universe))
       /\ lists[key].expires \in 0 .. (now + TTL)
  /\ other # Nobody =>
       /\ other.place \in Places /\ other.since \in 0 .. now
       /\ other.listed \in Seq(ToSet(Universe))

HandlerTypes ==
  /\ call \in [tool : Tool, omitted : BOOLEAN, begun : 0 .. now]
  /\ stage \in {"waiting", "walk", "resolve", "answered", "refused", "failed"}
  /\ selected \in Seq(Text)

WalkTypes ==
  /\ step \in {"off", "contexts", "get", "list", "set", "done", "failed"}
  /\ \E i \in 0 .. Len(Sources) : srcs = SubSeq(Sources, i + 1, Len(Sources))
  /\ fresh \in Seq(ToSet(Universe)) /\ gathered \in Seq(ToSet(Universe))
  /\ Walking => srcs # <<>> /\ ctxs \in Seq(ToSet(Contexts(Head(srcs))))
  /\ step \in {"list", "set"} => ctxs # <<>>

SelectionTypes == WorldTypes /\ HandlerTypes /\ WalkTypes

LEMMA ContextTypes ==
  ASSUME NEW src \in ToSet(Sources)
  PROVE  /\ src.name \in Text
         /\ Contexts(src) \in Seq(Seq(Segment))
         /\ Contexts(src) \in Seq(ToSet(Contexts(src)))
<1>1. /\ src.name \in Text
      /\ src.contexts \in Seq(Seq(Segment)) /\ src.file \in Seq(Text)
  <2> DEFINE S == [name : Text, contexts : Seq(Seq(Segment)), file : Seq(Text)]
  <2>1. Sources \in Seq(S)
    BY SelectionAssumption
  <2>2. src \in S
    <3> HIDE DEF S
    <3>. QED
      BY <2>1, InSeqOfOwn
  <2>. QED
    BY <2>2
<1>2. Named(src) \in Seq(Seq(Segment))
  BY <1>1, ChosenMembers DEF Named
<1>3. src.file \in Seq(Seq(Segment))
  BY <1>1, SeqMonotonic DEF Text
<1>4. Contexts(src) \in Seq(Seq(Segment))
  BY <1>2, <1>3 DEF Contexts
<1>. QED
  BY <1>1, <1>4, InSeqOfOwn

LEMMA SnapshotMembers ==
  ASSUME NEW place
  PROVE  /\ Snapshot(place) \in Seq(ToSet(Universe))
         /\ ToSet(Snapshot(place)) = alive \cap At(place)
         /\ IsInjective(Snapshot(place))
<1>1. /\ Universe \in Seq(ToSet(Universe)) /\ IsInjective(Universe)
      /\ At(place) \subseteq ToSet(Universe)
  BY SelectionAssumption, InSeqOfOwn DEF At
<1>. QED
  BY <1>1, ChosenMembers DEF Snapshot

LEMMA TargetsAreText ==
  ASSUME NEW clusters \in Seq(ToSet(Universe))
  PROVE  Targets(clusters) \in Seq(Text)
<1>1. ToSet(Universe) \subseteq Cluster
  BY SelectionAssumption, InSeqOfOwn
<1>2. \A i \in 1 .. Len(clusters) : FormatTarget(clusters[i]) \in Text
  BY <1>1, FormatIsText
<1>. QED
  BY <1>2 DEF Targets

(* What is left of the sources, and what is left once the first is done.     *)
LEMMA RestOfSources ==
  ASSUME NEW i \in 0 .. Len(Sources), srcs = SubSeq(Sources, i + 1, Len(Sources))
  PROVE  /\ srcs \in Seq(ToSet(Sources))
         /\ srcs # <<>> => /\ Head(srcs) \in ToSet(Sources)
                           /\ i + 1 \in 0 .. Len(Sources)
                           /\ Tail(srcs) = SubSeq(Sources, (i + 1) + 1, Len(Sources))
<1>1. Sources \in Seq(ToSet(Sources)) /\ Len(Sources) \in Nat
  BY SelectionAssumption, InSeqOfOwn
<1>2. \A k \in (i + 1) .. Len(Sources) : Sources[k] \in ToSet(Sources)
  BY <1>1
<1>3. srcs \in Seq(ToSet(Sources))
  BY <1>1, <1>2, SubSeqProperties
<1>4. ASSUME srcs # <<>>
      PROVE  /\ i + 1 \in 0 .. Len(Sources)
             /\ Tail(srcs) = SubSeq(Sources, (i + 1) + 1, Len(Sources))
  <2>1. i + 1 \in 1 .. Len(Sources)
    <3>1. CASE i = Len(Sources)
      BY <1>1, <1>4, <3>1, SubSeqEmpty
    <3>. QED
      BY <1>1, <3>1
  <2>. QED
    BY <1>1, <2>1, HeadTailOfSubSeq
<1>. QED
  BY <1>3, <1>4, HeadTailProperties

LEMMA InitTypes == SelectionInit => SelectionTypes
<1> SUFFICES ASSUME SelectionInit PROVE SelectionTypes
  OBVIOUS
<1>1. Len(Sources) \in Nat
  BY SelectionAssumption
<1>2. SubSeq(Sources, Len(Sources) + 1, Len(Sources)) = <<>>
  BY <1>1, SubSeqEmpty
<1>3. WalkTypes
  <2>1. \E i \in 0 .. Len(Sources) : srcs = SubSeq(Sources, i + 1, Len(Sources))
    BY <1>1, <1>2 DEF SelectionInit
  <2>. QED
    BY <2>1 DEF SelectionInit, WalkTypes, Walking
<1>4. HandlerTypes
  BY DEF SelectionInit, HandlerTypes, Tool, Lenient
<1>5. WorldTypes
  <2>1. DOMAIN lists = {}
    BY DEF SelectionInit, NoEntries
  <2>. QED
    BY <2>1, SelectionAssumption DEF SelectionInit, WorldTypes
<1>. QED
  BY <1>3, <1>4, <1>5 DEF SelectionTypes

LEMMA NextWorldTypes ==
  WorldTypes /\ WalkTypes /\ [SelectionNext]_selectionVars => WorldTypes'
<1> SUFFICES ASSUME WorldTypes, WalkTypes, [SelectionNext]_selectionVars
             PROVE  WorldTypes'
  OBVIOUS
<1> USE SelectionAssumption, TTLAssumption
<1>1. ASSUME NEW key, lists' = AfterGet(lists, key, now), UNCHANGED now
      PROVE  \A k \in DOMAIN lists' :
               /\ lists'[k].value \in Seq(ToSet(Universe))
               /\ lists'[k].expires \in 0 .. (now' + TTL)
  BY <1>1 DEF AfterGet, WorldTypes
<1>2. ASSUME NEW key, NEW value \in Seq(ToSet(Universe)),
             lists' = AfterSet(lists, key, value, now), UNCHANGED now
      PROVE  \A k \in DOMAIN lists' :
               /\ lists'[k].value \in Seq(ToSet(Universe))
               /\ lists'[k].expires \in 0 .. (now' + TTL)
  <2>1. now + TTL \in 0 .. (now + TTL)
    BY DEF WorldTypes
  <2> SUFFICES ASSUME NEW k \in DOMAIN lists'
               PROVE  /\ lists'[k].value \in Seq(ToSet(Universe))
                      /\ lists'[k].expires \in 0 .. (now + TTL)
    BY <1>2
  <2>2. CASE k = key
    <3>1. lists'[k] = [value |-> value, expires |-> now + TTL]
      BY <1>2, <2>2 DEF AfterSet
    <3>. QED
      BY <2>1, <3>1
  <2>3. CASE k # key
    <3>1. k \in DOMAIN lists /\ lists'[k] = lists[k]
      BY <1>2, <2>3 DEF AfterSet
    <3>. QED
      BY <3>1 DEF WorldTypes
  <2>. QED
    BY <2>2, <2>3
<1>3. CASE Get
  BY <1>1, <1>3 DEF Get, WorldTypes, world
<1>4. CASE Set
  <2>1. fresh \in Seq(ToSet(Universe))
    BY DEF WalkTypes
  <2>. QED
    BY <1>2, <1>4, <2>1 DEF Set, WorldTypes, world
<1>5. ASSUME NEW c \in Fickle, ComeOrGo(c) PROVE WorldTypes'
  <2>1. now \in 0 .. now /\ c \in ToSet(Universe)
    BY DEF WorldTypes
  <2>. QED
    BY <1>5, <2>1 DEF ComeOrGo, WorldTypes
<1>6. ASSUME NEW place \in Places, OtherLists(place) PROVE WorldTypes'
  <2>1. /\ other'.place = place /\ other'.since = now
        /\ other'.listed = Snapshot(place)
    BY <1>6 DEF OtherLists
  <2>2. now \in 0 .. now /\ fills + 1 \in 0 .. MaxFills
    BY <1>6 DEF OtherLists, WorldTypes
  <2>. QED
    BY <1>1, <1>6, <2>1, <2>2, SnapshotMembers DEF OtherLists, WorldTypes
<1>7. CASE OtherSets
  <2>1. other.listed \in Seq(ToSet(Universe))
    BY <1>7 DEF OtherSets, WorldTypes
  <2>. QED
    BY <1>2, <1>7, <2>1 DEF OtherSets, WorldTypes, world
<1>8. CASE Tick
  <2>1. /\ now' \in 0 .. MaxTime /\ 0 .. now \subseteq 0 .. now'
        /\ 0 .. (now + TTL) \subseteq 0 .. (now' + TTL)
    BY <1>8 DEF Tick, WorldTypes
  <2>. QED
    BY <1>8, <2>1 DEF Tick, WorldTypes
<1>9. ASSUME UNCHANGED <<world, lists, other>> PROVE WorldTypes'
  BY <1>9 DEF WorldTypes, world
<1>. QED
  BY <1>3, <1>4, <1>5, <1>6, <1>7, <1>8, <1>9
  DEF SelectionNext, selectionVars, Begin, StartWalk, ResolveContexts,
      NextSource, EndWalk, List, AfterWalk, Resolve, Known, Resolved

LEMMA NextWalkTypes ==
  WorldTypes /\ WalkTypes /\ [SelectionNext]_selectionVars => WalkTypes'
<1> SUFFICES ASSUME WorldTypes, WalkTypes, [SelectionNext]_selectionVars
             PROVE  WalkTypes'
  OBVIOUS
<1>0. PICK i \in 0 .. Len(Sources) : srcs = SubSeq(Sources, i + 1, Len(Sources))
  BY DEF WalkTypes
<1>1. CASE StartWalk
  <2>1. 0 \in 0 .. Len(Sources) /\ Sources = SubSeq(Sources, 0 + 1, Len(Sources))
    BY SelectionAssumption, SubSeqFull
  <2>2. \E k \in 0 .. Len(Sources) : srcs' = SubSeq(Sources, k + 1, Len(Sources))
    BY <1>1, <2>1 DEF StartWalk
  <2>. QED
    BY <1>1, <2>2 DEF StartWalk, WalkTypes, Walking
<1>2. CASE ResolveContexts
  <2>1. Contexts(Head(srcs)) \in Seq(ToSet(Contexts(Head(srcs))))
    BY <1>0, <1>2, RestOfSources, ContextTypes DEF ResolveContexts
  <2>. QED
    BY <1>2, <2>1 DEF ResolveContexts, WalkTypes, Walking
<1>3. CASE NextSource
  <2>1. /\ i + 1 \in 0 .. Len(Sources)
        /\ srcs' = SubSeq(Sources, (i + 1) + 1, Len(Sources))
    BY <1>0, <1>3, RestOfSources DEF NextSource, WalkTypes, Walking
  <2>. QED
    BY <1>3, <2>1 DEF NextSource, WalkTypes, Walking
<1>4. CASE EndWalk
  BY <1>4 DEF EndWalk, WalkTypes, Walking
<1>5. ASSUME ctxs # <<>>, Walking PROVE Tail(ctxs) \in Seq(ToSet(Contexts(Head(srcs))))
  BY <1>5, HeadTailProperties DEF WalkTypes
<1>6. CASE Get
  <2>1. CASE Hit(lists, ClusterListKey(Here), now)
    <3>1. lists[ClusterListKey(Here)].value \in Seq(ToSet(Universe))
      BY <2>1 DEF Hit, WorldTypes
    <3>2. gathered' \in Seq(ToSet(Universe))
      <4>1. gathered \in Seq(ToSet(Universe))
        BY DEF WalkTypes
      <4>2. gathered' = gathered \o lists[ClusterListKey(Here)].value
        BY <1>6, <2>1 DEF Get
      <4>. QED
        BY <3>1, <4>1, <4>2, ConcatProperties
    <3>. QED
      BY <1>5, <1>6, <2>1, <3>2 DEF Get, WalkTypes, Walking
  <2>2. CASE ~Hit(lists, ClusterListKey(Here), now)
    BY <1>6, <2>2 DEF Get, WalkTypes, Walking
  <2>. QED
    BY <2>1, <2>2
<1>7. CASE List
  BY <1>7, SnapshotMembers DEF List, FailWalk, WalkTypes, Walking
<1>8. CASE Set
  <2>1. gathered' \in Seq(ToSet(Universe)) /\ fresh' \in Seq(ToSet(Universe))
    BY <1>8 DEF Set, WalkTypes
  <2>. QED
    BY <1>5, <1>8, <2>1 DEF Set, WalkTypes, Walking
<1>9. ASSUME UNCHANGED walk PROVE WalkTypes'
  BY <1>9 DEF WalkTypes, Walking, walk
<1>. QED
  BY <1>1, <1>2, <1>3, <1>4, <1>6, <1>7, <1>8, <1>9
  DEF SelectionNext, selectionVars, Begin, AfterWalk, Resolve, Known, Resolved,
      ComeOrGo, OtherLists, OtherSets, Tick

LEMMA NextHandlerTypes ==
  IInv /\ SelectionTypes /\ [SelectionNext]_selectionVars => HandlerTypes'
<1> SUFFICES ASSUME IInv, SelectionTypes, [SelectionNext]_selectionVars
             PROVE  HandlerTypes'
  OBVIOUS
<1>0. HandlerTypes /\ now \in Nat
  BY SelectionAssumption DEF SelectionTypes, WorldTypes
<1>1. CASE Begin
  <2>1. now \in 0 .. now
    BY <1>0
  <2>. QED
    BY <1>0, <1>1, <2>1
    DEF Begin, HandlerTypes, world, WhenOmitted, WhenGiven
<1>2. Targets(gathered) \in Seq(Text)
  BY TargetsAreText DEF SelectionTypes, WalkTypes
<1>3. CASE AfterWalk
  BY <1>0, <1>2, <1>3 DEF AfterWalk, Answer, HandlerTypes, world
<1>4. CASE Resolved
  <2>1. Kept \in Seq(Text) /\ out \in Seq(Text)
    BY <1>2, ChosenMembers DEF Kept, IInv, TypeOK
  <2>. QED
    BY <1>0, <1>4, <2>1 DEF Resolved, Answer, HandlerTypes, world
<1>5. ASSUME UNCHANGED handler, now' = now \/ now' = now + 1 PROVE HandlerTypes'
  <2>1. 0 .. now \subseteq 0 .. now'
    BY <1>0, <1>5
  <2>. QED
    BY <1>0, <1>5, <2>1 DEF HandlerTypes, handler
<1>. QED
  BY <1>1, <1>3, <1>4, <1>5
  DEF SelectionNext, selectionVars, world, handler, StartWalk, ResolveContexts,
      NextSource, EndWalk, Get, List, Set, Resolve, Known, ComeOrGo, OtherLists,
      OtherSets, Tick

LEMMA NextTypes ==
  IInv /\ SelectionTypes /\ [SelectionNext]_selectionVars => SelectionTypes'
BY NextWorldTypes, NextWalkTypes, NextHandlerTypes DEF SelectionTypes

-----------------------------------------------------------------------------
(* What is listed.                                                            *)

PlacesOf(src) ==
  {[kubeconfig |-> src.name, context |-> x] : x \in ToSet(Contexts(src))}
PlaceOf(c) == [kubeconfig |-> c.kubeconfig, context |-> c.context]

(* What the walk has yet to ask for.                                          *)
OfRest(rest) == UNION {PlacesOf(src) : src \in ToSet(rest)}
OfContexts(src, xs) == {[kubeconfig |-> src.name, context |-> x] : x \in ToSet(xs)}
Ahead ==
  CASE step = "off" -> Places
    [] step = "contexts" -> OfRest(srcs)
    [] Walking -> OfContexts(Head(srcs), ctxs) \cup OfRest(Tail(srcs))
    [] OTHER -> {}

(* A listing of a place is right but for what has come or gone since, and is  *)
(* of use until t.                                                            *)
Since(c, t) == changed[c] + TTL + MaxFlight >= t
AsOf(listed, place, t) ==
  /\ ToSet(listed) \subseteq At(place)
  /\ IsInjective(listed)
  /\ \A c \in At(place) : (c \in ToSet(listed)) # (c \in alive) => Since(c, t)

StageInv ==
  /\ stage = "waiting" => step = "off"
  /\ step = "off" => gathered = <<>>
  /\ stage # "waiting" => now <= call.begun + MaxFlight
  /\ other # Nobody => now <= other.since + MaxFlight

EntriesInv ==
  \A place \in Places : ClusterListKey(place) \in DOMAIN lists =>
    AsOf(lists[ClusterListKey(place)].value, place,
         lists[ClusterListKey(place)].expires)

CacheInv ==
  /\ EntriesInv
  /\ other # Nobody => AsOf(other.listed, other.place, other.since + TTL + MaxFlight)
  /\ step = "set" => AsOf(fresh, Here, call.begun + TTL + MaxFlight)

AheadInv ==
  /\ \A i, k \in DOMAIN srcs : srcs[i].name = srcs[k].name => i = k
  /\ Walking => IsInjective(ctxs)

GatherInv ==
  step # "failed" =>
    /\ IsInjective(gathered)
    /\ \A c \in ToSet(gathered) : PlaceOf(c) \in Places \ Ahead
    /\ \A c \in ToSet(Universe) :
         PlaceOf(c) \in Places \ Ahead /\ (c \in ToSet(gathered)) # (c \in alive) =>
           Since(c, call.begun)

RecentInv == StageInv /\ CacheInv /\ AheadInv /\ GatherInv

LEMMA AtPlace ==
  ASSUME NEW place \in Places, NEW c
  PROVE  c \in At(place) <=> c \in ToSet(Universe) /\ PlaceOf(c) = place
BY DEF Places, At, PlaceOf

LEMMA AsOfEarlier ==
  ASSUME WorldTypes, NEW listed, NEW place, NEW t \in Int, NEW u \in Int, u <= t,
         AsOf(listed, place, t)
  PROVE  AsOf(listed, place, u)
<1>1. \A c \in At(place) : changed[c] \in Int
  BY DEF WorldTypes, At
<1>. QED
  BY <1>1, SelectionAssumption, TTLAssumption DEF AsOf, Since

LEMMA SnapshotIsAsOf ==
  ASSUME NEW place, NEW t
  PROVE  AsOf(Snapshot(place), place, t)
BY SnapshotMembers DEF AsOf

(* What comes or goes now cannot make a listing of use now wrong.            *)
LEMMA ChangesAreSince ==
  ASSUME WorldTypes, NEW c \in Fickle, ComeOrGo(c), NEW t \in Int,
         t <= now + TTL + MaxFlight
  PROVE  /\ \A d \in ToSet(Universe) : Since(d, t) => Since(d, t)'
         /\ \A d \in ToSet(Universe) :
              (d \in alive) # (d \in alive') => Since(d, t)'
<1> USE SelectionAssumption, TTLAssumption
<1>1. c \in ToSet(Universe) /\ changed'[c] = now /\ Since(c, t)'
  BY DEF ComeOrGo, WorldTypes, Since
<1>2. \A d \in ToSet(Universe) : d # c => changed'[d] = changed[d]
  BY DEF ComeOrGo, WorldTypes
<1>3. \A d : d # c => (d \in alive <=> d \in alive')
  BY DEF ComeOrGo
<1>. QED
  BY <1>1, <1>2, <1>3 DEF Since

LEMMA ChangesKeepAsOf ==
  ASSUME WorldTypes, NEW c \in Fickle, ComeOrGo(c), NEW t \in Int,
         t <= now + TTL + MaxFlight, NEW listed, NEW place, AsOf(listed, place, t)
  PROVE  AsOf(listed, place, t)'
<1>1. At(place) \subseteq ToSet(Universe) /\ At(place)' = At(place)
  BY DEF At
<1>2. ASSUME NEW d \in At(place), (d \in ToSet(listed)) # (d \in alive')
      PROVE  Since(d, t)'
  <2>1. CASE (d \in alive) # (d \in alive')
    BY <1>1, <2>1, ChangesAreSince
  <2>2. CASE ~((d \in alive) # (d \in alive'))
    BY <1>1, <1>2, <2>2, ChangesAreSince DEF AsOf
  <2>. QED
    BY <2>1, <2>2
<1>. QED
  BY <1>1, <1>2 DEF AsOf

LEMMA InitRecentInv == SelectionInit => RecentInv
<1> SUFFICES ASSUME SelectionInit PROVE RecentInv
  OBVIOUS
<1>1. DOMAIN lists = {} /\ step = "off" /\ stage = "waiting" /\ other = Nobody
      /\ gathered = <<>> /\ srcs = <<>>
  BY DEF SelectionInit, NoEntries
<1>2. Ahead = Places /\ ~Walking
  BY <1>1 DEF Ahead, Walking
<1>3. StageInv /\ CacheInv /\ AheadInv
  BY <1>1, <1>2 DEF StageInv, CacheInv, EntriesInv, AheadInv
<1>4. GatherInv
  BY <1>1, <1>2 DEF GatherInv, IsInjective, ToSet
<1>. QED
  BY <1>3, <1>4 DEF RecentInv

LEMMA NextStageInv ==
  SelectionTypes /\ StageInv /\ [SelectionNext]_selectionVars => StageInv'
<1> SUFFICES ASSUME SelectionTypes, StageInv, [SelectionNext]_selectionVars
             PROVE  StageInv'
  OBVIOUS
<1> USE SelectionAssumption DEF StageInv
<1>1. CASE Begin
  <2>1. now \in Nat /\ call'.begun = now
    BY <1>1 DEF Begin, SelectionTypes, WorldTypes
  <2>2. stage' # "waiting"
    BY <1>1 DEF Begin, WhenOmitted, WhenGiven
  <2>. QED
    BY <1>1, <2>1, <2>2 DEF Begin, world, walk
<1>2. CASE StartWalk \/ ResolveContexts \/ NextSource \/ EndWalk
  BY <1>2 DEF StartWalk, ResolveContexts, NextSource, EndWalk, Listing, world,
              handler
<1>3. CASE Get \/ List \/ Set
  BY <1>3 DEF Get, List, FailWalk, Set, world, handler
<1>4. CASE AfterWalk \/ Resolve \/ Known \/ Resolved
  BY <1>4 DEF AfterWalk, Resolve, Known, Resolved, Answer, world, walk, handler
<1>5. ASSUME NEW c \in Fickle, ComeOrGo(c) PROVE StageInv'
  BY <1>5 DEF ComeOrGo, walk, handler
<1>6. ASSUME NEW place \in Places, OtherLists(place) PROVE StageInv'
  <2>1. now \in Nat /\ other'.since = now
    BY <1>6 DEF OtherLists, SelectionTypes, WorldTypes
  <2>. QED
    BY <1>6, <2>1 DEF OtherLists, walk, handler
<1>7. CASE OtherSets
  BY <1>7 DEF OtherSets, world, walk, handler
<1>8. CASE Tick
  <2>1. now \in Nat /\ call.begun \in Int /\ (other # Nobody => other.since \in Int)
    BY DEF SelectionTypes, WorldTypes, HandlerTypes
  <2>. QED
    BY <1>8, <2>1 DEF Tick, walk, handler
<1>9. CASE UNCHANGED selectionVars
  BY <1>9 DEF selectionVars, world, walk, handler
<1>. QED
  BY <1>1, <1>2, <1>3, <1>4, <1>5, <1>6, <1>7, <1>8, <1>9 DEF SelectionNext

(* Where the walk is, and that it does not come back there.                  *)
LEMMA HereIsAPlace ==
  ASSUME SelectionTypes, Walking, ctxs # <<>>
  PROVE  Here \in Places
<1>1. Head(srcs) \in ToSet(Sources)
  BY RestOfSources DEF SelectionTypes, WalkTypes
<1>2. Head(ctxs) \in ToSet(Contexts(Head(srcs)))
  BY HeadTailProperties DEF SelectionTypes, WalkTypes
<1>. QED
  BY <1>1, <1>2 DEF Here, Places

(* Two places have two keys.                                                  *)
LEMMA ListKeysApart ==
  ASSUME NEW p \in Places, NEW q \in Places, ClusterListKey(p) = ClusterListKey(q)
  PROVE  p = q
<1>1. p.kubeconfig = q.kubeconfig /\ p.context = q.context
  BY DEF ClusterListKey
<1>2. \A place \in Places :
        place = [kubeconfig |-> place.kubeconfig, context |-> place.context]
  BY DEF Places
<1>. QED
  BY <1>1, <1>2

LEMMA EntriesAfterSet ==
  ASSUME EntriesInv,
         NEW here \in Places, NEW listed, AsOf(listed, here, now + TTL),
         lists' = AfterSet(lists, ClusterListKey(here), listed, now),
         UNCHANGED <<alive, changed>>
  PROVE  EntriesInv'
<1> SUFFICES ASSUME NEW place \in Places, ClusterListKey(place) \in DOMAIN lists'
             PROVE  AsOf(lists[ClusterListKey(place)].value, place,
                         lists[ClusterListKey(place)].expires)'
  BY DEF EntriesInv
<1>1. \A l, t : AsOf(l, place, t)' <=> AsOf(l, place, t)
  BY DEF AsOf, Since, At
<1>2. ASSUME NEW entry, lists'[ClusterListKey(place)] = entry,
             AsOf(entry.value, place, entry.expires)
      PROVE  AsOf(lists[ClusterListKey(place)].value, place,
                  lists[ClusterListKey(place)].expires)'
  BY <1>2 DEF AsOf, Since, At
<1>3. CASE ClusterListKey(place) = ClusterListKey(here)
  <2>1. place = here
    BY <1>3, ListKeysApart
  <2>2. lists'[ClusterListKey(place)] = [value |-> listed, expires |-> now + TTL]
    BY <1>3 DEF AfterSet
  <2>. QED
    BY <1>2, <2>1, <2>2
<1>4. CASE ClusterListKey(place) # ClusterListKey(here)
  <2>1. /\ ClusterListKey(place) \in DOMAIN lists
        /\ lists'[ClusterListKey(place)] = lists[ClusterListKey(place)]
    BY <1>4 DEF AfterSet
  <2>. QED
    BY <1>2, <2>1 DEF EntriesInv
<1>. QED
  BY <1>3, <1>4

LEMMA EntriesLeft ==
  ASSUME EntriesInv, NEW key, lists' = AfterGet(lists, key, now),
         UNCHANGED <<alive, changed>>
  PROVE  EntriesInv'
<1> SUFFICES ASSUME NEW place \in Places, ClusterListKey(place) \in DOMAIN lists'
             PROVE  AsOf(lists[ClusterListKey(place)].value, place,
                         lists[ClusterListKey(place)].expires)'
  BY DEF EntriesInv
<1>1. /\ ClusterListKey(place) \in DOMAIN lists
      /\ lists'[ClusterListKey(place)] = lists[ClusterListKey(place)]
  BY DEF AfterGet
<1>. QED
  BY <1>1 DEF EntriesInv, AsOf, Since, At

LEMMA NextCacheInv ==
  SelectionTypes /\ StageInv /\ CacheInv /\ [SelectionNext]_selectionVars => CacheInv'
<1> SUFFICES ASSUME SelectionTypes, StageInv, CacheInv, [SelectionNext]_selectionVars
             PROVE  CacheInv'
  OBVIOUS
<1> USE SelectionAssumption, TTLAssumption
<1>0. WorldTypes /\ now \in Nat /\ call.begun \in Nat /\ WalkTypes
  BY DEF SelectionTypes, WorldTypes, HandlerTypes
<1>1. ASSUME UNCHANGED <<alive, changed>>
      PROVE  \A l, place, t : AsOf(l, place, t)' <=> AsOf(l, place, t)
  BY <1>1 DEF AsOf, Since, At
<1>2. ASSUME UNCHANGED <<alive, changed, lists>> PROVE EntriesInv'
  BY <1>2 DEF CacheInv, EntriesInv, AsOf, Since, At
<1>3. ASSUME UNCHANGED <<alive, changed, other>>
      PROVE  other' # Nobody =>
               AsOf(other.listed, other.place, other.since + TTL + MaxFlight)'
  BY <1>1, <1>3 DEF CacheInv
<1>4. CASE StartWalk \/ ResolveContexts \/ NextSource \/ EndWalk
  <2>1. UNCHANGED <<alive, changed, lists, other>> /\ step' # "set"
    BY <1>4 DEF StartWalk, ResolveContexts, NextSource, EndWalk, world
  <2>. QED
    BY <1>2, <1>3, <2>1 DEF CacheInv
<1>5. CASE Begin
  <2>1. UNCHANGED <<alive, changed, lists, other>> /\ step' # "set"
    BY <1>5 DEF Begin, world, walk, StageInv
  <2>. QED
    BY <1>2, <1>3, <2>1 DEF CacheInv
<1>6. CASE Get
  <2>1. UNCHANGED <<alive, changed, other>> /\ step' # "set"
    BY <1>6 DEF Get, world
  <2>2. EntriesInv'
    BY <1>6, <2>1, EntriesLeft DEF Get, CacheInv
  <2>. QED
    BY <1>3, <2>1, <2>2 DEF CacheInv
<1>7. CASE List
  <2>1. UNCHANGED <<alive, changed, lists, other, srcs>>
    BY <1>7 DEF List, world
  <2>2. ASSUME step' = "set"
        PROVE  AsOf(fresh, Here, call.begun + TTL + MaxFlight)'
    <3>1. fresh' = Snapshot(Here) /\ Here' = Here
      BY <1>7, <2>2 DEF List, FailWalk, Here
    <3>. QED
      BY <1>1, <2>1, <3>1, SnapshotIsAsOf
  <2>. QED
    BY <1>2, <1>3, <2>1, <2>2 DEF CacheInv
<1>8. CASE Set
  <2>1. UNCHANGED <<alive, changed, other>> /\ step' # "set"
    BY <1>8 DEF Set, world
  <2>2. Here \in Places
    BY <1>8, HereIsAPlace DEF Set, SelectionTypes, WalkTypes, Walking
  <2>3. now + TTL <= call.begun + TTL + MaxFlight
    BY <1>0, <1>8 DEF Set, StageInv
  <2>4. AsOf(fresh, Here, now + TTL)
    BY <1>0, <1>8, <2>3, AsOfEarlier DEF Set, CacheInv
  <2>5. EntriesInv'
    BY <1>8, <2>1, <2>2, <2>4, EntriesAfterSet DEF Set, CacheInv
  <2>. QED
    BY <1>3, <2>1, <2>5 DEF CacheInv
<1>9. CASE AfterWalk \/ Resolve \/ Known \/ Resolved \/ Tick
  <2>1. UNCHANGED <<alive, changed, lists, other, walk, call>>
    BY <1>9 DEF AfterWalk, Resolve, Known, Resolved, Tick, world, handler
  <2>. QED
    BY <1>1, <1>2, <1>3, <2>1 DEF CacheInv, walk, Here
<1>10. ASSUME NEW c \in Fickle, ComeOrGo(c) PROVE CacheInv'
  <2>1. UNCHANGED <<lists, other, walk, call>>
    BY <1>10 DEF ComeOrGo, handler
  <2>2. EntriesInv'
    <3> SUFFICES ASSUME NEW place \in Places, ClusterListKey(place) \in DOMAIN lists
                 PROVE  AsOf(lists[ClusterListKey(place)].value, place,
                             lists[ClusterListKey(place)].expires)'
      BY <2>1 DEF EntriesInv
    <3>1. /\ lists[ClusterListKey(place)].expires \in Int
          /\ lists[ClusterListKey(place)].expires <= now + TTL + MaxFlight
      BY <1>0 DEF WorldTypes
    <3>. QED
      BY <1>0, <1>10, <2>1, <3>1, ChangesKeepAsOf DEF CacheInv, EntriesInv
  <2>3. ASSUME other' # Nobody
        PROVE  AsOf(other.listed, other.place, other.since + TTL + MaxFlight)'
    <3>1. /\ other.since + TTL + MaxFlight \in Int
          /\ other.since + TTL + MaxFlight <= now + TTL + MaxFlight
      BY <1>0, <2>1, <2>3 DEF WorldTypes
    <3>. QED
      BY <1>0, <1>10, <2>1, <2>3, <3>1, ChangesKeepAsOf DEF CacheInv
  <2>4. ASSUME step' = "set"
        PROVE  AsOf(fresh, Here, call.begun + TTL + MaxFlight)'
    <3>1. call.begun + TTL + MaxFlight <= now + TTL + MaxFlight
      BY <1>0 DEF SelectionTypes, HandlerTypes
    <3>. QED
      BY <1>0, <1>10, <2>1, <2>4, <3>1, ChangesKeepAsOf DEF CacheInv, walk, Here
  <2>. QED
    BY <2>2, <2>3, <2>4 DEF CacheInv
<1>11. ASSUME NEW place \in Places, OtherLists(place) PROVE CacheInv'
  <2>1. UNCHANGED <<alive, changed, walk, call>>
    BY <1>11 DEF OtherLists, handler
  <2>2. other'.place = place /\ other'.listed = Snapshot(place)
    BY <1>11 DEF OtherLists
  <2>3. EntriesInv'
    BY <1>11, <2>1, EntriesLeft DEF OtherLists, CacheInv
  <2>. QED
    BY <1>1, <2>1, <2>2, <2>3, SnapshotIsAsOf DEF CacheInv, walk, Here
<1>12. CASE OtherSets
  <2>1. UNCHANGED <<alive, changed, walk, call>> /\ other' = Nobody
    BY <1>12 DEF OtherSets, world, handler
  <2>2. other.place \in Places /\ other.since \in Int
        /\ now + TTL <= other.since + TTL + MaxFlight
    BY <1>0, <1>12 DEF OtherSets, WorldTypes, StageInv
  <2>3. AsOf(other.listed, other.place, now + TTL)
    BY <1>0, <1>12, <2>2, AsOfEarlier DEF OtherSets, CacheInv
  <2>4. EntriesInv'
    BY <1>12, <2>1, <2>2, <2>3, EntriesAfterSet DEF OtherSets, CacheInv
  <2>. QED
    BY <1>1, <2>1, <2>4 DEF CacheInv, walk, Here
<1>13. CASE UNCHANGED selectionVars
  BY <1>1, <1>2, <1>3, <1>13 DEF selectionVars, world, walk, handler, CacheInv, Here
<1>. QED
  BY <1>4, <1>5, <1>6, <1>7, <1>8, <1>9, <1>10, <1>11, <1>12, <1>13
  DEF SelectionNext

LEMMA NextAheadInv ==
  ASSUME ContextsOnce
  PROVE  SelectionTypes /\ AheadInv /\ [SelectionNext]_selectionVars => AheadInv'
<1> SUFFICES ASSUME SelectionTypes, AheadInv, [SelectionNext]_selectionVars
             PROVE  AheadInv'
  OBVIOUS
<1>1. /\ srcs \in Seq(ToSet(Sources))
      /\ srcs # <<>> => Head(srcs) \in ToSet(Sources)
  BY RestOfSources DEF SelectionTypes, WalkTypes
<1>2. CASE StartWalk
  BY <1>2, SelectionAssumption DEF StartWalk, AheadInv, Walking
<1>3. CASE ResolveContexts
  <2>1. IsInjective(Contexts(Head(srcs)))
    BY <1>1, <1>3 DEF ResolveContexts, ContextsOnce
  <2>. QED
    BY <1>3, <2>1 DEF ResolveContexts, AheadInv, Walking
<1>4. CASE NextSource
  <2>1. srcs # <<>> /\ srcs' = Tail(srcs)
    BY <1>4 DEF NextSource, SelectionTypes, WalkTypes, Walking
  <2>2. /\ DOMAIN srcs' = 1 .. (Len(srcs) - 1) /\ Len(srcs) \in Nat
        /\ DOMAIN srcs = 1 .. Len(srcs)
        /\ \A i \in 1 .. (Len(srcs) - 1) : srcs'[i] = srcs[i + 1]
    BY <1>1, <2>1, HeadTailProperties
  <2>3. \A i, k \in DOMAIN srcs' : srcs'[i].name = srcs'[k].name => i = k
    <3> SUFFICES ASSUME NEW i \in DOMAIN srcs', NEW k \in DOMAIN srcs',
                        srcs'[i].name = srcs'[k].name
                 PROVE  i = k
      OBVIOUS
    <3>1. i + 1 \in DOMAIN srcs /\ k + 1 \in DOMAIN srcs /\ i \in Int /\ k \in Int
      BY <2>2
    <3>2. srcs[i + 1].name = srcs[k + 1].name
      BY <2>2
    <3>3. i + 1 = k + 1
      BY <3>1, <3>2 DEF AheadInv
    <3>. QED
      BY <3>1, <3>3
  <2>. QED
    BY <1>4, <2>3 DEF NextSource, AheadInv, Walking
<1>5. ASSUME Walking, ctxs # <<>> PROVE IsInjective(Tail(ctxs))
  BY <1>5, TailInjective DEF AheadInv, SelectionTypes, WalkTypes
<1>6. CASE Get \/ Set
  <2>1. UNCHANGED srcs /\ (ctxs' = ctxs \/ ctxs' = Tail(ctxs)) /\ Walking
        /\ ctxs # <<>>
    BY <1>6 DEF Get, Set, Walking, SelectionTypes, WalkTypes
  <2>. QED
    BY <1>5, <2>1 DEF AheadInv
<1>7. CASE List \/ EndWalk
  BY <1>7 DEF List, FailWalk, EndWalk, AheadInv, Walking
<1>8. CASE UNCHANGED walk
  BY <1>8 DEF walk, AheadInv, Walking
<1>. QED
  BY <1>2, <1>3, <1>4, <1>6, <1>7, <1>8
  DEF SelectionNext, selectionVars, Begin, AfterWalk, Resolve, Known, Resolved,
      ComeOrGo, OtherLists, OtherSets, Tick

LEMMA OnceAhead ==
  ASSUME SelectionTypes, AheadInv, Walking, ctxs # <<>>
  PROVE  LET rest == OfContexts(Head(srcs), Tail(ctxs)) \cup OfRest(Tail(srcs))
         IN  Ahead = {Here} \cup rest /\ Here \notin rest
<1>1. srcs \in Seq(ToSet(Sources)) /\ srcs # <<>>
  BY RestOfSources DEF SelectionTypes, WalkTypes
<1>2. /\ ctxs \in Seq(ToSet(Contexts(Head(srcs))))
      /\ ToSet(ctxs) = {Head(ctxs)} \cup ToSet(Tail(ctxs))
      /\ Head(ctxs) \notin ToSet(Tail(ctxs))
  BY TailMembers, TailInjective DEF AheadInv, SelectionTypes, WalkTypes
<1>3. \A src \in ToSet(Tail(srcs)) : src.name # Head(srcs).name
  <2> SUFFICES ASSUME NEW i \in DOMAIN Tail(srcs)
               PROVE  Tail(srcs)[i].name # Head(srcs).name
    BY DEF ToSet
  <2>1. /\ i + 1 \in DOMAIN srcs /\ 1 \in DOMAIN srcs /\ i + 1 # 1
        /\ Tail(srcs)[i] = srcs[i + 1] /\ Head(srcs) = srcs[1]
    BY <1>1, HeadTailProperties
  <2>. QED
    BY <2>1 DEF AheadInv
<1>4. Ahead = OfContexts(Head(srcs), ctxs) \cup OfRest(Tail(srcs))
  BY DEF Ahead, Walking
<1>5. OfContexts(Head(srcs), ctxs) = {Here} \cup OfContexts(Head(srcs), Tail(ctxs))
  BY <1>2 DEF OfContexts, Here
<1>6. Here \notin OfContexts(Head(srcs), Tail(ctxs))
  BY <1>2 DEF OfContexts, Here
<1>7. Here \notin OfRest(Tail(srcs))
  <2>1. ASSUME NEW src \in ToSet(Tail(srcs)) PROVE Here \notin PlacesOf(src)
    <3>1. \A place \in PlacesOf(src) : place.kubeconfig = src.name
      BY DEF PlacesOf
    <3>. QED
      BY <1>3, <3>1 DEF Here
  <2>. QED
    BY <2>1 DEF OfRest
<1>. QED
  BY <1>4, <1>5, <1>6, <1>7

LEMMA GatherAlike ==
  ASSUME GatherInv, step # "failed", Ahead' = Ahead,
         UNCHANGED <<gathered, alive, changed, call>>
  PROVE  GatherInv'
<1>1. Places' = Places
  OBVIOUS
<1>. QED
  BY <1>1 DEF GatherInv, PlaceOf, Since

(* A listing of where the walk is completes what it has gathered.            *)
LEMMA GatherHere ==
  ASSUME SelectionTypes, AheadInv, GatherInv, Walking, ctxs # <<>>,
         NEW listed \in Seq(ToSet(Universe)), NEW t \in Int, t >= call.begun,
         AsOf(listed, Here, t),
         gathered' = gathered \o listed, ctxs' = Tail(ctxs), step' = "get",
         UNCHANGED <<alive, changed, call, srcs>>
  PROVE  GatherInv'
<1> DEFINE U == ToSet(Universe)
<1>1. /\ gathered \in Seq(U) /\ call.begun \in Int /\ WorldTypes
      /\ step # "failed"
  BY DEF SelectionTypes, WalkTypes, HandlerTypes, Walking
<1>2. Here \in Places
  BY HereIsAPlace
<1>3. Ahead = {Here} \cup Ahead' /\ Here \notin Ahead'
  <2>1. Ahead' = OfContexts(Head(srcs), Tail(ctxs)) \cup OfRest(Tail(srcs))
    BY DEF Ahead, Walking, OfContexts, OfRest, PlacesOf
  <2>. QED
    BY <2>1, OnceAhead
<1>4. AsOf(listed, Here, call.begun)
  BY <1>1, AsOfEarlier
<1>5. \A c : c \in ToSet(listed) => c \in U /\ PlaceOf(c) = Here
  BY <1>2, <1>4, AtPlace DEF AsOf
<1>6. \A c \in ToSet(gathered) : PlaceOf(c) \in Places \ Ahead
  BY <1>1 DEF GatherInv
<1>7. ToSet(gathered') = ToSet(gathered) \cup ToSet(listed)
  BY <1>1, ConcatMembers
<1>8. IsInjective(gathered')
  <2>1. ToSet(gathered) \cap ToSet(listed) = {}
    BY <1>3, <1>5, <1>6
  <2>. QED
    BY <1>1, <1>4, <2>1, ConcatInjective DEF GatherInv, AsOf
<1>9. \A c \in ToSet(gathered') : PlaceOf(c) \in Places \ Ahead'
  BY <1>2, <1>3, <1>5, <1>6, <1>7
<1>10. ASSUME NEW c \in U, PlaceOf(c) \in Places \ Ahead',
              (c \in ToSet(gathered')) # (c \in alive)
       PROVE  Since(c, call.begun)
  <2>1. CASE PlaceOf(c) = Here
    <3>1. c \notin ToSet(gathered)
      BY <1>3, <1>6, <2>1
    <3>2. c \in At(Here)
      BY <1>2, <2>1, AtPlace
    <3>. QED
      BY <1>4, <1>7, <1>10, <3>1, <3>2 DEF AsOf
  <2>2. CASE PlaceOf(c) # Here
    <3>1. c \notin ToSet(listed)
      BY <1>5, <2>2
    <3>2. PlaceOf(c) \in Places \ Ahead
      BY <1>3, <1>10, <2>2
    <3>. QED
      BY <1>1, <1>7, <1>10, <3>1, <3>2 DEF GatherInv
  <2>. QED
    BY <2>1, <2>2
<1>11. Places' = Places /\ \A c : PlaceOf(c)' = PlaceOf(c)
  BY DEF PlaceOf
<1>12. \A c : Since(c, call.begun)' <=> Since(c, call.begun)
  BY DEF Since
<1> HIDE DEF U
<1>13. \A c \in U :
         PlaceOf(c) \in Places \ Ahead' /\ (c \in ToSet(gathered')) # (c \in alive')
           => Since(c, call.begun)'
  BY <1>10, <1>12
<1>. QED
  BY <1>8, <1>9, <1>11, <1>13 DEF GatherInv, U

LEMMA NextGatherInv ==
  SelectionTypes /\ RecentInv /\ [SelectionNext]_selectionVars => GatherInv'
<1> SUFFICES ASSUME SelectionTypes, StageInv, CacheInv, AheadInv, GatherInv,
                    [SelectionNext]_selectionVars
             PROVE  GatherInv'
  BY DEF RecentInv
<1> USE SelectionAssumption, TTLAssumption
<1>0. WorldTypes /\ now \in Nat /\ call.begun \in Nat /\ call.begun <= now /\ WalkTypes
  BY DEF SelectionTypes, WorldTypes, HandlerTypes
<1>1. ASSUME step = "off", UNCHANGED walk PROVE GatherInv'
  <2>1. gathered' = <<>> /\ Ahead' = Places'
    BY <1>1 DEF StageInv, walk, Ahead, Walking
  <2>. QED
    BY <2>1 DEF GatherInv, IsInjective, ToSet
<1>2. CASE Begin
  BY <1>1, <1>2 DEF Begin, StageInv
<1>3. CASE StartWalk
  <2>1. Ahead = Places
    BY <1>3 DEF StartWalk, Ahead, Walking
  <2>2. Ahead' = OfRest(Sources)
    BY <1>3 DEF StartWalk, Ahead, Walking, OfRest, PlacesOf
  <2>3. OfRest(Sources) = Places
    BY DEF OfRest, PlacesOf, Places
  <2>. QED
    BY <1>3, <2>1, <2>2, <2>3, GatherAlike DEF StartWalk, world, handler
<1>4. CASE ResolveContexts
  <2>1. CASE step' = "failed"
    BY <2>1 DEF GatherInv
  <2>2. CASE step' # "failed"
    <3>1. Ahead = OfRest(srcs)
      BY <1>4 DEF ResolveContexts, Ahead, Walking
    <3>2. Ahead' = OfContexts(Head(srcs), Contexts(Head(srcs))) \cup OfRest(Tail(srcs))
      BY <1>4, <2>2
      DEF ResolveContexts, Ahead, Walking, OfContexts, OfRest, PlacesOf
    <3>3. OfContexts(Head(srcs), Contexts(Head(srcs))) = PlacesOf(Head(srcs))
      BY DEF OfContexts, PlacesOf
    <3>4. ToSet(srcs) = {Head(srcs)} \cup ToSet(Tail(srcs))
      BY <1>4, RestOfSources, TailMembers DEF ResolveContexts, WalkTypes, SelectionTypes
    <3>5. Ahead' = Ahead
      BY <3>1, <3>2, <3>3, <3>4 DEF OfRest
    <3>. QED
      BY <1>4, <3>5, GatherAlike DEF ResolveContexts, world, handler
  <2>. QED
    BY <2>1, <2>2
<1>5. CASE NextSource
  <2>1. Ahead = OfContexts(Head(srcs), ctxs) \cup OfRest(Tail(srcs))
    BY <1>5 DEF NextSource, Ahead, Walking
  <2>2. OfContexts(Head(srcs), ctxs) = {}
    BY <1>5 DEF NextSource, OfContexts, ToSet
  <2>3. Ahead' = OfRest(Tail(srcs))
    BY <1>5 DEF NextSource, Ahead, Walking, OfRest, PlacesOf
  <2>. QED
    BY <1>5, <2>1, <2>2, <2>3, GatherAlike DEF NextSource, world, handler
<1>6. CASE EndWalk
  <2>1. Ahead = OfRest(<<>>)
    BY <1>6 DEF EndWalk, Ahead, Walking
  <2>2. OfRest(<<>>) = {}
    BY DEF OfRest, ToSet
  <2>3. Ahead' = {}
    BY <1>6 DEF EndWalk, Ahead, Walking
  <2>. QED
    BY <1>6, <2>1, <2>2, <2>3, GatherAlike DEF EndWalk, world, handler
<1>7. ASSUME step \in {"get", "list"}, step' \in {"list", "set"},
             UNCHANGED <<ctxs, srcs, gathered, alive, changed, call>>
      PROVE  GatherInv'
  <2>1. Ahead' = Ahead
    BY <1>7 DEF Ahead, Walking, OfContexts, OfRest, PlacesOf
  <2>. QED
    BY <1>7, <2>1, GatherAlike
<1>8. CASE Get
  <2>1. CASE Hit(lists, ClusterListKey(Here), now)
    <3>1. Walking /\ ctxs # <<>>
      BY <1>8 DEF Get, Walking
    <3>2. Here \in Places
      BY <3>1, HereIsAPlace
    <3>3. /\ ClusterListKey(Here) \in DOMAIN lists
          /\ lists[ClusterListKey(Here)].expires \in Int
          /\ lists[ClusterListKey(Here)].expires >= call.begun
          /\ lists[ClusterListKey(Here)].value \in Seq(ToSet(Universe))
      BY <1>0, <2>1 DEF Hit, Expired, WorldTypes
    <3>4. AsOf(lists[ClusterListKey(Here)].value, Here,
               lists[ClusterListKey(Here)].expires)
      BY <3>2, <3>3 DEF CacheInv, EntriesInv
    <3>5. /\ gathered' = gathered \o lists[ClusterListKey(Here)].value
          /\ ctxs' = Tail(ctxs) /\ step' = "get"
          /\ UNCHANGED <<alive, changed, call, srcs>>
      BY <1>8, <2>1 DEF Get, world, handler
    <3>. QED
      BY <3>1, <3>3, <3>4, <3>5, GatherHere
  <2>2. CASE ~Hit(lists, ClusterListKey(Here), now)
    BY <1>7, <1>8, <2>2 DEF Get, world, handler
  <2>. QED
    BY <2>1, <2>2
<1>9. CASE List
  <2>1. CASE step' = "failed"
    BY <2>1 DEF GatherInv
  <2>2. CASE step' # "failed"
    BY <1>7, <1>9, <2>2 DEF List, FailWalk, world, handler
  <2>. QED
    BY <2>1, <2>2
<1>10. CASE Set
  <2>1. Walking /\ ctxs # <<>> /\ fresh \in Seq(ToSet(Universe))
    BY <1>0, <1>10 DEF Set, Walking, WalkTypes
  <2>2. call.begun + TTL + MaxFlight \in Int
        /\ call.begun + TTL + MaxFlight >= call.begun
    BY <1>0
  <2>3. AsOf(fresh, Here, call.begun + TTL + MaxFlight)
    BY <1>10 DEF Set, CacheInv
  <2>4. /\ gathered' = gathered \o fresh
        /\ ctxs' = Tail(ctxs) /\ step' = "get"
        /\ UNCHANGED <<alive, changed, call, srcs>>
    BY <1>10 DEF Set, world, handler
  <2>. QED
    BY <2>1, <2>2, <2>3, <2>4, GatherHere
<1>11. ASSUME UNCHANGED walk PROVE Ahead' = Ahead /\ step' = step /\ gathered' = gathered
  BY <1>11 DEF walk, Ahead, Walking, OfContexts, OfRest, PlacesOf
<1>12. CASE AfterWalk \/ Resolve \/ Known \/ Resolved \/ OtherSets \/ Tick
            \/ UNCHANGED selectionVars
  <2>1. UNCHANGED <<walk, alive, changed, call>>
    BY <1>12 DEF AfterWalk, Resolve, Known, Resolved, OtherSets, Tick, world,
                 handler, selectionVars
  <2>2. CASE step = "failed"
    BY <1>11, <2>1, <2>2 DEF GatherInv
  <2>3. CASE step # "failed"
    BY <1>11, <2>1, <2>3, GatherAlike
  <2>. QED
    BY <2>2, <2>3
<1>13. ASSUME NEW place \in Places, OtherLists(place) PROVE GatherInv'
  <2>1. UNCHANGED <<walk, alive, changed, call>>
    BY <1>13 DEF OtherLists, handler
  <2>2. CASE step = "failed"
    BY <1>11, <2>1, <2>2 DEF GatherInv
  <2>3. CASE step # "failed"
    BY <1>11, <2>1, <2>3, GatherAlike
  <2>. QED
    BY <2>2, <2>3
<1>14. ASSUME NEW c \in Fickle, ComeOrGo(c) PROVE GatherInv'
  <2>1. UNCHANGED <<walk, call>>
    BY <1>14 DEF ComeOrGo, handler
  <2>2. call.begun \in Int /\ call.begun <= now + TTL + MaxFlight
    BY <1>0
  <2>3. \A d \in ToSet(Universe) :
          /\ Since(d, call.begun) => Since(d, call.begun)'
          /\ (d \in alive) # (d \in alive') => Since(d, call.begun)'
    BY <1>0, <1>14, <2>1, <2>2, ChangesAreSince DEF Since
  <2>4. Places' = Places /\ \A d : PlaceOf(d)' = PlaceOf(d)
    BY DEF PlaceOf
  <2>. QED
    BY <1>11, <2>1, <2>3, <2>4 DEF GatherInv
<1>. QED
  BY <1>2, <1>3, <1>4, <1>5, <1>6, <1>8, <1>9, <1>10, <1>12, <1>13, <1>14
  DEF SelectionNext

-----------------------------------------------------------------------------
(* What list_clusters shows.                                                  *)

(* Two clusters have two targets.                                             *)
TargetsApart ==
  \A c, d \in ToSet(Universe) : FormatTarget(c) = FormatTarget(d) => c = d

AgreeInv ==
  call.tool = "list_clusters" /\ patterns # <<>> =>
    /\ ~strict
    /\ stage = "walk" => pc = "check"
    /\ stage \in {"resolve", "answered"} =>
         /\ step = "done"
         /\ pc \in {"resolve", "done"} /\ NeedsExpansion => known = gathered
    /\ stage = "answered" => pc = "done" /\ selected = Kept

LEMMA InitAgreeInv == SelectionInit => AgreeInv
BY DEF SelectionInit, AgreeInv

LEMMA NextAgreeInv ==
  HandlerInv /\ AgreeInv /\ [SelectionNext]_selectionVars => AgreeInv'
<1> SUFFICES ASSUME HandlerInv, AgreeInv, [SelectionNext]_selectionVars
             PROVE  AgreeInv'
  OBVIOUS
<1>1. CASE Begin
  <2>1. PICK t \in Tool, ps \in Requests, omitted \in BOOLEAN :
          /\ omitted => ps = <<>>
          /\ call' = [tool |-> t, omitted |-> omitted, begun |-> now]
          /\ patterns' = ps /\ strict' = (t \in Strict)
          /\ stage' = IF omitted THEN WhenOmitted(t) ELSE WhenGiven(t, ps)
    BY <1>1 DEF Begin
  <2>2. pc' = "check"
    BY <1>1 DEF Begin, HandlerInv, Blank
  <2>3. ASSUME call'.tool = "list_clusters", patterns' # <<>>
        PROVE  ~strict' /\ stage' = "walk"
    <3>1. t = "list_clusters" /\ ~omitted /\ t \notin Strict
      BY <2>1, <2>3 DEF Strict
    <3>2. WhenGiven(t, ps) = "walk"
      BY <3>1 DEF WhenGiven, Embedded
    <3>. QED
      BY <2>1, <3>1, <3>2
  <2>. QED
    BY <2>2, <2>3 DEF AgreeInv
<1>2. ASSUME UNCHANGED <<vars, handler>>,
             stage \in {"resolve", "answered"} => UNCHANGED walk
             \/ step # "done"
      PROVE  AgreeInv'
  <2>1. Kept' = Kept \/ gathered' # gathered
    BY <1>2 DEF vars, Kept, Targets
  <2>2. NeedsExpansion' = NeedsExpansion
    BY <1>2 DEF vars, NeedsExpansion, Verbatim
  <2>. QED
    BY <1>2, <2>1, <2>2 DEF AgreeInv, vars, handler, walk
<1>3. CASE AfterWalk
  <2>1. UNCHANGED <<vars, walk, call>> /\ stage = "walk"
        /\ (patterns # <<>> => stage' # "answered")
        /\ (stage' = "resolve" => step = "done") /\ stage' # "walk"
    BY <1>3 DEF AfterWalk, Answer
  <2>. QED
    BY <2>1 DEF AgreeInv, vars, walk
<1>4. CASE Resolve
  <2>1. /\ UNCHANGED <<call, stage, step, gathered, known, strict, patterns>>
        /\ stage = "resolve"
        /\ \/ pc' \in {"error", "list"}
           \/ pc' = "resolve" /\ (pc = "resolve" \/ ~NeedsExpansion)
           \/ pc' = "done" /\ pc = "resolve"
    BY <1>4 DEF Resolve, Reject, Accept, ResolveVerbatim, ResolveKnown,
                NextPattern, Return, AtPattern, walk, handler
  <2>2. NeedsExpansion' = NeedsExpansion
    BY <2>1 DEF NeedsExpansion, Verbatim
  <2>. QED
    BY <2>1, <2>2 DEF AgreeInv
<1>5. CASE Known
  <2>1. /\ UNCHANGED <<call, stage, step, gathered, strict, patterns>>
        /\ stage = "resolve"
        /\ pc' = "error" \/ known' = KnownTo(call.tool)
    BY <1>5 DEF Known, ListKnown, walk, handler
  <2>2. call.tool = "list_clusters" => KnownTo(call.tool) = gathered
    BY DEF KnownTo, Embedded
  <2>. QED
    BY <2>1, <2>2 DEF AgreeInv
<1>6. CASE Resolved
  <2>1. /\ UNCHANGED <<vars, walk, call>> /\ stage = "resolve"
        /\ \/ stage' = "refused"
           \/ /\ stage' = "answered" /\ pc = "done"
              /\ call.tool = "list_clusters" => selected' = Kept
    BY <1>6 DEF Resolved, Answer
  <2>2. Kept' = Kept /\ NeedsExpansion' = NeedsExpansion
    BY <2>1 DEF vars, walk, Kept, Targets, NeedsExpansion, Verbatim
  <2>. QED
    BY <2>1, <2>2 DEF AgreeInv, vars, walk
<1>. QED
  BY <1>1, <1>2, <1>3, <1>4, <1>5, <1>6
  DEF SelectionNext, selectionVars, StartWalk, ResolveContexts, NextSource,
      EndWalk, Get, List, Set, ComeOrGo, OtherLists, OtherSets, Tick

LEMMA OneMore ==
  ASSUME NEW s \in Seq(Segment), NEW t \in Seq(Segment), Len(t) = 1
  PROVE  /\ s \o t \in Seq(Segment) /\ Len(s \o t) = Len(s) + 1
         /\ \A i \in 1 .. Len(s) : (s \o t)[i] = s[i]
         /\ (s \o t)[Len(s) + 1] = t[1]
<1>1. /\ s \o t \in Seq(Segment) /\ Len(s \o t) = Len(s) + Len(t)
      /\ \A i \in 1 .. Len(s) + Len(t) :
           (s \o t)[i] = IF i <= Len(s) THEN s[i] ELSE t[i - Len(s)]
  BY ConcatProperties, Zenon
<1>2. Len(s) \in Nat /\ (Len(s) + 1) - Len(s) = 1 /\ ~(Len(s) + 1 <= Len(s))
  OBVIOUS
<1>. QED
  BY <1>1, <1>2

LEMMA OneFirst ==
  ASSUME NEW a \in Seq(Segment), NEW b \in Seq(Segment),
         NEW c \in Seq(Segment), NEW d \in Seq(Segment),
         Len(a) = 1, Len(c) = 1, a \o b = c \o d
  PROVE  a = c /\ b = d
BY ConcatApart

LEMMA OneLast ==
  ASSUME NEW a \in Seq(Segment), NEW b \in Seq(Segment),
         NEW c \in Seq(Segment), NEW d \in Seq(Segment),
         Len(b) = 1, Len(d) = 1, a \o b = c \o d
  PROVE  a = c /\ b = d
<1>1. Len(a) = Len(c)
  <2>1. /\ Len(a) \in Nat /\ Len(c) \in Nat
        /\ Len(a \o b) = Len(a) + Len(b) /\ Len(c \o d) = Len(c) + Len(d)
    <3>1. Len(a \o b) = Len(a) + Len(b)
      BY ConcatProperties, Zenon
    <3>2. Len(c \o d) = Len(c) + Len(d)
      BY ConcatProperties, Zenon
    <3>. QED
      BY <3>1, <3>2
  <2>. QED
    BY <2>1
<1>. QED
  BY <1>1, ConcatApart

LEMMA FourSegments ==
  ASSUME NEW k \in Cluster, Len(k.kubeconfig) = 1, Len(k.context) = 1,
         Len(k.namespace) = 1, Len(k.name) = 1
  PROVE  /\ FormatTarget(k) \in Seq(Segment) /\ Len(FormatTarget(k)) = 4
         /\ FormatTarget(k)[1] = k.kubeconfig[1] /\ FormatTarget(k)[2] = k.context[1]
         /\ FormatTarget(k)[3] = k.namespace[1] /\ FormatTarget(k)[4] = k.name[1]
<1>1. PICK a, b, c, d : a = k.kubeconfig /\ b = k.context
                        /\ c = k.namespace /\ d = k.name
  OBVIOUS
<1>2. /\ a \in Seq(Segment) /\ b \in Seq(Segment)
       /\ c \in Seq(Segment) /\ d \in Seq(Segment)
       /\ Len(a) = 1 /\ Len(b) = 1 /\ Len(c) = 1 /\ Len(d) = 1
  BY <1>1 DEF Cluster, Text
<1> DEFINE u == a \o b
           v == u \o c
           t == v \o d
<1>3. u \in Seq(Segment) /\ Len(u) = 2 /\ u[1] = a[1] /\ u[2] = b[1]
  BY <1>2, OneMore
<1>4. v \in Seq(Segment) /\ Len(v) = 3 /\ v[1] = u[1] /\ v[2] = u[2] /\ v[3] = c[1]
  <2> HIDE DEF u
  <2>1. /\ v \in Seq(Segment) /\ Len(v) = Len(u) + 1
        /\ \A i \in 1 .. Len(u) : v[i] = u[i]
        /\ v[Len(u) + 1] = c[1]
    BY <1>2, <1>3, OneMore
  <2> HIDE DEF v
  <2>. QED
    BY <1>3, <2>1
<1>5. /\ t \in Seq(Segment) /\ Len(t) = 4
      /\ t[1] = v[1] /\ t[2] = v[2] /\ t[3] = v[3] /\ t[4] = d[1]
  <2> HIDE DEF v
  <2>1. /\ t \in Seq(Segment) /\ Len(t) = Len(v) + 1
        /\ \A i \in 1 .. Len(v) : t[i] = v[i]
        /\ t[Len(v) + 1] = d[1]
    BY <1>2, <1>4, OneMore
  <2>2. /\ 1 \in 1 .. Len(v) /\ 2 \in 1 .. Len(v) /\ 3 \in 1 .. Len(v)
        /\ Len(v) + 1 = 4
    BY <1>4
  <2> HIDE DEF t
  <2>. QED
    BY <2>1, <2>2
<1> HIDE DEF u, v
<1>. QED
  <2>1. FormatTarget(k) = t
    BY <1>1 DEF FormatTarget, u, v
  <2> HIDE DEF t
  <2>. QED
    BY <1>1, <1>3, <1>4, <1>5, <2>1

(* A target is an exact pattern only of the cluster that pattern names.      *)
LEMMA ExactNames ==
  ASSUME NEW c \in Cluster, NEW p \in Text, IsExact(p)
  PROVE  Matches(p, c) <=> FormatTarget(c) = p
<1>1. /\ c.kubeconfig \in Text /\ c.context \in Text
      /\ c.namespace \in Text /\ c.name \in Text
  BY DEF Cluster
<1>2. Len(p) = 4 /\ DOMAIN p = 1 .. 4 /\ p \in Seq(Segment)
  BY DEF IsExact, Text
<1>3. Matches(p, c) <=> /\ c.kubeconfig = <<p[1]>> /\ c.context = <<p[2]>>
                        /\ c.namespace = <<p[3]>> /\ c.name = <<p[4]>>
  <2>1. DOMAIN p = {1, 2, 3, 4}
    BY <1>2
  <2>2. /\ Field(c, 1) = c.kubeconfig /\ Field(c, 2) = c.context
        /\ Field(c, 3) = c.namespace /\ Field(c, 4) = c.name
    BY DEF Field
  <2>. QED
    BY <2>1, <2>2 DEF Matches
<1>4. ASSUME Matches(p, c) PROVE FormatTarget(c) = p
  <2>1. /\ Len(c.kubeconfig) = 1 /\ Len(c.context) = 1
        /\ Len(c.namespace) = 1 /\ Len(c.name) = 1
        /\ c.kubeconfig[1] = p[1] /\ c.context[1] = p[2]
        /\ c.namespace[1] = p[3] /\ c.name[1] = p[4]
    BY <1>3, <1>4
  <2>2. /\ FormatTarget(c) \in Seq(Segment) /\ Len(FormatTarget(c)) = 4
        /\ FormatTarget(c)[1] = p[1] /\ FormatTarget(c)[2] = p[2]
        /\ FormatTarget(c)[3] = p[3] /\ FormatTarget(c)[4] = p[4]
    BY <2>1, FourSegments
  <2>3. 1 .. 4 = {1, 2, 3, 4}
    OBVIOUS
  <2>. QED
    BY <1>2, <2>2, <2>3, SeqEqual
<1>5. ASSUME FormatTarget(c) = p PROVE Matches(p, c)
  <2>0. PICK a, b, d, e : /\ a = c.kubeconfig /\ b = c.context
                          /\ d = c.namespace /\ e = c.name
    OBVIOUS
  <2>1. /\ a \in Seq(Segment) /\ b \in Seq(Segment)
        /\ d \in Seq(Segment) /\ e \in Seq(Segment)
        /\ a # <<>> /\ b # <<>> /\ d # <<>> /\ e # <<>>
    BY <1>1, <2>0 DEF Text
  <2>2. p = ((a \o b) \o d) \o e
    BY <1>5, <2>0 DEF FormatTarget
  <2>3. /\ a \o b \in Seq(Segment) /\ (a \o b) \o d \in Seq(Segment)
        /\ Len(a \o b) = Len(a) + Len(b)
        /\ Len((a \o b) \o d) = Len(a \o b) + Len(d)
        /\ Len(p) = Len((a \o b) \o d) + Len(e)
    <3>1. a \o b \in Seq(Segment) /\ Len(a \o b) = Len(a) + Len(b)
      BY <2>1, ConcatProperties
    <3>2. /\ (a \o b) \o d \in Seq(Segment)
          /\ Len((a \o b) \o d) = Len(a \o b) + Len(d)
      BY <2>1, <3>1, ConcatProperties
    <3>. QED
      BY <2>1, <2>2, <3>1, <3>2, ConcatProperties
  <2>4. Len(a) = 1 /\ Len(b) = 1 /\ Len(d) = 1 /\ Len(e) = 1
    <3>1. /\ Len(a) \in Nat \ {0} /\ Len(b) \in Nat \ {0}
          /\ Len(d) \in Nat \ {0} /\ Len(e) \in Nat \ {0}
      BY <2>1, EmptySeq
    <3>2. Len(a) + Len(b) + Len(d) + Len(e) = 4
      BY <1>2, <2>3
    <3>3. \A w, x, y, z \in Nat \ {0} :
            w + x + y + z = 4 => w = 1 /\ x = 1 /\ y = 1 /\ z = 1
      OBVIOUS
    <3>. QED
      BY <3>1, <3>2, <3>3
  <2>5. a = <<a[1]>> /\ b = <<b[1]>> /\ d = <<d[1]>> /\ e = <<e[1]>>
    BY <2>1, <2>4
  <2>6. p[1] = a[1] /\ p[2] = b[1] /\ p[3] = d[1] /\ p[4] = e[1]
    BY <1>5, <2>0, <2>4, FourSegments
  <2>. QED
    BY <1>3, <2>0, <2>5, <2>6
<1>. QED
  BY <1>4, <1>5

LEMMA Agrees ==
  ASSUME TargetsApart
  PROVE  IInv /\ SelectionTypes /\ AgreeInv => ListAgrees
<1> SUFFICES ASSUME IInv, SelectionTypes, AgreeInv,
                    stage = "answered", call.tool = "list_clusters", patterns # <<>>
             PROVE  LET wanted == {c \in ToSet(gathered) :
                              \E i \in DOMAIN patterns : Matches(patterns[i], c)}
                    IN selected = Targets(Chosen(gathered, wanted))
  BY DEF ListAgrees
<1> DEFINE wanted == {c \in ToSet(gathered) :
                        \E i \in DOMAIN patterns : Matches(patterns[i], c)}
           f == [c \in ToSet(Universe) |-> FormatTarget(c)]
<1>1. /\ ~strict /\ pc = "done" /\ selected = Kept
      /\ NeedsExpansion => known = gathered
  BY DEF AgreeInv
<1>2. /\ gathered \in Seq(ToSet(Universe)) /\ ToSet(gathered) \subseteq ToSet(Universe)
      /\ ToSet(Universe) \subseteq Cluster
  BY SelectionAssumption, InSeqOfOwn DEF SelectionTypes, WalkTypes
<1>3. ToSet(out) = UNION {Denoted(patterns[i]) : i \in DOMAIN patterns}
  BY <1>1, Exact DEF ResolvesExactly
<1>4. ASSUME NEW i \in DOMAIN patterns, NEW c \in ToSet(gathered)
      PROVE  Matches(patterns[i], c) <=> FormatTarget(c) \in Denoted(patterns[i])
  <2>1. c \in ToSet(Universe) /\ c \in Cluster /\ patterns[i] \in Text
    BY <1>2, InputTypes DEF IInv
  <2>2. CASE IsExact(patterns[i])
    <3>1. Denoted(patterns[i]) = {patterns[i]}
      BY <2>2 DEF Denoted, Verbatim
    <3>. QED
      BY <2>1, <2>2, <3>1, ExactNames
  <2>3. CASE ~IsExact(patterns[i])
    <3>1. known = gathered
      BY <1>1, <2>3 DEF NeedsExpansion, Verbatim
    <3>2. Denoted(patterns[i]) =
            {FormatTarget(d) : d \in {x \in ToSet(gathered) : Matches(patterns[i], x)}}
      BY <1>1, <2>3, <3>1 DEF Denoted, Verbatim
    <3>. QED
      BY <1>2, <2>1, <3>2 DEF TargetsApart
  <2>. QED
    BY <2>2, <2>3
<1>5. \A c \in ToSet(gathered) : FormatTarget(c) \in ToSet(out) <=> c \in wanted
  BY <1>3, <1>4
<1>6. \A i \in 1 .. Len(gathered) : f[gathered[i]] \in ToSet(out) <=> gathered[i] \in wanted
  <2>1. \A i \in 1 .. Len(gathered) :
          gathered[i] \in ToSet(gathered) /\ gathered[i] \in ToSet(Universe)
    BY <1>2 DEF ToSet
  <2> HIDE DEF wanted
  <2>. QED
    BY <1>5, <2>1
<1>7. Chosen(gathered, wanted) \in Seq(ToSet(Universe))
  BY <1>2, ChosenMembers
<1> HIDE DEF wanted
<1>8. \A s \in Seq(ToSet(Universe)) : Targets(s) = [i \in DOMAIN s |-> f[s[i]]]
  BY DEF Targets
<1> HIDE DEF f
<1>9. Chosen([i \in DOMAIN gathered |-> f[gathered[i]]], ToSet(out)) =
        [i \in DOMAIN Chosen(gathered, wanted) |-> f[Chosen(gathered, wanted)[i]]]
  BY <1>2, <1>6, ChosenOfImage
<1>10. selected = Targets(Chosen(gathered, wanted))
  BY <1>1, <1>2, <1>7, <1>8, <1>9 DEF Kept
<1>. QED
  BY <1>10 DEF wanted

LEMMA PlainNamesApart == ASSUME PlainNames PROVE TargetsApart
<1> SUFFICES ASSUME NEW c \in ToSet(Universe), NEW d \in ToSet(Universe),
                    FormatTarget(c) = FormatTarget(d)
             PROVE  c = d
  BY DEF TargetsApart
<1>1. c \in Cluster /\ d \in Cluster
  BY SelectionAssumption, InSeqOfOwn
<1>2. /\ c.kubeconfig \in Seq(Segment) /\ c.context \in Seq(Segment)
      /\ c.namespace \in Seq(Segment) /\ c.name \in Seq(Segment)
      /\ d.kubeconfig \in Seq(Segment) /\ d.context \in Seq(Segment)
      /\ d.namespace \in Seq(Segment) /\ d.name \in Seq(Segment)
  BY <1>1 DEF Cluster, Text
<1>3. /\ Len(c.kubeconfig) = 1 /\ Len(c.namespace) = 1 /\ Len(c.name) = 1
      /\ Len(d.kubeconfig) = 1 /\ Len(d.namespace) = 1 /\ Len(d.name) = 1
  BY DEF PlainNames
<1> DEFINE u == c.kubeconfig \o c.context
           v == d.kubeconfig \o d.context
           y == c.namespace
           z == d.namespace
<1>4. /\ u \in Seq(Segment) /\ u \o c.namespace \in Seq(Segment)
      /\ v \in Seq(Segment) /\ v \o d.namespace \in Seq(Segment)
  BY <1>2, ConcatProperties
<1>5. u \o y = v \o z /\ c.name = d.name
  <2>1. /\ u \o y \in Seq(Segment) /\ v \o z \in Seq(Segment)
        /\ c.name \in Seq(Segment) /\ d.name \in Seq(Segment)
        /\ (u \o y) \o c.name = (v \o z) \o d.name
    BY <1>2, <1>4 DEF FormatTarget
  <2> DEFINE p == u \o y
             q == v \o z
             m == c.name
             l == d.name
  <2>2. /\ p \in Seq(Segment) /\ q \in Seq(Segment)
        /\ m \in Seq(Segment) /\ l \in Seq(Segment)
        /\ Len(m) = 1 /\ Len(l) = 1 /\ p \o m = q \o l
    BY <1>3, <2>1
  <2> HIDE DEF p, q, m, l
  <2>3. p = q /\ m = l
    BY <2>2, OneLast
  <2>. QED
    BY <2>3 DEF p, q, m, l
<1>6. u = v /\ y = z
  <2>1. /\ u \in Seq(Segment) /\ v \in Seq(Segment)
        /\ y \in Seq(Segment) /\ z \in Seq(Segment)
        /\ Len(y) = 1 /\ Len(z) = 1
    BY <1>2, <1>4, <1>3
  <2> HIDE DEF u, v, y, z
  <2>. QED
    BY <1>5, <2>1, OneLast
<1>7. c.kubeconfig = d.kubeconfig /\ c.context = d.context
  <2> DEFINE p == c.kubeconfig
             q == d.kubeconfig
             m == c.context
             l == d.context
  <2>1. /\ p \in Seq(Segment) /\ q \in Seq(Segment)
        /\ m \in Seq(Segment) /\ l \in Seq(Segment)
        /\ Len(p) = 1 /\ Len(q) = 1 /\ p \o m = q \o l
    BY <1>2, <1>6, <1>3
  <2> HIDE DEF p, q, m, l
  <2>2. p = q /\ m = l
    BY <2>1, OneFirst
  <2>. QED
    BY <2>2 DEF p, q, m, l
<1>. QED
  BY <1>1, <1>5, <1>6, <1>7 DEF Cluster

-----------------------------------------------------------------------------
(* The theorems about what is listed and shown.                               *)

LEMMA TypeInvs == SelectionSpec => [](IInv /\ SelectionTypes)
<1>1. SelectionInit => SelectionTypes
  BY InitTypes
<1>2. IInv /\ SelectionTypes /\ [SelectionNext]_selectionVars => SelectionTypes'
  BY NextTypes
<1>. QED
  BY <1>1, <1>2, SelectionInvs, PTL DEF SelectionSpec

(* Every reachable state of the handlers and of their walk is well typed     *)
(* (resolve.go: allResolvedClusters).                                         *)
THEOREM SelectionTypeCorrect == SelectionSpec => []SelectionTypeOK
<1>1. IInv /\ SelectionTypes => SelectionTypeOK
  BY DEF IInv, SelectionTypes, WorldTypes, HandlerTypes, WalkTypes, SelectionTypeOK
<1>. QED
  BY <1>1, TypeInvs, PTL

(* Every walk that ends has found each cluster of each place once, and misses *)
(* or makes up only what has come or gone since the oldest answer an entry    *)
(* may hold, however another request fills the cache meanwhile (resolve.go:   *)
(* listClustersCached).                                                       *)
THEOREM ListingsAreRecent ==
  ASSUME ContextsOnce
  PROVE  SelectionSpec => []ListingIsRecent
<1>1. SelectionInit => RecentInv
  BY InitRecentInv
<1>2. SelectionTypes /\ RecentInv /\ [SelectionNext]_selectionVars => RecentInv'
  BY NextStageInv, NextCacheInv, NextAheadInv, NextGatherInv DEF RecentInv
<1>3. SelectionTypes /\ RecentInv => ListingIsRecent
  <2> SUFFICES ASSUME SelectionTypes, GatherInv, step = "done" PROVE ListingIsRecent
    BY DEF RecentInv, ListingIsRecent
  <2>1. Ahead = {}
    BY DEF Ahead, Walking
  <2>2. /\ IsInjective(gathered)
        /\ \A c \in ToSet(gathered) : PlaceOf(c) \in Places
        /\ \A c \in ToSet(Universe) :
             PlaceOf(c) \in Places /\ (c \in ToSet(gathered)) # (c \in alive) =>
               Since(c, call.begun)
    BY <2>1 DEF GatherInv
  <2>3. ToSet(gathered) \subseteq ToSet(Universe)
    BY InSeqOfOwn DEF SelectionTypes, WalkTypes
  <2>. QED
    BY <2>2, <2>3 DEF ListingIsRecent, Reachable, PlaceOf, Since
<1>. QED
  BY <1>1, <1>2, <1>3, TypeInvs, PTL DEF SelectionSpec

(* Given patterns, list_clusters shows the clusters it found that one of them *)
(* names, in the order in which it found them (tools.go: ListClusters).       *)
THEOREM ShownIsWhatMatches ==
  ASSUME TargetsApart
  PROVE  SelectionSpec => []ListAgrees
<1>1. SelectionInit => AgreeInv
  BY InitAgreeInv
<1>2. HandlerInv /\ AgreeInv /\ [SelectionNext]_selectionVars => AgreeInv'
  BY NextAgreeInv
<1>3. IInv /\ SelectionTypes /\ AgreeInv => ListAgrees
  BY Agrees
<1>. QED
  BY <1>1, <1>2, <1>3, SelectionInvs, TypeInvs, PTL DEF SelectionSpec

(* Where names hold no slash, and no context is configured twice, both hold   *)
(* (target.go: FormatTarget).                                                 *)
COROLLARY PlainNamesSuffice ==
  ASSUME PlainNames, ContextsOnce
  PROVE  SelectionSpec => [](ListingIsRecent /\ ListAgrees)
BY PlainNamesApart, ListingsAreRecent, ShownIsWhatMatches, PTL
=============================================================================
