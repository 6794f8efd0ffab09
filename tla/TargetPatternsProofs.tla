------------------------- MODULE TargetPatternsProofs -------------------------
(* Theorems about TargetPatterns for every set of segments, every argument    *)
(* and every answer of listKnown.                                             *)
EXTENDS TargetPatterns, SequenceTheorems, TLAPS

(* The targets of the first m known clusters that a pattern stands for.       *)
FoundBefore(p, m) ==
  {FormatTarget(known[i]) :
     i \in {k \in 1 .. Len(known) : k < m /\ Matches(p, known[k])}}

(* What the loops have gone through, before pattern n and known cluster j.    *)
Finished ==
  UNION {Denoted(patterns[i]) : i \in {k \in 1 .. Len(patterns) : k < n}}
Partial ==
  IF n <= Len(patterns) /\ ~Verbatim(patterns[n])
    THEN FoundBefore(patterns[n], j) ELSE {}
Visited == Finished \cup Partial

LoopInv ==
  /\ pc \in {"check", "list"} => n = 1 /\ j = 1 /\ out = <<>>
  /\ n <= Len(patterns) + 1
  /\ j <= Len(known) + 1
  /\ n > Len(patterns) \/ Verbatim(patterns[n]) => j = 1
  /\ pc = "done" => n = Len(patterns) + 1

OutInv ==
  /\ IsInjective(out)
  /\ ToSet(out) = Visited

IInv == TypeOK /\ LoopInv /\ OutInv

ListInv ==
  /\ pc \in {"check", "list"} => listings = 0
  /\ pc = "list" => ~strict /\ NeedsExpansion
  /\ listings = 0 \/ (listings = 1 /\ ~strict /\ NeedsExpansion)

LEMMA InputTypes ==
  ASSUME TypeOK
  PROVE  /\ patterns \in Seq(Text)
         /\ known \in Seq(Cluster)
         /\ Len(patterns) \in Nat /\ Len(known) \in Nat
<1>1. patterns \in Seq(Text)
  BY RequestsAssumption DEF TypeOK, Text
<1>2. known \in Seq(Cluster)
  <2>1. <<>> \in Seq(Cluster)
    OBVIOUS
  <2>. QED
    BY <2>1, ListingsAssumption DEF TypeOK
<1>. QED
  BY <1>1, <1>2

LEMMA FormatIsText == \A c \in Cluster : FormatTarget(c) \in Text
<1>1. \A s, t \in Text : s \o t \in Text
  BY DEF Text
<1>. QED
  BY <1>1 DEF FormatTarget, Cluster

LEMMA AppendNewAddsOne ==
  ASSUME out \in Seq(Text), NEW t \in Text, AppendNew(t)
  PROVE  /\ out' \in Seq(Text)
         /\ ToSet(out') = ToSet(out) \cup {t}
         /\ IsInjective(out) => IsInjective(out')
BY DEF AppendNew, ToSet, IsInjective

LEMMA InitIInv == Init => IInv
BY RequestsAssumption
DEF Init, IInv, TypeOK, LoopInv, OutInv, Visited, Finished, Partial,
    FoundBefore, IsInjective, ToSet

LEMMA NextIInv == IInv /\ [Next]_vars => IInv'
<1> SUFFICES ASSUME IInv, [Next]_vars PROVE IInv'
  OBVIOUS
<1> USE InputTypes DEF IInv, TypeOK, LoopInv, OutInv
<1>1. CASE Reject
  <2>1. Visited' = Visited
    BY <1>1 DEF Reject, Visited, Finished, Partial, FoundBefore, Denoted,
                Verbatim
  <2>. QED
    BY <1>1, <2>1 DEF Reject, Verbatim
<1>2. CASE Accept
  <2>1. Visited' = Visited
    BY <1>2 DEF Accept, Visited, Finished, Partial, FoundBefore, Denoted,
                Verbatim
  <2>. QED
    BY <1>2, <2>1 DEF Accept
<1>3. CASE ListKnown
  <2>1. Visited = {} /\ Visited' = {}
    BY <1>3 DEF ListKnown, Visited, Finished, Partial, FoundBefore
  <2>. QED
    BY <1>3, <2>1, ListingsAssumption DEF ListKnown, ToSet
<1>4. CASE ResolveVerbatim
  <2>1. patterns[n] \in Text
    BY <1>4 DEF ResolveVerbatim, AtPattern
  <2>2. Visited' = Visited \cup {patterns[n]}
    BY <1>4, SMTT(30)
    DEF ResolveVerbatim, AtPattern, Visited, Finished, Partial, FoundBefore,
        Denoted, Verbatim
  <2>. QED
    BY <1>4, <2>1, <2>2, AppendNewAddsOne DEF ResolveVerbatim, AtPattern
<1>5. CASE ResolveKnown
  <2>1. known[j] \in Cluster /\ FormatTarget(known[j]) \in Text
    BY <1>5, FormatIsText DEF ResolveKnown, AtPattern
  <2>2. Visited' = Visited \cup (IF Matches(patterns[n], known[j])
                                   THEN {FormatTarget(known[j])} ELSE {})
    <3>1. FoundBefore(patterns[n], j + 1) =
            FoundBefore(patterns[n], j) \cup
              (IF Matches(patterns[n], known[j])
                 THEN {FormatTarget(known[j])} ELSE {})
      <4>1. {k \in 1 .. Len(known) :
               k < j + 1 /\ Matches(patterns[n], known[k])} =
            {k \in 1 .. Len(known) :
               k < j /\ Matches(patterns[n], known[k])} \cup
            (IF Matches(patterns[n], known[j]) THEN {j} ELSE {})
        BY <1>5 DEF ResolveKnown
      <4>. QED
        BY <4>1 DEF FoundBefore
    <3>2. /\ FoundBefore(patterns[n], j)' = FoundBefore(patterns[n], j + 1)
          /\ Finished' = Finished
      BY <1>5 DEF ResolveKnown, FoundBefore, Finished, Denoted, Verbatim
    <3>. QED
      BY <1>5, <3>1, <3>2 
      DEF ResolveKnown, AtPattern, Visited, Partial, Verbatim
  <2>. QED
    BY <1>5, <2>1, <2>2, AppendNewAddsOne
    DEF ResolveKnown, AtPattern, Verbatim
<1>6. CASE NextPattern
  <2>1. FoundBefore(patterns[n], j) = Denoted(patterns[n])
    BY <1>6, SMTT(30) DEF NextPattern, AtPattern, FoundBefore, Denoted, ToSet
  <2>2. Finished' = Finished \cup Denoted(patterns[n])
    <3>1. {k \in 1 .. Len(patterns) : k < n + 1} =
            {k \in 1 .. Len(patterns) : k < n} \cup {n}
      BY <1>6 DEF NextPattern, AtPattern
    <3>2. Finished' = UNION {Denoted(patterns[i]) :
                        i \in {k \in 1 .. Len(patterns) : k < n + 1}}
      BY <1>6 DEF NextPattern, Finished, Denoted, Verbatim
    <3>. QED
      BY <3>1, <3>2 DEF Finished
  <2>3. Partial = Denoted(patterns[n]) /\ Partial' = {}
    BY <1>6, <2>1
    DEF NextPattern, AtPattern, Partial, FoundBefore, Verbatim, Rewound
  <2>. QED
    BY <1>6, <2>2, <2>3 DEF NextPattern, AtPattern, Rewound, Visited
<1>7. CASE Return
  <2>1. Visited' = Visited
    BY <1>7 DEF Return, Visited, Finished, Partial, FoundBefore, Denoted,
                Verbatim
  <2>. QED
    BY <1>7, <2>1 DEF Return
<1>8. CASE UNCHANGED vars
  <2>1. Visited' = Visited
    BY <1>8 DEF vars, Visited, Finished, Partial, FoundBefore, Denoted, Verbatim
  <2>. QED
    BY <1>8, <2>1 DEF vars, Verbatim
<1>. QED
  BY <1>1, <1>2, <1>3, <1>4, <1>5, <1>6, <1>7, <1>8 DEF Next

LEMMA SpecIInv == Spec => []IInv
BY InitIInv, NextIInv, PTL DEF Spec

(* Every reachable state of ResolveClusterPatterns is well typed.             *)
THEOREM TypeCorrect == Spec => []TypeOK
<1>1. IInv => TypeOK
  BY DEF IInv
<1>. QED
  BY <1>1, SpecIInv, PTL

LEMMA Exact == IInv => ResolvesExactly
<1> SUFFICES ASSUME IInv PROVE ResolvesExactly
  OBVIOUS
<1>1. CASE pc = "done"
  <2>1. {k \in 1 .. Len(patterns) : k < n} = DOMAIN patterns
    <3>1. n = Len(patterns) + 1 /\ Len(patterns) \in Nat
      BY <1>1, InputTypes DEF IInv, LoopInv
    <3>2. DOMAIN patterns = 1 .. Len(patterns)
      BY InputTypes DEF IInv
    <3>. QED
      BY <3>1, <3>2
  <2>2. Partial = {}
    BY <1>1, InputTypes DEF IInv, LoopInv, Partial
  <2>3. Visited = UNION {Denoted(patterns[i]) : i \in DOMAIN patterns}
    BY <2>1, <2>2 DEF Visited, Finished
  <2>. QED
    BY <1>1, <2>3 DEF IInv, OutInv, ResolvesExactly
<1>2. CASE pc # "done"
  BY <1>2 DEF IInv, OutInv, ResolvesExactly
<1>. QED
  BY <1>1, <1>2

(* The result is the targets the patterns stand for, each once, for every     *)
(* argument and every answer of listKnown (resolve_patterns.go).              *)
THEOREM ResolutionIsExact == Spec => []ResolvesExactly
BY Exact, SpecIInv, PTL

LEMMA InitListInv == Init => ListInv
BY DEF Init, ListInv

LEMMA NextListInv == ListInv /\ [Next]_vars => ListInv'
<1> SUFFICES ASSUME ListInv, [Next]_vars PROVE ListInv'
  OBVIOUS
<1>1. CASE Accept
  BY <1>1 DEF Accept, ListInv, NeedsExpansion, Verbatim
<1>2. CASE ListKnown
  BY <1>2 DEF ListKnown, ListInv, NeedsExpansion, Verbatim
<1>3. CASE \/ Reject \/ ResolveVerbatim \/ ResolveKnown \/ NextPattern
           \/ Return \/ UNCHANGED vars
  BY <1>3 DEF Reject, ResolveVerbatim, ResolveKnown, NextPattern, Return,
              AtPattern, vars, ListInv, NeedsExpansion, Verbatim
<1>. QED
  BY <1>1, <1>2, <1>3 DEF Next

LEMMA SpecListInv == Spec => []ListInv
BY InitListInv, NextListInv, PTL DEF Spec

LEMMA NotWidened == IInv /\ ListInv => NeverWidens
<1> SUFFICES ASSUME IInv, ListInv PROVE NeverWidens
  OBVIOUS
<1>1. ASSUME strict PROVE ToSet(out) \subseteq ToSet(patterns)
  <2>1. Partial = {} /\ \A p : Denoted(p) = {p}
    BY <1>1 DEF Partial, Denoted, Verbatim
  <2>2. Finished \subseteq ToSet(patterns)
    BY <2>1, InputTypes DEF IInv, Finished, ToSet
  <2>. QED
    BY <2>1, <2>2 DEF IInv, OutInv, Visited
<1>2. listings <= IF strict \/ ~NeedsExpansion THEN 0 ELSE 1
  BY DEF ListInv
<1>. QED
  BY <1>1, <1>2 DEF NeverWidens

(* Strict mode passes on only what the caller wrote and never lists, lenient  *)
(* mode lists at most once and only if it has to (resolve_patterns.go).       *)
THEOREM ScopeIsNeverWidened == Spec => []NeverWidens
BY NotWidened, SpecIInv, SpecListInv, PTL

-----------------------------------------------------------------------------
(* The order of the targets.                                                  *)

(* What the loops have passed is named before where they are.                *)
Passed(t) ==
  \E i \in DOMAIN patterns, k \in DOMAIN known \cup {1} :
    NamedAt(t, i, k) /\ Earlier(i, k, n, j)

FirstBefore(t, u) ==
  \E i \in DOMAIN patterns, k \in DOMAIN known \cup {1} :
    /\ NamedAt(t, i, k)
    /\ \A i2 \in DOMAIN patterns, k2 \in DOMAIN known \cup {1} :
         NamedAt(u, i2, k2) => Earlier(i, k, i2, k2)

OrderInv == \A x, y \in DOMAIN out : x < y => FirstBefore(out[x], out[y])

LEMMA CollectedIsPassed == IInv => \A t : t \in ToSet(out) <=> Passed(t)
<1> SUFFICES ASSUME IInv, NEW t PROVE t \in Visited <=> Passed(t)
  BY DEF IInv, OutInv
<1> USE InputTypes DEF IInv, TypeOK, LoopInv
<1>1. ASSUME Passed(t) PROVE t \in Visited
  <2>1. PICK i \in DOMAIN patterns, k \in DOMAIN known \cup {1} :
          NamedAt(t, i, k) /\ Earlier(i, k, n, j)
    BY <1>1 DEF Passed
  <2>2. CASE i < n
    <3>1. t \in Denoted(patterns[i])
      BY <2>1 DEF NamedAt, Denoted, ToSet
    <3>2. i \in {m \in 1 .. Len(patterns) : m < n}
      BY <2>2
    <3>. QED
      BY <3>1, <3>2, Zenon DEF Visited, Finished
  <2>3. CASE i = n /\ k < j
    <3>1. ~Verbatim(patterns[n]) /\ n <= Len(patterns)
      BY <2>1, <2>3 DEF NamedAt
    <3>2. t \in FoundBefore(patterns[n], j)
      BY <2>1, <2>3, <3>1 DEF NamedAt, FoundBefore
    <3>. QED
      BY <3>1, <3>2 DEF Visited, Partial
  <2>. QED
    BY <2>1, <2>2, <2>3 DEF Earlier
<1>2. ASSUME t \in Finished PROVE Passed(t)
  <2>1. PICK i \in DOMAIN patterns : i < n /\ t \in Denoted(patterns[i])
    BY <1>2 DEF Finished
  <2>2. \E k \in DOMAIN known \cup {1} : NamedAt(t, i, k)
    BY <2>1 DEF Denoted, NamedAt, ToSet
  <2>. QED
    BY <2>1, <2>2 DEF Passed, Earlier
<1>3. ASSUME t \in Partial PROVE Passed(t)
  <2>1. n \in DOMAIN patterns /\ ~Verbatim(patterns[n])
    BY <1>3 DEF Partial
  <2>2. PICK k \in DOMAIN known : k < j /\ NamedAt(t, n, k)
    BY <1>3, <2>1 DEF Partial, FoundBefore, NamedAt
  <2>. QED
    BY <2>1, <2>2 DEF Passed, Earlier
<1>. QED
  BY <1>1, <1>2, <1>3 DEF Visited

LEMMA AppendKeepsOrder ==
  ASSUME IInv, OrderInv, NEW t, AppendNew(t),
         n \in DOMAIN patterns, j \in DOMAIN known \cup {1}, NamedAt(t, n, j),
         UNCHANGED <<strict, patterns, known>>
  PROVE  OrderInv'
<1>1. \A u, v : FirstBefore(u, v)' <=> FirstBefore(u, v)
  BY DEF FirstBefore, NamedAt, Verbatim
<1>2. CASE t \in ToSet(out)
  BY <1>1, <1>2 DEF AppendNew, OrderInv
<1>3. CASE t \notin ToSet(out)
  <2>1. out' = Append(out, t) /\ out \in Seq(Text) /\ Len(out) \in Nat
    BY <1>3 DEF AppendNew, IInv, TypeOK
  <2>2. ASSUME NEW x \in DOMAIN out PROVE FirstBefore(out[x], t)
    <3>1. PICK i \in DOMAIN patterns, k \in DOMAIN known \cup {1} :
            NamedAt(out[x], i, k) /\ Earlier(i, k, n, j)
      <4>1. out[x] \in ToSet(out)
        BY DEF ToSet
      <4>. QED
        BY <4>1, CollectedIsPassed DEF Passed
    <3>2. ASSUME NEW i2 \in DOMAIN patterns, NEW k2 \in DOMAIN known \cup {1},
                 NamedAt(t, i2, k2)
          PROVE  Earlier(i, k, i2, k2)
      <4>1. ~Earlier(i2, k2, n, j)
        BY <1>3, <3>2, CollectedIsPassed DEF Passed
      <4>2. {i, i2, n} \subseteq Int /\ {k, k2, j} \subseteq Int
        BY InputTypes DEF IInv, TypeOK
      <4>. QED
        BY <3>1, <4>1, <4>2 DEF Earlier
    <3>. QED
      BY <3>1, <3>2 DEF FirstBefore
  <2>3. ASSUME NEW x \in DOMAIN out', NEW y \in DOMAIN out', x < y
        PROVE  FirstBefore(out'[x], out'[y])
    <3>1. x \in DOMAIN out /\ out'[x] = out[x]
      BY <2>1, <2>3
    <3>2. \/ y \in DOMAIN out /\ out'[y] = out[y]
          \/ out'[y] = t
      BY <2>1, <2>3
    <3>. QED
      BY <2>2, <2>3, <3>1, <3>2 DEF OrderInv
  <2>. QED
    BY <1>1, <2>3 DEF OrderInv
<1>. QED
  BY <1>2, <1>3

LEMMA NextOrderInv == IInv /\ OrderInv /\ [Next]_vars => OrderInv'
<1> SUFFICES ASSUME IInv, OrderInv, [Next]_vars PROVE OrderInv'
  OBVIOUS
<1>1. ASSUME UNCHANGED <<strict, patterns, known, out>> PROVE OrderInv'
  BY <1>1 DEF OrderInv, FirstBefore, NamedAt, Verbatim
<1>2. CASE ListKnown
  <2>1. out' = <<>>
    BY <1>2 DEF ListKnown, IInv, LoopInv
  <2>. QED
    BY <2>1 DEF OrderInv
<1>3. CASE ResolveVerbatim
  <2>1. NamedAt(patterns[n], n, j)
    BY <1>3 DEF ResolveVerbatim, NamedAt, IInv, LoopInv
  <2>2. n \in DOMAIN patterns /\ j \in DOMAIN known \cup {1}
    BY <1>3, InputTypes
    DEF ResolveVerbatim, AtPattern, IInv, LoopInv, TypeOK
  <2>. QED
    BY <1>3, <2>1, <2>2, AppendKeepsOrder DEF ResolveVerbatim
<1>4. CASE ResolveKnown
  <2>1. n \in DOMAIN patterns /\ j \in DOMAIN known
    BY <1>4, InputTypes DEF ResolveKnown, AtPattern, IInv, TypeOK
  <2>2. CASE Matches(patterns[n], known[j])
    <3>1. NamedAt(FormatTarget(known[j]), n, j)
      BY <1>4, <2>1, <2>2 DEF ResolveKnown, NamedAt
    <3>. QED
      BY <1>4, <2>1, <2>2, <3>1, AppendKeepsOrder DEF ResolveKnown
  <2>3. CASE ~Matches(patterns[n], known[j])
    BY <1>1, <1>4, <2>3 DEF ResolveKnown
  <2>. QED
    BY <2>2, <2>3
<1>. QED
  BY <1>1, <1>2, <1>3, <1>4
  DEF Next, Reject, Accept, NextPattern, Return, vars

LEMMA InitOrderInv == Init => OrderInv
BY DEF Init, OrderInv

LEMMA Ordered == OrderInv => FirstSeenOrder
BY DEF OrderInv, FirstBefore, FirstSeenOrder

(* The targets keep the order in which patterns and known clusters first name *)
(* them, however patterns overlap or repeat each other ("first-seen order",   *)
(* resolve_patterns.go).                                                      *)
THEOREM OrderIsFirstSeen == Spec => []FirstSeenOrder
BY InitOrderInv, NextOrderInv, SpecIInv, Ordered, PTL DEF Spec
=============================================================================
