---------------------------- MODULE TargetPatterns ----------------------------
(* How a tool's "clusters" argument becomes a list of targets:                *)
(* ResolveClusterPatterns and what it uses (internal/capi/target.go,          *)
(* target_pattern.go, resolve_patterns.go).                                   *)
(*                                                                            *)
(* A string is the sequence of its slash-separated segments, so that          *)
(* strings.Join(.., "/") is concatenation and strings.Split(.., "/") is the   *)
(* sequence itself.  A cluster's field is a string of its own: a context name *)
(* may hold slashes.                                                          *)
EXTENDS Naturals, SequencesExt

CONSTANTS
  Segment,     \* what stands between slashes
  Empty,       \* the empty segment
  Requests,    \* the "clusters" arguments callers pass
  Listings     \* the answers listKnown may give

ASSUME SegmentAssumption == Empty \in Segment
ASSUME RequestsAssumption == Requests \subseteq Seq(Seq(Segment) \ {<<>>})

Text == Seq(Segment) \ {<<>>}
Cluster == [kubeconfig : Text, context : Text, namespace : Text, name : Text]
ASSUME ListingsAssumption == Listings \subseteq Seq(Cluster)

-----------------------------------------------------------------------------
(* target.go and target_pattern.go.                                           *)

FormatTarget(c) == c.kubeconfig \o c.context \o c.namespace \o c.name

ParsesAsTarget(s) == Len(s) = 4

ParsesAsPattern(s) == Len(s) <= 4 /\ Empty \notin ToSet(s)

(* Of a parsed pattern: the fields of TargetPattern are its segments, those  *)
(* it lacks are wildcards.                                                   *)
IsExact(p) == Len(p) = 4

Field(c, i) ==
  CASE i = 1 -> c.kubeconfig [] i = 2 -> c.context
    [] i = 3 -> c.namespace  [] i = 4 -> c.name

Matches(p, c) == \A i \in DOMAIN p : Field(c, i) = <<p[i]>>

-----------------------------------------------------------------------------
(* resolve_patterns.go.                                                       *)

VARIABLES
  pc,          \* where ResolveClusterPatterns is
  strict,      \* its arguments
  patterns,
  listings,    \* how often listKnown was called
  known,       \* what it returned
  n, j,        \* the loops over the patterns and over the known clusters
  out          \* the targets collected so far

vars == <<pc, strict, patterns, listings, known, n, j, out>>

Init ==
  /\ pc = "check"
  /\ strict \in BOOLEAN
  /\ patterns \in Requests
  /\ listings = 0
  /\ known = <<>>
  /\ n = 1 /\ j = 1
  /\ out = <<>>

Acceptable(p) == IF strict THEN ParsesAsTarget(p) ELSE ParsesAsPattern(p)

(* Resolved as it stands, without looking at the known clusters.             *)
Verbatim(p) == strict \/ IsExact(p)

AllAcceptable == \A i \in DOMAIN patterns : Acceptable(patterns[i])

AlwaysNeeded == TRUE
NeedsExpansion == \E i \in DOMAIN patterns : ~Verbatim(patterns[i])

(* One bad pattern fails the call before anything is listed.                 *)
Reject ==
  /\ pc = "check" /\ ~AllAcceptable
  /\ pc' = "error"
  /\ UNCHANGED <<strict, patterns, listings, known, n, j, out>>

Accept ==
  /\ pc = "check" /\ AllAcceptable
  /\ pc' = IF NeedsExpansion THEN "list" ELSE "resolve"
  /\ UNCHANGED <<strict, patterns, listings, known, n, j, out>>

(* listKnown fails, or returns every cluster it knows.                       *)
ListKnown ==
  /\ pc = "list"
  /\ listings' = listings + 1
  /\ \/ pc' = "error" /\ UNCHANGED known
     \/ pc' = "resolve" /\ known' \in Listings
  /\ UNCHANGED <<strict, patterns, n, j, out>>

MoveToEnd(t) ==
  out' = IF t \in ToSet(out) THEN Append(Remove(out, t), t) ELSE Append(out, t)
AppendNew(t) ==
  out' = IF t \in ToSet(out) THEN out ELSE Append(out, t)

AtPattern == pc = "resolve" /\ n <= Len(patterns)

ResolveVerbatim ==
  /\ AtPattern
  /\ Verbatim(patterns[n])
  /\ AppendNew(patterns[n])
  /\ n' = n + 1
  /\ UNCHANGED <<pc, strict, patterns, listings, known, j>>

(* ExpandTargetPattern, and the deduplication of what it returns, for one    *)
(* known cluster.                                                            *)
ResolveKnown ==
  /\ AtPattern
  /\ ~Verbatim(patterns[n])
  /\ j <= Len(known)
  /\ IF Matches(patterns[n], known[j])
       THEN AppendNew(FormatTarget(known[j]))
       ELSE UNCHANGED out
  /\ j' = j + 1
  /\ UNCHANGED <<pc, strict, patterns, listings, known, n>>

RewoundToZero == 0
NotRewound == j
Rewound == 1

NextPattern ==
  /\ AtPattern
  /\ ~Verbatim(patterns[n])
  /\ j > Len(known)
  /\ n' = n + 1
  /\ j' = Rewound
  /\ UNCHANGED <<pc, strict, patterns, listings, known, out>>

Return ==
  /\ pc = "resolve"
  /\ n > Len(patterns)
  /\ pc' = "done"
  /\ UNCHANGED <<strict, patterns, listings, known, n, j, out>>

Next ==
  \/ Reject \/ Accept \/ ListKnown
  \/ ResolveVerbatim \/ ResolveKnown \/ NextPattern \/ Return

Spec == Init /\ [][Next]_vars

-----------------------------------------------------------------------------
(* Correctness.                                                               *)

(* Every variable keeps its type (ResolveClusterPatterns' locals).           *)
TypeOK ==
  /\ pc \in {"check", "list", "resolve", "done", "error"}
  /\ strict \in BOOLEAN
  /\ patterns \in Requests
  /\ listings \in Nat
  /\ known \in Listings \cup {<<>>}
  /\ n \in Nat \ {0} /\ j \in Nat \ {0}
  /\ out \in Seq(Text)

(* The targets a pattern stands for.                                         *)
Denoted(p) ==
  IF Verbatim(p) THEN {p}
  ELSE {FormatTarget(c) : c \in {d \in ToSet(known) : Matches(p, d)}}

(* The result is the targets the patterns stand for, none missing and none   *)
(* besides, each once (resolve_patterns.go: "deduplicated exact composite    *)
(* target strings").                                                         *)
ResolvesExactly ==
  /\ IsInjective(out)
  /\ pc = "done" =>
       ToSet(out) = UNION {Denoted(patterns[i]) : i \in DOMAIN patterns}

(* Where a target is named: by which pattern, and which of the known clusters *)
(* that it fits.  Naming is ordered by patterns, and for each by clusters.   *)
NamedAt(t, i, k) ==
  IF Verbatim(patterns[i])
    THEN k = 1 /\ t = patterns[i]
    ELSE k \in DOMAIN known /\ Matches(patterns[i], known[k])
                            /\ t = FormatTarget(known[k])
Earlier(i, k, i2, k2) == i < i2 \/ (i = i2 /\ k < k2)

(* The targets come in the order in which the patterns, and for each of them *)
(* the known clusters, first name them ("first-seen order").                 *)
FirstSeenOrder ==
  pc = "done" =>
    \A x, y \in DOMAIN out : x < y =>
      \E i \in DOMAIN patterns, k \in DOMAIN known \cup {1} :
        /\ NamedAt(out[x], i, k)
        /\ \A i2 \in DOMAIN patterns, k2 \in DOMAIN known \cup {1} :
             NamedAt(out[y], i2, k2) => Earlier(i, k, i2, k2)

(* Strict mode never widens what the caller named and never lists; lenient   *)
(* mode lists at most once, and only for a pattern that needs it ("a partial *)
(* pattern never silently expands into an unintended blast radius").         *)
NeverWidens ==
  /\ strict => ToSet(out) \subseteq ToSet(patterns)
  /\ listings <= IF strict \/ ~NeedsExpansion THEN 0 ELSE 1
=============================================================================
