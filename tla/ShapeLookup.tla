---------------------------- MODULE ShapeLookup ----------------------------
(***************************************************************************)
(* How prepare finds the shapes of a kernel in a workload configuration,   *)
(* and how generate-context finds the earlier runs of a kernel             *)
(* (internal/commands/prepare.go and generate_context.go).                 *)
(*                                                                         *)
(* A name is the sequence of its parts between underscores: cuda_rms_v2 is *)
(* <<"cuda", "rms", "v2">>.  A prefix or suffix the code strips, appends   *)
(* or compares always ends at an underscore.                               *)
(***************************************************************************)
EXTENDS Integers, Sequences, FiniteSets

Tools == {"cuda", "triton"}
Versions == {"v2", "v3"}
Directions == <<"forward", "backward", "fwd", "bwd">>
NoKey == <<>>

Without(name, part) == IF Len(name) > 1 /\ Head(name) = part THEN Tail(name) ELSE name
WithoutEnd(name, part) ==
  IF Len(name) > 1 /\ name[Len(name)] = part THEN SubSeq(name, 1, Len(name) - 1) ELSE name

StripTool(name) ==
  IF Len(name) > 1 /\ Head(name) \in Tools THEN Tail(name) ELSE name
StripVersion(name) ==
  IF Len(name) > 1 /\ name[Len(name)] \in Versions
  THEN SubSeq(name, 1, Len(name) - 1) ELSE name

\* The names lookupShapeEntry tries, in order: as given, without the tool, and
\* then those without the version, the last one first.
Candidates(name) ==
  LET bare == StripTool(name)
      given == IF bare = name THEN <<name>> ELSE <<name, bare>>
      trimmed == IF bare = name THEN <<StripVersion(name)>>
                 ELSE <<StripVersion(bare), StripVersion(name)>>
  IN  IF StripVersion(name) = name THEN given ELSE given \o trimmed

\* The keys one candidate stands for, in order.
Spellings(name) == <<name>> \o [i \in 1..Len(Directions) |-> Append(name, Directions[i])]

Extends(key, name) == Len(key) > Len(name) /\ SubSeq(key, 1, Len(name)) = name

\* Mutant: no candidate without the version.
CandidatesVersioned(name) ==
  IF StripTool(name) = name THEN <<name>> ELSE <<name, StripTool(name)>>

\* lookupShapeEntry: the first spelling of the first candidate that is a key;
\* else the key that extends a candidate, if only one candidate extends to only
\* one key (a key that extends two candidates counts twice).
LookupKey(keys, name) ==
  LET tried == Candidates(name)
      hits == {h \in (1..Len(tried)) \X (1..5) : Spellings(tried[h[1]])[h[2]] \in keys}
      first == CHOOSE h \in hits :
                 \A k \in hits : h[1] < k[1] \/ (h[1] = k[1] /\ h[2] <= k[2])
      longer == {m \in (1..Len(tried)) \X keys : Extends(m[2], tried[m[1]])}
  IN  IF hits # {} THEN Spellings(tried[first[1]])[first[2]]
      ELSE IF Cardinality(longer) = 1 THEN (CHOOSE m \in longer : TRUE)[2]
      ELSE NoKey

\* normalizeKernelNameForMatch.
Normalize(name) ==
  LET bare == Without(Without(name, "cuda"), "triton") IN
  WithoutEnd(WithoutEnd(WithoutEnd(WithoutEnd(bare, "forward"), "backward"), "fwd"), "bwd")

(***************************************************************************)
(* expandShapeConfigs.  An entry has the sizes of its dimensions and, for  *)
(* some, the bounds they vary in; a bound that is not positive is absent.  *)
(* The order of the configurations follows the iteration of a Go map.      *)
(***************************************************************************)
Size(entry, d) == IF d \in DOMAIN entry.dims THEN entry.dims[d] ELSE 0

WithSize(dims, d, n) == [e \in DOMAIN dims \cup {d} |-> IF e = d THEN n ELSE dims[e]]

ExpandShapeConfigs(entry) ==
  {[label |-> <<"nominal">>, dims |-> entry.dims]}
  \cup {[label |-> <<d, "min">>, dims |-> WithSize(entry.dims, d, entry.range[d].min)] :
          d \in {e \in DOMAIN entry.range : /\ entry.range[e].min > 0
                                            /\ entry.range[e].min # Size(entry, e)}}
  \cup {[label |-> <<d, "max">>, dims |-> WithSize(entry.dims, d, entry.range[d].max)] :
          d \in {e \in DOMAIN entry.range : /\ entry.range[e].max > 0
                                            /\ entry.range[e].max # Size(entry, e)}}
=============================================================================
