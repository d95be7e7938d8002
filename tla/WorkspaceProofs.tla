--------------------------- MODULE WorkspaceProofs ---------------------------
(***************************************************************************)
(* What prepare and patch leave behind, for any number of roots, kernels,  *)
(* shapes, patches and commands.                                           *)
(***************************************************************************)
EXTENDS Workspace, NaturalsInduction, FiniteSetTheorems, SequenceTheorems, TLAPS

-----------------------------------------------------------------------------
(***************************************************************************)
(* The patch pipeline.                                                     *)
(***************************************************************************)
\* A patch the checks have passed still applies where nothing has changed.
PatchInv ==
  /\ PatchTypeOK
  /\ qpc = "verify" /\ "failed" \notin passed =>
       \A p \in patches : p.name \in todo \/ p.at \in changed \/ Applies(p)
  /\ ApplyIsChecked

LEMMA PatchesTyped ==
  ASSUME PatchInv, NEW p \in patches
  PROVE  /\ p \in PatchFile /\ p.name \in PatchName /\ p.at \in Stretch
         /\ p.old \in Content /\ p.new \in Content
BY DEF PatchInv, PatchTypeOK, PatchFile

LEMMA StartPatchKeeps ==
  ASSUME PatchInv, StartPatch
  PROVE  PatchInv'
<1>1. /\ qpc' = "generate" /\ mode' \in Modes
      /\ UNCHANGED <<tree, patches, todo, passed, changed>>
  BY DEF StartPatch
<1>2. PatchTypeOK' BY <1>1 DEF PatchInv, PatchTypeOK
<1> QED BY <1>1, <1>2 DEF PatchInv, ApplyIsChecked

LEMMA EditKeeps ==
  ASSUME PatchInv, Edit
  PROVE  PatchInv'
<1>1. PICK f \in [Stretch -> Content] :
        tree' = f /\ changed' = changed \cup {s \in Stretch : f[s] # tree[s]}
  BY DEF Edit
<1>2. UNCHANGED <<qpc, mode, patches, todo, passed>> BY DEF Edit
<1>3. PatchTypeOK' BY <1>1, <1>2 DEF PatchInv, PatchTypeOK
<1>4. ASSUME NEW p \in patches, p.at \notin changed'
      PROVE  p.at \notin changed /\ (Applies(p)' <=> Applies(p))
  BY <1>1, <1>2, <1>4, PatchesTyped DEF Applies
<1>5. \A p \in patches : Applies(p)' <=> tree'[p.at] = p.old BY DEF Applies
<1> QED BY <1>2, <1>3, <1>4, <1>5 DEF PatchInv, ApplyIsChecked

LEMMA GenerateKeeps ==
  ASSUME PatchInv, Generate
  PROVE  PatchInv'
<1>1. PICK names \in SUBSET PatchName :
        \E made \in [names -> {p \in [at : Stretch, new : Content] : p.new # tree[p.at]}] :
          patches' = {p \in patches : p.name \notin names}
                     \cup {[name |-> n, at |-> made[n].at, old |-> tree[made[n].at],
                            new |-> made[n].new] : n \in names}
  BY DEF Generate
<1>2. PICK made \in [names -> {p \in [at : Stretch, new : Content] : p.new # tree[p.at]}] :
        patches' = {p \in patches : p.name \notin names}
                   \cup {[name |-> n, at |-> made[n].at, old |-> tree[made[n].at],
                          new |-> made[n].new] : n \in names}
  BY <1>1
<1> DEFINE New(n) == [name |-> n, at |-> made[n].at, old |-> tree[made[n].at], new |-> made[n].new]
<1>3. tree \in [Stretch -> Content] /\ patches \subseteq PatchFile BY DEF PatchInv, PatchTypeOK
<1>4. ASSUME NEW n \in names PROVE New(n) \in PatchFile /\ New(n).name = n
  <2>1. made[n] \in [at : Stretch, new : Content] BY <1>2
  <2>2. made[n].at \in Stretch /\ made[n].new \in Content BY <2>1
  <2>3. n \in PatchName /\ tree[made[n].at] \in Content BY <1>1, <1>3, <2>2
  <2> QED BY <2>2, <2>3 DEF PatchFile
<1>5. patches' = {p \in patches : p.name \notin names} \cup {New(n) : n \in names} BY <1>2
<1> HIDE DEF New
<1>6. \A p \in patches' : \/ p \in patches /\ p.name \notin names
                          \/ p.name \in names /\ p = New(p.name)
  BY <1>4, <1>5
<1>7. \A p \in patches' : p \in PatchFile BY <1>3, <1>4, <1>6
<1>8. \A p, q \in patches' : p.name = q.name => p = q BY <1>6 DEF PatchInv, PatchTypeOK
<1>9. /\ qpc' \in {"idle", "verify"} /\ todo' = {p.name : p \in patches'} /\ passed' = {}
      /\ changed' = {} /\ UNCHANGED <<mode, tree>>
  BY DEF Generate
<1>10. todo' \in SUBSET PatchName BY <1>7, <1>9 DEF PatchFile
<1>11. PatchTypeOK' BY <1>7, <1>8, <1>9, <1>10 DEF PatchInv, PatchTypeOK
<1>12. \A p \in patches' : p.name \in todo' BY <1>9
<1> QED BY <1>9, <1>11, <1>12 DEF PatchInv, ApplyIsChecked

LEMMA VerifyNextKeeps ==
  ASSUME PatchInv, VerifyNext
  PROVE  PatchInv'
<1>1. PICK p \in patches :
        /\ p.name \in todo
        /\ todo' = todo \ {p.name}
        /\ passed' = passed \cup {IF Applies(p) THEN "passed" ELSE "failed"}
  BY DEF VerifyNext
<1>2. qpc = "verify" /\ UNCHANGED <<qpc, mode, tree, patches, changed>> BY DEF VerifyNext
<1>3. PatchTypeOK' BY <1>1, <1>2 DEF PatchInv, PatchTypeOK
<1>4. ASSUME "failed" \notin passed', NEW q \in patches
      PROVE  q.name \in todo' \/ q.at \in changed \/ Applies(q)
  <2>1. Applies(p) /\ "failed" \notin passed BY <1>1, <1>4
  <2>2. q.name \in todo \/ q.at \in changed \/ Applies(q) BY <1>2, <1>4, <2>1 DEF PatchInv
  <2>3. q.name = p.name => q = p BY DEF PatchInv, PatchTypeOK
  <2> QED BY <1>1, <2>1, <2>2, <2>3
<1>5. \A q \in patches : Applies(q)' <=> Applies(q) BY <1>2 DEF Applies
<1> QED BY <1>2, <1>3, <1>4, <1>5 DEF PatchInv, ApplyIsChecked

LEMMA VerifiedKeeps ==
  ASSUME PatchInv, Verified
  PROVE  PatchInv'
<1>1. /\ qpc = "verify" /\ todo = {} /\ UNCHANGED <<mode, tree, patches, passed, changed>>
      /\ \/ passed = {"passed"} /\ qpc' = "apply" /\ todo' = {p.name : p \in patches}
         \/ qpc' = "idle" /\ UNCHANGED todo
  BY DEF Verified
<1>2. todo' \in SUBSET PatchName BY <1>1, PatchesTyped
<1>3. PatchTypeOK' BY <1>1, <1>2 DEF PatchInv, PatchTypeOK
<1>4. ASSUME qpc' = "apply", NEW p \in patches, p.at \notin changed
      PROVE  Applies(p)'
  <2>1. Applies(p) BY <1>1, <1>4 DEF PatchInv
  <2> QED BY <1>1, <2>1 DEF Applies
<1>5. ApplyIsChecked'
  <2>1. patches' = patches /\ changed' = changed BY <1>1
  <2> QED BY <1>4, <2>1 DEF ApplyIsChecked
<1> QED BY <1>1, <1>3, <1>5 DEF PatchInv

LEMMA ApplyNextKeeps ==
  ASSUME PatchInv, ApplyNext
  PROVE  PatchInv'
<1>1. PICK p \in patches :
        /\ p.name \in todo
        /\ todo' = todo \ {p.name}
        /\ \/ UNCHANGED <<tree, changed>>
           \/ tree' = [tree EXCEPT ![p.at] = p.new] /\ changed' = changed \cup {p.at}
  BY DEF ApplyNext
<1>2. qpc = "apply" /\ UNCHANGED <<qpc, mode, patches, passed>> BY DEF ApplyNext
<1>3. tree \in [Stretch -> Content] /\ p.at \in Stretch /\ p.new \in Content
  BY PatchesTyped DEF PatchInv, PatchTypeOK
<1>4. PatchTypeOK'
  <2>1. tree' \in [Stretch -> Content] BY <1>1, <1>3
  <2>2. changed' \in SUBSET Stretch BY <1>1, <1>3 DEF PatchInv, PatchTypeOK
  <2> QED BY <1>1, <1>2, <2>1, <2>2 DEF PatchInv, PatchTypeOK
<1>5. ASSUME NEW q \in patches, q.name \in todo', q.at \notin changed'
      PROVE  tree'[q.at] = q.old
  <2>1. q.name \in todo /\ q.at \notin changed BY <1>1, <1>5
  <2>2. tree[q.at] = q.old BY <1>2, <2>1 DEF PatchInv, ApplyIsChecked, Applies
  <2>3. tree'[q.at] = tree[q.at] BY <1>1, <1>3, <1>5, PatchesTyped
  <2> QED BY <2>2, <2>3
<1>6. ApplyIsChecked' BY <1>2, <1>5 DEF ApplyIsChecked, Applies
<1> QED BY <1>2, <1>4, <1>6 DEF PatchInv

LEMMA AppliedKeeps ==
  ASSUME PatchInv, Applied
  PROVE  PatchInv'
<1>1. qpc' = "done" /\ UNCHANGED <<mode, tree, patches, todo, passed, changed>>
  BY DEF Applied
<1>2. PatchTypeOK' BY <1>1 DEF PatchInv, PatchTypeOK
<1> QED BY <1>1, <1>2 DEF PatchInv, ApplyIsChecked

LEMMA PatchStopsKeeps ==
  ASSUME PatchInv, PatchStops
  PROVE  PatchInv'
<1>1. qpc' = "idle" /\ todo' = {} /\ UNCHANGED <<mode, tree, patches, passed, changed>>
  BY DEF PatchStops
<1>2. PatchTypeOK' BY <1>1 DEF PatchInv, PatchTypeOK
<1> QED BY <1>1, <1>2 DEF PatchInv, ApplyIsChecked

LEMMA PatchStays ==
  ASSUME PatchInv, UNCHANGED patchVars
  PROVE  PatchInv'
BY DEF patchVars, PatchInv, PatchTypeOK, ApplyIsChecked, Applies

LEMMA PatchesKeep ==
  ASSUME PatchInv, StartPatch \/ Edit \/ PatchStep
  PROVE  PatchInv'
BY StartPatchKeeps, EditKeeps, GenerateKeeps, VerifyNextKeeps, VerifiedKeeps, ApplyNextKeeps,
   AppliedKeeps, PatchStopsKeeps DEF PatchStep

-----------------------------------------------------------------------------
(***************************************************************************)
(* Shapes.                                                                 *)
(***************************************************************************)
\* A set of pairs of small numbers has a first one, in the order of the pairs.
LEMMA FirstOfPairs ==
  ASSUME NEW n \in Nat, NEW hits, hits \subseteq (1..n) \X (1..5), hits # {}
  PROVE  \E h \in hits : \A k \in hits : h[1] < k[1] \/ (h[1] = k[1] /\ h[2] <= k[2])
<1> DEFINE Place(h) == 5 * h[1] + h[2]
<1> DEFINE places == {Place(h) : h \in hits}
<1>1. \A h \in hits : h[1] \in 1..n /\ h[2] \in 1..5 OBVIOUS
<1>2. \A h \in hits : Place(h) \in Nat BY <1>1
<1>3. places \subseteq Nat /\ places # {} BY <1>2
<1>4. \E x \in places : \A y \in places : ~ (<<y, x>> \in OpToRel(<, Nat))
  <2> HIDE DEF places
  <2> QED BY <1>3, NatLessThanWellFounded, WFMin
<1>5. PICK x \in places : \A y \in places : ~ (<<y, x>> \in OpToRel(<, Nat)) BY <1>4
<1>6. PICK h \in hits : x = Place(h) BY <1>5
<1>7. ASSUME NEW k \in hits PROVE h[1] < k[1] \/ (h[1] = k[1] /\ h[2] <= k[2])
  <2>1. ~ (Place(k) < Place(h)) BY <1>2, <1>5, <1>6 DEF OpToRel
  <2> QED BY <1>1, <2>1
<1> QED BY <1>7

LEMMA LookupFindsKey ==
  ASSUME NEW keys, NEW name, LookupKey(keys, name) # NoKey, Len(Candidates(name)) \in Nat
  PROVE  LookupKey(keys, name) \in keys
<1> DEFINE tried == Candidates(name)
           hits == {h \in (1..Len(tried)) \X (1..5) : Spellings(tried[h[1]])[h[2]] \in keys}
           first == CHOOSE h \in hits :
                      \A k \in hits : h[1] < k[1] \/ (h[1] = k[1] /\ h[2] <= k[2])
           longer == {m \in (1..Len(tried)) \X keys : Extends(m[2], tried[m[1]])}
<1>1. LookupKey(keys, name) = IF hits # {} THEN Spellings(tried[first[1]])[first[2]]
                              ELSE IF Cardinality(longer) = 1 THEN (CHOOSE m \in longer : TRUE)[2]
                              ELSE NoKey
  BY DEF LookupKey
<1>2. CASE hits # {}
  <2>1. hits \subseteq (1..Len(tried)) \X (1..5) OBVIOUS
  <2>2. \E h \in hits : \A k \in hits : h[1] < k[1] \/ (h[1] = k[1] /\ h[2] <= k[2])
    <3> HIDE DEF hits, tried
    <3> QED BY <1>2, <2>1, FirstOfPairs DEF tried
  <2>3. first \in hits
    <3> HIDE DEF hits
    <3> QED BY <2>2
  <2>4. Spellings(tried[first[1]])[first[2]] \in keys
    <3> HIDE DEF first
    <3> QED BY <2>3
  <2> QED BY <1>1, <1>2, <2>4
<1>3. CASE hits = {}
  <2>1. Cardinality(longer) = 1 BY <1>1, <1>3
  <2>2. longer # {} BY <2>1, FS_EmptySet
  <2>3. (CHOOSE m \in longer : TRUE) \in longer BY <2>2
  <2>4. \A m \in longer : m[2] \in keys OBVIOUS
  <2>5. (CHOOSE m \in longer : TRUE)[2] \in keys
    <3> HIDE DEF longer
    <3> QED BY <2>3, <2>4
  <2> QED BY <1>1, <1>3, <2>1, <2>5
<1> QED BY <1>2, <1>3

\* A key that is found is one of the workload configuration.
LEMMA KeyIsInWorkload ==
  ASSUME NEW j, Key(j) # NoKey
  PROVE  Key(j) \in DOMAIN Workload
<1>1. Len(Candidates(j.kernel)) \in 1..4
  BY DEF Candidates
<1>2. Key(j) = LookupKey(DOMAIN Workload, j.kernel) BY DEF Key
<1> QED BY <1>1, <1>2, LookupFindsKey

\* Each bound of each dimension is among the configurations of an entry.
LEMMA ExpandCovers ==
  ASSUME NEW key \in DOMAIN Workload
  PROVE  CoversRange(Workload[key], ExpandShapeConfigs(Workload[key]))
<1> DEFINE entry == Workload[key]
           configs == ExpandShapeConfigs(entry)
           shapes == {c.dims : c \in configs}
           Min(d) == [label |-> <<d, "min">>, dims |-> WithSize(entry.dims, d, entry.range[d].min)]
           Max(d) == [label |-> <<d, "max">>, dims |-> WithSize(entry.dims, d, entry.range[d].max)]
           nominal == [label |-> <<"nominal">>, dims |-> entry.dims]
<1>1. entry.dims \in shapes
  <2>1. nominal \in configs BY DEF ExpandShapeConfigs
  <2> QED BY <2>1
<1>2. ASSUME NEW d \in DOMAIN entry.range,
             NEW bound \in {entry.range[d].min, entry.range[d].max} \ {0}
      PROVE  \E s \in shapes : /\ d \in DOMAIN s /\ s[d] = bound
                               /\ \A e \in DOMAIN entry.dims \ {d} : s[e] = entry.dims[e]
  <2>1. bound \in Nat /\ bound > 0 BY WorkloadAssumption
  <2>2. CASE bound = Size(entry, d)
    <3>1. d \in DOMAIN entry.dims /\ entry.dims[d] = bound BY <2>1, <2>2 DEF Size
    <3> QED BY <1>1, <3>1
  <2>3. CASE bound # Size(entry, d)
    <3> DEFINE moved == WithSize(entry.dims, d, bound)
    <3>1. /\ DOMAIN moved = DOMAIN entry.dims \cup {d}
          /\ moved[d] = bound
          /\ \A e \in DOMAIN entry.dims \ {d} : moved[e] = entry.dims[e]
      BY DEF WithSize
    <3>2. moved \in shapes
      <4>1. CASE bound = entry.range[d].min
        <5>1. Min(d) \in configs BY <2>1, <2>3, <4>1 DEF ExpandShapeConfigs
        <5>2. Min(d).dims = moved BY <4>1
        <5> QED BY <5>1, <5>2
      <4>2. CASE bound = entry.range[d].max
        <5>1. Max(d) \in configs BY <2>1, <2>3, <4>2 DEF ExpandShapeConfigs
        <5>2. Max(d).dims = moved BY <4>2
        <5> QED BY <5>1, <5>2
      <4> QED BY <4>1, <4>2
    <3> HIDE DEF moved, shapes
    <3> QED BY <3>1, <3>2
  <2> QED BY <2>2, <2>3
<1> QED BY <1>1, <1>2 DEF CoversRange

-----------------------------------------------------------------------------
(***************************************************************************)
(* Names.                                                                  *)
(***************************************************************************)
Directed == {"forward", "backward", "fwd", "bwd"}
Part == STRING \cup Tools \cup Directed
Core(c) == /\ c \in Seq(Part) /\ c # <<>>
           /\ c[1] \notin Tools /\ \A n \in 1..Len(Directions) : c[Len(c)] # Directions[n]

LEMMA PartsOfName ==
  ASSUME NEW c \in Seq(Part), c # <<>>, NEW x \in Part
  PROVE  /\ Len(c) \in Nat /\ Len(c) > 0 /\ Head(c) = c[1]
         /\ <<x>> \o c \in Seq(Part) /\ Len(<<x>> \o c) = Len(c) + 1
         /\ (<<x>> \o c)[1] = x /\ Head(<<x>> \o c) = x /\ Tail(<<x>> \o c) = c
         /\ c \o <<x>> \in Seq(Part) /\ Len(c \o <<x>>) = Len(c) + 1
         /\ (c \o <<x>>)[Len(c) + 1] = x /\ (c \o <<x>>)[1] = c[1]
         /\ SubSeq(c \o <<x>>, 1, Len(c)) = c
<1> DEFINE u == <<x>>
<1>1. Len(c) \in Nat /\ Len(c) > 0 /\ Head(c) = c[1] OBVIOUS
<1>2. u \in Seq(Part) /\ Len(u) = 1 /\ u[1] = x OBVIOUS
<1> HIDE DEF u
<1>3. /\ u \o c \in Seq(Part) /\ Len(u \o c) = Len(c) + 1
      /\ \A i \in 1..Len(c) + 1 : (u \o c)[i] = IF i <= 1 THEN u[i] ELSE c[i - 1]
  <2>1. /\ u \o c \in Seq(Part) /\ Len(u \o c) = Len(u) + Len(c)
        /\ \A i \in 1..Len(u) + Len(c) : (u \o c)[i] = IF i <= Len(u) THEN u[i] ELSE c[i - Len(u)]
    BY <1>2, ConcatProperties
  <2> QED BY <1>1, <1>2, <2>1
<1>4. (u \o c)[1] = x /\ u \o c # <<>> BY <1>1, <1>2, <1>3
<1>5. Head(u \o c) = x BY <1>3, <1>4
<1>6. Tail(u \o c) = c
  <2>1. /\ Tail(u \o c) \in Seq(Part) /\ Len(Tail(u \o c)) = Len(c)
        /\ \A i \in 1..Len(c) : Tail(u \o c)[i] = (u \o c)[i + 1]
    BY <1>1, <1>3, <1>4, HeadTailProperties
  <2>2. \A i \in 1..Len(c) : Tail(u \o c)[i] = c[i] BY <1>1, <1>3, <2>1
  <2> QED BY <2>1, <2>2, SeqEqual
<1>7. /\ c \o u \in Seq(Part) /\ Len(c \o u) = Len(c) + 1
      /\ \A i \in 1..Len(c) + 1 : (c \o u)[i] = IF i <= Len(c) THEN c[i] ELSE u[i - Len(c)]
  <2>1. /\ c \o u \in Seq(Part) /\ Len(c \o u) = Len(c) + Len(u)
        /\ \A i \in 1..Len(c) + Len(u) : (c \o u)[i] = IF i <= Len(c) THEN c[i] ELSE u[i - Len(c)]
    BY <1>2, ConcatProperties
  <2> QED BY <1>1, <1>2, <2>1
<1>8. (c \o u)[Len(c) + 1] = x /\ (c \o u)[1] = c[1] BY <1>1, <1>2, <1>7
<1>9. SubSeq(c \o u, 1, Len(c)) = c
  <2>1. \A i \in 1..Len(c) : (c \o u)[i] = c[i] /\ c[i] \in Part BY <1>1, <1>7, ElementOfSeq
  <2>2. /\ SubSeq(c \o u, 1, Len(c)) \in Seq(Part)
        /\ Len(SubSeq(c \o u, 1, Len(c))) = Len(c)
        /\ \A i \in 1..Len(c) : SubSeq(c \o u, 1, Len(c))[i] = (c \o u)[i]
    BY <1>1, <2>1, SubSeqProperties
  <2> QED BY <2>1, <2>2, SeqEqual
<1> QED BY <1>1, <1>3, <1>4, <1>5, <1>6, <1>7, <1>8, <1>9 DEF u

\* A name whose first part is no tool has no tool to remove.
LEMMA NoTool ==
  ASSUME NEW c \in Seq(Part), c # <<>>, c[1] \notin Tools, NEW s \in Before
  PROVE  Without(Without(s \o c, "cuda"), "triton") = c
<1>1. Head(c) = c[1] /\ c[1] # "cuda" /\ c[1] # "triton" BY DEF Tools
<1>2. CASE s = <<>> BY <1>1, <1>2 DEF Without
<1>3. CASE s = <<"cuda">>
  <2>1. Without(s \o c, "cuda") = c BY <1>3, PartsOfName DEF Without
  <2> QED BY <1>1, <2>1 DEF Without
<1>4. CASE s = <<"triton">>
  <2>1. Without(s \o c, "cuda") = s \o c BY <1>4, PartsOfName DEF Without
  <2>2. Without(s \o c, "triton") = c BY <1>4, PartsOfName DEF Without
  <2> QED BY <2>1, <2>2
<1> QED BY <1>2, <1>3, <1>4 DEF Before, Tools

Undirected(name) ==
  WithoutEnd(WithoutEnd(WithoutEnd(WithoutEnd(name, "forward"), "backward"), "fwd"), "bwd")

\* Of a core with at most one direction behind it the core remains.
LEMMA NoDirection ==
  ASSUME NEW c, Core(c), NEW d \in Behind
  PROVE  Undirected(c \o d) = c
<1>1. c[Len(c)] \notin Directed BY DEF Core, Directions, Directed
<1>2. \A x \in Directed : WithoutEnd(c, x) = c BY <1>1 DEF WithoutEnd
<1>3. CASE d = <<>>
  <2>1. c \o d = c BY <1>3 DEF Core
  <2> QED BY <1>2, <2>1 DEF Undirected, Directed
<1>4. ASSUME NEW x \in Directed, d = <<x>>
      PROVE  /\ WithoutEnd(c \o d, x) = c
             /\ \A y \in Directed : y # x => WithoutEnd(c \o d, y) = c \o d
  <2> DEFINE e == c \o d
  <2>1. Len(c) \in Nat /\ Len(c) > 0 /\ Len(e) = Len(c) + 1 /\ e[Len(c) + 1] = x
    BY <1>4, PartsOfName DEF Core, Part
  <2>2. SubSeq(e, 1, Len(c)) = c BY <1>4, PartsOfName DEF Core, Part
  <2> HIDE DEF e
  <2>3. Len(e) - 1 = Len(c) /\ e[Len(e)] = x /\ Len(e) > 1 BY <2>1
  <2>4. WithoutEnd(e, x) = c BY <2>2, <2>3 DEF WithoutEnd
  <2>5. \A y \in Directed : y # x => WithoutEnd(e, y) = e BY <2>3 DEF WithoutEnd
  <2> QED BY <2>4, <2>5 DEF e
<1>5. CASE d = <<"forward">>
  <2>1. WithoutEnd(c \o d, "forward") = c BY <1>4, <1>5 DEF Directed
  <2> QED BY <1>2, <2>1 DEF Undirected, Directed
<1>6. CASE d = <<"backward">>
  <2>1. WithoutEnd(c \o d, "forward") = c \o d /\ WithoutEnd(c \o d, "backward") = c
    BY <1>4, <1>6 DEF Directed
  <2> QED BY <1>2, <2>1 DEF Undirected, Directed
<1>7. CASE d = <<"fwd">>
  <2>1. /\ WithoutEnd(c \o d, "forward") = c \o d /\ WithoutEnd(c \o d, "backward") = c \o d
        /\ WithoutEnd(c \o d, "fwd") = c
    BY <1>4, <1>7 DEF Directed
  <2> QED BY <1>2, <2>1 DEF Undirected, Directed
<1>8. CASE d = <<"bwd">>
  <2>1. /\ WithoutEnd(c \o d, "forward") = c \o d /\ WithoutEnd(c \o d, "backward") = c \o d
        /\ WithoutEnd(c \o d, "fwd") = c \o d /\ WithoutEnd(c \o d, "bwd") = c
    BY <1>4, <1>8 DEF Directed
  <2> QED BY <2>1 DEF Undirected
<1> QED BY <1>3, <1>5, <1>6, <1>7, <1>8 DEF Behind, Directions

LEMMA NormalizeIsCore ==
  ASSUME NEW c, Core(c), NEW s \in Before, NEW d \in Behind
  PROVE  Normalize(s \o c \o d) = c
<1>1. c \in Seq(Part) /\ c # <<>> /\ c[1] \notin Tools BY DEF Core
<1>2. s \in Seq(Part) /\ d \in Seq(Part)
  <2>1. \A x \in Part : <<x>> \in Seq(Part) OBVIOUS
  <2>2. \A x \in Tools : x \in Part BY DEF Part
  <2>3. \A i \in 1..Len(Directions) : Directions[i] \in Directed BY DEF Directions, Directed
  <2>4. \A x \in Directed : x \in Part BY DEF Part
  <2>5. <<>> \in Seq(Part) OBVIOUS
  <2> QED BY <2>1, <2>2, <2>3, <2>4, <2>5 DEF Before, Behind
<1>3. (s \o c) \o d = s \o (c \o d) BY <1>1, <1>2, ConcatAssociative
<1>4. c \o d \in Seq(Part) /\ c \o d # <<>> /\ (c \o d)[1] = c[1] BY <1>1, <1>2
<1>5. Without(Without(s \o (c \o d), "cuda"), "triton") = c \o d BY <1>1, <1>4, NoTool
<1>6. Normalize(s \o (c \o d)) = Undirected(c \o d) BY <1>5 DEF Normalize, Undirected
<1> QED BY <1>3, <1>6, NoDirection

\* The names of one kernel are alike to findRelatedRuns.
LEMMA SameKernelMatches ==
  ASSUME NEW a \in Seq(STRING), NEW b, SameKernel(a, b)
  PROVE  Normalize(a) = Normalize(b)
<1>1. PICK i \in 1..Len(a), j \in 1..Len(a) :
        /\ i <= j
        /\ a[i] \notin Tools /\ a[j] \notin {Directions[n] : n \in 1..Len(Directions)}
        /\ \E s, t \in Before, d, e \in Behind :
             /\ a = s \o SubSeq(a, i, j) \o d
             /\ b = t \o SubSeq(a, i, j) \o e
  BY DEF SameKernel
<1> DEFINE c == SubSeq(a, i, j)
<1>4. a \in Seq(Part) /\ Len(a) \in Nat
  <2>1. STRING \subseteq Part BY DEF Part
  <2>2. a \in Seq(Part) BY <2>1, SeqMonotonic
  <2>3. Len(a) \in Nat BY LenProperties
  <2> QED BY <2>2, <2>3
<1>2. Core(c)
  <2>1. c \in Seq(Part) /\ Len(c) = j - i + 1 BY <1>1, <1>4
  <2>2. c[1] = a[i] /\ c[Len(c)] = a[j] BY <1>1, <1>4, <2>1
  <2> HIDE DEF c
  <2> QED BY <1>1, <2>1, <2>2 DEF Core
<1>3. \E s, t \in Before, d, e \in Behind : a = s \o c \o d /\ b = t \o c \o e BY <1>1
<1> HIDE DEF c
<1> QED BY <1>2, <1>3, NormalizeIsCore

-----------------------------------------------------------------------------
(***************************************************************************)
(* Prepare.                                                                *)
(***************************************************************************)
Copied(k) == [NoReference EXCEPT !.state = "copied", !.kernel = k]
Shaped(k, key) == [state |-> "shaped", kernel |-> k, key |-> key, configs |-> Configs(key)]
References == {NoReference, PartOfFile} \cup {Copied(k) : k \in Kernel}
              \cup {Shaped(kk[1], kk[2]) : kk \in Kernel \X DOMAIN Workload}
Summaries == [kernel : Kernel \cup {NoKey}, runs : SUBSET StoredRun]

Typed ==
  /\ ppc \in [Root -> {"idle", "kernel", "reference", "override", "truncate", "manifest",
                       "context", "done"}]
  /\ job \in [Root -> Job]
  /\ turn \in [Root -> Nat]
  /\ wanted \in [Root -> SUBSET StoredRun]
  /\ kernelFile \in [Root -> Kernel \cup {NoKey}]
  /\ reference \in [Root -> References]
  /\ summary \in [Root -> Summaries]
  /\ manifest.state \in {"none", "empty", "torn", "whole"}
  /\ stored \in SUBSET StoredRun

\* What a command has done when it is at a step.
Written(r) ==
  /\ ppc[r] \in {"reference", "override", "truncate", "manifest", "context", "done"} =>
       kernelFile[r] = job[r].kernel
  /\ ppc[r] \in {"override", "truncate", "manifest", "context", "done"} /\ job[r].source # "none" =>
       reference[r].kernel = job[r].kernel
  /\ ppc[r] \in {"truncate", "manifest", "context", "done"} /\ Key(job[r]) # NoKey =>
       reference[r].state = "shaped" /\ reference[r].key = Key(job[r])

\* What the command wants is of its kernel, and its summary has it at the end if
\* the workload gives no category.
Wanted(r) ==
  /\ ppc[r] # "idle" => wanted[r] \subseteq PriorRuns(job[r])
  /\ ppc[r] = "done" /\ Backend(job[r]) = "" =>
       /\ wanted[r] \subseteq summary[r].runs
       /\ wanted[r] # {} => summary[r].kernel = job[r].kernel

\* A command writes the manifest after all it describes, and nothing after it
\* but the summary.
Holds(r) ==
  /\ ppc[r] \in {"idle", "context", "done"}
  /\ kernelFile[r] = manifest.kernel
  /\ manifest.source # "none" => reference[r].kernel = manifest.kernel
  /\ manifest.key # NoKey => reference[r].state = "shaped" /\ reference[r].key = manifest.key

Truthful ==
  manifest.state = "whole" =>
    /\ manifest.root \in Root /\ manifest.turn \in Nat
    /\ manifest.turn <= turn[manifest.root]
    /\ manifest.turn = turn[manifest.root] => Holds(manifest.root)

PrepareInv == Typed /\ (\A r \in Root : Written(r) /\ Wanted(r)) /\ Truthful

Same(x) ==
  /\ ppc'[x] = ppc[x] /\ job'[x] = job[x] /\ turn'[x] = turn[x] /\ wanted'[x] = wanted[x]
  /\ kernelFile'[x] = kernelFile[x] /\ reference'[x] = reference[x] /\ summary'[x] = summary[x]

OthersSame(r) == \A x \in Root \ {r} : Same(x)

\* Runs are only added to the database.
LEMMA SameKeeps ==
  ASSUME NEW x \in Root, Same(x), stored \subseteq stored', Written(x), Wanted(x)
  PROVE  Written(x)' /\ Wanted(x)'
<1>1. Written(x)' BY DEF Same, Written, Key
<1>2. ppc[x] # "idle" => wanted[x] \subseteq PriorRuns(job[x])
  BY DEF Wanted
<1>3. PriorRuns(job[x])' =
        {y \in stored' : \E name \in y.kernels : SameKernel(name, job[x].kernel)}
  BY DEF Same, PriorRuns
<1>4. PriorRuns(job[x]) \subseteq PriorRuns(job[x])' BY <1>3 DEF PriorRuns
<1>5. Backend(job[x])' = Backend(job[x]) BY DEF Same, Backend, Key
<1>6. Wanted(x)' BY <1>2, <1>4, <1>5 DEF Same, Wanted
<1> QED BY <1>1, <1>6

\* A step of one root keeps the invariant if it keeps what is said of that root.
LEMMA StepOfRoot ==
  ASSUME NEW r \in Root, PrepareInv, OthersSame(r), stored' = stored,
         Typed', Written(r)', Wanted(r)', Truthful'
  PROVE  PrepareInv'
<1>1. ASSUME NEW x \in Root PROVE Written(x)' /\ Wanted(x)'
  <2>1. CASE x = r BY <2>1
  <2>2. CASE x # r
    <3>1. Same(x) BY <2>2 DEF OthersSame
    <3> QED BY <3>1, SameKeeps DEF PrepareInv
  <2> QED BY <2>1, <2>2
<1> QED BY <1>1 DEF PrepareInv

\* The manifest stays true of the root it names when a step of that root goes
\* on to a later turn, or leaves the kernel and the reference as they are.
LEMMA ManifestStays ==
  ASSUME NEW r \in Root, PrepareInv, Typed', OthersSame(r), manifest' = manifest,
         \/ turn[r] < turn'[r]
         \/ turn'[r] = turn[r] /\ ppc[r] \notin {"idle", "context", "done"}
         \/ /\ turn'[r] = turn[r] /\ ppc'[r] \in {"idle", "context", "done"}
            /\ kernelFile'[r] = kernelFile[r] /\ reference'[r] = reference[r]
  PROVE  Truthful'
<1> SUFFICES ASSUME manifest.state = "whole" PROVE Truthful' BY DEF Truthful
<1> DEFINE x == manifest.root
<1>1. /\ x \in Root /\ manifest.turn \in Nat /\ manifest.turn <= turn[x]
      /\ manifest.turn = turn[x] => Holds(x)
  BY DEF PrepareInv, Truthful
<1>2. turn[x] \in Nat /\ turn'[x] \in Nat BY <1>1 DEF PrepareInv, Typed
<1>3. CASE x = r
  <2>1. manifest.turn <= turn'[x] BY <1>1, <1>2, <1>3
  <2>2. ASSUME manifest.turn = turn'[x] PROVE Holds(x)'
    <3>1. turn'[r] = turn[r] BY <1>1, <1>2, <1>3, <2>2
    <3>2. Holds(r) BY <1>1, <1>3, <2>2, <3>1
    <3>3. /\ ppc'[r] \in {"idle", "context", "done"}
          /\ kernelFile'[r] = kernelFile[r] /\ reference'[r] = reference[r]
      BY <1>2, <1>3, <3>1, <3>2 DEF Holds
    <3> QED BY <1>3, <3>2, <3>3 DEF Holds
  <2> QED BY <1>1, <2>1, <2>2 DEF Truthful
<1>4. CASE x # r
  <2>1. Same(x) BY <1>1, <1>4 DEF OthersSame
  <2>2. Holds(x) => Holds(x)' BY <2>1 DEF Same, Holds
  <2> QED BY <1>1, <2>1, <2>2 DEF Same, Truthful
<1> QED BY <1>3, <1>4

\* findRelatedRuns finds only stored runs, and without a backend every run of
\* the kernel.
LEMMA RelatedRunsFound ==
  ASSUME NEW j \in Job, stored \subseteq StoredRun
  PROVE  /\ FindRelatedRuns(j) \subseteq stored
         /\ Backend(j) = "" => PriorRuns(j) \subseteq FindRelatedRuns(j)
<1>1. ASSUME NEW x \in stored, NEW name \in x.kernels, SameKernel(name, j.kernel)
      PROVE  Normalize(name) = Normalize(j.kernel)
  <2>1. name \in Seq(STRING) BY <1>1, NameAssumption
  <2> QED BY <1>1, <2>1, SameKernelMatches
<1> QED BY <1>1 DEF PriorRuns, FindRelatedRuns

LEMMA BeginKeeps ==
  ASSUME NEW r \in Root, PrepareInv, Begin(r)
  PROVE  PrepareInv'
<1>1. PICK j \in Job :
        /\ job' = [job EXCEPT ![r] = j]
        /\ wanted' = [wanted EXCEPT ![r] = IF j.db = "given" THEN PriorRuns(j) ELSE {}]
  BY DEF Begin
<1>2. /\ turn' = [turn EXCEPT ![r] = @ + 1] /\ ppc' = [ppc EXCEPT ![r] = "kernel"]
      /\ UNCHANGED <<kernelFile, reference, summary, manifest, stored>>
  BY DEF Begin
<1>3. Typed BY DEF PrepareInv
<1>4. PriorRuns(j) \subseteq StoredRun BY <1>3 DEF Typed, PriorRuns
<1>5. Typed' BY <1>1, <1>2, <1>3, <1>4 DEF Typed
<1>6. OthersSame(r) BY <1>1, <1>2, <1>3 DEF OthersSame, Same, Typed
<1>7. /\ ppc'[r] = "kernel" /\ job'[r] = j /\ turn'[r] = turn[r] + 1
      /\ wanted'[r] \subseteq PriorRuns(j)
  BY <1>1, <1>2, <1>3 DEF Typed
<1>8. Written(r)' BY <1>7 DEF Written
<1>9. PriorRuns(job[r])' = PriorRuns(j) BY <1>2, <1>7 DEF PriorRuns
<1>10. Wanted(r)' BY <1>7, <1>9 DEF Wanted
<1>11. turn[r] < turn'[r] BY <1>3, <1>7 DEF Typed
<1>12. Truthful' BY <1>2, <1>5, <1>6, <1>11, ManifestStays
<1> QED BY <1>2, <1>5, <1>6, <1>8, <1>10, <1>12, StepOfRoot

LEMMA CopyKernelKeeps ==
  ASSUME NEW r \in Root, PrepareInv, CopyKernel(r)
  PROVE  PrepareInv'
<1>1. /\ ppc[r] = "kernel"
      /\ \/ /\ kernelFile' = [kernelFile EXCEPT ![r] = job[r].kernel]
            /\ ppc' = [ppc EXCEPT ![r] = "reference"]
         \/ /\ kernelFile' = [kernelFile EXCEPT ![r] = NoKey]
            /\ ppc' = [ppc EXCEPT ![r] = "idle"]
      /\ UNCHANGED <<job, turn, wanted, reference, summary, manifest, stored>>
  BY DEF CopyKernel
<1>2. Typed BY DEF PrepareInv
<1>3. job[r].kernel \in Kernel BY <1>2, JobAssumption DEF Typed
<1>4. Typed' BY <1>1, <1>2, <1>3 DEF Typed
<1>5. OthersSame(r) BY <1>1, <1>2 DEF OthersSame, Same, Typed
<1>6. \/ ppc'[r] = "reference" /\ kernelFile'[r] = job[r].kernel
      \/ ppc'[r] = "idle"
  BY <1>1, <1>2 DEF Typed
<1>7. Written(r)' BY <1>1, <1>6 DEF Written
<1>8. Wanted(r)' BY <1>1, <1>6 DEF PrepareInv, Wanted, PriorRuns, Backend, Key
<1>9. Truthful' BY <1>1, <1>4, <1>5, ManifestStays
<1> QED BY <1>1, <1>4, <1>5, <1>7, <1>8, <1>9, StepOfRoot

LEMMA CopyReferenceKeeps ==
  ASSUME NEW r \in Root, PrepareInv, CopyReference(r)
  PROVE  PrepareInv'
<1>1. /\ ppc[r] = "reference"
      /\ UNCHANGED <<job, turn, wanted, kernelFile, summary, manifest, stored>>
      /\ \/ /\ job[r].source = "none" /\ ppc' = [ppc EXCEPT ![r] = "override"]
            /\ UNCHANGED reference
         \/ /\ reference' = [reference EXCEPT ![r] = Copied(job[r].kernel)]
            /\ ppc' = [ppc EXCEPT ![r] = "override"]
         \/ /\ reference' = [reference EXCEPT ![r] = PartOfFile]
            /\ ppc' = [ppc EXCEPT ![r] = "idle"]
  BY DEF CopyReference, Copied
<1>2. Typed BY DEF PrepareInv
<1>3. /\ job[r].kernel \in Kernel
      /\ Copied(job[r].kernel) \in References /\ PartOfFile \in References
  BY <1>2, JobAssumption DEF Typed, References
<1>4. Typed' BY <1>1, <1>2, <1>3 DEF Typed
<1>5. OthersSame(r) BY <1>1, <1>2 DEF OthersSame, Same, Typed
<1>6. \/ ppc'[r] = "override" /\ job[r].source = "none"
      \/ ppc'[r] = "override" /\ reference'[r] = Copied(job[r].kernel)
      \/ ppc'[r] = "idle"
  BY <1>1, <1>2 DEF Typed
<1>7. Copied(job[r].kernel).kernel = job[r].kernel BY DEF Copied, NoReference
<1>8. kernelFile[r] = job[r].kernel BY <1>1 DEF PrepareInv, Written
<1>9. Written(r)' BY <1>1, <1>6, <1>7, <1>8 DEF Written
<1>10. Wanted(r)' BY <1>1, <1>6 DEF PrepareInv, Wanted, PriorRuns, Backend, Key
<1>11. Truthful' BY <1>1, <1>4, <1>5, ManifestStays
<1> QED BY <1>1, <1>4, <1>5, <1>9, <1>10, <1>11, StepOfRoot

LEMMA ApplyOverridesKeeps ==
  ASSUME NEW r \in Root, PrepareInv, ApplyOverrides(r)
  PROVE  PrepareInv'
<1> DEFINE shaped == Shaped(job[r].kernel, Key(job[r]))
<1>1. /\ ppc[r] = "override"
      /\ UNCHANGED <<job, turn, wanted, kernelFile, summary, manifest, stored>>
      /\ \/ /\ Key(job[r]) = NoKey
            /\ ppc' = [ppc EXCEPT ![r] = "truncate"] /\ UNCHANGED reference
         \/ /\ Key(job[r]) # NoKey
            /\ reference' = [reference EXCEPT ![r] = shaped]
            /\ ppc' = [ppc EXCEPT ![r] = "truncate"]
         \/ /\ reference' = [reference EXCEPT ![r] = PartOfFile]
            /\ ppc' = [ppc EXCEPT ![r] = "idle"]
         \/ ppc' = [ppc EXCEPT ![r] = "idle"] /\ UNCHANGED reference
  BY DEF ApplyOverrides, Shaped
<1>2. Typed BY DEF PrepareInv
<1>3. job[r].kernel \in Kernel BY <1>2, JobAssumption DEF Typed
<1>4. Key(job[r]) # NoKey => shaped \in References
  <2>1. Key(job[r]) # NoKey => Key(job[r]) \in DOMAIN Workload BY KeyIsInWorkload
  <2>2. \A key \in DOMAIN Workload : Shaped(job[r].kernel, key) \in References
    <3> SUFFICES ASSUME NEW key \in DOMAIN Workload
                 PROVE  Shaped(job[r].kernel, key) \in References
      OBVIOUS
    <3> DEFINE kk == <<job[r].kernel, key>>
    <3>1. kk \in Kernel \X DOMAIN Workload /\ kk[1] = job[r].kernel /\ kk[2] = key BY <1>3
    <3> HIDE DEF kk
    <3> QED BY <3>1 DEF References
  <2> QED BY <2>1, <2>2
<1>5. PartOfFile \in References BY DEF References
<1>6. /\ shaped.kernel = job[r].kernel /\ shaped.state = "shaped" /\ shaped.key = Key(job[r])
  BY DEF Shaped
<1> HIDE DEF shaped
<1>7. Typed' BY <1>1, <1>2, <1>4, <1>5 DEF Typed
<1>8. OthersSame(r) BY <1>1, <1>2 DEF OthersSame, Same, Typed
<1>9. \/ ppc'[r] = "truncate" /\ Key(job[r]) = NoKey /\ reference'[r] = reference[r]
      \/ ppc'[r] = "truncate" /\ reference'[r] = shaped
      \/ ppc'[r] = "idle"
  BY <1>1, <1>2 DEF Typed
<1>10. /\ kernelFile[r] = job[r].kernel
       /\ job[r].source # "none" => reference[r].kernel = job[r].kernel
  BY <1>1 DEF PrepareInv, Written
<1>11. Key(job[r])' = Key(job[r]) BY <1>1 DEF Key
<1>12. Written(r)' BY <1>1, <1>6, <1>9, <1>10, <1>11 DEF Written
<1>13. Wanted(r)' BY <1>1, <1>9 DEF PrepareInv, Wanted, PriorRuns, Backend, Key
<1>14. Truthful' BY <1>1, <1>7, <1>8, ManifestStays
<1> QED BY <1>1, <1>7, <1>8, <1>12, <1>13, <1>14, StepOfRoot

LEMMA TruncateManifestKeeps ==
  ASSUME NEW r \in Root, PrepareInv, TruncateManifest(r)
  PROVE  PrepareInv'
<1>1. /\ ppc[r] = "truncate" /\ manifest' = [state |-> "empty"]
      /\ ppc' = [ppc EXCEPT ![r] = "manifest"]
      /\ UNCHANGED <<job, turn, wanted, kernelFile, reference, summary, stored>>
  BY DEF TruncateManifest
<1>2. Typed BY DEF PrepareInv
<1>3. Typed' BY <1>1, <1>2 DEF Typed
<1>4. OthersSame(r) BY <1>1, <1>2 DEF OthersSame, Same, Typed
<1>5. ppc'[r] = "manifest" BY <1>1, <1>2 DEF Typed
<1>6. Written(r)' BY <1>1, <1>5 DEF PrepareInv, Written, Key
<1>7. Wanted(r)' BY <1>1, <1>5 DEF PrepareInv, Wanted, PriorRuns, Backend, Key
<1>8. Truthful' BY <1>1 DEF Truthful
<1> QED BY <1>1, <1>3, <1>4, <1>6, <1>7, <1>8, StepOfRoot

LEMMA WriteManifestKeeps ==
  ASSUME NEW r \in Root, PrepareInv, WriteManifest(r)
  PROVE  PrepareInv'
<1>1. /\ ppc[r] = "manifest"
      /\ \/ manifest' = Described(r)
         \/ manifest' = [state |-> "torn"]
      /\ ppc' = [ppc EXCEPT ![r] = IF job[r].db = "given" THEN "context" ELSE "idle"]
      /\ UNCHANGED <<job, turn, wanted, kernelFile, reference, summary, stored>>
  BY DEF WriteManifest
<1>2. Typed BY DEF PrepareInv
<1>3. /\ Described(r).state = "whole" /\ Described(r).root = r /\ Described(r).turn = turn[r]
      /\ Described(r).kernel = job[r].kernel /\ Described(r).source = job[r].source
      /\ Described(r).key = Key(job[r])
  BY DEF Described
<1>4. Typed' BY <1>1, <1>2, <1>3 DEF Typed
<1>5. OthersSame(r) BY <1>1, <1>2 DEF OthersSame, Same, Typed
<1>6. ppc'[r] \in {"context", "idle"} BY <1>1, <1>2 DEF Typed
<1>7. Written(r)' BY <1>1, <1>6 DEF PrepareInv, Written, Key
<1>8. Wanted(r)' BY <1>1, <1>6 DEF PrepareInv, Wanted, PriorRuns, Backend, Key
<1>9. turn[r] \in Nat BY <1>2 DEF Typed
<1>10. ASSUME manifest' = Described(r) PROVE Truthful'
  <2>1. /\ kernelFile[r] = job[r].kernel
        /\ job[r].source # "none" => reference[r].kernel = job[r].kernel
        /\ Key(job[r]) # NoKey => reference[r].state = "shaped" /\ reference[r].key = Key(job[r])
    BY <1>1 DEF PrepareInv, Written
  <2>2. Holds(r)' BY <1>1, <1>3, <1>6, <1>10, <2>1 DEF Holds
  <2> QED BY <1>1, <1>3, <1>9, <1>10, <2>2 DEF Truthful
<1>11. ASSUME manifest' = [state |-> "torn"] PROVE Truthful' BY <1>11 DEF Truthful
<1>12. Truthful' BY <1>1, <1>10, <1>11
<1> QED BY <1>1, <1>4, <1>5, <1>7, <1>8, <1>12, StepOfRoot

LEMMA InjectContextKeeps ==
  ASSUME NEW r \in Root, PrepareInv, InjectContext(r)
  PROVE  PrepareInv'
<1> DEFINE found == FindRelatedRuns(job[r])
           new == [kernel |-> job[r].kernel, runs |-> found]
<1>1. /\ ppc[r] = "context"
      /\ UNCHANGED <<job, turn, wanted, kernelFile, reference, manifest, stored>>
      /\ \/ /\ summary' = IF found = {} THEN summary ELSE [summary EXCEPT ![r] = new]
            /\ ppc' = [ppc EXCEPT ![r] = "done"]
         \/ UNCHANGED summary /\ ppc' = [ppc EXCEPT ![r] = "idle"]
  BY DEF InjectContext
<1>2. Typed BY DEF PrepareInv
<1>3. job[r] \in Job /\ job[r].kernel \in Kernel BY <1>2, JobAssumption DEF Typed
<1>4. /\ found \subseteq stored
      /\ Backend(job[r]) = "" => PriorRuns(job[r]) \subseteq found
  BY <1>2, <1>3, RelatedRunsFound DEF Typed
<1>5. new \in Summaries /\ new.kernel = job[r].kernel /\ new.runs = found
  BY <1>2, <1>3, <1>4 DEF Summaries, Typed
<1>6. wanted[r] \subseteq PriorRuns(job[r]) BY <1>1 DEF PrepareInv, Wanted
<1> HIDE DEF found, new
<1>7. Typed' BY <1>1, <1>2, <1>5 DEF Typed
<1>8. OthersSame(r) BY <1>1, <1>2 DEF OthersSame, Same, Typed
<1>9. \/ ppc'[r] = "done" /\ (found # {} => summary'[r] = new)
      \/ ppc'[r] = "idle"
  BY <1>1, <1>2 DEF Typed
<1>10. Written(r)' BY <1>1, <1>9 DEF PrepareInv, Written, Key
<1>11. PriorRuns(job[r])' = PriorRuns(job[r]) /\ Backend(job[r])' = Backend(job[r])
  BY <1>1 DEF PriorRuns, Backend, Key
<1>12. Wanted(r)' BY <1>1, <1>4, <1>5, <1>6, <1>9, <1>11 DEF Wanted
<1>13. Truthful'
  <2>1. ppc'[r] \in {"idle", "context", "done"} BY <1>9
  <2> QED BY <1>1, <1>7, <1>8, <2>1, ManifestStays
<1> QED BY <1>1, <1>7, <1>8, <1>10, <1>12, <1>13, StepOfRoot

LEMMA StopKeeps ==
  ASSUME NEW r \in Root, PrepareInv, Stop(r)
  PROVE  PrepareInv'
<1>1. /\ ppc' = [ppc EXCEPT ![r] = "idle"]
      /\ UNCHANGED <<job, turn, wanted, kernelFile, reference, summary, manifest, stored>>
  BY DEF Stop
<1>2. Typed BY DEF PrepareInv
<1>3. Typed' BY <1>1, <1>2 DEF Typed
<1>4. OthersSame(r) BY <1>1, <1>2 DEF OthersSame, Same, Typed
<1>5. ppc'[r] = "idle" BY <1>1, <1>2 DEF Typed
<1>6. Written(r)' /\ Wanted(r)' BY <1>5 DEF Written, Wanted
<1>7. Truthful' BY <1>1, <1>3, <1>4, <1>5, ManifestStays
<1> QED BY <1>1, <1>3, <1>4, <1>6, <1>7, StepOfRoot

LEMMA StoreKeeps ==
  ASSUME PrepareInv, Store
  PROVE  PrepareInv'
<1>1. /\ stored \subseteq stored' /\ stored' \subseteq StoredRun
      /\ UNCHANGED <<ppc, job, turn, wanted, kernelFile, reference, summary, manifest>>
  BY DEF Store, PrepareInv, Typed
<1>2. Typed' BY <1>1 DEF PrepareInv, Typed
<1>3. ASSUME NEW x \in Root PROVE Written(x)' /\ Wanted(x)'
  <2>1. Same(x) BY <1>1 DEF Same
  <2> QED BY <1>1, <2>1, SameKeeps DEF PrepareInv
<1>4. Truthful' BY <1>1 DEF PrepareInv, Truthful, Holds
<1> QED BY <1>2, <1>3, <1>4 DEF PrepareInv

LEMMA PreparesStay ==
  ASSUME PrepareInv, UNCHANGED prepareVars
  PROVE  PrepareInv'
<1>1. UNCHANGED <<ppc, job, turn, wanted, kernelFile, reference, summary, manifest, stored>>
  BY DEF prepareVars
<1>2. Typed' BY <1>1 DEF PrepareInv, Typed
<1>3. ASSUME NEW x \in Root PROVE Written(x)' /\ Wanted(x)'
  <2>1. Same(x) BY <1>1 DEF Same
  <2> QED BY <1>1, <2>1, SameKeeps DEF PrepareInv
<1>4. Truthful' BY <1>1 DEF PrepareInv, Truthful, Holds
<1> QED BY <1>2, <1>3, <1>4 DEF PrepareInv

-----------------------------------------------------------------------------
(***************************************************************************)
(* Both.                                                                   *)
(***************************************************************************)
WorkspaceInv == PrepareInv /\ PatchInv

LEMMA InitHolds ==
  ASSUME Init
  PROVE  WorkspaceInv
<1>1. PatchInv
  BY DEF Init, PatchInit, PatchInv, PatchTypeOK, ApplyIsChecked, Modes
<1>2. (CHOOSE j \in Job : TRUE) \in Job BY JobAssumption
<1>3. NoSummary \in Summaries BY DEF NoSummary, Summaries
<1>4. NoReference \in References BY DEF References
<1>5. Typed BY <1>2, <1>3, <1>4 DEF Init, PrepareInit, Typed, NoManifest
<1>6. \A r \in Root : ppc[r] = "idle" BY DEF Init, PrepareInit
<1>7. \A r \in Root : Written(r) /\ Wanted(r) BY <1>6 DEF Written, Wanted
<1>8. Truthful BY DEF Init, PrepareInit, NoManifest, Truthful
<1> QED BY <1>1, <1>5, <1>7, <1>8 DEF WorkspaceInv, PrepareInv

LEMMA StepKeeps ==
  ASSUME WorkspaceInv, [Next]_vars
  PROVE  WorkspaceInv'
<1>1. CASE Prepares
  <2>1. PatchInv' BY <1>1, PatchStays DEF Prepares, WorkspaceInv
  <2>2. (\E r \in Root : Begin(r) \/ PrepareStep(r)) \/ Store BY <1>1 DEF Prepares
  <2>3. PrepareInv'
    BY <2>2, BeginKeeps, CopyKernelKeeps, CopyReferenceKeeps, ApplyOverridesKeeps,
       TruncateManifestKeeps, WriteManifestKeeps, InjectContextKeeps, StopKeeps, StoreKeeps
    DEF PrepareStep, WorkspaceInv
  <2> QED BY <2>1, <2>3 DEF WorkspaceInv
<1>2. CASE Patches
  <2>1. PrepareInv' BY <1>2, PreparesStay DEF Patches, WorkspaceInv
  <2>2. StartPatch \/ Edit \/ PatchStep BY <1>2 DEF Patches
  <2>3. PatchInv' BY <2>2, PatchesKeep DEF WorkspaceInv
  <2> QED BY <2>1, <2>3 DEF WorkspaceInv
<1>3. CASE UNCHANGED vars
  BY <1>3, PreparesStay, PatchStays DEF vars, WorkspaceInv
<1> QED BY <1>1, <1>2, <1>3 DEF Next

\* The invariant the properties of prepare and patch follow from.
THEOREM WorkspaceInvariant == Spec => []WorkspaceInv
BY InitHolds, StepKeeps, PTL DEF Spec

\* Every file and every state of a command has its type; the shapes in a
\* reference file are always those of one entry.
THEOREM FilesAreTyped == Spec => []TypeOK
<1>1. ASSUME Typed PROVE PrepareTypeOK
  <2>1. \A r \in Root : job[r] \in Job BY <1>1 DEF Typed
  <2>2. \A x \in References :
          /\ x.state \in {"none", "partial", "copied", "shaped"}
          /\ x.kernel \in Kernel \cup {NoKey}
          /\ x.configs = Configs(x.key)
    <3>1. \A x \in {NoReference, PartOfFile} :
            /\ x.state \in {"none", "partial"} /\ x.kernel = NoKey
            /\ x.configs = {} /\ x.key = NoKey
      BY DEF NoReference, PartOfFile
    <3>2. ASSUME NEW k \in Kernel
          PROVE  /\ Copied(k).state = "copied" /\ Copied(k).kernel = k
                 /\ Copied(k).configs = {} /\ Copied(k).key = NoKey
      BY DEF Copied, NoReference
    <3>3. ASSUME NEW k \in Kernel, NEW key \in DOMAIN Workload
          PROVE  /\ Shaped(k, key).state = "shaped" /\ Shaped(k, key).kernel = k
                 /\ Shaped(k, key).configs = Configs(Shaped(k, key).key)
      BY DEF Shaped
    <3>4. Configs(NoKey) = {} BY DEF Configs
    <3>5. \A kk \in Kernel \X DOMAIN Workload : kk[1] \in Kernel /\ kk[2] \in DOMAIN Workload
      OBVIOUS
    <3>6. ASSUME NEW x \in References
          PROVE  \/ x \in {NoReference, PartOfFile}
                 \/ \E k \in Kernel : x = Copied(k)
                 \/ \E k \in Kernel, key \in DOMAIN Workload : x = Shaped(k, key)
      BY <3>5 DEF References
    <3>7. ASSUME NEW x \in References
          PROVE  /\ x.state \in {"none", "partial", "copied", "shaped"}
                 /\ x.kernel \in Kernel \cup {NoKey}
                 /\ x.configs = Configs(x.key)
      <4>1. CASE x \in {NoReference, PartOfFile} BY <3>1, <3>4, <4>1
      <4>2. CASE \E k \in Kernel : x = Copied(k)
        <5>1. PICK k \in Kernel : x = Copied(k) BY <4>2
        <5> QED BY <3>2, <3>4, <5>1
      <4>3. CASE \E k \in Kernel, key \in DOMAIN Workload : x = Shaped(k, key)
        <5>1. PICK k \in Kernel, key \in DOMAIN Workload : x = Shaped(k, key) BY <4>3
        <5> QED BY <3>3, <5>1
      <4> QED BY <3>6, <4>1, <4>2, <4>3
    <3> QED BY <3>7
  <2>3. \A r \in Root : summary[r].kernel \in Kernel \cup {NoKey} /\ summary[r].runs \subseteq StoredRun
    BY <1>1 DEF Typed, Summaries
  <2>4. \A r \in Root : reference[r] \in References BY <1>1 DEF Typed
  <2> QED BY <1>1, <2>1, <2>2, <2>3, <2>4 DEF Typed, PrepareTypeOK
<1>2. WorkspaceInv => TypeOK BY <1>1 DEF WorkspaceInv, PrepareInv, PatchInv, TypeOK
<1> QED BY <1>2, WorkspaceInvariant, PTL

\* A whole manifest describes what its root holds as long as that root has begun
\* no later prepare, for any number of commands of other roots at once, any of
\* which may fail or die anywhere.
THEOREM ManifestsAreTrue == Spec => []ManifestIsTrue
<1>1. WorkspaceInv /\ TypeOK => ManifestIsTrue
  <2> SUFFICES ASSUME WorkspaceInv, TypeOK, manifest.state = "whole",
                      manifest.turn = turn[manifest.root]
               PROVE  ManifestIsTrue
    BY DEF ManifestIsTrue
  <2> DEFINE r == manifest.root
  <2>1. r \in Root /\ Holds(r) BY DEF WorkspaceInv, PrepareInv, Truthful
  <2>2. ASSUME manifest.key # NoKey
        PROVE  CoversRange(Workload[manifest.key], reference[r].configs)
    <3>1. reference[r].key = manifest.key /\ reference[r].state = "shaped"
      BY <2>1, <2>2 DEF Holds
    <3>2. reference[r] \in References BY <2>1 DEF WorkspaceInv, PrepareInv, Typed
    <3>3. \E k \in Kernel, key \in DOMAIN Workload : reference[r] = Shaped(k, key)
      <4>1. NoReference.state # "shaped" /\ PartOfFile.state # "shaped" BY DEF NoReference, PartOfFile
      <4>2. \A k \in Kernel : Copied(k).state # "shaped" BY DEF Copied, NoReference
      <4>3. \A kk \in Kernel \X DOMAIN Workload : kk[1] \in Kernel /\ kk[2] \in DOMAIN Workload
        OBVIOUS
      <4> QED BY <3>1, <3>2, <4>1, <4>2, <4>3 DEF References
    <3>4. manifest.key \in DOMAIN Workload /\ reference[r].configs = Configs(manifest.key)
      BY <3>1, <3>3 DEF Shaped
    <3>5. Configs(manifest.key) = ExpandShapeConfigs(Workload[manifest.key])
      BY <2>2 DEF Configs
    <3> QED BY <3>4, <3>5, ExpandCovers
  <2> QED BY <2>1, <2>2 DEF Holds, ManifestIsTrue
<1> QED BY <1>1, WorkspaceInvariant, FilesAreTyped, PTL

\* A finished prepare for which the workload gives no category has every earlier
\* run of its kernel, under any of the kernel's names, in the summary of its root.
THEOREM SummariesHavePriorRuns == Spec => []SummaryHasPriorRuns
<1>1. WorkspaceInv => SummaryHasPriorRuns
  BY DEF WorkspaceInv, PrepareInv, Wanted, SummaryHasPriorRuns
<1> QED BY <1>1, WorkspaceInvariant, PTL

\* In the apply loop a patch not reached yet applies unless its stretch has
\* changed since the patches were made, whatever others edit and wherever the
\* loop fails.
THEOREM AppliesAreChecked == Spec => []ApplyIsChecked
<1>1. WorkspaceInv => ApplyIsChecked BY DEF WorkspaceInv, PatchInv
<1> QED BY <1>1, WorkspaceInvariant, PTL
=============================================================================
