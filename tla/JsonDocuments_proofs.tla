------------------------ MODULE JsonDocuments_proofs ------------------------
(***************************************************************************)
(* Proofs about JsonDocuments, for any keys, texts and numbers of objects    *)
(* and nodes: every value of every document is reachable once, by a path      *)
(* whose values are of the kinds that the path takes them for; each IJson      *)
(* object is deleted once; a call invalidates no object but those below what    *)
(* it rewrites, and leaves copies alone.                                     *)
(***************************************************************************)
EXTENDS JsonDocuments, SequenceTheorems, FunctionTheorems, FiniteSetTheorems,
        WellFoundedInduction, TLAPS

-----------------------------------------------------------------------------
(* What documents are. *)

NodesOf(doc) == {doc[p].node : p \in DOMAIN doc}

\* A tree whose nodes are numbered apart; the document of an object that owns
\* none is the empty one.
IsTree(doc) ==
  /\ IsShape(Shape(doc))
  /\ \A p \in DOMAIN doc : doc[p] \in [kind : Kinds, node : Nat \ {0}]
  /\ \A p, q \in DOMAIN doc : doc[p].node = doc[q].node => p = q

DocumentsInv ==
  /\ nodes \in Nat
  /\ DOMAIN content = Object
  /\ \A h \in Object : IsTree(content[h]) /\ NodesOf(content[h]) \subseteq 1 .. nodes
  /\ \A g, h \in Object : g # h => NodesOf(content[g]) \cap NodesOf(content[h]) = {}

-----------------------------------------------------------------------------
(* Paths. *)

LEMMA PathTypes ==
  ASSUME NEW p \in Path
  PROVE  /\ Len(p) \in Nat
         /\ p = Nothing <=> Len(p) = 0
         /\ p # Nothing => Front(p) \in Path /\ Len(Front(p)) = Len(p) - 1
                           /\ Last(p) \in Key \cup Nat
                           /\ \A i \in 1 .. Len(p) - 1 : Front(p)[i] = p[i]
<1>1. Len(p) \in Nat /\ (p = Nothing <=> Len(p) = 0)
  BY EmptySeq DEF Path, Nothing
<1>2. ASSUME p # Nothing
      PROVE  /\ Front(p) \in Path /\ Len(Front(p)) = Len(p) - 1
             /\ \A i \in 1 .. Len(p) - 1 : Front(p)[i] = p[i]
  <2> DEFINE n == Len(p) - 1
             S == Key \cup Nat
  <2>1. n \in Nat /\ n < Len(p) /\ n = Len(p) - 1 /\ p \in Seq(S)
    BY <1>1, <1>2 DEF Path
  <2> HIDE DEF n, S
  <2>2. /\ SubSeq(p, 1, n) \in Seq(S) /\ Len(SubSeq(p, 1, n)) = n
        /\ \A i \in 1 .. n : SubSeq(p, 1, n)[i] = p[i]
    BY <2>1
  <2> QED BY <2>1, <2>2 DEF Path, Front, S, n
<1>3. ASSUME p # Nothing
      PROVE  Last(p) \in Key \cup Nat
  BY <1>1, <1>3 DEF Path, Last
<1> QED BY <1>1, <1>2, <1>3

LEMMA Concatenation ==
  ASSUME NEW p \in Path, NEW q \in Path
  PROVE  /\ p \o q \in Path
         /\ Len(p \o q) = Len(p) + Len(q)
         /\ \A i \in 1 .. Len(p) : (p \o q)[i] = p[i]
         /\ \A i \in 1 .. Len(q) : (p \o q)[Len(p) + i] = q[i]
  BY DEF Path

\* Paths with the same steps are the same.
LEMMA SamePath ==
  ASSUME NEW p \in Path, NEW q \in Path, Len(p) = Len(q), \A i \in 1 .. Len(p) : p[i] = q[i]
  PROVE  p = q
  BY SeqEqual DEF Path

\* What is left of p below path.
Below(p, path) == SubSeq(p, Len(path) + 1, Len(p))

\* Below(p, path) is the rest of p.
LEMMA BelowIs ==
  ASSUME NEW p \in Path, NEW path \in Path, Len(path) <= Len(p)
  PROVE  /\ Below(p, path) \in Path
         /\ Len(Below(p, path)) = Len(p) - Len(path)
         /\ \A i \in 1 .. Len(p) - Len(path) : Below(p, path)[i] = p[Len(path) + i]
  BY DEF Path, Below

\* IsPrefix on paths, step by step.
LEMMA PrefixIs ==
  ASSUME NEW p \in Path, NEW path \in Path
  PROVE  IsPrefix(path, p) <=>
           Len(path) <= Len(p) /\ \A i \in 1 .. Len(path) : path[i] = p[i]
<1>1. ASSUME Len(path) <= Len(p)
      PROVE  /\ SubSeq(p, 1, Len(path)) \in Path
             /\ Len(SubSeq(p, 1, Len(path))) = Len(path)
             /\ \A i \in 1 .. Len(path) : SubSeq(p, 1, Len(path))[i] = p[i]
  BY <1>1 DEF Path
<1>2. SubSeq(path, 1, Len(path)) = path
  BY SubSeqFull DEF Path
<1>3. ASSUME Len(path) <= Len(p), \A i \in 1 .. Len(path) : path[i] = p[i]
      PROVE  path = SubSeq(p, 1, Len(path))
  BY <1>1, <1>3, SamePath
<1>4. ASSUME Len(path) <= Len(p), path = SubSeq(p, 1, Len(path))
      PROVE  \A i \in 1 .. Len(path) : path[i] = p[i]
  BY <1>1, <1>4
<1> QED BY <1>2, <1>3, <1>4 DEF IsPrefix

\* Joining a path to another and cutting it off again.
LEMMA JoinSplit ==
  ASSUME NEW path \in Path
  PROVE  /\ \A q \in Path : IsPrefix(path, path \o q) /\ Below(path \o q, path) = q
         /\ \A p \in Path : IsPrefix(path, p) =>
              Below(p, path) \in Path /\ path \o Below(p, path) = p
         /\ \A q \in Path : path \o q = path <=> q = Nothing
         /\ path \o Nothing = path
<1>1. ASSUME NEW q \in Path
      PROVE  IsPrefix(path, path \o q) /\ Below(path \o q, path) = q
  <2> DEFINE j == path \o q
  <2>1. /\ j \in Path /\ Len(j) = Len(path) + Len(q)
        /\ \A i \in 1 .. Len(path) : j[i] = path[i]
        /\ \A i \in 1 .. Len(q) : j[Len(path) + i] = q[i]
        /\ Len(path) \in Nat /\ Len(q) \in Nat
    BY Concatenation, PathTypes
  <2> HIDE DEF j
  <2>2. IsPrefix(path, j)
    BY <2>1, PrefixIs
  <2>3. /\ Below(j, path) \in Path /\ Len(Below(j, path)) = Len(j) - Len(path)
        /\ \A i \in 1 .. Len(j) - Len(path) : Below(j, path)[i] = j[Len(path) + i]
    <3>1. Len(path) <= Len(j)
      BY <2>1
    <3> QED BY <2>1, <3>1, BelowIs
  <2>4. Len(Below(j, path)) = Len(q) /\ \A i \in 1 .. Len(q) : Below(j, path)[i] = q[i]
    BY <2>1, <2>3
  <2>5. Below(j, path) = q
    BY <2>3, <2>4, SamePath
  <2> QED BY <2>2, <2>5 DEF j
<1>2. ASSUME NEW p \in Path, IsPrefix(path, p)
      PROVE  Below(p, path) \in Path /\ path \o Below(p, path) = p
  <2>1. /\ Len(path) \in Nat /\ Len(p) \in Nat /\ Len(path) <= Len(p)
        /\ \A i \in 1 .. Len(path) : path[i] = p[i]
    BY <1>2, PrefixIs, PathTypes
  <2> DEFINE b == Below(p, path)
             j == path \o b
  <2>2. /\ b \in Path /\ Len(b) = Len(p) - Len(path)
        /\ \A i \in 1 .. Len(p) - Len(path) : b[i] = p[Len(path) + i]
    BY <2>1, BelowIs
  <2> HIDE DEF b
  <2>3. /\ j \in Path /\ Len(j) = Len(p)
        /\ \A i \in 1 .. Len(path) : j[i] = path[i]
        /\ \A i \in 1 .. Len(b) : j[Len(path) + i] = b[i]
    BY <2>1, <2>2, Concatenation
  <2> HIDE DEF j
  <2>4. ASSUME NEW i \in 1 .. Len(p)
        PROVE  j[i] = p[i]
    <3>1. CASE i <= Len(path)
      BY <2>1, <2>3, <3>1
    <3>2. CASE i > Len(path)
      <4>1. i - Len(path) \in 1 .. Len(b) /\ i - Len(path) \in 1 .. Len(p) - Len(path)
            /\ i = Len(path) + (i - Len(path))
        BY <2>1, <2>2, <3>2
      <4> QED BY <2>2, <2>3, <4>1
    <3> QED BY <2>1, <3>1, <3>2
  <2>5. j = p
    BY <2>3, <2>4, SamePath
  <2> QED BY <2>2, <2>5 DEF b, j
<1>3. ASSUME NEW q \in Path
      PROVE  path \o q = path <=> q = Nothing
  <2>1. path \o Nothing = path
    BY DEF Nothing, Path
  <2>2. ASSUME path \o q = path
        PROVE  q = Nothing
    BY <2>2, Concatenation, PathTypes
  <2> QED BY <2>1, <2>2
<1>4. path \o Nothing = path
  BY DEF Nothing, Path
<1> QED BY <1>1, <1>2, <1>3, <1>4

\* Below one path, different rests are different paths.
LEMMA JoinInjective ==
  ASSUME NEW path \in Path, NEW q \in Path, NEW r \in Path, path \o q = path \o r
  PROVE  q = r
<1>1. Below(path \o q, path) = q /\ Below(path \o r, path) = r
  BY JoinSplit
<1> QED BY <1>1

LEMMA LastStep ==
  ASSUME NEW path \in Path, NEW q \in Path, q # Nothing
  PROVE  /\ path \o q # Nothing
         /\ Front(path \o q) = path \o Front(q)
         /\ Last(path \o q) = Last(q)
         /\ \A k \in Key \cup Nat : path \o Append(q, k) = Append(path \o q, k)
  BY DEF Path, Front, Last, Nothing

LEMMA Appended ==
  ASSUME NEW p \in Path, NEW k \in Key \cup Nat
  PROVE  /\ Append(p, k) \in Path /\ Append(p, k) # Nothing
         /\ Len(Append(p, k)) = Len(p) + 1
         /\ Front(Append(p, k)) = p /\ Last(Append(p, k)) = k
  BY DEF Path, Front, Last, Nothing

\* A path that is not below another stays so further up.
LEMMA PrefixOfFront ==
  ASSUME NEW path \in Path, NEW p \in Path, p # Nothing
  PROVE  /\ IsPrefix(path, Front(p)) => IsPrefix(path, p)
         /\ IsPrefix(path, p) /\ path # p => IsPrefix(path, Front(p))
<1> DEFINE f == Front(p)
<1>1. /\ Len(p) \in Nat /\ Len(path) \in Nat
      /\ f \in Path /\ Len(f) = Len(p) - 1 /\ \A i \in 1 .. Len(p) - 1 : f[i] = p[i]
  BY PathTypes
<1> HIDE DEF f
<1>2. /\ IsPrefix(path, f) <=>
           Len(path) <= Len(f) /\ \A i \in 1 .. Len(path) : path[i] = f[i]
      /\ IsPrefix(path, p) <=>
           Len(path) <= Len(p) /\ \A i \in 1 .. Len(path) : path[i] = p[i]
  BY <1>1, PrefixIs
<1>3. IsPrefix(path, p) /\ path # p => Len(path) # Len(p)
  BY <1>2, SamePath
<1> QED BY <1>1, <1>2, <1>3 DEF f

\* Of two paths with the same one above, neither is below the other.
LEMMA Siblings ==
  ASSUME NEW p \in Path, NEW q \in Path, p # Nothing, q # Nothing, Front(p) = Front(q),
         IsPrefix(p, q)
  PROVE  p = q
<1>1. Len(p) \in Nat /\ Len(q) \in Nat /\ Len(Front(p)) = Len(p) - 1
      /\ Len(Front(q)) = Len(q) - 1
  BY PathTypes
<1>2. Len(p) = Len(q) /\ \A i \in 1 .. Len(p) : p[i] = q[i]
  BY <1>1, PrefixIs
<1> QED BY <1>2, SamePath

\* Of two paths above a third, one is above the other.
LEMMA PrefixesMeet ==
  ASSUME NEW p \in Path, NEW q \in Path, NEW r \in Path, IsPrefix(p, r), IsPrefix(q, r)
  PROVE  IsPrefix(p, q) \/ IsPrefix(q, p)
<1>1. /\ Len(p) \in Nat /\ Len(q) \in Nat
      /\ \A i \in 1 .. Len(p) : p[i] = r[i]
      /\ \A i \in 1 .. Len(q) : q[i] = r[i]
  BY PathTypes, PrefixIs
<1>2. CASE Len(p) <= Len(q)
  <2>1. \A i \in 1 .. Len(p) : p[i] = q[i]
    BY <1>1, <1>2
  <2> QED BY <1>2, <2>1, PrefixIs
<1>3. CASE Len(q) <= Len(p)
  <2>1. \A i \in 1 .. Len(q) : q[i] = p[i]
    BY <1>1, <1>3
  <2> QED BY <1>3, <2>1, PrefixIs
<1> QED BY <1>1, <1>2, <1>3

\* A path above another and below it is that one; one above a third is above what is
\* above it.
LEMMA PrefixOrder ==
  ASSUME NEW p \in Path, NEW q \in Path, IsPrefix(p, q)
  PROVE  /\ IsPrefix(q, p) => p = q
         /\ \A r \in Path : IsPrefix(q, r) => IsPrefix(p, r)
<1>1. /\ Len(p) \in Nat /\ Len(q) \in Nat /\ Len(p) <= Len(q)
      /\ \A i \in 1 .. Len(p) : p[i] = q[i]
  BY PathTypes, PrefixIs
<1>2. ASSUME IsPrefix(q, p)
      PROVE  p = q
  <2>1. Len(q) <= Len(p)
    BY <1>2, PrefixIs
  <2>2. Len(p) = Len(q)
    BY <1>1, <2>1
  <2> QED BY <1>1, <2>2, SamePath
<1>3. ASSUME NEW r \in Path, IsPrefix(q, r)
      PROVE  IsPrefix(p, r)
  <2>1. Len(r) \in Nat /\ Len(q) <= Len(r) /\ \A i \in 1 .. Len(q) : q[i] = r[i]
    BY <1>3, PathTypes, PrefixIs
  <2>2. Len(p) <= Len(r) /\ \A i \in 1 .. Len(p) : p[i] = r[i]
    BY <1>1, <2>1
  <2> QED BY <2>2, PrefixIs
<1> QED BY <1>2, <1>3

LEMMA JoinAppend ==
  ASSUME NEW path \in Path, NEW q \in Path, NEW k \in Key \cup Nat
  PROVE  path \o Append(q, k) = Append(path \o q, k)
  BY DEF Path

-----------------------------------------------------------------------------
(* Shapes: what is cut out of one, what is left, and what is put in. *)

\* The image of a finite set is finite.
LEMMA FiniteImage ==
  ASSUME NEW S, IsFiniteSet(S), NEW f, NEW T,
         \A x \in S : f[x] \in T, \A y \in T : \E x \in S : y = f[x]
  PROVE  IsFiniteSet(T)
<1> DEFINE g == [x \in S |-> f[x]]
<1>1. g \in Surjection(S, T)
  BY DEF Surjection
<1> QED BY <1>1, FS_Surjection

\* What a path of a shape may rely on.
LEMMA ShapeParts ==
  ASSUME NEW s, IsShape(s)
  PROVE  /\ IsFiniteSet(DOMAIN s)
         /\ \A p \in DOMAIN s : p \in Path /\ s[p] \in Kinds
         /\ \A p \in DOMAIN s : p # Nothing =>
              /\ Front(p) \in DOMAIN s /\ s[Front(p)] = ParentKind(p)
              /\ Last(p) \notin Key =>
                   \A i \in 0 .. Last(p) - 1 : Append(Front(p), i) \in DOMAIN s
  BY DEF IsShape, Attached

\* What is below a path of a shape is a shape.
LEMMA SubShape ==
  ASSUME NEW s, IsShape(s), NEW path \in DOMAIN s, NEW t,
         DOMAIN t = {Below(p, path) : p \in {p \in DOMAIN s : IsPrefix(path, p)}},
         \A q \in DOMAIN t : t[q] = s[path \o q]
  PROVE  /\ IsShape(t)
         /\ Nothing \in DOMAIN t
         /\ \A q \in Path : q \in DOMAIN t <=> path \o q \in DOMAIN s
<1>1. path \in Path /\ \A p \in DOMAIN s : p \in Path
  BY ShapeParts
<1>2. ASSUME NEW q \in DOMAIN t
      PROVE  q \in Path /\ path \o q \in DOMAIN s
  <2>1. PICK p \in DOMAIN s : IsPrefix(path, p) /\ q = Below(p, path)
    OBVIOUS
  <2> QED BY <1>1, <2>1, JoinSplit
<1>3. ASSUME NEW q \in Path, path \o q \in DOMAIN s
      PROVE  q \in DOMAIN t
  <2>1. IsPrefix(path, path \o q) /\ q = Below(path \o q, path)
    BY <1>1, JoinSplit
  <2> QED BY <1>3, <2>1
<1>4. Nothing \in DOMAIN t
  <2>1. Nothing \in Path /\ path \o Nothing = path
    BY <1>1, JoinSplit DEF Nothing, Path
  <2> QED BY <1>3, <2>1
<1>5. IsFiniteSet(DOMAIN t)
  <2> DEFINE S == {p \in DOMAIN s : IsPrefix(path, p)}
             f == [p \in S |-> Below(p, path)]
  <2>1. IsFiniteSet(S)
    BY FS_Subset, ShapeParts
  <2>2. /\ \A p \in S : f[p] \in DOMAIN t
        /\ \A q \in DOMAIN t : \E p \in S : q = f[p]
    OBVIOUS
  <2> HIDE DEF S, f
  <2> QED BY <2>1, <2>2, FiniteImage
<1>6. ASSUME NEW q \in DOMAIN t, q # Nothing
      PROVE  Attached(t, q)
  <2> DEFINE p == path \o q
  <2>1. q \in Path /\ p \in DOMAIN s /\ p \in Path /\ Front(q) \in Path /\ Last(q) \in Key \cup Nat
    BY <1>1, <1>2, <1>6, PathTypes
  <2>2. p # Nothing /\ Front(p) = path \o Front(q) /\ Last(p) = Last(q)
    BY <1>1, <1>6, <2>1, LastStep
  <2> HIDE DEF p
  <2>3. /\ Front(p) \in DOMAIN s /\ s[Front(p)] = ParentKind(p)
        /\ Last(p) \notin Key => \A i \in 0 .. Last(p) - 1 : Append(Front(p), i) \in DOMAIN s
    BY <2>1, <2>2, ShapeParts
  <2>4. Front(q) \in DOMAIN t /\ t[Front(q)] = ParentKind(q)
    BY <1>3, <2>1, <2>2, <2>3 DEF ParentKind
  <2>5. ASSUME Last(q) \notin Key, NEW i \in 0 .. Last(q) - 1
        PROVE  Append(Front(q), i) \in DOMAIN t
    <3>1. i \in Nat /\ Append(Front(p), i) \in DOMAIN s
      BY <2>1, <2>2, <2>3, <2>5
    <3>2. Append(Front(q), i) \in Path
      BY <2>1, <3>1, Appended
    <3>3. path \o Append(Front(q), i) = Append(path \o Front(q), i)
      BY <1>1, <2>1, <3>1, JoinAppend
    <3> QED BY <1>3, <2>2, <3>1, <3>2, <3>3
  <2> QED BY <2>4, <2>5 DEF Attached
<1>7. \A q \in DOMAIN t : t[q] \in Kinds
  BY <1>2, ShapeParts
<1> QED BY <1>2, <1>3, <1>4, <1>5, <1>6, <1>7 DEF IsShape

\* Taking a member away leaves a shape.
LEMMA PrunedShape ==
  ASSUME NEW s, IsShape(s), NEW path \in Path, path # Nothing, Last(path) \in Key, NEW w,
         DOMAIN w = {p \in DOMAIN s : ~IsPrefix(path, p)}, \A p \in DOMAIN w : w[p] = s[p]
  PROVE  IsShape(w)
<1>1. IsFiniteSet(DOMAIN w)
  BY FS_Subset, ShapeParts
<1>2. ASSUME NEW p \in DOMAIN w, p # Nothing
      PROVE  Attached(w, p)
  <2>1. p \in DOMAIN s /\ p \in Path /\ ~IsPrefix(path, p) /\ Front(p) \in Path
        /\ Last(p) \in Key \cup Nat
    BY <1>2, ShapeParts, PathTypes
  <2>2. ~IsPrefix(path, Front(p))
    BY <1>2, <2>1, PrefixOfFront
  <2>3. Front(p) \in DOMAIN w /\ w[Front(p)] = ParentKind(p)
    BY <1>2, <2>1, <2>2, ShapeParts
  <2>4. ASSUME Last(p) \notin Key, NEW i \in 0 .. Last(p) - 1
        PROVE  Append(Front(p), i) \in DOMAIN w
    <3> DEFINE x == Append(Front(p), i)
    <3>1. i \in Nat /\ x \in DOMAIN s
      BY <1>2, <2>1, <2>4, ShapeParts
    <3>2. x \in Path /\ x # Nothing /\ Front(x) = Front(p) /\ Last(x) = i
      BY <2>1, <3>1, Appended
    <3> HIDE DEF x
    <3>3. path # x
      BY <3>1, <3>2, JsonAssumption
    <3>4. ~IsPrefix(path, x)
      BY <2>2, <3>2, <3>3, PrefixOfFront
    <3> QED BY <3>1, <3>4 DEF x
  <2> QED BY <2>3, <2>4 DEF Attached
<1>3. \A p \in DOMAIN w : p \in Path /\ w[p] \in Kinds
  BY ShapeParts
<1> QED BY <1>1, <1>2, <1>3 DEF IsShape

\* Putting a shape at a path that is the root, is there, or comes next, in the place
\* of what was below it, makes a shape.
LEMMA GraftedShape ==
  ASSUME NEW s, IsShape(s), NEW path \in Path, path # Nothing => Attached(s, path),
         NEW t, IsShape(t), Nothing \in DOMAIN t, NEW w,
         DOMAIN w = {p \in DOMAIN s : ~IsPrefix(path, p)} \cup {path \o q : q \in DOMAIN t},
         \A p \in DOMAIN s : ~IsPrefix(path, p) => w[p] = s[p],
         \A q \in DOMAIN t : w[path \o q] = t[q]
  PROVE  IsShape(w)
<1> DEFINE A == {p \in DOMAIN s : ~IsPrefix(path, p)}
           B == {path \o q : q \in DOMAIN t}
<1>1. IsFiniteSet(DOMAIN w)
  <2> DEFINE f == [q \in DOMAIN t |-> path \o q]
  <2>1. IsFiniteSet(A) /\ IsFiniteSet(DOMAIN t)
    BY FS_Subset, ShapeParts
  <2>2. /\ \A q \in DOMAIN t : f[q] \in B
        /\ \A p \in B : \E q \in DOMAIN t : p = f[q]
    OBVIOUS
  <2>3. IsFiniteSet(B)
    <3> HIDE DEF f, B
    <3> QED BY <2>1, <2>2, FiniteImage
  <2>4. DOMAIN w = A \cup B
    OBVIOUS
  <2> HIDE DEF A, B
  <2>5. IsFiniteSet(A \cup B)
    BY <2>1, <2>3, FS_Union
  <2> QED BY <2>4, <2>5
<1>2. ASSUME NEW p \in A
      PROVE  p \in Path /\ w[p] \in Kinds /\ (p # Nothing => Attached(w, p))
  <2>1. p \in DOMAIN s /\ p \in Path /\ ~IsPrefix(path, p) /\ w[p] \in Kinds
    BY ShapeParts
  <2>2. ASSUME p # Nothing
        PROVE  Attached(w, p)
    <3>1. Front(p) \in Path /\ Last(p) \in Key \cup Nat /\ ~IsPrefix(path, Front(p))
      BY <2>1, <2>2, PathTypes, PrefixOfFront
    <3>2. Front(p) \in DOMAIN w /\ w[Front(p)] = ParentKind(p)
      BY <2>1, <2>2, <3>1, ShapeParts
    <3>3. ASSUME Last(p) \notin Key, NEW i \in 0 .. Last(p) - 1
          PROVE  Append(Front(p), i) \in DOMAIN w
      <4> DEFINE x == Append(Front(p), i)
      <4>1. i \in Nat /\ x \in DOMAIN s
        BY <2>1, <2>2, <3>1, <3>3, ShapeParts
      <4>2. x \in Path /\ x # Nothing /\ Front(x) = Front(p)
        BY <3>1, <4>1, Appended
      <4> HIDE DEF x
      <4>3. IsPrefix(path, x) => x = path \o Nothing
        BY <3>1, <4>2, PrefixOfFront, JoinSplit
      <4> QED BY <4>1, <4>3 DEF x
    <3> QED BY <3>2, <3>3 DEF Attached
  <2> QED BY <2>1, <2>2
<1>3. ASSUME NEW q \in DOMAIN t
      PROVE  LET p == path \o q
             IN  p \in Path /\ w[p] \in Kinds /\ (p # Nothing => Attached(w, p))
  <2> DEFINE p == path \o q
  <2>1. q \in Path /\ p \in Path /\ w[p] \in Kinds
    BY ShapeParts, Concatenation
  <2>2. CASE q = Nothing
    <3>1. p = path
      BY <2>2, JoinSplit
    <3>2. ASSUME path # Nothing
          PROVE  Attached(w, path)
      <4>1. /\ Front(path) \in DOMAIN s /\ s[Front(path)] = ParentKind(path)
            /\ Last(path) \notin Key =>
                 \A i \in 0 .. Last(path) - 1 : Append(Front(path), i) \in DOMAIN s
        BY <3>2 DEF Attached
      <4>2. Front(path) \in Path /\ Last(path) \in Key \cup Nat /\ ~IsPrefix(path, Front(path))
        BY <3>2, PathTypes, PrefixIs
      <4>3. ASSUME Last(path) \notin Key, NEW i \in 0 .. Last(path) - 1
            PROVE  Append(Front(path), i) \in DOMAIN w
        <5> DEFINE x == Append(Front(path), i)
        <5>1. i \in Nat /\ x \in DOMAIN s /\ i # Last(path)
          BY <4>1, <4>2, <4>3
        <5>2. x \in Path /\ x # Nothing /\ Front(x) = Front(path) /\ Last(x) = i
          BY <4>2, <5>1, Appended
        <5> HIDE DEF x
        <5>3. ~IsPrefix(path, x)
          BY <3>2, <5>1, <5>2, Siblings
        <5> QED BY <5>1, <5>3 DEF x
      <4> QED BY <4>1, <4>2, <4>3 DEF Attached
    <3> QED BY <2>1, <3>1, <3>2
  <2>3. CASE q # Nothing
    <3>1. Front(q) \in Path /\ Last(q) \in Key \cup Nat
      BY <2>1, <2>3, PathTypes
    <3>2. p # Nothing /\ Front(p) = path \o Front(q) /\ Last(p) = Last(q)
      BY <2>1, <2>3, LastStep
    <3>3. /\ Front(q) \in DOMAIN t /\ t[Front(q)] = ParentKind(q)
          /\ Last(q) \notin Key => \A i \in 0 .. Last(q) - 1 : Append(Front(q), i) \in DOMAIN t
      BY <2>3, ShapeParts
    <3> HIDE DEF p
    <3>4. Front(p) \in DOMAIN w /\ w[Front(p)] = ParentKind(p)
      BY <3>2, <3>3 DEF ParentKind
    <3>5. ASSUME Last(p) \notin Key, NEW i \in 0 .. Last(p) - 1
          PROVE  Append(Front(p), i) \in DOMAIN w
      <4>1. i \in Nat /\ Append(Front(q), i) \in DOMAIN t
        BY <3>1, <3>2, <3>3, <3>5
      <4>2. path \o Append(Front(q), i) = Append(Front(p), i)
        BY <3>1, <3>2, <4>1, JoinAppend
      <4> QED BY <4>1, <4>2
    <3> QED BY <2>1, <3>4, <3>5 DEF Attached, p
  <2> QED BY <2>2, <2>3
<1>4. ASSUME NEW p \in DOMAIN w
      PROVE  p \in Path /\ w[p] \in Kinds /\ (p # Nothing => Attached(w, p))
  <2>1. CASE p \in A
    BY <1>2, <2>1
  <2>2. CASE p \in B
    BY <1>3, <2>2
  <2> QED BY <2>1, <2>2
<1> QED BY <1>1, <1>4 DEF IsShape

LEMMA SameShape ==
  ASSUME NEW s, IsShape(s), NEW t, DOMAIN t = DOMAIN s, \A p \in DOMAIN s : t[p] = s[p]
  PROVE  IsShape(t)
  BY DEF IsShape, Attached

LEMMA ShapeOf ==
  ASSUME NEW doc
  PROVE  DOMAIN Shape(doc) = DOMAIN doc /\ \A p \in DOMAIN doc : Shape(doc)[p] = doc[p].kind
  BY DEF Shape

-----------------------------------------------------------------------------
(* Documents: shapes with nodes. *)

\* New nodes are numbered apart, from the given number on.
LEMMA FreshIs ==
  ASSUME NEW shape, IsShape(shape), NEW first \in Nat
  PROVE  /\ Cardinality(DOMAIN shape) \in Nat
         /\ DOMAIN Fresh(shape, first) = DOMAIN shape
         /\ \A p \in DOMAIN shape :
              /\ Fresh(shape, first)[p].kind = shape[p]
              /\ Fresh(shape, first)[p] \in [kind : Kinds, node : Nat \ {0}]
              /\ Fresh(shape, first)[p].node
                   \in first + 1 .. first + Cardinality(DOMAIN shape)
         /\ IsTree(Fresh(shape, first))
<1> DEFINE D == DOMAIN shape
           n == Cardinality(D)
           number == CHOOSE f \in [D -> 1 .. n] : IsInjective(f)
           doc == Fresh(shape, first)
<1>1. n \in Nat /\ ExistsBijection(1 .. n, D)
  BY ShapeParts, FS_CardinalityType
<1>2. number \in [D -> 1 .. n] /\ IsInjective(number)
  <2>1. ExistsBijection(D, 1 .. n)
    BY <1>1, Fun_ExistsBijSymmetric
  <2>2. PICK f \in [D -> 1 .. n] : IsInjective(f)
    BY <2>1 DEF ExistsBijection, Bijection, Injection
  <2> HIDE DEF D, n
  <2> QED BY <2>2
<1>3. doc = [p \in D |-> [kind |-> shape[p], node |-> first + number[p]]]
  BY DEF Fresh
<1> HIDE DEF number, n, doc
<1>4. \A p \in D : number[p] \in 1 .. n
  BY <1>2
<1>5. DOMAIN doc = D
  BY <1>3
<1>6. ASSUME NEW p \in D
      PROVE  /\ doc[p].kind = shape[p]
             /\ doc[p] \in [kind : Kinds, node : Nat \ {0}]
             /\ doc[p].node \in first + 1 .. first + n
             /\ doc[p].node = first + number[p]
  <2>1. doc[p] = [kind |-> shape[p], node |-> first + number[p]] /\ shape[p] \in Kinds
    BY <1>3, ShapeParts
  <2>2. number[p] \in Nat \ {0} /\ first + number[p] \in first + 1 .. first + n
        /\ first + number[p] \in Nat \ {0}
    BY <1>1, <1>4
  <2> QED BY <2>1, <2>2
<1>7. ASSUME NEW p \in D, NEW q \in D, doc[p].node = doc[q].node
      PROVE  p = q
  <2>1. number[p] = number[q]
    BY <1>4, <1>6, <1>7
  <2> QED BY <1>2, <2>1 DEF IsInjective
<1>8. IsShape(Shape(doc))
  BY <1>5, <1>6, ShapeOf, SameShape
<1>9. IsTree(doc)
  BY <1>5, <1>6, <1>7, <1>8 DEF IsTree
<1> QED BY <1>1, <1>5, <1>6, <1>9 DEF doc, n

LEMMA TreeParts ==
  ASSUME NEW doc, IsTree(doc)
  PROVE  /\ IsShape(Shape(doc))
         /\ \A p \in DOMAIN doc : /\ p \in Path /\ doc[p] \in [kind : Kinds, node : Nat \ {0}]
                                  /\ doc[p].node \in NodesOf(doc)
         /\ \A p, q \in DOMAIN doc : doc[p].node = doc[q].node => p = q
  BY ShapeParts, ShapeOf DEF IsTree, NodesOf

\* A tree put in at a path: a node that is at the path stays, in place of the root
\* of the tree.
PutIn(w, doc, path, tree) ==
  /\ DOMAIN w = {p \in DOMAIN doc : ~IsPrefix(path, p)} \cup {path \o q : q \in DOMAIN tree}
  /\ \A p \in DOMAIN doc : ~IsPrefix(path, p) => w[p] = doc[p]
  /\ path \in DOMAIN doc => w[path] = [doc[path] EXCEPT !.kind = tree[Nothing].kind]
  /\ path \notin DOMAIN doc => w[path] = tree[Nothing]
  /\ \A q \in DOMAIN tree : q # Nothing => w[path \o q] = tree[q]

\* WithTree() puts a tree in, as PutIn says.
LEMMA WithTreeIs ==
  ASSUME NEW doc, IsTree(doc), NEW path \in Path, NEW tree, IsTree(tree),
         Nothing \in DOMAIN tree
  PROVE  PutIn(WithTree(doc, path, tree), doc, path, tree)
<1> DEFINE w == WithTree(doc, path, tree)
           D == {p \in DOMAIN doc : ~IsPrefix(path, p)} \cup {path \o q : q \in DOMAIN tree}
<1>1. \A q \in DOMAIN tree : q \in Path
  BY TreeParts
<1>2. w = [p \in D |->
             IF p = path /\ path \in DOMAIN doc THEN [doc[p] EXCEPT !.kind = tree[Nothing].kind]
             ELSE IF IsPrefix(path, p) THEN tree[Below(p, path)]
             ELSE doc[p]]
  BY DEF WithTree, WithoutTree, Below
<1>3. \A p \in DOMAIN doc : p \in Path
  BY TreeParts
<1>4. IsPrefix(path, path) /\ path \o Nothing = path /\ Below(path, path) = Nothing
  <2>1. Nothing \in Path
    BY <1>1
  <2>2. path \o Nothing = path
    BY JoinSplit
  <2>3. IsPrefix(path, path \o Nothing) /\ Below(path \o Nothing, path) = Nothing
    BY <2>1, JoinSplit
  <2> QED BY <2>2, <2>3
<1>5. path \in D
  BY <1>4
<1>6. ASSUME NEW q \in DOMAIN tree, q # Nothing
      PROVE  path \o q # path /\ IsPrefix(path, path \o q) /\ Below(path \o q, path) = q
  BY <1>1, <1>6, JoinSplit
<1> HIDE DEF w
<1>7. DOMAIN w = D
  BY <1>2
<1>8. \A p \in DOMAIN doc : ~IsPrefix(path, p) => w[p] = doc[p]
  BY <1>2, <1>4
<1>9. path \in DOMAIN doc => w[path] = [doc[path] EXCEPT !.kind = tree[Nothing].kind]
  BY <1>2, <1>5
<1>10. path \notin DOMAIN doc => w[path] = tree[Nothing]
  BY <1>2, <1>4, <1>5
<1>11. \A q \in DOMAIN tree : q # Nothing => w[path \o q] = tree[q]
  BY <1>2, <1>6
<1>12. PutIn(w, doc, path, tree)
  BY <1>7, <1>8, <1>9, <1>10, <1>11 DEF PutIn
<1> QED BY <1>12 DEF w

\* Putting in a tree whose nodes are new makes a tree, of the nodes that were there
\* and not below, and of the new ones.
LEMMA GraftedTree ==
  ASSUME NEW doc, IsTree(doc), NEW path \in Path,
         path # Nothing => Attached(Shape(doc), path),
         NEW tree, IsTree(tree), Nothing \in DOMAIN tree,
         \A q \in DOMAIN tree : q # Nothing \/ path \notin DOMAIN doc
                                  => tree[q].node \notin NodesOf(doc),
         NEW w, w = WithTree(doc, path, tree)
  PROVE  /\ IsTree(w)
         /\ path \in DOMAIN w
         /\ \A p \in DOMAIN w :
              \/ \E r \in DOMAIN doc : /\ w[p].node = doc[r].node
                                       /\ IsPrefix(path, r) => r = path
              \/ \E q \in DOMAIN tree : /\ w[p].node = tree[q].node
                                        /\ q # Nothing \/ path \notin DOMAIN doc
<1> DEFINE A == {p \in DOMAIN doc : ~IsPrefix(path, p)}
           Old(p) == p \in DOMAIN doc /\ w[p].node = doc[p].node /\ (~IsPrefix(path, p) \/ p = path)
           New(p, q) == /\ q \in DOMAIN tree /\ p = path \o q /\ w[p].node = tree[q].node
                        /\ q # Nothing \/ path \notin DOMAIN doc
<1>1. /\ DOMAIN w = A \cup {path \o q : q \in DOMAIN tree}
      /\ \A p \in A : w[p] = doc[p]
      /\ path \in DOMAIN doc => w[path] = [doc[path] EXCEPT !.kind = tree[Nothing].kind]
      /\ path \notin DOMAIN doc => w[path] = tree[Nothing]
      /\ \A q \in DOMAIN tree : q # Nothing => w[path \o q] = tree[q]
  <2>1. PutIn(w, doc, path, tree)
    BY WithTreeIs
  <2> QED BY <2>1 DEF PutIn
<1>2. /\ \A p \in DOMAIN doc : p \in Path /\ doc[p] \in [kind : Kinds, node : Nat \ {0}]
      /\ \A q \in DOMAIN tree : q \in Path /\ tree[q] \in [kind : Kinds, node : Nat \ {0}]
      /\ \A p \in DOMAIN doc : doc[p].node \in NodesOf(doc)
      /\ \A p, q \in DOMAIN doc : doc[p].node = doc[q].node => p = q
      /\ \A p, q \in DOMAIN tree : tree[p].node = tree[q].node => p = q
  BY TreeParts
<1>3. path \o Nothing = path
  BY JoinSplit
<1>4. ASSUME path \in DOMAIN doc
      PROVE  /\ w[path] \in [kind : Kinds, node : Nat \ {0}]
             /\ w[path].node = doc[path].node /\ w[path].kind = tree[Nothing].kind
  BY <1>1, <1>2, <1>4
<1>5. ASSUME NEW p \in DOMAIN w
      PROVE  /\ w[p] \in [kind : Kinds, node : Nat \ {0}]
             /\ Old(p) \/ \E q \in DOMAIN tree : New(p, q)
  <2>1. CASE p \in A
    BY <1>1, <1>2, <2>1
  <2>2. ASSUME NEW q \in DOMAIN tree, p = path \o q
        PROVE  /\ w[p] \in [kind : Kinds, node : Nat \ {0}]
               /\ Old(p) \/ New(p, q)
    <3>1. CASE q # Nothing
      BY <1>1, <1>2, <2>2, <3>1
    <3>2. CASE q = Nothing /\ path \in DOMAIN doc
      BY <1>3, <1>4, <2>2, <3>2
    <3>3. CASE q = Nothing /\ path \notin DOMAIN doc
      BY <1>1, <1>2, <1>3, <2>2, <3>3
    <3> QED BY <3>1, <3>2, <3>3
  <2> QED BY <1>1, <2>1, <2>2
<1>6. ASSUME NEW p \in DOMAIN w, NEW r \in DOMAIN w, w[p].node = w[r].node
      PROVE  p = r
  <2>1. CASE Old(p) /\ Old(r)
    BY <1>2, <1>6, <2>1
  <2>2. ASSUME NEW q1 \in DOMAIN tree, New(p, q1), NEW q2 \in DOMAIN tree, New(r, q2)
        PROVE  p = r
    BY <1>2, <1>6, <2>2
  <2>3. ASSUME Old(p), NEW q \in DOMAIN tree, New(r, q)
        PROVE  FALSE
    BY <1>2, <1>6, <2>3
  <2>4. ASSUME Old(r), NEW q \in DOMAIN tree, New(p, q)
        PROVE  FALSE
    BY <1>2, <1>6, <2>4
  <2> HIDE DEF Old, New
  <2> QED BY <1>5, <2>1, <2>2, <2>3, <2>4
<1>7. IsShape(Shape(w))
  <2> DEFINE s == Shape(doc)
             t == Shape(tree)
             x == Shape(w)
  <2>1. /\ IsShape(s) /\ IsShape(t)
        /\ DOMAIN s = DOMAIN doc /\ DOMAIN t = DOMAIN tree /\ DOMAIN x = DOMAIN w
        /\ \A p \in DOMAIN doc : s[p] = doc[p].kind
        /\ \A p \in DOMAIN tree : t[p] = tree[p].kind
        /\ \A p \in DOMAIN w : x[p] = w[p].kind
    BY ShapeOf, TreeParts
  <2>2. path # Nothing => Attached(s, path)
    OBVIOUS
  <2> HIDE DEF s, t, x
  <2>3. \A p \in DOMAIN s : ~IsPrefix(path, p) => x[p] = s[p]
    BY <1>1, <2>1
  <2>4. ASSUME NEW q \in DOMAIN t
        PROVE  x[path \o q] = t[q]
    <3>1. CASE q # Nothing
      <4>1. q \in DOMAIN tree /\ path \o q \in DOMAIN w
        BY <1>1, <2>1
      <4>2. w[path \o q] = tree[q]
        BY <1>1, <3>1, <4>1
      <4> QED BY <2>1, <4>1, <4>2
    <3>2. CASE q = Nothing
      <4>1. path \o q = path /\ path \in DOMAIN w
        BY <1>1, <1>3, <2>1, <3>2
      <4>2. w[path].kind = tree[Nothing].kind
        BY <1>1, <1>4
      <4> QED BY <2>1, <3>2, <4>1, <4>2
    <3> QED BY <3>1, <3>2
  <2>5. DOMAIN x = {p \in DOMAIN s : ~IsPrefix(path, p)} \cup {path \o q : q \in DOMAIN t}
    BY <1>1, <2>1
  <2>6. Nothing \in DOMAIN t
    BY <2>1
  <2>7. IsShape(s) /\ IsShape(t)
    BY <2>1
  <2>8. IsShape(x)
    BY <2>2, <2>3, <2>4, <2>5, <2>6, <2>7, GraftedShape
  <2> QED BY <2>8 DEF x
<1>8. IsTree(w)
  BY <1>5, <1>6, <1>7 DEF IsTree
<1>9. ASSUME NEW p \in DOMAIN w
      PROVE  \/ \E r \in DOMAIN doc : w[p].node = doc[r].node /\ (IsPrefix(path, r) => r = path)
             \/ \E q \in DOMAIN tree : /\ w[p].node = tree[q].node
                                       /\ q # Nothing \/ path \notin DOMAIN doc
  BY <1>5
<1>10. path \in DOMAIN w
  BY <1>1, <1>3
<1> QED BY <1>8, <1>9, <1>10

\* What is below a path is a tree.
LEMMA SubTreeIs ==
  ASSUME NEW doc, IsTree(doc), NEW path \in DOMAIN doc
  PROVE  /\ IsTree(SubTree(doc, path))
         /\ Nothing \in DOMAIN SubTree(doc, path)
         /\ \A q \in DOMAIN SubTree(doc, path) :
              /\ q \in Path /\ path \o q \in DOMAIN doc
              /\ SubTree(doc, path)[q] = doc[path \o q]
<1> DEFINE t == SubTree(doc, path)
           D == {Below(p, path) : p \in {p \in DOMAIN doc : IsPrefix(path, p)}}
<1>1. t = [q \in D |-> doc[path \o q]]
  BY DEF SubTree, Below
<1> HIDE DEF t
<1>2. path \in Path /\ \A p \in DOMAIN doc : p \in Path
  BY TreeParts
<1>3. DOMAIN t = D /\ \A q \in DOMAIN t : t[q] = doc[path \o q]
  BY <1>1
<1>4. ASSUME NEW q \in DOMAIN t
      PROVE  q \in Path /\ path \o q \in DOMAIN doc
  <2>1. PICK p \in DOMAIN doc : IsPrefix(path, p) /\ q = Below(p, path)
    BY <1>3
  <2> QED BY <1>2, <2>1, JoinSplit
<1>5. IsShape(Shape(t)) /\ Nothing \in DOMAIN t
  <2> DEFINE s == Shape(doc)
             x == Shape(t)
  <2>1. /\ IsShape(s) /\ DOMAIN s = DOMAIN doc /\ DOMAIN x = DOMAIN t
        /\ \A p \in DOMAIN doc : s[p] = doc[p].kind
        /\ \A q \in DOMAIN t : x[q] = t[q].kind
    BY ShapeOf, TreeParts
  <2> HIDE DEF s, x
  <2>2. DOMAIN x = {Below(p, path) : p \in {p \in DOMAIN s : IsPrefix(path, p)}}
    BY <1>3, <2>1
  <2>3. \A q \in DOMAIN x : x[q] = s[path \o q]
    BY <1>3, <1>4, <2>1
  <2>4. path \in DOMAIN s
    BY <2>1
  <2>5. IsShape(x) /\ Nothing \in DOMAIN x
    BY <2>1, <2>2, <2>3, <2>4, SubShape
  <2> QED BY <2>1, <2>5 DEF x
<1>6. \A q \in DOMAIN t : t[q] \in [kind : Kinds, node : Nat \ {0}]
  BY <1>3, <1>4, TreeParts
<1>7. ASSUME NEW q \in DOMAIN t, NEW r \in DOMAIN t, t[q].node = t[r].node
      PROVE  q = r
  <2>1. path \o q \in DOMAIN doc /\ path \o r \in DOMAIN doc
    BY <1>4
  <2>2. doc[path \o q].node = doc[path \o r].node
    BY <1>3, <1>7
  <2>3. \A p, x \in DOMAIN doc : doc[p].node = doc[x].node => p = x
    BY TreeParts
  <2>4. path \o q = path \o r
    BY <2>1, <2>2, <2>3
  <2> QED BY <1>2, <1>4, <2>4, JoinInjective
<1>8. IsTree(t)
  BY <1>5, <1>6, <1>7 DEF IsTree
<1> QED BY <1>3, <1>4, <1>5, <1>8 DEF t

\* Removing a member leaves a tree of nodes that were there.
LEMMA WithoutTreeIs ==
  ASSUME NEW doc, IsTree(doc), NEW path \in Path, path # Nothing, Last(path) \in Key
  PROVE  /\ IsTree(WithoutTree(doc, path))
         /\ NodesOf(WithoutTree(doc, path)) \subseteq NodesOf(doc)
<1> DEFINE w == WithoutTree(doc, path)
<1>1. /\ DOMAIN w = {p \in DOMAIN doc : ~IsPrefix(path, p)}
      /\ \A p \in DOMAIN w : p \in DOMAIN doc /\ w[p] = doc[p]
  BY DEF WithoutTree
<1> HIDE DEF w
<1>2. IsShape(Shape(w))
  <2> DEFINE s == Shape(doc)
             x == Shape(w)
  <2>1. /\ IsShape(s) /\ DOMAIN s = DOMAIN doc /\ DOMAIN x = DOMAIN w
        /\ \A p \in DOMAIN doc : s[p] = doc[p].kind
        /\ \A p \in DOMAIN w : x[p] = w[p].kind
    BY ShapeOf, TreeParts
  <2> HIDE DEF s, x
  <2>2. DOMAIN x = {p \in DOMAIN s : ~IsPrefix(path, p)}
    BY <1>1, <2>1
  <2>3. \A p \in DOMAIN x : x[p] = s[p]
    BY <1>1, <2>1
  <2>4. IsShape(x)
    BY <2>1, <2>2, <2>3, PrunedShape
  <2> QED BY <2>4 DEF x
<1>3. IsTree(w)
  BY <1>1, <1>2 DEF IsTree
<1>4. NodesOf(w) \subseteq NodesOf(doc)
  BY <1>1 DEF NodesOf
<1> QED BY <1>3, <1>4 DEF w

\* The first access to a member makes an object of a null: nothing is below it.
Rekinded(doc, path) == [doc EXCEPT ![path].kind = "object"]

\* Making an object of a null leaves a tree of the same nodes.
LEMMA RekindedTree ==
  ASSUME NEW doc, IsTree(doc), NEW path \in DOMAIN doc, doc[path].kind \in {"object", "null"}
  PROVE  /\ IsTree(Rekinded(doc, path))
         /\ DOMAIN Rekinded(doc, path) = DOMAIN doc
         /\ NodesOf(Rekinded(doc, path)) = NodesOf(doc)
         /\ Rekinded(doc, path)[path].kind = "object"
<1> DEFINE w == Rekinded(doc, path)
<1>1. /\ path \in Path
      /\ \A p \in DOMAIN doc : /\ p \in Path /\ doc[p] \in [kind : Kinds, node : Nat \ {0}]
                               /\ doc[p].node \in NodesOf(doc)
  BY TreeParts
<1>2. /\ DOMAIN w = DOMAIN doc
      /\ \A p \in DOMAIN doc : p # path => w[p] = doc[p]
      /\ w[path] = [doc[path] EXCEPT !.kind = "object"]
  BY DEF Rekinded
<1> HIDE DEF w
<1>3. /\ w[path] \in [kind : Kinds, node : Nat \ {0}]
      /\ w[path].kind = "object" /\ w[path].node = doc[path].node
  BY <1>1, <1>2 DEF Kinds
<1>4. \A p \in DOMAIN doc : w[p].node = doc[p].node
                            /\ w[p] \in [kind : Kinds, node : Nat \ {0}]
  BY <1>1, <1>2, <1>3
<1>5. IsShape(Shape(w))
  <2> DEFINE s == Shape(doc)
             x == Shape(w)
  <2>1. /\ IsShape(s) /\ DOMAIN s = DOMAIN doc /\ DOMAIN x = DOMAIN w
        /\ \A p \in DOMAIN doc : s[p] = doc[p].kind
        /\ \A p \in DOMAIN w : x[p] = w[p].kind
    BY ShapeOf, TreeParts
  <2> HIDE DEF s, x
  <2>2. /\ DOMAIN x = DOMAIN s /\ \A p \in DOMAIN s : p # path => x[p] = s[p]
        /\ x[path] = "object" /\ s[path] \in {"object", "null"}
    BY <1>2, <1>3, <2>1
  <2>3. ASSUME NEW p \in DOMAIN s, p # Nothing
        PROVE  Attached(x, p)
    <3>1. Attached(s, p)
      BY <2>1, <2>3 DEF IsShape
    <3>2. x[Front(p)] = ParentKind(p)
      BY <2>2, <3>1 DEF Attached, ParentKind
    <3> QED BY <2>2, <3>1, <3>2 DEF Attached
  <2>4. \A p \in DOMAIN s : x[p] \in Kinds
    BY <1>2, <1>4, <2>1
  <2>5. IsShape(x)
    BY <2>1, <2>2, <2>3, <2>4 DEF IsShape
  <2> QED BY <2>5 DEF x
<1>6. IsTree(w)
  <2>1. \A p, q \in DOMAIN doc : doc[p].node = doc[q].node => p = q
    BY TreeParts
  <2> QED BY <1>2, <1>4, <1>5, <2>1 DEF IsTree
<1>7. NodesOf(w) = NodesOf(doc)
  BY <1>2, <1>4 DEF NodesOf
<1> QED BY <1>2, <1>3, <1>6, <1>7 DEF w

\* A text or a copy into which a member was put that is not there yet.
LEMMA ExtendedShape ==
  ASSUME NEW s, IsShape(s), NEW path \in Path, path # Nothing, path \notin DOMAIN s,
         Last(path) \in Key, Front(path) \in DOMAIN s, s[Front(path)] \in {"object", "null"},
         NEW w, DOMAIN w = DOMAIN s \cup {path}, w[path] = "null",
         w[Front(path)] = "object", \A p \in DOMAIN s : p # Front(path) => w[p] = s[p]
  PROVE  IsShape(w)
<1>1. IsFiniteSet(DOMAIN w)
  BY FS_AddElement, ShapeParts
<1>2. Attached(w, path)
  BY DEF Attached, ParentKind
<1>3. ASSUME NEW p \in DOMAIN s, p # Nothing
      PROVE  Attached(w, p)
  <2>1. Attached(s, p)
    BY <1>3 DEF IsShape
  <2>2. w[Front(p)] = ParentKind(p)
    BY <2>1 DEF Attached, ParentKind
  <2> QED BY <2>1, <2>2 DEF Attached
<1>4. \A p \in DOMAIN w : p \in Path /\ w[p] \in Kinds
  BY ShapeParts DEF Kinds
<1> QED BY <1>1, <1>2, <1>3, <1>4 DEF IsShape

-----------------------------------------------------------------------------
(* The elements of an array: as many as there are, numbered from 0.           *)

\* An image has no more members than what it is the image of.
LEMMA ImageIsSmall ==
  ASSUME NEW n \in Nat, NEW f
  PROVE  /\ IsFiniteSet({f[x] : x \in 0 .. n - 1})
         /\ Cardinality({f[x] : x \in 0 .. n - 1}) <= n
<1> DEFINE S == 0 .. n - 1
           T == {f[x] : x \in S}
           g == [x \in S |-> f[x]]
<1>1. IsFiniteSet(S) /\ Cardinality(S) = n
  <2>1. CASE n = 0
    BY <2>1, FS_EmptySet
  <2>2. CASE n # 0
    BY <2>2, FS_Interval
  <2> QED BY <2>1, <2>2
<1>2. g \in Surjection(S, T)
  BY DEF Surjection
<1> HIDE DEF S, T, g
<1>3. IsFiniteSet(T) /\ Cardinality(T) <= Cardinality(S)
  BY <1>1, <1>2, FS_Surjection
<1> QED BY <1>1, <1>3 DEF S, T

\* An array of n elements has those numbered from 0 to n - 1.
LEMMA ElementsAreThere ==
  ASSUME NEW s, IsShape(s), NEW path \in DOMAIN s, s[path] = "array", NEW i \in Nat,
         i < Cardinality({p \in DOMAIN s : Len(p) = Len(path) + 1 /\ IsPrefix(path, p)})
  PROVE  Append(path, i) \in DOMAIN s
<1> DEFINE C == {p \in DOMAIN s : Len(p) = Len(path) + 1 /\ IsPrefix(path, p)}
           f == [k \in 0 .. i - 1 |-> Append(path, k)]
           T == {f[k] : k \in 0 .. i - 1}
<1>1. path \in Path /\ Len(path) \in Nat
  BY ShapeParts, PathTypes
<1> SUFFICES ASSUME Append(path, i) \notin DOMAIN s
             PROVE  FALSE
  OBVIOUS
<1>2. ASSUME NEW p \in C
      PROVE  p \in T
  <2>1. /\ p \in Path /\ p # Nothing /\ Len(p) = Len(path) + 1
        /\ Front(p) \in Path /\ Len(Front(p)) = Len(p) - 1
        /\ Last(p) \in Key \cup Nat
        /\ \A k \in 1 .. Len(p) - 1 : Front(p)[k] = p[k]
        /\ Front(p) \in DOMAIN s /\ s[Front(p)] = ParentKind(p)
        /\ Last(p) \notin Key =>
             \A k \in 0 .. Last(p) - 1 : Append(Front(p), k) \in DOMAIN s
    <3>1. p \in DOMAIN s /\ p \in Path /\ Len(p) = Len(path) + 1
      BY ShapeParts
    <3>2. p # Nothing
      BY <1>1, <3>1, PathTypes
    <3> QED BY <3>1, <3>2, ShapeParts, PathTypes
  <2>2. Front(p) = path
    <3>1. \A k \in 1 .. Len(path) : path[k] = p[k]
      BY <1>1, <2>1, PrefixIs
    <3>2. \A k \in 1 .. Len(Front(p)) : path[k] = Front(p)[k]
      BY <1>1, <2>1, <3>1
    <3> QED BY <1>1, <2>1, <3>2, SamePath
  <2>3. Last(p) \notin Key /\ Last(p) \in Nat
    BY <2>1, <2>2 DEF ParentKind
  <2>4. p = Append(path, Last(p))
    <3> DEFINE x == Append(path, Last(p))
    <3>1. x \in Path /\ x # Nothing /\ Front(x) = Front(p) /\ Last(x) = Last(p)
          /\ Len(x) = Len(p)
      BY <1>1, <2>1, <2>2, Appended
    <3>2. x[Len(x)] = p[Len(p)]
      BY <3>1 DEF Last
    <3>3. \A k \in 1 .. Len(x) - 1 : x[k] = p[k]
      <4> HIDE DEF x
      <4>1. \A k \in 1 .. Len(x) - 1 : Front(x)[k] = x[k]
        BY <3>1, PathTypes
      <4> QED BY <2>1, <3>1, <4>1
    <3> HIDE DEF x
    <3>4. \A k \in 1 .. Len(x) : x[k] = p[k]
      BY <1>1, <2>1, <3>1, <3>2, <3>3
    <3>5. x = p
      BY <2>1, <3>1, <3>4, SamePath
    <3> QED BY <3>5 DEF x
  <2>5. Last(p) < i
    <3>1. Last(p) # i
      BY <2>4
    <3>2. ASSUME i < Last(p)
          PROVE  FALSE
      BY <2>1, <2>2, <2>3, <3>2
    <3> QED BY <2>3, <3>1, <3>2
  <2>6. Last(p) \in 0 .. i - 1
    BY <2>3, <2>5
  <2> QED BY <2>4, <2>6
<1>3. IsFiniteSet(T) /\ Cardinality(T) <= i
  <2> HIDE DEF f
  <2> QED BY ImageIsSmall
<1>4. C \subseteq T /\ i < Cardinality(C)
  BY <1>2
<1> HIDE DEF C, T
<1>5. IsFiniteSet(C) /\ Cardinality(C) <= Cardinality(T)
  BY <1>3, <1>4, FS_Subset
<1>6. Cardinality(C) \in Nat /\ Cardinality(T) \in Nat
  BY <1>3, <1>5, FS_CardinalityType
<1> QED BY <1>3, <1>4, <1>5, <1>6

\* Where a value can be put: at a path that is there, as a member of an object, and
\* as the next element of an array.
LEMMA CanBePut ==
  ASSUME NEW doc, IsTree(doc), NEW path \in DOMAIN doc
  PROVE  /\ path # Nothing => Attached(Shape(doc), path)
         /\ \A k \in Key : doc[path].kind = "object" => Attached(Shape(doc), Append(path, k))
         /\ doc[path].kind = "array" =>
              /\ Size(doc, path) \in Nat
              /\ \A i \in Nat : i < Size(doc, path) => Append(path, i) \in DOMAIN doc
              /\ Attached(Shape(doc), Append(path, Size(doc, path)))
<1> DEFINE s == Shape(doc)
           C == {p \in DOMAIN s : Len(p) = Len(path) + 1 /\ IsPrefix(path, p)}
<1>1. /\ IsShape(s) /\ DOMAIN s = DOMAIN doc /\ s[path] = doc[path].kind /\ path \in Path
  BY ShapeOf, TreeParts
<1>2. Size(doc, path) = Cardinality(C)
  BY <1>1 DEF Size
<1> HIDE DEF s
<1>3. path # Nothing => Attached(s, path)
  BY <1>1 DEF IsShape
<1>4. ASSUME NEW k \in Key, doc[path].kind = "object"
      PROVE  Attached(s, Append(path, k))
  <2>1. Front(Append(path, k)) = path /\ Last(Append(path, k)) = k
    BY <1>1, Appended
  <2> QED BY <1>1, <1>4, <2>1 DEF Attached, ParentKind
<1>5. Cardinality(C) \in Nat
  BY <1>1, FS_Subset, FS_CardinalityType DEF IsShape
<1>6. ASSUME doc[path].kind = "array", NEW i \in Nat, i < Cardinality(C)
      PROVE  Append(path, i) \in DOMAIN s
  BY <1>1, <1>6, ElementsAreThere
<1>7. ASSUME doc[path].kind = "array"
      PROVE  Attached(s, Append(path, Cardinality(C)))
  <2> DEFINE n == Cardinality(C)
  <2>1. n \in Nat /\ n \notin Key
    BY <1>5, JsonAssumption
  <2>2. \A i \in 0 .. n - 1 : Append(path, i) \in DOMAIN s
    BY <1>6, <1>7, <2>1
  <2> HIDE DEF n
  <2>3. Front(Append(path, n)) = path /\ Last(Append(path, n)) = n
    BY <1>1, <2>1, Appended
  <2>4. Attached(s, Append(path, n))
    BY <1>1, <1>7, <2>1, <2>2, <2>3 DEF Attached, ParentKind
  <2> QED BY <2>4 DEF n
<1> QED BY <1>1, <1>2, <1>3, <1>4, <1>5, <1>6, <1>7 DEF s

-----------------------------------------------------------------------------
(* The documents of a state, and what the calls make of them.                 *)

\* What an object that is good refers to.
LEMMA Referred ==
  ASSUME DocumentsInv, NEW h, Valid(h)
  PROVE  /\ Holder(h) \in Object /\ Live(h)
         /\ DocOf(h) = content[Holder(h)] /\ IsTree(DocOf(h))
         /\ PathOf(h) \in DOMAIN DocOf(h) /\ PathOf(h) \in Path
         /\ KindOf(h) = DocOf(h)[PathOf(h)].kind
<1>1. Live(h) /\ \E g \in Object : Holds(g, h)
  BY DEF Valid
<1>2. Holder(h) \in Object /\ Holds(Holder(h), h)
  BY <1>1 DEF Holder
<1>3. DocOf(h) = content[Holder(h)] /\ IsTree(DocOf(h))
  BY <1>2 DEF DocOf, DocumentsInv
<1>4. \E p \in DOMAIN DocOf(h) : DocOf(h)[p].node = target[h]
  BY <1>2, <1>3 DEF Holds
<1>5. PathOf(h) \in DOMAIN DocOf(h)
  BY <1>4 DEF PathOf
<1>6. PathOf(h) \in Path
  BY <1>3, <1>5, TreeParts
<1> QED BY <1>1, <1>2, <1>3, <1>5, <1>6 DEF KindOf

LEMMA NodesAre ==
  ASSUME NEW doc
  PROVE  /\ \A n : n \in NodesOf(doc) <=> \E p \in DOMAIN doc : n = doc[p].node
         /\ \A p \in DOMAIN doc : doc[p].node \in NodesOf(doc)
  BY DEF NodesOf

\* The nodes that are kept by putting in a tree: all but those below the path.
LEMMA PutInKeeps ==
  ASSUME NEW w, NEW doc, NEW path, NEW tree, PutIn(w, doc, path, tree),
         path \o Nothing = path, Nothing \in DOMAIN tree,
         \A p \in DOMAIN doc : doc[p] \in [kind : Kinds, node : Nat \ {0}],
         NEW p \in DOMAIN doc, IsPrefix(path, p) => p = path
  PROVE  doc[p].node \in NodesOf(w)
<1>1. CASE ~IsPrefix(path, p)
  <2>1. p \in DOMAIN w /\ w[p] = doc[p]
    BY <1>1 DEF PutIn
  <2> QED BY <2>1, NodesAre
<1>2. CASE p = path
  <2>1. path \in DOMAIN w
    BY <1>2 DEF PutIn
  <2>2. w[path] = [doc[path] EXCEPT !.kind = tree[Nothing].kind]
    BY <1>2 DEF PutIn
  <2>3. w[path].node = doc[path].node
    BY <1>2, <2>2
  <2> QED BY <1>2, <2>1, <2>3, NodesAre
<1> QED BY <1>1, <1>2

\* One document changes, and has nodes of its own and new ones.
LEMMA OneDocument ==
  ASSUME DocumentsInv, NEW d \in Object, nodes' \in Nat, nodes <= nodes', NEW w, IsTree(w),
         \A n \in NodesOf(w) : n \in NodesOf(content[d]) \/ n \in nodes + 1 .. nodes',
         content' = [content EXCEPT ![d] = w]
  PROVE  DocumentsInv'
<1>1. /\ nodes \in Nat /\ DOMAIN content = Object
      /\ \A h \in Object : IsTree(content[h]) /\ NodesOf(content[h]) \subseteq 1 .. nodes
      /\ \A g, h \in Object : g # h => NodesOf(content[g]) \cap NodesOf(content[h]) = {}
  BY DEF DocumentsInv
<1>2. /\ DOMAIN content' = Object /\ content'[d] = w
      /\ \A h \in Object : h # d => content'[h] = content[h]
  BY <1>1
<1>3. NodesOf(w) \subseteq 1 .. nodes'
  BY <1>1
<1>4. \A h \in Object : IsTree(content'[h]) /\ NodesOf(content'[h]) \subseteq 1 .. nodes'
  <2>1. 1 .. nodes \subseteq 1 .. nodes'
    BY <1>1
  <2> QED BY <1>1, <1>2, <1>3, <2>1
<1>5. ASSUME NEW h \in Object, h # d
      PROVE  NodesOf(content'[h]) \cap NodesOf(content'[d]) = {}
  <2>1. content'[h] = content[h] /\ content'[d] = w
    BY <1>2, <1>5
  <2>2. NodesOf(content[h]) \subseteq 1 .. nodes
        /\ NodesOf(content[h]) \cap NodesOf(content[d]) = {}
    BY <1>1, <1>5
  <2>3. \A n \in 1 .. nodes : n \notin nodes + 1 .. nodes'
    BY <1>1
  <2> QED BY <2>1, <2>2, <2>3
<1>6. \A g, h \in Object : g # h => NodesOf(content'[g]) \cap NodesOf(content'[h]) = {}
  <2>1. ASSUME NEW g \in Object, NEW h \in Object, g # h
        PROVE  NodesOf(content'[g]) \cap NodesOf(content'[h]) = {}
    <3>1. CASE g # d /\ h # d
      BY <1>1, <1>2, <2>1, <3>1
    <3>2. CASE g = d
      <4>1. NodesOf(content'[h]) \cap NodesOf(content'[d]) = {}
        BY <1>5, <2>1, <3>2
      <4> QED BY <3>2, <4>1
    <3>3. CASE h = d
      BY <1>5, <2>1, <3>3
    <3> QED BY <3>1, <3>2, <3>3
  <2> QED BY <2>1
<1> QED BY <1>2, <1>4, <1>6 DEF DocumentsInv

\* A shape is put into a document in new nodes.
LEMMA PutFresh ==
  ASSUME DocumentsInv, NEW d \in Object, NEW doc, IsTree(doc),
         NodesOf(doc) = NodesOf(content[d]),
         NEW path \in Path, path # Nothing => Attached(Shape(doc), path),
         NEW shape, IsShape(shape), Nothing \in DOMAIN shape,
         nodes' = nodes + Cardinality(DOMAIN shape),
         content' = [content EXCEPT ![d] = WithTree(doc, path, Fresh(shape, nodes))]
  PROVE  /\ DocumentsInv' /\ nodes' \in Nat /\ nodes <= nodes'
         /\ path \in DOMAIN content'[d]
         /\ content'[d][path].node \in 1 .. nodes'
<1> DEFINE tree == Fresh(shape, nodes)
           w == WithTree(doc, path, tree)
<1>1. /\ nodes \in Nat /\ DOMAIN content = Object
      /\ NodesOf(doc) \subseteq 1 .. nodes
  BY DEF DocumentsInv
<1>2. /\ Cardinality(DOMAIN shape) \in Nat
      /\ DOMAIN tree = DOMAIN shape /\ IsTree(tree)
      /\ \A q \in DOMAIN tree :
           tree[q].node \in nodes + 1 .. nodes + Cardinality(DOMAIN shape)
  BY <1>1, FreshIs
<1>3. /\ nodes' \in Nat /\ nodes <= nodes'
      /\ \A q \in DOMAIN tree : tree[q].node \in nodes + 1 .. nodes'
  BY <1>1, <1>2
<1> HIDE DEF tree
<1>4. \A q \in DOMAIN tree : tree[q].node \notin NodesOf(doc)
  <2>1. \A n \in 1 .. nodes : n \notin nodes + 1 .. nodes'
    BY <1>1, <1>3
  <2> QED BY <1>1, <1>3, <2>1
<1>5. Nothing \in DOMAIN tree
  BY <1>2
<1>6. content' = [content EXCEPT ![d] = w]
  BY DEF tree
<1> HIDE DEF w
<1>7. /\ IsTree(w)
      /\ path \in DOMAIN w
      /\ \A p \in DOMAIN w :
           \/ \E r \in DOMAIN doc : w[p].node = doc[r].node
           \/ \E q \in DOMAIN tree : w[p].node = tree[q].node
  <2>1. w = WithTree(doc, path, tree)
    BY DEF w
  <2>2. /\ IsTree(w)
        /\ path \in DOMAIN w
        /\ \A p \in DOMAIN w :
             \/ \E r \in DOMAIN doc : /\ w[p].node = doc[r].node
                                      /\ IsPrefix(path, r) => r = path
             \/ \E q \in DOMAIN tree : /\ w[p].node = tree[q].node
                                       /\ q # Nothing \/ path \notin DOMAIN doc
    BY <1>2, <1>4, <1>5, <2>1, GraftedTree
  <2> QED BY <2>2
<1>8. ASSUME NEW p \in DOMAIN w
      PROVE  w[p].node \in NodesOf(content[d]) \/ w[p].node \in nodes + 1 .. nodes'
  <2>1. CASE \E r \in DOMAIN doc : w[p].node = doc[r].node
    BY <2>1, NodesAre
  <2>2. CASE \E q \in DOMAIN tree : w[p].node = tree[q].node
    BY <1>3, <2>2
  <2> QED BY <1>7, <2>1, <2>2
<1>9. \A n \in NodesOf(w) : n \in NodesOf(content[d]) \/ n \in nodes + 1 .. nodes'
  BY <1>8 DEF NodesOf
<1>10. DocumentsInv'
  BY <1>3, <1>6, <1>7, <1>9, OneDocument
<1>11. content'[d] = w
  BY <1>1, <1>6
<1>12. w[path].node \in 1 .. nodes'
  <2>1. w[path].node \in 1 .. nodes \/ w[path].node \in nodes + 1 .. nodes'
    BY <1>1, <1>7, <1>8
  <2> QED BY <1>1, <1>3, <2>1
<1> QED BY <1>3, <1>7, <1>10, <1>11, <1>12

\* What a call leaves: documents that are trees still, of nodes that are counted.
DocumentsStay == DocumentsInv' /\ nodes <= nodes' /\ nodes' <= MaxNodes /\ moved' \subseteq Object

\* What a call does with the objects: nothing, or it makes one for the caller.
SameObjects == UNCHANGED <<role, target, children, deletedTwice>>
MakesOne ==
  \E h \in Object, as \in {"child", "copy", "view"}, node \in 1 .. nodes' :
    Live(h) /\ CanCreate /\ HandOut(h, as, node) /\ deletedTwice' = deletedTwice

\* Calls that leave the documents as they are.
LEMMA NothingChanges ==
  ASSUME JsonTypeOK, DocumentsInv, UNCHANGED <<content, nodes, moved>>
  PROVE  DocumentsStay
<1>1. nodes \in Nat /\ nodes <= MaxNodes /\ moved \subseteq Object
  BY JsonAssumption DEF JsonTypeOK
<1>2. content' = content /\ nodes' = nodes /\ moved' = moved
  OBVIOUS
<1>3. DocumentsInv'
  BY <1>2 DEF DocumentsInv, IsTree, NodesOf, Shape
<1> QED BY <1>1, <1>2, <1>3 DEF DocumentsStay

LEMMA UnchangedStays ==
  ASSUME JsonTypeOK, DocumentsInv, NEW result, Unchanged(result)
  PROVE  DocumentsStay /\ SameObjects
<1>1. UNCHANGED <<role, content, target, children, nodes, deletedTwice, moved>>
  BY DEF Unchanged
<1> QED BY <1>1, NothingChanges DEF SameObjects

\* What is cut out of a document to be copied.
LEMMA CutIsShape ==
  ASSUME NEW doc, IsTree(doc), NEW path \in DOMAIN doc
  PROVE  /\ IsShape(Shape(SubTree(doc, path)))
         /\ Nothing \in DOMAIN Shape(SubTree(doc, path))
<1>1. IsTree(SubTree(doc, path)) /\ Nothing \in DOMAIN SubTree(doc, path)
  BY SubTreeIs
<1> HIDE DEF SubTree
<1> QED BY <1>1, TreeParts, ShapeOf

LEMMA LeafIsShape ==
  ASSUME NEW kind \in Kinds
  PROVE  IsShape(Leaf(kind)) /\ DOMAIN Leaf(kind) = {Nothing} /\ Cardinality(DOMAIN Leaf(kind)) = 1
<1>1. DOMAIN Leaf(kind) = {Nothing} /\ Leaf(kind)[Nothing] = kind
  BY DEF Leaf
<1>2. IsFiniteSet({Nothing}) /\ Cardinality({Nothing}) = 1
  BY FS_Singleton
<1>3. Nothing \in Path
  BY DEF Nothing, Path
<1> QED BY <1>1, <1>2, <1>3 DEF IsShape

\* Assigning a shape to a place of a document leaves documents.
LEMMA AssignStays ==
  ASSUME JsonTypeOK, DocumentsInv, NEW d \in Object,
         NEW path \in Path, path # Nothing => Attached(Shape(content[d]), path),
         NEW shape, IsShape(shape), Nothing \in DOMAIN shape,
         Assign(d, path, shape), moved' = moved
  PROVE  /\ DocumentsStay /\ path \in DOMAIN content'[d]
         /\ content'[d][path].node \in 1 .. nodes'
<1>1. /\ nodes' <= MaxNodes /\ nodes' = nodes + Cardinality(DOMAIN shape)
      /\ content' = [content EXCEPT ![d] = WithTree(content[d], path, Fresh(shape, nodes))]
  BY DEF Assign
<1>2. IsTree(content[d]) /\ moved \subseteq Object
  BY DEF DocumentsInv, JsonTypeOK
<1>3. /\ DocumentsInv' /\ nodes <= nodes' /\ path \in DOMAIN content'[d]
      /\ content'[d][path].node \in 1 .. nodes'
  BY <1>1, <1>2, PutFresh
<1> QED BY <1>1, <1>2, <1>3 DEF DocumentsStay

LEMMA AssignToStays ==
  ASSUME JsonTypeOK, DocumentsInv, NEW out, NEW shape, IsShape(shape), Nothing \in DOMAIN shape,
         AssignTo(out, shape)
  PROVE  DocumentsStay /\ SameObjects
<1>1. /\ Valid(out) /\ Assign(Holder(out), PathOf(out), shape)
      /\ UNCHANGED <<role, target, children, deletedTwice, moved>>
  BY DEF AssignTo, Writable
<1>2. /\ Holder(out) \in Object /\ IsTree(content[Holder(out)])
      /\ PathOf(out) \in DOMAIN content[Holder(out)] /\ PathOf(out) \in Path
  BY <1>1, Referred
<1>3. PathOf(out) # Nothing => Attached(Shape(content[Holder(out)]), PathOf(out))
  BY <1>2, CanBePut
<1>4. DocumentsStay
  BY <1>1, <1>2, <1>3, AssignStays
<1> QED BY <1>1, <1>4 DEF SameObjects

\* A member is put in.
LEMMA PutMemberStays ==
  ASSUME JsonTypeOK, DocumentsInv, NEW h, Valid(h), NEW k \in Key, NEW shape, IsShape(shape),
         Nothing \in DOMAIN shape, PutMember(h, k, shape), moved' = moved
  PROVE  /\ DocumentsStay /\ MemberPath(h, k) \in DOMAIN content'[Holder(h)]
         /\ content'[Holder(h)][MemberPath(h, k)].node \in 1 .. nodes'
<1> DEFINE d == Holder(h)
           doc == Rekinded(content[d], PathOf(h))
           path == MemberPath(h, k)
<1>1. /\ d \in Object /\ IsTree(content[d]) /\ DocOf(h) = content[d]
      /\ PathOf(h) \in DOMAIN content[d] /\ PathOf(h) \in Path
      /\ KindOf(h) = content[d][PathOf(h)].kind
  BY Referred
<1>2. /\ KindOf(h) \in {"object", "null"}
      /\ nodes' <= MaxNodes /\ nodes' = nodes + Cardinality(DOMAIN shape)
      /\ content' = [content EXCEPT ![d] = WithTree(doc, path, Fresh(shape, nodes))]
  BY DEF PutMember, CanLookUp, Rekinded
<1> HIDE DEF d
<1>3. /\ IsTree(doc) /\ NodesOf(doc) = NodesOf(content[d])
      /\ PathOf(h) \in DOMAIN doc /\ doc[PathOf(h)].kind = "object"
  BY <1>1, <1>2, RekindedTree
<1> HIDE DEF doc
<1>4. path \in Path /\ Attached(Shape(doc), path)
  BY <1>1, <1>3, Appended, CanBePut DEF MemberPath
<1> HIDE DEF path
<1>5. /\ DocumentsInv' /\ nodes <= nodes' /\ path \in DOMAIN content'[d]
      /\ content'[d][path].node \in 1 .. nodes'
  BY <1>1, <1>2, <1>3, <1>4, PutFresh
<1>6. moved \subseteq Object
  BY DEF JsonTypeOK
<1> QED BY <1>2, <1>5, <1>6 DEF DocumentsStay, d, path

\* So does what SetObject() and AppendObject() hand out.
LEMMA HandOutNewStays ==
  ASSUME NEW h \in Object, Live(h), NEW path, NEW effect,
         content'[Holder(h)][path].node \in 1 .. nodes', HandOutNew(h, path, effect)
  PROVE  (SameObjects \/ MakesOne) /\ moved' = moved
<1>1. CASE /\ CanCreate
           /\ HandOut(h, "child", content'[Holder(h)][path].node)
           /\ UNCHANGED <<deletedTwice, moved>>
  BY <1>1 DEF MakesOne
<1>2. CASE UNCHANGED <<role, target, children, deletedTwice, moved>>
  BY <1>2 DEF SameObjects
<1> QED BY <1>1, <1>2 DEF HandOutNew

-----------------------------------------------------------------------------
(* The calls, one by one. *)

Lasting == DocumentsStay /\ (SameObjects \/ MakesOne)

\* Create() and the copies of GetObject(key) and GetArray(key): a new document, in
\* the place of none.
LEMMA NewDocument ==
  ASSUME JsonTypeOK, DocumentsInv, NEW d \in Object, NEW shape, IsShape(shape),
         Nothing \in DOMAIN shape, moved' = moved,
         nodes + Cardinality(DOMAIN shape) <= MaxNodes,
         nodes' = nodes + Cardinality(DOMAIN shape),
         content' = [content EXCEPT ![d] = Fresh(shape, nodes)]
  PROVE  DocumentsStay /\ Fresh(shape, nodes)[Nothing].node \in 1 .. nodes'
<1> DEFINE w == Fresh(shape, nodes)
<1>1. nodes \in Nat /\ moved \subseteq Object
  BY DEF DocumentsInv, JsonTypeOK
<1>2. /\ Cardinality(DOMAIN shape) \in Nat
      /\ DOMAIN w = DOMAIN shape /\ IsTree(w)
      /\ \A q \in DOMAIN w : w[q].node \in nodes + 1 .. nodes + Cardinality(DOMAIN shape)
  BY <1>1, FreshIs
<1> HIDE DEF w
<1>3. /\ nodes' \in Nat /\ nodes <= nodes' /\ nodes' <= MaxNodes
      /\ \A q \in DOMAIN w : w[q].node \in nodes + 1 .. nodes' /\ w[q].node \in 1 .. nodes'
  BY <1>1, <1>2
<1>4. \A n \in NodesOf(w) : n \in nodes + 1 .. nodes'
  BY <1>3 DEF NodesOf
<1>5. content' = [content EXCEPT ![d] = w]
  BY DEF w
<1>6. DocumentsInv'
  BY <1>2, <1>3, <1>4, <1>5, OneDocument
<1> QED BY <1>1, <1>2, <1>3, <1>6 DEF DocumentsStay, w

\* A member that was found has a place in a document.
LEMMA MemberIsThere ==
  ASSUME DocumentsInv, NEW h, Valid(h), NEW k, NEW kind, HasMember(h, k, kind)
  PROVE  MemberPath(h, k) \in DOMAIN DocOf(h) /\ IsTree(DocOf(h))
  BY Referred DEF HasMember

LEMMA ElementIsThere ==
  ASSUME DocumentsInv, NEW h, Valid(h), NEW i \in Nat, HasElement(h, i)
  PROVE  Append(PathOf(h), i) \in DOMAIN DocOf(h) /\ IsTree(DocOf(h))
<1>1. /\ IsTree(DocOf(h)) /\ PathOf(h) \in DOMAIN DocOf(h)
      /\ DocOf(h)[PathOf(h)].kind = "array" /\ i < Size(DocOf(h), PathOf(h))
  BY Referred DEF HasElement
<1> QED BY <1>1, CanBePut

LEMMA CopyMemberLasts ==
  ASSUME JsonTypeOK, DocumentsInv, NEW h \in Object, NEW k \in Key, NEW kind,
         CopyMember(h, k, kind)
  PROVE  Lasting
<1>1. Valid(h)
  BY DEF CopyMember
<1>2. CASE LookUpFails(h, k, kind)
  BY <1>2, UnchangedStays DEF LookUpFails, Lasting
<1>3. CASE ~LookUpFails(h, k, kind)
  <2> DEFINE shape == Shape(SubTree(DocOf(h), MemberPath(h, k)))
             copy == Fresh(shape, nodes)
             node == copy[Nothing].node
  <2>1. /\ HasMember(h, k, kind) /\ CanCreate
        /\ nodes + Cardinality(DOMAIN shape) <= MaxNodes
        /\ nodes' = nodes + Cardinality(DOMAIN shape)
        /\ content' = [content EXCEPT ![NewObject] = copy]
        /\ HandOut(h, "copy", node)
        /\ deletedTwice' = deletedTwice /\ moved' = moved
    BY <1>3 DEF CopyMember
  <2>2. IsShape(shape) /\ Nothing \in DOMAIN shape
    BY <1>1, <2>1, MemberIsThere, CutIsShape
  <2>3. NewObject \in Object
    BY <2>1 DEF CanCreate, NewObject
  <2> HIDE DEF shape
  <2>4. DocumentsStay /\ node \in 1 .. nodes'
    BY <2>1, <2>2, <2>3, NewDocument
  <2> HIDE DEF node
  <2>5. Live(h)
    BY <1>1 DEF Valid
  <2>6. MakesOne
    BY <2>1, <2>4, <2>5 DEF MakesOne
  <2> QED BY <2>4, <2>6 DEF Lasting
<1> QED BY <1>2, <1>3

LEMMA GetObjectIntoLasts ==
  ASSUME JsonTypeOK, DocumentsInv, NEW h \in Object, NEW k \in Key, NEW out \in Object,
         GetObjectInto(h, k, out)
  PROVE  Lasting
<1>1. Valid(h)
  BY DEF GetObjectInto
<1>2. CASE LookUpFails(h, k, "object")
  BY <1>2, UnchangedStays DEF LookUpFails, Lasting
<1>3. CASE /\ HasMember(h, k, "object")
           /\ AssignTo(out, Shape(SubTree(DocOf(h), MemberPath(h, k))))
  <2>1. /\ IsShape(Shape(SubTree(DocOf(h), MemberPath(h, k))))
        /\ Nothing \in DOMAIN Shape(SubTree(DocOf(h), MemberPath(h, k)))
    BY <1>1, <1>3, MemberIsThere, CutIsShape
  <2> QED BY <1>3, <2>1, AssignToStays DEF Lasting
<1> QED BY <1>2, <1>3 DEF GetObjectInto

LEMMA GetElementLasts ==
  ASSUME JsonTypeOK, DocumentsInv, NEW h \in Object, NEW i \in Nat, GetElement(h, i)
  PROVE  Lasting
<1>1. Valid(h)
  BY DEF GetElement
<1>2. CASE Unchanged("refused")
  BY <1>2, UnchangedStays DEF Lasting
<1>3. CASE ~Unchanged("refused")
  <2> DEFINE node == DocOf(h)[Append(PathOf(h), i)].node
  <2>1. /\ HasElement(h, i) /\ CanCreate /\ HandOut(h, "view", node)
        /\ UNCHANGED <<content, nodes, deletedTwice, moved>>
    BY <1>3 DEF GetElement
  <2>2. Append(PathOf(h), i) \in DOMAIN DocOf(h) /\ IsTree(DocOf(h))
        /\ DocOf(h) = content[Holder(h)] /\ Holder(h) \in Object /\ Live(h)
    BY <1>1, <2>1, ElementIsThere, Referred
  <2>3. node \in NodesOf(content[Holder(h)])
    BY <2>2, TreeParts
  <2>4. node \in 1 .. nodes'
    BY <2>1, <2>2, <2>3 DEF DocumentsInv
  <2> HIDE DEF node
  <2>5. MakesOne
    BY <2>1, <2>2, <2>4 DEF MakesOne
  <2>6. DocumentsStay
    BY <2>1, NothingChanges
  <2> QED BY <2>5, <2>6 DEF Lasting
<1> QED BY <1>2, <1>3

LEMMA GetElementIntoLasts ==
  ASSUME JsonTypeOK, DocumentsInv, NEW h \in Object, NEW i \in Nat, NEW out \in Object,
         GetElementInto(h, i, out)
  PROVE  Lasting
<1>1. Valid(h)
  BY DEF GetElementInto
<1>2. CASE Unchanged("refused")
  BY <1>2, UnchangedStays DEF Lasting
<1>3. CASE /\ HasElement(h, i)
           /\ AssignTo(out, Shape(SubTree(DocOf(h), Append(PathOf(h), i))))
  <2>1. /\ IsShape(Shape(SubTree(DocOf(h), Append(PathOf(h), i))))
        /\ Nothing \in DOMAIN Shape(SubTree(DocOf(h), Append(PathOf(h), i)))
    BY <1>1, <1>3, ElementIsThere, CutIsShape
  <2> QED BY <1>3, <2>1, AssignToStays DEF Lasting
<1> QED BY <1>2, <1>3 DEF GetElementInto

\* SetValue() and its like.
LEMMA SetMemberLasts ==
  ASSUME JsonTypeOK, DocumentsInv, NEW h \in Object, NEW k \in Key, NEW shape, IsShape(shape),
         Nothing \in DOMAIN shape, SetMember(h, k, shape)
  PROVE  Lasting
<1>1. CASE Unchanged("refused")
  BY <1>1, UnchangedStays DEF Lasting
<1>2. CASE /\ PutMember(h, k, shape)
           /\ UNCHANGED <<role, target, children, deletedTwice, moved>>
  <2>1. Valid(h)
    BY DEF SetMember, Writable
  <2>2. DocumentsStay
    BY <1>2, <2>1, PutMemberStays
  <2> QED BY <1>2, <2>2 DEF Lasting, SameObjects
<1> QED BY <1>1, <1>2 DEF SetMember

LEMMA SetChildLasts ==
  ASSUME JsonTypeOK, DocumentsInv, NEW h \in Object, NEW k \in Key, NEW kind \in Kinds,
         SetChild(h, k, kind)
  PROVE  Lasting
<1>1. CASE Unchanged("refused")
  BY <1>1, UnchangedStays DEF Lasting
<1>2. CASE /\ PutMember(h, k, Leaf(kind))
           /\ HandOutNew(h, MemberPath(h, k), EffectAt(h, MemberPath(h, k)))
  <2>1. Valid(h) /\ Live(h)
    BY DEF SetChild, Writable, Valid
  <2>2. IsShape(Leaf(kind)) /\ Nothing \in DOMAIN Leaf(kind)
    BY LeafIsShape
  <2>3. moved' = moved
    BY <1>2 DEF HandOutNew
  <2>4. /\ DocumentsStay
        /\ content'[Holder(h)][MemberPath(h, k)].node \in 1 .. nodes'
    BY <1>2, <2>1, <2>2, <2>3, PutMemberStays
  <2>5. SameObjects \/ MakesOne
    BY <1>2, <2>1, <2>4, HandOutNewStays
  <2> QED BY <2>4, <2>5 DEF Lasting
<1> QED BY <1>1, <1>2 DEF SetChild

\* An array has a place for its next element.
LEMMA NextElementFits ==
  ASSUME DocumentsInv, NEW h, Valid(h), KindOf(h) = "array"
  PROVE  /\ NextElement(h) \in Path /\ Holder(h) \in Object
         /\ Attached(Shape(content[Holder(h)]), NextElement(h))
<1>1. /\ Holder(h) \in Object /\ IsTree(content[Holder(h)]) /\ DocOf(h) = content[Holder(h)]
      /\ PathOf(h) \in DOMAIN content[Holder(h)] /\ PathOf(h) \in Path
      /\ content[Holder(h)][PathOf(h)].kind = "array"
  BY Referred
<1>2. /\ Size(DocOf(h), PathOf(h)) \in Nat
      /\ Attached(Shape(content[Holder(h)]), Append(PathOf(h), Size(DocOf(h), PathOf(h))))
  BY <1>1, CanBePut
<1> QED BY <1>1, <1>2, Appended DEF NextElement

LEMMA AppendShapeLasts ==
  ASSUME JsonTypeOK, DocumentsInv, NEW h \in Object, NEW shape, IsShape(shape),
         Nothing \in DOMAIN shape, AppendShape(h, shape)
  PROVE  Lasting
<1>1. CASE Unchanged("refused")
  BY <1>1, UnchangedStays DEF Lasting
<1>2. CASE /\ KindOf(h) = "array"
           /\ Assign(Holder(h), NextElement(h), shape)
           /\ UNCHANGED <<role, target, children, deletedTwice, moved>>
  <2>1. Valid(h)
    BY DEF AppendShape, Writable
  <2>2. DocumentsStay
    BY <1>2, <2>1, NextElementFits, AssignStays
  <2> QED BY <1>2, <2>2 DEF Lasting, SameObjects
<1> QED BY <1>1, <1>2 DEF AppendShape

LEMMA AppendChildLasts ==
  ASSUME JsonTypeOK, DocumentsInv, NEW h \in Object, NEW kind \in Kinds, AppendChild(h, kind)
  PROVE  Lasting
<1>1. CASE Unchanged("refused")
  BY <1>1, UnchangedStays DEF Lasting
<1>2. CASE /\ KindOf(h) = "array"
           /\ Assign(Holder(h), NextElement(h), Leaf(kind))
           /\ HandOutNew(h, NextElement(h), "add")
  <2>1. Valid(h) /\ Live(h)
    BY DEF AppendChild, Writable, Valid
  <2>2. IsShape(Leaf(kind)) /\ Nothing \in DOMAIN Leaf(kind)
    BY LeafIsShape
  <2>3. moved' = moved
    BY <1>2 DEF HandOutNew
  <2>4. /\ DocumentsStay
        /\ content'[Holder(h)][NextElement(h)].node \in 1 .. nodes'
    BY <1>2, <2>1, <2>2, <2>3, NextElementFits, AssignStays
  <2>5. SameObjects \/ MakesOne
    BY <1>2, <2>1, <2>4, HandOutNewStays
  <2> QED BY <2>4, <2>5 DEF Lasting
<1> QED BY <1>1, <1>2 DEF AppendChild

LEMMA DeleteLasts ==
  ASSUME JsonTypeOK, DocumentsInv, NEW h \in Object, NEW k \in Key, Delete(h, k)
  PROVE  Lasting
<1>1. CASE Unchanged("threw")
  BY <1>1, UnchangedStays DEF Lasting
<1>2. CASE ~Unchanged("threw")
  <2> DEFINE d == Holder(h)
             path == MemberPath(h, k)
             w == WithoutTree(content[d], path)
  <2>1. /\ Valid(h)
        /\ content' = [content EXCEPT ![d] = w]
        /\ UNCHANGED <<role, target, children, nodes, deletedTwice, moved>>
    BY <1>2 DEF Delete, Writable
  <2>2. d \in Object /\ IsTree(content[d]) /\ PathOf(h) \in Path
    BY <2>1, Referred
  <2>3. path \in Path /\ path # Nothing /\ Last(path) \in Key
    BY <2>2, Appended DEF MemberPath
  <2> HIDE DEF path, d
  <2>4. IsTree(w) /\ NodesOf(w) \subseteq NodesOf(content[d])
    BY <2>2, <2>3, WithoutTreeIs
  <2> HIDE DEF w
  <2>5. nodes \in Nat /\ nodes' = nodes /\ nodes <= MaxNodes /\ moved' \subseteq Object
    BY <2>1, JsonAssumption DEF JsonTypeOK
  <2>6. nodes' \in Nat /\ nodes <= nodes'
    BY <2>5
  <2>7. \A n \in NodesOf(w) : n \in NodesOf(content[d]) \/ n \in nodes + 1 .. nodes'
    BY <2>4
  <2>8. content' = [content EXCEPT ![d] = w]
    BY <2>1
  <2>9. DocumentsInv'
    BY <2>2, <2>4, <2>6, <2>7, <2>8, OneDocument
  <2> QED BY <2>1, <2>5, <2>6, <2>9 DEF Lasting, DocumentsStay, SameObjects
<1> QED BY <1>1, <1>2

\* SetObject(key, pJson): the copy may have the member that was looked up.
LEMMA ShapeAfterLookUpIs ==
  ASSUME DocumentsInv, NEW h, NEW k \in Key, NEW src, Valid(h), Valid(src), CanLookUp(h)
  PROVE  /\ IsShape(ShapeAfterLookUp(h, k, src))
         /\ Nothing \in DOMAIN ShapeAfterLookUp(h, k, src)
<1> DEFINE top == PathOf(src)
           here == PathOf(h)
           path == SubSeq(MemberPath(h, k), Len(PathOf(src)) + 1, Len(PathOf(h)) + 1)
           shape == Shape(TreeOf(src))
           holds == Holder(src) = Holder(h) /\ IsPrefix(PathOf(src), PathOf(h))
           after == [p \in DOMAIN shape \cup {path} |->
                       IF p = path THEN "null"
                       ELSE IF Append(p, k) = path THEN "object"
                       ELSE shape[p]]
<1>1. /\ DocOf(src) = content[Holder(src)] /\ IsTree(DocOf(src))
      /\ top \in DOMAIN DocOf(src) /\ top \in Path
      /\ DocOf(h) = content[Holder(h)] /\ here \in DOMAIN DocOf(h) /\ here \in Path
      /\ DocOf(h)[here].kind \in {"object", "null"}
  BY Referred DEF CanLookUp
<1>2. IsShape(shape) /\ Nothing \in DOMAIN shape
  BY <1>1, CutIsShape DEF TreeOf
<1>3. ASSUME holds, path \notin DOMAIN shape
      PROVE  IsShape(after) /\ Nothing \in DOMAIN after
  <2> DEFINE up == Below(here, top)
             whole == MemberPath(h, k)
  <2>1. IsPrefix(top, here) /\ DocOf(h) = DocOf(src)
    BY <1>1, <1>3
  <2>2. /\ whole \in Path /\ whole # Nothing /\ Front(whole) = here
        /\ Len(whole) = Len(here) + 1
    BY <1>1, Appended DEF MemberPath
  <2>3. up \in Path /\ top \o up = here
    BY <1>1, <2>1, JoinSplit
  <2>4. path = Append(up, k)
    <3>1. top \o Append(up, k) = whole
      <4> HIDE DEF up
      <4> QED BY <1>1, <2>3, JoinAppend DEF MemberPath
    <3>2. Append(up, k) \in Path
      <4> HIDE DEF up
      <4> QED BY <2>3, Appended
    <3>3. Below(top \o Append(up, k), top) = Append(up, k)
      <4> HIDE DEF up
      <4> QED BY <1>1, <3>2, JoinSplit
    <3>4. path = Below(whole, top)
      BY <2>2 DEF Below
    <3> QED BY <3>1, <3>3, <3>4
  <2>5. /\ up \in DOMAIN shape
        /\ shape[up] \in {"object", "null"}
    <3> DEFINE t == SubTree(DocOf(src), top)
    <3>1. up \in DOMAIN t
      <4>1. DOMAIN t = {Below(p, top) : p \in {p \in DOMAIN DocOf(src) : IsPrefix(top, p)}}
        BY DEF SubTree, Below
      <4> HIDE DEF t
      <4> QED BY <1>1, <2>1, <4>1
    <3>2. t[up] = DocOf(src)[top \o up]
      <4> HIDE DEF up
      <4> QED BY <1>1, <3>1, SubTreeIs
    <3>3. shape = Shape(t)
      BY DEF TreeOf
    <3> HIDE DEF t, shape, up
    <3>4. DOMAIN shape = DOMAIN t /\ shape[up] = t[up].kind
      BY <3>1, <3>3, ShapeOf
    <3> QED BY <1>1, <2>1, <2>3, <3>1, <3>2, <3>4
  <2> HIDE DEF up, path, shape
  <2>6. path \in Path /\ path # Nothing /\ Front(path) = up /\ Last(path) = k
    BY <2>3, <2>4, Appended
  <2>7. \A p \in DOMAIN shape : p # up => Append(p, k) # path
    <3>1. \A p \in DOMAIN shape : p \in Path /\ Front(Append(p, k)) = p
      BY <1>2, ShapeParts, Appended
    <3> QED BY <2>6, <3>1
  <2>8. /\ DOMAIN after = DOMAIN shape \cup {path} /\ after[path] = "null"
        /\ after[up] = "object" /\ \A p \in DOMAIN shape : p # up => after[p] = shape[p]
    BY <1>3, <2>4, <2>5, <2>7
  <2> HIDE DEF after
  <2>9. IsShape(after)
    BY <1>2, <1>3, <2>5, <2>6, <2>8, ExtendedShape
  <2> QED BY <1>2, <2>8, <2>9
<1>4. ShapeAfterLookUp(h, k, src) = IF holds /\ path \notin DOMAIN shape THEN after ELSE shape
  BY DEF ShapeAfterLookUp
<1> HIDE DEF holds, path, shape, after
<1> QED BY <1>2, <1>3, <1>4

LEMMA SetJsonLasts ==
  ASSUME JsonTypeOK, DocumentsInv, NEW h \in Object, NEW k \in Key, NEW src \in Object,
         SetJson(h, k, src)
  PROVE  Lasting
<1>1. Valid(src) /\ Valid(h) /\ SetMember(h, k, ShapeAfterLookUp(h, k, src))
  BY DEF SetJson, Writable
<1>2. CASE CanLookUp(h)
  BY <1>1, <1>2, ShapeAfterLookUpIs, SetMemberLasts
<1>3. CASE ~CanLookUp(h)
  <2>1. Unchanged("refused")
    BY <1>1, <1>3 DEF SetMember, PutMember
  <2> QED BY <2>1, UnchangedStays DEF Lasting
<1> QED BY <1>2, <1>3

\* GetArray(key, pJson) exchanges what is below two places, or moves it and leaves a
\* null.
FromOutside(n, doc, path) ==
  \E r \in DOMAIN doc : n = doc[r].node /\ (IsPrefix(path, r) => r = path)
FromBelow(n, doc, path) ==
  \E r \in DOMAIN doc : n = doc[r].node /\ IsPrefix(path, r) /\ r # path

\* A node of the subtree of a path, but its root, comes from below the path.
LEMMA BelowNodes ==
  ASSUME NEW doc, IsTree(doc), NEW path \in DOMAIN doc, NEW q \in DOMAIN SubTree(doc, path),
         q # Nothing
  PROVE  FromBelow(SubTree(doc, path)[q].node, doc, path)
<1>1. /\ path \in Path /\ q \in Path /\ path \o q \in DOMAIN doc
      /\ SubTree(doc, path)[q] = doc[path \o q]
  BY TreeParts, SubTreeIs
<1>2. IsPrefix(path, path \o q) /\ path \o q # path
  BY <1>1, JoinSplit
<1> QED BY <1>1, <1>2 DEF FromBelow

\* The exchange of GetArray(key, pJson): a document with the tree below another place
\* at a path is a tree, of nodes from outside the path and from below the place.
LEMMA MovedTree ==
  ASSUME NEW doc, IsTree(doc), NEW path \in DOMAIN doc,
         NEW other, NEW there,
         \A n : FromBelow(n, other, there) => n \notin NodesOf(doc),
         NEW tree, IsTree(tree), Nothing \in DOMAIN tree,
         \A q \in DOMAIN tree : q # Nothing => FromBelow(tree[q].node, other, there)
  PROVE  /\ IsTree(WithTree(doc, path, tree))
         /\ \A n \in NodesOf(WithTree(doc, path, tree)) :
              FromOutside(n, doc, path) \/ FromBelow(n, other, there)
<1> DEFINE w == WithTree(doc, path, tree)
<1>1. path \in Path /\ (path # Nothing => Attached(Shape(doc), path))
  BY TreeParts, CanBePut
<1>2. \A q \in DOMAIN tree : q # Nothing \/ path \notin DOMAIN doc
                               => tree[q].node \notin NodesOf(doc)
  OBVIOUS
<1>3. w = WithTree(doc, path, tree)
  OBVIOUS
<1> HIDE DEF w
<1>4. /\ IsTree(w)
      /\ \A p \in DOMAIN w :
           \/ \E r \in DOMAIN doc : /\ w[p].node = doc[r].node
                                    /\ IsPrefix(path, r) => r = path
           \/ \E q \in DOMAIN tree : /\ w[p].node = tree[q].node
                                     /\ q # Nothing \/ path \notin DOMAIN doc
  BY <1>1, <1>2, <1>3, GraftedTree
<1>5. \A p \in DOMAIN w : FromOutside(w[p].node, doc, path) \/ FromBelow(w[p].node, other, there)
  <2>1. ASSUME NEW p \in DOMAIN w
        PROVE  FromOutside(w[p].node, doc, path) \/ FromBelow(w[p].node, other, there)
    <3>1. CASE \E r \in DOMAIN doc : /\ w[p].node = doc[r].node
                                     /\ IsPrefix(path, r) => r = path
      BY <3>1 DEF FromOutside
    <3>2. CASE \E q \in DOMAIN tree : /\ w[p].node = tree[q].node
                                      /\ q # Nothing \/ path \notin DOMAIN doc
      BY <3>2
    <3> QED BY <1>4, <3>1, <3>2
  <2> QED BY <2>1
<1>6. \A n \in NodesOf(w) : FromOutside(n, doc, path) \/ FromBelow(n, other, there)
  BY <1>5 DEF NodesOf
<1> QED BY <1>3, <1>4, <1>6

LEMMA FromIs ==
  ASSUME NEW doc, IsTree(doc), NEW path, NEW n
  PROVE  /\ FromOutside(n, doc, path) => n \in NodesOf(doc)
         /\ FromBelow(n, doc, path) => n \in NodesOf(doc)
         /\ ~(FromOutside(n, doc, path) /\ FromBelow(n, doc, path))
<1>1. \A p, q \in DOMAIN doc : doc[p].node = doc[q].node => p = q
  BY TreeParts
<1> QED BY <1>1 DEF FromOutside, FromBelow, NodesOf

\* The document without the array: a null is in its place, and nothing below.
LEMMA LiftedIs ==
  ASSUME NEW doc, IsTree(doc), NEW array \in DOMAIN doc,
         NEW null, IsTree(null), DOMAIN null = {Nothing},
         NEW lifted, lifted = WithTree(doc, array, null)
  PROVE  /\ IsTree(lifted)
         /\ \A p : p \in DOMAIN lifted <=>
                     p \in DOMAIN doc /\ (IsPrefix(array, p) => p = array)
         /\ \A p \in DOMAIN lifted : lifted[p].node = doc[p].node
<1>1. /\ array \in Path /\ array \o Nothing = array
      /\ doc[array] \in [kind : Kinds, node : Nat \ {0}]
  BY TreeParts, JoinSplit
<1>2. PutIn(lifted, doc, array, null)
  BY <1>1, WithTreeIs
<1>3. /\ DOMAIN lifted = {p \in DOMAIN doc : ~IsPrefix(array, p)} \cup {array}
      /\ \A p \in DOMAIN doc : ~IsPrefix(array, p) => lifted[p] = doc[p]
      /\ lifted[array] = [doc[array] EXCEPT !.kind = null[Nothing].kind]
  BY <1>1, <1>2 DEF PutIn
<1>4. lifted[array].node = doc[array].node
  BY <1>1, <1>3
<1>5. IsTree(lifted)
  <2>1. \A n : ~FromBelow(n, Nothing, Nothing)
    BY DEF FromBelow, Nothing
  <2> QED BY <2>1, MovedTree
<1>6. IsPrefix(array, array)
  BY <1>1, PrefixIs, PathTypes
<1> QED BY <1>3, <1>4, <1>5, <1>6

\* The document with the array in another place of it: nothing goes but what was below
\* the place.
LEMMA PlacedIs ==
  ASSUME NEW doc, IsTree(doc), NEW array \in DOMAIN doc, NEW place \in DOMAIN doc,
         IsPrefix(array, place) => place = array,
         NEW lifted, IsTree(lifted),
         \A p : p \in DOMAIN lifted <=> p \in DOMAIN doc /\ (IsPrefix(array, p) => p = array),
         \A p \in DOMAIN lifted : lifted[p].node = doc[p].node,
         NEW placed, placed = WithTree(lifted, place, SubTree(doc, array))
  PROVE  /\ IsTree(placed) /\ NodesOf(placed) \subseteq NodesOf(doc)
         /\ \A n \in NodesOf(placed) : FromOutside(n, doc, place) \/ FromBelow(n, doc, array)
         /\ \A r \in DOMAIN doc : \/ doc[r].node \in NodesOf(placed)
                                  \/ IsPrefix(place, r) /\ r # place
         /\ ~IsPrefix(place, array) =>
              /\ array \in DOMAIN placed
              /\ \A p \in DOMAIN placed : IsPrefix(array, p) => p = array
<1> DEFINE cut == SubTree(doc, array)
<1>1. /\ IsTree(cut) /\ Nothing \in DOMAIN cut
      /\ \A q \in DOMAIN cut : q # Nothing => FromBelow(cut[q].node, doc, array)
      /\ \A q \in DOMAIN cut : q \in Path /\ cut[q] = doc[array \o q]
  BY SubTreeIs, BelowNodes
<1>2. DOMAIN cut = {Below(x, array) : x \in {x \in DOMAIN doc : IsPrefix(array, x)}}
  BY DEF SubTree, Below
<1>3. placed = WithTree(lifted, place, cut)
  OBVIOUS
<1> HIDE DEF cut
<1>4. /\ place \in DOMAIN lifted /\ array \in DOMAIN lifted
      /\ place \in Path /\ array \in Path
      /\ \A p \in DOMAIN doc : p \in Path
      /\ \A p \in DOMAIN lifted : p \in DOMAIN doc
  BY TreeParts
<1>5. PutIn(placed, lifted, place, cut)
  BY <1>1, <1>3, <1>4, WithTreeIs
<1>6. ASSUME NEW n, n \in NodesOf(lifted)
      PROVE  FromOutside(n, doc, array) /\ n \in NodesOf(doc)
  <2>1. PICK p \in DOMAIN lifted : n = lifted[p].node
    BY <1>6, NodesAre
  <2>2. p \in DOMAIN doc /\ (IsPrefix(array, p) => p = array) /\ n = doc[p].node
    BY <2>1
  <2> QED BY <2>2, NodesAre DEF FromOutside
<1>7. \A n : FromBelow(n, doc, array) => n \notin NodesOf(lifted)
  BY <1>6, FromIs
<1>8. /\ IsTree(placed)
      /\ \A n \in NodesOf(placed) : FromOutside(n, lifted, place) \/ FromBelow(n, doc, array)
  BY <1>1, <1>3, <1>4, <1>7, MovedTree
<1>9. \A n : FromOutside(n, lifted, place) => FromOutside(n, doc, place)
  BY DEF FromOutside
<1>10. \A n \in NodesOf(placed) : FromOutside(n, doc, place) \/ FromBelow(n, doc, array)
  BY <1>8, <1>9
<1>11. NodesOf(placed) \subseteq NodesOf(doc)
  BY <1>10, FromIs
<1>12. ASSUME NEW r \in DOMAIN doc, ~(IsPrefix(place, r) /\ r # place)
       PROVE  doc[r].node \in NodesOf(placed)
  <2>1. CASE IsPrefix(array, r) => r = array
    <3>1. /\ r \in DOMAIN lifted /\ lifted[r].node = doc[r].node
          /\ IsPrefix(place, r) => r = place
      BY <1>12, <2>1
    <3>2. /\ place \o Nothing = place
          /\ \A p \in DOMAIN lifted : lifted[p] \in [kind : Kinds, node : Nat \ {0}]
      BY <1>4, JoinSplit, TreeParts
    <3>3. lifted[r].node \in NodesOf(placed)
      BY <1>1, <1>5, <3>1, <3>2, PutInKeeps
    <3> QED BY <3>1, <3>3
  <2>2. CASE IsPrefix(array, r) /\ r # array
    <3> DEFINE q == Below(r, array)
    <3>1. q \in Path /\ array \o q = r /\ array \o Nothing = array
      BY <1>4, <2>2, JoinSplit
    <3>2. q \in DOMAIN cut
      BY <1>2, <2>2
    <3>3. q # Nothing
      BY <2>2, <3>1
    <3> HIDE DEF q
    <3>4. cut[q] = doc[r]
      BY <1>1, <3>1, <3>2
    <3>5. place \o q \in DOMAIN placed /\ placed[place \o q] = cut[q]
      BY <1>5, <3>2, <3>3 DEF PutIn
    <3>6. placed[place \o q].node \in NodesOf(placed)
      BY <3>5, NodesAre
    <3> QED BY <3>4, <3>5, <3>6
  <2> QED BY <2>1, <2>2
<1>13. ASSUME ~IsPrefix(place, array)
       PROVE  /\ array \in DOMAIN placed
              /\ \A p \in DOMAIN placed : IsPrefix(array, p) => p = array
  <2>1. DOMAIN placed = {p \in DOMAIN lifted : ~IsPrefix(place, p)}
                          \cup {place \o q : q \in DOMAIN cut}
    BY <1>5 DEF PutIn
  <2>2. ~IsPrefix(array, place)
    <3>1. IsPrefix(array, place) => place = array
      OBVIOUS
    <3> QED BY <1>13, <3>1
  <2>3. ASSUME NEW q \in DOMAIN cut, IsPrefix(array, place \o q)
        PROVE  FALSE
    <3>1. place \o q \in Path /\ IsPrefix(place, place \o q)
      BY <1>1, <1>4, Concatenation, JoinSplit
    <3>2. IsPrefix(array, place) \/ IsPrefix(place, array)
      BY <1>4, <2>3, <3>1, PrefixesMeet
    <3> QED BY <1>13, <2>2, <3>2
  <2>4. \A p \in DOMAIN placed : IsPrefix(array, p) => p = array
    BY <2>1, <2>3
  <2> QED BY <1>4, <1>13, <2>1, <2>4
<1> QED BY <1>8, <1>10, <1>11, <1>12, <1>13

\* GetArray(key, pJson) within a document: it is a tree, of the nodes that were there,
\* and none goes but from below the place or, when that is in the array, the array's.
LEMMA MovedWithinIs ==
  ASSUME NEW doc, IsTree(doc), NEW array \in DOMAIN doc, NEW place \in DOMAIN doc,
         nodes \in Nat, NEW h, NEW k, NEW out, NEW swaps,
         DocOf(h) = doc, DocOf(out) = doc, MemberPath(h, k) = array, PathOf(out) = place
  PROVE  LET w == MovedWithin(h, k, out, swaps)
             from == IF IsStrictPrefix(array, place) THEN array ELSE place
         IN /\ IsTree(w) /\ NodesOf(w) \subseteq NodesOf(doc)
            /\ \A r \in DOMAIN doc : doc[r].node \in NodesOf(w) \/ (IsPrefix(from, r) /\ r # from)
<1> DEFINE null == Fresh(Leaf("null"), nodes)
           lifted == WithTree(doc, array, null)
           inArray == IsStrictPrefix(array, place)
           placed == IF inArray THEN lifted ELSE WithTree(lifted, place, SubTree(doc, array))
           tree == SubTree(doc, place)
           swapped == WithTree(placed, array, tree)
           w == MovedWithin(h, k, out, swaps)
           from == IF inArray THEN array ELSE place
<1>1. w = IF swaps /\ ~IsPrefix(place, array) THEN swapped ELSE placed
  BY DEF MovedWithin, TreeOf
<1>2. inArray <=> IsPrefix(array, place) /\ array # place
  BY DEF IsStrictPrefix
<1> HIDE DEF w
<1>3. /\ IsTree(lifted)
      /\ \A p : p \in DOMAIN lifted <=> p \in DOMAIN doc /\ (IsPrefix(array, p) => p = array)
      /\ \A p \in DOMAIN lifted : lifted[p].node = doc[p].node
  <2>1. IsShape(Leaf("null")) /\ DOMAIN Leaf("null") = {Nothing}
    BY LeafIsShape DEF Kinds
  <2>2. IsTree(null) /\ DOMAIN null = {Nothing}
    BY <2>1, FreshIs
  <2> HIDE DEF null
  <2> QED BY <2>2, LiftedIs
<1>4. inArray => placed = lifted
  OBVIOUS
<1>5. ~inArray => placed = WithTree(lifted, place, SubTree(doc, array))
  OBVIOUS
<1> HIDE DEF null, lifted, inArray, placed
<1>6. array \in Path /\ place \in Path /\ \A p \in DOMAIN doc : p \in Path
  BY TreeParts
<1>7. /\ IsTree(tree) /\ Nothing \in DOMAIN tree
      /\ \A q \in DOMAIN tree : q # Nothing => FromBelow(tree[q].node, doc, place)
  BY SubTreeIs, BelowNodes
<1>8. swapped = WithTree(placed, array, tree)
  OBVIOUS
<1> HIDE DEF tree, swapped
\* Before the values are swapped, and that there is no node in the way of the place's.
<1>9. /\ IsTree(placed) /\ NodesOf(placed) \subseteq NodesOf(doc)
      /\ \A r \in DOMAIN doc : doc[r].node \in NodesOf(placed) \/ (IsPrefix(from, r) /\ r # from)
      /\ ~IsPrefix(place, array) =>
           /\ array \in DOMAIN placed
           /\ \A p \in DOMAIN placed : IsPrefix(array, p) => p = array
           /\ \A n : FromBelow(n, doc, place) => n \notin NodesOf(placed)
  <2>1. CASE inArray
    <3>1. placed = lifted /\ from = array
      BY <1>4, <2>1
    <3>2. NodesOf(placed) \subseteq NodesOf(doc)
      BY <1>3, <3>1 DEF NodesOf
    <3>3. ASSUME NEW r \in DOMAIN doc, ~(IsPrefix(from, r) /\ r # from)
          PROVE  doc[r].node \in NodesOf(placed)
      <4>1. r \in DOMAIN lifted /\ lifted[r].node = doc[r].node
        BY <1>3, <3>1, <3>3
      <4> QED BY <3>1, <4>1, NodesAre
    <3>4. array \in DOMAIN placed /\ \A p \in DOMAIN placed : IsPrefix(array, p) => p = array
      BY <1>3, <3>1
    <3>5. ASSUME NEW n, FromBelow(n, doc, place), n \in NodesOf(placed)
          PROVE  FALSE
      <4>1. PICK r \in DOMAIN doc : n = doc[r].node /\ IsPrefix(place, r) /\ r # place
        BY <3>5 DEF FromBelow
      <4>2. PICK p \in DOMAIN lifted : n = lifted[p].node
        BY <3>1, <3>5, NodesAre
      <4>3. p \in DOMAIN doc /\ n = doc[p].node /\ (IsPrefix(array, p) => p = array)
        BY <1>3, <4>2
      <4>4. p = r
        BY <4>1, <4>3, TreeParts
      <4>5. IsPrefix(array, r)
        BY <1>2, <1>6, <2>1, <4>1, PrefixOrder
      <4>6. r = array
        BY <4>3, <4>4, <4>5
      <4> QED BY <1>2, <1>6, <2>1, <4>1, <4>6, PrefixOrder
    <3> QED BY <1>3, <3>1, <3>2, <3>3, <3>4, <3>5
  <2>2. CASE ~inArray
    <3>1. /\ from = place /\ (IsPrefix(array, place) => place = array)
          /\ placed = WithTree(lifted, place, SubTree(doc, array))
      BY <1>2, <1>5, <2>2
    <3> HIDE DEF from
    <3>2. /\ IsTree(placed) /\ NodesOf(placed) \subseteq NodesOf(doc)
          /\ \A n \in NodesOf(placed) : FromOutside(n, doc, place) \/ FromBelow(n, doc, array)
          /\ \A r \in DOMAIN doc : \/ doc[r].node \in NodesOf(placed)
                                   \/ IsPrefix(place, r) /\ r # place
          /\ ~IsPrefix(place, array) =>
               /\ array \in DOMAIN placed
               /\ \A p \in DOMAIN placed : IsPrefix(array, p) => p = array
      BY <1>3, <3>1, PlacedIs
    <3>3. ASSUME ~IsPrefix(place, array), NEW n, FromBelow(n, doc, place), n \in NodesOf(placed)
          PROVE  FALSE
      <4>1. FromBelow(n, doc, array)
        BY <3>2, <3>3, FromIs
      <4>2. PICK r \in DOMAIN doc : n = doc[r].node /\ IsPrefix(place, r) /\ r # place
        BY <3>3 DEF FromBelow
      <4>3. PICK p \in DOMAIN doc : n = doc[p].node /\ IsPrefix(array, p) /\ p # array
        BY <4>1 DEF FromBelow
      <4>4. p = r
        BY <4>2, <4>3, TreeParts
      <4>5. IsPrefix(array, place) \/ IsPrefix(place, array)
        BY <1>6, <4>2, <4>3, <4>4, PrefixesMeet
      <4>6. place = array
        BY <3>1, <3>3, <4>5
      <4> QED BY <3>3, <4>5, <4>6
    <3> QED BY <3>1, <3>2, <3>3
  <2> QED BY <2>1, <2>2
<1> HIDE DEF from
<1>10. CASE ~(swaps /\ ~IsPrefix(place, array))
  <2>1. w = placed
    BY <1>1, <1>10
  <2> QED BY <1>9, <2>1 DEF w, from, inArray
<1>11. CASE swaps /\ ~IsPrefix(place, array)
  <2>1. w = swapped
    BY <1>1, <1>11
  <2>2. /\ array \in DOMAIN placed
        /\ \A p \in DOMAIN placed : IsPrefix(array, p) => p = array
        /\ \A n : FromBelow(n, doc, place) => n \notin NodesOf(placed)
    BY <1>9, <1>11
  <2>3. /\ IsTree(swapped)
        /\ \A n \in NodesOf(swapped) : FromOutside(n, placed, array) \/ FromBelow(n, doc, place)
    BY <1>7, <1>8, <1>9, <2>2, MovedTree
  <2>4. NodesOf(swapped) \subseteq NodesOf(doc)
    <3>1. \A n : FromOutside(n, placed, array) => n \in NodesOf(placed)
      BY <1>9, FromIs
    <3>2. \A n : FromBelow(n, doc, place) => n \in NodesOf(doc)
      BY FromIs
    <3> QED BY <1>9, <2>3, <3>1, <3>2
  <2>5. PutIn(swapped, placed, array, tree)
    BY <1>6, <1>7, <1>8, <1>9, WithTreeIs
  <2>6. ASSUME NEW n, n \in NodesOf(placed)
        PROVE  n \in NodesOf(swapped)
    <3>1. PICK p \in DOMAIN placed : n = placed[p].node
      BY <2>6, NodesAre
    <3>2. IsPrefix(array, p) => p = array
      BY <2>2
    <3>3. /\ array \o Nothing = array
          /\ \A x \in DOMAIN placed : placed[x] \in [kind : Kinds, node : Nat \ {0}]
      BY <1>6, <1>9, JoinSplit, TreeParts
    <3>4. placed[p].node \in NodesOf(swapped)
      BY <1>7, <2>5, <3>2, <3>3, PutInKeeps
    <3> QED BY <3>1, <3>4
  <2>7. \A r \in DOMAIN doc : doc[r].node \in NodesOf(swapped) \/ (IsPrefix(from, r) /\ r # from)
    BY <1>9, <2>6
  <2> QED BY <2>1, <2>3, <2>4, <2>7 DEF w, from, inArray
<1> QED BY <1>10, <1>11

\* The same, said of the objects of the call.
LEMMA MovedWithinDoes ==
  ASSUME DocumentsInv, NEW h \in Object, NEW k \in Key, NEW out \in Object, NEW swaps,
         Valid(h), HasMember(h, k, "array"), Writable(out), Holder(out) = Holder(h)
  PROVE  LET w == MovedWithin(h, k, out, swaps)
             d == Holder(h)
             from == IF IsStrictPrefix(MemberPath(h, k), PathOf(out)) THEN MemberPath(h, k)
                     ELSE PathOf(out)
         IN /\ IsTree(w) /\ NodesOf(w) \subseteq NodesOf(content[d])
            /\ \A r \in DOMAIN content[d] :
                 content[d][r].node \in NodesOf(w) \/ (IsPrefix(from, r) /\ r # from)
<1> DEFINE doc == DocOf(h)
           array == MemberPath(h, k)
           place == PathOf(out)
<1>1. doc = content[Holder(h)] /\ IsTree(doc) /\ DocOf(out) = doc
  BY Referred DEF DocOf
<1>2. array \in DOMAIN doc
  BY MemberIsThere
<1>3. place \in DOMAIN doc
  BY <1>1, Referred DEF Writable
<1>4. nodes \in Nat
  BY DEF DocumentsInv
<1>5. /\ DocOf(h) = doc /\ DocOf(out) = doc /\ MemberPath(h, k) = array /\ PathOf(out) = place
      /\ content[Holder(h)] = doc
  BY <1>1
<1> HIDE DEF doc, array, place
<1>6. LET w == MovedWithin(h, k, out, swaps)
          from == IF IsStrictPrefix(array, place) THEN array ELSE place
      IN /\ IsTree(w) /\ NodesOf(w) \subseteq NodesOf(doc)
         /\ \A r \in DOMAIN doc : doc[r].node \in NodesOf(w) \/ (IsPrefix(from, r) /\ r # from)
  BY <1>1, <1>2, <1>3, <1>4, <1>5, MovedWithinIs
<1> QED BY <1>5, <1>6

\* Two documents exchange trees, or one takes the other's: nodes stay apart.
LEMMA GetArrayAcrossStays ==
  ASSUME JsonTypeOK, DocumentsInv, NEW h \in Object, NEW k \in Key, NEW out \in Object,
         Valid(h), HasMember(h, k, "array"), Writable(out), GetArrayAcross(h, k, out),
         nodes' = nodes, moved' = moved \cup {Holder(h)}
  PROVE  DocumentsStay
<1> DEFINE d == Holder(h)
           e == Holder(out)
           m == MemberPath(h, k)
           p == PathOf(out)
           cut == SubTree(DocOf(h), m)
<1>1. /\ HasMember(h, k, "array") /\ Valid(out) /\ e # d
      /\ \E left \in {TreeOf(out), Fresh(Leaf("null"), nodes)} :
           content' = [content EXCEPT ![d] = WithTree(content[d], m, left),
                                      ![e] = WithTree(content[e], p, cut)]
      /\ moved' = moved \cup {d}
  BY DEF GetArrayAcross, Writable
<1>2. /\ d \in Object /\ DocOf(h) = content[d] /\ IsTree(content[d])
      /\ e \in Object /\ DocOf(out) = content[e] /\ IsTree(content[e])
      /\ m \in DOMAIN content[d] /\ p \in DOMAIN content[e]
  BY <1>1, Referred, MemberIsThere
<1>3. TreeOf(out) = SubTree(content[e], p) /\ cut = SubTree(content[d], m)
  BY <1>2 DEF TreeOf
<1> HIDE DEF d, e, m, p, cut
<1>4. PICK left \in {TreeOf(out), Fresh(Leaf("null"), nodes)} :
           content' = [content EXCEPT ![d] = WithTree(content[d], m, left),
                                      ![e] = WithTree(content[e], p, cut)]
  BY <1>1
<1> DEFINE v == WithTree(content[d], m, left)
           w == WithTree(content[e], p, cut)
<1>5. /\ nodes \in Nat /\ nodes <= MaxNodes /\ moved' \subseteq Object
      /\ DOMAIN content = Object
      /\ \A g \in Object : IsTree(content[g]) /\ NodesOf(content[g]) \subseteq 1 .. nodes
      /\ \A f, g \in Object : f # g => NodesOf(content[f]) \cap NodesOf(content[g]) = {}
  BY <1>1, <1>2, JsonAssumption DEF DocumentsInv, JsonTypeOK
<1>6. /\ IsTree(left) /\ Nothing \in DOMAIN left
      /\ \A q \in DOMAIN left : q # Nothing => FromBelow(left[q].node, content[e], p)
  <2>1. CASE left = TreeOf(out)
    BY <1>2, <1>3, <2>1, SubTreeIs, BelowNodes
  <2>2. CASE left = Fresh(Leaf("null"), nodes)
    <3>1. IsShape(Leaf("null")) /\ DOMAIN Leaf("null") = {Nothing}
      BY LeafIsShape DEF Kinds
    <3>2. IsTree(left) /\ DOMAIN left = {Nothing}
      BY <1>5, <2>2, <3>1, FreshIs
    <3> QED BY <3>2
  <2> QED BY <1>4, <2>1, <2>2
<1>7. /\ IsTree(cut) /\ Nothing \in DOMAIN cut
      /\ \A q \in DOMAIN cut : q # Nothing => FromBelow(cut[q].node, content[d], m)
  BY <1>2, <1>3, SubTreeIs, BelowNodes
<1>8. /\ \A n : FromBelow(n, content[e], p) => n \notin NodesOf(content[d])
      /\ \A n : FromBelow(n, content[d], m) => n \notin NodesOf(content[e])
      /\ NodesOf(content[d]) \cap NodesOf(content[e]) = {}
  <2>1. NodesOf(content[d]) \cap NodesOf(content[e]) = {}
    BY <1>1, <1>2, <1>5
  <2>2. /\ \A n : FromBelow(n, content[e], p) => n \in NodesOf(content[e])
        /\ \A n : FromBelow(n, content[d], m) => n \in NodesOf(content[d])
    BY <1>2, FromIs
  <2> QED BY <2>1, <2>2
<1>9. /\ IsTree(v)
      /\ \A n \in NodesOf(v) : FromOutside(n, content[d], m) \/ FromBelow(n, content[e], p)
  BY <1>2, <1>6, <1>8, MovedTree
<1>10. /\ IsTree(w)
       /\ \A n \in NodesOf(w) : FromOutside(n, content[e], p) \/ FromBelow(n, content[d], m)
  BY <1>2, <1>7, <1>8, MovedTree
<1>11. /\ DOMAIN content' = Object /\ content'[d] = v /\ content'[e] = w
       /\ \A g \in Object : g # d /\ g # e => content'[g] = content[g]
  BY <1>1, <1>2, <1>4, <1>5
<1> HIDE DEF v, w
<1>12. \A n : /\ FromOutside(n, content[d], m) => n \in NodesOf(content[d])
              /\ FromBelow(n, content[d], m) => n \in NodesOf(content[d])
              /\ FromOutside(n, content[e], p) => n \in NodesOf(content[e])
              /\ FromBelow(n, content[e], p) => n \in NodesOf(content[e])
              /\ ~(FromOutside(n, content[d], m) /\ FromBelow(n, content[d], m))
              /\ ~(FromOutside(n, content[e], p) /\ FromBelow(n, content[e], p))
  BY <1>2, FromIs
<1>13. /\ \A n \in NodesOf(v) : n \in NodesOf(content[d]) \/ n \in NodesOf(content[e])
       /\ \A n \in NodesOf(w) : n \in NodesOf(content[d]) \/ n \in NodesOf(content[e])
  BY <1>9, <1>10, <1>12
<1>14. NodesOf(v) \cap NodesOf(w) = {}
  <2>1. ASSUME NEW n, n \in NodesOf(v), n \in NodesOf(w)
        PROVE  FALSE
    <3>1. FromOutside(n, content[d], m) \/ FromBelow(n, content[e], p)
      BY <1>9, <2>1
    <3>2. FromOutside(n, content[e], p) \/ FromBelow(n, content[d], m)
      BY <1>10, <2>1
    <3>3. ~(n \in NodesOf(content[d]) /\ n \in NodesOf(content[e]))
      BY <1>8
    <3> QED BY <1>12, <3>1, <3>2, <3>3
  <2> QED BY <2>1
<1>15. \A g \in Object : IsTree(content'[g]) /\ NodesOf(content'[g]) \subseteq 1 .. nodes
  <2>1. ASSUME NEW g \in Object
        PROVE  IsTree(content'[g]) /\ NodesOf(content'[g]) \subseteq 1 .. nodes
    <3>1. CASE g = d
      BY <1>2, <1>5, <1>9, <1>11, <1>13, <3>1
    <3>2. CASE g = e
      BY <1>2, <1>5, <1>10, <1>11, <1>13, <3>2
    <3>3. CASE g # d /\ g # e
      BY <1>5, <1>11, <3>3
    <3> QED BY <3>1, <3>2, <3>3
  <2> QED BY <2>1
<1>16. ASSUME NEW g \in Object, g # d, g # e
       PROVE  /\ NodesOf(content'[g]) \cap NodesOf(v) = {}
              /\ NodesOf(content'[g]) \cap NodesOf(w) = {}
  <2>1. /\ content'[g] = content[g]
        /\ NodesOf(content[g]) \cap NodesOf(content[d]) = {}
        /\ NodesOf(content[g]) \cap NodesOf(content[e]) = {}
    BY <1>2, <1>5, <1>11, <1>16
  <2> QED BY <1>13, <2>1
<1>17. \A f, g \in Object : f # g => NodesOf(content'[f]) \cap NodesOf(content'[g]) = {}
  <2>1. ASSUME NEW f \in Object, NEW g \in Object, f # g
        PROVE  NodesOf(content'[f]) \cap NodesOf(content'[g]) = {}
    <3>1. CASE f \notin {d, e} /\ g \notin {d, e}
      BY <1>5, <1>11, <2>1, <3>1
    <3>2. CASE f \notin {d, e} /\ g \in {d, e}
      BY <1>11, <1>16, <2>1, <3>2
    <3>3. CASE f \in {d, e} /\ g \notin {d, e}
      BY <1>11, <1>16, <2>1, <3>3
    <3>4. CASE f \in {d, e} /\ g \in {d, e}
      BY <1>11, <1>14, <2>1, <3>4
    <3> QED BY <3>1, <3>2, <3>3, <3>4
  <2> QED BY <2>1
<1>18. DocumentsInv'
  BY <1>5, <1>11, <1>15, <1>17 DEF DocumentsInv
<1> QED BY <1>1, <1>5, <1>18 DEF DocumentsStay

\* A document changes places within itself: its nodes stay its own.
LEMMA GetArrayWithinStays ==
  ASSUME JsonTypeOK, DocumentsInv, NEW h \in Object, NEW k \in Key, NEW out \in Object,
         Valid(h), HasMember(h, k, "array"), Writable(out), GetArrayWithin(h, k, out),
         nodes' = nodes, moved' = moved \cup {Holder(h)}
  PROVE  DocumentsStay
<1> DEFINE d == Holder(h)
<1>1. PICK swaps \in BOOLEAN : content' = [content EXCEPT ![d] = MovedWithin(h, k, out, swaps)]
  BY DEF GetArrayWithin
<1>2. d \in Object /\ IsTree(content[d]) /\ nodes \in Nat /\ nodes <= MaxNodes /\ moved \subseteq Object
  BY Referred, JsonAssumption DEF DocumentsInv, JsonTypeOK
<1>3. /\ IsTree(MovedWithin(h, k, out, swaps))
      /\ NodesOf(MovedWithin(h, k, out, swaps)) \subseteq NodesOf(content[d])
  <2>1. Holder(out) = Holder(h)
    BY DEF GetArrayWithin
  <2> QED BY <2>1, MovedWithinDoes
<1> DEFINE w == MovedWithin(h, k, out, swaps)
<1>4. content' = [content EXCEPT ![d] = w] /\ IsTree(w) /\ NodesOf(w) \subseteq NodesOf(content[d])
  BY <1>1, <1>3
<1>5. moved' = moved \cup {d}
  OBVIOUS
<1> HIDE DEF w, d
<1>6. DocumentsInv'
  <2>1. nodes' \in Nat /\ nodes <= nodes'
    BY <1>2
  <2>2. \A n \in NodesOf(w) : n \in NodesOf(content[d]) \/ n \in nodes + 1 .. nodes'
    BY <1>4
  <2> QED BY <1>2, <1>4, <2>1, <2>2, OneDocument
<1>7. nodes <= nodes' /\ nodes' <= MaxNodes
  BY <1>2
<1> QED BY <1>2, <1>5, <1>6, <1>7 DEF DocumentsStay

LEMMA GetArrayIntoLasts ==
  ASSUME JsonTypeOK, DocumentsInv, NEW h \in Object, NEW k \in Key, NEW out \in Object,
         GetArrayInto(h, k, out)
  PROVE  Lasting
<1>1. Valid(h)
  BY DEF GetArrayInto
<1>2. CASE LookUpFails(h, k, "array")
  BY <1>2, UnchangedStays DEF LookUpFails, Lasting
<1>3. CASE ~LookUpFails(h, k, "array")
  <2>1. /\ HasMember(h, k, "array") /\ Writable(out)
        /\ GetArrayAcross(h, k, out) \/ GetArrayWithin(h, k, out)
        /\ nodes' = nodes /\ moved' = moved \cup {Holder(h)}
        /\ UNCHANGED <<role, target, children, deletedTwice>>
    BY <1>3 DEF GetArrayInto
  <2>2. DocumentsStay
    BY <1>1, <2>1, GetArrayAcrossStays, GetArrayWithinStays
  <2> QED BY <2>1, <2>2 DEF Lasting, SameObjects
<1> QED BY <1>2, <1>3

-----------------------------------------------------------------------------
(* The objects: who hands out and deletes whom.                               *)

\* A living object that owns no document was handed out by one living object, and
\* what is handed out lives.
Owners ==
  /\ ~deletedTwice
  /\ \A g \in Object : \A h \in children[g] : Live(g) /\ Live(h) /\ role[h] # "owner"
  /\ \A f, g, h \in Object : h \in children[f] /\ h \in children[g] => f = g
  /\ \A h \in Object : Live(h) /\ role[h] # "owner" => \E g \in Object : h \in children[g]

JsonInv == JsonTypeOK /\ DocumentsInv /\ Owners

\* What one destructor after the other deletes: with an object those it has handed
\* out, and none but these.
LEMMA FamilyIs ==
  ASSUME children \in [Object -> SUBSET Object], NEW hs \in SUBSET Object
  PROVE  /\ Family(hs) \subseteq Object
         /\ hs \subseteq Family(hs)
         /\ \A x \in Family(hs) : children[x] \subseteq Family(hs)
         /\ \A x \in Family(hs) : x \in hs \/ \E y \in Family(hs) : x \in children[y]
         /\ \A s \in SUBSET Object :
              hs \subseteq s /\ (\A x \in s : children[x] \subseteq s) => Family(hs) \subseteq s
<1> DEFINE F == Family(hs)
<1>1. \A d : d \in F <=> d \in Object /\ \A s \in SUBSET Object :
                 (hs \subseteq s /\ \A x \in s : children[x] \subseteq s) => d \in s
  BY DEF Family
<1> HIDE DEF F
<1>2. F \subseteq Object /\ hs \subseteq F
  BY <1>1
<1>3. ASSUME NEW x \in F, NEW y \in children[x]
      PROVE  y \in F
  <2>1. y \in Object
    BY <1>2, <1>3
  <2>2. ASSUME NEW s \in SUBSET Object, hs \subseteq s, \A z \in s : children[z] \subseteq s
        PROVE  y \in s
    BY <1>1, <1>3, <2>2
  <2> QED BY <1>1, <2>1, <2>2
<1>4. ASSUME NEW s \in SUBSET Object, hs \subseteq s, \A x \in s : children[x] \subseteq s
      PROVE  F \subseteq s
  BY <1>1, <1>4
<1>5. ASSUME NEW x \in F, x \notin hs, \A y \in F : x \notin children[y]
      PROVE  FALSE
  <2> DEFINE s == F \ {x}
  <2>1. s \in SUBSET Object /\ hs \subseteq s
    BY <1>2, <1>5
  <2>2. \A z \in s : children[z] \subseteq s
    BY <1>3, <1>5
  <2>3. x \notin s
    OBVIOUS
  <2> HIDE DEF s
  <2>4. F \subseteq s
    BY <1>4, <2>1, <2>2
  <2> QED BY <1>5, <2>3, <2>4
<1> QED BY <1>2, <1>3, <1>4, <1>5 DEF F

LEMMA RolesAre ==
  ASSUME NEW h
  PROVE  Live(h) <=> role[h] # "none" /\ role[h] # "deleted"
  BY DEF Live

\* Deleting a family leaves everybody else, and who handed them out.
LEMMA DeletingKeepsOwners ==
  ASSUME JsonTypeOK, Owners, NEW hs \in SUBSET Object,
         \A x \in hs : Live(x),
         NEW emptied \in SUBSET Object, Family(hs) \subseteq emptied,
         \A x \in emptied : x \in Family(hs) \/ children[x] \subseteq Family(hs),
         \A x \in hs : \/ role[x] = "owner"
                       \/ \E y \in emptied : x \in children[y],
         DeleteObjects(Family(hs)),
         children' = [g \in Object |-> IF g \in emptied THEN {} ELSE children[g]]
  PROVE  Owners' /\ role' \in [Object -> Roles] /\ children' \in [Object -> SUBSET Object]
<1> DEFINE F == Family(hs)
<1>1. /\ children \in [Object -> SUBSET Object] /\ role \in [Object -> Roles]
      /\ deletedTwice \in BOOLEAN
  BY DEF JsonTypeOK
<1>2. /\ F \subseteq Object /\ hs \subseteq F
      /\ \A x \in F : children[x] \subseteq F
      /\ \A x \in F : x \in hs \/ \E y \in F : x \in children[y]
      /\ \A s \in SUBSET Object :
           hs \subseteq s /\ (\A x \in s : children[x] \subseteq s) => F \subseteq s
  BY <1>1, FamilyIs
<1>3. /\ deletedTwice' = (deletedTwice \/ \E d \in F : role[d] = "deleted")
      /\ role' = [h \in Object |-> IF h \in F THEN "deleted" ELSE role[h]]
  BY DEF DeleteObjects
<1>4. /\ F \subseteq emptied
      /\ \A x \in emptied : x \in F \/ children[x] \subseteq F
  OBVIOUS
<1> HIDE DEF F
<1>5. /\ ~deletedTwice
      /\ \A g \in Object : \A h \in children[g] : Live(g) /\ Live(h) /\ role[h] # "owner"
      /\ \A f, g, h \in Object : h \in children[f] /\ h \in children[g] => f = g
      /\ \A h \in Object : Live(h) /\ role[h] # "owner" => \E g \in Object : h \in children[g]
  BY DEF Owners
<1>6. \A x \in F : Live(x)
  <2> DEFINE s == {x \in Object : Live(x)}
  <2>1. hs \subseteq s
    OBVIOUS
  <2>2. \A x \in s : children[x] \subseteq s
    BY <1>1, <1>5
  <2>3. s \in SUBSET Object
    OBVIOUS
  <2>4. F \subseteq s
    <3> HIDE DEF s
    <3> QED BY <1>2, <2>1, <2>2, <2>3
  <2> QED BY <2>4
<1>7. ~deletedTwice'
  BY <1>3, <1>5, <1>6 DEF Live
<1>8. /\ \A g \in Object : g \in F => role'[g] = "deleted"
      /\ \A g \in Object : g \notin F => role'[g] = role[g]
      /\ \A g \in Object : children'[g] = IF g \in emptied THEN {} ELSE children[g]
  BY <1>3
<1>9. \A g \in Object : g \notin F => (Live(g)' <=> Live(g))
  BY <1>8 DEF Live
<1>10. \A g \in Object : Live(g)' => g \notin F
  BY <1>8 DEF Live
<1>11. ASSUME NEW g \in Object, NEW h \in children'[g]
       PROVE  g \notin emptied /\ h \in children[g] /\ h \in Object /\ h \notin F
  <2>1. g \notin emptied /\ h \in children[g] /\ h \in Object
    BY <1>1, <1>8, <1>11
  <2>2. ASSUME h \in F
        PROVE  FALSE
    <3>1. \A y \in emptied : h \notin children[y]
      BY <1>5, <2>1
    <3>2. h \in hs
      BY <1>2, <1>4, <2>2, <3>1
    <3>3. role[h] # "owner"
      BY <1>5, <2>1
    <3> QED BY <3>1, <3>2, <3>3
  <2> QED BY <2>1, <2>2
<1>12. ASSUME NEW g \in Object, NEW h \in children'[g]
       PROVE  Live(g)' /\ Live(h)' /\ role'[h] # "owner"
  <2>1. g \notin F /\ h \in children[g] /\ h \in Object /\ h \notin F
    BY <1>4, <1>11, <1>12
  <2>2. Live(g) /\ Live(h) /\ role[h] # "owner"
    BY <1>5, <2>1
  <2> QED BY <1>8, <1>9, <2>1, <2>2
<1>13. ASSUME NEW f \in Object, NEW g \in Object, NEW h \in Object,
              h \in children'[f], h \in children'[g]
       PROVE  f = g
  BY <1>5, <1>11, <1>13
<1>14. ASSUME NEW h \in Object, Live(h)', role'[h] # "owner"
       PROVE  \E g \in Object : h \in children'[g]
  <2>1. h \notin F /\ Live(h) /\ role[h] # "owner"
    BY <1>8, <1>9, <1>10, <1>14
  <2>2. PICK g \in Object : h \in children[g]
    BY <1>5, <2>1
  <2>3. g \notin emptied
    BY <1>2, <1>4, <2>1, <2>2
  <2> QED BY <1>8, <2>2, <2>3
<1>15. Owners'
  BY <1>7, <1>12, <1>13, <1>14 DEF Owners
<1>16. role' \in [Object -> Roles]
  BY <1>1, <1>3 DEF Roles
<1>17. children' \in [Object -> SUBSET Object]
  BY <1>1
<1> QED BY <1>15, <1>16, <1>17

\* Making one object keeps what is said of the others.
LEMMA MakingKeepsOwners ==
  ASSUME JsonInv, MakesOne, nodes \in Nat, nodes' \in Nat, nodes <= nodes'
  PROVE  /\ Owners' /\ role' \in [Object -> Roles] /\ children' \in [Object -> SUBSET Object]
         /\ target' \in [Object -> 0 .. nodes']
<1>1. PICK h \in Object, as \in {"child", "copy", "view"}, node \in 1 .. nodes' :
        Live(h) /\ CanCreate /\ HandOut(h, as, node) /\ deletedTwice' = deletedTwice
  BY DEF MakesOne
<1>2. PICK new \in Object : new = NewObject /\ role[new] = "none"
  BY <1>1 DEF CanCreate, NewObject
<1>3. /\ role' = [role EXCEPT ![new] = as]
      /\ target' = [target EXCEPT ![new] = node]
      /\ children' = [children EXCEPT ![h] = children[h] \cup {new}]
  BY <1>1, <1>2 DEF HandOut
<1>4. /\ children \in [Object -> SUBSET Object] /\ role \in [Object -> Roles]
      /\ target \in [Object -> 0 .. nodes]
  BY DEF JsonInv, JsonTypeOK
<1>5. /\ ~deletedTwice
      /\ \A f \in Object : \A g \in children[f] : Live(f) /\ Live(g) /\ role[g] # "owner"
      /\ \A d, f, g \in Object : g \in children[d] /\ g \in children[f] => d = f
      /\ \A g \in Object : Live(g) /\ role[g] # "owner" => \E f \in Object : g \in children[f]
  BY DEF JsonInv, Owners
<1>6. /\ role'[new] = as /\ Live(new)' /\ role'[new] # "owner" /\ new # h
      /\ \A g \in Object : g # new => role'[g] = role[g]
  <2>1. role'[new] = as /\ \A g \in Object : g # new => role'[g] = role[g]
    BY <1>2, <1>3, <1>4
  <2>2. as \notin {"none", "deleted"} /\ as # "owner"
    BY <1>1
  <2>3. Live(new)'
    BY <2>1, <2>2 DEF Live
  <2>4. new # h
    BY <1>1, <1>2 DEF Live
  <2> QED BY <2>1, <2>2, <2>3, <2>4
<1>7. \A g \in Object : g # new => (Live(g)' <=> Live(g))
  BY <1>6 DEF Live
<1>8. \A g \in Object : new \notin children[g]
  BY <1>2, <1>5 DEF Live
<1>9. children[new] = {}
  BY <1>2, <1>5 DEF Live
<1>10. /\ \A g : g \in children'[h] <=> g \in children[h] \/ g = new
       /\ \A f \in Object : f # h => children'[f] = children[f]
       /\ \A f \in Object : \A g \in children'[f] : g \in Object
  BY <1>1, <1>2, <1>3, <1>4
<1>11. ASSUME NEW f \in Object, NEW g \in children'[f]
       PROVE  Live(f)' /\ Live(g)' /\ role'[g] # "owner"
  <2>1. CASE g = new
    <3>1. f = h
      BY <1>8, <1>10, <1>11, <2>1
    <3> QED BY <1>1, <1>6, <1>7, <2>1, <3>1
  <2>2. CASE g # new
    <3>1. g \in children[f] /\ g \in Object /\ f # new
      BY <1>4, <1>9, <1>10, <1>11, <2>2
    <3> QED BY <1>5, <1>6, <1>7, <2>2, <3>1
  <2> QED BY <2>1, <2>2
<1>12. ASSUME NEW d \in Object, NEW f \in Object, NEW g \in Object,
              g \in children'[d], g \in children'[f]
       PROVE  d = f
  <2>1. CASE g = new
    BY <1>8, <1>10, <1>12, <2>1
  <2>2. CASE g # new
    <3>1. g \in children[d] /\ g \in children[f]
      BY <1>10, <1>12, <2>2
    <3> QED BY <1>5, <3>1
  <2> QED BY <2>1, <2>2
<1>13. ASSUME NEW g \in Object, Live(g)', role'[g] # "owner"
       PROVE  \E f \in Object : g \in children'[f]
  <2>1. CASE g = new
    BY <1>1, <1>10, <2>1
  <2>2. CASE g # new
    <3>1. PICK f \in Object : g \in children[f]
      BY <1>5, <1>6, <1>7, <1>13, <2>2
    <3> QED BY <1>10, <3>1
  <2> QED BY <2>1, <2>2
<1>14. Owners'
  BY <1>1, <1>5, <1>11, <1>12, <1>13 DEF Owners
<1>15. role' \in [Object -> Roles] /\ children' \in [Object -> SUBSET Object]
  BY <1>1, <1>2, <1>3, <1>4 DEF Roles
<1>16. target' \in [Object -> 0 .. nodes']
  <2>1. \A n \in 0 .. nodes : n \in 0 .. nodes'
    OBVIOUS
  <2>2. node \in 0 .. nodes'
    BY <1>1
  <2> QED BY <1>2, <1>3, <1>4, <2>1, <2>2
<1> QED BY <1>14, <1>15, <1>16

\* The type of the whole from that of its parts.
LEMMA TypesFollow ==
  ASSUME DocumentsInv', nodes' <= MaxNodes, moved' \subseteq Object, Owners',
         role' \in [Object -> Roles], children' \in [Object -> SUBSET Object],
         target' \in [Object -> 0 .. nodes'], deletedTwice' = FALSE
  PROVE  JsonInv'
<1>1. /\ nodes' \in Nat
      /\ \A h \in Object : IsTree(content'[h]) /\ NodesOf(content'[h]) \subseteq 1 .. nodes'
  BY DEF DocumentsInv
<1>2. ASSUME NEW h \in Object, NEW p \in DOMAIN content'[h]
      PROVE  content'[h][p] \in [kind : Kinds, node : 1 .. nodes']
  <2> DEFINE doc == content'[h]
  <2>1. IsTree(doc) /\ NodesOf(doc) \subseteq 1 .. nodes' /\ p \in DOMAIN doc
    BY <1>1
  <2> HIDE DEF doc
  <2>2. doc[p] \in [kind : Kinds, node : Nat \ {0}] /\ doc[p].node \in NodesOf(doc)
    BY <2>1, TreeParts
  <2>3. doc[p].node \in 1 .. nodes'
    BY <2>1, <2>2
  <2>4. doc[p] \in [kind : Kinds, node : 1 .. nodes']
    BY <2>2, <2>3
  <2> QED BY <2>4 DEF doc
<1>3. nodes' \in 0 .. MaxNodes
  BY <1>1, JsonAssumption
<1> QED BY <1>2, <1>3 DEF JsonInv, JsonTypeOK

LEMMA LastingKeepsInv ==
  ASSUME JsonInv, Lasting
  PROVE  JsonInv'
<1>1. /\ DocumentsInv' /\ nodes <= nodes' /\ nodes' <= MaxNodes /\ moved' \subseteq Object
      /\ SameObjects \/ MakesOne
  BY DEF Lasting, DocumentsStay
<1>2. nodes \in Nat /\ nodes' \in Nat
  BY <1>1 DEF JsonInv, DocumentsInv
<1>3. CASE SameObjects
  <2>1. /\ role' = role /\ target' = target /\ children' = children
        /\ deletedTwice' = deletedTwice
    BY <1>3 DEF SameObjects
  <2>2. /\ role \in [Object -> Roles] /\ children \in [Object -> SUBSET Object]
        /\ target \in [Object -> 0 .. nodes] /\ Owners /\ deletedTwice = FALSE
    BY DEF JsonInv, JsonTypeOK, Owners
  <2>3. Owners'
    BY <2>1, <2>2 DEF Owners, Live
  <2>4. target' \in [Object -> 0 .. nodes']
    <3>1. \A n \in 0 .. nodes : n \in 0 .. nodes'
      BY <1>1, <1>2
    <3> QED BY <2>1, <2>2, <3>1
  <2> QED BY <1>1, <2>1, <2>2, <2>3, <2>4, TypesFollow
<1>4. CASE MakesOne
  <2>1. deletedTwice' = FALSE
    BY <1>4 DEF MakesOne, JsonInv, Owners
  <2> QED BY <1>1, <1>2, <1>4, <2>1, MakingKeepsOwners, TypesFollow
<1> QED BY <1>1, <1>3, <1>4

\* Create(): a new document for a new owner.
LEMMA CreateKeepsInv ==
  ASSUME JsonInv, NEW kind \in Kinds, Create(kind)
  PROVE  JsonInv'
<1>1. PICK new \in Object : new = NewObject /\ role[new] = "none"
  BY DEF Create, CanCreate, NewObject
<1>2. /\ nodes < MaxNodes
      /\ role' = [role EXCEPT ![new] = "owner"]
      /\ content' = [content EXCEPT ![new] = Fresh(Leaf(kind), nodes)]
      /\ target' = [target EXCEPT ![new] = nodes + 1]
      /\ nodes' = nodes + 1
      /\ UNCHANGED <<children, deletedTwice, moved>>
  BY <1>1 DEF Create
<1>3. /\ JsonTypeOK /\ DocumentsInv /\ Owners /\ nodes \in Nat
      /\ children \in [Object -> SUBSET Object] /\ role \in [Object -> Roles]
      /\ target \in [Object -> 0 .. nodes]
  BY DEF JsonInv, JsonTypeOK
<1>4. DocumentsStay
  <2>1. /\ IsShape(Leaf(kind)) /\ Nothing \in DOMAIN Leaf(kind)
        /\ Cardinality(DOMAIN Leaf(kind)) = 1
    BY LeafIsShape
  <2>2. nodes + 1 <= MaxNodes
    BY <1>2, <1>3, JsonAssumption
  <2> QED BY <1>2, <1>3, <2>1, <2>2, NewDocument
<1>5. /\ ~deletedTwice
      /\ \A f \in Object : \A g \in children[f] : Live(f) /\ Live(g) /\ role[g] # "owner"
      /\ \A d, f, g \in Object : g \in children[d] /\ g \in children[f] => d = f
      /\ \A g \in Object : Live(g) /\ role[g] # "owner" => \E f \in Object : g \in children[f]
  BY <1>3 DEF Owners
<1>6. /\ role'[new] = "owner" /\ \A g \in Object : g # new => role'[g] = role[g]
      /\ children' = children /\ deletedTwice' = deletedTwice
  BY <1>2, <1>3
<1>7. \A g \in Object : g # new => (Live(g)' <=> Live(g))
  BY <1>6 DEF Live
<1>8. children[new] = {} /\ \A g \in Object : new \notin children[g]
  BY <1>1, <1>5 DEF Live
<1>9. ASSUME NEW f \in Object, NEW g \in children'[f]
      PROVE  Live(f)' /\ Live(g)' /\ role'[g] # "owner"
  <2>1. g \in children[f] /\ g \in Object /\ f # new /\ g # new
    BY <1>3, <1>6, <1>8, <1>9
  <2> QED BY <1>5, <1>6, <1>7, <2>1
<1>10. ASSUME NEW g \in Object, Live(g)', role'[g] # "owner"
       PROVE  \E f \in Object : g \in children'[f]
  BY <1>5, <1>6, <1>7, <1>10
<1>11. Owners'
  BY <1>5, <1>6, <1>9, <1>10 DEF Owners
<1>12. role' \in [Object -> Roles] /\ children' \in [Object -> SUBSET Object]
  BY <1>2, <1>3 DEF Roles
<1>13. target' \in [Object -> 0 .. nodes']
  <2>1. nodes + 1 \in 0 .. nodes' /\ \A n \in 0 .. nodes : n \in 0 .. nodes'
    BY <1>2, <1>3
  <2> QED BY <1>2, <1>3, <2>1
<1>14. deletedTwice' = FALSE
  BY <1>3, <1>5, <1>6 DEF JsonTypeOK
<1>15. DocumentsInv' /\ nodes' <= MaxNodes /\ moved' \subseteq Object
  BY <1>4 DEF DocumentsStay
<1> QED BY <1>11, <1>12, <1>13, <1>14, <1>15, TypesFollow

\* A document that loses nodes leaves documents apart.
LEMMA FewerNodes ==
  ASSUME DocumentsInv, nodes' = nodes, DOMAIN content' = Object,
         \A g \in Object : IsTree(content'[g]) /\ NodesOf(content'[g]) \subseteq NodesOf(content[g])
  PROVE  DocumentsInv'
<1>1. /\ nodes \in Nat
      /\ \A h \in Object : IsTree(content[h]) /\ NodesOf(content[h]) \subseteq 1 .. nodes
      /\ \A g, h \in Object : g # h => NodesOf(content[g]) \cap NodesOf(content[h]) = {}
  BY DEF DocumentsInv
<1>2. \A h \in Object : IsTree(content'[h]) /\ NodesOf(content'[h]) \subseteq 1 .. nodes'
  BY <1>1
<1>3. ASSUME NEW g \in Object, NEW h \in Object, g # h
      PROVE  NodesOf(content'[g]) \cap NodesOf(content'[h]) = {}
  <2>1. /\ NodesOf(content[g]) \cap NodesOf(content[h]) = {}
        /\ NodesOf(content'[g]) \subseteq NodesOf(content[g])
        /\ NodesOf(content'[h]) \subseteq NodesOf(content[h])
    BY <1>1, <1>3
  <2> QED BY <2>1
<1> QED BY <1>1, <1>2, <1>3 DEF DocumentsInv

LEMMA NoDocument == IsTree(Nothing) /\ NodesOf(Nothing) = {}
<1>1. DOMAIN Nothing = {}
  BY DEF Nothing
<1>2. DOMAIN Shape(Nothing) = {}
  BY <1>1, ShapeOf
<1>3. IsShape(Shape(Nothing))
  BY <1>2, FS_EmptySet DEF IsShape
<1> QED BY <1>1, <1>3 DEF IsTree, NodesOf

\* What is left when a value is emptied.
LEMMA EmptiedTree ==
  ASSUME NEW doc, IsTree(doc), NEW path \in DOMAIN doc
  PROVE  LET w == WithTree(doc, path, [p \in {Nothing} |-> doc[path]])
         IN  IsTree(w) /\ NodesOf(w) \subseteq NodesOf(doc)
<1> DEFINE tree == [p \in {Nothing} |-> doc[path]]
           w == WithTree(doc, path, tree)
<1>1. /\ path \in Path /\ (path # Nothing => Attached(Shape(doc), path))
      /\ doc[path] \in [kind : Kinds, node : Nat \ {0}]
  BY TreeParts, CanBePut
<1>2. DOMAIN tree = {Nothing} /\ tree[Nothing] = doc[path]
  OBVIOUS
<1> HIDE DEF tree
<1>3. IsTree(tree)
  <2>1. doc[path].kind \in Kinds
    BY <1>1
  <2> DEFINE s == Shape(tree)
             t == Leaf(doc[path].kind)
  <2>2. DOMAIN s = {Nothing} /\ s[Nothing] = doc[path].kind
    BY <1>2, ShapeOf
  <2>3. IsShape(t) /\ DOMAIN t = {Nothing} /\ t[Nothing] = doc[path].kind
    BY <2>1, LeafIsShape DEF Leaf
  <2> HIDE DEF s, t
  <2>4. IsShape(s)
    BY <2>2, <2>3, SameShape
  <2> QED BY <1>1, <1>2, <2>4 DEF IsTree, s
<1>4. \A q \in DOMAIN tree : q # Nothing \/ path \notin DOMAIN doc
                              => tree[q].node \notin NodesOf(doc)
  BY <1>2
<1>5. w = WithTree(doc, path, tree) /\ Nothing \in DOMAIN tree
  BY <1>2
<1> HIDE DEF w
<1>6. /\ IsTree(w)
      /\ \A p \in DOMAIN w :
           \/ \E r \in DOMAIN doc : /\ w[p].node = doc[r].node
                                    /\ IsPrefix(path, r) => r = path
           \/ \E q \in DOMAIN tree : /\ w[p].node = tree[q].node
                                     /\ q # Nothing \/ path \notin DOMAIN doc
  BY <1>1, <1>3, <1>4, <1>5, GraftedTree
<1>7. \A p \in DOMAIN w : \E r \in DOMAIN doc : w[p].node = doc[r].node
  BY <1>2, <1>6
<1>8. NodesOf(w) \subseteq NodesOf(doc)
  BY <1>7 DEF NodesOf
<1> QED BY <1>6, <1>8 DEF w, tree

\* Clear() deletes what was handed out and empties the value.
LEMMA ClearKeepsInv ==
  ASSUME JsonInv, NEW h \in Object, Clear(h)
  PROVE  JsonInv'
<1> DEFINE hs == children[h]
           gone == Family(hs)
           emptied == gone \cup {h}
           d == Holder(h)
           w == WithTree(content[d], PathOf(h), [p \in {Nothing} |-> content[d][PathOf(h)]])
<1>1. /\ JsonTypeOK /\ DocumentsInv /\ Owners
      /\ children \in [Object -> SUBSET Object]
      /\ target \in [Object -> 0 .. nodes] /\ nodes <= MaxNodes /\ moved \subseteq Object
  BY JsonAssumption DEF JsonInv, JsonTypeOK
<1>2. /\ Valid(h) /\ UNCHANGED <<target, nodes, moved>>
      /\ DeleteObjects(gone)
      /\ children' = [g \in Object |-> IF g \in emptied THEN {} ELSE children[g]]
  BY DEF Clear, Writable
<1>3. /\ d \in Object /\ DocOf(h) = content[d] /\ IsTree(content[d])
      /\ PathOf(h) \in DOMAIN content[d]
  BY <1>1, <1>2, Referred
<1>4. content' = [g \in Object |->
             IF g \in gone THEN Nothing
             ELSE IF g = d /\ KindOf(h) # "scalar"
             THEN WithTree(content[g], PathOf(h), [p \in {Nothing} |-> content[d][PathOf(h)]])
             ELSE content[g]]
  BY <1>3 DEF Clear
<1>5. IsTree(w) /\ NodesOf(w) \subseteq NodesOf(content[d])
  BY <1>3, EmptiedTree
<1>6. /\ DOMAIN content' = Object
      /\ \A g \in Object : content'[g] = Nothing \/ content'[g] = content[g]
                             \/ (g = d /\ content'[g] = w)
  BY <1>4
<1> HIDE DEF w, d
<1>7. \A g \in Object : IsTree(content'[g]) /\ NodesOf(content'[g]) \subseteq NodesOf(content[g])
  <2>1. \A g \in Object : IsTree(content[g])
    BY <1>1 DEF DocumentsInv
  <2> QED BY <1>5, <1>6, <2>1, NoDocument
<1>8. DocumentsInv'
  BY <1>1, <1>2, <1>6, <1>7, FewerNodes
<1>9. hs \in SUBSET Object
  BY <1>1
<1>10. /\ gone \subseteq Object /\ hs \subseteq gone
  BY <1>1, <1>9, FamilyIs
<1>11. /\ \A x \in hs : Live(x)
       /\ ~deletedTwice
  BY <1>1 DEF Owners
<1>12. /\ emptied \in SUBSET Object /\ gone \subseteq emptied
       /\ \A x \in emptied : x \in gone \/ children[x] \subseteq gone
       /\ \A x \in hs : role[x] = "owner" \/ \E y \in emptied : x \in children[y]
  BY <1>10
<1>13. Owners' /\ role' \in [Object -> Roles] /\ children' \in [Object -> SUBSET Object]
  <2> HIDE DEF emptied, hs
  <2> QED BY <1>1, <1>2, <1>9, <1>11, <1>12, DeletingKeepsOwners
<1>14. deletedTwice' = FALSE
  BY <1>2, <1>13 DEF Owners, DeleteObjects, JsonInv
<1> QED BY <1>1, <1>2, <1>8, <1>13, <1>14, TypesFollow

\* Destroying an owner deletes its family, with the documents of all.
LEMMA DestroyKeepsInv ==
  ASSUME JsonInv, NEW h \in Object, Destroy(h)
  PROVE  JsonInv'
<1> DEFINE hs == {h}
           gone == Family(hs)
<1>1. /\ JsonTypeOK /\ DocumentsInv /\ Owners
      /\ children \in [Object -> SUBSET Object]
      /\ target \in [Object -> 0 .. nodes] /\ nodes <= MaxNodes /\ moved \subseteq Object
  BY JsonAssumption DEF JsonInv, JsonTypeOK
<1>2. /\ role[h] = "owner" /\ UNCHANGED <<target, nodes, moved>>
      /\ DeleteObjects(gone)
      /\ children' = [g \in Object |-> IF g \in gone THEN {} ELSE children[g]]
      /\ content' = [g \in Object |-> IF g \in gone THEN Nothing ELSE content[g]]
  BY DEF Destroy
<1>3. /\ DOMAIN content' = Object
      /\ \A g \in Object : content'[g] = Nothing \/ content'[g] = content[g]
  BY <1>2
<1>4. \A g \in Object : IsTree(content'[g]) /\ NodesOf(content'[g]) \subseteq NodesOf(content[g])
  <2>1. \A g \in Object : IsTree(content[g])
    BY <1>1 DEF DocumentsInv
  <2> QED BY <1>3, <2>1, NoDocument
<1>5. DocumentsInv'
  BY <1>1, <1>2, <1>3, <1>4, FewerNodes
<1>6. hs \in SUBSET Object /\ \A x \in hs : Live(x)
  BY <1>2 DEF Live
<1>7. gone \in SUBSET Object /\ hs \subseteq gone
  BY <1>1, <1>6, FamilyIs
<1>8. Owners' /\ role' \in [Object -> Roles] /\ children' \in [Object -> SUBSET Object]
  <2>1. \A x \in hs : role[x] = "owner"
    BY <1>2
  <2> HIDE DEF hs
  <2> QED BY <1>1, <1>2, <1>6, <1>7, <2>1, DeletingKeepsOwners
<1>9. deletedTwice' = FALSE
  BY <1>2, <1>8 DEF Owners, DeleteObjects, JsonInv
<1> QED BY <1>1, <1>2, <1>5, <1>8, <1>9, TypesFollow

-----------------------------------------------------------------------------
LEMMA InitJsonInv == JsonInit => JsonInv
<1> SUFFICES ASSUME JsonInit
             PROVE  JsonInv
  OBVIOUS
<1>1. /\ role = [h \in Object |-> "none"]
      /\ content = [h \in Object |-> Nothing]
      /\ target = [h \in Object |-> 0]
      /\ children = [h \in Object |-> {}]
      /\ nodes = 0 /\ deletedTwice = FALSE /\ moved = {}
  BY DEF JsonInit
<1>2. DocumentsInv
  BY <1>1, NoDocument DEF DocumentsInv
<1>3. Owners
  BY <1>1 DEF Owners, Live
<1>4. JsonTypeOK
  <2>1. \A h \in Object : DOMAIN content[h] = {}
    BY <1>1 DEF Nothing
  <2>2. 0 \in 0 .. nodes /\ nodes \in 0 .. MaxNodes
    BY <1>1, JsonAssumption
  <2> QED BY <1>1, <2>1, <2>2 DEF JsonTypeOK, Roles
<1> QED BY <1>2, <1>3, <1>4 DEF JsonInv

\* Every call keeps the invariant.
LEMMA JsonInvStep == JsonInv /\ [JsonNext]_jsonVars => JsonInv'
<1> SUFFICES ASSUME JsonInv, [JsonNext]_jsonVars
             PROVE  JsonInv'
  OBVIOUS
<1>1. JsonTypeOK /\ DocumentsInv
  BY DEF JsonInv
<1>2. CASE UNCHANGED jsonVars
  <2>1. UNCHANGED <<role, content, target, children, nodes, deletedTwice, moved>>
    BY <1>2 DEF jsonVars
  <2>2. Lasting
    BY <1>1, <2>1, NothingChanges DEF Lasting, SameObjects
  <2> QED BY <2>2, LastingKeepsInv
<1>3. ASSUME NEW kind \in {"object", "array", "scalar"}, Create(kind)
      PROVE  JsonInv'
  BY <1>3, CreateKeepsInv DEF Kinds
<1>4. ASSUME NEW h \in Object, Clear(h) \/ Destroy(h)
      PROVE  JsonInv'
  BY <1>4, ClearKeepsInv, DestroyKeepsInv
<1>5. ASSUME NEW h \in Object, AppendValue(h)
      PROVE  Lasting
  <2>1. IsShape(Leaf("scalar")) /\ Nothing \in DOMAIN Leaf("scalar")
    BY LeafIsShape DEF Kinds
  <2> QED BY <1>1, <1>5, <2>1, AppendShapeLasts DEF AppendValue
<1>6. ASSUME NEW h \in Object, AppendObject(h) \/ AppendArray(h)
      PROVE  Lasting
  BY <1>1, <1>6, AppendChildLasts DEF AppendObject, AppendArray, Kinds
<1>7. ASSUME NEW h \in Object, NEW text \in Texts, Parse(h, text)
      PROVE  Lasting
  <2>1. CASE Unchanged("refused")
    BY <1>1, <2>1, UnchangedStays DEF Lasting
  <2>2. CASE AssignTo(h, text)
    <3>1. IsShape(text) /\ Nothing \in DOMAIN text
      BY TextsAreWellFormed
    <3> QED BY <1>1, <2>2, <3>1, AssignToStays DEF Lasting
  <2> QED BY <1>7, <2>1, <2>2 DEF Parse
<1>8. ASSUME NEW h \in Object, NEW k \in Key, GetObject(h, k) \/ GetArray(h, k)
      PROVE  Lasting
  BY <1>1, <1>8, CopyMemberLasts DEF GetObject, GetArray
<1>9. ASSUME NEW h \in Object, NEW k \in Key, SetValue(h, k)
      PROVE  Lasting
  <2>1. IsShape(Leaf("scalar")) /\ Nothing \in DOMAIN Leaf("scalar")
    BY LeafIsShape DEF Kinds
  <2> QED BY <1>1, <1>9, <2>1, SetMemberLasts DEF SetValue
<1>10. ASSUME NEW h \in Object, NEW k \in Key, SetObject(h, k) \/ SetArray(h, k)
       PROVE  Lasting
  BY <1>1, <1>10, SetChildLasts DEF SetObject, SetArray, Kinds
<1>11. ASSUME NEW h \in Object, NEW k \in Key, Delete(h, k)
       PROVE  Lasting
  BY <1>1, <1>11, DeleteLasts
<1>12. ASSUME NEW h \in Object, NEW k \in Key, NEW g \in Object,
              GetObjectInto(h, k, g) \/ GetArrayInto(h, k, g) \/ SetJson(h, k, g)
       PROVE  Lasting
  BY <1>1, <1>12, GetObjectIntoLasts, GetArrayIntoLasts, SetJsonLasts
<1>13. ASSUME NEW h \in Object, NEW i \in 0 .. 1, GetElement(h, i)
       PROVE  Lasting
  BY <1>1, <1>13, GetElementLasts
<1>14. ASSUME NEW h \in Object, NEW i \in 0 .. 1, NEW g \in Object, GetElementInto(h, i, g)
       PROVE  Lasting
  BY <1>1, <1>14, GetElementIntoLasts
<1>15. ASSUME NEW h \in Object, NEW g \in Object, NEW kind \in {"object", "array"},
              AppendJson(h, g, kind)
       PROVE  Lasting
  <2>1. CASE Unchanged("refused")
    BY <1>1, <2>1, UnchangedStays DEF Lasting
  <2>2. CASE AppendShape(h, Shape(TreeOf(g)))
    <3>1. Valid(g)
      BY <1>15 DEF AppendJson
    <3>2. IsTree(DocOf(g)) /\ PathOf(g) \in DOMAIN DocOf(g)
      BY <1>1, <3>1, Referred
    <3>3. IsShape(Shape(TreeOf(g))) /\ Nothing \in DOMAIN Shape(TreeOf(g))
      BY <3>2, CutIsShape DEF TreeOf
    <3> QED BY <1>1, <2>2, <3>3, AppendShapeLasts
  <2> QED BY <1>15, <2>1, <2>2 DEF AppendJson
<1> QED BY <1>2, <1>3, <1>4, <1>5, <1>6, <1>7, <1>8, <1>9, <1>10, <1>11, <1>12, <1>13, <1>14,
           <1>15, LastingKeepsInv DEF JsonNext

\* In every state each document is a tree of nodes of its own, and what an object
\* has handed out lives and was handed out by no other.
THEOREM JsonInvAlways == JsonSpec => []JsonInv
<1>1. JsonInv /\ [JsonNext]_jsonVars => JsonInv'
  BY JsonInvStep
<1> QED BY <1>1, InitJsonInv, PTL DEF JsonSpec

\* What the invariant says of two nodes of any documents, and of a node and the one
\* above it.
LEMMA InvGivesTrees == JsonInv => DocumentsAreTrees
<1> SUFFICES ASSUME JsonInv
             PROVE  DocumentsAreTrees
  OBVIOUS
<1>1. /\ \A h \in Object : IsTree(content[h])
      /\ \A g, h \in Object : g # h => NodesOf(content[g]) \cap NodesOf(content[h]) = {}
  BY DEF JsonInv, DocumentsInv
<1>2. ASSUME NEW g \in Object, NEW h \in Object,
             NEW p \in DOMAIN content[g], NEW q \in DOMAIN content[h],
             content[g][p].node = content[h][q].node
      PROVE  g = h /\ p = q
  <2>1. content[g][p].node \in NodesOf(content[g]) /\ content[h][q].node \in NodesOf(content[h])
    BY NodesAre
  <2>2. g = h
    BY <1>1, <1>2, <2>1
  <2>3. \A x, y \in DOMAIN content[g] :
          content[g][x].node = content[g][y].node => x = y
    BY <1>1, TreeParts
  <2> QED BY <1>2, <2>2, <2>3
<1>3. ASSUME NEW h \in Object, NEW p \in DOMAIN content[h], p # Nothing
      PROVE  /\ Front(p) \in DOMAIN content[h]
             /\ content[h][Front(p)].kind = IF Last(p) \in Key THEN "object" ELSE "array"
  <2> DEFINE s == Shape(content[h])
  <2>1. IsShape(s)
    BY <1>1 DEF IsTree
  <2>2. /\ DOMAIN s = DOMAIN content[h]
        /\ \A x \in DOMAIN content[h] : s[x] = content[h][x].kind
    BY ShapeOf
  <2> HIDE DEF s
  <2>3. Front(p) \in DOMAIN s /\ s[Front(p)] = ParentKind(p)
    BY <1>3, <2>1, <2>2, ShapeParts
  <2> QED BY <2>2, <2>3 DEF ParentKind
<1> QED BY <1>2, <1>3 DEF DocumentsAreTrees

\* Every value of every document is reachable from its root, by one path, whatever is
\* moved between documents or within one, and each object is deleted once, by the one
\* that handed it out.
THEOREM JsonIsSoundAlways == JsonSpec => []JsonIsSound
<1>1. JsonInv => DeletedOnce
  BY DEF JsonInv, Owners, DeletedOnce
<1>2. JsonInv => JsonIsSound
  BY <1>1, InvGivesTrees DEF JsonIsSound
<1> QED BY <1>2, JsonInvAlways, PTL

\* The types of the variables: every value has a kind and a number that was given
\* out, and no more than MaxNodes were.
THEOREM JsonTypeCorrect == JsonSpec => []JsonTypeOK
<1>1. JsonInv => JsonTypeOK
  BY DEF JsonInv
<1> QED BY <1>1, JsonInvAlways, PTL
-----------------------------------------------------------------------------
(* What calls do to what other objects refer to.                              *)

\* The values above a value are there.
LEMMA AboveIsThere ==
  ASSUME NEW s, IsShape(s), NEW p \in DOMAIN s, NEW path \in Path, IsPrefix(path, p)
  PROVE  path \in DOMAIN s
<1> DEFINE T == {Len(q) : q \in {q \in DOMAIN s : IsPrefix(path, q)}}
           R == OpToRel(<, Nat)
<1>1. \A q \in DOMAIN s : q \in Path /\ Len(q) \in Nat
  BY ShapeParts, PathTypes
<1>2. T \subseteq Nat /\ T # {}
  BY <1>1
<1>3. IsWellFoundedOn(R, Nat)
  BY NatLessThanWellFounded
<1>4. \A x, y \in Nat : x < y => <<x, y>> \in R
  BY DEF OpToRel
<1>5. \A n : n \in T <=> \E q \in DOMAIN s : IsPrefix(path, q) /\ n = Len(q)
  OBVIOUS
<1> HIDE DEF T, R
<1>6. PICK n \in T : \A m \in T : ~(<<m, n>> \in R)
  BY <1>2, <1>3, WFMin
<1>7. PICK q \in DOMAIN s : IsPrefix(path, q) /\ n = Len(q)
  BY <1>5, <1>6
<1>8. CASE q = path
  BY <1>8
<1>9. CASE q # path
  <2>1. q # Nothing
    <3>1. Len(path) \in Nat /\ Len(path) <= Len(q) /\ Len(path) # Len(q)
      BY <1>1, <1>7, <1>9, PathTypes, PrefixIs, SamePath
    <3>2. Len(q) # 0
      BY <1>1, <3>1
    <3> QED BY <1>1, <3>2, PathTypes
  <2>2. Front(q) \in DOMAIN s /\ Len(Front(q)) = Len(q) - 1 /\ IsPrefix(path, Front(q))
    BY <1>1, <1>7, <1>9, <2>1, ShapeParts, PathTypes, PrefixOfFront
  <2>3. Len(q) - 1 \in T
    BY <1>5, <2>2
  <2>4. Len(q) - 1 < n /\ n \in Nat /\ Len(q) - 1 \in Nat
    BY <1>1, <1>2, <1>7, <2>2, <2>3
  <2> QED BY <1>4, <1>6, <2>3, <2>4
<1> QED BY <1>8, <1>9

\* A copy that is as it was handed out.
AsTaken(c) == role[c] = "copy" /\ c \notin moved

\* Documents belong to owners and to copies; a copy that is as taken is referred to
\* by itself and by what was handed out below it, to be read.
Copies ==
  /\ \A g \in Object : NodesOf(content[g]) # {} => role[g] \in {"owner", "copy"}
  /\ \A c \in Object : AsTaken(c) =>
       /\ Nothing \in DOMAIN content[c] /\ content[c][Nothing].node = target[c]
       /\ \A h \in Object : Live(h) /\ Holds(c, h) =>
            (h = c \/ role[h] = "view") /\ h \in Family({c})

\* What a call may remove: what is below the place it rewrites.
Removed(g, p) ==
  /\ asked'.effect \in {"write", "move", "delete"}
  /\ asked'.doc = g
  /\ IsPrefix(asked'.path, p)
  /\ asked'.effect # "delete" => asked'.path # p

\* What every call leaves: copies as they were taken, nodes that are removed for a
\* reason, documents when it fails, and what living objects refer to.
Careful ==
  /\ \A c \in Object : AsTaken(c) /\ c \notin moved' /\ role'[c] = "copy" => content'[c] = content[c]
  /\ \A g \in Object : NodesOf(content'[g]) # {} => role'[g] \in {"owner", "copy"}
  /\ \A g \in Object : \A p \in DOMAIN content[g] :
       \/ \E f \in Object : content[g][p].node \in NodesOf(content'[f])
       \/ Removed(g, p)
       \/ role[g] = "copy" /\ g \in moved /\ role'[g] = "deleted"
       \/ \A h \in Object : Live(h) /\ Live(h)' => ~Holds(g, h)
  /\ asked'.result \in {"refused", "threw"} =>
       \A h \in Object : Live(h)' => content'[h] = content[h]
  /\ \A h \in Object : Live(h) => target'[h] = target[h]

LEMMA HoldsIs ==
  ASSUME NEW g, NEW h
  PROVE  Holds(g, h) <=> target[h] \in NodesOf(content[g])
  BY DEF Holds, NodesOf

\* What no object may write to.
LEMMA WrittenIsNotAsTaken ==
  ASSUME DocumentsInv, Copies, NEW h \in Object, Writable(h)
  PROVE  /\ Holder(h) \in Object /\ ~AsTaken(Holder(h))
         /\ role[Holder(h)] \in {"owner", "copy"}
<1>1. Valid(h) /\ Live(h) /\ role[h] \in {"owner", "child"}
  BY DEF Writable, Valid
<1>2. \E g \in Object : Holds(g, h)
  BY <1>1 DEF Valid
<1>3. Holder(h) \in Object /\ Holds(Holder(h), h)
  BY <1>2 DEF Holder
<1>4. ~AsTaken(Holder(h))
  BY <1>1, <1>3 DEF Copies, AsTaken
<1>5. NodesOf(content[Holder(h)]) # {}
  BY <1>3, HoldsIs
<1> QED BY <1>3, <1>4, <1>5 DEF Copies

\* What a call does to the objects that there are: nothing but to make one.
ObjectsStay == \A g \in Object : role[g] # "none" => role'[g] = role[g] /\ target'[g] = target[g]

LEMMA ObjectsStayIf ==
  ASSUME JsonTypeOK, SameObjects \/ MakesOne
  PROVE  ObjectsStay
<1>1. CASE SameObjects
  BY <1>1 DEF SameObjects, ObjectsStay
<1>2. CASE MakesOne
  <2>1. PICK h \in Object, as \in {"child", "copy", "view"}, node \in 1 .. nodes' :
          Live(h) /\ CanCreate /\ HandOut(h, as, node)
    BY <1>2 DEF MakesOne
  <2>2. PICK new \in Object : new = NewObject /\ role[new] = "none"
    BY <2>1 DEF CanCreate, NewObject
  <2>3. /\ role' = [role EXCEPT ![new] = as] /\ target' = [target EXCEPT ![new] = node]
        /\ role \in [Object -> Roles] /\ target \in [Object -> 0 .. nodes]
    BY <2>1, <2>2 DEF HandOut, JsonTypeOK
  <2> QED BY <2>2, <2>3 DEF ObjectsStay
<1> QED BY <1>1, <1>2

\* Calls that leave the documents.
LEMMA ReadingIsCareful ==
  ASSUME Copies, ObjectsStay, content' = content
  PROVE  Careful
<1>1. \A g \in Object : \A p \in DOMAIN content[g] : content[g][p].node \in NodesOf(content'[g])
  BY NodesAre
<1>2. \A g \in Object : NodesOf(content'[g]) # {} => role'[g] \in {"owner", "copy"}
  BY DEF Copies, ObjectsStay
<1>3. \A h \in Object : Live(h) => target'[h] = target[h]
  BY DEF ObjectsStay, Live
<1> QED BY <1>1, <1>2, <1>3 DEF Careful

\* Calls that make a document.
LEMMA MakingIsCareful ==
  ASSUME DocumentsInv, Copies, ObjectsStay, NEW new \in Object, role[new] = "none", NEW w,
         content' = [content EXCEPT ![new] = w],
         role'[new] \in {"owner", "copy"}, asked'.result \notin {"refused", "threw"}
  PROVE  Careful
<1>1. DOMAIN content = Object
  BY DEF DocumentsInv
<1>2. /\ content'[new] = w /\ \A g \in Object : g # new => content'[g] = content[g]
      /\ NodesOf(content[new]) = {}
  BY <1>1 DEF Copies
<1>3. ASSUME NEW g \in Object, NEW p \in DOMAIN content[g]
      PROVE  content[g][p].node \in NodesOf(content'[g])
  <2>1. g # new
    BY <1>2, <1>3, NodesAre
  <2>2. content'[g] = content[g]
    BY <1>2, <2>1
  <2> QED BY <1>3, <2>2, NodesAre
<1>4. \A g \in Object : NodesOf(content'[g]) # {} => role'[g] \in {"owner", "copy"}
  BY <1>2 DEF Copies, ObjectsStay
<1>5. \A h \in Object : Live(h) => target'[h] = target[h]
  BY DEF ObjectsStay, Live
<1>6. \A c \in Object : AsTaken(c) => content'[c] = content[c]
  BY <1>2 DEF AsTaken
<1> QED BY <1>3, <1>4, <1>5, <1>6 DEF Careful

\* Calls that change one document.
LEMMA ChangingIsCareful ==
  ASSUME DocumentsInv, Copies, ObjectsStay, NEW d \in Object, ~AsTaken(d),
         role[d] \in {"owner", "copy"}, NEW w, content' = [content EXCEPT ![d] = w],
         \A p \in DOMAIN content[d] : content[d][p].node \in NodesOf(w) \/ Removed(d, p),
         asked'.result \notin {"refused", "threw"}
  PROVE  Careful
<1>1. DOMAIN content = Object
  BY DEF DocumentsInv
<1>2. content'[d] = w /\ \A g \in Object : g # d => content'[g] = content[g]
  BY <1>1
<1>3. ASSUME NEW g \in Object, NEW p \in DOMAIN content[g]
      PROVE  content[g][p].node \in NodesOf(content'[g]) \/ Removed(g, p)
  BY <1>2, <1>3, NodesAre
<1>4. \A g \in Object : NodesOf(content'[g]) # {} => role'[g] \in {"owner", "copy"}
  BY <1>2 DEF Copies, ObjectsStay
<1>5. \A h \in Object : Live(h) => target'[h] = target[h]
  BY DEF ObjectsStay, Live
<1>6. \A c \in Object : AsTaken(c) => content'[c] = content[c]
  BY <1>2
<1> QED BY <1>3, <1>4, <1>5, <1>6 DEF Careful

\* A value is put into a document: what is below its place goes, if there was a value.
LEMMA PuttingIsCareful ==
  ASSUME DocumentsInv, Copies, ObjectsStay, NEW h \in Object, Writable(h), NEW doc, IsTree(doc),
         DOMAIN doc = DOMAIN content[Holder(h)],
         \A p \in DOMAIN doc : doc[p].node = content[Holder(h)][p].node,
         NEW path \in Path, NEW shape, IsShape(shape), Nothing \in DOMAIN shape,
         content' = [content EXCEPT ![Holder(h)] = WithTree(doc, path, Fresh(shape, nodes))],
         NEW effect, NEW result, Answer(effect, h, path, result),
         path \in DOMAIN doc => effect = "write",
         result \notin {"refused", "threw"}
  PROVE  Careful
<1> DEFINE d == Holder(h)
           tree == Fresh(shape, nodes)
           w == WithTree(doc, path, tree)
<1>1. d \in Object /\ ~AsTaken(d) /\ role[d] \in {"owner", "copy"}
  BY WrittenIsNotAsTaken
<1>2. /\ asked'.effect = effect /\ asked'.doc = d /\ asked'.path = path
      /\ asked'.result \notin {"refused", "threw"}
  BY DEF Answer
<1>3. IsTree(tree) /\ Nothing \in DOMAIN tree
  BY FreshIs DEF DocumentsInv
<1>4. content' = [content EXCEPT ![d] = w]
  OBVIOUS
<1>5. PutIn(w, doc, path, tree)
  BY <1>3, WithTreeIs
<1>6. /\ DOMAIN doc = DOMAIN content[d]
      /\ \A p \in DOMAIN doc : doc[p].node = content[d][p].node
  OBVIOUS
<1> HIDE DEF d, tree, w
<1>7. /\ path \o Nothing = path
      /\ \A p \in DOMAIN doc : doc[p] \in [kind : Kinds, node : Nat \ {0}]
  BY JoinSplit, TreeParts
<1>8. ASSUME NEW p \in DOMAIN content[d]
      PROVE  content[d][p].node \in NodesOf(w) \/ Removed(d, p)
  <2>1. CASE IsPrefix(path, p) => p = path
    <3>1. doc[p].node \in NodesOf(w)
      BY <1>3, <1>5, <1>6, <1>7, <1>8, <2>1, PutInKeeps
    <3> QED BY <1>6, <1>8, <3>1
  <2>2. CASE IsPrefix(path, p) /\ p # path
    <3>1. path \in DOMAIN doc
      <4>1. IsShape(Shape(doc)) /\ DOMAIN Shape(doc) = DOMAIN doc
        BY TreeParts, ShapeOf
      <4> QED BY <1>6, <1>8, <2>2, <4>1, AboveIsThere
    <3>2. asked'.effect = "write"
      BY <1>2, <3>1
    <3> QED BY <1>2, <2>2, <3>2 DEF Removed
  <2> QED BY <2>1, <2>2
<1> QED BY <1>1, <1>2, <1>4, <1>8, ChangingIsCareful

\* Assigning removes only what is below the place.
LEMMA AssigningIsCareful ==
  ASSUME DocumentsInv, Copies, ObjectsStay, NEW h \in Object, Writable(h),
         NEW path \in Path, NEW shape, IsShape(shape), Nothing \in DOMAIN shape,
         Assign(Holder(h), path, shape),
         NEW effect, NEW result, Answer(effect, h, path, result),
         path \in DOMAIN content[Holder(h)] => effect = "write",
         result \notin {"refused", "threw"}
  PROVE  Careful
<1>1. IsTree(content[Holder(h)])
  BY Referred DEF Writable
<1>2. content' = [content EXCEPT ![Holder(h)] =
                    WithTree(content[Holder(h)], path, Fresh(shape, nodes))]
  BY DEF Assign
<1> QED BY <1>1, <1>2, PuttingIsCareful

\* Putting a member in removes what is below it, if it was there.
LEMMA PuttingAMemberIsCareful ==
  ASSUME DocumentsInv, Copies, ObjectsStay, NEW h \in Object, Writable(h),
         NEW k \in Key, NEW shape, IsShape(shape), Nothing \in DOMAIN shape,
         PutMember(h, k, shape), NEW result,
         Answer(EffectAt(h, MemberPath(h, k)), h, MemberPath(h, k), result),
         result \notin {"refused", "threw"}
  PROVE  Careful
<1> DEFINE d == Holder(h)
           doc == Rekinded(content[d], PathOf(h))
<1>1. /\ d \in Object /\ IsTree(content[d]) /\ DocOf(h) = content[d]
      /\ PathOf(h) \in DOMAIN content[d] /\ PathOf(h) \in Path
      /\ KindOf(h) = content[d][PathOf(h)].kind
  BY Referred DEF Writable
<1>2. /\ KindOf(h) \in {"object", "null"}
      /\ content' = [content EXCEPT ![d] = WithTree(doc, MemberPath(h, k), Fresh(shape, nodes))]
  BY DEF PutMember, CanLookUp, Rekinded
<1>3. /\ IsTree(doc) /\ DOMAIN doc = DOMAIN content[d]
      /\ \A p \in DOMAIN doc : doc[p].node = content[d][p].node
  <2> HIDE DEF d
  <2>1. IsTree(doc) /\ DOMAIN doc = DOMAIN content[d]
    BY <1>1, <1>2, RekindedTree
  <2>2. ASSUME NEW p \in DOMAIN content[d]
        PROVE  doc[p].node = content[d][p].node
    <3>1. content[d][p] \in [kind : Kinds, node : Nat \ {0}]
      BY <1>1, TreeParts
    <3> QED BY <1>1, <3>1 DEF Rekinded
  <2> QED BY <2>1, <2>2
<1>4. MemberPath(h, k) \in Path
  BY <1>1, Appended DEF MemberPath
<1>5. MemberPath(h, k) \in DOMAIN doc => EffectAt(h, MemberPath(h, k)) = "write"
  BY <1>1, <1>3 DEF EffectAt
<1> HIDE DEF doc
<1> QED BY <1>2, <1>3, <1>4, <1>5, PuttingIsCareful

LEMMA NothingIsCareful ==
  ASSUME JsonTypeOK, Copies, NEW result, Unchanged(result)
  PROVE  Careful /\ SameObjects /\ moved' = moved
<1>1. UNCHANGED <<role, content, target, children, nodes, deletedTwice, moved>>
  BY DEF Unchanged
<1>2. SameObjects
  BY <1>1 DEF SameObjects
<1> QED BY <1>1, <1>2, ObjectsStayIf, ReadingIsCareful

\* Handing out more objects makes families larger.
LEMMA FamiliesGrow ==
  ASSUME \A g \in Object : children[g] \subseteq children'[g], NEW hs
  PROVE  /\ Family(hs) \subseteq Family(hs)'
         /\ \A x \in Family(hs)' : \A y \in children'[x] : y \in Object => y \in Family(hs)'
<1>1. \A d : d \in Family(hs) <=> d \in Object /\ \A s \in SUBSET Object :
                (hs \subseteq s /\ \A x \in s : children[x] \subseteq s) => d \in s
  BY DEF Family
<1>2. \A d : d \in Family(hs)' <=> d \in Object /\ \A s \in SUBSET Object :
                (hs \subseteq s /\ \A x \in s : children'[x] \subseteq s) => d \in s
  BY DEF Family
<1>3. ASSUME NEW d \in Family(hs)
      PROVE  d \in Family(hs)'
  <2>1. ASSUME NEW s \in SUBSET Object, hs \subseteq s, \A x \in s : children'[x] \subseteq s
        PROVE  d \in s
    <3>1. \A x \in s : children[x] \subseteq s
      BY <2>1
    <3> QED BY <1>1, <1>3, <2>1, <3>1
  <2>2. d \in Object
    BY <1>1, <1>3
  <2> QED BY <1>2, <2>1, <2>2
<1>4. ASSUME NEW x \in Family(hs)', NEW y \in children'[x], y \in Object
      PROVE  y \in Family(hs)'
  <2>1. ASSUME NEW s \in SUBSET Object, hs \subseteq s, \A z \in s : children'[z] \subseteq s
        PROVE  y \in s
    BY <1>2, <1>4, <2>1
  <2> QED BY <1>2, <1>4, <2>1
<1> QED BY <1>3, <1>4

\* Calls that make no object.
LEMMA CopiesStayAsTheyAre ==
  ASSUME Copies, Careful, SameObjects, moved \subseteq moved'
  PROVE  Copies'
<1>1. role' = role /\ target' = target /\ children' = children
  BY DEF SameObjects
<1>2. /\ \A c \in Object : AsTaken(c) /\ c \notin moved' /\ role'[c] = "copy" =>
           content'[c] = content[c]
      /\ \A g \in Object : NodesOf(content'[g]) # {} => role'[g] \in {"owner", "copy"}
  BY DEF Careful
<1>3. ASSUME NEW c \in Object, AsTaken(c)'
      PROVE  /\ Nothing \in DOMAIN content'[c] /\ content'[c][Nothing].node = target'[c]
             /\ \A h \in Object : Live(h)' /\ Holds(c, h)' =>
                  (h = c \/ role'[h] = "view") /\ h \in Family({c})'
  <2>1. AsTaken(c) /\ content'[c] = content[c]
    BY <1>1, <1>2, <1>3 DEF AsTaken
  <2>2. /\ Nothing \in DOMAIN content[c] /\ content[c][Nothing].node = target[c]
        /\ \A h \in Object : Live(h) /\ Holds(c, h) =>
             (h = c \/ role[h] = "view") /\ h \in Family({c})
    BY <2>1 DEF Copies
  <2>3. ASSUME NEW h \in Object, Live(h)', Holds(c, h)'
        PROVE  (h = c \/ role'[h] = "view") /\ h \in Family({c})'
    <3>1. Live(h) /\ Holds(c, h)
      BY <1>1, <2>1, <2>3 DEF Live, Holds
    <3>2. (h = c \/ role[h] = "view") /\ h \in Family({c})
      BY <2>2, <3>1
    <3>3. Family({c}) \subseteq Family({c})'
      BY <1>1, FamiliesGrow
    <3> QED BY <1>1, <3>2, <3>3
  <2> QED BY <1>1, <2>1, <2>2, <2>3
<1> QED BY <1>2, <1>3 DEF Copies

\* What is said of the node that a new object refers to: a copy has nodes of its own;
\* a child refers to a document that is written to; a view refers to the document of
\* the object that it was asked of.
Refers(h, as, node) ==
  /\ as = "copy" =>
       /\ Nothing \in DOMAIN content'[NewObject]
       /\ content'[NewObject][Nothing].node = node
       /\ \A n \in NodesOf(content'[NewObject]) : n \notin 1 .. nodes
  /\ as = "child" => \E d \in Object : ~AsTaken(d) /\ node \in NodesOf(content'[d])
  /\ as = "view" => \E d \in Object : Holds(d, h) /\ node \in NodesOf(content[d])

\* A new object is a copy, refers below a copy to be read, or to a document that may
\* be written to.
LEMMA CopiesStayWithOneMore ==
  ASSUME JsonInv, DocumentsInv', Copies, Careful, moved' = moved, NEW h \in Object, Live(h),
         NEW as \in {"child", "copy", "view"}, NEW node, CanCreate, HandOut(h, as, node),
         Refers(h, as, node)
  PROVE  Copies'
<1>1. PICK new \in Object : new = NewObject /\ role[new] = "none"
  BY DEF CanCreate, NewObject
<1>2. /\ children \in [Object -> SUBSET Object] /\ role \in [Object -> Roles]
      /\ target \in [Object -> 0 .. nodes]
  BY DEF JsonInv, JsonTypeOK
<1>3. /\ role' = [role EXCEPT ![new] = as]
      /\ target' = [target EXCEPT ![new] = node]
      /\ children' = [children EXCEPT ![h] = children[h] \cup {new}]
  BY <1>1 DEF HandOut
<1>4. /\ role'[new] = as /\ target'[new] = node /\ new \in children'[h]
      /\ \A g \in Object : g # new => role'[g] = role[g] /\ target'[g] = target[g]
      /\ \A g \in Object : children[g] \subseteq children'[g]
  BY <1>1, <1>2, <1>3
<1>5. /\ nodes \in Nat
      /\ \A g \in Object : NodesOf(content[g]) \subseteq 1 .. nodes
      /\ \A f, g \in Object : f # g => NodesOf(content[f]) \cap NodesOf(content[g]) = {}
      /\ \A f, g \in Object : f # g => NodesOf(content'[f]) \cap NodesOf(content'[g]) = {}
  BY DEF JsonInv, DocumentsInv
<1>6. /\ \A c \in Object : AsTaken(c) /\ c \notin moved' /\ role'[c] = "copy" =>
           content'[c] = content[c]
      /\ \A g \in Object : NodesOf(content'[g]) # {} => role'[g] \in {"owner", "copy"}
  BY DEF Careful
<1>7. /\ as = "copy" => /\ Nothing \in DOMAIN content'[new]
                        /\ content'[new][Nothing].node = node
                        /\ \A n \in NodesOf(content'[new]) : n \notin 1 .. nodes
      /\ as = "child" => \E d \in Object : ~AsTaken(d) /\ node \in NodesOf(content'[d])
      /\ as = "view" => \E d \in Object : Holds(d, h) /\ node \in NodesOf(content[d])
  BY <1>1 DEF Refers
<1>8. \A x, y : /\ Holds(x, y) <=> target[y] \in NodesOf(content[x])
                /\ Holds(x, y)' <=> target'[y] \in NodesOf(content'[x])
  BY DEF Holds, NodesOf
<1>9. ASSUME NEW c \in Object, AsTaken(c)'
      PROVE  /\ Nothing \in DOMAIN content'[c] /\ content'[c][Nothing].node = target'[c]
             /\ \A x \in Object : Live(x)' /\ Holds(c, x)' =>
                  (x = c \/ role'[x] = "view") /\ x \in Family({c})'
  <2>1. CASE c = new
    <3>1. as = "copy"
      BY <1>4, <1>9, <2>1 DEF AsTaken
    <3>2. Nothing \in DOMAIN content'[c] /\ content'[c][Nothing].node = target'[c]
      BY <1>4, <1>7, <2>1, <3>1
    <3>3. c \in Family({c})'
      BY DEF Family
    <3>4. ASSUME NEW x \in Object, Live(x)', Holds(c, x)', x # c
          PROVE  FALSE
      <4>1. target[x] \in NodesOf(content'[new]) /\ Live(x)
        BY <1>4, <1>8, <2>1, <3>4 DEF Live
      <4>2. target[x] = 0
        <5>1. target[x] \in 0 .. nodes
          BY <1>2
        <5>2. target[x] \notin 1 .. nodes
          BY <1>7, <3>1, <4>1
        <5> QED BY <1>5, <5>1, <5>2
      <4>3. NodesOf(content'[new]) \subseteq 1 .. nodes'
        BY <1>1 DEF DocumentsInv
      <4> QED BY <4>1, <4>2, <4>3
    <3> QED BY <3>2, <3>3, <3>4
  <2>2. CASE c # new
    <3>1. AsTaken(c) /\ content'[c] = content[c] /\ target'[c] = target[c]
      BY <1>4, <1>6, <1>9, <2>2 DEF AsTaken
    <3>2. /\ Nothing \in DOMAIN content[c] /\ content[c][Nothing].node = target[c]
          /\ \A x \in Object : Live(x) /\ Holds(c, x) =>
               (x = c \/ role[x] = "view") /\ x \in Family({c})
      BY <3>1 DEF Copies
    <3>3. /\ Family({c}) \subseteq Family({c})'
          /\ \A x \in Family({c})' : \A y \in children'[x] : y \in Object => y \in Family({c})'
      BY <1>4, FamiliesGrow
    <3>4. ASSUME NEW x \in Object, x # new, Live(x)', Holds(c, x)'
          PROVE  (x = c \/ role'[x] = "view") /\ x \in Family({c})'
      <4>1. Live(x) /\ Holds(c, x) /\ role'[x] = role[x]
        BY <1>4, <1>8, <3>1, <3>4 DEF Live
      <4> QED BY <3>2, <3>3, <4>1
    <3>5. ASSUME Holds(c, new)'
          PROVE  role'[new] = "view" /\ new \in Family({c})'
      <4>1. node \in NodesOf(content[c]) /\ node \in NodesOf(content'[c])
        BY <1>4, <1>8, <3>1, <3>5
      <4>2. as # "copy"
        <5>1. ASSUME as = "copy"
              PROVE  FALSE
          <6>1. node \in NodesOf(content'[new])
            BY <1>7, <5>1, NodesAre
          <6> QED BY <1>5, <2>2, <4>1, <6>1
        <5> QED BY <5>1
      <4>3. as # "child"
        BY <1>5, <1>7, <3>1, <4>1
      <4>4. as = "view"
        BY <4>2, <4>3
      <4>5. Holds(c, h)
        BY <1>5, <1>7, <4>1, <4>4
      <4>6. h \in Family({c})
        BY <3>2, <4>5
      <4>7. new \in Family({c})'
        BY <1>4, <3>3, <4>6
      <4> QED BY <1>4, <4>4, <4>7
    <3> QED BY <3>1, <3>2, <3>4, <3>5
  <2> QED BY <2>1, <2>2
<1> QED BY <1>6, <1>9 DEF Copies

\* Deleting a family leaves the copies of the others, and takes along all that refers
\* to one of its own that is as it was taken.
LEMMA CopiesStayWhenDeleting ==
  ASSUME JsonTypeOK, Copies, NEW hs \in SUBSET Object,
         NEW emptied \in SUBSET Object, Family(hs) \subseteq emptied,
         \A x \in emptied : x \in Family(hs) \/ children[x] \subseteq Family(hs),
         DeleteObjects(Family(hs)),
         children' = [g \in Object |-> IF g \in emptied THEN {} ELSE children[g]],
         target' = target, moved' = moved,
         \A g \in Object : g \in Family(hs) => NodesOf(content'[g]) = {},
         \A g \in Object : g \notin Family(hs) /\ AsTaken(g) => content'[g] = content[g],
         \A g \in Object : NodesOf(content'[g]) \subseteq NodesOf(content[g])
  PROVE  /\ Copies'
         /\ \A g \in Object : NodesOf(content'[g]) # {} => role'[g] \in {"owner", "copy"}
         /\ \A c \in Family(hs) : AsTaken(c) =>
              \A h \in Object : Live(h) /\ Holds(c, h) => h \in Family(hs)
<1> DEFINE F == Family(hs)
<1>1. children \in [Object -> SUBSET Object]
  BY DEF JsonTypeOK
<1>2. /\ F \subseteq Object /\ hs \subseteq F
      /\ \A x \in F : children[x] \subseteq F
  BY <1>1, FamilyIs
<1>3. /\ \A g \in Object : g \in F => role'[g] = "deleted"
      /\ \A g \in Object : g \notin F => role'[g] = role[g]
  BY DEF DeleteObjects
<1>4. /\ F \subseteq emptied
      /\ \A x \in emptied : x \in F \/ children[x] \subseteq F
      /\ \A g \in Object : g \in F => NodesOf(content'[g]) = {}
      /\ \A g \in Object : g \notin F /\ AsTaken(g) => content'[g] = content[g]
  OBVIOUS
<1> HIDE DEF F
<1>5. \A g \in Object : NodesOf(content'[g]) # {} => role'[g] \in {"owner", "copy"}
  <2>1. ASSUME NEW g \in Object, NodesOf(content'[g]) # {}
        PROVE  role'[g] \in {"owner", "copy"}
    <3>1. g \notin F /\ NodesOf(content[g]) # {}
      BY <1>4, <2>1
    <3> QED BY <1>3, <3>1 DEF Copies
  <2> QED BY <2>1
<1>6. ASSUME NEW c \in Object, AsTaken(c)'
      PROVE  /\ Nothing \in DOMAIN content'[c] /\ content'[c][Nothing].node = target'[c]
             /\ \A h \in Object : Live(h)' /\ Holds(c, h)' =>
                  (h = c \/ role'[h] = "view") /\ h \in Family({c})'
  <2>1. c \notin F /\ AsTaken(c)
    BY <1>3, <1>6 DEF AsTaken
  <2>2. content'[c] = content[c]
    BY <1>4, <2>1
  <2>3. /\ Nothing \in DOMAIN content[c] /\ content[c][Nothing].node = target[c]
        /\ \A h \in Object : Live(h) /\ Holds(c, h) =>
             (h = c \/ role[h] = "view") /\ h \in Family({c})
    BY <2>1 DEF Copies
  <2>4. ASSUME NEW h \in Object, Live(h)', Holds(c, h)'
        PROVE  (h = c \/ role'[h] = "view") /\ h \in Family({c})'
    <3>1. h \notin F /\ role'[h] = role[h] /\ Live(h) /\ Holds(c, h)
      BY <1>3, <2>2, <2>4 DEF Live, Holds
    <3>2. (h = c \/ role[h] = "view") /\ h \in Family({c})
      BY <2>3, <3>1
    <3>3. ASSUME NEW s \in SUBSET Object, {c} \subseteq s, \A x \in s : children'[x] \subseteq s
          PROVE  h \in s
      <4> DEFINE t == s \cup F
      <4>1. t \in SUBSET Object /\ {c} \subseteq t
        BY <1>2, <3>3
      <4>2. \A x \in t : children[x] \subseteq t
        <5>1. ASSUME NEW x \in t
              PROVE  children[x] \subseteq t
          <6>1. CASE x \in emptied
            BY <1>2, <1>4, <6>1
          <6>2. CASE x \notin emptied
            <7>1. x \in s /\ children'[x] = children[x]
              BY <1>4, <4>1, <5>1, <6>2
            <7> QED BY <3>3, <7>1
          <6> QED BY <6>1, <6>2
        <5> QED BY <5>1
      <4> HIDE DEF t
      <4>3. h \in t
        BY <3>2, <4>1, <4>2 DEF Family
      <4> QED BY <3>1, <4>3 DEF t
    <3>4. h \in Family({c})'
      BY <3>3 DEF Family
    <3> QED BY <3>1, <3>2, <3>4
  <2> QED BY <2>2, <2>3, <2>4
<1>7. Copies'
  BY <1>5, <1>6 DEF Copies
<1>8. ASSUME NEW c \in F, AsTaken(c), NEW h \in Object, Live(h), Holds(c, h)
      PROVE  h \in F
  <2>1. h \in Family({c})
    BY <1>2, <1>8 DEF Copies
  <2>2. {c} \subseteq F /\ F \in SUBSET Object
    BY <1>2
  <2> QED BY <1>2, <2>1, <2>2 DEF Family
<1> QED BY <1>5, <1>7, <1>8 DEF F

\* What was handed out and has a document is a copy.
LEMMA HandedOutAreCopies ==
  ASSUME JsonTypeOK, Owners, Copies, NEW hs \in SUBSET Object,
         NEW g \in Family(hs), NodesOf(content[g]) # {}, g \notin hs \/ role[g] # "owner"
  PROVE  role[g] = "copy"
<1>1. children \in [Object -> SUBSET Object]
  BY DEF JsonTypeOK
<1>2. /\ Family(hs) \subseteq Object
      /\ \A x \in Family(hs) : x \in hs \/ \E y \in Family(hs) : x \in children[y]
  BY <1>1, FamilyIs
<1>3. role[g] # "owner"
  BY <1>2 DEF Owners
<1> QED BY <1>2, <1>3 DEF Copies

\* Clear() removes what is below the value; the copies among what it deletes go as well,
\* and only objects of their own families refer to those that are as they were taken.
LEMMA ClearIsCareful ==
  ASSUME JsonInv, Copies, NEW h \in Object, Clear(h)
  PROVE  Careful /\ Copies'
<1> DEFINE hs == children[h]
           gone == Family(hs)
           emptied == gone \cup {h}
           d == Holder(h)
           tree == [p \in {Nothing} |-> content[d][PathOf(h)]]
           w == WithTree(content[d], PathOf(h), tree)
<1>1. /\ JsonTypeOK /\ DocumentsInv /\ Owners
      /\ children \in [Object -> SUBSET Object] /\ hs \in SUBSET Object
      /\ \A g \in Object : IsTree(content[g])
  BY DEF JsonInv, JsonTypeOK, DocumentsInv
<1>2. /\ Valid(h) /\ Writable(h) /\ target' = target /\ moved' = moved
      /\ DeleteObjects(gone)
      /\ children' = [g \in Object |-> IF g \in emptied THEN {} ELSE children[g]]
  BY DEF Clear, Writable
<1>3. /\ d \in Object /\ DocOf(h) = content[d] /\ IsTree(content[d])
      /\ PathOf(h) \in DOMAIN content[d] /\ PathOf(h) \in Path
  BY <1>1, <1>2, Referred
<1>4. ~AsTaken(d)
  BY <1>1, <1>2, WrittenIsNotAsTaken
<1>5. content' = [g \in Object |->
             IF g \in gone THEN Nothing
             ELSE IF g = d /\ KindOf(h) # "scalar"
             THEN WithTree(content[g], PathOf(h), tree)
             ELSE content[g]]
  BY <1>3 DEF Clear
<1>6. /\ asked'.effect = "write" /\ asked'.doc = d /\ asked'.path = PathOf(h)
      /\ asked'.result \in {"refused", "threw"} => KindOf(h) = "scalar"
  BY DEF Clear, Answer
<1>7. IsTree(w) /\ NodesOf(w) \subseteq NodesOf(content[d])
  BY <1>3, EmptiedTree
<1>8. PutIn(w, content[d], PathOf(h), tree) /\ Nothing \in DOMAIN tree
  <2>1. content[d][PathOf(h)] \in [kind : Kinds, node : Nat \ {0}]
    BY <1>3, TreeParts
  <2>2. DOMAIN tree = {Nothing} /\ tree[Nothing] = content[d][PathOf(h)]
    OBVIOUS
  <2> HIDE DEF tree
  <2>3. IsTree(tree)
    <3>1. IsShape(Leaf(content[d][PathOf(h)].kind))
      BY <2>1, LeafIsShape
    <3>2. DOMAIN Leaf(content[d][PathOf(h)].kind) = {Nothing}
          /\ Leaf(content[d][PathOf(h)].kind)[Nothing] = content[d][PathOf(h)].kind
      BY DEF Leaf
    <3>3. DOMAIN Shape(tree) = {Nothing} /\ Shape(tree)[Nothing] = content[d][PathOf(h)].kind
      BY <2>2, ShapeOf
    <3>4. IsShape(Shape(tree))
      BY <3>1, <3>2, <3>3, SameShape
    <3> QED BY <2>1, <2>2, <3>4 DEF IsTree
  <2> QED BY <1>3, <2>2, <2>3, WithTreeIs
<1> HIDE DEF tree, w, d, gone
<1>9. \A g \in Object : /\ g \in gone => content'[g] = Nothing
                        /\ g \notin gone => content'[g] = content[g]
                                            \/ (g = d /\ content'[g] = w /\ KindOf(h) # "scalar")
  BY <1>5 DEF w
<1>10. \A g \in Object : /\ g \in gone => NodesOf(content'[g]) = {}
                         /\ g \notin gone /\ AsTaken(g) => content'[g] = content[g]
                         /\ NodesOf(content'[g]) \subseteq NodesOf(content[g])
  BY <1>4, <1>7, <1>9, NoDocument
<1>11. gone \subseteq Object /\ hs \subseteq gone
  BY <1>1, FamilyIs DEF gone
<1>12. /\ emptied \in SUBSET Object /\ gone \subseteq emptied
       /\ \A x \in emptied : x \in gone \/ children[x] \subseteq gone
  BY <1>11
<1>13. /\ Copies'
       /\ \A g \in Object : NodesOf(content'[g]) # {} => role'[g] \in {"owner", "copy"}
       /\ \A c \in gone : AsTaken(c) =>
            \A x \in Object : Live(x) /\ Holds(c, x) => x \in gone
  <2> HIDE DEF emptied, hs
  <2> QED BY <1>1, <1>2, <1>10, <1>12, CopiesStayWhenDeleting DEF gone
<1>14. \A g \in Object : /\ g \in gone => role'[g] = "deleted"
                         /\ g \notin gone => role'[g] = role[g]
  BY <1>2 DEF DeleteObjects
<1>15. ASSUME NEW g \in Object, NEW p \in DOMAIN content[g]
       PROVE  \/ \E f \in Object : content[g][p].node \in NodesOf(content'[f])
              \/ Removed(g, p)
              \/ role[g] = "copy" /\ g \in moved /\ role'[g] = "deleted"
              \/ \A x \in Object : Live(x) /\ Live(x)' => ~Holds(g, x)
  <2>1. CASE g \in gone
    <3>1. NodesOf(content[g]) # {}
      BY <1>15, NodesAre
    <3>2. role[g] # "owner" \/ g \notin hs
      BY <1>1 DEF Owners
    <3>3. role[g] = "copy"
      BY <1>1, <2>1, <3>1, <3>2, HandedOutAreCopies DEF gone
    <3>4. CASE g \in moved
      BY <1>14, <2>1, <3>3, <3>4
    <3>5. CASE g \notin moved
      <4>1. \A x \in Object : Live(x) /\ Holds(g, x) => x \in gone
        BY <1>13, <2>1, <3>3, <3>5 DEF AsTaken
      <4>2. \A x \in gone : ~Live(x)'
        BY <1>11, <1>14 DEF Live
      <4> QED BY <4>1, <4>2
    <3> QED BY <3>4, <3>5
  <2>2. CASE g \notin gone /\ content'[g] = content[g]
    BY <1>15, <2>2, NodesAre
  <2>3. CASE g = d /\ content'[g] = w
    <3>1. CASE IsPrefix(PathOf(h), p) => p = PathOf(h)
      <4>1. /\ PathOf(h) \o Nothing = PathOf(h)
            /\ \A q \in DOMAIN content[d] : content[d][q] \in [kind : Kinds, node : Nat \ {0}]
        BY <1>3, JoinSplit, TreeParts
      <4>2. content[d][p].node \in NodesOf(w)
        BY <1>8, <1>15, <2>3, <3>1, <4>1, PutInKeeps
      <4> QED BY <2>3, <4>2
    <3>2. CASE IsPrefix(PathOf(h), p) /\ p # PathOf(h)
      BY <1>6, <2>3, <3>2 DEF Removed
    <3> QED BY <3>1, <3>2
  <2> QED BY <1>9, <2>1, <2>2, <2>3
<1>16. \A c \in Object : AsTaken(c) /\ c \notin moved' /\ role'[c] = "copy" =>
          content'[c] = content[c]
  BY <1>10, <1>14
<1>17. asked'.result \in {"refused", "threw"} =>
         \A x \in Object : Live(x)' => content'[x] = content[x]
  BY <1>6, <1>9, <1>14 DEF Live
<1>18. Careful
  <2>1. \A x \in Object : Live(x) => target'[x] = target[x]
    BY <1>2
  <2> QED BY <1>13, <1>15, <1>16, <1>17, <2>1 DEF Careful
<1> QED BY <1>13, <1>18

\* So with the destruction of an object.
LEMMA DestroyIsCareful ==
  ASSUME JsonInv, Copies, NEW h \in Object, Destroy(h)
  PROVE  Careful /\ Copies'
<1> DEFINE hs == {h}
           gone == Family(hs)
<1>1. /\ JsonTypeOK /\ DocumentsInv /\ Owners
      /\ children \in [Object -> SUBSET Object] /\ hs \in SUBSET Object
      /\ \A g \in Object : IsTree(content[g])
  BY DEF JsonInv, JsonTypeOK, DocumentsInv
<1>2. /\ role[h] = "owner" /\ target' = target /\ moved' = moved
      /\ DeleteObjects(gone)
      /\ children' = [g \in Object |-> IF g \in gone THEN {} ELSE children[g]]
      /\ content' = [g \in Object |-> IF g \in gone THEN Nothing ELSE content[g]]
      /\ asked' = [effect |-> "delete", doc |-> h, path |-> Nothing, result |-> "ok"]
  BY DEF Destroy
<1>3. asked'.effect = "delete" /\ asked'.doc = h /\ asked'.path = Nothing /\ asked'.result = "ok"
  BY <1>2
<1> HIDE DEF gone
<1>4. \A g \in Object : /\ g \in gone => NodesOf(content'[g]) = {}
                        /\ g \notin gone => content'[g] = content[g]
                        /\ NodesOf(content'[g]) \subseteq NodesOf(content[g])
  BY <1>2, NoDocument
<1>5. gone \in SUBSET Object /\ hs \subseteq gone
  BY <1>1, FamilyIs DEF gone
<1>6. /\ Copies'
      /\ \A g \in Object : NodesOf(content'[g]) # {} => role'[g] \in {"owner", "copy"}
      /\ \A c \in gone : AsTaken(c) =>
           \A x \in Object : Live(x) /\ Holds(c, x) => x \in gone
  <2> HIDE DEF hs
  <2> QED BY <1>1, <1>2, <1>4, <1>5, CopiesStayWhenDeleting DEF gone
<1>7. \A g \in Object : /\ g \in gone => role'[g] = "deleted"
                        /\ g \notin gone => role'[g] = role[g]
  BY <1>2 DEF DeleteObjects
<1>8. ASSUME NEW g \in Object, NEW p \in DOMAIN content[g]
      PROVE  \/ \E f \in Object : content[g][p].node \in NodesOf(content'[f])
             \/ Removed(g, p)
             \/ role[g] = "copy" /\ g \in moved /\ role'[g] = "deleted"
             \/ \A x \in Object : Live(x) /\ Live(x)' => ~Holds(g, x)
  <2>1. CASE g \notin gone
    BY <1>4, <1>8, <2>1, NodesAre
  <2>2. CASE g = h
    <3>1. p \in Path /\ Nothing \in Path /\ Len(Nothing) = 0 /\ Len(p) \in Nat
      <4>1. p \in Path
        BY <1>1, <1>8, TreeParts
      <4>2. Nothing \in Path
        BY DEF Nothing, Path
      <4> QED BY <4>1, <4>2, PathTypes
    <3>2. IsPrefix(Nothing, p)
      BY <3>1, PrefixIs
    <3> QED BY <1>3, <2>2, <3>2 DEF Removed
  <2>3. CASE g \in gone /\ g # h
    <3>1. NodesOf(content[g]) # {} /\ g \notin hs
      BY <1>8, <2>3, NodesAre
    <3>2. role[g] = "copy"
      BY <1>1, <2>3, <3>1, HandedOutAreCopies DEF gone
    <3>3. CASE g \in moved
      BY <1>7, <2>3, <3>2, <3>3
    <3>4. CASE g \notin moved
      <4>1. \A x \in Object : Live(x) /\ Holds(g, x) => x \in gone
        BY <1>6, <2>3, <3>2, <3>4 DEF AsTaken
      <4>2. \A x \in gone : ~Live(x)'
        BY <1>5, <1>7 DEF Live
      <4> QED BY <4>1, <4>2
    <3> QED BY <3>3, <3>4
  <2> QED BY <2>1, <2>2, <2>3
<1>9. \A c \in Object : role'[c] = "copy" => content'[c] = content[c]
  BY <1>4, <1>7
<1>10. Careful
  <2>1. \A x \in Object : Live(x) => target'[x] = target[x]
    BY <1>2
  <2> QED BY <1>3, <1>6, <1>8, <1>9, <2>1 DEF Careful
<1> QED BY <1>6, <1>10

-----------------------------------------------------------------------------
(* The calls again. *)

LEMMA CreateIsCareful ==
  ASSUME JsonInv, Copies, NEW kind, Create(kind)
  PROVE  Careful /\ Copies'
<1>1. PICK new \in Object : new = NewObject /\ role[new] = "none"
  BY DEF Create, CanCreate, NewObject
<1>2. /\ role' = [role EXCEPT ![new] = "owner"]
      /\ content' = [content EXCEPT ![new] = Fresh(Leaf(kind), nodes)]
      /\ target' = [target EXCEPT ![new] = nodes + 1]
      /\ asked'.result = "ok" /\ children' = children /\ moved' = moved
  BY <1>1 DEF Create
<1>3. /\ DocumentsInv /\ role \in [Object -> Roles] /\ target \in [Object -> 0 .. nodes]
      /\ DOMAIN content = Object /\ nodes \in Nat
      /\ \A g \in Object : NodesOf(content[g]) \subseteq 1 .. nodes
  BY DEF JsonInv, JsonTypeOK, DocumentsInv
<1>4. /\ \A g \in Object : g # new => role'[g] = role[g] /\ target'[g] = target[g]
                                      /\ content'[g] = content[g]
      /\ role'[new] = "owner" /\ target'[new] = nodes + 1
  BY <1>2, <1>3
<1>5. ObjectsStay
  BY <1>1, <1>4 DEF ObjectsStay
<1>6. Careful
  BY <1>1, <1>2, <1>3, <1>4, <1>5, MakingIsCareful
<1>7. ASSUME NEW c \in Object, AsTaken(c)'
      PROVE  /\ Nothing \in DOMAIN content'[c] /\ content'[c][Nothing].node = target'[c]
             /\ \A x \in Object : Live(x)' /\ Holds(c, x)' =>
                  (x = c \/ role'[x] = "view") /\ x \in Family({c})'
  <2>1. /\ AsTaken(c) /\ content'[c] = content[c] /\ target'[c] = target[c]
    BY <1>2, <1>4, <1>7 DEF AsTaken
  <2>2. /\ Nothing \in DOMAIN content[c] /\ content[c][Nothing].node = target[c]
        /\ \A x \in Object : Live(x) /\ Holds(c, x) =>
             (x = c \/ role[x] = "view") /\ x \in Family({c})
    BY <2>1 DEF Copies
  <2>3. ASSUME NEW x \in Object, Live(x)', Holds(c, x)'
        PROVE  (x = c \/ role'[x] = "view") /\ x \in Family({c})'
    <3>1. target'[x] \in NodesOf(content[c])
      BY <2>1, <2>3 DEF Holds, NodesOf
    <3>2. nodes + 1 \notin 1 .. nodes
      BY <1>3
    <3>3. x # new
      BY <1>3, <1>4, <3>1, <3>2
    <3>4. Live(x) /\ Holds(c, x) /\ role'[x] = role[x]
      BY <1>4, <2>3, <3>1, <3>3, HoldsIs DEF Live
    <3>5. Family({c}) \subseteq Family({c})'
      BY <1>2, FamiliesGrow
    <3> QED BY <2>2, <3>4, <3>5
  <2> QED BY <2>1, <2>2, <2>3
<1>8. Copies'
  BY <1>6, <1>7 DEF Copies, Careful
<1> QED BY <1>6, <1>8

LEMMA RefusingIsCareful ==
  ASSUME JsonInv, Copies, NEW result, Unchanged(result)
  PROVE  Careful /\ Copies'
  BY NothingIsCareful, CopiesStayAsTheyAre DEF JsonInv

\* The calls that hand out a copy, that assign to another object, that change one place.
LEMMA CopyMemberIsCareful ==
  ASSUME JsonInv, DocumentsInv', Copies, NEW h \in Object, NEW k \in Key, NEW kind,
         CopyMember(h, k, kind)
  PROVE  Careful /\ Copies'
<1>1. Valid(h) /\ Live(h) /\ JsonTypeOK /\ DocumentsInv /\ nodes \in Nat
  BY DEF CopyMember, Valid, JsonInv, DocumentsInv
<1>2. CASE LookUpFails(h, k, kind)
  BY <1>2, RefusingIsCareful DEF LookUpFails
<1>3. CASE ~LookUpFails(h, k, kind)
  <2> DEFINE shape == Shape(SubTree(DocOf(h), MemberPath(h, k)))
             copy == Fresh(shape, nodes)
             node == copy[Nothing].node
  <2>1. /\ HasMember(h, k, kind) /\ CanCreate
        /\ content' = [content EXCEPT ![NewObject] = copy]
        /\ HandOut(h, "copy", node)
        /\ asked' = NoChange("ok")
        /\ deletedTwice' = deletedTwice /\ moved' = moved
    BY <1>3 DEF CopyMember
  <2>2. IsShape(shape) /\ Nothing \in DOMAIN shape
    BY <1>1, <2>1, MemberIsThere, CutIsShape
  <2>3. NewObject \in Object /\ role[NewObject] = "none"
    BY <2>1 DEF CanCreate, NewObject
  <2> HIDE DEF shape
  <2>4. /\ Cardinality(DOMAIN shape) \in Nat /\ DOMAIN copy = DOMAIN shape
        /\ \A q \in DOMAIN copy :
             copy[q].node \in nodes + 1 .. nodes + Cardinality(DOMAIN shape)
    BY <1>1, <2>2, FreshIs
  <2> HIDE DEF copy
  <2>5. content'[NewObject] = copy
    BY <1>1, <2>1, <2>3 DEF DocumentsInv
  <2>6. /\ role' = [role EXCEPT ![NewObject] = "copy"]
        /\ target' = [target EXCEPT ![NewObject] = node]
        /\ role \in [Object -> Roles] /\ target \in [Object -> 0 .. nodes]
    BY <1>1, <2>1 DEF HandOut, JsonTypeOK
  <2>7. ObjectsStay /\ role'[NewObject] = "copy"
    BY <2>3, <2>6 DEF ObjectsStay
  <2>8. asked'.result = "ok"
    BY <2>1 DEF NoChange
  <2>9. Careful
    BY <1>1, <2>1, <2>3, <2>7, <2>8, MakingIsCareful
  <2>10. \A n \in NodesOf(copy) : n \notin 1 .. nodes
    <3>1. ASSUME NEW q \in DOMAIN copy
          PROVE  copy[q].node \notin 1 .. nodes
      BY <1>1, <2>4
    <3> QED BY <3>1 DEF NodesOf
  <2>11. Refers(h, "copy", node)
    BY <2>2, <2>4, <2>5, <2>10 DEF Refers
  <2> HIDE DEF node
  <2>12. Copies'
    BY <1>1, <2>1, <2>9, <2>11, CopiesStayWithOneMore
  <2> QED BY <2>9, <2>12
<1> QED BY <1>2, <1>3

LEMMA AssignToIsCareful ==
  ASSUME JsonInv, Copies, NEW out \in Object, NEW shape, IsShape(shape), Nothing \in DOMAIN shape,
         AssignTo(out, shape)
  PROVE  Careful /\ Copies'
<1>1. /\ Writable(out) /\ Assign(Holder(out), PathOf(out), shape)
      /\ Answer("write", out, PathOf(out), "ok") /\ SameObjects /\ moved' = moved
      /\ JsonTypeOK /\ DocumentsInv
  BY DEF AssignTo, SameObjects, JsonInv
<1>2. PathOf(out) \in Path
  BY <1>1, Referred DEF Writable
<1>3. Careful
  BY <1>1, <1>2, ObjectsStayIf, AssigningIsCareful
<1> QED BY <1>1, <1>3, CopiesStayAsTheyAre

LEMMA GetObjectIntoIsCareful ==
  ASSUME JsonInv, Copies, NEW h \in Object, NEW k \in Key, NEW out \in Object,
         GetObjectInto(h, k, out)
  PROVE  Careful /\ Copies'
<1>1. Valid(h) /\ DocumentsInv
  BY DEF GetObjectInto, JsonInv
<1>2. CASE LookUpFails(h, k, "object")
  BY <1>2, RefusingIsCareful DEF LookUpFails
<1>3. CASE /\ HasMember(h, k, "object")
           /\ AssignTo(out, Shape(SubTree(DocOf(h), MemberPath(h, k))))
  <2>1. /\ IsShape(Shape(SubTree(DocOf(h), MemberPath(h, k))))
        /\ Nothing \in DOMAIN Shape(SubTree(DocOf(h), MemberPath(h, k)))
    BY <1>1, <1>3, MemberIsThere, CutIsShape
  <2> QED BY <1>3, <2>1, AssignToIsCareful
<1> QED BY <1>2, <1>3 DEF GetObjectInto

LEMMA GetElementIsCareful ==
  ASSUME JsonInv, DocumentsInv', Copies, NEW h \in Object, NEW i \in Nat, GetElement(h, i)
  PROVE  Careful /\ Copies'
<1>1. Valid(h) /\ DocumentsInv /\ JsonTypeOK
  BY DEF GetElement, JsonInv
<1>2. CASE Unchanged("refused")
  BY <1>2, RefusingIsCareful
<1>3. CASE ~Unchanged("refused")
  <2> DEFINE node == DocOf(h)[Append(PathOf(h), i)].node
  <2>1. /\ HasElement(h, i) /\ CanCreate /\ HandOut(h, "view", node)
        /\ content' = content /\ deletedTwice' = deletedTwice /\ moved' = moved
        /\ nodes' = nodes
    BY <1>3 DEF GetElement
  <2>2. Append(PathOf(h), i) \in DOMAIN DocOf(h) /\ IsTree(DocOf(h))
        /\ DocOf(h) = content[Holder(h)] /\ Holder(h) \in Object /\ Live(h)
    BY <1>1, <2>1, ElementIsThere, Referred
  <2>3. node \in NodesOf(content[Holder(h)])
    BY <2>2, TreeParts
  <2>4. node \in 1 .. nodes'
    BY <1>1, <2>1, <2>2, <2>3 DEF DocumentsInv
  <2>5. Holds(Holder(h), h)
    <3>1. \E g \in Object : Holds(g, h)
      BY <1>1 DEF Valid
    <3> QED BY <3>1 DEF Holder
  <2> HIDE DEF node
  <2>6. Refers(h, "view", node)
    BY <2>2, <2>3, <2>5 DEF Refers
  <2>7. ObjectsStay
    BY <1>1, <2>1, <2>2, <2>4, ObjectsStayIf DEF MakesOne
  <2>8. Careful
    BY <2>1, <2>7, ReadingIsCareful
  <2>9. Copies'
    BY <2>1, <2>2, <2>6, <2>8, CopiesStayWithOneMore
  <2> QED BY <2>8, <2>9
<1> QED BY <1>2, <1>3

LEMMA GetElementIntoIsCareful ==
  ASSUME JsonInv, Copies, NEW h \in Object, NEW i \in Nat, NEW out \in Object,
         GetElementInto(h, i, out)
  PROVE  Careful /\ Copies'
<1>1. Valid(h) /\ DocumentsInv
  BY DEF GetElementInto, JsonInv
<1>2. CASE Unchanged("refused")
  BY <1>2, RefusingIsCareful
<1>3. CASE /\ HasElement(h, i)
           /\ AssignTo(out, Shape(SubTree(DocOf(h), Append(PathOf(h), i))))
  <2>1. /\ IsShape(Shape(SubTree(DocOf(h), Append(PathOf(h), i))))
        /\ Nothing \in DOMAIN Shape(SubTree(DocOf(h), Append(PathOf(h), i)))
    BY <1>1, <1>3, ElementIsThere, CutIsShape
  <2> QED BY <1>3, <2>1, AssignToIsCareful
<1> QED BY <1>2, <1>3 DEF GetElementInto

LEMMA SetMemberIsCareful ==
  ASSUME JsonInv, Copies, NEW h \in Object, NEW k \in Key, NEW shape, IsShape(shape),
         Nothing \in DOMAIN shape, SetMember(h, k, shape)
  PROVE  Careful /\ Copies'
<1>1. CASE Unchanged("refused")
  BY <1>1, RefusingIsCareful
<1>2. CASE /\ PutMember(h, k, shape)
           /\ Answer(EffectAt(h, MemberPath(h, k)), h, MemberPath(h, k), "ok")
           /\ UNCHANGED <<role, target, children, deletedTwice, moved>>
  <2>1. Writable(h) /\ JsonTypeOK /\ DocumentsInv /\ SameObjects /\ moved' = moved
    BY <1>2 DEF SetMember, SameObjects, JsonInv
  <2>2. ObjectsStay
    BY <2>1, ObjectsStayIf
  <2>3. Careful
    BY <1>2, <2>1, <2>2, PuttingAMemberIsCareful
  <2> QED BY <2>1, <2>3, CopiesStayAsTheyAre
<1> QED BY <1>1, <1>2 DEF SetMember

\* The object that is handed out after a change refers to the document that changed.
LEMMA HandingOutNewIsCareful ==
  ASSUME JsonInv, DocumentsInv', Copies, Careful, NEW h \in Object, Writable(h), NEW path,
         path \in DOMAIN content'[Holder(h)], NEW effect, HandOutNew(h, path, effect)
  PROVE  Copies'
<1>1. Holder(h) \in Object /\ ~AsTaken(Holder(h)) /\ Live(h)
  BY WrittenIsNotAsTaken DEF JsonInv, Writable, Valid
<1> DEFINE node == content'[Holder(h)][path].node
<1>2. CASE /\ CanCreate /\ HandOut(h, "child", node) /\ UNCHANGED <<deletedTwice, moved>>
  <2>1. node \in NodesOf(content'[Holder(h)])
    BY NodesAre
  <2> HIDE DEF node
  <2>2. Refers(h, "child", node)
    BY <1>1, <2>1 DEF Refers
  <2> QED BY <1>1, <1>2, <2>2, CopiesStayWithOneMore
<1>3. CASE UNCHANGED <<role, target, children, deletedTwice, moved>>
  BY <1>3, CopiesStayAsTheyAre DEF SameObjects
<1> QED BY <1>2, <1>3 DEF HandOutNew

\* How such a call ends.
LEMMA HandingOutNewAnswers ==
  ASSUME NEW h, NEW path, NEW effect, HandOutNew(h, path, effect)
  PROVE  \E result : Answer(effect, h, path, result) /\ result \notin {"refused", "threw"}
<1>1. Answer(effect, h, path, "ok") \/ Answer(effect, h, path, "no memory")
  BY DEF HandOutNew
<1>2. "ok" \notin {"refused", "threw"} /\ "no memory" \notin {"refused", "threw"}
  OBVIOUS
<1> QED BY <1>1, <1>2

LEMMA SetChildIsCareful ==
  ASSUME JsonInv, DocumentsInv', Copies, NEW h \in Object, NEW k \in Key, NEW kind \in Kinds,
         SetChild(h, k, kind)
  PROVE  Careful /\ Copies'
<1>1. CASE Unchanged("refused")
  BY <1>1, RefusingIsCareful
<1>2. CASE /\ PutMember(h, k, Leaf(kind))
           /\ HandOutNew(h, MemberPath(h, k), EffectAt(h, MemberPath(h, k)))
  <2>1. Writable(h) /\ Valid(h) /\ Live(h) /\ JsonTypeOK /\ DocumentsInv
    BY DEF SetChild, Writable, Valid, JsonInv
  <2>2. IsShape(Leaf(kind)) /\ Nothing \in DOMAIN Leaf(kind)
    BY LeafIsShape
  <2>3. moved' = moved
    BY <1>2 DEF HandOutNew
  <2>4. /\ MemberPath(h, k) \in DOMAIN content'[Holder(h)]
        /\ content'[Holder(h)][MemberPath(h, k)].node \in 1 .. nodes'
    BY <1>2, <2>1, <2>2, <2>3, PutMemberStays
  <2>5. ObjectsStay
    BY <1>2, <2>1, <2>4, HandOutNewStays, ObjectsStayIf
  <2>6. PICK result : /\ Answer(EffectAt(h, MemberPath(h, k)), h, MemberPath(h, k), result)
                      /\ result \notin {"refused", "threw"}
    BY <1>2, HandingOutNewAnswers
  <2>7. Careful
    BY <1>2, <2>1, <2>2, <2>5, <2>6, PuttingAMemberIsCareful
  <2> QED BY <1>2, <2>1, <2>4, <2>7, HandingOutNewIsCareful
<1> QED BY <1>1, <1>2 DEF SetChild

LEMMA SetJsonIsCareful ==
  ASSUME JsonInv, Copies, NEW h \in Object, NEW k \in Key, NEW src \in Object,
         SetJson(h, k, src)
  PROVE  Careful /\ Copies'
<1>1. Valid(src) /\ Valid(h) /\ SetMember(h, k, ShapeAfterLookUp(h, k, src)) /\ DocumentsInv
  BY DEF SetJson, Writable, JsonInv
<1>2. CASE CanLookUp(h)
  BY <1>1, <1>2, ShapeAfterLookUpIs, SetMemberIsCareful
<1>3. CASE ~CanLookUp(h)
  <2>1. Unchanged("refused")
    BY <1>1, <1>3 DEF SetMember, PutMember
  <2> QED BY <2>1, RefusingIsCareful
<1> QED BY <1>2, <1>3

\* The place of the next element is free.
LEMMA NextElementIsFree ==
  ASSUME DocumentsInv, NEW h, Valid(h), KindOf(h) = "array"
  PROVE  NextElement(h) \notin DOMAIN content[Holder(h)]
<1>1. /\ Holder(h) \in Object /\ IsTree(content[Holder(h)]) /\ DocOf(h) = content[Holder(h)]
      /\ PathOf(h) \in DOMAIN content[Holder(h)] /\ PathOf(h) \in Path
      /\ content[Holder(h)][PathOf(h)].kind = "array"
  BY Referred
<1> DEFINE s == Shape(content[Holder(h)])
           path == PathOf(h)
           C == {p \in DOMAIN s : Len(p) = Len(path) + 1 /\ IsPrefix(path, p)}
           n == Cardinality(C)
<1>2. /\ IsShape(s) /\ DOMAIN s = DOMAIN content[Holder(h)] /\ s[path] = "array"
      /\ path \in DOMAIN s /\ path \in Path
  BY <1>1, TreeParts, ShapeOf
<1>3. NextElement(h) = Append(path, n)
  BY <1>1, <1>2 DEF NextElement, Size
<1> HIDE DEF s, path
<1>4. IsFiniteSet(C) /\ n \in Nat
  <2>1. IsFiniteSet(DOMAIN s) /\ C \subseteq DOMAIN s
    BY <1>2, ShapeParts
  <2> HIDE DEF C
  <2> QED BY <2>1, FS_Subset, FS_CardinalityType
<1> SUFFICES ASSUME Append(path, n) \in DOMAIN s
             PROVE  FALSE
  BY <1>2, <1>3
<1> DEFINE T == 0 .. n
           f == [k \in T |-> Append(path, k)]
<1>5. \A k \in T : f[k] \in C
  <2>1. ASSUME NEW k \in T
        PROVE  Append(path, k) \in C
    <3>1. n \notin Key /\ n \in Key \cup Nat /\ k \in Key \cup Nat /\ k \in Nat
      BY <1>4, JsonAssumption
    <3>2. /\ Front(Append(path, n)) = path /\ Last(Append(path, n)) = n
          /\ Append(path, n) # Nothing
      BY <1>2, <3>1, Appended
    <3>3. \A j \in 0 .. n - 1 : Append(path, j) \in DOMAIN s
      BY <1>2, <3>1, <3>2, ShapeParts
    <3>4. Append(path, k) \in DOMAIN s
      BY <1>4, <3>3
    <3>5. /\ Append(path, k) \in Path /\ Append(path, k) # Nothing
          /\ Front(Append(path, k)) = path /\ Len(Append(path, k)) = Len(path) + 1
      BY <1>2, <3>1, Appended
    <3>6. IsPrefix(path, path)
      BY <1>2, PrefixIs, PathTypes
    <3>7. IsPrefix(path, Append(path, k))
      <4> DEFINE e == Append(path, k)
      <4>1. e \in Path /\ e # Nothing /\ Front(e) = path
        BY <3>5
      <4> HIDE DEF e
      <4>2. IsPrefix(path, e)
        BY <1>2, <3>6, <4>1, PrefixOfFront
      <4> QED BY <4>2 DEF e
    <3> QED BY <3>4, <3>5, <3>7
  <2> QED BY <2>1
<1>6. f \in Injection(T, C)
  <2>1. ASSUME NEW j \in T, NEW k \in T, f[j] = f[k]
        PROVE  j = k
    <3>1. j \in Key \cup Nat /\ k \in Key \cup Nat
      BY <1>4
    <3>2. Last(Append(path, j)) = j /\ Last(Append(path, k)) = k
      BY <1>2, <3>1, Appended
    <3> QED BY <2>1, <3>2
  <2>2. f \in [T -> C]
    BY <1>5
  <2> HIDE DEF f, T, C
  <2> QED BY <2>1, <2>2 DEF Injection, IsInjective
<1>7. IsFiniteSet(T) /\ Cardinality(T) = n + 1
  BY <1>4, FS_Interval
<1> HIDE DEF f, T
<1>8. Cardinality(T) <= n
  <2> HIDE DEF C
  <2> QED BY <1>4, <1>6, FS_Injection
<1> QED BY <1>4, <1>7, <1>8

LEMMA AppendShapeIsCareful ==
  ASSUME JsonInv, Copies, NEW h \in Object, NEW shape, IsShape(shape),
         Nothing \in DOMAIN shape, AppendShape(h, shape)
  PROVE  Careful /\ Copies'
<1>1. CASE Unchanged("refused")
  BY <1>1, RefusingIsCareful
<1>2. CASE /\ KindOf(h) = "array"
           /\ Assign(Holder(h), NextElement(h), shape)
           /\ Answer("add", h, NextElement(h), "ok")
           /\ UNCHANGED <<role, target, children, deletedTwice, moved>>
  <2>1. /\ Writable(h) /\ Valid(h) /\ JsonTypeOK /\ DocumentsInv /\ SameObjects
        /\ moved' = moved
    BY <1>2 DEF AppendShape, Writable, SameObjects, JsonInv
  <2>2. NextElement(h) \in Path /\ NextElement(h) \notin DOMAIN content[Holder(h)]
    BY <1>2, <2>1, NextElementFits, NextElementIsFree
  <2>3. ObjectsStay
    BY <2>1, ObjectsStayIf
  <2>4. Careful
    BY <1>2, <2>1, <2>2, <2>3, AssigningIsCareful
  <2> QED BY <2>1, <2>4, CopiesStayAsTheyAre
<1> QED BY <1>1, <1>2 DEF AppendShape

LEMMA AppendChildIsCareful ==
  ASSUME JsonInv, DocumentsInv', Copies, NEW h \in Object, NEW kind \in Kinds,
         AppendChild(h, kind)
  PROVE  Careful /\ Copies'
<1>1. CASE Unchanged("refused")
  BY <1>1, RefusingIsCareful
<1>2. CASE /\ KindOf(h) = "array"
           /\ Assign(Holder(h), NextElement(h), Leaf(kind))
           /\ HandOutNew(h, NextElement(h), "add")
  <2>1. Writable(h) /\ Valid(h) /\ Live(h) /\ JsonTypeOK /\ DocumentsInv
    BY DEF AppendChild, Writable, Valid, JsonInv
  <2>2. IsShape(Leaf(kind)) /\ Nothing \in DOMAIN Leaf(kind)
    BY LeafIsShape
  <2>3. moved' = moved
    BY <1>2 DEF HandOutNew
  <2>4. /\ NextElement(h) \in Path /\ NextElement(h) \notin DOMAIN content[Holder(h)]
        /\ Holder(h) \in Object /\ Attached(Shape(content[Holder(h)]), NextElement(h))
    BY <1>2, <2>1, NextElementFits, NextElementIsFree
  <2>5. /\ NextElement(h) \in DOMAIN content'[Holder(h)]
        /\ content'[Holder(h)][NextElement(h)].node \in 1 .. nodes'
    BY <1>2, <2>1, <2>2, <2>3, <2>4, AssignStays
  <2>6. ObjectsStay
    BY <1>2, <2>1, <2>5, HandOutNewStays, ObjectsStayIf
  <2>7. PICK result : /\ Answer("add", h, NextElement(h), result)
                      /\ result \notin {"refused", "threw"}
    BY <1>2, HandingOutNewAnswers
  <2>8. Careful
    BY <1>2, <2>1, <2>2, <2>4, <2>6, <2>7, AssigningIsCareful
  <2> QED BY <1>2, <2>1, <2>5, <2>8, HandingOutNewIsCareful
<1> QED BY <1>1, <1>2 DEF AppendChild

\* Delete() removes the member and all below it.
LEMMA DeleteIsCareful ==
  ASSUME JsonInv, Copies, NEW h \in Object, NEW k \in Key, Delete(h, k)
  PROVE  Careful /\ Copies'
<1>1. CASE Unchanged("threw")
  BY <1>1, RefusingIsCareful
<1>2. CASE ~Unchanged("threw")
  <2> DEFINE d == Holder(h)
             path == MemberPath(h, k)
             w == WithoutTree(content[d], path)
  <2>1. /\ Writable(h)
        /\ content' = [content EXCEPT ![d] = w]
        /\ Answer("delete", h, path, "ok")
        /\ SameObjects /\ moved' = moved
    BY <1>2 DEF Delete, SameObjects
  <2>2. JsonTypeOK /\ DocumentsInv
    BY DEF JsonInv
  <2>3. d \in Object /\ ~AsTaken(d) /\ role[d] \in {"owner", "copy"}
    BY <2>1, <2>2, WrittenIsNotAsTaken
  <2>4. /\ asked'.effect = "delete" /\ asked'.doc = d /\ asked'.path = path
        /\ asked'.result = "ok"
    BY <2>1 DEF Answer
  <2> HIDE DEF d, path
  <2>5. /\ DOMAIN w = {p \in DOMAIN content[d] : ~IsPrefix(path, p)}
        /\ \A p \in DOMAIN w : w[p] = content[d][p]
    BY DEF WithoutTree
  <2> HIDE DEF w
  <2>6. ASSUME NEW p \in DOMAIN content[d]
        PROVE  content[d][p].node \in NodesOf(w) \/ Removed(d, p)
    <3>1. CASE ~IsPrefix(path, p)
      <4>1. p \in DOMAIN w /\ w[p] = content[d][p]
        BY <2>5, <2>6, <3>1
      <4> QED BY <4>1, NodesAre
    <3>2. CASE IsPrefix(path, p)
      BY <2>4, <3>2 DEF Removed
    <3> QED BY <3>1, <3>2
  <2>7. ObjectsStay
    BY <2>1, <2>2, ObjectsStayIf
  <2>8. content' = [content EXCEPT ![d] = w] /\ asked'.result \notin {"refused", "threw"}
    BY <2>1, <2>4
  <2>9. Careful
    BY <2>2, <2>3, <2>6, <2>7, <2>8, ChangingIsCareful
  <2> QED BY <2>1, <2>9, CopiesStayAsTheyAre
<1> QED BY <1>1, <1>2

\* What is below one place is afterwards below the other, and what was below that one
\* goes or is exchanged for it.
LEMMA GetArrayAcrossIsCareful ==
  ASSUME JsonTypeOK, DocumentsInv, Copies, NEW h \in Object, NEW k \in Key, NEW out \in Object,
         Valid(h), HasMember(h, k, "array"), Writable(out), GetArrayAcross(h, k, out),
         moved' = moved \cup {Holder(h)}, SameObjects
  PROVE  Careful
<1> DEFINE d == Holder(h)
           e == Holder(out)
           m == MemberPath(h, k)
           p == PathOf(out)
           cut == SubTree(DocOf(h), m)
<1>1. /\ HasMember(h, k, "array") /\ Valid(out) /\ Writable(out) /\ e # d
      /\ \E left \in {TreeOf(out), Fresh(Leaf("null"), nodes)} :
           content' = [content EXCEPT ![d] = WithTree(content[d], m, left),
                                      ![e] = WithTree(content[e], p, cut)]
      /\ moved' = moved \cup {d}
      /\ asked' = [effect |-> "move", doc |-> e, path |-> p, result |-> "ok"]
      /\ SameObjects
  BY DEF GetArrayAcross, Writable
<1>2. /\ d \in Object /\ DocOf(h) = content[d] /\ IsTree(content[d])
      /\ e \in Object /\ DocOf(out) = content[e] /\ IsTree(content[e])
      /\ m \in DOMAIN content[d] /\ p \in DOMAIN content[e]
      /\ m \in Path /\ p \in Path
  <2>1. /\ d \in Object /\ DocOf(h) = content[d] /\ IsTree(content[d])
        /\ e \in Object /\ DocOf(out) = content[e] /\ IsTree(content[e])
        /\ m \in DOMAIN content[d] /\ p \in DOMAIN content[e]
    BY <1>1, Referred, MemberIsThere
  <2> HIDE DEF d, e, m, p
  <2> QED BY <2>1, TreeParts
<1>3. ~AsTaken(e) /\ role[e] \in {"owner", "copy"}
  BY <1>1, WrittenIsNotAsTaken
<1>4. role[d] \in {"owner", "copy"}
  <2>1. NodesOf(content[d]) # {}
    BY <1>2, NodesAre
  <2> QED BY <1>2, <2>1 DEF Copies
<1>5. TreeOf(out) = SubTree(content[e], p) /\ cut = SubTree(content[d], m)
  BY <1>2 DEF TreeOf
<1>6. nodes \in Nat /\ DOMAIN content = Object
  BY <1>1 DEF DocumentsInv
<1> HIDE DEF d, e, m, p, cut
<1>7. PICK left \in {TreeOf(out), Fresh(Leaf("null"), nodes)} :
           content' = [content EXCEPT ![d] = WithTree(content[d], m, left),
                                      ![e] = WithTree(content[e], p, cut)]
  BY <1>1
<1>8. IsTree(left) /\ Nothing \in DOMAIN left
  <2>1. CASE left = TreeOf(out)
    BY <1>2, <1>5, <2>1, SubTreeIs
  <2>2. CASE left = Fresh(Leaf("null"), nodes)
    <3>1. IsShape(Leaf("null")) /\ DOMAIN Leaf("null") = {Nothing}
      BY LeafIsShape DEF Kinds
    <3> QED BY <1>6, <2>2, <3>1, FreshIs
  <2> QED BY <1>7, <2>1, <2>2
<1>9. IsTree(cut) /\ Nothing \in DOMAIN cut
  BY <1>2, <1>5, SubTreeIs
<1> DEFINE v == WithTree(content[d], m, left)
           w == WithTree(content[e], p, cut)
<1>10. PutIn(v, content[d], m, left) /\ PutIn(w, content[e], p, cut)
  BY <1>2, <1>8, <1>9, WithTreeIs
<1>11. /\ content'[d] = v /\ content'[e] = w
       /\ \A g \in Object : g # d /\ g # e => content'[g] = content[g]
  BY <1>1, <1>2, <1>6, <1>7
<1> HIDE DEF v, w
<1>12. /\ m \o Nothing = m /\ p \o Nothing = p
       /\ \A q \in DOMAIN content[d] : content[d][q] \in [kind : Kinds, node : Nat \ {0}]
       /\ \A q \in DOMAIN content[e] : content[e][q] \in [kind : Kinds, node : Nat \ {0}]
       /\ \A q \in DOMAIN content[d] : q \in Path
  BY <1>2, JoinSplit, TreeParts
<1>13. asked'.effect = "move" /\ asked'.doc = e /\ asked'.path = p /\ asked'.result = "ok"
  BY <1>1
<1>14. ASSUME NEW r \in DOMAIN content[d]
       PROVE  content[d][r].node \in NodesOf(v) \/ content[d][r].node \in NodesOf(w)
  <2>1. CASE IsPrefix(m, r) => r = m
    BY <1>8, <1>10, <1>12, <1>14, <2>1, PutInKeeps
  <2>2. CASE IsPrefix(m, r) /\ r # m
    <3> DEFINE q == Below(r, m)
    <3>1. q \in Path /\ m \o q = r
      BY <1>2, <1>12, <1>14, <2>2, JoinSplit
    <3>2. q # Nothing
      BY <1>12, <2>2, <3>1
    <3>3. q \in DOMAIN cut
      <4>1. DOMAIN cut = {Below(x, m) : x \in {x \in DOMAIN content[d] : IsPrefix(m, x)}}
        BY <1>5 DEF SubTree, Below
      <4> QED BY <1>14, <2>2, <4>1
    <3> HIDE DEF q
    <3>4. cut[q] = content[d][m \o q]
      BY <1>2, <1>5, <3>3, SubTreeIs
    <3>5. p \o q \in DOMAIN w /\ w[p \o q] = cut[q]
      BY <1>10, <3>2, <3>3 DEF PutIn
    <3>6. w[p \o q].node \in NodesOf(w)
      BY <3>5, NodesAre
    <3> QED BY <3>1, <3>4, <3>5, <3>6
  <2> QED BY <2>1, <2>2
<1>15. ASSUME NEW r \in DOMAIN content[e]
       PROVE  content[e][r].node \in NodesOf(w) \/ Removed(e, r)
  <2>1. CASE IsPrefix(p, r) => r = p
    BY <1>9, <1>10, <1>12, <1>15, <2>1, PutInKeeps
  <2>2. CASE IsPrefix(p, r) /\ r # p
    BY <1>13, <2>2 DEF Removed
  <2> QED BY <2>1, <2>2
<1>16. ASSUME NEW g \in Object, NEW r \in DOMAIN content[g]
       PROVE  (\E f \in Object : content[g][r].node \in NodesOf(content'[f])) \/ Removed(g, r)
  <2>1. CASE g = d
    BY <1>2, <1>11, <1>14, <1>16, <2>1
  <2>2. CASE g = e
    BY <1>2, <1>11, <1>15, <1>16, <2>2
  <2>3. CASE g # d /\ g # e
    BY <1>11, <1>16, <2>3, NodesAre
  <2> QED BY <2>1, <2>2, <2>3
<1>17. role' = role /\ target' = target
  BY <1>1 DEF SameObjects
<1>18. \A g \in Object : NodesOf(content'[g]) # {} => role'[g] \in {"owner", "copy"}
  BY <1>3, <1>4, <1>11, <1>17 DEF Copies
<1>19. \A c \in Object : AsTaken(c) /\ c \notin moved' => content'[c] = content[c]
  BY <1>1, <1>3, <1>11
<1> QED BY <1>13, <1>16, <1>17, <1>18, <1>19 DEF Careful

\* Within a document nothing goes but from below the place or, when that is in the
\* array, the array's.
LEMMA GetArrayWithinIsCareful ==
  ASSUME JsonTypeOK, DocumentsInv, Copies, NEW h \in Object, NEW k \in Key, NEW out \in Object,
         Valid(h), HasMember(h, k, "array"), Writable(out), GetArrayWithin(h, k, out),
         moved' = moved \cup {Holder(h)}, SameObjects
  PROVE  Careful
<1> DEFINE d == Holder(h)
           from == IF IsStrictPrefix(MemberPath(h, k), PathOf(out)) THEN MemberPath(h, k)
                   ELSE PathOf(out)
<1>1. PICK swaps \in BOOLEAN :
        content' = [content EXCEPT ![d] = MovedWithin(h, k, out, swaps)]
  BY Zenon DEF GetArrayWithin
<1> DEFINE w == MovedWithin(h, k, out, swaps)
<1>2. Holder(out) = d
  BY DEF GetArrayWithin
<1>3. \A r \in DOMAIN content[d] :
        content[d][r].node \in NodesOf(w) \/ (IsPrefix(from, r) /\ r # from)
  BY <1>2, MovedWithinDoes
<1>4. content' = [content EXCEPT ![d] = w]
  BY <1>1
<1>5. d \in Object /\ ~AsTaken(d) /\ role[d] \in {"owner", "copy"}
  BY <1>2, WrittenIsNotAsTaken
<1>6. asked' = [effect |-> "move", doc |-> d, path |-> from, result |-> "ok"]
  BY Zenon DEF GetArrayWithin
<1> HIDE DEF d, from, w
<1>7. /\ asked'.effect = "move" /\ asked'.doc = d /\ asked'.path = from
      /\ asked'.result \notin {"refused", "threw"}
  BY <1>6
<1>8. \A r \in DOMAIN content[d] : content[d][r].node \in NodesOf(w) \/ Removed(d, r)
  BY <1>3, <1>7 DEF Removed
<1>9. ObjectsStay
  BY ObjectsStayIf
<1> QED BY <1>4, <1>5, <1>7, <1>8, <1>9, ChangingIsCareful

LEMMA GetArrayIntoIsCareful ==
  ASSUME JsonInv, Copies, NEW h \in Object, NEW k \in Key, NEW out \in Object,
         GetArrayInto(h, k, out)
  PROVE  Careful /\ Copies'
<1>1. Valid(h) /\ JsonTypeOK /\ DocumentsInv
  BY DEF GetArrayInto, JsonInv
<1>2. CASE LookUpFails(h, k, "array")
  BY <1>2, RefusingIsCareful DEF LookUpFails
<1>3. CASE ~LookUpFails(h, k, "array")
  <2>1. /\ HasMember(h, k, "array") /\ Writable(out)
        /\ GetArrayAcross(h, k, out) \/ GetArrayWithin(h, k, out)
        /\ moved' = moved \cup {Holder(h)} /\ SameObjects
    BY <1>3 DEF GetArrayInto, SameObjects
  <2>2. Careful
    BY <1>1, <2>1, GetArrayAcrossIsCareful, GetArrayWithinIsCareful
  <2>3. moved \subseteq moved'
    BY <2>1
  <2> QED BY <2>1, <2>2, <2>3, CopiesStayAsTheyAre
<1> QED BY <1>2, <1>3

\* Every call is careful.
LEMMA StepIsCareful ==
  ASSUME JsonInv, Copies, [JsonNext]_jsonVars
  PROVE  Careful /\ Copies'
<1>1. JsonInv' /\ DocumentsInv' /\ JsonTypeOK
  BY JsonInvStep DEF JsonInv
<1>2. CASE UNCHANGED jsonVars
  <2>1. /\ role' = role /\ content' = content /\ target' = target /\ children' = children
        /\ deletedTwice' = deletedTwice /\ moved' = moved /\ asked' = asked
    BY <1>2 DEF jsonVars
  <2>2. SameObjects
    BY <2>1 DEF SameObjects
  <2>3. Careful
    BY <1>1, <2>1, <2>2, ObjectsStayIf, ReadingIsCareful
  <2> QED BY <2>1, <2>2, <2>3, CopiesStayAsTheyAre
<1>3. ASSUME NEW kind, Create(kind)
      PROVE  Careful /\ Copies'
  BY <1>3, CreateIsCareful
<1>4. ASSUME NEW h \in Object, Clear(h) \/ Destroy(h)
      PROVE  Careful /\ Copies'
  BY <1>4, ClearIsCareful, DestroyIsCareful
<1>5. ASSUME NEW h \in Object, AppendValue(h)
      PROVE  Careful /\ Copies'
  <2>1. IsShape(Leaf("scalar")) /\ Nothing \in DOMAIN Leaf("scalar")
    BY LeafIsShape DEF Kinds
  <2> QED BY <1>5, <2>1, AppendShapeIsCareful DEF AppendValue
<1>6. ASSUME NEW h \in Object, AppendObject(h) \/ AppendArray(h)
      PROVE  Careful /\ Copies'
  BY <1>1, <1>6, AppendChildIsCareful DEF AppendObject, AppendArray, Kinds
<1>7. ASSUME NEW h \in Object, NEW text \in Texts, Parse(h, text)
      PROVE  Careful /\ Copies'
  <2>1. CASE Unchanged("refused")
    BY <2>1, RefusingIsCareful
  <2>2. CASE AssignTo(h, text)
    <3>1. IsShape(text) /\ Nothing \in DOMAIN text
      BY TextsAreWellFormed
    <3> QED BY <2>2, <3>1, AssignToIsCareful
  <2> QED BY <1>7, <2>1, <2>2 DEF Parse
<1>8. ASSUME NEW h \in Object, NEW k \in Key, GetObject(h, k) \/ GetArray(h, k)
      PROVE  Careful /\ Copies'
  BY <1>1, <1>8, CopyMemberIsCareful DEF GetObject, GetArray
<1>9. ASSUME NEW h \in Object, NEW k \in Key, SetValue(h, k)
      PROVE  Careful /\ Copies'
  <2>1. IsShape(Leaf("scalar")) /\ Nothing \in DOMAIN Leaf("scalar")
    BY LeafIsShape DEF Kinds
  <2> QED BY <1>9, <2>1, SetMemberIsCareful DEF SetValue
<1>10. ASSUME NEW h \in Object, NEW k \in Key, SetObject(h, k) \/ SetArray(h, k)
       PROVE  Careful /\ Copies'
  BY <1>1, <1>10, SetChildIsCareful DEF SetObject, SetArray, Kinds
<1>11. ASSUME NEW h \in Object, NEW k \in Key, Delete(h, k)
       PROVE  Careful /\ Copies'
  BY <1>11, DeleteIsCareful
<1>12. ASSUME NEW h \in Object, NEW k \in Key, NEW g \in Object,
              GetObjectInto(h, k, g) \/ GetArrayInto(h, k, g) \/ SetJson(h, k, g)
       PROVE  Careful /\ Copies'
  BY <1>12, GetObjectIntoIsCareful, GetArrayIntoIsCareful, SetJsonIsCareful
<1>13. ASSUME NEW h \in Object, NEW i \in 0 .. 1, GetElement(h, i)
       PROVE  Careful /\ Copies'
  BY <1>1, <1>13, GetElementIsCareful
<1>14. ASSUME NEW h \in Object, NEW i \in 0 .. 1, NEW g \in Object, GetElementInto(h, i, g)
       PROVE  Careful /\ Copies'
  BY <1>14, GetElementIntoIsCareful
<1>15. ASSUME NEW h \in Object, NEW g \in Object, NEW kind \in {"object", "array"},
              AppendJson(h, g, kind)
       PROVE  Careful /\ Copies'
  <2>1. CASE Unchanged("refused")
    BY <2>1, RefusingIsCareful
  <2>2. CASE AppendShape(h, Shape(TreeOf(g)))
    <3>1. Valid(g) /\ DocumentsInv
      BY <1>15 DEF AppendJson, JsonInv
    <3>2. IsTree(DocOf(g)) /\ PathOf(g) \in DOMAIN DocOf(g)
      BY <3>1, Referred
    <3>3. IsShape(Shape(TreeOf(g))) /\ Nothing \in DOMAIN Shape(TreeOf(g))
      BY <3>2, CutIsShape DEF TreeOf
    <3> QED BY <2>2, <3>3, AppendShapeIsCareful
  <2> QED BY <1>15, <2>1, <2>2 DEF AppendJson
<1> QED BY <1>2, <1>3, <1>4, <1>5, <1>6, <1>7, <1>8, <1>9, <1>10, <1>11, <1>12, <1>13, <1>14,
           <1>15 DEF JsonNext

\* A document that an array was moved out of stays one.
LEMMA MovedGrows ==
  ASSUME [JsonNext]_jsonVars
  PROVE  moved \subseteq moved'
<1> DEFINE Same == moved' = moved
<1>1. CASE UNCHANGED jsonVars
  BY <1>1 DEF jsonVars
<1>2. \A result : Unchanged(result) => Same
  BY DEF Unchanged
<1>3. \A out, shape : AssignTo(out, shape) => Same
  BY DEF AssignTo
<1>4. \A h, path, effect : HandOutNew(h, path, effect) => Same
  BY DEF HandOutNew
<1>5. ASSUME NEW kind, Create(kind)
      PROVE  Same
  BY <1>5 DEF Create
<1>6. ASSUME NEW h, Clear(h) \/ Destroy(h)
      PROVE  Same
  BY <1>6 DEF Clear, Destroy
<1>7. \A h, shape : AppendShape(h, shape) => Same
  BY <1>2 DEF AppendShape
<1>8. \A h, kind : AppendChild(h, kind) => Same
  BY <1>2, <1>4 DEF AppendChild
<1>9. \A h, text : Parse(h, text) => Same
  BY <1>2, <1>3 DEF Parse
<1>10. \A h, k, kind : CopyMember(h, k, kind) => Same
  BY <1>2 DEF CopyMember, LookUpFails
<1>11. \A h, k, shape : SetMember(h, k, shape) => Same
  BY <1>2 DEF SetMember
<1>12. \A h, k, kind : SetChild(h, k, kind) => Same
  BY <1>2, <1>4 DEF SetChild
<1>13. \A h, k : Delete(h, k) => Same
  BY <1>2 DEF Delete
<1>14. \A h, k, out : GetObjectInto(h, k, out) => Same
  BY <1>2, <1>3 DEF GetObjectInto, LookUpFails
<1>15. \A h, k, out : GetArrayInto(h, k, out) => moved \subseteq moved'
  BY <1>2 DEF GetArrayInto, LookUpFails
<1>16. \A h, i : GetElement(h, i) => Same
  BY <1>2 DEF GetElement
<1>17. \A h, i, out : GetElementInto(h, i, out) => Same
  BY <1>2, <1>3 DEF GetElementInto
<1>18. \A h, g, kind : AppendJson(h, g, kind) => Same
  BY <1>2, <1>7 DEF AppendJson
<1>19. Same => moved \subseteq moved'
  OBVIOUS
<1> HIDE DEF Same
<1> QED BY <1>1, <1>5, <1>6, <1>7, <1>8, <1>9, <1>10, <1>11, <1>12, <1>13, <1>14, <1>15, <1>16,
           <1>17, <1>18, <1>19
        DEF JsonNext, AppendValue, AppendObject, AppendArray, GetObject, GetArray, SetValue,
            SetObject, SetArray, SetJson

\* A node is in one place, which is where an object refers to.
OnePlace ==
  \A g, h \in Object : \A p \in DOMAIN content[g] :
    content[g][p].node = target[h] => Holder(h) = g /\ PathOf(h) = p

\* An object refers to one place, which CHOOSE therefore finds.
LEMMA OnePlaceIs == JsonInv => OnePlace
<1> SUFFICES ASSUME JsonInv, NEW g \in Object, NEW h \in Object, NEW p \in DOMAIN content[g],
                    content[g][p].node = target[h]
             PROVE  Holder(h) = g /\ PathOf(h) = p
  BY DEF OnePlace
<1>1. DocumentsAreTrees
  BY InvGivesTrees
<1>2. Holds(g, h)
  BY DEF Holds
<1>3. Holder(h) \in Object /\ Holds(Holder(h), h)
  BY <1>2 DEF Holder
<1>4. PICK q \in DOMAIN content[Holder(h)] : content[Holder(h)][q].node = target[h]
  BY <1>3 DEF Holds
<1>5. Holder(h) = g
  BY <1>1, <1>3, <1>4 DEF DocumentsAreTrees
<1>6. PathOf(h) \in DOMAIN content[g] /\ content[g][PathOf(h)].node = target[h]
  BY <1>5 DEF PathOf, DocOf
<1> QED BY <1>1, <1>5, <1>6 DEF DocumentsAreTrees

\* What a careful call may make an object lose.
LEMMA LosesForAReason ==
  ASSUME JsonInv, Careful, NEW h \in Object, Valid(h), Live(h)', ~Valid(h)'
  PROVE  \/ Removed(Holder(h), PathOf(h))
         \/ role[Holder(h)] = "copy" /\ role'[Holder(h)] = "deleted" /\ Holder(h) \in moved
<1>1. Live(h) /\ \E g \in Object : Holds(g, h)
  BY DEF Valid
<1>2. PICK g \in Object : Holds(g, h)
  BY <1>1
<1>3. PICK p \in DOMAIN content[g] : content[g][p].node = target[h]
  BY <1>2 DEF Holds
<1>4. Holder(h) = g /\ PathOf(h) = p
  BY <1>3, OnePlaceIs DEF OnePlace
<1>5. target'[h] = target[h]
  BY <1>1 DEF Careful
<1>6. ASSUME NEW f \in Object, content[g][p].node \in NodesOf(content'[f])
      PROVE  FALSE
  <2>1. Holds(f, h)'
    BY <1>3, <1>5, <1>6 DEF Holds, NodesOf
  <2> QED BY <2>1 DEF Valid
<1>7. \/ \E f \in Object : content[g][p].node \in NodesOf(content'[f])
      \/ Removed(g, p)
      \/ role[g] = "copy" /\ g \in moved /\ role'[g] = "deleted"
      \/ \A x \in Object : Live(x) /\ Live(x)' => ~Holds(g, x)
  BY DEF Careful
<1> QED BY <1>1, <1>2, <1>4, <1>6, <1>7

\* A copy that is still as it was taken is what it was.
LEMMA CopyStaysAsTaken ==
  ASSUME JsonInv, JsonInv', Copies, Copies', Careful, moved \subseteq moved',
         NEW h \in Object, role[h] = "copy", role'[h] = "copy", h \notin moved'
  PROVE  Valid(h)' /\ TreeOf(h)' = TreeOf(h)
<1>1. AsTaken(h) /\ AsTaken(h)'
  BY DEF AsTaken
<1>2. content'[h] = content[h]
  BY <1>1 DEF Careful
<1>3. Nothing \in DOMAIN content[h] /\ content[h][Nothing].node = target[h]
  BY <1>1 DEF Copies
<1>4. Nothing \in DOMAIN content'[h] /\ content'[h][Nothing].node = target'[h]
  BY <1>1 DEF Copies
<1>5. OnePlace /\ OnePlace'
  <2>1. (JsonInv => OnePlace) /\ (JsonInv' => OnePlace')
    BY OnePlaceIs, PTL
  <2> QED BY <2>1
<1>6. Holder(h) = h /\ PathOf(h) = Nothing
  BY <1>3, <1>5 DEF OnePlace
<1>7. Holder(h)' = h /\ PathOf(h)' = Nothing
  BY <1>4, <1>5 DEF OnePlace
<1>8. Valid(h)'
  BY <1>4 DEF Valid, Live, Holds
<1>9. TreeOf(h) = SubTree(content[h], Nothing)
  BY <1>6 DEF TreeOf, DocOf
<1>10. TreeOf(h)' = SubTree(content'[h], Nothing)
  BY <1>7 DEF TreeOf, DocOf
<1> QED BY <1>2, <1>8, <1>9, <1>10

\* Copies are the part of the invariant that the calls rely on.
LEMMA InitCopies == JsonInit => Copies
<1> SUFFICES ASSUME JsonInit
             PROVE  Copies
  OBVIOUS
<1>1. role = [h \in Object |-> "none"] /\ content = [h \in Object |-> Nothing]
  BY DEF JsonInit
<1> QED BY <1>1, NoDocument DEF Copies, AsTaken

\* A call invalidates no object but those that refer below what it rewrites, moves or
\* removes, changes no document when it fails, and leaves every copy as it was taken,
\* unless an array is moved out of that copy.
THEOREM CallsAreContainedAlways == JsonSpec => CallsAreContained
<1> DEFINE Inv == JsonInv /\ Copies
           Loses == \A h \in Object :
             Valid(h) /\ Live(h)' /\ ~Valid(h)' =>
               \/ /\ asked'.effect \in {"write", "move", "delete"}
                  /\ asked'.doc = Holder(h)
                  /\ IsPrefix(asked'.path, PathOf(h))
                  /\ asked'.effect # "delete" => asked'.path # PathOf(h)
               \/ /\ role[Holder(h)] = "copy" /\ role'[Holder(h)] = "deleted"
                  /\ Holder(h) \in moved
           Fails == asked'.result \in {"refused", "threw"} =>
             \A h \in Object : Live(h)' => content'[h] = content[h]
           Keeps == \A h \in Object :
             role[h] = "copy" /\ role'[h] = "copy" /\ h \notin moved' =>
               Valid(h)' /\ TreeOf(h)' = TreeOf(h)
<1>1. JsonInit => Inv
  BY InitJsonInv, InitCopies
<1>2. Inv /\ [JsonNext]_jsonVars => Inv'
  BY JsonInvStep, StepIsCareful
<1>3. ASSUME Inv, [JsonNext]_jsonVars
      PROVE  Loses /\ Fails /\ Keeps
  <2>1. JsonInv /\ Copies /\ JsonInv' /\ Copies' /\ Careful /\ moved \subseteq moved'
    BY <1>3, JsonInvStep, StepIsCareful, MovedGrows
  <2>2. Loses
    BY <2>1, LosesForAReason DEF Removed
  <2>3. Fails
    BY <2>1 DEF Careful
  <2>4. Keeps
    BY <2>1, CopyStaysAsTaken
  <2> QED BY <2>2, <2>3, <2>4
<1>4. Inv /\ [JsonNext]_jsonVars => [Loses]_jsonVars /\ [Fails]_jsonVars /\ [Keeps]_jsonVars
  BY <1>3
<1>5. OnlyRewritesInvalidate <=> [][Loses]_jsonVars
  BY DEF OnlyRewritesInvalidate
<1>6. FailedCallsChangeNothing <=> [][Fails]_jsonVars
  BY DEF FailedCallsChangeNothing
<1>7. CopiesStayAsTaken <=> [][Keeps]_jsonVars
  BY DEF CopiesStayAsTaken
<1> HIDE DEF Inv, Loses, Fails, Keeps
<1> QED BY <1>1, <1>2, <1>4, <1>5, <1>6, <1>7, PTL DEF JsonSpec, CallsAreContained
=============================================================================
