--------------------------- MODULE JsonDocuments ----------------------------
(***************************************************************************)
(* JSON documents and the IJson objects that stand for parts of them         *)
(* (CJsonImpl over jsoncpp).  An object made by Create(), or by the reading   *)
(* GetObject(key) and GetArray(key), owns a document, the latter a copy; one  *)
(* made by SetObject(), AppendObject() or GetObject(index) refers to a node   *)
(* of the document of the object it was asked of.  That object deletes those  *)
(* it has handed out when it is cleared or destroyed itself.                 *)
(*                                                                         *)
(* A document maps the path of each node to the node.  jsoncpp keeps the      *)
(* members of a node in a std::map: a node stays where it is until it is      *)
(* removed, and assigning to it replaces what is below it.                   *)
(***************************************************************************)
EXTENDS Naturals, Sequences, FiniteSets, SequencesExt

CONSTANTS
  Key,        \* the keys of objects (an array is indexed by numbers)
  MaxObjects, \* bound on the IJson objects of a behaviour
  MaxNodes,   \* bound on the nodes of a behaviour
  Texts       \* what texts to parse stand for: functions from paths to kinds

ASSUME JsonAssumption ==
  /\ MaxObjects \in Nat
  /\ MaxNodes \in Nat
  /\ Key \cap Nat = {}

Path == Seq(Key \cup Nat)
Object == 1 .. MaxObjects
Nothing == << >>  \* the path of a root, and the document of an object that owns none

VARIABLES
  role,     \* what an IJson object is: see Roles
  content,  \* m_jsonValueData: path -> [kind, node]
  target,   \* m_jsonValue: the node it refers to
  children, \* m_vecJsonValues: the objects it has handed out and deletes
  nodes,    \* nodes made so far; each has its number
  deletedTwice,
  moved,    \* documents that an array has been moved out of
  asked     \* the latest call: its effect, where, and how it ended

jsonVars == <<role, content, target, children, nodes, deletedTwice, moved,
              asked>>

Roles == {"none", "owner", "child", "copy", "view", "deleted"}
Kinds == {"null", "scalar", "object", "array"}

\* A path leads to a member of an object or to an element of an array, of which
\* there are all up to the last.
ParentKind(p) == IF Last(p) \in Key THEN "object" ELSE "array"
Attached(shape, p) ==
  /\ Front(p) \in DOMAIN shape
  /\ shape[Front(p)] = ParentKind(p)
  /\ Last(p) \notin Key => \A i \in 0 .. Last(p) - 1 : Append(Front(p), i) \in DOMAIN shape

IsShape(shape) ==
  /\ IsFiniteSet(DOMAIN shape)
  /\ \A p \in DOMAIN shape :
       p \in Path /\ shape[p] \in Kinds /\ (p # Nothing => Attached(shape, p))

ASSUME TextsAreWellFormed == \A text \in Texts : IsShape(text) /\ Nothing \in DOMAIN text

Live(h) == role[h] \notin {"none", "deleted"}

NoChange(result) == [effect |-> "read", doc |-> 1, path |-> Nothing, result |-> result]

JsonInit ==
  /\ role = [h \in Object |-> "none"]
  /\ content = [h \in Object |-> Nothing]
  /\ target = [h \in Object |-> 0]
  /\ children = [h \in Object |-> {}]
  /\ nodes = 0
  /\ deletedTwice = FALSE
  /\ moved = {}
  /\ asked = NoChange("ok")

-----------------------------------------------------------------------------
(* Documents. *)

Shape(doc) == [p \in DOMAIN doc |-> doc[p].kind]
Leaf(kind) == [p \in {Nothing} |-> kind]

SubTree(doc, path) ==
  [q \in {SubSeq(p, Len(path) + 1, Len(p)) : p \in {p \in DOMAIN doc : IsPrefix(path, p)}} |->
     doc[path \o q]]

WithoutTree(doc, path) ==
  [p \in {p \in DOMAIN doc : ~IsPrefix(path, p)} |-> doc[p]]

\* The document with tree at path, where a node that is there keeps its identity.
WithTreeAnew(doc, path, tree) ==
  [p \in DOMAIN WithoutTree(doc, path) \cup {path \o q : q \in DOMAIN tree} |->
     IF IsPrefix(path, p) THEN tree[SubSeq(p, Len(path) + 1, Len(p))] ELSE doc[p]]

WithTree(doc, path, tree) ==
  [p \in DOMAIN WithoutTree(doc, path) \cup {path \o q : q \in DOMAIN tree} |->
     IF p = path /\ path \in DOMAIN doc THEN [doc[p] EXCEPT !.kind = tree[Nothing].kind]
     ELSE IF IsPrefix(path, p) THEN tree[SubSeq(p, Len(path) + 1, Len(p))]
     ELSE doc[p]]

\* New nodes in the given shape, numbered from first + 1.
Fresh(shape, first) ==
  LET number == CHOOSE f \in [DOMAIN shape -> 1 .. Cardinality(DOMAIN shape)] :
                  IsInjective(f)
  IN [p \in DOMAIN shape |-> [kind |-> shape[p], node |-> first + number[p]]]

Size(doc, path) == Cardinality({p \in DOMAIN doc : Len(p) = Len(path) + 1 /\ IsPrefix(path, p)})

\* The document that holds the node an object refers to, and its path there; there
\* is none once the node has been removed.
Holds(g, h) == \E p \in DOMAIN content[g] : content[g][p].node = target[h]
Valid(h) == Live(h) /\ \E g \in Object : Holds(g, h)
Holder(h) == CHOOSE g \in Object : Holds(g, h)
DocOf(h) == content[Holder(h)]
PathOf(h) == CHOOSE p \in DOMAIN DocOf(h) : DocOf(h)[p].node = target[h]
KindOf(h) == DocOf(h)[PathOf(h)].kind
TreeOf(h) == SubTree(DocOf(h), PathOf(h))

Answer(effect, h, path, result) ==
  asked' = [effect |-> effect, doc |-> Holder(h), path |-> path, result |-> result]

\* Only a pointer to a constant IJson is handed out for copies and views.
Writable(h) == Valid(h) /\ role[h] \in {"owner", "child"}

Unchanged(result) ==
  /\ asked' = NoChange(result)
  /\ UNCHANGED <<role, content, target, children, nodes, deletedTwice, moved>>

-----------------------------------------------------------------------------
(* Making IJson objects. *)

NewObject == CHOOSE h \in Object : role[h] = "none"
CanCreate == \E h \in Object : role[h] = "none"

Create(kind) ==
  /\ CanCreate
  /\ nodes < MaxNodes
  /\ role' = [role EXCEPT ![NewObject] = "owner"]
  /\ content' = [content EXCEPT ![NewObject] = Fresh(Leaf(kind), nodes)]
  /\ target' = [target EXCEPT ![NewObject] = nodes + 1]
  /\ nodes' = nodes + 1
  /\ asked' = [effect |-> "add", doc |-> NewObject, path |-> Nothing, result |-> "ok"]
  /\ UNCHANGED <<children, deletedTwice, moved>>

\* New<CJsonImpl>() and push_back(), for an object that refers to a node.
HandOut(h, as, node) ==
  /\ role' = [role EXCEPT ![NewObject] = as]
  /\ target' = [target EXCEPT ![NewObject] = node]
  /\ children' = [children EXCEPT ![h] = @ \cup {NewObject}]

-----------------------------------------------------------------------------
(* Reading.  isMember() throws for a node that is neither an object nor null. *)

CanLookUp(h) == KindOf(h) \in {"object", "null"}
MemberPath(h, k) == Append(PathOf(h), k)
HasMember(h, k, kind) ==
  CanLookUp(h) /\ MemberPath(h, k) \in DOMAIN DocOf(h) /\ DocOf(h)[MemberPath(h, k)].kind = kind
HasElement(h, i) == KindOf(h) = "array" /\ i < Size(DocOf(h), PathOf(h))

LookUpFails(h, k, kind) ==
  /\ ~HasMember(h, k, kind)
  /\ Unchanged(IF CanLookUp(h) THEN "refused" ELSE "threw")

\* GetObject(key) and GetArray(key): a new object with a copy of its own.
CopyMemberByReference(h, k, kind) ==
  /\ Valid(h)
  /\ HasMember(h, k, kind)
  /\ CanCreate
  /\ HandOut(h, "copy", DocOf(h)[MemberPath(h, k)].node)
  /\ asked' = NoChange("ok")
  /\ UNCHANGED <<content, nodes, deletedTwice, moved>>

CopyMember(h, k, kind) ==
  /\ Valid(h)
  /\ \/ LookUpFails(h, k, kind)
     \/ /\ HasMember(h, k, kind)
        /\ CanCreate
        /\ LET shape == Shape(SubTree(DocOf(h), MemberPath(h, k)))
               copy == Fresh(shape, nodes)
           IN /\ nodes + Cardinality(DOMAIN shape) <= MaxNodes
              /\ nodes' = nodes + Cardinality(DOMAIN shape)
              /\ content' = [content EXCEPT ![NewObject] = copy]
              /\ HandOut(h, "copy", copy[Nothing].node)
        /\ asked' = NoChange("ok")
        /\ UNCHANGED <<deletedTwice, moved>>

GetObject(h, k) == CopyMember(h, k, "object")
GetArray(h, k) == CopyMember(h, k, "array")

\* Assigning a copy of shape at a path of a document, in new nodes.
Assign(doc, path, shape) ==
  /\ nodes + Cardinality(DOMAIN shape) <= MaxNodes
  /\ nodes' = nodes + Cardinality(DOMAIN shape)
  /\ content' = [content EXCEPT ![doc] = WithTree(@, path, Fresh(shape, nodes))]

AssignTo(out, shape) ==
  /\ Writable(out)
  /\ Assign(Holder(out), PathOf(out), shape)
  /\ Answer("write", out, PathOf(out), "ok")
  /\ UNCHANGED <<role, target, children, deletedTwice, moved>>

\* GetObject(key, pJson) copies; GetArray(key, pJson) moves.
GetObjectInto(h, k, out) ==
  /\ Valid(h)
  /\ \/ LookUpFails(h, k, "object")
     \/ HasMember(h, k, "object") /\ AssignTo(out, Shape(SubTree(DocOf(h), MemberPath(h, k))))

\* Moving swaps the two values, or leaves null behind, as the version of jsoncpp
\* has it.
GetArrayAcross(h, k, out) ==
  /\ Holder(out) # Holder(h)
  /\ \E left \in {TreeOf(out), Fresh(Leaf("null"), nodes)} :
       content' = [content EXCEPT
         ![Holder(h)] = WithTree(@, MemberPath(h, k), left),
         ![Holder(out)] = WithTree(@, PathOf(out), SubTree(DocOf(h), MemberPath(h, k)))]
  /\ asked' = [effect |-> "move", doc |-> Holder(out), path |-> PathOf(out), result |-> "ok"]

\* Within a document the array is lifted out of its member and put in its place,
\* whose value goes to the member if the two are swapped.  A place in the array itself
\* goes with it, and a place around it takes it out of what goes.  What goes from the
\* document in these two cases may hold itself: it is part of no document any more, and
\* is never freed.
MovedWithin(h, k, out, swaps) ==
  LET array == MemberPath(h, k)
      place == PathOf(out)
      lifted == WithTree(DocOf(h), array, Fresh(Leaf("null"), nodes))
      placed == IF IsStrictPrefix(array, place) THEN lifted
                ELSE WithTree(lifted, place, SubTree(DocOf(h), array))
  IN IF swaps /\ ~IsPrefix(place, array)
     THEN WithTree(placed, array, TreeOf(out))
     ELSE placed

GetArrayWithin(h, k, out) ==
  /\ Holder(out) = Holder(h)
  /\ \E swaps \in BOOLEAN :
       content' = [content EXCEPT ![Holder(h)] = MovedWithin(h, k, out, swaps)]
  /\ asked' = [effect |-> "move", doc |-> Holder(h),
               path |-> IF IsStrictPrefix(MemberPath(h, k), PathOf(out)) THEN MemberPath(h, k)
                        ELSE PathOf(out),
               result |-> "ok"]

GetArrayInto(h, k, out) ==
  /\ Valid(h)
  /\ \/ LookUpFails(h, k, "array")
     \/ /\ HasMember(h, k, "array")
        /\ Writable(out)
        /\ GetArrayAcross(h, k, out) \/ GetArrayWithin(h, k, out)
        /\ moved' = moved \cup {Holder(h)}
        /\ UNCHANGED <<role, target, children, nodes, deletedTwice>>

\* GetObject(index) and GetArray(index): neither looks at the kind of the element.
GetElement(h, i) ==
  /\ Valid(h)
  /\ \/ ~HasElement(h, i) /\ Unchanged("refused")
     \/ /\ HasElement(h, i)
        /\ CanCreate
        /\ HandOut(h, "view", DocOf(h)[Append(PathOf(h), i)].node)
        /\ asked' = NoChange("ok")
        /\ UNCHANGED <<content, nodes, deletedTwice, moved>>

GetElementInto(h, i, out) ==
  /\ Valid(h)
  /\ \/ ~HasElement(h, i) /\ Unchanged("refused")
     \/ HasElement(h, i) /\ AssignTo(out, Shape(SubTree(DocOf(h), Append(PathOf(h), i))))

-----------------------------------------------------------------------------
(* Writing. *)

\* m_jsonValue[pKey] makes an object of a null and throws for another kind; a
\* member that is there is assigned to, a new one added.
EffectAt(h, path) == IF path \in DOMAIN DocOf(h) THEN "write" ELSE "add"

PutMember(h, k, shape) ==
  /\ CanLookUp(h)
  /\ nodes + Cardinality(DOMAIN shape) <= MaxNodes
  /\ nodes' = nodes + Cardinality(DOMAIN shape)
  /\ content' = [content EXCEPT ![Holder(h)] =
       WithTree([@ EXCEPT ![PathOf(h)].kind = "object"], MemberPath(h, k), Fresh(shape, nodes))]

\* SetValue(), and SetObject(key, pJson) and SetArray(key, pJson), which take a
\* value of any kind.  When pJson holds this node, its copy has the new member too.
ShapeAfterLookUp(h, k, src) ==
  LET holds == Holder(src) = Holder(h) /\ IsPrefix(PathOf(src), PathOf(h))
      path == SubSeq(MemberPath(h, k), Len(PathOf(src)) + 1, Len(PathOf(h)) + 1)
      shape == Shape(TreeOf(src))
  IN IF holds /\ path \notin DOMAIN shape
     THEN [p \in DOMAIN shape \cup {path} |->
             IF p = path THEN "null"
             ELSE IF Append(p, k) = path THEN "object"
             ELSE shape[p]]
     ELSE shape

SetMember(h, k, shape) ==
  /\ Writable(h)
  /\ \/ ~CanLookUp(h) /\ Unchanged("refused")
     \/ /\ PutMember(h, k, shape)
        /\ Answer(EffectAt(h, MemberPath(h, k)), h, MemberPath(h, k), "ok")
        /\ UNCHANGED <<role, target, children, deletedTwice, moved>>

SetValue(h, k) == SetMember(h, k, Leaf("scalar"))
SetJson(h, k, src) == Valid(src) /\ Writable(h) /\ SetMember(h, k, ShapeAfterLookUp(h, k, src))

\* The object that is handed out refers to the node at path; without memory for it
\* the call fails after it has changed the document.
HandOutNew(h, path, effect) ==
  \/ /\ CanCreate
     /\ HandOut(h, "child", content'[Holder(h)][path].node)
     /\ Answer(effect, h, path, "ok")
     /\ UNCHANGED <<deletedTwice, moved>>
  \/ /\ Answer(effect, h, path, "no memory")
     /\ UNCHANGED <<role, target, children, deletedTwice, moved>>

SetChild(h, k, kind) ==
  /\ Writable(h)
  /\ \/ ~CanLookUp(h) /\ Unchanged("refused")
     \/ /\ PutMember(h, k, Leaf(kind))
        /\ HandOutNew(h, MemberPath(h, k), EffectAt(h, MemberPath(h, k)))

SetObject(h, k) == SetChild(h, k, "object")
SetArray(h, k) == SetChild(h, k, "array")

NextElement(h) == Append(PathOf(h), Size(DocOf(h), PathOf(h)))

AppendShape(h, shape) ==
  /\ Writable(h)
  /\ \/ KindOf(h) # "array" /\ Unchanged("refused")
     \/ /\ KindOf(h) = "array"
        /\ Assign(Holder(h), NextElement(h), shape)
        /\ Answer("add", h, NextElement(h), "ok")
        /\ UNCHANGED <<role, target, children, deletedTwice, moved>>

AppendValue(h) == AppendShape(h, Leaf("scalar"))

AppendJson(h, src, kind) ==
  /\ Valid(src)
  /\ Writable(h)
  /\ \/ KindOf(src) # kind /\ Unchanged("refused")
     \/ KindOf(src) = kind /\ AppendShape(h, Shape(TreeOf(src)))

AppendChild(h, kind) ==
  /\ Writable(h)
  /\ \/ KindOf(h) # "array" /\ Unchanged("refused")
     \/ /\ KindOf(h) = "array"
        /\ Assign(Holder(h), NextElement(h), Leaf(kind))
        /\ HandOutNew(h, NextElement(h), "add")

AppendObject(h) == AppendChild(h, "object")
AppendArray(h) == AppendChild(h, "array")

\* A text that does not parse leaves the document alone: it is parsed aside.
ParseInPlace(h, text) ==
  /\ Writable(h)
  /\ \/ AssignTo(h, text)
     \/ /\ Assign(Holder(h), PathOf(h), text)
        /\ asked' = NoChange("refused")
        /\ UNCHANGED <<role, target, children, deletedTwice, moved>>

Parse(h, text) ==
  /\ Writable(h)
  /\ Unchanged("refused") \/ AssignTo(h, text)

-----------------------------------------------------------------------------
(* Removing. *)

Delete(h, k) ==
  /\ Writable(h)
  /\ \/ ~CanLookUp(h) /\ Unchanged("threw")
     \/ /\ CanLookUp(h)
        /\ content' = [content EXCEPT ![Holder(h)] = WithoutTree(@, MemberPath(h, k))]
        /\ Answer("delete", h, MemberPath(h, k), "ok")
        /\ UNCHANGED <<role, target, children, nodes, deletedTwice, moved>>

\* The objects deleted with these, by one destructor after the other.
Family(hs) ==
  {d \in Object : \A s \in SUBSET Object :
     (hs \subseteq s /\ \A h \in s : children[h] \subseteq s) => d \in s}

DeleteObjects(hs) ==
  /\ deletedTwice' = (deletedTwice \/ \E d \in hs : role[d] = "deleted")
  /\ role' = [h \in Object |-> IF h \in hs THEN "deleted" ELSE role[h]]

\* Clear() deletes what the object has handed out, then what its node holds; a
\* scalar cannot be cleared, which is found out too late.
ClearWithoutForgetting(h) ==
  /\ Writable(h)
  /\ LET gone == Family(children[h])
     IN /\ DeleteObjects(gone)
        /\ content' = [g \in Object |->
             IF g \in gone THEN Nothing
             ELSE IF g = Holder(h) /\ KindOf(h) # "scalar"
             THEN WithTree(content[g], PathOf(h), [p \in {Nothing} |-> DocOf(h)[PathOf(h)]])
             ELSE content[g]]
  /\ Answer("write", h, PathOf(h), IF KindOf(h) = "scalar" THEN "threw" ELSE "ok")
  /\ UNCHANGED <<target, children, nodes, moved>>

Clear(h) ==
  /\ Writable(h)
  /\ LET gone == Family(children[h])
     IN /\ DeleteObjects(gone)
        /\ children' = [g \in Object |-> IF g \in gone \cup {h} THEN {} ELSE children[g]]
        /\ content' = [g \in Object |->
             IF g \in gone THEN Nothing
             ELSE IF g = Holder(h) /\ KindOf(h) # "scalar"
             THEN WithTree(content[g], PathOf(h), [p \in {Nothing} |-> DocOf(h)[PathOf(h)]])
             ELSE content[g]]
  /\ Answer("write", h, PathOf(h), IF KindOf(h) = "scalar" THEN "threw" ELSE "ok")
  /\ UNCHANGED <<target, nodes, moved>>

\* Destroy(), of an object of Create(): the others belong to the one they were
\* asked of.
Destroy(h) ==
  /\ role[h] = "owner"
  /\ LET gone == Family({h})
     IN /\ DeleteObjects(gone)
        /\ children' = [g \in Object |-> IF g \in gone THEN {} ELSE children[g]]
        /\ content' = [g \in Object |-> IF g \in gone THEN Nothing ELSE content[g]]
  /\ asked' = [effect |-> "delete", doc |-> h, path |-> Nothing, result |-> "ok"]
  /\ UNCHANGED <<target, nodes, moved>>

-----------------------------------------------------------------------------
JsonNext ==
  \/ \E kind \in {"object", "array", "scalar"} : Create(kind)
  \/ \E h \in Object :
       \/ Clear(h)
       \/ Destroy(h)
       \/ AppendValue(h)
       \/ AppendObject(h)
       \/ AppendArray(h)
       \/ \E text \in Texts : Parse(h, text)
       \/ \E k \in Key :
            \/ GetObject(h, k)
            \/ GetArray(h, k)
            \/ SetValue(h, k)
            \/ SetObject(h, k)
            \/ SetArray(h, k)
            \/ Delete(h, k)
            \/ \E g \in Object : GetObjectInto(h, k, g)
            \/ \E g \in Object : GetArrayInto(h, k, g)
            \/ \E g \in Object : SetJson(h, k, g)
       \/ \E i \in 0 .. 1 : GetElement(h, i)
       \/ \E i \in 0 .. 1, g \in Object : GetElementInto(h, i, g)
       \/ \E g \in Object, kind \in {"object", "array"} : AppendJson(h, g, kind)

JsonSpec == JsonInit /\ [][JsonNext]_jsonVars

-----------------------------------------------------------------------------
JsonTypeOK ==
  /\ role \in [Object -> Roles]
  /\ \A h \in Object : \A p \in DOMAIN content[h] :
       content[h][p] \in [kind : Kinds, node : 1 .. nodes]
  /\ target \in [Object -> 0 .. nodes]
  /\ children \in [Object -> SUBSET Object]
  /\ nodes \in 0 .. MaxNodes
  /\ deletedTwice \in BOOLEAN
  /\ moved \subseteq Object

\* No node is in two places, and a document has no node without the one above it:
\* every value of a document is reachable from its root, once.
DocumentsAreTrees ==
  /\ \A g, h \in Object : \A p \in DOMAIN content[g], q \in DOMAIN content[h] :
       content[g][p].node = content[h][q].node => g = h /\ p = q
  /\ \A h \in Object : \A p \in DOMAIN content[h] :
       p # Nothing =>
         /\ Front(p) \in DOMAIN content[h]
         /\ content[h][Front(p)].kind = IF Last(p) \in Key THEN "object" ELSE "array"

\* Each object is deleted once, by the object that handed it out, which does so
\* before it is gone itself.
DeletedOnce ==
  /\ ~deletedTwice
  /\ \A h \in Object : Live(h) =>
       (role[h] # "owner" <=> \E g \in Object : Live(g) /\ h \in children[g])

\* What documents and objects are between two calls.
JsonIsSound == DocumentsAreTrees /\ DeletedOnce

\* What an object refers to goes away only when what is above it is assigned,
\* cleared, removed or moved, or with the copy that GetArray(key, pJson) has moved it
\* into.  Reading, appending, adding a member, and assigning to the node itself leave
\* every IJson object good, at any distance.  (What goes away may be the pJson that an
\* array was moved into, when it was part of that array.)
OnlyRewritesInvalidate ==
  [][\A h \in Object :
       Valid(h) /\ Live(h)' /\ ~Valid(h)' =>
         \/ /\ asked'.effect \in {"write", "move", "delete"}
            /\ asked'.doc = Holder(h)
            /\ IsPrefix(asked'.path, PathOf(h))
            /\ asked'.effect # "delete" => asked'.path # PathOf(h)
         \/ /\ role[Holder(h)] = "copy" /\ role'[Holder(h)] = "deleted"
            /\ Holder(h) \in moved]_jsonVars

\* A call that reports an error has not changed a document, except when memory
\* ran out after the change.
FailedCallsChangeNothing ==
  [][asked'.result \in {"refused", "threw"} =>
       \A h \in Object : Live(h)' => content'[h] = content[h]]_jsonVars

\* What GetObject(key) and GetArray(key) hand out is a copy: nothing that is done
\* to any document changes it, as long as it lives.  The exception is one that
\* GetArray(key, pJson) was called on, which may hold nodes of others from then on.
CopiesStayAsTaken ==
  [][\A h \in Object :
       role[h] = "copy" /\ role'[h] = "copy" /\ h \notin moved' =>
         Valid(h)' /\ TreeOf(h)' = TreeOf(h)]_jsonVars

\* The three of them.
CallsAreContained ==
  OnlyRewritesInvalidate /\ FailedCallsChangeNothing /\ CopiesStayAsTaken
=============================================================================
