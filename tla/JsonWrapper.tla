---------------------------- MODULE JsonWrapper ----------------------------
(***************************************************************************)
(* JsonWrapper (new_elbs/json_wrapper.cc): handles on cJSON nodes that own  *)
(* the tree they point to, or only borrow a node of somebody else's.        *)
(*                                                                         *)
(* heap maps the address of each live node to the node; its kids are        *)
(* addresses.  A freed address is taken again only when no handle points to *)
(* it any more.  held is the node the caller got from release(), file what  *)
(* toFile wrote.  The caller keeps to what the class asks for without       *)
(* checking it: it does not use a borrowed node after its tree is gone,     *)
(* assigns no part of a handle's own tree to it, gives named members to     *)
(* objects only and elements to arrays only.                                *)
(***************************************************************************)
EXTENDS Cjson

CONSTANTS
    Wrappers,      \* the handles
    Names,         \* names of members
    Ints, Doubles, \* numbers the caller sets
    Strings,       \* strings the caller sets
    Documents,     \* texts the caller parses
    FileMax,       \* the buffer of fromFile (65535 bytes)
    MaxCalls       \* bound on the calls of a behaviour

VARIABLES heap, wrappers, held, file, calls
vars == <<heap, wrappers, held, file, calls>>

nullptr == 0

-----------------------------------------------------------------------------
(* Nodes and addresses.                                                    *)

RECURSIVE Tree(_, _), Below(_, _), Build(_, _)

\* The value at an address, and the addresses it takes up.
Tree(h, id) == [h[id] EXCEPT !.kids = [i \in DOMAIN @ |-> Tree(h, @[i])]]
Below(h, id) == {id} \cup UNION {Below(h, kid) : kid \in ToSet(h[id].kids)}

Pointers == {wrappers[w].root : w \in Wrappers} \cup {held}

\* New nodes for a value (cJSON_New_Item, cJSON_Duplicate, cJSON_Parse):
\* [heap, root].
Build(h, tree) ==
    LET id == CHOOSE n \in 1..Cardinality(DOMAIN h \cup Pointers) + 1 :
                  /\ n \notin DOMAIN h \cup Pointers
                  /\ 1..n - 1 \subseteq DOMAIN h \cup Pointers
        AddKid(acc, kid) ==
            LET b == Build(acc.heap, kid)
            IN  [heap |-> b.heap, kids |-> Append(acc.kids, b.root)]
        all == FoldLeft(AddKid, [heap |-> h @@ (id :> tree), kids |-> <<>>], tree.kids)
    IN  [heap |-> [all.heap EXCEPT ![id].kids = all.kids], root |-> id]

\* cJSON_Delete of a node that is in no list.
Delete(h, id) ==
    IF id = nullptr THEN h ELSE Restrict(h, DOMAIN h \ Below(h, id))

-----------------------------------------------------------------------------
(* Lists of children.                                                      *)

\* The position of the first child of that name, 0 for none.
Position(h, id, name) ==
    SelectInSeq(h[id].kids, LAMBDA kid : SameName(h[kid].name, name))

\* cJSON_GetObjectItem and findNode, cJSON_GetArrayItem.
findNode(h, id, name) ==
    LET i == Position(h, id, name) IN IF i = 0 THEN nullptr ELSE h[id].kids[i]

GetArrayItem(h, id, which) ==
    IF which + 1 \in DOMAIN h[id].kids THEN h[id].kids[which + 1] ELSE nullptr

\* findNode(name, type), and the is... and getters that ask for a type.
FindTyped(h, id, name, types) ==
    LET node == findNode(h, id, name)
    IN  IF node # nullptr /\ h[node].type \in types THEN node ELSE nullptr

isA(h, id, name, types) == FindTyped(h, id, name, types) # nullptr

\* A getter with its default: the default unless the member has the type.
getIntValue(h, id, name, default) ==
    LET node == FindTyped(h, id, name, {"Number"})
    IN  IF node = nullptr THEN default ELSE h[node].int

getUIntValue(h, id, name, default) ==
    LET node == FindTyped(h, id, name, {"Number"})
    IN  IF node = nullptr THEN default ELSE h[node].dbl % (2 * (IntMax + 1))

getDoubleValue(h, id, name, default) ==
    LET node == FindTyped(h, id, name, {"Number"})
    IN  IF node = nullptr THEN default ELSE h[node].dbl

getStringValue(h, id, name, default) ==
    LET node == FindTyped(h, id, name, {"String"})
    IN  IF node = nullptr THEN default ELSE h[node].str

getBooleanValue(h, id, name, default) ==
    LET node == FindTyped(h, id, name, {"True", "False"})
    IN  IF node = nullptr THEN default ELSE h[node].type = "True"

\* The getters of the value itself.
rootIs(h, id, types) == id # nullptr /\ h[id].type \in types
rootInt(h, id, default) == IF rootIs(h, id, {"Number"}) THEN h[id].int ELSE default
rootUInt(h, id, default) ==
    IF rootIs(h, id, {"Number"}) THEN h[id].dbl % (2 * (IntMax + 1)) ELSE default
rootDouble(h, id, default) == IF rootIs(h, id, {"Number"}) THEN h[id].dbl ELSE default
rootString(h, id, default) == IF rootIs(h, id, {"String"}) THEN h[id].str ELSE default
rootBoolean(h, id, default) ==
    IF rootIs(h, id, {"True", "False"}) THEN h[id].type = "True" ELSE default

AddItemToArray(h, array, item) == [h EXCEPT ![array].kids = Append(@, item)]

AddItemToObject(h, object, name, item) ==
    AddItemToArray([h EXCEPT ![item].name = name], object, item)

DetachItemFromArray(h, array, which) == [h EXCEPT ![array].kids = RemoveAt(@, which + 1)]

\* Mutant: the new item takes the place, but not the name.
ReplaceUnnamed(h, object, name, item) ==
    LET i   == Position(h, object, name)
        old == h[object].kids[i]
    IN  Delete([h EXCEPT ![object].kids[i] = item], old)

\* cJSON_ReplaceItemInObject: the new item takes the place and the name.
ReplaceItemInObject(h, object, name, item) ==
    LET i   == Position(h, object, name)
        old == h[object].kids[i]
    IN  Delete([h EXCEPT ![item].name = name, ![object].kids[i] = item], old)

\* What the named setters share: replace the member or append it.
SetMember(h, object, name, tree) ==
    LET new == Build(h, tree)
    IN  IF findNode(h, object, name) # nullptr
          THEN ReplaceItemInObject(new.heap, object, name, new.root)
          ELSE AddItemToObject(new.heap, object, name, new.root)

-----------------------------------------------------------------------------
(* Merging.                                                                *)

\* The sibling behind an item (cJSON::next).
NextOf(h, parent, item) ==
    LET kids == h[parent].kids
        i    == SelectInSeq(kids, LAMBDA kid : kid = item)
    IN  IF i < Len(kids) THEN kids[i + 1] ELSE nullptr

\* Mutant: the members that stay are not counted.
NotCounted(which) == which

\* How far the loop of doMerge counts a member that stays with the profile.
Counted(which) == which + 1

\* doMerge: the loop over the children of root2, at item2, with `which` of
\* them left behind in root2.
RECURSIVE MergeFrom(_, _, _, _, _)
doMerge(h, root1, root2) ==
    IF h[root1].type # h[root2].type \/ h[root2].kids = <<>> THEN h
    ELSE MergeFrom(h, root1, root2, Head(h[root2].kids), 0)

MergeFrom(h, root1, root2, item2, which) ==
    LET name     == h[item2].name
        item1    == IF name = "" THEN nullptr ELSE findNode(h, root1, name)
        next     == NextOf(h, root2, item2)
        moved    == GetArrayItem(h, root2, which)
        detached == DetachItemFromArray(h, root2, which)
        recurse  == /\ item1 # nullptr
                    /\ h[item1].kids # <<>> /\ h[item2].kids # <<>>
                    /\ h[item1].type = h[item2].type
        done     == IF item1 = nullptr THEN AddItemToArray(detached, root1, moved)
                    ELSE IF recurse THEN doMerge(h, item1, item2)
                    ELSE ReplaceItemInObject(detached, root1, name, moved)
    IN  IF next = nullptr THEN done
        ELSE MergeFrom(done, root1, root2, next, IF recurse THEN Counted(which) ELSE which)

\* The merge as its authors first wrote it, with copies, kept in the source
\* behind #if 0: on values, it is what merging means.
RECURSIVE MergeByCopy(_, _)
MergeByCopy(tree1, tree2) ==
    LET Into(t, item2) ==
            LET i == SelectInSeq(t.kids, LAMBDA kid : SameName(kid.name, item2.name))
            IN  IF item2.name = "" \/ i = 0 THEN [t EXCEPT !.kids = Append(@, item2)]
                ELSE IF /\ t.kids[i].kids # <<>> /\ item2.kids # <<>>
                        /\ t.kids[i].type = item2.type
                     THEN [t EXCEPT !.kids[i] = MergeByCopy(t.kids[i], item2)]
                ELSE [t EXCEPT !.kids[i] = item2]
    IN  IF tree1.type # tree2.type THEN tree1 ELSE FoldLeft(Into, tree1, tree2.kids)

-----------------------------------------------------------------------------
Init ==
    /\ heap = <<>>
    /\ wrappers = [w \in Wrappers |-> [root |-> nullptr, owner |-> TRUE]]
    /\ held = nullptr
    /\ file = <<>>
    /\ calls = 0

Call == calls < MaxCalls /\ calls' = calls + 1

\* A handle that may be used: valid, and its tree still there.
Valid(w) == wrappers[w].root \in DOMAIN heap
Is(w, type) == Valid(w) /\ heap[wrappers[w].root].type = type
Empty(w) == wrappers[w].root = nullptr \/ ~wrappers[w].owner
Addresses(w) == IF Valid(w) THEN Below(heap, wrappers[w].root) ELSE {}

\* Mutant: a borrowed node is deleted as well.
DropAlways(w) ==
    IF wrappers[w].root \in DOMAIN heap THEN Delete(heap, wrappers[w].root) ELSE heap

\* The beginning of parse and assign: an owner deletes what it has.
Drop(w) == IF wrappers[w].owner THEN Delete(heap, wrappers[w].root) ELSE heap

\* assign: heap and handle after `w` was given the new root of `b`.
Point(w, b, owner) ==
    /\ heap' = b.heap
    /\ wrappers' = [wrappers EXCEPT ![w] = [root |-> b.root, owner |-> owner]]

assign(w, tree) == Point(w, Build(Drop(w), tree), TRUE)

\* parse; the empty text stands for parse(nullptr) and the destructor.
parse(w, text) ==
    LET p == Parse(text)
    IN  IF p.pos > 0 THEN assign(w, p.item)
        ELSE Point(w, [heap |-> Drop(w), root |-> nullptr], TRUE)

ParseText(w) ==
    /\ Call
    /\ \E text \in Documents \cup {<<>>} : parse(w, text)
    /\ UNCHANGED <<held, file>>

\* The setters of the value itself.  A number keeps its valueint when
\* setDoubleValue changes it; a boolean becomes a number when there was none.
SetType(w) ==
    /\ Call
    /\ \E tree \in {CreateObject, CreateArray} : assign(w, tree)
    /\ UNCHANGED <<held, file>>

setRootString(w, v) == assign(w, CreateString(v))

setRootInt(w, v) ==
    IF Is(w, "Number")
    THEN /\ heap' = [heap EXCEPT ![wrappers[w].root].int = v, ![wrappers[w].root].dbl = v]
         /\ UNCHANGED wrappers
    ELSE assign(w, CreateNumber(v))

setRootDouble(w, v) ==
    IF Is(w, "Number")
    THEN heap' = [heap EXCEPT ![wrappers[w].root].dbl = v] /\ UNCHANGED wrappers
    ELSE assign(w, CreateNumber(v))

setRootBoolean(w, v) ==
    IF Is(w, "True") \/ Is(w, "False")
    THEN heap' = [heap EXCEPT ![wrappers[w].root].type = CreateBool(v).type] /\ UNCHANGED wrappers
    ELSE assign(w, CreateNumber(IF v THEN 1 ELSE 0))

SetRoot(w) ==
    /\ Call
    /\ \/ \E v \in Ints : setRootInt(w, v)
       \/ \E v \in Doubles : setRootDouble(w, v)
       \/ \E v \in Strings : setRootString(w, v)
       \/ \E v \in BOOLEAN : setRootBoolean(w, v)
    /\ UNCHANGED <<held, file>>

\* operator=(const JsonWrapper&).
CopyAssign(w, v) ==
    /\ Call
    /\ w # v /\ wrappers[v].root \in DOMAIN heap \cup {nullptr}
    /\ wrappers[w].owner => wrappers[v].root \notin Addresses(w)
    /\ IF Valid(v) THEN assign(w, Tree(heap, wrappers[v].root))
       ELSE Point(w, [heap |-> Drop(w), root |-> nullptr], TRUE)
    /\ UNCHANGED <<held, file>>

\* operator=(JsonWrapper&&).
MoveAssign(w, v) ==
    /\ Call
    /\ w # v
    /\ wrappers[w].owner => wrappers[v].root \notin Addresses(w)
    /\ heap' = Drop(w)
    /\ wrappers' = [wrappers EXCEPT ![w] = wrappers[v], ![v] = [root |-> nullptr, owner |-> FALSE]]
    /\ UNCHANGED <<held, file>>

\* take: the new handle `v` gets the tree, or a copy of the borrowed node.
take(w, v) ==
    /\ Call
    /\ w # v /\ Empty(v) /\ wrappers[w].root \in DOMAIN heap \cup {nullptr}
    /\ IF wrappers[w].owner
         THEN /\ wrappers' = [wrappers EXCEPT ![v] = [wrappers[w] EXCEPT !.owner = TRUE],
                                              ![w] = [root |-> nullptr, owner |-> FALSE]]
              /\ UNCHANGED heap
         ELSE IF Valid(w) THEN Point(v, Build(heap, Tree(heap, wrappers[w].root)), TRUE)
         ELSE Point(v, [heap |-> heap, root |-> nullptr], TRUE)
    /\ UNCHANGED <<held, file>>

release(w) ==
    /\ Call
    /\ held = nullptr /\ wrappers[w].owner
    /\ held' = wrappers[w].root
    /\ wrappers' = [wrappers EXCEPT ![w] = [root |-> nullptr, owner |-> FALSE]]
    /\ UNCHANGED <<heap, file>>

\* getObject, getArray, getChild, getNext and getPrev: `v` borrows the node.
\* getArray of a position must name an element.
Borrow(w, v) ==
    /\ Call
    /\ Empty(v) /\ Valid(w)
    /\ LET root == wrappers[w].root
           first == GetArrayItem(heap, root, 0)
           family == {p \in DOMAIN heap : root \in ToSet(heap[p].kids)}
           Beside(d) == UNION {{kids[i + d] : i \in {j \in DOMAIN kids : kids[j] = root /\ j + d \in DOMAIN kids}}
                               : kids \in {heap[p].kids : p \in family}}
       IN  \E node \in {FindTyped(heap, root, n, {t}) : n \in Names, t \in {"Object", "Array"}}
                          \cup {IF first # nullptr /\ heap[first].type = "Array" THEN first ELSE nullptr}
                          \cup {first} \cup Beside(1) \cup Beside(-1) :
              wrappers' = [wrappers EXCEPT ![v] = [root |-> node, owner |-> FALSE]]
    /\ UNCHANGED <<heap, held, file>>

\* The setters of members.  A number that is there keeps its node, and only
\* the field of the type that was set changes.
setIntValue(w, name, v) ==
    LET root == wrappers[w].root
    IN  heap' = IF isA(heap, root, name, {"Number"})
                THEN [heap EXCEPT ![findNode(heap, root, name)].int = v]
                ELSE SetMember(heap, root, name, CreateNumber(v))

\* setDoubleValue and setUIntValue.
setDoubleValue(w, name, v) ==
    LET root == wrappers[w].root
    IN  heap' = IF isA(heap, root, name, {"Number"})
                THEN [heap EXCEPT ![findNode(heap, root, name)].dbl = v]
                ELSE SetMember(heap, root, name, CreateNumber(v))

setBooleanValue(w, name, v) ==
    LET root == wrappers[w].root
    IN  heap' = IF isA(heap, root, name, {CreateBool(v).type}) THEN heap
                ELSE SetMember(heap, root, name, CreateBool(v))

setStringValue(w, name, s) ==
    heap' = SetMember(heap, wrappers[w].root, name, CreateString(s))

SetNamed(w) ==
    /\ Call
    /\ Is(w, "Object")
    /\ \E name \in Names :
         \/ \E v \in Ints : setIntValue(w, name, v)
         \/ \E v \in Doubles : setDoubleValue(w, name, v)
         \/ \E v \in BOOLEAN : setBooleanValue(w, name, v)
         \/ \E s \in Strings : setStringValue(w, name, s)
    /\ UNCHANGED <<wrappers, held, file>>

\* setObjectValue and setArrayValue: a copy of the other value.
setObjectValue(w, v) ==
    /\ Call
    /\ Is(w, "Object") /\ Valid(v)
    /\ \E name \in Names :
          heap' = SetMember(heap, wrappers[w].root, name, Tree(heap, wrappers[v].root))
    /\ UNCHANGED <<wrappers, held, file>>

\* eraseNode, and setStringValue without a value.
eraseNode(w) ==
    /\ Call
    /\ Valid(w)
    /\ \E name \in Names :
         LET root == wrappers[w].root
             i    == Position(heap, root, name)
         IN  /\ i # 0
             /\ heap' = Delete(DetachItemFromArray(heap, root, i - 1), heap[root].kids[i])
    /\ UNCHANGED <<wrappers, held, file>>

\* addStringValueToArray, addIntValueToArray and addBoolValueToArray.
AddToArray(w) ==
    /\ Call
    /\ Is(w, "Array")
    /\ \E tree \in {CreateString(s) : s \in Strings} \cup {CreateNumber(v) : v \in Ints}
                     \cup {CreateBool(v) : v \in BOOLEAN} :
          LET b == Build(heap, tree)
          IN  heap' = AddItemToArray(b.heap, wrappers[w].root, b.root)
    /\ UNCHANGED <<wrappers, held, file>>

\* addItemToArray and addItemToObject with what release() returned.  An
\* invalid handle takes nothing: the caller still has the item.
AddHeld(w) ==
    /\ Call
    /\ held # nullptr /\ wrappers[w].root \notin Below(heap, held)
    /\ \/ Is(w, "Array") /\ heap' = AddItemToArray(heap, wrappers[w].root, held)
       \/ /\ Is(w, "Object")
          /\ \E name \in Names : heap' = AddItemToObject(heap, wrappers[w].root, name, held)
    /\ held' = nullptr
    /\ UNCHANGED <<wrappers, file>>

\* What merge and reverse_merge ask of the caller: two trees, and a profile
\* that owns its tree if the handle is to take it over.
MayMerge(w, v, takesOver) ==
    /\ w # v /\ Valid(v)
    /\ wrappers[w].root \in DOMAIN heap \cup {nullptr}
    /\ Addresses(w) \cap Addresses(v) = {}
    /\ takesOver => wrappers[v].owner

TakeOver(w, v, h) ==
    /\ heap' = h
    /\ wrappers' = [wrappers EXCEPT ![w] = [root |-> wrappers[v].root, owner |-> TRUE],
                                    ![v].owner = FALSE]

merge(w, v) ==
    /\ Call
    /\ MayMerge(w, v, ~Valid(w))
    /\ IF Valid(w)
         THEN /\ heap' = doMerge(heap, wrappers[w].root, wrappers[v].root)
              /\ UNCHANGED wrappers
         ELSE TakeOver(w, v, heap)
    /\ UNCHANGED <<held, file>>

reverse_merge(w, v) ==
    /\ Call
    /\ MayMerge(w, v, TRUE)
    /\ LET merged == IF Valid(w) THEN doMerge(heap, wrappers[v].root, wrappers[w].root) ELSE heap
           left   == IF wrappers[w].owner THEN Delete(merged, wrappers[w].root) ELSE merged
       IN  TakeOver(w, v, left)
    /\ UNCHANGED <<held, file>>

\* merge and reverse_merge of a text: the profile is a local handle, which
\* deletes what is left of it.
MergeText(w) ==
    /\ Call
    /\ wrappers[w].root \in DOMAIN heap \cup {nullptr}
    /\ \E text \in Documents :
         LET b == Build(heap, Parse(text).item)
             r == wrappers[w].root
         IN  \/ IF Valid(w) THEN /\ heap' = Delete(doMerge(b.heap, r, b.root), b.root)
                                 /\ UNCHANGED wrappers
                ELSE Point(w, b, TRUE)
             \/ LET merged == IF Valid(w) THEN doMerge(b.heap, b.root, r) ELSE b.heap
                IN  Point(w, [b EXCEPT !.heap = IF wrappers[w].owner THEN Delete(merged, r)
                                                ELSE merged], TRUE)
    /\ UNCHANGED <<held, file>>

\* toString and doToString.
toString(h, id) == IF id = nullptr THEN <<>> ELSE print_value(Tree(h, id))

\* toFile and fromFile.  fromFile reads at most FileMax bytes, and only a
\* shorter file leaves the buffer with a terminating zero.
toFile(w) ==
    /\ Call
    /\ Valid(w)
    /\ file' = toString(heap, wrappers[w].root)
    /\ UNCHANGED <<heap, wrappers, held>>

fromFile(w) ==
    /\ Call
    /\ file # <<>> /\ Len(file) < FileMax
    /\ parse(w, file)
    /\ UNCHANGED <<held, file>>

Next ==
    \/ \E w \in Wrappers :
         \/ ParseText(w) \/ SetType(w) \/ SetRoot(w) \/ release(w) \/ SetNamed(w) \/ eraseNode(w)
         \/ AddToArray(w) \/ AddHeld(w) \/ MergeText(w) \/ toFile(w) \/ fromFile(w)
    \/ \E w, v \in Wrappers :
         \/ CopyAssign(w, v) \/ MoveAssign(w, v) \/ take(w, v) \/ Borrow(w, v)
         \/ setObjectValue(w, v) \/ merge(w, v) \/ reverse_merge(w, v)

Spec == Init /\ [][Next]_vars

-----------------------------------------------------------------------------
(* Properties.                                                             *)

Owned == {wrappers[w].root : w \in {u \in Wrappers : wrappers[u].owner}} \ {nullptr}

\* Whatever the sequence of assignments, moves, merges and releases, every
\* node belongs to exactly one owner (a handle or the caller of release) and
\* is in exactly one list, so that the destructors free each node once and
\* none is leaked.
OwnershipSound ==
    LET roots == Owned \cup ({held} \ {nullptr})
        lists == UNION {{<<p, i>> : i \in DOMAIN heap[p].kids} : p \in DOMAIN heap}
    IN  /\ \A w, v \in Wrappers :
              w # v /\ wrappers[w].owner /\ wrappers[v].owner /\ wrappers[w].root # nullptr
                => wrappers[w].root \notin {wrappers[v].root, held}
        /\ roots \subseteq DOMAIN heap
        /\ UNION {Below(heap, r) : r \in roots} = DOMAIN heap
        /\ \A id \in DOMAIN heap :
              Cardinality({l \in lists : heap[l[1]].kids[l[2]] = id}) = IF id \in roots THEN 0 ELSE 1

\* Merging by moving nodes from one tree to the other gives the value that
\* merging by copying them gives, in both directions.
MergeMeans ==
    [][\A w, v \in Wrappers :
          Valid(w) /\ Valid(v) =>
             LET x == Tree(heap, wrappers[w].root)
                 y == Tree(heap, wrappers[v].root)
                 now == Tree(heap', wrappers'[w].root)
             IN  /\ merge(w, v) => now = MergeByCopy(x, y)
                 /\ reverse_merge(w, v) => now = MergeByCopy(y, x)]_vars

\* What a setter stored under a name is what the getter of that type returns,
\* whatever type the member had before and in whatever case its name is
\* written; a number beyond int is read back by the unsigned getter.  The same
\* holds for the value itself, but that a boolean is stored as a number when
\* there was none before.
SettersReadBack ==
    /\ [][\A w \in Wrappers :
            LET id == wrappers'[w].root
            IN  /\ \A v \in Ints : setRootInt(w, v) => rootInt(heap', id, v + 1) = v
                /\ \A v \in Doubles :
                     setRootDouble(w, v) => /\ rootDouble(heap', id, v + 1) = v
                                            /\ rootUInt(heap', id, v + 1) = v
                /\ \A s \in Strings : setRootString(w, s) => rootString(heap', id, <<>>) = s
                /\ \A v \in BOOLEAN :
                     setRootBoolean(w, v) =>
                        \/ rootBoolean(heap', id, ~v) = v
                        \/ rootInt(heap', id, -1) = IF v THEN 1 ELSE 0]_vars
    /\ [][\A w \in Wrappers, name \in Names :
          Is(w, "Object") /\ wrappers' = wrappers /\ heap' # heap =>
             LET id == wrappers[w].root
             IN  /\ \A v \in Ints :
                      setIntValue(w, name, v) => getIntValue(heap', id, name, v + 1) = v
                 /\ \A v \in Doubles :
                      setDoubleValue(w, name, v) => /\ getDoubleValue(heap', id, name, v + 1) = v
                                                    /\ getUIntValue(heap', id, name, v + 1) = v
                 /\ \A v \in BOOLEAN :
                      setBooleanValue(w, name, v) => getBooleanValue(heap', id, name, ~v) = v
                 /\ \A s \in Strings :
                      setStringValue(w, name, s) => getStringValue(heap', id, name, <<>>) = s]_vars

Same(a, b) == Meaning([a EXCEPT !.name = ""]) = Meaning([b EXCEPT !.name = ""])

\* A value that is printed and parsed is the same value, strings with quotes
\* and backslashes and numbers beyond int included, unless a setter changed
\* only one of the two fields of a number; and a text that was cut short,
\* of an object or an array, is refused (but for a cut behind a backslash,
\* where the parser reads behind the end).
TextRoundTrips ==
    \A id \in Owned :
       LET tree == Tree(heap, id)
           text == toString(heap, id)
       IN  /\ ~Stale(tree) => LET p == Parse(text) IN p.pos > Len(text) /\ Same(p.item, tree)
           /\ tree.type \in {"Object", "Array"} =>
                 \A n \in 1..Len(text) - 1 : Parse(SubSeq(text, 1, n)).pos <= 0
=============================================================================
