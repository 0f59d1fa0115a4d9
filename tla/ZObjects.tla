-------------------------------- MODULE ZObjects --------------------------------
(***************************************************************************)
(* The objects of a story (zops.c 454-534, 905-947, 1713-1724, 1799-1905): *)
(* the entry of each has its attributes, bit by bit, and behind them the   *)
(* numbers of its parent, of its next sibling and of its first child.      *)
(* insert_obj and remove_obj relink the objects, set_attr and clear_attr   *)
(* write the bits.  A game may not put an object into itself or into what  *)
(* it holds, and starts with a forest.                                     *)
(***************************************************************************)
EXTENDS Naturals, Sequences

CONSTANTS
    NumObjects,
    InitialTree,    \* the links in the story file
    m_version,
    Attributes      \* the numbers of attributes that the game uses

VARIABLES
    tree,           \* the links
    attributes,     \* those that each object has
    halted          \* illegalInstruction has stopped the program

vars == <<tree, attributes, halted>>

Nothing == 0
Objects == 1..NumObjects

Links == [Objects -> Objects \cup {Nothing}]
Trees == [parent : Links, sibling : Links, child : Links]

--------------------------------------------------------------------------------
(***************************************************************************)
(* Every link from one object to the next is the only one to it, and goes  *)
(* along with the links to the parent.                                     *)
(***************************************************************************)
ChildrenAgree(t) ==
    \A p \in Objects : t.child[p] # Nothing => t.parent[t.child[p]] = p

SiblingsAgree(t) ==
    \A o \in Objects : t.sibling[o] # Nothing =>
        /\ t.parent[o] # Nothing
        /\ t.parent[t.sibling[o]] = t.parent[o]
        /\ t.child[t.parent[o]] # t.sibling[o]

OnePrevious(t) ==
    \A o, s \in Objects :
        t.sibling[o] # Nothing /\ t.sibling[o] = t.sibling[s] => o = s

Agree(t) == ChildrenAgree(t) /\ SiblingsAgree(t) /\ OnePrevious(t)

ASSUME TreeAssumption ==
    /\ NumObjects \in Nat
    /\ InitialTree \in Trees /\ Agree(InitialTree)
ASSUME AttributesAssumption == m_version \in Nat /\ Attributes \subseteq Nat

--------------------------------------------------------------------------------
(***************************************************************************)
(* The functions, from the links to the links.                             *)
(***************************************************************************)

\* The list of an object's children, as a loop along the siblings finds it.
ContentsOf(t, p) ==
    LET From[n \in 0..NumObjects, o \in Objects \cup {Nothing}] ==
            IF n = 0 \/ o = Nothing THEN <<>> ELSE <<o>> \o From[n - 1, t.sibling[o]]
    IN  From[NumObjects, t.child[p]]

\* The children before an object, of which there should be one.
Previous(t, o) ==
    LET list == ContentsOf(t, t.parent[o])
    IN  {s \in Objects : t.sibling[s] = o /\ \E i \in DOMAIN list : list[i] = s}

IsListed(t, o) ==
    \/ t.parent[o] = Nothing
    \/ t.child[t.parent[o]] = o
    \/ Previous(t, o) # {}

Unlink(t, o) ==
    IF t.child[t.parent[o]] = o
    THEN [t EXCEPT !.child[t.parent[o]] = t.sibling[o]]
    ELSE [t EXCEPT !.sibling[CHOOSE s \in Previous(t, o) : TRUE] = t.sibling[o]]

\* The object keeps its link to the next one.
KeepSibling(t, o) ==
    IF t.parent[o] = Nothing THEN t ELSE [Unlink(t, o) EXCEPT !.parent[o] = Nothing]

removeObject(t, o) ==
    IF t.parent[o] = Nothing THEN t
    ELSE [Unlink(t, o) EXCEPT !.parent[o] = Nothing, !.sibling[o] = Nothing]

\* The parent's link is changed before it is read.
addChildTooEarly(t, p, o) ==
    [t EXCEPT !.child[p] = o, !.parent[o] = p]

addChild(t, p, o) ==
    [t EXCEPT !.sibling[o] = t.child[p], !.parent[o] = p, !.child[p] = o]

--------------------------------------------------------------------------------
Init == tree = InitialTree /\ attributes = [o \in Objects |-> {}] /\ halted = FALSE

illegalInstruction == halted' = TRUE /\ UNCHANGED tree

remove_obj(o) ==
    /\ ~halted /\ UNCHANGED attributes
    /\ IF IsListed(tree, o) THEN tree' = removeObject(tree, o) /\ UNCHANGED halted
       ELSE illegalInstruction

\* The objects around an object, itself included.
Around(t, p) ==
    LET Up[n \in 0..NumObjects, o \in Objects \cup {Nothing}] ==
            IF n = 0 \/ o = Nothing THEN {} ELSE {o} \cup Up[n - 1, t.parent[o]]
    IN  Up[NumObjects, p]

insert_obj(o, p) ==
    /\ ~halted /\ UNCHANGED attributes
    /\ o # p /\ o \notin Around(tree, p)
    /\ IF IsListed(tree, o)
       THEN tree' = addChild(removeObject(tree, o), p, o) /\ UNCHANGED halted
       ELSE illegalInstruction

\* The numbers of version 4 are let through in version 3, whose entries are shorter.
HasLaterAttribute(attr) == attr < 48

\* The entry of an object has 32 attributes, or 48 from version 4 on.
HasAttribute(attr) == attr < 32 \/ (m_version > 3 /\ attr < 48)

\* The attributes are the first bytes of the entry; behind them is the parent.
AttributeBytes == IF m_version <= 3 THEN 4 ELSE 6
Mask(attr) == 2^(7 - (attr % 8))

WithBit(byte, mask, on) ==
    LET is == (byte \div mask) % 2 = 1 IN
    IF is = on THEN byte ELSE IF on THEN byte + mask ELSE byte - mask

\* SetMemory writes the byte that the attribute's number leads to.
PutAttribute(o, attr, on) ==
    IF attr \div 8 < AttributeBytes
    THEN /\ attributes' = [attributes EXCEPT ![o] = IF on THEN @ \cup {attr} ELSE @ \ {attr}]
         /\ UNCHANGED tree
    ELSE /\ tree' = [tree EXCEPT !.parent[o] = WithBit(@, Mask(attr), on)]
         /\ UNCHANGED attributes

set_attr(o, attr) ==
    /\ ~halted /\ HasAttribute(attr)
    /\ PutAttribute(o, attr, TRUE)
    /\ UNCHANGED halted

clear_attr(o, attr) ==
    /\ ~halted /\ HasAttribute(attr)
    /\ PutAttribute(o, attr, FALSE)
    /\ UNCHANGED halted

Next ==
    \/ \E o \in Objects : remove_obj(o)
    \/ \E o, p \in Objects : insert_obj(o, p)
    \/ \E o \in Objects, attr \in Attributes : set_attr(o, attr)
    \/ \E o \in Objects, attr \in Attributes : clear_attr(o, attr)

Spec == Init /\ [][Next]_vars

--------------------------------------------------------------------------------
(***************************************************************************)
(* Properties.                                                             *)
(***************************************************************************)

\* After any number of moves the three links of every object agree with those of the
\* others: a child's parent is the one that has it as child, siblings have the same
\* parent, and no two links lead to one object (zops.c 905-949).
LinksAgree == tree \in Trees /\ Agree(tree)

C == INSTANCE Contents WITH
        contents <- [p \in Objects |-> ContentsOf(tree, p)],
        holder <- tree.parent,
        InitialContents <- [p \in Objects |-> ContentsOf(InitialTree, p)]

\* A loop over the children of an object meets exactly the objects that say it is their
\* parent, the newest first, and the others in their order (zops.c 905-949).
ImplementsContents == C!Spec

=============================================================================
