----------------------------- MODULE ZObjects_proofs -----------------------------
(***************************************************************************)
(* The links of the objects agree after any number of moves, for every     *)
(* number of objects, every version and every tree the story begins with.  *)
(* The reason:                                                             *)
(* removeObject leaves no link to the object, so that addChild, which      *)
(* overwrites the object's own links, cannot tear a list apart.            *)
(***************************************************************************)
EXTENDS ZObjects, TLAPS

ObjectsOrNothing == Objects \cup {Nothing}

\* What is left when an object's link has been taken out of the list: everything but
\* the object itself agrees, and no link leads to it.
Loose(t, o) ==
    /\ t.parent[o] = Nothing
    /\ t.sibling[o] = Nothing

LEMMA NothingIsNoObject == Nothing \notin Objects
BY DEF Nothing, Objects

\* The functions of the links, and an object that is not linked at all.
LEMMA LinksOf ==
    ASSUME NEW t \in Trees, NEW o \in Objects
    PROVE  /\ t.parent \in Links /\ t.sibling \in Links /\ t.child \in Links
           /\ t.parent[o] \in ObjectsOrNothing
           /\ t.sibling[o] \in ObjectsOrNothing
           /\ t.child[o] \in ObjectsOrNothing
BY DEF Trees, Links, ObjectsOrNothing

\* An object without a parent is nobody's first child and nobody's sibling.
LEMMA NoLinkToLoose ==
    ASSUME NEW t \in Trees, Agree(t), NEW o \in Objects, t.parent[o] = Nothing
    PROVE  /\ \A p \in Objects : t.child[p] # o
           /\ \A s \in Objects : t.sibling[s] # o
BY NothingIsNoObject, LinksOf DEF Agree, ChildrenAgree, SiblingsAgree

--------------------------------------------------------------------------------
\* removeObject keeps the links in agreement when the object is the first child...
LEMMA RemoveFirst ==
    ASSUME NEW t \in Trees, Agree(t), NEW o \in Objects, NEW p \in Objects,
           t.parent[o] = p, t.child[p] = o,
           NEW u, u = [t EXCEPT !.child[p] = t.sibling[o],
                                !.parent[o] = Nothing, !.sibling[o] = Nothing]
    PROVE  u \in Trees /\ Agree(u) /\ Loose(u, o)
<1>1. /\ u.parent = [t.parent EXCEPT ![o] = Nothing]
      /\ u.sibling = [t.sibling EXCEPT ![o] = Nothing]
      /\ u.child = [t.child EXCEPT ![p] = t.sibling[o]]
  BY LinksOf DEF Trees
<1>2. u \in Trees
  BY LinksOf DEF Trees, Links, ObjectsOrNothing
<1>3. \A s \in Objects : /\ u.parent[s] = IF s = o THEN Nothing ELSE t.parent[s]
                         /\ u.sibling[s] = IF s = o THEN Nothing ELSE t.sibling[s]
                         /\ u.child[s] = IF s = p THEN t.sibling[o] ELSE t.child[s]
  BY <1>1, LinksOf DEF Links
<1>4. \A s \in Objects : t.sibling[s] # o
  BY LinksOf, NothingIsNoObject DEF Agree, SiblingsAgree
<1>5. ChildrenAgree(u)
  BY <1>3, <1>4, LinksOf, NothingIsNoObject
     DEF Agree, ChildrenAgree, SiblingsAgree, ObjectsOrNothing
<1>6. SiblingsAgree(u)
  BY <1>3, <1>4, LinksOf, NothingIsNoObject
     DEF Agree, SiblingsAgree, OnePrevious, ObjectsOrNothing
<1>7. OnePrevious(u)
  BY <1>3, LinksOf DEF Agree, OnePrevious, ObjectsOrNothing
<1>8. Loose(u, o)
  BY <1>3 DEF Loose
<1> QED
  BY <1>2, <1>5, <1>6, <1>7, <1>8 DEF Agree

\* ... and when it comes behind another one.
LEMMA RemoveLater ==
    ASSUME NEW t \in Trees, Agree(t), NEW o \in Objects, NEW s \in Objects,
           t.parent[o] \in Objects, t.child[t.parent[o]] # o, t.sibling[s] = o,
           NEW u, u = [t EXCEPT !.sibling[s] = t.sibling[o],
                                !.parent[o] = Nothing, !.sibling[o] = Nothing]
    PROVE  u \in Trees /\ Agree(u) /\ Loose(u, o)
<1>1. /\ u.parent = [t.parent EXCEPT ![o] = Nothing]
      /\ u.sibling = [[t.sibling EXCEPT ![s] = t.sibling[o]] EXCEPT ![o] = Nothing]
      /\ u.child = t.child
  BY LinksOf DEF Trees
<1>2. u \in Trees
  BY LinksOf DEF Trees, Links, ObjectsOrNothing
<1>3. \A q \in Objects :
         /\ u.parent[q] = IF q = o THEN Nothing ELSE t.parent[q]
         /\ u.sibling[q] = IF q = o THEN Nothing
                           ELSE IF q = s THEN t.sibling[o] ELSE t.sibling[q]
         /\ u.child[q] = t.child[q]
  BY <1>1, LinksOf DEF Links
<1>4. \A q \in Objects : t.sibling[q] = o => q = s
  BY NothingIsNoObject DEF Agree, OnePrevious
<1>5. ChildrenAgree(u)
  BY <1>3, LinksOf, NothingIsNoObject
     DEF Agree, ChildrenAgree, ObjectsOrNothing
<1>6. SiblingsAgree(u)
  BY <1>3, <1>4, LinksOf, NothingIsNoObject
     DEF Agree, SiblingsAgree, ObjectsOrNothing
<1>7. OnePrevious(u)
  BY <1>3, <1>4, LinksOf, NothingIsNoObject DEF Agree, OnePrevious, ObjectsOrNothing
<1>8. Loose(u, o)
  BY <1>3 DEF Loose
<1> QED
  BY <1>2, <1>5, <1>6, <1>7, <1>8 DEF Agree

\* removeObject, for an object that its parent's list has.
LEMMA RemoveAgrees ==
    ASSUME NEW t \in Trees, Agree(t), NEW o \in Objects, IsListed(t, o)
    PROVE  /\ removeObject(t, o) \in Trees
           /\ Agree(removeObject(t, o))
           /\ Loose(removeObject(t, o), o)
<1>1. CASE t.parent[o] = Nothing
  BY <1>1, LinksOf DEF removeObject, Loose, Agree, SiblingsAgree
<1>2. CASE t.parent[o] # Nothing /\ t.child[t.parent[o]] = o
  <2>1. t.parent[o] \in Objects
    BY <1>2, LinksOf DEF ObjectsOrNothing
  <2>2. removeObject(t, o)
          = [[t EXCEPT !.child[t.parent[o]] = t.sibling[o]]
                EXCEPT !.parent[o] = Nothing, !.sibling[o] = Nothing]
    BY <1>2 DEF removeObject, Unlink
  <2>3. removeObject(t, o)
          = [t EXCEPT !.child[t.parent[o]] = t.sibling[o],
                      !.parent[o] = Nothing, !.sibling[o] = Nothing]
    BY <2>2
  <2> QED
    BY <1>2, <2>1, <2>3, RemoveFirst
<1>3. CASE t.parent[o] # Nothing /\ t.child[t.parent[o]] # o
  <2> DEFINE s == CHOOSE x \in Previous(t, o) : TRUE
  <2>1. t.parent[o] \in Objects
    BY <1>3, LinksOf DEF ObjectsOrNothing
  <2>2. s \in Previous(t, o)
    BY <1>3 DEF IsListed
  <2>3. s \in Objects /\ t.sibling[s] = o
    BY <2>2 DEF Previous
  <2>4. removeObject(t, o)
          = [[t EXCEPT !.sibling[s] = t.sibling[o]]
                EXCEPT !.parent[o] = Nothing, !.sibling[o] = Nothing]
    BY <1>3 DEF removeObject, Unlink
  <2> HIDE DEF s
  <2>5. removeObject(t, o)
          = [t EXCEPT !.sibling[s] = t.sibling[o],
                      !.parent[o] = Nothing, !.sibling[o] = Nothing]
    BY <2>4
  <2> QED
    BY <1>3, <2>1, <2>3, <2>5, RemoveLater
<1> QED
  BY <1>1, <1>2, <1>3

\* addChild, for an object that is loose.
LEMMA AddAgrees ==
    ASSUME NEW t \in Trees, Agree(t), NEW o \in Objects, NEW p \in Objects,
           Loose(t, o)
    PROVE  addChild(t, p, o) \in Trees /\ Agree(addChild(t, p, o))
<1> DEFINE u == addChild(t, p, o)
<1>1. /\ u.parent = [t.parent EXCEPT ![o] = p]
      /\ u.sibling = [t.sibling EXCEPT ![o] = t.child[p]]
      /\ u.child = [t.child EXCEPT ![p] = o]
  BY DEF Trees, addChild
<1>2. u \in Trees
  BY LinksOf DEF Trees, Links, ObjectsOrNothing, addChild
<1> HIDE DEF u
<1>3. \A q \in Objects : /\ u.parent[q] = IF q = o THEN p ELSE t.parent[q]
                         /\ u.sibling[q] = IF q = o THEN t.child[p] ELSE t.sibling[q]
                         /\ u.child[q] = IF q = p THEN o ELSE t.child[q]
  BY <1>1, LinksOf DEF Links
<1>4. /\ \A q \in Objects : t.child[q] # o
      /\ \A q \in Objects : t.sibling[q] # o
  BY NoLinkToLoose DEF Loose
<1>5. ChildrenAgree(u)
  BY <1>3, <1>4, LinksOf DEF Agree, ChildrenAgree, ObjectsOrNothing
<1>6. SiblingsAgree(u)
  BY <1>3, <1>4, LinksOf, NothingIsNoObject
     DEF Agree, ChildrenAgree, SiblingsAgree, ObjectsOrNothing
<1>7. OnePrevious(u)
  BY <1>3, <1>4, LinksOf, NothingIsNoObject
     DEF Agree, ChildrenAgree, SiblingsAgree, OnePrevious, ObjectsOrNothing
<1> QED
  BY <1>2, <1>5, <1>6, <1>7 DEF Agree, u

--------------------------------------------------------------------------------
\* An attribute that the entry has is in its first bytes.
LEMMA AttributeInItsBytes ==
    ASSUME NEW attr \in Attributes, HasAttribute(attr)
    PROVE  attr \div 8 < AttributeBytes
BY AttributesAssumption DEF HasAttribute, AttributeBytes

\* However the game moves the objects and writes their attributes, the links of each
\* agree with those of the others (zops.c 905-947, 1852-1885).
THEOREM LinksAlwaysAgree == Spec => []LinksAgree
<1>1. Init => LinksAgree
  BY TreeAssumption DEF Init, LinksAgree
<1>2. LinksAgree /\ [Next]_vars => LinksAgree'
  <2> SUFFICES ASSUME LinksAgree, [Next]_vars PROVE LinksAgree'
    OBVIOUS
  <2>1. CASE UNCHANGED vars
    BY <2>1 DEF LinksAgree, vars
  <2>2. ASSUME NEW o \in Objects, remove_obj(o) PROVE LinksAgree'
    BY <2>2, RemoveAgrees DEF LinksAgree, remove_obj, illegalInstruction
  <2>3. ASSUME NEW o \in Objects, NEW p \in Objects, insert_obj(o, p) PROVE LinksAgree'
    <3>1. CASE IsListed(tree, o)
      <4>1. tree' = addChild(removeObject(tree, o), p, o)
        BY <2>3, <3>1 DEF insert_obj
      <4> QED
        BY <3>1, <4>1, RemoveAgrees, AddAgrees DEF LinksAgree
    <3>2. CASE ~IsListed(tree, o)
      BY <2>3, <3>2 DEF LinksAgree, insert_obj, illegalInstruction
    <3> QED
      BY <3>1, <3>2
  <2>4. ASSUME NEW o \in Objects, NEW attr \in Attributes, NEW on \in BOOLEAN,
               HasAttribute(attr), PutAttribute(o, attr, on)
        PROVE  LinksAgree'
    BY <2>4, AttributeInItsBytes DEF LinksAgree, PutAttribute
  <2>5. ASSUME NEW o \in Objects, NEW attr \in Attributes,
               set_attr(o, attr) \/ clear_attr(o, attr)
        PROVE  LinksAgree'
    BY <2>4, <2>5 DEF set_attr, clear_attr
  <2> QED
    BY <2>1, <2>2, <2>3, <2>5 DEF Next
<1> QED
  BY <1>1, <1>2, PTL DEF Spec

=============================================================================
