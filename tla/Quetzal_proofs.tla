----------------------------- MODULE Quetzal_proofs ----------------------------
(***************************************************************************)
(* Calls and saved games, for every story and every game that keeps to the *)
(* rules.  The frames of the call stack cut the evaluation stack into      *)
(* slices that lie one on the other, and each call is as if its slice were *)
(* a stack of its own.  A file holds the game that was saved: what the     *)
(* bytes of its chunks undo, one after the other, is what wrote them.      *)
(***************************************************************************)
EXTENDS Quetzal, FiniteSetTheorems, TLAPS

LocalVariables == {s \in Seq(Int) : Len(s) <= 15}
CallFrames == [returnAddr : Location, returnStore : {NoStore} \cup Byte,
               setArguments : {2 ^ k - 1 : k \in 0..7},
               locals : LocalVariables, depth : Nat]
Machines == [pc : Nat, stack : Seq(Int), calls : Seq(CallFrames),
             dynamic : [Dynamic -> Byte]]

\* Stronger than FramesNested, which compares neighbours only: throw ends several
\* calls at once.
Nested(z) ==
    \A i \in 1..Len(z.calls) :
        /\ z.calls[i].depth <= Len(z.stack)
        /\ \A j \in i..Len(z.calls) : z.calls[i].depth <= z.calls[j].depth

\* Every operator on machines keeps this.
Sound(z) ==
    /\ z \in Machines /\ Len(z.calls) >= 1
    /\ Nested(z) /\ z.calls[1].depth = 0

\* How many values of the stack the running call of z has pushed.
OwnOf(z) == Len(z.stack) - Top(z.calls).depth

StackInv == Sound(Machine)

--------------------------------------------------------------------------------
\* Values stay integers.
LEMMA Integers16 ==
    ASSUME NEW a \in Int, NEW b \in Int
    PROVE  S16(a) \in Int /\ makeS16(a, b) \in Int /\ Msb(a) \in Byte /\ Lsb(a) \in Byte
BY SMT DEF S16, makeS16, Msb, Lsb, Byte

\* Places are numbers, and what a frame has fits the bytes of a file.
LEMMA Locations ==
    /\ Location \subseteq Nat
    /\ \A at \in Location : at % 2 ^ 24 = at
<1>1. 2 ^ 24 = 16777216
  BY SMT
<1>2. 2 ^ 24 \in Nat /\ 2 ^ 24 > 0
  BY <1>1, SMT
<1>3. Location \subseteq Nat /\ \A at \in Location : at < 2 ^ 24
  <2> DEFINE n == 2 ^ 24
  <2>1. n \in Nat /\ Location = 0..(n - 1)
    BY <1>2 DEF Location
  <2> HIDE DEF n
  <2>2. Location \subseteq Nat /\ \A at \in Location : at < n
    BY <2>1
  <2> QED BY <2>2 DEF n
<1>4. ASSUME NEW at \in Location PROVE at % 2 ^ 24 = at
  <2> DEFINE n == 2 ^ 24
  <2>1. n \in Nat /\ n > 0 /\ at \in Nat /\ at < n
    BY <1>2, <1>3
  <2> HIDE DEF n
  <2>2. at % n = at
    BY <2>1
  <2> QED BY <2>2 DEF n
<1> QED BY <1>3, <1>4

LEMMA ArgumentBits == \A k \in 0..7 : 2 ^ k - 1 \in 0..127
<1> SUFFICES ASSUME NEW k \in 0..7 PROVE 2 ^ k - 1 \in 0..127
  OBVIOUS
<1>1. /\ 2 ^ 0 = 1 /\ 2 ^ 1 = 2 /\ 2 ^ 2 = 4 /\ 2 ^ 3 = 8
      /\ 2 ^ 4 = 16 /\ 2 ^ 5 = 32 /\ 2 ^ 6 = 64 /\ 2 ^ 7 = 128
  OBVIOUS
<1> DEFINE power == [j \in 0..7 |-> 2 ^ j]
<1>2. \A j \in 0..7 : power[j] \in 1..128
  <2>1. power[0] = 1 /\ power[1] = 2 /\ power[2] = 4 /\ power[3] = 8
    BY <1>1
  <2>2. power[4] = 16 /\ power[5] = 32 /\ power[6] = 64 /\ power[7] = 128
    BY <1>1
  <2> HIDE DEF power
  <2> QED BY <2>1, <2>2
<1> DEFINE p == 2 ^ k
<1>3. p = power[k]
  OBVIOUS
<1> HIDE DEF p, power
<1>4. p - 1 \in 0..127
  BY <1>2, <1>3
<1> QED BY <1>4 DEF p

LEMMA FrameParts ==
    ASSUME NEW f \in CallFrames
    PROVE  /\ f.returnAddr \in Location /\ f.returnAddr \in Nat
           /\ f.returnStore \in {NoStore} \cup Byte /\ f.returnStore \in Int
           /\ f.setArguments \in 0..127
           /\ f.locals \in Seq(Int) /\ Len(f.locals) <= 15 /\ f.depth \in Nat
<1>1. /\ f.returnAddr \in Location /\ f.returnStore \in {NoStore} \cup Byte
      /\ f.setArguments \in {2 ^ k - 1 : k \in 0..7}
      /\ f.locals \in LocalVariables /\ f.depth \in Nat
  BY DEF CallFrames
<1>2. f.returnAddr \in Nat
  BY <1>1, Locations
<1>3. f.returnStore \in Int
  BY <1>1 DEF NoStore, Byte
<1>4. f.setArguments \in 0..127
  BY <1>1, ArgumentBits
<1>5. f.locals \in Seq(Int) /\ Len(f.locals) <= 15
  BY <1>1 DEF LocalVariables
<1> QED BY <1>1, <1>2, <1>3, <1>4, <1>5

\* The parts of a machine that has one part replaced.
LEMMA WithStack ==
    ASSUME NEW z \in Machines, NEW s \in Seq(Int)
    PROVE  LET w == [z EXCEPT !.stack = s] IN
           w \in Machines /\ w.stack = s /\ w.calls = z.calls
BY DEF Machines

LEMMA WithCalls ==
    ASSUME NEW z \in Machines, NEW c \in Seq(CallFrames)
    PROVE  LET w == [z EXCEPT !.calls = c] IN
           w \in Machines /\ w.stack = z.stack /\ w.calls = c
BY DEF Machines

LEMMA WithDynamic ==
    ASSUME NEW z \in Machines, NEW d \in [Dynamic -> Byte]
    PROVE  LET w == [z EXCEPT !.dynamic = d] IN
           w \in Machines /\ w.stack = z.stack /\ w.calls = z.calls
BY DEF Machines

LEMMA WithPC ==
    ASSUME NEW z \in Machines, NEW pc \in Nat
    PROVE  LET w == [z EXCEPT !.pc = pc] IN
           w \in Machines /\ w.stack = z.stack /\ w.calls = z.calls
BY DEF Machines

\* What a sound machine has.
LEMMA SoundParts ==
    ASSUME NEW z, Sound(z)
    PROVE  /\ z \in Machines /\ z.pc \in Nat /\ z.stack \in Seq(Int)
           /\ z.calls \in Seq(CallFrames) /\ z.dynamic \in [Dynamic -> Byte]
           /\ Len(z.calls) \in Nat \ {0} /\ Len(z.stack) \in Nat
           /\ Top(z.calls) \in CallFrames /\ Top(z.calls).depth \in Nat
           /\ OwnOf(z) \in Nat
<1>1. /\ z \in Machines /\ z.pc \in Nat /\ z.stack \in Seq(Int)
      /\ z.calls \in Seq(CallFrames) /\ z.dynamic \in [Dynamic -> Byte]
  BY DEF Sound, Machines
<1>2. Len(z.calls) \in Nat \ {0} /\ Len(z.stack) \in Nat
  BY <1>1 DEF Sound
<1>3. Top(z.calls) \in CallFrames
  BY <1>1, <1>2 DEF Top
<1>4. Top(z.calls).depth \in Nat
  BY <1>3 DEF CallFrames
<1>5. Top(z.calls).depth <= Len(z.stack)
  BY <1>1, <1>2 DEF Sound, Nested, Top
<1> QED BY <1>1, <1>2, <1>3, <1>4, <1>5 DEF OwnOf

\* The depths of a sound machine.
LEMMA Depths ==
    ASSUME NEW z, Sound(z), NEW i \in 1..Len(z.calls)
    PROVE  /\ z.calls[i] \in CallFrames /\ z.calls[i].depth \in Nat
           /\ z.calls[i].depth <= Len(z.stack)
           /\ \A j \in i..Len(z.calls) : z.calls[i].depth <= z.calls[j].depth
<1>1. z.calls \in Seq(CallFrames)
  BY SoundParts
<1>2. z.calls[i] \in CallFrames
  BY <1>1
<1>3. z.calls[i].depth \in Nat
  BY <1>2 DEF CallFrames
<1> QED BY <1>2, <1>3 DEF Sound, Nested

\* Only the depth of the running call is compared with the stack's.
LEMMA SoundWithStack ==
    ASSUME NEW z, Sound(z), NEW s \in Seq(Int), Top(z.calls).depth <= Len(s)
    PROVE  LET w == [z EXCEPT !.stack = s] IN
           Sound(w) /\ w.calls = z.calls /\ w.stack = s
<1> DEFINE w == [z EXCEPT !.stack = s]
<1>1. w \in Machines /\ w.calls = z.calls /\ w.stack = s
  BY WithStack, SoundParts
<1>2. ASSUME NEW i \in 1..Len(z.calls) PROVE z.calls[i].depth <= Len(s)
  <2>1. Len(z.calls) \in i..Len(z.calls)
    BY SoundParts
  <2>2. z.calls[i].depth \in Nat /\ z.calls[i].depth <= Top(z.calls).depth
    BY <2>1, Depths DEF Top
  <2> QED BY <2>2, SoundParts
<1> HIDE DEF w
<1>3. Sound(w) BY <1>1, <1>2 DEF Sound, Nested
<1> QED BY <1>1, <1>3 DEF w

LEMMA SoundWithPC ==
    ASSUME NEW z, Sound(z), NEW pc \in Nat
    PROVE  LET w == [z EXCEPT !.pc = pc] IN Sound(w) /\ w.calls = z.calls
<1> DEFINE w == [z EXCEPT !.pc = pc]
<1>1. w \in Machines /\ w.calls = z.calls /\ w.stack = z.stack
  BY WithPC, SoundParts
<1> HIDE DEF w
<1>2. Sound(w) BY <1>1 DEF Sound, Nested
<1> QED BY <1>1, <1>2 DEF w

\* An element outside the sequence is replaced by none.
LEMMA ReplaceElement ==
    ASSUME NEW s \in Seq(Int), NEW i \in Int, NEW v \in Int
    PROVE  [s EXCEPT ![i] = v] \in Seq(Int) /\ Len([s EXCEPT ![i] = v]) = Len(s)
<1>1. CASE i \in 1..Len(s)
  BY <1>1
<1>2. CASE i \notin 1..Len(s)
  <2>1. s \in [1..Len(s) -> Int]
    OBVIOUS
  <2>2. [s EXCEPT ![i] = v] = s
    BY <1>2, <2>1, Zenon
  <2> QED BY <2>2
<1> QED BY <1>1, <1>2

\* A value is pushed.
LEMMA PushSound ==
    ASSUME NEW z, Sound(z), NEW v \in Int
    PROVE  Sound(Push(z, v)) /\ Push(z, v).calls = z.calls
<1>1. Append(z.stack, v) \in Seq(Int) /\ Len(Append(z.stack, v)) = Len(z.stack) + 1
  BY SoundParts
<1>2. Top(z.calls).depth <= Len(Append(z.stack, v))
  BY <1>1, SoundParts DEF OwnOf
<1> QED BY <1>1, <1>2, SoundWithStack DEF Push

\* The running call pops what it has pushed.
LEMMA CutSound ==
    ASSUME NEW z, Sound(z), NEW n \in Nat, n <= OwnOf(z)
    PROVE  LET w == [z EXCEPT !.stack = Cut(@, Len(@) - n)] IN
           Sound(w) /\ w.calls = z.calls /\ OwnOf(w) = OwnOf(z) - n
<1> DEFINE s == Cut(z.stack, Len(z.stack) - n)
<1>1. s \in Seq(Int) /\ Len(s) = Len(z.stack) - n
  BY SoundParts DEF Cut, OwnOf
<1>2. Top(z.calls).depth <= Len(s)
  BY <1>1, SoundParts DEF OwnOf
<1> HIDE DEF s
<1>3. LET w == [z EXCEPT !.stack = s] IN
      Sound(w) /\ w.calls = z.calls /\ w.stack = s
  BY <1>1, <1>2, SoundWithStack
<1>4. OwnOf([z EXCEPT !.stack = s]) = OwnOf(z) - n
  <2> DEFINE a == Len(z.stack)
             b == Top(z.calls).depth
  <2>1. a \in Nat /\ b \in Nat /\ Len(s) = a - n
    BY <1>1, SoundParts
  <2>2. OwnOf([z EXCEPT !.stack = s]) = Len(s) - b /\ OwnOf(z) = a - b
    BY <1>3 DEF OwnOf
  <2> HIDE DEF a, b
  <2> QED BY <2>1, <2>2
<1> QED BY <1>3, <1>4 DEF s

\* A variable is set, whether it is on the stack, a local or a global.
LEMMA SetVariableSound ==
    ASSUME NEW z, Sound(z), NEW var \in Int, NEW value \in Int
    PROVE  LET w == setVariable(z, var, value) IN
           Sound(w) /\ Len(w.calls) = Len(z.calls)
<1>1. CASE var = 0
  <2>1. setVariable(z, var, value) = Push(z, S16(value))
    BY <1>1 DEF setVariable
  <2>2. S16(value) \in Int
    BY Integers16
  <2> QED BY <2>1, <2>2, PushSound
<1>2. CASE var \in 1..15
  <2> DEFINE n == Len(z.calls)
             f == z.calls[n]
             g == [f EXCEPT !.locals[var] = S16(value)]
             c == [z.calls EXCEPT ![n] = g]
             w == [z EXCEPT !.calls = c]
  <2>1. f \in CallFrames /\ n \in Nat \ {0} /\ S16(value) \in Int
    BY SoundParts, Integers16 DEF Top
  <2>2. f.locals \in Seq(Int) /\ Len(f.locals) <= 15
    BY <2>1 DEF CallFrames, LocalVariables
  <2>3. [f.locals EXCEPT ![var] = S16(value)] \in LocalVariables
    BY <1>2, <2>1, <2>2, ReplaceElement DEF LocalVariables
  <2>4. g \in CallFrames /\ g.depth = f.depth
    BY <2>1, <2>3 DEF CallFrames
  <2> HIDE DEF g, f
  <2>5. c \in Seq(CallFrames) /\ Len(c) = n
    BY <2>1, <2>4, SoundParts
  <2>6. \A i \in 1..n : c[i].depth = z.calls[i].depth
    BY <2>1, <2>4, <2>5, SoundParts DEF f
  <2> HIDE DEF c
  <2>7. w \in Machines /\ w.calls = c /\ w.stack = z.stack
    BY <2>5, WithCalls, SoundParts
  <2> HIDE DEF w
  <2>8. Sound(w)
    BY <2>1, <2>5, <2>6, <2>7 DEF Sound, Nested
  <2>9. w = setVariable(z, var, value)
    BY <1>2 DEF setVariable, w, c, g, f
  <2> QED BY <2>5, <2>7, <2>8, <2>9
<1>3. CASE var # 0 /\ var \notin 1..15
  <2> DEFINE d == [z.dynamic EXCEPT ![GlobalAddress(var)] = Msb(value),
                                    ![GlobalAddress(var) + 1] = Lsb(value)]
             w == [z EXCEPT !.dynamic = d]
  <2>1. d \in [Dynamic -> Byte]
    BY SoundParts, Integers16
  <2> HIDE DEF d
  <2>2. w \in Machines /\ w.calls = z.calls /\ w.stack = z.stack
    BY <2>1, WithDynamic, SoundParts
  <2> HIDE DEF w
  <2>3. Sound(w)
    BY <2>2 DEF Sound, Nested
  <2>4. w = setVariable(z, var, value)
    BY <1>3 DEF setVariable, w, d
  <2> QED BY <2>2, <2>3, <2>4
<1> QED BY <1>1, <1>2, <1>3

--------------------------------------------------------------------------------
(***************************************************************************)
(* Calls and returns.                                                      *)
(***************************************************************************)
\* The calls above frame n go, and the stack is cut down to no less than their depth.
LEMMA FewerCalls ==
    ASSUME NEW z, Sound(z), NEW n \in 1..Len(z.calls), NEW s \in Seq(Int),
           z.calls[n].depth <= Len(s)
    PROVE  LET w == [z EXCEPT !.calls = Cut(@, n), !.stack = s] IN
           Sound(w) /\ Len(w.calls) = n
<1> DEFINE c == Cut(z.calls, n)
           v == [z EXCEPT !.calls = c]
           w == [v EXCEPT !.stack = s]
<1>1. c \in Seq(CallFrames) /\ Len(c) = n /\ \A i \in 1..n : c[i] = z.calls[i]
  BY SoundParts DEF Cut
<1>2. w = [z EXCEPT !.calls = Cut(@, n), !.stack = s]
  BY SoundParts DEF Machines
<1> HIDE DEF c
<1>3. v \in Machines /\ v.calls = c
  BY <1>1, WithCalls, SoundParts
<1> HIDE DEF v
<1>4. w \in Machines /\ w.calls = c /\ w.stack = s
  BY <1>3, WithStack
<1> HIDE DEF w
<1>5. ASSUME NEW i \in 1..n PROVE c[i].depth <= Len(s)
  <2>1. i \in 1..Len(z.calls) /\ n \in i..Len(z.calls)
    BY SoundParts
  <2>2. z.calls[i].depth \in Nat /\ z.calls[n].depth \in Nat
        /\ z.calls[i].depth <= z.calls[n].depth
    BY <2>1, Depths
  <2> QED BY <1>1, <2>2
<1>6. ASSUME NEW i \in 1..n, NEW j \in i..n PROVE c[i].depth <= c[j].depth
  <2>1. i \in 1..Len(z.calls) /\ j \in i..Len(z.calls) /\ j \in 1..n
    BY SoundParts
  <2>2. z.calls[i].depth <= z.calls[j].depth
    BY <2>1, Depths
  <2> QED BY <1>1, <2>1, <2>2
<1>7. Nested(w)
  BY <1>1, <1>4, <1>5, <1>6 DEF Nested
<1>8. Sound(w)
  BY <1>1, <1>4, <1>7 DEF Sound
<1> QED BY <1>1, <1>2, <1>4, <1>8

\* A call that is not the main program returns.
LEMMA ReturnSound ==
    ASSUME NEW z, Sound(z), Len(z.calls) > 1, NEW value \in Int
    PROVE  Sound(returnRoutine(z, value))
<1> DEFINE n == Len(z.calls) - 1
           cs == Top(z.calls)
           s == StackCut(z.stack, cs)
           caller == [z EXCEPT !.calls = Cut(@, n), !.stack = s]
           given == IF cs.returnStore # NoStore
                    THEN setVariable(caller, cs.returnStore, value) ELSE caller
<1>1. n \in 1..Len(z.calls) /\ cs.depth \in Nat /\ cs.returnStore \in Int
      /\ cs.returnAddr \in Nat
  <2>1. n \in 1..Len(z.calls) /\ cs \in CallFrames
    BY SoundParts
  <2> HIDE DEF cs
  <2> QED BY <2>1, FrameParts
<1>2. cs.depth <= Len(z.stack)
  BY SoundParts DEF OwnOf
<1>3. s \in Seq(Int) /\ Len(s) = cs.depth
  BY <1>1, <1>2, SoundParts DEF StackCut, Cut
<1>4. z.calls[n].depth <= cs.depth
  <2>1. n \in 1..Len(z.calls) /\ Len(z.calls) \in n..Len(z.calls)
    BY SoundParts
  <2> QED BY <2>1, Depths DEF Top
<1>5. Sound(caller)
  BY <1>1, <1>3, <1>4, FewerCalls
<1>6. returnRoutine(z, value) = [given EXCEPT !.pc = cs.returnAddr]
  BY Zenon DEF returnRoutine
<1> HIDE DEF caller
<1>7. Sound(given)
  BY <1>1, <1>5, SetVariableSound
<1> HIDE DEF given, cs
<1> QED BY <1>1, <1>6, <1>7, SoundWithPC

\* A routine is called: its part of the stack begins at the top.
LEMMA CallSound ==
    ASSUME NEW z, Sound(z), NEW r \in Routine \cup {0}, z.pc \in Location,
           NEW store \in {NoStore} \cup Byte, NEW args \in Seq(Int), Len(args) <= 7
    PROVE  Sound(callRoutine(z, r, store, args))
<1>1. CASE r = 0
  <2>1. callRoutine(z, r, store, args)
            = IF store >= 0 THEN setVariable(z, store, 0) ELSE z
    BY <1>1 DEF callRoutine
  <2>2. Sound(setVariable(z, store, 0))
    <3>1. store \in Int
      BY DEF NoStore, Byte
    <3> QED BY <3>1, SetVariableSound
  <2> QED BY <2>1, <2>2
<1>2. CASE r # 0
  <2> DEFINE f == [returnAddr |-> z.pc, returnStore |-> store,
                   setArguments |-> 2 ^ Len(args) - 1,
                   locals |-> FirstLocals(r, args), depth |-> CallDepth(z)]
             c == Append(z.calls, f)
             v == [z EXCEPT !.calls = c]
             n == Len(z.calls)
  <2>1. r \in Routine /\ r \in Nat /\ Locals[r] \in Seq(LocalValue)
        /\ LocalValue \subseteq Int
    <3>1. r \in Routine
      BY <1>2
    <3>2. LocalValue \subseteq Int
      <4>1. Word \subseteq Int
        BY DEF Word
      <4> QED BY <4>1, ValueAssumption
    <3> HIDE DEF f
    <3> QED BY <3>1, <3>2, AddressAssumption, LocalsAssumption, Zenon
  <2> HIDE DEF f, c, v
  <2>2. Len(Locals[r]) \in Nat /\ \A i \in 1..Len(Locals[r]) : Locals[r][i] \in Int
    <3> DEFINE first == Locals[r]
    <3>1. first \in Seq(LocalValue) /\ LocalValue \subseteq Int
      BY <2>1
    <3> HIDE DEF first
    <3>2. Len(first) \in Nat
      BY <3>1
    <3>3. \A i \in 1..Len(first) : first[i] \in LocalValue
      BY <3>1
    <3> QED BY <3>1, <3>2, <3>3 DEF first
  <2>3. FirstLocals(r, args) \in LocalVariables
    <3> DEFINE e(i) == IF i <= Len(args) THEN args[i]
                       ELSE IF m_version >= 5 THEN 0 ELSE Locals[r][i]
    <3>1. \A i \in 1..Len(Locals[r]) : e(i) \in Int
      BY <2>2
    <3>2. FirstLocals(r, args) = [i \in 1..Len(Locals[r]) |-> e(i)]
      BY DEF FirstLocals
    <3>3. Len(Locals[r]) <= 15
      BY <2>1, LocalsAssumption
    <3> HIDE DEF e
    <3>4. FirstLocals(r, args) \in Seq(Int) /\ Len(FirstLocals(r, args)) = Len(Locals[r])
      BY <2>2, <3>1, <3>2
    <3> QED BY <3>3, <3>4 DEF LocalVariables
  <2>4. CodeStart(r) \in Nat
    BY <2>1, <2>2 DEF CodeStart
  <2>5. 2 ^ Len(args) - 1 \in {2 ^ k - 1 : k \in 0..7}
    <3>1. Len(args) \in 0..7
      <4> DEFINE m == Len(args)
      <4>1. m \in Nat /\ m <= 7
        OBVIOUS
      <4> HIDE DEF m
      <4>2. m \in 0..7
        BY <4>1
      <4> QED BY <4>2 DEF m
    <3> QED BY <3>1
  <2>6. f \in CallFrames /\ f.depth = Len(z.stack)
    <3>1. Len(z.stack) \in Nat
      BY SoundParts
    <3> QED BY <2>3, <2>5, <3>1 DEF CallFrames, CallDepth, f
  <2>7. c \in Seq(CallFrames) /\ Len(c) = n + 1 /\ c[n + 1] = f
        /\ \A i \in 1..n : c[i] = z.calls[i]
    BY <2>6, SoundParts DEF c
  <2>8. v \in Machines /\ v.calls = c /\ v.stack = z.stack
    BY <2>7, WithCalls, SoundParts DEF v
  <2>9. ASSUME NEW i \in 1..(n + 1)
        PROVE  /\ c[i].depth <= Len(z.stack)
               /\ \A j \in i..(n + 1) : c[i].depth <= c[j].depth
    <3>1. CASE i = n + 1
      <4>1. Len(z.stack) \in Nat /\ n \in Nat
        BY SoundParts
      <4> QED BY <2>6, <2>7, <3>1, <4>1
    <3>2. CASE i \in 1..n
      <4>1. z.calls[i].depth <= Len(z.stack)
            /\ \A j \in i..n : z.calls[i].depth <= z.calls[j].depth
        BY <3>2, Depths
      <4>2. ASSUME NEW j \in i..(n + 1) PROVE c[i].depth <= c[j].depth
        <5>1. CASE j = n + 1
          <6>1. c[j].depth = Len(z.stack) /\ c[i] = z.calls[i]
            BY <2>6, <2>7, <3>2, <5>1
          <6> QED BY <4>1, <6>1
        <5>2. CASE j \in i..n
          <6>1. j \in 1..n
            BY <3>2, <5>2, SoundParts
          <6> QED BY <2>7, <3>2, <4>1, <5>2, <6>1
        <5>3. n \in Nat
          BY SoundParts
        <5> HIDE DEF n
        <5> QED BY <3>2, <4>2, <5>1, <5>2, <5>3
      <4>3. c[i] = z.calls[i]
        BY <2>7, <3>2
      <4> QED BY <4>1, <4>2, <4>3
    <3>3. n \in Nat
      BY SoundParts
    <3> HIDE DEF n
    <3> QED BY <3>1, <3>2, <3>3
  <2>10. Sound(v)
    <3>1. n \in Nat /\ n >= 1 /\ z.calls[1].depth = 0
      BY SoundParts DEF Sound
    <3>2. c[1].depth = 0
      BY <2>7, <3>1
    <3> HIDE DEF n
    <3> QED BY <2>7, <2>8, <2>9, <3>1, <3>2 DEF Sound, Nested
  <2>11. callRoutine(z, r, store, args) = [v EXCEPT !.pc = CodeStart(r)]
    BY <1>2, SoundParts DEF callRoutine, v, c, f, Machines
  <2> QED BY <2>4, <2>10, <2>11, SoundWithPC
<1> QED BY <1>1, <1>2

--------------------------------------------------------------------------------
(***************************************************************************)
(* Operands and variables.                                                 *)
(***************************************************************************)
LEMMA OperandTypes ==
    StackInv => /\ Constant \subseteq Int /\ Global \subseteq 16..255
                /\ Own = OwnOf(Machine) /\ Own \in Nat
                /\ VariableNumbers \subseteq Int
<1> SUFFICES ASSUME StackInv
             PROVE  /\ Constant \subseteq Int /\ Global \subseteq 16..255
                    /\ Own = OwnOf(Machine) /\ Own \in Nat
                    /\ VariableNumbers \subseteq Int
  OBVIOUS
<1>1. Constant \subseteq Int
  <2>1. Word \subseteq Int
    BY DEF Word
  <2> QED BY <2>1, ValueAssumption
<1>2. Global \subseteq 16..255
  BY MemoryAssumption
<1>3. Own = OwnOf(Machine)
  BY DEF Own, OwnOf, Running, Machine, Top
<1>4. Own \in Nat
  BY <1>3, SoundParts DEF StackInv
<1>5. VariableNumbers \subseteq Int
  <2>1. 16..255 \subseteq Int
    OBVIOUS
  <2>2. 1..Len(Running.locals) \subseteq Int /\ 0 \in Int
    OBVIOUS
  <2> QED BY <1>2, <2>1, <2>2, Zenon DEF VariableNumbers
<1> QED BY <1>1, <1>2, <1>3, <1>4, <1>5

\* A variable holds an integer, if there is something on the stack to read.
LEMMA VariableValueInt ==
    ASSUME NEW z, Sound(z),
           NEW var \in {0} \cup (1..Len(Top(z.calls).locals)) \cup Global,
           var = 0 => OwnOf(z) >= 1
    PROVE  VariableValue(z, var) \in Int
<1>1. CASE var = 0
  <2>1. Len(z.stack) >= 1
    BY <1>1, SoundParts DEF OwnOf
  <2> QED BY <1>1, <2>1, SoundParts DEF VariableValue, Top
<1>2. CASE var \in 1..Len(Top(z.calls).locals)
  <2> DEFINE locals == Top(z.calls).locals
  <2>1. locals \in Seq(Int) /\ Len(locals) <= 15
    BY SoundParts DEF CallFrames, LocalVariables
  <2> HIDE DEF locals
  <2>2. var \in 1..15 /\ locals[var] \in Int
    BY <1>2, <2>1 DEF locals
  <2> QED BY <2>2 DEF VariableValue, locals
<1>3. CASE var \in Global
  <2>1. var \in 16..255 /\ {GlobalAddress(var), GlobalAddress(var) + 1} \subseteq Dynamic
    BY <1>3, MemoryAssumption
  <2>2. z.dynamic[GlobalAddress(var)] \in Int /\ z.dynamic[GlobalAddress(var) + 1] \in Int
    <3>1. z.dynamic \in [Dynamic -> Byte]
      BY SoundParts
    <3>2. z.dynamic[GlobalAddress(var)] \in Byte /\ z.dynamic[GlobalAddress(var) + 1] \in Byte
      BY <2>1, <3>1
    <3>3. Byte \subseteq Int
      BY DEF Byte
    <3> QED BY <3>2, <3>3, Zenon
  <2>3. GlobalValue(z.dynamic, var) \in Int
    BY <2>2, Integers16 DEF GlobalValue
  <2>4. var # 0 /\ var \notin 1..15
    BY <2>1
  <2>5. VariableValue(z, var) = GlobalValue(z.dynamic, var)
    BY <2>4, Zenon DEF VariableValue
  <2> QED BY <2>3, <2>5
<1> QED BY <1>1, <1>2, <1>3

LEMMA PoppedFinite ==
    ASSUME NEW ops \in Seq(Operand)
    PROVE  IsFiniteSet(Popped(ops)) /\ Cardinality(Popped(ops)) \in Nat
<1>1. Popped(ops) \subseteq 1..Len(ops)
  BY DEF Popped
<1>2. IsFiniteSet(1..Len(ops))
  BY FS_Interval
<1> QED BY <1>1, <1>2, FS_Subset, FS_CardinalityType

\* Operands are read: what the running call pushed is popped, and no more.
LEMMA ReadSound ==
    ASSUME StackInv, NEW ops \in Seq(Operand), MayRead(ops), NEW next \in Address
    PROVE  LET z == Read(next, ops) IN
           /\ Sound(z) /\ z.calls = m_callStack
           /\ OwnOf(z) = Own - Cardinality(Popped(ops))
<1> DEFINE n == Cardinality(Popped(ops))
           v == [Machine EXCEPT !.pc = next]
<1>1. n \in Nat /\ n <= Own /\ Own = OwnOf(Machine)
  BY PoppedFinite, OperandTypes DEF MayRead
<1>2. next \in Nat
  BY AddressAssumption, Locations
<1>3. Sound(v) /\ v.calls = m_callStack /\ v.stack = m_stack
  <2>1. Sound(v) /\ v.calls = Machine.calls
    BY <1>2, SoundWithPC DEF StackInv
  <2> QED BY <2>1 DEF Machine
<1>4. OwnOf(v) = Own
  BY <1>1, <1>3 DEF OwnOf, Machine
<1>5. Read(next, ops) = [v EXCEPT !.stack = Cut(@, Len(@) - n)]
  BY DEF Read, Machine
<1> HIDE DEF n, v
<1> QED BY <1>1, <1>3, <1>4, <1>5, CutSound DEF n

\* A variable is named: its value is read, and popped if it is on the stack.
LEMMA ReadVariableSound ==
    ASSUME NEW z, Sound(z), NEW var \in Int, OnStack(var) <= OwnOf(z)
    PROVE  LET w == readVariable(z, var) IN
           Sound(w) /\ w.calls = z.calls /\ OwnOf(w) = OwnOf(z) - OnStack(var)
<1>1. CASE var = 0
  <2>1. OnStack(var) = 1 /\ readVariable(z, var) = [z EXCEPT !.stack = Cut(@, Len(@) - 1)]
    BY <1>1 DEF OnStack, readVariable, Pop
  <2> QED BY <2>1, CutSound
<1>2. CASE var # 0
  BY <1>2, SoundParts DEF OnStack, readVariable
<1> QED BY <1>1, <1>2

LEMMA OperandValueInt ==
    ASSUME StackInv, NEW ops \in Seq(Operand), MayRead(ops), NEW i \in 1..Len(ops)
    PROVE  OperandValue(ops, i) \in Int
<1>1. ops[i] \in Operand
  OBVIOUS
<1>2. CASE ops[i].src = "Immediate"
  <2>1. \A v : Variable(v).src # "Immediate"
    BY DEF Variable
  <2>2. PICK c \in Constant : ops[i] = Immediate(c)
    BY <1>1, <1>2, <2>1 DEF Operand
  <2>3. ops[i].value = c
    BY <2>2 DEF Immediate
  <2> QED BY <1>2, <2>3, OperandTypes DEF OperandValue
<1>3. CASE ops[i].src # "Immediate"
  <2>1. \A c : Immediate(c).src = "Immediate"
    BY DEF Immediate
  <2>2. PICK v \in VariableNumbers : ops[i] = Variable(v)
    BY <1>1, <1>3, <2>1 DEF Operand
  <2>3. ops[i].value = v
    BY <2>2 DEF Variable
  <2>4. CASE v = 0
    <3> DEFINE before == {j \in Popped(ops) : j < i}
               n == Cardinality(Popped(ops))
               k == Cardinality(before)
    <3>1. i \in Popped(ops)
      BY <2>2, <2>4 DEF Popped
    <3>2. before \subseteq Popped(ops) \ {i}
      OBVIOUS
    <3>3. IsFiniteSet(Popped(ops)) /\ n \in Nat
      BY PoppedFinite
    <3>4. IsFiniteSet(Popped(ops) \ {i}) /\ Cardinality(Popped(ops) \ {i}) = n - 1
      BY <3>1, <3>3, FS_RemoveElement
    <3>5. k \in Nat /\ k <= n - 1
      BY <3>2, <3>4, FS_Subset, FS_CardinalityType
    <3>6. n <= Len(m_stack) /\ m_stack \in Seq(Int)
      <4>1. n <= OwnOf(Machine)
        BY OperandTypes DEF MayRead
      <4>2. OwnOf(Machine) <= Len(Machine.stack) /\ Machine.stack \in Seq(Int)
        BY SoundParts DEF StackInv, OwnOf
      <4> QED BY <3>3, <4>1, <4>2, SoundParts DEF StackInv, Machine
    <3>7. OperandValue(ops, i) = m_stack[Len(m_stack) - k]
      BY <1>3, <2>3, <2>4 DEF OperandValue
    <3> HIDE DEF n, k
    <3>8. Len(m_stack) - k \in 1..Len(m_stack)
      BY <3>3, <3>5, <3>6
    <3> QED BY <3>6, <3>7, <3>8
  <2>5. CASE v # 0
    <3>1. v \in {0} \cup (1..Len(Top(Machine.calls).locals)) \cup Global
      BY DEF VariableNumbers, Running, Machine
    <3>2. VariableValue(Machine, v) \in Int
      BY <2>5, <3>1, VariableValueInt DEF StackInv
    <3> QED BY <1>3, <2>3, <2>5, <3>2 DEF OperandValue
  <2> QED BY <2>4, <2>5
<1> QED BY <1>2, <1>3

--------------------------------------------------------------------------------
(***************************************************************************)
(* Each call has a stack of its own: the instructions are those of         *)
(* Routines, of which nothing is saved here.                               *)
(***************************************************************************)
Each == INSTANCE Routines WITH
            frames <- Frames(Machine), globals <- Globals(Machine), pc <- m_pc,
            saved <- <<>>, Variables <- {0} \cup (1..15) \cup Global, Value <- Word

\* The calls' results go to variables that there are.
Stores == {NoStore, 0} \cup (1..15) \cup Global
ResultsStored(z) == \A i \in 1..Len(z.calls) : z.calls[i].returnStore \in Stores
CallsInv == StackInv /\ ResultsStored(Machine)

\* The running call works: what its callers have, and what it was given, remains.
Works(z, w) ==
    /\ Len(w.calls) = Len(z.calls)
    /\ \A i \in 1..(Len(z.calls) - 1) : w.calls[i] = z.calls[i]
    /\ Top(w.calls).returnAddr = Top(z.calls).returnAddr
    /\ Top(w.calls).returnStore = Top(z.calls).returnStore
    /\ Top(w.calls).setArguments = Top(z.calls).setArguments
    /\ Len(Top(w.calls).locals) = Len(Top(z.calls).locals)
    /\ Top(w.calls).depth = Top(z.calls).depth
    /\ \A k \in 1..Top(z.calls).depth : w.stack[k] = z.stack[k]

\* The frames of a sound machine.
LEMMA FramesOf ==
    ASSUME NEW z, Sound(z)
    PROVE  /\ Frames(z) = [i \in 1..Len(z.calls) |-> Frames(z)[i]]
           /\ \A i \in 1..Len(z.calls) :
                 /\ Frames(z)[i].back = z.calls[i].returnAddr
                 /\ Frames(z)[i].store = z.calls[i].returnStore
                 /\ Frames(z)[i].args = z.calls[i].setArguments
                 /\ Frames(z)[i].locals = z.calls[i].locals
                 /\ Frames(z)[i].stack = OwnStack(z, i)
                 /\ Frames(z)[i] = [back |-> z.calls[i].returnAddr,
                                    store |-> z.calls[i].returnStore,
                                    args |-> z.calls[i].setArguments,
                                    locals |-> z.calls[i].locals,
                                    stack |-> OwnStack(z, i)]
<1>1. DOMAIN z.calls = 1..Len(z.calls)
  BY SoundParts
<1> QED BY <1>1 DEF Frames

\* They are a sequence.
FrameRecords == [back : Int, store : Int, args : Int, locals : Seq(Int), stack : Seq(Int)]

LEMMA OwnStackOf ==
    ASSUME NEW z, Sound(z), NEW i \in 1..Len(z.calls)
    PROVE  /\ NextDepth(z, i) \in z.calls[i].depth..Len(z.stack)
           /\ z.calls[i].depth \in Nat
           /\ OwnStack(z, i) \in Seq(Int)
           /\ OwnStack(z, i) = [k \in 1..(NextDepth(z, i) - z.calls[i].depth) |->
                                   z.stack[k + z.calls[i].depth]]
           /\ Len(OwnStack(z, i)) = NextDepth(z, i) - z.calls[i].depth
<1> DEFINE d == z.calls[i].depth
           e == NextDepth(z, i)
           s == z.stack
<1>1. d \in Nat /\ e \in d..Len(s) /\ s \in Seq(Int)
  <2>1. z.stack \in Seq(Int) /\ Len(z.stack) \in Nat /\ Len(z.calls) \in Nat
    BY SoundParts
  <2>2. CASE i < Len(z.calls)
    <3>1. i + 1 \in 1..Len(z.calls) /\ i + 1 \in i..Len(z.calls)
      BY <2>1, <2>2
    <3>2. e = z.calls[i + 1].depth
      BY <2>2 DEF NextDepth
    <3>3. z.calls[i + 1].depth \in Nat /\ z.calls[i + 1].depth <= Len(z.stack)
      BY <3>1, Depths
    <3>4. d \in Nat /\ d <= z.calls[i + 1].depth
      BY <3>1, Depths
    <3> QED BY <2>1, <3>2, <3>3, <3>4
  <2>3. CASE ~(i < Len(z.calls))
    <3>1. e = Len(z.stack)
      BY <2>3 DEF NextDepth
    <3>2. d \in Nat /\ d <= Len(z.stack)
      BY Depths
    <3> QED BY <2>1, <3>1, <3>2
  <2> QED BY <2>2, <2>3
<1>2. OwnStack(z, i) = SubSeq(s, d + 1, e)
  BY DEF OwnStack
<1> HIDE DEF d, e, s
<1>3. SubSeq(s, d + 1, e) = [k \in 1..(e - d) |-> s[k + d]]
  <2>1. SubSeq(s, d + 1, e) = [k \in 1..(e - (d + 1) + 1) |-> s[k + (d + 1) - 1]]
    BY <1>1
  <2> QED BY <1>1, <2>1
<1>4. SubSeq(s, d + 1, e) \in Seq(Int) /\ Len(SubSeq(s, d + 1, e)) = e - d
  BY <1>1
<1> QED BY <1>1, <1>2, <1>3, <1>4 DEF d, e, s

LEMMA FramesAreRecords ==
    ASSUME NEW z, Sound(z)
    PROVE  /\ Frames(z) \in Seq(FrameRecords) /\ Len(Frames(z)) = Len(z.calls)
           /\ \A i \in 1..Len(z.calls) : Frames(z)[i] \in FrameRecords
<1>1. ASSUME NEW i \in 1..Len(z.calls) PROVE Frames(z)[i] \in FrameRecords
  <2>1. z.calls[i] \in CallFrames /\ OwnStack(z, i) \in Seq(Int)
    BY Depths, OwnStackOf
  <2>3. /\ z.calls[i].returnAddr \in Int /\ z.calls[i].returnStore \in Int
        /\ z.calls[i].setArguments \in Int /\ z.calls[i].locals \in Seq(Int)
    <3>1. 0..127 \subseteq Int /\ Nat \subseteq Int
      OBVIOUS
    <3> QED BY <2>1, <3>1, FrameParts, Zenon
  <2>4. [back |-> z.calls[i].returnAddr, store |-> z.calls[i].returnStore,
         args |-> z.calls[i].setArguments, locals |-> z.calls[i].locals,
         stack |-> OwnStack(z, i)] \in FrameRecords
    BY <2>1, <2>3 DEF FrameRecords
  <2> QED BY <2>4, FramesOf
<1>2. Len(z.calls) \in Nat
  BY SoundParts
<1>3. Frames(z) = [i \in 1..Len(z.calls) |-> Frames(z)[i]]
  BY FramesOf
<1> DEFINE f(i) == Frames(z)[i]
<1> HIDE DEF f
<1>4. [i \in 1..Len(z.calls) |-> f(i)] \in Seq(FrameRecords)
      /\ Len([i \in 1..Len(z.calls) |-> f(i)]) = Len(z.calls)
  BY <1>1, <1>2 DEF f
<1> QED BY <1>1, <1>3, <1>4 DEF f

\* Callers' frames do not see what the running call does.
LEMMA WorksKeepsFrames ==
    ASSUME NEW z, Sound(z), NEW w, Sound(w), Works(z, w)
    PROVE  /\ Len(Frames(w)) = Len(Frames(z)) /\ Len(Frames(z)) = Len(z.calls)
           /\ \A i \in 1..(Len(z.calls) - 1) : Frames(w)[i] = Frames(z)[i]
           /\ SubSeq(Frames(w), 1, Len(z.calls) - 1) =
                 SubSeq(Frames(z), 1, Len(z.calls) - 1)
           /\ Each!Given(Frames(w)[Len(z.calls)]) = Each!Given(Frames(z)[Len(z.calls)])
<1> DEFINE n == Len(z.calls)
<1>1. n \in Nat \ {0} /\ Len(w.calls) = n
  BY SoundParts DEF Works
<1>2. ASSUME NEW i \in 1..(n - 1) PROVE Frames(w)[i] = Frames(z)[i]
  <2>1. i \in 1..n /\ i + 1 \in 1..n /\ n \in (i + 1)..n /\ i < n
    BY <1>1
  <2>2. w.calls[i] = z.calls[i]
    BY DEF Works
  <2>3. w.calls[i + 1].depth = z.calls[i + 1].depth
    <3>1. CASE i + 1 = n
      BY <1>1, <3>1 DEF Works, Top
    <3>2. CASE i + 1 # n
      <4>1. i + 1 \in 1..(n - 1)
        BY <1>1, <2>1, <3>2
      <4> QED BY <4>1 DEF Works
    <3> QED BY <3>1, <3>2
  <2>4. NextDepth(z, i) = z.calls[i + 1].depth /\ NextDepth(w, i) = z.calls[i + 1].depth
    BY <1>1, <2>1, <2>3 DEF NextDepth
  <2>5. z.calls[i + 1].depth \in Nat /\ z.calls[i].depth \in Nat
        /\ z.calls[i + 1].depth <= Top(z.calls).depth /\ Top(z.calls).depth \in Nat
    BY <2>1, Depths DEF Top
  <2> DEFINE d == z.calls[i].depth
             e == z.calls[i + 1].depth
  <2>6. OwnStack(z, i) = [k \in 1..(e - d) |-> z.stack[k + d]]
    <3>1. OwnStack(z, i) = [k \in 1..(NextDepth(z, i) - d) |-> z.stack[k + d]]
      BY <2>1, OwnStackOf
    <3> QED BY <2>4, <3>1
  <2>7. OwnStack(w, i) = [k \in 1..(e - d) |-> w.stack[k + d]]
    <3>1. i \in 1..Len(w.calls)
      BY <1>1, <2>1
    <3>2. OwnStack(w, i) = [k \in 1..(NextDepth(w, i) - w.calls[i].depth) |->
                               w.stack[k + w.calls[i].depth]]
      BY <3>1, OwnStackOf
    <3> QED BY <2>2, <2>4, <3>2
  <2>8. ASSUME NEW k \in 1..(e - d) PROVE w.stack[k + d] = z.stack[k + d]
    <3>1. k + d \in 1..Top(z.calls).depth
      BY <2>5
    <3> QED BY <3>1 DEF Works
  <2> HIDE DEF d, e
  <2>9. OwnStack(w, i) = OwnStack(z, i)
    BY <2>6, <2>7, <2>8
  <2>10. Frames(z)[i] = [back |-> z.calls[i].returnAddr, store |-> z.calls[i].returnStore,
                        args |-> z.calls[i].setArguments, locals |-> z.calls[i].locals,
                        stack |-> OwnStack(z, i)]
    BY <2>1, FramesOf
  <2>11. i \in 1..Len(w.calls)
    BY <1>1, <2>1
  <2>12. Frames(w)[i] = [back |-> w.calls[i].returnAddr, store |-> w.calls[i].returnStore,
                        args |-> w.calls[i].setArguments, locals |-> w.calls[i].locals,
                        stack |-> OwnStack(w, i)]
    BY <2>11, FramesOf
  <2> QED BY <2>2, <2>9, <2>10, <2>12
<1>3. Len(Frames(w)) = n /\ Len(Frames(z)) = n
  BY <1>1, FramesAreRecords
<1>4. SubSeq(Frames(w), 1, n - 1) = SubSeq(Frames(z), 1, n - 1)
  <2>1. Frames(w) \in Seq(FrameRecords) /\ Frames(z) \in Seq(FrameRecords)
    BY FramesAreRecords
  <2> DEFINE f == Frames(w)
             g == Frames(z)
  <2> HIDE DEF f, g
  <2>2. SubSeq(f, 1, n - 1) = [i \in 1..(n - 1) |-> f[i]]
    BY <1>1, <1>3, <2>1 DEF f
  <2>3. SubSeq(g, 1, n - 1) = [i \in 1..(n - 1) |-> g[i]]
    BY <1>1, <1>3, <2>1 DEF g
  <2>4. \A i \in 1..(n - 1) : f[i] = g[i]
    BY <1>2 DEF f, g
  <2> QED BY <2>2, <2>3, <2>4 DEF f, g
<1>5. Each!Given(Frames(w)[n]) = Each!Given(Frames(z)[n])
  <2>1. n \in 1..Len(z.calls) /\ n \in 1..Len(w.calls)
    BY <1>1
  <2>2. /\ Frames(w)[n].back = w.calls[n].returnAddr
        /\ Frames(w)[n].store = w.calls[n].returnStore
        /\ Frames(w)[n].args = w.calls[n].setArguments
        /\ Frames(w)[n].locals = w.calls[n].locals
    BY <2>1, FramesOf
  <2>3. /\ Frames(z)[n].back = z.calls[n].returnAddr
        /\ Frames(z)[n].store = z.calls[n].returnStore
        /\ Frames(z)[n].args = z.calls[n].setArguments
        /\ Frames(z)[n].locals = z.calls[n].locals
    BY <2>1, FramesOf
  <2>4. /\ w.calls[n].returnAddr = z.calls[n].returnAddr
        /\ w.calls[n].returnStore = z.calls[n].returnStore
        /\ w.calls[n].setArguments = z.calls[n].setArguments
        /\ Len(w.calls[n].locals) = Len(z.calls[n].locals)
    BY <1>1 DEF Works, Top
  <2> QED BY <2>2, <2>3, <2>4 DEF Each!Given
<1> QED BY <1>2, <1>3, <1>4, <1>5

LEMMA WorksReflexive == ASSUME NEW z PROVE Works(z, z)
BY DEF Works

LEMMA WorksTransitive ==
    ASSUME NEW x, NEW y, NEW z, Works(x, y), Works(y, z)
    PROVE  Works(x, z)
BY DEF Works

\* Only the stack changes, above what is the callers'.
LEMMA StackWorks ==
    ASSUME NEW z, Sound(z), NEW w, w.calls = z.calls,
           \A k \in 1..Top(z.calls).depth : w.stack[k] = z.stack[k]
    PROVE  Works(z, w)
BY DEF Works

LEMMA CutWorks ==
    ASSUME NEW z, Sound(z), NEW n \in Nat, n <= OwnOf(z)
    PROVE  Works(z, [z EXCEPT !.stack = Cut(@, Len(@) - n)])
<1> DEFINE s == Cut(z.stack, Len(z.stack) - n)
           w == [z EXCEPT !.stack = s]
<1>1. z.stack \in Seq(Int) /\ Len(z.stack) \in Nat /\ Top(z.calls).depth \in Nat
      /\ Top(z.calls).depth <= Len(z.stack) - n
  BY SoundParts DEF OwnOf
<1>2. s \in Seq(Int) /\ \A k \in 1..Top(z.calls).depth : s[k] = z.stack[k]
  BY <1>1 DEF Cut
<1> HIDE DEF s
<1>3. w.calls = z.calls /\ w.stack = s
  BY <1>2, WithStack, SoundParts
<1> HIDE DEF w
<1>4. Works(z, w)
  BY <1>2, <1>3, StackWorks
<1> QED BY <1>4 DEF w, s

LEMMA PushWorks ==
    ASSUME NEW z, Sound(z), NEW v \in Int
    PROVE  Works(z, Push(z, v))
<1> DEFINE s == Append(z.stack, v)
           w == [z EXCEPT !.stack = s]
<1>1. z.stack \in Seq(Int) /\ Len(z.stack) \in Nat /\ Top(z.calls).depth \in Nat
      /\ Top(z.calls).depth <= Len(z.stack)
  BY SoundParts DEF OwnOf
<1>2. s \in Seq(Int) /\ \A k \in 1..Top(z.calls).depth : s[k] = z.stack[k]
  BY <1>1
<1> HIDE DEF s
<1>3. w.calls = z.calls /\ w.stack = s
  BY <1>2, WithStack, SoundParts
<1> HIDE DEF w
<1>4. Works(z, w)
  BY <1>2, <1>3, StackWorks
<1> QED BY <1>4 DEF w, s, Push

LEMMA SetVariableWorks ==
    ASSUME NEW z, Sound(z), NEW var \in Int, NEW value \in Int
    PROVE  Works(z, setVariable(z, var, value))
<1>1. CASE var = 0
  <2>1. setVariable(z, var, value) = Push(z, S16(value))
    BY <1>1 DEF setVariable
  <2>2. S16(value) \in Int
    BY Integers16
  <2> QED BY <2>1, <2>2, PushWorks
<1>2. CASE var \in 1..15
  <2> DEFINE n == Len(z.calls)
             f == z.calls[n]
             l == [f.locals EXCEPT ![var] = S16(value)]
             g == [f EXCEPT !.locals = l]
             c == [z.calls EXCEPT ![n] = g]
             w == [z EXCEPT !.calls = c]
  <2>1. f \in CallFrames /\ n \in Nat \ {0} /\ S16(value) \in Int
    BY SoundParts, Integers16 DEF Top
  <2>2. f.locals \in Seq(Int) /\ Len(f.locals) <= 15
    BY <2>1 DEF CallFrames, LocalVariables
  <2>3. l \in LocalVariables /\ Len(l) = Len(f.locals)
    BY <1>2, <2>1, <2>2, ReplaceElement DEF LocalVariables
  <2> HIDE DEF l
  <2>4. /\ g \in CallFrames /\ g.depth = f.depth /\ g.returnAddr = f.returnAddr
        /\ g.returnStore = f.returnStore /\ g.setArguments = f.setArguments
        /\ g.locals = l
    BY <2>1, <2>3 DEF CallFrames
  <2> HIDE DEF g, f
  <2>5. c \in Seq(CallFrames) /\ Len(c) = n /\ c[n] = g
        /\ \A i \in 1..(n - 1) : c[i] = z.calls[i]
    BY <2>1, <2>4, SoundParts
  <2> HIDE DEF c
  <2>6. w.calls = c /\ w.stack = z.stack
    BY <2>5, WithCalls, SoundParts
  <2> HIDE DEF w
  <2>7. Works(z, w)
    BY <2>3, <2>4, <2>5, <2>6 DEF Works, Top, f
  <2>8. w = setVariable(z, var, value)
    BY <1>2 DEF setVariable, w, c, g, f, l
  <2> QED BY <2>7, <2>8
<1>3. CASE var # 0 /\ var \notin 1..15
  <2> DEFINE d == [z.dynamic EXCEPT ![GlobalAddress(var)] = Msb(value),
                                    ![GlobalAddress(var) + 1] = Lsb(value)]
             w == [z EXCEPT !.dynamic = d]
  <2>1. d \in [Dynamic -> Byte]
    BY SoundParts, Integers16
  <2> HIDE DEF d
  <2>2. w.calls = z.calls /\ w.stack = z.stack
    BY <2>1, WithDynamic, SoundParts
  <2> HIDE DEF w
  <2>3. Works(z, w)
    BY <2>2, StackWorks
  <2>4. w = setVariable(z, var, value)
    BY <1>3 DEF setVariable, w, d
  <2> QED BY <2>3, <2>4
<1> QED BY <1>1, <1>2, <1>3

\* The running call's frame is the only one that becomes another.
LEMMA TopFrameChanges ==
    ASSUME NEW z, Sound(z), NEW w, Sound(w), Works(z, w)
    PROVE  Frames(w) = [Frames(z) EXCEPT ![Len(z.calls)] = Frames(w)[Len(z.calls)]]
<1> DEFINE n == Len(z.calls)
           f == Frames(z)
           g == Frames(w)
<1>1. Len(w.calls) = n /\ n \in Nat \ {0}
  BY SoundParts DEF Works
<1>2. f = [i \in 1..n |-> f[i]]
  BY FramesOf
<1>3. g = [i \in 1..n |-> g[i]]
  <2>1. g = [i \in 1..Len(w.calls) |-> g[i]]
    BY FramesOf
  <2> QED BY <1>1, <2>1
<1>4. \A i \in 1..(n - 1) : g[i] = f[i]
  BY WorksKeepsFrames
<1> HIDE DEF n, f, g
<1>5. \A i \in 1..n : i # n => i \in 1..(n - 1)
  BY <1>1
<1>6. [f EXCEPT ![n] = g[n]] = [i \in 1..n |-> g[i]]
  BY <1>1, <1>2, <1>4, <1>5
<1> QED BY <1>3, <1>6 DEF n, f, g

\* What the running call has on its stack.
LEMMA TopStack ==
    ASSUME NEW z, Sound(z)
    PROVE  OwnStack(z, Len(z.calls)) =
               [k \in 1..OwnOf(z) |-> z.stack[k + Top(z.calls).depth]]
<1>1. Len(z.calls) \in 1..Len(z.calls)
  BY SoundParts
<1>2. NextDepth(z, Len(z.calls)) = Len(z.stack)
  BY SoundParts DEF NextDepth
<1>3. OwnStack(z, Len(z.calls)) =
          [k \in 1..(NextDepth(z, Len(z.calls)) - z.calls[Len(z.calls)].depth) |->
              z.stack[k + z.calls[Len(z.calls)].depth]]
  BY <1>1, OwnStackOf
<1> QED BY <1>2, <1>3 DEF OwnOf, Top

\* What is put into a variable of the running call is delivered to its frame.
LEMMA SetDelivers ==
    ASSUME NEW z, Sound(z), NEW var \in Int, NEW value \in Int
    PROVE  Frames(setVariable(z, var, value)) = Each!Deliver(Frames(z), var, S16(value))
<1> DEFINE w == setVariable(z, var, value)
           n == Len(z.calls)
           f == Frames(z)
           v == S16(value)
<1>1. Sound(w) /\ Works(z, w) /\ v \in Int
  BY SetVariableSound, SetVariableWorks, Integers16
<1>2. n \in Nat \ {0} /\ Len(w.calls) = n /\ n \in 1..Len(z.calls)
      /\ n \in 1..Len(w.calls)
  BY <1>1, SoundParts DEF Works
<1>3. Len(f) = n /\ f \in Seq(FrameRecords) /\ f[n] \in FrameRecords
  BY <1>2, FramesAreRecords
<1>4. Frames(w) = [f EXCEPT ![n] = Frames(w)[n]]
  BY <1>1, TopFrameChanges
<1>5. f[n] = [back |-> z.calls[n].returnAddr, store |-> z.calls[n].returnStore,
              args |-> z.calls[n].setArguments, locals |-> z.calls[n].locals,
              stack |-> OwnStack(z, n)]
  BY <1>2, FramesOf
<1>6. Frames(w)[n] = [back |-> w.calls[n].returnAddr, store |-> w.calls[n].returnStore,
                      args |-> w.calls[n].setArguments, locals |-> w.calls[n].locals,
                      stack |-> OwnStack(w, n)]
  BY <1>1, <1>2, FramesOf
<1>7. CASE var = 0
  <2>1. w = Push(z, v)
    BY <1>7 DEF setVariable
  <2>2. w.calls = z.calls /\ w.stack = Append(z.stack, v)
    <3>1. Append(z.stack, v) \in Seq(Int)
      BY <1>1, SoundParts
    <3> QED BY <2>1, <3>1, WithStack, SoundParts DEF Push
  <2> DEFINE d == Top(z.calls).depth
             s == z.stack
  <2>3. /\ OwnStack(z, n) = [k \in 1..(Len(s) - d) |-> s[k + d]]
        /\ d \in Nat /\ Len(s) \in Nat /\ Len(s) - d \in Nat /\ s \in Seq(Int)
    BY TopStack, SoundParts DEF OwnOf
  <2>4. OwnStack(w, n) = [k \in 1..(Len(Append(s, v)) - d) |-> Append(s, v)[k + d]]
    <3>1. OwnStack(w, n) = [k \in 1..OwnOf(w) |-> w.stack[k + Top(w.calls).depth]]
      BY <1>1, <1>2, TopStack
    <3> QED BY <2>2, <3>1 DEF OwnOf
  <2> HIDE DEF d, s, w
  <2>5. OwnStack(w, n) = Append(OwnStack(z, n), v)
    <3> DEFINE a == [k \in 1..(Len(s) - d) |-> s[k + d]]
               b == [k \in 1..(Len(Append(s, v)) - d) |-> Append(s, v)[k + d]]
    <3>1. Len(Append(s, v)) = Len(s) + 1 /\ \A k \in 1..Len(s) : Append(s, v)[k] = s[k]
      BY <1>1, <2>3
    <3>2. Append(s, v)[Len(s) + 1] = v
      BY <1>1, <2>3
    <3>3. a \in Seq(Int) /\ Len(a) = Len(s) - d
      BY <2>3
    <3>4. Append(a, v) = [k \in 1..(Len(s) - d + 1) |->
                             IF k = Len(s) - d + 1 THEN v ELSE a[k]]
      BY <1>1, <2>3, <3>3
    <3>5. \A k \in 1..(Len(s) - d + 1) : 
             Append(s, v)[k + d] = IF k = Len(s) - d + 1 THEN v ELSE s[k + d]
      <4> SUFFICES ASSUME NEW k \in 1..(Len(s) - d + 1)
                   PROVE  Append(s, v)[k + d]
                              = IF k = Len(s) - d + 1 THEN v ELSE s[k + d]
        OBVIOUS
      <4>1. CASE k = Len(s) - d + 1
        <5>1. k + d = Len(s) + 1
          BY <2>3, <4>1
        <5> QED BY <3>2, <4>1, <5>1
      <4>2. CASE k # Len(s) - d + 1
        <5>1. k + d \in 1..Len(s)
          BY <2>3, <4>2
        <5> QED BY <3>1, <4>2, <5>1
      <4> QED BY <4>1, <4>2
    <3>6. b = Append(a, v)
      BY <2>3, <3>1, <3>4, <3>5
    <3> QED BY <2>3, <2>4, <3>6
  <2>6. Frames(w)[n] = [f[n] EXCEPT !.stack = Append(@, v)]
    <3> DEFINE r == f[n]
               o == OwnStack(z, n)
               q == OwnStack(w, n)
    <3>1. r = [back |-> z.calls[n].returnAddr, store |-> z.calls[n].returnStore,
               args |-> z.calls[n].setArguments, locals |-> z.calls[n].locals,
               stack |-> o]
      BY <1>5
    <3>2. Frames(w)[n] = [back |-> z.calls[n].returnAddr,
               store |-> z.calls[n].returnStore, args |-> z.calls[n].setArguments,
               locals |-> z.calls[n].locals, stack |-> q]
      BY <1>6, <2>2
    <3>3. q = Append(o, v)
      BY <2>5
    <3> HIDE DEF r, o, q, n, v
    <3>4. r.stack = o /\ Frames(w)[n] = [r EXCEPT !.stack = q]
      BY <3>1, <3>2
    <3>5. q = Append(r.stack, v)
      BY <3>3, <3>4
    <3>6. Frames(w)[n] = [r EXCEPT !.stack = Append(@, v)]
      BY <3>4, <3>5, Zenon
    <3> QED BY <3>6 DEF r
  <2>7. Each!Deliver(f, var, v) = [f EXCEPT ![Len(f)].stack = Append(@, v)]
    BY <1>7 DEF Each!Deliver
  <2> HIDE DEF n, f, v
  <2>8. [f EXCEPT ![n].stack = Append(@, v)]
            = [f EXCEPT ![n] = [f[n] EXCEPT !.stack = Append(@, v)]]
    BY <1>3
  <2> QED BY <1>3, <1>4, <2>6, <2>7, <2>8 DEF w, n, f, v
<1>8. CASE var \in 1..15
  <2> DEFINE l == [z.calls[n].locals EXCEPT ![var] = v]
             g == [z.calls[n] EXCEPT !.locals = l]
             c == [z.calls EXCEPT ![n] = g]
  <2>1. w = [z EXCEPT !.calls = c]
    BY <1>8 DEF setVariable
  <2>2. z.calls[n] \in CallFrames /\ z.calls \in Seq(CallFrames)
    BY <1>2, Depths, SoundParts
  <2>3. l \in LocalVariables
    <3>1. z.calls[n].locals \in Seq(Int) /\ Len(z.calls[n].locals) <= 15
      BY <2>2 DEF CallFrames, LocalVariables
    <3> QED BY <1>1, <1>8, <3>1, ReplaceElement DEF LocalVariables
  <2> HIDE DEF l
  <2>4. /\ g \in CallFrames /\ g.depth = z.calls[n].depth /\ g.locals = l
        /\ g.returnAddr = z.calls[n].returnAddr
        /\ g.returnStore = z.calls[n].returnStore
        /\ g.setArguments = z.calls[n].setArguments
    BY <2>2, <2>3 DEF CallFrames
  <2> HIDE DEF g
  <2>5. c \in Seq(CallFrames) /\ c[n] = g
    BY <1>2, <2>2, <2>4
  <2> HIDE DEF c
  <2>6. w.calls = c /\ w.stack = z.stack
    BY <2>1, <2>5, WithCalls, SoundParts
  <2>7. OwnStack(w, n) = OwnStack(z, n)
    <3>1. OwnStack(w, n) = [k \in 1..OwnOf(w) |-> w.stack[k + Top(w.calls).depth]]
      BY <1>1, <1>2, TopStack
    <3>2. OwnStack(z, n) = [k \in 1..OwnOf(z) |-> z.stack[k + Top(z.calls).depth]]
      BY TopStack
    <3>3. Top(w.calls).depth = Top(z.calls).depth
      BY <1>1 DEF Works
    <3> HIDE DEF w, n
    <3> QED BY <2>6, <3>1, <3>2, <3>3 DEF OwnOf
  <2> HIDE DEF w
  <2>8. Frames(w)[n] = [f[n] EXCEPT !.locals[var] = v]
    BY <1>5, <1>6, <2>4, <2>5, <2>6, <2>7 DEF l
  <2>9. Each!Deliver(f, var, v) = [f EXCEPT ![Len(f)].locals[var] = v]
    BY <1>8 DEF Each!Deliver
  <2> HIDE DEF n, f, v
  <2>10. [f EXCEPT ![n].locals[var] = v]
             = [f EXCEPT ![n] = [f[n] EXCEPT !.locals[var] = v]]
    BY <1>3
  <2> QED BY <1>3, <1>4, <2>8, <2>9, <2>10 DEF w, n, f, v
<1>9. CASE var # 0 /\ var \notin 1..15
  <2> DEFINE dy == [z.dynamic EXCEPT ![GlobalAddress(var)] = Msb(value),
                                     ![GlobalAddress(var) + 1] = Lsb(value)]
  <2>1. w = [z EXCEPT !.dynamic = dy]
    BY <1>9 DEF setVariable
  <2>2. dy \in [Dynamic -> Byte]
    BY SoundParts, Integers16
  <2> HIDE DEF dy
  <2>3. w.calls = z.calls /\ w.stack = z.stack
    BY <2>1, <2>2, WithDynamic, SoundParts
  <2> HIDE DEF w
  <2>4. Frames(w) = f
    BY <2>3 DEF Frames, OwnStack, NextDepth
  <2>5. Each!Deliver(f, var, v) = f
    BY <1>9 DEF Each!Deliver
  <2> QED BY <2>4, <2>5 DEF w
<1> QED BY <1>7, <1>8, <1>9

\* A word is put together from its bytes.
LEMMA WordFromBytes ==
    ASSUME NEW value \in Int
    PROVE  makeS16(Msb(value), Lsb(value)) = S16(value) /\ S16(value) \in Word
<1> DEFINE a == value % 65536
<1>1. a \in 0..65535 /\ value % 256 = a % 256 /\ 256 * (a \div 256) + (a % 256) = a
  OBVIOUS
<1>2. ((a + 32768) % 65536) - 32768 = ((value + 32768) % 65536) - 32768
  OBVIOUS
<1>3. S16(a) = S16(value)
  BY <1>2 DEF S16
<1>4. 256 * Msb(value) + Lsb(value) = a
  BY <1>1 DEF Msb, Lsb
<1> HIDE DEF a
<1>5. makeS16(Msb(value), Lsb(value)) = S16(value)
  BY <1>3, <1>4 DEF makeS16
<1>6. S16(value) \in Word
  BY DEF S16, Word
<1> QED BY <1>5, <1>6

LEMMA GlobalIsSet ==
    ASSUME NEW z, Sound(z), NEW var \in Global, NEW value \in Int
    PROVE  Globals(setVariable(z, var, value))[var] = S16(value)
<1> DEFINE a == GlobalAddress(var)
           d == [z.dynamic EXCEPT ![a] = Msb(value), ![a + 1] = Lsb(value)]
           w == [z EXCEPT !.dynamic = d]
<1>1. var \in 16..255 /\ a \in Dynamic /\ a + 1 \in Dynamic
  BY MemoryAssumption
<1>2. Dynamic \subseteq Int
  BY MemoryAssumption, FS_CardinalityType
<1>3. z.dynamic \in [Dynamic -> Byte] /\ z \in Machines
  BY SoundParts
<1>4. setVariable(z, var, value) = w
  <2>1. var # 0 /\ var \notin 1..15
    BY <1>1
  <2> QED BY <2>1 DEF setVariable
<1> HIDE DEF a
<1>5. d[a] = Msb(value) /\ d[a + 1] = Lsb(value)
  BY <1>1, <1>2, <1>3
<1> HIDE DEF d
<1>6. w.dynamic = d
  BY <1>3 DEF Machines
<1> HIDE DEF w
<1>7. Globals(w)[var] = makeS16(d[a], d[a + 1])
  BY <1>6 DEF Globals, GlobalValue, a
<1> QED BY <1>4, <1>5, <1>7, WordFromBytes

\* The calls from the first to number m, with the stack as it is.
LEMMA FewerFrames ==
    ASSUME NEW z, Sound(z), NEW w, Sound(w), NEW m \in 1..Len(z.calls),
           w.calls = Cut(z.calls, m), NEW e \in Nat, e <= Len(z.stack),
           w.stack = Cut(z.stack, e)
    PROVE  /\ Len(w.calls) = m /\ w.calls[m] = z.calls[m]
           /\ \A i \in 1..(m - 1) : Frames(w)[i] = Frames(z)[i]
           /\ e = NextDepth(z, m) => Frames(w) = SubSeq(Frames(z), 1, m)
<1>1. /\ Len(w.calls) = m /\ m \in Nat \ {0} /\ Len(z.calls) \in Nat
      /\ \A i \in 1..m : w.calls[i] = z.calls[i]
  BY SoundParts DEF Cut
<1>2. Len(w.stack) = e /\ \A k \in 1..e : w.stack[k] = z.stack[k]
  BY SoundParts DEF Cut
<1>3. ASSUME NEW i \in 1..m, i < m \/ e = NextDepth(z, m)
      PROVE  Frames(w)[i] = Frames(z)[i]
  <2>1. i \in 1..Len(z.calls) /\ i \in 1..Len(w.calls) /\ w.calls[i] = z.calls[i]
    BY <1>1
  <2> DEFINE d == z.calls[i].depth
             f == NextDepth(z, i)
  <2>2. d \in Nat /\ f \in d..Len(z.stack) /\ f \in Int
    BY <2>1, OwnStackOf
  <2>3. f <= e
    <3>1. CASE i < m
      <4>1. i + 1 \in 1..Len(w.calls) /\ i < Len(z.calls)
        BY <1>1, <3>1
      <4>2. w.calls[i + 1].depth <= Len(w.stack)
        BY <4>1, Depths
      <4>3. w.calls[i + 1] = z.calls[i + 1]
        BY <1>1, <4>1
      <4>4. f = z.calls[i + 1].depth
        BY <4>1 DEF NextDepth
      <4> QED BY <1>2, <4>2, <4>3, <4>4
    <3>2. CASE i = m
      BY <1>3, <3>2
    <3> QED BY <1>1, <3>1, <3>2
  <2>4. NextDepth(w, i) = f
    <3>1. CASE i < m
      <4>1. i + 1 \in 1..m /\ i < Len(z.calls) /\ i < Len(w.calls)
        BY <1>1, <3>1
      <4> QED BY <1>1, <4>1 DEF NextDepth
    <3>2. CASE i = m
      BY <1>1, <1>2, <1>3, <3>2 DEF NextDepth
    <3> QED BY <1>1, <3>1, <3>2
  <2>5. OwnStack(z, i) = [k \in 1..(f - d) |-> z.stack[k + d]]
    BY <2>1, OwnStackOf
  <2>6. OwnStack(w, i) = [k \in 1..(f - d) |-> w.stack[k + d]]
    <3>1. OwnStack(w, i) = [k \in 1..(NextDepth(w, i) - w.calls[i].depth) |->
                               w.stack[k + w.calls[i].depth]]
      BY <2>1, OwnStackOf
    <3> QED BY <2>1, <2>4, <3>1
  <2> HIDE DEF d, f
  <2>7. \A k \in 1..(f - d) : w.stack[k + d] = z.stack[k + d]
    BY <1>2, <2>2, <2>3
  <2>8. OwnStack(w, i) = OwnStack(z, i)
    BY <2>5, <2>6, <2>7
  <2>9. Frames(z)[i] = [back |-> z.calls[i].returnAddr, store |-> z.calls[i].returnStore,
                        args |-> z.calls[i].setArguments, locals |-> z.calls[i].locals,
                        stack |-> OwnStack(z, i)]
    BY <2>1, FramesOf
  <2>10. Frames(w)[i] = [back |-> w.calls[i].returnAddr, store |-> w.calls[i].returnStore,
                        args |-> w.calls[i].setArguments, locals |-> w.calls[i].locals,
                        stack |-> OwnStack(w, i)]
    BY <2>1, FramesOf
  <2> QED BY <2>1, <2>8, <2>9, <2>10
<1>4. \A i \in 1..(m - 1) : Frames(w)[i] = Frames(z)[i]
  <2> SUFFICES ASSUME NEW i \in 1..(m - 1) PROVE Frames(w)[i] = Frames(z)[i]
    OBVIOUS
  <2>1. i \in 1..m /\ i < m
    BY <1>1
  <2> QED BY <1>3, <2>1
<1>5. ASSUME e = NextDepth(z, m) PROVE Frames(w) = SubSeq(Frames(z), 1, m)
  <2> DEFINE f == Frames(z)
             g == Frames(w)
  <2>1. f \in Seq(FrameRecords) /\ Len(f) = Len(z.calls)
    BY FramesAreRecords
  <2>2. g = [i \in 1..m |-> g[i]]
    <3>1. g = [i \in 1..Len(w.calls) |-> g[i]]
      BY FramesOf
    <3> QED BY <1>1, <3>1
  <2>3. \A i \in 1..m : g[i] = f[i]
    BY <1>3, <1>5
  <2> HIDE DEF f, g
  <2>4. SubSeq(f, 1, m) = [i \in 1..m |-> f[i]]
    BY <1>1, <2>1
  <2> QED BY <2>2, <2>3, <2>4 DEF f, g
<1> QED BY <1>1, <1>4, <1>5

\* Where the game goes on is nothing that a frame has.
LEMMA PCOnly ==
    ASSUME NEW z, Sound(z), NEW pc \in Nat
    PROVE  LET w == [z EXCEPT !.pc = pc] IN
           /\ w.pc = pc /\ w.calls = z.calls /\ w.stack = z.stack
           /\ w.dynamic = z.dynamic
           /\ Frames(w) = Frames(z) /\ Globals(w) = Globals(z)
<1> DEFINE w == [z EXCEPT !.pc = pc]
<1>1. w.pc = pc /\ w.calls = z.calls /\ w.stack = z.stack /\ w.dynamic = z.dynamic
  BY SoundParts DEF Machines
<1> HIDE DEF w
<1>2. Frames(w) = Frames(z) /\ Globals(w) = Globals(z)
  BY <1>1 DEF Frames, OwnStack, NextDepth, Globals
<1> QED BY <1>1, <1>2 DEF w

\* A return delivers its value to the caller, whose frame is as it was.
LEMMA ReturnDelivers ==
    ASSUME NEW z, Sound(z), Len(z.calls) > 1, NEW value \in Int,
           Top(z.calls).returnStore \in Stores
    PROVE  LET w == returnRoutine(z, value)
               cs == Top(z.calls)
           IN /\ Frames(w) = Each!Deliver(SubSeq(Frames(z), 1, Len(z.calls) - 1),
                                          cs.returnStore, S16(value))
              /\ w.pc = cs.returnAddr
              /\ cs.returnStore > 15 => Globals(w)[cs.returnStore] = S16(value)
              /\ Len(w.calls) = Len(z.calls) - 1
              /\ \A i \in 1..Len(w.calls) :
                    w.calls[i].returnStore = z.calls[i].returnStore
<1> DEFINE n == Len(z.calls) - 1
           cs == Top(z.calls)
           s == StackCut(z.stack, cs)
           caller == [z EXCEPT !.calls = Cut(@, n), !.stack = s]
           given == IF cs.returnStore # NoStore
                    THEN setVariable(caller, cs.returnStore, value) ELSE caller
           w == returnRoutine(z, value)
           store == cs.returnStore
<1>1. n \in 1..Len(z.calls) /\ cs.depth \in Nat /\ store \in Int
      /\ cs.returnAddr \in Nat /\ n \in Nat \ {0} /\ Len(z.calls) \in Nat
  <2>1. Len(z.calls) \in Nat
    BY SoundParts
  <2>2. n \in 1..Len(z.calls) /\ n \in Nat \ {0}
    <3> DEFINE m == Len(z.calls)
    <3>1. m \in Nat /\ m > 1
      BY <2>1
    <3> HIDE DEF m
    <3>2. m - 1 \in 1..m /\ m - 1 \in Nat \ {0}
      BY <3>1
    <3> QED BY <3>2 DEF m
  <2>3. cs \in CallFrames
    BY SoundParts
  <2> HIDE DEF cs
  <2> QED BY <2>1, <2>2, <2>3, FrameParts
<1>2. cs.depth <= Len(z.stack) /\ Len(z.stack) \in Nat /\ z.stack \in Seq(Int)
  BY SoundParts DEF OwnOf
<1>3. s = Cut(z.stack, cs.depth) /\ s \in Seq(Int) /\ Len(s) = cs.depth
  <2>1. s = Cut(z.stack, cs.depth)
    <3>1. CASE cs.depth < Len(z.stack)
      BY <3>1 DEF StackCut
    <3>2. CASE cs.depth = Len(z.stack)
      <4>1. Cut(z.stack, Len(z.stack)) = z.stack
        BY <1>2 DEF Cut
      <4> QED BY <3>2, <4>1 DEF StackCut
    <3> QED BY <1>1, <1>2, <3>1, <3>2
  <2>2. Cut(z.stack, cs.depth) \in Seq(Int) /\ Len(Cut(z.stack, cs.depth)) = cs.depth
    <3> HIDE DEF cs
    <3> QED BY <1>1, <1>2 DEF Cut
  <2> QED BY <2>1, <2>2
<1>4. z.calls[n].depth <= cs.depth
  <2>1. n \in 1..Len(z.calls) /\ Len(z.calls) \in n..Len(z.calls)
    BY SoundParts
  <2> QED BY <2>1, Depths DEF Top
<1> HIDE DEF s
<1>5. Sound(caller)
  BY <1>1, <1>3, <1>4, FewerCalls
<1>6. caller.calls = Cut(z.calls, n) /\ caller.stack = Cut(z.stack, cs.depth)
  BY <1>3, SoundParts DEF Machines
<1>7. w = [given EXCEPT !.pc = cs.returnAddr]
  BY Zenon DEF returnRoutine, s
<1> HIDE DEF caller, w
<1>8. cs.depth = NextDepth(z, n)
  BY <1>1 DEF NextDepth, Top
<1>9. Len(caller.calls) = n /\ Frames(caller) = SubSeq(Frames(z), 1, n)
  <2> DEFINE e == cs.depth
  <2>1. e \in Nat /\ e <= Len(z.stack) /\ e = NextDepth(z, n)
        /\ caller.stack = Cut(z.stack, e)
    BY <1>1, <1>2, <1>6, <1>8
  <2> HIDE DEF e, n
  <2> QED BY <1>1, <1>5, <1>6, <2>1, FewerFrames
<1>10. \A i \in 1..n : caller.calls[i] = z.calls[i]
  BY <1>1, <1>6, SoundParts DEF Cut
<1>11. /\ Sound(given)
       /\ Frames(given) = Each!Deliver(Frames(caller), store, S16(value))
       /\ store > 15 => Globals(given)[store] = S16(value)
       /\ Works(caller, given)
  <2>1. CASE store = NoStore
    <3>1. given = caller
      BY <2>1
    <3>2. Each!Deliver(Frames(caller), store, S16(value)) = Frames(caller)
      BY <2>1 DEF Each!Deliver, NoStore
    <3> QED BY <1>5, <2>1, <3>1, <3>2, WorksReflexive DEF NoStore
  <2>2. CASE store # NoStore
    <3>1. given = setVariable(caller, store, value)
      BY <2>2
    <3>2. Sound(given) /\ Works(caller, given)
      BY <1>1, <1>5, <3>1, SetVariableSound, SetVariableWorks
    <3>3. Frames(given) = Each!Deliver(Frames(caller), store, S16(value))
      BY <1>1, <1>5, <3>1, SetDelivers
    <3>4. ASSUME store > 15 PROVE Globals(given)[store] = S16(value)
      <4>1. store \in Global
        <5>1. store \in Stores
          OBVIOUS
        <5> HIDE DEF store
        <5> QED BY <1>1, <3>4, <5>1 DEF Stores, NoStore
      <4> HIDE DEF given, store
      <4> QED BY <1>5, <3>1, <4>1, GlobalIsSet
    <3> QED BY <3>2, <3>3, <3>4
  <2> QED BY <2>1, <2>2
<1>12. \A i \in 1..n : given.calls[i].returnStore = z.calls[i].returnStore
  <2> SUFFICES ASSUME NEW i \in 1..n
               PROVE  given.calls[i].returnStore = caller.calls[i].returnStore
    BY <1>10
  <2>1. CASE i = n
    BY <1>9, <1>11, <2>1 DEF Works, Top
  <2>2. CASE i # n
    <3>1. i \in 1..(n - 1)
      BY <1>1, <2>2
    <3> QED BY <1>9, <1>11, <3>1 DEF Works
  <2> QED BY <2>1, <2>2
<1>13. Len(given.calls) = n
  BY <1>9, <1>11 DEF Works
<1> HIDE DEF given, cs
<1>14. w.pc = cs.returnAddr /\ w.calls = given.calls
       /\ Frames(w) = Frames(given) /\ Globals(w) = Globals(given)
  BY <1>1, <1>7, <1>11, PCOnly
<1> HIDE DEF n
<1>15. /\ Frames(w) = Each!Deliver(SubSeq(Frames(z), 1, n), store, S16(value))
       /\ store > 15 => Globals(w)[store] = S16(value)
       /\ Len(w.calls) = n
       /\ \A i \in 1..n : w.calls[i].returnStore = z.calls[i].returnStore
  BY <1>9, <1>11, <1>12, <1>13, <1>14
<1> QED BY <1>14, <1>15 DEF w, cs, n

--------------------------------------------------------------------------------
(***************************************************************************)
(* Work, calls and returns as Routines has them.                           *)
(***************************************************************************)
CallKept ==
    /\ StackInv'
    /\ ResultsStored(Machine) =>
          /\ ResultsStored(Machine)'
          /\ Each!Work \/ Each!Enter \/ Each!Leave

LEMMA BecomesMachine ==
    ASSUME NEW z, Sound(z), Becomes(z)
    PROVE  /\ Machine' = z /\ m_pc' = z.pc /\ StackInv'
           /\ Frames(Machine)' = Frames(z) /\ Globals(Machine)' = Globals(z)
           /\ ResultsStored(z) => ResultsStored(Machine)'
<1>1. Machine' = [pc |-> z.pc, stack |-> z.stack, calls |-> z.calls, dynamic |-> z.dynamic]
  BY DEF Becomes, Machine
<1>2. z = [pc |-> z.pc, stack |-> z.stack, calls |-> z.calls, dynamic |-> z.dynamic]
  BY SoundParts DEF Machines
<1>3. Machine' = z
  BY <1>1, <1>2
<1>4. Frames(Machine)' = Frames(z)
  BY <1>3 DEF Frames, OwnStack, NextDepth
<1>5. Globals(Machine)' = Globals(z)
  BY <1>3 DEF Globals, GlobalValue
<1>6. ResultsStored(z) => ResultsStored(Machine)'
  BY <1>3 DEF ResultsStored
<1>7. m_pc' = z.pc
  BY DEF Becomes
<1>8. StackInv'
  BY <1>3 DEF StackInv
<1> QED BY <1>3, <1>4, <1>5, <1>6, <1>7, <1>8

LEMMA WorksStored ==
    ASSUME NEW z, Sound(z), ResultsStored(z), NEW w, Works(z, w)
    PROVE  ResultsStored(w)
<1> SUFFICES ASSUME NEW i \in 1..Len(w.calls)
             PROVE  w.calls[i].returnStore = z.calls[i].returnStore
                    /\ i \in 1..Len(z.calls)
  BY DEF ResultsStored
<1>1. Len(w.calls) = Len(z.calls) /\ Len(z.calls) \in Nat \ {0}
  BY SoundParts DEF Works
<1>2. CASE i = Len(z.calls)
  BY <1>1, <1>2 DEF Works, Top
<1>3. CASE i # Len(z.calls)
  <2>1. i \in 1..(Len(z.calls) - 1)
    BY <1>1, <1>3
  <2> QED BY <1>1, <2>1 DEF Works
<1> QED BY <1>2, <1>3

\* An instruction of the running call.
LEMMA RunningWorks ==
    ASSUME StackInv, NEW w, Sound(w),
           Works(Machine, w), Becomes(w)
    PROVE  CallKept
<1>0. StackInv'
  BY BecomesMachine
<1> SUFFICES ASSUME ResultsStored(Machine)
             PROVE  ResultsStored(Machine)' /\ (Each!Work \/ Each!Enter \/ Each!Leave)
  BY <1>0 DEF CallKept
<1>1. Frames(Machine)' = Frames(w) /\ ResultsStored(Machine)'
  BY BecomesMachine, WorksStored DEF StackInv
<1> DEFINE n == Len(Machine.calls)
           old == Frames(Machine)
           new == Frames(w)
<1>2. /\ Len(new) = Len(old) /\ Len(old) = n
      /\ SubSeq(new, 1, n - 1) = SubSeq(old, 1, n - 1)
      /\ Each!Given(new[n]) = Each!Given(old[n])
  BY WorksKeepsFrames DEF StackInv
<1>3. Each!Work
  BY <1>1, <1>2 DEF Each!Work
<1> QED BY <1>1, <1>3

\* A return: from the running call, or from call m, to which others had thrown.
LEMMA CallReturns ==
    ASSUME StackInv, NEW y, Sound(y),
           Works(Machine, y), NEW m \in 2..Len(m_callStack),
           NEW u, Sound(u), u.calls = Cut(y.calls, m), u.stack = y.stack,
           NEW value \in Int, Becomes(returnRoutine(u, value))
    PROVE  CallKept
<1> DEFINE z == Machine
           w == returnRoutine(u, value)
           cs == z.calls[m]
           f == Frames(z)
<1>0. StackInv'
  <2>1. Sound(w) /\ Becomes(w)
    <3>1. Len(y.calls) = Len(m_callStack) /\ Len(m_callStack) \in Nat
          /\ y.calls \in Seq(CallFrames)
      BY SoundParts DEF Works, StackInv, Machine
    <3>2. Len(u.calls) = m /\ m > 1
      BY <3>1 DEF Cut
    <3> QED BY <3>2, ReturnSound
  <2> HIDE DEF w
  <2> QED BY <2>1, BecomesMachine
<1> SUFFICES ASSUME ResultsStored(Machine)
             PROVE  ResultsStored(Machine)' /\ (Each!Work \/ Each!Enter \/ Each!Leave)
  BY <1>0 DEF CallKept
<1>1. /\ Sound(z) /\ ResultsStored(z) /\ z.calls = m_callStack /\ Len(z.calls) \in Nat
      /\ m \in 1..Len(z.calls) /\ m \in Nat /\ m > 1 /\ Len(y.calls) = Len(z.calls)
      /\ m \in 1..Len(y.calls)
  <2>1. Sound(z) /\ ResultsStored(z) /\ z.calls = m_callStack
    BY DEF StackInv, Machine
  <2>2. Len(z.calls) \in Nat
    BY <2>1, SoundParts
  <2>3. Len(y.calls) = Len(z.calls)
    BY DEF Works
  <2> QED BY <2>1, <2>2, <2>3
<1> HIDE DEF z
<1>2. /\ y.calls[m].returnAddr = cs.returnAddr /\ y.calls[m].returnStore = cs.returnStore
  <2>1. Works(z, y)
    BY DEF z
  <2>2. CASE m = Len(z.calls)
    BY <1>1, <2>1, <2>2 DEF Works, Top
  <2>3. CASE m # Len(z.calls)
    <3>1. m \in 1..(Len(z.calls) - 1)
      BY <1>1, <2>3
    <3> QED BY <2>1, <3>1 DEF Works
  <2> QED BY <2>2, <2>3
<1>3. /\ Len(u.calls) = m /\ u.calls[m] = y.calls[m]
      /\ \A i \in 1..(m - 1) : Frames(u)[i] = Frames(y)[i]
  <2> HIDE DEF w, f, cs
  <2>1. PICK e \in Nat : e <= Len(y.stack) /\ u.stack = Cut(y.stack, e)
    <3>1. y.stack \in Seq(Int)
      BY SoundParts
    <3>2. Len(y.stack) \in Nat /\ y.stack = Cut(y.stack, Len(y.stack))
      BY <3>1 DEF Cut
    <3> QED BY <3>2
  <2>2. m \in 1..Len(y.calls) /\ u.calls = Cut(y.calls, m)
    BY <1>1
  <2> DEFINE i == m
             H == /\ Sound(y) /\ Sound(u) /\ i \in 1..Len(y.calls)
                  /\ u.calls = Cut(y.calls, i) /\ e \in Nat /\ e <= Len(y.stack)
                  /\ u.stack = Cut(y.stack, e)
  <2>3. H
    BY <2>1, <2>2
  <2> HIDE DEF i
  <2>4. H => /\ Len(u.calls) = i /\ u.calls[i] = y.calls[i]
             /\ \A j \in 1..(i - 1) : Frames(u)[j] = Frames(y)[j]
    BY FewerFrames
  <2> QED BY <2>3, <2>4 DEF i
<1>4. Top(u.calls).returnStore = cs.returnStore /\ Top(u.calls).returnAddr = cs.returnAddr
      /\ cs.returnStore \in Stores
  BY <1>1, <1>2, <1>3 DEF Top, ResultsStored
<1>5. SubSeq(Frames(u), 1, m - 1) = SubSeq(f, 1, m - 1)
  <2> DEFINE g == Frames(u)
  <2>1. f \in Seq(FrameRecords) /\ g \in Seq(FrameRecords)
        /\ Len(f) = Len(z.calls) /\ Len(g) = m
    BY <1>1, <1>3, FramesAreRecords
  <2>2. \A i \in 1..(m - 1) : g[i] = f[i]
    <3> SUFFICES ASSUME NEW i \in 1..(m - 1) PROVE g[i] = f[i]
      OBVIOUS
    <3>1. Frames(y)[i] = f[i]
      <4>1. i \in 1..(Len(z.calls) - 1)
        BY <1>1
      <4>2. Works(z, y)
        BY DEF z
      <4> QED BY <1>1, <4>1, <4>2, WorksKeepsFrames
    <3> QED BY <1>3, <3>1
  <2> HIDE DEF f, g
  <2>3. SubSeq(f, 1, m - 1) = [i \in 1..(m - 1) |-> f[i]]
    BY <1>1, <2>1
  <2>4. SubSeq(g, 1, m - 1) = [i \in 1..(m - 1) |-> g[i]]
    BY <1>1, <2>1
  <2> QED BY <2>2, <2>3, <2>4 DEF g
<1>6. /\ Frames(w) = Each!Deliver(SubSeq(f, 1, m - 1), cs.returnStore, S16(value))
      /\ w.pc = cs.returnAddr
      /\ cs.returnStore > 15 => Globals(w)[cs.returnStore] = S16(value)
      /\ Len(w.calls) = m - 1
      /\ \A i \in 1..(m - 1) : w.calls[i].returnStore = u.calls[i].returnStore
  <2>1. Len(u.calls) > 1 /\ Top(u.calls).returnStore \in Stores
    BY <1>1, <1>3, <1>4
  <2>2. LET cu == Top(u.calls) IN
        /\ Frames(w) = Each!Deliver(SubSeq(Frames(u), 1, Len(u.calls) - 1),
                                    cu.returnStore, S16(value))
        /\ w.pc = cu.returnAddr
        /\ cu.returnStore > 15 => Globals(w)[cu.returnStore] = S16(value)
        /\ Len(w.calls) = Len(u.calls) - 1
        /\ \A i \in 1..Len(w.calls) : w.calls[i].returnStore = u.calls[i].returnStore
    BY <2>1, ReturnDelivers
  <2> HIDE DEF w, f, cs
  <2> QED BY <1>3, <1>4, <1>5, <2>2
<1>7. Sound(w) /\ Becomes(w)
  BY <1>1, <1>3, ReturnSound
<1> HIDE DEF w, f
<1>8. m_pc' = w.pc /\ Frames(Machine)' = Frames(w) /\ Globals(Machine)' = Globals(w)
      /\ (ResultsStored(w) => ResultsStored(Machine)') /\ StackInv'
  BY <1>7, BecomesMachine
<1>9. ResultsStored(w)
  <2> SUFFICES ASSUME NEW i \in 1..Len(w.calls) PROVE w.calls[i].returnStore \in Stores
    BY DEF ResultsStored
  <2>1. i \in 1..(m - 1) /\ i \in 1..Len(z.calls) /\ i \in 1..Len(y.calls) /\ i \in 1..m
    BY <1>1, <1>6
  <2>2. ResultsStored(y)
    BY <1>1, WorksStored DEF z
  <2>3. u.calls[i] = y.calls[i]
    <3>1. y.calls \in Seq(CallFrames)
      BY SoundParts
    <3> QED BY <1>1, <2>1, <3>1 DEF Cut
  <2> QED BY <1>6, <2>1, <2>2, <2>3 DEF ResultsStored
<1>10. Each!Ends(Each!Game, m)
  <2>1. f[m].back = cs.returnAddr /\ f[m].store = cs.returnStore
    BY <1>1, FramesOf DEF f
  <2>2. S16(value) \in Word
    BY WordFromBytes
  <2>3. Len(Frames(w)) = m - 1
    BY <1>6, <1>7, FramesAreRecords
  <2>4. Each!Game.frames = f
    BY DEF Each!Game, f, z
  <2> QED BY <1>1, <1>6, <1>8, <2>1, <2>2, <2>3, <2>4 DEF Each!Ends
<1>11. Each!Leave
  <2>1. m \in 1..Each!Deep
    BY <1>1, FramesAreRecords DEF Each!Deep, z
  <2> QED BY <1>10, <2>1 DEF Each!Leave
<1> QED BY <1>8, <1>9, <1>11

\* Reading operands is work of the running call.
LEMMA ReadWorks ==
    ASSUME StackInv, NEW ops \in Seq(Operand), MayRead(ops), NEW next \in Address
    PROVE  LET z == Read(next, ops)
               k == Cardinality(Popped(ops))
           IN /\ Works(Machine, z) /\ z.dynamic = DYNAMIC /\ z.calls = m_callStack
              /\ z.stack = Cut(m_stack, Len(m_stack) - k)
              /\ k \in Nat /\ k <= OwnOf(Machine) /\ z.pc = next
<1> DEFINE n == Cardinality(Popped(ops))
           v == [Machine EXCEPT !.pc = next]
           z == Read(next, ops)
<1>1. n \in Nat /\ n <= Own /\ Own = OwnOf(Machine)
  BY PoppedFinite, OperandTypes DEF MayRead
<1>2. next \in Nat
  BY AddressAssumption, Locations
<1>3. Sound(v) /\ v.calls = m_callStack /\ v.stack = m_stack /\ v.dynamic = DYNAMIC
  <2>1. Sound(v) /\ v.calls = Machine.calls
    BY <1>2, SoundWithPC DEF StackInv
  <2> QED BY <2>1 DEF Machine
<1>4. OwnOf(v) = Own
  BY <1>1, <1>3 DEF OwnOf, Machine
<1>5. z = [v EXCEPT !.stack = Cut(@, Len(@) - n)]
  BY DEF Read, Machine
<1>6. Works(Machine, v)
  BY <1>3, StackWorks DEF StackInv, Machine
<1> HIDE DEF n
<1>7. z.dynamic = DYNAMIC /\ z.calls = m_callStack
      /\ z.stack = Cut(m_stack, Len(m_stack) - n) /\ z.pc = next
  BY DEF Read, Machine, n
<1> HIDE DEF z, v
<1>8. Works(v, z)
  BY <1>1, <1>3, <1>4, <1>5, CutWorks
<1>9. Works(Machine, z)
  BY <1>6, <1>8, WorksTransitive
<1> QED BY <1>1, <1>7, <1>9 DEF n, z

\* A call: what the caller has left of its stack remains its own, and the call
\* begins with nothing.
LEMMA CallEnters ==
    ASSUME StackInv, NEW next \in Address,
           NEW args \in Seq(Operand), MayRead(args),
           NEW r \in Routine, r # 0, NEW store \in Stores, NEW values \in Seq(Int),
           Len(values) <= 7,
           Becomes(callRoutine(Read(next, args), r, store, values))
    PROVE  CallKept
<1> DEFINE x == Machine
           z == Read(next, args)
           w == callRoutine(z, r, store, values)
           n == Len(x.calls)
           k == Cardinality(Popped(args))
           old == Frames(x)
           new == Frames(w)
<1>1. /\ Sound(x) /\ x.calls = m_callStack /\ x.stack = m_stack
      /\ x.dynamic = DYNAMIC
  BY DEF StackInv, Machine
<1>2. /\ Works(x, z) /\ Sound(z) /\ z.dynamic = x.dynamic /\ z.calls = x.calls
      /\ z.stack = Cut(x.stack, Len(x.stack) - k) /\ k \in Nat /\ k <= OwnOf(x)
      /\ z.pc = next
  BY <1>1, ReadWorks, ReadSound
<1>3. Sound(w) /\ Becomes(w)
  <2>1. store \in {NoStore} \cup Byte
    <3>1. 16..255 \subseteq Byte /\ 1..15 \subseteq Byte /\ 0 \in Byte
      BY DEF Byte
    <3> QED BY <3>1, MemoryAssumption DEF Stores
  <2>2. z.pc \in Location
    BY <1>2, AddressAssumption
  <2> QED BY <1>2, <2>1, <2>2, CallSound
<1>0. StackInv'
  <2> HIDE DEF w
  <2> QED BY <1>3, BecomesMachine
<1> SUFFICES ASSUME ResultsStored(Machine)
             PROVE  ResultsStored(Machine)' /\ (Each!Work \/ Each!Enter \/ Each!Leave)
  BY <1>0 DEF CallKept
<1> HIDE DEF w
<1>18. ResultsStored(x)
  OBVIOUS
<1> USE DEF w
<1>4. n \in Nat \ {0} /\ n \in 1..Len(x.calls)
  BY <1>1, SoundParts
<1> HIDE DEF x, z
<1>5. /\ w.stack = z.stack /\ w.dynamic = z.dynamic
      /\ Len(w.calls) = n + 1 /\ w.calls[n + 1].depth = Len(z.stack)
      /\ w.calls[n + 1].returnStore = store
      /\ \A i \in 1..n : w.calls[i] = x.calls[i]
  <2> DEFINE g == [returnAddr |-> z.pc, returnStore |-> store,
                   setArguments |-> 2 ^ Len(values) - 1,
                   locals |-> FirstLocals(r, values), depth |-> CallDepth(z)]
             c == Append(z.calls, g)
  <2>1. w.stack = z.stack /\ w.dynamic = z.dynamic /\ w.calls = c
    BY <1>2, SoundParts DEF callRoutine, Machines
  <2>2. g.depth = Len(z.stack) /\ g.returnStore = store
    BY DEF CallDepth
  <2> HIDE DEF g, w
  <2>3. Len(c) = n + 1 /\ c[n + 1] = g /\ \A i \in 1..n : c[i] = x.calls[i]
    BY <1>2, <1>4, SoundParts
  <2> QED BY <2>1, <2>2, <2>3
<1> HIDE DEF w
<1>6. /\ Len(new) = n + 1 /\ Len(old) = n /\ old \in Seq(FrameRecords)
      /\ new \in Seq(FrameRecords)
  BY <1>1, <1>3, <1>5, FramesAreRecords
<1>7. new[n + 1].stack = <<>>
  <2>1. n + 1 \in 1..Len(w.calls)
    BY <1>4, <1>5
  <2>2. NextDepth(w, n + 1) = Len(w.stack)
    BY <1>4, <1>5 DEF NextDepth
  <2>3. OwnStack(w, n + 1) \in Seq(Int) /\ Len(OwnStack(w, n + 1)) = 0
    <3>1. OwnStack(w, n + 1) \in Seq(Int)
          /\ Len(OwnStack(w, n + 1)) = NextDepth(w, n + 1) - w.calls[n + 1].depth
      BY <1>3, <2>1, OwnStackOf
    <3>2. Len(w.stack) \in Nat
      BY <1>3, SoundParts
    <3> QED BY <1>5, <2>2, <3>1, <3>2
  <2>4. new[n + 1].stack = OwnStack(w, n + 1)
    BY <1>3, <2>1, FramesOf
  <2> QED BY <2>3, <2>4
<1>8. SubSeq(new, 1, n) = Frames(z)
  <2> DEFINE e == Len(w.stack)
  <2>1. w.stack \in Seq(Int) /\ w.calls \in Seq(CallFrames) /\ z.calls \in Seq(CallFrames)
    BY <1>2, <1>3, SoundParts
  <2>2. e \in Nat /\ e <= Len(w.stack) /\ z.stack = Cut(w.stack, e)
    BY <1>5, <2>1 DEF Cut
  <2>3. n \in 1..Len(w.calls) /\ z.calls = Cut(w.calls, n)
    <3>1. Cut(w.calls, n) = [i \in 1..n |-> w.calls[i]]
      BY <1>4, <1>5, <2>1 DEF Cut
    <3>2. z.calls = [i \in 1..n |-> z.calls[i]]
      BY <1>2, <2>1 DEF n
    <3>3. n \in 1..(n + 1)
      BY <1>4
    <3>4. \A i \in 1..n : z.calls[i] = w.calls[i]
      BY <1>2, <1>5
    <3> HIDE DEF n
    <3> QED BY <1>5, <3>1, <3>2, <3>3, <3>4
  <2>4. e = NextDepth(w, n)
    BY <1>4, <1>5 DEF NextDepth
  <2> HIDE DEF e, n
  <2>5. Frames(z) = SubSeq(Frames(w), 1, n)
    BY <1>2, <1>3, <2>2, <2>3, <2>4, FewerFrames
  <2> QED BY <2>5
<1> DEFINE left == OwnOf(x) - k
           d == Top(x.calls).depth
<1> HIDE DEF k
<1>9. left \in Nat /\ left <= OwnOf(x) /\ OwnOf(x) \in Nat /\ d \in Nat
      /\ OwnOf(x) = Len(x.stack) - d /\ x.stack \in Seq(Int) /\ Len(x.stack) \in Nat
  <2>1. OwnOf(x) \in Nat /\ d \in Nat /\ x.stack \in Seq(Int) /\ Len(x.stack) \in Nat
    BY <1>1, SoundParts
  <2>2. OwnOf(x) = Len(x.stack) - d
    BY DEF OwnOf
  <2>3. left \in Nat /\ left <= OwnOf(x)
    BY <1>2, <2>1
  <2> QED BY <2>1, <2>2, <2>3
<1>10. Frames(z)[n].stack = SubSeq(old[n].stack, 1, left)
  <2>1. n \in 1..Len(z.calls)
    BY <1>2, <1>4
  <2>2. Len(z.stack) = Len(x.stack) - k
        /\ \A j \in 1..(Len(x.stack) - k) : z.stack[j] = x.stack[j]
    <3> DEFINE m == Len(x.stack) - k
    <3>1. m \in Nat /\ m <= Len(x.stack)
      BY <1>2, <1>9
    <3> HIDE DEF m, d
    <3>2. Len(Cut(x.stack, m)) = m /\ \A j \in 1..m : Cut(x.stack, m)[j] = x.stack[j]
      BY <1>9, <3>1 DEF Cut
    <3> QED BY <1>2, <3>2 DEF m
  <2>3. OwnOf(z) = left
    BY <1>2, <1>9, <2>2 DEF OwnOf
  <2>4. OwnStack(z, n) = [j \in 1..left |-> z.stack[j + d]]
    <3>1. OwnStack(z, Len(z.calls))
              = [j \in 1..OwnOf(z) |-> z.stack[j + Top(z.calls).depth]]
      BY <1>2, TopStack
    <3> QED BY <1>2, <2>3, <3>1
  <2>5. OwnStack(x, n) = [j \in 1..OwnOf(x) |-> x.stack[j + d]]
        /\ OwnStack(x, n) \in Seq(Int)
    BY <1>1, <1>4, TopStack, OwnStackOf
  <2>6. Frames(z)[n].stack = OwnStack(z, n) /\ old[n].stack = OwnStack(x, n)
    BY <1>1, <1>2, <1>4, <2>1, FramesOf
  <2>7. \A j \in 1..left : j + d \in 1..(Len(x.stack) - k)
    <3> DEFINE m == Len(x.stack)
               own == OwnOf(x)
    <3>1. /\ own \in Int /\ m \in Int /\ d \in Nat /\ k \in Nat
          /\ own = m - d /\ left = own - k
      BY <1>2, <1>9
    <3> HIDE DEF d, m, own, left
    <3>2. \A j \in 1..left : j + d \in 1..(m - k)
      BY <3>1
    <3> QED BY <3>2 DEF m
  <2> HIDE DEF left, d, n, old
  <2>8. OwnStack(z, n) = [j \in 1..left |-> x.stack[j + d]]
    BY <2>2, <2>4, <2>7
  <2>9. SubSeq(OwnStack(x, n), 1, left) = [j \in 1..left |-> OwnStack(x, n)[j]]
    <3> DEFINE s == OwnStack(x, n)
    <3>1. s \in Seq(Int) /\ Len(s) = OwnOf(x)
      BY <1>9, <2>5
    <3> HIDE DEF s
    <3>2. SubSeq(s, 1, left) = [j \in 1..left |-> s[j]]
      BY <1>9, <3>1
    <3> QED BY <3>2 DEF s
  <2>10. \A j \in 1..left : OwnStack(x, n)[j] = x.stack[j + d]
    <3>1. \A j \in 1..left : j \in 1..OwnOf(x)
      BY <1>9
    <3> QED BY <2>5, <3>1
  <2>11. SubSeq(OwnStack(x, n), 1, left) = [j \in 1..left |-> x.stack[j + d]]
    BY <2>9, <2>10
  <2> QED BY <2>6, <2>8, <2>11
<1>11. Frames(z)[n] = [old[n] EXCEPT !.stack = SubSeq(@, 1, left)]
  <2>1. n \in 1..Len(z.calls)
    BY <1>2, <1>4
  <2> DEFINE o == OwnStack(x, n)
             q == OwnStack(z, n)
             f == old[n]
  <2>2. Frames(z)[n] = [back |-> x.calls[n].returnAddr, store |-> x.calls[n].returnStore,
               args |-> x.calls[n].setArguments, locals |-> x.calls[n].locals,
               stack |-> q]
    BY <1>2, <2>1, FramesOf
  <2>3. f = [back |-> x.calls[n].returnAddr, store |-> x.calls[n].returnStore,
               args |-> x.calls[n].setArguments, locals |-> x.calls[n].locals,
               stack |-> o]
    BY <1>1, <1>4, FramesOf
  <2>4. q = SubSeq(f.stack, 1, left)
    BY <1>10, <2>2
  <2> HIDE DEF o, q, f, n, left
  <2>5. Frames(z)[n] = [f EXCEPT !.stack = q]
    BY <2>2, <2>3
  <2>6. Frames(z)[n] = [f EXCEPT !.stack = SubSeq(@, 1, left)]
    BY <2>4, <2>5, Zenon
  <2> QED BY <2>6 DEF f
<1>12. SubSeq(new, 1, n) = [old EXCEPT ![n].stack = SubSeq(@, 1, left)]
  <2>1. Frames(z) = [old EXCEPT ![n] = Frames(z)[n]]
    BY <1>1, <1>2, TopFrameChanges
  <2> HIDE DEF n, old, new, left
  <2>2. [old EXCEPT ![n] = [old[n] EXCEPT !.stack = SubSeq(@, 1, left)]]
            = [old EXCEPT ![n].stack = SubSeq(@, 1, left)]
    OBVIOUS
  <2> QED BY <1>8, <1>11, <2>1, <2>2
<1>13. /\ StackInv' /\ Frames(Machine)' = new /\ Globals(Machine)' = Globals(w)
       /\ ResultsStored(w) => ResultsStored(Machine)'
  BY <1>3, BecomesMachine
<1>14. ResultsStored(w)
  <2> SUFFICES ASSUME NEW i \in 1..(n + 1) PROVE w.calls[i].returnStore \in Stores
    BY <1>5 DEF ResultsStored
  <2>1. CASE i = n + 1
    BY <1>5, <2>1
  <2>2. CASE i # n + 1
    <3>1. i \in 1..n
      BY <1>4, <2>2
    <3> QED BY <1>18, <1>5, <3>1 DEF ResultsStored
  <2> QED BY <2>1, <2>2
<1>15. Globals(w) = Globals(x)
  BY <1>2, <1>5 DEF Globals
<1>16. left \in 0..Len(old[n].stack)
  <2>1. old[n].stack = OwnStack(x, n) /\ Len(OwnStack(x, n)) = OwnOf(x)
    <3>1. OwnStack(x, n) = [j \in 1..OwnOf(x) |-> x.stack[j + d]]
          /\ OwnStack(x, n) \in Seq(Int)
      BY <1>1, <1>4, TopStack, OwnStackOf
    <3>2. old[n].stack = OwnStack(x, n)
      BY <1>1, <1>4, FramesOf
    <3> QED BY <1>9, <3>1, <3>2
  <2> QED BY <1>9, <2>1
<1>17. Each!Enter
  <2>1. Frames(Machine) = old /\ Globals(Machine) = Globals(x)
    BY DEF x
  <2> HIDE DEF n, old, new, left
  <2> QED BY <1>6, <1>7, <1>12, <1>13, <1>15, <1>16, <2>1 DEF Each!Enter
<1> QED BY <1>13, <1>14, <1>17

--------------------------------------------------------------------------------
(***************************************************************************)
(* Instructions.                                                           *)
(***************************************************************************)
LEMMA InitSound == Init => StackInv
<1> SUFFICES ASSUME Init PROVE Sound(Machine)
  BY DEF StackInv
<1>1. MainFrame \in CallFrames /\ MainFrame.depth = 0
  <2>1. <<>> \in LocalVariables
    BY DEF LocalVariables
  <2>2. 0 \in {2 ^ k - 1 : k \in 0..7}
    <3>1. 2 ^ 0 - 1 = 0
      OBVIOUS
    <3> QED BY <3>1
  <2>3. 0 \in Location
    BY DEF Location
  <2> QED BY <2>1, <2>2, <2>3 DEF MainFrame, CallFrames, Byte
<1>2. m_callStack \in Seq(CallFrames) /\ Len(m_callStack) = 1 /\ m_callStack[1].depth = 0
  BY <1>1 DEF Init
<1>3. m_stack \in Seq(Int) /\ Len(m_stack) = 0
  BY DEF Init
<1>4. m_pc \in Nat
  BY AddressAssumption, Locations DEF Init
<1>5. DYNAMIC \in [Dynamic -> Byte]
  <2>1. DYNAMIC = memory
    BY DEF Init
  <2>2. memory \in [Dynamic -> Byte]
    BY MemoryAssumption
  <2> QED BY <2>1, <2>2
<1>6. Machine \in Machines
  BY <1>2, <1>3, <1>4, <1>5 DEF Machine, Machines
<1>7. Machine.calls = m_callStack /\ Machine.stack = m_stack
  BY DEF Machine
<1> DEFINE z == Machine
<1>8. Len(z.calls) = 1 /\ Len(z.stack) = 0 /\ z.calls[1].depth = 0
  BY <1>2, <1>3, <1>7
<1> HIDE DEF z
<1>9. Nested(z)
  BY <1>8 DEF Nested
<1>10. Sound(z)
  BY <1>6, <1>8, <1>9 DEF Sound, z
<1> QED BY <1>10 DEF z

LEMMA CallStep ==
    ASSUME StackInv, NEW next \in Address,
           NEW r \in Routine \cup {0},
           NEW args \in Arguments, NEW store \in VariableNumbers \cup {NoStore},
           Call(next, r, args, store)
    PROVE  CallKept
<1>1. args \in Seq(Operand)
  <2>1. PICK k \in 0..MaxArgs : args \in [1..k -> Operand]
    BY DEF Arguments
  <2>2. k \in Nat
    BY BoundAssumption
  <2> QED BY <2>1, <2>2
<1>2. MayRead(args)
  BY DEF Call
<1>3. Sound(Read(next, args))
  BY <1>1, <1>2, ReadSound
<1>4. OperandValues(args) \in Seq(Int) /\ Len(OperandValues(args)) <= 7
  <2>1. DOMAIN args = 1..Len(args) /\ Len(args) \in Nat
    BY <1>1
  <2>2. \A i \in 1..Len(args) : OperandValue(args, i) \in Int
    BY <1>1, <1>2, OperandValueInt
  <2>3. OperandValues(args) = [i \in 1..Len(args) |-> OperandValue(args, i)]
    BY <2>1 DEF OperandValues
  <2>4. Len(args) <= 7
    <3>1. PICK k \in 0..MaxArgs : args \in [1..k -> Operand]
      BY DEF Arguments
    <3>2. k \in Nat /\ k <= 7
      BY BoundAssumption
    <3> QED BY <3>1, <3>2
  <2> QED BY <2>1, <2>2, <2>3, <2>4
<1>5. store \in Int
  BY OperandTypes DEF NoStore
<1>6. store \in Stores
  <2>1. 1..Len(Running.locals) \subseteq 1..15
    <3>1. Running.locals \in Seq(Int) /\ Len(Running.locals) <= 15
      <4>1. Running \in CallFrames
        BY SoundParts DEF Running, StackInv, Machine
      <4> QED BY <4>1 DEF CallFrames, LocalVariables
    <3> DEFINE m == Len(Running.locals)
    <3>2. m \in Nat /\ m <= 15
      BY <3>1
    <3> HIDE DEF m
    <3>3. 1..m \subseteq 1..15
      BY <3>2
    <3> QED BY <3>3 DEF m
  <2> QED BY <2>1 DEF VariableNumbers, Stores
<1> DEFINE z == Read(next, args)
           values == OperandValues(args)
<1>7. Works(Machine, z) /\ Becomes(callRoutine(z, r, store, values))
  BY <1>1, <1>2, ReadWorks DEF Call
<1>8. CASE r # 0
  <2>1. r \in Routine
    BY <1>8
  <2> HIDE DEF values
  <2> QED BY <1>1, <1>2, <1>4, <1>6, <1>7, <1>8, <2>1, CallEnters DEF values
<1>9. CASE r = 0
  <2> HIDE DEF z
  <2>1. callRoutine(z, r, store, values)
            = IF store >= 0 THEN setVariable(z, store, 0) ELSE z
    BY <1>9 DEF callRoutine
  <2>2. Sound(setVariable(z, store, 0)) /\ Works(z, setVariable(z, store, 0))
    BY <1>3, <1>5, SetVariableSound, SetVariableWorks DEF z
  <2>3. Sound(z) /\ Works(Machine, setVariable(z, store, 0))
    BY <1>3, <1>7, <2>2, WorksTransitive DEF z
  <2>4. PICK w : w = callRoutine(z, r, store, values)
    OBVIOUS
  <2>5. Sound(w) /\ Works(Machine, w) /\ Becomes(w)
    BY <1>7, <2>1, <2>2, <2>3, <2>4
  <2> QED BY <2>5, RunningWorks
<1> QED BY <1>8, <1>9

LEMMA OneOperand ==
    ASSUME StackInv, NEW op \in Operand, MayRead(<<op>>), NEW next \in Address
    PROVE  LET z == Read(next, <<op>>) IN
           /\ Sound(z) /\ z.calls = m_callStack
           /\ OwnOf(z) = Own - Cardinality(Popped(<<op>>))
           /\ OperandValue(<<op>>, 1) \in Int
           /\ Works(Machine, z)
<1>1. <<op>> \in Seq(Operand) /\ 1 \in 1..Len(<<op>>)
  OBVIOUS
<1>2. Works(Machine, Read(next, <<op>>))
  BY <1>1, ReadWorks
<1> QED BY <1>1, <1>2, ReadSound, OperandValueInt

LEMMA NoOperand ==
    ASSUME StackInv, NEW next \in Address
    PROVE  LET z == Read(next, <<>>) IN
           Sound(z) /\ z.calls = m_callStack /\ OwnOf(z) = Own /\ Works(Machine, z)
<1>1. <<>> \in Seq(Operand) /\ Popped(<<>>) = {}
  BY DEF Popped
<1>2. Cardinality(Popped(<<>>)) = 0
  BY <1>1, FS_EmptySet
<1>3. MayRead(<<>>)
  BY <1>2, OperandTypes DEF MayRead
<1> DEFINE z == Read(next, <<>>)
<1>4. Sound(z) /\ z.calls = m_callStack /\ OwnOf(z) = Own - Cardinality(Popped(<<>>))
      /\ Works(Machine, z)
  BY <1>1, <1>3, ReadSound, ReadWorks
<1> HIDE DEF z
<1>5. OwnOf(z) = Own
  BY <1>2, <1>4, OperandTypes
<1> QED BY <1>4, <1>5 DEF z

\* A variable of the running call is set.
LEMMA SetStep ==
    ASSUME StackInv, NEW z, Sound(z), Works(Machine, z),
           NEW var \in Int, NEW value \in Int, Becomes(setVariable(z, var, value))
    PROVE  CallKept
<1>1. Sound(setVariable(z, var, value)) /\ Works(z, setVariable(z, var, value))
  BY SetVariableSound, SetVariableWorks
<1>2. Works(Machine, setVariable(z, var, value))
  BY <1>1, WorksTransitive
<1> QED BY <1>1, <1>2, RunningWorks

\* The running call returns.
LEMMA ReturnFromTop ==
    ASSUME StackInv, Len(m_callStack) > 1,
           NEW z, Sound(z), Works(Machine, z),
           NEW value \in Int, Becomes(returnRoutine(z, value))
    PROVE  CallKept
<1> DEFINE n == Len(m_callStack)
<1>1. n \in Nat /\ Len(z.calls) = n
  BY SoundParts DEF StackInv, Works, Machine
<1>2. z.calls = Cut(z.calls, n)
  BY <1>1, SoundParts DEF Cut
<1>3. n \in 2..Len(m_callStack)
  BY <1>1
<1> HIDE DEF n
<1> QED BY <1>2, <1>3, CallReturns

\* The branch is taken.
LEMMA BranchTaken ==
    ASSUME StackInv, NEW z, Sound(z), Works(Machine, z),
           NEW branch \in Branches, branch.offset \in {0, 1} => MayReturn,
           Becomes(doBranch(z, TRUE, branch))
    PROVE  CallKept
<1>1. branch.offset \in {0, 2} /\ branch.negate = FALSE
  BY DEF Branches
<1>2. CASE branch.offset = 0
  <2>1. doBranch(z, TRUE, branch) = returnRoutine(z, 0)
    BY <1>1, <1>2 DEF doBranch
  <2>2. Len(m_callStack) > 1
    BY <1>2 DEF MayReturn
  <2>3. Becomes(returnRoutine(z, 0))
    BY <2>1
  <2> QED BY <2>2, <2>3, ReturnFromTop
<1>3. CASE branch.offset = 2
  <2> DEFINE w == [z EXCEPT !.pc = z.pc + 2 - 2]
  <2>1. doBranch(z, TRUE, branch) = w
    BY <1>1, <1>3 DEF doBranch
  <2>2. z.pc + 2 - 2 \in Nat
    <3>1. z.pc \in Nat
      BY SoundParts
    <3> QED BY <3>1
  <2>3. Sound(w) /\ w.calls = z.calls /\ w.stack = z.stack
    BY <2>2, SoundWithPC, PCOnly
  <2>4. Becomes(w)
    BY <2>1
  <2> HIDE DEF w
  <2>5. Works(Machine, w)
    BY <2>3, StackWorks, WorksTransitive
  <2> QED BY <2>3, <2>4, <2>5, RunningWorks
<1> QED BY <1>1, <1>2, <1>3

LEMMA ReturnStep ==
    ASSUME StackInv, NEW next \in Address,
           NEW op \in Operand, Return(next, op)
    PROVE  CallKept
<1>1. MayRead(<<op>>) /\ Len(m_callStack) > 1
  BY DEF Return, MayReturn
<1> QED BY <1>1, OneOperand, ReturnFromTop DEF Return

LEMMA PushValueStep ==
    ASSUME StackInv, NEW next \in Address,
           NEW op \in Operand, PushValue(next, op)
    PROVE  CallKept
<1>1. MayRead(<<op>>)
  BY DEF PushValue
<1> QED BY <1>1, OneOperand, SetStep DEF PushValue

\* Throw ends the calls above the frame, whose values go when that frame returns.
LEMMA ThrowStep ==
    ASSUME StackInv, NEW next \in Address,
           NEW op \in Operand,
           NEW frame \in 2..Len(m_callStack), Throw(next, op, frame)
    PROVE  CallKept
<1> DEFINE z == Read(next, <<op>>)
           w == Unwind(z, frame)
<1>1. MayRead(<<op>>)
  BY DEF Throw
<1>2. Sound(z) /\ z.calls = m_callStack /\ OperandValue(<<op>>, 1) \in Int
      /\ Works(Machine, z)
  BY <1>1, OneOperand
<1> HIDE DEF z
<1>3. frame \in 1..Len(z.calls) /\ frame > 1
  BY <1>2, SoundParts
<1>4. z.calls[frame].depth <= Len(z.stack) /\ z.stack \in Seq(Int)
  BY <1>2, <1>3, Depths, SoundParts
<1>5. Unwind(z, frame) = [z EXCEPT !.calls = Cut(@, frame), !.stack = z.stack]
  BY <1>2, SoundParts DEF Unwind, Machines
<1>6. Sound(w) /\ Len(w.calls) = frame
  <2> DEFINE u == [z EXCEPT !.calls = Cut(@, frame), !.stack = z.stack]
  <2>1. Sound(u) /\ Len(u.calls) = frame
    BY <1>2, <1>3, <1>4, FewerCalls
  <2>2. w = u
    BY <1>5
  <2> HIDE DEF u, w
  <2> QED BY <2>1, <2>2
<1>7. w.calls = Cut(z.calls, frame) /\ w.stack = z.stack
  BY <1>2, SoundParts DEF Unwind, Machines
<1>8. Becomes(returnRoutine(w, OperandValue(<<op>>, 1)))
  BY DEF Throw, z
<1> HIDE DEF w
<1> QED BY <1>2, <1>6, <1>7, <1>8, CallReturns

LEMMA CatchStep ==
    ASSUME StackInv, NEW next \in Address,
           NEW store \in VariableNumbers,
           Catch(next, store)
    PROVE  CallKept
<1>1. Len(m_callStack) \in Int /\ store \in Int
  BY SoundParts, OperandTypes DEF StackInv, Machine
<1> QED BY <1>1, NoOperand, SetStep DEF Catch

LEMMA ReadVariableWorks ==
    ASSUME NEW z, Sound(z), NEW var \in Int, OnStack(var) <= OwnOf(z)
    PROVE  Works(z, readVariable(z, var))
<1>1. CASE var = 0
  <2>1. OnStack(var) = 1 /\ readVariable(z, var) = [z EXCEPT !.stack = Cut(@, Len(@) - 1)]
    BY <1>1 DEF OnStack, readVariable, Pop
  <2> QED BY <2>1, CutWorks
<1>2. CASE var # 0
  BY <1>2, WorksReflexive DEF readVariable
<1> QED BY <1>1, <1>2

LEMMA PopValueStep ==
    ASSUME StackInv, NEW next \in Address,
           PopValue(next)
    PROVE  CallKept
<1>1. Own >= 1
  BY DEF PopValue
<1>2. readVariable(Read(next, <<>>), 0) = Pop(Read(next, <<>>)) /\ OnStack(0) = 1
  BY DEF readVariable, OnStack
<1> DEFINE z == Read(next, <<>>)
<1>3. Sound(z) /\ OwnOf(z) = Own /\ Works(Machine, z) /\ Becomes(Pop(z))
  BY NoOperand DEF PopValue
<1> HIDE DEF z
<1>4. Sound(Pop(z)) /\ Works(Machine, Pop(z))
  BY <1>1, <1>2, <1>3, ReadVariableSound, ReadVariableWorks, WorksTransitive DEF z
<1> QED BY <1>3, <1>4, RunningWorks

\* A variable that an instruction names is set; the top of the stack is replaced.
LEMMA SetIndirectStep ==
    ASSUME StackInv, NEW z, Sound(z), Works(Machine, z),
           NEW var \in Int, OnStack(var) <= OwnOf(z), NEW value \in Int,
           Becomes(setVariableIndirect(z, var, value))
    PROVE  CallKept
<1> DEFINE w == readVariable(z, var)
<1>1. Sound(w) /\ Works(Machine, w)
  BY ReadVariableSound, ReadVariableWorks, WorksTransitive
<1>2. setVariableIndirect(z, var, value) = setVariable(w, var, value)
  BY DEF setVariableIndirect, readVariable
<1> HIDE DEF w
<1> QED BY <1>1, <1>2, SetStep

LEMMA PullStep ==
    ASSUME StackInv, NEW next \in Address,
           NEW var \in VariableNumbers, Pull(next, var)
    PROVE  CallKept
<1> DEFINE z == Read(next, <<>>)
           w == readVariable(z, 0)
<1>1. Sound(z) /\ OwnOf(z) = Own /\ Own \in Nat /\ Own = OwnOf(Machine) /\ var \in Int
      /\ Works(Machine, z)
  BY NoOperand, OperandTypes
<1>2. 1 + OnStack(var) <= Own /\ OnStack(var) \in Nat /\ OnStack(0) = 1
  BY DEF Pull, OnStack
<1> HIDE DEF z
<1>3. Sound(w) /\ OwnOf(w) = Own - 1 /\ Works(Machine, w)
  BY <1>1, <1>2, ReadVariableSound, ReadVariableWorks, WorksTransitive
<1>4. VariableValue(Machine, 0) \in Int
  BY <1>1, <1>2, VariableValueInt DEF StackInv
<1>5. Becomes(setVariableIndirect(w, var, VariableValue(Machine, 0)))
  BY DEF Pull, z
<1> HIDE DEF w
<1>6. OnStack(var) <= OwnOf(w)
  BY <1>1, <1>2, <1>3
<1> QED BY <1>1, <1>3, <1>4, <1>5, <1>6, SetIndirectStep

LEMMA StoreVariableStep ==
    ASSUME StackInv, NEW next \in Address,
           NEW var \in VariableNumbers,
           NEW op \in Operand, StoreVariable(next, var, op)
    PROVE  CallKept
<1> DEFINE z == Read(next, <<op>>)
           n == Cardinality(Popped(<<op>>))
<1>1. n + OnStack(var) <= Own /\ OnStack(var) \in Nat
  BY DEF StoreVariable, OnStack
<1>2. n \in Nat /\ Own \in Nat /\ var \in Int
  <2>1. <<op>> \in Seq(Operand)
    OBVIOUS
  <2> QED BY <2>1, PoppedFinite, OperandTypes
<1>3. MayRead(<<op>>)
  BY <1>1, <1>2 DEF MayRead
<1>4. Sound(z) /\ OwnOf(z) = Own - n /\ OperandValue(<<op>>, 1) \in Int
      /\ Works(Machine, z)
  BY <1>3, OneOperand
<1>5. Becomes(setVariableIndirect(z, var, OperandValue(<<op>>, 1)))
  BY DEF StoreVariable
<1> HIDE DEF z, n
<1>6. OnStack(var) <= OwnOf(z)
  BY <1>1, <1>2, <1>4
<1> QED BY <1>2, <1>4, <1>5, <1>6, SetIndirectStep

LEMMA LoadStep ==
    ASSUME StackInv, NEW next \in Address,
           NEW var \in VariableNumbers,
           NEW store \in VariableNumbers, Load(next, var, store)
    PROVE  CallKept
<1> DEFINE z == Read(next, <<>>)
           w == readVariableIndirect(z, var)
<1>1. Sound(z) /\ z.calls = m_callStack /\ OwnOf(z) = Own /\ Own \in Nat
      /\ Own = OwnOf(Machine) /\ var \in Int /\ store \in Int /\ Works(Machine, z)
  BY NoOperand, OperandTypes
<1>2. OnStack(var) <= Own
  BY DEF Load
<1>3. var = 0 => OwnOf(Machine) >= 1
  BY <1>1, <1>2 DEF OnStack
<1>4. VariableValue(Machine, var) \in Int /\ VariableValue(z, var) \in Int
  <2>1. var \in {0} \cup (1..Len(Top(m_callStack).locals)) \cup Global
    BY DEF VariableNumbers, Running
  <2> HIDE DEF z
  <2>2. VariableValue(Machine, var) \in Int
    BY <1>3, <2>1, VariableValueInt DEF StackInv, Machine
  <2>3. VariableValue(z, var) \in Int
    BY <1>1, <1>3, <2>1, VariableValueInt
  <2> QED BY <2>2, <2>3
<1>5. Becomes(setVariable(w, store, VariableValue(Machine, var)))
  BY DEF Load
<1> HIDE DEF z
<1>6. Sound(w) /\ Works(z, w)
  <2>1. CASE var = 0
    <3> DEFINE v == readVariable(z, var)
    <3>1. Sound(v) /\ Works(z, v)
      BY <1>1, <1>2, ReadVariableSound, ReadVariableWorks
    <3>2. w = setVariable(v, var, VariableValue(z, var))
      BY <2>1 DEF readVariableIndirect
    <3> HIDE DEF v, w
    <3>3. Sound(w) /\ Works(v, w)
      BY <1>1, <1>4, <3>1, <3>2, SetVariableSound, SetVariableWorks
    <3> QED BY <3>1, <3>3, WorksTransitive
  <2>2. CASE var # 0
    BY <1>1, <2>2, WorksReflexive DEF readVariableIndirect
  <2> QED BY <2>1, <2>2
<1> HIDE DEF w
<1>7. Works(Machine, w)
  BY <1>1, <1>6, WorksTransitive
<1> QED BY <1>1, <1>4, <1>5, <1>6, <1>7, SetStep

LEMMA StepStep ==
    ASSUME StackInv, NEW next \in Address,
           NEW var \in VariableNumbers,
           NEW by \in {-1, 1}, NEW ops \in {<<>>, <<Variable(0)>>},
           NEW branch \in Branches, Step(next, var, by, ops, branch)
    PROVE  CallKept
<1> DEFINE z == Read(next, ops)
           n == Cardinality(Popped(ops))
           w == setVariable(readVariable(z, var), var, VariableValue(z, var) + by)
<1>1. n + OnStack(var) <= Own /\ OnStack(var) \in Nat
  BY DEF Step, OnStack
<1>2. ops \in Seq(Operand)
  <2>1. Variable(0) \in Operand
    BY DEF Operand, VariableNumbers
  <2>2. <<>> \in Seq(Operand)
    OBVIOUS
  <2>3. <<Variable(0)>> \in Seq(Operand)
    BY <2>1
  <2> QED BY <2>2, <2>3
<1>3. n \in Nat /\ Own \in Nat /\ var \in Int
  BY <1>2, PoppedFinite, OperandTypes
<1>4. MayRead(ops)
  BY <1>1, <1>3 DEF MayRead
<1>5. Sound(z) /\ z.calls = m_callStack /\ OwnOf(z) = Own - n /\ Works(Machine, z)
  BY <1>2, <1>4, ReadSound, ReadWorks
<1> HIDE DEF z, n
<1>6. OnStack(var) <= OwnOf(z)
  BY <1>1, <1>3, <1>5
<1>7. VariableValue(z, var) \in Int
  <2>1. var \in {0} \cup (1..Len(Top(z.calls).locals)) \cup Global
    BY <1>5 DEF VariableNumbers, Running
  <2>2. var = 0 => OwnOf(z) >= 1
    BY <1>6, SoundParts, <1>5 DEF OnStack
  <2> QED BY <1>5, <2>1, <2>2, VariableValueInt
<1> DEFINE v == readVariable(z, var)
<1>8. Sound(v) /\ Works(Machine, v)
  BY <1>3, <1>5, <1>6, ReadVariableSound, ReadVariableWorks, WorksTransitive
<1>9. Sound(w) /\ Works(v, w)
  <2>1. VariableValue(z, var) + by \in Int
    BY <1>7
  <2> HIDE DEF v
  <2>2. \A value \in Int : Sound(setVariable(v, var, value))
                          /\ Works(v, setVariable(v, var, value))
    BY <1>3, <1>8, SetVariableSound, SetVariableWorks
  <2> QED BY <2>1, <2>2 DEF v
<1>10. branch.offset \in {0, 1} => MayReturn
  BY DEF Step
<1>11. Becomes(doBranch(w, TRUE, branch))
  BY DEF Step, z
<1> HIDE DEF v, w
<1>12. Works(Machine, w)
  BY <1>8, <1>9, WorksTransitive
<1> QED BY <1>9, <1>10, <1>11, <1>12, BranchTaken

LEMMA PopsAreOperands == Pops \subseteq Seq(Operand)
<1> SUFFICES ASSUME NEW k \in 0..2 PROVE [i \in 1..k |-> Variable(0)] \in Seq(Operand)
  BY DEF Pops
<1>1. Variable(0) \in Operand
  BY DEF Operand, VariableNumbers
<1> QED BY <1>1

LEMMA ComputeStep ==
    ASSUME StackInv, NEW next \in Address,
           NEW ops \in Pops,
           NEW store \in VariableNumbers, NEW value \in Constant,
           NEW branch \in Branches, Compute(next, ops, store, value, branch)
    PROVE  CallKept
<1> DEFINE z == Read(next, ops)
           w == setVariable(z, store, value)
<1>1. MayRead(ops) /\ ops \in Seq(Operand)
  BY PopsAreOperands DEF Compute
<1>2. Sound(z) /\ Works(Machine, z)
  BY <1>1, ReadSound, ReadWorks
<1>3. store \in Int /\ value \in Int
  BY OperandTypes
<1>4. branch.offset \in {0, 1} => MayReturn
  BY DEF Compute
<1>5. Becomes(doBranch(w, TRUE, branch))
  BY DEF Compute
<1> HIDE DEF z
<1>6. Sound(w) /\ Works(Machine, w)
  BY <1>2, <1>3, SetVariableSound, SetVariableWorks, WorksTransitive
<1> HIDE DEF w
<1> QED BY <1>4, <1>5, <1>6, BranchTaken

LEMMA BranchStep ==
    ASSUME StackInv, NEW next \in Address,
           NEW ops \in Pops,
           NEW branch \in Branches, Branch(next, ops, branch)
    PROVE  CallKept
<1>1. MayRead(ops) /\ ops \in Seq(Operand)
  BY PopsAreOperands DEF Branch
<1>2. Sound(Read(next, ops)) /\ Works(Machine, Read(next, ops))
  BY <1>1, ReadSound, ReadWorks
<1> QED BY <1>2, BranchTaken DEF Branch

--------------------------------------------------------------------------------
\* Every instruction keeps the invariant, and is work, a call or a return.
LEMMA InstructionKeepsCalls ==
    ASSUME StackInv, Instruction
    PROVE  CallKept
BY CallStep, ReturnStep, PushValueStep, ThrowStep, CatchStep, PopValueStep, PullStep,
   StoreVariableStep, LoadStep, StepStep, ComputeStep, BranchStep DEF Instruction

LEMMA InitStored == Init => ResultsStored(Machine)
<1> SUFFICES ASSUME Init PROVE ResultsStored(Machine)
  OBVIOUS
<1>1. Len(Machine.calls) = 1 /\ Machine.calls[1].returnStore = 0
  BY DEF Init, Machine, MainFrame
<1> QED BY <1>1 DEF ResultsStored, Stores

LEMMA CallsInvariant == StackSpec => []CallsInv
<1>1. CallsInv /\ [Instruction]_machineVars => CallsInv'
  <2> SUFFICES ASSUME CallsInv, [Instruction]_machineVars PROVE CallsInv'
    OBVIOUS
  <2>1. CASE UNCHANGED machineVars
    BY <2>1 DEF machineVars, CallsInv, StackInv, ResultsStored, Machine, Sound, Nested,
                Machines
  <2>2. CASE Instruction
    BY <2>2, InstructionKeepsCalls DEF CallsInv, CallKept
  <2> QED BY <2>1, <2>2
<1>2. Init => CallsInv
  BY InitSound, InitStored DEF CallsInv
<1> QED BY <1>1, <1>2, PTL DEF StackSpec

LEMMA SoundNested == StackInv => FramesNested
<1> SUFFICES ASSUME StackInv, NEW i \in DOMAIN m_callStack
             PROVE  m_callStack[i].depth <= NextDepth(Machine, i)
  BY DEF FramesNested
<1>1. Sound(Machine) /\ Machine.calls = m_callStack /\ m_callStack \in Seq(CallFrames)
      /\ Len(m_callStack) \in Nat
  BY SoundParts DEF StackInv, Machine
<1>2. i \in 1..Len(m_callStack)
  BY <1>1
<1>3. m_callStack[i].depth <= Len(Machine.stack)
      /\ \A j \in i..Len(m_callStack) : m_callStack[i].depth <= m_callStack[j].depth
  BY <1>1, <1>2, Depths
<1>4. i < Len(m_callStack) => i + 1 \in i..Len(m_callStack)
  BY <1>1, <1>2
<1> QED BY <1>1, <1>2, <1>3, <1>4 DEF NextDepth

\* The frames stay nested, whatever the game calls, returns from, throws to and
\* leaves on the stack (zops.c callRoutine, returnRoutine, throw).
THEOREM FramesStayNested == StackSpec => []FramesNested
<1>1. CallsInv => FramesNested
  BY SoundNested DEF CallsInv
<1> QED BY <1>1, CallsInvariant, PTL

LEMMA InitIsEach == Init => Each!Init
<1> SUFFICES ASSUME Init PROVE Each!Init
  OBVIOUS
<1> DEFINE x == Machine
<1>1. x.calls = <<MainFrame>> /\ x.stack = <<>>
  BY DEF Init, Machine
<1>2. Sound(x)
  BY InitSound DEF StackInv
<1> HIDE DEF x
<1>3. Len(x.calls) = 1 /\ x.calls[1] = MainFrame /\ Len(x.stack) = 0
  BY <1>1
<1>4. OwnStack(x, 1) = <<>>
  <2>1. OwnStack(x, 1) \in Seq(Int) /\ Len(OwnStack(x, 1)) = Len(x.stack) - 0
    <3>1. NextDepth(x, 1) = Len(x.stack) /\ x.calls[1].depth = 0
      BY <1>3 DEF NextDepth, MainFrame
    <3> QED BY <1>2, <1>3, <3>1, OwnStackOf
  <2> QED BY <1>3, <2>1
<1>5. Frames(x)[1] = [back |-> 0, store |-> 0, args |-> 0, locals |-> <<>>,
                      stack |-> <<>>]
  BY <1>2, <1>3, <1>4, FramesOf DEF MainFrame
<1>6. Frames(x) \in Seq(FrameRecords) /\ Len(Frames(x)) = 1
  BY <1>2, <1>3, FramesAreRecords
<1>7. Frames(x) = <<[back |-> 0, store |-> 0, args |-> 0, locals |-> <<>>,
                    stack |-> <<>>]>>
  BY <1>5, <1>6
<1> QED BY <1>7 DEF Each!Init, x

\* Each call has locals and a stack of its own, although all share one: an
\* instruction leaves its callers alone, a call begins with nothing on its stack and
\* takes only its operands from its caller's, and a result goes to the variable that
\* the caller named and to nothing else of the calls (zops.c callRoutine,
\* returnRoutine, throw, setVariable).
CallsAreSeparate == Each!Spec

THEOREM CallsStaySeparate == StackSpec => CallsAreSeparate
<1>1. Init => Each!Init
  BY InitIsEach
<1>2. CallsInv /\ [Instruction]_machineVars => [Each!Next]_(Each!vars)
  <2> SUFFICES ASSUME CallsInv, [Instruction]_machineVars PROVE [Each!Next]_(Each!vars)
    OBVIOUS
  <2>1. CASE UNCHANGED machineVars
    BY <2>1 DEF machineVars, Machine, Frames, OwnStack, NextDepth, Globals, GlobalValue,
                Each!vars
  <2>2. CASE Instruction
    BY <2>2, InstructionKeepsCalls DEF CallKept, Each!Next, CallsInv
  <2> QED BY <2>1, <2>2
<1> QED BY <1>1, <1>2, CallsInvariant, PTL DEF StackSpec, Each!Spec, CallsAreSeparate

\* A byte is the sum of its bits.
Bit(a, weight) == (a \div weight) % 2
Sum8(b) == b[1] + 2 * b[2] + 4 * b[3] + 8 * b[4] + 16 * b[5] + 32 * b[6] + 64 * b[7]
               + 128 * b[8]
Weight == <<1, 2, 4, 8, 16, 32, 64, 128>>
Eight == [1..8 -> {0, 1}]
Bits(a) == [i \in 1..8 |-> Bit(a, Weight[i])]

LEMMA BitsOfByte ==
    ASSUME NEW a \in Byte
    PROVE  Bits(a) \in Eight /\ Sum8(Bits(a)) = a
<1>1. /\ Bits(a)[1] = a % 2 /\ Bits(a)[2] = (a \div 2) % 2
      /\ Bits(a)[3] = (a \div 4) % 2 /\ Bits(a)[4] = (a \div 8) % 2
      /\ Bits(a)[5] = (a \div 16) % 2 /\ Bits(a)[6] = (a \div 32) % 2
      /\ Bits(a)[7] = (a \div 64) % 2 /\ Bits(a)[8] = (a \div 128) % 2
  BY DEF Bits, Bit, Weight, Byte
<1>2. Sum8(Bits(a)) = a
  BY <1>1 DEF Sum8, Byte
<1>3. \A i \in 1..8 : Bits(a)[i] \in {0, 1}
  BY <1>1 DEF Byte
<1>4. Bits(a) = [i \in 1..8 |-> Bits(a)[i]]
  BY DEF Bits
<1> QED BY <1>2, <1>3, <1>4 DEF Eight

LEMMA ByteOfBits ==
    ASSUME NEW b \in Eight
    PROVE  Sum8(b) \in Byte /\ Bits(Sum8(b)) = b
<1>1. /\ b[1] \in {0, 1} /\ b[2] \in {0, 1} /\ b[3] \in {0, 1} /\ b[4] \in {0, 1}
      /\ b[5] \in {0, 1} /\ b[6] \in {0, 1} /\ b[7] \in {0, 1} /\ b[8] \in {0, 1}
  BY DEF Eight
<1> DEFINE a == Sum8(b)
<1>2. a \in Byte
  BY <1>1 DEF Sum8, Byte
<1>3. /\ a % 2 = b[1] /\ (a \div 2) % 2 = b[2] /\ (a \div 4) % 2 = b[3]
      /\ (a \div 8) % 2 = b[4] /\ (a \div 16) % 2 = b[5] /\ (a \div 32) % 2 = b[6]
      /\ (a \div 64) % 2 = b[7] /\ (a \div 128) % 2 = b[8]
  BY <1>1 DEF Sum8
<1> HIDE DEF a
<1>4. /\ Bits(a)[1] = a % 2 /\ Bits(a)[2] = (a \div 2) % 2
      /\ Bits(a)[3] = (a \div 4) % 2 /\ Bits(a)[4] = (a \div 8) % 2
      /\ Bits(a)[5] = (a \div 16) % 2 /\ Bits(a)[6] = (a \div 32) % 2
      /\ Bits(a)[7] = (a \div 64) % 2 /\ Bits(a)[8] = (a \div 128) % 2
  BY <1>2 DEF Bits, Bit, Weight, Byte
<1>5. \A i \in 1..8 : Bits(a)[i] = b[i]
  BY <1>3, <1>4
<1>6. Bits(a) = [i \in 1..8 |-> Bits(a)[i]] /\ b = [i \in 1..8 |-> b[i]]
  BY DEF Bits, Eight
<1> QED BY <1>2, <1>5, <1>6 DEF a

XorBits(a, b) == [i \in 1..8 |-> (a[i] + b[i]) % 2]

LEMMA XorIsByBit ==
    ASSUME NEW a \in Byte, NEW b \in Byte
    PROVE  /\ XorBits(Bits(a), Bits(b)) \in Eight
           /\ Xor(a, b) = Sum8(XorBits(Bits(a), Bits(b)))
<1> DEFINE c == XorBits(Bits(a), Bits(b))
<1>1. \A i \in 1..8 : Bits(a)[i] \in {0, 1} /\ Bits(b)[i] \in {0, 1}
  BY BitsOfByte DEF Eight
<1>2. \A i \in 1..8 : c[i] = (Bits(a)[i] + Bits(b)[i]) % 2 /\ c[i] \in {0, 1}
  BY <1>1 DEF XorBits
<1>3. c = [i \in 1..8 |-> c[i]]
  BY DEF XorBits
<1>4. c \in Eight
  BY <1>2, <1>3 DEF Eight
<1>5. ASSUME NEW w \in {1, 2, 4, 8, 16, 32, 64, 128}
      PROVE  Differ(a, b, w) = w * ((Bit(a, w) + Bit(b, w)) % 2)
  <2>1. a \div w \in Nat /\ b \div w \in Nat
    BY DEF Byte
  <2> DEFINE x == a \div w
             y == b \div w
  <2> HIDE DEF x, y
  <2>2. (x + y) % 2 = ((x % 2) + (y % 2)) % 2
    BY <2>1 DEF x, y
  <2>3. Differ(a, b, w) = w * ((x + y) % 2) /\ Bit(a, w) = x % 2 /\ Bit(b, w) = y % 2
    BY DEF Differ, Bit, x, y
  <2>4. (Bit(a, w) + Bit(b, w)) % 2 = (x + y) % 2
    BY <2>2, <2>3
  <2> QED BY <2>3, <2>4
<1> HIDE DEF c
<1>6. /\ Bits(a)[1] = Bit(a, 1) /\ Bits(a)[2] = Bit(a, 2) /\ Bits(a)[3] = Bit(a, 4)
      /\ Bits(a)[4] = Bit(a, 8) /\ Bits(a)[5] = Bit(a, 16) /\ Bits(a)[6] = Bit(a, 32)
      /\ Bits(a)[7] = Bit(a, 64) /\ Bits(a)[8] = Bit(a, 128)
  BY DEF Bits, Weight
<1>7. /\ Bits(b)[1] = Bit(b, 1) /\ Bits(b)[2] = Bit(b, 2) /\ Bits(b)[3] = Bit(b, 4)
      /\ Bits(b)[4] = Bit(b, 8) /\ Bits(b)[5] = Bit(b, 16) /\ Bits(b)[6] = Bit(b, 32)
      /\ Bits(b)[7] = Bit(b, 64) /\ Bits(b)[8] = Bit(b, 128)
  BY DEF Bits, Weight
<1>8. /\ Differ(a, b, 1) = c[1] /\ Differ(a, b, 2) = 2 * c[2]
      /\ Differ(a, b, 4) = 4 * c[3] /\ Differ(a, b, 8) = 8 * c[4]
      /\ Differ(a, b, 16) = 16 * c[5] /\ Differ(a, b, 32) = 32 * c[6]
      /\ Differ(a, b, 64) = 64 * c[7] /\ Differ(a, b, 128) = 128 * c[8]
  BY <1>2, <1>5, <1>6, <1>7
<1>9. Xor(a, b) = Sum8(c)
  BY <1>8 DEF Xor, Sum8
<1> QED BY <1>4, <1>9 DEF c

\* The exclusive or of two bytes is a byte, is zero only if they are equal, and turns
\* the first into the second.
LEMMA XorOfBytes ==
    ASSUME NEW a \in Byte, NEW b \in Byte
    PROVE  /\ Xor(a, b) \in Byte /\ Xor(a, Xor(a, b)) = b
           /\ Xor(a, b) = 0 <=> a = b
<1> DEFINE x == XorBits(Bits(a), Bits(b))
<1>1. x \in Eight /\ Xor(a, b) = Sum8(x)
  BY XorIsByBit
<1>2. Xor(a, b) \in Byte /\ Bits(Xor(a, b)) = x
  BY <1>1, ByteOfBits
<1>3. Bits(a) \in Eight /\ Bits(b) \in Eight /\ Sum8(Bits(a)) = a /\ Sum8(Bits(b)) = b
  BY BitsOfByte
<1>4. XorBits(Bits(a), x) = Bits(b)
  <2>1. \A i \in 1..8 : /\ Bits(a)[i] \in {0, 1} /\ Bits(b)[i] \in {0, 1}
                        /\ x[i] = (Bits(a)[i] + Bits(b)[i]) % 2
    BY <1>3 DEF Eight, XorBits
  <2>2. \A i \in 1..8 : (Bits(a)[i] + x[i]) % 2 = Bits(b)[i]
    BY <2>1
  <2>3. Bits(b) = [i \in 1..8 |-> Bits(b)[i]]
    BY DEF Bits
  <2> HIDE DEF x
  <2> QED BY <2>2, <2>3 DEF XorBits
<1>5. Xor(a, Xor(a, b)) = b
  BY <1>2, <1>3, <1>4, XorIsByBit
<1>6. ASSUME a = b PROVE Xor(a, b) = 0
  <2>1. \A i \in 1..8 : x[i] = 0
    BY <1>3, <1>6 DEF Eight, XorBits
  <2> HIDE DEF x
  <2> QED BY <1>1, <2>1 DEF Sum8
<1>7. ASSUME Xor(a, b) = 0 PROVE a = b
  <2>1. Xor(a, a) = 0
    <3>1. \A i \in 1..8 : XorBits(Bits(a), Bits(a))[i] = 0
      BY <1>3 DEF Eight, XorBits
    <3>2. Xor(a, a) = Sum8(XorBits(Bits(a), Bits(a)))
      BY XorIsByBit
    <3> QED BY <3>1, <3>2 DEF Sum8
  <2>2. Xor(a, a) = Xor(a, b)
    BY <1>7, <2>1
  <2>3. x = XorBits(Bits(a), Bits(a))
    <3>1. XorBits(Bits(a), Bits(a)) = Bits(Xor(a, a))
      BY XorIsByBit, ByteOfBits
    <3> QED BY <1>2, <2>2, <3>1
  <2>4. \A i \in 1..8 : /\ Bits(a)[i] \in {0, 1} /\ Bits(b)[i] \in {0, 1}
                        /\ (Bits(a)[i] + Bits(b)[i]) % 2 = (Bits(a)[i] + Bits(a)[i]) % 2
    BY <1>3, <2>3 DEF Eight, XorBits
  <2>5. \A i \in 1..8 : Bits(a)[i] = Bits(b)[i]
    BY <2>4
  <2>6. Bits(a) = [i \in 1..8 |-> Bits(a)[i]] /\ Bits(b) = [i \in 1..8 |-> Bits(b)[i]]
    BY DEF Bits
  <2>7. Bits(a) = Bits(b)
    BY <2>5, <2>6
  <2> QED BY <1>3, <2>7
<1> QED BY <1>2, <1>5, <1>6, <1>7

--------------------------------------------------------------------------------
(***************************************************************************)
(* Dynamic memory: what is restored is what was saved.                     *)
(***************************************************************************)
Saving == INSTANCE Folding WITH op <- SaveByte
Reading == INSTANCE Folding WITH op <- RestoreByte
Stacking == INSTANCE Folding WITH op <- RestoreFrame
Chunking == INSTANCE Folding WITH op <- restoreChunk

\* FoldLeft is the same there.
LEMMA FoldsAgree ==
    ASSUME NEW base, NEW seq
    PROVE  /\ FoldLeft(SaveByte, base, seq) = Saving!Folded(base, seq)
           /\ FoldLeft(RestoreByte, base, seq) = Reading!Folded(base, seq)
           /\ FoldLeft(RestoreFrame, base, seq) = Stacking!Folded(base, seq)
           /\ FoldLeft(restoreChunk, base, seq) = Chunking!Folded(base, seq)
<1>1. FoldLeft(SaveByte, base, seq) = Saving!Folded(base, seq)
  BY DEF FoldLeft, MapThenFoldSet, Max, Saving!Folded, Saving!FoldLeft,
         Saving!MapThenFoldSet, Saving!Max
<1>2. FoldLeft(RestoreByte, base, seq) = Reading!Folded(base, seq)
  BY DEF FoldLeft, MapThenFoldSet, Max, Reading!Folded, Reading!FoldLeft,
         Reading!MapThenFoldSet, Reading!Max
<1>3. FoldLeft(RestoreFrame, base, seq) = Stacking!Folded(base, seq)
  BY DEF FoldLeft, MapThenFoldSet, Max, Stacking!Folded, Stacking!FoldLeft,
         Stacking!MapThenFoldSet, Stacking!Max
<1>4. FoldLeft(restoreChunk, base, seq) = Chunking!Folded(base, seq)
  BY DEF FoldLeft, MapThenFoldSet, Max, Chunking!Folded, Chunking!FoldLeft,
         Chunking!MapThenFoldSet, Chunking!Max
<1> QED BY <1>1, <1>2, <1>3, <1>4

\* How many pairs of bytes stand for a run.
Pairs(n) == (n + MaxRun - 1) \div MaxRun
RunLength(n, k) == IF k < Pairs(n) THEN MaxRun ELSE n - MaxRun * (Pairs(n) - 1)

LEMMA ZerosOf ==
    ASSUME NEW n \in Nat
    PROVE  /\ Pairs(n) \in Nat /\ (Pairs(n) = 0 => n = 0)
           /\ Zeros(n) \in Seq(Int) /\ Len(Zeros(n)) = 2 * Pairs(n)
           /\ \A k \in 0..(Pairs(n) - 1) :
                 /\ Zeros(n)[2 * k + 1] = 0
                 /\ Zeros(n)[2 * k + 2] = RunLength(n, k + 1) - 1
<1> DEFINE M == MaxRun
           p == Pairs(n)
<1>1. M \in Nat /\ M > 0
  BY MaxRunAssumption
<1>2. p \in Nat /\ (p = 0 => n = 0)
  <2> DEFINE x == n + M - 1
  <2>1. x \in Nat /\ x >= M - 1 /\ (x < M => n = 0)
    BY <1>1
  <2>2. p = x \div M
    BY DEF Pairs
  <2> HIDE DEF x, p, M
  <2>3. x \div M \in Nat
    BY <1>1, <2>1
  <2>4. x \div M = 0 => x < M
    BY <1>1, <2>1
  <2> QED BY <2>1, <2>2, <2>3, <2>4
<1> DEFINE e(j) == IF j % 2 = 1 THEN 0 ELSE RunLength(n, j \div 2) - 1
<1>3. Zeros(n) = [j \in 1..(2 * p) |-> e(j)]
  BY DEF Zeros, Run, RunLength, Pairs
<1>4. \A j \in 1..(2 * p) : e(j) \in Int
  <2>1. \A k \in Int : RunLength(n, k) \in Int
    BY <1>1, <1>2 DEF RunLength
  <2>2. \A j \in 1..(2 * p) : j \div 2 \in Int
    BY <1>2
  <2> QED BY <2>1, <2>2
<1>5. \A k \in 0..(p - 1) : /\ 2 * k + 1 \in 1..(2 * p) /\ 2 * k + 2 \in 1..(2 * p)
                            /\ (2 * k + 1) % 2 = 1 /\ (2 * k + 2) % 2 # 1
                            /\ (2 * k + 2) \div 2 = k + 1
  BY <1>2
<1>6. 2 * p \in Nat
  BY <1>2
<1> HIDE DEF p, e
<1>7. Zeros(n) \in Seq(Int) /\ Len(Zeros(n)) = 2 * p
  BY <1>3, <1>4, <1>6
<1>8. \A k \in 0..(p - 1) : /\ Zeros(n)[2 * k + 1] = e(2 * k + 1)
                            /\ Zeros(n)[2 * k + 2] = e(2 * k + 2)
  BY <1>3, <1>5
<1>9. \A k \in 0..(p - 1) : /\ e(2 * k + 1) = 0
                            /\ e(2 * k + 2) = RunLength(n, k + 1) - 1
  BY <1>5 DEF e
<1> QED BY <1>2, <1>7, <1>8, <1>9 DEF p

\* A run is skipped.
LEMMA ZerosSkip ==
    ASSUME NEW d, NEW at \in Nat, NEW n \in Nat
    PROVE  Reading!Folded([dynamic |-> d, i |-> at, zero |-> FALSE], Zeros(n))
              = [dynamic |-> d, i |-> at + n, zero |-> FALSE]
<1> DEFINE M == MaxRun
           p == Pairs(n)
           far(k) == IF k < p THEN M * k ELSE n
           r(i, zero) == [dynamic |-> d, i |-> at + i, zero |-> zero]
           S == [j \in 0..(2 * p) |-> IF j % 2 = 0 THEN {r(far(j \div 2), FALSE)}
                                      ELSE {r(far(j \div 2), TRUE)}]
           base == r(0, FALSE)
<1>1. M \in Nat /\ M > 0
  BY MaxRunAssumption
<1>2. /\ p \in Nat /\ (p = 0 => n = 0)
      /\ Zeros(n) \in Seq(Int) /\ Len(Zeros(n)) = 2 * p
      /\ \A k \in 0..(p - 1) : /\ Zeros(n)[2 * k + 1] = 0
                               /\ Zeros(n)[2 * k + 2] = RunLength(n, k + 1) - 1
  BY ZerosOf
<1>3. far(0) = 0 /\ far(p) = n
  BY <1>1, <1>2
<1>4. ASSUME NEW k \in 0..(p - 1)
      PROVE  /\ far(k) = M * k /\ far(k) \in Nat
             /\ far(k) + RunLength(n, k + 1) = far(k + 1) /\ RunLength(n, k + 1) \in Int
  <2>1. k \in Nat /\ k < p
    BY <1>2
  <2>2. M * k \in Nat /\ M * (k + 1) = M * k + M
    BY <1>1, <2>1
  <2>3. CASE k + 1 < p
    BY <1>1, <2>1, <2>2, <2>3 DEF RunLength
  <2>4. CASE ~(k + 1 < p)
    <3>1. k = p - 1
      BY <1>2, <2>1, <2>4
    <3>2. RunLength(n, k + 1) = n - M * k
      BY <2>4, <3>1 DEF RunLength
    <3> QED BY <2>1, <2>2, <2>4, <3>2
  <2> QED BY <2>3, <2>4
<1> HIDE DEF p, far
<1>5. base \in S[0]
  <2>1. 0 \in 0..(2 * p) /\ 0 % 2 = 0 /\ 0 \div 2 = 0
    BY <1>2
  <2>2. S[0] = {r(far(0), FALSE)}
    BY <2>1
  <2> QED BY <1>3, <2>2
<1>6. ASSUME NEW j \in 0..((2 * p) - 1), NEW s \in S[j]
      PROVE  RestoreByte(s, Zeros(n)[j + 1]) \in S[j + 1]
  <2> DEFINE k == j \div 2
  <2>1. k \in 0..(p - 1) /\ (j = 2 * k \/ j = 2 * k + 1)
    BY <1>2
  <2>2. k \in Nat /\ far(k) \in Nat
    BY <1>4, <2>1
  <2> HIDE DEF k
  <2>3. CASE j = 2 * k
    <3>1. j % 2 = 0 /\ (j + 1) % 2 # 0 /\ j \div 2 = k /\ (j + 1) \div 2 = k
      BY <2>2, <2>3
    <3>2. s = r(far(k), FALSE) /\ S[j + 1] = {r(far(k), TRUE)}
      BY <1>2, <3>1
    <3>3. Zeros(n)[j + 1] = 0
      BY <1>2, <2>1, <2>3
    <3>4. RestoreByte(s, 0) = r(far(k), TRUE)
      BY <3>2 DEF RestoreByte
    <3> QED BY <3>2, <3>3, <3>4
  <2>4. CASE j = 2 * k + 1
    <3>1. j % 2 # 0 /\ (j + 1) % 2 = 0 /\ j \div 2 = k /\ (j + 1) \div 2 = k + 1
      BY <2>2, <2>4
    <3>2. s = r(far(k), TRUE) /\ S[j + 1] = {r(far(k + 1), FALSE)}
      BY <1>2, <3>1
    <3> DEFINE byte == Zeros(n)[j + 1]
    <3>3. byte = RunLength(n, k + 1) - 1
      <4>1. j + 1 = 2 * k + 2
        BY <2>2, <2>4
      <4> QED BY <1>2, <2>1, <4>1
    <3>4. (at + far(k)) + byte + 1 = at + far(k + 1)
      BY <1>4, <2>1, <2>2, <3>3
    <3> HIDE DEF byte
    <3>5. RestoreByte(s, byte) = [s EXCEPT !.zero = FALSE, !.i = s.i + byte + 1]
      BY <3>2 DEF RestoreByte
    <3>6. RestoreByte(s, byte) = r(far(k + 1), FALSE)
      BY <3>2, <3>4, <3>5
    <3> QED BY <3>2, <3>6 DEF byte
  <2> QED BY <2>1, <2>3, <2>4
<1>7. 2 * p \in Nat /\ DOMAIN Zeros(n) = 1..(2 * p)
  BY <1>2
<1> DEFINE m == 2 * p
           seq == Zeros(n)
<1>8. S[m] = {r(n, FALSE)}
  <2>1. m % 2 = 0 /\ m \div 2 = p
    BY <1>2
  <2> QED BY <1>3, <1>7, <2>1
<1>9. \A j \in 0..(m - 1) : \A s \in S[j] : RestoreByte(s, seq[j + 1]) \in S[j + 1]
  BY <1>6
<1> HIDE DEF S, m, seq, base
<1>10. Reading!Folded(base, seq) \in S[m]
  BY <1>5, <1>7, <1>9, Reading!FoldGoes DEF m, seq
<1>11. base = [dynamic |-> d, i |-> at, zero |-> FALSE]
  BY DEF base
<1> QED BY <1>8, <1>10, <1>11 DEF seq

\* Memory that has p bytes of d, and then those of the story.
Half(d, p) == [i \in Dynamic |-> IF i < p THEN d[i] ELSE memory[i]]
Start == [dynamic |-> memory, i |-> 0, zero |-> FALSE]

\* What is saved of the first k bytes: if it is read, they are as they were, but for the
\* last ones, which are as in the story.
IsSaved(d, k, run, bytes) ==
    /\ \A i \in (k - run)..(k - 1) : d[i] = memory[i]
    /\ Reading!Folded(Start, bytes) =
          [dynamic |-> Half(d, k - run), i |-> k - run, zero |-> FALSE]
SavedOf(d, k) ==
    {acc \in [zeroRun : 0..k, bytes : Seq(Int)] : IsSaved(d, k, acc.zeroRun, acc.bytes)}

LEMMA SavedParts ==
    ASSUME NEW d, NEW k
    PROVE  /\ \A acc \in SavedOf(d, k) :
                 /\ acc.zeroRun \in 0..k /\ acc.bytes \in Seq(Int)
                 /\ acc = [zeroRun |-> acc.zeroRun, bytes |-> acc.bytes]
                 /\ IsSaved(d, k, acc.zeroRun, acc.bytes)
           /\ \A z \in 0..k, b \in Seq(Int) :
                 IsSaved(d, k, z, b) => [zeroRun |-> z, bytes |-> b] \in SavedOf(d, k)
BY DEF SavedOf

LEMMA MemorySize ==
    /\ Cardinality(Dynamic) \in Nat /\ Dynamic = 0..(Cardinality(Dynamic) - 1)
    /\ memory \in [Dynamic -> Byte]
BY MemoryAssumption, FS_CardinalityType

LEMMA SaveByteGoes ==
    ASSUME NEW d \in [Dynamic -> Byte], NEW k \in 0..(Cardinality(Dynamic) - 1),
           NEW acc \in SavedOf(d, k)
    PROVE  SaveByte(acc, Xor(memory[k], d[k])) \in SavedOf(d, k + 1)
<1> DEFINE diff == Xor(memory[k], d[k])
<1>1. k \in Nat /\ k \in Dynamic /\ memory[k] \in Byte /\ d[k] \in Byte
  BY MemorySize
<1>2. /\ diff \in Byte /\ Xor(memory[k], diff) = d[k]
      /\ diff = 0 <=> memory[k] = d[k]
  BY <1>1, XorOfBytes
<1>3. PICK z \in 0..k, b \in Seq(Int) :
        /\ \A i \in (k - z)..(k - 1) : d[i] = memory[i]
        /\ acc = [zeroRun |-> z, bytes |-> b]
        /\ Reading!Folded(Start, b) = [dynamic |-> Half(d, k - z), i |-> k - z, zero |-> FALSE]
  <2>1. /\ acc.zeroRun \in 0..k /\ acc.bytes \in Seq(Int)
        /\ acc = [zeroRun |-> acc.zeroRun, bytes |-> acc.bytes]
        /\ IsSaved(d, k, acc.zeroRun, acc.bytes)
    BY SavedParts
  <2> QED BY <2>1 DEF IsSaved
<1> HIDE DEF diff
<1>4. CASE diff = 0
  <2>1. SaveByte(acc, diff) = [zeroRun |-> z + 1, bytes |-> b]
    BY <1>3, <1>4 DEF SaveByte
  <2>2. z + 1 \in 0..(k + 1) /\ (k + 1) - (z + 1) = k - z
        /\ \A i \in ((k + 1) - (z + 1))..((k + 1) - 1) : d[i] = memory[i]
    <3>1. \A i \in (k - z)..k : i = k \/ i \in (k - z)..(k - 1)
      BY <1>1
    <3>2. z + 1 \in 0..(k + 1) /\ (k + 1) - (z + 1) = k - z /\ (k + 1) - 1 = k
      BY <1>1
    <3> QED BY <1>2, <1>3, <1>4, <3>1, <3>2
  <2>3. IsSaved(d, k + 1, z + 1, b)
    BY <1>3, <2>2 DEF IsSaved
  <2> QED BY <2>1, <2>2, <2>3, SavedParts DEF diff
<1>5. CASE diff # 0
  <2> DEFINE run == Zeros(z)
             both == b \o run
             bytes == both \o <<diff>>
             half == Half(d, k - z)
             mid == [dynamic |-> half, i |-> k, zero |-> FALSE]
  <2>1. SaveByte(acc, diff) = [zeroRun |-> 0, bytes |-> bytes]
    BY <1>3, <1>5 DEF SaveByte
  <2>2. run \in Seq(Int) /\ z \in Nat /\ diff \in Int
    BY <1>1, <1>2, ZerosOf DEF Byte
  <2>3. Reading!Folded(Start, both) = mid
    <3> DEFINE from == [dynamic |-> half, i |-> k - z, zero |-> FALSE]
               n == Len(b)
               m == Len(run)
    <3>1. n \in Nat /\ m \in Nat /\ DOMAIN b = 1..n /\ DOMAIN run = 1..m
          /\ DOMAIN both = 1..(n + m) /\ (\A i \in 1..n : both[i] = b[i])
          /\ (\A i \in 1..m : both[n + i] = run[i])
      <4> HIDE DEF run
      <4> QED BY <2>2
    <3> HIDE DEF both, n, m, run
    <3>2. Reading!Folded(Start, both) = Reading!Folded(Reading!Folded(Start, b), run)
      BY <3>1, Reading!FoldBoth
    <3>3. Reading!Folded(Start, b) = from
      BY <1>3
    <3>4. k - z \in Nat /\ (k - z) + z = k
      BY <1>1
    <3> HIDE DEF half, mid
    <3>5. Reading!Folded(from, run) = [dynamic |-> half, i |-> (k - z) + z, zero |-> FALSE]
      BY <2>2, <3>4, ZerosSkip DEF run
    <3> QED BY <3>2, <3>3, <3>4, <3>5 DEF mid
  <2>4. Reading!Folded(Start, bytes) = RestoreByte(mid, diff)
    <3> DEFINE n == Len(both)
    <3>1. n \in Nat /\ DOMAIN both = 1..n /\ DOMAIN bytes = 1..(n + 1)
          /\ (\A i \in 1..n : bytes[i] = both[i]) /\ bytes[n + 1] = diff
      <4>1. both \in Seq(Int)
        BY <2>2
      <4> HIDE DEF both
      <4> QED BY <4>1, <2>2
    <3> HIDE DEF both, bytes, n, mid
    <3>2. Reading!Folded(Start, bytes)
             = RestoreByte(Reading!Folded(Start, both), bytes[n + 1])
      BY <3>1, Reading!FoldNext
    <3> QED BY <2>3, <3>1, <3>2
  <2>5. RestoreByte(mid, diff)
            = [dynamic |-> [half EXCEPT ![k] = Xor(half[k], diff)], i |-> k + 1,
               zero |-> FALSE]
    <3> HIDE DEF half
    <3> QED BY <1>5 DEF RestoreByte
  <2>6. [half EXCEPT ![k] = Xor(half[k], diff)] = Half(d, k + 1)
    <3>1. half[k] = memory[k]
      BY <1>1 DEF Half
    <3>2. Xor(half[k], diff) = d[k]
      BY <1>2, <3>1
    <3>3. \A i \in Dynamic : i # k => half[i] = Half(d, k + 1)[i]
      <4> SUFFICES ASSUME NEW i \in Dynamic, i # k PROVE half[i] = Half(d, k + 1)[i]
        OBVIOUS
      <4>1. i \in Nat
        BY MemorySize
      <4>2. CASE i < k - z
        BY <1>1, <4>1, <4>2 DEF Half
      <4>3. CASE i \in (k - z)..(k - 1)
        BY <1>1, <1>3, <4>1, <4>3 DEF Half
      <4>4. CASE i > k
        BY <1>1, <4>1, <4>4 DEF Half
      <4> QED BY <1>1, <4>1, <4>2, <4>3, <4>4
    <3>4. Half(d, k + 1)[k] = d[k]
      BY <1>1 DEF Half
    <3>5. half = [i \in Dynamic |-> half[i]]
          /\ Half(d, k + 1) = [i \in Dynamic |-> Half(d, k + 1)[i]]
      BY DEF Half
    <3> HIDE DEF half
    <3> QED BY <1>1, <3>2, <3>3, <3>4, <3>5
  <2>7. bytes \in Seq(Int)
    <3>1. both \in Seq(Int)
      BY <2>2
    <3> HIDE DEF both
    <3> QED BY <3>1, <2>2
  <2> HIDE DEF half, mid, run, both, bytes
  <2>9. Reading!Folded(Start, bytes)
            = [dynamic |-> Half(d, (k + 1) - 0), i |-> (k + 1) - 0, zero |-> FALSE]
    <3>1. (k + 1) - 0 = k + 1
      BY <1>1
    <3> QED BY <2>4, <2>5, <2>6, <3>1
  <2>10. IsSaved(d, k + 1, 0, bytes)
    <3>1. \A i \in ((k + 1) - 0)..((k + 1) - 1) : FALSE
      BY <1>1
    <3> QED BY <2>9, <3>1 DEF IsSaved
  <2>11. 0 \in 0..(k + 1)
    BY <1>1
  <2> QED BY <2>1, <2>7, <2>10, <2>11, SavedParts DEF diff
<1> QED BY <1>4, <1>5

LEMMA MemoryRestored ==
    ASSUME NEW d \in [Dynamic -> Byte]
    PROVE  restoreDynamicMemory(saveDynamicMemory(d)) = d
<1> DEFINE N == Cardinality(Dynamic)
           S == [k \in 0..N |-> SavedOf(d, k)]
           base == [zeroRun |-> 0, bytes |-> <<>>]
           seq == Differences(d)
           acc == Saving!Folded(base, seq)
<1>1. N \in Nat /\ Dynamic = 0..(N - 1) /\ memory \in [Dynamic -> Byte]
  BY MemorySize
<1>2. DOMAIN seq = 1..N /\ \A k \in 0..(N - 1) : seq[k + 1] = Xor(memory[k], d[k])
  <2>1. \A k \in 0..(N - 1) : k + 1 \in 1..N /\ (k + 1) - 1 = k
    BY <1>1
  <2> QED BY <2>1 DEF Differences
<1>3. base \in S[0]
  <2>1. <<>> \in Seq(Int) /\ DOMAIN <<>> = 1..0
    OBVIOUS
  <2>2. Reading!Folded(Start, <<>>) = Start
    BY <2>1, Reading!FoldNothing
  <2>3. Half(d, 0 - 0) = memory
    <3>1. \A i \in Dynamic : ~(i < 0 - 0)
      BY <1>1
    <3> QED BY <1>1, <3>1 DEF Half
  <2>4. IsSaved(d, 0, 0, <<>>)
    <3>1. \A i \in (0 - 0)..(0 - 1) : FALSE
      OBVIOUS
    <3>2. Start = [dynamic |-> Half(d, 0 - 0), i |-> 0 - 0, zero |-> FALSE]
      <4>1. 0 - 0 = 0
        OBVIOUS
      <4> QED BY <2>3, <4>1 DEF Start
    <3> QED BY <2>2, <3>1, <3>2 DEF IsSaved
  <2>5. base \in SavedOf(d, 0)
    <3>1. 0 \in 0..0
      OBVIOUS
    <3> QED BY <2>1, <2>4, <3>1, SavedParts
  <2> QED BY <1>1, <2>5
<1>4. \A k \in 0..(N - 1) : \A s \in S[k] : SaveByte(s, seq[k + 1]) \in S[k + 1]
  <2> SUFFICES ASSUME NEW k \in 0..(N - 1), NEW s \in S[k]
               PROVE  SaveByte(s, seq[k + 1]) \in S[k + 1]
    OBVIOUS
  <2>1. s \in SavedOf(d, k) /\ S[k + 1] = SavedOf(d, k + 1)
    BY <1>1
  <2> HIDE DEF S, seq
  <2> QED BY <1>2, <2>1, SaveByteGoes
<1>5. S[N] = SavedOf(d, N)
  BY <1>1
<1> HIDE DEF S, seq, base, N
<1>6. acc \in S[N]
  BY <1>1, <1>2, <1>3, <1>4, Saving!FoldGoes
<1> HIDE DEF acc
<1>7. PICK z \in 0..N, b \in Seq(Int) :
        /\ \A i \in (N - z)..(N - 1) : d[i] = memory[i]
        /\ acc = [zeroRun |-> z, bytes |-> b]
        /\ Reading!Folded(Start, b) = [dynamic |-> Half(d, N - z), i |-> N - z, zero |-> FALSE]
  <2>1. /\ acc.zeroRun \in 0..N /\ acc.bytes \in Seq(Int)
        /\ acc = [zeroRun |-> acc.zeroRun, bytes |-> acc.bytes]
        /\ IsSaved(d, N, acc.zeroRun, acc.bytes)
    BY <1>5, <1>6, SavedParts
  <2> QED BY <2>1 DEF IsSaved
<1>8. Half(d, N - z) = d
  <2>1. \A i \in Dynamic : Half(d, N - z)[i] = d[i]
    <3> SUFFICES ASSUME NEW i \in Dynamic PROVE Half(d, N - z)[i] = d[i]
      OBVIOUS
    <3>1. i \in 0..(N - 1)
      BY <1>1
    <3>2. CASE i < N - z
      BY <3>2 DEF Half
    <3>3. CASE ~(i < N - z)
      <4>1. i \in (N - z)..(N - 1)
        BY <1>1, <3>1, <3>3
      <4> QED BY <1>7, <3>3, <4>1 DEF Half
    <3> QED BY <3>2, <3>3
  <2>2. Half(d, N - z) = [i \in Dynamic |-> Half(d, N - z)[i]]
    BY DEF Half
  <2> QED BY <2>1, <2>2
<1>9. saveDynamicMemory(d) = b
  <2>1. saveDynamicMemory(d) = acc.bytes
    BY FoldsAgree DEF saveDynamicMemory, acc, base, seq
  <2> QED BY <1>7, <2>1
<1>10. restoreDynamicMemory(b) = Reading!Folded(Start, b).dynamic
  BY FoldsAgree DEF restoreDynamicMemory, Start
<1> QED BY <1>7, <1>8, <1>9, <1>10

--------------------------------------------------------------------------------
(***************************************************************************)
(* The stacks: the calls and the evaluation stack that are restored are    *)
(* those that were saved, but for the byte that a result's variable takes. *)
(***************************************************************************)
State(p, s, c, d) == [pc |-> p, stack |-> s, calls |-> c, dynamic |-> d]

LEMMA StateParts ==
    ASSUME NEW z \in Machines
    PROVE  z = State(z.pc, z.stack, z.calls, z.dynamic)
BY DEF Machines, State

\* A game whose stacks hold words, and fit.
Game(g) ==
    /\ Sound(g)
    /\ g.stack \in Seq(StackValue) /\ Len(g.stack) <= MaxStack
    /\ Len(g.calls) <= MaxFrames
    /\ \A i \in 1..Len(g.calls) : g.calls[i].locals \in Seq(LocalValue)

LEMMA WordIsKept ==
    ASSUME NEW v \in Word
    PROVE  makeS16(Msb(v), Lsb(v)) = v
<1>1. v \in Int /\ S16(v) = v
  <2> DEFINE x == v + 32768
  <2>0. v \in Int /\ -32768 <= v /\ v <= 32767
    BY SMTT(20) DEF Word
  <2>1. x \in Int /\ 0 <= x /\ x <= 65535 /\ v = x - 32768
    BY <2>0
  <2> HIDE DEF x
  <2>2. x % 65536 = x
    BY <2>1
  <2>3. S16(v) = (x % 65536) - 32768
    BY DEF S16, x
  <2> QED BY <2>0, <2>1, <2>2, <2>3
<1> QED BY <1>1, WordFromBytes

LEMMA WordsOfBytes ==
    ASSUME NEW v \in Seq(Word)
    PROVE  Words(Bytes(v), Len(v)) = v
<1>1. DOMAIN v = 1..Len(v) /\ \A i \in 1..Len(v) : v[i] \in Word
  OBVIOUS
<1>2. v = [i \in 1..Len(v) |-> v[i]]
  OBVIOUS
<1>3. \A i \in 1..Len(v) : /\ Bytes(v)[i][1] = Msb(v[i])
                           /\ Bytes(v)[i][2] = Lsb(v[i])
  BY <1>1 DEF Bytes
<1>4. \A i \in 1..Len(v) : makeS16(Bytes(v)[i][1], Bytes(v)[i][2]) = v[i]
  BY <1>1, <1>3, WordIsKept
<1> QED BY <1>2, <1>4 DEF Words

StoredCall(cs) == [cs EXCEPT !.returnStore = SavedStore(cs)]
StoredCalls(calls) == [i \in 1..Len(calls) |-> StoredCall(calls[i])]

LEMMA StoredCallParts ==
    ASSUME NEW cs \in CallFrames
    PROVE  /\ SavedStore(cs) \in Byte
           /\ StoredCall(cs) \in CallFrames
           /\ cs.returnStore # NoStore => StoredCall(cs) = cs
           /\ StoredCall(cs) =
                 [returnAddr |-> cs.returnAddr, returnStore |-> SavedStore(cs),
                  setArguments |-> cs.setArguments, locals |-> cs.locals,
                  depth |-> cs.depth]
<1>1. cs.returnStore \in {NoStore} \cup Byte
  BY DEF CallFrames
<1>2. SavedStore(cs) \in Byte /\ (cs.returnStore # NoStore => SavedStore(cs) = cs.returnStore)
  BY <1>1 DEF SavedStore, Byte, NoStore
<1>3. /\ StoredCall(cs) \in CallFrames
      /\ StoredCall(cs) =
                 [returnAddr |-> cs.returnAddr, returnStore |-> SavedStore(cs),
                  setArguments |-> cs.setArguments, locals |-> cs.locals,
                  depth |-> cs.depth]
  BY <1>2 DEF StoredCall, CallFrames
<1>4. SavedStore(cs) = cs.returnStore => StoredCall(cs) = cs
  BY DEF StoredCall, CallFrames
<1> QED BY <1>2, <1>3, <1>4

\* How deep the stack is when k calls have been restored.
DepthAfter(g, k) == IF k < Len(g.calls) THEN g.calls[k + 1].depth ELSE Len(g.stack)

\* The frame of one call.
LEMMA FrameIsKept ==
    ASSUME NEW g, Game(g), NEW i \in 1..Len(g.calls)
    PROVE  LET f == SavedFrame(g, i)
               cs == g.calls[i]
           IN /\ f.returnAddr = cs.returnAddr /\ f.setArguments = cs.setArguments
              /\ f.returnStore = SavedStore(cs)
              /\ Words(f.locals, f.numLocals) = cs.locals
              /\ Words(f.stack, f.depth) = OwnStack(g, i)
<1> DEFINE f == SavedFrame(g, i)
           cs == g.calls[i]
<1>1. Sound(g) /\ cs \in CallFrames
  BY Depths DEF Game
<1>2. /\ cs.returnAddr \in Location /\ cs.setArguments \in 0..127
      /\ cs.locals \in Seq(Int) /\ Len(cs.locals) <= 15 /\ cs.depth \in Nat
  BY <1>1, FrameParts
<1>3. /\ NextDepth(g, i) \in cs.depth..Len(g.stack)
      /\ OwnStack(g, i) = [k \in 1..(NextDepth(g, i) - cs.depth) |-> g.stack[k + cs.depth]]
      /\ Len(OwnStack(g, i)) = NextDepth(g, i) - cs.depth
  BY <1>1, OwnStackOf
<1>4. cs.locals \in Seq(Word)
  <2>1. cs.locals \in Seq(LocalValue) /\ LocalValue \subseteq Word
    BY ValueAssumption DEF Game
  <2> QED BY <2>1
<1> DEFINE m == NextDepth(g, i) - cs.depth
           L == Len(g.stack)
<1>5. L \in Nat /\ L <= 65535 /\ m \in Nat /\ m <= 65535 /\ m + cs.depth <= L
  <2>1. L \in Nat /\ L <= 65535
    <3>1. g.stack \in Seq(StackValue) /\ L <= MaxStack
      BY DEF Game
    <3>2. L \in Nat
      BY <3>1
    <3> HIDE DEF L
    <3>3. MaxStack \in 0..65535
      BY BoundAssumption
    <3> QED BY <3>1, <3>2, <3>3
  <2> DEFINE N == NextDepth(g, i)
             c == cs.depth
  <2>2. N \in c..L /\ c \in Nat /\ m = N - c
    BY <1>2, <1>3
  <2> HIDE DEF L, N, c, m, cs
  <2>3. N \in Int /\ c <= N /\ N <= L /\ L \in Int /\ c \in Int /\ 0 <= c
    BY <2>1, <2>2
  <2>4. m \in Int /\ 0 <= m /\ m <= 65535 /\ m + c <= L
    BY <2>1, <2>2, <2>3
  <2> QED BY <2>1, <2>4 DEF c
<1>6. OwnStack(g, i) \in Seq(Word)
  <2>1. g.stack \in Seq(Word)
    <3>1. g.stack \in Seq(StackValue) /\ StackValue \subseteq Word
      BY ValueAssumption DEF Game
    <3> QED BY <3>1
  <2>2. \A k \in 1..L : g.stack[k] \in Word
    BY <2>1
  <2>3. \A k \in 1..m : k + cs.depth \in 1..L
    <3> HIDE DEF m, L
    <3> QED BY <1>2, <1>5
  <2>4. \A k \in 1..m : g.stack[k + cs.depth] \in Word
    BY <2>2, <2>3
  <2>5. m \in Nat
    <3> HIDE DEF m, L, cs
    <3> QED BY <1>5
  <2>6. OwnStack(g, i) = [k \in 1..m |-> g.stack[k + cs.depth]]
    BY <1>3
  <2> HIDE DEF L, m, cs
  <2> QED BY <2>4, <2>5, <2>6
<1> DEFINE a == cs.setArguments
           l == Len(cs.locals)
           at == cs.returnAddr
           store == SavedStore(cs)
           lb == Bytes(cs.locals)
           sb == Bytes(OwnStack(g, i))
<1>7. f = [returnAddr |-> at % 2 ^ 24, numLocals |-> l % 16, returnStore |-> store,
           setArguments |-> a % 256, depth |-> m % 65536, locals |-> lb, stack |-> sb]
  BY DEF SavedFrame
<1>8. at % 2 ^ 24 = at
  BY <1>2, Locations
<1>9. a \in 0..127 /\ l \in 0..15
  <2>1. l \in Nat /\ l <= 15
    BY <1>2
  <2> HIDE DEF l, cs
  <2> QED BY <1>2, <2>1
<1>10. a % 256 = a /\ l % 16 = l /\ m % 65536 = m
  <2> HIDE DEF m, a, l, L
  <2> QED BY <1>5, <1>9
<1>11. /\ f.returnAddr = at /\ f.numLocals = l /\ f.returnStore = store
       /\ f.setArguments = a /\ f.depth = m /\ f.locals = lb /\ f.stack = sb
  <2> HIDE DEF f, at, l, store, a, m, lb, sb, cs
  <2> QED BY <1>7, <1>8, <1>10
<1> HIDE DEF f, cs
<1>13. Words(f.locals, f.numLocals) = cs.locals
  BY <1>4, <1>11, WordsOfBytes
<1>14. Words(f.stack, f.depth) = OwnStack(g, i)
  <2>1. Len(OwnStack(g, i)) = m
    BY <1>3
  <2> HIDE DEF m
  <2> QED BY <1>6, <1>11, <2>1, WordsOfBytes, Zenon
<1> QED BY <1>11, <1>13, <1>14 DEF f, cs

\* The stack when k calls are restored, one more call's part of it, and nothing.
LEMMA CutParts ==
    ASSUME NEW s \in Seq(Int), NEW a \in Nat, NEW b \in Nat, a <= b, b <= Len(s)
    PROVE  /\ Cut(s, a) \in Seq(Int) /\ Len(Cut(s, a)) = a
           /\ Cut(s, a) \o SubSeq(s, a + 1, b) = Cut(s, b)
           /\ Cut(s, Len(s)) = s /\ Cut(s, 0) = <<>>
<1>1. Cut(s, a) \in Seq(Int) /\ Len(Cut(s, a)) = a
  BY DEF Cut
<1>2. Cut(s, Len(s)) = s /\ Cut(s, 0) = <<>>
  BY DEF Cut
<1>3. Cut(s, a) \o SubSeq(s, a + 1, b) = Cut(s, b)
  BY DEF Cut
<1> QED BY <1>1, <1>2, <1>3

LEMMA DepthsAfter ==
    ASSUME NEW g, Sound(g)
    PROVE  /\ Len(g.calls) \in Nat /\ Len(g.stack) \in Nat
           /\ DepthAfter(g, 0) = 0 /\ DepthAfter(g, Len(g.calls)) = Len(g.stack)
           /\ \A k \in 0..(Len(g.calls) - 1) :
                 /\ k + 1 \in 1..Len(g.calls)
                 /\ DepthAfter(g, k) = g.calls[k + 1].depth
                 /\ DepthAfter(g, k + 1) = NextDepth(g, k + 1)
                 /\ DepthAfter(g, k) \in Nat /\ DepthAfter(g, k + 1) \in Nat
                 /\ DepthAfter(g, k) <= DepthAfter(g, k + 1)
                 /\ DepthAfter(g, k + 1) <= Len(g.stack)
<1> DEFINE n == Len(g.calls)
           L == Len(g.stack)
<1>1. n \in Nat /\ n >= 1 /\ L \in Nat
  BY SoundParts
<1>2. g.calls[1].depth = 0
  BY DEF Sound
<1> HIDE DEF n, L
<1>3. DepthAfter(g, 0) = 0 /\ DepthAfter(g, n) = L
  BY <1>1, <1>2 DEF DepthAfter, n, L
<1>4. ASSUME NEW k \in 0..(n - 1)
      PROVE  /\ k + 1 \in 1..n
             /\ DepthAfter(g, k) = g.calls[k + 1].depth
             /\ DepthAfter(g, k + 1) = NextDepth(g, k + 1)
             /\ DepthAfter(g, k) \in Nat /\ DepthAfter(g, k + 1) \in Nat
             /\ DepthAfter(g, k) <= DepthAfter(g, k + 1)
             /\ DepthAfter(g, k + 1) <= L
  <2>1. k + 1 \in 1..n /\ k < n /\ k \in Nat
    BY <1>1
  <2>2. DepthAfter(g, k) = g.calls[k + 1].depth
    BY <2>1 DEF DepthAfter, n
  <2>3. DepthAfter(g, k + 1) = NextDepth(g, k + 1)
    BY DEF DepthAfter, NextDepth
  <2> DEFINE c == g.calls[k + 1].depth
             e == NextDepth(g, k + 1)
  <2>4. e \in c..L /\ c \in Nat
    BY <2>1, OwnStackOf DEF n, L
  <2> HIDE DEF c, e
  <2>5. e \in Nat /\ c <= e /\ e <= L
    BY <1>1, <2>4
  <2> QED BY <2>1, <2>2, <2>3, <2>4, <2>5 DEF c, e
<1> QED BY <1>1, <1>3, <1>4 DEF n, L

\* One more call is restored.
LEMMA FrameGoes ==
    ASSUME NEW g, Game(g), NEW k \in 0..(Len(g.calls) - 1), NEW p, NEW d,
           NEW s, s = State(p, Cut(g.stack, DepthAfter(g, k)),
                            Cut(StoredCalls(g.calls), k), d)
    PROVE  RestoreFrame(s, saveStacks(g)[k + 1])
              = State(p, Cut(g.stack, DepthAfter(g, k + 1)),
                      Cut(StoredCalls(g.calls), k + 1), d)
<1> DEFINE i == k + 1
           f == SavedFrame(g, i)
           cs == g.calls[i]
           a == DepthAfter(g, k)
           b == DepthAfter(g, i)
           all == StoredCalls(g.calls)
           one == [returnAddr |-> f.returnAddr, returnStore |-> f.returnStore,
                   setArguments |-> f.setArguments,
                   locals |-> Words(f.locals, f.numLocals), depth |-> Len(s.stack)]
           own == Words(f.stack, f.depth)
<1>1. Sound(g) /\ g.stack \in Seq(Int) /\ g.calls \in Seq(CallFrames)
  BY SoundParts DEF Game
<1>2. /\ i \in 1..Len(g.calls) /\ a = cs.depth /\ b = NextDepth(g, i)
      /\ a \in Nat /\ b \in Nat /\ a <= b /\ b <= Len(g.stack)
  BY <1>1, DepthsAfter
<1>3. saveStacks(g)[i] = f
  <2>1. DOMAIN g.calls = 1..Len(g.calls)
    BY <1>1
  <2> QED BY <1>2, <2>1 DEF saveStacks
<1>4. /\ f.returnAddr = cs.returnAddr /\ f.setArguments = cs.setArguments
      /\ f.returnStore = SavedStore(cs)
      /\ Words(f.locals, f.numLocals) = cs.locals
      /\ own = OwnStack(g, i)
  BY <1>2, FrameIsKept
<1>5. s.stack = Cut(g.stack, a) /\ s.calls = Cut(all, k)
  BY DEF State
<1>6. Len(s.stack) = a /\ s.stack \o own = Cut(g.stack, b)
  <2>1. OwnStack(g, i) = SubSeq(g.stack, a + 1, b)
    BY <1>2 DEF OwnStack
  <2>2. Len(Cut(g.stack, a)) = a /\ Cut(g.stack, a) \o SubSeq(g.stack, a + 1, b) = Cut(g.stack, b)
    <3>1. a \in Nat /\ b \in Nat /\ a <= b /\ b <= Len(g.stack) /\ g.stack \in Seq(Int)
      BY <1>1, <1>2
    <3> HIDE DEF a, b
    <3> QED BY <3>1, CutParts, Zenon
  <2>3. own = OwnStack(g, i) /\ s.stack = Cut(g.stack, a)
    BY <1>4, <1>5
  <2> HIDE DEF a, b, own
  <2> QED BY <2>1, <2>2, <2>3, Zenon
<1>7. one = all[i]
  <2>1. cs \in CallFrames
    BY <1>1, <1>2, Depths
  <2>2. all[i] = StoredCall(cs)
    BY <1>2 DEF StoredCalls
  <2>3. one = [returnAddr |-> cs.returnAddr, returnStore |-> SavedStore(cs),
               setArguments |-> cs.setArguments, locals |-> cs.locals,
               depth |-> cs.depth]
    <3> HIDE DEF f, cs, a, own
    <3> QED BY <1>2, <1>4, <1>6, Zenon
  <2> QED BY <2>1, <2>2, <2>3, StoredCallParts
<1>8. Append(Cut(all, k), all[i]) = Cut(all, i)
  <2>1. all \in Seq(CallFrames) /\ Len(all) = Len(g.calls)
    <3>1. \A j \in 1..Len(g.calls) : StoredCall(g.calls[j]) \in CallFrames
      BY <1>1, Depths, StoredCallParts
    <3>2. Len(g.calls) \in Nat
      BY <1>1
    <3> QED BY <3>1, <3>2 DEF StoredCalls
  <2> HIDE DEF all
  <2>2. k \in Nat /\ k < Len(all)
    BY <1>2, <2>1
  <2> QED BY <2>1, <2>2 DEF Cut
<1>9. RestoreFrame(s, f) = State(p, s.stack \o own, Append(s.calls, one), d)
  <2>1. RestoreFrame(s, f) = [s EXCEPT !.calls = Append(s.calls, one),
                                       !.stack = s.stack \o own]
    BY DEF RestoreFrame
  <2> HIDE DEF one, own, f
  <2> QED BY <2>1 DEF State
<1>10. RestoreFrame(s, f) = State(p, Cut(g.stack, b), Cut(all, i), d)
  <2> HIDE DEF one, own, f, all, a, b
  <2> QED BY <1>5, <1>6, <1>7, <1>8, <1>9, Zenon
<1> HIDE DEF f
<1> QED BY <1>3, <1>10, Zenon

LEMMA StacksRestored ==
    ASSUME NEW g, Game(g), NEW y, NEW p, NEW s, NEW c, NEW d, y = State(p, s, c, d)
    PROVE  restoreStacks(y, saveStacks(g)) = State(p, g.stack, StoredCalls(g.calls), d)
<1> DEFINE n == Len(g.calls)
           all == StoredCalls(g.calls)
           at(k) == State(p, Cut(g.stack, DepthAfter(g, k)), Cut(all, k), d)
           S == [k \in 0..n |-> {at(k)}]
           base == State(p, <<>>, <<>>, d)
           seq == saveStacks(g)
<1>1. Sound(g) /\ n \in Nat /\ g.stack \in Seq(Int) /\ g.calls \in Seq(CallFrames)
  BY SoundParts DEF Game
<1>2. all \in Seq(CallFrames) /\ Len(all) = n
  <2>1. \A j \in 1..n : StoredCall(g.calls[j]) \in CallFrames
    BY <1>1, Depths, StoredCallParts
  <2> QED BY <1>1, <2>1 DEF StoredCalls
<1> HIDE DEF all
<1>3. base \in S[0]
  <2>1. Cut(g.stack, 0) = <<>> /\ Cut(all, 0) = <<>>
    BY <1>1, <1>2 DEF Cut
  <2>2. DepthAfter(g, 0) = 0
    BY <1>1, DepthsAfter
  <2>3. at(0) = base
    BY <2>1, <2>2
  <2> HIDE DEF base, at, n
  <2> QED BY <1>1, <2>3
<1>4. ASSUME NEW k \in 0..(n - 1), NEW x \in S[k]
      PROVE  RestoreFrame(x, seq[k + 1]) \in S[k + 1]
  <2>1. k \in 0..n /\ k + 1 \in 0..n
    BY <1>1
  <2>2. x = at(k)
    <3> HIDE DEF at, n
    <3> QED BY <2>1
  <2>3. RestoreFrame(x, saveStacks(g)[k + 1])
           = State(p, Cut(g.stack, DepthAfter(g, k + 1)),
                   Cut(StoredCalls(g.calls), k + 1), d)
    <3> HIDE DEF S, base, seq
    <3> QED BY <2>2, FrameGoes DEF all
  <2>4. RestoreFrame(x, seq[k + 1]) = at(k + 1)
    BY <2>3, Zenon DEF all
  <2> HIDE DEF at, n, seq
  <2> QED BY <2>1, <2>4
<1>5. DOMAIN seq = 1..n
  BY <1>1 DEF saveStacks
<1>6. at(n) = State(p, g.stack, all, d)
  <2>1. DepthAfter(g, n) = Len(g.stack)
    BY <1>1, DepthsAfter
  <2>2. Cut(g.stack, Len(g.stack)) = g.stack /\ Cut(all, n) = all
    BY <1>1, <1>2 DEF Cut
  <2> QED BY <2>1, <2>2
<1>7. restoreStacks(y, seq) = Stacking!Folded(base, seq)
  <2>1. [y EXCEPT !.calls = <<>>, !.stack = <<>>] = base
    <3>1. [y EXCEPT !.calls = <<>>] = State(p, s, <<>>, d)
      BY DEF State
    <3>2. [y EXCEPT !.calls = <<>>, !.stack = <<>>]
             = [[y EXCEPT !.calls = <<>>] EXCEPT !.stack = <<>>]
      OBVIOUS
    <3>3. [State(p, s, <<>>, d) EXCEPT !.stack = <<>>] = base
      BY DEF State
    <3> HIDE DEF base
    <3> QED BY <3>1, <3>2, <3>3, Zenon
  <2> HIDE DEF base, seq
  <2> QED BY <2>1, FoldsAgree DEF restoreStacks
<1>8. S[n] = {at(n)}
  <2> HIDE DEF at, n
  <2> QED BY <1>1
<1> HIDE DEF S, seq, base, n, at
<1>9. Stacking!Folded(base, seq) \in S[n]
  BY <1>1, <1>3, <1>4, <1>5, Stacking!FoldGoes
<1> QED BY <1>6, <1>7, <1>8, <1>9 DEF seq, all

--------------------------------------------------------------------------------
(***************************************************************************)
(* Files: what is restored from one.                                       *)
(***************************************************************************)
\* The branch of a save takes one byte only if its offset fits it, and then does
\* (zops.c 1264: the place is found from the offset alone).
ShortBranches ==
    \A version \in Versions : version < 4 =>
        \A at \in DOMAIN SavePoint[version] :
            LET branch == SavePoint[version][at].branch IN
            branch.size = 1 <=> branch.offset \in 0..63

\* How far a file has been read.
Progress(z, found, refused) == [z |-> z, found |-> found, refused |-> refused]

WithZ(r, new) == [r EXCEPT !.z = new]
WithPlace(r, new) == [r EXCEPT !.z.pc = new]
WithMemory(r, new) == [r EXCEPT !.z.dynamic = new]
WithFound(r, new) == [r EXCEPT !.found = new]

LEMMA ProgressWith ==
    ASSUME NEW z, NEW found, NEW refused, NEW new
    PROVE  /\ Progress(z, found, refused).z = z
           /\ Progress(z, found, refused).found = found
           /\ Progress(z, found, refused).refused = refused
           /\ WithZ(Progress(z, found, refused), new) = Progress(new, found, refused)
           /\ WithFound(Progress(z, found, refused), new) = Progress(z, new, refused)
BY DEF Progress, WithZ, WithFound

LEMMA ProgressWithState ==
    ASSUME NEW p, NEW s, NEW c, NEW d, NEW found, NEW refused, NEW new
    PROVE  /\ WithPlace(Progress(State(p, s, c, d), found, refused), new)
                 = Progress(State(new, s, c, d), found, refused)
           /\ WithMemory(Progress(State(p, s, c, d), found, refused), new)
                 = Progress(State(p, s, c, new), found, refused)
BY DEF Progress, State, WithPlace, WithMemory

LEMMA HeaderRead ==
    ASSUME NEW p, NEW s, NEW c, NEW d, NEW found, NEW refused, NEW at, NEW r, NEW chunk,
           r = Progress(State(p, s, c, d), found, refused), ~refused,
           chunk = [id |-> "IFhd", story |-> Story, pc |-> at]
    PROVE  restoreChunk(r, chunk)
              = Progress(State(at, s, c, d), found \cup {"header"}, refused)
<1>1. restoreChunk(r, chunk) = [r EXCEPT !.z.pc = at, !.found = found \cup {"header"}]
  <2>1. ~r.refused /\ chunk.id = "IFhd" /\ chunk.story = Story /\ chunk.pc = at
        /\ r.found = found
    BY DEF Progress
  <2> QED BY <2>1 DEF restoreChunk
<1>2. [r EXCEPT !.z.pc = at, !.found = found \cup {"header"}]
         = WithFound(WithPlace(r, at), found \cup {"header"})
  BY DEF WithFound, WithPlace
<1>3. WithPlace(r, at) = Progress(State(at, s, c, d), found, refused)
  BY ProgressWithState
<1> QED BY <1>1, <1>2, <1>3, ProgressWith

LEMMA MemoryRead ==
    ASSUME NEW p, NEW s, NEW c, NEW d, NEW found, NEW refused, NEW bytes, NEW r, NEW chunk,
           r = Progress(State(p, s, c, d), found, refused), ~refused,
           chunk = [id |-> "CMem", bytes |-> bytes]
    PROVE  restoreChunk(r, chunk)
              = Progress(State(p, s, c, restoreDynamicMemory(bytes)),
                         found \cup {"mem"}, refused)
<1> DEFINE m == restoreDynamicMemory(bytes)
<1> HIDE DEF m
<1>1. restoreChunk(r, chunk) = [r EXCEPT !.z.dynamic = m, !.found = found \cup {"mem"}]
  <2>1. ~r.refused /\ chunk.id = "CMem" /\ chunk.bytes = bytes /\ r.found = found
    BY DEF Progress
  <2> QED BY <2>1 DEF restoreChunk, m
<1>2. [r EXCEPT !.z.dynamic = m, !.found = found \cup {"mem"}]
         = WithFound(WithMemory(r, m), found \cup {"mem"})
  BY DEF WithFound, WithMemory
<1>3. WithMemory(r, m) = Progress(State(p, s, c, m), found, refused)
  BY ProgressWithState
<1> QED BY <1>1, <1>2, <1>3, ProgressWith DEF m

LEMMA StacksRead ==
    ASSUME NEW z, NEW found, NEW refused, NEW frames, NEW r, NEW chunk,
           r = Progress(z, found, refused), ~refused, chunk = [id |-> "Stks", frames |-> frames]
    PROVE  restoreChunk(r, chunk)
              = Progress(restoreStacks(z, frames), found \cup {"stacks"}, refused)
<1> DEFINE y == restoreStacks(z, frames)
<1> HIDE DEF y
<1>1. restoreChunk(r, chunk) = [r EXCEPT !.z = y, !.found = found \cup {"stacks"}]
  <2>1. ~r.refused /\ chunk.id = "Stks" /\ chunk.frames = frames /\ r.found = found
        /\ r.z = z
    BY DEF Progress
  <2> QED BY <2>1 DEF restoreChunk, y
<1>2. [r EXCEPT !.z = y, !.found = found \cup {"stacks"}]
         = WithFound(WithZ(r, y), found \cup {"stacks"})
  BY DEF WithFound, WithZ
<1>3. WithZ(r, y) = Progress(y, found, refused)
  BY ProgressWith
<1> QED BY <1>1, <1>2, <1>3, ProgressWith DEF y

\* The header of another story, and everything after it.
LEMMA StoryRefused ==
    ASSUME NEW z, NEW found, NEW refused, NEW chunk,
           refused \/ (chunk.id = "IFhd" /\ chunk.story # Story),
           refused \in BOOLEAN
    PROVE  restoreChunk(Progress(z, found, refused), chunk) = Progress(z, found, TRUE)
<1> DEFINE r == Progress(z, found, refused)
<1>1. r.refused = refused
  BY DEF Progress
<1>2. CASE refused
  BY <1>1, <1>2 DEF restoreChunk, Progress
<1>3. CASE ~refused
  <2>1. restoreChunk(r, chunk) = [r EXCEPT !.refused = TRUE]
    BY <1>1, <1>3 DEF restoreChunk
  <2> QED BY <2>1 DEF Progress
<1> QED BY <1>2, <1>3

LEMMA ResultOf ==
    ASSUME NEW z, NEW chunks, NEW r,
           r = FoldLeft(restoreChunk, [z |-> z, found |-> {}, refused |-> FALSE], chunks)
    PROVE  /\ restoreState(z, chunks).z = r.z
           /\ restoreState(z, chunks).restored
                 <=> ~r.refused /\ r.found = {"header", "mem", "stacks"}
BY DEF restoreState

\* A file of another story leaves the machine as it is.
OtherStory(chunks) ==
    \E n \in Nat \ {0} :
        DOMAIN chunks = 1..n /\ chunks[1].id = "IFhd" /\ chunks[1].story # Story

LEMMA OtherStoryRead ==
    ASSUME NEW chunks, OtherStory(chunks), NEW z
    PROVE  restoreState(z, chunks).z = z /\ ~restoreState(z, chunks).restored
<1>1. PICK n \in Nat \ {0} :
        DOMAIN chunks = 1..n /\ chunks[1].id = "IFhd" /\ chunks[1].story # Story
  BY DEF OtherStory
<1> DEFINE base == [z |-> z, found |-> {}, refused |-> FALSE]
           none == {}
           yes == TRUE
           no == FALSE
           S == [k \in 0..n |-> IF k = 0 THEN {Progress(z, none, no)}
                                ELSE {Progress(z, none, yes)}]
<1> HIDE DEF none, yes, no
<1>2. base = Progress(z, none, no)
  BY DEF Progress, none, no
<1>3. base \in S[0]
  <2>1. S[0] = {Progress(z, none, no)}
    BY <1>1
  <2> HIDE DEF S, base
  <2> QED BY <1>2, <2>1
<1>4. ASSUME NEW k \in 0..(n - 1), NEW r \in S[k]
      PROVE  restoreChunk(r, chunks[k + 1]) \in S[k + 1]
  <2>1. k \in 0..n /\ k + 1 \in 0..n /\ k + 1 # 0
    BY <1>1
  <2>2. S[k + 1] = {Progress(z, none, yes)}
    BY <2>1
  <2>3. CASE k = 0
    <3>1. r = Progress(z, none, no)
      BY <2>1, <2>3
    <3>2. chunks[k + 1].id = "IFhd" /\ chunks[k + 1].story # Story
      BY <1>1, <2>3
    <3> HIDE DEF S, base
    <3>3. no \in BOOLEAN /\ yes = TRUE
      BY DEF no, yes
    <3>4. restoreChunk(Progress(z, none, no), chunks[k + 1]) = Progress(z, none, yes)
      BY <3>2, <3>3, StoryRefused
    <3> QED BY <2>2, <3>1, <3>4
  <2>4. CASE k # 0
    <3>1. r = Progress(z, none, yes)
      BY <2>1, <2>4
    <3> HIDE DEF S, base
    <3>2. yes /\ yes \in BOOLEAN /\ yes = TRUE
      BY DEF yes
    <3>3. restoreChunk(Progress(z, none, yes), chunks[k + 1]) = Progress(z, none, yes)
      BY <3>2, StoryRefused
    <3> QED BY <2>2, <3>1, <3>3
  <2> QED BY <2>3, <2>4
<1>5. S[n] = {Progress(z, none, yes)}
  BY <1>1
<1> DEFINE r == Chunking!Folded(base, chunks)
<1>6. r \in S[n]
  <2> HIDE DEF S, base
  <2>1. \A k \in 0..(n - 1) : \A s \in S[k] : restoreChunk(s, chunks[k + 1]) \in S[k + 1]
    BY <1>4
  <2> QED BY <1>1, <1>3, <2>1, Chunking!FoldGoes
<1>7. /\ restoreState(z, chunks).z = r.z
      /\ restoreState(z, chunks).restored
            <=> ~r.refused /\ r.found = {"header", "mem", "stacks"}
  <2>1. FoldLeft(restoreChunk, base, chunks) = r
    <3> HIDE DEF base
    <3> QED BY FoldsAgree
  <2> HIDE DEF r
  <2> QED BY <2>1, ResultOf
<1>8. r = Progress(z, none, yes)
  <2> HIDE DEF S, r
  <2> QED BY <1>5, <1>6
<1>9. r.z = z /\ r.refused
  <2> HIDE DEF r
  <2> QED BY <1>8 DEF Progress, yes
<1> HIDE DEF r
<1> QED BY <1>7, <1>9

\* The game that is restored from a saved one.
Restored(g, at) == State(at, g.stack, StoredCalls(g.calls), g.dynamic)

\* The place of the save instruction is that which was saved.
LEMMA PlaceIsKept ==
    ASSUME ShortBranches, m_version \in Versions, NEW at \in DOMAIN SavePoint[m_version],
           NEW z, z.pc = AfterPart(at)
    PROVE  StorePC(z, BranchAt(at)) % 2 ^ 24 = at /\ at \in Location /\ at \in Nat
<1>1. at \in Location /\ at \in Nat
  BY SavePointAssumption, Locations
<1>2. m_version \in Int
  BY VersionsAssumption
<1>3. StorePC(z, BranchAt(at)) = at
  <2>1. CASE m_version >= 4
    <3>1. AfterPart(at) = at + 1 /\ BranchAt(at).offset = 0
      BY <2>1 DEF AfterPart, BranchAt, NoBranch
    <3> QED BY <1>1, <3>1 DEF StorePC
  <2>2. CASE ~(m_version >= 4)
    <3> DEFINE branch == SavePoint[m_version][at].branch
    <3>1. branch.size \in {1, 2} /\ branch.offset \in Int
      BY <2>2, SavePointAssumption
    <3>2. branch.size = 1 <=> branch.offset \in 0..63
      <4>1. m_version < 4
        BY <1>2, <2>2
      <4> QED BY <4>1 DEF ShortBranches
    <3>3. AfterPart(at) = at + branch.size /\ BranchAt(at) = branch
      BY <2>2 DEF AfterPart, BranchAt
    <3> HIDE DEF branch
    <3>4. StorePC(z, branch)
             = (at + branch.size) - (IF branch.offset < 0 \/ branch.offset > 63 THEN 2 ELSE 1)
      BY <3>3 DEF StorePC
    <3>5. CASE branch.offset \in 0..63
      <4>1. ~(branch.offset < 0 \/ branch.offset > 63) /\ branch.size = 1
        BY <3>1, <3>2, <3>5
      <4> QED BY <1>1, <3>3, <3>4, <4>1
    <3>6. CASE branch.offset \notin 0..63
      <4>1. (branch.offset < 0 \/ branch.offset > 63) /\ branch.size = 2
        BY <3>1, <3>2, <3>6
      <4> QED BY <1>1, <3>3, <3>4, <4>1
    <3> QED BY <3>5, <3>6
  <2> QED BY <2>1, <2>2
<1> QED BY <1>1, <1>3, Locations

LEMMA FileRestored ==
    ASSUME ShortBranches, m_version \in Versions, NEW at \in DOMAIN SavePoint[m_version],
           NEW g, Game(g), g.pc = AfterPart(at),
           NEW y, NEW p, NEW s, NEW c, NEW d, y = State(p, s, c, d)
    PROVE  LET r == restoreState(y, saveState(g, BranchAt(at)))
           IN r.restored /\ r.z = Restored(g, at)
<1> DEFINE file1 == saveState(g, BranchAt(at))
           base == [z |-> y, found |-> {}, refused |-> FALSE]
           no == FALSE
           none == {}
           one == none \cup {"header"}
           two == one \cup {"mem"}
           all == two \cup {"stacks"}
           bytes == saveDynamicMemory(g.dynamic)
           frames == saveStacks(g)
<1>1. /\ file1[1] = [id |-> "IFhd", story |-> Story, pc |-> at]
      /\ file1[2] = [id |-> "CMem", bytes |-> bytes]
      /\ file1[3] = [id |-> "Stks", frames |-> frames]
      /\ DOMAIN file1 = 1..3
  <2> DEFINE pc == StorePC(g, BranchAt(at)) % 2 ^ 24
  <2>1. pc = at
    BY PlaceIsKept
  <2> HIDE DEF pc, bytes, frames
  <2>2. file1 = <<[id |-> "IFhd", story |-> Story, pc |-> pc],
                  [id |-> "CMem", bytes |-> bytes], [id |-> "Stks", frames |-> frames]>>
    BY DEF saveState, pc, bytes, frames
  <2> HIDE DEF file1
  <2> QED BY <2>1, <2>2
<1>2. restoreDynamicMemory(bytes) = g.dynamic
  <2>1. g.dynamic \in [Dynamic -> Byte]
    BY SoundParts DEF Game
  <2> QED BY <2>1, MemoryRestored
<1> HIDE DEF none, no
<1>3. base = Progress(y, none, no)
  BY DEF Progress, none, no
<1> HIDE DEF file1, base, bytes, frames, one, two, all
<1>4. PICK acc : Chunking!IsRun(base, file1, 3, acc)
  BY <1>1, Chunking!FoldSteps, Zenon
<1>5. /\ acc[0] = base /\ acc[1] = restoreChunk(acc[0], file1[1])
      /\ acc[2] = restoreChunk(acc[1], file1[2]) /\ acc[3] = restoreChunk(acc[2], file1[3])
      /\ Chunking!Folded(base, file1) = acc[3]
  <2>1. 0 \in 0..(3 - 1) /\ 1 \in 0..(3 - 1) /\ 2 \in 0..(3 - 1)
        /\ 0 + 1 = 1 /\ 1 + 1 = 2 /\ 2 + 1 = 3
    OBVIOUS
  <2>2. /\ acc[0] = base /\ Chunking!Folded(base, file1) = acc[3]
        /\ \A k \in 0..(3 - 1) : acc[k + 1] = restoreChunk(acc[k], file1[k + 1])
    BY <1>4 DEF Chunking!IsRun
  <2>3. /\ acc[0 + 1] = restoreChunk(acc[0], file1[0 + 1])
        /\ acc[1 + 1] = restoreChunk(acc[1], file1[1 + 1])
        /\ acc[2 + 1] = restoreChunk(acc[2], file1[2 + 1])
    BY <2>1, <2>2, Zenon
  <2> QED BY <2>1, <2>2, <2>3
<1>6. ~no
  BY DEF no
<1>7. acc[1] = Progress(State(at, s, c, d), one, no)
  BY <1>1, <1>3, <1>5, <1>6, HeaderRead DEF one
<1>8. acc[2] = Progress(State(at, s, c, g.dynamic), two, no)
  BY <1>1, <1>2, <1>5, <1>6, <1>7, MemoryRead DEF two
<1>9. acc[3] = Progress(Restored(g, at), all, no)
  <2>1. acc[3] = Progress(restoreStacks(State(at, s, c, g.dynamic), frames), all, no)
    BY <1>1, <1>5, <1>6, <1>8, StacksRead DEF all
  <2>2. restoreStacks(State(at, s, c, g.dynamic), frames) = Restored(g, at)
    BY StacksRestored DEF Restored, frames
  <2> QED BY <2>1, <2>2
<1> DEFINE r == FoldLeft(restoreChunk, base, file1)
<1>10. r = acc[3]
  BY <1>5, FoldsAgree
<1> HIDE DEF r
<1>11. r.z = Restored(g, at) /\ r.found = all /\ ~r.refused
  BY <1>6, <1>9, <1>10 DEF Progress
<1>12. all = {"header", "mem", "stacks"}
  BY DEF all, two, one, none
<1>13. /\ restoreState(y, file1).z = r.z
       /\ restoreState(y, file1).restored
             <=> ~r.refused /\ r.found = {"header", "mem", "stacks"}
  BY ResultOf DEF r, base
<1> QED BY <1>11, <1>12, <1>13 DEF file1

--------------------------------------------------------------------------------
(***************************************************************************)
(* The instructions save and restore.                                      *)
(***************************************************************************)
\* The call that save or restore ends in is not the main program's, if it returns.
MayEnd(z, at) ==
    BranchAt(at).size > 0 /\ BranchAt(at).offset \in {0, 1} => Len(z.calls) > 1

LEMMA SavePoints ==
    ASSUME m_version \in Versions, NEW at \in DOMAIN SavePoint[m_version]
    PROVE  /\ m_version \in Int /\ at \in Nat /\ AfterPart(at) \in Nat
           /\ m_version >= 4 =>
                 /\ SavePoint[m_version][at].store \in {0} \cup Global
                 /\ BranchAt(at) = NoBranch
           /\ ~(m_version >= 4) =>
                 LET branch == SavePoint[m_version][at].branch IN
                 /\ BranchAt(at) = branch /\ branch.size \in {1, 2}
                 /\ branch.negate \in BOOLEAN /\ branch.offset \in Int
                 /\ AfterPart(at) = at + branch.size
                 /\ AfterPart(at) + branch.offset - 2 \in Nat
<1>1. m_version \in Int
  BY VersionsAssumption
<1>2. at \in Nat
  BY SavePointAssumption, Locations
<1>3. ASSUME m_version >= 4
      PROVE  /\ SavePoint[m_version][at].store \in {0} \cup Global
             /\ BranchAt(at) = NoBranch /\ AfterPart(at) \in Nat
  <2>1. AfterPart(at) = at + 1 /\ BranchAt(at) = NoBranch
    BY <1>3 DEF AfterPart, BranchAt
  <2>2. SavePoint[m_version][at].store \in {0} \cup Global
    BY <1>3, SavePointAssumption
  <2> QED BY <1>2, <2>1, <2>2
<1>4. ASSUME ~(m_version >= 4)
      PROVE  LET branch == SavePoint[m_version][at].branch IN
                 /\ BranchAt(at) = branch /\ branch.size \in {1, 2}
                 /\ branch.negate \in BOOLEAN /\ branch.offset \in Int
                 /\ AfterPart(at) = at + branch.size
                 /\ AfterPart(at) + branch.offset - 2 \in Nat
                 /\ AfterPart(at) \in Nat
  <2> DEFINE branch == SavePoint[m_version][at].branch
  <2>1. AfterPart(at) = at + branch.size /\ BranchAt(at) = branch
    BY <1>4 DEF AfterPart, BranchAt
  <2>2. /\ branch.size \in {1, 2} /\ branch.negate \in BOOLEAN
        /\ branch.offset \in Int /\ at + branch.size + branch.offset - 2 \in Nat
    BY <1>4, SavePointAssumption
  <2> HIDE DEF branch
  <2>3. AfterPart(at) \in Nat
    BY <1>2, <2>1, <2>2
  <2> QED BY <2>1, <2>2, <2>3 DEF branch
<1> QED BY <1>1, <1>2, <1>3, <1>4

\* How it ends: by storing the result, by going on after it, by a return, or by going
\* on elsewhere.
Ended(z, at, result, w) ==
    LET branch == BranchAt(at) IN
    \/ /\ m_version >= 4
       /\ \E store \in {0} \cup Global : w = setVariable(z, store, result)
    \/ /\ ~(m_version >= 4)
       /\ (result # 0) <=> branch.negate
       /\ w = z
    \/ /\ ~(m_version >= 4)
       /\ (result # 0) <=> ~branch.negate
       /\ branch.offset \in {0, 1}
       /\ w = returnRoutine(z, branch.offset)
    \/ /\ ~(m_version >= 4)
       /\ (result # 0) <=> ~branch.negate
       /\ branch.offset \notin {0, 1}
       /\ w = [z EXCEPT !.pc = z.pc + branch.offset - 2]

LEMMA ConcludeEnds ==
    ASSUME m_version \in Versions, NEW at \in DOMAIN SavePoint[m_version],
           NEW z, NEW result \in {0, 1, 2}
    PROVE  Ended(z, at, result, Conclude(z, at, result))
<1> DEFINE branch == BranchAt(at)
           w == Conclude(z, at, result)
           cond == result # 0
<1>1. CASE m_version >= 4
  <2>1. w = setVariable(z, SavePoint[m_version][at].store, result)
    BY <1>1 DEF Conclude
  <2>2. SavePoint[m_version][at].store \in {0} \cup Global
    BY <1>1, SavePoints
  <2> HIDE DEF w
  <2> QED BY <1>1, <2>1, <2>2 DEF Ended, w
<1>2. CASE ~(m_version >= 4)
  <2>1. branch.negate \in BOOLEAN
    BY <1>2, SavePoints
  <2>2. w = doBranch(z, cond, branch)
    BY <1>2 DEF Conclude
  <2>3. CASE cond = branch.negate
    <3>1. w = z
      BY <2>2, <2>3 DEF doBranch
    <3>2. (result # 0) <=> branch.negate
      BY <2>3
    <3> HIDE DEF w, branch
    <3> QED BY <1>2, <3>1, <3>2 DEF Ended, w, branch
  <2>4. CASE cond # branch.negate
    <3>1. (result # 0) <=> ~branch.negate
      BY <2>1, <2>4
    <3>2. CASE branch.offset \in {0, 1}
      <4>1. w = returnRoutine(z, branch.offset)
        BY <2>2, <2>4, <3>2 DEF doBranch
      <4> HIDE DEF w, branch
      <4> QED BY <1>2, <3>1, <3>2, <4>1 DEF Ended, w, branch
    <3>3. CASE branch.offset \notin {0, 1}
      <4>1. w = [z EXCEPT !.pc = z.pc + branch.offset - 2]
        BY <2>2, <2>4, <3>3 DEF doBranch
      <4> HIDE DEF w, branch
      <4> QED BY <1>2, <3>1, <3>3, <4>1 DEF Ended, w, branch
    <3> QED BY <3>2, <3>3
  <2> QED BY <2>3, <2>4
<1> QED BY <1>1, <1>2

LEMMA ConcludeSound ==
    ASSUME m_version \in Versions, NEW at \in DOMAIN SavePoint[m_version],
           NEW z, Sound(z), z.pc = AfterPart(at), MayEnd(z, at), NEW result \in {0, 1, 2}
    PROVE  Sound(Conclude(z, at, result))
<1> DEFINE w == Conclude(z, at, result)
           branch == BranchAt(at)
<1>1. Ended(z, at, result, w)
  BY ConcludeEnds
<1>2. result \in Int
  OBVIOUS
<1> HIDE DEF w
<1>3. ASSUME NEW store \in {0} \cup Global, w = setVariable(z, store, result)
      PROVE  Sound(w)
  <2>1. store \in Int
    BY MemoryAssumption
  <2> QED BY <1>2, <1>3, <2>1, SetVariableSound
<1>4. CASE w = z
  BY <1>4 DEF w
<1>5. ASSUME ~(m_version >= 4), branch.offset \in {0, 1}, w = returnRoutine(z, branch.offset)
      PROVE  Sound(w)
  <2>1. branch.size > 0 /\ branch.offset \in Int
    BY <1>5, SavePoints
  <2>2. Len(z.calls) > 1
    BY <1>5, <2>1 DEF MayEnd
  <2> QED BY <1>5, <2>1, <2>2, ReturnSound
<1>6. ASSUME ~(m_version >= 4), w = [z EXCEPT !.pc = z.pc + branch.offset - 2]
      PROVE  Sound(w)
  <2>1. z.pc + branch.offset - 2 \in Nat
    BY <1>6, SavePoints
  <2> QED BY <1>6, <2>1, SoundWithPC
<1> QED BY <1>1, <1>3, <1>4, <1>5, <1>6 DEF Ended, w

\* The game's save is in the file.
SavedIn(g, at) ==
    /\ Game(g) /\ g.pc = AfterPart(at) /\ MayEnd(g, at)
    /\ file = saveState(g, BranchAt(at))

\* What the file is known to be: there is none, or it is another story's, or a game's
\* that this program has saved.
FileKnown ==
    \/ file = <<>>
    \/ OtherStory(file)
    \/ \E g \in Machines, at \in DOMAIN SavePoint[m_version] : SavedIn(g, at)

GameInv == m_version \in Versions /\ Game(Machine)
SaveInv == GameInv /\ FileKnown

\* The bounds of the model.
LEMMA BoundedIsGame ==
    ASSUME NEW z, Sound(z), Bounded(z)
    PROVE  Game(z)
<1>1. z.stack \in Seq(Int) /\ z.calls \in Seq(CallFrames)
  BY SoundParts
<1>2. Len(z.stack) <= MaxStack /\ Len(z.calls) <= MaxFrames
  BY DEF Bounded
<1>3. z.stack \in Seq(StackValue)
  <2> DEFINE s == z.stack
  <2>1. s \in Seq(Int) /\ \A i \in DOMAIN s : s[i] \in StackValue
    BY <1>1 DEF Bounded
  <2> HIDE DEF s
  <2>2. s = [i \in 1..Len(s) |-> s[i]] /\ Len(s) \in Nat /\ DOMAIN s = 1..Len(s)
    BY <2>1
  <2>3. s \in Seq(StackValue)
    BY <2>1, <2>2
  <2> QED BY <2>3 DEF s
<1>4. ASSUME NEW i \in 1..Len(z.calls) PROVE z.calls[i].locals \in Seq(LocalValue)
  <2>1. z.calls[i].locals \in Seq(Int) /\ i \in DOMAIN z.calls
    BY <1>1, Depths, FrameParts
  <2> DEFINE l == z.calls[i].locals
  <2>2. \A k \in DOMAIN l : l[k] \in LocalValue
    BY <2>1 DEF Bounded
  <2> HIDE DEF l
  <2>3. l \in Seq(Int)
    BY <2>1 DEF l
  <2>4. l = [k \in 1..Len(l) |-> l[k]] /\ Len(l) \in Nat /\ DOMAIN l = 1..Len(l)
    BY <2>3
  <2>5. l \in Seq(LocalValue)
    BY <2>2, <2>4
  <2> QED BY <2>5 DEF l
<1> QED BY <1>2, <1>3, <1>4 DEF Game

LEMMA BecomesBounded ==
    ASSUME NEW z, Becomes(z)
    PROVE  Bounded(Machine)' /\ m_version' = m_version
<1>1. /\ Machine'.stack = z.stack /\ Machine'.calls = z.calls
      /\ Machine'.dynamic = z.dynamic
  BY DEF Becomes, Machine
<1>2. Bounded(z)
  BY DEF Becomes
<1>3. Bounded(Machine)'
  BY <1>1, <1>2 DEF Bounded, GlobalValue
<1>4. m_version' = m_version
  BY DEF Becomes
<1> QED BY <1>3, <1>4

LEMMA InstructionBounded ==
    ASSUME Instruction
    PROVE  Bounded(Machine)' /\ m_version' = m_version
<1>1. PICK next \in Address :
       \/ \E r \in Routine \cup {0}, args \in Arguments,
             store \in VariableNumbers \cup {NoStore} : Call(next, r, args, store)
       \/ \E op \in Operand : Return(next, op) \/ PushValue(next, op)
       \/ \E op \in Operand, frame \in 2..Len(m_callStack) : Throw(next, op, frame)
       \/ \E store \in VariableNumbers : Catch(next, store)
       \/ PopValue(next)
       \/ \E var \in VariableNumbers : Pull(next, var)
       \/ \E var \in VariableNumbers, op \in Operand : StoreVariable(next, var, op)
       \/ \E var, store \in VariableNumbers : Load(next, var, store)
       \/ \E var \in VariableNumbers, by \in {-1, 1}, branch \in Branches :
             \E ops \in {<<>>, <<Variable(0)>>} : Step(next, var, by, ops, branch)
       \/ \E ops \in Pops, store \in VariableNumbers, value \in Constant,
             branch \in Branches : Compute(next, ops, store, value, branch)
       \/ \E ops \in Pops, branch \in Branches : Branch(next, ops, branch)
  BY DEF Instruction
<1>2. \E z : Becomes(z)
  BY <1>1, Zenon DEF Call, Return, PushValue, Throw, Catch, PopValue, Pull, StoreVariable,
         Load, Step, Compute, Branch
<1> QED BY <1>2, BecomesBounded

\* A game remains one where it goes on.
LEMMA GameGoesOn ==
    ASSUME NEW g, Game(g), NEW pc \in Nat
    PROVE  LET w == [g EXCEPT !.pc = pc] IN
           Game(w) /\ w.pc = pc /\ w.calls = g.calls /\ w.stack = g.stack
           /\ w.dynamic = g.dynamic
<1> DEFINE w == [g EXCEPT !.pc = pc]
<1>1. Sound(g) /\ g \in Machines
  BY DEF Game, Sound
<1>2. Sound(w) /\ w.calls = g.calls
  BY <1>1, SoundWithPC
<1>3. w.pc = pc /\ w.stack = g.stack /\ w.dynamic = g.dynamic
  BY <1>1, PCOnly
<1> HIDE DEF w
<1>4. Game(w)
  BY <1>2, <1>3 DEF Game
<1> QED BY <1>2, <1>3, <1>4 DEF w

LEMMA RestoredIsGame ==
    ASSUME NEW g, Game(g), NEW at \in Nat
    PROVE  /\ Game(Restored(g, at)) /\ Len(Restored(g, at).calls) = Len(g.calls)
           /\ (\A i \in 1..Len(g.calls) : g.calls[i].returnStore # NoStore)
                 => Restored(g, at).calls = g.calls
           /\ Restored(g, at).stack = g.stack /\ Restored(g, at).dynamic = g.dynamic
           /\ Restored(g, at).pc = at
<1> DEFINE n == Len(g.calls)
           all == StoredCalls(g.calls)
           w == Restored(g, at)
<1>1. /\ Sound(g) /\ n \in Nat \ {0} /\ g.stack \in Seq(Int) /\ g.calls \in Seq(CallFrames)
      /\ g.dynamic \in [Dynamic -> Byte]
  BY SoundParts DEF Game
<1>2. \A i \in 1..n : /\ g.calls[i] \in CallFrames
                      /\ all[i] = StoredCall(g.calls[i]) /\ all[i] \in CallFrames
                      /\ all[i].depth = g.calls[i].depth
                      /\ all[i].locals = g.calls[i].locals
                      /\ g.calls[i].returnStore # NoStore => all[i] = g.calls[i]
  <2> SUFFICES ASSUME NEW i \in 1..n
               PROVE  /\ g.calls[i] \in CallFrames
                      /\ all[i] = StoredCall(g.calls[i]) /\ all[i] \in CallFrames
                      /\ all[i].depth = g.calls[i].depth
                      /\ all[i].locals = g.calls[i].locals
                      /\ g.calls[i].returnStore # NoStore => all[i] = g.calls[i]
    OBVIOUS
  <2> DEFINE cs == g.calls[i]
  <2>1. cs \in CallFrames
    BY <1>1, Depths
  <2>2. all[i] = StoredCall(cs)
    BY DEF StoredCalls
  <2> HIDE DEF cs
  <2>3. /\ StoredCall(cs) \in CallFrames
        /\ cs.returnStore # NoStore => StoredCall(cs) = cs
        /\ StoredCall(cs) =
                 [returnAddr |-> cs.returnAddr, returnStore |-> SavedStore(cs),
                  setArguments |-> cs.setArguments, locals |-> cs.locals,
                  depth |-> cs.depth]
    BY <2>1, StoredCallParts
  <2>4. StoredCall(cs).depth = cs.depth /\ StoredCall(cs).locals = cs.locals
    BY <2>3
  <2> HIDE DEF all
  <2> QED BY <2>1, <2>2, <2>3, <2>4 DEF cs
<1>3. all = [i \in 1..n |-> all[i]]
  BY DEF StoredCalls
<1> HIDE DEF all
<1>4. all \in Seq(CallFrames) /\ Len(all) = n
  <2>1. \A i \in 1..n : all[i] \in CallFrames
    BY <1>2
  <2>2. n \in Nat
    BY <1>1
  <2> HIDE DEF n
  <2> QED BY <1>3, <2>1, <2>2
<1>5. (\A i \in 1..n : g.calls[i].returnStore # NoStore) => all = g.calls
  <2> SUFFICES ASSUME \A i \in 1..n : g.calls[i].returnStore # NoStore PROVE all = g.calls
    OBVIOUS
  <2>1. \A i \in 1..n : all[i] = g.calls[i]
    BY <1>2
  <2>2. g.calls = [i \in 1..n |-> g.calls[i]]
    <3> DEFINE c == g.calls
    <3>1. c \in Seq(CallFrames) /\ n = Len(c)
      BY <1>1
    <3> HIDE DEF c, n
    <3>2. c = [i \in 1..n |-> c[i]]
      BY <3>1
    <3> QED BY <3>2 DEF c
  <2> HIDE DEF n
  <2> QED BY <1>3, <2>1, <2>2
<1>6. w = State(at, g.stack, all, g.dynamic)
  BY DEF Restored, all
<1> HIDE DEF w
<1>7. w.pc = at /\ w.stack = g.stack /\ w.calls = all /\ w.dynamic = g.dynamic
  BY <1>6 DEF State
<1>8. w \in Machines
  BY <1>1, <1>4, <1>6 DEF State, Machines
<1>9. Nested(w)
  <2>1. Nested(g)
    BY <1>1 DEF Sound
  <2>2. \A i \in 1..n : g.calls[i].depth <= Len(g.stack)
                        /\ \A j \in i..n : g.calls[i].depth <= g.calls[j].depth
    BY <2>1 DEF Nested
  <2> SUFFICES ASSUME NEW i \in 1..n
               PROVE  all[i].depth <= Len(g.stack)
                      /\ \A j \in i..n : all[i].depth <= all[j].depth
    BY <1>4, <1>7 DEF Nested
  <2>3. \A j \in i..n : j \in 1..n
    OBVIOUS
  <2> HIDE DEF n
  <2> QED BY <1>2, <2>2, <2>3
<1>10. w.calls[1].depth = 0
  <2>1. g.calls[1].depth = 0 /\ 1 \in 1..n
    BY <1>1 DEF Sound
  <2> HIDE DEF n
  <2> QED BY <1>2, <1>7, <2>1
<1>11. Sound(w)
  BY <1>1, <1>4, <1>7, <1>8, <1>9, <1>10 DEF Sound
<1>12. Game(w)
  <2>1. g.stack \in Seq(StackValue) /\ Len(g.stack) <= MaxStack /\ n <= MaxFrames
        /\ \A i \in 1..n : g.calls[i].locals \in Seq(LocalValue)
    BY DEF Game
  <2> HIDE DEF n
  <2>2. \A i \in 1..n : all[i].locals \in Seq(LocalValue)
    BY <1>2, <2>1
  <2> QED BY <1>4, <1>7, <1>11, <2>1, <2>2 DEF Game
<1> QED BY <1>4, <1>5, <1>7, <1>12 DEF w

\* The story and its version remain.
LEMMA SamePlaces ==
    ASSUME m_version' = m_version
    PROVE  \A at : AfterPart(at)' = AfterPart(at) /\ BranchAt(at)' = BranchAt(at)
BY DEF AfterPart, BranchAt

LEMMA FileIsSaved ==
    ASSUME m_version' = m_version, NEW g, NEW at \in DOMAIN SavePoint[m_version],
           Game(g), g.pc = AfterPart(at), MayEnd(g, at),
           file' = saveState(g, BranchAt(at))
    PROVE  SavedIn(g, at)' /\ FileKnown'
<1>1. AfterPart(at)' = AfterPart(at) /\ BranchAt(at)' = BranchAt(at)
  BY SamePlaces
<1>2. MayEnd(g, at)'
  BY <1>1 DEF MayEnd
<1>3. SavedIn(g, at)'
  BY <1>1, <1>2 DEF SavedIn
<1>4. g \in Machines /\ at \in DOMAIN SavePoint[m_version']
  BY DEF Game, Sound
<1> QED BY <1>3, <1>4 DEF FileKnown

LEMMA FileRemains ==
    ASSUME m_version' = m_version, file' = file, FileKnown
    PROVE  FileKnown'
<1>1. CASE file = <<>>
  BY <1>1 DEF FileKnown
<1>2. CASE OtherStory(file)
  <2>1. OtherStory(file')
    BY <1>2
  <2> QED BY <2>1 DEF FileKnown, OtherStory
<1>3. CASE \E g \in Machines, at \in DOMAIN SavePoint[m_version] : SavedIn(g, at)
  <2>1. PICK g \in Machines, at \in DOMAIN SavePoint[m_version] : SavedIn(g, at)
    BY <1>3
  <2>2. file' = saveState(g, BranchAt(at)) /\ Game(g) /\ g.pc = AfterPart(at) /\ MayEnd(g, at)
    BY <2>1 DEF SavedIn
  <2> QED BY <2>2, FileIsSaved
<1> QED BY <1>1, <1>2, <1>3 DEF FileKnown

\* A game that goes on where its save or restore ends.
LEMMA ConcludedIsGame ==
    ASSUME m_version \in Versions, NEW at \in DOMAIN SavePoint[m_version],
           NEW z, Game(z), z.pc = AfterPart(at), MayEnd(z, at), NEW result \in {0, 1, 2},
           Becomes(Conclude(z, at, result))
    PROVE  GameInv' /\ StackInv' /\ m_version' = m_version
<1> DEFINE w == Conclude(z, at, result)
<1>1. Sound(w)
  BY ConcludeSound DEF Game
<1>2. Becomes(w)
  OBVIOUS
<1> HIDE DEF w
<1>3. Machine' = w /\ StackInv' /\ Bounded(w) /\ m_version' = m_version
  BY <1>1, <1>2, BecomesMachine, BecomesBounded DEF Becomes
<1>4. Game(Machine')
  BY <1>1, <1>3, BoundedIsGame
<1> QED BY <1>3, <1>4 DEF GameInv, Game

\* The machine when the save or restore instruction has been read.
LEMMA InstructionRead ==
    ASSUME GameInv, NEW at \in DOMAIN SavePoint[m_version], MayConclude(at)
    PROVE  LET z == [Machine EXCEPT !.pc = AfterPart(at)] IN
           /\ Game(z) /\ z.pc = AfterPart(at) /\ MayEnd(z, at)
           /\ z.calls = m_callStack /\ z.stack = m_stack /\ z.dynamic = DYNAMIC
<1> DEFINE z == [Machine EXCEPT !.pc = AfterPart(at)]
           x == Machine
<1>1. x.calls = m_callStack /\ x.stack = m_stack /\ x.dynamic = DYNAMIC
  BY DEF Machine
<1>2. Game(x) /\ AfterPart(at) \in Nat
  BY SavePoints DEF GameInv
<1> HIDE DEF x
<1> DEFINE y == [x EXCEPT !.pc = AfterPart(at)]
<1>3. /\ Game(y) /\ y.pc = AfterPart(at) /\ y.calls = x.calls /\ y.stack = x.stack
      /\ y.dynamic = x.dynamic
  BY <1>2, GameGoesOn
<1> HIDE DEF y
<1>4. MayEnd(y, at)
  BY <1>1, <1>3 DEF MayConclude, MayReturn, MayEnd
<1>5. y = z
  BY DEF x, y
<1> HIDE DEF z
<1> QED BY <1>1, <1>3, <1>4, <1>5 DEF z

LEMMA SaveKeepsInv ==
    ASSUME SaveInv, NEW at \in DOMAIN SavePoint[m_version], Save(at)
    PROVE  SaveInv'
<1>1. PICK z : z = [Machine EXCEPT !.pc = AfterPart(at)]
  OBVIOUS
<1>2. GameInv /\ MayConclude(at) /\ FileKnown
  BY DEF SaveInv, Save
<1>3. Game(z) /\ z.pc = AfterPart(at) /\ MayEnd(z, at)
  BY <1>1, <1>2, InstructionRead
<1>4. m_version \in Versions
  BY <1>2 DEF GameInv
<1>5. CASE file' = saveState(z, BranchAt(at)) /\ Becomes(Conclude(z, at, 1))
  <2>1. GameInv' /\ m_version' = m_version
    BY <1>3, <1>4, <1>5, ConcludedIsGame
  <2>2. FileKnown'
    BY <1>3, <1>5, <2>1, FileIsSaved
  <2> QED BY <2>1, <2>2 DEF SaveInv
<1>6. CASE file' = file /\ Becomes(Conclude(z, at, 0))
  <2>1. GameInv' /\ m_version' = m_version
    BY <1>3, <1>4, <1>6, ConcludedIsGame
  <2>2. FileKnown'
    BY <1>2, <1>6, <2>1, FileRemains
  <2> QED BY <2>1, <2>2 DEF SaveInv
<1>7. \/ file' = saveState(z, BranchAt(at)) /\ Becomes(Conclude(z, at, 1))
      \/ file' = file /\ Becomes(Conclude(z, at, 0))
  BY <1>1, Zenon DEF Save
<1> QED BY <1>5, <1>6, <1>7

LEMMA RestoreFails ==
    ASSUME NEW at, Restore(at), file = <<>> \/ OtherStory(file),
           NEW z, z = [Machine EXCEPT !.pc = AfterPart(at)]
    PROVE  Becomes(Conclude(z, at, 0))
<1> DEFINE r == restoreState(z, file)
<1>1. IF file # <<>> /\ r.restored
      THEN Becomes(Conclude([r.z EXCEPT !.pc = AfterPart(r.z.pc)], r.z.pc, 2))
      ELSE Becomes(Conclude(IF file = <<>> THEN z ELSE r.z, at, 0))
  BY Zenon DEF Restore
<1>2. CASE file = <<>>
  BY <1>1, <1>2, Zenon
<1>3. CASE OtherStory(file)
  <2>1. r.z = z /\ ~r.restored
    BY <1>3, OtherStoryRead
  <2> HIDE DEF r
  <2> QED BY <1>1, <2>1, Zenon
<1> QED BY <1>2, <1>3

LEMMA RestoreSucceeds ==
    ASSUME ShortBranches, GameInv, NEW at, Restore(at),
           NEW g, NEW a \in DOMAIN SavePoint[m_version], SavedIn(g, a)
    PROVE  Becomes(Conclude([Restored(g, a) EXCEPT !.pc = AfterPart(a)], a, 2))
<1>1. PICK z : z = [Machine EXCEPT !.pc = AfterPart(at)]
  OBVIOUS
<1> DEFINE r == restoreState(z, file)
<1>2. IF file # <<>> /\ r.restored
      THEN Becomes(Conclude([r.z EXCEPT !.pc = AfterPart(r.z.pc)], r.z.pc, 2))
      ELSE Becomes(Conclude(IF file = <<>> THEN z ELSE r.z, at, 0))
  BY <1>1, Zenon DEF Restore
<1>3. z = State(AfterPart(at), m_stack, m_callStack, DYNAMIC)
  BY <1>1 DEF Machine, State
<1>4. file = saveState(g, BranchAt(a)) /\ Game(g) /\ g.pc = AfterPart(a)
  BY DEF SavedIn
<1>5. r.restored /\ r.z = Restored(g, a)
  <2>1. m_version \in Versions
    BY DEF GameInv
  <2> QED BY <1>3, <1>4, <2>1, FileRestored
<1>6. file # <<>>
  <2>1. DOMAIN file = 1..3
    BY <1>4 DEF saveState
  <2>2. DOMAIN <<>> = {} /\ 1 \in 1..3
    OBVIOUS
  <2> QED BY <2>1, <2>2
<1> HIDE DEF r
<1>7. Becomes(Conclude([r.z EXCEPT !.pc = AfterPart(r.z.pc)], r.z.pc, 2))
  BY <1>2, <1>5, <1>6
<1>8. r.z.pc = a
  BY <1>5 DEF Restored, State
<1> QED BY <1>5, <1>7, <1>8, Zenon

\* The game that was saved is where its save ended.
LEMMA RestoredAfterSave ==
    ASSUME m_version \in Versions, NEW g, NEW a \in DOMAIN SavePoint[m_version], SavedIn(g, a)
    PROVE  LET y == [Restored(g, a) EXCEPT !.pc = AfterPart(a)] IN
           /\ Game(y) /\ y.pc = AfterPart(a) /\ MayEnd(y, a)
           /\ (\A i \in 1..Len(g.calls) : g.calls[i].returnStore # NoStore)
                 => y.calls = g.calls
           /\ y.stack = g.stack /\ y.dynamic = g.dynamic
<1> DEFINE x == Restored(g, a)
           y == [x EXCEPT !.pc = AfterPart(a)]
           full == \A i \in 1..Len(g.calls) : g.calls[i].returnStore # NoStore
<1>1. Game(g) /\ MayEnd(g, a)
  BY DEF SavedIn
<1>2. a \in Nat /\ AfterPart(a) \in Nat
  BY SavePoints
<1> HIDE DEF full
<1>3. /\ Game(x) /\ Len(x.calls) = Len(g.calls)
      /\ full => x.calls = g.calls
      /\ x.stack = g.stack /\ x.dynamic = g.dynamic
  BY <1>1, <1>2, RestoredIsGame DEF full
<1> HIDE DEF x
<1>4. /\ Game(y) /\ y.pc = AfterPart(a) /\ y.calls = x.calls /\ y.stack = x.stack
      /\ y.dynamic = x.dynamic
  BY <1>2, <1>3, GameGoesOn
<1> HIDE DEF y
<1>5. MayEnd(y, a)
  BY <1>1, <1>3, <1>4 DEF MayEnd
<1>6. full => y.calls = g.calls
  BY <1>3, <1>4
<1> QED BY <1>3, <1>4, <1>5, <1>6 DEF full, x, y

LEMMA RestoreKeepsInv ==
    ASSUME ShortBranches, SaveInv, NEW at \in DOMAIN SavePoint[m_version], Restore(at)
    PROVE  SaveInv'
<1>1. PICK z : z = [Machine EXCEPT !.pc = AfterPart(at)]
  OBVIOUS
<1>2. GameInv /\ MayConclude(at) /\ FileKnown /\ file' = file /\ m_version \in Versions
  BY DEF SaveInv, Restore, GameInv
<1>3. Game(z) /\ z.pc = AfterPart(at) /\ MayEnd(z, at)
  BY <1>1, <1>2, InstructionRead
<1>4. GameInv' /\ m_version' = m_version
  <2>1. CASE file = <<>> \/ OtherStory(file)
    <3>1. Becomes(Conclude(z, at, 0))
      BY <1>1, <2>1, RestoreFails
    <3> QED BY <1>2, <1>3, <3>1, ConcludedIsGame
  <2>2. ASSUME NEW g \in Machines, NEW a \in DOMAIN SavePoint[m_version], SavedIn(g, a)
        PROVE  GameInv' /\ m_version' = m_version
    <3> DEFINE y == [Restored(g, a) EXCEPT !.pc = AfterPart(a)]
    <3>1. Becomes(Conclude(y, a, 2))
      BY <1>2, <2>2, RestoreSucceeds
    <3>2. Game(y) /\ y.pc = AfterPart(a) /\ MayEnd(y, a)
      BY <1>2, <2>2, RestoredAfterSave
    <3> HIDE DEF y
    <3> QED BY <1>2, <3>1, <3>2, ConcludedIsGame
  <2> QED BY <1>2, <2>1, <2>2 DEF FileKnown
<1>5. FileKnown'
  BY <1>2, <1>4, FileRemains
<1> QED BY <1>4, <1>5 DEF SaveInv

LEMMA InitGame == InitQ => GameInv
<1> SUFFICES ASSUME InitQ PROVE GameInv
  OBVIOUS
<1>1. Init /\ m_version \in Versions
  BY DEF InitQ, Init
<1> DEFINE z == Machine
<1>2. Sound(z)
  BY <1>1, InitSound DEF StackInv
<1>3. z.stack = <<>> /\ z.calls = <<MainFrame>>
  BY <1>1 DEF Init, Machine
<1> HIDE DEF z
<1>4. Len(z.stack) = 0 /\ Len(z.calls) = 1 /\ z.calls[1].locals = <<>>
      /\ z.stack \in Seq(StackValue)
  BY <1>3 DEF MainFrame
<1>5. 0 <= MaxStack /\ 1 <= MaxFrames
  BY BoundAssumption
<1>6. \A i \in 1..Len(z.calls) : z.calls[i].locals \in Seq(LocalValue)
  <2>1. <<>> \in Seq(LocalValue)
    OBVIOUS
  <2> QED BY <1>4, <2>1
<1>7. Game(z)
  BY <1>2, <1>4, <1>5, <1>6 DEF Game
<1> QED BY <1>1, <1>7 DEF GameInv, z

LEMMA InstructionKeepsGame ==
    ASSUME GameInv, Instruction
    PROVE  GameInv' /\ m_version' = m_version
<1>1. StackInv
  BY DEF GameInv, Game, StackInv
<1>2. StackInv' /\ Bounded(Machine)' /\ m_version' = m_version
  BY <1>1, InstructionKeepsCalls, InstructionBounded DEF CallKept
<1>3. PICK z : z = Machine'
  OBVIOUS
<1>4. Sound(z) /\ Bounded(z)
  <2>1. Sound(z)
    BY <1>2, <1>3 DEF StackInv
  <2>2. Bounded(Machine') /\ \A g \in Global : GlobalValue(DYNAMIC', g) \in GlobalValues
    BY <1>2 DEF Bounded, Machine
  <2> QED BY <1>3, <2>1, <2>2
<1>5. Game(Machine')
  BY <1>3, <1>4, BoundedIsGame
<1> QED BY <1>2, <1>5 DEF GameInv

LEMMA SaveInvStep ==
    ASSUME ShortBranches, SaveInv, [Next]_qvars
    PROVE  SaveInv'
<1>1. CASE UNCHANGED qvars
  <2>1. Machine' = Machine /\ m_version' = m_version /\ file' = file
    BY <1>1 DEF qvars, machineVars, Machine
  <2>2. GameInv'
    BY <2>1 DEF SaveInv, GameInv
  <2> QED BY <2>1, <2>2, FileRemains DEF SaveInv
<1>2. CASE Instruction /\ UNCHANGED <<file, saved>>
  <2>1. GameInv' /\ m_version' = m_version
    BY <1>2, InstructionKeepsGame DEF SaveInv
  <2> QED BY <1>2, <2>1, FileRemains DEF SaveInv
<1>3. CASE \E at \in DOMAIN SavePoint[m_version] : Save(at) \/ Restore(at)
  BY <1>3, SaveKeepsInv, RestoreKeepsInv
<1> QED BY <1>1, <1>2, <1>3 DEF Next

LEMMA SaveInvariant ==
    ASSUME ShortBranches
    PROVE  Spec /\ FileKnown => []SaveInv
<1>1. InitQ /\ FileKnown => SaveInv
  BY InitGame DEF SaveInv
<1>2. SaveInv /\ [Next]_qvars => SaveInv'
  BY SaveInvStep
<1> QED BY <1>1, <1>2, PTL DEF Spec

\* The stacks keep within their bounds, and every frame to the ranges of its parts,
\* also when a game goes on that was saved (zops.c callRoutine, returnRoutine,
\* saveState, restoreState).
THEOREM GameTypes ==
    ASSUME ShortBranches
    PROVE  Spec /\ FileKnown => []TypeOK
<1>1. SaveInv => TypeOK
  <2> SUFFICES ASSUME SaveInv PROVE TypeOK
    OBVIOUS
  <2> DEFINE z == Machine
  <2>1. Game(z) /\ m_version \in Versions
    BY DEF SaveInv, GameInv
  <2>2. z.pc = m_pc /\ z.stack = m_stack /\ z.calls = m_callStack /\ z.dynamic = DYNAMIC
    BY DEF Machine
  <2> HIDE DEF z
  <2>3. /\ Sound(z) /\ z.pc \in Nat /\ z.dynamic \in [Dynamic -> Byte]
        /\ z.calls \in Seq(CallFrames) /\ Len(z.calls) \in Nat \ {0}
        /\ z.stack \in Seq(Int) /\ Len(z.stack) \in Nat
    BY <2>1, SoundParts DEF Game
  <2>4. /\ z.stack \in Seq(StackValue) /\ Len(z.stack) <= MaxStack
        /\ Len(z.calls) <= MaxFrames
        /\ \A i \in 1..Len(z.calls) : z.calls[i].locals \in Seq(LocalValue)
    BY <2>1 DEF Game
  <2>5. ASSUME NEW i \in 1..Len(z.calls) PROVE z.calls[i] \in Frame
    <3> DEFINE cs == z.calls[i]
               L == Len(z.stack)
    <3>1. cs \in CallFrames /\ cs.depth \in Nat /\ cs.depth <= L
      BY <2>3, Depths
    <3>2. cs.locals \in Seq(LocalValue) /\ L \in Nat /\ L <= MaxStack
      BY <2>3, <2>4
    <3> HIDE DEF cs, L
    <3>3. /\ cs.returnAddr \in Nat /\ cs.returnStore \in {NoStore} \cup Byte
          /\ cs.setArguments \in 0..127
      BY <3>1, FrameParts
    <3>4. cs.depth \in 0..MaxStack
      BY <3>1, <3>2, BoundAssumption
    <3>5. cs = [returnAddr |-> cs.returnAddr, returnStore |-> cs.returnStore,
                setArguments |-> cs.setArguments, locals |-> cs.locals, depth |-> cs.depth]
      BY <3>1 DEF CallFrames
    <3>6. cs \in Frame
      BY <3>2, <3>3, <3>4, <3>5 DEF Frame
    <3> QED BY <3>6 DEF cs
  <2>6. z.calls \in Seq(Frame) /\ Len(z.calls) \in 1..MaxFrames
    <3> DEFINE c == z.calls
    <3>1. c \in Seq(CallFrames) /\ \A i \in 1..Len(c) : c[i] \in Frame
      BY <2>3, <2>5
    <3>2. Len(c) \in Nat \ {0} /\ Len(c) <= MaxFrames
      BY <2>3, <2>4
    <3> HIDE DEF c
    <3>3. c = [i \in 1..Len(c) |-> c[i]] /\ Len(c) \in Nat
      BY <3>1
    <3>4. c \in Seq(Frame)
      BY <3>1, <3>3
    <3>5. Len(c) \in 1..MaxFrames
      BY <3>2, BoundAssumption
    <3> QED BY <3>4, <3>5 DEF c
  <2> QED BY <2>1, <2>2, <2>3, <2>4, <2>6 DEF TypeOK
<1> QED BY <1>1, SaveInvariant, PTL

\* The frames stay nested, also when a game goes on that was saved.
THEOREM GameNested ==
    ASSUME ShortBranches
    PROVE  Spec /\ FileKnown => []FramesNested
<1>1. SaveInv => FramesNested
  BY SoundNested DEF SaveInv, GameInv, Game, StackInv
<1> QED BY <1>1, SaveInvariant, PTL

\* Every game that is in no call without a result is restored as it was saved: its
\* memory, byte by byte, its calls, the evaluation stack and the place
\* (zops.c saveState, restoreState).
THEOREM SavedGameIsRestored ==
    ASSUME ShortBranches
    PROVE  Spec /\ FileKnown => []RoundTrip
<1>1. SaveInv => RoundTrip
  <2> SUFFICES ASSUME SaveInv, NEW at \in DOMAIN SavePoint[m_version],
                      \A i \in DOMAIN m_callStack : m_callStack[i].returnStore # NoStore
               PROVE  SameGame(at)
    BY DEF RoundTrip
  <2> DEFINE x == Machine
             z == [x EXCEPT !.pc = AfterPart(at)]
             r == restoreState(z, saveState(z, BranchAt(at)))
  <2>1. Game(x) /\ m_version \in Versions
    BY DEF SaveInv, GameInv
  <2>2. x.calls = m_callStack /\ x.stack = m_stack /\ x.dynamic = DYNAMIC
    BY DEF Machine
  <2>3. z = State(AfterPart(at), m_stack, m_callStack, DYNAMIC)
    BY DEF Machine, State
  <2> HIDE DEF x
  <2>4. at \in Nat /\ AfterPart(at) \in Nat
    BY <2>1, SavePoints
  <2>5. /\ Game(z) /\ z.pc = AfterPart(at) /\ z.calls = x.calls /\ z.stack = x.stack
        /\ z.dynamic = x.dynamic
    BY <2>1, <2>4, GameGoesOn
  <2> HIDE DEF z
  <2>6. r.restored /\ r.z = Restored(z, at)
    BY <2>1, <2>3, <2>5, FileRestored
  <2>7. /\ Restored(z, at).calls = z.calls /\ Restored(z, at).stack = z.stack
        /\ Restored(z, at).dynamic = z.dynamic /\ Restored(z, at).pc = at
    <3>1. \A i \in 1..Len(z.calls) : z.calls[i].returnStore # NoStore
      <4>1. m_callStack \in Seq(CallFrames)
        BY <2>1, <2>2, SoundParts DEF Game
      <4> QED BY <2>2, <2>5, <4>1
    <3> QED BY <2>4, <2>5, <3>1, RestoredIsGame
  <2>8. Restored(z, at) = State(at, z.stack, z.calls, z.dynamic)
    BY <2>7 DEF Restored, State
  <2>9. [z EXCEPT !.pc = at] = State(at, z.stack, z.calls, z.dynamic)
    <3>1. z = State(z.pc, z.stack, z.calls, z.dynamic)
      BY <2>5, StateParts DEF Game, Sound
    <3> QED BY <3>1 DEF State
  <2>10. r.z = [z EXCEPT !.pc = at]
    <3> HIDE DEF r
    <3> QED BY <2>6, <2>8, <2>9, Zenon
  <2> QED BY <2>6, <2>10 DEF SameGame, x, z
<1> QED BY <1>1, SaveInvariant, PTL

--------------------------------------------------------------------------------
(***************************************************************************)
(* A game that is saved and restored is one of Routines.                   *)
(***************************************************************************)
\* The games that are saved are in no call without a result.
SnapshotsStore ==
    \A s \in Snapshots : \A i \in DOMAIN s.calls : s.calls[i].returnStore # NoStore

\* The results of all calls go to variables, and a save keeps those.
AllStored(g) ==
    ResultsStored(g) /\ \A i \in 1..Len(g.calls) : g.calls[i].returnStore # NoStore

\* FileKnown, where a game that is saved is the one that Routines has.
FileAgrees ==
    \/ file = <<>>
    \/ OtherStory(file)
    \/ \E g \in Machines, at \in DOMAIN SavePoint[m_version] :
          SavedIn(g, at) /\ AllStored(g) /\ saved = GameOf(g, at)

\* The same of the first file, from which the abstract game is read.
FirstFileStored ==
    \/ file = <<>>
    \/ OtherStory(file)
    \/ \E g \in Machines, at \in DOMAIN SavePoint[m_version] :
          SavedIn(g, at) /\ AllStored(g)

RoutinesInv == GameInv /\ ResultsStored(Machine) /\ FileAgrees

LEMMA SameDelivery ==
    \A fs, var, value : R!Deliver(fs, var, value) = Each!Deliver(fs, var, value)
BY DEF R!Deliver, Each!Deliver

\* No two globals share a byte.
LEMMA GlobalsSet ==
    ASSUME NEW z, Sound(z), NEW var \in {0} \cup Global, NEW value \in Int
    PROVE  LET w == setVariable(z, var, value) IN
           /\ w.pc = z.pc
           /\ var = 0 => Globals(w) = Globals(z)
           /\ var # 0 => Globals(w) = [Globals(z) EXCEPT ![var] = S16(value)]
<1> DEFINE w == setVariable(z, var, value)
<1>1. CASE var = 0
  <2>1. w = [z EXCEPT !.stack = Append(z.stack, S16(value))]
    BY <1>1 DEF setVariable, Push
  <2>2. w.pc = z.pc /\ w.dynamic = z.dynamic
    BY <2>1, SoundParts DEF Machines
  <2> HIDE DEF w
  <2>3. Globals(w) = Globals(z)
    BY <2>2 DEF Globals
  <2> QED BY <1>1, <2>2, <2>3 DEF w
<1>2. CASE var # 0
  <2>1. var \in Global /\ var \in 16..255
    BY <1>2, MemoryAssumption
  <2> DEFINE a(v) == GlobalAddress(v)
             d == [z.dynamic EXCEPT ![a(var)] = Msb(value), ![a(var) + 1] = Lsb(value)]
  <2>2. z.dynamic \in [Dynamic -> Byte] /\ z \in Machines
    BY SoundParts
  <2>3. w = [z EXCEPT !.dynamic = d]
    <3>1. var # 0 /\ var \notin 1..15
      BY <2>1
    <3> QED BY <3>1 DEF setVariable
  <2>4. w.pc = z.pc /\ w.dynamic = d
    BY <2>2, <2>3 DEF Machines
  <2>5. ASSUME NEW v \in Global, v # var PROVE GlobalValue(d, v) = GlobalValue(z.dynamic, v)
    <3>1. v \in 16..255
      BY MemoryAssumption
    <3>2. a(v) # a(var) /\ a(v) # a(var) + 1 /\ a(v) + 1 # a(var) /\ a(v) + 1 # a(var) + 1
      BY <2>1, <2>5, <3>1, MemoryAssumption DEF GlobalAddress
    <3>3. a(v) \in Dynamic /\ a(v) + 1 \in Dynamic
      BY MemoryAssumption
    <3>4. d[a(v)] = z.dynamic[a(v)] /\ d[a(v) + 1] = z.dynamic[a(v) + 1]
      <4> DEFINE b == a(v)
                 c == a(v) + 1
                 p == a(var)
                 q == a(var) + 1
                 e == z.dynamic
      <4>1. b # p /\ b # q /\ c # p /\ c # q /\ b \in Dynamic /\ c \in Dynamic
        BY <3>2, <3>3
      <4> HIDE DEF b, c, p, q, a, e
      <4>2. e \in [Dynamic -> Byte]
        BY <2>2 DEF e
      <4>3. [e EXCEPT ![p] = Msb(value), ![q] = Lsb(value)][b] = e[b]
            /\ [e EXCEPT ![p] = Msb(value), ![q] = Lsb(value)][c] = e[c]
        BY <4>1, <4>2
      <4> QED BY <4>3 DEF b, c, p, q, a, e
    <3> HIDE DEF d
    <3> QED BY <3>4 DEF GlobalValue
  <2>6. Globals(w)[var] = S16(value)
    BY <2>1, GlobalIsSet
  <2> HIDE DEF w, d
  <2>7. Globals(w) = [v \in Global |-> GlobalValue(d, v)]
    BY <2>4 DEF Globals
  <2>8. GlobalValue(d, var) = S16(value)
    BY <2>1, <2>6, <2>7
  <2>9. [Globals(z) EXCEPT ![var] = S16(value)] = [v \in Global |-> GlobalValue(d, v)]
    BY <2>1, <2>5, <2>8 DEF Globals
  <2> QED BY <1>2, <2>4, <2>7, <2>9 DEF w
<1> QED BY <1>1, <1>2

\* What is delivered is a value that the model knows, or nothing.
LEMMA DeliveredFits ==
    ASSUME NEW w, Sound(w), Bounded(w), NEW fs \in Seq(FrameRecords), Len(fs) >= 1,
           NEW var \in Stores, NEW value \in Int,
           Frames(w) = Each!Deliver(fs, var, value),
           var > 15 => Globals(w)[var] = value
    PROVE  \E v \in StackValue \cup LocalValue \cup GlobalValues :
              Frames(w) = Each!Deliver(fs, var, v) /\ (var > 15 => Globals(w)[var] = v)
<1> DEFINE n == Len(fs)
           f == Frames(w)
           any == CHOOSE v \in StackValue : TRUE
<1>1. any \in StackValue
  BY ValueAssumption
<1> HIDE DEF any
<1>2. n \in Nat \ {0} /\ fs[n] \in FrameRecords
  <2>1. n \in Nat /\ n >= 1
    OBVIOUS
  <2> HIDE DEF n
  <2>2. n \in Nat \ {0} /\ n \in 1..n
    BY <2>1
  <2> QED BY <2>2 DEF n
<1>3. /\ f \in Seq(FrameRecords) /\ Len(f) = Len(w.calls)
      /\ Len(w.calls) \in Nat \ {0}
  BY FramesAreRecords, SoundParts
<1>4. CASE var = 0
  <2> DEFINE r == fs[n]
             s == Append(r.stack, value)
  <2>1. f = [fs EXCEPT ![n].stack = s]
    BY <1>4 DEF Each!Deliver
  <2>2. r.stack \in Seq(Int)
    BY <1>2 DEF FrameRecords
  <2>3. Len(f) = n /\ f[n].stack = s
    <3> HIDE DEF f, n, s
    <3> QED BY <1>2, <2>1 DEF FrameRecords, n
  <2>4. Len(s) = Len(r.stack) + 1 /\ s[Len(s)] = value /\ Len(s) \in Nat
    BY <2>2
  <2>5. Len(w.calls) = n /\ n \in 1..Len(w.calls)
    BY <1>2, <1>3, <2>3
  <2> HIDE DEF s, r
  <2>6. OwnStack(w, n) = s
    BY <2>3, <2>5, FramesOf
  <2> DEFINE d == w.calls[n].depth
             e == NextDepth(w, n)
  <2>7. /\ e \in d..Len(w.stack) /\ d \in Nat /\ Len(s) = e - d
        /\ OwnStack(w, n) = [k \in 1..(e - d) |-> w.stack[k + d]]
    BY <2>5, <2>6, OwnStackOf
  <2>8. w.stack \in Seq(Int) /\ Len(w.stack) \in Nat
    BY SoundParts
  <2> HIDE DEF d, e, n, f
  <2>9. Len(s) \in 1..(e - d) /\ Len(s) + d \in 1..Len(w.stack)
    <3> DEFINE k == Len(s)
               m == Len(w.stack)
    <3>1. Len(r.stack) \in Nat
      BY <2>2
    <3>2. k = e - d /\ e \in d..m /\ d \in Nat /\ m \in Nat
      BY <2>7, <2>8, Zenon
    <3>4. k \in Nat \ {0}
      <4> DEFINE l == Len(r.stack)
      <4>1. l \in Nat /\ k = l + 1
        BY <2>4, <3>1
      <4> HIDE DEF l, k
      <4> QED BY <4>1
    <3> HIDE DEF k, m
    <3>3. k \in 1..(e - d) /\ k + d \in 1..m
      BY <3>2, <3>4
    <3> QED BY <3>3 DEF k, m
  <2>10. value = w.stack[Len(s) + d]
    BY <2>4, <2>6, <2>7, <2>9
  <2>11. Len(s) + d \in DOMAIN w.stack
    BY <2>8, <2>9
  <2>12. value \in StackValue
    BY <2>10, <2>11 DEF Bounded
  <2> QED BY <2>12
<1>5. CASE var \in 1..15
  <2> DEFINE r == fs[n]
             l == r.locals
  <2>1. Each!Deliver(fs, var, value) = [fs EXCEPT ![n].locals[var] = value]
        /\ Each!Deliver(fs, var, any) = [fs EXCEPT ![n].locals[var] = any]
    BY <1>5 DEF Each!Deliver
  <2>2. l \in Seq(Int) /\ ~(var > 15) /\ var \in Int
    BY <1>2, <1>5 DEF FrameRecords
  <2>3. CASE var \in 1..Len(l)
    <3>1. Len(f) = n /\ f[n].locals = [l EXCEPT ![var] = value]
      <4> HIDE DEF f, n
      <4> QED BY <1>2, <2>1 DEF FrameRecords, n, f
    <3> HIDE DEF l, r
    <3>2. f[n].locals[var] = value /\ var \in DOMAIN f[n].locals
      BY <2>2, <2>3, <3>1
    <3>3. Len(w.calls) = n /\ n \in 1..Len(w.calls) /\ n \in DOMAIN w.calls
      <4>1. DOMAIN w.calls = 1..Len(w.calls)
        BY SoundParts
      <4> QED BY <1>2, <1>3, <3>1, <4>1
    <3>4. f[n].locals = w.calls[n].locals
      BY <3>3, FramesOf
    <3> HIDE DEF f, n
    <3>5. value \in LocalValue
      BY <3>2, <3>3, <3>4 DEF Bounded
    <3> QED BY <2>2, <3>5
  <2>4. CASE var \notin 1..Len(l)
    <3>1. \A v : [l EXCEPT ![var] = v] = l
      <4> HIDE DEF l
      <4>1. l \in [1..Len(l) -> Int]
        BY <2>2
      <4> QED BY <2>4, <4>1
    <3>2. [fs EXCEPT ![n].locals[var] = value] = [fs EXCEPT ![n].locals[var] = any]
      <4>1. [l EXCEPT ![var] = value] = [l EXCEPT ![var] = any]
        BY <3>1
      <4> QED BY <4>1
    <3> HIDE DEF n
    <3>3. f = Each!Deliver(fs, var, any)
      BY <2>1, <3>2
    <3> HIDE DEF f
    <3> QED BY <1>1, <2>2, <3>3 DEF f
  <2> QED BY <2>3, <2>4
<1>6. CASE var \in Global
  <2>1. Globals(w)[var] = GlobalValue(w.dynamic, var)
    BY <1>6 DEF Globals
  <2>2. Globals(w)[var] \in GlobalValues
    BY <1>6, <2>1 DEF Bounded
  <2>3. var > 15
    <3>1. var \in 16..255
      BY <1>6, MemoryAssumption
    <3> QED BY <3>1
  <2> QED BY <2>2, <2>3
<1>7. CASE var = NoStore
  <2>1. Each!Deliver(fs, var, any) = fs /\ Each!Deliver(fs, var, value) = fs
        /\ ~(var > 15)
    BY <1>7 DEF Each!Deliver, NoStore
  <2>2. Frames(w) = Each!Deliver(fs, var, any) /\ (var > 15 => Globals(w)[var] = any)
    BY <2>1
  <2> QED BY <1>1, <2>2
<1> QED BY <1>4, <1>5, <1>6, <1>7 DEF Stores

\* A save or restore that ends in this way keeps the calls' results in variables.
LEMMA ConcludeStored ==
    ASSUME m_version \in Versions, NEW at \in DOMAIN SavePoint[m_version],
           NEW z, Sound(z), ResultsStored(z), MayEnd(z, at), NEW result \in {0, 1, 2}
    PROVE  ResultsStored(Conclude(z, at, result))
<1> DEFINE w == Conclude(z, at, result)
           branch == BranchAt(at)
<1>1. Ended(z, at, result, w)
  BY ConcludeEnds
<1> HIDE DEF w
<1>2. ASSUME NEW store \in {0} \cup Global, w = setVariable(z, store, result)
      PROVE  ResultsStored(w)
  <2>1. store \in Int /\ result \in Int
    BY MemoryAssumption
  <2>2. Works(z, w)
    BY <1>2, <2>1, SetVariableWorks
  <2> QED BY <2>2, WorksStored
<1>3. ASSUME w = z PROVE ResultsStored(w)
  BY <1>3
<1>4. ASSUME ~(m_version >= 4), branch.offset \in {0, 1}, w = returnRoutine(z, branch.offset)
      PROVE  ResultsStored(w)
  <2>1. branch.size > 0 /\ branch.offset \in Int
    BY <1>4, SavePoints
  <2>2. Len(z.calls) > 1
    BY <1>4, <2>1 DEF MayEnd
  <2>3. Len(z.calls) \in Nat
    BY SoundParts
  <2> DEFINE n == Len(z.calls)
  <2>4. n \in 1..n /\ \A i \in 1..(n - 1) : i \in 1..n
    BY <2>2, <2>3
  <2>5. Top(z.calls).returnStore \in Stores
    BY <2>4 DEF ResultsStored, Top
  <2>6. Len(w.calls) = n - 1
        /\ \A i \in 1..Len(w.calls) : w.calls[i].returnStore = z.calls[i].returnStore
    BY <1>4, <2>1, <2>2, <2>5, ReturnDelivers
  <2> QED BY <2>4, <2>6 DEF ResultsStored
<1>5. ASSUME ~(m_version >= 4), w = [z EXCEPT !.pc = z.pc + branch.offset - 2]
      PROVE  ResultsStored(w)
  <2>1. w.calls = z.calls
    BY <1>5, SoundParts DEF Machines
  <2> QED BY <2>1 DEF ResultsStored
<1> QED BY <1>1, <1>2, <1>3, <1>4, <1>5 DEF Ended, w

\* One that ends the instruction of the running call is an instruction of it, or a
\* return.
LEMMA ConcludeKeepsCalls ==
    ASSUME StackInv, m_version \in Versions, NEW at \in DOMAIN SavePoint[m_version],
           NEW z, Sound(z), Works(Machine, z), z.pc = AfterPart(at), MayEnd(z, at),
           NEW result \in {0, 1, 2}, Becomes(Conclude(z, at, result))
    PROVE  CallKept
<1> DEFINE w == Conclude(z, at, result)
           branch == BranchAt(at)
<1>1. Ended(z, at, result, w) /\ Sound(w) /\ Becomes(w)
  BY ConcludeEnds, ConcludeSound
<1> HIDE DEF w
<1>2. ASSUME NEW store \in {0} \cup Global, w = setVariable(z, store, result)
      PROVE  CallKept
  <2>1. store \in Int /\ result \in Int
    BY MemoryAssumption
  <2> QED BY <1>1, <1>2, <2>1, SetStep
<1>3. CASE w = z
  BY <1>1, <1>3, RunningWorks
<1>4. ASSUME ~(m_version >= 4), branch.offset \in {0, 1}, w = returnRoutine(z, branch.offset)
      PROVE  CallKept
  <2>1. branch.size > 0 /\ branch.offset \in Int
    BY <1>4, SavePoints
  <2>2. Len(z.calls) > 1
    BY <1>4, <2>1 DEF MayEnd
  <2>3. Len(m_callStack) > 1
    BY <2>2 DEF Works, Machine
  <2> QED BY <1>1, <1>4, <2>1, <2>3, ReturnFromTop
<1>5. ASSUME ~(m_version >= 4), w = [z EXCEPT !.pc = z.pc + branch.offset - 2]
      PROVE  CallKept
  <2>1. w.calls = z.calls /\ w.stack = z.stack
    BY <1>5, SoundParts DEF Machines
  <2>2. Works(Machine, w)
    BY <2>1, StackWorks, WorksTransitive
  <2> QED BY <1>1, <2>2, RunningWorks
<1> QED BY <1>1, <1>2, <1>3, <1>4, <1>5 DEF Ended, w

\* A return of call n, as the model bounds its value.
LEMMA EndsFits ==
    ASSUME StackInv', Bounded(Machine'), NEW fs \in Seq(FrameRecords), NEW n \in Nat,
           n > 1, Len(fs) = n - 1, NEW store \in Stores, NEW value \in Int,
           Frames(Machine)' = Each!Deliver(fs, store, value),
           store > 15 => (Globals(Machine)')[store] = value
    PROVE  \E v \in StackValue \cup LocalValue \cup GlobalValues :
              /\ Frames(Machine)' = R!Deliver(fs, store, v)
              /\ store > 15 => (Globals(Machine)')[store] = v
<1>1. PICK w : w = Machine'
  OBVIOUS
<1>2. Sound(w) /\ Bounded(w)
  BY <1>1 DEF StackInv
<1>3. Frames(Machine)' = Frames(w) /\ Globals(Machine)' = Globals(w)
  BY <1>1 DEF Frames, OwnStack, NextDepth, Globals, GlobalValue
<1>4. Len(fs) >= 1
  OBVIOUS
<1>5. \E v \in StackValue \cup LocalValue \cup GlobalValues :
          Frames(w) = Each!Deliver(fs, store, v) /\ (store > 15 => Globals(w)[store] = v)
  BY <1>2, <1>3, <1>4, DeliveredFits
<1> QED BY <1>3, <1>5, SameDelivery

\* A game that goes on after its save does so as Routines has it.
LEMMA ConcludeGoesOn ==
    ASSUME m_version \in Versions, NEW at \in DOMAIN SavePoint[m_version],
           NEW z, Sound(z), ResultsStored(z), z.pc = AfterPart(at), MayEnd(z, at),
           NEW result \in {1, 2}, Becomes(Conclude(z, at, result))
    PROVE  R!GoesOn([frames |-> Frames(z), globals |-> Globals(z)], ResumePC(at))
<1> DEFINE w == Conclude(z, at, result)
           branch == BranchAt(at)
           game == [frames |-> Frames(z), globals |-> Globals(z)]
           there == ResumePC(at)
           n == Len(z.calls)
<1>1. Ended(z, at, result, w) /\ Sound(w) /\ Becomes(w)
  BY ConcludeEnds, ConcludeSound
<1> HIDE DEF w
<1>2. /\ Machine' = w /\ m_pc' = w.pc /\ StackInv'
      /\ Frames(Machine)' = Frames(w) /\ Globals(Machine)' = Globals(w)
      /\ Bounded(Machine')
  BY <1>1, BecomesMachine DEF Becomes
<1>3. game.frames = Frames(z) /\ game.globals = Globals(z)
  OBVIOUS
<1>4. /\ Frames(z) \in Seq(FrameRecords) /\ Len(Frames(z)) = n /\ n \in Nat \ {0}
      /\ AfterPart(at) \in Int
  BY FramesAreRecords, SoundParts, SavePoints
<1>5. result \in Int /\ S16(result) = result /\ result # 0
  BY DEF S16
<1> HIDE DEF game, n
<1>6. ASSUME m_version >= 4, NEW store \in {0} \cup Global,
             w = setVariable(z, store, result)
      PROVE  R!GoesOn(game, there)
  <2>1. store \in Int /\ store \in Stores /\ store \notin 1..15
        /\ (store > 15 <=> store # 0)
    BY MemoryAssumption DEF Stores
  <2>2. there = w.pc
    <3>1. BranchAt(at).size = 0
      BY <1>6, SavePoints DEF NoBranch
    <3>2. w.pc = z.pc
      BY <1>5, <1>6, GlobalsSet
    <3> QED BY <1>4, <3>1, <3>2 DEF ResumePC
  <2>3. /\ store = 0 => Globals(w) = Globals(z)
        /\ store # 0 => Globals(w) = [Globals(z) EXCEPT ![store] = result]
    BY <1>5, <1>6, GlobalsSet
  <2>4. Frames(w) = Each!Deliver(Frames(z), store, result)
    BY <1>5, <1>6, <2>1, SetDelivers
  <2>5. store > 15 => Globals(w)[store] = result
    <3>1. ASSUME store > 15 PROVE Globals(w)[store] = result
      <4>1. store \in Global
        BY <2>1, <3>1
      <4> QED BY <1>5, <1>6, <4>1, GlobalIsSet
    <3> QED BY <3>1
  <2>6. Bounded(w) /\ Len(Frames(z)) >= 1
    BY <1>1, <1>4 DEF Becomes
  <2>7. PICK v \in StackValue \cup LocalValue \cup GlobalValues :
            Frames(w) = Each!Deliver(Frames(z), store, v)
            /\ (store > 15 => Globals(w)[store] = v)
    BY <1>1, <1>4, <1>5, <2>1, <2>4, <2>5, <2>6, DeliveredFits
  <2>8. store > 15 => v = result
    BY <2>5, <2>7
  <2>9. store \in {u \in {0} \cup (1..15) \cup Global : R!Knows(game.frames, u)}
    BY <2>1 DEF R!Knows
  <2>10. /\ Frames(Machine)' = R!Deliver(game.frames, store, v)
         /\ store > 15 => Globals(Machine)' = [game.globals EXCEPT ![store] = v]
         /\ store <= 15 => Globals(Machine)' = game.globals
         /\ m_pc' = there
    <3>1. Frames(Machine)' = R!Deliver(game.frames, store, v)
      BY <1>2, <1>3, <2>7, SameDelivery
    <3>2. store > 15 => Globals(Machine)' = [game.globals EXCEPT ![store] = v]
      BY <1>2, <1>3, <2>1, <2>3, <2>8
    <3>3. store <= 15 => Globals(Machine)' = game.globals
      BY <1>2, <1>3, <2>1, <2>3
    <3> QED BY <1>2, <2>2, <3>1, <3>2, <3>3
  <2> HIDE DEF there
  <2> QED BY <2>9, <2>10 DEF R!GoesOn
<1>7. ASSUME ~(m_version >= 4), (result # 0) <=> branch.negate, w = z
      PROVE  R!GoesOn(game, there)
  <2>1. there = w.pc
    BY <1>4, <1>5, <1>7 DEF ResumePC
  <2>2. R!Game' = game
    BY <1>2, <1>7 DEF R!Game, game
  <2> HIDE DEF there
  <2> QED BY <1>2, <2>1, <2>2 DEF R!GoesOn
<1>8. ASSUME ~(m_version >= 4), branch.offset \in {0, 1}, w = returnRoutine(z, branch.offset)
      PROVE  R!GoesOn(game, there)
  <2>1. branch.size > 0 /\ branch.offset \in Int
    BY <1>8, SavePoints
  <2>2. n > 1
    BY <1>8, <2>1 DEF MayEnd, n
  <2> DEFINE cs == Top(z.calls)
             fs == SubSeq(Frames(z), 1, n - 1)
             value == S16(branch.offset)
  <2>3. n \in 1..n /\ n - 1 \in Nat /\ n \in Nat
    BY <1>4, <2>2
  <2>4. cs.returnStore \in Stores /\ cs = z.calls[n]
    BY <2>3 DEF ResultsStored, Top, n
  <2>5. /\ Frames(w) = Each!Deliver(fs, cs.returnStore, value)
        /\ w.pc = cs.returnAddr
        /\ cs.returnStore > 15 => Globals(w)[cs.returnStore] = value
    BY <1>8, <2>1, <2>2, <2>4, ReturnDelivers DEF n
  <2>6. fs \in Seq(FrameRecords) /\ Len(fs) = n - 1
    BY <1>4, <2>3
  <2>7. value \in Int
    BY <2>1, Integers16
  <2>8. Frames(z)[n].store = cs.returnStore /\ Frames(z)[n].back = cs.returnAddr
    <3>1. n \in 1..Len(z.calls)
      BY <2>3 DEF n
    <3>2. Frames(z)[n].store = z.calls[n].returnStore
          /\ Frames(z)[n].back = z.calls[n].returnAddr
      BY <3>1, FramesOf
    <3> HIDE DEF n, cs
    <3> QED BY <2>4, <3>2
  <2> DEFINE store == cs.returnStore
  <2> HIDE DEF fs, value, store
  <2>9. \E v \in StackValue \cup LocalValue \cup GlobalValues :
              /\ Frames(Machine)' = R!Deliver(fs, store, v)
              /\ store > 15 => (Globals(Machine)')[store] = v
    <3>1. /\ Frames(Machine)' = Each!Deliver(fs, store, value)
          /\ store > 15 => (Globals(Machine)')[store] = value
      BY <1>2, <2>5 DEF store
    <3>2. store \in Stores
      BY <2>4 DEF store
    <3> QED BY <1>2, <2>2, <2>3, <2>6, <2>7, <3>1, <3>2, EndsFits
  <2>10. Len(Frames(Machine)') = n - 1
    <3>1. PICK v : Frames(Machine)' = R!Deliver(fs, store, v)
      BY <2>9
    <3> HIDE DEF n
    <3>2. Len(R!Deliver(fs, store, v)) = n - 1
      BY <2>3, <2>6 DEF R!Deliver
    <3> QED BY <3>1, <3>2
  <2>11. R!Ends(game, n)
    <3>1. game.frames[n].store = store /\ m_pc' = game.frames[n].back
          /\ SubSeq(game.frames, 1, n - 1) = fs
      BY <1>2, <1>3, <2>5, <2>8 DEF store, fs
    <3> QED BY <2>2, <2>9, <2>10, <3>1 DEF R!Ends
  <2>12. Len(game.frames) = n
    BY <1>3, <1>4
  <2> QED BY <2>11, <2>12 DEF R!GoesOn
<1>9. ASSUME ~(m_version >= 4), (result # 0) <=> ~branch.negate,
             w = [z EXCEPT !.pc = z.pc + branch.offset - 2]
      PROVE  R!GoesOn(game, there)
  <2>1. branch.size > 0 /\ ~branch.negate /\ branch.offset \in Int
        /\ z.pc + branch.offset - 2 \in Nat
    BY <1>5, <1>9, SavePoints
  <2>2. /\ w.pc = z.pc + branch.offset - 2
        /\ Frames(w) = Frames(z) /\ Globals(w) = Globals(z)
    BY <1>9, <2>1, PCOnly
  <2>3. there = w.pc
    BY <1>4, <2>1, <2>2 DEF ResumePC
  <2>4. R!Game' = game
    BY <1>2, <2>2 DEF R!Game, game
  <2> HIDE DEF there
  <2> QED BY <1>2, <2>3, <2>4 DEF R!GoesOn
<1> HIDE DEF there
<1>10. R!GoesOn(game, there)
  BY <1>1, <1>6, <1>7, <1>8, <1>9 DEF Ended
<1> QED BY <1>10 DEF game, there

\* What every call returns is a value that the model knows.
LEMMA LeaveIsRoutines ==
    ASSUME StackInv, ResultsStored(Machine), Each!Leave, StackInv', Bounded(Machine'),
           saved' = saved
    PROVE  R!Leave
<1> DEFINE x == Machine
           fx == Frames(x)
<1>1. Sound(x)
  BY DEF StackInv
<1>2. ResultsStored(x)
  OBVIOUS
<1>3. PICK n \in 1..Each!Deep : Each!Ends(Each!Game, n)
  BY DEF Each!Leave
<1>4. /\ n > 1 /\ Len(Frames(Machine)') = n - 1
      /\ \E value \in Word :
            /\ Frames(Machine)' = Each!Deliver(SubSeq(fx, 1, n - 1), fx[n].store, value)
            /\ fx[n].store > 15 => (Globals(Machine)')[fx[n].store] = value
      /\ m_pc' = fx[n].back
  BY <1>3 DEF Each!Ends, Each!Game
<1>5. n \in 1..Len(fx)
  BY <1>3 DEF Each!Deep
<1> HIDE DEF x, fx
<1>6. fx \in Seq(FrameRecords) /\ Len(fx) = Len(x.calls) /\ Len(x.calls) \in Nat
  BY <1>1, FramesAreRecords, SoundParts DEF fx
<1>7. fx[n].store \in Stores
  <2>1. n \in 1..Len(x.calls)
    BY <1>5, <1>6
  <2>2. fx[n].store = x.calls[n].returnStore
    BY <1>1, <2>1, FramesOf DEF fx
  <2> QED BY <1>2, <2>1, <2>2 DEF ResultsStored
<1> DEFINE fs == SubSeq(fx, 1, n - 1)
           store == fx[n].store
<1>8. fs \in Seq(FrameRecords) /\ Len(fs) = n - 1 /\ n \in Nat
  BY <1>4, <1>5, <1>6
<1>9. PICK value \in Word :
            /\ Frames(Machine)' = Each!Deliver(fs, store, value)
            /\ store > 15 => (Globals(Machine)')[store] = value
  BY <1>4
<1>10. value \in Int
  BY DEF Word
<1> HIDE DEF fs
<1>11. store \in Stores /\ n > 1
  BY <1>4, <1>7, Zenon
<1> HIDE DEF store
<1>12. \E v \in StackValue \cup LocalValue \cup GlobalValues :
              /\ Frames(Machine)' = R!Deliver(fs, store, v)
              /\ store > 15 => (Globals(Machine)')[store] = v
  BY <1>8, <1>9, <1>10, <1>11, EndsFits
<1>13. R!Ends(R!Game, n)
  <2>1. R!Game.frames = fx
    BY DEF R!Game, fx, x
  <2>2. SubSeq(R!Game.frames, 1, n - 1) = fs /\ R!Game.frames[n].store = store
        /\ m_pc' = R!Game.frames[n].back
    BY <1>4, <2>1 DEF fs, store
  <2> QED BY <1>4, <1>11, <1>12, <2>2 DEF R!Ends
<1>14. n \in 1..R!Deep
  BY <1>5 DEF R!Deep, fx, x
<1> QED BY <1>13, <1>14 DEF R!Leave

\* Work, calls and returns while nothing is saved or restored.
LEMMA KeptIsRoutines ==
    ASSUME StackInv, ResultsStored(Machine), CallKept, Bounded(Machine'), saved' = saved
    PROVE  R!Next /\ ResultsStored(Machine)'
<1>1. ResultsStored(Machine)' /\ (Each!Work \/ Each!Enter \/ Each!Leave) /\ StackInv'
  BY DEF CallKept
<1>2. CASE Each!Work
  <2>1. R!Work
    BY <1>2 DEF Each!Work, R!Work, Each!Given, R!Given
  <2> QED BY <1>1, <2>1 DEF R!Next
<1>3. CASE Each!Enter
  <2>1. R!Enter
    BY <1>3 DEF Each!Enter, R!Enter
  <2> QED BY <1>1, <2>1 DEF R!Next
<1>4. CASE Each!Leave
  <2>1. R!Leave
    BY <1>1, <1>4, LeaveIsRoutines
  <2> QED BY <1>1, <2>1 DEF R!Next
<1> QED BY <1>1, <1>2, <1>3, <1>4

LEMMA InstructionIsRoutines ==
    ASSUME GameInv, ResultsStored(Machine), Instruction, saved' = saved
    PROVE  R!Next /\ ResultsStored(Machine)'
<1>1. StackInv
  BY DEF GameInv, Game, StackInv
<1>2. CallKept
  BY <1>1, InstructionKeepsCalls
<1>3. Bounded(Machine')
  BY InstructionBounded DEF Bounded, Machine
<1> QED BY <1>1, <1>2, <1>3, KeptIsRoutines

\* A save or restore that fails ends its own instruction.
LEMMA FailureIsRoutines ==
    ASSUME GameInv, ResultsStored(Machine), NEW at \in DOMAIN SavePoint[m_version],
           NEW z, z = [Machine EXCEPT !.pc = AfterPart(at)], MayConclude(at),
           Becomes(Conclude(z, at, 0)), saved' = saved
    PROVE  R!Next /\ ResultsStored(Machine)'
<1>1. StackInv /\ m_version \in Versions
  BY DEF GameInv, Game, StackInv
<1>2. /\ Game(z) /\ Sound(z) /\ z.pc = AfterPart(at) /\ MayEnd(z, at)
      /\ z.calls = m_callStack /\ z.stack = m_stack
  BY InstructionRead DEF Game
<1>3. Works(Machine, z)
  BY <1>1, <1>2, StackWorks DEF Machine, StackInv
<1>4. CallKept
  BY <1>1, <1>2, <1>3, ConcludeKeepsCalls
<1>5. Bounded(Machine')
  <2> DEFINE w == Conclude(z, at, 0)
  <2>1. Sound(w)
    BY <1>1, <1>2, ConcludeSound
  <2>2. Becomes(w)
    OBVIOUS
  <2> HIDE DEF w
  <2>3. Machine' = w /\ Bounded(w)
    BY <2>1, <2>2, BecomesMachine DEF Becomes
  <2> QED BY <2>3
<1> QED BY <1>1, <1>4, <1>5, KeptIsRoutines

\* A place in the story, and what a saved game goes on with, remain.
LEMMA SameGameOf ==
    ASSUME m_version' = m_version
    PROVE  \A g, at : GameOf(g, at)' = GameOf(g, at)
<1> SUFFICES ASSUME NEW g, NEW at PROVE GameOf(g, at)' = GameOf(g, at)
  OBVIOUS
<1>1. AfterPart(at)' = AfterPart(at) /\ BranchAt(at)' = BranchAt(at)
  BY SamePlaces
<1>2. ResumePC(at)' = ResumePC(at)
  BY <1>1 DEF ResumePC
<1> QED BY <1>2 DEF GameOf

LEMMA AgreementRemains ==
    ASSUME m_version' = m_version, file' = file, saved' = saved, FileAgrees
    PROVE  FileAgrees'
<1>1. CASE file = <<>>
  BY <1>1 DEF FileAgrees
<1>2. CASE OtherStory(file)
  <2>1. OtherStory(file')
    BY <1>2
  <2> QED BY <2>1 DEF FileAgrees, OtherStory
<1>3. ASSUME NEW g \in Machines, NEW at \in DOMAIN SavePoint[m_version],
             SavedIn(g, at), AllStored(g), saved = GameOf(g, at)
      PROVE  FileAgrees'
  <2>1. file' = saveState(g, BranchAt(at)) /\ Game(g) /\ g.pc = AfterPart(at) /\ MayEnd(g, at)
    BY <1>3 DEF SavedIn
  <2>2. SavedIn(g, at)'
    BY <2>1, FileIsSaved
  <2>3. GameOf(g, at)' = GameOf(g, at)
    BY SameGameOf
  <2>4. saved' = GameOf(g, at)' /\ AllStored(g)'
    <3>1. AllStored(g)'
      BY <1>3 DEF AllStored, ResultsStored
    <3> QED BY <1>3, <2>3, <3>1
  <2>5. at \in DOMAIN SavePoint[m_version']
    OBVIOUS
  <2> QED BY <2>2, <2>4, <2>5 DEF FileAgrees
<1> QED BY <1>1, <1>2, <1>3 DEF FileAgrees

LEMMA SaveIsRoutines ==
    ASSUME SnapshotsStore, RoutinesInv, NEW at \in DOMAIN SavePoint[m_version], Save(at)
    PROVE  R!Next /\ RoutinesInv'
<1>1. PICK z : z = [Machine EXCEPT !.pc = AfterPart(at)]
  OBVIOUS
<1>2. GameInv /\ MayConclude(at) /\ FileAgrees /\ ResultsStored(Machine)
      /\ m_version \in Versions /\ StackInv
  BY DEF RoutinesInv, Save, GameInv, Game, StackInv
<1>3. /\ Game(z) /\ Sound(z) /\ z.pc = AfterPart(at) /\ MayEnd(z, at)
      /\ z.calls = m_callStack /\ z.stack = m_stack /\ z.dynamic = DYNAMIC
  BY <1>1, <1>2, InstructionRead DEF Game
<1>4. \/ /\ Snapshot(z) \in Snapshots
         /\ file' = saveState(z, BranchAt(at)) /\ saved' = GameOf(z, at)
         /\ Becomes(Conclude(z, at, 1))
      \/ file' = file /\ saved' = saved /\ Becomes(Conclude(z, at, 0))
  BY <1>1, Zenon DEF Save
<1>5. CASE file' = file /\ saved' = saved /\ Becomes(Conclude(z, at, 0))
  <2>1. GameInv' /\ m_version' = m_version
    BY <1>2, <1>3, <1>5, ConcludedIsGame
  <2>2. R!Next /\ ResultsStored(Machine)'
    BY <1>1, <1>2, <1>5, FailureIsRoutines
  <2>3. FileAgrees'
    BY <1>2, <1>5, <2>1, AgreementRemains
  <2> QED BY <2>1, <2>2, <2>3 DEF RoutinesInv
<1>6. CASE /\ Snapshot(z) \in Snapshots
           /\ file' = saveState(z, BranchAt(at)) /\ saved' = GameOf(z, at)
           /\ Becomes(Conclude(z, at, 1))
  <2>1. GameInv' /\ m_version' = m_version
    BY <1>2, <1>3, <1>6, ConcludedIsGame
  <2>2. ResultsStored(z)
    BY <1>2, <1>3 DEF ResultsStored, Machine
  <2>3. AllStored(z)
    <3>1. \A i \in DOMAIN z.calls : z.calls[i].returnStore # NoStore
      BY <1>6 DEF SnapshotsStore, Snapshot
    <3>2. DOMAIN z.calls = 1..Len(z.calls)
      BY <1>3, SoundParts
    <3> QED BY <2>2, <3>1, <3>2 DEF AllStored
  <2>4. ResultsStored(Machine)'
    <3> DEFINE w == Conclude(z, at, 1)
    <3>1. Sound(w) /\ ResultsStored(w)
      BY <1>2, <1>3, <2>2, ConcludeSound, ConcludeStored
    <3>2. Becomes(w)
      BY <1>6
    <3> HIDE DEF w
    <3> QED BY <3>1, <3>2, BecomesMachine
  <2>5. FileAgrees'
    <3>1. SavedIn(z, at)'
      BY <1>3, <1>6, <2>1, FileIsSaved
    <3>2. saved' = GameOf(z, at)'
      BY <1>6, <2>1, SameGameOf
    <3>3. AllStored(z)' /\ z \in Machines /\ at \in DOMAIN SavePoint[m_version']
      BY <1>3, <2>1, <2>3, SoundParts DEF AllStored, ResultsStored
    <3> QED BY <3>1, <3>2, <3>3 DEF FileAgrees
  <2>6. R!GoesOn([frames |-> Frames(z), globals |-> Globals(z)], ResumePC(at))
    BY <1>2, <1>3, <1>6, <2>2, ConcludeGoesOn
  <2>7. Frames(z) = Frames(Machine) /\ Globals(z) = Globals(Machine)
    BY <1>3 DEF Machine, Frames, OwnStack, NextDepth, Globals
  <2>8. /\ saved'.frames = Frames(Machine) /\ saved'.globals = Globals(Machine)
        /\ saved'.pc = ResumePC(at)
    BY <1>6, <2>7 DEF GameOf
  <2>9. saved' # <<>>
    <3>1. "pc" \in DOMAIN saved'
      BY <1>6 DEF GameOf
    <3>2. "pc" \notin DOMAIN <<>>
      OBVIOUS
    <3> QED BY <3>1, <3>2
  <2>10. R!Save
    BY <2>6, <2>7, <2>8 DEF R!Save, R!Game
  <2> QED BY <2>1, <2>4, <2>5, <2>9, <2>10 DEF R!Next, RoutinesInv
<1> QED BY <1>4, <1>5, <1>6

\* The saved game, with all its results, has the frames that it had.
LEMMA RestoredHasFrames ==
    ASSUME NEW g, NEW y, AllStored(g), Game(y),
           (\A i \in 1..Len(g.calls) : g.calls[i].returnStore # NoStore)
               => y.calls = g.calls,
           y.stack = g.stack, y.dynamic = g.dynamic
    PROVE  ResultsStored(y) /\ Frames(y) = Frames(g) /\ Globals(y) = Globals(g)
<1>1. y.calls = g.calls
  BY DEF AllStored
<1>2. ResultsStored(y)
  BY <1>1 DEF AllStored, ResultsStored
<1>3. Frames(y) = Frames(g) /\ Globals(y) = Globals(g)
  BY <1>1 DEF Frames, OwnStack, NextDepth, Globals
<1> QED BY <1>2, <1>3

LEMMA RestoreIsRoutines ==
    ASSUME ShortBranches, RoutinesInv, NEW at \in DOMAIN SavePoint[m_version], Restore(at)
    PROVE  R!Next /\ RoutinesInv'
<1>1. PICK z : z = [Machine EXCEPT !.pc = AfterPart(at)]
  OBVIOUS
<1>2. GameInv /\ MayConclude(at) /\ FileAgrees /\ ResultsStored(Machine)
      /\ m_version \in Versions /\ file' = file /\ saved' = saved
  BY DEF RoutinesInv, Restore, GameInv
<1>3. Game(z) /\ z.pc = AfterPart(at) /\ MayEnd(z, at)
  BY <1>1, <1>2, InstructionRead
<1>4. CASE file = <<>> \/ OtherStory(file)
  <2>1. Becomes(Conclude(z, at, 0))
    BY <1>1, <1>4, RestoreFails
  <2>2. GameInv' /\ m_version' = m_version
    BY <1>2, <1>3, <2>1, ConcludedIsGame
  <2>3. R!Next /\ ResultsStored(Machine)'
    BY <1>1, <1>2, <2>1, FailureIsRoutines
  <2>4. FileAgrees'
    BY <1>2, <2>2, AgreementRemains
  <2> QED BY <2>2, <2>3, <2>4 DEF RoutinesInv
<1>5. ASSUME NEW g \in Machines, NEW a \in DOMAIN SavePoint[m_version],
             SavedIn(g, a), AllStored(g), saved = GameOf(g, a)
      PROVE  R!Next /\ RoutinesInv'
  <2> DEFINE y == [Restored(g, a) EXCEPT !.pc = AfterPart(a)]
             w == Conclude(y, a, 2)
  <2>1. Becomes(w)
    BY <1>2, <1>5, RestoreSucceeds
  <2>2. /\ Game(y) /\ y.pc = AfterPart(a) /\ MayEnd(y, a)
        /\ (\A i \in 1..Len(g.calls) : g.calls[i].returnStore # NoStore)
              => y.calls = g.calls
        /\ y.stack = g.stack /\ y.dynamic = g.dynamic
    BY <1>2, <1>5, RestoredAfterSave
  <2> HIDE DEF y
  <2>3. ResultsStored(y) /\ Frames(y) = Frames(g) /\ Globals(y) = Globals(g) /\ Sound(y)
    BY <1>5, <2>2, RestoredHasFrames DEF Game
  <2>4. GameInv' /\ m_version' = m_version
    BY <1>2, <2>1, <2>2, ConcludedIsGame
  <2>5. ResultsStored(Machine)'
    <3>1. Sound(w) /\ ResultsStored(w)
      BY <1>2, <2>2, <2>3, ConcludeSound, ConcludeStored
    <3> HIDE DEF w
    <3> QED BY <2>1, <3>1, BecomesMachine
  <2>6. R!GoesOn([frames |-> Frames(y), globals |-> Globals(y)], ResumePC(a))
    BY <1>2, <2>1, <2>2, <2>3, ConcludeGoesOn
  <2>7. /\ saved.frames = Frames(y) /\ saved.globals = Globals(y)
        /\ saved.pc = ResumePC(a) /\ saved # <<>>
    <3>1. saved.frames = Frames(y) /\ saved.globals = Globals(y) /\ saved.pc = ResumePC(a)
      BY <1>5, <2>3 DEF GameOf
    <3>2. "pc" \in DOMAIN saved
      BY <1>5 DEF GameOf
    <3>3. "pc" \notin DOMAIN <<>>
      OBVIOUS
    <3> QED BY <3>1, <3>2, <3>3
  <2>8. R!Restore
    BY <1>2, <2>6, <2>7 DEF R!Restore
  <2>9. FileAgrees'
    BY <1>2, <2>4, AgreementRemains
  <2> QED BY <2>4, <2>5, <2>8, <2>9 DEF R!Next, RoutinesInv
<1> QED BY <1>2, <1>4, <1>5 DEF FileAgrees

LEMMA InitAgrees ==
    ASSUME ShortBranches, InitQ, FirstFileStored
    PROVE  RoutinesInv
<1>1. GameInv /\ Init /\ m_version \in Versions
  BY InitGame DEF InitQ, GameInv
<1>2. ResultsStored(Machine)
  BY <1>1, InitStored
<1> DEFINE r == restoreState(Machine, file)
<1>3. saved = IF r.restored THEN GameOf(r.z, r.z.pc) ELSE <<>>
  BY Zenon DEF InitQ
<1>4. FileAgrees
  <2>1. ASSUME NEW g \in Machines, NEW a \in DOMAIN SavePoint[m_version],
               SavedIn(g, a), AllStored(g)
        PROVE  saved = GameOf(g, a)
    <3> DEFINE x == Restored(g, a)
    <3>1. Machine = State(m_pc, m_stack, m_callStack, DYNAMIC)
      BY DEF Machine, State
    <3>2. file = saveState(g, BranchAt(a)) /\ Game(g) /\ g.pc = AfterPart(a)
      BY <2>1 DEF SavedIn
    <3>3. r.restored /\ r.z = x
      BY <1>1, <3>1, <3>2, FileRestored
    <3> HIDE DEF r
    <3>4. a \in Nat
      BY <1>1, SavePoints
    <3>5. /\ Game(x) /\ x.pc = a /\ x.stack = g.stack /\ x.dynamic = g.dynamic
          /\ (\A i \in 1..Len(g.calls) : g.calls[i].returnStore # NoStore)
                => x.calls = g.calls
      BY <3>2, <3>4, RestoredIsGame
    <3> HIDE DEF x
    <3>6. Frames(x) = Frames(g) /\ Globals(x) = Globals(g)
      BY <2>1, <3>5, RestoredHasFrames
    <3>7. saved = GameOf(x, a)
      BY <1>3, <3>3, <3>5
    <3> QED BY <3>6, <3>7 DEF GameOf
  <2> QED BY <2>1 DEF FirstFileStored, FileAgrees
<1> QED BY <1>1, <1>2, <1>4 DEF RoutinesInv

LEMMA NextIsRoutines ==
    ASSUME ShortBranches, SnapshotsStore, RoutinesInv, [Next]_qvars
    PROVE  [R!Next]_(R!vars) /\ RoutinesInv'
<1>1. CASE UNCHANGED qvars
  <2>1. /\ Machine' = Machine /\ m_version' = m_version /\ file' = file
        /\ saved' = saved /\ m_pc' = m_pc
    BY <1>1 DEF qvars, machineVars, Machine
  <2>2. GameInv' /\ ResultsStored(Machine)'
    BY <2>1 DEF RoutinesInv, GameInv, ResultsStored
  <2>3. FileAgrees'
    BY <2>1, AgreementRemains DEF RoutinesInv
  <2>4. UNCHANGED R!vars
    BY <2>1 DEF R!vars, Frames, OwnStack, NextDepth, Globals, GlobalValue
  <2> QED BY <2>2, <2>3, <2>4 DEF RoutinesInv
<1>2. CASE Instruction /\ UNCHANGED <<file, saved>>
  <2>1. GameInv' /\ m_version' = m_version
    BY <1>2, InstructionKeepsGame DEF RoutinesInv
  <2>2. R!Next /\ ResultsStored(Machine)'
    BY <1>2, InstructionIsRoutines DEF RoutinesInv
  <2>3. FileAgrees'
    BY <1>2, <2>1, AgreementRemains DEF RoutinesInv
  <2> QED BY <2>1, <2>2, <2>3 DEF RoutinesInv
<1>3. ASSUME NEW at \in DOMAIN SavePoint[m_version], Save(at) \/ Restore(at)
      PROVE  R!Next /\ RoutinesInv'
  BY <1>3, SaveIsRoutines, RestoreIsRoutines
<1> QED BY <1>1, <1>2, <1>3 DEF Next

\* A game is one of Routines also when it is saved and restored: each call has locals
\* and a stack of its own, and what is restored goes on with the calls, the globals
\* and the place of what was saved last (zops.c callRoutine, returnRoutine, throw,
\* saveInstruction, restoreInstruction, saveState, restoreState).
THEOREM GameIsRoutines ==
    ASSUME ShortBranches, SnapshotsStore
    PROVE  Spec /\ FirstFileStored => ImplementsRoutines
<1>1. InitQ /\ FirstFileStored => RoutinesInv
  BY InitAgrees
<1>2. RoutinesInv /\ [Next]_qvars => RoutinesInv'
  BY NextIsRoutines
<1>3. RoutinesInv /\ [Next]_qvars => [R!Next]_(R!vars)
  BY NextIsRoutines
<1>4. InitQ => R!Init
  <2>1. InitQ => Each!Init
    BY InitIsEach DEF InitQ
  <2>2. Each!Init => R!Init
    BY DEF Each!Init, R!Init
  <2> QED BY <2>1, <2>2
<1> QED BY <1>1, <1>2, <1>3, <1>4, PTL DEF Spec, ImplementsRoutines, R!Spec

================================================================================
