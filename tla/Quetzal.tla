-------------------------------- MODULE Quetzal --------------------------------
(***************************************************************************)
(* Saving and restoring a game (zops.c 1175-1548): the stacks and dynamic  *)
(* memory as the chunks of a Quetzal file, and back.                       *)
(*                                                                         *)
(* A file is a sequence of chunks; their sizes, which a first pass of      *)
(* saveState works out, and the form that holds them are left out.  The    *)
(* bytes of a frame are fields that have the ranges of those bytes.        *)
(***************************************************************************)
EXTENDS ZStack, SequencesExt

CONSTANTS
    MaxRun,       \* unchanged bytes that one pair of bytes stands for: 256 in the code
    SavePoint,    \* the save instructions of a story of each version, by the address
                  \* of their last part: the variable to store in, or the branch
    Story,        \* release, serial number and checksum of the story
    Snapshots,    \* [stack, calls, dynamic] of the games that are saved
    FirstFiles    \* what may be in the file to begin with

ASSUME MaxRunAssumption == MaxRun \in 1..256
ASSUME SavePointAssumption ==
    \A version \in Versions : \A at \in DOMAIN SavePoint[version] :
        /\ at \in Location
        /\ IF version >= 4 THEN SavePoint[version][at].store \in {0} \cup Global
           ELSE LET branch == SavePoint[version][at].branch IN
                /\ branch.size \in {1, 2} /\ branch.negate \in BOOLEAN
                /\ branch.offset \in Int /\ at + branch.size + branch.offset - 2 \in Nat

VARIABLES
    file,   \* the saved game on the flash; no chunks if there is none
    saved   \* the game that was saved, as Routines has it (a history variable)
qvars == <<machineVars, file, saved>>

--------------------------------------------------------------------------------
(***************************************************************************)
(* Dynamic memory: its differences from the story file, where a zero and a *)
(* byte n stand for n + 1 bytes without a difference.  Those at the end    *)
(* are left out.                                                           *)
(***************************************************************************)
\* The exclusive or of two bytes, bit by bit.
Differ(a, b, weight) == weight * ((a \div weight + b \div weight) % 2)
Xor(a, b) ==
    Differ(a, b, 1) + Differ(a, b, 2) + Differ(a, b, 4) + Differ(a, b, 8)
        + Differ(a, b, 16) + Differ(a, b, 32) + Differ(a, b, 64) + Differ(a, b, 128)

\* The byte for a run.  RunOffByOne: the byte is the number itself.
RunOffByOne(n) == n
Run(n) == n - 1
Zeros(n) ==
    LET runs == (n + MaxRun - 1) \div MaxRun
        length(k) == IF k < runs THEN MaxRun ELSE n - MaxRun * (runs - 1)
    IN [j \in 1..(2 * runs) |-> IF j % 2 = 1 THEN 0 ELSE Run(length(j \div 2))]

SaveByte(acc, diff) ==
    IF diff = 0 THEN [acc EXCEPT !.zeroRun = @ + 1]
    ELSE [zeroRun |-> 0, bytes |-> acc.bytes \o Zeros(acc.zeroRun) \o <<diff>>]
Differences(dynamic) ==
    [i \in 1..Cardinality(Dynamic) |-> Xor(memory[i - 1], dynamic[i - 1])]
saveDynamicMemory(dynamic) ==
    FoldLeft(SaveByte, [zeroRun |-> 0, bytes |-> <<>>], Differences(dynamic)).bytes

\* The bytes of a CMem chunk, read one by one; zero: the one before was a zero.
RestoreByte(acc, byte) ==
    IF acc.zero THEN [acc EXCEPT !.zero = FALSE, !.i = @ + byte + 1]
    ELSE IF byte = 0 THEN [acc EXCEPT !.zero = TRUE]
    ELSE [acc EXCEPT !.dynamic[acc.i] = Xor(@, byte), !.i = @ + 1]
restoreDynamicMemory(bytes) ==
    FoldLeft(RestoreByte, [dynamic |-> memory, i |-> 0, zero |-> FALSE], bytes).dynamic

--------------------------------------------------------------------------------
(***************************************************************************)
(* The stacks: each frame with its part of the evaluation stack.           *)
(***************************************************************************)
Bytes(values) == [i \in DOMAIN values |-> <<Msb(values[i]), Lsb(values[i])>>]
Words(bytes, n) == [i \in 1..n |-> makeS16(bytes[i][1], bytes[i][2])]

SavedStore(cs) == cs.returnStore % 256
SavedFrame(z, i) ==
    LET cs == z.calls[i] IN
    [returnAddr |-> cs.returnAddr % 2 ^ 24, numLocals |-> Len(cs.locals) % 16,
     returnStore |-> SavedStore(cs), setArguments |-> cs.setArguments % 256,
     depth |-> (NextDepth(z, i) - cs.depth) % 65536, locals |-> Bytes(cs.locals),
     stack |-> Bytes(OwnStack(z, i))]
saveStacks(z) == [i \in DOMAIN z.calls |-> SavedFrame(z, i)]

RestoreFrame(z, f) ==
    [z EXCEPT !.calls = Append(@, [returnAddr |-> f.returnAddr,
                                   returnStore |-> f.returnStore,
                                   setArguments |-> f.setArguments,
                                   locals |-> Words(f.locals, f.numLocals),
                                   depth |-> Len(z.stack)]),
              !.stack = @ \o Words(f.stack, f.depth)]
restoreStacks(z, frames) ==
    FoldLeft(RestoreFrame, [z EXCEPT !.calls = <<>>, !.stack = <<>>], frames)

--------------------------------------------------------------------------------
(***************************************************************************)
(* Files.                                                                  *)
(***************************************************************************)
\* The stored PC is that of the last part of the instruction: the branch, which
\* takes two bytes unless its offset fits one, or the byte before m_pc.
StorePC(z, branch) ==
    z.pc - (IF branch.offset < 0 \/ branch.offset > 63 THEN 2 ELSE 1)

saveState(z, branch) ==
    <<[id |-> "IFhd", story |-> Story, pc |-> StorePC(z, branch) % 2 ^ 24],
      [id |-> "CMem", bytes |-> saveDynamicMemory(z.dynamic)],
      [id |-> "Stks", frames |-> saveStacks(z)]>>

\* One chunk after the other.  A header of another story ends it; an unknown chunk
\* is skipped.
restoreChunk(r, chunk) ==
    CASE r.refused -> r
      [] ~r.refused /\ chunk.id = "IFhd" ->
            IF chunk.story # Story THEN [r EXCEPT !.refused = TRUE]
            ELSE [r EXCEPT !.z.pc = chunk.pc, !.found = @ \cup {"header"}]
      [] ~r.refused /\ chunk.id = "CMem" ->
            [r EXCEPT !.z.dynamic = restoreDynamicMemory(chunk.bytes),
                      !.found = @ \cup {"mem"}]
      [] ~r.refused /\ chunk.id = "UMem" ->
            [r EXCEPT !.z.dynamic =
                          [i \in Dynamic |-> IF i < Len(chunk.bytes)
                                             THEN chunk.bytes[i + 1] ELSE memory[i]],
                      !.found = @ \cup {"mem"}]
      [] ~r.refused /\ chunk.id = "Stks" ->
            [r EXCEPT !.z = restoreStacks(@, chunk.frames),
                      !.found = @ \cup {"stacks"}]
      [] OTHER -> r

\* What the machine is then, and whether the game was restored.
restoreState(z, chunks) ==
    LET r == FoldLeft(restoreChunk, [z |-> z, found |-> {}, refused |-> FALSE], chunks)
    IN [z |-> r.z,
        restored |-> ~r.refused /\ r.found = {"header", "mem", "stacks"}]

--------------------------------------------------------------------------------
(***************************************************************************)
(* The instructions save and restore.  From version 4 on they store a      *)
(* result; before that they branch.                                        *)
(***************************************************************************)
NoBranch == [size |-> 0, offset |-> 0, negate |-> FALSE]
BranchAt(at) == IF m_version >= 4 THEN NoBranch ELSE SavePoint[m_version][at].branch
AfterPart(at) == at + (IF m_version >= 4 THEN 1 ELSE SavePoint[m_version][at].branch.size)

\* The result of the instruction whose last part is at this address.
Conclude(z, at, result) ==
    IF m_version >= 4 THEN setVariable(z, SavePoint[m_version][at].store, result)
    ELSE doBranch(z, result # 0, BranchAt(at))

\* A game does not let its main program return.
MayConclude(at) == BranchAt(at).size > 0 /\ BranchAt(at).offset \in {0, 1} => MayReturn

\* Where the game goes on once saved, or restored, if not by a return.
ResumePC(at) ==
    LET branch == BranchAt(at) IN
    AfterPart(at) + (IF branch.size > 0 /\ ~branch.negate THEN branch.offset - 2 ELSE 0)
GameOf(z, at) == [frames |-> Frames(z), globals |-> Globals(z), pc |-> ResumePC(at)]

InitQ ==
    /\ Init
    /\ file \in FirstFiles
    /\ saved = LET r == restoreState(Machine, file) IN
               IF r.restored THEN GameOf(r.z, r.z.pc) ELSE <<>>

Snapshot(z) == [stack |-> z.stack, calls |-> z.calls, dynamic |-> z.dynamic]

\* The file is opened, or cannot be.
Save(at) ==
    LET z == [Machine EXCEPT !.pc = AfterPart(at)] IN
    /\ MayConclude(at)
    /\ \/ /\ Snapshot(z) \in Snapshots
          /\ file' = saveState(z, BranchAt(at))
          /\ saved' = GameOf(z, at)
          /\ Becomes(Conclude(z, at, 1))
       \/ /\ UNCHANGED <<file, saved>>
          /\ Becomes(Conclude(z, at, 0))

\* Once restored, the game goes on as if its save had just ended, with result 2.
\* Else the restore instruction ends, which is at this address.
Restore(at) ==
    LET z == [Machine EXCEPT !.pc = AfterPart(at)]
        r == restoreState(z, file)
    IN /\ MayConclude(at)
       /\ UNCHANGED <<file, saved>>
       /\ IF file # <<>> /\ r.restored
          THEN Becomes(Conclude([r.z EXCEPT !.pc = AfterPart(r.z.pc)], r.z.pc, 2))
          ELSE Becomes(Conclude(IF file = <<>> THEN z ELSE r.z, at, 0))

Next ==
    \/ Instruction /\ UNCHANGED <<file, saved>>
    \/ \E at \in DOMAIN SavePoint[m_version] : Save(at) \/ Restore(at)

Spec == InitQ /\ [][Next]_qvars

--------------------------------------------------------------------------------
(***************************************************************************)
(* Properties.                                                             *)
(***************************************************************************)
Frame == [returnAddr : Nat, returnStore : {NoStore} \cup Byte, setArguments : 0..127,
          locals : Seq(LocalValue), depth : 0..MaxStack]

TypeOK ==
    /\ m_version \in Versions
    /\ m_pc \in Nat
    /\ m_stack \in Seq(StackValue) /\ Len(m_stack) <= MaxStack
    /\ m_callStack \in Seq(Frame) /\ Len(m_callStack) \in 1..MaxFrames
    /\ DYNAMIC \in [Dynamic -> Byte]

\* A game that is saved and restored has the stacks, the memory and the place that
\* it had (zops.c 2583, "Makes save format match Frotz").  For games that are in a
\* call without a result, see SaveKeepsCalls.
SameGame(at) ==
    LET z == [Machine EXCEPT !.pc = AfterPart(at)]
        r == restoreState(z, saveState(z, BranchAt(at)))
    IN r.restored /\ r.z = [z EXCEPT !.pc = at]
RoundTrip ==
    (\A i \in DOMAIN m_callStack : m_callStack[i].returnStore # NoStore)
        => \A at \in DOMAIN SavePoint[m_version] : SameGame(at)

\* The same of every game.
SaveKeepsCalls == \A at \in DOMAIN SavePoint[m_version] : SameGame(at)

R == INSTANCE Routines WITH
        frames <- Frames(Machine), globals <- Globals(Machine), pc <- m_pc,
        Variables <- {0} \cup (1..15) \cup Global,
        Value <- StackValue \cup LocalValue \cup GlobalValues

\* Calls, returns, throws, saves and restores keep what a game relies on, although
\* all calls share one stack and a file has only bytes.
ImplementsRoutines == R!Spec

=============================================================================
