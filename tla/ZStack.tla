-------------------------------- MODULE ZStack ---------------------------------
(***************************************************************************)
(* The Z-machine's routines (zops.c): one evaluation stack for all calls,  *)
(* of which each frame of the call stack remembers how deep it was when    *)
(* the call was made; locals, globals, and the instructions that use them. *)
(*                                                                         *)
(* An action is an instruction.  The game is any game that keeps to the    *)
(* rules: it pops only what the running routine pushed, names variables    *)
(* that exist, does not return from its main program, and throws only to   *)
(* a call that is still running.  Of its code only what the stacks depend  *)
(* on is there; where it goes on after an instruction is any address.      *)
(***************************************************************************)
EXTENDS Integers, Sequences, FiniteSets

CONSTANTS
    Versions,    \* of the Z-machine: 3, 4, 5 and 8 in the code
    Address,     \* where instructions are
    Locals,      \* the values that locals start with, by address of the routine
    memory,      \* dynamic memory as the story file has it, from 0
    m_globalVariables,  \* where in it the globals are
    Global,      \* numbers of the globals in use
    Constant,    \* operands in the game's code
    StackValue, LocalValue, GlobalValues,   \* what variables may hold: a word
    MaxArgs,     \* arguments of a call: 7 in the code
    MaxFrames,   \* the call stack: 96 in the code
    MaxStack     \* the evaluation stack: 256 in the code

Byte == 0..255
Word == -32768..32767
Location == 0..(2 ^ 24 - 1)   \* in a story: a place is saved in three bytes
Routine == DOMAIN Locals
Dynamic == DOMAIN memory
GlobalAddress(var) == m_globalVariables + 2 * (var - 16)

ASSUME VersionsAssumption == Versions \subseteq {3, 4, 5, 8}
ASSUME AddressAssumption == Address \subseteq Location /\ Routine \subseteq Nat \ {0}
ASSUME LocalsAssumption ==
    \A r \in Routine : Locals[r] \in Seq(LocalValue) /\ Len(Locals[r]) <= 15
ASSUME MemoryAssumption ==
    /\ IsFiniteSet(Dynamic) /\ Dynamic = 0..(Cardinality(Dynamic) - 1)
    /\ memory \in [Dynamic -> Byte]
    /\ Global \subseteq 16..255 /\ m_globalVariables \in Nat
    /\ \A g \in Global : {GlobalAddress(g), GlobalAddress(g) + 1} \subseteq Dynamic
ASSUME ValueAssumption ==
    /\ Constant \subseteq Word /\ StackValue \subseteq Word /\ StackValue # {}
    /\ LocalValue \subseteq Word /\ GlobalValues \subseteq Word
ASSUME BoundAssumption ==
    MaxArgs \in 0..7 /\ MaxFrames \in Nat \ {0} /\ MaxStack \in 0..65535

VARIABLES m_version, m_pc, m_stack, m_callStack, DYNAMIC
machineVars == <<m_version, m_pc, m_stack, m_callStack, DYNAMIC>>

\* What an instruction changes.  The operators below take a machine and return it
\* changed.
Machine == [pc |-> m_pc, stack |-> m_stack, calls |-> m_callStack,
            dynamic |-> DYNAMIC]

NoStore == -1  \* returnStore of a call without a result

Top(s) == s[Len(s)]
Cut(s, n) == SubSeq(s, 1, n)

--------------------------------------------------------------------------------
(***************************************************************************)
(* Variables.                                                              *)
(***************************************************************************)
S16(value) == ((value + 32768) % 65536) - 32768
makeS16(msb, lsb) == S16(256 * msb + lsb)
Msb(value) == (value % 65536) \div 256
Lsb(value) == value % 256

Push(z, value) == [z EXCEPT !.stack = Append(@, value)]
Pop(z) == [z EXCEPT !.stack = Cut(@, Len(@) - 1)]

GlobalValue(dynamic, var) ==
    makeS16(dynamic[GlobalAddress(var)], dynamic[GlobalAddress(var) + 1])

\* readVariable returns a value, and pops it if it is on the stack.
VariableValue(z, var) ==
    CASE var = 0 -> Top(z.stack)
      [] var \in 1..15 -> Top(z.calls).locals[var]
      [] OTHER -> GlobalValue(z.dynamic, var)
readVariable(z, var) == IF var = 0 THEN Pop(z) ELSE z

setVariable(z, var, value) ==
    CASE var = 0 -> Push(z, S16(value))
      [] var \in 1..15 -> [z EXCEPT !.calls[Len(z.calls)].locals[var] = S16(value)]
      [] OTHER -> [z EXCEPT !.dynamic[GlobalAddress(var)] = Msb(value),
                            !.dynamic[GlobalAddress(var) + 1] = Lsb(value)]

setVariableIndirect(z, var, value) ==
    setVariable(IF var = 0 THEN Pop(z) ELSE z, var, value)
readVariableIndirect(z, var) ==
    IF var = 0 THEN setVariable(readVariable(z, 0), 0, VariableValue(z, 0)) ELSE z

--------------------------------------------------------------------------------
(***************************************************************************)
(* Calls and returns.                                                      *)
(***************************************************************************)
MainFrame == [returnAddr |-> 0, returnStore |-> 0, setArguments |-> 0,
              locals |-> <<>>, depth |-> 0]

\* The depth as it was before the operands were read.
CallDepthBeforeRead(z) == Len(m_stack)
CallDepth(z) == Len(z.stack)
CodeStart(r) == r + 1 + (IF m_version >= 5 THEN 0 ELSE 2 * Len(Locals[r]))

\* An argument replaces what a local starts with; more arguments than locals are
\* lost.
FirstLocals(r, args) ==
    [i \in 1..Len(Locals[r]) |->
        IF i <= Len(args) THEN args[i]
        ELSE IF m_version >= 5 THEN 0 ELSE Locals[r][i]]

callRoutine(z, r, returnStore, args) ==
    IF r = 0
    THEN IF returnStore >= 0 THEN setVariable(z, returnStore, 0) ELSE z
    ELSE [z EXCEPT !.pc = CodeStart(r),
                   !.calls = Append(@, [returnAddr |-> z.pc,
                                        returnStore |-> returnStore,
                                        setArguments |-> 2 ^ Len(args) - 1,
                                        locals |-> FirstLocals(r, args),
                                        depth |-> CallDepth(z)])]

\* What is left of the evaluation stack when call cs returns.  StackKept: everything.
StackKept(stack, cs) == stack
StackCut(stack, cs) == IF cs.depth < Len(stack) THEN Cut(stack, cs.depth) ELSE stack

returnRoutine(z, value) ==
    LET cs == Top(z.calls)
        caller == [z EXCEPT !.calls = Cut(@, Len(@) - 1),
                            !.stack = StackCut(@, cs)]
        given == IF cs.returnStore # NoStore
                 THEN setVariable(caller, cs.returnStore, value) ELSE caller
    IN [given EXCEPT !.pc = cs.returnAddr]

\* Branches: offsets 0 and 1 return.
doBranch(z, cond, branch) ==
    CASE cond = branch.negate -> z
      [] cond # branch.negate /\ branch.offset \in {0, 1} ->
            returnRoutine(z, branch.offset)
      [] OTHER -> [z EXCEPT !.pc = @ + branch.offset - 2]

--------------------------------------------------------------------------------
(***************************************************************************)
(* Operands: constants and variables, read from left to right.             *)
(***************************************************************************)
Immediate(value) == [src |-> "Immediate", value |-> value]
Variable(var) == [src |-> "Variable", value |-> var]

Running == Top(m_callStack)
Own == Len(m_stack) - Running.depth   \* values that the running call has pushed
VariableNumbers == {0} \cup (1..Len(Running.locals)) \cup Global
Operand == {Immediate(c) : c \in Constant} \cup {Variable(v) : v \in VariableNumbers}

Popped(ops) == {i \in DOMAIN ops : ops[i] = Variable(0)}

OperandValue(ops, i) ==
    IF ops[i].src = "Immediate" THEN ops[i].value
    ELSE IF ops[i].value = 0
         THEN m_stack[Len(m_stack) - Cardinality({j \in Popped(ops) : j < i})]
    ELSE VariableValue(Machine, ops[i].value)
OperandValues(ops) == [i \in DOMAIN ops |-> OperandValue(ops, i)]

\* The machine once an instruction with these operands is read, up to address next.
Read(next, ops) ==
    [Machine EXCEPT !.pc = next,
                    !.stack = Cut(@, Len(@) - Cardinality(Popped(ops)))]

\* The game pops only what is its routine's.
MayRead(ops) == Cardinality(Popped(ops)) <= Own
OnStack(var) == IF var = 0 THEN 1 ELSE 0
MayReturn == Len(m_callStack) > 1

Bounded(z) ==
    /\ Len(z.stack) <= MaxStack /\ Len(z.calls) <= MaxFrames
    /\ \A i \in DOMAIN z.stack : z.stack[i] \in StackValue
    /\ \A i \in DOMAIN z.calls : \A l \in DOMAIN z.calls[i].locals :
          z.calls[i].locals[l] \in LocalValue
    /\ \A g \in Global : GlobalValue(z.dynamic, g) \in GlobalValues

Becomes(z) ==
    /\ Bounded(z)
    /\ m_pc' = z.pc /\ m_stack' = z.stack /\ m_callStack' = z.calls
    /\ DYNAMIC' = z.dynamic
    /\ UNCHANGED m_version

--------------------------------------------------------------------------------
(***************************************************************************)
(* Instructions.                                                           *)
(***************************************************************************)
Init ==
    /\ m_version \in Versions
    /\ m_pc \in Address
    /\ m_stack = <<>>
    /\ m_callStack = <<MainFrame>>
    /\ DYNAMIC = memory

\* The calls with a result, and from version 5 on those without.
Call(next, r, args, store) ==
    /\ MayRead(args)
    /\ store = NoStore => m_version >= 5
    /\ Becomes(callRoutine(Read(next, args), r, store, OperandValues(args)))

\* ret, ret_popped, rtrue, rfalse, print_ret.
Return(next, op) ==
    /\ MayReturn /\ MayRead(<<op>>)
    /\ Becomes(returnRoutine(Read(next, <<op>>), OperandValue(<<op>>, 1)))

\* UnwindPast: the frame that catch named goes too.
UnwindPast(z, frame) == [z EXCEPT !.calls = Cut(@, frame - 1)]
Unwind(z, frame) == [z EXCEPT !.calls = Cut(@, frame)]

\* The operands are a value, and the frame that catch named.
Throw(next, op, frame) ==
    /\ m_version >= 5 /\ MayRead(<<op>>) /\ frame \in 2..Len(m_callStack)
    /\ Becomes(returnRoutine(Unwind(Read(next, <<op>>), frame),
                             OperandValue(<<op>>, 1)))

Catch(next, store) ==
    /\ m_version >= 5
    /\ Becomes(setVariable(Read(next, <<>>), store, Len(m_callStack)))

PopValue(next) ==
    /\ m_version < 5 /\ Own >= 1
    /\ Becomes(Pop(Read(next, <<>>)))

PushValue(next, op) ==
    /\ MayRead(<<op>>)
    /\ Becomes(setVariable(Read(next, <<op>>), 0, OperandValue(<<op>>, 1)))

\* The instructions that name a variable.  The top of the stack is replaced.
Pull(next, var) ==
    /\ 1 + OnStack(var) <= Own
    /\ Becomes(setVariableIndirect(readVariable(Read(next, <<>>), 0), var,
                                   VariableValue(Machine, 0)))

StoreVariable(next, var, op) ==
    /\ Cardinality(Popped(<<op>>)) + OnStack(var) <= Own
    /\ Becomes(setVariableIndirect(Read(next, <<op>>), var, OperandValue(<<op>>, 1)))

Load(next, var, store) ==
    /\ OnStack(var) <= Own
    /\ Becomes(setVariable(readVariableIndirect(Read(next, <<>>), var), store,
                           VariableValue(Machine, var)))

\* inc and dec; with a branch, and an operand to compare with, inc_chk and dec_chk.
Step(next, var, by, ops, branch) ==
    /\ Cardinality(Popped(ops)) + OnStack(var) <= Own
    /\ branch.offset \in {0, 1} => MayReturn
    /\ LET z == Read(next, ops) IN
       Becomes(doBranch(setVariable(readVariable(z, var), var,
                                    VariableValue(z, var) + by),
                        TRUE, branch))

\* Instructions that read operands, store what they make of them, and may branch.
Compute(next, ops, store, value, branch) ==
    /\ MayRead(ops)
    /\ branch.offset \in {0, 1} => MayReturn
    /\ Becomes(doBranch(setVariable(Read(next, ops), store, value), TRUE, branch))

\* Instructions that read operands and branch.
Branch(next, ops, branch) ==
    /\ MayRead(ops)
    /\ branch.offset \in {0, 1} => MayReturn
    /\ Becomes(doBranch(Read(next, ops), TRUE, branch))

\* Whether it branches or not, an instruction leads to some address next, as does
\* offset 2, or returns 0; 1 differs from 0 in the value only.
Branches == [offset : {0, 2}, negate : {FALSE}]
Arguments == UNION {[1..k -> Operand] : k \in 0..MaxArgs}

\* Operands that are not on the stack leave no trace but in the result.
Pops == {[i \in 1..k |-> Variable(0)] : k \in 0..2}

Instruction ==
    \E next \in Address :
       \/ \E r \in Routine \cup {0}, args \in Arguments,
             store \in VariableNumbers \cup {NoStore} : Call(next, r, args, store)
       \/ \E op \in Operand : Return(next, op) \/ PushValue(next, op)
       \/ \E op \in Operand, frame \in 2..Len(m_callStack) : Throw(next, op, frame)
       \/ \E store \in VariableNumbers : Catch(next, store)
       \/ PopValue(next)
       \/ \E var \in VariableNumbers : Pull(next, var)
       \/ \E var \in VariableNumbers, op \in Operand : StoreVariable(next, var, op)
       \/ \E var, store \in VariableNumbers : Load(next, var, store)
       \/ \E var \in VariableNumbers, by \in {-1, 1}, branch \in Branches :
             \E ops \in {<<>>, <<Variable(0)>>} : Step(next, var, by, ops, branch)
       \/ \E ops \in Pops, store \in VariableNumbers, value \in Constant,
             branch \in Branches : Compute(next, ops, store, value, branch)
       \/ \E ops \in Pops, branch \in Branches : Branch(next, ops, branch)

StackSpec == Init /\ [][Instruction]_machineVars

--------------------------------------------------------------------------------
(***************************************************************************)
(* Properties.                                                             *)
(***************************************************************************)
\* Where the part of the evaluation stack that frame i stands for ends.
NextDepth(z, i) == IF i < Len(z.calls) THEN z.calls[i + 1].depth ELSE Len(z.stack)
OwnStack(z, i) == SubSeq(z.stack, z.calls[i].depth + 1, NextDepth(z, i))

\* Each call as if it had a stack of its own.
Frames(z) ==
    [i \in DOMAIN z.calls |->
        [back |-> z.calls[i].returnAddr, store |-> z.calls[i].returnStore,
         args |-> z.calls[i].setArguments, locals |-> z.calls[i].locals,
         stack |-> OwnStack(z, i)]]
Globals(z) == [g \in Global |-> GlobalValue(z.dynamic, g)]

\* The parts of the evaluation stack that the frames stand for lie one on top of the
\* other: none begins below the one before, or above the top (zops.c callRoutine,
\* returnRoutine, throw, restoreState).
FramesNested ==
    \A i \in DOMAIN m_callStack : m_callStack[i].depth <= NextDepth(Machine, i)

=============================================================================
