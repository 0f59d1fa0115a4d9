------------------------------- MODULE MCQuetzal -------------------------------
(***************************************************************************)
(* A story with one global, which starts at 2, and two routines, one with  *)
(* a local.                                                                *)
(***************************************************************************)
EXTENDS Quetzal

MCAddress == {70000}
MCConstant == {-1}
MCStackValue == {-1, 0}
MCGlobalValues == {0, 1, 2}
MCLocals == (69997 :> <<0>>)
Mcmem == <<5, 0, 2, 7>>
MCMemory == [i \in 0..3 |-> Mcmem[i + 1]]
MCSavePoint ==
       3 :> (69999 :> [branch |-> [size |-> 1, offset |-> 0, negate |-> FALSE]]
             @@ 69998 :> [branch |-> [size |-> 2, offset |-> 100, negate |-> FALSE]])
    @@ 5 :> (69999 :> [store |-> 16])

MCSnapshots ==
    {[stack |-> <<-1, 0>>,
      calls |-> <<MainFrame, [returnAddr |-> 70000, returnStore |-> 0,
                              setArguments |-> 1, locals |-> <<-1>>, depth |-> 1]>>,
      dynamic |-> [MCMemory EXCEPT ![2] = 1]]}

\* A save of another story.
MCFirstFiles == {<<[id |-> "IFhd", story |-> "other", pc |-> 69998]>>}

\* Another interpreter's save of a game in its main program: it has a chunk that is
\* not known, memory as it is, and the header last.
Foreign ==
    <<[id |-> "IntD"],
      [id |-> "Stks", frames |-> <<[returnAddr |-> 0, numLocals |-> 0,
           returnStore |-> 0, setArguments |-> 0, depth |-> 1, locals |-> <<>>,
           stack |-> <<<<255, 255>>>>]>>],
      [id |-> "UMem", bytes |-> <<5, 9>>],
      [id |-> "IFhd", story |-> "this", pc |-> 69998]>>
Fresh == [pc |-> 0, stack |-> <<0>>, calls |-> <<>>, dynamic |-> MCMemory]

ASSUME ForeignIsRead ==
    restoreState(Fresh, Foreign) =
        [z |-> [pc |-> 69998, stack |-> <<-1>>, calls |-> <<MainFrame>>,
                dynamic |-> [MCMemory EXCEPT ![1] = 9]],
         restored |-> TRUE]

=============================================================================
