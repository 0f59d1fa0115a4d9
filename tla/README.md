# Verification of zmachine3270

A dongle on an ESP32 plugs into an Informer 376/SNA terminal.  It plays
Z-machine games on it, and is a TN3270, SSH and Wikipedia client.  The program
is `src/Firmware/main`; this directory holds TLA+ models of it, their TLC runs
and their TLAPS proofs.  `PROJECT.json` maps each definition to source lines.

## 1. The system

### Tasks and how they interact

    GameTask (a client: game, front end,       MessageTask            SendTask (SPI)
    TN3270, SSH, Wikipedia)                    (core 0)               (core 1)
         |  Print / SetRawStream                  |  GenerateNewPackets    |
         |  ReadInput: bSuspended, notification   |  --SendEventQueue-->   |--> terminal
         |<-------- Screen GScreen -------------->|  <--notification----   |
         |  CancelInput: bCancelInput             |  ProcessPacket         |
                                                  |  <--RecvEventQueue-- RecvCallback (ISR) <-- terminal
    WifiStartListening (app_main): HTTP server; an update stops MessageTask and SendTask.

The client task and MessageTask have no lock in common.  The only
synchronisation is `bSuspended` (the client has handed its screen over) and the
notification of the client's FreeRTOS task.

### Inventory

| Component (source) | State | Operations | What is hard | What must hold |
|---|---|---|---|---|
| Screen hand-off (Screen.cpp 111-160, 217-245, 307-344) | `bSuspended`, `bCancelInput`, `WaitingInput`, `LastInputLength`, the client's notification | ReadInput, CancelInput, ShouldCancelInput, SerializeScreen3270, Process3270Reply | two tasks, no lock; timeouts; cancellation against a late input | no lost or stale wake-up; one owner of the screen; an answer goes to its prompt; each prompt is shown, each input returned |
| Network session (Network.cpp, PacketBuilder.h) | `State`, `CurrentLine`, `WaitForSequence`, `bSendReadyToRecieve`, `SendCount`, `RecieveCount`, `Sequence` | GenerateNewPackets, ProcessPacket | lost and damaged frames, going back, counts modulo 8 | the counts come into step again; chains in order; an input once; a screen is shown |
| Packet parser (PacketParser.cpp) | none | Parse | lengths at the boundary | the fields that the session reads |
| Low-level tasks (LowLevel.cpp 208-291, 382-445) | two queues, the notification of MessageTask, `bQuitTasks`, four SPI transactions | MessageTask, SendTask | quitting while the other task waits; a transaction taken for another | each frame sent once; both tasks stop |
| Framing (LowLevel.cpp 53-205, 294-337) | bit streams, ring buffer, `StartPacket`, `RunCount` | zero insertion and removal, flags, RecvCallback | interrupt against task, full queue, ring that comes round | what is received is what was sent |
| Screen buffer (Screen.cpp 54-109, 346-395) | rows as a ring, cursor, `TopLine`, `ScrollsWithoutInput`, `bWordwrap` | Print, ConditionalScroll, cursor calls | wrap at the ring's end, status rows, [MORE] inside Print | nothing printed is lost unread; the status rows stay |
| Serialisation (Screen.cpp 217-305) | `Packets`, `RawStream` | SerializeScreen3270 | runs, packets of at most 240 bytes | the packets make the screen |
| Clients (TN3270.cpp, SSH.cpp, Wikipedia.cpp, FrontEnd.cpp) | the socket, the data stream | their loops | timeouts, cancellation, a peer that closes | input and data reach the other side in order |
| HTTP server and updates (main.cpp 120-362) | upload offset, partition, `bQuitTasks` | requests, uploads | an upload that ends early | the boot partition is switched only for a whole image |
| Z-machine (zops.c) | memory, evaluation stack, call stack, object tree, windows, save stream | about 100 instructions | long sequences of legal calls; restore that fails half-way; 16-bit arithmetic | stack discipline; the tree is a forest; restore undoes save |
| Settings, Wi-Fi events, app_main (main.cpp) | configuration | set-up | none: called once | - |
| libssh2, MAME patch, PC port, hardware, ROMs | - | - | - | third party, or not this program |

The hazards of each are in `PROJECT.json`, at their lines.

## 2. What is modelled

### `Prompting` (abstract) and `ScreenInput`

`Prompting` is what a client that waits without a timeout relies on: the client
and the terminal own the screen in turn, and each prompt gets one answer, the
one typed at it.

`ScreenInput` is the code.  A step is the code between two accesses of a
variable that the other task uses too, so setting `WaitingInput` (`Arm`) and
`bSuspended` (`Suspend`), clearing `bSuspended` (`Release`) and giving the
notification (`Give`), taking it (`Take`), clearing `bCancelInput`
(`ClearCancel`) and reading `LastInputLength` (`Return`) are steps of their own.
The line is cut down to a screen that is sent and a poll that may bring the
input: `SendScreen`, `NoAnswer`, `DeliverInput`.

- `Cancels = FALSE` is a client that calls ReadInput with timeout -1: games,
  the front end, Wikipedia and the [MORE] prompt.
- `Cancels = TRUE` is TN3270 or SSH: ReadInput with a timeout of 20 ticks, and
  CancelInput when the peer has sent data.

Names of prompts are reused in turn (`1..N`), so that the state stays finite.
An input is the screen it was typed at, and whether it is empty.

### `Session`

NetworkState with its terminal.  `task` says where MessageTask is; one action of
`GenerateNewPackets` for each state, in the order of the code's tests; the four
outcomes of `ProcessPacket` (`ProcessBad`, `ProcessIgnored`, `RollBack`,
`ProcessInStep`).  The terminal is external: an SDLC secondary that takes
numbered frames in order, answers when polled, and repeats its frame until it is
acknowledged.  It answers every poll with one frame.  The session needs that:
were a second frame, or an answer of an earlier poll, processed after the next
frame was built, the terminal would repeat a frame that the host has, and the
host, which does not look at the send count, would count it twice.  The kind of
fault `"late"` has this; `InputOnce` fails under it.

Abstracted: the contents of requests; a screen is a name and whether it is a raw
stream, its packets are numbered, and how many there are is chosen for each
screen.  The client's next screen exists as soon as it has its input; the wait of
SerializeScreen3270 for the client is in `ScreenInput`.  Sequence numbers wrap at
`FidModulus`, the counts at `Modulus`.

### `Routines` (abstract), `ZStack` and `Quetzal`

`Routines` is what a game relies on: each call has its own locals and its own
evaluation stack, its callers are left alone while it runs, its result goes where
its caller wants it, and a restored game goes on as it was when saved.

`ZStack` is how the interpreter does it: one evaluation stack `m_stack` for all
calls, with `depth` in each frame of `m_callStack`.  What an instruction changes
is a record (`Machine`), the C functions are operators from machine to machine
(`setVariable`, `callRoutine`, `returnRoutine`, `doBranch`), and an action is an
instruction: it reads its operands, popping those on the stack, and applies them
in the order of the code.  `Compute` and `Branch` stand for all instructions that
store a result, branch, or both; which value, and whether they branch, is open.
The game keeps to the rules: it pops what the running routine pushed, names
variables that exist, does not return from its main program, throws to a call
that still runs.  The number of a variable in `load`, `store`, `inc`... is a
constant, though the code lets it come from the stack.

`Quetzal` adds save and restore, with the file as a sequence of chunks:
differences of dynamic memory with runs of unchanged bytes, frames with their
part of the evaluation stack as fields in the range of the bytes that hold them,
and the place of the last part of the save instruction, where a restored game
goes on.  `saved` is a history variable, for the refinement.

    frames <- Frames(Machine)   each frame with its slice of m_stack
    globals <- Globals(Machine) the words at m_globalVariables
    pc <- m_pc, saved <- saved

Left out: sizes and padding of chunks, so that the first pass of saveState, which
finds the sizes, has nothing to do; the file name; a file that ends in the middle,
where the code reads on in its buffer.  A branch of save whose offset is 0 to 63 but
is written in two bytes would make `StorePC` point into it; the save points of
the runs have none.  The exclusive or of two bytes is written bit by bit (`Xor`), and the
pairs of bytes of a run as one sequence (`Zeros`), since the proofs cannot use the
operators of the library that are recursive.

### `Handover` (abstract) and `LinkTasks`

`Handover` is what MessageTask relies on: a frame it hands over goes out once, as
it was built, and it goes on only then.

`LinkTasks` is the code of LowLevel.cpp with the SPI slave driver, which is
external.  An action is what a task does between two calls that can wait or that
the other task can see: `QueueFrame` (xQueueSend), `TakeNotification`,
`TakeFrame`, `QueueMessage`, `FillWithFlags`, `GetResult`; the driver has one,
`EndTransaction`.  It has a queue of transactions to send and a queue of results,
each of `QueueSize`; a result that finds the second one full is dropped, as the
driver does.  The buffer is named by one bit that is new for each frame
(`bytes`); `wire` holds the frames that went out since the last one was handed
over.

`InTime` says that SendTask, while it has a frame to send, is back in a call that
waits before the transaction on the line ends.  A transaction of flags lasts
1.5 ms, and SendTask has its core to itself, so this is how the code is meant to
work, and the comment on `Flags[4]` says so.  With `InTime = FALSE` TLC shows what
it guards against: SendTask takes no results while it sends flags, so the queue
of two results is full of them; if the frame's transaction ends before the next
result is taken, the frame's result is dropped, SendTask sends flags for ever,
and MessageTask waits for ever (`FrameIsSent` and `ResultIsThere` fail).

### `Update`

Extends `LinkTasks` with WifiStartListening while it handles an upload: it asks
the tasks to stop (`AcceptUpload`), waits for one and then for the other
(`WaitForTask1`, `WaitForTask2`), receives buffers (`ReceiveBuffer`), concludes
(`AllReceived`, `ClientGone`), and restarts after a success (`Restart`, where the
tasks begin anew).  The body is a sequence of units and recv may cut it anywhere,
also in the middle of the marker LGV_FIRM or LGV_DATA, which is then not found.
The request may have brought a part of the body with it, which the code does not
look at; it may have no Content-Length; the flash may fail at any buffer; the
client may go away.  External: esp_ota_end, which refuses what is not an image.

### `Framing`

The bits of LowLevel.cpp and crc.cpp: `CalculateCRC` and
`ZeroBitAndFlagInsertion` make the bits of a frame, `RecvCallback` takes them one
by one, stores bytes in the ring, queues packets, and `ReadPacket` is
MessageTask's copy and the test of the checksum.  The checksum is computed bit by
bit on one side and with the table of nibbles on the other, as in the code.  The
terminal is external; its frames are made as the program makes its own, which
makes the run a test of both halves against each other.  It may leave the line
idle before a frame, or abort one, and a bit may be wrong anywhere, flags
included.

`RingHasRoom` is an assumption: a packet is copied before the ring comes round to
it.  LowLevel.cpp 24 says that the ring holds almost half a second.  The code does
not check it: when MessageTask waits in SerializeScreen3270 for a client that
takes longer, up to 16 packets are queued, and those whose bytes were overwritten
fail their checksum.  The terminal sends only when polled, so this takes a
terminal that sends unasked.

`RingBufIndex` and `StartPacket` have `IndexLimit` values, 2^32 in the code, and the
last stands for "no packet"; the ring's size divides that number
(`RingAssumption`).  A message with its checksum is shorter than `PacketData`
(`MessagesAssumption`), since MessageTask leaves longer packets alone.

### `ScreenText` and `Windows`

`ScreenText` is class Screen as operators from screen to screen: `ScreenPrintChar`
with word wrap, `ConditionalScroll` with the rows that do not scroll and [MORE],
the cursor, `ReadInput`, and `SerializeScreen3270` as a sequence of packets of
3270 orders.  `Display` is the terminal: it executes the orders, each attribute
takes a cell, and RepeatToAddress goes on round the screen.  Characters are
strings of one letter, and the tables of 3270.cpp are taken to be one to one.
Four fields of the record are not in the code: `unread`, `paged`, `lost` and
`shown` note what the user could read.

`Windows` is the Z-machine on that screen: an action for each instruction that
prints, splits, selects, erases or reads.  An input is taken to be an empty line.
The initial state is the one in which a game starts: the menu was shown, a number
entered, and ioReset has run.

`Tidy` is how the runs keep to games that stay within their windows.  Without it
TLC finds, in a few steps:

- `ioEraseWindow` sets the cursor with `ioSetCursor(0, i)` for lines `i` of the
  screen, and `ioSetCursor` adds `windowStart` of the current window once more.
  So erase_window from a window that does not begin at line 0, and version 3's
  split_window, clear the wrong rows and, at the end of the ring, the status line
  (zops.c 96-99, 142-168).
- Printing up to the last column of an upper window clears the row below, because
  Print scrolls when the column is reached and not when the next character comes.
- A line read with the cursor in the last two columns sends an input field that
  ends at or before the place where it begins, and the terminal repeats NUL round
  the whole screen (Screen.cpp 277-286): `ShownAsIs` fails.  The code avoids this
  for read_char (zops.c 2233), not for sread.
- Splitting the screen while window 1 is selected moves the line that its cursor
  is counted from.
- erase_window -1 given in window 1 unsplits the screen and leaves window 1
  selected (zops.c 2158-2162), while the cursor that window 0 comes back to is
  counted from the line it began at before.  After split_window 3, set_window 1,
  erase_window -1, set_window 0, split_window 3 the text of window 0 is printed in
  the lines above it, and `StatusKept` fails.  This one was met in the proof: where
  window 0's cursor comes back to is part of the invariant, and was not kept.
- An input is echoed with two new lines, and [MORE] is counted as if it were:
  after [MORE] or read_char up to two rows may scroll off before they were read.
  `FirstPageIsRead` is about the page that follows an echoed input.

### `Contents` (abstract) and `ZObjects`

`Contents` is what a game relies on: each object is in one other at most, and
what an object holds is a list with the newest in front.  `ZObjects` has the
three links of each object, `removeObject` and `addChild` as operators on them,
and the two instructions; and the attributes, whose bytes lie before the parent's
number in the object's entry, so that an attribute that the version does not have
would write the link (`PutAttribute`).  A game does not put an object into itself
or into what it holds (the code does not look), and starts with a tree whose
links agree.  Property tables are left out.

## 3. Runs

| Run | Bounds | Shows |
|---|---|---|
| `ScreenInputBlocking.cfg` | N = 3, `Cancels = FALSE` | all properties below, and that `ScreenInput` implements `Prompting` |
| `ScreenInputCancelling.cfg` | N = 2, `Cancels = TRUE` | `NoLostWakeup`, `CancelCompletes` |
| `Session.cfg` | 2 packets to a screen, counts modulo 4, sequence numbers modulo 2, 2 faults, clients with and without cancellation | all properties of the session |
| `SessionLostResponse.cfg` | 1 fault, which may hit the response | violation: the host never resends it |
| `SessionMidChain.cfg` | no fault, TN3270 | violation: an input between the packets of a screen |
| `Quetzal.cfg` | versions 3 and 5, 3 calls, 2 values on the stack, 1 local, 1 global | stack discipline, save and restore, and that they implement `Routines` |
| `QuetzalNoStore.cfg` | version 5, 1 value on the stack | violation: a game saved in a call without a result |
| `Update.cfg` | 4 transactions, driver's queues of 2, an image of 2 units, a partition of games of 2, buffers of up to 3 | the hand-over of frames, and uploads |
| `UpdateStops.cfg` | the same | violation: an upload that is never received |
| `Framing.cfg` | 2 frames of one or two bytes, ring of 8, queue of 1, indices of 5 bits, 1 wrong bit | what is not disturbed arrives |
| `Windows.cfg` | 4 rows of 5 columns, an upper window of 1 row, 4 words or new lines, 2 other moves | text, status, [MORE] and what the terminal shows |
| `ZObjects.cfg` | 4 objects, version 3, attributes 31 and 32 | the links agree, and implement `Contents` |

`ScreenInput`: `NoLostWakeup` and `NoStaleWakeup` are about the notification,
`ScreenOwnership` about who uses the screen, `AnswerIsForPrompt` and
`InputHasTaker` about whose buffer an input goes to, `PromptIsShown`,
`InputIsReturned` and `CancelCompletes` about progress.  Three names tell a
prompt from the one before and the one after; a cancelling client needs two, the
prompt that was cancelled and the one that follows.

`Session`: `AtMostTwoOutstanding` and `NothingAcknowledgedUnread` tie the host's
counts to the terminal's, `InputOnce` and `ChainInOrder` are what they are for,
and `BackInStep`, `ScreenIsShown` and `InputIsDelivered` say that the session
goes on.  Two faults can hit a frame and its repetition, or two different frames.
At most two frames are outstanding either way, so counts modulo 4 tell all cases
apart; sequence numbers modulo 2 make those of the terminal and of the host
coincide often, as they rarely do modulo 2^16.  The same properties were found to
hold with counts modulo 8 and one fault.

Faults that the code does not recover from are kinds of their own (`Faults`), so
that the passing run may leave them out: a lost SNRM, a lost response, a late
answer.

`Quetzal`: `FramesNested` says that the frames cut the one stack into slices in
order; with `ImplementsRoutines`, that no call sees or loses another's values,
whichever way it ends.  `RoundTrip` takes every state that is reached through
saveState and restoreState.  Three calls let `throw` end two at once with a caller
left; two values on the stack lie in one slice or in two, and their order shows;
memory of four bytes has runs before and after a difference, and a run is at most
two bytes here (256 in the code), so that full runs occur.  -1 and 0 tell a word
with a sign from one without.  The game that the refinement run saves and restores
is one (`MCSnapshots`), in a call with a local, a value of its own and one of its
caller's: any game may be restored from any state.  The file of another story is
refused; `ForeignIsRead` reads a file of another interpreter, with chunks in another
order, memory as it is, and a chunk that is not known.

`Update`: `FrameStable` and `ImplementsHandover` are about the buffer on
MessageTask's stack, of which everybody else has only the address; `FrameIsSent`
says that the sender is woken.  `FlashOnlyWhenStopped` is what the quit handshake
is for, `UploadGoesAhead` that it ends when MessageTask waits for the terminal, or
SendTask sends a frame, which is nearly always.  `SuccessIsWhole` ties what is
written to what the client is told, over every cut, every failure and several
uploads in a row; `OnlyWholeImagesBoot` is about the boot partition.  The pool and
the queues have the sizes of the code.  The image is longer than what may follow
the marker in its buffer, the partition of games is shorter than the payload, and
a buffer may hold the marker and what is around it.

`Framing`: `OnlyDisturbedAreLost` compares what MessageTask accepts with what was
sent, whenever the line is quiet.  The messages have runs of eight and of six
ones, across bytes, and a byte that looks like a flag.  One wrong bit can make a
flag in a frame, spoil one, or join two frames; a queue of one packet is full
while MessageTask is busy; the index starts so that it wraps in the second frame,
and reaches the value that stands for "no packet", with which one frame is lost
(`NeedNotArrive`).  A ring of eight bytes holds a frame and the beginning of the
next.

`Windows`: `TextKept` says that what was printed stays in order whatever wraps
and scrolls, `StatusKept` that the rows above the text stay, `FirstPageIsRead`
that no row leaves the screen unread, `ShownAsIs` that the terminal shows the
screen, with the input field, in packets of its size.  Two columns and a half are
half a row, so that a word may be cut before and behind the place where the code
gives up looking for its beginning; a run of three is longer than what is sent as
it is; a packet holds one row or two; the text goes round the ring and fills the
page.

`ZObjects`: `LinksAgree` is that no link is torn or doubled, `ImplementsContents`
that a loop along the siblings finds exactly the children.  With four objects
three can be siblings, so that the first, the middle and the last one are removed.
Attribute 31 is the last bit before the parent's number in version 3, and 32
would be in it.

### Fairness

`ZStack` and `Quetzal` have none: the game decides what is done next.

`ScreenInput`: FreeRTOS runs both tasks at one priority, so a step that stays
enabled is taken (weak fairness).  Three steps compete with others of
MessageTask and get strong fairness: it sends the screen, looks for a
cancellation, and gets the input, because it polls again and again and the line
does not damage every frame.  Neither the user nor a timeout is fair.

`Session`: weak fairness of the host and of the terminal's answer.  The line is
not fair: it makes at most `MaxFaults` faults, at any time or never.  The user
owes nothing.

`LinkTasks`: weak fairness of each task and of the driver, which the terminal's
clock drives.  The terminal is ready to receive again and again, though perhaps
not when SendTask looks, so `TakeFrame` gets strong fairness.  Whether the client
asks for input and what is received stays open.  `Update` adds weak fairness of
the handler: the client that uploads sends, or goes away.  `Framing`, `Windows`
and `ZObjects` have none.

### Findings

The four violation runs are disagreements between the code and what it says of
itself (`PROJECT.json`, findings).

- The lost response: one damaged frame at the wrong moment and the host repeats
  DataReset with a send count that the terminal does not expect, until the dongle
  is restarted.
- The update that stops: SendTask sees `bQuitTasks` first and leaves MessageTask's
  frame in the queue; neither the terminal nor the upload is served any more.
- An input between the packets of a screen keeps the next screen from being shown.
- A game saved in a call without a result is not the same when restored.

Others were met while modelling.  They have no run, but a formula that TLC
violates:

- `ScreenInput!NotAskedAgainOnceAnswered`, with the constants of
  `ScreenInputCancelling.cfg`: ReadInput times out, the answer comes, and the next
  ReadInput finds `bSuspended` FALSE, sets it again and returns at once because of
  the notification: the screen stays handed over while the client works on it.
- `ScreenInput!CancelledPromptIsOver`, with the same constants: the cancellation
  is given while a poll is built, the poll is sent all the same, and its answer is
  copied into the buffer of the prompt that was cancelled.
- `Update!FailedUpdateKeepsBoot`, with the constants of `Update.cfg`: the boot
  partition is switched before the length is looked at (main.cpp 294-305), so a
  client that goes away behind the end of the image is told "Update failed" though
  the next start boots the new one.
- `Windows!ShownAsIs` with `Tidy = FALSE`: the input field of no width, see above.

## 4. Proofs

`ScreenInput_proofs` proves for every `N >= 2`:

- `TypeCorrect` and `NoWakeupIsLost` for both kinds of client;
- under `~Cancels`: `NoWakeupIsStale`, `ScreenHasOneOwner`,
  `AnswersMatchPrompts`, `InputsHaveTakers` and `PromptingImplemented`.

The assumptions are `NAssumption` and `CancelsAssumption`, which TLC evaluates in
every run.  The argument: `WakeupInv` adds to `NoLostWakeup` where MessageTask is
when the client has been released (between `Release` and `Give` with the client
still waiting).  `BlockingInv` is the strengthening for clients without timeouts:
`HandOver` (the screen is handed over exactly while the client waits and
MessageTask has not released it), `Display` (what the terminal shows and where it
may be typed at) and `Buffers` (what each prompt's buffer holds).  The properties
are not inductive on their own: `AnswerIsForPrompt`, for one, needs to know that
an input waiting in the terminal was typed at the current prompt, which needs
that no screen is sent between.  Both invariants were also checked with TLC.

`Session_proofs` proves, for every modulus of at least 4, every size of a screen and
any number of lost or damaged frames: `AtMostTwoAhead`, `NothingLostUnread`,
`ChainAlwaysInOrder` and `SessionTypesOK`; and `InputsOnce`, that each input is handed
over once, for clients that withdraw their prompts as for those that do not.
All five assume `"late" \notin Faults`, that no answer comes after the wait
for it is over; with such an answer TLC violates both counts, for it is taken for the
answer to the frame sent next.  They do not assume that the response to an input or
SNRM arrives.  `AtMostTwoOutstanding` is not inductive: that the host is not three
ahead depends on what it sends while it is ahead.  `SessionInv` says that the host is
in step (`InStep`), ahead by a frame whose response it awaits or will await
(`AheadByOne`), or by two while it awaits one (`AheadByTwo`); that the line holds one
answer at most, which says what the terminal has taken (`Answers`), so that RollBack
goes back by one only when the host is ahead; and that the host has read at most one
message that it has not acknowledged (`Read`).  `TextInv` adds, for a client that
never withdraws its prompts, that the terminal expects the packet which the host sends
next or would send next if it went back (`NextPacket`), which is why RollBack may take
CurrentLine back with SendCount; and that the user types only while the host waits for
an input in step with the terminal (`OneInput`).

`InputsOnce` rests on `OwedInv` for every client: what the client is still owed is
exactly the inputs in the terminal's queue that the host has not read
(`UnreadInputs`).  A poll that acknowledges a message shifts the queue, and the lemma
`AcknowledgedInputs` shows by a bijection that no unread input is shifted out; reading
takes away the first.  `TypeInv` gives the types of CurrentLine and of the state, which
RollBack takes back: it stays among the packets of a screen because the host goes back
only when it is ahead.  The hypothesis on `"late"` is needed here too, since going back
once more than one went ahead leads before the first packet.

`Quetzal_proofs` proves first, for every story (routines, locals, memory, globals),
version and bound, what holds of the instructions but save and restore (`StackSpec`),
then what holds of games that are saved and restored (`Spec`).  Its assumptions are those
of `ZStack` and `Quetzal` on their constants, which TLC evaluates in the run
`Quetzal.cfg`.  `FramesStayNested`: the frames stay nested.  `FramesNested` compares
neighbours and is not inductive: `throw` drops frames between two that were not
neighbours, and cuts the stack at the depth of the outermost one dropped.
`StackInv` says that the depths of all pairs of frames are in order and none is
above the stack's top, with the types that the operators on machines need.  Each
operator (`setVariable`, `callRoutine`, `returnRoutine`, `doBranch`, reading the
operands) has a lemma that it keeps `Sound`; the lemma on popping (`CutSound`) needs
that what an instruction pops is the running call's own, which is the rule the game
keeps to.

`CallsStaySeparate`: every instruction is a step of `Routines` (work of
the running call, a call, a return), with `Frames` and `Globals` of `ZStack` as the
refinement mapping.  `Works` says what an instruction of the running call leaves alone:
the callers' frames, the stack below its own part, and what it was given; it is
transitive, so that an instruction is a chain of operators that each have it
(`RunningWorks`).  `SetDelivers` is that a variable set on the shared stack is one set in
the running call's frame alone, `FewerFrames` that the calls left by a return or a throw
have the stacks they had, `CallEnters` that a call begins with nothing of its own.
`ResultsStored`, that results go to variables that exist, completes the invariant
(`CallsInv`).

Of `Spec` it proves `GameTypes`, `GameNested`, `SavedGameIsRestored` (`RoundTrip`) and
`GameIsRoutines` (`ImplementsRoutines`), for memory, stacks and runs of every size.

- *The memory* (`MemoryRestored`).  The exclusive or of two bytes is their sum bit by bit
  without a carry, so that taking it twice gives the byte back (`XorOfBytes`).  After the
  differences up to byte k the run of zeros that is still to be written ends at k, and
  restoring the bytes so far gives the memory up to where that run began
  (`SaveByteGoes`); `ZerosSkip` says that the pairs for a run of n unchanged bytes move
  the restored place by n, however many pairs that takes.
- *The stacks* (`StacksRestored`).  A word is put together from its two bytes, and a frame
  with its slice ends up on the others (`FrameGoes`): the depths that are written are
  those between frames, so it needs that the frames are nested.
- *The file* (`FileRestored`).  Three chunks, each of which leaves alone what the
  others restore; another story's file changes nothing (`OtherStoryRead`).
- *The instructions.*  `Ended` lists the ways in which a save or restore ends: a
  variable, going on, a branch or a return.  `SaveInv` says that the machine is sound
  and the file is `FileKnown`: there is none, or it is another story's, or what
  saveState made of a sound game at one of its save points.  `RoutinesInv` adds that
  it is the game which `Routines` has as saved.

`FileKnown` (`FirstFileStored` for the refinement) is assumed of the file at the start
only, since an arbitrary file may hold anything and the code does not look.
`ShortBranches` is assumed of the story: a save's branch takes one byte just if its offset
is 0 to 63; for any other, storePC is not the branch's place (zops.c 1262-1267) and
`RoundTrip` is false.  `SnapshotsStore`, that a game is saved in no call without a
result, is assumed of the refinement alone: with such a game it is false, as the run
`QuetzalNoStore.cfg` shows.

`Update_proofs` begins with the two tasks alone (`LinkTasks`) and proves, for every
size of the pool and of the driver's queues and also when SendTask is late:
`FrameAlwaysStable`, and
`LinkImplementsHandover`, that every step is one of `Handover` or a stutter.
`FrameStable` is not inductive: that MessageTask sleeps until the frame has gone
out depends on no stale notification and no stale result being around.  The
invariant `LinkInv` (`LinkInvariant`) says that while MessageTask waits its frame
is in exactly one place (`Queued`, `Taken`, `OnLine`, `Sent`, `Told`), and that it
is nowhere when it does not wait; in each place the other queues hold only flags.
The results SendTask never took are flags as well, which is why comparing
addresses is enough.

It then shows that the handler is to the tasks no more than a request to
stop and a restart (`UpdateRunsLink`), so that both results hold during uploads
(`FrameStableDuringUpdates`, `UpdateImplementsHandover`); and `UpdateStopsFirst`,
`FlashOnlyWhenStopped` for every image, partition and buffer, from the invariant
that each phase of the handler has seen the flags of the phases before, which no
task ever takes back.  `SuccessAlwaysWhole` proves `SuccessIsWhole` for every image,
partition and every way recv cuts the body.  The invariant `BodyInv` says how many
units `p` have come: that many are missing from `rest`, the length still expected is
no less than what is left, and once the marker is seen and nothing has failed the
flash holds the first `p - 3` units of the payload, or as many as the partition has.
The lemmas `FirstBuffer` and `LaterBuffer` say what a buffer adds; they rest on `Cut`
and `CutOfCut` about pieces of sequences.  The proof needs two assumptions on the
constants.  `SizeAssumption`: what follows the marker in its buffer fits into the
partition, for the first write is not cut off (main.cpp 243-256).
`MarkerAssumption`: the image does not hold the marker.  Without it the property is
false, and TLC shows it for an image that begins with the marker: recv cuts the first
marker in two, the handler takes the one in the image for it, and the upload succeeds
without its beginning.  `UpdateTypeCorrect` proves the types.
`OnlyWholeImagesAreBooted` proves that what the next start boots has changed only to
an image that esp_ota_end found whole.

`ZObjects_proofs` proves `LinksAlwaysAgree` for every number of objects, version,
set of attributes and tree whose links agree.  `LinksAgree` is inductive: the
lemmas `RemoveFirst` and `RemoveLater` say that after removeObject no link leads
to the object, and `AddAgrees` that then addChild tears nothing; `AttributeInItsBytes`
that the test of an attribute's number keeps the write before the links.  The proof
does not use that a game may not put an object into what it holds: the links agree
even then, though the tree is none.

`Folding` is about `FoldLeft` of the community modules, for any operator.  The
induction theorems of the library take an operator as a parameter and cannot be used;
the ones here take a set of numbers and go through its least element (`NatInduct`,
from `LeastNumber`).  The main fact, `FoldGoes`, is that a set of states that each step
of a fold stays in, position by position, holds the result.  `Windows_proofs`,
`Framing_proofs` and `Quetzal_proofs` take one instance of the module for each
operator that the model folds.

`Windows_proofs` proves, for a screen of any size, any number of lines split and games
of any length: `WindowsTypeCorrect`, `WindowsKeepStatus` (what window 0 prints leaves
the lines above it alone) and `WindowsFirstPage` (no line of the page that follows an
echoed input scrolls off before it could be read).  The hypothesis is `Tidy`, and for
the page `NUM_ROWS >= 4`: with 3 rows `FirstPageIsRead` is false in the initial
state already, as the menu's echo and ioReset scroll three lines.

- `WInv` is needed for the first two.  Its part `Placed` says that window 1 begins no
  lower than window 0, that the lines above window 0 are among the rows that do not
  scroll, that those leave two rows at least, that window 0's cursor is in the last
  line, and that the cursor which each other window comes back to is on the screen.
  Window 0's cursor matters for `StatusKept`: a scroll moves the non-scrolling rows with
  the top of the ring, and a word is wrapped through the row before, so what is above
  stays only if the text is at the bottom.  `Placed` is inductive only for `Tidy` games;
  each bullet under `Windows` in section 2 is a step that breaks it, or what the user
  could read.
- `InPage` is for the page: nothing was lost, and unless the page has ended,
  `ScrollsWithoutInput` counts between 2 and the scrolling rows, and each row not yet
  read is still in view, as far up as the count says.  `Wrapped` adds that a word
  that is about to be wrapped has been scrolled for, since wrapping writes to the row
  before.  Neither says anything of the number of lines printed: [MORE] ends the page
  before the count reaches the first unread row.

Each method of the screen and each function io... has a lemma that it keeps these,
and a text or an erasure follows by `FoldGoes`.

`Framing_proofs` proves, for all messages, rings, queues, bounds and starting indices:
`FramingTypeCorrect`; `UndisturbedAlwaysArrive`, that each frame which is not given
up, has no wrong bit and meets no full queue arrives once, in order and unchanged,
whatever bits of other frames are wrong; and `NothingElseArrives`, that nothing else
does as long as no bit has been wrong.  Its assumptions are those of `Framing` on its
constants; `RingHasRoom`, told in section 2, is a guard of the model.

- *The checksum* (`SentPacketsValidate`).  Bits are added without carry, and a step of
  the register keeps sums (`StepOfSum`), so four steps are four steps of the low part
  of the register, which the table has, added to the rest moved by four
  (`LookUpSteps`).  The octets go through the table along two runs of the fold side by
  side (`CheckIsRegister`).  The checksum itself is the register inverted, and what it
  leaves behind does not depend on the message: the sixteen steps are sixteen sets of
  ones (`Trace`), from nothing to 0x1D0F.
- *The line.*  `Stuffing` is the run of the fold that puts the zeros in; after k bits of
  the packet `Place` is where the line is and `Ones` how many ones stand in a row, less
  than five (`PlaceSteps`).
- *The interrupt.*  `InFrame` says where in a frame it can be: in the idle ones before,
  in the first flag, after k bits, before a zero that was put in, in the last flag, or in
  the ones that give the frame up.  After k bits the byte holds k modulo 8 of them above
  the 1 that marks the end (`Begun`), and the ring the bytes before (`InRing`).  Every
  bit goes from one of these places to the next (`FrameStep`).  After a wrong bit the
  invariant (`LineInv`) says nothing of the frame; it says that between frames the
  interrupt is ready for a flag only as long as no bit was wrong, which is enough: the
  first flag of the next frame puts it right in any state (`OpeningStep`).
- *The ring* (`RingInv`).  The packets that wait and the one that is coming are not
  farther behind `RingBufIndex` than the ring is long, the oldest farthest, so that no
  byte is stored into them (`PacketUntouched`).  Distances are modulo `IndexLimit` and
  places modulo `RingSize`; that one divides the other is needed where the index wraps.
- *The order* (`NumberInv`).  Each packet that was processed or waits has the number of
  its frame, or 0 if a wrong bit made it.  The numbers grow, the packets that wait hold
  what was sent, and every frame that has ended and is not lost has one.

With wrong bits a packet may pass the checksum by chance, and for some messages does, so
that nothing else arrives then is checked for the messages of the run only.

Only model-checked: of `Framing`, that a wrong bit in the run's messages makes nothing
that passes for good; of `Windows`, that the terminal shows what was printed
(`ShownAsIs`) and that wrapped text is kept (`TextKept`); of `ZObjects` that the lists
are those of `Contents` (lists are read by recursion, and induction over data is out of
the prover's reach); and all liveness (fairness and ENABLED are out of the prover's
reach).

## 5. Plan

Done: `ScreenInput`, `Session`, `LinkTasks` and `Update`, `Framing`, `ScreenText`
and `Windows`, `ZStack` and `Quetzal`, `ZObjects`.  Left, in this order:

1. Proofs.  `TextKept` from the lemmas of `Windows_proofs`, and that the terminal
   shows each row (`ShownAsIs`), a fold over the packets' orders.
2. Output stream 3 in `Windows`; property tables in `ZObjects`; saved games that
   end in the middle in `Quetzal`.
3. `ZText`: encodeToken, lexicalAnalysis and the search of the dictionary, over
   short inputs.
4. The loop of TN3270 over a stream that recv cuts anywhere.

## 6. Not modelled

- libssh2, the MAME patch and the PC port in src/MAME/SoftDongle: third party, or
  a second copy of the same sources.  They are three quarters of the lines in the
  repository, so what is mapped is small next to all of it, and large next to the
  program's own 6000 lines.
- The decoding of Z-strings and the dictionary; the clients beyond their prompts,
  whose work is done by a peer over lwip and libssh2; the status page; settings;
  Wi-Fi events.
- The hardware and ROM files; radio and flash drivers, except for what they
  promise; the bytes of requests; code pages and menus.
