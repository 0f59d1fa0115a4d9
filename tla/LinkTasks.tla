------------------------------- MODULE LinkTasks -------------------------------
(***************************************************************************)
(* The two tasks that serve the line to the terminal, and the SPI slave    *)
(* driver between SendTask and the line (LowLevel.cpp 208-291, 382-445).   *)
(*                                                                         *)
(* MessageTask builds a frame in a buffer of its own stack, puts a pointer *)
(* to it in SendEventQueue and sleeps until it is notified.  SendTask, on  *)
(* the other core, keeps the line busy with flags and sends the frame in   *)
(* between.  The driver takes transactions from a short queue, and puts    *)
(* each one, when it is done, in a queue of results that is as short.      *)
(* SendTask does not take the results of flags it sends while it has no    *)
(* frame, so that queue is often full, and what the driver cannot put      *)
(* there is dropped.                                                       *)
(*                                                                         *)
(* What is received, and what GenerateNewPackets and ProcessPacket do, is  *)
(* in Framing and Session; here a frame has one of two names.              *)
(***************************************************************************)
EXTENDS Integers, Sequences

CONSTANTS
    NumTransactions,   \* size of the pool of message transactions
    QueueSize,         \* length of the driver's two queues, slvcfg.queue_size
    InTime             \* while it sends a frame, SendTask waits again before the
                       \* transaction on the line ends

ASSUME PoolAssumption == NumTransactions \in Nat \ {0}
ASSUME QueueAssumption == QueueSize \in Nat \ {0}
ASSUME InTimeAssumption == InTime \in BOOLEAN

\* Transactions of the driver: FlagsTransaction, and those of the pool.
Flags == 0
Pool == 1..NumTransactions
Transaction == {Flags} \cup Pool

\* xQueueCreate(4, ...)
SendQueueLength == 4

VARIABLES
    bQuitTasks,          \* the tasks are asked to stop
    bDoneQuitTask1,      \* MessageTask has stopped
    bDoneQuitTask2,      \* SendTask has stopped
    bSuspended,          \* the client has handed its screen over
    message,             \* where MessageTask is
    bytes,               \* the frame in its buffer
    notified,            \* the notification count of MessageTask
    SendEventQueue,      \* how many pointers to the buffer are queued
    sender,              \* where SendTask is
    CurrentTransaction,  \* the transaction of the pool it took last
    transactions,        \* the driver's transactions, the first one on the line
    results,             \* those that are done and not taken yet
    wire                 \* the frames sent since the last one was handed over

messageVars == <<bDoneQuitTask1, bSuspended, message, bytes>>
senderVars == <<bDoneQuitTask2, sender, CurrentTransaction>>
driverVars == <<transactions, results>>
linkVars == <<bQuitTasks, messageVars, notified, SendEventQueue, senderVars, driverVars,
              wire>>

InitLink ==
    /\ bQuitTasks = FALSE
    /\ bDoneQuitTask1 = FALSE
    /\ bDoneQuitTask2 = FALSE
    /\ bSuspended = FALSE
    /\ message = "top"
    /\ bytes = 0
    /\ notified = 0
    /\ SendEventQueue = 0
    /\ sender = "top"
    /\ CurrentTransaction = NumTransactions
    /\ transactions = <<>>
    /\ results = <<>>
    /\ wire = <<>>

\* esp_restart.
RestartTasks ==
    /\ bQuitTasks' = FALSE
    /\ bDoneQuitTask1' = FALSE
    /\ bDoneQuitTask2' = FALSE
    /\ bSuspended' = FALSE
    /\ message' = "top"
    /\ bytes' = 0
    /\ notified' = 0
    /\ SendEventQueue' = 0
    /\ sender' = "top"
    /\ CurrentTransaction' = NumTransactions
    /\ transactions' = <<>>
    /\ results' = <<>>
    /\ wire' = <<>>

\* The handler of an upload asks both tasks to stop.
Quit ==
    /\ bQuitTasks' = TRUE
    /\ UNCHANGED <<messageVars, notified, SendEventQueue, senderVars, driverVars, wire>>

--------------------------------------------------------------------------------
(***************************************************************************)
(* MessageTask.                                                            *)
(***************************************************************************)

\* What MessageTask leaves alone whatever it does.
Others == UNCHANGED <<bQuitTasks, senderVars, driverVars>>

\* CalculateCRC and ZeroBitAndFlagInsertion leave the bits to send in the buffer.
Build ==
    /\ bytes' = 1 - bytes
    /\ message' = "queue"
    /\ wire' = <<>>

\* It sees that it shall stop.
StopMessageTask ==
    /\ message = "top" /\ bQuitTasks
    /\ bDoneQuitTask1' = TRUE
    /\ message' = "stopped"
    /\ UNCHANGED <<bSuspended, bytes, notified, SendEventQueue, wire>> /\ Others

\* GenerateNewPackets builds a frame...
GenerateNewPackets ==
    /\ message = "top" /\ ~bQuitTasks
    /\ Build
    /\ UNCHANGED <<bDoneQuitTask1, bSuspended, notified, SendEventQueue>> /\ Others

\* ... or waits for the client's screen first.
WaitForScreen ==
    /\ message = "top" /\ ~bQuitTasks
    /\ message' = "serialize"
    /\ UNCHANGED <<bDoneQuitTask1, bSuspended, bytes, notified, SendEventQueue, wire>>
    /\ Others

SerializeScreen3270 ==
    /\ message = "serialize" /\ bSuspended
    /\ Build
    /\ UNCHANGED <<bDoneQuitTask1, bSuspended, notified, SendEventQueue>> /\ Others

\* MessageTask that does not wait until the frame is sent.
QueueFrameAndGoOn ==
    /\ message = "queue" /\ SendEventQueue < SendQueueLength
    /\ SendEventQueue' = SendEventQueue + 1
    /\ message' = "receive"
    /\ UNCHANGED <<bDoneQuitTask1, bSuspended, bytes, notified, wire>> /\ Others

\* xQueueSend.
QueueFrame ==
    /\ message = "queue" /\ SendEventQueue < SendQueueLength
    /\ SendEventQueue' = SendEventQueue + 1
    /\ message' = "notify"
    /\ UNCHANGED <<bDoneQuitTask1, bSuspended, bytes, notified, wire>> /\ Others

\* It has been told that the frame is sent.
TakeNotification ==
    /\ message = "notify" /\ notified > 0
    /\ notified' = 0
    /\ message' = "receive"
    /\ UNCHANGED <<bDoneQuitTask1, bSuspended, bytes, SendEventQueue, wire>> /\ Others

\* A packet that brings the user's input releases the client.
ReceiveInput ==
    /\ message = "receive" /\ bSuspended
    /\ bSuspended' = FALSE
    /\ UNCHANGED <<bDoneQuitTask1, message, bytes, notified, SendEventQueue, wire>> /\ Others

\* There is no packet, or no other one.
NoPacket ==
    /\ message = "receive"
    /\ message' = "top"
    /\ UNCHANGED <<bDoneQuitTask1, bSuspended, bytes, notified, SendEventQueue, wire>>
    /\ Others

MessageTask ==
    \/ StopMessageTask \/ GenerateNewPackets \/ SerializeScreen3270
    \/ QueueFrame \/ TakeNotification \/ NoPacket

\* The client calls ReadInput.
ReadInput ==
    /\ ~bSuspended
    /\ bSuspended' = TRUE
    /\ UNCHANGED <<bDoneQuitTask1, message, bytes, notified, SendEventQueue, wire>> /\ Others

--------------------------------------------------------------------------------
(***************************************************************************)
(* SendTask.                                                               *)
(***************************************************************************)

\* spi_slave_queue_trans: waits while the queue is full; one more is on the line.
HasRoom == Len(transactions) <= QueueSize

QueueTransaction(t) ==
    /\ HasRoom
    /\ transactions' = Append(transactions, t)
    /\ UNCHANGED results

SendTaskSteps(to) ==
    /\ sender' = to
    /\ UNCHANGED <<bQuitTasks, messageVars, wire>>

\* It stops and does not say so.
StopSendTaskSilently ==
    /\ sender = "top" /\ bQuitTasks
    /\ SendTaskSteps("stopped")
    /\ UNCHANGED <<notified, SendEventQueue, CurrentTransaction, bDoneQuitTask2, driverVars>>

\* It sees that it shall stop.
StopSendTask ==
    /\ sender = "top" /\ bQuitTasks
    /\ bDoneQuitTask2' = TRUE
    /\ SendTaskSteps("stopped")
    /\ UNCHANGED <<notified, SendEventQueue, CurrentTransaction, driverVars>>

GoOnSending ==
    /\ sender = "top" /\ ~bQuitTasks
    /\ SendTaskSteps("ready")
    /\ UNCHANGED <<notified, SendEventQueue, bDoneQuitTask2, CurrentTransaction, driverVars>>

\* The terminal is not ready to receive (IN_SDLCRTR is low), or there is no frame.
NoFrame(ready) ==
    /\ sender = "ready"
    /\ ~ready \/ SendEventQueue = 0
    /\ SendTaskSteps("flags")
    /\ UNCHANGED <<notified, SendEventQueue, bDoneQuitTask2, CurrentTransaction, driverVars>>

\* The frame is looked at and left in the queue.
PeekFrame ==
    /\ sender = "ready" /\ SendEventQueue > 0
    /\ CurrentTransaction' = (CurrentTransaction % NumTransactions) + 1
    /\ SendTaskSteps("send")
    /\ UNCHANGED <<SendEventQueue, notified, bDoneQuitTask2, driverVars>>

\* The terminal is ready and a frame is queued.
TakeFrame ==
    /\ sender = "ready" /\ SendEventQueue > 0
    /\ SendEventQueue' = SendEventQueue - 1
    /\ CurrentTransaction' = (CurrentTransaction % NumTransactions) + 1
    /\ SendTaskSteps("send")
    /\ UNCHANGED <<notified, bDoneQuitTask2, driverVars>>

QueueFlags ==
    /\ sender = "flags"
    /\ QueueTransaction(Flags)
    /\ SendTaskSteps("top")
    /\ UNCHANGED <<notified, SendEventQueue, bDoneQuitTask2, CurrentTransaction>>

QueueMessage ==
    /\ sender = "send"
    /\ QueueTransaction(CurrentTransaction)
    /\ SendTaskSteps("fill")
    /\ UNCHANGED <<notified, SendEventQueue, bDoneQuitTask2, CurrentTransaction>>

\* Flags behind the frame, again and again until its result comes.
FillWithFlags ==
    /\ sender = "fill"
    /\ QueueTransaction(Flags)
    /\ SendTaskSteps("result")
    /\ UNCHANGED <<notified, SendEventQueue, bDoneQuitTask2, CurrentTransaction>>

\* Any transaction that is done is taken for the frame's.
AnyIsOurs(t) == TRUE

\* The slot of the pool is looked up after the count of transactions was raised.
NextIsOurs(t) == t = (CurrentTransaction % NumTransactions) + 1

\* What tells the frame from the flags that were sent before it: the address of
\* its transaction.
IsOurs(t) == t = CurrentTransaction

\* spi_slave_get_trans_result, which does not wait.
GetResult ==
    /\ sender = "result"
    /\ UNCHANGED <<SendEventQueue, bDoneQuitTask2, CurrentTransaction, transactions>>
    /\ \/ /\ results = <<>>
          /\ SendTaskSteps("fill")
          /\ UNCHANGED <<notified, results>>
       \/ /\ results # <<>>
          /\ results' = Tail(results)
          /\ IF IsOurs(Head(results))
             THEN SendTaskSteps("top") /\ notified' = notified + 1
             ELSE SendTaskSteps("fill") /\ UNCHANGED notified

SendTask ==
    \/ StopSendTask \/ GoOnSending \/ \E ready \in BOOLEAN : NoFrame(ready)
    \/ TakeFrame \/ QueueFlags \/ QueueMessage \/ FillWithFlags \/ GetResult

--------------------------------------------------------------------------------
(***************************************************************************)
(* The driver.  A transaction lasts 1.5 ms or more (LowLevel.cpp 391), and *)
(* SendTask, which has its core to itself, needs less from one wait to the *)
(* next.  It must while it sends a frame, or the driver drops the result   *)
(* (InTime); otherwise it may be as slow as it likes.                      *)
(***************************************************************************)
\* SendTask is at work on a frame that MessageTask has handed over.
Sending == sender \in {"send", "fill", "result"}

SendTaskWaits ==
    \/ sender = "stopped"
    \/ sender \in {"flags", "send", "fill"} /\ ~HasRoom

EndTransaction ==
    /\ transactions # <<>>
    /\ InTime => SendTaskWaits \/ ~Sending
    /\ transactions' = Tail(transactions)
    /\ results' = IF Len(results) < QueueSize
                  THEN Append(results, Head(transactions)) ELSE results
    /\ wire' = IF Head(transactions) = Flags THEN wire ELSE Append(wire, bytes)
    /\ UNCHANGED <<bQuitTasks, messageVars, notified, SendEventQueue, senderVars>>

Link == MessageTask \/ WaitForScreen \/ ReceiveInput \/ ReadInput \/ SendTask \/ EndTransaction

LinkSpec == InitLink /\ [][Link \/ Quit \/ RestartTasks]_linkVars

(***************************************************************************)
(* Weak fairness: each task that can go on does, and the terminal's clock  *)
(* runs.  The terminal is ready again and again, though not always when    *)
(* SendTask looks, so TakeFrame gets strong fairness.  Whether the client  *)
(* asks for input, and what comes from the line, is open.                  *)
(***************************************************************************)
LinkFairness ==
    /\ WF_linkVars(MessageTask)
    /\ WF_linkVars(SendTask)
    /\ SF_linkVars(TakeFrame)
    /\ WF_linkVars(EndTransaction)

--------------------------------------------------------------------------------
(***************************************************************************)
(* Properties.                                                             *)
(***************************************************************************)
LinkTypeOK ==
    /\ bQuitTasks \in BOOLEAN
    /\ bDoneQuitTask1 \in BOOLEAN
    /\ bDoneQuitTask2 \in BOOLEAN
    /\ bSuspended \in BOOLEAN
    /\ message \in {"top", "serialize", "queue", "notify", "receive", "stopped"}
    /\ bytes \in {0, 1}
    /\ notified \in {0, 1}
    /\ SendEventQueue \in {0, 1}
    /\ sender \in {"top", "ready", "flags", "send", "fill", "result", "stopped"}
    /\ CurrentTransaction \in Pool
    /\ transactions \in Seq(Transaction) /\ Len(transactions) <= QueueSize + 1
    /\ results \in Seq(Transaction) /\ Len(results) <= QueueSize
    /\ wire \in Seq({0, 1})

\* The frame is where its sender left it until it has gone out: from the queue to the
\* end of its transaction MessageTask sleeps, and nothing writes the buffer on its
\* stack that the driver reads (LowLevel.cpp 237-244, 424-441).
FrameStable ==
    (SendEventQueue > 0 \/ sender = "send" \/ \E i \in DOMAIN transactions : transactions[i] # Flags)
        => message = "notify"

\* The driver's result of the frame gets through to SendTask: it is on the line, or
\* among the results, or still to be queued, as long as SendTask waits for it
\* (LowLevel.cpp 430-441).
ResultIsThere ==
    sender \in {"fill", "result"} =>
        \/ \E i \in DOMAIN transactions : transactions[i] = CurrentTransaction
        \/ \E i \in DOMAIN results : results[i] = CurrentTransaction

\* Each frame goes out once, as it was built, and its sender goes on only then
\* (LowLevel.cpp 240-244, 413-441).
H == INSTANCE Handover WITH
        frame <- bytes, handed <- message = "notify", sent <- wire
ImplementsHandover == H!Spec

\* A frame that is handed over is sent and its sender woken, unless the tasks are
\* stopped (LowLevel.cpp 244, 439).
FrameIsSent == message = "notify" ~> (message # "notify" \/ bQuitTasks)

=============================================================================
