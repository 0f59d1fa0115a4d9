----------------------------- MODULE Update_proofs -----------------------------
(***************************************************************************)
(* The tasks below the network session, and the uploads that stop them.    *)
(*                                                                         *)
(* First the tasks alone (LinkTasks): a frame is with one owner at a time  *)
(* on its way from MessageTask's buffer to the line and back to            *)
(* MessageTask's notification, for every size of the pool and of the       *)
(* driver's queues, and whether SendTask is in time or not.                *)
(*                                                                         *)
(* Then the uploads, for every image and every way recv cuts it.  To the   *)
(* tasks an upload is a request to stop and, perhaps, a restart, so that   *)
(* what holds of them alone holds next to it.  And no upload touches the   *)
(* flash before both have stopped.  What is told to have succeeded is      *)
(* whole: the flash holds the first of the payload without a gap, as far   *)
(* as it has come or as the partition of games holds it.                   *)
(***************************************************************************)
EXTENDS Update, SequenceTheorems, TLAPS


Lists == Seq(Transaction)

\* How many of the driver's transactions are a frame, and not flags.
NoMessage(list) == \A i \in 1..Len(list) : list[i] = Flags
OneMessage(list) ==
    \E i \in 1..Len(list) :
        list[i] # Flags /\ \A j \in 1..Len(list) : j # i => list[j] = Flags

(***************************************************************************)
(* Where a frame can be.                                                   *)
(***************************************************************************)
Nowhere ==
    /\ SendEventQueue = 0 /\ notified = 0 /\ ~Sending
    /\ NoMessage(transactions) /\ NoMessage(results)
Queued ==
    /\ SendEventQueue = 1 /\ notified = 0 /\ ~Sending
    /\ NoMessage(transactions) /\ NoMessage(results) /\ wire = <<>>
Taken ==
    /\ SendEventQueue = 0 /\ notified = 0 /\ sender = "send"
    /\ NoMessage(transactions) /\ NoMessage(results) /\ wire = <<>>
OnLine ==
    /\ SendEventQueue = 0 /\ notified = 0 /\ sender \in {"fill", "result"}
    /\ OneMessage(transactions) /\ NoMessage(results) /\ wire = <<>>
Sent ==
    /\ SendEventQueue = 0 /\ notified = 0 /\ sender \in {"fill", "result"}
    /\ NoMessage(transactions) /\ (NoMessage(results) \/ OneMessage(results))
    /\ wire = <<bytes>>
Told ==
    /\ SendEventQueue = 0 /\ notified = 1 /\ ~Sending
    /\ NoMessage(transactions) /\ NoMessage(results) /\ wire = <<bytes>>

\* MessageTask sleeps just as long as its frame is under way.
OneOwner ==
    /\ message = "notify" => Queued \/ Taken \/ OnLine \/ Sent \/ Told
    /\ message # "notify" => Nowhere
    /\ message = "queue" => wire = <<>>

LinkInv == LinkTypeOK /\ OneOwner

--------------------------------------------------------------------------------
(***************************************************************************)
(* Lists of transactions.                                                  *)
(***************************************************************************)
LEMMA EmptyList == NoMessage(<<>>)
BY DEF NoMessage

LEMMA AppendFlags ==
    ASSUME NEW list \in Lists
    PROVE  /\ NoMessage(list) => NoMessage(Append(list, Flags))
           /\ OneMessage(list) => OneMessage(Append(list, Flags))
<1>1. /\ Len(Append(list, Flags)) = Len(list) + 1 /\ Len(list) \in Nat
      /\ \A i \in 1..Len(list) : Append(list, Flags)[i] = list[i]
      /\ Append(list, Flags)[Len(list) + 1] = Flags
  BY DEF Lists, Flags, Transaction
<1>2. \A i \in 1..Len(Append(list, Flags)) : i \in 1..Len(list) \/ i = Len(list) + 1
  BY <1>1
<1>3. NoMessage(list) => NoMessage(Append(list, Flags))
  BY <1>1, <1>2 DEF NoMessage
<1>4. ASSUME OneMessage(list) PROVE OneMessage(Append(list, Flags))
  <2>1. PICK i \in 1..Len(list) :
            list[i] # Flags /\ \A j \in 1..Len(list) : j # i => list[j] = Flags
    BY <1>4 DEF OneMessage
  <2>2. i \in 1..Len(Append(list, Flags))
    BY <1>1
  <2> QED
    BY <1>1, <1>2, <2>1, <2>2 DEF OneMessage
<1> QED
  BY <1>3, <1>4

LEMMA AppendMessage ==
    ASSUME NEW list \in Lists, NEW t \in Pool, NoMessage(list)
    PROVE  OneMessage(Append(list, t))
<1>1. /\ Len(Append(list, t)) = Len(list) + 1 /\ Len(list) \in Nat
      /\ \A i \in 1..Len(list) : Append(list, t)[i] = list[i]
      /\ Append(list, t)[Len(list) + 1] = t
  BY DEF Lists, Transaction
<1>2. t # Flags
  BY PoolAssumption DEF Pool, Flags
<1>3. \A i \in 1..Len(Append(list, t)) : i \in 1..Len(list) \/ i = Len(list) + 1
  BY <1>1
<1>4. Len(list) + 1 \in 1..Len(Append(list, t))
  BY <1>1
<1> QED
  BY <1>1, <1>2, <1>3, <1>4 DEF NoMessage, OneMessage

LEMMA TakeFirst ==
    ASSUME NEW list \in Lists, list # <<>>
    PROVE  /\ NoMessage(list) => Head(list) = Flags /\ NoMessage(Tail(list))
           /\ OneMessage(list) /\ Head(list) = Flags => OneMessage(Tail(list))
           /\ OneMessage(list) /\ Head(list) # Flags => NoMessage(Tail(list))
<1>1. /\ Len(Tail(list)) = Len(list) - 1 /\ Len(list) \in Nat /\ Len(list) >= 1
      /\ \A i \in 1..Len(Tail(list)) : Tail(list)[i] = list[i + 1]
      /\ Head(list) = list[1]
  BY DEF Lists
<1>2. \A i \in 1..Len(Tail(list)) : i + 1 \in 1..Len(list) /\ i + 1 # 1
  BY <1>1
<1>3. 1 \in 1..Len(list)
  BY <1>1
<1>4. NoMessage(list) => Head(list) = Flags /\ NoMessage(Tail(list))
  BY <1>1, <1>2, <1>3 DEF NoMessage
<1>5. ASSUME OneMessage(list) PROVE /\ Head(list) = Flags => OneMessage(Tail(list))
                                    /\ Head(list) # Flags => NoMessage(Tail(list))
  <2>1. PICK i \in 1..Len(list) :
            list[i] # Flags /\ \A j \in 1..Len(list) : j # i => list[j] = Flags
    BY <1>5 DEF OneMessage
  <2>2. CASE i = 1
    BY <1>1, <1>2, <2>1, <2>2 DEF NoMessage
  <2>3. CASE i # 1
    <3>1. i - 1 \in 1..Len(Tail(list)) /\ (i - 1) + 1 = i
      BY <1>1, <2>3
    <3>2. Tail(list)[i - 1] # Flags
      BY <1>1, <2>1, <3>1
    <3>3. \A j \in 1..Len(Tail(list)) : j # i - 1 => Tail(list)[j] = Flags
      <4> SUFFICES ASSUME NEW j \in 1..Len(Tail(list)), j # i - 1
                   PROVE  Tail(list)[j] = Flags
        OBVIOUS
      <4>1. j + 1 \in 1..Len(list) /\ j + 1 # i
        BY <1>2, <1>1
      <4> QED
        BY <1>1, <2>1, <4>1
    <3>4. Head(list) = Flags
      BY <1>1, <1>3, <2>1, <2>3
    <3> QED
      BY <3>1, <3>2, <3>3, <3>4 DEF OneMessage
  <2> QED
    BY <2>2, <2>3
<1> QED
  BY <1>4, <1>5

--------------------------------------------------------------------------------
(***************************************************************************)
(* The steps.                                                              *)
(***************************************************************************)
\* Type correctness, in parts.
Booleans ==
    /\ bQuitTasks \in BOOLEAN /\ bDoneQuitTask1 \in BOOLEAN /\ bDoneQuitTask2 \in BOOLEAN
    /\ bSuspended \in BOOLEAN
Places ==
    /\ message \in {"top", "serialize", "queue", "notify", "receive", "stopped"}
    /\ sender \in {"top", "ready", "flags", "send", "fill", "result", "stopped"}
Counts ==
    /\ bytes \in {0, 1} /\ notified \in {0, 1} /\ SendEventQueue \in {0, 1}
    /\ CurrentTransaction \in Pool
Queues ==
    /\ transactions \in Lists /\ Len(transactions) <= QueueSize + 1
    /\ results \in Lists /\ Len(results) <= QueueSize
    /\ wire \in Seq({0, 1})

LEMMA TypeInParts ==
    /\ LinkTypeOK <=> Booleans /\ Places /\ Counts /\ Queues
    /\ LinkTypeOK' <=> Booleans' /\ Places' /\ Counts' /\ Queues'
BY DEF LinkTypeOK, Booleans, Places, Counts, Queues, Lists

LEMMA InitialLink == InitLink => LinkInv
<1> SUFFICES ASSUME InitLink PROVE LinkInv
  OBVIOUS
<1>1. Booleans
  BY Zenon DEF InitLink, Booleans
<1>2. Places
  BY Zenon DEF InitLink, Places
<1>3. Counts
  BY PoolAssumption DEF InitLink, Counts, Pool
<1>4. Queues
  BY QueueAssumption DEF InitLink, Queues, Lists
<1>5. OneOwner
  BY EmptyList DEF InitLink, OneOwner, Nowhere, Sending
<1> QED
  BY <1>1, <1>2, <1>3, <1>4, <1>5, TypeInParts DEF LinkInv

LEMMA RestartedLink == RestartTasks => LinkInv'
<1> SUFFICES ASSUME RestartTasks PROVE LinkInv'
  OBVIOUS
<1>1. Booleans'
  BY Zenon DEF RestartTasks, Booleans
<1>2. Places'
  BY Zenon DEF RestartTasks, Places
<1>3. Counts'
  BY PoolAssumption DEF RestartTasks, Counts, Pool
<1>4. Queues'
  BY QueueAssumption DEF RestartTasks, Queues, Lists
<1>5. OneOwner'
  BY EmptyList DEF RestartTasks, OneOwner, Nowhere, Sending, NoMessage
<1> QED
  BY <1>1, <1>2, <1>3, <1>4, <1>5, TypeInParts DEF LinkInv

\* Steps that move no frame.
MovesNoFrame ==
    /\ \/ message' = message
       \/ message # "notify" /\ message' # "notify" /\ message' # "queue"
    /\ sender' = sender \/ (~Sending /\ ~Sending')
    /\ UNCHANGED <<bytes, notified, SendEventQueue, driverVars, wire>>

LEMMA NoFrameMoved ==
    ASSUME OneOwner, MovesNoFrame PROVE OneOwner'
BY DEF OneOwner, MovesNoFrame, Nowhere, Queued, Taken, OnLine, Sent, Told, Sending,
       NoMessage, OneMessage, driverVars

LEMMA QueuesKept ==
    ASSUME Queues, transactions' = transactions, results' = results,
           wire' = wire \/ wire' = <<>>
    PROVE  Queues'
<1>1. <<>> \in Seq({0, 1})
  OBVIOUS
<1>2. wire' \in Seq({0, 1})
  BY <1>1, Zenon DEF Queues
<1> QED
  BY <1>2 DEF Queues

\* The steps of MessageTask and of the client.
MessageSteps == MessageTask \/ WaitForScreen \/ ReceiveInput \/ ReadInput

LEMMA MessageTypes ==
    ASSUME LinkInv, MessageSteps PROVE LinkTypeOK'
<1> USE DEF MessageSteps, MessageTask, WaitForScreen, ReceiveInput, ReadInput,
            StopMessageTask, GenerateNewPackets, SerializeScreen3270, QueueFrame,
            TakeNotification, NoPacket, Build, Others, senderVars, driverVars
<1>1. Booleans /\ Places /\ Counts /\ Queues /\ OneOwner
  BY TypeInParts DEF LinkInv
<1>2. Booleans'
  BY <1>1, Zenon DEF Booleans
<1>3. Places'
  BY <1>1, Zenon DEF Places
<1>4. SendEventQueue' \in {0, 1}
  BY <1>1 DEF Counts, OneOwner, Nowhere
<1>5. Counts'
  BY <1>1, <1>4 DEF Counts
<1>6. transactions' = transactions /\ results' = results /\ (wire' = wire \/ wire' = <<>>)
  BY Zenon
<1>7. Queues'
  BY <1>1, <1>6, QueuesKept
<1> QED
  BY <1>2, <1>3, <1>5, <1>7, TypeInParts

LEMMA MessageOwner ==
    ASSUME LinkInv, MessageSteps PROVE OneOwner'
<1>1. OneOwner
  BY DEF LinkInv
<1>2. CASE StopMessageTask \/ NoPacket \/ WaitForScreen
  <2>1. MovesNoFrame
    BY <1>2 DEF MovesNoFrame, StopMessageTask, NoPacket, WaitForScreen, Others,
                senderVars, driverVars
  <2> QED
    BY <1>1, <2>1, NoFrameMoved
<1>3. CASE ReceiveInput \/ ReadInput
  <2>1. MovesNoFrame
    BY <1>3 DEF MovesNoFrame, ReceiveInput, ReadInput, Others, senderVars, driverVars
  <2> QED
    BY <1>1, <2>1, NoFrameMoved
<1>4. CASE GenerateNewPackets \/ SerializeScreen3270
  BY <1>1, <1>4 DEF GenerateNewPackets, SerializeScreen3270, Build, Others, senderVars,
         driverVars, OneOwner, Nowhere, Sending, NoMessage
<1>5. CASE QueueFrame
  BY <1>1, <1>5 DEF QueueFrame, Others, senderVars, driverVars, OneOwner, Nowhere, Queued,
         Sending, NoMessage
<1>6. CASE TakeNotification
  BY <1>1, <1>6 DEF TakeNotification, Others, senderVars, driverVars, OneOwner, Nowhere,
         Queued, Taken, OnLine, Sent, Told, Sending, NoMessage
<1> QED
  BY <1>2, <1>3, <1>4, <1>5, <1>6 DEF MessageSteps, MessageTask

\* What the driver's queues may become.
LEMMA QueueTypes ==
    /\ \A list \in Lists, t \in Transaction : Append(list, t) \in Lists
                                             /\ Len(Append(list, t)) = Len(list) + 1
    /\ \A list \in Lists : list # <<>> =>
          /\ Tail(list) \in Lists /\ Head(list) \in Transaction
          /\ Len(Tail(list)) = Len(list) - 1
    /\ \A list \in Lists : Len(list) \in Nat
BY DEF Lists

LEMMA QueueGrows ==
    ASSUME Queues,
           \/ transactions' = transactions
           \/ \E t \in Transaction : HasRoom /\ transactions' = Append(transactions, t)
    PROVE  transactions' \in Lists /\ Len(transactions') <= QueueSize + 1
<1>1. CASE transactions' = transactions
  BY <1>1 DEF Queues
<1>2. ASSUME NEW t \in Transaction, HasRoom, transactions' = Append(transactions, t)
      PROVE  transactions' \in Lists /\ Len(transactions') <= QueueSize + 1
  <2>1. /\ transactions' \in Lists /\ Len(transactions') = Len(transactions) + 1
        /\ Len(transactions) \in Nat
    BY <1>2, QueueTypes DEF Queues
  <2> QED
    BY <1>2, <2>1, QueueAssumption DEF HasRoom
<1> QED
  BY <1>1, <1>2

LEMMA QueueShrinks ==
    ASSUME Queues, results' = results \/ (results # <<>> /\ results' = Tail(results))
    PROVE  results' \in Lists /\ Len(results') <= QueueSize
<1>1. CASE results' = results
  BY <1>1 DEF Queues
<1>2. CASE results # <<>> /\ results' = Tail(results)
  <2>1. /\ results' \in Lists /\ Len(results') = Len(results) - 1 /\ Len(results) \in Nat
        /\ Len(results) <= QueueSize
    BY <1>2, QueueTypes DEF Queues
  <2> QED
    BY <2>1, QueueAssumption
<1> QED
  BY <1>1, <1>2

LEMMA SenderTypes ==
    ASSUME LinkInv, SendTask PROVE LinkTypeOK'
<1> USE DEF SendTask, StopSendTask, GoOnSending, NoFrame, TakeFrame, QueueFlags,
            QueueMessage, FillWithFlags, GetResult, SendTaskSteps, messageVars, driverVars
<1>1. Booleans /\ Places /\ Counts /\ Queues /\ OneOwner
  BY TypeInParts DEF LinkInv
<1>2. Booleans'
  BY <1>1, Zenon DEF Booleans, QueueTransaction
<1>3. Places'
  BY <1>1, Zenon DEF Places, QueueTransaction
<1>4. CurrentTransaction' \in Pool
  BY <1>1, PoolAssumption DEF Counts, Pool, QueueTransaction
<1>5. SendEventQueue' \in {0, 1}
  BY <1>1 DEF Counts, QueueTransaction
<1>6. notified' \in {0, 1}
  BY <1>1 DEF Counts, OneOwner, Nowhere, Queued, Taken, OnLine, Sent, Told, Sending,
              QueueTransaction
<1>7. Counts'
  BY <1>1, <1>4, <1>5, <1>6, Zenon DEF Counts, QueueTransaction
<1>8. wire' = wire
  BY Zenon
<1>9. \/ transactions' = transactions
      \/ \E t \in Transaction : HasRoom /\ transactions' = Append(transactions, t)
  BY <1>1, Zenon DEF Counts, QueueTransaction, Transaction
<1>10. results' = results \/ (results # <<>> /\ results' = Tail(results))
  BY Zenon DEF QueueTransaction
<1>11. Queues'
  <2>1. transactions' \in Lists /\ Len(transactions') <= QueueSize + 1
    BY <1>1, <1>9, QueueGrows
  <2>2. results' \in Lists /\ Len(results') <= QueueSize
    BY <1>1, <1>10, QueueShrinks
  <2> QED
    BY <1>1, <1>8, <2>1, <2>2, Zenon DEF Queues
<1> QED
  BY <1>2, <1>3, <1>7, <1>11, TypeInParts

LEMMA SenderOwner ==
    ASSUME LinkInv, SendTask PROVE OneOwner'
<1>1. OneOwner /\ Places /\ Counts /\ Queues
  BY TypeInParts DEF LinkInv
<1>2. CASE StopSendTask \/ GoOnSending \/ \E ready \in BOOLEAN : NoFrame(ready)
  <2>1. MovesNoFrame
    BY <1>2 DEF MovesNoFrame, StopSendTask, GoOnSending, NoFrame, SendTaskSteps,
                messageVars, driverVars, Sending
  <2> QED
    BY <1>1, <2>1, NoFrameMoved
<1>3. CASE TakeFrame
  BY <1>1, <1>3 DEF TakeFrame, SendTaskSteps, messageVars, driverVars, OneOwner, Nowhere,
         Queued, Taken, OnLine, Sent, Told, Sending, NoMessage
<1>4. CASE QueueFlags
  <2>1. /\ transactions' = Append(transactions, Flags)
        /\ sender = "flags" /\ sender' = "top"
        /\ UNCHANGED <<message, bytes, notified, SendEventQueue, results, wire>>
    BY <1>4 DEF QueueFlags, QueueTransaction, SendTaskSteps, messageVars
  <2>2. NoMessage(transactions) => NoMessage(transactions')
    BY <1>1, <2>1, AppendFlags DEF Queues
  <2> QED
    BY <1>1, <2>1, <2>2 DEF OneOwner, Nowhere, Queued, Taken, OnLine, Sent, Told, Sending,
           NoMessage, OneMessage
<1>5. CASE QueueMessage
  <2>1. /\ transactions' = Append(transactions, CurrentTransaction)
        /\ sender = "send" /\ sender' = "fill"
        /\ UNCHANGED <<message, bytes, notified, SendEventQueue, results, wire>>
    BY <1>5 DEF QueueMessage, QueueTransaction, SendTaskSteps, messageVars
  <2>2. message = "notify" /\ Taken
    BY <1>1, <2>1 DEF OneOwner, Nowhere, Queued, Taken, OnLine, Sent, Told, Sending
  <2>3. OneMessage(transactions')
    BY <1>1, <2>1, <2>2, AppendMessage DEF Queues, Counts, Taken
  <2>4. OnLine'
    BY <2>1, <2>2, <2>3 DEF OnLine, Taken, NoMessage, OneMessage
  <2> QED
    BY <2>1, <2>2, <2>4 DEF OneOwner
<1>6. CASE FillWithFlags
  <2>1. /\ transactions' = Append(transactions, Flags)
        /\ sender = "fill" /\ sender' = "result"
        /\ UNCHANGED <<message, bytes, notified, SendEventQueue, results, wire>>
    BY <1>6 DEF FillWithFlags, QueueTransaction, SendTaskSteps, messageVars
  <2>2. /\ NoMessage(transactions) => NoMessage(transactions')
        /\ OneMessage(transactions) => OneMessage(transactions')
    BY <1>1, <2>1, AppendFlags DEF Queues
  <2>3. message = "notify" /\ (OnLine \/ Sent)
    BY <1>1, <2>1 DEF OneOwner, Nowhere, Queued, Taken, OnLine, Sent, Told, Sending
  <2>4. OnLine' \/ Sent'
    BY <2>1, <2>2, <2>3 DEF OnLine, Sent, NoMessage, OneMessage
  <2> QED
    BY <2>1, <2>3, <2>4 DEF OneOwner
<1>7. CASE GetResult
  <2>1. /\ sender = "result"
        /\ UNCHANGED <<message, bytes, SendEventQueue, transactions, wire>>
    BY <1>7 DEF GetResult, SendTaskSteps, messageVars
  <2>2. message = "notify" /\ (OnLine \/ Sent)
    BY <1>1, <2>1 DEF OneOwner, Nowhere, Queued, Taken, OnLine, Sent, Told, Sending
  <2>3. CASE results = <<>>
    <3>1. sender' = "fill" /\ UNCHANGED <<notified, results>>
      BY <1>7, <2>3 DEF GetResult, SendTaskSteps
    <3>2. OnLine' \/ Sent'
      BY <2>1, <2>2, <3>1 DEF OnLine, Sent, NoMessage, OneMessage
    <3> QED
      BY <2>1, <2>2, <3>2 DEF OneOwner
  <2>4. CASE results # <<>> /\ ~IsOurs(Head(results))
    <3>1. sender' = "fill" /\ notified' = notified /\ results' = Tail(results)
      BY <1>7, <2>4 DEF GetResult, SendTaskSteps
    <3>2. /\ NoMessage(results) => NoMessage(results')
          /\ OneMessage(results) => NoMessage(results') \/ OneMessage(results')
      BY <1>1, <2>4, <3>1, TakeFirst DEF Queues
    <3>3. OnLine' \/ Sent'
      BY <2>1, <2>2, <3>1, <3>2 DEF OnLine, Sent, NoMessage, OneMessage
    <3> QED
      BY <2>1, <2>2, <3>3 DEF OneOwner
  <2>5. CASE results # <<>> /\ IsOurs(Head(results))
    <3>1. sender' = "top" /\ notified' = notified + 1 /\ results' = Tail(results)
      BY <1>7, <2>5 DEF GetResult, SendTaskSteps
    <3>2. Head(results) # Flags
      BY <1>1, <2>5, PoolAssumption DEF IsOurs, Counts, Pool, Flags
    <3>3. ~NoMessage(results) /\ (OneMessage(results) => NoMessage(results'))
      BY <1>1, <2>5, <3>1, <3>2, TakeFirst DEF Queues
    <3>4. Sent
      BY <2>2, <3>3 DEF OnLine
    <3>5. NoMessage(results')
      BY <3>3, <3>4 DEF Sent
    <3>6. NoMessage(transactions')
      BY <2>1, <3>4 DEF Sent
    <3>7. Told'
      BY <2>1, <3>1, <3>4, <3>5, <3>6 DEF Sent, Told, Sending, NoMessage
    <3> QED
      BY <2>1, <2>2, <3>7 DEF OneOwner
  <2> QED
    BY <2>3, <2>4, <2>5
<1> QED
  BY <1>2, <1>3, <1>4, <1>5, <1>6, <1>7 DEF SendTask

\* The driver sends what is first in its queue.
LEMMA DriverKeeps ==
    ASSUME LinkInv, EndTransaction PROVE LinkInv'
<1>1. Booleans /\ Places /\ Counts /\ Queues /\ OneOwner
  BY TypeInParts DEF LinkInv
<1>2. /\ transactions # <<>> /\ transactions' = Tail(transactions)
      /\ results' = results \/ (Len(results) < QueueSize
                                 /\ results' = Append(results, Head(transactions)))
      /\ wire' = IF Head(transactions) = Flags THEN wire ELSE Append(wire, bytes)
  BY DEF EndTransaction
<1>3. UNCHANGED <<bQuitTasks, messageVars, notified, SendEventQueue, senderVars>>
  BY DEF EndTransaction
<1>4. /\ Head(transactions) \in Transaction
      /\ Tail(transactions) \in Lists /\ Len(Tail(transactions)) = Len(transactions) - 1
      /\ Len(transactions) \in Nat /\ Len(results) \in Nat
  BY <1>1, <1>2, QueueTypes DEF Queues
<1>5. transactions' \in Lists /\ Len(transactions') <= QueueSize + 1
  BY <1>1, <1>2, <1>4, QueueAssumption DEF Queues
<1>6. results' \in Lists /\ Len(results') <= QueueSize
  <2>1. CASE results' = results
    BY <1>1, <2>1 DEF Queues
  <2>2. CASE Len(results) < QueueSize /\ results' = Append(results, Head(transactions))
    <3>1. results' \in Lists /\ Len(results') = Len(results) + 1
      BY <1>1, <1>4, <2>2, QueueTypes DEF Queues
    <3> QED
      BY <1>4, <2>2, <3>1, QueueAssumption
  <2> QED
    BY <1>2, <2>1, <2>2
<1>7. wire' \in Seq({0, 1})
  <2>1. Append(wire, bytes) \in Seq({0, 1})
    BY <1>1 DEF Queues, Counts
  <2> QED
    BY <1>1, <1>2, <2>1 DEF Queues
<1>8. Queues'
  BY <1>5, <1>6, <1>7, Zenon DEF Queues
<1>9. Booleans' /\ Places' /\ Counts'
  BY <1>1, <1>3, Zenon DEF Booleans, Places, Counts, messageVars, senderVars
<1>10. OneOwner'
  <2>1. UNCHANGED <<message, bytes, notified, SendEventQueue, sender>>
    BY <1>3 DEF messageVars, senderVars
  <2>2. CASE Head(transactions) = Flags
    <3>1. /\ NoMessage(transactions) => NoMessage(transactions')
          /\ OneMessage(transactions) => OneMessage(transactions')
      BY <1>1, <1>2, <2>2, TakeFirst DEF Queues
    <3>2. /\ NoMessage(results) => NoMessage(results')
          /\ OneMessage(results) => OneMessage(results')
      <4>1. CASE results' = results
        BY <4>1 DEF NoMessage, OneMessage
      <4>2. CASE results' = Append(results, Flags)
        BY <1>1, <4>2, AppendFlags DEF Queues
      <4> QED
        BY <1>2, <2>2, <4>1, <4>2
    <3>3. wire' = wire
      BY <1>2, <2>2
    <3>4. /\ Nowhere => Nowhere'
          /\ Queued => Queued'
          /\ Taken => Taken'
          /\ OnLine => OnLine'
          /\ Sent => Sent'
          /\ Told => Told'
      BY <2>1, <3>1, <3>2, <3>3
         DEF Nowhere, Queued, Taken, OnLine, Sent, Told, Sending
    <3> QED
      BY <1>1, <2>1, <3>3, <3>4 DEF OneOwner
  <2>3. CASE Head(transactions) # Flags
    <3>1. ~NoMessage(transactions)
      BY <1>1, <1>2, <2>3, TakeFirst DEF Queues
    <3>2. message = "notify" /\ OnLine
      BY <1>1, <3>1 DEF OneOwner, Nowhere, Queued, Taken, Sent, Told
    <3>3. NoMessage(transactions')
      BY <1>1, <1>2, <2>3, <3>2, TakeFirst DEF Queues, OnLine
    <3>4. NoMessage(results') \/ OneMessage(results')
      <4>1. CASE results' = results
        BY <3>2, <4>1 DEF OnLine
      <4>2. CASE results' = Append(results, Head(transactions))
        <5>1. Head(transactions) \in Pool
          BY <1>4, <2>3 DEF Transaction
        <5> QED
          BY <1>1, <3>2, <4>2, <5>1, AppendMessage DEF Queues, OnLine
      <4> QED
        BY <1>2, <4>1, <4>2
    <3>5. wire' = <<bytes>>
      BY <1>2, <2>3, <3>2 DEF OnLine
    <3>6. Sent'
      BY <2>1, <3>2, <3>3, <3>4, <3>5 DEF OnLine, Sent
    <3> QED
      BY <2>1, <3>2, <3>6 DEF OneOwner
  <2> QED
    BY <2>2, <2>3
<1> QED
  BY <1>8, <1>9, <1>10, TypeInParts DEF LinkInv

--------------------------------------------------------------------------------
\* All of the steps.
LEMMA LinkStep ==
    ASSUME LinkInv, [Link \/ Quit \/ RestartTasks]_linkVars PROVE LinkInv'
<1>1. CASE MessageSteps
  BY <1>1, MessageTypes, MessageOwner DEF LinkInv
<1>2. CASE SendTask
  BY <1>2, SenderTypes, SenderOwner DEF LinkInv
<1>3. CASE EndTransaction
  BY <1>3, DriverKeeps
<1>4. CASE Quit
  <2>1. MovesNoFrame
    BY <1>4 DEF Quit, MovesNoFrame, messageVars, senderVars, driverVars
  <2>2. OneOwner'
    BY <2>1, NoFrameMoved DEF LinkInv
  <2>3. Booleans' /\ Places' /\ Counts' /\ Queues'
    BY <1>4, TypeInParts, Zenon
       DEF LinkInv, Quit, Booleans, Places, Counts, Queues, messageVars, senderVars, driverVars
  <2> QED
    BY <2>2, <2>3, TypeInParts DEF LinkInv
<1>5. CASE RestartTasks
  BY <1>5, RestartedLink
<1>6. CASE UNCHANGED linkVars
  <2>1. MovesNoFrame
    BY <1>6 DEF linkVars, MovesNoFrame, messageVars, senderVars, driverVars
  <2>2. OneOwner'
    BY <2>1, NoFrameMoved DEF LinkInv
  <2>3. Booleans' /\ Places' /\ Counts' /\ Queues'
    BY <1>6, TypeInParts, Zenon
       DEF LinkInv, linkVars, Booleans, Places, Counts, Queues, messageVars, senderVars,
           driverVars
  <2> QED
    BY <2>2, <2>3, TypeInParts DEF LinkInv
<1> QED
  BY <1>1, <1>2, <1>3, <1>4, <1>5, <1>6 DEF Link, MessageSteps

THEOREM LinkInvariant == LinkSpec => []LinkInv
BY InitialLink, LinkStep, PTL DEF LinkSpec

LEMMA OwnerSleeps == LinkInv => FrameStable
<1> SUFFICES ASSUME LinkInv PROVE FrameStable
  OBVIOUS
<1>1. OneOwner /\ Queues
  BY TypeInParts DEF LinkInv
<1>2. ASSUME NEW i \in DOMAIN transactions, transactions[i] # Flags
      PROVE  ~NoMessage(transactions)
  BY <1>1, <1>2 DEF NoMessage, Queues, Lists
<1> QED
  BY <1>1, <1>2 DEF FrameStable, OneOwner, Nowhere, Sending

\* From the queue to the end of its transaction the frame's sender sleeps, and nothing
\* writes the buffer on its stack (LowLevel.cpp 237-244, 424-441).
THEOREM FrameAlwaysStable == LinkSpec => []FrameStable
BY LinkInvariant, OwnerSleeps, PTL

--------------------------------------------------------------------------------
(***************************************************************************)
(* The refinement: what the tasks and the driver do together is Handover.  *)
(***************************************************************************)
HandoverVars == <<bytes, message = "notify", wire>>

LEMMA HandoverStep ==
    ASSUME LinkInv, [Link \/ Quit \/ RestartTasks]_linkVars
    PROVE  H!Next \/ UNCHANGED HandoverVars
<1>1. OneOwner /\ Counts /\ Queues
  BY TypeInParts DEF LinkInv
<1>2. CASE StopMessageTask \/ WaitForScreen \/ ReceiveInput \/ NoPacket \/ ReadInput
  BY <1>2 DEF StopMessageTask, WaitForScreen, ReceiveInput, NoPacket, ReadInput, HandoverVars
<1>3. CASE GenerateNewPackets \/ SerializeScreen3270
  BY <1>3 DEF GenerateNewPackets, SerializeScreen3270, Build, H!Next, H!Build
<1>4. CASE QueueFrame
  BY <1>1, <1>4 DEF QueueFrame, OneOwner, H!Next, H!HandOver
<1>5. CASE TakeNotification
  <2>1. Told
    BY <1>1, <1>5 DEF TakeNotification, OneOwner, Queued, Taken, OnLine, Sent
  <2> QED
    BY <1>5, <2>1 DEF TakeNotification, Told, H!Next, H!GoOn
<1>6. CASE SendTask
  BY <1>6 DEF SendTask, StopSendTask, GoOnSending, NoFrame, TakeFrame, QueueFlags,
              QueueMessage, FillWithFlags, GetResult, SendTaskSteps, messageVars, HandoverVars
<1>7. CASE EndTransaction
  <2>1. UNCHANGED <<message, bytes>>
    BY <1>7 DEF EndTransaction, messageVars
  <2>2. CASE Head(transactions) = Flags
    BY <1>7, <2>1, <2>2 DEF EndTransaction, HandoverVars
  <2>3. CASE Head(transactions) # Flags
    <3>1. ~NoMessage(transactions)
      BY <1>1, <1>7, <2>3, TakeFirst DEF Queues, EndTransaction
    <3>2. message = "notify" /\ wire = <<>>
      BY <1>1, <3>1 DEF OneOwner, Nowhere, Queued, Taken, OnLine, Sent, Told
    <3>3. wire' = <<bytes>>
      BY <1>7, <2>3, <3>2 DEF EndTransaction
    <3> QED
      BY <2>1, <3>2, <3>3 DEF H!Next, H!Transmit
  <2> QED
    BY <2>2, <2>3
<1>8. CASE Quit \/ UNCHANGED linkVars
  BY <1>8 DEF Quit, linkVars, messageVars, HandoverVars
<1>9. CASE RestartTasks
  BY <1>9 DEF RestartTasks, H!Next, H!Restart
<1> QED
  BY <1>2, <1>3, <1>4, <1>5, <1>6, <1>7, <1>8, <1>9 DEF Link, MessageTask

LEMMA HandoverInit == InitLink => H!Init
BY DEF InitLink, H!Init

\* Each frame goes out once, as it was built, and its sender goes on only then
\* (LowLevel.cpp 240-244, 413-441).
THEOREM LinkImplementsHandover == LinkSpec => ImplementsHandover
<1>1. ASSUME LinkInv, [Link \/ Quit \/ RestartTasks]_linkVars
      PROVE  [H!Next]_HandoverVars
  BY <1>1, HandoverStep
<1> QED
  BY <1>1, HandoverInit, LinkInvariant, PTL
     DEF LinkSpec, ImplementsHandover, H!Spec, HandoverVars

--------------------------------------------------------------------------------
(***************************************************************************)
(* Uploads.                                                                *)
(***************************************************************************)

LEMMA HandlerLeavesTasks ==
    ASSUME Upload PROVE UNCHANGED linkVars
BY DEF Upload, WaitForTask1, WaitForTask2, ReceiveBuffer, AllReceived, ClientGone, Conclude

\* Next to the handler, the tasks and the driver behave as they do alone.
THEOREM UpdateRunsLink == Spec => LinkSpec
<1>1. [Next]_vars => [Link \/ Quit \/ RestartTasks]_linkVars
  <2>1. CASE Link
    BY <2>1
  <2>2. ASSUME NEW game \in BOOLEAN, NEW early \in 0..1, NEW length \in {0, Len(Body)},
               AcceptUpload(game, early, length)
        PROVE  Quit
    BY <2>2 DEF AcceptUpload
  <2>3. CASE Upload
    BY <2>3, HandlerLeavesTasks
  <2>4. CASE Restart
    BY <2>4 DEF Restart
  <2>5. CASE UNCHANGED vars
    BY <2>5 DEF vars
  <2> QED
    BY <2>1, <2>2, <2>3, <2>4, <2>5 DEF Next
<1>2. Init => InitLink
  BY DEF Init
<1> QED
  BY <1>1, <1>2, PTL DEF Spec, LinkSpec

\* The frame on the line is not touched, whatever the handler does.
THEOREM FrameStableDuringUpdates == Spec => []FrameStable
BY UpdateRunsLink, FrameAlwaysStable, PTL

\* Each frame goes out once, and its sender goes on only then, whatever the handler does.
THEOREM UpdateImplementsHandover == Spec => ImplementsHandover
BY UpdateRunsLink, LinkImplementsHandover, PTL

--------------------------------------------------------------------------------
\* What the handler has waited for.
HandlerInv ==
    /\ http \in {"stopping2", "receiving", "updated"} => bDoneQuitTask1
    /\ http \in {"receiving", "updated"} => bDoneQuitTask2

LEMMA TasksStayStopped ==
    ASSUME Link
    PROVE  (bDoneQuitTask1 => bDoneQuitTask1') /\ (bDoneQuitTask2 => bDoneQuitTask2')
<1>1. CASE MessageSteps
  <2>1. bDoneQuitTask2' = bDoneQuitTask2
    BY <1>1, Zenon
       DEF MessageSteps, MessageTask, WaitForScreen, ReceiveInput, ReadInput,
           StopMessageTask, GenerateNewPackets, SerializeScreen3270, QueueFrame,
           TakeNotification, NoPacket, Others, senderVars
  <2>2. bDoneQuitTask1' = bDoneQuitTask1 \/ bDoneQuitTask1' = TRUE
    BY <1>1, Zenon
       DEF MessageSteps, MessageTask, WaitForScreen, ReceiveInput, ReadInput,
           StopMessageTask, GenerateNewPackets, SerializeScreen3270, QueueFrame,
           TakeNotification, NoPacket
  <2> QED
    BY <2>1, <2>2
<1>2. CASE SendTask
  <2>1. bDoneQuitTask1' = bDoneQuitTask1
    BY <1>2, Zenon
       DEF SendTask, StopSendTask, GoOnSending, NoFrame, TakeFrame, QueueFlags, QueueMessage,
           FillWithFlags, GetResult, SendTaskSteps, messageVars
  <2>2. bDoneQuitTask2' = bDoneQuitTask2 \/ bDoneQuitTask2' = TRUE
    BY <1>2, Zenon
       DEF SendTask, StopSendTask, GoOnSending, NoFrame, TakeFrame, QueueFlags, QueueMessage,
           FillWithFlags, GetResult
  <2> QED
    BY <2>1, <2>2
<1>3. CASE EndTransaction
  BY <1>3, Zenon DEF EndTransaction, messageVars, senderVars
<1> QED
  BY <1>1, <1>2, <1>3 DEF Link, MessageSteps

LEMMA HandlerStep ==
    ASSUME HandlerInv, [Next]_vars PROVE HandlerInv'
<1>1. CASE Link /\ UNCHANGED uploadVars
  BY <1>1, TasksStayStopped, Zenon DEF HandlerInv, uploadVars
<1>2. ASSUME NEW game \in BOOLEAN, NEW early \in 0..1, NEW length \in {0, Len(Body)},
             AcceptUpload(game, early, length)
      PROVE  HandlerInv'
  BY <1>2 DEF AcceptUpload, HandlerInv
<1>3. CASE WaitForTask1 \/ WaitForTask2
  BY <1>3, Zenon
     DEF WaitForTask1, WaitForTask2, HandlerInv, linkVars, messageVars, senderVars
<1>4. ASSUME NEW n \in 1..MaxRecv, NEW ok \in BOOLEAN, ReceiveBuffer(n, ok)
      PROVE  HandlerInv'
  BY <1>4, Zenon DEF ReceiveBuffer, HandlerInv, linkVars, messageVars, senderVars
<1>5. CASE Conclude
  <2>1. http = "receiving" /\ http' \in {"updated", "accept"} /\ UNCHANGED linkVars
    BY <1>5, Zenon DEF Conclude
  <2> QED
    BY <2>1, Zenon DEF HandlerInv, linkVars, messageVars, senderVars
<1>6. CASE Restart
  BY <1>6 DEF Restart, HandlerInv
<1>7. CASE UNCHANGED vars
  BY <1>7, Zenon DEF vars, linkVars, uploadVars, messageVars, senderVars, HandlerInv
<1> QED
  BY <1>1, <1>2, <1>3, <1>4, <1>5, <1>6, <1>7 DEF Next, Upload, AllReceived, ClientGone

\* The flash is not erased, written or switched before both tasks have stopped
\* (main.cpp 184-192).
THEOREM UpdateStopsFirst == Spec => FlashOnlyWhenStopped
<1>1. Init => HandlerInv
  BY DEF Init, HandlerInv
<1>2. ASSUME HandlerInv, [Next]_vars
      PROVE  [flash' # flash \/ (boots' /\ ~boots)
                => bDoneQuitTask1 /\ bDoneQuitTask2]_vars
  <2>1. CASE http \in {"receiving", "updated"}
    BY <1>2, <2>1, Zenon DEF HandlerInv
  <2>2. CASE http \notin {"receiving", "updated"}
    <3>1. flash' = flash /\ boots' = boots
      BY <1>2, <2>2, Zenon
         DEF Next, Upload, AllReceived, ClientGone, Conclude, AcceptUpload, WaitForTask1,
             WaitForTask2, ReceiveBuffer, Restart, vars, uploadVars
    <3> QED
      BY <3>1
  <2> QED
    BY <2>1, <2>2
<1> QED
  BY <1>1, <1>2, HandlerStep, PTL DEF Spec, FlashOnlyWhenStopped

\* Firmware is made the one to boot only when its image is whole (main.cpp 295-306):
\* no step but the end of an upload of firmware switches the partition, and that one
\* only if esp_ota_end, which looks at the image, has not failed, nor a write before it.
THEOREM OnlyWholeImagesAreBooted == Spec => OnlyWholeImagesBoot
<1>1. ASSUME [Next]_vars PROVE [boots' /\ ~boots => IsPrefix(Data, flash)]_vars
  <2> SUFFICES ASSUME Next, boots', ~boots PROVE IsPrefix(Data, flash)
    BY <1>1
  <2>1. Conclude
    BY Zenon
       DEF Next, Upload, AllReceived, ClientGone, AcceptUpload, WaitForTask1, WaitForTask2,
           ReceiveBuffer, ProcessBuffer, Restart, uploadVars
  <2>2. OtaEnd
    BY <2>1, Zenon DEF Conclude
  <2> QED
    BY <2>2 DEF OtaEnd
<1> QED
  BY <1>1, PTL DEF Spec, OnlyWholeImagesBoot

--------------------------------------------------------------------------------
(***************************************************************************)
(* Facts on the body and on what recv cuts out of it.                      *)
(***************************************************************************)
\* What a unit may be: the provers do not know that a string is in STRING.
Units == STRING \cup {"header", "mark", "er", "boundary"}

LEMMA BodyUnits ==
    /\ Payload \in Seq(Units) /\ Len(Payload) = Len(Data) + 1
    /\ Body \in Seq(Units) /\ Len(Body) = Len(Data) + 4 /\ Len(Data) \in Nat
    /\ Body[1] = "header" /\ Body[2] = "mark" /\ Body[3] = "er"
    /\ \A j \in 1..Len(Payload) : Body[j + 3] = Payload[j]
    /\ \A j \in 1..Len(Data) : Payload[j] = Data[j]
    /\ Payload[Len(Data) + 1] = "boundary"
<1> DEFINE start == <<"header">> \o Marker
<1>1. Data \in Seq(Units) /\ Len(Data) \in Nat
  <2>1. STRING \subseteq Units
    BY DEF Units
  <2> QED
    BY <2>1, DataAssumption, SeqMonotonic, LenProperties
<1>2. <<"boundary">> \in Seq(Units) /\ Len(<<"boundary">>) = 1 /\ <<"boundary">>[1] = "boundary"
  BY DEF Units
<1>3. start \in Seq(Units) /\ Len(start) = 3
      /\ start[1] = "header" /\ start[2] = "mark" /\ start[3] = "er"
  <2>1. /\ <<"header">> \in Seq(Units) /\ Len(<<"header">>) = 1
        /\ <<"header">>[1] = "header"
    BY DEF Units
  <2>2. /\ Marker \in Seq(Units) /\ Len(Marker) = 2
        /\ Marker[1] = "mark" /\ Marker[2] = "er"
    BY DEF Units, Marker
  <2> DEFINE h == <<"header">>
  <2> HIDE DEF h
  <2>3. /\ h \o Marker \in Seq(Units) /\ Len(h \o Marker) = Len(h) + Len(Marker)
        /\ \A i \in 1..(Len(h) + Len(Marker)) :
              (h \o Marker)[i] = IF i <= Len(h) THEN h[i] ELSE Marker[i - Len(h)]
    BY <2>1, <2>2, ConcatProperties, Zenon DEF h
  <2>4. Len(h) = 1 /\ h[1] = "header"
    BY <2>1 DEF h
  <2>5. start = h \o Marker
    BY DEF h
  <2> QED
    BY <2>2, <2>3, <2>4, <2>5
<1>4. /\ Payload \in Seq(Units) /\ Len(Payload) = Len(Data) + 1
      /\ \A j \in 1..Len(Data) : Payload[j] = Data[j]
      /\ Payload[Len(Data) + 1] = "boundary"
  <2>1. /\ Payload \in Seq(Units) /\ Len(Payload) = Len(Data) + 1
        /\ \A j \in 1..(Len(Data) + 1) :
              Payload[j] = IF j <= Len(Data) THEN Data[j] ELSE <<"boundary">>[j - Len(Data)]
    BY <1>1, <1>2, ConcatProperties, Zenon DEF Payload
  <2> QED
    BY <1>1, <1>2, <2>1
<1>5. /\ start \o Payload \in Seq(Units) /\ Len(start \o Payload) = Len(Data) + 4
      /\ \A j \in 1..(Len(Data) + 4) :
            (start \o Payload)[j] = IF j <= 3 THEN start[j] ELSE Payload[j - 3]
  <2> HIDE DEF start
  <2>1. /\ start \o Payload \in Seq(Units)
        /\ Len(start \o Payload) = Len(start) + Len(Payload)
        /\ \A j \in 1..(Len(start) + Len(Payload)) :
              (start \o Payload)[j] =
                  IF j <= Len(start) THEN start[j] ELSE Payload[j - Len(start)]
    BY <1>3, <1>4, ConcatProperties, Zenon
  <2> QED
    BY <1>1, <1>3, <1>4, <2>1
<1>6. Body = start \o Payload
  BY DEF Body
<1> HIDE DEF start
<1> QED
  BY <1>1, <1>3, <1>4, <1>5, <1>6

\* The marker of the body is the only one in it.
LEMMA MarkerOnce ==
    ASSUME NEW j \in 1..(Len(Body) - 1), Body[j] = "mark", Body[j + 1] = "er"
    PROVE  j = 2
<1>1. CASE j <= 3
  BY <1>1, BodyUnits
<1>2. CASE j > 3
  <2>1. j - 3 \in 1..Len(Data)
    BY <1>2, BodyUnits
  <2>2. Data[j - 3] = "mark"
    <3>1. Body[(j - 3) + 3] = Data[j - 3]
      BY <2>1, BodyUnits
    <3> QED
      BY <2>1, <3>1
  <2>3. Body[j + 1] = Payload[j - 2]
    <3>1. j - 2 \in 1..Len(Payload) /\ (j - 2) + 3 = j + 1
      BY <2>1, BodyUnits
    <3> QED
      BY <3>1, BodyUnits
  <2>4. CASE j - 3 = Len(Data)
    BY <2>3, <2>4, BodyUnits
  <2>5. CASE j - 3 # Len(Data)
    <3>1. j - 3 \in 1..(Len(Data) - 1) /\ j - 2 \in 1..Len(Data) /\ (j - 3) + 1 = j - 2
      BY <2>1, <2>5, BodyUnits
    <3>2. Data[j - 2] = "er"
      BY <2>3, <3>1, BodyUnits
    <3>3. <<Data[j - 3], Data[j - 2]>> # Marker
      BY <3>1, MarkerAssumption
    <3> QED
      BY <2>2, <3>2, <3>3 DEF Marker
  <2> QED
    BY <2>4, <2>5
<1> QED
  BY <1>1, <1>2, BodyUnits

LEMMA Cut ==
    ASSUME NEW S, NEW s \in Seq(S), NEW a \in 0..Len(s), NEW k \in 0..(Len(s) - a)
    PROVE  /\ SubSeq(s, a + 1, a + k) \in Seq(S)
           /\ Len(SubSeq(s, a + 1, a + k)) = k
           /\ \A i \in 1..k : SubSeq(s, a + 1, a + k)[i] = s[a + i]
<1>1. Len(s) \in Nat /\ a \in Nat /\ k \in Nat
  BY LenProperties
<1>2. \A i \in (a + 1)..(a + k) : s[i] \in S
  BY <1>1, ElementOfSeq
<1> DEFINE m == a + 1
           n == a + k
<1>3. m \in Int /\ n \in Int /\ \A i \in m..n : s[i] \in S
  BY <1>1, <1>2
<1>4. (IF m <= n THEN n - m + 1 ELSE 0) = k /\ n - m + 1 = k
  BY <1>1
<1>5. \A i \in 1..k : m + i - 1 = a + i
  BY <1>1
<1> HIDE DEF m, n
<1>6. /\ SubSeq(s, m, n) \in Seq(S)
      /\ Len(SubSeq(s, m, n)) = IF m <= n THEN n - m + 1 ELSE 0
      /\ \A i \in 1..(n - m + 1) : SubSeq(s, m, n)[i] = s[m + i - 1]
  BY <1>3, SubSeqProperties
<1>7. \A i \in 1..k : SubSeq(s, m, n)[i] = s[a + i]
  <2> TAKE i \in 1..k
  <2>1. SubSeq(s, m, n)[i] = s[m + i - 1]
    BY <1>4, <1>6, Zenon
  <2>2. m + i - 1 = a + i
    BY <1>5, Zenon
  <2> QED
    BY <2>1, <2>2, Zenon
<1>8. Len(SubSeq(s, m, n)) = k
  BY <1>4, <1>6, Zenon
<1> QED
  BY <1>6, <1>7, <1>8, Zenon DEF m, n

LEMMA CutOfCut ==
    ASSUME NEW S, NEW s \in Seq(S), NEW a \in 0..Len(s), NEW k \in 0..(Len(s) - a),
           NEW b \in 0..k, NEW j \in 0..(k - b)
    PROVE  SubSeq(SubSeq(s, a + 1, a + k), b + 1, b + j)
               = SubSeq(s, a + b + 1, a + b + j)
<1> DEFINE t == SubSeq(s, a + 1, a + k)
           c == a + b
<1>1. /\ Len(s) \in Nat /\ a \in Nat /\ k \in Nat /\ b \in Nat /\ j \in Nat
      /\ c \in 0..Len(s) /\ j \in 0..(Len(s) - c)
  BY LenProperties
<1>2. t \in Seq(S) /\ Len(t) = k /\ \A i \in 1..k : t[i] = s[a + i]
  BY Cut, Zenon
<1> HIDE DEF t, c
<1>3. /\ SubSeq(t, b + 1, b + j) \in Seq(S)
      /\ Len(SubSeq(t, b + 1, b + j)) = j
      /\ \A i \in 1..j : SubSeq(t, b + 1, b + j)[i] = t[b + i]
  <2>1. b \in 0..Len(t) /\ j \in 0..(Len(t) - b)
    BY <1>2, Zenon
  <2> QED
    BY <1>2, <2>1, Cut, Zenon
<1>4. /\ SubSeq(s, c + 1, c + j) \in Seq(S)
      /\ Len(SubSeq(s, c + 1, c + j)) = j
      /\ \A i \in 1..j : SubSeq(s, c + 1, c + j)[i] = s[c + i]
  BY <1>1, Cut, Zenon
<1>5. \A i \in 1..j : t[b + i] = s[c + i]
  <2> TAKE i \in 1..j
  <2>1. b + i \in 1..k /\ a + (b + i) = c + i
    BY <1>1 DEF c
  <2>2. t[b + i] = s[a + (b + i)]
    BY <1>2, <2>1, Zenon
  <2> QED
    BY <2>1, <2>2, Zenon
<1>6. \A i \in 1..j : SubSeq(t, b + 1, b + j)[i] = SubSeq(s, c + 1, c + j)[i]
  BY <1>3, <1>4, <1>5, Zenon
<1>7. SubSeq(t, b + 1, b + j) = SubSeq(s, c + 1, c + j)
  BY <1>3, <1>4, <1>6, SeqEqual, Zenon
<1> QED
  BY <1>7, Zenon DEF t, c

\* What recv returns, and what is left, when p units have come already.
LEMMA Received ==
    ASSUME NEW p \in 0..Len(Body), NEW n \in 0..(Len(Body) - p),
           NEW left, left = SubSeq(Body, p + 1, Len(Body))
    PROVE  /\ Len(left) = Len(Body) - p
           /\ SubSeq(left, 1, n) = SubSeq(Body, p + 1, p + n)
           /\ SubSeq(left, n + 1, Len(left)) = SubSeq(Body, p + n + 1, Len(Body))
<1> DEFINE k == Len(Body) - p
<1>1. Len(Body) \in Nat /\ p \in Nat /\ n \in Nat
  BY BodyUnits
<1>2. k \in 0..(Len(Body) - p) /\ p + k = Len(Body)
      /\ 0 \in 0..k /\ n \in 0..k /\ n \in 0..(k - 0) /\ k - n \in 0..(k - n)
  BY <1>1
<1> HIDE DEF k
<1>3. left = SubSeq(Body, p + 1, p + k)
  BY <1>2, Zenon
<1>b. Body \in Seq(Units)
  BY BodyUnits
<1>4. Len(left) = k
  BY <1>b, <1>2, <1>3, Cut
<1>5. SubSeq(left, 0 + 1, 0 + n) = SubSeq(Body, p + 0 + 1, p + 0 + n)
  BY <1>b, <1>2, <1>3, CutOfCut
<1>6. SubSeq(left, n + 1, n + (k - n)) = SubSeq(Body, p + n + 1, p + n + (k - n))
  BY <1>b, <1>2, <1>3, CutOfCut
<1>7. 0 + 1 = 1 /\ 0 + n = n /\ p + 0 + 1 = p + 1 /\ p + 0 + n = p + n
      /\ n + (k - n) = k /\ p + n + (k - n) = Len(Body)
  BY <1>1, <1>2
<1>8. SubSeq(left, 1, n) = SubSeq(Body, p + 1, p + n)
  BY <1>5, <1>7, Zenon
<1>9. SubSeq(left, n + 1, k) = SubSeq(Body, p + n + 1, Len(Body))
  BY <1>6, <1>7, Zenon
<1> QED
  BY <1>4, <1>8, <1>9 DEF k

\* After the marker the body is the payload.
LEMMA AfterMarker ==
    ASSUME NEW b \in 0..Len(Payload), NEW j \in 0..(Len(Payload) - b)
    PROVE  SubSeq(Body, b + 4, b + 3 + j) = SubSeq(Payload, b + 1, b + j)
<1> DEFINE k == Len(Payload)
<1>1. Len(Body) \in Nat /\ k \in Nat /\ b \in Nat /\ j \in Nat /\ Len(Body) = k + 3
  BY BodyUnits
<1>2. 3 \in 0..Len(Body) /\ k \in 0..(Len(Body) - 3)
  BY <1>1
<1>b. Body \in Seq(Units)
  BY BodyUnits
<1>3. SubSeq(Body, 3 + 1, 3 + k) = Payload
  <2> DEFINE t == SubSeq(Body, 3 + 1, 3 + k)
  <2>1. t \in Seq(Units) /\ Len(t) = k /\ \A i \in 1..k : t[i] = Body[3 + i]
    <3> HIDE DEF k
    <3> QED
      BY <1>2, <1>b, Cut
  <2>2. \A i \in 1..k : 3 + i = i + 3
    BY <1>1
  <2> HIDE DEF t
  <2>3. \A i \in 1..k : t[i] = Payload[i]
    BY <2>1, <2>2, BodyUnits, Zenon
  <2>4. t = Payload
    BY <2>1, <2>3, BodyUnits, SeqEqual, Zenon
  <2> QED
    BY <2>4 DEF t
<1>4. b \in 0..k /\ j \in 0..(k - b)
  OBVIOUS
<1>5. 3 + b + 1 = b + 4 /\ 3 + b + j = b + 3 + j
  BY <1>1
<1> HIDE DEF k
<1>6. SubSeq(SubSeq(Body, 3 + 1, 3 + k), b + 1, b + j)
          = SubSeq(Body, 3 + b + 1, 3 + b + j)
  BY <1>2, <1>4, <1>b, CutOfCut
<1> QED
  BY <1>3, <1>5, <1>6, Zenon

--------------------------------------------------------------------------------
(***************************************************************************)
(* What one buffer adds to the flash.                                      *)
(***************************************************************************)
LEMMA MinOfTwo ==
    ASSUME NEW a \in Int, NEW b \in Int
    PROVE  Min({a, b}) = IF a <= b THEN a ELSE b
<1>1. \E x \in {a, b} : \A y \in {a, b} : x <= y
  <2>1. CASE a <= b
    BY <2>1
  <2>2. CASE b <= a
    BY <2>2
  <2> QED
    BY <2>1, <2>2
<1>2. Min({a, b}) \in {a, b} /\ \A y \in {a, b} : Min({a, b}) <= y
  BY <1>1, Zenon DEF Min
<1> QED
  BY <1>2

\* The buffer with the marker brings the first of the payload.
LEMMA FirstBuffer ==
    ASSUME NEW p \in 0..Len(Body), NEW n \in 0..(Len(Body) - p),
           NEW buffer, buffer = SubSeq(Body, p + 1, p + n),
           MarkerEnds(buffer) # {}
    PROVE  /\ p <= 1 /\ p + n >= 3
           /\ SubSeq(buffer, Min(MarkerEnds(buffer)) + 1, Len(buffer))
                  = SubSeq(Payload, 1, p + n - 3)
<1>b. Body \in Seq(Units) /\ Len(Body) \in Nat /\ Len(Body) = Len(Payload) + 3
      /\ Len(Payload) \in Nat /\ p \in Nat /\ n \in Nat
  BY BodyUnits
<1>1. buffer \in Seq(Units) /\ Len(buffer) = n /\ \A i \in 1..n : buffer[i] = Body[p + i]
  BY <1>b, Cut
<1>2. ASSUME NEW i \in 1..(Len(buffer) - 1), SubSeq(buffer, i, i + 1) = Marker
      PROVE  p + i = 2 /\ i + 1 <= n /\ i >= 1
  <2>1. i - 1 \in 0..Len(buffer) /\ 2 \in 0..(Len(buffer) - (i - 1))
        /\ (i - 1) + 1 = i /\ (i - 1) + 2 = i + 1
    BY <1>1, <1>b
  <2>2. \A j \in 1..2 : SubSeq(buffer, (i - 1) + 1, (i - 1) + 2)[j] = buffer[(i - 1) + j]
    BY <1>1, <2>1, Cut
  <2>3. Marker[1] = buffer[i] /\ Marker[2] = buffer[i + 1]
    <3>1. 1 \in 1..2 /\ 2 \in 1..2 /\ (i - 1) + 1 = i /\ (i - 1) + 2 = i + 1
      BY <2>1
    <3> QED
      BY <1>2, <2>2, <3>1, Zenon
  <2>4. p + i \in 1..(Len(Body) - 1) /\ p + (i + 1) = (p + i) + 1
    BY <1>1, <1>b
  <2>5. Body[p + i] = "mark" /\ Body[(p + i) + 1] = "er"
    BY <1>1, <1>b, <2>3, <2>4 DEF Marker
  <2> QED
    BY <1>1, <1>b, <2>4, <2>5, MarkerOnce
<1>3. PICK e : e \in MarkerEnds(buffer)
  OBVIOUS
<1>4. \A x \in MarkerEnds(buffer) : x = 3 - p /\ x <= n /\ x >= 2
  <2> TAKE x \in MarkerEnds(buffer)
  <2>1. PICK i \in 1..(Len(buffer) - 1) :
            x = i + 1 /\ SubSeq(buffer, i, i + 1) = Marker
    BY DEF MarkerEnds
  <2>2. p + i = 2 /\ i + 1 <= n /\ i >= 1
    BY <1>2, <2>1, Zenon
  <2> QED
    BY <1>b, <2>1, <2>2
<1>5. p <= 1 /\ p + n >= 3 /\ 3 - p \in MarkerEnds(buffer)
  BY <1>3, <1>4, <1>b
<1>6. Min(MarkerEnds(buffer)) = 3 - p
  <2>1. MarkerEnds(buffer) = {3 - p} /\ 3 - p \in Int
    BY <1>4, <1>5, <1>b
  <2>2. {3 - p} = {3 - p, 3 - p}
    OBVIOUS
  <2> QED
    BY <2>1, <2>2, MinOfTwo
<1> DEFINE b == 3 - p
           j == n - b
<1>7. b \in 0..n /\ j \in 0..(n - b) /\ b + j = n /\ p + b + 1 = 4 /\ p + b + j = 3 + j
      /\ j = p + n - 3 /\ 0 \in 0..Len(Payload) /\ j \in 0..(Len(Payload) - 0)
      /\ 0 + 4 = 4 /\ 0 + 3 + j = 3 + j /\ 0 + 1 = 1 /\ 0 + j = j
  BY <1>5, <1>b
<1> HIDE DEF b, j
<1>8. SubSeq(buffer, b + 1, b + j) = SubSeq(Body, p + b + 1, p + b + j)
  BY <1>b, <1>7, CutOfCut
<1>9. SubSeq(Body, 0 + 4, 0 + 3 + j) = SubSeq(Payload, 0 + 1, 0 + j)
  BY <1>7, AfterMarker
<1>10. SubSeq(buffer, b + 1, n) = SubSeq(Payload, 1, j)
  BY <1>7, <1>8, <1>9, Zenon
<1>11. Min(MarkerEnds(buffer)) = b
  BY <1>6 DEF b
<1> QED
  BY <1>1, <1>5, <1>7, <1>10, <1>11, Zenon

\* How much of k units of the payload the partition holds.
Kept(k) == IF bUploadingGame /\ GameSize < k THEN GameSize ELSE k

\* A later buffer brings the next of it, as much as there is room for.
LEMMA LaterBuffer ==
    ASSUME NEW p \in 3..Len(Body), NEW n \in 0..(Len(Body) - p), n <= MaxRecv,
           NEW buffer, buffer = SubSeq(Body, p + 1, p + n),
           NEW content, content = SubSeq(Payload, 1, Kept(p - 3))
    PROVE  Written(content, buffer) = SubSeq(Payload, 1, Kept(p + n - 3))
<1>b. Body \in Seq(Units) /\ Len(Body) \in Nat /\ Len(Body) = Len(Payload) + 3
      /\ Payload \in Seq(Units) /\ Len(Payload) \in Nat
      /\ p \in Nat /\ n \in Nat /\ p \in 0..Len(Body)
  BY BodyUnits
<1>c. GameSize \in Nat /\ MaxRecv \in Nat
  BY SizeAssumption
<1> DEFINE k == Kept(p - 3)
           m == Min({Len(buffer), Room(content)})
<1>1. buffer \in Seq(Units) /\ Len(buffer) = n
  BY <1>b, Cut
<1>2. k \in Nat /\ k \in 0..Len(Payload)
  BY <1>b, <1>c DEF Kept
<1>3. Len(content) = k
  <2>1. 0 \in 0..Len(Payload) /\ k \in 0..(Len(Payload) - 0) /\ 0 + 1 = 1 /\ 0 + k = k
    BY <1>b, <1>2
  <2> HIDE DEF k
  <2>2. Len(SubSeq(Payload, 0 + 1, 0 + k)) = k
    BY <1>b, <2>1, Cut
  <2>3. content = SubSeq(Payload, 1, k)
    BY DEF k
  <2> QED
    BY <2>1, <2>2, <2>3
<1>4. Room(content) = IF bUploadingGame THEN GameSize - k ELSE MaxRecv
  BY <1>3 DEF Room
<1>5. m = IF n <= Room(content) THEN n ELSE Room(content)
  <2>1. Room(content) \in Int
    BY <1>2, <1>4, <1>c
  <2> DEFINE room == Room(content)
  <2>2. n \in Int
    BY <1>b
  <2>5. m = Min({n, room})
    BY <1>1, Zenon
  <2> HIDE DEF m, room
  <2>3. room \in Int
    BY <2>1 DEF room
  <2>4. Min({n, room}) = IF n <= room THEN n ELSE room
    BY <2>2, <2>3, MinOfTwo
  <2> QED
    BY <2>4, <2>5, Zenon DEF room
<1>6. m \in 0..n /\ (m = 0 \/ k = p - 3) /\ k + m = Kept(p + n - 3)
  <2>1. CASE bUploadingGame /\ GameSize < p - 3
    <3>1. k = GameSize /\ m = 0 /\ Kept(p + n - 3) = GameSize
      BY <2>1, <1>4, <1>5, <1>b, <1>c DEF Kept
    <3> QED
      BY <3>1, <1>b, <1>c
  <2>2. CASE bUploadingGame /\ ~(GameSize < p - 3)
    <3>1. k = p - 3
      BY <2>2 DEF Kept
    <3>2. m = IF n <= GameSize - k THEN n ELSE GameSize - k
      BY <2>2, <1>4, <1>5
    <3>3. Kept(p + n - 3) = IF GameSize < p + n - 3 THEN GameSize ELSE p + n - 3
      BY <2>2 DEF Kept
    <3> HIDE DEF k, m
    <3> QED
      BY <2>2, <3>1, <3>2, <3>3, <1>b, <1>c
  <2>3. CASE ~bUploadingGame
    <3>1. k = p - 3 /\ Kept(p + n - 3) = p + n - 3
      BY <2>3 DEF Kept
    <3>2. m = n
      BY <2>3, <1>4, <1>5
    <3> HIDE DEF k, m
    <3> QED
      BY <3>1, <3>2, <1>b
  <2> QED
    BY <2>1, <2>2, <2>3
<1> HIDE DEF k, m
<1>7. content \o SubSeq(buffer, 1, m) = SubSeq(Payload, 1, k + m)
  <2>1. CASE m = 0
    <3>1. SubSeq(buffer, 1, m) = <<>> /\ k + m = k
      BY <1>2, <2>1, SubSeqEmpty
    <3>2. content = SubSeq(Payload, 1, k)
      BY DEF k
    <3>3. content \in Seq(Units)
      <4>1. 0 \in 0..Len(Payload) /\ k \in 0..(Len(Payload) - 0) /\ 0 + 1 = 1 /\ 0 + k = k
        BY <1>b, <1>2
      <4>2. SubSeq(Payload, 0 + 1, 0 + k) \in Seq(Units)
        BY <1>b, <4>1, Cut
      <4> QED
        BY <3>2, <4>1, <4>2
    <3>4. content \o <<>> = content
      BY <3>3, ConcatEmptySeq
    <3> QED
      BY <3>1, <3>2, <3>4, Zenon
  <2>2. CASE k = p - 3
    <3>1. 0 \in 0..n /\ m \in 0..(n - 0) /\ 0 + 1 = 1 /\ 0 + m = m
          /\ p + 0 + 1 = p + 1 /\ p + 0 + m = p + m
          /\ k + 4 = p + 1 /\ k + 3 + m = p + m
          /\ k \in 0..Len(Payload) /\ m \in 0..(Len(Payload) - k)
          /\ 1 \in 1..(Len(Payload) + 1) /\ k \in (1 - 1)..Len(Payload)
          /\ k + m \in k..Len(Payload)
      BY <1>2, <1>6, <1>b, <2>2
    <3>2. SubSeq(buffer, 0 + 1, 0 + m) = SubSeq(Body, p + 0 + 1, p + 0 + m)
      BY <1>b, <3>1, CutOfCut
    <3>3. SubSeq(Body, k + 4, k + 3 + m) = SubSeq(Payload, k + 1, k + m)
      BY <3>1, AfterMarker
    <3>4. SubSeq(buffer, 1, m) = SubSeq(Payload, k + 1, k + m)
      BY <3>1, <3>2, <3>3, Zenon
    <3>5. SubSeq(Payload, 1, k) \o SubSeq(Payload, k + 1, k + m) = SubSeq(Payload, 1, k + m)
      BY <1>b, <3>1, ConcatAdjacentSubSeq
    <3>6. content = SubSeq(Payload, 1, k)
      BY DEF k
    <3> QED
      BY <3>4, <3>5, <3>6, Zenon
  <2> QED
    BY <1>6, <2>1, <2>2
<1>8. Written(content, buffer) = content \o SubSeq(buffer, 1, m)
  BY DEF Written, m
<1> QED
  BY <1>6, <1>7, <1>8, Zenon

--------------------------------------------------------------------------------
(***************************************************************************)
(* What has come of the body, and what of it is in the flash.              *)
(***************************************************************************)
HandlerTypes ==
    /\ http \in {"accept", "stopping1", "stopping2", "receiving", "updated"}
    /\ bUploadingGame \in BOOLEAN
    /\ Length \in 0..Len(Body)
    /\ bWaitingForStart \in BOOLEAN
    /\ ErrorCode \in {"ok", "failed"}
    /\ boots \in BOOLEAN
    /\ response \in {"none", "successful", "failed"}

\* p units of the body have come; the handler expects the rest, or more, unless it was
\* not told how much would come.
Progress(p) ==
    /\ rest = SubSeq(Body, p + 1, Len(Body))
    /\ (Length = 0 /\ bWaitingForStart) \/ Length >= Len(Body) - p
    /\ ~bWaitingForStart =>
          /\ p >= 3
          /\ ErrorCode = "ok" => flash = SubSeq(Payload, 1, Kept(p - 3))

\* What was written is the first of the payload, written without a gap.
FlashIsFirst == \E k \in 0..Len(Payload) : flash = SubSeq(Payload, 1, k)

Reported ==
    /\ response = "successful" => http = "updated"
    /\ http = "updated" => Length = 0 /\ ~bWaitingForStart /\ ErrorCode = "ok"

BodyInv ==
    /\ HandlerTypes
    /\ \E p \in 0..Len(Body) : Progress(p)
    /\ FlashIsFirst
    /\ Reported

LEMMA EmptyPieces ==
    /\ <<>> = SubSeq(Body, Len(Body) + 1, Len(Body))
    /\ <<>> = SubSeq(Payload, 1, 0)
BY BodyUnits, SubSeqEmpty

LEMMA NothingYet ==
    ASSUME rest = <<>>, Length = 0, bWaitingForStart = TRUE, flash = <<>>
    PROVE  (\E p \in 0..Len(Body) : Progress(p)) /\ FlashIsFirst
<1>1. Len(Body) \in 0..Len(Body) /\ 0 \in 0..Len(Payload)
  BY BodyUnits
<1>2. Progress(Len(Body))
  BY EmptyPieces DEF Progress
<1> QED
  BY <1>1, <1>2, EmptyPieces DEF FlashIsFirst

LEMMA ReceiveStep ==
    ASSUME BodyInv, NEW n \in 1..MaxRecv, NEW ok \in BOOLEAN, ReceiveBuffer(n, ok)
    PROVE  BodyInv'
<1>b. Len(Body) \in Nat /\ Len(Body) = Len(Payload) + 3 /\ Len(Payload) \in Nat
  BY BodyUnits
<1>c. GameSize \in Nat /\ MaxRecv \in Nat /\ MaxRecv <= GameSize + 2 /\ n \in Nat /\ n >= 1
  BY SizeAssumption
<1>1. PICK p \in 0..Len(Body) : Progress(p)
  BY DEF BodyInv
<1>2. Len(rest) = Len(Body) - p
  <2>1. 0 \in 0..(Len(Body) - p)
    BY <1>b
  <2> QED
    BY <1>1, <2>1, Received DEF Progress
<1>3. n \in 0..(Len(Body) - p) /\ p + n \in 0..Len(Body)
  BY <1>2, <1>b, <1>c DEF ReceiveBuffer
<1>4. /\ SubSeq(rest, 1, n) = SubSeq(Body, p + 1, p + n)
      /\ rest' = SubSeq(Body, (p + n) + 1, Len(Body))
  BY <1>1, <1>3, Received DEF Progress, ReceiveBuffer
<1> DEFINE buffer == SubSeq(Body, p + 1, p + n)
<1>5. ProcessBuffer(buffer, ok)
  BY <1>4 DEF ReceiveBuffer
<1>6. /\ Length > 0 /\ Length' = Length - n /\ http = "receiving"
      /\ UNCHANGED <<http, bUploadingGame, response>>
  BY DEF ReceiveBuffer
<1>7. Length >= Len(Body) - p /\ Length \in 0..Len(Body)
  BY <1>1, <1>6 DEF Progress, BodyInv, HandlerTypes
<1>8. Length' \in 0..Len(Body) /\ Length' >= Len(Body) - (p + n)
  BY <1>3, <1>6, <1>7, <1>b, <1>c
<1>9. \A k \in Nat : Kept(k)' = Kept(k)
  BY <1>6 DEF Kept
<1> HIDE DEF buffer
<1>10. /\ bWaitingForStart' \in BOOLEAN /\ ErrorCode' \in {"ok", "failed"} /\ boots' = boots
       /\ ~bWaitingForStart' =>
             /\ p + n >= 3
             /\ ErrorCode' = "ok" => flash' = SubSeq(Payload, 1, Kept((p + n) - 3))
       /\ FlashIsFirst'
  <2>f. \A k \in Nat : k <= Len(Payload) => Kept(k) \in 0..Len(Payload)
    BY <1>b, <1>c DEF Kept
  <2>g. ASSUME p + n >= 3, flash' = SubSeq(Payload, 1, Kept((p + n) - 3))
        PROVE  FlashIsFirst'
    <3>1. Kept((p + n) - 3) \in 0..Len(Payload)
      BY <1>3, <1>b, <1>c, <2>g, <2>f
    <3>2. Payload' = Payload
      BY DEF Payload
    <3> QED
      BY <2>g, <3>1, <3>2, Zenon DEF FlashIsFirst
  <2>h. ASSUME flash' = flash PROVE FlashIsFirst'
    <3>1. Payload' = Payload
      BY DEF Payload
    <3> QED
      BY <2>h, <3>1 DEF BodyInv, FlashIsFirst
  <2>t. bWaitingForStart \in BOOLEAN /\ ErrorCode \in {"ok", "failed"}
    BY DEF BodyInv, HandlerTypes
  <2>1. CASE bWaitingForStart /\ MarkerEnds(buffer) = {}
    <3>1. UNCHANGED <<bWaitingForStart, ErrorCode, flash, boots>>
      BY <1>5, <2>1 DEF ProcessBuffer
    <3> QED
      BY <2>1, <2>h, <2>t, <3>1
  <2>2. CASE bWaitingForStart /\ MarkerEnds(buffer) # {}
    <3> DEFINE data == SubSeq(buffer, Min(MarkerEnds(buffer)) + 1, Len(buffer))
    <3>1. /\ bWaitingForStart' = FALSE
          /\ ErrorCode' = IF ok THEN "ok" ELSE "failed"
          /\ flash' = IF ok THEN data ELSE <<>>
          /\ UNCHANGED boots
      BY <1>5, <2>2 DEF ProcessBuffer
    <3>2. p <= 1 /\ p + n >= 3 /\ data = SubSeq(Payload, 1, p + n - 3)
      BY <1>3, <2>2, FirstBuffer DEF buffer
    <3>3. Kept((p + n) - 3) = p + n - 3
      BY <3>2, <1>b, <1>c DEF Kept
    <3>4. CASE ok
      <4>1. flash' = SubSeq(Payload, 1, Kept((p + n) - 3))
        BY <3>1, <3>2, <3>3, <3>4
      <4> QED
        BY <2>g, <3>1, <3>2, <3>4, <4>1
    <3>5. CASE ~ok
      <4>1. flash' = SubSeq(Payload, 1, 0) /\ 0 \in 0..Len(Payload)
        BY <1>b, <3>1, <3>5, EmptyPieces
      <4>2. FlashIsFirst'
        <5>1. Payload' = Payload
          BY DEF Payload
        <5> QED
          BY <4>1, <5>1 DEF FlashIsFirst
      <4> QED
        BY <3>1, <3>2, <3>5, <4>2
    <3> QED
      BY <3>4, <3>5
  <2>3. CASE ~bWaitingForStart
    <3>1. p >= 3 /\ (ErrorCode = "ok" => flash = SubSeq(Payload, 1, Kept(p - 3)))
      BY <1>1, <2>3 DEF Progress
    <3>2. UNCHANGED <<bWaitingForStart, boots>> /\ p + n >= 3
      BY <1>5, <1>c, <2>3, <3>1 DEF ProcessBuffer
    <3>3. CASE ErrorCode = "ok" /\ ok
      <4>1. ErrorCode' = "ok" /\ flash' = Written(flash, buffer)
        BY <1>5, <2>3, <3>3 DEF ProcessBuffer
      <4>2. p \in 3..Len(Body) /\ n <= MaxRecv /\ p + n - 3 = (p + n) - 3
        BY <1>b, <3>1
      <4>3. flash' = SubSeq(Payload, 1, Kept((p + n) - 3))
        <5>1. flash = SubSeq(Payload, 1, Kept(p - 3))
          BY <3>1, <3>3
        <5>2. Written(flash, buffer) = SubSeq(Payload, 1, Kept(p + n - 3))
          BY <1>3, <4>2, <5>1, LaterBuffer, Zenon DEF buffer
        <5> QED
          BY <4>1, <4>2, <5>2, Zenon
      <4> QED
        BY <2>3, <2>g, <2>t, <3>2, <4>1, <4>3
    <3>4. CASE ErrorCode = "ok" /\ ~ok
      <4>1. ErrorCode' = "failed" /\ flash' = flash
        BY <1>5, <2>3, <3>4 DEF ProcessBuffer
      <4> QED
        BY <2>3, <2>h, <2>t, <3>2, <4>1
    <3>5. CASE ErrorCode # "ok"
      <4>1. ErrorCode' = ErrorCode /\ flash' = flash
        BY <1>5, <2>3, <3>5 DEF ProcessBuffer
      <4> QED
        BY <2>3, <2>h, <2>t, <3>2, <3>5, <4>1
    <3> QED
      BY <3>3, <3>4, <3>5
  <2> QED
    BY <2>1, <2>2, <2>3, <2>t
<1>11. HandlerTypes'
  <2>1. Body' = Body
    BY DEF Body, Marker, Payload
  <2> QED
    BY <1>6, <1>8, <1>10, <2>1 DEF BodyInv, HandlerTypes
<1>12. Progress(p + n)'
  <2>1. Body' = Body /\ Payload' = Payload
    BY DEF Body, Marker, Payload
  <2>2. ~bWaitingForStart' => Kept((p + n) - 3)' = Kept((p + n) - 3)
    BY <1>3, <1>9, <1>10, <1>b, <1>c
  <2> QED
    BY <1>4, <1>8, <1>10, <2>1, <2>2 DEF Progress
<1>13. Reported'
  BY <1>6 DEF BodyInv, Reported
<1> QED
  <2>1. Body' = Body
    BY DEF Body, Marker, Payload
  <2> QED
    BY <1>3, <1>10, <1>11, <1>12, <1>13, <2>1 DEF BodyInv

LEMMA BodyStep ==
    ASSUME BodyInv, [Next]_vars PROVE BodyInv'
<1>b. Len(Body) \in Nat /\ 0 \in 0..Len(Body) /\ 1 \in 0..Len(Body)
  BY BodyUnits
<1>c. Body' = Body /\ Payload' = Payload
  BY DEF Body, Marker, Payload
<1> DEFINE received == <<rest, Length, bWaitingForStart, flash, bUploadingGame>>
<1>k. ASSUME UNCHANGED received, ErrorCode' = "ok" => ErrorCode = "ok"
      PROVE  (\E p \in 0..Len(Body) : Progress(p))' /\ FlashIsFirst'
  <2>1. PICK p \in 0..Len(Body) : Progress(p)
    BY DEF BodyInv
  <2>2. Kept(p - 3)' = Kept(p - 3)
    BY <1>k DEF Kept
  <2>3. Progress(p)'
    BY <1>c, <1>k, <2>1, <2>2 DEF Progress
  <2>4. FlashIsFirst'
    BY <1>c, <1>k DEF BodyInv, FlashIsFirst
  <2> QED
    BY <1>c, <2>3, <2>4
<1>1. ASSUME UNCHANGED uploadVars PROVE BodyInv'
  <2>1. HandlerTypes' /\ Reported'
    BY <1>1, <1>c DEF uploadVars, BodyInv, HandlerTypes, Reported
  <2>2. UNCHANGED received /\ ErrorCode' = ErrorCode
    BY <1>1 DEF uploadVars
  <2> QED
    BY <1>k, <2>1, <2>2 DEF BodyInv
<1>2. ASSUME NEW game \in BOOLEAN, NEW early \in 0..1, NEW length \in {0, Len(Body)},
             AcceptUpload(game, early, length)
      PROVE  BodyInv'
  <2>1. /\ http' = "stopping1" /\ bUploadingGame' = game
        /\ rest' = SubSeq(Body, early + 1, Len(Body)) /\ Length' = length
        /\ bWaitingForStart' = TRUE /\ ErrorCode' = "ok" /\ response' = "none"
        /\ UNCHANGED <<flash, boots>>
    BY <1>2 DEF AcceptUpload
  <2>2. HandlerTypes'
    BY <1>b, <1>c, <2>1 DEF BodyInv, HandlerTypes
  <2>3. Length' = 0 \/ Length' >= Len(Body) - early
    BY <1>b, <2>1
  <2>4. Progress(early)'
    BY <1>b, <1>c, <2>1, <2>3 DEF Progress
  <2>5. FlashIsFirst' /\ Reported'
    BY <1>c, <2>1 DEF BodyInv, FlashIsFirst, Reported
  <2>6. early \in 0..Len(Body)
    BY <1>b
  <2> QED
    BY <1>c, <2>2, <2>4, <2>5, <2>6 DEF BodyInv
<1>3. CASE WaitForTask1 \/ WaitForTask2
  <2>1. /\ UNCHANGED received
        /\ UNCHANGED <<ErrorCode, boots, response>>
        /\ http \notin {"updated"} /\ http' \in {"stopping2", "receiving"}
    BY <1>3 DEF WaitForTask1, WaitForTask2
  <2>2. HandlerTypes' /\ Reported'
    BY <2>1, <1>c DEF BodyInv, HandlerTypes, Reported
  <2> QED
    BY <1>k, <2>1, <2>2 DEF BodyInv
<1>4. ASSUME NEW n \in 1..MaxRecv, NEW ok \in BOOLEAN, ReceiveBuffer(n, ok)
      PROVE  BodyInv'
  BY <1>4, ReceiveStep
<1>5. CASE Conclude
  <2> DEFINE error == IF bUploadingGame \/ OtaEnd THEN ErrorCode ELSE "failed"
  <2>1. /\ ErrorCode' = error
        /\ boots' = (boots \/ (~bUploadingGame /\ error = "ok"))
        /\ response' = IF Success(error) THEN "successful" ELSE "failed"
        /\ http' = IF Success(error) THEN "updated" ELSE "accept"
        /\ UNCHANGED received
    BY <1>5 DEF Conclude
  <2>2. error \in {"ok", "failed"} /\ (error = "ok" => ErrorCode = "ok")
    BY DEF BodyInv, HandlerTypes
  <2> HIDE DEF error
  <2>3. boots' \in BOOLEAN
    BY <2>1
  <2>4. HandlerTypes'
    BY <1>c, <2>1, <2>2, <2>3 DEF BodyInv, HandlerTypes
  <2>5. Reported'
    BY <2>1 DEF Reported, Success
  <2> QED
    BY <1>k, <2>1, <2>2, <2>4, <2>5 DEF BodyInv
<1>6. CASE Restart
  <2>1. /\ http' = "accept" /\ bUploadingGame' = FALSE /\ rest' = <<>> /\ Length' = 0
        /\ bWaitingForStart' = TRUE /\ ErrorCode' = "ok" /\ flash' = <<>>
        /\ boots' = FALSE /\ response' = "none"
    BY <1>6 DEF Restart
  <2>2. HandlerTypes' /\ Reported'
    BY <1>b, <1>c, <2>1 DEF HandlerTypes, Reported
  <2>3. (\E p \in 0..Len(Body) : Progress(p))' /\ FlashIsFirst'
    <3>1. Progress(Len(Body))'
      BY <1>c, <2>1, EmptyPieces DEF Progress
    <3>2. Len(Body) \in 0..Len(Body) /\ 0 \in 0..Len(Payload)
      BY BodyUnits
    <3> QED
      BY <1>c, <2>1, <3>1, <3>2, EmptyPieces DEF FlashIsFirst
  <2> QED
    BY <2>2, <2>3 DEF BodyInv
<1>7. CASE UNCHANGED vars
  BY <1>1, <1>7 DEF vars
<1> QED
  BY <1>1, <1>2, <1>3, <1>4, <1>5, <1>6, <1>7 DEF Next, Upload, AllReceived, ClientGone

LEMMA InitialBody == Init => BodyInv
<1>1. 0 \in 0..Len(Body)
  BY BodyUnits
<1> SUFFICES ASSUME Init PROVE BodyInv
  OBVIOUS
<1>2. HandlerTypes /\ Reported
  <2>1. /\ http = "accept" /\ bUploadingGame = FALSE /\ Length = 0
        /\ bWaitingForStart = TRUE /\ ErrorCode = "ok" /\ boots = FALSE
        /\ response = "none"
    BY DEF Init
  <2> QED
    BY <1>1, <2>1 DEF HandlerTypes, Reported
<1>3. (\E p \in 0..Len(Body) : Progress(p)) /\ FlashIsFirst
  BY NothingYet DEF Init
<1> QED
  BY <1>2, <1>3 DEF BodyInv

THEOREM BodyInvariant == Spec => []BodyInv
BY InitialBody, BodyStep, PTL DEF Spec

LEMMA WholeBody == BodyInv => SuccessIsWhole
<1> SUFFICES ASSUME BodyInv, response = "successful"
             PROVE  IF bUploadingGame
                    THEN flash = SubSeq(Payload, 1, Min({GameSize, Len(Payload)}))
                    ELSE flash = Payload
  BY DEF SuccessIsWhole
<1>b. Len(Body) = Len(Payload) + 3 /\ Len(Payload) \in Nat /\ Payload \in Seq(Units)
  BY BodyUnits
<1>c. GameSize \in Int
  BY SizeAssumption
<1>1. Length = 0 /\ ~bWaitingForStart /\ ErrorCode = "ok"
  BY DEF BodyInv, Reported
<1>2. PICK p \in 0..Len(Body) : Progress(p)
  BY DEF BodyInv
<1>3. p = Len(Body) /\ p - 3 = Len(Payload)
  BY <1>1, <1>2, <1>b DEF Progress
<1>4. flash = SubSeq(Payload, 1, Kept(Len(Payload)))
  <2>1. flash = SubSeq(Payload, 1, Kept(p - 3))
    BY <1>1, <1>2 DEF Progress
  <2> QED
    BY <1>3, <2>1
<1>5. CASE bUploadingGame
  <2> DEFINE k == Len(Payload)
  <2>1. k \in Int
    BY <1>b
  <2> HIDE DEF k
  <2>2. Min({GameSize, k}) = IF GameSize <= k THEN GameSize ELSE k
    BY <1>c, <2>1, MinOfTwo
  <2>3. Kept(k) = IF GameSize < k THEN GameSize ELSE k
    BY <1>5 DEF Kept
  <2>4. Kept(k) = Min({GameSize, k})
    <3> DEFINE least == Min({GameSize, k})
    <3> HIDE DEF least
    <3>1. least = IF GameSize <= k THEN GameSize ELSE k
      BY <2>2 DEF least
    <3>2. Kept(k) = least
      BY <1>c, <2>1, <2>3, <3>1
    <3> QED
      BY <3>2 DEF least
  <2>5. flash = SubSeq(Payload, 1, Min({GameSize, Len(Payload)}))
    BY <1>4, <2>4, Zenon DEF k
  <2> QED
    BY <1>5, <2>5
<1>6. CASE ~bUploadingGame
  <2>1. Kept(Len(Payload)) = Len(Payload)
    BY <1>6 DEF Kept
  <2>2. SubSeq(Payload, 1, Len(Payload)) = Payload
    BY <1>b, SubSeqFull
  <2> QED
    BY <1>4, <1>6, <2>1, <2>2
<1> QED
  BY <1>5, <1>6

\* What the client is told is successful is whole: the image for firmware, and all of
\* what was sent that the partition holds for a game, however the buffers fell and
\* whatever was tried before (main.cpp 308-313).
THEOREM SuccessAlwaysWhole == Spec => []SuccessIsWhole
BY BodyInvariant, WholeBody, PTL

--------------------------------------------------------------------------------
(***************************************************************************)
(* Types.                                                                  *)
(***************************************************************************)
LEMMA CutIsPrefix ==
    ASSUME NEW k \in 0..Len(Payload)
    PROVE  IsPrefix(SubSeq(Payload, 1, k), Payload)
<1>b. Payload \in Seq(Units) /\ Len(Payload) \in Nat
  BY BodyUnits
<1>1. 0 \in 0..Len(Payload) /\ k \in 0..(Len(Payload) - 0) /\ 0 \in 0..k /\ k \in 0..(k - 0)
      /\ 0 + 1 = 1 /\ 0 + k = k /\ 0 + 0 + 1 = 1 /\ 0 + 0 + k = k /\ k <= Len(Payload)
  BY <1>b
<1>2. Len(SubSeq(Payload, 0 + 1, 0 + k)) = k
  BY <1>b, <1>1, Cut
<1>3. SubSeq(SubSeq(Payload, 0 + 1, 0 + k), 0 + 1, 0 + k)
          = SubSeq(Payload, 0 + 0 + 1, 0 + 0 + k)
  BY <1>b, <1>1, CutOfCut
<1> QED
  BY <1>1, <1>2, <1>3, Zenon DEF IsPrefix

LEMMA ReverseUnits ==
    ASSUME NEW s \in Seq(Units)
    PROVE  /\ Reverse(s) \in Seq(Units) /\ Len(Reverse(s)) = Len(s)
           /\ \A i \in 1..Len(s) : Reverse(s)[i] = s[(Len(s) - i) + 1]
<1>1. Len(s) \in Nat
  BY LenProperties
<1>2. \A i \in 1..Len(s) : s[(Len(s) - i) + 1] \in Units
  BY <1>1, ElementOfSeq
<1>3. Reverse(s) = [i \in 1..Len(s) |-> s[(Len(s) - i) + 1]]
  BY DEF Reverse
<1>4. Reverse(s) \in [1..Len(s) -> Units]
  BY <1>2, <1>3
<1>5. Reverse(s) \in Seq(Units)
  BY <1>1, <1>4, SeqDef
<1>6. DOMAIN Reverse(s) = 1..Len(Reverse(s)) /\ Len(Reverse(s)) \in Nat
  BY <1>5, LenProperties
<1> QED
  BY <1>1, <1>3, <1>4, <1>5, <1>6

LEMMA CutIsSuffix ==
    ASSUME NEW p \in 0..Len(Body)
    PROVE  IsSuffix(SubSeq(Body, p + 1, Len(Body)), Body)
<1> DEFINE k == Len(Body) - p
           left == SubSeq(Body, p + 1, Len(Body))
           before == Reverse(left)
           whole == Reverse(Body)
<1>b. Body \in Seq(Units) /\ Len(Body) \in Nat /\ p \in Nat
  BY BodyUnits
<1>1. k \in 0..(Len(Body) - p) /\ p + k = Len(Body)
      /\ 0 \in 0..k /\ 0 \in 0..Len(Body) /\ k \in 0..(k - 0) /\ k \in 0..(Len(Body) - 0)
      /\ 0 + 1 = 1 /\ 0 + k = k /\ k <= Len(Body) /\ k \in Nat
  BY <1>b
<1> HIDE DEF k
<1>2. left \in Seq(Units) /\ Len(left) = k /\ \A i \in 1..k : left[i] = Body[p + i]
  <2>1. SubSeq(Body, p + 1, p + k) = left
    BY <1>1, Zenon
  <2> HIDE DEF left
  <2>2. /\ SubSeq(Body, p + 1, p + k) \in Seq(Units)
        /\ Len(SubSeq(Body, p + 1, p + k)) = k
        /\ \A i \in 1..k : SubSeq(Body, p + 1, p + k)[i] = Body[p + i]
    BY <1>b, <1>1, Cut
  <2> QED
    BY <2>1, <2>2, Zenon
<1> HIDE DEF left
<1>3. /\ before \in Seq(Units) /\ Len(before) = k
      /\ \A i \in 1..k : before[i] = left[(k - i) + 1]
  BY <1>2, ReverseUnits
<1>4. /\ whole \in Seq(Units) /\ Len(whole) = Len(Body)
      /\ \A i \in 1..Len(Body) : whole[i] = Body[(Len(Body) - i) + 1]
  BY <1>b, ReverseUnits
<1> HIDE DEF before, whole
<1>5. \A i \in 1..k : before[i] = whole[i]
  <2> TAKE i \in 1..k
  <2>1. i \in 1..Len(Body) /\ (k - i) + 1 \in 1..k
        /\ p + ((k - i) + 1) = (Len(Body) - i) + 1
    BY <1>b, <1>1
  <2>2. before[i] = Body[p + ((k - i) + 1)]
    BY <1>2, <1>3, <2>1, Zenon
  <2> QED
    BY <1>4, <2>1, <2>2, Zenon
<1>6. /\ SubSeq(before, 0 + 1, 0 + k) \in Seq(Units)
      /\ Len(SubSeq(before, 0 + 1, 0 + k)) = k
      /\ \A i \in 1..k : SubSeq(before, 0 + 1, 0 + k)[i] = before[0 + i]
  BY <1>1, <1>3, Cut
<1>7. /\ SubSeq(whole, 0 + 1, 0 + k) \in Seq(Units)
      /\ Len(SubSeq(whole, 0 + 1, 0 + k)) = k
      /\ \A i \in 1..k : SubSeq(whole, 0 + 1, 0 + k)[i] = whole[0 + i]
  BY <1>1, <1>4, Cut
<1>8. \A i \in 1..k : SubSeq(before, 0 + 1, 0 + k)[i] = SubSeq(whole, 0 + 1, 0 + k)[i]
  <2> TAKE i \in 1..k
  <2>1. 0 + i = i
    BY <1>1
  <2> QED
    BY <1>5, <1>6, <1>7, <2>1, Zenon
<1>9. SubSeq(before, 0 + 1, 0 + k) = SubSeq(whole, 0 + 1, 0 + k)
  BY <1>6, <1>7, <1>8, SeqEqual, Zenon
<1>10. IsPrefix(before, whole)
  BY <1>1, <1>3, <1>4, <1>9, Zenon DEF IsPrefix
<1> QED
  BY <1>10, Zenon DEF IsSuffix, before, whole, left

\* Every variable of the tasks and of the handler keeps its type: what is left is the
\* end of the body, and what was written the first of the payload (main.cpp 208-290).
THEOREM UpdateTypeCorrect == Spec => []TypeOK
<1>1. LinkInv /\ BodyInv => TypeOK
  <2> SUFFICES ASSUME LinkInv, BodyInv PROVE TypeOK
    OBVIOUS
  <2>1. LinkTypeOK
    BY DEF LinkInv
  <2>2. IsSuffix(rest, Body)
    BY CutIsSuffix DEF BodyInv, Progress
  <2>3. IsPrefix(flash, Payload)
    BY CutIsPrefix DEF BodyInv, FlashIsFirst
  <2> QED
    BY <2>1, <2>2, <2>3 DEF BodyInv, HandlerTypes, TypeOK
<1> QED
  BY <1>1, UpdateRunsLink, LinkInvariant, BodyInvariant, PTL

=============================================================================
