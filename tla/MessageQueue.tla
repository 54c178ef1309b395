---------------------------- MODULE MessageQueue ----------------------------
(***************************************************************************)
(* One IPC queue with its readers, as the schedulers use it: a message is  *)
(* taken off the main queue into the reader's buffer in one step, handled, *)
(* and deleted from the buffer; on its start a reader moves what its       *)
(* buffer still holds back to the main queue, a message at a time.         *)
(*                                                                         *)
(* What is handled does not matter here, only that it is: messages are     *)
(* numbered in the order they were sent.  The Redis client is external;    *)
(* each of its calls is atomic, may fail without effect, and may take      *)
(* effect with its reply lost.                                             *)
(***************************************************************************)
EXTENDS Integers, Sequences, FiniteSets, SequencesExt

CONSTANTS
  Reader,      \* the processes that read the queue
  ReaderName,  \* the name each was given, case and outer spaces dropped
  MaxSent,     \* bound: the messages sent
  Poison,      \* the messages among them that no handler can process
  MaxFaults,   \* bound: the faults that happen
  FaultKinds,  \* the kinds of fault that may happen
  None         \* no message

FaultKind == {"crash", "stop", "fatal", "deleteFails", "replyLost"}

ASSUME ReaderAssumption == IsFiniteSet(Reader) /\ Reader # {}
\* Two readers of one queue have names that differ in more than case and outer
\* spaces ("each reader must have exclusive ownership of its own buffer queue").
ASSUME NameAssumption ==
  /\ DOMAIN ReaderName = Reader
  /\ \A r, q \in Reader : ReaderName[r] = ReaderName[q] => r = q
ASSUME BoundAssumption ==
  /\ MaxSent \in Nat /\ MaxFaults \in Nat
  /\ Poison \subseteq 1..MaxSent /\ None \notin Nat
  /\ FaultKinds \subseteq FaultKind

Message == 1..MaxSent

\* Mutant: the reader's name is left out of its buffer's.
BufferName_Shared(r) == "buffer"

\* BuildIPCMessageBufferQueueName
BufferName(r) == ReaderName[r]
Buffers == {BufferName(r) : r \in Reader}

VARIABLES
  main,     \* the main queue, its left end first
  buffer,   \* each buffer queue, its left end first
  rpc,      \* where each reader is: "down", "recover", "idle", "handle", "delete"
  held,     \* the message it holds in memory
  sent,     \* how many messages were sent
  taken,    \* the last of them that was ever taken off the main queue
  handled,  \* how often each was handled, a poison one recorded
  faults

readVars == <<rpc, held>>
vars == <<main, buffer, readVars, sent, taken, handled, faults>>

Init ==
  /\ main = <<>> /\ buffer = [b \in Buffers |-> <<>>]
  /\ rpc = [r \in Reader |-> "down"] /\ held = [r \in Reader |-> None]
  /\ sent = 0 /\ taken = 0 /\ handled = [m \in Message |-> 0] /\ faults = 0

Fault(kind) == kind \in FaultKinds /\ faults < MaxFaults /\ faults' = faults + 1

At(r, here, there)  == rpc[r] = here /\ rpc' = [rpc EXCEPT ![r] = there]
Holds(r, m)         == held' = [held EXCEPT ![r] = m]
BufferIs(r, q)      == buffer' = [buffer EXCEPT ![BufferName(r)] = q]
Buffered(r)         == buffer[BufferName(r)]
Counted(m)          == handled' = [handled EXCEPT ![m] = @ + 1]

-----------------------------------------------------------------------------
\* EnqueueMessage. A failed call leaves nothing behind, and the sender knows.
Enqueue ==
  /\ sent < MaxSent
  /\ sent' = sent + 1
  /\ main' = Append(main, sent + 1)
  /\ UNCHANGED <<buffer, readVars, taken, handled, faults>>

\* Mutant: the loop starts with the buffer as it was left.
Start_NoRecovery(r) ==
  /\ At(r, "down", "idle")
  /\ UNCHANGED <<main, buffer, held, sent, taken, handled, faults>>

\* Start: first recoverBufferedMessages, then the loop.
Start(r) ==
  /\ At(r, "down", "recover")
  /\ UNCHANGED <<main, buffer, held, sent, taken, handled, faults>>

\* Mutant: the buffer is only looked at.
RecoverPop_Peek(r) ==
  /\ rpc[r] = "recover" /\ held[r] = None /\ Buffered(r) # <<>>
  /\ Holds(r, Head(Buffered(r)))
  /\ UNCHANGED <<main, buffer, rpc, sent, taken, handled, faults>>

\* DequeueBufferedMessage takes the message off the buffer and into memory.
RecoverPop(r) ==
  /\ rpc[r] = "recover" /\ held[r] = None /\ Buffered(r) # <<>>
  /\ Holds(r, Head(Buffered(r))) /\ BufferIs(r, Tail(Buffered(r)))
  /\ UNCHANGED <<main, rpc, sent, taken, handled, faults>>

\* A message nobody can process is recorded and dropped, any other is put back.
RecoverDrop(r) ==
  /\ rpc[r] = "recover" /\ held[r] \in Poison
  /\ Counted(held[r]) /\ Holds(r, None)
  /\ UNCHANGED <<main, buffer, rpc, sent, taken, faults>>

\* Mutant: the message goes to the end new messages go to.
RecoverPush_Newest(r) ==
  /\ rpc[r] = "recover" /\ held[r] \in Message \ Poison
  /\ main' = Append(main, held[r])
  /\ Holds(r, None)
  /\ UNCHANGED <<buffer, rpc, sent, taken, handled, faults>>

\* ReEnqueueOnMainQueue inserts at the left, where DequeueMessage takes from.
RecoverPush(r) ==
  /\ rpc[r] = "recover" /\ held[r] \in Message \ Poison
  /\ main' = <<held[r]>> \o main
  /\ Holds(r, None)
  /\ UNCHANGED <<buffer, rpc, sent, taken, handled, faults>>

RecoverDone(r) ==
  /\ held[r] = None /\ Buffered(r) = <<>>
  /\ At(r, "recover", "idle")
  /\ UNCHANGED <<main, buffer, held, sent, taken, handled, faults>>

\* Mutant: the message is popped without being staged.
Staged_Not(r) == Buffered(r)

Staged(r) == Append(Buffered(r), Head(main))

\* A message that was put back has been taken before; a fresh one is the next
\* sent, which FreshInOrder says of every step.
Taken == taken' = IF Head(main) > taken THEN Head(main) ELSE taken

Dequeue(r) ==
  /\ main # <<>>
  /\ At(r, "idle", "handle")
  /\ main' = Tail(main) /\ BufferIs(r, Staged(r)) /\ Holds(r, Head(main))
  /\ Taken
  /\ UNCHANGED <<sent, handled, faults>>

\* A handler that returns, an error or not, has handled its message; a poison
\* one is recorded.
HandleOne(r) ==
  /\ At(r, "handle", "delete")
  /\ Counted(held[r])
  /\ UNCHANGED <<main, buffer, held, sent, taken, faults>>

\* Mutants: the buffer is never deleted from; the message is not let go.
DeleteOne_Kept(r) ==
  /\ At(r, "delete", "idle")
  /\ Holds(r, None)
  /\ UNCHANGED <<main, buffer, sent, taken, handled, faults>>

DeleteOne_StillHeld(r) ==
  /\ At(r, "delete", "idle")
  /\ BufferIs(r, RemoveFirst(Buffered(r), held[r]))
  /\ UNCHANGED <<main, held, sent, taken, handled, faults>>

DeleteOne(r) ==
  /\ At(r, "delete", "idle")
  /\ BufferIs(r, RemoveFirst(Buffered(r), held[r])) /\ Holds(r, None)
  /\ UNCHANGED <<main, sent, taken, handled, faults>>

-----------------------------------------------------------------------------
\* Deleting is best effort: an error is logged and the loop goes on.
DeleteFails(r) ==
  /\ Fault("deleteFails")
  /\ At(r, "delete", "idle")
  /\ Holds(r, None)
  /\ UNCHANGED <<main, buffer, sent, taken, handled>>

\* The database is broken: the loop ends, its message deleted.
FatalError(r) ==
  /\ Fault("fatal")
  /\ At(r, "delete", "down")
  /\ BufferIs(r, RemoveFirst(Buffered(r), held[r])) /\ Holds(r, None)
  /\ UNCHANGED <<main, sent, taken, handled>>

\* The reply to a dequeue is lost: "failed to read queue", and the loop goes on
\* without the message it staged.
ReplyLost(r) ==
  /\ Fault("replyLost")
  /\ rpc[r] = "idle" /\ main # <<>>
  /\ main' = Tail(main) /\ BufferIs(r, Staged(r)) /\ Taken
  /\ UNCHANGED <<rpc, held, sent, handled>>

\* Stop cancels the context: a handler still returns, nothing is deleted, and a
\* recovery fails where it is.
Stop(r) ==
  /\ Fault("stop")
  /\ rpc[r] # "down"
  /\ rpc' = [rpc EXCEPT ![r] = "down"] /\ Holds(r, None)
  /\ IF rpc[r] = "handle" THEN Counted(held[r]) ELSE UNCHANGED handled
  /\ UNCHANGED <<main, buffer, sent, taken>>

\* A crash; a recovery whose push fails stops the start likewise.
Crash(r) ==
  /\ Fault("crash")
  /\ rpc[r] # "down"
  /\ rpc' = [rpc EXCEPT ![r] = "down"] /\ Holds(r, None)
  /\ UNCHANGED <<main, buffer, sent, taken, handled>>

ReaderStep(r) ==
  \/ Start(r) \/ RecoverPop(r) \/ RecoverDrop(r) \/ RecoverPush(r) \/ RecoverDone(r)
  \/ Dequeue(r) \/ HandleOne(r) \/ DeleteOne(r)

ReaderFault(r) ==
  DeleteFails(r) \/ FatalError(r) \/ ReplyLost(r) \/ Stop(r) \/ Crash(r)

Next == Enqueue \/ \E r \in Reader : ReaderStep(r) \/ ReaderFault(r)

Spec == Init /\ [][Next]_vars

\* A reader that went down is started again, and goes on; senders owe nothing.
FairSpec == Spec /\ \A r \in Reader : WF_vars(ReaderStep(r))

-----------------------------------------------------------------------------
(* Type invariant *)

\* A reader holds a message where it recovers, handles or deletes one.
TypeOK ==
  /\ main \in Seq(Message)
  /\ buffer \in [Buffers -> Seq(Message)]
  /\ rpc \in [Reader -> {"down", "recover", "idle", "handle", "delete"}]
  /\ held \in [Reader -> Message \cup {None}]
  /\ \A r \in Reader : /\ rpc[r] \in {"handle", "delete"} => held[r] # None
                       /\ rpc[r] \in {"down", "idle"} => held[r] = None
  /\ sent \in 0..MaxSent /\ taken \in 0..sent /\ handled \in [Message -> Nat] /\ faults \in 0..MaxFaults

-----------------------------------------------------------------------------
(* Safety *)

Copies(q, m) == Cardinality({i \in DOMAIN q : q[i] = m})

\* The readers that have m in memory only.
Recovering(m) == {r \in Reader : rpc[r] = "recover" /\ held[r] = m}

InBuffers(m) == {b \in Buffers : Contains(buffer[b], m)}

\* However often it moves between the queues, the buffers and a recovering
\* reader, a message is at one of these places at a time.
OnePlace ==
  \A m \in Message :
    /\ Copies(main, m) + Cardinality(InBuffers(m)) + Cardinality(Recovering(m)) <= 1
    /\ \A b \in Buffers : Copies(buffer[b], m) <= 1

\* A reader works on what its own buffer holds: no restart of another reader
\* takes a message from under it.
OwnBuffer ==
  \A r \in Reader : rpc[r] \in {"handle", "delete"} => Contains(Buffered(r), held[r])

\* The handlings of messages after their first.
Replays == UNION {{m} \X (2..handled[m]) : m \in Message}

\* Every handling of a message after its first costs a fault of its own: replays
\* neither pile up in a buffer nor go on by themselves (scheduler_ipc.go, the
\* delete contract).
RedeliveryBounded == Cardinality(Replays) <= faults

Present(m) ==
  \/ Contains(main, m)
  \/ InBuffers(m) # {}
  \/ Recovering(m) # {}

\* A message is first taken only when all those sent before it have been and none
\* that was put back still waits: a recovery puts what was left in front of the
\* queue, so a replay never lets newer messages overtake older ones again.
FreshInOrder ==
  [][taken' # taken => /\ taken' = taken + 1
                       /\ \A m \in 1..taken : ~ Contains(main, m)]_vars

\* A message nobody handled goes missing in one way only: the process dies while
\* it holds in memory what it popped off its buffer to recover it.
LostOnlyInRecovery ==
  [][\A m \in Message : handled[m] = 0 /\ Present(m) /\ Recovering(m) = {} =>
       Present(m)' \/ handled'[m] = 1]_vars

(* Liveness *)

\* A running reader that lost the reply of the dequeue does not know of the message
\* in its buffer before it is started again.
Unnoticed(m) ==
  \E r \in Reader :
    rpc[r] \in {"idle", "handle", "delete"} /\ held[r] # m /\ Contains(Buffered(r), m)

\* Every message is handled, lost in that way, or left with a reader that does not
\* know of it; and whatever a reader had left when it went down comes out of its
\* buffer again. No replay of old messages starves a new one.
EverySentIsHandled ==
  \A m \in Message :
    /\ m <= sent ~> (handled[m] > 0 \/ ~ Present(m) \/ Unnoticed(m))
    /\ \A r \in Reader :
         (rpc[r] = "down" /\ Contains(Buffered(r), m)) ~> ~ Contains(Buffered(r), m)
=============================================================================
