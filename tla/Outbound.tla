------------------------------ MODULE Outbound ------------------------------
(***************************************************************************)
(* Outbound delivery: Hub.send_session, Hub._writer_loop, the part of      *)
(* Hub.remove_session that concerns them (app/hub.py) and the send lock of *)
(* send_json_frame (app/ws_io.py).                                         *)
(*                                                                         *)
(* Every session has a bounded queue of relayed frames, drained by a       *)
(* writer task that is started on demand.  The endpoint task writes its    *)
(* replies to the same socket, so both take the socket's lock.  Any relay  *)
(* handler may queue a frame at any time; the client may vanish and the    *)
(* cleanup loop may prune the session at any time (when it does is the     *)
(* business of module Hub).                                                *)
(***************************************************************************)
EXTENDS Integers, FiniteSets, Sequences

CONSTANTS
  Session,    \* sessions, all in the table at the start
  Frame,      \* relayed messages, each queued at most once per session
  SizeOf,     \* encoded bytes of a frame
  MaxFrames,  \* config.outbound_queue_frames
  MaxBytes,   \* config.outbound_queue_bytes
  Rest        \* bytes waiting for clients outside the model, in the total

(* Config.validate: at least one frame, and one maximum-sized frame fits.  *)
ASSUME OutboundAssumption ==
  /\ IsFiniteSet(Session) /\ IsFiniteSet(Frame)
  /\ SizeOf \in [Frame -> Nat \ {0}]
  /\ MaxFrames \in Nat \ {0} /\ Rest \in Nat
  /\ MaxBytes \in Nat /\ \A f \in Frame : SizeOf[f] <= MaxBytes

VARIABLES
  live,      \* sessions in hub.sessions
  sock,      \* "ok", or "broken" once closed or failed
  offered,   \* frames send_session was called with
  queue,     \* sess["outbound_queue"]
  bytes,     \* sess["outbound_bytes"]
  total,     \* hub._outbound_queued_bytes
  writer,    \* sess["writer_task"]
  inflight,  \* the frame the writer took off the queue, as a set
  control,   \* the endpoint task
  lock       \* who holds the socket's send lock

vars == <<live, sock, offered, queue, bytes, total, writer, inflight, control, lock>>

WriterState == {"none",  \* no task was ever created
                "get",   \* at the queue, or about to start
                "lock",  \* waits for the send lock
                "send",  \* awaits send_json
                "done"}
ControlState == {"recv", "lock", "send", "exit", "gone"}

-----------------------------------------------------------------------------

Queued(s) == {queue[s][i] : i \in 1 .. Len(queue[s])}

(* The bytes of the frames fs, and how many they are.                      *)
Bytes(fs) == UNION {{f} \X (1 .. SizeOf[f]) : f \in fs}

Size(fs) == Cardinality(Bytes(fs))

(* Mutant: the byte limit is tested without the new frame.                 *)
RefusedLate(s, f) ==
  \/ Len(queue[s]) >= MaxFrames
  \/ bytes[s] > MaxBytes

Refused(s, f) ==
  \/ Len(queue[s]) >= MaxFrames
  \/ bytes[s] + SizeOf[f] > MaxBytes

NoWriter(s) == writer[s] \in {"none", "done"}

(* max(0, n - size), as the code clamps it.                                *)
Less(n, size) == IF n >= size THEN n - size ELSE 0

(* Mutant: the accounts are settled without looking at the table.          *)
SettlesAlways(s) == TRUE

(* The finally block of the writer: the frame in flight leaves the         *)
(* accounts, unless remove_session has already settled them.               *)
Settles(s) == s \in live

Settle(s) ==
  LET size == IF Settles(s) THEN Size(inflight[s]) ELSE 0
  IN  /\ bytes' = [bytes EXCEPT ![s] = Less(@, size)]
      /\ total' = Less(total, size)
      /\ inflight' = [inflight EXCEPT ![s] = {}]

ReleaseIf(s, who) == IF lock[s] = who THEN [lock EXCEPT ![s] = "free"] ELSE lock

-----------------------------------------------------------------------------

Init ==
  /\ live = Session
  /\ sock = [s \in Session |-> "ok"]
  /\ offered = [s \in Session |-> {}]
  /\ queue = [s \in Session |-> <<>>]
  /\ bytes = [s \in Session |-> 0]
  /\ total = Rest
  /\ writer = [s \in Session |-> "none"]
  /\ inflight = [s \in Session |-> {}]
  /\ control = [s \in Session |-> "recv"]
  /\ lock = [s \in Session |-> "free"]

(* send_session accepts the frame: queued, counted, and a writer started   *)
(* if there is none or the last one has ended.                             *)
Accept(s, f) ==
  /\ s \in live
  /\ f \notin offered[s]
  /\ ~Refused(s, f)
  /\ offered' = [offered EXCEPT ![s] = @ \cup {f}]
  /\ queue' = [queue EXCEPT ![s] = Append(@, f)]
  /\ bytes' = [bytes EXCEPT ![s] = @ + SizeOf[f]]
  /\ total' = total + SizeOf[f]
  /\ writer' = [writer EXCEPT ![s] = IF NoWriter(s) THEN "get" ELSE @]
  /\ UNCHANGED <<live, sock, inflight, control, lock>>

(* send_session finds the queue full and closes the slow client's socket;  *)
(* the close may itself fail or time out.                                  *)
Reject(s, f) ==
  /\ s \in live
  /\ f \notin offered[s]
  /\ Refused(s, f)
  /\ offered' = [offered EXCEPT ![s] = @ \cup {f}]
  /\ sock' \in {sock, [sock EXCEPT ![s] = "broken"]}
  /\ UNCHANGED <<live, queue, bytes, total, writer, inflight, control, lock>>

-----------------------------------------------------------------------------
(* The writer task.  A removed session's writer is cancelled, so its only  *)
(* step is WriterCancelled.                                                *)

(* queue.get() returns; the lock is taken at once if it is free.           *)
WriterGet(s) ==
  /\ s \in live
  /\ writer[s] = "get"
  /\ queue[s] # <<>>
  /\ inflight' = [inflight EXCEPT ![s] = {Head(queue[s])}]
  /\ queue' = [queue EXCEPT ![s] = Tail(@)]
  /\ writer' = [writer EXCEPT ![s] = IF lock[s] = "free" THEN "send" ELSE "lock"]
  /\ lock' = IF lock[s] = "free" THEN [lock EXCEPT ![s] = "writer"] ELSE lock
  /\ UNCHANGED <<live, sock, offered, bytes, total, control>>

(* Mutant: the writer does not wait for the endpoint's send to end.        *)
WriterLockBarges(s) ==
  /\ s \in live
  /\ writer[s] = "lock"
  /\ writer' = [writer EXCEPT ![s] = "send"]
  /\ lock' = [lock EXCEPT ![s] = "writer"]
  /\ UNCHANGED <<live, sock, offered, queue, bytes, total, inflight, control>>

WriterLock(s) ==
  /\ s \in live
  /\ writer[s] = "lock"
  /\ lock[s] = "free"
  /\ writer' = [writer EXCEPT ![s] = "send"]
  /\ lock' = [lock EXCEPT ![s] = "writer"]
  /\ UNCHANGED <<live, sock, offered, queue, bytes, total, inflight, control>>

(* Mutant: the writer ends after each frame.                               *)
AfterSendOnce == "done"

(* Where the loop goes after a frame was written.                          *)
AfterSend == "get"

(* send_json returns: on a working socket the frame is written and the     *)
(* loop goes on.                                                           *)
WriterSent(s) ==
  /\ s \in live
  /\ writer[s] = "send"
  /\ sock[s] = "ok"
  /\ Settle(s)
  /\ writer' = [writer EXCEPT ![s] = AfterSend]
  /\ lock' = ReleaseIf(s, "writer")
  /\ UNCHANGED <<live, sock, offered, queue, control>>

(* send_json raises, or times out and the socket is closed: the exception  *)
(* ends the writer.  The frames behind it stay queued.                     *)
WriterFails(s) ==
  /\ s \in live
  /\ writer[s] = "send"
  /\ Settle(s)
  /\ sock' = [sock EXCEPT ![s] = "broken"]
  /\ writer' = [writer EXCEPT ![s] = "done"]
  /\ lock' = ReleaseIf(s, "writer")
  /\ UNCHANGED <<live, offered, queue, control>>

(* Mutant: a cancelled send keeps the lock.                                *)
CancelKeepsLock(s) == lock

(* "async with lock" gives the lock back when the send is cancelled.       *)
CancelReleases(s) == ReleaseIf(s, "writer")

(* CancelledError reaches the writer at whatever await it was.             *)
WriterCancelled(s) ==
  /\ s \notin live
  /\ writer[s] \in {"get", "lock", "send"}
  /\ Settle(s)
  /\ writer' = [writer EXCEPT ![s] = "done"]
  /\ lock' = CancelReleases(s)
  /\ UNCHANGED <<live, sock, offered, queue, control>>

-----------------------------------------------------------------------------
(* The endpoint task.                                                      *)

(* A frame arrived and its handler replies with send_json_frame.           *)
ControlReply(s) ==
  /\ control[s] = "recv"
  /\ control' = [control EXCEPT ![s] = IF lock[s] = "free" THEN "send" ELSE "lock"]
  /\ lock' = IF lock[s] = "free" THEN [lock EXCEPT ![s] = "control"] ELSE lock
  /\ UNCHANGED <<live, sock, offered, queue, bytes, total, writer, inflight>>

ControlLock(s) ==
  /\ control[s] = "lock"
  /\ lock[s] = "free"
  /\ control' = [control EXCEPT ![s] = "send"]
  /\ lock' = [lock EXCEPT ![s] = "control"]
  /\ UNCHANGED <<live, sock, offered, queue, bytes, total, writer, inflight>>

(* The reply is written and the loop goes on, if the session still exists. *)
ControlSent(s) ==
  /\ control[s] = "send"
  /\ sock[s] = "ok"
  /\ control' = [control EXCEPT ![s] = IF s \in live THEN "recv" ELSE "exit"]
  /\ lock' = ReleaseIf(s, "control")
  /\ UNCHANGED <<live, sock, offered, queue, bytes, total, writer, inflight>>

(* The send raises or times out.  _send_error swallows what is not a       *)
(* disconnect and the loop goes on to receive; else it is left.            *)
ControlFails(s) ==
  /\ control[s] = "send"
  /\ sock' = [sock EXCEPT ![s] = "broken"]
  /\ control' \in {[control EXCEPT ![s] = x] : x \in {"recv", "exit"}}
  /\ lock' = ReleaseIf(s, "control")
  /\ UNCHANGED <<live, offered, queue, bytes, total, writer, inflight>>

(* Receiving on a broken socket yields the disconnect.                     *)
ControlDisconnect(s) ==
  /\ control[s] = "recv"
  /\ sock[s] = "broken"
  /\ control' = [control EXCEPT ![s] = "exit"]
  /\ UNCHANGED <<live, sock, offered, queue, bytes, total, writer, inflight, lock>>

-----------------------------------------------------------------------------

(* remove_session: out of the table, writer cancelled, accounts settled.   *)
RemoveSession(s) ==
  /\ live' = live \ {s}
  /\ total' = Less(total, bytes[s])
  /\ bytes' = [bytes EXCEPT ![s] = 0]
  /\ queue' = [queue EXCEPT ![s] = <<>>]
  /\ UNCHANGED <<offered, writer, inflight, lock>>

(* Mutant: the endpoint returns without remove_session.                    *)
ControlExitOnly(s) ==
  /\ control[s] = "exit"
  /\ control' = [control EXCEPT ![s] = "gone"]
  /\ UNCHANGED <<live, sock, offered, queue, bytes, total, writer, inflight, lock>>

(* The finally block of the endpoint.                                      *)
ControlExit(s) ==
  /\ control[s] = "exit"
  /\ control' = [control EXCEPT ![s] = "gone"]
  /\ IF s \in live
     THEN RemoveSession(s)
     ELSE UNCHANGED <<live, offered, queue, bytes, total, writer, inflight, lock>>
  /\ UNCHANGED sock

(* prune_stale_sessions: removed, and the socket closed by another task.   *)
Prune(s) ==
  /\ s \in live
  /\ RemoveSession(s)
  /\ sock' = [sock EXCEPT ![s] = "broken"]
  /\ UNCHANGED control

(* The client goes away.                                                   *)
Vanish(s) ==
  /\ sock[s] = "ok"
  /\ sock' = [sock EXCEPT ![s] = "broken"]
  /\ UNCHANGED <<live, offered, queue, bytes, total, writer, inflight, control, lock>>

-----------------------------------------------------------------------------

WriterStep(s) ==
  \/ WriterGet(s)
  \/ WriterLock(s)
  \/ WriterSent(s)
  \/ WriterFails(s)
  \/ WriterCancelled(s)

ControlStep(s) ==
  \/ ControlLock(s)
  \/ ControlSent(s)
  \/ ControlFails(s)
  \/ ControlDisconnect(s)
  \/ ControlExit(s)

Next ==
  \E s \in Session :
    \/ \E f \in Frame : Accept(s, f)
    \/ \E f \in Frame : Reject(s, f)
    \/ WriterStep(s)
    \/ ControlStep(s)
    \/ ControlReply(s)
    \/ Prune(s)
    \/ Vanish(s)

Spec == Init /\ [][Next]_vars

(* The event loop runs ready tasks, and send_json_frame gives every send a *)
(* deadline, so a task that holds the lock gets on.  asyncio.Lock wakes    *)
(* its waiters first come, first served, so a waiter is not overtaken for  *)
(* ever.  A broken socket has finitely many frames left to read before     *)
(* the disconnect, so replies cannot put it off for ever.  Nothing is      *)
(* assumed of relays, clients and the cleanup loop.                        *)
Fairness ==
  \A s \in Session :
    /\ WF_vars(WriterGet(s))
    /\ SF_vars(WriterLock(s))
    /\ WF_vars(WriterSent(s) \/ WriterFails(s))
    /\ WF_vars(WriterCancelled(s))
    /\ SF_vars(ControlLock(s))
    /\ WF_vars(ControlSent(s) \/ ControlFails(s))
    /\ SF_vars(ControlDisconnect(s))
    /\ WF_vars(ControlExit(s))

FairSpec == Spec /\ Fairness

-----------------------------------------------------------------------------
(* Properties.                                                             *)

(* Every variable stays in its domain.                                     *)
TypeOK ==
  /\ live \subseteq Session
  /\ sock \in [Session -> {"ok", "broken"}]
  /\ offered \in [Session -> SUBSET Frame]
  /\ queue \in [Session -> Seq(Frame)]
  /\ bytes \in [Session -> Nat]
  /\ total \in Nat
  /\ writer \in [Session -> WriterState]
  /\ inflight \in [Session -> SUBSET Frame]
  /\ control \in [Session -> ControlState]
  /\ lock \in [Session -> {"free", "writer", "control"}]

(* The bytes waiting for a session: queued, or being sent by its writer.   *)
Waiting(s) == Bytes(Queued(s) \cup inflight[s])

AllWaiting == UNION {{s} \X Waiting(s) : s \in live}

(* A client that does not read costs the hub no more than its limits:      *)
(* put_nowait never meets a full queue, and the frames that wait for a     *)
(* live session have at most outbound_queue_bytes together.                *)
QueueBounded ==
  \A s \in live : Len(queue[s]) <= MaxFrames /\ Cardinality(Waiting(s)) <= MaxBytes

(* The accounts are exact.  A live session's outbound_bytes is the number  *)
(* of bytes that wait for it, and the hub's total that of all sessions: no *)
(* interleaving of sends, failures, cancellations and removals counts a    *)
(* frame twice or loses it, so the max(0, ...) in the code never cuts      *)
(* anything off.                                                           *)
ExactAccounts ==
  /\ \A s \in live : bytes[s] = Cardinality(Waiting(s))
  /\ total = Rest + Cardinality(AllWaiting)

(* The send lock is held by exactly the task that is writing, so the       *)
(* frames of writer and endpoint never mix on the socket, and a cancelled  *)
(* or failed send leaves no lock behind.                                   *)
LockMatches ==
  \A s \in Session :
    /\ lock[s] = "writer" <=> writer[s] = "send"
    /\ lock[s] = "control" <=> control[s] = "send"

(* Frames wait without a writer only behind a socket that is broken.       *)
StrandedOnlyIfBroken ==
  \A s \in live : queue[s] # <<>> /\ NoWriter(s) => sock[s] = "broken"

(* A frame that was accepted leaves the queue, or its socket breaks or its *)
(* session ends.                                                           *)
FramesDrain ==
  \A s \in Session, f \in Frame :
    (s \in live /\ f \in Queued(s))
      ~> (f \notin Queued(s) \/ s \notin live \/ sock[s] = "broken")

(* The send lock is always given back: neither a failed nor a cancelled    *)
(* send leaves the other task waiting for ever.                            *)
LockReturns ==
  \A s \in Session : lock[s] # "free" ~> lock[s] = "free"

(* A client whose socket broke is taken out of the table.                  *)
BrokenAreRemoved ==
  \A s \in Session : sock[s] = "broken" ~> s \notin live

=============================================================================
