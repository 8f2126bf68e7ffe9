------------------------------ MODULE Mailbox ------------------------------
(***************************************************************************)
(* Requests to the GPU of the Pi 3 (drivers/pi3gpu): mailbox_tag_request   *)
(* and incoming_message of mailbox_properties.c, and below them            *)
(* queue_message, mailbox_interrupt and message_pump of mailbox.c.         *)
(*                                                                         *)
(* Several threads make requests, each with a buffer of its own; a message *)
(* is the address of a buffer, for which the client that owns it stands.   *)
(* The interrupt handler runs with interrupts masked and is one action.    *)
(* All other code may be preempted: any thread that is not blocked may     *)
(* take the next step.  Gates and locks are used with the meaning that     *)
(* modules Gates and LockService give them.                                *)
(*                                                                         *)
(* Channel 8 is the only one the driver ever claims, so the loop of        *)
(* message_pump over the channels is a look at that channel.  queue_message*)
(* runs inside `lock` already, so mailbox_stack_lock is left out.          *)
(***************************************************************************)
EXTENDS Integers, Sequences, FiniteSets

CONSTANTS Client,    \* threads that make requests
          Pump,      \* the thread that runs message_pump
          Slots,     \* numberof( outstanding_requests )
          Depth,     \* the capacity of each hardware mailbox
          GateMax,   \* the most wakes a gate saves up, 0x7fffffff
          NULL       \* 0: no message, no thread

ASSUME MailboxAssumption ==
    /\ Pump \notin Client
    /\ NULL \notin Client \union {Pump}
    /\ Slots \in Nat \ {0, 1}
    /\ Depth \in Nat \ {0}
    /\ GateMax \in Nat \ {0}

VARIABLES
    toGPU,                  \* mailbox 1, read by the GPU
    gpu,                    \* the requests the GPU works on
    toARM,                  \* mailbox 0, read by the ARM
    config,                 \* mailbox 0 interrupts when it is not empty
    blocking_message,
    blocked_sending_thread,
    received_message,       \* of channel 8
    waiting_thread,         \* of channel 8
    requests,               \* outstanding_requests
    requests_head,
    requests_tail,
    blocked_thread,
    lock,                   \* who holds the lock of mailbox_tag_request
    table_lock,             \* who holds outstanding_requests_lock
    full,                   \* list_full of the thread that holds table_lock
    gate,                   \* of each thread: -1 waiting, else wakes saved up
    pc,
    messages,               \* of message_pump: rounds still to do
    message,                \* of message_pump: the one it delivers
    found,                  \* of incoming_message: the entry of the message
    brk                     \* the driver has met a brk instruction, or NULL

hardware == <<toGPU, gpu, toARM>>
channel  == <<blocking_message, received_message, waiting_thread>>
table    == <<requests, requests_head, requests_tail, blocked_thread, table_lock, full>>
pump     == <<messages, message, found>>
vars == <<hardware, config, channel, blocked_sending_thread, table, lock, gate,
          pc, pump, brk>>

Threads == Client \union {Pump}

Slot == 0 .. Slots - 1

Init ==
    /\ toGPU = << >> /\ gpu = {} /\ toARM = << >>
    /\ config = FALSE
    /\ blocking_message = NULL /\ received_message = NULL /\ waiting_thread = NULL
    /\ blocked_sending_thread = NULL
    /\ requests = [i \in Slot |-> NULL]
    /\ requests_head = 0 /\ requests_tail = 0
    /\ blocked_thread = NULL
    /\ lock = NULL /\ table_lock = NULL /\ full = FALSE
    /\ gate = [t \in Threads |-> 0]
    /\ pc = [t \in Threads |-> IF t = Pump THEN "none" ELSE "idle"]
    /\ messages = 0 /\ message = NULL /\ found = 0
    /\ brk = NULL

Step(t, from, to) ==
    /\ brk = NULL
    /\ pc[t] = from
    /\ pc' = [pc EXCEPT ![t] = to]

(* wake_thread( t ), if there is a t: the gates after it. *)
Woken(g, t) ==
    IF t = NULL THEN g
    ELSE [g EXCEPT ![t] = IF @ < GateMax THEN @ + 1 ELSE @]

(* wait_until_woken: block, or take the wakes that are there; a thread that*)
(* has blocked goes on when its gate is no longer -1.                      *)
Block(t, at, blocked) ==
    /\ Step(t, at, blocked)
    /\ gate[t] = 0
    /\ gate' = [gate EXCEPT ![t] = -1]

Pass(t, at, blocked, to) ==
    \/ /\ Step(t, at, to)
       /\ gate[t] > 0
       /\ gate' = [gate EXCEPT ![t] = 0]
    \/ /\ Step(t, blocked, to)
       /\ gate[t] # -1
       /\ UNCHANGED gate

next_outstanding_request(n) == (n + 1) % Slots

-----------------------------------------------------------------------------
(* mailbox_tag_request *)

Request(c) ==
    /\ Step(c, "idle", "claim")
    /\ UNCHANGED <<hardware, config, channel, blocked_sending_thread, table, lock,
                   gate, pump, brk>>

(* The first request registers the client of channel 8, and that creates   *)
(* the pump.                                                               *)
ClaimLock(c) ==
    /\ Step(c, "claim", "register")
    /\ lock = NULL
    /\ lock' = c
    /\ UNCHANGED <<hardware, config, channel, blocked_sending_thread, table,
                   gate, pump, brk>>

Register(c) ==
    /\ brk = NULL
    /\ pc[c] = "register"
    /\ waiting_thread' = Pump
    /\ pc' = [pc EXCEPT ![c] = "claim_table",
                        ![Pump] = IF waiting_thread = NULL THEN "wait" ELSE @]
    /\ UNCHANGED <<hardware, config, blocking_message, received_message,
                   blocked_sending_thread, table, lock, gate, pump, brk>>

TableFree == table_lock = NULL

LookForRoom(c) ==
    /\ Step(c, "claim_table", "room")
    /\ TableFree
    /\ table_lock' = c
    /\ full' = (requests_tail = next_outstanding_request(requests_head))
    /\ UNCHANGED <<hardware, config, channel, blocked_sending_thread, requests,
                   requests_head, requests_tail, blocked_thread, lock, gate, pump, brk>>

LeaveTable(c) ==
    /\ Step(c, "room", IF full THEN "wait_room" ELSE "enqueue")
    /\ table_lock' = NULL
    /\ blocked_thread' = IF full THEN c ELSE blocked_thread
    /\ UNCHANGED <<hardware, config, channel, blocked_sending_thread, requests,
                   requests_head, requests_tail, full, lock, gate, pump, brk>>

WaitForRoom(c) ==
    /\ Block(c, "wait_room", "blocked_room") \/ Pass(c, "wait_room", "blocked_room", "enqueue")
    /\ UNCHANGED <<hardware, config, channel, blocked_sending_thread, table, lock,
                   pump, brk>>

Enqueue(c) ==
    /\ Step(c, "enqueue", "queue_message")
    /\ requests' = [requests EXCEPT ![requests_head] = c]
    /\ requests_head' = next_outstanding_request(requests_head)
    /\ UNCHANGED <<hardware, config, channel, blocked_sending_thread, requests_tail,
                   blocked_thread, table_lock, full, lock, gate, pump, brk>>

(* queue_message *)
QueueMessage(c) ==
    /\ Step(c, "queue_message", "poll")
    /\ config' = TRUE
    /\ UNCHANGED <<hardware, channel, blocked_sending_thread, table, lock, gate,
                   pump, brk>>

(* The status of mailbox 1. *)
MutantNoRoom == Len(toGPU) < Depth

NoRoom == Len(toGPU) = Depth

Poll(c) ==
    /\ Step(c, "poll", IF NoRoom THEN "mailbox_full" ELSE "mailbox_ready")
    /\ UNCHANGED <<hardware, config, channel, blocked_sending_thread, table, lock,
                   gate, pump, brk>>

MailboxFull(c) ==
    /\ Step(c, "mailbox_full", "sleep")
    /\ blocked_sending_thread' = c
    /\ UNCHANGED <<hardware, config, channel, table, lock, gate, pump, brk>>

(* sleep_ms( 10 ), which ends by itself if nobody wakes the thread. *)
Sleep(c) ==
    /\ Block(c, "sleep", "asleep") \/ Pass(c, "sleep", "asleep", "poll")
    /\ UNCHANGED <<hardware, config, channel, blocked_sending_thread, table, lock,
                   pump, brk>>

SleepTimesOut(c) ==
    /\ Step(c, "asleep", "poll")
    /\ gate[c] = -1
    /\ gate' = [gate EXCEPT ![c] = 0]
    /\ UNCHANGED <<hardware, config, channel, blocked_sending_thread, table, lock,
                   pump, brk>>

MailboxReady(c) ==
    /\ Step(c, "mailbox_ready", "clear_gate")
    /\ blocked_sending_thread' = NULL
    /\ UNCHANGED <<hardware, config, channel, table, lock, gate, pump, brk>>

(* wake_thread( this_thread ); wait_until_woken(); *)
MutantCleared(c) == gate

Cleared(c) == [gate EXCEPT ![c] = 0]

ClearGate(c) ==
    /\ Step(c, "clear_gate", "write")
    /\ gate' = Cleared(c)
    /\ UNCHANGED <<hardware, config, channel, blocked_sending_thread, table, lock,
                   pump, brk>>

Write(c) ==
    /\ Step(c, "write", "release")
    /\ toGPU' = Append(toGPU, c)
    /\ UNCHANGED <<gpu, toARM, config, channel, blocked_sending_thread, table, lock,
                   gate, pump, brk>>

ReleaseLock(c) ==
    /\ Step(c, "release", "wait_answer")
    /\ lock' = NULL
    /\ UNCHANGED <<hardware, config, channel, blocked_sending_thread, table,
                   gate, pump, brk>>

WaitForAnswer(c) ==
    /\ \/ Block(c, "wait_answer", "blocked_answer")
       \/ Pass(c, "wait_answer", "blocked_answer", "idle")
    /\ UNCHANGED <<hardware, config, channel, blocked_sending_thread, table, lock,
                   pump, brk>>

-----------------------------------------------------------------------------
(* The GPU answers in any order. *)

GPUTake ==
    /\ toGPU # << >>
    /\ gpu' = gpu \union {Head(toGPU)}
    /\ toGPU' = Tail(toGPU)
    /\ UNCHANGED <<toARM, config, channel, blocked_sending_thread, table, lock, gate,
                   pc, pump, brk>>

GPUAnswer(m) ==
    /\ m \in gpu
    /\ Len(toARM) < Depth
    /\ gpu' = gpu \ {m}
    /\ toARM' = Append(toARM, m)
    /\ UNCHANGED <<toGPU, config, channel, blocked_sending_thread, table, lock, gate,
                   pc, pump, brk>>

(* mailbox_interrupt.  `late` is the blocking message, if it can be        *)
(* delivered now; the loop then takes messages until one finds the channel *)
(* occupied.                                                               *)
Interrupt ==
    LET occupied == received_message # NULL \/ blocking_message # NULL
        taken    == IF occupied \/ Len(toARM) = 1 THEN 1 ELSE 2
        now      == IF received_message # NULL THEN received_message
                    ELSE IF blocking_message # NULL THEN blocking_message
                    ELSE Head(toARM)
        delivery == received_message = NULL
        blocks   == occupied \/ taken = 2
    IN  /\ brk = NULL
        /\ config /\ toARM # << >>
        /\ IF blocking_message # NULL /\ received_message # NULL
             THEN /\ brk' = 4
                  /\ UNCHANGED <<toARM, received_message, blocking_message, config, gate>>
             ELSE /\ toARM' = SubSeq(toARM, taken + 1, Len(toARM))
                  /\ received_message' = now
                  /\ blocking_message' = IF blocks THEN toARM[taken] ELSE NULL
                  /\ config' = ~blocks
                  /\ gate' = Woken(IF delivery THEN Woken(gate, waiting_thread) ELSE gate,
                                   blocked_sending_thread)
                  /\ UNCHANGED brk
        /\ UNCHANGED <<toGPU, gpu, waiting_thread, blocked_sending_thread, table, lock,
                       pc, pump>>

-----------------------------------------------------------------------------
(* message_pump: one round more than there were wakes saved up. *)

PumpBlock ==
    /\ Block(Pump, "wait", "blocked")
    /\ UNCHANGED <<hardware, config, channel, blocked_sending_thread, table, lock,
                   pump, brk>>

PumpPass ==
    /\ Pass(Pump, "wait", "blocked", "round")
    /\ messages' = IF pc[Pump] = "wait" THEN gate[Pump] + 1 ELSE 1
    /\ UNCHANGED <<hardware, config, channel, blocked_sending_thread, table, lock,
                   message, found, brk>>

PumpRound ==
    /\ brk = NULL
    /\ pc[Pump] = "round"
    /\ messages' = messages - 1
    /\ IF received_message # NULL
         THEN /\ message' = received_message
              /\ received_message' = NULL
              /\ pc' = [pc EXCEPT ![Pump] = "incoming"]
         ELSE /\ pc' = [pc EXCEPT ![Pump] = IF messages = 1 THEN "wait" ELSE "round"]
              /\ UNCHANGED <<message, received_message>>
    /\ UNCHANGED <<hardware, config, blocking_message, waiting_thread,
                   blocked_sending_thread, table, lock, gate, found, brk>>

(* incoming_message *)
Outstanding ==
    {i \in Slot : IF requests_tail <= requests_head
                    THEN requests_tail <= i /\ i < requests_head
                    ELSE requests_tail <= i \/ i < requests_head}

(* The entry of the message is filled from the tail's, which is emptied. *)
MutantFilled(i) == [requests EXCEPT ![requests_tail] = NULL]

Filled(i) == [requests EXCEPT ![i] = requests[requests_tail], ![requests_tail] = NULL]

Incoming ==
    /\ brk = NULL
    /\ pc[Pump] = "incoming"
    /\ IF \E i \in Outstanding : requests[i] = message
         THEN /\ found' \in {i \in Outstanding : requests[i] = message}
              /\ gate' = Woken(gate, message)
              /\ pc' = [pc EXCEPT ![Pump] = "remove"]
              /\ UNCHANGED brk
         ELSE /\ brk' = 5
              /\ UNCHANGED <<found, gate, pc>>
    /\ UNCHANGED <<hardware, config, channel, blocked_sending_thread, table, lock,
                   messages, message>>

RemoveRequest ==
    /\ Step(Pump, "remove", "advance")
    /\ requests' = Filled(found)
    /\ UNCHANGED <<hardware, config, channel, blocked_sending_thread, requests_head,
                   requests_tail, blocked_thread, table_lock, full, lock, gate, pump, brk>>

Advance ==
    /\ Step(Pump, "advance", "unblock")
    /\ TableFree
    /\ requests_tail' = next_outstanding_request(requests_tail)
    /\ UNCHANGED <<hardware, config, channel, blocked_sending_thread, requests,
                   requests_head, blocked_thread, table_lock, full, lock, gate, pump, brk>>

Unblock ==
    /\ Step(Pump, "unblock", "resume")
    /\ gate' = Woken(gate, blocked_thread)
    /\ blocked_thread' = NULL
    /\ UNCHANGED <<hardware, config, channel, blocked_sending_thread, requests,
                   requests_head, requests_tail, table_lock, full, lock, pump, brk>>

(* Back in message_pump *)
Resume ==
    /\ Step(Pump, "resume", IF messages = 0 THEN "wait" ELSE "round")
    /\ config' = (config \/ blocking_message # NULL)
    /\ message' = NULL
    /\ found' = 0
    /\ UNCHANGED <<hardware, channel, blocked_sending_thread, table, lock, gate,
                   messages, brk>>

-----------------------------------------------------------------------------
ClientStep(c) ==
    \/ ClaimLock(c) \/ Register(c)
    \/ LookForRoom(c) \/ LeaveTable(c) \/ WaitForRoom(c) \/ Enqueue(c)
    \/ QueueMessage(c) \/ Poll(c) \/ MailboxFull(c) \/ Sleep(c) \/ SleepTimesOut(c)
    \/ MailboxReady(c) \/ ClearGate(c) \/ Write(c) \/ ReleaseLock(c) \/ WaitForAnswer(c)

PumpStep == PumpBlock \/ PumpPass \/ PumpRound
            \/ Incoming \/ RemoveRequest \/ Advance \/ Unblock \/ Resume

GPUStep == GPUTake \/ \E m \in Client : GPUAnswer(m)

Next ==
    \/ \E c \in Client : Request(c) \/ ClientStep(c)
    \/ PumpStep
    \/ GPUStep
    \/ Interrupt

Spec == Init /\ [][Next]_vars

(* No thread is preempted for ever, a lock that is free again and again is *)
(* got (module Locks), the GPU answers all it was asked, and an interrupt  *)
(* line that is asserted is served.  Nobody has to make another request.   *)
Fairness ==
    /\ \A c \in Client : SF_vars(ClientStep(c))
    /\ WF_vars(PumpStep)
    /\ WF_vars(GPUTake) /\ \A m \in Client : SF_vars(GPUAnswer(m))
    /\ WF_vars(Interrupt)

FairSpec == Spec /\ Fairness

-----------------------------------------------------------------------------
(* Every variable has the type its C declaration gives it. *)
TypeOK ==
    /\ toGPU \in Seq(Client) /\ Len(toGPU) <= Depth
    /\ gpu \subseteq Client
    /\ toARM \in Seq(Client) /\ Len(toARM) <= Depth
    /\ config \in BOOLEAN
    /\ {blocking_message, received_message, message} \subseteq Client \union {NULL}
    /\ waiting_thread \in {NULL, Pump}
    /\ {blocked_sending_thread, blocked_thread, lock, table_lock} \subseteq Client \union {NULL}
    /\ requests \in [Slot -> Client \union {NULL}]
    /\ {requests_head, requests_tail, found} \subseteq Slot
    /\ full \in BOOLEAN
    /\ gate \in [Threads -> -1 .. GateMax]
    /\ messages \in 0 .. GateMax + 1
    /\ brk \in {NULL, 4, 5}

(* Where the buffer of a client is, between the write to the mailbox and   *)
(* the wake of the client.                                                 *)
Copies(c) ==
      Cardinality({i \in DOMAIN toGPU : toGPU[i] = c})
    + Cardinality({i \in DOMAIN toARM : toARM[i] = c})
    + Cardinality({x \in {"gpu"} : c \in gpu})
    + Cardinality({x \in {"blocking"} : blocking_message = c})
    + Cardinality({x \in {"received"} : received_message = c})
    + Cardinality({x \in {"message"} : message = c /\ pc[Pump] = "incoming"})

(* A buffer is never in two places, and a client that has not sent its     *)
(* request yet, or has gone on after it, has its buffer for itself: no     *)
(* stray wake ends the wait for the GPU's answer too soon.                 *)
BufferIsMine ==
    \A c \in Client :
        /\ Copies(c) <= 1
        /\ pc[c] \notin {"release", "wait_answer", "blocked_answer"} => Copies(c) = 0

(* The GPU's message is neither lost on its way nor met with an entry that *)
(* is missing: as long as a client sleeps on its answer, the message is    *)
(* somewhere, and the table knows whom to wake.                            *)
NoAnswerLost ==
    \A c \in Client :
        gate[c] = -1 /\ pc[c] = "blocked_answer" =>
            /\ Copies(c) = 1
            /\ \E i \in Outstanding : requests[i] = c

(* mailbox_tag_request "Allows for multiple threads, one request per thread*)
(* at a time" (mailbox_properties.c:108), and one check of the driver does *)
(* not stand it: the brk that mailbox_interrupt comments with "How?"       *)
(* (mailbox.c:59) is met when a third thread's request has enabled the     *)
(* interrupt, and its answer arrives while one answer is still with the    *)
(* pump's channel and another is blocked.  That is the only brk met:       *)
(* incoming_message always finds the entry of the message, and it takes    *)
(* the answers of three threads, so two are safe from it.  Until then and  *)
(* then, indices, counts and gates stay in their ranges.                   *)
OnlyOverrun ==
    /\ TypeOK
    /\ brk # NULL =>
          /\ brk = 4
          /\ {received_message, blocking_message} \subseteq Client
          /\ received_message # blocking_message
          /\ toARM # << >> /\ Head(toARM) \notin {received_message, blocking_message}

(* Every request is answered. *)
Answered == \A c \in Client : pc[c] = "claim" ~> (pc[c] = "idle" \/ brk # NULL)

(* The only thing that can keep an answer from its client for ever is      *)
(* blocking_message: no request is stuck at a lock, in the table, at a     *)
(* full mailbox or in a wake that came too early.                          *)
Delivered ==
    \A c \in Client :
        pc[c] = "claim" ~> (pc[c] = "idle" \/ blocking_message = c \/ brk # NULL)
=============================================================================
