--------------------------- MODULE MailboxProofs ---------------------------
(* Requests to the GPU, for any number of clients, slots and mailbox sizes. *)
EXTENDS Mailbox, FiniteSetTheorems, TLAPS

USE MailboxAssumption

(* Where the threads are. *)
Early == {"register", "claim_table", "room"}
InRoom == {"wait_room", "blocked_room"}
Polling == {"poll", "mailbox_full", "sleep", "asleep", "mailbox_ready"}
Ready == {"mailbox_ready", "clear_gate", "write"}
Sending == {"queue_message", "clear_gate", "write"} \union Polling
Locked == Early \union InRoom \union Sending \union {"enqueue", "release"}
Away == {"release", "wait_answer", "blocked_answer"}
ClientAt == {"idle", "claim"} \union Locked \union Away
PumpAt == {"none", "wait", "blocked", "round", "incoming", "remove", "advance",
           "unblock", "resume"}

(* The types, and what keeps the locals of message_pump in their ranges. *)
Types ==
    /\ TypeOK
    /\ pc \in [Threads -> ClientAt \union PumpAt]
    /\ pc[Pump] \in PumpAt /\ \A c \in Client : pc[c] \in ClientAt
    /\ pc[Pump] = "round" => messages >= 1
    /\ pc[Pump] = "incoming" => message \in Client
    /\ waiting_thread = NULL => pc[Pump] = "none"

(* Who is inside the locks. *)
LockInv ==
    /\ \A c \in Client : lock = c <=> pc[c] \in Locked
    /\ \A c \in Client : table_lock = c <=> pc[c] = "room"

(* Who may be woken by the interrupt handler is still sending, and who is  *)
(* woken when there is room still waits for it.                            *)
WakeInv ==
    /\ blocked_sending_thread # NULL => pc[blocked_sending_thread] \in Polling
    /\ blocked_thread # NULL =>
          \/ pc[blocked_thread] = "wait_room" /\ gate[blocked_thread] = 0
          \/ pc[blocked_thread] = "blocked_room" /\ gate[blocked_thread] = -1

(* Only the thread inside the lock fills the mailbox. *)
SpaceInv == \A c \in Client : pc[c] \in Ready => Len(toGPU) < Depth

(* The places where a buffer can be, and those where the one of c is. *)
Elems(s) == {s[k] : k \in DOMAIN s}

Held(c) == {w \in {"toGPU", "gpu", "toARM", "blocking", "received", "message"} :
              \/ w = "toGPU" /\ c \in Elems(toGPU)
              \/ w = "gpu" /\ c \in gpu
              \/ w = "toARM" /\ c \in Elems(toARM)
              \/ w = "blocking" /\ c = blocking_message
              \/ w = "received" /\ c = received_message
              \/ w = "message" /\ c = message /\ pc[Pump] = "incoming"}

Distinct(s) == \A j, k \in DOMAIN s : s[j] = s[k] => j = k

(* A buffer is in one place, and only while its client waits for it; and   *)
(* the client's gate says whether it has been woken.                       *)
OnePlace ==
    /\ Distinct(toGPU) /\ Distinct(toARM)
    /\ \A c \in Client : \A v, w \in Held(c) : v = w

FlightInv ==
    \A c \in Client :
        /\ pc[c] \notin Away => Held(c) = {}
        /\ pc[c] \in {"release", "wait_answer"} =>
              gate[c] = IF Held(c) = {} THEN 1 ELSE 0
        /\ pc[c] = "blocked_answer" =>
              gate[c] = IF Held(c) = {} THEN 0 ELSE -1

(* No wake is left over from before. *)
GateInv ==
    \A c \in Client :
        /\ pc[c] \in {"idle", "claim", "write"} \union Early => gate[c] = 0
        /\ pc[c] \in ({"wait_room", "enqueue"} \union Sending) \ {"asleep"} => gate[c] >= 0

MailInv == /\ Types /\ LockInv /\ WakeInv /\ SpaceInv
           /\ OnePlace /\ FlightInv /\ GateInv
-----------------------------------------------------------------------------
(* The table of outstanding requests, as long as there are enough slots. *)
EnoughSlots == IsFiniteSet(Client) /\ Cardinality(Client) < Slots

Full == requests_tail = next_outstanding_request(requests_head)

(* The entry that the pump is about to give up. *)
Leaving == {i \in Slot : \/ pc[Pump] = "remove" /\ i = found
                         \/ pc[Pump] = "advance" /\ i = requests_tail}

Live == Outstanding \ Leaving

(* A request that has an entry: it is being sent, or its answer has not    *)
(* woken the client.                                                       *)
Pending(c) ==
    \/ pc[c] \in Sending
    \/ pc[c] \in {"release", "wait_answer"} /\ gate[c] = 0
    \/ pc[c] = "blocked_answer" /\ gate[c] = -1

(* The live entries are the requests that have no answer yet, each once. *)
EntriesInv ==
    /\ Leaving \subseteq Outstanding
    /\ \A i \in Live : requests[i] \in Client /\ Pending(requests[i])
    /\ \A i, j \in Live : requests[i] = requests[j] => i = j
    /\ \A c \in Client : Pending(c) => \E i \in Live : requests[i] = c

(* A client that goes on to make an entry has room for it: what it saw is  *)
(* still so, or the pump has made room and has not told it yet.            *)
Removing == pc[Pump] \in {"remove", "advance"}

RoomInv ==
    \A c \in Client :
        /\ pc[c] = "enqueue" => ~Full
        /\ pc[c] = "room" => (full <=> Full) /\ (Full => Removing)
        /\ pc[c] \in InRoom =>
              IF blocked_thread = c THEN Removing \/ (pc[Pump] = "unblock" /\ ~Full)
                                    ELSE ~Full

TableInv == EntriesInv /\ RoomInv /\ brk \in {NULL, 4}

-----------------------------------------------------------------------------
(* Sequences of messages. *)
LEMMA ElemsAppend ==
    ASSUME NEW S, NEW s \in Seq(S), NEW x \in S
    PROVE  /\ Elems(Append(s, x)) = Elems(s) \union {x}
           /\ Distinct(s) /\ x \notin Elems(s) => Distinct(Append(s, x))
  <1> DEFINE r == Append(s, x)
  <1>1. /\ DOMAIN s = 1 .. Len(s) /\ Len(s) \in Nat
        /\ DOMAIN r = 1 .. Len(s) + 1
        /\ \A k \in 1 .. Len(s) : r[k] = s[k]
        /\ r[Len(s) + 1] = x
    OBVIOUS
  <1> HIDE DEF r
  <1>2. Elems(r) = Elems(s) \union {x}
    BY <1>1 DEF Elems
  <1>3. ASSUME Distinct(s), x \notin Elems(s) PROVE Distinct(r)
    BY <1>1, <1>3 DEF Elems, Distinct
  <1> QED
    BY <1>2, <1>3 DEF r

LEMMA ElemsTail ==
    ASSUME NEW S, NEW s \in Seq(S), s # << >>
    PROVE  /\ Head(s) \in Elems(s) /\ Head(s) \in S /\ Tail(s) \in Seq(S)
           /\ Len(Tail(s)) = Len(s) - 1 /\ Head(s) = s[1]
           /\ Distinct(s) => /\ Distinct(Tail(s))
                             /\ Elems(Tail(s)) = Elems(s) \ {Head(s)}
  <1> DEFINE r == Tail(s)
  <1>1. /\ DOMAIN s = 1 .. Len(s) /\ Len(s) \in Nat \ {0}
        /\ DOMAIN r = 1 .. Len(s) - 1 /\ r \in Seq(S) /\ Len(r) = Len(s) - 1
        /\ \A k \in 1 .. Len(s) - 1 : r[k] = s[k + 1]
        /\ Head(s) = s[1] /\ Head(s) \in S
    OBVIOUS
  <1> HIDE DEF r
  <1>2. Head(s) \in Elems(s)
    BY <1>1 DEF Elems
  <1>3. ASSUME Distinct(s) PROVE Distinct(r) /\ Elems(r) = Elems(s) \ {Head(s)}
    <2>1. Distinct(r)
      <3> SUFFICES ASSUME NEW j \in DOMAIN r, NEW k \in DOMAIN r, r[j] = r[k] PROVE j = k
        BY DEF Distinct
      <3>1. s[j + 1] = s[k + 1] /\ j + 1 \in DOMAIN s /\ k + 1 \in DOMAIN s
        BY <1>1
      <3>2. j + 1 = k + 1
        BY <1>3, <3>1 DEF Distinct
      <3> QED
        BY <1>1, <3>2
    <2>2. ASSUME NEW x \in Elems(r) PROVE x \in Elems(s) \ {Head(s)}
      <3>1. PICK k \in 1 .. Len(s) - 1 : x = s[k + 1]
        BY <1>1, <2>2 DEF Elems
      <3>2. k + 1 \in DOMAIN s /\ 1 \in DOMAIN s /\ k + 1 # 1
        BY <1>1
      <3> QED
        BY <1>1, <1>3, <3>1, <3>2 DEF Elems, Distinct
    <2>3. ASSUME NEW x \in Elems(s), x # Head(s) PROVE x \in Elems(r)
      <3>1. PICK k \in 1 .. Len(s) : x = s[k]
        BY <1>1 DEF Elems
      <3>2. k - 1 \in 1 .. Len(s) - 1 /\ s[(k - 1) + 1] = x
        BY <1>1, <2>3, <3>1
      <3> QED
        BY <1>1, <3>2 DEF Elems
    <2> QED
      BY <2>1, <2>2, <2>3
  <1> QED
    BY <1>1, <1>2, <1>3 DEF r

(* What the interrupt handler leaves in the mailbox. *)
LEMMA DropOne ==
    ASSUME NEW S, NEW s \in Seq(S), s # << >>
    PROVE  SubSeq(s, 2, Len(s)) = Tail(s)
  <1> DEFINE a == SubSeq(s, 2, Len(s))
             b == Tail(s)
  <1>1. Len(s) \in Nat \ {0}
    OBVIOUS
  <1>2. a \in Seq(S) /\ Len(a) = Len(s) - 1 /\ \A k \in 1 .. Len(s) - 1 : a[k] = s[k + 1]
    <2>1. \A i \in 2 .. Len(s) : s[i] \in S
      BY <1>1
    <2>2. a = [i \in 1 .. Len(s) - 1 |-> s[i + 1]]
      BY <1>1
    <2>3. a \in Seq(S)
      BY <1>1, <2>1
    <2> HIDE DEF a
    <2>4. Len(a) = Len(s) - 1
      BY <1>1, <2>2
    <2> QED
      BY <2>2, <2>3, <2>4
  <1>3. b \in Seq(S) /\ Len(b) = Len(s) - 1 /\ \A k \in 1 .. Len(s) - 1 : b[k] = s[k + 1]
    BY <1>1
  <1> HIDE DEF a, b
  <1>4. a = b
    BY <1>1, <1>2, <1>3
  <1> QED
    BY <1>4 DEF a, b

LEMMA DropTwo ==
    ASSUME NEW S, NEW s \in Seq(S), Len(s) >= 2
    PROVE  /\ SubSeq(s, 3, Len(s)) = Tail(Tail(s))
           /\ Tail(s) # << >> /\ Head(Tail(s)) = s[2]
  <1>0. Len(s) \in Nat /\ s # << >>
    OBVIOUS
  <1>1. Tail(s) \in Seq(S) /\ Len(Tail(s)) = Len(s) - 1 /\ Len(s) \in Nat
        /\ Tail(s) # << >>
    <2>1. Tail(s) \in Seq(S) /\ Len(Tail(s)) = Len(s) - 1
      BY <1>0
    <2> QED
      BY <1>0, <2>1
  <1>2. \A k \in 1 .. Len(s) - 1 : Tail(s)[k] = s[k + 1]
    OBVIOUS
  <1>3. Head(Tail(s)) = s[2]
    BY <1>1, <1>2
  <1> DEFINE a == SubSeq(s, 3, Len(s))
             b == Tail(Tail(s))
  <1>4. a \in Seq(S) /\ Len(a) = Len(s) - 2 /\ \A k \in 1 .. Len(s) - 2 : a[k] = s[k + 2]
    BY <1>1
  <1>5. b \in Seq(S) /\ Len(b) = Len(s) - 2
        /\ \A k \in 1 .. Len(s) - 2 : b[k] = Tail(s)[k + 1]
    BY <1>1
  <1>6. \A k \in 1 .. Len(s) - 2 : b[k] = s[k + 2]
    BY <1>1, <1>2, <1>5
  <1> HIDE DEF a, b
  <1>7. a = b
    BY <1>1, <1>4, <1>5, <1>6
  <1> QED
    BY <1>1, <1>3, <1>7 DEF a, b

-----------------------------------------------------------------------------
(* Steps of clients.  What they leave alone, and what has to be checked of *)
(* the client itself.                                                      *)
Elsewhere(c) ==
    /\ pc' \in [Threads -> ClientAt \union PumpAt] /\ pc'[c] \in ClientAt
    /\ \A d \in Client \ {c} : pc'[d] = pc[d]
    /\ \A t \in Threads \ {c} : gate'[t] = gate[t]
    /\ pc'[Pump] = pc[Pump] \/ (waiting_thread = NULL /\ pc'[Pump] = "wait")
    /\ waiting_thread' \in {waiting_thread, Pump}
    /\ waiting_thread' = NULL => pc'[Pump] = pc[Pump]
    /\ UNCHANGED <<toGPU, gpu, toARM, blocking_message, received_message, messages,
                   message>>
    /\ lock' = lock \/ {lock, lock'} \subseteq {c, NULL}
    /\ table_lock' = table_lock \/ {table_lock, table_lock'} \subseteq {c, NULL}
    /\ blocked_sending_thread' \in {blocked_sending_thread, c, NULL}
    /\ blocked_thread' \in {blocked_thread, c}

Right(c) ==
    /\ lock' = c <=> pc'[c] \in Locked
    /\ table_lock' = c <=> pc'[c] = "room"
    /\ blocked_sending_thread' = c => pc'[c] \in Polling
    /\ blocked_thread' = c => \/ pc'[c] = "wait_room" /\ gate'[c] = 0
                              \/ pc'[c] = "blocked_room" /\ gate'[c] = -1
    /\ pc'[c] \in Ready => Len(toGPU) < Depth
    /\ pc'[c] \notin Away => Held(c) = {}
    /\ pc'[c] \in {"release", "wait_answer"} => gate'[c] = IF Held(c) = {} THEN 1 ELSE 0
    /\ pc'[c] = "blocked_answer" => gate'[c] = IF Held(c) = {} THEN 0 ELSE -1
    /\ pc'[c] \in {"idle", "claim", "write"} \union Early => gate'[c] = 0
    /\ pc'[c] \in ({"wait_room", "enqueue"} \union Sending) \ {"asleep"} => gate'[c] >= 0

(* Messages stay where they are. *)
LEMMA HeldFrame ==
    ASSUME UNCHANGED <<toGPU, gpu, toARM, blocking_message, received_message, message>>,
           pc'[Pump] = "incoming" <=> pc[Pump] = "incoming"
    PROVE  \A c : Held(c)' = Held(c)
  BY DEF Held, Elems

LEMMA Labels ==
    /\ Early \subseteq Locked /\ InRoom \subseteq Locked /\ Sending \subseteq Locked
    /\ Polling \subseteq Sending /\ Ready \subseteq Sending
    /\ Locked \subseteq ClientAt /\ Away \subseteq ClientAt
    /\ "enqueue" \in Locked /\ "release" \in Locked /\ "room" \in Locked
    /\ "wait_room" \in Locked /\ "blocked_room" \in Locked
    /\ ClientAt \intersect PumpAt = {}
  BY DEF Early, InRoom, Polling, Ready, Sending, Locked, Away, ClientAt, PumpAt

LEMMA ClientInv ==
    ASSUME MailInv, TypeOK', NEW c \in Client, Elsewhere(c), Right(c)
    PROVE  MailInv'
  <1> USE DEF MailInv
  <1>0. c # NULL /\ c # Pump /\ \A d \in Client : d # NULL /\ d # Pump /\ d \in Threads
    BY DEF Threads
  <1>1. pc'[Pump] = "incoming" <=> pc[Pump] = "incoming"
    BY DEF Elsewhere, Types
  <1>2. \A d : Held(d)' = Held(d)
    BY <1>1, HeldFrame DEF Elsewhere
  <1>3. Types'
    <2>1. pc'[Pump] \in PumpAt
      BY DEF Elsewhere, Types, PumpAt
    <2>2. \A d \in Client : pc'[d] \in ClientAt
      BY DEF Elsewhere, Types
    <2>3. pc'[Pump] = "round" => messages' >= 1
      BY DEF Elsewhere, Types
    <2>4. pc'[Pump] = "incoming" => message' \in Client
      BY <1>1 DEF Elsewhere, Types
    <2>5. waiting_thread' = NULL => pc'[Pump] = "none"
      BY DEF Elsewhere, Types
    <2> QED
      BY <2>1, <2>2, <2>3, <2>4, <2>5 DEF Types, Elsewhere
  <1>4. LockInv'
    <2> SUFFICES ASSUME NEW d \in Client
                 PROVE  /\ lock' = d <=> pc'[d] \in Locked
                        /\ table_lock' = d <=> pc'[d] = "room"
      BY DEF LockInv, Locked, Early, InRoom, Sending, Polling
    <2>1. CASE d = c
      BY <2>1 DEF Right
    <2>2. CASE d # c
      BY <1>0, <2>2 DEF Elsewhere, LockInv
    <2> QED
      BY <2>1, <2>2
  <1>5. WakeInv'
    <2>1. ASSUME blocked_sending_thread' # NULL
          PROVE  pc'[blocked_sending_thread'] \in Polling
      BY <2>1 DEF Elsewhere, Right, WakeInv, TypeOK, Types
    <2>2. ASSUME blocked_thread' # NULL, blocked_thread' # c
          PROVE  \/ pc'[blocked_thread'] = "wait_room" /\ gate'[blocked_thread'] = 0
                 \/ pc'[blocked_thread'] = "blocked_room" /\ gate'[blocked_thread'] = -1
      BY <1>0, <2>2 DEF Elsewhere, WakeInv, TypeOK, Types
    <2> QED
      BY <2>1, <2>2 DEF Right, WakeInv
  <1>6. SpaceInv'
    BY DEF SpaceInv, Elsewhere, Right
  <1>7. OnePlace'
    BY <1>2 DEF OnePlace, Elsewhere, Distinct
  <1>8. FlightInv'
    <2> SUFFICES ASSUME NEW d \in Client
                 PROVE  /\ pc'[d] \notin Away => Held(d) = {}
                        /\ pc'[d] \in {"release", "wait_answer"} =>
                              gate'[d] = IF Held(d) = {} THEN 1 ELSE 0
                        /\ pc'[d] = "blocked_answer" =>
                              gate'[d] = IF Held(d) = {} THEN 0 ELSE -1
      BY <1>2 DEF FlightInv
    <2>1. CASE d = c
      BY <2>1 DEF Right
    <2>2. CASE d # c
      BY <1>0, <2>2 DEF Elsewhere, FlightInv
    <2> QED
      BY <2>1, <2>2
  <1>9. GateInv'
    <2> SUFFICES ASSUME NEW d \in Client
                 PROVE  /\ pc'[d] \in {"idle", "claim", "write"} \union Early => gate'[d] = 0
                        /\ pc'[d] \in ({"wait_room", "enqueue"} \union Sending) \ {"asleep"}
                              => gate'[d] >= 0
      BY DEF GateInv
    <2>1. CASE d = c
      BY <2>1 DEF Right
    <2>2. CASE d # c
      BY <1>0, <2>2 DEF Elsewhere, GateInv
    <2> QED
      BY <2>1, <2>2
  <1> QED
    BY <1>3, <1>4, <1>5, <1>6, <1>7, <1>8, <1>9

(* A step of one thread through its code. *)
LEMMA StepFacts ==
    ASSUME Types, NEW t \in Threads, NEW from, NEW to, Step(t, from, to)
    PROVE  /\ brk = NULL /\ pc[t] = from /\ pc'[t] = to
           /\ \A u \in Threads \ {t} : pc'[u] = pc[u]
           /\ to \in ClientAt \union PumpAt => pc' \in [Threads -> ClientAt \union PumpAt]
  BY DEF Types, Step

(* Steps in which a client only moves on. *)
LEMMA QuietInv ==
    ASSUME MailInv, NEW c \in Client,
           \/ Request(c) \/ Enqueue(c) \/ QueueMessage(c) \/ Poll(c)
    PROVE  MailInv'
  <1> USE DEF MailInv
  <1>0. c \in Threads /\ Pump \in Threads /\ c # Pump /\ c # NULL
    BY DEF Threads
  <1>1. PICK from, to :
           /\ Step(c, from, to)
           /\ \/ from = "idle" /\ to = "claim"
              \/ from = "enqueue" /\ to = "queue_message"
              \/ from = "queue_message" /\ to = "poll"
              \/ from = "poll" /\ to = "mailbox_full"
              \/ from = "poll" /\ to = "mailbox_ready" /\ ~NoRoom
    BY DEF Request, Enqueue, QueueMessage, Poll
  <1>2. to \in ClientAt
    BY <1>1 DEF ClientAt, Locked, Sending, Polling
  <1>3. /\ pc[c] = from /\ pc'[c] = to /\ pc' \in [Threads -> ClientAt \union PumpAt]
        /\ \A u \in Threads \ {c} : pc'[u] = pc[u]
    BY <1>0, <1>1, <1>2, StepFacts
  <1>4. UNCHANGED <<toGPU, gpu, toARM, blocking_message, received_message, waiting_thread,
                    blocked_sending_thread, blocked_thread, table_lock, lock, gate,
                    messages, message, found, brk, requests_tail, full>>
    BY DEF Request, Enqueue, QueueMessage, Poll, hardware, channel, table, pump
  <1>5. Elsewhere(c)
    BY <1>0, <1>2, <1>3, <1>4 DEF Elsewhere, Threads
  <1>6. Held(c) = {}
    BY <1>1, <1>3 DEF FlightInv, Away
  <1>7. to \in Ready => Len(toGPU) < Depth
    BY <1>1 DEF Ready, NoRoom, Types, TypeOK
  <1>8. /\ lock' = c <=> to \in Locked
        /\ table_lock' = c <=> to = "room"
        /\ blocked_sending_thread' = c => to \in Polling
        /\ blocked_thread' # c
        /\ to \notin Away
    BY <1>0, <1>1, <1>3, <1>4
    DEF LockInv, WakeInv, Locked, Early, InRoom, Sending, Polling, Away
  <1>9. gate'[c] >= 0 /\ (to = "claim" => gate'[c] = 0)
    BY <1>1, <1>3, <1>4 DEF GateInv, Sending, Polling
  <1>10. Right(c)
    BY <1>1, <1>3, <1>4, <1>6, <1>7, <1>8, <1>9 DEF Right, Away, Early
  <1>11. TypeOK'
    <2>1. CASE Request(c) \/ QueueMessage(c) \/ Poll(c)
      BY <2>1, <1>4 DEF Types, TypeOK, Request, QueueMessage, Poll, table
    <2>2. CASE Enqueue(c)
      <3>1. requests_head' \in Slot
        BY <2>2, SMTT(20) DEF Types, TypeOK, Enqueue, next_outstanding_request, Slot
      <3>2. requests' \in [Slot -> Client \union {NULL}]
        BY <2>2 DEF Types, TypeOK, Enqueue
      <3> QED
        BY <2>2, <3>1, <3>2, <1>4 DEF Types, TypeOK, Enqueue
    <2> QED
      BY <2>1, <2>2
  <1> QED
    BY <1>5, <1>10, <1>11, ClientInv

(* The two locks. *)
LEMMA LocksInv ==
    ASSUME MailInv, NEW c \in Client,
           \/ ClaimLock(c) \/ ReleaseLock(c) \/ LookForRoom(c) \/ LeaveTable(c)
    PROVE  MailInv'
  <1> USE DEF MailInv
  <1>0. c \in Threads /\ Pump \in Threads /\ c # Pump /\ c # NULL
    BY DEF Threads
  <1>1. PICK from, to :
           /\ Step(c, from, to)
           /\ \/ from = "claim" /\ to = "register" /\ lock = NULL /\ lock' = c
                 /\ UNCHANGED <<table_lock, blocked_thread>>
              \/ from = "release" /\ to = "wait_answer" /\ lock' = NULL
                 /\ UNCHANGED <<table_lock, blocked_thread>>
              \/ from = "claim_table" /\ to = "room" /\ table_lock = NULL /\ table_lock' = c
                 /\ UNCHANGED <<lock, blocked_thread>>
              \/ from = "room" /\ to = "enqueue" /\ table_lock' = NULL
                 /\ UNCHANGED <<lock, blocked_thread>>
              \/ from = "room" /\ to = "wait_room" /\ table_lock' = NULL
                 /\ blocked_thread' = c /\ UNCHANGED lock
    <2>1. CASE LeaveTable(c)
      BY <2>1 DEF LeaveTable
    <2>2. CASE ~LeaveTable(c)
      BY <2>2 DEF ClaimLock, ReleaseLock, LookForRoom, TableFree, table
    <2> QED
      BY <2>1, <2>2
  <1>2. to \in ClientAt
    BY <1>1 DEF ClientAt, Locked, Early, InRoom, Away
  <1>3. /\ pc[c] = from /\ pc'[c] = to /\ pc' \in [Threads -> ClientAt \union PumpAt]
        /\ \A u \in Threads \ {c} : pc'[u] = pc[u]
    BY <1>0, <1>1, <1>2, StepFacts
  <1>4. UNCHANGED <<toGPU, gpu, toARM, blocking_message, received_message, waiting_thread,
                    blocked_sending_thread, gate, messages, message, found, brk,
                    requests, requests_head, requests_tail, config>>
    BY DEF ClaimLock, ReleaseLock, LookForRoom, LeaveTable, hardware, channel, table, pump
  <1>5. /\ lock = c <=> from \in Locked
        /\ table_lock = c <=> from = "room"
        /\ blocked_sending_thread # c /\ blocked_thread # c
    BY <1>0, <1>1, <1>3 DEF LockInv, WakeInv, Polling
  <1>6. Elsewhere(c)
    BY <1>0, <1>1, <1>2, <1>3, <1>4, <1>5 DEF Elsewhere, Threads, Locked
  <1>7. CASE from = "release"
    <2>1. gate[c] = IF Held(c) = {} THEN 1 ELSE 0
      BY <1>3, <1>7 DEF FlightInv
    <2>2. Right(c)
      BY <1>0, <1>1, <1>3, <1>4, <1>5, <1>7, <2>1
      DEF Right, Away, Early, Locked, InRoom, Sending, Polling, Ready
    <2>3. TypeOK'
      BY <1>1, <1>4, <1>7 DEF Types, TypeOK, ReleaseLock, ClaimLock, LookForRoom, LeaveTable,
                             Step, table
    <2> QED
      BY <1>6, <2>2, <2>3, ClientInv
  <1>8. CASE from # "release"
    <2>1. Held(c) = {} /\ gate[c] = 0
      BY <1>1, <1>3, <1>8 DEF FlightInv, GateInv, Away, Early
    <2>2. /\ lock' = c <=> to \in Locked
          /\ table_lock' = c <=> to = "room"
          /\ to \notin Away \union Ready \union Polling
          /\ blocked_thread' = c => to = "wait_room"
      BY <1>0, <1>1, <1>5, <1>8 DEF Away, Locked, Early, InRoom, Sending, Ready, Polling
    <2>3. Right(c)
      BY <1>3, <1>4, <1>5, <2>1, <2>2 DEF Right, Away
    <2>4. TypeOK'
      <3>1. full' \in BOOLEAN
        BY DEF Types, TypeOK, ClaimLock, ReleaseLock, LookForRoom, LeaveTable, table
      <3>2. {blocked_thread', lock', table_lock'} \subseteq Client \union {NULL}
        BY <1>1 DEF Types, TypeOK
      <3> QED
        BY <1>4, <3>1, <3>2 DEF Types, TypeOK
    <2> QED
      BY <1>6, <2>3, <2>4, ClientInv
  <1> QED
    BY <1>7, <1>8

LEMMA RegisterInv == ASSUME MailInv, NEW c \in Client, Register(c) PROVE MailInv'
  <1> USE DEF MailInv
  <1>0. c \in Threads /\ Pump \in Threads /\ c # Pump /\ c # NULL
    BY DEF Threads
  <1>1. /\ pc[c] = "register" /\ pc'[c] = "claim_table"
        /\ pc'[Pump] = IF waiting_thread = NULL THEN "wait" ELSE pc[Pump]
        /\ \A u \in Threads \ {c, Pump} : pc'[u] = pc[u]
        /\ pc' \in [Threads -> ClientAt \union PumpAt]
    <2>1. "claim_table" \in ClientAt /\ "wait" \in PumpAt
      BY DEF ClientAt, PumpAt, Locked, Early
    <2> QED
      BY <1>0, <2>1 DEF Register, Types
  <1>2. /\ waiting_thread' = Pump
        /\ UNCHANGED <<toGPU, gpu, toARM, config, blocking_message, received_message,
                       blocked_sending_thread, requests, requests_head, requests_tail,
                       blocked_thread, table_lock, full, lock, gate, messages, message,
                       found, brk>>
    BY DEF Register, hardware, table, pump
  <1>3. Elsewhere(c)
    BY <1>0, <1>1, <1>2 DEF Elsewhere, ClientAt, Locked, Early, Threads
  <1>4. /\ Held(c) = {} /\ gate[c] = 0 /\ lock = c /\ table_lock # c
        /\ blocked_sending_thread # c /\ blocked_thread # c
    BY <1>0, <1>1 DEF FlightInv, GateInv, LockInv, WakeInv, Away, Early, Locked, Polling
  <1>5. Right(c)
    BY <1>0, <1>1, <1>2, <1>4
    DEF Right, Away, Early, Locked, InRoom, Sending, Polling, Ready
  <1>6. TypeOK'
    BY <1>2 DEF Types, TypeOK
  <1> QED
    BY <1>3, <1>5, <1>6, ClientInv

(* Waiting, and being woken. *)
LEMMA WaitsInv ==
    ASSUME MailInv, NEW c \in Client,
           WaitForRoom(c) \/ Sleep(c) \/ SleepTimesOut(c) \/ WaitForAnswer(c)
    PROVE  MailInv'
  <1> USE DEF MailInv
  <1>0. c \in Threads /\ Pump \in Threads /\ c # Pump /\ c # NULL
    BY DEF Threads
  <1>g. gate \in [Threads -> -1 .. GateMax]
    BY DEF Types, TypeOK
  <1>1. PICK from, to, new :
           /\ Step(c, from, to) /\ gate' = [gate EXCEPT ![c] = new]
           /\ \/ from = "wait_room" /\ to = "blocked_room" /\ gate[c] = 0 /\ new = -1
              \/ from = "wait_room" /\ to = "enqueue" /\ gate[c] > 0 /\ new = 0
              \/ from = "blocked_room" /\ to = "enqueue" /\ gate[c] # -1 /\ new = gate[c]
              \/ from = "sleep" /\ to = "asleep" /\ gate[c] = 0 /\ new = -1
              \/ from = "sleep" /\ to = "poll" /\ gate[c] > 0 /\ new = 0
              \/ from = "asleep" /\ to = "poll" /\ gate[c] # -1 /\ new = gate[c]
              \/ from = "asleep" /\ to = "poll" /\ gate[c] = -1 /\ new = 0
              \/ from = "wait_answer" /\ to = "blocked_answer" /\ gate[c] = 0 /\ new = -1
              \/ from = "wait_answer" /\ to = "idle" /\ gate[c] > 0 /\ new = 0
              \/ from = "blocked_answer" /\ to = "idle" /\ gate[c] # -1 /\ new = gate[c]
    <2>1. UNCHANGED gate => gate' = [gate EXCEPT ![c] = gate[c]]
      BY <1>0, <1>g
    <2>2. CASE WaitForRoom(c)
      BY <2>1, <2>2 DEF WaitForRoom, Block, Pass
    <2>3. CASE Sleep(c) \/ SleepTimesOut(c)
      BY <2>1, <2>3 DEF Sleep, SleepTimesOut, Block, Pass
    <2>4. CASE WaitForAnswer(c)
      BY <2>1, <2>4 DEF WaitForAnswer, Block, Pass
    <2> QED
      BY <2>2, <2>3, <2>4
  <1>2. to \in ClientAt
    BY <1>1 DEF ClientAt, Locked, InRoom, Sending, Polling, Away
  <1>3. /\ pc[c] = from /\ pc'[c] = to /\ pc' \in [Threads -> ClientAt \union PumpAt]
        /\ \A u \in Threads \ {c} : pc'[u] = pc[u]
    BY <1>0, <1>1, <1>2, StepFacts
  <1>4. UNCHANGED <<toGPU, gpu, toARM, config, blocking_message, received_message,
                    waiting_thread, blocked_sending_thread, requests, requests_head,
                    requests_tail, blocked_thread, table_lock, full, lock, messages,
                    message, found, brk>>
    BY DEF WaitForRoom, Sleep, SleepTimesOut, WaitForAnswer, hardware, channel, table, pump
  <1>5. /\ gate' \in [Threads -> -1 .. GateMax] /\ gate'[c] = new
        /\ \A t \in Threads \ {c} : gate'[t] = gate[t]
    <2>1. gate[c] \in -1 .. GateMax
      BY <1>0, <1>g
    <2>2. new \in -1 .. GateMax
      BY <1>1, <2>1
    <2> QED
      BY <1>0, <1>1, <1>g, <2>2
  <1>6. Elsewhere(c)
    BY <1>0, <1>2, <1>3, <1>4, <1>5 DEF Elsewhere, Threads
  <1>7. TypeOK'
    BY <1>4, <1>5 DEF Types, TypeOK
  <1>8. /\ lock = c <=> from \in Locked
        /\ table_lock # c
        /\ blocked_sending_thread = c => from \in {"sleep", "asleep"}
        /\ blocked_thread = c => \/ from = "wait_room" /\ gate[c] = 0
                                 \/ from = "blocked_room" /\ gate[c] = -1
    BY <1>0, <1>1, <1>3 DEF LockInv, WakeInv, Polling
  <1>9. CASE from \in {"wait_answer", "blocked_answer"}
    <2>1. /\ from = "wait_answer" => gate[c] = IF Held(c) = {} THEN 1 ELSE 0
          /\ from = "blocked_answer" => gate[c] = IF Held(c) = {} THEN 0 ELSE -1
      BY <1>3, <1>9 DEF FlightInv
    <2>2. Right(c)
      BY <1>0, <1>1, <1>3, <1>4, <1>5, <1>8, <1>9, <2>1
      DEF Right, Away, Early, Locked, InRoom, Sending, Polling, Ready
    <2> QED
      BY <1>6, <1>7, <2>2, ClientInv
  <1>10. CASE from \notin {"wait_answer", "blocked_answer"}
    <2>1. Held(c) = {}
      BY <1>1, <1>3, <1>10 DEF FlightInv, Away
    <2>2. /\ lock' = c <=> to \in Locked
          /\ to \notin Away \union Ready \union Early /\ to # "room"
          /\ to \in {"poll", "enqueue"} => new >= 0
          /\ to \in {"poll", "enqueue", "blocked_room", "asleep"}
          /\ to = "blocked_room" => to \notin Sending
      <3>1. gate[c] \in -1 .. GateMax
        BY <1>0, <1>g
      <3> QED
        BY <1>1, <1>4, <1>8, <1>10, <3>1
        DEF Away, Locked, Early, InRoom, Sending, Ready, Polling
    <2>3. /\ blocked_thread' = c => to = "blocked_room" /\ new = -1
          /\ blocked_sending_thread' = c => to \in Polling
      BY <1>1, <1>4, <1>8 DEF Polling
    <2>4. Right(c)
      BY <1>3, <1>4, <1>5, <1>8, <2>1, <2>2, <2>3 DEF Right, Away, Early, Ready
    <2> QED
      BY <1>6, <1>7, <2>4, ClientInv
  <1> QED
    BY <1>9, <1>10


(* Room in the mailbox, and the wake that queue_message clears. *)
LEMMA RoomsInv ==
    ASSUME MailInv, NEW c \in Client, MailboxFull(c) \/ MailboxReady(c) \/ ClearGate(c)
    PROVE  MailInv'
  <1> USE DEF MailInv
  <1>0. c \in Threads /\ Pump \in Threads /\ c # Pump /\ c # NULL
    BY DEF Threads
  <1>g. gate \in [Threads -> -1 .. GateMax]
    BY DEF Types, TypeOK
  <1>1. PICK from, to, new :
           /\ Step(c, from, to) /\ gate' = [gate EXCEPT ![c] = new]
           /\ \/ from = "mailbox_full" /\ to = "sleep" /\ new = gate[c]
                 /\ blocked_sending_thread' = c
              \/ from = "mailbox_ready" /\ to = "clear_gate" /\ new = gate[c]
                 /\ blocked_sending_thread' = NULL
              \/ from = "clear_gate" /\ to = "write" /\ new = 0
                 /\ blocked_sending_thread' = blocked_sending_thread
    <2>1. UNCHANGED gate => gate' = [gate EXCEPT ![c] = gate[c]]
      BY <1>0, <1>g
    <2> QED
      BY <2>1 DEF MailboxFull, MailboxReady, ClearGate, Cleared
  <1>2. to \in ClientAt
    BY <1>1 DEF ClientAt, Locked, Sending, Polling
  <1>3. /\ pc[c] = from /\ pc'[c] = to /\ pc' \in [Threads -> ClientAt \union PumpAt]
        /\ \A u \in Threads \ {c} : pc'[u] = pc[u]
    BY <1>0, <1>1, <1>2, StepFacts
  <1>4. UNCHANGED <<toGPU, gpu, toARM, config, blocking_message, received_message,
                    waiting_thread, requests, requests_head, requests_tail,
                    blocked_thread, table_lock, full, lock, messages, message, found, brk>>
    BY DEF MailboxFull, MailboxReady, ClearGate, hardware, channel, table, pump
  <1>5. /\ gate' \in [Threads -> -1 .. GateMax] /\ gate'[c] = new
        /\ \A t \in Threads \ {c} : gate'[t] = gate[t]
        /\ new >= 0
    <2>1. gate[c] \in -1 .. GateMax /\ gate[c] >= 0
      BY <1>0, <1>1, <1>3, <1>g DEF GateInv, Sending, Polling
    <2>2. new \in -1 .. GateMax /\ new >= 0
      BY <1>1, <2>1
    <2> QED
      BY <1>0, <1>1, <1>g, <2>2
  <1>6. Elsewhere(c)
    BY <1>0, <1>1, <1>2, <1>3, <1>4, <1>5 DEF Elsewhere, Threads
  <1>7. TypeOK'
    <2>1. blocked_sending_thread' \in Client \union {NULL}
      BY <1>1 DEF Types, TypeOK
    <2> QED
      BY <1>4, <1>5, <2>1 DEF Types, TypeOK
  <1>8. /\ lock = c /\ table_lock # c /\ blocked_thread # c
        /\ blocked_sending_thread = c => from # "clear_gate"
        /\ Held(c) = {}
        /\ to # "sleep" => Len(toGPU) < Depth
    BY <1>0, <1>1, <1>3
    DEF LockInv, WakeInv, FlightInv, SpaceInv, Away, Locked, Sending, Polling, Ready
  <1>9. /\ to \in Locked /\ to # "room" /\ to \notin Away \union Early
        /\ to = "sleep" => to \in Polling /\ to \notin Ready
        /\ blocked_sending_thread' = c => to = "sleep"
    BY <1>0, <1>1, <1>8 DEF Away, Early, Locked, Sending, Polling, Ready
  <1>10. Right(c)
    BY <1>1, <1>3, <1>4, <1>5, <1>8, <1>9 DEF Right, Away
  <1> QED
    BY <1>6, <1>7, <1>10, ClientInv

-----------------------------------------------------------------------------
(* Messages on the move. *)
HeldAs(c) ==
    /\ "toGPU" \in Held(c) <=> c \in Elems(toGPU)
    /\ "gpu" \in Held(c) <=> c \in gpu
    /\ "toARM" \in Held(c) <=> c \in Elems(toARM)
    /\ "blocking" \in Held(c) <=> c = blocking_message
    /\ "received" \in Held(c) <=> c = received_message
    /\ "message" \in Held(c) <=> c = message /\ pc[Pump] = "incoming"
    /\ Held(c) \subseteq {"toGPU", "gpu", "toARM", "blocking", "received", "message"}

LEMMA HeldIs == \A c : HeldAs(c) /\ HeldAs(c)'
  BY DEF HeldAs, Held

(* A buffer that is in one place is in no other. *)
LEMMA HeldOnly ==
    ASSUME OnePlace, NEW c \in Client, NEW w \in Held(c)
    PROVE  Held(c) = {w}
  BY DEF OnePlace

(* Steps of the pump, of the GPU and of the interrupt handler.  A client   *)
(* is left alone, or woken in one of its waits, or it gets its answer.     *)
Stays(c) == gate'[c] = gate[c] /\ (Held(c)' = {} <=> Held(c) = {})

Stirred(c) ==
    /\ pc[c] \in Polling \union InRoom /\ blocked_thread' # c
    /\ gate'[c] >= 0
    /\ Held(c)' = {}

Gets(c) == Held(c) # {} /\ Held(c)' = {} /\ gate'[c] = gate[c] + 1

Others ==
    /\ \A c \in Client : pc'[c] = pc[c]
    /\ UNCHANGED <<lock, table_lock, blocked_sending_thread>>
    /\ blocked_thread' \in {blocked_thread, NULL}
    /\ Len(toGPU') <= Len(toGPU)
    /\ \A c \in Client : Stays(c) \/ Stirred(c) \/ Gets(c)

LEMMA OthersInv ==
    ASSUME MailInv, Types', OnePlace', Others
    PROVE  MailInv'
  <1> USE DEF MailInv
  <1>0. NULL \notin Client /\ Client \subseteq Threads
    BY DEF Threads
  <1>g. gate \in [Threads -> -1 .. GateMax] /\ gate' \in [Threads -> -1 .. GateMax]
    BY DEF Types, TypeOK
  <1>t. \A c \in Client : Gets(c) => pc[c] \in Away
    BY DEF Gets, FlightInv
  <1>1. LockInv'
    BY DEF LockInv, Others
  <1>2. WakeInv'
    <2>1. ASSUME blocked_sending_thread' # NULL
          PROVE  pc'[blocked_sending_thread'] \in Polling
      BY <2>1 DEF Others, WakeInv, Types, TypeOK
    <2>2. ASSUME blocked_thread' # NULL
          PROVE  \/ pc'[blocked_thread'] = "wait_room" /\ gate'[blocked_thread'] = 0
                 \/ pc'[blocked_thread'] = "blocked_room" /\ gate'[blocked_thread'] = -1
      <3>1. /\ blocked_thread' = blocked_thread /\ blocked_thread \in Client
            /\ pc'[blocked_thread] = pc[blocked_thread]
        BY <2>2 DEF Others, Types, TypeOK
      <3>2. ~Gets(blocked_thread) /\ ~Stirred(blocked_thread)
        BY <1>t, <2>2, <3>1 DEF WakeInv, Away, Stirred
      <3> QED
        BY <2>2, <3>1, <3>2 DEF Others, Stays, WakeInv
    <2> QED
      BY <2>1, <2>2 DEF WakeInv
  <1>3. SpaceInv'
    <2>1. Len(toGPU) \in Nat /\ Len(toGPU') \in Nat
      BY DEF Types, TypeOK
    <2> QED
      BY <2>1 DEF SpaceInv, Others
  <1>4. FlightInv'
    <2> SUFFICES ASSUME NEW c \in Client
                 PROVE  /\ pc[c] \notin Away => Held(c)' = {}
                        /\ pc[c] \in {"release", "wait_answer"} =>
                              gate'[c] = IF Held(c)' = {} THEN 1 ELSE 0
                        /\ pc[c] = "blocked_answer" =>
                              gate'[c] = IF Held(c)' = {} THEN 0 ELSE -1
      BY DEF FlightInv, Others
    <2>1. CASE Stays(c)
      BY <2>1 DEF Stays, FlightInv
    <2>2. CASE Stirred(c)
      BY <2>2 DEF Stirred, Polling, InRoom
    <2>3. CASE Gets(c)
      BY <1>t, <2>3 DEF Gets, FlightInv
    <2> QED
      BY <2>1, <2>2, <2>3 DEF Others
  <1>5. GateInv'
    <2> SUFFICES ASSUME NEW c \in Client
                 PROVE  /\ pc[c] \in {"idle", "claim", "write"} \union Early => gate'[c] = 0
                        /\ pc[c] \in ({"wait_room", "enqueue"} \union Sending) \ {"asleep"}
                              => gate'[c] >= 0
      BY DEF GateInv, Others
    <2>1. CASE Stays(c)
      BY <2>1 DEF Stays, GateInv
    <2>2. CASE Stirred(c)
      BY <2>2 DEF Stirred, Polling, InRoom, Early
    <2>3. CASE Gets(c)
      BY <1>t, <2>3 DEF Away, Early, Sending, Polling
    <2> QED
      BY <2>1, <2>2, <2>3 DEF Others
  <1> QED
    BY <1>1, <1>2, <1>3, <1>4, <1>5


LEMMA WriteInv == ASSUME MailInv, NEW c \in Client, Write(c) PROVE MailInv'
  <1> USE DEF MailInv
  <1>0. /\ c \in Threads /\ Pump \in Threads /\ c # Pump /\ c # NULL
        /\ Client \subseteq Threads /\ NULL \notin Client
    BY DEF Threads
  <1>1. "release" \in ClientAt
    BY DEF ClientAt, Away
  <1>2. Step(c, "write", "release")
    BY DEF Write
  <1>3. /\ pc[c] = "write" /\ pc'[c] = "release"
        /\ pc' \in [Threads -> ClientAt \union PumpAt]
        /\ \A u \in Threads \ {c} : pc'[u] = pc[u]
    BY <1>0, <1>1, <1>2, StepFacts
  <1>4. /\ toGPU' = Append(toGPU, c)
        /\ UNCHANGED <<gpu, toARM, config, blocking_message, received_message,
                       waiting_thread, blocked_sending_thread, requests, requests_head,
                       requests_tail, blocked_thread, table_lock, full, lock, gate,
                       messages, message, found, brk>>
    BY DEF Write, channel, table, pump
  <1>5. /\ toGPU \in Seq(Client) /\ Len(toGPU) < Depth /\ Held(c) = {} /\ gate[c] = 0
        /\ lock = c /\ table_lock # c /\ blocked_thread # c /\ blocked_sending_thread # c
    BY <1>0, <1>3 DEF Types, TypeOK, SpaceInv, FlightInv, GateInv, LockInv, WakeInv,
                     Ready, Away, Locked, Sending, Polling
  <1>6. c \notin Elems(toGPU)
    BY <1>5, HeldIs DEF HeldAs
  <1>7. /\ toGPU' \in Seq(Client) /\ Len(toGPU') = Len(toGPU) + 1
        /\ Elems(toGPU)' = Elems(toGPU) \union {c}
        /\ Distinct(toGPU)'
    <2>1. /\ Elems(Append(toGPU, c)) = Elems(toGPU) \union {c}
          /\ Distinct(Append(toGPU, c))
      BY <1>5, <1>6, ElemsAppend DEF OnePlace
    <2> QED
      BY <1>4, <1>5, <2>1 DEF Elems, Distinct
  <1>8. \A d \in Client \ {c} : Held(d)' = Held(d)
    BY <1>0, <1>3, <1>4, <1>7 DEF Held, Elems
  <1>9. Held(c)' = {"toGPU"}
    <2>1. HeldAs(c) /\ HeldAs(c)'
      BY HeldIs
    <2>2. "toGPU" \in Held(c)'
      BY <1>7, <2>1 DEF HeldAs
    <2>3. /\ "gpu" \notin Held(c)' /\ "toARM" \notin Held(c)' /\ "blocking" \notin Held(c)'
          /\ "received" \notin Held(c)' /\ "message" \notin Held(c)'
      BY <1>0, <1>3, <1>4, <1>5, <2>1 DEF HeldAs, Elems
    <2>4. Held(c)' \subseteq {"toGPU", "gpu", "toARM", "blocking", "received", "message"}
      BY <2>1 DEF HeldAs
    <2> QED
      BY <2>2, <2>3, <2>4
  <1>10. Types'
    <2>1. Len(toGPU') <= Depth
      BY <1>5, <1>7
    <2>2. TypeOK'
      BY <1>4, <1>7, <2>1 DEF Types, TypeOK
    <2>3. pc'[Pump] = pc[Pump] /\ \A d \in Client : pc'[d] \in ClientAt
      BY <1>0, <1>1, <1>3 DEF Types
    <2> QED
      BY <1>3, <1>4, <2>2, <2>3 DEF Types
  <1>11. LockInv'
    <2>1. "write" \in Locked /\ "release" \in Locked
      BY DEF Locked, Sending
    <2> QED
      BY <1>0, <1>3, <1>4, <1>5, <2>1 DEF LockInv
  <1>12. WakeInv'
    BY <1>0, <1>3, <1>4, <1>5 DEF WakeInv, Types, TypeOK
  <1>13. SpaceInv'
    <2> SUFFICES ASSUME NEW d \in Client, pc'[d] \in Ready PROVE FALSE
      BY DEF SpaceInv
    <2>1. pc'[d] \in Locked
      BY Labels
    <2>2. d = c
      BY <1>0, <1>4, <1>5, <1>11, <2>1 DEF LockInv
    <2> QED
      BY <1>3, <2>2 DEF Ready
  <1>14. OnePlace'
    <2>1. Distinct(toARM)'
      BY <1>4 DEF OnePlace, Distinct
    <2>2. \A d \in Client : \A v, w \in Held(d)' : v = w
      BY <1>8, <1>9 DEF OnePlace
    <2> QED
      BY <1>7, <2>1, <2>2 DEF OnePlace
  <1>15. FlightInv'
    <2> SUFFICES ASSUME NEW d \in Client
                 PROVE  /\ pc'[d] \notin Away => Held(d)' = {}
                        /\ pc'[d] \in {"release", "wait_answer"} =>
                              gate'[d] = IF Held(d)' = {} THEN 1 ELSE 0
                        /\ pc'[d] = "blocked_answer" =>
                              gate'[d] = IF Held(d)' = {} THEN 0 ELSE -1
      BY DEF FlightInv
    <2>1. CASE d = c
      BY <1>3, <1>4, <1>5, <1>9, <2>1 DEF Away
    <2>2. CASE d # c
      BY <1>0, <1>3, <1>4, <1>8, <2>2 DEF FlightInv
    <2> QED
      BY <2>1, <2>2
  <1>16. GateInv'
    <2> SUFFICES ASSUME NEW d \in Client
                 PROVE  /\ pc'[d] \in {"idle", "claim", "write"} \union Early => gate'[d] = 0
                        /\ pc'[d] \in ({"wait_room", "enqueue"} \union Sending) \ {"asleep"}
                              => gate'[d] >= 0
      BY DEF GateInv
    <2>1. CASE d = c
      BY <1>3, <1>4, <1>5, <2>1
    <2>2. CASE d # c
      BY <1>0, <1>3, <1>4, <2>2 DEF GateInv
    <2> QED
      BY <2>1, <2>2
  <1> QED
    BY <1>10, <1>11, <1>12, <1>13, <1>14, <1>15, <1>16

-----------------------------------------------------------------------------
(* The GPU. *)
LEMMA GPUTakeInv == ASSUME MailInv, GPUTake PROVE MailInv'
  <1> USE DEF MailInv
  <1>1. PICK m : m = Head(toGPU)
    OBVIOUS
  <1>2. /\ toGPU \in Seq(Client) /\ toGPU # << >> /\ toGPU' = Tail(toGPU)
        /\ gpu' = gpu \union {m}
        /\ UNCHANGED <<toARM, config, blocking_message, received_message,
                       waiting_thread, blocked_sending_thread, requests, requests_head,
                       requests_tail, blocked_thread, table_lock, full, lock, gate, pc,
                       messages, message, found, brk>>
    BY <1>1 DEF GPUTake, channel, table, pump, Types, TypeOK
  <1>3. /\ m \in Client /\ m \in Elems(toGPU)
        /\ Tail(toGPU) \in Seq(Client) /\ Len(Tail(toGPU)) = Len(toGPU) - 1
        /\ Distinct(Tail(toGPU)) /\ Elems(Tail(toGPU)) = Elems(toGPU) \ {m}
    BY <1>1, <1>2, ElemsTail DEF OnePlace
  <1>4. /\ toGPU' \in Seq(Client) /\ Len(toGPU') = Len(toGPU) - 1
        /\ Distinct(toGPU)' /\ Elems(toGPU)' = Elems(toGPU) \ {m}
    BY <1>2, <1>3 DEF Distinct, Elems
  <1>5. \A d \in Client \ {m} : Held(d)' = Held(d)
    BY <1>2, <1>4, SMTT(30) DEF Held, Elems
  <1>6. Held(m) = {"toGPU"} /\ Held(m)' = {"gpu"}
    <2>1. HeldAs(m) /\ HeldAs(m)'
      BY HeldIs
    <2>2. Held(m) = {"toGPU"}
      BY <1>3, <2>1, HeldOnly DEF HeldAs
    <2>3. "gpu" \in Held(m)' /\ "toGPU" \notin Held(m)'
      BY <1>2, <1>4, <2>1 DEF HeldAs
    <2>4. /\ "toARM" \notin Held(m)' /\ "blocking" \notin Held(m)'
          /\ "received" \notin Held(m)' /\ "message" \notin Held(m)'
      BY <1>2, <2>1, <2>2 DEF HeldAs, Elems
    <2>5. Held(m)' \subseteq {"toGPU", "gpu", "toARM", "blocking", "received", "message"}
      BY <2>1 DEF HeldAs
    <2> QED
      BY <2>2, <2>3, <2>4, <2>5
  <1>7. Types'
    <2>1. Len(toGPU') <= Depth /\ gpu' \subseteq Client
      BY <1>2, <1>3, <1>4 DEF Types, TypeOK
    <2> QED
      BY <1>2, <1>4, <2>1 DEF Types, TypeOK
  <1>8. OnePlace'
    <2>1. Distinct(toARM)'
      BY <1>2 DEF OnePlace, Distinct
    <2>2. \A d \in Client : \A v, w \in Held(d)' : v = w
      BY <1>5, <1>6 DEF OnePlace
    <2> QED
      BY <1>4, <2>1, <2>2 DEF OnePlace
  <1>9. Others
    <2>1. Len(toGPU') <= Len(toGPU)
      BY <1>2, <1>4
    <2>2. \A c \in Client : Stays(c)
      BY <1>2, <1>5, <1>6 DEF Stays
    <2> QED
      BY <1>2, <2>1, <2>2 DEF Others
  <1> QED
    BY <1>7, <1>8, <1>9, OthersInv

LEMMA GPUAnswerInv == ASSUME MailInv, NEW m \in Client, GPUAnswer(m) PROVE MailInv'
  <1> USE DEF MailInv
  <1>2. /\ toARM \in Seq(Client) /\ Len(toARM) < Depth /\ toARM' = Append(toARM, m)
        /\ m \in gpu /\ gpu' = gpu \ {m}
        /\ UNCHANGED <<toGPU, config, blocking_message, received_message,
                       waiting_thread, blocked_sending_thread, requests, requests_head,
                       requests_tail, blocked_thread, table_lock, full, lock, gate, pc,
                       messages, message, found, brk>>
    BY DEF GPUAnswer, channel, table, pump, Types, TypeOK
  <1>3. Held(m) = {"gpu"}
    BY <1>2, HeldIs, HeldOnly DEF HeldAs
  <1>4. m \notin Elems(toARM)
    BY <1>3, HeldIs DEF HeldAs
  <1>5. /\ toARM' \in Seq(Client) /\ Len(toARM') = Len(toARM) + 1
        /\ Distinct(toARM)' /\ Elems(toARM)' = Elems(toARM) \union {m}
    <2>1. /\ Elems(Append(toARM, m)) = Elems(toARM) \union {m}
          /\ Distinct(Append(toARM, m))
      BY <1>2, <1>4, ElemsAppend DEF OnePlace
    <2> QED
      BY <1>2, <2>1 DEF Elems, Distinct
  <1>6. \A d \in Client \ {m} : Held(d)' = Held(d)
    BY <1>2, <1>5 DEF Held, Elems
  <1>7. Held(m)' = {"toARM"}
    <2>1. HeldAs(m) /\ HeldAs(m)'
      BY HeldIs
    <2>2. "toARM" \in Held(m)' /\ "gpu" \notin Held(m)'
      BY <1>2, <1>5, <2>1 DEF HeldAs
    <2>3. /\ "toGPU" \notin Held(m)' /\ "blocking" \notin Held(m)'
          /\ "received" \notin Held(m)' /\ "message" \notin Held(m)'
      BY <1>2, <1>3, <2>1 DEF HeldAs, Elems
    <2>4. Held(m)' \subseteq {"toGPU", "gpu", "toARM", "blocking", "received", "message"}
      BY <2>1 DEF HeldAs
    <2> QED
      BY <2>2, <2>3, <2>4
  <1>8. Types'
    BY <1>2, <1>5 DEF Types, TypeOK
  <1>9. OnePlace'
    <2>1. Distinct(toGPU)'
      BY <1>2 DEF OnePlace, Distinct
    <2>2. \A d \in Client : \A v, w \in Held(d)' : v = w
      BY <1>6, <1>7 DEF OnePlace
    <2> QED
      BY <1>5, <2>1, <2>2 DEF OnePlace
  <1>10. Others
    <2>1. Len(toGPU') <= Len(toGPU)
      BY <1>2 DEF Types, TypeOK
    <2>2. \A c \in Client : Stays(c)
      BY <1>2, <1>3, <1>6, <1>7 DEF Stays
    <2> QED
      BY <1>2, <2>1, <2>2 DEF Others
  <1> QED
    BY <1>8, <1>9, <1>10, OthersInv


-----------------------------------------------------------------------------
(* Wakes. *)
LEMMA WokenIs ==
    ASSUME NEW g \in [Threads -> -1 .. GateMax], NEW t \in Threads \union {NULL}
    PROVE  /\ Woken(g, t) \in [Threads -> -1 .. GateMax]
           /\ \A u \in Threads \ {t} : Woken(g, t)[u] = g[u]
           /\ t \in Threads /\ g[t] < GateMax => Woken(g, t)[t] = g[t] + 1
           /\ t \in Threads => Woken(g, t)[t] >= 0
  <1>1. CASE t = NULL
    BY <1>1 DEF Woken, Threads
  <1>2. CASE t # NULL
    <2>1. PICK new : new = IF g[t] < GateMax THEN g[t] + 1 ELSE g[t]
      OBVIOUS
    <2>2. new \in -1 .. GateMax /\ new >= 0 /\ g[t] \in -1 .. GateMax
      BY <1>2, <2>1
    <2>3. Woken(g, t) = [g EXCEPT ![t] = new]
      BY <1>2, <2>1 DEF Woken
    <2> QED
      BY <1>2, <2>1, <2>2, <2>3
  <1> QED
    BY <1>1, <1>2

(* What the interrupt handler does to the gates. *)
Stirring ==
    /\ gate' \in [Threads -> -1 .. GateMax]
    /\ \A c \in Client : gate'[c] = gate[c] \/ (pc[c] \in Polling /\ gate'[c] >= 0)

LEMMA InterruptWakes ==
    ASSUME MailInv,
           \/ gate' = Woken(gate, blocked_sending_thread)
           \/ gate' = Woken(Woken(gate, waiting_thread), blocked_sending_thread)
    PROVE  Stirring
  <1> USE DEF MailInv
  <1>1. /\ gate \in [Threads -> -1 .. GateMax]
        /\ waiting_thread \in Threads \union {NULL} /\ waiting_thread \notin Client
        /\ blocked_sending_thread \in Threads \union {NULL}
        /\ Client \subseteq Threads
    BY DEF Types, TypeOK, Threads
  <1>2. PICK g : g = Woken(gate, waiting_thread)
    OBVIOUS
  <1>3. g \in [Threads -> -1 .. GateMax] /\ \A c \in Client : g[c] = gate[c]
    BY <1>1, <1>2, WokenIs
  <1>4. ASSUME NEW h \in [Threads -> -1 .. GateMax], \A c \in Client : h[c] = gate[c],
               gate' = Woken(h, blocked_sending_thread)
        PROVE  Stirring
    <2>1. /\ gate' \in [Threads -> -1 .. GateMax]
          /\ \A u \in Threads \ {blocked_sending_thread} : gate'[u] = h[u]
          /\ blocked_sending_thread \in Threads => gate'[blocked_sending_thread] >= 0
      BY <1>1, <1>4, WokenIs
    <2>2. ASSUME NEW c \in Client, c = blocked_sending_thread
          PROVE  pc[c] \in Polling /\ gate'[c] >= 0
      BY <1>1, <2>1, <2>2 DEF WakeInv
    <2>3. ASSUME NEW c \in Client
          PROVE  gate'[c] = gate[c] \/ (pc[c] \in Polling /\ gate'[c] >= 0)
      <3>1. CASE c = blocked_sending_thread
        BY <2>2, <3>1
      <3>2. CASE c # blocked_sending_thread
        BY <1>1, <1>4, <2>1, <3>2
      <3> QED
        BY <3>1, <3>2
    <2> QED
      BY <2>1, <2>3 DEF Stirring
  <1> QED
    BY <1>1, <1>2, <1>3, <1>4

(* Once the messages are where they should be, the rest follows. *)
LEMMA InterruptFrame ==
    ASSUME MailInv,
           UNCHANGED <<toGPU, gpu, waiting_thread, blocked_sending_thread, requests,
                       requests_head, requests_tail, blocked_thread, table_lock, full,
                       lock, pc, messages, message, found>>,
           brk' \in {NULL, 4, 5}, config' \in BOOLEAN,
           toARM' \in Seq(Client), Len(toARM') <= Depth, Distinct(toARM)',
           {blocking_message', received_message'} \subseteq Client \union {NULL},
           Stirring,
           \A c \in Client : \/ Held(c)' = Held(c)
                             \/ Held(c) # {} /\ \E w : Held(c)' = {w}
    PROVE  MailInv'
  <1> USE DEF MailInv
  <1>1. Types'
    BY DEF Types, TypeOK, Stirring
  <1>2. OnePlace'
    <2>1. Distinct(toGPU)'
      BY DEF OnePlace, Distinct
    <2>2. \A d \in Client : \A v, w \in Held(d)' : v = w
      BY DEF OnePlace
    <2> QED
      BY <2>1, <2>2 DEF OnePlace
  <1>3. Others
    <2>1. Len(toGPU') <= Len(toGPU)
      BY DEF Types, TypeOK
    <2>2. ASSUME NEW c \in Client PROVE Stays(c) \/ Stirred(c)
      <3>1. Held(c)' = {} <=> Held(c) = {}
        OBVIOUS
      <3>2. CASE gate'[c] = gate[c]
        BY <3>1, <3>2 DEF Stays
      <3>3. CASE pc[c] \in Polling /\ gate'[c] >= 0
        <4>1. Held(c) = {}
          BY <3>3 DEF FlightInv, Polling, Away
        <4>2. blocked_thread' # c
          BY <3>3 DEF WakeInv, Polling
        <4> QED
          BY <3>1, <3>3, <4>1, <4>2 DEF Stirred
      <3> QED
        BY <3>2, <3>3 DEF Stirring
    <2> QED
      BY <2>1, <2>2 DEF Others
  <1> QED
    BY <1>1, <1>2, <1>3, OthersInv

LEMMA InterruptInv == ASSUME MailInv, Interrupt PROVE MailInv'
  <1> USE DEF MailInv
  <1>1. /\ UNCHANGED <<toGPU, gpu, waiting_thread, blocked_sending_thread, requests,
                       requests_head, requests_tail, blocked_thread, table_lock, full,
                       lock, pc, messages, message, found>>
        /\ toARM \in Seq(Client) /\ toARM # << >> /\ Len(toARM) <= Depth /\ brk = NULL
        /\ config
    BY DEF Interrupt, table, pump, Types, TypeOK
  <1>2. PICK m, r, b : m = Head(toARM) /\ r = received_message /\ b = blocking_message
    OBVIOUS
  <1>3. /\ m \in Client /\ m \in Elems(toARM) /\ m = toARM[1]
        /\ Tail(toARM) \in Seq(Client) /\ Len(Tail(toARM)) = Len(toARM) - 1
        /\ Distinct(Tail(toARM)) /\ Elems(Tail(toARM)) = Elems(toARM) \ {m}
        /\ SubSeq(toARM, 2, Len(toARM)) = Tail(toARM)
    BY <1>1, <1>2, ElemsTail, DropOne DEF OnePlace
  <1>4. Len(toARM) \in Nat \ {0} /\ {r, b} \subseteq Client \union {NULL} /\ NULL \notin Client
    BY <1>1, <1>2 DEF Types, TypeOK
  <1>5. Held(m) = {"toARM"}
    BY <1>3, HeldIs, HeldOnly DEF HeldAs
  <1>6. CASE r # NULL /\ b # NULL
    <2>1. brk' = 4 /\ UNCHANGED <<toARM, received_message, blocking_message, config, gate>>
      BY <1>2, <1>6 DEF Interrupt
    <2>2. \A c \in Client : \/ Held(c)' = Held(c)
                            \/ Held(c) # {} /\ \E w : Held(c)' = {w}
      BY <1>1, <2>1, HeldFrame
    <2>3. Distinct(toARM)'
      BY <2>1 DEF OnePlace, Distinct
    <2>4. Stirring /\ config' \in BOOLEAN
      <3>1. gate' \in [Threads -> -1 .. GateMax] /\ config' \in BOOLEAN
        BY <2>1 DEF Types, TypeOK
      <3>2. \A c \in Client : gate'[c] = gate[c]
        BY <2>1
      <3> QED
        BY <3>1, <3>2 DEF Stirring
    <2>5. {blocking_message', received_message'} \subseteq Client \union {NULL}
      BY <1>2, <1>4, <2>1
    <2>6. brk' \in {NULL, 4, 5} /\ toARM' \in Seq(Client) /\ Len(toARM') <= Depth
      BY <1>1, <2>1
    <2> QED
      BY <1>1, <2>2, <2>3, <2>4, <2>5, <2>6, InterruptFrame
  <1>7. CASE ~(r # NULL /\ b # NULL)
    <2>g. Stirring
      <3>1. \/ gate' = Woken(gate, blocked_sending_thread)
            \/ gate' = Woken(Woken(gate, waiting_thread), blocked_sending_thread)
        BY <1>2, <1>7 DEF Interrupt
      <3> QED
        BY <3>1, InterruptWakes
    <2>i. PICK taken, blocks :
             /\ taken = IF r # NULL \/ b # NULL \/ Len(toARM) = 1 THEN 1 ELSE 2
             /\ blocks <=> (r # NULL \/ b # NULL \/ taken = 2)
             /\ toARM' = SubSeq(toARM, taken + 1, Len(toARM))
             /\ received_message' = IF r # NULL THEN r ELSE IF b # NULL THEN b ELSE m
             /\ blocking_message' = IF blocks THEN toARM[taken] ELSE NULL
             /\ config' = ~blocks
      <3> DEFINE taken == IF r # NULL \/ b # NULL \/ Len(toARM) = 1 THEN 1 ELSE 2
                 blocks == r # NULL \/ b # NULL \/ taken = 2
      <3>1. /\ toARM' = SubSeq(toARM, taken + 1, Len(toARM))
            /\ received_message' = IF r # NULL THEN r ELSE IF b # NULL THEN b ELSE m
            /\ blocking_message' = IF blocks THEN toARM[taken] ELSE NULL
            /\ config' = ~blocks
        BY <1>2, <1>7 DEF Interrupt
      <3> QED
        BY <3>1
    <2>b. brk' = NULL
      BY <1>1, <1>2, <1>7 DEF Interrupt
    <2>1. CASE r # NULL \/ b # NULL
      <3>1. PICK n : n = IF r # NULL THEN r ELSE b
        OBVIOUS
      <3>2. /\ toARM' = Tail(toARM) /\ received_message' = n /\ blocking_message' = m
            /\ config' \in BOOLEAN
        <4>1. taken = 1 /\ blocks /\ taken + 1 = 2
          BY <2>1, <2>i
        <4> QED
          BY <1>3, <1>7, <2>1, <2>i, <3>1, <4>1
      <3>3. n \in Client /\ n # m
        <4>1. n \in Client /\ (n = received_message \/ n = blocking_message)
          BY <1>2, <1>4, <2>1, <3>1
        <4>2. "received" \in Held(n) \/ "blocking" \in Held(n)
          BY <4>1, HeldIs DEF HeldAs
        <4> QED
          BY <1>5, <4>1, <4>2
      <3>4. Held(n) = IF r # NULL THEN {"received"} ELSE {"blocking"}
        <4>1. IF r # NULL THEN "received" \in Held(n) ELSE "blocking" \in Held(n)
          BY <1>2, <3>1, HeldIs DEF HeldAs
        <4> QED
          BY <3>3, <4>1, HeldOnly
      <3>5. /\ toARM' \in Seq(Client) /\ Len(toARM') <= Depth /\ Distinct(toARM)'
            /\ Elems(toARM)' = Elems(toARM) \ {m}
        <4>1. Len(Tail(toARM)) <= Depth
          BY <1>1, <1>3, <1>4
        <4> QED
          BY <1>3, <3>2, <4>1, ZenonT(30) DEF Distinct, Elems
      <3>6. HeldAs(m) /\ HeldAs(m)' /\ HeldAs(n) /\ HeldAs(n)'
        BY HeldIs
      <3>7. Held(m)' = {"blocking"}
        <4>1. /\ "blocking" \in Held(m)' /\ "toARM" \notin Held(m)'
              /\ "received" \notin Held(m)'
          BY <3>2, <3>3, <3>5, <3>6 DEF HeldAs
        <4>2. "toGPU" \notin Held(m)' /\ "gpu" \notin Held(m)' /\ "message" \notin Held(m)'
          BY <1>1, <1>5, <3>6 DEF HeldAs, Elems
        <4>3. Held(m)' \subseteq {"toGPU", "gpu", "toARM", "blocking", "received", "message"}
          BY <3>6 DEF HeldAs
        <4> QED
          BY <4>1, <4>2, <4>3
      <3>8. Held(n)' = {"received"}
        <4>1. /\ "received" \in Held(n)' /\ "blocking" \notin Held(n)'
              /\ "toARM" \notin Held(n)'
          BY <3>2, <3>3, <3>4, <3>5, <3>6 DEF HeldAs
        <4>2. "toGPU" \notin Held(n)' /\ "gpu" \notin Held(n)' /\ "message" \notin Held(n)'
          BY <1>1, <3>4, <3>6 DEF HeldAs, Elems
        <4>3. Held(n)' \subseteq {"toGPU", "gpu", "toARM", "blocking", "received", "message"}
          BY <3>6 DEF HeldAs
        <4> QED
          BY <4>1, <4>2, <4>3
      <3>9. ASSUME NEW d \in Client \ {m, n} PROVE Held(d)' = Held(d)
        <4>1. d # received_message /\ d # blocking_message
          BY <1>2, <1>4, <1>7, <2>1, <3>1
        <4>2. d # received_message' /\ d # blocking_message'
          BY <3>2
        <4>3. d \in Elems(toARM)' <=> d \in Elems(toARM)
          BY <3>5
        <4> QED
          BY <1>1, <4>1, <4>2, <4>3 DEF Held, Elems
      <3>10. \A c \in Client : \/ Held(c)' = Held(c)
                               \/ Held(c) # {} /\ \E w : Held(c)' = {w}
        BY <1>5, <3>4, <3>7, <3>8, <3>9
      <3>11. {blocking_message', received_message'} \subseteq Client \union {NULL}
        BY <1>3, <3>2, <3>3
      <3> QED
        BY <1>1, <2>g, <2>b, <3>2, <3>5, <3>10, <3>11, InterruptFrame
    <2>2. CASE r = NULL /\ b = NULL /\ Len(toARM) = 1
      <3>2. /\ toARM' = Tail(toARM) /\ received_message' = m /\ blocking_message' = NULL
            /\ config' \in BOOLEAN
        <4>1. taken = 1 /\ ~blocks /\ taken + 1 = 2
          BY <2>2, <2>i
        <4> QED
          BY <1>3, <2>2, <2>i, <4>1
      <3>5. /\ toARM' \in Seq(Client) /\ Len(toARM') <= Depth /\ Distinct(toARM)'
            /\ Elems(toARM)' = Elems(toARM) \ {m}
        <4>1. Len(Tail(toARM)) <= Depth
          BY <1>1, <1>3, <1>4
        <4> QED
          BY <1>3, <3>2, <4>1, ZenonT(30) DEF Distinct, Elems
      <3>6. HeldAs(m) /\ HeldAs(m)'
        BY HeldIs
      <3>7. Held(m)' = {"received"}
        <4>1. /\ "received" \in Held(m)' /\ "toARM" \notin Held(m)'
              /\ "blocking" \notin Held(m)'
          BY <1>3, <1>4, <3>2, <3>5, <3>6 DEF HeldAs
        <4>2. "toGPU" \notin Held(m)' /\ "gpu" \notin Held(m)' /\ "message" \notin Held(m)'
          BY <1>1, <1>5, <3>6 DEF HeldAs, Elems
        <4>3. Held(m)' \subseteq {"toGPU", "gpu", "toARM", "blocking", "received", "message"}
          BY <3>6 DEF HeldAs
        <4> QED
          BY <4>1, <4>2, <4>3
      <3>9. ASSUME NEW d \in Client \ {m} PROVE Held(d)' = Held(d)
        <4>1. d # received_message /\ d # blocking_message
          BY <1>2, <1>4, <2>2
        <4>2. d # received_message' /\ d # blocking_message'
          BY <1>4, <3>2
        <4>3. d \in Elems(toARM)' <=> d \in Elems(toARM)
          BY <3>5
        <4> QED
          BY <1>1, <4>1, <4>2, <4>3 DEF Held, Elems
      <3>10. \A c \in Client : \/ Held(c)' = Held(c)
                               \/ Held(c) # {} /\ \E w : Held(c)' = {w}
        BY <1>5, <3>7, <3>9
      <3>11. {blocking_message', received_message'} \subseteq Client \union {NULL}
        BY <1>3, <3>2
      <3> QED
        BY <1>1, <2>g, <2>b, <3>2, <3>5, <3>10, <3>11, InterruptFrame
    <2>3. CASE r = NULL /\ b = NULL /\ Len(toARM) # 1
      <3>1. Len(toARM) >= 2
        <4>1. \A k \in Nat \ {0} : k # 1 => k >= 2
          OBVIOUS
        <4> QED
          BY <1>4, <2>3, <4>1
      <3>2. PICK n : n = Head(Tail(toARM))
        OBVIOUS
      <3>3. /\ Tail(toARM) # << >> /\ n = toARM[2]
            /\ SubSeq(toARM, 3, Len(toARM)) = Tail(Tail(toARM))
        BY <1>1, <3>1, <3>2, DropTwo
      <3>4. /\ n \in Client /\ n \in Elems(Tail(toARM))
            /\ Tail(Tail(toARM)) \in Seq(Client)
            /\ Len(Tail(Tail(toARM))) = Len(Tail(toARM)) - 1
            /\ Distinct(Tail(Tail(toARM)))
            /\ Elems(Tail(Tail(toARM))) = Elems(Tail(toARM)) \ {n}
        <4>1. PICK s : s = Tail(toARM)
          OBVIOUS
        <4>2. s \in Seq(Client) /\ s # << >> /\ Distinct(s) /\ n = Head(s)
          BY <1>3, <3>2, <3>3, <4>1
        <4>3. /\ n \in Client /\ n \in Elems(s) /\ Tail(s) \in Seq(Client)
              /\ Len(Tail(s)) = Len(s) - 1
              /\ Distinct(Tail(s)) /\ Elems(Tail(s)) = Elems(s) \ {n}
          BY <4>2, ElemsTail
        <4> QED
          BY <4>1, <4>3
      <3>5. /\ toARM' = Tail(Tail(toARM)) /\ received_message' = m /\ blocking_message' = n
            /\ config' \in BOOLEAN
        <4>1. taken = 2 /\ blocks /\ taken + 1 = 3
          BY <2>3, <2>i
        <4> QED
          BY <2>3, <2>i, <3>3, <4>1
      <3>6. n # m /\ n \in Elems(toARM)
        BY <1>3, <3>4
      <3>7. Held(n) = {"toARM"}
        BY <3>4, <3>6, HeldIs, HeldOnly DEF HeldAs
      <3>8. /\ toARM' \in Seq(Client) /\ Len(toARM') <= Depth /\ Distinct(toARM)'
            /\ Elems(toARM)' = Elems(toARM) \ {m, n}
        <4>1. Len(Tail(Tail(toARM))) <= Depth
          BY <1>1, <1>3, <1>4, <3>4
        <4>2. Elems(Tail(Tail(toARM))) = Elems(toARM) \ {m, n}
          BY <1>3, <3>4
        <4> QED
          BY <3>4, <3>5, <4>1, <4>2, ZenonT(30) DEF Distinct, Elems
      <3>9. HeldAs(m) /\ HeldAs(m)' /\ HeldAs(n) /\ HeldAs(n)'
        BY HeldIs
      <3>10. Held(m)' = {"received"}
        <4>1. /\ "received" \in Held(m)' /\ "toARM" \notin Held(m)'
              /\ "blocking" \notin Held(m)'
          BY <3>5, <3>6, <3>8, <3>9 DEF HeldAs
        <4>2. "toGPU" \notin Held(m)' /\ "gpu" \notin Held(m)' /\ "message" \notin Held(m)'
          BY <1>1, <1>5, <3>9 DEF HeldAs, Elems
        <4>3. Held(m)' \subseteq {"toGPU", "gpu", "toARM", "blocking", "received", "message"}
          BY <3>9 DEF HeldAs
        <4> QED
          BY <4>1, <4>2, <4>3
      <3>11. Held(n)' = {"blocking"}
        <4>1. /\ "blocking" \in Held(n)' /\ "toARM" \notin Held(n)'
              /\ "received" \notin Held(n)'
          BY <3>5, <3>6, <3>8, <3>9 DEF HeldAs
        <4>2. "toGPU" \notin Held(n)' /\ "gpu" \notin Held(n)' /\ "message" \notin Held(n)'
          BY <1>1, <3>7, <3>9 DEF HeldAs, Elems
        <4>3. Held(n)' \subseteq {"toGPU", "gpu", "toARM", "blocking", "received", "message"}
          BY <3>9 DEF HeldAs
        <4> QED
          BY <4>1, <4>2, <4>3
      <3>12. ASSUME NEW d \in Client \ {m, n} PROVE Held(d)' = Held(d)
        <4>1. d # received_message /\ d # blocking_message
          BY <1>2, <1>4, <2>3
        <4>2. d # received_message' /\ d # blocking_message'
          BY <3>5
        <4>3. d \in Elems(toARM)' <=> d \in Elems(toARM)
          BY <3>8
        <4> QED
          BY <1>1, <4>1, <4>2, <4>3 DEF Held, Elems
      <3>13. \A c \in Client : \/ Held(c)' = Held(c)
                               \/ Held(c) # {} /\ \E w : Held(c)' = {w}
        BY <1>5, <3>7, <3>10, <3>11, <3>12
      <3>14. {blocking_message', received_message'} \subseteq Client \union {NULL}
        BY <1>3, <3>4, <3>5
      <3> QED
        BY <1>1, <2>g, <2>b, <3>5, <3>8, <3>13, <3>14, InterruptFrame
    <2> QED
      BY <2>1, <2>2, <2>3
  <1> QED
    BY <1>6, <1>7


-----------------------------------------------------------------------------
(* The message pump. *)
LEMMA PumpFrame ==
    ASSUME MailInv, TypeOK', NEW to \in PumpAt \ {"none"}, pc[Pump] # "none",
           pc' = [pc EXCEPT ![Pump] = to],
           to = "round" => messages' >= 1,
           to = "incoming" => message' \in Client,
           UNCHANGED <<toGPU, toARM, lock, table_lock, blocked_sending_thread,
                       waiting_thread>>,
           blocked_thread' \in {blocked_thread, NULL},
           \A c \in Client : Stays(c) \/ Stirred(c) \/ Gets(c),
           \A c \in Client : \A v, w \in Held(c)' : v = w
    PROVE  MailInv'
  <1> USE DEF MailInv
  <1>1. /\ pc'[Pump] = to /\ pc' \in [Threads -> ClientAt \union PumpAt]
        /\ \A c \in Client : pc'[c] = pc[c]
    BY DEF Types, Threads
  <1>2. Types'
    BY <1>1 DEF Types
  <1>3. OnePlace'
    <2>1. Distinct(toGPU)' /\ Distinct(toARM)'
      BY DEF OnePlace, Distinct
    <2> QED
      BY <2>1 DEF OnePlace
  <1>4. Others
    <2>1. Len(toGPU') <= Len(toGPU)
      BY DEF Types, TypeOK
    <2> QED
      BY <1>1, <2>1 DEF Others
  <1> QED
    BY <1>2, <1>3, <1>4, OthersInv

(* Steps that move no message and wake nobody. *)
LEMMA PumpQuietInv ==
    ASSUME MailInv, PumpBlock \/ PumpPass \/ RemoveRequest \/ Advance \/ Resume
    PROVE  MailInv'
  <1> USE DEF MailInv
  <1>0. Pump \in Threads /\ Client \subseteq Threads /\ Pump \notin Client
    BY DEF Threads
  <1>1. PICK to \in PumpAt \ {"none", "incoming"} :
           /\ pc' = [pc EXCEPT ![Pump] = to] /\ pc[Pump] \notin {"none", "incoming"}
           /\ to = "round" => PumpPass \/ (messages # 0 /\ UNCHANGED messages)
    BY DEF PumpBlock, PumpPass, RemoveRequest, Advance, Resume, Block, Pass, Step, PumpAt,
           pump
  <1>2. /\ UNCHANGED <<toGPU, gpu, toARM, blocking_message, received_message,
                       waiting_thread, blocked_sending_thread, requests_head,
                       blocked_thread, table_lock, full, lock, brk>>
        /\ config' \in BOOLEAN
    BY DEF PumpBlock, PumpPass, RemoveRequest, Advance, Resume, hardware, channel, table,
           pump, Types, TypeOK
  <1>3. gate' \in [Threads -> -1 .. GateMax] /\ \A c \in Client : gate'[c] = gate[c]
    <2>1. \/ gate' = gate \/ gate' = [gate EXCEPT ![Pump] = -1]
          \/ gate' = [gate EXCEPT ![Pump] = 0]
      BY DEF PumpBlock, PumpPass, RemoveRequest, Advance, Resume, Block, Pass
    <2>2. gate \in [Threads -> -1 .. GateMax] /\ {-1, 0} \subseteq -1 .. GateMax
      BY DEF Types, TypeOK
    <2> QED
      BY <1>0, <2>1, <2>2
  <1>4. messages' \in 0 .. GateMax + 1 /\ (PumpPass => messages' >= 1)
    <2>1. CASE PumpPass
      <3>1. gate[Pump] \in -1 .. GateMax
        BY <1>0 DEF Types, TypeOK
      <3>2. pc[Pump] = "wait" => gate[Pump] > 0
        BY <2>1 DEF PumpPass, Pass, Step
      <3>3. messages' = IF pc[Pump] = "wait" THEN gate[Pump] + 1 ELSE 1
        BY <2>1 DEF PumpPass
      <3> QED
        BY <3>1, <3>2, <3>3
    <2>2. CASE ~PumpPass
      BY <2>2 DEF PumpBlock, RemoveRequest, Advance, Resume, pump, Types, TypeOK
    <2> QED
      BY <2>1, <2>2
  <1>5. message' \in {message, NULL} /\ found' \in Slot
    BY DEF PumpBlock, PumpPass, RemoveRequest, Advance, Resume, pump, Types, TypeOK, Slot
  <1>6. requests' \in [Slot -> Client \union {NULL}] /\ requests_tail' \in Slot
    <2>1. requests' = requests \/ requests' = Filled(found)
      BY DEF PumpBlock, PumpPass, RemoveRequest, Advance, Resume, table
    <2>2. requests_tail' = requests_tail \/ requests_tail' = next_outstanding_request(requests_tail)
      BY DEF PumpBlock, PumpPass, RemoveRequest, Advance, Resume, table
    <2>3. Filled(found) \in [Slot -> Client \union {NULL}]
      BY DEF Filled, Types, TypeOK
    <2>4. next_outstanding_request(requests_tail) \in Slot
      BY DEF next_outstanding_request, Types, TypeOK, Slot
    <2> QED
      BY <2>1, <2>2, <2>3, <2>4 DEF Types, TypeOK
  <1>7. TypeOK'
    BY <1>2, <1>3, <1>4, <1>5, <1>6 DEF Types, TypeOK
  <1>8. pc'[Pump] = to
    BY <1>0, <1>1 DEF Types
  <1>9. \A c : Held(c)' = Held(c)
    BY <1>1, <1>2, <1>8 DEF Held, Elems
  <1>10. to = "round" => messages' >= 1
    BY <1>1, <1>4 DEF Types, TypeOK
  <1>11. \A c \in Client : Stays(c)
    BY <1>3, <1>9 DEF Stays
  <1>12. \A c \in Client : \A v, w \in Held(c)' : v = w
    BY <1>9 DEF OnePlace
  <1> QED
    BY <1>1, <1>2, <1>7, <1>10, <1>11, <1>12, PumpFrame

LEMMA PumpRoundInv == ASSUME MailInv, PumpRound PROVE MailInv'
  <1> USE DEF MailInv
  <1>0. Pump \in Threads /\ Client \subseteq Threads /\ Pump \notin Client /\ NULL \notin Client
    BY DEF Threads
  <1>1. /\ UNCHANGED <<toGPU, gpu, toARM, config, blocking_message, waiting_thread,
                       blocked_sending_thread, requests, requests_head, requests_tail,
                       blocked_thread, table_lock, full, lock, gate, found, brk>>
        /\ messages' = messages - 1 /\ pc[Pump] = "round"
    BY DEF PumpRound, hardware, table
  <1>2. messages \in 0 .. GateMax + 1 /\ messages >= 1
    BY <1>1 DEF Types, TypeOK
  <1>3. messages' \in 0 .. GateMax + 1
    BY <1>1, <1>2
  <1>4. CASE received_message = NULL
    <2>1. PICK to \in {"wait", "round"} :
             /\ pc' = [pc EXCEPT ![Pump] = to] /\ UNCHANGED <<message, received_message>>
             /\ to = "round" => messages # 1
      BY <1>4 DEF PumpRound
    <2>2. TypeOK'
      BY <1>1, <1>3, <2>1 DEF Types, TypeOK
    <2>3. pc'[Pump] = to
      BY <1>0, <2>1 DEF Types
    <2>4. \A c : Held(c)' = Held(c)
      BY <1>1, <2>1, <2>3 DEF Held, Elems
    <2>5. to \in PumpAt \ {"none"} /\ to # "incoming" /\ (to = "round" => messages' >= 1)
      BY <1>1, <1>2, <2>1 DEF PumpAt
    <2>6. \A c \in Client : Stays(c)
      BY <1>1, <2>4 DEF Stays
    <2>7. \A c \in Client : \A v, w \in Held(c)' : v = w
      BY <2>4 DEF OnePlace
    <2> QED
      BY <1>1, <2>1, <2>2, <2>5, <2>6, <2>7, PumpFrame
  <1>5. CASE received_message # NULL
    <2>1. PICK m : m = received_message
      OBVIOUS
    <2>2. /\ pc' = [pc EXCEPT ![Pump] = "incoming"] /\ message' = m
          /\ received_message' = NULL /\ m \in Client
      BY <1>5, <2>1 DEF PumpRound, Types, TypeOK
    <2>3. TypeOK'
      BY <1>1, <1>3, <2>2 DEF Types, TypeOK
    <2>4. pc'[Pump] = "incoming"
      BY <1>0, <2>2 DEF Types
    <2>5. \A d \in Client \ {m} : Held(d)' = Held(d)
      BY <1>0, <1>1, <2>1, <2>2 DEF Held, Elems
    <2>6. HeldAs(m) /\ HeldAs(m)'
      BY HeldIs
    <2>7. Held(m) = {"received"}
      BY <2>1, <2>2, <2>6, HeldOnly DEF HeldAs
    <2>8. Held(m)' = {"message"}
      <3>1. "message" \in Held(m)' /\ "received" \notin Held(m)'
        BY <1>0, <2>2, <2>4, <2>6 DEF HeldAs
      <3>2. /\ "toGPU" \notin Held(m)' /\ "gpu" \notin Held(m)'
            /\ "toARM" \notin Held(m)' /\ "blocking" \notin Held(m)'
        BY <1>1, <2>6, <2>7 DEF HeldAs, Elems
      <3>3. Held(m)' \subseteq {"toGPU", "gpu", "toARM", "blocking", "received", "message"}
        BY <2>6 DEF HeldAs
      <3> QED
        BY <3>1, <3>2, <3>3
    <2>9. \A c \in Client : Stays(c)
      BY <1>1, <2>5, <2>7, <2>8 DEF Stays
    <2>10. \A c \in Client : \A v, w \in Held(c)' : v = w
      BY <2>5, <2>8 DEF OnePlace
    <2>11. "incoming" \in PumpAt \ {"none"}
      BY DEF PumpAt
    <2> QED
      BY <1>1, <2>2, <2>3, <2>9, <2>10, <2>11, PumpFrame
  <1> QED
    BY <1>4, <1>5

LEMMA IncomingInv == ASSUME MailInv, Incoming PROVE MailInv'
  <1> USE DEF MailInv
  <1>0. Pump \in Threads /\ Client \subseteq Threads /\ Pump \notin Client /\ NULL \notin Client
    BY DEF Threads
  <1>1. /\ UNCHANGED <<toGPU, gpu, toARM, config, blocking_message, received_message,
                       waiting_thread, blocked_sending_thread, requests, requests_head,
                       requests_tail, blocked_thread, table_lock, full, lock, messages,
                       message>>
        /\ pc[Pump] = "incoming" /\ message \in Client
    BY DEF Incoming, hardware, channel, table, Types
  <1>2. CASE \E i \in Outstanding : requests[i] = message
    <2>1. PICK m : m = message
      OBVIOUS
    <2>2. /\ found' \in Slot /\ gate' = Woken(gate, m) /\ brk' = brk
          /\ pc' = [pc EXCEPT ![Pump] = "remove"] /\ m \in Client
      BY <1>1, <1>2, <2>1 DEF Incoming, Outstanding
    <2>3. pc'[Pump] = "remove"
      BY <1>0, <2>2 DEF Types
    <2>4. HeldAs(m) /\ HeldAs(m)'
      BY HeldIs
    <2>5. Held(m) = {"message"}
      BY <1>1, <2>1, <2>2, <2>4, HeldOnly DEF HeldAs
    <2>6. Held(m)' = {}
      <3>1. "message" \notin Held(m)'
        BY <2>3, <2>4 DEF HeldAs
      <3>2. /\ "toGPU" \notin Held(m)' /\ "gpu" \notin Held(m)' /\ "toARM" \notin Held(m)'
            /\ "blocking" \notin Held(m)' /\ "received" \notin Held(m)'
        BY <1>1, <2>4, <2>5 DEF HeldAs, Elems
      <3>3. Held(m)' \subseteq {"toGPU", "gpu", "toARM", "blocking", "received", "message"}
        BY <2>4 DEF HeldAs
      <3> QED
        BY <3>1, <3>2, <3>3
    <2>7. \A d \in Client \ {m} : Held(d)' = Held(d)
      BY <1>1, <2>1, <2>3 DEF Held, Elems
    <2>8. /\ gate \in [Threads -> -1 .. GateMax] /\ gate[m] \in {-1, 0}
          /\ gate[m] < GateMax
      <3>1. gate[m] \in {-1, 0}
        BY <2>2, <2>5 DEF FlightInv, Away
      <3> QED
        BY <3>1 DEF Types, TypeOK
    <2>9. /\ gate' \in [Threads -> -1 .. GateMax] /\ gate'[m] = gate[m] + 1
          /\ \A d \in Client \ {m} : gate'[d] = gate[d]
      BY <1>0, <2>2, <2>8, WokenIs
    <2>10. TypeOK'
      BY <1>1, <2>2, <2>9 DEF Types, TypeOK
    <2>11. \A c \in Client : Stays(c) \/ Gets(c)
      BY <2>5, <2>6, <2>7, <2>9 DEF Stays, Gets
    <2>12. \A c \in Client : \A v, w \in Held(c)' : v = w
      BY <2>6, <2>7 DEF OnePlace
    <2>13. "remove" \in PumpAt \ {"none"}
      BY DEF PumpAt
    <2> QED
      BY <1>1, <2>2, <2>10, <2>11, <2>12, <2>13, PumpFrame
  <1>3. CASE ~\E i \in Outstanding : requests[i] = message
    <2>1. brk' = 5 /\ UNCHANGED <<found, gate, pc>>
      BY <1>3 DEF Incoming
    <2>2. TypeOK'
      BY <1>1, <2>1 DEF Types, TypeOK
    <2>3. \A c : Held(c)' = Held(c)
      BY <1>1, <2>1, HeldFrame
    <2>4. pc' = [pc EXCEPT ![Pump] = "incoming"]
      BY <1>0, <1>1, <2>1 DEF Types
    <2>5. \A c \in Client : Stays(c)
      BY <2>1, <2>3 DEF Stays
    <2>6. \A c \in Client : \A v, w \in Held(c)' : v = w
      BY <2>3 DEF OnePlace
    <2>7. "incoming" \in PumpAt \ {"none"}
      BY DEF PumpAt
    <2> QED
      BY <1>1, <2>2, <2>4, <2>5, <2>6, <2>7, PumpFrame
  <1> QED
    BY <1>2, <1>3

LEMMA UnblockInv == ASSUME MailInv, Unblock PROVE MailInv'
  <1> USE DEF MailInv
  <1>0. Pump \in Threads /\ Client \subseteq Threads /\ Pump \notin Client /\ NULL \notin Client
    BY DEF Threads
  <1>1. /\ UNCHANGED <<toGPU, gpu, toARM, config, blocking_message, received_message,
                       waiting_thread, blocked_sending_thread, requests, requests_head,
                       requests_tail, table_lock, full, lock, messages, message, found, brk>>
        /\ pc[Pump] = "unblock" /\ pc' = [pc EXCEPT ![Pump] = "resume"]
        /\ gate' = Woken(gate, blocked_thread) /\ blocked_thread' = NULL
    BY DEF Unblock, Step, hardware, channel, pump
  <1>2. pc'[Pump] = "resume"
    BY <1>0, <1>1 DEF Types
  <1>3. \A c : Held(c)' = Held(c)
    BY <1>1, <1>2, HeldFrame
  <1>4. /\ gate \in [Threads -> -1 .. GateMax]
        /\ blocked_thread \in Client \union {NULL} /\ blocked_thread \in Threads \union {NULL}
    BY <1>0 DEF Types, TypeOK
  <1>5. /\ gate' \in [Threads -> -1 .. GateMax]
        /\ \A u \in Threads \ {blocked_thread} : gate'[u] = gate[u]
        /\ blocked_thread \in Threads => gate'[blocked_thread] >= 0
    BY <1>1, <1>4, WokenIs
  <1>6. TypeOK'
    BY <1>1, <1>5, ZenonT(30) DEF Types, TypeOK
  <1>7. ASSUME NEW c \in Client PROVE Stays(c) \/ Stirred(c)
    <2>1. CASE c # blocked_thread
      BY <1>0, <1>3, <1>5, <2>1 DEF Stays
    <2>2. CASE c = blocked_thread
      <3>1. pc[c] \in InRoom
        BY <1>0, <2>2 DEF WakeInv, InRoom
      <3>2. Held(c) = {}
        BY <3>1 DEF FlightInv, InRoom, Away
      <3> QED
        BY <1>0, <1>1, <1>3, <1>5, <2>2, <3>1, <3>2 DEF Stirred
    <2> QED
      BY <2>1, <2>2
  <1>8. \A c \in Client : \A v, w \in Held(c)' : v = w
    BY <1>3 DEF OnePlace
  <1>9. "resume" \in PumpAt \ {"none"}
    BY DEF PumpAt
  <1> QED
    BY <1>1, <1>6, <1>7, <1>8, <1>9, PumpFrame

-----------------------------------------------------------------------------
LEMMA InitMail == Init => MailInv
  <1> SUFFICES ASSUME Init PROVE MailInv
    OBVIOUS
  <1>0. Pump \in Threads /\ Client \subseteq Threads /\ Pump \notin Client /\ NULL \notin Client
    BY DEF Threads
  <1>1. /\ pc[Pump] = "none" /\ \A c \in Client : pc[c] = "idle" /\ gate[c] = 0
        /\ pc \in [Threads -> ClientAt \union PumpAt]
        /\ gate \in [Threads -> -1 .. GateMax]
    BY <1>0 DEF Init, ClientAt, PumpAt
  <1>2. TypeOK
    <2>1. 0 \in Slot /\ 0 \in 0 .. GateMax + 1 /\ 0 <= Depth /\ Len(<< >>) = 0
      BY DEF Slot
    <2>2. requests \in [Slot -> Client \union {NULL}]
      BY DEF Init
    <2>3. /\ toGPU \in Seq(Client) /\ Len(toGPU) <= Depth
          /\ toARM \in Seq(Client) /\ Len(toARM) <= Depth
      BY <2>1 DEF Init
    <2>4. gpu \subseteq Client /\ config \in BOOLEAN /\ full \in BOOLEAN
      BY DEF Init
    <2>5. /\ {blocking_message, received_message, message} \subseteq Client \union {NULL}
          /\ {blocked_sending_thread, blocked_thread, lock, table_lock}
                \subseteq Client \union {NULL}
          /\ waiting_thread \in {NULL, Pump} /\ brk \in {NULL, 4, 5}
      BY DEF Init
    <2>6. {requests_head, requests_tail, found} \subseteq Slot /\ messages \in 0 .. GateMax + 1
      BY <2>1 DEF Init
    <2> QED
      BY <1>1, <2>2, <2>3, <2>4, <2>5, <2>6 DEF TypeOK
  <1>3. Types
    BY <1>1, <1>2 DEF Types, ClientAt, PumpAt
  <1>4. LockInv /\ WakeInv
    BY <1>0, <1>1 DEF Init, LockInv, WakeInv, Locked, Early, InRoom, Sending, Polling
  <1>5. \A c \in Client : Held(c) = {}
    BY <1>0, <1>1 DEF Init, Held, Elems
  <1>6. OnePlace
    BY <1>5 DEF Init, OnePlace, Distinct
  <1>7. SpaceInv /\ FlightInv /\ GateInv
    BY <1>1, <1>5 DEF SpaceInv, FlightInv, GateInv, Ready, Away, Sending, Polling, Early
  <1> QED
    BY <1>3, <1>4, <1>6, <1>7 DEF MailInv

LEMMA StutterMail == ASSUME MailInv, UNCHANGED vars PROVE MailInv'
  <1>1. UNCHANGED <<toGPU, gpu, toARM, config, blocking_message, received_message,
                    waiting_thread, blocked_sending_thread, requests, requests_head,
                    requests_tail, blocked_thread, table_lock, full, lock, gate, pc,
                    messages, message, found, brk>>
    BY DEF vars, hardware, channel, table, pump
  <1>2. \A c : Held(c)' = Held(c)
    BY <1>1, HeldFrame
  <1>3. Types' /\ LockInv' /\ WakeInv'
    BY <1>1 DEF MailInv, Types, TypeOK, LockInv, WakeInv
  <1>4. SpaceInv' /\ GateInv'
    BY <1>1 DEF MailInv, SpaceInv, GateInv
  <1>5. OnePlace' /\ FlightInv'
    BY <1>1, <1>2 DEF MailInv, OnePlace, Distinct, FlightInv
  <1> QED
    BY <1>3, <1>4, <1>5 DEF MailInv

LEMMA NextMail == ASSUME MailInv, [Next]_vars PROVE MailInv'
  <1>1. ASSUME NEW c \in Client, Request(c) \/ ClientStep(c) PROVE MailInv'
    BY <1>1, QuietInv, LocksInv, RegisterInv, WaitsInv, RoomsInv, WriteInv DEF ClientStep
  <1>2. CASE PumpStep
    BY <1>2, PumpQuietInv, PumpRoundInv, IncomingInv, UnblockInv DEF PumpStep
  <1>3. CASE GPUStep
    BY <1>3, GPUTakeInv, GPUAnswerInv DEF GPUStep
  <1>4. CASE Interrupt
    BY <1>4, InterruptInv
  <1>5. CASE UNCHANGED vars
    BY <1>5, StutterMail
  <1> QED
    BY <1>1, <1>2, <1>3, <1>4, <1>5 DEF Next

(* For any number of clients, slots and mailbox sizes, a buffer is in one  *)
(* place between the write to the mailbox and the wake of its client, the  *)
(* client is then waiting for it, and its gate tells whether it was woken: *)
(* queue_message, mailbox_interrupt and message_pump keep this.            *)
THEOREM MailboxInvariant == Spec => []MailInv
  <1>1. MailInv /\ [Next]_vars => MailInv'
    BY NextMail
  <1> QED
    BY <1>1, InitMail, PTL DEF Spec


-----------------------------------------------------------------------------
(* Counting the copies of a buffer. *)
LEMMA AtMostOne ==
    ASSUME NEW T, \A x, y \in T : x = y
    PROVE  Cardinality(T) = IF T = {} THEN 0 ELSE 1
  <1>1. CASE T = {}
    BY <1>1, FS_EmptySet
  <1>2. CASE T # {}
    <2>1. PICK x : T = {x}
      BY <1>2
    <2> QED
      BY <2>1, FS_Singleton
  <1> QED
    BY <1>1, <1>2

LEMMA CopiesIs ==
    ASSUME OnePlace, NEW c \in Client
    PROVE  Copies(c) = IF Held(c) = {} THEN 0 ELSE 1
  <1> DEFINE A == {i \in DOMAIN toGPU : toGPU[i] = c}
             B == {i \in DOMAIN toARM : toARM[i] = c}
             C == {x \in {"gpu"} : c \in gpu}
             D == {x \in {"blocking"} : blocking_message = c}
             E == {x \in {"received"} : received_message = c}
             F == {x \in {"message"} : message = c /\ pc[Pump] = "incoming"}
  <1>1. /\ A # {} <=> "toGPU" \in Held(c)
        /\ B # {} <=> "toARM" \in Held(c)
        /\ C # {} <=> "gpu" \in Held(c)
        /\ D # {} <=> "blocking" \in Held(c)
        /\ E # {} <=> "received" \in Held(c)
        /\ F # {} <=> "message" \in Held(c)
    BY HeldIs DEF HeldAs, Elems
  <1>2. /\ \A x, y \in A : x = y
        /\ \A x, y \in B : x = y
        /\ \A x, y \in C : x = y
        /\ \A x, y \in D : x = y
        /\ \A x, y \in E : x = y
        /\ \A x, y \in F : x = y
    BY DEF OnePlace, Distinct
  <1>3. Copies(c) = Cardinality(A) + Cardinality(B) + Cardinality(C) + Cardinality(D)
                    + Cardinality(E) + Cardinality(F)
    BY DEF Copies
  <1> HIDE DEF A, B, C, D, E, F
  <1>4. PICK na, nb, nc, nd, ne, nf :
           /\ na = Cardinality(A) /\ nb = Cardinality(B) /\ nc = Cardinality(C)
           /\ nd = Cardinality(D) /\ ne = Cardinality(E) /\ nf = Cardinality(F)
    OBVIOUS
  <1>5. /\ na = IF "toGPU" \in Held(c) THEN 1 ELSE 0
        /\ nb = IF "toARM" \in Held(c) THEN 1 ELSE 0
        /\ nc = IF "gpu" \in Held(c) THEN 1 ELSE 0
        /\ nd = IF "blocking" \in Held(c) THEN 1 ELSE 0
        /\ ne = IF "received" \in Held(c) THEN 1 ELSE 0
        /\ nf = IF "message" \in Held(c) THEN 1 ELSE 0
    BY <1>1, <1>2, <1>4, AtMostOne
  <1>6. Copies(c) = na + nb + nc + nd + ne + nf
    BY <1>3, <1>4
  <1>7. Held(c) \subseteq {"toGPU", "gpu", "toARM", "blocking", "received", "message"}
    BY HeldIs DEF HeldAs
  <1>8. CASE Held(c) = {}
    BY <1>5, <1>6, <1>8
  <1>9. CASE Held(c) # {}
    <2>1. PICK w \in {"toGPU", "gpu", "toARM", "blocking", "received", "message"} :
             Held(c) = {w}
      BY <1>7, <1>9, HeldOnly
    <2> QED
      BY <1>5, <1>6, <2>1
  <1> QED
    BY <1>8, <1>9

(* A buffer is never in two places, and nobody but the client that is      *)
(* waiting for its answer has given its buffer away: the wakes that        *)
(* queue_message, mailbox_interrupt and incoming_message send never end    *)
(* the wait of mailbox_tag_request too soon.                               *)
THEOREM MailboxBufferIsMine == Spec => []BufferIsMine
  <1>1. MailInv => BufferIsMine
    <2> SUFFICES ASSUME MailInv, NEW c \in Client
                 PROVE  /\ Copies(c) <= 1
                        /\ pc[c] \notin {"release", "wait_answer", "blocked_answer"}
                              => Copies(c) = 0
      BY DEF BufferIsMine
    <2>1. Copies(c) = IF Held(c) = {} THEN 0 ELSE 1
      BY CopiesIs DEF MailInv
    <2>2. pc[c] \notin Away => Held(c) = {}
      BY DEF MailInv, FlightInv
    <2> QED
      BY <2>1, <2>2 DEF Away
  <1> QED
    BY <1>1, MailboxInvariant, PTL


-----------------------------------------------------------------------------
(* The ring of the table, by its indices. *)
Between(t, h) == {i \in Slot : IF t <= h THEN t <= i /\ i < h ELSE t <= i \/ i < h}

LEMMA NextSlot ==
    ASSUME NEW n \in Slot
    PROVE  /\ next_outstanding_request(n) = IF n = Slots - 1 THEN 0 ELSE n + 1
           /\ next_outstanding_request(n) \in Slot
  <1>1. n \in Nat /\ n + 1 <= Slots /\ Slots \in Nat \ {0}
    BY DEF Slot
  <1>2. CASE n = Slots - 1
    <2>1. n + 1 = Slots
      BY <1>1, <1>2
    <2>2. Slots % Slots = 0
      BY <1>1
    <2> QED
      BY <1>1, <1>2, <2>1, <2>2 DEF next_outstanding_request, Slot
  <1>3. CASE n # Slots - 1
    <2>1. n + 1 \in 0 .. Slots - 1
      BY <1>1, <1>3
    <2>2. (n + 1) % Slots = n + 1
      BY <1>1, <2>1
    <2> QED
      BY <1>1, <1>3, <2>1, <2>2 DEF next_outstanding_request, Slot
  <1> QED
    BY <1>2, <1>3

LEMMA Ring ==
    ASSUME NEW t \in Slot, NEW h \in Slot
    PROVE  /\ h \notin Between(t, h)
           /\ t \in Between(t, h) <=> t # h
           /\ t = next_outstanding_request(h) => Between(t, h) = Slot \ {h}
           /\ t # next_outstanding_request(h) =>
                 Between(t, next_outstanding_request(h)) = Between(t, h) \union {h}
           /\ t # h => /\ Between(next_outstanding_request(t), h) = Between(t, h) \ {t}
                       /\ next_outstanding_request(t) # next_outstanding_request(h)
  <1>1. PICK s, u : s = next_outstanding_request(t) /\ u = next_outstanding_request(h)
    OBVIOUS
  <1>2. /\ s = IF t = Slots - 1 THEN 0 ELSE t + 1
        /\ u = IF h = Slots - 1 THEN 0 ELSE h + 1
        /\ s \in Slot /\ u \in Slot
    BY <1>1, NextSlot
  <1>3. /\ h \notin Between(t, h)
        /\ t \in Between(t, h) <=> t # h
        /\ t = u => Between(t, h) = Slot \ {h}
    BY <1>2 DEF Between, Slot
  <1>4. ASSUME t # u PROVE Between(t, u) = Between(t, h) \union {h}
    BY <1>2, <1>4 DEF Between, Slot
  <1>5. ASSUME t # h PROVE Between(s, h) = Between(t, h) \ {t} /\ s # u
    BY <1>2, <1>5 DEF Between, Slot
  <1> QED
    BY <1>1, <1>3, <1>4, <1>5


-----------------------------------------------------------------------------
(* With more slots than clients, a table that is full has an entry whose   *)
(* answer has come.                                                        *)
LEMMA RoomComes ==
    ASSUME EnoughSlots, MailInv, EntriesInv, NEW c \in Client, ~Pending(c), Full
    PROVE  Removing
  <1> SUFFICES ASSUME ~Removing PROVE FALSE
    OBVIOUS
  <1>1. requests_head \in Slot /\ requests_tail \in Slot
    BY DEF MailInv, Types, TypeOK
  <1>2. Live = Slot \ {requests_head}
    <2>1. Leaving = {}
      BY DEF Leaving, Removing
    <2>2. Outstanding = Between(requests_tail, requests_head)
      BY DEF Outstanding, Between
    <2> QED
      BY <1>1, <2>1, <2>2, Ring DEF Live, Full
  <1> DEFINE S == Slot \ {requests_head}
             T == Client \ {c}
             f == [i \in S |-> requests[i]]
  <1>3. IsFiniteSet(S) /\ Cardinality(S) = Slots - 1
    <2>1. IsFiniteSet(Slot) /\ Cardinality(Slot) = Slots
      <3>1. 0 \in Int /\ Slots - 1 \in Int /\ ~(0 > Slots - 1)
        OBVIOUS
      <3>2. IsFiniteSet(0 .. Slots - 1) /\ Cardinality(0 .. Slots - 1) = (Slots - 1) - 0 + 1
        BY <3>1, FS_Interval
      <3> QED
        BY <3>2 DEF Slot
    <2> QED
      BY <1>1, <2>1, FS_RemoveElement
  <1>4. IsFiniteSet(T) /\ Cardinality(T) = Cardinality(Client) - 1
    BY FS_RemoveElement DEF EnoughSlots
  <1>5. Cardinality(T) < Cardinality(S)
    <2>1. Cardinality(Client) \in Nat
      BY FS_CardinalityType DEF EnoughSlots
    <2> QED
      BY <1>3, <1>4, <2>1 DEF EnoughSlots
  <1>6. f \in [S -> T]
    BY <1>2 DEF EntriesInv
  <1>7. \A i, j \in S : f[i] = f[j] => i = j
    BY <1>2 DEF EntriesInv
  <1> HIDE DEF S, T, f
  <1>8. \E i, j \in S : i # j /\ f[i] = f[j]
    BY <1>3, <1>4, <1>5, <1>6, FS_PigeonHole
  <1> QED
    BY <1>7, <1>8

(* Steps that leave the table alone. *)
LEMMA EntriesFrame ==
    ASSUME EntriesInv, UNCHANGED <<requests, requests_head, requests_tail>>,
           Leaving' = Leaving,
           \A c \in Client : Pending(c)' <=> Pending(c)
    PROVE  EntriesInv'
  <1>1. Outstanding' = Outstanding
    BY DEF Outstanding
  <1>2. Live' = Live
    BY <1>1 DEF Live
  <1>3. \A i \in Live : requests[i] \in Client /\ Pending(requests[i])'
    <2> SUFFICES ASSUME NEW i \in Live
                 PROVE  requests[i] \in Client /\ Pending(requests[i])'
      OBVIOUS
    <2>1. PICK c \in Client : c = requests[i]
      BY DEF EntriesInv
    <2>2. Pending(c)'
      BY <2>1 DEF EntriesInv
    <2> QED
      BY <2>1, <2>2 DEF Pending
  <1> QED
    BY <1>1, <1>2, <1>3 DEF EntriesInv


(* What a step of a client leaves alone. *)
Aside(c) ==
    /\ UNCHANGED <<requests_tail, found>>
    /\ \A d \in Client \ {c} : pc'[d] = pc[d] /\ gate'[d] = gate[d]
    /\ \/ pc'[Pump] = pc[Pump]
       \/ pc[Pump] \notin {"remove", "advance", "unblock"} /\ pc'[Pump] = "wait"

LEMMA AsideStep ==
    ASSUME MailInv, NEW c \in Client, NEW from, NEW to, Step(c, from, to),
           UNCHANGED <<requests_tail, found>>,
           gate' = gate \/ \E new : gate' = [gate EXCEPT ![c] = new]
    PROVE  Aside(c) /\ pc[c] = from /\ pc'[c] = to
  <1>1. c \in Threads /\ Pump \in Threads /\ c # Pump /\ Client \subseteq Threads
    BY DEF Threads
  <1>2. pc[c] = from /\ pc'[c] = to /\ \A u \in Threads \ {c} : pc'[u] = pc[u]
    BY <1>1, StepFacts DEF MailInv
  <1>3. \A d \in Client \ {c} : gate'[d] = gate[d]
    BY <1>1 DEF MailInv, Types, TypeOK
  <1> QED
    BY <1>1, <1>2, <1>3 DEF Aside

LEMMA ClientAside ==
    ASSUME MailInv, NEW c \in Client, Request(c) \/ ClientStep(c)
    PROVE  Aside(c)
  <1>1. CASE Request(c)
    BY <1>1, AsideStep DEF Request, table, pump
  <1>2. CASE ClaimLock(c) \/ LookForRoom(c) \/ LeaveTable(c)
    BY <1>2, AsideStep DEF ClaimLock, LookForRoom, LeaveTable, table, pump
  <1>3. CASE Register(c)
    <2>1. Pump \notin Client /\ Client \subseteq Threads
      BY DEF Threads
    <2>2. /\ \A d \in Client \ {c} : pc'[d] = pc[d]
          /\ pc'[Pump] = IF waiting_thread = NULL THEN "wait" ELSE pc[Pump]
      BY <1>3, <2>1 DEF Register, MailInv, Types, Threads
    <2>3. waiting_thread = NULL => pc[Pump] = "none"
      BY DEF MailInv, Types
    <2> QED
      BY <1>3, <2>2, <2>3 DEF Register, Aside, table, pump
  <1>4. CASE WaitForRoom(c) \/ WaitForAnswer(c) \/ Sleep(c) \/ SleepTimesOut(c)
    BY <1>4, AsideStep
    DEF WaitForRoom, WaitForAnswer, Sleep, SleepTimesOut, Block, Pass, table, pump
  <1>5. CASE Enqueue(c) \/ QueueMessage(c) \/ Poll(c) \/ MailboxFull(c) \/ MailboxReady(c)
    BY <1>5, AsideStep
    DEF Enqueue, QueueMessage, Poll, MailboxFull, MailboxReady, table, pump
  <1>6. CASE ClearGate(c) \/ Write(c) \/ ReleaseLock(c)
    BY <1>6, AsideStep DEF ClearGate, Cleared, Write, ReleaseLock, table, pump
  <1> QED
    BY <1>1, <1>2, <1>3, <1>4, <1>5, <1>6 DEF ClientStep

(* Only Enqueue makes a request pending; all others keep it as it is. *)
LEMMA ClientPending ==
    ASSUME MailInv, NEW c \in Client, Request(c) \/ ClientStep(c), ~Enqueue(c)
    PROVE  /\ Pending(c)' <=> Pending(c)
           /\ UNCHANGED <<requests, requests_head>>
  <1> USE DEF MailInv
  <1>0. /\ c \in Threads /\ c # Pump /\ pc \in [Threads -> ClientAt \union PumpAt]
        /\ gate \in [Threads -> -1 .. GateMax] /\ gate[c] \in -1 .. GateMax
    BY DEF Threads, Types, TypeOK
  <1>1. CASE \/ Request(c) \/ ClaimLock(c) \/ LookForRoom(c) \/ LeaveTable(c)
             \/ WaitForRoom(c) \/ Register(c)
    <2>1. UNCHANGED <<requests, requests_head>>
      BY <1>1 DEF Request, ClaimLock, LookForRoom, LeaveTable, WaitForRoom, Register, table
    <2>2. /\ pc[c] \in {"idle", "claim", "wait_room", "blocked_room"} \union Early
          /\ pc'[c] \in {"claim", "enqueue", "wait_room", "blocked_room"} \union Early
      <3>1. CASE Request(c) \/ ClaimLock(c) \/ LookForRoom(c) \/ LeaveTable(c)
        BY <1>0, <3>1 DEF Request, ClaimLock, LookForRoom, LeaveTable, Step, Early
      <3>2. CASE WaitForRoom(c)
        BY <1>0, <3>2 DEF WaitForRoom, Block, Pass, Step
      <3>3. CASE Register(c)
        BY <1>0, <3>3 DEF Register, Early
      <3> QED
        BY <1>1, <3>1, <3>2, <3>3
    <2> QED
      BY <2>1, <2>2 DEF Pending, Sending, Polling, Early
  <1>2. CASE \/ QueueMessage(c) \/ Poll(c) \/ MailboxFull(c) \/ MailboxReady(c)
             \/ Sleep(c) \/ SleepTimesOut(c) \/ ClearGate(c)
    <2>1. UNCHANGED <<requests, requests_head>>
      BY <1>2 DEF QueueMessage, Poll, MailboxFull, MailboxReady, Sleep, SleepTimesOut,
                  ClearGate, table
    <2>2. pc[c] \in Sending /\ pc'[c] \in Sending
      <3>1. CASE QueueMessage(c) \/ Poll(c) \/ MailboxFull(c) \/ MailboxReady(c) \/ ClearGate(c)
        BY <1>0, <3>1 DEF QueueMessage, Poll, MailboxFull, MailboxReady, ClearGate, Step,
                          Sending, Polling
      <3>2. CASE Sleep(c) \/ SleepTimesOut(c)
        BY <1>0, <3>2 DEF Sleep, SleepTimesOut, Block, Pass, Step, Sending, Polling
      <3> QED
        BY <1>2, <3>1, <3>2
    <2> QED
      BY <2>1, <2>2 DEF Pending
  <1>3. CASE Write(c)
    <2>1. /\ UNCHANGED <<requests, requests_head, gate>>
          /\ pc[c] = "write" /\ pc'[c] = "release"
      BY <1>0, <1>3 DEF Write, Step, table
    <2>2. gate[c] = 0
      BY <2>1 DEF GateInv
    <2> QED
      BY <2>1, <2>2 DEF Pending, Sending
  <1>4. CASE ReleaseLock(c)
    <2>1. /\ UNCHANGED <<requests, requests_head, gate>>
          /\ pc[c] = "release" /\ pc'[c] = "wait_answer"
      BY <1>0, <1>4 DEF ReleaseLock, Step, table
    <2> QED
      BY <2>1 DEF Pending, Sending, Polling
  <1>5. CASE WaitForAnswer(c)
    <2>1. UNCHANGED <<requests, requests_head>>
      BY <1>5 DEF WaitForAnswer, table
    <2>2. \/ /\ pc[c] = "wait_answer" /\ pc'[c] = "blocked_answer"
             /\ gate[c] = 0 /\ gate'[c] = -1
          \/ pc[c] = "wait_answer" /\ pc'[c] = "idle" /\ gate[c] > 0
          \/ pc[c] = "blocked_answer" /\ pc'[c] = "idle" /\ gate[c] # -1
      BY <1>0, <1>5 DEF WaitForAnswer, Block, Pass, Step
    <2> QED
      BY <1>0, <2>1, <2>2 DEF Pending, Sending, Polling
  <1> QED
    BY <1>1, <1>2, <1>3, <1>4, <1>5 DEF ClientStep

(* Only the thread inside the lock is on its way to an entry. *)
LEMMA OneInside ==
    ASSUME LockInv, NEW c \in Client, pc[c] \in Locked
    PROVE  \A d \in Client \ {c} : pc[d] \notin Locked
  BY DEF LockInv


-----------------------------------------------------------------------------
(* Steps of clients and the table. *)
LEMMA ClientEntries ==
    ASSUME MailInv, TableInv, NEW c \in Client, Request(c) \/ ClientStep(c)
    PROVE  EntriesInv'
  <1>0. Aside(c)
    BY ClientAside
  <1>1. \A d \in Client \ {c} : Pending(d)' <=> Pending(d)
    BY <1>0 DEF Aside, Pending
  <1>2. Leaving' = Leaving
    BY <1>0 DEF Aside, Leaving
  <1>3. CASE ~Enqueue(c)
    <2>1. UNCHANGED <<requests, requests_head, requests_tail>>
      BY <1>0, <1>3, ClientPending DEF Aside
    <2>2. \A d \in Client : Pending(d)' <=> Pending(d)
      BY <1>1, <1>3, ClientPending
    <2> QED
      BY <1>2, <2>1, <2>2, EntriesFrame DEF TableInv
  <1>4. CASE Enqueue(c)
    <2>1. PICK h : h = requests_head
      OBVIOUS
    <2>2. /\ h \in Slot /\ requests_tail \in Slot /\ requests_tail' = requests_tail
          /\ requests_head' = next_outstanding_request(h)
          /\ requests' = [requests EXCEPT ![h] = c]
          /\ requests \in [Slot -> Client \union {NULL}]
      BY <1>4, <2>1 DEF Enqueue, MailInv, Types, TypeOK
    <2>3. pc[c] = "enqueue" /\ pc'[c] = "queue_message"
      <3>1. Step(c, "enqueue", "queue_message")
        BY <1>4 DEF Enqueue
      <3> QED
        BY <3>1 DEF Step, MailInv, Types, Threads
    <2>4. ~Pending(c) /\ Pending(c)'
      BY <2>3 DEF Pending, Sending, Polling
    <2>5. requests_tail # next_outstanding_request(h)
      BY <2>1, <2>3 DEF TableInv, RoomInv, Full
    <2>6. Outstanding = Between(requests_tail, h)
      BY <2>1 DEF Outstanding, Between
    <2>7. Outstanding' = Between(requests_tail, next_outstanding_request(h))
      BY <2>2 DEF Outstanding, Between
    <2>8. Outstanding' = Outstanding \union {h} /\ h \notin Outstanding
      BY <2>2, <2>5, <2>6, <2>7, Ring
    <2>9. Live' = Live \union {h} /\ h \notin Live /\ Live \subseteq Slot
      BY <1>2, <2>8 DEF Live, TableInv, EntriesInv, Outstanding
    <2>10. requests'[h] = c /\ \A i \in Live : requests'[i] = requests[i]
      BY <2>2, <2>9
    <2>11. \A i \in Live : /\ requests[i] \in Client /\ Pending(requests[i])
                           /\ requests[i] # c
      BY <2>4 DEF TableInv, EntriesInv
    <2>12. \A i \in Live' : requests'[i] \in Client /\ Pending(requests[i])'
      <3> SUFFICES ASSUME NEW i \in Live'
                   PROVE  requests'[i] \in Client /\ Pending(requests[i])'
        OBVIOUS
      <3>1. PICK d : d = requests'[i]
        OBVIOUS
      <3>2. d \in Client /\ Pending(d)'
        BY <1>1, <2>4, <2>9, <2>10, <2>11, <3>1
      <3> QED
        BY <3>1, <3>2 DEF Pending
    <2>13. \A i, j \in Live' : requests'[i] = requests'[j] => i = j
      BY <2>9, <2>10, <2>11 DEF TableInv, EntriesInv
    <2>14. \A d \in Client : Pending(d)' => \E i \in Live' : requests'[i] = d
      BY <1>1, <2>9, <2>10 DEF TableInv, EntriesInv
    <2>15. Leaving' \subseteq Outstanding'
      BY <1>2, <2>8 DEF TableInv, EntriesInv
    <2> QED
      BY <2>12, <2>13, <2>14, <2>15 DEF EntriesInv
  <1> QED
    BY <1>3, <1>4

LEMMA ClientRoom ==
    ASSUME EnoughSlots, MailInv, TableInv, NEW c \in Client, Request(c) \/ ClientStep(c)
    PROVE  RoomInv'
  <1> USE DEF MailInv
  <1>0. Aside(c)
    BY ClientAside
  <1>p. /\ Removing' <=> Removing
        /\ pc'[Pump] = "unblock" <=> pc[Pump] = "unblock"
    BY <1>0 DEF Aside, Removing
  <1>c. /\ c \in Threads /\ c # Pump /\ c # NULL /\ pc \in [Threads -> ClientAt \union PumpAt]
        /\ gate \in [Threads -> -1 .. GateMax]
    BY DEF Threads, Types, TypeOK
  <1> DEFINE At(d) ==
                /\ pc[d] = "enqueue" => ~Full
                /\ pc[d] = "room" => (full <=> Full) /\ (Full => Removing)
                /\ pc[d] \in InRoom =>
                      IF blocked_thread = d THEN Removing \/ (pc[Pump] = "unblock" /\ ~Full)
                                            ELSE ~Full
             Inside == {"enqueue", "room"} \union InRoom
  <1>a. RoomInv <=> \A d \in Client : At(d)
    BY DEF RoomInv
  <1>b. (\A d \in Client : At(d)') => RoomInv'
    BY DEF RoomInv
  <1>i. pc[c] \in Locked => \A d \in Client \ {c} : At(d)'
    <2> SUFFICES ASSUME pc[c] \in Locked, NEW d \in Client \ {c} PROVE At(d)'
      OBVIOUS
    <2>1. pc'[d] \notin Locked
      BY <1>0, OneInside DEF Aside
    <2> QED
      BY <2>1, Labels DEF InRoom
  <1>1. CASE ~(LookForRoom(c) \/ LeaveTable(c) \/ WaitForRoom(c) \/ Enqueue(c))
    <2>1. UNCHANGED <<full, blocked_thread, requests_head, requests_tail>>
      <3>1. UNCHANGED <<requests_head, requests_tail>>
        BY <1>0, <1>1, ClientPending DEF Aside
      <3>2. UNCHANGED <<full, blocked_thread>>
        <4>1. CASE Request(c) \/ ClaimLock(c) \/ Register(c) \/ QueueMessage(c) \/ Poll(c)
          BY <4>1 DEF Request, ClaimLock, Register, QueueMessage, Poll, table
        <4>2. CASE MailboxFull(c) \/ Sleep(c) \/ SleepTimesOut(c) \/ MailboxReady(c)
          BY <4>2 DEF MailboxFull, Sleep, SleepTimesOut, MailboxReady, table
        <4>3. CASE ClearGate(c) \/ Write(c) \/ ReleaseLock(c) \/ WaitForAnswer(c)
          BY <4>3 DEF ClearGate, Write, ReleaseLock, WaitForAnswer, table
        <4> QED
          BY <1>1, <4>1, <4>2, <4>3 DEF ClientStep
      <3> QED
        BY <3>1, <3>2
    <2>2. pc'[c] \notin Inside
      <3>1. CASE Request(c) \/ ClaimLock(c) \/ Register(c) \/ QueueMessage(c) \/ Poll(c)
        BY <1>c, <3>1 DEF Request, ClaimLock, Register, QueueMessage, Poll, Step, InRoom
      <3>2. CASE MailboxFull(c) \/ SleepTimesOut(c) \/ MailboxReady(c)
        BY <1>c, <3>2 DEF MailboxFull, SleepTimesOut, MailboxReady, Step, InRoom
      <3>3. CASE ClearGate(c) \/ Write(c) \/ ReleaseLock(c)
        BY <1>c, <3>3 DEF ClearGate, Write, ReleaseLock, Step, InRoom
      <3>4. CASE WaitForAnswer(c) \/ Sleep(c)
        BY <1>c, <3>4 DEF WaitForAnswer, Sleep, Block, Pass, Step, InRoom
      <3> QED
        BY <1>1, <3>1, <3>2, <3>3, <3>4 DEF ClientStep
    <2>3. At(c)'
      BY <2>2
    <2>4. Full' <=> Full
      BY <2>1 DEF Full
    <2>5. ASSUME NEW d \in Client \ {c} PROVE At(d)'
      <3>1. At(d)
        BY <1>a DEF TableInv
      <3> QED
        BY <1>0, <1>p, <2>1, <2>4, <3>1 DEF Aside
    <2> QED
      BY <1>b, <2>3, <2>5
  <1>2. CASE Enqueue(c)
    <2>1. pc[c] = "enqueue" /\ pc'[c] = "queue_message"
      BY <1>2, <1>c DEF Enqueue, Step
    <2>2. At(c)'
      BY <2>1 DEF InRoom
    <2> QED
      BY <1>b, <1>i, <2>1, <2>2, Labels
  <1>3. CASE LookForRoom(c)
    <2>1. /\ pc[c] = "claim_table" /\ pc'[c] = "room" /\ full' = Full
          /\ UNCHANGED <<requests_head, requests_tail>>
      BY <1>3, <1>c DEF LookForRoom, Step, Full
    <2>2. ~Pending(c)
      BY <2>1 DEF Pending, Sending, Polling
    <2>3. Full => Removing
      BY <2>2, RoomComes DEF TableInv
    <2>4. Full' <=> Full
      BY <2>1 DEF Full
    <2>5. full' <=> Full
      BY <2>1
    <2>6. At(c)'
      BY <1>p, <2>1, <2>3, <2>4, <2>5 DEF InRoom
    <2>7. pc[c] \in Locked
      BY <2>1, Labels DEF Early
    <2> QED
      BY <1>b, <1>i, <2>6, <2>7
  <1>4. CASE LeaveTable(c)
    <2>1. /\ pc[c] = "room" /\ pc'[c] = IF full THEN "wait_room" ELSE "enqueue"
          /\ blocked_thread' = IF full THEN c ELSE blocked_thread
          /\ UNCHANGED <<requests_head, requests_tail>>
      BY <1>4, <1>c DEF LeaveTable, Step
    <2>2. (full <=> Full) /\ (Full => Removing)
      BY <2>1 DEF TableInv, RoomInv
    <2>3. Full' <=> Full
      BY <2>1 DEF Full
    <2>4. At(c)'
      BY <1>p, <2>1, <2>2, <2>3 DEF InRoom
    <2> QED
      BY <1>b, <1>i, <2>1, <2>4, Labels
  <1>5. CASE WaitForRoom(c)
    <2>1. /\ UNCHANGED <<requests_head, requests_tail, blocked_thread>>
          /\ \/ pc[c] = "wait_room" /\ pc'[c] = "blocked_room"
             \/ pc[c] = "wait_room" /\ pc'[c] = "enqueue" /\ gate[c] > 0
             \/ pc[c] = "blocked_room" /\ pc'[c] = "enqueue" /\ gate[c] # -1
      BY <1>5, <1>c DEF WaitForRoom, Block, Pass, Step, table
    <2>2. At(c) /\ pc[c] \in InRoom
      BY <1>a, <2>1 DEF TableInv, InRoom
    <2>3. pc'[c] = "enqueue" => blocked_thread # c
      BY <1>c, <2>1 DEF WakeInv
    <2>4. Full' <=> Full
      BY <2>1 DEF Full
    <2>5. At(c)'
      BY <1>p, <2>1, <2>2, <2>3, <2>4 DEF InRoom
    <2> QED
      BY <1>b, <1>i, <2>2, <2>5, Labels
  <1> QED
    BY <1>1, <1>2, <1>3, <1>4, <1>5

LEMMA ClientTable ==
    ASSUME EnoughSlots, MailInv, TableInv, NEW c \in Client, Request(c) \/ ClientStep(c)
    PROVE  TableInv'
  <1>1. brk' = brk
    <2>1. CASE Request(c) \/ ClaimLock(c) \/ Register(c) \/ LookForRoom(c) \/ LeaveTable(c)
      BY <2>1 DEF Request, ClaimLock, Register, LookForRoom, LeaveTable
    <2>2. CASE WaitForRoom(c) \/ Enqueue(c) \/ QueueMessage(c) \/ Poll(c) \/ MailboxFull(c)
      BY <2>2 DEF WaitForRoom, Enqueue, QueueMessage, Poll, MailboxFull
    <2>3. CASE \/ Sleep(c) \/ SleepTimesOut(c) \/ MailboxReady(c) \/ ClearGate(c) \/ Write(c)
               \/ ReleaseLock(c) \/ WaitForAnswer(c)
      BY <2>3 DEF Sleep, SleepTimesOut, MailboxReady, ClearGate, Write, ReleaseLock,
                  WaitForAnswer
    <2> QED
      BY <2>1, <2>2, <2>3 DEF ClientStep
  <1> QED
    BY <1>1, ClientEntries, ClientRoom DEF TableInv


-----------------------------------------------------------------------------
(* Steps of the others and the table. *)
LEMMA RoomFrame ==
    ASSUME RoomInv, UNCHANGED <<requests_head, requests_tail, full, blocked_thread>>,
           \A c \in Client : pc'[c] = pc[c],
           Removing => Removing',
           pc[Pump] = "unblock" => pc'[Pump] = "unblock"
    PROVE  RoomInv'
  <1>1. Full' <=> Full
    BY DEF Full
  <1> QED
    BY <1>1 DEF RoomInv

(* Steps that change neither the table nor anybody's request. *)
LEMMA QuietTable ==
    ASSUME MailInv, TableInv,
           \/ GPUStep \/ Interrupt \/ PumpBlock \/ PumpPass \/ PumpRound \/ Resume
           \/ UNCHANGED vars
    PROVE  TableInv'
  <1> USE DEF MailInv
  <1>0. Pump \in Threads /\ Client \subseteq Threads /\ Pump \notin Client
    BY DEF Threads
  <1>1. UNCHANGED <<requests, requests_head, requests_tail, full, blocked_thread>>
    BY DEF GPUStep, GPUTake, GPUAnswer, Interrupt, PumpBlock, PumpPass, PumpRound, Resume,
           vars, table
  <1>2. \/ pc' = pc /\ found' = found
        \/ /\ \E to \in {"wait", "blocked", "round", "incoming"} : pc' = [pc EXCEPT ![Pump] = to]
           /\ pc[Pump] \in {"wait", "blocked", "round", "resume"}
    BY DEF GPUStep, GPUTake, GPUAnswer, Interrupt, PumpBlock, PumpPass, PumpRound, Resume,
           Block, Pass, Step, vars, pump
  <1>3. /\ \A c \in Client : pc'[c] = pc[c]
        /\ \/ pc'[Pump] = pc[Pump] /\ found' = found
           \/ {pc[Pump], pc'[Pump]} \subseteq {"wait", "blocked", "round", "incoming", "resume"}
    BY <1>0, <1>2 DEF Types
  <1>4. \A c \in Client : gate'[c] = gate[c] \/ pc[c] \in Polling
    <2>1. CASE gate' = gate
      BY <2>1
    <2>2. CASE PumpBlock \/ PumpPass
      <3>1. \/ gate' = gate \/ gate' = [gate EXCEPT ![Pump] = -1]
            \/ gate' = [gate EXCEPT ![Pump] = 0]
        BY <2>2 DEF PumpBlock, PumpPass, Block, Pass
      <3> QED
        BY <1>0, <3>1 DEF Types, TypeOK
    <2>3. CASE Interrupt /\ gate' # gate
      <3>1. \/ gate' = Woken(gate, blocked_sending_thread)
            \/ gate' = Woken(Woken(gate, waiting_thread), blocked_sending_thread)
        BY <2>3 DEF Interrupt
      <3> QED
        BY <3>1, InterruptWakes DEF Stirring
    <2> QED
      BY <2>1, <2>2, <2>3
      DEF GPUStep, GPUTake, GPUAnswer, PumpRound, Resume, vars
  <1>5. \A c \in Client : Pending(c)' <=> Pending(c)
    BY <1>3, <1>4 DEF Pending, Sending, Polling
  <1>6. Leaving' = Leaving
    BY <1>1, <1>3 DEF Leaving
  <1>7. EntriesInv'
    BY <1>1, <1>5, <1>6, EntriesFrame DEF TableInv
  <1>8. RoomInv'
    <2>1. (Removing => Removing') /\ (pc[Pump] = "unblock" => pc'[Pump] = "unblock")
      BY <1>3 DEF Removing
    <2> QED
      BY <1>1, <1>3, <2>1, RoomFrame DEF TableInv
  <1>9. brk' \in {NULL, 4}
    BY DEF GPUStep, GPUTake, GPUAnswer, Interrupt, PumpBlock, PumpPass, PumpRound, Resume,
           vars, TableInv
  <1> QED
    BY <1>7, <1>8, <1>9 DEF TableInv

(* incoming_message finds the entry of the message. *)
LEMMA IncomingFinds ==
    ASSUME MailInv, TableInv, pc[Pump] = "incoming"
    PROVE  /\ message \in Client /\ Pending(message) /\ pc[message] \notin Sending
           /\ \E i \in Outstanding : requests[i] = message
  <1> USE DEF MailInv
  <1>1. PICK m : m = message
    OBVIOUS
  <1>2. m \in Client /\ Held(m) # {}
    BY <1>1, HeldIs DEF HeldAs, Types
  <1>3. pc[m] \in Away
    BY <1>2 DEF FlightInv
  <1>4. Pending(m) /\ pc[m] \notin Sending
    BY <1>2, <1>3 DEF FlightInv, Away, Pending, Sending, Polling
  <1>5. \E i \in Live : requests[i] = m
    BY <1>2, <1>4 DEF TableInv, EntriesInv
  <1> QED
    BY <1>1, <1>2, <1>4, <1>5 DEF Live

LEMMA IncomingTable == ASSUME MailInv, TableInv, Incoming PROVE TableInv'
  <1> USE DEF MailInv
  <1>0. Pump \in Threads /\ Client \subseteq Threads /\ Pump \notin Client /\ NULL \notin Client
    BY DEF Threads
  <1>1. PICK m : m = message
    OBVIOUS
  <1>2. /\ UNCHANGED <<requests, requests_head, requests_tail, full, blocked_thread>>
        /\ brk = NULL /\ pc[Pump] = "incoming" /\ m \in Client
    BY <1>1 DEF Incoming, table, Types
  <1>3. Leaving = {} /\ Live = Outstanding
    BY <1>2 DEF Leaving, Live
  <1>4. Pending(m) /\ pc[m] \notin Sending
    BY <1>1, <1>2, IncomingFinds
  <1>5. \E i \in Outstanding : requests[i] = m
    BY <1>1, <1>2, IncomingFinds
  <1>6. /\ found' \in Outstanding /\ requests[found'] = m
        /\ gate' = Woken(gate, m) /\ brk' = brk
        /\ pc' = [pc EXCEPT ![Pump] = "remove"]
    BY <1>1, <1>5 DEF Incoming
  <1>7. pc'[Pump] = "remove" /\ \A c \in Client : pc'[c] = pc[c]
    BY <1>0, <1>6 DEF Types
  <1>8. /\ gate[m] \in {-1, 0} /\ gate[m] < GateMax /\ gate \in [Threads -> -1 .. GateMax]
    BY <1>4 DEF Pending, Types, TypeOK
  <1>9. gate'[m] = gate[m] + 1 /\ \A d \in Client \ {m} : gate'[d] = gate[d]
    BY <1>0, <1>2, <1>6, <1>8, WokenIs
  <1>10. ~Pending(m)' /\ \A d \in Client \ {m} : Pending(d)' <=> Pending(d)
    <2>1. ~Pending(m)'
      BY <1>2, <1>4, <1>7, <1>8, <1>9 DEF Pending
    <2>2. \A d \in Client \ {m} : Pending(d)' <=> Pending(d)
      BY <1>7, <1>9 DEF Pending
    <2> QED
      BY <2>1, <2>2
  <1>11. Outstanding' = Outstanding /\ Outstanding \subseteq Slot
    BY <1>2 DEF Outstanding
  <1>12. Leaving' = {found'}
    BY <1>6, <1>7, <1>11 DEF Leaving
  <1>13. Live' = Live \ {found'}
    BY <1>3, <1>11, <1>12 DEF Live
  <1>14. EntriesInv'
    <2>1. ASSUME NEW i \in Live' PROVE requests'[i] \in Client /\ Pending(requests[i])'
      <3>1. PICK d : d = requests[i]
        OBVIOUS
      <3>2. d \in Client /\ Pending(d) /\ d # m
        BY <1>3, <1>6, <1>13, <2>1, <3>1 DEF TableInv, EntriesInv
      <3>3. Pending(d)'
        BY <1>10, <3>2
      <3> QED
        BY <1>2, <3>1, <3>2, <3>3 DEF Pending
    <2>2. \A i, j \in Live' : requests'[i] = requests'[j] => i = j
      BY <1>2, <1>13 DEF TableInv, EntriesInv
    <2>3. ASSUME NEW d \in Client, Pending(d)' PROVE \E i \in Live' : requests'[i] = d
      <3>1. Pending(d) /\ d # m
        BY <1>10, <2>3
      <3>2. PICK i \in Live : requests[i] = d
        BY <3>1 DEF TableInv, EntriesInv
      <3> QED
        BY <1>2, <1>6, <1>13, <3>1, <3>2
    <2>4. Leaving' \subseteq Outstanding'
      BY <1>6, <1>11, <1>12
    <2> QED
      BY <2>1, <2>2, <2>3, <2>4 DEF EntriesInv
  <1>15. RoomInv'
    <2>1. Removing' /\ pc[Pump] # "unblock"
      BY <1>2, <1>7 DEF Removing
    <2> QED
      BY <1>2, <1>7, <2>1, RoomFrame DEF TableInv
  <1> QED
    BY <1>2, <1>6, <1>14, <1>15 DEF TableInv

LEMMA RemoveTable == ASSUME MailInv, TableInv, RemoveRequest PROVE TableInv'
  <1> USE DEF MailInv
  <1>0. Pump \in Threads /\ Client \subseteq Threads /\ Pump \notin Client /\ NULL \notin Client
    BY DEF Threads
  <1>1. PICK f, t : f = found /\ t = requests_tail
    OBVIOUS
  <1>2. /\ UNCHANGED <<requests_head, requests_tail, full, blocked_thread, gate, found, brk>>
        /\ pc[Pump] = "remove" /\ pc' = [pc EXCEPT ![Pump] = "advance"]
        /\ requests' = [requests EXCEPT ![f] = requests[t], ![t] = NULL]
        /\ f \in Slot /\ t \in Slot /\ requests \in [Slot -> Client \union {NULL}]
    BY <1>1 DEF RemoveRequest, Step, Filled, pump, Types, TypeOK
  <1>3. pc'[Pump] = "advance" /\ \A c \in Client : pc'[c] = pc[c]
    BY <1>0, <1>2 DEF Types
  <1>4. \A c \in Client : Pending(c)' <=> Pending(c)
    BY <1>2, <1>3 DEF Pending
  <1>5. Outstanding' = Outstanding /\ Outstanding \subseteq Slot
    BY <1>2 DEF Outstanding
  <1>6. Leaving = {f} /\ Leaving' = {t}
    BY <1>1, <1>2, <1>3 DEF Leaving
  <1>7. f \in Outstanding /\ t \in Outstanding
    <2>1. f \in Outstanding
      BY <1>6 DEF TableInv, EntriesInv
    <2>2. Outstanding = Between(t, requests_head) /\ requests_head \in Slot
      BY <1>1 DEF Outstanding, Between, Types, TypeOK
    <2>3. t # requests_head
      BY <1>2, <2>1, <2>2 DEF Between, Slot
    <2> QED
      BY <1>2, <2>1, <2>2, <2>3, Ring
  <1>8. Live = Outstanding \ {f} /\ Live' = Outstanding \ {t}
    BY <1>5, <1>6 DEF Live
  <1>9. /\ \A i \in Live' \ {f} : requests'[i] = requests[i] /\ i \in Live
        /\ f \in Live' => requests'[f] = requests[t] /\ t \in Live
    BY <1>2, <1>5, <1>7, <1>8
  <1>10. EntriesInv'
    <2>1. ASSUME NEW i \in Live' PROVE requests'[i] \in Client /\ Pending(requests[i])'
      <3>1. PICK d : d = requests'[i]
        OBVIOUS
      <3>2. d \in Client /\ Pending(d)
        BY <1>9, <2>1, <3>1 DEF TableInv, EntriesInv
      <3>3. Pending(d)'
        BY <1>4, <3>2
      <3> QED
        BY <3>1, <3>2, <3>3 DEF Pending
    <2>2. ASSUME NEW i \in Live', NEW j \in Live', requests'[i] = requests'[j] PROVE i = j
      <3>1. PICK a, b : a = (IF i = f THEN t ELSE i) /\ b = (IF j = f THEN t ELSE j)
        OBVIOUS
      <3>2. a \in Live /\ b \in Live /\ requests[a] = requests[b]
        BY <1>9, <2>2, <3>1
      <3>3. a = b
        BY <3>2 DEF TableInv, EntriesInv
      <3>4. i # t /\ j # t
        BY <1>8, <2>2
      <3> QED
        BY <3>1, <3>3, <3>4
    <2>3. ASSUME NEW d \in Client, Pending(d)' PROVE \E i \in Live' : requests'[i] = d
      <3>1. PICK i \in Live : requests[i] = d
        BY <1>4, <2>3 DEF TableInv, EntriesInv
      <3>2. CASE i = t
        <4>1. f \in Live'
          BY <1>7, <1>8, <3>1, <3>2
        <4> QED
          BY <1>9, <3>1, <3>2, <4>1
      <3>3. CASE i # t
        <4>1. i \in Live' \ {f}
          BY <1>8, <3>1, <3>3
        <4> QED
          BY <1>9, <3>1, <4>1
      <3> QED
        BY <3>2, <3>3
    <2>4. Leaving' \subseteq Outstanding'
      BY <1>5, <1>6, <1>7
    <2> QED
      BY <2>1, <2>2, <2>3, <2>4 DEF EntriesInv
  <1>11. RoomInv'
    <2>1. Removing' /\ pc[Pump] # "unblock"
      BY <1>2, <1>3 DEF Removing
    <2> QED
      BY <1>2, <1>3, <2>1, RoomFrame DEF TableInv
  <1> QED
    BY <1>2, <1>10, <1>11 DEF TableInv

LEMMA AdvanceTable == ASSUME MailInv, TableInv, Advance PROVE TableInv'
  <1> USE DEF MailInv
  <1>0. Pump \in Threads /\ Client \subseteq Threads /\ Pump \notin Client /\ NULL \notin Client
    BY DEF Threads
  <1>1. PICK t, h : t = requests_tail /\ h = requests_head
    OBVIOUS
  <1>2. /\ UNCHANGED <<requests, requests_head, full, blocked_thread, gate, found, brk>>
        /\ pc[Pump] = "advance" /\ pc' = [pc EXCEPT ![Pump] = "unblock"]
        /\ requests_tail' = next_outstanding_request(t) /\ table_lock = NULL
        /\ t \in Slot /\ h \in Slot
    BY <1>1 DEF Advance, Step, TableFree, pump, Types, TypeOK
  <1>3. pc'[Pump] = "unblock" /\ \A c \in Client : pc'[c] = pc[c]
    BY <1>0, <1>2 DEF Types
  <1>4. \A c \in Client : Pending(c)' <=> Pending(c)
    BY <1>2, <1>3 DEF Pending
  <1>5. Leaving = {t} /\ Leaving' = {}
    BY <1>1, <1>2, <1>3 DEF Leaving
  <1>6. Outstanding = Between(t, h) /\ Outstanding' = Between(next_outstanding_request(t), h)
    BY <1>1, <1>2 DEF Outstanding, Between
  <1>7. t # h
    <2>1. t \in Between(t, h)
      BY <1>5, <1>6 DEF TableInv, EntriesInv
    <2> QED
      BY <1>2, <2>1, Ring
  <1>8. Outstanding' = Outstanding \ {t} /\ ~Full'
    BY <1>1, <1>2, <1>6, <1>7, Ring DEF Full
  <1>9. Live' = Live
    BY <1>5, <1>8 DEF Live
  <1>10. EntriesInv'
    <2>1. ASSUME NEW i \in Live' PROVE requests'[i] \in Client /\ Pending(requests[i])'
      <3>1. PICK d : d = requests[i]
        OBVIOUS
      <3>2. d \in Client /\ Pending(d)
        BY <1>9, <2>1, <3>1 DEF TableInv, EntriesInv
      <3>3. Pending(d)'
        BY <1>4, <3>2
      <3> QED
        BY <1>2, <3>1, <3>2, <3>3 DEF Pending
    <2>2. \A i, j \in Live' : requests'[i] = requests'[j] => i = j
      BY <1>2, <1>9 DEF TableInv, EntriesInv
    <2>3. \A d \in Client : Pending(d)' => \E i \in Live' : requests'[i] = d
      BY <1>2, <1>4, <1>9 DEF TableInv, EntriesInv
    <2>4. Leaving' \subseteq Outstanding'
      BY <1>5
    <2> QED
      BY <2>1, <2>2, <2>3, <2>4 DEF EntriesInv
  <1>11. RoomInv'
    <2>1. \A c \in Client : pc'[c] # "room"
      BY <1>2, <1>3 DEF LockInv
    <2> QED
      BY <1>3, <1>8, <2>1 DEF RoomInv
  <1> QED
    BY <1>2, <1>10, <1>11 DEF TableInv

LEMMA UnblockTable == ASSUME MailInv, TableInv, Unblock PROVE TableInv'
  <1> USE DEF MailInv
  <1>0. Pump \in Threads /\ Client \subseteq Threads /\ Pump \notin Client /\ NULL \notin Client
    BY DEF Threads
  <1>1. /\ UNCHANGED <<requests, requests_head, requests_tail, full, found, brk>>
        /\ pc[Pump] = "unblock" /\ pc' = [pc EXCEPT ![Pump] = "resume"]
        /\ gate' = Woken(gate, blocked_thread) /\ blocked_thread' = NULL
    BY DEF Unblock, Step, pump
  <1>2. pc'[Pump] = "resume" /\ \A c \in Client : pc'[c] = pc[c]
    BY <1>0, <1>1 DEF Types
  <1>3. \A c \in Client : gate'[c] = gate[c] \/ pc[c] \in InRoom
    <2>1. gate \in [Threads -> -1 .. GateMax] /\ blocked_thread \in Threads \union {NULL}
      BY <1>0 DEF Types, TypeOK
    <2>2. \A u \in Threads \ {blocked_thread} : gate'[u] = gate[u]
      BY <1>1, <2>1, WokenIs
    <2>3. \A c \in Client : c = blocked_thread => pc[c] \in InRoom
      BY <1>0 DEF WakeInv, InRoom
    <2> QED
      BY <1>0, <2>2, <2>3
  <1>4. \A c \in Client : Pending(c)' <=> Pending(c)
    BY <1>2, <1>3 DEF Pending, InRoom, Sending, Polling
  <1>5. Leaving' = Leaving
    BY <1>1, <1>2 DEF Leaving
  <1>6. EntriesInv'
    BY <1>1, <1>4, <1>5, EntriesFrame DEF TableInv
  <1>7. RoomInv'
    <2>1. Full' <=> Full
      BY <1>1 DEF Full
    <2>2. ~Removing
      BY <1>1 DEF Removing
    <2>3. \A c \in Client : pc[c] \in InRoom \union {"enqueue"} => ~Full
      BY <2>2 DEF TableInv, RoomInv
    <2>4. \A c \in Client : pc[c] = "room" => (full <=> Full) /\ ~Full
      BY <2>2 DEF TableInv, RoomInv
    <2> QED
      BY <1>0, <1>1, <1>2, <2>1, <2>3, <2>4 DEF RoomInv
  <1> QED
    BY <1>1, <1>6, <1>7 DEF TableInv

LEMMA InitTable == Init => TableInv
  <1> SUFFICES ASSUME Init PROVE TableInv
    OBVIOUS
  <1>1. pc[Pump] = "none" /\ \A c \in Client : pc[c] = "idle"
    BY DEF Init, Threads
  <1>2. Outstanding = {} /\ Leaving = {}
    BY <1>1 DEF Init, Outstanding, Leaving, Slot
  <1>3. \A c \in Client : ~Pending(c)
    BY <1>1 DEF Pending, Sending, Polling
  <1>4. EntriesInv
    BY <1>2, <1>3 DEF EntriesInv, Live
  <1>5. RoomInv
    BY <1>1 DEF RoomInv, InRoom
  <1> QED
    BY <1>4, <1>5 DEF Init, TableInv

LEMMA NextTable == ASSUME EnoughSlots, MailInv, TableInv, [Next]_vars PROVE TableInv'
  <1>1. ASSUME NEW c \in Client, Request(c) \/ ClientStep(c) PROVE TableInv'
    BY <1>1, ClientTable
  <1>2. CASE PumpStep
    BY <1>2, QuietTable, IncomingTable, RemoveTable, AdvanceTable, UnblockTable DEF PumpStep
  <1>3. CASE GPUStep \/ Interrupt \/ UNCHANGED vars
    BY <1>3, QuietTable
  <1> QED
    BY <1>1, <1>2, <1>3 DEF Next

(* With more slots than clients (the code has 64 slots), the table of    *)
(* outstanding requests holds every request that is not answered, once, a  *)
(* client never writes to a full table, and incoming_message finds the     *)
(* entry of each message.                                                  *)
THEOREM MailboxTable == ASSUME EnoughSlots PROVE Spec => []TableInv
  <1>1. MailInv /\ TableInv /\ [Next]_vars => (MailInv /\ TableInv)'
    BY NextMail, NextTable
  <1>2. Init => MailInv /\ TableInv
    BY InitMail, InitTable
  <1> QED
    BY <1>1, <1>2, PTL DEF Spec

(* As long as a client sleeps on its answer, the message is somewhere      *)
(* between the two mailboxes and incoming_message, and the table knows     *)
(* whom to wake.                                                           *)
THEOREM MailboxNoAnswerLost == ASSUME EnoughSlots PROVE Spec => []NoAnswerLost
  <1>1. MailInv /\ TableInv => NoAnswerLost
    <2> SUFFICES ASSUME MailInv, TableInv, NEW c \in Client,
                        gate[c] = -1, pc[c] = "blocked_answer"
                 PROVE  Copies(c) = 1 /\ \E i \in Outstanding : requests[i] = c
      BY DEF NoAnswerLost
    <2>1. Held(c) # {}
      BY DEF MailInv, FlightInv
    <2>2. Copies(c) = 1
      BY <2>1, CopiesIs DEF MailInv
    <2>3. Pending(c)
      BY DEF Pending
    <2>4. \E i \in Live : requests[i] = c
      BY <2>3 DEF TableInv, EntriesInv
    <2> QED
      BY <2>2, <2>4 DEF Live
  <1> QED
    BY <1>1, MailboxInvariant, MailboxTable, PTL


(* Three messages at once are needed to meet the brk of mailbox_interrupt. *)
Overrun ==
    brk # NULL =>
        brk = 4 /\ toARM # << >> /\ received_message # NULL /\ blocking_message # NULL

LEMMA ThreeMessages ==
    ASSUME MailInv, toARM # << >>, received_message # NULL, blocking_message # NULL
    PROVE  /\ received_message \in Client /\ blocking_message \in Client
           /\ received_message # blocking_message
           /\ Head(toARM) \notin {received_message, blocking_message}
  <1>1. PICK m, r, b : m = Head(toARM) /\ r = received_message /\ b = blocking_message
    OBVIOUS
  <1>2. m \in Client /\ m \in Elems(toARM) /\ r \in Client /\ b \in Client
    BY <1>1, ElemsTail DEF MailInv, Types, TypeOK
  <1>3. "toARM" \in Held(m) /\ "received" \in Held(r) /\ "blocking" \in Held(b)
    BY <1>1, <1>2, HeldIs DEF HeldAs
  <1>4. Held(m) = {"toARM"} /\ Held(r) = {"received"} /\ Held(b) = {"blocking"}
    BY <1>2, <1>3, HeldOnly DEF MailInv
  <1>5. m # r /\ m # b /\ r # b
    BY <1>4
  <1> QED
    BY <1>1, <1>2, <1>5

LEMMA NextOverrun ==
    ASSUME EnoughSlots, MailInv, TableInv, Overrun, [Next]_vars
    PROVE  Overrun'
  <1>1. ASSUME NEW c \in Client, Request(c) \/ ClientStep(c) PROVE brk = NULL /\ brk' = NULL
    <2>1. CASE Request(c) \/ ClaimLock(c) \/ Register(c) \/ LookForRoom(c) \/ LeaveTable(c)
      BY <2>1 DEF Request, ClaimLock, Register, LookForRoom, LeaveTable, Step
    <2>2. CASE WaitForRoom(c) \/ Enqueue(c) \/ QueueMessage(c) \/ Poll(c) \/ MailboxFull(c)
      BY <2>2 DEF WaitForRoom, Enqueue, QueueMessage, Poll, MailboxFull, Step, Block, Pass
    <2>3. CASE \/ Sleep(c) \/ SleepTimesOut(c) \/ MailboxReady(c) \/ ClearGate(c)
               \/ Write(c) \/ ReleaseLock(c) \/ WaitForAnswer(c)
      BY <2>3 DEF Sleep, SleepTimesOut, MailboxReady, ClearGate, Write, ReleaseLock,
                  WaitForAnswer, Step, Block, Pass
    <2> QED
      BY <1>1, <2>1, <2>2, <2>3 DEF ClientStep
  <1>2. CASE Incoming
    <2>1. \E i \in Outstanding : requests[i] = message
      BY <1>2, IncomingFinds DEF Incoming
    <2>2. brk' = NULL
      BY <1>2, <2>1 DEF Incoming
    <2> QED
      BY <2>2 DEF Overrun
  <1>3. CASE Interrupt
    <2>1. CASE blocking_message # NULL /\ received_message # NULL
      BY <1>3, <2>1 DEF Interrupt, Overrun
    <2>2. CASE ~(blocking_message # NULL /\ received_message # NULL)
      <3>1. brk' = NULL
        BY <1>3, <2>2 DEF Interrupt
      <3> QED
        BY <3>1 DEF Overrun
    <2> QED
      BY <2>1, <2>2
  <1>4. ASSUME PumpStep, ~Incoming PROVE brk = NULL /\ brk' = NULL
    BY <1>4 DEF PumpStep, PumpBlock, PumpPass, PumpRound, RemoveRequest, Advance,
                Unblock, Resume, Step, Block, Pass
  <1>5. CASE GPUTake
    BY <1>5 DEF GPUTake, channel, Overrun
  <1>6. ASSUME NEW m \in Client, GPUAnswer(m) PROVE Overrun'
    <2>1. toARM \in Seq(Client) /\ toARM' = Append(toARM, m)
      BY <1>6 DEF GPUAnswer, MailInv, Types, TypeOK
    <2>2. toARM' # << >>
      BY <2>1
    <2>3. UNCHANGED <<brk, received_message, blocking_message>>
      BY <1>6 DEF GPUAnswer, channel
    <2> QED
      BY <2>2, <2>3 DEF Overrun
  <1>7. CASE UNCHANGED vars
    BY <1>7 DEF vars, hardware, channel, Overrun
  <1>8. ASSUME brk' = NULL PROVE Overrun'
    BY <1>8 DEF Overrun
  <1> QED
    BY <1>1, <1>2, <1>3, <1>4, <1>5, <1>6, <1>7, <1>8 DEF Next, GPUStep

(* However many threads make requests, as long as the table has a slot more*)
(* than there are threads (EnoughSlots), the one brk that the driver meets *)
(* is the "How?" of mailbox_interrupt, and only when the answers of three  *)
(* threads meet there; incoming_message never meets its own, and every     *)
(* index, count and gate stays in its range.                               *)
THEOREM MailboxOnlyOverrun == ASSUME EnoughSlots PROVE Spec => []OnlyOverrun
  <1>1. MailInv /\ TableInv /\ Overrun /\ [Next]_vars => Overrun'
    BY NextOverrun
  <1>2. Init => Overrun
    BY DEF Init, Overrun
  <1>3. MailInv /\ Overrun => OnlyOverrun
    BY ThreeMessages DEF MailInv, Types, Overrun, OnlyOverrun
  <1> QED
    BY <1>1, <1>2, <1>3, MailboxInvariant, MailboxTable, PTL DEF Spec
=============================================================================
