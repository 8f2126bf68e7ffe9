------------------------------ MODULE SdProofs ------------------------------
(***************************************************************************)
(* The hand-shake of threads, interrupt handler and card, for any number   *)
(* of clients and any clock rates.                                         *)
(***************************************************************************)
EXTENDS Sd, TLAPS

-----------------------------------------------------------------------------
(* The inductive invariant *)

Commands == {"cmd0", "cmd8", "inquiry", "acmd41", "cmd11", "cmd2", "cmd3", "cmd7",
             "acmd6", "acmd51", "cmd18"}

Early    == {"prepare", "power_up", "reset", "identify_speed", "irpt_mask"}
Checks   == {"check8", "check41", "check11", "check3", "check7"}
Waiting  == {"cmdtm", "cmdtm_blocked", "data", "data_blocked"}
Identifying == Early \union Checks \union Waiting \union (Commands \ {"cmd18"})
               \union {"full_speed"}
Reading == {"read", "cmd18", "return"} \union Waiting

Waits(t) == pc[t] \in Waiting

(* The answer to the command, and the end of its data, are still to come   *)
(* to the handler.                                                         *)
AnswerDue == CMDTM # NULL \/ "CMD_DONE" \in INTERRUPT \/ "ERROR" \in INTERRUPT

DataDue(l) == /\ Program[l].data
              /\ AnswerDue \/ transfer # "none" \/ "DATA_DONE" \in INTERRUPT

(* Who may be where: the initialising thread is alone until the device is  *)
(* exposed, and then the one client that has the lock.                     *)
PlaceInv ==
    /\ pc[Initialiser] \in Identifying \union {"exposed", "gave_up"}
    /\ \A c \in Client : pc[c] \in {"idle", "claim"} \union Reading
    /\ \A c \in Client : pc[c] # "idle" => pc[Initialiser] = "exposed"
    /\ \A c \in Client : pc[c] \in Reading <=> emmc_lock = c
    /\ emmc_lock # Initialiser

(* What the steps between commands rely on. *)
PathInv ==
    /\ \A t \in Threads : pc[t] \in Checks \union {"full_speed", "return"} =>
                              pc[t] = Program[at[t]].then
    /\ \A c \in Client : pc[c] \in Waiting => at[c] = "cmd18"
    /\ pc[Initialiser] \in Waiting => at[Initialiser] # "cmd18"
    /\ \A c \in Client : pc[c] \in {"cmd18"} \union Waiting => dma = c
    /\ pc[Initialiser] \notin {"prepare", "gave_up"} => irq_enabled
    /\ pc[Initialiser] \notin Early \union {"gave_up"} =>
          {"CMD_DONE", "DATA_DONE", "ERROR"} \subseteq IRPT_MASK
    /\ pc[Initialiser] \notin Early \union {"gave_up", "exposed"} =>
          "READ_RDY" \in IRPT_MASK

(* Between commands nothing is under way, and no wake is saved up: the     *)
(* driver's sleeps would swallow it.                                       *)
QuietInv ==
    /\ \A t \in Threads : ~Waits(t) => gate[t] = 0
    /\ (\A t \in Threads : ~Waits(t)) =>
          CMDTM = NULL /\ transfer = "none" /\ INTERRUPT = {}

(* The wakes that t has had for its command, and those it has used up. *)
Had(l) == (IF AnswerDue THEN 0 ELSE 1)
          + (IF Program[l].data /\ ~DataDue(l) THEN 1 ELSE 0)

Used(t) == CASE pc[t] = "cmdtm" -> 0
             [] pc[t] = "cmdtm_blocked" -> 1
             [] pc[t] = "data" -> IF taken[t] = 0 THEN 1 ELSE taken[t]
             [] pc[t] = "data_blocked" -> IF taken[t] = 0 THEN 2 ELSE taken[t] + 1

WakesInv(t) ==
    /\ gate[t] = Had(at[t]) - Used(t)
    /\ pc[t] \in {"data", "data_blocked"} => Program[at[t]].data /\ ~AnswerDue

(* How far the command of t is. *)
CommandInv(t) ==
    LET l == at[t]
        p == Program[l]
    IN  /\ CMDTM \in {NULL, current_cmdtm}
        /\ "ERROR" \in INTERRUPT => CMDTM = NULL /\ "CMD_DONE" \notin INTERRUPT
        /\ "CMD_DONE" \in INTERRUPT => CMDTM = NULL /\ RESP.cmd = current_cmdtm
        /\ \/ current_cmdtm = p.no
           \/ /\ current_cmdtm = 55 /\ p.app /\ pending_app_cmdtm = p.no
              /\ AnswerDue /\ transfer = "none" /\ "DATA_DONE" \notin INTERRUPT
        /\ AnswerDue => command_thread = t
        /\ ~AnswerDue => response.cmd = p.no

(* How far the data of t's command is. *)
DataInv(t) ==
    LET l == at[t]
        p == Program[l]
    IN  /\ p.data => data_thread = t
        /\ transfer # "none" \/ "DATA_DONE" \in INTERRUPT =>
              p.data /\ CMDTM = NULL /\ "ERROR" \notin INTERRUPT
        /\ "DATA_DONE" \in INTERRUPT => transfer = "none"
        /\ transfer = "dma" => l = "cmd18"
        /\ transfer = "busy" => l = "cmd7"
        /\ transfer \in {"block", "fifo"} => l = "acmd51"
        /\ "READ_RDY" \in INTERRUPT => transfer = "fifo"
        /\ "CMD_DONE" \in INTERRUPT /\ p.data /\ current_cmdtm = p.no =>
              transfer # "none" \/ "DATA_DONE" \in INTERRUPT
        /\ l = "acmd51" /\ block_size = 0 =>
              /\ current_cmdtm = 51 /\ CMDTM = NULL
              /\ transfer \in {"none", "fifo"} /\ "READ_RDY" \notin INTERRUPT
        /\ l = "cmd18" /\ ~DataDue(l) => t \in filled
        /\ l = "acmd51" /\ ~DataDue(l) => block_size = 0
        /\ l = "acmd51" /\ "DATA_DONE" \in INTERRUPT => block_size = 0
        /\ l = "cmd18" /\ "DATA_DONE" \in INTERRUPT => t \in filled

HandshakeInv ==
    \A t \in Threads : Waits(t) => WakesInv(t) /\ CommandInv(t) /\ DataInv(t)

SdInv ==
    /\ AnswerIsMine /\ DataIsThere /\ AlwaysSomeoneToWake
    /\ current_cmdtm \in Nat /\ pending_app_cmdtm \in Nat
    /\ PlaceInv /\ PathInv /\ QuietInv /\ HandshakeInv

-----------------------------------------------------------------------------
(* Facts *)

(* What the proofs use of the table of commands. *)
Thens == {"cmd8", "check8", "acmd41", "check41", "check11", "cmd3", "check3", "check7",
          "acmd51", "full_speed", "return"}

LEMMA ProgramFacts ==
    /\ DOMAIN Program = Commands
    /\ \A l \in Commands :
          /\ Program[l].no \in {0, 8, 41, 11, 2, 3, 7, 6, 51, 18}
          /\ Program[l].then \in Thens
          /\ Program[l].data <=> l \in {"cmd7", "acmd51", "cmd18"}
          /\ Program[l].no = 7 <=> l = "cmd7"
          /\ Program[l].no = 51 <=> l = "acmd51"
          /\ Program[l].no = 18 <=> l = "cmd18"
          /\ Program[l].app => Program[l].no \in {41, 6, 51}
          /\ Program[l].then = "return" <=> l = "cmd18"
          /\ Program[l].then = "full_speed" <=> l = "acmd51"
          /\ Program[l].then = "check8" <=> l = "cmd8"
          /\ Program[l].then = "check41" <=> l = "acmd41"
          /\ Program[l].then = "check11" <=> l = "cmd11"
          /\ Program[l].then = "check3" <=> l = "cmd3"
          /\ Program[l].then = "check7" <=> l = "cmd7"
  <1>1. DOMAIN Program = Commands
    BY DEF Program, Commands
  <1>2. ASSUME NEW l \in Commands
        PROVE  /\ Program[l].no \in {0, 8, 41, 11, 2, 3, 7, 6, 51, 18}
               /\ Program[l].data <=> l \in {"cmd7", "acmd51", "cmd18"}
               /\ Program[l].no = 7 <=> l = "cmd7"
               /\ Program[l].no = 51 <=> l = "acmd51"
               /\ Program[l].no = 18 <=> l = "cmd18"
               /\ Program[l].app => Program[l].no \in {41, 6, 51}
    <2>1. /\ Program[l].no \in {0, 8, 41, 11, 2, 3, 7, 6, 51, 18}
          /\ Program[l].no = 7 <=> l = "cmd7"
          /\ Program[l].no = 51 <=> l = "acmd51"
          /\ Program[l].no = 18 <=> l = "cmd18"
      BY DEF Program, Commands
    <2>2. Program[l].data <=> l \in {"cmd7", "acmd51", "cmd18"}
      BY DEF Program, Commands
    <2>3. Program[l].app => Program[l].no \in {41, 6, 51}
      BY DEF Program, Commands
    <2>4. QED
      BY <2>1, <2>2, <2>3
  <1>3. ASSUME NEW l \in Commands
        PROVE  /\ Program[l].then \in Thens
               /\ Program[l].then = "return" <=> l = "cmd18"
               /\ Program[l].then = "full_speed" <=> l = "acmd51"
               /\ Program[l].then = "check8" <=> l = "cmd8"
               /\ Program[l].then = "check41" <=> l = "acmd41"
               /\ Program[l].then = "check11" <=> l = "cmd11"
               /\ Program[l].then = "check3" <=> l = "cmd3"
               /\ Program[l].then = "check7" <=> l = "cmd7"
    BY DEF Program, Commands, Thens
  <1>4. QED
    BY <1>1, <1>2, <1>3

(* The numbers that a response may have. *)
LEMMA ResponseFacts ==
    /\ \A r \in Responses : r = [cmd |-> r.cmd, state |-> r.state, bits |-> r.bits]
    /\ \A n, s, b : (/\ n \in {Program[l].no : l \in Commands} \union {55, NULL}
                     /\ s \in States /\ b \in SUBSET Bits)
                    => [cmd |-> n, state |-> s, bits |-> b] \in Responses
  BY ProgramFacts DEF Responses

(* No two threads are busy with the device. *)
Idles == {"idle", "claim", "exposed", "gave_up"}

LEMMA OneBusy ==
    ASSUME PlaceInv, NEW t \in Threads, NEW u \in Threads,
           pc[t] \notin Idles, pc[u] \notin Idles
    PROVE  t = u
  BY SdAssumption DEF PlaceInv, Threads, Idles, Identifying, Reading, Early, Checks,
     Waiting, Commands

(* While a thread is busy elsewhere, the device rests. *)
LEMMA Rests ==
    ASSUME PlaceInv, QuietInv, NEW t \in Threads, pc[t] \notin Idles, ~Waits(t)
    PROVE  /\ CMDTM = NULL /\ transfer = "none" /\ INTERRUPT = {}
           /\ \A u \in Threads : ~Waits(u) /\ gate[u] = 0
  <1>1. \A u \in Threads : ~Waits(u)
    BY OneBusy DEF Waits, Idles, Waiting
  <1>2. QED
    BY <1>1 DEF QuietInv

LEMMA InitSd == Init => SdInv
  <1> SUFFICES ASSUME Init PROVE SdInv
    OBVIOUS
  <1> USE SdAssumption DEF Init
  <1>1. response \in Responses
    BY ResponseFacts DEF States, Bits
  <1>2. TypeOK
    <2>1. clock \in Clocks
      BY DEF Clocks
    <2>2. QED
      BY <1>1, <2>1, ProgramFacts DEF TypeOK, Threads, States, Commands
  <1>3. PlaceInv
    BY DEF PlaceInv, Threads, Identifying, Early, Reading, Waiting
  <1>4. PathInv
    BY DEF PathInv, Threads, Checks, Waiting, Early
  <1>5. QuietInv /\ HandshakeInv
    BY DEF QuietInv, HandshakeInv, Waits, Waiting, Threads
  <1>6. AnswerIsMine
    BY <1>2, ProgramFacts, ZenonT(30) DEF AnswerIsMine, Threads, Commands, Thens
  <1>7. DataIsThere /\ AlwaysSomeoneToWake
    <2>1. DataIsThere
      BY DEF DataIsThere, Threads
    <2>2. NULL # "no thread to wake"
      BY DEF Reasons
    <2>3. QED
      BY <2>1, <2>2 DEF AlwaysSomeoneToWake
  <1>8. QED
    BY <1>3, <1>4, <1>5, <1>6, <1>7 DEF SdInv

-----------------------------------------------------------------------------
(* Steps outside a hand-shake *)

(* A step that leaves alone what the hand-shake of a thread is about. *)
LEMMA HandshakeFrame ==
    ASSUME NEW t \in Threads, WakesInv(t), CommandInv(t), DataInv(t),
           pc'[t] = pc[t], at'[t] = at[t], gate'[t] = gate[t], taken'[t] = taken[t],
           t \in filled => t \in filled',
           UNCHANGED <<CMDTM, INTERRUPT, transfer, RESP, response, current_cmdtm,
                       pending_app_cmdtm, command_thread, data_thread, block_size>>
    PROVE  WakesInv(t)' /\ CommandInv(t)' /\ DataInv(t)'
  <1>1. AnswerDue' = AnswerDue /\ \A l : DataDue(l)' = DataDue(l)
    BY DEF AnswerDue, DataDue
  <1>2. WakesInv(t)'
    BY <1>1 DEF WakesInv, Had, Used
  <1>3. CommandInv(t)'
    BY <1>1 DEF CommandInv
  <1>4. DataInv(t)'
    BY <1>1 DEF DataInv
  <1>5. QED
    BY <1>2, <1>3, <1>4

(* A thread that is busy, waits neither before nor after its step, and     *)
(* leaves the device alone, finds no wake at its gate.                     *)
LEMMA QuietStep ==
    ASSUME SdInv, NEW t \in Threads, pc[t] \notin Idles, ~Waits(t),
           NEW to, to \notin Waiting, pc' = [pc EXCEPT ![t] = to],
           UNCHANGED <<CMDTM, transfer, INTERRUPT>>,
           gate' = gate \/ gate' = Slept(t)
    PROVE  /\ QuietInv' /\ HandshakeInv' /\ gate' = gate
           /\ CMDTM = NULL /\ transfer = "none" /\ INTERRUPT = {}
  <1>1. /\ CMDTM = NULL /\ transfer = "none" /\ INTERRUPT = {}
        /\ \A u \in Threads : ~Waits(u) /\ gate[u] = 0
    BY Rests DEF SdInv
  <1>2. gate' = gate
    BY <1>1 DEF Slept, SdInv, AnswerIsMine, TypeOK
  <1>3. \A u \in Threads : ~Waits(u)'
    BY <1>1 DEF Waits, SdInv, AnswerIsMine, TypeOK
  <1>4. QED
    BY <1>1, <1>2, <1>3 DEF QuietInv, HandshakeInv

(* The machine is stopped, at most the clock and an empty gate are set. *)
LEMMA StoppedSdInv ==
    ASSUME SdInv, brk' \in Reasons \ {"no thread to wake"},
           UNCHANGED <<pc, at, gate, taken, emmc_lock, driver, response, device,
                       base_clock_rate_hz, irq_enabled>>,
           clock' \in Clocks
    PROVE  SdInv'
  <1> USE DEF driver, device
  <1>1. TypeOK'
    BY DEF SdInv, AnswerIsMine, TypeOK
  <1>2. brk' # NULL
    BY SdAssumption
  <1>3. AnswerIsMine' /\ DataIsThere' /\ AlwaysSomeoneToWake'
    BY <1>1, <1>2 DEF SdInv, AnswerIsMine, DataIsThere, AlwaysSomeoneToWake
  <1>4. PlaceInv' /\ PathInv' /\ QuietInv'
    BY DEF SdInv, PlaceInv, PathInv, QuietInv, Waits
  <1>5. HandshakeInv'
    BY HandshakeFrame DEF SdInv, HandshakeInv, Waits
  <1>6. QED
    BY <1>3, <1>4, <1>5 DEF SdInv

(* Where the steps of expose_emmc between its commands lead. *)
Onward == (Early \union Commands \union {"exposed", "gave_up"}) \ {"cmd18", "prepare"}

(* A step of expose_emmc that is neither a command nor a wait. *)
LEMMA IdentifyingStep ==
    ASSUME SdInv, NEW t \in Threads, pc[t] \in Early \union Checks \union {"full_speed"},
           NEW to \in Onward,
           to # Program[at[t]].then,
           pc' = [pc EXCEPT ![t] = to],
           UNCHANGED <<at, taken, emmc_lock, driver, response, brk, INTERRUPT, CMDTM, RESP,
                       transfer, dma, card, filled>>,
           gate' = gate \/ gate' = Slept(t),
           base_clock_rate_hz' \in Rates \union {0},
           clock' \in Clocks,
           irq_enabled',
           IRPT_MASK' = IRPT_MASK
             \/ IRPT_MASK' = {"CMD_DONE", "DATA_DONE", "READ_RDY", "ERROR"},
           to \notin Early \union {"gave_up"} =>
               {"CMD_DONE", "DATA_DONE", "ERROR", "READ_RDY"} \subseteq IRPT_MASK'
    PROVE  SdInv'
  <1> USE DEF driver
  <1>1. /\ t = Initialiser
        /\ pc[t] \notin Idles /\ ~Waits(t) /\ pc[t] \notin {"exposed"}
        /\ to \notin Waiting /\ to \notin Thens \ {"cmd8", "acmd41", "cmd3", "acmd51"}
    BY DEF SdInv, PlaceInv, Threads, Early, Checks, Reading, Idles, Waits, Waiting, Thens,
           Commands, Onward
  <1>2. /\ QuietInv' /\ HandshakeInv' /\ gate' = gate /\ INTERRUPT' = {}
    BY <1>1, QuietStep
  <1>3. TypeOK'
    BY <1>2 DEF SdInv, AnswerIsMine, TypeOK
  <1>4. \A u \in Threads : pc'[u] = IF u = t THEN to ELSE pc[u]
    BY DEF SdInv, AnswerIsMine, TypeOK
  <1>5. AnswerIsMine'
    BY <1>3, <1>4, <1>1 DEF SdInv, AnswerIsMine, Waiting
  <1>6. DataIsThere' /\ AlwaysSomeoneToWake'
    BY <1>1, <1>4 DEF SdInv, DataIsThere, AlwaysSomeoneToWake, Thens, Onward
  <1>7. PlaceInv'
    <2>1. to \in Identifying \union {"exposed", "gave_up"}
      BY DEF Identifying, Onward
    <2>2. \A c \in Client : pc'[c] = pc[c] /\ pc[c] = "idle"
      BY <1>1, <1>4, SdAssumption DEF SdInv, PlaceInv, Threads, Idles
    <2>3. pc'[Initialiser] = to
      BY <1>1, <1>4
    <2>4. QED
      BY <2>1, <2>2, <2>3 DEF SdInv, PlaceInv
  <1>8. PathInv'
    <2>1. \A c \in Client : pc'[c] = pc[c] /\ pc[c] = "idle"
      BY <1>1, <1>4, SdAssumption DEF SdInv, PlaceInv, Threads, Idles
    <2>2. pc'[Initialiser] = to
      BY <1>1, <1>4
    <2>3. to \notin Checks \union {"full_speed", "return"} \union Waiting
      BY <1>1 DEF Thens, Checks
    <2>4. \A c \in Client : pc[c] \notin Checks \union {"full_speed", "return", "cmd18"}
                                          \union Waiting
      BY <2>1 DEF Checks, Waiting
    <2>5. \A u \in Threads : pc'[u] \notin Checks \union {"full_speed", "return"} 
      BY <2>1, <2>2, <2>3, <2>4 DEF Threads
    <2>6. QED
      BY <2>1, <2>2, <2>3, <2>4, <2>5 DEF PathInv
  <1>9. QED
    BY <1>2, <1>5, <1>6, <1>7, <1>8 DEF SdInv

(* The rates that expose_emmc asks for, in kHz. *)
Targets == {400, 25000}

(* A clock that is switched off, or set to a divider that is possible. *)
LEMMA ClockFacts ==
    ASSUME clock \in Clocks
    PROVE  /\ [clock EXCEPT !.en = FALSE] \in Clocks
           /\ \A base \in Nat, target \in Targets :
                 ~Impossible(Divider(base, target)) =>
                     Running(Divider(base, target)) \in Clocks
  <1>1. [clock EXCEPT !.en = FALSE] \in Clocks
    BY ZenonT(30) DEF Clocks
  <1>2. ASSUME NEW base \in Nat, NEW target \in Targets,
               ~Impossible(Divider(base, target))
        PROVE  Running(Divider(base, target)) \in Clocks
    <2>1. Divider(base, target) \in Nat
      BY DEF Divider, Targets
    <2>2. Divider(base, target) \in 0 .. 1023
      BY <1>2, <2>1 DEF Impossible
    <2>3. QED
      BY <2>2 DEF Clocks, Running
  <1>3. QED
    BY <1>1, <1>2

(* set_clock_rate *)
LEMMA SetClockRateSdInv ==
    ASSUME SdInv, NEW t \in Threads, NEW from, NEW target \in Targets,
           NEW to \in Onward \ Thens, SetClockRate(t, from, target, to),
           from \in (Early \ {"prepare"}) \union {"full_speed"},
           to \in Early \/ from = "full_speed"
    PROVE  SdInv'
  <1>1. /\ clock \in Clocks /\ base_clock_rate_hz \in Rates \union {0}
        /\ at \in [Threads -> DOMAIN Program]
    BY DEF SdInv, AnswerIsMine, TypeOK
  <1>2. PICK base \in BaseRate :
           LET divider == Divider(base, target)
               fails   == Impossible(divider)
           IN  /\ Step(t, from, IF fails THEN "gave_up" ELSE to)
               /\ fails \/ ~Inhibited
               /\ base_clock_rate_hz' = base
               /\ clock' = IF fails THEN clock ELSE Running(divider)
               /\ gate' = IF fails THEN gate ELSE Slept(t)
               /\ UNCHANGED <<irq_enabled, device, at, taken, emmc_lock, driver, response,
                              brk>>
    BY DEF SetClockRate
  <1>3. base \in Nat /\ base \in Rates \union {0}
    BY <1>1, SdAssumption DEF BaseRate
  <1>4. clock' \in Clocks
    <2>1. CASE Impossible(Divider(base, target))
      BY <1>1, <1>2, <2>1
    <2>2. CASE ~Impossible(Divider(base, target))
      BY <1>1, <1>2, <1>3, <2>2, ClockFacts
    <2>3. QED
      BY <2>1, <2>2
  <1>5. PICK go \in Onward :
           pc' = [pc EXCEPT ![t] = go] /\ go \in {to, "gave_up"}
    <2>1. pc' = [pc EXCEPT ![t] = "gave_up"] \/ pc' = [pc EXCEPT ![t] = to]
      <3>1. CASE Impossible(Divider(base, target))
        BY <1>2, <3>1 DEF Step
      <3>2. CASE ~Impossible(Divider(base, target))
        BY <1>2, <3>2 DEF Step
      <3>3. QED
        BY <3>1, <3>2
    <2>2. "gave_up" \in Onward
      BY DEF Onward, Commands
    <2>3. QED
      BY <2>1, <2>2
  <1>6. pc[t] = from
    BY <1>2 DEF Step
  <1>7. at[t] \in Commands /\ go # Program[at[t]].then
    BY <1>1, <1>5, ProgramFacts DEF Thens
  <1>8. t = Initialiser /\ from \notin {"prepare", "gave_up"}
    BY <1>6 DEF SdInv, PlaceInv, Threads, Reading, Waiting, Early
  <1>9. irq_enabled' /\ IRPT_MASK' = IRPT_MASK
    BY <1>2, <1>6, <1>8 DEF SdInv, PathInv, device
  <1>10. go \notin Early \union {"gave_up"} =>
             {"CMD_DONE", "DATA_DONE", "ERROR", "READ_RDY"} \subseteq IRPT_MASK'
    BY <1>5, <1>6, <1>8, <1>9 DEF SdInv, PathInv, Early
  <1>11. pc[t] \in Early \union Checks \union {"full_speed"}
    BY <1>6 DEF Early
  <1>12. gate' = gate \/ gate' = Slept(t)
    BY <1>2
  <1>13. /\ UNCHANGED <<at, taken, emmc_lock, driver, response, brk, INTERRUPT, CMDTM, RESP,
                        transfer, dma, card, filled>>
         /\ base_clock_rate_hz' \in Rates \union {0}
    BY <1>2, <1>3 DEF device
  <1>14. QED
    BY <1>4, <1>5, <1>7, <1>9, <1>10, <1>11, <1>12, <1>13, IdentifyingStep

(* The other steps of expose_emmc between its commands. *)
LEMMA IdentifySdInv ==
    ASSUME SdInv, NEW t \in Threads, Identify(t)
    PROVE  SdInv'
  <1>1. /\ clock \in Clocks /\ base_clock_rate_hz \in Rates \union {0}
        /\ at[t] \in Commands
    BY ProgramFacts DEF SdInv, AnswerIsMine, TypeOK
  <1>2. /\ pc[t] \in Early \union Checks \union {"full_speed"} => t = Initialiser
        /\ pc[t] \in Checks => pc[t] = Program[at[t]].then
    BY DEF SdInv, PlaceInv, PathInv, Threads, Early, Checks, Reading, Waiting
  <1>3. CASE PrepareForInterrupts(t)
    <2>1. /\ pc[t] = "prepare" /\ pc' = [pc EXCEPT ![t] = "power_up"] /\ irq_enabled'
          /\ UNCHANGED <<base_clock_rate_hz, clock, device, elsewhere>>
      BY <1>3 DEF PrepareForInterrupts, Step
    <2>2. "power_up" # Program[at[t]].then
      BY <1>1, ProgramFacts DEF Thens
    <2>3. QED
      BY <1>1, <2>1, <2>2, IdentifyingStep DEF Early, Onward, elsewhere, device
  <1>4. CASE PowerUp(t)
    <2>1. PICK to \in {"reset", "gave_up"} :
             /\ pc[t] = "power_up" /\ pc' = [pc EXCEPT ![t] = to]
             /\ UNCHANGED <<device, setup, elsewhere>>
      BY <1>4 DEF PowerUp, Step
    <2>2. to # Program[at[t]].then
      BY <1>1, ProgramFacts DEF Thens
    <2>3. irq_enabled'
      BY <1>2, <2>1 DEF SdInv, PathInv, setup, Early
    <2>4. QED
      BY <1>1, <2>1, <2>2, <2>3, IdentifyingStep DEF Early, Onward, elsewhere, device, setup
  <1>5. CASE ResetHost(t)
    <2>1. /\ pc[t] = "reset" /\ pc' = [pc EXCEPT ![t] = "identify_speed"]
          /\ clock' = [clock EXCEPT !.en = FALSE] /\ gate' = Slept(t)
          /\ UNCHANGED <<base_clock_rate_hz, irq_enabled, device, at, taken, emmc_lock,
                         driver, response, brk>>
      BY <1>5 DEF ResetHost, Step
    <2>2. "identify_speed" # Program[at[t]].then
      BY <1>1, ProgramFacts DEF Thens
    <2>3. irq_enabled' /\ clock' \in Clocks
      BY <1>1, <1>2, <2>1, ClockFacts DEF SdInv, PathInv, Early
    <2>4. QED
      BY <1>1, <2>1, <2>2, <2>3, IdentifyingStep DEF Early, Onward, device
  <1>6. CASE SetClockRate(t, "identify_speed", 400, "irpt_mask")
    BY <1>6, SetClockRateSdInv DEF Targets, Onward, Early, Thens
  <1>7. CASE SetClockRate(t, "full_speed", 25000, "exposed")
    BY <1>7, SetClockRateSdInv DEF Targets, Onward, Early, Thens
  <1>8. CASE EnableInterrupts(t)
    <2>1. /\ pc[t] = "irpt_mask" /\ pc' = [pc EXCEPT ![t] = "cmd0"] /\ gate' = Slept(t)
          /\ IRPT_MASK' = {"CMD_DONE", "DATA_DONE", "READ_RDY", "ERROR"}
          /\ UNCHANGED <<at, taken, emmc_lock, driver, response, brk, setup, INTERRUPT,
                         CMDTM, ARG1, RESP, transfer, dma, card, filled>>
      BY <1>8 DEF EnableInterrupts, Step
    <2>2. "cmd0" # Program[at[t]].then
      BY <1>1, ProgramFacts DEF Thens
    <2>3. irq_enabled'
      BY <1>2, <2>1 DEF SdInv, PathInv, setup, Early
    <2>4. QED
      BY <1>1, <2>1, <2>2, <2>3, IdentifyingStep DEF Early, Onward, setup, Commands
  <1>9. ASSUME NEW to \in Commands \union {"gave_up"}, to # "cmd18",
               to # Program[at[t]].then, pc[t] \in Checks,
               pc' = [pc EXCEPT ![t] = to],
               UNCHANGED <<at, taken, emmc_lock, driver, response, brk, device, setup>>,
               gate' = gate \/ gate' = Slept(t)
        PROVE  SdInv'
    <2>1. pc[t] \notin Early \union {"gave_up", "exposed"}
      BY <1>9 DEF Checks, Early
    <2>2. /\ irq_enabled' /\ IRPT_MASK' = IRPT_MASK
          /\ {"CMD_DONE", "DATA_DONE", "ERROR", "READ_RDY"} \subseteq IRPT_MASK'
      BY <1>2, <1>9, <2>1 DEF SdInv, PathInv, setup, device, Early
    <2>3. to \in Onward
      BY <1>9 DEF Commands, Onward
    <2>4. QED
      BY <1>1, <1>9, <2>2, <2>3, IdentifyingStep DEF device, setup
  <1>10. CASE CheckInterfaceCondition(t)
    <2>1. PICK to \in {"inquiry", "gave_up"} :
             /\ pc[t] = "check8" /\ pc' = [pc EXCEPT ![t] = to]
             /\ UNCHANGED <<device, setup, elsewhere>>
      BY <1>10 DEF CheckInterfaceCondition, Step
    <2>2. to # Program[at[t]].then
      BY <1>1, ProgramFacts DEF Thens
    <2>3. QED
      BY <1>9, <2>1, <2>2 DEF Checks, Commands, elsewhere
  <1>11. CASE CheckOperatingConditions(t)
    <2>1. CASE Stop(t, "check41", "not SDHC")
      BY <1>1, <2>1, StoppedSdInv DEF Stop, Reasons, setup
    <2>2. CASE ~Stop(t, "check41", "not SDHC")
      <3>1. PICK to \in {"acmd41", "cmd11", "cmd2"} :
               /\ pc[t] = "check41" /\ pc' = [pc EXCEPT ![t] = to]
               /\ gate' = gate \/ gate' = Slept(t)
               /\ UNCHANGED <<at, taken, emmc_lock, driver, response, brk, device, setup>>
        BY <1>11, <2>2 DEF CheckOperatingConditions, Step
      <3>2. to # Program[at[t]].then
        BY <1>1, <1>2, <3>1, ProgramFacts DEF Thens, Checks
      <3>3. QED
        BY <1>9, <3>1, <3>2 DEF Checks, Commands
    <2>3. QED
      BY <2>1, <2>2
  <1>12. CASE SwitchVoltage(t)
    <2>1. /\ pc[t] = "check11" /\ brk' = "1.8V" /\ pc' = pc /\ gate' = Slept(t)
          /\ clock' = [clock EXCEPT !.en = FALSE]
          /\ UNCHANGED <<base_clock_rate_hz, irq_enabled, device, at, taken, emmc_lock,
                         driver, response>>
      BY <1>12 DEF SwitchVoltage
    <2>2. pc[t] \notin Idles /\ ~Waits(t)
      BY <2>1 DEF Idles, Waits, Waiting
    <2>3. gate' = gate
      BY <2>1, <2>2, Rests DEF Slept, SdInv, AnswerIsMine, TypeOK
    <2>4. clock' \in Clocks /\ brk' \in Reasons \ {"no thread to wake"}
      BY <1>1, <2>1, ClockFacts DEF Reasons
    <2>5. QED
      BY <2>1, <2>3, <2>4, StoppedSdInv
  <1>13. CASE CheckAddress(t)
    <2>1. CASE Stop(t, "check3", "not in ident")
      BY <1>1, <2>1, StoppedSdInv DEF Stop, Reasons, setup
    <2>2. CASE ~Stop(t, "check3", "not in ident")
      <3>1. PICK to \in {"cmd7", "cmd3"} :
               /\ pc[t] = "check3" /\ pc' = [pc EXCEPT ![t] = to]
               /\ UNCHANGED <<device, setup, elsewhere>>
        BY <1>13, <2>2 DEF CheckAddress, Step
      <3>2. to # Program[at[t]].then
        BY <1>1, <1>2, <3>1, ProgramFacts DEF Thens, Checks
      <3>3. QED
        BY <1>9, <3>1, <3>2 DEF Checks, Commands, elsewhere
    <2>3. QED
      BY <2>1, <2>2
  <1>14. CASE CheckLocked(t)
    <2>1. CASE Stop(t, "check7", "card is locked")
      BY <1>1, <2>1, StoppedSdInv DEF Stop, Reasons, setup
    <2>2. CASE ~Stop(t, "check7", "card is locked")
      <3>1. /\ pc[t] = "check7" /\ pc' = [pc EXCEPT ![t] = "acmd6"]
            /\ UNCHANGED <<device, setup, elsewhere>>
        BY <1>14, <2>2 DEF CheckLocked, Step
      <3>2. "acmd6" # Program[at[t]].then
        BY <1>1, ProgramFacts DEF Thens
      <3>3. QED
        BY <1>9, <3>1, <3>2 DEF Checks, Commands, elsewhere
    <2>3. QED
      BY <2>1, <2>2
  <1>15. QED
    BY <1>3, <1>4, <1>5, <1>6, <1>7, <1>8, <1>10, <1>11, <1>12, <1>13, <1>14 DEF Identify

(* read_4k_pages before and after its command *)
LEMMA CallReadSdInv ==
    ASSUME SdInv, NEW t \in Client, CallRead(t)
    PROVE  SdInv'
  <1> USE DEF driver, device, setup, elsewhere
  <1>1. /\ t \in Threads /\ t # Initialiser /\ pc[Initialiser] = "exposed" /\ pc[t] = "idle"
        /\ \A u \in Threads : pc'[u] = IF u = t THEN "claim" ELSE pc[u]
        /\ DOMAIN pc' = Threads
        /\ UNCHANGED <<at, gate, taken, emmc_lock, command_thread, data_thread,
                       current_cmdtm, pending_app_cmdtm, block_size, response, brk,
                       IRPT_MASK, INTERRUPT, CMDTM, RESP, transfer, dma, card,
                       base_clock_rate_hz, irq_enabled, clock>>
        /\ filled' = filled \ {t}
    BY SdAssumption DEF CallRead, Step, Threads, SdInv, AnswerIsMine, TypeOK
  <1>2. TypeOK'
    BY <1>1 DEF SdInv, AnswerIsMine, TypeOK
  <1>3. at[t] \in Commands /\ Program[at[t]].then # "claim"
    BY <1>1, ProgramFacts DEF SdInv, AnswerIsMine, TypeOK, Thens
  <1>4. AnswerIsMine' /\ DataIsThere' /\ AlwaysSomeoneToWake'
    BY <1>1, <1>2, <1>3 DEF SdInv, AnswerIsMine, DataIsThere, AlwaysSomeoneToWake
  <1>5. PlaceInv'
    BY <1>1 DEF SdInv, PlaceInv, Reading, Waiting, Threads
  <1>6. PathInv'
    BY <1>1 DEF SdInv, PathInv, Checks, Waiting, Threads
  <1>7. \A u \in Threads : Waits(u)' <=> Waits(u)
    BY <1>1 DEF Waits, Waiting
  <1>8. QuietInv'
    BY <1>1, <1>7 DEF SdInv, QuietInv
  <1>9. HandshakeInv'
    <2>1. ASSUME NEW u \in Threads, Waits(u)' PROVE WakesInv(u)' /\ CommandInv(u)' /\ DataInv(u)'
      <3>1. u # t /\ WakesInv(u) /\ CommandInv(u) /\ DataInv(u)
        BY <1>1, <1>7, <2>1 DEF SdInv, HandshakeInv, Waits, Waiting
      <3>2. QED
        BY <1>1, <3>1, HandshakeFrame
    <2>2. QED
      BY <2>1 DEF HandshakeInv
  <1>10. QED
    BY <1>1, <1>4, <1>5, <1>6, <1>8, <1>9 DEF SdInv

LEMMA ClaimLockSdInv ==
    ASSUME SdInv, NEW t \in Threads, ClaimLock(t)
    PROVE  SdInv'
  <1> USE DEF driver, device, setup
  <1>1. /\ pc[t] = "claim" /\ emmc_lock = NULL /\ emmc_lock' = t
        /\ \A u \in Threads : pc'[u] = IF u = t THEN "read" ELSE pc[u]
        /\ DOMAIN pc' = Threads
        /\ UNCHANGED <<at, gate, taken, command_thread, data_thread,
                       current_cmdtm, pending_app_cmdtm, block_size, response, brk,
                       IRPT_MASK, INTERRUPT, CMDTM, RESP, transfer, dma, card, filled,
                       base_clock_rate_hz, irq_enabled, clock>>
    BY DEF ClaimLock, LockIsFree, Step, SdInv, AnswerIsMine, TypeOK
  <1>2. t \in Client /\ t # Initialiser /\ pc[Initialiser] = "exposed"
    BY <1>1, SdAssumption DEF SdInv, PlaceInv, Threads, Identifying, Early, Checks, Waiting, Commands
  <1>3. TypeOK'
    BY <1>1 DEF SdInv, AnswerIsMine, TypeOK
  <1>4. at[t] \in Commands /\ Program[at[t]].then # "read"
    BY ProgramFacts DEF SdInv, AnswerIsMine, TypeOK, Thens
  <1>5. AnswerIsMine' /\ DataIsThere' /\ AlwaysSomeoneToWake'
    BY <1>1, <1>3, <1>4 DEF SdInv, AnswerIsMine, DataIsThere, AlwaysSomeoneToWake
  <1>6. \A c \in Client : c # NULL
    BY SdAssumption
  <1>7. PlaceInv'
    BY <1>1, <1>2, <1>6 DEF SdInv, PlaceInv, Reading, Waiting, Threads
  <1>8. PathInv'
    BY <1>1, <1>2 DEF SdInv, PathInv, Checks, Waiting, Threads
  <1>9. \A u \in Threads : ~Waits(u) /\ ~Waits(u)'
    BY <1>1, <1>2, <1>6 DEF SdInv, PlaceInv, Waits, Waiting, Reading, Threads
  <1>10. QuietInv' /\ HandshakeInv'
    BY <1>1, <1>9 DEF SdInv, QuietInv, HandshakeInv
  <1>11. QED
    BY <1>1, <1>5, <1>7, <1>8, <1>10 DEF SdInv

LEMMA ReadSdInv ==
    ASSUME SdInv, NEW t \in Threads, Read(t) \/ ReturnFromRead(t)
    PROVE  SdInv'
  <1> USE DEF driver, device, setup
  <1>1. CASE Stop(t, "read", "read only")
    BY <1>1, StoppedSdInv DEF Stop, Reasons, SdInv, AnswerIsMine, TypeOK
  <1>2. CASE ~Stop(t, "read", "read only")
    <2>1. PICK to \in {"cmd18", "idle"} :
             /\ pc' = [pc EXCEPT ![t] = to]
             /\ pc[t] = IF to = "idle" THEN "return" ELSE "read"
             /\ emmc_lock' = IF to = "idle" THEN NULL ELSE emmc_lock
             /\ data_thread' = IF to = "idle" THEN data_thread ELSE t
             /\ dma' = IF to = "idle" THEN dma ELSE t
             /\ IRPT_MASK' = IF to = "idle" THEN IRPT_MASK ELSE IRPT_MASK \ {"READ_RDY"}
             /\ UNCHANGED <<at, gate, taken, command_thread,
                       current_cmdtm, pending_app_cmdtm, block_size, response, brk,
                       INTERRUPT, CMDTM, RESP, transfer, card, filled,
                       base_clock_rate_hz, irq_enabled, clock>>
      BY <1>2 DEF Read, ReturnFromRead, Step
    <2>2. pc[t] \notin Idles /\ ~Waits(t) /\ to \notin Waiting
      BY <2>1 DEF Idles, Waits, Waiting
    <2>3. QuietInv' /\ HandshakeInv' /\ INTERRUPT = {}
      BY <2>1, <2>2, QuietStep
    <2>4. /\ \A u \in Threads : pc'[u] = IF u = t THEN to ELSE pc[u]
          /\ DOMAIN pc' = Threads
      BY <2>1 DEF SdInv, AnswerIsMine, TypeOK
    <2>5. t \in Client /\ t # Initialiser /\ pc[Initialiser] = "exposed" /\ emmc_lock = t
      BY <2>1, SdAssumption DEF SdInv, PlaceInv, Threads, Identifying, Early, Checks, Waiting,
         Commands, Reading
    <2>6. TypeOK'
      BY <2>1, <2>3, <2>4 DEF SdInv, AnswerIsMine, TypeOK
    <2>7. at[t] \in Commands /\ Program[at[t]].then \notin {"cmd18", "idle"}
      BY ProgramFacts DEF SdInv, AnswerIsMine, TypeOK, Thens
    <2>8. AnswerIsMine' /\ DataIsThere' /\ AlwaysSomeoneToWake'
      BY <2>1, <2>4, <2>6, <2>7 DEF SdInv, AnswerIsMine, DataIsThere, AlwaysSomeoneToWake
    <2>9. \A c \in Client : c # NULL /\ c # Initialiser
      BY SdAssumption
    <2>10. NULL # Initialiser
      BY SdAssumption
    <2>11. PlaceInv'
      BY <2>1, <2>4, <2>5, <2>9, <2>10 DEF SdInv, PlaceInv, Reading, Waiting, Threads
    <2>12. \A c \in Client : c # t => pc[c] \notin {"cmd18"} \union Waiting
      BY <2>5 DEF SdInv, PlaceInv, Reading
    <2>13. PathInv'
      BY <2>1, <2>4, <2>5, <2>12 DEF SdInv, PathInv, Checks, Waiting, Threads
    <2>14. QED
      BY <2>1, <2>3, <2>8, <2>11, <2>13 DEF SdInv
  <1>3. QED
    BY <1>1, <1>2

-----------------------------------------------------------------------------
(* Steps of the thread in a hand-shake *)

(* While one thread waits, no other does. *)
LEMMA OneWaits ==
    ASSUME PlaceInv, NEW t \in Threads, Waits(t), NEW u \in Threads, u # t
    PROVE  ~Waits(u)
  BY OneBusy DEF Waits, Idles, Waiting

(* cmdtm up to the write of CMDTM *)
LEMMA SendCommandSdInv ==
    ASSUME SdInv, NEW t \in Threads, SendCommand(t)
    PROVE  SdInv'
  <1>0. PICK l \in Commands : pc[t] = l
    BY ProgramFacts DEF SendCommand
  <1> DEFINE p == Program[l]
             first == IF p.app THEN 55 ELSE p.no
  <1>1. /\ pc[t] = l /\ at' = [at EXCEPT ![t] = l]
        /\ pc' = [pc EXCEPT ![t] = "cmdtm"]
        /\ command_thread' = t /\ data_thread' = IF p.data THEN t ELSE data_thread
        /\ current_cmdtm' = first /\ CMDTM' = first
        /\ p.app => pending_app_cmdtm' = p.no
        /\ pending_app_cmdtm' \in {p.no, pending_app_cmdtm}
        /\ block_size' = IF l = "acmd51" THEN 8 ELSE block_size
        /\ UNCHANGED <<gate, taken, emmc_lock, response, brk, IRPT_MASK, INTERRUPT,
                       RESP, transfer, dma, card, filled, base_clock_rate_hz,
                       irq_enabled, clock>>
    BY <1>0 DEF SendCommand, DataThread, setup
  <1>2. p.no \in Nat /\ first \in Nat /\ first # NULL
    BY <1>1, ProgramFacts, SdAssumption
  <1> HIDE DEF first
  <1>3. l \notin Idles /\ ~Waits(t)
    BY <1>1 DEF Idles, Waits, Waiting, Commands
  <1>4. /\ CMDTM = NULL /\ transfer = "none" /\ INTERRUPT = {}
        /\ \A u \in Threads : ~Waits(u) /\ gate[u] = 0
    BY <1>1, <1>3, Rests DEF SdInv
  <1>5. /\ \A u \in Threads : pc'[u] = IF u = t THEN "cmdtm" ELSE pc[u]
        /\ \A u \in Threads : at'[u] = IF u = t THEN l ELSE at[u]
        /\ DOMAIN pc' = Threads /\ at' \in [Threads -> DOMAIN Program]
    BY <1>1, ProgramFacts DEF SdInv, AnswerIsMine, TypeOK
  <1>6. TypeOK'
    <2>1. {emmc_lock, command_thread, data_thread, dma}' \subseteq Threads \union {NULL}
      BY <1>1 DEF SdInv, AnswerIsMine, TypeOK
    <2>2. block_size' \in {0, 8}
      BY <1>1 DEF SdInv, AnswerIsMine, TypeOK
    <2>3. QED
      BY <1>1, <1>5, <2>1, <2>2 DEF SdInv, AnswerIsMine, TypeOK
  <1>7. "cmdtm" # p.then
    BY <1>1, ProgramFacts DEF Thens
  <1>8. AnswerIsMine'
    BY <1>1, <1>5, <1>6, <1>7 DEF SdInv, AnswerIsMine
  <1>9. pc'[t] = "cmdtm" /\ at'[t] = l /\ Waits(t)'
    BY <1>5 DEF Waits, Waiting
  <1>10. \A u \in Threads \ {t} : pc'[u] = pc[u] /\ at'[u] = at[u] /\ ~Waits(u)'
    BY <1>4, <1>5 DEF Waits
  <1>11. DataIsThere' /\ AlwaysSomeoneToWake'
    <2>1. ASSUME NEW u \in Threads, pc'[u] = "full_speed" PROVE FALSE
      <3>1. u # t /\ pc[u] = "full_speed"
        BY <1>9, <1>10, <2>1
      <3>2. QED
        BY <1>1, <1>3, <3>1, OneBusy DEF Idles, SdInv
    <2>2. \A u \in Threads : pc'[u] = "return" => pc[u] = "return"
      BY <1>5
    <2>3. QED
      BY <1>1, <2>1, <2>2 DEF SdInv, DataIsThere, AlwaysSomeoneToWake
  <1>12. t \in Client => l = "cmd18" /\ dma = t
    BY <1>1 DEF SdInv, PlaceInv, PathInv, Reading, Waiting, Commands
  <1>13. t = Initialiser => l # "cmd18" /\ l \in Identifying
    BY <1>1 DEF SdInv, PlaceInv, Commands, Identifying, Early, Checks, Waiting
  <1>14. PlaceInv'
    <2>1. \A c \in Client : c \in Threads /\ c # Initialiser
      BY SdAssumption DEF Threads
    <2>2. Initialiser \in Threads
      BY DEF Threads
    <2>3. pc'[Initialiser] \in Identifying \union {"exposed", "gave_up"}
      BY <1>9, <1>10, <2>2 DEF SdInv, PlaceInv, Identifying, Waiting
    <2>4. pc[Initialiser] = "exposed" => pc'[Initialiser] = "exposed"
      BY <1>1, <1>5, <2>2 DEF Commands
    <2>5. \A c \in Client : /\ pc'[c] = "idle" <=> pc[c] = "idle"
                            /\ pc'[c] \in Reading <=> pc[c] \in Reading
                            /\ pc'[c] \in {"idle", "claim"} \union Reading
      BY <1>1, <1>9, <1>10, <1>12, <2>1 DEF SdInv, PlaceInv, Reading, Waiting
    <2>6. QED
      BY <1>1, <2>3, <2>4, <2>5 DEF SdInv, PlaceInv
  <1>15. PathInv'
    <2>1. \A c \in Client : c \in Threads /\ c # Initialiser
      BY SdAssumption DEF Threads
    <2>2. \A u \in Threads : pc'[u] \in Checks \union {"full_speed", "return"} =>
                                 pc'[u] = Program[at'[u]].then
      BY <1>9, <1>10 DEF SdInv, PathInv, Checks
    <2>3. \A c \in Client : pc'[c] \in Waiting => at'[c] = "cmd18"
      BY <1>9, <1>10, <1>12, <2>1 DEF SdInv, PathInv
    <2>4. pc'[Initialiser] \in Waiting => at'[Initialiser] # "cmd18"
      BY <1>9, <1>10, <1>13 DEF SdInv, PathInv, Threads
    <2>5. \A c \in Client : pc'[c] \in {"cmd18"} \union Waiting => dma' = c
      BY <1>1, <1>9, <1>10, <1>12, <2>1 DEF SdInv, PathInv
    <2>6. /\ pc'[Initialiser] \notin {"prepare", "gave_up"} =>
                pc[Initialiser] \notin {"prepare", "gave_up"}
          /\ pc'[Initialiser] \notin Early \union {"gave_up"} =>
                pc[Initialiser] \notin Early \union {"gave_up"}
          /\ pc'[Initialiser] \notin Early \union {"gave_up", "exposed"} =>
                pc[Initialiser] \notin Early \union {"gave_up", "exposed"}
      BY <1>1, <1>5 DEF Threads, Commands, Early
    <2>7. QED
      BY <1>1, <2>2, <2>3, <2>4, <2>5, <2>6 DEF SdInv, PathInv
  <1>16. QuietInv'
    BY <1>1, <1>4, <1>9 DEF QuietInv
  <1>17. HandshakeInv'
    <2>1. AnswerDue' /\ (DataDue(l)' <=> p.data)
      BY <1>1, <1>2 DEF AnswerDue, DataDue
    <2>2. WakesInv(t)'
      BY <1>1, <1>4, <1>9, <2>1 DEF WakesInv, Had, Used
    <2>3. CommandInv(t)'
      BY <1>1, <1>2, <1>4, <1>9, <2>1 DEF CommandInv, first
    <2>4. DataInv(t)'
      BY <1>1, <1>4, <1>9, <2>1, ProgramFacts DEF DataInv
    <2>5. QED
      BY <1>10, <2>2, <2>3, <2>4 DEF HandshakeInv
  <1>18. QED
    BY <1>1, <1>2, <1>8, <1>11, <1>14, <1>15, <1>16, <1>17 DEF SdInv

(* What t knows while it waits. *)
LEMMA WaitFacts ==
    ASSUME SdInv, NEW t \in Threads, Waits(t)
    PROVE  /\ at[t] \in Commands
           /\ WakesInv(t) /\ CommandInv(t) /\ DataInv(t)
           /\ gate[t] \in -1 .. 2 /\ taken[t] \in 0 .. 2
           /\ \A u \in Threads \ {t} : ~Waits(u) /\ gate[u] = 0
  BY OneWaits, ProgramFacts DEF SdInv, HandshakeInv, QuietInv, AnswerIsMine, TypeOK

(* The places of a step of t that stays among the waits and the steps that *)
(* follow them.                                                            *)
LEMMA WaitPlaces ==
    ASSUME SdInv, NEW t \in Threads, Waits(t), NEW to,
           pc' = [pc EXCEPT ![t] = to],
           to \in Waiting \union {Program[at[t]].then},
           UNCHANGED <<at, emmc_lock, dma, irq_enabled, IRPT_MASK>>
    PROVE  /\ PlaceInv' /\ PathInv' /\ pc'[t] = to
           /\ \A u \in Threads \ {t} : pc'[u] = pc[u] /\ ~Waits(u)'
           /\ DOMAIN pc' = Threads
  <1>1. at[t] \in Commands /\ \A u \in Threads \ {t} : ~Waits(u)
    BY WaitFacts
  <1>2. /\ DOMAIN pc' = Threads /\ pc'[t] = to
        /\ \A u \in Threads \ {t} : pc'[u] = pc[u] /\ ~Waits(u)'
    BY <1>1 DEF SdInv, AnswerIsMine, TypeOK, Waits
  <1>3. \A c \in Client : c \in Threads /\ c # Initialiser
    BY SdAssumption DEF Threads
  <1>4. Initialiser \in Threads
    BY DEF Threads
  <1>5. t \in Client => at[t] = "cmd18" /\ to \in Waiting \union {"return"} /\ dma = t
    BY <1>1, ProgramFacts DEF SdInv, PathInv, Waits
  <1>6. t = Initialiser => at[t] # "cmd18" /\ to \in Waiting \union (Thens \ {"return"})
    BY <1>1, ProgramFacts DEF SdInv, PathInv, Waits
  <1>7. to \in Waiting \union Thens
    BY <1>1, ProgramFacts
  <1>8. PlaceInv'
    <2>1. pc'[Initialiser] \in Identifying \union {"exposed", "gave_up"}
      BY <1>2, <1>4, <1>6 DEF SdInv, PlaceInv, Identifying, Waiting, Thens, Checks, Commands
    <2>2. pc[Initialiser] = "exposed" => pc'[Initialiser] = "exposed"
      BY <1>2, <1>4 DEF Waits, Waiting
    <2>3. \A c \in Client : /\ pc'[c] = "idle" <=> pc[c] = "idle"
                            /\ pc'[c] \in Reading <=> pc[c] \in Reading
                            /\ pc'[c] \in {"idle", "claim"} \union Reading
      BY <1>2, <1>3, <1>5 DEF SdInv, PlaceInv, Reading, Waiting, Waits
    <2>4. QED
      BY <2>1, <2>2, <2>3 DEF SdInv, PlaceInv
  <1>9. PathInv'
    <2>1. \A u \in Threads : pc'[u] \in Checks \union {"full_speed", "return"} =>
                                 pc'[u] = Program[at'[u]].then
      BY <1>2 DEF SdInv, PathInv, Checks, Waiting
    <2>2. \A c \in Client : pc'[c] \in Waiting => at'[c] = "cmd18"
      BY <1>2, <1>3, <1>5 DEF SdInv, PathInv
    <2>3. pc'[Initialiser] \in Waiting => at'[Initialiser] # "cmd18"
      BY <1>2, <1>4, <1>6 DEF SdInv, PathInv
    <2>4. \A c \in Client : pc'[c] \in {"cmd18"} \union Waiting => dma' = c
      BY <1>2, <1>3, <1>5 DEF SdInv, PathInv
    <2>5. /\ pc'[Initialiser] \notin {"prepare", "gave_up"} =>
                pc[Initialiser] \notin {"prepare", "gave_up"}
          /\ pc'[Initialiser] \notin Early \union {"gave_up"} =>
                pc[Initialiser] \notin Early \union {"gave_up"}
          /\ pc'[Initialiser] \notin Early \union {"gave_up", "exposed"} =>
                pc[Initialiser] \notin Early \union {"gave_up", "exposed"}
      BY <1>2, <1>4 DEF Waits, Waiting, Early
    <2>6. QED
      BY <2>1, <2>2, <2>3, <2>4, <2>5 DEF SdInv, PathInv
  <1>10. QED
    BY <1>2, <1>8, <1>9

(* wait_until_woken at an empty gate *)
LEMMA WaitBlocksSdInv ==
    ASSUME SdInv, NEW t \in Threads,
           \/ WaitBlocks(t, "cmdtm", "cmdtm_blocked")
           \/ WaitBlocks(t, "data", "data_blocked")
    PROVE  SdInv'
  <1> USE DEF driver, device, setup
  <1>1. PICK to \in {"cmdtm_blocked", "data_blocked"} :
           /\ pc[t] = IF to = "cmdtm_blocked" THEN "cmdtm" ELSE "data"
           /\ pc' = [pc EXCEPT ![t] = to]
           /\ gate[t] = 0 /\ gate' = [gate EXCEPT ![t] = -1]
           /\ UNCHANGED <<at, taken, emmc_lock, driver, response, brk, device, setup>>
    BY DEF WaitBlocks, Step
  <1>2. Waits(t) /\ to \in Waiting \union {Program[at[t]].then}
    BY <1>1 DEF Waits, Waiting
  <1>3. /\ at[t] \in Commands /\ WakesInv(t) /\ CommandInv(t) /\ DataInv(t)
        /\ taken[t] \in 0 .. 2 /\ \A u \in Threads \ {t} : ~Waits(u) /\ gate[u] = 0
    BY <1>2, WaitFacts
  <1>4. /\ PlaceInv' /\ PathInv' /\ pc'[t] = to
        /\ \A u \in Threads \ {t} : pc'[u] = pc[u] /\ ~Waits(u)'
        /\ DOMAIN pc' = Threads
    BY <1>1, <1>2, WaitPlaces
  <1>5. gate' \in [Threads -> -1 .. 2] /\ gate'[t] = -1
        /\ \A u \in Threads \ {t} : gate'[u] = gate[u]
    BY <1>1 DEF SdInv, AnswerIsMine, TypeOK
  <1>6. TypeOK'
    BY <1>1, <1>4, <1>5 DEF SdInv, AnswerIsMine, TypeOK
  <1>7. AnswerIsMine'
    <2>1. to = "data_blocked" => response.cmd = Program[at[t]].no
      BY <1>1, <1>3 DEF WakesInv, CommandInv
    <2>2. to = "cmdtm_blocked" => to # Program[at[t]].then
      BY <1>3, ProgramFacts DEF Thens
    <2>3. QED
      BY <1>1, <1>4, <1>6, <2>1, <2>2 DEF SdInv, AnswerIsMine
  <1>8. DataIsThere' /\ AlwaysSomeoneToWake'
    BY <1>1, <1>4 DEF SdInv, DataIsThere, AlwaysSomeoneToWake
  <1>9. Waits(t)' /\ QuietInv'
    BY <1>2, <1>3, <1>4, <1>5 DEF QuietInv, Waits, Waiting
  <1>10. HandshakeInv'
    <2>1. AnswerDue' = AnswerDue /\ \A l : DataDue(l)' = DataDue(l)
      BY <1>1 DEF AnswerDue, DataDue
    <2>2. Used(t)' = Used(t) + 1 /\ Used(t) \in Nat
      BY <1>1, <1>3, <1>4 DEF Used
    <2>3. \A l : Had(l)' = Had(l) /\ Had(l) \in Nat
      BY <2>1 DEF Had
    <2>4. WakesInv(t)'
      BY <1>1, <1>3, <1>4, <1>5, <2>1, <2>2, <2>3 DEF WakesInv
    <2>5. CommandInv(t)' /\ DataInv(t)'
      BY <1>1, <1>3, <2>1 DEF CommandInv, DataInv
    <2>6. QED
      BY <1>4, <2>4, <2>5 DEF HandshakeInv
  <1>11. QED
    BY <1>1, <1>4, <1>7, <1>8, <1>9, <1>10 DEF SdInv

(* The numbers in WakesInv *)
LEMMA WakeNumbers ==
    ASSUME SdInv, NEW t \in Threads, Waits(t)
    PROVE  /\ Had(at[t]) \in 0 .. 2 /\ Used(t) \in Nat
           /\ AnswerDue => Had(at[t]) = 0
           /\ ~AnswerDue => Had(at[t]) >= 1
           /\ Had(at[t]) = 2 <=> ~AnswerDue /\ Program[at[t]].data /\ ~DataDue(at[t])
           /\ gate[t] = Had(at[t]) - Used(t)
  <1>1. WakesInv(t) /\ taken[t] \in 0 .. 2
    BY WaitFacts
  <1>2. /\ Had(at[t]) \in 0 .. 2
        /\ AnswerDue => Had(at[t]) = 0
        /\ ~AnswerDue => Had(at[t]) >= 1
        /\ Had(at[t]) = 2 <=> ~AnswerDue /\ Program[at[t]].data /\ ~DataDue(at[t])
    BY DEF Had, DataDue
  <1>3. Used(t) \in Nat
    BY <1>1 DEF Used, Waits, Waiting
  <1>4. QED
    BY <1>1, <1>2, <1>3 DEF WakesInv

(* When the last event of a command has been handled, the device rests. *)
LEMMA Finished ==
    ASSUME SdInv, NEW t \in Threads, Waits(t), ~AnswerDue, ~DataDue(at[t])
    PROVE  CMDTM = NULL /\ transfer = "none" /\ INTERRUPT = {}
  <1>1. DataInv(t) /\ INTERRUPT \subseteq {"CMD_DONE", "DATA_DONE", "READ_RDY", "ERROR"}
    BY WaitFacts DEF SdInv, AnswerIsMine, TypeOK
  <1>2. CMDTM = NULL /\ "CMD_DONE" \notin INTERRUPT /\ "ERROR" \notin INTERRUPT
    BY DEF AnswerDue
  <1>3. transfer = "none" /\ "DATA_DONE" \notin INTERRUPT
    BY <1>1 DEF DataInv, DataDue
  <1>4. "READ_RDY" \notin INTERRUPT
    BY <1>1, <1>3 DEF DataInv
  <1>5. QED
    BY <1>1, <1>2, <1>3, <1>4

(* The wait ends and the thread goes on outside the hand-shake. *)
LEMMA GoesOn ==
    ASSUME SdInv, NEW t \in Threads, Waits(t), ~AnswerDue, ~DataDue(at[t]),
           pc' = [pc EXCEPT ![t] = Program[at[t]].then],
           gate' \in [Threads -> -1 .. 2], gate'[t] = 0,
           \A u \in Threads \ {t} : gate'[u] = gate[u],
           taken' \in [Threads -> 0 .. 2],
           {command_thread', data_thread'} \subseteq Threads \union {NULL},
           UNCHANGED <<at, emmc_lock, current_cmdtm, pending_app_cmdtm, block_size,
                       response, brk, device, setup>>
    PROVE  SdInv'
  <1> USE DEF device, setup
  <1>1. /\ at[t] \in Commands /\ CommandInv(t) /\ DataInv(t)
        /\ \A u \in Threads \ {t} : ~Waits(u) /\ gate[u] = 0
    BY WaitFacts
  <1>2. /\ PlaceInv' /\ PathInv' /\ pc'[t] = Program[at[t]].then
        /\ \A u \in Threads \ {t} : pc'[u] = pc[u] /\ ~Waits(u)'
        /\ DOMAIN pc' = Threads
    BY WaitPlaces
  <1>3. TypeOK'
    BY <1>2 DEF SdInv, AnswerIsMine, TypeOK
  <1>4. AnswerIsMine'
    <2>1. response.cmd = Program[at[t]].no
      BY <1>1 DEF CommandInv
    <2>2. QED
      BY <1>2, <1>3, <2>1 DEF SdInv, AnswerIsMine
  <1>5. DataIsThere' /\ AlwaysSomeoneToWake'
    <2>1. /\ Program[at[t]].then = "return" => t \in filled
          /\ Program[at[t]].then = "full_speed" => block_size = 0
      BY <1>1, ProgramFacts DEF DataInv
    <2>2. QED
      BY <1>2, <2>1 DEF SdInv, DataIsThere, AlwaysSomeoneToWake
  <1>6. ~Waits(t)'
    BY <1>1, <1>2, ProgramFacts DEF Waits, Thens, Waiting
  <1>7. QuietInv' /\ HandshakeInv'
    BY <1>1, <1>2, <1>6, Finished DEF QuietInv, HandshakeInv
  <1>8. QED
    BY <1>2, <1>4, <1>5, <1>7 DEF SdInv

(* The wait in cmdtm ends. *)
LEMMA CommandReturnsSdInv ==
    ASSUME SdInv, NEW t \in Threads, CommandReturns(t)
    PROVE  SdInv'
  <1>1. /\ \/ pc[t] = "cmdtm" /\ gate[t] > 0 /\ gate' = [gate EXCEPT ![t] = 0]
           \/ pc[t] = "cmdtm_blocked" /\ gate[t] # -1 /\ gate' = gate
        /\ pc' = [pc EXCEPT ![t] = AfterCommand(t)]
        /\ taken' = [taken EXCEPT ![t] = IF pc[t] = "cmdtm" THEN gate[t] ELSE 0]
        /\ command_thread' \in {command_thread, NULL}
        /\ UNCHANGED <<at, emmc_lock, data_thread, current_cmdtm, pending_app_cmdtm,
                       block_size, response, brk, device, setup>>
    BY DEF CommandReturns, WaitReturns, Step
  <1>2. Waits(t)
    BY <1>1 DEF Waits, Waiting
  <1>3. /\ at[t] \in Commands /\ WakesInv(t) /\ CommandInv(t) /\ DataInv(t)
        /\ gate[t] \in -1 .. 2 /\ \A u \in Threads \ {t} : ~Waits(u) /\ gate[u] = 0
    BY <1>2, WaitFacts
  <1>4. /\ pc[t] = "cmdtm" => Used(t) = 0
        /\ pc[t] = "cmdtm_blocked" => Used(t) = 1
    BY DEF Used
  <1>5. ~AnswerDue
    BY <1>1, <1>2, <1>3, <1>4, WakeNumbers
  <1>6. /\ gate' \in [Threads -> -1 .. 2] /\ taken' \in [Threads -> 0 .. 2]
        /\ \A u \in Threads \ {t} : gate'[u] = gate[u]
        /\ taken'[t] = IF pc[t] = "cmdtm" THEN gate[t] ELSE 0
        /\ pc[t] = "cmdtm" => gate'[t] = 0
    BY <1>1, <1>3 DEF SdInv, AnswerIsMine, TypeOK
  <1>7. {command_thread', data_thread'} \subseteq Threads \union {NULL}
    BY <1>1 DEF SdInv, AnswerIsMine, TypeOK
  <1>8. CASE ~Program[at[t]].data
    <2>1. ~DataDue(at[t]) /\ AfterCommand(t) = Program[at[t]].then
      BY <1>8 DEF DataDue, AfterCommand
    <2>2. gate'[t] = 0
      BY <1>1, <1>2, <1>4, <1>5, <1>6, <1>8, WakeNumbers
    <2>3. QED
      BY <1>1, <1>2, <1>5, <1>6, <1>7, <2>1, <2>2, GoesOn
  <1>9. CASE Program[at[t]].data
    <2> USE DEF device, setup
    <2>1. AfterCommand(t) = "data"
      BY <1>9 DEF AfterCommand
    <2>2. "data" \in Waiting \union {Program[at[t]].then} /\ pc' = [pc EXCEPT ![t] = "data"]
      BY <1>1, <2>1 DEF Waiting
    <2>3. /\ PlaceInv' /\ PathInv' /\ pc'[t] = "data"
          /\ \A u \in Threads \ {t} : pc'[u] = pc[u] /\ ~Waits(u)'
          /\ DOMAIN pc' = Threads
      BY <1>1, <1>2, <2>2, WaitPlaces
    <2>4. TypeOK'
      BY <1>1, <1>6, <1>7, <2>3 DEF SdInv, AnswerIsMine, TypeOK
    <2>5. AnswerIsMine'
      <3>1. response.cmd = Program[at[t]].no
        BY <1>3, <1>5 DEF CommandInv
      <3>2. QED
        BY <1>1, <2>3, <2>4, <3>1 DEF SdInv, AnswerIsMine
    <2>6. DataIsThere' /\ AlwaysSomeoneToWake'
      BY <1>1, <2>3 DEF SdInv, DataIsThere, AlwaysSomeoneToWake
    <2>7. Waits(t)' /\ QuietInv'
      BY <1>3, <1>6, <2>3 DEF QuietInv, Waits, Waiting
    <2>8. HandshakeInv'
      <3>1. AnswerDue' = AnswerDue /\ \A l : DataDue(l)' = DataDue(l)
        BY <1>1 DEF AnswerDue, DataDue
      <3>2. Had(at[t])' = Had(at[t])
        BY <1>1, <3>1 DEF Had
      <3>3. gate'[t] = Had(at[t]) - Used(t)'
        <4>1. CASE pc[t] = "cmdtm"
          <5>1. Used(t)' = gate[t]
            BY <1>1, <1>6, <2>3, <4>1 DEF Used
          <5>2. QED
            BY <1>2, <1>4, <1>6, <4>1, <5>1, WakeNumbers
        <4>2. CASE pc[t] = "cmdtm_blocked"
          <5>1. Used(t)' = 1
            BY <1>6, <2>3, <4>2 DEF Used
          <5>2. QED
            BY <1>1, <1>2, <1>4, <4>2, <5>1, WakeNumbers
        <4>3. QED
          BY <1>1, <4>1, <4>2
      <3>4. WakesInv(t)'
        BY <1>1, <1>5, <1>9, <3>1, <3>2, <3>3 DEF WakesInv
      <3>5. CommandInv(t)'
        BY <1>1, <1>3, <1>5, <3>1 DEF CommandInv
      <3>6. DataInv(t)'
        BY <1>1, <1>3, <3>1 DEF DataInv
      <3>7. QED
        BY <2>3, <3>4, <3>5, <3>6 DEF HandshakeInv
    <2>9. QED
      BY <1>1, <2>3, <2>5, <2>6, <2>7, <2>8 DEF SdInv
  <1>10. QED
    BY <1>8, <1>9

(* The wait for the data ends. *)
LEMMA DataReturnsSdInv ==
    ASSUME SdInv, NEW t \in Threads, DataReturns(t)
    PROVE  SdInv'
  <1>1. /\ \/ pc[t] = "data" /\ gate[t] > 0 /\ gate' = [gate EXCEPT ![t] = 0]
           \/ pc[t] = "data_blocked" /\ gate[t] # -1 /\ gate' = gate
        /\ pc' = [pc EXCEPT ![t] = Program[at[t]].then]
        /\ data_thread' \in {data_thread, NULL}
        /\ UNCHANGED <<at, taken, emmc_lock, command_thread, current_cmdtm,
                       pending_app_cmdtm, block_size, response, brk, device, setup>>
    BY DEF DataReturns, WaitReturns, Step
  <1>2. Waits(t)
    BY <1>1 DEF Waits, Waiting
  <1>3. /\ WakesInv(t) /\ gate[t] \in -1 .. 2 /\ taken[t] \in 0 .. 2
    BY <1>2, WaitFacts
  <1>4. /\ pc[t] = "data" => Used(t) >= 1
        /\ pc[t] = "data_blocked" => Used(t) >= 2
    BY <1>3 DEF Used
  <1>5. Had(at[t]) = 2 /\ (pc[t] = "data_blocked" => gate[t] = 0)
    BY <1>1, <1>2, <1>3, <1>4, WakeNumbers
  <1>6. ~AnswerDue /\ ~DataDue(at[t])
    BY <1>2, <1>5, WakeNumbers
  <1>7. /\ gate' \in [Threads -> -1 .. 2] /\ gate'[t] = 0
        /\ \A u \in Threads \ {t} : gate'[u] = gate[u]
        /\ taken' \in [Threads -> 0 .. 2]
        /\ {command_thread', data_thread'} \subseteq Threads \union {NULL}
    BY <1>1, <1>5 DEF SdInv, AnswerIsMine, TypeOK
  <1>8. QED
    BY <1>1, <1>2, <1>6, <1>7, GoesOn

-----------------------------------------------------------------------------
(* Steps of the controller, the card and the interrupt handler *)

(* A thread waits whenever the controller is busy or has something to say, *)
(* and the events that end its wait are enabled.                           *)
LEMMA Waiter ==
    ASSUME SdInv, CMDTM # NULL \/ transfer # "none" \/ INTERRUPT # {}
    PROVE  \E t \in Threads : Waits(t)
  BY DEF SdInv, QuietInv

LEMMA EventsEnabled ==
    ASSUME SdInv, NEW t \in Threads, Waits(t)
    PROVE  /\ {"CMD_DONE", "DATA_DONE", "ERROR"} \subseteq IRPT_MASK
           /\ at[t] = "acmd51" => "READ_RDY" \in IRPT_MASK
           /\ at[t] = "cmd18" => t \in Client /\ dma = t
  <1>1. CASE t = Initialiser
    BY <1>1 DEF SdInv, PathInv, Waits, Waiting, Early
  <1>2. CASE t \in Client
    <2>1. pc[Initialiser] = "exposed"
      BY <1>2 DEF SdInv, PlaceInv, Waits, Waiting
    <2>2. QED
      BY <1>2, <2>1 DEF SdInv, PathInv, Waits, Early
  <1>3. QED
    BY <1>1, <1>2 DEF Threads

(* What is left to show of a step of the controller or the card. *)
LEMMA DeviceStep ==
    ASSUME SdInv, NEW t \in Threads, Waits(t), UNCHANGED deviceOnly,
           INTERRUPT' \subseteq IRPT_MASK, RESP' \in Responses,
           transfer' \in {"none", "busy", "block", "fifo", "dma"}, card' \in States,
           filled' \in {filled, filled \union {dma}}, filled' \subseteq Client,
           WakesInv(t)' /\ CommandInv(t)' /\ DataInv(t)'
    PROVE  SdInv'
  <1> USE DEF deviceOnly, driver, setup
  <1>1. TypeOK'
    BY DEF SdInv, AnswerIsMine, TypeOK
  <1>2. AnswerIsMine' /\ DataIsThere' /\ AlwaysSomeoneToWake'
    BY <1>1 DEF SdInv, AnswerIsMine, DataIsThere, AlwaysSomeoneToWake
  <1>3. PlaceInv' /\ PathInv'
    BY DEF SdInv, PlaceInv, PathInv
  <1>4. \A u \in Threads : Waits(u)' <=> Waits(u)
    BY DEF Waits
  <1>5. \A u \in Threads \ {t} : ~Waits(u)
    BY WaitFacts
  <1>6. QuietInv' /\ HandshakeInv'
    BY <1>4, <1>5 DEF SdInv, QuietInv, HandshakeInv
  <1>7. QED
    BY <1>2, <1>3, <1>6 DEF SdInv

(* A command that the card has not answered. *)
LEMMA Unanswered ==
    ASSUME SdInv, CMDTM # NULL, NEW t \in Threads, Waits(t)
    PROVE  /\ AnswerDue /\ CMDTM = current_cmdtm /\ INTERRUPT = {} /\ transfer = "none"
           /\ CMDTM = 55 \/ CMDTM = Program[at[t]].no
  <1>1. /\ CommandInv(t) /\ DataInv(t) 
        /\ INTERRUPT \subseteq {"CMD_DONE", "DATA_DONE", "READ_RDY", "ERROR"}
    BY WaitFacts DEF SdInv, AnswerIsMine, TypeOK
  <1>2. AnswerDue /\ CMDTM = current_cmdtm /\ "CMD_DONE" \notin INTERRUPT /\ "ERROR" \notin INTERRUPT
    BY <1>1 DEF AnswerDue, CommandInv
  <1>3. transfer = "none" /\ "DATA_DONE" \notin INTERRUPT
    BY <1>1 DEF DataInv
  <1>4. "READ_RDY" \notin INTERRUPT
    BY <1>1, <1>3 DEF DataInv
  <1>5. QED
    BY <1>1, <1>2, <1>3, <1>4 DEF CommandInv

LEMMA CardFailsSdInv ==
    ASSUME SdInv, CardFails
    PROVE  SdInv'
  <1>1. /\ CMDTM # NULL /\ CMDTM' = NULL
        /\ INTERRUPT' = INTERRUPT \union ({"ERROR"} \intersect IRPT_MASK)
        /\ UNCHANGED <<RESP, transfer, card, filled, deviceOnly>>
    BY DEF CardFails, Raise
  <1>2. PICK t \in Threads : Waits(t)
    BY <1>1, Waiter
  <1>3. /\ AnswerDue /\ INTERRUPT = {} /\ transfer = "none"
        /\ INTERRUPT' = {"ERROR"} /\ INTERRUPT' \subseteq IRPT_MASK
    BY <1>1, <1>2, Unanswered, EventsEnabled
  <1>4. WakesInv(t) /\ CommandInv(t) /\ DataInv(t)
    BY <1>2, WaitFacts
  <1> USE DEF deviceOnly, driver, setup
  <1>5. AnswerDue' /\ \A l : DataDue(l) <=> DataDue(l)'
    BY <1>3 DEF AnswerDue, DataDue
  <1>6. WakesInv(t)'
    BY <1>1, <1>3, <1>4, <1>5 DEF WakesInv, Had, Used
  <1>7. CommandInv(t)'
    BY <1>1, <1>3, <1>4, <1>5 DEF CommandInv
  <1>8. DataInv(t)'
    BY <1>1, <1>3, <1>4, <1>5 DEF DataInv
  <1>9. RESP' \in Responses /\ transfer' = transfer /\ card' \in States /\ filled' = filled /\ filled \subseteq Client
    BY <1>1 DEF SdInv, AnswerIsMine, TypeOK
  <1>10. UNCHANGED deviceOnly
    BY <1>1
  <1>11. QED
    BY <1>2, <1>3, <1>6, <1>7, <1>8, <1>9, <1>10, DeviceStep

(* The answer to a command, and what it does to the data lines *)
LEMMA CardAnswersSdInv ==
    ASSUME SdInv, CardAnswers
    PROVE  SdInv'
  <1>1. /\ CMDTM # NULL /\ CMDTM' = NULL
        /\ INTERRUPT' = INTERRUPT \union ({"CMD_DONE"} \intersect IRPT_MASK)
        /\ transfer' = CASE CMDTM = 7  -> "busy"
                         [] CMDTM = 51 -> "block"
                         [] CMDTM = 18 -> "dma"
                         [] OTHER      -> transfer
        /\ UNCHANGED <<filled, deviceOnly>>
    BY DEF CardAnswers, Raise
  <1>2. PICK bits \in AnswerBits : /\ RESP' = [cmd |-> CMDTM, state |-> card, bits |-> bits]
                                   /\ card' = StateAfter(bits)
    BY DEF CardAnswers
  <1>3. PICK t \in Threads : Waits(t)
    BY <1>1, Waiter
  <1>4. /\ AnswerDue /\ CMDTM = current_cmdtm /\ INTERRUPT = {} /\ transfer = "none"
        /\ INTERRUPT' = {"CMD_DONE"} /\ INTERRUPT' \subseteq IRPT_MASK
        /\ CMDTM = 55 \/ CMDTM = Program[at[t]].no
    BY <1>1, <1>3, Unanswered, EventsEnabled
  <1>5. at[t] \in Commands /\ WakesInv(t) /\ CommandInv(t) /\ DataInv(t)
    BY <1>3, WaitFacts
  <1>6. /\ RESP' \in Responses /\ RESP'.cmd = CMDTM
    <2>1. CMDTM \in {Program[l].no : l \in Commands} \union {55, NULL}
      BY <1>4, <1>5
    <2>2. bits \in SUBSET Bits /\ card \in States
      BY DEF AnswerBits, Bits, SdInv, AnswerIsMine, TypeOK
    <2>3. QED
      BY <1>2, <2>1, <2>2, ResponseFacts
  <1>7. card' \in States
    BY <1>2 DEF StateAfter, States, SdInv, AnswerIsMine, TypeOK
  <1>8. /\ CMDTM = 7 => at[t] = "cmd7" /\ transfer' = "busy"
        /\ CMDTM = 51 => at[t] = "acmd51" /\ transfer' = "block"
        /\ CMDTM = 18 => at[t] = "cmd18" /\ transfer' = "dma"
        /\ CMDTM \notin {7, 51, 18} => transfer' = "none"
        /\ transfer' # "none" => CMDTM = Program[at[t]].no /\ Program[at[t]].data
        /\ Program[at[t]].data /\ CMDTM = Program[at[t]].no => transfer' # "none"
    BY <1>1, <1>4, <1>5, ProgramFacts
  <1> USE DEF deviceOnly, driver, setup
  <1>9. AnswerDue' /\ \A l : DataDue(l) <=> DataDue(l)'
    BY <1>4 DEF AnswerDue, DataDue
  <1>10. WakesInv(t)'
    BY <1>1, <1>4, <1>5, <1>9 DEF WakesInv, Had, Used
  <1>11. CommandInv(t)'
    <2>1. CMDTM = 55 => CMDTM \notin {7, 51, 18} /\ Program[at[t]].no # 55
      BY <1>5, ProgramFacts
    <2>2. QED
      BY <1>1, <1>4, <1>5, <1>6, <1>8, <1>9, <2>1 DEF CommandInv
  <1>12. DataInv(t)'
    BY <1>1, <1>4, <1>5, <1>8, <1>9 DEF DataInv
  <1>13. /\ transfer' \in {"none", "busy", "block", "fifo", "dma"}
         /\ filled' = filled /\ filled \subseteq Client
    BY <1>1, <1>8 DEF SdInv, AnswerIsMine, TypeOK
  <1>14. UNCHANGED deviceOnly
    BY <1>1
  <1>15. QED
    BY <1>3, <1>4, <1>6, <1>7, <1>10, <1>11, <1>12, <1>13, <1>14, DeviceStep

LEMMA BlockArrivesSdInv ==
    ASSUME SdInv, BlockArrives
    PROVE  SdInv'
  <1>1. /\ transfer = "block" /\ transfer' = "fifo"
        /\ INTERRUPT' = INTERRUPT \union ({"READ_RDY"} \intersect IRPT_MASK)
        /\ UNCHANGED <<CMDTM, RESP, card, filled, deviceOnly>>
    BY DEF BlockArrives, Raise
  <1>2. PICK t \in Threads : Waits(t)
    BY <1>1, Waiter
  <1>3. at[t] \in Commands /\ WakesInv(t) /\ CommandInv(t) /\ DataInv(t)
    BY <1>2, WaitFacts
  <1>4. at[t] = "acmd51" /\ block_size # 0
    BY <1>1, <1>3 DEF DataInv
  <1>5. INTERRUPT' = INTERRUPT \union {"READ_RDY"} /\ INTERRUPT' \subseteq IRPT_MASK
    BY <1>1, <1>2, <1>4, EventsEnabled DEF SdInv, AnswerIsMine, TypeOK
  <1> USE DEF deviceOnly, driver, setup
  <1>6. (AnswerDue' <=> AnswerDue) /\ \A l : DataDue(l) <=> DataDue(l)'
    BY <1>1, <1>5 DEF AnswerDue, DataDue
  <1>7. WakesInv(t)'
    BY <1>1, <1>3, <1>6 DEF WakesInv, Had, Used
  <1>8. CommandInv(t)'
    BY <1>1, <1>3, <1>5, <1>6 DEF CommandInv
  <1>9. DataInv(t)'
    BY <1>1, <1>3, <1>4, <1>5, <1>6 DEF DataInv
  <1>10. RESP' \in Responses /\ card' \in States /\ filled' = filled /\ filled \subseteq Client
    BY <1>1 DEF SdInv, AnswerIsMine, TypeOK
  <1>11. UNCHANGED deviceOnly
    BY <1>1
  <1>12. QED
    BY <1>1, <1>2, <1>5, <1>7, <1>8, <1>9, <1>10, <1>11, DeviceStep

LEMMA TransferEndsSdInv ==
    ASSUME SdInv, TransferEnds
    PROVE  SdInv'
  <1>1. /\ \/ transfer = "busy" /\ filled' = filled
           \/ transfer = "fifo" /\ block_size = 0 /\ filled' = filled
           \/ transfer = "dma" /\ filled' = filled \union {dma}
        /\ transfer' = "none"
        /\ INTERRUPT' = INTERRUPT \union ({"DATA_DONE"} \intersect IRPT_MASK)
        /\ UNCHANGED <<CMDTM, RESP, card, deviceOnly>>
    BY DEF TransferEnds, Raise
  <1>2. PICK t \in Threads : Waits(t)
    BY <1>1, Waiter
  <1>3. at[t] \in Commands /\ WakesInv(t) /\ CommandInv(t) /\ DataInv(t)
    BY <1>2, WaitFacts
  <1>4. /\ Program[at[t]].data /\ CMDTM = NULL /\ "ERROR" \notin INTERRUPT
        /\ "READ_RDY" \notin INTERRUPT
        /\ at[t] = "cmd18" => transfer = "dma" /\ t \in Client /\ t \in filled'
        /\ at[t] = "acmd51" => block_size = 0
        /\ transfer = "dma" => dma \in Client
    BY <1>1, <1>2, <1>3, EventsEnabled DEF DataInv
  <1>5. INTERRUPT' = INTERRUPT \union {"DATA_DONE"} /\ INTERRUPT' \subseteq IRPT_MASK
    BY <1>1, <1>2, EventsEnabled DEF SdInv, AnswerIsMine, TypeOK
  <1> USE DEF deviceOnly, driver, setup
  <1>6. (AnswerDue' <=> AnswerDue) /\ \A l : DataDue(l) <=> DataDue(l)'
    BY <1>1, <1>5 DEF AnswerDue, DataDue
  <1>7. WakesInv(t)'
    BY <1>1, <1>3, <1>6 DEF WakesInv, Had, Used
  <1>8. CommandInv(t)'
    BY <1>1, <1>3, <1>4, <1>5, <1>6 DEF CommandInv
  <1>9. DataInv(t)'
    BY <1>1, <1>3, <1>4, <1>5, <1>6 DEF DataInv
  <1>10. /\ RESP' \in Responses /\ card' \in States
         /\ filled' \in {filled, filled \union {dma}} /\ filled' \subseteq Client
    BY <1>1, <1>4 DEF SdInv, AnswerIsMine, TypeOK
  <1>11. UNCHANGED deviceOnly
    BY <1>1
  <1>12. QED
    BY <1>1, <1>2, <1>5, <1>7, <1>8, <1>9, <1>10, <1>11, DeviceStep

(* emmc_interrupt accepts what it finds. *)
LEMMA HandledSdInv ==
    ASSUME SdInv, Interrupt, ~(Refused \/ Unclaimed), NEW t \in Threads, Waits(t)
    PROVE  SdInv'
  <1> DEFINE done == "CMD_DONE" \in INTERRUPT
             data == "DATA_DONE" \in INTERRUPT
             app  == done /\ AppCommandFollows
             g1   == IF done /\ ~app THEN Woken(gate, command_thread) ELSE gate
  <1>1. /\ INTERRUPT' = {} /\ response' = IF done THEN RESP ELSE response
        /\ app => /\ current_cmdtm' = pending_app_cmdtm /\ CMDTM' = pending_app_cmdtm
                  /\ pending_app_cmdtm' = 0
        /\ ~app => UNCHANGED <<current_cmdtm, CMDTM, pending_app_cmdtm>>
        /\ gate' = IF data THEN Woken(g1, data_thread) ELSE g1
        /\ block_size' = IF "READ_RDY" \in INTERRUPT THEN 0 ELSE block_size
        /\ UNCHANGED <<pc, at, taken, emmc_lock, command_thread, data_thread, brk,
                       IRPT_MASK, RESP, transfer, dma, card, filled, base_clock_rate_hz,
                       irq_enabled, clock>>
    BY DEF Interrupt, setup
  <1>2. "ERROR" \notin INTERRUPT
    BY DEF Refused
  <1>3. /\ at[t] \in Commands /\ WakesInv(t) /\ CommandInv(t) /\ DataInv(t)
        /\ gate[t] \in -1 .. 2
        /\ \A u \in Threads \ {t} : ~Waits(u) /\ gate[u] = 0
    BY Zenon, WaitFacts
  <1>4. /\ done => CMDTM = NULL /\ command_thread = t
        /\ data => data_thread = t /\ Program[at[t]].data /\ transfer = "none" /\ CMDTM = NULL
    BY <1>3 DEF CommandInv, DataInv, AnswerDue
  <1>5. app <=> done /\ current_cmdtm = 55
    BY DEF AppCommandFollows
  <1>6. /\ app => /\ Program[at[t]].app /\ pending_app_cmdtm = Program[at[t]].no
                  /\ transfer = "none" /\ ~data /\ "READ_RDY" \notin INTERRUPT
                  /\ Program[at[t]].no \in Nat /\ Program[at[t]].no # NULL
        /\ done /\ ~app => current_cmdtm = Program[at[t]].no
    <2>1. Program[at[t]].no # 55 /\ Program[at[t]].no \in Nat
      BY <1>3, ProgramFacts
    <2>2. Program[at[t]].no # NULL
      BY <2>1, SdAssumption
    <2>3. QED
      BY <1>3, <1>5, <2>1, <2>2 DEF CommandInv, DataInv
  <1> HIDE DEF app
  <1>7. /\ AnswerDue <=> CMDTM # NULL \/ done
        /\ app => AnswerDue'
        /\ done /\ ~app => ~AnswerDue'
        /\ ~done => (AnswerDue' <=> AnswerDue)
    <2>1. AnswerDue <=> CMDTM # NULL \/ done
      BY <1>2 DEF AnswerDue
    <2>2. AnswerDue' <=> CMDTM' # NULL
      BY <1>1 DEF AnswerDue
    <2>3. QED
      BY <1>1, <1>4, <1>5, <1>6, <2>1, <2>2
  <1>8. Program[at[t]].data =>
           /\ DataDue(at[t])' <=> AnswerDue' \/ transfer # "none"
           /\ data => DataDue(at[t]) /\ ~DataDue(at[t])'
           /\ ~data => (DataDue(at[t])' <=> DataDue(at[t]))
    <2>1. ASSUME Program[at[t]].data
          PROVE  /\ DataDue(at[t]) <=> AnswerDue \/ transfer # "none" \/ data
                 /\ DataDue(at[t])' <=> AnswerDue' \/ transfer # "none"
      BY <1>1, <2>1 DEF DataDue
    <2>2. ASSUME Program[at[t]].data, done, ~app PROVE transfer # "none" \/ data
      BY <1>3, <1>6, <2>2 DEF DataInv
    <2>3. data => ~AnswerDue'
      BY <1>4, <1>5, <1>6, <1>7
    <2>4. QED
      BY <1>4, <1>7, <2>1, <2>2, <2>3
  <1>9. /\ gate' \in [Threads -> Int]
        /\ gate'[t] = gate[t] + (IF done /\ ~app THEN 1 ELSE 0) + (IF data THEN 1 ELSE 0)
        /\ \A u \in Threads \ {t} : gate'[u] = gate[u]
    <2>1. gate \in [Threads -> Int]
      BY DEF SdInv, AnswerIsMine, TypeOK
    <2>2. /\ g1 \in [Threads -> Int]
          /\ g1[t] = gate[t] + (IF done /\ ~app THEN 1 ELSE 0)
          /\ \A u \in Threads \ {t} : g1[u] = gate[u]
      BY <1>4, <2>1 DEF Woken
    <2> HIDE DEF g1
    <2>3. QED
      BY <1>1, <1>4, <2>1, <2>2 DEF Woken
  <1>10. Had(at[t])' = Had(at[t]) + (IF done /\ ~app THEN 1 ELSE 0) + (IF data THEN 1 ELSE 0)
    <2>1. /\ (IF AnswerDue' THEN 0 ELSE 1)
               = (IF AnswerDue THEN 0 ELSE 1) + (IF done /\ ~app THEN 1 ELSE 0)
      BY <1>7
    <2>2. (IF Program[at[t]].data /\ ~DataDue(at[t])' THEN 1 ELSE 0)
            = (IF Program[at[t]].data /\ ~DataDue(at[t]) THEN 1 ELSE 0) + (IF data THEN 1 ELSE 0)
      BY <1>4, <1>8
    <2>3. QED
      BY <1>1, <2>1, <2>2 DEF Had
  <1>11. Used(t)' = Used(t) /\ Used(t) \in Nat /\ Had(at[t]) \in 0 .. 2
    BY <1>1, WakeNumbers DEF Used
  <1>12. Had(at[t])' \in 0 .. 2
    BY DEF Had
  <1>13. gate'[t] = Had(at[t])' - Used(t)' /\ gate'[t] \in -1 .. 2
    <2>1. gate[t] = Had(at[t]) - Used(t)
      BY WakeNumbers
    <2>2. gate'[t] = Had(at[t])' - Used(t)' /\ gate'[t] >= gate[t]
      BY <1>3, <1>9, <1>10, <1>11, <2>1
    <2>3. QED
      BY <1>3, <1>11, <1>12, <2>2
  <1>14. TypeOK'
    <2>1. gate' \in [Threads -> -1 .. 2]
      <3>1. \A u \in Threads : gate'[u] \in -1 .. 2
        BY <1>3, <1>9, <1>13
      <3>2. QED
        BY <1>9, <3>1
    <2>2. response' \in Responses /\ block_size' \in {0, 8}
      BY <1>1 DEF SdInv, AnswerIsMine, TypeOK
    <2>3. QED
      BY <1>1, <2>1, <2>2 DEF SdInv, AnswerIsMine, TypeOK
  <1>15. done => pc[t] \in {"cmdtm", "cmdtm_blocked"}
    BY <1>3, <1>7 DEF WakesInv, Waits, Waiting
  <1>16. \A u \in Threads \ {t} : pc[u] \in Idles
    <2>1. pc[t] \notin Idles
      BY DEF Waits, Waiting, Idles
    <2>2. QED
      BY <2>1, OneBusy DEF SdInv
  <1>17. AnswerIsMine'
    <2>1. \A u \in Threads : at[u] \in Commands
      BY ProgramFacts DEF SdInv, AnswerIsMine, TypeOK
    <2>2. ASSUME NEW u \in Threads, pc[u] \in {"data", "data_blocked", Program[at[u]].then}
          PROVE  ~done
      <3>1. pc[u] \in Thens \union {"data", "data_blocked"}
        BY <2>1, <2>2, ProgramFacts
      <3>2. QED
        BY <1>15, <1>16, <3>1 DEF Idles, Thens
    <2>3. QED
      BY <1>1, <1>14, <2>2 DEF SdInv, AnswerIsMine
  <1>18. DataIsThere' /\ AlwaysSomeoneToWake'
    BY <1>1 DEF SdInv, DataIsThere, AlwaysSomeoneToWake, AnswerIsMine, TypeOK
  <1>19. PlaceInv' /\ PathInv'
    BY <1>1 DEF SdInv, PlaceInv, PathInv
  <1>20. Waits(t)' /\ \A u \in Threads \ {t} : ~Waits(u)'
    BY <1>1, <1>3 DEF Waits
  <1>21. QuietInv'
    BY <1>3, <1>9, <1>20 DEF QuietInv
  <1>22. HandshakeInv'
    <2>1. WakesInv(t)'
      BY <1>1, <1>3, <1>7, <1>13, <1>15 DEF WakesInv
    <2>2. CommandInv(t)'
      <3>1. ~AnswerDue' => response'.cmd = Program[at[t]].no
        BY <1>1, <1>3, <1>6, <1>7 DEF CommandInv
      <3>2. AnswerDue' => command_thread = t
        BY <1>3, <1>7, <1>4 DEF CommandInv
      <3>3. \/ current_cmdtm' = Program[at[t]].no
            \/ /\ current_cmdtm' = 55 /\ Program[at[t]].app
               /\ pending_app_cmdtm' = Program[at[t]].no
               /\ AnswerDue' /\ transfer = "none"
        BY <1>1, <1>3, <1>5, <1>6, <1>7 DEF CommandInv
      <3>4. CMDTM' \in {NULL, current_cmdtm'}
        BY <1>1, <1>3 DEF CommandInv
      <3>5. QED
        BY <1>1, <3>1, <3>2, <3>3, <3>4 DEF CommandInv
    <2>3. DataInv(t)'
      <3>1. "READ_RDY" \in INTERRUPT => at[t] = "acmd51" /\ transfer = "fifo" /\ current_cmdtm = 51
                                        /\ CMDTM = NULL /\ ~app
        BY <1>3, <1>6, ProgramFacts DEF DataInv, CommandInv
      <3>2. at[t] = "acmd51" => Program[at[t]].data /\ Program[at[t]].no = 51
        BY <1>3, ProgramFacts
      <3>3. at[t] = "cmd18" => Program[at[t]].data
        BY <1>3, ProgramFacts
      <3>4. transfer # "none" => Program[at[t]].data /\ CMDTM' = NULL
        BY <1>1, <1>3, <1>6 DEF DataInv
      <3>5. at[t] = "cmd18" /\ ~DataDue(at[t])' => t \in filled
        BY <1>3, <1>8, <3>3 DEF DataInv
      <3>6. at[t] = "acmd51" /\ ~DataDue(at[t])' => block_size' = 0
        BY <1>1, <1>3, <1>8, <3>2 DEF DataInv
      <3>7. at[t] = "acmd51" /\ block_size' = 0 =>
              current_cmdtm' = 51 /\ CMDTM' = NULL /\ transfer \in {"none", "fifo"}
        <4>1. ASSUME at[t] = "acmd51", block_size' = 0
              PROVE  current_cmdtm = 51 /\ CMDTM = NULL /\ transfer \in {"none", "fifo"}
          BY <1>1, <1>3, <3>1, <4>1 DEF DataInv
        <4>2. QED
          BY <1>1, <1>5, <4>1
      <3>8. QED
        BY <1>1, <1>3, <3>4, <3>5, <3>6, <3>7 DEF DataInv
    <2>4. QED
      BY <1>20, <2>1, <2>2, <2>3 DEF HandshakeInv
  <1>23. current_cmdtm' \in Nat /\ pending_app_cmdtm' \in Nat
    BY <1>1 DEF SdInv
  <1>24. QED
    BY <1>17, <1>18, <1>19, <1>21, <1>22, <1>23 DEF SdInv

LEMMA InterruptSdInv ==
    ASSUME SdInv, Interrupt
    PROVE  SdInv'
  <1>1. PICK t \in Threads : Waits(t)
    BY Waiter DEF Interrupt, Dispatched
  <1>2. CommandInv(t) /\ DataInv(t)
    BY <1>1, WaitFacts
  <1>3. t # NULL
    BY SdAssumption DEF Threads
  <1>4. ~Unclaimed
    BY <1>2, <1>3 DEF Unclaimed, CommandInv, DataInv, AnswerDue
  <1>5. CASE Refused
    BY <1>5, StoppedSdInv DEF Interrupt, Reasons, driver, device, setup, SdInv, AnswerIsMine,
       TypeOK
  <1>6. CASE ~Refused
    BY <1>1, <1>4, <1>6, HandledSdInv
  <1>7. QED
    BY <1>5, <1>6

-----------------------------------------------------------------------------
(* Theorems *)

LEMMA NextSd == SdInv /\ [Next]_vars => SdInv'
  <1> SUFFICES ASSUME SdInv, [Next]_vars PROVE SdInv'
    OBVIOUS
  <1>1. CASE UNCHANGED vars
    <2> USE <1>1 DEF vars, driver, device, setup
    <2>1. AnswerIsMine' /\ DataIsThere' /\ AlwaysSomeoneToWake'
      BY DEF SdInv, AnswerIsMine, TypeOK, DataIsThere, AlwaysSomeoneToWake
    <2>2. PlaceInv' /\ PathInv' /\ QuietInv'
      BY DEF SdInv, PlaceInv, PathInv, QuietInv, Waits
    <2>3. HandshakeInv'
      BY HandshakeFrame DEF SdInv, HandshakeInv, Waits
    <2>4. QED
      BY <2>1, <2>2, <2>3 DEF SdInv
  <1>2. ASSUME NEW t \in Threads, ThreadStep(t) PROVE SdInv'
    <2>1. CASE Identify(t)
      BY <2>1, IdentifySdInv
    <2>2. CASE SendCommand(t) \/ CommandReturns(t) \/ DataReturns(t)
      BY <2>2, SendCommandSdInv, CommandReturnsSdInv, DataReturnsSdInv
    <2>3. CASE \/ WaitBlocks(t, "cmdtm", "cmdtm_blocked")
               \/ WaitBlocks(t, "data", "data_blocked")
      BY <2>3, WaitBlocksSdInv
    <2>4. CASE ClaimLock(t) \/ Read(t) \/ ReturnFromRead(t)
      BY <2>4, ClaimLockSdInv, ReadSdInv
    <2>5. QED
      BY <1>2, <2>1, <2>2, <2>3, <2>4 DEF ThreadStep
  <1>3. CASE \E t \in Client : CallRead(t)
    BY <1>3, CallReadSdInv
  <1>4. CASE Interrupt
    BY <1>4, InterruptSdInv
  <1>5. CASE CardStep \/ CardFails
    BY <1>5, CardAnswersSdInv, BlockArrivesSdInv, TransferEndsSdInv, CardFailsSdInv DEF CardStep
  <1>6. QED
    BY <1>1, <1>2, <1>3, <1>4, <1>5 DEF Next

(* The hand-shake of the threads, the interrupt handler and the card keeps *)
(* the inductive invariant.                                                *)
THEOREM SdInvariant == Spec => []SdInv
  BY InitSd, NextSd, PTL DEF Spec

(* A thread that has come back from cmdtm looks at the answer to its own   *)
(* command, and every variable has its type.                               *)
THEOREM SdAnswerIsMine == Spec => []AnswerIsMine
  <1>1. SdInv => AnswerIsMine
    BY DEF SdInv
  <1>2. QED
    BY <1>1, SdInvariant, PTL

(* read_4k_pages returns with the blocks in memory, and the bus is set to  *)
(* full speed with the card's configuration read.                          *)
THEOREM SdDataIsThere == Spec => []DataIsThere
  <1>1. SdInv => DataIsThere
    BY DEF SdInv
  <1>2. QED
    BY <1>1, SdInvariant, PTL

(* emmc_interrupt never stops the machine because it has nobody to wake. *)
THEOREM SdAlwaysSomeoneToWake == Spec => []AlwaysSomeoneToWake
  <1>1. SdInv => AlwaysSomeoneToWake
    BY DEF SdInv
  <1>2. QED
    BY <1>1, SdInvariant, PTL

(* CMDTM is written, by a thread or by the handler, only while the command *)
(* and the data lines are free.                                            *)
THEOREM SdOneAtATime == Spec => OneAtATime
  <1>1. ASSUME SdInv, [Next]_vars, CMDTM' # CMDTM, CMDTM' # NULL
        PROVE  ~Inhibited
    <2>1. CASE \E t \in Threads : SendCommand(t)
      <3>1. PICK t \in Threads : SendCommand(t)
        BY <2>1
      <3>2. pc[t] \notin Idles /\ ~Waits(t)
        BY <3>1, ProgramFacts DEF SendCommand, Idles, Waits, Waiting, Commands
      <3>3. QED
        BY <1>1, <3>2, Rests DEF SdInv, Inhibited
    <2>2. CASE Interrupt
      <3>1. "CMD_DONE" \in INTERRUPT /\ current_cmdtm = 55 /\ INTERRUPT # {}
        BY <1>1, <2>2 DEF Interrupt, AppCommandFollows
      <3>2. PICK t \in Threads : Waits(t)
        BY <1>1, <3>1, Waiter
      <3>3. at[t] \in Commands /\ CommandInv(t)
        BY <1>1, <3>2, WaitFacts
      <3>4. Program[at[t]].no # 55
        BY <3>3, ProgramFacts
      <3>5. QED
        BY <3>1, <3>3, <3>4 DEF CommandInv, Inhibited
    <2>3. CASE ~(\E t \in Threads : SendCommand(t)) /\ ~Interrupt
      <3>1. CMDTM' \in {CMDTM, NULL}
        <4>1. CASE UNCHANGED vars
          BY <4>1 DEF vars, device
        <4>2. ASSUME NEW t \in Threads, Identify(t) PROVE CMDTM' = CMDTM
          <5> USE DEF device
          <5>1. CASE PrepareForInterrupts(t) \/ PowerUp(t) \/ ResetHost(t) \/ EnableInterrupts(t)
            BY <5>1 DEF PrepareForInterrupts, PowerUp, ResetHost, EnableInterrupts
          <5>2. CASE \/ SetClockRate(t, "identify_speed", 400, "irpt_mask")
                     \/ SetClockRate(t, "full_speed", 25000, "exposed")
            BY <5>2 DEF SetClockRate
          <5>3. CASE CheckInterfaceCondition(t) \/ CheckOperatingConditions(t)
            BY <5>3 DEF CheckInterfaceCondition, CheckOperatingConditions, Stop
          <5>4. CASE SwitchVoltage(t) \/ CheckAddress(t) \/ CheckLocked(t)
            BY <5>4 DEF SwitchVoltage, CheckAddress, CheckLocked, Stop
          <5>5. QED
            BY <4>2, <5>1, <5>2, <5>3, <5>4 DEF Identify
        <4>3. ASSUME NEW t \in Threads, ThreadStep(t), ~Identify(t), ~SendCommand(t)
              PROVE  CMDTM' = CMDTM
          BY <4>3 DEF ThreadStep, CommandReturns, DataReturns, WaitBlocks, ClaimLock, Read,
             ReturnFromRead, Stop, device
        <4>4. CASE \E t \in Client : CallRead(t)
          BY <4>4 DEF CallRead
        <4>5. CASE CardStep \/ CardFails
          BY <4>5 DEF CardStep, CardAnswers, BlockArrives, TransferEnds, CardFails
        <4>6. QED
          BY <1>1, <2>3, <4>1, <4>2, <4>3, <4>4, <4>5 DEF Next
      <3>2. QED
        BY <1>1, <3>1
    <2>4. QED
      BY <2>1, <2>2, <2>3
  <1>2. SdInv /\ [Next]_vars => [(CMDTM' # CMDTM /\ CMDTM' # NULL) => ~Inhibited]_vars
    BY <1>1
  <1>3. QED
    BY <1>2, SdInvariant, PTL DEF Spec, OneAtATime
=============================================================================
