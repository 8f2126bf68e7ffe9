-------------------------------- MODULE Sd ---------------------------------
(***************************************************************************)
(* The SD card driver of the Pi 3 (drivers/pi3gpu/sd.c): expose_emmc takes *)
(* the card through identification, then read_4k_pages is called by the    *)
(* threads of other drivers, one at a time behind emmc_lock.               *)
(*                                                                         *)
(* Every command is a hand-shake of three parties: the thread writes CMDTM *)
(* and waits at its gate, the card answers, and emmc_interrupt, which runs *)
(* in the interrupt thread with interrupts masked and is one action here,  *)
(* wakes the thread; after CMD55 it sends the application command itself.  *)
(* Three commands have a second event, DATA_DONE, for which the thread     *)
(* waits a second time.  A thread may be preempted between any two steps.  *)
(*                                                                         *)
(* A response is the number of the command it answers, the state the card  *)
(* was in and the bits the driver looks at.  Rates are in kHz.             *)
(***************************************************************************)
EXTENDS Integers

CONSTANTS Initialiser,  \* the thread that runs expose_emmc
          Client,       \* threads that call read_4k_pages
          Rates,        \* what base_clock_rate may return; 0: the request failed
          NULL          \* 0: no thread, no command

(* Why the driver stops the machine: brk instructions and exceptions. *)
Reasons == {"card failed", "no thread to wake", "not SDHC", "1.8V", "not in ident",
            "card is locked", "read only"}

ASSUME SdAssumption ==
    /\ Initialiser \notin Client
    /\ NULL \notin Client \union {Initialiser} \union Nat \union Reasons
    /\ Rates \subseteq Nat

VARIABLES
    pc, at,             \* where each thread is; the command it is busy with
    gate,               \* of each thread: -1 waiting, else wakes saved up
    taken,              \* what the wait in cmdtm returned to each thread
    emmc_lock,
    command_thread, data_thread,
    current_cmdtm, pending_app_cmdtm, pending_app_command_arg, acmd_expected_state,
    response, block_size,
    base_clock_rate_hz,
    brk,                \* why the driver has stopped the machine, or NULL
    irq_enabled,        \* bit of Enable_IRQs_2
    IRPT_MASK, INTERRUPT,
    clock,              \* CLK_EN and the divider of CONTROL1
    CMDTM, ARG1, RESP,  \* CMDTM: the command in progress, or NULL
    transfer,           \* what the data lines are used for
    dma,                \* whose memory the DMA channel fills
    card,               \* the state of the card
    filled              \* the clients whose memory has the blocks they asked for

driver == <<command_thread, data_thread, current_cmdtm, pending_app_cmdtm,
            pending_app_command_arg, acmd_expected_state, block_size>>
device == <<IRPT_MASK, INTERRUPT, CMDTM, ARG1, RESP, transfer, dma, card, filled>>
setup  == <<base_clock_rate_hz, irq_enabled, clock>>
vars == <<pc, at, gate, taken, emmc_lock, driver, response, brk, device, setup>>

Threads == Client \union {Initialiser}

(* The commands in the order in which the driver sends them: their number, *)
(* whether CMD55 goes first, whether DATA_DONE follows, the state that     *)
(* app_command expects, and where the thread goes on.                      *)
Program ==
    [cmd0    |-> [no |-> 0,  app |-> FALSE, data |-> FALSE, state |-> "idle", then |-> "cmd8"],
     cmd8    |-> [no |-> 8,  app |-> FALSE, data |-> FALSE, state |-> "idle", then |-> "check8"],
     inquiry |-> [no |-> 41, app |-> TRUE,  data |-> FALSE, state |-> "idle", then |-> "acmd41"],
     acmd41  |-> [no |-> 41, app |-> TRUE,  data |-> FALSE, state |-> "idle", then |-> "check41"],
     cmd11   |-> [no |-> 11, app |-> FALSE, data |-> FALSE, state |-> "idle", then |-> "check11"],
     cmd2    |-> [no |-> 2,  app |-> FALSE, data |-> FALSE, state |-> "idle", then |-> "cmd3"],
     cmd3    |-> [no |-> 3,  app |-> FALSE, data |-> FALSE, state |-> "idle", then |-> "check3"],
     cmd7    |-> [no |-> 7,  app |-> FALSE, data |-> TRUE,  state |-> "idle", then |-> "check7"],
     acmd6   |-> [no |-> 6,  app |-> TRUE,  data |-> FALSE, state |-> "tran", then |-> "acmd51"],
     acmd51  |-> [no |-> 51, app |-> TRUE,  data |-> TRUE,  state |-> "tran", then |-> "full_speed"],
     cmd18   |-> [no |-> 18, app |-> FALSE, data |-> TRUE,  state |-> "idle", then |-> "return"]]

Init ==
    /\ pc = [t \in Threads |-> IF t = Initialiser THEN "prepare" ELSE "idle"]
    /\ at = [t \in Threads |-> "cmd0"]
    /\ gate = [t \in Threads |-> 0]
    /\ taken = [t \in Threads |-> 0]
    /\ emmc_lock = NULL
    /\ command_thread = NULL /\ data_thread = NULL
    /\ current_cmdtm = 0 /\ pending_app_cmdtm = 0
    /\ pending_app_command_arg = 0 /\ acmd_expected_state = "idle"
    /\ response = [cmd |-> NULL, state |-> "idle", bits |-> {}]
    /\ block_size = 0
    /\ base_clock_rate_hz = 0
    /\ brk = NULL
    /\ irq_enabled = FALSE
    /\ IRPT_MASK = {} /\ INTERRUPT = {}
    /\ clock = [en |-> FALSE, divider |-> 0]
    /\ CMDTM = NULL /\ ARG1 = 0 /\ RESP = response
    /\ transfer = "none" /\ dma = NULL
    /\ card = "idle"
    /\ filled = {}

Step(t, from, to) ==
    /\ brk = NULL
    /\ pc[t] = from
    /\ pc' = [pc EXCEPT ![t] = to]

(* asm( "brk ..." ), or an exception: the kernel stops the machine. *)
Stop(t, from, why) ==
    /\ brk = NULL
    /\ pc[t] = from
    /\ brk' = why
    /\ UNCHANGED <<pc, at, gate, taken, emmc_lock, driver, response, device, setup>>

(* wake_thread *)
MutantWoken(g, t) == [g EXCEPT ![t] = 0]

Woken(g, t) == [g EXCEPT ![t] = @ + 1]

(* sleep_ms: whatever was saved up at the gate, or comes during the sleep, *)
(* ends it early and is gone.                                              *)
Slept(t) == [gate EXCEPT ![t] = 0]

(* STATUS, bits CMD_INHIBIT and DAT_INHIBIT *)
Inhibited == CMDTM # NULL \/ transfer # "none"

-----------------------------------------------------------------------------
(* cmdtm, command and app_command *)

(* The thread that data_thread names when command l is sent. *)
MutantUnset(t, l) == data_thread

DataThread(t, l) == IF Program[l].data THEN t ELSE data_thread

(* Everything up to the write of CMDTM, with what the callers prepare: the *)
(* thread for the data and the room for the 8 bytes of ACMD51.             *)
SendCommand(t) ==
    LET l == pc[t]
        p == Program[l]
        first == IF p.app THEN 55 ELSE p.no
    IN  /\ brk = NULL
        /\ l \in DOMAIN Program
        /\ pc' = [pc EXCEPT ![t] = "cmdtm"]
        /\ at' = [at EXCEPT ![t] = l]
        /\ command_thread' = t
        /\ data_thread' = DataThread(t, l)
        /\ current_cmdtm' = first
        /\ CMDTM' = first
        /\ ARG1' = 0
        /\ IF p.app
             THEN /\ pending_app_cmdtm' = p.no
                  /\ pending_app_command_arg' = IF l = "inquiry" THEN 0 ELSE 1
                  /\ acmd_expected_state' = p.state
             ELSE UNCHANGED <<pending_app_cmdtm, pending_app_command_arg, acmd_expected_state>>
        /\ block_size' = IF l = "acmd51" THEN 8 ELSE block_size
        /\ UNCHANGED <<gate, taken, emmc_lock, response, brk, setup, IRPT_MASK, INTERRUPT,
                       RESP, transfer, dma, card, filled>>

(* wait_until_woken, in cmdtm and for the data *)
WaitBlocks(t, from, blocked) ==
    /\ Step(t, from, blocked)
    /\ gate[t] = 0
    /\ gate' = [gate EXCEPT ![t] = -1]
    /\ UNCHANGED <<at, taken, emmc_lock, driver, response, brk, device, setup>>

WaitReturns(t, from, blocked, to) ==
    \/ /\ Step(t, from, to)
       /\ gate[t] > 0
       /\ gate' = [gate EXCEPT ![t] = 0]
    \/ /\ Step(t, blocked, to)
       /\ gate[t] # -1
       /\ UNCHANGED gate

MutantAfterCommand(t) == Program[at[t]].then

AfterCommand(t) == IF Program[at[t]].data THEN "data" ELSE Program[at[t]].then

CommandReturns(t) ==
    /\ WaitReturns(t, "cmdtm", "cmdtm_blocked", AfterCommand(t))
    /\ taken' = [taken EXCEPT ![t] = IF pc[t] = "cmdtm" THEN gate[t] ELSE 0]
    /\ command_thread' = IF Program[at[t]].app THEN command_thread ELSE NULL
    /\ UNCHANGED <<at, emmc_lock, data_thread, current_cmdtm, pending_app_cmdtm,
                   pending_app_command_arg, acmd_expected_state, block_size, response,
                   brk, device, setup>>

DataReturns(t) ==
    /\ WaitReturns(t, "data", "data_blocked", Program[at[t]].then)
    /\ data_thread' = IF at[t] = "cmd7" THEN NULL ELSE data_thread
    /\ UNCHANGED <<at, taken, emmc_lock, command_thread, current_cmdtm, pending_app_cmdtm,
                   pending_app_command_arg, acmd_expected_state, block_size, response,
                   brk, device, setup>>

-----------------------------------------------------------------------------
(* expose_emmc: the steps before, between and after the commands.          *)

elsewhere == <<at, gate, taken, emmc_lock, driver, response, brk>>

PrepareForInterrupts(t) ==
    /\ Step(t, "prepare", "power_up")
    /\ irq_enabled' = TRUE
    /\ UNCHANGED <<base_clock_rate_hz, clock, device, elsewhere>>

(* power_state: off, also if the request failed; on; two kinds of absent. *)
PowerStates == 0 .. 3

(* power_up: a device that is off is switched on and has to be on then. *)
PowerUp(t) ==
    /\ \E before, after \in PowerStates, accepted \in BOOLEAN :
         LET on == before # 0 \/ (accepted /\ after = 1)
         IN  Step(t, "power_up", IF on THEN "reset" ELSE "gave_up")
    /\ UNCHANGED <<device, setup, elsewhere>>

ResetHost(t) ==
    /\ Step(t, "reset", "identify_speed")
    /\ clock' = [clock EXCEPT !.en = FALSE]
    /\ UNCHANGED <<base_clock_rate_hz, irq_enabled, device, at, taken, emmc_lock, driver,
                   response, brk>>
    /\ gate' = Slept(t)

Divider(base, target) == (base + target - 1) \div target

Impossible(divider) == divider = 0 \/ divider > 1023

Running(divider) == [en |-> TRUE, divider |-> divider]

(* base_clock_rate: the answer of the GPU, asked for until there is one. *)
BaseRate == IF base_clock_rate_hz = 0 THEN Rates ELSE {base_clock_rate_hz}

(* set_clock_rate *)
SetClockRate(t, from, target, to) ==
    \E base \in BaseRate :
        LET divider == Divider(base, target)
            fails   == Impossible(divider)
        IN  /\ Step(t, from, IF fails THEN "gave_up" ELSE to)
            /\ fails \/ ~Inhibited
            /\ base_clock_rate_hz' = base
            /\ clock' = IF fails THEN clock ELSE Running(divider)
            /\ gate' = IF fails THEN gate ELSE Slept(t)
            /\ UNCHANGED <<irq_enabled, device, at, taken, emmc_lock, driver, response, brk>>

(* The interrupts are enabled, and the clock and the card have settled. *)
EnableInterrupts(t) ==
    /\ Step(t, "irpt_mask", "cmd0")
    /\ ~Inhibited
    /\ IRPT_MASK' = {"CMD_DONE", "DATA_DONE", "READ_RDY", "ERROR"}
    /\ gate' = Slept(t)
    /\ UNCHANGED <<at, taken, emmc_lock, driver, response, brk, setup, INTERRUPT, CMDTM,
                   ARG1, RESP, transfer, dma, card, filled>>

CheckInterfaceCondition(t) ==
    /\ Step(t, "check8", IF "echo" \in response.bits THEN "inquiry" ELSE "gave_up")
    /\ UNCHANGED <<device, setup, elsewhere>>

(* After ACMD41: again while the card powers up; cards of the old kind are *)
(* not supported; the voltage is switched if the card offers that.         *)
CheckOperatingConditions(t) ==
    IF "busy" \in response.bits /\ "sdhc" \notin response.bits
      THEN Stop(t, "check41", "not SDHC")
      ELSE /\ Step(t, "check41", IF "busy" \notin response.bits THEN "acmd41"
                                 ELSE IF "s18" \in response.bits THEN "cmd11" ELSE "cmd2")
           /\ gate' = IF "busy" \in response.bits THEN gate ELSE Slept(t)
           /\ UNCHANGED <<at, taken, emmc_lock, driver, response, brk, device, setup>>

(* switch_to_1v8_signalling, once the card has accepted: STATUS is read    *)
(* once, and the DAT lines in it must be both low and high.                *)
SwitchVoltage(t) ==
    /\ brk = NULL
    /\ pc[t] = "check11"
    /\ clock' = [clock EXCEPT !.en = FALSE]
    /\ gate' = Slept(t)
    /\ \E dat \in {0, 5, 15} :
         IF dat = 0 /\ dat = 15
           THEN pc' = [pc EXCEPT ![t] = "cmd2"] /\ UNCHANGED brk
           ELSE brk' = "1.8V" /\ UNCHANGED pc
    /\ UNCHANGED <<base_clock_rate_hz, irq_enabled, device, at, taken, emmc_lock, driver,
                   response>>

(* After CMD3: a zero address is asked for again. *)
CheckAddress(t) ==
    IF response.state # "ident"
      THEN Stop(t, "check3", "not in ident")
      ELSE /\ Step(t, "check3", IF "rca" \in response.bits THEN "cmd7" ELSE "cmd3")
           /\ UNCHANGED <<device, setup, elsewhere>>

CheckLocked(t) ==
    IF "locked" \in response.bits
      THEN Stop(t, "check7", "card is locked")
      ELSE Step(t, "check7", "acmd6") /\ UNCHANGED <<device, setup, elsewhere>>

Identify(t) ==
    \/ PrepareForInterrupts(t) \/ PowerUp(t) \/ ResetHost(t)
    \/ SetClockRate(t, "identify_speed", 400, "irpt_mask") \/ EnableInterrupts(t)
    \/ CheckInterfaceCondition(t) \/ CheckOperatingConditions(t) \/ SwitchVoltage(t)
    \/ CheckAddress(t) \/ CheckLocked(t)
    \/ SetClockRate(t, "full_speed", 25000, "exposed")

-----------------------------------------------------------------------------
(* read_4k_pages.  The service is there once expose_emmc has registered    *)
(* it; the provider claims emmc_lock before and releases it after the call.*)

MutantLockIsFree == TRUE

LockIsFree == emmc_lock = NULL

CallRead(t) ==
    /\ pc[Initialiser] = "exposed"
    /\ Step(t, "idle", "claim")
    /\ filled' = filled \ {t}
    /\ UNCHANGED <<IRPT_MASK, INTERRUPT, CMDTM, ARG1, RESP, transfer, dma, card, setup,
                   elsewhere>>

ClaimLock(t) ==
    /\ LockIsFree
    /\ Step(t, "claim", "read")
    /\ emmc_lock' = t
    /\ UNCHANGED <<at, gate, taken, driver, response, brk, device, setup>>

(* From here on the DMA channel takes the data, and no longer the          *)
(* interrupt handler.  Memory that cannot be written ends in an exception. *)
Read(t) ==
    \/ /\ Step(t, "read", "cmd18")
       /\ data_thread' = t
       /\ IRPT_MASK' = IRPT_MASK \ {"READ_RDY"}
       /\ dma' = t
       /\ UNCHANGED <<at, gate, taken, emmc_lock, command_thread, current_cmdtm,
                      pending_app_cmdtm, pending_app_command_arg, acmd_expected_state,
                      block_size, response, brk, setup, INTERRUPT, CMDTM, ARG1, RESP,
                      transfer, card, filled>>
    \/ Stop(t, "read", "read only")

ReturnFromRead(t) ==
    /\ Step(t, "return", "idle")
    /\ emmc_lock' = NULL
    /\ UNCHANGED <<at, gate, taken, driver, response, brk, device, setup>>

-----------------------------------------------------------------------------
(* emmc_interrupt *)

(* Command complete: the application command after CMD55, or a wake. *)
MutantAppCommandFollows == FALSE

AppCommandFollows == current_cmdtm = 55

(* What the handler does not accept, and events that nobody waits for. *)
Refused ==
    \/ "ERROR" \in INTERRUPT
    \/ "CMD_DONE" \in INTERRUPT /\ AppCommandFollows
         /\ (RESP.state # acmd_expected_state \/ pending_app_cmdtm = 0)

Unclaimed ==
    \/ "CMD_DONE" \in INTERRUPT /\ ~AppCommandFollows /\ command_thread = NULL
    \/ "DATA_DONE" \in INTERRUPT /\ data_thread = NULL

(* The dispatcher of the GPU's interrupts calls emmc_interrupt. *)
Dispatched == irq_enabled /\ INTERRUPT # {}

Interrupt ==
    LET done == "CMD_DONE" \in INTERRUPT
        data == "DATA_DONE" \in INTERRUPT
        app  == done /\ AppCommandFollows
        g1   == IF done /\ ~app THEN Woken(gate, command_thread) ELSE gate
    IN  /\ brk = NULL
        /\ Dispatched
        /\ IF Refused \/ Unclaimed
             THEN /\ brk' = IF Refused THEN "card failed" ELSE "no thread to wake"
                  /\ UNCHANGED <<gate, response, INTERRUPT, current_cmdtm, pending_app_cmdtm,
                                 ARG1, CMDTM, block_size>>
             ELSE /\ INTERRUPT' = {}
                  /\ response' = IF done THEN RESP ELSE response
                  /\ IF app
                       THEN /\ current_cmdtm' = pending_app_cmdtm
                            /\ CMDTM' = pending_app_cmdtm
                            /\ ARG1' = pending_app_command_arg
                            /\ pending_app_cmdtm' = 0
                       ELSE UNCHANGED <<current_cmdtm, CMDTM, ARG1, pending_app_cmdtm>>
                  /\ gate' = IF data THEN Woken(g1, data_thread) ELSE g1
                  /\ block_size' = IF "READ_RDY" \in INTERRUPT THEN 0 ELSE block_size
                  /\ UNCHANGED brk
        /\ UNCHANGED <<pc, at, taken, emmc_lock, command_thread, data_thread,
                       pending_app_command_arg, acmd_expected_state, IRPT_MASK, RESP,
                       transfer, dma, card, filled, setup>>

-----------------------------------------------------------------------------
(* The controller and the card, as sd.c and the protocol it follows use    *)
(* them.                                                                   *)

deviceOnly == <<pc, at, gate, taken, emmc_lock, driver, response, brk, setup,
                IRPT_MASK, ARG1, dma>>

(* The state in which a command leaves the card; ACMD41 with a voltage     *)
(* makes it ready as soon as it reports that it has powered up.            *)
StateAfter(bits) ==
    CASE CMDTM = 0 -> "idle"
      [] CMDTM = 41 /\ ARG1 # 0 /\ "busy" \in bits -> "ready"
      [] CMDTM = 2 -> "ident"
      [] CMDTM = 3 -> "stby"
      [] CMDTM = 7 -> "tran"
      [] OTHER -> card

AnswerBits ==
    CASE CMDTM = 8 -> SUBSET {"echo"}
      [] CMDTM = 41 /\ ARG1 # 0 -> SUBSET {"busy", "sdhc", "s18"}
      [] CMDTM = 3 -> SUBSET {"rca"}
      [] CMDTM = 7 -> SUBSET {"locked"}
      [] OTHER -> {{}}

Raise(i) == INTERRUPT' = INTERRUPT \union ({i} \intersect IRPT_MASK)

CardAnswers ==
    /\ brk = NULL
    /\ CMDTM # NULL
    /\ \E bits \in AnswerBits :
         /\ RESP' = [cmd |-> CMDTM, state |-> card, bits |-> bits]
         /\ card' = StateAfter(bits)
    /\ transfer' = CASE CMDTM = 7  -> "busy"
                     [] CMDTM = 51 -> "block"
                     [] CMDTM = 18 -> "dma"
                     [] OTHER      -> transfer
    /\ CMDTM' = NULL
    /\ Raise("CMD_DONE")
    /\ UNCHANGED <<filled, deviceOnly>>

(* No answer, or one with a wrong checksum. *)
CardFails ==
    /\ brk = NULL
    /\ CMDTM # NULL
    /\ CMDTM' = NULL
    /\ Raise("ERROR")
    /\ UNCHANGED <<RESP, transfer, card, filled, deviceOnly>>

BlockArrives ==
    /\ brk = NULL
    /\ transfer = "block"
    /\ transfer' = "fifo"
    /\ Raise("READ_RDY")
    /\ UNCHANGED <<CMDTM, RESP, card, filled, deviceOnly>>

(* The card is no longer busy, the FIFO is empty, or the DMA channel has   *)
(* written the last block.                                                 *)
TransferEnds ==
    /\ brk = NULL
    /\ \/ transfer = "busy" /\ UNCHANGED filled
       \/ transfer = "fifo" /\ block_size = 0 /\ UNCHANGED filled
       \/ transfer = "dma" /\ filled' = filled \union {dma}
    /\ transfer' = "none"
    /\ Raise("DATA_DONE")
    /\ UNCHANGED <<CMDTM, RESP, card, deviceOnly>>

-----------------------------------------------------------------------------
ThreadStep(t) ==
    \/ SendCommand(t) \/ CommandReturns(t) \/ DataReturns(t)
    \/ WaitBlocks(t, "cmdtm", "cmdtm_blocked") \/ WaitBlocks(t, "data", "data_blocked")
    \/ Identify(t) \/ ClaimLock(t) \/ Read(t) \/ ReturnFromRead(t)

CardStep == CardAnswers \/ BlockArrives \/ TransferEnds

Next ==
    \/ \E t \in Threads : ThreadStep(t)
    \/ \E t \in Client : CallRead(t)
    \/ Interrupt
    \/ CardStep \/ CardFails

Spec == Init /\ [][Next]_vars

(* No thread is preempted for ever, a card that was asked answers or fails,*)
(* and an interrupt that is enabled and pending is served.                 *)
Fairness ==
    /\ \A t \in Threads : WF_vars(ThreadStep(t))
    /\ WF_vars(CardStep) /\ WF_vars(Interrupt)

FairSpec == Spec /\ Fairness

-----------------------------------------------------------------------------
(* Every variable has the type its C declaration gives it, and no more     *)
(* wakes are saved up at a gate than a command has events.                 *)
Bits == {"echo", "busy", "sdhc", "s18", "rca", "locked"}
States == {"idle", "ready", "ident", "stby", "tran"}
Responses == [cmd : {p.no : p \in {Program[l] : l \in DOMAIN Program}} \union {55, NULL},
              state : States, bits : SUBSET Bits]
Clocks == [en : BOOLEAN, divider : 0 .. 1023]

TypeOK ==
    /\ DOMAIN pc = Threads
    /\ at \in [Threads -> DOMAIN Program]
    /\ gate \in [Threads -> -1 .. 2] /\ taken \in [Threads -> 0 .. 2]
    /\ {emmc_lock, command_thread, data_thread, dma} \subseteq Threads \union {NULL}
    /\ response \in Responses /\ RESP \in Responses
    /\ block_size \in {0, 8}
    /\ clock \in Clocks
    /\ base_clock_rate_hz \in Rates \union {0}
    /\ INTERRUPT \subseteq IRPT_MASK
    /\ IRPT_MASK \subseteq {"CMD_DONE", "DATA_DONE", "READ_RDY", "ERROR"}
    /\ transfer \in {"none", "busy", "block", "fifo", "dma"}
    /\ card \in States /\ filled \subseteq Client
    /\ brk \in Reasons \union {NULL}

(* A thread that has come back from a command looks at the answer to that  *)
(* command, not at the one to an earlier command, to CMD55, or to another  *)
(* thread's: response is shared by all, and a wake says nothing of its     *)
(* cause (cmdtm, emmc_interrupt).  Every variable has its type.            *)
AnswerIsMine ==
    TypeOK /\ \A t \in Threads :
        (brk = NULL /\ pc[t] \in {"data", "data_blocked", Program[at[t]].then})
        => response.cmd = Program[at[t]].no

(* When the wait for the data is over, the data is there: the memory of a  *)
(* client is filled when read_4k_pages returns, and the configuration of   *)
(* the card has been read when its bus is set to full speed.               *)
DataIsThere ==
    \A t \in Threads : /\ pc[t] = "return" => t \in filled
                       /\ pc[t] = "full_speed" => block_size = 0

(* The interrupt handler always finds the thread that an event is for; the *)
(* machine is stopped only for what the card answers or a caller asks.     *)
AlwaysSomeoneToWake == brk # "no thread to wake"

(* Nothing is written to CMDTM while the controller is busy with a command *)
(* or with data: the driver never looks at STATUS between commands and     *)
(* relies on its waits and on emmc_lock.                                   *)
OneAtATime ==
    [][(CMDTM' # CMDTM /\ CMDTM' # NULL) => ~Inhibited]_vars

(* Every wait ends, unless both wakes of a command came before its first   *)
(* wait, which took them together (read_4k_pages, identify_device).        *)
WaitsEnd ==
    \A t \in Threads :
        (pc[t] \in {"cmdtm", "cmdtm_blocked", "data", "data_blocked"})
        ~> (pc[t] \notin {"cmdtm", "cmdtm_blocked", "data", "data_blocked"}
            \/ taken[t] > 1 \/ brk # NULL)
=============================================================================
