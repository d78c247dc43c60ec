----------------------------- MODULE RadioDriver -----------------------------
(***************************************************************************)
(* The nRF24L01 as mesh_radio.c drives it: doRead and sendRadioData in the  *)
(* main loop, the ping of timer_handler that SIGALRM starts between any two *)
(* SPI transactions of the main loop or within one, interruptHandler in the *)
(* thread of wiringPi, and the chip itself with its registers and FIFOs.    *)
(***************************************************************************)
EXTENDS Integers, Sequences

CONSTANTS
  Frames,   \* the frames in the air, each named by its length
  RX_FIFO   \* frames the chip holds, 3 on the nRF24L01

Junk == 0    \* what an empty FIFO gives

ASSUME RadioAssumption == Frames \subseteq Nat \ {Junk} /\ RX_FIFO \in Nat \ {0}

VARIABLES
  \* the program
  pc,         \* where the main loop and timer_handler are
  back,       \* where sendRadioData returns to
  register,   \* the local copies of CONFIG in nrfStartWrite, nrfStartListening
  length,     \* packetLength
  got,        \* received_packet and its length, as doRead handles them
  isNewData,
  disturbed,  \* history: the last ping found the main loop amid a round
  split,      \* history: a ping has started within a transaction on CONFIG
  \* the chip
  CE,         \* the pin that lets it receive or send
  config, status, rxFifo, txFifo,
  onAir,      \* whether it is sending the first frame of txFifo
  edge        \* the IRQ line fell and interruptHandler has not run yet

program == <<pc, back, register, length, got, isNewData, disturbed, split>>
chip == <<CE, config, status, rxFifo, txFifo, onAir, edge>>
vars == <<pc, back, register, length, got, isNewData, disturbed, split,
          CE, config, status, rxFifo, txFifo, onAir, edge>>

Threads == {"main", "timer"}

Nothing == [frame |-> Junk, length |-> Junk]

\* The bits of CONFIG that the code reads, writes or depends on.
Config == [masked : BOOLEAN, crc16 : BOOLEAN, powered : BOOLEAN, receiver : BOOLEAN]

\* radioInit leaves both interrupts unmasked, 16 bits of CRC and power on.
Ready == [masked |-> FALSE, crc16 |-> TRUE, powered |-> TRUE, receiver |-> TRUE]

\* The command byte of nrfFlushRx, 0xE2, taken for the value of CONFIG.
FLUSH_RX == [masked |-> TRUE, crc16 |-> FALSE, powered |-> TRUE, receiver |-> FALSE]

-----------------------------------------------------------------------------
\* A send is nrfStopListening, nrfWrite and nrfStartListening, one transaction
\* after another.
StopListeningKept == <<"stop", "stopRx">>    \* slip: nrfFlushTx is left out
StopListening == <<"stop", "stopRx", "stopTx">>
StartWrite == <<"readTx", "toTx", "payload", "ceOn", "ceOff">>
WaitForAck == <<"wait", "ackRx", "ackTx", "ackClear">>
StartListening == <<"readRx", "toRx", "clear", "startRx", "startTx", "listen">>
Send == StopListening \o StartWrite \o WaitForAck \o StartListening

MainSteps ==
  {"idle", "what", "size", "read", "handle", "reset"}
    \cup {Send[k] : k \in DOMAIN Send}

Then(s) == LET k == CHOOSE k \in DOMAIN Send : Send[k] = s IN Send[k + 1]

\* timer_handler runs to its end before the main loop goes on.
At(t, s) == pc[t] = s /\ (t = "main" => pc["timer"] = "idle")

Advance(t) ==
  pc' = [pc EXCEPT ![t] = IF @ # "listen" THEN Then(@)
                          ELSE IF t = "main" THEN back ELSE "idle"]

\* The IRQ line is low while a status bit is set that is not masked.
Asserted(c, s) == s # {} /\ ~ c.masked

Write(c, s) ==
  /\ config' = c /\ status' = s
  /\ edge' = (edge \/ (Asserted(c, s) /\ ~ Asserted(config, status)))

Listening == CE /\ config.receiver /\ config.powered
Sending == config.powered /\ ~ config.receiver
Hearing == Listening /\ config.crc16 /\ ~ config.masked

-----------------------------------------------------------------------------
\* The transactions of a send, by thread t.

StepCE(t) ==
  /\ \/ At(t, "stop") /\ CE' = FALSE /\ UNCHANGED onAir
     \/ At(t, "ceOn") /\ CE' = TRUE
        /\ onAir' = (onAir \/ (Sending /\ txFifo # <<>>))
     \/ At(t, "ceOff") /\ CE' = FALSE /\ UNCHANGED onAir
     \/ At(t, "listen") /\ CE' = TRUE /\ UNCHANGED onAir
  /\ Advance(t)
  /\ UNCHANGED <<back, register, length, got, isNewData, disturbed, split,
                 config, status, rxFifo, txFifo, edge>>

FlushRx(t) ==
  /\ At(t, "stopRx") \/ At(t, "ackRx") \/ At(t, "startRx")
  /\ rxFifo' = <<>>
  /\ Advance(t)
  /\ UNCHANGED <<back, register, length, got, isNewData, disturbed, split,
                 CE, config, status, txFifo, onAir, edge>>

FlushTx(t) ==
  /\ At(t, "stopTx") \/ At(t, "ackTx") \/ At(t, "startTx")
  /\ txFifo' = <<>> /\ onAir' = FALSE
  /\ Advance(t)
  /\ UNCHANGED <<back, register, length, got, isNewData, disturbed, split,
                 CE, config, status, rxFifo, edge>>

ReadConfig(t) ==
  /\ At(t, "readTx") \/ At(t, "readRx")
  /\ register' = [register EXCEPT ![t] = config]
  /\ Advance(t)
  /\ UNCHANGED <<back, length, got, isNewData, disturbed, split, chip>>

\* Both directions switch the power on when the copy says it is off.
DirectedKept(c, s) ==    \* slip: & for |, the receiver is never switched on again
  [c EXCEPT !.powered = TRUE, !.receiver = @ /\ s = "toRx"]
DirectedBoth(c, s) ==    \* slip: the bit is not taken out for a send
  [c EXCEPT !.powered = TRUE, !.receiver = @ \/ s = "toRx"]
Directed(c, s) == [c EXCEPT !.powered = TRUE, !.receiver = (s = "toRx")]

\* Locals that are read no more go back to their first value.
WriteConfig(t) ==
  /\ At(t, "toTx") \/ At(t, "toRx")
  /\ Write(Directed(register[t], pc[t]), status)
  /\ register' = [register EXCEPT ![t] = Ready]
  /\ Advance(t)
  /\ UNCHANGED <<back, length, got, isNewData, disturbed, split,
                 CE, rxFifo, txFifo, onAir>>

\* A frame in the air is named by the thread that sends it. The chip starts at
\* once when a ping has left CE high.
WritePayload(t) ==
  /\ At(t, "payload")
  /\ txFifo' = Append(txFifo, t)
  /\ onAir' = (onAir \/ (CE /\ Sending))
  /\ Advance(t)
  /\ UNCHANGED <<back, register, length, got, isNewData, disturbed, split,
                 CE, config, status, rxFifo, edge>>

\* nrfWaitForAck gives up after a while; a signal makes its sleep shorter.
Wait(t) ==
  /\ At(t, "wait")
  /\ Advance(t)
  /\ UNCHANGED <<back, register, length, got, isNewData, disturbed, split, chip>>

ClearedSent(s) == s \ {"sent"}    \* slip: only TX_DS is written
Cleared(s) == {}

ClearStatus(t) ==
  /\ At(t, "ackClear") \/ At(t, "clear")
  /\ Write(config, Cleared(status))
  /\ Advance(t)
  /\ UNCHANGED <<back, register, length, got, isNewData, disturbed, split,
                 CE, rxFifo, txFifo, onAir>>

SendStep(t) ==
  \/ StepCE(t) \/ FlushRx(t) \/ FlushTx(t) \/ ReadConfig(t) \/ WriteConfig(t)
  \/ WritePayload(t) \/ Wait(t) \/ ClearStatus(t)

-----------------------------------------------------------------------------
\* The main loop.

Goto(s) == pc' = [pc EXCEPT !["main"] = s]

DoRead ==
  /\ At("main", "idle") /\ isNewData
  /\ Goto("what")
  /\ UNCHANGED <<back, register, length, got, isNewData, disturbed, split, chip>>

\* terminal.c identifies a sensor.
SendData ==
  /\ At("main", "idle")
  /\ Goto("stop") /\ back' = "idle"
  /\ UNCHANGED <<register, length, got, isNewData, disturbed, split, chip>>

HasFrameAlways(s) == TRUE    \* slip: rxDr is not looked at
HasFrame(s) == "received" \in s

WhatHappened ==
  /\ At("main", "what")
  /\ Goto(IF HasFrame(status) THEN "size" ELSE "reset")
  /\ Write(config, Cleared(status))
  /\ UNCHANGED <<back, register, length, got, isNewData, disturbed, split,
                 CE, rxFifo, txFifo, onAir>>

GetDynamicPayloadSize ==
  /\ At("main", "size")
  /\ Goto("read")
  /\ length' = IF rxFifo = <<>> THEN Junk ELSE Head(rxFifo)
  /\ UNCHANGED <<back, register, got, isNewData, disturbed, split, chip>>

Read ==
  /\ At("main", "read")
  /\ Goto("handle")
  /\ got' = [frame |-> IF rxFifo = <<>> THEN Junk ELSE Head(rxFifo), length |-> length]
  /\ length' = Junk
  /\ rxFifo' = IF rxFifo = <<>> THEN rxFifo ELSE Tail(rxFifo)
  /\ UNCHANGED <<back, register, isNewData, disturbed, split,
                 CE, config, status, txFifo, onAir, edge>>

\* A sender that is not trusted ends doRead with isNewData still set; a ping
\* is stored; data for another node is forwarded.
Handle ==
  /\ At("main", "handle")
  /\ \/ Goto("idle") /\ UNCHANGED back
     \/ Goto("reset") /\ UNCHANGED back
     \/ Goto("stop") /\ back' = "reset"
  /\ got' = Nothing
  /\ UNCHANGED <<register, length, isNewData, disturbed, split, chip>>

Reset ==
  /\ At("main", "reset")
  /\ Goto("idle") /\ isNewData' = FALSE
  /\ UNCHANGED <<back, register, length, got, disturbed, split, chip>>

MainLoop ==
  \/ DoRead \/ SendData \/ WhatHappened \/ GetDynamicPayloadSize \/ Read
  \/ Handle \/ Reset

-----------------------------------------------------------------------------
\* SIGALRM.

TimerFires ==
  /\ pc["timer"] = "idle"
  /\ pc' = [pc EXCEPT !["timer"] = "stop"]
  /\ disturbed' = (pc["main"] # "idle")
  /\ UNCHANGED <<back, register, length, got, isNewData, split, chip>>

\* SIGALRM within an SPI transaction of the main loop: the chip is still selected,
\* so it takes the command of the ping's nrfFlushRx for the byte that comes next,
\* and is no longer selected when the main loop goes on.
Transactions ==
  {"what", "size", "read"}
    \cup ({Send[k] : k \in DOMAIN Send} \ {"stop", "ceOn", "ceOff", "listen"})

OnConfig == {"readTx", "toTx", "readRx", "toRx"}

After(s) == CASE s = "size" -> "read" [] s = "read" -> "handle" [] OTHER -> Then(s)

\* What the main loop reads then may be anything; a frame is not a whole one.
Misread ==
  /\ \E c \in Config :
       /\ pc["main"] \in {"toTx", "toRx"} => c = Ready
       /\ pc["main"] \notin OnConfig => c = register["main"]
       /\ register' = [register EXCEPT !["main"] = c]
  /\ \/ pc["main"] = "size" /\ length' \in Frames \cup {Junk} /\ UNCHANGED got
     \/ pc["main"] = "read" /\ length' = Junk /\ got' = [frame |-> Junk, length |-> length]
     \/ pc["main"] \notin {"size", "read"} /\ UNCHANGED <<length, got>>

\* Before the command byte: the chip flushes, and hears nothing of the main loop.
SplitBefore(n) ==
  /\ pc["main"] \in Transactions
  /\ n \in IF pc["main"] = "what" THEN {"size", "reset"} ELSE {After(pc["main"])}
  /\ rxFifo' = <<>>
  /\ Misread
  /\ UNCHANGED <<config, status, edge, txFifo, onAir>>

\* Between two bytes: 0xE2 is data, which clears the status as the right value
\* would. Of a frame a part is written, or read.
SplitAmid(n) ==
  /\ Misread
  /\ \/ /\ pc["main"] \in {"toTx", "toRx"} /\ n = Then(pc["main"])
        /\ Write(FLUSH_RX, status) /\ UNCHANGED <<rxFifo, txFifo, onAir>>
     \/ /\ pc["main"] \in {"readTx", "readRx", "size"} /\ n = After(pc["main"])
        /\ UNCHANGED <<config, status, edge, rxFifo, txFifo, onAir>>
     \/ /\ pc["main"] = "payload" /\ n = "ceOn"
        /\ txFifo' = Append(txFifo, "main")
        /\ UNCHANGED <<config, status, edge, rxFifo, onAir>>
     \/ /\ pc["main"] = "what" /\ n = (IF HasFrame(status) THEN "size" ELSE "reset")
        /\ Write(config, Cleared(status)) /\ UNCHANGED <<rxFifo, txFifo, onAir>>
     \/ /\ pc["main"] = "read" /\ n = "handle"
        /\ rxFifo' = rxFifo \/ (rxFifo # <<>> /\ rxFifo' = Tail(rxFifo))
        /\ UNCHANGED <<config, status, edge, txFifo, onAir>>

\* After the last byte: the transaction is over for the chip, which ignores 0xE2.
SplitAfter(n) ==
  /\ n = pc["main"]
  /\ n \in {After(s) : s \in Transactions \ {"what", "payload"}}
  /\ UNCHANGED <<register, length, got, config, status, edge, rxFifo, txFifo, onAir>>

TimerSplits ==
  /\ pc["timer"] = "idle"
  /\ \E n \in MainSteps :
       /\ SplitBefore(n) \/ SplitAmid(n) \/ SplitAfter(n)
       /\ pc' = [main |-> n, timer |-> Then("stopRx")]
       /\ split' = (split \/ (pc["main"] \in OnConfig /\ n # pc["main"]))
  /\ CE' = FALSE
  /\ disturbed' = TRUE
  /\ UNCHANGED <<back, isNewData>>

InterruptHandler ==
  /\ edge /\ edge' = FALSE /\ isNewData' = TRUE
  /\ UNCHANGED <<pc, back, register, length, got, disturbed, split,
                 CE, config, status, rxFifo, txFifo, onAir>>

-----------------------------------------------------------------------------
\* The chip.

Receive(f) ==
  /\ Listening /\ config.crc16 /\ Len(rxFifo) < RX_FIFO
  /\ rxFifo' = Append(rxFifo, f)
  /\ Write(config, status \cup {"received"})
  /\ UNCHANGED <<program, CE, txFifo, onAir>>

\* Without acknowledgement every frame counts as sent.
Sent ==
  /\ onAir /\ onAir' = FALSE
  /\ txFifo' = Tail(txFifo)
  /\ Write(config, status \cup {"sent"})
  /\ UNCHANGED <<program, CE, rxFifo>>

-----------------------------------------------------------------------------
Init ==
  /\ pc = [t \in Threads |-> "idle"] /\ back = "idle"
  /\ register = [t \in Threads |-> Ready]
  /\ length = Junk /\ got = Nothing
  /\ isNewData = FALSE /\ disturbed = FALSE /\ split = FALSE
  /\ CE = TRUE /\ config = Ready /\ status = {}
  /\ rxFifo = <<>> /\ txFifo = <<>> /\ onAir = FALSE /\ edge = FALSE

Next ==
  \/ MainLoop
  \/ \E t \in Threads : SendStep(t)
  \/ TimerFires \/ TimerSplits \/ InterruptHandler
  \/ \E f \in Frames : Receive(f)
  \/ Sent

Spec == Init /\ [][Next]_vars

\* The interval timer keeps firing and its handler gets the processor before
\* the main loop does; nothing is assumed of the main loop.
FairSpec == Spec /\ WF_vars(TimerFires) /\ WF_vars(SendStep("timer"))

-----------------------------------------------------------------------------
TypeOK ==
  /\ pc \in [Threads -> MainSteps] /\ pc["timer"] \in {"idle"} \cup {Send[k] : k \in DOMAIN Send}
  /\ back \in {"idle", "reset"}
  /\ register \in [Threads -> Config]
  /\ length \in Frames \cup {Junk}
  /\ got \in [frame : Frames \cup {Junk}, length : Frames \cup {Junk}]
  /\ isNewData \in BOOLEAN /\ disturbed \in BOOLEAN /\ split \in BOOLEAN
  /\ edge \in BOOLEAN /\ CE \in BOOLEAN /\ onAir \in BOOLEAN
  /\ config \in Config /\ status \subseteq {"received", "sent"}
  /\ rxFifo \in Seq(Frames) /\ Len(rxFifo) <= RX_FIFO
  /\ txFifo \in Seq(Threads) /\ Len(txFifo) <= 1

InSend(s) == \E k \in DOMAIN Send : Send[k] = s

\* Whatever the main loop and the timer did to each other's sends, the chip of
\* a node that is not sending is on, enabled and a receiver, and as long as no
\* signal landed within a transaction on CONFIG it checks the CRC of the others
\* and reports what arrives (nrfStopListening, nrfStartWrite, nrfStartListening).
Hears ==
  pc["timer"] = "idle" /\ ~ InSend(pc["main"]) => Listening /\ (split \/ Hearing)

\* The ping that the timer sends goes out alone: when its pulse on CE comes the
\* chip is a sender in standby and holds this frame and no other, although the
\* main loop may have been interrupted with a frame of its own in the FIFO
\* (nrfFlushTx in nrfStopListening, nrfStartWrite).
PingAlone ==
  pc["timer"] = "ceOn" => ~ CE /\ Sending /\ txFifo = <<"timer">>

\* What doRead hands on is one frame as it arrived, with its own length, unless
\* a ping got in between two transactions of a round; the next ping that finds
\* the main loop between rounds puts that right (nrfGetDynamicPayloadSize and
\* nrfRead are two transactions, nrfWaitForAck flushes between them).
WholeFrames ==
  pc["main"] = "handle" /\ pc["timer"] = "idle" /\ ~ disturbed =>
    got.frame # Junk /\ got.length = got.frame

\* An interrupt that is lost because isNewData is reset after the status was
\* read leaves the IRQ line low, and it cannot fall again: the timer's ping
\* releases it, whatever the main loop does (doRead, nrfWaitForAck).
LineReleased == []<> ~ Asserted(config, status)

\* A node keeps coming back to hearing the others, even one whose main loop is
\* stuck in the middle of a send: the ping of the timer ends with the receiver on
\* (nrf24L01.c:398 "Start listening on the pipes opened for reading."). A signal
\* within a transaction on CONFIG can end that for good.
KeepsHearing == [](~ split) => []<>Hearing
=============================================================================
