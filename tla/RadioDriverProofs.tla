------------------------- MODULE RadioDriverProofs -------------------------
(***************************************************************************)
(* That the ping of the timer leaves the chip a receiver and goes out alone, *)
(* and that doRead handles whole frames unless a ping got between, whatever *)
(* frames arrive and however many of them the chip holds.                   *)
(***************************************************************************)
EXTENDS RadioDriver, SequenceTheorems, TLAPS

\* Steps of a send: the receiver is off; the chip is a sender; it is a receiver
\* again; the status is cleared.
Low == {"stopRx", "stopTx", "readTx", "toTx", "payload", "ceOn", "wait", "ackRx",
        "ackTx", "ackClear", "readRx", "toRx", "clear", "startRx", "startTx", "listen"}
AsSender == {"payload", "ceOn", "ceOff", "wait", "ackRx", "ackTx", "ackClear",
             "readRx", "toRx"}
AsReceiver == {"clear", "startRx", "startTx", "listen"}
Fresh == {"startRx", "startTx", "listen"}

\* Steps at which a frame waits in the chip or is on its way.
Filled == {"ceOn", "ceOff", "wait", "ackRx", "ackTx"}

Reading == {"what", "size", "read", "handle", "reset"}

\* The frame in the TX FIFO belongs to the timer, or to a main loop that the
\* timer interrupted and has not flushed yet.
TxInv ==
  /\ onAir => txFifo # <<>>
  /\ txFifo # <<>> =>
       \/ pc["timer"] \in Filled /\ txFifo = <<"timer">>
       \/ /\ pc["timer"] \in {"idle", "stop", "stopRx"}
          /\ pc["main"] \in Filled /\ txFifo = <<"main">>
       \/ pc["timer"] = "stopTx" /\ txFifo = <<"main">>
  /\ pc["timer"] = "ceOn" => txFifo = <<"timer">> /\ ~ onAir

\* The direction of the chip, by the step of the thread that drives it.
ChipInv ==
  /\ pc["timer"] \in Low => ~ CE
  /\ pc["timer"] \in AsSender => Sending
  /\ pc["timer"] \in AsReceiver => config.powered /\ config.receiver
  /\ pc["timer"] = "idle" =>
       /\ pc["main"] \in AsReceiver => config.powered /\ config.receiver
       /\ pc["main"] \in Reading \cup {"idle", "stop"} => Listening

\* Only a signal within a transaction spoils CONFIG and the copies of it.
CopyInv ==
  ~ split =>
    /\ config.crc16 /\ ~ config.masked
    /\ \A t \in Threads : register[t].crc16 /\ ~ register[t].masked

\* As long as the last ping found the main loop between rounds, a reported frame
\* is in the FIFO until doRead takes it out.
FrameInv ==
  /\ pc["timer"] \in Fresh => "received" \notin status
  /\ ~ disturbed /\ pc["timer"] # "idle" => pc["main"] = "idle"
  /\ ~ disturbed /\ pc["timer"] = "idle" =>
       /\ pc["main"] \in Low => ~ CE
       /\ pc["main"] \in AsSender => ~ config.receiver
       /\ pc["main"] \in Fresh => "received" \notin status
       /\ pc["main"] \in {"idle", "what", "handle", "reset", "stop"} =>
            ("received" \in status => rxFifo # <<>>)
       /\ pc["main"] \in {"size", "read"} =>
            rxFifo # <<>> /\ ("received" \in status => Len(rxFifo) >= 2)
       /\ pc["main"] = "read" => length = Head(rxFifo)
       /\ pc["main"] = "handle" => got.frame # Junk /\ got.length = got.frame

-----------------------------------------------------------------------------
\* The transactions of a send in their order.

LEMMA SendIs ==
  /\ DOMAIN Send = 1 .. 18
  /\ Send[1] = "stop" /\ Send[2] = "stopRx" /\ Send[3] = "stopTx"
  /\ Send[4] = "readTx" /\ Send[5] = "toTx" /\ Send[6] = "payload"
  /\ Send[7] = "ceOn" /\ Send[8] = "ceOff"
  /\ Send[9] = "wait" /\ Send[10] = "ackRx" /\ Send[11] = "ackTx" /\ Send[12] = "ackClear"
  /\ Send[13] = "readRx" /\ Send[14] = "toRx" /\ Send[15] = "clear"
  /\ Send[16] = "startRx" /\ Send[17] = "startTx" /\ Send[18] = "listen"
<1>. USE DEF Send, StopListening, StartWrite, WaitForAck, StartListening
<1>1. DOMAIN Send = 1 .. 18  OBVIOUS
<1>2. Send[1] = "stop" /\ Send[2] = "stopRx" /\ Send[3] = "stopTx"  OBVIOUS
<1>3. Send[4] = "readTx" /\ Send[5] = "toTx" /\ Send[6] = "payload"  OBVIOUS
<1>4. Send[7] = "ceOn" /\ Send[8] = "ceOff"  OBVIOUS
<1>5. Send[9] = "wait" /\ Send[10] = "ackRx"  OBVIOUS
<1>6. Send[11] = "ackTx" /\ Send[12] = "ackClear"  OBVIOUS
<1>7. Send[13] = "readRx" /\ Send[14] = "toRx" /\ Send[15] = "clear"  OBVIOUS
<1>8. Send[16] = "startRx" /\ Send[17] = "startTx" /\ Send[18] = "listen"  OBVIOUS
<1>. QED  BY <1>1, <1>2, <1>3, <1>4, <1>5, <1>6, <1>7, <1>8

LEMMA SendSteps ==
  {Send[k] : k \in DOMAIN Send} = {"stop", "ceOff"} \cup Low
BY SendIs DEF Low

LEMMA ThenTable ==
  /\ Then("stop") = "stopRx" /\ Then("stopRx") = "stopTx" /\ Then("stopTx") = "readTx"
  /\ Then("readTx") = "toTx" /\ Then("toTx") = "payload" /\ Then("payload") = "ceOn"
  /\ Then("ceOn") = "ceOff" /\ Then("ceOff") = "wait" /\ Then("wait") = "ackRx"
  /\ Then("ackRx") = "ackTx" /\ Then("ackTx") = "ackClear" /\ Then("ackClear") = "readRx"
  /\ Then("readRx") = "toRx" /\ Then("toRx") = "clear" /\ Then("clear") = "startRx"
  /\ Then("startRx") = "startTx" /\ Then("startTx") = "listen"
BY SendIs DEF Then

Sends == {"stop", "ceOff"} \cup Low

\* One transaction further; the last one leads to r.
Follows(s, n, r) ==
  /\ s = "stop" => n = "stopRx"
  /\ s = "stopRx" => n = "stopTx"
  /\ s = "stopTx" => n = "readTx"
  /\ s = "readTx" => n = "toTx"
  /\ s = "toTx" => n = "payload"
  /\ s = "payload" => n = "ceOn"
  /\ s = "ceOn" => n = "ceOff"
  /\ s = "ceOff" => n = "wait"
  /\ s = "wait" => n = "ackRx"
  /\ s = "ackRx" => n = "ackTx"
  /\ s = "ackTx" => n = "ackClear"
  /\ s = "ackClear" => n = "readRx"
  /\ s = "readRx" => n = "toRx"
  /\ s = "toRx" => n = "clear"
  /\ s = "clear" => n = "startRx"
  /\ s = "startRx" => n = "startTx"
  /\ s = "startTx" => n = "listen"
  /\ s = "listen" => n = r

\* Where the threads are, apart from the rest of TypeOK.
PCOK ==
  /\ pc = [main |-> pc["main"], timer |-> pc["timer"]]
  /\ pc["main"] \in Reading \cup {"idle"} \cup Sends
  /\ pc["timer"] \in {"idle"} \cup Sends

LEMMA StepsOK == PCOK <=> /\ pc \in [Threads -> MainSteps]
                          /\ pc["timer"] \in {"idle"} \cup {Send[k] : k \in DOMAIN Send}
<1>1. MainSteps = Reading \cup {"idle"} \cup Sends
  BY SendSteps DEF MainSteps, Sends, Reading
<1>2. {Send[k] : k \in DOMAIN Send} = Sends
  BY SendSteps DEF Sends
<1>. HIDE DEF Sends, Reading
<1>3. ASSUME PCOK  PROVE pc \in [Threads -> MainSteps]
  BY <1>1, <1>3 DEF PCOK, Threads
<1>4. ASSUME pc \in [Threads -> MainSteps]
      PROVE pc = [main |-> pc["main"], timer |-> pc["timer"]] /\ pc["main"] \in MainSteps
  BY <1>4 DEF Threads
<1>. QED  BY <1>1, <1>2, <1>3, <1>4 DEF PCOK

\* An advance of the main loop leaves the timer idle.
LEMMA MainAdvances ==
  ASSUME PCOK, back \in {"idle", "reset"}, Advance("main"), pc["main"] \in Sends
  PROVE  /\ Follows(pc["main"], pc'["main"], back)
         /\ pc'["timer"] = pc["timer"] /\ PCOK'
<1>1. pc'["main"] = (IF pc["main"] # "listen" THEN Then(pc["main"]) ELSE back)
      /\ pc' = [main |-> pc'["main"], timer |-> pc["timer"]]
  BY DEF PCOK, Advance
<1>2. Follows(pc["main"], pc'["main"], back)
  BY <1>1, ThenTable DEF Follows
<1>3. pc'["main"] \in Reading \cup {"idle"} \cup Sends
  BY <1>2 DEF Follows, Sends, Low, Reading
<1>. QED  BY <1>1, <1>2, <1>3 DEF PCOK

\* An advance of the ping leaves the main loop where it is.
LEMMA TimerAdvances ==
  ASSUME PCOK, Advance("timer"), pc["timer"] \in Sends
  PROVE  /\ Follows(pc["timer"], pc'["timer"], "idle")
         /\ pc'["main"] = pc["main"] /\ PCOK'
<1>1. pc'["timer"] = (IF pc["timer"] # "listen" THEN Then(pc["timer"]) ELSE "idle")
      /\ pc' = [main |-> pc["main"], timer |-> pc'["timer"]]
  BY DEF PCOK, Advance
<1>2. Follows(pc["timer"], pc'["timer"], "idle")
  BY <1>1, ThenTable DEF Follows
<1>3. pc'["timer"] \in {"idle"} \cup Sends
  BY <1>2 DEF Follows, Sends, Low
<1>. QED  BY <1>1, <1>2, <1>3 DEF PCOK

-----------------------------------------------------------------------------
\* What TypeOK says of the rest of the state.
DataOK ==
  /\ back \in {"idle", "reset"}
  /\ register \in [Threads -> Config]
  /\ length \in Frames \cup {Junk}
  /\ got \in [frame : Frames \cup {Junk}, length : Frames \cup {Junk}]
  /\ isNewData \in BOOLEAN /\ disturbed \in BOOLEAN /\ split \in BOOLEAN
  /\ edge \in BOOLEAN /\ CE \in BOOLEAN /\ onAir \in BOOLEAN
  /\ config \in Config /\ status \subseteq {"received", "sent"}
  /\ rxFifo \in Seq(Frames) /\ Len(rxFifo) <= RX_FIFO
  /\ txFifo \in Seq(Threads) /\ Len(txFifo) <= 1

DriverInv == PCOK /\ DataOK /\ TxInv /\ ChipInv /\ CopyInv /\ FrameInv

LEMMA TypeIs == TypeOK <=> PCOK /\ DataOK
BY StepsOK, Zenon DEF TypeOK, DataOK

LEMMA DirectedIs ==
  ASSUME NEW c \in Config, NEW s
  PROVE  /\ Directed(c, s) \in Config
         /\ Directed(c, s).powered /\ (Directed(c, s).receiver <=> s = "toRx")
         /\ Directed(c, s).crc16 = c.crc16 /\ Directed(c, s).masked = c.masked
<1>1. Directed(c, s) \in Config
  BY DEF Directed, Config
<1>2. Directed(c, s).powered /\ (Directed(c, s).receiver <=> s = "toRx")
  BY DEF Directed, Config
<1>3. Directed(c, s).crc16 = c.crc16 /\ Directed(c, s).masked = c.masked
  BY DEF Directed, Config
<1>. QED  BY <1>1, <1>2, <1>3

LEMMA WriteIs ==
  ASSUME NEW c, NEW s, Write(c, s), edge \in BOOLEAN
  PROVE  config' = c /\ status' = s /\ edge' \in BOOLEAN
BY DEF Write, Asserted

LEMMA EmptyIs ==
  /\ <<>> \in Seq(Frames) /\ Len(<<>>) = 0
  /\ <<>> \in Seq(Threads)
OBVIOUS

-----------------------------------------------------------------------------
\* Each transaction of a send preserves the invariant.

LEMMA StepCEKeeps ==
  ASSUME DriverInv, NEW t \in Threads, StepCE(t)
  PROVE  DriverInv'
<1>1. pc[t] \in {"stop", "ceOn", "ceOff", "listen"} /\ Advance(t) /\ At(t, pc[t])
  BY DEF StepCE, At
<1>2. CASE t = "main"
  <2>1. /\ Follows(pc["main"], pc'["main"], back) /\ PCOK'
        /\ pc["timer"] = "idle" /\ pc'["timer"] = "idle"
        /\ pc["main"] \in {"stop", "ceOn", "ceOff", "listen"}
    BY <1>1, <1>2, MainAdvances DEF DriverInv, DataOK, At, Sends, Low
  <2>2. DataOK'
    BY <1>2, <2>1 DEF StepCE, DriverInv, DataOK, TxInv, Filled, chip
  <2>3. TxInv'
    BY <1>2, <2>1 DEF StepCE, DriverInv, DataOK, TxInv, Filled, Follows, chip
  <2>4. ChipInv'
    <3>1. config' = config /\ (pc["main"] \in {"ceOn", "listen"} => CE')
      BY <1>2, <2>1 DEF StepCE, At
    <3>2. back \in {"idle", "reset"}
      BY DEF DriverInv, DataOK
    <3>3. pc'["main"] \in AsReceiver => config'.powered /\ config'.receiver
      BY <2>1, <3>1, <3>2 DEF Follows, AsReceiver
    <3>4. pc'["main"] \in Reading \cup {"idle", "stop"} => Listening'
      BY <2>1, <3>1, <3>2 DEF DriverInv, ChipInv, Follows, AsReceiver, Reading, Listening
    <3>. QED  BY <2>1, <3>3, <3>4 DEF ChipInv, Low, AsSender, AsReceiver
  <2>5. CopyInv'
    BY <1>2, <2>1 DEF StepCE, DriverInv, DataOK, CopyInv, chip, Threads
  <2>6. FrameInv'
    <3>1. /\ pc["main"] \in {"stop", "ceOff"} => ~ CE'
          /\ UNCHANGED <<config, status, rxFifo, length, got, disturbed>>
      BY <1>2, <2>1 DEF StepCE, At
    <3>2. back \in {"idle", "reset"}
      BY DEF DriverInv, DataOK
    <3>. QED
      BY <2>1, <3>1, <3>2 DEF DriverInv, FrameInv, Follows, Low, AsSender, Fresh, Reading
  <2>. QED  BY <2>1, <2>2, <2>3, <2>4, <2>5, <2>6 DEF DriverInv
<1>3. CASE t = "timer"
  <2>1. /\ Follows(pc["timer"], pc'["timer"], "idle") /\ PCOK'
        /\ pc'["main"] = pc["main"]
        /\ pc["timer"] \in {"stop", "ceOn", "ceOff", "listen"}
    BY <1>1, <1>3, TimerAdvances DEF DriverInv, Sends, Low
  <2>2. DataOK'
    BY <1>3, <2>1 DEF StepCE, DriverInv, DataOK, TxInv, Filled, chip
  <2>3. TxInv'
    BY <1>3, <2>1 DEF StepCE, DriverInv, DataOK, TxInv, Filled, Follows, ChipInv, Low, chip
  <2>4. ChipInv'
    <3>1. /\ config' = config
          /\ pc["timer"] \in {"stop", "ceOff"} => ~ CE'
          /\ pc["timer"] \in {"ceOn", "listen"} => CE'
      BY <1>3, <2>1 DEF StepCE, At
    <3>2. pc'["timer"] \in {"stopRx", "ceOff", "wait", "idle"}
      BY <2>1 DEF Follows
    <3>3. pc'["timer"] \in Low => ~ CE'
      BY <2>1, <3>1, <3>2 DEF Follows, Low
    <3>4. pc'["timer"] \in AsSender => Sending'
      BY <2>1, <3>1, <3>2 DEF Follows, AsSender, DriverInv, ChipInv, Sending
    <3>5. pc'["timer"] = "idle" => Listening'
      BY <2>1, <3>1 DEF Follows, AsReceiver, DriverInv, ChipInv, Listening
    <3>6. pc'["timer"] = "idle" => config'.powered /\ config'.receiver
      BY <3>5 DEF Listening
    <3>. QED  BY <3>2, <3>3, <3>4, <3>5, <3>6 DEF ChipInv, AsReceiver
  <2>5. CopyInv'
    BY <1>3, <2>1 DEF StepCE, DriverInv, DataOK, CopyInv, chip, Threads
  <2>6. FrameInv'
    BY <1>3, <2>1 DEF StepCE, DriverInv, DataOK, FrameInv, Follows, chip,
       Low, AsSender, Fresh, Reading
  <2>. QED  BY <2>1, <2>2, <2>3, <2>4, <2>5, <2>6 DEF DriverInv
<1>. QED  BY <1>2, <1>3 DEF Threads

LEMMA FlushRxKeeps ==
  ASSUME DriverInv, NEW t \in Threads, FlushRx(t)
  PROVE  DriverInv'
<1>1. pc[t] \in {"stopRx", "ackRx", "startRx"} /\ Advance(t) /\ At(t, pc[t])
  BY DEF FlushRx, At
<1>2. CASE t = "main"
  <2>1. /\ Follows(pc["main"], pc'["main"], back) /\ PCOK'
        /\ pc["timer"] = "idle" /\ pc'["timer"] = "idle"
        /\ pc["main"] \in {"stopRx", "ackRx", "startRx"}
    BY <1>1, <1>2, MainAdvances DEF DriverInv, DataOK, At, Sends, Low
  <2>2. DataOK'
    BY <1>2, <2>1, EmptyIs, RadioAssumption DEF FlushRx, DriverInv, DataOK
  <2>3. TxInv'
    BY <1>2, <2>1 DEF FlushRx, DriverInv, DataOK, TxInv, Filled, Follows, chip
  <2>4. ChipInv'
    BY <1>2, <2>1 DEF FlushRx, DriverInv, DataOK, ChipInv, Follows, chip,
       Low, AsSender, AsReceiver, Reading, Listening, Sending
  <2>5. CopyInv'
    BY <1>2, <2>1 DEF FlushRx, DriverInv, DataOK, CopyInv, chip, Threads
  <2>6. FrameInv'
    BY <1>2, <2>1 DEF FlushRx, DriverInv, DataOK, ChipInv, FrameInv, Follows, chip,
       Low, AsSender, Fresh, Reading, Listening
  <2>. QED  BY <2>1, <2>2, <2>3, <2>4, <2>5, <2>6 DEF DriverInv
<1>3. CASE t = "timer"
  <2>1. /\ Follows(pc["timer"], pc'["timer"], "idle") /\ PCOK'
        /\ pc'["main"] = pc["main"]
        /\ pc["timer"] \in {"stopRx", "ackRx", "startRx"}
    BY <1>1, <1>3, TimerAdvances DEF DriverInv, Sends, Low
  <2>2. DataOK'
    BY <1>3, <2>1, EmptyIs, RadioAssumption DEF FlushRx, DriverInv, DataOK
  <2>3. TxInv'
    BY <1>3, <2>1 DEF FlushRx, DriverInv, DataOK, TxInv, Filled, Follows, ChipInv, Low, chip
  <2>4. ChipInv'
    BY <1>3, <2>1 DEF FlushRx, DriverInv, DataOK, ChipInv, Follows, chip,
       Low, AsSender, AsReceiver, Reading, Listening, Sending
  <2>5. CopyInv'
    BY <1>3, <2>1 DEF FlushRx, DriverInv, DataOK, CopyInv, chip, Threads
  <2>6. FrameInv'
    BY <1>3, <2>1 DEF FlushRx, DriverInv, DataOK, FrameInv, Follows, chip,
       Low, AsSender, Fresh, Reading
  <2>. QED  BY <2>1, <2>2, <2>3, <2>4, <2>5, <2>6 DEF DriverInv
<1>. QED  BY <1>2, <1>3 DEF Threads

LEMMA FlushTxKeeps ==
  ASSUME DriverInv, NEW t \in Threads, FlushTx(t)
  PROVE  DriverInv'
<1>1. pc[t] \in {"stopTx", "ackTx", "startTx"} /\ Advance(t) /\ At(t, pc[t])
  BY DEF FlushTx, At
<1>2. CASE t = "main"
  <2>1. /\ Follows(pc["main"], pc'["main"], back) /\ PCOK'
        /\ pc["timer"] = "idle" /\ pc'["timer"] = "idle"
        /\ pc["main"] \in {"stopTx", "ackTx", "startTx"}
    BY <1>1, <1>2, MainAdvances DEF DriverInv, DataOK, At, Sends, Low
  <2>2. DataOK'
    <3>1. txFifo' = <<>> /\ onAir' = FALSE
      BY <1>2 DEF FlushTx
    <3>2. txFifo' \in Seq(Threads) /\ Len(txFifo') <= 1
      BY <3>1, EmptyIs
    <3>. QED  BY <1>2, <3>1, <3>2 DEF FlushTx, DriverInv, DataOK
  <2>3. TxInv'
    BY <1>2, <2>1 DEF FlushTx, DriverInv, DataOK, TxInv, Filled, Follows, chip
  <2>4. ChipInv'
    BY <1>2, <2>1 DEF FlushTx, DriverInv, DataOK, ChipInv, Follows, chip,
       Low, AsSender, AsReceiver, Reading, Listening, Sending
  <2>5. CopyInv'
    BY <1>2, <2>1 DEF FlushTx, DriverInv, DataOK, CopyInv, chip, Threads
  <2>6. FrameInv'
    BY <1>2, <2>1 DEF FlushTx, DriverInv, DataOK, ChipInv, FrameInv, Follows, chip,
       Low, AsSender, Fresh, Reading, Listening
  <2>. QED  BY <2>1, <2>2, <2>3, <2>4, <2>5, <2>6 DEF DriverInv
<1>3. CASE t = "timer"
  <2>1. /\ Follows(pc["timer"], pc'["timer"], "idle") /\ PCOK'
        /\ pc'["main"] = pc["main"]
        /\ pc["timer"] \in {"stopTx", "ackTx", "startTx"}
    BY <1>1, <1>3, TimerAdvances DEF DriverInv, Sends, Low
  <2>2. DataOK'
    <3>1. txFifo' = <<>> /\ onAir' = FALSE
      BY <1>3 DEF FlushTx
    <3>2. txFifo' \in Seq(Threads) /\ Len(txFifo') <= 1
      BY <3>1, EmptyIs
    <3>. QED  BY <1>3, <3>1, <3>2 DEF FlushTx, DriverInv, DataOK
  <2>3. TxInv'
    BY <1>3, <2>1 DEF FlushTx, DriverInv, DataOK, TxInv, Filled, Follows, ChipInv, Low, chip
  <2>4. ChipInv'
    BY <1>3, <2>1 DEF FlushTx, DriverInv, DataOK, ChipInv, Follows, chip,
       Low, AsSender, AsReceiver, Reading, Listening, Sending
  <2>5. CopyInv'
    BY <1>3, <2>1 DEF FlushTx, DriverInv, DataOK, CopyInv, chip, Threads
  <2>6. FrameInv'
    BY <1>3, <2>1 DEF FlushTx, DriverInv, DataOK, FrameInv, Follows, chip,
       Low, AsSender, Fresh, Reading
  <2>. QED  BY <2>1, <2>2, <2>3, <2>4, <2>5, <2>6 DEF DriverInv
<1>. QED  BY <1>2, <1>3 DEF Threads

LEMMA ReadConfigKeeps ==
  ASSUME DriverInv, NEW t \in Threads, ReadConfig(t)
  PROVE  DriverInv'
<1>1. pc[t] \in {"readTx", "readRx"} /\ Advance(t) /\ At(t, pc[t])
  BY DEF ReadConfig, At
<1>2. CASE t = "main"
  <2>1. /\ Follows(pc["main"], pc'["main"], back) /\ PCOK'
        /\ pc["timer"] = "idle" /\ pc'["timer"] = "idle"
        /\ pc["main"] \in {"readTx", "readRx"}
    BY <1>1, <1>2, MainAdvances DEF DriverInv, DataOK, At, Sends, Low
  <2>2. DataOK'
    BY <1>2, <2>1 DEF ReadConfig, DriverInv, DataOK, TxInv, Filled, chip
  <2>3. TxInv'
    BY <1>2, <2>1 DEF ReadConfig, DriverInv, DataOK, TxInv, Filled, Follows, chip
  <2>4. ChipInv'
    BY <1>2, <2>1 DEF ReadConfig, DriverInv, DataOK, ChipInv, Follows, chip,
       Low, AsSender, AsReceiver, Reading, Listening, Sending
  <2>5. CopyInv'
    BY <1>2, <2>1 DEF ReadConfig, DriverInv, DataOK, CopyInv, chip, Threads
  <2>6. FrameInv'
    BY <1>2, <2>1 DEF ReadConfig, DriverInv, DataOK, ChipInv, FrameInv, Follows, chip,
       Low, AsSender, Fresh, Reading, Listening
  <2>. QED  BY <2>1, <2>2, <2>3, <2>4, <2>5, <2>6 DEF DriverInv
<1>3. CASE t = "timer"
  <2>1. /\ Follows(pc["timer"], pc'["timer"], "idle") /\ PCOK'
        /\ pc'["main"] = pc["main"]
        /\ pc["timer"] \in {"readTx", "readRx"}
    BY <1>1, <1>3, TimerAdvances DEF DriverInv, Sends, Low
  <2>2. DataOK'
    BY <1>3, <2>1 DEF ReadConfig, DriverInv, DataOK, TxInv, Filled, chip
  <2>3. TxInv'
    BY <1>3, <2>1 DEF ReadConfig, DriverInv, DataOK, TxInv, Filled, Follows, ChipInv, Low, chip
  <2>4. ChipInv'
    BY <1>3, <2>1 DEF ReadConfig, DriverInv, DataOK, ChipInv, Follows, chip,
       Low, AsSender, AsReceiver, Reading, Listening, Sending
  <2>5. CopyInv'
    BY <1>3, <2>1 DEF ReadConfig, DriverInv, DataOK, CopyInv, chip, Threads
  <2>6. FrameInv'
    BY <1>3, <2>1 DEF ReadConfig, DriverInv, DataOK, FrameInv, Follows, chip,
       Low, AsSender, Fresh, Reading
  <2>. QED  BY <2>1, <2>2, <2>3, <2>4, <2>5, <2>6 DEF DriverInv
<1>. QED  BY <1>2, <1>3 DEF Threads

LEMMA WriteConfigKeeps ==
  ASSUME DriverInv, NEW t \in Threads, WriteConfig(t)
  PROVE  DriverInv'
<1>1. pc[t] \in {"toTx", "toRx"} /\ Advance(t) /\ At(t, pc[t])
  BY DEF WriteConfig, At
<1>2. CASE t = "main"
  <2>1. /\ Follows(pc["main"], pc'["main"], back) /\ PCOK'
        /\ pc["timer"] = "idle" /\ pc'["timer"] = "idle"
        /\ pc["main"] \in {"toTx", "toRx"}
    BY <1>1, <1>2, MainAdvances DEF DriverInv, DataOK, At, Sends, Low
  <2>2. DataOK'
    <3>1. config' = Directed(register["main"], pc["main"]) /\ status' = status /\ edge' \in BOOLEAN
      BY <1>2, WriteIs, Zenon DEF WriteConfig, DriverInv, DataOK
    <3>2. register["main"] \in Config /\ Ready \in Config
      BY DEF DriverInv, DataOK, Ready, Config, Threads
    <3>3. config' \in Config /\ register' \in [Threads -> Config]
      BY <1>2, <3>1, <3>2, DirectedIs DEF WriteConfig, DriverInv, DataOK
    <3>. QED  BY <1>2, <3>1, <3>3 DEF WriteConfig, DriverInv, DataOK
  <2>3. TxInv'
    BY <1>2, <2>1 DEF WriteConfig, DriverInv, DataOK, TxInv, Filled, Follows, chip
  <2>4. ChipInv'
    <3>1. /\ status' = status /\ config'.powered
          /\ (config'.receiver <=> pc["main"] = "toRx")
          /\ config'.crc16 = register["main"].crc16 /\ config'.masked = register["main"].masked
          /\ UNCHANGED <<CE, rxFifo, length, got, disturbed, split>>
      <4>1. register["main"] \in Config /\ edge \in BOOLEAN
        BY DEF DriverInv, DataOK, Threads
      <4>2. config' = Directed(register["main"], pc["main"]) /\ status' = status
        BY <1>2, <4>1, WriteIs, Zenon DEF WriteConfig
      <4>. QED  BY <1>2, <4>1, <4>2, DirectedIs DEF WriteConfig
    <3>. QED
      BY <2>1, <3>1 DEF DriverInv, ChipInv, Follows, Low, AsSender, AsReceiver, Reading,
         Listening, Sending
  <2>5. CopyInv'
    <3>1. /\ status' = status /\ config'.powered
          /\ (config'.receiver <=> pc["main"] = "toRx")
          /\ config'.crc16 = register["main"].crc16 /\ config'.masked = register["main"].masked
          /\ UNCHANGED <<CE, rxFifo, length, got, disturbed, split>>
      <4>1. register["main"] \in Config /\ edge \in BOOLEAN
        BY DEF DriverInv, DataOK, Threads
      <4>2. config' = Directed(register["main"], pc["main"]) /\ status' = status
        BY <1>2, <4>1, WriteIs, Zenon DEF WriteConfig
      <4>. QED  BY <1>2, <4>1, <4>2, DirectedIs DEF WriteConfig
    <3>2. \A u \in Threads : register'[u] = IF u = "main" THEN Ready ELSE register[u]
      BY <1>2 DEF WriteConfig, DriverInv, DataOK
    <3>. QED  BY <3>1, <3>2 DEF DriverInv, CopyInv, Threads, Ready
  <2>6. FrameInv'
    <3>1. /\ status' = status /\ config'.powered
          /\ (config'.receiver <=> pc["main"] = "toRx")
          /\ config'.crc16 = register["main"].crc16 /\ config'.masked = register["main"].masked
          /\ UNCHANGED <<CE, rxFifo, length, got, disturbed, split>>
      <4>1. register["main"] \in Config /\ edge \in BOOLEAN
        BY DEF DriverInv, DataOK, Threads
      <4>2. config' = Directed(register["main"], pc["main"]) /\ status' = status
        BY <1>2, <4>1, WriteIs, Zenon DEF WriteConfig
      <4>. QED  BY <1>2, <4>1, <4>2, DirectedIs DEF WriteConfig
    <3>. QED
      BY <2>1, <3>1 DEF DriverInv, FrameInv, Follows, Low, AsSender, Fresh, Reading
  <2>. QED  BY <2>1, <2>2, <2>3, <2>4, <2>5, <2>6 DEF DriverInv
<1>3. CASE t = "timer"
  <2>1. /\ Follows(pc["timer"], pc'["timer"], "idle") /\ PCOK'
        /\ pc'["main"] = pc["main"]
        /\ pc["timer"] \in {"toTx", "toRx"}
    BY <1>1, <1>3, TimerAdvances DEF DriverInv, Sends, Low
  <2>2. DataOK'
    <3>1. config' = Directed(register["timer"], pc["timer"]) /\ status' = status /\ edge' \in BOOLEAN
      BY <1>3, WriteIs, Zenon DEF WriteConfig, DriverInv, DataOK
    <3>2. register["timer"] \in Config /\ Ready \in Config
      BY DEF DriverInv, DataOK, Ready, Config, Threads
    <3>3. config' \in Config /\ register' \in [Threads -> Config]
      BY <1>3, <3>1, <3>2, DirectedIs DEF WriteConfig, DriverInv, DataOK
    <3>. QED  BY <1>3, <3>1, <3>3 DEF WriteConfig, DriverInv, DataOK
  <2>3. TxInv'
    BY <1>3, <2>1 DEF WriteConfig, DriverInv, DataOK, TxInv, Filled, Follows, ChipInv, Low, chip
  <2>4. ChipInv'
    <3>1. /\ status' = status /\ config'.powered
          /\ (config'.receiver <=> pc["timer"] = "toRx")
          /\ config'.crc16 = register["timer"].crc16 /\ config'.masked = register["timer"].masked
          /\ UNCHANGED <<CE, rxFifo, length, got, disturbed, split>>
      <4>1. register["timer"] \in Config /\ edge \in BOOLEAN
        BY DEF DriverInv, DataOK, Threads
      <4>2. config' = Directed(register["timer"], pc["timer"]) /\ status' = status
        BY <1>3, <4>1, WriteIs, Zenon DEF WriteConfig
      <4>. QED  BY <1>3, <4>1, <4>2, DirectedIs DEF WriteConfig
    <3>. QED
      BY <2>1, <3>1 DEF DriverInv, ChipInv, Follows, Low, AsSender, AsReceiver, Reading,
         Listening, Sending
  <2>5. CopyInv'
    <3>1. /\ status' = status /\ config'.powered
          /\ (config'.receiver <=> pc["timer"] = "toRx")
          /\ config'.crc16 = register["timer"].crc16 /\ config'.masked = register["timer"].masked
          /\ UNCHANGED <<CE, rxFifo, length, got, disturbed, split>>
      <4>1. register["timer"] \in Config /\ edge \in BOOLEAN
        BY DEF DriverInv, DataOK, Threads
      <4>2. config' = Directed(register["timer"], pc["timer"]) /\ status' = status
        BY <1>3, <4>1, WriteIs, Zenon DEF WriteConfig
      <4>. QED  BY <1>3, <4>1, <4>2, DirectedIs DEF WriteConfig
    <3>2. \A u \in Threads : register'[u] = IF u = "timer" THEN Ready ELSE register[u]
      BY <1>3 DEF WriteConfig, DriverInv, DataOK
    <3>. QED  BY <3>1, <3>2 DEF DriverInv, CopyInv, Threads, Ready
  <2>6. FrameInv'
    <3>1. /\ status' = status /\ config'.powered
          /\ (config'.receiver <=> pc["timer"] = "toRx")
          /\ config'.crc16 = register["timer"].crc16 /\ config'.masked = register["timer"].masked
          /\ UNCHANGED <<CE, rxFifo, length, got, disturbed, split>>
      <4>1. register["timer"] \in Config /\ edge \in BOOLEAN
        BY DEF DriverInv, DataOK, Threads
      <4>2. config' = Directed(register["timer"], pc["timer"]) /\ status' = status
        BY <1>3, <4>1, WriteIs, Zenon DEF WriteConfig
      <4>. QED  BY <1>3, <4>1, <4>2, DirectedIs DEF WriteConfig
    <3>. QED
      BY <2>1, <3>1 DEF DriverInv, FrameInv, Follows, Low, AsSender, Fresh, Reading
  <2>. QED  BY <2>1, <2>2, <2>3, <2>4, <2>5, <2>6 DEF DriverInv
<1>. QED  BY <1>2, <1>3 DEF Threads

LEMMA WritePayloadKeeps ==
  ASSUME DriverInv, NEW t \in Threads, WritePayload(t)
  PROVE  DriverInv'
<1>1. pc[t] \in {"payload"} /\ Advance(t) /\ At(t, pc[t])
  BY DEF WritePayload, At
<1>2. CASE t = "main"
  <2>1. /\ Follows(pc["main"], pc'["main"], back) /\ PCOK'
        /\ pc["timer"] = "idle" /\ pc'["timer"] = "idle"
        /\ pc["main"] \in {"payload"}
    BY <1>1, <1>2, MainAdvances DEF DriverInv, DataOK, At, Sends, Low
  <2>2. DataOK'
    <3>1. txFifo = <<>>
      BY <2>1 DEF DriverInv, TxInv, Filled
    <3>2. txFifo' = <<"main">> /\ onAir' \in BOOLEAN
      BY <1>2, <3>1 DEF WritePayload, DriverInv, DataOK
    <3>3. txFifo' \in Seq(Threads) /\ Len(txFifo') = 1
      BY <3>2 DEF Threads
    <3>. QED  BY <1>2, <3>2, <3>3 DEF WritePayload, DriverInv, DataOK
  <2>3. TxInv'
    <3>1. txFifo = <<>>
      BY <2>1 DEF DriverInv, TxInv, Filled
    <3>2. txFifo' = <<"main">>
      BY <1>2, <3>1 DEF WritePayload
    <3>. QED  BY <2>1, <3>2 DEF TxInv, Filled, Follows
  <2>4. ChipInv'
    BY <1>2, <2>1 DEF WritePayload, DriverInv, DataOK, ChipInv, Follows, chip,
       Low, AsSender, AsReceiver, Reading, Listening, Sending
  <2>5. CopyInv'
    BY <1>2, <2>1 DEF WritePayload, DriverInv, DataOK, CopyInv, chip, Threads
  <2>6. FrameInv'
    BY <1>2, <2>1 DEF WritePayload, DriverInv, DataOK, ChipInv, FrameInv, Follows, chip,
       Low, AsSender, Fresh, Reading, Listening
  <2>. QED  BY <2>1, <2>2, <2>3, <2>4, <2>5, <2>6 DEF DriverInv
<1>3. CASE t = "timer"
  <2>1. /\ Follows(pc["timer"], pc'["timer"], "idle") /\ PCOK'
        /\ pc'["main"] = pc["main"]
        /\ pc["timer"] \in {"payload"}
    BY <1>1, <1>3, TimerAdvances DEF DriverInv, Sends, Low
  <2>2. DataOK'
    <3>1. txFifo = <<>>
      BY <2>1 DEF DriverInv, TxInv, Filled
    <3>2. txFifo' = <<"timer">> /\ onAir' \in BOOLEAN
      BY <1>3, <3>1 DEF WritePayload, DriverInv, DataOK
    <3>3. txFifo' \in Seq(Threads) /\ Len(txFifo') = 1
      BY <3>2 DEF Threads
    <3>. QED  BY <1>3, <3>2, <3>3 DEF WritePayload, DriverInv, DataOK
  <2>3. TxInv'
    <3>1. txFifo = <<>> /\ ~ CE /\ ~ onAir
      BY <2>1 DEF DriverInv, TxInv, Filled, ChipInv, Low
    <3>2. txFifo' = <<"timer">>
      BY <1>3, <3>1 DEF WritePayload
    <3>3. ~ onAir'
      BY <1>3, <3>1, Zenon DEF WritePayload
    <3>. QED  BY <2>1, <3>2, <3>3 DEF TxInv, Filled, Follows
  <2>4. ChipInv'
    BY <1>3, <2>1 DEF WritePayload, DriverInv, DataOK, ChipInv, Follows, chip,
       Low, AsSender, AsReceiver, Reading, Listening, Sending
  <2>5. CopyInv'
    BY <1>3, <2>1 DEF WritePayload, DriverInv, DataOK, CopyInv, chip, Threads
  <2>6. FrameInv'
    BY <1>3, <2>1 DEF WritePayload, DriverInv, DataOK, FrameInv, Follows, chip,
       Low, AsSender, Fresh, Reading
  <2>. QED  BY <2>1, <2>2, <2>3, <2>4, <2>5, <2>6 DEF DriverInv
<1>. QED  BY <1>2, <1>3 DEF Threads

LEMMA WaitKeeps ==
  ASSUME DriverInv, NEW t \in Threads, Wait(t)
  PROVE  DriverInv'
<1>1. pc[t] \in {"wait"} /\ Advance(t) /\ At(t, pc[t])
  BY DEF Wait, At
<1>2. CASE t = "main"
  <2>1. /\ Follows(pc["main"], pc'["main"], back) /\ PCOK'
        /\ pc["timer"] = "idle" /\ pc'["timer"] = "idle"
        /\ pc["main"] \in {"wait"}
    BY <1>1, <1>2, MainAdvances DEF DriverInv, DataOK, At, Sends, Low
  <2>2. DataOK'
    BY <1>2, <2>1 DEF Wait, DriverInv, DataOK, TxInv, Filled, chip
  <2>3. TxInv'
    BY <1>2, <2>1 DEF Wait, DriverInv, DataOK, TxInv, Filled, Follows, chip
  <2>4. ChipInv'
    BY <1>2, <2>1 DEF Wait, DriverInv, DataOK, ChipInv, Follows, chip,
       Low, AsSender, AsReceiver, Reading, Listening, Sending
  <2>5. CopyInv'
    BY <1>2, <2>1 DEF Wait, DriverInv, DataOK, CopyInv, chip, Threads
  <2>6. FrameInv'
    BY <1>2, <2>1 DEF Wait, DriverInv, DataOK, ChipInv, FrameInv, Follows, chip,
       Low, AsSender, Fresh, Reading, Listening
  <2>. QED  BY <2>1, <2>2, <2>3, <2>4, <2>5, <2>6 DEF DriverInv
<1>3. CASE t = "timer"
  <2>1. /\ Follows(pc["timer"], pc'["timer"], "idle") /\ PCOK'
        /\ pc'["main"] = pc["main"]
        /\ pc["timer"] \in {"wait"}
    BY <1>1, <1>3, TimerAdvances DEF DriverInv, Sends, Low
  <2>2. DataOK'
    BY <1>3, <2>1 DEF Wait, DriverInv, DataOK, TxInv, Filled, chip
  <2>3. TxInv'
    BY <1>3, <2>1 DEF Wait, DriverInv, DataOK, TxInv, Filled, Follows, ChipInv, Low, chip
  <2>4. ChipInv'
    BY <1>3, <2>1 DEF Wait, DriverInv, DataOK, ChipInv, Follows, chip,
       Low, AsSender, AsReceiver, Reading, Listening, Sending
  <2>5. CopyInv'
    BY <1>3, <2>1 DEF Wait, DriverInv, DataOK, CopyInv, chip, Threads
  <2>6. FrameInv'
    BY <1>3, <2>1 DEF Wait, DriverInv, DataOK, FrameInv, Follows, chip,
       Low, AsSender, Fresh, Reading
  <2>. QED  BY <2>1, <2>2, <2>3, <2>4, <2>5, <2>6 DEF DriverInv
<1>. QED  BY <1>2, <1>3 DEF Threads

LEMMA ClearStatusKeeps ==
  ASSUME DriverInv, NEW t \in Threads, ClearStatus(t)
  PROVE  DriverInv'
<1>1. pc[t] \in {"ackClear", "clear"} /\ Advance(t) /\ At(t, pc[t])
  BY DEF ClearStatus, At
<1>2. CASE t = "main"
  <2>1. /\ Follows(pc["main"], pc'["main"], back) /\ PCOK'
        /\ pc["timer"] = "idle" /\ pc'["timer"] = "idle"
        /\ pc["main"] \in {"ackClear", "clear"}
    BY <1>1, <1>2, MainAdvances DEF DriverInv, DataOK, At, Sends, Low
  <2>2. DataOK'
    <3>1. config' = config /\ status' = {} /\ edge' \in BOOLEAN
      BY <1>2, WriteIs, Zenon DEF ClearStatus, DriverInv, DataOK, Cleared
    <3>. QED  BY <1>2, <3>1 DEF ClearStatus, DriverInv, DataOK
  <2>3. TxInv'
    BY <1>2, <2>1 DEF ClearStatus, DriverInv, DataOK, TxInv, Filled, Follows, chip
  <2>4. ChipInv'
    <3>1. /\ config' = config /\ status' = {}
          /\ UNCHANGED <<CE, register, rxFifo, length, got, disturbed, split>>
      BY <1>2, WriteIs, Zenon DEF ClearStatus, DriverInv, DataOK, Cleared
    <3>. QED
      BY <2>1, <3>1 DEF DriverInv, ChipInv, Follows, Low, AsSender, AsReceiver, Reading,
         Listening, Sending
  <2>5. CopyInv'
    <3>1. /\ config' = config /\ status' = {}
          /\ UNCHANGED <<CE, register, rxFifo, length, got, disturbed, split>>
      BY <1>2, WriteIs, Zenon DEF ClearStatus, DriverInv, DataOK, Cleared
    <3>. QED  BY <3>1 DEF DriverInv, CopyInv
  <2>6. FrameInv'
    <3>1. /\ config' = config /\ status' = {}
          /\ UNCHANGED <<CE, register, rxFifo, length, got, disturbed, split>>
      BY <1>2, WriteIs, Zenon DEF ClearStatus, DriverInv, DataOK, Cleared
    <3>. QED
      BY <2>1, <3>1 DEF DriverInv, FrameInv, Follows, Low, AsSender, Fresh, Reading
  <2>. QED  BY <2>1, <2>2, <2>3, <2>4, <2>5, <2>6 DEF DriverInv
<1>3. CASE t = "timer"
  <2>1. /\ Follows(pc["timer"], pc'["timer"], "idle") /\ PCOK'
        /\ pc'["main"] = pc["main"]
        /\ pc["timer"] \in {"ackClear", "clear"}
    BY <1>1, <1>3, TimerAdvances DEF DriverInv, Sends, Low
  <2>2. DataOK'
    <3>1. config' = config /\ status' = {} /\ edge' \in BOOLEAN
      BY <1>3, WriteIs, Zenon DEF ClearStatus, DriverInv, DataOK, Cleared
    <3>. QED  BY <1>3, <3>1 DEF ClearStatus, DriverInv, DataOK
  <2>3. TxInv'
    BY <1>3, <2>1 DEF ClearStatus, DriverInv, DataOK, TxInv, Filled, Follows, ChipInv, Low, chip
  <2>4. ChipInv'
    <3>1. /\ config' = config /\ status' = {}
          /\ UNCHANGED <<CE, register, rxFifo, length, got, disturbed, split>>
      BY <1>3, WriteIs, Zenon DEF ClearStatus, DriverInv, DataOK, Cleared
    <3>. QED
      BY <2>1, <3>1 DEF DriverInv, ChipInv, Follows, Low, AsSender, AsReceiver, Reading,
         Listening, Sending
  <2>5. CopyInv'
    <3>1. /\ config' = config /\ status' = {}
          /\ UNCHANGED <<CE, register, rxFifo, length, got, disturbed, split>>
      BY <1>3, WriteIs, Zenon DEF ClearStatus, DriverInv, DataOK, Cleared
    <3>. QED  BY <3>1 DEF DriverInv, CopyInv
  <2>6. FrameInv'
    <3>1. /\ config' = config /\ status' = {}
          /\ UNCHANGED <<CE, register, rxFifo, length, got, disturbed, split>>
      BY <1>3, WriteIs, Zenon DEF ClearStatus, DriverInv, DataOK, Cleared
    <3>. QED
      BY <2>1, <3>1 DEF DriverInv, FrameInv, Follows, Low, AsSender, Fresh, Reading
  <2>. QED  BY <2>1, <2>2, <2>3, <2>4, <2>5, <2>6 DEF DriverInv
<1>. QED  BY <1>2, <1>3 DEF Threads

-----------------------------------------------------------------------------
\* Each step of the main loop outside a send preserves the invariant.

LEMMA Goes ==
  ASSUME PCOK, NEW s \in Reading \cup {"idle"} \cup Sends, Goto(s)
  PROVE  pc'["main"] = s /\ pc'["timer"] = pc["timer"] /\ PCOK'
<1>1. pc' = [main |-> s, timer |-> pc["timer"]]
  BY DEF PCOK, Goto
<1>. QED  BY <1>1 DEF PCOK

LEMMA DoReadKeeps ==
  ASSUME DriverInv, DoRead
  PROVE  DriverInv'
<1>1. /\ pc["main"] \in {"idle"} /\ pc'["main"] \in {"what"} /\ PCOK'
      /\ pc["timer"] = "idle" /\ pc'["timer"] = "idle"
  BY Goes DEF DoRead, At, DriverInv, Reading, Sends
<1>2. DataOK'
  BY DEF DoRead, DriverInv, DataOK, chip
<1>3. TxInv'
  BY <1>1 DEF DoRead, DriverInv, TxInv, Filled, chip
<1>4. ChipInv'
  BY <1>1 DEF DoRead, DriverInv, ChipInv, chip, Low, AsSender, AsReceiver, Reading,
     Listening, Sending
<1>5. CopyInv'
  BY DEF DoRead, DriverInv, CopyInv, chip
<1>6. FrameInv'
  BY <1>1 DEF DoRead, DriverInv, FrameInv, chip, Low, AsSender, Fresh
<1>. QED  BY <1>1, <1>2, <1>3, <1>4, <1>5, <1>6 DEF DriverInv

LEMMA SendDataKeeps ==
  ASSUME DriverInv, SendData
  PROVE  DriverInv'
<1>1. /\ pc["main"] \in {"idle"} /\ pc'["main"] \in {"stop"} /\ PCOK'
      /\ pc["timer"] = "idle" /\ pc'["timer"] = "idle"
  BY Goes DEF SendData, At, DriverInv, Reading, Sends
<1>2. DataOK'
  BY DEF SendData, DriverInv, DataOK, chip
<1>3. TxInv'
  BY <1>1 DEF SendData, DriverInv, TxInv, Filled, chip
<1>4. ChipInv'
  BY <1>1 DEF SendData, DriverInv, ChipInv, chip, Low, AsSender, AsReceiver, Reading,
     Listening, Sending
<1>5. CopyInv'
  BY DEF SendData, DriverInv, CopyInv, chip
<1>6. FrameInv'
  BY <1>1 DEF SendData, DriverInv, FrameInv, chip, Low, AsSender, Fresh
<1>. QED  BY <1>1, <1>2, <1>3, <1>4, <1>5, <1>6 DEF DriverInv

LEMMA WhatHappenedKeeps ==
  ASSUME DriverInv, WhatHappened
  PROVE  DriverInv'
<1>1. /\ pc["main"] \in {"what"} /\ pc'["main"] \in {"size", "reset"} /\ PCOK'
      /\ pc["timer"] = "idle" /\ pc'["timer"] = "idle"
  BY Goes DEF WhatHappened, At, DriverInv, Reading, Sends
<1>2. DataOK'
  <2>1. config' = config /\ status' = {} /\ edge' \in BOOLEAN
    BY WriteIs, Zenon DEF WhatHappened, DriverInv, DataOK, Cleared
  <2>. QED  BY <2>1 DEF WhatHappened, DriverInv, DataOK
<1>3. TxInv'
  BY <1>1 DEF WhatHappened, DriverInv, TxInv, Filled, chip
<1>4. ChipInv'
  <2>1. config' = config /\ UNCHANGED <<CE, register, split>>
    BY WriteIs, Zenon DEF WhatHappened, DriverInv, DataOK
  <2>. QED  BY <1>1, <2>1 DEF DriverInv, ChipInv, Low, AsSender, AsReceiver, Reading,
               Listening, Sending
<1>5. CopyInv'
  <2>1. config' = config /\ UNCHANGED <<CE, register, split>>
    BY WriteIs, Zenon DEF WhatHappened, DriverInv, DataOK
  <2>. QED  BY <2>1 DEF DriverInv, CopyInv
<1>6. FrameInv'
  <2>1. status' = {} /\ UNCHANGED <<CE, rxFifo, length, got, disturbed>>
    BY WriteIs, Zenon DEF WhatHappened, DriverInv, DataOK, Cleared
  <2>2. pc'["main"] = "size" => "received" \in status
    BY <1>1 DEF WhatHappened, HasFrame, Goto, PCOK, DriverInv
  <2>. QED  BY <1>1, <2>1, <2>2 DEF DriverInv, FrameInv, Low, AsSender, Fresh
<1>. QED  BY <1>1, <1>2, <1>3, <1>4, <1>5, <1>6 DEF DriverInv

LEMMA GetDynamicPayloadSizeKeeps ==
  ASSUME DriverInv, GetDynamicPayloadSize
  PROVE  DriverInv'
<1>1. /\ pc["main"] \in {"size"} /\ pc'["main"] \in {"read"} /\ PCOK'
      /\ pc["timer"] = "idle" /\ pc'["timer"] = "idle"
  BY Goes DEF GetDynamicPayloadSize, At, DriverInv, Reading, Sends
<1>2. DataOK'
  <2>1. rxFifo # <<>> => Head(rxFifo) \in Frames
    BY DEF DriverInv, DataOK
  <2>. QED  BY <2>1 DEF GetDynamicPayloadSize, DriverInv, DataOK, chip
<1>3. TxInv'
  BY <1>1 DEF GetDynamicPayloadSize, DriverInv, TxInv, Filled, chip
<1>4. ChipInv'
  BY <1>1 DEF GetDynamicPayloadSize, DriverInv, ChipInv, chip, Low, AsSender, AsReceiver, Reading,
     Listening, Sending
<1>5. CopyInv'
  BY DEF GetDynamicPayloadSize, DriverInv, CopyInv, chip
<1>6. FrameInv'
  BY <1>1 DEF GetDynamicPayloadSize, DriverInv, FrameInv, chip, Low, AsSender, Fresh
<1>. QED  BY <1>1, <1>2, <1>3, <1>4, <1>5, <1>6 DEF DriverInv

LEMMA ReadKeeps ==
  ASSUME DriverInv, Read
  PROVE  DriverInv'
<1>1. /\ pc["main"] \in {"read"} /\ pc'["main"] \in {"handle"} /\ PCOK'
      /\ pc["timer"] = "idle" /\ pc'["timer"] = "idle"
  BY Goes DEF Read, At, DriverInv, Reading, Sends
<1>2. DataOK'
  <2>1. rxFifo # <<>> => Head(rxFifo) \in Frames /\ Tail(rxFifo) \in Seq(Frames)
                         /\ Len(Tail(rxFifo)) = Len(rxFifo) - 1
    BY DEF DriverInv, DataOK
  <2>2. rxFifo' \in Seq(Frames) /\ Len(rxFifo') <= RX_FIFO
    BY <2>1, RadioAssumption DEF Read, DriverInv, DataOK
  <2>3. got' \in [frame : Frames \cup {Junk}, length : Frames \cup {Junk}]
    BY <2>1 DEF Read, DriverInv, DataOK
  <2>4. length' \in Frames \cup {Junk}
    BY DEF Read
  <2>. QED  BY <2>2, <2>3, <2>4 DEF Read, DriverInv, DataOK
<1>3. TxInv'
  BY <1>1 DEF Read, DriverInv, TxInv, Filled, chip
<1>4. ChipInv'
  BY <1>1 DEF Read, DriverInv, ChipInv, chip, Low, AsSender, AsReceiver, Reading,
     Listening, Sending
<1>5. CopyInv'
  BY DEF Read, DriverInv, CopyInv, chip
<1>6. FrameInv'
  <2>1. ~ disturbed => rxFifo # <<>> /\ length = Head(rxFifo)
    BY <1>1 DEF DriverInv, FrameInv
  <2>2. rxFifo # <<>> => /\ got'.frame = Head(rxFifo) /\ got'.length = length
                         /\ rxFifo' = Tail(rxFifo)
    BY DEF Read
  <2>3. rxFifo # <<>> => Head(rxFifo) # Junk
    <3>1. rxFifo # <<>> => Head(rxFifo) \in Frames
      BY DEF DriverInv, DataOK
    <3>. QED  BY <3>1, RadioAssumption
  <2>4. ~ disturbed /\ "received" \in status => Len(rxFifo) >= 2
    BY <1>1 DEF DriverInv, FrameInv
  <2>5. Len(rxFifo) >= 2 => Tail(rxFifo) # <<>>
    <3>1. rxFifo # <<>> => Len(Tail(rxFifo)) = Len(rxFifo) - 1
      BY DEF DriverInv, DataOK
    <3>2. Len(rxFifo) \in Nat /\ Len(<<>>) = 0
      BY DEF DriverInv, DataOK
    <3>3. ASSUME Len(rxFifo) >= 2  PROVE rxFifo # <<>>
      BY <3>2, <3>3
    <3>4. ASSUME Len(rxFifo) >= 2  PROVE Len(Tail(rxFifo)) # 0
      BY <3>1, <3>2, <3>3, <3>4
    <3>. QED  BY <3>2, <3>4
  <2>6. UNCHANGED <<status, disturbed>>
    BY DEF Read
  <2>. QED
    BY <1>1, <2>1, <2>2, <2>3, <2>4, <2>5, <2>6 DEF FrameInv, Low, AsSender, Fresh
<1>. QED  BY <1>1, <1>2, <1>3, <1>4, <1>5, <1>6 DEF DriverInv

LEMMA HandleKeeps ==
  ASSUME DriverInv, Handle
  PROVE  DriverInv'
<1>1. /\ pc["main"] \in {"handle"} /\ pc'["main"] \in {"idle", "reset", "stop"} /\ PCOK'
      /\ pc["timer"] = "idle" /\ pc'["timer"] = "idle"
  BY Goes DEF Handle, At, DriverInv, Reading, Sends
<1>2. DataOK'
  BY DEF Handle, DriverInv, DataOK, chip, Nothing
<1>3. TxInv'
  BY <1>1 DEF Handle, DriverInv, TxInv, Filled, chip
<1>4. ChipInv'
  BY <1>1 DEF Handle, DriverInv, ChipInv, chip, Low, AsSender, AsReceiver, Reading,
     Listening, Sending
<1>5. CopyInv'
  BY DEF Handle, DriverInv, CopyInv, chip
<1>6. FrameInv'
  BY <1>1 DEF Handle, DriverInv, FrameInv, chip, Low, AsSender, Fresh
<1>. QED  BY <1>1, <1>2, <1>3, <1>4, <1>5, <1>6 DEF DriverInv

LEMMA ResetKeeps ==
  ASSUME DriverInv, Reset
  PROVE  DriverInv'
<1>1. /\ pc["main"] \in {"reset"} /\ pc'["main"] \in {"idle"} /\ PCOK'
      /\ pc["timer"] = "idle" /\ pc'["timer"] = "idle"
  BY Goes DEF Reset, At, DriverInv, Reading, Sends
<1>2. DataOK'
  BY DEF Reset, DriverInv, DataOK, chip
<1>3. TxInv'
  BY <1>1 DEF Reset, DriverInv, TxInv, Filled, chip
<1>4. ChipInv'
  BY <1>1 DEF Reset, DriverInv, ChipInv, chip, Low, AsSender, AsReceiver, Reading,
     Listening, Sending
<1>5. CopyInv'
  BY DEF Reset, DriverInv, CopyInv, chip
<1>6. FrameInv'
  BY <1>1 DEF Reset, DriverInv, FrameInv, chip, Low, AsSender, Fresh
<1>. QED  BY <1>1, <1>2, <1>3, <1>4, <1>5, <1>6 DEF DriverInv

-----------------------------------------------------------------------------
\* SIGALRM between two transactions, or within one, preserves the invariant.

LEMMA TimerFiresKeeps ==
  ASSUME DriverInv, TimerFires
  PROVE  DriverInv'
<1>1. /\ pc["timer"] = "idle" /\ pc'["timer"] = "stop" /\ pc'["main"] = pc["main"] /\ PCOK'
  <2>1. pc' = [main |-> pc["main"], timer |-> "stop"] /\ pc["timer"] = "idle"
    BY DEF TimerFires, DriverInv, PCOK
  <2>. QED  BY <2>1 DEF DriverInv, PCOK, Sends
<1>2. DataOK'
  BY DEF TimerFires, DriverInv, DataOK, chip
<1>3. TxInv'
  BY <1>1 DEF TimerFires, DriverInv, TxInv, Filled, chip
<1>4. ChipInv'
  BY <1>1 DEF ChipInv, Low, AsSender, AsReceiver
<1>5. CopyInv'
  BY DEF TimerFires, DriverInv, CopyInv, chip
<1>6. FrameInv'
  BY <1>1 DEF TimerFires, FrameInv, Fresh
<1>. QED  BY <1>1, <1>2, <1>3, <1>4, <1>5, <1>6 DEF DriverInv

LEMMA MisreadKeeps ==
  ASSUME DriverInv, Misread
  PROVE  /\ register' \in [Threads -> Config]
         /\ length' \in Frames \cup {Junk}
         /\ got' \in [frame : Frames \cup {Junk}, length : Frames \cup {Junk}]
         /\ pc["main"] \notin OnConfig => register' = register
<1>1. PICK c \in Config :
        /\ pc["main"] \notin OnConfig => c = register["main"]
        /\ register' = [register EXCEPT !["main"] = c]
  BY DEF Misread
<1>2. register \in [Threads -> Config]
  BY DEF DriverInv, DataOK
<1>3. /\ length' \in Frames \cup {Junk}
      /\ got' \in [frame : Frames \cup {Junk}, length : Frames \cup {Junk}]
  BY DEF Misread, DriverInv, DataOK
<1>. QED  BY <1>1, <1>2, <1>3

\* What a ping within a transaction does to the chip besides CE.
LEMMA SplitChip ==
  ASSUME DriverInv, NEW n, SplitBefore(n) \/ SplitAmid(n) \/ SplitAfter(n)
  PROVE  /\ config' \in Config /\ status' \subseteq {"received", "sent"}
         /\ edge' \in BOOLEAN /\ onAir' = onAir
         /\ rxFifo' \in Seq(Frames) /\ Len(rxFifo') <= RX_FIFO
<1>1. /\ config \in Config /\ status \subseteq {"received", "sent"} /\ edge \in BOOLEAN
      /\ rxFifo \in Seq(Frames) /\ Len(rxFifo) <= RX_FIFO
  BY DEF DriverInv, DataOK
<1>2. /\ \/ Write(FLUSH_RX, status)
         \/ Write(config, Cleared(status))
         \/ UNCHANGED <<config, status, edge>>
      /\ onAir' = onAir
  BY DEF SplitBefore, SplitAmid, SplitAfter
<1>3. FLUSH_RX \in Config /\ Cleared(status) = {}
  BY DEF FLUSH_RX, Config, Cleared
<1>4. /\ config' \in Config /\ status' \subseteq {"received", "sent"}
      /\ edge' \in BOOLEAN
  <2>1. CASE Write(FLUSH_RX, status)
    <3>1. config' = FLUSH_RX /\ status' = status /\ edge' \in BOOLEAN
      BY <1>1, <2>1, WriteIs, Zenon
    <3>. QED  BY <1>1, <1>3, <3>1, Zenon
  <2>2. CASE Write(config, Cleared(status))
    <3>1. config' = config /\ status' = Cleared(status) /\ edge' \in BOOLEAN
      BY <1>1, <2>2, WriteIs, Zenon
    <3>. QED  BY <1>1, <1>3, <3>1
  <2>3. CASE UNCHANGED <<config, status, edge>>
    BY <1>1, <2>3
  <2>. QED  BY <1>2, <2>1, <2>2, <2>3
<1>5. \/ rxFifo' = <<>> \/ rxFifo' = rxFifo
      \/ rxFifo # <<>> /\ rxFifo' = Tail(rxFifo)
  BY DEF SplitBefore, SplitAmid, SplitAfter
<1>6. rxFifo # <<>> => Tail(rxFifo) \in Seq(Frames) /\ Len(Tail(rxFifo)) <= RX_FIFO
  BY <1>1, RadioAssumption
<1>7. <<>> \in Seq(Frames) /\ Len(<<>>) <= RX_FIFO
  BY RadioAssumption
<1>8. rxFifo' \in Seq(Frames) /\ Len(rxFifo') <= RX_FIFO
  BY <1>1, <1>5, <1>6, <1>7, Zenon
<1>. QED  BY <1>2, <1>4, <1>8

\* The only frame that it can find, or leave, is one of the main loop.
LEMMA SplitFrame ==
  ASSUME DriverInv, pc["timer"] = "idle",
         NEW n, SplitBefore(n) \/ SplitAmid(n) \/ SplitAfter(n)
  PROVE  /\ txFifo' = <<>> \/ txFifo' = <<"main">>
         /\ onAir' => txFifo' # <<>>
<1>1. /\ txFifo = <<>> \/ txFifo = <<"main">>
      /\ onAir => txFifo # <<>>
      /\ pc["main"] = "payload" => txFifo = <<>>
  BY DEF DriverInv, TxInv, Filled
<1>2. \/ txFifo' = txFifo
      \/ pc["main"] = "payload" /\ txFifo' = Append(txFifo, "main")
  BY DEF SplitBefore, SplitAmid, SplitAfter
<1>3. onAir' = onAir
  BY DEF SplitBefore, SplitAmid, SplitAfter
<1>4. txFifo = <<>> => Append(txFifo, "main") = <<"main">>
  OBVIOUS
<1>. QED  BY <1>1, <1>2, <1>3, <1>4

LEMMA SplitLocals ==
  ASSUME DriverInv, NEW n, SplitBefore(n) \/ SplitAmid(n) \/ SplitAfter(n)
  PROVE  /\ register' \in [Threads -> Config]
         /\ length' \in Frames \cup {Junk}
         /\ got' \in [frame : Frames \cup {Junk}, length : Frames \cup {Junk}]
<1>1. Misread \/ UNCHANGED <<register, length, got>>
  BY DEF SplitBefore, SplitAmid, SplitAfter
<1>2. CASE UNCHANGED <<register, length, got>>
  BY <1>2 DEF DriverInv, DataOK
<1>. QED  BY <1>1, <1>2, MisreadKeeps

\* A transaction on anything but CONFIG leaves it and the copies of it alone.
LEMMA SplitCopies ==
  ASSUME DriverInv, NEW n, SplitBefore(n) \/ SplitAmid(n) \/ SplitAfter(n),
         ~ (pc["main"] \in OnConfig /\ n # pc["main"])
  PROVE  UNCHANGED <<config, register>>
<1>1. CASE SplitAfter(n)
  BY <1>1 DEF SplitAfter
<1>2. CASE SplitBefore(n)
  <2>1. pc["main"] \notin OnConfig
    BY <1>2, ThenTable DEF SplitBefore, After, OnConfig
  <2>. QED  BY <1>2, <2>1, MisreadKeeps DEF SplitBefore
<1>3. CASE SplitAmid(n)
  <2>1. pc["main"] \notin OnConfig
    BY <1>3, ThenTable DEF SplitAmid, After, OnConfig
  <2>2. config' = config \/ Write(config, Cleared(status))
    BY <1>3, <2>1 DEF SplitAmid, OnConfig
  <2>3. edge \in BOOLEAN
    BY DEF DriverInv, DataOK
  <2>4. config' = config
    BY <2>2, <2>3, WriteIs, Zenon
  <2>. QED  BY <1>3, <2>1, <2>4, MisreadKeeps DEF SplitAmid
<1>. QED  BY <1>1, <1>2, <1>3

LEMMA TimerSplitsKeeps ==
  ASSUME DriverInv, TimerSplits
  PROVE  DriverInv'
<1>1. PICK n \in MainSteps :
        /\ SplitBefore(n) \/ SplitAmid(n) \/ SplitAfter(n)
        /\ pc' = [main |-> n, timer |-> Then("stopRx")]
        /\ split' = (split \/ (pc["main"] \in OnConfig /\ n # pc["main"]))
  BY Zenon DEF TimerSplits
<1>2. /\ pc["timer"] = "idle" /\ CE' = FALSE /\ disturbed' = TRUE
      /\ UNCHANGED <<back, isNewData>>
  BY DEF TimerSplits
<1>3. pc'["timer"] = "stopTx" /\ PCOK'
  <2>1. Then("stopRx") = "stopTx" /\ n \in Reading \cup {"idle"} \cup Sends
    BY ThenTable, SendSteps DEF MainSteps, Sends, Reading
  <2>. QED  BY <1>1, <2>1 DEF PCOK, Sends, Low
<1>4. DataOK'
  <2>1. txFifo' \in Seq(Threads) /\ Len(txFifo') <= 1
    <3>1. txFifo' = <<>> \/ txFifo' = <<"main">>
      BY <1>1, <1>2, SplitFrame, Zenon
    <3>2. <<"main">> \in Seq(Threads) /\ Len(<<"main">>) = 1
      BY DEF Threads
    <3>3. <<>> \in Seq(Threads) /\ Len(<<>>) <= 1
      OBVIOUS
    <3>4. Len(<<"main">>) <= 1
      BY <3>2
    <3>. QED  BY <3>1, <3>2, <3>3, <3>4, Zenon
  <2>2. /\ back' \in {"idle", "reset"} /\ isNewData' \in BOOLEAN /\ disturbed' \in BOOLEAN
        /\ split' \in BOOLEAN /\ CE' \in BOOLEAN
    BY <1>1, <1>2 DEF DriverInv, DataOK
  <2>3. /\ register' \in [Threads -> Config]
        /\ length' \in Frames \cup {Junk}
        /\ got' \in [frame : Frames \cup {Junk}, length : Frames \cup {Junk}]
    BY <1>1, SplitLocals, Zenon
  <2>4. /\ config' \in Config /\ status' \subseteq {"received", "sent"}
        /\ edge' \in BOOLEAN /\ onAir' = onAir
        /\ rxFifo' \in Seq(Frames) /\ Len(rxFifo') <= RX_FIFO
    BY <1>1, SplitChip, Zenon
  <2>5. onAir' \in BOOLEAN
    BY <2>4 DEF DriverInv, DataOK
  <2>. QED  BY <2>1, <2>2, <2>3, <2>4, <2>5 DEF DataOK
<1>5. TxInv'
  <2>1. /\ txFifo' = <<>> \/ txFifo' = <<"main">>
        /\ onAir' => txFifo' # <<>>
    BY <1>1, <1>2, SplitFrame, Zenon
  <2>. QED  BY <1>3, <2>1 DEF TxInv
<1>6. ChipInv'
  BY <1>2, <1>3 DEF ChipInv, AsSender, AsReceiver
<1>7. CopyInv'
  <2>. SUFFICES ASSUME ~ split'
                PROVE  /\ config'.crc16 /\ ~ config'.masked
                       /\ \A t \in Threads : register'[t].crc16 /\ ~ register'[t].masked
    BY DEF CopyInv
  <2>1. ~ split /\ UNCHANGED <<config, register>>
    BY <1>1, SplitCopies, Zenon
  <2>. QED  BY <2>1 DEF DriverInv, CopyInv
<1>8. FrameInv'
  BY <1>2, <1>3 DEF FrameInv, Fresh
<1>. QED  BY <1>3, <1>4, <1>5, <1>6, <1>7, <1>8 DEF DriverInv

-----------------------------------------------------------------------------
\* interruptHandler and the chip preserve the invariant.

LEMMA InterruptHandlerKeeps ==
  ASSUME DriverInv, InterruptHandler
  PROVE  DriverInv'
<1>1. DataOK'
  BY DEF InterruptHandler, DriverInv, DataOK
<1>2. PCOK' /\ TxInv' /\ ChipInv'
  BY DEF InterruptHandler, DriverInv, PCOK, TxInv, ChipInv, Listening, Sending
<1>3. CopyInv' /\ FrameInv'
  BY DEF InterruptHandler, DriverInv, CopyInv, FrameInv
<1>. QED  BY <1>1, <1>2, <1>3 DEF DriverInv

LEMMA ReceiveKeeps ==
  ASSUME DriverInv, NEW f \in Frames, Receive(f)
  PROVE  DriverInv'
<1>1. /\ CE /\ config.receiver
      /\ UNCHANGED <<pc, back, register, length, got, isNewData, disturbed, split,
                     CE, txFifo, onAir>>
  BY DEF Receive, Listening, program
<1>2. config' = config /\ status' = status \cup {"received"} /\ edge' \in BOOLEAN
  BY WriteIs, Zenon DEF Receive, DriverInv, DataOK
<1>3. /\ rxFifo' \in Seq(Frames) /\ Len(rxFifo') = Len(rxFifo) + 1 /\ rxFifo' # <<>>
      /\ rxFifo # <<>> => Head(rxFifo') = Head(rxFifo) /\ Len(rxFifo) >= 1
      /\ Len(rxFifo') <= RX_FIFO
  BY RadioAssumption DEF Receive, DriverInv, DataOK
<1>4. DataOK'
  BY <1>1, <1>2, <1>3 DEF DriverInv, DataOK
<1>5. PCOK' /\ TxInv' /\ ChipInv' /\ CopyInv'
  BY <1>1, <1>2 DEF DriverInv, PCOK, TxInv, ChipInv, CopyInv, Listening, Sending
<1>6. pc["timer"] \notin Fresh
  BY <1>1 DEF DriverInv, ChipInv, Low, Fresh
<1>7. ~ disturbed /\ pc["timer"] = "idle" => pc["main"] \notin Low \cup AsSender
  BY <1>1 DEF DriverInv, FrameInv
<1>8. FrameInv'
  BY <1>1, <1>2, <1>3, <1>6, <1>7 DEF DriverInv, DataOK, FrameInv, Low, Fresh
<1>. QED  BY <1>4, <1>5, <1>8 DEF DriverInv

LEMMA SentKeeps ==
  ASSUME DriverInv, Sent
  PROVE  DriverInv'
<1>1. /\ onAir /\ onAir' = FALSE /\ txFifo' = Tail(txFifo)
      /\ UNCHANGED <<pc, back, register, length, got, isNewData, disturbed, split,
                     CE, rxFifo>>
  BY DEF Sent, program
<1>2. config' = config /\ status' = status \cup {"sent"} /\ edge' \in BOOLEAN
  BY WriteIs, Zenon DEF Sent, DriverInv, DataOK
<1>3. txFifo' \in Seq(Threads) /\ txFifo' = <<>> /\ Len(txFifo') = 0
  BY <1>1 DEF DriverInv, DataOK, TxInv
<1>4. DataOK'
  <2>1. status' \subseteq {"received", "sent"} /\ config' \in Config
    BY <1>2 DEF DriverInv, DataOK
  <2>2. txFifo' \in Seq(Threads) /\ Len(txFifo') <= 1
    BY <1>3
  <2>4. onAir' \in BOOLEAN
    BY <1>1
  <2>3. UNCHANGED <<back, register, length, got, isNewData, disturbed, split, CE, rxFifo>>
    BY <1>1
  <2>. QED  BY <1>2, <2>1, <2>2, <2>3, <2>4 DEF DriverInv, DataOK
<1>5. TxInv'
  BY <1>1, <1>3 DEF DriverInv, TxInv
<1>6. PCOK' /\ ChipInv' /\ CopyInv'
  BY <1>1, <1>2 DEF DriverInv, PCOK, ChipInv, CopyInv, Listening, Sending
<1>7. FrameInv'
  BY <1>1, <1>2 DEF DriverInv, FrameInv
<1>. QED  BY <1>4, <1>5, <1>6, <1>7 DEF DriverInv

-----------------------------------------------------------------------------
LEMMA DriverInit == Init => DriverInv
<1>. SUFFICES ASSUME Init PROVE DriverInv
  OBVIOUS
<1>1. pc["main"] = "idle" /\ pc["timer"] = "idle"
      /\ pc = [main |-> pc["main"], timer |-> pc["timer"]]
  BY DEF Init, Threads
<1>2. PCOK
  BY <1>1 DEF PCOK
<1>3. Ready \in Config /\ Ready.powered /\ Ready.receiver /\ Ready.crc16 /\ ~ Ready.masked
  BY DEF Ready, Config
<1>4. DataOK
  <2>1. register \in [Threads -> Config] /\ config \in Config
    BY <1>3 DEF Init
  <2>2. got \in [frame : Frames \cup {Junk}, length : Frames \cup {Junk}]
    BY DEF Init, Nothing
  <2>3. /\ rxFifo \in Seq(Frames) /\ Len(rxFifo) <= RX_FIFO
        /\ txFifo \in Seq(Threads) /\ Len(txFifo) <= 1
    BY EmptyIs, RadioAssumption DEF Init
  <2>. QED  BY <2>1, <2>2, <2>3 DEF Init, DataOK
<1>5. TxInv /\ ChipInv
  BY <1>1, <1>3 DEF Init, TxInv, ChipInv, Low, AsSender, AsReceiver, Listening
<1>6. CopyInv
  BY <1>3 DEF Init, CopyInv
<1>7. FrameInv
  BY <1>1 DEF Init, FrameInv, Fresh, Low, AsSender
<1>. QED  BY <1>2, <1>4, <1>5, <1>6, <1>7 DEF DriverInv

LEMMA DriverStep == DriverInv /\ [Next]_vars => DriverInv'
<1>. SUFFICES ASSUME DriverInv, [Next]_vars  PROVE DriverInv'
  OBVIOUS
<1>1. CASE MainLoop
  BY <1>1, DoReadKeeps, SendDataKeeps, WhatHappenedKeeps, GetDynamicPayloadSizeKeeps,
     ReadKeeps, HandleKeeps, ResetKeeps DEF MainLoop
<1>2. ASSUME NEW t \in Threads, SendStep(t)  PROVE DriverInv'
  BY <1>2, StepCEKeeps, FlushRxKeeps, FlushTxKeeps, ReadConfigKeeps, WriteConfigKeeps,
     WritePayloadKeeps, WaitKeeps, ClearStatusKeeps DEF SendStep
<1>3. CASE TimerFires \/ TimerSplits \/ InterruptHandler
  BY <1>3, TimerFiresKeeps, TimerSplitsKeeps, InterruptHandlerKeeps
<1>4. CASE (\E f \in Frames : Receive(f)) \/ Sent
  BY <1>4, ReceiveKeeps, SentKeeps
<1>5. CASE UNCHANGED vars
  BY <1>5 DEF vars, DriverInv, PCOK, DataOK, TxInv, ChipInv, CopyInv, FrameInv,
     Listening, Sending
<1>. QED  BY <1>1, <1>2, <1>3, <1>4, <1>5 DEF Next

\* The parts above hold together in every state, whatever interleaving of the
\* main loop, timer_handler, interruptHandler and the chip leads there.
THEOREM DriverInvariant == Spec => []DriverInv
BY DriverInit, DriverStep, PTL DEF Spec

\* Every variable keeps its type; the TX FIFO never holds more than the frame of
\* one thread, since each send flushes it before it writes (sendRadioData).
THEOREM DriverTypeCorrect == Spec => []TypeOK
<1>1. DriverInv => TypeOK
  BY TypeIs DEF DriverInv
<1>. QED  BY <1>1, DriverInvariant, PTL

\* Wherever the timer's pings interrupt the sends of the main loop, a node that
\* is not sending has its receiver on, and hears as long as no signal landed
\* within a transaction (nrfStopListening, nrfStartWrite, nrfStartListening).
THEOREM NodeHears == Spec => []Hears
<1>1. DriverInv => Hears
  <2>. SUFFICES ASSUME DriverInv, pc["timer"] = "idle", ~ InSend(pc["main"])
                PROVE  Listening /\ (split \/ Hearing)
    BY DEF Hears
  <2>1. pc["main"] \notin Sends
    BY SendSteps DEF InSend, Sends
  <2>2. Listening
    BY <2>1 DEF DriverInv, PCOK, ChipInv
  <2>. QED  BY <2>2 DEF DriverInv, CopyInv, Hearing
<1>. QED  BY <1>1, DriverInvariant, PTL

\* The pulse that sends the timer's ping finds a sender in standby whose FIFO
\* holds this ping only, whatever the main loop had put there (nrfStartWrite).
THEOREM PingGoesAlone == Spec => []PingAlone
<1>1. DriverInv => PingAlone
  BY DEF DriverInv, TxInv, ChipInv, Low, AsSender, PingAlone
<1>. QED  BY <1>1, DriverInvariant, PTL

\* doRead handles one frame as it arrived, with its own length, unless a ping got
\* in between two transactions of its round, however many frames the chip holds.
THEOREM HandlesWholeFrames == Spec => []WholeFrames
<1>1. DriverInv => WholeFrames
  BY DEF DriverInv, FrameInv, WholeFrames
<1>. QED  BY <1>1, DriverInvariant, PTL
=============================================================================
