---------------------------- MODULE Modems_proofs ----------------------------
(***************************************************************************)
(* The drivers of the WiFi modems on a TCP connection: for every size of   *)
(* the buffers and every number of bytes, none is lost, repeated or        *)
(* swapped between the application and the peer, in either direction, and  *)
(* payload is never parsed.                                                *)
(***************************************************************************)
EXTENDS Exchange_proofs

(* A step of the driver that leaves the data where it is.                    *)
Keeps ==
  /\ DOMAIN dev' = Fields
  /\ dev'.readBuffer = dev.readBuffer /\ dev'.writeBuffer = dev.writeBuffer
  /\ dev'.type = dev.type /\ dev'.lbFill = dev.lbFill
  /\ dev'.bytesToReceive = dev.bytesToReceive /\ dev'.bytesToRead = dev.bytesToRead
KeepsRequests == dev'.rssi = dev.rssi /\ dev'.idRequest = dev.idRequest

(* The gates let it through, and run() ends.                                 *)
Gated ==
  /\ step = "send" /\ step' = "off" /\ serialOpen' = serialOpen
  /\ reply = NULL /\ dev.replyState = "okReply"

LEMMA EndRunIs == EndRun => Gated
BY DEF EndRun, MaySend, Gated, reply

LEMMA NullIsNoReply == NULL \notin Awaited /\ NULL # Confirmation
<1>1. NULL \notin Awaited
  BY DEF NULL, Awaited
<1>2. NULL # Confirmation
  BY DEF NULL, Confirmation
<1> QED
  BY <1>1, <1>2

(* What the driver finds when the gates let it through.                      *)
LEMMA GatedFinds ==
  ASSUME Good, Gated
  PROVE  /\ ~Fetching
         /\ dev.sendState # "sendDataState" =>
              /\ ~Restarting /\ prompt = 0 /\ tx = <<>> /\ Asked = NoText
              /\ dev.bytesToRead = 0 => Resting
         /\ dev.bytesToRead # 0 => \E m \in Nat : Receiving(m) /\ Down(m)
<1>1. PICK p \in Nat, m \in Nat : Exchange(p, m) /\ Down(m)
  BY DEF Good, Talk
<1>2. ~Fetching
  BY DEF Gated, Fetching
<1>3. Resting \/ Receiving(m)
  <2>1. NULL # ">" /\ NULL # "OK"
    BY DEF NULL
  <2> QED
    BY <1>1, <1>2, <2>1, NullIsNoReply
       DEF Exchange, Gated, Asking, Replied, Prompting, Sending, Refused, Dropping, Fetched
<1>4. dev.sendState # "sendDataState" => ~Restarting
  BY <1>2 DEF Good, Steady, Resets, Gated
<1>5. dev.sendState # "sendDataState" => prompt = 0 /\ tx = <<>>
  BY <1>3 DEF Resting, Receiving, Prompted, Quieted
<1> QED
  BY <1>1, <1>2, <1>3, <1>4, <1>5 DEF Asked, Resting, Receiving

(* A step of the driver in which nothing comes or goes.                      *)
LEMMA QuietTurn ==
  ASSUME Good, NothingElse, Gated, Keeps, KeepsRequests, rx' = rx, tx' = tx,
         dev'.bytesToWrite = dev.bytesToWrite, reply' = NULL, dev'.replyState = "okReply",
         dev.sendState # "sendDataState", dev'.sendState # "sendDataState",
         Restarting' <=> Restarting, ~Has(dev', "DISCONNECT_PENDING"),
         Has(dev', "LINE_READ") <=> Has(dev, "LINE_READ"),
         dev.bytesToRead # 0 => dev'.sendState = "receiving",
         Life'
  PROVE  Good'
<1>1. Typed'
  BY DEF Good, Typed, Keeps, NothingElse
<1>2. Silent
  BY DEF Silent, Keeps, Gated, Prompted, Fetching, Is, NothingElse
<1>3. Flags'
  BY DEF Good, Steady, Flags, Keeps, NothingElse
<1>4. Waiting'
  BY DEF Waiting, NULL
<1>5. Unasked'
  BY DEF Good, Steady, Unasked, Keeps, KeepsRequests, NothingElse, Gated
<1>6. Resets'
  BY GatedFinds DEF Resets, Gated
<1> QED
  BY <1>1, <1>2, <1>3, <1>4, <1>5, <1>6, SilentStep DEF Good, Steady, NothingElse

(* A step of the driver that sends a command.                                *)
LEMMA SpeakTurn ==
  ASSUME Good, NothingElse, Gated, Keeps, rx' = rx, dev.bytesToRead = 0,
         NEW c \in Tokens, c.kind = "line", tx' = tx \o <<c>>,
         dev.sendState # "sendDataState",
         Restarting' <=> Restarting, ~Has(dev', "DISCONNECT_PENDING"),
         Has(dev', "LINE_READ"),
         \/ Fetching' /\ reply' = NULL /\ c.text = "AT+CIPRECVDATA" /\ c.n >= 1
         \/ /\ ~Fetching' /\ reply' \in Awaited /\ c.text \in Commands(reply)'
            /\ reply' = ">" => c.n = dev'.bytesToWrite,
         dev'.bytesToWrite \in Int,
         Waiting', Unasked', Life'
  PROVE  Good'
<1>1. /\ ~Restarting /\ prompt = 0 /\ tx = <<>> /\ Resting
  BY GatedFinds
<1>2. Speaks(c)
  BY DEF Speaks, NothingElse, Stream, Keeps
<1>3. Asking' /\ Carried = 0 /\ Carried' = 0 /\ tx' \in Seq(Tokens)
  BY <1>1, <1>2, SpeaksStep
<1>4. Typed'
  BY <1>3 DEF Good, Typed, Keeps, NothingElse
<1>5. Flags'
  BY DEF Good, Steady, Flags, Keeps, NothingElse
<1>6. Resets'
  BY <1>1 DEF Resets
<1>7. Up'
  <2>1. Lost => Lost'
    BY <1>1 DEF Lost, NothingElse
  <2> QED
    BY <1>3, <2>1, UpKept DEF Good, Talk, NothingElse, Keeps
<1>8. PICK p \in Nat, m \in Nat : Exchange(p, m) /\ Down(m)
  BY DEF Good, Talk
<1>9. m = 0
  BY <1>1, <1>8 DEF Exchange, Resting, Fetched, Receiving
<1>10. Exchange(0, 0)'
  BY <1>3 DEF Exchange
<1>11. Down(0)'
  BY <1>8, <1>9, DownKept DEF NothingElse, Keeps
<1> QED
  BY <1>4, <1>5, <1>6, <1>7, <1>10, <1>11 DEF Good, Talk, Steady, NothingElse

-----------------------------------------------------------------------------
(* The steps of the driver in which nothing comes or goes.                   *)

LEMMA CaseIs ==
  ASSUME NEW state, Case(state)
  PROVE  Gated /\ dev.sendState = state /\ reply = NULL /\ dev.replyState = "okReply"
BY EndRunIs DEF Case, Gated

LEMMA NotConnectedStep ==
  ASSUME Good, NothingElse, NotConnected
  PROVE  Good'
<1>1. Gated /\ dev.sendState = "notConnected"
  BY CaseIs DEF NotConnected
<1>2. /\ rx' = rx /\ tx' = tx /\ Keeps /\ KeepsRequests
      /\ dev'.bytesToWrite = dev.bytesToWrite /\ reply' = reply
      /\ dev'.replyState = dev.replyState /\ dev'.connectState = "notConnected"
      /\ dev'.stateBooleans = dev.stateBooleans \ {"CONNECT_PENDING"}
      /\ dev'.sendState =
           IF "CONNECT_PENDING" \in dev.stateBooleans THEN "connecting" ELSE "notConnected"
  BY <1>1 DEF Good, Typed, NotConnected, HandleConnect, Report, Goto, Lift, Has, Fields,
              Keeps, KeepsRequests, reply
<1>3. Life'
  BY <1>1, <1>2 DEF Good, Life, Fresh, Opening, Active, Over, Zero, Asked, Has, Fetching, Is,
                    IsConnected, Closed, NothingElse, Keeps, Gated
<1>4. dev.bytesToRead = 0
  BY <1>1 DEF Good, Steady, Flags
<1> QED
  BY <1>1, <1>2, <1>3, <1>4, QuietTurn DEF Gated, Has, Restarting, Good, Steady, Flags

LEMMA FinalizeConnectStep ==
  ASSUME Good, NothingElse, FinalizeConnect
  PROVE  Good'
<1>1. Gated /\ dev.sendState = "finalizeConnect"
  BY CaseIs DEF FinalizeConnect
<1>2. /\ rx' = rx /\ tx' = tx /\ Keeps /\ KeepsRequests
      /\ dev'.bytesToWrite = dev.bytesToWrite /\ reply' = reply
      /\ dev'.replyState = dev.replyState /\ dev'.connectState = "connected"
      /\ dev'.stateBooleans = dev.stateBooleans \cup {"IP_CONNECTED"}
      /\ dev'.sendState = "connected"
  BY <1>1 DEF Good, Typed, FinalizeConnect, Report, Goto, Raise, Fields,
              Keeps, KeepsRequests, reply
<1>3. Asked = NoText /\ ~Restarting
  BY <1>1, GatedFinds
<1>4. ~Denied
  BY <1>1, <1>3, NoTextIsNone DEF Denied, Gated, NULL
<1>5. Life'
  BY <1>1, <1>2, <1>3, <1>4
     DEF Good, Life, Fresh, Opening, Active, Over, Asked, Has, Fetching, Is,
         Closed, NothingElse, Keeps, Gated
<1>6. dev.bytesToRead = 0
  BY <1>1 DEF Good, Steady, Flags
<1> QED
  BY <1>1, <1>2, <1>5, <1>6, QuietTurn DEF Gated, Has, Restarting, Good, Steady, Flags

LEMMA ConnectedReceivesStep ==
  ASSUME Good, NothingElse, NEW next \in {"sendCiprecvdata", "receiving"},
         ConnectedReceives(next)
  PROVE  Good'
<1>1. Gated /\ dev.sendState = "connected"
  BY CaseIs DEF ConnectedReceives
<1>2. /\ rx' = rx /\ tx' = tx /\ Keeps /\ KeepsRequests
      /\ dev'.bytesToWrite = dev.bytesToWrite /\ reply' = reply
      /\ dev'.replyState = dev.replyState /\ dev'.connectState = "receiving"
      /\ dev'.stateBooleans = dev.stateBooleans \ {"DATA_PENDING"}
      /\ dev'.sendState = next
  BY <1>1 DEF Good, Typed, ConnectedReceives, Report, Goto, Lift, Fields,
              Keeps, KeepsRequests, reply
<1>3. Life'
  BY <1>1, <1>2 DEF Good, Life, Fresh, Opening, Active, Over, Asked, Has, Fetching, Is,
                    Closed, NothingElse, Keeps, Gated
<1>4. dev.bytesToRead = 0
  BY <1>1 DEF Good, Steady, Flags
<1> QED
  BY <1>1, <1>2, <1>3, <1>4, QuietTurn DEF Gated, Has, Restarting, Good, Steady, Flags

LEMMA ConnectedIdleStep ==
  ASSUME Good, NothingElse, NEW lost \in {"sendCwqap", "finalizeDisconnect"},
         ConnectedIdle(CloseOrStay(Report(dev, "connected"), lost, "sendCipclose"))
  PROVE  Good'
<1>1. Gated /\ dev.sendState = "connected" /\ ~Has(dev, "DISCONNECT_PENDING")
  BY CaseIs DEF ConnectedIdle, Good, Steady, Flags
<1>2. /\ rx' = rx /\ tx' = tx /\ Keeps /\ KeepsRequests
      /\ dev'.bytesToWrite = dev.bytesToWrite /\ reply' = reply
      /\ dev'.replyState = dev.replyState /\ dev'.connectState = "connected"
      /\ dev'.stateBooleans = dev.stateBooleans \ {"DISCONNECT_PENDING"}
      /\ dev'.sendState \in {lost, "connected"}
  <2>1. CASE Has(dev, "IP_CONNECTED")
    <3>1. dev' = Report(dev, "connected")
      BY <1>1, <2>1 DEF ConnectedIdle, CloseOrStay, HandleDisconnect, Report, Has, Good, Typed,
         Fields
    <3> QED
      BY <3>1, <1>1 DEF Good, Typed, Report, Fields, Keeps, KeepsRequests, reply, ConnectedIdle, Has
  <2>2. CASE ~Has(dev, "IP_CONNECTED")
    BY <1>1, <2>2 DEF ConnectedIdle, CloseOrStay, Leave, Lift, Goto, Report, Has, Good, Typed,
       Fields,
      Keeps, KeepsRequests, reply
  <2> QED
    BY <2>1, <2>2
<1>3. Asked = NoText
  BY <1>1, GatedFinds
<1>4. Life'
  BY <1>1, <1>2, <1>3, NoTextIsNone
     DEF Good, Life, Fresh, Opening, Active, Over, Asked, Has, Fetching, Is,
         Closed, NothingElse, Keeps, Gated
<1>5. dev.bytesToRead = 0
  BY <1>1 DEF Good, Steady, Flags
<1> QED
  BY <1>1, <1>2, <1>4, <1>5, QuietTurn DEF Gated, Has, Restarting, Good, Steady, Flags

LEMMA EndRequestsStep ==
  ASSUME Good, NothingElse, EndRequests("sendCiprecvdata", "sendCipclose", "connected")
  PROVE  Good'
<1>1. /\ Gated /\ dev.sendState = "sendCiprecvdata"
      /\ "DISCONNECT_PENDING" \notin dev.stateBooleans
  BY CaseIs DEF EndRequests, Good, Steady, Flags, Has
<1>2. /\ rx' = rx /\ tx' = tx /\ Keeps /\ KeepsRequests
      /\ dev'.bytesToWrite = dev.bytesToWrite /\ reply' = reply
      /\ dev'.replyState = dev.replyState /\ dev'.connectState = dev.connectState
      /\ dev'.stateBooleans = dev.stateBooleans
      /\ dev'.sendState = "connected"
  BY <1>1 DEF Good, Typed, EndRequests, Goto, Has, Fields, Keeps, KeepsRequests, reply
<1>3. Life'
  BY <1>1, <1>2 DEF Good, Life, Fresh, Opening, Active, Over, Asked, Has, Fetching, Is,
                    Closed, NothingElse, Keeps, Gated
<1>4. dev.bytesToRead = 0
  BY <1>1 DEF Good, Steady, Flags
<1> QED
  BY <1>1, <1>2, <1>3, <1>4, QuietTurn DEF Gated, Has, Restarting, Good, Steady, Flags

LEMMA ReceivedPayloadStep ==
  ASSUME Good, NothingElse, ReceivedPayload("sendCiprecvdata", "connected")
  PROVE  Good'
<1>1. Gated /\ dev.sendState = "receiving" /\ dev.bytesToRead = 0
  BY CaseIs DEF ReceivedPayload
<1>2. /\ rx' = rx /\ tx' = tx /\ Keeps /\ KeepsRequests
      /\ dev'.bytesToWrite = dev.bytesToWrite /\ reply' = reply
      /\ dev'.replyState = dev.replyState /\ dev'.connectState = dev.connectState
      /\ dev'.stateBooleans = dev.stateBooleans
      /\ dev'.sendState \in {"sendCiprecvdata", "connected"}
  BY <1>1 DEF Good, Typed, ReceivedPayload, Goto, Fields, Keeps, KeepsRequests, reply
<1>3. Life'
  BY <1>1, <1>2 DEF Good, Life, Fresh, Opening, Active, Over, Asked, Has, Fetching, Is,
                    Closed, NothingElse, Keeps, Gated
<1> QED
  BY <1>1, <1>2, <1>3, QuietTurn DEF Gated, Has, Restarting, Good, Steady, Flags

LEMMA FinalizeDisconnectStep ==
  ASSUME Good, NothingElse, FinalizeDisconnect
  PROVE  Good'
<1>1. Gated /\ dev.sendState = "finalizeDisconnect"
  BY CaseIs DEF FinalizeDisconnect
<1>2. /\ rx' = rx /\ tx' = tx /\ Keeps /\ KeepsRequests
      /\ dev'.bytesToWrite = dev.bytesToWrite /\ reply' = reply
      /\ dev'.replyState = dev.replyState /\ dev'.connectState = "notConnected"
      /\ dev'.stateBooleans = dev.stateBooleans \ {"IP_CONNECTED"}
      /\ dev'.sendState = "notConnected"
  BY <1>1 DEF Good, Typed, FinalizeDisconnect, Goto, Report, Lift, Fields, Keeps,
              KeepsRequests, reply
<1>3. Life'
  BY <1>1, <1>2 DEF Good, Life, Fresh, Opening, Active, Over, Asked, Has, Fetching, Is,
                    IsConnected, Zero, Closed, NothingElse, Keeps, Gated
<1>4. dev.bytesToRead = 0
  BY <1>1 DEF Good, Steady, Flags
<1> QED
  BY <1>1, <1>2, <1>3, <1>4, QuietTurn DEF Gated, Has, Restarting, Good, Steady, Flags

(* Nothing changes but where run() is.                                       *)
SameDevice ==
  /\ Keeps /\ KeepsRequests
  /\ dev'.bytesToWrite = dev.bytesToWrite /\ dev'.stateBooleans = dev.stateBooleans
  /\ dev'.sendState = dev.sendState /\ dev'.connectState = dev.connectState
  /\ dev'.waitForReply = dev.waitForReply /\ dev'.replyState = dev.replyState

LEMMA Unchanged == DOMAIN dev = Fields /\ dev' = dev => SameDevice
BY DEF SameDevice, Keeps, KeepsRequests

LEMMA SameDeviceStep ==
  ASSUME Good, NothingElse, SameDevice, rx' = rx, tx' = tx
  PROVE  Typed' /\ Flags' /\ Waiting' /\ Life' /\ Talk' /\ detector' = "none"
<1>1. Typed'
  BY DEF Good, Typed, NothingElse, SameDevice, Keeps
<1>2. Flags' /\ Waiting'
  BY DEF Good, Steady, Flags, Waiting, NothingElse, Fetching, Is, reply, Has, SameDevice, Keeps
<1>3. Stream' = Stream /\ reply' = reply /\ (Restarting' <=> Restarting)
  BY DEF Stream, reply, Restarting, Has, NothingElse, SameDevice
<1>4. Life'
  <2>1. Asked' = Asked /\ (Fetching' <=> Fetching) /\ (IsConnected(dev)' <=> IsConnected(dev))
        /\ (Is("cc1352p7")' <=> Is("cc1352p7")) /\ (Zero' <=> Zero)
        /\ \A f : Has(dev, f)' <=> Has(dev, f)
    BY DEF Asked, Fetching, Is, IsConnected, NothingElse, Zero, Has, SameDevice, Keeps
  <2>2. Denied => Denied'
    BY <1>3, <2>1 DEF Denied
  <2> QED
    BY <2>1, <2>2 DEF Good, Life, Fresh, Opening, Active, Over, NothingElse, SameDevice, Keeps
<1>5. Silent
  BY <1>3 DEF Silent, Fetching, Is, NothingElse, Prompted, SameDevice, Keeps
<1> QED
  BY <1>1, <1>2, <1>4, <1>5, SilentStep DEF Good, NothingElse

LEMMA OtherStateStep ==
  ASSUME Good, NothingElse, OtherState
  PROVE  Good'
<1>1. Gated /\ dev' = dev /\ rx' = rx /\ tx' = tx
  BY CaseIs DEF OtherState
<1>2. Unasked' /\ Resets'
  BY <1>1 DEF Good, Steady, Unasked, Resets, Gated, NothingElse, Fetching, Is, reply,
              Restarting, NeverResets, Has
<1> QED
  BY <1>1, <1>2, Unchanged, SameDeviceStep DEF Good, Typed, Steady

LEMMA WaitStep ==
  ASSUME Good, NothingElse, Wait
  PROVE  Good'
<1>1. dev' = dev /\ rx' = rx /\ tx' = tx /\ step' = "off" /\ serialOpen' = serialOpen
  BY DEF Wait
<1>2. Unasked' /\ Resets'
  BY <1>1 DEF Good, Steady, Unasked, Resets, NothingElse, Fetching, Is, reply,
              Restarting, NeverResets, Has
<1> QED
  BY <1>1, <1>2, Unchanged, SameDeviceStep DEF Good, Typed, Steady

LEMMA OpenSerialStep ==
  ASSUME Good, NothingElse, OpenSerial
  PROVE  Good'
<1>1. /\ step = "off" /\ step' = "off" /\ rx' = rx /\ tx' = tx /\ ~serialOpen
      /\ dev.sendState \in {"notConnected", "serialError"}
  BY DEF OpenSerial, Good, Steady, Unasked
<1>2. /\ Keeps /\ KeepsRequests
      /\ dev'.bytesToWrite = dev.bytesToWrite /\ dev'.stateBooleans = dev.stateBooleans
      /\ dev'.connectState = dev.connectState
      /\ dev'.waitForReply = dev.waitForReply /\ dev'.replyState = dev.replyState
      /\ dev'.sendState \in {"notConnected", "serialError"}
  BY <1>1 DEF OpenSerial, Goto, Good, Typed, Fields, Keeps, KeepsRequests
<1>3. Typed'
  BY <1>1, <1>2 DEF Good, Typed, NothingElse, Keeps
<1>4. Steady'
  <2>1. dev.bytesToRead = 0
    BY <1>1 DEF Good, Steady, Flags
  <2>2. Flags' /\ Waiting'
    BY <1>1, <1>2, <2>1 DEF Good, Steady, Flags, Waiting, NothingElse, Fetching, Is, reply, Has,
       Keeps
  <2>3. Unasked' /\ Resets'
    BY <1>1, <1>2 DEF Good, Steady, Unasked, Resets, NothingElse, Fetching, Is, reply,
                      Restarting, NeverResets, Has, Keeps, KeepsRequests
  <2> QED
    BY <2>2, <2>3 DEF Steady
<1>5. Life'
  BY <1>1, <1>2 DEF Good, Life, Fresh, Opening, Active, Over, Asked, Has, Fetching, Is,
                    IsConnected, Zero, Closed, NothingElse, Keeps
<1>6. Silent
  BY <1>1, <1>2 DEF Silent, Fetching, Is, NothingElse, Prompted, Keeps, reply, Restarting, Has
<1> QED
  BY <1>3, <1>4, <1>5, <1>6, SilentStep DEF Good, NothingElse

-----------------------------------------------------------------------------
(* The parser of a line.                                                     *)

(* The kinds of tokens at which the driver ends a line: where it waits for    *)
(* payload, the header is among them.                                        *)
EndsLines(kinds) ==
  "line" \in kinds /\ (Is("espressif") /\ Fetching => "header" \in kinds)

(* While the driver reads lines, the next token is one.                      *)
LEMMA NextIsLine ==
  ASSUME Good, Has(dev, "LINE_READ"), rx # <<>>
  PROVE  /\ rx[1].kind # "byte" /\ rx[1] = Coming /\ Stream # <<>> /\ Coming = Head(rx)
         /\ Stream \in Seq(Tokens) /\ Seen \in Int
         /\ \A kinds : EndsLines(kinds) => rx[1].kind \in kinds
         /\ \E p, m \in Nat : Exchange(p, m) /\ Down(m) /\ ~Receiving(m)
<1>1. rx \in Seq(Tokens) /\ line \in Seq(Tokens) /\ dev.bytesToRead = 0
  BY DEF Good, Typed, Steady, Flags
<1>2. PICK p \in Nat, m \in Nat : Exchange(p, m) /\ Down(m)
  BY DEF Good, Talk
<1>3. ~Receiving(m)
  BY <1>1 DEF Receiving
<1>4. /\ Stream \in Seq(Tokens) /\ Stream # <<>> /\ Coming = Head(rx) /\ Head(rx) = rx[1]
  BY <1>1, StreamIs, TakeNotice DEF Stream, Coming
<1>5. Seen \in Int
  BY LenProperties DEF Good, Typed, Seen
<1>6. \/ Coming.kind = "line"
      \/ Fetching /\ Coming = PayloadHeader(m)
  BY <1>2, <1>3, <1>4, <1>5, Comes DEF IsNotice, Fetched
<1>7. \/ Coming.kind = "line"
      \/ Is("espressif") /\ Fetching /\ Coming.kind = "header"
  BY <1>6 DEF PayloadHeader, Line, Header
<1> QED
  BY <1>2, <1>3, <1>4, <1>5, <1>7 DEF EndsLines

LEMMA HeadEnds ==
  ASSUME NEW q \in Seq(Tokens), q # <<>>, NEW kinds, q[1].kind \in kinds
  PROVE  EndsIn(q, kinds) # {} /\ FirstEnd(q, kinds) = 1 /\ Drop(q, 1) = Tail(q)
<1>1. Len(q) \in Nat \ {0} /\ DOMAIN q = 1 .. Len(q)
  BY TakeNotice, LenProperties
<1>2. 1 \in EndsIn(q, kinds) /\ \A k \in EndsIn(q, kinds) : k \in Int /\ 1 <= k
  BY <1>1 DEF EndsIn
<1>3. \A k \in EndsIn(q, kinds) : (\A j \in EndsIn(q, kinds) : k <= j) => k = 1
  BY <1>2
<1>4. FirstEnd(q, kinds) = 1
  BY <1>2, <1>3 DEF FirstEnd
<1>5. Drop(q, 1) = Tail(q)
  BY <1>1 DEF Drop
<1> QED
  BY <1>2, <1>4, <1>5

LEMMA LineIsNext ==
  ASSUME Good, NEW kinds, EndsLines(kinds), Has(dev, "LINE_READ"), rx # <<>>
  PROVE  /\ FillsLine(dev, kinds) /\ FilledLine(dev, kinds) = Coming
         /\ RestAfterFill(dev, kinds) = Tail(rx)
<1>1. rx \in Seq(Tokens) /\ dev.lbFill = FALSE
  BY DEF Good, Typed, Steady, Flags
<1>2. rx[1].kind \in kinds /\ rx[1] = Coming
  BY NextIsLine
<1>3. EndsIn(rx, kinds) # {} /\ FirstEnd(rx, kinds) = 1 /\ Drop(rx, 1) = Tail(rx)
  BY <1>1, <1>2, HeadEnds
<1> QED
  BY <1>1, <1>2, <1>3 DEF FillsLine, FilledLine, RestAfterFill

(* There is no line to take.                                                 *)
LEMMA FillNothingStep ==
  ASSUME Good, NothingElse, NEW kinds, EndsLines(kinds), FillNothing(kinds),
         Restarting => NeverResets
  PROVE  Good'
<1>1. ~Flushes(dev) /\ dev.lbFill = FALSE
  BY DEF Good, Steady, Flags, Flushes
<1>2. Has(dev, "LINE_READ") => rx = <<>>
  BY LineIsNext DEF FillNothing
<1>3. RestAfterFill(dev, kinds) = rx
  BY <1>2 DEF RestAfterFill, FillNothing
<1>4. /\ rx' = rx /\ tx' = tx /\ step' = "send" /\ serialOpen' = serialOpen /\ serialOpen
      /\ dev' = FillLineBuffer(dev, kinds)
  BY <1>1, <1>3 DEF FillNothing, Starts
<1>5. SameDevice
  BY <1>1, <1>2, <1>4 DEF FillNothing, FillLineBuffer, FillsLine, SameDevice, Keeps,
                          KeepsRequests, Good, Typed, Fields
<1>6. Unasked' /\ Resets'
  BY <1>4, <1>5 DEF Good, Steady, Unasked, Resets, NothingElse, Fetching, Is, reply,
                    Restarting, NeverResets, Has, SameDevice, Keeps, KeepsRequests
<1> QED
  BY <1>4, <1>5, <1>6, SameDeviceStep DEF Good, Steady

(* A line is taken: what it does to the exchange and to the driver.          *)
KeepsBuffers ==
  /\ DOMAIN dev' = Fields
  /\ dev'.readBuffer = dev.readBuffer /\ dev'.writeBuffer = dev.writeBuffer
  /\ dev'.type = dev.type /\ dev'.lbFill = FALSE
  /\ dev'.bytesToWrite = dev.bytesToWrite /\ dev'.bytesToReceive \in Int
  /\ dev'.rssi \in {dev.rssi, "known"} /\ dev'.idRequest = dev.idRequest
KeepsFlags ==
  /\ Has(dev', "DISCONNECT_PENDING") <=> Has(dev, "DISCONNECT_PENDING")
  /\ Has(dev', "CONNECT_PENDING") <=> Has(dev, "CONNECT_PENDING")

LEMMA TakeLineIs ==
  ASSUME Good, NothingElse, NEW kinds, EndsLines(kinds), TakeLine(kinds), KeepsBuffers
  PROVE  /\ Takes(Coming) /\ FilledLine(dev, kinds) = Coming /\ Stream \in Seq(Tokens)
         /\ Seen \in Int /\ rx' \in Seq(Tokens) /\ tx' = tx
         /\ step = "off" /\ serialOpen /\ serialOpen' = serialOpen
         /\ Has(dev, "LINE_READ") /\ dev.bytesToRead = 0 /\ Coming \in Tokens
         /\ \E p, m \in Nat : Exchange(p, m) /\ Down(m) /\ ~Receiving(m)
<1>1. Has(dev, "LINE_READ") /\ EndsIn(rx, kinds) # {}
  BY DEF TakeLine, FillsLine
<1>2. rx # <<>>
  BY <1>1 DEF EndsIn
<1>3. FilledLine(dev, kinds) = Coming /\ RestAfterFill(dev, kinds) = Tail(rx)
  BY <1>1, <1>2, LineIsNext
<1>4. /\ Coming = Head(rx) /\ Stream # <<>> /\ Stream \in Seq(Tokens) /\ Seen \in Int
      /\ \E p, m \in Nat : Exchange(p, m) /\ Down(m) /\ ~Receiving(m)
  BY <1>1, <1>2, NextIsLine
<1>5. rx \in Seq(Tokens) /\ line \in Seq(Tokens) /\ dev.bytesToRead = 0
  BY <1>1 DEF Good, Typed, Steady, Flags
<1>6. rx' = Tail(rx) /\ line' = line
  BY <1>3 DEF TakeLine, NothingElse
<1>7. rx' \in Seq(Tokens) /\ Stream' = Tail(Stream)
  BY <1>2, <1>5, <1>6, StreamIs DEF Stream
<1>8. Takes(Coming)
  BY <1>4, <1>7 DEF Takes, TakeLine, NothingElse, KeepsBuffers, Seen, Coming
<1>9. Coming \in Tokens
  BY <1>4, TakeNotice DEF Coming
<1> QED
  BY <1>1, <1>3, <1>4, <1>5, <1>7, <1>8, <1>9 DEF TakeLine, Starts

LEMMA TakenTyped ==
  ASSUME Good, NothingElse, KeepsBuffers, rx' \in Seq(Tokens), tx' = tx,
         dev'.bytesToRead \in Nat
  PROVE  Typed'
BY DEF Good, Typed, NothingElse, KeepsBuffers

LEMMA TakenUp ==
  ASSUME Good, NothingElse, KeepsBuffers, tx' = tx, Lost => Lost'
  PROVE  Up'
<1>1. Carried' = Carried
  BY DEF Carried
<1> QED
  BY <1>1, UpKept DEF Good, Talk, NothingElse, KeepsBuffers

LEMMA TakenUnasked ==
  ASSUME Good, NothingElse, KeepsBuffers, serialOpen, serialOpen'
  PROVE  Unasked'
BY DEF Good, Steady, Unasked, NothingElse, KeepsBuffers

(* A notice, or a line of an answer before the last.                         *)
LEMMA PassTurn ==
  ASSUME Good, NothingElse, NEW kinds, EndsLines(kinds), TakeLine(kinds), KeepsBuffers,
         KeepsFlags, Restarting' <=> Restarting, Restarting => NeverResets,
         Has(dev', "LINE_READ") <=> Has(dev, "LINE_READ"),
         Coming.text # "+CIPRECVDATA", reply' = reply, Fetching' <=> Fetching,
         dev'.bytesToRead = dev.bytesToRead, dev'.sendState = dev.sendState,
         dev'.connectState = dev.connectState
  PROVE  Good'
<1>1. /\ Takes(Coming) /\ Stream \in Seq(Tokens) /\ Seen \in Int /\ rx' \in Seq(Tokens)
      /\ tx' = tx /\ step = "off" /\ serialOpen /\ serialOpen' /\ dev.bytesToRead = 0
  BY TakeLineIs
<1>2. PICK p \in Nat, m \in Nat : Exchange(p, m) /\ Down(m) /\ ~Receiving(m)
  BY TakeLineIs
<1>3. Passes
  BY DEF Passes, Prompted, KeepsBuffers
<1>4. \E q \in Nat : Exchange(q, m)'
  <2>1. \/ m = 0 /\ Exchange(p, m)'
        \/ p > 1 /\ Exchange(p - 1, m)'
    BY <1>1, <1>2, <1>3, PassStep
  <2>2. p > 1 => p - 1 \in Nat
    OBVIOUS
  <2> QED
    BY <2>1, <2>2
<1>5. Down(m)'
  BY <1>2, DownKept DEF NothingElse, KeepsBuffers
<1>6. Up'
  <2>1. Lost => Lost'
    BY DEF Lost, NothingElse, NeverResets, Is, KeepsBuffers
  <2> QED
    BY <1>1, <2>1, TakenUp
<1>7. Typed' /\ Unasked'
  BY <1>1, TakenTyped, TakenUnasked
<1>8. Flags'
  BY DEF Good, Steady, Flags, NothingElse, KeepsBuffers, KeepsFlags
<1>9. Waiting' /\ Resets'
  BY DEF Good, Steady, Waiting, Resets, NothingElse, KeepsBuffers, NeverResets, Is
<1>10. Life'
  <2>1. Denied => Denied'
    <3>1. \A k \in 1 .. Len(Stream') : k + 1 \in 1 .. Len(Stream) /\ Stream'[k] = Stream[k + 1]
      BY <1>1, TakeNotice DEF Takes
    <3> QED
      BY <1>1, <3>1 DEF Denied, Asked
  <2> QED
    BY <1>1, <2>1 DEF Good, Life, Fresh, Opening, Active, Over, Zero, Asked, Is, IsConnected,
                      NothingElse, KeepsBuffers, KeepsFlags
<1> QED
  BY <1>4, <1>5, <1>6, <1>7, <1>8, <1>9, <1>10 DEF Good, Talk, Steady, NothingElse

LEMMA ErrorAnswers ==
  ASSUME reply \in Awaited, NEW text \in Errors, text \in Answers(reply), NeverResets
  PROVE  reply = ">"
<1>1. text = "ERROR" \/ text = "FAIL"
  BY DEF Errors
<1>2. Answers("SEND OK") = {"SEND OK", "SEND FAIL"}
  BY DEF Answers
<1>3. Answers("WIFI DISCONNECT") = {"OK", "WIFI DISCONNECT"}
  BY DEF Answers
<1>4. Answers("ready") = {"OK", "ready"}
  BY DEF Answers
<1>5. text \notin Answers("OK")
  BY <1>1 DEF Answers
<1> QED
  BY <1>1, <1>2, <1>3, <1>4, <1>5 DEF Awaited

(* An error.                                                                 *)
LEMMA ErrorTurn ==
  ASSUME Good, NothingElse, NEW kinds, EndsLines(kinds), TakeLine(kinds), KeepsBuffers,
         KeepsFlags, Restarting', Has(dev', "LINE_READ") <=> Has(dev, "LINE_READ"),
         Coming.text \in Errors, reply' = NULL, Fetching' <=> Fetching, step' = "off",
         dev'.bytesToRead = dev.bytesToRead, dev'.sendState = dev.sendState,
         dev'.connectState = "generalError"
  PROVE  Good'
<1>1. /\ Takes(Coming) /\ Stream \in Seq(Tokens) /\ Seen \in Int /\ rx' \in Seq(Tokens)
      /\ tx' = tx /\ step = "off" /\ serialOpen /\ serialOpen' /\ dev.bytesToRead = 0
  BY TakeLineIs
<1>2. PICK p \in Nat, m \in Nat : Exchange(p, m) /\ Down(m) /\ ~Receiving(m)
  BY TakeLineIs
<1>3. /\ m = 0 /\ (Resting' \/ Refused')
      /\ \/ Fetching
         \/ Replied /\ Coming.text \in Answers(reply)
  BY <1>1, <1>2, ErrorStep
<1>4. Exchange(0, 0)'
  BY <1>3 DEF Exchange
<1>5. Down(0)'
  BY <1>2, <1>3, DownKept DEF NothingElse, KeepsBuffers
<1>6. Up'
  <2>1. Fetching => reply = NULL
    BY <1>2 DEF Exchange, Resting, Asking, Replied, Prompting, Sending, Refused, Dropping,
       Fetched, Receiving
  <2>2. Lost => Lost'
    BY <1>3, <2>1 DEF Lost, NothingElse, Replied, Quieted, NULL
  <2> QED
    BY <1>1, <2>2, TakenUp
<1>7. Typed' /\ Unasked'
  BY <1>1, TakenTyped, TakenUnasked
<1>8. Flags'
  BY DEF Good, Steady, Flags, NothingElse, KeepsBuffers, KeepsFlags
<1>9. Waiting'
  <2>1. NULL # ">" /\ NULL # "SEND OK" /\ NULL # "WIFI DISCONNECT"
    BY DEF NULL
  <2> QED
    BY <2>1 DEF Good, Steady, Waiting
<1>10. Resets'
  <2>1. NeverResets' <=> NeverResets
    BY DEF NeverResets, Is, NothingElse, KeepsBuffers
  <2>2. ASSUME NeverResets, ~Fetching PROVE dev.sendState = "sendDataState"
    <3>1. reply \in Awaited /\ Coming.text \in Answers(reply)
      BY <1>3, <2>2 DEF Replied
    <3>2. reply = ">"
      BY <3>1, <2>2, ErrorAnswers
    <3> QED
      BY <3>2 DEF Good, Steady, Waiting
  <2> QED
    BY <2>1, <2>2 DEF Resets
<1>11. Life'
  BY <1>1 DEF Good, Life, Fresh, Opening, Active, Over, Zero, Asked, Is, IsConnected, Denied,
              NothingElse, KeepsBuffers, KeepsFlags
<1> QED
  BY <1>4, <1>5, <1>6, <1>7, <1>8, <1>9, <1>10, <1>11 DEF Good, Talk, Steady, NothingElse

(* The line the driver waits for, or one in its place.                       *)
Completes ==
  /\ ~IsNotice(Coming) /\ reply # NULL
  /\ Coming.text = reply \/ (reply = "SEND OK" /\ Coming.text = "SEND FAIL")

LEMMA DoneTurn ==
  ASSUME Good, NothingElse, NEW kinds, EndsLines(kinds), TakeLine(kinds), KeepsBuffers,
         KeepsFlags, Restarting' <=> Restarting,
         Has(dev', "LINE_READ") <=> Has(dev, "LINE_READ"),
         Completes, reply' = NULL, ~Fetching', dev'.bytesToRead = dev.bytesToRead,
         dev'.sendState = dev.sendState,
         dev'.connectState \in {dev.connectState, "generalError"}
  PROVE  Good'
<1>1. /\ Takes(Coming) /\ Stream \in Seq(Tokens) /\ Seen \in Int /\ rx' \in Seq(Tokens)
      /\ tx' = tx /\ step = "off" /\ serialOpen /\ serialOpen' /\ dev.bytesToRead = 0
  BY TakeLineIs
<1>2. PICK p \in Nat, m \in Nat : Exchange(p, m) /\ Down(m) /\ ~Receiving(m)
  BY TakeLineIs
<1>3. (Replied \/ Prompting) /\ ~Restarting /\ tx = <<>>
  <2>1. Stream # <<>>
    BY <1>1 DEF Takes
  <2> QED
    BY <2>1, <1>1, <1>2, Comes DEF Refused, Fetched, Replied, Prompting, Quieted, Completes
<1>4. Prompted' = (IF reply = ">" THEN dev.bytesToWrite ELSE 0)
  BY <1>3 DEF Prompted, Good, Steady, Waiting, KeepsBuffers, Completes
<1>5. m = 0 /\ Resting'
  BY <1>1, <1>2, <1>4, DoneStep DEF Completes
<1>6. Exchange(0, 0)'
  BY <1>5 DEF Exchange
<1>7. Down(0)'
  BY <1>2, <1>5, DownKept DEF NothingElse, KeepsBuffers
<1>8. Up'
  <2>1. Lost => Lost'
    BY <1>3 DEF Lost, NothingElse
  <2> QED
    BY <1>1, <2>1, TakenUp
<1>9. Typed' /\ Unasked'
  BY <1>1, TakenTyped, TakenUnasked
<1>10. Flags'
  BY DEF Good, Steady, Flags, NothingElse, KeepsBuffers, KeepsFlags
<1>11. Waiting'
  <2>1. NULL # ">" /\ NULL # "SEND OK" /\ NULL # "WIFI DISCONNECT"
    BY DEF NULL
  <2> QED
    BY <2>1 DEF Waiting
<1>12. Resets'
  BY <1>3 DEF Resets
<1>13. Life'
  <2>1. ~Denied
    <3>1. Len(Stream) \in Nat \ {0} /\ Coming = Stream[1]
      BY <1>1, TakeNotice DEF Takes, Coming
    <3>2. 1 \in 1 .. Len(Stream)
      BY <3>1
    <3>3. ~(reply = "OK" /\ \A k \in 1 .. Len(Stream) : Stream[k].text # "OK")
      BY <3>1, <3>2 DEF Completes
    <3>4. Asked # "AT+CIPSTART"
      BY <1>3, NoTextIsNone DEF Asked
    <3> QED
      BY <1>3, <3>3, <3>4 DEF Denied
  <2>2. (Replied \/ Prompting) => ~Fetching
    BY DEF Replied, Prompting
  <2> QED
    BY <1>1, <1>3, <2>1, <2>2
       DEF Good, Life, Fresh, Opening, Active, Over, Zero, Asked, Is, IsConnected,
           NothingElse, KeepsBuffers, KeepsFlags
<1> QED
  BY <1>6, <1>7, <1>8, <1>9, <1>10, <1>11, <1>12, <1>13 DEF Good, Talk, Steady, NothingElse

(* The header of a payload.                                                  *)
LEMMA HeaderTurn ==
  ASSUME Good, NothingElse, NEW kinds, EndsLines(kinds), TakeLine(kinds), KeepsBuffers,
         KeepsFlags, Restarting' <=> Restarting, ~Has(dev', "LINE_READ"),
         Coming.text = "+CIPRECVDATA", reply' = reply, ~Fetching',
         dev'.bytesToRead = dev.bytesToRead + Coming.n, dev'.sendState = "receiving"
  PROVE  Good'
<1>1. /\ Takes(Coming) /\ Stream \in Seq(Tokens) /\ Seen \in Int /\ rx' \in Seq(Tokens)
      /\ tx' = tx /\ step = "off" /\ serialOpen /\ serialOpen' /\ dev.bytesToRead = 0
  BY TakeLineIs
<1>2. PICK p \in Nat, m \in Nat : Exchange(p, m) /\ Down(m) /\ ~Receiving(m)
  BY TakeLineIs
<1>3. Fetched(p, m) /\ m >= 1 /\ Coming.n = m /\ Receiving(m)'
  BY <1>1, <1>2, HeaderStep
<1>4. Exchange(0, m)'
  BY <1>3 DEF Exchange
<1>5. Down(m)'
  BY <1>2, DownKept DEF NothingElse, KeepsBuffers
<1>6. Fetching /\ reply = NULL /\ ~Restarting
  BY <1>3 DEF Fetched, Quieted
<1>7. Up'
  <2>1. Lost => Lost'
    BY <1>6 DEF Lost, NothingElse
  <2> QED
    BY <1>1, <2>1, TakenUp
<1>8. dev'.bytesToRead = m
  BY <1>1, <1>3
<1>9. Typed' /\ Unasked'
  BY <1>1, <1>8, TakenTyped, TakenUnasked
<1>10. Flags'
  BY <1>3, <1>8 DEF Good, Steady, Flags, NothingElse, KeepsBuffers, KeepsFlags
<1>11. Waiting'
  BY <1>6 DEF Waiting, NULL
<1>12. Resets'
  BY <1>6 DEF Resets
<1>13. Life'
  BY <1>1, <1>6
     DEF Good, Life, Fresh, Opening, Active, Over, Asked, NothingElse, KeepsBuffers, KeepsFlags
<1> QED
  BY <1>4, <1>5, <1>7, <1>9, <1>10, <1>11, <1>12, <1>13 DEF Good, Talk, Steady, NothingElse

-----------------------------------------------------------------------------
(* The steps of the driver that send a command.                              *)

LEMMA CommandsAre ==
  /\ ~NeverResets =>
       {"ATE0", "AT+CWMODE=1", "AT+CWJAP", "AT+CIPMUX=0", "AT+CIPRECVMODE", "AT+CIPMODE=0",
        "AT+CWJAP?", "AT+CSQ", "AT+CIPSTAMAC", "AT+CIPSTART"} \subseteq Commands("OK")
  /\ "AT+CIPCLOSE" \in Commands("OK") /\ Commands(">") = {"AT+CIPSEND"}
  /\ Commands("WIFI DISCONNECT") = (IF Is("espressif") THEN {"AT+CWQAP"} ELSE {})
  /\ Commands("ready") = (IF Is("espressif") THEN {"AT+RST"} ELSE {})
<1>1. Commands(">") = {"AT+CIPSEND"}
  BY DEF Commands
<1>2. Commands("WIFI DISCONNECT") = (IF Is("espressif") THEN {"AT+CWQAP"} ELSE {})
  BY DEF Commands
<1>3. Commands("ready") = (IF Is("espressif") THEN {"AT+RST"} ELSE {})
  BY DEF Commands
<1>4. "AT+CIPCLOSE" \in Commands("OK")
  BY DEF Commands
<1>5. ~NeverResets =>
       {"ATE0", "AT+CWMODE=1", "AT+CWJAP", "AT+CIPMUX=0", "AT+CIPRECVMODE", "AT+CIPMODE=0",
        "AT+CWJAP?", "AT+CSQ", "AT+CIPSTAMAC", "AT+CIPSTART"} \subseteq Commands("OK")
  BY DEF Commands
<1> QED
  BY <1>1, <1>2, <1>3, <1>4, <1>5

(* A command that waits for OK, while the connection is set up or not needed. *)
PlainCommands ==
  {"ATE0", "AT+CWMODE=1", "AT+CWJAP", "AT+CIPMUX=0", "AT+CIPRECVMODE", "AT+CIPMODE=0",
   "AT+CWJAP?", "AT+CSQ", "AT+CIPSTAMAC", "AT+CIPSTART", "AT+CIPCLOSE"}

LEMMA PlainCommand ==
  ASSUME Good, NothingElse, Gated, Keeps, rx' = rx, dev.bytesToRead = 0,
         NEW text \in PlainCommands, tx' = tx \o <<Line(text, 0)>>,
         NeverResets => text = "AT+CIPCLOSE",
         dev.sendState # "sendDataState", dev'.sendState # "sendDataState",
         dev'.bytesToWrite = dev.bytesToWrite,
         Has(dev', "RESET_PENDING") <=> Has(dev, "RESET_PENDING"),
         ~Has(dev', "DISCONNECT_PENDING"), Has(dev', "LINE_READ"),
         ~Fetching', reply' = "OK", Unasked',
         Asked = NoText /\ Asked' = text => Life'
  PROVE  Good'
<1> DEFINE c == Line(text, 0)
<1>1. text \in Texts
  BY DEF PlainCommands, Texts
<1>2. c \in Tokens /\ c.kind = "line" /\ c.text = text
  BY <1>1, LineIsToken
<1>11. tx' = tx \o <<c>>
  OBVIOUS
<1> HIDE DEF c
<1>3. text \in Commands("OK")
  BY CommandsAre DEF PlainCommands
<1>4. Commands(reply)' = Commands("OK")
  BY SameWords DEF NothingElse, Commands
<1>5. "OK" \in Awaited /\ "OK" # ">"
  BY DEF Awaited
<1>6. Asked = NoText /\ tx = <<>>
  BY GatedFinds
<1>7. Asked' = text
  BY <1>2, <1>6, <1>11 DEF Asked
<1>8. Life'
  BY <1>6, <1>7
<1>9. Waiting'
  BY DEF Waiting
<1>10. dev'.bytesToWrite \in Int /\ (Restarting' <=> Restarting)
  BY DEF Good, Typed, Restarting
<1> QED
  BY <1>2, <1>11, <1>3, <1>4, <1>5, <1>8, <1>9, <1>10, SpeakTurn

(* No request is served while the modem expects data.                        *)
LEMMA RequestsApart ==
  ASSUME Covered, Good, dev.rssi = "requested" \/ dev.idRequest # "noRequest"
  PROVE  dev.sendState # "sendDataState" /\ ~NeverResets
<1>1. scenario.maxRequests # 0
  BY DEF Good, Steady, Unasked
<1>2. scenario.maxUp = 0
  BY <1>1 DEF Covered
<1>3. dev.bytesToWrite = 0
  BY <1>2 DEF Good, Steady, Unasked
<1> QED
  BY <1>3 DEF NeverResets, Good, Life, Fresh, Opening, Active, Over, Closed

LEMMA SendRSSIRequestStep ==
  ASSUME Covered, Good, NothingElse, NEW text \in {"AT+CWJAP?", "AT+CSQ"},
         NEW awaited \in {"rssi", "csq"}, SendRSSIRequest(text, awaited)
  PROVE  Good'
<1>1. Gated /\ dev.rssi = "requested" /\ Has(dev, "LINE_READ")
  BY EndRunIs DEF SendRSSIRequest, WantsRSSI
<1>2. /\ rx' = rx /\ tx' = tx \o <<Line(text, 0)>> /\ Keeps /\ KeepsRequests
      /\ dev'.bytesToWrite = dev.bytesToWrite /\ reply' = "OK"
      /\ dev'.replyState = awaited /\ dev'.connectState = dev.connectState
      /\ dev'.stateBooleans = dev.stateBooleans /\ dev'.sendState = dev.sendState
  BY DEF Good, Typed, SendRSSIRequest, Await, Expect, Command, Send, Fields, Keeps,
         KeepsRequests, reply
<1>3. ~NeverResets /\ dev.sendState # "sendDataState"
  BY <1>1, RequestsApart
<1>4. text \in PlainCommands /\ text \notin Ends /\ text # "AT+CIPSTART"
  BY DEF PlainCommands, Ends
<1>5. dev.bytesToRead = 0
  BY <1>1 DEF Good, Steady, Flags
<1>6. Unasked'
  BY <1>1, <1>2 DEF Good, Steady, Unasked, Keeps, KeepsRequests, NothingElse, Gated
<1>7. ~Fetching'
  BY <1>2 DEF Fetching
<1>8. ASSUME Asked = NoText, Asked' = text PROVE Life'
  <2>1. ~Denied
    BY <1>1, <1>3, <1>8, NoTextIsNone, GatedFinds DEF Denied, Gated, NULL
  <2> QED
    BY <1>2, <1>4, <1>7, <1>8, <2>1
       DEF Good, Life, Fresh, Opening, Active, Over, Zero, Is, Closed, IsConnected, Has,
           NothingElse, Keeps
<1> QED
  BY <1>1, <1>2, <1>3, <1>4, <1>5, <1>6, <1>7, <1>8, PlainCommand DEF Has, Good, Steady, Flags

LEMMA SendIDRequestStep ==
  ASSUME Covered, Good, NothingElse, SendIDRequest("AT+CIPSTAMAC", "reqMac")
  PROVE  Good'
<1>1. Gated /\ dev.idRequest # "noRequest" /\ Has(dev, "LINE_READ")
  BY EndRunIs DEF SendIDRequest, WantsID
<1>2. /\ rx' = rx /\ tx' = tx \o <<Line("AT+CIPSTAMAC", 0)>> /\ Keeps
      /\ dev'.rssi = dev.rssi /\ dev'.idRequest = "noRequest"
      /\ dev'.bytesToWrite = dev.bytesToWrite /\ reply' = "OK"
      /\ dev'.replyState = "reqMac" /\ dev'.connectState = dev.connectState
      /\ dev'.stateBooleans = dev.stateBooleans /\ dev'.sendState = dev.sendState
  BY DEF Good, Typed, SendIDRequest, Await, Expect, Command, Send, Fields, Keeps, reply
<1>3. ~NeverResets /\ dev.sendState # "sendDataState"
  BY <1>1, RequestsApart
<1>4. /\ "AT+CIPSTAMAC" \in PlainCommands /\ "AT+CIPSTAMAC" \notin Ends
      /\ "AT+CIPSTAMAC" # "AT+CIPSTART"
  BY DEF PlainCommands, Ends
<1>5. dev.bytesToRead = 0
  BY <1>1 DEF Good, Steady, Flags
<1>6. Unasked'
  BY <1>1, <1>2 DEF Good, Steady, Unasked, Keeps, NothingElse, Gated
<1>7. ~Fetching'
  BY <1>2 DEF Fetching
<1>8. ASSUME Asked = NoText, Asked' = "AT+CIPSTAMAC" PROVE Life'
  <2>1. ~Denied
    BY <1>1, <1>3, <1>8, NoTextIsNone, GatedFinds DEF Denied, Gated, NULL
  <2> QED
    BY <1>2, <1>4, <1>7, <1>8, <2>1
       DEF Good, Life, Fresh, Opening, Active, Over, Zero, Is, Closed, IsConnected, Has,
           NothingElse, Keeps
<1> QED
  BY <1>1, <1>2, <1>3, <1>4, <1>5, <1>6, <1>7, <1>8, PlainCommand DEF Has, Good, Steady, Flags

LEMMA ConnectingStep ==
  ASSUME Good, NothingElse, NEW next \in {"sendCwmode", "sendCipstart"}, Connecting(next)
  PROVE  Good'
<1>1. /\ Gated /\ dev.sendState = "connecting"
      /\ "DISCONNECT_PENDING" \notin dev.stateBooleans
  BY CaseIs DEF Connecting, Good, Steady, Flags, Has
<1>2. /\ rx' = rx /\ tx' = tx \o <<Line("ATE0", 0)>> /\ Keeps /\ KeepsRequests
      /\ dev'.bytesToWrite = dev.bytesToWrite /\ reply' = "OK"
      /\ dev'.replyState = dev.replyState /\ dev'.connectState = "intermediate"
      /\ dev'.stateBooleans = dev.stateBooleans \cup {"LINE_READ"} /\ dev'.sendState = next
  BY <1>1 DEF Good, Typed, Connecting, Await, Goto, Raise, Report, Command, Send, Fields, Keeps,
         KeepsRequests, reply, Has
<1>3. Fresh /\ dev.bytesToRead = 0
  BY <1>1 DEF Good, Life, Opening, Active, Over, Closed, Steady, Flags
<1>4. "ATE0" \in PlainCommands /\ "ATE0" \notin Ends /\ "ATE0" # "AT+CIPSTART"
  BY DEF PlainCommands, Ends
<1>5. Unasked'
  BY <1>1, <1>2 DEF Good, Steady, Unasked, Keeps, KeepsRequests, NothingElse, Gated
<1>6. ~Fetching'
  BY <1>1, <1>2 DEF Fetching, Gated
<1>7. ASSUME Asked' = "ATE0" PROVE Life'
  BY <1>1, <1>2, <1>3, <1>4, <1>6, <1>7
     DEF Life, Fresh, Zero, Is, Closed, IsConnected, Has, NothingElse, Keeps
<1>8. ~NeverResets
  BY <1>3 DEF Fresh, NeverResets
<1> QED
  BY <1>1, <1>2, <1>3, <1>4, <1>5, <1>6, <1>7, <1>8, PlainCommand DEF Has

(* The commands before AT+CIPSTART.                                          *)
Setup == {"sendCwmode", "sendCwjap", "sendCipmux", "sendCiprecvmode", "sendCipmode"}

LEMMA SetupStep ==
  ASSUME Good, NothingElse, NEW state \in Setup, NEW next \in Setup \cup {"sendCipstart"},
         NEW text \in PlainCommands \ {"AT+CIPSTART", "AT+CIPCLOSE"},
         SimpleCommand(state, text, "OK", next)
  PROVE  Good'
<1>1. Gated /\ dev.sendState = state
  BY CaseIs DEF SimpleCommand
<1>2. /\ rx' = rx /\ tx' = tx \o <<Line(text, 0)>> /\ Keeps /\ KeepsRequests
      /\ dev'.bytesToWrite = dev.bytesToWrite /\ reply' = "OK"
      /\ dev'.replyState = dev.replyState /\ dev'.connectState = dev.connectState
      /\ dev'.stateBooleans = dev.stateBooleans /\ dev'.sendState = next
  BY <1>1 DEF Good, Typed, SimpleCommand, Await, Goto, Command, Send, Fields, Keeps,
         KeepsRequests, reply
<1>3. Fresh /\ dev.bytesToRead = 0
  BY <1>1 DEF Good, Life, Opening, Active, Over, Closed, Steady, Flags, Setup
<1>5. Unasked'
  BY <1>1, <1>2 DEF Good, Steady, Unasked, Keeps, KeepsRequests, NothingElse, Gated
<1>6. ~Fetching'
  BY <1>1, <1>2 DEF Fetching, Gated
<1>7. ASSUME Asked' = text PROVE Life'
  <2>1. connects # 0 /\ ~Has(dev, "CONNECT_PENDING")
    BY <1>1, <1>3 DEF Fresh, Closed, Setup
  <2> QED
    BY <1>1, <1>2, <1>3, <1>6, <1>7, <2>1
       DEF Life, Fresh, Zero, Is, Closed, IsConnected, Has, NothingElse, Keeps, Setup
<1>8. ~NeverResets
  BY <1>3 DEF Fresh, NeverResets
<1>9. dev.sendState # "sendDataState" /\ next # "sendDataState"
  BY <1>1 DEF Setup
<1>10. ~Has(dev', "DISCONNECT_PENDING") /\ Has(dev', "LINE_READ")
  BY <1>2, <1>3 DEF Has, Good, Steady, Flags
<1> QED
  BY <1>1, <1>2, <1>3, <1>5, <1>6, <1>7, <1>8, <1>9, <1>10, PlainCommand DEF Has

LEMMA CipstartStep ==
  ASSUME Good, NothingElse,
         SimpleCommand("sendCipstart", "AT+CIPSTART", "OK", "finalizeConnect")
  PROVE  Good'
<1>1. Gated /\ dev.sendState = "sendCipstart"
  BY CaseIs DEF SimpleCommand
<1>2. /\ rx' = rx /\ tx' = tx \o <<Line("AT+CIPSTART", 0)>> /\ Keeps /\ KeepsRequests
      /\ dev'.bytesToWrite = dev.bytesToWrite /\ reply' = "OK"
      /\ dev'.replyState = dev.replyState /\ dev'.connectState = dev.connectState
      /\ dev'.stateBooleans = dev.stateBooleans /\ dev'.sendState = "finalizeConnect"
  BY <1>1 DEF Good, Typed, SimpleCommand, Await, Goto, Command, Send, Fields, Keeps,
         KeepsRequests, reply
<1>3. Fresh /\ dev.bytesToRead = 0
  BY <1>1 DEF Good, Life, Opening, Active, Over, Closed, Steady, Flags
<1>4. "AT+CIPSTART" \notin Ends /\ "AT+CIPSTART" \in PlainCommands
  BY DEF PlainCommands, Ends
<1>5. Unasked'
  BY <1>1, <1>2 DEF Good, Steady, Unasked, Keeps, KeepsRequests, NothingElse, Gated
<1>6. ~Fetching'
  BY <1>1, <1>2 DEF Fetching, Gated
<1>7. ASSUME Asked' = "AT+CIPSTART" PROVE Life'
  <2>1. connects = 1 /\ ~Has(dev, "CONNECT_PENDING")
    BY <1>1, <1>3 DEF Fresh, Closed, Good, Typed
  <2> QED
    BY <1>1, <1>2, <1>3, <1>4, <1>6, <1>7, <2>1
       DEF Life, Fresh, Opening, Denied, Zero, Is, IsConnected, Has, NothingElse, Keeps
<1>8. ~NeverResets
  BY <1>3 DEF Fresh, NeverResets
<1>10. ~Has(dev', "DISCONNECT_PENDING") /\ Has(dev', "LINE_READ")
  BY <1>2, <1>3 DEF Has, Good, Steady, Flags
<1> QED
  BY <1>1, <1>2, <1>3, <1>4, <1>5, <1>6, <1>7, <1>8, <1>10, PlainCommand DEF Has

(* The connection is closed: the driver goes on to next.                     *)
LEMMA CloseStep ==
  ASSUME Good, NothingElse, NEW next \in {"sendCwqap", "finalizeDisconnect"},
         next = "sendCwqap" => ~Is("cc1352p7"), Case("sendCipclose"),
         Command("AT+CIPCLOSE"), rx' = rx, Keeps, KeepsRequests,
         dev'.bytesToWrite = dev.bytesToWrite, reply' = "OK", dev'.replyState = dev.replyState,
         dev'.connectState = "intermediate", dev'.stateBooleans = dev.stateBooleans,
         dev'.sendState = next
  PROVE  Good'
<1>1. Gated /\ dev.sendState = "sendCipclose"
  BY CaseIs
<1>2. tx' = tx \o <<Line("AT+CIPCLOSE", 0)>>
  BY DEF Command, Send
<1>3. ((Fresh /\ Is("cc1352p7")) \/ Over) /\ dev.bytesToRead = 0
  BY <1>1 DEF Good, Life, Fresh, Opening, Active, Closed, Steady, Flags
<1>4. "AT+CIPCLOSE" # "AT+CIPSTART" /\ "AT+CIPCLOSE" \in PlainCommands
  BY DEF PlainCommands
<1>5. Unasked'
  BY <1>1, <1>2 DEF Good, Steady, Unasked, Keeps, KeepsRequests, NothingElse, Gated
<1>6. ~Fetching'
  BY <1>1, <1>2 DEF Fetching, Gated
<1>7. ASSUME Asked' = "AT+CIPCLOSE" PROVE Life'
  BY <1>1, <1>2, <1>3, <1>4, <1>6, <1>7
       DEF Life, Fresh, Over, Closed, Zero, Is, IsConnected, Has, NothingElse, Keeps
<1>8. ~Has(dev', "DISCONNECT_PENDING") /\ Has(dev', "LINE_READ")
  BY <1>2, <1>3 DEF Has, Good, Steady, Flags
<1> QED
  BY <1>1, <1>2, <1>3, <1>4, <1>5, <1>6, <1>7, <1>8, PlainCommand DEF Has

(* The driver leaves the network.                                            *)
NetworkLeft == "WIFI DISCONNECT"

LEMMA CwqapStep ==
  ASSUME Good, NothingElse, Is("espressif"), Case("sendCwqap"), Command("AT+CWQAP"), rx' = rx,
         Keeps,
         KeepsRequests, dev'.bytesToWrite = dev.bytesToWrite, reply' = NetworkLeft,
         dev'.replyState = dev.replyState, dev'.stateBooleans = dev.stateBooleans,
         dev'.sendState = "finalizeDisconnect"
  PROVE  Good'
<1> DEFINE c == Line("AT+CWQAP", 0)
<1>1. Gated /\ dev.sendState = "sendCwqap"
  BY CaseIs
<1>2. Over /\ dev.bytesToRead = 0
  BY <1>1 DEF Good, Life, Fresh, Opening, Active, Closed, Steady, Flags
<1>3. c \in Tokens /\ c.kind = "line" /\ c.text = "AT+CWQAP"
  <2>1. "AT+CWQAP" \in Texts
    BY DEF Texts
  <2> QED
    BY <2>1, LineIsToken
<1>4. tx' = tx \o <<c>>
  BY DEF Command, Send
<1> HIDE DEF c
<1>5. reply' \in Awaited /\ c.text \in Commands(reply)' /\ reply' # ">"
  BY <1>3 DEF Awaited, Commands, NetworkLeft, Is, NothingElse
<1>6. Asked' = "AT+CWQAP"
  <2>1. tx = <<>>
    BY <1>1, GatedFinds
  <2> QED
    BY <2>1, <1>3, <1>4 DEF Asked
<1>7. Unasked'
  BY <1>1 DEF Good, Steady, Unasked, Keeps, KeepsRequests, NothingElse, Gated
<1>8. ~Fetching'
  BY <1>1 DEF Fetching, Gated
<1>9. Life'
  BY <1>2, <1>6, <1>8 DEF Life, Over, Closed, Is, Has, NothingElse
<1>10. Waiting'
  BY DEF Waiting, NetworkLeft
<1>11. ~Has(dev', "DISCONNECT_PENDING") /\ Has(dev', "LINE_READ") /\ (Restarting' <=> Restarting)
  BY <1>2 DEF Has, Good, Steady, Flags, Restarting
<1>12. dev'.bytesToWrite \in Int
  BY DEF Good, Typed
<1> QED
  BY <1>1, <1>2, <1>3, <1>4, <1>5, <1>7, <1>8, <1>9, <1>10, <1>11, <1>12, SpeakTurn

(* The driver announces what it wants to send.                               *)
LEMMA ConnectedSendsStep ==
  ASSUME Good, NothingElse, ConnectedSends("sendDataState")
  PROVE  Good'
<1> DEFINE n == SendSize(dev)
           c == Line("AT+CIPSEND", n)
<1>1. Gated /\ dev.sendState = "connected" /\ dev.writeBuffer # <<>>
  BY CaseIs DEF ConnectedSends
<1>2. n \in Nat /\ 1 <= n /\ n <= Len(dev.writeBuffer)
  <2>1. dev.writeBuffer \in Seq(Int)
    BY DEF Good, Typed
  <2>2. Len(dev.writeBuffer) \in Nat \ {0}
    BY <1>1, <2>1, EmptySeq, LenProperties
  <2> QED
    BY <2>2, SerialSizesAssumption DEF SendSize, Lower
<1>3. /\ rx' = rx /\ tx' = tx \o <<c>> /\ Keeps /\ KeepsRequests
      /\ dev'.bytesToWrite = n /\ reply' = ">"
      /\ dev'.replyState = dev.replyState /\ dev'.connectState = "transmitting"
      /\ dev'.stateBooleans = dev.stateBooleans /\ dev'.sendState = "sendDataState"
  BY <1>1 DEF Good, Typed, ConnectedSends, PrepareSending, Await, Goto, Report, Send, Fields,
              Keeps, KeepsRequests, reply
<1> HIDE DEF n
<1>4. c \in Tokens /\ c.kind = "line" /\ c.text = "AT+CIPSEND" /\ c.n = n
  <2>1. "AT+CIPSEND" \in Texts
    BY DEF Texts
  <2> QED
    BY <1>2, <2>1, LineIsToken
<1> HIDE DEF c
<1>5. Active /\ dev.bytesToRead = 0
  BY <1>1 DEF Good, Life, Fresh, Opening, Over, Closed, Steady, Flags
<1>6. reply' \in Awaited /\ c.text \in Commands(reply)'
  BY <1>3, <1>4 DEF Awaited, Commands
<1>7. Asked' = "AT+CIPSEND"
  BY <1>1, <1>3, <1>4, GatedFinds DEF Asked
<1>8. ~Fetching'
  BY <1>1, <1>3 DEF Fetching, Gated
<1>9. Unasked'
  BY <1>1, <1>3 DEF Good, Steady, Unasked, Keeps, KeepsRequests, NothingElse, Gated
<1>10. Life'
  BY <1>2, <1>3, <1>5, <1>7, <1>8 DEF Life, Active, Is, Has, NothingElse, Keeps, Ends
<1>11. Waiting'
  BY <1>3, <1>8 DEF Waiting
<1>12. ~Has(dev', "DISCONNECT_PENDING") /\ Has(dev', "LINE_READ") /\ (Restarting' <=> Restarting)
  BY <1>3, <1>5 DEF Has, Good, Steady, Flags, Restarting
<1>13. dev'.bytesToWrite \in Int /\ dev.sendState # "sendDataState"
  BY <1>1, <1>2, <1>3
<1> QED
  BY <1>1, <1>3, <1>4, <1>5, <1>6, <1>8, <1>9, <1>10, <1>11, <1>12, <1>13, SpeakTurn

(* The driver asks for the payload the modem has announced.                  *)
LEMMA RequestPayloadStep ==
  ASSUME Covered, Good, NothingElse, NEW awaited,
         awaited = (IF Is("espressif") THEN "waitCiprecvdata" ELSE "parseStateCiprecvdata"),
         RequestPayload("sendCiprecvdata", "AT+CIPRECVDATA", awaited)
  PROVE  Good'
<1> DEFINE n == Requestable(dev)
           c == Line("AT+CIPRECVDATA", n)
<1>1. Gated /\ dev.sendState = "sendCiprecvdata" /\ dev.bytesToReceive > 0
  BY CaseIs DEF RequestPayload
<1>2. Active /\ dev.bytesToRead = 0
  BY <1>1 DEF Good, Life, Fresh, Opening, Over, Closed, Steady, Flags
<1>3. CASE ~CanRequest(dev)
  <2>1. dev' = dev /\ tx' = tx /\ rx' = rx
    BY <1>3 DEF RequestPayload
  <2>2. Unasked' /\ Resets'
    BY <1>1, <2>1 DEF Good, Steady, Unasked, Resets, Gated, NothingElse, Fetching, Is, reply,
                      Restarting, NeverResets, Has
  <2> QED
    BY <2>1, <2>2, Unchanged, SameDeviceStep DEF Good, Typed, Steady
<1>4. CASE CanRequest(dev)
  <2>1. n \in Int /\ n >= 1
    <3>1. Len(rx) \in Nat /\ Len(dev.readBuffer) \in Nat /\ dev.bytesToReceive \in Int
      BY LenProperties DEF Good, Typed
    <3> QED
      BY <1>1, <1>4, <3>1, SerialSizesAssumption, BufferSizesAssumption
         DEF Requestable, Lower, CanRequest
  <2>2. /\ rx' = rx /\ tx' = tx \o <<c>> /\ Keeps /\ KeepsRequests
        /\ dev'.bytesToWrite = dev.bytesToWrite /\ reply' = NULL
        /\ dev'.replyState = awaited /\ dev'.connectState = dev.connectState
        /\ dev'.stateBooleans = dev.stateBooleans /\ dev'.sendState = "waitReceive"
    BY <1>1, <1>4 DEF Good, Typed, RequestPayload, Expect, Goto, Send, Fields, Keeps,
                      KeepsRequests, reply, Gated
  <2> HIDE DEF n
  <2>3. c \in Tokens /\ c.kind = "line" /\ c.text = "AT+CIPRECVDATA" /\ c.n = n
    <3>1. "AT+CIPRECVDATA" \in Texts
      BY DEF Texts
    <3> QED
      BY <2>1, <3>1, LineIsToken
  <2> HIDE DEF c
  <2>4. Fetching'
    BY <2>2 DEF Fetching, Is, NothingElse
  <2>5. Asked' = "AT+CIPRECVDATA"
    BY <1>1, <2>2, <2>3, GatedFinds DEF Asked
  <2>6. Unasked'
    BY <1>1, <2>2 DEF Good, Steady, Unasked, Keeps, KeepsRequests, NothingElse, Gated
  <2>7. Life'
    BY <1>2, <2>2, <2>5 DEF Life, Active, Is, Has, NothingElse, Keeps, Ends
  <2>8. Waiting'
    BY <2>2 DEF Waiting, NULL
  <2>9. ~Has(dev', "DISCONNECT_PENDING") /\ Has(dev', "LINE_READ") /\ (Restarting' <=> Restarting)
    BY <1>2, <2>2 DEF Has, Good, Steady, Flags, Restarting
  <2>10. dev'.bytesToWrite \in Int /\ dev.sendState # "sendDataState"
    BY <1>1, <2>2 DEF Good, Typed
  <2> QED
    BY <1>1, <1>2, <2>1, <2>2, <2>3, <2>4, <2>6, <2>7, <2>8, <2>9, <2>10, SpeakTurn
<1> QED
  BY <1>3, <1>4

-----------------------------------------------------------------------------
(* Data.                                                                     *)

(* The bytes are sent, although the modem may have refused them.             *)
LEMMA SendDataBytesStep ==
  ASSUME Covered, Good, NothingElse, SendDataBytes("sendDataState", Confirmation)
  PROVE  Good'
<1> DEFINE n == dev.bytesToWrite
           w == dev.writeBuffer
<1>1. Gated /\ dev.sendState = "sendDataState"
  BY CaseIs DEF SendDataBytes
<1>2. Active /\ dev.bytesToRead = 0 /\ 1 <= n /\ n <= Len(w)
  BY <1>1 DEF Good, Life, Fresh, Opening, Active, Over, Closed, Steady, Flags
<1>3. n \in Nat /\ w \in Seq(Int) /\ Len(w) \in Nat /\ n \in 0 .. Len(w)
  BY <1>2, LenProperties DEF Good, Typed
<1>4. /\ rx' = rx /\ tx' = tx \o [k \in 1 .. n |-> Byte(w[k])]
      /\ DOMAIN dev' = Fields /\ dev'.readBuffer = dev.readBuffer
      /\ dev'.writeBuffer = Drop(w, n) /\ dev'.bytesToWrite = -1 /\ reply' = Confirmation
      /\ dev'.type = dev.type /\ dev'.lbFill = dev.lbFill
      /\ dev'.bytesToReceive = dev.bytesToReceive /\ dev'.bytesToRead = dev.bytesToRead
      /\ dev'.rssi = dev.rssi /\ dev'.idRequest = dev.idRequest
      /\ dev'.replyState = dev.replyState
      /\ dev'.stateBooleans = dev.stateBooleans /\ dev'.sendState = "connected"
  BY <1>1 DEF Good, Typed, SendDataBytes, SendData, DataToSend, Await, Goto, Send, Fields, reply
<1>5. PICK p \in Nat, m \in Nat : Exchange(p, m) /\ Down(m)
  BY DEF Good, Talk
<1>6. Resting /\ ~Fetching /\ m = 0
  <2>1. NULL # ">" /\ NULL # "OK" /\ ~Fetching
    BY <1>1, GatedFinds DEF NULL
  <2> QED
    BY <1>1, <1>2, <1>5, <2>1, NullIsNoReply
       DEF Exchange, Gated, Asking, Replied, Prompting, Sending, Refused, Dropping,
           Fetched, Receiving
<1>7. (Restarting' <=> Restarting) /\ ~Fetching'
  BY <1>1, <1>4 DEF Restarting, Has, Fetching, Gated
<1>8. prompt = (IF Restarting THEN 0 ELSE n)
  BY <1>1, <1>6 DEF Resting, Prompted
<1>9. Restarting => NeverResets /\ NeverResets'
  BY <1>1, <1>4 DEF Good, Steady, Resets, Gated, NeverResets, Is, NothingElse
<1>10. /\ ~Restarting => Sending'
       /\ Restarting => Dropping'
       /\ Asked = NoText /\ Asked' = NoText /\ tx' \in Seq(Tokens)
       /\ Carried = 0 /\ Carried' = n /\ \A k \in 1 .. n : tx'[k].n = w[k]
  <2> HIDE DEF n, w
  <2>1. Stream' = Stream /\ scenario' = scenario /\ prompt' = prompt
    BY <1>4 DEF Stream, NothingElse
  <2> QED
    BY <2>1, <1>2, <1>3, <1>4, <1>6, <1>7, <1>8, <1>9, BytesStep
<1>11. Exchange(0, 0)'
  BY <1>10 DEF Exchange
<1>12. Down(0)'
  BY <1>4, <1>5, <1>6, DownKept DEF NothingElse
<1>13. Drop(w, n) \in Seq(Int)
  <2>1. Len(w) \in Nat /\ \A i \in n + 1 .. Len(w) : w[i] \in Int
    BY <1>3, ElementOfSeq
  <2> HIDE DEF n, w
  <2>2. n + 1 \in Int /\ Len(w) \in Int
    BY <1>3
  <2> QED
    BY <2>1, <2>2, SubSeqProperties DEF Drop
<1>14. Up'
  <2>1. CASE Lost
    <3>1. Lost'
      BY <1>1, <2>1 DEF Lost, NothingElse, Gated, NULL
    <3> QED
      BY <3>1 DEF Up, Good, Talk, NothingElse
  <2>2. CASE ~Lost /\ Restarting
    <3>1. NeverResets' /\ ~Is("espressif")
      BY <2>2, <1>9 DEF NeverResets, Is, NothingElse
    <3>2. Lost'
      BY <2>2, <3>1, <1>4, <1>7 DEF Lost, Confirmation
    <3> QED
      BY <3>2 DEF Up, Good, Talk, NothingElse
  <2>3. CASE ~Lost /\ ~Restarting
    <3> DEFINE base == Len(peerGot)
    <3>1. /\ base \in Nat /\ Numbered(w, base) /\ up = base + Len(w)
      BY <2>3, <1>10, LenProperties DEF Good, Typed, Talk, Up, UpComplete
    <3>2. Len(Drop(w, n)) = Len(w) - n /\ Numbered(Drop(w, n), base + n)
      <4> HIDE DEF w, n, base
      <4> QED
        BY <3>1, <1>3, NumberedDrop
    <3>3. \A k \in 1 .. n : tx'[k].n = base + k
      <4> HIDE DEF n, base
      <4>1. \A k \in 1 .. n : k \in 1 .. Len(w)
        BY <1>3
      <4> QED
        BY <4>1, <3>1, <1>10 DEF Numbered
    <3>4. peerGot' = peerGot /\ up' = up /\ Carried' = n /\ dev'.writeBuffer = Drop(w, n)
      BY <1>4, <1>10 DEF NothingElse
    <3>5. up = base + n + (Len(w) - n)
      BY <3>1, <1>3
    <3>6. UpComplete'
      BY <3>2, <3>3, <3>4, <3>5 DEF UpComplete
    <3> QED
      BY <3>4, <3>6 DEF Up, Good, Talk, Numbered
  <2> QED
    BY <2>1, <2>2, <2>3
<1>15. Typed'
  BY <1>4, <1>10, <1>13 DEF Good, Typed, NothingElse
<1>16. Flags'
  BY <1>2, <1>4 DEF Good, Steady, Flags, NothingElse, Has
<1>17. Waiting'
  BY <1>4, <1>7 DEF Waiting, Confirmation
<1>18. Unasked'
  <2>1. scenario.maxUp # 0
    BY <1>2, <1>3 DEF Good, Steady, Unasked
  <2> QED
    BY <2>1, <1>1, <1>4 DEF Good, Steady, Unasked, Gated, NothingElse
<1>19. Resets'
  BY <1>1, <1>4 DEF Resets, Gated, Confirmation, NULL
<1>20. Life'
  BY <1>2, <1>4, <1>10, NoTextIsNone DEF Life, Active, Has, NothingElse
<1> QED
  BY <1>11, <1>12, <1>14, <1>15, <1>16, <1>17, <1>18, <1>19, <1>20
     DEF Good, Talk, Steady, NothingElse

(* The payload is taken, once all of it is there.                            *)
LEMMA ReceivePayloadStep ==
  ASSUME Good, NothingElse, ReceivePayload("OK")
  PROVE  Good'
<1> DEFINE m == dev.bytesToRead
<1>1. Gated /\ dev.sendState = "receiving" /\ m > 0 /\ tx' = tx
  BY CaseIs DEF ReceivePayload
<1>2. Active /\ m \in Nat
  BY <1>1 DEF Good, Life, Fresh, Opening, Over, Closed, Typed
<1>3. CASE ~CanReceive(dev)
  <2>1. dev' = dev /\ rx' = rx
    BY <1>3 DEF ReceivePayload
  <2>2. Unasked' /\ Resets'
    BY <1>1, <2>1 DEF Good, Steady, Unasked, Resets, Gated, NothingElse, Fetching, Is, reply,
                      Restarting, NeverResets, Has
  <2> QED
    BY <1>1, <2>1, <2>2, Unchanged, SameDeviceStep DEF Good, Typed, Steady
<1>4. CASE CanReceive(dev)
  <2> DEFINE b == [k \in 1 .. m |-> PayloadByte(rx[k])]
  <2>1. /\ rx' = Drop(rx, m) /\ Len(rx) >= m
        /\ DOMAIN dev' = Fields /\ dev'.readBuffer = dev.readBuffer \o b
        /\ dev'.writeBuffer = dev.writeBuffer /\ dev'.bytesToWrite = dev.bytesToWrite
        /\ reply' = "OK" /\ dev'.type = dev.type /\ dev'.lbFill = dev.lbFill
        /\ dev'.bytesToReceive = dev.bytesToReceive /\ dev'.bytesToRead = 0
        /\ dev'.rssi = dev.rssi /\ dev'.idRequest = dev.idRequest
        /\ dev'.replyState = dev.replyState /\ dev'.connectState = dev.connectState
        /\ dev'.stateBooleans = dev.stateBooleans \cup {"LINE_READ"}
        /\ dev'.sendState = dev.sendState
    BY <1>1, <1>4 DEF Good, Typed, ReceivePayload, CanReceive, Receive, Raise, Await, Fields, reply
  <2> HIDE DEF b
  <2>2. PICK q \in Nat : Receiving(q) /\ Down(q)
    BY <1>1, GatedFinds
  <2>3. q = m /\ Receiving(m) /\ Down(m) /\ tx = <<>> /\ ~Restarting
    BY <2>2 DEF Receiving, Quieted
  <2>4. /\ rx \in Seq(Tokens) /\ line \in Seq(Tokens) /\ Seen \in Int
        /\ Len(got) \in Nat /\ Len(dev.readBuffer) \in Nat
    BY LenProperties DEF Good, Typed, Seen
  <2>5. (Restarting' <=> Restarting) /\ ~Fetching'
    BY <1>1, <2>1 DEF Restarting, Has, Fetching, Gated
  <2> HIDE DEF m
  <2>6. Replied' /\ rx' \in Seq(Tokens) /\ \A k \in 1 .. m : rx[k] = Byte(Seen + k)
    BY <1>1, <1>2, <2>1, <2>3, <2>4, <2>5, ReceiveStep DEF NothingElse
  <2>7. b \in Seq(Int) /\ Len(b) = m /\ Numbered(b, Seen)
    BY <1>2, <2>1, <2>4, <2>6, BytesReceived DEF b
  <2>8. /\ dev'.readBuffer \in Seq(Int) /\ Len(dev'.readBuffer) = Len(dev.readBuffer) + m
        /\ Numbered(dev'.readBuffer, Len(got))
    <3> DEFINE r == dev.readBuffer
               g == Len(got)
    <3>1. r \in Seq(Int) /\ g \in Int /\ Numbered(r, g) /\ Numbered(b, g + Len(r))
      BY <2>3, <2>4, <2>7 DEF Good, Typed, Down, Seen
    <3> HIDE DEF r, g
    <3>2. r \o b \in Seq(Int) /\ Len(r \o b) = Len(r) + Len(b) /\ Numbered(r \o b, g)
      BY <2>7, <3>1, NumberedConcat
    <3> QED
      BY <2>1, <2>7, <3>2 DEF r, g
  <2>9. Seen' = Seen + m
    BY <2>1, <2>4, <2>8, <1>2 DEF Seen, NothingElse
  <2>10. Down(0)'
    <3>1. /\ Numbered(got, 0)' /\ Numbered(dev.readBuffer, Len(got))'
      BY <2>3, <2>8 DEF Down, NothingElse, Numbered
    <3>2. Seen' + 0 = Seen + m
      BY <1>2, <2>4, <2>9
    <3> QED
      BY <2>3, <3>1, <3>2 DEF Down, NothingElse, Numbered
  <2>11. Exchange(0, 0)'
    BY <2>6 DEF Exchange
  <2>12. Up'
    <3>1. Carried' = Carried /\ (Lost => Lost')
      BY <1>1, <2>3 DEF Carried, Lost, NothingElse
    <3> QED
      BY <3>1, <1>1, <2>1, UpKept DEF Good, Talk, NothingElse
  <2>13. Typed'
    BY <1>1, <2>1, <2>6, <2>8 DEF Good, Typed, NothingElse
  <2>14. Flags' /\ Waiting'
    BY <1>1, <2>1, <2>5 DEF Good, Steady, Flags, Waiting, NothingElse, Has
  <2>15. Unasked' /\ Resets'
    BY <1>1, <2>1, <2>3, <2>5 DEF Good, Steady, Unasked, Resets, NothingElse, Gated
  <2>16. Life'
    BY <1>1, <1>2, <2>1, <2>3, NoTextIsNone DEF Life, Active, Has, NothingElse, Asked
  <2> QED
    BY <2>10, <2>11, <2>12, <2>13, <2>14, <2>15, <2>16 DEF Good, Talk, Steady, NothingElse
<1> QED
  BY <1>3, <1>4

-----------------------------------------------------------------------------
(* Resets.                                                                   *)

(* The modem is restarted.                                                   *)
LEMMA RestartStep ==
  ASSUME Good, NothingElse, Starts, Restarting, ~NeverResets, Is("espressif"), rx' = <<>>,
         Command("AT+RST"), step' = step, serialOpen' = serialOpen,
         DOMAIN dev' = Fields, dev'.readBuffer = dev.readBuffer,
         dev'.writeBuffer = dev.writeBuffer, dev'.type = dev.type, dev'.lbFill = dev.lbFill,
         dev'.bytesToReceive = 0, dev'.bytesToRead = 0, dev'.bytesToWrite = 0,
         KeepsRequests, dev'.stateBooleans = {"LINE_READ"}, dev'.sendState = "notConnected",
         reply' = "ready", dev'.replyState = "okReply", dev'.connectState = dev.connectState
  PROVE  Good'
<1> DEFINE c == Line("AT+RST", 0)
<1>1. PICK p \in Nat, m \in Nat : Exchange(p, m) /\ Down(m)
  BY DEF Good, Talk
<1>2. /\ rx \in Seq(Tokens) /\ line \in Seq(Tokens)
  BY DEF Good, Typed
<1>3. /\ m = 0 /\ tx = <<>> /\ prompt = 0 /\ dev.bytesToRead = 0 /\ reply = NULL
      /\ AllNotices(line)
  BY <1>1, <1>2, ResetFinds
<1>4. c \in Tokens /\ c.kind = "line" /\ c.text = "AT+RST"
  <2>1. "AT+RST" \in Texts
    BY DEF Texts
  <2> QED
    BY <2>1, LineIsToken
<1>5. tx' = tx \o <<c>>
  BY DEF Command, Send
<1> HIDE DEF c
<1>6. <<c>> \in Seq(Tokens) /\ Len(<<c>>) = 1 /\ <<c>>[1] = c
  BY <1>4, Singleton
<1>7. tx' \in Seq(Tokens) /\ Len(tx') = 1 /\ tx'[1] = c /\ tx' # <<>>
  BY <1>3, <1>5, <1>6, ConcatEmptySeq
<1>8. Stream' = line
  BY <1>2, ConcatEmptySeq DEF Stream, NothingElse
<1>9. ~Restarting' /\ ~Fetching'
  BY DEF Restarting, Has, Fetching
<1>10. reply' \in Awaited /\ c.text \in Commands(reply)' /\ reply' # ">"
  <2>1. "ready" \in Awaited
    BY DEF Awaited
  <2>2. Commands(reply)' = {"AT+RST"}
    BY DEF Commands, Is, NothingElse
  <2> QED
    BY <1>4, <2>1, <2>2
<1>11. AllNotices(Stream)'
  BY <1>3, <1>8 DEF AllNotices
<1>12. Asking'
  BY <1>3, <1>4, <1>7, <1>9, <1>10, <1>11 DEF Asking, Quieted, NothingElse
<1>13. Exchange(0, 0)'
  BY <1>12 DEF Exchange
<1>14. Down(0)'
  BY <1>1, <1>3, DownKept DEF NothingElse
<1>15. Carried = 0 /\ Carried' = 0
  BY <1>3, <1>4, <1>7 DEF Carried
<1>16. Up'
  <2>1. Lost => Lost'
    BY <1>3 DEF Lost, NothingElse, NULL
  <2> QED
    BY <1>15, <2>1, UpKept DEF Good, Talk, NothingElse
<1>17. rx' \in Seq(Tokens)
  BY EmptySeq
<1>18. Typed'
  BY <1>7, <1>17 DEF Good, Typed, NothingElse
<1>19. Flags'
  BY DEF Good, Steady, Flags, NothingElse, Has
<1>20. Waiting'
  <2>1. reply' # ">" /\ reply' # "SEND OK" /\ reply' # "WIFI DISCONNECT"
    OBVIOUS
  <2> QED
    BY <2>1 DEF Waiting
<1>21. Unasked' /\ Resets'
  BY <1>9 DEF Good, Steady, Unasked, Resets, NothingElse, Starts, KeepsRequests
<1>22. Asked' = "AT+RST"
  BY <1>4, <1>7 DEF Asked
<1>23. Life'
  <2>1. ~Has(dev', "CONNECT_PENDING")
    BY DEF Has
  <2> QED
    BY <1>9, <1>22, <2>1 DEF Good, Life, Fresh, Opening, Active, Over, Zero, IsConnected, Is,
         NothingElse, Has, Typed
<1> QED
  BY <1>13, <1>14, <1>16, <1>18, <1>19, <1>20, <1>21, <1>23 DEF Good, Talk, Steady, NothingElse

(* The CC1352P7 driver closes the connection instead.                        *)
LEMMA RecloseStep ==
  ASSUME Good, NothingElse, Starts, Restarting, ~NeverResets, Is("cc1352p7"), rx' = <<>>,
         tx' = tx, step' = "send", serialOpen' = serialOpen,
         DOMAIN dev' = Fields, dev'.readBuffer = dev.readBuffer,
         dev'.writeBuffer = dev.writeBuffer, dev'.type = dev.type, dev'.lbFill = dev.lbFill,
         dev'.bytesToReceive = 0, dev'.bytesToRead = 0, dev'.bytesToWrite = dev.bytesToWrite,
         KeepsRequests, dev'.stateBooleans = dev.stateBooleans \ {"RESET_PENDING"},
         dev'.sendState = "sendCipclose",
         reply' = NULL, dev'.replyState = "okReply", dev'.connectState = dev.connectState
  PROVE  Good'
<1>1. PICK p \in Nat, m \in Nat : Exchange(p, m) /\ Down(m)
  BY DEF Good, Talk
<1>2. /\ rx \in Seq(Tokens) /\ line \in Seq(Tokens)
  BY DEF Good, Typed
<1>3. /\ m = 0 /\ tx = <<>> /\ prompt = 0 /\ dev.bytesToRead = 0 /\ reply = NULL
      /\ AllNotices(line)
  BY <1>1, <1>2, ResetFinds
<1>4. Stream' = line
  BY <1>2, ConcatEmptySeq DEF Stream, NothingElse
<1>5. ~Restarting' /\ ~Fetching'
  BY DEF Restarting, Has, Fetching
<1>6. AllNotices(Stream)'
  BY <1>3, <1>4 DEF AllNotices
<1>7. Resting'
  BY <1>3, <1>5, <1>6 DEF Resting, Prompted, NothingElse
<1>8. Exchange(0, 0)'
  BY <1>7 DEF Exchange
<1>9. Down(0)'
  BY <1>1, <1>3, DownKept DEF NothingElse
<1>10. Carried = 0 /\ Carried' = 0
  BY <1>3 DEF Carried
<1>11. Up'
  <2>1. Lost => Lost'
    BY <1>3 DEF Lost, NothingElse, NULL
  <2> QED
    BY <1>10, <2>1, UpKept DEF Good, Talk, NothingElse
<1>12. rx' \in Seq(Tokens)
  BY EmptySeq
<1>13. Typed'
  BY <1>12 DEF Good, Typed, NothingElse
<1>14. Flags'
  BY <1>3 DEF Good, Steady, Flags, NothingElse, Has
<1>15. Waiting'
  BY DEF Waiting, NULL
<1>16. Unasked' /\ Resets'
  BY <1>5 DEF Good, Steady, Unasked, Resets, NothingElse, Starts, KeepsRequests
<1>17. Asked = NoText /\ Asked' = NoText
  BY <1>3 DEF Asked
<1>18. Life'
  BY <1>5, <1>17, NoTextIsNone DEF Good, Life, Fresh, Opening, Active, Over, Zero, IsConnected,
       Is, NothingElse, Has, Typed, Closed
<1> QED
  BY <1>8, <1>9, <1>11, <1>13, <1>14, <1>15, <1>16, <1>18 DEF Good, Talk, Steady, NothingElse

-----------------------------------------------------------------------------
(* The lines of the Espressif modems.                                        *)

(* What the parser leaves alone, whatever line comes but a header.           *)
SameButLine(d, e) ==
  /\ DOMAIN d = Fields /\ d.lbFill = e.lbFill
  /\ d.readBuffer = e.readBuffer /\ d.writeBuffer = e.writeBuffer /\ d.type = e.type
  /\ d.bytesToWrite = e.bytesToWrite /\ d.bytesToRead = e.bytesToRead
  /\ d.bytesToReceive \in Int
  /\ d.idRequest = e.idRequest /\ d.rssi \in {e.rssi, "known"}
  /\ \A flag \in {"DISCONNECT_PENDING", "CONNECT_PENDING", "RESET_PENDING", "LINE_READ"} :
       Has(d, flag) <=> Has(e, flag)
  /\ \/ d.replyState = e.replyState
     \/ d.replyState = "okReply" /\ e.replyState \in {"reqMac", "rssi", "csq"}
Waits(d, e) ==
  /\ d.sendState = e.sendState /\ d.waitForReply = e.waitForReply
  /\ d.connectState = e.connectState

LEMMA SameAgain ==
  ASSUME NEW c, NEW d, NEW e, SameButLine(d, e), SameButLine(c, d)
  PROVE  SameButLine(c, e)
BY DEF SameButLine

SendFail == "SEND FAIL"
SentOk == "SEND OK"
NoAccess == "No AP"

LEMMA LineMatched ==
  ASSUME NEW d, NEW t, DOMAIN d = Fields, d.bytesToReceive \in Int
  PROVE  LET e == MatchReply(d, t)
         IN  /\ SameButLine(e, d) /\ e.sendState = d.sendState
             /\ e.connectState = d.connectState
             /\ e.waitForReply = (IF t.text = d.waitForReply THEN NULL ELSE d.waitForReply)
BY DEF MatchReply, Await, SameButLine, Fields, Has

LEMMA LineFilled ==
  ASSUME Good, NEW kinds, FillsLine(dev, kinds)
  PROVE  /\ SameButLine(FillLineBuffer(dev, kinds), dev)
         /\ Waits(FillLineBuffer(dev, kinds), dev)
         /\ FillLineBuffer(dev, kinds).replyState = dev.replyState
BY DEF FillLineBuffer, FillsLine, SameButLine, Waits, Fields, Has, Good, Typed, Steady, Flags

LEMMA SendFailHandled ==
  ASSUME NEW d, NEW t, DOMAIN d = Fields, d.bytesToReceive \in Int
  PROVE  LET e == ES!HandleSendFail(d, t)
             fails == d.sendState = "connected" /\ t.text = SendFail
         IN  /\ SameButLine(e, d) /\ e.sendState = d.sendState
             /\ e.connectState = (IF fails THEN "generalError" ELSE d.connectState)
             /\ e.waitForReply = (IF fails THEN NULL ELSE d.waitForReply)
<1>1. ES!HandleSendFail(d, t) = IF d.sendState = "connected" /\ t.text = SendFail
                                THEN Await(Report(d, "generalError"), NULL) ELSE d
  BY DEF ES!HandleSendFail, ES!Await, ES!Report, Await, Report, SendFail, ES!NULL, NULL
<1> QED
  BY <1>1 DEF SameButLine, Fields, Has, Await, Report

LEMMA ReplyHandled ==
  ASSUME NEW d, NEW t, DOMAIN d = Fields, d.bytesToReceive \in Int, t.text # "+CIPRECVDATA"
  PROVE  LET e == ES!HandleReply(d, t) IN SameButLine(e, d) /\ Waits(e, d)
<1>1. ES!HandleReply(d, t) =
        CASE d.replyState = "parseStateCiprecvdata" -> ES!ParseCiprecvdata(d, t)
          [] d.replyState = "reqMac" -> ES!ParseMac(d, t)
          [] d.replyState = "rssi" /\ t.text \in {"+CWJAP", NoAccess} ->
               Expect([d EXCEPT !.rssi = "known"], "okReply")
          [] OTHER -> d
  BY DEF ES!HandleReply, ES!Expect, Expect, NoAccess
<1>2. ES!ParseCiprecvdata(d, t) = d
  BY DEF ES!ParseCiprecvdata
<1>3. \/ ES!HandleReply(d, t) = d
      \/ /\ d.replyState = "reqMac"
         /\ ES!HandleReply(d, t) = [[d EXCEPT !.idString = "mac"] EXCEPT !.replyState = "okReply"]
      \/ /\ d.replyState = "rssi"
         /\ ES!HandleReply(d, t) = [[d EXCEPT !.rssi = "known"] EXCEPT !.replyState = "okReply"]
  BY <1>1, <1>2 DEF ES!ParseMac, ES!Expect, Expect
<1> QED
  BY <1>3 DEF SameButLine, Waits, Fields, Has

LEMMA ConnectionChecked ==
  ASSUME NEW d, NEW t, DOMAIN d = Fields, d.bytesToReceive \in Int, t.n \in Int, d.type = "TCP"
  PROVE  LET e == ES!CheckConnection(d, t)
             leaves == d.sendState \in ES!FromConnected /\ t.text = NetworkLeft
         IN  /\ SameButLine(e, d) /\ e.connectState = d.connectState
             /\ e.sendState = (IF leaves THEN "finalizeDisconnect" ELSE d.sendState)
             /\ e.waitForReply = (IF leaves THEN NULL ELSE d.waitForReply)
<1>1. ES!CheckConnection(d, t) =
        IF d.sendState \notin ES!FromConnected THEN d
        ELSE CASE t.text = "+IPD" -> ES!HandleIPD(d, t)
               [] t.text = "CLOSED" -> Lift(d, "IP_CONNECTED")
               [] t.text = NetworkLeft -> Await(Goto(d, "finalizeDisconnect"), NULL)
               [] OTHER -> d
  BY DEF ES!CheckConnection, ES!Lift, Lift, ES!Await, Await, ES!Goto, Goto, ES!NULL, NULL,
         NetworkLeft
<1>2. NetworkLeft # "+IPD" /\ NetworkLeft # "CLOSED"
  BY DEF NetworkLeft
<1>3. ES!HandleIPD(d, t) = Raise([d EXCEPT !.bytesToReceive = t.n], "DATA_PENDING")
  BY DEF ES!HandleIPD, ES!Raise, Raise
<1>4. \/ /\ ES!CheckConnection(d, t) = d
         /\ d.sendState \notin ES!FromConnected \/ t.text # NetworkLeft
      \/ /\ ES!CheckConnection(d, t) = Raise([d EXCEPT !.bytesToReceive = t.n], "DATA_PENDING")
         /\ t.text # NetworkLeft
      \/ ES!CheckConnection(d, t) = Lift(d, "IP_CONNECTED") /\ t.text # NetworkLeft
      \/ /\ ES!CheckConnection(d, t) = Await(Goto(d, "finalizeDisconnect"), NULL)
         /\ t.text = NetworkLeft /\ d.sendState \in ES!FromConnected
  BY <1>1, <1>2, <1>3
<1> HIDE DEF ES!FromConnected
<1> DEFINE e == ES!CheckConnection(d, t)
<1>5. CASE e = d /\ (d.sendState \notin ES!FromConnected \/ t.text # NetworkLeft)
  BY <1>5 DEF SameButLine, Fields
<1>6. CASE /\ e = Raise([d EXCEPT !.bytesToReceive = t.n], "DATA_PENDING")
           /\ t.text # NetworkLeft
  BY <1>6 DEF SameButLine, Fields, Has, Raise
<1>7. CASE e = Lift(d, "IP_CONNECTED") /\ t.text # NetworkLeft
  BY <1>7 DEF SameButLine, Fields, Has, Lift
<1>8. CASE /\ e = Await(Goto(d, "finalizeDisconnect"), NULL)
           /\ t.text = NetworkLeft /\ d.sendState \in ES!FromConnected
  BY <1>8 DEF SameButLine, Fields, Has, Await, Goto
<1> QED
  BY <1>4, <1>5, <1>6, <1>7, <1>8

(* The line that is taken is the next one.                                   *)
LEMMA TakesComing ==
  ASSUME Good, NEW kinds, EndsLines(kinds), TakeLine(kinds)
  PROVE  /\ FillsLine(dev, kinds) /\ FilledLine(dev, kinds) = Coming /\ Coming \in Tokens
         /\ \/ IsNotice(Coming)
            \/ ~Fetching /\ Coming.kind = "line" /\ reply \in Awaited /\
                 Coming.text \in Answers(reply)
            \/ ~Fetching /\ Coming.kind = "line" /\ reply = ">" /\ Coming.text \in {"OK", ">"}
            \/ Fetching /\ Coming.kind = "line" /\ Coming.text = "ERROR" /\ reply = NULL
            \/ Fetching /\ reply = NULL /\ \E m \in Nat : Coming = PayloadHeader(m)
<1>1. Has(dev, "LINE_READ") /\ EndsIn(rx, kinds) # {} /\ FillsLine(dev, kinds)
  BY DEF TakeLine, FillsLine
<1>2. rx # <<>>
  BY <1>1 DEF EndsIn
<1>3. FilledLine(dev, kinds) = Coming
  BY <1>1, <1>2, LineIsNext
<1>4. /\ Stream # <<>> /\ Stream \in Seq(Tokens) /\ Seen \in Int
      /\ \E p, m \in Nat : Exchange(p, m) /\ Down(m) /\ ~Receiving(m)
  BY <1>1, <1>2, NextIsLine
<1>5. Coming \in Tokens
  BY <1>4, TakeNotice DEF Coming
<1>6. PICK p \in Nat, m \in Nat : Exchange(p, m) /\ ~Receiving(m)
  BY <1>4
<1>7. \/ IsNotice(Coming)
      \/ Replied /\ m = 0 /\ Coming.kind = "line" /\ Coming.text \in Answers(reply)
      \/ Prompting /\ m = 0 /\ Coming.kind = "line" /\ Coming.text \in {"OK", ">"}
      \/ Refused /\ m = 0 /\ Coming.kind = "line" /\ Coming.text = "ERROR"
      \/ Fetched(p, m) /\ p = 1 /\ Coming = PayloadHeader(m)
  BY <1>4, <1>6, Comes
<1> QED
  BY <1>1, <1>3, <1>5, <1>7 DEF Replied, Prompting, Refused, Fetched

LEMMA EspressifLine ==
  /\ \A kinds : ES!TakeLine(kinds) <=> TakeLine(kinds)
  /\ \A kinds : ES!FillNothing(kinds) <=> FillNothing(kinds)
  /\ \A d, kinds : ES!FilledLine(d, kinds) = FilledLine(d, kinds)
  /\ \A d, kinds : ES!FillLineBuffer(d, kinds) = FillLineBuffer(d, kinds)
  /\ \A d, t : ES!MatchReply(d, t) = MatchReply(d, t)
  /\ \A d : ES!Failed(d) = Failed(d)
<1>1. \A kinds : ES!TakeLine(kinds) <=> TakeLine(kinds)
  BY DEF ES!TakeLine, TakeLine, ES!Starts, Starts, ES!FillsLine, FillsLine,
         ES!RestAfterFill, RestAfterFill, ES!Has, Has, ES!EndsIn, EndsIn,
         ES!FirstEnd, FirstEnd, ES!Drop, Drop
<1>2. \A kinds : ES!FillNothing(kinds) <=> FillNothing(kinds)
  BY DEF ES!FillNothing, FillNothing, ES!Starts, Starts, ES!FillsLine, FillsLine,
         ES!RestAfterFill, RestAfterFill, ES!Has, Has, ES!EndsIn, EndsIn,
         ES!FirstEnd, FirstEnd, ES!Drop, Drop, ES!Flushes, Flushes,
         ES!FlushReadBuffer, FlushReadBuffer, ES!FillLineBuffer, FillLineBuffer,
         ES!Flushable, Flushable, ES!Lower, Lower, ES!Raise, Raise
<1>3. \A d, kinds : ES!FilledLine(d, kinds) = FilledLine(d, kinds)
  BY DEF ES!FilledLine, FilledLine, ES!FirstEnd, FirstEnd, ES!EndsIn, EndsIn, ES!Garbled,
         Garbled, ES!Line, Line
<1>4. \A d, kinds : ES!FillLineBuffer(d, kinds) = FillLineBuffer(d, kinds)
  BY DEF ES!FillLineBuffer, FillLineBuffer, ES!FillsLine, FillsLine, ES!Has, Has, ES!EndsIn, EndsIn
<1>5. \A d, t : ES!MatchReply(d, t) = MatchReply(d, t)
  BY DEF ES!MatchReply, MatchReply, ES!Await, Await, ES!NULL, NULL
<1>6. \A d : ES!Failed(d) = Failed(d)
  BY DEF ES!Failed, Failed, ES!Await, Await, ES!Report, Report, ES!Raise, Raise, ES!NULL, NULL
<1> QED
  BY <1>1, <1>2, <1>3, <1>4, <1>5, <1>6

LEMMA EspressifEnds == Is("espressif") => EndsLines(ES!LineEnds(dev))
BY DEF EndsLines, ES!LineEnds, Fetching, Is

(* The device after the line is in the buffer.                               *)
LEMMA EspressifFills ==
  ASSUME Good, Is("espressif"), TakeLine(ES!LineEnds(dev))
  PROVE  /\ ES!TheLine = Coming
         /\ DOMAIN ES!Filled = Fields
         /\ Coming.kind = "line" => SameButLine(ES!Filled, dev) /\ Waits(ES!Filled, dev)
         /\ Coming.kind = "header" /\ Fetching =>
              ES!Filled = Expect(FillLineBuffer(dev, ES!LineEnds(dev)), "parseStateCiprecvdata")
<1> DEFINE k == ES!LineEnds(dev)
           d == FillLineBuffer(dev, k)
<1>1. FillsLine(dev, k) /\ FilledLine(dev, k) = Coming
  BY EspressifEnds, TakesComing
<1>2. ES!TheLine = Coming
  BY <1>1, EspressifLine DEF ES!TheLine
<1>3. ES!Filled = IF Fetching /\ Coming.kind = "header" THEN Expect(d, "parseStateCiprecvdata")
                  ELSE d
  <2>1. d.replyState = "waitCiprecvdata" <=> Fetching
    BY <1>1, LineFilled DEF Fetching, Is
  <2> QED
    BY <1>2, <2>1, EspressifLine DEF ES!Filled, ES!Expect, Expect
<1>4. SameButLine(d, dev) /\ Waits(d, dev)
  BY <1>1, LineFilled
<1> HIDE DEF d, k
<1>5. DOMAIN ES!Filled = Fields
  BY <1>3, <1>4 DEF SameButLine, Expect
<1> QED
  BY <1>2, <1>3, <1>4, <1>5 DEF d, k

LEMMA EspressifErrorStep ==
  ASSUME Good, NothingElse, Is("espressif"), ES!HandleError
  PROVE  Good'
<1> DEFINE k == ES!LineEnds(dev)
           d == ES!Filled
<1>1. EndsLines(k) /\ TakeLine(k)
  BY EspressifEnds, EspressifLine DEF ES!HandleError
<1>2. /\ Coming.text \in Errors /\ dev' = Failed(d) /\ step' = "off"
  BY <1>1, EspressifFills, EspressifLine DEF ES!HandleError, ES!IsError, Errors
<1>3. Coming.kind = "line"
  <2>1. Coming.text # "+CIPRECVDATA"
    BY <1>2 DEF Errors
  <2> QED
    BY <1>1, <2>1, TakesComing DEF IsNotice, PayloadHeader, Header, Line
<1>4. SameButLine(d, dev) /\ Waits(d, dev)
  BY <1>1, <1>3, EspressifFills
<1> HIDE DEF d, k
<1>5. /\ DOMAIN dev' = Fields /\ dev'.readBuffer = dev.readBuffer
      /\ dev'.writeBuffer = dev.writeBuffer
      /\ dev'.type = dev.type /\ dev'.lbFill = FALSE
      /\ dev'.bytesToWrite = dev.bytesToWrite /\ dev'.bytesToReceive \in Int
      /\ dev'.rssi \in {dev.rssi, "known"} /\ dev'.idRequest = dev.idRequest
      /\ dev'.bytesToRead = dev.bytesToRead /\ dev'.sendState = dev.sendState
      /\ dev'.connectState = "generalError" /\ reply' = NULL
      /\ dev'.replyState = d.replyState
      /\ dev'.stateBooleans = d.stateBooleans \cup {"RESET_PENDING"}
  BY <1>2, <1>4 DEF Failed, Await, Report, Raise, SameButLine, Waits, Fields, reply, Good,
     Steady, Flags
<1>6. Fetching' <=> Fetching
  BY <1>4, <1>5 DEF Fetching, Is, NothingElse, SameButLine
<1>7. /\ KeepsBuffers /\ KeepsFlags /\ Restarting'
      /\ Has(dev', "LINE_READ") <=> Has(dev, "LINE_READ")
  BY <1>4, <1>5 DEF KeepsBuffers, KeepsFlags, Restarting, Has, SameButLine
<1> QED
  BY <1>1, <1>2, <1>5, <1>6, <1>7, ErrorTurn

LEMMA WordsApart ==
  /\ NULL # "+CIPRECVDATA" /\ SendFail # "+CIPRECVDATA" /\ NetworkLeft # "+CIPRECVDATA"
  /\ SendFail \notin Notices /\ NetworkLeft \notin Notices /\ SendFail # NetworkLeft
  /\ SendFail \notin {"OK", ">", "ERROR"} /\ NetworkLeft \notin {"OK", ">", "ERROR"}
  /\ "OK" \notin Notices /\ ">" \notin Notices /\ "ERROR" \notin Notices
  /\ SentOk # NULL /\ ">" # NULL /\ ">" \in Awaited
<1>1. NULL # "+CIPRECVDATA" /\ SendFail # "+CIPRECVDATA" /\ NetworkLeft # "+CIPRECVDATA"
  BY DEF NULL, SendFail, NetworkLeft
<1>2. SendFail \notin Notices /\ NetworkLeft \notin Notices
  BY DEF SendFail, NetworkLeft, Notices
<1>3. SendFail # NetworkLeft
  BY DEF SendFail, NetworkLeft
<1>4. SendFail \notin {"OK", ">", "ERROR"} /\ NetworkLeft \notin {"OK", ">", "ERROR"}
  BY DEF SendFail, NetworkLeft
<1>5. "OK" \notin Notices /\ ">" \notin Notices /\ "ERROR" \notin Notices
  BY DEF Notices
<1>6. SentOk # NULL /\ ">" # NULL /\ ">" \in Awaited
  BY DEF SentOk, NULL, Awaited
<1> QED
  BY <1>1, <1>2, <1>3, <1>4, <1>5, <1>6

(* The driver waits for one of these lines, or for nothing.                  *)
LEMMA ReplyIs ==
  ASSUME Good, reply # NULL
  PROVE  reply \in Awaited /\ reply \notin Notices /\ ~Fetching
<1>1. \E p, m \in Nat : Exchange(p, m)
  BY DEF Good, Talk
<1>2. Confirmation \in Awaited
  BY DEF Confirmation, Awaited
<1>3. "OK" \in Awaited /\ ">" \in Awaited
  BY DEF Awaited
<1>4. reply \in Awaited /\ ~Fetching
  BY <1>1, <1>2, <1>3 DEF Exchange, Resting, Asking, Replied, Prompting, Sending, Refused,
                         Dropping, Fetched, Receiving
<1>5. \A r \in Awaited : r \notin Notices
  BY DEF Awaited, Notices
<1> QED
  BY <1>4, <1>5

(* SEND FAIL and WIFI DISCONNECT come only where they are expected.          *)
LEMMA RareAnswers ==
  ASSUME Is("espressif"), reply \in Awaited
  PROVE  /\ SendFail \in Answers(reply) => reply = SentOk
         /\ NetworkLeft \in Answers(reply) => reply = NetworkLeft
<1>1. reply = "OK" \/ reply = ">" \/ reply = "SEND OK" \/ reply = "WIFI DISCONNECT" \/
        reply = "ready"
  BY DEF Awaited
<1>2. CASE reply = "OK"
  <2>1. Answers("OK") \subseteq {"OK", "+CWJAP", "No AP", "+CSQ", "+CIPSTAMAC", "ERROR", "FAIL"}
    BY DEF Answers, Errors
  <2>2. SendFail \notin {"OK", "+CWJAP", "No AP", "+CSQ", "+CIPSTAMAC", "ERROR", "FAIL"}
    BY DEF SendFail
  <2>3. NetworkLeft \notin {"OK", "+CWJAP", "No AP", "+CSQ", "+CIPSTAMAC", "ERROR", "FAIL"}
    BY DEF NetworkLeft
  <2> QED
    BY <1>2, <2>1, <2>2, <2>3
<1>3. CASE reply = ">"
  BY <1>3, AnswersAre, WordsApart
<1>4. CASE reply = "SEND OK"
  <2>1. Answers("SEND OK") = {"SEND OK", "SEND FAIL"}
    BY DEF Answers
  <2>2. NetworkLeft \notin {"SEND OK", "SEND FAIL"}
    BY DEF NetworkLeft
  <2> QED
    BY <1>4, <2>1, <2>2 DEF SentOk
<1>5. CASE reply = "WIFI DISCONNECT"
  <2>1. Answers("WIFI DISCONNECT") = {"OK", "WIFI DISCONNECT"}
    BY DEF Answers
  <2>2. SendFail \notin {"OK", "WIFI DISCONNECT"}
    BY DEF SendFail
  <2> QED
    BY <1>5, <2>1, <2>2 DEF NetworkLeft
<1>6. CASE reply = "ready"
  <2>1. Answers("ready") = {"OK", "ready"}
    BY DEF Answers
  <2>2. SendFail \notin {"OK", "ready"} /\ NetworkLeft \notin {"OK", "ready"}
    BY DEF SendFail, NetworkLeft
  <2> QED
    BY <1>6, <2>1, <2>2
<1> QED
  BY <1>1, <1>2, <1>3, <1>4, <1>5, <1>6

LEMMA EspressifLineStep ==
  ASSUME Covered, Good, NothingElse, Is("espressif"), ES!ParseLine
  PROVE  Good'
<1> DEFINE k == ES!LineEnds(dev)
           t == Coming
           a == ES!Filled
           b == ES!HandleSendFail(a, t)
           c == MatchReply(b, t)
           d == ES!HandleReply(c, t)
           e == ES!CheckConnection(d, t)
<1>1. EndsLines(k) /\ TakeLine(k)
  BY EspressifEnds, EspressifLine DEF ES!ParseLine
<1>2. ES!TheLine = t /\ DOMAIN a = Fields
  BY <1>1, EspressifFills
<1>3. dev' = e /\ ~Restarting
  BY <1>2, EspressifLine DEF ES!ParseLine, ES!Reads, ES!Has, Restarting, Has
<1>4. /\ t \in Tokens
      /\ \/ IsNotice(t)
         \/ ~Fetching /\ t.kind = "line" /\ reply \in Awaited /\ t.text \in Answers(reply)
         \/ ~Fetching /\ t.kind = "line" /\ reply = ">" /\ t.text \in {"OK", ">"}
         \/ Fetching /\ t.kind = "line" /\ t.text = "ERROR" /\ reply = NULL
         \/ Fetching /\ reply = NULL /\ \E m \in Nat : t = PayloadHeader(m)
  BY <1>1, TakesComing
<1>5. dev.type = "TCP" /\ dev.lbFill = FALSE /\ t.n \in Int
  BY <1>4 DEF Covered, Is, Good, Steady, Flags, Tokens
<1>6. /\ a.bytesToReceive \in Int /\ a.type = "TCP"
  <2>1. \A i : SameButLine(i, dev) => i.bytesToReceive \in Int /\ i.type = "TCP"
    BY <1>5 DEF SameButLine
  <2>2. FillsLine(dev, k)
    BY <1>1, TakesComing
  <2>3. SameButLine(FillLineBuffer(dev, k), dev)
    BY <2>2, LineFilled
  <2>4. \A i : SameButLine(i, dev) =>
                Expect(i, "parseStateCiprecvdata").bytesToReceive = i.bytesToReceive
                 /\ Expect(i, "parseStateCiprecvdata").type = i.type
    BY DEF SameButLine, Expect, Fields
  <2> QED
    BY <1>1, <1>4, <2>1, <2>3, <2>4, EspressifFills DEF IsNotice, PayloadHeader, Header
<1> HIDE DEF k, t, a
<1>7. CASE t.text # "+CIPRECVDATA"
  <2>1. t.kind = "line"
    BY <1>4, <1>7 DEF IsNotice, PayloadHeader, Header, Line
  <2>2. SameButLine(a, dev) /\ Waits(a, dev)
    BY <1>1, <2>1, EspressifFills DEF a, t, k
  <2> DEFINE fails == a.sendState = "connected" /\ t.text = SendFail
             leaves == d.sendState \in ES!FromConnected /\ t.text = NetworkLeft
  <2>3. /\ SameButLine(b, a) /\ b.sendState = a.sendState
        /\ b.connectState = (IF fails THEN "generalError" ELSE a.connectState)
        /\ b.waitForReply = (IF fails THEN NULL ELSE a.waitForReply)
    BY <1>2, <1>6, SendFailHandled
  <2> HIDE DEF fails, b
  <2>4. /\ SameButLine(c, b) /\ c.sendState = b.sendState /\ c.connectState = b.connectState
        /\ c.waitForReply = (IF t.text = b.waitForReply THEN NULL ELSE b.waitForReply)
    BY <2>3, LineMatched DEF SameButLine
  <2> HIDE DEF c
  <2>5. SameButLine(d, c) /\ Waits(d, c)
    BY <1>7, <2>4, ReplyHandled DEF SameButLine
  <2> HIDE DEF d
  <2>6. SameButLine(d, dev)
    BY <2>2, <2>3, <2>4, <2>5, SameAgain
  <2>7. /\ SameButLine(e, d) /\ e.connectState = d.connectState
        /\ e.sendState = (IF leaves THEN "finalizeDisconnect" ELSE d.sendState)
        /\ e.waitForReply = (IF leaves THEN NULL ELSE d.waitForReply)
    BY <2>6, <1>5, ConnectionChecked DEF SameButLine
  <2> HIDE DEF leaves, e
  <2>8. SameButLine(dev', dev)
    BY <1>3, <2>6, <2>7, SameAgain
  <2>9. /\ KeepsBuffers /\ KeepsFlags /\ (Restarting' <=> Restarting)
        /\ Has(dev', "LINE_READ") <=> Has(dev, "LINE_READ")
        /\ Fetching' <=> Fetching
        /\ dev'.bytesToRead = dev.bytesToRead
    BY <1>5, <2>8 DEF SameButLine, KeepsBuffers, KeepsFlags, Restarting, Fetching, Is, NothingElse
  <2>19. \/ t.text \in Notices
         \/ ~Fetching /\ reply \in Awaited /\ t.text \in Answers(reply)
         \/ ~Fetching /\ reply = ">" /\ t.text \in {"OK", ">"}
         \/ Fetching /\ t.text = "ERROR"
    <3>1. \A m : PayloadHeader(m).kind = "header"
      BY DEF PayloadHeader, Header, Is
    <3> QED
      BY <1>4, <2>1, <3>1 DEF IsNotice
  <2>10. fails => t.text = SendFail /\ reply = SentOk /\ t.text \notin Notices /\ ~Fetching
    BY <2>19, WordsApart, RareAnswers DEF fails
  <2>11. leaves => t.text = reply /\ t.text = NetworkLeft
    BY <2>19, WordsApart, RareAnswers DEF leaves
  <2>12. leaves => dev.sendState = "finalizeDisconnect"
    BY <2>11 DEF NetworkLeft, Good, Steady, Waiting
  <2>13. dev'.sendState = dev.sendState
    BY <1>3, <2>2, <2>3, <2>4, <2>5, <2>7, <2>12 DEF Waits
  <2>14. dev'.connectState = (IF fails THEN "generalError" ELSE dev.connectState)
    BY <1>3, <2>2, <2>3, <2>4, <2>5, <2>7 DEF Waits
  <2>15. reply' = (IF fails \/ t.text = reply THEN NULL ELSE reply)
    BY <1>3, <2>2, <2>3, <2>4, <2>5, <2>7, <2>11 DEF Waits, reply
  <2>16. CASE fails \/ (t.text = reply /\ reply # NULL)
    <3>1. reply # NULL /\ ~IsNotice(t) /\ ~Fetching
      BY <2>10, <2>16, ReplyIs, WordsApart DEF IsNotice
    <3>2. Completes
      <4>1. fails => reply = "SEND OK" /\ t.text = "SEND FAIL"
        BY <2>10 DEF SentOk, SendFail
      <4> QED
        BY <3>1, <4>1, <2>16 DEF Completes, t
    <3>3. reply' = NULL /\ ~Fetching' /\ dev'.connectState \in {dev.connectState, "generalError"}
      BY <2>9, <2>14, <2>15, <2>16, <3>1
    <3> QED
      BY <1>1, <2>9, <2>13, <3>2, <3>3, DoneTurn DEF k
  <2>17. CASE ~fails /\ (t.text # reply \/ reply = NULL)
    BY <1>1, <1>3, <1>7, <2>9, <2>13, <2>14, <2>15, <2>17, PassTurn DEF t, k
  <2> QED
    BY <2>16, <2>17
<1>8. CASE t.text = "+CIPRECVDATA"
  <2>1. Fetching /\ reply = NULL /\ t.kind = "header"
    BY <1>4, <1>8, AnswersAre DEF IsNotice, Notices, PayloadHeader, Header
  <2>2. a = Expect(FillLineBuffer(dev, k), "parseStateCiprecvdata")
    BY <1>1, <2>1, EspressifFills DEF a, t, k
  <2> DEFINE f == FillLineBuffer(dev, k)
  <2>3. SameButLine(f, dev) /\ Waits(f, dev) /\ f.replyState = dev.replyState
    <3>1. FillsLine(dev, k)
      BY <1>1, TakesComing
    <3> QED
      BY <3>1, LineFilled
  <2> HIDE DEF f
  <2>4. b = a
    BY <1>8, WordsApart DEF b, ES!HandleSendFail, SendFail
  <2>5. /\ DOMAIN a = Fields /\ a.readBuffer = dev.readBuffer
        /\ a.writeBuffer = dev.writeBuffer /\ a.type = dev.type /\ a.lbFill = FALSE
        /\ a.bytesToWrite = dev.bytesToWrite /\ a.bytesToReceive \in Int
        /\ a.rssi \in {dev.rssi, "known"} /\ a.idRequest = dev.idRequest
        /\ a.bytesToRead = dev.bytesToRead /\ a.waitForReply = NULL
        /\ a.replyState = "parseStateCiprecvdata"
        /\ \A flag \in {"DISCONNECT_PENDING", "CONNECT_PENDING", "RESET_PENDING"} :
             Has(a, flag) <=> Has(dev, flag)
    BY <1>5, <2>1, <2>2, <2>3 DEF Expect, SameButLine, Waits, Fields, Has, f, reply
  <2>6. c = a
    BY <1>8, <2>4, <2>5, WordsApart DEF c, MatchReply
  <2> DEFINE g == [a EXCEPT !.bytesToReceive = @ - t.n, !.bytesToRead = @ + t.n]
  <2>7. d = Goto(Expect(Lift(g, "LINE_READ"), "okReply"), "receiving")
    <3>1. ES!HandleReply(a, t) = ES!ParseCiprecvdata(a, t)
      BY <2>5 DEF ES!HandleReply
    <3> QED
      BY <1>8, <2>6, <3>1 DEF d, ES!ParseCiprecvdata, ES!Goto, Goto, ES!Expect, Expect, ES!Lift,
         Lift
  <2>8. e = d
    <3>1. ES!CheckConnection(d, t) =
            IF d.sendState \notin ES!FromConnected THEN d
            ELSE CASE t.text = "+IPD" -> ES!HandleIPD(d, t)
                   [] t.text = "CLOSED" -> ES!Lift(d, "IP_CONNECTED")
                   [] t.text = NetworkLeft -> ES!Await(ES!Goto(d, "finalizeDisconnect"), ES!NULL)
                   [] OTHER -> d
      BY DEF ES!CheckConnection, NetworkLeft
    <3> QED
      BY <1>8, <3>1, WordsApart
  <2>9. dev' = Goto(Expect(Lift(g, "LINE_READ"), "okReply"), "receiving")
    BY <1>3, <2>7, <2>8
  <2> HIDE DEF d, e
  <2>10. /\ KeepsBuffers /\ dev'.sendState = "receiving" /\ dev'.replyState = "okReply"
         /\ dev'.bytesToRead = dev.bytesToRead + t.n /\ reply' = NULL
         /\ dev'.stateBooleans = a.stateBooleans \ {"LINE_READ"}
    BY <1>5, <2>5, <2>9 DEF KeepsBuffers, Goto, Expect, Lift, Fields, reply
  <2>11. /\ KeepsFlags /\ (Restarting' <=> Restarting) /\ ~Has(dev', "LINE_READ") /\ ~Fetching'
    BY <2>5, <2>10 DEF KeepsFlags, Restarting, Fetching, Has
  <2> QED
    BY <1>1, <1>8, <2>1, <2>10, <2>11, HeaderTurn DEF t, k
<1> QED
  BY <1>7, <1>8

(* The steps that both drivers share.                                        *)
LEMMA EspressifShares ==
  /\ ES!OpenSerial <=> OpenSerial
  /\ ES!Wait <=> Wait
  /\ \A text, awaited : ES!SendRSSIRequest(text, awaited) <=> SendRSSIRequest(text, awaited)
  /\ \A text, awaited : ES!SendIDRequest(text, awaited) <=> SendIDRequest(text, awaited)
  /\ ES!OtherState <=> OtherState
  /\ ES!NotConnected <=> NotConnected
  /\ \A next : ES!Connecting(next) <=> Connecting(next)
  /\ \A state, text, awaited, next : ES!SimpleCommand(state, text, awaited, next) <=>
                SimpleCommand(state, text, awaited, next)
  /\ ES!FinalizeConnect <=> FinalizeConnect
  /\ \A next : ES!ConnectedSends(next) <=> ConnectedSends(next)
  /\ \A next : ES!ConnectedReceives(next) <=> ConnectedReceives(next)
  /\ \A rested : ES!ConnectedIdle(rested) <=> ConnectedIdle(rested)
  /\ \A state, awaited : ES!SendDataBytes(state, awaited) <=> SendDataBytes(state, awaited)
  /\ \A state, command, awaited : ES!RequestPayload(state, command, awaited) <=>
                RequestPayload(state, command, awaited)
  /\ \A state, closing, done : ES!EndRequests(state, closing, done) <=>
                EndRequests(state, closing, done)
  /\ \A awaited : ES!ReceivePayload(awaited) <=> ReceivePayload(awaited)
  /\ \A more, done : ES!ReceivedPayload(more, done) <=> ReceivedPayload(more, done)
  /\ ES!FinalizeDisconnect <=> FinalizeDisconnect
  /\ \A state : ES!Case(state) <=> Case(state)
  /\ \A text : ES!Command(text) <=> Command(text)
<1>1. ES!OpenSerial <=> OpenSerial
  BY DEF ES!OpenSerial, OpenSerial, ES!Goto, Goto
<1>2. ES!Wait <=> Wait
  BY DEF ES!Wait, Wait, ES!MaySend, MaySend, ES!NULL, NULL
<1>3. \A text, awaited : ES!SendRSSIRequest(text, awaited) <=> SendRSSIRequest(text, awaited)
  BY DEF ES!SendRSSIRequest, SendRSSIRequest, ES!EndRun, EndRun, ES!MaySend, MaySend,
         ES!WantsRSSI, WantsRSSI, ES!Has, Has, ES!NULL, NULL, ES!Await, Await, ES!Expect,
         Expect, ES!Command, Command, ES!Send, Send, ES!Line, Line
<1>4. \A text, awaited : ES!SendIDRequest(text, awaited) <=> SendIDRequest(text, awaited)
  BY DEF ES!SendIDRequest, SendIDRequest, ES!EndRun, EndRun, ES!MaySend, MaySend,
         ES!WantsRSSI, WantsRSSI, ES!WantsID, WantsID, ES!Has, Has, ES!NULL, NULL,
         ES!Await, Await, ES!Expect, Expect, ES!Command, Command, ES!Send, Send, ES!Line,
         Line
<1>5. ES!OtherState <=> OtherState
  BY DEF ES!OtherState, OtherState, ES!Case, Case, ES!EndRun, EndRun, ES!MaySend,
         MaySend, ES!WantsRSSI, WantsRSSI, ES!WantsID, WantsID, ES!Has, Has, ES!NULL,
         NULL
<1>6. ES!NotConnected <=> NotConnected
  BY DEF ES!NotConnected, NotConnected, ES!HandleConnect, HandleConnect, ES!Report,
         Report, ES!Lift, Lift, ES!Goto, Goto, ES!Case, Case, ES!EndRun, EndRun,
         ES!MaySend, MaySend, ES!WantsRSSI, WantsRSSI, ES!WantsID, WantsID, ES!Has, Has,
         ES!NULL, NULL
<1>7. \A next : ES!Connecting(next) <=> Connecting(next)
  BY DEF ES!Connecting, Connecting, ES!Leave, Leave, ES!Report, Report, ES!Lift, Lift,
         ES!Goto, Goto, ES!Await, Await, ES!Raise, Raise, ES!Command, Command, ES!Send,
         Send, ES!Line, Line, ES!Case, Case, ES!EndRun, EndRun, ES!MaySend, MaySend,
         ES!WantsRSSI, WantsRSSI, ES!WantsID, WantsID, ES!Has, Has, ES!NULL, NULL
<1>8. \A state, text, awaited, next : ES!SimpleCommand(state, text, awaited, next) <=>
              SimpleCommand(state, text, awaited, next)
  BY DEF ES!SimpleCommand, SimpleCommand, ES!Goto, Goto, ES!Await, Await, ES!Command,
         Command, ES!Send, Send, ES!Line, Line, ES!Case, Case, ES!EndRun, EndRun,
         ES!MaySend, MaySend, ES!WantsRSSI, WantsRSSI, ES!WantsID, WantsID, ES!Has, Has,
         ES!NULL, NULL
<1>9. ES!FinalizeConnect <=> FinalizeConnect
  BY DEF ES!FinalizeConnect, FinalizeConnect, ES!Raise, Raise, ES!Goto, Goto, ES!Report,
         Report, ES!Case, Case, ES!EndRun, EndRun, ES!MaySend, MaySend, ES!WantsRSSI,
         WantsRSSI, ES!WantsID, WantsID, ES!Has, Has, ES!NULL, NULL
<1>10. \A next : ES!ConnectedSends(next) <=> ConnectedSends(next)
  BY DEF ES!ConnectedSends, ConnectedSends, ES!Goto, Goto, ES!Report, Report,
         ES!PrepareSending, PrepareSending, ES!Await, Await, ES!SendSize, SendSize,
         ES!Lower, Lower, ES!Send, Send, ES!Line, Line, ES!Case, Case, ES!EndRun, EndRun,
         ES!MaySend, MaySend, ES!WantsRSSI, WantsRSSI, ES!WantsID, WantsID, ES!Has, Has,
         ES!NULL, NULL
<1>11. \A next : ES!ConnectedReceives(next) <=> ConnectedReceives(next)
  BY DEF ES!ConnectedReceives, ConnectedReceives, ES!Goto, Goto, ES!Report, Report,
         ES!Lift, Lift, ES!Case, Case, ES!EndRun, EndRun, ES!MaySend, MaySend,
         ES!WantsRSSI, WantsRSSI, ES!WantsID, WantsID, ES!Has, Has, ES!NULL, NULL
<1>12. \A rested : ES!ConnectedIdle(rested) <=> ConnectedIdle(rested)
  BY DEF ES!ConnectedIdle, ConnectedIdle, ES!Case, Case, ES!EndRun, EndRun, ES!MaySend,
         MaySend, ES!WantsRSSI, WantsRSSI, ES!WantsID, WantsID, ES!Has, Has, ES!NULL,
         NULL
<1>13. \A state, awaited : ES!SendDataBytes(state, awaited) <=> SendDataBytes(state, awaited)
  BY DEF ES!SendDataBytes, SendDataBytes, ES!Goto, Goto, ES!Await, Await, ES!SendData,
         SendData, ES!DataToSend, DataToSend, ES!Byte, Byte, ES!Drop, Drop, ES!Send,
         Send, ES!Case, Case, ES!EndRun, EndRun, ES!MaySend, MaySend, ES!WantsRSSI,
         WantsRSSI, ES!WantsID, WantsID, ES!Has, Has, ES!NULL, NULL
<1>14. \A state, command, awaited : ES!RequestPayload(state, command, awaited) <=>
              RequestPayload(state, command, awaited)
  BY DEF ES!RequestPayload, RequestPayload, ES!CanRequest, CanRequest, ES!Expect, Expect,
         ES!Goto, Goto, ES!Requestable, Requestable, ES!Lower, Lower, ES!Send, Send,
         ES!Line, Line, ES!Case, Case, ES!EndRun, EndRun, ES!MaySend, MaySend,
         ES!WantsRSSI, WantsRSSI, ES!WantsID, WantsID, ES!Has, Has, ES!NULL, NULL
<1>15. \A state, closing, done : ES!EndRequests(state, closing, done) <=>
              EndRequests(state, closing, done)
  BY DEF ES!EndRequests, EndRequests, ES!Leave, Leave, ES!Lift, Lift, ES!Goto, Goto,
         ES!Case, Case, ES!EndRun, EndRun, ES!MaySend, MaySend, ES!WantsRSSI, WantsRSSI,
         ES!WantsID, WantsID, ES!Has, Has, ES!NULL, NULL
<1>16. \A awaited : ES!ReceivePayload(awaited) <=> ReceivePayload(awaited)
  BY DEF ES!ReceivePayload, ReceivePayload, ES!CanReceive, CanReceive, ES!Await, Await,
         ES!Receive, Receive, ES!Raise, Raise, ES!PayloadByte, PayloadByte, ES!Drop,
         Drop, ES!Case, Case, ES!EndRun, EndRun, ES!MaySend, MaySend, ES!WantsRSSI,
         WantsRSSI, ES!WantsID, WantsID, ES!Has, Has, ES!NULL, NULL
<1>17. \A more, done : ES!ReceivedPayload(more, done) <=> ReceivedPayload(more, done)
  BY DEF ES!ReceivedPayload, ReceivedPayload, ES!Goto, Goto, ES!Case, Case, ES!EndRun,
         EndRun, ES!MaySend, MaySend, ES!WantsRSSI, WantsRSSI, ES!WantsID, WantsID,
         ES!Has, Has, ES!NULL, NULL
<1>18. ES!FinalizeDisconnect <=> FinalizeDisconnect
  BY DEF ES!FinalizeDisconnect, FinalizeDisconnect, ES!Goto, Goto, ES!Report, Report,
         ES!Lift, Lift, ES!Case, Case, ES!EndRun, EndRun, ES!MaySend, MaySend,
         ES!WantsRSSI, WantsRSSI, ES!WantsID, WantsID, ES!Has, Has, ES!NULL, NULL
<1>19. \A state : ES!Case(state) <=> Case(state)
  BY DEF ES!Case, Case, ES!EndRun, EndRun, ES!MaySend, MaySend, ES!WantsRSSI, WantsRSSI,
         ES!WantsID, WantsID, ES!Has, Has, ES!NULL, NULL
<1>20. \A text : ES!Command(text) <=> Command(text)
  BY DEF ES!Command, Command, ES!Send, Send, ES!Line, Line
<1> QED
  BY <1>1, <1>2, <1>3, <1>4, <1>5, <1>6, <1>7, <1>8, <1>9, <1>10, <1>11, <1>12, <1>13,
     <1>14, <1>15, <1>16, <1>17, <1>18, <1>19, <1>20

LEMMA CC1352P7Shares ==
  /\ CC!OpenSerial <=> OpenSerial
  /\ CC!Wait <=> Wait
  /\ \A text, awaited : CC!SendRSSIRequest(text, awaited) <=> SendRSSIRequest(text, awaited)
  /\ \A text, awaited : CC!SendIDRequest(text, awaited) <=> SendIDRequest(text, awaited)
  /\ CC!OtherState <=> OtherState
  /\ CC!NotConnected <=> NotConnected
  /\ \A next : CC!Connecting(next) <=> Connecting(next)
  /\ \A state, text, awaited, next : CC!SimpleCommand(state, text, awaited, next) <=>
                SimpleCommand(state, text, awaited, next)
  /\ CC!FinalizeConnect <=> FinalizeConnect
  /\ \A next : CC!ConnectedSends(next) <=> ConnectedSends(next)
  /\ \A next : CC!ConnectedReceives(next) <=> ConnectedReceives(next)
  /\ \A rested : CC!ConnectedIdle(rested) <=> ConnectedIdle(rested)
  /\ \A state, awaited : CC!SendDataBytes(state, awaited) <=> SendDataBytes(state, awaited)
  /\ \A state, command, awaited : CC!RequestPayload(state, command, awaited) <=>
                RequestPayload(state, command, awaited)
  /\ \A state, closing, done : CC!EndRequests(state, closing, done) <=>
                EndRequests(state, closing, done)
  /\ \A awaited : CC!ReceivePayload(awaited) <=> ReceivePayload(awaited)
  /\ \A more, done : CC!ReceivedPayload(more, done) <=> ReceivedPayload(more, done)
  /\ CC!FinalizeDisconnect <=> FinalizeDisconnect
  /\ \A state : CC!Case(state) <=> Case(state)
  /\ \A text : CC!Command(text) <=> Command(text)
<1>1. CC!OpenSerial <=> OpenSerial
  BY DEF CC!OpenSerial, OpenSerial, CC!Goto, Goto
<1>2. CC!Wait <=> Wait
  BY DEF CC!Wait, Wait, CC!MaySend, MaySend, CC!NULL, NULL
<1>3. \A text, awaited : CC!SendRSSIRequest(text, awaited) <=> SendRSSIRequest(text, awaited)
  BY DEF CC!SendRSSIRequest, SendRSSIRequest, CC!EndRun, EndRun, CC!MaySend, MaySend,
         CC!WantsRSSI, WantsRSSI, CC!Has, Has, CC!NULL, NULL, CC!Await, Await, CC!Expect,
         Expect, CC!Command, Command, CC!Send, Send, CC!Line, Line
<1>4. \A text, awaited : CC!SendIDRequest(text, awaited) <=> SendIDRequest(text, awaited)
  BY DEF CC!SendIDRequest, SendIDRequest, CC!EndRun, EndRun, CC!MaySend, MaySend,
         CC!WantsRSSI, WantsRSSI, CC!WantsID, WantsID, CC!Has, Has, CC!NULL, NULL,
         CC!Await, Await, CC!Expect, Expect, CC!Command, Command, CC!Send, Send, CC!Line,
         Line
<1>5. CC!OtherState <=> OtherState
  BY DEF CC!OtherState, OtherState, CC!Case, Case, CC!EndRun, EndRun, CC!MaySend,
         MaySend, CC!WantsRSSI, WantsRSSI, CC!WantsID, WantsID, CC!Has, Has, CC!NULL,
         NULL
<1>6. CC!NotConnected <=> NotConnected
  BY DEF CC!NotConnected, NotConnected, CC!HandleConnect, HandleConnect, CC!Report,
         Report, CC!Lift, Lift, CC!Goto, Goto, CC!Case, Case, CC!EndRun, EndRun,
         CC!MaySend, MaySend, CC!WantsRSSI, WantsRSSI, CC!WantsID, WantsID, CC!Has, Has,
         CC!NULL, NULL
<1>7. \A next : CC!Connecting(next) <=> Connecting(next)
  BY DEF CC!Connecting, Connecting, CC!Leave, Leave, CC!Report, Report, CC!Lift, Lift,
         CC!Goto, Goto, CC!Await, Await, CC!Raise, Raise, CC!Command, Command, CC!Send,
         Send, CC!Line, Line, CC!Case, Case, CC!EndRun, EndRun, CC!MaySend, MaySend,
         CC!WantsRSSI, WantsRSSI, CC!WantsID, WantsID, CC!Has, Has, CC!NULL, NULL
<1>8. \A state, text, awaited, next : CC!SimpleCommand(state, text, awaited, next) <=>
              SimpleCommand(state, text, awaited, next)
  BY DEF CC!SimpleCommand, SimpleCommand, CC!Goto, Goto, CC!Await, Await, CC!Command,
         Command, CC!Send, Send, CC!Line, Line, CC!Case, Case, CC!EndRun, EndRun,
         CC!MaySend, MaySend, CC!WantsRSSI, WantsRSSI, CC!WantsID, WantsID, CC!Has, Has,
         CC!NULL, NULL
<1>9. CC!FinalizeConnect <=> FinalizeConnect
  BY DEF CC!FinalizeConnect, FinalizeConnect, CC!Raise, Raise, CC!Goto, Goto, CC!Report,
         Report, CC!Case, Case, CC!EndRun, EndRun, CC!MaySend, MaySend, CC!WantsRSSI,
         WantsRSSI, CC!WantsID, WantsID, CC!Has, Has, CC!NULL, NULL
<1>10. \A next : CC!ConnectedSends(next) <=> ConnectedSends(next)
  BY DEF CC!ConnectedSends, ConnectedSends, CC!Goto, Goto, CC!Report, Report,
         CC!PrepareSending, PrepareSending, CC!Await, Await, CC!SendSize, SendSize,
         CC!Lower, Lower, CC!Send, Send, CC!Line, Line, CC!Case, Case, CC!EndRun, EndRun,
         CC!MaySend, MaySend, CC!WantsRSSI, WantsRSSI, CC!WantsID, WantsID, CC!Has, Has,
         CC!NULL, NULL
<1>11. \A next : CC!ConnectedReceives(next) <=> ConnectedReceives(next)
  BY DEF CC!ConnectedReceives, ConnectedReceives, CC!Goto, Goto, CC!Report, Report,
         CC!Lift, Lift, CC!Case, Case, CC!EndRun, EndRun, CC!MaySend, MaySend,
         CC!WantsRSSI, WantsRSSI, CC!WantsID, WantsID, CC!Has, Has, CC!NULL, NULL
<1>12. \A rested : CC!ConnectedIdle(rested) <=> ConnectedIdle(rested)
  BY DEF CC!ConnectedIdle, ConnectedIdle, CC!Case, Case, CC!EndRun, EndRun, CC!MaySend,
         MaySend, CC!WantsRSSI, WantsRSSI, CC!WantsID, WantsID, CC!Has, Has, CC!NULL,
         NULL
<1>13. \A state, awaited : CC!SendDataBytes(state, awaited) <=> SendDataBytes(state, awaited)
  BY DEF CC!SendDataBytes, SendDataBytes, CC!Goto, Goto, CC!Await, Await, CC!SendData,
         SendData, CC!DataToSend, DataToSend, CC!Byte, Byte, CC!Drop, Drop, CC!Send,
         Send, CC!Case, Case, CC!EndRun, EndRun, CC!MaySend, MaySend, CC!WantsRSSI,
         WantsRSSI, CC!WantsID, WantsID, CC!Has, Has, CC!NULL, NULL
<1>14. \A state, command, awaited : CC!RequestPayload(state, command, awaited) <=>
              RequestPayload(state, command, awaited)
  BY DEF CC!RequestPayload, RequestPayload, CC!CanRequest, CanRequest, CC!Expect, Expect,
         CC!Goto, Goto, CC!Requestable, Requestable, CC!Lower, Lower, CC!Send, Send,
         CC!Line, Line, CC!Case, Case, CC!EndRun, EndRun, CC!MaySend, MaySend,
         CC!WantsRSSI, WantsRSSI, CC!WantsID, WantsID, CC!Has, Has, CC!NULL, NULL
<1>15. \A state, closing, done : CC!EndRequests(state, closing, done) <=>
              EndRequests(state, closing, done)
  BY DEF CC!EndRequests, EndRequests, CC!Leave, Leave, CC!Lift, Lift, CC!Goto, Goto,
         CC!Case, Case, CC!EndRun, EndRun, CC!MaySend, MaySend, CC!WantsRSSI, WantsRSSI,
         CC!WantsID, WantsID, CC!Has, Has, CC!NULL, NULL
<1>16. \A awaited : CC!ReceivePayload(awaited) <=> ReceivePayload(awaited)
  BY DEF CC!ReceivePayload, ReceivePayload, CC!CanReceive, CanReceive, CC!Await, Await,
         CC!Receive, Receive, CC!Raise, Raise, CC!PayloadByte, PayloadByte, CC!Drop,
         Drop, CC!Case, Case, CC!EndRun, EndRun, CC!MaySend, MaySend, CC!WantsRSSI,
         WantsRSSI, CC!WantsID, WantsID, CC!Has, Has, CC!NULL, NULL
<1>17. \A more, done : CC!ReceivedPayload(more, done) <=> ReceivedPayload(more, done)
  BY DEF CC!ReceivedPayload, ReceivedPayload, CC!Goto, Goto, CC!Case, Case, CC!EndRun,
         EndRun, CC!MaySend, MaySend, CC!WantsRSSI, WantsRSSI, CC!WantsID, WantsID,
         CC!Has, Has, CC!NULL, NULL
<1>18. CC!FinalizeDisconnect <=> FinalizeDisconnect
  BY DEF CC!FinalizeDisconnect, FinalizeDisconnect, CC!Goto, Goto, CC!Report, Report,
         CC!Lift, Lift, CC!Case, Case, CC!EndRun, EndRun, CC!MaySend, MaySend,
         CC!WantsRSSI, WantsRSSI, CC!WantsID, WantsID, CC!Has, Has, CC!NULL, NULL
<1>19. \A state : CC!Case(state) <=> Case(state)
  BY DEF CC!Case, Case, CC!EndRun, EndRun, CC!MaySend, MaySend, CC!WantsRSSI, WantsRSSI,
         CC!WantsID, WantsID, CC!Has, Has, CC!NULL, NULL
<1>20. \A text : CC!Command(text) <=> Command(text)
  BY DEF CC!Command, Command, CC!Send, Send, CC!Line, Line
<1> QED
  BY <1>1, <1>2, <1>3, <1>4, <1>5, <1>6, <1>7, <1>8, <1>9, <1>10, <1>11, <1>12, <1>13,
     <1>14, <1>15, <1>16, <1>17, <1>18, <1>19, <1>20


-----------------------------------------------------------------------------
(* The Espressif driver.                                                     *)

LEMMA EspressifResetStep ==
  ASSUME Good, NothingElse, Is("espressif"), ES!RunWithReset
  PROVE  Good'
<1>1. /\ Starts /\ Restarting /\ rx' = <<>> /\ Command("AT+RST") /\ dev' = ES!Reset(dev)
      /\ step' = step /\ serialOpen' = serialOpen
  BY EspressifShares DEF ES!RunWithReset, ES!Starts, Starts, ES!Has, Has, Restarting
<1>2. /\ DOMAIN dev' = Fields /\ dev'.readBuffer = dev.readBuffer
      /\ dev'.writeBuffer = dev.writeBuffer /\ dev'.type = dev.type /\ dev'.lbFill = dev.lbFill
      /\ dev'.bytesToReceive = 0 /\ dev'.bytesToRead = 0 /\ dev'.bytesToWrite = 0
      /\ dev'.rssi = dev.rssi /\ dev'.idRequest = dev.idRequest
      /\ dev'.stateBooleans = {"LINE_READ"} /\ dev'.sendState = "notConnected"
      /\ reply' = "ready" /\ dev'.replyState = "okReply" /\ dev'.connectState = dev.connectState
  BY <1>1 DEF ES!Reset, ES!Await, ES!Expect, ES!Goto, Good, Typed, Fields, reply
<1>3. ~NeverResets /\ ~Is("cc1352p7")
  BY DEF NeverResets, Is
<1> QED
  BY <1>1, <1>2, <1>3, RestartStep DEF KeepsRequests

LEMMA EspressifParsesStep ==
  ASSUME Covered, Good, NothingElse, Is("espressif"), ES!Parses
  PROVE  Good'
<1>1. CASE ES!OpenSerial
  BY <1>1, EspressifShares, OpenSerialStep
<1>2. CASE ES!RunWithReset
  BY <1>2, EspressifResetStep
<1>3. CASE ES!HandleError
  BY <1>3, EspressifErrorStep
<1>4. CASE ES!ParseLine
  BY <1>4, EspressifLineStep
<1>5. CASE ES!Reads /\ ES!FillNothing(ES!LineEnds(dev))
  <2>1. ~Restarting /\ FillNothing(ES!LineEnds(dev))
    BY <1>5, EspressifLine DEF ES!Reads, ES!Has, Restarting, Has
  <2> QED
    BY <2>1, EspressifEnds, FillNothingStep
<1> QED
  BY <1>1, <1>2, <1>3, <1>4, <1>5 DEF ES!Parses

LEMMA EspressifConnectsStep ==
  ASSUME Covered, Good, NothingElse, Is("espressif"), ES!Connects
  PROVE  Good'
<1>1. CASE ES!Wait \/ ES!OtherState \/ ES!NotConnected \/ ES!FinalizeConnect
  BY <1>1, EspressifShares, WaitStep, OtherStateStep, NotConnectedStep, FinalizeConnectStep
<1>2. CASE ES!SendRSSIRequest("AT+CWJAP?", "rssi")
  BY <1>2, EspressifShares, SendRSSIRequestStep
<1>3. CASE ES!SendMacRequest
  BY <1>3, EspressifShares, SendIDRequestStep DEF ES!SendMacRequest
<1>4. CASE ES!Connecting("sendCwmode")
  BY <1>4, EspressifShares, ConnectingStep
<1> DEFINE Texted == {"AT+CWMODE=1", "AT+CWJAP", "AT+CIPMUX=0", "AT+CIPRECVMODE", "AT+CIPMODE=0"}
<1>5. CASE ES!SendCwmode \/ ES!SendCwjap \/ ES!SendCipmux \/ ES!SendCiprecvmode \/ ES!SendCipmode
  <2>1. Texted \subseteq PlainCommands \ {"AT+CIPSTART", "AT+CIPCLOSE"}
    BY DEF PlainCommands
  <2>2. \E state \in Setup, next \in Setup \cup {"sendCipstart"}, text \in Texted :
          SimpleCommand(state, text, "OK", next)
    BY <1>5, EspressifShares
       DEF ES!SendCwmode, ES!SendCwjap, ES!SendCipmux, ES!SendCiprecvmode, ES!SendCipmode, Setup
  <2> QED
    BY <2>1, <2>2, SetupStep
<1>6. CASE ES!SendCipstart
  BY <1>6, EspressifShares, CipstartStep DEF ES!SendCipstart
<1> QED
  BY <1>1, <1>2, <1>3, <1>4, <1>5, <1>6 DEF ES!Connects

LEMMA EspressifCloseStep ==
  ASSUME Good, NothingElse, Is("espressif"), ES!SendCipclose
  PROVE  Good'
<1>1. Case("sendCipclose") /\ rx' = rx
  BY EspressifShares DEF ES!SendCipclose
<1>2. Gated /\ dev.sendState = "sendCipclose"
  BY <1>1, CaseIs
<1> DEFINE d == Goto(Report(dev, "intermediate"), "sendCwqap")
<1>3. IF Has(d, "IP_CONNECTED") THEN dev' = Await(d, "OK") /\ Command("AT+CIPCLOSE")
                               ELSE dev' = d /\ tx' = tx
  BY EspressifShares DEF ES!SendCipclose, ES!Goto, Goto, ES!Report, Report, ES!Has, Has,
                         ES!Await, Await
<1>4. /\ DOMAIN d = Fields /\ d.readBuffer = dev.readBuffer /\ d.writeBuffer = dev.writeBuffer
      /\ d.type = dev.type /\ d.lbFill = dev.lbFill
      /\ d.bytesToReceive = dev.bytesToReceive /\ d.bytesToRead = dev.bytesToRead
      /\ d.bytesToWrite = dev.bytesToWrite /\ d.rssi = dev.rssi /\ d.idRequest = dev.idRequest
      /\ d.replyState = dev.replyState /\ d.stateBooleans = dev.stateBooleans
      /\ d.sendState = "sendCwqap" /\ d.connectState = "intermediate"
      /\ d.waitForReply = dev.waitForReply
  BY DEF Goto, Report, Good, Typed, Fields
<1> HIDE DEF d
<1>5. CASE Has(d, "IP_CONNECTED")
  <2>1. /\ Keeps /\ KeepsRequests /\ dev'.bytesToWrite = dev.bytesToWrite /\ reply' = "OK"
        /\ dev'.replyState = dev.replyState /\ dev'.stateBooleans = dev.stateBooleans
        /\ dev'.sendState = "sendCwqap" /\ dev'.connectState = "intermediate"
    BY <1>3, <1>4, <1>5 DEF Await, Keeps, KeepsRequests, reply, Fields
  <2>2. ~Is("cc1352p7")
    BY DEF Is
  <2> QED
    BY <1>1, <1>3, <1>5, <2>1, <2>2, CloseStep
<1>6. CASE ~Has(d, "IP_CONNECTED")
  <2>1. /\ Keeps /\ KeepsRequests /\ dev'.bytesToWrite = dev.bytesToWrite /\ reply' = reply
        /\ dev'.replyState = dev.replyState /\ dev'.stateBooleans = dev.stateBooleans
        /\ dev'.sendState = "sendCwqap" /\ dev'.connectState = "intermediate" /\ tx' = tx
    BY <1>3, <1>4, <1>6 DEF Keeps, KeepsRequests, reply
  <2>2. dev.bytesToRead = 0 /\ Over
    BY <1>2 DEF Good, Steady, Flags, Life, Fresh, Opening, Active, Closed, Is
  <2>3. Life'
    BY <1>2, <2>1, <2>2 DEF Life, Over, Fetching, Gated, Asked, Has, Is, NothingElse
  <2> QED
    BY <1>1, <1>2, <2>1, <2>2, <2>3, QuietTurn DEF Gated, Restarting, Has, Good, Steady, Flags
<1> QED
  BY <1>5, <1>6

LEMMA EspressifLeavesStep ==
  ASSUME Good, NothingElse, Is("espressif"), ES!SendCwqap
  PROVE  Good'
<1>1. /\ Case("sendCwqap") /\ rx' = rx /\ Command("AT+CWQAP")
      /\ dev' = Goto(Await(Report(dev, "intermediate"), NetworkLeft), "finalizeDisconnect")
  BY EspressifShares DEF ES!SendCwqap, ES!Goto, Goto, ES!Await, Await, ES!Report, Report,
                         NetworkLeft
<1>2. /\ Keeps /\ KeepsRequests /\ dev'.bytesToWrite = dev.bytesToWrite
      /\ reply' = NetworkLeft /\ dev'.replyState = dev.replyState
      /\ dev'.stateBooleans = dev.stateBooleans /\ dev'.sendState = "finalizeDisconnect"
  BY <1>1 DEF Goto, Await, Report, Good, Typed, Fields, Keeps, KeepsRequests, reply
<1> QED
  BY <1>1, <1>2, CwqapStep

LEMMA EspressifTransfersStep ==
  ASSUME Covered, Good, NothingElse, Is("espressif"), ES!Transfers
  PROVE  Good'
<1>1. ES!IsTCP
  BY DEF ES!IsTCP, Covered, Is, Good, Steady, Flags
<1>2. CASE ES!ConnectedSends("sendDataState")
  BY <1>2, EspressifShares, ConnectedSendsStep
<1>3. CASE ES!ConnectedReceives(IF ES!IsTCP THEN "sendCiprecvdata" ELSE "receiving")
  BY <1>1, <1>3, EspressifShares, ConnectedReceivesStep
<1>4. CASE ES!ConnectedIdle(ES!Rest(ES!Report(dev, "connected")))
  <2>1. ES!Rest(ES!Report(dev, "connected")) =
          CloseOrStay(Report(dev, "connected"), "sendCwqap", "sendCipclose")
    BY DEF ES!Rest, ES!Report, Report, ES!CloseOrStay, CloseOrStay, ES!Has, Has,
           ES!HandleDisconnect, HandleDisconnect, ES!Leave, Leave, ES!Goto, Goto, ES!Lift, Lift
  <2> QED
    BY <1>4, <2>1, EspressifShares, ConnectedIdleStep
<1>5. CASE ES!SendDataBytes("sendDataState", "SEND OK")
  <2>1. "SEND OK" = Confirmation
    BY DEF Confirmation
  <2> QED
    BY <1>5, <2>1, EspressifShares, SendDataBytesStep
<1>6. CASE ES!SendCiprecvdata("waitCiprecvdata")
  BY <1>6, EspressifShares, RequestPayloadStep DEF ES!SendCiprecvdata
<1>7. CASE ES!EndCiprecvdata
  BY <1>7, EspressifShares, EndRequestsStep DEF ES!EndCiprecvdata
<1>8. CASE ES!ReceivePayload(IF ES!IsTCP THEN "OK" ELSE ES!NULL)
  BY <1>1, <1>8, EspressifShares, ReceivePayloadStep
<1>9. CASE ES!ReceivedPayload("sendCiprecvdata", "connected") \/ ES!FinalizeDisconnect
  BY <1>9, EspressifShares, ReceivedPayloadStep, FinalizeDisconnectStep
<1>10. CASE ES!SendCipclose \/ ES!SendCwqap
  BY <1>10, EspressifCloseStep, EspressifLeavesStep
<1> QED
  BY <1>2, <1>3, <1>4, <1>5, <1>6, <1>7, <1>8, <1>9, <1>10 DEF ES!Transfers

LEMMA EspressifDriverStep ==
  ASSUME Covered, Good, Is("espressif"), ES!Driver
  PROVE  Good'
<1>1. NothingElse
  BY DEF ES!Driver, ES!DriverOnly, NothingElse, modem, app, program, ES!modem, ES!app, ES!program
<1> QED
  BY <1>1, EspressifParsesStep, EspressifConnectsStep, EspressifTransfersStep
     DEF ES!Driver, ES!Run

-----------------------------------------------------------------------------
(* The CC1352P7 driver.                                                      *)

LEMMA CC1352P7Line ==
  /\ \A kinds : CC!TakeLine(kinds) <=> TakeLine(kinds)
  /\ \A kinds : CC!FillNothing(kinds) <=> FillNothing(kinds)
  /\ \A d, kinds : CC!FilledLine(d, kinds) = FilledLine(d, kinds)
  /\ \A d, kinds : CC!FillLineBuffer(d, kinds) = FillLineBuffer(d, kinds)
  /\ \A d, t : CC!MatchReply(d, t) = MatchReply(d, t)
  /\ \A d : CC!Failed(d) = Failed(d)
<1>1. \A kinds : CC!TakeLine(kinds) <=> TakeLine(kinds)
  BY DEF CC!TakeLine, TakeLine, CC!Starts, Starts, CC!FillsLine, FillsLine,
         CC!RestAfterFill, RestAfterFill, CC!Has, Has, CC!EndsIn, EndsIn,
         CC!FirstEnd, FirstEnd, CC!Drop, Drop
<1>2. \A kinds : CC!FillNothing(kinds) <=> FillNothing(kinds)
  BY DEF CC!FillNothing, FillNothing, CC!Starts, Starts, CC!FillsLine, FillsLine,
         CC!RestAfterFill, RestAfterFill, CC!Has, Has, CC!EndsIn, EndsIn,
         CC!FirstEnd, FirstEnd, CC!Drop, Drop, CC!Flushes, Flushes,
         CC!FlushReadBuffer, FlushReadBuffer, CC!FillLineBuffer, FillLineBuffer,
         CC!Flushable, Flushable, CC!Lower, Lower, CC!Raise, Raise
<1>3. \A d, kinds : CC!FilledLine(d, kinds) = FilledLine(d, kinds)
  BY DEF CC!FilledLine, FilledLine, CC!FirstEnd, FirstEnd, CC!EndsIn, EndsIn, CC!Garbled,
         Garbled, CC!Line, Line
<1>4. \A d, kinds : CC!FillLineBuffer(d, kinds) = FillLineBuffer(d, kinds)
  BY DEF CC!FillLineBuffer, FillLineBuffer, CC!FillsLine, FillsLine, CC!Has, Has, CC!EndsIn, EndsIn
<1>5. \A d, t : CC!MatchReply(d, t) = MatchReply(d, t)
  BY DEF CC!MatchReply, MatchReply, CC!Await, Await, CC!NULL, NULL
<1>6. \A d : CC!Failed(d) = Failed(d)
  BY DEF CC!Failed, Failed, CC!Await, Await, CC!Report, Report, CC!Raise, Raise, CC!NULL, NULL
<1> QED
  BY <1>1, <1>2, <1>3, <1>4, <1>5, <1>6

LEMMA CC1352P7Ends == Is("cc1352p7") => EndsLines(CC!LineEnds)
BY DEF EndsLines, CC!LineEnds, Is

LEMMA CC1352P7Fills ==
  ASSUME Good, Is("cc1352p7"), TakeLine(CC!LineEnds)
  PROVE  /\ CC!TheLine = Coming
         /\ SameButLine(CC!Filled, dev) /\ Waits(CC!Filled, dev)
         /\ CC!Filled.replyState = dev.replyState
<1>1. FillsLine(dev, CC!LineEnds) /\ FilledLine(dev, CC!LineEnds) = Coming
  BY CC1352P7Ends, TakesComing
<1>2. CC!TheLine = Coming
  BY <1>1, CC1352P7Line DEF CC!TheLine
<1>3. CC!Filled = FillLineBuffer(dev, CC!LineEnds)
  BY CC1352P7Line DEF CC!Filled
<1> QED
  BY <1>1, <1>2, <1>3, LineFilled

LEMMA CC1352P7Reads == Is("cc1352p7") /\ CC!Reads => (Restarting => NeverResets)
BY DEF CC!Reads, CC!ResetDue, CC!Has, Has, Restarting, NeverResets

LEMMA CC1352P7ErrorStep ==
  ASSUME Good, NothingElse, Is("cc1352p7"), CC!HandleError
  PROVE  Good'
<1> DEFINE k == CC!LineEnds
           d == CC!Filled
<1>1. EndsLines(k) /\ TakeLine(k)
  BY CC1352P7Ends, CC1352P7Line DEF CC!HandleError
<1>2. /\ Coming.text \in Errors /\ dev' = Failed(d) /\ step' = "off"
  BY <1>1, CC1352P7Fills, CC1352P7Line DEF CC!HandleError, Errors
<1>3. SameButLine(d, dev) /\ Waits(d, dev)
  BY <1>1, CC1352P7Fills
<1> HIDE DEF d, k
<1>4. /\ DOMAIN dev' = Fields /\ dev'.readBuffer = dev.readBuffer
      /\ dev'.writeBuffer = dev.writeBuffer
      /\ dev'.type = dev.type /\ dev'.lbFill = FALSE
      /\ dev'.bytesToWrite = dev.bytesToWrite /\ dev'.bytesToReceive \in Int
      /\ dev'.rssi \in {dev.rssi, "known"} /\ dev'.idRequest = dev.idRequest
      /\ dev'.bytesToRead = dev.bytesToRead /\ dev'.sendState = dev.sendState
      /\ dev'.connectState = "generalError" /\ reply' = NULL
      /\ dev'.replyState = d.replyState
      /\ dev'.stateBooleans = d.stateBooleans \cup {"RESET_PENDING"}
  BY <1>2, <1>3 DEF Failed, Await, Report, Raise, SameButLine, Waits, Fields, reply, Good,
     Steady, Flags
<1>5. Fetching' <=> Fetching
  BY <1>3, <1>4 DEF Fetching, Is, NothingElse, SameButLine
<1>6. /\ KeepsBuffers /\ KeepsFlags /\ Restarting'
      /\ Has(dev', "LINE_READ") <=> Has(dev, "LINE_READ")
  BY <1>3, <1>4 DEF KeepsBuffers, KeepsFlags, Restarting, Has, SameButLine
<1> QED
  BY <1>1, <1>2, <1>4, <1>5, <1>6, ErrorTurn

LEMMA CC1352P7ReplyHandled ==
  ASSUME NEW d, NEW t, DOMAIN d = Fields, d.bytesToReceive \in Int, t.text # "+CIPRECVDATA"
  PROVE  LET e == CC!HandleReply(d, t) IN SameButLine(e, d) /\ Waits(e, d)
<1> DEFINE q == [[d EXCEPT !.rssi = "known"] EXCEPT !.replyState = "okReply"]
           i(f) == [[f EXCEPT !.idString = "mac"] EXCEPT !.replyState = "okReply"]
<1>1. CC!HandleReply(d, t) =
        CASE d.replyState = "parseStateCiprecvdata" -> CC!ParseCiprecvdata(d, t)
          [] d.replyState = "csq" -> CC!ParseMac(CC!ParseCsq(d, t), t)
          [] d.replyState = "reqMac" -> CC!ParseMac(d, t)
          [] OTHER -> d
  BY DEF CC!HandleReply
<1>2. CC!ParseCiprecvdata(d, t) = d
  BY DEF CC!ParseCiprecvdata
<1>3. CC!ParseCsq(d, t) \in {d, q}
  BY DEF CC!ParseCsq, CC!Expect
<1>4. \A f : CC!ParseMac(f, t) \in {f, i(f)}
  BY DEF CC!ParseMac, CC!Expect
<1>5. \/ CC!HandleReply(d, t) = d
      \/ d.replyState = "csq" /\ CC!HandleReply(d, t) \in {q, i(q), i(d)}
      \/ d.replyState = "reqMac" /\ CC!HandleReply(d, t) = i(d)
  <2> HIDE DEF q, i
  <2> QED
    BY <1>1, <1>2, <1>3, <1>4
<1>6. /\ DOMAIN q = Fields /\ SameButLine(d, d)
      /\ SameButLine(q, d) \/ d.replyState # "csq"
      /\ SameButLine(i(d), d) \/ d.replyState \notin {"csq", "reqMac"}
      /\ SameButLine(i(q), d) \/ d.replyState # "csq"
  BY DEF SameButLine, Fields, Has
<1>7. Waits(q, d) /\ Waits(i(d), d) /\ Waits(i(q), d) /\ Waits(d, d)
  BY DEF Waits, Fields
<1> HIDE DEF q, i
<1> QED
  BY <1>5, <1>6, <1>7

LEMMA CC1352P7ConnectionChecked ==
  ASSUME NEW d, NEW t, DOMAIN d = Fields, d.bytesToReceive \in Int, t.n \in Int
  PROVE  LET e == CC!CheckConnection(d, t) IN SameButLine(e, d) /\ Waits(e, d)
<1>1. CC!CheckConnection(d, t) =
        IF d.sendState \notin CC!FromConnected THEN d
        ELSE CASE t.text = "+IPD" -> Raise([d EXCEPT !.bytesToReceive = t.n], "DATA_PENDING")
               [] t.text \in {"CLOSED", SendFail} -> Lift(d, "IP_CONNECTED")
               [] OTHER -> d
  BY DEF CC!CheckConnection, CC!Lift, Lift, CC!Raise, Raise, SendFail
<1> DEFINE e == CC!CheckConnection(d, t)
<1>2. CASE e = d
  BY <1>2 DEF SameButLine, Waits
<1>3. CASE e = Raise([d EXCEPT !.bytesToReceive = t.n], "DATA_PENDING")
  BY <1>3 DEF SameButLine, Waits, Fields, Has, Raise
<1>4. CASE e = Lift(d, "IP_CONNECTED")
  BY <1>4 DEF SameButLine, Waits, Fields, Has, Lift
<1> QED
  BY <1>1, <1>2, <1>3, <1>4

LEMMA CC1352P7LineStep ==
  ASSUME Good, NothingElse, Is("cc1352p7"), CC!ParseLine
  PROVE  Good'
<1> DEFINE k == CC!LineEnds
           t == Coming
           a == CC!Filled
           c == MatchReply(a, t)
           d == CC!HandleReply(c, t)
           e == CC!CheckConnection(d, t)
<1>1. EndsLines(k) /\ TakeLine(k)
  BY CC1352P7Ends, CC1352P7Line DEF CC!ParseLine
<1>2. /\ CC!TheLine = t /\ SameButLine(a, dev) /\ Waits(a, dev)
      /\ a.replyState = dev.replyState
  BY <1>1, CC1352P7Fills
<1>3. dev' = e /\ (Restarting => NeverResets)
  BY <1>2, CC1352P7Line, CC1352P7Reads DEF CC!ParseLine
<1>4. /\ t \in Tokens
      /\ \/ IsNotice(t)
         \/ ~Fetching /\ t.kind = "line" /\ reply \in Awaited /\ t.text \in Answers(reply)
         \/ ~Fetching /\ t.kind = "line" /\ reply = ">" /\ t.text \in {"OK", ">"}
         \/ Fetching /\ t.kind = "line" /\ t.text = "ERROR" /\ reply = NULL
         \/ Fetching /\ reply = NULL /\ \E m \in Nat : t = PayloadHeader(m)
  BY <1>1, TakesComing
<1>5. dev.lbFill = FALSE /\ t.n \in Int /\ a.bytesToReceive \in Int
  BY <1>2, <1>4 DEF Good, Steady, Flags, Tokens, SameButLine
<1> HIDE DEF k, t, a
<1>6. /\ SameButLine(c, a) /\ c.sendState = a.sendState /\ c.connectState = a.connectState
      /\ c.waitForReply = (IF t.text = a.waitForReply THEN NULL ELSE a.waitForReply)
  BY <1>2, LineMatched DEF SameButLine
<1>7. CASE t.text # "+CIPRECVDATA"
  <2> HIDE DEF c
  <2>1. SameButLine(d, c) /\ Waits(d, c)
    BY <1>6, <1>7, CC1352P7ReplyHandled DEF SameButLine
  <2> HIDE DEF d
  <2>2. SameButLine(d, dev)
    BY <1>2, <1>6, <2>1, SameAgain
  <2>3. SameButLine(e, d) /\ Waits(e, d)
    BY <1>5, <2>2, CC1352P7ConnectionChecked DEF SameButLine
  <2> HIDE DEF e
  <2>4. SameButLine(dev', dev)
    BY <1>3, <2>2, <2>3, SameAgain
  <2>5. /\ KeepsBuffers /\ KeepsFlags /\ (Restarting' <=> Restarting)
        /\ Has(dev', "LINE_READ") <=> Has(dev, "LINE_READ")
        /\ Fetching' <=> Fetching
        /\ dev'.bytesToRead = dev.bytesToRead
    BY <1>5, <2>4 DEF SameButLine, KeepsBuffers, KeepsFlags, Restarting, Fetching, Is, NothingElse
  <2>6. /\ dev'.sendState = dev.sendState /\ dev'.connectState = dev.connectState
        /\ reply' = (IF t.text = reply THEN NULL ELSE reply)
    BY <1>2, <1>3, <1>6, <2>1, <2>3 DEF Waits, reply
  <2>7. CASE t.text = reply /\ reply # NULL
    <3>1. Completes /\ ~Fetching
      BY <2>7, ReplyIs DEF IsNotice, Completes, t
    <3> QED
      BY <1>1, <2>5, <2>6, <2>7, <3>1, DoneTurn DEF k
  <2>8. CASE t.text # reply \/ reply = NULL
    BY <1>1, <1>3, <1>7, <2>5, <2>6, <2>8, PassTurn DEF t, k
  <2> QED
    BY <2>7, <2>8
<1>8. CASE t.text = "+CIPRECVDATA"
  <2>1. Fetching /\ reply = NULL
    BY <1>4, <1>8, AnswersAre DEF IsNotice, Notices
  <2>2. /\ DOMAIN a = Fields /\ a.readBuffer = dev.readBuffer
        /\ a.writeBuffer = dev.writeBuffer /\ a.type = dev.type /\ a.lbFill = FALSE
        /\ a.bytesToWrite = dev.bytesToWrite /\ a.bytesToReceive \in Int
        /\ a.rssi \in {dev.rssi, "known"} /\ a.idRequest = dev.idRequest
        /\ a.bytesToRead = dev.bytesToRead /\ a.waitForReply = NULL
        /\ a.replyState = "parseStateCiprecvdata"
        /\ \A flag \in {"DISCONNECT_PENDING", "CONNECT_PENDING", "RESET_PENDING"} :
             Has(a, flag) <=> Has(dev, flag)
    BY <1>2, <1>5, <2>1 DEF SameButLine, Waits, Fetching, Is, reply
  <2>3. c = a
    BY <1>8, <2>2, WordsApart DEF MatchReply
  <2> HIDE DEF c
  <2> DEFINE g == [a EXCEPT !.bytesToReceive = @ - t.n, !.bytesToRead = @ + t.n]
  <2>4. d = Goto(Expect(Lift(g, "LINE_READ"), "okReply"), "receiving")
    <3>1. CC!HandleReply(a, t) = CC!ParseCiprecvdata(a, t)
      BY <2>2 DEF CC!HandleReply
    <3> QED
      BY <1>8, <2>3, <3>1 DEF d, CC!ParseCiprecvdata, CC!Goto, Goto, CC!Expect, Expect, CC!Lift,
         Lift
  <2>5. e = d
    <3>1. CC!CheckConnection(d, t) =
            IF d.sendState \notin CC!FromConnected THEN d
            ELSE CASE t.text = "+IPD" -> CC!Raise([d EXCEPT !.bytesToReceive = t.n], "DATA_PENDING")
                   [] t.text \in {"CLOSED", SendFail} -> CC!Lift(d, "IP_CONNECTED")
                   [] OTHER -> d
      BY DEF CC!CheckConnection, SendFail
    <3> QED
      BY <1>8, <3>1, WordsApart
  <2>6. dev' = Goto(Expect(Lift(g, "LINE_READ"), "okReply"), "receiving")
    BY <1>3, <2>4, <2>5
  <2> HIDE DEF d, e
  <2>7. /\ KeepsBuffers /\ dev'.sendState = "receiving" /\ dev'.replyState = "okReply"
        /\ dev'.bytesToRead = dev.bytesToRead + t.n /\ reply' = NULL
        /\ dev'.stateBooleans = a.stateBooleans \ {"LINE_READ"}
    BY <1>5, <2>2, <2>6 DEF KeepsBuffers, Goto, Expect, Lift, Fields, reply
  <2>8. /\ KeepsFlags /\ (Restarting' <=> Restarting) /\ ~Has(dev', "LINE_READ") /\ ~Fetching'
    BY <2>2, <2>7 DEF KeepsFlags, Restarting, Fetching, Has
  <2> QED
    BY <1>1, <1>8, <2>1, <2>7, <2>8, HeaderTurn DEF t, k
<1> QED
  BY <1>7, <1>8

LEMMA CC1352P7ResetStep ==
  ASSUME Good, NothingElse, Is("cc1352p7"), CC!RunWithReset
  PROVE  Good'
<1>1. /\ Starts /\ Restarting /\ dev.bytesToWrite = 0 /\ rx' = <<>> /\ tx' = tx
      /\ dev' = CC!Reset(dev) /\ step' = "send" /\ serialOpen' = serialOpen
  BY DEF CC!RunWithReset, CC!ResetDue, CC!Starts, Starts, CC!Has, Has, Restarting
<1>2. /\ DOMAIN dev' = Fields /\ dev'.readBuffer = dev.readBuffer
      /\ dev'.writeBuffer = dev.writeBuffer /\ dev'.type = dev.type /\ dev'.lbFill = dev.lbFill
      /\ dev'.bytesToReceive = 0 /\ dev'.bytesToRead = 0
      /\ dev'.bytesToWrite = dev.bytesToWrite
      /\ dev'.rssi = dev.rssi /\ dev'.idRequest = dev.idRequest
      /\ dev'.stateBooleans = dev.stateBooleans \ {"RESET_PENDING"}
      /\ dev'.sendState = "sendCipclose"
      /\ reply' = NULL /\ dev'.replyState = "okReply" /\ dev'.connectState = dev.connectState
  BY <1>1 DEF CC!Reset, CC!Await, CC!Expect, CC!Goto, CC!Lift, CC!NULL, NULL, Good, Typed,
     Fields, reply
<1>3. ~NeverResets
  BY <1>1 DEF NeverResets
<1> QED
  BY <1>1, <1>2, <1>3, RecloseStep DEF KeepsRequests

LEMMA CC1352P7ParsesStep ==
  ASSUME Good, NothingElse, Is("cc1352p7"), CC!Parses
  PROVE  Good'
<1>1. CASE CC!OpenSerial
  BY <1>1, CC1352P7Shares, OpenSerialStep
<1>2. CASE CC!RunWithReset
  BY <1>2, CC1352P7ResetStep
<1>3. CASE CC!HandleError
  BY <1>3, CC1352P7ErrorStep
<1>4. CASE CC!ParseLine
  BY <1>4, CC1352P7LineStep
<1>5. CASE CC!Reads /\ CC!FillNothing(CC!LineEnds)
  BY <1>5, CC1352P7Line, CC1352P7Reads, CC1352P7Ends, FillNothingStep
<1> QED
  BY <1>1, <1>2, <1>3, <1>4, <1>5 DEF CC!Parses

LEMMA CC1352P7ConnectsStep ==
  ASSUME Covered, Good, NothingElse, Is("cc1352p7"), CC!Connects
  PROVE  Good'
<1>1. CASE CC!Wait \/ CC!OtherState \/ CC!NotConnected \/ CC!FinalizeConnect
  BY <1>1, CC1352P7Shares, WaitStep, OtherStateStep, NotConnectedStep, FinalizeConnectStep
<1>2. CASE CC!SendRSSIRequest("AT+CSQ", "csq")
  BY <1>2, CC1352P7Shares, SendRSSIRequestStep
<1>3. CASE CC!SendMacRequest
  BY <1>3, CC1352P7Shares, SendIDRequestStep DEF CC!SendMacRequest
<1>4. CASE CC!Connecting("sendCipstart")
  BY <1>4, CC1352P7Shares, ConnectingStep
<1>5. CASE CC!SendCipstart
  BY <1>5, CC1352P7Shares, CipstartStep DEF CC!SendCipstart
<1> QED
  BY <1>1, <1>2, <1>3, <1>4, <1>5 DEF CC!Connects

LEMMA CC1352P7CloseStep ==
  ASSUME Good, NothingElse, Is("cc1352p7"), CC!SendCipclose
  PROVE  Good'
<1>1. /\ Case("sendCipclose") /\ rx' = rx /\ Command("AT+CIPCLOSE")
      /\ dev' = Goto(Await(Report(dev, "intermediate"), "OK"), "finalizeDisconnect")
  BY CC1352P7Shares DEF CC!SendCipclose, CC!Goto, Goto, CC!Await, Await, CC!Report, Report
<1>2. /\ Keeps /\ KeepsRequests /\ dev'.bytesToWrite = dev.bytesToWrite /\ reply' = "OK"
      /\ dev'.replyState = dev.replyState /\ dev'.stateBooleans = dev.stateBooleans
      /\ dev'.sendState = "finalizeDisconnect" /\ dev'.connectState = "intermediate"
  BY <1>1 DEF Goto, Await, Report, Good, Typed, Fields, Keeps, KeepsRequests, reply
<1> QED
  BY <1>1, <1>2, CloseStep

LEMMA CC1352P7TransfersStep ==
  ASSUME Covered, Good, NothingElse, Is("cc1352p7"), CC!Transfers
  PROVE  Good'
<1>1. ~Is("espressif")
  BY DEF Is
<1>2. CASE CC!ConnectedSends("sendDataState")
  BY <1>2, CC1352P7Shares, ConnectedSendsStep
<1>3. CASE CC!ConnectedReceives("sendCiprecvdata")
  BY <1>3, CC1352P7Shares, ConnectedReceivesStep
<1>4. CASE CC!ConnectedIdle(CC!Rest(CC!Report(dev, "connected")))
  <2>1. CC!Rest(CC!Report(dev, "connected")) =
          CloseOrStay(Report(dev, "connected"), "finalizeDisconnect", "sendCipclose")
    BY DEF CC!Rest, CC!Report, Report, CC!CloseOrStay, CloseOrStay, CC!Has, Has,
           CC!HandleDisconnect, HandleDisconnect, CC!Leave, Leave, CC!Goto, Goto, CC!Lift, Lift
  <2> QED
    BY <1>4, <2>1, CC1352P7Shares, ConnectedIdleStep
<1>5. CASE CC!SendDataBytes("sendDataState", "OK")
  <2>1. "OK" = Confirmation
    BY <1>1 DEF Confirmation
  <2> QED
    BY <1>5, <2>1, CC1352P7Shares, SendDataBytesStep
<1>6. CASE CC!SendCiprecvdata("parseStateCiprecvdata")
  BY <1>1, <1>6, CC1352P7Shares, RequestPayloadStep DEF CC!SendCiprecvdata
<1>7. CASE CC!EndCiprecvdata
  BY <1>7, CC1352P7Shares, EndRequestsStep DEF CC!EndCiprecvdata
<1>8. CASE CC!ReceivePayload("OK")
  BY <1>8, CC1352P7Shares, ReceivePayloadStep
<1>9. CASE CC!ReceivedPayload("sendCiprecvdata", "connected") \/ CC!FinalizeDisconnect
  BY <1>9, CC1352P7Shares, ReceivedPayloadStep, FinalizeDisconnectStep
<1>10. CASE CC!SendCipclose
  BY <1>10, CC1352P7CloseStep
<1> QED
  BY <1>2, <1>3, <1>4, <1>5, <1>6, <1>7, <1>8, <1>9, <1>10 DEF CC!Transfers

LEMMA CC1352P7DriverStep ==
  ASSUME Covered, Good, Is("cc1352p7"), CC!Driver
  PROVE  Good'
<1>1. NothingElse
  BY DEF CC!Driver, CC!DriverOnly, NothingElse, CC!modem, CC!app, CC!program
<1> QED
  BY <1>1, CC1352P7ParsesStep, CC1352P7ConnectsStep, CC1352P7TransfersStep
     DEF CC!Driver, CC!Run

-----------------------------------------------------------------------------
(* The steps of the modem and of the network: the driver stays as it is.     *)

DriverKept ==
  /\ scenario' = scenario /\ dev' = dev /\ step' = step /\ serialOpen' = serialOpen
  /\ connects' = connects /\ requests' = requests /\ up' = up /\ got' = got
  /\ detector' = detector

LEMMA KeptWords ==
  ASSUME DriverKept
  PROVE  /\ (Fetching' <=> Fetching) /\ reply' = reply
         /\ (NeverResets' <=> NeverResets) /\ (Restarting' <=> Restarting)
         /\ Answers(reply)' = Answers(reply) /\ Finals(reply)' = Finals(reply)
         /\ Finals(">")' = Finals(">") /\ Errors' = Errors
         /\ Seen' = Seen /\ Prompted' = Prompted /\ Confirmation' = Confirmation
         /\ \A n : PayloadHeader(n)' = PayloadHeader(n)
<1>1. scenario' = scenario /\ dev' = dev
  BY DEF DriverKept
<1>2. Errors' = Errors /\ (NeverResets' <=> NeverResets) /\ (Restarting' <=> Restarting)
  BY <1>1 DEF Errors, NeverResets, Is, Restarting, Has
<1>3. reply' = reply /\ (Fetching' <=> Fetching)
  BY <1>1 DEF reply, Fetching, Is
<1>4. Answers(reply)' = Answers(reply) /\ Finals(reply)' = Finals(reply) /\
        Finals(">")' = Finals(">")
  BY <1>1, <1>2, <1>3, SameWords DEF Answers, Finals, Is
<1>5. Confirmation' = Confirmation
  BY <1>1 DEF Confirmation, Is
<1>6. Seen' = Seen /\ Prompted' = Prompted
  BY <1>1, <1>2 DEF DriverKept, Seen, Prompted
<1>7. \A n : PayloadHeader(n)' = PayloadHeader(n)
  BY <1>1 DEF PayloadHeader, Is
<1> QED
  BY <1>2, <1>3, <1>4, <1>5, <1>6, <1>7

LEMMA KeptTurn ==
  ASSUME Good, DriverKept, Typed', Life', Up', NEW p \in Nat, NEW m \in Nat, Exchange(p, m)',
         Down(m)'
  PROVE  Good'
<1>1. Steady'
  BY DEF Good, DriverKept, Steady, Flags, Waiting, Unasked, Resets, NeverResets, Is, Fetching,
         reply, Restarting, Has
<1>2. Talk'
  BY DEF Talk
<1> QED
  BY <1>1, <1>2 DEF Good, DriverKept

(* What the modem finds when it executes, or refuses, a command.             *)
Hears(text) == Quiet /\ tx # <<>> /\ prompt = 0 /\ Head(tx).text = text /\ tx' = Tail(tx)

LEMMA HearsFinds ==
  ASSUME Good, NEW text, Hears(text), text # NoText \/ Head(tx).kind = "line"
  PROVE  /\ Asking /\ Down(0) /\ ~Restarting /\ AllNotices(rx) /\ prompt = 0
         /\ Asked = text /\ tx[1].text = text /\ Head(tx) = tx[1] /\ tx[1].n \in Int /\ line = <<>>
         /\ tx' = <<>> /\ Asked' = NoText /\ Carried = 0 /\ Carried' = 0
<1>1. PICK p \in Nat, m \in Nat : Exchange(p, m) /\ Down(m)
  BY DEF Good, Talk
<1>2. tx \in Seq(Tokens) /\ rx \in Seq(Tokens)
  BY DEF Good, Typed
<1>3. /\ Tail(tx) \in Seq(Tokens) /\ Len(Tail(tx)) = Len(tx) - 1 /\ Head(tx) = tx[1]
      /\ Len(tx) \in Nat \ {0} /\ tx[1] \in Tokens
  BY <1>2, TakeNotice DEF Hears
<1>4. ~Resting /\ ~Replied /\ ~Prompting /\ ~Refused /\ ~Fetched(p, m) /\ ~Receiving(m) /\ ~Sending
  BY DEF Hears, Resting, Replied, Prompting, Refused, Fetched, Receiving, Sending
<1>5. ~Dropping
  BY <1>3 DEF Hears, Dropping, AllBytes
<1>6. Asking /\ m = 0
  BY <1>1, <1>4, <1>5 DEF Exchange
<1>7. Stream = rx
  BY <1>2, ConcatEmptySeq DEF Stream, Hears, Quiet
<1>8. tx' = <<>>
  BY <1>3, <1>6, EmptySeq DEF Asking, Hears
<1>9. Asked = text /\ Carried = 0 /\ tx[1].text = text
  BY <1>3, <1>6 DEF Asked, Carried, Asking, Hears
<1>10. Asked' = NoText /\ Carried' = 0
  BY <1>8 DEF Asked, Carried
<1>11. tx[1].n \in Int
  BY <1>3 DEF Tokens
<1> QED
  BY <1>1, <1>3, <1>6, <1>7, <1>8, <1>9, <1>10, <1>11 DEF Asking, Quieted, Hears, Quiet

(* The modem answers u.                                                      *)
LEMMA AnswerStep ==
  ASSUME Good, DriverKept, NEW text, Hears(text), text # NoText, rx' = rx, prompt' = prompt,
         NEW u \in Seq(Tokens), line' = line \o u, ~Fetching,
         Answering(u, Answers(reply), Finals(reply))
  PROVE  Replied' /\ line' = u /\ Stream' = rx \o u
<1>1. Asking /\ tx' = <<>> /\ line = <<>> /\ AllNotices(rx)
  BY HearsFinds
<1>2. line' = u
  BY <1>1, ConcatEmptySeq
<1>3. Stream' = rx \o u
  BY <1>2 DEF Stream
<1>4. reply \in Awaited /\ dev.bytesToRead = 0 /\ Quieted
  BY <1>1 DEF Asking
<1>5. Answering(rx \o u, Answers(reply), Finals(reply))
  BY <1>1, <1>4, AnswerAfterNotices, NoFinalNotices DEF Good, Typed
<1>6. Answering(Stream', Answers(reply)', Finals(reply)')
  BY <1>3, <1>5, KeptWords
<1>7. Answering(Stream, Answers(reply), Finals(reply))'
  BY <1>6
<1>8. Quieted'
  BY <1>4, KeptWords DEF Quieted
<1>9. dev' = dev
  BY DEF DriverKept
<1>10. reply' = reply /\ (Fetching' <=> Fetching)
  BY KeptWords
<1> QED
  BY <1>1, <1>2, <1>3, <1>4, <1>7, <1>8, <1>9, <1>10 DEF Replied

LEMMA KeptUp ==
  ASSUME Good, DriverKept, Carried = 0, Carried' = 0, peerGot' = peerGot,
         link' = "open" => link = "open" \/ UpComplete'
  PROVE  Up'
<1>1. Lost \/ UpComplete
  BY DEF Good, Talk, Up
<1>2. UpComplete => UpComplete'
  BY DEF UpComplete, DriverKept
<1>3. Lost => Lost' \/ UpComplete'
  BY KeptWords DEF Lost
<1> QED
  BY <1>1, <1>2, <1>3 DEF Good, Talk, Up, DriverKept

(* A command is answered, and nothing else happens to its connection.        *)
LEMMA AnswerTurn ==
  ASSUME Good, DriverKept, NEW text, Hears(text), text # NoText, rx' = rx, prompt' = prompt,
         NEW u \in Seq(Tokens), line' = line \o u, ~Fetching, peerGot' = peerGot,
         Answering(u, Answers(reply), Finals(reply)), inbox' \in Seq(Int), down' = down,
         link' = "open" => link = "open" \/ UpComplete', Down(0)', Life'
  PROVE  Good'
<1>1. /\ tx' = <<>> /\ Carried = 0 /\ Carried' = 0
  BY HearsFinds
<1>2. Replied' /\ line' \in Seq(Tokens)
  BY AnswerStep
<1>3. tx' \in Seq(Tokens)
  BY <1>1, EmptySeq
<1>4. Typed'
  BY <1>2, <1>3 DEF Good, Typed, DriverKept
<1>5. Exchange(0, 0)'
  BY <1>2 DEF Exchange
<1>6. Up'
  BY <1>1, KeptUp
<1> QED
  BY <1>4, <1>5, <1>6, KeptTurn

(* What is on its way as a command, and what the driver waits for.           *)
LEMMA CommandReplies ==
  ASSUME Asking
  PROVE  \/ Fetching /\ reply = NULL /\ tx[1].text = "AT+CIPRECVDATA" /\ tx[1].n >= 1
         \/ /\ ~Fetching /\ reply = "OK" /\ tx[1].text \in PlainCommands
            /\ NeverResets => tx[1].text = "AT+CIPCLOSE"
         \/ ~Fetching /\ reply = ">" /\ tx[1].text = "AT+CIPSEND" /\ tx[1].n = dev.bytesToWrite
         \/ ~Fetching /\ reply = NetworkLeft /\ tx[1].text = "AT+CWQAP" /\ Is("espressif")
         \/ ~Fetching /\ reply = "ready" /\ tx[1].text = "AT+RST" /\ Is("espressif")
<1> DEFINE text == tx[1].text
<1>1. \/ Fetching /\ reply = NULL /\ text = "AT+CIPRECVDATA" /\ tx[1].n >= 1
      \/ /\ ~Fetching /\ reply \in Awaited /\ text \in Commands(reply)
         /\ reply = ">" => tx[1].n = dev.bytesToWrite
  BY DEF Asking
<1> HIDE DEF text
<1>2. ASSUME text \in Commands("OK")
      PROVE  text \in PlainCommands /\ (NeverResets => text = "AT+CIPCLOSE")
  <2>1. Commands("OK") =
          {"AT+CIPCLOSE"} \cup
          (IF NeverResets THEN {}
           ELSE {"ATE0", "AT+CWMODE=1", "AT+CWJAP", "AT+CIPMUX=0", "AT+CIPRECVMODE",
                 "AT+CIPMODE=0", "AT+CWJAP?", "AT+CSQ", "AT+CIPSTAMAC", "AT+CIPSTART"})
    BY DEF Commands
  <2> QED
    BY <1>2, <2>1 DEF PlainCommands
<1>3. Commands("SEND OK") = {}
  BY DEF Commands
<1>4. ASSUME reply \in Awaited, text \in Commands(reply)
      PROVE  \/ reply = "OK" /\ text \in Commands("OK")
             \/ reply = ">" /\ text = "AT+CIPSEND"
             \/ reply = NetworkLeft /\ text = "AT+CWQAP" /\ Is("espressif")
             \/ reply = "ready" /\ text = "AT+RST" /\ Is("espressif")
  <2>1. reply = "OK" \/ reply = ">" \/ reply = "SEND OK" \/ reply = "WIFI DISCONNECT" \/
          reply = "ready"
    BY <1>4 DEF Awaited
  <2>2. CASE reply = "OK"
    BY <1>4, <2>2
  <2>3. CASE reply = ">"
    BY <1>4, <2>3, CommandsAre
  <2>4. CASE reply = "SEND OK"
    BY <1>3, <1>4, <2>4
  <2>5. CASE reply = "WIFI DISCONNECT"
    BY <1>4, <2>5, CommandsAre DEF NetworkLeft
  <2>6. CASE reply = "ready"
    BY <1>4, <2>6, CommandsAre
  <2> QED
    BY <2>1, <2>2, <2>3, <2>4, <2>5, <2>6
<1> QED
  BY <1>1, <1>2, <1>4 DEF text

(* The words of the answers.                                                 *)
Told == {"+CWJAP", NoAccess, "+CSQ", "+CIPSTAMAC"}
LEMMA AnswersToOk ==
  /\ "OK" \in Answers("OK") /\ "OK" \in Texts
  /\ \A a \in Told : a \in Answers("OK") /\ a \in Texts /\ a \notin Finals("OK")
  /\ ~NeverResets => "ERROR" \in Answers("OK")
  /\ ~NeverResets /\ Is("espressif") => "FAIL" \in Answers("OK")
  /\ "ERROR" \in Texts /\ "FAIL" \in Texts
<1>1. "OK" \in Answers("OK") /\ "OK" \in Texts
  <2>1. "OK" \in Answers("OK")
    BY DEF Answers
  <2> QED
    BY <2>1 DEF Texts
<1>2. {"+CWJAP", "No AP", "+CSQ", "+CIPSTAMAC"} \subseteq Answers("OK")
  BY DEF Answers
<1>3. {"+CWJAP", "No AP", "+CSQ", "+CIPSTAMAC"} \subseteq Texts
  BY DEF Texts
<1>4. "+CWJAP" \notin Finals("OK") /\ "+CSQ" \notin Finals("OK") /\ "+CIPSTAMAC" \notin Finals("OK")
  <2>1. Finals("OK") \subseteq {"OK", "ERROR", "FAIL"}
    BY DEF Finals, Errors
  <2> QED
    BY <2>1
<1>5. "No AP" \notin Finals("OK")
  <2>1. Finals("OK") \subseteq {"OK", "ERROR", "FAIL"}
    BY DEF Finals, Errors
  <2>2. "No AP" \notin {"OK", "ERROR", "FAIL"}
    OBVIOUS
  <2> QED
    BY <2>1, <2>2
<1>6. \A a \in Told : a \in Answers("OK") /\ a \in Texts /\ a \notin Finals("OK")
  BY <1>2, <1>3, <1>4, <1>5 DEF Told, NoAccess
<1>7. ~NeverResets => Errors \subseteq Answers("OK")
  BY DEF Answers
<1>8. "ERROR" \in Errors /\ (Is("espressif") => "FAIL" \in Errors)
  BY DEF Errors
<1>9. "ERROR" \in Texts
  BY DEF Texts
<1>10. "FAIL" \in Texts
  BY DEF Texts
<1> QED
  BY <1>1, <1>6, <1>7, <1>8, <1>9, <1>10

LEMMA AnswersToOthers ==
  /\ "ERROR" \in Answers(">") /\ "ERROR" \in Errors
  /\ NetworkLeft \in Answers(NetworkLeft) /\ "OK" \in Answers(NetworkLeft) /\ NetworkLeft \in Texts
  /\ "ready" \in Answers("ready") /\ "OK" \in Answers("ready") /\ "ready" \in Texts
  /\ "OK" \notin Finals(NetworkLeft) /\ "OK" \notin Finals("ready") /\ "OK" \notin Finals(">")
<1>1. "ERROR" \in Answers(">") /\ "ERROR" \in Errors
  BY AnswersAre DEF Errors
<1>2. Answers("WIFI DISCONNECT") = {"OK", "WIFI DISCONNECT"}
  BY DEF Answers
<1>3. Answers("ready") = {"OK", "ready"}
  BY DEF Answers
<1>4. NetworkLeft \in Texts
  BY DEF Texts, NetworkLeft
<1>5. "ready" \in Texts
  BY DEF Texts
<1>6. "OK" \notin Errors
  BY DEF Errors
<1>7. "OK" \notin Finals("ready") /\ "OK" \notin Finals(">")
  BY <1>6 DEF Finals
<1>8. "OK" \notin Finals("WIFI DISCONNECT")
  BY <1>6 DEF Finals
<1> QED
  BY <1>1, <1>2, <1>3, <1>4, <1>5, <1>7, <1>8 DEF NetworkLeft

LEMMA LifeKept ==
  ASSUME Good, DriverKept, tx # <<>>, Asked # "AT+CIPSTART", Asked' = NoText, link' = link,
         inbox' = inbox, peerGot' = peerGot, down' = down
  PROVE  Life'
<1>1. Zero' <=> Zero
  BY DEF Zero, DriverKept
<1>2. Denied => Denied'
  BY KeptWords DEF Denied
<1>3. Fresh => Fresh'
  BY <1>1, NoTextIsNone DEF Fresh, DriverKept, Is, Fetching, IsConnected, Has, Closed
<1>4. Opening => Opening'
  BY <1>1, <1>2, NoTextIsNone DEF Opening, DriverKept, Is, Fetching, IsConnected, Has
<1>5. Active => Active'
  BY NoTextIsNone DEF Active, DriverKept, Has
<1>6. Over => Over'
  BY NoTextIsNone DEF Over, DriverKept, Has, Closed, Fetching, Is
<1> QED
  BY <1>3, <1>4, <1>5, <1>6 DEF Good, Life

LEMMA AcknowledgeTurn ==
  ASSUME Good, DriverKept, rx' = rx, down' = down, NEW text, NEW texts,
         Acknowledges(text, texts), text # NoText, text # "AT+CIPSTART", ~Fetching,
         Replies(texts) \in Seq(Tokens),
         Answering(Replies(texts), Answers(reply), Finals(reply))
  PROVE  Good'
<1>1. Hears(text) /\ line' = line \o Replies(texts)
  BY DEF Acknowledges, Executes, Answer, Hears
<1>2. link' = link /\ inbox' = inbox /\ prompt' = prompt /\ peerGot' = peerGot
  BY DEF Acknowledges
<1>3. Asked = text /\ Asked' = NoText /\ tx # <<>> /\ Down(0)
  BY <1>1, HearsFinds DEF Hears
<1>4. Life'
  BY <1>2, <1>3, LifeKept
<1>5. Down(0)'
  BY <1>2, <1>3, DownKept DEF DriverKept
<1>6. inbox' \in Seq(Int)
  BY <1>2 DEF Good, Typed
<1> HIDE DEF Replies
<1> QED
  BY <1>1, <1>2, <1>4, <1>5, <1>6, AnswerTurn

LEMMA ModemKeeps ==
  ASSUME ModemOnly
  PROVE  DriverKept /\ rx' = rx /\ down' = down /\ discarded' = discarded
BY DEF ModemOnly, DriverKept, app, program

(* A command that is acknowledged.                                           *)
LEMMA PlainIsAnswered ==
  ASSUME Good, NEW text \in PlainCommands \ {"AT+CIPSTART"}, Hears(text)
  PROVE  text # NoText /\ text # "AT+CIPSTART" /\ ~Fetching /\ reply = "OK"
<1>1. text # NoText
  BY DEF PlainCommands, NoText
<1>2. Asking /\ tx[1].text = text
  BY <1>1, HearsFinds
<1>3. text # "AT+CIPRECVDATA" /\ text # "AT+CIPSEND" /\ text # "AT+CWQAP" /\ text # "AT+RST"
  BY DEF PlainCommands
<1> QED
  BY <1>1, <1>2, <1>3, CommandReplies

LEMMA OkTurn ==
  ASSUME Good, ModemOnly, NEW text \in PlainCommands \ {"AT+CIPSTART"},
         Acknowledges(text, <<"OK">>)
  PROVE  Good'
<1>1. Hears(text)
  BY DEF Acknowledges, Executes, Hears
<1>2. Replies(<<"OK">>) \in Seq(Tokens)
  BY AnswersToOk, RepliesAre
<1>3. Answering(Replies(<<"OK">>), Answers(reply), Finals(reply))
  BY <1>1, AnswersToOk, PlainIsAnswered, OneReply
<1> HIDE DEF Replies
<1> QED
  BY <1>1, <1>2, <1>3, PlainIsAnswered, ModemKeeps, AcknowledgeTurn

LEMMA ToldTurn ==
  ASSUME Good, ModemOnly, NEW text \in PlainCommands \ {"AT+CIPSTART"}, NEW a \in Told,
         Acknowledges(text, <<a, "OK">>)
  PROVE  Good'
<1>1. Hears(text)
  BY DEF Acknowledges, Executes, Hears
<1>2. Replies(<<a, "OK">>) \in Seq(Tokens)
  BY AnswersToOk, RepliesAre
<1>3. Answering(Replies(<<a, "OK">>), Answers(reply), Finals(reply))
  BY <1>1, AnswersToOk, PlainIsAnswered, TwoReplies
<1> HIDE DEF Replies
<1> QED
  BY <1>1, <1>2, <1>3, PlainIsAnswered, ModemKeeps, AcknowledgeTurn

(* The identification of a modem is not asked for: that is before the driver. *)
LEMMA NotIdentified ==
  ASSUME Good, NEW text \in {"AT+CGMM", "AT+GMR"}
  PROVE  ~Executes(text)
<1> SUFFICES ASSUME Executes(text) PROVE FALSE
  OBVIOUS
<1>1. text # NoText
  BY DEF NoText
<1>2. Asking /\ tx[1].text = text
  BY <1>1, HearsFinds DEF Executes, Hears
<1>3. /\ text # "AT+CIPRECVDATA" /\ text # "AT+CIPSEND" /\ text # "AT+CWQAP" /\ text # "AT+RST"
      /\ text \notin PlainCommands
  BY DEF PlainCommands
<1> QED
  BY <1>2, <1>3, CommandReplies

LEMMA EspressifAcknowledgeStep ==
  ASSUME Good, ModemOnly, ES!Acknowledge
  PROVE  Good'
<1>1. ASSUME NEW text, NEW texts PROVE ES!Acknowledges(text, texts) <=> Acknowledges(text, texts)
  BY DEF ES!Acknowledges, Acknowledges, ES!Executes, Executes, ES!Answer, Answer, ES!Replies,
         Replies, ES!Quiet, Quiet, ES!Line, Line
<1>2. Acknowledges("AT+CGMM", <<"ERROR">>) => Executes("AT+CGMM")
  BY DEF Acknowledges
<1>3. Acknowledges("AT+GMR", <<"AT version", "OK">>) => Executes("AT+GMR")
  BY DEF Acknowledges
<1>4. ~ES!Acknowledges("AT+CGMM", <<"ERROR">>)
  BY <1>1, <1>2, NotIdentified
<1>5. ~ES!Acknowledges("AT+GMR", <<"AT version", "OK">>)
  <2>1. ~Executes("AT+GMR")
    BY NotIdentified
  <2> QED
    BY <1>1, <1>3, <2>1
<1>6. \/ \E text \in {"ATE0", "AT+CWMODE=1", "AT+CIPMUX=0", "AT+CIPRECVMODE", "AT+CIPMODE=0"} :
           ES!Acknowledges(text, <<"OK">>)
      \/ ES!Acknowledges("AT+CWJAP?", <<IF link = "down" THEN NoAccess ELSE "+CWJAP", "OK">>)
      \/ ES!Acknowledges("AT+CIPSTAMAC", <<"+CIPSTAMAC", "OK">>)
  BY <1>4, <1>5 DEF ES!Acknowledge, NoAccess
<1>7. CASE \E text \in {"ATE0", "AT+CWMODE=1", "AT+CIPMUX=0", "AT+CIPRECVMODE", "AT+CIPMODE=0"} :
             ES!Acknowledges(text, <<"OK">>)
  <2>1. PICK text \in {"ATE0", "AT+CWMODE=1", "AT+CIPMUX=0", "AT+CIPRECVMODE", "AT+CIPMODE=0"} :
          Acknowledges(text, <<"OK">>)
    BY <1>1, <1>7
  <2>2. text \in PlainCommands \ {"AT+CIPSTART"}
    BY DEF PlainCommands
  <2> QED
    BY <2>1, <2>2, OkTurn
<1>8. CASE ES!Acknowledges("AT+CWJAP?", <<IF link = "down" THEN NoAccess ELSE "+CWJAP", "OK">>)
  <2> DEFINE a == IF link = "down" THEN NoAccess ELSE "+CWJAP"
  <2>1. Acknowledges("AT+CWJAP?", <<a, "OK">>)
    BY <1>1, <1>8
  <2>2. a \in Told
    BY DEF Told
  <2>3. "AT+CWJAP?" \in PlainCommands \ {"AT+CIPSTART"}
    BY DEF PlainCommands
  <2> HIDE DEF a
  <2> QED
    BY <2>1, <2>2, <2>3, ToldTurn
<1>9. CASE ES!Acknowledges("AT+CIPSTAMAC", <<"+CIPSTAMAC", "OK">>)
  <2>1. Acknowledges("AT+CIPSTAMAC", <<"+CIPSTAMAC", "OK">>)
    BY <1>1, <1>9
  <2>2. "+CIPSTAMAC" \in Told
    BY DEF Told
  <2>3. "AT+CIPSTAMAC" \in PlainCommands \ {"AT+CIPSTART"}
    BY DEF PlainCommands
  <2> QED
    BY <2>1, <2>2, <2>3, ToldTurn
<1> QED
  BY <1>6, <1>7, <1>8, <1>9

LEMMA CC1352P7AcknowledgeStep ==
  ASSUME Good, ModemOnly, CC!Acknowledge
  PROVE  Good'
<1>1. ASSUME NEW text, NEW texts PROVE CC!Acknowledges(text, texts) <=> Acknowledges(text, texts)
  BY DEF CC!Acknowledges, Acknowledges, CC!Executes, Executes, CC!Answer, Answer, CC!Replies,
         Replies, CC!Quiet, Quiet, CC!Line, Line
<1>2. ~Acknowledges("AT+CGMM", <<"CC1352P7", "OK">>)
  BY NotIdentified DEF Acknowledges
<1>3. \/ Acknowledges("ATE0", <<"OK">>)
      \/ Acknowledges("AT+CSQ", <<"+CSQ", "OK">>)
      \/ Acknowledges("AT+CIPSTAMAC", <<"+CIPSTAMAC", "OK">>)
  BY <1>1, <1>2 DEF CC!Acknowledge
<1>4. /\ "ATE0" \in PlainCommands \ {"AT+CIPSTART"}
      /\ "AT+CSQ" \in PlainCommands \ {"AT+CIPSTART"}
      /\ "AT+CIPSTAMAC" \in PlainCommands \ {"AT+CIPSTART"}
      /\ "+CSQ" \in Told /\ "+CIPSTAMAC" \in Told
  BY DEF PlainCommands, Told
<1> QED
  BY <1>3, <1>4, OkTurn, ToldTurn

(* An error is the answer.                                                   *)
LEMMA ErrorIs ==
  ASSUME NEW texts, NEW finals, "ERROR" \in texts
  PROVE  Replies(<<"ERROR">>) \in Seq(Tokens) /\ Answering(Replies(<<"ERROR">>), texts, finals)
<1>1. "ERROR" \in Texts
  BY AnswersToOk
<1> QED
  BY <1>1, RepliesAre, OneReply

(* AT+CIPSTART is refused.                                                   *)
LEMMA DeniedLife ==
  ASSUME Good, DriverKept, Hears("AT+CIPSTART"), rx' = rx, link' = link, inbox' = inbox,
         peerGot' = peerGot, down' = down, line' = line \o Replies(<<"ERROR">>)
  PROVE  Life'
<1> DEFINE u == Replies(<<"ERROR">>)
<1>1. "AT+CIPSTART" # NoText
  BY NoTextIsNone
<1>2. /\ Asking /\ Asked = "AT+CIPSTART" /\ Asked' = NoText /\ tx' = <<>> /\ line = <<>>
      /\ AllNotices(rx) /\ tx[1].text = "AT+CIPSTART"
  BY <1>1, HearsFinds
<1>3. u \in Seq(Tokens) /\ Answering(u, {"ERROR"}, {})
  BY ErrorIs
<1> HIDE DEF u
<1>4. Stream' = rx \o u
  <2>1. line' = u
    BY <1>2, <1>3, ConcatEmptySeq DEF u
  <2> QED
    BY <2>1 DEF Stream
<1>5. Answering(rx \o u, {"ERROR"}, {})
  BY <1>2, <1>3, AnswerAfterNotices DEF Good, Typed
<1>6. \A k \in 1 .. Len(Stream') : Stream'[k].text # "OK"
  <2>1. "OK" \notin {"ERROR"} \cup Notices
    BY DEF Notices
  <2> QED
    BY <1>4, <1>5, <2>1 DEF Answering
<1>7. reply = "OK"
  <2>1. "AT+CIPSTART" # "AT+CIPRECVDATA"
    OBVIOUS
  <2> QED
    BY <1>2, CommandReplies
<1>8. Denied'
  BY <1>2, <1>6, <1>7, KeptWords DEF Denied
<1>9. Opening /\ Zero
  BY <1>2 DEF Good, Life, Fresh, Opening, Active, Over
<1>10. Zero'
  BY <1>9 DEF Zero, DriverKept
<1>11. Opening'
  BY <1>2, <1>8, <1>9, <1>10, NoTextIsNone DEF Opening, DriverKept, Is, Fetching, IsConnected, Has
<1> QED
  BY <1>11 DEF Life

(* The request for payload is refused.                                       *)
LEMMA RefusedFetch ==
  ASSUME Good, DriverKept, Hears("AT+CIPRECVDATA"), rx' = rx, prompt' = prompt, link' = link,
         inbox' = inbox, peerGot' = peerGot, down' = down, line' = line \o Replies(<<"ERROR">>)
  PROVE  Good'
<1> DEFINE u == Replies(<<"ERROR">>)
<1>1. "AT+CIPRECVDATA" # NoText
  BY NoTextIsNone
<1>2. /\ Asking /\ Asked = "AT+CIPRECVDATA" /\ Asked' = NoText /\ tx' = <<>> /\ line = <<>>
      /\ AllNotices(rx) /\ tx[1].text = "AT+CIPRECVDATA" /\ ~Restarting /\ prompt = 0
      /\ Carried = 0 /\ Carried' = 0 /\ Down(0)
  BY <1>1, HearsFinds
<1>3. u \in Seq(Tokens) /\ Answering(u, {"ERROR"}, Errors)
  BY ErrorIs
<1> HIDE DEF u
<1>4. line' = u /\ Stream' = rx \o u
  <2>1. line' = u
    BY <1>2, <1>3, ConcatEmptySeq DEF u
  <2> QED
    BY <2>1 DEF Stream
<1>5. Notices \cap Errors = {}
  BY DEF Notices, Errors
<1>6. Answering(rx \o u, {"ERROR"}, Errors)
  BY <1>2, <1>3, <1>5, AnswerAfterNotices DEF Good, Typed
<1>7. Answering(Stream', {"ERROR"}, Errors')
  BY <1>4, <1>6, KeptWords
<1>8. Fetching /\ reply = NULL /\ dev.bytesToRead = 0
  <2>1. "AT+CIPRECVDATA" \notin PlainCommands
    BY DEF PlainCommands
  <2> QED
    BY <1>2, <2>1, CommandReplies DEF Asking
<1>9. Refused'
  BY <1>2, <1>7, <1>8, KeptWords DEF Refused, DriverKept
<1>10. Life'
  BY <1>2, LifeKept DEF Hears
<1>11. tx' \in Seq(Tokens)
  BY <1>2, EmptySeq
<1>12. Typed'
  BY <1>3, <1>4, <1>11 DEF Good, Typed, DriverKept
<1>13. Up'
  BY <1>2, KeptUp
<1>14. Down(0)'
  BY <1>2, DownKept DEF DriverKept
<1>15. Exchange(0, 0)'
  BY <1>9 DEF Exchange
<1> QED
  BY <1>10, <1>12, <1>13, <1>14, <1>15, KeptTurn

(* A command that can be refused.                                            *)
LEMMA RefusedTurn ==
  ASSUME Good, DriverKept, NEW text, Hears(text), text # NoText, rx' = rx, prompt' = prompt,
         link' = link, inbox' = inbox, peerGot' = peerGot, down' = down,
         line' = line \o Replies(<<"ERROR">>), ~Fetching, "ERROR" \in Answers(reply)
  PROVE  Good'
<1>1. /\ Replies(<<"ERROR">>) \in Seq(Tokens)
      /\ Answering(Replies(<<"ERROR">>), Answers(reply), Finals(reply))
  BY ErrorIs
<1>2. Asked = text /\ Asked' = NoText /\ Down(0) /\ tx # <<>>
  BY HearsFinds DEF Hears
<1>3. Life'
  <2>1. CASE text = "AT+CIPSTART"
    BY <2>1, DeniedLife
  <2>2. CASE text # "AT+CIPSTART"
    BY <1>2, <2>2, LifeKept
  <2> QED
    BY <2>1, <2>2
<1>4. Down(0)'
  BY <1>2, DownKept DEF DriverKept
<1>5. inbox' \in Seq(Int)
  BY DEF Good, Typed
<1> HIDE DEF Replies
<1> QED
  BY <1>1, <1>3, <1>4, <1>5, AnswerTurn

LEMMA RefuseStep ==
  ASSUME Good, ModemOnly, NEW never, Refuse(never),
         Is("espressif") => {"AT+RST", "AT+CWQAP"} \subseteq never,
         Is("cc1352p7") => "AT+CIPCLOSE" \in never
  PROVE  Good'
<1> DEFINE text == Head(tx).text
<1>1. /\ Hears(text) /\ Head(tx).kind = "line" /\ text \notin never
      /\ line' = line \o Replies(<<"ERROR">>)
      /\ link' = link /\ inbox' = inbox /\ prompt' = prompt /\ peerGot' = peerGot
  BY DEF Refuse, Hears, Answer
<1> HIDE DEF text
<1>2. Asking /\ tx[1].text = text
  BY <1>1, HearsFinds
<1>3. CASE Fetching /\ text = "AT+CIPRECVDATA"
  BY <1>1, <1>3, ModemKeeps, RefusedFetch
<1>4. CASE /\ ~Fetching /\ reply = "OK" /\ text \in PlainCommands
           /\ NeverResets => text = "AT+CIPCLOSE"
  <2>1. ~NeverResets
    BY <1>1, <1>4 DEF NeverResets
  <2>2. text # NoText
    BY <1>4 DEF PlainCommands, NoText
  <2>3. "ERROR" \in Answers(reply)
    BY <1>4, <2>1, AnswersToOk
  <2> QED
    BY <1>1, <1>4, <2>2, <2>3, ModemKeeps, RefusedTurn
<1>5. CASE ~Fetching /\ reply = ">" /\ text = "AT+CIPSEND"
  <2>1. text # NoText
    BY <1>5, NoTextIsNone
  <2>2. "ERROR" \in Answers(reply)
    BY <1>5, AnswersToOthers
  <2> QED
    BY <1>1, <1>5, <2>1, <2>2, ModemKeeps, RefusedTurn
<1> QED
  BY <1>1, <1>2, <1>3, <1>4, <1>5, CommandReplies

LEMMA DataIsActive ==
  ASSUME Good, Fetching \/ dev.sendState = "sendDataState"
  PROVE  Active
<1>1. ~Fresh /\ ~Opening /\ ~Over
  BY DEF Fresh, Opening, Over, Closed
<1> QED
  BY <1>1 DEF Good, Life

(* The modem asks for the bytes, or refuses them.                            *)
LEMMA StartSendingStep ==
  ASSUME Good, ModemOnly, NEW accepts, NEW texts, StartSending(accepts, texts),
         Replies(texts) \in Seq(Tokens), Answering(Replies(texts), {"OK", ">"}, Finals(">"))
  PROVE  Good'
<1> DEFINE u == Replies(texts)
<1>1. /\ Hears("AT+CIPSEND") /\ link' = link /\ inbox' = inbox /\ peerGot' = peerGot
  BY DEF StartSending, Executes, Hears
<1>2. /\ "AT+CIPSEND" # NoText /\ "AT+CIPSEND" # "AT+CIPSTART" /\ "AT+CIPSEND" # "AT+CIPRECVDATA"
      /\ "AT+CIPSEND" \notin PlainCommands
  BY NoTextIsNone DEF PlainCommands
<1>3. /\ Asking /\ tx[1].text = "AT+CIPSEND" /\ Head(tx) = tx[1] /\ line = <<>> /\ tx' = <<>>
      /\ AllNotices(rx) /\ ~Restarting /\ Asked = "AT+CIPSEND" /\ Asked' = NoText
      /\ Carried = 0 /\ Carried' = 0 /\ Down(0) /\ tx # <<>> /\ prompt = 0
  BY <1>1, <1>2, HearsFinds DEF Hears
<1>4. ~Fetching /\ reply = ">" /\ tx[1].n = dev.bytesToWrite
  BY <1>2, <1>3, CommandReplies
<1>5. CASE link \notin accepts
  <2>1. line' = line \o Replies(<<"ERROR">>) /\ prompt' = prompt
    BY <1>3, <1>5 DEF StartSending, Answer
  <2>2. "ERROR" \in Answers(reply)
    BY <1>4, AnswersToOthers
  <2> QED
    BY <1>1, <1>2, <1>4, <2>1, <2>2, ModemKeeps, RefusedTurn
<1>6. CASE link \in accepts
  <2>1. prompt' = dev.bytesToWrite /\ line' = line \o u
    BY <1>3, <1>4, <1>6 DEF StartSending, Answer
  <2>2. dev.sendState = "sendDataState"
    BY <1>4 DEF Good, Steady, Waiting
  <2>3. dev.bytesToWrite \in Nat
    BY <2>2, DataIsActive DEF Active, Good, Typed
  <2> HIDE DEF u
  <2>4. line' = u /\ Stream' = rx \o u /\ u \in Seq(Tokens)
    <3>1. line' = u /\ u \in Seq(Tokens)
      BY <1>3, <2>1, ConcatEmptySeq DEF u
    <3> QED
      BY <3>1, ModemKeeps DEF Stream
  <2>5. ">" \in Awaited
    BY DEF Awaited
  <2>6. Answering(u, {"OK", ">"}, Finals(">"))
    BY DEF u
  <2>7. Answering(rx \o u, {"OK", ">"}, Finals(">"))
    BY <1>3, <2>4, <2>5, <2>6, AnswerAfterNotices, NoFinalNotices DEF Good, Typed
  <2>8. DriverKept /\ down' = down
    BY ModemKeeps
  <2>9. Answering(Stream', {"OK", ">"}, Finals(">")')
    BY <2>4, <2>7, <2>8, KeptWords
  <2>10. dev.bytesToRead = 0
    BY <1>3 DEF Asking
  <2>11. Prompting'
    BY <1>3, <1>4, <2>1, <2>8, <2>9, <2>10, KeptWords DEF Prompting, DriverKept
  <2>12. tx' \in Seq(Tokens)
    BY <1>3, EmptySeq
  <2>13. Typed'
    BY <1>1, <2>1, <2>3, <2>4, <2>8, <2>12, ModemKeeps DEF Good, Typed, DriverKept
  <2>14. Life'
    BY <1>1, <1>2, <1>3, <2>8, LifeKept
  <2>15. Up'
    BY <1>1, <1>3, <2>8, KeptUp
  <2>16. Down(0)'
    BY <1>1, <1>3, <2>8, DownKept DEF DriverKept
  <2>17. Exchange(0, 0)'
    BY <2>11 DEF Exchange
  <2> QED
    BY <2>8, <2>13, <2>14, <2>15, <2>16, <2>17, KeptTurn
<1> QED
  BY <1>5, <1>6

(* Taking a byte from what the driver has sent.                              *)
LEMMA TakeByteFrom ==
  ASSUME tx \in Seq(Tokens), tx # <<>>, AllBytes(tx), tx' = Tail(tx)
  PROVE  /\ tx' \in Seq(Tokens) /\ AllBytes(tx') /\ Len(tx') = Len(tx) - 1 /\ Head(tx) = tx[1]
         /\ Carried = Len(tx) /\ Carried' = Len(tx) - 1 /\ Len(tx) \in Nat \ {0}
         /\ \A k \in 1 .. Carried' : tx'[k] = tx[k + 1] /\ k + 1 \in 1 .. Len(tx)
         /\ Asked = NoText /\ Asked' = NoText
         /\ tx[1].kind = "byte" /\ tx[1].n \in Int /\ tx[1].text = NoText
<1>1. /\ tx' \in Seq(Tokens) /\ Len(tx') = Len(tx) - 1 /\ Head(tx) = tx[1]
      /\ Len(tx) \in Nat \ {0} /\ tx[1] \in Tokens
      /\ \A k \in 1 .. Len(tx) - 1 : tx'[k] = tx[k + 1]
  BY TakeNotice
<1>2. \A k \in 1 .. Len(tx') : k + 1 \in 1 .. Len(tx) /\ tx'[k] = tx[k + 1]
  BY <1>1
<1>3. AllBytes(tx')
  BY <1>2 DEF AllBytes
<1>4. tx[1].kind = "byte" /\ tx[1].text = NoText
  BY <1>1 DEF AllBytes
<1>5. tx' # <<>> => Len(tx') \in Nat \ {0} /\ tx'[1].kind = "byte" /\ tx'[1].text = NoText
  BY <1>1, <1>3, EmptySeq DEF AllBytes
<1>6. Carried = Len(tx) /\ Asked = NoText
  BY <1>4 DEF Carried, Asked
<1>7. tx' = <<>> => Len(tx) - 1 = 0
  BY <1>1
<1>8. Carried' = Len(tx) - 1 /\ Asked' = NoText
  BY <1>1, <1>5, <1>7 DEF Carried, Asked
<1>9. tx[1].n \in Int
  BY <1>1 DEF Tokens
<1> QED
  BY <1>1, <1>2, <1>3, <1>4, <1>6, <1>8, <1>9

(* A byte that nobody waits for.                                             *)
LEMMA DropByteStep ==
  ASSUME Good, ModemOnly, DropByte
  PROVE  Good'
<1>1. PICK p \in Nat, m \in Nat : Exchange(p, m) /\ Down(m)
  BY DEF Good, Talk
<1>2. /\ prompt = 0 /\ tx # <<>> /\ Head(tx).kind = "byte" /\ tx' = Tail(tx)
      /\ link' = link /\ inbox' = inbox /\ prompt' = prompt /\ line' = line /\ peerGot' = peerGot
  BY DEF DropByte, modem
<1>3. tx \in Seq(Tokens) /\ Head(tx) = tx[1]
  BY <1>2, TakeNotice DEF Good, Typed
<1>4. Dropping /\ m = 0
  BY <1>1, <1>2, <1>3
     DEF Exchange, Resting, Replied, Prompting, Refused, Fetched, Receiving, Sending, Asking
<1>5. DriverKept /\ rx' = rx /\ down' = down
  BY ModemKeeps
<1>6. AllBytes(tx)
  BY <1>4 DEF Dropping
<1>7. /\ tx' \in Seq(Tokens) /\ AllBytes(tx') /\ Asked = NoText /\ Asked' = NoText
  BY <1>2, <1>3, <1>6, TakeByteFrom
<1>8. AllBytes(tx)'
  BY <1>7 DEF AllBytes
<1>9. Stream' = Stream
  BY <1>2, <1>5 DEF Stream
<1>10. AllNotices(Stream)'
  BY <1>4, <1>9 DEF Dropping, AllNotices
<1>11. Dropping'
  BY <1>2, <1>4, <1>5, <1>8, <1>10, KeptWords DEF Dropping, DriverKept
<1>12. Typed'
  BY <1>2, <1>5, <1>7 DEF Good, Typed, DriverKept
<1>13. Life'
  BY <1>2, <1>5, <1>7, LifeKept, NoTextIsNone
<1>14. Up'
  <2>1. Lost'
    BY <1>11, KeptWords DEF Lost, Dropping
  <2> QED
    BY <1>2, <1>5, <2>1 DEF Good, Talk, Up, Numbered, DriverKept
<1>15. Down(0)'
  BY <1>1, <1>2, <1>4, <1>5, DownKept DEF DriverKept
<1>16. Exchange(0, 0)'
  BY <1>11 DEF Exchange
<1> QED
  BY <1>5, <1>12, <1>13, <1>14, <1>15, <1>16, KeptTurn

(* While a connection is open, data may come and go.                         *)
LEMMA LifeOpen ==
  ASSUME Good, DriverKept, link = "open", link' \in {"open", "closed"},
         Asked' = Asked \/ Asked' = NoText
  PROVE  Life'
<1>1. ~Zero
  BY DEF Zero
<1>2. Opening => Opening'
  BY <1>1, NoTextIsNone DEF Opening, DriverKept, Is, Fetching, IsConnected, Has
<1>3. Active => Active'
  BY NoTextIsNone DEF Active, DriverKept, Has
<1>4. Over => Over'
  BY NoTextIsNone DEF Over, DriverKept, Has, Closed, Fetching, Is
<1>5. ~Fresh
  BY <1>1 DEF Fresh
<1> QED
  BY <1>2, <1>3, <1>4, <1>5 DEF Good, Life

(* The peer gets a byte.                                                     *)
LEMMA ByteGoesUp ==
  ASSUME Good, DriverKept, Sending, tx' = Tail(tx), link' = link,
         peerGot' = IF link = "open" THEN Append(peerGot, PayloadByte(Head(tx))) ELSE peerGot
  PROVE  Up' /\ peerGot' \in Seq(Int)
<1>1. tx \in Seq(Tokens) /\ tx # <<>> /\ AllBytes(tx) /\ ~Restarting
  <2>1. Len(tx) # 0 /\ tx \in Seq(Tokens)
    BY DEF Sending, Good, Typed
  <2>2. tx # <<>>
    BY <2>1
  <2> QED
    BY <2>1, <2>2 DEF Sending
<1>2. /\ Head(tx) = tx[1] /\ Carried = Len(tx) /\ Carried' = Len(tx) - 1 /\ Len(tx) \in Nat \ {0}
      /\ \A k \in 1 .. Carried' : tx'[k] = tx[k + 1] /\ k + 1 \in 1 .. Len(tx)
      /\ tx[1].kind = "byte" /\ tx[1].n \in Int
  BY <1>1, TakeByteFrom
<1>3. CASE link # "open"
  <2>1. Lost' /\ peerGot' = peerGot
    BY <1>3 DEF Lost
  <2> QED
    BY <2>1 DEF Good, Typed, Talk, Up, Numbered, DriverKept
<1>4. CASE link = "open"
  <2>1. UpComplete
    BY <1>1, <1>4 DEF Good, Talk, Up, Lost
  <2>2. Len(peerGot) \in Nat /\ Len(dev.writeBuffer) \in Nat /\ peerGot \in Seq(Int)
    BY DEF Good, Typed
  <2> DEFINE b == PayloadByte(Head(tx))
             g == Len(peerGot)
  <2>3. b = tx[1].n /\ tx[1].n = g + 1
    BY <1>2, <2>1 DEF PayloadByte, UpComplete
  <2>4. b \in Int /\ b = 0 + g + 1 /\ Numbered(peerGot, 0)
    BY <2>2, <2>3 DEF Good, Talk, Up
  <2>5. peerGot' = Append(peerGot, b)
    BY <1>4
  <2> HIDE DEF b
  <2>6. peerGot' \in Seq(Int) /\ Len(peerGot') = g + 1 /\ Numbered(peerGot', 0)
    BY <2>2, <2>4, <2>5, NumberedAppend
  <2>7. dev' = dev /\ up' = up
    BY DEF DriverKept
  <2>8. up = g + Carried + Len(dev.writeBuffer) /\ Carried' = Carried - 1 /\ Carried \in Nat \ {0}
    BY <1>2, <2>1 DEF UpComplete
  <2>9. /\ \A k \in 1 .. Carried : tx[k].n = g + k
        /\ Numbered(dev.writeBuffer, g + Carried)
    BY <2>1 DEF UpComplete
  <2>10. g \in Nat
    BY <2>2
  <2> DEFINE h == Len(peerGot')
  <2>14. h = g + 1
    BY <2>6
  <2> HIDE DEF g, h
  <2>15. up' = h + Carried' + Len(dev'.writeBuffer) /\ h <= up'
    <3> DEFINE w == Len(dev.writeBuffer)
               c == Carried
    <3>1. Len(dev'.writeBuffer) = w
      BY <2>7
    <3>2. w \in Nat
      BY <2>2
    <3>3. up' = g + c + w
      BY <2>7, <2>8
    <3>4. c \in Nat \ {0} /\ Carried' = c - 1
      BY <2>8
    <3> HIDE DEF w, c
    <3>5. up' = h + (c - 1) + w /\ h <= up'
      BY <2>10, <2>14, <3>2, <3>3, <3>4
    <3> QED
      BY <3>1, <3>4, <3>5
  <2>16. ASSUME NEW k \in 1 .. Carried' PROVE tx'[k].n = h + k
    <3>1. tx'[k] = tx[k + 1] /\ k + 1 \in 1 .. Carried
      BY <1>2
    <3>2. tx[k + 1].n = g + (k + 1)
      BY <2>9, <3>1
    <3>3. g + (k + 1) = h + k
      BY <2>8, <2>10, <2>14
    <3> QED
      BY <3>1, <3>2, <3>3
  <2>17. Numbered(dev'.writeBuffer, h + Carried')
    <3>1. h + Carried' = g + Carried
      BY <2>8, <2>10, <2>14
    <3> QED
      BY <2>7, <2>9, <3>1
  <2>11. UpComplete'
    BY <2>15, <2>16, <2>17 DEF UpComplete, h
  <2>12. Len(peerGot') <= up'
    BY <2>15 DEF h
  <2>13. Numbered(peerGot, 0)'
    BY <2>6 DEF Numbered
  <2> QED
    BY <2>6, <2>11, <2>12, <2>13 DEF Up
<1> QED
  BY <1>3, <1>4

LEMMA TakeByteStep ==
  ASSUME Good, ModemOnly, NEW sent, NEW failed, TakeByte(sent, failed),
         Replies(sent) \in Seq(Tokens), Replies(failed) \in Seq(Tokens),
         Answering(Replies(sent), Answers(Confirmation), Finals(Confirmation)),
         Answering(Replies(failed), Answers(Confirmation), Finals(Confirmation))
  PROVE  Good'
<1>1. PICK p \in Nat, m \in Nat : Exchange(p, m) /\ Down(m)
  BY DEF Good, Talk
<1>2. /\ line = <<>> /\ prompt > 0 /\ tx # <<>> /\ tx' = Tail(tx) /\ prompt' = prompt - 1
      /\ link' = link /\ inbox' = inbox
      /\ peerGot' = IF link = "open" THEN Append(peerGot, PayloadByte(Head(tx))) ELSE peerGot
  BY DEF TakeByte, Quiet
<1>3. prompt # 0
  BY <1>2
<1>4. Sending /\ m = 0
  BY <1>1, <1>2, <1>3
     DEF Exchange, Resting, Replied, Prompting, Refused, Fetched, Receiving, Asking, Dropping,
         Quieted
<1>5. DriverKept /\ rx' = rx /\ down' = down
  BY ModemKeeps
<1>6. /\ tx \in Seq(Tokens) /\ rx \in Seq(Tokens) /\ AllBytes(tx) /\ Len(tx) = prompt
      /\ reply = Confirmation /\ AllNotices(Stream) /\ ~Restarting /\ ~Fetching
      /\ dev.bytesToRead = 0 /\ prompt \in Nat
  BY <1>4 DEF Sending, Good, Typed
<1>7. /\ tx' \in Seq(Tokens) /\ AllBytes(tx') /\ Len(tx') = Len(tx) - 1 /\ Asked = NoText
      /\ Asked' = NoText
  BY <1>2, <1>6, TakeByteFrom
<1>8. Up' /\ peerGot' \in Seq(Int)
  BY <1>2, <1>4, <1>5, ByteGoesUp
<1>9. Life'
  <2>1. CASE link = "open"
    BY <1>2, <1>5, <1>7, <2>1, LifeOpen
  <2>2. CASE link # "open"
    BY <1>2, <1>5, <1>7, <2>2, LifeKept, NoTextIsNone
  <2> QED
    BY <2>1, <2>2
<1>10. Down(0)'
  BY <1>1, <1>2, <1>4, <1>5, DownKept DEF DriverKept
<1>11. Stream = rx
  BY <1>2, <1>6, ConcatEmptySeq DEF Stream
<1>12. (Sending' \/ Replied') /\ line' \in Seq(Tokens)
  <2>1. CASE prompt' > 0
    <3>1. line' = line
      BY <2>1 DEF TakeByte
    <3>2. Stream' = Stream
      BY <1>5, <3>1 DEF Stream
    <3>3. AllNotices(Stream)' /\ AllBytes(tx)'
      BY <1>6, <1>7, <3>2 DEF AllNotices, AllBytes
    <3>4. prompt' >= 1 /\ Len(tx') = prompt'
      BY <1>2, <1>6, <1>7, <2>1
    <3>5. Sending'
      BY <1>5, <1>6, <3>3, <3>4, KeptWords DEF Sending, DriverKept
    <3> QED
      BY <3>1, <3>5 DEF Good, Typed
  <2>2. CASE ~(prompt' > 0)
    <3> DEFINE texts == IF link = "open" THEN sent ELSE failed
               u == Replies(texts)
    <3>1. line' = line \o u
      BY <2>2 DEF TakeByte, Answer
    <3>2. u \in Seq(Tokens) /\ Answering(u, Answers(Confirmation), Finals(Confirmation))
      BY DEF texts
    <3> HIDE DEF u
    <3>3. line' = u /\ Stream' = rx \o u
      <4>1. line' = u
        BY <1>2, <3>1, <3>2, ConcatEmptySeq
      <4> QED
        BY <1>5, <4>1 DEF Stream
    <3>4. Answering(u, Answers(reply), Finals(reply))
      BY <1>6, <3>2
    <3>5. reply \in Awaited
      BY <1>6 DEF Confirmation, Awaited
    <3>6. Answering(rx \o u, Answers(reply), Finals(reply))
      BY <1>6, <1>11, <3>2, <3>4, <3>5, AnswerAfterNotices, NoFinalNotices
    <3>7. Answering(Stream', Answers(reply)', Finals(reply)')
      BY <1>5, <3>3, <3>6, KeptWords
    <3>8. Answering(Stream, Answers(reply), Finals(reply))'
      BY <3>7
    <3>9. prompt' = 0 /\ Len(tx') = 0
      BY <1>2, <1>6, <1>7, <2>2
    <3>10. tx' = <<>>
      BY <1>7, <3>9, EmptySeq
    <3>11. Quieted'
      BY <1>5, <1>6, <3>9, KeptWords DEF Quieted
    <3>12. reply' = reply /\ (Fetching' <=> Fetching) /\ dev' = dev
      BY <1>5, KeptWords DEF DriverKept
    <3>13. Replied'
      BY <1>6, <3>5, <3>8, <3>10, <3>11, <3>12 DEF Replied
    <3> QED
      BY <3>2, <3>3, <3>13
  <2> QED
    BY <2>1, <2>2
<1>13. prompt' \in Nat
  BY <1>2, <1>6
<1>14. Typed'
  BY <1>2, <1>5, <1>7, <1>8, <1>12, <1>13 DEF Good, Typed, DriverKept
<1>15. Exchange(0, 0)'
  BY <1>12 DEF Exchange
<1> QED
  BY <1>5, <1>8, <1>9, <1>10, <1>14, <1>15, KeptTurn

(* AT+CIPSTART is executed: it opens the connection where the network allows. *)
LEMMA OpenStep ==
  ASSUME Good, ModemOnly, NEW links, Executes("AT+CIPSTART"),
         IF link \in links THEN link' = "open" /\ inbox' = <<>> /\ Answer(Replies(<<"OK">>))
         ELSE link' = link /\ inbox' = inbox /\ Answer(Replies(<<"ERROR">>)),
         prompt' = prompt, peerGot' = peerGot
  PROVE  Good'
<1>1. Hears("AT+CIPSTART") /\ "AT+CIPSTART" # NoText
  BY NoTextIsNone DEF Executes, Hears
<1>2. /\ Asking /\ Asked = "AT+CIPSTART" /\ Asked' = NoText /\ Down(0) /\ Carried' = 0
      /\ tx[1].text = "AT+CIPSTART"
  BY <1>1, HearsFinds
<1>3. Opening /\ Zero
  BY <1>2 DEF Good, Life, Fresh, Opening, Active, Over
<1>4. ~NeverResets
  BY <1>3 DEF Opening, NeverResets
<1>5. ~Fetching /\ reply = "OK"
  <2>1. "AT+CIPSTART" # "AT+CIPRECVDATA"
    OBVIOUS
  <2> QED
    BY <1>2, <2>1, CommandReplies
<1>6. DriverKept /\ rx' = rx /\ down' = down
  BY ModemKeeps
<1>7. CASE link \in links
  <2> DEFINE u == Replies(<<"OK">>)
  <2>1. u \in Seq(Tokens) /\ Answering(u, Answers(reply), Finals(reply))
    BY <1>5, AnswersToOk, RepliesAre, OneReply
  <2>2. link' = "open" /\ inbox' = <<>> /\ line' = line \o u
    BY <1>7 DEF Answer
  <2> HIDE DEF u
  <2>3. /\ up' = 0 /\ down' = 0 /\ got' = <<>> /\ peerGot' = <<>> /\ dev'.readBuffer = <<>>
        /\ dev'.writeBuffer = <<>>
    BY <1>3, <1>6 DEF Zero, DriverKept
  <2>4. inbox' \in Seq(Int)
    BY <2>2, EmptySeq
  <2>5. UpComplete'
    BY <1>2, <2>3 DEF UpComplete, Numbered
  <2>6. Down(0)'
    BY <2>2, <2>3 DEF Down, Seen, Numbered
  <2>7. Opening'
    BY <1>2, <1>3, <1>6, <2>2, NoTextIsNone DEF Opening, DriverKept, Is, Fetching, IsConnected, Has
  <2>8. Life'
    BY <2>7 DEF Life
  <2> QED
    BY <1>1, <1>5, <1>6, <2>1, <2>2, <2>4, <2>5, <2>6, <2>8, AnswerTurn
<1>8. CASE link \notin links
  <2>1. "ERROR" \in Answers(reply)
    BY <1>4, <1>5, AnswersToOk
  <2>2. link' = link /\ inbox' = inbox /\ line' = line \o Replies(<<"ERROR">>)
    BY <1>8 DEF Answer
  <2> QED
    BY <1>1, <1>5, <1>6, <2>1, <2>2, RefusedTurn
<1> QED
  BY <1>7, <1>8

(* The modem delivers payload.                                               *)
LEMMA FetchStep ==
  ASSUME Good, ModemOnly, Executes("AT+CIPRECVDATA"),
         IF inbox # <<>> THEN DeliverPayload(PayloadHeader(Deliverable))
         ELSE /\ Answer(Replies(<<"ERROR">>))
              /\ link' = link /\ inbox' = inbox /\ prompt' = prompt /\ peerGot' = peerGot
  PROVE  Good'
<1>1. Hears("AT+CIPRECVDATA") /\ "AT+CIPRECVDATA" # NoText
  BY NoTextIsNone DEF Executes, Hears
<1>2. /\ Asking /\ Asked = "AT+CIPRECVDATA" /\ Asked' = NoText /\ Down(0) /\ Carried = 0
      /\ Carried' = 0 /\ tx[1].text = "AT+CIPRECVDATA" /\ Head(tx) = tx[1] /\ tx[1].n \in Int
      /\ line = <<>> /\ tx' = <<>> /\ AllNotices(rx) /\ ~Restarting /\ prompt = 0 /\ tx # <<>>
  BY <1>1, HearsFinds DEF Hears
<1>3. Fetching /\ reply = NULL /\ tx[1].n >= 1
  <2>1. "AT+CIPRECVDATA" \notin PlainCommands
    BY DEF PlainCommands
  <2> QED
    BY <1>2, <2>1, CommandReplies
<1>4. DriverKept /\ rx' = rx /\ down' = down
  BY ModemKeeps
<1>5. CASE inbox = <<>>
  BY <1>1, <1>4, <1>5, RefusedFetch DEF Answer
<1>6. CASE inbox # <<>>
  <2>9. inbox \in Seq(Int) /\ Len(inbox) \in Nat \ {0}
    <3>1. inbox \in Seq(Int)
      BY DEF Good, Typed
    <3> QED
      BY <1>6, <3>1, EmptySeq, LenProperties
  <2>2. rx \in Seq(Tokens) /\ Len(rx) \in Nat
    BY DEF Good, Typed
  <2>3. PICK p \in Nat, m \in 1 .. Len(inbox) : p = Len(rx) + 1 /\ m = Deliverable
    <3>1. Deliverable \in 1 .. Len(inbox)
      BY <1>2, <1>3, <2>9 DEF Deliverable, Lower
    <3> QED
      BY <2>2, <3>1
  <2> DEFINE data == SubSeq(inbox, 1, m)
             u == <<PayloadHeader(m)>> \o Bytes(data) \o Replies(<<"OK">>)
  <2>1. /\ line' = line \o u /\ inbox' = Drop(inbox, m)
        /\ link' = link /\ prompt' = prompt /\ peerGot' = peerGot
    BY <1>6, <2>3 DEF DeliverPayload, Answer
  <2>4. link \in {"open", "closed"}
    BY <1>3, DataIsActive DEF Active
  <2>5. Seen \in Int
    BY DEF Seen, Good, Typed
  <2>6. Numbered(inbox, Seen) /\ down = Seen + Len(inbox)
    <3>1. Numbered(inbox, Seen + 0) /\ down = Seen + 0 + Len(inbox)
      BY <1>2, <2>4 DEF Down
    <3>2. Seen + 0 = Seen
      BY <2>5
    <3> QED
      BY <3>1, <3>2
  <2>7. /\ Drop(inbox, m) \in Seq(Int) /\ Len(Drop(inbox, m)) = Len(inbox) - m
        /\ Numbered(Drop(inbox, m), Seen + m)
        /\ data \in Seq(Int) /\ Len(data) = m /\ Numbered(data, Seen)
    <3>1. m \in 0 .. Len(inbox)
      BY <2>3, <2>9
    <3> QED
      BY <2>9, <2>5, <2>6, <3>1, NumberedDrop
  <2> HIDE DEF data
  <2>8. PayloadHeader(m) \in Tokens
    <3>1. m \in Int /\ "+CIPRECVDATA" \in Texts
      BY <2>3 DEF Texts
    <3> QED
      BY <3>1, LineIsToken DEF PayloadHeader
  <2>10. u \in Seq(Tokens) /\ Payload(rx \o u, PayloadHeader(m), p, m, Seen)
    BY <1>2, <2>2, <2>3, <2>5, <2>7, <2>8, PayloadDelivered
  <2> HIDE DEF u
  <2>11. line' = u /\ Stream' = rx \o u
    <3>1. line' = u
      BY <1>2, <2>1, <2>10, ConcatEmptySeq
    <3> QED
      BY <1>4, <3>1 DEF Stream
  <2>12. Payload(Stream', PayloadHeader(m)', p, m, Seen')
    BY <1>4, <2>10, <2>11, KeptWords
  <2>13. Fetched(p, m)'
    <3>1. ~Restarting' /\ reply' = reply /\ (Fetching' <=> Fetching) /\ dev' = dev
      BY <1>2, <1>4, KeptWords DEF DriverKept
    <3>2. prompt' = 0 /\ p >= 1 /\ m >= 1 /\ dev.bytesToRead = 0
      BY <1>2, <2>1, <2>2, <2>3, <2>9 DEF Asking
    <3> QED
      BY <1>2, <1>3, <2>12, <3>1, <3>2 DEF Fetched, Quieted
  <2>14. Down(m)'
    <3>1. Seen' = Seen /\ dev' = dev /\ got' = got
      BY <1>4, KeptWords DEF DriverKept
    <3>2. down' = Seen + m + Len(inbox')
      BY <1>4, <2>1, <2>3, <2>5, <2>6, <2>7, <2>9
    <3>3. Numbered(inbox', Seen + m)
      BY <2>1, <2>7
    <3>4. Numbered(got, 0)' /\ Numbered(dev.readBuffer, Len(got))'
      BY <1>2, <3>1 DEF Down, Numbered
    <3> QED
      BY <2>1, <2>4, <3>1, <3>2, <3>3, <3>4 DEF Down
  <2>15. Active'
    BY <1>2, <1>3, <1>4, <2>1, DataIsActive, NoTextIsNone DEF Active, DriverKept, Has
  <2>16. Up'
    BY <1>2, <1>4, <2>1, KeptUp
  <2>17. tx' \in Seq(Tokens)
    BY <1>2, EmptySeq
  <2>18. Typed'
    BY <1>4, <2>1, <2>7, <2>10, <2>11, <2>17 DEF Good, Typed, DriverKept
  <2>19. Exchange(p, m)'
    BY <2>13 DEF Exchange
  <2>20. m \in Nat
    BY <2>3, <2>9
  <2>21. Life'
    BY <2>15 DEF Life
  <2> QED
    BY <1>4, <2>14, <2>16, <2>18, <2>19, <2>20, <2>21, KeptTurn
<1> QED
  BY <1>5, <1>6

(* What is left of a connection by a command that may end it.                *)
EndsLink ==
  \/ link' = link /\ inbox' = inbox
  \/ link' \in {"down", "none"} /\ inbox' \in {inbox, <<>>}

LEMMA LifeEnds ==
  ASSUME Good, DriverKept, Asked \in Ends, Asked' = NoText, peerGot' = peerGot, down' = down,
         EndsLink
  PROVE  Life'
<1>1. ~Opening /\ ~Active
  BY DEF Opening, Active
<1>2. Zero => Zero'
  BY DEF Zero, DriverKept, EndsLink
<1>3. Fresh => Fresh'
  BY <1>2, NoTextIsNone DEF Fresh, DriverKept, Is, Fetching, IsConnected, Has, Closed
<1>4. Over => Over'
  BY NoTextIsNone DEF Over, DriverKept, Has, Closed, Fetching, Is
<1> QED
  BY <1>1, <1>3, <1>4 DEF Good, Life

LEMMA EndTurn ==
  ASSUME Good, ModemOnly, NEW text \in Ends, Executes(text), NEW u \in Seq(Tokens), Answer(u),
         prompt' = prompt, peerGot' = peerGot, EndsLink, ~Fetching,
         Answering(u, Answers(reply), Finals(reply))
  PROVE  Good'
<1>1. Hears(text) /\ line' = line \o u
  BY DEF Executes, Hears, Answer
<1>2. text # NoText
  BY NoTextIsNone
<1>3. Asked = text /\ Asked' = NoText /\ Down(0)
  BY <1>1, <1>2, HearsFinds
<1>4. DriverKept /\ rx' = rx /\ down' = down
  BY ModemKeeps
<1>5. Life'
  BY <1>3, <1>4, LifeEnds
<1>6. inbox' \in Seq(Int)
  <2>1. <<>> \in Seq(Int)
    BY EmptySeq
  <2> QED
    BY <2>1 DEF EndsLink, Good, Typed
<1>7. Down(0)'
  <2>1. CASE link' = link /\ inbox' = inbox
    BY <1>3, <1>4, <2>1, DownKept DEF DriverKept
  <2>2. CASE link' \in {"down", "none"}
    <3>1. Seen \in Int /\ Len(inbox) \in Nat /\ down \in Nat
      BY DEF Seen, Good, Typed
    <3>2. Seen + 0 <= down
      BY <1>3, <3>1 DEF Down
    <3>3. Seen' = Seen
      BY <1>4, KeptWords
    <3>4. Numbered(got, 0)' /\ Numbered(dev.readBuffer, Len(got))'
      BY <1>3, <1>4 DEF Down, Numbered, DriverKept
    <3> QED
      BY <1>4, <2>2, <3>2, <3>3, <3>4 DEF Down
  <2> QED
    BY <2>1, <2>2 DEF EndsLink
<1>8. link' = "open" => link = "open"
  BY DEF EndsLink
<1> QED
  BY <1>1, <1>2, <1>4, <1>5, <1>6, <1>7, <1>8, AnswerTurn

(* The modem joins the network, or fails to.                                 *)
LEMMA JoinStep ==
  ASSUME Good, ModemOnly, Is("espressif"), ES!JoinNetwork
  PROVE  Good'
<1>1. /\ Executes("AT+CWJAP") /\ inbox' = inbox /\ prompt' = prompt /\ peerGot' = peerGot
      /\ \/ /\ link' = (IF link = "down" THEN "none" ELSE link)
            /\ Answer(Replies(<<"OK">>))
         \/ link' = "down" /\ Answer(Replies(<<"FAIL">>))
  BY DEF ES!JoinNetwork, ES!Executes, Executes, ES!Answer, Answer, ES!Replies, Replies, ES!Quiet,
         Quiet, ES!Line, Line
<1>2. "AT+CWJAP" \in PlainCommands \ {"AT+CIPSTART"} /\ "AT+CWJAP" \in Ends
  BY DEF PlainCommands, Ends
<1>3. Hears("AT+CWJAP")
  BY <1>1 DEF Executes, Hears
<1>4. ~Fetching /\ reply = "OK" /\ ~NeverResets
  BY <1>2, <1>3, PlainIsAnswered DEF NeverResets, Is
<1>5. EndsLink
  BY <1>1 DEF EndsLink
<1>6. \A a \in {"OK", "FAIL"} :
        Replies(<<a>>) \in Seq(Tokens) /\ Answering(Replies(<<a>>), Answers(reply), Finals(reply))
  BY <1>4, AnswersToOk, RepliesAre, OneReply
<1> HIDE DEF Replies
<1> QED
  BY <1>1, <1>2, <1>4, <1>5, <1>6, EndTurn

(* The modem closes the connection.                                          *)
LEMMA CloseIsAnswered ==
  ASSUME Good, Executes("AT+CIPCLOSE")
  PROVE  "AT+CIPCLOSE" \in Ends /\ ~Fetching /\ reply = "OK"
<1>1. "AT+CIPCLOSE" \in PlainCommands \ {"AT+CIPSTART"} /\ "AT+CIPCLOSE" \in Ends
  BY DEF PlainCommands, Ends
<1>2. Hears("AT+CIPCLOSE")
  BY DEF Executes, Hears
<1> QED
  BY <1>1, <1>2, PlainIsAnswered

LEMMA EspressifModemCloses ==
  ASSUME Good, ModemOnly, Is("espressif"), ES!Close
  PROVE  Good'
<1>1. /\ Executes("AT+CIPCLOSE") /\ inbox' = inbox /\ prompt' = prompt /\ peerGot' = peerGot
      /\ \/ link' = "none" /\ Answer(Replies(<<"CLOSED", "OK">>))
         \/ link' = link /\ Answer(Replies(<<"ERROR">>))
  BY DEF ES!Close, ES!Executes, Executes, ES!Answer, Answer, ES!Replies, Replies, ES!Quiet,
         Quiet, ES!Line, Line
<1>2. "AT+CIPCLOSE" \in Ends /\ ~Fetching /\ reply = "OK" /\ ~NeverResets
  BY <1>1, CloseIsAnswered DEF NeverResets, Is
<1>3. EndsLink
  BY <1>1 DEF EndsLink
<1>4. /\ Replies(<<"ERROR">>) \in Seq(Tokens)
      /\ Answering(Replies(<<"ERROR">>), Answers(reply), Finals(reply))
  BY <1>2, AnswersToOk, ErrorIs
<1>5. "CLOSED" \in Texts /\ "CLOSED" \in Notices
  BY DEF Texts, Notices
<1>6. "OK" \in Awaited
  BY DEF Awaited
<1>7. "CLOSED" \notin Finals(reply)
  BY <1>2, <1>5, <1>6, NoFinalNotices
<1>8. /\ Replies(<<"CLOSED", "OK">>) \in Seq(Tokens)
      /\ Answering(Replies(<<"CLOSED", "OK">>), Answers(reply), Finals(reply))
  BY <1>2, <1>5, <1>7, AnswersToOk, RepliesAre, TwoReplies
<1> HIDE DEF Replies
<1> QED
  BY <1>1, <1>2, <1>3, <1>4, <1>8, EndTurn

LEMMA CC1352P7ModemCloses ==
  ASSUME Good, ModemOnly, CC!Close
  PROVE  Good'
<1>1. /\ Executes("AT+CIPCLOSE") /\ inbox' = <<>> /\ prompt' = prompt /\ peerGot' = peerGot
      /\ link' = "none" /\ Answer(Replies(<<"OK">>))
  BY DEF CC!Close, CC!Executes, Executes, CC!Answer, Answer, CC!Replies, Replies, CC!Quiet,
         Quiet, CC!Line, Line
<1>2. "AT+CIPCLOSE" \in Ends /\ ~Fetching /\ reply = "OK"
  BY <1>1, CloseIsAnswered
<1>3. EndsLink
  BY <1>1 DEF EndsLink
<1>4. /\ Replies(<<"OK">>) \in Seq(Tokens)
      /\ Answering(Replies(<<"OK">>), Answers(reply), Finals(reply))
  BY <1>2, AnswersToOk, RepliesAre, OneReply
<1> HIDE DEF Replies
<1> QED
  BY <1>1, <1>2, <1>3, <1>4, EndTurn

(* The modem leaves the network, or restarts.                                *)
LEMMA LeaveStep ==
  ASSUME Good, ModemOnly, Is("espressif"), ES!LeaveNetwork
  PROVE  Good'
<1>1. /\ Executes("AT+CWQAP") /\ inbox' = <<>> /\ prompt' = prompt /\ peerGot' = peerGot
      /\ link' = "down"
      /\ Answer(Replies(<<"OK">>)) \/ Answer(Replies(<<"OK", NetworkLeft>>))
  BY DEF ES!LeaveNetwork, ES!Executes, Executes, ES!Answer, Answer, ES!Replies, Replies, ES!Quiet,
         Quiet, ES!Line, Line, NetworkLeft
<1>2. "AT+CWQAP" \in Ends /\ "AT+CWQAP" \notin PlainCommands /\ "AT+CWQAP" # NoText
  BY NoTextIsNone DEF Ends, PlainCommands
<1>3. Asking /\ tx[1].text = "AT+CWQAP"
  BY <1>1, <1>2, HearsFinds DEF Executes, Hears
<1>4. ~Fetching /\ reply = NetworkLeft
  BY <1>2, <1>3, CommandReplies
<1>5. EndsLink
  BY <1>1 DEF EndsLink
<1>6. /\ Replies(<<"OK">>) \in Seq(Tokens)
      /\ Answering(Replies(<<"OK">>), Answers(reply), Finals(reply))
      /\ Replies(<<"OK", NetworkLeft>>) \in Seq(Tokens)
      /\ Answering(Replies(<<"OK", NetworkLeft>>), Answers(reply), Finals(reply))
  BY <1>4, AnswersToOk, AnswersToOthers, RepliesAre, OneReply, TwoReplies
<1> HIDE DEF Replies
<1> QED
  BY <1>1, <1>2, <1>4, <1>5, <1>6, EndTurn

LEMMA ModemRestartStep ==
  ASSUME Good, ModemOnly, Is("espressif"), ES!Restart
  PROVE  Good'
<1>1. /\ Executes("AT+RST") /\ inbox' = <<>> /\ prompt' = prompt /\ peerGot' = peerGot
      /\ link' = "down" /\ Answer(Replies(<<"OK", "ready">>))
  BY DEF ES!Restart, ES!Executes, Executes, ES!Answer, Answer, ES!Replies, Replies, ES!Quiet,
         Quiet, ES!Line, Line
<1>2. "AT+RST" \in Ends /\ "AT+RST" \notin PlainCommands /\ "AT+RST" # NoText
  BY NoTextIsNone DEF Ends, PlainCommands
<1>3. Asking /\ tx[1].text = "AT+RST"
  BY <1>1, <1>2, HearsFinds DEF Executes, Hears
<1>4. ~Fetching /\ reply = "ready"
  BY <1>2, <1>3, CommandReplies
<1>5. EndsLink
  BY <1>1 DEF EndsLink
<1>6. /\ Replies(<<"OK", "ready">>) \in Seq(Tokens)
      /\ Answering(Replies(<<"OK", "ready">>), Answers(reply), Finals(reply))
  BY <1>4, AnswersToOk, AnswersToOthers, RepliesAre, TwoReplies
<1> HIDE DEF Replies
<1> QED
  BY <1>1, <1>2, <1>4, <1>5, <1>6, EndTurn

(* What the modem says after the bytes.                                      *)
LEMMA EspressifConfirms ==
  ASSUME Is("espressif")
  PROVE  /\ Replies(<<SentOk>>) \in Seq(Tokens) /\ Replies(<<SendFail>>) \in Seq(Tokens)
         /\ Answering(Replies(<<SentOk>>), Answers(Confirmation), Finals(Confirmation))
         /\ Answering(Replies(<<SendFail>>), Answers(Confirmation), Finals(Confirmation))
<1>1. Confirmation = SentOk
  BY DEF Confirmation, SentOk
<1>2. Answers(SentOk) = {SentOk, SendFail}
  BY DEF Answers, SentOk, SendFail
<1>3. SentOk \in Texts
  BY DEF SentOk, Texts
<1>4. SendFail \in Texts
  BY DEF SendFail, Texts
<1> QED
  BY <1>1, <1>2, <1>3, <1>4, RepliesAre, OneReply

LEMMA CC1352P7Confirms ==
  ASSUME Is("cc1352p7")
  PROVE  /\ Replies(<<"OK">>) \in Seq(Tokens) /\ Replies(<<SendFail, "OK">>) \in Seq(Tokens)
         /\ Answering(Replies(<<"OK">>), Answers(Confirmation), Finals(Confirmation))
         /\ Answering(Replies(<<SendFail, "OK">>), Answers(Confirmation), Finals(Confirmation))
<1>1. Confirmation = "OK" /\ ~Is("espressif")
  BY DEF Confirmation, Is
<1>2. SendFail \in Answers("OK")
  BY <1>1 DEF Answers, SendFail
<1>3. SendFail \in Texts
  BY DEF SendFail, Texts
<1>4. SendFail \notin Finals("OK")
  <2>1. Finals("OK") = {"OK", "ERROR"}
    BY <1>1 DEF Finals, Errors
  <2> QED
    BY <2>1, WordsApart
<1> QED
  BY <1>1, <1>2, <1>3, <1>4, AnswersToOk, RepliesAre, OneReply, TwoReplies

(* A byte is dropped, taken or asked for in the same way by both modems.     *)
LEMMA EspressifModemShares ==
  /\ ES!ModemOnly => ModemOnly
  /\ \A never : ES!Refuse(never) => Refuse(never)
  /\ \A accepts, texts : ES!StartSending(accepts, texts) => StartSending(accepts, texts)
  /\ \A sent, failed : ES!TakeByte(sent, failed) => TakeByte(sent, failed)
  /\ ES!DropByte => DropByte
  /\ \A text : ES!Executes(text) => Executes(text)
  /\ \A u : ES!Answer(u) => Answer(u)
  /\ \A header : ES!DeliverPayload(header) => DeliverPayload(header)
  /\ ES!Deliverable = Deliverable
  /\ \A texts : ES!Replies(texts) = Replies(texts)
BY DEF ES!ModemOnly, ModemOnly, ES!app, app, ES!program, program, ES!Refuse, Refuse,
       ES!StartSending, StartSending, ES!TakeByte, TakeByte, ES!DropByte, DropByte, ES!modem, modem,
       ES!Executes, Executes, ES!Answer, Answer, ES!Replies, Replies, ES!Quiet, Quiet,
       ES!Line, Line, ES!PayloadByte, PayloadByte, ES!DeliverPayload, DeliverPayload,
       ES!Bytes, Bytes, ES!Byte, Byte, ES!Drop, Drop, ES!Deliverable, Deliverable, ES!Lower, Lower

LEMMA CC1352P7ModemShares ==
  /\ CC!ModemOnly => ModemOnly
  /\ \A never : CC!Refuse(never) => Refuse(never)
  /\ \A accepts, texts : CC!StartSending(accepts, texts) => StartSending(accepts, texts)
  /\ \A sent, failed : CC!TakeByte(sent, failed) => TakeByte(sent, failed)
  /\ CC!DropByte => DropByte
  /\ \A text : CC!Executes(text) => Executes(text)
  /\ \A u : CC!Answer(u) => Answer(u)
  /\ \A header : CC!DeliverPayload(header) => DeliverPayload(header)
  /\ CC!Deliverable = Deliverable
  /\ \A texts : CC!Replies(texts) = Replies(texts)
BY DEF CC!ModemOnly, ModemOnly, CC!app, app, CC!program, program, CC!Refuse, Refuse,
       CC!StartSending, StartSending, CC!TakeByte, TakeByte, CC!DropByte, DropByte, CC!modem, modem,
       CC!Executes, Executes, CC!Answer, Answer, CC!Replies, Replies, CC!Quiet, Quiet,
       CC!Line, Line, CC!PayloadByte, PayloadByte, CC!DeliverPayload, DeliverPayload,
       CC!Bytes, Bytes, CC!Byte, Byte, CC!Drop, Drop, CC!Deliverable, Deliverable, CC!Lower, Lower

LEMMA EspressifModemStep ==
  ASSUME Good, Is("espressif"), ES!Modem
  PROVE  Good'
<1>1. ModemOnly
  BY EspressifModemShares DEF ES!Modem
<1>2. CASE ES!Refuse({"AT+RST", "AT+CWQAP", "AT+CGMM", "AT+GMR"})
  <2>1. Refuse({"AT+RST", "AT+CWQAP", "AT+CGMM", "AT+GMR"})
    BY <1>2, EspressifModemShares
  <2>2. ~Is("cc1352p7")
    BY DEF Is
  <2> QED
    BY <1>1, <2>1, <2>2, RefuseStep
<1>3. CASE ES!Acknowledge
  BY <1>1, <1>3, EspressifAcknowledgeStep
<1>4. CASE ES!JoinNetwork \/ ES!Close \/ ES!LeaveNetwork \/ ES!Restart
  BY <1>1, <1>4, JoinStep, EspressifModemCloses, LeaveStep, ModemRestartStep
<1>5. CASE ES!OpenFrom({"none", "closed"})
  <2> DEFINE links == {"none", "closed"}
  <2>1. /\ Executes("AT+CIPSTART") /\ prompt' = prompt /\ peerGot' = peerGot
        /\ IF link \in links THEN link' = "open" /\ inbox' = <<>> /\ Answer(Replies(<<"OK">>))
           ELSE link' = link /\ inbox' = inbox /\ Answer(Replies(<<"ERROR">>))
    BY <1>5, EspressifModemShares DEF ES!OpenFrom
  <2> HIDE DEF links
  <2> QED
    BY <1>1, <2>1, OpenStep
<1>6. CASE ES!StartSending({"open"}, <<"OK", ">">>)
  <2>1. StartSending({"open"}, <<"OK", ">">>)
    BY <1>6, EspressifModemShares
  <2>2. ">" \in Texts /\ "OK" \in Texts
    BY DEF Texts
  <2>3. /\ Replies(<<"OK", ">">>) \in Seq(Tokens)
        /\ Answering(Replies(<<"OK", ">">>), {"OK", ">"}, Finals(">"))
    BY <2>2, AnswersToOthers, RepliesAre, TwoReplies
  <2> HIDE DEF Replies
  <2> QED
    BY <1>1, <2>1, <2>3, StartSendingStep
<1>7. CASE ES!TakeByte(<<SentOk>>, <<SendFail>>)
  <2>1. TakeByte(<<SentOk>>, <<SendFail>>)
    BY <1>7, EspressifModemShares
  <2> QED
    BY <1>1, <2>1, EspressifConfirms, TakeByteStep
<1>8. CASE ES!DropByte
  BY <1>1, <1>8, EspressifModemShares, DropByteStep
<1>9. CASE ES!Fetch(ES!PayloadHeader)
  <2>1. ES!PayloadHeader = PayloadHeader(Deliverable)
    BY EspressifModemShares DEF ES!PayloadHeader, PayloadHeader, ES!Header, Header
  <2>2. /\ Executes("AT+CIPRECVDATA")
        /\ IF inbox # <<>> THEN DeliverPayload(PayloadHeader(Deliverable))
           ELSE /\ Answer(Replies(<<"ERROR">>))
                /\ link' = link /\ inbox' = inbox /\ prompt' = prompt /\ peerGot' = peerGot
    BY <1>9, <2>1, EspressifModemShares DEF ES!Fetch
  <2> QED
    BY <1>1, <2>2, FetchStep
<1>10. \/ ES!Refuse({"AT+RST", "AT+CWQAP", "AT+CGMM", "AT+GMR"}) \/ ES!Acknowledge
       \/ ES!JoinNetwork \/ ES!OpenFrom({"none", "closed"}) \/ ES!Close \/ ES!LeaveNetwork
       \/ ES!Restart \/ ES!StartSending({"open"}, <<"OK", ">">>)
       \/ ES!TakeByte(<<SentOk>>, <<SendFail>>) \/ ES!DropByte \/ ES!Fetch(ES!PayloadHeader)
  BY DEF ES!Modem, SentOk, SendFail
<1> QED
  BY <1>2, <1>3, <1>4, <1>5, <1>6, <1>7, <1>8, <1>9, <1>10

LEMMA CC1352P7ModemStep ==
  ASSUME Good, Is("cc1352p7"), CC!Modem
  PROVE  Good'
<1>1. ModemOnly
  BY CC1352P7ModemShares DEF CC!Modem
<1>2. CASE CC!Refuse({"AT+CIPCLOSE", "AT+CGMM"})
  <2>1. Refuse({"AT+CIPCLOSE", "AT+CGMM"})
    BY <1>2, CC1352P7ModemShares
  <2>2. ~Is("espressif")
    BY DEF Is
  <2> QED
    BY <1>1, <2>1, <2>2, RefuseStep
<1>3. CASE CC!Acknowledge \/ CC!Close
  BY <1>1, <1>3, CC1352P7AcknowledgeStep, CC1352P7ModemCloses
<1>4. CASE CC!OpenFrom(CC!Links \ {"open"})
  <2> DEFINE links == CC!Links \ {"open"}
  <2>1. /\ Executes("AT+CIPSTART") /\ prompt' = prompt /\ peerGot' = peerGot
        /\ IF link \in links THEN link' = "open" /\ inbox' = <<>> /\ Answer(Replies(<<"OK">>))
           ELSE link' = link /\ inbox' = inbox /\ Answer(Replies(<<"ERROR">>))
    BY <1>4, CC1352P7ModemShares DEF CC!OpenFrom
  <2> HIDE DEF links
  <2> QED
    BY <1>1, <2>1, OpenStep
<1>5. CASE CC!StartSending(CC!Links, <<">">>)
  <2>1. StartSending(CC!Links, <<">">>)
    BY <1>5, CC1352P7ModemShares
  <2>2. ">" \in Texts
    BY DEF Texts
  <2>3. /\ Replies(<<">">>) \in Seq(Tokens)
        /\ Answering(Replies(<<">">>), {"OK", ">"}, Finals(">"))
    BY <2>2, RepliesAre, OneReply
  <2> HIDE DEF Replies
  <2> QED
    BY <1>1, <2>1, <2>3, StartSendingStep
<1>6. CASE CC!TakeByte(<<"OK">>, <<SendFail, "OK">>)
  <2>1. TakeByte(<<"OK">>, <<SendFail, "OK">>)
    BY <1>6, CC1352P7ModemShares
  <2> QED
    BY <1>1, <2>1, CC1352P7Confirms, TakeByteStep
<1>7. CASE CC!DropByte
  BY <1>1, <1>7, CC1352P7ModemShares, DropByteStep
<1>8. CASE CC!Fetch(CC!PayloadHeader)
  <2>1. CC!PayloadHeader = PayloadHeader(Deliverable)
    BY CC1352P7ModemShares DEF CC!PayloadHeader, PayloadHeader, CC!Line, Line, Is
  <2>2. /\ Executes("AT+CIPRECVDATA")
        /\ IF inbox # <<>> THEN DeliverPayload(PayloadHeader(Deliverable))
           ELSE /\ Answer(Replies(<<"ERROR">>))
                /\ link' = link /\ inbox' = inbox /\ prompt' = prompt /\ peerGot' = peerGot
    BY <1>8, <2>1, CC1352P7ModemShares DEF CC!Fetch
  <2> QED
    BY <1>1, <2>2, FetchStep
<1>9. \/ CC!Refuse({"AT+CIPCLOSE", "AT+CGMM"}) \/ CC!Acknowledge
      \/ CC!OpenFrom(CC!Links \ {"open"}) \/ CC!Close \/ CC!StartSending(CC!Links, <<">">>)
      \/ CC!TakeByte(<<"OK">>, <<SendFail, "OK">>) \/ CC!DropByte \/ CC!Fetch(CC!PayloadHeader)
  BY DEF CC!Modem, SendFail
<1> QED
  BY <1>2, <1>3, <1>4, <1>5, <1>6, <1>7, <1>8, <1>9

(* Notices come at the end of what is on its way.                            *)
LEMMA NoticesCome ==
  ASSUME Good, DriverKept, rx' = rx, tx' = tx, prompt' = prompt, line = <<>>,
         NEW u \in Seq(Tokens), AllNotices(u), line' = line \o u,
         NEW p \in Nat, NEW m \in Nat, Exchange(p, m)
  PROVE  Exchange(p, m)' /\ line' \in Seq(Tokens)
<1>1. rx \in Seq(Tokens)
  BY DEF Good, Typed
<1>2. line' = u
  BY ConcatEmptySeq
<1>3. Stream = rx /\ Stream' = Stream \o u /\ Stream \in Seq(Tokens)
  <2>1. Stream = rx
    BY <1>1, ConcatEmptySeq DEF Stream
  <2> QED
    BY <1>1, <1>2, <2>1 DEF Stream
<1>4. AllNotices(Stream) => AllNotices(Stream')
  BY <1>3, AddToNotices
<1>5. ASSUME NEW texts, NEW r \in Awaited, Answering(Stream, texts, Finals(r))
      PROVE  Answering(Stream', texts, Finals(r))
  BY <1>3, <1>5, AddToAnswer, NoFinalNotices
<1>6. Answering(Stream, {"ERROR"}, Errors) => Answering(Stream', {"ERROR"}, Errors)
  <2>1. Notices \cap Errors = {}
    BY DEF Notices, Errors
  <2> QED
    BY <1>3, <2>1, AddToAnswer
<1>7. Seen \in Int
  BY DEF Seen, Good, Typed
<1>8. \A q \in Nat : Payload(Stream, PayloadHeader(m), q, m, Seen) =>
                       Payload(Stream', PayloadHeader(m), q, m, Seen)
  BY <1>3, <1>7, AddToPayload
<1>9. AllNotices(Stream)' <=> AllNotices(Stream')
  BY DEF AllNotices
<1>10. dev' = dev
  BY DEF DriverKept
<1>11. Quieted' <=> Quieted
  BY KeptWords DEF Quieted
<1>12. ASSUME Resting PROVE Resting'
  BY <1>4, <1>9, <1>10, <1>12, KeptWords DEF Resting
<1>13. ASSUME Asking PROVE Asking'
  <2>1. \A r : Commands(r)' = Commands(r)
    BY <1>10, SameWords DEF DriverKept
  <2>2. Commands(reply)' = Commands(reply)
    BY <2>1, KeptWords DEF Commands, Is, DriverKept
  <2> QED
    BY <1>4, <1>9, <1>10, <1>11, <1>13, <2>2, KeptWords DEF Asking
<1>14. ASSUME Replied PROVE Replied'
  <2>1. Answering(Stream', Answers(reply), Finals(reply))
    BY <1>5, <1>14 DEF Replied
  <2>2. Answering(Stream', Answers(reply)', Finals(reply)')
    BY <2>1, KeptWords
  <2> QED
    BY <1>10, <1>11, <1>14, <2>2, KeptWords DEF Replied
<1>15. ASSUME Prompting PROVE Prompting'
  <2>1. ">" \in Awaited
    BY DEF Awaited
  <2>2. Answering(Stream', {"OK", ">"}, Finals(">"))
    BY <1>5, <1>15, <2>1 DEF Prompting
  <2>3. Answering(Stream', {"OK", ">"}, Finals(">")')
    BY <2>2, KeptWords
  <2> QED
    BY <1>10, <1>15, <2>3, KeptWords DEF Prompting
<1>16. ASSUME Sending PROVE Sending'
  BY <1>4, <1>9, <1>10, <1>16, KeptWords DEF Sending
<1>17. ASSUME Refused PROVE Refused'
  <2>1. Answering(Stream', {"ERROR"}, Errors')
    BY <1>6, <1>17, KeptWords DEF Refused
  <2> QED
    BY <1>4, <1>9, <1>10, <1>17, <2>1, KeptWords DEF Refused
<1>18. ASSUME Dropping PROVE Dropping'
  BY <1>4, <1>9, <1>10, <1>18, KeptWords DEF Dropping
<1>19. ASSUME Fetched(p, m) PROVE Fetched(p, m)'
  <2>1. Payload(Stream', PayloadHeader(m)', p, m, Seen')
    BY <1>8, <1>19, KeptWords DEF Fetched
  <2> QED
    BY <1>10, <1>11, <1>19, <2>1, KeptWords DEF Fetched
<1>20. ASSUME Receiving(m) PROVE Receiving(m)'
  <2>1. Payload(Stream', PayloadHeader(m)', 0, m, Seen')
    BY <1>8, <1>20, KeptWords DEF Receiving
  <2> QED
    BY <1>10, <1>11, <1>20, <2>1, KeptWords DEF Receiving
<1> QED
  BY <1>2, <1>12, <1>13, <1>14, <1>15, <1>16, <1>17, <1>18, <1>19, <1>20 DEF Exchange

(* What the network does while a connection is open.                         *)
LEMMA NetworkTurn ==
  ASSUME Good, NetworkOnly, prompt' = prompt, line = <<>>, link = "open",
         link' \in {"open", "closed"}, NEW u \in Seq(Tokens), AllNotices(u), line' = line \o u,
         inbox' \in Seq(Int), down' \in Nat, \A m \in Nat : Down(m) => Down(m)'
  PROVE  Good'
<1>1. PICK p \in Nat, m \in Nat : Exchange(p, m) /\ Down(m)
  BY DEF Good, Talk
<1>2. DriverKept /\ rx' = rx /\ tx' = tx /\ peerGot' = peerGot
  BY DEF NetworkOnly, DriverKept, driver, app, program
<1>3. Exchange(p, m)' /\ line' \in Seq(Tokens)
  BY <1>1, <1>2, NoticesCome
<1>4. Down(m)'
  BY <1>1
<1>5. Life'
  BY <1>2, LifeOpen DEF Asked
<1>6. Typed'
  BY <1>2, <1>3 DEF Good, Typed, DriverKept
<1>7. Up'
  <2>1. Carried' = Carried
    BY <1>2 DEF Carried
  <2>2. Lost => Lost'
    BY KeptWords, <1>2 DEF Lost
  <2> QED
    BY <1>2, <2>1, <2>2, UpKept DEF Good, Talk, DriverKept
<1> QED
  BY <1>2, <1>3, <1>4, <1>5, <1>6, <1>7, KeptTurn

LEMMA DataArrivesStep ==
  ASSUME Good, NetworkOnly, DataArrives(<<Line("+IPD", Len(inbox'))>>)
  PROVE  Good'
<1>1. /\ line = <<>> /\ link = "open" /\ link' = link /\ prompt' = prompt /\ down' = down + 1
      /\ inbox' = Append(inbox, down + 1) /\ line' = line \o <<Line("+IPD", Len(inbox'))>>
  BY DEF DataArrives, Quiet, Answer
<1>2. DriverKept
  BY DEF NetworkOnly, DriverKept, driver, app, program
<1>3. inbox \in Seq(Int) /\ Len(inbox) \in Nat /\ down \in Nat /\ Seen \in Int
  BY DEF Seen, Good, Typed
<1>4. inbox' \in Seq(Int) /\ Len(inbox') \in Int
  BY <1>1, <1>3, AppendProperties
<1>5. <<Line("+IPD", Len(inbox'))>> \in Seq(Tokens) /\ AllNotices(<<Line("+IPD", Len(inbox'))>>)
  <2> DEFINE n == Len(inbox')
             c == Line("+IPD", n)
  <2>1. "+IPD" \in Texts /\ "+IPD" \in Notices
    BY DEF Texts, Notices
  <2>2. c \in Tokens /\ c.kind = "line" /\ c.text = "+IPD"
    BY <1>4, <2>1, LineIsToken
  <2> HIDE DEF c
  <2>3. <<c>> \in Seq(Tokens) /\ Len(<<c>>) = 1 /\ <<c>>[1] = c
    BY <2>2, Singleton
  <2>4. AllNotices(<<c>>)
    BY <2>1, <2>2, <2>3 DEF AllNotices, IsNotice
  <2> QED
    BY <2>3, <2>4 DEF c
<1>6. ASSUME NEW m \in Nat, Down(m) PROVE Down(m)'
  <2>1. down = Seen + m + Len(inbox) /\ Numbered(inbox, Seen + m)
    BY <1>1, <1>6 DEF Down
  <2>2. down + 1 \in Int /\ down + 1 = (Seen + m) + Len(inbox) + 1 /\ Seen + m \in Int
    BY <1>3, <2>1
  <2>3. Len(inbox') = Len(inbox) + 1 /\ Numbered(inbox', Seen + m)
    BY <1>1, <1>3, <2>1, <2>2, NumberedAppend
  <2>4. down' = Seen + m + Len(inbox')
    BY <1>1, <1>3, <2>1, <2>3
  <2>5. Seen' = Seen
    BY <1>2, KeptWords
  <2>6. Numbered(got, 0)' /\ Numbered(dev.readBuffer, Len(got))'
    BY <1>2, <1>6 DEF Down, Numbered, DriverKept
  <2> QED
    BY <1>1, <2>3, <2>4, <2>5, <2>6 DEF Down
<1>7. down' \in Nat
  BY <1>1, <1>3
<1> QED
  BY <1>1, <1>4, <1>5, <1>6, <1>7, NetworkTurn

LEMMA PeerClosesStep ==
  ASSUME Good, NetworkOnly, PeerCloses("CLOSED")
  PROVE  Good'
<1>1. /\ line = <<>> /\ link = "open" /\ link' = "closed" /\ prompt' = prompt /\ down' = down
      /\ inbox' = inbox /\ line' = line \o Replies(<<"CLOSED">>)
  BY DEF PeerCloses, Quiet, Answer
<1>2. Replies(<<"CLOSED">>) \in Seq(Tokens) /\ AllNotices(Replies(<<"CLOSED">>))
  <2>1. "CLOSED" \in Notices
    BY DEF Notices
  <2> QED
    BY <2>1, NoticeReply
<1>3. ASSUME NEW m \in Nat, Down(m) PROVE Down(m)'
  BY <1>1, <1>3 DEF Down, Numbered, Seen, NetworkOnly, driver, app
<1>4. inbox' \in Seq(Int) /\ down' \in Nat
  BY <1>1 DEF Good, Typed
<1> HIDE DEF Replies
<1> QED
  BY <1>1, <1>2, <1>3, <1>4, NetworkTurn

LEMMA EspressifNetworkStep ==
  ASSUME Covered, Good, Is("espressif"), ES!Network, ~discarded'
  PROVE  Good'
<1>1. scenario.type # "UDP"
  BY DEF Covered, Is
<1>2. \A links, notices : ~ES!ContextLost(links, notices)
  BY DEF ES!ContextLost
<1>3. ES!NetworkOnly /\ (ES!DataArrives(ES!Notice(inbox')) \/ ES!PeerCloses("CLOSED"))
  BY <1>1, <1>2 DEF ES!Network
<1>4. NetworkOnly
  BY <1>3 DEF ES!NetworkOnly, NetworkOnly, ES!driver, driver, ES!app, app, ES!program, program
<1>5. DataArrives(<<Line("+IPD", Len(inbox'))>>) \/ PeerCloses("CLOSED")
  BY <1>3 DEF ES!DataArrives, DataArrives, ES!Quiet, Quiet, ES!Requested, Requested, ES!Answer,
              Answer, ES!PeerCloses, PeerCloses, ES!Answered, Answered, ES!Replies, Replies,
              ES!Line, Line, ES!Notice
<1> QED
  BY <1>4, <1>5, DataArrivesStep, PeerClosesStep

LEMMA CC1352P7NetworkStep ==
  ASSUME Good, CC!Network
  PROVE  Good'
<1>1. CC!NetworkOnly /\ (CC!DataArrives(CC!Notice(inbox')) \/ CC!PeerCloses("CLOSED"))
  BY DEF CC!Network
<1>2. NetworkOnly
  BY <1>1 DEF CC!NetworkOnly, NetworkOnly, CC!driver, driver, CC!app, app, CC!program, program
<1>3. DataArrives(<<Line("+IPD", Len(inbox'))>>) \/ PeerCloses("CLOSED")
  BY <1>1 DEF CC!DataArrives, DataArrives, CC!Quiet, Quiet, CC!Requested, Requested, CC!Answer,
              Answer, CC!PeerCloses, PeerCloses, CC!Answered, Answered, CC!Replies, Replies,
              CC!Line, Line, CC!Notice
<1> QED
  BY <1>2, <1>3, DataArrivesStep, PeerClosesStep

(* The UART takes the first token of what the modem says.                    *)
LEMMA UartStep ==
  ASSUME Good, Uart
  PROVE  Good'
<1>1. PICK p \in Nat, m \in Nat : Exchange(p, m) /\ Down(m)
  BY DEF Good, Talk
<1>2. /\ DriverKept /\ tx' = tx /\ prompt' = prompt /\ link' = link /\ inbox' = inbox
      /\ down' = down /\ peerGot' = peerGot
      /\ line # <<>> /\ rx' = Append(rx, Head(line)) /\ line' = Tail(line)
  BY DEF Uart, DriverKept, app, program
<1>3. rx' \in Seq(Tokens) /\ line' \in Seq(Tokens) /\ Stream' = Stream
  BY <1>2, StreamFlows DEF Good, Typed, Stream
<1>4. Unspoken
  BY <1>2, <1>3, KeptWords DEF Unspoken, DriverKept
<1>5. Exchange(p, m)'
  BY <1>1, <1>4, UnspokenStep
<1>6. Down(m)'
  BY <1>1, <1>2, DownKept DEF DriverKept
<1>7. Typed'
  BY <1>2, <1>3 DEF Good, Typed, DriverKept
<1>8. Up'
  <2>1. Carried' = Carried
    BY <1>2 DEF Carried
  <2>2. Lost => Lost'
    BY <1>2, KeptWords DEF Lost
  <2> QED
    BY <1>2, <2>1, <2>2, UpKept DEF Good, Talk, DriverKept
<1>9. Life'
  <2>1. Zero' <=> Zero
    BY <1>2 DEF Zero, DriverKept
  <2>2. Asked' = Asked
    BY <1>2 DEF Asked
  <2>3. Denied => Denied'
    BY <1>2, <1>3, <2>2, KeptWords DEF Denied
  <2>4. Fresh => Fresh'
    BY <1>2, <2>1, <2>2 DEF Fresh, DriverKept, Is, Fetching, IsConnected, Has, Closed
  <2>5. Opening => Opening'
    BY <1>2, <2>1, <2>2, <2>3 DEF Opening, DriverKept, Is, Fetching, IsConnected, Has
  <2>6. Active => Active'
    BY <1>2, <2>2 DEF Active, DriverKept, Has
  <2>7. Over => Over'
    BY <1>2, <2>2 DEF Over, DriverKept, Has, Closed, Fetching, Is
  <2> QED
    BY <2>4, <2>5, <2>6, <2>7 DEF Good, Life
<1> QED
  BY <1>2, <1>5, <1>6, <1>7, <1>8, <1>9, KeptTurn

-----------------------------------------------------------------------------
(* The calls of the application.                                             *)

Called ==
  /\ scenario' = scenario /\ step = "off" /\ step' = "off" /\ rx' = rx /\ tx' = tx
  /\ serialOpen' = serialOpen /\ link' = link /\ inbox' = inbox /\ prompt' = prompt
  /\ line' = line /\ down' = down /\ peerGot' = peerGot /\ detector' = detector
  /\ DOMAIN dev' = Fields
  /\ dev'.connectState = dev.connectState /\ reply' = reply /\ dev'.type = dev.type
  /\ dev'.lbFill = dev.lbFill /\ dev'.sendState = dev.sendState
  /\ dev'.replyState = dev.replyState /\ dev'.bytesToWrite = dev.bytesToWrite
  /\ dev'.bytesToReceive = dev.bytesToReceive /\ dev'.bytesToRead = dev.bytesToRead
  /\ (Restarting' <=> Restarting) /\ (Has(dev', "LINE_READ") <=> Has(dev, "LINE_READ"))
  /\ ~Has(dev', "DISCONNECT_PENDING")

LEMMA CalledTurn ==
  ASSUME Good, Called, Seen' = Seen, Typed', Unasked', Life', Up',
         \A m \in Nat : Down(m) => Down(m)'
  PROVE  Good'
<1>1. PICK p \in Nat, m \in Nat : Exchange(p, m) /\ Down(m)
  BY DEF Good, Talk
<1>2. Unspoken
  <2>1. Fetching' <=> Fetching
    BY DEF Called, Fetching, Is
  <2>2. Prompted' = Prompted
    BY DEF Called, Prompted
  <2>3. Stream' = Stream
    BY DEF Called, Stream
  <2> QED
    BY <2>1, <2>2, <2>3 DEF Called, Unspoken
<1>3. Exchange(p, m)' /\ Down(m)'
  BY <1>1, <1>2, UnspokenStep
<1>4. Steady'
  BY DEF Good, Called, Steady, Flags, Waiting, Resets, NeverResets, Is, Fetching, reply, Has
<1> QED
  BY <1>3, <1>4 DEF Good, Talk, Called

(* A call that leaves the data of the driver alone too.                      *)
LEMMA CalledSilent ==
  ASSUME Good, Called, dev'.readBuffer = dev.readBuffer, dev'.writeBuffer = dev.writeBuffer,
         up' = up, got' = got, requests' \in Nat, connects' \in {0, 1}, Unasked', Life'
  PROVE  Good'
<1>1. Seen' = Seen
  BY DEF Seen
<1>2. Typed'
  BY DEF Good, Typed, Called
<1>3. Up'
  <2>1. Carried' = Carried
    BY DEF Carried, Called
  <2>2. Lost => Lost'
    BY DEF Lost, Called, NeverResets, Is
  <2> QED
    BY <2>1, <2>2, UpKept DEF Good, Talk, Called
<1>4. \A m \in Nat : Down(m) => Down(m)'
  BY DownKept DEF Called
<1> QED
  BY <1>1, <1>2, <1>3, <1>4, CalledTurn

LEMMA CalledLife ==
  ASSUME Good, Called, connects' = connects,
         Has(dev', "CONNECT_PENDING") <=> Has(dev, "CONNECT_PENDING"),
         Zero => Zero', dev.sendState = "sendDataState" =>
                          Len(dev.writeBuffer) <= Len(dev'.writeBuffer),
         Len(dev'.writeBuffer) \in Nat
  PROVE  Life'
<1>1. /\ Asked' = Asked /\ (Fetching' <=> Fetching) /\ (IsConnected(dev)' <=> IsConnected(dev))
      /\ (Is("cc1352p7")' <=> Is("cc1352p7"))
  BY DEF Called, Asked, Fetching, IsConnected, Is
<1>2. Denied => Denied'
  <2>1. Stream' = Stream
    BY DEF Called, Stream
  <2> QED
    BY <1>1, <2>1 DEF Denied, Called
<1>3. Fresh => Fresh'
  BY <1>1 DEF Fresh, Called, Closed
<1>4. Opening => Opening'
  BY <1>1, <1>2 DEF Opening, Called
<1>5. Active => Active'
  <2>1. Len(dev.writeBuffer) \in Nat /\ dev.bytesToWrite \in Int
    BY LenProperties DEF Good, Typed
  <2> QED
    BY <1>1, <2>1 DEF Active, Called
<1>6. Over => Over'
  BY <1>1 DEF Over, Called, Closed
<1> QED
  BY <1>3, <1>4, <1>5, <1>6 DEF Good, Life

LEMMA ConnectStep ==
  ASSUME Covered, Good, Connect, ApplicationOnly
  PROVE  Good'
<1>1. connects = 0 /\ connects' = 1
  BY DEF Connect, Covered, Good, Typed
<1>2. dev' = [dev EXCEPT !.stateBooleans = (@ \ {"DISCONNECT_PENDING"}) \cup {"CONNECT_PENDING"}]
  BY DEF Connect, CallDriver, Connected, Raise, Lift, Good, Typed, Fields
<1>3. /\ Called /\ dev'.readBuffer = dev.readBuffer /\ dev'.writeBuffer = dev.writeBuffer
      /\ dev'.rssi = dev.rssi /\ dev'.idRequest = dev.idRequest
      /\ up' = up /\ got' = got /\ requests' = requests
  BY <1>2 DEF Connect, CallDriver, ApplicationOnly, Called, Good, Typed, Fields, modem, program,
              reply, Restarting, Has
<1>4. Fresh
  BY <1>1 DEF Good, Life, Opening, Active, Over
<1>5. Fresh'
  <2>1. Asked' = Asked /\ (Fetching' <=> Fetching) /\ (IsConnected(dev)' <=> IsConnected(dev))
    BY <1>3 DEF Called, Asked, Fetching, IsConnected, Is
  <2>2. Zero'
    BY <1>3, <1>4 DEF Called, Zero, Fresh
  <2> QED
    BY <1>1, <1>3, <1>4, <2>1, <2>2 DEF Called, Fresh, Is, Closed
<1>6. Unasked'
  BY <1>3 DEF Called, Unasked, Good, Steady
<1> QED
  BY <1>1, <1>3, <1>5, <1>6, CalledSilent DEF Life, Good, Typed

LEMMA DisconnectStep ==
  ASSUME Good, Disconnect, ApplicationOnly, ~discarded'
  PROVE  Good'
<1>1. dev' = dev
  BY DEF Disconnect, CallDriver, Disconnected
<1>2. Called /\ up' = up /\ got' = got /\ requests' = requests /\ connects' = connects
  BY <1>1 DEF Disconnect, CallDriver, ApplicationOnly, Called, Good, Typed, modem, program,
              reply, Restarting, Has, Steady, Flags
<1>3. Zero => Zero'
  BY <1>1, <1>2 DEF Zero, Called
<1>4. Life'
  <2>1. Len(dev.writeBuffer) \in Nat
    BY LenProperties DEF Good, Typed
  <2> QED
    BY <1>1, <1>2, <1>3, <2>1, CalledLife DEF Has
<1>5. Unasked'
  BY <1>1, <1>2 DEF Called, Unasked, Good, Steady
<1> QED
  BY <1>1, <1>2, <1>4, <1>5, CalledSilent DEF Good, Typed

(* A request for the signal or for the MAC address.                          *)
LEMMA RequestTurn ==
  ASSUME Covered, Good, ApplicationOnly, requests < scenario.maxRequests,
         requests' = requests + 1, step = "off", step' = "off", rx' = rx, tx' = tx,
         serialOpen' = serialOpen, modem' = modem, connects' = connects, up' = up, got' = got,
         down' = down, peerGot' = peerGot, DOMAIN dev' = Fields,
         \A f \in Fields \ {"rssi", "idRequest", "idType", "idString"} : dev'[f] = dev[f]
  PROVE  Good'
<1>1. /\ dev'.readBuffer = dev.readBuffer /\ dev'.writeBuffer = dev.writeBuffer
      /\ dev'.stateBooleans = dev.stateBooleans /\ dev'.connectState = dev.connectState
      /\ dev'.waitForReply = dev.waitForReply /\ dev'.type = dev.type
      /\ dev'.lbFill = dev.lbFill /\ dev'.sendState = dev.sendState
      /\ dev'.replyState = dev.replyState /\ dev'.bytesToWrite = dev.bytesToWrite
      /\ dev'.bytesToReceive = dev.bytesToReceive /\ dev'.bytesToRead = dev.bytesToRead
  BY DEF Fields
<1>2. Called
  BY <1>1 DEF ApplicationOnly, Called, modem, program, reply, Restarting, Has, Good, Steady, Flags
<1>3. Zero => Zero'
  BY <1>1, <1>2 DEF Zero, Called
<1>4. Life'
  <2>1. Len(dev.writeBuffer) \in Nat
    BY LenProperties DEF Good, Typed
  <2> QED
    BY <1>1, <1>2, <1>3, <2>1, CalledLife DEF Has
<1>5. scenario.maxRequests # 0
  BY DEF Good, Typed
<1>6. Unasked'
  BY <1>1, <1>2, <1>5 DEF Called, Unasked, Good, Steady
<1>7. requests' \in Nat
  BY DEF Good, Typed
<1> QED
  BY <1>1, <1>2, <1>4, <1>6, <1>7, CalledSilent DEF Good, Typed

LEMMA RequestSignalStep ==
  ASSUME Covered, Good, RequestSignal, ApplicationOnly
  PROVE  Good'
<1>1. dev' = [dev EXCEPT !.rssi = "requested"]
  BY DEF RequestSignal, CallDriver, RequestRSSI
<1>2. /\ DOMAIN dev' = Fields
      /\ \A f \in Fields \ {"rssi", "idRequest", "idType", "idString"} : dev'[f] = dev[f]
  BY <1>1 DEF Good, Typed
<1> QED
  BY <1>2, RequestTurn DEF RequestSignal, CallDriver

LEMMA RequestIDStep ==
  ASSUME Covered, Good, RequestID({"mac"}), ApplicationOnly
  PROVE  Good'
<1>1. dev' = [dev EXCEPT !.idString = NoText, !.idRequest = "mac", !.idType = "mac"]
  BY Zenon DEF RequestID, CallDriver, RequestIDString, NoText
<1>2. /\ DOMAIN dev' = Fields
      /\ \A f \in Fields \ {"rssi", "idRequest", "idType", "idString"} : dev'[f] = dev[f]
  BY <1>1 DEF Good, Typed
<1>3. /\ requests < scenario.maxRequests /\ requests' = requests + 1
      /\ step = "off" /\ step' = "off" /\ rx' = rx /\ tx' = tx /\ serialOpen' = serialOpen
      /\ modem' = modem /\ connects' = connects /\ up' = up /\ got' = got
      /\ down' = down /\ peerGot' = peerGot
  BY Zenon DEF RequestID, CallDriver
<1> QED
  BY <1>2, <1>3, RequestTurn

LEMMA WriteStep ==
  ASSUME Good, NEW n \in 1 .. 2, Write(n), ApplicationOnly
  PROVE  Good'
<1> DEFINE w == dev.writeBuffer
           data == [k \in 1 .. n |-> up + k]
           c == Lower(Len(data), SpaceFor(dev))
           new == SubSeq(data, 1, c)
<1>1. w \in Seq(Int) /\ Len(w) \in Nat /\ up \in Nat /\ Len(peerGot) \in Nat
  BY LenProperties DEF Good, Typed
<1>2. data \in Seq(Int) /\ Len(data) = n /\ Numbered(data, up)
  <2>1. data \in [1 .. n -> Int]
    BY <1>1
  <2>2. data \in Seq(Int) /\ Len(data) = n
    BY <2>1
  <2>3. \A k \in 1 .. n : data[k] = up + k
    OBVIOUS
  <2> HIDE DEF data
  <2> QED
    BY <2>2, <2>3 DEF Numbered
<1>3. dev' = [dev EXCEPT !.writeBuffer = w \o new]
  BY DEF Write, CallDriver, Written, Good, Typed, Fields
<1>4. c \in 1 .. n
  <2>1. SpaceFor(dev) \in Int /\ SpaceFor(dev) > 0
    BY <1>1, BufferSizesAssumption DEF Write, SpaceFor
  <2> QED
    BY <2>1, <1>2 DEF Lower
<1> HIDE DEF data, c
<1>5. new \in Seq(Int) /\ Len(new) = c /\ Numbered(new, up)
  <2>1. c \in 0 .. Len(data) /\ up \in Int
    BY <1>1, <1>2, <1>4
  <2> QED
    BY <1>2, <2>1, NumberedDrop
<1> HIDE DEF new
<1>6. w \o new \in Seq(Int) /\ Len(w \o new) = Len(w) + c
  BY <1>1, <1>5, ConcatProperties
<1>7. /\ DOMAIN dev' = Fields /\ dev'.writeBuffer = w \o new
      /\ \A f \in Fields \ {"writeBuffer"} : dev'[f] = dev[f]
  BY <1>3 DEF Good, Typed, Fields
<1>8. up' = up + c
  <2> DEFINE before == Len(w)
             after == Len(w \o new)
  <2>1. up' = up + after - before
    BY <1>7 DEF Write
  <2>2. before \in Nat /\ after = before + c /\ c \in Int
    BY <1>1, <1>4, <1>6
  <2> HIDE DEF before, after
  <2> QED
    BY <1>1, <2>1, <2>2
<1>9. /\ dev'.readBuffer = dev.readBuffer
      /\ dev'.stateBooleans = dev.stateBooleans /\ dev'.connectState = dev.connectState
      /\ dev'.waitForReply = dev.waitForReply /\ dev'.type = dev.type
      /\ dev'.lbFill = dev.lbFill /\ dev'.sendState = dev.sendState
      /\ dev'.replyState = dev.replyState /\ dev'.bytesToWrite = dev.bytesToWrite
      /\ dev'.bytesToReceive = dev.bytesToReceive /\ dev'.bytesToRead = dev.bytesToRead
      /\ dev'.rssi = dev.rssi /\ dev'.idRequest = dev.idRequest
  BY <1>7 DEF Fields
<1>10. Called /\ got' = got /\ requests' = requests /\ connects' = connects
  BY <1>7, <1>9 DEF Write, CallDriver, ApplicationOnly, Called, modem, program, reply, Restarting,
                    Has, Good, Steady, Flags
<1>11. Life'
  <2>1. dev.connectState = "connected"
    BY DEF Write, SpaceFor
  <2>2. ~Fresh /\ ~Opening
    BY <2>1 DEF Fresh, Opening, IsConnected
  <2>3. Active => Active'
    BY <1>1, <1>4, <1>6, <1>7, <1>9, <1>10 DEF Active, Called, Has, Asked, Good, Typed
  <2>4. Over => Over'
    BY <1>9, <1>10 DEF Over, Called, Has, Asked, Closed, Fetching, Is
  <2> QED
    BY <2>2, <2>3, <2>4 DEF Good, Life
<1>12. Unasked'
  <2>1. scenario.maxUp # 0
    BY <1>1 DEF Write
  <2> QED
    BY <1>9, <1>10, <2>1 DEF Called, Unasked, Good, Steady
<1>13. Typed'
  BY <1>4, <1>6, <1>7, <1>8, <1>9, <1>10 DEF Good, Typed, Called
<1>14. Up'
  <2>1. Lost => Lost'
    BY <1>9, <1>10 DEF Lost, Called, NeverResets, Is
  <2>2. Carried' = Carried
    BY <1>10 DEF Carried, Called
  <2>3. Carried \in Nat
    BY LenProperties DEF Carried, Good, Typed
  <2>4. ASSUME UpComplete PROVE UpComplete'
    <3> DEFINE base == Len(peerGot) + Carried
    <3>1. base \in Int /\ up = base + Len(w) /\ Numbered(w, base)
      BY <2>3, <2>4, <1>1 DEF UpComplete
    <3> HIDE DEF base
    <3>2. Numbered(w \o new, base)
      BY <3>1, <1>1, <1>5, NumberedConcat
    <3>3. up' = base + Len(dev'.writeBuffer)
      <4>1. Len(dev'.writeBuffer) = Len(w) + c /\ c \in Int
        BY <1>4, <1>6, <1>7
      <4> DEFINE before == Len(w)
      <4>2. before \in Int /\ up = base + before /\ Len(dev'.writeBuffer) = before + c
        BY <1>1, <3>1, <4>1
      <4> HIDE DEF before
      <4> QED
        BY <1>8, <3>1, <4>1, <4>2
    <3>4. Numbered(dev'.writeBuffer, base)
      BY <3>2, <1>7
    <3>5. peerGot' = peerGot /\ tx' = tx
      BY <1>10 DEF Called
    <3> QED
      BY <3>3, <3>4, <3>5, <2>2, <2>4 DEF base, UpComplete, Numbered
  <2>5. Numbered(peerGot, 0)' /\ Len(peerGot)' <= up'
    BY <1>1, <1>4, <1>8, <1>10 DEF Good, Talk, Up, Called, Numbered
  <2> QED
    BY <2>1, <2>4, <2>5 DEF Good, Talk, Up
<1>15. Seen' = Seen
  BY <1>9, <1>10 DEF Seen
<1>16. \A m \in Nat : Down(m) => Down(m)'
  BY <1>9, <1>10, DownKept DEF Called
<1> QED
  BY <1>10, <1>11, <1>12, <1>13, <1>14, <1>15, <1>16, CalledTurn

LEMMA ReadStep ==
  ASSUME Good, NEW n \in 1 .. 2, Read(n), ApplicationOnly
  PROVE  Good'
<1> DEFINE r == dev.readBuffer
           c == Lower(n, Len(r))
           out == SubSeq(r, 1, c)
           rest == Drop(r, c)
<1>1. r \in Seq(Int) /\ Len(r) \in Nat /\ got \in Seq(Int) /\ Len(got) \in Nat
  BY LenProperties DEF Good, Typed
<1>2. c \in 0 .. Len(r)
  BY <1>1 DEF Lower
<1>3. /\ dev' = [dev EXCEPT !.readBuffer = rest] /\ got' = got \o out
  BY DEF Read, CallDriver, AfterRead, ReadData, Good, Typed, Fields
<1> HIDE DEF c
<1>4. PICK k \in Nat : Down(k)
  BY DEF Good, Talk
<1>5. Numbered(got, 0) /\ Numbered(r, Len(got)) /\ Len(got) \in Int
  BY <1>1, <1>4 DEF Down
<1>6. /\ rest \in Seq(Int) /\ Len(rest) = Len(r) - c /\ Numbered(rest, Len(got) + c)
      /\ out \in Seq(Int) /\ Len(out) = c /\ Numbered(out, Len(got))
  BY <1>1, <1>2, <1>5, NumberedDrop
<1> HIDE DEF out, rest
<1>7. got' \in Seq(Int) /\ Len(got') = Len(got) + c /\ Numbered(got', 0)
  <2>1. Numbered(out, 0 + Len(got))
    <3>1. 0 + Len(got) = Len(got)
      BY <1>1
    <3> QED
      BY <3>1, <1>6
  <2>2. 0 \in Int
    OBVIOUS
  <2>3. /\ got \o out \in Seq(Int) /\ Len(got \o out) = Len(got) + Len(out)
        /\ Numbered(got \o out, 0)
    BY <2>1, <2>2, <1>1, <1>5, <1>6, NumberedConcat
  <2> QED
    BY <2>3, <1>3, <1>6
<1>8. /\ DOMAIN dev' = Fields /\ dev'.readBuffer = rest
      /\ \A f \in Fields \ {"readBuffer"} : dev'[f] = dev[f]
  BY <1>3 DEF Good, Typed, Fields
<1>9. /\ dev'.writeBuffer = dev.writeBuffer
      /\ dev'.stateBooleans = dev.stateBooleans /\ dev'.connectState = dev.connectState
      /\ dev'.waitForReply = dev.waitForReply /\ dev'.type = dev.type
      /\ dev'.lbFill = dev.lbFill /\ dev'.sendState = dev.sendState
      /\ dev'.replyState = dev.replyState /\ dev'.bytesToWrite = dev.bytesToWrite
      /\ dev'.bytesToReceive = dev.bytesToReceive /\ dev'.bytesToRead = dev.bytesToRead
      /\ dev'.rssi = dev.rssi /\ dev'.idRequest = dev.idRequest
  BY <1>8 DEF Fields
<1>10. Called /\ up' = up /\ requests' = requests /\ connects' = connects
  BY <1>8, <1>9 DEF Read, CallDriver, ApplicationOnly, Called, modem, program, reply, Restarting,
                    Has, Good, Steady, Flags
<1>11. Life'
  <2>1. ~Zero
    BY DEF Read, Zero
  <2>2. Len(dev.writeBuffer) \in Nat
    BY LenProperties DEF Good, Typed
  <2> QED
    BY <1>9, <1>10, <2>1, <2>2, CalledLife DEF Has
<1>12. Unasked'
  BY <1>9, <1>10 DEF Called, Unasked, Good, Steady
<1>13. Typed'
  BY <1>6, <1>7, <1>8, <1>9, <1>10 DEF Good, Typed, Called
<1>14. Up'
  <2>1. Carried' = Carried
    BY <1>10 DEF Carried, Called
  <2>2. Lost => Lost'
    BY <1>9, <1>10 DEF Lost, Called, NeverResets, Is
  <2> QED
    BY <1>9, <1>10, <2>1, <2>2, UpKept DEF Good, Talk, Called
<1>15. Seen' = Seen
  <2> DEFINE g == Len(got)
             l == Len(r)
  <2>1. g \in Nat /\ l \in Nat /\ c \in Int /\ Seen = g + l
    BY <1>1, <1>2 DEF Seen
  <2>2. Seen' = Len(got') + Len(dev'.readBuffer)
    BY DEF Seen
  <2>3. Len(got') = g + c /\ Len(dev'.readBuffer) = l - c
    BY <1>6, <1>7, <1>8
  <2> HIDE DEF g, l
  <2> QED
    BY <2>1, <2>2, <2>3
<1>16. ASSUME NEW m \in Nat, Down(m) PROVE Down(m)'
  <2>1. Numbered(got, 0)' /\ Numbered(dev.readBuffer, Len(got))'
    BY <1>6, <1>7, <1>8 DEF Numbered
  <2>2. link' = link /\ inbox' = inbox /\ down' = down
    BY <1>10 DEF Called
  <2> QED
    BY <1>15, <1>16, <2>1, <2>2 DEF Down, Numbered
<1> QED
  BY <1>10, <1>11, <1>12, <1>13, <1>14, <1>15, <1>16, CalledTurn

WifiCalls ==
  /\ ApplicationOnly
  /\ \/ Connect \/ Disconnect \/ RequestSignal \/ RequestID({"mac"})
     \/ \E n \in 1 .. 2 : Write(n) \/ Read(n)

LEMMA WifiCallsStep ==
  ASSUME Covered, Good, WifiCalls, ~discarded'
  PROVE  Good'
BY ConnectStep, DisconnectStep, RequestSignalStep, RequestIDStep, WriteStep, ReadStep DEF WifiCalls

LEMMA EspressifApplicationStep ==
  ASSUME Covered, Good, ES!Application, ~discarded'
  PROVE  Good'
<1>1. ApplicationOnly
  BY Zenon DEF ES!Application, ES!ApplicationOnly, ApplicationOnly, ES!program, program
<1>2. ~ES!ResetStates(ES!AfterResetStates(dev))
  BY Zenon DEF ES!ResetStates
<1>3. ES!Connect => Connect
  BY Zenon DEF ES!Connect, Connect, ES!CallDriver, CallDriver, ES!Connected, Connected, ES!Raise,
     Raise, ES!Lift, Lift, ES!modem, modem
<1>4. ES!Disconnect => Disconnect
  BY Zenon DEF ES!Disconnect, Disconnect, ES!CallDriver, CallDriver, ES!Disconnected, Disconnected,
     ES!Raise, Raise, ES!Lift, Lift, ES!modem, modem, ES!IsIdle, IsIdle
<1>5. ES!RequestSignal => RequestSignal
  BY Zenon DEF ES!RequestSignal, RequestSignal, ES!CallDriver, CallDriver, ES!RequestRSSI,
     RequestRSSI, ES!modem, modem
<1>6. ES!RequestID({"mac"}) => RequestID({"mac"})
  BY Zenon DEF ES!RequestID, RequestID, ES!CallDriver, CallDriver, ES!RequestIDString,
     RequestIDString, ES!modem, modem
<1>7. \A n : ES!Write(n) => Write(n)
  BY Zenon DEF ES!Write, Write, ES!CallDriver, CallDriver, ES!Written, Written, ES!SpaceFor,
     SpaceFor, ES!Lower, Lower, ES!modem, modem
<1>8. \A n : ES!Read(n) => Read(n)
  BY Zenon DEF ES!Read, Read, ES!CallDriver, CallDriver, ES!AfterRead, AfterRead, ES!ReadData,
     ReadData, ES!Lower, Lower, ES!Drop, Drop, ES!modem, modem
<1>9. WifiCalls
  BY <1>1, <1>2, <1>3, <1>4, <1>5, <1>6, <1>7, <1>8 DEF ES!Application, ES!Calls, WifiCalls
<1> QED
  BY <1>9, WifiCallsStep

LEMMA CC1352P7ApplicationStep ==
  ASSUME Covered, Good, CC!Application, ~discarded'
  PROVE  Good'
<1>1. ApplicationOnly
  BY Zenon DEF CC!Application, CC!ApplicationOnly, ApplicationOnly, CC!program, program
<1>2. ~CC!ResetStates(CC!AfterResetStates(dev))
  BY Zenon DEF CC!ResetStates
<1>3. CC!Connect => Connect
  BY Zenon DEF CC!Connect, Connect, CC!CallDriver, CallDriver, CC!Connected, Connected, CC!Raise,
     Raise, CC!Lift, Lift, CC!modem, modem
<1>4. CC!Disconnect => Disconnect
  BY Zenon DEF CC!Disconnect, Disconnect, CC!CallDriver, CallDriver, CC!Disconnected, Disconnected,
     CC!Raise, Raise, CC!Lift, Lift, CC!modem, modem, CC!IsIdle, IsIdle
<1>5. CC!RequestSignal => RequestSignal
  BY Zenon DEF CC!RequestSignal, RequestSignal, CC!CallDriver, CallDriver, CC!RequestRSSI,
     RequestRSSI, CC!modem, modem
<1>6. CC!RequestID({"mac"}) => RequestID({"mac"})
  BY Zenon DEF CC!RequestID, RequestID, CC!CallDriver, CallDriver, CC!RequestIDString,
     RequestIDString, CC!modem, modem
<1>7. \A n : CC!Write(n) => Write(n)
  BY Zenon DEF CC!Write, Write, CC!CallDriver, CallDriver, CC!Written, Written, CC!SpaceFor,
     SpaceFor, CC!Lower, Lower, CC!modem, modem
<1>8. \A n : CC!Read(n) => Read(n)
  BY Zenon DEF CC!Read, Read, CC!CallDriver, CallDriver, CC!AfterRead, AfterRead, CC!ReadData,
     ReadData, CC!Lower, Lower, CC!Drop, Drop, CC!modem, modem
<1>9. WifiCalls
  BY <1>1, <1>2, <1>3, <1>4, <1>5, <1>6, <1>7, <1>8 DEF CC!Application, CC!Calls, WifiCalls
<1> QED
  BY <1>9, WifiCallsStep

-----------------------------------------------------------------------------
(* What the driver tells of the connection.                                  *)

Tells(d, e) ==
  DOMAIN e = Fields /\ (e.connectState = d.connectState \/ ~IsConnected(e))

LEMMA TellsAgain ==
  ASSUME NEW d, NEW e, NEW f, Tells(d, e), Tells(e, f)
  PROVE  Tells(d, f)
BY DEF Tells, IsConnected

(* A step that does not begin to tell of a connection, or that one of the two *)
(* states with a connection takes.                                           *)
NoNews ==
  \/ dev'.connectState = dev.connectState \/ ~IsConnected(dev')
  \/ Gated /\ dev.sendState \in {"finalizeConnect", "connected"}

LEMMA TellsNoNews == Tells(dev, dev') => NoNews
BY DEF Tells, NoNews

LEMMA PartsTell ==
  ASSUME NEW d, DOMAIN d = Fields
  PROVE  /\ Tells(d, d)
         /\ \A state : Tells(d, Goto(d, state)) /\ Tells(d, Await(d, state))
                       /\ Tells(d, Expect(d, state))
         /\ \A state : state \notin {"connected", "transmitting", "receiving"} =>
              Tells(d, Report(d, state))
         /\ \A flag : Tells(d, Raise(d, flag)) /\ Tells(d, Lift(d, flag))
         /\ \A kinds : Tells(d, FillLineBuffer(d, kinds))
         /\ \A n : Tells(d, [d EXCEPT !.bytesToReceive = n])
<1>1. \A n : Tells(d, [d EXCEPT !.bytesToReceive = n])
  BY DEF Tells, Fields
<1>2. \A state : Tells(d, Goto(d, state)) /\ Tells(d, Await(d, state)) /\ Tells(d, Expect(d, state))
  BY DEF Tells, Fields, Goto, Await, Expect
<1>3. \A state : state \notin {"connected", "transmitting", "receiving"} =>
        Tells(d, Report(d, state))
  BY DEF Tells, Fields, Report, IsConnected
<1>4. \A flag : Tells(d, Raise(d, flag)) /\ Tells(d, Lift(d, flag))
  BY DEF Tells, Fields, Raise, Lift
<1>5. \A kinds : Tells(d, FillLineBuffer(d, kinds))
  BY DEF Tells, Fields, FillLineBuffer
<1> QED
  BY <1>1, <1>2, <1>3, <1>4, <1>5 DEF Tells

LEMMA SharedNoNews ==
  ASSUME DOMAIN dev = Fields,
         \/ OpenSerial \/ Wait \/ OtherState \/ NotConnected \/ FinalizeConnect
         \/ FinalizeDisconnect
         \/ \E text, awaited : SendRSSIRequest(text, awaited) \/ SendIDRequest(text, awaited)
         \/ \E next : Connecting(next) \/ ConnectedSends(next) \/ ConnectedReceives(next)
         \/ \E state, text, awaited, next : SimpleCommand(state, text, awaited, next)
         \/ \E rested : ConnectedIdle(rested)
         \/ \E state, awaited : SendDataBytes(state, awaited)
         \/ \E state, command, awaited : RequestPayload(state, command, awaited)
         \/ \E state, closing, done : EndRequests(state, closing, done)
         \/ \E awaited : ReceivePayload(awaited)
         \/ \E more, done : ReceivedPayload(more, done)
         \/ \E kinds : FillNothing(kinds)
  PROVE  NoNews
<1>1. CASE OpenSerial \/ Wait \/ OtherState
  BY <1>1 DEF OpenSerial, Wait, OtherState, Goto, Fields, NoNews
<1>2. CASE NotConnected \/ FinalizeDisconnect
  BY <1>2 DEF NotConnected, FinalizeDisconnect, HandleConnect, Goto, Lift, Report, Fields, NoNews,
              IsConnected
<1>3. CASE \/ FinalizeConnect \/ \E next : ConnectedSends(next) \/ ConnectedReceives(next)
           \/ \E rested : ConnectedIdle(rested)
  BY <1>3, CaseIs DEF FinalizeConnect, ConnectedSends, ConnectedReceives, ConnectedIdle, NoNews
<1>4. CASE \E text, awaited : SendRSSIRequest(text, awaited)
  BY <1>4 DEF SendRSSIRequest, Await, Expect, Fields, NoNews
<1>5. CASE \E text, awaited : SendIDRequest(text, awaited)
  <2>1. PICK awaited : dev' = Await(Expect([dev EXCEPT !.idRequest = "noRequest"], awaited), "OK")
    BY Zenon, <1>5 DEF SendIDRequest
  <2> QED
    BY <2>1 DEF Await, Expect, Fields, NoNews
<1>6. CASE \E next : Connecting(next)
  BY <1>6 DEF Connecting, Leave, Goto, Lift, Await, Raise, Report, Fields, NoNews, IsConnected
<1>7. CASE \E state, text, awaited, next : SimpleCommand(state, text, awaited, next)
  BY <1>7 DEF SimpleCommand, Goto, Await, Fields, NoNews
<1>8. CASE \E state, awaited : SendDataBytes(state, awaited)
  BY <1>8 DEF SendDataBytes, SendData, Goto, Await, Fields, NoNews
<1>9. CASE \E state, command, awaited : RequestPayload(state, command, awaited)
  BY <1>9 DEF RequestPayload, Goto, Expect, Fields, NoNews
<1>10. CASE \E state, closing, done : EndRequests(state, closing, done)
  BY <1>10 DEF EndRequests, Leave, Lift, Goto, Fields, NoNews
<1>11. CASE \E awaited : ReceivePayload(awaited)
  BY <1>11 DEF ReceivePayload, Receive, Raise, Await, Fields, NoNews
<1>12. CASE \E more, done : ReceivedPayload(more, done)
  BY <1>12 DEF ReceivedPayload, Goto, Fields, NoNews
<1>13. CASE \E kinds : FillNothing(kinds)
  <2>1. PICK kinds : dev' \in {FlushReadBuffer(FillLineBuffer(dev, kinds)),
                               FillLineBuffer(dev, kinds)}
    BY <1>13 DEF FillNothing
  <2>2. \A d : DOMAIN d = Fields => Tells(d, FlushReadBuffer(d))
    BY DEF FlushReadBuffer, Raise, Tells, Fields
  <2>3. Tells(dev, FillLineBuffer(dev, kinds))
    BY PartsTell
  <2> QED
    BY <2>1, <2>2, <2>3, TellsAgain, TellsNoNews DEF Tells
<1> QED
  BY <1>1, <1>2, <1>3, <1>4, <1>5, <1>6, <1>7, <1>8, <1>9, <1>10, <1>11, <1>12, <1>13

LEMMA EspressifNoNews ==
  ASSUME DOMAIN dev = Fields, ES!Run
  PROVE  NoNews
<1>1. CASE ES!RunWithReset
  BY <1>1 DEF ES!RunWithReset, ES!Reset, ES!Await, ES!Expect, ES!Goto, Fields, NoNews
<1>2. Tells(dev, ES!Filled)
  <2>1. \/ ES!Filled = FillLineBuffer(dev, ES!LineEnds(dev))
        \/ ES!Filled = Expect(FillLineBuffer(dev, ES!LineEnds(dev)), "parseStateCiprecvdata")
    BY EspressifLine DEF ES!Filled, ES!FillLineBuffer, FillLineBuffer, ES!FillsLine, FillsLine,
       ES!EndsIn, EndsIn, ES!Has, Has, ES!Expect, Expect
  <2> DEFINE f == FillLineBuffer(dev, ES!LineEnds(dev))
  <2>2. Tells(dev, f)
    BY PartsTell
  <2> HIDE DEF f
  <2>3. Tells(f, Expect(f, "parseStateCiprecvdata"))
    BY <2>2, PartsTell DEF Tells
  <2>4. ES!Filled = f \/ ES!Filled = Expect(f, "parseStateCiprecvdata")
    BY <2>1 DEF f
  <2> QED
    BY <2>2, <2>3, <2>4, TellsAgain
<1>3. CASE ES!HandleError
  BY <1>2, <1>3 DEF ES!HandleError, ES!Failed, ES!Await, ES!Report, ES!Raise, Tells, Fields, NoNews,
                    IsConnected
<1>4. CASE ES!ParseLine
  <2> DEFINE t == ES!TheLine
             a == ES!Filled
             b == ES!HandleSendFail(a, t)
             c == ES!MatchReply(b, t)
             d == ES!HandleReply(c, t)
             e == ES!CheckConnection(d, t)
  <2>1. dev' = e
    BY <1>4 DEF ES!ParseLine
  <2> HIDE DEF a, t
  <2>2. Tells(dev, a)
    BY <1>2 DEF a
  <2>3. Tells(a, b)
    <3>1. b = a \/ b = Await(Report(a, "generalError"), NULL)
      BY Zenon DEF ES!HandleSendFail, ES!Await, Await, ES!Report, Report, ES!NULL, NULL
    <3> HIDE DEF b
    <3> QED
      BY <2>2, <3>1 DEF Tells, Await, Report, IsConnected, Fields
  <2> HIDE DEF b
  <2>4. Tells(b, c)
    BY <2>3 DEF ES!MatchReply, ES!Await, Tells, Fields
  <2> HIDE DEF c
  <2>5. Tells(c, d)
    <3>1. \/ d = c \/ d = ES!ParseCiprecvdata(c, t) \/ d = ES!ParseMac(c, t)
          \/ d = Expect([c EXCEPT !.rssi = "known"], "okReply")
      <4>1. d = CASE c.replyState = "parseStateCiprecvdata" -> ES!ParseCiprecvdata(c, t)
                  [] c.replyState = "reqMac" -> ES!ParseMac(c, t)
                  [] c.replyState = "rssi" /\ t.text \in {"+CWJAP", NoAccess} ->
                       Expect([c EXCEPT !.rssi = "known"], "okReply")
                  [] OTHER -> c
        BY DEF ES!HandleReply, ES!Expect, Expect, NoAccess
      <4> QED
        BY <4>1
    <3> HIDE DEF d
    <3>2. DOMAIN c = Fields
      BY <2>4 DEF Tells
    <3>3. Tells(c, ES!ParseCiprecvdata(c, t)) /\ Tells(c, ES!ParseMac(c, t))
      BY <3>2 DEF ES!ParseCiprecvdata, ES!ParseMac, ES!Goto, ES!Expect, ES!Lift, Tells, Fields
    <3>4. Tells(c, Expect([c EXCEPT !.rssi = "known"], "okReply"))
      BY <3>2 DEF Tells, Expect, Fields
    <3> QED
      BY <3>1, <3>2, <3>3, <3>4, PartsTell
  <2> HIDE DEF d
  <2>6. Tells(d, e)
    <3>1. e \in {d, ES!HandleIPD(d, t), Lift(d, "IP_CONNECTED"),
                 Await(Goto(d, "finalizeDisconnect"), NULL)}
      <4>1. e = IF d.sendState \notin ES!FromConnected THEN d
                ELSE CASE t.text = "+IPD" -> ES!HandleIPD(d, t)
                       [] t.text = "CLOSED" -> Lift(d, "IP_CONNECTED")
                       [] t.text = NetworkLeft -> Await(Goto(d, "finalizeDisconnect"), NULL)
                       [] OTHER -> d
        BY DEF ES!CheckConnection, ES!Lift, Lift, ES!Await, Await, ES!Goto, Goto, ES!NULL, NULL,
               NetworkLeft
      <4> HIDE DEF e
      <4> QED
        BY <4>1
    <3> HIDE DEF e
    <3>2. DOMAIN d = Fields
      BY <2>5 DEF Tells
    <3>3. Tells(d, ES!HandleIPD(d, t))
      BY <3>2 DEF ES!HandleIPD, ES!Raise, ES!Lift, Tells, Fields
    <3>4. Tells(d, Lift(d, "IP_CONNECTED")) /\ Tells(d, Await(Goto(d, "finalizeDisconnect"), NULL))
      BY <3>2 DEF Lift, Await, Goto, Tells, Fields
    <3> QED
      BY <3>1, <3>2, <3>3, <3>4, PartsTell
  <2> HIDE DEF e
  <2>7. Tells(dev, e)
    BY <2>2, <2>3, <2>4, <2>5, <2>6, TellsAgain
  <2> QED
    BY <2>1, <2>7, TellsNoNews
<1>5. ES!FillNothing(ES!LineEnds(dev)) => \E kinds : FillNothing(kinds)
  BY EspressifLine
<1>6. CASE ES!Parses
  BY <1>1, <1>3, <1>4, <1>5, <1>6, EspressifShares, SharedNoNews DEF ES!Parses
<1>7. CASE ES!Connects
  BY <1>7, EspressifShares, SharedNoNews
     DEF ES!Connects, ES!SendMacRequest, ES!SendCwmode, ES!SendCwjap, ES!SendCipmux,
         ES!SendCiprecvmode, ES!SendCipmode, ES!SendCipstart
<1>8. CASE ES!SendCipclose
  BY <1>8 DEF ES!SendCipclose, ES!Goto, ES!Report, ES!Await, Fields, NoNews, IsConnected
<1>9. CASE ES!SendCwqap
  <2>1. dev' = Goto(Await(Report(dev, "intermediate"), NetworkLeft), "finalizeDisconnect")
    BY <1>9 DEF ES!SendCwqap, ES!Goto, Goto, ES!Await, Await, ES!Report, Report, NetworkLeft
  <2> QED
    BY <2>1 DEF Goto, Await, Report, Fields, NoNews, IsConnected
<1>10. CASE ES!Transfers
  BY <1>8, <1>9, <1>10, EspressifShares, SharedNoNews
     DEF ES!Transfers, ES!SendCiprecvdata, ES!EndCiprecvdata
<1> QED
  BY <1>6, <1>7, <1>10 DEF ES!Run

LEMMA CC1352P7NoNews ==
  ASSUME DOMAIN dev = Fields, CC!Run
  PROVE  NoNews
<1>1. CASE CC!RunWithReset
  BY <1>1 DEF CC!RunWithReset, CC!Reset, CC!Await, CC!Expect, CC!Goto, CC!Lift, Fields, NoNews
<1>2. Tells(dev, CC!Filled)
  BY PartsTell DEF CC!Filled, CC!FillLineBuffer, FillLineBuffer, CC!FillsLine, FillsLine,
     CC!EndsIn, EndsIn, CC!Has, Has
<1>3. CASE CC!HandleError
  BY <1>2, <1>3 DEF CC!HandleError, CC!Failed, CC!Await, CC!Report, CC!Raise, Tells, Fields, NoNews,
                    IsConnected
<1>4. CASE CC!ParseLine
  <2> DEFINE t == CC!TheLine
             a == CC!Filled
             c == CC!MatchReply(a, t)
             d == CC!HandleReply(c, t)
             e == CC!CheckConnection(d, t)
  <2>1. dev' = e
    BY <1>4 DEF CC!ParseLine
  <2> HIDE DEF a, t
  <2>2. Tells(dev, a)
    BY <1>2 DEF a
  <2>3. Tells(a, c)
    BY <2>2 DEF CC!MatchReply, CC!Await, Tells, Fields
  <2> HIDE DEF c
  <2>4. Tells(c, d)
    <3>1. DOMAIN c = Fields
      BY <2>3 DEF Tells
    <3>2. \A f : DOMAIN f = Fields =>
            /\ Tells(f, CC!ParseCiprecvdata(f, t)) /\ Tells(f, CC!ParseMac(f, t))
            /\ Tells(f, CC!ParseCsq(f, t))
      BY DEF CC!ParseCiprecvdata, CC!ParseMac, CC!ParseCsq, CC!Goto, CC!Expect, CC!Lift, Tells,
         Fields
    <3>3. d \in {c, CC!ParseCiprecvdata(c, t), CC!ParseMac(c, t), CC!ParseMac(CC!ParseCsq(c, t), t)}
      BY DEF CC!HandleReply
    <3> HIDE DEF d
    <3>4. Tells(c, CC!ParseMac(CC!ParseCsq(c, t), t))
      BY <3>1, <3>2, TellsAgain DEF Tells
    <3> QED
      BY <3>1, <3>2, <3>3, <3>4, PartsTell
  <2> HIDE DEF d
  <2>5. Tells(d, e)
    <3>1. e \in {d, Raise([d EXCEPT !.bytesToReceive = t.n], "DATA_PENDING"),
                 Lift(d, "IP_CONNECTED")}
      <4>1. e = IF d.sendState \notin CC!FromConnected THEN d
                ELSE CASE t.text = "+IPD" ->
                  Raise([d EXCEPT !.bytesToReceive = t.n], "DATA_PENDING")
                       [] t.text \in {"CLOSED", SendFail} -> Lift(d, "IP_CONNECTED")
                       [] OTHER -> d
        BY DEF CC!CheckConnection, CC!Lift, Lift, CC!Raise, Raise, SendFail
      <4> HIDE DEF e
      <4> QED
        BY <4>1
    <3> HIDE DEF e
    <3>2. DOMAIN d = Fields
      BY <2>4 DEF Tells
    <3>3. /\ Tells(d, Raise([d EXCEPT !.bytesToReceive = t.n], "DATA_PENDING"))
          /\ Tells(d, Lift(d, "IP_CONNECTED"))
      BY <3>2 DEF Raise, Lift, Tells, Fields
    <3> QED
      BY <3>1, <3>2, <3>3, PartsTell
  <2> HIDE DEF e
  <2>6. Tells(dev, e)
    BY <2>2, <2>3, <2>4, <2>5, TellsAgain
  <2> QED
    BY <2>1, <2>6, TellsNoNews
<1>5. CC!FillNothing(CC!LineEnds) => \E kinds : FillNothing(kinds)
  BY CC1352P7Line
<1>6. CASE CC!Parses
  BY <1>1, <1>3, <1>4, <1>5, <1>6, CC1352P7Shares, SharedNoNews DEF CC!Parses
<1>7. CASE CC!Connects
  BY <1>7, CC1352P7Shares, SharedNoNews DEF CC!Connects, CC!SendMacRequest, CC!SendCipstart
<1>8. CASE CC!SendCipclose
  BY <1>8 DEF CC!SendCipclose, CC!Goto, CC!Report, CC!Await, Fields, NoNews, IsConnected
<1>9. CASE CC!Transfers
  BY <1>8, <1>9, CC1352P7Shares, SharedNoNews
     DEF CC!Transfers, CC!SendCiprecvdata, CC!EndCiprecvdata
<1> QED
  BY <1>6, <1>7, <1>9 DEF CC!Run

-----------------------------------------------------------------------------
(* The steps of the whole.                                                   *)

LEMMA ScenarioStays == Next => scenario' = scenario
<1> SUFFICES ASSUME Next PROVE scenario' = scenario
  OBVIOUS
<1>1. CASE Driver
  BY Zenon, <1>1 DEF Driver, S8!Driver, S8!DriverOnly, S7!Driver, S7!DriverOnly, ES!Driver,
     ES!DriverOnly, CC!Driver, CC!DriverOnly
<1>2. CASE Application
  BY Zenon, <1>2 DEF Application, S8!Application, S8!ApplicationOnly, S7!Application,
     S7!ApplicationOnly, ES!Application, ES!ApplicationOnly, CC!Application, CC!ApplicationOnly
<1>3. CASE Modem
  BY Zenon, <1>3 DEF Modem, S8!Modem, S8!ModemOnly, S7!Modem, S7!ModemOnly, ES!Modem,
     ES!ModemOnly, CC!Modem, CC!ModemOnly
<1>4. CASE Network
  BY Zenon, <1>4 DEF Network, S8!Network, S8!SimNetwork, S8!NetworkOnly, S7!Network, S7!SimNetwork,
     S7!NetworkOnly, ES!Network, ES!NetworkOnly, CC!Network, CC!NetworkOnly
<1>5. CASE Uart \/ Detector \/ Program
  BY Zenon, <1>5 DEF Uart, Detector, Program
<1> QED
  BY Zenon, <1>1, <1>2, <1>3, <1>4, <1>5 DEF Next

LEMMA CoveredStays ==
  ASSUME scenario' = scenario
  PROVE  Covered' <=> Covered
BY DEF Covered, Is

LEMMA WifiOnly ==
  ASSUME Covered
  PROVE  ~Is("sim800") /\ ~Is("sim7x00")
BY DEF Covered, Is

(* What is given up stays so.                                                *)
LEMMA DiscardedStays ==
  ASSUME Covered, Next, discarded
  PROVE  discarded'
<1>1. CASE Driver
  BY Zenon, <1>1, WifiOnly DEF Driver, ES!Driver, ES!DriverOnly, CC!Driver, CC!DriverOnly
<1>2. CASE Application
  <2>1. CASE ES!Application
    BY Zenon, <2>1 DEF ES!Application, ES!Calls, ES!Connect, ES!Disconnect, ES!RequestSignal,
       ES!RequestID, ES!Write, ES!Read, ES!ResetStates
  <2>2. CASE CC!Application
    BY Zenon, <2>2 DEF CC!Application, CC!Calls, CC!Connect, CC!Disconnect, CC!RequestSignal,
       CC!RequestID, CC!Write, CC!Read, CC!ResetStates
  <2> QED
    BY Zenon, <1>2, <2>1, <2>2, WifiOnly DEF Application
<1>3. CASE Modem
  BY Zenon, <1>3, WifiOnly DEF Modem, ES!Modem, ES!ModemOnly, CC!Modem, CC!ModemOnly
<1>4. CASE Network
  BY Zenon, <1>4, WifiOnly DEF Network, ES!Network, ES!DataArrives, ES!DatagramArrives,
     ES!PeerCloses, ES!ContextLost, CC!Network, CC!DataArrives, CC!PeerCloses
<1>5. CASE Uart \/ Detector
  BY Zenon, <1>5 DEF Uart, Detector
<1>6. ~Program
  BY Zenon DEF Program, Covered
<1> QED
  BY Zenon, <1>1, <1>2, <1>3, <1>4, <1>5, <1>6 DEF Next

LEMMA OthersOff ==
  ASSUME Covered, Good
  PROVE  ~Program /\ ~Detector
<1>1. detector = "none"
  BY Zenon DEF Good
<1>2. ~Program
  BY Zenon DEF Program, Covered
<1>3. ~OpenPort
  BY Zenon, <1>1 DEF OpenPort
<1>4. ~SendCgmm
  <2>1. "none" # "beginState"
    OBVIOUS
  <2> QED
    BY Zenon, <1>1, <2>1 DEF SendCgmm
<1>5. ~ReadDetectLine
  BY Zenon, <1>1 DEF ReadDetectLine
<1> QED
  BY Zenon, <1>2, <1>3, <1>4, <1>5 DEF Detector

LEMMA GoodStep ==
  ASSUME Covered, Good, Next, ~discarded'
  PROVE  Good'
<1>1. CASE Driver
  BY Zenon, <1>1, WifiOnly, EspressifDriverStep, CC1352P7DriverStep DEF Driver
<1>2. CASE Application
  BY Zenon, <1>2, WifiOnly, EspressifApplicationStep, CC1352P7ApplicationStep DEF Application
<1>3. CASE Modem
  BY Zenon, <1>3, WifiOnly, EspressifModemStep, CC1352P7ModemStep DEF Modem
<1>4. CASE Network
  BY Zenon, <1>4, WifiOnly, EspressifNetworkStep, CC1352P7NetworkStep DEF Network
<1>5. CASE Uart
  BY Zenon, <1>5, UartStep
<1> QED
  BY Zenon, <1>1, <1>2, <1>3, <1>4, <1>5, OthersOff DEF Next

LEMMA GoodStays ==
  ASSUME Good, UNCHANGED vars
  PROVE  Good'
<1>1. /\ scenario' = scenario /\ dev' = dev /\ step' = step /\ rx' = rx /\ tx' = tx
      /\ serialOpen' = serialOpen /\ link' = link /\ inbox' = inbox /\ prompt' = prompt
      /\ line' = line /\ connects' = connects /\ requests' = requests /\ up' = up /\ got' = got
      /\ down' = down /\ peerGot' = peerGot /\ detector' = detector
  BY DEF vars, driver, modem, app, program
<1>2. DriverKept /\ Unspoken
  <2>1. DriverKept
    BY <1>1 DEF DriverKept
  <2>2. Stream' = Stream
    BY <1>1 DEF Stream
  <2> QED
    BY <1>1, <2>1, <2>2, KeptWords DEF Unspoken, DriverKept
<1>3. PICK p \in Nat, m \in Nat : Exchange(p, m) /\ Down(m)
  BY DEF Good, Talk
<1>4. Exchange(p, m)'
  BY <1>2, <1>3, UnspokenStep
<1>5. Down(m)'
  BY <1>1, <1>3, DownKept
<1>6. Typed'
  BY <1>1 DEF Good, Typed
<1>7. Up'
  <2>1. Carried' = Carried
    BY <1>1 DEF Carried
  <2>2. Lost => Lost'
    BY <1>1, <1>2, KeptWords DEF Lost
  <2> QED
    BY <1>1, <2>1, <2>2, UpKept DEF Good, Talk
<1>8. Life'
  <2>1. Zero' <=> Zero
    BY <1>1 DEF Zero
  <2>2. Asked' = Asked /\ Stream' = Stream
    BY <1>1 DEF Asked, Stream
  <2>3. Denied => Denied'
    BY <1>1, <1>2, <2>2, KeptWords DEF Denied
  <2>4. Fresh => Fresh'
    BY <1>1, <2>1, <2>2 DEF Fresh, Is, Fetching, IsConnected, Has, Closed
  <2>5. Opening => Opening'
    BY <1>1, <2>1, <2>2, <2>3 DEF Opening, Is, Fetching, IsConnected, Has
  <2>6. Active => Active'
    BY <1>1, <2>2 DEF Active, Has
  <2>7. Over => Over'
    BY <1>1, <2>2 DEF Over, Has, Closed, Fetching, Is
  <2> QED
    BY <2>4, <2>5, <2>6, <2>7 DEF Good, Life
<1> QED
  BY <1>2, <1>4, <1>5, <1>6, <1>7, <1>8, KeptTurn

(* The invariant, inductively.                                               *)
LEMMA InductiveStep ==
  ASSUME IInv, [Next]_vars
  PROVE  IInv'
<1>1. CASE Next
  BY Zenon, <1>1, ScenarioStays, CoveredStays, DiscardedStays, GoodStep DEF IInv
<1>2. CASE UNCHANGED vars
  <2>1. scenario' = scenario /\ discarded' = discarded
    BY <1>2 DEF vars
  <2> QED
    BY Zenon, <1>2, <2>1, CoveredStays, GoodStays DEF IInv
<1> QED
  BY Zenon, <1>1, <1>2
(* The start.                                                                *)
LEMMA NewDeviceIs ==
  /\ DOMAIN NewDevice = Fields
  /\ NewDevice.readBuffer = <<>> /\ NewDevice.writeBuffer = <<>>
  /\ NewDevice.stateBooleans = {"LINE_READ"} /\ NewDevice.connectState = "notConnected"
  /\ NewDevice.waitForReply = NULL /\ NewDevice.lbFill = FALSE
  /\ NewDevice.sendState = "notConnected" /\ NewDevice.replyState = "okReply"
  /\ NewDevice.bytesToWrite = 0 /\ NewDevice.bytesToReceive = 0 /\ NewDevice.bytesToRead = 0
  /\ NewDevice.rssi = "unknown" /\ NewDevice.idRequest = "noRequest"
<1>1. NewDevice =
        [field \in DOMAIN NewIPCommDevice \cup
                     {"lbFill", "sendState", "replyState", "bytesToWrite", "bytesToReceive",
                      "bytesToRead", "rssi", "idRequest", "idType", "idString"} |->
           CASE field = "lbFill" -> FALSE
             [] field = "sendState" -> "notConnected"
             [] field = "replyState" -> "okReply"
             [] field = "rssi" -> "unknown"
             [] field \in {"bytesToWrite", "bytesToReceive", "bytesToRead"} -> 0
             [] field \in {"idRequest", "idType"} -> "noRequest"
             [] field = "idString" -> NoText
             [] OTHER -> NewIPCommDevice[field]]
  BY Zenon DEF NewDevice, NoText
<1>2. DOMAIN NewIPCommDevice =
        {"readBuffer", "writeBuffer", "stateBooleans", "connectState", "waitForReply", "type"}
  BY DEF NewIPCommDevice
<1>3. DOMAIN NewDevice = Fields
  BY <1>1, <1>2 DEF Fields
<1>4. /\ NewIPCommDevice.readBuffer = <<>> /\ NewIPCommDevice.writeBuffer = <<>>
      /\ NewIPCommDevice.stateBooleans = {"LINE_READ"}
      /\ NewIPCommDevice.connectState = "notConnected"
      /\ NewIPCommDevice.waitForReply = NULL
  BY DEF NewIPCommDevice
<1>5. /\ NewDevice.readBuffer = <<>> /\ NewDevice.writeBuffer = <<>>
      /\ NewDevice.stateBooleans = {"LINE_READ"} /\ NewDevice.connectState = "notConnected"
      /\ NewDevice.waitForReply = NULL
  BY <1>1, <1>2, <1>4
<1>6. /\ NewDevice.lbFill = FALSE /\ NewDevice.sendState = "notConnected"
      /\ NewDevice.replyState = "okReply"
      /\ NewDevice.bytesToWrite = 0 /\ NewDevice.bytesToReceive = 0 /\ NewDevice.bytesToRead = 0
      /\ NewDevice.rssi = "unknown" /\ NewDevice.idRequest = "noRequest"
  BY <1>1, <1>2
<1> QED
  BY <1>3, <1>5, <1>6

LEMMA InitGood ==
  ASSUME Init, Covered
  PROVE  Good
<1>1. PICK request \in {"noRequest"} \cup
                       (IF IsWifi /\ scenario.maxRequests > 0 THEN {"mac"} ELSE {}) :
        dev = [NewDevice EXCEPT !.type = scenario.type, !.idRequest = request]
  BY Zenon DEF Init
<1>2. /\ DOMAIN dev = Fields /\ dev.readBuffer = <<>> /\ dev.writeBuffer = <<>>
      /\ dev.stateBooleans = {"LINE_READ"} /\ dev.connectState = "notConnected"
      /\ dev.waitForReply = NULL /\ dev.lbFill = FALSE
      /\ dev.sendState = "notConnected" /\ dev.replyState = "okReply"
      /\ dev.bytesToWrite = 0 /\ dev.bytesToReceive = 0 /\ dev.bytesToRead = 0
      /\ dev.rssi = "unknown" /\ dev.type = scenario.type
      /\ dev.idRequest = request
  BY <1>1, NewDeviceIs DEF Fields
<1>3. /\ step = "off" /\ rx = <<>> /\ tx = <<>> /\ link = "down" /\ inbox = <<>>
      /\ prompt = 0 /\ line = <<>> /\ connects = 0 /\ requests = 0
      /\ up = 0 /\ down = 0 /\ got = <<>> /\ peerGot = <<>>
  BY DEF Init, SystemInit, DriverInit
<1>4. detector = "none"
  BY DEF Init, SystemInit, Covered
<1>5. Typed
  <2>1. <<>> \in Seq(Int) /\ <<>> \in Seq(Tokens)
    BY EmptySeq
  <2> QED
    BY <1>2, <1>3, <2>1 DEF Typed
<1>6. Steady
  <2>1. NULL # "SEND OK" /\ NULL # ">" /\ NULL # "WIFI DISCONNECT"
    BY Zenon DEF NULL
  <2>2. ~Restarting /\ reply = NULL
    BY <1>2 DEF Restarting, Has, reply
  <2>3. Waiting
    BY Zenon, <1>2, <2>1, <2>2 DEF Waiting
  <2>4. Flags
    BY <1>2 DEF Flags, Has
  <2>5. scenario.maxRequests = 0 => dev.idRequest = "noRequest"
    BY <1>1, <1>2
  <2>6. Unasked
    BY <1>2, <1>3, <2>5 DEF Unasked
  <2>7. Resets
    BY <2>2 DEF Resets
  <2> QED
    BY <2>3, <2>4, <2>6, <2>7 DEF Steady
<1>7. Asked # "AT+CIPSTART"
  BY <1>3, NoTextIsNone DEF Asked
<1>8. Life
  BY <1>2, <1>3, <1>7 DEF Life, Fresh, Zero, Fetching, IsConnected, Has
<1>9. Talk
  <2>1. Len(<<>>) = 0
    OBVIOUS
  <2>2. Stream = <<>>
    BY <1>3, EmptySeq, StreamIs DEF Stream
  <2>3. Resting
    BY <1>2, <1>3, <2>1, <2>2
       DEF Resting, Fetching, reply, AllNotices, Prompted, Restarting, Has
  <2>4. Seen = 0 /\ Down(0)
    BY <1>2, <1>3, <2>1 DEF Seen, Down, Numbered
  <2>5. Up
    BY <1>3, <2>1 DEF Up, Numbered, Lost
  <2>6. Exchange(0, 0)
    BY <2>3 DEF Exchange
  <2> QED
    BY <2>4, <2>5, <2>6 DEF Talk
<1> QED
  BY <1>4, <1>5, <1>6, <1>8, <1>9 DEF Good

(* While nothing is given up, the invariant holds in every behaviour.        *)
THEOREM WifiExchange == Spec => []IInv
<1>1. Init => IInv
  BY Zenon, InitGood DEF IInv
<1>2. IInv /\ [Next]_vars => IInv'
  BY Zenon, InductiveStep
<1> QED
  BY <1>1, <1>2, PTL DEF Spec

-----------------------------------------------------------------------------
(* What the invariant says of the bytes and of the connection.               *)

LEMMA PrefixOfCount ==
  ASSUME NEW s \in Seq(Int), NEW n \in Nat, Numbered(s, 0), Len(s) <= n
  PROVE  IsPrefixOf(s, Count(n))
<1> DEFINE c == Count(n)
<1>1. c \in Seq(Int) /\ Len(c) = n /\ \A k \in 1 .. n : c[k] = k
  BY DEF Count
<1> HIDE DEF c
<1>2. Len(s) \in Nat /\ \A k \in 1 .. Len(s) : s[k] = k
  BY LenProperties DEF Numbered
<1> DEFINE b == SubSeq(c, 1, Len(s))
<1>3. /\ b \in Seq(Int) /\ Len(b) = Len(s)
      /\ \A k \in 1 .. Len(s) : b[k] = c[k]
  <2>1. Numbered(c, 0)
    BY <1>1 DEF Numbered
  <2>2. b \in Seq(Int) /\ Len(b) = Len(s) /\ Numbered(b, 0)
    BY <1>1, <1>2, <2>1, NumberedDrop
  <2> HIDE DEF b
  <2> QED
    BY <1>1, <1>2, <2>1, <2>2 DEF Numbered
<1> HIDE DEF b
<1>4. s = b
  BY <1>1, <1>2, <1>3, SeqEqual
<1> QED
  BY <1>1, <1>2, <1>4 DEF IsPrefixOf, b, c
(* A covered behaviour stays so.                                             *)
LEMMA CoveredAlways == Spec /\ Covered => []Covered
<1>1. Covered /\ [Next]_vars => Covered'
  <2> SUFFICES ASSUME Covered, [Next]_vars PROVE Covered'
    OBVIOUS
  <2>1. scenario' = scenario
    BY ScenarioStays DEF vars
  <2> QED
    BY <2>1, CoveredStays
<1> QED
  BY <1>1, PTL DEF Spec

(* In every behaviour of a WiFi driver with one TCP connection, what the      *)
(* application reads is what the peer sent, whatever the sizes of the buffers *)
(* and however many bytes: no byte is lost, repeated or swapped, and no text  *)
(* of the modem mixed in (IPCommDevice::read() after the driver's receive()). *)
THEOREM WifiDownlink == Spec /\ Covered => []DownlinkIntact
<1>1. IInv /\ Covered => DownlinkIntact
  <2> SUFFICES ASSUME Good PROVE IsPrefixOf(got \o dev.readBuffer, Count(down))
    BY DEF IInv, DownlinkIntact
  <2>1. PICK m \in Nat : Down(m)
    BY DEF Good, Talk
  <2> DEFINE s == got \o dev.readBuffer
  <2>2. /\ got \in Seq(Int) /\ dev.readBuffer \in Seq(Int) /\ inbox \in Seq(Int) /\ down \in Nat
        /\ Len(got) \in Nat /\ Len(dev.readBuffer) \in Nat /\ Len(inbox) \in Nat
    BY LenProperties DEF Good, Typed
  <2>3. s \in Seq(Int) /\ Len(s) = Seen /\ Numbered(s, 0)
    <3>1. 0 + Len(got) = Len(got)
      BY <2>2
    <3>2. Numbered(got, 0) /\ Numbered(dev.readBuffer, 0 + Len(got))
      BY <2>1, <3>1 DEF Down
    <3> QED
      BY <2>2, <3>2, NumberedConcat DEF Seen
  <2>4. Seen <= down
    BY <2>1, <2>2 DEF Down, Seen
  <2> HIDE DEF s
  <2>5. IsPrefixOf(s, Count(down))
    BY <2>2, <2>3, <2>4, PrefixOfCount
  <2> QED
    BY <2>5 DEF s
<1> QED
  BY <1>1, WifiExchange, CoveredAlways, PTL

(* In the same behaviours the peer gets the bytes that write() accepted in    *)
(* order, without gaps or repetition, though the driver splits them into      *)
(* several commands (prepareSending(), sendData()).                          *)
THEOREM WifiUplink == Spec /\ Covered => []UplinkIntact
<1>1. IInv /\ Covered => UplinkIntact
  <2> SUFFICES ASSUME Good PROVE IsPrefixOf(peerGot, Count(up))
    BY DEF IInv, UplinkIntact
  <2> QED
    BY PrefixOfCount DEF Good, Typed, Talk, Up
<1> QED
  BY <1>1, WifiExchange, CoveredAlways, PTL

(* In the same behaviours a byte of the peer is never at the head of the      *)
(* serial buffer while the driver reads lines (LINE_READ), where it would be  *)
(* taken for an answer of the modem.                                         *)
THEOREM WifiPayloadNotParsed == Spec /\ Covered => []PayloadNotParsed
<1>1. IInv /\ Covered => PayloadNotParsed
  <2> SUFFICES ASSUME Good, Has(dev, "LINE_READ"), rx # <<>> PROVE Head(rx).kind # "byte"
    BY DEF IInv, PayloadNotParsed
  <2>1. PICK p \in Nat, m \in Nat : Exchange(p, m) /\ Down(m)
    BY DEF Good, Talk
  <2>2. ~Receiving(m)
    BY DEF Good, Steady, Flags, Receiving
  <2>3. Stream \in Seq(Tokens) /\ Stream # <<>> /\ Coming = Head(rx)
    BY StreamIs DEF Good, Typed, Stream, Coming
  <2>4. Seen \in Int
    BY LenProperties DEF Good, Typed, Seen
  <2>5. IsNotice(Coming) \/ Coming.kind = "line" \/ Coming = PayloadHeader(m)
    BY <2>1, <2>2, <2>3, <2>4, Comes
  <2>6. PayloadHeader(m).kind # "byte"
    BY DEF PayloadHeader, Header, Line
  <2> QED
    BY <2>3, <2>5, <2>6 DEF IsNotice
<1> QED
  BY <1>1, WifiExchange, CoveredAlways, PTL

-----------------------------------------------------------------------------
(* When the driver begins to tell of a connection.                           *)

LEMMA DriverFindsOpen ==
  ASSUME Good, NoNews, ~IsConnected(dev), IsConnected(dev)'
  PROVE  link \in {"open", "closed"}
<1>1. Gated /\ dev.sendState \in {"finalizeConnect", "connected"}
  BY DEF NoNews, IsConnected
<1>2. CASE dev.sendState = "connected"
  BY <1>2 DEF Good, Life, Fresh, Opening, Active, Over, Closed
<1>3. CASE dev.sendState = "finalizeConnect"
  <2>1. Asked = NoText /\ ~Restarting
    BY <1>1, <1>3, GatedFinds
  <2>2. ~Denied
    BY <1>1, <2>1, NoTextIsNone DEF Denied, Gated, NULL
  <2> QED
    BY <1>3, <2>2 DEF Good, Life, Fresh, Opening, Active, Over, Closed
<1> QED
  BY <1>1, <1>2, <1>3

(* A call of the application, also one that resets the driver.               *)
CallTells == dev'.connectState = dev.connectState \/ ~IsConnected(dev')

LEMMA SharedCallsTell ==
  ASSUME DOMAIN dev = Fields,
         \/ Connect \/ Disconnect \/ RequestSignal \/ RequestID({"mac"})
         \/ \E n \in 1 .. 2 : Write(n) \/ Read(n)
  PROVE  CallTells
<1>1. CASE Connect
  BY <1>1 DEF Connect, CallDriver, Connected, Raise, Lift, Fields, CallTells
<1>2. CASE Disconnect
  BY <1>2 DEF Disconnect, CallDriver, Disconnected, Raise, Lift, Fields, CallTells
<1>3. CASE RequestSignal
  BY <1>3 DEF RequestSignal, CallDriver, RequestRSSI, Fields, CallTells
<1>4. CASE RequestID({"mac"})
  <2>1. dev' = [dev EXCEPT !.idString = NoText, !.idRequest = "mac", !.idType = "mac"]
    BY Zenon, <1>4 DEF RequestID, CallDriver, RequestIDString, NoText
  <2> QED
    BY <2>1 DEF Fields, CallTells
<1>5. CASE \E n \in 1 .. 2 : Write(n)
  <2>1. PICK b : dev' = [dev EXCEPT !.writeBuffer = b]
    BY Zenon, <1>5 DEF Write, CallDriver, Written
  <2> QED
    BY <2>1 DEF Fields, CallTells
<1>6. CASE \E n \in 1 .. 2 : Read(n)
  <2>1. PICK b : dev' = [dev EXCEPT !.readBuffer = b]
    BY Zenon, <1>6 DEF Read, CallDriver, AfterRead
  <2> QED
    BY <2>1 DEF Fields, CallTells
<1> QED
  BY <1>1, <1>2, <1>3, <1>4, <1>5, <1>6
LEMMA ApplicationTells ==
  ASSUME DOMAIN dev = Fields, ES!Application \/ CC!Application
  PROVE  CallTells
<1>1. ES!NewDevice = NewDevice
  BY Zenon DEF ES!NewDevice, NewDevice, ES!NewIPCommDevice, NewIPCommDevice, ES!NULL, NULL
<1>2. CC!NewDevice = NewDevice
  BY Zenon DEF CC!NewDevice, NewDevice, CC!NewIPCommDevice, NewIPCommDevice, CC!NULL, NULL
<1>3. ASSUME dev' = ES!AfterResetStates(dev) \/ dev' = CC!AfterResetStates(dev)
      PROVE  CallTells
  <2>1. dev' = [NewDevice EXCEPT !.type = dev.type, !.idRequest = dev.idRequest,
                                 !.idType = dev.idType, !.idString = dev.idString]
    BY Zenon, <1>1, <1>2, <1>3 DEF ES!AfterResetStates, CC!AfterResetStates
  <2> QED
    BY <2>1, NewDeviceIs DEF Fields, CallTells, IsConnected
<1>4. CASE ES!Application
  <2>1. ES!Connect => Connect
    BY Zenon DEF ES!Connect, Connect, ES!CallDriver, CallDriver, ES!Connected, Connected, ES!Raise,
       Raise, ES!Lift, Lift, ES!modem, modem
  <2>2. ES!Disconnect => Disconnect
    BY Zenon DEF ES!Disconnect, Disconnect, ES!CallDriver, CallDriver, ES!Disconnected,
       Disconnected, ES!Raise, Raise, ES!Lift, Lift, ES!modem, modem, ES!IsIdle, IsIdle
  <2>3. ES!RequestSignal => RequestSignal
    BY Zenon DEF ES!RequestSignal, RequestSignal, ES!CallDriver, CallDriver, ES!RequestRSSI,
       RequestRSSI, ES!modem, modem
  <2>4. ES!RequestID({"mac"}) => RequestID({"mac"})
    BY Zenon DEF ES!RequestID, RequestID, ES!CallDriver, CallDriver, ES!RequestIDString,
       RequestIDString, ES!modem, modem
  <2>5. \A n : ES!Write(n) => Write(n)
    BY Zenon DEF ES!Write, Write, ES!CallDriver, CallDriver, ES!Written, Written, ES!SpaceFor,
       SpaceFor, ES!Lower, Lower, ES!modem, modem
  <2>6. \A n : ES!Read(n) => Read(n)
    BY Zenon DEF ES!Read, Read, ES!CallDriver, CallDriver, ES!AfterRead, AfterRead, ES!ReadData,
       ReadData, ES!Lower, Lower, ES!Drop, Drop, ES!modem, modem
  <2>7. \A d : ES!ResetStates(d) => dev' = d
    BY Zenon DEF ES!ResetStates, ES!CallDriver
  <2> QED
    BY Zenon, <1>3, <1>4, <2>1, <2>2, <2>3, <2>4, <2>5, <2>6, <2>7, SharedCallsTell
       DEF ES!Application, ES!Calls
<1>5. CASE CC!Application
  <2>1. CC!Connect => Connect
    BY Zenon DEF CC!Connect, Connect, CC!CallDriver, CallDriver, CC!Connected, Connected, CC!Raise,
       Raise, CC!Lift, Lift, CC!modem, modem
  <2>2. CC!Disconnect => Disconnect
    BY Zenon DEF CC!Disconnect, Disconnect, CC!CallDriver, CallDriver, CC!Disconnected,
       Disconnected, CC!Raise, Raise, CC!Lift, Lift, CC!modem, modem, CC!IsIdle, IsIdle
  <2>3. CC!RequestSignal => RequestSignal
    BY Zenon DEF CC!RequestSignal, RequestSignal, CC!CallDriver, CallDriver, CC!RequestRSSI,
       RequestRSSI, CC!modem, modem
  <2>4. CC!RequestID({"mac"}) => RequestID({"mac"})
    BY Zenon DEF CC!RequestID, RequestID, CC!CallDriver, CallDriver, CC!RequestIDString,
       RequestIDString, CC!modem, modem
  <2>5. \A n : CC!Write(n) => Write(n)
    BY Zenon DEF CC!Write, Write, CC!CallDriver, CallDriver, CC!Written, Written, CC!SpaceFor,
       SpaceFor, CC!Lower, Lower, CC!modem, modem
  <2>6. \A n : CC!Read(n) => Read(n)
    BY Zenon DEF CC!Read, Read, CC!CallDriver, CallDriver, CC!AfterRead, AfterRead, CC!ReadData,
       ReadData, CC!Lower, Lower, CC!Drop, Drop, CC!modem, modem
  <2>7. \A d : CC!ResetStates(d) => dev' = d
    BY Zenon DEF CC!ResetStates, CC!CallDriver
  <2> QED
    BY Zenon, <1>3, <1>5, <2>1, <2>2, <2>3, <2>4, <2>5, <2>6, <2>7, SharedCallsTell
       DEF CC!Application, CC!Calls
<1> QED
  BY <1>4, <1>5

(* In the same behaviours, when isConnected() begins to tell of a connection, *)
(* the modem has opened one: the OK that takes the driver to finalizeConnect  *)
(* is the answer to AT+CIPSTART and no late answer to something else.        *)
THEOREM WifiConnectedIsOpen == Spec /\ Covered => ConnectedIsOpen
<1>1. IInv /\ Covered /\ [Next]_vars =>
        [~IsConnected(dev) /\ IsConnected(dev)' => discarded \/ link \in {"open", "closed"}]_vars
  <2> SUFFICES ASSUME Covered, Good, Next, ~IsConnected(dev), IsConnected(dev)'
               PROVE  link \in {"open", "closed"}
    BY Zenon DEF IInv
  <2>1. DOMAIN dev = Fields
    BY DEF Good, Typed
  <2>2. CASE Driver
    <3>1. NoNews
      BY Zenon, <2>1, <2>2, WifiOnly, EspressifNoNews, CC1352P7NoNews
         DEF Driver, ES!Driver, CC!Driver
    <3> QED
      BY <3>1, DriverFindsOpen
  <2>3. CASE Application
    <3>1. CallTells
      BY Zenon, <2>1, <2>3, WifiOnly, ApplicationTells DEF Application
    <3> QED
      BY <3>1 DEF CallTells, IsConnected
  <2>4. CASE Modem
    <3>1. dev' = dev
      BY Zenon, <2>4, WifiOnly DEF Modem, ES!Modem, ES!ModemOnly, CC!Modem, CC!ModemOnly
    <3> QED
      BY <3>1 DEF IsConnected
  <2>5. CASE Network
    <3>1. UNCHANGED driver
      BY Zenon, <2>5, WifiOnly DEF Network, ES!Network, ES!NetworkOnly, ES!driver, driver,
         CC!Network, CC!NetworkOnly, CC!driver
    <3> QED
      BY <3>1 DEF driver, IsConnected
  <2>6. CASE Uart
    BY <2>6 DEF Uart, IsConnected
  <2> QED
    BY Zenon, <2>2, <2>3, <2>4, <2>5, <2>6, OthersOff DEF Next
<1> QED
  BY <1>1, WifiExchange, CoveredAlways, PTL DEF Spec, ConnectedIsOpen
=============================================================================
