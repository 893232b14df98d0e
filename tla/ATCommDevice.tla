---------------------------- MODULE ATCommDevice ----------------------------
(***************************************************************************)
(* cicada/commdevices/atcommdevice.cpp: what the drivers of AT-command     *)
(* modems share.  The serial port is seen as two queues of tokens, filled  *)
(* and emptied by the UART while the driver runs: rx from the modem, tx to *)
(* it.  A token is a whole line or one byte of payload; a line takes as    *)
(* much room in the port's buffer as a byte (SerialSize counts tokens).    *)
(***************************************************************************)
EXTENDS IPCommDevice

CONSTANTS SerialSize,   \* tokens the serial read buffer holds
          MaxSend,      \* bytes that fit beside a CIPSEND command in the drained
                        \* serial write buffer: spaceAvailable() - MIN_SPACE_AVAILABLE
          Margin        \* tokens left free in the serial read buffer for what follows
                        \* a payload ("- 8" in sendCiprxget2, "- 30" in sendCiprcvdata)

ASSUME SerialSizesAssumption ==
  SerialSize \in Nat \ {0} /\ MaxSend \in Nat \ {0} /\ Margin \in Nat

VARIABLES rx,   \* tokens in the serial read buffer
          tx    \* tokens in the serial write buffer

(* Tokens are lines, headers (which end in ':' and are followed by payload)   *)
(* and bytes of payload.                                                     *)
Line(text, n) == [kind |-> "line", text |-> text, n |-> n]
Header(text, n) == [kind |-> "header", text |-> text, n |-> n]
Byte(b) == [kind |-> "byte", text |-> "", n |-> b]
Garbled == Line("", 0)

(* _lbFill is kept as: are there characters of an unfinished line; the three  *)
(* parts of the buffer of an identification (_idStringBuffer of the SIMs,     *)
(* _macStringBuffer of the others) as the stored string (idString, "" when    *)
(* there is none), the type still to be requested (idRequest) and the type of *)
(* the last request (idType).                                                *)
NewDevice ==
  [field \in DOMAIN NewIPCommDevice \cup {"lbFill", "sendState", "replyState", "bytesToWrite",
                            "bytesToReceive", "bytesToRead", "rssi",
                            "idRequest", "idType", "idString"} |->
     CASE field = "lbFill" -> FALSE
       [] field = "sendState" -> "notConnected"
       [] field = "replyState" -> "okReply"
       [] field = "rssi" -> "unknown"
       [] field \in {"bytesToWrite", "bytesToReceive", "bytesToRead"} -> 0
       [] field \in {"idRequest", "idType"} -> "noRequest"
       [] field = "idString" -> ""
       [] OTHER -> NewIPCommDevice[field]]

(* fillLineBuffer: take characters up to the first token of a kind that ends  *)
(* a line.  What is taken without one stays in the line buffer and spoils the *)
(* next line.                                                                *)
EndsIn(q, kinds) == {k \in DOMAIN q : q[k].kind \in kinds}
FirstEnd(q, kinds) == CHOOSE k \in EndsIn(q, kinds) : \A j \in EndsIn(q, kinds) : k <= j
FillsLine(d, kinds) == Has(d, "LINE_READ") /\ EndsIn(rx, kinds) # {}
FilledLine(d, kinds) ==
  IF d.lbFill \/ FirstEnd(rx, kinds) > 1 THEN Garbled ELSE rx[FirstEnd(rx, kinds)]
FillLineBuffer(d, kinds) ==
  IF Has(d, "LINE_READ")
  THEN [d EXCEPT !.lbFill = ~FillsLine(d, kinds) /\ (@ \/ rx # <<>>)]
  ELSE d
RestAfterFill(d, kinds) ==
  IF ~Has(d, "LINE_READ") THEN rx
  ELSE IF FillsLine(d, kinds) THEN Drop(rx, FirstEnd(rx, kinds)) ELSE <<>>

Goto(d, state) == [d EXCEPT !.sendState = state]
Await(d, reply) == [d EXCEPT !.waitForReply = reply]
Expect(d, state) == [d EXCEPT !.replyState = state]
Report(d, state) == [d EXCEPT !.connectState = state]

(* A request that is served by a jump: without condition, in handleDisconnect *)
(* and in handleConnect.                                                     *)
Leave(d, next) == Goto(Lift(d, "DISCONNECT_PENDING"), next)
HandleDisconnect(d, next) == IF Has(d, "DISCONNECT_PENDING") THEN Leave(d, next) ELSE d
HandleConnect(d, next) ==
  IF Has(d, "CONNECT_PENDING") THEN Goto(Lift(d, "CONNECT_PENDING"), next) ELSE d

(* flushReadBuffer: drop what there is of the payload; bytesToRead is what is *)
(* yet to come, and line reading resumes once that is nothing.                *)
Flushable(d) == Lower(d.bytesToRead, Len(rx))
FlushReadBuffer(d) ==
  LET rest == d.bytesToRead - Flushable(d)
      e == [d EXCEPT !.bytesToRead = rest, !.bytesToReceive = 0]
  IN  IF rest = 0 THEN Raise(e, "LINE_READ") ELSE e

(* prepareSending: announce as much as the serial write buffer takes.         *)
SendSize(d) == Lower(Len(d.writeBuffer), MaxSend)
PrepareSending(d) == Await([d EXCEPT !.bytesToWrite = SendSize(d)], ">")

(* sendData: the loop "while (_bytesToWrite--)" leaves the counter at the     *)
(* largest value of its type, written -1 here.                                *)
DataToSend(d) == [k \in 1 .. d.bytesToWrite |-> Byte(d.writeBuffer[k])]
(* Slip: the whole write buffer is taken for sent.                           *)
SendDataAll(d) == [d EXCEPT !.writeBuffer = <<>>, !.bytesToWrite = -1]

SendData(d) == [d EXCEPT !.writeBuffer = Drop(@, d.bytesToWrite), !.bytesToWrite = -1]

(* receive: only when the whole payload is there; anything in the serial      *)
(* buffer counts, a line among it reads as the byte 0.                        *)
CanReceive(d) == Len(rx) >= d.bytesToRead
PayloadByte(token) == IF token.kind = "byte" THEN token.n ELSE 0
Receive(d) ==
  Raise([d EXCEPT !.readBuffer = @ \o [k \in 1 .. d.bytesToRead |-> PayloadByte(rx[k])],
                  !.bytesToRead = 0],
        "LINE_READ")

RequestRSSI(d) == [d EXCEPT !.rssi = "requested"]

(* requestIDString(), and requestMac() with the type "mac".                  *)
RequestIDString(d, type) ==
  [d EXCEPT !.idString = "", !.idRequest = type, !.idType = type]

(* sendCiprxget2 and sendCiprcvdata: ask for what fits into both buffers.     *)
(* Slip: the room in the read buffer is not looked at.                       *)
RequestableAnyway(d) == Lower(SerialSize - Len(rx) - Margin, d.bytesToReceive)

Requestable(d) ==
  Lower(SerialSize - Len(rx) - Margin,
        Lower(d.bytesToReceive, ReadBufferSize - Len(d.readBuffer)))
CanRequest(d) ==
  SerialSize - Len(rx) > Margin /\ Len(d.readBuffer) < ReadBufferSize
=============================================================================
