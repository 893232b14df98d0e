---------------------------- MODULE IPCommDevice ----------------------------
(***************************************************************************)
(* cicada/commdevices/ipcommdevice.cpp: what the application sees of every *)
(* modem driver.  The driver object is the record dev; derived modules add *)
(* their members to it.  The two data buffers are queues of bytes, which   *)
(* is what LineCircularBuffer shows a circular buffer to be.  The host,    *)
(* the port, the type of the connection, the APN and the name of the WiFi  *)
(* network are set before connect() is called.                             *)
(***************************************************************************)
EXTENDS Integers, Sequences

CONSTANTS ReadBufferSize,   \* readBufferSize of the constructor
          WriteBufferSize   \* writeBufferSize of the constructor

ASSUME BufferSizesAssumption ==
  ReadBufferSize \in Nat \ {0} /\ WriteBufferSize \in Nat \ {0}

VARIABLE dev  \* the driver object

NULL == "NULL"

StateBooleans == {"CONNECT_PENDING", "RESET_PENDING", "DATA_PENDING",
                  "DISCONNECT_PENDING", "IP_CONNECTED", "LINE_READ", "SERIAL_LOCKED"}

ConnectStates == {"notConnected", "intermediate", "connected", "transmitting",
                  "receiving", "generalError", "dnsError"}

Lower(a, b) == IF a < b THEN a ELSE b
Drop(s, n) == SubSeq(s, n + 1, Len(s))

Has(d, flag) == flag \in d.stateBooleans
Raise(d, flag) == [d EXCEPT !.stateBooleans = @ \cup {flag}]
Lift(d, flag) == [d EXCEPT !.stateBooleans = @ \ {flag}]

NewIPCommDevice ==
  [readBuffer |-> <<>>, writeBuffer |-> <<>>, stateBooleans |-> {"LINE_READ"},
   connectState |-> "notConnected", waitForReply |-> NULL, type |-> "TCP"]

IsConnected(d) == d.connectState \in {"connected", "transmitting", "receiving"}
IsIdle(d) == d.connectState = "notConnected"

(* spaceAvailable() and how much write() accepts.                            *)
SpaceFor(d) == IF d.connectState # "connected" THEN 0
               ELSE WriteBufferSize - Len(d.writeBuffer)

WriteBufferProcessed(d) == d.writeBuffer = <<>> /\ d.connectState # "transmitting"

Connected(d) == Raise(Lift(d, "DISCONNECT_PENDING"), "CONNECT_PENDING")

Disconnected(d) ==
  IF IsIdle(d) THEN d
  ELSE Raise(Lift(d, "CONNECT_PENDING"), "DISCONNECT_PENDING")

Written(d, data) ==
  [d EXCEPT !.writeBuffer = @ \o SubSeq(data, 1, Lower(Len(data), SpaceFor(d)))]

ReadData(d, size) == SubSeq(d.readBuffer, 1, Lower(size, Len(d.readBuffer)))
AfterRead(d, size) == [d EXCEPT !.readBuffer = Drop(@, Lower(size, Len(@)))]
=============================================================================
