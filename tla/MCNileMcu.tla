------------------------------ MODULE MCNileMcu ------------------------------
(***************************************************************************)
(* NileMcu under one of four hosts.  A host sends whole messages, a byte   *)
(* per exchange, of its set `messages` (`boot` while the boot loader runs),*)
(* single bytes where any order of bytes matters.  A polite one takes a    *)
(* whole answer before it sends again.  The far end of the serial line     *)
(* sends the bytes 1, 2, .. `serial`, so that every byte is told apart.    *)
(* A host that drains may, at any moment, give up: from then on it clocks  *)
(* out fill bytes only, as the READ and WAIT_READ transfers of the SPI     *)
(* controller do.  The list behind an erase is of one repeated byte: only  *)
(* its length matters, and 2, 36 announces the longest a queue of 1100     *)
(* bytes can take.                                                         *)
(***************************************************************************)
EXTENDS NileSerial

CONSTANT Kinds      \* the hosts of a run, of those below

VARIABLES kind, toSend, draining
hostVars == <<toSend, draining>>
allVars == <<serialVars, kind, hostVars>>

Quiet == [messages |-> {<<FREQ, 0>>}, boot |-> {<<FREQ, 0>>}, polite |-> FALSE,
          drains |-> FALSE, resets |-> {FALSE}, serial |-> 0, out |-> 0]
Hosts == [
  bytes |-> [Quiet EXCEPT !.messages = {<<b>> : b \in 0 .. 3}],
  packets |-> [Quiet EXCEPT !.polite = TRUE, !.drains = TRUE, !.messages =
    { <<FREQ, 0>>, <<ID, 0>>, <<VERSION, 0>>, <<EEPROM_MODE, 3>>, <<EEPROM_GET_MODE, 0>>,
      <<EEPROM_READ + 128, 0, 0, 4>>, <<EEPROM_READ, 0, 0, 0>>,
      <<SET_SAVE_ID, 0, 1, 2, 3, 255>>, <<GET_SAVE_ID, 0>>, <<ACCEL_READ, 0>>,
      <<RTC_COMMAND, 2, 1, 2, 3, 4, 5, 6, 7>>, <<RTC_COMMAND, 3, 9, 9, 9>>,
      <<RTC_COMMAND + 128, 2>>, <<RTC_COMMAND + 128, 3>>, <<RTC_COMMAND + 128, 1>>,
      <<1, 0>> }],
  serial |-> [Quiet EXCEPT !.polite = TRUE, !.serial = 3, !.messages =
    { <<CDC_READ, 0>>, <<CDC_READ + 128, 0>>, <<CDC_AVAILABLE, 0>>, <<CDC_FLUSH, 0>>,
      <<CDC_WRITE, 1, 7, 8>>, <<FillByte>> }],
  boot |-> [Quiet EXCEPT !.resets = BOOLEAN, !.boot =
    {<<b>> : b \in {BOOT_START, BOOT_ACK, 2, 36}} \cup
    {<<BOOT_START, c, 255 - c>> : c \in {BOOT_READ, BOOT_JUMP, BOOT_ERASE}}] ]
Host == Hosts[kind]

HostClocks ==
    \E m \in IF toSend # <<>> THEN {toSend}
             ELSE IF draining \/ (Host.polite /\ tx # <<>>) THEN {<<FillByte>>}
             ELSE IF bootMode
             THEN IF bootStep = 2 /\ ~waitingAck /\ rx # <<>> THEN {<<2>>} ELSE Host.boot
             ELSE Host.messages :
        /\ Len(serialOut) <= Host.out
        /\ Exchange(Head(m))
        /\ toSend' = Tail(m)
        /\ UNCHANGED <<sent, draining>>

HostDrains ==
    /\ Host.drains /\ ~draining /\ ~bootMode
    /\ draining' = TRUE /\ toSend' = <<>>
    /\ UNCHANGED <<mcuVars, sent>>

PowerResets ==
    /\ ~draining
    /\ \E boot \in Host.resets : Reset(boot)
    /\ toSend' = <<>>
    /\ UNCHANGED <<sent, draining>>

SerialLine ==
    /\ \/ sent < Host.serial /\ SendsNext
       \/ (FarEndReads \/ UartReads) /\ UNCHANGED sent
    /\ UNCHANGED hostVars

MCInit == SerialInit /\ kind \in Kinds /\ toSend = <<>> /\ draining = FALSE
Clocks == HostClocks /\ UNCHANGED kind
MCNext == Clocks \/ ((HostDrains \/ PowerResets \/ SerialLine) /\ UNCHANGED kind)
MCSpec == MCInit /\ [][MCNext]_allVars /\ WF_allVars(Clocks)

-----------------------------------------------------------------------------
(* Wherever a host breaks off, in the middle of a packet or an answer,     *)
(* clocking fill bytes brings a native mode MCU back to its idle state.    *)
DrainResynchronises == draining ~> (tx = <<>> /\ rx = <<>>)
=============================================================================
