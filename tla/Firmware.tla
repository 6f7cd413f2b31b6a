------------------------------ MODULE Firmware ------------------------------
(***************************************************************************)
(* The life of the device around its sound: app_main brings the parts up   *)
(* one after the other and then sleeps; a phone connects, agrees on a rate *)
(* and sends; the A2DP callback follows the events of the Bluetooth stack  *)
(* with the scan mode and the clock of the I2S driver; a reset starts it   *)
(* all anew. In each of the seven versions of the repository.              *)
(*                                                                         *)
(* The stack calls the callback with one event at a time, in order, and    *)
(* some time after what happened: the phone may be further by then. Of the *)
(* audio only its end is here, the task that is in i2s_write while the     *)
(* callback stops the driver: AudioPipeline.tla is about the rest.         *)
(***************************************************************************)
EXTENDS CodecSetup

CONSTANTS
  Rates,        \* the sample rates phones agree on
  MaxEvents     \* events waiting for the callback: a bound

ASSUME FirmwareAssumption ==
  /\ Rates \subseteq {16000, 32000, 44100, 48000} /\ Rates # {}
  /\ MaxEvents \in Nat

VARIABLES
  step,         \* where app_main is: the part it brings up
  flash,        \* is there a free page in the flash?
  i2s,          \* the I2S driver
  rate,         \* and its clock
  scan,         \* the scan mode; "OFF" while there is no Bluetooth
  link,         \* the stack's connection to a phone
  agreed,       \* the rate agreed on over it; 0 for none
  streaming,    \* is the phone sending?
  events,       \* A2DP events the callback has not been called with
  setting,      \* the call of setSampleRate the callback is at
  samplerate,   \* its parameter
  chunk,        \* is there sound for the codec task?
  writing       \* is it in i2s_write?

appVars == <<step, flash>>
i2sVars == <<i2s, rate>>
linkVars == <<link, agreed, streaming>>
cbVars == <<scan, setting, samplerate>>
soundVars == <<chunk, writing>>
vars == <<firmware, codecVars, moves, appVars, i2sVars, linkVars, events, cbVars,
          soundVars>>

-----------------------------------------------------------------------------
(***************************************************************************)
(* app_main. "Task" and "Init" of an element are the two halves of its     *)
(* constructor: xTaskCreate and the values its task works with.            *)
(***************************************************************************)

AppMain_prototype_v1 == <<"InitFlash", "A2dpInit", "SetScanMode", "CodecInit", "I2SInit">>

AppMain_prototype_v2 == <<"InitFlash", "CodecInit", "I2SInit", "Bluetooth",
  "A2dpInit", "SetScanMode", "AudioCodecTask">>

AppMain_prototype_v3 == <<"InitFlash", "I2SInit", "CodecInit", "Bluetooth",
  "AudioCodecTask", "A2dpInit", "SetScanMode">>

AppMain_smartsound_v1 == <<"InitFlash", "I2SInit", "CodecInit", "Bluetooth",
  "EqualizerTask", "CrossoverTask", "CrossoverInit", "AudioCodecTask",
  "A2dpInit", "SetScanMode">>

AppMain_smartsound_v2 == <<"InitFlash", "I2SInit", "CodecInit", "Bluetooth",
  "EqualizerInit", "EqualizerTask", "CrossoverInit", "CrossoverTask",
  "AudioCodecTask", "A2dpInit", "SetScanMode">>

AppMain_smartsound_v3 == AppMain_smartsound_v2

\* Mutant: the device can be found before the chain stands.
AppMain_smartsound_finalEarly == <<"InitFlash", "I2SInit", "CodecInit", "Bluetooth",
  "A2dpInit", "SetScanMode", "EqualizerInit", "EqualizerTask",
  "CrossoverInit", "CrossoverTask", "AudioCodecTask">>

AppMain_smartsound_final == AppMain_smartsound_v3

AppMain ==
  [prototype_v1     |-> AppMain_prototype_v1,
   prototype_v2     |-> AppMain_prototype_v2,
   prototype_v3     |-> AppMain_prototype_v3,
   smartsound_v1    |-> AppMain_smartsound_v1,
   smartsound_v2    |-> AppMain_smartsound_v2,
   smartsound_v3    |-> AppMain_smartsound_v3,
   smartsound_final |-> AppMain_smartsound_final][firmware]

\* The rate I2SInit leaves the clock at.
I2SInit_prototype_v1 == 44100
I2SInit_prototype_v2 == 44100
I2SInit_prototype_v3 == 48000
I2SInit_smartsound_v1 == 48000
I2SInit_smartsound_v2 == 48000
I2SInit_smartsound_v3 == 48000
I2SInit_smartsound_final == 48000

InitialRate ==
  [prototype_v1     |-> I2SInit_prototype_v1,
   prototype_v2     |-> I2SInit_prototype_v2,
   prototype_v3     |-> I2SInit_prototype_v3,
   smartsound_v1    |-> I2SInit_smartsound_v1,
   smartsound_v2    |-> I2SInit_smartsound_v2,
   smartsound_v3    |-> I2SInit_smartsound_v3,
   smartsound_final |-> I2SInit_smartsound_final][firmware]

Done == {AppMain[i] : i \in 1 .. step - 1}
At(part) == step \in DOMAIN AppMain /\ AppMain[step] = part

Init ==
  /\ InitCodec /\ moves = 0 /\ flash \in {"free", "full"}
  /\ step = 1 /\ i2s = "none" /\ rate = 0
  /\ scan = "OFF" /\ link = "none" /\ agreed = 0 /\ streaming = FALSE /\ events = <<>>
  /\ setting = "idle" /\ samplerate = 0 /\ chunk = FALSE /\ writing = FALSE

\* A crash or power glitch of the ESP32, and the end of a failed
\* ESP_ERROR_CHECK. The phone loses the connection.
Restart ==
  /\ CodecReset /\ UNCHANGED firmware
  /\ step' = 1 /\ i2s' = "none" /\ rate' = 0
  /\ scan' = "OFF" /\ link' = "none" /\ agreed' = 0 /\ streaming' = FALSE /\ events' = <<>>
  /\ setting' = "idle" /\ samplerate' = 0 /\ chunk' = FALSE /\ writing' = FALSE

Reset ==
  /\ step > 1 /\ Move(1)
  /\ Restart /\ UNCHANGED flash

\* nvs_flash_init, and nvs_flash_erase when there is no free page; what the
\* second nvs_flash_init returns is not looked at.
InitFlash ==
  /\ At("InitFlash")
  /\ \/ /\ step' = step + 1 /\ flash' = "free"
        /\ UNCHANGED <<firmware, codecVars, moves, i2sVars, linkVars, events, cbVars,
                       soundVars>>
     \/ flash = "full" /\ Move(1) /\ Restart /\ UNCHANGED flash

I2SInit ==
  /\ At("I2SInit") /\ step' = step + 1
  /\ i2s' = "running" /\ rate' = InitialRate
  /\ UNCHANGED <<firmware, codecVars, moves, flash, linkVars, events, cbVars, soundVars>>

\* CodecInit returns, whatever it returns.
CodecInit ==
  /\ At("CodecInit")
  /\ \/ (InstallDriver \/ WriteCodecI2C) /\ UNCHANGED step
     \/ Returned /\ step' = step + 1 /\ UNCHANGED <<codecVars, moves>>
  /\ UNCHANGED <<firmware, flash, i2sVars, linkVars, events, cbVars, soundVars>>

\* The constructors of the audio elements. Nothing they do can fail but the
\* allocation of a stack, which is not looked at.
Construct ==
  /\ \E part \in {"Bluetooth", "EqualizerInit", "EqualizerTask", "CrossoverInit",
                  "CrossoverTask", "AudioCodecTask"} : At(part)
  /\ step' = step + 1
  /\ UNCHANGED <<firmware, codecVars, moves, flash, i2sVars, linkVars, events, cbVars,
                 soundVars>>

\* Bluetooth_a2dp_sink_init up to the callbacks: the controller and bluedroid
\* come up or ESP_ERROR_CHECK restarts the device.
A2dpInit ==
  /\ At("A2dpInit")
  /\ \/ /\ step' = step + 1 /\ scan' = "NONE"
        /\ UNCHANGED <<firmware, codecVars, moves, flash, i2sVars, linkVars, events,
                       setting, samplerate, soundVars>>
     \/ Move(1) /\ Restart /\ UNCHANGED flash

\* ... and its last call.
SetScanMode ==
  /\ At("SetScanMode") /\ step' = step + 1
  /\ scan' = "CONNECTABLE_DISCOVERABLE"
  /\ UNCHANGED <<firmware, codecVars, moves, flash, i2sVars, linkVars, events, setting,
                 samplerate, soundVars>>

Booting == InitFlash \/ I2SInit \/ CodecInit \/ Construct \/ A2dpInit \/ SetScanMode

-----------------------------------------------------------------------------
(***************************************************************************)
(* The phone and the stack. sbc0 is the byte of the event's parameter at   *)
(* the place of the first byte of an SBC configuration, whatever the event.*)
(***************************************************************************)

Connection(state, byte) == [event |-> "CONNECTION_STATE", state |-> state, sbc0 |-> byte]
Configuration(byte) == [event |-> "AUDIO_CFG", state |-> "", sbc0 |-> byte]

\* The sampling frequency of an SBC configuration, with joint stereo.
SbcByte(r) ==
  1 + (CASE r = 16000 -> 128 [] r = 32000 -> 64 [] r = 44100 -> 32 [] r = 48000 -> 16)

\* In a connection event this byte is one of the phone's address. Only
\* smartsound_v3 looks at it: no bit of a frequency in it, one, two.
AddressBytes == IF firmware = "smartsound_v3" THEN {0, 32, 48} ELSE {0}

Tell(e) == Len(events) < MaxEvents /\ events' = Append(events, e)

Environment(unmoved) ==
  UNCHANGED <<firmware, codecVars, appVars, i2sVars, cbVars, soundVars, unmoved>>

Connect ==
  /\ link = "none" /\ scan = "CONNECTABLE_DISCOVERABLE" /\ Move(1)
  /\ link' = "connecting"
  /\ \E b \in AddressBytes : Tell(Connection("CONNECTING", b))
  /\ Environment(<<agreed, streaming>>)

Established ==
  /\ link = "connecting" /\ link' = "up"
  /\ \E b \in AddressBytes : Tell(Connection("CONNECTED", b))
  /\ Environment(<<moves, agreed, streaming>>)

\* The connection ends, from either side, or does not come about.
Disconnect ==
  /\ link # "none" /\ link' = "none"
  /\ agreed' = 0 /\ streaming' = FALSE
  /\ \E b \in AddressBytes : Tell(Connection("DISCONNECTED", b))
  /\ Environment(moves)

\* The phone sets the configuration of the stream, or changes it.
Configure ==
  /\ link # "none" /\ ~streaming /\ Move(1)
  /\ \E r \in Rates : agreed' = r /\ Tell(Configuration(SbcByte(r)))
  /\ Environment(<<link, streaming>>)

StartOrStop ==
  /\ link = "up" /\ agreed # 0 /\ streaming' = ~streaming
  /\ Environment(<<moves, link, agreed, events>>)

Phone == Connect \/ Established \/ Disconnect \/ Configure \/ StartOrStop

\* bt_a2d_sink_data_cb, and what the chain makes of the packet. The first
\* prototype hands it to i2s_write itself; without a driver that fails or
\* ends in a restart.
Packet ==
  /\ streaming
  /\ \/ /\ firmware = "prototype_v1" /\ i2s # "none" /\ ~writing
        /\ writing' = TRUE
        /\ UNCHANGED <<firmware, codecVars, moves, appVars, i2sVars, linkVars, events,
                       cbVars, chunk>>
     \/ /\ firmware = "prototype_v1" /\ i2s = "none"
        /\ Move(1) /\ Restart /\ UNCHANGED flash
     \/ /\ firmware # "prototype_v1" /\ ~chunk
        /\ chunk' = TRUE
        /\ UNCHANGED <<firmware, codecVars, moves, appVars, i2sVars, linkVars, events,
                       cbVars, writing>>

BeginI2SWrite ==
  /\ chunk /\ ~writing /\ "AudioCodecTask" \in Done
  /\ chunk' = FALSE /\ writing' = TRUE
  /\ UNCHANGED <<firmware, codecVars, moves, appVars, i2sVars, linkVars, events, cbVars>>

\* The write ends at any moment: what is left of it may have room in a stopped
\* driver too. It need not, see Spec.
EndI2SWrite ==
  /\ writing /\ writing' = FALSE
  /\ UNCHANGED <<firmware, codecVars, moves, appVars, i2sVars, linkVars, events, cbVars,
                 chunk>>

-----------------------------------------------------------------------------
(***************************************************************************)
(* bt_a2d_sink_cb.                                                         *)
(***************************************************************************)

Bit(b, byte) == (byte \div b) % 2 = 1

\* Mutant: 44100 and 48000 are taken for each other.
DecodedSwapped(byte) ==
  IF Bit(128, byte) THEN 16000
  ELSE IF Bit(64, byte) THEN 32000
  ELSE IF Bit(32, byte) THEN 48000
  ELSE IF Bit(16, byte) THEN 44100
  ELSE 16000

Decoded(byte) ==
  IF Bit(128, byte) THEN 16000
  ELSE IF Bit(64, byte) THEN 32000
  ELSE IF Bit(32, byte) THEN 44100
  ELSE IF Bit(16, byte) THEN 48000
  ELSE 16000

\* Mutant: nobody makes the device discoverable again.
Callback_finalForgets(e) ==
  /\ scan' = IF e.event = "CONNECTION_STATE" /\ e.state = "CONNECTED" THEN "NONE" ELSE scan
  /\ IF e.event = "AUDIO_CFG"
     THEN setting' = "i2s_stop" /\ samplerate' = Decoded(e.sbc0)
     ELSE UNCHANGED <<setting, samplerate>>

\* The reset of prebuffered is part of AudioPipeline.
Callback_final(e) ==
  /\ scan' = IF e.event = "CONNECTION_STATE" /\ e.state = "DISCONNECTED"
             THEN "CONNECTABLE_DISCOVERABLE"
             ELSE IF e.event = "CONNECTION_STATE" /\ e.state = "CONNECTED" THEN "NONE"
             ELSE scan
  /\ IF e.event = "AUDIO_CFG"
     THEN setting' = "i2s_stop" /\ samplerate' = Decoded(e.sbc0)
     ELSE UNCHANGED <<setting, samplerate>>

\* Every connection event, the last bit found, and a local variable without a
\* value if there is none.
Callback_v3(e) ==
  /\ IF e.event = "CONNECTION_STATE"
     THEN /\ setting' = "i2s_stop"
          /\ samplerate' \in IF Bit(16, e.sbc0) THEN {48000}
                             ELSE IF Bit(32, e.sbc0) THEN {44100}
                             ELSE IF Bit(64, e.sbc0) THEN {32000}
                             ELSE IF Bit(128, e.sbc0) THEN {16000}
                             ELSE {0} \cup Rates
     ELSE UNCHANGED <<setting, samplerate>>
  /\ UNCHANGED scan

\* The other versions log a line.
CallEvent ==
  /\ events # <<>> /\ setting = "idle"
  /\ events' = Tail(events)
  /\ CASE firmware = "smartsound_final" -> Callback_final(Head(events))
       [] firmware = "smartsound_v3"    -> Callback_v3(Head(events))
       [] OTHER                         -> UNCHANGED cbVars
  /\ UNCHANGED <<firmware, codecVars, moves, appVars, i2sVars, linkVars, soundVars>>

\* Mutant: the driver is not started again.
SetSampleRateStops ==
  /\ \/ setting = "i2s_stop" /\ setting' = "i2s_set_clk" /\ i2s' = "stopped" /\ UNCHANGED rate
     \/ /\ setting = "i2s_set_clk" /\ ~writing
        /\ setting' = "idle" /\ rate' = samplerate /\ UNCHANGED i2s
  /\ UNCHANGED <<firmware, codecVars, moves, appVars, linkVars, events, scan, samplerate,
                 soundVars>>

\* setSampleRate, call by call. i2s_stop takes no lock. i2s_set_clk, and
\* i2s_set_sample_rates of smartsound_v3, which calls it, take the lock of the
\* transmitter, and i2s_write holds it until it returns.
SetSampleRate ==
  /\ \/ setting = "i2s_stop" /\ setting' = "i2s_set_clk" /\ i2s' = "stopped" /\ UNCHANGED rate
     \/ /\ setting = "i2s_set_clk" /\ ~writing
        /\ setting' = "i2s_start" /\ rate' = samplerate /\ UNCHANGED i2s
     \/ setting = "i2s_start" /\ setting' = "idle" /\ i2s' = "running" /\ UNCHANGED rate
  /\ UNCHANGED <<firmware, codecVars, moves, appVars, linkVars, events, scan, samplerate,
                 soundVars>>

Callback == CallEvent \/ SetSampleRate

Next == Booting \/ Reset \/ Phone \/ Packet \/ BeginI2SWrite \/ EndI2SWrite \/ Callback

\* A driver that runs empties its buffers, and then a write ends. All versions
\* but the last wait for room no longer than 100 ticks.
WriteMustEnd == i2s = "running" \/ firmware # "smartsound_final"

\* app_main runs until it sleeps, and the stack delivers its events. Nothing
\* makes the phone do anything.
Spec == /\ Init /\ [][Next]_vars
        /\ WF_vars(Booting) /\ WF_vars(Callback)
        /\ WF_vars(WriteMustEnd /\ EndI2SWrite)

-----------------------------------------------------------------------------
SetUp == step > Len(AppMain)

\* "Chaining Audio elements": when sound comes in, the driver, the codec and
\* every element of the chain are there with their values. (The first two
\* prototypes let a phone connect before: there it may come too early.)
SoundFindsChain ==
  firmware \notin {"prototype_v1", "prototype_v2"} /\ (chunk \/ writing) => SetUp

Settled == SetUp /\ events = <<>> /\ setting = "idle"

\* In the final version, once the callback has followed the phone, the clock
\* runs at the rate agreed on, however often it was changed and whoever had
\* to be waited for (it may never be there, see WaitForEachOther) ...
ClockFollows ==
  firmware = "smartsound_final" /\ Settled /\ agreed # 0 =>
    i2s = "running" /\ rate = agreed

\* ... and the device can be found by other phones if and only if none is
\* connected.
FoundUnlessTaken ==
  firmware = "smartsound_final" /\ Settled =>
    (scan = "CONNECTABLE_DISCOVERABLE" <=> link # "up")

\* The final version waits in i2s_write without a limit. If the callback stops
\* the driver while the codec task waits there for room, the callback waits for
\* the codec task in i2s_set_clk, and the codec task for the callback.
WaitForEachOther ==
  firmware = "smartsound_final" /\ writing /\ setting = "i2s_set_clk"

\* This is the only way for the codec task to stay in i2s_write: in the other
\* versions, and whenever the driver was stopped between two writes, the
\* callback starts it again and the write returns.
WriteReturns == <>[]WaitForEachOther \/ []<>~writing

\* A device without a phone can be found again in the end: after a failed
\* setup, a reset, a flash that was full, a connection that broke; unless
\* the callback, which makes it so, waits for the codec task for ever.
ReachableAgain ==
  \/ <>[]WaitForEachOther
  \/ link = "none" ~> (link # "none" \/ scan = "CONNECTABLE_DISCOVERABLE")
=============================================================================
