--------------------------- MODULE Firmware_proofs ---------------------------
(***************************************************************************)
(* Proofs about the device around its sound, for every budget of failures, *)
(* resets and connections and every number of events that wait: the setup  *)
(* of the codec, the order of app_main, and the callback that follows the  *)
(* phone.                                                                  *)
(***************************************************************************)
EXTENDS Firmware, SequenceTheorems, TLAPS

-----------------------------------------------------------------------------
(***************************************************************************)
(* The rows of writes.                                                     *)
(***************************************************************************)

Writes(s) == {s[i] : i \in 1 .. Len(s)}

\* The row of the third prototype is a sequence of 27 writes.
LEMMA SetupOfPrototype3 ==
  /\ Len(Setup_prototype_v3) = 27
  /\ Setup_prototype_v3 \in Seq(Writes(Setup_prototype_v3))
<1>1. Len(Setup_prototype_v3) = 27
  BY DEF Setup_prototype_v3
<1>2. Setup_prototype_v3 = [i \in 1 .. 27 |-> Setup_prototype_v3[i]]
  BY DEF Setup_prototype_v3
<1>3. Setup_prototype_v3 \in [1 .. 27 -> Writes(Setup_prototype_v3)]
  BY <1>1, <1>2 DEF Writes
<1> QED
  BY <1>1, <1>3, SeqDef

\* So is the one of the first SmartSound system, which is put together from it.
LEMMA SetupOfSmartsound ==
  \E S : Setup_smartsound_v1 \in Seq(S)
<1> DEFINE S == Writes(Setup_prototype_v3)
                  \cup {Write("DACCONTROL24", 30), Write("DACCONTROL25", 30)}
<1>1. \A i \in 1 .. 27 : Setup_prototype_v3[i] \in S
  BY SetupOfPrototype3 DEF Writes
<1>2. <<Write("DACCONTROL24", 30), Write("DACCONTROL25", 30)>> \in Seq(S)
  OBVIOUS
<1> HIDE DEF S
<1>3. SubSeq(Setup_prototype_v3, 1, 24) \in Seq(S)
  <2>1. \A i \in 1 .. 24 : Setup_prototype_v3[i] \in S
    BY <1>1
  <2> QED
    BY <2>1, SubSeqProperties
<1>4. SubSeq(Setup_prototype_v3, 25, 27) \in Seq(S)
  <2>1. \A i \in 25 .. 27 : Setup_prototype_v3[i] \in S
    BY <1>1
  <2>2. 25 \in Int /\ 27 \in Int
    OBVIOUS
  <2> QED
    BY ONLY <2>1, <2>2, SubSeqProperties, Zenon
<1>5. Setup_smartsound_v1 \in Seq(S)
  BY <1>2, <1>3, <1>4, ConcatProperties DEF Setup_smartsound_v1
<1> QED
  BY <1>5

\* The writes of every version are numbered from 1 to their number.
LEMMA SetupIsSequence ==
  ASSUME NEW v \in AllVersions
  PROVE  Len(Setup(v)) \in Nat /\ DOMAIN Setup(v) = 1 .. Len(Setup(v))
<1>1. CASE v = "prototype_v1"
  <2>1. Len(Setup_prototype_v1) \in Nat
          /\ DOMAIN Setup_prototype_v1 = 1 .. Len(Setup_prototype_v1)
    BY DEF Setup_prototype_v1
  <2>2. Setup(v) = Setup_prototype_v1
    BY <1>1 DEF Setup
  <2> QED
    BY <2>1, <2>2
<1>2. CASE v = "prototype_v2"
  <2>1. Len(Setup_prototype_v2) \in Nat
          /\ DOMAIN Setup_prototype_v2 = 1 .. Len(Setup_prototype_v2)
    BY DEF Setup_prototype_v2
  <2>2. Setup(v) = Setup_prototype_v2
    BY <1>2 DEF Setup
  <2> QED
    BY <2>1, <2>2
<1>3. CASE v = "prototype_v3"
  <2>1. Setup(v) = Setup_prototype_v3
    BY <1>3 DEF Setup
  <2> QED
    BY <2>1, SetupOfPrototype3
<1>4. CASE v \in AllVersions \ {"prototype_v1", "prototype_v2", "prototype_v3"}
  <2>1. Setup(v) = Setup_smartsound_v1
    BY <1>4 DEF AllVersions, Setup, Setup_smartsound_v2, Setup_smartsound_v3,
                Setup_smartsound_final
  <2>2. Len(Setup_smartsound_v1) \in Nat
          /\ DOMAIN Setup_smartsound_v1 = 1 .. Len(Setup_smartsound_v1)
    BY SetupOfSmartsound
  <2> QED
    BY <2>1, <2>2
<1> QED
  BY <1>1, <1>2, <1>3, <1>4 DEF AllVersions

-----------------------------------------------------------------------------
(***************************************************************************)
(* The setup.                                                              *)
(***************************************************************************)

\* As long as no transfer of this setup has failed, every register holds the
\* last value written to it so far.
WrittenSoFar ==
  res = "ESP_OK" =>
    \A i \in DOMAIN Table :
      i < next /\ (\A j \in DOMAIN Table : i < j /\ j < next => Table[j][1] # Table[i][1])
        => registers[Table[i][1]] = Table[i][2]

CodecInv ==
  /\ firmware \in AllVersions
  /\ registers = [r \in Registers |-> registers[r]]
  /\ next \in 0 .. Len(Table) + 1
  /\ WrittenSoFar

\* The writes of a version go to registers the codec has.
LEMMA RegistersOfTable ==
  ASSUME firmware \in AllVersions, NEW i \in DOMAIN Table
  PROVE  Table[i][1] \in Registers
  BY DEF Table, Registers

LEMMA CodecInvInit == Init => CodecInv
<1> SUFFICES ASSUME Init PROVE CodecInv
  OBVIOUS
<1>1. firmware \in AllVersions
  BY CodecSetupAssumption DEF Init, InitCodec
<1>2. registers = [r \in Registers |-> registers[r]]
  BY DEF Init, InitCodec, PowerUp, LeftBy
<1>3. next = 0 /\ Len(Table) \in Nat /\ DOMAIN Table = 1 .. Len(Table)
  BY <1>1, SetupIsSequence DEF Init, InitCodec, Table
<1> QED
  BY <1>1, <1>2, <1>3 DEF CodecInv, WrittenSoFar

LEMMA CodecInvNext == CodecInv /\ [Next]_vars => CodecInv'
<1> SUFFICES ASSUME CodecInv, [Next]_vars PROVE CodecInv'
  OBVIOUS
<1>0. /\ firmware \in AllVersions
      /\ Len(Table) \in Nat /\ DOMAIN Table = 1 .. Len(Table)
  BY SetupIsSequence DEF CodecInv, Table
<1>1. CASE UNCHANGED <<firmware, codecVars>>
  BY <1>1 DEF CodecInv, WrittenSoFar, Table, codecVars
<1>2. CASE CodecReset /\ UNCHANGED firmware
  BY <1>0, <1>2 DEF CodecInv, WrittenSoFar, Table, CodecReset
<1>3. CASE InstallDriver /\ UNCHANGED firmware
  BY <1>0, <1>3 DEF CodecInv, WrittenSoFar, Table, InstallDriver
<1>4. CASE WriteCodecI2C /\ UNCHANGED firmware
  <2>1. next \in DOMAIN Table /\ next' = next + 1 /\ Table' = Table
    BY <1>4 DEF WriteCodecI2C, Table
  <2>2. registers' \in {registers, Transferred}
    BY <1>4 DEF WriteCodecI2C, Acknowledged, Failed
  <2>3. registers' = [r \in Registers |-> registers'[r]]
    BY <2>2 DEF CodecInv, Transferred
  <2>4. ASSUME res' = "ESP_OK" PROVE res = "ESP_OK" /\ registers' = Transferred
    BY <1>4, <2>4 DEF WriteCodecI2C, Acknowledged
  <2>5. WrittenSoFar'
    <3> SUFFICES ASSUME res' = "ESP_OK", NEW i \in DOMAIN Table, i < next + 1,
                        \A j \in DOMAIN Table : i < j /\ j < next + 1
                                                  => Table[j][1] # Table[i][1]
                 PROVE  registers'[Table[i][1]] = Table[i][2]
      BY <2>1 DEF WrittenSoFar
    <3>1. Table[next][1] \in Registers /\ Table[i][1] \in Registers
      BY <1>0, <2>1, RegistersOfTable
    <3>2. CASE i = next
      BY <2>4, <3>1, <3>2 DEF Transferred, CodecInv
    <3>3. CASE i < next
      <4>1. Table[next][1] # Table[i][1]
        BY <1>0, <2>1, <3>3
      <4>2. registers[Table[i][1]] = Table[i][2]
        BY <1>0, <2>1, <2>4, <3>3 DEF CodecInv, WrittenSoFar
      <4> QED
        BY <2>4, <3>1, <4>1, <4>2 DEF Transferred, CodecInv
    <3> QED
      BY <1>0, <2>1, <3>2, <3>3
  <2> QED
    BY <1>0, <1>4, <2>1, <2>3, <2>5 DEF CodecInv
<1>5. QED
  BY <1>1, <1>2, <1>3, <1>4
  DEF Next, vars, Booting, InitFlash, I2SInit, CodecInit, Construct, A2dpInit,
      SetScanMode, Reset, Restart, Phone, Connect, Established, Disconnect, Configure,
      StartOrStop, Environment, Packet, BeginI2SWrite, EndI2SWrite, Callback, CallEvent,
      SetSampleRate

\* A setup of the codec that returns ESP_OK has set every register it is
\* about, for each version and however many setups were broken off before.
THEOREM SetUpCorrect == Spec => []OkMeansSetUp
<1>1. CodecInv => OkMeansSetUp
  <2> SUFFICES ASSUME CodecInv, Returned, res = "ESP_OK",
                      NEW i \in DOMAIN Table, Stays(Table, i)
               PROVE  registers[Table[i][1]] = Table[i][2]
    BY DEF OkMeansSetUp
  <2>1. Len(Table) \in Nat /\ DOMAIN Table = 1 .. Len(Table)
    BY SetupIsSequence DEF CodecInv, Table
  <2>2. \A j \in DOMAIN Table : i < j => Table[j][1] # Table[i][1]
    BY <2>1 DEF Stays
  <2> QED
    BY <2>1, <2>2 DEF CodecInv, WrittenSoFar, Returned
<1> QED
  BY <1>1, CodecInvInit, CodecInvNext, PTL DEF Spec

-----------------------------------------------------------------------------
(***************************************************************************)
(* The chain stands when sound comes in. In the versions that make the     *)
(* device discoverable last, nothing reaches the callbacks before.         *)
(***************************************************************************)

Late == firmware \notin {"prototype_v1", "prototype_v2"}

\* No phone, no event and no sound.
Quiet ==
  /\ scan # "CONNECTABLE_DISCOVERABLE" /\ link = "none" /\ agreed = 0 /\ events = <<>>
  /\ setting = "idle"
  /\ streaming = FALSE /\ chunk = FALSE /\ writing = FALSE

Messages == [event : {"CONNECTION_STATE", "AUDIO_CFG"},
             state : {"", "CONNECTING", "CONNECTED", "DISCONNECTED"},
             sbc0 : Nat]

DeviceTypes ==
  /\ firmware \in AllVersions /\ step \in Nat \ {0}
  /\ events \in Seq(Messages) /\ agreed \in Rates \cup {0}
  /\ streaming \in BOOLEAN /\ chunk \in BOOLEAN /\ writing \in BOOLEAN

DeviceInv == DeviceTypes /\ (Late /\ ~ SetUp => Quiet)

\* A part at whose turn app_main is means it has not set everything up.
LEMMA AppMainRow ==
  ASSUME NEW v \in AllVersions, firmware = v
  PROVE  Len(AppMain) \in Nat /\ DOMAIN AppMain = 1 .. Len(AppMain)
<1>1. CASE v = "prototype_v1"
  <2>1. AppMain = AppMain_prototype_v1
    BY <1>1 DEF AppMain
  <2> QED
    BY <2>1 DEF AppMain_prototype_v1
<1>2. CASE v = "prototype_v2"
  <2>1. AppMain = AppMain_prototype_v2
    BY <1>2 DEF AppMain
  <2> QED
    BY <2>1 DEF AppMain_prototype_v2
<1>3. CASE v = "prototype_v3"
  <2>1. AppMain = AppMain_prototype_v3
    BY <1>3 DEF AppMain
  <2> QED
    BY <2>1 DEF AppMain_prototype_v3
<1>4. CASE v = "smartsound_v1"
  <2>1. AppMain = AppMain_smartsound_v1
    BY <1>4 DEF AppMain
  <2> QED
    BY <2>1 DEF AppMain_smartsound_v1
<1>5. CASE v \in {"smartsound_v2", "smartsound_v3", "smartsound_final"}
  <2>1. AppMain = AppMain_smartsound_v2
    BY <1>5 DEF AppMain, AppMain_smartsound_v3, AppMain_smartsound_final
  <2> QED
    BY <2>1 DEF AppMain_smartsound_v2
<1> QED
  BY <1>1, <1>2, <1>3, <1>4, <1>5 DEF AllVersions

\* From the third prototype on, SetScanMode is the last part.
LEMMA ScanModeLast ==
  ASSUME firmware \in AllVersions, Late, At("SetScanMode")
  PROVE  step = Len(AppMain)
<1>1. CASE firmware = "prototype_v3"
  <2>1. AppMain = AppMain_prototype_v3
    BY <1>1 DEF AppMain
  <2> QED
    BY <2>1 DEF AppMain_prototype_v3, At
<1>2. CASE firmware = "smartsound_v1"
  <2>1. AppMain = AppMain_smartsound_v1
    BY <1>2 DEF AppMain
  <2> QED
    BY <2>1 DEF AppMain_smartsound_v1, At
<1>3. CASE firmware \in {"smartsound_v2", "smartsound_v3", "smartsound_final"}
  <2>1. AppMain = AppMain_smartsound_v2
    BY <1>3 DEF AppMain, AppMain_smartsound_v3, AppMain_smartsound_final
  <2> QED
    BY <2>1 DEF AppMain_smartsound_v2, At
<1> QED
  BY <1>1, <1>2, <1>3 DEF AllVersions, Late

LEMMA DeviceInvInit == Init => DeviceInv
<1> SUFFICES ASSUME Init PROVE DeviceInv
  OBVIOUS
<1>1. streaming = FALSE /\ chunk = FALSE /\ writing = FALSE
  BY Zenon DEF Init
<1>2. firmware \in AllVersions
  BY CodecSetupAssumption DEF Init, InitCodec
<1>3. DeviceTypes
  <2>1. streaming \in BOOLEAN /\ chunk \in BOOLEAN /\ writing \in BOOLEAN
    BY <1>1, Zenon
  <2>2. events \in Seq(Messages) /\ step \in Nat \ {0} /\ agreed \in Rates \cup {0}
    BY DEF Init
  <2> QED
    BY <1>2, <2>1, <2>2 DEF DeviceTypes
<1>4. Quiet
  BY <1>1 DEF Init, Quiet
<1> QED
  BY <1>3, <1>4 DEF DeviceInv

\* A restart leaves nothing behind but the codec and the flash.
LEMMA RestartQuiet ==
  ASSUME DeviceInv, Restart
  PROVE  DeviceInv' /\ firmware' = firmware /\ step' = 1 /\ events' = <<>> /\ agreed' = 0
         /\ setting' = "idle"
<1>1. streaming' = FALSE /\ chunk' = FALSE /\ writing' = FALSE
  BY Zenon DEF Restart
<1>2. /\ firmware' = firmware /\ step' = 1 /\ events' = <<>> /\ agreed' = 0
      /\ scan' = "OFF" /\ link' = "none" /\ setting' = "idle"
  BY DEF Restart
<1>3. DeviceTypes'
  <2>1. streaming' \in BOOLEAN /\ chunk' \in BOOLEAN /\ writing' \in BOOLEAN
    BY <1>1, Zenon
  <2>2. events' \in Seq(Messages) /\ step' \in Nat \ {0} /\ agreed' \in Rates \cup {0}
    BY <1>2
  <2> QED
    BY <1>2, <2>1, <2>2 DEF DeviceInv, DeviceTypes
<1>4. Quiet'
  BY <1>1, <1>2 DEF Quiet
<1> QED
  BY <1>2, <1>3, <1>4 DEF DeviceInv

\* While app_main sets a part up, a phone that is not there stays away.
BootStep ==
  /\ UNCHANGED <<firmware, linkVars, events, setting, samplerate, soundVars>>
  /\ step \in DOMAIN AppMain
  /\ \/ step' = step /\ scan' = scan /\ UNCHANGED i2sVars /\ At("CodecInit")
     \/ /\ step' = step + 1
        /\ \/ scan' \in {scan, "NONE"} /\ ~ At("SetScanMode")
           \/ scan' = "CONNECTABLE_DISCOVERABLE" /\ At("SetScanMode")
        /\ \/ UNCHANGED i2sVars /\ ~ At("I2SInit")
           \/ i2s' = "running"

LEMMA BootSteps == Booting => BootStep \/ Restart
<1> SUFFICES ASSUME Booting PROVE BootStep \/ Restart
  OBVIOUS
<1>1. CASE InitFlash
  BY <1>1 DEF InitFlash, BootStep, At, cbVars
<1>2. CASE I2SInit
  BY <1>2 DEF I2SInit, BootStep, At, cbVars
<1>3. CASE CodecInit
  BY <1>3 DEF CodecInit, BootStep, At, cbVars
<1>4. CASE Construct
  BY <1>4 DEF Construct, BootStep, At, cbVars
<1>5. CASE A2dpInit
  BY <1>5 DEF A2dpInit, BootStep, At
<1>6. CASE SetScanMode
  BY <1>6 DEF SetScanMode, BootStep, At
<1> QED
  BY <1>1, <1>2, <1>3, <1>4, <1>5, <1>6 DEF Booting

LEMMA DeviceBoots ==
  ASSUME DeviceInv, BootStep
  PROVE  DeviceInv'
<1>1. /\ firmware' = firmware /\ events' = events /\ link' = link /\ agreed' = agreed
      /\ setting' = setting
  BY DEF BootStep, linkVars
<1>2. streaming' = streaming /\ chunk' = chunk /\ writing' = writing
  BY Zenon DEF BootStep, linkVars, soundVars
<1>3. AppMain' = AppMain
  BY <1>1 DEF AppMain
<1>4. step \in 1 .. Len(AppMain) /\ Len(AppMain) \in Nat
  BY AppMainRow DEF BootStep, DeviceInv, DeviceTypes
<1>5. DeviceTypes'
  BY <1>1, <1>2, <1>4 DEF BootStep, DeviceInv, DeviceTypes
<1>6. ASSUME Late', ~ SetUp' PROVE Quiet'
  <2>1. Late /\ ~ SetUp
    BY <1>1, <1>4, <1>6 DEF SetUp, Late
  <2>2. Quiet
    BY <2>1 DEF DeviceInv
  <2>3. scan' # "CONNECTABLE_DISCOVERABLE"
    <3>1. ASSUME At("SetScanMode"), step' = step + 1 PROVE FALSE
      <4>1. step' = Len(AppMain) + 1
        BY <2>1, <3>1, ScanModeLast DEF DeviceInv, DeviceTypes
      <4> QED
        BY <1>3, <1>4, <1>6, <4>1 DEF SetUp
    <3> QED
      BY <2>2, <3>1 DEF BootStep, Quiet
  <2> QED
    BY <1>1, <1>2, <2>2, <2>3 DEF Quiet
<1> QED
  BY <1>5, <1>6 DEF DeviceInv

\* Everything but app_main and a reset.
Outside ==
  Phone \/ (Packet /\ ~ Restart) \/ BeginI2SWrite \/ EndI2SWrite \/ Callback

\* None of it before the device is set up.
LEMMA OutsideLate ==
  ASSUME DeviceInv, Late, Outside
  PROVE  SetUp
<1> SUFFICES ASSUME Quiet PROVE FALSE
  BY DEF DeviceInv
<1>1. ~ streaming /\ ~ chunk /\ ~ writing
  BY Zenon DEF Quiet
<1>2. CASE Phone
  BY <1>1, <1>2 DEF Quiet, Phone, Connect, Established, Disconnect, Configure, StartOrStop
<1>3. CASE Packet \/ BeginI2SWrite \/ EndI2SWrite
  BY <1>1, <1>3, Zenon DEF Packet, BeginI2SWrite, EndI2SWrite
<1>4. CASE Callback
  BY <1>4 DEF Quiet, Callback, CallEvent, SetSampleRate
<1> QED
  BY <1>2, <1>3, <1>4 DEF Outside

\* What a phone makes the stack tell the callback is a message.
LEMMA Told ==
  ASSUME DeviceInv, Phone
  PROVE  \/ events' = events
         \/ \E e \in Messages : events' = Append(events, e)
<1>1. ASSUME NEW b \in AddressBytes,
             NEW s \in {"CONNECTING", "CONNECTED", "DISCONNECTED"}
      PROVE  Connection(s, b) \in Messages
  <2>1. b \in Nat
    BY DEF AddressBytes
  <2> QED
    BY <2>1 DEF Connection, Messages
<1>2. ASSUME NEW r \in Rates PROVE Configuration(SbcByte(r)) \in Messages
  <2>1. SbcByte(r) \in Nat
    BY FirmwareAssumption DEF SbcByte
  <2> QED
    BY <2>1 DEF Configuration, Messages
<1>3. CASE StartOrStop
  BY <1>3 DEF StartOrStop, Environment
<1>4. CASE Configure
  BY <1>2, <1>4, Zenon DEF Configure, Tell
<1>5. CASE Connect \/ Established \/ Disconnect
  <2>1. \E b \in AddressBytes, s \in {"CONNECTING", "CONNECTED", "DISCONNECTED"} :
          events' = Append(events, Connection(s, b))
    BY <1>5 DEF Connect, Established, Disconnect, Tell
  <2> QED
    BY <1>1, <2>1, Zenon
<1> QED
  BY <1>3, <1>4, <1>5 DEF Phone

LEMMA DeviceOutside ==
  ASSUME DeviceInv, Outside
  PROVE  DeviceInv' /\ UNCHANGED <<firmware, step>>
<1>0. streaming \in BOOLEAN /\ chunk \in BOOLEAN /\ writing \in BOOLEAN
  BY DEF DeviceInv, DeviceTypes
<1>1. firmware' = firmware /\ step' = step
  BY DEF Outside, Phone, Connect, Established, Disconnect, Configure, StartOrStop,
         Environment, appVars, Packet, BeginI2SWrite, EndI2SWrite, Callback, CallEvent,
         SetSampleRate
<1>2. events' \in Seq(Messages)
  <2>1. events \in Seq(Messages)
    BY DEF DeviceInv, DeviceTypes
  <2>2. CASE Phone
    BY <2>1, <2>2, Told, AppendProperties
  <2>3. CASE CallEvent
    BY <2>1, <2>3, HeadTailProperties DEF CallEvent
  <2>4. CASE (Packet /\ ~ Restart) \/ BeginI2SWrite \/ EndI2SWrite \/ SetSampleRate
    BY <2>1, <2>4 DEF Packet, BeginI2SWrite, EndI2SWrite, SetSampleRate
  <2> QED
    BY <2>2, <2>3, <2>4 DEF Outside, Callback
<1>3. agreed' \in Rates \cup {0}
  <2>1. agreed \in Rates \cup {0}
    BY DEF DeviceInv, DeviceTypes
  <2>2. CASE Phone
    BY <2>1, <2>2 DEF Phone, Connect, Established, Disconnect, Configure, StartOrStop,
                      Environment
  <2>3. CASE (Packet /\ ~ Restart) \/ BeginI2SWrite \/ EndI2SWrite \/ Callback
    BY <2>1, <2>3 DEF Packet, BeginI2SWrite, EndI2SWrite, Callback, CallEvent,
                      SetSampleRate, linkVars
  <2> QED
    BY <2>2, <2>3 DEF Outside
<1>4. streaming' \in BOOLEAN
  <2>1. CASE Phone
    BY <1>0, <2>1, Zenon DEF Phone, Connect, Established, Disconnect, Configure,
                             StartOrStop, Environment
  <2>2. CASE (Packet /\ ~ Restart) \/ BeginI2SWrite \/ EndI2SWrite \/ Callback
    BY <1>0, <2>2, Zenon DEF Packet, BeginI2SWrite, EndI2SWrite, Callback, CallEvent,
                             SetSampleRate, linkVars
  <2> QED
    BY <2>1, <2>2 DEF Outside
<1>5. chunk' \in BOOLEAN /\ writing' \in BOOLEAN
  <2>1. CASE Phone
    <3>1. UNCHANGED soundVars
      BY <2>1, Zenon DEF Phone, Connect, Established, Disconnect, Configure,
                         StartOrStop, Environment
    <3> QED
      BY <1>0, <3>1, Zenon DEF soundVars
  <2>2. CASE (Packet /\ ~ Restart) \/ BeginI2SWrite \/ EndI2SWrite
    BY <1>0, <2>2, Zenon DEF Packet, BeginI2SWrite, EndI2SWrite
  <2>3. CASE Callback
    BY <1>0, <2>3, Zenon DEF Callback, CallEvent, SetSampleRate, soundVars
  <2> QED
    BY <2>1, <2>2, <2>3 DEF Outside
<1>6. DeviceTypes'
  BY <1>1, <1>2, <1>3, <1>4, <1>5 DEF DeviceInv, DeviceTypes
<1>7. Late' => SetUp'
  <2>1. AppMain' = AppMain
    BY <1>1 DEF AppMain
  <2> QED
    BY <1>1, <2>1, OutsideLate DEF Late, SetUp
<1> QED
  BY <1>1, <1>6, <1>7 DEF DeviceInv

\* The kinds of steps.
LEMMA StepKinds == [Next]_vars => BootStep \/ Restart \/ Outside \/ UNCHANGED vars
BY BootSteps DEF Next, Reset, Outside

LEMMA DeviceInvNext == DeviceInv /\ [Next]_vars => DeviceInv'
<1> SUFFICES ASSUME DeviceInv, [Next]_vars PROVE DeviceInv'
  OBVIOUS
<1>1. CASE UNCHANGED vars
  <2>1. UNCHANGED <<firmware, step, events, agreed, scan, link, setting>>
    BY <1>1 DEF vars, appVars, linkVars, cbVars
  <2>2. UNCHANGED <<streaming, chunk, writing>>
    BY <1>1, Zenon DEF vars, linkVars, soundVars
  <2>3. AppMain' = AppMain
    BY <2>1 DEF AppMain
  <2>4. DeviceTypes'
    BY <2>1, <2>2 DEF DeviceInv, DeviceTypes
  <2>5. Late' /\ ~ SetUp' => Quiet'
    BY <2>1, <2>2, <2>3 DEF DeviceInv, Late, SetUp, Quiet
  <2> QED
    BY <2>4, <2>5 DEF DeviceInv
<1> QED
  BY <1>1, StepKinds, DeviceBoots, RestartQuiet, DeviceOutside

LEMMA DeviceInvHolds == Spec => []DeviceInv
BY DeviceInvInit, DeviceInvNext, PTL DEF Spec

\* When sound comes in, all parts of app_main are set up, from the third
\* prototype on.
THEOREM ChainStands == Spec => []SoundFindsChain
<1>1. DeviceInv => SoundFindsChain
  <2> SUFFICES ASSUME DeviceInv, Late, chunk \/ writing, ~ SetUp PROVE FALSE
    BY Zenon DEF SoundFindsChain, Late
  <2>1. chunk = FALSE /\ writing = FALSE
    BY DEF DeviceInv, Quiet
  <2> QED
    BY <2>1
<1> QED
  BY <1>1, DeviceInvHolds, PTL

-----------------------------------------------------------------------------
(***************************************************************************)
(* The final version's callback follows the phone: of each kind of news    *)
(* the last one counts, wherever it is on its way.                         *)
(***************************************************************************)

Final == firmware = "smartsound_final"

\* The last event of a kind that waits is one of those that say it, or none
\* of the kind waits.
LastSays(queue, kind, says) ==
  \E i \in 1 .. Len(queue) :
     queue[i] \in says /\ \A j \in i + 1 .. Len(queue) : queue[j] \notin kind
NoneOf(queue, kind) == \A i \in 1 .. Len(queue) : queue[i] \notin kind

Configurations == {e \in Messages : e.event = "AUDIO_CFG"}
LinkNews == {e \in Messages : e.event = "CONNECTION_STATE"
                                /\ e.state \in {"CONNECTED", "DISCONNECTED"}}
SaysUp(up) == {e \in LinkNews : (e.state = "CONNECTED") <=> up}

\* The rate the clock has, or will have when setSampleRate has returned.
RateToBe == IF setting \in {"i2s_stop", "i2s_set_clk"} THEN samplerate ELSE rate

ClockRuns == step > 2 /\ setting \in {"idle", "i2s_stop"} => i2s = "running"

ClockOnItsWay ==
  agreed # 0 =>
    \/ LastSays(events, Configurations, {Configuration(SbcByte(agreed))})
    \/ NoneOf(events, Configurations) /\ RateToBe = agreed

ScanOnItsWay ==
  SetUp =>
    \/ LastSays(events, LinkNews, SaysUp(link = "up"))
    \/ NoneOf(events, LinkNews) /\ (scan = "CONNECTABLE_DISCOVERABLE" <=> link # "up")

FollowInv == Final => ClockRuns /\ ClockOnItsWay /\ ScanOnItsWay

\* Other news leaves the last of its kind what it is.
LEMMA OtherNews ==
  ASSUME NEW S, NEW queue \in Seq(S), NEW e \in S, NEW kind, NEW says, e \notin kind
  PROVE  /\ LastSays(queue, kind, says) => LastSays(Append(queue, e), kind, says)
         /\ NoneOf(queue, kind) => NoneOf(Append(queue, e), kind)
<1> DEFINE longer == Append(queue, e)
<1>1. /\ Len(queue) \in Nat /\ Len(longer) = Len(queue) + 1
      /\ longer[Len(queue) + 1] = e
      /\ \A i \in 1 .. Len(queue) : longer[i] = queue[i]
  BY AppendProperties
<1> HIDE DEF longer
<1>2. ASSUME LastSays(queue, kind, says) PROVE LastSays(longer, kind, says)
  <2>1. PICK i \in 1 .. Len(queue) :
               queue[i] \in says /\ \A j \in i + 1 .. Len(queue) : queue[j] \notin kind
    BY <1>2 DEF LastSays
  <2>2. \A j \in i + 1 .. Len(longer) : j \in i + 1 .. Len(queue) \/ j = Len(queue) + 1
    BY <1>1
  <2>3. \A j \in i + 1 .. Len(longer) : longer[j] \notin kind
    BY <1>1, <2>1, <2>2
  <2>4. i \in 1 .. Len(longer) /\ longer[i] \in says
    BY <1>1, <2>1
  <2> QED
    BY <2>3, <2>4 DEF LastSays
<1>3. ASSUME NoneOf(queue, kind) PROVE NoneOf(longer, kind)
  <2>1. \A i \in 1 .. Len(longer) : i \in 1 .. Len(queue) \/ i = Len(queue) + 1
    BY <1>1
  <2> QED
    BY <1>1, <1>3, <2>1 DEF NoneOf
<1> QED
  BY <1>2, <1>3 DEF longer

\* News that comes in is the last.
LEMMA NewsComes ==
  ASSUME NEW S, NEW queue \in Seq(S), NEW e \in S, NEW kind, NEW says, e \in says
  PROVE  LastSays(Append(queue, e), kind, says)
<1> DEFINE longer == Append(queue, e)
<1>1. /\ Len(queue) \in Nat /\ Len(longer) = Len(queue) + 1
      /\ longer[Len(queue) + 1] = e
  BY AppendProperties
<1> HIDE DEF longer
<1>2. Len(longer) \in 1 .. Len(longer) /\ longer[Len(longer)] \in says
  BY <1>1
<1>3. Len(longer) + 1 .. Len(longer) = {}
  BY <1>1
<1>4. LastSays(longer, kind, says)
  BY <1>2, <1>3 DEF LastSays
<1> QED
  BY <1>4 DEF longer

\* The oldest goes: it was the last of its kind, or that one still waits.
LEMMA OldestTaken ==
  ASSUME NEW S, NEW queue \in Seq(S), queue # <<>>, NEW kind, NEW says
  PROVE  /\ LastSays(queue, kind, says) =>
              \/ LastSays(Tail(queue), kind, says)
              \/ Head(queue) \in says /\ NoneOf(Tail(queue), kind)
         /\ NoneOf(queue, kind) => Head(queue) \notin kind /\ NoneOf(Tail(queue), kind)
<1> DEFINE rest == Tail(queue)
<1>1. /\ Len(queue) \in Nat \ {0} /\ Len(rest) = Len(queue) - 1
      /\ Head(queue) = queue[1]
      /\ \A i \in 1 .. Len(rest) : rest[i] = queue[i + 1]
  OBVIOUS
<1> HIDE DEF rest
<1>2. ASSUME LastSays(queue, kind, says)
      PROVE  LastSays(rest, kind, says) \/ (Head(queue) \in says /\ NoneOf(rest, kind))
  <2>1. PICK i \in 1 .. Len(queue) :
               queue[i] \in says /\ \A j \in i + 1 .. Len(queue) : queue[j] \notin kind
    BY <1>2 DEF LastSays
  <2>2. CASE i = 1
    <3>1. \A j \in 1 .. Len(rest) : j + 1 \in i + 1 .. Len(queue)
      BY <1>1, <2>2
    <3> QED
      BY <1>1, <2>1, <2>2, <3>1 DEF NoneOf
  <2>3. CASE i # 1
    <3>1. i - 1 \in 1 .. Len(rest) /\ rest[i - 1] = queue[i]
      BY <1>1, <2>3
    <3>2. \A j \in (i - 1) + 1 .. Len(rest) : j \in 1 .. Len(rest) /\ j + 1 \in i + 1 .. Len(queue)
      BY <1>1, <2>3
    <3>3. \A j \in (i - 1) + 1 .. Len(rest) : rest[j] \notin kind
      BY <1>1, <2>1, <3>2
    <3> QED
      BY <2>1, <3>1, <3>3 DEF LastSays
  <2> QED
    BY <2>2, <2>3
<1>3. ASSUME NoneOf(queue, kind) PROVE Head(queue) \notin kind /\ NoneOf(rest, kind)
  <2>1. 1 \in 1 .. Len(queue) /\ \A i \in 1 .. Len(rest) : i + 1 \in 1 .. Len(queue)
    BY <1>1
  <2> QED
    BY <1>1, <1>3, <2>1 DEF NoneOf
<1> QED
  BY <1>2, <1>3 DEF rest

\* The callback reads the rate out of the configuration it was put into.
LEMMA RateIsDecoded ==
  ASSUME NEW r \in {16000, 32000, 44100, 48000}
  PROVE  SbcByte(r) \in Nat /\ Decoded(SbcByte(r)) = r
<1>1. CASE r = 16000
  <2>1. SbcByte(r) = 129
    BY <1>1 DEF SbcByte
  <2>2. Bit(128, 129)
    BY DEF Bit
  <2> QED
    BY <1>1, <2>1, <2>2 DEF Decoded
<1>2. CASE r = 32000
  <2>1. SbcByte(r) = 65
    BY <1>2 DEF SbcByte
  <2>2. ~ Bit(128, 65) /\ Bit(64, 65)
    BY DEF Bit
  <2> QED
    BY <1>2, <2>1, <2>2 DEF Decoded
<1>3. CASE r = 44100
  <2>1. SbcByte(r) = 33
    BY <1>3 DEF SbcByte
  <2>2. ~ Bit(128, 33) /\ ~ Bit(64, 33) /\ Bit(32, 33)
    BY DEF Bit
  <2> QED
    BY <1>3, <2>1, <2>2 DEF Decoded
<1>4. CASE r = 48000
  <2>1. SbcByte(r) = 17
    BY <1>4 DEF SbcByte
  <2>2. ~ Bit(128, 17) /\ ~ Bit(64, 17) /\ ~ Bit(32, 17) /\ Bit(16, 17)
    BY DEF Bit
  <2> QED
    BY <1>4, <2>1, <2>2 DEF Decoded
<1> QED
  BY <1>1, <1>2, <1>3, <1>4

\* The parts of the final version.
LEMMA FinalRow ==
  ASSUME Final
  PROVE  /\ Len(AppMain) = 11 /\ DOMAIN AppMain = 1 .. 11
         /\ AppMain[2] = "I2SInit" /\ AppMain[11] = "SetScanMode"
<1>1. AppMain = AppMain_smartsound_v2
  BY DEF Final, AppMain, AppMain_smartsound_v3, AppMain_smartsound_final
<1> QED
  BY <1>1 DEF AppMain_smartsound_v2

LEMMA FollowInvInit == Init => FollowInv
<1> SUFFICES ASSUME Init, Final PROVE ClockRuns /\ ClockOnItsWay /\ ScanOnItsWay
  BY DEF FollowInv
<1>1. step = 1 /\ agreed = 0 /\ Len(AppMain) = 11
  BY FinalRow DEF Init
<1> QED
  BY <1>1 DEF ClockRuns, ClockOnItsWay, ScanOnItsWay, SetUp

\* The setup ends with a driver that runs and a device that can be found.
LEMMA FollowBoots ==
  ASSUME DeviceInv, FollowInv, Final, BootStep
  PROVE  FollowInv'
<1>1. /\ UNCHANGED <<firmware, link, agreed, events, setting>>
      /\ step \in 1 .. 11
  BY FinalRow DEF BootStep, linkVars
<1>2. AppMain' = AppMain
  BY <1>1 DEF AppMain
<1>3. Quiet
  BY <1>1, FinalRow DEF DeviceInv, Late, Final, SetUp
<1>4. ClockOnItsWay'
  BY <1>1, <1>3 DEF Quiet, ClockOnItsWay
<1>5. ClockRuns'
  <2>1. ClockRuns /\ setting = "idle"
    BY <1>3 DEF FollowInv, Quiet
  <2>2. CASE step' = step /\ UNCHANGED i2sVars
    BY <1>1, <2>1, <2>2 DEF ClockRuns, i2sVars
  <2>3. CASE step' = step + 1 /\ UNCHANGED i2sVars /\ ~ At("I2SInit")
    <3>1. step # 2
      BY <2>3, FinalRow DEF At
    <3> QED
      BY <1>1, <2>1, <2>3, <3>1 DEF ClockRuns, i2sVars
  <2>4. CASE i2s' = "running"
    BY <2>4 DEF ClockRuns
  <2> QED
    BY <2>2, <2>3, <2>4 DEF BootStep
<1>6. ScanOnItsWay'
  <2> SUFFICES ASSUME SetUp'
               PROVE  /\ NoneOf(events', LinkNews)
                      /\ scan' = "CONNECTABLE_DISCOVERABLE" <=> link' # "up"
    BY DEF ScanOnItsWay
  <2>1. step' > 11
    BY <1>2, FinalRow DEF SetUp
  <2>2. step = 11 /\ step' = step + 1
    BY <1>1, <2>1 DEF BootStep
  <2>3. At("SetScanMode")
    BY <2>2, FinalRow DEF At
  <2>4. scan' = "CONNECTABLE_DISCOVERABLE"
    BY <2>2, <2>3 DEF BootStep
  <2>5. events' = <<>> /\ link' = "none"
    BY <1>1, <1>3 DEF Quiet
  <2> QED
    BY <2>4, <2>5 DEF NoneOf
<1> QED
  BY <1>4, <1>5, <1>6 DEF FollowInv

LEMMA FollowRestart ==
  ASSUME DeviceInv, Final, Restart
  PROVE  FollowInv'
<1>1. step' = 1 /\ agreed' = 0 /\ firmware' = firmware
  BY RestartQuiet
<1>2. AppMain' = AppMain
  BY <1>1 DEF AppMain
<1> QED
  BY <1>1, <1>2, FinalRow DEF FollowInv, ClockRuns, ClockOnItsWay, ScanOnItsWay, SetUp

\* What is on its way stays there when nothing of it changes.
LEMMA FollowRests ==
  ASSUME DeviceInv, FollowInv, Final,
         UNCHANGED <<firmware, step, i2sVars, link, agreed, events, cbVars>>
  PROVE  FollowInv'
<1>1. AppMain' = AppMain
  BY DEF AppMain
<1>2. UNCHANGED <<i2s, rate, scan, setting, samplerate>>
  BY DEF i2sVars, cbVars
<1> QED
  BY <1>1, <1>2 DEF FollowInv, ClockRuns, ClockOnItsWay, ScanOnItsWay, SetUp, RateToBe

\* The phone and the stack: every change is told.
LEMMA FollowPhone ==
  ASSUME DeviceInv, FollowInv, Final, Phone
  PROVE  FollowInv'
<1>1. UNCHANGED <<firmware, step, i2sVars, cbVars>>
  BY DEF Phone, Connect, Established, Disconnect, Configure, StartOrStop, Environment,
         appVars
<1>2. /\ UNCHANGED <<i2s, rate, scan, setting, samplerate, AppMain>>
      /\ events \in Seq(Messages)
  BY <1>1 DEF i2sVars, cbVars, AppMain, DeviceInv, DeviceTypes
<1>3. ClockRuns' /\ RateToBe' = RateToBe /\ SetUp' = SetUp
  BY <1>1, <1>2 DEF FollowInv, Final, ClockRuns, RateToBe, SetUp
<1>4. AddressBytes = {0}
  BY DEF AddressBytes, Final
<1>5. CASE StartOrStop
  BY <1>1, <1>5, FollowRests DEF StartOrStop, Environment
<1>6. CASE Connect
  <2>1. /\ link = "none" /\ link' = "connecting" /\ agreed' = agreed
        /\ events' = Append(events, Connection("CONNECTING", 0))
    BY <1>4, <1>6 DEF Connect, Tell, Environment
  <2>2. /\ Connection("CONNECTING", 0) \in Messages
        /\ Connection("CONNECTING", 0) \notin Configurations \cup LinkNews
    BY DEF Connection, Messages, Configurations, LinkNews
  <2>3. ClockOnItsWay'
    BY <1>2, <1>3, <2>1, <2>2, OtherNews DEF FollowInv, Final, ClockOnItsWay
  <2>4. ScanOnItsWay'
    <3>1. SaysUp(link = "up") = SaysUp(FALSE) /\ SaysUp(link' = "up") = SaysUp(FALSE)
      BY <2>1 DEF SaysUp
    <3> QED
      BY <1>2, <1>3, <2>1, <2>2, <3>1, OtherNews DEF FollowInv, Final, ScanOnItsWay
  <2> QED
    BY <1>3, <2>3, <2>4 DEF FollowInv
<1>7. CASE Established
  <2>1. /\ link' = "up" /\ agreed' = agreed
        /\ events' = Append(events, Connection("CONNECTED", 0))
    BY <1>4, <1>7 DEF Established, Tell, Environment
  <2>2. /\ Connection("CONNECTED", 0) \in Messages
        /\ Connection("CONNECTED", 0) \notin Configurations
        /\ Connection("CONNECTED", 0) \in SaysUp(link' = "up")
    BY <2>1 DEF Connection, Messages, Configurations, LinkNews, SaysUp
  <2>3. ClockOnItsWay'
    BY <1>2, <1>3, <2>1, <2>2, OtherNews DEF FollowInv, Final, ClockOnItsWay
  <2>4. ScanOnItsWay'
    BY <1>2, <2>1, <2>2, NewsComes DEF ScanOnItsWay
  <2> QED
    BY <1>3, <2>3, <2>4 DEF FollowInv
<1>8. CASE Disconnect
  <2>1. /\ link' = "none" /\ agreed' = 0
        /\ events' = Append(events, Connection("DISCONNECTED", 0))
    BY <1>4, <1>8 DEF Disconnect, Tell
  <2>2. /\ Connection("DISCONNECTED", 0) \in Messages
        /\ Connection("DISCONNECTED", 0) \in SaysUp(link' = "up")
    BY <2>1 DEF Connection, Messages, LinkNews, SaysUp
  <2>3. ScanOnItsWay'
    BY <1>2, <2>1, <2>2, NewsComes DEF ScanOnItsWay
  <2> QED
    BY <1>3, <2>1, <2>3 DEF FollowInv, ClockOnItsWay
<1>9. CASE Configure
  <2>1. PICK r \in Rates : agreed' = r /\ events' = Append(events, Configuration(SbcByte(r)))
    BY <1>9 DEF Configure, Tell
  <2>2. link' = link
    BY <1>9 DEF Configure, Environment
  <2>3. SbcByte(r) \in Nat
    BY RateIsDecoded, FirmwareAssumption
  <2>4. /\ Configuration(SbcByte(r)) \in Messages
        /\ Configuration(SbcByte(r)) \notin LinkNews
    BY <2>3 DEF Configuration, Messages, LinkNews
  <2>5. ClockOnItsWay'
    <3>1. Configuration(SbcByte(r)) \in {Configuration(SbcByte(agreed'))}
      BY <2>1
    <3>2. LastSays(events', Configurations, {Configuration(SbcByte(agreed'))})
      BY ONLY <1>2, <2>1, <2>4, <3>1, NewsComes
    <3> QED
      BY <3>2 DEF ClockOnItsWay
  <2>6. ScanOnItsWay'
    BY <1>2, <1>3, <2>1, <2>2, <2>4, OtherNews DEF FollowInv, Final, ScanOnItsWay
  <2> QED
    BY <1>3, <2>5, <2>6 DEF FollowInv
<1> QED
  BY <1>5, <1>6, <1>7, <1>8, <1>9 DEF Phone

\* The callback takes the oldest event and does what it says.
LEMMA FollowCallEvent ==
  ASSUME DeviceInv, FollowInv, Final, CallEvent
  PROVE  FollowInv'
<1> DEFINE e == Head(events)
<1>1. /\ UNCHANGED <<firmware, step, i2s, rate, link, agreed, AppMain>>
      /\ events # <<>> /\ setting = "idle" /\ events' = Tail(events)
  BY DEF CallEvent, appVars, i2sVars, linkVars, AppMain
<1>2. Callback_final(e)
  BY DEF CallEvent, Final
<1>3. events \in Seq(Messages) /\ e \in Messages
  BY <1>1, HeadTailProperties DEF DeviceInv, DeviceTypes
<1>4. SetUp' = SetUp /\ ClockRuns /\ ClockOnItsWay /\ ScanOnItsWay
  BY <1>1 DEF SetUp, FollowInv
<1> HIDE DEF e
<1>5. ClockRuns'
  BY <1>1, <1>4 DEF ClockRuns
<1>6. ClockOnItsWay'
  <2> SUFFICES ASSUME agreed # 0
               PROVE  \/ LastSays(events', Configurations, {Configuration(SbcByte(agreed))})
                      \/ NoneOf(events', Configurations) /\ RateToBe' = agreed
    BY <1>1 DEF ClockOnItsWay
  <2>1. \/ LastSays(events', Configurations, {Configuration(SbcByte(agreed))})
        \/ e = Configuration(SbcByte(agreed)) /\ NoneOf(events', Configurations)
        \/ /\ e \notin Configurations /\ NoneOf(events', Configurations)
           /\ RateToBe = agreed
    BY <1>1, <1>3, <1>4, OldestTaken DEF ClockOnItsWay, e
  <2>2. CASE e = Configuration(SbcByte(agreed))
    <3>1. e.event = "AUDIO_CFG" /\ e.sbc0 = SbcByte(agreed)
      BY <2>2 DEF Configuration
    <3>2. agreed \in Rates
      BY DEF DeviceInv, DeviceTypes
    <3>3. Decoded(SbcByte(agreed)) = agreed
      BY <3>2, RateIsDecoded, FirmwareAssumption
    <3>4. setting' = "i2s_stop" /\ samplerate' = agreed
      BY <1>2, <3>1, <3>3 DEF Callback_final
    <3>5. RateToBe' = agreed
      BY <3>4 DEF RateToBe
    <3> QED
      BY <2>1, <2>2, <3>5
  <2>3. CASE e \notin Configurations
    <3>1. e.event # "AUDIO_CFG"
      BY <1>3, <2>3 DEF Configurations
    <3>2. UNCHANGED <<setting, samplerate>>
      BY <1>2, <3>1 DEF Callback_final
    <3>3. RateToBe' = RateToBe
      BY <1>1, <3>2 DEF RateToBe
    <3>4. e # Configuration(SbcByte(agreed))
      <4>1. \A b : Configuration(b).event = "AUDIO_CFG"
        BY DEF Configuration
      <4> QED
        BY <3>1, <4>1, Zenon
    <3> QED
      BY <2>1, <3>3, <3>4
  <2> QED
    BY <2>1, <2>2, <2>3
<1>7. ScanOnItsWay'
  <2> SUFFICES ASSUME SetUp
               PROVE  \/ LastSays(events', LinkNews, SaysUp(link = "up"))
                      \/ /\ NoneOf(events', LinkNews)
                         /\ scan' = "CONNECTABLE_DISCOVERABLE" <=> link # "up"
    BY <1>1, <1>4 DEF ScanOnItsWay
  <2>1. \/ LastSays(events', LinkNews, SaysUp(link = "up"))
        \/ e \in SaysUp(link = "up") /\ NoneOf(events', LinkNews)
        \/ /\ e \notin LinkNews /\ NoneOf(events', LinkNews)
           /\ scan = "CONNECTABLE_DISCOVERABLE" <=> link # "up"
    BY <1>1, <1>3, <1>4, OldestTaken DEF ScanOnItsWay, e
  <2>2. CASE e \in SaysUp(link = "up")
    <3>1. /\ e.event = "CONNECTION_STATE" /\ e.state \in {"CONNECTED", "DISCONNECTED"}
          /\ e.state = "CONNECTED" <=> link = "up"
      BY <2>2 DEF SaysUp, LinkNews
    <3>2. scan' = "CONNECTABLE_DISCOVERABLE" <=> link # "up"
      BY <1>2, <3>1 DEF Callback_final
    <3> QED
      BY <2>1, <2>2, <3>2 DEF SaysUp
  <2>3. CASE e \notin LinkNews
    <3>1. ~ (e.event = "CONNECTION_STATE" /\ e.state \in {"CONNECTED", "DISCONNECTED"})
      BY <1>3, <2>3 DEF LinkNews
    <3>2. scan' = scan
      BY <1>2, <3>1 DEF Callback_final
    <3> QED
      BY <2>1, <2>3, <3>2 DEF SaysUp
  <2> QED
    BY <2>1, <2>2, <2>3
<1> QED
  BY <1>5, <1>6, <1>7 DEF FollowInv

\* setSampleRate keeps to its parameter, and the driver runs when it returns.
LEMMA FollowSetSampleRate ==
  ASSUME DeviceInv, FollowInv, Final, SetSampleRate
  PROVE  FollowInv'
<1>1. UNCHANGED <<firmware, step, link, agreed, events, scan, samplerate, AppMain>>
  BY DEF SetSampleRate, appVars, linkVars, AppMain
<1>2. SetUp' = SetUp /\ ClockOnItsWay /\ ScanOnItsWay
  BY <1>1 DEF SetUp, FollowInv
<1>3. ClockRuns'
  BY DEF SetSampleRate, ClockRuns
<1>4. RateToBe' = RateToBe
  BY DEF SetSampleRate, RateToBe
<1> QED
  BY <1>1, <1>2, <1>3, <1>4 DEF FollowInv, ClockOnItsWay, ScanOnItsWay

LEMMA FollowInvNext == DeviceInv /\ FollowInv /\ [Next]_vars => FollowInv'
<1> SUFFICES ASSUME DeviceInv, FollowInv, [Next]_vars PROVE FollowInv'
  OBVIOUS
<1>0. firmware' = firmware
  <2>1. CASE Outside
    BY <2>1, DeviceOutside
  <2> QED
    BY <2>1, StepKinds, RestartQuiet DEF BootStep, vars
<1>1. CASE ~ Final
  BY <1>0, <1>1 DEF Final, FollowInv
<1>2. CASE Final
  <2>1. CASE UNCHANGED vars
    BY <1>2, <2>1, FollowRests DEF vars, appVars, linkVars
  <2>2. CASE (Packet /\ ~ Restart) \/ BeginI2SWrite \/ EndI2SWrite
    <3>1. UNCHANGED <<firmware, step, i2sVars, link, agreed, events, cbVars>>
      BY <2>2 DEF Packet, BeginI2SWrite, EndI2SWrite, appVars, linkVars
    <3> QED
      BY <1>2, <3>1, FollowRests
  <2>3. CASE Phone \/ Callback
    BY <1>2, <2>3, FollowPhone, FollowCallEvent, FollowSetSampleRate DEF Callback
  <2>4. CASE BootStep \/ Restart
    BY <1>2, <2>4, FollowBoots, FollowRestart
  <2> QED
    BY <2>1, <2>2, <2>3, <2>4, StepKinds DEF Outside
<1> QED
  BY <1>1, <1>2

LEMMA FollowInvHolds == Spec => [](DeviceInv /\ FollowInv)
<1>1. Init => FollowInv
  BY FollowInvInit
<1>2. DeviceInv /\ FollowInv /\ [Next]_vars => FollowInv'
  BY FollowInvNext
<1> QED
  BY <1>1, <1>2, DeviceInvHolds, PTL DEF Spec

\* In the final version the clock runs at the rate agreed on, once the callback
\* has nothing left to do: for every number of changes and of events that wait.
THEOREM ClockAgrees == Spec => []ClockFollows
<1>1. DeviceInv /\ FollowInv => ClockFollows
  <2> SUFFICES ASSUME DeviceInv, FollowInv, Final, Settled, agreed # 0
               PROVE  i2s = "running" /\ rate = agreed
    BY DEF ClockFollows, Final
  <2>1. step > 2 /\ events = <<>> /\ setting = "idle"
    <3>1. step \in Nat /\ step > Len(AppMain) /\ Len(AppMain) = 11
      BY FinalRow DEF Settled, SetUp, DeviceInv, DeviceTypes
    <3> QED
      BY <3>1 DEF Settled
  <2>2. ~ LastSays(events, Configurations, {Configuration(SbcByte(agreed))})
    BY <2>1 DEF LastSays
  <2> QED
    BY <2>1, <2>2 DEF FollowInv, ClockRuns, ClockOnItsWay, RateToBe
<1> QED
  BY <1>1, FollowInvHolds, PTL

\* ... and the device can be found if and only if no phone has it.
THEOREM FoundWhenFree == Spec => []FoundUnlessTaken
<1>1. DeviceInv /\ FollowInv => FoundUnlessTaken
  <2> SUFFICES ASSUME DeviceInv, FollowInv, Final, Settled
               PROVE  scan = "CONNECTABLE_DISCOVERABLE" <=> link # "up"
    BY DEF FoundUnlessTaken, Final
  <2>1. SetUp /\ ~ LastSays(events, LinkNews, SaysUp(link = "up"))
    BY DEF Settled, LastSays
  <2> QED
    BY <2>1 DEF FollowInv, ScanOnItsWay
<1> QED
  BY <1>1, FollowInvHolds, PTL

-----------------------------------------------------------------------------
(***************************************************************************)
(* The setup of the codec makes no noise.                                  *)
(***************************************************************************)

\* The row mutes first and unmutes at u, and not in between.
MutedUntil(row, u) ==
  /\ u \in DOMAIN row /\ u > 1 /\ 1 \in DOMAIN row
  /\ row[1] = Write("DACCONTROL3", 4) /\ row[u][1] = "DACCONTROL3"
  /\ \A j \in DOMAIN row : row[j][1] = "DACCONTROL3" => j \in {1, u}

\* The row switches the DAC off and touches no control of it but then.
OffForControls(row) ==
  /\ 5 \in DOMAIN row /\ row[5] = Write("DACPOWER", 192)
  /\ \A j \in DOMAIN row : row[j][1] \in DacControls => j \in 6 .. 14
  /\ \A j \in DOMAIN row : row[j][1] = "DACPOWER" => j \notin 6 .. 14

LEMMA Prototype1Mutes == MutedUntil(Setup_prototype_v1, 27)
<1>1. DOMAIN Setup_prototype_v1 = 1 .. 28
  BY DEF Setup_prototype_v1
<1>2. \A j \in 2 .. 26 : Setup_prototype_v1[j][1] # "DACCONTROL3"
  BY DEF Setup_prototype_v1, Write
<1>3. Setup_prototype_v1[28][1] # "DACCONTROL3"
  BY DEF Setup_prototype_v1, Write
<1>4. /\ Setup_prototype_v1[1] = Write("DACCONTROL3", 4)
      /\ Setup_prototype_v1[27][1] = "DACCONTROL3"
  BY DEF Setup_prototype_v1, Write
<1> QED
  BY <1>1, <1>2, <1>3, <1>4 DEF MutedUntil

LEMMA Prototype3Silent ==
  MutedUntil(Setup_prototype_v3, 27) /\ OffForControls(Setup_prototype_v3)
<1>1. DOMAIN Setup_prototype_v3 = 1 .. 27
  BY DEF Setup_prototype_v3
<1>2. \A j \in 2 .. 26 : Setup_prototype_v3[j][1] # "DACCONTROL3"
  BY DEF Setup_prototype_v3, Write
<1>3. /\ Setup_prototype_v3[1] = Write("DACCONTROL3", 4)
      /\ Setup_prototype_v3[27][1] = "DACCONTROL3"
      /\ Setup_prototype_v3[5] = Write("DACPOWER", 192)
  BY DEF Setup_prototype_v3, Write
<1>4. \A j \in 1 .. 5 \cup 15 .. 27 : Setup_prototype_v3[j][1] \notin DacControls
  BY DEF Setup_prototype_v3, Write, DacControls
<1>5. \A j \in 6 .. 14 : Setup_prototype_v3[j][1] # "DACPOWER"
  BY DEF Setup_prototype_v3, Write
<1>6. MutedUntil(Setup_prototype_v3, 27)
  BY <1>1, <1>2, <1>3 DEF MutedUntil
<1>7. OffForControls(Setup_prototype_v3)
  BY <1>1, <1>3, <1>4, <1>5 DEF OffForControls
<1> QED
  BY <1>6, <1>7

\* Two sequences joined, place by place.
LEMMA Joined ==
  ASSUME NEW S, NEW a \in Seq(S), NEW b \in Seq(S)
  PROVE  /\ a \o b \in Seq(S) /\ Len(a \o b) = Len(a) + Len(b)
         /\ DOMAIN (a \o b) = 1 .. Len(a) + Len(b)
         /\ \A i \in 1 .. Len(a) + Len(b) :
              (a \o b)[i] = IF i <= Len(a) THEN a[i] ELSE b[i - Len(a)]
<1>1. a \o b \in Seq(S) /\ Len(a \o b) = Len(a) + Len(b)
  BY ConcatProperties, Zenon
<1>2. DOMAIN (a \o b) = 1 .. Len(a \o b)
  BY <1>1
<1>3. \A i \in 1 .. Len(a) + Len(b) :
        (a \o b)[i] = IF i <= Len(a) THEN a[i] ELSE b[i - Len(a)]
  BY ConcatProperties, Zenon
<1> QED
  BY <1>1, <1>2, <1>3, Zenon

\* The row of the SmartSound systems, write by write.
LEMMA SmartsoundRow ==
  /\ DOMAIN Setup_smartsound_v1 = 1 .. 29
  /\ \A i \in 1 .. 24 : Setup_smartsound_v1[i] = Setup_prototype_v3[i]
  /\ Setup_smartsound_v1[25] = Write("DACCONTROL24", 30)
  /\ Setup_smartsound_v1[26] = Write("DACCONTROL25", 30)
  /\ \A i \in 27 .. 29 : Setup_smartsound_v1[i] = Setup_prototype_v3[i - 2]
<1> DEFINE S == Writes(Setup_prototype_v3)
                  \cup {Write("DACCONTROL24", 30), Write("DACCONTROL25", 30)}
           front == SubSeq(Setup_prototype_v3, 1, 24)
           volume == <<Write("DACCONTROL24", 30), Write("DACCONTROL25", 30)>>
           back == SubSeq(Setup_prototype_v3, 25, 27)
           start == front \o volume
<1>1. \A i \in 1 .. 27 : Setup_prototype_v3[i] \in S
  BY SetupOfPrototype3 DEF Writes
<1>2. /\ volume \in Seq(S) /\ Len(volume) = 2
      /\ volume[1] = Write("DACCONTROL24", 30) /\ volume[2] = Write("DACCONTROL25", 30)
  OBVIOUS
<1> HIDE DEF S
<1>3. /\ front \in Seq(S) /\ Len(front) = 24
      /\ \A i \in 1 .. 24 : front[i] = Setup_prototype_v3[i]
  <2>1. \A i \in 1 .. 24 : Setup_prototype_v3[i] \in S
    BY <1>1
  <2> QED
    BY <2>1, SubSeqProperties
<1>4. /\ back \in Seq(S) /\ Len(back) = 3
      /\ \A i \in 1 .. 3 : back[i] = Setup_prototype_v3[i + 24]
  <2>1. \A i \in 25 .. 27 : Setup_prototype_v3[i] \in S
    BY <1>1
  <2>2. Setup_prototype_v3 \in Seq(S) /\ Len(Setup_prototype_v3) = 27
    BY SetupOfPrototype3 DEF S
  <2> QED
    BY <2>1, <2>2
<1> HIDE DEF front, volume, back
<1>5. /\ start \in Seq(S) /\ Len(start) = 26
      /\ \A i \in 1 .. 26 : start[i] = IF i <= 24 THEN front[i] ELSE volume[i - 24]
  <2>1. Len(front) + Len(volume) = 26
    BY <1>2, <1>3
  <2>2. /\ start \in Seq(S) /\ Len(start) = Len(front) + Len(volume)
        /\ \A i \in 1 .. Len(front) + Len(volume) :
             start[i] = IF i <= Len(front) THEN front[i] ELSE volume[i - Len(front)]
    BY <1>2, <1>3, Joined, Zenon DEF start
  <2>3. \A i \in 1 .. 26 : start[i] = IF i <= 24 THEN front[i] ELSE volume[i - 24]
    BY <1>3, <2>1, <2>2
  <2> QED
    BY <2>1, <2>2, <2>3
<1> HIDE DEF start
<1>7. /\ DOMAIN (start \o back) = 1 .. 29
      /\ \A i \in 1 .. 29 : (start \o back)[i] = IF i <= 26 THEN start[i] ELSE back[i - 26]
  <2>1. Len(start) + Len(back) = 29
    BY <1>4, <1>5
  <2>2. /\ DOMAIN (start \o back) = 1 .. Len(start) + Len(back)
        /\ \A i \in 1 .. Len(start) + Len(back) :
             (start \o back)[i] = IF i <= Len(start) THEN start[i] ELSE back[i - Len(start)]
    BY <1>4, <1>5, Joined, Zenon
  <2>3. \A i \in 1 .. 29 : (start \o back)[i] = IF i <= 26 THEN start[i] ELSE back[i - 26]
    BY <1>5, <2>1, <2>2
  <2> QED
    BY <2>1, <2>2, <2>3
<1>8. Setup_smartsound_v1 = start \o back
  BY DEF Setup_smartsound_v1, start, front, volume, back
<1>9. \A i \in 27 .. 29 : /\ i \in 1 .. 29 /\ ~ i <= 26
                         /\ i - 26 \in 1 .. 3 /\ (i - 26) + 24 = i - 2
  OBVIOUS
<1>10. \A i \in 1 .. 24 : i \in 1 .. 29 /\ i \in 1 .. 26 /\ i <= 26 /\ i <= 24
  OBVIOUS
<1>11. \A i \in 27 .. 29 : Setup_smartsound_v1[i] = Setup_prototype_v3[i - 2]
  BY <1>4, <1>7, <1>8, <1>9
<1>12. \A i \in 1 .. 24 : Setup_smartsound_v1[i] = Setup_prototype_v3[i]
  BY <1>3, <1>5, <1>7, <1>8, <1>10
<1>13. Setup_smartsound_v1[25] = volume[1] /\ Setup_smartsound_v1[26] = volume[2]
  <2>1. start[25] = volume[25 - 24] /\ start[26] = volume[26 - 24]
    BY <1>5
  <2>2. (start \o back)[25] = start[25] /\ (start \o back)[26] = start[26]
    <3>1. 25 \in 1 .. 29 /\ 26 \in 1 .. 29 /\ 25 <= 26 /\ 26 <= 26
      OBVIOUS
    <3> QED
      BY <1>7, <3>1, Zenon
  <2>3. start[25] = volume[1] /\ start[26] = volume[2]
    BY <2>1
  <2> QED
    BY <1>8, <2>2, <2>3
<1>14. /\ Setup_smartsound_v1[25] = Write("DACCONTROL24", 30)
       /\ Setup_smartsound_v1[26] = Write("DACCONTROL25", 30)
  BY <1>13 DEF volume
<1>15. DOMAIN Setup_smartsound_v1 = 1 .. 29
  BY <1>7, <1>8, Zenon
<1> QED
  BY <1>11, <1>12, <1>14, <1>15, Zenon

LEMMA SmartsoundSilent ==
  MutedUntil(Setup_smartsound_v1, 29) /\ OffForControls(Setup_smartsound_v1)
<1>0. DOMAIN Setup_prototype_v3 = 1 .. 27
  BY DEF Setup_prototype_v3
<1>1. \A j \in 1 .. 29 : j \in 1 .. 24 \/ j = 25 \/ j = 26 \/ j \in 27 .. 29
  OBVIOUS
<1>2. \A j \in {25, 26} : Setup_smartsound_v1[j][1] \notin DacControls \cup {"DACCONTROL3", "DACPOWER"}
  BY SmartsoundRow DEF Write, DacControls
<1>3. /\ Setup_smartsound_v1[1] = Write("DACCONTROL3", 4)
      /\ Setup_smartsound_v1[29][1] = "DACCONTROL3"
      /\ Setup_smartsound_v1[5] = Write("DACPOWER", 192)
  BY SmartsoundRow, Prototype3Silent DEF MutedUntil, OffForControls
<1>4. ASSUME NEW j \in 1 .. 29, Setup_smartsound_v1[j][1] = "DACCONTROL3"
      PROVE  j \in {1, 29}
  <2>1. CASE j \in 1 .. 24
    BY <1>0, <1>4, <2>1, SmartsoundRow, Prototype3Silent DEF MutedUntil
  <2>2. CASE j \in 27 .. 29
    <3>1. j - 2 \in 25 .. 27 /\ Setup_smartsound_v1[j] = Setup_prototype_v3[j - 2]
      BY <2>2, SmartsoundRow
    <3>2. j - 2 \in {1, 27}
      BY <1>0, <1>4, <3>1, Prototype3Silent DEF MutedUntil
    <3> QED
      BY <3>1, <3>2
  <2> QED
    BY <1>1, <1>2, <1>4, <2>1, <2>2
<1>5. ASSUME NEW j \in 1 .. 29
      PROVE  /\ Setup_smartsound_v1[j][1] \in DacControls => j \in 6 .. 14
             /\ Setup_smartsound_v1[j][1] = "DACPOWER" => j \notin 6 .. 14
  <2>1. CASE j \in 1 .. 24
    BY <1>0, <2>1, SmartsoundRow, Prototype3Silent DEF OffForControls
  <2>2. CASE j \in 27 .. 29
    <3>1. j - 2 \in 25 .. 27 /\ Setup_smartsound_v1[j] = Setup_prototype_v3[j - 2]
      BY <2>2, SmartsoundRow
    <3>2. Setup_prototype_v3[j - 2][1] \notin DacControls
      BY <1>0, <3>1, Prototype3Silent DEF OffForControls
    <3> QED
      BY <2>2, <3>1, <3>2
  <2> QED
    BY <1>1, <1>2, <2>1, <2>2
<1>6. MutedUntil(Setup_smartsound_v1, 29)
  BY <1>3, <1>4, SmartsoundRow DEF MutedUntil
<1>7. OffForControls(Setup_smartsound_v1)
  BY <1>3, <1>5, SmartsoundRow DEF OffForControls
<1> QED
  BY <1>6, <1>7

\* The two promises of the comments, version by version.
LEMMA RowsSilent ==
  ASSUME firmware \in AllVersions
  PROVE  /\ firmware \in Mutes => \E u \in Nat : MutedUntil(Table, u)
         /\ firmware \in SwitchesOff => OffForControls(Table)
<1>1. CASE firmware = "prototype_v1"
  <2>1. Table = Setup_prototype_v1
    BY <1>1 DEF Table, Setup
  <2> QED
    BY <1>1, <2>1, Prototype1Mutes DEF SwitchesOff
<1>2. CASE firmware = "prototype_v2"
  BY <1>2 DEF Mutes, SwitchesOff
<1>3. CASE firmware = "prototype_v3"
  <2>1. Table = Setup_prototype_v3
    BY <1>3 DEF Table, Setup
  <2> QED
    BY <2>1, Prototype3Silent
<1>4. CASE firmware \in AllVersions \ {"prototype_v1", "prototype_v2", "prototype_v3"}
  <2>1. Table = Setup_smartsound_v1
    BY <1>4 DEF AllVersions, Table, Setup, Setup_smartsound_v2, Setup_smartsound_v3,
                Setup_smartsound_final
  <2> QED
    BY <2>1, SmartsoundSilent
<1> QED
  BY <1>1, <1>2, <1>3, <1>4

\* The write that unmutes is the one the row unmutes with.
LEMMA UnmutingIsLast ==
  ASSUME NEW u \in Nat, MutedUntil(Table, u),
         DOMAIN Table = 1 .. Len(Table), Len(Table) \in Nat
  PROVE  Unmuting = u
<1>1. u \in DOMAIN Table /\ Table[u][1] = "DACCONTROL3" /\ Stays(Table, u)
  BY DEF MutedUntil, Stays
<1>2. ASSUME NEW i \in DOMAIN Table, Table[i][1] = "DACCONTROL3", Stays(Table, i)
      PROVE  i = u
  <2>1. i \in {1, u} /\ u <= i
    BY <1>1, <1>2 DEF MutedUntil, Stays
  <2> QED
    BY <2>1 DEF MutedUntil
<1> QED
  BY <1>1, <1>2, Zenon DEF Unmuting

\* No step changes the version.
LEMMA FirmwareStays == [Next]_vars => firmware' = firmware
BY DEF Next, vars, Booting, InitFlash, I2SInit, CodecInit, Construct, A2dpInit,
       SetScanMode, Reset, Restart, Phone, Connect, Established, Disconnect, Configure,
       StartOrStop, Environment, Packet, BeginI2SWrite, EndI2SWrite, Callback, CallEvent,
       SetSampleRate

\* The controls of the DAC are registers the rows write to.
LEMMA ControlsAreRegisters == DacControls \subseteq Registers
<1>1. /\ Setup_prototype_v3[6][1] = "CONTROL1" /\ Setup_prototype_v3[7][1] = "DACCONTROL1"
      /\ Setup_prototype_v3[8][1] = "DACCONTROL2" /\ Setup_prototype_v3[9][1] = "DACCONTROL16"
      /\ Setup_prototype_v3[10][1] = "DACCONTROL17" /\ Setup_prototype_v3[11][1] = "DACCONTROL20"
      /\ Setup_prototype_v3[13][1] = "DACCONTROL4" /\ Setup_prototype_v3[14][1] = "DACCONTROL5"
  BY DEF Setup_prototype_v3, Write
<1>2. DacControls \subseteq {Setup_prototype_v3[i][1] : i \in 1 .. 27}
  <2> SUFFICES ASSUME NEW r \in DacControls
               PROVE  \E i \in 1 .. 27 : r = Setup_prototype_v3[i][1]
    OBVIOUS
  <2> QED
    BY <1>1 DEF DacControls
<1>3. DOMAIN Setup_prototype_v3 = 1 .. 27 /\ Setup("prototype_v3") = Setup_prototype_v3
  BY DEF Setup_prototype_v3, Setup
<1>4. "prototype_v3" \in AllVersions
  BY DEF AllVersions
<1> QED
  BY <1>2, <1>3, <1>4 DEF Registers

\* The part of a step that changes registers.
LEMMA RegistersChange ==
  ASSUME CodecInv, [Next]_vars, res' = "ESP_OK", registers' # registers
  PROVE  /\ next \in DOMAIN Table /\ res = "ESP_OK"
         /\ \A r \in Registers : r # Table[next][1] => registers'[r] = registers[r]
<1>1. WriteCodecI2C
  BY DEF Next, vars, codecVars, Booting, InitFlash, I2SInit, CodecInit, Construct,
         A2dpInit, SetScanMode, Reset, Restart, CodecReset, Phone, Connect, Established,
         Disconnect, Configure, StartOrStop, Environment, Packet, BeginI2SWrite,
         EndI2SWrite, Callback, CallEvent, SetSampleRate, InstallDriver
<1>2. next \in DOMAIN Table /\ res = "ESP_OK" /\ registers' = Transferred
  BY <1>1 DEF WriteCodecI2C, Acknowledged
<1>3. \A r \in Registers : r # Table[next][1] => registers'[r] = registers[r]
  BY <1>2 DEF Transferred, CodecInv
<1> QED
  BY <1>2, <1>3

\* While nothing fails, the codec is muted from the first write of a setup to
\* the one that unmutes it, and the DAC is off while its controls change,
\* whatever setup, of whatever version, was broken off before.
THEOREM SetUpInSilence == Spec => SilentUnlessFailed
<1>1. ASSUME CodecInv, CodecInv', [Next]_vars, res = "ESP_OK", res' = "ESP_OK"
      PROVE  /\ firmware \in Mutes /\ next' \in 2 .. Unmuting => Muted'
             /\ /\ firmware \in SwitchesOff
                /\ \E r \in DacControls : registers'[r] # registers[r]
                => DacOff
  <2>0. /\ firmware \in AllVersions
        /\ DOMAIN Table = 1 .. Len(Table) /\ Len(Table) \in Nat
    BY <1>1, SetupIsSequence DEF CodecInv, Table
  <2>1. ASSUME firmware \in Mutes, next' \in 2 .. Unmuting PROVE Muted'
    <3>1. PICK u \in Nat : MutedUntil(Table, u)
      BY <2>0, <2>1, RowsSilent
    <3>2. next' \in 2 .. u
      BY <2>0, <2>1, <3>1, UnmutingIsLast
    <3>3. Table' = Table
      BY <1>1, FirmwareStays DEF Table
    <3>4. /\ 1 \in DOMAIN Table /\ Table[1] = <<"DACCONTROL3", 4>>
          /\ \A j \in DOMAIN Table : 1 < j /\ j < next' => Table[j][1] # "DACCONTROL3"
      BY <2>0, <3>1, <3>2 DEF MutedUntil, Write
    <3>5. registers'[Table[1][1]] = Table[1][2]
      BY <1>1, <3>2, <3>3, <3>4 DEF CodecInv, WrittenSoFar
    <3> QED
      BY <3>4, <3>5 DEF Muted
  <2>2. ASSUME firmware \in SwitchesOff,
               NEW r \in DacControls, registers'[r] # registers[r]
        PROVE  DacOff
    <3>1. OffForControls(Table)
      BY <2>0, <2>2, RowsSilent
    <3>2. next \in DOMAIN Table /\ Table[next][1] = r
      <4>1. r \in Registers
        BY ControlsAreRegisters, <2>2
      <4> QED
        BY <1>1, <2>2, <4>1, RegistersChange
    <3>3. next \in 6 .. 14
      BY <2>2, <3>1, <3>2 DEF OffForControls
    <3>4. /\ 5 \in DOMAIN Table /\ Table[5] = <<"DACPOWER", 192>>
          /\ \A j \in DOMAIN Table : 5 < j /\ j < next => Table[j][1] # "DACPOWER"
      BY <2>0, <3>1, <3>3 DEF OffForControls, Write
    <3>5. registers[Table[5][1]] = Table[5][2]
      BY <1>1, <3>3, <3>4 DEF CodecInv, WrittenSoFar
    <3> QED
      BY <3>4, <3>5 DEF DacOff
  <2> QED
    BY <2>1, <2>2
<1>2. CodecInv /\ CodecInv' /\ [Next]_vars =>
        [ res = "ESP_OK" /\ res' = "ESP_OK" =>
            /\ firmware \in Mutes /\ next' \in 2 .. Unmuting => Muted'
            /\ /\ firmware \in SwitchesOff
               /\ \E r \in DacControls : registers'[r] # registers[r]
               => DacOff ]_codecVars
  BY <1>1
<1> QED
  BY <1>2, CodecInvInit, CodecInvNext, PTL DEF Spec, SilentUnlessFailed

=============================================================================
