----------------------------- MODULE CodecSetup -----------------------------
(***************************************************************************)
(* ESPcontroller::CodecInit: the ES8388 codec is set up by a row of writes *)
(* to its registers over I2C, each of which may fail. The results are or-ed*)
(* together; the writes go on after a failure, and so does app_main, which *)
(* does not look at what CodecInit returns.                                *)
(*                                                                         *)
(* The repository keeps seven versions of the firmware. They differ in the *)
(* row of writes; what happens to one write is the same in all.            *)
(*                                                                         *)
(* The codec keeps its registers when only the ESP32 is reset or gets new  *)
(* firmware, so a setup finds them as they were at power up or as an       *)
(* earlier setup, of this or another version, left them.                   *)
(***************************************************************************)
EXTENDS Integers, Sequences

CONSTANTS
  Versions,     \* versions of the firmware looked at
  MaxMoves      \* what the surroundings do in a behaviour (see moves): a bound

Write(register, value) == <<register, value>>

Setup_prototype_v1 == <<
  Write("DACCONTROL3", 4),                  \* mute
  Write("CONTROL2", 80), Write("CHIPPOWER", 0), Write("MASTERMODE", 0),
  Write("DACPOWER", 48), Write("CONTROL1", 18),
  Write("DACCONTROL1", 24), Write("DACCONTROL2", 2),
  Write("DACCONTROL16", 0), Write("DACCONTROL17", 144), Write("DACCONTROL20", 144),
  Write("DACCONTROL21", 128), Write("DACCONTROL23", 0),
  Write("DACCONTROL5", 0), Write("DACCONTROL4", 0),
  Write("ADCPOWER", 255), Write("ADCCONTROL1", 51),
  Write("ADCCONTROL2", 80), Write("ADCCONTROL3", 0), Write("ADCCONTROL4", 14),
  Write("ADCCONTROL5", 2), Write("ADCCONTROL8", 32), Write("ADCCONTROL9", 32),
  Write("DACCONTROL24", 30), Write("DACCONTROL25", 30),
  Write("DACPOWER", 60),
  Write("DACCONTROL3", 0),                  \* unmute
  Write("ADCPOWER", 9) >>

\* This one does not mute: the write is commented out.
Setup_prototype_v2 == <<
  Write("CONTROL1", 18), Write("CONTROL2", 72), Write("MASTERMODE", 0),
  Write("CHIPPOWER", 195),
  Write("DACCONTROL1", 30), Write("DACCONTROL2", 2), Write("DACCONTROL3", 40),
  Write("DACCONTROL4", 0), Write("DACCONTROL5", 0), Write("DACCONTROL6", 4),
  Write("DACCONTROL17", 144), Write("DACCONTROL20", 144), Write("DACCONTROL21", 128),
  Write("ADCCONTROL2", 80), Write("ADCCONTROL4", 15), Write("ADCCONTROL5", 2),
  Write("ADCCONTROL7", 40), Write("ADCCONTROL8", 0),
  Write("ADCPOWER", 12), Write("DACPOWER", 62) >>

Setup_prototype_v3 == <<
  Write("DACCONTROL3", 4),                  \* mute
  Write("CONTROL2", 80), Write("CHIPPOWER", 0), Write("MASTERMODE", 0),
  Write("DACPOWER", 192),                   \* DAC and outputs off
  Write("CONTROL1", 18), Write("DACCONTROL1", 24), Write("DACCONTROL2", 2),
  Write("DACCONTROL16", 9), Write("DACCONTROL17", 144), Write("DACCONTROL20", 144),
  Write("DACCONTROL21", 128), Write("DACCONTROL4", 0), Write("DACCONTROL5", 0),
  Write("ADCCONTROL8", 0), Write("ADCCONTROL9", 0),
  Write("DACPOWER", 62),                    \* DAC and outputs on
  Write("ADCPOWER", 255),
  Write("ADCCONTROL1", 187), Write("ADCCONTROL2", 80), Write("ADCCONTROL3", 2),
  Write("ADCCONTROL4", 13), Write("ADCCONTROL5", 2), Write("ADCPOWER", 9),
  Write("DACCONTROL21", 128), Write("DACPOWER", 60),
  Write("DACCONTROL3", 0) >>                \* unmute

\* The same with the volume of the outputs set before the DAC is started.
Setup_smartsound_v1 ==
  SubSeq(Setup_prototype_v3, 1, 24)
    \o <<Write("DACCONTROL24", 30), Write("DACCONTROL25", 30)>>
    \o SubSeq(Setup_prototype_v3, 25, 27)

Setup_smartsound_v2 == Setup_smartsound_v1
Setup_smartsound_v3 == Setup_smartsound_v2
Setup_smartsound_final == Setup_smartsound_v3

\* The writes of a version, in the order of the code.
Setup(version) ==
  [prototype_v1     |-> Setup_prototype_v1,
   prototype_v2     |-> Setup_prototype_v2,
   prototype_v3     |-> Setup_prototype_v3,
   smartsound_v1    |-> Setup_smartsound_v1,
   smartsound_v2    |-> Setup_smartsound_v2,
   smartsound_v3    |-> Setup_smartsound_v3,
   smartsound_final |-> Setup_smartsound_final][version]

AllVersions == {"prototype_v1", "prototype_v2", "prototype_v3", "smartsound_v1",
                "smartsound_v2", "smartsound_v3", "smartsound_final"}

ASSUME CodecSetupAssumption ==
  /\ Versions \subseteq AllVersions
  /\ MaxMoves \in Nat

Registers == UNION {{Setup(v)[i][1] : i \in DOMAIN Setup(v)} : v \in AllVersions}

\* A value none of the writes leaves there; the codec powers up muted or not,
\* with its DAC off.
PowerUp == [r \in Registers |-> IF r = "DACPOWER" THEN 192 ELSE -1]

\* The last write of a setup to its register.
Stays(setup, i) ==
  i \in DOMAIN setup /\ \A j \in DOMAIN setup : setup[j][1] = setup[i][1] => j <= i

\* What a complete setup leaves in a codec that had just been powered up.
LeftBy(version) ==
  [r \in Registers |->
     IF \E i \in DOMAIN Setup(version) : Setup(version)[i][1] = r
     THEN Setup(version)[CHOOSE i \in DOMAIN Setup(version) :
                           Setup(version)[i][1] = r /\ Stays(Setup(version), i)][2]
     ELSE PowerUp[r]]

VARIABLES
  firmware,    \* the version that runs
  registers,   \* what the codec holds
  driver,      \* has the I2C driver been installed?
  next,        \* the write CodecInit is at; 0 before the driver is there
  res,         \* the results so far, or-ed together: is one of them an error?
  moves        \* history: resets, connections, configurations, failures; a failed
               \* transfer counts twice

codecVars == <<registers, driver, next, res>>

Table == Setup(firmware)

InitCodec ==
  /\ firmware \in Versions
  /\ registers \in {PowerUp} \cup {LeftBy(v) : v \in Versions}
  /\ driver = FALSE /\ next = 0 /\ res = "ESP_OK"

Move(cost) == moves + cost <= MaxMoves /\ moves' = moves + cost

\* Mutant: the first register of the table is passed over.
InstallDriverPassesFirst ==
  /\ next = 0 /\ next' = 2
  /\ driver' \in BOOLEAN
  /\ res' = IF driver' THEN "ESP_OK" ELSE "error"
  /\ UNCHANGED <<registers, moves>>

\* i2c_param_config and i2c_driver_install.
InstallDriver ==
  /\ next = 0 /\ next' = 1
  /\ driver' \in BOOLEAN
  /\ res' = IF driver' THEN "ESP_OK" ELSE "error"
  /\ UNCHANGED <<registers, moves>>

\* A transfer puts a value into a register; one that fails may have done so.
Transferred == [registers EXCEPT ![Table[next][1]] = Table[next][2]]

Acknowledged == driver /\ registers' = Transferred /\ UNCHANGED moves

Failed ==
  \/ ~driver /\ UNCHANGED <<registers, moves>>
  \/ driver /\ Move(2) /\ registers' \in {registers, Transferred}

\* Mutant: the last result replaces the earlier ones.
WriteCodecI2CLast ==
  /\ next \in DOMAIN Table /\ next' = next + 1
  /\ \/ Acknowledged /\ res' = "ESP_OK"
     \/ Failed /\ res' = "error"
  /\ UNCHANGED driver

WriteCodecI2C ==
  /\ next \in DOMAIN Table /\ next' = next + 1
  /\ \/ Acknowledged /\ UNCHANGED res
     \/ Failed /\ res' = "error"
  /\ UNCHANGED driver

Returned == next = Len(Table) + 1

\* A reset of the ESP32 leaves the registers of the codec as they are.
CodecReset ==
  /\ driver' = FALSE /\ next' = 0 /\ res' = "ESP_OK"
  /\ UNCHANGED registers

-----------------------------------------------------------------------------
\* A setup that returns ESP_OK left every register it is about as it should
\* be, whatever an earlier setup, broken off, failed or of another version,
\* had left there.
OkMeansSetUp ==
  Returned /\ res = "ESP_OK" =>
    \A i \in DOMAIN Table : Stays(Table, i) => registers[Table[i][1]] = Table[i][2]

Muted == registers["DACCONTROL3"] = 4
DacOff == registers["DACPOWER"] = 192

\* Versions whose CodecInit says "mute DAC during setup" or "Muting DAC in
\* setup", and those that say "disable DAC ... when setting up DAC controls".
Mutes == AllVersions \ {"prototype_v2"}
SwitchesOff == Mutes \ {"prototype_v1"}

Unmuting == CHOOSE i \in DOMAIN Table : Table[i][1] = "DACCONTROL3" /\ Stays(Table, i)

DacControls == {"CONTROL1", "DACCONTROL1", "DACCONTROL2", "DACCONTROL16",
                "DACCONTROL17", "DACCONTROL20", "DACCONTROL4", "DACCONTROL5"}

\* While nothing has failed, the codec is muted from the first write of a
\* setup to the one that unmutes it, and the controls of the DAC change only
\* while it is off.
SilentUnlessFailed ==
  [][ res = "ESP_OK" /\ res' = "ESP_OK" =>
        /\ firmware \in Mutes /\ next' \in 2 .. Unmuting => Muted'
        /\ /\ firmware \in SwitchesOff
           /\ \E r \in DacControls : registers'[r] # registers[r]
           => DacOff ]_codecVars
=============================================================================
