------------------------------ MODULE FxosSensor ------------------------------
(***************************************************************************)
(* The FXOS8700 behind GyroMagSensor: init() with FXOS_Init(), a list of   *)
(* accesses over I2C any of which may fail, tried at four addresses, and   *)
(* the scale that everything read later is multiplied by.  main() calls    *)
(* init() once, ignores its result and goes on to calibrate.               *)
(***************************************************************************)
EXTENDS GyroMagSensorHistory, Sequences

\* XYZ_DATA_CFG_REG: FULL_SCALE_2G, FULL_SCALE_4G, FULL_SCALE_8G
Ranges == {0, 1, 2}

VARIABLES
  started,             \* main() has called init()
  active, range,       \* ACTIVE_MASK of CTRL_REG1, and XYZ_DATA_CFG_REG
  isInit, dataScale    \* isInit, g_dataScale

chip  == <<active, range>>
fvars == <<hvars, started, chip, isInit, dataScale>>

\* A restart of the processor alone finds the chip as it was.
FInit ==
  /\ HInit
  /\ started = FALSE /\ isInit = FALSE /\ dataScale = 0
  /\ active \in BOOLEAN /\ range \in Ranges

\* The accesses of FXOS_Init, in their order.
Accesses == <<"who am I", "read CTRL_REG1", "standby", "check standby", "FIFO",
              "CTRL_REG2", "M_CTRL_REG1", "M_CTRL_REG2", "range", "activate",
              "check active">>
Position(access) == CHOOSE k \in DOMAIN Accesses : Accesses[k] = access

\* Mutated: the range is left at what it was.
ConfiguredRangeKept(done) ==
  /\ active' = (Position("activate") <= done
                \/ (active /\ Position("standby") > done))
  /\ UNCHANGED range

\* The chip after the first accesses up to done have reached it.
Configured(done) ==
  /\ active' = (Position("activate") <= done
                \/ (active /\ Position("standby") > done))
  /\ range' = IF Position("range") <= done THEN 1 ELSE range

\* g_dataScale by g_sensorRange; that of 8 g is compared with 0x10, which
\* the register never holds.
Scale(r) == IF r = 0 THEN 2 ELSE IF r = 1 THEN 4 ELSE IF r = 16 THEN 8 ELSE 0

\* FXOS_Init is successful (configured) when all its accesses are, at some
\* address; an access that reports a failure may yet have reached the chip.
\* Then the range is read back (answered).
init ==
  \E done \in 0 .. Len(Accesses), configured, answered \in BOOLEAN :
    /\ ~started /\ started' = TRUE
    /\ configured => done = Len(Accesses)
    /\ answered => configured
    /\ Configured(done)
    /\ dataScale' = IF answered THEN Scale(range') ELSE dataScale
    /\ isInit' = (answered /\ Scale(range') # 0)
    /\ UNCHANGED hvars

\* Sensor_ReadData multiplies by the scale, zero if init() has not set it.
Answers == IF dataScale = 0 THEN {Zero} ELSE Sensor_ReadData

Sample(raw) ==
  /\ started
  /\ HCalibrate(raw) \/ HProcess(raw)
  /\ UNCHANGED <<started, chip, isInit, dataScale>>

FNext == init \/ \E raw \in Answers : Sample(raw)

FSpec == FInit /\ [][FNext]_fvars

-----------------------------------------------------------------------------
\* There is nothing between a configured sensor and a mute one, wherever the
\* bus fails and whatever state the chip was found in: either it is active,
\* in the range its samples are scaled for, or every acceleration reported
\* is zero.  main() does not know which, so a car with a mute sensor counts
\* as standing still for good after StillValue + 1 samples.
ConfiguredOrMute ==
  \/ isInit /\ active /\ range = 1 /\ dataScale = 4
  \/ /\ ~isInit /\ prevAccel = Zero
     /\ steady > StillValue => isAccelStill

=============================================================================
