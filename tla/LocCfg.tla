-------------------------------- MODULE LocCfg ------------------------------
(***************************************************************************)
(* What the GPS HAL finds out about its platform: the configuration files  *)
(* (loc_cfg.cpp, loc_eng_read_config), parsed line by line into a table of *)
(* parameters, and the target (loc_target.cpp), with the property that the *)
(* detection of a QCA1530 chip sets meanwhile.  get_gps_interface takes    *)
(* the assisted modes from the capabilities on some targets.               *)
(***************************************************************************)
EXTENDS Integers, Sequences, FiniteSets, SequencesExt

CONSTANTS Lines,        \* lines a file may hold: [name, text, num]
          MaxLines,     \* bound on the lines of a file
          QCA1530_DETECT_TIMEOUT,
          MaxCalls      \* bound on calls of the interface

VARIABLES files,      \* gps.conf and sap.conf
          platform,   \* [baseband, hw, soc]
          qca,        \* persist.qca1530
          apart,      \* bytes from DEBUG_LEVEL to TIMESTAMP (4: out of reach)
          reading,    \* [file, line]: where loc_read_conf is
          conf,       \* the parameters' values
          valid,      \* parameters whose param_set bit is set
          configAlreadyRead,
          tries,      \* of is_qca1530
          gTarget,
          caller,     \* what the HAL is doing
          trimmed,    \* the assisted modes were taken out
          calls

vars == <<files, platform, qca, apart, reading, conf, valid, configAlreadyRead, tries,
          gTarget, caller, trimmed, calls>>

(* Parameters: an int, two floats with validity bits, and the two of       *)
(* loc_cfg.cpp's own table, which is always consulted: these are bytes.    *)
Bytes  == {"DEBUG_LEVEL", "TIMESTAMP"}
Floats == {"GYRO_BIAS_RANDOM_WALK", "RATE_RANDOM_WALK"}
Params == {"CAPABILITIES"} \cup Floats \cup Bytes

(* loc_default_parameters, and the initial values of the bytes.            *)
Defaults == [p \in Params |-> IF p = "CAPABILITIES" THEN 7
                              ELSE IF p = "DEBUG_LEVEL" THEN 255 ELSE 0]

(* A file that cannot be opened.                                          *)
Missing == <<[name |-> "missing", text |-> "bare", num |-> 0]>>
Files   == {Missing} \cup UNION {[1 .. n -> Lines] : n \in 0 .. MaxLines}

Platforms == [baseband : {"apq", "msm"}, hw : {"MTP", "other"},
              soc : {"MPQ8064", "MSM8930", "other"}, mdm : BOOLEAN]

NotReading == [file |-> 0, line |-> 0]

Init ==
  /\ files \in [1 .. 2 -> Files]
  /\ platform \in Platforms
  /\ qca \in {"none", "no", "detect", "yes"}
  /\ apart \in (-3 .. 4) \ {0}
  /\ reading = NotReading
  /\ conf = [p \in Params |-> IF p = "DEBUG_LEVEL" THEN 255 ELSE 0]
  /\ valid = {}
  /\ configAlreadyRead = FALSE
  /\ tries = 0 /\ gTarget = -1
  /\ caller = "idle" /\ trimmed = FALSE /\ calls = 0

-----------------------------------------------------------------------------
(* A number in hexadecimal has no floating point value: it stays 0.        *)
DoubleValue(line) == IF line.text = "hex" THEN 0 ELSE line.num

(* A number is stored as the four bytes of an int, over a byte and what    *)
(* lies behind it: where the linker put p, the store to q may reach it.    *)
Distance(q, p) == IF p = q THEN 0 ELSE IF q = "DEBUG_LEVEL" THEN apart ELSE -apart

Reaches(q, p) == q \in Bytes /\ p \in Bytes /\ Distance(q, p) \in 0 .. 3

ByteOf(n, k) == (n \div 256 ^ k) % 256

(* The value of p after a line that reaches it.                            *)
Stored(line, p) ==
  CASE p \in Bytes  -> ByteOf(line.num, Distance(line.name, p))
    [] p \in Floats -> DoubleValue(line)
    [] OTHER        -> line.num

Sets(line, p) == line.text # "bare" /\ (line.name = p \/ Reaches(line.name, p))

(* Variant: the first of several lines counts.                             *)
setUnlessSet(c, line) ==
  [p \in Params |-> IF Sets(line, p) /\ c[p] = Defaults[p] THEN Stored(line, p) ELSE c[p]]

(* loc_set_config_entry for every entry of both tables.  A line without a  *)
(* value is skipped.                                                       *)
loc_set_config_entry(c, line) ==
  [p \in Params |-> IF Sets(line, p) THEN Stored(line, p) ELSE c[p]]

(* get_gps_interface, or gps_get_hardware_interface: loc_eng_read_config,  *)
(* which reads the files once.                                             *)
getInterface ==
  /\ caller = "idle" /\ calls < MaxCalls
  /\ calls' = calls + 1
  /\ caller' = "target"
  /\ \/ /\ ~configAlreadyRead
        /\ conf' = [p \in Params |-> IF p \in Bytes THEN conf[p] ELSE Defaults[p]]
        /\ valid' = {}
        /\ reading' = [file |-> 1, line |-> 0]
     \/ /\ configAlreadyRead
        /\ UNCHANGED <<conf, valid, reading>>
  /\ UNCHANGED <<files, platform, qca, apart, configAlreadyRead, tries, gTarget, trimmed>>

NextFile == IF reading.file = 1 THEN [file |-> 2, line |-> 0] ELSE NotReading

(* loc_read_conf: without the file nothing changes; with it the validity   *)
(* bits are cleared first, then the lines are parsed in turn.              *)
openConf ==
  /\ reading.file # 0 /\ reading.line = 0
  /\ \/ /\ files[reading.file] = Missing
        /\ reading' = NextFile
        /\ configAlreadyRead' = (reading.file = 2)
        /\ UNCHANGED valid
     \/ /\ files[reading.file] # Missing
        /\ valid' = {}
        /\ reading' = [reading EXCEPT !.line = 1]
        /\ UNCHANGED configAlreadyRead
  /\ UNCHANGED <<files, platform, qca, apart, conf, tries, gTarget, caller, trimmed, calls>>

parseLine ==
  /\ reading.file # 0 /\ reading.line # 0
  /\ LET file == files[reading.file]
     IN  \/ /\ reading.line <= Len(file)
            /\ LET line == file[reading.line]
               IN  /\ conf' = loc_set_config_entry(conf, line)
                   /\ valid' = IF line.name \in Floats /\ line.text # "bare"
                               THEN valid \cup {line.name} ELSE valid
            /\ reading' = [reading EXCEPT !.line = @ + 1]
            /\ UNCHANGED configAlreadyRead
         \/ /\ reading.line > Len(file)
            /\ reading' = NextFile
            /\ configAlreadyRead' = (reading.file = 2)
            /\ UNCHANGED <<conf, valid>>
  /\ UNCHANGED <<files, platform, qca, apart, tries, gTarget, caller, trimmed, calls>>

-----------------------------------------------------------------------------
(* loc_get_target without a QCA1530: -1 is left for a platform that should *)
(* have /dev/mdm and has not.                                              *)
detected ==
  CASE platform.baseband = "apq" ->
         IF platform.soc = "MPQ8064" THEN "MPQ" ELSE "APQ_SA"
    [] platform.baseband # "apq" /\ platform.hw = "MTP" ->
         IF platform.mdm THEN "MDM" ELSE "none"
    [] OTHER -> IF platform.soc = "MSM8930" THEN "MSM_NO_SSC" ELSE "UNKNOWN"

Targets == <<"MPQ", "APQ_SA", "MDM", "MSM_NO_SSC", "UNKNOWN", "QCA1530">>

Code(t) == IF t = "none" THEN -1 ELSE SelectInSeq(Targets, LAMBDA x : x = t)

cached == gTarget # -1

(* is_qca1530 reads the property, and waits a second while the detection   *)
(* is in progress, at most QCA1530_DETECT_TIMEOUT times.                   *)
loc_get_target ==
  /\ caller = "target" /\ reading.file = 0
  /\ \/ cached /\ caller' = "answer" /\ UNCHANGED <<gTarget, tries>>
     \/ /\ ~cached /\ qca = "detect" /\ tries + 1 < QCA1530_DETECT_TIMEOUT
        /\ tries' = tries + 1
        /\ UNCHANGED <<gTarget, caller>>
     \/ /\ ~cached /\ (qca # "detect" \/ tries + 1 >= QCA1530_DETECT_TIMEOUT)
        /\ gTarget' = Code(IF qca = "yes" THEN "QCA1530" ELSE detected)
        /\ tries' = 0
        /\ caller' = "answer"
  /\ UNCHANGED <<files, platform, qca, apart, reading, conf, valid, configAlreadyRead,
                 trimmed, calls>>

(* The interface is given, except on a target without GNSS; without a      *)
(* modem of the target's own it is not MSB or MSA capable (bits 2 and 4).  *)
answerInterface ==
  /\ caller = "answer"
  /\ \/ /\ gTarget \in {Code("APQ_SA"), Code("QCA1530")}
        /\ conf' = [conf EXCEPT !["CAPABILITIES"] = (@ \div 8) * 8 + (@ % 2)]
        /\ trimmed' = TRUE
     \/ /\ gTarget \notin {Code("APQ_SA"), Code("QCA1530")}
        /\ UNCHANGED <<conf, trimmed>>
  /\ caller' = "idle"
  /\ UNCHANGED <<files, platform, qca, apart, reading, valid, configAlreadyRead, tries,
                 gTarget, calls>>

(* The detection of the chip ends.                                         *)
chipDetected ==
  /\ qca = "detect"
  /\ qca' \in {"yes", "no"}
  /\ UNCHANGED <<files, platform, apart, reading, conf, valid, configAlreadyRead,
                 tries, gTarget, caller, trimmed, calls>>

Next == getInterface \/ openConf \/ parseLine \/ loc_get_target
        \/ answerInterface \/ chipDetected

Spec == Init /\ [][Next]_vars

-----------------------------------------------------------------------------
(* The lines of a file that set p.                                         *)
Giving(f, p) ==
  IF files[f] = Missing THEN <<>>
  ELSE SelectSeq(files[f], LAMBDA line : Sets(line, p))

Written(p) ==
  LET all == Giving(1, p) \o Giving(2, p)
  IN  IF all = <<>> THEN Defaults[p] ELSE Stored(Last(all), p)

(* However often the interface is asked for, and whatever the files repeat *)
(* or leave out: every parameter has the value of the last line that sets  *)
(* it, sap.conf after gps.conf, or its default (a byte what that line's    *)
(* int leaves in it, which may be the line of the byte before it); and on  *)
(* a target that cannot be assisted the capabilities stay without the      *)
(* assisted modes.                                                         *)
ConfigAsWritten ==
  caller = "idle" /\ calls > 0 =>
    /\ \A p \in Params \ {"CAPABILITIES"} : conf[p] = Written(p)
    /\ conf["CAPABILITIES"] = IF trimmed
                              THEN (Written("CAPABILITIES") \div 8) * 8
                                   + (Written("CAPABILITIES") % 2)
                              ELSE Written("CAPABILITIES")
    /\ trimmed <=> gTarget \in {Code("APQ_SA"), Code("QCA1530")}
=============================================================================
