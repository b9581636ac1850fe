--------------------------------- MODULE Nmea --------------------------------
(***************************************************************************)
(* NMEA sentences made by the HAL from the modem's reports                 *)
(* (loc_eng_nmea.cpp and the handlers of the reports in loc_eng.cpp).      *)
(* Satellites and the dilution of precision (DOP) may come with a          *)
(* satellite report and are needed with the position report after it: they *)
(* are cached between two handlers, on a thread that also starts and ends  *)
(* sessions and handles reports that no sentence comes of.                 *)
(*                                                                         *)
(* A sentence is a record of the fields that depend on state; a DOP and a  *)
(* cached set of satellites carry the number of the report they came with. *)
(***************************************************************************)
EXTENDS Integers, Sequences, FiniteSets, SequencesExt

CONSTANTS SvReports,   \* [list : PRNs in order, used : PRNs, dop : BOOLEAN]
          MaxReports,  \* bound on satellite reports
          MaxFixes     \* bound on position reports

VARIABLES provider,      \* who makes the sentences
          svUsed,        \* sv_used_mask, with the report it came from
          svDop,         \* pdop, hdop and vdop: the report they came from, or 0
          fixCriteria,   \* the position mode
          muted,         \* LOC_MUTE_SESS_IN_SESSION
          svCount, fixCount,
          out,           \* sentences of the last report
          last,          \* the last report
          listed         \* satellite reports listed in $GPGSA, in order

vars == <<provider, svUsed, svDop, fixCriteria, muted, svCount, fixCount, out, last,
          listed>>

NoSvs    == [mask |-> {}, from |-> 0]
NoReport == [type |-> "none"]

(* A report of a position: what it is, where it comes from and what it     *)
(* has.  time: gmtime can represent it.                                    *)
Positions == [kind : {"FAILURE", "FINAL", "INTERMEDIATE", "FILTERED"},
              gnss : BOOLEAN, latLong : BOOLEAN, dop : BOOLEAN, time : BOOLEAN]

Init ==
  /\ provider \in {"AP", "MP"}
  /\ svUsed = NoSvs /\ svDop = 0
  /\ fixCriteria = [mode |-> "INVALID", recurrence |-> "PERIODIC"]
  /\ muted = FALSE
  /\ svCount = 0 /\ fixCount = 0
  /\ out = <<>> /\ last = NoReport /\ listed = <<>>

-----------------------------------------------------------------------------
(* The sentences of a position.                                            *)

Used(mask) == SetToSortSeq(mask, <)

(* $GPGSA: the first twelve satellites used; the DOP of the report itself  *)
(* or else the cached one.                                                 *)
gsa(svs, p) ==
  [s |-> "GPGSA",
   fix |-> CASE svs.mask = {} -> 1
             [] Cardinality(svs.mask) \in 1 .. 3 -> 2
             [] OTHER -> 3,
   svs |-> IF Cardinality(svs.mask) > 12 THEN SubSeq(Used(svs.mask), 1, 12)
           ELSE Used(svs.mask),
   from |-> svs.from,
   dop |-> IF p.dop THEN -1 ELSE svDop]

(* N: no fix, A: autonomous, D: differential.                              *)
ModeLetter(p, criteria) ==
  CASE ~p.latLong -> "N"
    [] p.latLong /\ criteria.mode = "STANDALONE" -> "A"
    [] OTHER -> "D"

vtg(p, criteria) == [s |-> "GPVTG", mode |-> ModeLetter(p, criteria)]

rmc(p, criteria) == [s |-> "GPRMC", status |-> "A", pos |-> p.latLong,
                     mode |-> ModeLetter(p, criteria)]

(* $GPGGA: the quality is the mode as a digit, and the satellites are      *)
(* counted, not listed.                                                    *)
gga(svs, p, criteria) ==
  [s |-> "GPGGA", pos |-> p.latLong, quality |-> ModeLetter(p, criteria),
   used |-> Cardinality(svs.mask),
   dop |-> IF p.dop THEN -1 ELSE svDop]

(* Blank sentences, of a position that is not final and of satellites none *)
(* of which is used.                                                       *)
Blank == <<[s |-> "GPGSA", fix |-> 1, svs |-> <<>>, from |-> 0, dop |-> 0],
           [s |-> "GPVTG", mode |-> "N"],
           [s |-> "GPRMC", status |-> "V", pos |-> FALSE, mode |-> "N"],
           [s |-> "GPGGA", pos |-> FALSE, quality |-> "N", used |-> 0, dop |-> 0]>>

(* loc_eng_nmea_generate_pos.  A time that gmtime refuses ends it.         *)
generate_pos(p, criteria, generate) ==
  \/ /\ ~p.time
     /\ out' = <<>> /\ UNCHANGED <<svUsed, svDop, listed>>
  \/ /\ p.time /\ generate
     /\ out' = <<gsa(svUsed, p), vtg(p, criteria), rmc(p, criteria),
                 gga(svUsed, p, criteria)>>
     /\ listed' = IF svUsed.from = 0 THEN listed ELSE Append(listed, svUsed.from)
     /\ svUsed' = NoSvs   \* "clear the cache so they can't be used again"
     /\ svDop' = 0
  \/ /\ p.time /\ ~generate
     /\ out' = Blank
     /\ svDop' = 0
     /\ UNCHANGED <<svUsed, listed>>

(* LocEngReportPosition.  A single shot that was reported has ended its    *)
(* session, and with it the position mode, before the sentences are made.  *)
reportPosition(p) ==
  /\ fixCount < MaxFixes
  /\ fixCount' = fixCount + 1
  /\ last' = [type |-> "position", fix |-> p, criteria |-> fixCriteria]
  /\ LET reported == p.kind # "FILTERED"
         criteria == IF reported /\ ~muted /\ fixCriteria.recurrence = "SINGLE"
                     THEN [fixCriteria EXCEPT !.mode = "INVALID"] ELSE fixCriteria
     IN  /\ fixCriteria' = criteria
         /\ \/ /\ ~muted /\ provider = "AP" /\ p.gnss
               /\ generate_pos(p, criteria, reported /\ p.kind # "FAILURE")
            \/ /\ muted \/ provider # "AP" \/ ~p.gnss
               /\ out' = <<>> /\ UNCHANGED <<svUsed, svDop, listed>>
  /\ UNCHANGED <<provider, muted, svCount>>

-----------------------------------------------------------------------------
(* The sentences of the satellites in view.                                *)

GpsPrns     == 1 .. 32
GlonassPrns == 65 .. 96

SentenceCount(n) == n \div 4 + (IF n % 4 # 0 THEN 1 ELSE 0)

(* $GPGSV or $GLGSV.  A sentence goes on in the list where the last one    *)
(* ended: after four satellites of its system, or at the list's end.       *)
gsv(name, list, prns) ==
  LET In(a, b) == SelectSeq(SubSeq(list, a, b), LAMBDA prn : prn \in prns)
      count    == SentenceCount(Len(In(1, Len(list))))
      svNumber[k \in 0 .. count] ==
        IF k = 0 THEN 1
        ELSE LET full == {n \in svNumber[k - 1] .. Len(list) :
                            Len(In(svNumber[k - 1], n)) = 4}
             IN  IF full = {} THEN Len(list) + 1
                 ELSE 1 + CHOOSE n \in full : \A m \in full : n <= m
  IN  IF In(1, Len(list)) = <<>>
      THEN <<[s |-> name, of |-> 1, number |-> 1, inView |-> 0, svs |-> <<>>]>>
      ELSE [k \in 1 .. count |->
              [s |-> name, of |-> count, number |-> k, inView |-> Len(list),
               svs |-> In(svNumber[k - 1], svNumber[k] - 1)]]

(* Variant: a report without DOP leaves the one cached before.             *)
dopKept(r, n) == IF r.dop THEN n ELSE svDop

dopOf(r, n) == IF r.dop THEN n ELSE 0

(* loc_eng_nmea_generate_sv: satellites that were used are cached for the  *)
(* position report to come.  "No sv used, so there will be no position     *)
(* report": what was cached before stays.                                  *)
generate_sv(r) ==
  /\ out' = gsv("GPGSV", r.list, GpsPrns) \o gsv("GLGSV", r.list, GlonassPrns)
            \o IF r.used = {} THEN Blank ELSE <<>>
  /\ \/ /\ r.used # {}
        /\ svUsed' = [mask |-> r.used, from |-> svCount + 1]
        /\ svDop' = dopOf(r, svCount + 1)
     \/ r.used = {} /\ UNCHANGED <<svUsed, svDop>>

(* LocEngReportSv.                                                         *)
reportSv(r) ==
  /\ svCount < MaxReports
  /\ svCount' = svCount + 1
  /\ last' = [type |-> "sv", sv |-> r]
  /\ \/ ~muted /\ provider = "AP" /\ generate_sv(r)
     \/ /\ muted \/ provider # "AP"
        /\ out' = <<>> /\ UNCHANGED <<svUsed, svDop>>
  /\ UNCHANGED <<provider, fixCriteria, muted, fixCount, listed>>

(* LocEngReportNmea: the modem's own sentence is passed on.  Its events    *)
(* are registered for only if the HAL makes none itself.                   *)
reportNmea ==
  /\ provider = "MP"
  /\ out' = <<[s |-> "modem"]>>
  /\ last' = NoReport
  /\ UNCHANGED <<provider, svUsed, svDop, fixCriteria, muted, svCount, fixCount, listed>>

-----------------------------------------------------------------------------
(* LocEngPositionMode, for a session to come.                              *)
positionMode(mode, recurrence) ==
  /\ fixCriteria' = [mode |-> mode, recurrence |-> recurrence]
  /\ fixCriteria' # fixCriteria
  /\ out' = <<>> /\ last' = NoReport
  /\ UNCHANGED <<provider, svUsed, svDop, muted, svCount, fixCount, listed>>

(* A session is muted, and the muting ends with it.                        *)
muting ==
  /\ muted' = ~muted
  /\ out' = <<>> /\ last' = NoReport
  /\ UNCHANGED <<provider, svUsed, svDop, fixCriteria, svCount, fixCount, listed>>

Next ==
  \/ \E p \in Positions : reportPosition(p)
  \/ \E r \in SvReports : reportSv(r)
  \/ reportNmea
  \/ \E mode \in {"STANDALONE", "MS_BASED"}, r \in {"PERIODIC", "SINGLE"} :
       positionMode(mode, r)
  \/ muting

Spec == Init /\ [][Next]_vars

-----------------------------------------------------------------------------
(* loc_eng_nmea_generate_pos "clear the cache so they can't be used        *)
(* again": whatever reports are muted, filtered or out of turn, the        *)
(* satellites of a report are listed with one fix at most, no earlier      *)
(* report's after a later one's, and a DOP from the cache is that of the   *)
(* satellites it is printed with.  The four sentences of a position agree. *)
PositionCoherent ==
  /\ \A i, j \in DOMAIN listed : i < j => listed[i] < listed[j]
  /\ out # <<>> /\ last.type = "position" =>
       /\ out[1].dop \in {-1, 0} \/ out[1].dop = out[1].from
       /\ out[4].dop = out[1].dop
       /\ out[1].fix = 1 <=> out[4].used = 0
       /\ out[2].mode = out[3].mode /\ out[3].mode = out[4].quality
       /\ out[3].pos <=> out[4].pos

(* loc_eng_nmea_generate_sv: however the systems are mixed in a report,    *)
(* its sentences list every GPS and every GLONASS satellite once and in    *)
(* order, four at most in each, none without any, and are numbered through.*)
SatellitesListed ==
  out # <<>> /\ last.type = "sv" =>
    \A sys \in {"GPGSV", "GLGSV"} :
      LET mine == SelectSeq(out, LAMBDA x : x.s = sys)
          svs  == SelectSeq(last.sv.list, LAMBDA prn :
                    prn \in IF sys = "GPGSV" THEN GpsPrns ELSE GlonassPrns)
      IN  /\ FlattenSeq([k \in DOMAIN mine |-> mine[k].svs]) = svs
          /\ \A k \in DOMAIN mine :
               /\ mine[k].number = k /\ mine[k].of = Len(mine)
               /\ Len(mine[k].svs) <= 4
               /\ svs # <<>> => mine[k].svs # <<>>

=============================================================================
