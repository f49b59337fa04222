--------------------------- MODULE ServiceProofs ---------------------------
(***************************************************************************)
(* What install announces is what it has set up, for any commands, any     *)
(* failures and any kills; the flags mean what they say, and the unit file *)
(* gives them back; and the goroutine of detectPublicIP never waits on its *)
(* channel.                                                                *)
(*                                                                         *)
(* The loops (over the words of a command, over the words of a line) are   *)
(* reasoned about through their runs: a sequence of values, one per turn.  *)
(* That there is one, and what holds along it, is shown by induction in    *)
(* the form of a fact about sets of numbers (Induction).                   *)
(***************************************************************************)
EXTENDS Service, WellFoundedInduction, TLAPS

\* The goroutine lives with the end of an install, and sends when it ends.
OneAnswer ==
    /\ lookup # "none" => setup.pc \in {"detect", "unit", "enable"}
    /\ lookup \in {"none", "curl", "hostname"} => done = <<>>

AfterCerts == {"copy", "fill", "data", "detect", "unit", "enable"}
Pair == {"crt", "key"}

\* How far the install under way has come.
Progress ==
    /\ setup.pc \in InstallPcs => setup.cfg \in Configs
    /\ setup.pc = "key" => "crt" \in certs
    /\ setup.pc = "marker" => Pair \subseteq certs
    /\ setup.pc \in AfterCerts /\ AutoGenCerts(setup.cfg) => Pair \subseteq certs
    /\ setup.pc = "enable" => unit = ExecStart(setup.cfg)

\* What was announced is still in place: an uninstall that takes certificates
\* away has withdrawn the announcement before.
InPlace ==
    announced # None =>
        /\ setup.pc \notin {"rmcerts", "rmbinary"}
        /\ \E c \in Configs : /\ announced = Announcement(c) /\ unit = ExecStart(c)
                              /\ AutoGenCerts(c) => Pair \subseteq certs

IInv == TypeOK /\ OneAnswer /\ Progress /\ InPlace

-----------------------------------------------------------------------------
(* Steps that several actions share *)

AllPcs == {"idle"} \cup InstallPcs \cup UninstallPcs
Setups == [pc : AllPcs, args : Commands \cup {<<>>}, cfg : Configs \cup {Defaults},
           ip : Addresses \cup {None}]
Lines == {None, Cut} \cup {ExecStart(c) : c \in Configs}
Announcements == {None} \cup {Announcement(c) : c \in Configs}
Channels == {<<>>} \cup {<<a>> : a \in Addresses \cup {None}}

LEMMA TypeParts ==
    TypeOK <=> /\ certs \subseteq Writes \cup {"own"}
               /\ binary \in {"none", "cut", "whole"}
               /\ unit \in Lines
               /\ active \in BOOLEAN
               /\ running \in BOOLEAN
               /\ announced \in Announcements
               /\ setup \in Setups
               /\ lookup \in {"none", "curl", "hostname", "over"}
               /\ done \in Channels
BY DEF TypeOK, Lines, Announcements, Setups, AllPcs, Channels

LEMMA GotoParts ==
    ASSUME TypeOK, NEW pc \in AllPcs, Goto(pc)
    PROVE  /\ setup' \in Setups /\ setup'.pc = pc /\ setup'.cfg = setup.cfg
BY TypeParts DEF Goto, Setups

LEMMA ExitParts ==
    ASSUME Exit
    PROVE  /\ setup' \in Setups /\ setup'.pc = "idle" /\ lookup' = "none" /\ done' = <<>>
BY DEF Exit, Idle, Setups, AllPcs

\* A command ends; what it leaves behind is typed, and in place if announced.
LEMMA ExitInv ==
    ASSUME IInv, Exit, certs' \subseteq Writes \cup {"own"}, certs \subseteq certs',
           binary' \in {"none", "cut", "whole"}, unit' \in Lines, active' \in BOOLEAN,
           UNCHANGED running,
           announced' = None \/ (announced' = announced /\ unit' = unit)
    PROVE  IInv'
<1>1. /\ setup' \in Setups /\ setup'.pc = "idle" /\ lookup' = "none" /\ done' = <<>>
  BY ExitParts
<1>2. TypeOK'
  <2>1. announced' \in Announcements
    BY TypeParts DEF IInv, Announcements
  <2>2. running' \in BOOLEAN /\ done' \in Channels /\ lookup' \in {"none", "curl", "hostname", "over"}
    BY <1>1, TypeParts DEF IInv, Channels
  <2> QED
    BY <1>1, <2>1, <2>2
    DEF TypeOK, Lines, Announcements, Setups, AllPcs, Channels
<1>3. OneAnswer' /\ Progress'
  BY <1>1 DEF OneAnswer, Progress, InstallPcs, Writes, AfterCerts
<1>4. InPlace'
  BY <1>1 DEF IInv, InPlace, Pair
<1> QED
  BY <1>2, <1>3, <1>4 DEF IInv

\* A command goes on, and its goroutine with it.
LEMMA GotoInv ==
    ASSUME IInv, NEW pc \in AllPcs, Goto(pc), certs' \subseteq Writes \cup {"own"},
           binary' \in {"none", "cut", "whole"}, active' \in BOOLEAN, running' \in BOOLEAN,
           unit' \in Lines, UNCHANGED <<lookup, done>>,
           setup.pc \in {"detect", "unit", "enable"} => pc \in {"unit", "enable"},
           announced' = None \/ /\ announced' = announced /\ unit' = unit /\ certs \subseteq certs'
                                /\ pc \notin {"rmcerts", "rmbinary"},
           Progress'
    PROVE  IInv'
<1>1. setup' \in Setups /\ setup'.pc = pc
  BY GotoParts DEF IInv
<1>2. TypeOK'
  <2>1. announced' \in Announcements
    BY TypeParts DEF IInv, Announcements
  <2>2. done' \in Channels /\ lookup' \in {"none", "curl", "hostname", "over"}
    BY TypeParts DEF IInv
  <2> QED
    BY <1>1, <2>1, <2>2
    DEF TypeOK, Lines, Announcements, Setups, AllPcs, Channels
<1>3. OneAnswer'
  BY <1>1 DEF IInv, OneAnswer
<1>4. InPlace'
  BY <1>1 DEF IInv, InPlace, Pair
<1> QED
  BY <1>2, <1>3, <1>4 DEF IInv

-----------------------------------------------------------------------------
(* install *)

LEMMA PcTypes == /\ AfterCerts \subseteq InstallPcs /\ Writes \subseteq InstallPcs
                 /\ InstallPcs \subseteq AllPcs /\ UninstallPcs \subseteq AllPcs
                 /\ "check" \in InstallPcs
BY DEF AfterCerts, Writes, InstallPcs, UninstallPcs, AllPcs

LEMMA StateParts ==
    ASSUME IInv
    PROVE  /\ certs \subseteq Writes \cup {"own"} /\ binary \in {"none", "cut", "whole"}
           /\ unit \in Lines /\ active \in BOOLEAN /\ running \in BOOLEAN
           /\ announced \in Announcements /\ setup \in Setups
BY TypeParts DEF IInv

LEMMA InstallInv == ASSUME IInv, NEW args \in Commands, Install(args) PROVE IInv'
<1> DEFINE c == ConfigOf(args)
<1>1. c \in Configs
  BY DEF Configs
<1> HIDE DEF c
<1>2. /\ setup.pc = "idle" /\ UNCHANGED <<files, active, running, announced, lookup, done>>
      /\ setup' = [Idle EXCEPT !.pc = "check", !.args = args, !.cfg = c]
  BY DEF Install, At, c
<1>3. setup' \in Setups /\ setup'.pc = "check" /\ setup'.cfg = c
  BY <1>1, <1>2 DEF Idle, Setups, AllPcs, InstallPcs
<1>4. TypeOK'
  BY <1>2, <1>3, TypeParts
  DEF IInv, files, TypeOK, Lines, Announcements, Setups, AllPcs, Channels
<1>5. OneAnswer'
  BY <1>2, <1>3 DEF IInv, OneAnswer
<1>6. Progress'
  BY <1>1, <1>3 DEF Progress, AfterCerts
<1>7. InPlace'
  BY <1>2, <1>3 DEF IInv, InPlace, files
<1> QED
  BY <1>4, <1>5, <1>6, <1>7 DEF IInv

LEMMA CheckInv == ASSUME IInv, CertsExist \/ GenerateCerts \/ NoCertsNeeded PROVE IInv'
<1>1. setup.pc = "check" /\ UNCHANGED <<files, active, running, announced>>
  BY DEF CertsExist, GenerateCerts, NoCertsNeeded, At
<1>2. setup.cfg \in Configs
  BY <1>1, PcTypes DEF IInv, Progress
<1>3. CASE CertsExist
  BY <1>1, <1>3, StateParts, ExitInv DEF CertsExist, files
<1>4. CASE GenerateCerts
  <2>1. Goto("crt") /\ UNCHANGED <<lookup, done>>
    BY <1>4 DEF GenerateCerts
  <2>2. setup'.pc = "crt" /\ setup'.cfg = setup.cfg
    BY <2>1, GotoParts DEF IInv, AllPcs, InstallPcs, Writes
  <2>3. Progress'
    BY <1>2, <2>2 DEF Progress, AfterCerts
  <2> QED
    BY <1>1, <2>1, <2>3, StateParts, GotoInv DEF files, AllPcs, InstallPcs, Writes
<1>5. CASE NoCertsNeeded
  <2>1. Goto("copy") /\ ~AutoGenCerts(setup.cfg) /\ UNCHANGED <<lookup, done>>
    BY <1>5 DEF NoCertsNeeded
  <2>2. setup'.pc = "copy" /\ setup'.cfg = setup.cfg
    BY <2>1, GotoParts DEF IInv, AllPcs, InstallPcs
  <2>3. Progress'
    BY <1>2, <2>1, <2>2 DEF Progress, AfterCerts
  <2> QED
    BY <1>1, <2>1, <2>3, StateParts, GotoInv DEF files, AllPcs, InstallPcs
<1> QED
  BY <1>3, <1>4, <1>5

LEMMA WriteCertInv ==
    ASSUME IInv, NEW f \in Writes, WriteCert(f) \/ WriteCertFails(f)
    PROVE  IInv'
<1>1. setup.pc = f /\ UNCHANGED <<binary, unit, active, running, announced>>
  BY DEF WriteCert, WriteCertFails, At
<1>2. CASE WriteCertFails(f)
  BY <1>1, <1>2, StateParts, ExitInv DEF WriteCertFails
<1>3. CASE WriteCert(f)
  <2> DEFINE next == AfterWrite(f)
  <2>1. Goto(next) /\ certs' = certs \cup {f} /\ UNCHANGED <<lookup, done>>
    BY <1>3 DEF WriteCert
  <2>2. \/ f = "crt" /\ next = "key"
        \/ f = "key" /\ next = "marker"
        \/ f = "marker" /\ next = "copy"
    BY DEF Writes, AfterWrite
  <2> HIDE DEF next
  <2>3. next \in AllPcs
    BY <2>2 DEF AllPcs, InstallPcs, Writes
  <2>4. setup'.pc = next /\ setup'.cfg = setup.cfg
    BY <2>1, <2>3, GotoParts DEF IInv
  <2>5. setup.cfg \in Configs
    BY <1>1, PcTypes DEF IInv, Progress
  <2>6. Progress'
    BY <1>1, <2>1, <2>2, <2>4, <2>5 DEF IInv, Progress, AfterCerts, Pair
  <2>7. /\ certs' \subseteq Writes \cup {"own"}
        /\ setup.pc \notin {"detect", "unit", "enable"} /\ next \notin {"rmcerts", "rmbinary"}
    BY <1>1, <2>1, <2>2, StateParts
  <2> QED
    BY <1>1, <2>1, <2>3, <2>6, <2>7, StateParts, GotoInv
<1> QED
  BY <1>2, <1>3

\* From the copy of the binary on, nothing touches the certificates.
LEMMA GoesOnInv ==
    ASSUME IInv, NEW pc \in AfterCerts, Goto(pc), setup.pc \in AfterCerts,
           UNCHANGED <<certs, active, running>>, binary' \in {"none", "cut", "whole"},
           unit' \in Lines, UNCHANGED <<lookup, done>>,
           setup.pc \in {"detect", "unit", "enable"} => pc \in {"unit", "enable"},
           announced' = None \/ (announced' = announced /\ unit' = unit),
           pc = "enable" => unit' = ExecStart(setup.cfg)
    PROVE  IInv'
<1>1. pc \in AllPcs /\ setup.pc \in InstallPcs
  BY PcTypes
<1>2. setup'.pc = pc /\ setup'.cfg = setup.cfg
  BY <1>1, GotoParts DEF IInv
<1>3. Progress'
  <2>1. setup'.cfg \in Configs
    BY <1>1, <1>2 DEF IInv, Progress
  <2>2. AutoGenCerts(setup.cfg) => Pair \subseteq certs'
    BY DEF IInv, Progress
  <2> QED
    BY <1>2, <2>1, <2>2 DEF Progress, AfterCerts
<1>4. pc \notin {"rmcerts", "rmbinary"}
  BY DEF AfterCerts
<1> QED
  BY <1>1, <1>3, <1>4, StateParts, GotoInv

LEMMA CopyInv == ASSUME IInv, SkipCopy \/ CreateBinary \/ FillBinary \/ Timeout PROVE IInv'
<1>1. \/ setup.pc \in {"copy", "fill"} /\ \E pc \in {"data", "fill"} : Goto(pc)
      \/ setup.pc = "detect" /\ Goto("unit")
  BY DEF SkipCopy, CreateBinary, FillBinary, Timeout, At
<1>2. /\ UNCHANGED <<certs, unit, active, running, announced, lookup, done>>
      /\ binary' \in {"none", "cut", "whole"}
  BY StateParts DEF SkipCopy, CreateBinary, FillBinary, Timeout, files
<1> QED
  BY <1>1, <1>2, StateParts, GoesOnInv DEF AfterCerts

LEMMA WriteUnitInv == ASSUME IInv, WriteUnit \/ WriteUnitFails PROVE IInv'
<1>1. setup.pc = "unit" /\ UNCHANGED <<certs, binary, active, running>>
  BY DEF WriteUnit, WriteUnitFails, At
<1>2. CASE WriteUnit
  <2>1. setup.cfg \in Configs
    BY <1>1, PcTypes DEF IInv, Progress, InstallPcs
  <2>2. unit' = ExecStart(setup.cfg) /\ unit' \in Lines /\ announced' = None
        /\ Goto("enable") /\ UNCHANGED <<lookup, done>>
    BY <1>2, <2>1 DEF WriteUnit, Lines
  <2> QED
    BY <1>1, <2>2, StateParts, GoesOnInv DEF AfterCerts
<1>3. CASE WriteUnitFails
  <2>1. unit' \in Lines /\ (announced' = None \/ (announced' = announced /\ unit' = unit)) /\ Exit
    BY <1>3, StateParts DEF WriteUnitFails, Lines
  <2> QED
    BY <1>1, <2>1, StateParts, ExitInv
<1> QED
  BY <1>2, <1>3

LEMMA EnableInv == ASSUME IInv, Enable PROVE IInv'
<1>1. /\ setup.pc = "enable" /\ announced' = Announcement(setup.cfg) /\ Exit
      /\ active' \in BOOLEAN /\ UNCHANGED <<certs, binary, unit, running>>
  BY StateParts DEF Enable, At, files
<1>2. setup' \in Setups /\ setup'.pc = "idle" /\ lookup' = "none" /\ done' = <<>>
  BY <1>1, ExitParts
<1>3. /\ setup.cfg \in Configs /\ unit = ExecStart(setup.cfg)
      /\ AutoGenCerts(setup.cfg) => Pair \subseteq certs
  BY <1>1 DEF IInv, Progress, InstallPcs, AfterCerts
<1>4. TypeOK'
  <2>1. announced' \in Announcements
    BY <1>1, <1>3 DEF Announcements
  <2>2. done' \in Channels /\ lookup' \in {"none", "curl", "hostname", "over"}
    BY <1>2 DEF Channels
  <2> QED
    BY <1>1, <1>2, <2>1, <2>2, StateParts
    DEF TypeOK, Lines, Announcements, Setups, AllPcs, Channels
<1>5. OneAnswer' /\ Progress'
  BY <1>2 DEF OneAnswer, Progress, InstallPcs, Writes, AfterCerts
<1>6. InPlace'
  BY <1>1, <1>2, <1>3 DEF InPlace
<1> QED
  BY <1>4, <1>5, <1>6 DEF IInv

LEMMA StopsInv == ASSUME IInv, Stops PROVE IInv'
BY StateParts, ExitInv DEF Stops, files

-----------------------------------------------------------------------------
(* detectPublicIP *)

LEMMA MakeDataDirInv == ASSUME IInv, MakeDataDir PROVE IInv'
<1>1. /\ setup.pc = "data" /\ Goto("detect") /\ lookup' = "curl" /\ UNCHANGED done
      /\ UNCHANGED <<certs, binary, unit, active, running, announced>>
  BY DEF MakeDataDir, At, files
<1>2. setup' \in Setups /\ setup'.pc = "detect" /\ setup'.cfg = setup.cfg
  BY <1>1, GotoParts DEF IInv, AllPcs, InstallPcs
<1>3. lookup = "none" /\ done = <<>>
  BY <1>1, TypeParts DEF IInv, OneAnswer
<1>4. TypeOK'
  BY <1>1, <1>2, TypeParts
  DEF IInv, TypeOK, Lines, Announcements, Setups, AllPcs, Channels
<1>5. OneAnswer'
  BY <1>1, <1>2, <1>3 DEF OneAnswer
<1>6. Progress'
  BY <1>1, <1>2 DEF IInv, Progress, InstallPcs, AfterCerts
<1>7. InPlace'
  BY <1>1, <1>2 DEF IInv, InPlace
<1> QED
  BY <1>4, <1>5, <1>6, <1>7 DEF IInv

\* The goroutine or the select takes a step; the files stay as they are.
LEMMA LookupInv ==
    ASSUME IInv, UNCHANGED <<files, active, running, announced>>,
           setup'.pc = setup.pc \/ (setup.pc = "detect" /\ setup'.pc = "unit"),
           setup' \in Setups, setup'.cfg = setup.cfg, done' \in Channels,
           lookup' \in {"none", "curl", "hostname", "over"}, OneAnswer'
    PROVE  IInv'
<1>1. UNCHANGED <<certs, binary, unit, active, running, announced>>
  BY DEF files
<1>2. TypeOK'
  BY <1>1, TypeParts DEF IInv, TypeOK, Lines, Announcements, Setups, AllPcs, Channels
<1>3. Progress'
  BY <1>1 DEF IInv, Progress, InstallPcs, AfterCerts
<1>4. InPlace'
  BY <1>1 DEF IInv, InPlace
<1> QED
  BY <1>2, <1>3, <1>4 DEF IInv

LEMMA AnswerInv ==
    ASSUME IInv, lookup \in {"curl", "hostname"}, NEW a \in Addresses \cup {None}, Send(a),
           lookup' = "over", UNCHANGED <<files, active, running, announced, setup>>
    PROVE  IInv'
<1>1. done' = <<a>>
  <2>1. done = <<>>
    BY DEF IInv, OneAnswer
  <2>2. done' = Append(<<>>, a)
    BY <2>1 DEF Send
  <2> QED
    BY <2>2
<1>2. done' \in Channels
  BY <1>1 DEF Channels
<1>3. OneAnswer'
  BY DEF IInv, OneAnswer
<1> QED
  BY <1>2, <1>3, StateParts, LookupInv

LEMMA DetectInv == ASSUME IInv, Curl \/ Hostname \/ TakeAddress PROVE IInv'
<1>1. CASE Curl
  <2>1. PICK a \in Addresses \cup {None} :
           IF a # None /\ isPublicIP(a)
           THEN Send(a) /\ lookup' = "over"
           ELSE lookup' = "hostname" /\ UNCHANGED done
    BY <1>1 DEF Curl
  <2>2. lookup = "curl" /\ UNCHANGED <<files, active, running, announced, setup>>
    BY <1>1 DEF Curl
  <2>3. CASE Send(a) /\ lookup' = "over"
    BY <2>2, <2>3, AnswerInv
  <2>4. CASE lookup' = "hostname" /\ UNCHANGED done
    <3>1. OneAnswer'
      BY <2>2, <2>4 DEF IInv, OneAnswer
    <3> QED
      BY <2>2, <2>4, <3>1, StateParts, TypeParts, LookupInv DEF IInv
  <2> QED
    BY <2>1, <2>3, <2>4
<1>2. CASE Hostname
  <2>1. lookup = "hostname" /\ lookup' = "over"
        /\ UNCHANGED <<files, active, running, announced, setup>>
    BY <1>2 DEF Hostname
  <2>2. PICK out \in HostOutputs :
          \/ \E i \in 1 .. Len(out) :
                /\ isPublicIP(out[i]) /\ \A j \in 1 .. i - 1 : ~isPublicIP(out[j])
                /\ Send(out[i])
          \/ (\A i \in 1 .. Len(out) : ~isPublicIP(out[i])) /\ Send(None)
    BY <1>2 DEF Hostname
  <2>3. CASE Send(None)
    BY <2>1, <2>3, AnswerInv
  <2>4. ASSUME NEW i \in 1 .. Len(out), Send(out[i])
        PROVE  IInv'
    <3>1. out \in Seq(Addresses)
      BY ServiceAssumption
    <3>2. out[i] \in Addresses
      BY <3>1
    <3> QED
      BY <2>1, <2>4, <3>2, AnswerInv
  <2> QED
    BY <2>2, <2>3, <2>4
<1>3. CASE TakeAddress
  <2>1. /\ setup.pc = "detect" /\ done # <<>> /\ done' = <<>>
        /\ setup' = [setup EXCEPT !.pc = "unit", !.ip = done[1]]
        /\ UNCHANGED <<files, active, running, announced, lookup>>
    BY <1>3 DEF TakeAddress, At
  <2>2. done[1] \in Addresses \cup {None}
    BY <2>1, TypeParts DEF IInv, Channels
  <2>3. setup' \in Setups /\ setup'.pc = "unit" /\ setup'.cfg = setup.cfg
    BY <2>1, <2>2, StateParts DEF Setups, AllPcs, InstallPcs
  <2>4. OneAnswer'
    BY <2>1, <2>3 DEF IInv, OneAnswer
  <2>5. done' \in Channels
    BY <2>1 DEF Channels
  <2> QED
    BY <2>1, <2>3, <2>4, <2>5, TypeParts, LookupInv DEF IInv
<1> QED
  BY <1>1, <1>2, <1>3

-----------------------------------------------------------------------------
(* uninstall, systemd and the operator *)

LEMMA UninstallInv ==
    ASSUME IInv, Uninstall \/ StopService \/ RemoveUnit \/ RemoveCerts
    PROVE  IInv'
<1>1. PICK pc \in UninstallPcs : Goto(pc) /\ (announced' # None => pc \in {"stop", "remove"})
  <2>1. CASE Uninstall \/ StopService
    BY <2>1 DEF Uninstall, StopService, UninstallPcs
  <2>2. CASE RemoveUnit
    BY <2>2 DEF RemoveUnit, UninstallPcs
  <2>3. CASE RemoveCerts
    <3>1. announced' = None
      BY <2>3 DEF RemoveCerts, At, IInv, InPlace
    <3> QED
      BY <2>3, <3>1 DEF RemoveCerts, UninstallPcs
  <2> QED
    BY <2>1, <2>2, <2>3
<1>2. setup.pc \in {"idle", "stop", "remove", "rmcerts"} /\ UNCHANGED <<binary, lookup, done>>
  BY DEF Uninstall, StopService, RemoveUnit, RemoveCerts, At, files
<1>3. announced' = None \/ (announced' = announced /\ unit' = unit /\ certs' = certs)
  BY DEF Uninstall, StopService, RemoveUnit, RemoveCerts, At, files, IInv, InPlace
<1>4. /\ certs' \subseteq Writes \cup {"own"} /\ unit' \in Lines
      /\ active' \in BOOLEAN /\ running' \in BOOLEAN
  <2>1. CASE RemoveCerts
    BY <2>1, StateParts DEF RemoveCerts
  <2>2. CASE ~RemoveCerts
    BY <2>2, StateParts DEF Uninstall, StopService, RemoveUnit, files, Lines
  <2> QED
    BY <2>1, <2>2
<1>5. pc \in AllPcs
  BY PcTypes
<1>6. setup'.pc = pc
  BY <1>1, <1>5, GotoParts DEF IInv
<1>7. Progress'
  BY <1>6 DEF Progress, InstallPcs, UninstallPcs, Writes, AfterCerts
<1> QED
  BY <1>1, <1>2, <1>3, <1>4, <1>5, <1>7, StateParts, GotoInv

LEMMA RemoveBinaryInv == ASSUME IInv, RemoveBinary PROVE IInv'
<1>1. /\ binary' \in {"none", "cut", "whole"} /\ Exit
      /\ UNCHANGED <<certs, unit, active, running, announced>>
  BY StateParts DEF RemoveBinary, removeBinary
<1> QED
  BY <1>1, StateParts, ExitInv

LEMMA MachineInv == ASSUME IInv, StartServer \/ ServerDies \/ PlaceCerts PROVE IInv'
<1>1. /\ running' \in BOOLEAN /\ certs \subseteq certs' /\ certs' \subseteq certs \cup {"own"}
      /\ UNCHANGED <<binary, unit, active, announced, setup, lookup, done>>
  BY StateParts DEF StartServer, ServerDies, PlaceCerts, files
<1>2. TypeOK'
  BY <1>1 DEF IInv, TypeOK
<1>3. OneAnswer' /\ Progress'
  BY <1>1 DEF IInv, OneAnswer, Progress, Pair
<1>4. InPlace'
  BY <1>1 DEF IInv, InPlace, Pair
<1> QED
  BY <1>2, <1>3, <1>4 DEF IInv

\* All words: the provers do not know that a literal is a STRING.
Words == STRING \cup Flags \cup {"", "install", CertPath, KeyPath}

-----------------------------------------------------------------------------
(* The loop of ParseArgs *)

\* Induction over the naturals, as a fact about sets.
LEMMA Induction ==
    ASSUME NEW S \in SUBSET Nat, 0 \in S, \A n \in S : n + 1 \in S
    PROVE  S = Nat
<1> SUFFICES ASSUME Nat \ S # {} PROVE FALSE
  OBVIOUS
<1>1. PICK x \in Nat \ S : \A y \in Nat \ S : ~(<<y, x>> \in OpToRel(<, Nat))
  <2>1. \E x \in Nat \ S : \A y \in Nat \ S : ~(<<y, x>> \in OpToRel(<, Nat))
    BY WFMin, NatLessThanWellFounded
  <2> QED
    BY <2>1
<1>2. x # 0 /\ x - 1 \in Nat
  OBVIOUS
<1>3. <<x - 1, x>> \in OpToRel(<, Nat)
  BY <1>2 DEF OpToRel
<1>4. x - 1 \in S
  BY <1>1, <1>2, <1>3
<1>5. (x - 1) + 1 \in S
  BY <1>4
<1> QED
  BY <1>2, <1>5

\* The recursive function of ParseFlags is there, and runs through the words.
LEMMA LoopRuns ==
    ASSUME NEW args \in Seq(Words), NEW start
    PROVE  \E parsed : /\ parsed[0] = start
                       /\ \A i \in 1 .. Len(args) : parsed[i] = ParseFlag(args, parsed[i - 1], i)
                       /\ ParseFlags(args, start) = parsed[Len(args)]
<1> DEFINE Turn(c, i) == ParseFlag(args, c, i)
<1> HIDE DEF Turn
<1> DEFINE IsRun(f, n) == f = [i \in 0 .. n |-> IF i = 0 THEN start ELSE Turn(f[i - 1], i)]
           S == {n \in Nat : \E f : IsRun(f, n)}
<1>1. 0 \in S
  <2> DEFINE g == [i \in 0 .. 0 |-> start]
  <2>1. IsRun(g, 0)
    OBVIOUS
  <2> QED
    BY <2>1
<1>2. \A n \in S : n + 1 \in S
  <2> TAKE n \in S
  <2> PICK f : IsRun(f, n)
    OBVIOUS
  <2> DEFINE g == [i \in 0 .. n + 1 |-> IF i = n + 1 THEN Turn(f[n], n + 1) ELSE f[i]]
  <2>1. \A i \in 0 .. n : g[i] = f[i]
    OBVIOUS
  <2>2. \A i \in 0 .. n + 1 : g[i] = IF i = 0 THEN start ELSE Turn(g[i - 1], i)
    <3> TAKE i \in 0 .. n + 1
    <3>1. CASE i = n + 1
      BY <3>1, <2>1
    <3>2. CASE i \in 0 .. n
      BY <3>2, <2>1
    <3> QED
      BY <3>1, <3>2
  <2>3. IsRun(g, n + 1) /\ n + 1 \in Nat
    BY <2>2
  <2> QED
    BY <2>3
<1>3. S = Nat
  <2> HIDE DEF S
  <2>1. S \in SUBSET Nat
    BY DEF S
  <2> QED
    BY <1>1, <1>2, <2>1, Induction
<1>4. \E f : IsRun(f, Len(args))
  <2>1. Len(args) \in S
    <3> HIDE DEF S
    <3>1. Len(args) \in Nat
      OBVIOUS
    <3> QED
      BY <3>1, <1>3
  <2> HIDE DEF IsRun
  <2> QED
    BY <2>1
<1>5. ParseFlags(args, start) =
        LET parsed == CHOOSE f : IsRun(f, Len(args)) IN parsed[Len(args)]
  BY DEF ParseFlags, Turn
<1> DEFINE parsed == CHOOSE f : IsRun(f, Len(args))
<1>6. IsRun(parsed, Len(args))
  BY <1>4
<1> HIDE DEF parsed
<1>7. /\ parsed[0] = start
      /\ \A i \in 1 .. Len(args) : parsed[i] = Turn(parsed[i - 1], i)
  BY <1>6
<1>8. \A i \in 1 .. Len(args) : parsed[i] = ParseFlag(args, parsed[i - 1], i)
  BY <1>7 DEF Turn
<1>9. ParseFlags(args, start) = parsed[Len(args)]
  BY <1>5 DEF parsed
<1> QED
  BY <1>7, <1>8, <1>9

CfgType ==
    [Port : Int, TLSEnabled : BOOLEAN, CertFile : Words, KeyFile : Words, RecentMax : Int,
     ListRecentPublic : BOOLEAN, DataDir : Words, Command : Words, ExplicitPort : BOOLEAN,
     TLSDExplicitlyDisabled : BOOLEAN]

\* What one turn makes of each field.
LEMMA FlagFields ==
    ASSUME NEW args \in Seq(Words), NEW i \in 1 .. Len(args), NEW c \in CfgType
    PROVE  LET d == ParseFlag(args, c, i)
               next == args[i + 1]
               Takes(flag) == args[i] = flag /\ i < Len(args)
               port == Takes("--port") /\ IsNumber(next, MinPort, MaxPort)
           IN  /\ d \in CfgType
               /\ d.Port = (IF port THEN Number[next] ELSE c.Port)
               /\ d.ExplicitPort <=> (c.ExplicitPort \/ port)
               /\ d.DataDir = (IF Takes("--data-dir") THEN next ELSE c.DataDir)
               /\ d.CertFile = (IF Takes("--cert") THEN next ELSE c.CertFile)
               /\ d.KeyFile = (IF Takes("--key") THEN next ELSE c.KeyFile)
               /\ d.TLSEnabled <=> \/ c.TLSEnabled \/ args[i] = "--tls"
                                 \/ Takes("--cert") \/ Takes("--key")
               /\ d.TLSDExplicitlyDisabled <=> \/ c.TLSDExplicitlyDisabled
                                             \/ args[i] = "--tls-disable"
<1> DEFINE next == args[i + 1]
           more == i < Len(args)
           d == ParseFlag(args, c, i)
<1>1. args[i] \in Words /\ (more => next \in Words)
  OBVIOUS
<1>2. CASE args[i] = "--port"
  <2>1. CASE more /\ IsNumber(next, MinPort, MaxPort)
    <3>1. d = [c EXCEPT !.Port = Number[next], !.ExplicitPort = TRUE]
      BY <1>2, <2>1 DEF ParseFlag
    <3>2. Number[next] \in Int
      BY <2>1, ConfigAssumption DEF IsNumber
    <3> QED
      BY <1>1, <1>2, <2>1, <3>1, <3>2 DEF CfgType
  <2>2. CASE ~(more /\ IsNumber(next, MinPort, MaxPort))
    <3>1. d = c
      BY <1>2, <2>2 DEF ParseFlag
    <3> QED
      BY <1>1, <1>2, <2>2, <3>1 DEF CfgType
  <2> QED
    BY <2>1, <2>2
<1>3. CASE args[i] = "--recent"
  <2>1. CASE more /\ next \in DOMAIN Number /\ Number[next] > 0
    <3>1. d = [c EXCEPT !.RecentMax = Number[next]]
      BY <1>3, <2>1 DEF ParseFlag
    <3>2. Number[next] \in Int
      BY <2>1, ConfigAssumption
    <3> QED
      BY <1>1, <1>3, <3>1, <3>2 DEF CfgType
  <2>2. CASE ~(more /\ next \in DOMAIN Number /\ Number[next] > 0)
    <3>1. d = c
      BY <1>3, <2>2 DEF ParseFlag
    <3> QED
      BY <1>1, <1>3, <3>1 DEF CfgType
  <2> QED
    BY <2>1, <2>2
<1>4. CASE args[i] \in {"--data-dir", "--cert", "--key"} /\ more
  <2>1. d = CASE args[i] = "--data-dir" -> [c EXCEPT !.DataDir = next]
              [] args[i] = "--cert" -> [c EXCEPT !.CertFile = next, !.TLSEnabled = TRUE]
              [] args[i] = "--key" -> [c EXCEPT !.KeyFile = next, !.TLSEnabled = TRUE]
    BY <1>4 DEF ParseFlag
  <2> QED
    BY <1>1, <1>4, <2>1 DEF CfgType
<1>5. CASE args[i] \in {"--data-dir", "--cert", "--key"} /\ ~more
  <2>1. d = c
    BY <1>5 DEF ParseFlag
  <2> QED
    BY <1>1, <1>5, <2>1 DEF CfgType
<1>6. CASE args[i] = "--tls"
  <2>1. d = [c EXCEPT !.TLSEnabled = TRUE]
    BY <1>6 DEF ParseFlag
  <2> QED
    BY <1>1, <1>6, <2>1 DEF CfgType
<1>8. CASE args[i] = "--tls-disable"
  <2>1. d = [c EXCEPT !.TLSDExplicitlyDisabled = TRUE]
    BY <1>8 DEF ParseFlag
  <2> QED
    BY <1>1, <1>8, <2>1 DEF CfgType
<1>9. CASE args[i] = "--list-recent-public"
  <2>1. d = [c EXCEPT !.ListRecentPublic = TRUE]
    BY <1>9 DEF ParseFlag
  <2> QED
    BY <1>1, <1>9, <2>1 DEF CfgType
<1>7. CASE args[i] \notin Flags
  <2>1. d = c
    BY <1>7 DEF ParseFlag, Flags
  <2> QED
    BY <1>1, <1>7, <2>1 DEF CfgType, Flags
<1> QED
  BY <1>2, <1>3, <1>4, <1>5, <1>6, <1>7, <1>8, <1>9 DEF Flags

-----------------------------------------------------------------------------
(* What the loop has read after n turns: the words up to n + 1, for a turn *)
(* reads the value of its flag too.                                        *)

\* The places the loop looks at: any word that is a flag, and what follows it.
Given(args, flag) == \E i \in 1 .. Len(args) : args[i] = flag
Values(args, flag) == {i \in 2 .. Len(args) : args[i - 1] = flag}

ValidPorts(args) == {i \in Values(args, "--port") : IsNumber(args[i], MinPort, MaxPort)}
Upto(at, n) == {i \in at : i <= n + 1}

ReadSoFar(args, n, c) ==
    LET ports == Upto(ValidPorts(args), n)
        Latest(flag) == LastOf(args, Upto(Values(args, flag), n), "")
    IN  /\ c \in CfgType
        /\ c.Port = IF ports = {} THEN DefaultPort ELSE Number[args[Max(ports)]]
        /\ c.ExplicitPort <=> ports # {}
        /\ c.DataDir = Latest("--data-dir")
        /\ c.CertFile = Latest("--cert")
        /\ c.KeyFile = Latest("--key")
        /\ c.TLSEnabled <=> \/ \E i \in 1 .. n : args[i] = "--tls"
                            \/ Upto(Values(args, "--cert") \cup Values(args, "--key"), n) # {}
        /\ c.TLSDExplicitlyDisabled <=> \E i \in 1 .. n : args[i] = "--tls-disable"

\* The next word is the last value if it is one at all.
LEMMA UptoNext ==
    ASSUME NEW at \in SUBSET Nat, NEW n \in Nat
    PROVE  /\ n + 2 \notin at => Upto(at, n + 1) = Upto(at, n)
           /\ n + 2 \in at => Upto(at, n + 1) # {} /\ Max(Upto(at, n + 1)) = n + 2
<1>1. ASSUME n + 2 \notin at PROVE Upto(at, n + 1) = Upto(at, n)
  <2>1. \A j \in at : j \in Nat /\ (j <= (n + 1) + 1 <=> j <= n + 1)
    BY <1>1
  <2> QED
    BY <2>1 DEF Upto
<1>2. ASSUME n + 2 \in at PROVE Upto(at, n + 1) # {} /\ Max(Upto(at, n + 1)) = n + 2
  <2>1. n + 2 \in Upto(at, n + 1) /\ \A j \in Upto(at, n + 1) : j \in Nat /\ n + 2 >= j
    BY <1>2 DEF Upto
  <2>2. \A x \in Upto(at, n + 1) : (\A j \in Upto(at, n + 1) : x >= j) => x = n + 2
    BY <2>1
  <2> QED
    BY <2>1, <2>2 DEF Max
<1> QED
  BY <1>1, <1>2

LEMMA ValuesAt ==
    ASSUME NEW args \in Seq(Words), NEW n \in 0 .. Len(args) - 1, NEW flag
    PROVE  /\ Values(args, flag) \in SUBSET Nat
           /\ n + 2 \in Values(args, flag) <=> args[n + 1] = flag /\ n + 1 < Len(args)
BY DEF Values

LEMMA ReadNext ==
    ASSUME NEW args \in Seq(Words), NEW n \in 0 .. Len(args) - 1, NEW c,
           ReadSoFar(args, n, c)
    PROVE  ReadSoFar(args, n + 1, ParseFlag(args, c, n + 1))
<1> DEFINE d == ParseFlag(args, c, n + 1)
           i == n + 1
           next == args[i + 1]
           Takes(flag) == args[i] = flag /\ i < Len(args)
           port == Takes("--port") /\ IsNumber(next, MinPort, MaxPort)
           ports == ValidPorts(args)
           tls == Values(args, "--cert") \cup Values(args, "--key")
<1>0. c \in CfgType
  BY Zenon DEF ReadSoFar
<1>1. c \in CfgType /\ i \in 1 .. Len(args) /\ i + 1 = n + 2
  BY <1>0
<1>2. /\ d \in CfgType
      /\ d.Port = (IF port THEN Number[next] ELSE c.Port)
      /\ d.ExplicitPort <=> (c.ExplicitPort \/ port)
      /\ d.DataDir = (IF Takes("--data-dir") THEN next ELSE c.DataDir)
      /\ d.CertFile = (IF Takes("--cert") THEN next ELSE c.CertFile)
      /\ d.KeyFile = (IF Takes("--key") THEN next ELSE c.KeyFile)
      /\ d.TLSEnabled <=> \/ c.TLSEnabled \/ args[i] = "--tls"
                        \/ Takes("--cert") \/ Takes("--key")
      /\ d.TLSDExplicitlyDisabled <=> \/ c.TLSDExplicitlyDisabled
                                    \/ args[i] = "--tls-disable"
  BY <1>1, FlagFields
<1> HIDE DEF d
<1>3. /\ ports \in SUBSET Nat
      /\ n + 2 \in ports <=> port
  BY <1>1, ValuesAt DEF ValidPorts
<1>4. /\ d.Port = (IF Upto(ports, n + 1) = {} THEN DefaultPort
                   ELSE Number[args[Max(Upto(ports, n + 1))]])
      /\ d.ExplicitPort <=> (Upto(ports, n + 1) # {})
  <2> HIDE DEF ports
  <2>0. /\ c.Port = (IF Upto(ports, n) = {} THEN DefaultPort ELSE Number[args[Max(Upto(ports, n))]])
        /\ c.ExplicitPort <=> (Upto(ports, n) # {})
    BY <1>1, Zenon DEF ReadSoFar, ports
  <2>00. n \in Nat
    OBVIOUS
  <2>1. CASE port
    <3>1. Upto(ports, n + 1) # {} /\ Max(Upto(ports, n + 1)) = n + 2
      BY <2>1, <2>00, <1>3, UptoNext
    <3> QED
      BY <3>1, <2>1, <1>2, <1>1
  <2>2. CASE ~port
    <3>1. Upto(ports, n + 1) = Upto(ports, n)
      BY <2>2, <2>00, <1>3, UptoNext
    <3> QED
      BY <3>1, <2>0, <2>2, <1>2
  <2> QED
    BY <2>1, <2>2
<1>5. ASSUME NEW flag, NEW old, NEW new,
             old = LastOf(args, Upto(Values(args, flag), n), ""),
             new = IF Takes(flag) THEN next ELSE old
      PROVE  new = LastOf(args, Upto(Values(args, flag), n + 1), "")
  <2>1. /\ Values(args, flag) \in SUBSET Nat
        /\ n + 2 \in Values(args, flag) <=> Takes(flag)
    BY <1>1, ValuesAt
  <2>2. CASE Takes(flag)
    <3>1. LET at == Upto(Values(args, flag), n + 1) IN at # {} /\ Max(at) = n + 2
      BY <2>1, <2>2, UptoNext
    <3> QED
      BY <3>1, <2>2, <1>5, <1>1 DEF LastOf
  <2>3. CASE ~Takes(flag)
    <3>1. Upto(Values(args, flag), n + 1) = Upto(Values(args, flag), n)
      BY <2>1, <2>3, UptoNext
    <3> QED
      BY <3>1, <2>3, <1>5 DEF LastOf
  <2> QED
    BY <2>2, <2>3
<1>6. /\ d.DataDir = LastOf(args, Upto(Values(args, "--data-dir"), n + 1), "")
      /\ d.CertFile = LastOf(args, Upto(Values(args, "--cert"), n + 1), "")
      /\ d.KeyFile = LastOf(args, Upto(Values(args, "--key"), n + 1), "")
  <2>1. /\ c.DataDir = LastOf(args, Upto(Values(args, "--data-dir"), n), "")
        /\ c.CertFile = LastOf(args, Upto(Values(args, "--cert"), n), "")
        /\ c.KeyFile = LastOf(args, Upto(Values(args, "--key"), n), "")
    BY DEF ReadSoFar
  <2> QED
    BY <2>1, <1>2, <1>5
<1>7. Upto(tls, n + 1) # {} <=> Upto(tls, n) # {} \/ Takes("--cert") \/ Takes("--key")
  <2>1. /\ tls \in SUBSET Nat
        /\ n + 2 \in tls <=> Takes("--cert") \/ Takes("--key")
    BY <1>1, ValuesAt
  <2> HIDE DEF tls
  <2>2. Upto(tls, n) \subseteq Upto(tls, n + 1)
    <3>1. \A j \in tls : j \in Nat /\ (j <= n + 1 => j <= (n + 1) + 1)
      BY <2>1
    <3> QED
      BY <3>1 DEF Upto
  <2>3. CASE n + 2 \in tls
    BY <2>1, <2>3, UptoNext
  <2>4. CASE n + 2 \notin tls
    BY <2>1, <2>4, UptoNext
  <2> QED
    BY <2>3, <2>4
<1>8. \A w : (\E j \in 1 .. n + 1 : args[j] = w) <=> (\E j \in 1 .. n : args[j] = w) \/ args[i] = w
  OBVIOUS
<1>9. d.TLSEnabled <=> ((\E j \in 1 .. n + 1 : args[j] = "--tls") \/ Upto(tls, n + 1) # {})
  <2>1. c.TLSEnabled <=> ((\E j \in 1 .. n : args[j] = "--tls") \/ Upto(tls, n) # {})
    BY DEF ReadSoFar
  <2> HIDE DEF tls
  <2> QED
    BY <2>1, <1>2, <1>7, <1>8
<1>10. d.TLSDExplicitlyDisabled <=> \E j \in 1 .. n + 1 : args[j] = "--tls-disable"
  <2>1. c.TLSDExplicitlyDisabled <=> \E j \in 1 .. n : args[j] = "--tls-disable"
    BY DEF ReadSoFar
  <2> QED
    BY <2>1, <1>2, <1>8
<1>11. ReadSoFar(args, n + 1, d)
  BY <1>2, <1>4, <1>6, <1>9, <1>10 DEF ReadSoFar
<1> QED
  BY <1>11 DEF d

StartOf(command) == [Defaults EXCEPT !.Command = command]

\* All the words have been read: the loop is its meaning.
LEMMA AllRead ==
    ASSUME NEW args \in Seq(Words), NEW command \in Words
    PROVE  ReadSoFar(args, Len(args), ParseFlags(args, StartOf(command)))
<1>1. PICK parsed :
         /\ parsed[0] = StartOf(command)
         /\ \A i \in 1 .. Len(args) : parsed[i] = ParseFlag(args, parsed[i - 1], i)
         /\ ParseFlags(args, StartOf(command)) = parsed[Len(args)]
  BY LoopRuns
<1> DEFINE S == {n \in Nat : n <= Len(args) => ReadSoFar(args, n, parsed[n])}
<1>2. 0 \in S
  <2>1. ASSUME NEW at \in SUBSET Nat, \A j \in at : j >= 2 PROVE Upto(at, 0) = {}
    <3>1. \A j \in at : ~(j <= 0 + 1)
      BY <2>1
    <3> QED
      BY <3>1 DEF Upto
  <2>2. \A flag : Values(args, flag) \in SUBSET Nat /\ \A j \in Values(args, flag) : j >= 2
    BY DEF Values
  <2>3. /\ \A flag : Upto(Values(args, flag), 0) = {}
        /\ Upto(ValidPorts(args), 0) = {}
        /\ Upto(Values(args, "--cert") \cup Values(args, "--key"), 0) = {}
    BY <2>1, <2>2 DEF ValidPorts
  <2>4. Defaults \in CfgType
    <3>1. "" \in Words
      BY DEF Words
    <3>2. DefaultPort \in Int /\ DefaultRecent \in Int
      BY DEF DefaultPort, DefaultRecent
    <3> QED
      BY <3>1, <3>2 DEF Defaults, CfgType
  <2>40. StartOf(command) \in CfgType
    BY <2>4 DEF StartOf, CfgType
  <2>5. ~\E i \in 1 .. 0 : TRUE
    OBVIOUS
  <2>6. ReadSoFar(args, 0, StartOf(command))
    BY <2>3, <2>40, <2>5 DEF ReadSoFar, StartOf, Defaults, LastOf
  <2> QED
    BY <1>1, <2>6
<1>3. \A n \in S : n + 1 \in S
  <2> TAKE n \in S
  <2>1. n \in Nat /\ n + 1 \in Nat
    OBVIOUS
  <2>2. ASSUME n + 1 <= Len(args) PROVE ReadSoFar(args, n + 1, parsed[n + 1])
    <3>1. n \in 0 .. Len(args) - 1 /\ n + 1 \in 1 .. Len(args) /\ (n + 1) - 1 = n
      BY <2>1, <2>2
    <3>2. ReadSoFar(args, n, parsed[n])
      BY <3>1
    <3>3. parsed[n + 1] = ParseFlag(args, parsed[n], n + 1)
      BY <1>1, <3>1
    <3> QED
      BY <3>1, <3>2, <3>3, ReadNext
  <2> QED
    BY <2>1, <2>2
<1>4. Len(args) \in S
  <2> HIDE DEF S
  <2>1. S \in SUBSET Nat /\ Len(args) \in Nat
    BY DEF S
  <2>2. S = Nat
    BY <1>2, <1>3, <2>1, Induction
  <2> QED
    BY <2>1, <2>2
<1>5. ReadSoFar(args, Len(args), parsed[Len(args)])
  BY <1>4
<1> QED
  BY <1>1, <1>5

\* The configuration after the loop, with no loop.
LEMMA ParsedFlags ==
    ASSUME NEW args \in Seq(Words), NEW command \in Words
    PROVE  LET c == ParseFlags(args, StartOf(command))
               ports == ValidPorts(args)
           IN  /\ c \in CfgType
               /\ c.Port = IF ports = {} THEN DefaultPort ELSE Number[args[Max(ports)]]
               /\ c.ExplicitPort <=> ports # {}
               /\ c.DataDir = LastOf(args, Values(args, "--data-dir"), "")
               /\ c.CertFile = LastOf(args, Values(args, "--cert"), "")
               /\ c.KeyFile = LastOf(args, Values(args, "--key"), "")
               /\ c.TLSEnabled <=> \/ Given(args, "--tls")
                                   \/ Values(args, "--cert") \cup Values(args, "--key") # {}
               /\ c.TLSDExplicitlyDisabled <=> Given(args, "--tls-disable")
<1>1. ASSUME NEW at, \A j \in at : j \in 2 .. Len(args) PROVE Upto(at, Len(args)) = at
  <2>1. \A j \in at : j <= Len(args) + 1
    BY <1>1
  <2> QED
    BY <2>1 DEF Upto
<1>2. \A flag : \A j \in Values(args, flag) : j \in 2 .. Len(args)
  BY DEF Values
<1>3. /\ \A flag : Upto(Values(args, flag), Len(args)) = Values(args, flag)
      /\ Upto(ValidPorts(args), Len(args)) = ValidPorts(args)
      /\ Upto(Values(args, "--cert") \cup Values(args, "--key"), Len(args))
           = Values(args, "--cert") \cup Values(args, "--key")
  BY <1>1, <1>2 DEF ValidPorts
<1> QED
  BY <1>3, AllRead, Zenon DEF ReadSoFar, Given

-----------------------------------------------------------------------------
(* What install makes of its arguments *)

\* The configuration that install works with.
LEMMA ConfigFields ==
    ASSUME NEW args \in Seq(Words)
    PROVE  LET c == ConfigOf(args)
               ports == ValidPorts(args)
           IN  /\ c \in CfgType
               /\ c.Port = IF ports = {} THEN PortHTTPS ELSE Number[args[Max(ports)]]
               /\ c.DataDir = LastOf(args, Values(args, "--data-dir"), "")
               /\ c.CertFile = LastOf(args, Values(args, "--cert"), "")
               /\ c.KeyFile = LastOf(args, Values(args, "--key"), "")
               /\ c.TLSEnabled <=>
                    \/ Given(args, "--tls")
                    \/ Values(args, "--cert") \cup Values(args, "--key") # {}
                    \/ /\ c.Port \in {PortHTTPS, PortAltHTTPS}
                       /\ ~Given(args, "--tls-disable")
<1> DEFINE argv == <<"install">> \o args
           r == ParseFlags(args, StartOf("install"))
           p == ParseArgs(argv, <<>>)
           ports == ValidPorts(args)
<1>1. argv # <<>> /\ argv[1] = "install" /\ Tail(argv) = args
  OBVIOUS
<1>2. p = [r EXCEPT !.TLSEnabled = @ \/ AutoTLS(r, r.Port), !.Port = r.Port]
  BY <1>1 DEF ParseArgs, StartOf
<1>3. /\ r \in CfgType
      /\ r.Port = IF ports = {} THEN DefaultPort ELSE Number[args[Max(ports)]]
      /\ r.ExplicitPort <=> ports # {}
      /\ r.DataDir = LastOf(args, Values(args, "--data-dir"), "")
      /\ r.CertFile = LastOf(args, Values(args, "--cert"), "")
      /\ r.KeyFile = LastOf(args, Values(args, "--key"), "")
      /\ r.TLSEnabled <=> \/ Given(args, "--tls")
                          \/ Values(args, "--cert") \cup Values(args, "--key") # {}
      /\ r.TLSDExplicitlyDisabled <=> Given(args, "--tls-disable")
  <2>1. "install" \in Words
    BY DEF Words
  <2> QED
    BY <2>1, ParsedFlags, Zenon
<1> HIDE DEF r, ports, argv
<1>4. /\ p \in CfgType
      /\ p.Port = r.Port /\ p.DataDir = r.DataDir /\ p.CertFile = r.CertFile
      /\ p.KeyFile = r.KeyFile /\ (p.ExplicitPort <=> r.ExplicitPort)
      /\ p.TLSDExplicitlyDisabled <=> r.TLSDExplicitlyDisabled
      /\ p.TLSEnabled <=> r.TLSEnabled \/ AutoTLS(r, r.Port)
  BY <1>2, <1>3 DEF CfgType, AutoTLS
<1> HIDE DEF p
<1> DEFINE port == IF p.ExplicitPort THEN p.Port ELSE PortHTTPS
           c == InstallConfig(p)
<1>5. c = [p EXCEPT !.Port = port, !.TLSEnabled = @ \/ AutoTLS(p, port)]
  BY DEF InstallConfig
<1>6. /\ c \in CfgType
      /\ c.Port = port /\ c.DataDir = p.DataDir /\ c.CertFile = p.CertFile
      /\ c.KeyFile = p.KeyFile
      /\ c.TLSEnabled <=> p.TLSEnabled \/ AutoTLS(p, port)
  <2>1. AutoTLS(p, port) \in BOOLEAN /\ port \in Int
    BY <1>4 DEF AutoTLS, CfgType, PortHTTPS
  <2> HIDE DEF c, port
  <2> QED
    BY <1>4, <1>5, <2>1 DEF CfgType
<1> HIDE DEF c
<1>7. c.Port = IF ports = {} THEN PortHTTPS ELSE Number[args[Max(ports)]]
  BY <1>3, <1>4, <1>6
<1>8. /\ AutoTLS(r, r.Port) => r.Port = port
      /\ AutoTLS(p, port) <=> /\ c.Port \in {PortHTTPS, PortAltHTTPS}
                              /\ ~Given(args, "--tls-disable")
  <2>1. AutoTLS(r, r.Port) => r.Port = port
    <3>1. ASSUME ports = {} PROVE r.Port \notin {PortHTTPS, PortAltHTTPS}
      <4>1. r.Port = DefaultPort
        BY <1>3, <3>1
      <4> QED
        BY <4>1 DEF DefaultPort, PortHTTPS, PortAltHTTPS
    <3> QED
      BY <3>1, <1>3, <1>4 DEF AutoTLS
  <2>2. p.TLSDExplicitlyDisabled <=> Given(args, "--tls-disable")
    BY <1>3, <1>4
  <2> QED
    BY <2>1, <2>2, <1>6 DEF AutoTLS
<1>9. AutoTLS(r, r.Port) => AutoTLS(p, port)
  BY <1>4, <1>8 DEF AutoTLS
<1>10. c = ConfigOf(args)
  BY DEF c, p, argv, ConfigOf
<1> QED
  BY <1>3, <1>4, <1>6, <1>7, <1>8, <1>9, <1>10 DEF ports

\* Where no value is the name of a flag, the loop looks at the flags and values
\* that are meant.
LEMMA PlainPlaces ==
    ASSUME NEW args \in Seq(Words), PlainValues(args)
    PROVE  /\ \A flag \in ValueFlags : ValuesOf(args, flag) = Values(args, flag)
           /\ \A flag \in Flags : HasFlag(args, flag) <=> Given(args, flag)
<1> DEFINE Fits(at) == \A i \in 2 .. Len(args) :
                           i \in at <=> args[i - 1] \in ValueFlags /\ i - 1 \notin at
           vp == ValuePlaces(args)
           all == {i \in 2 .. Len(args) : args[i - 1] \in ValueFlags}
<1>1. \A i \in 2 .. Len(args) : i \in all => args[i] \notin ValueFlags /\ args[i] \notin Flags
  BY DEF PlainValues, ValueFlags, Flags
<1>2. Fits(all)
  <2>1. ASSUME NEW i \in 2 .. Len(args), args[i - 1] \in ValueFlags PROVE i - 1 \notin all
    <3>1. CASE i - 1 \in 2 .. Len(args)
      BY <3>1, <2>1, <1>1
    <3>2. CASE i - 1 \notin 2 .. Len(args)
      BY <3>2
    <3> QED
      BY <3>1, <3>2
  <2> QED
    BY <2>1
<1>3. vp \in SUBSET (2 .. Len(args)) /\ Fits(vp)
  BY <1>2 DEF ValuePlaces
<1> HIDE DEF vp
<1>4. vp \subseteq all
  BY <1>3
<1>5. all \subseteq vp
  <2> SUFFICES ASSUME NEW i \in all PROVE i \in vp
    OBVIOUS
  <2>1. i - 1 \notin vp
    BY <1>2, <1>4
  <2> QED
    BY <2>1, <1>3
<1>6. vp = all
  BY <1>4, <1>5
<1>7. ASSUME NEW flag \in ValueFlags PROVE ValuesOf(args, flag) = Values(args, flag)
  BY <1>6 DEF vp, ValuesOf, Values
<1>8. ASSUME NEW flag \in Flags PROVE HasFlag(args, flag) <=> Given(args, flag)
  <2>1. \A i \in 1 .. Len(args) : args[i] = flag => i \notin vp
    BY <1>1, <1>6
  <2> QED
    BY <2>1 DEF vp, HasFlag, Given
<1> QED
  BY <1>7, <1>8

\* The documented meaning of plain command lines is what install works with.
LEMMA ConfigDocumented ==
    ASSUME NEW args \in Seq(Words), PlainValues(args)
    PROVE  LET c == ConfigOf(args)
               doc == Documented(args)
           IN  c.Port = doc.port /\ c.DataDir = doc.data /\ c.TLSEnabled = doc.tls
<1>0. /\ \A flag \in {"--port", "--data-dir", "--cert", "--key"} :
            ValuesOf(args, flag) = Values(args, flag)
      /\ \A flag \in {"--tls", "--tls-disable"} : HasFlag(args, flag) <=> Given(args, flag)
  BY PlainPlaces DEF ValueFlags, Flags
<1>1. /\ ConfigOf(args).TLSEnabled \in BOOLEAN /\ Documented(args).tls \in BOOLEAN
      /\ Documented(args).port = ConfigOf(args).Port
      /\ Documented(args).data = ConfigOf(args).DataDir
  BY ConfigFields, <1>0 DEF Documented, ValidPorts, CfgType
<1>2. ConfigOf(args).TLSEnabled <=> Documented(args).tls
  BY ConfigFields, <1>0, <1>1 DEF Documented
<1> QED
  BY <1>1, <1>2

-----------------------------------------------------------------------------
(* The last of some places; the words of a line, put together *)

LEMMA MaxIn ==
    ASSUME NEW n \in Nat, NEW at \in SUBSET (0 .. n), at # {}
    PROVE  Max(at) \in at /\ \A j \in at : j <= Max(at)
<1> DEFINE HasMax(T) == \E x \in T : \A j \in T : x >= j
           S == {m \in Nat : \A T \in SUBSET (0 .. m) : T # {} => HasMax(T)}
<1>1. 0 \in S
  <2> SUFFICES ASSUME NEW T \in SUBSET (0 .. 0), T # {} PROVE HasMax(T)
    OBVIOUS
  <2>0. \A j \in T : j \in 0 .. 0
    OBVIOUS
  <2>1. \A j \in T : j = 0
    BY <2>0
  <2>2. 0 \in T
    BY <2>1
  <2>3. \A j \in T : 0 >= j
    BY <2>1
  <2> QED
    BY <2>2, <2>3
<1>2. \A m \in S : m + 1 \in S
  <2> TAKE m \in S
  <2> SUFFICES ASSUME NEW T \in SUBSET (0 .. m + 1), T # {} PROVE HasMax(T)
    OBVIOUS
  <2>1. CASE m + 1 \in T
    BY <2>1
  <2>2. CASE m + 1 \notin T
    <3>1. T \in SUBSET (0 .. m)
      BY <2>2
    <3> QED
      BY <3>1
  <2> QED
    BY <2>1, <2>2
<1>3. S = Nat
  <2> HIDE DEF S
  <2>1. S \in SUBSET Nat
    BY DEF S
  <2> QED
    BY <1>1, <1>2, <2>1, Induction
<1>4. PICK x \in at : \A j \in at : x >= j
  BY <1>3
<1>5. Max(at) \in at /\ \A j \in at : Max(at) >= j
  BY <1>4 DEF Max
<1> QED
  BY <1>5

\* The recursive function of FlattenSeq is there, and appends its sequences.
LEMMA FlattenRuns ==
    ASSUME NEW W, NEW seqs \in Seq(Seq(W))
    PROVE  \E run : /\ run[0] = <<>>
                    /\ \A i \in 1 .. Len(seqs) : run[i] = run[i - 1] \o seqs[i]
                    /\ \A i \in 0 .. Len(seqs) : run[i] \in Seq(W)
                    /\ FlattenSeq(seqs) = run[Len(seqs)]
<1> DEFINE Joined(s, i) == s \o seqs[i]
<1> HIDE DEF Joined
<1> DEFINE IsRun(f, n) ==
             f = [i \in 1 .. n |-> IF i = 1 THEN seqs[i] ELSE Joined(f[i - 1], i)]
           S == {n \in Nat : \E f : IsRun(f, n)}
<1>1. 0 \in S
  <2> DEFINE g == [i \in 1 .. 0 |-> <<>>]
  <2>1. IsRun(g, 0)
    OBVIOUS
  <2> QED
    BY <2>1
<1>2. \A n \in S : n + 1 \in S
  <2> TAKE n \in S
  <2> PICK f : IsRun(f, n)
    OBVIOUS
  <2> DEFINE h(i) == IF i = 1 THEN seqs[i] ELSE Joined(f[i - 1], i)
             g == [i \in 1 .. n + 1 |-> IF i = n + 1 THEN h(i) ELSE f[i]]
  <2>1. \A i \in 1 .. n : g[i] = f[i]
    OBVIOUS
  <2>2. \A i \in 1 .. n + 1 : g[i] = IF i = 1 THEN seqs[i] ELSE Joined(g[i - 1], i)
    <3> TAKE i \in 1 .. n + 1
    <3>1. CASE i = n + 1
      BY <3>1, <2>1
    <3>2. CASE i \in 1 .. n
      BY <3>2, <2>1
    <3> QED
      BY <3>1, <3>2
  <2>3. IsRun(g, n + 1) /\ n + 1 \in Nat
    BY <2>2
  <2> QED
    BY <2>3
<1>3. S = Nat
  <2> HIDE DEF S
  <2>1. S \in SUBSET Nat
    BY DEF S
  <2> QED
    BY <1>1, <1>2, <2>1, Induction
<1>4. \E f : IsRun(f, Len(seqs))
  <2>1. Len(seqs) \in S
    <3> HIDE DEF S
    <3>1. Len(seqs) \in Nat
      OBVIOUS
    <3> QED
      BY <3>1, <1>3
  <2> HIDE DEF IsRun
  <2> QED
    BY <2>1
<1> DEFINE flatten == CHOOSE f : IsRun(f, Len(seqs))
           run == [i \in 0 .. Len(seqs) |-> IF i = 0 THEN <<>> ELSE flatten[i]]
<1>5. IsRun(flatten, Len(seqs))
  BY <1>4
<1>6. FlattenSeq(seqs) = IF Len(seqs) = 0 THEN seqs ELSE flatten[Len(seqs)]
  BY Zenon DEF FlattenSeq, Joined
<1> HIDE DEF flatten
<1>7. \A i \in 1 .. Len(seqs) : seqs[i] \in Seq(W)
  OBVIOUS
<1>8. run[0] = <<>> /\ \A i \in 1 .. Len(seqs) : run[i] = run[i - 1] \o seqs[i]
  <2>1. run[0] = <<>>
    OBVIOUS
  <2>2. ASSUME NEW i \in 1 .. Len(seqs) PROVE run[i] = run[i - 1] \o seqs[i]
    <3>1. CASE i = 1
      <4>1. 1 \in 1 .. Len(seqs)
        BY <3>1
      <4>2. flatten[1] = seqs[1]
        BY <4>1, <1>5
      <4>3. run[1] = seqs[1] /\ run[1 - 1] = <<>>
        BY <4>1, <4>2
      <4>4. seqs[1] \in Seq(W)
        BY <4>1, <1>7
      <4>5. seqs[1] = <<>> \o seqs[1]
        BY <4>4
      <4> QED
        BY <4>3, <4>5, <3>1
    <3>2. CASE i # 1
      <4>1. i - 1 \in 1 .. Len(seqs) /\ i - 1 # 0 /\ i # 0
        BY <3>2
      <4>2. run[i] = flatten[i] /\ run[i - 1] = flatten[i - 1]
        BY <4>1
      <4>3. flatten[i] = Joined(flatten[i - 1], i)
        BY <1>5, <3>2
      <4> QED
        BY <4>2, <4>3 DEF Joined
    <3> QED
      BY <3>1, <3>2
  <2> QED
    BY <2>1, <2>2
<1>9. FlattenSeq(seqs) = run[Len(seqs)]
  <2>1. CASE Len(seqs) = 0
    BY <2>1, <1>6
  <2>2. CASE Len(seqs) # 0
    BY <2>2, <1>6
  <2> QED
    BY <2>1, <2>2
<1> HIDE DEF run
<1>10. \A i \in 0 .. Len(seqs) : run[i] \in Seq(W)
  <2> DEFINE R == {n \in Nat : n <= Len(seqs) => run[n] \in Seq(W)}
  <2>1. 0 \in R
    <3>1. <<>> \in Seq(W)
      OBVIOUS
    <3> QED
      BY <1>8, <3>1
  <2>2. \A n \in R : n + 1 \in R
    <3> TAKE n \in R
    <3>1. ASSUME n + 1 <= Len(seqs) PROVE run[n + 1] \in Seq(W)
      <4>1. n + 1 \in 1 .. Len(seqs) /\ run[n] \in Seq(W)
        BY <3>1
      <4>2. run[n + 1] = run[(n + 1) - 1] \o seqs[n + 1] /\ seqs[n + 1] \in Seq(W)
        BY <4>1, <1>7, <1>8
      <4>3. (n + 1) - 1 = n
        OBVIOUS
      <4> QED
        BY <4>1, <4>2, <4>3
    <3> QED
      BY <3>1
  <2>3. R = Nat
    <3> HIDE DEF R
    <3>1. R \in SUBSET Nat
      BY DEF R
    <3> QED
      BY <2>1, <2>2, <3>1, Induction
  <2> QED
    BY <2>3
<1> QED
  BY <1>8, <1>9, <1>10

Piece(w) == IF w = "" THEN <<>> ELSE IF w \in DOMAIN Parts THEN Parts[w] ELSE <<w>>

LEMMA WordsKnown ==
    /\ Flags \subseteq Words /\ "" \in Words /\ CertPath \in Words /\ KeyPath \in Words
    /\ Seq(STRING) \subseteq Seq(Words)
    /\ \A flag \in Flags : Piece(flag) = <<flag>>
<1>1. Flags \subseteq Words /\ "" \in Words /\ CertPath \in Words /\ KeyPath \in Words
  BY DEF Words
<1>2. Seq(STRING) \subseteq Seq(Words)
  <2>1. STRING \subseteq Words
    BY DEF Words
  <2>2. ASSUME NEW s \in Seq(STRING) PROVE s \in Seq(Words)
    <3>1. s \in [1 .. Len(s) -> STRING] /\ Len(s) \in Nat
      OBVIOUS
    <3>2. s \in [1 .. Len(s) -> Words]
      BY <2>1, <3>1
    <3> QED
      BY <3>1, <3>2
  <2> QED
    BY <2>2
<1>3. \A flag \in Flags : Piece(flag) = <<flag>>
  BY ConfigAssumption DEF Piece, Flags
<1> QED
  BY <1>1, <1>2, <1>3

LEMMA PieceTyped == ASSUME NEW w \in Words PROVE Piece(w) \in Seq(Words)
<1>1. w \in DOMAIN Parts => Parts[w] \in Seq(Words)
  <2>1. w \in DOMAIN Parts => Parts[w] \in Seq(STRING)
    BY ConfigAssumption
  <2> QED
    BY <2>1, WordsKnown
<1>2. <<>> \in Seq(Words) /\ <<w>> \in Seq(Words)
  OBVIOUS
<1> QED
  BY <1>1, <1>2 DEF Piece

LEMMA FieldsRuns ==
    ASSUME NEW W, NEW words \in Seq(Words), \A i \in 1 .. Len(words) : Piece(words[i]) \in Seq(W)
    PROVE  /\ Fields(words) \in Seq(W)
           /\ \E run : /\ run[0] = <<>>
                       /\ \A i \in 1 .. Len(words) : run[i] = run[i - 1] \o Piece(words[i])
                       /\ Fields(words) = run[Len(words)]
<1> DEFINE seqs == [i \in DOMAIN words |-> Piece(words[i])]
<1>1. seqs \in Seq(Seq(W)) /\ Len(seqs) = Len(words)
  <2>1. seqs \in [1 .. Len(words) -> Seq(W)] /\ Len(words) \in Nat
    OBVIOUS
  <2> HIDE DEF seqs
  <2> QED
    BY <2>1
<1>2. Fields(words) = FlattenSeq(seqs)
  BY Zenon DEF Fields, Piece
<1>3. \A i \in 1 .. Len(words) : seqs[i] = Piece(words[i])
  OBVIOUS
<1> HIDE DEF seqs
<1>4. PICK run : /\ run[0] = <<>>
                 /\ \A i \in 1 .. Len(seqs) : run[i] = run[i - 1] \o seqs[i]
                 /\ \A i \in 0 .. Len(seqs) : run[i] \in Seq(W)
                 /\ FlattenSeq(seqs) = run[Len(seqs)]
  BY <1>1, FlattenRuns
<1>5. Fields(words) \in Seq(W)
  <2>1. Len(words) \in 0 .. Len(words)
    OBVIOUS
  <2> QED
    BY <1>1, <1>2, <1>4, <2>1
<1>6. \A i \in 1 .. Len(words) : run[i] = run[i - 1] \o Piece(words[i])
  BY <1>1, <1>3, <1>4
<1> QED
  BY <1>1, <1>2, <1>4, <1>5, <1>6

LEMMA FieldsEmpty == Fields(<<>>) = <<>>
<1>1. <<>> \in Seq(Words) /\ Len(<<>>) = 0
  OBVIOUS
<1>2. \A i \in 1 .. Len(<<>>) : Piece(<<>>[i]) \in Seq(Words)
  BY <1>1
<1> QED
  BY <1>1, <1>2, FieldsRuns

\* One word more.
LEMMA FieldsAppend ==
    ASSUME NEW words \in Seq(Words), NEW w \in Words
    PROVE  Fields(Append(words, w)) = Fields(words) \o Piece(w)
<1> DEFINE more == Append(words, w)
           n == Len(words)
<1>1. more \in Seq(Words) /\ Len(more) = n + 1 /\ n \in Nat
  OBVIOUS
<1>2. more[n + 1] = w /\ \A i \in 1 .. n : more[i] = words[i]
  OBVIOUS
<1> HIDE DEF more
<1>3. \A i \in 1 .. n : Piece(words[i]) \in Seq(Words)
  <2> TAKE i \in 1 .. n
  <2>1. words[i] \in Words
    OBVIOUS
  <2> QED
    BY <2>1, PieceTyped
<1>4. \A i \in 1 .. n + 1 : Piece(more[i]) \in Seq(Words)
  <2> TAKE i \in 1 .. n + 1
  <2>1. more[i] \in Words
    BY <1>1
  <2> QED
    BY <2>1, PieceTyped
<1>5. PICK f : /\ f[0] = <<>>
               /\ \A i \in 1 .. n : f[i] = f[i - 1] \o Piece(words[i])
               /\ Fields(words) = f[n]
  BY <1>3, FieldsRuns
<1>6. PICK g : /\ g[0] = <<>>
               /\ \A i \in 1 .. n + 1 : g[i] = g[i - 1] \o Piece(more[i])
               /\ Fields(more) = g[n + 1]
  BY <1>1, <1>4, FieldsRuns
<1> DEFINE S == {m \in Nat : m <= n => g[m] = f[m]}
<1>7. 0 \in S
  BY <1>5, <1>6
<1>8. \A m \in S : m + 1 \in S
  <2> TAKE m \in S
  <2>1. ASSUME m + 1 <= n PROVE g[m + 1] = f[m + 1]
    <3>1. m + 1 \in 1 .. n /\ m + 1 \in 1 .. n + 1 /\ (m + 1) - 1 = m /\ g[m] = f[m]
      BY <2>1, <1>1
    <3>2. g[m + 1] = g[m] \o Piece(more[m + 1])
      BY <3>1, <1>6
    <3>3. f[m + 1] = f[m] \o Piece(words[m + 1])
      BY <3>1, <1>5
    <3> QED
      BY <3>1, <3>2, <3>3, <1>2
  <2> QED
    BY <2>1
<1>9. S = Nat
  <2> HIDE DEF S
  <2>1. S \in SUBSET Nat
    BY DEF S
  <2> QED
    BY <1>7, <1>8, <2>1, Induction
<1>10. g[n] = f[n]
  <2>1. n \in S
    BY <1>9, <1>1
  <2> QED
    BY <2>1
<1>11. g[n + 1] = g[n] \o Piece(w)
  <2>1. n + 1 \in 1 .. n + 1 /\ (n + 1) - 1 = n
    BY <1>1
  <2> QED
    BY <2>1, <1>2, <1>6
<1> QED
  BY <1>5, <1>6, <1>10, <1>11 DEF more

\* A flag and its value more.
LEMMA FieldsPair ==
    ASSUME NEW words \in Seq(Words), NEW flag \in Flags, NEW w \in Words
    PROVE  /\ words \o <<flag, w>> \in Seq(Words)
           /\ Fields(words \o <<flag, w>>) = (Fields(words) \o <<flag>>) \o Piece(w)
<1>1. flag \in Words /\ Piece(flag) = <<flag>>
  BY WordsKnown
<1>2. words \o <<flag, w>> = Append(Append(words, flag), w)
  BY <1>1
<1>3. Append(words, flag) \in Seq(Words) /\ Append(Append(words, flag), w) \in Seq(Words)
  BY <1>1
<1> QED
  BY <1>1, <1>2, <1>3, FieldsAppend

-----------------------------------------------------------------------------
(* The line of the unit file, word by word *)

\* A line that starts a server: its port is P, no later word reads as a port,
\* and no word is taken for a flag that is barred.
Line(e, P, barred) ==
    /\ e \in Seq(Words) /\ Len(e) >= 2 /\ e[1] = "--port" /\ e[2] = P
    /\ \A j \in 3 .. Len(e) : e[j - 1] = "--port" => e[j] \in Flags
    /\ \A j \in 2 .. Len(e) : e[j - 1] \notin barred

Extends(g, e) == Len(g) >= Len(e) /\ \A i \in 1 .. Len(e) : g[i] = e[i]

LEMMA AddWord ==
    ASSUME NEW P \in Words, NEW barred \in SUBSET {"--data-dir"},
           NEW e, Line(e, P, barred), NEW w \in Words,
           e[Len(e)] = "--port" => w \in Flags,
           e[Len(e)] \notin barred
    PROVE  LET g == e \o <<w>>
           IN  Line(g, P, barred) /\ Extends(g, e) /\ Len(g) = Len(e) + 1 /\ g[Len(g)] = w
<1> DEFINE g == e \o <<w>>
           n == Len(e)
<1>1. e \in Seq(Words) /\ n \in Nat /\ n >= 2
  BY DEF Line
<1>2. /\ g \in Seq(Words) /\ Len(g) = n + 1 /\ g[n + 1] = w
      /\ \A i \in 1 .. n : g[i] = e[i]
  BY <1>1
<1> HIDE DEF g
<1>3. ASSUME NEW j \in 3 .. n + 1, g[j - 1] = "--port" PROVE g[j] \in Flags
  <2>1. CASE j = n + 1
    <3>1. j - 1 = n /\ n \in 1 .. n
      BY <2>1, <1>1
    <3> QED
      BY <2>1, <3>1, <1>2, <1>3
  <2>2. CASE j # n + 1
    <3>1. j \in 3 .. n /\ j \in 1 .. n /\ j - 1 \in 1 .. n
      BY <2>2, <1>1
    <3> QED
      BY <3>1, <1>2, <1>3 DEF Line
  <2> QED
    BY <2>1, <2>2
<1>4. ASSUME NEW j \in 2 .. n + 1 PROVE g[j - 1] \notin barred
  <2>1. CASE j = n + 1
    <3>1. j - 1 = n /\ n \in 1 .. n
      BY <2>1, <1>1
    <3> QED
      BY <2>1, <3>1, <1>2, <1>4
  <2>2. CASE j # n + 1
    <3>1. j \in 2 .. n /\ j - 1 \in 1 .. n
      BY <2>2, <1>1
    <3> QED
      BY <3>1, <1>2, <1>4 DEF Line
  <2> QED
    BY <2>1, <2>2
<1>5. g[1] = "--port" /\ g[2] = P
  BY <1>1, <1>2 DEF Line
<1>6. Line(g, P, barred)
  BY <1>1, <1>2, <1>3, <1>4, <1>5 DEF Line
<1>7. Extends(g, e)
  BY <1>1, <1>2 DEF Extends
<1> QED
  BY <1>2, <1>6, <1>7 DEF g

LEMMA AddFlag ==
    ASSUME NEW P \in Words, NEW barred \in SUBSET {"--data-dir"},
           NEW e, Line(e, P, barred), NEW flag \in Flags,
           e[Len(e)] \notin barred
    PROVE  LET g == e \o <<flag>>
           IN  Line(g, P, barred) /\ Extends(g, e) /\ Len(g) = Len(e) + 1 /\ g[Len(g)] = flag
<1>1. flag \in Words
  BY WordsKnown
<1>2. \A w \in {e, e \o <<flag>>} : Line(w, P, barred) => w \in Seq(Words) /\ Len(w) \in Nat
  BY DEF Line
<1> QED
  BY <1>1, <1>2, AddWord

\* The value of a flag, which may be empty.
LEMMA AddValue ==
    ASSUME NEW P \in Words, NEW barred \in SUBSET {"--data-dir"},
           NEW e, Line(e, P, barred), NEW w \in Words \ DOMAIN Parts,
           e[Len(e)] \in {"--cert", "--key", "--data-dir"},
           e[Len(e)] \notin barred
    PROVE  LET g == e \o Piece(w)
           IN  /\ Line(g, P, barred) /\ Extends(g, e) /\ g[Len(g)] \in {w, e[Len(e)]}
               /\ w # "" => g[Len(g)] = w /\ Len(g) = Len(e) + 1
<1>1. CASE w = ""
  <2>1. e \in Seq(Words)
    BY DEF Line
  <2>2. Piece(w) = <<>>
    BY <1>1 DEF Piece
  <2>3. e \o <<>> = e
    BY <2>1
  <2>4. Extends(e, e)
    BY <2>1 DEF Extends
  <2> QED
    BY <1>1, <2>2, <2>3, <2>4
<1>2. CASE w # ""
  <2>1. Piece(w) = <<w>>
    BY <1>2 DEF Piece
  <2>2. e[Len(e)] # "--port"
    OBVIOUS
  <2>3. LET g == e \o <<w>>
        IN  /\ Line(g, P, barred) /\ Extends(g, e) /\ Len(g) = Len(e) + 1
            /\ g[Len(g)] = w
    BY <2>2, AddWord
  <2> QED
    BY <1>2, <2>1, <2>3
<1> QED
  BY <1>1, <1>2

\* The first flag after the port.
LEMMA AddFirst ==
    ASSUME NEW P \in Words, NEW barred \in SUBSET {"--data-dir"}, NEW e, Line(e, P, barred),
           Len(e) <= 2, P \notin barred, NEW flag \in Flags
    PROVE  LET g == e \o <<flag>> IN Line(g, P, barred) /\ Len(g) = 3 /\ g[3] = flag
<1> DEFINE g == e \o <<flag>>
           n == Len(e)
<1>1. e[2] = P /\ n \in Nat /\ n >= 2 /\ n <= 2
  BY DEF Line
<1>2. Len(e) = 2
  <2> HIDE DEF n
  <2>1. n = 2
    BY <1>1
  <2> QED
    BY <2>1 DEF n
<1>3. e[Len(e)] \notin barred
  BY <1>1, <1>2
<1>4. Line(g, P, barred) /\ Len(g) = Len(e) + 1 /\ g[Len(g)] = flag
  BY <1>3, AddFlag
<1> QED
  BY <1>2, <1>4

\* The words of a certificate and its key.
LEMMA AddCerts ==
    ASSUME NEW P \in Words, NEW barred \in SUBSET {"--data-dir"},
           NEW e, Line(e, P, barred), Len(e) <= 2, P \notin barred,
           NEW x \in Words \ DOMAIN Parts, NEW y \in Words \ DOMAIN Parts,
           x \notin barred
    PROVE  LET g == (((e \o <<"--cert">>) \o Piece(x)) \o <<"--key">>) \o Piece(y)
           IN  Line(g, P, barred) /\ Len(g) >= 4 /\ g[3] = "--cert"
<1> DEFINE e3 == e \o <<"--cert">>
           e4 == e3 \o Piece(x)
           e5 == e4 \o <<"--key">>
           e6 == e5 \o Piece(y)
<1>0. /\ {"--cert", "--key"} \subseteq Flags /\ "--cert" \notin barred /\ "--key" \notin barred
      /\ \A w \in {e, e3, e4, e5, e6} : Line(w, P, barred) => w \in Seq(Words) /\ Len(w) \in Nat
  BY DEF Flags, Line
<1>1. Line(e3, P, barred) /\ Len(e3) = 3 /\ e3[3] = "--cert"
  BY <1>0, AddFirst
<1> HIDE DEF e3
<1>2. Line(e4, P, barred) /\ Extends(e4, e3) /\ e4[Len(e4)] \in {x, "--cert"}
  <2>1. e3[Len(e3)] \in {"--cert", "--key", "--data-dir"} /\ e3[Len(e3)] \notin barred
    BY <1>1
  <2>2. /\ Line(e4, P, barred) /\ Extends(e4, e3) /\ e4[Len(e4)] \in {x, e3[Len(e3)]}
    BY <1>1, <2>1, AddValue
  <2> QED
    BY <1>1, <2>2
<1> HIDE DEF e4
<1>3. /\ Line(e5, P, barred) /\ Extends(e5, e4) /\ Len(e5) = Len(e4) + 1
      /\ e5[Len(e5)] = "--key"
  <2>1. e4[Len(e4)] \notin barred
    BY <1>2
  <2> QED
    BY <1>0, <1>2, <2>1, AddFlag
<1> HIDE DEF e5
<1>4. Line(e6, P, barred) /\ Extends(e6, e5)
  BY <1>3, AddValue
<1> HIDE DEF e6
<1>5. Len(e6) >= 4 /\ e6[3] = "--cert"
  <2>1. /\ Len(e4) \in Nat /\ Len(e5) \in Nat /\ Len(e6) \in Nat
    BY <1>0, <1>2, <1>3, <1>4
  <2>2. Len(e4) >= 3 /\ e4[3] = "--cert"
    BY <2>1, <1>1, <1>2 DEF Extends
  <2>3. Len(e5) >= 4 /\ e5[3] = "--cert"
    BY <2>1, <2>2, <1>3 DEF Extends
  <2> QED
    BY <2>1, <2>3, <1>4 DEF Extends
<1> QED
  BY <1>4, <1>5 DEF e3, e4, e5, e6

-----------------------------------------------------------------------------
(* The words that install writes *)

LEMMA FourWords ==
    ASSUME NEW s \in Seq(Words), NEW a \in Words, NEW b \in Words, NEW c \in Words, NEW d \in Words
    PROVE  s \o <<a, b, c, d>> = (s \o <<a, b>>) \o <<c, d>>
<1> DEFINE l == s \o <<a, b, c, d>>
           m == s \o <<a, b>>
           r == m \o <<c, d>>
           n == Len(s)
<1>1. /\ l \in Seq(Words) /\ Len(l) = n + 4 /\ n \in Nat
      /\ \A i \in 1 .. n : l[i] = s[i]
      /\ l[n + 1] = a /\ l[n + 2] = b /\ l[n + 3] = c /\ l[n + 4] = d
  OBVIOUS
<1>2. /\ m \in Seq(Words) /\ Len(m) = n + 2 /\ n \in Nat
      /\ \A i \in 1 .. n : m[i] = s[i]
      /\ m[n + 1] = a /\ m[n + 2] = b
  OBVIOUS
<1> HIDE DEF m
<1>3. /\ r \in Seq(Words) /\ Len(r) = n + 4
      /\ \A i \in 1 .. n + 2 : r[i] = m[i]
      /\ r[n + 3] = c /\ r[n + 4] = d
  BY <1>2
<1> HIDE DEF l, r
<1>4. \A i \in 1 .. n + 4 : l[i] = r[i]
  <2> TAKE i \in 1 .. n + 4
  <2>1. CASE i \in 1 .. n
    BY <2>1, <1>1, <1>2, <1>3
  <2>2. CASE i \in {n + 1, n + 2}
    BY <2>2, <1>1, <1>2, <1>3
  <2>3. CASE i \in {n + 3, n + 4}
    BY <2>3, <1>1, <1>3
  <2> QED
    BY <2>1, <2>2, <2>3, <1>1
<1>5. l = r
  BY <1>1, <1>3, <1>4
<1> QED
  BY <1>5 DEF l, r, m

LEMMA LastIn ==
    ASSUME NEW args \in Seq(Words), NEW flag
    PROVE  LET v == LastOf(args, Values(args, flag), "")
           IN  v = "" \/ \E j \in 2 .. Len(args) : args[j - 1] = flag /\ v = args[j]
<1> DEFINE at == Values(args, flag)
<1>1. at \in SUBSET (0 .. Len(args)) /\ Len(args) \in Nat
  BY DEF Values
<1>2. CASE at = {}
  BY <1>2 DEF LastOf
<1>3. CASE at # {}
  <2>1. Max(at) \in at
    BY <1>1, <1>3, MaxIn
  <2>2. Max(at) \in 2 .. Len(args) /\ args[Max(at) - 1] = flag
    BY <2>1 DEF Values
  <2> QED
    BY <2>2, <1>3 DEF LastOf
<1> QED
  BY <1>2, <1>3

\* The words of a configuration of install, and the word of its port.
LEMMA ConfigWords ==
    ASSUME NEW args \in Commands
    PROVE  LET c == ConfigOf(args)
               From(w, flag) ==
                   w = "" \/ \E j \in 2 .. Len(args) : args[j - 1] = flag /\ w = args[j]
           IN  /\ args \in Seq(Words) /\ c \in CfgType
               /\ From(c.CertFile, "--cert") /\ From(c.KeyFile, "--key")
               /\ From(c.DataDir, "--data-dir")
               /\ c.Port \in MinPort .. MaxPort
               /\ Itoa(c.Port) \in DOMAIN Number /\ Number[Itoa(c.Port)] = c.Port
<1> DEFINE c == ConfigOf(args)
           ports == ValidPorts(args)
<1>1. args \in Seq(Words)
  BY ServiceAssumption, WordsKnown
<1>2. /\ c \in CfgType
      /\ c.Port = IF ports = {} THEN PortHTTPS ELSE Number[args[Max(ports)]]
      /\ c.DataDir = LastOf(args, Values(args, "--data-dir"), "")
      /\ c.CertFile = LastOf(args, Values(args, "--cert"), "")
      /\ c.KeyFile = LastOf(args, Values(args, "--key"), "")
  BY <1>1, ConfigFields
<1> HIDE DEF c
<1>3. c.Port \in MinPort .. MaxPort /\ \E w \in DOMAIN Number : Number[w] = c.Port
  <2>1. CASE ports = {}
    <3>1. c.Port = PortHTTPS
      BY <2>1, <1>2
    <3>2. \E w \in DOMAIN Number : Number[w] = PortHTTPS
      BY ConfigAssumption
    <3> QED
      BY <3>1, <3>2 DEF PortHTTPS, MinPort, MaxPort
  <2>2. CASE ports # {}
    <3>1. ports \in SUBSET (0 .. Len(args)) /\ Len(args) \in Nat
      BY <1>1 DEF ValidPorts, Values
    <3>2. Max(ports) \in ports
      BY <2>2, <3>1, MaxIn
    <3>3. IsNumber(args[Max(ports)], MinPort, MaxPort)
      BY <3>2 DEF ValidPorts
    <3>4. c.Port = Number[args[Max(ports)]]
      BY <2>2, <1>2
    <3> QED
      BY <3>3, <3>4 DEF IsNumber
  <2> QED
    BY <2>1, <2>2
<1>4. Itoa(c.Port) \in DOMAIN Number /\ Number[Itoa(c.Port)] = c.Port
  BY <1>3 DEF Itoa
<1> DEFINE From(w, flag) ==
               w = "" \/ \E j \in 2 .. Len(args) : args[j - 1] = flag /\ w = args[j]
<1>5. \A flag : From(LastOf(args, Values(args, flag), ""), flag)
  BY <1>1, LastIn
<1>6. From(c.CertFile, "--cert") /\ From(c.KeyFile, "--key") /\ From(c.DataDir, "--data-dir")
  <2> HIDE DEF From
  <2> QED
    BY <1>2, <1>5
<1> HIDE DEF From
<1>7. /\ args \in Seq(Words) /\ c \in CfgType
      /\ From(c.CertFile, "--cert") /\ From(c.KeyFile, "--key") /\ From(c.DataDir, "--data-dir")
      /\ c.Port \in MinPort .. MaxPort
      /\ Itoa(c.Port) \in DOMAIN Number /\ Number[Itoa(c.Port)] = c.Port
  BY <1>1, <1>2, <1>3, <1>4, <1>6
<1> QED
  BY <1>7, Zenon DEF c, From

LEMMA NumberWord ==
    ASSUME NEW P \in DOMAIN Number
    PROVE  /\ P \in Words /\ P \notin Flags /\ P # "" /\ Piece(P) = <<P>>
           /\ P \notin {CertPath, KeyPath}
BY ConfigAssumption DEF Words, Piece

CertOf(c) == IF AutoGenCerts(c) THEN CertPath ELSE c.CertFile
KeyOf(c) == IF AutoGenCerts(c) THEN KeyPath ELSE c.KeyFile

\* The words of the ExecStart line, before systemd takes it apart.
Written(c) ==
    LET port == <<"--port", Itoa(c.Port)>>
        certs_ == IF UseTLS(c) THEN (port \o <<"--cert", CertOf(c)>>) \o <<"--key", KeyOf(c)>>
                  ELSE port
    IN  IF c.DataDir # "" THEN certs_ \o <<"--data-dir", c.DataDir>> ELSE certs_

LEMMA ExecStartWords ==
    ASSUME NEW c \in CfgType, Itoa(c.Port) \in DOMAIN Number
    PROVE  ExecStart(c) = Fields(Written(c))
<1> DEFINE port == <<"--port", Itoa(c.Port)>>
           dir == IF c.DataDir # "" THEN <<"--data-dir", c.DataDir>> ELSE <<>>
           C == CertArgs(c)
           four == <<"--cert", CertOf(c), "--key", KeyOf(c)>>
           all == IF UseTLS(c) THEN (port \o <<"--cert", CertOf(c)>>) \o <<"--key", KeyOf(c)>>
                  ELSE port
<1>1. ExecStart(c) = Fields(port \o C \o dir)
  BY DEF ExecStart
<1>2. C = IF UseTLS(c) THEN four ELSE <<>>
  BY DEF CertArgs, CertOf, KeyOf
<1>3. /\ "--port" \in Words /\ "--cert" \in Words /\ "--key" \in Words
      /\ Itoa(c.Port) \in Words /\ CertOf(c) \in Words /\ KeyOf(c) \in Words
      /\ c.DataDir \in Words
  BY WordsKnown, NumberWord DEF Flags, CertOf, KeyOf, CfgType
<1>4. port \in Seq(Words)
  BY <1>3
<1>5. port \o C = all
  <2>1. CASE UseTLS(c)
    BY <2>1, <1>2, <1>3, <1>4, FourWords
  <2>2. CASE ~UseTLS(c)
    <3>1. port \o <<>> = port
      BY <1>4
    <3> QED
      BY <2>2, <3>1, <1>2
  <2> QED
    BY <2>1, <2>2
<1>6. all \in Seq(Words)
  <2> HIDE DEF port
  <2> QED
    BY <1>3, <1>4
<1> HIDE DEF all, port, C
<1>7. all \o dir = IF c.DataDir # "" THEN all \o <<"--data-dir", c.DataDir>> ELSE all
  <2>1. all \o <<>> = all
    BY <1>6
  <2> QED
    BY <2>1
<1>8. Written(c) = IF c.DataDir # "" THEN all \o <<"--data-dir", c.DataDir>> ELSE all
  BY Zenon DEF Written, all, port
<1> QED
  BY <1>1, <1>5, <1>7, <1>8

\* The words that systemd makes of it.
LEMMA ExecStartFields ==
    ASSUME NEW c \in CfgType, Itoa(c.Port) \in DOMAIN Number
    PROVE  LET port == (<<>> \o <<"--port">>) \o <<Itoa(c.Port)>>
               pair == (((port \o <<"--cert">>) \o Piece(CertOf(c))) \o <<"--key">>) \o Piece(KeyOf(c))
               all == IF UseTLS(c) THEN pair ELSE port
           IN  ExecStart(c) = IF c.DataDir # "" THEN (all \o <<"--data-dir">>) \o Piece(c.DataDir)
                              ELSE all
<1> DEFINE P == Itoa(c.Port)
           w1 == <<"--port", P>>
           w2 == w1 \o <<"--cert", CertOf(c)>>
           w3 == w2 \o <<"--key", KeyOf(c)>>
           w4 == IF UseTLS(c) THEN w3 ELSE w1
           f1 == (<<>> \o <<"--port">>) \o <<P>>
           f2 == (f1 \o <<"--cert">>) \o Piece(CertOf(c))
           f3 == (f2 \o <<"--key">>) \o Piece(KeyOf(c))
           f4 == IF UseTLS(c) THEN f3 ELSE f1
<1>1. /\ "--port" \in Flags /\ "--cert" \in Flags /\ "--key" \in Flags /\ "--data-dir" \in Flags
      /\ P \in Words /\ CertOf(c) \in Words /\ KeyOf(c) \in Words /\ c.DataDir \in Words
      /\ Piece(P) = <<P>> /\ "--port" \in Words
  BY WordsKnown, NumberWord DEF Flags, CertOf, KeyOf, CfgType
<1>2. w1 \in Seq(Words) /\ Fields(w1) = f1
  <2>1. <<>> \o w1 = w1 /\ <<>> \in Seq(Words)
    BY <1>1
  <2>2. Fields(<<>> \o w1) = (Fields(<<>>) \o <<"--port">>) \o Piece(P)
    BY <1>1, <2>1, FieldsPair
  <2>3. Piece(P) = <<P>> /\ w1 \in Seq(Words)
    BY <1>1
  <2> HIDE DEF w1, P
  <2>4. Fields(w1) = (<<>> \o <<"--port">>) \o <<P>>
    BY <2>1, <2>2, <2>3, FieldsEmpty, Zenon
  <2> QED
    BY <2>3, <2>4
<1> HIDE DEF w1, f1, P
<1>3. w2 \in Seq(Words) /\ Fields(w2) = f2
  BY <1>1, <1>2, FieldsPair
<1> HIDE DEF w2, f2
<1>4. w3 \in Seq(Words) /\ Fields(w3) = f3
  BY <1>1, <1>3, FieldsPair
<1> HIDE DEF w3, f3
<1>5. w4 \in Seq(Words) /\ Fields(w4) = f4
  BY <1>2, <1>4
<1> HIDE DEF w4, f4
<1>6. Fields(w4 \o <<"--data-dir", c.DataDir>>) = (f4 \o <<"--data-dir">>) \o Piece(c.DataDir)
  BY <1>1, <1>5, FieldsPair
<1>7. Written(c) = IF c.DataDir # "" THEN w4 \o <<"--data-dir", c.DataDir>> ELSE w4
  BY Zenon DEF Written, w4, w3, w2, w1, P
<1>8. ExecStart(c) = IF c.DataDir # "" THEN (f4 \o <<"--data-dir">>) \o Piece(c.DataDir) ELSE f4
  BY <1>5, <1>6, <1>7, ExecStartWords
<1> QED
  BY <1>8, Zenon DEF f4, f3, f2, f1, P

-----------------------------------------------------------------------------
(* What main reads in them *)

\* What main makes of a line that begins with its port.
LEMMA ServerReads ==
    ASSUME NEW e \in Seq(Words), Len(e) >= 1, e[1] = "--port"
    PROVE  LET s == Server(e)
               ports == ValidPorts(e)
           IN  /\ ports # {} => s.port = Number[e[Max(ports)]]
               /\ s.data = LastOf(e, Values(e, "--data-dir"), "")
               /\ Values(e, "--cert") # {} => s.tls
               /\ s.cert \in {"", LastOf(e, Values(e, "--cert"), "")}
               /\ s.key \in {"", LastOf(e, Values(e, "--key"), "")}
<1> DEFINE r == ParseFlags(e, StartOf(""))
           c == ParseArgs(e, AvailablePorts)
           ports == ValidPorts(e)
           new == IF ~r.ExplicitPort /\ AvailablePorts # <<>> THEN AvailablePorts[1] ELSE r.Port
<1>1. ~(e # <<>> /\ e[1] \in {"install", "uninstall"})
  OBVIOUS
<1>2. c = [r EXCEPT !.TLSEnabled = @ \/ AutoTLS(r, r.Port), !.Port = new]
  BY <1>1 DEF ParseArgs, StartOf
<1>3. /\ r \in CfgType
      /\ r.Port = IF ports = {} THEN DefaultPort ELSE Number[e[Max(ports)]]
      /\ r.ExplicitPort <=> ports # {}
      /\ r.DataDir = LastOf(e, Values(e, "--data-dir"), "")
      /\ r.CertFile = LastOf(e, Values(e, "--cert"), "")
      /\ r.KeyFile = LastOf(e, Values(e, "--key"), "")
      /\ r.TLSEnabled <=> \/ Given(e, "--tls")
                          \/ Values(e, "--cert") \cup Values(e, "--key") # {}
  <2>1. "" \in Words
    BY WordsKnown
  <2> QED
    BY <2>1, ParsedFlags, Zenon
<1> HIDE DEF r, ports
<1>4. /\ ports # {} => c.Port = r.Port
      /\ c.DataDir = r.DataDir /\ c.CertFile = r.CertFile /\ c.KeyFile = r.KeyFile
      /\ r.TLSEnabled => c.TLSEnabled
  <2> HIDE DEF new
  <2>1. /\ c.Port = new /\ c.DataDir = r.DataDir /\ c.CertFile = r.CertFile
        /\ c.KeyFile = r.KeyFile /\ (r.TLSEnabled => c.TLSEnabled)
    BY <1>2, <1>3 DEF CfgType
  <2>2. ports # {} => new = r.Port
    BY <1>3 DEF new
  <2> QED
    BY <2>1, <2>2
<1>5. LET files_ == c.CertFile # "" /\ c.KeyFile # ""
      IN  Server(e) = [port |-> c.Port, tls |-> UseTLS(c), data |-> c.DataDir,
                       cert |-> IF files_ THEN c.CertFile ELSE "",
                       key |-> IF files_ THEN c.KeyFile ELSE ""]
  BY DEF Server
<1> HIDE DEF c
<1> DEFINE both == c.CertFile # "" /\ c.KeyFile # ""
           cert_ == IF both THEN c.CertFile ELSE ""
           key_ == IF both THEN c.KeyFile ELSE ""
<1>50. cert_ \in {"", c.CertFile} /\ key_ \in {"", c.KeyFile}
  OBVIOUS
<1>51. Server(e) = [port |-> c.Port, tls |-> UseTLS(c), data |-> c.DataDir,
                    cert |-> cert_, key |-> key_]
  BY <1>5, Zenon
<1> HIDE DEF cert_, key_
<1>6. /\ Server(e).port = c.Port /\ (Server(e).tls <=> UseTLS(c)) /\ Server(e).data = c.DataDir
      /\ Server(e).cert \in {"", c.CertFile} /\ Server(e).key \in {"", c.KeyFile}
  <2> DEFINE t == UseTLS(c)
  <2> HIDE DEF t
  <2>1. Server(e) = [port |-> c.Port, tls |-> t, data |-> c.DataDir,
                     cert |-> cert_, key |-> key_]
    BY <1>51 DEF t
  <2>2. /\ Server(e).port = c.Port /\ Server(e).data = c.DataDir /\ Server(e).cert = cert_
        /\ Server(e).key = key_
    BY <2>1
  <2>3. Server(e).tls <=> t
    BY <2>1
  <2> QED
    BY <2>2, <2>3, <1>50 DEF t
<1>7. Values(e, "--cert") # {} => UseTLS(c)
  BY <1>3, <1>4 DEF UseTLS
<1>8. ports # {} => Server(e).port = Number[e[Max(ports)]]
  BY <1>3, <1>4, <1>6
<1>9. Server(e).data = LastOf(e, Values(e, "--data-dir"), "")
  BY <1>3, <1>4, <1>6
<1>10. Values(e, "--cert") # {} => Server(e).tls
  BY <1>6, <1>7
<1>11. /\ Server(e).cert \in {"", LastOf(e, Values(e, "--cert"), "")}
       /\ Server(e).key \in {"", LastOf(e, Values(e, "--key"), "")}
  BY <1>3, <1>4, <1>6
<1> QED
  BY <1>8, <1>9, <1>10, <1>11, Zenon DEF ports

\* The line of a server, with and without its certificate.
LEMMA PortLine ==
    ASSUME NEW P \in Words, NEW barred \in SUBSET {"--data-dir"}
    PROVE  LET e == (<<>> \o <<"--port">>) \o <<P>>
           IN  Line(e, P, barred) /\ Len(e) <= 2
<1> DEFINE e == (<<>> \o <<"--port">>) \o <<P>>
<1>1. "--port" \in Words
  BY WordsKnown DEF Flags
<1>2. e \in Seq(Words) /\ Len(e) \in Nat /\ Len(e) >= 2 /\ Len(e) <= 2
  BY <1>1
<1>3. e[1] = "--port" /\ e[2] = P
  BY <1>1
<1>4. "--port" \notin barred
  OBVIOUS
<1> HIDE DEF e
<1>5. \A j \in 3 .. Len(e) : FALSE
  BY <1>2
<1>6. \A j \in 2 .. Len(e) : e[j - 1] \notin barred
  <2> TAKE j \in 2 .. Len(e)
  <2>1. j - 1 = 1
    BY <1>2
  <2> QED
    BY <2>1, <1>3, <1>4
<1>7. Line(e, P, barred)
  BY <1>2, <1>3, <1>5, <1>6 DEF Line
<1> QED
  BY <1>2, <1>7 DEF e

LEMMA PairLine ==
    ASSUME NEW P \in Words, NEW barred \in SUBSET {"--data-dir"}, P \notin barred,
           NEW x \in Words \ DOMAIN Parts, NEW y \in Words \ DOMAIN Parts, x \notin barred
    PROVE  LET port == (<<>> \o <<"--port">>) \o <<P>>
               e == (((port \o <<"--cert">>) \o Piece(x)) \o <<"--key">>) \o Piece(y)
           IN  Line(e, P, barred) /\ Len(e) >= 4 /\ e[3] = "--cert"
<1> DEFINE port == (<<>> \o <<"--port">>) \o <<P>>
<1>1. Line(port, P, barred) /\ Len(port) <= 2
  BY PortLine
<1> HIDE DEF port
<1>2. port \in Seq(Words) /\ Len(port) \in Nat
  BY <1>1 DEF Line
<1> DEFINE e == (((port \o <<"--cert">>) \o Piece(x)) \o <<"--key">>) \o Piece(y)
<1>3. Line(e, P, barred) /\ Len(e) >= 4 /\ e[3] = "--cert"
  BY <1>1, <1>2, AddCerts
<1> QED
  BY <1>3 DEF port

\* The flag of the directory and its value end the line.
LEMMA AddDir ==
    ASSUME NEW P \in Words, NEW e, Line(e, P, {}), NEW d \in Words
    PROVE  LET g == (e \o <<"--data-dir">>) \o <<d>>
           IN  /\ Line(g, P, {}) /\ Extends(g, e) /\ Len(g) >= Len(e) /\ Len(g) \in Nat
               /\ Len(g) >= 3 /\ g[Len(g) - 1] = "--data-dir" /\ g[Len(g)] = d
<1> DEFINE f == e \o <<"--data-dir">>
           g == f \o <<d>>
<1>0. /\ "--data-dir" \in Flags /\ "--data-dir" # "--port"
      /\ {} \in SUBSET {"--data-dir"}
      /\ \A w \in {e, f, g} : Line(w, P, {}) => /\ w \in Seq(Words) /\ Len(w) \in Nat
                                                /\ Len(w) >= 2
  BY DEF Flags, Line
<1>1. /\ Line(f, P, {}) /\ Extends(f, e) /\ Len(f) = Len(e) + 1
      /\ f[Len(f)] = "--data-dir"
  BY <1>0, AddFlag
<1> HIDE DEF f
<1>2. Line(g, P, {}) /\ Extends(g, f) /\ g[Len(g)] = d /\ Len(g) = Len(f) + 1
  BY <1>0, <1>1, AddWord
<1> HIDE DEF g
<1>20. Len(e) \in Nat /\ Len(f) \in Nat /\ Len(g) \in Nat /\ Len(e) >= 2
  BY <1>0, <1>1, <1>2
<1>3. Len(g) >= 3 /\ Len(g) - 1 = Len(f) /\ Len(f) \in 1 .. Len(f) /\ Len(g) >= Len(e)
  BY <1>20, <1>1, <1>2
<1>4. g[Len(g) - 1] = "--data-dir"
  BY <1>1, <1>2, <1>3 DEF Extends
<1>5. Extends(g, e)
  BY <1>20, <1>1, <1>2 DEF Extends
<1> QED
  BY <1>2, <1>20, <1>3, <1>4, <1>5 DEF f, g

\* The line that install writes for a configuration without blanks.
Barred(c) == IF c.DataDir = "" THEN {"--data-dir"} ELSE {}

LEMMA ConfigLine ==
    ASSUME NEW c \in CfgType, Itoa(c.Port) \in DOMAIN Number, ~Blanks(c),
           c.CertFile \notin Barred(c)
    PROVE  LET e == ExecStart(c)
           IN  /\ Line(e, Itoa(c.Port), Barred(c))
               /\ UseTLS(c) => Len(e) >= 4 /\ e[3] = "--cert"
               /\ \/ c.DataDir = ""
                  \/ Len(e) >= 3 /\ e[Len(e) - 1] = "--data-dir" /\ e[Len(e)] = c.DataDir
<1> DEFINE P == Itoa(c.Port)
           x == CertOf(c)
           y == KeyOf(c)
           d == c.DataDir
           b == Barred(c)
<1>1. P \in Words /\ P \notin Flags
  BY NumberWord
<1>2. b \in SUBSET {"--data-dir"} /\ P \notin b
  BY <1>1 DEF Flags, Barred
<1>3. /\ c.CertFile \in Words \ DOMAIN Parts /\ c.KeyFile \in Words \ DOMAIN Parts
      /\ d \in Words \ DOMAIN Parts
  BY DEF Blanks, CfgType
<1>4. /\ CertPath \in Words \ DOMAIN Parts /\ KeyPath \in Words \ DOMAIN Parts
      /\ CertPath # "--data-dir"
  BY WordsKnown, ConfigAssumption DEF CertPath
<1>5. x \in Words \ DOMAIN Parts /\ y \in Words \ DOMAIN Parts
  BY <1>3, <1>4 DEF CertOf, KeyOf
<1>6. x \notin b
  <2> HIDE DEF b
  <2>1. CertPath \notin b
    BY <1>2, <1>4
  <2> QED
    BY <2>1 DEF CertOf, b
<1> DEFINE port == (<<>> \o <<"--port">>) \o <<P>>
           pair == (((port \o <<"--cert">>) \o Piece(x)) \o <<"--key">>) \o Piece(y)
           all == IF UseTLS(c) THEN pair ELSE port
           g == (all \o <<"--data-dir">>) \o <<d>>
           e == ExecStart(c)
<1>7. e = IF d # "" THEN (all \o <<"--data-dir">>) \o Piece(d) ELSE all
  BY ExecStartFields, Zenon
<1> HIDE DEF P, x, y, b, e
<1>8. Line(port, P, b)
  BY <1>1, <1>2, PortLine
<1>9. Line(pair, P, b) /\ Len(pair) >= 4 /\ pair[3] = "--cert"
  BY <1>1, <1>2, <1>5, <1>6, PairLine
<1> HIDE DEF port, pair
<1>10. Line(all, P, b) /\ (UseTLS(c) => Len(all) >= 4 /\ all[3] = "--cert")
  BY <1>8, <1>9
<1> HIDE DEF all
<1>11. ASSUME d = "" PROVE e = all
  BY <1>7, <1>11
<1>12. ASSUME d # ""
       PROVE  e = g /\ b = {}
  <2>1. Piece(d) = <<d>>
    BY <1>3, <1>12 DEF Piece
  <2> QED
    BY <2>1, <1>7, <1>12 DEF b, Barred
<1>13. ASSUME b = {}
       PROVE  /\ Line(g, P, b) /\ (UseTLS(c) => Len(g) >= 4 /\ g[3] = "--cert")
              /\ Len(g) >= 3 /\ g[Len(g) - 1] = "--data-dir" /\ g[Len(g)] = d
  <2> HIDE DEF d
  <2>1. Line(all, P, {}) /\ d \in Words
    BY <1>10, <1>13, <1>3
  <2>2. /\ Line(g, P, {}) /\ Extends(g, all) /\ Len(g) \in Nat /\ Len(g) >= Len(all)
        /\ Len(g) >= 3 /\ g[Len(g) - 1] = "--data-dir" /\ g[Len(g)] = d
    BY <2>1, <1>1, AddDir
  <2>3. Len(all) \in Nat
    BY <2>1 DEF Line
  <2> HIDE DEF g
  <2>4. ASSUME UseTLS(c) PROVE Len(g) >= 4 /\ g[3] = "--cert"
    <3>1. Len(all) >= 4 /\ all[3] = "--cert" /\ 3 \in 1 .. Len(all)
      BY <2>3, <2>4, <1>10
    <3> QED
      BY <3>1, <2>2, <2>3 DEF Extends
  <2> QED
    BY <2>2, <2>4, <1>13
<1> HIDE DEF g
<1>14. CASE d = ""
  BY <1>10, <1>11, <1>14 DEF e, P, b
<1>15. CASE d # ""
  BY <1>12, <1>13, <1>15 DEF e, P, b
<1> QED
  BY <1>14, <1>15

\* What a server reads in such a line.
LEMMA LinePort ==
    ASSUME NEW P \in DOMAIN Number, Number[P] \in MinPort .. MaxPort,
           NEW barred \in SUBSET {"--data-dir"}, NEW e, Line(e, P, barred)
    PROVE  Server(e).port = Number[P]
<1> DEFINE ports == ValidPorts(e)
<1>1. e \in Seq(Words) /\ Len(e) \in Nat /\ Len(e) >= 2 /\ e[1] = "--port" /\ e[2] = P
  BY DEF Line
<1>2. 2 \in ports
  BY <1>1 DEF ValidPorts, Values, IsNumber
<1>3. \A j \in ports : j = 2
  <2> SUFFICES ASSUME NEW j \in ports, j # 2 PROVE FALSE
    OBVIOUS
  <2>1. j \in 3 .. Len(e) /\ e[j - 1] = "--port" /\ e[j] \in DOMAIN Number
    BY <1>1 DEF ValidPorts, Values, IsNumber
  <2>2. e[j] \in Flags
    BY <2>1 DEF Line
  <2> QED
    BY <2>1, <2>2, ConfigAssumption
<1>4. ports \in SUBSET (0 .. Len(e))
  BY <1>1 DEF ValidPorts, Values
<1>5. Max(ports) = 2
  BY <1>1, <1>2, <1>3, <1>4, MaxIn
<1>6. ports # {} => Server(e).port = Number[e[Max(ports)]]
  <2>1. Len(e) >= 1
    BY <1>1
  <2> QED
    BY <1>1, <2>1, ServerReads
<1> HIDE DEF ports
<1> QED
  BY <1>1, <1>2, <1>5, <1>6

LEMMA MaxIsLast ==
    ASSUME NEW n \in Nat, NEW at \in SUBSET (0 .. n), n \in at
    PROVE  Max(at) = n
<1>1. Max(at) \in at /\ n <= Max(at)
  BY MaxIn
<1>2. \A m \in 0 .. n : n <= m => m = n
  OBVIOUS
<1> QED
  BY <1>1, <1>2

\* A flag that is last but one has the last word.
LEMMA LastValue ==
    ASSUME NEW e \in Seq(Words), NEW flag, Len(e) >= 2, e[Len(e) - 1] = flag
    PROVE  LastOf(e, Values(e, flag), "") = e[Len(e)]
<1> DEFINE at == Values(e, flag)
<1>1. Len(e) \in at /\ at \in SUBSET (0 .. Len(e)) /\ Len(e) \in Nat
  BY DEF Values
<1>2. Max(at) = Len(e)
  BY <1>1, MaxIsLast
<1> QED
  BY <1>1, <1>2 DEF LastOf

LEMMA LineNoData ==
    ASSUME NEW P \in Words, NEW barred \in SUBSET {"--data-dir"}, NEW e, Line(e, P, barred),
           "--data-dir" \in barred
    PROVE  Server(e).data = ""
<1>1. e \in Seq(Words) /\ Len(e) \in Nat /\ Len(e) >= 2 /\ e[1] = "--port"
  BY DEF Line
<1>2. Len(e) >= 1
  BY <1>1
<1>3. Server(e).data = LastOf(e, Values(e, "--data-dir"), "")
  BY <1>1, <1>2, ServerReads
<1>4. Values(e, "--data-dir") = {}
  BY <1>1 DEF Values, Line
<1> QED
  BY <1>3, <1>4 DEF LastOf

LEMMA LineLastData ==
    ASSUME NEW P \in Words, NEW barred \in SUBSET {"--data-dir"}, NEW e, Line(e, P, barred),
           e[Len(e) - 1] = "--data-dir"
    PROVE  Server(e).data = e[Len(e)]
<1>1. e \in Seq(Words) /\ Len(e) \in Nat /\ Len(e) >= 2 /\ e[1] = "--port"
  BY DEF Line
<1>2. Len(e) >= 1
  BY <1>1
<1>3. Server(e).data = LastOf(e, Values(e, "--data-dir"), "")
  BY <1>1, <1>2, ServerReads
<1> QED
  BY <1>1, <1>3, LastValue

LEMMA LineTLS ==
    ASSUME NEW P \in Words, NEW barred \in SUBSET {"--data-dir"},
           NEW e, Line(e, P, barred), Len(e) >= 4, e[3] = "--cert"
    PROVE  Server(e).tls
<1>1. e \in Seq(Words) /\ Len(e) \in Nat /\ Len(e) >= 1 /\ e[1] = "--port"
  BY DEF Line
<1>2. 4 \in Values(e, "--cert")
  BY <1>1 DEF Values
<1> QED
  BY <1>1, <1>2, ServerReads

\* Unless a certificate is named as the flag of the directory, main reads in the
\* line what install wrote: port, directory, and TLS if it was to be served.
LEMMA ReadBack ==
    ASSUME NoFlagAsCert, NEW c \in Configs, ~Blanks(c)
    PROVE  LET s == Server(ExecStart(c))
           IN  s.port = c.Port /\ s.data = c.DataDir /\ (UseTLS(c) => s.tls)
<1> DEFINE P == Itoa(c.Port)
           e == ExecStart(c)
           b == Barred(c)
<1>1. PICK args \in Commands : c = ConfigOf(args)
  BY DEF Configs
<1>2. /\ args \in Seq(Words) /\ c \in CfgType
      /\ c.CertFile = "" \/ \E j \in 2 .. Len(args) : args[j - 1] = "--cert" /\ c.CertFile = args[j]
      /\ c.Port \in MinPort .. MaxPort /\ P \in DOMAIN Number /\ Number[P] = c.Port
  BY <1>1, ConfigWords
<1>3. c.CertFile \notin b
  BY <1>2 DEF NoFlagAsCert, Barred
<1>4. /\ Line(e, P, b)
      /\ UseTLS(c) => Len(e) >= 4 /\ e[3] = "--cert"
      /\ \/ c.DataDir = ""
         \/ Len(e) >= 3 /\ e[Len(e) - 1] = "--data-dir" /\ e[Len(e)] = c.DataDir
  BY <1>2, <1>3, ConfigLine, Zenon
<1>5. b \in SUBSET {"--data-dir"} /\ (c.DataDir = "" => "--data-dir" \in b)
  BY DEF Barred
<1> HIDE DEF e, b, P
<1>6. P \in Words
  BY <1>2, NumberWord
<1>7. Server(e).port = c.Port
  BY <1>2, <1>4, <1>5, LinePort
<1>8. Server(e).data = c.DataDir
  <2>1. CASE c.DataDir = ""
    BY <2>1, <1>4, <1>5, <1>6, LineNoData
  <2>2. CASE e[Len(e) - 1] = "--data-dir" /\ e[Len(e)] = c.DataDir
    <3>1. Server(e).data = e[Len(e)]
      BY <2>2, <1>4, <1>5, <1>6, LineLastData
    <3> QED
      BY <2>2, <3>1
  <2> QED
    BY <2>1, <2>2, <1>4
<1>9. ASSUME UseTLS(c) PROVE Server(e).tls
  <2>1. Line(e, P, b) /\ Len(e) >= 4 /\ e[3] = "--cert"
    BY <1>4, <1>9
  <2> QED
    BY <2>1, <1>5, <1>6, LineTLS
<1> QED
  BY <1>7, <1>8, <1>9 DEF e

-----------------------------------------------------------------------------
(* The names of the generated files *)

LEMMA StartStays ==
    ASSUME NEW W, NEW e \in Seq(W), Len(e) >= 1, NEW s \in Seq(W)
    PROVE  e \o s \in Seq(W) /\ Len(e \o s) >= 1 /\ (e \o s)[1] = e[1]
OBVIOUS

\* Every word of a line is a flag, a number, or a word of a value.
LEMMA LineWords ==
    ASSUME NEW c \in CfgType, Itoa(c.Port) \in DOMAIN Number,
           NEW W, Flags \subseteq W, Itoa(c.Port) \in W,
           Piece(CertOf(c)) \in Seq(W), Piece(KeyOf(c)) \in Seq(W), Piece(c.DataDir) \in Seq(W)
    PROVE  LET e == ExecStart(c) IN e \in Seq(W) /\ Len(e) >= 1 /\ e[1] = "--port"
<1> DEFINE p == <<"--port">>
           port == (<<>> \o p) \o <<Itoa(c.Port)>>
           e1 == port \o <<"--cert">>
           e2 == e1 \o Piece(CertOf(c))
           e3 == e2 \o <<"--key">>
           pair == e3 \o Piece(KeyOf(c))
           all == IF UseTLS(c) THEN pair ELSE port
           f == all \o <<"--data-dir">>
           g == f \o Piece(c.DataDir)
           Starts(e) == e \in Seq(W) /\ Len(e) >= 1 /\ e[1] = "--port"
<1>1. \A flag \in Flags : <<flag>> \in Seq(W)
  OBVIOUS
<1>2. "--port" \in Flags /\ "--cert" \in Flags /\ "--key" \in Flags /\ "--data-dir" \in Flags
  BY DEF Flags
<1>3. Starts(port)
  <2>1. "--port" \in W
    BY <1>2
  <2> QED
    BY <2>1
<1> HIDE DEF port
<1>4. \A e, s : Starts(e) /\ s \in Seq(W) => Starts(e \o s)
  BY StartStays
<1> HIDE DEF Starts
<1>5. Starts(e1)
  BY <1>1, <1>2, <1>3, <1>4
<1> HIDE DEF e1
<1>6. Starts(e2)
  BY <1>4, <1>5
<1> HIDE DEF e2
<1>7. Starts(e3)
  BY <1>1, <1>2, <1>4, <1>6
<1> HIDE DEF e3
<1>8. Starts(pair)
  BY <1>4, <1>7
<1> HIDE DEF pair
<1>9. Starts(all)
  BY <1>3, <1>8
<1> HIDE DEF all
<1>10. Starts(f)
  BY <1>1, <1>2, <1>4, <1>9
<1> HIDE DEF f
<1>11. Starts(g)
  BY <1>4, <1>10
<1> HIDE DEF g
<1>12. ExecStart(c) = IF c.DataDir # "" THEN g ELSE all
  BY ExecStartFields, Zenon DEF g, f, all, pair, e3, e2, e1, port, p
<1>13. Starts(ExecStart(c))
  BY <1>9, <1>11, <1>12
<1> QED
  BY <1>13 DEF Starts

\* The names of the generated files are in the line only if they are generated.
LEMMA CertsNamed ==
    ASSUME OwnFiles, NEW c \in Configs, ~AutoGenCerts(c)
    PROVE  LET s == Server(ExecStart(c)) IN s.cert # CertPath /\ s.key # KeyPath
<1> DEFINE W == Words \ {CertPath, KeyPath}
           e == ExecStart(c)
           P == Itoa(c.Port)
<1>1. PICK args \in Commands : c = ConfigOf(args)
  BY DEF Configs
<1>2. /\ args \in Seq(Words) /\ c \in CfgType /\ P \in DOMAIN Number
      /\ \A w \in {c.CertFile, c.KeyFile, c.DataDir} :
            w = "" \/ \E j \in 2 .. Len(args) : w = args[j]
  BY <1>1, ConfigWords
<1>3. ASSUME NEW w \in Words, w = "" \/ \E j \in 2 .. Len(args) : w = args[j]
      PROVE  Piece(w) \in Seq(W)
  <2>1. CASE w = ""
    <3>1. Piece(w) = <<>>
      BY <2>1 DEF Piece
    <3> QED
      BY <3>1
  <2>2. ASSUME NEW j \in 2 .. Len(args), w = args[j]
        PROVE  Piece(w) \in Seq(W)
    <3>1. j \in DOMAIN args
      <4> DEFINE n == Len(args)
      <4>0. args \in Seq(Words)
        BY <1>2
      <4>1. n \in Nat /\ DOMAIN args = 1 .. n
        BY <4>0
      <4>2. j \in 2 .. n
        OBVIOUS
      <4> HIDE DEF n
      <4> QED
        BY <4>1, <4>2
    <3>2. w \notin {CertPath, KeyPath}
      BY <2>2, <3>1 DEF OwnFiles
    <3>3. ASSUME w \in DOMAIN Parts PROVE Parts[w] \in Seq(W)
      <4>1. Parts[w] \in Seq(Words)
        BY <3>3, ConfigAssumption, WordsKnown
      <4>2. \A i \in DOMAIN Parts[w] : Parts[w][i] \notin {CertPath, KeyPath}
        BY <2>2, <3>1, <3>3 DEF OwnFiles
      <4> DEFINE s == Parts[w]
      <4> HIDE DEF s
      <4>3. s \in Seq(Words) /\ \A i \in DOMAIN s : s[i] \notin {CertPath, KeyPath}
        BY <4>1, <4>2 DEF s
      <4>4. \A i \in 1 .. Len(s) : s[i] \in W
        BY <4>3
      <4>5. s \in Seq(W)
        BY <4>3, <4>4
      <4> QED
        BY <4>5 DEF s
    <3>4. <<w>> \in Seq(W)
      BY <3>1, <3>2
    <3> QED
      BY <3>3, <3>4, <2>1 DEF Piece
  <2> QED
    BY <1>3, <2>1, <2>2
<1>4. Flags \subseteq W /\ P \in W
  <2>1. CertPath \notin Flags /\ KeyPath \notin Flags
    BY DEF CertPath, KeyPath, Flags
  <2> QED
    BY <1>2, <2>1, NumberWord, WordsKnown
<1>5. CertOf(c) = c.CertFile /\ KeyOf(c) = c.KeyFile
  BY DEF CertOf, KeyOf
<1>6. e \in Seq(W) /\ Len(e) >= 1 /\ e[1] = "--port"
  <2>1. Piece(CertOf(c)) \in Seq(W) /\ Piece(KeyOf(c)) \in Seq(W) /\ Piece(c.DataDir) \in Seq(W)
    <3>1. c.CertFile \in Words /\ c.KeyFile \in Words /\ c.DataDir \in Words
      BY <1>2 DEF CfgType
    <3> HIDE DEF W
    <3> QED
      BY <1>2, <1>3, <1>5, <3>1
  <2> HIDE DEF W
  <2> QED
    BY <1>2, <1>4, <2>1, LineWords
<1> HIDE DEF e
<1>7. e \in Seq(Words)
  BY <1>6
<1>8. ASSUME NEW flag PROVE LastOf(e, Values(e, flag), "") \notin {CertPath, KeyPath}
  <2>1. "" \notin {CertPath, KeyPath}
    BY DEF CertPath, KeyPath
  <2>2. \A j \in 2 .. Len(e) : e[j] \notin {CertPath, KeyPath}
    BY <1>6
  <2> DEFINE v == LastOf(e, Values(e, flag), "")
  <2>3. v = "" \/ \E j \in 2 .. Len(e) : e[j - 1] = flag /\ v = e[j]
    BY <1>7, LastIn
  <2> HIDE DEF v
  <2> QED
    BY <2>1, <2>2, <2>3 DEF v
<1>9. /\ Server(e).cert \in {"", LastOf(e, Values(e, "--cert"), "")}
      /\ Server(e).key \in {"", LastOf(e, Values(e, "--key"), "")}
  BY <1>6, <1>7, ServerReads
<1>10. "" # CertPath /\ "" # KeyPath
  BY DEF CertPath, KeyPath
<1> QED
  BY <1>8, <1>9, <1>10 DEF e

-----------------------------------------------------------------------------
(* The theorems *)

\* The inductive invariant holds through every failure and kill of install and
\* uninstall, and through restarts of the service.
THEOREM Invariance == Spec => []IInv
<1>1. Init => IInv
  <2> SUFFICES ASSUME Init PROVE IInv
    OBVIOUS
  <2>1. TypeOK
    BY DEF Init, Idle, TypeOK
  <2> QED
    BY <2>1
    DEF Init, Idle, IInv, OneAnswer, Progress, InPlace, InstallPcs, Writes, AfterCerts
<1>2. IInv /\ [Next]_vars => IInv'
  <2> SUFFICES ASSUME IInv, [Next]_vars PROVE IInv'
    OBVIOUS
  <2>1. CASE UNCHANGED vars
    BY <2>1 DEF vars, files, IInv, TypeOK, OneAnswer, Progress, InPlace
  <2>2. CASE InstallStep \/ Stops \/ Curl \/ Hostname \/ \E args \in Commands : Install(args)
    BY <2>2, InstallInv, CheckInv, WriteCertInv, CopyInv, MakeDataDirInv, DetectInv,
       WriteUnitInv, EnableInv, StopsInv DEF InstallStep
  <2>3. CASE Uninstall \/ UninstallStep \/ StartServer \/ ServerDies \/ PlaceCerts
    BY <2>3, UninstallInv, RemoveBinaryInv, MachineInv DEF UninstallStep
  <2> QED
    BY <2>1, <2>2, <2>3 DEF Next
<1> QED
  BY <1>1, <1>2, PTL DEF Spec

\* The variables of installation keep their types: the unit file has the line
\* of some install, whole, or is cut or absent.
THEOREM TypeCorrect == Spec => []TypeOK
<1>1. IInv => TypeOK
  BY DEF IInv
<1> QED
  BY <1>1, Invariance, PTL

\* The goroutine of detectPublicIP sends into an empty channel, whenever the
\* timer of its select has fired.
THEOREM SendsAtOnce == Spec => []SendNeverBlocks
<1>1. IInv => SendNeverBlocks
  BY DEF IInv, OneAnswer, SendNeverBlocks
<1> QED
  BY <1>1, Invariance, PTL

\* The names of the generated files are read from the line only if they are
\* generated; a service that install has announced then finds both, after any
\* history of installs and uninstalls that failed or were killed: no install
\* goes on without both files, and uninstall removes the unit first.
THEOREM CertsStayInPlace == ASSUME OwnFiles PROVE Spec => []CertsInPlace
<1>1. IInv => CertsInPlace
  <2> SUFFICES ASSUME IInv, announced # None
               PROVE  /\ Server(unit).cert = CertPath => "crt" \in certs
                      /\ Server(unit).key = KeyPath => "key" \in certs
    BY DEF CertsInPlace
  <2>1. PICK c \in Configs : unit = ExecStart(c) /\ (AutoGenCerts(c) => Pair \subseteq certs)
    BY DEF IInv, InPlace
  <2>2. Server(unit).cert = CertPath \/ Server(unit).key = KeyPath => AutoGenCerts(c)
    BY <2>1, CertsNamed
  <2> QED
    BY <2>1, <2>2 DEF Pair
<1> QED
  BY <1>1, Invariance, PTL

\* What install has announced is what main makes of the unit file at each start,
\* whatever commands came in between: the line that ExecStart puts together and
\* systemd takes apart gives the loop of ParseArgs the same port and directory.
THEOREM AnnouncementsSurvive == ASSUME NoFlagAsCert PROVE Spec => []SurvivesRestart
<1>1. IInv => SurvivesRestart
  <2> SUFFICES ASSUME IInv, announced # None, ~announced.blanks
               PROVE  /\ Server(unit).port = announced.port
                      /\ Server(unit).data = announced.data
                      /\ announced.tls => Server(unit).tls
    BY DEF SurvivesRestart
  <2>1. PICK c \in Configs : announced = Announcement(c) /\ unit = ExecStart(c)
    BY DEF IInv, InPlace
  <2>2. /\ announced.port = c.Port /\ announced.data = c.DataDir
        /\ announced.tls = UseTLS(c) /\ announced.blanks = Blanks(c)
    BY <2>1 DEF Announcement
  <2> QED
    BY <2>1, <2>2, ReadBack
<1> QED
  BY <1>1, Invariance, PTL

\* The configuration that install checks is the one of its arguments.
Resolved ==
    setup.pc = "check" => setup.args \in Commands /\ setup.cfg = ConfigOf(setup.args)

LEMMA ResolvedStep == ASSUME TypeOK, Resolved, [Next]_vars PROVE Resolved'
<1>1. setup \in Setups
  BY TypeParts
<1>2. ASSUME NEW args \in Commands, Install(args) PROVE Resolved'
  <2> DEFINE c == ConfigOf(args)
  <2>1. setup' = [Idle EXCEPT !.pc = "check", !.args = args, !.cfg = c]
    BY <1>2 DEF Install
  <2> HIDE DEF c
  <2>2. setup'.args = args /\ setup'.cfg = c
    BY <2>1 DEF Idle
  <2> QED
    BY <2>2 DEF Resolved, c
<1>3. ASSUME NEW pc, Goto(pc), pc # "check" PROVE Resolved'
  BY <1>1, <1>3 DEF Goto, Setups, Resolved
<1>4. ASSUME Exit PROVE Resolved'
  BY <1>4 DEF Exit, Idle, Resolved
<1>5. ASSUME UNCHANGED setup PROVE Resolved'
  BY <1>5 DEF Resolved
<1>6. CASE InstallStep
  <2>1. \A f \in Writes : AfterWrite(f) # "check"
    BY DEF Writes, AfterWrite
  <2>2. CASE TakeAddress
    BY <1>1, <2>2 DEF TakeAddress, Setups, Resolved
  <2>3. ASSUME NEW f \in Writes, WriteCert(f) PROVE Resolved'
    BY <2>1, <2>3, <1>3 DEF WriteCert
  <2>4. CASE CertsExist \/ (\E f \in Writes : WriteCertFails(f)) \/ WriteUnitFails \/ Enable
    BY <2>4, <1>4 DEF CertsExist, WriteCertFails, WriteUnitFails, Enable
  <2>5. CASE GenerateCerts \/ NoCertsNeeded \/ SkipCopy \/ CreateBinary \/ FillBinary
    BY <2>5, <1>3 DEF GenerateCerts, NoCertsNeeded, SkipCopy, CreateBinary, FillBinary
  <2>6. CASE MakeDataDir \/ Timeout \/ WriteUnit
    BY <2>6, <1>3 DEF MakeDataDir, Timeout, WriteUnit
  <2> QED
    BY <1>6, <2>2, <2>3, <2>4, <2>5, <2>6 DEF InstallStep
<1>7. CASE Uninstall \/ UninstallStep \/ Stops
  BY <1>7, <1>3, <1>4
  DEF Uninstall, UninstallStep, StopService, RemoveUnit, RemoveCerts, RemoveBinary, Stops
<1>8. CASE Curl \/ Hostname \/ StartServer \/ ServerDies \/ PlaceCerts \/ UNCHANGED vars
  BY <1>8, <1>5 DEF Curl, Hostname, StartServer, ServerDies, PlaceCerts, vars
<1> QED
  BY <1>2, <1>6, <1>7, <1>8 DEF Next

\* The loop of ParseArgs and the two places that turn TLS on give what the
\* flags are documented to mean, for command lines of any length in which no
\* value is the name of a flag.
THEOREM FlagsMeanWhatTheySay == Spec => []ResolvedAsDocumented
<1>1. TypeOK /\ Resolved => ResolvedAsDocumented
  <2> SUFFICES ASSUME Resolved, setup.pc = "check", PlainValues(setup.args)
               PROVE  ReadAsDocumented
    BY DEF ResolvedAsDocumented, ReadAsDocumented, At
  <2>1. setup.args \in Seq(Words)
    BY ServiceAssumption, WordsKnown DEF Resolved
  <2>2. setup.cfg = ConfigOf(setup.args)
    BY DEF Resolved
  <2> QED
    BY <2>1, <2>2, ConfigDocumented, Zenon DEF ReadAsDocumented
<1>2. Init => Resolved
  BY DEF Init, Idle, Resolved
<1>3. TypeOK /\ Resolved /\ [Next]_vars => Resolved'
  BY ResolvedStep
<1> QED
  BY <1>1, <1>2, <1>3, TypeCorrect, PTL DEF Spec
=============================================================================
