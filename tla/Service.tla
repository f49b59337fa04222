------------------------------ MODULE Service -------------------------------
(***************************************************************************)
(* goqrly install and goqrly uninstall (installService, uninstallService   *)
(* and detectPublicIP of main.go), and systemd, which starts the server    *)
(* they set up.  Each command is a sequence of file operations, any of     *)
(* which may fail or be the last before the command is killed.             *)
(*                                                                         *)
(* One command runs at a time, as root.  --force and --remove-binary are   *)
(* never parsed: their globals keep the value FALSE.                       *)
(***************************************************************************)
EXTENDS Config, FiniteSets

CONSTANTS
    Commands,       \* bound: the argument lists of install
    Addresses,      \* what curl and hostname print, as the first two bytes
    HostOutputs,    \* lists of addresses that hostname -I may print
    None,           \* no file, no server, no address
    Cut             \* a unit file that was truncated and not written

ASSUME ServiceAssumption ==
    /\ Commands \subseteq Seq(STRING)
    /\ HostOutputs \subseteq Seq(Addresses)

VARIABLES
    certs,      \* the files in /etc/goqrly: crt, key, marker; own: the operator's
    binary,     \* /usr/local/bin/goqrly
    unit,       \* the arguments in the unit file
    active,     \* systemd has been told to run the service
    running,    \* the server runs
    announced,  \* history: what the last install that succeeded has printed
    setup,      \* the command under way
    lookup,     \* the goroutine of detectPublicIP
    done        \* its channel, of capacity 1

files == <<certs, binary, unit>>
vars == <<files, active, running, announced, setup, lookup, done>>

forceOverwrite == FALSE
removeBinary == FALSE

Writes == {"crt", "key", "marker"}
InstallPcs == {"check"} \cup Writes \cup {"copy", "fill", "data", "detect", "unit", "enable"}
UninstallPcs == {"stop", "remove", "rmcerts", "rmbinary"}

ConfigOf(args) == InstallConfig(ParseArgs(<<"install">> \o args, <<>>))
Configs == {ConfigOf(args) : args \in Commands}

\* What install prints in the end, and whether systemd will split what it wrote.
Blanks(c) == \E f \in {"CertFile", "KeyFile", "DataDir"} : c[f] \in DOMAIN Parts
Announcement(c) ==
    [port |-> c.Port, tls |-> UseTLS(c), data |-> c.DataDir, blanks |-> Blanks(c)]

Idle == [pc |-> "idle", args |-> <<>>, cfg |-> Defaults, ip |-> None]

TypeOK ==
    /\ certs \subseteq Writes \cup {"own"}
    /\ binary \in {"none", "cut", "whole"}
    /\ unit \in {None, Cut} \cup {ExecStart(c) : c \in Configs}
    /\ active \in BOOLEAN
    /\ running \in BOOLEAN
    /\ announced \in {None} \cup {Announcement(c) : c \in Configs}
    /\ setup \in [pc : {"idle"} \cup InstallPcs \cup UninstallPcs, args : Commands \cup {<<>>},
                  cfg : Configs \cup {Defaults}, ip : Addresses \cup {None}]
    /\ lookup \in {"none", "curl", "hostname", "over"}
    /\ done \in {<<>>} \cup {<<a>> : a \in Addresses \cup {None}}

Init ==
    /\ certs = {}
    /\ binary = "none"
    /\ unit = None
    /\ active = FALSE
    /\ running = FALSE
    /\ announced = None
    /\ setup = Idle
    /\ lookup = "none"
    /\ done = <<>>

At(pc) == setup.pc = pc
Goto(pc) == setup' = [setup EXCEPT !.pc = pc, !.args = <<>>]

\* The command ends, and its goroutine with it.
Exit ==
    /\ setup' = Idle
    /\ lookup' = "none"
    /\ done' = <<>>

-----------------------------------------------------------------------------
(* installService *)

\* Mutant of Install: serves the defaults of the server, not of the service.
InstallParsed(args) ==
    /\ At("idle")
    /\ setup' = [Idle EXCEPT !.pc = "check", !.args = args,
                             !.cfg = ParseArgs(<<"install">> \o args, <<>>)]
    /\ UNCHANGED <<files, active, running, announced, lookup, done>>

Install(args) ==
    /\ At("idle")
    /\ setup' = [Idle EXCEPT !.pc = "check", !.args = args, !.cfg = ConfigOf(args)]
    /\ UNCHANGED <<files, active, running, announced, lookup, done>>

\* "certificates already exist"
CertsExist ==
    /\ At("check")
    /\ AutoGenCerts(setup.cfg) /\ "crt" \in certs /\ ~forceOverwrite
    /\ Exit
    /\ UNCHANGED <<files, active, running, announced>>

\* Mutant of GenerateCerts: the marker alone makes it reuse what there is.
GenerateCertsReused ==
    /\ At("check")
    /\ AutoGenCerts(setup.cfg) /\ "crt" \notin certs
    /\ Goto(IF "marker" \in certs THEN "copy" ELSE "crt")
    /\ UNCHANGED <<files, active, running, announced, lookup, done>>

GenerateCerts ==
    /\ At("check")
    /\ AutoGenCerts(setup.cfg) /\ ("crt" \notin certs \/ forceOverwrite)
    /\ Goto("crt")
    /\ UNCHANGED <<files, active, running, announced, lookup, done>>

NoCertsNeeded ==
    /\ At("check")
    /\ ~AutoGenCerts(setup.cfg)
    /\ Goto("copy")
    /\ UNCHANGED <<files, active, running, announced, lookup, done>>

AfterWrite(f) == CASE f = "crt" -> "key" [] f = "key" -> "marker" [] f = "marker" -> "copy"

\* The certificate, its key, and the marker that says they were generated.
WriteCert(f) ==
    /\ At(f)
    /\ certs' = certs \cup {f}
    /\ Goto(AfterWrite(f))
    /\ UNCHANGED <<binary, unit, active, running, announced, lookup, done>>

\* A write fails: the file may be there all the same.
WriteCertFails(f) ==
    /\ At(f)
    /\ certs' \in {certs, certs \cup {f}}
    /\ Exit
    /\ UNCHANGED <<binary, unit, active, running, announced>>

\* install was called on the installed binary itself.
SkipCopy ==
    /\ At("copy")
    /\ binary = "whole"
    /\ Goto("data")
    /\ UNCHANGED <<files, active, running, announced, lookup, done>>

\* os.Create fails for a binary that is being executed ("text file busy").
CreateBinary ==
    /\ At("copy")
    /\ ~running
    /\ binary' = "cut"
    /\ Goto("fill")
    /\ UNCHANGED <<certs, unit, active, running, announced, lookup, done>>

\* io.Copy, whose error nobody looks at.
FillBinary ==
    /\ At("fill")
    /\ binary' \in {"whole", "cut"}
    /\ Goto("data")
    /\ UNCHANGED <<certs, unit, active, running, announced, lookup, done>>

\* MkdirAll of the data directory; then detectPublicIP starts its goroutine.
MakeDataDir ==
    /\ At("data")
    /\ Goto("detect")
    /\ lookup' = "curl"
    /\ UNCHANGED <<files, active, running, announced, done>>

-----------------------------------------------------------------------------
(* detectPublicIP *)

isPublicIP(a) ==
    ~(a[1] \in {10, 127} \/ (a[1] = 172 /\ a[2] \in 16 .. 31) \/ (a[1] = 192 /\ a[2] = 168))

Send(ip) == done' = Append(done, ip)

\* Mutant of Curl: goes on to ask hostname after it has sent an address.
CurlGoesOn ==
    /\ lookup = "curl"
    /\ \E a \in Addresses \cup {None} :
          IF a # None /\ isPublicIP(a) THEN Send(a) ELSE UNCHANGED done
    /\ lookup' = "hostname"
    /\ UNCHANGED <<files, active, running, announced, setup>>

\* curl answers; it may never do so.
Curl ==
    /\ lookup = "curl"
    /\ \E a \in Addresses \cup {None} :
          IF a # None /\ isPublicIP(a)
          THEN Send(a) /\ lookup' = "over"
          ELSE lookup' = "hostname" /\ UNCHANGED done
    /\ UNCHANGED <<files, active, running, announced, setup>>

\* The first public address of hostname -I, or none.
Hostname ==
    /\ lookup = "hostname"
    /\ Len(done) < 1
    /\ \E out \in HostOutputs :
          \/ \E i \in 1 .. Len(out) :
                /\ isPublicIP(out[i]) /\ \A j \in 1 .. i - 1 : ~isPublicIP(out[j])
                /\ Send(out[i])
          \/ (\A i \in 1 .. Len(out) : ~isPublicIP(out[i])) /\ Send(None)
    /\ lookup' = "over"
    /\ UNCHANGED <<files, active, running, announced, setup>>

\* The select of detectPublicIP.
TakeAddress ==
    /\ At("detect")
    /\ done # <<>>
    /\ setup' = [setup EXCEPT !.pc = "unit", !.ip = done[1]]
    /\ done' = <<>>
    /\ UNCHANGED <<files, active, running, announced, lookup>>

\* Mutant of Timeout: waits for the goroutine to be over.
TimeoutWaits ==
    /\ At("detect")
    /\ lookup = "over"
    /\ Goto("unit")
    /\ UNCHANGED <<files, active, running, announced, lookup, done>>

\* One second has passed.
Timeout ==
    /\ At("detect")
    /\ Goto("unit")
    /\ UNCHANGED <<files, active, running, announced, lookup, done>>

-----------------------------------------------------------------------------
(* installService, continued *)

WriteUnit ==
    /\ At("unit")
    /\ unit' = ExecStart(setup.cfg)
    /\ announced' = None
    /\ Goto("enable")
    /\ UNCHANGED <<certs, binary, active, running, lookup, done>>

WriteUnitFails ==
    /\ At("unit")
    /\ unit' \in {unit, Cut}
    /\ announced' = IF unit' = unit THEN announced ELSE None
    /\ Exit
    /\ UNCHANGED <<certs, binary, active, running>>

\* systemctl enable --now, whose error nobody looks at; a service that runs is
\* left alone.  Then "goqrly installed successfully!".
Enable ==
    /\ At("enable")
    /\ active' \in {TRUE, active}
    /\ announced' = Announcement(setup.cfg)
    /\ Exit
    /\ UNCHANGED <<files, running>>

\* A step that changes nothing when it fails, or the command is killed.
Stops ==
    /\ ~At("idle")
    /\ Exit
    /\ UNCHANGED <<files, active, running, announced>>

-----------------------------------------------------------------------------
(* uninstallService *)

Uninstall ==
    /\ At("idle")
    /\ Goto("stop")
    /\ UNCHANGED <<files, active, running, announced, lookup, done>>

\* systemctl stop and disable, whose errors nobody looks at.
StopService ==
    /\ At("stop")
    /\ \/ active' = FALSE /\ running' = FALSE
       \/ UNCHANGED <<active, running>>
    /\ Goto("remove")
    /\ UNCHANGED <<files, announced, lookup, done>>

\* os.Remove, whose error nobody looks at either.
RemoveUnit ==
    /\ At("remove")
    /\ unit' \in {None, unit}
    /\ announced' = None
    /\ Goto("rmcerts")
    /\ UNCHANGED <<certs, binary, active, running, lookup, done>>

\* The whole directory, if the marker is in it; os.RemoveAll may fail after any
\* of the files, and nobody looks at its error.
RemoveCerts ==
    /\ At("rmcerts")
    /\ certs' \in IF "marker" \in certs THEN SUBSET certs ELSE {certs}
    /\ Goto("rmbinary")
    /\ UNCHANGED <<binary, unit, active, running, announced, lookup, done>>

RemoveBinary ==
    /\ At("rmbinary")
    /\ binary' = IF removeBinary THEN "none" ELSE binary
    /\ Exit
    /\ UNCHANGED <<certs, unit, active, running, announced>>

-----------------------------------------------------------------------------
(* systemd and the operator *)

\* A server that loads certificate files exits when they are not there.
CertsFound(s) ==
    /\ s.cert = CertPath => "crt" \in certs
    /\ s.key = KeyPath => "key" \in certs
    /\ s.cert \notin {"", CertPath} => "own" \in certs

StartServer ==
    /\ active /\ ~running
    /\ binary = "whole"
    /\ unit \notin {None, Cut} /\ CertsFound(Server(unit))
    /\ running' = TRUE
    /\ UNCHANGED <<files, active, announced, setup, lookup, done>>

\* It stops for whatever reason; Restart=always starts it again.
ServerDies ==
    /\ running
    /\ running' = FALSE
    /\ UNCHANGED <<files, active, announced, setup, lookup, done>>

\* The operator puts certificates of his own beside the generated ones.
PlaceCerts ==
    /\ At("idle")
    /\ certs' = certs \cup {"own"}
    /\ UNCHANGED <<binary, unit, active, running, announced, setup, lookup, done>>

-----------------------------------------------------------------------------
InstallStep ==
    \/ CertsExist \/ GenerateCerts \/ NoCertsNeeded
    \/ \E f \in Writes : WriteCert(f) \/ WriteCertFails(f)
    \/ SkipCopy \/ CreateBinary \/ FillBinary \/ MakeDataDir
    \/ TakeAddress \/ Timeout
    \/ WriteUnit \/ WriteUnitFails \/ Enable

UninstallStep == StopService \/ RemoveUnit \/ RemoveCerts \/ RemoveBinary

Next ==
    \/ \E args \in Commands : Install(args)
    \/ Uninstall
    \/ InstallStep \/ UninstallStep \/ Stops
    \/ Curl \/ Hostname
    \/ StartServer \/ ServerDies \/ PlaceCerts

Spec == Init /\ [][Next]_vars

\* A command goes on until it ends, and the timer of its context fires; curl
\* need not answer, nothing need fail, and nobody has to start a command.
FairSpec == Spec /\ WF_vars(InstallStep \/ UninstallStep)

-----------------------------------------------------------------------------
(* Properties *)

\* The same of every command line.  The loop never skips the value of a flag, so
\* a value that is the name of a flag is read as one too: "--data-dir --tls"
\* turns TLS on, and "--port --port 443" sets the port.
ReadAsDocumented ==
    At("check") =>
        LET c == setup.cfg
            doc == Documented(setup.args)
        IN  /\ c.Port = doc.port /\ c.DataDir = doc.data
            /\ c.TLSEnabled = doc.tls

\* The loop of ParseArgs, where a later flag overrides an earlier one only with
\* a valid value, and the two places that turn TLS on (config.go:89, 114) give
\* what the command line means: the last valid port, the last directory, TLS by
\* flag, by file or by port unless it is disabled.  This holds of command lines
\* with plain values only: see ReadAsDocumented.
ResolvedAsDocumented == PlainValues(setup.args) => ReadAsDocumented
\* What install has announced is what the unit file gives, after the line was
\* put together, split by systemd and parsed again: the same port, the same data
\* directory, and TLS if TLS was announced, whichever test ports are free.
SurvivesRestart ==
    announced # None /\ ~announced.blanks =>
        LET server == Server(unit)
        IN  /\ server.port = announced.port
            /\ server.data = announced.data
            /\ announced.tls => server.tls

\* A service announced with generated certificates finds both files when it
\* starts, whatever installs and uninstalls failed or were killed before.
CertsInPlace ==
    announced # None =>
        /\ Server(unit).cert = CertPath => "crt" \in certs
        /\ Server(unit).key = KeyPath => "key" \in certs

\* The goroutine of detectPublicIP never waits on its channel, also when nobody
\* takes its answer any more: it sends once, into a buffer of one.
SendNeverBlocks == lookup = "hostname" => done = <<>>

\* An install or uninstall ends, even when curl never answers.
InstallEnds == ~At("idle") ~> At("idle")

\* The protocol of the address that install has printed is the one the service
\* speaks.  --tls-disable promises plain http also on port 443.
AnnouncedProtocol ==
    announced # None => (Server(unit).tls <=> announced.tls)

-----------------------------------------------------------------------------
(* Two command lines that are not what their operator means.               *)

\* The names of the generated files are not given as names of other files.
OwnFiles ==
    \A args \in Commands : \A i \in DOMAIN args :
        /\ args[i] \notin {CertPath, KeyPath}
        /\ args[i] \in DOMAIN Parts =>
               \A j \in DOMAIN Parts[args[i]] : Parts[args[i]][j] \notin {CertPath, KeyPath}

\* No certificate is named as the flag of the directory.  (ParseArgs skips no
\* value: it would read that line back as a flag, and the next word as its value.)
NoFlagAsCert ==
    \A args \in Commands : \A i \in 2 .. Len(args) :
        ~(args[i - 1] = "--cert" /\ args[i] = "--data-dir")
=============================================================================
