------------------------------- MODULE Config -------------------------------
(***************************************************************************)
(* The command line: ParseArgs and InstallConfig of config.go, and the     *)
(* ExecStart line that installService (main.go) makes of the result, which *)
(* systemd takes apart and ParseArgs reads again at every start.           *)
(*                                                                         *)
(* A word is a string that is never looked into, but for two conversions:  *)
(* Number is strconv.Atoi, Parts is how systemd splits a word with blanks. *)
(***************************************************************************)
EXTENDS Integers, Sequences, SequencesExt

CONSTANTS
    Number,         \* Number[w]: the number that the word w reads as
    Parts,          \* Parts[w]: the words of a word with blanks
    AvailablePorts  \* the test ports free when the server starts

MinPort == 1
MaxPort == 65535
PortHTTPS == 443
PortAltHTTPS == 8443
DefaultPort == 8080
DefaultRecent == 12

CertPath == "/etc/goqrly/goqrly.crt"
KeyPath == "/etc/goqrly/goqrly.key"

IsNumber(w, low, high) == w \in DOMAIN Number /\ Number[w] \in low .. high
Itoa(n) == CHOOSE w \in DOMAIN Number : Number[w] = n

Flags == {"--port", "--recent", "--data-dir", "--tls", "--tls-disable", "--cert", "--key",
          "--list-recent-public"}

\* Every port is some word's number; a number is no flag, and has no blanks;
\* the parts of a word are words.
ASSUME ConfigAssumption ==
    /\ Number \in [DOMAIN Number -> Int] /\ DOMAIN Number \subseteq STRING
    /\ DOMAIN Number \cap (Flags \cup DOMAIN Parts \cup {"", CertPath, KeyPath}) = {}
    /\ Parts \in [DOMAIN Parts -> Seq(STRING)]
    /\ DOMAIN Parts \cap (Flags \cup {CertPath, KeyPath}) = {}
    /\ \A n \in {PortHTTPS, PortAltHTTPS, DefaultPort} : \E w \in DOMAIN Number : Number[w] = n
    /\ \A i \in DOMAIN AvailablePorts : AvailablePorts[i] \in MinPort .. MaxPort

Defaults ==
    [Port |-> DefaultPort, TLSEnabled |-> FALSE, CertFile |-> "", KeyFile |-> "",
     RecentMax |-> DefaultRecent, ListRecentPublic |-> FALSE, DataDir |-> "",
     Command |-> "", ExplicitPort |-> FALSE, TLSDExplicitlyDisabled |-> FALSE]

\* One turn of the loop of ParseArgs.  The value of a flag is not skipped: the
\* next turn looks at it as a flag of its own.
ParseFlag(args, cfg, i) ==
    LET next == args[i + 1]
        Takes(flag) == args[i] = flag /\ i < Len(args)
    IN  CASE Takes("--port") /\ IsNumber(next, MinPort, MaxPort) ->
                 [cfg EXCEPT !.Port = Number[next], !.ExplicitPort = TRUE]
          [] Takes("--recent") /\ next \in DOMAIN Number /\ Number[next] > 0 ->
                 [cfg EXCEPT !.RecentMax = Number[next]]
          [] Takes("--data-dir") -> [cfg EXCEPT !.DataDir = next]
          [] Takes("--cert") -> [cfg EXCEPT !.CertFile = next, !.TLSEnabled = TRUE]
          [] Takes("--key") -> [cfg EXCEPT !.KeyFile = next, !.TLSEnabled = TRUE]
          [] args[i] = "--tls" -> [cfg EXCEPT !.TLSEnabled = TRUE]
          [] args[i] = "--tls-disable" -> [cfg EXCEPT !.TLSDExplicitlyDisabled = TRUE]
          [] args[i] = "--list-recent-public" -> [cfg EXCEPT !.ListRecentPublic = TRUE]
          [] OTHER -> cfg

\* The loop of ParseArgs: parsed[i] is the configuration after i turns.
ParseFlags(args, start) ==
    LET parsed[i \in 0 .. Len(args)] ==
            IF i = 0 THEN start ELSE ParseFlag(args, parsed[i - 1], i)
    IN  parsed[Len(args)]

AutoTLS(c, port) == ~c.TLSDExplicitlyDisabled /\ port \in {PortHTTPS, PortAltHTTPS}

\* Mutant of ParseArgs: a free test port replaces an explicit one.
ParseArgsAnyPort(argv, ports) ==
    LET cfg == ParseFlags(argv, Defaults)
    IN  [cfg EXCEPT !.TLSEnabled = @ \/ AutoTLS(cfg, cfg.Port),
                    !.Port = IF ports # <<>> THEN ports[1] ELSE @]

ParseArgs(argv, ports) ==
    LET isCommand == argv # <<>> /\ argv[1] \in {"install", "uninstall"}
        args == IF isCommand THEN Tail(argv) ELSE argv
        start == [Defaults EXCEPT !.Command = IF isCommand THEN argv[1] ELSE ""]
        cfg == ParseFlags(args, start)
    IN  [cfg EXCEPT !.TLSEnabled = @ \/ AutoTLS(cfg, cfg.Port),
                    !.Port = IF ~cfg.ExplicitPort /\ ports # <<>> THEN ports[1] ELSE @]

\* Mutant of InstallConfig: forgets that TLS was disabled.
InstallConfigAlwaysTLS(c) ==
    LET port == IF c.ExplicitPort THEN c.Port ELSE PortHTTPS
    IN  [c EXCEPT !.Port = port,
                  !.TLSEnabled = @ \/ port \in {PortHTTPS, PortAltHTTPS}]

InstallConfig(c) ==
    LET port == IF c.ExplicitPort THEN c.Port ELSE PortHTTPS
    IN  [c EXCEPT !.Port = port, !.TLSEnabled = @ \/ AutoTLS(c, port)]

UseTLS(c) == c.TLSEnabled \/ (c.CertFile # "" /\ c.KeyFile # "")
AutoGenCerts(c) == UseTLS(c) /\ c.CertFile = "" /\ c.KeyFile = ""

-----------------------------------------------------------------------------
(* The unit file *)

\* How systemd reads the words of a line: blanks separate, nothing is quoted.
Fields(words) ==
    FlattenSeq([i \in DOMAIN words |->
        IF words[i] = "" THEN <<>>
        ELSE IF words[i] \in DOMAIN Parts THEN Parts[words[i]] ELSE <<words[i]>>])

CertArgs(c) ==
    IF ~UseTLS(c) THEN <<>>
    ELSE IF AutoGenCerts(c) THEN <<"--cert", CertPath, "--key", KeyPath>>
    ELSE <<"--cert", c.CertFile, "--key", c.KeyFile>>

\* The arguments after the binary in the ExecStart line of install.
ExecStart(c) ==
    Fields(<<"--port", Itoa(c.Port)>> \o CertArgs(c)
           \o (IF c.DataDir # "" THEN <<"--data-dir", c.DataDir>> ELSE <<>>))

\* What main makes of them: the port, whether it serves TLS, the certificate
\* files it then loads ("": a self-signed one in memory) and the directory.
Server(execStart) ==
    LET c == ParseArgs(execStart, AvailablePorts)
        files == c.CertFile # "" /\ c.KeyFile # ""
    IN  [port |-> c.Port, tls |-> UseTLS(c), data |-> c.DataDir,
         cert |-> IF files THEN c.CertFile ELSE "", key |-> IF files THEN c.KeyFile ELSE ""]

-----------------------------------------------------------------------------
(* What a command line means, without the loop: "--port <n>" is a flag and *)
(* its value, a value is no flag, and the last value that is one counts.   *)

ValueFlags == {"--port", "--recent", "--data-dir", "--cert", "--key"}

\* The places of the values: after a flag that takes one and is not itself one.
ValuePlaces(args) ==
    CHOOSE at \in SUBSET (2 .. Len(args)) :
        \A i \in 2 .. Len(args) : i \in at <=> args[i - 1] \in ValueFlags /\ i - 1 \notin at

ValuesOf(args, flag) == {i \in ValuePlaces(args) : args[i - 1] = flag}
HasFlag(args, flag) == \E i \in 1 .. Len(args) : args[i] = flag /\ i \notin ValuePlaces(args)
LastOf(args, at, default) == IF at = {} THEN default ELSE args[Max(at)]

Documented(args) ==
    LET ports == {i \in ValuesOf(args, "--port") : IsNumber(args[i], MinPort, MaxPort)}
        port == IF ports = {} THEN PortHTTPS ELSE Number[args[Max(ports)]]
    IN  [port |-> port,
         tls |-> \/ HasFlag(args, "--tls")
                 \/ ValuesOf(args, "--cert") \cup ValuesOf(args, "--key") # {}
                 \/ port \in {PortHTTPS, PortAltHTTPS} /\ ~HasFlag(args, "--tls-disable"),
         data |-> LastOf(args, ValuesOf(args, "--data-dir"), "")]

\* No word after a flag that takes a value is the name of a flag.
PlainValues(args) == \A i \in 2 .. Len(args) : args[i - 1] \in ValueFlags => args[i] \notin Flags
=============================================================================
