------------------------------ MODULE Settings ------------------------------
(***************************************************************************)
(* Where the options of a server come from: the command line or            *)
(* environment (General::parse, src/src/settings/cli.rs), the file         *)
(* (Settings::read, src/src/settings/file.rs), and the two together        *)
(* (Settings::read, src/src/settings/mod.rs).                              *)
(*                                                                         *)
(* The options are those that decide how the server starts.  The others    *)
(* are all merged in the way port is.  args and a general section are      *)
(* functions from the options they mention to values.                      *)
(***************************************************************************)
EXTENDS Integers, Sequences

NoFd == -1          \* fd: None
NoPath == ""        \* http2_tls_cert, http2_tls_key: None

Defaults ==
    [port |-> 80, fd |-> NoFd, http2 |-> FALSE, http2_tls_cert |-> NoPath,
     http2_tls_key |-> NoPath, https_redirect |-> FALSE, https_redirect_from_port |-> 80,
     security_headers |-> FALSE, cors_allow_origins |-> << >>,
     cors_allow_headers |-> <<"origin", "content-type", "authorization">>,
     cors_expose_headers |-> <<"origin", "content-type">>, log_level |-> "error",
     maintenance_mode_status |-> 503, windows_service |-> FALSE,
     version |-> FALSE, commands |-> FALSE]

\* What the options f mention, and the rest from g.
Over(f, g) ==
    [x \in DOMAIN f \cup DOMAIN g |-> IF x \in DOMAIN f THEN f[x] ELSE g[x]]

LogLevels == {"error", "warn", "info", "debug", "trace"}

----------------------------------------------------------------------------
\* The command line.

Given(args, option, value) == option \in DOMAIN args /\ args[option] = value

\* conflicts_with_all of fd.
Conflicts(args) == "fd" \in DOMAIN args /\ DOMAIN args \cap {"port", "https_redirect"} # {}

\* required_if_eq of the TLS files and requires_if of https_redirect.
Lacks(args) ==
    \/ /\ Given(args, "http2", TRUE)
       /\ ~({"http2_tls_cert", "http2_tls_key"} \subseteq DOMAIN args)
    \/ Given(args, "https_redirect", TRUE) /\ "http2" \notin DOMAIN args

ParseFails(args) == Conflicts(args) \/ Lacks(args)

\* default_value_if of security_headers.
General(args) == Over(args, [Defaults EXCEPT !.security_headers = Given(args, "http2", TRUE)])

----------------------------------------------------------------------------
(***************************************************************************)
(* The file.  kind is "none" if the path is no regular file, "invalid" if  *)
(* it is not called .toml or does not deserialize.  advanced holds, for    *)
(* each entry of the lists of the [advanced] section in order, whether its *)
(* pattern compiles or its directory is there.                             *)
(***************************************************************************)
HasGeneral(file) == file.kind = "toml" /\ file.has_general

\* Mutant: security headers are left as the command line has them.
MergedPlain(opts, general) == Over(general, opts)

\* Every option the section mentions wins; security_headers also follows http2.
Merged(opts, general) ==
    LET all == Over(general, opts)
    IN  IF "security_headers" \in DOMAIN general \/ ~all.http2 THEN all
        ELSE [all EXCEPT !.security_headers = TRUE]

WithFile(opts, file) == IF HasGeneral(file) THEN Merged(opts, file.general) ELSE opts

AdvancedFails(file) == \E i \in DOMAIN file.advanced : ~file.advanced[i]

\* An HTTP status is a number of three digits.
StatusFails(file) ==
    /\ HasGeneral(file)
    /\ "maintenance_mode_status" \in DOMAIN file.general
    /\ file.general.maintenance_mode_status \notin 100 .. 999

FileFails(file) ==
    \/ file.kind = "invalid"
    \/ file.kind = "toml" /\ (StatusFails(file) \/ AdvancedFails(file))

\* Settings::read.  The logging system is initialized once per process.
read(args, file) == WithFile(General(args), file)

ReadFails(args, file, log_init) ==
    \/ FileFails(file)
    \/ log_init /\ read(args, file).log_level \notin LogLevels

=============================================================================
