------------------------------ MODULE MCStartup ------------------------------
(* A small instance of WinService, and so of Startup, for TLC. *)
EXTENDS WinService, TLC

MCPem ==
    "cert" :> PemFile(<<Item("cert", "us")>>) @@
    "key" :> PemFile(<<Item("key", "us")>>) @@
    "other_key" :> PemFile(<<Item("key", "them")>>) @@
    "no_key" :> PemFile(<<Item("cert", "us")>>) @@
    "gone" :> Unreadable

\* An HTTPS server with the redirect beside it.
Https(key) ==
    [port |-> 443, http2 |-> TRUE, http2_tls_cert |-> "cert", http2_tls_key |-> key,
     https_redirect |-> TRUE]

NoFile == [kind |-> "none", has_general |-> FALSE, general |-> << >>, advanced |-> << >>]
Invalid == [NoFile EXCEPT !.kind = "invalid"]
Toml(general) == [NoFile EXCEPT !.kind = "toml", !.has_general = TRUE, !.general = general]

Scenario(on_windows, line, conf) ==
    [windows |-> on_windows, args |-> line, file |-> conf, passed |-> AnyPort]

Https2 == Toml(Https("key"))
Plain == Toml([windows_service |-> FALSE, http2 |-> FALSE])

MCScenarios ==
    {Scenario(FALSE, << >>, NoFile), Scenario(FALSE, << >>, Invalid),
     Scenario(FALSE, << >>, Https2), Scenario(TRUE, << >>, Https2),
     Scenario(FALSE, Https("key"), NoFile), Scenario(FALSE, Https("key"), Plain),
     Scenario(FALSE, << >>, Toml(Https("other_key"))),
     Scenario(FALSE, << >>, Toml(Https("no_key"))),
     Scenario(FALSE, Https("gone"), NoFile),
     Scenario(FALSE, << >>, Toml([cors_allow_origins |-> <<"https://a", "*">>])),
     Scenario(FALSE, << >>, Toml([cors_allow_origins |-> <<"*">>,
                                  cors_allow_headers |-> <<"x y">>])),
     Scenario(FALSE, [http2 |-> TRUE], NoFile),
     Scenario(FALSE, [version |-> TRUE], NoFile),
     Scenario(FALSE, [commands |-> TRUE], NoFile),
     Scenario(FALSE, << >>, Toml([port |-> AnyPort])),
     Scenario(FALSE, << >>, Toml([maintenance_mode_status |-> 99])),
     Scenario(FALSE, << >>, [Https2 EXCEPT !.advanced = <<TRUE, FALSE>>]),
     Scenario(FALSE, << >>, Toml([log_level |-> "loud"])),
     Scenario(FALSE, [fd |-> 0], NoFile),
     [Scenario(FALSE, [fd |-> 0], Https2) EXCEPT !.passed = 443],
     Scenario(TRUE, [windows_service |-> TRUE], NoFile)}

\* The redirect on Unix.
UnixHttps == {Scenario(FALSE, << >>, Https2)}

=============================================================================
