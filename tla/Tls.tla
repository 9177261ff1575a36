-------------------------------- MODULE Tls ---------------------------------
(***************************************************************************)
(* The TLS configuration made of a certificate file and a key file         *)
(* (TlsConfigBuilder, src/src/tls.rs).                                     *)
(*                                                                         *)
(* A PEM file holds the sequence of its items, if it can be read.  An item *)
(* is a certificate or a private key of some identity, or does not parse.  *)
(***************************************************************************)
EXTENDS Integers, Sequences

Item(type, identity) == [type |-> type, identity |-> identity]
PemFile(items) == [readable |-> TRUE, items |-> items]
Unreadable == [readable |-> FALSE, items |-> << >>]

Holds(pem, type) == \E i \in DOMAIN pem.items : pem.items[i].type = type

\* rustls_pemfile::certs: items of other types are passed over.
CertParseError(cert) == ~cert.readable \/ Holds(cert, "broken")

\* The loop over the items of the key file stops at the first it cannot use.
KeyError(key) ==
    LET stops == {i \in DOMAIN key.items : key.items[i].type # "key"}
        first == CHOOSE i \in stops : \A j \in stops : i <= j
    IN  IF ~key.readable THEN "Io"
        ELSE IF key.items = << >> THEN "EmptyKey"
        ELSE IF stops = {} THEN "none"
        ELSE IF key.items[first].type = "broken" THEN "InvalidIdentityPem"
        ELSE "UnknownPrivateKeyFormat"

\* with_single_cert: the first certificate is that of the last key.
InvalidKey(cert, key) ==
    LET is_cert(item) == item.type = "cert"
        certs == SelectSeq(cert.items, is_cert)
    IN  certs = << >> \/ Head(certs).identity # key.items[Len(key.items)].identity

\* TlsConfigBuilder::build: the error, or "none".
build(cert, key) ==
    IF CertParseError(cert) THEN "CertParseError"
    ELSE IF KeyError(key) # "none" THEN KeyError(key)
    ELSE IF InvalidKey(cert, key) THEN "InvalidKey"
    ELSE "none"

=============================================================================
