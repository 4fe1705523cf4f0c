-------------------------------- MODULE Tls --------------------------------
(***************************************************************************)
(* What a connection accepts from the server it reaches: the translation   *)
(* of ssl.mode and ssl.ca_path into a wire negotiation and a certificate   *)
(* check by each of the three drivers.                                     *)
(*                                                                         *)
(* A server is [tls, plain, chain, host, key]: it answers the TLS request, *)
(* it talks plaintext on the port, its certificate chains to the roots     *)
(* every client knows ("public"), to the authority in the ca_path file     *)
(* ("private") or to nothing, names the host that was dialled, and the     *)
(* server holds the certificate's key.  A ca_path is None, "ca" (a file    *)
(* with the private authority) or "unusable" (missing, garbage or empty).  *)
(***************************************************************************)
CONSTANT None

Modes == {"disabled", "preferred", "required", "verify_ca", "verify_identity"}
CaPaths == {None, "ca", "unusable"}
Drivers == {"PostgreSQL", "ClickHouse", "Redis"}
Servers == {s \in [tls : BOOLEAN, plain : BOOLEAN, chain : {"public", "private", "none"},
                   host : BOOLEAN, key : BOOLEAN] : s.tls \/ s.plain}

ASSUME NoneAssumption == None \notin Modes \cup {"ca", "unusable"}

\* The outcome of dialling a server.
Links == {"refused", "plaintext", "encrypted"}

-----------------------------------------------------------------------------
(* Trust anchors *)

Native == {"public"}
Anchors(ca_path) == IF ca_path = "ca" THEN {"private"} ELSE {}

\* build_connector for verify_ca: without a ca_path there is no connector,
\* with one it trusts what load_trust_anchors finds there, or fails.
LoadTrustAnchors(ca_path) == Anchors(ca_path)

\* A file replaces the platform's store, it does not add to it.
RootStoreForVerifyIdentity(ca_path) == IF ca_path = None THEN Native ELSE Anchors(ca_path)

RootCertPem(ca_path) == IF ca_path = None THEN Native ELSE Anchors(ca_path)

-----------------------------------------------------------------------------
(* Certificate checks: each takes what the handshake presented. *)

AcceptAnyCertificate(server) == server.key

ChainOnlyVerifier(roots, server) == server.key /\ server.chain \in roots

\* rustls' own verifier (external): chain and host.
WebPkiVerifier(roots, server) == server.key /\ server.chain \in roots /\ server.host

-----------------------------------------------------------------------------
(* PostgreSQL *)

ResolveSslMode(mode) ==
    CASE mode = "disabled" -> "disable"
      [] mode = "preferred" -> "prefer"
      [] OTHER -> "require"

BuildConnector(mode, ca_path, server) ==
    CASE mode \in {"preferred", "required"} -> AcceptAnyCertificate(server)
      [] mode = "verify_ca" -> ChainOnlyVerifier(LoadTrustAnchors(ca_path), server)
      [] OTHER -> WebPkiVerifier(RootStoreForVerifyIdentity(ca_path), server)

\* Whether build_connector returns a connector at all.
ConnectorBuilt(mode, ca_path) ==
    CASE mode = "verify_ca" -> LoadTrustAnchors(ca_path) # {}
      [] mode \in {None, "verify_identity"} -> RootStoreForVerifyIdentity(ca_path) # {}
      [] OTHER -> TRUE

\* tokio_postgres (external): prefer takes plaintext when the server answers
\* that it has no TLS, never after a failed handshake.
Negotiate(wire, accepted, server) ==
    CASE wire = "disable" /\ server.plain -> "plaintext"
      [] wire = "prefer" /\ ~server.tls /\ server.plain -> "plaintext"
      [] wire # "disable" /\ server.tls /\ accepted -> "encrypted"
      [] OTHER -> "refused"

ConnectWithConfig(mode, ca_path, server) ==
    IF mode = "disabled"
      THEN Negotiate(ResolveSslMode(mode), TRUE, server)
      ELSE IF ~ConnectorBuilt(mode, ca_path)
             THEN "refused"
             ELSE Negotiate(ResolveSslMode(mode), BuildConnector(mode, ca_path, server), server)

\* cancel_query hands NoTls to the token, which keeps the wire mode of its
\* session (tokio_postgres, external): prefer goes straight to plaintext, and
\* require ends at the missing TLS implementation, so nothing is sent.
CancelQuery(mode, server) ==
    IF ResolveSslMode(mode) # "require" /\ server.plain THEN "plaintext" ELSE "refused"

-----------------------------------------------------------------------------
(* ClickHouse *)

ResolveScheme(mode) == IF mode = "disabled" THEN "http" ELSE "https"

\* ca_path is read for verify_ca only, and then it is required.
BuildHttpClient(mode, ca_path) == IF mode = "verify_ca" THEN Anchors(ca_path) ELSE Native

SendHttp(mode, ca_path, server) ==
    CASE ResolveScheme(mode) = "http" /\ server.plain -> "plaintext"
      [] /\ ResolveScheme(mode) = "https" /\ server.tls
         /\ WebPkiVerifier(BuildHttpClient(mode, ca_path), server) -> "encrypted"
      [] OTHER -> "refused"

-----------------------------------------------------------------------------
(* Redis *)

BuildConnectionInfo(mode) ==
    CASE mode = "disabled" -> [tls |-> FALSE, insecure |-> FALSE]
      [] mode \in {"preferred", "required"} -> [tls |-> TRUE, insecure |-> TRUE]
      [] OTHER -> [tls |-> TRUE, insecure |-> FALSE]

\* insecure (redis-rs, external) skips the handshake signature as well.
BuildClient(mode, ca_path, server) ==
    LET addr == BuildConnectionInfo(mode)
        accepted == addr.insecure \/ WebPkiVerifier(RootCertPem(ca_path), server)
    IN  CASE ~addr.tls /\ server.plain -> "plaintext"
          [] addr.tls /\ server.tls /\ accepted -> "encrypted"
          [] OTHER -> "refused"

-----------------------------------------------------------------------------
(* All three *)

Dial(driver, mode, ca_path, server) ==
    CASE driver = "PostgreSQL" -> ConnectWithConfig(mode, ca_path, server)
      [] driver = "ClickHouse" -> SendHttp(mode, ca_path, server)
      [] driver = "Redis" -> BuildClient(mode, ca_path, server)

\* The second link a driver may open for a session, for a cancel request;
\* ClickHouse's and Redis' go the way of the session.
DialCancel(driver, mode, server) ==
    IF driver = "PostgreSQL" THEN CancelQuery(mode, server) ELSE "refused"
=============================================================================
