------------------------------- MODULE Tools -------------------------------
(***************************************************************************)
(* The MCP tools of crates/connections: how a call's arguments become a    *)
(* refusal, a saved profile, a driver call or a connection, and what that  *)
(* connection accepts from its server (module Tls).                        *)
(*                                                                         *)
(* One client calls one tool after the other; a connect that was given a   *)
(* profile resolves it in one step and dials in a later one.  Concurrent   *)
(* calls are the subject of ConnectionManager and ConnectionProfiles.      *)
(* There is one profile name, and `session` is the connection opened last  *)
(* (its id is "live"), enough for every argument check.                    *)
(***************************************************************************)
EXTENDS Tls

CONSTANT WhileConnected   \* bound: TRUE allows every tool at any time

VARIABLES profile,   \* the saved profile, or None
          written,   \* ssl_mode and read_only as the client last wrote them
          session,   \* the live connection opened last, or None
          call,      \* the connect that resolved its arguments, or None
          tool_reply \* what the last finished call answered

toolVars == <<profile, written, session, call, tool_reply>>

ASSUME ToolsAssumption == None # "bogus" /\ None \notin BOOLEAN

Required == {"database_type", "host", "port", "username"}
SslTexts == Modes \cup {None, "bogus"}
IdTexts == {"malformed", "unknown", "live"}
TypeTexts == Drivers \cup {"unknown"}

Invalid == "InvalidArguments"
Failed == "Failed"
Ok == "Ok"

\* Answers without any other effect.
Answer(r) == tool_reply' = r /\ UNCHANGED <<profile, written, session, call>>

-----------------------------------------------------------------------------
(* Argument parsing *)

\* None is the default, which is verification in full.
ParseSslMode(text) == IF text = None THEN "verify_identity" ELSE text

ParseConnectionId(id) == id # "malformed"

-----------------------------------------------------------------------------
(* connect *)

\* A profile excludes every other argument, ssl_mode and read_only included.
ConnectByProfile(name, given, ssl, ro) ==
    /\ call = None
    /\ IF given # {} \/ ssl # None \/ ro # None
         THEN Answer(Invalid)
         ELSE \/ Answer(Failed)    \* no such profile, no profiles, or a store failed
              \/ /\ name # "" /\ profile # None
                 /\ call' = [type |-> profile.type, mode |-> profile.mode,
                             read_only |-> profile.read_only, ca_path |-> None,
                             asked |-> written]
                 /\ UNCHANGED <<profile, written, session, tool_reply>>

\* The checks run in this order, all before the manager is called.
ConnectAdHoc(given, type, ssl, ro) ==
    /\ call = None
    /\ IF given # Required \/ ParseSslMode(ssl) = "bogus"
         THEN Answer(Invalid)
         ELSE /\ call' = [type |-> type, mode |-> ParseSslMode(ssl),
                          read_only |-> ro = TRUE, ca_path |-> None,
                          asked |-> [ssl |-> ssl, read_only |-> ro = TRUE]]
              /\ UNCHANGED <<profile, written, session, tool_reply>>

\* A program that embeds the manager builds the ConnectionConfig itself: the
\* only way to a ca_path or to a missing mode without a profile.
ConnectEmbedded(type, mode, ca_path) ==
    /\ call = None
    /\ call' = [type |-> type, mode |-> mode, read_only |-> FALSE, ca_path |-> ca_path,
                asked |-> [ssl |-> mode, read_only |-> FALSE]]
    /\ UNCHANGED <<profile, written, session, tool_reply>>

\* manager.connect: the driver dials with the configuration.
ManagerConnect(server) ==
    /\ call # None
    /\ LET link == IF call.type = "unknown" THEN "refused"
                   ELSE Dial(call.type, call.mode, call.ca_path, server)
       IN  IF link = "refused"
             THEN tool_reply' = Failed /\ UNCHANGED session
             ELSE /\ tool_reply' = Ok
                  /\ session' = [driver |-> call.type, server |-> server, asked |-> call.asked,
                                 ca_path |-> call.ca_path, read_only |-> call.read_only,
                                 link |-> link,
                                 cancel |-> DialCancel(call.type, call.mode, server)]
    /\ call' = None
    /\ UNCHANGED <<profile, written>>

-----------------------------------------------------------------------------
(* Profiles *)

\* Mutant: an omitted ssl_mode is stored as no TLS.
SaveDefaultsToDisabled(name, given, type, ssl, ro) ==
    /\ call = None
    /\ IF given # Required \/ ssl = "bogus"
         THEN Answer(Invalid)
         ELSE /\ profile' = [type |-> type, mode |-> IF ssl = None THEN "disabled" ELSE ssl,
                             read_only |-> ro = TRUE]
              /\ written' = [ssl |-> ssl, read_only |-> ro = TRUE]
              /\ tool_reply' = Ok
              /\ UNCHANGED <<session, call>>

\* save: an omitted read_only keeps the stored one, an omitted ssl_mode goes
\* back to the default.
SaveConnectionProfile(name, given, type, ssl, ro) ==
    /\ call = None
    /\ IF given # Required \/ ParseSslMode(ssl) = "bogus"
         THEN Answer(Invalid)
         ELSE \/ Answer(Failed)                    \* one of the stores failed
              \/ IF name = "" THEN Answer(Failed)
                 ELSE LET kept == profile # None /\ profile.read_only
                          now == IF ro = None THEN kept ELSE ro
                      IN  /\ profile' = [type |-> type, mode |-> ParseSslMode(ssl),
                                         read_only |-> now]
                          /\ written' = [ssl |-> ssl,
                                         read_only |-> IF ro # None THEN ro
                                                       ELSE profile # None /\ written.read_only]
                          /\ tool_reply' = Ok
                          /\ UNCHANGED <<session, call>>

DeleteConnectionProfile(name) ==
    /\ call = None
    /\ \/ Answer(Failed)
       \/ /\ name # "" /\ profile # None
          /\ profile' = None
          /\ tool_reply' \in {Ok, Failed}               \* the secret may stay behind
          /\ UNCHANGED <<written, session, call>>

ListConnectionProfiles == call = None /\ (Answer(Ok) \/ Answer(Failed))

-----------------------------------------------------------------------------
(* Tools on a live connection: the id is parsed, the driver looked up, and  *)
(* one driver method called, whose error is passed on.                      *)

OnDriver(id, Method) ==
    /\ call = None
    /\ IF ~ParseConnectionId(id) THEN Answer(Invalid)
       ELSE IF id # "live" \/ session = None THEN Answer(Failed)
       ELSE Method

DriverCall == Answer(Ok) \/ Answer(Failed)

ListTables(id) == OnDriver(id, DriverCall)
DescribeTable(id) == OnDriver(id, DriverCall)
ListDatabases(id) == OnDriver(id, DriverCall)
ExecuteQuery(id) == OnDriver(id, DriverCall)
GetConnectionStatus(id) == OnDriver(id, Answer(Ok))

\* Only PostgreSQL has schemas; the others answer without a driver call.
ListSchemas(id) ==
    OnDriver(id, IF session.driver = "PostgreSQL" THEN DriverCall ELSE Answer(Ok))

ListConnections == call = None /\ Answer(Ok)

\* disconnect of an id that is not open is no error.
Disconnect(id) ==
    /\ call = None
    /\ IF ~ParseConnectionId(id) THEN Answer(Invalid)
       ELSE /\ \/ tool_reply' = Ok
               \/ tool_reply' = Failed /\ id = "live" /\ session # None   \* the driver's own error
            /\ session' = IF id = "live" THEN None ELSE session
            /\ UNCHANGED <<profile, written, call>>

-----------------------------------------------------------------------------
(* A profile on disk may have no ssl_mode: ConnectionProfile allows it. *)
ToolInit ==
    /\ profile \in {None} \cup [type : Drivers, mode : {None}, read_only : BOOLEAN]
    /\ written = [ssl |-> None, read_only |-> profile # None /\ profile.read_only]
    /\ session = None /\ call = None /\ tool_reply = Ok

\* Argument sets: complete, one missing, none.
Givens == {Required, {}} \cup {Required \ {f} : f \in Required}

\* Unless WhileConnected, connect and the profile tools are called only while
\* nothing is connected, and connects without a profile while none is saved.
ToolNext ==
    \/ /\ WhileConnected \/ session = None
       /\ \E given \in Givens, ssl \in SslTexts, ro \in BOOLEAN \cup {None} :
             \/ \E name \in {"", "p"} : ConnectByProfile(name, given, ssl, ro)
             \/ \E type \in TypeTexts :
                   \/ (WhileConnected \/ profile = None) /\ ConnectAdHoc(given, type, ssl, ro)
                   \/ \E name \in {"", "p"} : SaveConnectionProfile(name, given, type, ssl, ro)
    \/ /\ WhileConnected \/ (session = None /\ profile = None)
       /\ \E type \in Drivers, mode \in Modes \cup {None}, ca_path \in CaPaths :
             ConnectEmbedded(type, mode, ca_path)
    \/ \E server \in Servers : ManagerConnect(server)
    \/ (WhileConnected \/ session = None) /\ \E name \in {"", "p"} : DeleteConnectionProfile(name)
    \/ ListConnectionProfiles \/ ListConnections
    \/ \E id \in IdTexts :
          ListTables(id) \/ DescribeTable(id) \/ ListDatabases(id) \/ ListSchemas(id)
             \/ ExecuteQuery(id) \/ GetConnectionStatus(id) \/ Disconnect(id)

ToolSpec == ToolInit /\ [][ToolNext]_toolVars

-----------------------------------------------------------------------------
(* Properties *)

\* The ClickHouse driver reads ca_path for verify_ca only.
IgnoresCaPath(s) == s.driver = "ClickHouse" /\ s.ca_path # None /\ s.asked.ssl # "verify_ca"

\* The Redis client checks the handshake signature only with the certificate.
SkipsSignature(s) == s.driver = "Redis" /\ s.asked.ssl \in {"preferred", "required"}

\* What a client that wrote this ssl_mode (or none) may rely on: plaintext for
\* preferred if the server has no TLS, proof of the certificate's key on every
\* encrypted link, its chain and its host as the mode says.
Promised(s, link) ==
    /\ s.asked.ssl \notin {"disabled", "preferred"} => link = "encrypted"
    /\ s.asked.ssl = "preferred" /\ s.server.tls => link = "encrypted"
    /\ link = "encrypted" => s.server.key \/ SkipsSignature(s)
    /\ s.asked.ssl \in {"verify_ca", "verify_identity", None} =>
          IF IgnoresCaPath(s) THEN s.server.chain # "none"
          ELSE s.server.chain = IF s.ca_path = None THEN "public" ELSE "private"
    /\ s.asked.ssl \in {"verify_identity", None} => s.server.host

(***************************************************************************)
(* A connection is never weaker than the client asked, whether the         *)
(* arguments came with connect or were saved in a profile earlier and      *)
(* updated since, and whatever server answers: every link the driver opens *)
(* meets what the mode promises, a mode left out counts as verify_identity *)
(* (guardrail 6), and the connection is read_only exactly when that was    *)
(* last asked for.  Three exceptions, where the code does less than the    *)
(* documents say: PostgreSQL's cancel request under preferred, which goes  *)
(* in plaintext to a server with TLS too (cancel_query passes NoTls);      *)
(* Redis under preferred and required, which does not check the handshake  *)
(* signature; and a ca_path on ClickHouse under another mode than          *)
(* verify_ca, which build_http_client does not read, so that the chain may *)
(* end at another authority.                                               *)
(***************************************************************************)
SessionAsAsked ==
    session # None =>
        /\ Promised(session, session.link)
        /\ session.cancel # "refused" /\ session.asked.ssl # "preferred" =>
              Promised(session, session.cancel)
        /\ session.read_only = session.asked.read_only
=============================================================================
