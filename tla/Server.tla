------------------------------- MODULE Server -------------------------------
(***************************************************************************)
(* The process (crates/server/src/main.rs): one McpSession, served either  *)
(* over HTTP or over stdio.  The choice and everything that can go wrong   *)
(* with the configuration come before the first message; a process that    *)
(* refuses its configuration serves nothing.                               *)
(***************************************************************************)
EXTENDS HttpTransport

CONSTANT MaxLines   \* bound on the lines a stdio client sends

VARIABLES serving,      \* starting, http, stdio or exited
          pc, reply,    \* StdioTransport: the loop and the reply it writes
          read, out,    \* StdioTransport: lines read and lines written
          line_audit    \* StdioTransport: audit records of the lines

httpVars == <<limiter, refills, phase, ip, body, outcome, answer, ran, audit, late>>
stdioVars == <<pc, reply, read, out, line_audit>>
serverVars == <<vars, serving, stdioVars>>

Stdio == INSTANCE StdioTransport WITH audit <- line_audit

ASSUME ServerAssumption == MaxLines \in Nat

-----------------------------------------------------------------------------
(* Start-up *)

\* What main reads: the command line and the environment.
Environments ==
    [http : BOOLEAN,
     master_key : {"absent", "valid", "malformed"},
     token : {"absent", "empty", "set"},
     bind : {"free", "taken", "malformed"},
     rate_limit : {"valid", "malformed"}]

\* build_profile_manager: a missing key only disables the profiles.
BuildProfileManager(env) == env.master_key # "malformed"

\* build_http_config: there is no default token.
BuildHttpConfig(env) ==
    env.token = "set" /\ env.bind # "malformed" /\ env.rate_limit = "valid"

\* An address that run_http cannot bind ends the process as well.
Start(env) ==
    /\ serving = "starting"
    /\ serving' = IF ~BuildProfileManager(env) THEN "exited"
                  ELSE IF ~env.http THEN "stdio"
                  ELSE IF BuildHttpConfig(env) /\ env.bind = "free" THEN "http"
                  ELSE "exited"
    /\ UNCHANGED <<vars, stdioVars>>

-----------------------------------------------------------------------------
ServerInit ==
    /\ Init
    /\ Stdio!Init
    /\ serving = "starting"

ServeHttp ==
    /\ serving = "http"
    /\ Next
    /\ UNCHANGED <<serving, stdioVars>>

ServeStdio ==
    /\ serving = "stdio"
    /\ Stdio!Next
    /\ UNCHANGED <<serving, httpVars>>

\* run_stdio returned: end of input, or stdout cannot be written.
StdioReturns ==
    /\ serving = "stdio"
    /\ pc \in {"eof", "failed"}
    /\ serving' = "exited"
    /\ UNCHANGED <<vars, stdioVars>>

ServerNext ==
    \/ \E env \in Environments : Start(env)
    \/ ServeHttp
    \/ ServeStdio
    \/ StdioReturns

ServerSpec == ServerInit /\ [][ServerNext]_serverVars

-----------------------------------------------------------------------------
(* Properties: those of HttpTransport, and *)

(***************************************************************************)
(* Over stdio the session is a sequential service (see StdioTransport).    *)
(***************************************************************************)
SequentialOverStdio == Stdio!SequentialService
=============================================================================
