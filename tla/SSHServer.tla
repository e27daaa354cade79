------------------------------ MODULE SSHServer ------------------------------
(***************************************************************************)
(* The server process of the command line with its SSH service: the        *)
(* configuration it starts with, the host key it shares between            *)
(* connections through a file, authentication, and what a session request  *)
(* is answered with. The process may die at any point and be started       *)
(* again, with another configuration; the host key file survives.          *)
(***************************************************************************)
EXTENDS ServeConfig

CONSTANTS
    Configs,   \* the command lines considered
    Conns,     \* connections, each from a peer of its own
    Inherited, \* TAILCAT_PEER_KEY in the server's own environment, or "none"
    Platforms, \* the builds considered: their sessions' environments differ
    MaxKeys    \* bound: host keys ever generated

ASSUME SSHServerAssumption ==
    /\ "free" \notin Conns
    /\ MaxKeys \in Nat
    /\ Inherited \notin {"client's", "peer's"}
    /\ Platforms \subseteq {"unix", "windows"}
    /\ \A c \in Configs :
          /\ c.files \in {"none", "bad", "RO", "RW", "WO", "WOPlus"}
          /\ ParsedServices(c.spec) \subseteq Services

VARIABLES
    srv,       \* the configured Server, or Down
    file,      \* ssh_host_ed25519_key: Absent, Torn or the number of a key
    mu,        \* hostKeyMu: the connection that holds it, or "free"
    generated, \* number of host keys generated so far
    at,        \* where each connection's handler is
    key,       \* the key each client offers
    known,     \* whether peerByIP still knows each connection's peer
    host,      \* the host key of each connection, Torn before there is one
    ran,       \* what the last session request of each connection ran
    env,       \* TAILCAT_PEER_KEY in that process's environment
    presented  \* history: the host keys ever shown to a client

vars == <<srv, file, mu, generated, at, key, known, host, ran, env, presented>>
conn == <<at, key, known, host, ran, env>>

Down == [is |-> "down"]
Absent == -1
Torn == 0

At == {"none", "lock", "read", "truncate", "write", "parse", "auth", "session",
       "proxied", "closed"}
Ran == {"none", "login shell", "client command", "forced", "refused",
        "rooted sftp", "full sftp", "rejected"}

Each(v) == [c \in Conns |-> v]

Init ==
    /\ srv = Down
    /\ file = Absent
    /\ mu = "free"
    /\ generated = 0
    /\ at = Each("none")
    /\ key \in [Conns -> Keys]
    /\ known = Each(TRUE)
    /\ host = Each(Torn)
    /\ ran = Each("none")
    /\ env = Each("none")
    /\ presented = {}

Up == srv # Down

-----------------------------------------------------------------------------
(* The process.                                                            *)

\* server() either exits over its arguments or serves them.
Servers == {Configured(c) : c \in {x \in Configs : ~Fatal(x)}}

Serve ==
    /\ ~Up
    /\ srv' \in Servers
    /\ UNCHANGED <<file, mu, generated, conn, presented>>

\* The process dies, and with it every connection and the mutex.
Dies ==
    /\ Up
    /\ srv' = Down
    /\ mu' = "free"
    /\ at' = Each("none")
    /\ known' = Each(TRUE)
    /\ host' = Each(Torn)
    /\ ran' = Each("none")
    /\ env' = Each("none")
    /\ UNCHANGED <<file, generated, key, presented>>

-----------------------------------------------------------------------------
(* A connection to port p, let through by the filter, is given to OnTCP's  *)
(* handler; the SSH one begins with getHostKeys.                           *)

Dial(c, p) ==
    /\ Up
    /\ at[c] = "none"
    /\ FilterAdmits(srv, p)
    /\ at' = [at EXCEPT ![c] = CASE OnTCP(srv, p) = "ssh" -> "lock"
                                 [] OnTCP(srv, p) = "none" -> "closed"
                                 [] OTHER -> "proxied"]
    /\ UNCHANGED <<srv, file, mu, generated, key, known, host, ran, env, presented>>

\* Bug: hostKeyFileOrCreate does not take the mutex.
LockNot(c) ==
    /\ at[c] = "lock"
    /\ at' = [at EXCEPT ![c] = "read"]
    /\ UNCHANGED <<srv, file, mu, generated, key, known, host, ran, env, presented>>

Lock(c) ==
    /\ at[c] = "lock"
    /\ mu = "free"
    /\ mu' = c
    /\ at' = [at EXCEPT ![c] = "read"]
    /\ UNCHANGED <<srv, file, generated, key, known, host, ran, env, presented>>

\* ReadFile finds the key, or finds none and one is generated. A file cut
\* short is read like any other.
ReadHostKey(c) ==
    /\ at[c] = "read"
    /\ \/ /\ file # Absent
          /\ host' = [host EXCEPT ![c] = file]
          /\ at' = [at EXCEPT ![c] = "parse"]
          /\ mu' = "free"
          /\ UNCHANGED generated
       \/ /\ file = Absent
          /\ generated < MaxKeys
          /\ generated' = generated + 1
          /\ host' = [host EXCEPT ![c] = generated + 1]
          /\ at' = [at EXCEPT ![c] = "truncate"]
          /\ UNCHANGED mu
    /\ UNCHANGED <<srv, file, key, known, ran, env, presented>>

\* WriteFile creates the file, then writes it, and may fail after the first.
CreateHostKey(c) ==
    /\ at[c] = "truncate"
    /\ file' = Torn
    /\ at' = [at EXCEPT ![c] = "write"]
    /\ UNCHANGED <<srv, mu, generated, key, known, host, ran, env, presented>>

WriteHostKey(c) ==
    /\ at[c] = "write"
    /\ mu' = "free"
    /\ \/ file' = host[c] /\ at' = [at EXCEPT ![c] = "parse"] /\ UNCHANGED host
       \/ /\ host' = [host EXCEPT ![c] = Torn]
          /\ at' = [at EXCEPT ![c] = "closed"]
          /\ UNCHANGED file
    /\ UNCHANGED <<srv, generated, key, known, ran, env, presented>>

\* ParsePrivateKey; without a host key the connection is closed. With one
\* the handshake shows it to the client.
ParseHostKey(c) ==
    /\ at[c] = "parse"
    /\ at' = [at EXCEPT ![c] = IF host[c] = Torn THEN "closed" ELSE "auth"]
    /\ presented' = presented \cup ({host[c]} \ {Torn})
    /\ UNCHANGED <<srv, file, mu, generated, key, known, host, ran, env>>

Authenticate(c) ==
    /\ at[c] = "auth"
    /\ at' = [at EXCEPT ![c] =
                IF Authenticates(srv.opts, key[c]) THEN "session" ELSE "closed"]
    /\ UNCHANGED <<srv, file, mu, generated, key, known, host, ran, env, presented>>

-----------------------------------------------------------------------------
(* Session requests, any number of them on an authenticated connection.    *)

\* Bug: everything the client sends is put in the environment.
acceptEnvPairAny(name) == TRUE

acceptEnvPair(name) == name \in {"TERM", "LANG", "LC_"}

\* newSessionCommand begins with a minimal environment on Unix, and with
\* all of the server's own on Windows.
newSessionCommandEnv(os) == IF os = "windows" THEN Inherited ELSE "none"

\* TAILCAT_PEER_KEY after the variables have been appended in each handler's
\* order, the last one winning; a forced command always begins with the
\* server's own environment. PeerEnv and peerKeyForSession leave the peer's
\* key out when the peer is not known any more.
SessionEnv(c, handler, os, names) ==
    LET client == "TAILCAT_PEER_KEY" \in names /\ acceptEnvPair("TAILCAT_PEER_KEY")
    IN IF handler = "forced"
       THEN IF client THEN "client's" ELSE IF known[c] THEN "peer's" ELSE Inherited
       ELSE IF known[c] THEN "peer's" ELSE IF client THEN "client's"
            ELSE newSessionCommandEnv(os)

\* A shell or exec request: the client's command, or "" for a shell.
RequestSession(c) ==
    /\ at[c] = "session"
    /\ \E raw \in {"", "command"}, os \in Platforms,
          names \in {{"LANG"}, {"TAILCAT_PEER_KEY"}} :
          LET handler == SessionHandler(EffectiveOptions(srv.opts)) IN
          /\ ran' = [ran EXCEPT ![c] =
                       CASE handler = "forced" -> "forced"
                         [] handler = "refuse" -> "refused"
                         [] handler = "shell" ->
                              IF raw = "" THEN "login shell" ELSE "client command"]
          /\ env' = [env EXCEPT ![c] =
                       IF handler = "refuse" THEN "none"
                       ELSE SessionEnv(c, handler, os, names)]
    /\ UNCHANGED <<srv, file, mu, generated, at, key, known, host, presented>>

RequestSFTP(c) ==
    /\ at[c] = "session"
    /\ ran' = [ran EXCEPT ![c] =
                 CASE SFTPHandler(EffectiveOptions(srv.opts)) = "rooted" -> "rooted sftp"
                   [] SFTPHandler(EffectiveOptions(srv.opts)) = "full" -> "full sftp"
                   [] OTHER -> "rejected"]
    /\ env' = [env EXCEPT ![c] = "none"]
    /\ UNCHANGED <<srv, file, mu, generated, at, key, known, host, presented>>

\* The peer is retired while its connection is still being served.
Retire(c) ==
    /\ at[c] # "none"
    /\ known[c]
    /\ known' = [known EXCEPT ![c] = FALSE]
    /\ UNCHANGED <<srv, file, mu, generated, at, key, host, ran, env, presented>>

Next ==
    \/ Serve
    \/ Dies
    \/ \E c \in Conns :
          \/ \E p \in Ports : Dial(c, p)
          \/ Lock(c)
          \/ ReadHostKey(c)
          \/ CreateHostKey(c)
          \/ WriteHostKey(c)
          \/ ParseHostKey(c)
          \/ Authenticate(c)
          \/ RequestSession(c)
          \/ RequestSFTP(c)
          \/ Retire(c)

Spec == Init /\ [][Next]_vars

-----------------------------------------------------------------------------
(* Properties.                                                             *)

\* The values every variable can hold.
TypeOK ==
    /\ file \in Absent..MaxKeys
    /\ mu \in {"free"} \cup Conns
    /\ generated \in 0..MaxKeys
    /\ at \in [Conns -> At]
    /\ key \in [Conns -> Keys]
    /\ known \in [Conns -> BOOLEAN]
    /\ host \in [Conns -> 0..MaxKeys]
    /\ ran \in [Conns -> Ran]
    /\ env \in [Conns -> {"none", "peer's", "client's", Inherited}]
    /\ presented \subseteq 1..MaxKeys

\* The packet filter built from ServedTCPPorts and the gate in OnTCP, which
\* are computed apart from each other, let the same ports in: tightening the
\* filter takes no served port away and leaves none open (server, portRanges).
FilterMatchesGate ==
    Up => \A p \in Ports : FilterAdmits(srv, p) <=> OnTCP(srv, p) # "none"

\* A session runs only what the command line asked for, and only for whom:
\* with an SSH service and a command after "--" nothing but that command, no
\* shell and no files; a shell or the whole file system only with an SSH
\* service and no command; the served directory only if "files" is served;
\* and with the "ssh" service nothing at all without an authorized key
\* (SSHConnHandler, sshPublicKeyHandler, server).
OnlyWhatIsServed ==
    \A c \in Conns :
        /\ ran[c] # "none" /\ srv.command /\ srv.services \cap SSHServices # {} =>
              ran[c] \in {"forced", "rejected"}
        /\ ran[c] \in {"login shell", "client command", "full sftp"} =>
              srv.services \cap SSHServices # {} /\ ~srv.command
        /\ ran[c] = "full sftp" => "files" \notin srv.services
        /\ ran[c] = "rooted sftp" => "files" \in srv.services
        /\ ran[c] = "forced" => srv.command
        /\ ran[c] # "none" /\ "ssh" \in srv.services =>
              key[c] \in srv.opts.Allowed

\* No two clients are ever shown different host keys, whichever of their
\* connections generated it and however often the process died meanwhile
\* (hostKeyFileOrCreate).
HostKeyStable == Cardinality(presented) <= 1

\* What started the process of a session with TAILCAT_PEER_KEY.
Started == {"login shell", "client command", "forced"}

\* What a client sends never becomes TAILCAT_PEER_KEY, and the process of a
\* peer that is still known has the key that the tunnel authenticated. Only
\* for a peer retired before its session began does that key stay out, and
\* then a process that begins with the server's own environment finds there
\* whatever the server's names, if it names a peer (execSessionHandler,
\* sessionHandler, newSessionCommand).
PeerKeyTruthful ==
    \A c \in Conns :
        /\ env[c] \in {"none", "peer's", Inherited}
        /\ known[c] /\ ran[c] \in Started => env[c] = "peer's"
=============================================================================
