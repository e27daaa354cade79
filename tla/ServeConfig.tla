----------------------------- MODULE ServeConfig -----------------------------
(***************************************************************************)
(* What server() makes of the command line: which ports the packet filter  *)
(* lets in, which handler OnTCP gives each port, and what the SSH server   *)
(* offers and to whom. All of it is computed before the server starts.     *)
(***************************************************************************)
EXTENDS Integers, Sequences, FiniteSets

CONSTANTS
    Width,     \* bits of a port number
    SSHPort,   \* the port of the SSH server
    Keys       \* public keys of SSH clients

\* The SSH port is neither the first number nor the last.
ASSUME ServeAssumption ==
    Width \in Nat \ {0} /\ 2^Width \in Nat /\ SSHPort \in 1..(2^Width - 2)

Ports == 0..(2^Width - 1)
Services == {"ssh", "no-auth-ssh", "files", "exit-node", "exec"}
SSHServices == {"ssh", "no-auth-ssh"}

\* One element of the list of things to serve: "all", a service, a range of
\* ports, or something that is none of these.
All == [is |-> "all"]
Service(name) == [is |-> "service", name |-> name]
PortRange(a, b) == [is |-> "range", a |-> a, b |-> b]
Unknown == [is |-> "unknown"]

\* A source of --ssh-authorized-keys: whether it could be read, the keys in
\* it, and whether one of them carries options.
Source(ok, keys, options) == [ok |-> ok, keys |-> keys, options |-> options]

\* The command line: what to serve, the command after "--" ("none", "empty",
\* "missing" or "command"), the value of --files ("none", "bad" or a mode),
\* and the sources of authorized keys, in order.
Config(spec, exec, files, sources) ==
    [spec |-> spec, exec |-> exec, files |-> files, sources |-> sources]

\* parsePortSet; a range given backwards is turned round.
ParsedPorts(spec) ==
    UNION {CASE r.is = "all" -> Ports \ {0}
             [] r.is = "range" -> {p \in Ports : r.a <= p /\ p <= r.b}
                                  \cup {p \in Ports : r.b <= p /\ p <= r.a}
             [] OTHER -> {} : r \in spec}
ParsedServices(spec) == {r.name : r \in {x \in spec : x.is = "service"}}

\* The services after the command and --files have added theirs.
ServicesOf(c) ==
    LET named == ParsedServices(c.spec) IN
    named
    \cup (IF c.exec = "command" /\ named \cap SSHServices = {} THEN {"exec"} ELSE {})
    \cup (IF c.files # "none" THEN {"files"} ELSE {})

\* parsedSSHAuthorizedKeys: a source must hold a key, and no options.
ValidKeys(source) == source.ok /\ ~source.options /\ source.keys # {}

\* The reasons for server() to exit before it starts anything.
Fatal(c) ==
    LET services == ServicesOf(c)
        ssh == services \cap SSHServices
    IN \/ \E r \in c.spec : r.is = "unknown"
       \/ c.exec \in {"empty", "missing"}
       \/ c.exec = "none" /\ "exec" \in services
       \/ ssh = SSHServices
       \/ ("ssh" \in ssh) # (c.sources # <<>>)
       \/ ssh # {} /\ c.exec # "none" /\ "files" \in services
       \/ \E i \in DOMAIN c.sources : ~ValidKeys(c.sources[i])
       \/ "files" \in services /\ c.files = "bad"

\* parseFilesFlag: no value means read-only.
parseFilesFlag(files) == IF files = "none" THEN "RO" ELSE files

\* One pass of portRanges' loop: a port that follows the last range's extends
\* it; Last+1 wraps around.
Extends(ranges, p) ==
    ranges # <<>> /\ (ranges[Len(ranges)].Last + 1) % 2^Width = p
Put(ranges, p) ==
    IF Extends(ranges, p)
    THEN [ranges EXCEPT ![Len(ranges)].Last = p]
    ELSE Append(ranges, [First |-> p, Last |-> p])

\* Bug: Last is not moved when a port extends the range.
PutShort(ranges, p) ==
    IF Extends(ranges, p)
    THEN ranges ELSE Append(ranges, [First |-> p, Last |-> p])
portRangesShort(list) ==
    LET ret[i \in 0..Len(list)] ==
            IF i = 0 THEN <<>> ELSE PutShort(ret[i - 1], list[i])
    IN ret[Len(list)]

\* portRanges of the served ports: the ranges after the last of the list.
portRanges(list) ==
    LET ret[i \in 0..Len(list)] ==
            IF i = 0 THEN <<>> ELSE Put(ret[i - 1], list[i])
    IN ret[Len(list)]

\* The list: the ports in order, with the SSH port put in front of them.
PortList(ports, ssh) ==
    LET sorted == [i \in 1..Cardinality(ports) |->
                     CHOOSE p \in ports : Cardinality({q \in ports : q < p}) = i - 1]
    IN IF ssh /\ SSHPort \notin ports THEN <<SSHPort>> \o sorted ELSE sorted

\* The Server that server() configures: the port set, the services, the
\* ranges in the packet filter (none lets every port in) and the SSHOptions.
Configured(c) ==
    LET services == ServicesOf(c)
        ports == ParsedPorts(c.spec)
        shell == services \cap SSHServices # {}
        ssh == shell \/ "files" \in services
        oneShot == ports = {} /\ services = {}
        forced == shell /\ c.exec = "command"
    IN [portSet |-> ports, services |-> services, oneShot |-> oneShot,
        command |-> c.exec = "command",
        ranges |-> IF oneShot \/ services \cap {"exit-node", "exec"} # {}
                   THEN <<>> ELSE portRanges(PortList(ports, ssh)),
        ssh |-> ssh,
        opts |-> [Shell |-> shell, Exec |-> forced,
                  Files |-> IF "files" \in services THEN parseFilesFlag(c.files) ELSE "nil",
                  AuthorizedKeys |-> c.sources # <<>>,
                  Allowed |-> UNION {c.sources[i].keys : i \in DOMAIN c.sources}]]

\* The packet filter built from ServedTCPPorts.
FilterAdmits(srv, p) ==
    \/ srv.ranges = <<>>
    \/ \E i \in DOMAIN srv.ranges :
          srv.ranges[i].First <= p /\ p <= srv.ranges[i].Last

\* OnTCP: the handler for a connection to port p, or "none" for a reset.
OnTCP(srv, p) ==
    IF p = SSHPort /\ srv.ssh THEN "ssh"
    ELSE IF p \in srv.portSet THEN "forward"
    ELSE IF "exec" \in srv.services THEN "exec"
    ELSE IF "exit-node" \in srv.services THEN "forward"
    ELSE IF srv.oneShot THEN "stdout"
    ELSE "none"

-----------------------------------------------------------------------------
(* SSHConnHandler.                                                         *)

\* Bug: a forced command leaves the SFTP subsystem in place.
EffectiveOptionsSFTP(opts) == opts

\* The forced command excludes everything else.
EffectiveOptions(opts) ==
    IF opts.Exec THEN [opts EXCEPT !.Shell = FALSE, !.Files = "nil"] ELSE opts

\* The session handler, and sftpSubsystemHandler.
SessionHandler(opts) ==
    IF opts.Exec THEN "forced" ELSE IF opts.Shell THEN "shell" ELSE "refuse"
SFTPHandler(opts) ==
    IF opts.Files # "nil" THEN "rooted" ELSE IF opts.Shell THEN "full" ELSE "none"

\* sshPublicKeyHandler; without authorized keys anyone is let in.
Authenticates(opts, key) == opts.AuthorizedKeys => key \in opts.Allowed
=============================================================================
