------------------------------ MODULE SSHProofs ------------------------------
(***************************************************************************)
(* Proofs about the SSH service: first SSHServer, for every set of command *)
(* lines, any number of connections, and a process that dies and is        *)
(* started again, with the same or another command line, at any point;     *)
(* then DropBox, for any number of sessions, workers and names.            *)
(***************************************************************************)
EXTENDS SSHServer, DropBox, FiniteSetTheorems, SequenceTheorems,
        WellFoundedInduction, TLAPS

-----------------------------------------------------------------------------
(* The server.                                                             *)

\* A server runs with a command line that server() accepts, and every
\* connection belongs to the process that runs.
Serving ==
    /\ srv \in Servers \cup {Down}
    /\ ~Up => \A c \in Conns : at[c] = "none"

\* hostKeyMu is held from before the key file is read until the key in it, or
\* the new one, is known.
MutexHeld ==
    \A c \in Conns : at[c] \in {"read", "truncate", "write"} => mu = c

\* The key file is created once. A key that a connection goes on with is the
\* one in the file, and so is the only one that was ever shown.
KeyFile ==
    /\ \A c \in Conns :
          /\ at[c] = "truncate" => file = Absent
          /\ at[c] = "write" => file = Torn
          /\ at[c] = "parse" => file # Absent /\ host[c] \in {Torn, file}
          /\ at[c] \in {"truncate", "write"} => host[c] # Torn
    /\ presented \subseteq {file} \ {Absent, Torn}

\* Sessions belong to clients that sshPublicKeyHandler let in, and nothing
\* runs outside of a session.
Authorized ==
    \A c \in Conns :
        /\ at[c] = "session" => Authenticates(srv.opts, key[c])
        /\ ran[c] # "none" => at[c] = "session"

\* The inductive invariant from which the theorems follow.
IInv ==
    /\ TypeOK /\ Serving /\ MutexHeld /\ KeyFile
    /\ Authorized /\ OnlyWhatIsServed /\ PeerKeyTruthful

-----------------------------------------------------------------------------
(* What server() configures.                                               *)

\* The services that the command line names, and the SSH options and handlers
\* that follow from them, agree.
LEMMA ServersFacts ==
    ASSUME NEW s \in Servers
    PROVE  /\ s.opts.Shell <=> s.services \cap SSHServices # {}
           /\ s.opts.Exec <=> s.opts.Shell /\ s.command
           /\ s.opts.Files # "nil" <=> "files" \in s.services
           /\ "ssh" \in s.services => s.opts.AuthorizedKeys
<1>1. PICK c \in Configs : ~Fatal(c) /\ s = Configured(c)
  BY DEF Servers
<1>2. /\ s.services = ServicesOf(c)
      /\ s.opts.Shell = (ServicesOf(c) \cap SSHServices # {})
      /\ s.opts.Exec = (ServicesOf(c) \cap SSHServices # {} /\ c.exec = "command")
      /\ s.command = (c.exec = "command")
      /\ s.opts.Files = IF "files" \in ServicesOf(c) THEN parseFilesFlag(c.files)
                                                     ELSE "nil"
      /\ s.opts.AuthorizedKeys = (c.sources # <<>>)
  BY <1>1 DEF Configured
<1>3. parseFilesFlag(c.files) # "nil"
  BY SSHServerAssumption DEF parseFilesFlag
<1>4. "ssh" \in ServicesOf(c) => c.sources # <<>>
  BY <1>1 DEF Fatal, SSHServices
<1> QED BY <1>2, <1>3, <1>4

\* The options of a configured server have these fields.
LEMMA ServersRecords ==
    ASSUME NEW s \in Servers
    PROVE  DOMAIN s.opts = {"Shell", "Exec", "Files", "AuthorizedKeys", "Allowed"}
BY DEF Servers, Configured

\* What a session of such a server is answered with.
LEMMA HandlerFacts ==
    ASSUME NEW s \in Servers
    PROVE  LET opts == EffectiveOptions(s.opts) IN
           /\ s.command /\ s.services \cap SSHServices # {} =>
                 SessionHandler(opts) = "forced" /\ SFTPHandler(opts) = "none"
           /\ SessionHandler(opts) = "forced" => s.command
           /\ SessionHandler(opts) = "shell" =>
                 s.services \cap SSHServices # {} /\ ~s.command
           /\ SFTPHandler(opts) = "full" =>
                 /\ s.services \cap SSHServices # {} /\ ~s.command
                 /\ "files" \notin s.services
           /\ SFTPHandler(opts) = "rooted" => "files" \in s.services
<1> DEFINE opts == EffectiveOptions(s.opts)
<1>1. CASE s.opts.Exec
  <2>1. opts = [s.opts EXCEPT !.Shell = FALSE, !.Files = "nil"]
    BY <1>1 DEF EffectiveOptions
  <2>2. opts.Exec /\ ~opts.Shell /\ opts.Files = "nil"
    BY <1>1, <2>1
  <2> QED BY <1>1, <2>2, ServersFacts DEF SessionHandler, SFTPHandler
<1>2. CASE ~s.opts.Exec
  BY <1>2, ServersFacts DEF EffectiveOptions, SessionHandler, SFTPHandler
<1> QED BY <1>1, <1>2

\* What a client sends is not taken for TAILCAT_PEER_KEY, and a peer that is
\* known is named.
LEMMA ClientCannotName ==
    ASSUME NEW c, NEW handler, NEW os, NEW names
    PROVE  /\ SessionEnv(c, handler, os, names) \in {"none", "peer's", Inherited}
           /\ known[c] => SessionEnv(c, handler, os, names) = "peer's"
BY DEF SessionEnv, newSessionCommandEnv, acceptEnvPair

-----------------------------------------------------------------------------
(* The initial states, and each action, establish the invariant.           *)

\* The marks that stand for no key.
LEMMA FileFacts == Absent \in Int /\ Torn \in Int /\ Absent = -1 /\ Torn = 0
BY DEF Absent, Torn

\* No server runs, and there is no key file.
LEMMA InitIInv == Init => IInv
<1> SUFFICES ASSUME Init PROVE IInv
  OBVIOUS
<1> USE SSHServerAssumption DEF Init, Each
<1>1. TypeOK
  <2>1. 0 \in 0..MaxKeys /\ -1 \in -1..MaxKeys
    OBVIOUS
  <2> QED BY <2>1 DEF TypeOK, At, Ran, Absent, Torn
<1>2. Serving /\ MutexHeld /\ Authorized /\ PeerKeyTruthful
  BY DEF Serving, MutexHeld, Authorized, PeerKeyTruthful, Started
<1>3. KeyFile
  BY DEF KeyFile
<1>4. OnlyWhatIsServed
  BY DEF OnlyWhatIsServed
<1> QED BY <1>1, <1>2, <1>3, <1>4 DEF IInv

\* A server starts.
LEMMA ServeIInv ==
    ASSUME IInv, Serve
    PROVE  IInv'
<1> USE DEF IInv, Serve, Up, conn
<1>1. Serving'
  BY DEF Serving
<1>2. Authorized'
  BY DEF Authorized, Serving
<1>3. OnlyWhatIsServed'
  BY DEF OnlyWhatIsServed, Serving, Authorized
<1>4. TypeOK' /\ MutexHeld' /\ KeyFile' /\ PeerKeyTruthful'
  BY DEF TypeOK, MutexHeld, KeyFile, PeerKeyTruthful
<1> QED BY <1>1, <1>2, <1>3, <1>4

\* The process dies; the key file remains.
LEMMA DiesIInv ==
    ASSUME IInv, Dies
    PROVE  IInv'
<1> USE SSHServerAssumption, FileFacts DEF IInv, Dies, Each, Up
<1>1. TypeOK'
  <2>1. 0 \in 0..MaxKeys
    OBVIOUS
  <2>2. host' \in [Conns -> 0..MaxKeys]
    BY <2>1
  <2>3. env' \in [Conns -> {"none", "peer's", "client's", Inherited}]
    OBVIOUS
  <2> QED BY <2>2, <2>3 DEF TypeOK, At, Ran
<1>2. Serving'
  BY DEF Serving
<1>3. MutexHeld'
  BY DEF MutexHeld
<1>4. KeyFile'
  BY DEF KeyFile
<1>5. Authorized'
  BY DEF Authorized
<1>6. OnlyWhatIsServed'
  BY DEF OnlyWhatIsServed
<1>7. PeerKeyTruthful'
  BY DEF PeerKeyTruthful, Started
<1> QED BY <1>1, <1>2, <1>3, <1>4, <1>5, <1>6, <1>7

\* A connection goes to the handler of its port.
LEMMA DialIInv ==
    ASSUME IInv, NEW c \in Conns, NEW p \in Ports, Dial(c, p)
    PROVE  IInv'
<1> USE DEF IInv, Dial, Up
<1>1. TypeOK'
  BY DEF TypeOK, At
<1>2. Serving'
  BY DEF Serving
<1>3. MutexHeld'
  BY DEF MutexHeld
<1>4. KeyFile'
  BY DEF KeyFile
<1>5. Authorized'
  BY DEF Authorized
<1>6. OnlyWhatIsServed'
  BY DEF OnlyWhatIsServed
<1>7. PeerKeyTruthful'
  BY DEF PeerKeyTruthful
<1> QED BY <1>1, <1>2, <1>3, <1>4, <1>5, <1>6, <1>7

\* The mutex is taken when nobody holds it.
LEMMA LockIInv ==
    ASSUME IInv, NEW c \in Conns, Lock(c)
    PROVE  IInv'
<1> USE SSHServerAssumption DEF IInv, Lock
<1>1. TypeOK'
  BY DEF TypeOK, At
<1>2. Serving'
  BY DEF Serving, Up
<1>3. MutexHeld'
  BY DEF MutexHeld
<1>4. KeyFile'
  BY DEF KeyFile
<1>5. Authorized'
  BY DEF Authorized
<1>6. OnlyWhatIsServed' /\ PeerKeyTruthful'
  BY DEF OnlyWhatIsServed, PeerKeyTruthful
<1> QED BY <1>1, <1>2, <1>3, <1>4, <1>5, <1>6

\* The file's key is taken, or a new one made when there is no file.
LEMMA ReadHostKeyIInv ==
    ASSUME IInv, NEW c \in Conns, ReadHostKey(c)
    PROVE  IInv'
<1> USE SSHServerAssumption, FileFacts DEF IInv, ReadHostKey
<1>1. TypeOK'
  BY DEF TypeOK, At
<1>2. Serving'
  BY DEF Serving, Up
<1>3. MutexHeld'
  BY DEF MutexHeld, TypeOK
<1>4. KeyFile'
  BY DEF KeyFile, TypeOK
<1>5. Authorized'
  BY DEF Authorized, TypeOK
<1>6. OnlyWhatIsServed' /\ PeerKeyTruthful'
  BY DEF OnlyWhatIsServed, PeerKeyTruthful
<1> QED BY <1>1, <1>2, <1>3, <1>4, <1>5, <1>6

\* The file appears, empty; nobody has seen a key yet.
LEMMA CreateHostKeyIInv ==
    ASSUME IInv, NEW c \in Conns, CreateHostKey(c)
    PROVE  IInv'
<1> USE SSHServerAssumption, FileFacts DEF IInv, CreateHostKey
<1>1. TypeOK'
  BY DEF TypeOK, At
<1>2. Serving'
  BY DEF Serving, Up
<1>3. MutexHeld'
  BY DEF MutexHeld
<1>4. KeyFile'
  BY DEF KeyFile, TypeOK, MutexHeld
<1>5. Authorized'
  BY DEF Authorized
<1>6. OnlyWhatIsServed' /\ PeerKeyTruthful'
  BY DEF OnlyWhatIsServed, PeerKeyTruthful
<1> QED BY <1>1, <1>2, <1>3, <1>4, <1>5, <1>6

\* The key is written, or the file stays cut short for good.
LEMMA WriteHostKeyIInv ==
    ASSUME IInv, NEW c \in Conns, WriteHostKey(c)
    PROVE  IInv'
<1> USE SSHServerAssumption, FileFacts DEF IInv, WriteHostKey
<1>1. TypeOK'
  BY DEF TypeOK, At
<1>2. Serving'
  BY DEF Serving, Up
<1>3. MutexHeld'
  BY DEF MutexHeld, TypeOK
<1>4. KeyFile'
  BY DEF KeyFile, TypeOK, MutexHeld
<1>5. Authorized'
  BY DEF Authorized, TypeOK
<1>6. OnlyWhatIsServed' /\ PeerKeyTruthful'
  BY DEF OnlyWhatIsServed, PeerKeyTruthful
<1> QED BY <1>1, <1>2, <1>3, <1>4, <1>5, <1>6

\* The key in the file is shown to the client.
LEMMA ParseHostKeyIInv ==
    ASSUME IInv, NEW c \in Conns, ParseHostKey(c)
    PROVE  IInv'
<1> USE FileFacts DEF IInv, ParseHostKey
<1>1. TypeOK'
  <2>1. host[c] \in 0..MaxKeys
    BY DEF TypeOK
  <2>2. {host[c]} \ {Torn} \subseteq 1..MaxKeys
    BY <2>1
  <2>3. presented' \subseteq 1..MaxKeys
    BY <2>2 DEF TypeOK
  <2>4. at' \in [Conns -> At]
    BY DEF TypeOK, At
  <2> QED BY <2>3, <2>4 DEF TypeOK
<1>2. Serving'
  BY DEF Serving, Up
<1>3. MutexHeld'
  BY DEF MutexHeld
<1>4. KeyFile'
  BY DEF KeyFile
<1>5. Authorized'
  BY DEF Authorized
<1>6. OnlyWhatIsServed' /\ PeerKeyTruthful'
  BY DEF OnlyWhatIsServed, PeerKeyTruthful
<1> QED BY <1>1, <1>2, <1>3, <1>4, <1>5, <1>6

\* Only an authorized key leads to a session.
LEMMA AuthenticateIInv ==
    ASSUME IInv, NEW c \in Conns, Authenticate(c)
    PROVE  IInv'
<1> USE DEF IInv, Authenticate
<1>1. TypeOK'
  BY DEF TypeOK, At
<1>2. Serving'
  BY DEF Serving, Up
<1>3. MutexHeld'
  BY DEF MutexHeld
<1>4. KeyFile'
  BY DEF KeyFile
<1>5. Authorized'
  BY DEF Authorized
<1>6. OnlyWhatIsServed' /\ PeerKeyTruthful'
  BY DEF OnlyWhatIsServed, PeerKeyTruthful
<1> QED BY <1>1, <1>2, <1>3, <1>4, <1>5, <1>6

\* The peer is forgotten; its connection goes on.
LEMMA RetireIInv ==
    ASSUME IInv, NEW c \in Conns, Retire(c)
    PROVE  IInv'
<1> USE DEF IInv, Retire
<1>1. TypeOK'
  BY DEF TypeOK
<1>2. Serving' /\ MutexHeld' /\ KeyFile' /\ Authorized' /\ OnlyWhatIsServed'
  BY DEF Serving, Up, MutexHeld, KeyFile, Authorized, OnlyWhatIsServed
<1>3. PeerKeyTruthful'
  BY DEF PeerKeyTruthful, TypeOK
<1> QED BY <1>1, <1>2, <1>3

\* A session runs what the options of the server that runs say.
LEMMA RequestSessionIInv ==
    ASSUME IInv, NEW c \in Conns, RequestSession(c)
    PROVE  IInv'
<1> USE DEF IInv
<1> DEFINE handler == SessionHandler(EffectiveOptions(srv.opts))
<1>1. PICK raw \in {"", "command"}, os \in Platforms,
           names \in {{"LANG"}, {"TAILCAT_PEER_KEY"}} :
         /\ ran' = [ran EXCEPT ![c] =
                      CASE handler = "forced" -> "forced"
                        [] handler = "refuse" -> "refused"
                        [] handler = "shell" ->
                             IF raw = "" THEN "login shell" ELSE "client command"]
         /\ env' = [env EXCEPT ![c] =
                      IF handler = "refuse" THEN "none"
                      ELSE SessionEnv(c, handler, os, names)]
  BY DEF RequestSession
<1>2. /\ at[c] = "session"
      /\ UNCHANGED <<srv, file, mu, generated, at, key, known, host, presented>>
  BY DEF RequestSession
<1>3. srv \in Servers
  BY <1>2 DEF Serving, Up
<1>4. handler \in {"forced", "shell", "refuse"}
  BY DEF SessionHandler
<1>5. ran' = [ran EXCEPT ![c] = ran'[c]] /\ ran'[c] \in Ran \ {"none", "full sftp", "rooted sftp"}
  BY <1>1, <1>4 DEF TypeOK, Ran
<1>6. /\ ran'[c] = "forced" => srv.command
      /\ ran'[c] \in {"login shell", "client command"} =>
            srv.services \cap SSHServices # {} /\ ~srv.command
      /\ srv.command /\ srv.services \cap SSHServices # {} => ran'[c] = "forced"
  BY <1>1, <1>3, <1>4, HandlerFacts DEF TypeOK
<1>7. "ssh" \in srv.services => key[c] \in srv.opts.Allowed
  BY <1>2, <1>3, ServersFacts DEF Authorized, Authenticates
<1>8. /\ env' = [env EXCEPT ![c] = env'[c]]
      /\ env'[c] \in {"none", "peer's", Inherited}
      /\ known[c] /\ ran'[c] \in Started => env'[c] = "peer's"
  <2>1. env' = [env EXCEPT ![c] = env'[c]]
    BY <1>1 DEF TypeOK
  <2>2. env'[c] = IF handler = "refuse" THEN "none"
                  ELSE SessionEnv(c, handler, os, names)
    BY <1>1 DEF TypeOK
  <2>3. ran'[c] \in Started => handler # "refuse"
    BY <1>1 DEF TypeOK, Started
  <2>4. SessionEnv(c, handler, os, names) \in {"none", "peer's", Inherited}
    BY ClientCannotName
  <2>5. known[c] => SessionEnv(c, handler, os, names) = "peer's"
    BY ClientCannotName
  <2> HIDE DEF handler
  <2> QED BY <2>1, <2>2, <2>3, <2>4, <2>5
<1>9. TypeOK'
  BY <1>2, <1>5, <1>8 DEF TypeOK
<1>10. Serving' /\ MutexHeld' /\ KeyFile'
  BY <1>2 DEF Serving, Up, MutexHeld, KeyFile
<1>11. Authorized'
  BY <1>2, <1>5 DEF Authorized, TypeOK
<1>12. OnlyWhatIsServed'
  BY <1>2, <1>5, <1>6, <1>7 DEF OnlyWhatIsServed, TypeOK
<1>13. PeerKeyTruthful'
  BY <1>2, <1>5, <1>8 DEF PeerKeyTruthful, TypeOK
<1> QED BY <1>9, <1>10, <1>11, <1>12, <1>13

\* The same of the file service.
LEMMA RequestSFTPIInv ==
    ASSUME IInv, NEW c \in Conns, RequestSFTP(c)
    PROVE  IInv'
<1> USE DEF IInv
<1> DEFINE handler == SFTPHandler(EffectiveOptions(srv.opts))
<1>1. /\ at[c] = "session"
      /\ UNCHANGED <<srv, file, mu, generated, at, key, known, host, presented>>
  BY DEF RequestSFTP
<1>2. srv \in Servers
  BY <1>1 DEF Serving, Up
<1>3. /\ ran' = [ran EXCEPT ![c] = ran'[c]]
      /\ \/ handler = "rooted" /\ ran'[c] = "rooted sftp"
         \/ handler = "full" /\ ran'[c] = "full sftp"
         \/ ran'[c] = "rejected"
  BY DEF RequestSFTP, TypeOK
<1>4. "ssh" \in srv.services => key[c] \in srv.opts.Allowed
  BY <1>1, <1>2, ServersFacts DEF Authorized, Authenticates
<1>5. /\ ran'[c] = "full sftp" => /\ srv.services \cap SSHServices # {} /\ ~srv.command
                                  /\ "files" \notin srv.services
      /\ ran'[c] = "rooted sftp" => "files" \in srv.services
      /\ srv.command /\ srv.services \cap SSHServices # {} => ran'[c] = "rejected"
  BY <1>2, <1>3, HandlerFacts
<1>6. env' = [env EXCEPT ![c] = "none"]
  BY DEF RequestSFTP
<1>7. TypeOK'
  BY <1>1, <1>3, <1>6 DEF TypeOK, Ran
<1>8. Serving' /\ MutexHeld' /\ KeyFile'
  BY <1>1 DEF Serving, Up, MutexHeld, KeyFile
<1>9. Authorized'
  BY <1>1, <1>3 DEF Authorized, TypeOK
<1>10. OnlyWhatIsServed'
  BY <1>1, <1>3, <1>4, <1>5 DEF OnlyWhatIsServed, TypeOK
<1>11. PeerKeyTruthful'
  BY <1>1, <1>3, <1>6 DEF PeerKeyTruthful, Started, TypeOK
<1> QED BY <1>7, <1>8, <1>9, <1>10, <1>11

\* Every step preserves the invariant.
LEMMA NextIInv == IInv /\ [Next]_vars => IInv'
<1> SUFFICES ASSUME IInv, [Next]_vars PROVE IInv'
  OBVIOUS
<1>1. ASSUME NEW c \in Conns, NEW p \in Ports, Dial(c, p) PROVE IInv'
  BY <1>1, DialIInv
<1>2. ASSUME NEW c \in Conns,
             \/ Lock(c) \/ ReadHostKey(c) \/ CreateHostKey(c) \/ WriteHostKey(c)
             \/ ParseHostKey(c) \/ Authenticate(c) \/ Retire(c)
             \/ RequestSession(c) \/ RequestSFTP(c)
      PROVE  IInv'
  BY <1>2, LockIInv, ReadHostKeyIInv, CreateHostKeyIInv, WriteHostKeyIInv,
     ParseHostKeyIInv, AuthenticateIInv, RetireIInv, RequestSessionIInv,
     RequestSFTPIInv
<1>3. CASE UNCHANGED vars
  BY <1>3 DEF vars, IInv, TypeOK, Serving, Up, MutexHeld, KeyFile, Authorized,
     OnlyWhatIsServed, PeerKeyTruthful
<1> QED BY <1>1, <1>2, <1>3, ServeIInv, DiesIInv DEF Next

-----------------------------------------------------------------------------
(* The theorems.                                                           *)

\* Every reachable state satisfies the invariant.
THEOREM Invariance == Spec => []IInv
BY InitIInv, NextIInv, PTL DEF Spec

\* Every variable keeps to its type.
THEOREM TypeCorrect == Spec => []TypeOK
<1>1. IInv => TypeOK
  BY DEF IInv
<1> QED BY Invariance, <1>1, PTL

\* No two clients are ever shown different host keys, however many connections
\* find no key file at once and wherever in hostKeyFileOrCreate the process
\* died.
THEOREM HostKeyStableInvariance == Spec => []HostKeyStable
<1>1. IInv => HostKeyStable
  <2> SUFFICES ASSUME IInv PROVE Cardinality(presented) <= 1
    BY DEF HostKeyStable
  <2>1. presented \subseteq {file}
    BY DEF IInv, KeyFile
  <2>2. IsFiniteSet({file}) /\ Cardinality({file}) = 1
    BY FS_Singleton
  <2>3. Cardinality(presented) <= Cardinality({file})
    BY <2>1, <2>2, FS_Subset
  <2> QED BY <2>2, <2>3
<1> QED BY Invariance, <1>1, PTL

\* hostKeyFileOrCreate never replaces a key that is in the file, neither by
\* another one nor by an empty file.
THEOREM KeyIsForGood == Spec => [][(file \in 1..MaxKeys) => file' = file]_vars
<1>1. ASSUME IInv, [Next]_vars, file \in 1..MaxKeys
      PROVE  file' = file
  <2>1. file # Absent /\ file # Torn
    BY <1>1 DEF Absent, Torn
  <2>2. ASSUME NEW c \in Conns, CreateHostKey(c) \/ WriteHostKey(c)
        PROVE  FALSE
    BY <1>1, <2>1, <2>2 DEF IInv, KeyFile, CreateHostKey, WriteHostKey
  <2>3. CASE Next
    BY <2>2, <2>3 DEF Next, Serve, Dies, Dial, Lock, ReadHostKey, ParseHostKey,
       Authenticate, RequestSession, RequestSFTP, Retire
  <2>4. CASE UNCHANGED vars
    BY <2>4 DEF vars
  <2> QED BY <1>1, <2>3, <2>4
<1>2. IInv /\ [Next]_vars => [(file \in 1..MaxKeys) => file' = file]_vars
  BY <1>1
<1> QED BY Invariance, <1>2, PTL DEF Spec

\* A session runs only what the command line of the process it runs in asked
\* for, and for nobody whose key that command line does not authorize.
THEOREM OnlyWhatIsServedInvariance == Spec => []OnlyWhatIsServed
<1>1. IInv => OnlyWhatIsServed
  BY DEF IInv
<1> QED BY Invariance, <1>1, PTL

\* On every platform, whatever the server's own environment names, and
\* whenever peers are retired: a client's value never becomes
\* TAILCAT_PEER_KEY, and the processes of a peer that is still known have the
\* key that the tunnel authenticated.
THEOREM PeerKeyTruthfulInvariance == Spec => []PeerKeyTruthful
<1>1. IInv => PeerKeyTruthful
  BY DEF IInv
<1> QED BY Invariance, <1>1, PTL

-----------------------------------------------------------------------------
(* The packet filter: what portRanges makes of a list, by induction over   *)
(* its length, and the list it is given.                                   *)

\* Smaller numbers, as a relation.
Smaller == {ss \in Nat \X Nat : ss[1] < ss[2]}

\* A set of numbers that holds 0, and the successor of each number it holds,
\* holds them all.
LEMMA Induction ==
    ASSUME NEW S, 0 \in S, \A n \in Nat : n \in S => n + 1 \in S
    PROVE  Nat \subseteq S
<1> SUFFICES ASSUME Nat \ S # {} PROVE FALSE
  OBVIOUS
<1>1. IsWellFoundedOn(Smaller, Nat)
  BY NatLessThanWellFounded, Zenon DEF Smaller, OpToRel
<1>2. PICK x \in Nat \ S : \A y \in Nat \ S : <<y, x>> \notin Smaller
  <2>1. Nat \ S \subseteq Nat
    OBVIOUS
  <2> QED BY <1>1, <2>1, WFMin
<1>3. \A y \in Nat : y < x => <<y, x>> \in Smaller
  BY DEF Smaller
<1>4. x - 1 \in Nat /\ x - 1 < x /\ (x - 1) + 1 = x
  OBVIOUS
<1>5. x - 1 \in S
  BY <1>2, <1>3, <1>4
<1> QED BY <1>4, <1>5

\* The ranges that portRanges has after each element of the list.
After(list) ==
    LET ret[i \in 0..Len(list)] ==
            IF i = 0 THEN <<>> ELSE Put(ret[i - 1], list[i])
    IN ret

\* The recursion is well defined.
LEMMA AfterDef ==
    ASSUME NEW list, Len(list) \in Nat
    PROVE  /\ portRanges(list) = After(list)[Len(list)]
           /\ After(list)[0] = <<>>
           /\ \A i \in 1..Len(list) : After(list)[i] = Put(After(list)[i - 1], list[i])
<1> DEFINE Is(f, n) == f = [i \in 0..n |-> IF i = 0 THEN <<>> ELSE Put(f[i - 1], list[i])]
           S == {n \in Nat : \E f : Is(f, n)}
<1>1. 0 \in S
  <2>1. Is([i \in 0..0 |-> <<>>], 0)
    OBVIOUS
  <2> QED BY <2>1
<1>2. ASSUME NEW n \in Nat, n \in S PROVE n + 1 \in S
  <2>1. PICK f : Is(f, n)
    BY <1>2
  <2> DEFINE g == [i \in 0..(n + 1) |-> IF i = n + 1 THEN Put(f[n], list[n + 1]) ELSE f[i]]
  <2>2. ASSUME NEW i \in 0..(n + 1)
        PROVE  g[i] = IF i = 0 THEN <<>> ELSE Put(g[i - 1], list[i])
    <3>1. CASE i = n + 1
      BY <3>1
    <3>2. CASE i # n + 1
      <4>1. i \in 0..n /\ g[i] = f[i] /\ (i # 0 => i - 1 \in 0..n /\ g[i - 1] = f[i - 1])
        BY <3>2
      <4> QED BY <2>1, <4>1
    <3> QED BY <3>1, <3>2
  <2>3. Is(g, n + 1)
    BY <2>2
  <2>4. \E h : Is(h, n + 1)
    BY <2>3
  <2> HIDE DEF Is, g
  <2> QED BY <2>4
<1> HIDE DEF S
<1>3. Len(list) \in S
  BY <1>1, <1>2, Induction
<1>4. PICK f : Is(f, Len(list))
  BY <1>3 DEF S
<1>5. After(list) = [i \in 0..Len(list) |->
                       IF i = 0 THEN <<>> ELSE Put(After(list)[i - 1], list[i])]
  BY <1>4, Zenon DEF After
<1>6. portRanges(list) = After(list)[Len(list)]
  BY DEF portRanges, After
<1> HIDE DEF Is
<1> QED BY <1>5, <1>6

\* What the ranges let in.
InRange(ranges, q) ==
    \E i \in DOMAIN ranges : ranges[i].First <= q /\ q <= ranges[i].Last

\* No range is empty.
Ranges == {r \in [First : Ports, Last : Ports] : r.First <= r.Last}

\* Port numbers are numbers, and adding one to a port wraps around at the end.
LEMMA PortFacts ==
    /\ Ports \subseteq Nat
    /\ SSHPort \in Ports
    /\ \A p, q \in Ports : p # 2^Width - 1 \/ q # 0 => ((p + 1) % 2^Width = q <=> q = p + 1)
    /\ (SSHPort + 1) % 2^Width # 0
<1> DEFINE N == 2^Width
<1>1. N \in Nat /\ SSHPort \in 1..(N - 2) /\ Ports = 0..(N - 1)
  BY ServeAssumption DEF Ports
<1> HIDE DEF N
<1>2. \A p \in 0..(N - 1) : (p + 1) % N = IF p = N - 1 THEN 0 ELSE p + 1
  <2> SUFFICES ASSUME NEW p \in 0..(N - 1) PROVE (p + 1) % N = IF p = N - 1 THEN 0 ELSE p + 1
    OBVIOUS
  <2>1. CASE p = N - 1
    BY <1>1, <2>1
  <2>2. CASE p # N - 1
    BY <1>1, <2>2
  <2> QED BY <2>1, <2>2
<1>3. /\ Ports \subseteq Nat
      /\ SSHPort \in Ports
      /\ \A p, q \in Ports : p # N - 1 \/ q # 0 => ((p + 1) % N = q <=> q = p + 1)
      /\ (SSHPort + 1) % N # 0
  BY <1>1, <1>2
<1> QED BY <1>3 DEF N

\* One pass adds the port and nothing else, unless it wraps around.
LEMMA PutCovers ==
    ASSUME NEW r \in Seq(Ranges), NEW p \in Ports,
           r # <<>> => r[Len(r)].Last # 2^Width - 1 \/ p # 0
    PROVE  /\ Put(r, p) \in Seq(Ranges)
           /\ Put(r, p) # <<>>
           /\ Put(r, p)[Len(Put(r, p))].Last = p
           /\ \A q \in Ports : InRange(Put(r, p), q) <=> InRange(r, q) \/ q = p
<1>0. Ports \subseteq Nat
  BY PortFacts
<1>1. CASE Extends(r, p)
  <2> DEFINE n == Len(r)
             s == [r EXCEPT ![n] = [r[n] EXCEPT !.Last = p]]
  <2>1. n \in Nat /\ n \in 1..n /\ r[n] \in Ranges /\ DOMAIN r = 1..n
    BY <1>1 DEF Extends
  <2>2. p = r[n].Last + 1
    <3>1. r[n].Last \in Ports /\ (r[n].Last # 2^Width - 1 \/ p # 0)
      BY <1>1, <2>1 DEF Extends, Ranges
    <3>2. (r[n].Last + 1) % 2^Width = p
      BY <1>1 DEF Extends
    <3> QED BY <3>1, <3>2, PortFacts
  <2>3. Put(r, p) = s
    BY <1>1 DEF Put
  <2>4. s[n] = [First |-> r[n].First, Last |-> p] /\ s[n] \in Ranges
    BY <1>0, <2>1, <2>2 DEF Ranges
  <2>5. s \in Seq(Ranges) /\ Len(s) = n /\ DOMAIN s = 1..n
    BY <2>1, <2>4
  <2>6. ASSUME NEW q \in Ports
        PROVE  InRange(s, q) <=> InRange(r, q) \/ q = p
    <3>1. \A i \in 1..n : i # n => s[i] = r[i]
      BY <2>1
    <3>2. s[n].First <= q /\ q <= s[n].Last <=> (r[n].First <= q /\ q <= r[n].Last) \/ q = p
      BY <1>0, <2>1, <2>2, <2>4 DEF Ranges
    <3> QED BY <2>1, <2>5, <3>1, <3>2 DEF InRange
  <2>7. s # <<>> /\ s[Len(s)].Last = p
    BY <2>1, <2>4, <2>5
  <2> HIDE DEF s
  <2> QED BY <2>3, <2>5, <2>6, <2>7
<1>2. CASE ~Extends(r, p)
  <2> DEFINE e == [First |-> p, Last |-> p]
             s == Append(r, e)
  <2>1. Put(r, p) = s
    BY <1>2 DEF Put
  <2>2. e \in Ranges
    BY <1>0 DEF Ranges
  <2>3. /\ s \in Seq(Ranges) /\ Len(s) = Len(r) + 1 /\ s[Len(r) + 1] = e
        /\ DOMAIN s = 1..(Len(r) + 1) /\ DOMAIN r = 1..Len(r) /\ Len(r) \in Nat
        /\ \A i \in 1..Len(r) : s[i] = r[i]
    BY <2>2
  <2> HIDE DEF s
  <2>4. s # <<>> /\ s[Len(s)].Last = p
    BY <2>3
  <2>5. \A q \in Ports : e.First <= q /\ q <= e.Last <=> q = p
    BY <1>0
  <2> HIDE DEF e
  <2>6. \A q \in Ports : InRange(s, q) <=> InRange(r, q) \/ q = p
    BY <2>3, <2>5 DEF InRange
  <2> QED BY <2>1, <2>3, <2>4, <2>6
<1> QED BY <1>1, <1>2

\* The ranges let in the ports of the list and no others, as long as the number
\* zero does not follow the last one.
LEMMA RangesCover ==
    ASSUME NEW list \in Seq(Ports),
           \A i \in 2..Len(list) : list[i - 1] # 2^Width - 1 \/ list[i] # 0
    PROVE  /\ portRanges(list) \in Seq(Ranges)
           /\ portRanges(list) = <<>> <=> list = <<>>
           /\ \A q \in Ports : InRange(portRanges(list), q) <=>
                                  \E j \in DOMAIN list : list[j] = q
<1> DEFINE Sound(n) ==
             LET r == After(list)[n] IN
             /\ r \in Seq(Ranges)
             /\ r = <<>> <=> n = 0
             /\ n > 0 => r[Len(r)].Last = list[n]
             /\ \A q \in Ports : InRange(r, q) <=> \E j \in 1..n : list[j] = q
           S == {n \in Nat : n <= Len(list) => Sound(n)}
<1>1. Len(list) \in Nat /\ DOMAIN list = 1..Len(list)
  OBVIOUS
<1>2. 0 \in S
  <2>1. After(list)[0] = <<>>
    BY <1>1, AfterDef
  <2>2. Sound(0)
    BY <2>1 DEF InRange
  <2> HIDE DEF Sound
  <2> QED BY <2>2
<1>3. ASSUME NEW n \in Nat, n \in S PROVE n + 1 \in S
  <2> SUFFICES ASSUME n + 1 <= Len(list) PROVE Sound(n + 1)
    OBVIOUS
  <2> DEFINE r == After(list)[n]
             p == list[n + 1]
  <2>1. Sound(n)
    BY <1>1, <1>3
  <2>2. p \in Ports /\ n + 1 \in 1..Len(list)
    BY <1>1
  <2>3. After(list)[n + 1] = Put(r, p)
    BY <1>1, <2>2, AfterDef
  <2>4. r # <<>> => r[Len(r)].Last # 2^Width - 1 \/ p # 0
    <3>1. CASE n = 0
      BY <2>1, <3>1
    <3>2. CASE n > 0
      <4>1. n + 1 \in 2..Len(list) /\ (n + 1) - 1 = n
        BY <1>1, <2>2, <3>2
      <4>2. list[n] # 2^Width - 1 \/ list[n + 1] # 0
        BY <4>1
      <4> QED BY <2>1, <3>2, <4>2
    <3> QED BY <3>1, <3>2
  <2>5. r \in Seq(Ranges)
    BY <2>1
  <2>6. /\ Put(r, p) \in Seq(Ranges)
        /\ Put(r, p) # <<>>
        /\ Put(r, p)[Len(Put(r, p))].Last = p
        /\ \A q \in Ports : InRange(Put(r, p), q) <=> InRange(r, q) \/ q = p
    <3> HIDE DEF r, p
    <3> QED BY <2>2, <2>4, <2>5, PutCovers
  <2>7. \A q : (\E j \in 1..(n + 1) : list[j] = q) <=> (\E j \in 1..n : list[j] = q) \/ q = p
    OBVIOUS
  <2> QED BY <2>1, <2>3, <2>6, <2>7
<1> HIDE DEF S
<1>4. Len(list) \in S
  BY <1>1, <1>2, <1>3, Induction
<1>5. Sound(Len(list))
  BY <1>1, <1>4 DEF S
<1>6. portRanges(list) = After(list)[Len(list)]
  BY <1>1, AfterDef
<1>7. Len(list) = 0 <=> list = <<>>
  OBVIOUS
<1> QED BY <1>1, <1>5, <1>6, <1>7

\* The ports of a set that come before port p, and the set in order.
Below(ports, p) == {q \in ports : q < p}
Sorted(ports) ==
    [i \in 1..Cardinality(ports) |->
        CHOOSE p \in ports : Cardinality(Below(ports, p)) = i - 1]

\* As many ports come before each port as its place in the order says, which is
\* a place of its own.
LEMMA RankFacts ==
    ASSUME NEW ports \in SUBSET Ports
    PROVE  /\ Cardinality(ports) \in Nat
           /\ \A p \in ports : Cardinality(Below(ports, p)) \in 0..(Cardinality(ports) - 1)
           /\ \A p, q \in ports :
                 Cardinality(Below(ports, p)) = Cardinality(Below(ports, q)) => p = q
           /\ \A i \in 1..Cardinality(ports) :
                 \E p \in ports : Cardinality(Below(ports, p)) = i - 1
<1> DEFINE c == Cardinality(ports)
           rank == [p \in ports |-> Cardinality(Below(ports, p))]
<1>1. IsFiniteSet(ports) /\ c \in Nat
  <2>1. IsFiniteSet(0..(2^Width - 1))
    BY ServeAssumption, FS_Interval
  <2> QED BY <2>1, FS_Subset, FS_CardinalityType DEF Ports
<1>2. ASSUME NEW p \in ports
      PROVE  /\ IsFiniteSet(Below(ports, p)) /\ p \notin Below(ports, p)
             /\ Cardinality(Below(ports, p)) \in 0..(c - 1)
  <2>1. p \notin Below(ports, p) /\ Below(ports, p) \subseteq ports \ {p}
    BY PortFacts DEF Below
  <2>2. IsFiniteSet(ports \ {p}) /\ Cardinality(ports \ {p}) = c - 1
    BY <1>1, FS_RemoveElement
  <2>3. /\ IsFiniteSet(Below(ports, p))
        /\ Cardinality(Below(ports, p)) <= c - 1
    BY <2>1, <2>2, FS_Subset
  <2>4. Cardinality(Below(ports, p)) \in Nat
    BY <2>3, FS_CardinalityType
  <2> QED BY <1>1, <2>1, <2>3, <2>4
<1>3. ASSUME NEW p \in ports, NEW q \in ports, p < q
      PROVE  Cardinality(Below(ports, p)) < Cardinality(Below(ports, q))
  <2>1. Below(ports, p) \cup {p} \subseteq Below(ports, q)
    <3>1. ports \subseteq Nat
      BY PortFacts
    <3>2. \A x \in ports : x < p => x < q
      BY <1>3, <3>1
    <3> QED BY <1>3, <3>2 DEF Below
  <2>2. Cardinality(Below(ports, p) \cup {p}) = Cardinality(Below(ports, p)) + 1
    BY <1>2, FS_AddElement
  <2>3. Cardinality(Below(ports, p) \cup {p}) <= Cardinality(Below(ports, q))
    BY <1>2, <2>1, FS_Subset
  <2> QED BY <1>2, <2>2, <2>3
<1>4. ASSUME NEW p \in ports, NEW q \in ports,
             Cardinality(Below(ports, p)) = Cardinality(Below(ports, q))
      PROVE  p = q
  <2>1. p \in Nat /\ q \in Nat
    BY PortFacts
  <2>2. ~(p < q) /\ ~(q < p)
    BY <1>2, <1>3, <1>4
  <2> QED BY <2>1, <2>2
<1>5. rank \in Injection(ports, 0..(c - 1))
  BY <1>2, <1>4 DEF Injection, IsInjective
<1>6. IsFiniteSet(0..(c - 1)) /\ Cardinality(0..(c - 1)) = c
  BY <1>1, FS_Interval
<1>7. rank \in Surjection(ports, 0..(c - 1))
  BY <1>5, <1>6, FS_Injection
<1>8. ASSUME NEW i \in 1..c
      PROVE  \E p \in ports : Cardinality(Below(ports, p)) = i - 1
  <2>1. i - 1 \in 0..(c - 1)
    BY <1>1
  <2>2. PICK p \in ports : rank[p] = i - 1
    BY <1>7, <2>1 DEF Surjection
  <2> QED BY <2>2
<1> QED BY <1>1, <1>2, <1>4, <1>8

\* The order holds every port of the set once, zero first.
LEMMA SortedFacts ==
    ASSUME NEW ports \in SUBSET Ports
    PROVE  /\ Sorted(ports) \in Seq(Ports)
           /\ \A q : (\E j \in DOMAIN Sorted(ports) : Sorted(ports)[j] = q) <=> q \in ports
           /\ \A i \in DOMAIN Sorted(ports) : Sorted(ports)[i] = 0 => i = 1
<1> DEFINE c == Cardinality(ports)
<1>1. c \in Nat /\ DOMAIN Sorted(ports) = 1..c
  BY RankFacts DEF Sorted
<1>2. ASSUME NEW i \in 1..c
      PROVE  Sorted(ports)[i] \in ports /\ Cardinality(Below(ports, Sorted(ports)[i])) = i - 1
  <2>1. \E p \in ports : Cardinality(Below(ports, p)) = i - 1
    BY RankFacts
  <2>2. Sorted(ports)[i] = CHOOSE p \in ports : Cardinality(Below(ports, p)) = i - 1
    BY DEF Sorted
  <2> QED BY <2>1, <2>2
<1>3. Sorted(ports) \in Seq(Ports)
  BY <1>1, <1>2 DEF Sorted
<1>4. ASSUME NEW q \in ports
      PROVE  \E j \in 1..c : Sorted(ports)[j] = q
  <2> DEFINE j == Cardinality(Below(ports, q)) + 1
  <2>1. j \in 1..c /\ j - 1 = Cardinality(Below(ports, q))
    BY <1>1, RankFacts
  <2>2. Sorted(ports)[j] = q
    BY <1>2, <2>1, RankFacts
  <2> QED BY <2>1, <2>2
<1>5. ASSUME NEW i \in 1..c, Sorted(ports)[i] = 0
      PROVE  i = 1
  <2>1. Below(ports, Sorted(ports)[i]) = {}
    <3>1. \A x \in ports : x \in Nat /\ ~(x < 0)
      BY PortFacts
    <3> QED BY <1>5, <3>1 DEF Below
  <2>2. Cardinality(Below(ports, Sorted(ports)[i])) = 0
    BY <2>1, FS_EmptySet
  <2> QED BY <1>1, <1>2, <2>2
<1> QED BY <1>1, <1>2, <1>3, <1>4, <1>5

\* The list that portRanges is given.
LEMMA PortListFacts ==
    ASSUME NEW ports \in SUBSET Ports, NEW ssh \in BOOLEAN
    PROVE  LET list == PortList(ports, ssh) IN
           /\ list \in Seq(Ports)
           /\ \A i \in 2..Len(list) : list[i - 1] # 2^Width - 1 \/ list[i] # 0
           /\ \A q : (\E j \in DOMAIN list : list[j] = q) <=> q \in ports \/ (ssh /\ q = SSHPort)
<1> DEFINE sorted == Sorted(ports)
           list == PortList(ports, ssh)
<1>1. list = IF ssh /\ SSHPort \notin ports THEN <<SSHPort>> \o sorted ELSE sorted
  BY DEF PortList, Sorted, Below
<1>2. /\ sorted \in Seq(Ports)
      /\ \A q : (\E j \in DOMAIN sorted : sorted[j] = q) <=> q \in ports
      /\ \A i \in DOMAIN sorted : sorted[i] = 0 => i = 1
  BY SortedFacts
<1>3. SSHPort \in Ports /\ SSHPort # 2^Width - 1
  BY ServeAssumption DEF Ports
<1> HIDE DEF sorted, list
<1>4. CASE ssh /\ SSHPort \notin ports
  <2> DEFINE l == <<SSHPort>> \o sorted
  <2>1. /\ l \in Seq(Ports) /\ Len(l) = Len(sorted) + 1 /\ Len(sorted) \in Nat
        /\ DOMAIN l = 1..(Len(sorted) + 1) /\ DOMAIN sorted = 1..Len(sorted)
        /\ l[1] = SSHPort
        /\ \A i \in 1..Len(sorted) : l[i + 1] = sorted[i]
    BY <1>2, <1>3
  <2> HIDE DEF l
  <2>2. ASSUME NEW i \in 2..Len(l) PROVE l[i - 1] # 2^Width - 1 \/ l[i] # 0
    <3>1. i - 1 \in 1..Len(sorted) /\ (i - 1) + 1 = i
      BY <2>1
    <3>2. l[i] = sorted[i - 1]
      BY <2>1, <3>1
    <3>3. CASE i = 2
      BY <1>3, <2>1, <3>3
    <3>4. CASE i # 2
      BY <1>2, <2>1, <3>1, <3>2, <3>4
    <3> QED BY <3>3, <3>4
  <2>3. ASSUME NEW q
        PROVE  (\E j \in DOMAIN l : l[j] = q) <=> q \in ports \/ q = SSHPort
    <3>1. ASSUME NEW j \in DOMAIN l PROVE l[j] \in ports \/ l[j] = SSHPort
      <4>1. CASE j = 1
        BY <2>1, <4>1
      <4>2. CASE j # 1
        <5>1. j - 1 \in 1..Len(sorted) /\ (j - 1) + 1 = j
          BY <2>1, <4>2
        <5> QED BY <1>2, <2>1, <5>1
      <4> QED BY <4>1, <4>2
    <3>2. ASSUME q \in ports PROVE \E j \in DOMAIN l : l[j] = q
      <4>1. PICK i \in DOMAIN sorted : sorted[i] = q
        BY <1>2, <3>2
      <4>2. i + 1 \in DOMAIN l /\ l[i + 1] = q
        BY <2>1, <4>1
      <4> QED BY <4>2
    <3>3. 1 \in DOMAIN l /\ l[1] = SSHPort
      BY <2>1
    <3> QED BY <3>1, <3>2, <3>3
  <2>4. list = l
    BY <1>1, <1>4 DEF l
  <2> QED BY <1>4, <2>1, <2>2, <2>3, <2>4 DEF list
<1>5. CASE ~(ssh /\ SSHPort \notin ports)
  <2>1. list = sorted
    BY <1>1, <1>5
  <2>2. ASSUME NEW i \in 2..Len(sorted) PROVE sorted[i] # 0
    <3>1. i \in DOMAIN sorted /\ i # 1
      BY <1>2
    <3> QED BY <1>2, <3>1
  <2> QED BY <1>2, <1>5, <2>1, <2>2 DEF list
<1> QED BY <1>4, <1>5

\* The ports that OnTCP has a handler for.
LEMMA OnTCPFacts ==
    ASSUME NEW s, NEW p
    PROVE  OnTCP(s, p) # "none" <=>
             \/ p = SSHPort /\ s.ssh
             \/ p \in s.portSet
             \/ "exec" \in s.services \/ "exit-node" \in s.services \/ s.oneShot
BY DEF OnTCP

\* The filter of a configured server admits the ports that OnTCP has a handler
\* for.
LEMMA ConfiguredFilter ==
    ASSUME NEW c \in Configs, ~Fatal(c), NEW p \in Ports
    PROVE  FilterAdmits(Configured(c), p) <=> OnTCP(Configured(c), p) # "none"
<1> DEFINE s == Configured(c)
           services == ServicesOf(c)
           ports == ParsedPorts(c.spec)
           ssh == services \cap SSHServices # {} \/ "files" \in services
           list == PortList(ports, ssh)
           open == s.oneShot \/ services \cap {"exit-node", "exec"} # {}
<1>1. /\ s.portSet = ports /\ s.services = services /\ s.ssh = ssh
      /\ s.oneShot = (ports = {} /\ services = {})
      /\ s.ranges = IF open THEN <<>> ELSE portRanges(list)
  BY DEF Configured
<1>2. services \subseteq Services
  BY SSHServerAssumption DEF ServicesOf, Services
<1>3. ports \in SUBSET Ports /\ ssh \in BOOLEAN
  BY DEF ParsedPorts
<1>4. /\ portRanges(list) = <<>> <=> list = <<>>
      /\ \A q \in Ports : InRange(portRanges(list), q) <=> \E j \in DOMAIN list : list[j] = q
  <2> HIDE DEF list
  <2> USE PortListFacts, <1>3 DEF list
  <2>1. list \in Seq(Ports)
    OBVIOUS
  <2>2. \A i \in 2..Len(list) : list[i - 1] # 2^Width - 1 \/ list[i] # 0
    OBVIOUS
  <2> HIDE PortListFacts, <1>3 DEF list
  <2> QED BY <2>1, <2>2, RangesCover
<1>5. \A q : (\E j \in DOMAIN list : list[j] = q) <=> q \in ports \/ (ssh /\ q = SSHPort)
  BY <1>3, PortListFacts
<1>6. list = <<>> <=> ports = {} /\ ~ssh
  <2>1. list \in Seq(Ports)
    BY <1>3, PortListFacts
  <2>2. list = <<>> <=> ~(\E j \in DOMAIN list : list[j] = list[1])
    <3> HIDE DEF list
    <3> QED BY <2>1
  <2>3. list = <<>> => ports = {} /\ ~ssh
    <3>1. list = <<>> => ~\E q : \E j \in DOMAIN list : list[j] = q
      OBVIOUS
    <3> HIDE DEF list
    <3> QED BY <1>5, <3>1
  <2> HIDE DEF list
  <2> QED BY <1>5, <2>2, <2>3
<1> HIDE DEF s, services, ports, ssh, list
<1>7. CASE open
  <2>1. FilterAdmits(s, p)
    BY <1>1, <1>7 DEF FilterAdmits
  <2>2. s.oneShot \/ "exec" \in s.services \/ "exit-node" \in s.services
    BY <1>1, <1>7
  <2>3. OnTCP(s, p) # "none"
    BY <2>2, OnTCPFacts
  <2> QED BY <2>1, <2>3 DEF s
<1>8. CASE ~open
  <2>1. ports # {} \/ ssh
    BY <1>1, <1>2, <1>8 DEF Services, SSHServices, ssh
  <2>2. FilterAdmits(s, p) <=> p \in ports \/ (ssh /\ p = SSHPort)
    BY <1>1, <1>4, <1>5, <1>6, <1>8, <2>1 DEF FilterAdmits, InRange
  <2>3. OnTCP(s, p) # "none" <=> p \in ports \/ (ssh /\ p = SSHPort)
    <3>1. ~s.oneShot /\ "exec" \notin s.services /\ "exit-node" \notin s.services
      BY <1>1, <1>8
    <3>2. OnTCP(s, p) # "none" <=> p \in s.portSet \/ (s.ssh /\ p = SSHPort)
      BY <3>1, OnTCPFacts
    <3> QED BY <1>1, <3>2
  <2> QED BY <2>2, <2>3 DEF s
<1> QED BY <1>7, <1>8

\* For every command line, the packet filter that server() configures lets in
\* exactly the ports for which OnTCP has a handler.
THEOREM FilterMatchesGateInvariance == Spec => []FilterMatchesGate
<1>1. IInv => FilterMatchesGate
  <2> SUFFICES ASSUME IInv, Up, NEW p \in Ports
               PROVE  FilterAdmits(srv, p) <=> OnTCP(srv, p) # "none"
    BY DEF FilterMatchesGate
  <2>1. PICK c \in Configs : ~Fatal(c) /\ srv = Configured(c)
    BY DEF IInv, Serving, Up, Servers
  <2> QED BY <2>1, ConfiguredFilter
<1> QED BY Invariance, <1>1, PTL

-----------------------------------------------------------------------------
(* The file service.                                                       *)

\* A path leads a session to what it may adjust: to a file or directory of its
\* own, or to whatever lies where the owner has taken one of its own away.
Leads(s, p) ==
    p \in taken[s] \/ (p \in DOMAIN tree /\ inode[tree[p]].by = s)

\* Nothing of a read-only service is open for writing or to be changed.
ReadOnly ==
    mode = RO => /\ \A w \in Workers : step[w] = Idle
                 /\ \A s \in Sessions : writing[s] = {}

\* No two paths of a drop box name one file: what is adjusted through one of
\* them is not seen through another.
OneName ==
    writeOnly => \A p, q \in DOMAIN tree : tree[p] = tree[q] => p = q

\* What a drop box's session has in its wrote map, is about to put there, or
\* has taken out of it to change, it may adjust.
OwnPaths ==
    writeOnly =>
        /\ \A s \in Sessions : \A p \in DOMAIN wrote[s] : Leads(s, wrote[s][p])
        /\ \A w \in Workers :
              step[w].op \in {"mark", "setstat"} =>
                  Leads(SessionOf[w], step[w].actual)

\* A drop box's session has only files of its own open for writing.
OwnFiles ==
    writeOnly => \A s \in Sessions : \A i \in writing[s] : inode[i].by = s

\* The inductive invariant of the file service.
FilesIInv ==
    /\ FilesTypeOK /\ ReadOnly
    /\ OneName /\ OwnPaths /\ OwnFiles /\ OnlyOwnAdjusted

-----------------------------------------------------------------------------
(* Paths, requests in progress, and directories.                           *)

\* Paths are the sequences of at most two base names.
LEMMA PathsAreSequences ==
    \A p : p \in Paths <=> p \in Seq(Bases) /\ Len(p) <= 2
<1>1. ASSUME NEW p \in Paths PROVE p \in Seq(Bases) /\ Len(p) <= 2
  <2>1. <<>> \in Seq(Bases) /\ Len(<<>>) <= 2
    BY EmptySeq
  <2>2. ASSUME NEW a \in Bases PROVE <<a>> \in Seq(Bases) /\ Len(<<a>>) <= 2
    OBVIOUS
  <2>3. ASSUME NEW a \in Bases, NEW b \in Bases
        PROVE  <<a, b>> \in Seq(Bases) /\ Len(<<a, b>>) <= 2
    OBVIOUS
  <2>4. \/ p = <<>>
        \/ \E a \in Bases : p = <<a>>
        \/ \E a, b \in Bases : p = <<a, b>>
    <3>1. p = <<>> \/ p \in {<<a>> : a \in Bases} \/ p \in Bases \X Bases
      BY Zenon DEF Paths, Root
    <3>2. p \in {<<a>> : a \in Bases} => \E a \in Bases : p = <<a>>
      OBVIOUS
    <3>3. p \in Bases \X Bases => \E a, b \in Bases : p = <<a, b>>
      OBVIOUS
    <3> QED BY <3>1, <3>2, <3>3
  <2> QED BY <2>1, <2>2, <2>3, <2>4, Zenon
<1>2. ASSUME NEW p \in Seq(Bases), Len(p) <= 2 PROVE p \in Paths
  <2>1. Len(p) \in Nat
    BY LenProperties
  <2>2. CASE Len(p) = 0
    <3>1. p = <<>>
      BY <2>2, EmptySeq
    <3> QED BY <3>1 DEF Paths, Root
  <2>3. CASE Len(p) = 1
    <3>1. p[1] \in Bases
      BY <2>3, ElementOfSeq
    <3>2. p = <<p[1]>>
      BY <2>3
    <3> QED BY <3>1, <3>2 DEF Paths
  <2>4. CASE Len(p) = 2
    <3>1. p[1] \in Bases /\ p[2] \in Bases
      <4>1. 1 \in 1..Len(p) /\ 2 \in 1..Len(p)
        BY <2>4
      <4> QED BY <4>1, ElementOfSeq
    <3>2. p = <<p[1], p[2]>>
      BY <2>4
    <3>3. p \in Bases \X Bases
      BY <3>1, <3>2
    <3> QED BY <3>3, Zenon DEF Paths
  <2>5. \A n \in Nat : n <= 2 => n = 0 \/ n = 1 \/ n = 2
    OBVIOUS
  <2> QED BY <1>2, <2>1, <2>2, <2>3, <2>4, <2>5, Zenon
<1> QED BY <1>1, <1>2

\* One base name is a path below the served directory.
LEMMA UploadedOne == \A b \in Bases : <<b>> \in Paths \ {Root}
BY DEF Paths, Root

\* uniqueUploadPath makes paths below the served directory.
LEMMA UploadPaths ==
    ASSUME NEW p \in Paths, NEW actual \in uniqueUploadPath(p)
    PROVE  actual \in Paths \ {Root}
<1>1. PICK f \in Fresh : actual = Append(Parent(p), f)
  BY DEF uniqueUploadPath
<1>2. p \in Seq(Bases) /\ Len(p) \in Nat /\ Len(p) <= 2
  BY PathsAreSequences, LenProperties
<1>3. /\ Parent(p) \in Seq(Bases)
      /\ Len(Parent(p)) = IF 1 <= Len(p) - 1 THEN Len(p) - 1 ELSE 0
  BY <1>2, SubSeqProperties, ElementOfSeq DEF Parent
<1>4. f \in Bases
  BY DEF Bases
<1>5. /\ actual \in Seq(Bases) /\ actual # <<>>
      /\ Len(actual) = Len(Parent(p)) + 1
  BY <1>1, <1>3, <1>4, AppendProperties
<1>6. Len(actual) <= 2
  BY <1>2, <1>3, <1>5
<1> QED BY <1>5, <1>6, PathsAreSequences DEF Root

\* y is p or lies below it, and would not lie too deep below q.
Movable(p, q, y) ==
    /\ Len(y) >= Len(p) /\ SubSeq(y, 1, Len(p)) = p
    /\ Len(q) + Len(y) - Len(p) <= 2

\* Such a path, moved with p to q, stays a path, and moves back.
LEMMA MovedPaths ==
    ASSUME NEW p \in Paths, NEW q \in Paths \ {Root}, NEW y \in Paths,
           Movable(p, q, y)
    PROVE  /\ Moved(p, q, y) \in Paths \ {Root}
           /\ Moved(q, p, Moved(p, q, y)) = y
<1> DEFINE x == Moved(p, q, y)
           rest == SubSeq(y, Len(p) + 1, Len(y))
           back == SubSeq(x, Len(q) + 1, Len(x))
<1>1. /\ p \in Seq(Bases) /\ q \in Seq(Bases) /\ y \in Seq(Bases)
      /\ Len(p) \in Nat /\ Len(q) \in Nat /\ Len(y) \in Nat
      /\ Len(q) # 0
      /\ Len(y) >= Len(p) /\ SubSeq(y, 1, Len(p)) = p
      /\ Len(q) + Len(y) - Len(p) <= 2
  BY PathsAreSequences, LenProperties, EmptySeq DEF Root, Movable
<1>2. /\ x = q \o rest
      /\ rest \in Seq(Bases)
      /\ Len(rest) = Len(y) - Len(p)
  <2>1. \A i \in Len(p) + 1..Len(y) : y[i] \in Bases
    BY <1>1, ElementOfSeq
  <2> QED BY <1>1, <2>1, SubSeqProperties DEF Moved
<1> HIDE DEF rest, x
<1>3. /\ x \in Seq(Bases)
      /\ Len(x) = Len(q) + Len(rest)
      /\ \A i \in 1..Len(rest) : x[Len(q) + i] = rest[i]
  BY <1>1, <1>2, ConcatProperties
<1>4. Len(x) <= 2 /\ x # <<>>
  BY <1>1, <1>2, <1>3, EmptySeq
<1>5. /\ back \in Seq(Bases)
      /\ Len(back) = Len(rest)
      /\ \A i \in 1..Len(rest) : back[i] = rest[i]
  <2>1. \A i \in Len(q) + 1..Len(x) : x[i] \in Bases
    BY <1>1, <1>3, ElementOfSeq
  <2>2. /\ back \in Seq(Bases)
        /\ Len(back) = IF Len(q) + 1 <= Len(x) THEN Len(x) - (Len(q) + 1) + 1 ELSE 0
        /\ \A i \in 1..Len(x) - (Len(q) + 1) + 1 : back[i] = x[(Len(q) + 1) + i - 1]
    <3>1. Len(q) + 1 \in Int /\ Len(x) \in Int
      BY <1>1, <1>2, <1>3
    <3> QED BY <2>1, <3>1, SubSeqProperties
  <2> HIDE DEF back
  <2>3. Len(back) = Len(rest)
    <3>1. \A m, n \in Nat : (IF m + 1 <= m + n THEN m + n - (m + 1) + 1 ELSE 0) = n
      OBVIOUS
    <3>2. Len(rest) \in Nat
      BY <1>1, <1>2
    <3> QED BY <1>1, <1>3, <2>2, <3>1, <3>2
  <2>4. ASSUME NEW i \in 1..Len(rest) PROVE back[i] = rest[i]
    <3>1. i \in 1..Len(x) - (Len(q) + 1) + 1 /\ (Len(q) + 1) + i - 1 = Len(q) + i
      BY <1>1, <1>2, <1>3
    <3> QED BY <1>3, <2>2, <3>1
  <2> QED BY <2>2, <2>3, <2>4
<1>6. back = rest
  BY <1>2, <1>5, SeqEqual
<1>7. p \o rest = y
  <2>1. SubSeq(y, 1, Len(p)) \o SubSeq(y, Len(p) + 1, Len(y)) = SubSeq(y, 1, Len(y))
    <3>1. /\ 1 \in 1..Len(y) + 1
          /\ Len(p) \in 1 - 1..Len(y)
          /\ Len(y) \in Len(p)..Len(y)
      BY <1>1
    <3> QED BY <1>1, <3>1, ConcatAdjacentSubSeq
  <2> QED BY <1>1, <2>1, SubSeqFull DEF rest
<1> QED BY <1>3, <1>4, <1>6, <1>7, PathsAreSequences DEF rest, back, x, Moved, Root

\* The fields of what a worker has left to do.
LEMMA StepFields ==
    ASSUME NEW x \in Steps
    PROVE  /\ x.op = "retry" => x.path \in Paths
           /\ x.op = "mark" => x.path \in Paths /\ x.actual \in Paths
           /\ x.op = "setstat" =>
                 /\ x.actual \in Paths
                 /\ \A left \in SUBSET x.todo :
                       /\ [x EXCEPT !.todo = left] \in Steps
                       /\ [x EXCEPT !.todo = left].op = "setstat"
                       /\ [x EXCEPT !.todo = left].actual = x.actual
<1>1. /\ x.op = "retry" => x \in [op : {"retry"}, path : Paths]
      /\ x.op = "mark" => x \in [op : {"mark"}, path : Paths, actual : Paths]
      /\ x.op = "setstat" =>
            x \in [op : {"setstat"}, actual : Paths, todo : SUBSET Attrs]
  BY DEF Steps, Idle
<1>2. ASSUME x.op = "setstat", NEW left \in SUBSET x.todo
      PROVE  [x EXCEPT !.todo = left] \in
                [op : {"setstat"}, actual : Paths, todo : SUBSET Attrs]
  BY <1>1, <1>2
<1>3. ASSUME x.op = "setstat", NEW left \in SUBSET x.todo
      PROVE  /\ [x EXCEPT !.todo = left].op = "setstat"
             /\ [x EXCEPT !.todo = left].actual = x.actual
  BY <1>1, <1>3
<1> QED BY <1>1, <1>2, <1>3 DEF Steps

\* What workers go on with.
LEMMA NewSteps ==
    ASSUME NEW p \in Paths, NEW actual \in Paths, NEW flags \in SUBSET Attrs
    PROVE  /\ Idle \in Steps
           /\ [op |-> "retry", path |-> p] \in Steps
           /\ [op |-> "mark", path |-> p, actual |-> actual] \in Steps
           /\ [op |-> "setstat", actual |-> actual, todo |-> flags] \in Steps
BY DEF Steps

\* A worker's step is set without touching those of the others.
LEMMA Thens ==
    ASSUME FilesTypeOK, NEW w \in Workers, NEW x \in Steps, Then(w, x)
    PROVE  /\ step' \in [Workers -> Steps]
           /\ step'[w] = x
           /\ \A v \in Workers : v # w => step'[v] = step[v]
BY DEF Then, FilesTypeOK, SessionsOK

-----------------------------------------------------------------------------
(* What the operations on files keep.                                      *)

\* A file or directory created for a session is that session's own, and
\* everything else is as it was.
LEMMA CreateKeeps ==
    ASSUME FilesIInv, NEW s \in Sessions, NEW p \in Paths, NEW kind \in Kinds,
           CreateExclusive(s, p, kind), mode' = mode
    PROVE  /\ DirectoryOK' /\ OneName' /\ OnlyOwnAdjusted'
           /\ Len(inode') = Len(inode) + 1
           /\ \A i \in 1..Len(inode) : inode'[i] = inode[i]
           /\ inode'[Len(inode) + 1].by = s
           /\ \A q \in DOMAIN tree : q \in DOMAIN tree' /\ tree'[q] = tree[q]
           /\ \A r \in Sessions : \A q : Leads(r, q) => Leads(r, q)'
           /\ Leads(s, p)'
<1> DEFINE new == Len(inode) + 1
<1>1. p \notin DOMAIN tree /\ p # Root
  BY DEF CreateExclusive, Free
<1>2. /\ DOMAIN tree' = DOMAIN tree \cup {p}
      /\ tree'[p] = new
      /\ \A q \in DOMAIN tree : tree'[q] = tree[q]
  <2>1. tree' = With(tree, p, new)
    BY DEF CreateExclusive
  <2>2. /\ DOMAIN With(tree, p, new) = DOMAIN tree \cup {p}
        /\ With(tree, p, new)[p] = new
        /\ \A q \in DOMAIN tree : q # p => With(tree, p, new)[q] = tree[q]
    BY DEF With
  <2> QED BY <1>1, <2>1, <2>2, Zenon
<1>3. Len(inode) \in Nat /\ Len(adjusted) = Len(inode)
  BY LenProperties DEF FilesIInv, FilesTypeOK, DirectoryOK
<1>4. /\ inode' \in Seq([kind : Kinds, by : Sessions \cup {Owner}])
      /\ Len(inode') = new
      /\ \A i \in 1..Len(inode) : inode'[i] = inode[i]
      /\ inode'[new].by = s
  <2>1. [kind |-> kind, by |-> s] \in [kind : Kinds, by : Sessions \cup {Owner}]
    OBVIOUS
  <2>2. inode' = Append(inode, [kind |-> kind, by |-> s])
    BY DEF CreateExclusive
  <2>3. inode'[new] = [kind |-> kind, by |-> s]
    BY <2>1, <2>2, AppendProperties DEF FilesIInv, FilesTypeOK, DirectoryOK
  <2> QED
    BY <2>1, <2>2, <2>3, AppendProperties DEF FilesIInv, FilesTypeOK, DirectoryOK
<1>5. /\ adjusted' \in Seq(SUBSET Sessions)
      /\ Len(adjusted') = new
      /\ \A i \in 1..Len(inode) : adjusted'[i] = adjusted[i]
      /\ adjusted'[new] = {}
  <2>1. adjusted' = Append(adjusted, {})
    BY DEF CreateExclusive
  <2> QED
    BY <1>3, <2>1, AppendProperties DEF FilesIInv, FilesTypeOK, DirectoryOK
<1>6. taken' = taken
  BY DEF CreateExclusive
<1>7. DirectoryOK'
  <2>1. new <= MaxInodes[mode]
    BY <1>3, DropBoxAssumption DEF CreateExclusive, FilesIInv, FilesTypeOK
  <2>2. \A q \in DOMAIN tree' : tree'[q] \in 1..new
    BY <1>2, <1>3 DEF FilesIInv, FilesTypeOK, DirectoryOK
  <2> QED
    BY <1>1, <1>2, <1>4, <1>5, <1>6, <2>1, <2>2
    DEF FilesIInv, FilesTypeOK, DirectoryOK
<1>8. \A q \in DOMAIN tree : tree[q] \in 1..Len(inode) /\ tree[q] # new
  BY <1>3 DEF FilesIInv, FilesTypeOK, DirectoryOK
<1>9. OneName'
  BY <1>2, <1>8 DEF FilesIInv, OneName, writeOnly
<1>10. OnlyOwnAdjusted'
  BY <1>2, <1>4, <1>5, <1>6, <1>8 DEF FilesIInv, OnlyOwnAdjusted, writeOnly
<1>11. \A r \in Sessions : \A q : Leads(r, q) => Leads(r, q)'
  BY <1>2, <1>4, <1>6, <1>8 DEF Leads
<1>12. Leads(s, p)'
  BY <1>2, <1>4 DEF Leads
<1> QED BY <1>2, <1>4, <1>7, <1>9, <1>10, <1>11, <1>12

\* A session adjusts a file that, in a drop box, is its own or lies where the
\* owner has taken one of its own away.
LEMMA AdjustKeeps ==
    ASSUME FilesIInv, NEW s \in Sessions, NEW i \in 1..Len(inode),
           Adjust(s, i), mode' = mode,
           writeOnly => \A q \in DOMAIN tree :
               tree[q] = i => q \in taken[s] \/ inode[i].by = s
    PROVE  /\ DirectoryOK' /\ OneName' /\ OnlyOwnAdjusted'
           /\ inode' = inode
           /\ \A r \in Sessions : \A q : Leads(r, q) => Leads(r, q)'
<1>1. /\ tree' = tree /\ inode' = inode /\ taken' = taken
      /\ adjusted' = [adjusted EXCEPT ![i] =
                         IF mode = RW THEN @ ELSE @ \cup {s}]
  BY DEF Adjust
<1>2. adjusted \in Seq(SUBSET Sessions) /\ i \in 1..Len(adjusted)
  BY DEF FilesIInv, FilesTypeOK, DirectoryOK
<1>3. adjusted[i] \in SUBSET Sessions /\ adjusted[i] \cup {s} \in SUBSET Sessions
  BY <1>2, ElementOfSeq
<1>4. /\ adjusted' \in Seq(SUBSET Sessions)
      /\ Len(adjusted') = Len(adjusted)
      /\ \A j \in 1..Len(adjusted) : j # i => adjusted'[j] = adjusted[j]
      /\ adjusted'[i] \subseteq adjusted[i] \cup {s}
  BY <1>1, <1>2, <1>3, ExceptSeq
<1>5. DirectoryOK'
  BY <1>1, <1>4 DEF FilesIInv, FilesTypeOK, DirectoryOK
<1>6. OneName' /\ \A r \in Sessions : \A q : Leads(r, q) => Leads(r, q)'
  BY <1>1 DEF FilesIInv, OneName, writeOnly, Leads
<1>7. OnlyOwnAdjusted'
  <2> SUFFICES ASSUME writeOnly, NEW q \in DOMAIN tree, NEW r \in adjusted'[tree[q]]
               PROVE  inode[tree[q]].by = r \/ q \in taken[r]
    BY <1>1 DEF OnlyOwnAdjusted, writeOnly
  <2>1. tree[q] \in 1..Len(adjusted)
    BY DEF FilesIInv, FilesTypeOK, DirectoryOK
  <2>2. r \in adjusted[tree[q]] \/ (tree[q] = i /\ r = s)
    BY <1>4, <2>1
  <2>3. r \in adjusted[tree[q]] => inode[tree[q]].by = r \/ q \in taken[r]
    BY DEF FilesIInv, OnlyOwnAdjusted
  <2> QED BY <2>2, <2>3
<1> QED BY <1>1, <1>5, <1>6, <1>7

\* Entries of the wrote maps and requests in progress go on leading sessions to
\* what they may adjust, as long as those that change do.
LEMMA OwnPathsKept ==
    ASSUME OwnPaths, mode' = mode, DOMAIN wrote = Sessions,
           SessionOf \in [Workers -> Sessions],
           \A r \in Sessions : \A q : Leads(r, q) => Leads(r, q)',
           \A r \in Sessions :
              /\ DOMAIN wrote'[r] \subseteq DOMAIN wrote[r]
              /\ \A p \in DOMAIN wrote'[r] : wrote'[r][p] = wrote[r][p],
           \A w \in Workers :
              \/ step'[w] = step[w]
              \/ step'[w].op \in {"mark", "setstat"} =>
                     Leads(SessionOf[w], step[w].actual)'
    PROVE  OwnPaths'
<1> SUFFICES ASSUME writeOnly
             PROVE  /\ \A s \in Sessions : \A p \in DOMAIN wrote'[s] :
                          Leads(s, wrote[s][p])'
                    /\ \A w \in Workers :
                          step'[w].op \in {"mark", "setstat"} =>
                              Leads(SessionOf[w], step[w].actual)'
  BY DEF OwnPaths, writeOnly
<1>1. ASSUME NEW s \in Sessions, NEW p \in DOMAIN wrote'[s]
      PROVE  Leads(s, wrote[s][p])'
  BY <1>1 DEF OwnPaths
<1>2. ASSUME NEW w \in Workers, step'[w].op \in {"mark", "setstat"}
      PROVE  Leads(SessionOf[w], step[w].actual)'
  BY <1>2 DEF OwnPaths
<1> QED BY <1>1, <1>2

\* Files stay those of the sessions that have them open.
LEMMA OwnFilesKept ==
    ASSUME FilesIInv, mode' = mode, writing' \in [Sessions -> SUBSET Nat],
           \A i \in 1..Len(inode) : inode'[i] = inode[i],
           \A s \in Sessions : \A i \in writing'[s] :
              i \in writing[s] \/ inode'[i].by = s
    PROVE  OwnFiles'
BY DEF FilesIInv, FilesTypeOK, SessionsOK, OwnFiles, writeOnly

\* What a session is served changes nothing of the file system and leaves the
\* maps alone.
LEMMA DirectoryKept ==
    ASSUME FilesIInv, UNCHANGED <<mode, dirVars>>
    PROVE  /\ DirectoryOK' /\ OneName' /\ OnlyOwnAdjusted'
           /\ \A i \in 1..Len(inode) : inode'[i] = inode[i]
           /\ Len(inode') = Len(inode)
           /\ \A r \in Sessions : \A q : Leads(r, q) => Leads(r, q)'
BY DEF FilesIInv, FilesTypeOK, DirectoryOK, OneName, OnlyOwnAdjusted, writeOnly,
   Leads, dirVars

-----------------------------------------------------------------------------
(* The initial states, and each action, establish the invariant.           *)

\* The directory holds the owner's file and directory, and nobody has asked
\* for anything.
LEMMA FilesInitIInv == FilesInit => FilesIInv
<1> SUFFICES ASSUME FilesInit PROVE FilesIInv
  OBVIOUS
<1> USE DropBoxAssumption DEF FilesInit
<1>1. /\ DOMAIN tree = {<<OwnFile>>, <<OwnDir>>}
      /\ \A p \in DOMAIN tree : tree[p] = IF p = <<OwnFile>> THEN 1 ELSE 2
  OBVIOUS
<1>2. DirectoryOK
  <2>1. OwnFile \in Bases /\ OwnDir \in Bases
    BY DEF Bases
  <2>2. <<OwnFile>> \in Paths \ {Root} /\ <<OwnDir>> \in Paths \ {Root}
    BY <2>1, UploadedOne
  <2>3. /\ [kind |-> "file", by |-> Owner] \in [kind : Kinds, by : Sessions \cup {Owner}]
        /\ [kind |-> "dir", by |-> Owner] \in [kind : Kinds, by : Sessions \cup {Owner}]
    BY DEF Kinds
  <2>4. inode \in Seq([kind : Kinds, by : Sessions \cup {Owner}]) /\ Len(inode) = 2
    BY <2>3
  <2>5. adjusted \in Seq(SUBSET Sessions) /\ Len(adjusted) = 2
    OBVIOUS
  <2>6. 2 <= MaxInodes[mode]
    OBVIOUS
  <2>7. 1 \in 1..2 /\ 2 \in 1..2
    OBVIOUS
  <2> QED BY <1>1, <2>2, <2>4, <2>5, <2>6, <2>7 DEF DirectoryOK
<1>3. SessionsOK
  <2>1. Idle \in Steps
    BY DEF Steps
  <2> QED BY <2>1 DEF SessionsOK
<1>4. ReadOnly /\ OwnPaths /\ OwnFiles
  BY DEF ReadOnly, OwnPaths, OwnFiles, Idle
<1>5. OneName
  <2>1. <<OwnFile>> # <<OwnDir>>
    OBVIOUS
  <2> QED BY <1>1, <2>1 DEF OneName
<1>6. OnlyOwnAdjusted
  <2>1. \A i \in {1, 2} : adjusted[i] = {}
    OBVIOUS
  <2> QED BY <1>1, <2>1 DEF OnlyOwnAdjusted
<1> QED BY <1>2, <1>3, <1>4, <1>5, <1>6 DEF FilesIInv, FilesTypeOK

\* A worker creates a file or directory for its session, which it may open,
\* and goes on with something that leads the session to what it may adjust.
LEMMA CreateIInv ==
    ASSUME FilesIInv, mode # RO, NEW w \in Workers, NEW x \in Steps, Then(w, x),
           NEW p \in Paths, NEW kind \in Kinds,
           CreateExclusive(SessionOf[w], p, kind),
           writeOnly /\ x.op \in {"mark", "setstat"} =>
               x.actual = p \/ Leads(SessionOf[w], x.actual),
           \/ UNCHANGED writing
           \/ writing' = [writing EXCEPT ![SessionOf[w]] = @ \cup {Len(inode) + 1}],
           UNCHANGED <<mode, wrote, endVars>>
    PROVE  FilesIInv'
<1> DEFINE s == SessionOf[w]
           new == Len(inode) + 1
<1>1. s \in Sessions /\ mode' = mode
  BY DropBoxAssumption
<1>2. /\ DirectoryOK' /\ OneName' /\ OnlyOwnAdjusted'
      /\ Len(inode') = new
      /\ \A i \in 1..Len(inode) : inode'[i] = inode[i]
      /\ inode'[new].by = s
      /\ \A r \in Sessions : \A q : Leads(r, q) => Leads(r, q)'
      /\ Leads(s, p)'
  BY <1>1, CreateKeeps
<1>3. /\ step' \in [Workers -> Steps]
      /\ step'[w] = x
      /\ \A v \in Workers : v # w => step'[v] = step[v]
  BY Thens DEF FilesIInv
<1>4. Len(inode) \in Nat /\ writing \in [Sessions -> SUBSET (1..Len(inode))]
  BY LenProperties DEF FilesIInv, FilesTypeOK, DirectoryOK, SessionsOK
<1>5. /\ writing' \in [Sessions -> SUBSET (1..Len(inode'))]
      /\ \A r \in Sessions : \A i \in writing'[r] :
            i \in writing[r] \/ (r = s /\ i = new)
  <2>1. \A r \in Sessions : writing[r] \cup {new} \in SUBSET (1..new)
    BY <1>4
  <2>2. CASE UNCHANGED writing
    <3>1. \A r \in Sessions : writing'[r] \in SUBSET (1..new)
      BY <2>1, <2>2
    <3>2. writing' \in [Sessions -> SUBSET (1..new)]
      BY <1>4, <2>2, <3>1
    <3> QED BY <1>2, <2>2, <3>2
  <2>3. CASE writing' = [writing EXCEPT ![s] = @ \cup {new}]
    <3>1. writing' \in [Sessions -> SUBSET (1..new)]
      BY <1>4, <2>1, <2>3
    <3>2. \A r \in Sessions : \A i \in writing'[r] :
             i \in writing[r] \/ (r = s /\ i = new)
      BY <1>1, <1>4, <2>3
    <3> QED BY <1>2, <3>1, <3>2
  <2> QED BY <2>2, <2>3
<1>6. SessionsOK'
  BY <1>3, <1>5 DEF SessionsOK, FilesIInv, FilesTypeOK, endVars
<1>7. OwnPaths'
  <2>1. CASE writeOnly
    <3>1. step'[w].op \in {"mark", "setstat"} => Leads(SessionOf[w], step[w].actual)'
      <4>1. CASE x.op \notin {"mark", "setstat"}
        BY <1>3, <4>1
      <4>2. CASE x.actual = p
        BY <1>2, <1>3, <4>2
      <4>3. CASE Leads(SessionOf[w], x.actual)
        BY <1>1, <1>2, <1>3, <4>3
      <4> QED BY <2>1, <4>1, <4>2, <4>3
    <3>2. \A v \in Workers :
             \/ step'[v] = step[v]
             \/ step'[v].op \in {"mark", "setstat"} =>
                    Leads(SessionOf[v], step[v].actual)'
      BY <1>3, <3>1
    <3> QED
      BY <1>2, <3>2, OwnPathsKept, DropBoxAssumption
      DEF FilesIInv, FilesTypeOK, SessionsOK
  <2>2. CASE ~writeOnly
    BY <2>2 DEF OwnPaths, writeOnly
  <2> QED BY <2>1, <2>2
<1>8. OwnFiles'
  <2>1. writing' \in [Sessions -> SUBSET Nat]
    BY <1>5
  <2>2. \A r \in Sessions : \A i \in writing'[r] : i \in writing[r] \/ inode'[i].by = r
    BY <1>2, <1>5
  <2> QED BY <1>2, <2>1, <2>2, OwnFilesKept
<1> QED BY <1>2, <1>6, <1>7, <1>8 DEF FilesIInv, FilesTypeOK, ReadOnly

\* A worker goes on with something that is not a path to be marked or changed,
\* or leads to what its session may adjust, and nothing else changes.
LEMMA ThenIInv ==
    ASSUME FilesIInv, mode # RO, NEW w \in Workers, NEW x \in Steps, Then(w, x),
           writeOnly /\ x.op \in {"mark", "setstat"} =>
               Leads(SessionOf[w], x.actual),
           writing' \in [Sessions -> SUBSET (1..Len(inode))],
           writeOnly => writing' = writing,
           UNCHANGED <<mode, dirVars, wrote, endVars>>
    PROVE  FilesIInv'
<1>1. /\ DirectoryOK' /\ OneName' /\ OnlyOwnAdjusted'
      /\ \A i \in 1..Len(inode) : inode'[i] = inode[i]
      /\ Len(inode') = Len(inode)
      /\ \A r \in Sessions : \A q : Leads(r, q) => Leads(r, q)'
  BY DirectoryKept
<1>2. /\ step' \in [Workers -> Steps]
      /\ step'[w] = x
      /\ \A v \in Workers : v # w => step'[v] = step[v]
  BY Thens DEF FilesIInv
<1>3. SessionsOK'
  BY <1>1, <1>2 DEF SessionsOK, FilesIInv, FilesTypeOK, endVars
<1>4. OwnPaths'
  <2>1. CASE writeOnly
    <3>1. SessionOf[w] \in Sessions
      BY DropBoxAssumption
    <3>2. step'[w].op \in {"mark", "setstat"} => Leads(SessionOf[w], step[w].actual)'
      BY <1>1, <1>2, <2>1, <3>1
    <3>3. \A v \in Workers :
             \/ step'[v] = step[v]
             \/ step'[v].op \in {"mark", "setstat"} =>
                    Leads(SessionOf[v], step[v].actual)'
      BY <1>2, <3>2
    <3> QED
      BY <1>1, <3>3, OwnPathsKept, DropBoxAssumption
      DEF FilesIInv, FilesTypeOK, SessionsOK
  <2>2. CASE ~writeOnly
    BY <2>2 DEF OwnPaths, writeOnly
  <2> QED BY <2>1, <2>2
<1>5. OwnFiles'
  BY <1>1 DEF OwnFiles, FilesIInv, FilesTypeOK, SessionsOK, writeOnly
<1> QED BY <1>1, <1>3, <1>4, <1>5 DEF FilesIInv, FilesTypeOK, ReadOnly

\* The same, of a step that also adjusts a file.
LEMMA AdjustIInv ==
    ASSUME FilesIInv, mode # RO, NEW w \in Workers, NEW x \in Steps, Then(w, x),
           writeOnly /\ x.op \in {"mark", "setstat"} =>
               Leads(SessionOf[w], x.actual),
           NEW i \in 1..Len(inode), Adjust(SessionOf[w], i),
           writeOnly => \A q \in DOMAIN tree :
               tree[q] = i => q \in taken[SessionOf[w]] \/ inode[i].by = SessionOf[w],
           writing' \in [Sessions -> SUBSET (1..Len(inode))],
           writeOnly => writing' = writing,
           UNCHANGED <<mode, wrote, endVars>>
    PROVE  FilesIInv'
<1>1. SessionOf[w] \in Sessions /\ mode' = mode
  BY DropBoxAssumption
<1>2. /\ DirectoryOK' /\ OneName' /\ OnlyOwnAdjusted'
      /\ inode' = inode
      /\ \A r \in Sessions : \A q : Leads(r, q) => Leads(r, q)'
  BY <1>1, AdjustKeeps
<1>3. /\ step' \in [Workers -> Steps]
      /\ step'[w] = x
      /\ \A v \in Workers : v # w => step'[v] = step[v]
  BY Thens DEF FilesIInv
<1>4. SessionsOK'
  BY <1>2, <1>3 DEF SessionsOK, FilesIInv, FilesTypeOK, endVars
<1>5. OwnPaths'
  <2>1. CASE writeOnly
    <3>1. step'[w].op \in {"mark", "setstat"} => Leads(SessionOf[w], step[w].actual)'
      BY <1>1, <1>2, <1>3, <2>1
    <3>2. \A v \in Workers :
             \/ step'[v] = step[v]
             \/ step'[v].op \in {"mark", "setstat"} =>
                    Leads(SessionOf[v], step[v].actual)'
      BY <1>3, <3>1
    <3> QED
      BY <1>2, <3>2, OwnPathsKept, DropBoxAssumption
      DEF FilesIInv, FilesTypeOK, SessionsOK
  <2>2. CASE ~writeOnly
    BY <2>2 DEF OwnPaths, writeOnly
  <2> QED BY <2>1, <2>2
<1>6. OwnFiles'
  BY <1>2 DEF OwnFiles, FilesIInv, writeOnly
<1> QED BY <1>2, <1>4, <1>5, <1>6 DEF FilesIInv, FilesTypeOK, ReadOnly

\* A worker that goes on with what it was doing.
LEMMA Stays ==
    ASSUME FilesIInv, UNCHANGED step, NEW w \in Workers
    PROVE  /\ step[w] \in Steps /\ Then(w, step[w])
           /\ writeOnly /\ step[w].op \in {"mark", "setstat"} =>
                  Leads(SessionOf[w], step[w].actual)
BY DEF FilesIInv, FilesTypeOK, SessionsOK, OwnPaths, Then

\* Files open for writing exist.
LEMMA WritingType == FilesIInv => writing \in [Sessions -> SUBSET (1..Len(inode))]
BY DEF FilesIInv, FilesTypeOK, SessionsOK

\* The three ways to create a file to upload to.
LEMMA FilewriteIInv ==
    ASSUME FilesIInv, NEW w \in Workers, NEW p \in Paths,
           FilewriteWO(w, p) \/ FilewritePlus(w, p) \/ FilewriteRetry(w)
    PROVE  FilesIInv'
<1>1. ASSUME mode # RO, NEW q \in Paths, NEW actual \in Paths, OpenNew(w, q, actual),
             UNCHANGED <<mode, wrote, endVars>>
      PROVE  FilesIInv'
  <2> DEFINE mark == [op |-> "mark", path |-> q, actual |-> actual]
  <2>1. /\ mark \in Steps /\ mark.actual = actual
        /\ "file" \in Kinds
    BY NewSteps DEF Kinds
  <2>2. /\ CreateExclusive(SessionOf[w], actual, "file")
        /\ writing' = [writing EXCEPT ![SessionOf[w]] = @ \cup {Len(inode) + 1}]
        /\ Then(w, mark)
    BY <1>1 DEF OpenNew
  <2> QED BY <1>1, <2>1, <2>2, CreateIInv
<1>2. ASSUME mode # RO, NEW x \in Steps, x.op \notin {"mark", "setstat"}, Then(w, x),
             UNCHANGED <<dirVars, writing>>, UNCHANGED <<mode, wrote, endVars>>
      PROVE  FilesIInv'
  BY <1>2, ThenIInv, WritingType
<1>3. CASE FilewriteWO(w, p)
  <2>1. mode # RO /\ UNCHANGED <<mode, wrote, endVars>>
    BY <1>3 DEF FilewriteWO, WO, RO
  <2>2. PICK actual \in uniqueUploadPath(p) : OpenNew(w, p, actual)
    BY <1>3 DEF FilewriteWO
  <2> QED BY <1>1, <2>1, <2>2, UploadPaths
<1>4. CASE FilewritePlus(w, p)
  <2>1. mode # RO /\ UNCHANGED <<mode, wrote, endVars>>
    BY <1>4 DEF FilewritePlus, WOPlus, RO
  <2>2. CASE OpenNew(w, p, p)
    BY <1>1, <2>1, <2>2
  <2>3. CASE Then(w, [op |-> "retry", path |-> p]) /\ UNCHANGED <<dirVars, writing>>
    <3>1. /\ [op |-> "retry", path |-> p] \in Steps
          /\ [op |-> "retry", path |-> p].op \notin {"mark", "setstat"}
      BY DEF Steps
    <3> QED BY <1>2, <2>1, <2>3, <3>1
  <2> QED BY <1>4, <2>2, <2>3 DEF FilewritePlus
<1>5. CASE FilewriteRetry(w)
  <2>1. mode # RO /\ UNCHANGED <<mode, wrote, endVars>>
    BY <1>5 DEF FilewriteRetry, FilesIInv, ReadOnly, Idle
  <2>2. step[w] \in Steps /\ step[w].op = "retry"
    BY <1>5 DEF FilewriteRetry, FilesIInv, FilesTypeOK, SessionsOK
  <2>3. step[w].path \in Paths
    BY <2>2, StepFields
  <2>4. PICK actual \in uniqueUploadPath(step[w].path) :
           \/ OpenNew(w, step[w].path, actual)
           \/ Then(w, Idle) /\ UNCHANGED <<dirVars, writing>>
    BY <1>5 DEF FilewriteRetry
  <2>5. actual \in Paths
    BY <2>3, UploadPaths
  <2>6. Idle \in Steps /\ Idle.op \notin {"mark", "setstat"}
    BY DEF Steps, Idle
  <2> QED BY <1>1, <1>2, <2>1, <2>3, <2>4, <2>5, <2>6
<1> QED BY <1>3, <1>4, <1>5

\* markOwn puts into the wrote map what the worker has just created.
LEMMA MarkOwnIInv ==
    ASSUME FilesIInv, NEW w \in Workers, MarkOwn(w)
    PROVE  FilesIInv'
<1> DEFINE s == SessionOf[w]
<1>1. s \in Sessions /\ mode # RO
  BY DropBoxAssumption DEF MarkOwn, FilesIInv, ReadOnly, Idle
<1>2. step[w] \in Steps /\ step[w].op = "mark"
  BY DEF MarkOwn, FilesIInv, FilesTypeOK, SessionsOK
<1>3. step[w].path \in Paths /\ step[w].actual \in Paths
  BY <1>2, StepFields
<1>4. /\ DirectoryOK' /\ OneName' /\ OnlyOwnAdjusted'
      /\ \A r \in Sessions : \A q : Leads(r, q) => Leads(r, q)'
      /\ inode' = inode /\ writing' = writing /\ mode' = mode
  BY DirectoryKept DEF MarkOwn, dirVars
<1>5. /\ step' \in [Workers -> Steps]
      /\ step'[w] = Idle
      /\ \A v \in Workers : v # w => step'[v] = step[v]
  BY NewSteps, Thens, <1>3 DEF MarkOwn, FilesIInv
<1>6. /\ DOMAIN wrote' = Sessions
      /\ \A r \in Sessions : r # s => wrote'[r] = wrote[r]
      /\ DOMAIN wrote'[s] = DOMAIN wrote[s] \cup {step[w].path}
      /\ \A q \in DOMAIN wrote'[s] :
            wrote'[s][q] = IF q = step[w].path THEN step[w].actual ELSE wrote[s][q]
  <2>1. wrote' = [wrote EXCEPT ![s] = With(@, step[w].path, step[w].actual)]
    BY DEF MarkOwn
  <2>2. DOMAIN wrote = Sessions
    BY DEF FilesIInv, FilesTypeOK, SessionsOK
  <2>3. wrote'[s] = With(wrote[s], step[w].path, step[w].actual)
    BY <1>1, <2>1, <2>2
  <2> QED BY <1>1, <2>1, <2>2, <2>3 DEF With
<1>7. SessionsOK'
  <2>1. \A r \in Sessions :
           /\ DOMAIN wrote'[r] \subseteq Paths
           /\ \A p \in DOMAIN wrote'[r] : wrote'[r][p] \in Paths
    BY <1>3, <1>6 DEF FilesIInv, FilesTypeOK, SessionsOK
  <2> QED
    BY <1>4, <1>5, <1>6, <2>1
    DEF MarkOwn, FilesIInv, FilesTypeOK, SessionsOK, endVars
<1>8. OwnPaths'
  <2> SUFFICES ASSUME writeOnly
               PROVE  /\ \A r \in Sessions : \A p \in DOMAIN wrote'[r] :
                            Leads(r, wrote[r][p])'
                      /\ \A v \in Workers :
                            step'[v].op \in {"mark", "setstat"} =>
                                Leads(SessionOf[v], step[v].actual)'
    BY <1>4 DEF OwnPaths, writeOnly
  <2>1. Leads(s, step[w].actual)
    BY <1>2 DEF FilesIInv, OwnPaths
  <2>2. ASSUME NEW r \in Sessions, NEW p \in DOMAIN wrote'[r]
        PROVE  Leads(r, wrote[r][p])'
    <3>1. CASE r = s /\ p = step[w].path
      BY <1>1, <1>4, <1>6, <2>1, <2>2, <3>1
    <3>2. CASE ~(r = s /\ p = step[w].path)
      <4>1. p \in DOMAIN wrote[r] /\ wrote'[r][p] = wrote[r][p]
        BY <1>6, <2>2, <3>2
      <4>2. Leads(r, wrote[r][p])
        BY <4>1 DEF FilesIInv, OwnPaths
      <4> QED BY <1>4, <4>1, <4>2
    <3> QED BY <3>1, <3>2
  <2>3. ASSUME NEW v \in Workers, step'[v].op \in {"mark", "setstat"}
        PROVE  Leads(SessionOf[v], step[v].actual)'
    <3>1. v # w /\ step'[v] = step[v]
      BY <1>5, <2>3 DEF Idle
    <3>2. SessionOf[v] \in Sessions /\ Leads(SessionOf[v], step[v].actual)
      BY <2>3, <3>1, DropBoxAssumption DEF FilesIInv, OwnPaths
    <3> QED BY <1>4, <3>1, <3>2
  <2> QED BY <2>2, <2>3
<1>9. OwnFiles'
  BY <1>4 DEF FilesIInv, OwnFiles, writeOnly
<1> QED BY <1>1, <1>4, <1>7, <1>8, <1>9 DEF FilesIInv, FilesTypeOK, ReadOnly

\* A step of a read-write service that changes only which paths there are.
LEMMA ReadWriteIInv ==
    ASSUME FilesIInv, mode = RW, DirectoryOK',
           UNCHANGED <<mode, inode, adjusted, taken, wrote, writing, step, endVars>>
    PROVE  FilesIInv'
<1>1. ~writeOnly /\ mode # RO
  BY DEF writeOnly, RW, WO, WOPlus, RO
<1>2. SessionsOK'
  BY DEF SessionsOK, FilesIInv, FilesTypeOK, endVars
<1>3. ReadOnly' /\ OneName' /\ OwnPaths' /\ OwnFiles' /\ OnlyOwnAdjusted'
  BY <1>1 DEF ReadOnly, OneName, OwnPaths, OwnFiles, OnlyOwnAdjusted, writeOnly
<1> QED BY <1>2, <1>3 DEF FilesIInv, FilesTypeOK

\* Filewrite in read-write mode and WriteAt.
LEMMA WriteIInv ==
    ASSUME FilesIInv, NEW w \in Workers, NEW p \in Paths,
           FilewriteRW(w, p) \/ \E i \in 1..Len(inode) : WriteAt(w, i)
    PROVE  FilesIInv'
<1>1. CASE FilewriteRW(w, p)
  <2>1. /\ mode # RO /\ ~writeOnly /\ UNCHANGED step
        /\ UNCHANGED <<mode, wrote, endVars>>
    BY <1>1 DEF FilewriteRW, writeOnly, RW, RO, WO, WOPlus
  <2>2. step[w] \in Steps /\ Then(w, step[w])
    BY <2>1, Stays
  <2>3. CASE /\ CreateExclusive(SessionOf[w], p, "file")
             /\ writing' = [writing EXCEPT ![SessionOf[w]] = @ \cup {Len(inode) + 1}]
    <3>1. "file" \in Kinds
      BY DEF Kinds
    <3> QED BY <2>1, <2>2, <2>3, <3>1, CreateIInv
  <2>4. ASSUME IsFile(p),
               Adjust(SessionOf[w], tree[p]) \/ UNCHANGED dirVars,
               writing' = [writing EXCEPT ![SessionOf[w]] = @ \cup {tree[p]}]
        PROVE  FilesIInv'
    <3>1. tree[p] \in 1..Len(inode)
      BY <2>4 DEF IsFile, FilesIInv, FilesTypeOK, DirectoryOK
    <3>2. writing' \in [Sessions -> SUBSET (1..Len(inode))]
      BY <2>4, <3>1, WritingType
    <3> QED BY <2>1, <2>2, <2>4, <3>1, <3>2, AdjustIInv, ThenIInv
  <2>5. \/ /\ CreateExclusive(SessionOf[w], p, "file")
           /\ writing' = [writing EXCEPT ![SessionOf[w]] = @ \cup {Len(inode) + 1}]
        \/ /\ IsFile(p)
           /\ Adjust(SessionOf[w], tree[p]) \/ UNCHANGED dirVars
           /\ writing' = [writing EXCEPT ![SessionOf[w]] = @ \cup {tree[p]}]
    BY <1>1 DEF FilewriteRW
  <2> QED BY <2>3, <2>4, <2>5
<1>2. ASSUME NEW i \in 1..Len(inode), WriteAt(w, i) PROVE FilesIInv'
  <2>1. /\ i \in writing[SessionOf[w]] /\ Adjust(SessionOf[w], i) /\ UNCHANGED step
        /\ UNCHANGED <<mode, wrote, writing, endVars>>
        /\ SessionOf[w] \in Sessions
    BY <1>2, DropBoxAssumption DEF WriteAt
  <2>2. mode # RO
    BY <2>1 DEF FilesIInv, ReadOnly
  <2>3. writeOnly => inode[i].by = SessionOf[w]
    BY <2>1 DEF FilesIInv, OwnFiles
  <2> QED BY <2>1, <2>2, <2>3, Stays, WritingType, AdjustIInv
<1> QED BY <1>1, <1>2

\* Filecmd's Mkdir and Symlink.
LEMMA MakeIInv ==
    ASSUME FilesIInv, NEW w \in Workers, NEW p \in Paths,
           Mkdir(w, p) \/ Symlink(w, p)
    PROVE  FilesIInv'
<1> DEFINE mark == [op |-> "mark", path |-> p, actual |-> p]
<1>1. CASE Mkdir(w, p)
  <2>1. /\ mode # RO /\ CreateExclusive(SessionOf[w], p, "dir")
        /\ UNCHANGED <<mode, wrote, writing, endVars>>
        /\ Then(w, mark) \/ UNCHANGED step
    BY <1>1 DEF Mkdir, RW, WOPlus, RO
  <2>2. mark \in Steps /\ mark.actual = p /\ "dir" \in Kinds
    BY NewSteps DEF Kinds
  <2> QED BY <2>1, <2>2, Stays, CreateIInv
<1>2. CASE Symlink(w, p)
  <2>1. /\ mode # RO /\ CreateExclusive(SessionOf[w], p, "link")
        /\ UNCHANGED <<mode, wrote, writing, endVars>>
        /\ UNCHANGED step
    BY <1>2 DEF Symlink, RW, RO
  <2>2. "link" \in Kinds
    BY DEF Kinds
  <2> QED BY <2>1, <2>2, Stays, CreateIInv
<1> QED BY <1>1, <1>2

\* Setstat takes from the wrote map what it changes.
LEMMA SetstatIInv ==
    ASSUME FilesIInv, NEW w \in Workers, NEW p \in Paths, Setstat(w, p)
    PROVE  FilesIInv'
<1>1. UNCHANGED <<mode, dirVars, wrote, writing, endVars>> /\ SessionOf[w] \in Sessions
  BY DropBoxAssumption DEF Setstat
<1>2. ASSUME mode # RO, NEW actual \in Paths, NEW flags \in SUBSET Attrs,
             Then(w, [op |-> "setstat", actual |-> actual, todo |-> flags]),
             writeOnly => Leads(SessionOf[w], actual)
      PROVE  FilesIInv'
  <2> DEFINE x == [op |-> "setstat", actual |-> actual, todo |-> flags]
  <2>1. x \in Steps /\ x.actual = actual
    BY NewSteps
  <2> QED BY <1>1, <1>2, <2>1, ThenIInv, WritingType
<1>3. PICK flags \in SUBSET Attrs :
         \/ /\ mode = RW
            /\ Then(w, [op |-> "setstat", actual |-> p, todo |-> flags])
         \/ /\ writeOnly /\ p \in DOMAIN wrote[SessionOf[w]]
            /\ Then(w, [op |-> "setstat", actual |-> wrote[SessionOf[w]][p],
                        todo |-> flags])
  BY DEF Setstat
<1>4. mode = RW => mode # RO /\ ~writeOnly
  BY DEF RW, RO, writeOnly, WO, WOPlus
<1>5. ASSUME writeOnly, p \in DOMAIN wrote[SessionOf[w]]
      PROVE  /\ mode # RO
             /\ wrote[SessionOf[w]][p] \in Paths
             /\ Leads(SessionOf[w], wrote[SessionOf[w]][p])
  BY <1>1, <1>5
  DEF FilesIInv, FilesTypeOK, SessionsOK, OwnPaths, writeOnly, RO, WO, WOPlus
<1> QED BY <1>2, <1>3, <1>4, <1>5

\* setstat changes what its path leads to.
LEMMA SetstatStepIInv ==
    ASSUME FilesIInv, NEW w \in Workers, SetstatStep(w)
    PROVE  FilesIInv'
<1> DEFINE p == step[w].actual
<1>1. UNCHANGED <<mode, wrote, writing, endVars>> /\ SessionOf[w] \in Sessions
  BY DropBoxAssumption DEF SetstatStep
<1>2. step[w] \in Steps /\ step[w].op = "setstat"
  BY DEF SetstatStep, FilesIInv, FilesTypeOK, SessionsOK
<1>3. mode # RO
  BY <1>2 DEF FilesIInv, ReadOnly, Idle
<1>4. PICK left \in SUBSET step[w].todo :
         \/ /\ p \in DOMAIN tree
            /\ Adjust(SessionOf[w], tree[p])
            /\ Then(w, Idle) \/ Then(w, [step[w] EXCEPT !.todo = left])
         \/ Then(w, Idle) /\ UNCHANGED dirVars
  <2>1. PICK a \in step[w].todo :
           IF p \in DOMAIN tree /\ (a = "size" => IsFile(p))
           THEN /\ Adjust(SessionOf[w], tree[p])
                /\ Then(w, IF step[w].todo \ {a} = {} THEN Idle
                           ELSE [step[w] EXCEPT !.todo = step[w].todo \ {a}])
           ELSE Then(w, Idle) /\ UNCHANGED dirVars
    BY DEF SetstatStep
  <2>2. step[w].todo \ {a} \in SUBSET step[w].todo
    OBVIOUS
  <2>3. \/ /\ p \in DOMAIN tree
           /\ Adjust(SessionOf[w], tree[p])
           /\ \/ Then(w, Idle)
              \/ Then(w, [step[w] EXCEPT !.todo = step[w].todo \ {a}])
        \/ Then(w, Idle) /\ UNCHANGED dirVars
    BY <2>1
  <2> QED BY <2>2, <2>3
<1>5. Idle \in Steps /\ Idle.op \notin {"mark", "setstat"}
  BY DEF Steps, Idle
<1>6. writeOnly => Leads(SessionOf[w], p)
  BY <1>2 DEF FilesIInv, OwnPaths
<1>7. CASE Then(w, Idle) /\ UNCHANGED dirVars
  BY <1>1, <1>3, <1>5, <1>7, ThenIInv, WritingType
<1>8. ASSUME p \in DOMAIN tree, Adjust(SessionOf[w], tree[p]),
             NEW x \in Steps, Then(w, x),
             x.op \in {"mark", "setstat"} => x.actual = p
      PROVE  FilesIInv'
  <2>1. tree[p] \in 1..Len(inode)
    BY <1>8 DEF FilesIInv, FilesTypeOK, DirectoryOK
  <2>2. writeOnly => \A q \in DOMAIN tree :
           tree[q] = tree[p] =>
               q \in taken[SessionOf[w]] \/ inode[tree[p]].by = SessionOf[w]
    BY <1>6, <1>8 DEF Leads, FilesIInv, OneName
  <2>3. writeOnly /\ x.op \in {"mark", "setstat"} => Leads(SessionOf[w], x.actual)
    BY <1>6, <1>8
  <2> QED BY <1>1, <1>3, <1>8, <2>1, <2>2, <2>3, AdjustIInv, WritingType
<1>9. /\ [step[w] EXCEPT !.todo = left] \in Steps
      /\ [step[w] EXCEPT !.todo = left].actual = p
  BY <1>2, StepFields
<1> QED BY <1>4, <1>5, <1>7, <1>8, <1>9

\* Rename, Remove and Link of a read-write service.
LEMMA MoveIInv ==
    ASSUME FilesIInv, NEW w \in Workers, NEW p \in Paths, NEW q \in Paths,
           Rename(w, p, q) \/ Remove(w, p) \/ Link(w, p, q)
    PROVE  FilesIInv'
<1>1. /\ mode = RW
      /\ UNCHANGED <<mode, inode, adjusted, taken, wrote, writing, step, endVars>>
  BY DEF Rename, Remove, Link
<1>2. ASSUME DOMAIN tree' \subseteq Paths \ {Root},
             \A x \in DOMAIN tree' : tree'[x] \in 1..Len(inode)
      PROVE  FilesIInv'
  <2>1. DirectoryOK'
    BY <1>1, <1>2 DEF FilesIInv, FilesTypeOK, DirectoryOK
  <2> QED BY <1>1, <2>1, ReadWriteIInv
<1>3. /\ DOMAIN tree \subseteq Paths \ {Root}
      /\ \A x \in DOMAIN tree : tree[x] \in 1..Len(inode)
  BY DEF FilesIInv, FilesTypeOK, DirectoryOK
<1>4. CASE Rename(w, p, q)
  <2> DEFINE new == {Moved(p, q, x) : x \in Within(p)}
  <2>1. /\ q # Root
        /\ \A y \in Within(p) : Len(q) + Len(y) - Len(p) <= 2
        /\ tree' = [x \in (DOMAIN tree \ Within(p)) \cup new |->
                      IF x \in new THEN tree[Moved(q, p, x)] ELSE tree[x]]
    BY <1>4 DEF Rename
  <2>2. ASSUME NEW x \in new PROVE x \in Paths \ {Root} /\ Moved(q, p, x) \in DOMAIN tree
    <3>1. PICK y \in Within(p) : x = Moved(p, q, y)
      OBVIOUS
    <3>2. y \in DOMAIN tree /\ Len(y) >= Len(p) /\ SubSeq(y, 1, Len(p)) = p
      BY DEF Within
    <3>3. y \in Paths /\ q \in Paths \ {Root} /\ Movable(p, q, y)
      BY <1>3, <2>1, <3>2 DEF Movable
    <3>4. x \in Paths \ {Root} /\ Moved(q, p, x) = y
      BY <3>1, <3>3, MovedPaths
    <3> QED BY <3>2, <3>4
  <2> HIDE DEF new
  <2>3. /\ DOMAIN tree' \subseteq DOMAIN tree \cup new
        /\ \A x \in DOMAIN tree' :
              tree'[x] = IF x \in new THEN tree[Moved(q, p, x)] ELSE tree[x]
    BY <2>1
  <2>4. DOMAIN tree' \subseteq Paths \ {Root}
    BY <1>3, <2>2, <2>3
  <2>5. ASSUME NEW x \in DOMAIN tree' PROVE tree'[x] \in 1..Len(inode)
    BY <1>3, <2>2, <2>3
  <2> QED BY <1>2, <2>4, <2>5
<1>5. CASE Remove(w, p)
  BY <1>2, <1>3, <1>5 DEF Remove, Without
<1>6. CASE Link(w, p, q)
  <2>1. q # Root /\ p \in DOMAIN tree /\ tree' = With(tree, q, tree[p])
    BY <1>6 DEF Link, Free, IsFile
  <2> QED BY <1>2, <1>3, <2>1 DEF With
<1> QED BY <1>4, <1>5, <1>6

\* The owner empties a path.
LEMMA CollectIInv ==
    ASSUME FilesIInv, NEW p \in Paths, Collect(p)
    PROVE  FilesIInv'
<1>1. /\ p \in DOMAIN tree
      /\ DOMAIN tree' = DOMAIN tree \ {p}
      /\ \A q \in DOMAIN tree' : tree'[q] = tree[q]
      /\ taken' = [s \in Sessions |-> IF writeOnly /\ inode[tree[p]].by = s
                                     THEN taken[s] \cup {p} ELSE taken[s]]
      /\ UNCHANGED <<mode, inode, adjusted, wrote, writing, step, endVars>>
  BY DEF Collect, Without
<1>2. DirectoryOK' /\ SessionsOK'
  <2>1. taken' \in [Sessions -> SUBSET (Paths \ {Root})]
    BY <1>1 DEF FilesIInv, FilesTypeOK, DirectoryOK
  <2> QED
    BY <1>1, <2>1 DEF FilesIInv, FilesTypeOK, DirectoryOK, SessionsOK, endVars
<1>3. ReadOnly' /\ OneName' /\ OwnFiles' /\ OnlyOwnAdjusted'
  <2>1. \A q \in DOMAIN tree' : \A r \in adjusted[tree[q]] : r \in Sessions
    <3>1. \A i \in 1..Len(adjusted) : adjusted[i] \subseteq Sessions
      BY ElementOfSeq DEF FilesIInv, FilesTypeOK, DirectoryOK
    <3> QED BY <1>1, <3>1 DEF FilesIInv, FilesTypeOK, DirectoryOK
  <2>2. OnlyOwnAdjusted'
    BY <1>1, <2>1 DEF FilesIInv, OnlyOwnAdjusted, writeOnly
  <2> QED
    BY <1>1, <2>2 DEF FilesIInv, ReadOnly, OneName, OwnFiles, writeOnly
<1>4. OwnPaths'
  <2>1. CASE writeOnly
    <3>1. \A r \in Sessions : \A q : Leads(r, q) => Leads(r, q)'
      BY <1>1, <2>1 DEF Leads
    <3> QED
      BY <1>1, <3>1, OwnPathsKept, DropBoxAssumption
      DEF FilesIInv, FilesTypeOK, SessionsOK
  <2>2. CASE ~writeOnly
    BY <1>1, <2>2 DEF OwnPaths, writeOnly
  <2> QED BY <2>1, <2>2
<1> QED BY <1>1, <1>2, <1>3, <1>4 DEF FilesIInv, FilesTypeOK

\* The end of a session closes its files.
LEMMA EndIInv ==
    ASSUME FilesIInv, NEW s \in Sessions,
           ServeReturns(s) \/ Exit(s) \/ CloseServer(s)
    PROVE  FilesIInv'
<1>1. /\ UNCHANGED <<mode, tree, inode, adjusted, taken, wrote, step>>
      /\ writing' \in [Sessions -> SUBSET (1..Len(inode))]
      /\ \A r \in Sessions : writing'[r] \subseteq writing[r]
      /\ session' \in [Sessions -> {"serving", "served", "exited", "closed"}]
      /\ status' \in [Sessions -> BOOLEAN]
  BY DEF ServeReturns, Exit, CloseServer, dirVars, FilesIInv, FilesTypeOK, SessionsOK
<1>2. /\ DirectoryOK' /\ OneName' /\ OnlyOwnAdjusted'
      /\ \A r \in Sessions : \A q : Leads(r, q) => Leads(r, q)'
  BY <1>1, DirectoryKept DEF dirVars
<1>3. SessionsOK' /\ ReadOnly' /\ OwnFiles'
  BY <1>1 DEF FilesIInv, FilesTypeOK, SessionsOK, ReadOnly, OwnFiles, writeOnly
<1>4. OwnPaths'
  BY <1>1, <1>2, OwnPathsKept, DropBoxAssumption
  DEF FilesIInv, FilesTypeOK, SessionsOK
<1> QED BY <1>1, <1>2, <1>3, <1>4 DEF FilesIInv, FilesTypeOK

\* Every step preserves the invariant.
LEMMA FilesNextIInv == FilesIInv /\ [FilesNext]_filesVars => FilesIInv'
<1> SUFFICES ASSUME FilesIInv, [FilesNext]_filesVars PROVE FilesIInv'
  OBVIOUS
<1>1. ASSUME NEW w \in Workers,
             FilewriteRetry(w) \/ MarkOwn(w) \/ SetstatStep(w)
      PROVE  FilesIInv'
  <2>1. Root \in Paths
    BY DEF Paths
  <2> QED BY <1>1, <2>1, FilewriteIInv, MarkOwnIInv, SetstatStepIInv
<1>2. ASSUME NEW w \in Workers, NEW i \in 1..Len(inode), WriteAt(w, i)
      PROVE  FilesIInv'
  <2>1. Root \in Paths
    BY DEF Paths
  <2> QED BY <1>2, <2>1, WriteIInv
<1>3. ASSUME NEW w \in Workers, NEW p \in Requests,
             \/ FilewriteWO(w, p) \/ FilewritePlus(w, p) \/ FilewriteRW(w, p)
             \/ Mkdir(w, p) \/ Setstat(w, p) \/ Remove(w, p) \/ Symlink(w, p)
      PROVE  FilesIInv'
  <2>1. p \in Paths
    BY RequestsAssumption
  <2> QED BY <1>3, <2>1, FilewriteIInv, WriteIInv, MakeIInv, SetstatIInv, MoveIInv
<1>4. ASSUME NEW w \in Workers, NEW p \in Requests, NEW q \in Requests,
             Rename(w, p, q) \/ Link(w, p, q)
      PROVE  FilesIInv'
  <2>1. p \in Paths /\ q \in Paths
    BY RequestsAssumption
  <2> QED BY <1>4, <2>1, MoveIInv
<1>5. CASE UNCHANGED filesVars
  BY <1>5 DEF filesVars, FilesIInv, FilesTypeOK, DirectoryOK, SessionsOK, ReadOnly,
     OneName, OwnPaths, OwnFiles, OnlyOwnAdjusted, Leads, writeOnly
<1> QED
  BY <1>1, <1>2, <1>3, <1>4, <1>5, CollectIInv, EndIInv DEF FilesNext

-----------------------------------------------------------------------------
(* The theorems about the file service.                                    *)

\* Every reachable state of the file service satisfies its invariant.
THEOREM FilesInvariance == FilesSpec => []FilesIInv
BY FilesInitIInv, FilesNextIInv, PTL DEF FilesSpec

\* Every variable keeps to its type: every path of the tree and every file open
\* for writing is a file or directory that exists.
THEOREM FilesTypeCorrect == FilesSpec => []FilesTypeOK
<1>1. FilesIInv => FilesTypeOK
  BY DEF FilesIInv
<1> QED BY FilesInvariance, <1>1, PTL

\* However many sessions and workers use a drop box at once, whoever has
\* written to or changed a file created it, or had its own file in that place
\* taken away by the owner.
THEOREM OnlyOwnAdjustedInvariance == FilesSpec => []OnlyOwnAdjusted
<1>1. FilesIInv => OnlyOwnAdjusted
  BY DEF FilesIInv
<1> QED BY FilesInvariance, <1>1, PTL

\* A drop box answers every session as a directory would that holds only what
\* the session created, in write-only-plus mode the directories, and whatever
\* lies where the owner has taken something of the session's away.
THEOREM AnswersHideOthersInvariance == FilesSpec => []AnswersHideOthers
<1>1. FilesIInv => AnswersHideOthers
  <2> SUFFICES ASSUME FilesIInv, writeOnly, NEW s \in Sessions, NEW p \in Requests
               PROVE  Answers(tree, s, p) =
                          Answers([q \in Visible(s) |-> tree[q]], s, p)
    BY DEF AnswersHideOthers
  <2> DEFINE seen == [q \in Visible(s) |-> tree[q]]
  <2>1. /\ Fileread(tree, p) = Fileread(seen, p)
        /\ Readlink(tree, p) = Readlink(seen, p)
        /\ FilelistList(tree, p) = FilelistList(seen, p)
    BY DEF Fileread, Readlink, FilelistList
  <2>2. /\ DOMAIN seen = Visible(s)
        /\ \A q \in Visible(s) : q \in DOMAIN tree /\ seen[q] = tree[q]
    BY DEF Visible
  <2> HIDE DEF seen
  <2>3. ASSUME NEW q, q = Root \/ q \in Visible(s)
        PROVE  Look(seen, q) = Look(tree, q)
    BY <2>2, <2>3 DEF Look
  <2>4. ASSUME p \in DOMAIN wrote[s]
        PROVE  stat(tree, s, p) = stat(seen, s, p)
    <3>1. Leads(s, wrote[s][p])
      BY <2>4 DEF FilesIInv, OwnPaths
    <3>2. wrote[s][p] \in DOMAIN tree => wrote[s][p] \in Visible(s)
      BY <3>1 DEF Leads, Visible
    <3>3. Look(seen, wrote[s][p]) = Look(tree, wrote[s][p])
      BY <2>2, <2>3, <3>2 DEF Look
    <3> QED BY <2>4, <3>3 DEF stat
  <2>5. ASSUME p \notin DOMAIN wrote[s], mode = WO
        PROVE  stat(tree, s, p) = stat(seen, s, p)
    BY <2>5 DEF stat, IsDir, Look
  <2>6. ASSUME p \notin DOMAIN wrote[s], mode # WO
        PROVE  stat(tree, s, p) = stat(seen, s, p)
    <3>1. mode = WOPlus
      BY <2>6 DEF writeOnly
    <3>2. IsDir(tree, p) => p = Root \/ p \in Visible(s)
      BY <3>1 DEF IsDir, Visible
    <3>3. IsDir(seen, p) <=> IsDir(tree, p)
      BY <2>2, <3>2 DEF IsDir
    <3>4. Look(seen, p) = Look(tree, p) \/ ~IsDir(tree, p)
      BY <2>3, <3>2
    <3> QED BY <2>6, <3>3, <3>4 DEF stat
  <2>7. stat(tree, s, p) = stat(seen, s, p)
    BY <2>4, <2>5, <2>6
  <2> QED BY <2>1, <2>7 DEF Answers, seen
<1> QED BY FilesInvariance, <1>1, PTL

\* No step of a session takes a file of a drop box away or puts another in its
\* place, and no step of a session creates, moves, writes to or changes
\* anything of a read-only service.
THEOREM NothingIsLost == FilesSpec => NothingLost
<1> DEFINE Kept ==
        mode # RW =>
          \/ \E p \in Paths : Collect(p)
          \/ mode = RO /\ UNCHANGED dirVars
          \/ writeOnly /\ \A p \in DOMAIN tree :
                 p \in DOMAIN tree' /\ tree'[p] = tree[p]
<1>1. ASSUME FilesIInv, [FilesNext]_filesVars PROVE [Kept]_filesVars
  <2> SUFFICES ASSUME FilesNext, mode # RW,
                      \A p \in Paths : ~Collect(p)
               PROVE  \/ mode = RO /\ UNCHANGED dirVars
                      \/ writeOnly /\ \A p \in DOMAIN tree :
                             p \in DOMAIN tree' /\ tree'[p] = tree[p]
    BY <1>1
  <2>1. mode = RO \/ writeOnly
    BY <1>1, DropBoxAssumption DEF FilesIInv, FilesTypeOK, writeOnly
  <2>2. CASE UNCHANGED dirVars
    BY <2>1, <2>2 DEF dirVars
  <2>3. ASSUME mode # RO, NEW s, NEW p, NEW kind, CreateExclusive(s, p, kind)
        PROVE  writeOnly /\ \A q \in DOMAIN tree :
                   q \in DOMAIN tree' /\ tree'[q] = tree[q]
    BY <2>1, <2>3 DEF CreateExclusive, Free, With
  <2>4. ASSUME mode # RO, NEW s, NEW i, Adjust(s, i)
        PROVE  writeOnly /\ \A q \in DOMAIN tree :
                   q \in DOMAIN tree' /\ tree'[q] = tree[q]
    BY <2>1, <2>4 DEF Adjust
  <2>5. ASSUME NEW w \in Workers, FilewriteRetry(w) \/ MarkOwn(w) \/ SetstatStep(w)
        PROVE  /\ mode # RO
               /\ \/ UNCHANGED dirVars
                  \/ \E s, p, kind : CreateExclusive(s, p, kind)
                  \/ \E s, i : Adjust(s, i)
    <3>1. mode # RO
      BY <1>1, <2>5
      DEF FilewriteRetry, MarkOwn, SetstatStep, FilesIInv, ReadOnly, Idle
    <3>2. ASSUME FilewriteRetry(w)
          PROVE  \/ UNCHANGED dirVars
                 \/ \E s, p, kind : CreateExclusive(s, p, kind)
      BY <3>2 DEF FilewriteRetry, OpenNew
    <3>3. MarkOwn(w) => UNCHANGED dirVars
      BY DEF MarkOwn
    <3>4. SetstatStep(w) => UNCHANGED dirVars \/ \E s, i : Adjust(s, i)
      BY DEF SetstatStep
    <3> QED BY <2>5, <3>1, <3>2, <3>3, <3>4
  <2>6. ASSUME NEW w \in Workers, NEW i \in 1..Len(inode), WriteAt(w, i)
        PROVE  mode # RO /\ Adjust(SessionOf[w], i)
    BY <1>1, <2>6, DropBoxAssumption DEF WriteAt, FilesIInv, ReadOnly
  <2>7. ASSUME NEW w \in Workers, NEW p \in Requests,
               \/ FilewriteWO(w, p) \/ FilewritePlus(w, p) \/ FilewriteRW(w, p)
               \/ Mkdir(w, p) \/ Setstat(w, p) \/ Remove(w, p) \/ Symlink(w, p)
        PROVE  \/ UNCHANGED dirVars
               \/ mode # RO /\ \E s, q, kind : CreateExclusive(s, q, kind)
    BY <2>7 DEF FilewriteWO, FilewritePlus, FilewriteRW, Mkdir, Setstat, Remove,
       Symlink, OpenNew, RO, WO, WOPlus
  <2>8. ASSUME NEW w \in Workers, NEW p \in Requests, NEW q \in Requests,
               Rename(w, p, q) \/ Link(w, p, q)
        PROVE  FALSE
    BY <2>8 DEF Rename, Link
  <2>9. ASSUME NEW s \in Sessions, ServeReturns(s) \/ Exit(s) \/ CloseServer(s)
        PROVE  UNCHANGED dirVars
    BY <2>9 DEF ServeReturns, Exit, CloseServer
  <2> QED
    BY <2>2, <2>3, <2>4, <2>5, <2>6, <2>7, <2>8, <2>9 DEF FilesNext
<1>2. FilesIInv /\ [FilesNext]_filesVars => [Kept]_filesVars
  BY <1>1
<1> QED BY FilesInvariance, <1>2, PTL DEF FilesSpec, NothingLost
=============================================================================
