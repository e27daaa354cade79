------------------------------- MODULE DropBox -------------------------------
(***************************************************************************)
(* The rooted SFTP service: rootedFiles on a directory that several        *)
(* sessions and its owner use at once. The directory is a tree of paths    *)
(* naming inodes; a session's requests are served by several workers of    *)
(* the SFTP library, so each handler is split where it gives up h.mu or    *)
(* goes back to the file system by name.                                   *)
(*                                                                         *)
(* Symbolic links are created and removed but not followed: a request      *)
(* through a link acts on its target, and requests for the target's own    *)
(* path are among the inputs.                                              *)
(***************************************************************************)
EXTENDS Integers, Sequences

CONSTANTS
    Sessions,    \* SFTP sessions, one rootedFiles each
    Workers,     \* the library's goroutines that serve requests
    SessionOf,   \* the session each worker serves
    Owner,       \* the owner of the served directory
    Names,       \* base names that clients ask for
    Fresh,       \* base names that uniqueUploadPath makes up
    Requests,    \* the paths that clients ask for
    OwnFile,     \* a file and a directory that the owner has put there
    OwnDir,
    Attrs,       \* the attributes a Setstat may carry
    Modes,       \* the FileServeModes checked
    MaxInodes    \* bound: files and directories ever created, per mode, with
                 \* the owner's two

RO == "RO"
RW == "RW"
WO == "WO"
WOPlus == "WOPlus"

ASSUME DropBoxAssumption ==
    /\ SessionOf \in [Workers -> Sessions]
    /\ Owner \notin Sessions
    /\ Names \cap Fresh = {}
    /\ Attrs \subseteq {"mode", "times", "size"}
    /\ Modes \subseteq {RO, RW, WO, WOPlus}
    /\ MaxInodes \in [Modes -> Nat \ {0, 1}]
    /\ {OwnFile, OwnDir} \subseteq Names /\ OwnFile # OwnDir

\* A path below the served directory; rel turns a request path into one.
Root == <<>>
Bases == Names \cup Fresh
Paths == {Root} \cup {<<b>> : b \in Bases} \cup (Bases \X Bases)
ASSUME RequestsAssumption == Requests \subseteq Paths
Parent(p) == SubSeq(p, 1, Len(p) - 1)
Kinds == {"file", "dir", "link"}

VARIABLES
    mode,       \* the service's FileServeMode
    tree,       \* the directory: path -> inode number
    inode,      \* inode number -> its kind and who created it
    adjusted,   \* history: inode number -> the sessions that wrote or changed it
    taken,      \* history, per session: paths from which the owner has taken
                \* something that session created
    wrote,      \* per session: h.wrote, client-visible path -> actual path
    writing,    \* per session: inodes open for writing
    step,       \* per worker: the rest of the request it is serving
    session,    \* per session: how far sftpSubsystemHandler is
    status      \* per session: the client has received an exit status

filesVars == <<mode, tree, inode, adjusted, taken, wrote, writing, step,
               session, status>>
dirVars == <<tree, inode, adjusted, taken>>
endVars == <<session, status>>

writeOnly == mode \in {WO, WOPlus}
Idle == [op |-> "idle"]

FilesInit ==
    /\ mode \in Modes
    /\ tree = [p \in {<<OwnFile>>, <<OwnDir>>} |-> IF p = <<OwnFile>> THEN 1 ELSE 2]
    /\ inode = <<[kind |-> "file", by |-> Owner], [kind |-> "dir", by |-> Owner]>>
    /\ adjusted = <<{}, {}>>
    /\ taken = [s \in Sessions |-> {}]
    /\ wrote = [s \in Sessions |-> <<>>]
    /\ writing = [s \in Sessions |-> {}]
    /\ step = [w \in Workers |-> Idle]
    /\ session = [s \in Sessions |-> "serving"]
    /\ status = [s \in Sessions |-> FALSE]

-----------------------------------------------------------------------------
(* The file system behind os.Root.                                         *)

IsDir(t, p) == p = Root \/ (p \in DOMAIN t /\ inode[t[p]].kind = "dir")
IsFile(p) == p \in DOMAIN tree /\ inode[tree[p]].kind = "file"
With(f, p, v) == [q \in DOMAIN f \cup {p} |-> IF q = p THEN v ELSE f[q]]
Within(p) == {q \in DOMAIN tree : Len(q) >= Len(p) /\ SubSeq(q, 1, Len(p)) = p}
Without(P) == [q \in DOMAIN tree \ P |-> tree[q]]
Moved(p, q, x) == q \o SubSeq(x, Len(p) + 1, Len(x))
Free(p) == p # Root /\ p \notin DOMAIN tree /\ IsDir(tree, Parent(p))

\* O_CREATE|O_EXCL, Mkdir or Symlink: a new inode under a name not in use.
CreateExclusive(s, p, kind) ==
    /\ Free(p)
    /\ Len(inode) < MaxInodes[mode]
    /\ tree' = With(tree, p, Len(inode) + 1)
    /\ inode' = Append(inode, [kind |-> kind, by |-> s])
    /\ adjusted' = Append(adjusted, {})
    /\ UNCHANGED taken

\* Session s writes to inode i or changes its attributes. Who did is kept,
\* except in read-write mode, where anyone may.
Adjust(s, i) ==
    /\ adjusted' = [adjusted EXCEPT ![i] = IF mode = RW THEN @ ELSE @ \cup {s}]
    /\ UNCHANGED <<tree, inode, taken>>

\* The owner takes a file, or an empty directory, out of the directory.
Collect(p) ==
    /\ p \in DOMAIN tree
    /\ Within(p) = {p}
    /\ tree' = Without({p})
    /\ taken' = [s \in Sessions |->
                    IF writeOnly /\ inode[tree[p]].by = s
                    THEN taken[s] \cup {p} ELSE taken[s]]
    /\ UNCHANGED <<mode, inode, adjusted, wrote, writing, step, endVars>>

-----------------------------------------------------------------------------
(* Uploads.                                                                *)

Serves(w) == step[w] = Idle /\ session[SessionOf[w]] = "serving"
Then(w, next) == step' = [step EXCEPT ![w] = next]

\* uniqueUploadPath: a sibling of the requested path. Its random part may
\* repeat a name made up before.
uniqueUploadPath(p) == {Append(Parent(p), f) : f \in Fresh}

\* One OpenFile of a drop box: the new file is open, and markOwn comes next.
OpenNew(w, p, actual) ==
    LET s == SessionOf[w] IN
    /\ CreateExclusive(s, actual, "file")
    /\ writing' = [writing EXCEPT ![s] = @ \cup {Len(inode) + 1}]
    /\ Then(w, [op |-> "mark", path |-> p, actual |-> actual])

\* Filewrite in strict write-only mode: a flat name, always replaced.
FilewriteWO(w, p) ==
    /\ Serves(w)
    /\ mode = WO
    /\ p # Root /\ Len(p) = 1
    /\ \E actual \in uniqueUploadPath(p) : OpenNew(w, p, actual)
    /\ UNCHANGED <<mode, wrote, endVars>>

\* Filewrite in write-only-plus mode: the requested name if it is free. If
\* it is not, OpenFile is called again, later, with a name made up.
FilewritePlus(w, p) ==
    /\ Serves(w)
    /\ mode = WOPlus
    /\ \/ OpenNew(w, p, p)
       \/ /\ p \in DOMAIN tree \cup {Root}
          /\ Then(w, [op |-> "retry", path |-> p])
          /\ UNCHANGED <<dirVars, writing>>
    /\ UNCHANGED <<mode, wrote, endVars>>

\* The second OpenFile; a name in use is an error, and so is a directory
\* that the owner has taken away meanwhile.
FilewriteRetry(w) ==
    /\ step[w].op = "retry"
    /\ \E actual \in uniqueUploadPath(step[w].path) :
          \/ OpenNew(w, step[w].path, actual)
          \/ /\ actual \in DOMAIN tree \/ ~IsDir(tree, Parent(actual))
             /\ Then(w, Idle)
             /\ UNCHANGED <<dirVars, writing>>
    /\ UNCHANGED <<mode, wrote, endVars>>

\* markOwn, under h.mu.
MarkOwn(w) ==
    /\ step[w].op = "mark"
    /\ wrote' = [wrote EXCEPT ![SessionOf[w]] =
                    With(@, step[w].path, step[w].actual)]
    /\ Then(w, Idle)
    /\ UNCHANGED <<mode, dirVars, writing, endVars>>

\* Filewrite in read-write mode: an open with the client's own flags, of
\* which Trunc changes the file at once.
FilewriteRW(w, p) ==
    LET s == SessionOf[w] IN
    /\ Serves(w)
    /\ mode = RW
    /\ \E pflags \in SUBSET {"Creat", "Trunc", "Excl"} :
          \/ /\ "Creat" \in pflags
             /\ CreateExclusive(s, p, "file")
             /\ writing' = [writing EXCEPT ![s] = @ \cup {Len(inode) + 1}]
          \/ /\ IsFile(p)
             /\ ~ {"Creat", "Excl"} \subseteq pflags
             /\ IF "Trunc" \in pflags THEN Adjust(s, tree[p])
                                      ELSE UNCHANGED dirVars
             /\ writing' = [writing EXCEPT ![s] = @ \cup {tree[p]}]
    /\ UNCHANGED <<mode, wrote, step, endVars>>

\* The library writes what the client sends to the file Filewrite returned.
WriteAt(w, i) ==
    /\ Serves(w)
    /\ i \in writing[SessionOf[w]]
    /\ Adjust(SessionOf[w], i)
    /\ UNCHANGED <<mode, wrote, writing, step, endVars>>

-----------------------------------------------------------------------------
(* Filecmd.                                                                *)

\* Mkdir; a drop box's session owns the directory it made.
Mkdir(w, p) ==
    /\ Serves(w)
    /\ mode \in {RW, WOPlus}
    /\ CreateExclusive(SessionOf[w], p, "dir")
    /\ IF mode = WOPlus THEN Then(w, [op |-> "mark", path |-> p, actual |-> p])
                        ELSE UNCHANGED step
    /\ UNCHANGED <<mode, wrote, writing, endVars>>

\* Bug: a drop box changes whatever path the client names.
SetstatAnyPath(w, p) ==
    /\ Serves(w)
    /\ mode # RO
    /\ \E flags \in (SUBSET Attrs) \ {{}} :
          Then(w, [op |-> "setstat", actual |-> p, todo |-> flags])
    /\ UNCHANGED <<mode, dirVars, wrote, writing, endVars>>

\* Bug: read-only mode is not looked at.
SetstatReadOnly(w, p) ==
    /\ Serves(w)
    /\ \E flags \in (SUBSET Attrs) \ {{}} :
          \/ /\ mode \in {RO, RW}
             /\ Then(w, [op |-> "setstat", actual |-> p, todo |-> flags])
          \/ /\ writeOnly
             /\ p \in DOMAIN wrote[SessionOf[w]]
             /\ Then(w, [op |-> "setstat", actual |-> wrote[SessionOf[w]][p],
                         todo |-> flags])
    /\ UNCHANGED <<mode, dirVars, wrote, writing, endVars>>

\* Setstat finds the path to change: a drop box's only through ownPath.
Setstat(w, p) ==
    /\ Serves(w)
    /\ \E flags \in (SUBSET Attrs) \ {{}} :
          \/ /\ mode = RW
             /\ Then(w, [op |-> "setstat", actual |-> p, todo |-> flags])
          \/ /\ writeOnly
             /\ p \in DOMAIN wrote[SessionOf[w]]
             /\ Then(w, [op |-> "setstat", actual |-> wrote[SessionOf[w]][p],
                         todo |-> flags])
    /\ UNCHANGED <<mode, dirVars, wrote, writing, endVars>>

\* setstat looks the path up again for every attribute, in this order, and
\* stops at the first error: nothing there, or the size of a directory.
Before == [a \in {"mode", "times", "size"} |->
             CASE a = "mode" -> {} [] a = "times" -> {"mode"}
               [] OTHER -> {"mode", "times"}]

SetstatStep(w) ==
    /\ step[w].op = "setstat"
    /\ \E a \in step[w].todo :
          LET p == step[w].actual
              left == step[w].todo \ {a}
              works == p \in DOMAIN tree /\ (a = "size" => IsFile(p))
          IN /\ Before[a] \cap step[w].todo = {}
             /\ IF works
                THEN /\ Adjust(SessionOf[w], tree[p])
                     /\ Then(w, IF left = {} THEN Idle
                                ELSE [step[w] EXCEPT !.todo = left])
                ELSE Then(w, Idle) /\ UNCHANGED dirVars
    /\ UNCHANGED <<mode, wrote, writing, endVars>>

\* Rename, Remove or Rmdir, Link and Symlink, all in read-write mode only.
Rename(w, p, q) ==
    /\ Serves(w)
    /\ mode = RW
    /\ p \in DOMAIN tree /\ IsDir(tree, Parent(q)) /\ q # Root /\ q \notin Within(p)
    /\ q \in DOMAIN tree => Within(q) = {q} /\ IsDir(tree, p) = IsDir(tree, q)
    /\ \A x \in Within(p) : Len(q) + Len(x) - Len(p) <= 2
    /\ LET new == {Moved(p, q, x) : x \in Within(p)}
       IN tree' = [x \in (DOMAIN tree \ Within(p)) \cup new |->
                     IF x \in new THEN tree[Moved(q, p, x)] ELSE tree[x]]
    /\ UNCHANGED <<mode, inode, adjusted, taken, wrote, writing, step, endVars>>

Remove(w, p) ==
    /\ Serves(w)
    /\ mode = RW
    /\ p \in DOMAIN tree /\ Within(p) = {p}
    /\ tree' = Without({p})
    /\ UNCHANGED <<mode, inode, adjusted, taken, wrote, writing, step, endVars>>

Link(w, p, q) ==
    /\ Serves(w)
    /\ mode = RW
    /\ IsFile(p) /\ Free(q)
    /\ tree' = With(tree, q, tree[p])
    /\ UNCHANGED <<mode, inode, adjusted, taken, wrote, writing, step, endVars>>

Symlink(w, q) ==
    /\ Serves(w)
    /\ mode = RW
    /\ CreateExclusive(SessionOf[w], q, "link")
    /\ UNCHANGED <<mode, wrote, writing, step, endVars>>

-----------------------------------------------------------------------------
(* What a session is told; these requests change nothing.                  *)

\* An inode number, 0 for the served directory itself, or an error.
NoSuchFile == -1
Denied == -2
Look(t, p) == IF p = Root THEN 0
              ELSE IF p \in DOMAIN t THEN t[p] ELSE NoSuchFile

Fileread(t, p) == IF writeOnly THEN Denied ELSE Look(t, p)
Readlink(t, p) == IF writeOnly THEN Denied ELSE Look(t, p)
FilelistList(t, p) ==
    IF writeOnly THEN Denied
    ELSE IF ~IsDir(t, p) THEN NoSuchFile
    ELSE {q \in DOMAIN t : Parent(q) = p}

\* Bug: strict write-only mode shows the directories too.
statDirs(t, s, p) ==
    IF ~writeOnly THEN Look(t, p)
    ELSE IF p \in DOMAIN wrote[s] THEN Look(t, wrote[s][p])
    ELSE IF IsDir(t, p) THEN Look(t, p) ELSE NoSuchFile

\* stat, behind Stat and Lstat.
stat(t, s, p) ==
    IF ~writeOnly THEN Look(t, p)
    ELSE IF p \in DOMAIN wrote[s] THEN Look(t, wrote[s][p])
    ELSE IF mode = WO /\ p # Root THEN NoSuchFile
    ELSE IF IsDir(t, p) THEN Look(t, p) ELSE NoSuchFile

-----------------------------------------------------------------------------
(* sftpSubsystemHandler.                                                   *)

\* Serve returns when its workers have finished; or os.OpenRoot had failed.
ServeReturns(s) ==
    /\ session[s] = "serving"
    /\ \A w \in Workers : SessionOf[w] = s => step[w] = Idle
    /\ session' = [session EXCEPT ![s] = "served"]
    /\ UNCHANGED <<mode, dirVars, wrote, writing, step, status>>

\* sess.Exit, with 0 or 1, while the session's channel is open.
Exit(s) ==
    /\ session[s] = "served"
    /\ status' = [status EXCEPT ![s] = TRUE]
    /\ session' = [session EXCEPT ![s] = "exited"]
    /\ UNCHANGED <<mode, dirVars, wrote, writing, step>>

\* srv.Close closes the channel and the files left open; root.Close.
CloseServer(s) ==
    /\ session[s] = "exited"
    /\ session' = [session EXCEPT ![s] = "closed"]
    /\ writing' = [writing EXCEPT ![s] = {}]
    /\ UNCHANGED <<mode, dirVars, wrote, step, status>>

FilesNext ==
    \/ \E w \in Workers :
          \/ FilewriteRetry(w) \/ MarkOwn(w) \/ SetstatStep(w)
          \/ \E i \in 1..Len(inode) : WriteAt(w, i)
          \/ \E p \in Requests :
                \/ FilewriteWO(w, p) \/ FilewritePlus(w, p) \/ FilewriteRW(w, p)
                \/ Mkdir(w, p) \/ Setstat(w, p) \/ Remove(w, p) \/ Symlink(w, p)
                \/ \E q \in Requests : Rename(w, p, q) \/ Link(w, p, q)
    \/ \E p \in Paths : Collect(p)
    \/ \E s \in Sessions :
          ServeReturns(s) \/ Exit(s) \/ CloseServer(s)

FilesSpec == FilesInit /\ [][FilesNext]_filesVars

-----------------------------------------------------------------------------
(* Properties.                                                             *)

Steps ==
    {Idle} \cup [op : {"retry"}, path : Paths]
    \cup [op : {"mark"}, path : Paths, actual : Paths]
    \cup [op : {"setstat"}, actual : Paths, todo : SUBSET Attrs]

\* Every path in the tree names a file or directory that exists.
DirectoryOK ==
    /\ inode \in Seq([kind : Kinds, by : Sessions \cup {Owner}])
    /\ Len(inode) <= MaxInodes[mode]
    /\ DOMAIN tree \subseteq Paths \ {Root}
    /\ \A p \in DOMAIN tree : tree[p] \in 1..Len(inode)
    /\ adjusted \in Seq(SUBSET Sessions)
    /\ Len(adjusted) = Len(inode)
    /\ taken \in [Sessions -> SUBSET (Paths \ {Root})]

\* And so does every file open for writing.
SessionsOK ==
    /\ DOMAIN wrote = Sessions
    /\ \A s \in Sessions :
          /\ DOMAIN wrote[s] \subseteq Paths
          /\ \A p \in DOMAIN wrote[s] : wrote[s][p] \in Paths
    /\ writing \in [Sessions -> SUBSET (1..Len(inode))]
    /\ step \in [Workers -> Steps]
    /\ session \in [Sessions -> {"serving", "served", "exited", "closed"}]
    /\ status \in [Sessions -> BOOLEAN]

\* The values every variable can hold.
FilesTypeOK == mode \in Modes /\ DirectoryOK /\ SessionsOK

\* "A drop box lets a session adjust what it itself wrote [...] but can't
\* touch anything else": who writes to a file or changes it has created it,
\* or has once created what was in its place and the owner has taken away.
\* That much more than the comment says the code does allow, because the
\* wrote map keeps the name and not the file (Filecmd, setstat).
OnlyOwnAdjusted ==
    writeOnly => \A p \in DOMAIN tree : \A s \in adjusted[tree[p]] :
        inode[tree[p]].by = s \/ p \in taken[s]

\* What a drop box's session can see of the directory: what it created, in
\* write-only-plus mode the directories, and whatever others have put where
\* the owner took away something that the session had created.
Visible(s) ==
    {p \in DOMAIN tree : \/ inode[tree[p]].by = s
                         \/ mode = WOPlus /\ inode[tree[p]].kind = "dir"
                         \/ p \in taken[s]}

\* The answers to all the requests that ask for something.
Answers(t, s, p) ==
    <<Fileread(t, p), Readlink(t, p), FilelistList(t, p), stat(t, s, p)>>

\* A drop box answers a session as a directory would in which there is only
\* what that session can see: whether others have stored anything else, and
\* under which names, it cannot tell (Fileread, Filelist, Readlink, stat).
AnswersHideOthers ==
    writeOnly => \A s \in Sessions, p \in Requests :
        Answers(tree, s, p) = Answers([q \in Visible(s) |-> tree[q]], s, p)

\* Whatever interleaves, a step of a session never takes a file of a drop
\* box away or puts another in its place. In a read-only service it changes
\* nothing at all: no name, no file's content or attributes, and nothing is
\* created. Only the owner does such things (Filewrite, Filecmd).
NothingLost ==
    [][mode # RW =>
         \/ \E p \in Paths : Collect(p)
         \/ mode = RO /\ UNCHANGED dirVars
         \/ writeOnly /\ \A p \in DOMAIN tree :
                p \in DOMAIN tree' /\ tree'[p] = tree[p]]_filesVars
=============================================================================
