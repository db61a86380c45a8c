---------------------------- MODULE ArtifactSavers ----------------------------
(***************************************************************************)
(* The artifact savers of one JVM.  Each online action, batch action and   *)
(* pipeline has a saver of its own, and all of them copy files between one *)
(* local disk and one remote store (file), while the engines write their   *)
(* outputs to the local disk (run, writing).  metadata.artifactManagerType *)
(* says which class the savers are of (manager).                           *)
(*                                                                         *)
(* A saver handles one message at a time, in steps (work) between which    *)
(* other savers and engines go on.  The path of a local file depends on    *)
(* the artifact alone, so they meet there; and with HDFS they meet in the  *)
(* FileSystem too: FileSystem.get returns an instance that the whole JVM   *)
(* shares until somebody closes it, so at most one instance is open.       *)
(*                                                                         *)
(* A protocol is the number of the run that it was made for; a whole file  *)
(* is the number of the run that wrote it.  GetArtifact, which changes no  *)
(* file, is left to the modules of the actors that ask for it.             *)
(***************************************************************************)
EXTENDS Naturals, Sequences

CONSTANTS
    Saver,              \* the savers
    Artifact,           \* artifact names
    ArtifactsToLoad,    \* the artifacts that the action of each saver loads
    ArtifactsToPersist, \* the artifacts that the action of each saver makes
    Stored,             \* the artifacts of run 0 that the remote store has
    Local,              \* the local disk
    NoFile,             \* there is no such file
    Torn,               \* a file that is incomplete
    Idle,               \* a saver between two messages; no request has ended
    MaxRuns,            \* bound: runs of the engines after run 0
    MaxAsks             \* bound: messages sent to the savers

Protocol == 0..MaxRuns
Content == Protocol \union {NoFile, Torn}

Message == [op : {"SaveToRemote", "SaveToLocal"},
            artifact : Artifact, protocol : Protocol]
\* What a saver is at, and what becomes of it.
Work == [message : Message, open : BOOLEAN, alone : BOOLEAN,
         at : {"validate", "copy", "create", "copying", "copied"},
         read : Content, undisturbed : BOOLEAN, stored : BOOLEAN]
Result == [message : Message, got : Content, alone : BOOLEAN,
           outcome : {"Done", "closed", "vanished", "exists", "checksum",
                      "broken"},
           undisturbed : BOOLEAN, stored : BOOLEAN, own : BOOLEAN]

ASSUME ArtifactAssumption ==
    /\ ArtifactsToLoad \in [Saver -> SUBSET Artifact]
    /\ ArtifactsToPersist \in [Saver -> SUBSET Artifact]
    /\ Stored \subseteq Artifact
ASSUME FileAssumption == {NoFile, Torn, Local} \intersect Nat = {}
ASSUME IdleAssumption == Idle \notin Work \union Result \union Saver
ASSUME BoundAssumption == MaxRuns \in Nat /\ MaxAsks \in Nat

VARIABLES
    manager,    \* the class of the savers: "FS", "HDFS" or "S3"
    mailbox,    \* the mailbox of each saver
    work,       \* what each saver is at, or Idle
    file,       \* the files on the local disk and in the remote store
    crc,        \* HDFS: the checksum file beside each local file
    run,        \* engines: the last run that wrote each artifact
    writing,    \* engines: the artifacts that are being written
    saved,      \* the last run of which each artifact was to be stored
    asks,       \* number of messages sent
    own,        \* history: the artifacts whose local file is the engine's,
                \* and nobody else has touched it since
    last        \* history: the request that the last step ended, or Idle

vars == <<manager, mailbox, work, file, crc, run, writing, saved, asks, own,
          last>>
disk == <<file, crc, own>>
engine == <<run, writing>>
client == <<saved, asks>>

-----------------------------------------------------------------------------
\* Mutant of SaveToRemote: both arguments are strings, and they are swapped.
SaveToRemoteSwapped(a, p) ==
    [op |-> "SaveToRemote", artifact |-> p, protocol |-> a]

SaveToRemote(a, p) == [op |-> "SaveToRemote", artifact |-> a, protocol |-> p]
SaveToLocal(a, p)  == [op |-> "SaveToLocal",  artifact |-> a, protocol |-> p]

\* generatePaths
LocalPath(m)  == <<Local, m.artifact>>
RemotePath(m) == <<m.protocol, m.artifact>>
Place == ({Local} \union Protocol) \X Artifact

\* Mutant of Origin: both messages look for the local file.
OriginLocal(m) == LocalPath(m)

Origin(m) == IF m.op = "SaveToLocal" THEN RemotePath(m) ELSE LocalPath(m)
Destination(m) == IF m.op = "SaveToLocal" THEN LocalPath(m) ELSE RemotePath(m)

Init ==
    /\ manager \in {"FS", "HDFS", "S3"}
    /\ mailbox = [s \in Saver |-> <<>>] /\ work = [s \in Saver |-> Idle]
    /\ \E here \in SUBSET Stored :
          file = [x \in Place |-> IF x \in ({0} \X Stored) \union ({Local} \X here)
                                  THEN 0 ELSE NoFile]
    /\ crc = [a \in Artifact |-> "none"]
    /\ run = [a \in Artifact |-> 0] /\ writing = {}
    /\ saved = [a \in Artifact |-> 0] /\ asks = 0
    /\ own = {} /\ last = Idle

-----------------------------------------------------------------------------
(* The engines.  They write in place, and know nothing of checksum files.   *)

\* The savers that handle the same artifact, other than s, learn that their
\* local file was written or unlinked by somebody else.
Disturbed(a, s) ==
    [t \in Saver |-> IF t # s /\ work[t] # Idle /\ work[t].message.artifact = a
                     THEN [work[t] EXCEPT !.undisturbed = FALSE] ELSE work[t]]

EngineWrites(a, contents) ==
    /\ \E c \in contents : file' = [file EXCEPT ![<<Local, a>>] = c]
    /\ crc' = [crc EXCEPT ![a] = IF @ = "none" THEN @ ELSE "stale"]
    /\ work' = Disturbed(a, Idle)
    /\ UNCHANGED <<manager, mailbox, client>>

EngineBegins(a) ==
    /\ a \notin writing /\ run[a] < MaxRuns
    /\ run' = [run EXCEPT ![a] = @ + 1]
    /\ writing' = writing \union {a} /\ own' = own \union {a}
    /\ EngineWrites(a, {Torn})

\* If a saver has replaced or written the file meanwhile, it may be that one's,
\* or a mixture.
EngineEnds(a) ==
    /\ a \in writing
    /\ writing' = writing \ {a}
    /\ EngineWrites(a, {run[a]} \union
                       IF a \in own THEN {} ELSE {file[<<Local, a>>], Torn})
    /\ UNCHANGED <<run, own>>

-----------------------------------------------------------------------------
(* What the actions send to their savers                                    *)

Send(s, m) ==
    /\ asks < MaxAsks /\ asks' = asks + 1
    /\ mailbox' = [mailbox EXCEPT ![s] = Append(@, m)]
    /\ UNCHANGED <<manager, work, disk, engine>>

\* Mutant of SendToRemote: the output is sent again, as if the ask had timed out.
SendToRemoteAgain(s, a) ==
    /\ a \in ArtifactsToPersist[s] \ writing /\ 0 < run[a]
    /\ saved' = [saved EXCEPT ![a] = run[a]]
    /\ Send(s, SaveToRemote(a, run[a]))

\* When its engine has answered, an action has the output stored.
SendToRemote(s, a) ==
    /\ a \in ArtifactsToPersist[s] \ writing /\ saved[a] < run[a]
    /\ saved' = [saved EXCEPT ![a] = run[a]]
    /\ Send(s, SaveToRemote(a, run[a]))

\* Clients may name any protocol in a reload.
SendToLocal(s, a, p) ==
    a \in ArtifactsToLoad[s] /\ Send(s, SaveToLocal(a, p)) /\ UNCHANGED saved

-----------------------------------------------------------------------------
(* The savers.  A request goes through the steps "validate", "copy", (with  *)
(* FS) "create", "copying" and "copied".                                    *)

\* Receive starts.  With HDFS the file system is the one that is open in this
\* JVM, or a new one.
Take(s) ==
    /\ work[s] = Idle /\ mailbox[s] # <<>>
    /\ mailbox' = [mailbox EXCEPT ![s] = Tail(@)]
    /\ LET m == Head(mailbox[s])
           others == {t \in Saver : work[t] # Idle}
       IN work' = [t \in Saver |->
            IF t = s THEN [message |-> m, at |-> "validate", open |-> TRUE,
                           read |-> NoFile, undisturbed |-> TRUE,
                           stored |-> file[RemotePath(m)] = m.protocol,
                           alone |-> others = {} /\ m.artifact \notin writing]
            ELSE IF t \in others THEN [work[t] EXCEPT !.alone = FALSE]
            ELSE Idle]
    /\ UNCHANGED <<manager, disk, engine, client>>

\* Another saver has closed the file system that s is using.  The existence of
\* a local file is asked without it.
Closed(s) ==
    /\ manager = "HDFS" /\ ~work[s].open
    /\ \/ work[s].at \in {"copy", "copying"}
       \/ work[s].at = "validate" /\ work[s].message.op = "SaveToLocal"

At(s, step) == work[s] # Idle /\ work[s].at = step /\ ~Closed(s)

\* s goes on with w; the others are told if s has changed their local file.
Changes(s, m, w) ==
    /\ work' = [(IF m.op = "SaveToLocal" THEN Disturbed(m.artifact, s) ELSE work)
                EXCEPT ![s] = w]
    /\ own' = own \ (IF m.op = "SaveToLocal" THEN {m.artifact} ELSE {})

\* The request that s is at ends.
End(s, outcome) ==
    LET w == work[s] IN
    last' = [message |-> w.message, outcome |-> outcome,
             got |-> file[Destination(w.message)],
             alone |-> w.alone /\ w.undisturbed, undisturbed |-> w.undisturbed,
             stored |-> w.stored,
             own |-> /\ w.message.artifact \in own \ writing
                     /\ w.message.protocol = run[w.message.artifact]]

Found(s) ==
    /\ At(s, "validate") /\ file[Origin(work[s].message)] # NoFile
    /\ work' = [work EXCEPT ![s].at = "copy"]
    /\ UNCHANGED <<manager, mailbox, disk, engine, client>>

\* "Save process canceled", but the answer is Done.
Missing(s) ==
    /\ At(s, "validate") /\ file[Origin(work[s].message)] = NoFile
    /\ End(s, "Done")
    /\ work' = [work EXCEPT ![s] = Idle]
    /\ UNCHANGED <<manager, mailbox, disk, engine, client>>

\* Why the copy of s cannot go on.
Obstacle(s) ==
    LET m == work[s].message IN
    IF file[Origin(m)] = NoFile THEN "vanished"
    ELSE IF work[s].at = "create" /\ file[Destination(m)] # NoFile THEN "exists"
    ELSE IF /\ manager = "HDFS" /\ m.op = "SaveToRemote"
            /\ crc[m.artifact] = "stale" THEN "checksum"
    ELSE "none"

\* Files.copy with REPLACE_EXISTING removes the destination first.
Replace(s) ==
    /\ manager = "FS" /\ At(s, "copy") /\ Obstacle(s) = "none"
    /\ LET m == work[s].message IN
       /\ file' = [file EXCEPT ![Destination(m)] = NoFile]
       /\ Changes(s, m, [work[s] EXCEPT !.at = "create"])
    /\ UNCHANGED <<manager, mailbox, crc, engine, client>>

AtOpen(s) == IF manager = "FS" THEN At(s, "create") ELSE At(s, "copy")

\* Mutant of Open: the file system is closed before the copy.
OpenClosed(s) ==
    /\ AtOpen(s) /\ Obstacle(s) = "none"
    /\ Changes(s, work[s].message,
               [work[s] EXCEPT !.at = "copying", !.open = FALSE])
    /\ UNCHANGED <<manager, mailbox, file, crc, engine, client>>

\* An object in S3 does not appear before it is whole.  The local file system
\* of HDFS keeps a checksum file beside what it writes.
Open(s) ==
    /\ AtOpen(s) /\ Obstacle(s) = "none"
    /\ LET m == work[s].message IN
       /\ file' = IF manager = "S3" /\ m.op = "SaveToRemote" THEN file
                  ELSE [file EXCEPT ![Destination(m)] = Torn]
       /\ crc' = IF manager = "HDFS" /\ m.op = "SaveToLocal"
                 THEN [crc EXCEPT ![m.artifact] = "good"] ELSE crc
       /\ Changes(s, m, [work[s] EXCEPT
                           !.at = "copying", !.read = file[Origin(m)],
                           !.undisturbed = @ \/ m.op = "SaveToLocal"])
    /\ UNCHANGED <<manager, mailbox, engine, client>>

\* What was read is whole if nobody changed the origin meanwhile, and what is
\* written if nobody else wrote to the same local file.
Write(s) ==
    /\ At(s, "copying")
    /\ LET m == work[s].message
           now == file[Origin(m)]
           got == IF now = work[s].read THEN {now}
                  ELSE {now, work[s].read, Torn} \ {NoFile}
           mine == m.op = "SaveToRemote" \/ work[s].undisturbed
       IN  /\ \E c \in IF mine THEN got ELSE got \union {file[Destination(m)], Torn} :
                 file' = [file EXCEPT ![Destination(m)] = c]
           /\ crc' = IF manager = "HDFS" /\ ~mine
                     THEN [crc EXCEPT ![m.artifact] = "stale"] ELSE crc
           /\ Changes(s, m, [work[s] EXCEPT !.at = "copied"])
    /\ UNCHANGED <<manager, mailbox, engine, client>>

\* Mutant of Done: the answer does not wait for the copy.
DoneTooEarly(s) ==
    /\ At(s, "copying") \/ At(s, "copied")
    /\ End(s, "Done")
    /\ work' = [work EXCEPT ![s] = Idle]
    /\ UNCHANGED <<manager, mailbox, disk, engine, client>>

\* With HDFS the file system is closed, for every saver that has it.
Done(s) ==
    /\ At(s, "copied")
    /\ End(s, "Done")
    /\ work' = [t \in Saver |->
            IF t = s THEN Idle
            ELSE IF work[t] # Idle /\ manager = "HDFS" /\ work[s].open
                 THEN [work[t] EXCEPT !.open = FALSE] ELSE work[t]]
    /\ UNCHANGED <<manager, mailbox, disk, engine, client>>

-----------------------------------------------------------------------------
(* Receive throws: the saver is restarted with the mailbox it has, the      *)
(* message is gone and the ask stays open.                                  *)

\* Mutant of Throw: the message is handled again after the restart.
ThrowAndRetry(s, outcome) ==
    /\ End(s, outcome)
    /\ mailbox' = [mailbox EXCEPT ![s] = <<work[s].message>> \o @]
    /\ work' = [work EXCEPT ![s] = Idle]
    /\ UNCHANGED <<manager, disk, engine, client>>

\* Files.copy removes what it began to write; the others leave it.
Throw(s, outcome) ==
    LET m == work[s].message IN
    /\ End(s, outcome)
    /\ IF manager = "FS" /\ work[s].at = "copying"
       THEN file' = [file EXCEPT ![Destination(m)] = NoFile] /\ Changes(s, m, Idle)
       ELSE work' = [work EXCEPT ![s] = Idle] /\ UNCHANGED <<file, own>>
    /\ UNCHANGED <<manager, mailbox, crc, engine, client>>

FindClosed(s) == work[s] # Idle /\ Closed(s) /\ Throw(s, "closed")

FindObstacle(s) ==
    /\ At(s, "copy") \/ At(s, "create")
    /\ Obstacle(s) \in {"vanished", "exists"} /\ Throw(s, Obstacle(s))

\* The remote file has been created when the first block turns out to be bad,
\* and the local file is set aside.
FailChecksum(s) ==
    /\ At(s, "copy") /\ Obstacle(s) = "checksum"
    /\ LET m == work[s].message IN
       /\ End(s, "checksum")
       /\ file' = [file EXCEPT ![RemotePath(m)] = Torn, ![LocalPath(m)] = NoFile]
       /\ crc' = [crc EXCEPT ![m.artifact] = "none"]
       /\ work' = [Disturbed(m.artifact, s) EXCEPT ![s] = Idle]
       /\ own' = own \ {m.artifact}
    /\ UNCHANGED <<manager, mailbox, engine, client>>

\* The file system or the store fails.
BreakOff(s) == work[s] # Idle /\ Throw(s, "broken")

-----------------------------------------------------------------------------
Ends(s) ==
    \/ Missing(s) \/ Done(s)
    \/ FindClosed(s) \/ FindObstacle(s) \/ FailChecksum(s) \/ BreakOff(s)

GoesOn(s) ==
    Take(s) \/ Found(s) \/ Replace(s) \/ Open(s) \/ Write(s)

Step(s) == Ends(s) \/ (GoesOn(s) /\ last' = Idle)

Ask ==
    \E s \in Saver, a \in Artifact :
        \/ SendToRemote(s, a)
        \/ \E p \in Protocol : SendToLocal(s, a, p)

Next ==
    \/ /\ Ask \/ \E a \in Artifact : EngineBegins(a) \/ EngineEnds(a)
       /\ last' = Idle
    \/ \E s \in Saver : Step(s)

Spec == Init /\ [][Next]_vars

\* An operation of a file system or store ends, well or not, so a saver always
\* goes on.
Fairness == \A s \in Saver : WF_vars(Step(s))

FairSpec == Spec /\ Fairness

-----------------------------------------------------------------------------
TypeOK ==
    /\ manager \in {"FS", "HDFS", "S3"}
    /\ mailbox \in [Saver -> Seq(Message)]
    /\ work \in [Saver -> Work \union {Idle}]
    /\ file \in [Place -> Content]
    /\ crc \in [Artifact -> {"none", "good", "stale"}]
    /\ run \in [Artifact -> Protocol] /\ writing \subseteq Artifact
    /\ saved \in [Artifact -> Protocol] /\ asks \in 0..MaxAsks
    /\ own \subseteq Artifact /\ last \in Result \union {Idle}

\* When an action is told that its output is stored, the store has it, whole
\* and from that run, whatever the copies of other artifacts did to the file
\* system.  Only if another saver has written or replaced the local file since
\* the engine finished it may it be something else, or nothing.
StoresOwnOutput ==
    last # Idle =>
        (last.message.op = "SaveToRemote" /\ last.outcome = "Done" /\ last.own =>
            last.got = last.message.protocol)

\* A file that the store has whole stays as it is, whatever is copied beside it,
\* fails half-way or is given up: a protocol that could be loaded once can be
\* loaded again.  (Files.copy empties its destination, and no saver looks
\* whether that is there.)
StoredForGood ==
    [][\A a \in Artifact : \A p \in Protocol :
          file[<<p, a>>] = p => file'[<<p, a>>] = p]_vars

\* When an action is told that a file was copied to the local disk, and the
\* store has that file whole, the file on the disk is the one that was named.
\* Only another saver or an engine that wrote it meanwhile may have changed it.
CopiesWhatWasNamed ==
    last # Idle =>
        (/\ last.message.op = "SaveToLocal"
         /\ last.outcome = "Done" /\ last.undisturbed
         /\ last.stored
         => last.got = last.message.protocol)

\* A saver that is alone fails only if the file system does: what closes the
\* file system, removes the file or puts another one in its place is another
\* saver or an engine at work at the same time.  The exception is an artifact
\* that some action loads and another one makes: with HDFS a checksum file
\* stays behind, and then storing the next run's output fails.
AloneNeverFails ==
    last # Idle =>
        (last.alone => last.outcome \in {"Done", "broken"} \union
            IF \E s \in Saver : last.message.artifact \in ArtifactsToLoad[s]
            THEN {"checksum"} ELSE {})

\* No message holds a saver up for ever, and none is handled again and again,
\* though every copy of it may fail.
WorkEnds ==
    (\E s \in Saver : work[s] # Idle \/ mailbox[s] # <<>>) ~>
        \A s \in Saver : work[s] = Idle /\ mailbox[s] = <<>>
=============================================================================
